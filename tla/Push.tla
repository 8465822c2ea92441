--------------------------------- MODULE Push ---------------------------------
(*****************************************************************************)
(* One user's push connection, both ends: the Qt client's WebSocketClient,    *)
(* which a login runs and a logout stops, and the server's table of sessions  *)
(* with the session's queue and write loop.                                   *)
(*                                                                            *)
(* A connection has the number of the login whose token opens it. Between     *)
(* two suspension points of a coroutine nothing else runs, at either end.     *)
(*****************************************************************************)
EXTENDS Naturals, Sequences

CONSTANTS
    MaxRuns,    \* bound on the logins
    MaxEvents,  \* bound on the events announced
    Env         \* the environment events the instance allows

EnvEvents == {"drop", "refuse"}
PushAssumption == MaxRuns \in Nat /\ MaxEvents \in Nat /\ Env \subseteq EnvEvents
ASSUME PushAssumption

Conns == 1..MaxRuns
NoTask == [conn |-> 0, stage |-> "none", current |-> FALSE]

VARIABLES
    runs,      \* logins so far
    task,      \* runAsync: its connection, where it waits, and generation == generation_
    pending,   \* the run number of pending_token_, 0 for none
    last,      \* history: the login not followed by a logout, 0 for none
    link,      \* the connection as the client's socket sees it
    net,       \* frames on their way
    rx,        \* texts the generator has not yielded
    got,       \* history: events handled
    stage,     \* how far the server's coroutine for the connection is
    table,     \* sessions_[user], 0 if there is none
    posted,    \* handlers posted to the session's strand
    outgoing,  \* outgoing_
    writing,   \* writing_
    loops,     \* write_loop coroutines
    log,       \* history: events announced to the session
    events,    \* history: events announced
    overtaken  \* history: a session was entered after one of a later login

client == <<runs, task, pending, last, rx, got>>
server == <<stage, table, posted, outgoing, writing, loops, log, events, overtaken>>
vars == <<client, link, net, server>>

running == task.conn # 0

-----------------------------------------------------------------------------
(* The client *)

Opening(c) == [conn |-> c, stage |-> "opening", current |-> TRUE]

\* Requesting the upgrade; without a connection to start nothing is sent.
Requested(c) == IF c = 0 THEN stage ELSE [stage EXCEPT ![c] = "request"]

\* close() or abort(): what is on its way to this side is gone.
Closed(c) ==
    /\ link' = IF c = 0 THEN link ELSE [link EXCEPT ![c] = "down"]
    /\ net' = IF c = 0 THEN net ELSE [net EXCEPT ![c] = <<>>]

\* MUTANT of Overtaken: a later login leaves the generation alone.
OvertakenNot(t) == t

\* ++generation_ while a coroutine is under way.
Overtaken(t) == [t EXCEPT !.current = FALSE]

\* run, called with the token of a new login.
Run ==
    /\ runs < MaxRuns
    /\ runs' = runs + 1
    /\ last' = runs + 1
    /\ IF running
       THEN /\ pending' = runs + 1
            /\ task' = Overtaken(task)
            /\ Closed(task.conn)
            /\ UNCHANGED stage
       ELSE /\ task' = Opening(runs + 1)
            /\ stage' = Requested(runs + 1)
            /\ UNCHANGED <<pending, link, net>>
    /\ UNCHANGED <<rx, got, table, posted, outgoing, writing, loops, log, events, overtaken>>

Stop ==
    /\ last # 0
    /\ last' = 0
    /\ task' = Overtaken(task)
    /\ pending' = 0
    /\ Closed(task.conn)
    /\ UNCHANGED <<runs, rx, got, server>>

\* MUTANT of Successor: the token that waits is forgotten.
SuccessorNone == NoTask

\* The run that waits for this one to end.
Successor == IF pending = 0 THEN NoTask ELSE Opening(pending)

\* runAsync has returned: the callback of QCoro::connect.
Finish ==
    /\ task' = Successor
    /\ stage' = Requested(task'.conn)
    /\ pending' = 0
    /\ UNCHANGED <<runs, last, table, posted, outgoing, writing, loops, log, events, overtaken>>

\* open() returns, with success when the upgrade was accepted.
OpenReturn ==
    /\ task.stage = "opening"
    /\ link[task.conn] # "none"
    /\ IF task.current /\ link[task.conn] = "up"
       THEN /\ task' = [task EXCEPT !.stage = "reading"]
            /\ UNCHANGED <<runs, pending, last, link, net, server>>
       ELSE Finish /\ Closed(task.conn)
    /\ UNCHANGED <<rx, got>>

Arrive ==
    /\ task.stage = "reading"
    /\ net[task.conn] # <<>>
    /\ rx' = [rx EXCEPT ![task.conn] = Append(@, Head(net[task.conn]))]
    /\ net' = [net EXCEPT ![task.conn] = Tail(@)]
    /\ UNCHANGED <<runs, task, pending, last, got, link, server>>

\* The generator yields a text: handleMessage, unless the generation has changed.
Yield ==
    /\ task.stage = "reading"
    /\ rx[task.conn] # <<>>
    /\ rx' = [rx EXCEPT ![task.conn] = Tail(@)]
    /\ IF task.current
       THEN /\ got' = [got EXCEPT ![task.conn] = Append(@, Head(rx[task.conn]))]
            /\ UNCHANGED <<runs, task, pending, last, server>>
       ELSE /\ Finish
            /\ UNCHANGED got
    /\ UNCHANGED <<link, net>>

\* The generator ends with the connection; nothing opens another one.
EndOfMessages ==
    /\ task.stage = "reading"
    /\ link[task.conn] = "down"
    /\ rx[task.conn] = <<>>
    /\ Finish
    /\ UNCHANGED <<link, net, rx, got>>

\* The connection breaks.
Drop(c) ==
    /\ "drop" \in Env
    /\ stage[c] # "none"
    /\ link[c] # "down"
    /\ Closed(c)
    /\ UNCHANGED <<client, server>>

-----------------------------------------------------------------------------
(* The server *)

\* handle_ws_upgrade: no valid token (it is older than fifteen minutes).
Refuse(c) ==
    /\ "refuse" \in Env
    /\ stage[c] = "request"
    /\ stage' = [stage EXCEPT ![c] = "ended"]
    /\ Closed(c)
    /\ UNCHANGED <<client, table, posted, outgoing, writing, loops, log, events, overtaken>>

\* A valid token: async_accept answers, and the client may be gone by then.
Upgrade(c) ==
    /\ stage[c] = "request"
    /\ stage' = [stage EXCEPT ![c] = "accepted"]
    /\ link' = [link EXCEPT ![c] = IF @ = "none" THEN "up" ELSE @]
    /\ UNCHANGED <<client, net, table, posted, outgoing, writing, loops, log, events, overtaken>>

\* accept goes on: the session replaces the user's last one in the table.
Insert(c) ==
    /\ stage[c] = "accepted"
    /\ \/ /\ stage' = [stage EXCEPT ![c] = "running"]
          /\ table' = c
          /\ overtaken' = (overtaken \/ \E d \in Conns : d > c /\ stage[d] = "running")
       \/ /\ link[c] = "down"
          /\ stage' = [stage EXCEPT ![c] = "ended"]
          /\ UNCHANGED <<table, overtaken>>
    /\ UNCHANGED <<client, link, net, posted, outgoing, writing, loops, log, events>>

\* MUTANT of TableWithout: whatever session the user has is erased.
TableWithoutAny(c) == 0

\* MUTANT of TableWithout: only a session that was replaced is removed.
TableWithoutNone(c) == table

TableWithout(c) == IF table = c THEN 0 ELSE table

\* run returns: the session goes, and what was still to be written with it.
ReadEnds(c) ==
    /\ stage[c] = "running"
    /\ link[c] = "down"
    /\ stage' = [stage EXCEPT ![c] = "ended"]
    /\ table' = TableWithout(c)
    /\ posted' = [posted EXCEPT ![c] = <<>>]
    /\ outgoing' = [outgoing EXCEPT ![c] = <<>>]
    /\ writing' = [writing EXCEPT ![c] = FALSE]
    /\ loops' = [loops EXCEPT ![c] = 0]
    /\ UNCHANGED <<client, link, net, log, events, overtaken>>

\* notify: without a session the event is not kept for anybody.
Notify ==
    /\ events < MaxEvents
    /\ events' = events + 1
    /\ IF table = 0 THEN UNCHANGED <<posted, log>>
       ELSE /\ posted' = [posted EXCEPT ![table] = Append(@, events')]
            /\ log' = [log EXCEPT ![table] = Append(@, events')]
    /\ UNCHANGED <<client, link, net, stage, table, outgoing, writing, loops, overtaken>>

\* MUTANT of Queued: the message is refused while another is being written.
QueuedIdle(c) == IF writing[c] THEN outgoing[c] ELSE Append(outgoing[c], Head(posted[c]))

\* MUTANT of Queued: the newest message is put first.
QueuedFirst(c) == <<Head(posted[c])>> \o outgoing[c]

Queued(c) == Append(outgoing[c], Head(posted[c]))

\* MUTANT of AtWork: every message gets a loop.
AtWorkNever(c) == FALSE

AtWork(c) == writing[c]

\* The posted handler: a write loop is started unless one is at work.
Post(c) ==
    /\ posted[c] # <<>>
    /\ posted' = [posted EXCEPT ![c] = Tail(@)]
    /\ outgoing' = [outgoing EXCEPT ![c] = Queued(c)]
    /\ loops' = IF AtWork(c) THEN loops ELSE [loops EXCEPT ![c] = @ + 1]
    /\ writing' = [writing EXCEPT ![c] = TRUE]
    /\ UNCHANGED <<client, link, net, stage, table, log, events, overtaken>>

\* MUTANT of Idle: the flag stays set.
IdleNot(c) == writing

Idle(c) == [writing EXCEPT ![c] = FALSE]

LoopEnds(c) ==
    /\ loops' = [loops EXCEPT ![c] = @ - 1]
    /\ writing' = Idle(c)

\* MUTANT of LoopGoesOn: one message per write loop.
LoopGoesOnNever(c) == FALSE

LoopGoesOn(c) == Len(outgoing[c]) > 1

\* async_write has sent the front of the queue, perhaps to nobody.
WriteDone(c) ==
    /\ loops[c] > 0
    /\ outgoing[c] # <<>>
    /\ net' = IF link[c] = "up" THEN [net EXCEPT ![c] = Append(@, Head(outgoing[c]))] ELSE net
    /\ IF LoopGoesOn(c) THEN UNCHANGED <<loops, writing>> ELSE LoopEnds(c)
    /\ outgoing' = [outgoing EXCEPT ![c] = Tail(@)]
    /\ UNCHANGED <<client, link, stage, table, posted, log, events, overtaken>>

\* It failed: the loop ends, its message stays the first of the queue.
WriteFail(c) ==
    /\ loops[c] > 0
    /\ outgoing[c] # <<>>
    /\ link[c] = "down"
    /\ LoopEnds(c)
    /\ UNCHANGED <<client, link, net, stage, table, posted, outgoing, log, events, overtaken>>

-----------------------------------------------------------------------------

Init ==
    /\ runs = 0 /\ task = NoTask /\ pending = 0 /\ last = 0
    /\ link = [c \in Conns |-> "none"]
    /\ net = [c \in Conns |-> <<>>]
    /\ rx = [c \in Conns |-> <<>>]
    /\ got = [c \in Conns |-> <<>>]
    /\ stage = [c \in Conns |-> "none"]
    /\ table = 0
    /\ posted = [c \in Conns |-> <<>>]
    /\ outgoing = [c \in Conns |-> <<>>]
    /\ writing = [c \in Conns |-> FALSE]
    /\ loops = [c \in Conns |-> 0]
    /\ log = [c \in Conns |-> <<>>]
    /\ events = 0 /\ overtaken = FALSE

Next ==
    \/ Run \/ Stop \/ OpenReturn \/ Arrive \/ Yield \/ EndOfMessages \/ Notify
    \/ \E c \in Conns : Drop(c) \/ Refuse(c) \/ Upgrade(c) \/ Insert(c) \/ ReadEnds(c)
                        \/ Post(c) \/ WriteDone(c) \/ WriteFail(c)

Spec == Init /\ [][Next]_vars

\* The event loops run what is ready. A broken connection may never be noticed by the server.
Fairness ==
    /\ WF_vars(OpenReturn) /\ WF_vars(Arrive) /\ WF_vars(Yield) /\ WF_vars(EndOfMessages)
    /\ \A c \in Conns : /\ WF_vars(Upgrade(c)) /\ WF_vars(Insert(c))
                        /\ WF_vars(Post(c)) /\ WF_vars(WriteDone(c))

FairSpec == Spec /\ Fairness

-----------------------------------------------------------------------------
(* Properties *)

Events == 1..MaxEvents
Stages == {"none", "request", "accepted", "running", "ended"}

\* The variables keep their types; a session never has two write loops on its one socket.
TypeOK ==
    /\ runs \in 0..MaxRuns
    /\ task \in [conn : 0..MaxRuns, stage : {"none", "opening", "reading"}, current : BOOLEAN]
    /\ pending \in 0..MaxRuns
    /\ last \in 0..MaxRuns
    /\ link \in [Conns -> {"none", "up", "down"}]
    /\ {net, rx, got, posted, outgoing, log} \subseteq [Conns -> Seq(Events)]
    /\ stage \in [Conns -> Stages]
    /\ table \in 0..MaxRuns
    /\ writing \in [Conns -> BOOLEAN]
    /\ loops \in [Conns -> 0..1]
    /\ events \in 0..MaxEvents
    /\ overtaken \in BOOLEAN

\* On a connection that still stands every event announced to its session is, once and in the
\* order of announcement, handled, in the generator, on the way, in the queue or posted.
NothingLost ==
    \A c \in Conns :
        link[c] = "up" => log[c] = got[c] \o rx[c] \o net[c] \o outgoing[c] \o posted[c]

\* While its connection stands no message waits in a session's queue without a write loop.
QueueIsWritten ==
    \A c \in Conns : link[c] = "up" /\ outgoing[c] # <<>> => loops[c] = 1

\* The session a client reads from is the one its events are announced to, unless sessions
\* were entered in another order than the logins': the end of an older one takes nothing away.
NewestInTable ==
    task.stage = "reading" /\ link[task.conn] = "up" /\ stage[task.conn] = "running"
    /\ ~overtaken
        => table = task.conn

\* Events are announced to no session that has ended.
EndedLeavesTable ==
    table # 0 => stage[table] = "running"

Stream == INSTANCE EventStream WITH latest <- last, sent <- log, handled <- got

\* The client handles a first part of what is announced, in order, for the latest login only.
ImplementsStream == Stream!Spec

\* The latest login gets its connection or a refusal, however the login came upon an earlier
\* run of the socket, opening or reading.
LoginConnects ==
    \A c \in Conns : last = c ~> last # c \/ link[c] # "none"

\* An event announced to a session is handled, or its connection broke or was closed.
EventHandled ==
    \A c \in Conns : \A n \in 1..MaxEvents :
        Len(log[c]) >= n ~> Len(got[c]) >= n \/ link[c] = "down"
=============================================================================
