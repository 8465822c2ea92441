------------------------------ MODULE PushProofs ------------------------------
(* Theorems about Push, for every value of its constants. *)
EXTENDS Push, TLAPS

ClientTypes ==
    /\ runs \in 0..MaxRuns
    /\ task \in [conn : 0..MaxRuns, stage : {"none", "opening", "reading"}, current : BOOLEAN]
    /\ pending \in 0..MaxRuns
    /\ last \in 0..MaxRuns

QueueTypes ==
    /\ net \in [Conns -> Seq(Events)] /\ rx \in [Conns -> Seq(Events)]
    /\ got \in [Conns -> Seq(Events)] /\ posted \in [Conns -> Seq(Events)]
    /\ outgoing \in [Conns -> Seq(Events)] /\ log \in [Conns -> Seq(Events)]

ServerTypes ==
    /\ link \in [Conns -> {"none", "up", "down"}]
    /\ stage \in [Conns -> Stages]
    /\ table \in 0..MaxRuns
    /\ writing \in [Conns -> BOOLEAN]
    /\ loops \in [Conns -> 0..1]
    /\ events \in 0..MaxEvents
    /\ overtaken \in BOOLEAN

\* A write loop is at work exactly while the flag says so.
Working == \A c \in Conns : loops[c] = IF writing[c] THEN 1 ELSE 0

\* The socket's run is of the newest connection requested, the waiting one of a still newer
\* login, and one overtaken has had its connection closed.
Running ==
    /\ last <= runs
    /\ \A d \in Conns : d > runs => stage[d] = "none"
    /\ running => /\ stage[task.conn] # "none"
                  /\ \A d \in Conns : stage[d] # "none" => d <= task.conn
                  /\ ~task.current => link[task.conn] = "down"
    /\ ~running => task.stage = "none" /\ ~task.current
    /\ task.current => task.conn = last
    /\ pending # 0 => /\ running
                      /\ pending = last
                      /\ pending > task.conn
                      /\ stage[pending] = "none"

NoneUnderWay(c) ==
    /\ log[c] = <<>> /\ got[c] = <<>> /\ rx[c] = <<>>
    /\ net[c] = <<>> /\ outgoing[c] = <<>> /\ posted[c] = <<>>

\* Before a session is entered nothing is announced to it, and what is on its way to a client
\* is on a connection that stands.
Unheard ==
    \A c \in Conns :
        /\ stage[c] \in {"none", "request", "accepted"} => NoneUnderWay(c)
        /\ net[c] # <<>> => link[c] = "up"

\* What the client has yet to handle of its connection is what comes next.
Ahead ==
    running =>
        \E rest \in Seq(Events) :
            log[task.conn] = (got[task.conn] \o rx[task.conn]) \o rest

\* The session that the running socket talks to is the one in the table.
InTable ==
    running /\ ~overtaken /\ stage[task.conn] = "running" => table = task.conn

-----------------------------------------------------------------------------
(* Sequences *)

\* The parts of a sequence that is not empty.
LEMMA HeadTail ==
    ASSUME NEW s \in Seq(Events), s # <<>>
    PROVE  Head(s) \in Events /\ Tail(s) \in Seq(Events) /\ Len(Tail(s)) = Len(s) - 1
OBVIOUS

\* Moving the first element of one sequence behind another changes nothing of the two.
LEMMA MoveOne ==
    ASSUME NEW a \in Seq(Events), NEW b \in Seq(Events), b # <<>>
    PROVE  Append(a, Head(b)) \o Tail(b) = a \o b
OBVIOUS

LEMMA AppendConcat ==
    ASSUME NEW a \in Seq(Events), NEW b \in Seq(Events), NEW e \in Events
    PROVE  Append(a \o b, e) = a \o Append(b, e)
OBVIOUS

LEMMA ConcatTyped ==
    ASSUME NEW a \in Seq(Events), NEW b \in Seq(Events)
    PROVE  a \o b \in Seq(Events)
OBVIOUS

LEMMA ConcatAssoc ==
    ASSUME NEW a \in Seq(Events), NEW b \in Seq(Events), NEW d \in Seq(Events)
    PROVE  (a \o b) \o d = a \o (b \o d)
OBVIOUS

LEMMA MoveInside ==
    ASSUME NEW a \in Seq(Events), NEW b \in Seq(Events), NEW d \in Seq(Events), d # <<>>
    PROVE  (a \o Append(b, Head(d))) \o Tail(d) = (a \o b) \o d
<1>1. Tail(d) \in Seq(Events) /\ Append(b, Head(d)) \in Seq(Events)
  BY HeadTail
<1>2. (a \o Append(b, Head(d))) \o Tail(d) = a \o (Append(b, Head(d)) \o Tail(d))
  BY <1>1, ConcatAssoc
<1>3. Append(b, Head(d)) \o Tail(d) = b \o d
  BY MoveOne
<1>4. (a \o b) \o d = a \o (b \o d)
  BY ConcatAssoc
<1> QED BY <1>2, <1>3, <1>4

\* What comes next in a sequence that begins with a.
LEMMA NextElement ==
    ASSUME NEW a \in Seq(Events), NEW b \in Seq(Events), NEW r \in Seq(Events), b # <<>>
    PROVE  /\ Len(a) < Len((a \o b) \o r)
           /\ ((a \o b) \o r)[Len(a) + 1] = Head(b)
OBVIOUS

-----------------------------------------------------------------------------
(* Types *)

LEMMA TypesSplit == TypeOK <=> ClientTypes /\ QueueTypes /\ ServerTypes
BY DEF TypeOK, ClientTypes, QueueTypes, ServerTypes

LEMMA BoundsTyped == MaxRuns \in Nat /\ MaxEvents \in Nat
BY PushAssumption DEF PushAssumption

TaskType == [conn : 0..MaxRuns, stage : {"none", "opening", "reading"}, current : BOOLEAN]

\* What becomes of the socket's run.
LEMMA TaskMoves ==
    ASSUME ClientTypes
    PROVE  /\ Overtaken(task) \in TaskType
           /\ Overtaken(task).conn = task.conn /\ Overtaken(task).stage = task.stage
           /\ ~Overtaken(task).current
           /\ Successor \in TaskType
           /\ Successor.conn = pending /\ Successor.current = (pending # 0)
           /\ Successor.stage = IF pending = 0 THEN "none" ELSE "opening"
<1>1. task \in TaskType
  BY DEF ClientTypes, TaskType
<1>2. /\ Overtaken(task) \in TaskType
      /\ Overtaken(task).conn = task.conn /\ Overtaken(task).stage = task.stage
      /\ ~Overtaken(task).current
  BY <1>1 DEF Overtaken, TaskType
<1>3. CASE pending = 0
  <2>1. Successor = [conn |-> 0, stage |-> "none", current |-> FALSE]
    BY <1>3 DEF Successor, NoTask
  <2>2. Successor \in TaskType
    BY <2>1, BoundsTyped DEF TaskType
  <2> QED BY <1>2, <1>3, <2>1, <2>2
<1>4. CASE pending # 0
  <2>1. pending \in 0..MaxRuns
    BY DEF ClientTypes
  <2>2. Successor = [conn |-> pending, stage |-> "opening", current |-> TRUE]
    BY <1>4 DEF Successor, Opening
  <2>3. Successor \in TaskType
    BY <2>1, <2>2 DEF TaskType
  <2> QED BY <1>2, <1>4, <2>2, <2>3
<1> QED BY <1>3, <1>4

\* The socket's run is of a connection.
LEMMA TaskConn ==
    ASSUME ClientTypes, Running
    PROVE  /\ running => task.conn \in Conns
           /\ task.stage # "none" => running
           /\ pending # 0 => pending \in Conns
<1>1. task.conn \in 0..MaxRuns /\ pending \in 0..MaxRuns
  BY DEF ClientTypes
<1> QED BY <1>1, BoundsTyped DEF Running, running, Conns


\* The client's members.
LEMMA ClientTyped ==
    ASSUME TypeOK, Running, Working, [Next]_vars
    PROVE  ClientTypes'
<1>1. CASE Run
  <2>1. runs \in 0..MaxRuns /\ runs + 1 \in 0..MaxRuns
    BY <1>1, BoundsTyped, TypesSplit DEF Run, ClientTypes
  <2>2. Opening(runs + 1) \in TaskType
    BY <2>1 DEF Opening, TaskType
  <2> QED BY <1>1, <2>1, <2>2, TypesSplit, TaskMoves DEF Run, ClientTypes, TaskType
<1>2. CASE Stop
  BY <1>2, BoundsTyped, TypesSplit, TaskMoves DEF Stop, ClientTypes, TaskType
<1>3. CASE OpenReturn
  <2>1. task' \in {task, [task EXCEPT !.stage = "reading"], Successor}
    BY <1>3 DEF OpenReturn, Finish
  <2>2. runs' = runs /\ last' = last /\ pending' \in {pending, 0}
    BY <1>3 DEF OpenReturn, Finish
  <2>3. [task EXCEPT !.stage = "reading"] \in TaskType
    BY TypesSplit DEF ClientTypes, TaskType
  <2> QED BY <2>1, <2>2, <2>3, TypesSplit, BoundsTyped, TaskMoves DEF ClientTypes, TaskType
<1>4. CASE Yield
  <2>1. task' \in {task, [task EXCEPT !.stage = "reading"], Successor}
    BY <1>4 DEF Yield, Finish
  <2>2. runs' = runs /\ last' = last /\ pending' \in {pending, 0}
    BY <1>4 DEF Yield, Finish
  <2>3. [task EXCEPT !.stage = "reading"] \in TaskType
    BY TypesSplit DEF ClientTypes, TaskType
  <2> QED BY <2>1, <2>2, <2>3, TypesSplit, BoundsTyped, TaskMoves DEF ClientTypes, TaskType
<1>5. CASE EndOfMessages
  <2>1. task' \in {task, [task EXCEPT !.stage = "reading"], Successor}
    BY <1>5 DEF EndOfMessages, Finish
  <2>2. runs' = runs /\ last' = last /\ pending' \in {pending, 0}
    BY <1>5 DEF EndOfMessages, Finish
  <2>3. [task EXCEPT !.stage = "reading"] \in TaskType
    BY TypesSplit DEF ClientTypes, TaskType
  <2> QED BY <2>1, <2>2, <2>3, TypesSplit, BoundsTyped, TaskMoves DEF ClientTypes, TaskType
<1>6. CASE \/ Arrive \/ Notify \/ UNCHANGED vars
           \/ \E c \in Conns : Drop(c)
           \/ \E c \in Conns : Refuse(c)
           \/ \E c \in Conns : Upgrade(c)
           \/ \E c \in Conns : Insert(c)
           \/ \E c \in Conns : ReadEnds(c)
           \/ \E c \in Conns : Post(c)
           \/ \E c \in Conns : WriteDone(c)
           \/ \E c \in Conns : WriteFail(c)
  <2>1. UNCHANGED <<runs, task, pending, last>>
    BY <1>6 DEF vars, client, server, Arrive, Notify, Drop, Refuse, Upgrade, Insert, ReadEnds,
         Post, WriteDone, WriteFail, Closed, LoopEnds
  <2> QED BY <2>1, TypesSplit DEF ClientTypes
<1> QED BY <1>1, <1>2, <1>3, <1>4, <1>5, <1>6 DEF Next

\* A closed connection keeps its types.
LEMMA ClosedTyped ==
    ASSUME TypeOK, NEW c \in 0..MaxRuns, Closed(c)
    PROVE  /\ link' \in [Conns -> {"none", "up", "down"}]
           /\ net' \in [Conns -> Seq(Events)]
<1>1. <<>> \in Seq(Events)
  OBVIOUS
<1> QED BY <1>1, TypesSplit DEF Closed, QueueTypes, ServerTypes

\* What is on its way.
LEMMA QueuesTyped ==
    ASSUME TypeOK, Running, Working, [Next]_vars
    PROVE  QueueTypes'
<1>1. CASE Run
  <2>1. net' = net \/ Closed(task.conn)
    BY <1>1 DEF Run
  <2>2. net' \in [Conns -> Seq(Events)]
    BY <2>1, TypesSplit, ClosedTyped DEF QueueTypes, ClientTypes, Conns
  <2> QED BY <1>1, <2>2, TypesSplit DEF Run, server, QueueTypes
<1>2. CASE Stop
  <2>1. net' = net \/ Closed(task.conn)
    BY <1>2 DEF Stop
  <2>2. net' \in [Conns -> Seq(Events)]
    BY <2>1, TypesSplit, ClosedTyped DEF QueueTypes, ClientTypes, Conns
  <2> QED BY <1>2, <2>2, TypesSplit DEF Stop, server, QueueTypes
<1>3. CASE OpenReturn
  <2>1. net' = net \/ Closed(task.conn)
    BY <1>3 DEF OpenReturn
  <2>2. net' \in [Conns -> Seq(Events)]
    BY <2>1, TypesSplit, ClosedTyped DEF QueueTypes, ClientTypes, Conns
  <2> QED BY <1>3, <2>2, TypesSplit DEF OpenReturn, server, Finish, QueueTypes
<1>4. CASE Arrive
  <2>1. task.conn \in Conns /\ net[task.conn] \in Seq(Events) /\ rx[task.conn] \in Seq(Events)
    BY <1>4, TypesSplit, TaskConn DEF Arrive, QueueTypes
  <2>2. Head(net[task.conn]) \in Events /\ Tail(net[task.conn]) \in Seq(Events)
    BY <1>4, <2>1, HeadTail DEF Arrive
  <2>3. Append(rx[task.conn], Head(net[task.conn])) \in Seq(Events)
    BY <2>1, <2>2
  <2> QED BY <1>4, <2>2, <2>3, TypesSplit DEF Arrive, server, QueueTypes
<1>5. CASE Yield
  <2>1. task.conn \in Conns /\ rx[task.conn] \in Seq(Events) /\ got[task.conn] \in Seq(Events)
    BY <1>5, TypesSplit, TaskConn DEF Yield, QueueTypes
  <2>2. Head(rx[task.conn]) \in Events /\ Tail(rx[task.conn]) \in Seq(Events)
    BY <1>5, <2>1, HeadTail DEF Yield
  <2>3. Append(got[task.conn], Head(rx[task.conn])) \in Seq(Events)
    BY <2>1, <2>2
  <2> QED BY <1>5, <2>2, <2>3, TypesSplit DEF Yield, Finish, server, QueueTypes
<1>6. CASE Notify
  <2>1. events' \in Events
    BY <1>6, TypesSplit, BoundsTyped DEF Notify, Events, ServerTypes
  <2>2. ASSUME NEW s \in Seq(Events) PROVE Append(s, events') \in Seq(Events)
    BY <2>1
  <2>3. table # 0 => table \in Conns
    BY TypesSplit DEF ServerTypes, Conns
  <2>4. ASSUME table # 0
        PROVE  /\ Append(log[table], events') \in Seq(Events)
               /\ Append(posted[table], events') \in Seq(Events)
    BY <2>2, <2>3, <2>4, TypesSplit DEF QueueTypes
  <2> QED BY <1>6, <2>3, <2>4, TypesSplit DEF Notify, client, QueueTypes
<1>7. ASSUME NEW c \in Conns, Drop(c) PROVE QueueTypes'
  <2>1. net' = net \/ Closed(c)
    BY <1>7 DEF Drop
  <2>2. net' \in [Conns -> Seq(Events)]
    BY <2>1, TypesSplit, ClosedTyped DEF QueueTypes, ClientTypes, Conns
  <2> QED BY <1>7, <2>2, TypesSplit DEF Drop, server, client, QueueTypes
<1>8. ASSUME NEW c \in Conns, Refuse(c) PROVE QueueTypes'
  <2>1. net' = net \/ Closed(c)
    BY <1>8 DEF Refuse
  <2>2. net' \in [Conns -> Seq(Events)]
    BY <2>1, TypesSplit, ClosedTyped DEF QueueTypes, ClientTypes, Conns
  <2> QED BY <1>8, <2>2, TypesSplit DEF Refuse, server, client, QueueTypes
<1>9. ASSUME NEW c \in Conns, ReadEnds(c) PROVE QueueTypes'
  <2>1. <<>> \in Seq(Events)
    OBVIOUS
  <2> QED BY <1>9, <2>1, TypesSplit DEF ReadEnds, client, QueueTypes
<1>10. ASSUME NEW c \in Conns, Post(c) PROVE QueueTypes'
  <2>1. posted[c] \in Seq(Events) /\ outgoing[c] \in Seq(Events) /\ posted[c] # <<>>
    BY <1>10, TypesSplit DEF Post, QueueTypes
  <2>2. Head(posted[c]) \in Events /\ Tail(posted[c]) \in Seq(Events)
    BY <2>1, HeadTail
  <2>3. Queued(c) \in Seq(Events)
    BY <2>1, <2>2 DEF Queued
  <2> QED BY <1>10, <2>2, <2>3, TypesSplit DEF Post, client, QueueTypes
<1>11. ASSUME NEW c \in Conns, WriteDone(c) PROVE QueueTypes'
  <2>1. outgoing[c] \in Seq(Events) /\ net[c] \in Seq(Events) /\ outgoing[c] # <<>>
    BY <1>11, TypesSplit DEF WriteDone, QueueTypes
  <2>2. Head(outgoing[c]) \in Events /\ Tail(outgoing[c]) \in Seq(Events)
    BY <2>1, HeadTail
  <2>3. Append(net[c], Head(outgoing[c])) \in Seq(Events)
    BY <2>1, <2>2
  <2> QED BY <1>11, <2>2, <2>3, TypesSplit DEF WriteDone, client, QueueTypes
<1>12. CASE \/ EndOfMessages \/ UNCHANGED vars
            \/ \E c \in Conns : Upgrade(c)
            \/ \E c \in Conns : Insert(c)
            \/ \E c \in Conns : WriteFail(c)
  <2>1. UNCHANGED <<net, rx, got, posted, outgoing, log>>
    BY <1>12 DEF vars, client, server, EndOfMessages, Upgrade, Insert, WriteFail, Finish,
         LoopEnds
  <2> QED BY <2>1, TypesSplit DEF QueueTypes
<1> QED BY <1>1, <1>2, <1>3, <1>4, <1>5, <1>6, <1>7, <1>8, <1>9, <1>10, <1>11, <1>12 DEF Next

\* The server's sessions.
LEMMA ServerTyped ==
    ASSUME TypeOK, Running, Working, [Next]_vars
    PROVE  ServerTypes'
<1>1. CASE Run
  <2>1. link' = link \/ Closed(task.conn)
    BY <1>1 DEF Run
  <2>2. link' \in [Conns -> {"none", "up", "down"}]
    BY <2>1, TypesSplit, ClosedTyped DEF ServerTypes, ClientTypes, Conns
  <2> QED BY <1>1, <2>2, TypesSplit, TaskConn DEF Run, Requested, Opening, server, ServerTypes,
       Stages
<1>2. CASE Stop
  <2>1. link' = link \/ Closed(task.conn)
    BY <1>2 DEF Stop
  <2>2. link' \in [Conns -> {"none", "up", "down"}]
    BY <2>1, TypesSplit, ClosedTyped DEF ServerTypes, ClientTypes, Conns
  <2> QED BY <1>2, <2>2, TypesSplit, TaskConn DEF Stop, server, ServerTypes, Stages
<1>3. CASE OpenReturn
  <2>1. link' = link \/ Closed(task.conn)
    BY <1>3 DEF OpenReturn
  <2>2. link' \in [Conns -> {"none", "up", "down"}]
    BY <2>1, TypesSplit, ClosedTyped DEF ServerTypes, ClientTypes, Conns
  <2> QED BY <1>3, <2>2, TypesSplit, TaskConn DEF OpenReturn, Requested, Finish, server,
       ServerTypes, Stages
<1>4. CASE Yield
  BY <1>4, TypesSplit, TaskConn DEF Yield, Requested, Finish, server, ServerTypes, Stages
<1>5. CASE EndOfMessages
  BY <1>5, TypesSplit, TaskConn DEF EndOfMessages, Requested, Finish, server, ServerTypes,
       Stages
<1>6. CASE Notify
  BY <1>6, BoundsTyped, TypesSplit DEF Notify, ServerTypes
<1>7. ASSUME NEW c \in Conns, Drop(c) PROVE ServerTypes'
  <2>1. link' = link \/ Closed(c)
    BY <1>7 DEF Drop
  <2>2. link' \in [Conns -> {"none", "up", "down"}]
    BY <2>1, TypesSplit, ClosedTyped DEF ServerTypes, ClientTypes, Conns
  <2> QED BY <1>7, <2>2, TypesSplit, TaskConn DEF Drop, server, ServerTypes, Stages
<1>8. ASSUME NEW c \in Conns, Refuse(c) PROVE ServerTypes'
  <2>1. link' = link \/ Closed(c)
    BY <1>8 DEF Refuse
  <2>2. link' \in [Conns -> {"none", "up", "down"}]
    BY <2>1, TypesSplit, ClosedTyped DEF ServerTypes, ClientTypes, Conns
  <2> QED BY <1>8, <2>2, TypesSplit, TaskConn DEF Refuse, server, ServerTypes, Stages
<1>9. ASSUME NEW c \in Conns, Upgrade(c) PROVE ServerTypes'
  BY <1>9, BoundsTyped, TypesSplit DEF Upgrade, ServerTypes, Stages
<1>10. ASSUME NEW c \in Conns, Insert(c) PROVE ServerTypes'
  <2>1. overtaken' \in BOOLEAN
    BY <1>10, TypesSplit, Zenon DEF Insert, ServerTypes
  <2>2. table' \in 0..MaxRuns
    BY <1>10, TypesSplit DEF Insert, ServerTypes, Conns
  <2>3. stage' \in [Conns -> Stages]
    BY <1>10, TypesSplit DEF Insert, ServerTypes, Stages
  <2> QED BY <1>10, <2>1, <2>2, <2>3, TypesSplit DEF Insert, ServerTypes
<1>11. ASSUME NEW c \in Conns, ReadEnds(c) PROVE ServerTypes'
  BY <1>11, BoundsTyped, TypesSplit DEF ReadEnds, TableWithout, ServerTypes, Stages
<1>12. ASSUME NEW c \in Conns, Post(c) PROVE ServerTypes'
  BY <1>12, BoundsTyped, TypesSplit DEF Post, AtWork, Working, ServerTypes
<1>13. ASSUME NEW c \in Conns, WriteDone(c) PROVE ServerTypes'
  <2>1. CASE LoopGoesOn(c)
    BY <1>13, <2>1, TypesSplit DEF WriteDone, ServerTypes
  <2>2. CASE ~LoopGoesOn(c)
    <3>1. LoopEnds(c) /\ loops[c] > 0
      BY <1>13, <2>2 DEF WriteDone
    <3>2. writing' \in [Conns -> BOOLEAN] /\ loops' \in [Conns -> 0..1]
      BY <3>1, TypesSplit DEF LoopEnds, Idle, ServerTypes
    <3> QED BY <1>13, <3>2, TypesSplit DEF WriteDone, ServerTypes
  <2> QED BY <2>1, <2>2
<1>14. ASSUME NEW c \in Conns, WriteFail(c) PROVE ServerTypes'
  BY <1>14, BoundsTyped, TypesSplit DEF WriteFail, LoopEnds, Idle, ServerTypes
<1>15. CASE \/ Arrive \/ UNCHANGED vars
  <2>1. UNCHANGED <<link, stage, table, writing, loops, events, overtaken>>
    BY <1>15 DEF vars, client, server, Arrive
  <2> QED BY <2>1, TypesSplit DEF ServerTypes
<1> QED BY <1>1, <1>2, <1>3, <1>4, <1>5, <1>6, <1>7, <1>8, <1>9, <1>10, <1>11, <1>12, <1>13,
     <1>14, <1>15 DEF Next

\* No second write loop.
LEMMA WorkingKept ==
    ASSUME TypeOK, Running, Working, [Next]_vars
    PROVE  Working'
<1>1. ASSUME NEW c \in Conns, ReadEnds(c) PROVE Working'
  BY <1>1, BoundsTyped, TypesSplit DEF ReadEnds, Working, ServerTypes
<1>2. ASSUME NEW c \in Conns, Post(c) PROVE Working'
  BY <1>2, BoundsTyped, TypesSplit DEF Post, AtWork, Working, ServerTypes
<1>3. ASSUME NEW c \in Conns, WriteDone(c) PROVE Working'
  BY <1>3, BoundsTyped, TypesSplit DEF WriteDone, LoopEnds, Idle, Working, ServerTypes
<1>4. ASSUME NEW c \in Conns, WriteFail(c) PROVE Working'
  BY <1>4, BoundsTyped, TypesSplit DEF WriteFail, LoopEnds, Idle, Working, ServerTypes
<1>5. CASE \/ Run \/ Stop \/ OpenReturn \/ Arrive
           \/ Yield \/ EndOfMessages \/ Notify \/ UNCHANGED vars
           \/ \E c \in Conns : Drop(c)
           \/ \E c \in Conns : Refuse(c)
           \/ \E c \in Conns : Upgrade(c)
           \/ \E c \in Conns : Insert(c)
  <2>1. UNCHANGED <<writing, loops>>
    BY <1>5 DEF vars, client, server, Run, Stop, OpenReturn, Arrive, Yield, EndOfMessages,
         Notify, Drop, Refuse, Upgrade, Insert, Closed, Finish
  <2> QED BY <2>1 DEF Working
<1> QED BY <1>1, <1>2, <1>3, <1>4, <1>5 DEF Next

LEMMA Typed ==
    ASSUME TypeOK, Running, Working, [Next]_vars
    PROVE  TypeOK'
<1>1. ClientTypes' /\ QueueTypes' /\ ServerTypes'
  BY ClientTyped, QueuesTyped, ServerTyped
<1> QED BY <1>1 DEF TypeOK, ClientTypes, QueueTypes, ServerTypes

-----------------------------------------------------------------------------
(* The socket's run and the sessions *)

\* The end of a run, with or without one that waits for it.
LEMMA FinishKeeps ==
    ASSUME TypeOK, Running, running, Finish
    PROVE  Running'
<1>1. ClientTypes /\ stage \in [Conns -> Stages]
  BY TypesSplit DEF ServerTypes
<1>2. task' = Successor /\ pending' = 0 /\ runs' = runs /\ last' = last
  BY DEF Finish
<1>3. CASE pending = 0
  <2>1. task'.conn = 0 /\ task'.stage = "none" /\ ~task'.current /\ stage' = stage
    BY <1>1, <1>2, <1>3, TaskMoves DEF Finish, Requested
  <2> QED BY <1>1, <1>2, <2>1 DEF Running, running
<1>4. CASE pending # 0
  <2>1. pending \in Conns /\ task.conn \in Conns
    BY <1>1, <1>4, TaskConn
  <2>2. task'.conn = pending /\ task'.current /\ stage' = [stage EXCEPT ![pending] = "request"]
    BY <1>1, <1>2, <1>4, TaskMoves DEF Finish, Requested
  <2>3. \A d \in Conns : stage'[d] # "none" => d <= pending
    BY <1>1, <1>4, <2>1, <2>2 DEF Running, Conns
  <2>4. \A d \in Conns : d > runs => stage'[d] = "none"
    BY <1>1, <1>4, <2>1, <2>2, BoundsTyped DEF Running, Conns, ClientTypes
  <2> QED BY <1>1, <1>2, <1>4, <2>1, <2>2, <2>3, <2>4 DEF Running, running
<1> QED BY <1>3, <1>4

\* The server forgets no connection and mends none.
LEMMA ServerKeeps ==
    ASSUME TypeOK, Running, UNCHANGED client,
           \A d \in Conns : stage'[d] = "none" <=> stage[d] = "none",
           \A d \in Conns : link[d] = "down" => link'[d] = "down"
    PROVE  Running'
<1>1. UNCHANGED <<runs, task, pending, last>>
  BY DEF client
<1>2. (running => task.conn \in Conns) /\ (pending # 0 => pending \in Conns)
  BY TypesSplit, TaskConn
<1> QED BY <1>1, <1>2 DEF Running, running

\* The run of the socket, the run that waits and the logins agree.
LEMMA RunningKept ==
    ASSUME TypeOK, Running, [Next]_vars
    PROVE  Running'
<1>1. CASE Run
  <2>1. ClientTypes /\ stage \in [Conns -> Stages] /\ link \in [Conns -> {"none", "up", "down"}]
    BY TypesSplit DEF ServerTypes
  <2>2. runs + 1 \in Conns /\ runs' = runs + 1 /\ last' = runs + 1 /\ runs \in Nat
    BY <1>1, <2>1, BoundsTyped DEF Run, ClientTypes, Conns
  <2>3. \A d \in Conns : stage[d] # "none" => d <= runs
    BY <2>1, BoundsTyped DEF Running, ClientTypes, Conns
  <2>4. CASE running
    <3>1. task.conn \in Conns /\ task.conn <= runs
      BY <2>1, <2>3, <2>4, TaskConn DEF Running
    <3>2. /\ task'.conn = task.conn /\ task'.stage = task.stage /\ ~task'.current
          /\ pending' = runs + 1 /\ stage' = stage /\ link' = [link EXCEPT ![task.conn] = "down"]
      BY <1>1, <2>1, <2>4, TaskMoves DEF Run, Closed, running
    <3>3. link'[task.conn] = "down" /\ stage[runs + 1] = "none" /\ runs + 1 # 0
      BY <2>1, <2>2, <2>3, <3>1, <3>2 DEF Conns
    <3> QED BY <2>2, <2>3, <2>4, <3>1, <3>2, <3>3, BoundsTyped DEF Running, running, Conns
  <2>5. CASE ~running
    <3>1. /\ task' = Opening(runs + 1) /\ pending' = pending /\ pending = 0
          /\ stage' = [stage EXCEPT ![runs + 1] = "request"]
      BY <1>1, <2>2, <2>5 DEF Run, Requested, Running, Conns
    <3>2. task'.conn = runs + 1 /\ task'.current
      BY <3>1 DEF Opening
    <3>3. /\ \A d \in Conns : stage'[d] # "none" => d <= runs + 1
          /\ \A d \in Conns : d > runs + 1 => stage'[d] = "none"
      BY <2>1, <2>2, <2>3, <3>1, BoundsTyped DEF Conns
    <3> QED BY <2>1, <2>2, <3>1, <3>2, <3>3 DEF Running, running, Conns
  <2> QED BY <2>4, <2>5
<1>2. CASE Stop
  <2>1. ClientTypes /\ link \in [Conns -> {"none", "up", "down"}]
    BY TypesSplit DEF ServerTypes
  <2>2. /\ task'.conn = task.conn /\ task'.stage = task.stage /\ ~task'.current
        /\ pending' = 0 /\ stage' = stage /\ last' = 0 /\ runs' = runs
    BY <1>2, <2>1, TaskMoves DEF Stop, server
  <2>3. running => link'[task.conn] = "down"
    BY <1>2, <2>1, TaskConn DEF Stop, Closed, running
  <2> QED BY <2>1, <2>2, <2>3, BoundsTyped DEF Running, running, ClientTypes
<1>3. CASE OpenReturn
  <2>1. CASE Finish
    BY <1>3, <2>1, TypesSplit, TaskConn, FinishKeeps DEF OpenReturn
  <2>2. CASE /\ task' = [task EXCEPT !.stage = "reading"]
               /\ UNCHANGED <<runs, pending, last, link, server>>
    <3>1. task'.conn = task.conn /\ task'.current = task.current
      BY <2>2, TypesSplit DEF ClientTypes
    <3>2. running
      BY <1>3, TypesSplit, TaskConn DEF OpenReturn
    <3> QED BY <2>2, <3>1, <3>2 DEF server, Running, running
  <2> QED BY <1>3, <2>1, <2>2 DEF OpenReturn
<1>4. CASE Yield
  <2>1. CASE Finish
    BY <1>4, <2>1, TypesSplit, TaskConn, FinishKeeps DEF Yield
  <2>2. CASE UNCHANGED <<runs, task, pending, last, stage, link>>
    BY <2>2 DEF Running, running
  <2> QED BY <1>4, <2>1, <2>2 DEF Yield, server
<1>5. CASE EndOfMessages
  <2> QED BY <1>5, TypesSplit, TaskConn, FinishKeeps DEF EndOfMessages
<1>6. ASSUME NEW c \in Conns, Drop(c) PROVE Running'
  <2>1. link \in [Conns -> {"none", "up", "down"}] /\ stage \in [Conns -> Stages]
    BY TypesSplit DEF ServerTypes
  <2>2. /\ UNCHANGED client
        /\ \A d \in Conns : stage'[d] = "none" <=> stage[d] = "none"
        /\ \A d \in Conns : link[d] = "down" => link'[d] = "down"
    BY <1>6, <2>1 DEF Drop, Closed, server, Conns
  <2> QED BY <2>2, ServerKeeps
<1>7. ASSUME NEW c \in Conns, Refuse(c) PROVE Running'
  <2>1. link \in [Conns -> {"none", "up", "down"}] /\ stage \in [Conns -> Stages]
    BY TypesSplit DEF ServerTypes
  <2>2. /\ UNCHANGED client
        /\ \A d \in Conns : stage'[d] = "none" <=> stage[d] = "none"
        /\ \A d \in Conns : link[d] = "down" => link'[d] = "down"
    BY <1>7, <2>1 DEF Refuse, Closed, Conns
  <2> QED BY <2>2, ServerKeeps
<1>8. ASSUME NEW c \in Conns, Upgrade(c) PROVE Running'
  <2>1. link \in [Conns -> {"none", "up", "down"}] /\ stage \in [Conns -> Stages]
    BY TypesSplit DEF ServerTypes
  <2>2. /\ UNCHANGED client
        /\ \A d \in Conns : stage'[d] = "none" <=> stage[d] = "none"
        /\ \A d \in Conns : link[d] = "down" => link'[d] = "down"
    BY <1>8, <2>1 DEF Upgrade
  <2> QED BY <2>2, ServerKeeps
<1>9. ASSUME NEW c \in Conns, Insert(c) PROVE Running'
  <2>1. link \in [Conns -> {"none", "up", "down"}] /\ stage \in [Conns -> Stages]
    BY TypesSplit DEF ServerTypes
  <2>2. /\ UNCHANGED client
        /\ \A d \in Conns : stage'[d] = "none" <=> stage[d] = "none"
        /\ \A d \in Conns : link[d] = "down" => link'[d] = "down"
    BY <1>9, <2>1 DEF Insert
  <2> QED BY <2>2, ServerKeeps
<1>10. ASSUME NEW c \in Conns, ReadEnds(c) PROVE Running'
  <2>1. link \in [Conns -> {"none", "up", "down"}] /\ stage \in [Conns -> Stages]
    BY TypesSplit DEF ServerTypes
  <2>2. /\ UNCHANGED client
        /\ \A d \in Conns : stage'[d] = "none" <=> stage[d] = "none"
        /\ \A d \in Conns : link[d] = "down" => link'[d] = "down"
    BY <1>10, <2>1 DEF ReadEnds
  <2> QED BY <2>2, ServerKeeps
<1>11. CASE \/ Arrive \/ Notify \/ UNCHANGED vars
            \/ \E c \in Conns : Post(c)
            \/ \E c \in Conns : WriteDone(c)
            \/ \E c \in Conns : WriteFail(c)
  <2>1. UNCHANGED <<runs, task, pending, last, stage, link>>
    BY <1>11 DEF vars, client, server, Arrive, Notify, Post, WriteDone, WriteFail, LoopEnds
  <2> QED BY <2>1 DEF Running, running
<1> QED BY <1>1, <1>2, <1>3, <1>4, <1>5, <1>6, <1>7, <1>8, <1>9, <1>10, <1>11 DEF Next

\* Asking for the connection that waits touches no session.
LEMMA RequestKeepsTable ==
    ASSUME TypeOK, Running, EndedLeavesTable, Finish
    PROVE  EndedLeavesTable'
<1>1. /\ table' = table
      /\ stage' = stage \/ (pending # 0 /\ stage' = [stage EXCEPT ![pending] = "request"])
  BY TypesSplit, TaskMoves DEF Finish, Requested
<1>2. pending # 0 => stage[pending] = "none"
  BY DEF Running
<1>3. table # 0 => table \in Conns
  BY TypesSplit, BoundsTyped DEF ServerTypes, Conns
<1> QED BY <1>1, <1>2, <1>3, TypesSplit DEF EndedLeavesTable, ServerTypes

\* The table holds a running session or none.
LEMMA TableKept ==
    ASSUME TypeOK, Running, [Next]_vars, EndedLeavesTable
    PROVE  EndedLeavesTable'
<1>1. CASE Run
  <2>1. table' = table /\ (stage' = stage \/ stage' = [stage EXCEPT ![runs + 1] = "request"])
    BY <1>1 DEF Run, Requested
  <2>2. table # 0 => table \in Conns /\ table <= runs
    BY TypesSplit, BoundsTyped DEF EndedLeavesTable, Running, ServerTypes, ClientTypes, Conns
  <2> QED BY <2>1, <2>2, TypesSplit, BoundsTyped DEF EndedLeavesTable, ServerTypes, ClientTypes,
       Conns
<1>2. CASE OpenReturn
  BY <1>2, RequestKeepsTable DEF OpenReturn, Finish, server, EndedLeavesTable
<1>3. CASE Yield
  BY <1>3, RequestKeepsTable DEF Yield, Finish, server, EndedLeavesTable
<1>4. CASE EndOfMessages
  BY <1>4, RequestKeepsTable DEF EndOfMessages, Finish
<1>5. ASSUME NEW c \in Conns, Refuse(c) PROVE EndedLeavesTable'
  BY <1>5, TypesSplit DEF Refuse, EndedLeavesTable, ServerTypes
<1>6. ASSUME NEW c \in Conns, Upgrade(c) PROVE EndedLeavesTable'
  BY <1>6, TypesSplit DEF Upgrade, EndedLeavesTable, ServerTypes
<1>7. ASSUME NEW c \in Conns, Insert(c) PROVE EndedLeavesTable'
  <2>1. stage \in [Conns -> Stages] /\ (table # 0 => table \in Conns)
    BY TypesSplit, BoundsTyped DEF ServerTypes, Conns
  <2>2. CASE stage' = [stage EXCEPT ![c] = "running"] /\ table' = c
    BY <2>1, <2>2 DEF EndedLeavesTable
  <2>3. CASE stage[c] = "accepted" /\ stage' = [stage EXCEPT ![c] = "ended"] /\ table' = table
    BY <2>1, <2>3 DEF EndedLeavesTable
  <2> QED BY <1>7, <2>2, <2>3 DEF Insert
<1>8. ASSUME NEW c \in Conns, ReadEnds(c) PROVE EndedLeavesTable'
  BY <1>8, TypesSplit DEF ReadEnds, TableWithout, EndedLeavesTable, ServerTypes
<1>9. CASE \/ Stop \/ Arrive \/ Notify \/ UNCHANGED vars
           \/ \E c \in Conns : Drop(c)
           \/ \E c \in Conns : Post(c)
           \/ \E c \in Conns : WriteDone(c)
           \/ \E c \in Conns : WriteFail(c)
  <2>1. UNCHANGED <<table, stage>>
    BY <1>9 DEF vars, client, server, Stop, Arrive, Notify, Drop, Post, WriteDone, WriteFail,
         Closed, LoopEnds
  <2> QED BY <2>1 DEF EndedLeavesTable
<1> QED BY <1>1, <1>2, <1>3, <1>4, <1>5, <1>6, <1>7, <1>8, <1>9 DEF Next

-----------------------------------------------------------------------------
(* Queues *)

Early == {"none", "request", "accepted"}

\* Asking for a connection leaves the sessions at work where they are.
LEMMA RequestEarly ==
    ASSUME TypeOK, Running, Run \/ Finish
    PROVE  /\ \A d \in Conns : stage'[d] \in Early => stage[d] \in Early
           /\ \A d \in Conns : stage'[d] = "running" => stage[d] = "running"
<1>1. stage \in [Conns -> Stages]
  BY TypesSplit DEF ServerTypes
<1>2. CASE Run
  <2>1. runs + 1 \in Conns /\ stage[runs + 1] = "none"
    BY <1>2, TypesSplit, BoundsTyped DEF Run, ClientTypes, Conns, Running
  <2>2. stage' = stage \/ stage' = [stage EXCEPT ![runs + 1] = "request"]
    BY <1>2 DEF Run, Requested
  <2> QED BY <1>1, <2>1, <2>2 DEF Early
<1>3. CASE Finish
  <2>1. stage' = stage \/ (pending # 0 /\ stage' = [stage EXCEPT ![pending] = "request"])
    BY <1>3, TypesSplit, TaskMoves DEF Finish, Requested
  <2>2. pending # 0 => pending \in Conns /\ stage[pending] = "none"
    BY TypesSplit, TaskConn DEF Running
  <2> QED BY <1>1, <2>1, <2>2 DEF Early
<1> QED BY <1>2, <1>3

\* Closing a connection empties it, and touches no other.
LEMMA ClosedMoves ==
    ASSUME TypeOK, NEW c \in 0..MaxRuns, Closed(c)
    PROVE  \A d \in Conns : \/ link'[d] = link[d] /\ net'[d] = net[d]
                            \/ link'[d] = "down" /\ net'[d] = <<>>
BY TypesSplit DEF Closed, QueueTypes, ServerTypes

\* A step at the client's end that may close a connection and ask for another.
EndStep ==
    /\ UNCHANGED <<rx, got, posted, outgoing, writing, loops, log>>
    /\ \A d \in Conns : stage'[d] \in Early => stage[d] \in Early
    /\ \A d \in Conns : \/ link'[d] = link[d] /\ net'[d] = net[d]
                        \/ link'[d] = "down" /\ net'[d] = <<>>

LEMMA EndSteps ==
    ASSUME TypeOK, Running,
           Run \/ Stop \/ OpenReturn \/ EndOfMessages
           \/ \E c \in Conns : Drop(c) \/ Refuse(c) \/ Insert(c)
    PROVE  EndStep
<1>1. task.conn \in 0..MaxRuns /\ Conns \subseteq 0..MaxRuns
  BY TypesSplit DEF ClientTypes, Conns
<1>2. stage \in [Conns -> Stages]
  BY TypesSplit DEF ServerTypes
<1>3. CASE Run
  <2>1. Closed(task.conn) \/ UNCHANGED <<link, net>>
    BY <1>3 DEF Run
  <2> QED BY <1>1, <1>3, <2>1, RequestEarly, ClosedMoves DEF Run, EndStep
<1>4. CASE Stop
  BY <1>1, <1>4, ClosedMoves DEF Stop, server, EndStep
<1>5. CASE OpenReturn
  <2>1. CASE Finish /\ Closed(task.conn)
    BY <1>1, <1>5, <2>1, RequestEarly, ClosedMoves DEF OpenReturn, Finish, EndStep
  <2>2. CASE UNCHANGED <<link, net, server>>
    BY <1>5, <2>2 DEF OpenReturn, server, EndStep
  <2> QED BY <1>5, <2>1, <2>2 DEF OpenReturn
<1>6. CASE EndOfMessages
  BY <1>6, RequestEarly DEF EndOfMessages, Finish, EndStep
<1>7. ASSUME NEW c \in Conns, Drop(c) PROVE EndStep
  BY <1>1, <1>7, ClosedMoves DEF Drop, client, server, EndStep
<1>8. ASSUME NEW c \in Conns, Refuse(c) PROVE EndStep
  BY <1>1, <1>2, <1>8, ClosedMoves DEF Refuse, client, Early, EndStep
<1>9. ASSUME NEW c \in Conns, Insert(c) PROVE EndStep
  BY <1>2, <1>9 DEF Insert, client, Early, EndStep
<1> QED BY <1>3, <1>4, <1>5, <1>6, <1>7, <1>8, <1>9

\* Nothing is announced to a connection before its session is entered.
LEMMA UnheardKept ==
    ASSUME TypeOK, Running, EndedLeavesTable, Unheard, [Next]_vars
    PROVE  Unheard'
<1>1. CASE Run
  BY <1>1, EndSteps DEF EndStep, Unheard, NoneUnderWay, Early
<1>2. CASE Stop
  BY <1>2, EndSteps DEF EndStep, Unheard, NoneUnderWay, Early
<1>3. CASE OpenReturn
  BY <1>3, EndSteps DEF EndStep, Unheard, NoneUnderWay, Early
<1>4. CASE Arrive
  <2>1. QueueTypes /\ ServerTypes
    BY TypesSplit
  <2>2. task.conn \in Conns /\ stage[task.conn] \notin Early /\ link[task.conn] = "up"
    BY <1>4, TypesSplit, TaskConn DEF Arrive, Unheard, NoneUnderWay, Early
  <2> QED BY <1>4, <2>1, <2>2 DEF Arrive, server, QueueTypes, Unheard, NoneUnderWay, Early
<1>5. CASE Yield
  <2>1. QueueTypes /\ ServerTypes
    BY TypesSplit
  <2>2. task.conn \in Conns /\ stage[task.conn] \notin Early
    BY <1>5, TypesSplit, TaskConn DEF Yield, Unheard, NoneUnderWay, Early
  <2>3. \A d \in Conns : stage'[d] \in Early => stage[d] \in Early
    BY <1>5, RequestEarly DEF Yield, server
  <2>4. /\ UNCHANGED <<net, link, posted, outgoing, log>>
        /\ \A d \in Conns : d # task.conn => rx'[d] = rx[d] /\ got'[d] = got[d]
    BY <1>5, <2>1 DEF Yield, Finish, server, QueueTypes
  <2> QED BY <2>1, <2>2, <2>3, <2>4 DEF Unheard, NoneUnderWay, Early
<1>6. CASE EndOfMessages
  BY <1>6, EndSteps DEF EndStep, Unheard, NoneUnderWay, Early
<1>7. CASE Notify
  <2>1. QueueTypes /\ ServerTypes
    BY TypesSplit
  <2>2. table # 0 => table \in Conns /\ stage[table] \notin Early
    BY <2>1, BoundsTyped DEF EndedLeavesTable, Conns, ServerTypes, Early
  <2> QED BY <1>7, <2>1, <2>2 DEF Notify, client, QueueTypes, Unheard, NoneUnderWay, Early
<1>8. ASSUME NEW c \in Conns, Drop(c) PROVE Unheard'
  BY <1>8, EndSteps DEF EndStep, Unheard, NoneUnderWay, Early
<1>9. ASSUME NEW c \in Conns, Refuse(c) PROVE Unheard'
  BY <1>9, EndSteps DEF EndStep, Unheard, NoneUnderWay, Early
<1>10. ASSUME NEW c \in Conns, Upgrade(c) PROVE Unheard'
  <2>1. QueueTypes /\ ServerTypes
    BY TypesSplit
  <2>2. net[c] = <<>> /\ (link'[c] = link[c] \/ link'[c] = "up")
    BY <1>10, <2>1 DEF Upgrade, Unheard, NoneUnderWay, ServerTypes
  <2> QED BY <1>10, <2>1, <2>2 DEF Upgrade, client, ServerTypes, Unheard, NoneUnderWay
<1>11. ASSUME NEW c \in Conns, Insert(c) PROVE Unheard'
  BY <1>11, EndSteps DEF EndStep, Unheard, NoneUnderWay, Early
<1>12. ASSUME NEW c \in Conns, ReadEnds(c) PROVE Unheard'
  <2>1. QueueTypes /\ ServerTypes
    BY TypesSplit
  <2> QED BY <1>12, <2>1 DEF ReadEnds, client, QueueTypes, ServerTypes, Unheard, NoneUnderWay
<1>13. ASSUME NEW c \in Conns, Post(c) PROVE Unheard'
  <2>1. QueueTypes /\ ServerTypes
    BY TypesSplit
  <2>2. stage[c] \notin Early
    BY <1>13 DEF Post, Unheard, NoneUnderWay, Early
  <2> QED BY <1>13, <2>1, <2>2 DEF Post, client, QueueTypes, Unheard, NoneUnderWay, Early
<1>14. ASSUME NEW c \in Conns, WriteDone(c) PROVE Unheard'
  <2>1. QueueTypes /\ ServerTypes
    BY TypesSplit
  <2>2. stage[c] \notin Early
    BY <1>14 DEF WriteDone, Unheard, NoneUnderWay, Early
  <2> QED BY <1>14, <2>1, <2>2 DEF WriteDone, client, QueueTypes, Unheard, NoneUnderWay, Early
<1>15. CASE \/ UNCHANGED vars
            \/ \E c \in Conns : WriteFail(c)
  <2>1. UNCHANGED <<stage, link, net, rx, got, posted, outgoing, log>>
    BY <1>15 DEF vars, client, server, WriteFail, LoopEnds
  <2> QED BY <2>1 DEF Unheard, NoneUnderWay
<1> QED BY <1>1, <1>2, <1>3, <1>4, <1>5, <1>6, <1>7, <1>8, <1>9, <1>10, <1>11, <1>12, <1>13,
     <1>14, <1>15 DEF Next

\* No message waits without a write loop.
LEMMA QueueKept ==
    ASSUME TypeOK, Running, Working, Unheard, QueueIsWritten, [Next]_vars
    PROVE  QueueIsWritten'
<1>1. CASE Run
  BY <1>1, EndSteps DEF EndStep, QueueIsWritten
<1>2. CASE Stop
  BY <1>2, EndSteps DEF EndStep, QueueIsWritten
<1>3. CASE OpenReturn
  BY <1>3, EndSteps DEF EndStep, QueueIsWritten
<1>4. CASE EndOfMessages
  BY <1>4, EndSteps DEF EndStep, QueueIsWritten
<1>5. ASSUME NEW c \in Conns, Drop(c) PROVE QueueIsWritten'
  BY <1>5, EndSteps DEF EndStep, QueueIsWritten
<1>6. ASSUME NEW c \in Conns, Refuse(c) PROVE QueueIsWritten'
  BY <1>6, EndSteps DEF EndStep, QueueIsWritten
<1>7. ASSUME NEW c \in Conns, Upgrade(c) PROVE QueueIsWritten'
  <2>1. QueueTypes /\ ServerTypes
    BY TypesSplit
  <2>2. outgoing[c] = <<>>
    BY <1>7 DEF Upgrade, Unheard, NoneUnderWay
  <2> QED BY <1>7, <2>1, <2>2 DEF Upgrade, ServerTypes, QueueIsWritten
<1>8. ASSUME NEW c \in Conns, Insert(c) PROVE QueueIsWritten'
  BY <1>8, EndSteps DEF EndStep, QueueIsWritten
<1>9. ASSUME NEW c \in Conns, ReadEnds(c) PROVE QueueIsWritten'
  <2>1. QueueTypes /\ ServerTypes
    BY TypesSplit
  <2> QED BY <1>9, <2>1 DEF ReadEnds, ServerTypes, QueueTypes, QueueIsWritten
<1>10. ASSUME NEW c \in Conns, Post(c) PROVE QueueIsWritten'
  <2>1. QueueTypes /\ ServerTypes
    BY TypesSplit
  <2>2. loops'[c] = 1
    BY <1>10, <2>1 DEF Post, AtWork, Working, ServerTypes
  <2> QED BY <1>10, <2>1, <2>2 DEF Post, ServerTypes, QueueTypes, QueueIsWritten
<1>11. ASSUME NEW c \in Conns, WriteDone(c) PROVE QueueIsWritten'
  <2>1. QueueTypes /\ ServerTypes
    BY TypesSplit
  <2>2. CASE LoopGoesOn(c)
    <3>1. loops'[c] = 1
      BY <1>11, <2>1, <2>2 DEF WriteDone, ServerTypes
    <3> QED BY <1>11, <2>1, <2>2, <3>1 DEF WriteDone, ServerTypes, QueueTypes, QueueIsWritten
  <2>3. CASE ~LoopGoesOn(c)
    <3>1. outgoing[c] \in Seq(Events) /\ outgoing[c] # <<>>
      BY <1>11, <2>1 DEF WriteDone, QueueTypes
    <3>2. Tail(outgoing[c]) = <<>>
      BY <2>3, <3>1 DEF LoopGoesOn
    <3> QED BY <1>11, <2>1, <2>3, <3>2
            DEF WriteDone, LoopEnds, ServerTypes, QueueTypes, QueueIsWritten
  <2> QED BY <2>2, <2>3
<1>12. ASSUME NEW c \in Conns, WriteFail(c) PROVE QueueIsWritten'
  <2>1. QueueTypes /\ ServerTypes
    BY TypesSplit
  <2> QED BY <1>12, <2>1 DEF WriteFail, LoopEnds, ServerTypes, QueueIsWritten
<1>13. CASE \/ Arrive \/ Yield \/ Notify \/ UNCHANGED vars
  <2>1. UNCHANGED <<link, outgoing, loops>>
    BY <1>13 DEF vars, client, server, Arrive, Yield, Notify, Finish
  <2> QED BY <2>1 DEF QueueIsWritten
<1> QED BY <1>1, <1>2, <1>3, <1>4, <1>5, <1>6, <1>7, <1>8, <1>9, <1>10, <1>11, <1>12, <1>13 DEF
     Next

\* Every event of a standing connection is somewhere on its way.
LEMMA NothingLostKept ==
    ASSUME TypeOK, Running, Unheard, NothingLost, [Next]_vars
    PROVE  NothingLost'
<1>1. CASE Run
  BY <1>1, EndSteps DEF EndStep, NothingLost
<1>2. CASE Stop
  BY <1>2, EndSteps DEF EndStep, NothingLost
<1>3. CASE OpenReturn
  BY <1>3, EndSteps DEF EndStep, NothingLost
<1>4. CASE Arrive
  <2>1. QueueTypes /\ ServerTypes
    BY TypesSplit
  <2>2. task.conn \in Conns
    BY <1>4, TypesSplit, TaskConn DEF Arrive
  <2>3. /\ rx'[task.conn] = Append(rx[task.conn], Head(net[task.conn]))
        /\ net'[task.conn] = Tail(net[task.conn]) /\ net[task.conn] # <<>>
        /\ got[task.conn] \in Seq(Events) /\ rx[task.conn] \in Seq(Events)
        /\ net[task.conn] \in Seq(Events)
        /\ \A d \in Conns : d # task.conn => net'[d] = net[d] /\ rx'[d] = rx[d]
        /\ UNCHANGED <<link, got, outgoing, posted, log>>
    BY <1>4, <2>1, <2>2 DEF Arrive, server, QueueTypes
  <2>4. (got[task.conn] \o rx'[task.conn]) \o net'[task.conn]
          = (got[task.conn] \o rx[task.conn]) \o net[task.conn]
    <3>1. (got[task.conn] \o Append(rx[task.conn], Head(net[task.conn]))) \o Tail(net[task.conn])
            = (got[task.conn] \o rx[task.conn]) \o net[task.conn]
      BY <2>3, MoveInside
    <3> QED BY <2>3, <3>1
  <2> QED BY <2>2, <2>3, <2>4 DEF NothingLost
<1>5. CASE Yield
  <2>1. QueueTypes /\ ServerTypes
    BY TypesSplit
  <2>2. task.conn \in Conns /\ running
    BY <1>5, TypesSplit, TaskConn DEF Yield
  <2>3. CASE task.current
    <3>1. /\ got'[task.conn] = Append(got[task.conn], Head(rx[task.conn]))
          /\ rx'[task.conn] = Tail(rx[task.conn]) /\ rx[task.conn] # <<>>
          /\ got[task.conn] \in Seq(Events) /\ rx[task.conn] \in Seq(Events)
          /\ \A d \in Conns : d # task.conn => got'[d] = got[d] /\ rx'[d] = rx[d]
          /\ UNCHANGED <<link, net, outgoing, posted, log>>
      BY <1>5, <2>1, <2>2, <2>3 DEF Yield, server, QueueTypes
    <3>2. got'[task.conn] \o rx'[task.conn] = got[task.conn] \o rx[task.conn]
      BY <3>1, MoveOne
    <3> QED BY <2>2, <3>1, <3>2 DEF NothingLost
  <2>4. CASE ~task.current
    <3>1. link[task.conn] = "down"
      BY <2>2, <2>4 DEF Running
    <3> QED BY <1>5, <2>1, <2>2, <2>4, <3>1 DEF Yield, Finish, QueueTypes, NothingLost
  <2> QED BY <2>3, <2>4
<1>6. CASE EndOfMessages
  BY <1>6, EndSteps DEF EndStep, NothingLost
<1>7. CASE Notify
  <2>1. QueueTypes /\ ServerTypes
    BY TypesSplit
  <2>2. CASE table = 0
    BY <1>7, <2>2 DEF Notify, client, NothingLost
  <2>3. CASE table # 0
    <3>1. table \in Conns /\ events' \in Events
      BY <1>7, <2>1, <2>3, BoundsTyped DEF Notify, ServerTypes, Conns, Events
    <3>2. /\ posted' = [posted EXCEPT ![table] = Append(@, events')]
          /\ log' = [log EXCEPT ![table] = Append(@, events')]
          /\ UNCHANGED <<link, net, rx, got, outgoing>>
      BY <1>7, <2>3 DEF Notify, client
    <3>3. DEFINE front == ((got[table] \o rx[table]) \o net[table]) \o outgoing[table]
    <3>4. front \in Seq(Events) /\ posted[table] \in Seq(Events)
      BY <2>1, <3>1, ConcatTyped DEF QueueTypes
    <3>5. Append(front \o posted[table], events') = front \o Append(posted[table], events')
      BY <3>1, <3>4, AppendConcat
    <3> QED BY <2>1, <3>1, <3>2, <3>5 DEF QueueTypes, NothingLost
  <2> QED BY <2>2, <2>3
<1>8. ASSUME NEW c \in Conns, Drop(c) PROVE NothingLost'
  BY <1>8, EndSteps DEF EndStep, NothingLost
<1>9. ASSUME NEW c \in Conns, Refuse(c) PROVE NothingLost'
  BY <1>9, EndSteps DEF EndStep, NothingLost
<1>10. ASSUME NEW c \in Conns, Upgrade(c) PROVE NothingLost'
  <2>1. QueueTypes /\ ServerTypes
    BY TypesSplit
  <2>2. NoneUnderWay(c)
    BY <1>10 DEF Upgrade, Unheard
  <2>3. <<>> = (((<<>> \o <<>>) \o <<>>) \o <<>>) \o <<>>
    OBVIOUS
  <2> QED BY <1>10, <2>1, <2>2, <2>3 DEF Upgrade, client, NoneUnderWay, ServerTypes, NothingLost
<1>11. ASSUME NEW c \in Conns, Insert(c) PROVE NothingLost'
  BY <1>11, EndSteps DEF EndStep, NothingLost
<1>12. ASSUME NEW c \in Conns, ReadEnds(c) PROVE NothingLost'
  <2>1. QueueTypes /\ ServerTypes
    BY TypesSplit
  <2> QED BY <1>12, <2>1 DEF ReadEnds, client, QueueTypes, NothingLost
<1>13. ASSUME NEW c \in Conns, Post(c) PROVE NothingLost'
  <2>1. QueueTypes /\ ServerTypes
    BY TypesSplit
  <2>1a. DEFINE front == (got[c] \o rx[c]) \o net[c]
  <2>2. /\ front \in Seq(Events) /\ outgoing[c] \in Seq(Events)
        /\ posted[c] \in Seq(Events) /\ posted[c] # <<>>
    BY <1>13, <2>1, ConcatTyped DEF Post, QueueTypes
  <2>3. (front \o outgoing'[c]) \o posted'[c] = (front \o outgoing[c]) \o posted[c]
    <3>1. outgoing'[c] = Append(outgoing[c], Head(posted[c])) /\ posted'[c] = Tail(posted[c])
      BY <1>13, <2>1 DEF Post, Queued, QueueTypes
    <3>2. (front \o Append(outgoing[c], Head(posted[c]))) \o Tail(posted[c])
            = (front \o outgoing[c]) \o posted[c]
      <4> HIDE DEF front
      <4> QED BY <2>2, MoveInside
    <3> QED BY <3>1, <3>2
  <2>4. \A d \in Conns : d # c => outgoing'[d] = outgoing[d] /\ posted'[d] = posted[d]
    BY <1>13, <2>1 DEF Post, QueueTypes
  <2>5. UNCHANGED <<link, net, rx, got, log>>
    BY <1>13 DEF Post, client
  <2> QED BY <2>3, <2>4, <2>5 DEF NothingLost
<1>14. ASSUME NEW c \in Conns, WriteDone(c) PROVE NothingLost'
  <2>1. QueueTypes /\ ServerTypes
    BY TypesSplit
  <2>2. CASE link[c] # "up"
    BY <1>14, <2>1, <2>2 DEF WriteDone, client, QueueTypes, NothingLost
  <2>3. CASE link[c] = "up"
    <3>1. /\ got[c] \o rx[c] \in Seq(Events) /\ outgoing[c] \in Seq(Events)
          /\ net[c] \in Seq(Events) /\ outgoing[c] # <<>>
      BY <1>14, <2>1, ConcatTyped DEF WriteDone, QueueTypes
    <3>2. /\ outgoing'[c] = Tail(outgoing[c]) /\ net'[c] = Append(net[c], Head(outgoing[c]))
          /\ \A d \in Conns : d # c => outgoing'[d] = outgoing[d] /\ net'[d] = net[d]
      BY <1>14, <2>1, <2>3 DEF WriteDone, QueueTypes
    <3>3. ((got[c] \o rx[c]) \o net'[c]) \o outgoing'[c]
            = ((got[c] \o rx[c]) \o net[c]) \o outgoing[c]
      <4>1. ((got[c] \o rx[c]) \o Append(net[c], Head(outgoing[c]))) \o Tail(outgoing[c])
              = ((got[c] \o rx[c]) \o net[c]) \o outgoing[c]
        BY <3>1, MoveInside
      <4> QED BY <3>2, <4>1
    <3>4. UNCHANGED <<link, rx, got, posted, log>>
      BY <1>14 DEF WriteDone, client
    <3> QED BY <3>2, <3>3, <3>4 DEF NothingLost
  <2> QED BY <2>2, <2>3
<1>15. CASE \/ UNCHANGED vars
            \/ \E c \in Conns : WriteFail(c)
  <2>1. UNCHANGED <<link, net, rx, got, posted, outgoing, log>>
    BY <1>15 DEF vars, client, server, WriteFail, LoopEnds
  <2> QED BY <2>1 DEF NothingLost
<1> QED BY <1>1, <1>2, <1>3, <1>4, <1>5, <1>6, <1>7, <1>8, <1>9, <1>10, <1>11, <1>12, <1>13,
     <1>14, <1>15 DEF Next

\* A run that begins has nothing to handle yet.
LEMMA AheadNew ==
    ASSUME TypeOK, Running, Unheard, Finish, UNCHANGED <<got, log>>,
           \A d \in Conns : d # task.conn => rx'[d] = rx[d]
    PROVE  Ahead'
<1>1. task'.conn = pending
  BY TypesSplit, TaskMoves DEF Finish
<1>2. CASE pending = 0
  BY <1>1, <1>2 DEF Ahead, running
<1>3. CASE pending # 0
  <2>1. pending \in Conns /\ stage[pending] = "none" /\ pending # task.conn
    BY <1>3, TypesSplit, TaskConn, BoundsTyped DEF Running, ClientTypes, Conns
  <2>2. log'[pending] = <<>> /\ got'[pending] = <<>> /\ rx'[pending] = <<>>
    BY <2>1 DEF Unheard, NoneUnderWay
  <2>3. <<>> = (<<>> \o <<>>) \o <<>> /\ <<>> \in Seq(Events)
    OBVIOUS
  <2> QED BY <1>1, <2>2, <2>3 DEF Ahead
<1> QED BY <1>2, <1>3

\* What the client has yet to handle comes next.
LEMMA AheadKept ==
    ASSUME TypeOK, Working, Running, Unheard, NothingLost, Ahead, [Next]_vars
    PROVE  Ahead'
<1>1. CASE Run
  <2>1. ClientTypes /\ UNCHANGED <<rx, got, log>>
    BY <1>1, TypesSplit DEF Run
  <2>2. CASE running
    <3>1. task'.conn = task.conn
      BY <1>1, <2>1, <2>2, TaskMoves DEF Run
    <3> QED BY <2>1, <2>2, <3>1 DEF Ahead
  <2>3. CASE ~running
    <3>1. task'.conn = runs + 1 /\ runs + 1 \in Conns
      BY <1>1, <2>1, <2>3, BoundsTyped DEF Run, Opening, ClientTypes, Conns
    <3>2. stage[runs + 1] = "none"
      BY <2>1, <3>1, BoundsTyped DEF Running, ClientTypes, Conns
    <3>3. log[runs + 1] = <<>> /\ got[runs + 1] = <<>> /\ rx[runs + 1] = <<>>
      BY <3>1, <3>2 DEF Unheard, NoneUnderWay
    <3>4. <<>> = (<<>> \o <<>>) \o <<>> /\ <<>> \in Seq(Events)
      OBVIOUS
    <3> QED BY <2>1, <3>1, <3>3, <3>4 DEF Ahead
  <2> QED BY <2>2, <2>3
<1>2. CASE Stop
  <2>1. task'.conn = task.conn /\ UNCHANGED <<rx, got, log>>
    BY <1>2, TypesSplit, TaskMoves DEF Stop, server
  <2> QED BY <2>1 DEF Ahead, running
<1>3. CASE OpenReturn
  <2>1. CASE Finish
    BY <1>3, <2>1, AheadNew DEF OpenReturn, Finish
  <2>2. CASE task' = [task EXCEPT !.stage = "reading"] /\ UNCHANGED server
    <3>1. task'.conn = task.conn /\ UNCHANGED <<rx, got, log>>
      BY <1>3, <2>2, TypesSplit DEF OpenReturn, server, ClientTypes
    <3> QED BY <3>1 DEF Ahead, running
  <2> QED BY <1>3, <2>1, <2>2 DEF OpenReturn
<1>4. CASE Arrive
  <2>1. task.conn \in Conns /\ task' = task /\ link' = link
    BY <1>4, TypesSplit, TaskConn DEF Arrive
  <2>2. link[task.conn] = "up"
    BY <1>4, <2>1 DEF Arrive, Unheard
  <2>3. QueueTypes' /\ NothingLost'
    BY QueuesTyped, NothingLostKept
  <2>4. log'[task.conn] = (((got'[task.conn] \o rx'[task.conn]) \o net'[task.conn])
                             \o outgoing'[task.conn]) \o posted'[task.conn]
    BY <2>1, <2>2, <2>3 DEF NothingLost
  <2>5. /\ got'[task.conn] \o rx'[task.conn] \in Seq(Events) /\ net'[task.conn] \in Seq(Events)
        /\ outgoing'[task.conn] \in Seq(Events) /\ posted'[task.conn] \in Seq(Events)
    BY <2>1, <2>3, ConcatTyped DEF QueueTypes
  <2>6. PICK rest \in Seq(Events) :
            log'[task.conn] = (got'[task.conn] \o rx'[task.conn]) \o rest
    <3> DEFINE front == got'[task.conn] \o rx'[task.conn]
               queue == net'[task.conn] \o outgoing'[task.conn]
    <3>1. /\ front \in Seq(Events) /\ queue \in Seq(Events)
          /\ net'[task.conn] \in Seq(Events) /\ outgoing'[task.conn] \in Seq(Events)
          /\ posted'[task.conn] \in Seq(Events)
      BY <2>5, ConcatTyped
    <3>2. (front \o net'[task.conn]) \o outgoing'[task.conn] = front \o queue
      <4> HIDE DEF front
      <4> QED BY <3>1, ConcatAssoc
    <3>3. (front \o queue) \o posted'[task.conn] = front \o (queue \o posted'[task.conn])
      <4> HIDE DEF front, queue
      <4> QED BY <3>1, ConcatAssoc
    <3>4. queue \o posted'[task.conn] \in Seq(Events)
      <4> HIDE DEF queue
      <4> QED BY <3>1, ConcatTyped
    <3> QED BY <2>4, <3>2, <3>3, <3>4
  <2> QED BY <2>1, <2>6 DEF Ahead
<1>5. CASE Yield
  <2>1. task.conn \in Conns /\ running /\ QueueTypes
    BY <1>5, TypesSplit, TaskConn DEF Yield
  <2>2. CASE task.current
    <3>1. /\ got'[task.conn] = Append(got[task.conn], Head(rx[task.conn]))
          /\ rx'[task.conn] = Tail(rx[task.conn]) /\ rx[task.conn] # <<>>
          /\ got[task.conn] \in Seq(Events) /\ rx[task.conn] \in Seq(Events)
          /\ UNCHANGED <<task, log>>
      BY <1>5, <2>1, <2>2 DEF Yield, server, QueueTypes
    <3>2. got'[task.conn] \o rx'[task.conn] = got[task.conn] \o rx[task.conn]
      BY <3>1, MoveOne
    <3> QED BY <2>1, <3>1, <3>2 DEF Ahead, running
  <2>3. CASE ~task.current
    <3>1. Finish /\ UNCHANGED <<got, log>> /\ \A d \in Conns : d # task.conn => rx'[d] = rx[d]
      BY <1>5, <2>1, <2>3 DEF Yield, Finish, QueueTypes
    <3> QED BY <3>1, AheadNew
  <2> QED BY <2>2, <2>3
<1>6. CASE EndOfMessages
  BY <1>6, AheadNew DEF EndOfMessages, Finish
<1>7. CASE Notify
  <2>1. UNCHANGED <<task, got, rx>> /\ QueueTypes
    BY <1>7, TypesSplit DEF Notify, client
  <2>2. CASE log' = log
    BY <2>1, <2>2 DEF Ahead, running
  <2>3. CASE running /\ log' # log
    <3>1. PICK rest \in Seq(Events) : log[task.conn] = (got[task.conn] \o rx[task.conn]) \o rest
      BY <2>3 DEF Ahead
    <3>2. task.conn \in Conns /\ events' \in Events
      BY <1>7, <2>3, TypesSplit, TaskConn, BoundsTyped DEF Notify, ServerTypes, Events
    <3>3. got[task.conn] \o rx[task.conn] \in Seq(Events)
      BY <2>1, <3>2, ConcatTyped DEF QueueTypes
    <3>4. Append((got[task.conn] \o rx[task.conn]) \o rest, events')
            = (got[task.conn] \o rx[task.conn]) \o Append(rest, events')
      BY <3>2, <3>3, AppendConcat
    <3>5. Append(rest, events') \in Seq(Events)
      BY <3>2
    <3>6. log'[task.conn] = log[task.conn] \/ log'[task.conn] = Append(log[task.conn], events')
      BY <1>7, <2>1, <2>3, <3>2 DEF Notify, QueueTypes
    <3> QED BY <2>1, <3>1, <3>4, <3>5, <3>6 DEF Ahead
  <2> QED BY <2>1, <2>2, <2>3 DEF Ahead, running
<1>8. CASE \/ UNCHANGED vars
           \/ \E c \in Conns : Drop(c)
           \/ \E c \in Conns : Refuse(c)
           \/ \E c \in Conns : Upgrade(c)
           \/ \E c \in Conns : Insert(c)
           \/ \E c \in Conns : ReadEnds(c)
           \/ \E c \in Conns : Post(c)
           \/ \E c \in Conns : WriteDone(c)
           \/ \E c \in Conns : WriteFail(c)
  <2>1. UNCHANGED <<task, rx, got, log>>
    BY <1>8 DEF vars, client, server, Drop, Refuse, Upgrade, Insert, ReadEnds, Post, WriteDone,
         WriteFail, Closed, LoopEnds
  <2> QED BY <2>1 DEF Ahead, running
<1> QED BY <1>1, <1>2, <1>3, <1>4, <1>5, <1>6, <1>7, <1>8 DEF Next

LEMMA InTableNew ==
    ASSUME TypeOK, Running, InTable, Finish
    PROVE  InTable'
<1>1. task'.conn = pending
  BY TypesSplit, TaskMoves DEF Finish
<1>2. CASE pending = 0
  BY <1>1, <1>2 DEF InTable, running
<1>3. CASE pending # 0
  <2>1. pending \in Conns /\ stage[pending] = "none"
    BY <1>3, TypesSplit, TaskConn DEF Running
  <2> QED BY <1>1, <2>1, RequestEarly DEF InTable
<1> QED BY <1>2, <1>3

\* The session the client reads from is in the table.
LEMMA InTableKept ==
    ASSUME TypeOK, Running, InTable, [Next]_vars
    PROVE  InTable'
<1>1. CASE Run
  <2>1. ClientTypes /\ UNCHANGED <<table, overtaken>>
    BY <1>1, TypesSplit DEF Run
  <2>2. CASE running
    <3>1. task'.conn = task.conn /\ stage' = stage
      BY <1>1, <2>1, <2>2, TaskMoves DEF Run
    <3> QED BY <2>1, <2>2, <3>1 DEF InTable
  <2>3. CASE ~running
    <3>1. task'.conn = runs + 1 /\ runs + 1 \in Conns
      BY <1>1, <2>1, <2>3, BoundsTyped DEF Run, Opening, ClientTypes, Conns
    <3>2. stage[runs + 1] = "none"
      BY <2>1, <3>1, BoundsTyped DEF Running, ClientTypes, Conns
    <3> QED BY <1>1, <3>1, <3>2, RequestEarly DEF InTable
  <2> QED BY <2>2, <2>3
<1>2. CASE Stop
  <2>1. task'.conn = task.conn /\ UNCHANGED <<stage, table, overtaken>>
    BY <1>2, TypesSplit, TaskMoves DEF Stop, server
  <2> QED BY <2>1 DEF InTable, running
<1>3. CASE OpenReturn
  <2>1. CASE Finish
    BY <2>1, InTableNew
  <2>2. CASE UNCHANGED server /\ task'.conn = task.conn
    BY <2>2 DEF server, InTable, running
  <2> QED BY <1>3, <2>1, <2>2, TypesSplit DEF OpenReturn, ClientTypes
<1>4. CASE Yield
  <2>1. CASE Finish
    BY <2>1, InTableNew
  <2>2. CASE UNCHANGED server /\ task'.conn = task.conn
    BY <2>2 DEF server, InTable, running
  <2> QED BY <1>4, <2>1, <2>2, TypesSplit DEF Yield, ClientTypes
<1>5. CASE EndOfMessages
  BY <1>5, InTableNew DEF EndOfMessages
<1>6. ASSUME NEW c \in Conns, Refuse(c) PROVE InTable'
  <2>1. /\ UNCHANGED <<task, table, overtaken>>
        /\ \A d \in Conns : stage'[d] = "running" => stage[d] = "running"
    BY <1>6, TypesSplit DEF Refuse, client, ServerTypes
  <2> QED BY <2>1, TypesSplit, TaskConn DEF InTable, running
<1>7. ASSUME NEW c \in Conns, Upgrade(c) PROVE InTable'
  <2>1. /\ UNCHANGED <<task, table, overtaken>>
        /\ \A d \in Conns : stage'[d] = "running" => stage[d] = "running"
    BY <1>7, TypesSplit DEF Upgrade, client, ServerTypes
  <2> QED BY <2>1, TypesSplit, TaskConn DEF InTable, running
<1>8. ASSUME NEW c \in Conns, Insert(c) PROVE InTable'
  <2>1. task' = task /\ (running => task.conn \in Conns) /\ stage \in [Conns -> Stages]
    BY <1>8, TypesSplit, TaskConn DEF Insert, client, ServerTypes
  <2>2. CASE /\ stage' = [stage EXCEPT ![c] = "ended"]
             /\ UNCHANGED <<table, overtaken>>
    BY <2>1, <2>2 DEF InTable, running
  <2>3. CASE /\ stage' = [stage EXCEPT ![c] = "running"]
             /\ table' = c
             /\ overtaken' = (overtaken \/ \E d \in Conns : d > c /\ stage[d] = "running")
    <3>1. CASE c = task.conn
      BY <2>1, <2>3, <3>1 DEF InTable
    <3>2. CASE c # task.conn
      <4> SUFFICES ASSUME running, ~overtaken', stage'[task.conn] = "running" PROVE FALSE
        BY <2>1 DEF InTable, running
      <4>1. stage[task.conn] = "running" /\ stage[c] # "none"
        BY <1>8, <2>1, <2>3, <3>2 DEF Insert
      <4>2. task.conn > c
        BY <2>1, <3>2, <4>1, BoundsTyped DEF Running, Conns
      <4> QED BY <2>1, <2>3, <4>1, <4>2
    <3> QED BY <3>1, <3>2
  <2> QED BY <1>8, <2>2, <2>3 DEF Insert
<1>9. ASSUME NEW c \in Conns, ReadEnds(c) PROVE InTable'
  <2>1. task' = task /\ overtaken' = overtaken /\ (running => task.conn \in Conns)
    BY <1>9, TypesSplit, TaskConn DEF ReadEnds, client
  <2>2. stage' = [stage EXCEPT ![c] = "ended"] /\ table' = IF table = c THEN 0 ELSE table
    BY <1>9 DEF ReadEnds, TableWithout
  <2> QED BY <2>1, <2>2, TypesSplit DEF InTable, running, ServerTypes
<1>10. CASE \/ Arrive \/ Notify \/ UNCHANGED vars
            \/ \E c \in Conns : Drop(c)
            \/ \E c \in Conns : Post(c)
            \/ \E c \in Conns : WriteDone(c)
            \/ \E c \in Conns : WriteFail(c)
  <2>1. UNCHANGED <<task, stage, table, overtaken>>
    BY <1>10 DEF vars, client, server, Arrive, Notify, Drop, Post, WriteDone, WriteFail, Closed,
         LoopEnds
  <2> QED BY <2>1 DEF InTable, running
<1> QED BY <1>1, <1>2, <1>3, <1>4, <1>5, <1>6, <1>7, <1>8, <1>9, <1>10 DEF Next

-----------------------------------------------------------------------------
(* Theorems *)

Inv ==
    /\ TypeOK /\ Working /\ Running /\ Unheard /\ EndedLeavesTable
    /\ QueueIsWritten /\ NothingLost /\ Ahead /\ InTable

LEMMA InitInv == ASSUME Init PROVE Inv
<1>1. <<>> \in Seq(Events) /\ <<>> = (((<<>> \o <<>>) \o <<>>) \o <<>>) \o <<>>
  OBVIOUS
<1>2. ClientTypes
  BY BoundsTyped DEF Init, ClientTypes, NoTask
<1>3. QueueTypes /\ ServerTypes
  <2>1. [c \in Conns |-> <<>>] \in [Conns -> Seq(Events)]
    BY <1>1
  <2>2. QueueTypes
    BY <2>1 DEF Init, QueueTypes
  <2>3. [c \in Conns |-> 0] \in [Conns -> 0..1]
    OBVIOUS
  <2>4. /\ link \in [Conns -> {"none", "up", "down"}] /\ stage \in [Conns -> Stages]
        /\ writing \in [Conns -> BOOLEAN] /\ loops \in [Conns -> 0..1]
    BY <2>3 DEF Init, Stages
  <2>5. table \in 0..MaxRuns /\ events \in 0..MaxEvents
    BY BoundsTyped DEF Init
  <2>6. overtaken \in BOOLEAN
    BY Zenon DEF Init
  <2> QED BY <2>2, <2>4, <2>5, <2>6 DEF ServerTypes
<1>4. Working /\ Unheard /\ EndedLeavesTable /\ QueueIsWritten /\ NothingLost
  BY <1>1 DEF Init, Working, Unheard, NoneUnderWay, EndedLeavesTable, QueueIsWritten, NothingLost
<1>5. task.conn = 0 /\ task.stage = "none" /\ ~task.current
  BY DEF Init, NoTask
<1>6. Running /\ Ahead /\ InTable
  BY <1>5 DEF Init, Running, Ahead, InTable, running
<1> QED BY <1>2, <1>3, <1>4, <1>6, TypesSplit DEF Inv

LEMMA NextInv == ASSUME Inv, [Next]_vars PROVE Inv'
<1>1. TypeOK' /\ Working' /\ Running' /\ Unheard' /\ EndedLeavesTable'
  BY Typed, WorkingKept, RunningKept, UnheardKept, TableKept DEF Inv
<1>2. QueueIsWritten' /\ NothingLost' /\ Ahead' /\ InTable'
  BY QueueKept, NothingLostKept, AheadKept, InTableKept DEF Inv
<1> QED BY <1>1, <1>2 DEF Inv

LEMMA AlwaysInv == Spec => []Inv
<1>1. Init => Inv
  BY InitInv
<1>2. Inv /\ [Next]_vars => Inv'
  BY NextInv
<1> QED BY <1>1, <1>2, PTL DEF Spec

\* The variables keep their types, and a session has one write loop at most.
THEOREM PushTypeCorrect == Spec => []TypeOK
<1>1. Inv => TypeOK
  BY DEF Inv
<1> QED BY <1>1, AlwaysInv, PTL

\* No event is lost, repeated or overtaken on a connection that stands.
THEOREM NothingLostHolds == Spec => []NothingLost
<1>1. Inv => NothingLost
  BY DEF Inv
<1> QED BY <1>1, AlwaysInv, PTL

\* No message waits without a write loop.
THEOREM QueueHolds == Spec => []QueueIsWritten
<1>1. Inv => QueueIsWritten
  BY DEF Inv
<1> QED BY <1>1, AlwaysInv, PTL

\* The end of an older session never takes the newer one from the table.
THEOREM NewestHolds == Spec => []NewestInTable
<1>1. Inv => NewestInTable
  <2> SUFFICES ASSUME Inv, task.stage = "reading", stage[task.conn] = "running", ~overtaken
               PROVE  table = task.conn
    BY DEF NewestInTable
  <2>1. running
    BY DEF Inv, Running
  <2> QED BY <2>1 DEF Inv, InTable
<1> QED BY <1>1, AlwaysInv, PTL

\* Events are announced to running sessions only.
THEOREM TableHolds == Spec => []EndedLeavesTable
<1>1. Inv => EndedLeavesTable
  BY DEF Inv
<1> QED BY <1>1, AlwaysInv, PTL

-----------------------------------------------------------------------------
(* The stream of events *)

\* Handling the text the generator yields is the abstract step.
LEMMA HandleStep ==
    ASSUME Inv, Yield
    PROVE  UNCHANGED <<last, log, got>> \/ Stream!Handle(task.conn)
<1>1. task.conn \in Conns /\ running /\ QueueTypes
  BY TypesSplit, TaskConn DEF Inv, Yield
<1>2. CASE ~task.current
  BY <1>2 DEF Yield, Finish
<1>3. CASE task.current
  <2>1. task.conn = last /\ UNCHANGED <<last, log>>
    BY <1>3 DEF Inv, Running, Yield, server
  <2>2. got' = [got EXCEPT ![task.conn] = Append(@, Head(rx[task.conn]))]
    BY <1>3 DEF Yield
  <2>3. PICK rest \in Seq(Events) : log[task.conn] = (got[task.conn] \o rx[task.conn]) \o rest
    BY <1>1 DEF Inv, Ahead
  <2>4. /\ got[task.conn] \in Seq(Events) /\ rx[task.conn] \in Seq(Events)
        /\ rx[task.conn] # <<>>
    BY <1>1 DEF QueueTypes, Yield
  <2>5. /\ Len(got[task.conn]) < Len(log[task.conn])
        /\ log[task.conn][Len(got[task.conn]) + 1] = Head(rx[task.conn])
    <3>1. /\ Len(got[task.conn]) < Len((got[task.conn] \o rx[task.conn]) \o rest)
          /\ ((got[task.conn] \o rx[task.conn]) \o rest)[Len(got[task.conn]) + 1]
               = Head(rx[task.conn])
      BY <2>4, NextElement
    <3> QED BY <2>3, <3>1
  <2>6. got' = [got EXCEPT ![task.conn] = Append(@, log[task.conn][Len(@) + 1])]
    BY <1>1, <2>2, <2>5 DEF QueueTypes
  <2> QED BY <2>1, <2>5, <2>6 DEF Stream!Handle
<1> QED BY <1>2, <1>3

\* Every step of Push is one of the stream of events or leaves it alone.
LEMMA StreamStep ==
    ASSUME Inv, [Next]_vars
    PROVE  [Stream!Next]_Stream!vars
<1> USE DEF Stream!vars
<1>1. CASE Run
  <2>1. runs + 1 \in Conns /\ runs + 1 > last /\ stage[runs + 1] = "none"
    BY <1>1, TypesSplit, BoundsTyped DEF Inv, Run, Running, ClientTypes, Conns
  <2>2. log[runs + 1] = <<>>
    BY <2>1 DEF Inv, Unheard, NoneUnderWay
  <2> QED BY <1>1, <2>1, <2>2 DEF Run, Stream!Next, Stream!Login
<1>2. CASE Stop
  BY <1>2 DEF Stop, server, Stream!Next, Stream!Logout
<1>3. CASE Yield
  <2>1. task.conn \in Conns
    BY <1>3, TypesSplit, TaskConn DEF Inv, Yield
  <2> QED BY <1>3, <2>1, HandleStep DEF Stream!Next
<1>4. CASE Notify
  <2>1. CASE table = 0
    BY <1>4, <2>1 DEF Notify, client
  <2>2. CASE table # 0
    <3>1. table \in Conns /\ events' \in Events
      BY <1>4, <2>2, TypesSplit, BoundsTyped DEF Inv, Notify, ServerTypes, Conns, Events
    <3>2. Stream!Announce(table, events')
      BY <1>4, <2>2 DEF Notify, client, Stream!Announce
    <3> QED BY <3>1, <3>2 DEF Stream!Next
  <2> QED BY <2>1, <2>2
<1>5. CASE \/ OpenReturn \/ Arrive \/ EndOfMessages \/ UNCHANGED vars
           \/ \E c \in Conns : Drop(c) \/ Refuse(c) \/ Upgrade(c) \/ Insert(c) \/ ReadEnds(c)
                               \/ Post(c) \/ WriteDone(c) \/ WriteFail(c)
  BY <1>5 DEF vars, client, server, OpenReturn, Finish, Arrive, EndOfMessages, Drop, Refuse,
              Upgrade, Insert, ReadEnds, Post, WriteDone, WriteFail
<1> QED BY <1>1, <1>2, <1>3, <1>4, <1>5 DEF Next

\* The client handles a first part of what is announced, in order, for the latest login only.
THEOREM StreamImplemented == Spec => ImplementsStream
<1>1. Init => Stream!Init
  BY DEF Init, Stream!Init
<1>2. Inv /\ [Next]_vars => [Stream!Next]_Stream!vars
  BY StreamStep
<1> QED BY <1>1, <1>2, AlwaysInv, PTL DEF Spec, ImplementsStream, Stream!Spec
=============================================================================
