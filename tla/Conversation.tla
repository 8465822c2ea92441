------------------------------ MODULE Conversation ------------------------------
(*****************************************************************************)
(* Two-party conversations end to end: the message half of the Qt client's   *)
(* MessengerController, the server's MessagesController with its messages    *)
(* table, and the requests, replies and push events between them.            *)
(*                                                                           *)
(* The client is a set of coroutines on one event loop.  A handler runs       *)
(* without interruption up to a co_await of the HTTP client; what it must     *)
(* re-check when it resumes (generation, session, open peer) is what this     *)
(* module is about.  Each user has one installation.                          *)
(*****************************************************************************)
EXTENDS Integers, FiniteSets

CONSTANTS
    Users,      \* user ids, as numbers: their order is the order of the id strings
    NoPeer,     \* peer_ while no conversation is open
    MaxClock,   \* the largest counter, INT64_MAX in the code
    PageLimit,  \* the page size a client asks for, "100" in the code
    Legacy,     \* Legacy[u]: the identity-wide counter an old installation left, 0 if none
    Trusted,    \* Trusted[u]: the peers whose share u has imported
    OldRows,    \* version 1 rows migration 000009 preserved
    Sigs,       \* signatures, ordered like their text; one for each message that may be signed
    Quota,      \* Quota[u] bounds the messages u signs
    Slots,      \* Slots[u] bounds the loads u has in flight
    MaxStamp,   \* bounds created_at, as the number of transactions begun
    Env         \* the environment events the instance allows

EnvEvents == {"disk", "crash", "logout", "postfail", "getfail", "server", "resend", "socket", "drop"}

Counter == 0..MaxClock
Message == [from: Users, to: Users, ctr: Counter, sig: Nat, ver: {1, 2}]
Row == [msg: Message, at: Nat]

ASSUME ConstantsAssumption ==
    /\ Users \subseteq Nat
    /\ NoPeer \notin Users
    /\ MaxClock \in Nat
    /\ PageLimit \in Nat \ {0}
    /\ Legacy \in [Users -> Counter]
    /\ Trusted \in [Users -> SUBSET Users]
    /\ OldRows \subseteq Row /\ IsFiniteSet(OldRows)
    /\ \A r \in OldRows : r.msg.ver = 1
    /\ Sigs \subseteq Nat
    /\ \A r \in OldRows : r.msg.sig \notin Sigs
    /\ Quota \in [Users -> Nat]
    /\ Slots \in [Users -> SUBSET Nat]
    /\ MaxStamp \in Nat
    /\ Env \subseteq EnvEvents

VARIABLES
    up,        \* up[u]: u's client is running and logged in
    peer,      \* peer_[u]: the open conversation
    view,      \* messages_[u]: the rows on screen, drawn in the order Before
    alert,     \* alert[u]: the load error shown above the messages
    ws,        \* ws[u]: the push socket, "off", "opening" or "open"
    cache,     \* cache[u][p]: the counter as QSettings returns it in this process, 0 if absent
    disk,      \* disk[u][p]: the counter in the settings file
    posts,     \* POST /messages requests in progress
    gets,      \* GET /messages requests in progress
    rows,      \* the messages table
    notes,     \* notes[u]: rows announced to u and not handled yet
    sent,      \* history: messages signed, each with what its sender then knew
    observed,  \* history: observed[u], the messages u's client has displayed
    covered,   \* history: covered[u], the socket was open when the last load began, and since
    untold     \* history: untold[u], rows u should have heard of since, and will not

client == <<up, peer, view, alert, ws>>
clocks == <<cache, disk>>
history == <<sent, observed, covered, untold>>
vars == <<client, clocks, posts, gets, rows, notes, history>>

-----------------------------------------------------------------------------
(* Operators *)

Peers(u) == Users \ {u}

Between(m, u, p) == {m.from, m.to} = {u, p}

\* MUTANT of Before: the rows of one sender stay together.
BeforeBySender(a, b) == a.from < b.from \/ (a.from = b.from /\ a.ctr < b.ctr)

\* The display order: counter, then sender, then signature.
Before(a, b) ==
    \/ a.ctr < b.ctr
    \/ a.ctr = b.ctr /\ a.from < b.from
    \/ a.ctr = b.ctr /\ a.from = b.from /\ a.sig < b.sig

\* MUTANT of Clock: the identity-wide counter is forgotten.
ClockUnseeded(u, p) == cache[u][p]

\* MessengerController::clock: a conversation without a counter of its own
\* starts from the identity-wide one.
Clock(u, p) == IF cache[u][p] # 0 THEN cache[u][p] ELSE Legacy[u]

\* MUTANT of Exhausted: off by one.
ExhaustedLate(u, p) == Clock(u, p) > MaxClock

\* clock throws on a value the next tick could not follow.
Exhausted(u, p) == Clock(u, p) >= MaxClock

\* MUTANT of NextTick: what was received is not looked at.
NextTickOwn(u, p, seen) == Clock(u, p) + 1

\* MessengerController::tick computes one more than the larger of the two.
NextTick(u, p, seen) == (IF Clock(u, p) > seen THEN Clock(u, p) ELSE seen) + 1

\* The answer to GET /messages: the newest PageLimit rows of the conversation.
Page(u, p) ==
    LET all == {r \in rows : Between(r.msg, u, p)}
    IN  {r \in all : Cardinality({q \in all : q.at > r.at}) < PageLimit}

\* MUTANT of Dedup: none.
DedupNothing(page) == page

\* A page keeps the first row of each signature.
Dedup(page) == {r \in page : \A q \in page : q.msg.sig = r.msg.sig => r.at <= q.at}

\* c is maximum_received of a page.
IsTop(c, rs) ==
    /\ \E r \in rs : r.msg.ctr = c
    /\ \A r \in rs : r.msg.ctr <= c

\* Signatures are taken in order: which is the larger matters to Before only between
\* equal counters of one sender, and UniqueCounters says that there are none.
Unused(sig) == \A s \in sent : s.msg.sig # sig

\* What u knows of its conversation with p: all it sent there and all it displayed.
Known(u, p) ==
    {s.msg : s \in {t \in sent : t.msg.from = u /\ t.msg.to = p}}
        \cup {m \in observed[u] : Between(m, u, p)}

\* created_at is the start of the inserting transaction: later than every other's.
IsNow(n) ==
    LET taken == {r.at : r \in rows} \cup {p.at : p \in posts}
    IN  /\ \A t \in taken : t < n
        /\ n = 1 \/ n - 1 \in taken

\* MUTANT of Persist: the value is left to be written later.
PersistLater(u) == disk' = disk

\* sync writes everything the process has changed.
Persist(u) == disk' = [disk EXCEPT ![u] = cache'[u]]

\* Constructing a QSettings object writes what an earlier sync could not, if it can.
Flush(u) ==
    \/ disk' = [disk EXCEPT ![u] = cache[u]]
    \/ "disk" \in Env /\ disk' = disk

\* The requests of u when a generation of u's client has moved on.
Outdate(g, u) == IF g.user = u THEN [g EXCEPT !.current = FALSE] ELSE g
Orphan(p, u) == IF p.msg.from = u THEN [p EXCEPT !.live = FALSE] ELSE p

\* loadMessagesAsync up to its co_await: a new generation, and the request.
StartLoad(u, p) ==
    \E s \in Slots[u] :
        /\ \A g \in gets : g.user = u => g.slot # s
        /\ \A t \in Slots[u] : t < s => \E g \in gets : g.user = u /\ g.slot = t
        /\ gets' = {Outdate(g, u) : g \in gets} \cup
                   {[user |-> u, with |-> p, slot |-> s, current |-> TRUE,
                     stage |-> "asked", page |-> {}]}
        /\ covered' = [covered EXCEPT ![u] = ws[u] = "open"]
        /\ untold' = [untold EXCEPT ![u] = {}]

\* Nothing is heard without a socket.
Deafen(u) ==
    /\ notes' = [notes EXCEPT ![u] = {}]
    /\ covered' = [covered EXCEPT ![u] = FALSE]
    /\ untold' = [untold EXCEPT ![u] = {}]

\* resetSession raises both generations: every coroutine of u is out of date.
Abandon(u) ==
    /\ gets' = {Outdate(g, u) : g \in gets}
    /\ posts' = {Orphan(p, u) : p \in posts}

-----------------------------------------------------------------------------
(* The session: authFinished, loggedOut, and the end of the process *)

\* resetSession closes the conversation.
ResetScreen(u) ==
    /\ peer' = [peer EXCEPT ![u] = NoPeer]
    /\ view' = [view EXCEPT ![u] = {}]
    /\ alert' = [alert EXCEPT ![u] = FALSE]

\* saveLogin has synced the settings; onAuthenticated resets the session; ws.run connects.
Login(u) ==
    /\ ~up[u]
    /\ up' = [up EXCEPT ![u] = TRUE]
    /\ ws' = [ws EXCEPT ![u] = "opening"]
    /\ disk' = [disk EXCEPT ![u] = cache[u]]
    /\ ResetScreen(u)
    /\ Abandon(u)
    /\ UNCHANGED <<cache, rows, notes, history>>

\* What resetSession and ws.stop leave of the session on screen and on the socket.
EndSession(u) ==
    /\ up' = [up EXCEPT ![u] = FALSE]
    /\ ResetScreen(u)
    /\ ws' = [ws EXCEPT ![u] = "off"]
    /\ Deafen(u)

Logout(u) ==
    /\ "logout" \in Env
    /\ up[u]
    /\ EndSession(u)
    /\ Abandon(u)
    /\ Flush(u)
    /\ UNCHANGED <<cache, rows, sent, observed>>

\* The process ends: its coroutines are gone, and the counters only the process had.
Crash(u) ==
    /\ "crash" \in Env
    /\ up[u] \/ cache[u] # disk[u]
    /\ EndSession(u)
    /\ cache' = [cache EXCEPT ![u] = disk[u]]
    /\ gets' = {g \in gets : g.user # u}
    /\ posts' = {Orphan(p, u) : p \in posts}
    /\ UNCHANGED <<disk, rows, sent, observed>>

-----------------------------------------------------------------------------
(* Sending *)

\* Without a conversation, or without the peer's keys, sending fails before it does anything.
CanSend(u) == up[u] /\ peer[u] \in Trusted[u]

\* sendMessageAsync up to its co_await: tick, persist, sign, POST.
Send(u) ==
    LET p == peer[u]
        c == NextTick(u, p, 0)
    IN  /\ CanSend(u)
        /\ ~Exhausted(u, p)
        /\ Cardinality({s \in sent : s.msg.from = u}) < Quota[u]
        /\ cache' = [cache EXCEPT ![u][p] = c]
        /\ Persist(u)
        /\ \E sig \in Sigs :
             LET m == [from |-> u, to |-> p, ctr |-> c, sig |-> sig, ver |-> 2]
             IN  /\ Unused(sig)
                 /\ \A t \in Sigs : Unused(t) => sig <= t
                 /\ posts' = posts \cup
                      {[msg |-> m, n |-> 1, live |-> TRUE, stage |-> "wire", at |-> 0]}
                 /\ sent' = sent \cup {[msg |-> m, past |-> Known(u, p)]}
        /\ UNCHANGED <<client, gets, rows, notes, observed, covered, untold>>

\* The counter could not be persisted: nothing is sent, and the value in memory stays raised.
SendUnpersisted(u) ==
    LET p == peer[u]
    IN  /\ "disk" \in Env
        /\ CanSend(u)
        /\ ~Exhausted(u, p)
        /\ cache' = [cache EXCEPT ![u][p] = NextTick(u, p, 0)]
        /\ Flush(u)
        /\ UNCHANGED <<client, posts, gets, rows, notes, history>>

SendExhausted(u) ==
    /\ CanSend(u)
    /\ Exhausted(u, peer[u])
    /\ Flush(u)
    /\ UNCHANGED <<client, cache, posts, gets, rows, notes, history>>

\* A worker begins the INSERT.
PostBegin(p) ==
    /\ p.stage = "wire"
    /\ \E n \in 1..MaxStamp :
         /\ IsNow(n)
         /\ posts' = (posts \ {p}) \cup {[p EXCEPT !.stage = "insert", !.at = n]}
    /\ UNCHANGED <<client, clocks, gets, rows, notes, history>>

PostCommit(p) ==
    /\ p.stage = "insert"
    /\ rows' = rows \cup {[msg |-> p.msg, at |-> p.at]}
    /\ posts' = (posts \ {p}) \cup {[p EXCEPT !.stage = "committed"]}
    /\ UNCHANGED <<client, clocks, gets, notes, history>>

\* The handler resumes: message_created, then the response.
PostResume(p) ==
    /\ p.stage = "committed"
    /\ notes' = IF ws[p.msg.to] = "open"
                THEN [notes EXCEPT ![p.msg.to] = @ \cup {[msg |-> p.msg, at |-> p.at]}]
                ELSE notes
    /\ posts' = (posts \ {p}) \cup {[p EXCEPT !.stage = "replied"]}
    /\ UNCHANGED <<client, clocks, gets, rows, history>>

\* sendMessageAsync resumes with the reply: it reloads if its peer is still open.
PostReturn(p) ==
    /\ p.stage = "replied"
    /\ posts' = posts \ {p}
    /\ IF p.live /\ peer[p.msg.from] = p.msg.to
       THEN StartLoad(p.msg.from, p.msg.to)
       ELSE UNCHANGED <<gets, covered, untold>>
    /\ UNCHANGED <<client, clocks, rows, notes, sent, observed>>

\* The request never arrives.
PostLost(p) ==
    /\ "postfail" \in Env
    /\ p.stage = "wire"
    /\ posts' = posts \ {p}
    /\ UNCHANGED <<client, clocks, gets, rows, notes, history>>

\* The sender loses its connection, or the answer: it reports a failure, and does not
\* know how far the server gets.
PostDetach(p) ==
    /\ "postfail" \in Env
    /\ p.live
    /\ posts' = (posts \ {p}) \cup {[p EXCEPT !.live = FALSE]}
    /\ UNCHANGED <<client, clocks, gets, rows, notes, history>>

\* The database fails the handler, before the commit or so that it cannot tell: a row
\* stored by then is announced to nobody.
HandlerFail(p) ==
    /\ "server" \in Env
    /\ p.stage \in {"insert", "committed"}
    /\ posts' = posts \ {p}
    /\ untold' = IF p.stage = "committed" /\ covered[p.msg.to]
                 THEN [untold EXCEPT ![p.msg.to] = @ \cup {p.msg}]
                 ELSE untold
    /\ UNCHANGED <<client, clocks, gets, rows, notes, sent, observed, covered>>

\* Qt's HTTP layer repeats a request whose connection closed before any answer; the
\* server may be at work on the first one still.  (Repeating a request that has not
\* arrived is the same as its arriving late.)
PostResend(p) ==
    /\ "resend" \in Env
    /\ p.n = 1 /\ p.live /\ p.stage # "wire"
    /\ posts' = (posts \ {p}) \cup
         {[p EXCEPT !.live = FALSE], [p EXCEPT !.n = 2, !.stage = "wire", !.at = 0]}
    /\ UNCHANGED <<client, clocks, gets, rows, notes, history>>

-----------------------------------------------------------------------------
(* Loading *)

\* openConversation clears the screen only when the peer changes, and always loads.
OpenConversation(u, p) ==
    /\ up[u]
    /\ peer' = [peer EXCEPT ![u] = p]
    /\ view' = IF peer[u] = p THEN view ELSE [view EXCEPT ![u] = {}]
    /\ alert' = IF peer[u] = p THEN alert ELSE [alert EXCEPT ![u] = FALSE]
    /\ StartLoad(u, p)
    /\ UNCHANGED <<up, ws, clocks, posts, rows, notes, sent, observed>>

GetAnswer(g) ==
    /\ g.stage = "asked"
    /\ gets' = (gets \ {g}) \cup
                 {[g EXCEPT !.stage = "answered", !.page = Page(g.user, g.with)]}
    /\ UNCHANGED <<client, clocks, posts, rows, notes, history>>

\* The page replaces what is on screen.
Display(u, page) ==
    /\ view' = [view EXCEPT ![u] = Dedup(page)]
    /\ alert' = [alert EXCEPT ![u] = FALSE]
    /\ observed' = [observed EXCEPT ![u] = @ \cup {r.msg : r \in page}]

\* messagesLoadFailed: the screen keeps its messages and shows the error.
LoadFailed(u, p) ==
    /\ alert' = IF peer[u] = p THEN [alert EXCEPT ![u] = TRUE] ELSE alert
    /\ UNCHANGED <<view, observed>>

\* The keys are missing or a row has no signature.
Refused(g) == g.with \notin Trusted[g.user] \/ \E r \in g.page : r.msg.ver # 2

\* A verified page, and what it does to the clock.
Receive(g) ==
    LET u == g.user
        p == g.with
    IN  \/ /\ g.page = {}
           /\ Display(u, g.page)
           /\ UNCHANGED clocks
        \/ \E top \in Counter :
             /\ IsTop(top, g.page)
             /\ \/ /\ Exhausted(u, p) \/ top = MaxClock
                   /\ LoadFailed(u, p)
                   /\ Flush(u)
                   /\ UNCHANGED cache
                \/ /\ ~Exhausted(u, p)
                   /\ top < Clock(u, p)
                   /\ Display(u, g.page)
                   /\ Flush(u)
                   /\ UNCHANGED cache
                \/ /\ ~Exhausted(u, p)
                   /\ top >= Clock(u, p)
                   /\ top < MaxClock
                   /\ cache' = [cache EXCEPT ![u][p] = NextTick(u, p, top)]
                   /\ \/ /\ Persist(u)
                         /\ Display(u, g.page)
                      \/ /\ "disk" \in Env
                         /\ Flush(u)
                         /\ LoadFailed(u, p)

\* MUTANTS of OutOfDate: the generation is not compared; nothing is.
OutOfDatePeerOnly(g) == peer[g.user] # g.with
OutOfDateNever(g) == FALSE

\* Another conversation was opened, or another load begun, while this one waited.
OutOfDate(g) == peer[g.user] # g.with \/ ~g.current

\* loadMessagesAsync resumes with a page.
GetReturn(g) ==
    /\ g.stage = "answered"
    /\ gets' = gets \ {g}
    /\ \/ OutOfDate(g) /\ UNCHANGED <<view, alert, observed, clocks>>
       \/ ~OutOfDate(g) /\ Refused(g) /\ LoadFailed(g.user, g.with) /\ UNCHANGED clocks
       \/ ~OutOfDate(g) /\ ~Refused(g) /\ Receive(g)
    /\ UNCHANGED <<up, peer, ws, posts, rows, notes, sent, covered, untold>>

\* The request failed.  The handler looks at the open peer, not at the generation.
GetFail(g) ==
    /\ "getfail" \in Env
    /\ gets' = gets \ {g}
    /\ LoadFailed(g.user, g.with)
    /\ UNCHANGED <<up, peer, ws, clocks, posts, rows, notes, sent, covered, untold>>

-----------------------------------------------------------------------------
(* The push socket *)

WsOpen(u) ==
    /\ "socket" \in Env
    /\ ws[u] = "opening"
    /\ ws' = [ws EXCEPT ![u] = "open"]
    /\ UNCHANGED <<up, peer, view, alert, clocks, posts, gets, rows, notes, history>>

\* The connection is lost with whatever was queued on it; the client does not reconnect.
WsDrop(u) ==
    /\ "drop" \in Env
    /\ ws[u] # "off"
    /\ ws' = [ws EXCEPT ![u] = "off"]
    /\ Deafen(u)
    /\ UNCHANGED <<up, peer, view, alert, clocks, posts, gets, rows, sent, observed>>

\* MUTANTS of Concerns: a load in flight is taken to be enough; the wrong end is compared.
ConcernsIdle(u, n) == peer[u] = n.msg.from /\ \A g \in gets : g.user # u
ConcernsReceiver(u, n) == peer[u] = n.msg.to

Concerns(u, n) == peer[u] = n.msg.from

\* onMessageReceived reloads if the message's sender is the open peer.
MessageReceived(u, n) ==
    /\ notes' = [notes EXCEPT ![u] = @ \ {n}]
    /\ IF Concerns(u, n)
       THEN StartLoad(u, n.msg.from)
       ELSE UNCHANGED <<gets, covered, untold>>
    /\ UNCHANGED <<client, clocks, posts, rows, sent, observed>>

-----------------------------------------------------------------------------
(* The specification *)

Init ==
    /\ up = [u \in Users |-> FALSE]
    /\ peer = [u \in Users |-> NoPeer]
    /\ view = [u \in Users |-> {}]
    /\ alert = [u \in Users |-> FALSE]
    /\ ws = [u \in Users |-> "off"]
    /\ cache = [u \in Users |-> [p \in Users |-> 0]]
    /\ disk = cache
    /\ posts = {}
    /\ gets = {}
    /\ rows = OldRows
    /\ notes = [u \in Users |-> {}]
    /\ sent = {}
    /\ observed = [u \in Users |-> {}]
    /\ covered = [u \in Users |-> FALSE]
    /\ untold = [u \in Users |-> {}]

ClientStep(u) ==
    \/ Login(u)
    \/ Logout(u)
    \/ Crash(u)
    \/ Send(u)
    \/ SendUnpersisted(u)
    \/ SendExhausted(u)
    \/ \E p \in Peers(u) : OpenConversation(u, p)
    \/ WsOpen(u)
    \/ WsDrop(u)
    \/ \E n \in notes[u] : MessageReceived(u, n)

PostStep(p) ==
    \/ PostBegin(p)
    \/ PostCommit(p)
    \/ PostResume(p)
    \/ PostReturn(p)
    \/ PostLost(p)
    \/ PostDetach(p)
    \/ HandlerFail(p)
    \/ PostResend(p)

GetStep(g) == GetAnswer(g) \/ GetReturn(g) \/ GetFail(g)

Next ==
    \/ \E u \in Users : ClientStep(u)
    \/ \E p \in posts : PostStep(p)
    \/ \E g \in gets : GetStep(g)

Spec == Init /\ [][Next]_vars

\* The event loops, the server and the network keep going; users owe nothing.
Fairness ==
    /\ \A u \in Users, s \in UNION {Slots[v] : v \in Users} :
         WF_vars(\E g \in gets : g.user = u /\ g.slot = s /\ (GetAnswer(g) \/ GetReturn(g)))
    /\ \A s \in Sigs, k \in {1, 2} :
         WF_vars(\E p \in posts : p.msg.sig = s /\ p.n = k /\
                    (PostBegin(p) \/ PostCommit(p) \/ PostResume(p) \/ PostReturn(p)))
    /\ \A u \in Users, s \in Sigs :
         WF_vars(\E n \in notes[u] : n.msg.sig = s /\ MessageReceived(u, n))

FairSpec == Spec /\ Fairness

-----------------------------------------------------------------------------
(* Properties *)

Post == [msg: Message, n: {1, 2}, live: BOOLEAN, at: Nat,
         stage: {"wire", "insert", "committed", "replied"}]
Get == [user: Users, with: Users, slot: Nat, current: BOOLEAN,
        stage: {"asked", "answered"}, page: SUBSET Row]

\* Every variable keeps to its set; of a user's loads at most one is current.
TypeOK ==
    /\ up \in [Users -> BOOLEAN]
    /\ peer \in [Users -> Users \cup {NoPeer}]
    /\ view \in [Users -> SUBSET Row]
    /\ alert \in [Users -> BOOLEAN]
    /\ ws \in [Users -> {"off", "opening", "open"}]
    /\ cache \in [Users -> [Users -> Counter]]
    /\ disk \in [Users -> [Users -> Counter]]
    /\ posts \subseteq Post
    /\ gets \subseteq Get
    /\ \A g, h \in gets : g.user = h.user /\ g.current /\ h.current => g = h
    /\ rows \subseteq Row
    /\ notes \in [Users -> SUBSET Row]
    /\ sent \subseteq [msg: Message, past: SUBSET Message]
    /\ observed \in [Users -> SUBSET Message]
    /\ covered \in [Users -> BOOLEAN]
    /\ untold \in [Users -> SUBSET Message]

\* A message carries a larger counter than every message of its conversation that
\* its sender had sent or displayed before: docs/message-protocol-v2.md, lines 4-6.
CausalOrder ==
    \A s \in sent : \A k \in s.past : k.ctr < s.msg.ctr

\* Two messages of one sender to one receiver never carry the same counter.
UniqueCounters ==
    \A s, t \in sent :
        s.msg.from = t.msg.from /\ s.msg.to = t.msg.to /\ s.msg.ctr = t.msg.ctr => s = t

\* The counter of a signed message is in the sender's settings file from before the
\* POST on, whatever fails: docs/message-protocol-v2.md, line 4.
PersistedBeforeSend ==
    \A s \in sent : s.msg.ctr <= disk[s.msg.from][s.msg.to]

\* New counters lie above the identity-wide one an old installation left, so that what
\* it signed stays ordered: the comment at messenger.cpp:126-127.
AboveLegacy ==
    \A s \in sent : s.msg.ctr > Legacy[s.msg.from]

\* On screen no message is drawn above one its sender knew of when writing it, whoever
\* looks and in whatever order the server stored and returned the two.
DisplayCausal ==
    \A u \in Users : \A a, b \in view[u] :
        (\E s \in sent : s.msg = b.msg /\ a.msg \in s.past)
            => Before(a.msg, b.msg) /\ ~Before(b.msg, a.msg)

\* What is on screen belongs to the open conversation, was signed by its sender, is
\* stored, and is drawn once, however often a request was repeated: a late answer for
\* another peer or another session never gets there.
ViewIsConversation ==
    \A u \in Users : \A r \in view[u] :
        /\ Between(r.msg, u, peer[u])
        /\ r \in rows
        /\ \E s \in sent : s.msg = r.msg
        /\ \A q \in view[u] : q.msg.sig = r.msg.sig => q = r

\* A page is not replaced by an older one: while the peer stays open a message leaves the
\* screen only if PageLimit newer rows of the conversation displaced it.
NeverOlder ==
    [][\A u \in Users :
         peer'[u] = peer[u] =>
           \A r \in view[u] :
             \/ \E q \in view'[u] : q.msg = r.msg
             \/ PageLimit <= Cardinality(
                    {q \in rows : q.at > r.at /\ Between(q.msg, u, peer[u])})]_vars

\* Nothing is on its way to u: no current load, no announcement, no message of its peer
\* between the network and the handler's notify.
Quiet(u) ==
    /\ \A g \in gets : g.user = u => ~g.current
    /\ notes[u] = {}
    /\ \A p \in posts : p.msg.to = u => p.stage \in {"wire", "insert", "replied"}

\* No silent gap: if the push socket was open when the last load began and since, nothing
\* is on its way and no error is shown, then the screen has every message of the peer
\* that the newest PageLimit rows hold.  Only a message whose handler failed after its
\* commit may be missing, and only until the next load, whatever begins it.
NothingMissed ==
    \A u \in Users :
        covered[u] /\ Quiet(u) /\ ~alert[u] /\ peer[u] # NoPeer =>
            \A r \in Page(u, peer[u]) :
                r.msg.from = peer[u] =>
                    (\E q \in view[u] : q.msg = r.msg) \/ r.msg \in untold[u]

\* Users stop clicking at some point: every click starts a load that makes the
\* earlier ones out of date, so an endless row of clicks shows nothing.
UsersSettle == <>[][\A u \in Users : \A p \in Peers(u) : ~OpenConversation(u, p)]_vars

\* m needs no more drawing for u: it is drawn, an error is, PageLimit newer rows took its
\* place, its announcement failed, or u looks elsewhere or without an open socket.
Settled(u, m) ==
    \/ \E q \in view[u] : q.msg = m
    \/ alert[u]
    \/ peer[u] # m.from
    \/ ~covered[u]
    \/ m \in untold[u]
    \/ \A r \in Page(u, m.from) : r.msg # m

\* A stored message reaches the screen of a receiver who has the conversation open and
\* its socket connected, without another click.
MessageShown ==
    UsersSettle =>
        \A u \in Users : \A sig \in Sigs :
            (\E r \in rows : r.msg.sig = sig /\ r.msg.to = u) ~>
                (\E r \in rows : r.msg.sig = sig /\ Settled(u, r.msg))

\* What the protocol document promises is what the clients do.
Order == INSTANCE LamportOrder WITH written <- sent, read <- observed

ImplementsOrder == Order!LSpec

=============================================================================
