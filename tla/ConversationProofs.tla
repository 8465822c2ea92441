-------------------------- MODULE ConversationProofs --------------------------
(* Theorems about Conversation, for every value of its constants. *)
EXTENDS Conversation, TLAPS

-----------------------------------------------------------------------------
(* Type correctness *)

\* Of a user's loads one is current.
OneCurrent(loads) == \A g, h \in loads : g.user = h.user /\ g.current /\ h.current => g = h

\* The loads of u once they are out of date.
LEMMA OutdatedTypes ==
    ASSUME TypeOK, NEW u
    PROVE  /\ \A g \in gets : Outdate(g, u) \in Get
           /\ OneCurrent({Outdate(g, u) : g \in gets})
           /\ \A g \in gets : Outdate(g, u).user = u => ~Outdate(g, u).current
<1>1. \A g \in gets : /\ Outdate(g, u) \in Get /\ Outdate(g, u).user = g.user
                      /\ IF g.user = u THEN ~Outdate(g, u).current ELSE Outdate(g, u) = g
  BY DEF TypeOK, Get, Outdate
<1>2. OneCurrent(gets)
  BY DEF TypeOK, OneCurrent
<1> QED BY <1>1, <1>2 DEF OneCurrent

\* A new load leaves requests and flags well typed.
LEMMA StartLoadType ==
    ASSUME TypeOK, NEW u \in Users, NEW p \in Users, StartLoad(u, p)
    PROVE  /\ gets' \subseteq Get /\ OneCurrent(gets')
           /\ covered' \in [Users -> BOOLEAN] /\ untold' \in [Users -> SUBSET Message]
<1>1. PICK s \in Slots[u] :
        gets' = {Outdate(g, u) : g \in gets} \cup
                {[user |-> u, with |-> p, slot |-> s, current |-> TRUE,
                  stage |-> "asked", page |-> {}]}
  BY DEF StartLoad
<1>2. s \in Nat
  BY ConstantsAssumption
<1> DEFINE n == [user |-> u, with |-> p, slot |-> s, current |-> TRUE,
                 stage |-> "asked", page |-> {}]
<1>3. n \in Get /\ n.user = u
  BY <1>2 DEF Get
<1>4. gets' = {Outdate(g, u) : g \in gets} \cup {n}
  BY <1>1
<1> HIDE DEF n
<1>5. covered' \in [Users -> BOOLEAN] /\ untold' \in [Users -> SUBSET Message]
  BY DEF StartLoad, TypeOK
<1>6. /\ \A g \in gets : Outdate(g, u) \in Get
      /\ OneCurrent({Outdate(g, u) : g \in gets})
      /\ \A g \in gets : Outdate(g, u).user = u => ~Outdate(g, u).current
  BY OutdatedTypes
<1> QED BY <1>3, <1>4, <1>5, <1>6 DEF OneCurrent

\* So does the end of a session.
LEMMA AbandonType ==
    ASSUME TypeOK, NEW u \in Users, Abandon(u)
    PROVE  gets' \subseteq Get /\ OneCurrent(gets') /\ posts' \subseteq Post
<1>1. /\ \A g \in gets : Outdate(g, u) \in Get
      /\ OneCurrent({Outdate(g, u) : g \in gets})
  BY OutdatedTypes
<1>2. ASSUME NEW p \in posts PROVE Orphan(p, u) \in Post
  BY DEF TypeOK, Post, Orphan
<1> QED BY <1>1, <1>2 DEF Abandon

\* A retried write leaves counters in the settings file.
LEMMA FlushType ==
    ASSUME TypeOK, NEW u \in Users, Flush(u)
    PROVE  disk' \in [Users -> [Users -> Counter]]
BY DEF Flush, TypeOK

\* The values of the clocks, in the file, in the process and in messages, are numbers.
LEMMA Numbers ==
    ASSUME TypeOK
    PROVE  /\ \A u, p \in Users : /\ disk[u][p] \in Nat
                                 /\ cache[u][p] \in Nat
                                 /\ cache[u][p] \in Counter
           /\ \A u \in Users : Legacy[u] \in Nat /\ Legacy[u] \in Counter
           /\ \A s \in sent : /\ s.msg.from \in Users
                              /\ s.msg.to \in Users
                              /\ s.msg.ctr \in Nat
<1>1. Counter \subseteq Nat
  BY ConstantsAssumption DEF Counter
<1>2. \A u, p \in Users : disk[u][p] \in Counter /\ cache[u][p] \in Counter
  BY DEF TypeOK
<1>3. \A u \in Users : Legacy[u] \in Counter
  BY ConstantsAssumption
<1>4. \A s \in sent : s.msg \in Message
  BY DEF TypeOK
<1>5. \A m \in Message : m.from \in Users /\ m.to \in Users /\ m.ctr \in Counter
  BY DEF Message
<1> QED BY <1>1, <1>2, <1>3, <1>4, <1>5

\* A clock is a counter, and a tick of a clock that is not exhausted stays one.
LEMMA ClockType ==
    ASSUME TypeOK, NEW u \in Users, NEW p \in Users
    PROVE  /\ Clock(u, p) \in Counter
           /\ \A c \in Counter :
                ~Exhausted(u, p) /\ c < MaxClock =>
                    /\ NextTick(u, p, c) \in Counter
                    /\ NextTick(u, p, c) > Clock(u, p)
                    /\ NextTick(u, p, c) > c
BY ConstantsAssumption DEF TypeOK, Clock, Exhausted, NextTick, Counter

\* The tick of a send: the peer is a user and the new value is one more than the clock.
LEMMA SendTick ==
    ASSUME TypeOK, NEW u \in Users, CanSend(u), ~Exhausted(u, peer[u])
    PROVE  /\ peer[u] \in Users
           /\ NextTick(u, peer[u], 0) \in Counter
           /\ NextTick(u, peer[u], 0) = Clock(u, peer[u]) + 1
<1>1. peer[u] \in Users
  BY ConstantsAssumption DEF CanSend
<1>2. Clock(u, peer[u]) \in Counter
  BY <1>1, ClockType
<1>3. Clock(u, peer[u]) < MaxClock
  BY <1>2, ConstantsAssumption DEF Exhausted, Counter
<1>4. NextTick(u, peer[u], 0) = Clock(u, peer[u]) + 1
  BY <1>2, ConstantsAssumption DEF NextTick, Counter
<1> QED BY <1>1, <1>2, <1>3, <1>4, ConstantsAssumption DEF Counter

\* A page and what is kept of it are rows of the table.
LEMMA PageRows ==
    ASSUME NEW u, NEW p
    PROVE  Page(u, p) \subseteq {r \in rows : Between(r.msg, u, p)}
BY DEF Page

LEMMA DedupRows == \A page : Dedup(page) \subseteq page
BY DEF Dedup

\* The step of one client keeps every variable in its set.
LEMMA ClientStepType ==
    ASSUME TypeOK, NEW u \in Users, ClientStep(u)
    PROVE  TypeOK'
<1>1. CASE Login(u)
  BY <1>1, AbandonType DEF Login, ResetScreen, TypeOK, OneCurrent, history
<1>2. ASSUME EndSession(u)
      PROVE  /\ up' \in [Users -> BOOLEAN]
             /\ peer' \in [Users -> Users \cup {NoPeer}]
             /\ view' \in [Users -> SUBSET Row]
             /\ alert' \in [Users -> BOOLEAN]
             /\ ws' \in [Users -> {"off", "opening", "open"}]
             /\ notes' \in [Users -> SUBSET Row]
             /\ covered' \in [Users -> BOOLEAN]
             /\ untold' \in [Users -> SUBSET Message]
  BY <1>2 DEF EndSession, Deafen, ResetScreen, TypeOK
<1>3. CASE Logout(u)
  BY <1>2, <1>3, AbandonType, FlushType DEF Logout, TypeOK, OneCurrent
<1>4. CASE Crash(u)
  <2>1. posts' \subseteq Post
    <3>1. ASSUME NEW p \in posts PROVE Orphan(p, u) \in Post
      BY DEF TypeOK, Post, Orphan
    <3> QED BY <1>4, <3>1 DEF Crash
  <2>2. cache' \in [Users -> [Users -> Counter]]
    BY <1>4 DEF Crash, TypeOK
  <2> QED BY <1>2, <1>4, <2>1, <2>2 DEF Crash, TypeOK
<1>5. CASE Send(u)
  <2> DEFINE p == peer[u]
             c == NextTick(u, p, 0)
  <2>1. p \in Users /\ c \in Counter
    BY <1>5, SendTick DEF Send
  <2>2. cache' \in [Users -> [Users -> Counter]]
    BY <1>5, <2>1 DEF Send, TypeOK
  <2>3. disk' \in [Users -> [Users -> Counter]]
    BY <1>5, <2>2 DEF Send, TypeOK, Persist
  <2>4. PICK sig \in Sigs :
          LET m == [from |-> u, to |-> p, ctr |-> c, sig |-> sig, ver |-> 2]
          IN  /\ posts' = posts \cup
                   {[msg |-> m, n |-> 1, live |-> TRUE, stage |-> "wire", at |-> 0]}
              /\ sent' = sent \cup {[msg |-> m, past |-> Known(u, p)]}
    BY <1>5 DEF Send
  <2> DEFINE m == [from |-> u, to |-> p, ctr |-> c, sig |-> sig, ver |-> 2]
  <2>5. m \in Message
    BY <2>1, ConstantsAssumption DEF Message
  <2>6. Known(u, p) \subseteq Message
    BY DEF Known, TypeOK
  <2>7. [msg |-> m, n |-> 1, live |-> TRUE, stage |-> "wire", at |-> 0] \in Post
    BY <2>5 DEF Post
  <2>8. [msg |-> m, past |-> Known(u, p)] \in [msg: Message, past: SUBSET Message]
    BY <2>5, <2>6
  <2>9. posts' \subseteq Post /\ sent' \subseteq [msg: Message, past: SUBSET Message]
    BY <2>4, <2>7, <2>8 DEF TypeOK
  <2> QED BY <1>5, <2>2, <2>3, <2>9 DEF Send, TypeOK, client
<1>6. CASE SendUnpersisted(u)
  <2>1. cache' \in [Users -> [Users -> Counter]]
    <3>1. peer[u] \in Users /\ NextTick(u, peer[u], 0) \in Counter
      BY <1>6, SendTick DEF SendUnpersisted
    <3> QED BY <1>6, <3>1 DEF SendUnpersisted, TypeOK
  <2> QED BY <1>6, <2>1, FlushType DEF SendUnpersisted, TypeOK, client, history
<1>7. CASE SendExhausted(u)
  BY <1>7, FlushType DEF SendExhausted, TypeOK, client, history
<1>8. ASSUME NEW p \in Peers(u), OpenConversation(u, p) PROVE TypeOK'
  BY <1>8, StartLoadType DEF OpenConversation, TypeOK, OneCurrent, Peers, clocks
<1>9. CASE WsOpen(u)
  BY <1>9 DEF WsOpen, TypeOK, clocks, history
<1>10. CASE WsDrop(u)
  BY <1>10 DEF WsDrop, Deafen, TypeOK, clocks
<1>11. ASSUME NEW n \in notes[u], MessageReceived(u, n) PROVE TypeOK'
  <2>1. n.msg.from \in Users
    BY <1>11 DEF TypeOK, Row, Message
  <2>2. notes' \in [Users -> SUBSET Row]
    BY <1>11 DEF MessageReceived, TypeOK
  <2>3. /\ gets' \subseteq Get /\ OneCurrent(gets')
        /\ covered' \in [Users -> BOOLEAN] /\ untold' \in [Users -> SUBSET Message]
    BY <1>11, <2>1, StartLoadType DEF MessageReceived, TypeOK, OneCurrent
  <2> QED BY <1>11, <2>2, <2>3 DEF MessageReceived, TypeOK, OneCurrent, client, clocks
<1> QED
  BY <1>1, <1>3, <1>4, <1>5, <1>6, <1>7, <1>8, <1>9, <1>10, <1>11 DEF ClientStep

\* So does a step of a request to send.
LEMMA PostStepType ==
    ASSUME TypeOK, NEW p \in posts, PostStep(p)
    PROVE  TypeOK'
<1>1. p \in Post /\ p.msg.from \in Users /\ p.msg.to \in Users
  BY DEF TypeOK, Post, Message
<1>2. CASE PostBegin(p)
  <2>1. PICK n \in 1..MaxStamp :
          posts' = (posts \ {p}) \cup {[p EXCEPT !.stage = "insert", !.at = n]}
    BY <1>2 DEF PostBegin
  <2>2. n \in Nat
    BY <2>1, ConstantsAssumption
  <2>3. [p EXCEPT !.stage = "insert", !.at = n] \in Post
    BY <1>1, <2>2 DEF Post
  <2> QED BY <1>2, <2>1, <2>3 DEF PostBegin, TypeOK, client, clocks, history
<1>3. CASE PostCommit(p)
  <2>1. [p EXCEPT !.stage = "committed"] \in Post
    BY <1>1 DEF Post
  <2>2. [msg |-> p.msg, at |-> p.at] \in Row
    BY <1>1 DEF Post, Row
  <2> QED BY <1>3, <2>1, <2>2 DEF PostCommit, TypeOK, client, clocks, history
<1>4. CASE PostResume(p)
  <2>1. [p EXCEPT !.stage = "replied"] \in Post
    BY <1>1 DEF Post
  <2>2. [msg |-> p.msg, at |-> p.at] \in Row
    BY <1>1 DEF Post, Row
  <2>3. notes' \in [Users -> SUBSET Row]
    BY <1>1, <1>4, <2>2 DEF PostResume, TypeOK
  <2> QED BY <1>4, <2>1, <2>3 DEF PostResume, TypeOK, client, clocks, history
<1>5. CASE PostReturn(p)
  <2>1. /\ gets' \subseteq Get /\ OneCurrent(gets')
        /\ covered' \in [Users -> BOOLEAN] /\ untold' \in [Users -> SUBSET Message]
    BY <1>1, <1>5, StartLoadType DEF PostReturn, TypeOK, OneCurrent
  <2> QED BY <1>5, <2>1 DEF PostReturn, TypeOK, OneCurrent, client, clocks
<1>6. CASE PostLost(p)
  BY <1>6 DEF PostLost, TypeOK, client, clocks, history
<1>7. CASE PostDetach(p)
  <2>1. [p EXCEPT !.live = FALSE] \in Post
    BY <1>1 DEF Post
  <2> QED BY <1>7, <2>1 DEF PostDetach, TypeOK, client, clocks, history
<1>8. CASE HandlerFail(p)
  <2>1. untold' \in [Users -> SUBSET Message]
    BY <1>1, <1>8 DEF HandlerFail, TypeOK, Post
  <2> QED BY <1>8, <2>1 DEF HandlerFail, TypeOK, client, clocks
<1>9. CASE PostResend(p)
  <2>1. /\ [p EXCEPT !.live = FALSE] \in Post
        /\ [p EXCEPT !.n = 2, !.stage = "wire", !.at = 0] \in Post
    BY <1>1 DEF Post
  <2> QED BY <1>9, <2>1 DEF PostResend, TypeOK, client, clocks, history
<1> QED BY <1>2, <1>3, <1>4, <1>5, <1>6, <1>7, <1>8, <1>9 DEF PostStep

\* What a display does to the screen and to the history.
LEMMA DisplayType ==
    ASSUME TypeOK, NEW u \in Users, NEW page \in SUBSET Row, Display(u, page)
    PROVE  /\ view' \in [Users -> SUBSET Row]
           /\ alert' \in [Users -> BOOLEAN]
           /\ observed' \in [Users -> SUBSET Message]
<1>1. Dedup(page) \subseteq Row
  BY DedupRows
<1>2. {r.msg : r \in page} \subseteq Message
  BY DEF Row
<1> QED BY <1>1, <1>2 DEF Display, TypeOK

\* So does a step of a request to load.
LEMMA GetStepType ==
    ASSUME TypeOK, NEW g \in gets, GetStep(g)
    PROVE  TypeOK'
<1>1. g \in Get /\ g.user \in Users /\ g.with \in Users /\ g.page \in SUBSET Row
  BY DEF TypeOK, Get
<1>2. CASE GetAnswer(g)
  <2>1. Page(g.user, g.with) \subseteq Row
    BY PageRows DEF TypeOK
  <2> DEFINE h == [g EXCEPT !.stage = "answered", !.page = Page(g.user, g.with)]
  <2>2. h \in Get /\ h.user = g.user /\ h.current = g.current
    BY <1>1, <2>1 DEF Get
  <2>3. gets' = (gets \ {g}) \cup {h}
    BY <1>2 DEF GetAnswer
  <2> HIDE DEF h
  <2>4. gets' \subseteq Get /\ OneCurrent(gets')
    BY <2>2, <2>3 DEF TypeOK, OneCurrent
  <2> QED BY <1>2, <2>4 DEF GetAnswer, TypeOK, OneCurrent, client, clocks, history
<1>3. ASSUME LoadFailed(g.user, g.with)
      PROVE  /\ view' \in [Users -> SUBSET Row]
             /\ alert' \in [Users -> BOOLEAN]
             /\ observed' \in [Users -> SUBSET Message]
  BY <1>1, <1>3 DEF LoadFailed, TypeOK
<1>4. CASE GetReturn(g)
  <2>1. /\ view' \in [Users -> SUBSET Row]
        /\ alert' \in [Users -> BOOLEAN]
        /\ observed' \in [Users -> SUBSET Message]
    <3>1. CASE OutOfDate(g)
      BY <1>4, <3>1 DEF GetReturn, TypeOK
    <3>2. CASE ~OutOfDate(g) /\ Refused(g)
      BY <1>3, <1>4, <3>2 DEF GetReturn
    <3>3. CASE ~OutOfDate(g) /\ ~Refused(g)
      BY <1>1, <1>3, <1>4, <3>3, DisplayType DEF GetReturn, Receive
    <3> QED BY <3>1, <3>2, <3>3
  <2>2. /\ cache' \in [Users -> [Users -> Counter]]
        /\ disk' \in [Users -> [Users -> Counter]]
    <3>1. CASE UNCHANGED clocks
      BY <3>1 DEF clocks, TypeOK
    <3>2. CASE Flush(g.user) /\ UNCHANGED cache
      BY <1>1, <3>2, FlushType DEF TypeOK
    <3>3. ASSUME NEW top \in Counter,
                 ~Exhausted(g.user, g.with),
                 top < MaxClock,
                 cache' = [cache EXCEPT ![g.user][g.with] = NextTick(g.user, g.with, top)],
                 Persist(g.user) \/ Flush(g.user)
          PROVE  /\ cache' \in [Users -> [Users -> Counter]]
                 /\ disk' \in [Users -> [Users -> Counter]]
      <4>1. cache' \in [Users -> [Users -> Counter]]
        BY <1>1, <3>3, ClockType DEF TypeOK
      <4> QED BY <1>1, <3>3, <4>1, FlushType DEF Persist, TypeOK
    <3> QED BY <1>4, <3>1, <3>2, <3>3 DEF GetReturn, Receive
  <2> QED BY <1>4, <2>1, <2>2 DEF GetReturn, TypeOK
<1>5. CASE GetFail(g)
  BY <1>3, <1>5 DEF GetFail, TypeOK, clocks
<1> QED BY <1>2, <1>4, <1>5 DEF GetStep

LEMMA InitType == Init => TypeOK
BY ConstantsAssumption DEF Init, TypeOK, Counter, Row

LEMMA NextType == TypeOK /\ [Next]_vars => TypeOK'
<1> SUFFICES ASSUME TypeOK, [Next]_vars PROVE TypeOK'
  OBVIOUS
<1>1. CASE Next
  BY <1>1, ClientStepType, PostStepType, GetStepType DEF Next
<1>2. CASE UNCHANGED vars
  BY <1>2 DEF vars, client, clocks, history, TypeOK
<1> QED BY <1>1, <1>2

\* Every variable keeps to its set, whatever the environment does.
THEOREM TypeCorrect == Spec => []TypeOK
BY InitType, NextType, PTL DEF Spec

-----------------------------------------------------------------------------
(* Counters: what holds whatever fails *)

\* The settings file never runs ahead of the process, and a stored counter lies above
\* the identity-wide one.
Settings ==
    \A u, p \in Users :
        /\ disk[u][p] <= cache[u][p]
        /\ disk[u][p] = 0 \/ disk[u][p] > Legacy[u]
        /\ cache[u][p] = 0 \/ cache[u][p] > Legacy[u]

CounterInv ==
    /\ TypeOK
    /\ Settings
    /\ PersistedBeforeSend
    /\ AboveLegacy
    /\ UniqueCounters

\* The clock bounds every counter its user has signed.
LEMMA ClockCoversSent ==
    ASSUME CounterInv, NEW s \in sent
    PROVE  s.msg.ctr <= Clock(s.msg.from, s.msg.to)
<1>1. TypeOK
  BY DEF CounterInv
<1>2. s.msg.ctr <= disk[s.msg.from][s.msg.to] /\ s.msg.ctr > Legacy[s.msg.from]
  BY DEF CounterInv, PersistedBeforeSend, AboveLegacy
<1>3. disk[s.msg.from][s.msg.to] <= cache[s.msg.from][s.msg.to]
  BY <1>1, Numbers DEF CounterInv, Settings
<1> QED BY <1>1, <1>2, <1>3, Numbers DEF Clock

\* A write that is retried keeps file and process in order, and loses nothing signed.
LEMMA FlushKeeps ==
    ASSUME CounterInv, NEW u \in Users, Flush(u), UNCHANGED <<cache, sent>>
    PROVE  Settings' /\ PersistedBeforeSend'
<1>1. \A v, p \in Users : disk'[v][p] \in {disk[v][p], cache[v][p]}
  BY DEF Flush, CounterInv, TypeOK
<1>2. Settings'
  BY <1>1, ConstantsAssumption DEF Settings, CounterInv, TypeOK, Counter
<1>3. \A v, p \in Users : disk[v][p] <= disk'[v][p]
  BY <1>1, ConstantsAssumption DEF Settings, CounterInv, TypeOK, Counter
<1>4. \A v, p \in Users : disk[v][p] \in Int /\ disk'[v][p] \in Int
  BY <1>1, ConstantsAssumption DEF CounterInv, TypeOK, Counter
<1>5. ASSUME NEW s \in sent PROVE s.msg.ctr <= disk'[s.msg.from][s.msg.to]
  <2>1. s.msg.from \in Users /\ s.msg.to \in Users /\ s.msg.ctr \in Int
    BY Numbers DEF CounterInv
  <2>2. s.msg.ctr <= disk[s.msg.from][s.msg.to]
    BY DEF CounterInv, PersistedBeforeSend
  <2> QED BY <1>3, <1>4, <2>1, <2>2
<1> QED BY <1>2, <1>5 DEF PersistedBeforeSend

\* Raising one clock, with the file either written or not, does the same.
LEMMA TickKeeps ==
    ASSUME CounterInv, NEW u \in Users, NEW p \in Users, NEW c \in Counter,
           c > Clock(u, p),
           cache' = [cache EXCEPT ![u][p] = c],
           Persist(u) \/ Flush(u)
    PROVE  /\ Settings'
           /\ \A v, q \in Users : disk[v][q] <= disk'[v][q]
           /\ \A v, q \in Users : cache[v][q] <= cache'[v][q]
<1>0. TypeOK /\ c \in Int
  BY ConstantsAssumption DEF CounterInv, Counter
<1>1. c > Legacy[u] /\ c > cache[u][p]
  BY <1>0, Numbers DEF CounterInv, Settings, Clock
<1>2. \A v, q \in Users : cache'[v][q] = IF v = u /\ q = p THEN c ELSE cache[v][q]
  BY DEF CounterInv, TypeOK
<1>3. \A v, q \in Users : disk'[v][q] \in {disk[v][q], cache[v][q], cache'[v][q]}
  BY DEF Flush, Persist, CounterInv, TypeOK
<1>4. \A v, q \in Users : v # u => disk'[v][q] = disk[v][q]
  BY DEF Flush, Persist, CounterInv, TypeOK
<1>5. \A v, q \in Users : /\ disk[v][q] \in Int /\ cache[v][q] \in Int /\ c \in Int
                          /\ Legacy[v] \in Int /\ Legacy[v] >= 0
  BY <1>0, Numbers
<1> QED BY <1>1, <1>2, <1>3, <1>4, <1>5 DEF Settings, CounterInv

\* Without a new message, counters in files that only rise keep all three properties.
LEMMA NothingSigned ==
    ASSUME CounterInv, TypeOK', Settings', UNCHANGED sent,
           \A v, q \in Users : disk[v][q] <= disk'[v][q]
    PROVE  CounterInv'
<1>1. ASSUME NEW s \in sent PROVE s.msg.ctr <= disk'[s.msg.from][s.msg.to]
  <2>1. s.msg.from \in Users /\ s.msg.to \in Users /\ s.msg.ctr \in Int
    BY Numbers DEF CounterInv
  <2>2. s.msg.ctr <= disk[s.msg.from][s.msg.to]
    BY DEF CounterInv, PersistedBeforeSend
  <2>3. disk[s.msg.from][s.msg.to] \in Int /\ disk'[s.msg.from][s.msg.to] \in Int
    <3>1. disk[s.msg.from][s.msg.to] \in Nat
      BY <2>1, Numbers DEF CounterInv
    <3>2. disk'[s.msg.from][s.msg.to] \in Counter
      BY <2>1 DEF TypeOK
    <3> QED BY <3>1, <3>2, ConstantsAssumption DEF Counter
  <2> QED BY <2>1, <2>2, <2>3
<1> QED BY <1>1 DEF CounterInv, PersistedBeforeSend, AboveLegacy, UniqueCounters

\* The step of one client.
LEMMA ClientStepCounter ==
    ASSUME CounterInv, NEW u \in Users, ClientStep(u)
    PROVE  CounterInv'
<1> TypeOK'
  BY ClientStepType DEF CounterInv
<1>0. ASSUME UNCHANGED <<clocks, sent>> PROVE CounterInv'
  BY <1>0 DEF CounterInv, clocks, Settings, PersistedBeforeSend, AboveLegacy, UniqueCounters
<1>1. ASSUME Flush(u), UNCHANGED <<cache, sent>> PROVE CounterInv'
  BY <1>1, FlushKeeps DEF CounterInv, AboveLegacy, UniqueCounters
<1>2. CASE Login(u)
  BY <1>1, <1>2 DEF Login, Flush, history
<1>3. CASE Logout(u)
  BY <1>1, <1>3 DEF Logout
<1>4. CASE Crash(u)
  <2>1. \A v, p \in Users : cache'[v][p] \in {cache[v][p], disk[v][p]} /\ disk' = disk
    BY <1>4 DEF Crash, CounterInv, TypeOK
  <2>2. Settings'
    <3>1. \A v, p \in Users : v = u => cache'[v][p] = disk[v][p]
      BY <1>4 DEF Crash, CounterInv, TypeOK
    <3>2. \A v, p \in Users : v # u => cache'[v][p] = cache[v][p]
      BY <1>4 DEF Crash, CounterInv, TypeOK
    <3>3. \A v, p \in Users : disk[v][p] \in Int
      BY ConstantsAssumption DEF CounterInv, TypeOK, Counter
    <3> QED BY <2>1, <3>1, <3>2, <3>3 DEF Settings, CounterInv
  <2> QED BY <1>4, <2>2
       DEF Crash, CounterInv, PersistedBeforeSend, AboveLegacy, UniqueCounters
<1>5. CASE Send(u)
  <2> DEFINE p == peer[u]
             c == NextTick(u, p, 0)
  <2>1. p \in Users /\ c \in Counter /\ c = Clock(u, p) + 1
    BY <1>5, SendTick DEF Send, CounterInv
  <2>2. Clock(u, p) \in Int
    <3>1. Clock(u, p) \in Counter
      BY <2>1, ClockType DEF CounterInv
    <3> QED BY <3>1, ConstantsAssumption DEF Counter
  <2>3. /\ Settings'
        /\ \A v, q \in Users : disk[v][q] <= disk'[v][q]
    <3>1. c > Clock(u, p)
      BY <2>1, <2>2
    <3>2. cache' = [cache EXCEPT ![u][p] = c] /\ Persist(u)
      BY <1>5 DEF Send
    <3> QED BY <2>1, <3>1, <3>2, TickKeeps
  <2>4. disk'[u][p] = c
    BY <1>5, <2>1 DEF Send, Persist, CounterInv, TypeOK
  <2>5. c > Legacy[u]
    BY <2>1, <2>2, Numbers DEF CounterInv, Clock, Settings
  <2>6. PICK n : /\ sent' = sent \cup {n}
                 /\ n.msg.from = u /\ n.msg.to = p /\ n.msg.ctr = c
    <3>1. PICK sig \in Sigs :
            sent' = sent \cup
                {[msg |-> [from |-> u, to |-> p, ctr |-> c, sig |-> sig, ver |-> 2],
                  past |-> Known(u, p)]}
      BY <1>5 DEF Send
    <3> DEFINE m == [from |-> u, to |-> p, ctr |-> c, sig |-> sig, ver |-> 2]
               n == [msg |-> m, past |-> Known(u, p)]
    <3>2. m.from = u /\ m.to = p /\ m.ctr = c
      OBVIOUS
    <3>3. n.msg = m
      OBVIOUS
    <3>4. sent' = sent \cup {n}
      BY <3>1
    <3> HIDE DEF n, m
    <3> QED BY <3>2, <3>3, <3>4
  <2>7. PersistedBeforeSend'
    <3>1. ASSUME NEW s \in sent PROVE s.msg.ctr <= disk'[s.msg.from][s.msg.to]
      <4>1. s.msg.from \in Users /\ s.msg.to \in Users /\ s.msg.ctr \in Int
        BY Numbers DEF CounterInv
      <4>2. s.msg.ctr <= disk[s.msg.from][s.msg.to]
        BY DEF CounterInv, PersistedBeforeSend
      <4>3. disk[s.msg.from][s.msg.to] \in Int /\ disk'[s.msg.from][s.msg.to] \in Int
        <5>1. disk[s.msg.from][s.msg.to] \in Nat
          BY <4>1, Numbers DEF CounterInv
        <5>2. disk'[s.msg.from][s.msg.to] \in Counter
          BY <4>1 DEF TypeOK
        <5> QED BY <5>1, <5>2, ConstantsAssumption DEF Counter
      <4> QED BY <2>3, <4>1, <4>2, <4>3
    <3>2. n.msg.ctr <= disk'[n.msg.from][n.msg.to]
      BY <2>1, <2>2, <2>4, <2>6
    <3> QED BY <2>6, <3>1, <3>2 DEF PersistedBeforeSend
  <2>8. AboveLegacy'
    BY <2>5, <2>6 DEF AboveLegacy, CounterInv
  <2>9. UniqueCounters'
    <3>1. ASSUME NEW s \in sent, s.msg.from = u, s.msg.to = p PROVE s.msg.ctr # c
      <4>1. s.msg.ctr <= Clock(u, p)
        BY <3>1, ClockCoversSent
      <4>2. s.msg.ctr \in Int
        BY Numbers DEF CounterInv
      <4> QED BY <2>1, <2>2, <4>1, <4>2
    <3> QED BY <2>6, <3>1 DEF UniqueCounters, CounterInv
  <2> QED BY <2>3, <2>7, <2>8, <2>9 DEF CounterInv
<1>6. CASE SendUnpersisted(u)
  <2>1. peer[u] \in Users /\ NextTick(u, peer[u], 0) \in Counter
        /\ NextTick(u, peer[u], 0) > Clock(u, peer[u])
    BY <1>6, SendTick, ClockType, ConstantsAssumption
    DEF SendUnpersisted, CounterInv, Counter
  <2>2. Settings' /\ \A v, q \in Users : disk[v][q] <= disk'[v][q]
    BY <1>6, <2>1, TickKeeps DEF SendUnpersisted
  <2> QED BY <1>6, <2>2, NothingSigned DEF SendUnpersisted, history
<1>7. CASE SendExhausted(u)
  BY <1>1, <1>7 DEF SendExhausted, history
<1>8. ASSUME NEW p \in Peers(u), OpenConversation(u, p) PROVE CounterInv'
  BY <1>0, <1>8 DEF OpenConversation
<1>9. CASE WsOpen(u)
  BY <1>0, <1>9 DEF WsOpen, history
<1>10. CASE WsDrop(u)
  BY <1>0, <1>10 DEF WsDrop
<1>11. ASSUME NEW n \in notes[u], MessageReceived(u, n) PROVE CounterInv'
  BY <1>0, <1>11 DEF MessageReceived
<1> QED
  BY <1>2, <1>3, <1>4, <1>5, <1>6, <1>7, <1>8, <1>9, <1>10, <1>11 DEF ClientStep

\* A step of a request to send.
LEMMA PostStepCounter ==
    ASSUME CounterInv, NEW p \in posts, PostStep(p)
    PROVE  CounterInv'
<1>1. TypeOK'
  BY PostStepType DEF CounterInv
<1>2. UNCHANGED <<clocks, sent>>
  BY DEF PostStep, PostBegin, PostCommit, PostResume, PostReturn, PostLost, PostDetach,
         HandlerFail, PostResend, history
<1> QED BY <1>1, <1>2
     DEF CounterInv, clocks, Settings, PersistedBeforeSend, AboveLegacy, UniqueCounters

\* A step of a request to load.
LEMMA GetStepCounter ==
    ASSUME CounterInv, NEW g \in gets, GetStep(g)
    PROVE  CounterInv'
<1> TypeOK'
  BY GetStepType DEF CounterInv
<1>0. g.user \in Users /\ g.with \in Users
  BY DEF CounterInv, TypeOK, Get
<1>1. ASSUME UNCHANGED <<clocks, sent>> PROVE CounterInv'
  BY <1>1 DEF CounterInv, clocks, Settings, PersistedBeforeSend, AboveLegacy, UniqueCounters
<1>2. ASSUME Flush(g.user), UNCHANGED <<cache, sent>> PROVE CounterInv'
  BY <1>0, <1>2, FlushKeeps DEF CounterInv, AboveLegacy, UniqueCounters
<1>3. ASSUME NEW top \in Counter,
             ~Exhausted(g.user, g.with),
             top < MaxClock,
             cache' = [cache EXCEPT ![g.user][g.with] = NextTick(g.user, g.with, top)],
             Persist(g.user) \/ Flush(g.user),
             UNCHANGED sent
      PROVE  CounterInv'
  <2>1. /\ NextTick(g.user, g.with, top) \in Counter
        /\ NextTick(g.user, g.with, top) > Clock(g.user, g.with)
    BY <1>0, <1>3, ClockType DEF CounterInv
  <2>2. Settings' /\ \A v, q \in Users : disk[v][q] <= disk'[v][q]
    BY <1>0, <1>3, <2>1, TickKeeps
  <2> QED BY <1>3, <2>2, NothingSigned
<1>4. CASE GetAnswer(g)
  BY <1>1, <1>4 DEF GetAnswer, history
<1>5. CASE GetReturn(g)
  BY <1>1, <1>2, <1>3, <1>5 DEF GetReturn, Receive
<1>6. CASE GetFail(g)
  BY <1>1, <1>6 DEF GetFail
<1> QED BY <1>4, <1>5, <1>6 DEF GetStep

LEMMA CounterInvariant == Spec => []CounterInv
<1>1. Init => CounterInv
  <2>1. Init => Settings /\ PersistedBeforeSend /\ AboveLegacy /\ UniqueCounters
    BY DEF Init, Settings, PersistedBeforeSend, AboveLegacy, UniqueCounters
  <2> QED BY <2>1, InitType DEF CounterInv
<1>2. CounterInv /\ [Next]_vars => CounterInv'
  <2> SUFFICES ASSUME CounterInv, [Next]_vars PROVE CounterInv'
    OBVIOUS
  <2>1. CASE Next
    BY <2>1, ClientStepCounter, PostStepCounter, GetStepCounter DEF Next
  <2>2. CASE UNCHANGED vars
    <3>1. TypeOK'
      BY <2>2, NextType DEF CounterInv
    <3> QED BY <2>2, <3>1 DEF vars, clocks, history, CounterInv, Settings,
              PersistedBeforeSend, AboveLegacy, UniqueCounters
  <2> QED BY <2>1, <2>2
<1> QED BY <1>1, <1>2, PTL DEF Spec

\* A counter is in the settings file before its message leaves, whatever fails.
THEOREM CountersPersisted == Spec => []PersistedBeforeSend
BY CounterInvariant, PTL DEF CounterInv

\* No sender gives two messages to one receiver the same counter: not across crashes,
\* failed writes, logouts or repeated requests.
THEOREM CountersUnique == Spec => []UniqueCounters
BY CounterInvariant, PTL DEF CounterInv

\* An upgraded installation signs above everything it signed before.
THEOREM CountersAboveLegacy == Spec => []AboveLegacy
BY CounterInvariant, PTL DEF CounterInv

-----------------------------------------------------------------------------
(* Provenance: what is stored, answered, displayed *)

Written == {s.msg : s \in sent}

StoredInv ==
    /\ TypeOK
    /\ \A s, t \in sent : s.msg.sig = t.msg.sig => s = t
    /\ \A p \in posts : p.msg \in Written
    /\ \A r \in rows : r.msg.ver = 2 => r.msg \in Written
    /\ \A g \in gets : \A r \in g.page : r \in rows /\ Between(r.msg, g.user, g.with)
    /\ \A u \in Users : \A m \in observed[u] : m \in Written /\ u \in {m.from, m.to}
    /\ ViewIsConversation

\* Steps that sign, store and display nothing keep the provenance of everything, if the
\* requests in progress keep it and the screen changes only by closing a conversation.
LEMMA NothingNew ==
    ASSUME StoredInv, TypeOK', UNCHANGED <<rows, sent, observed>>,
           \A p \in posts' : p.msg \in Written,
           \A g \in gets' : \A r \in g.page : r \in rows /\ Between(r.msg, g.user, g.with),
           \A u \in Users : view'[u] = {} \/ (view'[u] = view[u] /\ peer'[u] = peer[u])
    PROVE  StoredInv'
<1>1. ViewIsConversation'
  BY DEF StoredInv, ViewIsConversation, Between
<1> QED BY <1>1 DEF StoredInv, Written, Between

LEMMA StartLoadKeeps ==
    ASSUME StoredInv, NEW u, NEW p, StartLoad(u, p)
    PROVE  \A g \in gets' : \A r \in g.page : r \in rows /\ Between(r.msg, g.user, g.with)
<1>1. PICK s \in Slots[u] :
        gets' = {Outdate(g, u) : g \in gets} \cup
                {[user |-> u, with |-> p, slot |-> s, current |-> TRUE,
                  stage |-> "asked", page |-> {}]}
  BY DEF StartLoad
<1>2. \A g \in gets : /\ Outdate(g, u).page = g.page
                      /\ Outdate(g, u).user = g.user
                      /\ Outdate(g, u).with = g.with
  BY DEF StoredInv, TypeOK, Get, Outdate
<1> QED BY <1>1, <1>2 DEF StoredInv

LEMMA AbandonKeeps ==
    ASSUME StoredInv, NEW u, Abandon(u)
    PROVE  /\ \A p \in posts' : p.msg \in Written
           /\ \A g \in gets' : \A r \in g.page : r \in rows /\ Between(r.msg, g.user, g.with)
<1>1. \A g \in gets : /\ Outdate(g, u).page = g.page
                      /\ Outdate(g, u).user = g.user
                      /\ Outdate(g, u).with = g.with
  BY DEF StoredInv, TypeOK, Get, Outdate
<1>2. \A p \in posts : Orphan(p, u).msg = p.msg
  BY DEF StoredInv, TypeOK, Post, Orphan
<1> QED BY <1>1, <1>2 DEF Abandon, StoredInv

\* A message just signed joins what is written; everything else stays.
LEMMA SendStored ==
    ASSUME StoredInv, TypeOK', NEW u \in Users, Send(u)
    PROVE  StoredInv'
<1> DEFINE m(sig) == [from |-> u, to |-> peer[u], ctr |-> NextTick(u, peer[u], 0),
                      sig |-> sig, ver |-> 2]
           s(sig) == [msg |-> m(sig), past |-> Known(u, peer[u])]
           q(sig) == [msg |-> m(sig), n |-> 1, live |-> TRUE, stage |-> "wire", at |-> 0]
<1>1. PICK sig \in Sigs : /\ Unused(sig)
                          /\ posts' = posts \cup {q(sig)}
                          /\ sent' = sent \cup {s(sig)}
  BY DEF Send
<1>2. s(sig).msg = m(sig) /\ q(sig).msg = m(sig) /\ m(sig).sig = sig
  OBVIOUS
<1> HIDE DEF s, q, m
<1>3. Written' = Written \cup {m(sig)}
  BY <1>1, <1>2 DEF Written
<1>4. \A t, v \in sent' : t.msg.sig = v.msg.sig => t = v
  BY <1>1, <1>2 DEF StoredInv, Unused
<1>5. \A p \in posts' : p.msg \in Written'
  BY <1>1, <1>2, <1>3 DEF StoredInv
<1>6. UNCHANGED <<gets, rows, observed, view, peer>>
  BY DEF Send, client
<1>7. ViewIsConversation'
  BY <1>1, <1>6 DEF StoredInv, ViewIsConversation, Between
<1> QED BY <1>3, <1>4, <1>5, <1>6, <1>7 DEF StoredInv, Between

LEMMA ClientStepStored ==
    ASSUME StoredInv, NEW u \in Users, ClientStep(u)
    PROVE  StoredInv'
<1> TypeOK'
  BY ClientStepType DEF StoredInv
<1>0. /\ \A p \in posts : p.msg \in Written
      /\ \A g \in gets : \A r \in g.page : r \in rows /\ Between(r.msg, g.user, g.with)
  BY DEF StoredInv
<1>1. ASSUME ResetScreen(u)
      PROVE  \A v \in Users : view'[v] = {} \/ (view'[v] = view[v] /\ peer'[v] = peer[v])
  BY <1>1 DEF ResetScreen, StoredInv, TypeOK
<1>2. CASE Login(u)
  BY <1>1, <1>2, NothingNew, AbandonKeeps DEF Login, history
<1>3. CASE Logout(u)
  BY <1>1, <1>3, NothingNew, AbandonKeeps DEF Logout, EndSession
<1>4. CASE Crash(u)
  <2>1. \A p \in posts' : p.msg \in Written
    <3>1. \A p \in posts : Orphan(p, u).msg = p.msg
      BY DEF StoredInv, TypeOK, Post, Orphan
    <3> QED BY <1>0, <1>4, <3>1 DEF Crash
  <2> QED BY <1>0, <1>1, <1>4, <2>1, NothingNew DEF Crash, EndSession
<1>5. CASE Send(u)
  BY <1>5, SendStored
<1>6. CASE SendUnpersisted(u)
  BY <1>0, <1>6, NothingNew DEF SendUnpersisted, client, history
<1>7. CASE SendExhausted(u)
  BY <1>0, <1>7, NothingNew DEF SendExhausted, client, history
<1>8. ASSUME NEW p \in Peers(u), OpenConversation(u, p) PROVE StoredInv'
  <2>1. \A v \in Users : view'[v] = {} \/ (view'[v] = view[v] /\ peer'[v] = peer[v])
    BY <1>8 DEF OpenConversation, StoredInv, TypeOK
  <2> QED BY <1>0, <1>8, <2>1, NothingNew, StartLoadKeeps DEF OpenConversation
<1>9. CASE WsOpen(u)
  BY <1>0, <1>9, NothingNew DEF WsOpen, history
<1>10. CASE WsDrop(u)
  BY <1>0, <1>10, NothingNew DEF WsDrop
<1>11. ASSUME NEW n \in notes[u], MessageReceived(u, n) PROVE StoredInv'
  <2>1. \A g \in gets' : \A r \in g.page : r \in rows /\ Between(r.msg, g.user, g.with)
    BY <1>0, <1>11, StartLoadKeeps DEF MessageReceived
  <2> QED BY <1>0, <1>11, <2>1, NothingNew DEF MessageReceived, client
<1> QED
  BY <1>2, <1>3, <1>4, <1>5, <1>6, <1>7, <1>8, <1>9, <1>10, <1>11 DEF ClientStep

LEMMA PostStepStored ==
    ASSUME StoredInv, NEW p \in posts, PostStep(p)
    PROVE  StoredInv'
<1> TypeOK'
  BY PostStepType DEF StoredInv
<1>0. /\ \A q \in posts : q.msg \in Written
      /\ \A g \in gets : \A r \in g.page : r \in rows /\ Between(r.msg, g.user, g.with)
  BY DEF StoredInv
<1>1. p \in Post
  BY DEF StoredInv, TypeOK
<1>2. CASE PostCommit(p)
  <2>1. [p EXCEPT !.stage = "committed"].msg = p.msg
    BY <1>1 DEF Post
  <2>2. \A q \in posts' : q.msg \in Written
    BY <1>0, <1>2, <2>1 DEF PostCommit
  <2>3. rows' = rows \cup {[msg |-> p.msg, at |-> p.at]} /\ p.msg \in Written
    BY <1>0, <1>2 DEF PostCommit
  <2>4. UNCHANGED <<gets, sent, observed, view, peer>>
    BY <1>2 DEF PostCommit, client, history
  <2>5. ViewIsConversation'
    BY <2>3, <2>4 DEF StoredInv, ViewIsConversation, Between
  <2>6. \A r \in rows' : r.msg.ver = 2 => r.msg \in Written
    BY <2>3 DEF StoredInv
  <2>7. \A g \in gets' : \A r \in g.page : r \in rows' /\ Between(r.msg, g.user, g.with)
    BY <1>0, <2>3, <2>4
  <2>8. Written' = Written
    BY <2>4 DEF Written
  <2> QED BY <2>2, <2>4, <2>5, <2>6, <2>7, <2>8 DEF StoredInv, Between
<1>3. CASE PostReturn(p)
  <2>1. \A g \in gets' : \A r \in g.page : r \in rows /\ Between(r.msg, g.user, g.with)
    BY <1>0, <1>3, StartLoadKeeps DEF PostReturn
  <2> QED BY <1>0, <1>3, <2>1, NothingNew DEF PostReturn, client
<1>4. ASSUME NEW q, NEW t, q.msg = p.msg, t.msg = p.msg, posts' \subseteq posts \cup {q, t},
             UNCHANGED <<view, peer, gets, rows, sent, observed>>
      PROVE  StoredInv'
  BY <1>0, <1>4, NothingNew
<1>5. CASE PostBegin(p)
  <2>1. PICK n \in 1..MaxStamp :
          posts' = (posts \ {p}) \cup {[p EXCEPT !.stage = "insert", !.at = n]}
    BY <1>5 DEF PostBegin
  <2>2. [p EXCEPT !.stage = "insert", !.at = n].msg = p.msg
    BY <1>1 DEF Post
  <2> QED BY <1>4, <1>5, <2>1, <2>2 DEF PostBegin, client, history
<1>6. CASE PostResume(p)
  <2>1. [p EXCEPT !.stage = "replied"].msg = p.msg
    BY <1>1 DEF Post
  <2> QED BY <1>4, <1>6, <2>1 DEF PostResume, client, history
<1>7. CASE PostLost(p)
  BY <1>4, <1>7 DEF PostLost, client, history
<1>8. CASE PostDetach(p)
  <2>1. [p EXCEPT !.live = FALSE].msg = p.msg
    BY <1>1 DEF Post
  <2> QED BY <1>4, <1>8, <2>1 DEF PostDetach, client, history
<1>9. CASE HandlerFail(p)
  BY <1>4, <1>9 DEF HandlerFail, client, history
<1>10. CASE PostResend(p)
  <2>1. /\ [p EXCEPT !.live = FALSE].msg = p.msg
        /\ [p EXCEPT !.n = 2, !.stage = "wire", !.at = 0].msg = p.msg
    BY <1>1 DEF Post
  <2> QED BY <1>4, <1>10, <2>1 DEF PostResend, client, history
<1> QED BY <1>2, <1>3, <1>5, <1>6, <1>7, <1>8, <1>9, <1>10 DEF PostStep

\* A verified page shows stored, signed messages of the open conversation, each once.
LEMMA DisplayStored ==
    ASSUME StoredInv, TypeOK', NEW g \in gets, GetReturn(g), Display(g.user, g.page),
           ~OutOfDate(g), ~Refused(g)
    PROVE  StoredInv'
<1> DEFINE u == g.user
<1>1. u \in Users /\ peer[u] = g.with /\ g.page \subseteq Row
  BY DEF StoredInv, TypeOK, Get, OutOfDate
<1>2. \A r \in g.page : r \in rows /\ Between(r.msg, u, peer[u]) /\ r.msg \in Written
  <2>1. \A r \in g.page : r.msg.ver = 2
    BY DEF Refused
  <2> QED BY <1>1, <2>1 DEF StoredInv
<1>3. UNCHANGED <<rows, sent, posts, peer>> /\ gets' = gets \ {g}
  BY DEF GetReturn
<1>4. \A v \in Users : \A m \in observed'[v] : m \in Written /\ v \in {m.from, m.to}
  <2>1. observed' = [observed EXCEPT ![u] = @ \cup {r.msg : r \in g.page}]
    BY DEF Display
  <2>2. \A r \in g.page : u \in {r.msg.from, r.msg.to}
    BY <1>2 DEF Between
  <2> QED BY <1>1, <1>2, <2>1, <2>2 DEF StoredInv, TypeOK
<1>5. ViewIsConversation'
  <2>1. view' = [view EXCEPT ![u] = Dedup(g.page)]
    BY DEF Display
  <2>2. ASSUME NEW r \in Dedup(g.page), NEW q \in Dedup(g.page), r.msg.sig = q.msg.sig
        PROVE  q = r
    <3>1. r \in g.page /\ q \in g.page /\ r.at <= q.at /\ q.at <= r.at
      BY <2>2 DEF Dedup
    <3>2. r.msg = q.msg
      BY <1>2, <2>2, <3>1 DEF Written, StoredInv
    <3>3. r \in Row /\ q \in Row
      BY <1>1, <3>1
    <3>4. r.at = q.at
      BY <3>1, <3>3 DEF Row
    <3> QED BY <3>2, <3>3, <3>4 DEF Row
  <2>3. \A r \in Dedup(g.page) :
          r \in rows /\ Between(r.msg, u, peer[u]) /\ \E s \in sent : s.msg = r.msg
    BY <1>2, DedupRows DEF Written
  <2>4. ASSUME NEW v \in Users, v # u
        PROVE  view'[v] = view[v]
    BY <2>1, <2>4 DEF StoredInv, TypeOK
  <2>5. view'[u] = Dedup(g.page)
    BY <1>1, <2>1 DEF StoredInv, TypeOK
  <2> HIDE DEF u
  <2>6. \A v \in Users : \A r \in view'[v] :
          /\ Between(r.msg, v, peer[v])
          /\ r \in rows
          /\ \E s \in sent : s.msg = r.msg
    BY <2>3, <2>4, <2>5 DEF ViewIsConversation, StoredInv
  <2>7. \A v \in Users : \A r, q \in view'[v] : q.msg.sig = r.msg.sig => q = r
    BY <2>2, <2>4, <2>5 DEF ViewIsConversation, StoredInv
  <2> QED BY <1>3, <2>6, <2>7 DEF ViewIsConversation, Between
<1> QED BY <1>3, <1>4, <1>5 DEF StoredInv, Written, Between

LEMMA GetStepStored ==
    ASSUME StoredInv, NEW g \in gets, GetStep(g)
    PROVE  StoredInv'
<1> TypeOK'
  BY GetStepType DEF StoredInv
<1>0. /\ \A q \in posts : q.msg \in Written
      /\ \A h \in gets : \A r \in h.page : r \in rows /\ Between(r.msg, h.user, h.with)
  BY DEF StoredInv
<1>1. CASE GetAnswer(g)
  <2>1. g \in Get
    BY DEF StoredInv, TypeOK
  <2> DEFINE h == [g EXCEPT !.stage = "answered", !.page = Page(g.user, g.with)]
  <2>2. h.user = g.user /\ h.with = g.with /\ h.page = Page(g.user, g.with)
    BY <2>1 DEF Get
  <2>3. gets' = (gets \ {g}) \cup {h}
    BY <1>1 DEF GetAnswer
  <2> HIDE DEF h
  <2>4. \A f \in gets' : \A r \in f.page : r \in rows /\ Between(r.msg, f.user, f.with)
    BY <1>0, <2>2, <2>3, PageRows
  <2> QED BY <1>0, <1>1, <2>4, NothingNew DEF GetAnswer, client, history
<1>2. ASSUME UNCHANGED <<view, observed, rows, sent, posts, peer>>, gets' = gets \ {g}
      PROVE  StoredInv'
  BY <1>0, <1>2, NothingNew
<1>3. CASE GetReturn(g)
  BY <1>2, <1>3, DisplayStored DEF GetReturn, Receive, LoadFailed
<1>4. CASE GetFail(g)
  BY <1>2, <1>4 DEF GetFail, LoadFailed
<1> QED BY <1>1, <1>3, <1>4 DEF GetStep

LEMMA InitStored == Init => StoredInv
<1> SUFFICES ASSUME Init PROVE StoredInv
  OBVIOUS
<1>1. \A r \in rows : r.msg.ver = 1
  BY ConstantsAssumption DEF Init
<1> QED BY <1>1, InitType DEF Init, StoredInv, ViewIsConversation

LEMMA NextStored == StoredInv /\ [Next]_vars => StoredInv'
<1> SUFFICES ASSUME StoredInv, [Next]_vars PROVE StoredInv'
  OBVIOUS
<1>1. CASE Next
  BY <1>1, ClientStepStored, PostStepStored, GetStepStored DEF Next
<1>2. CASE UNCHANGED vars
  <2>1. TypeOK'
    BY <1>2, NextType DEF StoredInv
  <2> QED BY <1>2, <2>1 DEF vars, client, clocks, history, StoredInv, Written,
            ViewIsConversation, Between
<1> QED BY <1>1, <1>2

LEMMA StoredInvariant == Spec => []StoredInv
BY InitStored, NextStored, PTL DEF Spec

\* However late answers come, the screen shows signed, stored messages of the open
\* conversation, each of them once.
THEOREM ScreenIsConversation == Spec => []ViewIsConversation
BY StoredInvariant, PTL DEF StoredInv

-----------------------------------------------------------------------------
(* Order: what needs either a file that can be written or a process that lives *)

Durable == "disk" \notin Env \/ "crash" \notin Env

\* A clock is above everything its user has displayed of the conversation.
ClockAboveObserved ==
    \A u, p \in Users : \A m \in observed[u] : Between(m, u, p) => m.ctr < Clock(u, p)

OrderInv ==
    /\ CounterInv
    /\ StoredInv
    /\ "disk" \notin Env => disk = cache
    /\ ClockAboveObserved
    /\ CausalOrder

LEMMA ObservedNumbers ==
    ASSUME StoredInv, NEW u \in Users, NEW m \in observed[u]
    PROVE  m.ctr \in Nat
BY Numbers DEF StoredInv, Written

\* Where no counter goes back, no clock does.
LEMMA ClockMonotone ==
    ASSUME CounterInv, TypeOK', Settings',
           \A v, q \in Users : cache[v][q] <= cache'[v][q]
    PROVE  \A v, q \in Users : /\ Clock(v, q) <= Clock(v, q)'
                               /\ Clock(v, q) \in Int /\ Clock(v, q)' \in Int
<1>1. \A v, q \in Users : cache[v][q] \in Nat /\ Legacy[v] \in Nat
  BY Numbers DEF CounterInv
<1>2. \A v, q \in Users : cache'[v][q] \in Counter
  BY DEF TypeOK
<1>3. \A v, q \in Users : cache'[v][q] = 0 \/ cache'[v][q] > Legacy[v]
  BY DEF Settings
<1> SUFFICES ASSUME NEW v \in Users, NEW q \in Users
             PROVE  /\ Clock(v, q) <= Clock(v, q)'
                    /\ Clock(v, q) \in Int /\ Clock(v, q)' \in Int
  OBVIOUS
<1>4. /\ cache[v][q] \in Nat /\ Legacy[v] \in Nat
      /\ cache'[v][q] \in Nat
      /\ cache[v][q] <= cache'[v][q]
      /\ cache'[v][q] = 0 \/ cache'[v][q] > Legacy[v]
  BY <1>1, <1>2, <1>3, ConstantsAssumption DEF Counter
<1>5. CASE cache'[v][q] = 0
  <2>1. cache[v][q] = 0
    BY <1>4, <1>5
  <2> QED BY <1>4, <1>5, <2>1 DEF Clock
<1>6. CASE cache'[v][q] > Legacy[v]
  <2>1. cache'[v][q] # 0
    BY <1>4, <1>6
  <2>2. Clock(v, q)' = cache'[v][q]
    BY <2>1 DEF Clock
  <2>3. Clock(v, q) = cache[v][q] \/ Clock(v, q) = Legacy[v]
    BY DEF Clock
  <2> QED BY <1>4, <1>6, <2>2, <2>3
<1> QED BY <1>4, <1>5, <1>6

\* Without a new display, clocks that only rise stay above what was displayed.
LEMMA NothingDisplayed ==
    ASSUME OrderInv, CounterInv', StoredInv', UNCHANGED observed,
           \A v, q \in Users : cache[v][q] <= cache'[v][q]
    PROVE  ClockAboveObserved'
<1>1. \A v, q \in Users : /\ Clock(v, q) <= Clock(v, q)'
                          /\ Clock(v, q) \in Int /\ Clock(v, q)' \in Int
  BY ClockMonotone DEF OrderInv, CounterInv
<1>2. \A u \in Users : \A m \in observed[u] : m.ctr \in Nat
  BY ObservedNumbers DEF OrderInv
<1> QED BY <1>1, <1>2 DEF ClockAboveObserved, OrderInv, Between

\* A display after a tick, or of a page that lies below the clock.
LEMMA DisplayOrder ==
    ASSUME OrderInv, CounterInv', StoredInv', NEW g \in gets, Display(g.user, g.page),
           NEW top \in Int, \A r \in g.page : r.msg.ctr <= top,
           \A v, q \in Users : cache[v][q] <= cache'[v][q],
           top < Clock(g.user, g.with)'
    PROVE  ClockAboveObserved'
<1>1. \A v, q \in Users : /\ Clock(v, q) <= Clock(v, q)'
                          /\ Clock(v, q) \in Int /\ Clock(v, q)' \in Int
  BY ClockMonotone DEF OrderInv, CounterInv
<1>2. g.user \in Users /\ g.with \in Users /\ g.page \subseteq Row
  BY DEF OrderInv, StoredInv, TypeOK, Get
<1>3. \A r \in g.page : Between(r.msg, g.user, g.with)
  BY DEF OrderInv, StoredInv
<1>4. \A v \in Users : observed'[v] = IF v = g.user
                                      THEN observed[v] \cup {r.msg : r \in g.page}
                                      ELSE observed[v]
  BY DEF Display, OrderInv, StoredInv, TypeOK
<1>5. SUFFICES ASSUME NEW u \in Users, NEW p \in Users, NEW m \in observed'[u],
                      Between(m, u, p)
               PROVE  m.ctr < Clock(u, p)'
  BY DEF ClockAboveObserved, Between
<1>6. CASE m \in observed[u]
  BY <1>1, <1>5, <1>6, ObservedNumbers DEF ClockAboveObserved, OrderInv
<1>7. CASE u = g.user /\ m \in {r.msg : r \in g.page}
  <2>1. p = g.with
    BY <1>3, <1>5, <1>7 DEF Between
  <2>2. m.ctr \in Nat
    <3>1. observed'[u] \subseteq Message
      BY DEF StoredInv, TypeOK
    <3>2. m.ctr \in Counter
      BY <3>1 DEF Message
    <3> QED BY <3>2, ConstantsAssumption DEF Counter
  <2>3. m.ctr <= top
    BY <1>7
  <2>4. top < Clock(u, p)'
    BY <1>7, <2>1
  <2> QED BY <1>1, <1>2, <2>2, <2>3, <2>4
<1> QED BY <1>4, <1>6, <1>7

\* The counter of a new message lies above everything its sender knows.
LEMMA SendAboveKnown ==
    ASSUME OrderInv, NEW u \in Users, NEW p \in Users, NEW k \in Known(u, p)
    PROVE  k.ctr \in Nat /\ k.ctr <= Clock(u, p)
<1>1. CASE \E s \in sent : s.msg = k /\ s.msg.from = u /\ s.msg.to = p
  BY <1>1, ClockCoversSent, Numbers DEF OrderInv, CounterInv
<1>2. CASE k \in observed[u] /\ Between(k, u, p)
  <2>1. k.ctr \in Nat
    BY <1>2, ObservedNumbers DEF OrderInv
  <2>2. k.ctr < Clock(u, p) /\ Clock(u, p) \in Counter
    BY <1>2, ClockType DEF OrderInv, ClockAboveObserved, CounterInv
  <2> QED BY <2>1, <2>2, ConstantsAssumption DEF Counter
<1> QED BY <1>1, <1>2 DEF Known

LEMMA ClientStepOrder ==
    ASSUME Durable, OrderInv, CounterInv', StoredInv', NEW u \in Users, ClientStep(u)
    PROVE  OrderInv'
<1>0. ASSUME UNCHANGED <<cache, sent, observed>>, Flush(u) \/ UNCHANGED disk
      PROVE  OrderInv'
  <2>1. "disk" \notin Env => disk' = cache'
    BY <1>0 DEF Flush, OrderInv, CounterInv, TypeOK
  <2>2. ClockAboveObserved'
    BY <1>0 DEF ClockAboveObserved, OrderInv, Clock, Between
  <2> QED BY <1>0, <2>1, <2>2 DEF OrderInv, CausalOrder
<1>1. CASE Login(u)
  BY <1>0, <1>1 DEF Login, Flush, history
<1>2. CASE Logout(u)
  BY <1>0, <1>2 DEF Logout
<1>3. CASE Crash(u)
  <2>1. disk = cache
    BY <1>3 DEF Crash, Durable, OrderInv
  <2>2. cache' = cache
    BY <1>3, <2>1 DEF Crash, OrderInv, CounterInv, TypeOK
  <2> QED BY <1>0, <1>3, <2>2 DEF Crash
<1>4. CASE Send(u)
  <2> DEFINE p == peer[u]
             c == NextTick(u, p, 0)
  <2>1. /\ p \in Users
        /\ c \in Counter
        /\ c = Clock(u, p) + 1
        /\ Clock(u, p) \in Counter
    BY <1>4, SendTick, ClockType DEF Send, OrderInv, CounterInv
  <2>2. cache' = [cache EXCEPT ![u][p] = c] /\ Persist(u) /\ UNCHANGED observed
    BY <1>4 DEF Send
  <2>3. c > Clock(u, p)
    BY <2>1, ConstantsAssumption DEF Counter
  <2>4. ClockAboveObserved'
    <3>1. \A v, q \in Users : cache[v][q] <= cache'[v][q]
      BY <2>1, <2>2, <2>3, TickKeeps DEF OrderInv
    <3> QED BY <2>2, <3>1, NothingDisplayed
  <2>5. "disk" \notin Env => disk' = cache'
    BY <2>1, <2>2 DEF Persist, OrderInv, CounterInv, TypeOK
  <2>6. CausalOrder'
    <3> DEFINE m(sig) == [from |-> u, to |-> p, ctr |-> c, sig |-> sig, ver |-> 2]
               s(sig) == [msg |-> m(sig), past |-> Known(u, p)]
    <3>1. PICK sig \in Sigs : sent' = sent \cup {s(sig)}
      BY <1>4 DEF Send
    <3>2. s(sig).past = Known(u, p) /\ s(sig).msg.ctr = c
      OBVIOUS
    <3> HIDE DEF s
    <3>3. \A k \in Known(u, p) : k.ctr < c
      BY <2>1, SendAboveKnown, ConstantsAssumption DEF Counter
    <3> QED BY <3>1, <3>2, <3>3 DEF CausalOrder, OrderInv
  <2> QED BY <2>4, <2>5, <2>6 DEF OrderInv
<1>5. CASE SendUnpersisted(u)
  <2> DEFINE p == peer[u]
             c == NextTick(u, p, 0)
  <2>1. p \in Users /\ c \in Counter /\ c > Clock(u, p)
    BY <1>5, SendTick, ClockType, ConstantsAssumption
    DEF SendUnpersisted, OrderInv, CounterInv, Counter
  <2>2. \A v, q \in Users : cache[v][q] <= cache'[v][q]
    BY <1>5, <2>1, TickKeeps DEF SendUnpersisted, OrderInv
  <2>3. ClockAboveObserved'
    BY <1>5, <2>2, NothingDisplayed DEF SendUnpersisted, history
  <2> QED BY <1>5, <2>3 DEF SendUnpersisted, OrderInv, CausalOrder, history
<1>6. CASE SendExhausted(u)
  BY <1>0, <1>6 DEF SendExhausted, history
<1>7. ASSUME NEW p \in Peers(u), OpenConversation(u, p) PROVE OrderInv'
  BY <1>0, <1>7 DEF OpenConversation, clocks
<1>8. CASE WsOpen(u)
  BY <1>0, <1>8 DEF WsOpen, clocks, history
<1>9. CASE WsDrop(u)
  BY <1>0, <1>9 DEF WsDrop, clocks
<1>10. ASSUME NEW n \in notes[u], MessageReceived(u, n) PROVE OrderInv'
  BY <1>0, <1>10 DEF MessageReceived, clocks
<1> QED
  BY <1>1, <1>2, <1>3, <1>4, <1>5, <1>6, <1>7, <1>8, <1>9, <1>10 DEF ClientStep

LEMMA PostStepOrder ==
    ASSUME OrderInv, CounterInv', StoredInv', NEW p \in posts, PostStep(p)
    PROVE  OrderInv'
<1>1. UNCHANGED <<clocks, sent, observed>>
  BY DEF PostStep, PostBegin, PostCommit, PostResume, PostReturn, PostLost, PostDetach,
         HandlerFail, PostResend, history
<1> QED BY <1>1 DEF OrderInv, clocks, ClockAboveObserved, CausalOrder, Clock, Between

LEMMA GetStepOrder ==
    ASSUME OrderInv, CounterInv', StoredInv', NEW g \in gets, GetStep(g)
    PROVE  OrderInv'
<1> DEFINE u == g.user
           p == g.with
<1>0. u \in Users /\ p \in Users
  BY DEF OrderInv, StoredInv, TypeOK, Get
<1>1. ASSUME UNCHANGED <<cache, sent, observed>>, Flush(u) \/ UNCHANGED disk
      PROVE  OrderInv'
  <2>1. "disk" \notin Env => disk' = cache'
    BY <1>0, <1>1 DEF Flush, OrderInv, CounterInv, TypeOK
  <2>2. ClockAboveObserved'
    BY <1>1 DEF ClockAboveObserved, OrderInv, Clock, Between
  <2> QED BY <1>1, <2>1, <2>2 DEF OrderInv, CausalOrder
<1>2. ASSUME UNCHANGED sent, ClockAboveObserved', "disk" \notin Env => disk' = cache'
      PROVE  OrderInv'
  BY <1>2 DEF OrderInv, CausalOrder
<1>3. CASE GetAnswer(g)
  BY <1>1, <1>3 DEF GetAnswer, clocks, history
<1>4. CASE GetFail(g)
  BY <1>1, <1>4 DEF GetFail, clocks, LoadFailed
<1>5. CASE GetReturn(g) /\ Receive(g)
  <2> USE <1>5
  <2>1. CASE g.page = {} /\ Display(u, g.page) /\ UNCHANGED clocks
    <3>1. observed' = observed
      BY <1>0, <2>1 DEF Display, OrderInv, StoredInv, TypeOK
    <3> QED BY <1>1, <2>1, <3>1 DEF GetReturn, clocks
  <2>2. ASSUME NEW top \in Counter, IsTop(top, g.page), LoadFailed(u, p), Flush(u),
               UNCHANGED cache
        PROVE  OrderInv'
    BY <1>1, <2>2 DEF GetReturn, LoadFailed
  <2>3. ASSUME NEW top \in Counter, IsTop(top, g.page), top < Clock(u, p),
               Display(u, g.page), Flush(u), UNCHANGED cache
        PROVE  OrderInv'
    <3>1. "disk" \notin Env => disk' = cache'
      BY <1>0, <2>3 DEF Flush, OrderInv, CounterInv, TypeOK
    <3>2. top \in Int /\ \A r \in g.page : r.msg.ctr <= top
      BY <2>3, ConstantsAssumption DEF IsTop, Counter
    <3>3. \A v, q \in Users : cache[v][q] <= cache'[v][q]
      BY <2>3, Numbers DEF OrderInv, CounterInv
    <3>4. top < Clock(u, p)'
      BY <2>3 DEF Clock
    <3>5. ClockAboveObserved'
      BY <2>3, <3>2, <3>3, <3>4, DisplayOrder
    <3> QED BY <1>2, <3>1, <3>5 DEF GetReturn
  <2>4. ASSUME NEW top \in Counter, IsTop(top, g.page), ~Exhausted(u, p), top < MaxClock,
               cache' = [cache EXCEPT ![u][p] = NextTick(u, p, top)],
               \/ Persist(u) /\ Display(u, g.page)
               \/ "disk" \in Env /\ Flush(u) /\ LoadFailed(u, p)
        PROVE  OrderInv'
    <3> DEFINE c == NextTick(u, p, top)
    <3>1. c \in Counter /\ c > Clock(u, p) /\ c > top
      BY <1>0, <2>4, ClockType DEF OrderInv, CounterInv
    <3>2. \A v, q \in Users : cache[v][q] <= cache'[v][q]
      BY <1>0, <2>4, <3>1, TickKeeps DEF OrderInv
    <3>3. "disk" \notin Env => disk' = cache'
      BY <1>0, <2>4 DEF Persist, OrderInv, CounterInv, TypeOK
    <3>4. CASE LoadFailed(u, p)
      BY <1>2, <3>2, <3>3, <3>4, NothingDisplayed DEF GetReturn, LoadFailed
    <3>5. CASE Display(u, g.page)
      <4>1. top \in Int /\ c \in Int /\ \A r \in g.page : r.msg.ctr <= top
        BY <2>4, <3>1, ConstantsAssumption DEF IsTop, Counter
      <4>2. cache'[u][p] = c
        BY <1>0, <2>4 DEF OrderInv, CounterInv, TypeOK
      <4>3. top >= 0
        BY <2>4, ConstantsAssumption DEF Counter
      <4>4. top < Clock(u, p)'
        BY <3>1, <4>1, <4>2, <4>3 DEF Clock
      <4>5. ClockAboveObserved'
        BY <3>2, <3>5, <4>1, <4>4, DisplayOrder
      <4> QED BY <1>2, <3>3, <4>5 DEF GetReturn
    <3> QED BY <2>4, <3>4, <3>5
  <2> QED BY <2>1, <2>2, <2>3, <2>4 DEF Receive
<1>6. CASE GetReturn(g) /\ UNCHANGED <<clocks, observed>>
  BY <1>1, <1>6 DEF GetReturn, clocks
<1> QED BY <1>3, <1>4, <1>5, <1>6 DEF GetStep, GetReturn, LoadFailed

LEMMA OrderInvariant == ASSUME Durable PROVE Spec => []OrderInv
<1>1. Init => OrderInv
  <2> SUFFICES ASSUME Init PROVE OrderInv
    OBVIOUS
  <2>1. CounterInv
    BY InitType
    DEF Init, CounterInv, Settings, PersistedBeforeSend, AboveLegacy, UniqueCounters
  <2>2. StoredInv
    <3>1. \A r \in rows : r.msg.ver = 1
      BY ConstantsAssumption DEF Init
    <3> QED BY <3>1, InitType DEF Init, StoredInv, ViewIsConversation
  <2> QED BY <2>1, <2>2 DEF Init, OrderInv, ClockAboveObserved, CausalOrder
<1>2. OrderInv /\ CounterInv' /\ StoredInv' /\ [Next]_vars => OrderInv'
  <2> SUFFICES ASSUME OrderInv, CounterInv', StoredInv', [Next]_vars PROVE OrderInv'
    OBVIOUS
  <2>1. CASE Next
    BY <2>1, ClientStepOrder, PostStepOrder, GetStepOrder DEF Next
  <2>2. CASE UNCHANGED vars
    BY <2>2 DEF vars, clocks, history, OrderInv, ClockAboveObserved, CausalOrder, Clock,
                Between
  <2> QED BY <2>1, <2>2
<1> QED BY <1>1, <1>2, CounterInvariant, StoredInvariant, PTL DEF Spec

\* A message's counter exceeds that of everything its sender had sent or displayed in
\* the conversation, if the settings file can be written or the process does not end.
THEOREM CausalOrderHolds == ASSUME Durable PROVE Spec => []CausalOrder
BY OrderInvariant, PTL DEF OrderInv

\* On screen a message is never drawn above one its sender knew of when writing it.
THEOREM DisplayCausalHolds == ASSUME Durable PROVE Spec => []DisplayCausal
<1>1. OrderInv => DisplayCausal
  <2> SUFFICES ASSUME OrderInv, NEW u \in Users, NEW a \in view[u], NEW b \in view[u],
                      NEW s \in sent, s.msg = b.msg, a.msg \in s.past
               PROVE  Before(a.msg, b.msg) /\ ~Before(b.msg, a.msg)
    BY DEF DisplayCausal
  <2>1. a.msg.ctr < b.msg.ctr
    BY DEF OrderInv, CausalOrder
  <2>2. a.msg \in Message /\ b.msg \in Message
    BY DEF OrderInv, StoredInv, TypeOK, Row
  <2>3. a.msg.ctr \in Int /\ b.msg.ctr \in Int
    BY <2>2, ConstantsAssumption DEF Message, Counter
  <2> QED BY <2>1, <2>3 DEF Before
<1> QED BY <1>1, OrderInvariant, PTL

-----------------------------------------------------------------------------
(* Conversation implements LamportOrder *)

\* What the client knows is what the abstract writer knows.
LEMMA KnownIsKnownTo ==
    ASSUME StoredInv, NEW u \in Users, NEW p \in Users, NEW m,
           m.from = u, m.to = p
    PROVE  Known(u, p) = Order!KnownTo(m)
<1>1. \A k \in observed[u] : k \in Written
  BY DEF StoredInv
<1>2. ASSUME NEW k \in Known(u, p) PROVE k \in Order!KnownTo(m)
  BY <1>1, <1>2 DEF Known, Between, Order!KnownTo, Order!Messages, Order!Conversation
<1>3. ASSUME NEW k \in Order!KnownTo(m) PROVE k \in Known(u, p)
  <2>1. {k.from, k.to} = {u, p}
    BY <1>3 DEF Order!KnownTo, Order!Conversation
  <2>2. CASE k \in observed[u]
    BY <2>1, <2>2 DEF Known, Between
  <2>3. CASE k.from = u /\ k \in Order!Messages
    <3>1. k.to = p
      BY <2>1, <2>3
    <3> QED BY <2>3, <3>1 DEF Known, Order!Messages
  <2> QED BY <1>1, <1>3, <2>2, <2>3 DEF Order!KnownTo
<1> QED BY <1>2, <1>3

\* To sign a message is to write one.
LEMMA SendWrites ==
    ASSUME OrderInv, NEW u \in Users, Send(u)
    PROVE  Order!LNext
<1> DEFINE p == peer[u]
           c == NextTick(u, p, 0)
<1>1. /\ p \in Users
      /\ c \in Counter
      /\ c = Clock(u, p) + 1
      /\ Clock(u, p) \in Counter
  BY SendTick, ClockType DEF Send, OrderInv, CounterInv
<1>2. PICK sig \in Sigs :
        LET m == [from |-> u, to |-> p, ctr |-> c, sig |-> sig, ver |-> 2]
        IN  Unused(sig) /\ sent' = sent \cup {[msg |-> m, past |-> Known(u, p)]}
  BY DEF Send
<1> DEFINE m == [from |-> u, to |-> p, ctr |-> c, sig |-> sig, ver |-> 2]
<1>3. c \in 1..MaxClock
  BY <1>1, ConstantsAssumption DEF Counter
<1>4. m \in [from: Users, to: Users, ctr: 1..MaxClock, sig: Sigs, ver: {2}]
  BY <1>1, <1>3
<1>5. Known(u, p) = Order!KnownTo(m)
  BY <1>1, KnownIsKnownTo DEF OrderInv
<1>6. \A k \in Known(u, p) : k.ctr < c
  <2>1. \A k \in Known(u, p) : k.ctr \in Nat /\ k.ctr <= Clock(u, p)
    BY <1>1, SendAboveKnown
  <2> QED BY <1>1, <2>1, ConstantsAssumption DEF Counter
<1>7. \A k \in Order!Messages : k.sig # m.sig
  BY <1>2 DEF Unused, Order!Messages
<1>8. sent' = sent \cup {[msg |-> m, past |-> Known(u, p)]}
  BY <1>2
<1>9. observed' = observed
  BY DEF Send
<1>10. m.ctr = c /\ m.sig = sig
  OBVIOUS
<1> HIDE DEF m, c
<1>11. Order!Write(m)
  BY <1>5, <1>6, <1>7, <1>8, <1>9, <1>10 DEF Order!Write
<1> QED BY <1>4, <1>11 DEF Order!LNext

\* To display a page is to read its messages.
LEMMA DisplayReads ==
    ASSUME StoredInv, NEW g \in gets, ~Refused(g), Display(g.user, g.page),
           UNCHANGED sent
    PROVE  Order!LNext
<1> DEFINE ms == {r.msg : r \in g.page}
<1>1. g.user \in Users
  BY DEF StoredInv, TypeOK, Get
<1>2. ASSUME NEW r \in g.page
      PROVE  r.msg \in Order!Messages /\ g.user \in Order!Conversation(r.msg)
  <2>1. r \in rows /\ Between(r.msg, g.user, g.with) /\ r.msg.ver = 2
    BY DEF StoredInv, Refused
  <2> QED BY <2>1 DEF StoredInv, Written, Between, Order!Messages, Order!Conversation
<1>3. ms \subseteq {m \in Order!Messages : g.user \in Order!Conversation(m)}
  BY <1>2
<1>4. Order!Read(g.user, ms)
  BY <1>3 DEF Order!Read, Display
<1>5. ms \in SUBSET Order!Messages
  BY <1>3
<1> QED BY <1>1, <1>4, <1>5 DEF Order!LNext

\* The clients, with their clocks, files, requests and faults, do only what
\* docs/message-protocol-v2.md allows of messages written and read.
THEOREM ConversationImplementsOrder == ASSUME Durable PROVE Spec => ImplementsOrder
<1>1. Init => Order!LInit
  BY DEF Init, Order!LInit
<1>2. OrderInv /\ [Next]_vars => [Order!LNext]_<<sent, observed>>
  <2> SUFFICES ASSUME OrderInv, [Next]_vars, ~UNCHANGED <<sent, observed>>
               PROVE  Order!LNext
    OBVIOUS
  <2>1. CASE \E u \in Users : ClientStep(u)
    <3>1. PICK u \in Users : ClientStep(u)
      BY <2>1
    <3>2. Send(u)
      BY <3>1 DEF ClientStep, Login, Logout, Crash, SendUnpersisted, SendExhausted,
             OpenConversation, WsOpen, WsDrop, MessageReceived, history
    <3> QED BY <3>2, SendWrites
  <2>2. CASE \E p \in posts : PostStep(p)
    BY <2>2 DEF PostStep, PostBegin, PostCommit, PostResume, PostReturn, PostLost,
           PostDetach, HandlerFail, PostResend, history
  <2>3. CASE \E g \in gets : GetStep(g)
    <3>1. PICK g \in gets : GetStep(g)
      BY <2>3
    <3>2. GetReturn(g) /\ ~Refused(g) /\ Receive(g) /\ Display(g.user, g.page)
      BY <3>1 DEF GetStep, GetAnswer, GetReturn, GetFail, Receive, LoadFailed, history
    <3> QED BY <3>2, DisplayReads DEF OrderInv, GetReturn
  <2>4. CASE UNCHANGED vars
    BY <2>4 DEF vars, history
  <2> QED BY <2>1, <2>2, <2>3, <2>4 DEF Next
<1> QED BY <1>1, <1>2, OrderInvariant, PTL DEF Spec, ImplementsOrder, Order!LSpec

=============================================================================
