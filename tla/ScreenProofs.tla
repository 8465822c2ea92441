------------------------------ MODULE ScreenProofs ------------------------------
(* Theorems about what a screen of Conversation shows over time, for every value of the  *)
(* constants: a page is not replaced by an older one, and no message is missed.          *)
EXTENDS ConversationProofs, FiniteSetTheorems, WellFoundedInduction

\* A user has one load up to date, and it is of the open conversation.
LoadsOfOpen ==
    /\ \A g, h \in gets : g.user = h.user /\ g.current /\ h.current => g = h
    /\ \A g \in gets : g.current => peer[g.user] = g.with

\* A covered screen has an open socket, and only a client that is up has one.
SocketOpen ==
    \A u \in Users : /\ covered[u] => ws[u] = "open"
                     /\ ~up[u] => ws[u] = "off"

\* Rows of u's conversation with p that are newer than r.
Newer(u, p, r) == {q \in rows : q.at > r.at /\ Between(q.msg, u, p)}

\* PageLimit newer rows took the place of r.
Displaced(u, p, r) == PageLimit <= Cardinality(Newer(u, p, r))

\* An answer that will be displayed has what is on screen now, but for what was displaced:
\* it was taken after its load began, and the load began after the screen was drawn.
PageCovers ==
    \A g \in gets : g.current /\ g.stage = "answered" =>
        \A r \in view[g.user] :
            (\E q \in g.page : q.msg.sig = r.msg.sig) \/ Displaced(g.user, g.with, r)

ScreenInv ==
    /\ StoredInv
    /\ IsFiniteSet(rows)
    /\ LoadsOfOpen
    /\ SocketOpen
    /\ PageCovers

\* What becomes of the announcement of r to u: it is on its way, or its handler has yet to
\* begin it, or failed before it.
Announced(u, r) ==
    \/ \E n \in notes[u] : n.msg = r.msg
    \/ \E p \in posts : p.msg = r.msg /\ p.stage = "committed"
    \/ r.msg \in untold[u]

\* What came after the answer to a load was taken is announced.
PageTold(u) ==
    covered[u] => \A g \in gets : g.user = u /\ g.current /\ g.stage = "answered" =>
        \A r \in Page(u, g.with) : r.msg.from = g.with => r \in g.page \/ Announced(u, r)

\* What a screen that no load will replace does not have is announced.
ScreenTold(u) ==
    covered[u] /\ peer[u] # NoPeer /\ ~alert[u] /\ (\A g \in gets : g.user = u => ~g.current) =>
        \A r \in Page(u, peer[u]) :
            r.msg.from = peer[u] => (\E q \in view[u] : q.msg = r.msg) \/ Announced(u, r)

Told == \A u \in Users : PageTold(u) /\ ScreenTold(u)

-----------------------------------------------------------------------------
(* Operators *)

\* A page that has a signature keeps a row with it.
LEMMA DedupKeeps ==
    ASSUME NEW page \in SUBSET Row, NEW r \in page
    PROVE  \E q \in Dedup(page) : q.msg.sig = r.msg.sig
<1> DEFINE T == {q \in page : q.msg.sig = r.msg.sig}
<1>1. PICK q \in T : \A t \in T : ~(t.at < q.at)
  <2> DEFINE A == {t.at : t \in T}
             L == OpToRel(<, Nat)
  <2>1. A \subseteq Nat /\ A # {}
    BY DEF Row
  <2>2. IsWellFoundedOn(L, Nat)
    BY NatLessThanWellFounded
  <2>3. \A x, y \in Nat : y < x => <<y, x>> \in L
    BY DEF OpToRel
  <2> HIDE DEF A, L
  <2>4. PICK a \in A : \A b \in A : ~(<<b, a>> \in L)
    BY <2>1, <2>2, WFMin
  <2>5. \A b \in A : ~(b < a)
    BY <2>1, <2>3, <2>4
  <2> QED BY <2>5 DEF A
<1>2. \A t \in T : q.at <= t.at
  BY <1>1 DEF Row
<1>3. q \in Dedup(page)
  BY <1>1, <1>2 DEF Dedup
<1> QED BY <1>1, <1>3

\* The rows newer than one only become more.
LEMMA NewerGrows ==
    ASSUME NEW u, NEW p, NEW r, IsFiniteSet(rows'), rows \subseteq rows'
    PROVE  /\ IsFiniteSet(Newer(u, p, r)) /\ IsFiniteSet(Newer(u, p, r)')
           /\ Cardinality(Newer(u, p, r)) \in Nat /\ Cardinality(Newer(u, p, r)') \in Nat
           /\ Cardinality(Newer(u, p, r)) <= Cardinality(Newer(u, p, r)')
<1>1. Newer(u, p, r) \subseteq Newer(u, p, r)' /\ Newer(u, p, r)' \subseteq rows'
  BY DEF Newer, Between
<1>2. IsFiniteSet(Newer(u, p, r)')
  BY <1>1, FS_Subset
<1>3. /\ IsFiniteSet(Newer(u, p, r))
      /\ Cardinality(Newer(u, p, r)) <= Cardinality(Newer(u, p, r)')
  BY <1>1, <1>2, FS_Subset
<1> QED BY <1>2, <1>3, FS_CardinalityType

\* A row of the conversation is in the page unless it was displaced.
LEMMA InPage ==
    ASSUME IsFiniteSet(rows), NEW u, NEW p, NEW r
    PROVE  r \in Page(u, p) <=> r \in rows /\ Between(r.msg, u, p) /\ ~Displaced(u, p, r)
<1> DEFINE N == {q \in {t \in rows : Between(t.msg, u, p)} : q.at > r.at}
<1>1. N = Newer(u, p, r)
  BY DEF Newer
<1>2. Cardinality(Newer(u, p, r)) \in Nat
  BY FS_Subset, FS_CardinalityType DEF Newer
<1>3. PageLimit \in Nat
  BY ConstantsAssumption
<1> HIDE DEF N
<1>4. Cardinality(N) < PageLimit <=> ~Displaced(u, p, r)
  BY <1>1, <1>2, <1>3 DEF Displaced
<1> QED BY <1>4 DEF Page, N

\* A row once displaced stays so, and what a page has now it had before.
LEMMA DisplacedStays ==
    ASSUME IsFiniteSet(rows'), rows \subseteq rows', NEW u, NEW p, NEW r
    PROVE  Displaced(u, p, r) => Displaced(u, p, r)'
<1>1. /\ Cardinality(Newer(u, p, r)) \in Nat /\ Cardinality(Newer(u, p, r)') \in Nat
      /\ Cardinality(Newer(u, p, r)) <= Cardinality(Newer(u, p, r)')
  BY NewerGrows
<1> QED BY <1>1, ConstantsAssumption DEF Displaced

LEMMA PageShrinks ==
    ASSUME IsFiniteSet(rows), IsFiniteSet(rows'), rows \subseteq rows',
           NEW u, NEW p, NEW r \in rows, r \in Page(u, p)'
    PROVE  r \in Page(u, p)
<1>1. ~Displaced(u, p, r)'
  <2> DEFINE N == {q \in {t \in rows' : Between(t.msg, u, p)} : q.at > r.at}
  <2>1. Cardinality(N) < PageLimit
    BY DEF Page, Between
  <2>2. N = Newer(u, p, r)'
    BY DEF Newer, Between
  <2>3. Cardinality(Newer(u, p, r)') \in Nat /\ PageLimit \in Nat
    BY NewerGrows, ConstantsAssumption
  <2>4. Cardinality(Newer(u, p, r)') < PageLimit
    BY <2>1, <2>2
  <2> QED BY <2>3, <2>4 DEF Displaced
<1>2. Between(r.msg, u, p)
  BY DEF Page, Between
<1> QED BY <1>1, <1>2, DisplacedStays, InPage

\* The loads after one begins: those of others, those of u that are out of date, and it.
LEMMA LoadsStarted ==
    ASSUME TypeOK, NEW u \in Users, NEW p, StartLoad(u, p)
    PROVE  \E n \in gets' :
             /\ n.user = u /\ n.with = p /\ n.current /\ n.stage = "asked"
             /\ \A g \in gets' : g = n \/ (g.user = u /\ ~g.current)
                                       \/ (g \in gets /\ g.user # u)
             /\ \A g \in gets : g.user # u => g \in gets'
             /\ covered' = [covered EXCEPT ![u] = ws[u] = "open"]
             /\ untold' = [untold EXCEPT ![u] = {}]
<1>1. PICK s \in Slots[u] :
        gets' = {Outdate(g, u) : g \in gets} \cup
                {[user |-> u, with |-> p, slot |-> s, current |-> TRUE,
                  stage |-> "asked", page |-> {}]}
  BY DEF StartLoad
<1> DEFINE n == [user |-> u, with |-> p, slot |-> s, current |-> TRUE,
                 stage |-> "asked", page |-> {}]
<1>2. n.user = u /\ n.with = p /\ n.current /\ n.stage = "asked"
  OBVIOUS
<1>3. gets' = {Outdate(g, u) : g \in gets} \cup {n}
  BY <1>1
<1> HIDE DEF n
<1>4. \A g \in gets : IF g.user = u THEN Outdate(g, u).user = u /\ ~Outdate(g, u).current
                      ELSE Outdate(g, u) = g
  BY DEF TypeOK, Get, Outdate
<1>5. /\ covered' = [covered EXCEPT ![u] = ws[u] = "open"]
      /\ untold' = [untold EXCEPT ![u] = {}]
  BY DEF StartLoad
<1>6. \A g \in gets' : g = n \/ (g.user = u /\ ~g.current) \/ (g \in gets /\ g.user # u)
  BY <1>3, <1>4
<1>7. \A g \in gets : g.user # u => g \in gets'
  BY <1>3, <1>4
<1> QED BY <1>2, <1>3, <1>5, <1>6, <1>7

\* The requests after the end of a session.
LEMMA LoadsAbandoned ==
    ASSUME TypeOK, NEW u \in Users, Abandon(u)
    PROVE  /\ \A g \in gets' : (g.user = u /\ ~g.current) \/ (g \in gets /\ g.user # u)
           /\ \A g \in gets : g.user # u => g \in gets'
<1>1. \A g \in gets : IF g.user = u THEN Outdate(g, u).user = u /\ ~Outdate(g, u).current
                      ELSE Outdate(g, u) = g
  BY DEF TypeOK, Get, Outdate
<1> QED BY <1>1 DEF Abandon

\* The sender's end does not stop the handler of its request.
LEMMA PostsOrphaned ==
    ASSUME TypeOK, NEW u, posts' = {Orphan(p, u) : p \in posts}
    PROVE  \A p \in posts : \E q \in posts' : q.msg = p.msg /\ q.stage = p.stage
<1>1. \A p \in posts : Orphan(p, u).msg = p.msg /\ Orphan(p, u).stage = p.stage
  BY DEF TypeOK, Post, Orphan
<1> QED BY <1>1

-----------------------------------------------------------------------------
(* Loads, sockets and pages in every step *)

\* If no load begins or is answered and the screens only close, what is current stays so.
LEMMA LoadsKept ==
    ASSUME ScreenInv, StoredInv', IsFiniteSet(rows'), rows \subseteq rows',
           \A g \in gets' : g.current => g \in gets /\ view'[g.user] \subseteq view[g.user]
                                                    /\ peer'[g.user] = peer[g.user]
    PROVE  LoadsOfOpen' /\ PageCovers'
<1>1. LoadsOfOpen'
  BY DEF ScreenInv, LoadsOfOpen
<1>2. PageCovers'
  <2> SUFFICES ASSUME NEW g \in gets', g.current, g.stage = "answered",
                      NEW r \in view'[g.user]
               PROVE  (\E q \in g.page : q.msg.sig = r.msg.sig) \/ Displaced(g.user, g.with, r)'
    BY DEF PageCovers, Displaced, Newer, Between
  <2>1. (\E q \in g.page : q.msg.sig = r.msg.sig) \/ Displaced(g.user, g.with, r)
    BY DEF ScreenInv, PageCovers
  <2> QED BY <2>1, DisplacedStays
<1> QED BY <1>1, <1>2

\* A load that begins has no answer yet.
LEMMA LoadsBegun ==
    ASSUME ScreenInv, StoredInv', UNCHANGED rows, NEW u \in Users, NEW p \in Users,
           StartLoad(u, p), peer'[u] = p,
           \A v \in Users \ {u} : view'[v] = view[v] /\ peer'[v] = peer[v]
    PROVE  LoadsOfOpen' /\ PageCovers'
<1>1. PICK n \in gets' :
        /\ n.user = u /\ n.with = p /\ n.current /\ n.stage = "asked"
        /\ \A g \in gets' : g = n \/ (g.user = u /\ ~g.current) \/ (g \in gets /\ g.user # u)
  BY LoadsStarted DEF ScreenInv, StoredInv
<1>2. \A g \in gets : g.user \in Users
  BY DEF ScreenInv, StoredInv, TypeOK, Get
<1>3. LoadsOfOpen'
  BY <1>1, <1>2 DEF ScreenInv, LoadsOfOpen
<1>4. PageCovers'
  BY <1>1, <1>2 DEF ScreenInv, PageCovers, Displaced, Newer, Between
<1> QED BY <1>3, <1>4

LEMMA ClientStepScreen ==
    ASSUME ScreenInv, NEW u \in Users, ClientStep(u)
    PROVE  ScreenInv'
<1>1. StoredInv' /\ TypeOK
  BY ClientStepStored DEF ScreenInv, StoredInv
<1>2. rows' = rows
  BY DEF ClientStep, Login, Logout, Crash, Send, SendUnpersisted, SendExhausted,
         OpenConversation, WsOpen, WsDrop, MessageReceived
<1>3. IsFiniteSet(rows')
  BY <1>2 DEF ScreenInv
<1>4. ASSUME ResetScreen(u),
             \A g \in gets' : g.current => g \in gets /\ g.user # u
      PROVE  LoadsOfOpen' /\ PageCovers'
  <2>1. \A g \in gets' : g.user \in Users
    BY <1>1 DEF StoredInv, TypeOK, Get
  <2>2. \A g \in gets' : g.current => g \in gets /\ view'[g.user] \subseteq view[g.user]
                                                 /\ peer'[g.user] = peer[g.user]
    BY <1>1, <1>4, <2>1 DEF ResetScreen, TypeOK
  <2> QED BY <1>1, <1>2, <1>3, <2>2, LoadsKept
<1>5. ASSUME EndSession(u) PROVE SocketOpen'
  BY <1>1, <1>5 DEF EndSession, Deafen, ScreenInv, SocketOpen, TypeOK
<1>6. CASE Login(u)
  <2>1. LoadsOfOpen' /\ PageCovers'
    BY <1>1, <1>4, <1>6, LoadsAbandoned DEF Login
  <2>2. SocketOpen'
    BY <1>1, <1>6 DEF Login, history, ScreenInv, SocketOpen, TypeOK
  <2> QED BY <1>1, <1>3, <2>1, <2>2 DEF ScreenInv
<1>7. CASE Logout(u)
  <2>1. LoadsOfOpen' /\ PageCovers'
    BY <1>1, <1>4, <1>7, LoadsAbandoned DEF Logout, EndSession
  <2> QED BY <1>1, <1>3, <1>5, <1>7, <2>1 DEF Logout, ScreenInv
<1>8. CASE Crash(u)
  <2>1. LoadsOfOpen' /\ PageCovers'
    BY <1>4, <1>8 DEF Crash, EndSession
  <2> QED BY <1>1, <1>3, <1>5, <1>8, <2>1 DEF Crash, ScreenInv
<1>9. CASE Send(u) \/ SendUnpersisted(u) \/ SendExhausted(u)
  <2>1. UNCHANGED <<client, gets, covered>>
    BY <1>9 DEF Send, SendUnpersisted, SendExhausted, history
  <2>2. LoadsOfOpen' /\ PageCovers'
    BY <1>1, <1>2, <1>3, <2>1, LoadsKept DEF client
  <2> QED BY <1>1, <1>3, <2>1, <2>2 DEF client, ScreenInv, SocketOpen
<1>10. ASSUME NEW p \in Peers(u), OpenConversation(u, p) PROVE ScreenInv'
  <2>1. \A v \in Users \ {u} : view'[v] = view[v] /\ peer'[v] = peer[v]
    BY <1>1, <1>10 DEF OpenConversation, TypeOK
  <2>2. peer'[u] = p /\ p \in Users
    BY <1>1, <1>10 DEF OpenConversation, TypeOK, Peers
  <2>3. LoadsOfOpen' /\ PageCovers'
    BY <1>1, <1>2, <1>10, <2>1, <2>2, LoadsBegun DEF OpenConversation
  <2>4. SocketOpen'
    BY <1>1, <1>10 DEF OpenConversation, StartLoad, ScreenInv, SocketOpen, TypeOK
  <2> QED BY <1>1, <1>3, <2>3, <2>4 DEF ScreenInv
<1>11. CASE WsOpen(u) \/ WsDrop(u)
  <2>1. UNCHANGED <<up, peer, view, gets>>
    BY <1>11 DEF WsOpen, WsDrop
  <2>2. LoadsOfOpen' /\ PageCovers'
    BY <1>1, <1>2, <1>3, <2>1, LoadsKept
  <2>3. SocketOpen'
    BY <1>1, <1>11 DEF WsOpen, WsDrop, Deafen, history, ScreenInv, SocketOpen, TypeOK
  <2> QED BY <1>1, <1>3, <2>2, <2>3 DEF ScreenInv
<1>12. ASSUME NEW n \in notes[u], MessageReceived(u, n) PROVE ScreenInv'
  <2>1. UNCHANGED <<up, peer, view, ws>>
    BY <1>12 DEF MessageReceived, client
  <2>2. CASE Concerns(u, n)
    <3>1. StartLoad(u, n.msg.from) /\ peer'[u] = n.msg.from
      BY <1>12, <2>1, <2>2 DEF MessageReceived, Concerns
    <3>2. n.msg.from \in Users
      BY <1>1 DEF TypeOK, Row, Message
    <3>3. LoadsOfOpen' /\ PageCovers'
      BY <1>1, <1>2, <2>1, <3>1, <3>2, LoadsBegun
    <3>4. SocketOpen'
      BY <1>1, <2>1, <3>1 DEF StartLoad, ScreenInv, SocketOpen, TypeOK
    <3> QED BY <1>1, <1>3, <3>3, <3>4 DEF ScreenInv
  <2>3. CASE ~Concerns(u, n)
    <3>1. UNCHANGED <<gets, covered>>
      BY <1>12, <2>3 DEF MessageReceived
    <3>2. LoadsOfOpen' /\ PageCovers'
      BY <1>1, <1>2, <1>3, <2>1, <3>1, LoadsKept
    <3> QED BY <1>1, <1>3, <2>1, <3>1, <3>2 DEF ScreenInv, SocketOpen
  <2> QED BY <2>2, <2>3
<1> QED
  BY <1>6, <1>7, <1>8, <1>9, <1>10, <1>11, <1>12 DEF ClientStep

LEMMA PostStepScreen ==
    ASSUME ScreenInv, NEW p \in posts, PostStep(p)
    PROVE  ScreenInv'
<1>1. StoredInv' /\ TypeOK
  BY PostStepStored DEF ScreenInv, StoredInv
<1>2. IsFiniteSet(rows') /\ rows \subseteq rows'
  <2>1. CASE PostCommit(p)
    <3>1. rows' = rows \cup {[msg |-> p.msg, at |-> p.at]}
      BY <2>1 DEF PostCommit
    <3> QED BY <3>1, FS_AddElement DEF ScreenInv
  <2>2. CASE ~PostCommit(p)
    <3>1. rows' = rows
      BY <2>2 DEF PostStep, PostBegin, PostResume, PostReturn, PostLost, PostDetach,
                  HandlerFail, PostResend
    <3> QED BY <3>1 DEF ScreenInv
  <2> QED BY <2>1, <2>2
<1>3. UNCHANGED client
  BY DEF PostStep, PostBegin, PostCommit, PostResume, PostReturn, PostLost, PostDetach,
         HandlerFail, PostResend
<1>4. CASE UNCHANGED <<gets, covered>>
  <2>1. LoadsOfOpen' /\ PageCovers'
    BY <1>1, <1>2, <1>3, <1>4, LoadsKept DEF client
  <2> QED BY <1>1, <1>2, <1>3, <1>4, <2>1 DEF client, ScreenInv, SocketOpen
<1>5. CASE PostReturn(p) /\ ~UNCHANGED <<gets, covered>>
  <2> DEFINE u == p.msg.from
             q == p.msg.to
  <2>1. u \in Users /\ q \in Users /\ StartLoad(u, q) /\ peer[u] = q
    BY <1>1, <1>5 DEF PostReturn, TypeOK, Post, Message
  <2>2. rows' = rows
    BY <1>5 DEF PostReturn
  <2> HIDE DEF u, q
  <2>3. LoadsOfOpen' /\ PageCovers'
    BY <1>1, <1>3, <2>1, <2>2, LoadsBegun DEF client
  <2>4. SocketOpen'
    BY <1>1, <1>3, <2>1 DEF client, StartLoad, ScreenInv, SocketOpen, TypeOK
  <2> QED BY <1>1, <1>2, <2>3, <2>4 DEF ScreenInv
<1> QED BY <1>4, <1>5 DEF PostStep, PostBegin, PostCommit, PostResume, PostLost, PostDetach,
           HandlerFail, PostResend, history

LEMMA GetStepScreen ==
    ASSUME ScreenInv, NEW g \in gets, GetStep(g)
    PROVE  ScreenInv'
<1>1. StoredInv' /\ TypeOK
  BY GetStepStored DEF ScreenInv, StoredInv
<1>2. rows' = rows /\ UNCHANGED <<up, peer, ws, covered>>
  BY DEF GetStep, GetAnswer, GetReturn, GetFail, client, history
<1>3. IsFiniteSet(rows')
  BY <1>2 DEF ScreenInv
<1>4. SocketOpen'
  BY <1>2 DEF ScreenInv, SocketOpen
<1>5. \A h \in gets : h.user \in Users
  BY <1>1 DEF TypeOK, Get
<1>6. CASE GetAnswer(g)
  <2> DEFINE h == [g EXCEPT !.stage = "answered", !.page = Page(g.user, g.with)]
  <2>1. /\ h.user = g.user /\ h.with = g.with /\ h.current = g.current
        /\ h.page = Page(g.user, g.with)
    BY <1>1 DEF TypeOK, Get
  <2>2. gets' = (gets \ {g}) \cup {h} /\ view' = view
    BY <1>6 DEF GetAnswer, client
  <2> HIDE DEF h
  <2>3. LoadsOfOpen'
    BY <1>2, <2>1, <2>2 DEF ScreenInv, LoadsOfOpen
  <2>4. ASSUME NEW r \in view[g.user], g.current
        PROVE  (\E q \in Page(g.user, g.with) : q.msg.sig = r.msg.sig)
                  \/ Displaced(g.user, g.with, r)
    <3>1. r \in rows /\ Between(r.msg, g.user, g.with)
      BY <1>5, <2>4 DEF ScreenInv, StoredInv, ViewIsConversation, LoadsOfOpen
    <3> QED BY <3>1, InPage DEF ScreenInv
  <2>5. PageCovers'
    <3> SUFFICES ASSUME NEW f \in gets', f.current, f.stage = "answered",
                        NEW r \in view[f.user]
                 PROVE  (\E q \in f.page : q.msg.sig = r.msg.sig)
                           \/ Displaced(f.user, f.with, r)
      BY <1>2, <2>2 DEF PageCovers, Displaced, Newer, Between
    <3> QED BY <2>1, <2>2, <2>4 DEF ScreenInv, PageCovers
  <2> QED BY <1>1, <1>3, <1>4, <2>3, <2>5 DEF ScreenInv
<1>7. CASE GetReturn(g) \/ GetFail(g)
  <2>1. gets' = gets \ {g}
    BY <1>7 DEF GetReturn, GetFail
  <2>2. ASSUME NEW h \in gets', h.current
        PROVE  view'[h.user] = view[h.user]
    <3>1. CASE view' = view
      BY <3>1
    <3>2. CASE Display(g.user, g.page) /\ ~OutOfDate(g)
      <4>1. g.user # h.user
        BY <2>1, <2>2, <3>2 DEF OutOfDate, ScreenInv, LoadsOfOpen
      <4> QED BY <1>1, <1>5, <2>1, <3>2, <4>1 DEF Display, TypeOK
    <3> QED BY <1>7, <3>1, <3>2 DEF GetReturn, GetFail, Receive, LoadFailed
  <2>3. LoadsOfOpen' /\ PageCovers'
    BY <1>1, <1>2, <1>3, <2>1, <2>2, LoadsKept
  <2> QED BY <1>1, <1>3, <1>4, <2>3 DEF ScreenInv
<1> QED BY <1>6, <1>7 DEF GetStep

LEMMA NextScreen == ScreenInv /\ [Next]_vars => ScreenInv'
<1> SUFFICES ASSUME ScreenInv, [Next]_vars PROVE ScreenInv'
  OBVIOUS
<1>1. CASE Next
  BY <1>1, ClientStepScreen, PostStepScreen, GetStepScreen DEF Next
<1>2. CASE UNCHANGED vars
  <2>1. StoredInv'
    BY <1>2, NextStored DEF ScreenInv
  <2> QED BY <1>2, <2>1 DEF vars, client, history, ScreenInv, LoadsOfOpen, SocketOpen,
            PageCovers, Displaced, Newer, Between
<1> QED BY <1>1, <1>2

LEMMA InitScreen == Init => ScreenInv
<1>1. Init => IsFiniteSet(rows)
  BY ConstantsAssumption DEF Init
<1> QED BY <1>1, InitStored DEF Init, ScreenInv, LoadsOfOpen, SocketOpen, PageCovers

LEMMA ScreenInvariant == Spec => []ScreenInv
BY InitScreen, NextScreen, PTL DEF Spec

-----------------------------------------------------------------------------
(* No page is replaced by an older one *)

\* A message that was on screen is still there, or was displaced.
Kept(u) ==
    \A r \in view[u] :
        (\E q \in view'[u] : q.msg = r.msg) \/ Displaced(u, peer[u], r)

\* The display of an answer keeps what it had and what was displaced excepted.
LEMMA DisplayKeeps ==
    ASSUME ScreenInv, NEW g \in gets, GetReturn(g), Display(g.user, g.page),
           ~OutOfDate(g), ~Refused(g)
    PROVE  Kept(g.user)
<1> DEFINE u == g.user
<1>1. TypeOK /\ u \in Users /\ g.page \in SUBSET Row /\ peer[u] = g.with
  BY DEF ScreenInv, StoredInv, TypeOK, Get, OutOfDate
<1>2. view'[u] = Dedup(g.page)
  BY <1>1 DEF Display, TypeOK
<1> SUFFICES ASSUME NEW r \in view[u], ~Displaced(u, peer[u], r)
             PROVE  \E q \in Dedup(g.page) : q.msg = r.msg
  BY <1>2 DEF Kept
<1>3. PICK t \in g.page : t.msg.sig = r.msg.sig
  BY <1>1 DEF ScreenInv, PageCovers, OutOfDate, GetReturn
<1>4. PICK q \in Dedup(g.page) : q.msg.sig = t.msg.sig
  BY <1>1, DedupKeeps
<1>5. q \in g.page
  BY DedupRows
<1>6. q.msg \in Written /\ r.msg \in Written
  <2>1. q \in rows /\ q.msg.ver = 2
    BY <1>5 DEF Refused, ScreenInv, StoredInv
  <2>2. \E s \in sent : s.msg = r.msg
    BY <1>1 DEF ScreenInv, StoredInv, ViewIsConversation
  <2> QED BY <2>1, <2>2 DEF ScreenInv, StoredInv, Written
<1>7. q.msg = r.msg
  BY <1>3, <1>4, <1>6 DEF Written, ScreenInv, StoredInv
<1> QED BY <1>7

LEMMA ScreenKept ==
    ASSUME ScreenInv, [Next]_vars, NEW u \in Users, peer'[u] = peer[u]
    PROVE  Kept(u)
<1>1. TypeOK /\ (peer[u] = NoPeer => view[u] = {})
  <2>1. TypeOK
    BY DEF ScreenInv, StoredInv
  <2>2. \A r \in view[u] : r.msg.from \in Users /\ r.msg.to \in Users
    BY <2>1 DEF TypeOK, Row, Message
  <2>3. \A r \in view[u] : peer[u] \in {r.msg.from, r.msg.to}
    BY DEF ScreenInv, StoredInv, ViewIsConversation, Between
  <2> QED BY <2>1, <2>2, <2>3, ConstantsAssumption
<1>2. ASSUME view'[u] = view[u] \/ view[u] = {} PROVE Kept(u)
  BY <1>2 DEF Kept
<1>3. CASE UNCHANGED vars
  BY <1>2, <1>3 DEF vars, client
<1>4. ASSUME NEW v \in Users, ClientStep(v) PROVE Kept(u)
  <2>1. CASE view' = view
    BY <1>2, <2>1
  <2>2. CASE ResetScreen(v)
    <3>1. view'[u] = view[u] \/ peer'[u] = NoPeer
      BY <1>1, <2>2 DEF ResetScreen, TypeOK
    <3> QED BY <1>1, <1>2, <3>1
  <2>3. ASSUME NEW p \in Peers(v), OpenConversation(v, p) PROVE Kept(u)
    <3>1. view'[u] = view[u]
      BY <1>1, <2>3 DEF OpenConversation, TypeOK
    <3> QED BY <1>2, <3>1
  <2> QED BY <1>4, <2>1, <2>2, <2>3 DEF ClientStep, Login, Logout, Crash, EndSession, Send,
            SendUnpersisted, SendExhausted, WsOpen, WsDrop, MessageReceived, client
<1>5. ASSUME NEW p \in posts, PostStep(p) PROVE Kept(u)
  <2>1. view' = view
    BY <1>5 DEF PostStep, PostBegin, PostCommit, PostResume, PostReturn, PostLost, PostDetach,
                HandlerFail, PostResend, client
  <2> QED BY <1>2, <2>1
<1>6. ASSUME NEW g \in gets, GetStep(g) PROVE Kept(u)
  <2>1. CASE view' = view
    BY <1>2, <2>1
  <2>2. CASE GetReturn(g) /\ Display(g.user, g.page) /\ ~OutOfDate(g) /\ ~Refused(g)
    <3>1. CASE u = g.user
      BY <2>2, <3>1, DisplayKeeps
    <3>2. CASE u # g.user
      BY <1>1, <1>2, <2>2, <3>2 DEF Display, TypeOK
    <3> QED BY <3>1, <3>2
  <2> QED BY <1>6, <2>1, <2>2 DEF GetStep, GetAnswer, GetReturn, GetFail, Receive, LoadFailed,
            client
<1> QED BY <1>3, <1>4, <1>5, <1>6 DEF Next

\* While a conversation stays open a message leaves its screen only for PageLimit newer ones:
\* an answer that is displayed was requested after the screen it replaces was drawn, however
\* late it or the ones before it come.
THEOREM NeverOlderHolds == Spec => NeverOlder
<1>1. ScreenInv /\ [Next]_vars =>
        [\A u \in Users :
           peer'[u] = peer[u] =>
             \A r \in view[u] :
               \/ \E q \in view'[u] : q.msg = r.msg
               \/ PageLimit <= Cardinality(
                      {q \in rows : q.at > r.at /\ Between(q.msg, u, peer[u])})]_vars
  BY ScreenKept DEF Kept, Displaced, Newer
<1> QED BY <1>1, ScreenInvariant, PTL DEF Spec, NeverOlder

-----------------------------------------------------------------------------
(* No message is missed *)

\* Where no load of v begins and nothing announced to it is lost, it is told as before.
LEMMA ToldKept ==
    ASSUME ScreenInv, ScreenInv', NEW v \in Users, PageTold(v), ScreenTold(v),
           rows \subseteq rows', \A r \in rows' \ rows : Announced(v, r)',
           \A g \in gets' : g.user = v /\ g.current /\ g.stage = "answered" => g \in gets,
           \A r \in rows : r.msg.from = peer'[v] /\ r.msg.to = v /\ covered'[v]
                             /\ Announced(v, r) => Announced(v, r)',
           covered'[v] => covered[v],
           (covered'[v] /\ peer'[v] # NoPeer /\ ~alert'[v]
              /\ \A g \in gets' : g.user = v => ~g.current) =>
             /\ view'[v] = view[v] /\ peer'[v] = peer[v] /\ ~alert[v]
             /\ \A g \in gets : g.user = v => ~g.current
    PROVE  PageTold(v)' /\ ScreenTold(v)'
<1>1. IsFiniteSet(rows) /\ IsFiniteSet(rows') /\ TypeOK /\ TypeOK'
  BY DEF ScreenInv, StoredInv
<1>2. \A p : Page(v, p)' \subseteq rows' /\ \A r \in Page(v, p)' : Between(r.msg, v, p)
  BY DEF Page, Between
<1>5. PageTold(v)'
  <2> SUFFICES ASSUME covered'[v], NEW g \in gets', g.user = v, g.current,
                      g.stage = "answered", NEW r \in Page(v, g.with)', r.msg.from = g.with
               PROVE  r \in g.page \/ Announced(v, r)'
    BY DEF PageTold
  <2>1. CASE r \notin rows
    BY <1>2, <2>1
  <2>2. CASE r \in rows
    <3>1. r \in g.page \/ Announced(v, r)
      BY <1>1, <2>2, PageShrinks DEF PageTold
    <3>2. peer'[v] = g.with
      BY DEF ScreenInv, LoadsOfOpen
    <3>3. r.msg.to = v
      BY <1>2 DEF Between
    <3> QED BY <2>2, <3>1, <3>2, <3>3
  <2> QED BY <2>1, <2>2
<1>6. ScreenTold(v)'
  <2>1. PICK p : p = peer'[v]
    OBVIOUS
  <2>2. Page(v, peer[v])' = Page(v, p)'
    BY <2>1 DEF Page, Between
  <2> SUFFICES ASSUME covered'[v], p # NoPeer, ~alert'[v],
                      \A g \in gets' : g.user = v => ~g.current,
                      NEW r \in Page(v, p)', r.msg.from = p
               PROVE  (\E q \in view'[v] : q.msg = r.msg) \/ Announced(v, r)'
    BY <2>1, <2>2 DEF ScreenTold
  <2>3. CASE r \notin rows
    BY <1>2, <2>3
  <2>4. CASE r \in rows
    <3>1. view'[v] = view[v] /\ peer[v] = p /\ ~alert[v] /\ \A g \in gets : g.user = v => ~g.current
      BY <2>1
    <3>2. r \in Page(v, p)
      BY <1>1, <2>4, PageShrinks
    <3>3. (\E q \in view[v] : q.msg = r.msg) \/ Announced(v, r)
      BY <3>1, <3>2 DEF ScreenTold
    <3>4. r.msg.to = v
      BY <1>2 DEF Between
    <3> QED BY <2>1, <2>4, <3>1, <3>3, <3>4
  <2> QED BY <2>3, <2>4
<1> QED BY <1>5, <1>6

\* A user who is not covered, or whose newest load is not answered, is owed nothing.
LEMMA ToldAfresh ==
    ASSUME NEW v, ~covered'[v] \/ (/\ \E n \in gets' : n.user = v /\ n.current
                                   /\ \A g \in gets' : g.user = v /\ g.current => g.stage = "asked")
    PROVE  PageTold(v)' /\ ScreenTold(v)'
BY DEF PageTold, ScreenTold

LEMMA ClientStepTold ==
    ASSUME ScreenInv, Told, NEW u \in Users, ClientStep(u)
    PROVE  Told'
<1>1. ScreenInv' /\ TypeOK /\ TypeOK'
  BY ClientStepScreen DEF ScreenInv, StoredInv
<1>2. rows' = rows
  BY DEF ClientStep, Login, Logout, Crash, Send, SendUnpersisted, SendExhausted,
         OpenConversation, WsOpen, WsDrop, MessageReceived
<1>3. \A v \in Users : PageTold(v) /\ ScreenTold(v)
  BY DEF Told
<1>4. ASSUME \A g \in gets' : g.user # u => g \in gets, \A g \in gets : g.user # u => g \in gets',
             \A p \in posts : \E q \in posts' : q.msg = p.msg /\ q.stage = p.stage,
             \A v \in Users \ {u} : /\ covered'[v] = covered[v] /\ peer'[v] = peer[v]
                                    /\ view'[v] = view[v] /\ alert'[v] = alert[v]
                                    /\ notes'[v] = notes[v] /\ untold'[v] = untold[v],
             PageTold(u)' /\ ScreenTold(u)'
      PROVE  Told'
  <2> SUFFICES ASSUME NEW v \in Users \ {u} PROVE PageTold(v)' /\ ScreenTold(v)'
    BY <1>4 DEF Told
  <2>1. \A r \in rows : Announced(v, r) => Announced(v, r)'
    BY <1>4 DEF Announced
  <2>2. PageTold(v) /\ ScreenTold(v)
    BY <1>3
  <2>3. \A g \in gets' : g.user = v /\ g.current /\ g.stage = "answered" => g \in gets
    BY <1>4
  <2>4. (\A g \in gets' : g.user = v => ~g.current) => \A g \in gets : g.user = v => ~g.current
    BY <1>4
  <2> QED BY <1>1, <1>2, <1>4, <2>1, <2>2, <2>3, <2>4, ToldKept
<1>5. ASSUME EndSession(u), Abandon(u) \/ (gets' = {g \in gets : g.user # u}),
             posts' = {Orphan(p, u) : p \in posts}
      PROVE  Told'
  <2>1. ~covered'[u]
    BY <1>1, <1>5 DEF EndSession, Deafen, TypeOK
  <2>2. /\ \A g \in gets' : g.user # u => g \in gets
        /\ \A g \in gets : g.user # u => g \in gets'
    BY <1>1, <1>5, LoadsAbandoned
  <2>3. \A v \in Users \ {u} : /\ covered'[v] = covered[v] /\ peer'[v] = peer[v]
                               /\ view'[v] = view[v] /\ alert'[v] = alert[v]
                               /\ notes'[v] = notes[v] /\ untold'[v] = untold[v]
    BY <1>1, <1>5 DEF EndSession, Deafen, ResetScreen, TypeOK
  <2>4. \A p \in posts : \E q \in posts' : q.msg = p.msg /\ q.stage = p.stage
    BY <1>1, <1>5, PostsOrphaned
  <2> QED BY <1>4, <2>1, <2>2, <2>3, <2>4, ToldAfresh
<1>6. CASE Login(u)
  <2>1. ~covered'[u]
    BY <1>1, <1>6 DEF Login, history, ScreenInv, SocketOpen
  <2>2. /\ \A g \in gets' : g.user # u => g \in gets
        /\ \A g \in gets : g.user # u => g \in gets'
    BY <1>1, <1>6, LoadsAbandoned DEF Login
  <2>3. \A v \in Users \ {u} : /\ covered'[v] = covered[v] /\ peer'[v] = peer[v]
                               /\ view'[v] = view[v] /\ alert'[v] = alert[v]
                               /\ notes'[v] = notes[v] /\ untold'[v] = untold[v]
    BY <1>1, <1>6 DEF Login, history, ResetScreen, TypeOK
  <2>4. \A p \in posts : \E q \in posts' : q.msg = p.msg /\ q.stage = p.stage
    BY <1>1, <1>6, PostsOrphaned DEF Login, Abandon
  <2> QED BY <1>4, <2>1, <2>2, <2>3, <2>4, ToldAfresh
<1>7. CASE Logout(u)
  BY <1>5, <1>7 DEF Logout, Abandon
<1>8. CASE Crash(u)
  BY <1>5, <1>8 DEF Crash
<1>9. ASSUME posts \subseteq posts',
             UNCHANGED <<peer, view, alert, gets, notes, covered, untold>>
      PROVE  Told'
  <2> SUFFICES ASSUME NEW v \in Users PROVE PageTold(v)' /\ ScreenTold(v)'
    BY DEF Told
  <2>1. \A r \in rows : Announced(v, r) => Announced(v, r)'
    BY <1>9 DEF Announced
  <2> QED BY <1>1, <1>2, <1>3, <1>9, <2>1, ToldKept
<1>10. CASE Send(u) \/ SendUnpersisted(u) \/ SendExhausted(u) \/ WsOpen(u)
  BY <1>9, <1>10 DEF Send, SendUnpersisted, SendExhausted, WsOpen, client, history
<1>11. ASSUME NEW p, StartLoad(u, p), posts' = posts,
              \A v \in Users \ {u} : /\ peer'[v] = peer[v] /\ view'[v] = view[v]
                                     /\ alert'[v] = alert[v] /\ notes'[v] = notes[v]
       PROVE  Told'
  <2>1. PICK n \in gets' :
             /\ n.user = u /\ n.with = p /\ n.current /\ n.stage = "asked"
             /\ \A g \in gets' : g = n \/ (g.user = u /\ ~g.current)
                                       \/ (g \in gets /\ g.user # u)
             /\ \A g \in gets : g.user # u => g \in gets'
             /\ covered' = [covered EXCEPT ![u] = ws[u] = "open"]
             /\ untold' = [untold EXCEPT ![u] = {}]
    BY <1>1, <1>11, LoadsStarted
  <2>2. PageTold(u)' /\ ScreenTold(u)'
    BY <2>1, ToldAfresh
  <2>3. \A v \in Users \ {u} : covered'[v] = covered[v] /\ untold'[v] = untold[v]
    BY <1>1, <2>1 DEF TypeOK
  <2>4. \A g \in gets' : g.user # u => g \in gets
    BY <2>1
  <2> QED BY <1>4, <1>11, <2>1, <2>2, <2>3, <2>4
<1>12. ASSUME NEW p \in Peers(u), OpenConversation(u, p) PROVE Told'
  <2>1. \A v \in Users \ {u} : /\ peer'[v] = peer[v] /\ view'[v] = view[v]
                               /\ alert'[v] = alert[v] /\ notes'[v] = notes[v]
    BY <1>1, <1>12 DEF OpenConversation, TypeOK
  <2> QED BY <1>11, <1>12, <2>1 DEF OpenConversation
<1>13. CASE WsDrop(u)
  <2>1. ~covered'[u]
    BY <1>1, <1>13 DEF WsDrop, Deafen, TypeOK
  <2>2. \A v \in Users \ {u} : /\ covered'[v] = covered[v] /\ notes'[v] = notes[v]
                               /\ untold'[v] = untold[v]
    BY <1>1, <1>13 DEF WsDrop, Deafen, TypeOK
  <2> QED BY <1>4, <1>13, <2>1, <2>2, ToldAfresh DEF WsDrop
<1>14. ASSUME NEW n \in notes[u], MessageReceived(u, n) PROVE Told'
  <2>1. \A v \in Users \ {u} : notes'[v] = notes[v]
    BY <1>1, <1>14 DEF MessageReceived, TypeOK
  <2>2. CASE Concerns(u, n)
    BY <1>11, <1>14, <2>1, <2>2 DEF MessageReceived, client
  <2>3. CASE ~Concerns(u, n)
    <3>1. notes'[u] = notes[u] \ {n} /\ UNCHANGED <<gets, covered, untold, posts, client>>
      BY <1>1, <1>14, <2>3 DEF MessageReceived, TypeOK
    <3> SUFFICES ASSUME NEW v \in Users PROVE PageTold(v)' /\ ScreenTold(v)'
      BY DEF Told
    <3>2. \A r \in rows : r.msg.from = peer[v] /\ Announced(v, r) => Announced(v, r)'
      BY <2>1, <2>3, <3>1 DEF Announced, Concerns
    <3> QED BY <1>1, <1>2, <1>3, <3>1, <3>2, ToldKept DEF client
  <2> QED BY <2>2, <2>3
<1> QED
  BY <1>6, <1>7, <1>8, <1>10, <1>12, <1>13, <1>14 DEF ClientStep

LEMMA PostStepTold ==
    ASSUME ScreenInv, Told, NEW p \in posts, PostStep(p)
    PROVE  Told'
<1>1. ScreenInv' /\ TypeOK /\ TypeOK'
  BY PostStepScreen DEF ScreenInv, StoredInv
<1>2. \A v \in Users : PageTold(v) /\ ScreenTold(v)
  BY DEF Told
<1>3. UNCHANGED client
  BY DEF PostStep, PostBegin, PostCommit, PostResume, PostReturn, PostLost, PostDetach,
         HandlerFail, PostResend
<1>4. p \in Post
  BY <1>1 DEF TypeOK
<1>5. ASSUME UNCHANGED <<gets, covered>>, rows \subseteq rows',
             \A v \in Users : \A r \in rows' \ rows : Announced(v, r)',
             \A v \in Users : \A r \in rows :
                covered[v] /\ r.msg.to = v /\ Announced(v, r) => Announced(v, r)'
      PROVE  Told'
  <2> SUFFICES ASSUME NEW v \in Users PROVE PageTold(v)' /\ ScreenTold(v)'
    BY DEF Told
  <2> QED BY <1>1, <1>2, <1>3, <1>5, ToldKept DEF client
<1>6. ASSUME NEW q, q.msg = p.msg, p.stage = "committed" => q.stage = "committed",
             (posts \ {p}) \cup {q} \subseteq posts' \/
                (p.stage # "committed" /\ posts \ {p} \subseteq posts'),
             UNCHANGED <<gets, covered, untold, rows, notes>>
      PROVE  Told'
  <2>1. \A v \in Users : \A r \in rows : Announced(v, r) => Announced(v, r)'
    BY <1>6 DEF Announced
  <2> QED BY <1>5, <1>6, <2>1
<1>7. CASE PostBegin(p)
  BY <1>6, <1>7 DEF PostBegin, history
<1>8. CASE PostCommit(p)
  <2> DEFINE q == [p EXCEPT !.stage = "committed"]
             r == [msg |-> p.msg, at |-> p.at]
  <2>1. q.msg = p.msg /\ q.stage = "committed" /\ r.msg = p.msg
    BY <1>4 DEF Post
  <2>2. posts' = (posts \ {p}) \cup {q} /\ rows' = rows \cup {r} /\ p.stage = "insert"
    BY <1>8 DEF PostCommit
  <2> HIDE DEF q, r
  <2>3. \A v \in Users : Announced(v, r)'
    BY <2>1, <2>2 DEF Announced
  <2>4. \A v \in Users : \A t \in rows : Announced(v, t) => Announced(v, t)'
    BY <1>8, <2>2 DEF Announced, PostCommit, history
  <2>5. \A v \in Users : \A t \in rows' \ rows : Announced(v, t)'
    BY <2>2, <2>3
  <2> QED BY <1>5, <1>8, <2>2, <2>4, <2>5 DEF PostCommit, history
<1>9. CASE PostResume(p)
  <2> DEFINE q == [p EXCEPT !.stage = "replied"]
             t == [msg |-> p.msg, at |-> p.at]
  <2>1. t.msg = p.msg /\ p.msg.to \in Users
    BY <1>4 DEF Post, Message
  <2>2. posts \ {p} \subseteq posts' /\ UNCHANGED <<gets, rows, covered, untold>>
    BY <1>9 DEF PostResume, history
  <2>3. ws[p.msg.to] = "open" => notes' = [notes EXCEPT ![p.msg.to] = @ \cup {t}]
    BY <1>9 DEF PostResume
  <2>4. \A v \in Users : notes[v] \subseteq notes'[v]
    BY <1>1, <1>9 DEF PostResume, TypeOK
  <2> HIDE DEF q, t
  <2>5. covered[p.msg.to] => t \in notes'[p.msg.to]
    BY <1>1, <2>1, <2>3 DEF ScreenInv, SocketOpen, TypeOK
  <2>6. \A v \in Users : \A r \in rows :
          covered[v] /\ r.msg.to = v /\ Announced(v, r) => Announced(v, r)'
    BY <2>1, <2>2, <2>4, <2>5 DEF Announced
  <2> QED BY <1>5, <2>2, <2>6
<1>10. CASE PostReturn(p)
  <2>1. posts' = posts \ {p} /\ p.stage = "replied" /\ UNCHANGED <<rows, notes>>
    BY <1>10 DEF PostReturn
  <2>2. CASE UNCHANGED <<gets, covered, untold>>
    BY <1>6, <2>1, <2>2
  <2>3. CASE StartLoad(p.msg.from, p.msg.to)
    <3> DEFINE u == p.msg.from
    <3>1. u \in Users
      BY <1>4 DEF Post, Message
    <3>2. PICK n \in gets' :
             /\ n.user = u /\ n.current /\ n.stage = "asked"
             /\ \A g \in gets' : g = n \/ (g.user = u /\ ~g.current)
                                       \/ (g \in gets /\ g.user # u)
             /\ \A g \in gets : g.user # u => g \in gets'
             /\ covered' = [covered EXCEPT ![u] = ws[u] = "open"]
             /\ untold' = [untold EXCEPT ![u] = {}]
      BY <1>1, <2>3, <3>1, LoadsStarted
    <3> HIDE DEF u
    <3> SUFFICES ASSUME NEW v \in Users PROVE PageTold(v)' /\ ScreenTold(v)'
      BY DEF Told
    <3>3. CASE v = u
      BY <3>2, <3>3, ToldAfresh
    <3>4. CASE v # u
      <4>1. covered'[v] = covered[v] /\ untold'[v] = untold[v]
        BY <1>1, <3>2, <3>4 DEF TypeOK
      <4>2. \A r \in rows : Announced(v, r) => Announced(v, r)'
        BY <2>1, <4>1 DEF Announced
      <4>3. \A g \in gets' : g.user = v => g \in gets
        BY <3>2, <3>4
      <4>4. (\A g \in gets' : g.user = v => ~g.current) =>
               \A g \in gets : g.user = v => ~g.current
        BY <3>2, <3>4
      <4> QED BY <1>1, <1>2, <1>3, <2>1, <4>1, <4>2, <4>3, <4>4, ToldKept DEF client
    <3> QED BY <3>3, <3>4
  <2> QED BY <1>10, <2>2, <2>3 DEF PostReturn
<1>11. CASE PostLost(p)
  BY <1>6, <1>11 DEF PostLost, history
<1>12. CASE PostDetach(p)
  <2> DEFINE q == [p EXCEPT !.live = FALSE]
  <2>1. q.msg = p.msg /\ q.stage = p.stage
    BY <1>4 DEF Post
  <2>2. posts' = (posts \ {p}) \cup {q}
    BY <1>12 DEF PostDetach
  <2> HIDE DEF q
  <2> QED BY <1>6, <1>12, <2>1, <2>2 DEF PostDetach, history
<1>13. CASE HandlerFail(p)
  <2>1. posts' = posts \ {p} /\ UNCHANGED <<gets, rows, notes, covered>>
    BY <1>13 DEF HandlerFail
  <2>2. p.msg.to \in Users
    BY <1>4 DEF Post, Message
  <2>3. \A v \in Users : untold[v] \subseteq untold'[v]
    BY <1>1, <1>13, <2>2 DEF HandlerFail, TypeOK
  <2>4. p.stage = "committed" /\ covered[p.msg.to] => p.msg \in untold'[p.msg.to]
    BY <1>1, <1>13, <2>2 DEF HandlerFail, TypeOK
  <2>5. \A v \in Users : \A r \in rows :
          covered[v] /\ r.msg.to = v /\ Announced(v, r) => Announced(v, r)'
    BY <2>1, <2>3, <2>4 DEF Announced
  <2> QED BY <1>5, <2>1, <2>5
<1>14. CASE PostResend(p)
  <2> DEFINE q == [p EXCEPT !.live = FALSE]
  <2>1. q.msg = p.msg /\ q.stage = p.stage
    BY <1>4 DEF Post
  <2>2. (posts \ {p}) \cup {q} \subseteq posts'
    BY <1>14 DEF PostResend
  <2> HIDE DEF q
  <2> QED BY <1>6, <1>14, <2>1, <2>2 DEF PostResend, history
<1> QED
  BY <1>7, <1>8, <1>9, <1>10, <1>11, <1>12, <1>13, <1>14 DEF PostStep

\* The display of an answer has all that is not announced.
LEMMA DisplayTold ==
    ASSUME ScreenInv, Told, NEW g \in gets, GetReturn(g), Display(g.user, g.page),
           ~OutOfDate(g), ~Refused(g)
    PROVE  ScreenTold(g.user)'
<1> DEFINE u == g.user
<1>1. TypeOK /\ u \in Users /\ g.page \in SUBSET Row /\ peer[u] = g.with
  BY DEF ScreenInv, StoredInv, TypeOK, Get, OutOfDate
<1>2. view'[u] = Dedup(g.page) /\ UNCHANGED <<rows, peer, notes, posts, covered, untold>>
  BY <1>1 DEF Display, TypeOK, GetReturn
<1>3. \A r : Announced(u, r)' = Announced(u, r)
  BY <1>2 DEF Announced
<1>4. Page(u, peer[u])' = Page(u, g.with)
  BY <1>1, <1>2 DEF Page, Between
<1> SUFFICES ASSUME covered[u], NEW r \in Page(u, g.with), r.msg.from = g.with
             PROVE  (\E q \in Dedup(g.page) : q.msg = r.msg) \/ Announced(u, r)
  BY <1>1, <1>2, <1>3, <1>4 DEF ScreenTold
<1>5. r \in g.page \/ Announced(u, r)
  BY <1>1 DEF Told, PageTold, GetReturn, OutOfDate
<1>6. ASSUME r \in g.page PROVE \E q \in Dedup(g.page) : q.msg = r.msg
  <2>1. PICK q \in Dedup(g.page) : q.msg.sig = r.msg.sig
    BY <1>1, <1>6, DedupKeeps
  <2>2. q \in g.page
    BY DedupRows
  <2>3. q.msg \in Written /\ r.msg \in Written
    BY <1>6, <2>2 DEF Refused, ScreenInv, StoredInv
  <2>4. q.msg = r.msg
    BY <2>1, <2>3 DEF Written, ScreenInv, StoredInv
  <2> QED BY <2>4
<1> QED BY <1>5, <1>6

LEMMA GetStepTold ==
    ASSUME ScreenInv, Told, NEW g \in gets, GetStep(g)
    PROVE  Told'
<1>1. ScreenInv' /\ TypeOK /\ TypeOK'
  BY GetStepScreen DEF ScreenInv, StoredInv
<1>2. UNCHANGED <<rows, peer, notes, posts, covered, untold>>
  BY DEF GetStep, GetAnswer, GetReturn, GetFail, client, history
<1>3. \A v \in Users : PageTold(v) /\ ScreenTold(v)
  BY DEF Told
<1>4. \A v : \A r : Announced(v, r)' = Announced(v, r)
  BY <1>2 DEF Announced
<1>5. g.user \in Users
  BY <1>1 DEF TypeOK, Get
<1>6. CASE GetAnswer(g)
  <2> DEFINE h == [g EXCEPT !.stage = "answered", !.page = Page(g.user, g.with)]
  <2>1. /\ h.user = g.user /\ h.with = g.with /\ h.current = g.current
        /\ h.page = Page(g.user, g.with)
    BY <1>1 DEF TypeOK, Get
  <2>2. gets' = (gets \ {g}) \cup {h} /\ UNCHANGED <<view, alert>>
    BY <1>6 DEF GetAnswer, client
  <2> HIDE DEF h
  <2> SUFFICES ASSUME NEW v \in Users PROVE PageTold(v)' /\ ScreenTold(v)'
    BY DEF Told
  <2>3. PageTold(v)'
    <3> SUFFICES ASSUME covered[v], NEW f \in gets', f.user = v, f.current,
                        f.stage = "answered", NEW r \in Page(v, f.with), r.msg.from = f.with
                 PROVE  r \in f.page \/ Announced(v, r)
      BY <1>2, <1>4 DEF PageTold, Page, Between
    <3>1. CASE f = h
      BY <2>1, <3>1
    <3>2. CASE f \in gets
      BY <1>3, <3>2 DEF PageTold
    <3> QED BY <2>2, <3>1, <3>2
  <2>4. ScreenTold(v)'
    <3>1. (\A f \in gets' : f.user = v => ~f.current) => \A f \in gets : f.user = v => ~f.current
      BY <2>1, <2>2
    <3>2. Page(v, peer[v])' = Page(v, peer[v])
      BY <1>2 DEF Page, Between
    <3> QED BY <1>2, <1>3, <1>4, <2>2, <3>1, <3>2 DEF ScreenTold
  <2> QED BY <2>3, <2>4
<1>7. CASE GetReturn(g) \/ GetFail(g)
  <2>1. gets' = gets \ {g}
    BY <1>7 DEF GetReturn, GetFail
  <2>2. \A v \in Users \ {g.user} : view'[v] = view[v] /\ alert'[v] = alert[v]
    BY <1>1, <1>7 DEF GetReturn, GetFail, Receive, Display, LoadFailed, TypeOK
  <2>3. ASSUME NEW v \in Users,
               (~alert'[v] /\ \A f \in gets' : f.user = v => ~f.current) =>
                  /\ view'[v] = view[v] /\ ~alert[v]
                  /\ \A f \in gets : f.user = v => ~f.current
        PROVE  PageTold(v)' /\ ScreenTold(v)'
    BY <1>1, <1>2, <1>3, <1>4, <2>1, <2>3, ToldKept
  <2>4. ASSUME NEW v \in Users, v # g.user PROVE PageTold(v)' /\ ScreenTold(v)'
    BY <2>1, <2>2, <2>3, <2>4
  <2>5. CASE OutOfDate(g) /\ UNCHANGED <<view, alert>>
    <3>1. ~g.current
      BY <2>5 DEF OutOfDate, ScreenInv, LoadsOfOpen
    <3>2. PageTold(g.user)' /\ ScreenTold(g.user)'
      BY <1>5, <2>1, <2>3, <2>5, <3>1
    <3> QED BY <2>4, <3>2 DEF Told
  <2>6. CASE LoadFailed(g.user, g.with)
    <3>1. alert'[g.user] \/ (peer[g.user] # g.with /\ UNCHANGED <<view, alert>>)
      BY <1>1, <1>5, <2>6 DEF LoadFailed, TypeOK
    <3>2. peer[g.user] # g.with => ~g.current
      BY DEF ScreenInv, LoadsOfOpen
    <3>3. PageTold(g.user)' /\ ScreenTold(g.user)'
      BY <1>5, <2>1, <2>3, <3>1, <3>2
    <3> QED BY <2>4, <3>3 DEF Told
  <2>7. CASE GetReturn(g) /\ Display(g.user, g.page) /\ ~OutOfDate(g) /\ ~Refused(g)
    <3>1. \A f \in gets' : f.user = g.user => ~f.current
      BY <2>1, <2>7 DEF OutOfDate, ScreenInv, LoadsOfOpen
    <3>2. PageTold(g.user)'
      BY <3>1 DEF PageTold
    <3> QED BY <2>4, <2>7, <3>2, DisplayTold DEF Told
  <2> QED BY <1>7, <2>5, <2>6, <2>7 DEF GetReturn, GetFail, Receive
<1> QED BY <1>6, <1>7 DEF GetStep

LEMMA NextTold ==
    ASSUME ScreenInv, Told, [Next]_vars
    PROVE  Told'
<1>1. CASE Next
  BY <1>1, ClientStepTold, PostStepTold, GetStepTold DEF Next
<1>2. CASE UNCHANGED vars
  <2>1. ScreenInv'
    BY NextScreen
  <2>2. \A v \in Users : \A r : Announced(v, r) => Announced(v, r)'
    BY <1>2 DEF vars, history, Announced
  <2> SUFFICES ASSUME NEW v \in Users PROVE PageTold(v)' /\ ScreenTold(v)'
    BY DEF Told
  <2>3. PageTold(v) /\ ScreenTold(v)
    BY DEF Told
  <2> QED BY <1>2, <2>1, <2>2, <2>3, ToldKept DEF vars, client, history
<1> QED BY <1>1, <1>2

\* While the push socket is open, no load and no announcement is on its way and no error is
\* shown, the screen has every message of the open peer in the newest PageLimit rows, whatever
\* order answers, announcements, lost connections, retries and clicks came in; but for one
\* whose handler the database cut off after its commit, until the next load.
THEOREM NothingMissedHolds == Spec => []NothingMissed
<1>1. ScreenInv /\ Told => NothingMissed
  <2> SUFFICES ASSUME ScreenInv, Told, NEW u \in Users, covered[u], Quiet(u), ~alert[u],
                      peer[u] # NoPeer, NEW r \in Page(u, peer[u]), r.msg.from = peer[u]
               PROVE  (\E q \in view[u] : q.msg = r.msg) \/ r.msg \in untold[u]
    BY DEF NothingMissed
  <2>1. r.msg.to = u
    BY DEF Page, Between
  <2>2. (\E q \in view[u] : q.msg = r.msg) \/ Announced(u, r)
    BY DEF Told, ScreenTold, Quiet
  <2>3. Announced(u, r) => r.msg \in untold[u]
    BY <2>1 DEF Announced, Quiet
  <2> QED BY <2>2, <2>3
<1>2. Init => Told
  BY DEF Init, Told, PageTold, ScreenTold
<1>3. ScreenInv /\ Told /\ [Next]_vars => Told'
  BY NextTold
<1> QED BY <1>1, <1>2, <1>3, ScreenInvariant, PTL DEF Spec

=============================================================================
