---------------------------- MODULE WebClientProofs ----------------------------
(* Theorems about WebClient, for every value of its constants. *)
EXTENDS WebClient, FiniteSetTheorems, WellFoundedInduction, TLAPS

\* What is signed is positive, a page whose counter is compared is not empty, and the
\* server's rows can be counted.
Signing ==
    /\ IsFiniteSet(table)
    /\ \A s \in sends : s.stage \in {"sign", "post", "reply"} => s.value >= 1
    /\ \A l \in loads : l.stage \in {"compare", "tick"} => l.rows # {}

\* One tick of a conversation at a time.
OneTick ==
    /\ \A l, m \in loads :
         l.stage = "tick" /\ m.stage = "tick" /\ l.with = m.with => l = m
    /\ \A s, t \in sends : s.stage = "tick" /\ t.stage = "tick" /\ s.to = t.to => s = t
    /\ \A l \in loads, s \in sends : l.stage = "tick" /\ s.stage = "tick" => l.with # s.to

\* What a coroutine read of a counter is still true while it ticks, and a lower bound
\* before; c is the counter stored.
LoadBelow(l, c) ==
    /\ l.stage = "compare" => l.value <= c
    /\ l.stage = "tick" => l.value = c
    /\ l.stage = "display" => \A r \in l.rows : r.ctr <= c

SendBelow(s, c) ==
    /\ s.stage \in {"key", "tick"} => \A n \in s.past : n <= c
    /\ s.stage = "tick" => s.value = c
    /\ s.stage = "sign" => s.value <= c /\ \A n \in s.past : n < s.value

LoadsBelow == \A l \in loads : LoadBelow(l, clocks[l.with])
SendsBelow == \A s \in sends : SendBelow(s, clocks[s.to])

\* No counter displayed or signed is above the stored one.
KnownBelow ==
    /\ \A p \in Peers : \A n \in seen[p] : n <= clocks[p]
    /\ \A m \in sent : m.ctr <= clocks[m.to]

Ticks == OneTick /\ LoadsBelow /\ SendsBelow

Ordered == Ticks /\ KnownBelow /\ CausalOrder

-----------------------------------------------------------------------------
(* Operators *)

LEMMA Least ==
    ASSUME NEW T \in SUBSET Nat, T # {}
    PROVE  \E x \in T : \A y \in T : x <= y
<1> DEFINE R == OpToRel(<, Nat)
<1>1. IsWellFoundedOn(R, Nat)
  BY NatLessThanWellFounded
<1>2. \A x, y \in Nat : y < x => <<y, x>> \in R
  BY DEF OpToRel
<1> HIDE DEF R
<1>3. PICK x \in T : \A y \in T : ~(<<y, x>> \in R)
  BY <1>1, WFMin
<1>4. \A y \in T : ~(y < x)
  BY <1>2, <1>3
<1> QED BY <1>4

\* A bounded set of numbers has a largest one.
LEMMA Largest ==
    ASSUME NEW m \in Nat, NEW T \in SUBSET (0..m), T # {}
    PROVE  \E x \in T : \A y \in T : y <= x
<1> DEFINE D == {m - n : n \in T}
<1>1. \A n \in T : n \in Nat /\ n <= m /\ m - n \in Nat
  OBVIOUS
<1>2. D \in SUBSET Nat /\ D # {}
  BY <1>1
<1>3. PICK d \in D : \A e \in D : d <= e
  BY <1>2, Least
<1>4. PICK x \in T : d = m - x
  OBVIOUS
<1>5. \A y \in T : m - x <= m - y
  BY <1>3, <1>4
<1> QED BY <1>1, <1>4, <1>5

\* Top is the largest counter of a page.
LEMMA TopIsLargest ==
    ASSUME NEW rows \in SUBSET Message, rows # {}
    PROVE  Top(rows) \in 1..MaxClock /\ \A r \in rows : r.ctr <= Top(rows)
<1> DEFINE T == {r.ctr : r \in rows}
<1>1. \A r \in rows : r.ctr \in 1..MaxClock
  BY DEF Message
<1>2. T \in SUBSET (0..MaxClock) /\ T # {}
  BY <1>1, WebAssumption
<1>3. \E x \in T : \A y \in T : y <= x
  BY <1>2, Largest, WebAssumption
<1>4. \E x \in T : \A r \in rows : r.ctr <= x
  BY <1>3
<1>5. Top(rows) \in T /\ \A r \in rows : r.ctr <= Top(rows)
  BY <1>4 DEF Top
<1> QED BY <1>1, <1>5

LEMMA NextTickAbove ==
    ASSUME NEW v \in Nat, NEW top \in Nat
    PROVE  /\ NextTick(v, top) \in Nat
           /\ NextTick(v, top) > v /\ NextTick(v, top) > top /\ NextTick(v, top) >= 1
BY DEF NextTick

\* Raising a generation changes nothing else of a coroutine.
LEMMA OutdatedLoad ==
    ASSUME NEW l \in Load
    PROVE  /\ Outdate(l) \in Load
           /\ ~Outdate(l).current
           /\ Outdate(l).with = l.with /\ Outdate(l).stage = l.stage
           /\ Outdate(l).value = l.value /\ Outdate(l).rows = l.rows
BY DEF Outdate, Load

LEMMA OutdatedSend ==
    ASSUME NEW s \in Sending
    PROVE  /\ Outdate(s) \in Sending
           /\ Outdate(s).to = s.to /\ Outdate(s).stage = s.stage
           /\ Outdate(s).value = s.value /\ Outdate(s).past = s.past
BY DEF Outdate, Sending

-----------------------------------------------------------------------------
(* Types *)

LEMMA KnownTypes ==
    ASSUME TypeOK, Signing, NEW p \in Peers
    PROVE  Known(p) \subseteq 1..MaxClock
BY DEF TypeOK, Signed, Known

\* A new row has its number.
LEMMA StoreTypes ==
    ASSUME TypeOK, Signing, NEW p \in Peers, NEW mine \in BOOLEAN, NEW n \in 1..MaxClock,
           Store(p, mine, n)
    PROVE  table' \subseteq Message /\ IsFiniteSet(table')
<1> DEFINE r == [with |-> p, mine |-> mine, ctr |-> n, at |-> Cardinality(Conversation(p)) + 1]
<1>1. Cardinality(Conversation(p)) \in Nat
  <2>1. Conversation(p) \subseteq table /\ IsFiniteSet(table)
    BY DEF Conversation, Signing
  <2> QED BY <2>1, FS_Subset, FS_CardinalityType
<1>2. r \in Message
  BY <1>1 DEF Message
<1>3. table' = table \cup {r}
  BY DEF Store
<1> HIDE DEF r
<1> QED BY <1>2, <1>3, FS_AddElement DEF TypeOK, Signing

\* The loads after Open: those before, out of date, and a new one.
LEMMA OpenTypes ==
    ASSUME TypeOK, Signing, NEW p \in Peers, Open(p)
    PROVE  /\ peer' \in Peers /\ screen' \subseteq Message /\ error' \in BOOLEAN
           /\ loads' \subseteq Load
           /\ \A l, m \in loads' : l.current /\ m.current => l = m
           /\ \A l \in loads' : l.stage = "request" \/ \E k \in loads : l = Outdate(k)
           /\ \A l \in loads' : l.stage \in {"compare", "tick"} => l.rows # {}
<1>1. PICK s \in LoadSlots :
        loads' = {Outdate(l) : l \in loads} \cup
                   {[slot |-> s, with |-> p, current |-> TRUE, stage |-> "request",
                     rows |-> {}, value |-> 0]}
  BY DEF Open
<1> DEFINE n == [slot |-> s, with |-> p, current |-> TRUE, stage |-> "request",
                 rows |-> {}, value |-> 0]
<1>2. n \in Load /\ n.stage = "request"
  BY WebAssumption DEF Load
<1>3. loads' = {Outdate(l) : l \in loads} \cup {n}
  BY <1>1
<1> HIDE DEF n
<1>4. \A l \in loads : /\ Outdate(l) \in Load /\ ~Outdate(l).current
                       /\ Outdate(l).stage = l.stage /\ Outdate(l).rows = l.rows
  BY OutdatedLoad DEF TypeOK
<1>5. peer' \in Peers /\ screen' \subseteq Message /\ error' \in BOOLEAN
  BY DEF Open, TypeOK
<1>6. loads' \subseteq Load /\ \A l, m \in loads' : l.current /\ m.current => l = m
  BY <1>2, <1>3, <1>4
<1>7. \A l \in loads' : l.stage = "request" \/ \E k \in loads : l = Outdate(k)
  BY <1>2, <1>3
<1>8. \A l \in loads' : l.stage \in {"compare", "tick"} => l.rows # {}
  BY <1>2, <1>3, <1>4 DEF Signing
<1> QED BY <1>5, <1>6, <1>7, <1>8

LEMMA SupersedeTypes ==
    ASSUME TypeOK, Signing, Supersede
    PROVE  /\ loads' \subseteq Load /\ sends' \subseteq Sending
           /\ \A l, m \in loads' : l.current /\ m.current => l = m
           /\ \A l \in loads' : l.stage \in {"compare", "tick"} => l.rows # {}
           /\ \A s \in sends' : s.stage \in {"sign", "post", "reply"} => s.value >= 1
<1>1. \A l \in loads : /\ Outdate(l) \in Load /\ ~Outdate(l).current
                       /\ Outdate(l).stage = l.stage /\ Outdate(l).rows = l.rows
  BY OutdatedLoad DEF TypeOK
<1>2. \A s \in sends : /\ Outdate(s) \in Sending
                       /\ Outdate(s).stage = s.stage /\ Outdate(s).value = s.value
  BY OutdatedSend DEF TypeOK
<1> QED BY <1>1, <1>2 DEF Supersede, Signing

\* A load that goes on, or ends.
LEMMA LoadReplaced ==
    ASSUME TypeOK, Signing, NEW l \in loads, NEW n \in Load, n.current = l.current,
           n.stage \in {"compare", "tick"} => n.rows # {},
           loads' \subseteq (loads \ {l}) \cup {n}
    PROVE  /\ loads' \subseteq Load
           /\ \A k, m \in loads' : k.current /\ m.current => k = m
           /\ \A k \in loads' : k.stage \in {"compare", "tick"} => k.rows # {}
<1>1. loads' \subseteq Load
  BY DEF TypeOK
<1>2. \A k, m \in loads : k.current /\ m.current => k = m
  BY DEF TypeOK
<1>3. \A k, m \in loads' : k.current /\ m.current => k = m
  BY <1>2
<1>4. \A k \in loads' : k.stage \in {"compare", "tick"} => k.rows # {}
  BY DEF Signing
<1> QED BY <1>1, <1>3, <1>4

LEMMA LoadEnds ==
    ASSUME TypeOK, Signing, NEW l \in loads, loads' = loads \ {l}
    PROVE  /\ loads' \subseteq Load
           /\ \A k, m \in loads' : k.current /\ m.current => k = m
           /\ \A k \in loads' : k.stage \in {"compare", "tick"} => k.rows # {}
BY DEF TypeOK, Signing

\* What displaying a page adds to what was seen.
LEMMA DisplayTypes ==
    ASSUME TypeOK, NEW l \in loads, Display(l)
    PROVE  /\ screen' \subseteq Message
           /\ seen' \in [Peers -> SUBSET (1..MaxClock)]
           /\ \A p \in Peers : \A n \in seen'[p] :
                n \in seen[p] \/ (p = l.with /\ \E r \in l.rows : n = r.ctr)
<1>1. l \in Load
  BY DEF TypeOK
<1>2. l.with \in Peers /\ l.rows \subseteq Message
  BY <1>1 DEF Load
<1>3. {r.ctr : r \in l.rows} \subseteq 1..MaxClock
  BY <1>2 DEF Message
<1> QED BY <1>2, <1>3 DEF Display, TypeOK

LEMMA LoadStepTypes ==
    ASSUME TypeOK, Signing, NEW l \in loads, LoadStep(l) \/ LoadError(l)
    PROVE  TypeOK' /\ Signing'
<1>1. /\ l \in Load /\ l.with \in Peers /\ l.value \in 0..MaxClock /\ l.rows \subseteq Message
      /\ clocks[l.with] \in 0..MaxClock
  BY DEF TypeOK, Load
<1>2. ASSUME NEW n \in Load, n.current = l.current,
             n.stage \in {"compare", "tick"} => n.rows # {},
             loads' = (loads \ {l}) \cup {n},
             clocks' \in [Peers -> 0..MaxClock], overlapped' \in BOOLEAN,
             UNCHANGED <<phase, page, sends, table, seen, sent>>
      PROVE  TypeOK' /\ Signing'
  <2>1. /\ loads' \subseteq Load
        /\ \A k, m \in loads' : k.current /\ m.current => k = m
        /\ \A k \in loads' : k.stage \in {"compare", "tick"} => k.rows # {}
    BY <1>2, LoadReplaced
  <2> QED BY <1>2, <2>1 DEF TypeOK, Signing, page
<1>3. ASSUME loads' = loads \ {l}, UNCHANGED <<phase, peer, clocks, sends, table, sent>>,
             screen' \subseteq Message, error' \in BOOLEAN, overlapped' \in BOOLEAN,
             seen' \in [Peers -> SUBSET (1..MaxClock)]
      PROVE  TypeOK' /\ Signing'
  <2>1. /\ loads' \subseteq Load
        /\ \A k, m \in loads' : k.current /\ m.current => k = m
        /\ \A k \in loads' : k.stage \in {"compare", "tick"} => k.rows # {}
    BY <1>3, LoadEnds
  <2> QED BY <1>3, <2>1 DEF TypeOK, Signing
<1>4. ASSUME Fail(l), UNCHANGED <<phase, clocks, sends, table, sent>>, overlapped' \in BOOLEAN
      PROVE  TypeOK' /\ Signing'
  <2>1. error' \in BOOLEAN
    BY <1>1, <1>4 DEF Fail, TypeOK, Load
  <2> QED BY <1>3, <1>4, <2>1 DEF Fail, TypeOK
<1>5. ASSUME Display(l), UNCHANGED <<phase, clocks, sends, table, sent>>, overlapped' \in BOOLEAN
      PROVE  TypeOK' /\ Signing'
  BY <1>3, <1>5, DisplayTypes DEF Display, TypeOK
<1>6. CASE LoadAnswer(l)
  <2> DEFINE n == [l EXCEPT !.stage = "verify", !.rows = Rows(l.with)]
  <2>1. Rows(l.with) \subseteq Message
    BY DEF Rows, Conversation, TypeOK
  <2>2. n \in Load /\ n.current = l.current /\ n.stage = "verify"
    BY <1>1, <2>1 DEF Load
  <2>3. loads' = (loads \ {l}) \cup {n}
    BY <1>6 DEF LoadAnswer
  <2> HIDE DEF n
  <2> QED BY <1>2, <1>6, <2>2, <2>3 DEF LoadAnswer, history, TypeOK
<1>7. CASE LoadVerified(l)
  <2>1. CASE ~l.current /\ loads' = loads \ {l} /\ UNCHANGED <<page, seen>>
    BY <1>3, <1>7, <2>1 DEF LoadVerified, page, TypeOK
  <2>2. CASE Fail(l)
    BY <1>4, <1>7, <2>2 DEF LoadVerified, TypeOK
  <2>3. CASE Display(l)
    BY <1>5, <1>7, <2>3 DEF LoadVerified, TypeOK
  <2>4. CASE /\ l.rows # {} /\ UNCHANGED <<page, seen>>
             /\ loads' = (loads \ {l}) \cup
                           {[l EXCEPT !.stage = "compare", !.value = clocks[l.with]]}
    <3> DEFINE n == [l EXCEPT !.stage = "compare", !.value = clocks[l.with]]
    <3>1. n \in Load /\ n.current = l.current /\ n.rows = l.rows
      BY <1>1 DEF Load
    <3>2. loads' = (loads \ {l}) \cup {n}
      BY <2>4
    <3> HIDE DEF n
    <3> QED BY <1>2, <1>7, <2>4, <3>1, <3>2 DEF LoadVerified, TypeOK
  <2> QED BY <1>7, <2>1, <2>2, <2>3, <2>4 DEF LoadVerified
<1>8. CASE LoadCompare(l)
  <2>1. overlapped' \in BOOLEAN /\ l.rows # {}
    BY <1>8 DEF LoadCompare, TypeOK, Signing
  <2>2. CASE Fail(l)
    BY <1>4, <1>8, <2>1, <2>2 DEF LoadCompare
  <2>3. CASE Display(l)
    BY <1>5, <1>8, <2>1, <2>3 DEF LoadCompare
  <2>4. CASE /\ UNCHANGED <<page, seen>>
             /\ loads' = (loads \ {l}) \cup
                           {[l EXCEPT !.stage = "tick", !.value = clocks[l.with]]}
    <3> DEFINE n == [l EXCEPT !.stage = "tick", !.value = clocks[l.with]]
    <3>1. n \in Load /\ n.current = l.current /\ n.rows = l.rows
      BY <1>1 DEF Load
    <3>2. loads' = (loads \ {l}) \cup {n}
      BY <2>4
    <3> HIDE DEF n
    <3> QED BY <1>2, <1>8, <2>1, <2>4, <3>1, <3>2 DEF LoadCompare, TypeOK
  <2> QED BY <1>8, <2>2, <2>3, <2>4 DEF LoadCompare
<1>9. CASE LoadTick(l)
  <2> DEFINE next == NextTick(l.value, Top(l.rows))
  <2>1. CASE Fail(l) /\ UNCHANGED clocks
    BY <1>4, <1>9, <2>1 DEF LoadTick, TypeOK
  <2>2. CASE /\ Fits(next) /\ UNCHANGED <<page, seen>>
             /\ clocks' = [clocks EXCEPT ![l.with] = next]
             /\ loads' = (loads \ {l}) \cup {[l EXCEPT !.stage = "display"]}
    <3> DEFINE n == [l EXCEPT !.stage = "display"]
    <3>1. n \in Load /\ n.current = l.current /\ n.stage = "display"
      BY <1>1 DEF Load
    <3>2. loads' = (loads \ {l}) \cup {n}
      BY <2>2
    <3>3. Top(l.rows) \in Nat
      BY <1>1, <1>9, TopIsLargest DEF LoadTick, Signing
    <3>4. next \in 0..MaxClock
      BY <1>1, <2>2, <3>3, NextTickAbove, WebAssumption DEF Fits
    <3> HIDE DEF n, next
    <3>5. clocks' \in [Peers -> 0..MaxClock]
      BY <1>1, <2>2, <3>4 DEF TypeOK
    <3> QED BY <1>2, <1>9, <2>2, <3>1, <3>2, <3>5 DEF LoadTick, TypeOK
  <2> QED BY <1>9, <2>1, <2>2 DEF LoadTick
<1>10. CASE LoadDisplay(l)
  BY <1>5, <1>10 DEF LoadDisplay, TypeOK
<1>11. CASE LoadError(l)
  BY <1>4, <1>11 DEF LoadError, TypeOK
<1> QED BY <1>6, <1>7, <1>8, <1>9, <1>10, <1>11 DEF LoadStep

LEMMA SendStepTypes ==
    ASSUME TypeOK, Signing, NEW s \in sends, SendStep(s)
    PROVE  TypeOK' /\ Signing'
<1>1. /\ s \in Sending /\ s.to \in Peers /\ s.value \in 0..MaxClock /\ s.slot \in SendSlots
      /\ s.past \subseteq 1..MaxClock /\ clocks[s.to] \in 0..MaxClock
  BY DEF TypeOK, Sending
<1>2. ASSUME NEW n \in Sending, n.stage \in {"sign", "post", "reply"} => n.value >= 1,
             sends' \subseteq (sends \ {s}) \cup {n}, overlapped' \in BOOLEAN,
             clocks' \in [Peers -> 0..MaxClock], table' \subseteq Message,
             IsFiniteSet(table'), sent' \subseteq Signed, UNCHANGED <<phase, page, loads, seen>>
      PROVE  TypeOK' /\ Signing'
  <2>1. sends' \subseteq Sending
    BY <1>2 DEF TypeOK
  <2>2. \A t \in sends' : t.stage \in {"sign", "post", "reply"} => t.value >= 1
    BY <1>2 DEF Signing
  <2> QED BY <1>2, <2>1, <2>2 DEF TypeOK, Signing, page
<1>3. ASSUME sends' = sends \ {s}, UNCHANGED <<clocks, table, sent>>, overlapped' \in BOOLEAN,
             UNCHANGED <<phase, page, loads, seen>>
      PROVE  TypeOK' /\ Signing'
  BY <1>3 DEF TypeOK, Signing, page
<1>4. CASE SendRead(s)
  <2> DEFINE n == [s EXCEPT !.stage = "tick", !.value = clocks[s.to]]
  <2>1. n \in Sending /\ n.stage = "tick"
    BY <1>1 DEF Sending
  <2>2. sends' \subseteq (sends \ {s}) \cup {n} /\ overlapped' \in BOOLEAN
    BY <1>4 DEF SendRead, TypeOK
  <2> HIDE DEF n
  <2> QED BY <1>2, <1>4, <2>1, <2>2 DEF SendRead, TypeOK, Signing
<1>5. CASE SendTick(s)
  <2> DEFINE next == NextTick(s.value, 0)
             n == [s EXCEPT !.stage = "sign", !.value = next]
  <2>1. CASE sends' = sends \ {s} /\ UNCHANGED clocks
    BY <1>3, <1>5, <2>1 DEF SendTick, history, TypeOK
  <2>2. CASE /\ Fits(next) /\ clocks' = [clocks EXCEPT ![s.to] = next]
             /\ sends' = (sends \ {s}) \cup {n}
    <3>1. next \in 0..MaxClock /\ next >= 1
      BY <1>1, <2>2, NextTickAbove, WebAssumption DEF Fits
    <3> HIDE DEF next
    <3>2. n \in Sending /\ n.value >= 1
      BY <1>1, <3>1 DEF Sending
    <3>3. clocks' \in [Peers -> 0..MaxClock]
      BY <1>1, <2>2, <3>1 DEF TypeOK
    <3> HIDE DEF n
    <3> QED BY <1>2, <1>5, <2>2, <3>2, <3>3 DEF SendTick, history, TypeOK, Signing
  <2> QED BY <1>5, <2>1, <2>2 DEF SendTick
<1>6. CASE SendSign(s)
  <2> DEFINE n == [s EXCEPT !.stage = "post"]
             m == [to |-> s.to, ctr |-> s.value, slot |-> s.slot, past |-> s.past]
  <2>1. s.value \in 1..MaxClock
    BY <1>1, <1>6, WebAssumption DEF SendSign, Signing
  <2>2. n \in Sending /\ n.value = s.value
    BY <1>1 DEF Sending
  <2>3. m \in Signed
    BY <1>1, <2>1 DEF Signed
  <2>4. sends' \subseteq (sends \ {s}) \cup {n} /\ sent' \subseteq sent \cup {m}
    BY <1>6 DEF SendSign
  <2> HIDE DEF n, m
  <2>5. sent' \subseteq Signed
    BY <2>3, <2>4 DEF TypeOK
  <2> QED BY <1>2, <1>6, <2>1, <2>2, <2>4, <2>5 DEF SendSign, TypeOK, Signing
<1>7. CASE SendPost(s)
  <2> DEFINE n == [s EXCEPT !.stage = "reply"]
  <2>1. s.value \in 1..MaxClock
    BY <1>1, <1>7, WebAssumption DEF SendPost, Signing
  <2>2. n \in Sending /\ n.value = s.value
    BY <1>1 DEF Sending
  <2>3. sends' \subseteq (sends \ {s}) \cup {n}
    BY <1>7 DEF SendPost
  <2> HIDE DEF n
  <2>4. table' \subseteq Message /\ IsFiniteSet(table')
    <3>1. CASE Store(s.to, TRUE, s.value)
      BY <1>1, <2>1, <3>1, StoreTypes
    <3>2. CASE UNCHANGED table
      BY <3>2 DEF TypeOK, Signing
    <3> QED BY <1>7, <3>1, <3>2 DEF SendPost
  <2> QED BY <1>2, <1>7, <2>1, <2>2, <2>3, <2>4 DEF SendPost, history, TypeOK, Signing
<1>8. CASE SendReply(s)
  <2>1. CASE UNCHANGED <<page, loads>>
    BY <1>3, <1>8, <2>1 DEF SendReply, history, TypeOK
  <2>2. CASE Open(s.to)
    <3>1. sends' = sends \ {s} /\ UNCHANGED <<phase, clocks, table, seen, sent, overlapped>>
      BY <1>8 DEF SendReply, history
    <3> QED BY <1>1, <2>2, <3>1, OpenTypes DEF TypeOK, Signing
  <2> QED BY <1>8, <2>1, <2>2 DEF SendReply
<1> QED BY <1>4, <1>5, <1>6, <1>7, <1>8 DEF SendStep

LEMMA TypesKept ==
    ASSUME TypeOK, Signing, [Next]_vars
    PROVE  TypeOK' /\ Signing'
<1>1. CASE UNCHANGED vars
  BY <1>1 DEF vars, page, history, TypeOK, Signing
<1>2. CASE Login \/ LogoutBegin
  <2>1. Supersede /\ UNCHANGED <<clocks, table, seen, sent, overlapped>>
    BY <1>2 DEF Login, LogoutBegin, history
  <2>2. /\ phase' \in {"in", "leaving", "out"} /\ peer' \in Peers \cup {NoPeer}
        /\ screen' \subseteq Message /\ error' \in BOOLEAN
    BY <1>2 DEF Login, LogoutBegin, page, TypeOK
  <2> QED BY <2>1, <2>2, SupersedeTypes DEF TypeOK, Signing
<1>3. CASE LogoutEnd
  BY <1>3 DEF LogoutEnd, history, TypeOK, Signing
<1>4. ASSUME NEW p \in Peers, Open(p), UNCHANGED <<phase, clocks, sends, table, history>>
      PROVE  TypeOK' /\ Signing'
  BY <1>4, OpenTypes DEF history, TypeOK, Signing
<1>5. ASSUME NEW p \in Peers, Choose(p) PROVE TypeOK' /\ Signing'
  BY <1>4, <1>5 DEF Choose
<1>6. CASE Poll
  BY <1>4, <1>6 DEF Poll, PollDue, TypeOK
<1>7. ASSUME NEW p \in Peers, PeerWrites(p) PROVE TypeOK' /\ Signing'
  <2>1. PICK n \in 1..MaxClock : Store(p, FALSE, n)
    BY <1>7 DEF PeerWrites
  <2>2. table' \subseteq Message /\ IsFiniteSet(table')
    BY <2>1, StoreTypes
  <2> QED BY <1>7, <2>2 DEF PeerWrites, page, history, TypeOK, Signing
<1>8. CASE Send
  <2>1. peer \in Peers /\ Known(peer) \subseteq 1..MaxClock
    BY <1>8, KnownTypes DEF Send, TypeOK
  <2>2. PICK k \in SendSlots :
          sends' = sends \cup {[slot |-> k, to |-> peer, current |-> TRUE, stage |-> "key",
                                value |-> 0, past |-> Known(peer)]}
    BY <1>8 DEF Send
  <2> DEFINE n == [slot |-> k, to |-> peer, current |-> TRUE, stage |-> "key",
                   value |-> 0, past |-> Known(peer)]
  <2>3. n \in Sending /\ n.stage = "key"
    BY <2>1, WebAssumption DEF Sending
  <2>4. sends' = sends \cup {n}
    BY <2>2
  <2> HIDE DEF n
  <2> QED BY <1>8, <2>3, <2>4 DEF Send, page, history, TypeOK, Signing
<1> QED
  BY <1>1, <1>2, <1>3, <1>5, <1>6, <1>7, <1>8, LoadStepTypes, SendStepTypes DEF Next


\* The counters stay safe integers and at most one load is up to date, however openConversation,
\* sendMessage, the poll and logout interleave.
THEOREM WebTypeCorrect == Spec => []TypeOK
<1>1. Init => TypeOK /\ Signing
  <2> SUFFICES ASSUME Init PROVE TypeOK /\ Signing
    OBVIOUS
  <2>1. clocks \in [Peers -> 0..MaxClock] /\ seen \in [Peers -> SUBSET (1..MaxClock)]
    BY WebAssumption DEF Init
  <2>2. loads = {} /\ sends = {} /\ table = {} /\ sent = {} /\ screen = {}
    BY DEF Init
  <2> QED BY <2>1, <2>2, FS_EmptySet DEF Init, TypeOK, Signing
<1> QED BY <1>1, TypesKept, PTL DEF Spec

-----------------------------------------------------------------------------
(* The order of the counters *)

\* A bound on a counter survives its rising, unless it is exact.
LEMMA LoadBelowRises ==
    ASSUME NEW l \in Load, NEW c \in Nat, NEW d \in Nat, LoadBelow(l, c),
           c <= d, d = c \/ l.stage # "tick"
    PROVE  LoadBelow(l, d)
<1>1. l.value \in Nat /\ \A r \in l.rows : r.ctr \in Nat
  BY WebAssumption DEF Load, Message
<1> QED BY <1>1 DEF LoadBelow

LEMMA SendBelowRises ==
    ASSUME NEW s \in Sending, NEW c \in Nat, NEW d \in Nat, SendBelow(s, c),
           c <= d, d = c \/ s.stage # "tick"
    PROVE  SendBelow(s, d)
<1>1. s.value \in Nat /\ \A n \in s.past : n \in Nat
  BY WebAssumption DEF Sending
<1> QED BY <1>1 DEF SendBelow

\* Nothing begins and nothing is written.
LEMMA TicksShrink ==
    ASSUME Ticks, loads' \subseteq loads, sends' \subseteq sends, clocks' = clocks
    PROVE  Ticks'
<1>1. OneTick'
  BY DEF Ticks, OneTick
<1>2. LoadsBelow' /\ SendsBelow'
  BY DEF Ticks, LoadsBelow, SendsBelow, LoadBelow, SendBelow
<1> QED BY <1>1, <1>2 DEF Ticks

\* The stored counter of p rises to what a tick of p writes, or keeps its value.
Rises(p) ==
    /\ clocks' \in [Peers -> 0..MaxClock]
    /\ clocks'[p] >= clocks[p]
    /\ \A q \in Peers \ {p} : clocks'[q] = clocks[q]

\* One load goes on; the counter it ticks may rise.
LEMMA TicksLoad ==
    ASSUME TypeOK, Ticks, NEW l \in loads, NEW n \in Load, n.with = l.with,
           loads' \subseteq (loads \ {l}) \cup {n}, sends' = sends, Rises(l.with),
           clocks' = clocks \/ l.stage = "tick", LoadBelow(n, clocks'[n.with]),
           n.stage = "tick" => ~Ticking(l.with)
    PROVE  Ticks'
<1>1. \A k \in loads : k \in Load /\ k.with \in Peers
  BY DEF TypeOK, Load
<1>2. \A s \in sends : s \in Sending /\ s.to \in Peers
  BY DEF TypeOK, Sending
<1>3. \A p \in Peers : clocks[p] \in Nat /\ clocks'[p] \in Nat /\ clocks[p] <= clocks'[p]
  BY <1>1, WebAssumption DEF TypeOK, Rises
<1>4. OneTick'
  BY DEF Ticks, OneTick, Ticking
<1>5. \A k \in loads' : LoadBelow(k, clocks'[k.with])
  <2>1. ASSUME NEW k \in loads \ {l} PROVE LoadBelow(k, clocks'[k.with])
    <3>1. LoadBelow(k, clocks[k.with])
      BY DEF Ticks, LoadsBelow
    <3>2. clocks'[k.with] = clocks[k.with] \/ k.stage # "tick"
      BY <1>1 DEF Ticks, OneTick, Rises
    <3> QED BY <1>1, <1>3, <3>1, <3>2, LoadBelowRises
  <2> QED BY <2>1
<1>6. \A s \in sends : SendBelow(s, clocks'[s.to])
  <2> SUFFICES ASSUME NEW s \in sends PROVE SendBelow(s, clocks'[s.to])
    OBVIOUS
  <2>1. SendBelow(s, clocks[s.to])
    BY DEF Ticks, SendsBelow
  <2>2. clocks'[s.to] = clocks[s.to] \/ s.stage # "tick"
    BY <1>1, <1>2 DEF Ticks, OneTick, Rises
  <2> QED BY <1>2, <1>3, <2>1, <2>2, SendBelowRises
<1>7. LoadsBelow' /\ SendsBelow'
  BY <1>5, <1>6 DEF LoadsBelow, SendsBelow, LoadBelow, SendBelow
<1> QED BY <1>4, <1>7 DEF Ticks

\* One send goes on; the counter it ticks may rise.
LEMMA TicksSend ==
    ASSUME TypeOK, Ticks, NEW s \in sends, NEW n \in Sending, n.to = s.to,
           sends' \subseteq (sends \ {s}) \cup {n}, loads' = loads, Rises(s.to),
           clocks' = clocks \/ s.stage = "tick", SendBelow(n, clocks'[n.to]),
           n.stage = "tick" => ~Ticking(s.to)
    PROVE  Ticks'
<1>1. \A k \in loads : k \in Load /\ k.with \in Peers
  BY DEF TypeOK, Load
<1>2. \A t \in sends : t \in Sending /\ t.to \in Peers
  BY DEF TypeOK, Sending
<1>3. \A p \in Peers : clocks[p] \in Nat /\ clocks'[p] \in Nat /\ clocks[p] <= clocks'[p]
  BY <1>2, WebAssumption DEF TypeOK, Rises
<1>4. OneTick'
  BY DEF Ticks, OneTick, Ticking
<1>5. \A k \in loads : LoadBelow(k, clocks'[k.with])
  <2> SUFFICES ASSUME NEW k \in loads PROVE LoadBelow(k, clocks'[k.with])
    OBVIOUS
  <2>1. LoadBelow(k, clocks[k.with])
    BY DEF Ticks, LoadsBelow
  <2>2. clocks'[k.with] = clocks[k.with] \/ k.stage # "tick"
    BY <1>1, <1>2 DEF Ticks, OneTick, Rises
  <2> QED BY <1>1, <1>3, <2>1, <2>2, LoadBelowRises
<1>6. \A t \in sends' : SendBelow(t, clocks'[t.to])
  <2>1. ASSUME NEW t \in sends \ {s} PROVE SendBelow(t, clocks'[t.to])
    <3>1. SendBelow(t, clocks[t.to])
      BY DEF Ticks, SendsBelow
    <3>2. clocks'[t.to] = clocks[t.to] \/ t.stage # "tick"
      BY <1>2 DEF Ticks, OneTick, Rises
    <3> QED BY <1>2, <1>3, <3>1, <3>2, SendBelowRises
  <2> QED BY <2>1
<1>7. LoadsBelow' /\ SendsBelow'
  BY <1>5, <1>6 DEF LoadsBelow, SendsBelow, LoadBelow, SendBelow
<1> QED BY <1>4, <1>7 DEF Ticks

\* What was displayed and signed stays below a counter that rises.
LEMMA KnownRises ==
    ASSUME TypeOK, Signing, KnownBelow, CausalOrder, NEW p \in Peers, Rises(p),
           UNCHANGED <<seen, sent>>
    PROVE  KnownBelow' /\ CausalOrder'
<1>1. \A q \in Peers : clocks[q] \in Nat /\ clocks'[q] \in Nat /\ clocks[q] <= clocks'[q]
  BY WebAssumption DEF TypeOK, Rises
<1>2. \A m \in sent : m.to \in Peers /\ m.ctr \in Nat
  BY WebAssumption DEF TypeOK, Signed
<1>3. \A q \in Peers : \A n \in seen[q] : n \in Nat
  BY WebAssumption DEF TypeOK
<1>4. KnownBelow'
  BY <1>1, <1>2, <1>3 DEF KnownBelow
<1>5. CausalOrder'
  BY DEF CausalOrder
<1> QED BY <1>4, <1>5

LEMMA KnownStays ==
    ASSUME KnownBelow, CausalOrder, UNCHANGED <<clocks, seen, sent>>
    PROVE  KnownBelow' /\ CausalOrder'
BY DEF KnownBelow, CausalOrder

\* The loads after Open tick as before.
LEMMA TicksOpen ==
    ASSUME TypeOK, Signing, Ticks, NEW p \in Peers, Open(p), sends' \subseteq sends,
           clocks' = clocks
    PROVE  Ticks'
<1>1. \A l \in loads' : l.stage = "request" \/ \E k \in loads : l = Outdate(k)
  BY OpenTypes
<1>2. \A k \in loads : /\ Outdate(k).with = k.with /\ Outdate(k).stage = k.stage
                       /\ Outdate(k).value = k.value /\ Outdate(k).rows = k.rows
  BY OutdatedLoad DEF TypeOK
<1>3. OneTick'
  BY <1>1, <1>2 DEF Ticks, OneTick
<1>4. \A l \in loads' : LoadBelow(l, clocks[l.with])
  BY <1>1, <1>2 DEF Ticks, LoadsBelow, LoadBelow
<1>5. \A s \in sends' : SendBelow(s, clocks[s.to])
  BY DEF Ticks, SendsBelow
<1>6. LoadsBelow' /\ SendsBelow'
  BY <1>4, <1>5 DEF LoadsBelow, SendsBelow, LoadBelow, SendBelow
<1> QED BY <1>3, <1>6 DEF Ticks

LEMMA TicksSuperseded ==
    ASSUME TypeOK, Ticks, Supersede, clocks' = clocks
    PROVE  Ticks'
<1>1. \A k \in loads : /\ Outdate(k).with = k.with /\ Outdate(k).stage = k.stage
                       /\ Outdate(k).value = k.value /\ Outdate(k).rows = k.rows
  BY OutdatedLoad DEF TypeOK
<1>2. \A s \in sends : /\ Outdate(s).to = s.to /\ Outdate(s).stage = s.stage
                       /\ Outdate(s).value = s.value /\ Outdate(s).past = s.past
  BY OutdatedSend DEF TypeOK
<1>3. /\ \A l \in loads' : \E k \in loads : l = Outdate(k)
      /\ \A s \in sends' : \E t \in sends : s = Outdate(t)
  BY DEF Supersede
<1>4. OneTick'
  BY <1>1, <1>2, <1>3 DEF Ticks, OneTick
<1>5. \A l \in loads' : LoadBelow(l, clocks[l.with])
  BY <1>1, <1>3 DEF Ticks, LoadsBelow, LoadBelow
<1>6. \A s \in sends' : SendBelow(s, clocks[s.to])
  BY <1>2, <1>3 DEF Ticks, SendsBelow, SendBelow
<1>7. LoadsBelow' /\ SendsBelow'
  BY <1>5, <1>6 DEF LoadsBelow, SendsBelow, LoadBelow, SendBelow
<1> QED BY <1>4, <1>7 DEF Ticks

\* A step of a load: only a tick raises the counter, and only the display adds to seen.
LEMMA LoadStepOrder ==
    ASSUME TypeOK, Signing, Ordered, NEW l \in loads, LoadStep(l) \/ LoadError(l), ~overlapped'
    PROVE  Ordered'
<1>1. /\ l \in Load /\ l.with \in Peers /\ l.value \in Nat /\ l.rows \subseteq Message
      /\ clocks[l.with] \in 0..MaxClock /\ clocks[l.with] \in Nat
      /\ LoadBelow(l, clocks[l.with])
  BY WebAssumption DEF TypeOK, Load, Ordered, Ticks, LoadsBelow
<1>2. \A p \in Peers : clocks' = clocks => Rises(p)
  BY WebAssumption DEF Rises, TypeOK
<1>3. ASSUME NEW n \in Load, n.with = l.with, loads' = (loads \ {l}) \cup {n},
             LoadBelow(n, clocks[l.with]), n.stage = "tick" => ~Ticking(l.with),
             UNCHANGED <<clocks, sends, seen, sent>>
      PROVE  Ordered'
  <2>1. Ticks'
    BY <1>1, <1>2, <1>3, TicksLoad DEF Ordered
  <2> QED BY <1>3, <2>1, KnownStays DEF Ordered
<1>4. ASSUME loads' = loads \ {l}, UNCHANGED <<clocks, sends, seen, sent>>
      PROVE  Ordered'
  BY <1>4, TicksShrink, KnownStays DEF Ordered
<1>5. ASSUME Display(l), UNCHANGED <<clocks, sends, sent>>,
             \A r \in l.rows : r.ctr <= clocks[l.with]
      PROVE  Ordered'
  <2>1. Ticks'
    BY <1>5, TicksShrink DEF Ordered, Display
  <2>2. KnownBelow'
    BY <1>5, DisplayTypes DEF Ordered, KnownBelow
  <2> QED BY <1>5, <2>1, <2>2 DEF Ordered, CausalOrder
<1>6. CASE LoadAnswer(l)
  <2> DEFINE n == [l EXCEPT !.stage = "verify", !.rows = Rows(l.with)]
  <2>1. Rows(l.with) \subseteq Message
    BY DEF Rows, Conversation, TypeOK
  <2>2. n \in Load /\ n.with = l.with /\ n.stage = "verify"
    BY <1>1, <2>1 DEF Load
  <2>3. loads' = (loads \ {l}) \cup {n}
    BY <1>6 DEF LoadAnswer
  <2> HIDE DEF n
  <2> QED BY <1>3, <1>6, <2>2, <2>3 DEF LoadAnswer, history, LoadBelow
<1>7. CASE LoadVerified(l)
  <2>1. CASE loads' = loads \ {l} /\ UNCHANGED seen
    BY <1>4, <1>7, <2>1 DEF LoadVerified
  <2>2. CASE l.rows = {} /\ Display(l)
    BY <1>5, <1>7, <2>2 DEF LoadVerified
  <2>3. CASE /\ UNCHANGED seen
             /\ loads' = (loads \ {l}) \cup
                           {[l EXCEPT !.stage = "compare", !.value = clocks[l.with]]}
    <3> DEFINE n == [l EXCEPT !.stage = "compare", !.value = clocks[l.with]]
    <3>1. n \in Load /\ n.with = l.with /\ n.stage = "compare" /\ n.value = clocks[l.with]
      BY <1>1 DEF Load
    <3>2. loads' = (loads \ {l}) \cup {n}
      BY <2>3
    <3> HIDE DEF n
    <3> QED BY <1>1, <1>3, <1>7, <2>3, <3>1, <3>2 DEF LoadVerified, LoadBelow
  <2> QED BY <1>7, <2>1, <2>2, <2>3 DEF LoadVerified, Fail
<1>8. CASE LoadCompare(l)
  <2>1. l.rows # {} /\ l.value <= clocks[l.with]
    BY <1>1, <1>8 DEF LoadCompare, Signing, LoadBelow
  <2>2. CASE Fail(l)
    BY <1>4, <1>8, <2>2 DEF LoadCompare, Fail
  <2>3. CASE Top(l.rows) < l.value /\ Display(l)
    <3>1. \A r \in l.rows : r.ctr \in Nat /\ r.ctr <= Top(l.rows)
      BY <1>1, <2>1, TopIsLargest, WebAssumption DEF Message
    <3>2. Top(l.rows) \in Nat
      BY <1>1, <2>1, TopIsLargest, WebAssumption
    <3>3. \A r \in l.rows : r.ctr <= clocks[l.with]
      BY <1>1, <2>1, <2>3, <3>1, <3>2
    <3> QED BY <1>5, <1>8, <2>3, <3>3 DEF LoadCompare
  <2>4. CASE /\ overlapped' = (overlapped \/ Ticking(l.with)) /\ UNCHANGED <<page, seen>>
             /\ loads' = (loads \ {l}) \cup
                           {[l EXCEPT !.stage = "tick", !.value = clocks[l.with]]}
    <3> DEFINE n == [l EXCEPT !.stage = "tick", !.value = clocks[l.with]]
    <3>1. n \in Load /\ n.with = l.with /\ n.stage = "tick" /\ n.value = clocks[l.with]
      BY <1>1 DEF Load
    <3>2. loads' = (loads \ {l}) \cup {n} /\ ~Ticking(l.with)
      BY <2>4
    <3> HIDE DEF n
    <3> QED BY <1>1, <1>3, <1>8, <2>4, <3>1, <3>2 DEF LoadCompare, LoadBelow
  <2> QED BY <1>8, <2>2, <2>3, <2>4 DEF LoadCompare
<1>9. CASE LoadTick(l)
  <2> DEFINE next == NextTick(l.value, Top(l.rows))
  <2>1. CASE Fail(l) /\ UNCHANGED clocks
    BY <1>4, <1>9, <2>1 DEF LoadTick, Fail
  <2>2. CASE /\ Fits(next) /\ UNCHANGED <<page, seen>>
             /\ clocks' = [clocks EXCEPT ![l.with] = next]
             /\ loads' = (loads \ {l}) \cup {[l EXCEPT !.stage = "display"]}
    <3> DEFINE n == [l EXCEPT !.stage = "display"]
    <3>1. n \in Load /\ n.with = l.with /\ n.stage = "display" /\ n.rows = l.rows
      BY <1>1 DEF Load
    <3>2. loads' = (loads \ {l}) \cup {n} /\ l.stage = "tick" /\ l.value = clocks[l.with]
      BY <1>1, <1>9, <2>2 DEF LoadTick, LoadBelow
    <3>3. Top(l.rows) \in Nat /\ \A r \in l.rows : r.ctr \in Nat /\ r.ctr <= Top(l.rows)
      BY <1>1, <3>2, TopIsLargest, WebAssumption DEF Signing, Message
    <3>4. next \in 0..MaxClock /\ next > l.value /\ next > Top(l.rows)
      BY <1>1, <2>2, <3>3, NextTickAbove, WebAssumption DEF Fits
    <3> HIDE DEF n, next
    <3>5. Rises(l.with) /\ clocks'[l.with] = next
      BY <1>1, <2>2, <3>2, <3>4, WebAssumption DEF Rises, TypeOK
    <3>6. \A r \in l.rows : r.ctr <= next
      BY <3>3, <3>4
    <3>7. LoadBelow(n, clocks'[n.with])
      BY <3>1, <3>5, <3>6 DEF LoadBelow
    <3>8. Ticks'
      <4>1. loads' \subseteq (loads \ {l}) \cup {n} /\ sends' = sends /\ n.stage # "tick"
        BY <1>9, <3>1, <3>2 DEF LoadTick
      <4> QED BY <1>1, <3>1, <3>2, <3>5, <3>7, <4>1, TicksLoad DEF Ordered
    <3> QED BY <1>1, <1>9, <2>2, <3>5, <3>8, KnownRises DEF LoadTick, Ordered
  <2> QED BY <1>9, <2>1, <2>2 DEF LoadTick
<1>10. CASE LoadDisplay(l)
  BY <1>1, <1>5, <1>10 DEF LoadDisplay, LoadBelow
<1>11. CASE LoadError(l)
  BY <1>4, <1>11 DEF LoadError, Fail
<1> QED BY <1>6, <1>7, <1>8, <1>9, <1>10, <1>11 DEF LoadStep

\* A step of a send: the counter it signs is above all its user knew.
LEMMA SendStepOrder ==
    ASSUME TypeOK, Signing, Ordered, NEW s \in sends, SendStep(s), ~overlapped'
    PROVE  Ordered'
<1>1. /\ s \in Sending /\ s.to \in Peers /\ s.value \in Nat /\ s.past \subseteq 1..MaxClock
      /\ clocks[s.to] \in 0..MaxClock /\ clocks[s.to] \in Nat
      /\ SendBelow(s, clocks[s.to])
  BY WebAssumption DEF TypeOK, Sending, Ordered, Ticks, SendsBelow
<1>2. clocks' = clocks => Rises(s.to)
  BY <1>1, WebAssumption DEF Rises, TypeOK
<1>3. ASSUME NEW n \in Sending, n.to = s.to, sends' \subseteq (sends \ {s}) \cup {n},
             SendBelow(n, clocks[s.to]), n.stage = "tick" => ~Ticking(s.to),
             UNCHANGED <<clocks, loads>>
      PROVE  Ticks'
  BY <1>1, <1>2, <1>3, TicksSend DEF Ordered
<1>4. ASSUME sends' = sends \ {s}, UNCHANGED <<clocks, loads, seen, sent>>
      PROVE  Ordered'
  BY <1>4, TicksShrink, KnownStays DEF Ordered
<1>5. CASE SendRead(s)
  <2>1. CASE phase = "out"
    BY <1>4, <1>5, <2>1 DEF SendRead
  <2>2. CASE phase # "out"
    <3> DEFINE n == [s EXCEPT !.stage = "tick", !.value = clocks[s.to]]
    <3>1. /\ n \in Sending /\ n.to = s.to /\ n.stage = "tick"
          /\ n.value = clocks[s.to] /\ n.past = s.past
      BY <1>1 DEF Sending
    <3>2. sends' \subseteq (sends \ {s}) \cup {n} /\ ~Ticking(s.to) /\ s.stage = "key"
      BY <1>5, <2>2 DEF SendRead
    <3> HIDE DEF n
    <3>3. SendBelow(n, clocks[s.to])
      BY <1>1, <3>1, <3>2 DEF SendBelow
    <3>4. Ticks'
      BY <1>3, <1>5, <3>1, <3>2, <3>3 DEF SendRead
    <3> QED BY <1>5, <3>4, KnownStays DEF SendRead, Ordered
  <2> QED BY <2>1, <2>2
<1>6. CASE SendTick(s)
  <2> DEFINE next == NextTick(s.value, 0)
             n == [s EXCEPT !.stage = "sign", !.value = next]
  <2>1. CASE sends' = sends \ {s} /\ UNCHANGED clocks
    BY <1>4, <1>6, <2>1 DEF SendTick, history
  <2>2. CASE /\ Fits(next) /\ clocks' = [clocks EXCEPT ![s.to] = next]
             /\ sends' = (sends \ {s}) \cup {n}
    <3>1. next \in 0..MaxClock /\ next > s.value
      BY <1>1, <2>2, NextTickAbove, WebAssumption DEF Fits
    <3> HIDE DEF next
    <3>2. /\ n \in Sending /\ n.to = s.to /\ n.stage = "sign"
          /\ n.value = next /\ n.past = s.past
      BY <1>1, <3>1 DEF Sending
    <3>3. s.stage = "tick" /\ s.value = clocks[s.to] /\ \A k \in s.past : k <= clocks[s.to]
      BY <1>1, <1>6 DEF SendTick, SendBelow
    <3>4. \A k \in s.past : k < next
      BY <1>1, <3>1, <3>3, WebAssumption
    <3>5. Rises(s.to) /\ clocks'[s.to] = next
      BY <1>1, <2>2, <3>1, <3>3, WebAssumption DEF Rises, TypeOK
    <3> HIDE DEF n
    <3>6. SendBelow(n, clocks'[n.to])
      BY <3>1, <3>2, <3>4, <3>5, WebAssumption DEF SendBelow
    <3>7. Ticks'
      <4>1. sends' \subseteq (sends \ {s}) \cup {n} /\ loads' = loads /\ n.stage # "tick"
        BY <1>6, <2>2, <3>2 DEF SendTick
      <4> QED BY <1>1, <3>2, <3>3, <3>5, <3>6, <4>1, TicksSend DEF Ordered
    <3> QED BY <1>1, <1>6, <3>5, <3>7, KnownRises DEF SendTick, history, Ordered
  <2> QED BY <1>6, <2>1, <2>2 DEF SendTick
<1>7. CASE SendSign(s)
  <2>1. CASE phase = "out"
    BY <1>4, <1>7, <2>1 DEF SendSign
  <2>2. CASE phase # "out"
    <3> DEFINE n == [s EXCEPT !.stage = "post"]
               m == [to |-> s.to, ctr |-> s.value, slot |-> s.slot, past |-> s.past]
    <3>1. n \in Sending /\ n.to = s.to /\ n.stage = "post"
      BY <1>1 DEF Sending
    <3>2. sends' \subseteq (sends \ {s}) \cup {n} /\ sent' = sent \cup {m}
      BY <1>7, <2>2 DEF SendSign
    <3>3. m.to = s.to /\ m.ctr = s.value /\ m.past = s.past
      OBVIOUS
    <3>4. s.value <= clocks[s.to] /\ \A k \in s.past : k < s.value
      BY <1>1, <1>7 DEF SendSign, SendBelow
    <3> HIDE DEF n, m
    <3>5. Ticks'
      BY <1>3, <1>7, <3>1, <3>2 DEF SendSign, SendBelow
    <3>6. KnownBelow'
      BY <1>7, <3>2, <3>3, <3>4 DEF SendSign, Ordered, KnownBelow
    <3>7. CausalOrder'
      BY <3>2, <3>3, <3>4 DEF Ordered, CausalOrder
    <3> QED BY <3>5, <3>6, <3>7 DEF Ordered
  <2> QED BY <2>1, <2>2
<1>8. CASE SendPost(s)
  <2> DEFINE n == [s EXCEPT !.stage = "reply"]
  <2>1. n \in Sending /\ n.to = s.to /\ n.stage = "reply"
    BY <1>1 DEF Sending
  <2>2. sends' \subseteq (sends \ {s}) \cup {n}
    BY <1>8 DEF SendPost
  <2> HIDE DEF n
  <2>3. Ticks'
    BY <1>3, <1>8, <2>1, <2>2 DEF SendPost, SendBelow
  <2> QED BY <1>8, <2>3, KnownStays DEF SendPost, history, Ordered
<1>9. CASE SendReply(s)
  <2>1. CASE UNCHANGED <<page, loads>>
    BY <1>4, <1>9, <2>1 DEF SendReply, history
  <2>2. CASE Open(s.to)
    <3>1. sends' \subseteq sends /\ UNCHANGED <<clocks, seen, sent>>
      BY <1>9 DEF SendReply, history
    <3> QED BY <1>1, <2>2, <3>1, TicksOpen, KnownStays DEF Ordered
  <2> QED BY <1>9, <2>1, <2>2 DEF SendReply
<1> QED BY <1>5, <1>6, <1>7, <1>8, <1>9 DEF SendStep

LEMMA OrderKept ==
    ASSUME TypeOK, Signing, ~overlapped => Ordered, [Next]_vars
    PROVE  ~overlapped' => Ordered'
<1> SUFFICES ASSUME ~overlapped' PROVE Ordered'
  OBVIOUS
<1>1. ~overlapped => Ordered
  OBVIOUS
<1>2. CASE UNCHANGED vars
  BY <1>1, <1>2, TicksShrink, KnownStays DEF vars, page, history, Ordered
<1>3. CASE Login \/ LogoutBegin
  <2>1. Supersede /\ UNCHANGED <<clocks, seen, sent, overlapped>>
    BY <1>3 DEF Login, LogoutBegin, history
  <2> QED BY <1>1, <2>1, TicksSuperseded, KnownStays DEF Ordered
<1>4. CASE LogoutEnd
  BY <1>1, <1>4, TicksShrink, KnownStays DEF LogoutEnd, history, Ordered
<1>5. ASSUME NEW p \in Peers, Open(p), UNCHANGED <<clocks, sends, history>>
      PROVE  Ordered'
  BY <1>1, <1>5, TicksOpen, KnownStays DEF history, Ordered
<1>6. ASSUME NEW p \in Peers, Choose(p) PROVE Ordered'
  BY <1>5, <1>6 DEF Choose
<1>7. CASE Poll
  BY <1>5, <1>7 DEF Poll, PollDue, TypeOK
<1>8. ASSUME NEW p \in Peers, PeerWrites(p) PROVE Ordered'
  BY <1>1, <1>8, TicksShrink, KnownStays DEF PeerWrites, history, Ordered
<1>9. CASE Send
  <2>1. PICK k \in SendSlots :
          sends' = sends \cup {[slot |-> k, to |-> peer, current |-> TRUE, stage |-> "key",
                                value |-> 0, past |-> Known(peer)]}
    BY <1>9 DEF Send
  <2> DEFINE n == [slot |-> k, to |-> peer, current |-> TRUE, stage |-> "key",
                   value |-> 0, past |-> Known(peer)]
  <2>2. n.stage = "key" /\ n.to = peer /\ n.past = Known(peer) /\ sends' = sends \cup {n}
    BY <2>1
  <2> HIDE DEF n
  <2>3. UNCHANGED <<clocks, loads, seen, sent, overlapped>> /\ peer \in Peers
    BY <1>9 DEF Send, history, TypeOK
  <2>4. \A c \in Known(peer) : c <= clocks[peer]
    BY <1>1, <2>3 DEF Ordered, KnownBelow, Known
  <2>5. SendBelow(n, clocks[n.to])
    BY <2>2, <2>4 DEF SendBelow
  <2>6. OneTick'
    BY <1>1, <2>2, <2>3 DEF Ordered, Ticks, OneTick
  <2>7. LoadsBelow' /\ SendsBelow'
    BY <1>1, <2>2, <2>3, <2>5 DEF Ordered, Ticks, LoadsBelow, SendsBelow, LoadBelow, SendBelow
  <2> QED BY <1>1, <2>3, <2>6, <2>7, KnownStays DEF Ordered, Ticks
<1>10. ASSUME NEW l \in loads, LoadStep(l) \/ LoadError(l) PROVE Ordered'
  <2>1. ~overlapped
    BY <1>10 DEF LoadStep, LoadError, LoadAnswer, LoadVerified, LoadCompare, LoadTick,
                 LoadDisplay, history
  <2> QED BY <1>1, <1>10, <2>1, LoadStepOrder
<1>11. ASSUME NEW s \in sends, SendStep(s) PROVE Ordered'
  <2>1. ~overlapped
    BY <1>11 DEF SendStep, SendRead, SendTick, SendSign, SendPost, SendReply, history
  <2> QED BY <1>1, <1>11, <2>1, SendStepOrder
<1> QED
  BY <1>2, <1>3, <1>4, <1>6, <1>7, <1>8, <1>9, <1>10, <1>11 DEF Next

\* As long as no tick of a conversation begins inside another, what is signed carries a
\* larger counter than everything its user had seen or signed in the conversation: the
\* two transactions of useClient.js's tick are all that can break it.
THEOREM OrderHolds == Spec => []OrderWithoutOverlap
<1>1. Init => TypeOK /\ Signing /\ (~overlapped => Ordered)
  <2> SUFFICES ASSUME Init PROVE TypeOK /\ Signing /\ Ordered
    OBVIOUS
  <2>1. clocks \in [Peers -> 0..MaxClock] /\ seen \in [Peers -> SUBSET (1..MaxClock)]
    BY WebAssumption DEF Init
  <2>2. /\ loads = {} /\ sends = {} /\ table = {} /\ sent = {} /\ screen = {}
        /\ \A p \in Peers : seen[p] = {}
    BY DEF Init
  <2>3. TypeOK /\ Signing
    BY <2>1, <2>2, FS_EmptySet DEF Init, TypeOK, Signing
  <2>4. Ordered
    BY <2>2 DEF Ordered, Ticks, OneTick, LoadsBelow, SendsBelow, KnownBelow, CausalOrder
  <2> QED BY <2>3, <2>4
<1>2. (~overlapped => Ordered) => OrderWithoutOverlap
  BY DEF Ordered, OrderWithoutOverlap
<1> QED BY <1>1, <1>2, TypesKept, OrderKept, PTL DEF Spec

=============================================================================
