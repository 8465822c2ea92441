---------------------------- MODULE ChallengeProofs ----------------------------
(* Theorems about Challenge, for every value of its constants. *)
EXTENDS Challenge, FunctionTheorems, FiniteSetTheorems, TLAPS

\* Ids are unique, and what depends on a registered key has one.
Tables ==
    /\ \A c, d \in challenges : c.id = d.id => c = d
    /\ \A c \in challenges : pk[c.user] # NoKey
    /\ \A h \in asks : h.stage # "user" => pk[h.user] # NoKey

\* What an answer being checked has found out stays true until it replies, and an answer
\* that has consumed its challenge is alone with it.
Checked ==
    /\ \A h \in answers : h.stage # "live" =>
            \E c \in challenges : c.id = h.id /\ c.user = h.user
    /\ \A h \in answers : h.stage \in {"update", "reply"} =>
            h.user \in Users /\ pk[h.user] = h.key /\ h.key # NoKey
    /\ \A h \in answers : h.stage = "reply" =>
            /\ \E c \in challenges : c.id = h.id /\ c.user = h.user /\ c.used
            /\ \A i \in DOMAIN tokens : tokens[i].id # h.id
    /\ \A g, h \in answers : g.stage = "reply" /\ h.stage = "reply" /\ g.id = h.id => g = h

ChallengeInv ==
    /\ TypeOK
    /\ Tables
    /\ Checked
    /\ TokenProven
    /\ OneTokenPerChallenge

\* The tokens returned so far, and one more.
LEMMA TokenTypes ==
    ASSUME TypeOK
    PROVE  /\ DOMAIN tokens = 1..Len(tokens) /\ Len(tokens) \in Nat
           /\ \A i \in DOMAIN tokens : tokens[i] \in Token
BY DEF TypeOK

LEMMA TokenAppend ==
    ASSUME TypeOK, NEW t \in Token, tokens' = Append(tokens, t)
    PROVE  /\ tokens' \in Seq(Token)
           /\ DOMAIN tokens' = DOMAIN tokens \cup {Len(tokens) + 1}
           /\ Len(tokens) + 1 \notin DOMAIN tokens
           /\ \A i \in DOMAIN tokens : tokens'[i] = tokens[i]
           /\ tokens'[Len(tokens) + 1] = t
BY DEF TypeOK

-----------------------------------------------------------------------------
(* What get-challenge, register and the clock do *)

\* A registration keeps every key that is registered already.
LEMMA RegisterKeeps ==
    ASSUME ChallengeInv, NEW u \in Users, NEW k \in Keys, Register(u, k)
    PROVE  ChallengeInv'
<1>1. \A v \in Users : pk[v] # NoKey => pk'[v] = pk[v]
  BY DEF Register, ChallengeInv, TypeOK
<1>2. TypeOK'
  BY DEF Register, ChallengeInv, TypeOK
<1>3. /\ \A c \in challenges : c.user \in Users
      /\ \A h \in asks : h.user \in Users
      /\ \A i \in DOMAIN tokens : tokens[i].user \in Users /\ tokens[i].key # NoKey
  <2>1. \A t \in Token : t.user \in Users /\ t.key # NoKey
    BY ChallengeAssumption DEF Token
  <2> QED BY <2>1, TokenTypes DEF ChallengeInv, TypeOK, Row, AskHandler
<1>4. Tables'
  BY <1>1, <1>3 DEF Register, ChallengeInv, Tables
<1>5. Checked'
  BY <1>1, <1>3 DEF Register, ChallengeInv, Checked
<1>6. TokenProven'
  BY <1>1, <1>3 DEF Register, ChallengeInv, TokenProven
<1>7. OneTokenPerChallenge'
  BY DEF Register, ChallengeInv, OneTokenPerChallenge
<1> QED BY <1>2, <1>4, <1>5, <1>6, <1>7 DEF ChallengeInv

\* Where the tables, the answers and the tokens stay, so does what is known of them.
LEMMA OnlyAsks ==
    ASSUME ChallengeInv, TypeOK', UNCHANGED <<pk, challenges, answers, tokens>>,
           \A h \in asks' : h.stage # "user" => pk[h.user] # NoKey
    PROVE  ChallengeInv'
<1>1. Tables'
  BY DEF ChallengeInv, Tables
<1>2. Checked'
  BY DEF ChallengeInv, Checked
<1>3. TokenProven' /\ OneTokenPerChallenge'
  BY DEF ChallengeInv, TokenProven, OneTokenPerChallenge
<1> QED BY <1>1, <1>2, <1>3 DEF ChallengeInv

\* So it does when a challenge with a new id is stored.
LEMMA InsertKeeps ==
    ASSUME ChallengeInv, NEW h \in asks, AskInsert(h)
    PROVE  ChallengeInv'
<1>1. h \in AskHandler
  BY DEF ChallengeInv, TypeOK
<1>2. PICK id \in Ids :
        /\ \A c \in challenges : c.id # id
        /\ challenges' = challenges \cup
             {[id |-> id, user |-> h.user, expires |-> now + Lifetime, used |-> FALSE]}
        /\ handed' \in {handed, handed \cup {id}}
  BY DEF AskInsert
<1> DEFINE n == [id |-> id, user |-> h.user, expires |-> now + Lifetime, used |-> FALSE]
<1>3. n \in Row
  BY <1>1, ChallengeAssumption DEF AskHandler, Row, ChallengeInv, TypeOK
<1>4. n.id = id /\ n.user = h.user
  OBVIOUS
<1>5. challenges' = challenges \cup {n}
  BY <1>2
<1> HIDE DEF n
<1>6. TypeOK'
  BY <1>2, <1>3, <1>4, <1>5 DEF AskInsert, ChallengeInv, TypeOK
<1>7. pk[h.user] # NoKey
  BY DEF AskInsert, ChallengeInv, Tables
<1>8. Tables'
  BY <1>2, <1>4, <1>5, <1>7 DEF AskInsert, ChallengeInv, Tables
<1>9. Checked'
  BY <1>5 DEF AskInsert, ChallengeInv, Checked
<1>10. TokenProven'
  BY <1>5 DEF AskInsert, ChallengeInv, TokenProven
<1>11. OneTokenPerChallenge'
  BY DEF AskInsert, ChallengeInv, OneTokenPerChallenge
<1> QED BY <1>6, <1>8, <1>9, <1>10, <1>11 DEF ChallengeInv

LEMMA AskStepKeeps ==
    ASSUME ChallengeInv, NEW h \in asks, AskStep(h)
    PROVE  ChallengeInv'
<1>1. h \in AskHandler
  BY DEF ChallengeInv, TypeOK
<1>2. CASE AskUser(h)
  <2>1. [h EXCEPT !.stage = "live"] \in AskHandler
    BY <1>1 DEF AskHandler
  <2>2. asks' \subseteq (asks \ {h}) \cup {[h EXCEPT !.stage = "live"]}
    BY <1>2 DEF AskUser
  <2>3. TypeOK'
    BY <1>2, <2>1, <2>2 DEF AskUser, ChallengeInv, TypeOK
  <2>4. \A g \in asks' : g.stage # "user" => pk[g.user] # NoKey
    BY <1>1, <1>2, <2>1 DEF AskUser, AskHandler, ChallengeInv, Tables
  <2> QED BY <1>2, <2>3, <2>4, OnlyAsks DEF AskUser
<1>3. CASE AskLive(h)
  <2>1. [h EXCEPT !.stage = "insert"] \in AskHandler
    BY <1>1 DEF AskHandler
  <2>2. asks' \subseteq (asks \ {h}) \cup {[h EXCEPT !.stage = "insert"]}
    BY <1>3 DEF AskLive
  <2>3. handed' \subseteq {c.id : c \in challenges}
    BY <1>3 DEF AskLive, Offered, ChallengeInv, TypeOK
  <2>4. TypeOK'
    BY <1>3, <2>1, <2>2, <2>3 DEF AskLive, ChallengeInv, TypeOK
  <2>5. pk[h.user] # NoKey
    BY <1>3 DEF AskLive, ChallengeInv, Tables
  <2>6. \A g \in asks' : g.stage # "user" => pk[g.user] # NoKey
    BY <1>1, <2>1, <2>2, <2>5 DEF AskHandler, ChallengeInv, Tables
  <2> QED BY <1>3, <2>4, <2>6, OnlyAsks DEF AskLive
<1>4. CASE AskInsert(h)
  BY <1>4, InsertKeeps
<1>5. CASE AskFail(h)
  <2>1. TypeOK'
    BY <1>5 DEF AskFail, ChallengeInv, TypeOK
  <2> QED BY <1>5, <2>1, OnlyAsks DEF AskFail, ChallengeInv, Tables
<1> QED BY <1>2, <1>3, <1>4, <1>5 DEF AskStep

-----------------------------------------------------------------------------
(* What validate-challenge does *)

\* A new answer, or one that ends, changes nothing known of the others.
LEMMA OnlyAnswers ==
    ASSUME ChallengeInv, TypeOK', UNCHANGED <<pk, challenges, asks, tokens>>,
           \A h \in answers' : h \in answers \/ h.stage = "live"
    PROVE  ChallengeInv'
<1>1. Tables' /\ TokenProven' /\ OneTokenPerChallenge'
  BY DEF ChallengeInv, Tables, TokenProven, OneTokenPerChallenge
<1>2. Checked'
  BY DEF ChallengeInv, Checked
<1> QED BY <1>1, <1>2 DEF ChallengeInv

LEMMA AnswerKeeps ==
    ASSUME ChallengeInv, NEW id \in handed, NEW k \in Keys \cup {NoKey},
           NEW s \in AnswerSlots, Answer(id, k, s)
    PROVE  ChallengeInv'
<1> DEFINE h == [slot |-> s, id |-> id, key |-> k, user |-> "unknown", stage |-> "live"]
<1>1. id \in Ids
  BY DEF ChallengeInv, TypeOK, Row
<1>2. h \in AnswerHandler
  BY <1>1 DEF AnswerHandler
<1>3. h.stage = "live" /\ answers' = answers \cup {h}
  BY DEF Answer
<1> HIDE DEF h
<1>4. TypeOK'
  BY <1>2, <1>3 DEF Answer, ChallengeInv, TypeOK
<1> QED BY <1>3, <1>4, OnlyAnswers DEF Answer

\* The statement that consumes the challenge.
LEMMA UpdateKeeps ==
    ASSUME ChallengeInv, NEW h \in answers, h.stage = "update",
           NEW c \in challenges, c.id = h.id, Consumes(c),
           challenges' = (challenges \ {c}) \cup {[c EXCEPT !.used = TRUE]},
           answers' = (answers \ {h}) \cup {[h EXCEPT !.stage = "reply"]},
           UNCHANGED <<now, pk, asks, handed, tokens>>
    PROVE  ChallengeInv'
<1> DEFINE d == [c EXCEPT !.used = TRUE]
           g == [h EXCEPT !.stage = "reply"]
<1>1. c \in Row /\ h \in AnswerHandler
  BY DEF ChallengeInv, TypeOK
<1>2. d \in Row /\ d.id = c.id /\ d.user = c.user /\ d.used
  BY <1>1 DEF Row
<1>3. /\ g \in AnswerHandler
      /\ g.id = h.id /\ g.user = h.user /\ g.key = h.key /\ g.stage = "reply"
  BY <1>1 DEF AnswerHandler
<1>4. challenges' = (challenges \ {c}) \cup {d} /\ answers' = (answers \ {h}) \cup {g}
  OBVIOUS
<1> HIDE DEF d, g
<1>5. \A e \in challenges : e.id = h.id => e = c
  BY DEF ChallengeInv, Tables
<1>6. c.user = h.user /\ ~c.used
  BY <1>5 DEF ChallengeInv, Checked, Consumes
<1>7. \A e \in challenges : \E f \in challenges' :
        f.id = e.id /\ f.user = e.user /\ (e.used => f.used)
  BY <1>2, <1>4
<1>8. TypeOK'
  <2>1. handed' \subseteq {e.id : e \in challenges'}
    BY <1>7 DEF ChallengeInv, TypeOK
  <2> QED BY <1>2, <1>3, <1>4, <2>1 DEF ChallengeInv, TypeOK
<1>9. Tables'
  BY <1>2, <1>4, <1>5 DEF ChallengeInv, Tables
<1>10. TokenProven'
  BY <1>7 DEF ChallengeInv, TokenProven
<1>11. Checked'
  <2>1. \A i \in DOMAIN tokens : tokens[i].id # h.id
    BY <1>5, <1>6 DEF ChallengeInv, TokenProven
  <2>2. \A f \in answers : f.stage = "reply" => f.id # h.id
    BY <1>5, <1>6 DEF ChallengeInv, Checked
  <2>3. \E e \in challenges' : e.id = h.id /\ e.user = h.user /\ e.used
    BY <1>2, <1>4, <1>6
  <2>4. \A f \in answers' : f.stage # "live" =>
          \E e \in challenges' : e.id = f.id /\ e.user = f.user
    BY <1>3, <1>4, <1>7, <2>3 DEF ChallengeInv, Checked
  <2>5. \A f \in answers' : f.stage \in {"update", "reply"} =>
          f.user \in Users /\ pk'[f.user] = f.key /\ f.key # NoKey
    BY <1>3, <1>4 DEF ChallengeInv, Checked
  <2>6. \A f \in answers' : f.stage = "reply" =>
          /\ \E e \in challenges' : e.id = f.id /\ e.user = f.user /\ e.used
          /\ \A i \in DOMAIN tokens' : tokens'[i].id # f.id
    BY <1>3, <1>4, <1>7, <2>1, <2>3 DEF ChallengeInv, Checked
  <2>7. \A e, f \in answers' :
          e.stage = "reply" /\ f.stage = "reply" /\ e.id = f.id => e = f
    BY <1>3, <1>4, <2>2 DEF ChallengeInv, Checked
  <2> QED BY <2>4, <2>5, <2>6, <2>7 DEF Checked
<1>12. OneTokenPerChallenge'
  BY DEF ChallengeInv, OneTokenPerChallenge
<1> QED BY <1>8, <1>9, <1>10, <1>11, <1>12 DEF ChallengeInv

\* The statement that finds out less: the user's row, the user's key.
LEMMA CheckKeeps ==
    ASSUME ChallengeInv, NEW h \in answers, AnswerLive(h) \/ AnswerKey(h)
    PROVE  ChallengeInv'
<1>1. h \in AnswerHandler
  BY DEF ChallengeInv, TypeOK
<1>2. UNCHANGED <<now, pk, challenges, asks, handed, tokens>>
  BY DEF AnswerLive, AnswerKey
<1>3. CASE answers' = answers \ {h}
  <2>1. TypeOK'
    BY <1>2, <1>3 DEF ChallengeInv, TypeOK
  <2> QED BY <1>2, <1>3, <2>1, OnlyAnswers
<1>4. ASSUME NEW g \in AnswerHandler, answers' = (answers \ {h}) \cup {g},
             g.stage \in {"key", "update"},
             \E c \in challenges : c.id = g.id /\ c.user = g.user,
             g.stage = "update" => g.user \in Users /\ pk[g.user] = g.key /\ g.key # NoKey
      PROVE  ChallengeInv'
  <2>1. TypeOK'
    BY <1>2, <1>4 DEF ChallengeInv, TypeOK
  <2>2. Tables' /\ TokenProven' /\ OneTokenPerChallenge'
    BY <1>2 DEF ChallengeInv, Tables, TokenProven, OneTokenPerChallenge
  <2>3. Checked'
    BY <1>2, <1>4 DEF ChallengeInv, Checked
  <2> QED BY <2>1, <2>2, <2>3 DEF ChallengeInv
<1>5. CASE AnswerLive(h)
  <2>1. ASSUME NEW c \in challenges, c.id = h.id,
               answers' = (answers \ {h}) \cup {[h EXCEPT !.user = c.user, !.stage = "key"]}
        PROVE  ChallengeInv'
    <3> DEFINE g == [h EXCEPT !.user = c.user, !.stage = "key"]
    <3>1. c.user \in Users
      BY DEF ChallengeInv, TypeOK, Row
    <3>2. g \in AnswerHandler /\ g.stage = "key" /\ g.id = h.id /\ g.user = c.user
      BY <1>1, <3>1 DEF AnswerHandler
    <3>3. answers' = (answers \ {h}) \cup {g}
      BY <2>1
    <3> HIDE DEF g
    <3> QED BY <1>4, <2>1, <3>2, <3>3
  <2> QED BY <1>3, <1>5, <2>1 DEF AnswerLive
<1>6. CASE AnswerKey(h) /\ Verifies(h)
  <2> DEFINE g == [h EXCEPT !.stage = "update"]
  <2>1. /\ g \in AnswerHandler
        /\ g.stage = "update" /\ g.id = h.id /\ g.user = h.user /\ g.key = h.key
    BY <1>1 DEF AnswerHandler
  <2>2. answers' = (answers \ {h}) \cup {g}
    BY <1>6 DEF AnswerKey
  <2>3. \E c \in challenges : c.id = h.id /\ c.user = h.user
    BY <1>6 DEF AnswerKey, ChallengeInv, Checked
  <2>4. h.user \in Users /\ pk[h.user] # NoKey
    BY <2>3 DEF ChallengeInv, Tables, TypeOK, Row
  <2>5. pk[h.user] = h.key
    BY <1>6 DEF Verifies
  <2> HIDE DEF g
  <2> QED BY <1>4, <2>1, <2>2, <2>3, <2>4, <2>5
<1>7. CASE AnswerKey(h) /\ ~Verifies(h)
  BY <1>3, <1>7 DEF AnswerKey
<1> QED BY <1>5, <1>6, <1>7

LEMMA ReplyKeeps ==
    ASSUME ChallengeInv, NEW h \in answers, AnswerReply(h)
    PROVE  ChallengeInv'
<1> DEFINE t == [id |-> h.id, user |-> h.user, key |-> h.key]
<1>1. /\ h \in AnswerHandler
      /\ h.user \in Users /\ pk[h.user] = h.key /\ h.key # NoKey
      /\ \E c \in challenges : c.id = h.id /\ c.user = h.user /\ c.used
      /\ \A i \in DOMAIN tokens : tokens[i].id # h.id
  BY DEF AnswerReply, ChallengeInv, TypeOK, Checked
<1>2. t \in Token /\ t.id = h.id /\ t.user = h.user /\ t.key = h.key
  BY <1>1 DEF AnswerHandler, Token
<1>3. tokens' = Append(tokens, t)
  BY DEF AnswerReply
<1> HIDE DEF t
<1>4. /\ tokens' \in Seq(Token)
      /\ DOMAIN tokens' = DOMAIN tokens \cup {Len(tokens) + 1}
      /\ Len(tokens) + 1 \notin DOMAIN tokens
      /\ \A i \in DOMAIN tokens : tokens'[i] = tokens[i]
      /\ tokens'[Len(tokens) + 1] = t
  BY <1>2, <1>3, TokenAppend DEF ChallengeInv
<1>5. TypeOK'
  BY <1>4 DEF AnswerReply, ChallengeInv, TypeOK
<1>6. Tables'
  BY DEF AnswerReply, ChallengeInv, Tables
<1>7. TokenProven'
  BY <1>1, <1>2, <1>4 DEF AnswerReply, ChallengeInv, TokenProven
<1>8. OneTokenPerChallenge'
  BY <1>1, <1>2, <1>4 DEF ChallengeInv, OneTokenPerChallenge
<1>9. Checked'
  <2>1. \A g \in answers' : g \in answers /\ (g.stage = "reply" => g.id # h.id)
    BY DEF AnswerReply, ChallengeInv, Checked
  <2>2. \A g \in answers' : g.stage = "reply" => \A i \in DOMAIN tokens' : tokens'[i].id # g.id
    BY <1>2, <1>4, <2>1 DEF ChallengeInv, Checked
  <2> QED BY <2>1, <2>2 DEF AnswerReply, ChallengeInv, Checked
<1> QED BY <1>5, <1>6, <1>7, <1>8, <1>9 DEF ChallengeInv

LEMMA AnswerStepKeeps ==
    ASSUME ChallengeInv, NEW h \in answers, AnswerStep(h)
    PROVE  ChallengeInv'
<1>1. ASSUME answers' = answers \ {h}, UNCHANGED <<now, pk, challenges, asks, handed, tokens>>
      PROVE  ChallengeInv'
  <2>1. TypeOK'
    BY <1>1 DEF ChallengeInv, TypeOK
  <2> QED BY <1>1, <2>1, OnlyAnswers
<1>2. CASE AnswerUpdate(h)
  BY <1>1, <1>2, UpdateKeeps DEF AnswerUpdate
<1>3. CASE AnswerFail(h)
  BY <1>1, <1>3 DEF AnswerFail
<1> QED BY <1>2, <1>3, CheckKeeps, ReplyKeeps DEF AnswerStep

-----------------------------------------------------------------------------
(* The theorems *)

LEMMA ChallengeInvariant == Spec => []ChallengeInv
<1>1. Init => ChallengeInv
  BY ChallengeAssumption
  DEF Init, ChallengeInv, TypeOK, Tables, Checked, TokenProven, OneTokenPerChallenge
<1>2. ChallengeInv /\ [Next]_vars => ChallengeInv'
  <2> SUFFICES ASSUME ChallengeInv, [Next]_vars PROVE ChallengeInv'
    OBVIOUS
  <2>1. CASE Tick
    <3>1. TypeOK'
      BY <2>1 DEF Tick, ChallengeInv, TypeOK
    <3> QED BY <2>1, <3>1, OnlyAsks DEF Tick, ChallengeInv, Tables
  <2>2. ASSUME NEW u \in Users, NEW s \in AskSlots, Ask(u, s) PROVE ChallengeInv'
    <3>1. TypeOK'
      BY <2>2 DEF Ask, ChallengeInv, TypeOK, AskHandler
    <3> QED BY <2>2, <3>1, OnlyAsks DEF Ask, ChallengeInv, Tables
  <2>3. CASE UNCHANGED vars
    BY <2>3 DEF vars, ChallengeInv, TypeOK, Tables, Checked, TokenProven, OneTokenPerChallenge
  <2> QED
    BY <2>1, <2>2, <2>3, RegisterKeeps, AskStepKeeps, AnswerKeeps, AnswerStepKeeps DEF Next
<1> QED BY <1>1, <1>2, PTL DEF Spec

\* Every variable keeps to its set; a client only has ids of stored challenges.
THEOREM ChallengeTypeCorrect == Spec => []TypeOK
BY ChallengeInvariant, PTL DEF ChallengeInv

\* A challenge buys one token at most, however the handlers' statements interleave.
THEOREM OneTokenHolds == Spec => []OneTokenPerChallenge
BY ChallengeInvariant, PTL DEF ChallengeInv

\* A token's user has the key that answered a challenge made for that user.
THEOREM TokensProven == Spec => []TokenProven
BY ChallengeInvariant, PTL DEF ChallengeInv

-----------------------------------------------------------------------------
(* Live challenges do not pile up *)

\* Handlers that found no live challenge and will make one.
Inserting(u) == {h \in asks : h.user = u /\ h.stage = "insert"}

\* A slot has one handler, and live challenges and those about to be made fit into the slots:
\* a handler goes on to make one only when there is none.
Slotted == \A g, h \in asks : g.slot = h.slot => g = h

Room ==
    \A u \in Users :
        /\ IsFiniteSet(Offered(u))
        /\ Cardinality(Offered(u)) + Cardinality(Inserting(u)) <= Cardinality(AskSlots)

\* There are no more handlers than slots.
LEMMA FewAsks ==
    ASSUME TypeOK, Slotted, NEW S \in SUBSET asks
    PROVE  IsFiniteSet(S) /\ Cardinality(S) <= Cardinality(AskSlots)
<1> DEFINE f == [h \in S |-> h.slot]
<1>1. \A h \in S : h.slot \in AskSlots
  BY DEF TypeOK, AskHandler
<1>2. f \in Injection(S, AskSlots)
  BY <1>1 DEF Injection, IsInjective, Slotted
<1> QED BY <1>2, FS_Injection, ChallengeAssumption

\* Handlers come into free slots and keep theirs.
LEMMA SlottedKeeps ==
    ASSUME TypeOK, Slotted, [Next]_vars
    PROVE  Slotted'
<1>1. CASE UNCHANGED asks
  BY <1>1 DEF Slotted
<1>2. ASSUME NEW u \in Users, NEW s \in AskSlots, Ask(u, s) PROVE Slotted'
  BY <1>2 DEF Ask, Free, Slotted
<1>3. ASSUME NEW h \in asks, NEW t \in {"user", "live", "insert"},
             asks' \subseteq (asks \ {h}) \cup {[h EXCEPT !.stage = t]}
      PROVE  Slotted'
  <2> DEFINE g == [h EXCEPT !.stage = t]
  <2>1. g.slot = h.slot
    BY DEF TypeOK, AskHandler
  <2>2. asks' \subseteq (asks \ {h}) \cup {g}
    BY <1>3
  <2> HIDE DEF g
  <2> QED BY <2>1, <2>2 DEF Slotted
<1>4. ASSUME NEW h \in asks, AskStep(h) PROVE Slotted'
  <2>1. CASE AskUser(h)
    <3>1. asks' \subseteq (asks \ {h}) \cup {[h EXCEPT !.stage = "live"]}
      BY <2>1 DEF AskUser
    <3> QED BY <1>3, <3>1
  <2>2. CASE AskLive(h)
    <3>1. asks' \subseteq (asks \ {h}) \cup {[h EXCEPT !.stage = "insert"]}
      BY <2>2 DEF AskLive
    <3> QED BY <1>3, <3>1
  <2>3. CASE AskInsert(h) \/ AskFail(h)
    BY <2>3 DEF AskInsert, AskFail, Slotted
  <2> QED BY <1>4, <2>1, <2>2, <2>3 DEF AskStep
<1>5. ASSUME NEW h \in answers, AnswerStep(h) PROVE UNCHANGED asks
  BY <1>5 DEF AnswerStep, AnswerLive, AnswerKey, AnswerUpdate, AnswerReply, AnswerFail
<1> QED BY <1>1, <1>2, <1>4, <1>5 DEF Next, Tick, Register, Answer, vars

\* Fewer live challenges and fewer handlers about to make one leave as much room.
LEMMA RoomForFewer ==
    ASSUME TypeOK, Slotted, NEW u \in Users,
           IsFiniteSet(Offered(u)),
           Cardinality(Offered(u)) + Cardinality(Inserting(u)) <= Cardinality(AskSlots),
           Offered(u)' \subseteq Offered(u), Inserting(u)' \subseteq Inserting(u)
    PROVE  /\ IsFiniteSet(Offered(u)')
           /\ Cardinality(Offered(u)') + Cardinality(Inserting(u)') <= Cardinality(AskSlots)
<1>1. IsFiniteSet(Inserting(u))
  BY FewAsks DEF Inserting
<1>2. IsFiniteSet(Offered(u)') /\ Cardinality(Offered(u)') <= Cardinality(Offered(u))
  BY FS_Subset
<1>3. IsFiniteSet(Inserting(u)') /\ Cardinality(Inserting(u)') <= Cardinality(Inserting(u))
  BY <1>1, FS_Subset
<1>4. /\ Cardinality(Offered(u)) \in Nat /\ Cardinality(Inserting(u)) \in Nat
      /\ Cardinality(Offered(u)') \in Nat /\ Cardinality(Inserting(u)') \in Nat
      /\ Cardinality(AskSlots) \in Nat
  BY <1>1, <1>2, <1>3, FS_CardinalityType, ChallengeAssumption
<1> QED BY <1>2, <1>3, <1>4

\* A handler that found no live challenge: with its own, all fit into the slots.
LEMMA LookKeepsRoom ==
    ASSUME TypeOK, TypeOK', Slotted, Slotted', Room, NEW h \in asks, AskLive(h)
    PROVE  Room'
<1> DEFINE g == [h EXCEPT !.stage = "insert"]
<1>1. g.user = h.user /\ \A u \in Users : Offered(u)' = Offered(u)
  BY DEF AskLive, Offered, Live, TypeOK, AskHandler
<1>2. asks' \subseteq (asks \ {h}) \cup {g}
  BY DEF AskLive
<1> HIDE DEF g
<1>3. ASSUME NEW u \in Users, u # h.user \/ Offered(h.user) # {}
      PROVE  Inserting(u)' \subseteq Inserting(u)
  BY <1>1, <1>2, <1>3 DEF Inserting, AskLive
<1>4. ASSUME NEW u \in Users, Offered(u) = {}
      PROVE  /\ IsFiniteSet(Offered(u)')
             /\ Cardinality(Offered(u)') + Cardinality(Inserting(u)') <= Cardinality(AskSlots)
  <2>1. IsFiniteSet(Inserting(u)') /\ Cardinality(Inserting(u)') <= Cardinality(AskSlots)
    <3>1. \A S \in SUBSET asks' : IsFiniteSet(S) /\ Cardinality(S) <= Cardinality(AskSlots)
      <4>1. SUFFICES ASSUME NEW S \in SUBSET asks'
                     PROVE  IsFiniteSet(S) /\ Cardinality(S) <= Cardinality(AskSlots)
        OBVIOUS
      <4> DEFINE f == [k \in S |-> k.slot]
      <4>2. f \in Injection(S, AskSlots)
        BY DEF TypeOK, AskHandler, Slotted, Injection, IsInjective
      <4> QED BY <4>2, FS_Injection, ChallengeAssumption
    <3> QED BY <3>1 DEF Inserting
  <2>2. Offered(u)' = {} /\ IsFiniteSet({}) /\ Cardinality({}) = 0
    BY <1>1, <1>4, FS_EmptySet
  <2>3. Cardinality(Inserting(u)') \in Nat /\ Cardinality(AskSlots) \in Nat
    BY <2>1, FS_CardinalityType, ChallengeAssumption
  <2> QED BY <2>1, <2>2, <2>3
<1>5. ASSUME NEW u \in Users, u # h.user \/ Offered(h.user) # {}
      PROVE  /\ IsFiniteSet(Offered(u)')
             /\ Cardinality(Offered(u)') + Cardinality(Inserting(u)') <= Cardinality(AskSlots)
  BY <1>1, <1>3, <1>5, RoomForFewer DEF Room
<1> QED BY <1>4, <1>5 DEF Room

\* Making one: a live challenge more, a handler about to make one less.
LEMMA InsertKeepsRoom ==
    ASSUME TypeOK, Slotted, Room, NEW h \in asks, AskInsert(h)
    PROVE  Room'
<1>1. PICK id \in Ids :
        challenges' = challenges \cup
          {[id |-> id, user |-> h.user, expires |-> now + Lifetime, used |-> FALSE]}
  BY DEF AskInsert
<1> DEFINE n == [id |-> id, user |-> h.user, expires |-> now + Lifetime, used |-> FALSE]
<1>2. n.user = h.user /\ challenges' = challenges \cup {n}
  BY <1>1
<1> HIDE DEF n
<1>3. asks' = asks \ {h} /\ now' = now /\ h.stage = "insert"
  BY DEF AskInsert
<1>4. ASSUME NEW u \in Users, u # h.user
      PROVE  /\ IsFiniteSet(Offered(u)')
             /\ Cardinality(Offered(u)') + Cardinality(Inserting(u)') <= Cardinality(AskSlots)
  <2>1. Offered(u)' \subseteq Offered(u) /\ Inserting(u)' \subseteq Inserting(u)
    BY <1>2, <1>3, <1>4 DEF Offered, Live, Inserting
  <2> QED BY <2>1, RoomForFewer DEF Room
<1>5. ASSUME NEW u \in Users, u = h.user
      PROVE  /\ IsFiniteSet(Offered(u)')
             /\ Cardinality(Offered(u)') + Cardinality(Inserting(u)') <= Cardinality(AskSlots)
  <2>1. Offered(u)' \subseteq Offered(u) \cup {n}
    BY <1>2, <1>3 DEF Offered, Live
  <2>2. Inserting(u)' = Inserting(u) \ {h} /\ h \in Inserting(u)
    BY <1>3, <1>5 DEF Inserting
  <2>3. IsFiniteSet(Offered(u)) /\ IsFiniteSet(Inserting(u))
    BY FewAsks DEF Inserting, Room
  <2>4. /\ IsFiniteSet(Offered(u) \cup {n})
        /\ Cardinality(Offered(u) \cup {n}) <= Cardinality(Offered(u)) + 1
    <3>1. Cardinality(Offered(u)) \in Nat
      BY <2>3, FS_CardinalityType
    <3>2. /\ IsFiniteSet(Offered(u) \cup {n})
          /\ Cardinality(Offered(u) \cup {n}) =
               IF n \in Offered(u) THEN Cardinality(Offered(u)) ELSE Cardinality(Offered(u)) + 1
      BY <2>3, FS_AddElement
    <3> QED BY <3>1, <3>2
  <2>5. IsFiniteSet(Offered(u)') /\ Cardinality(Offered(u)') <= Cardinality(Offered(u) \cup {n})
    BY <2>1, <2>4, FS_Subset
  <2>6. /\ IsFiniteSet(Inserting(u)')
        /\ Cardinality(Inserting(u)') = Cardinality(Inserting(u)) - 1
    BY <2>2, <2>3, FS_RemoveElement
  <2>7. /\ Cardinality(Offered(u)) \in Nat /\ Cardinality(Inserting(u)) \in Nat
        /\ Cardinality(Offered(u)') \in Nat /\ Cardinality(Offered(u) \cup {n}) \in Nat
        /\ Cardinality(AskSlots) \in Nat
    BY <2>3, <2>4, <2>5, FS_CardinalityType, ChallengeAssumption
  <2>8. Cardinality(Offered(u)) + Cardinality(Inserting(u)) <= Cardinality(AskSlots)
    BY DEF Room
  <2> QED BY <2>4, <2>5, <2>6, <2>7, <2>8
<1> QED BY <1>4, <1>5 DEF Room

LEMMA RoomKeeps ==
    ASSUME TypeOK, TypeOK', Slotted, Slotted', Room, [Next]_vars
    PROVE  Room'
<1>1. ASSUME \A u \in Users : /\ Offered(u)' \subseteq Offered(u)
                              /\ Inserting(u)' \subseteq Inserting(u)
      PROVE  Room'
  BY <1>1, RoomForFewer DEF Room
<1>2. CASE UNCHANGED vars
  BY <1>1, <1>2 DEF vars, Offered, Live, Inserting
<1>3. CASE Tick
  BY <1>1, <1>3 DEF Tick, Offered, Live, Inserting, TypeOK, Row
<1>4. ASSUME NEW u \in Users, NEW k \in Keys, Register(u, k) PROVE Room'
  BY <1>1, <1>4 DEF Register, Offered, Live, Inserting
<1>5. ASSUME NEW u \in Users, NEW s \in AskSlots, Ask(u, s) PROVE Room'
  <2>1. \A g \in asks' : g.stage = "insert" => g \in asks
    BY <1>5 DEF Ask
  <2> QED BY <1>1, <1>5, <2>1 DEF Ask, Offered, Live, Inserting
<1>6. ASSUME NEW h \in asks, AskStep(h) PROVE Room'
  <2>1. CASE AskUser(h)
    <3>1. [h EXCEPT !.stage = "live"].stage = "live"
      BY DEF TypeOK, AskHandler
    <3>2. \A g \in asks' : g.stage = "insert" => g \in asks
      BY <2>1, <3>1 DEF AskUser
    <3> QED BY <1>1, <2>1, <3>2 DEF AskUser, Offered, Live, Inserting
  <2>2. CASE AskFail(h)
    BY <1>1, <2>2 DEF AskFail, Offered, Live, Inserting
  <2> QED BY <1>6, <2>1, <2>2, LookKeepsRoom, InsertKeepsRoom DEF AskStep
<1>7. ASSUME NEW id \in handed, NEW k \in Keys \cup {NoKey}, NEW s \in AnswerSlots,
             Answer(id, k, s)
      PROVE  Room'
  BY <1>1, <1>7 DEF Answer, Offered, Live, Inserting
<1>8. ASSUME NEW h \in answers, AnswerStep(h) PROVE Room'
  <2>1. CASE UNCHANGED <<now, challenges, asks>>
    BY <1>1, <2>1 DEF Offered, Live, Inserting
  <2>2. ASSUME NEW c \in challenges,
               challenges' = (challenges \ {c}) \cup {[c EXCEPT !.used = TRUE]},
               UNCHANGED <<now, asks>>
        PROVE  Room'
    <3> DEFINE d == [c EXCEPT !.used = TRUE]
    <3>1. d.used
      BY DEF TypeOK, Row
    <3>2. challenges' = (challenges \ {c}) \cup {d}
      BY <2>2
    <3> HIDE DEF d
    <3> QED BY <1>1, <2>2, <3>1, <3>2 DEF Offered, Live, Inserting
  <2>3. CASE AnswerUpdate(h)
    BY <2>1, <2>2, <2>3 DEF AnswerUpdate
  <2>4. CASE AnswerLive(h) \/ AnswerKey(h) \/ AnswerReply(h) \/ AnswerFail(h)
    BY <2>1, <2>4 DEF AnswerLive, AnswerKey, AnswerReply, AnswerFail
  <2> QED BY <1>8, <2>3, <2>4 DEF AnswerStep
<1> QED BY <1>2, <1>3, <1>4, <1>5, <1>6, <1>7, <1>8 DEF Next

\* However many get-challenge handlers look and insert at the same time, a user has no more
\* live challenges than that.
THEOREM LiveBoundedHolds == Spec => []LiveBounded
<1>1. Init => Slotted /\ Room
  <2> SUFFICES ASSUME Init PROVE Slotted /\ Room
    OBVIOUS
  <2>1. Slotted
    BY DEF Init, Slotted
  <2>2. \A u \in Users : Offered(u) = {} /\ Inserting(u) = {}
    BY DEF Init, Offered, Inserting
  <2>3. IsFiniteSet({}) /\ Cardinality({}) = 0 /\ Cardinality(AskSlots) \in Nat
    BY FS_EmptySet, FS_CardinalityType, ChallengeAssumption
  <2> QED BY <2>1, <2>2, <2>3 DEF Room
<1>2. TypeOK /\ TypeOK' /\ Slotted /\ Room /\ [Next]_vars => Slotted' /\ Room'
  BY SlottedKeeps, RoomKeeps
<1>3. TypeOK /\ Slotted /\ Room => LiveBounded
  <2> SUFFICES ASSUME TypeOK, Slotted, Room, NEW u \in Users
               PROVE  Cardinality(Offered(u)) <= Cardinality(AskSlots)
    BY DEF LiveBounded, Offered
  <2>1. IsFiniteSet(Inserting(u))
    BY FewAsks DEF Inserting
  <2>2. /\ Cardinality(Offered(u)) \in Nat /\ Cardinality(Inserting(u)) \in Nat
        /\ Cardinality(AskSlots) \in Nat
    BY <2>1, FS_CardinalityType, ChallengeAssumption DEF Room
  <2> QED BY <2>2 DEF Room
<1> QED BY <1>1, <1>2, <1>3, ChallengeTypeCorrect, PTL DEF Spec

-----------------------------------------------------------------------------
(* Challenge implements OneTimeChallenge *)

Ticket(c) == [id |-> c.id, user |-> c.user, expires |-> c.expires]
Issued == {Ticket(c) : c \in challenges}
Spent == {c.id : c \in {d \in challenges : d.used}}

\* To insert a row is to issue a challenge.
LEMMA InsertIssues ==
    ASSUME ChallengeInv, NEW h \in asks, AskInsert(h)
    PROVE  OneTime!CNext
<1>1. h.user \in Users /\ pk[h.user] # NoKey
  BY DEF AskInsert, ChallengeInv, TypeOK, AskHandler, Tables
<1>2. PICK id \in Ids :
        /\ \A c \in challenges : c.id # id
        /\ challenges' = challenges \cup
             {[id |-> id, user |-> h.user, expires |-> now + Lifetime, used |-> FALSE]}
  BY DEF AskInsert
<1> DEFINE n == [id |-> id, user |-> h.user, expires |-> now + Lifetime, used |-> FALSE]
           k == [id |-> id, user |-> h.user, expires |-> now + Lifetime]
<1>3. Ticket(n) = k /\ ~n.used
  BY DEF Ticket
<1>4. challenges' = challenges \cup {n}
  BY <1>2
<1>5. \A c \in Issued : c.id # id
  BY <1>2 DEF Issued, Ticket
<1> HIDE DEF n
<1>6. Issued' = Issued \cup {k}
  BY <1>3, <1>4 DEF Issued, Ticket
<1>7. Spent' = Spent
  BY <1>3, <1>4 DEF Spent
<1>8. OneTime!Issue(h.user, id)
  BY <1>1, <1>5, <1>6, <1>7 DEF OneTime!Issue, AskInsert, Issued, Spent, Ticket
<1> QED BY <1>1, <1>8 DEF OneTime!CNext

\* To update a row is to spend it.
LEMMA UpdateSpends ==
    ASSUME ChallengeInv, NEW h \in answers, AnswerUpdate(h), challenges' # challenges
    PROVE  OneTime!CNext
<1>1. PICK c \in challenges :
        Consumes(c) /\ challenges' = (challenges \ {c}) \cup {[c EXCEPT !.used = TRUE]}
  BY DEF AnswerUpdate
<1> DEFINE d == [c EXCEPT !.used = TRUE]
<1>2. c \in Row
  BY DEF ChallengeInv, TypeOK
<1>3. Ticket(d) = Ticket(c) /\ d.id = c.id /\ d.used
  BY <1>2 DEF Row, Ticket
<1>4. challenges' = (challenges \ {c}) \cup {d}
  BY <1>1
<1> HIDE DEF d
<1>5. Issued' = Issued
  BY <1>3, <1>4 DEF Issued, Ticket
<1>6. Spent' = Spent \cup {c.id}
  BY <1>1, <1>3, <1>4 DEF Spent, Consumes
<1>7. c.id \notin Spent
  BY <1>1 DEF Spent, Consumes, ChallengeInv, Tables
<1>8. Ticket(c) \in Issued /\ Ticket(c).id = c.id /\ Ticket(c).expires = c.expires
  BY DEF Issued, Ticket
<1>9. now < c.expires
  BY <1>1 DEF Consumes
<1>10. OneTime!Spend(Ticket(c))
  BY <1>5, <1>6, <1>7, <1>8, <1>9 DEF OneTime!Spend, AnswerUpdate, Issued, Spent, Ticket
<1> QED BY <1>8, <1>10 DEF OneTime!CNext, Issued, Ticket

\* To reply is to grant the token.
LEMMA ReplyGrants ==
    ASSUME ChallengeInv, NEW h \in answers, AnswerReply(h)
    PROVE  OneTime!CNext
<1>1. PICK c \in challenges : c.id = h.id /\ c.user = h.user /\ c.used
  BY DEF AnswerReply, ChallengeInv, Checked
<1>2. pk[h.user] = h.key /\ \A i \in DOMAIN tokens : tokens[i].id # h.id
  BY DEF AnswerReply, ChallengeInv, Checked
<1>3. Ticket(c) \in Issued /\ Ticket(c).id = h.id /\ Ticket(c).user = h.user
  BY <1>1 DEF Issued, Ticket
<1>4. h.id \in Spent
  BY <1>1 DEF Spent
<1>5. OneTime!Grant(Ticket(c))
  BY <1>2, <1>3, <1>4 DEF OneTime!Grant, AnswerReply, Issued, Spent, Ticket
<1> QED BY <1>3, <1>5 DEF OneTime!CNext, Issued, Ticket

\* The handlers, interrupted at every statement, do only what a one-time challenge allows.
THEOREM ChallengeImplementsOneTime == Spec => ImplementsOneTime
<1>1. Init => OneTime!CInit
  BY DEF Init, OneTime!CInit
<1>2. ChallengeInv /\ [Next]_vars =>
        [OneTime!CNext]_<<now, pk, Issued, Spent, tokens>>
  <2> SUFFICES ASSUME ChallengeInv, [Next]_vars,
                      ~UNCHANGED <<now, pk, challenges, tokens>>
               PROVE  OneTime!CNext
    BY DEF Issued, Spent, Ticket
  <2>1. CASE Tick
    BY <2>1 DEF Tick, OneTime!CNext, OneTime!Pass
  <2>2. ASSUME NEW u \in Users, NEW k \in Keys, Register(u, k) PROVE OneTime!CNext
    <3>1. OneTime!Enrol(u, k)
      BY <2>2 DEF Register, OneTime!Enrol
    <3> QED BY <3>1 DEF OneTime!CNext
  <2>3. ASSUME NEW h \in asks, AskStep(h) PROVE OneTime!CNext
    BY <2>3, InsertIssues DEF AskStep, AskUser, AskLive, AskFail
  <2>4. ASSUME NEW h \in answers, AnswerStep(h) PROVE OneTime!CNext
    <3>1. CASE AnswerUpdate(h)
      BY <3>1, UpdateSpends DEF AnswerUpdate
    <3> QED BY <2>4, <3>1, ReplyGrants DEF AnswerStep, AnswerLive, AnswerKey, AnswerFail
  <2> QED BY <2>1, <2>2, <2>3, <2>4 DEF Next, Ask, Answer, vars
<1> QED
  BY <1>1, <1>2, ChallengeInvariant, PTL
  DEF Spec, ImplementsOneTime, OneTime!CSpec, Issued, Spent, Ticket

=============================================================================
