------------------------------- MODULE Challenge -------------------------------
(*****************************************************************************)
(* Logging in on the server: POST /register, /get-challenge and               *)
(* /validate-challenge, with the tables user_to_pk and auth_challenge.         *)
(*                                                                           *)
(* A handler is a coroutine that gives up its thread at every SQL statement;  *)
(* each statement is a transaction of its own, and the statements of handlers  *)
(* in progress interleave.  The clients may be anyone: whoever has seen a      *)
(* challenge may answer it, signing with any key, any number of times.         *)
(*****************************************************************************)
EXTENDS Naturals, FiniteSets, Sequences

CONSTANTS
    Users,        \* user_iid
    Keys,         \* Ed25519 key pairs, public part and signer alike
    NoKey,        \* no row in user_to_pk; a signature that no key verifies
    Ids,          \* challenge ids: gen_random_uuid() never repeats one
    Lifetime,     \* INTERVAL '5 minutes'
    MaxTime,      \* bounds the clock
    AskSlots,     \* bounds the get-challenge handlers in progress at a time
    AnswerSlots   \* bounds the validate-challenge handlers in progress

ASSUME ChallengeAssumption ==
    /\ NoKey \notin Keys
    /\ Lifetime \in Nat
    /\ MaxTime \in Nat
    /\ IsFiniteSet(AskSlots)

VARIABLES
    now,          \* NOW() of a transaction that begins
    pk,           \* user_to_pk: pk[u]
    challenges,   \* auth_challenge
    asks,         \* get-challenge handlers
    answers,      \* validate-challenge handlers
    handed,       \* ids that get-challenge has returned to some client
    tokens        \* history: the access tokens returned, each with what it was given for

vars == <<now, pk, challenges, asks, answers, handed, tokens>>

-----------------------------------------------------------------------------
(* Operators *)

\* NOW() < expires_at AND is_used = false.
Live(c) == ~c.used /\ now < c.expires

\* MUTANT of Offered: the existing challenges are not looked for.
OfferedNone(u) == {}

\* The challenges get-challenge may return again instead of making a new one.
Offered(u) == {c \in challenges : c.user = u /\ Live(c)}

\* MUTANTS of Consumes: only is_used is compared; only expires_at is.
ConsumesLate(c) == ~c.used
ConsumesAgain(c) == now < c.expires

\* The WHERE clause of validate-challenge's UPDATE.
Consumes(c) == ~c.used /\ now < c.expires

\* MUTANT of Verifies: a signature is enough, whoever made it.
VerifiesAny(h) == h.key # NoKey

\* The signature of h is one of the user's registered key.
Verifies(h) == h.key = pk[h.user]

\* A new handler in a slot that has none.
Free(handlers, s) == \A h \in handlers : h.slot # s

-----------------------------------------------------------------------------
(* register *)

\* ON CONFLICT (user_iid) DO NOTHING: the first key stays.
Register(u, k) ==
    /\ pk' = IF pk[u] = NoKey THEN [pk EXCEPT ![u] = k] ELSE pk
    /\ UNCHANGED <<now, challenges, asks, answers, handed, tokens>>

-----------------------------------------------------------------------------
(* get-challenge *)

Ask(u, s) ==
    /\ Free(asks, s)
    /\ asks' = asks \cup {[slot |-> s, user |-> u, stage |-> "user"]}
    /\ UNCHANGED <<now, pk, challenges, answers, handed, tokens>>

\* Is the user registered?
AskUser(h) ==
    /\ h.stage = "user"
    /\ asks' = (asks \ {h}) \cup
                 (IF pk[h.user] = NoKey THEN {} ELSE {[h EXCEPT !.stage = "live"]})
    /\ UNCHANGED <<now, pk, challenges, answers, handed, tokens>>

\* Is there a challenge to return again?
AskLive(h) ==
    /\ h.stage = "live"
    /\ \/ /\ Offered(h.user) = {}
          /\ asks' = (asks \ {h}) \cup {[h EXCEPT !.stage = "insert"]}
          /\ handed' = handed
       \/ \E c \in Offered(h.user) :
            /\ asks' = asks \ {h}
            /\ handed' = handed \cup {c.id}
    /\ UNCHANGED <<now, pk, challenges, answers, tokens>>

\* MUTANT of AskInsert: that the statement failed is not noticed.
AskInsertUnchecked(h) ==
    /\ h.stage = "insert"
    /\ \E id \in Ids :
         /\ \A c \in challenges : c.id # id
         /\ challenges' \in {challenges, challenges \cup
              {[id |-> id, user |-> h.user, expires |-> now + Lifetime, used |-> FALSE]}}
         /\ handed' = handed \cup {id}
    /\ asks' = asks \ {h}
    /\ UNCHANGED <<now, pk, answers, tokens>>

\* The new challenge, and its answer unless that is lost.
AskInsert(h) ==
    /\ h.stage = "insert"
    /\ \E id \in Ids :
         /\ \A c \in challenges : c.id # id
         /\ challenges' = challenges \cup
              {[id |-> id, user |-> h.user, expires |-> now + Lifetime, used |-> FALSE]}
         /\ handed' \in {handed, handed \cup {id}}
    /\ asks' = asks \ {h}
    /\ UNCHANGED <<now, pk, answers, tokens>>

\* A statement throws, or the client hangs up.
AskFail(h) ==
    /\ asks' = asks \ {h}
    /\ UNCHANGED <<now, pk, challenges, answers, handed, tokens>>

-----------------------------------------------------------------------------
(* validate-challenge *)

Answer(id, k, s) ==
    /\ Free(answers, s)
    /\ answers' = answers \cup
         {[slot |-> s, id |-> id, key |-> k, user |-> "unknown", stage |-> "live"]}
    /\ UNCHANGED <<now, pk, challenges, asks, handed, tokens>>

\* The challenge's row, if it is live.
AnswerLive(h) ==
    /\ h.stage = "live"
    /\ \/ \E c \in challenges :
            /\ c.id = h.id /\ Live(c)
            /\ answers' = (answers \ {h}) \cup {[h EXCEPT !.user = c.user, !.stage = "key"]}
       \/ /\ \A c \in challenges : c.id = h.id => ~Live(c)
          /\ answers' = answers \ {h}
    /\ UNCHANGED <<now, pk, challenges, asks, handed, tokens>>

\* The user's key, then the signature.  A token is made here, and kept for later.
AnswerKey(h) ==
    /\ h.stage = "key"
    /\ answers' = (answers \ {h}) \cup
         (IF Verifies(h) THEN {[h EXCEPT !.stage = "update"]} ELSE {})
    /\ UNCHANGED <<now, pk, challenges, asks, handed, tokens>>

\* UPDATE ... SET is_used = TRUE.
AnswerUpdate(h) ==
    /\ h.stage = "update"
    /\ \/ \E c \in challenges :
            /\ c.id = h.id /\ Consumes(c)
            /\ challenges' = (challenges \ {c}) \cup {[c EXCEPT !.used = TRUE]}
            /\ answers' = (answers \ {h}) \cup {[h EXCEPT !.stage = "reply"]}
       \/ /\ \A c \in challenges : c.id = h.id => ~Consumes(c)
          /\ answers' = answers \ {h}
          /\ UNCHANGED challenges
    /\ UNCHANGED <<now, pk, asks, handed, tokens>>

\* The token leaves the server.
AnswerReply(h) ==
    /\ h.stage = "reply"
    /\ answers' = answers \ {h}
    /\ tokens' = Append(tokens, [id |-> h.id, user |-> h.user, key |-> h.key])
    /\ UNCHANGED <<now, pk, challenges, asks, handed>>

\* A statement throws, whether or not it took effect, or the client hangs up.
AnswerFail(h) ==
    /\ answers' = answers \ {h}
    /\ UNCHANGED <<now, pk, challenges, asks, handed, tokens>>

-----------------------------------------------------------------------------
(* The specification *)

Tick ==
    /\ now < MaxTime
    /\ now' = now + 1
    /\ UNCHANGED <<pk, challenges, asks, answers, handed, tokens>>

Init ==
    /\ now = 0
    /\ pk = [u \in Users |-> NoKey]
    /\ challenges = {}
    /\ asks = {}
    /\ answers = {}
    /\ handed = {}
    /\ tokens = <<>>

AskStep(h) == AskUser(h) \/ AskLive(h) \/ AskInsert(h) \/ AskFail(h)

AnswerStep(h) ==
    \/ AnswerLive(h)
    \/ AnswerKey(h)
    \/ AnswerUpdate(h)
    \/ AnswerReply(h)
    \/ AnswerFail(h)

Next ==
    \/ Tick
    \/ \E u \in Users : \E k \in Keys : Register(u, k)
    \/ \E u \in Users : \E s \in AskSlots : Ask(u, s)
    \/ \E h \in asks : AskStep(h)
    \/ \E id \in handed : \E k \in Keys \cup {NoKey} : \E s \in AnswerSlots : Answer(id, k, s)
    \/ \E h \in answers : AnswerStep(h)

Spec == Init /\ [][Next]_vars

-----------------------------------------------------------------------------
(* Properties *)

Row == [id: Ids, user: Users, expires: Nat, used: BOOLEAN]
AskHandler == [slot: AskSlots, user: Users, stage: {"user", "live", "insert"}]
AnswerHandler ==
    [slot: AnswerSlots, id: Ids, key: Keys \cup {NoKey}, user: Users \cup {"unknown"},
     stage: {"live", "key", "update", "reply"}]
Token == [id: Ids, user: Users, key: Keys]

\* Every variable keeps to its set; a client only has ids of stored challenges.
TypeOK ==
    /\ now \in Nat
    /\ pk \in [Users -> Keys \cup {NoKey}]
    /\ challenges \subseteq Row
    /\ asks \subseteq AskHandler
    /\ answers \subseteq AnswerHandler
    /\ handed \subseteq {c.id : c \in challenges}
    /\ tokens \in Seq(Token)

\* A challenge buys one token at most, however many answers to it are checked at once.
OneTokenPerChallenge ==
    \A i, j \in DOMAIN tokens : tokens[i].id = tokens[j].id => i = j

\* A token goes to the user the challenge was made for, whose registered key answered it,
\* and its challenge cannot be answered again.
TokenProven ==
    \A i \in DOMAIN tokens :
        LET t == tokens[i]
        IN  /\ pk[t.user] = t.key
            /\ \E c \in challenges : c.id = t.id /\ c.user = t.user /\ c.used

\* Live challenges do not pile up: a user has no more than get-challenge once handled at
\* the same time, though looking for one and making one are separate statements.
LiveBounded ==
    \A u \in Users :
        Cardinality({c \in challenges : c.user = u /\ Live(c)}) <= Cardinality(AskSlots)

\* The handlers and their statements do what a one-time challenge promises: spent once,
\* before it expires, for the owner of the key.
OneTime == INSTANCE OneTimeChallenge WITH
    time <- now,
    owner <- pk,
    issued <- {[id |-> c.id, user |-> c.user, expires |-> c.expires] : c \in challenges},
    spent <- {c.id : c \in {d \in challenges : d.used}},
    granted <- tokens

ImplementsOneTime == OneTime!CSpec

=============================================================================
