---------------------------- MODULE OneTimeChallenge ----------------------------
(*****************************************************************************)
(* What logging in by challenge promises, without requests, handlers or SQL:  *)
(* a challenge is issued to a user, can be spent once and only before it       *)
(* expires, and buys at most one token, for the owner of the user's key.       *)
(*****************************************************************************)
EXTENDS Naturals, Sequences

CONSTANTS Users, Keys, NoKey, Ids, Lifetime

VARIABLES
    time,
    owner,    \* owner[u]: the key registered for u
    issued,   \* challenges
    spent,    \* ids of the challenges that cannot be answered any more
    granted   \* tokens, each with its challenge, user and the key that answered

CInit ==
    /\ time = 0
    /\ owner = [u \in Users |-> NoKey]
    /\ issued = {}
    /\ spent = {}
    /\ granted = <<>>

Pass ==
    /\ time' = time + 1
    /\ UNCHANGED <<owner, issued, spent, granted>>

Enrol(u, k) ==
    /\ owner[u] = NoKey
    /\ owner' = [owner EXCEPT ![u] = k]
    /\ UNCHANGED <<time, issued, spent, granted>>

Issue(u, id) ==
    /\ owner[u] # NoKey
    /\ \A c \in issued : c.id # id
    /\ issued' = issued \cup {[id |-> id, user |-> u, expires |-> time + Lifetime]}
    /\ UNCHANGED <<time, owner, spent, granted>>

Spend(c) ==
    /\ c.id \notin spent
    /\ time < c.expires
    /\ spent' = spent \cup {c.id}
    /\ UNCHANGED <<time, owner, issued, granted>>

Grant(c) ==
    /\ c.id \in spent
    /\ \A i \in DOMAIN granted : granted[i].id # c.id
    /\ granted' = Append(granted, [id |-> c.id, user |-> c.user, key |-> owner[c.user]])
    /\ UNCHANGED <<time, owner, issued, spent>>

CNext ==
    \/ Pass
    \/ \E u \in Users : \E k \in Keys : Enrol(u, k)
    \/ \E u \in Users : \E id \in Ids : Issue(u, id)
    \/ \E c \in issued : Spend(c) \/ Grant(c)

CSpec == CInit /\ [][CNext]_<<time, owner, issued, spent, granted>>
=============================================================================
