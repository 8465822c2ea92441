--------------------------- MODULE MCConversation ---------------------------
(* Instances of Conversation for TLC. *)
EXTENDS Conversation

AllTrusted == [u \in Users |-> Peers(u)]
\* User 1 has no keys for user 3.
OneStranger == [u \in Users |-> Peers(u) \ (IF u = 1 THEN {3} ELSE {})]

\* What version 1 left of the conversation.
OneOldRow == {[msg |-> [from |-> 2, to |-> 1, ctr |-> 1, sig |-> 0, ver |-> 1], at |-> 1]}

NoLegacy == [u \in Users |-> 0]
\* User 1 upgraded from a version with one counter for all its conversations.
OneUpgraded == [u \in Users |-> IF u = 1 THEN 2 ELSE 0]

EachSignsTwo == [u \in Users |-> 2]
OneLoadEach == [u \in Users |-> {1}]

\* User 1 acts, with loads that overlap; the others are only there to be talked to.
OnlyOneSigns == [u \in Users |-> IF u = 1 THEN 2 ELSE 0]
OnlyOneLoads == [u \in Users |-> IF u = 1 THEN {1, 2} ELSE {}]

\* User 2 writes and user 1 reads.
OnlyTwoSignsOnce == [u \in Users |-> IF u = 2 THEN 1 ELSE 0]
ReaderOverlaps == [u \in Users |-> IF u = 1 THEN {1, 2} ELSE {1}]

\* A user without a load slot can do nothing: it need not log in.
IdleStayOut == \A u \in Users : Slots[u] = {} => ~up[u]

\* While the process holds a value that is not in its file, at most one request is in progress,
\* one message has been signed and no conversation but 2's is open: the rest runs without faults.
FaultsAlone ==
    \A u \in Users : cache[u] # disk[u] =>
        peer[u] \in {2, NoPeer} /\ Cardinality(sent) <= 1 /\ Cardinality(gets) + Cardinality(posts) <= 1

\* Once a request was repeated, one message has been signed and one load is in progress.
Repeated == (\E p \in posts : p.n = 2) \/ \E q, r \in rows : q # r /\ q.msg = r.msg
RepeatsAlone == Repeated => Cardinality(sent) <= 1 /\ Cardinality(gets) <= 1
=============================================================================
