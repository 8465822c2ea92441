------------------------------ MODULE MCWebClient ------------------------------
(* Instances of WebClient for TLC. *)
EXTENDS WebClient

OneEach == [p \in Peers |-> 1]
TwoEach == [p \in Peers |-> 2]

\* One of the conversations has messages.
OneBusy == [p \in Peers |-> IF p = CHOOSE q \in Peers : TRUE THEN 1 ELSE 0]

\* A bound on the environment of WebRefresh: the peer starts at the first counter.
FirstCounters == \A r \in table : ~r.mine => r.ctr = 1

\* After an overlap OrderWithoutOverlap has nothing more to say.
UntilOverlap == ~overlapped
=============================================================================
