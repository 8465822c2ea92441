------------------------------ MODULE MCChallenge ------------------------------
(* Instances of Challenge for TLC. *)
EXTENDS Challenge, TLC

\* Handlers, ids and keys are only compared; what holds is the same whichever is which.
Symmetry ==
    Permutations(AskSlots) \cup Permutations(AnswerSlots) \cup Permutations(Ids)
        \cup Permutations(Keys)
\* Two handlers of one kind and one of the other show every pair of overlapping statements.
ThreeBusy == Cardinality(asks) + Cardinality(answers) <= 3
=============================================================================
