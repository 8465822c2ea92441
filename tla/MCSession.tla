------------------------------ MODULE MCSession ------------------------------
(* The small instance of Session: two people who can log in and one peer. *)
EXTENDS Session, TLC

CONSTANTS ann, bob, carl, A, B, C, D, E

MCTalked == ann :> {bob} @@ bob :> {ann} @@ carl :> {}

\* A peer's share, one with another key, and one whose second key is not the signer's.
MCOffers ==
    {MadeShare(B, bob), MadeShare(E, bob),
     [MadeShare(B, bob) EXCEPT !.x = E, !.xSig = Signed(E, bob, "x25519", E)]}

\* A first start, and an installation whose one user is registered already.
MCBefore ==
    {[table |-> ann :> None @@ bob :> B @@ carl :> E, files |-> {}],
     [table |-> ann :> A @@ bob :> B @@ carl :> None, files |-> {A}]}

\* The bundles nobody has at first may be exchanged.
Unused == Permutations({C, D})
=============================================================================
