----------------------------- MODULE MCAuthFlow -----------------------------
(***************************************************************************)
(* An instance of AuthFlow: two browsers that log in with any of the codes *)
(* there are, and two threads of one child.  Renaming the identifiers, the *)
(* codes, the browsers or the threads changes nothing.                     *)
(***************************************************************************)
EXTENDS AuthFlow, TLC

CONSTANTS c1, w1, w2

MCOneChild == (w1 :> c1) @@ (w2 :> c1)

MCSymmetry ==
    {p @@ q @@ b @@ k : p \in Permutations(Sid), q \in Permutations(Worker),
                        b \in Permutations(Browser), k \in Permutations(Code)}
=============================================================================
