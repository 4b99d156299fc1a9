---------------------------- MODULE MCLoginFlow ----------------------------
(***************************************************************************)
(* One browser with two tabs, and two threads in one child.                *)
(* With base 2 the lengths of the texts have one or two digits; one page   *)
(* contains everything a netstring is made of, one provider looks like the *)
(* end of one.                                                             *)
(***************************************************************************)
EXTENDS LoginFlow, TLC

CONSTANTS c1, w1, w2, u1, t1, t2, k5

MCChildOf == (w1 :> c1) @@ (w2 :> c1)
MCBrowserOf == (t1 :> u1) @@ (t2 :> u1)
MCCodesOf == (t1 :> Code \ {k5}) @@ (t2 :> {k5})
MCRoot == <<"/">>
MCTextPage == <<"1", ":", ",">>
MCPage == {MCRoot, MCTextPage}
MCPageOf == (t1 :> MCTextPage) @@ (t2 :> None)
MCFirst == <<"p">>
MCSecond == <<"p", ",">>
MCProvider == {MCFirst, MCSecond}
MCProviderOf == (t1 :> MCFirst) @@ (t2 :> MCSecond)
=============================================================================
