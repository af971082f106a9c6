------------------------------ MODULE MCRespec ------------------------------
(* Instances of Respec: a requirement of one use case and one of both, and    *)
(* models that differ by an atom's content, its use case, or its presence.    *)
EXTENDS Respec, TLC

CONSTANTS A1, A2, U1, U2

OneAndBoth == <<{U1}, {U1, U2}>>

At(sig, uc) == [sig |-> sig, uc |-> uc]

Apart    == A1 :> At("s1", U1) @@ A2 :> At("s1", U2)
Together == A1 :> At("s1", U1) @@ A2 :> At("s1", U1)
Swapped  == A1 :> At("s1", U2) @@ A2 :> At("s1", U1)
Changed  == A1 :> At("s2", U1) @@ A2 :> At("s1", U2)
FirstGone  == A2 :> At("s1", U2)
SecondGone == A1 :> At("s2", U1)

SixModels == {Apart, Together, Swapped, Changed, FirstGone, SecondGone}
=============================================================================
