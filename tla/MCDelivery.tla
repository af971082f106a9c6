----------------------------- MODULE MCDelivery -----------------------------
(* Instances of Delivery: the scenarios pass if the program can be started    *)
(* and its domain code does what they demand, so a worker may repair the      *)
(* code, or bend the scenarios to it.                                         *)
EXTENDS Delivery

DemandMet == {t \in Tree : t.entry # None /\ t.app = t.e2e}
=============================================================================
