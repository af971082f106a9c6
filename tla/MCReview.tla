------------------------------ MODULE MCReview ------------------------------
(* Instances of Review: one finding about the tests, one about the code, and  *)
(* one only a person can decide.                                              *)
EXTENDS Review

CONSTANTS T, C, H

Routes == [f \in Findings |-> CASE f = T -> "test" [] f = C -> "code" [] OTHER -> "human"]
=============================================================================
