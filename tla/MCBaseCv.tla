------------------------------ MODULE MCBaseCv ------------------------------
(* Instances of BaseCv for TLC: the user has at most two requests in       *)
(* flight at a time; they are interchangeable.                             *)
EXTENDS BaseCv, TLC

CONSTANTS r1, r2

Symmetry == Permutations(Requests)
=============================================================================
