------------------------------ MODULE SetSums ------------------------------
(***************************************************************************)
(* The sum of the values of a function over a finite set: the prices of a  *)
(* set of paths, the RAM of a set of workers, a total over the fleet's     *)
(* hosts.  Its laws are in SetSumsProofs.                                  *)
(***************************************************************************)
EXTENDS Integers, Folds

AnyOf(S) == CHOOSE x \in S : TRUE

SumOver(f, S) == MapThenFoldSet(+, 0, LAMBDA x : f[x], AnyOf, S)
=============================================================================
