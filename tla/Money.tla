------------------------------- MODULE Money -------------------------------
(***************************************************************************)
(* Sums of money over rows of a table.                                     *)
(*                                                                         *)
(* The services add the amounts of a set of rows with Array.reduce.  The   *)
(* order of the rows plays no part, so the sum over the keys S of the      *)
(* amounts f is the number of cents in S: each key k contributes f[k] of   *)
(* them.  A sum that is a cardinality needs no recursion, which lets the   *)
(* proofs add and remove a row with the theorems about finite sets.        *)
(***************************************************************************)
EXTENDS Naturals, FiniteSets

Cents(S, f) == UNION {{k} \X (1 .. f[k]) : k \in S}

Total(S, f) == Cardinality(Cents(S, f))
=============================================================================
