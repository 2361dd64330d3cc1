-------------------------------- MODULE Sums --------------------------------
(***************************************************************************)
(* Totals of a function over a finite set.                                 *)
(*                                                                         *)
(* A total is counted, not folded: Sum(f, S) is the number of pairs        *)
(* <<i, k>> with i in S and k in 1..f[i].  For natural-valued f this is    *)
(* the sum of f over S, and what is known about cardinalities (of a union, *)
(* of a subset, of a bijective image) then says everything the proofs need *)
(* about totals, with no induction over S.                                 *)
(***************************************************************************)
EXTENDS Naturals, FiniteSets

Units(f, S) == UNION { {i} \X (1 .. f[i]) : i \in S }

Sum(f, S) == Cardinality(Units(f, S))

(* Amounts put on and taken off one account of a balance sheet.            *)
Credit(sheet, a, amount) == [sheet EXCEPT ![a] = @ + amount]

Debit(sheet, a, amount) == [sheet EXCEPT ![a] = @ - amount]
=============================================================================
