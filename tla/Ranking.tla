------------------------------ MODULE Ranking ------------------------------
(***************************************************************************)
(* The members of a finite set in the order of a relation.                 *)
(*                                                                         *)
(* What is sorted is not moved about until it is in order: a member's      *)
(* place is one more than the number of members that come before it.  With *)
(* that, what is known about cardinalities and injections says that        *)
(* sorting loses nothing and makes nothing up, with no induction.          *)
(***************************************************************************)
EXTENDS Integers, FiniteSets

(* R puts the members of S one before the other, all of them. *)
Orders(R, S) ==
  /\ \A x \in S : <<x, x>> \notin R
  /\ \A x, y \in S : x # y => <<x, y>> \in R \/ <<y, x>> \in R
  /\ \A x, y, z \in S : <<x, y>> \in R /\ <<y, z>> \in R => <<x, z>> \in R

Before(R, S, x) == { y \in S : <<y, x>> \in R }

Ranked(S, R) ==
  [n \in 1 .. Cardinality(S) |->
     CHOOSE x \in S : Cardinality(Before(R, S, x)) = n - 1]

(* The places of a sequence, or of any numbered things, by what lies there, and those with
   the same there as they were: what a stable sort goes by. *)
StablyBy(key) ==
  { pair \in (DOMAIN key) \X (DOMAIN key) :
      \/ key[pair[1]] < key[pair[2]]
      \/ key[pair[1]] = key[pair[2]] /\ pair[1] < pair[2] }

(* The elements of a sequence in the order of a relation on its places. *)
Rearranged(s, R) ==
  LET places == Ranked(DOMAIN s, R)
  IN  [n \in DOMAIN places |-> s[places[n]]]
=============================================================================
