---------------------------- MODULE AccessLedger ----------------------------
(***************************************************************************)
(* What the pass registry promises about access, with passes forgotten:    *)
(* every holder has a credit, the seconds of access still to come on what  *)
(* it holds.  Credit lapses only with time; at any one time it is granted  *)
(* by an issue, of at most MaxGrant seconds, or handed from one holder to  *)
(* another, and nothing else changes it: dividing and merging passes is    *)
(* not seen here at all.                                                   *)
(***************************************************************************)
EXTENDS Integers

CONSTANTS Holders, MaxGrant

VARIABLES time, credit

Init == credit = [h \in Holders |-> 0] /\ time \in Nat

(* What a step does to the credits, from before to after. *)

Lapse(before, after) ==
  /\ time' > time
  /\ DOMAIN after = Holders
  /\ \A h \in Holders : after[h] \in 0 .. before[h]

Grant(before, after, h) ==
  /\ time' = time
  /\ after[h] - before[h] \in 0 .. MaxGrant
  /\ after = [before EXCEPT ![h] = after[h]]

Give(before, after, giver, taker) ==
  LET given == before[giver] - after[giver]
  IN  /\ time' = time
      /\ given \in 0 .. before[giver]
      /\ after = [before EXCEPT ![giver] = @ - given, ![taker] = @ + given]

Next ==
  \E before \in {credit}, after \in {credit'} :
    \/ Lapse(before, after)
    \/ \E h \in Holders : Grant(before, after, h)
    \/ \E giver, taker \in Holders : Give(before, after, giver, taker)

Spec == Init /\ [][Next]_<<time, credit>>
=============================================================================
