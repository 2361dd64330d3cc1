----------------------------- MODULE MCPassCore -----------------------------
(***************************************************************************)
(* The core contract on a small instance: an admin who is an issuer, and a *)
(* holder.                                                                 *)
(***************************************************************************)
EXTENDS PassCore

CONSTANTS adm, ann

(* The holder can afford a pass. *)
Purses == [h \in Holders |-> IF h = ann THEN 2 ELSE 0]
=============================================================================
