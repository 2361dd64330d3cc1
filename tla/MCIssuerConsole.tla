--------------------------- MODULE MCIssuerConsole ---------------------------
(* The issuer page on a small instance: an admin and two companies.        *)
EXTENDS IssuerConsole

CONSTANTS adm, ann, bob

NoEther == [h \in Holders |-> 0]
=============================================================================
