--------------------------- MODULE RentalClients ---------------------------
(***************************************************************************)
(* The contracts together, alone and with the programs that use them from  *)
(* outside.  Alone they run from their deployment, with no bound on what   *)
(* is sent; at any moment a client is opened, and from then on a few       *)
(* transactions come between its steps.  Clients only read the chain and   *)
(* send to it, so that one at a time says what each may see: others are    *)
(* among the senders.                                                      *)
(***************************************************************************)
EXTENDS RentalPanel, AccessCheck

CONSTANTS
  Clients, \* the clients that may be opened
  OpensBy  \* bound on the time at which one is

ASSUME ClientsAssumption == Clients \subseteq {"panel", "check"} /\ OpensBy \in Nat

VARIABLE client

clientsVars == <<client, systemVars, panelVars, checkVars>>

ClientsInit == client = "none" /\ LiquidInit /\ PanelInit /\ CheckInit

ClientOpens ==
  /\ client = "none" /\ client' \in Clients /\ now <= OpensBy
  /\ \/ client' = "panel" /\ PanelOpens /\ UNCHANGED checkVars
     \/ client' = "check" /\ CheckBegins /\ UNCHANGED panelVars

ClientsNext ==
  \/ client = "none" /\ LiquidNext /\ UNCHANGED <<client, panelVars, checkVars>>
  \/ ClientOpens
  \/ client = "panel" /\ PanelNext /\ UNCHANGED <<client, checkVars>>
  \/ client = "check" /\ CheckNext /\ UNCHANGED <<client, panelVars>>

ClientsSpec == ClientsInit /\ [][ClientsNext]_clientsVars /\ PanelFairness
=============================================================================
