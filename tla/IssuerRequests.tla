--------------------------- MODULE IssuerRequests ---------------------------
(***************************************************************************)
(* The inbox for issuer-access requests (contracts/src/IssuerRequests.sol) *)
(* beside the core it reads: whom the core's admin makes an issuer with    *)
(* set_issuer() is the core's business, and the inbox learns of it only    *)
(* when it asks.  Of a request only its time matters here; company and     *)
(* note are text within bounds.                                            *)
(***************************************************************************)
EXTENDS PassCore

CONSTANT Requesters  \* accounts that file requests

ASSUME RequestersAssumption == Requesters \subseteq Addr

VARIABLES
  requests,    \* requestedAt of each account's request, 0 when there is none
  requesters,  \* every address that has ever filed, in order
  seen

inboxVars == <<requests, requesters, seen>>
requestVars == <<coreVars, inboxVars>>

InboxInit ==
  /\ requests = [a \in Addr |-> 0]
  /\ requesters = << >>
  /\ seen = {}

(* Files a request or replaces the one that is open.                       *)
Request(caller) ==
  /\ caller \notin allowed_issuers
  /\ requests' = [requests EXCEPT ![caller] = now]
  /\ IF caller \in seen
     THEN UNCHANGED <<seen, requesters>>
     ELSE /\ seen' = seen \cup {caller}
          /\ requesters' = Append(requesters, caller)
  /\ UNCHANGED coreVars

(* Mutant: a request taken back is also forgotten. *)
WithdrawForgotten(caller) ==
  /\ requests[caller] # 0
  /\ requests' = [requests EXCEPT ![caller] = 0]
  /\ seen' = seen \ {caller}
  /\ UNCHANGED <<coreVars, requesters>>

WithdrawRequest(caller) ==
  /\ requests[caller] # 0
  /\ requests' = [requests EXCEPT ![caller] = 0]
  /\ UNCHANGED <<coreVars, seen, requesters>>

(* Approved or declined, before or after set_issuer(): the inbox does not tell. *)
Dismiss(caller, requester) ==
  /\ caller = Admin
  /\ requests[requester] # 0
  /\ requests' = [requests EXCEPT ![requester] = 0]
  /\ UNCHANGED <<coreVars, seen, requesters>>

InboxStep(caller) ==
  \/ Request(caller)
  \/ WithdrawRequest(caller)
  \/ \E a \in Addr : Dismiss(caller, a)

RequestInit == Init /\ InboxInit

RequestNext ==
  \/ Tick /\ UNCHANGED inboxVars
  \/ \E caller \in Addr : CatalogueStep(caller) /\ UNCHANGED inboxVars
  \/ \E caller \in Requesters : InboxStep(caller)

RequestSpec == RequestInit /\ [][RequestNext]_requestVars

-----------------------------------------------------------------------------
RequestTypeOK ==
  /\ requests \in [Addr -> 0 .. MaxTime]
  /\ requesters \in Seq(Addr)
  /\ seen \subseteq Addr

(* The list names everybody who has an open request, so that a reader who pages
   through it misses none; and nobody twice, whatever was filed, replaced,
   withdrawn and dismissed ("the list only ever grows by one entry per distinct
   address"). *)
ListComplete ==
  /\ \A a \in Addr : requests[a] # 0 => \E i \in 1 .. Len(requesters) : requesters[i] = a
  /\ \A i, j \in 1 .. Len(requesters) : requesters[i] = requesters[j] => i = j

(* Readers page through the list by position: an entry stays where it is. *)
PositionsKept ==
  [][\A i \in 1 .. Len(requesters) :
       i <= Len(requesters') /\ requesters'[i] = requesters[i]]_requestVars
=============================================================================
