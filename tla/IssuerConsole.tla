---------------------------- MODULE IssuerConsole ----------------------------
(***************************************************************************)
(* The issuer page (web/app/issuer/page.tsx, web/components/               *)
(* IssuerAccess.tsx) in one tab, over the inbox and the core.              *)
(*                                                                         *)
(* The page reads in a chain of awaits, each at another block: the wallet's *)
(* own state, then for the admin the length of the list of requesters, the  *)
(* last entries of it, and one by one what each of those has asked for.     *)
(* Nothing stops a read when the wallet of the tab is switched.  It writes  *)
(* through one busy flag for access and another for plans.  Everybody else  *)
(* transacts in between.                                                    *)
(*                                                                         *)
(* A request is known by its time; the form's bounds on the text are those *)
(* of the contract.  The look-up of a typed address is left out.           *)
(***************************************************************************)
EXTENDS IssuerRequests

CONSTANTS
  NoOne,        \* no wallet is connected
  REQUEST_PAGE, \* how many of the most recent requesters the admin's list reads
  MaxLoads,     \* bound on the reads of access in flight
  MaxActions,   \* bound on what is started on the page
  MaxElsewhere  \* bound on the transactions sent elsewhere

ASSUME ConsoleAssumption ==
  /\ NoOne \notin Addr /\ Admin \in Requesters
  /\ REQUEST_PAGE \in Nat /\ MaxLoads \in Nat
  /\ MaxActions \in Nat /\ MaxElsewhere \in Nat

VARIABLES
  account,      \* the connected wallet
  selfAllowed,  \* whether it is an issuer, as last read: yes, no, or null
  myRequest,    \* time of its own request, as last read
  openRequests, \* the rows of the admin's list; none when there is no list
  plans,        \* plans the page shows, and whether they are open
  loads,        \* reads of access in flight
  access,       \* what the access panel is sending
  plan,         \* what the plan tools are sending
  actions,
  elsewhere     \* transactions sent elsewhere so far

readVars == <<selfAllowed, myRequest, openRequests>>
consoleVars == <<account, readVars, plans, loads, access, plan, actions>>
issuerVars == <<requestVars, consoleVars, elsewhere>>

Idle == [kind |-> "none", phase |-> "none", by |-> NoOne, arg |-> NoOne]
Flow(kind, arg) == [kind |-> kind, phase |-> "asking", by |-> account, arg |-> arg]

-----------------------------------------------------------------------------
(* Reading.                                                                *)

(* One run of load(): by whom, how far it is, when it read the length of the list,
   whose answers are outstanding and which have come; awaited, if a flow waits for it. *)
Load(who, awaited) ==
  [of |-> who, step |-> "self", since |-> 0, count |-> 0, todo |-> {}, rows |-> {},
   awaited |-> awaited]

Replaced(l, m) == (loads \ {l}) \cup {m}

(* The flow that waits for this read, if one does, is over. *)
LoadEnds(l) ==
  /\ loads' = loads \ {l}
  /\ access' = IF l.awaited THEN Idle ELSE access

YesNo(who) == IF who \in allowed_issuers THEN "yes" ELSE "no"

ReadSelf(l) ==
  /\ l.step = "self"
  /\ selfAllowed' = IF l.of = NoOne THEN "unknown" ELSE YesNo(l.of)
  /\ loads' = Replaced(l, [l EXCEPT !.step = "mine"])
  /\ UNCHANGED <<requestVars, elsewhere, account, myRequest, openRequests, plans, access, plan, actions>>

ReadMine(l) ==
  /\ l.step = "mine"
  /\ myRequest' = IF l.of = NoOne THEN 0 ELSE requests[l.of]
  /\ \/ /\ l.of = Admin
        /\ loads' = Replaced(l, [l EXCEPT !.step = "count"])
        /\ UNCHANGED <<openRequests, access>>
     \/ /\ l.of # Admin
        /\ openRequests' = {}
        /\ LoadEnds(l)
  /\ UNCHANGED <<requestVars, elsewhere, account, selfAllowed, plans, plan, actions>>

ReadCount(l) ==
  /\ l.step = "count"
  /\ loads' = Replaced(l, [l EXCEPT !.step = "who", !.since = now,
                                    !.count = Len(requesters)])
  /\ UNCHANGED <<requestVars, elsewhere, account, readVars, plans, access, plan, actions>>

(* Mutant: the newest entry is not read. *)
PageShort(count) == { i \in 1 .. count - 1 : i > count - REQUEST_PAGE }

(* The indexes of the page that is read: the last REQUEST_PAGE entries. *)
Page(count) == { i \in 1 .. count : i > count - REQUEST_PAGE }

(* An index past the end of the list is a revert, and the read fails. *)
ReadWho(l) ==
  /\ l.step = "who"
  /\ l.count <= Len(requesters)
  /\ loads' = Replaced(l, [l EXCEPT !.step = "rows",
                                    !.todo = { requesters[i] : i \in Page(l.count) }])
  /\ UNCHANGED <<requestVars, elsewhere, account, readVars, plans, access, plan, actions>>

ReadRow(l, who) ==
  /\ l.step = "rows" /\ who \in l.todo
  /\ loads' = Replaced(l,
       [l EXCEPT !.todo = @ \ {who},
                 !.rows = @ \cup {[requester |-> who, requestedAt |-> requests[who],
                                   allowed |-> who \in allowed_issuers]}])
  /\ UNCHANGED <<requestVars, elsewhere, account, readVars, plans, access, plan, actions>>

(* "Open = filed, not withdrawn or declined, and not already approved." *)
Open(rows) == { r \in rows : r.requestedAt > 0 /\ ~r.allowed }

ListArrives(l) ==
  /\ l.step = "rows" /\ l.todo = {}
  /\ openRequests' = Open(l.rows)
  /\ LoadEnds(l)
  /\ UNCHANGED <<requestVars, elsewhere, account, selfAllowed, myRequest, plans, plan, actions>>

(* A read fails: an error is shown, and what was set before stays. *)
ReadFails(l) ==
  /\ LoadEnds(l)
  /\ UNCHANGED <<requestVars, elsewhere, account, readVars, plans, plan, actions>>

Acts == actions < MaxActions /\ actions' = actions + 1

(* The wallet is switched, connected or disconnected: access is read for the new one,
   and until then the page shows what it had. *)
SwitchAccount(who) ==
  /\ who # account /\ Acts
  /\ Cardinality(loads) < MaxLoads
  /\ account' = who
  /\ loads' = loads \cup {Load(who, FALSE)}
  /\ UNCHANGED <<requestVars, elsewhere, readVars, plans, access, plan>>

(* fetchPlans(), taken at one block; a failure keeps what was there. *)
Plan(id) == [id |-> id, open |-> plan_open[id], issuer |-> plan_issuers[id]]
PlansRead == { Plan(id) : id \in { p \in Plans : p < next_plan_id } }

-----------------------------------------------------------------------------
(* The controls.                                                           *)

isAdmin == account = Admin

(* Press, in the access panel. *)
Send(kind, arg) ==
  /\ access = Idle /\ Acts
  /\ access' = Flow(kind, arg)
  /\ UNCHANGED <<requestVars, elsewhere, account, readVars, plans, loads, plan>>

(* What is on the page for the wallet that is connected, by what was read last. *)
AnswerOffered(r) == isAdmin /\ r \in openRequests
RolesOffered == isAdmin
RequestOffered == ~isAdmin /\ account # NoOne /\ selfAllowed = "no" /\ myRequest = 0
WithdrawOffered == ~isAdmin /\ account # NoOne /\ selfAllowed = "no" /\ myRequest > 0
PlanToolsOffered == account # NoOne /\ selfAllowed = "yes"
ToggleOffered(p) == PlanToolsOffered /\ p \in plans /\ p.issuer = account

Approve(r) == AnswerOffered(r) /\ Send("grant", r.requester)
Decline(r) == AnswerOffered(r) /\ Send("dismiss", r.requester)

(* Authorise and Revoke, for an address typed by the admin. *)
Submit(who, allowed) ==
  /\ RolesOffered /\ who # ZERO
  /\ Send(IF allowed THEN "grant" ELSE "revoke", who)

FileRequest == RequestOffered /\ Send("request", account)
WithdrawOwn == WithdrawOffered /\ Send("withdraw", account)

PressPlan(kind, arg) ==
  /\ plan = Idle /\ Acts
  /\ plan' = Flow(kind, arg)
  /\ UNCHANGED <<requestVars, elsewhere, account, readVars, plans, loads, access>>

handleCreatePlan(price, duration) ==
  /\ PlanToolsOffered /\ price > 0 /\ duration >= 1
  /\ PressPlan("create", [price |-> price, duration |-> duration])

(* Sets the plan to the opposite of what the page shows. *)
handleTogglePlan(p) == ToggleOffered(p) /\ PressPlan("toggle", p)

-----------------------------------------------------------------------------
(* Sending.                                                                *)

(* The wallet prompt: confirmed, rejected, or left standing.  A plan is pinned to IPFS
   before, which may fail and does not matter. *)
AnswerAccess ==
  /\ access.phase = "asking"
  /\ access' \in {[access EXCEPT !.phase = "pending"], Idle}
  /\ UNCHANGED <<requestVars, elsewhere, account, readVars, plans, loads, plan, actions>>

AnswerPlan ==
  /\ plan.phase = "asking"
  /\ plan' \in {[plan EXCEPT !.phase = "pending"], Idle}
  /\ UNCHANGED <<requestVars, elsewhere, account, readVars, plans, loads, access, actions>>

AtCore(step) == step /\ UNCHANGED inboxVars

Execute(f) ==
  CASE f.kind = "grant"    -> AtCore(SetIssuer(f.by, f.arg, TRUE))
    [] f.kind = "revoke"   -> AtCore(SetIssuer(f.by, f.arg, FALSE))
    [] f.kind = "dismiss"  -> Dismiss(f.by, f.arg)
    [] f.kind = "request"  -> Request(f.by)
    [] f.kind = "withdraw" -> WithdrawRequest(f.by)
    [] f.kind = "create"   -> AtCore(CreatePlan(f.by, f.arg.price, f.arg.duration))
    [] f.kind = "toggle"   -> AtCore(SetPlanOpen(f.by, f.arg.id, ~f.arg.open))

(* Mined with success or without: gas limits are fixed, so either may come. *)
AccessMined ==
  /\ access.phase = "pending"
  /\ \/ Execute(access) /\ access' = [access EXCEPT !.phase = "mined"]
     \/ UNCHANGED requestVars /\ access' = [access EXCEPT !.phase = "reverted"]
  /\ UNCHANGED <<elsewhere, account, readVars, plans, loads, plan, actions>>

PlanMined ==
  /\ plan.phase = "pending"
  /\ \/ Execute(plan) /\ plan' = [plan EXCEPT !.phase = "mined"]
     \/ UNCHANGED requestVars /\ plan' = [plan EXCEPT !.phase = "reverted"]
  /\ UNCHANGED <<elsewhere, account, readVars, plans, loads, access, actions>>

(* Mutant: what is shown is done as soon as it is mined. *)
ReceiptUnread ==
  /\ access.phase \in {"mined", "reverted"}
  /\ access' = IF access.phase = "mined" THEN [access EXCEPT !.phase = "reading"] ELSE Idle
  /\ UNCHANGED <<requestVars, elsewhere, account, readVars, plans, loads, plan, actions>>

(* send(): a revert is an error and ends the flow; success has access read again, by the
   wallet the handler was made for, and the flag is down when that is through. *)
AccessReceipt ==
  /\ access.phase \in {"mined", "reverted"}
  /\ IF access.phase = "mined"
     THEN /\ access' = [access EXCEPT !.phase = "reading"]
          /\ loads' = loads \cup {Load(access.by, TRUE)}
     ELSE access' = Idle /\ UNCHANGED loads
  /\ UNCHANGED <<requestVars, elsewhere, account, readVars, plans, plan, actions>>

PlanReceipt ==
  /\ plan.phase \in {"mined", "reverted"}
  /\ plans' \in IF plan.phase = "mined" THEN {PlansRead, plans} ELSE {plans}
  /\ plan' = Idle
  /\ UNCHANGED <<requestVars, elsewhere, account, readVars, loads, access, actions>>

(* onChanged, or the page opens: the plans are read. *)
PlansReload ==
  /\ plans' = PlansRead
  /\ UNCHANGED <<requestVars, elsewhere, account, readVars, loads, access, plan, actions>>

-----------------------------------------------------------------------------
ConsoleInit ==
  /\ RequestInit
  /\ account \in Requesters \cup {NoOne}
  /\ selfAllowed = "unknown" /\ myRequest = 0 /\ openRequests = {}
  /\ plans = {} /\ loads = {Load(account, FALSE)}
  /\ access = Idle /\ plan = Idle /\ actions = 0 /\ elsewhere = 0

LoadStep(l) ==
  \/ ReadSelf(l) \/ ReadMine(l) \/ ReadCount(l) \/ ReadWho(l)
  \/ \E who \in l.todo : ReadRow(l, who)
  \/ ListArrives(l) \/ ReadFails(l)

AccessStep == AnswerAccess \/ AccessMined \/ AccessReceipt
PlanStep == AnswerPlan \/ PlanMined \/ PlanReceipt

Press ==
  \/ \E r \in openRequests : Approve(r) \/ Decline(r)
  \/ \E who \in Requesters, allowed \in BOOLEAN : Submit(who, allowed)
  \/ FileRequest \/ WithdrawOwn
  \/ \E price \in Prices, d \in Durations : handleCreatePlan(price, d)
  \/ \E p \in plans : handleTogglePlan(p)

(* Somebody transacts away from this tab. *)
Elsewhere ==
  /\ elsewhere < MaxElsewhere
  /\ elsewhere' = elsewhere + 1
  /\ \/ \E caller \in Addr : CatalogueStep(caller) /\ UNCHANGED inboxVars
     \/ \E caller \in Requesters : InboxStep(caller)
  /\ UNCHANGED consoleVars

ConsoleNext ==
  \/ Tick /\ UNCHANGED <<inboxVars, consoleVars, elsewhere>>
  \/ Elsewhere
  \/ \E l \in loads : LoadStep(l)
  \/ \E who \in Requesters \cup {NoOne} : SwitchAccount(who)
  \/ Press \/ AccessStep \/ PlanStep \/ PlansReload

(* Nodes answer, blocks are made, and a prompt is answered in the end. *)
ConsoleFairness ==
  /\ WF_issuerVars(AccessStep) /\ WF_issuerVars(PlanStep)
  /\ WF_issuerVars(\E l \in loads : l.awaited /\ LoadStep(l))

ConsoleSpec == ConsoleInit /\ [][ConsoleNext]_issuerVars /\ ConsoleFairness

-----------------------------------------------------------------------------
(* The list the admin reads misses nobody it means to show: whoever was among the most
   recent requesters with an open request when the length of the list was read, and has
   it still when the list is shown, is in it, unless the core said meanwhile that they
   are an issuer.  The reads are made at as many blocks, the list grows and requests
   come and go between them. *)
NobodySkipped ==
  [][\A l \in loads : ListArrives(l) =>
       \A i \in 1 .. l.count :
         LET a == requesters[i]
         IN  l.count - i < REQUEST_PAGE /\ requests[a] # 0 /\ requests[a] < l.since =>
               \/ \E r \in openRequests' : r.requester = a /\ r.requestedAt = requests[a]
               \/ \E r \in l.rows : r.requester = a /\ r.allowed]_issuerVars

(* The controls come back: whatever is rejected, reverts or cannot be read, no flag stays
   up once the wallet has answered. *)
ConsoleFlowsEnd == []<>(access = Idle) /\ []<>(plan = Idle)
=============================================================================
