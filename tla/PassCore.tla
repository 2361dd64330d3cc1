------------------------------ MODULE PassCore ------------------------------
(***************************************************************************)
(* The Liquid Pass core contract (subscription/src/lib.rs): a registry of  *)
(* time-bound passes, the catalogue of plans they are sold from, and the   *)
(* operations that move, divide and merge the access they carry.           *)
(*                                                                         *)
(* One action is one transaction.  A handler that returns Err undoes every *)
(* write it made, so its early returns are the guards of its action.  The  *)
(* caller of a transaction (msg_sender) is the action's first parameter;   *)
(* ZERO, the zero address, never sends one.                                *)
(*                                                                         *)
(* Token and plan ids are allocated from 0 upwards; MaxTokens and MaxPlans *)
(* bound how many a behaviour may use, MaxTime how far the clock may run.  *)
(***************************************************************************)
EXTENDS Chain, Sequences

CONSTANTS
  Admin,       \* the account the constructor is called with
  MaxTokens,   \* bound on next_token_id
  MaxPlans,    \* bound on next_plan_id
  U64Limit,    \* 2^64 in the code, where timestamps and durations wrap
  NewIssuers,  \* accounts tried by set_issuer
  Markets,     \* addresses tried by set_marketplace
  Prices,      \* plan prices and message values tried
  Durations,   \* durations tried by mint and create_plan
  PartCounts,  \* arguments tried by split
  Recipients,  \* addresses tried by transfer_pass
  MaxBundle    \* longest argument tried by bundle

ASSUME AdminAssumption == Admin \in Addr
ASSUME BoundsAssumption ==
  /\ MaxTokens \in Nat \ {0} /\ MaxPlans \in Nat \ {0} /\ MaxBundle \in Nat
  /\ U64Limit \in Nat /\ U64Limit > MaxTime
ASSUME InputsAssumption ==
  /\ NewIssuers \subseteq Holders /\ Markets \subseteq Holders
  /\ Recipients \subseteq Holders
  /\ Prices \subseteq Nat /\ Durations \subseteq Nat /\ PartCounts \subseteq Nat

Tokens == 0 .. MaxTokens - 1
Plans == 0 .. MaxPlans - 1

VARIABLES
  owners, expiries, issuers, starts, token_plans, token_paid, next_token_id,
  plan_issuers, plan_prices, plan_durations, plan_open, next_plan_id,
  allowed_issuers,  \* the addresses mapped to true
  marketplace

tokenVars == <<owners, expiries, issuers, starts, token_plans, token_paid,
               next_token_id>>
planVars == <<plan_issuers, plan_prices, plan_durations, plan_open,
              next_plan_id>>
roleVars == <<allowed_issuers, marketplace>>
coreVars == <<now, eth, tokenVars, planVars, roleVars>>

-----------------------------------------------------------------------------
(* Views.                                                                  *)

is_active(id) == starts[id] <= now /\ now < expiries[id]

remaining_seconds(id) == IF expiries[id] > now THEN expiries[id] - now ELSE 0

(* duration_seconds.try_into().unwrap_or(0): what does not fit becomes 0.  *)
ToU64(n) == IF n < U64Limit THEN n ELSE 0

(* block_timestamp() + duration, in a u64 that wraps in a release build.   *)
ExpiryAfter(duration) == (now + ToU64(duration)) % U64Limit

-----------------------------------------------------------------------------
(* Administration and the catalogue.                                       *)

NoPasses ==
  /\ owners = [i \in Tokens |-> ZERO]
  /\ issuers = [i \in Tokens |-> ZERO]
  /\ expiries = [i \in Tokens |-> 0]
  /\ starts = [i \in Tokens |-> 0]
  /\ token_plans = [i \in Tokens |-> 0]
  /\ token_paid = [i \in Tokens |-> 0]
  /\ next_token_id = 0

Init ==
  /\ ChainInit
  /\ NoPasses
  /\ plan_issuers = [p \in Plans |-> ZERO]
  /\ plan_prices = [p \in Plans |-> 0]
  /\ plan_durations = [p \in Plans |-> 0]
  /\ plan_open = [p \in Plans |-> FALSE]
  /\ next_plan_id = 0
  /\ allowed_issuers = {Admin}
  /\ marketplace = ZERO

(* Mutant: the zero address may be allowed. *)
SetIssuerZero(caller, issuer, allowed) ==
  /\ caller = Admin
  /\ allowed_issuers' = IF allowed THEN allowed_issuers \cup {issuer}
                                   ELSE allowed_issuers \ {issuer}
  /\ UNCHANGED <<now, eth, tokenVars, planVars, marketplace>>

SetIssuer(caller, issuer, allowed) ==
  /\ caller = Admin
  /\ issuer # ZERO
  /\ allowed_issuers' = IF allowed THEN allowed_issuers \cup {issuer}
                                   ELSE allowed_issuers \ {issuer}
  /\ UNCHANGED <<now, eth, tokenVars, planVars, marketplace>>

(* May be called again, and with any address. *)
SetMarketplace(caller, market) ==
  /\ caller = Admin
  /\ marketplace' = market
  /\ UNCHANGED <<now, eth, tokenVars, planVars, allowed_issuers>>

CreatePlan(caller, price, duration) ==
  /\ caller \in allowed_issuers
  /\ price # 0 /\ duration # 0
  /\ next_plan_id < MaxPlans
  /\ plan_issuers' = [plan_issuers EXCEPT ![next_plan_id] = caller]
  /\ plan_prices' = [plan_prices EXCEPT ![next_plan_id] = price]
  /\ plan_durations' = [plan_durations EXCEPT ![next_plan_id] = duration]
  /\ plan_open' = [plan_open EXCEPT ![next_plan_id] = TRUE]
  /\ next_plan_id' = next_plan_id + 1
  /\ UNCHANGED <<now, eth, tokenVars, roleVars>>

SetPlanOpen(caller, plan, open) ==
  /\ plan_issuers[plan] = caller
  /\ plan_open' = [plan_open EXCEPT ![plan] = open]
  /\ UNCHANGED <<now, eth, tokenVars, roleVars, plan_issuers, plan_prices,
                 plan_durations, next_plan_id>>

-----------------------------------------------------------------------------
(* Issuing passes.                                                         *)

NewPass(to, duration, issuer) ==
  /\ next_token_id < MaxTokens
  /\ owners' = [owners EXCEPT ![next_token_id] = to]
  /\ expiries' = [expiries EXCEPT ![next_token_id] = ExpiryAfter(duration)]
  /\ issuers' = [issuers EXCEPT ![next_token_id] = issuer]
  /\ next_token_id' = next_token_id + 1
  /\ UNCHANGED starts

(* A minted pass belongs to no plan and was paid nothing: both mappings keep
   their default, and the default plan is plan 0. *)
Mint(caller, to, duration) ==
  /\ caller \in allowed_issuers
  /\ to # ZERO /\ duration # 0
  /\ NewPass(to, duration, caller)
  /\ UNCHANGED <<now, eth, token_plans, token_paid, planVars, roleVars>>

ExactlyPaid(plan, value) == value = plan_prices[plan]

(* The primary sale: the price goes to the plan's issuer whole, and a pass is
   sold from any open plan, the issuer still allowed or not. *)
BuyPass(caller, plan, value) ==
  LET issuer == plan_issuers[plan]
  IN  /\ issuer # ZERO /\ plan_open[plan]
      /\ value <= eth[caller]
      /\ ExactlyPaid(plan, value)
      /\ issuer \notin Refusing
      /\ NewPass(caller, plan_durations[plan], issuer)
      /\ token_plans' = [token_plans EXCEPT ![next_token_id] = plan]
      /\ token_paid' = [token_paid EXCEPT ![next_token_id] = plan_prices[plan]]
      /\ eth' = Credit(Debit(eth, caller, value), issuer, plan_prices[plan])
      /\ UNCHANGED <<now, planVars, roleVars>>

-----------------------------------------------------------------------------
(* Dividing and merging access.                                            *)

(* Mutant: all slices run at once, to the end. *)
ParallelSlices(id, n) ==
  [k \in 0 .. n - 1 |-> [from |-> now, to |-> expiries[id]]]

(* Mutant: the seconds the division leaves over are lost. *)
EqualSlices(id, n) ==
  LET length == (expiries[id] - now) \div n
  IN  [k \in 0 .. n - 1 |->
         [from |-> now + length * k, to |-> now + length * (k + 1)]]

(* Slice k (from 0) of n, in the order of the ids they are given.          *)
Slices(id, n) ==
  LET length == (expiries[id] - now) \div n
  IN  [k \in 0 .. n - 1 |->
         [from |-> now + length * k,
          to   |-> IF k + 1 = n THEN expiries[id]
                                ELSE now + length * k + length]]

Split(caller, id, parts) ==
  LET n == ToU64(parts)
      fresh == next_token_id .. next_token_id + n - 1
      slice(i) == Slices(id, n)[i - next_token_id]
  IN  /\ owners[id] = caller
      /\ is_active(id)
      /\ 2 <= n /\ n <= 24
      /\ next_token_id + n <= MaxTokens
      /\ owners' = [i \in Tokens |-> CASE i \in fresh -> caller
                                       [] i = id -> ZERO
                                       [] OTHER -> owners[i]]
      /\ starts' = [i \in Tokens |->
                      IF i \in fresh THEN slice(i).from ELSE starts[i]]
      /\ expiries' = [i \in Tokens |-> CASE i \in fresh -> slice(i).to
                                         [] i = id -> 0
                                         [] OTHER -> expiries[i]]
      /\ issuers' = [i \in Tokens |->
                       IF i \in fresh THEN issuers[id] ELSE issuers[i]]
      /\ token_plans' = [i \in Tokens |->
                     IF i \in fresh THEN token_plans[id] ELSE token_plans[i]]
      /\ token_paid' = [i \in Tokens |->
                     IF i \in fresh THEN token_paid[id] \div n ELSE token_paid[i]]
      /\ next_token_id' = next_token_id + n
      /\ UNCHANGED <<now, eth, planVars, roleVars>>

(* Mutant: burning is left until after the loop. *)
OwnerBeforeLoop(ids, k) == owners[ids[k]]

(* The owner the loop of bundle() reads at position k: the loop burns each
   pass before it looks at the next, so an id met twice has no owner left. *)
OwnerAtTurn(ids, k) ==
  IF \E j \in 1 .. k - 1 : ids[j] = ids[k] THEN ZERO ELSE owners[ids[k]]

(* The merged pass starts now, lasts as long as the merged ones together, and
   takes the plan and the issuer of the first. *)
Bundle(caller, ids) ==
  LET turns == 1 .. Len(ids)
      total_rem == Sum([k \in turns |-> remaining_seconds(ids[k])], turns)
      total_paid == Sum([k \in turns |-> token_paid[ids[k]]], turns)
      burned == { ids[k] : k \in turns }
  IN  /\ Len(ids) >= 2
      /\ \A k \in turns : /\ OwnerAtTurn(ids, k) = caller
                          /\ token_plans[ids[k]] = token_plans[ids[1]]
                          /\ is_active(ids[k])
      /\ next_token_id < MaxTokens
      /\ owners' = [i \in Tokens |-> CASE i = next_token_id -> caller
                                       [] i \in burned -> ZERO
                                       [] OTHER -> owners[i]]
      /\ expiries' = [i \in Tokens |-> CASE i = next_token_id -> now + total_rem
                                         [] i \in burned -> 0
                                         [] OTHER -> expiries[i]]
      /\ issuers' = [issuers EXCEPT ![next_token_id] = issuers[ids[1]]]
      /\ token_plans' = [token_plans EXCEPT ![next_token_id] = token_plans[ids[1]]]
      /\ token_paid' = [token_paid EXCEPT ![next_token_id] = total_paid]
      /\ next_token_id' = next_token_id + 1
      /\ UNCHANGED <<now, eth, starts, planVars, roleVars>>

-----------------------------------------------------------------------------
(* Moving passes.                                                          *)

(* Mutant: what the previous owner paid is forgotten. *)
MovePassUnpaid(id, to) ==
  /\ owners' = [owners EXCEPT ![id] = to]
  /\ token_paid' = [token_paid EXCEPT ![id] = 0]
  /\ UNCHANGED <<expiries, issuers, starts, token_plans, next_token_id>>

MovePass(id, to) ==
  /\ owners' = [owners EXCEPT ![id] = to]
  /\ UNCHANGED <<expiries, issuers, starts, token_plans, token_paid,
                 next_token_id>>

(* The recipient may be anyone, the zero address included. *)
TransferPass(caller, to, id) ==
  /\ owners[id] = caller
  /\ MovePass(id, to)
  /\ UNCHANGED <<now, eth, planVars, roleVars>>

MarketTransfer(caller, from, to, id) ==
  /\ caller = marketplace
  /\ owners[id] = from
  /\ MovePass(id, to)
  /\ UNCHANGED <<now, eth, planVars, roleVars>>

Tick == TimePasses /\ UNCHANGED <<tokenVars, planVars, roleVars>>

(* Where the compositions start: set_marketplace and create_plan have been called
   once each, and nothing has been issued. *)
DeployedWithPlan(market, price, duration) ==
  /\ ChainInit
  /\ NoPasses
  /\ plan_issuers = [p \in Plans |-> IF p = 0 THEN Admin ELSE ZERO]
  /\ plan_prices = [p \in Plans |-> IF p = 0 THEN price ELSE 0]
  /\ plan_durations = [p \in Plans |-> IF p = 0 THEN duration ELSE 0]
  /\ plan_open = [p \in Plans |-> p = 0]
  /\ next_plan_id = 1
  /\ allowed_issuers = {Admin}
  /\ marketplace = market

-----------------------------------------------------------------------------
IdLists == UNION { [1 .. n -> Tokens] : n \in 2 .. MaxBundle }

CatalogueStep(caller) ==
  \/ \E a \in NewIssuers, allowed \in BOOLEAN : SetIssuer(caller, a, allowed)
  \/ \E m \in Markets : SetMarketplace(caller, m)
  \/ \E price \in Prices, d \in Durations : CreatePlan(caller, price, d)
  \/ \E p \in Plans, open \in BOOLEAN : SetPlanOpen(caller, p, open)

IssueStep(caller) ==
  \/ \E to \in Addr, d \in Durations : Mint(caller, to, d)
  \/ \E p \in Plans, v \in Prices : BuyPass(caller, p, v)

HolderStep(caller) ==
  \/ \E id \in Tokens, n \in PartCounts : Split(caller, id, n)
  \/ \E ids \in IdLists : Bundle(caller, ids)
  \/ \E to \in Recipients, id \in Tokens : TransferPass(caller, to, id)

Next ==
  \/ Tick
  \/ \E caller \in Addr :
       \/ CatalogueStep(caller)
       \/ IssueStep(caller)
       \/ HolderStep(caller)
       \/ \E from, to \in Holders, id \in Tokens :
            MarketTransfer(caller, from, to, id)

Spec == Init /\ [][Next]_coreVars
-----------------------------------------------------------------------------
(* Access, counted.  A pass covers the seconds of its window; the access it
   still carries is those of them that have not passed.                    *)

Later(s, t) == IF s >= t THEN s ELSE t

SecondsLeft(id) == Later(now, starts[id]) .. expiries[id] - 1

AccessLeft(ids) == Cardinality(UNION { {i} \X SecondsLeft(i) : i \in ids })

HeldBy(h) == { i \in Tokens : owners[i] = h }

(* How many passes cover second t.                                         *)
Cover(t) == Cardinality({ i \in Tokens : starts[i] <= t /\ t < expiries[i] })

(* What the unburned passes were paid, as paid_of reports it.              *)
PaidTotal ==
  Sum([i \in Tokens |-> IF expiries[i] = 0 THEN 0 ELSE token_paid[i]], Tokens)

-----------------------------------------------------------------------------
(* Properties.                                                             *)

(* Every mapping holds what its Solidity type and the handlers allow.      *)
TypeOK ==
  /\ ChainTypeOK
  /\ owners \in [Tokens -> Holders] /\ issuers \in [Tokens -> Holders]
  /\ expiries \in [Tokens -> Nat] /\ starts \in [Tokens -> Nat]
  /\ token_plans \in [Tokens -> Plans] /\ token_paid \in [Tokens -> Nat]
  /\ next_token_id \in 0 .. MaxTokens
  /\ plan_issuers \in [Plans -> Holders]
  /\ plan_prices \in [Plans -> Nat] /\ plan_durations \in [Plans -> Nat]
  /\ plan_open \in [Plans -> BOOLEAN]
  /\ next_plan_id \in 0 .. MaxPlans
  /\ allowed_issuers \subseteq Addr
  /\ marketplace \in Holders

(* Ids not handed out yet are blank: split() and bundle() allocate several
   ids in one call, and what the next issue finds at next_token_id must not
   be somebody's pass.  (The owner is not part of it: market_transfer does not
   ask whether the id was ever issued, and gives one to a blank id.) *)
FreshIdsBlank ==
  \A i \in Tokens : i >= next_token_id =>
    /\ issuers[i] = ZERO /\ expiries[i] = 0 /\ starts[i] = 0
    /\ token_plans[i] = 0 /\ token_paid[i] = 0

TermsKept(i) ==
  /\ issuers'[i] = issuers[i] /\ starts'[i] = starts[i]
  /\ token_plans'[i] = token_plans[i] /\ token_paid'[i] = token_paid[i]
  /\ \/ expiries'[i] = expiries[i]
     \/ expiries'[i] = 0 /\ owners'[i] = ZERO

(* From its issue on, the terms of a pass are fixed through every sale, gift,
   split and merge of it or of others: window, issuer, plan and paidOf stay,
   and the one change is the burn, which ends window and ownership together
   ("paidOf records what the first buyer paid and is never overwritten"). *)
PassTermsFixed == [][\A i \in 0 .. next_token_id - 1 : TermsKept(i)]_coreVars

(* A split leaves, for every second to come, exactly as many passes covering it as
   before: the slices follow one another without gap or overlap ("Parallel
   slices would be four times the access, minted from nothing"). *)
SplitTilesWindow ==
  [][(\E c \in Addr, id \in Tokens, n \in PartCounts : Split(c, id, n))
       => \A t \in now .. U64Limit : Cover(t)' = Cover(t)]_coreVars

(* Only a primary sale raises what the outstanding passes are recorded to have
   cost, and by its price: splits share it out (rounding down), merges add it. *)
PaidOnlyBySale ==
  [][\/ PaidTotal' <= PaidTotal
     \/ \E c \in Addr, p \in Plans, v \in Prices :
          /\ BuyPass(c, p, v)
          /\ PaidTotal' = PaidTotal + v]_coreVars

(* Ether is moved, never made or kept by the core: the accounts together hold
   what they started with ("the contract's balance ends at zero"). *)
EthConserved == Sum(eth, Holders) = Sum(InitEth, Holders)

(* The longest term a pass can be issued for. *)
LongestTerm ==
  LET terms == { ToU64(d) : d \in Durations }
  IN  CHOOSE d \in terms : \A e \in terms : e <= d

(* The registry implements the access ledger: whatever the sequence of splits,
   merges, gifts and sales, access is handed on second for second, and no
   transaction makes more of it than one issue of a pass does. *)
Ledger == INSTANCE AccessLedger WITH
  time <- now,
  credit <- [h \in Holders |-> AccessLeft(HeldBy(h))],
  MaxGrant <- LongestTerm

ImplementsLedger == Ledger!Spec
=============================================================================
