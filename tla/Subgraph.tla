------------------------------ MODULE Subgraph ------------------------------
(***************************************************************************)
(* The indexer (subgraph/src) behind the chain it reads.  A transaction    *)
(* appends its events to `pending` in log order; Handle takes the oldest   *)
(* and runs the one handler written for it.  The index is never told of    *)
(* anything else, and has no way of asking the contracts.  The web reads    *)
(* the index through web/lib/graphql.ts: what it makes of a row is GqlPass. *)
(*                                                                         *)
(* A nullable number is 0 when it is null: no plan is free, and nothing is *)
(* listed at nothing.                                                      *)
(***************************************************************************)
EXTENDS Marketplace

CONSTANTS
  MintIds,     \* ids the issuer mints at: bounds the number of mints
  Openings,    \* arguments tried by set_plan_open
  MaxLag,      \* bound on the events a transaction finds waiting
  MaxRows,     \* bound on the event rows a transaction finds in the index
  RecentRows   \* what fetchActivityGql asks for, 25 in the code

ASSUME LagAssumption ==
  MaxLag \in Nat /\ MaxRows \in Nat /\ RecentRows \in Nat \ {0}
  /\ Openings \subseteq BOOLEAN /\ MintIds \subseteq Nat

VARIABLES
  pending,    \* events emitted and not handled yet, oldest first
  blocks,     \* the block each of them is of: one a moment of the clock
  planRows, passRows,  \* rows by id: functions on the ids indexed so far
  eventRows,  \* the event rows, the one saved last first
  totals      \* the one Marketplace row

indexVars == <<planRows, passRows, eventRows, totals>>
subgraphVars == <<vars, pending, blocks, indexVars>>

Kinds == {"MINTED", "PURCHASED", "LISTED", "UNLISTED", "RESOLD"}
NoPlan == -1

-----------------------------------------------------------------------------
(* The events, with the parameters the generated classes read from the log. *)

PlanCreated(planId, issuer, price, duration) ==
  [event |-> "PlanCreated", planId |-> planId, issuer |-> issuer,
   price |-> price, durationSeconds |-> duration]

PlanOpenSet(planId, open) ==
  [event |-> "PlanOpenSet", planId |-> planId, open |-> open]

PassPurchased(tokenId, planId, buyer, price, expiry) ==
  [event |-> "PassPurchased", tokenId |-> tokenId, planId |-> planId,
   buyer |-> buyer, price |-> price, expiry |-> expiry]

Minted(tokenId, to, issuer, expiry) ==
  [event |-> "Minted", tokenId |-> tokenId, to |-> to, issuer |-> issuer,
   expiry |-> expiry]

PassTransferred(to, tokenId) ==
  [event |-> "PassTransferred", to |-> to, tokenId |-> tokenId]

Listed(tokenId, price) == [event |-> "Listed", tokenId |-> tokenId, price |-> price]

Unlisted(tokenId) == [event |-> "Unlisted", tokenId |-> tokenId]

Bought(tokenId, buyer, price, royalty) ==
  [event |-> "Bought", tokenId |-> tokenId, buyer |-> buyer, price |-> price,
   royalty |-> royalty]

-----------------------------------------------------------------------------
(* The transactions, with what they emit.                                  *)

Emit(events) ==
  /\ Len(pending) <= MaxLag /\ Len(eventRows) <= MaxRows
  /\ pending' = pending \o events
  /\ blocks' = [k \in DOMAIN pending' |-> IF k \in DOMAIN blocks THEN blocks[k] ELSE now]
  /\ UNCHANGED indexVars

OnCore(step) == step /\ UNCHANGED <<escrowVars, marketVars>>

EmitMint(caller, to, d) ==
  /\ next_token_id \in MintIds
  /\ OnCore(Mint(caller, to, d))
  /\ Emit(<<Minted(next_token_id, to, caller, ExpiryAfter(d)),
            PassTransferred(to, next_token_id)>>)

EmitBuyPass(caller, p, v) ==
  /\ OnCore(BuyPass(caller, p, v))
  /\ Emit(<<PassPurchased(next_token_id, p, caller, plan_prices[p],
                          ExpiryAfter(plan_durations[p])),
            PassTransferred(caller, next_token_id)>>)

(* The pass that is burned is not mentioned.                               *)
EmitSplit(caller, id, n) ==
  /\ OnCore(Split(caller, id, n))
  /\ Emit([k \in 1 .. n |-> PassTransferred(caller, next_token_id + k - 1)])

EmitBundle(caller, ids) ==
  /\ OnCore(Bundle(caller, ids))
  /\ Emit([k \in 1 .. Len(ids) |-> PassTransferred(ZERO, ids[k])]
            \o <<PassTransferred(caller, next_token_id)>>)

EmitTransfer(caller, to, id) ==
  /\ OnCore(TransferPass(caller, to, id))
  /\ Emit(<<PassTransferred(to, id)>>)

EmitSetPlanOpen(caller, p, open) ==
  /\ OnCore(SetPlanOpen(caller, p, open))
  /\ Emit(<<PlanOpenSet(p, open)>>)

EmitList(caller, id, price) ==
  /\ List(caller, id, price)
  /\ Emit(<<Listed(id, price)>>)

EmitUnlist(caller, id) ==
  /\ Unlist(caller, id)
  /\ Emit(<<Unlisted(id)>>)

EmitBuy(caller, id, v) ==
  /\ Buy(caller, id, v)
  /\ Emit(<<PassTransferred(caller, id),
            Bought(id, caller, currentPrice(id), currentPrice(id) \div 10)>>)

-----------------------------------------------------------------------------
(* The rows.                                                               *)

PlanRow == [issuer : Holders, price : Nat, durationSeconds : Nat, open : BOOLEAN]

PassRow ==
  [plan : Plans \cup {NoPlan}, owner : Holders, issuer : Holders, expiry : Nat,
   originalPrice : Nat, listedPrice : Nat, resaleCount : Nat]

EventRow == [pass : Tokens, kind : Kinds, blockNumber : Nat]

TotalsRow ==
  [plans : Nat, passesIssued : Nat, passesSold : Nat, resales : Nat,
   primaryVolume : Nat, resaleVolume : Nat, royaltiesPaid : Nat]

(* The row every handler starts from when there is none. *)
NoTotals ==
  [plans |-> 0, passesIssued |-> 0, passesSold |-> 0, resales |-> 0,
   primaryVolume |-> 0, resaleVolume |-> 0, royaltiesPaid |-> 0]

Saved(rows, id, row) ==
  [i \in DOMAIN rows \cup {id} |-> IF i = id THEN row ELSE rows[i]]

recordEvent(id, kind) ==
  eventRows' = <<[pass |-> id, kind |-> kind, blockNumber |-> Head(blocks)]>> \o eventRows

-----------------------------------------------------------------------------
(* The handlers.                                                           *)

handlePlanCreated(e) ==
  /\ planRows' = Saved(planRows, e.planId,
                  [issuer |-> e.issuer, price |-> e.price,
                   durationSeconds |-> e.durationSeconds, open |-> TRUE])
  /\ totals' = [totals EXCEPT !.plans = @ + 1]
  /\ UNCHANGED <<passRows, eventRows>>

handlePlanOpenSet(e) ==
  /\ planRows' = IF e.planId \in DOMAIN planRows
                 THEN [planRows EXCEPT ![e.planId].open = e.open]
                 ELSE planRows
  /\ UNCHANGED <<passRows, eventRows, totals>>

handlePassPurchased(e) ==
  /\ passRows' = Saved(passRows, e.tokenId,
       [plan |-> e.planId, owner |-> e.buyer,
        issuer |-> IF e.planId \in DOMAIN planRows THEN planRows[e.planId].issuer
                                                   ELSE e.buyer,
        expiry |-> e.expiry, originalPrice |-> e.price, listedPrice |-> 0,
        resaleCount |-> 0])
  /\ recordEvent(e.tokenId, "PURCHASED")
  /\ totals' = [totals EXCEPT !.passesIssued = @ + 1, !.passesSold = @ + 1,
                              !.primaryVolume = @ + e.price]
  /\ UNCHANGED planRows

(* Mutant: a pass nobody has a row for is taken for one of another registry. *)
MintedUnknown(e) == UNCHANGED indexVars

(* A row that is there already would keep its plan.                        *)
handleMinted(e) ==
  /\ passRows' = Saved(passRows, e.tokenId,
       [plan |-> IF e.tokenId \in DOMAIN passRows THEN passRows[e.tokenId].plan
                                                  ELSE NoPlan,
        owner |-> e.to, issuer |-> e.issuer, expiry |-> e.expiry,
        originalPrice |-> 0, listedPrice |-> 0, resaleCount |-> 0])
  /\ recordEvent(e.tokenId, "MINTED")
  /\ totals' = [totals EXCEPT !.passesIssued = @ + 1]
  /\ UNCHANGED planRows

(* Events of a pass without a row are dropped: of a slice or a bundle, which
   no event introduces. *)
Unknown(e) ==
  /\ e.tokenId \notin DOMAIN passRows
  /\ UNCHANGED indexVars

Known(e) == e.tokenId \in DOMAIN passRows

handlePassTransferred(e) ==
  \/ Unknown(e)
  \/ /\ Known(e)
     /\ passRows' = [passRows EXCEPT ![e.tokenId].owner = e.to]
     /\ UNCHANGED <<planRows, eventRows, totals>>

handleListed(e) ==
  \/ Unknown(e)
  \/ /\ Known(e)
     /\ passRows' = [passRows EXCEPT ![e.tokenId].listedPrice = e.price]
     /\ recordEvent(e.tokenId, "LISTED")
     /\ UNCHANGED <<planRows, totals>>

handleUnlisted(e) ==
  \/ Unknown(e)
  \/ /\ Known(e)
     /\ passRows' = [passRows EXCEPT ![e.tokenId].listedPrice = 0]
     /\ recordEvent(e.tokenId, "UNLISTED")
     /\ UNCHANGED <<planRows, totals>>

(* Mutant: the listing of a pass that was sold stands. *)
BoughtStillListed(e) ==
  \/ Unknown(e)
  \/ /\ Known(e)
     /\ passRows' = [passRows EXCEPT ![e.tokenId].owner = e.buyer,
                                     ![e.tokenId].resaleCount = @ + 1]
     /\ recordEvent(e.tokenId, "RESOLD")
     /\ totals' = [totals EXCEPT !.resales = @ + 1, !.resaleVolume = @ + e.price,
                                 !.royaltiesPaid = @ + e.royalty]
     /\ UNCHANGED planRows

(* Mutant: price and royalty are taken for one another. *)
BoughtSwapped(e) ==
  \/ Unknown(e)
  \/ /\ Known(e)
     /\ passRows' = [passRows EXCEPT ![e.tokenId].owner = e.buyer,
                                     ![e.tokenId].listedPrice = 0,
                                     ![e.tokenId].resaleCount = @ + 1]
     /\ recordEvent(e.tokenId, "RESOLD")
     /\ totals' = [totals EXCEPT !.resales = @ + 1, !.resaleVolume = @ + e.royalty,
                                 !.royaltiesPaid = @ + e.price]
     /\ UNCHANGED planRows

handleBought(e) ==
  \/ Unknown(e)
  \/ /\ Known(e)
     /\ passRows' = [passRows EXCEPT ![e.tokenId].owner = e.buyer,
                                     ![e.tokenId].listedPrice = 0,
                                     ![e.tokenId].resaleCount = @ + 1]
     /\ recordEvent(e.tokenId, "RESOLD")
     /\ totals' = [totals EXCEPT !.resales = @ + 1, !.resaleVolume = @ + e.price,
                                 !.royaltiesPaid = @ + e.royalty]
     /\ UNCHANGED planRows

Handle ==
  LET e == Head(pending)
  IN  /\ pending # << >>
      /\ pending' = Tail(pending) /\ blocks' = Tail(blocks)
      /\ \/ e.event = "PlanCreated" /\ handlePlanCreated(e)
         \/ e.event = "PlanOpenSet" /\ handlePlanOpenSet(e)
         \/ e.event = "PassPurchased" /\ handlePassPurchased(e)
         \/ e.event = "Minted" /\ handleMinted(e)
         \/ e.event = "PassTransferred" /\ handlePassTransferred(e)
         \/ e.event = "Listed" /\ handleListed(e)
         \/ e.event = "Unlisted" /\ handleUnlisted(e)
         \/ e.event = "Bought" /\ handleBought(e)
      /\ UNCHANGED vars

-----------------------------------------------------------------------------
(* What the web makes of the rows.                                         *)

(* The row as a pass of the app; the price "is approximate" and is what was
   asked. *)
GqlPass(i) ==
  LET row == passRows[i]
  IN  [planId |-> IF row.plan = NoPlan THEN 0 ELSE row.plan,
       owner |-> row.owner, issuer |-> row.issuer, expiry |-> row.expiry,
       paid |-> row.originalPrice, listed |-> row.listedPrice,
       current |-> row.listedPrice, active |-> row.expiry > now]

GqlPlan(p) ==
  LET row == planRows[p]
  IN  [price |-> row.price, duration |-> row.durationSeconds,
       issuer |-> row.issuer, open |-> row.open]

AppKind(kind) ==
  CASE kind = "PURCHASED" -> "PassPurchased" [] kind = "LISTED" -> "Listed"
    [] kind = "UNLISTED" -> "Unlisted" [] kind = "RESOLD" -> "Bought"
    [] kind = "MINTED" -> "Minted" [] OTHER -> "PassTransferred"

GqlEvent(row) ==
  [kind |-> AppKind(row.kind), tokenId |-> row.pass, blockNumber |-> row.blockNumber]

(* The query asks for the first rows by the number of the block alone, newest first: rows
   of one block come in the order of their ids, which begin with a hash, so in any. *)
ServedBy(order) ==
  LET block(r) == eventRows[r].blockNumber
  IN  /\ \A j, k \in DOMAIN order :
           j < k => order[j] # order[k] /\ block(order[j]) >= block(order[k])
      /\ \A r \in DOMAIN eventRows : \A k \in DOMAIN order :
           block(r) > block(order[k]) => \E j \in DOMAIN order : order[j] = r

Shown == { k \in DOMAIN eventRows : k <= RecentRows }

(* What the query may be answered. *)
GqlActivity ==
  { [k \in Shown |-> GqlEvent(eventRows[order[k]])] :
      order \in { o \in [Shown -> DOMAIN eventRows] : ServedBy(o) } }

-----------------------------------------------------------------------------
(* The deployment: the first event is the plan's.                          *)
SubgraphInit ==
  /\ SystemInit
  /\ pending = <<PlanCreated(0, Admin, PlanPrice, PlanDuration)>> /\ blocks = <<now>>
  /\ planRows = << >> /\ passRows = << >>
  /\ eventRows = << >> /\ totals = NoTotals

HolderEmits(caller) ==
  \/ \E p \in Plans, v \in Prices : EmitBuyPass(caller, p, v)
  \/ \E ids \in IdLists : EmitBundle(caller, ids)
  \/ \E id \in Tokens :
       \/ \E n \in PartCounts : EmitSplit(caller, id, n)
       \/ \E to \in Recipients : EmitTransfer(caller, to, id)
       \/ \E price \in AskPrices : EmitList(caller, id, price)
       \/ EmitUnlist(caller, id)
       \/ \E v \in Values : EmitBuy(caller, id, v)

IssuerEmits ==
  \/ \E to \in Recipients, d \in Durations : EmitMint(Admin, to, d)
  \/ \E p \in Plans, open \in Openings : EmitSetPlanOpen(Admin, p, open)

SubgraphNext ==
  \/ Tick /\ UNCHANGED <<escrowVars, marketVars, pending, blocks, indexVars>>
  \/ IssuerEmits
  \/ \E caller \in Users : HolderEmits(caller)
  \/ Handle

(* The indexer does not stop: an event emitted is handled in the end.      *)
SubgraphSpec ==
  SubgraphInit /\ [][SubgraphNext]_subgraphVars /\ WF_subgraphVars(Handle)

-----------------------------------------------------------------------------
CaughtUp == pending = << >>

Burned(i) == expiries[i] = 0

(* Every row has the fields schema.graphql demands, and what it refers to has a row of
   its own: the app asks for fields of it. *)
RowsConform ==
  /\ \A p \in DOMAIN planRows : planRows[p] \in PlanRow
  /\ \A i \in DOMAIN passRows : /\ passRows[i] \in PassRow
                                 /\ passRows[i].plan \in DOMAIN planRows \cup {NoPlan}
  /\ \A k \in DOMAIN eventRows : /\ eventRows[k] \in EventRow
                                  /\ eventRows[k].pass \in DOMAIN passRows
  /\ totals \in TotalsRow

(* Nothing else is recorded of the pass in the block of the row. *)
AloneInBlock(e) ==
  \A j, k \in DOMAIN eventRows :
    (\A r \in {j, k} : /\ eventRows[r].pass = e.tokenId
                       /\ eventRows[r].blockNumber = e.blockNumber) => j = k

(* However the query is answered, what the feed says first of a pass is how the pass
   stands in the index, unless it is one of several things that happened to the pass in
   that block: then the feed may have them the wrong way round. *)
FeedAgrees ==
  \A feed \in GqlActivity : \A k \in DOMAIN feed :
    (\A j \in 1 .. k - 1 : feed[j].tokenId # feed[k].tokenId) /\ AloneInBlock(feed[k]) =>
      /\ feed[k].kind = "Listed" => GqlPass(feed[k].tokenId).listed > 0
      /\ feed[k].kind \in {"Unlisted", "Bought"} => GqlPass(feed[k].tokenId).listed = 0

PlansAgree ==
  \A p \in 0 .. next_plan_id - 1 :
    /\ p \in DOMAIN planRows
    /\ GqlPlan(p) = [price |-> plan_prices[p], duration |-> plan_durations[p],
                     issuer |-> plan_issuers[p], open |-> plan_open[p]]

(* A pass that was burned is left out: no event tells of the end of one that was split.
   The price shown is the ask, which the price of the contract never exceeds. *)
PassesAgree ==
  \A i \in DOMAIN passRows :
    ~ Burned(i) =>
      /\ GqlPass(i) = [planId |-> token_plans[i], owner |-> owners[i],
                       issuer |-> issuers[i], expiry |-> expiries[i],
                       paid |-> token_paid[i], listed |-> listings[i].openingPrice,
                       current |-> listings[i].openingPrice,
                       active |-> is_active(i)]
      /\ currentPrice(i) <= GqlPass(i).current

(* The index hangs together at every moment, whichever event it has come to; and what the
   app is shown of plans and passes is what the contracts hold, once it has caught up. *)
IndexAgrees ==
  RowsConform /\ FeedAgrees /\ (CaughtUp => PlansAgree /\ PassesAgree)

(* The volumes never claim more than the issuer has been paid, however far the
   index lags; and account for all of it when it has caught up, unless a pass it
   never learns of (a slice, a bundle) was resold meanwhile. *)
RevenueAccounted ==
  LET paid == eth[Admin] - InitEth[Admin]
      counted == totals.primaryVolume + totals.royaltiesPaid
  IN  /\ counted <= paid
      /\ CaughtUp /\ 0 .. next_token_id - 1 \subseteq DOMAIN passRows => counted = paid

Announced(i) ==
  \E k \in DOMAIN pending :
    pending[k].event \in {"Minted", "PassPurchased"} /\ pending[k].tokenId = i

(* A pass issued by a sale or a mint is in the index in the end.           *)
IssuesReachIndex == \A i \in Tokens : Announced(i) ~> i \in DOMAIN passRows
=============================================================================
