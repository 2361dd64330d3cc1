----------------------------- MODULE WebSession -----------------------------
(***************************************************************************)
(* One browser tab of the web app (web/app: dashboard, market and pass     *)
(* pages) with a wallet, over the contracts it reads and writes.           *)
(*                                                                         *)
(* A page shows a snapshot of the chain, and its buttons are enabled by    *)
(* that snapshot.  A handler is a chain of awaits, here a flow: it asks    *)
(* the wallet, waits until the transaction is mined, then reloads the      *)
(* page.  Leaving the page does not stop a flow: the handler runs on, and  *)
(* only what it would set on the page is lost.  Other devices and other    *)
(* people transact in between.                                             *)
(*                                                                         *)
(* Gas limits are fixed by the pages, so any transaction may also run out  *)
(* of gas: what is mined may revert although its guards hold.              *)
(***************************************************************************)
EXTENDS Marketplace, LivePrice

CONSTANTS
  Me,           \* the connected wallet
  Rivals,       \* accounts that transact elsewhere
  Friends,      \* addresses typed as the recipient of a gift
  DEAD,         \* 0x...dEaD, the recipient when none is typed
  Asks,         \* prices typed into the listing form or fixed by a rule
  Names,        \* the pages that are visited
  MinSlice,     \* shortest slice the split form accepts: 60 in the code
  MaxFlows,     \* bound on the flows started in the tab
  MaxElsewhere  \* bound on the transactions sent elsewhere

ASSUME SessionAssumption ==
  /\ Me \in Users /\ Rivals \subseteq Users
  /\ DEAD \in Addr \ Users /\ Friends \subseteq Addr
  /\ Asks \subseteq Nat /\ MinSlice \in Nat
  /\ Names \subseteq {"dashboard", "market", "pass"} /\ "dashboard" \in Names
  /\ MaxFlows \in Nat /\ MaxElsewhere \in Nat

VARIABLES
  page,      \* the page that is open: its name, and the pass its address names
  view,      \* the passes as the page last read them
  forms,     \* the forms that are open on a pass page
  started,   \* flows started so far
  flows,     \* those under way, by number
  mempool,   \* flows whose transaction is broadcast and not mined, by nonce
  elsewhere  \* transactions sent elsewhere so far

tabVars == <<page, view, forms, started, flows, mempool>>
sessionVars == <<vars, tabVars, elsewhere>>

FlowIds == DOMAIN flows

-----------------------------------------------------------------------------
(* What a page knows.                                                      *)

(* A pass as one multicall reads it: its facts are those of one block.     *)
Snapshot ==
  [i \in Tokens |->
     [owner |-> owners[i], expiry |-> expiries[i], paid |-> token_paid[i],
      listed |-> listings[i].openingPrice, listedAt |-> listings[i].listedAt,
      current |-> currentPrice(i), active |-> is_active(i)]]

Issued(i) == view[i].owner # ZERO
Mine(i) == view[i].owner = Me

(* What was paid for the pass, or its plan's price when nothing was.  Every pass is
   on plan 0 here, the default plan of minted ones. *)
retailPrice(card) == IF card.paid > 0 THEN card.paid ELSE plan_prices[0]

(* listingPriceError(price, retail) is null. *)
PriceAllowed(price, retail) == price > 0 /\ (retail > 0 => price <= retail)

(* A listing as it was read. *)
Decay(card) ==
  [openingWei |-> card.listed, listedAt |-> card.listedAt, expiry |-> card.expiry]

(* The figure on screen: a card of the market ticks down from the listing as it was read;
   a pass page shows the price as it was read. *)
PriceShown(card) ==
  IF page.name = "market" /\ card.listed > 0 /\ card.listedAt > 0
  THEN priceAt(Decay(card), now) ELSE card.current

(* Mutant: a generous margin. *)
WithMargin(price) == 2 * price + 1

(* What is sent along: the price may be a little higher than it was read, and the rest
   comes back. *)
withBuffer(price) == price + price \div 1000 + 1

-----------------------------------------------------------------------------
(* Flows.                                                                  *)

NoQuote == [shown |-> 0, decay |-> [openingWei |-> 0, listedAt |-> 0, expiry |-> 0]]

(* What a buyer had on screen when the button was pressed. *)
Quote(kind, id) ==
  IF kind = "buy"
  THEN [shown |-> PriceShown(view[id]), decay |-> Decay(view[id])]
  ELSE NoQuote

(* call is the transaction the flow is at.  Two fields are of no variable of the code:
   since dates the flow's look at the listing, and quote keeps what the person saw. *)
Flow(kind, id, arg, phase) ==
  [kind |-> kind, id |-> id, arg |-> arg, phase |-> phase, call |-> "send",
   since |-> 0, attached |-> TRUE, quote |-> Quote(kind, id)]

(* The flows once flow n has come to be f, has reached another phase, or has ended. *)
Becomes(n, f) == [flows EXCEPT ![n] = f]
Moved(n, phase) == Becomes(n, [flows[n] EXCEPT !.phase = phase])
Without(n) == [m \in FlowIds \ {n} |-> flows[m]]

(* The flag that disables the controls of a flow while it runs: the dashboard has one
   per group of controls, the other pages have one. *)
Flag(kind) ==
  IF page.name # "dashboard" THEN "busy"
  ELSE CASE kind = "buyPlan" -> "busy"
         [] kind = "mint"    -> "isMinting"
         [] kind = "bundle"  -> "bundling"
         [] OTHER            -> "busyToken"

(* The bundler does not wait for the reload it asks the page for. *)
Running(f) ==
  /\ f.attached
  /\ ~(f.kind = "bundle" /\ f.phase = "reloading")

Free(kind) == \A n \in FlowIds : Running(flows[n]) => Flag(flows[n].kind) # Flag(kind)

Start(kind, id, arg, phase) ==
  /\ Free(kind)
  /\ started < MaxFlows
  /\ started' = started + 1
  /\ flows' = [n \in FlowIds \cup {started'} |->
                 IF n = started' THEN Flow(kind, id, arg, phase) ELSE flows[n]]
  /\ UNCHANGED <<vars, page, view, mempool, elsewhere>>

On(name) == page.name = name

(* dashboard: an open plan has a BUY PASS. *)
PlanOffered == On("dashboard") /\ plan_open[0]

(* At the price shown. *)
BuyFromPlan ==
  /\ PlanOffered
  /\ Start("buyPlan", 0, plan_prices[0], "asking")
  /\ UNCHANGED forms

(* dashboard: MINT PASS, whoever looks; whether the wallet may is for the core to say. *)
MintOffered == On("dashboard")

DashboardMint ==
  /\ MintOffered
  /\ \E d \in Durations : Start("mint", 0, d, "asking")
  /\ UNCHANGED forms

(* dashboard: each pass one holds has a card, with the tools to give and to split it. *)
CardShown(i) == On("dashboard") /\ Mine(i)

(* Send, for a pass with time left.  Expired by its expiry, not by isActive: a slice
   whose turn has not come may be given. *)
Gift(i) ==
  /\ CardShown(i) /\ view[i].expiry > now
  /\ \E to \in Friends : Start("gift", i, to, "checking")
  /\ UNCHANGED forms

SplitPass(i) ==
  /\ CardShown(i) /\ view[i].expiry > now /\ view[i].listed = 0
  /\ \E n \in PartCounts :
       /\ (view[i].expiry - now) \div n >= MinSlice
       /\ Start("split", i, n, "asking")
  /\ UNCHANGED forms

(* dashboard: the asks of the auto-sell panel pass through handleList. *)
DashboardList(i) ==
  /\ On("dashboard")
  /\ Mine(i)
  /\ \E price \in Asks :
       /\ PriceAllowed(price, retailPrice(view[i]))
       /\ Start("list", i, price, "asking")
  /\ UNCHANGED forms

(* dashboard: the bundler offers a pass for selection while it is active and unlisted,
   and its button once two of those offered are selected. *)
Selectable(i) == Mine(i) /\ view[i].active /\ view[i].listed = 0

BundleOffered(ids) ==
  On("dashboard") /\ Cardinality({k \in DOMAIN ids : Selectable(ids[k])}) >= 2

(* What was selected stays so until a flow succeeds: the handler takes all of it that is
   still shown, what has been listed since included. *)
BundlePasses ==
  /\ \E ids \in IdLists :
       /\ BundleOffered(ids)
       /\ \A k, l \in DOMAIN ids : Mine(ids[k]) /\ (k < l => ids[k] > ids[l])
       /\ Start("bundle", 0, ids, "asking")
  /\ UNCHANGED forms

(* pass page: TAKE OVER, at the price read and a thousandth more. *)
TakeOver(i) ==
  /\ On("pass") /\ page.id = i
  /\ Issued(i) /\ ~Mine(i) /\ view[i].listed > 0 /\ view[i].active
  /\ Start("buy", i, view[i].current, "asking")
  /\ UNCHANGED forms

Withdraws(i) ==
  /\ On("pass") /\ page.id = i
  /\ Mine(i) /\ view[i].listed > 0
  /\ Start("unlist", i, 0, "asking")
  /\ UNCHANGED forms

(* pass page: the two forms open on a pass one holds, and stay open whatever later
   reloads find. *)
OpenForm(i, form) ==
  /\ On("pass") /\ page.id = i
  /\ Mine(i) /\ view[i].active
  /\ form = "listing" => view[i].listed = 0
  /\ form = "transferring" => forms = {}
  /\ forms' = forms \cup {form}
  /\ UNCHANGED <<vars, page, view, started, flows, mempool, elsewhere>>

CancelForm(form) ==
  /\ form \in forms
  /\ forms' = forms \ {form}
  /\ UNCHANGED <<vars, page, view, started, flows, mempool, elsewhere>>

ListIt(i) ==
  /\ On("pass") /\ page.id = i
  /\ Issued(i) /\ "listing" \in forms
  /\ \E price \in Asks :
       /\ PriceAllowed(price, retailPrice(view[i]))
       /\ Start("list", i, price, "asking")
  /\ forms' = forms \ {"listing"}

ConfirmTransfer(i) ==
  /\ On("pass") /\ page.id = i
  /\ Issued(i) /\ "transferring" \in forms
  /\ \E to \in Friends \cup {DEAD} : Start("gift", i, to, "checking")
  /\ forms' = forms \ {"transferring"}

(* market: the cards are those of listed passes with time left. *)
MarketCard(i) ==
  /\ On("market")
  /\ Issued(i) /\ view[i].listed > 0 /\ view[i].expiry > now

(* BUY on a card: what is sent is reckoned from the price as it was read, not from the
   one that has ticked down since.  One's own listing is refused before the dry run. *)
MarketBuy(i) ==
  /\ MarketCard(i) /\ ~Mine(i)
  /\ Start("buy", i, view[i].current, "simulating")
  /\ UNCHANGED forms

StartSome ==
  \/ BuyFromPlan \/ DashboardMint \/ BundlePasses
  \/ \E i \in Tokens :
       \/ Gift(i) \/ SplitPass(i) \/ DashboardList(i)
       \/ TakeOver(i) \/ Withdraws(i) \/ ListIt(i) \/ ConfirmTransfer(i)
       \/ MarketBuy(i)
       \/ \E form \in {"listing", "transferring"} : OpenForm(i, form)
  \/ \E form \in forms : CancelForm(form)

-----------------------------------------------------------------------------
(* The course of a flow.                                                   *)

(* What a step of flow n leaves alone when it stays off the chain and the page. *)
OnlyFlow == UNCHANGED <<vars, page, view, forms, started, mempool, elsewhere>>

(* simulateContract: the reason a purchase would be refused ends the flow before the
   wallet is asked. *)
WouldSell(i, value) ==
  /\ value <= eth[Me]
  /\ currentPrice(i) > 0 /\ is_active(i)
  /\ value >= currentPrice(i)
  /\ owners[i] # Me

Simulate(n) ==
  /\ flows[n].phase = "simulating"
  /\ flows' = IF WouldSell(flows[n].id, withBuffer(flows[n].arg))
              THEN Moved(n, "asking") ELSE Without(n)
  /\ OnlyFlow

(* The look at a listing before a transfer: what stands is taken down first. *)
Looked(f, listed) ==
  [f EXCEPT !.phase = "asking", !.since = now,
            !.call = IF listed THEN "unlist" ELSE "send"]

(* Mutant: the listing shown on the page decides. *)
CheckListingShown(n) ==
  /\ flows[n].phase = "checking"
  /\ flows' = Becomes(n, Looked(flows[n], view[flows[n].id].listed > 0))
  /\ OnlyFlow

(* useTransferPass: the listing is read from the chain, not taken from the page. *)
CheckListing(n) ==
  /\ flows[n].phase = "checking"
  /\ flows' = Becomes(n, Looked(flows[n], listings[flows[n].id].openingPrice > 0))
  /\ OnlyFlow

(* The wallet prompt: confirmed, or rejected, or left standing. *)
Confirm(n) ==
  /\ flows[n].phase = "asking"
  /\ flows' = Moved(n, "pending")
  /\ mempool' = Append(mempool, n)
  /\ UNCHANGED <<vars, page, view, forms, started, elsewhere>>

Reject(n) ==
  /\ flows[n].phase = "asking"
  /\ flows' = Without(n)
  /\ OnlyFlow

AtCore(action) == action /\ UNCHANGED <<escrowVars, marketVars>>

(* The buyer sends the price as the page read it, and the buffer. *)
Purchase(f) == Buy(Me, f.id, withBuffer(f.arg))

(* The transaction of a flow, when it succeeds. *)
Execute(f) ==
  IF f.call = "unlist" THEN Unlist(Me, f.id)
  ELSE CASE f.kind = "buyPlan" -> AtCore(BuyPass(Me, 0, f.arg))
         [] f.kind = "mint"    -> AtCore(Mint(Me, Me, f.arg))
         [] f.kind = "gift"    -> AtCore(TransferPass(Me, f.arg, f.id))
         [] f.kind = "split"   -> AtCore(Split(Me, f.id, f.arg))
         [] f.kind = "bundle"  -> AtCore(Bundle(Me, f.arg))
         [] f.kind = "list"    -> List(Me, f.id, f.arg)
         [] f.kind = "unlist"  -> Unlist(Me, f.id)
         [] f.kind = "buy"     -> Purchase(f)

(* Transactions of one wallet are mined in the order of their nonces. *)
Mined ==
  /\ mempool # <<>>
  /\ LET n == Head(mempool)
     IN  \/ Execute(flows[n]) /\ flows' = Moved(n, "mined")
         \/ UNCHANGED vars /\ flows' = Moved(n, "reverted")
  /\ mempool' = Tail(mempool)
  /\ UNCHANGED <<page, view, forms, started, elsewhere>>

(* Mutant: only success is waited for. *)
ReceiptOfSuccess(n) ==
  /\ flows[n].phase = "mined"
  /\ flows' = IF flows[n].call = "unlist"
              THEN Becomes(n, [flows[n] EXCEPT !.phase = "asking", !.call = "send"])
              ELSE Moved(n, "reloading")
  /\ OnlyFlow

(* The receipt comes in: after the unlist of a transfer the wallet is asked for the
   transfer itself; a revert is an error, and ends the flow. *)
Receipt(n) ==
  /\ flows[n].phase \in {"mined", "reverted"}
  /\ flows' = CASE flows[n].phase = "reverted" -> Without(n)
                [] flows[n].phase = "mined" /\ flows[n].call = "unlist" ->
                     Becomes(n, [flows[n] EXCEPT !.phase = "asking", !.call = "send"])
                [] OTHER -> Moved(n, "reloading")
  /\ OnlyFlow

(* load(): the page that started the flow shows what the chain says now, unless the
   read fails. *)
Reload(n) ==
  /\ flows[n].phase = "reloading"
  /\ flows' = Without(n)
  /\ view' \in IF flows[n].attached THEN {Snapshot, view} ELSE {view}
  /\ UNCHANGED <<vars, page, forms, started, mempool, elsewhere>>

(* Another page is opened, or the same one again: it reads the chain before it shows
   a control. *)
Open(name, i) ==
  /\ name # "pass" => i = 0
  /\ page' = [name |-> name, id |-> i]
  /\ view' = Snapshot
  /\ forms' = {}
  /\ flows' = [n \in FlowIds |-> [flows[n] EXCEPT !.attached = FALSE]]
  /\ UNCHANGED <<vars, started, mempool, elsewhere>>

-----------------------------------------------------------------------------
SessionInit ==
  /\ \E buyer \in Users : OneSold(buyer)
  /\ page = [name |-> "dashboard", id |-> 0]
  /\ view = Snapshot
  /\ forms = {} /\ started = 0 /\ flows = [n \in {} |-> {}] /\ mempool = <<>> /\ elsewhere = 0

(* Somebody transacts away from this tab. *)
Elsewhere ==
  /\ elsewhere < MaxElsewhere
  /\ elsewhere' = elsewhere + 1
  /\ \E caller \in Rivals : CoreStep(caller) \/ MarketStep(caller)
  /\ UNCHANGED tabVars

FlowStep(n) ==
  Simulate(n) \/ CheckListing(n) \/ Confirm(n) \/ Reject(n) \/ Receipt(n) \/ Reload(n)

SessionNext ==
  \/ StartSome
  \/ \E n \in FlowIds : FlowStep(n)
  \/ Mined
  \/ \E name \in Names, i \in Tokens : Open(name, i)
  \/ Elsewhere
  \/ Tick /\ UNCHANGED <<escrowVars, marketVars, tabVars, elsewhere>>

(* Nodes answer and blocks are made; people need not do anything. *)
SessionFairness ==
  /\ WF_sessionVars(Mined)
  /\ \A n \in 1 .. MaxFlows :
       WF_sessionVars(/\ n \in FlowIds
                      /\ Simulate(n) \/ CheckListing(n) \/ Receipt(n) \/ Reload(n))

SessionSpec == SessionInit /\ [][SessionNext]_sessionVars /\ SessionFairness

-----------------------------------------------------------------------------
(* A transaction of flow n takes effect. *)
TakesEffect(n) == n \in FlowIds' /\ flows[n].phase = "pending" /\ flows'[n].phase = "mined"

(* A pass the app moves takes no old listing along: one that stands afterwards was made
   after the app had looked.  Pages are stale, other devices list and sell, the unlist
   may revert ("The listing is read from the chain at the moment of transfer"; "The
   unlist receipt must come back SUCCESSFUL before the transfer is sent"). *)
NoOldListingMoves ==
  [][\A n \in FlowIds :
       TakesEffect(n) /\ flows[n].kind = "gift" /\ flows[n].call = "send" =>
         LET l == listings'[flows[n].id]
         IN  l.openingPrice = 0 \/ l.listedAt >= flows[n].since]_sessionVars

(* The listing a buyer was quoted is the one that stands. *)
StillQuoted(i, decay) ==
  listings[i].openingPrice = decay.openingWei /\ listings[i].listedAt = decay.listedAt

(* However old the page, a purchase brings the pass with the time its card gave it, and
   while the listing it was drawn from stands it costs no more than the figure on screen
   when the button was pressed, ticking or not ("the figure shown is the figure a buyer
   would be charged at that instant", LivePrice.tsx:21).  Where the seller has listed the
   pass anew in the meantime that is not so: then the cost is bounded only by the price
   the page had read and its buffer, which may be well above what the card had ticked
   down to. *)
BoughtAsQuoted ==
  [][\A n \in FlowIds :
       TakesEffect(n) /\ flows[n].kind = "buy" =>
         LET i == flows[n].id
             quote == flows[n].quote
             cost == eth[Me] - eth'[Me]
         IN  /\ owners'[i] = Me /\ expiries'[i] = quote.decay.expiry
             /\ StillQuoted(i, quote.decay) => cost <= quote.shown
             /\ cost <= flows[n].arg + flows[n].arg \div 1000 + 1
             ]_sessionVars

(* No control stays disabled: every flow ends, or comes back to the wallet prompt,
   where it waits for the person. *)
FlowsEnd ==
  \A n \in 1 .. MaxFlows :
    n \in FlowIds ~> (n \notin FlowIds \/ flows[n].phase = "asking")
=============================================================================
