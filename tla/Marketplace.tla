---------------------------- MODULE Marketplace ----------------------------
(***************************************************************************)
(* The resale market (contracts/src/Marketplace.sol) over the core and the *)
(* escrow.  A listing is an opening price and the time it was made; who    *)
(* made it is not recorded: the seller of a pass is whoever owns it when   *)
(* it is bought.                                                           *)
(*                                                                         *)
(* The composition starts from a deployed core: the admin has made MARKET  *)
(* its marketplace and published one plan.                                 *)
(***************************************************************************)
EXTENDS PassCore, EscrowYield

CONSTANTS
  MARKET, ESCROW,  \* the addresses of the two contracts
  Users,           \* accounts that send transactions
  PlanPrice, PlanDuration,
  Escrows,         \* addresses tried by setEscrow
  Tills,           \* other contracts that answer depositYield, and keep what it brings
  AskPrices,       \* prices tried by list
  Values           \* message values tried by buy

(* The market has no receive(): ether reaches it with a purchase only.     *)
ASSUME MarketAssumption ==
  /\ MARKET \in Refusing /\ InitEth[MARKET] = 0
  /\ MARKET \in Addr /\ ESCROW \in Addr /\ MARKET # ESCROW
  /\ Users \subseteq Addr \ {MARKET, ESCROW}
  /\ PlanPrice \in Nat /\ PlanDuration \in Nat \cap Durations
  /\ Escrows \subseteq Holders
  /\ Tills \subseteq Addr \ (Users \cup {MARKET, ESCROW})
  /\ AskPrices \subseteq Nat /\ Values \subseteq Nat

VARIABLES listings, escrowYield

marketVars == <<listings, escrowYield>>
vars == <<coreVars, escrowVars, marketVars>>

NoListing == [openingPrice |-> 0, listedAt |-> 0]

-----------------------------------------------------------------------------
(* Mutant: the ramp follows the time gone by. *)
PriceOfElapsed(id) ==
  LET l == listings[id]
      expiry == expiries[id]
  IN  IF l.openingPrice = 0 \/ now >= expiry \/ expiry <= l.listedAt
      THEN 0
      ELSE (l.openingPrice * (now - l.listedAt)) \div (expiry - l.listedAt)

(* The price falls with the access left, from the opening price at listing
   to nothing at expiry. *)
currentPrice(id) ==
  LET l == listings[id]
      expiry == expiries[id]
  IN  IF l.openingPrice = 0 \/ now >= expiry \/ expiry <= l.listedAt
      THEN 0
      ELSE (l.openingPrice * (expiry - now)) \div (expiry - l.listedAt)

MarketInit ==
  /\ listings = [i \in Tokens |-> NoListing]
  /\ escrowYield = ZERO

(* Open to anyone, with any address, until one is set.                     *)
SetEscrow(caller, escrow) ==
  /\ escrowYield = ZERO
  /\ escrowYield' = escrow
  /\ UNCHANGED <<coreVars, escrowVars, listings>>

(* Listing again resets both the price and the ramp.                       *)
List(caller, id, price) ==
  /\ owners[id] = caller
  /\ is_active(id)
  /\ price > 0
  /\ listings' = [listings EXCEPT ![id] =
                    [openingPrice |-> price, listedAt |-> now]]
  /\ UNCHANGED <<coreVars, escrowVars, escrowYield>>

(* Allowed after expiry, and whether or not the pass is listed.            *)
Unlist(caller, id) ==
  /\ owners[id] = caller
  /\ listings' = [listings EXCEPT ![id] = NoListing]
  /\ UNCHANGED <<coreVars, escrowVars, escrowYield>>

(* Mutant: the seller is paid at once, and the escrow as well. *)
PayProceedsTwice(sheet, seller, proceeds) ==
  IF escrowYield = ZERO
  THEN Payment(sheet, MARKET, seller, proceeds)
  ELSE Payment(Debit(sheet, MARKET, proceeds), MARKET, seller, proceeds)

(* Where the proceeds go: to the seller, into the escrow in the seller's name, or to
   whatever other contract was linked in its place. *)
PayProceeds(sheet, seller, proceeds) ==
  CASE escrowYield = ZERO      -> Payment(sheet, MARKET, seller, proceeds)
    [] escrowYield \in Tills   -> Payment(sheet, MARKET, escrowYield, proceeds)
    [] OTHER                   -> Debit(sheet, MARKET, proceeds)

(* Mutant: whether the transfer of the proceeds succeeded is not asked. *)
SellerPaidUnchecked(seller, proceeds) ==
  \/ escrowYield \in {ZERO} \cup Tills /\ UNCHANGED escrowVars
  \/ escrowYield = ESCROW /\ DepositYield(MARKET, seller, proceeds)

(* Paid directly, the seller may be unable to take ether; the escrow takes it in
   anybody's name, as does a till.  Any other address linked - an account, a contract
   without depositYield - makes every sale revert. *)
SellerPaid(seller, proceeds) ==
  \/ escrowYield = ZERO /\ seller \notin Refusing /\ UNCHANGED escrowVars
  \/ escrowYield = ESCROW /\ DepositYield(MARKET, seller, proceeds)
  \/ escrowYield \in Tills /\ UNCHANGED escrowVars

Buy(caller, id, value) ==
  LET price == currentPrice(id)
      seller == owners[id]
      issuer == issuers[id]
      royalty == price \div 10
      proceeds == price - royalty
      refund == value - price
      received == Payment(eth, caller, MARKET, value)
  IN  /\ value <= eth[caller]
      /\ price > 0
      /\ is_active(id)
      /\ value >= price
      /\ seller # caller
      /\ marketplace = MARKET
      /\ MovePass(id, caller)
      /\ listings' = [listings EXCEPT ![id] = NoListing]
      /\ SellerPaid(seller, proceeds)
      /\ issuer \notin Refusing
      /\ refund > 0 => caller \notin Refusing
      /\ eth' = Payment(Payment(PayProceeds(received, seller, proceeds),
                                MARKET, issuer, royalty),
                        MARKET, caller, refund)
      /\ UNCHANGED <<now, planVars, roleVars, escrowYield>>

-----------------------------------------------------------------------------
SystemInit ==
  /\ DeployedWithPlan(MARKET, PlanPrice, PlanDuration)
  /\ MarketInit
  /\ EscrowInit

(* The system once the plan has sold one pass, at time 1, to somebody who could pay for
   it: where the clients of the contracts are opened. *)
OneSold(buyer) ==
  /\ PlanPrice <= InitEth[buyer] /\ Admin \notin Refusing
  /\ now = 1
  /\ eth = Payment(InitEth, buyer, Admin, PlanPrice)
  /\ owners = [i \in Tokens |-> IF i = 0 THEN buyer ELSE ZERO]
  /\ issuers = [i \in Tokens |-> IF i = 0 THEN Admin ELSE ZERO]
  /\ expiries = [i \in Tokens |-> IF i = 0 THEN ExpiryAfter(PlanDuration) ELSE 0]
  /\ starts = [i \in Tokens |-> 0]
  /\ token_plans = [i \in Tokens |-> 0]
  /\ token_paid = [i \in Tokens |-> IF i = 0 THEN PlanPrice ELSE 0]
  /\ next_token_id = 1
  /\ plan_issuers = [p \in Plans |-> IF p = 0 THEN Admin ELSE ZERO]
  /\ plan_prices = [p \in Plans |-> IF p = 0 THEN PlanPrice ELSE 0]
  /\ plan_durations = [p \in Plans |-> IF p = 0 THEN PlanDuration ELSE 0]
  /\ plan_open = [p \in Plans |-> p = 0]
  /\ next_plan_id = 1
  /\ allowed_issuers = {Admin}
  /\ marketplace = MARKET
  /\ MarketInit
  /\ EscrowInit

CoreStep(caller) ==
  /\ IssueStep(caller) \/ HolderStep(caller)
  /\ UNCHANGED <<escrowVars, marketVars>>

MarketStep(caller) ==
  \/ \E escrow \in Escrows : SetEscrow(caller, escrow)
  \/ \E id \in Tokens : \/ \E price \in AskPrices : List(caller, id, price)
                        \/ Unlist(caller, id)
                        \/ \E value \in Values : Buy(caller, id, value)

EscrowStep(caller) ==
  /\ \/ EscrowSetMarketplace(caller, MARKET) /\ UNCHANGED <<now, eth>>
     \/ Withdraw(caller)
  /\ UNCHANGED <<tokenVars, planVars, roleVars, marketVars>>

MarketNext ==
  \/ Tick /\ UNCHANGED <<escrowVars, marketVars>>
  \/ \E caller \in Users :
       CoreStep(caller) \/ MarketStep(caller) \/ EscrowStep(caller)

MarketSpec == SystemInit /\ [][MarketNext]_vars

-----------------------------------------------------------------------------
MarketTypeOK ==
  /\ TypeOK
  /\ EscrowTypeOK
  /\ listings \in [Tokens -> [openingPrice : Nat, listedAt : Nat]]
  /\ escrowYield \in Holders

(* The market keeps nothing of what passes through a sale: proceeds, royalty and
   refund add up to what the buyer sent ("contract balance = 0"). *)
MarketHoldsNothing == eth[MARKET] = 0

(* Ether is never made or lost across the contracts: what accounts hold and what
   lies in the pool make up what there was. *)
WealthConserved == Sum(eth, Holders) + aave = Sum(InitEth, Holders)

(* What buy() charges never exceeds what the seller asked. *)
PriceAtMostAsk == \A i \in Tokens : currentPrice(i) <= listings[i].openingPrice

(* While a listing stands its price only falls, whatever else is done to the pass
   in the meantime. *)
PriceOnlyFalls ==
  [][\A i \in Tokens : listings'[i] = listings[i]
                         => currentPrice(i)' <= currentPrice(i)]_vars

Wealth(h) == eth[h] + lockedBalances[h]

(* Whom the proceeds of a pass of h reach.  setEscrow() asks nothing of the address it
   is given: where another contract was linked, it is that contract, and nothing is
   recorded in the seller's name. *)
ProceedsReach(h) == IF escrowYield \in Tills THEN escrowYield ELSE h

(* A pass leaves its holder by the holder's own transaction, or in a sale at a price
   the listing allows, nine tenths of which reach the holder - or, where another
   contract was linked as the escrow, that contract: of such a sale the holder has
   nothing. *)
PassLeavesForPay ==
  [][\A i \in Tokens, h \in Addr :
       owners[i] = h /\ owners'[i] # h =>
         \/ h \in Users /\ HolderStep(h)
         \/ /\ currentPrice(i) > 0
            /\ Wealth(ProceedsReach(h))' - Wealth(ProceedsReach(h))
                 >= currentPrice(i) - currentPrice(i) \div 10]_vars
=============================================================================
