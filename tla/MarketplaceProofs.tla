------------------------- MODULE MarketplaceProofs -------------------------
(***************************************************************************)
(* Theorems about the market and its escrow over the core: where the money *)
(* of a sale goes, and what it is a sale for.                              *)
(***************************************************************************)
EXTENDS Marketplace, PassCoreProofs

Listing == [openingPrice : Nat, listedAt : Nat]

(* A ramp never starts in the future, and only issued passes are listed. *)
ListingsOfThePast ==
  \A i \in Tokens : /\ listings[i].listedAt <= now
                    /\ listings[i].openingPrice > 0 => i < next_token_id

(* The invariant the proofs carry. *)
MarketInv ==
  /\ CoreInv
  /\ MarketTypeOK
  /\ ListingsOfThePast
  /\ MarketHoldsNothing
  /\ WealthConserved
  /\ EscrowBacked

LEMMA MarketConstants ==
  /\ MARKET \in Addr /\ MARKET \in Holders /\ ESCROW \in Holders /\ ESCROW # ZERO
  /\ MARKET \in Refusing /\ InitEth[MARKET] = 0
  /\ Users \subseteq Addr /\ Users \subseteq Holders /\ MARKET \notin Users
  /\ PlanPrice \in Nat /\ PlanDuration \in Nat
  /\ Escrows \subseteq Holders /\ AskPrices \subseteq Nat /\ Values \subseteq Nat
  /\ Tills \subseteq Holders /\ Tills \subseteq Addr
  /\ MARKET \notin Tills /\ ESCROW \notin Tills /\ ZERO \notin Tills
  /\ \A c \in Users : c \notin Tills
  BY MarketAssumption, AccountsAssumption DEF Holders

-----------------------------------------------------------------------------
(* Arithmetic.                                                             *)

(* A fraction of a price is a natural number, and at most the price. *)
LEMMA FractionOfPrice ==
  ASSUME NEW p \in Nat, NEW x \in Nat, NEW y \in Nat, 0 < y, x <= y
  PROVE  (p * x) \div y \in Nat /\ (p * x) \div y <= p
  <1> DEFINE q == (p * x) \div y
  <1>1. p * x \in Nat
    OBVIOUS
  <1>2. p * x <= p * y
    OBVIOUS
  <1>3. q \in Nat /\ y * q <= p * x
    BY <1>1
  <1>4. q <= p
    <2> SUFFICES ASSUME q >= p + 1 PROVE FALSE
      BY <1>3
    <2>1. y * q >= y * (p + 1)
      BY <1>3
    <2>2. y * (p + 1) = y * p + y
      OBVIOUS
    <2> QED
      BY <1>2, <1>3, <2>1, <2>2
  <1> QED
    BY <1>3, <1>4

LEMMA PriceFacts ==
  ASSUME MarketInv, NEW id \in Tokens
  PROVE  currentPrice(id) \in Nat /\ currentPrice(id) <= listings[id].openingPrice
  <1> DEFINE opening == listings[id].openingPrice
             listed == listings[id].listedAt
             expiry == expiries[id]
  <1>1. /\ opening \in Nat /\ listed \in Nat /\ expiry \in Nat /\ now \in Nat
        /\ listed <= now
    BY ConstantFacts
    DEF MarketInv, MarketTypeOK, ListingsOfThePast, CoreInv, TypeOK, ChainTypeOK
  <1>2. CASE opening = 0 \/ now >= expiry \/ expiry <= listed
    <2>1. currentPrice(id) = 0
      BY <1>2 DEF currentPrice
    <2> QED
      BY <1>1, <2>1
  <1>3. CASE ~(opening = 0 \/ now >= expiry \/ expiry <= listed)
    <2>1. currentPrice(id) = (opening * (expiry - now)) \div (expiry - listed)
      BY <1>3 DEF currentPrice
    <2>2. /\ expiry - now \in Nat /\ expiry - listed \in Nat
          /\ 0 < expiry - listed /\ expiry - now <= expiry - listed
      BY <1>1, <1>3
    <2> HIDE DEF opening, listed, expiry
    <2>3. /\ (opening * (expiry - now)) \div (expiry - listed) \in Nat
          /\ (opening * (expiry - now)) \div (expiry - listed) <= opening
      BY <1>1, <2>2, FractionOfPrice
    <2> QED
      BY <2>1, <2>3 DEF opening
  <1> QED
    BY <1>2, <1>3

-----------------------------------------------------------------------------
(* Steps.                                                                  *)

LEMMA MarketInitInv == SystemInit => MarketInv
  <1> SUFFICES ASSUME SystemInit PROVE MarketInv
    OBVIOUS
  <1> USE DEF SystemInit, DeployedWithPlan, ChainInit, NoPasses, MarketInit, EscrowInit
  <1>1. CoreInv
    BY ConstantFacts, MarketConstants, BoundsAssumption, MaxTimeAssumption, AccountsAssumption
    DEF CoreInv, TypeOK, ChainTypeOK, FreshIdsBlank, Holders, Plans
  <1>2. MarketTypeOK
    BY <1>1, ConstantFacts DEF MarketTypeOK, EscrowTypeOK, CoreInv, NoListing
  <1>3. ListingsOfThePast
    BY DEF ListingsOfThePast, NoListing
  <1>4. MarketHoldsNothing
    BY MarketConstants DEF MarketHoldsNothing
  <1>5. Sum(lockedBalances, Holders) = 0
    <2>1. Units(lockedBalances, Holders) = Units(lockedBalances, {})
      BY DEF Units
    <2> QED
      BY <2>1, SumEmpty DEF Sum
  <1>6. Sum(InitEth, Holders) \in Nat
    BY ConstantFacts, AccountsAssumption, SumNat
  <1> QED
    BY <1>1, <1>2, <1>3, <1>4, <1>5, <1>6 DEF MarketInv, WealthConserved, EscrowBacked

(* What goes on at the core alone, as far as the market is concerned. *)
LEMMA CoreAsideInv ==
  ASSUME MarketInv, CoreInv', next_token_id' >= next_token_id,
         Sum(eth', Holders) = Sum(eth, Holders), eth'[MARKET] = eth[MARKET],
         UNCHANGED <<now, escrowVars, marketVars>>
  PROVE  MarketInv'
  <1>1. ListingsOfThePast'
    <2>1. /\ next_token_id \in Nat /\ next_token_id' \in Nat
          /\ Tokens \subseteq Nat /\ listings' = listings
      BY ConstantFacts DEF MarketInv, CoreInv, TypeOK, marketVars
    <2>2. \A i \in Tokens : i < next_token_id => i < next_token_id'
      BY <2>1
    <2> QED
      BY <2>1, <2>2 DEF MarketInv, ListingsOfThePast
  <1>2. MarketTypeOK'
    BY DEF MarketInv, MarketTypeOK, EscrowTypeOK, CoreInv, escrowVars, marketVars
  <1> QED
    BY <1>1, <1>2
    DEF MarketInv, MarketHoldsNothing, WealthConserved, EscrowBacked, escrowVars

(* A transaction on the core leaves the market's money alone. *)
LEMMA CoreStepInv ==
  ASSUME MarketInv, NEW c \in Users, CoreStep(c)
  PROVE  MarketInv'
  <1>1. Next /\ UNCHANGED <<escrowVars, marketVars>>
    BY MarketConstants DEF CoreStep, Next
  <1>2. CoreInv' /\ next_token_id' >= next_token_id
    BY <1>1, StepType, IdsOnlyGrow DEF MarketInv
  <1>3. Sum(eth', Holders) = Sum(eth, Holders)
    BY <1>1, StepKeepsEthTotal DEF MarketInv
  <1>4. UNCHANGED now
    BY DEF CoreStep, IssueStep, HolderStep, Mint, BuyPass, Split, Bundle, TransferPass
  <1>5. eth'[MARKET] = eth[MARKET]
    BY MarketConstants, RefusingSpared DEF CoreStep, MarketInv
  <1> QED
    BY <1>1, <1>2, <1>3, <1>4, <1>5, CoreAsideInv

LEMMA MarketTickInv ==
  ASSUME MarketInv, Tick, UNCHANGED <<escrowVars, marketVars>>
  PROVE  MarketInv'
  <1>1. CoreInv'
    BY TickType DEF MarketInv
  <1>2. now' = now + 1 /\ UNCHANGED <<eth, next_token_id>>
    BY DEF Tick, TimePasses, tokenVars
  <1>3. ListingsOfThePast'
    <2>1. now \in Nat /\ \A i \in Tokens : listings[i].listedAt \in Nat
      BY ConstantFacts DEF MarketInv, MarketTypeOK, CoreInv, TypeOK, ChainTypeOK
    <2> QED
      BY <1>2, <2>1 DEF MarketInv, ListingsOfThePast, marketVars
  <1>4. MarketTypeOK'
    BY <1>1
    DEF MarketInv, MarketTypeOK, EscrowTypeOK, CoreInv, escrowVars, marketVars
  <1> QED
    BY <1>1, <1>2, <1>3, <1>4
    DEF MarketInv, MarketHoldsNothing, WealthConserved, EscrowBacked, escrowVars

(* Listing and unlisting, and the two links, move no money. *)
LEMMA ListingStepInv ==
  ASSUME MarketInv, UNCHANGED <<coreVars, lockedBalances, aave>>,
         listings' \in [Tokens -> Listing],
         \A i \in Tokens : /\ listings'[i].listedAt <= now
                           /\ listings'[i].openingPrice > 0 => i < next_token_id,
         escrowYield' \in Holders, escrowMarketplace' \in Holders
  PROVE  MarketInv'
  <1>1. UNCHANGED <<now, eth, next_token_id>>
    BY DEF coreVars, tokenVars
  <1>2. CoreInv'
    BY StepType DEF MarketInv
  <1>3. MarketTypeOK'
    BY <1>2 DEF MarketInv, MarketTypeOK, EscrowTypeOK, CoreInv, Listing
  <1>4. ListingsOfThePast'
    BY <1>1 DEF ListingsOfThePast
  <1> QED
    BY <1>1, <1>2, <1>3, <1>4
    DEF MarketInv, MarketHoldsNothing, WealthConserved, EscrowBacked

(* A listing at whatever price is asked. *)
LEMMA ListInv ==
  ASSUME MarketInv, NEW c \in Users, NEW id \in Tokens, NEW price \in Nat,
         List(c, id, price)
  PROVE  MarketInv'
  <1> DEFINE new == [openingPrice |-> price, listedAt |-> now]
  <1>1. /\ now \in Nat /\ listings \in [Tokens -> Listing]
        /\ escrowYield \in Holders /\ escrowMarketplace \in Holders
        /\ \A i \in Tokens : /\ listings[i].listedAt <= now
                             /\ listings[i].openingPrice > 0 => i < next_token_id
    BY ConstantFacts
    DEF MarketInv, MarketTypeOK, EscrowTypeOK, CoreInv, TypeOK, ChainTypeOK, Listing,
        ListingsOfThePast
  <1>2. new \in Listing /\ new.listedAt = now
    BY <1>1 DEF Listing
  <1>3. id < next_token_id
    <2>1. /\ expiries \in [Tokens -> Nat] /\ next_token_id \in Nat
          /\ Tokens \subseteq Nat
      BY ConstantFacts DEF MarketInv, CoreInv, TypeOK
    <2> QED
      BY <1>1, <2>1 DEF List, is_active, MarketInv, CoreInv, FreshIdsBlank
  <1>4. /\ listings' = [listings EXCEPT ![id] = new]
        /\ UNCHANGED <<coreVars, lockedBalances, aave, escrowYield, escrowMarketplace>>
    BY DEF List, escrowVars
  <1> HIDE DEF new
  <1>5. /\ listings' \in [Tokens -> Listing]
        /\ \A i \in Tokens : /\ listings'[i].listedAt <= now
                             /\ listings'[i].openingPrice > 0 => i < next_token_id
    BY <1>1, <1>2, <1>3, <1>4
  <1> QED
    BY <1>1, <1>4, <1>5, ListingStepInv

LEMMA ListingStep ==
  ASSUME MarketInv, NEW c \in Users,
         \/ \E escrow \in Escrows : SetEscrow(c, escrow)
         \/ \E id \in Tokens, price \in AskPrices : List(c, id, price)
         \/ \E id \in Tokens : Unlist(c, id)
         \/ /\ EscrowSetMarketplace(c, MARKET)
            /\ UNCHANGED <<coreVars, marketVars>>
  PROVE  MarketInv'
  <1>1. /\ now \in Nat /\ listings \in [Tokens -> Listing]
        /\ escrowYield \in Holders /\ escrowMarketplace \in Holders
        /\ \A i \in Tokens : /\ listings[i].listedAt <= now
                             /\ listings[i].openingPrice > 0 => i < next_token_id
    BY ConstantFacts
    DEF MarketInv, MarketTypeOK, EscrowTypeOK, CoreInv, TypeOK, ChainTypeOK, Listing,
        ListingsOfThePast
  <1>2. NoListing \in Listing /\ NoListing.listedAt = 0 /\ NoListing.openingPrice = 0
    BY DEF Listing, NoListing
  <1>3. ASSUME NEW id \in Tokens, NEW price \in AskPrices, List(c, id, price)
        PROVE  MarketInv'
    BY <1>3, ListInv, MarketConstants
  <1>4. ASSUME NEW id \in Tokens, Unlist(c, id)
        PROVE  MarketInv'
    <2>1. /\ listings' = [listings EXCEPT ![id] = NoListing]
          /\ UNCHANGED <<coreVars, lockedBalances, aave, escrowYield, escrowMarketplace>>
      BY <1>4 DEF Unlist, escrowVars
    <2>2. /\ listings' \in [Tokens -> Listing]
          /\ \A i \in Tokens : /\ listings'[i].listedAt <= now
                               /\ listings'[i].openingPrice > 0 => i < next_token_id
      BY <1>1, <1>2, <2>1
    <2> QED
      BY <1>1, <2>1, <2>2, ListingStepInv
  <1>5. ASSUME NEW escrow \in Escrows, SetEscrow(c, escrow)
        PROVE  MarketInv'
    BY <1>1, <1>5, MarketConstants, ListingStepInv DEF SetEscrow, escrowVars
  <1>6. CASE EscrowSetMarketplace(c, MARKET) /\ UNCHANGED <<coreVars, marketVars>>
    BY <1>1, <1>6, MarketConstants, ListingStepInv DEF EscrowSetMarketplace, marketVars
  <1> QED
    BY <1>3, <1>4, <1>5, <1>6

(* A withdrawal takes from the pool what it takes from the books. *)
LEMMA WithdrawInv ==
  ASSUME MarketInv, NEW c \in Users, Withdraw(c),
         UNCHANGED <<tokenVars, planVars, roleVars, marketVars>>
  PROVE  MarketInv'
  <1> DEFINE principal == lockedBalances[c]
  <1>1. /\ c \in Holders /\ c # MARKET /\ IsFiniteSet(Holders)
        /\ eth \in [Holders -> Nat] /\ lockedBalances \in [Holders -> Nat]
        /\ aave \in Nat /\ principal \in Nat /\ principal <= aave
    BY MarketConstants, ConstantFacts
    DEF Withdraw, MarketInv, MarketTypeOK, EscrowTypeOK, CoreInv, TypeOK, ChainTypeOK
  <1>2. /\ eth' = Credit(eth, c, principal)
        /\ lockedBalances' = [lockedBalances EXCEPT ![c] = 0]
        /\ aave' = aave - principal
        /\ UNCHANGED <<now, escrowMarketplace>>
    BY DEF Withdraw
  <1> HIDE DEF principal
  <1>3. eth' \in [Holders -> Nat] /\ Sum(eth', Holders) = Sum(eth, Holders) + principal
    <2>1. /\ Credit(eth, c, principal) \in [Holders -> Nat]
          /\ Sum(Credit(eth, c, principal), Holders) = Sum(eth, Holders) + principal
      BY <1>1, CreditTotal
    <2> QED
      BY <1>2, <2>1
  <1>4. /\ lockedBalances' \in [Holders -> Nat]
        /\ Sum(lockedBalances', Holders) = Sum(lockedBalances, Holders) - principal
    <2>1. lockedBalances[c] - principal = 0
      BY <1>1 DEF principal
    <2>2. lockedBalances' = Debit(lockedBalances, c, principal)
      BY <1>2, <2>1 DEF Debit
    <2>3. principal <= lockedBalances[c]
      BY <1>1 DEF principal
    <2>4. /\ Debit(lockedBalances, c, principal) \in [Holders -> Nat]
          /\ Sum(Debit(lockedBalances, c, principal), Holders)
               = Sum(lockedBalances, Holders) - principal
      BY <1>1, <2>3, DebitTotal
    <2> QED
      BY <2>2, <2>4
  <1>5. aave' \in Nat
    BY <1>1, <1>2
  <1>6. CoreInv'
    BY <1>2, <1>3
    DEF MarketInv, CoreInv, TypeOK, ChainTypeOK, FreshIdsBlank, tokenVars, planVars, roleVars
  <1>7. MarketTypeOK'
    BY <1>2, <1>4, <1>5, <1>6 DEF MarketInv, MarketTypeOK, EscrowTypeOK, CoreInv, marketVars
  <1>8. ListingsOfThePast'
    BY <1>2 DEF MarketInv, ListingsOfThePast, tokenVars, marketVars
  <1>9. MarketHoldsNothing'
    BY <1>1, <1>2, MarketConstants DEF MarketInv, MarketHoldsNothing, Credit
  <1>10. WealthConserved' /\ EscrowBacked'
    <2>1. Sum(eth, Holders) \in Nat /\ Sum(lockedBalances, Holders) \in Nat
      BY <1>1, SumNat
    <2> QED
      BY <1>1, <1>2, <1>3, <1>4, <2>1 DEF MarketInv, WealthConserved, EscrowBacked
  <1> QED
    BY <1>6, <1>7, <1>8, <1>9, <1>10 DEF MarketInv

-----------------------------------------------------------------------------
(* The sale.                                                               *)

(* The three ways the proceeds may go. *)
LEMMA ProceedsGo ==
  ASSUME NEW sheet, NEW seller, NEW proceeds
  PROVE  /\ escrowYield = ZERO => PayProceeds(sheet, seller, proceeds)
                                    = Payment(sheet, MARKET, seller, proceeds)
         /\ escrowYield \in Tills => PayProceeds(sheet, seller, proceeds)
                                       = Payment(sheet, MARKET, escrowYield, proceeds)
         /\ escrowYield \notin Tills \cup {ZERO} => PayProceeds(sheet, seller, proceeds)
                                                   = Debit(sheet, MARKET, proceeds)
  <1>1. ZERO \notin Tills
    BY MarketConstants
  <1> QED
    BY <1>1 DEF PayProceeds

(* Where a sale's proceeds go, the market parts with them, and what the seller is
   not paid at once lies in the pool. *)
LEMMA ProceedsFacts ==
  ASSUME MarketInv, NEW sheet \in [Holders -> Nat], NEW seller \in Holders,
         NEW proceeds \in Nat, proceeds <= sheet[MARKET],
         SellerPaid(seller, proceeds)
  PROVE  /\ PayProceeds(sheet, seller, proceeds) \in [Holders -> Nat]
         /\ PayProceeds(sheet, seller, proceeds)[MARKET] = sheet[MARKET] - proceeds
         /\ Sum(PayProceeds(sheet, seller, proceeds), Holders) + aave'
              = Sum(sheet, Holders) + aave
         /\ lockedBalances' \in [Holders -> Nat] /\ aave' \in Nat
         /\ Sum(lockedBalances', Holders) = aave'
         /\ escrowMarketplace' = escrowMarketplace
  <1>1. /\ lockedBalances \in [Holders -> Nat] /\ aave \in Nat /\ IsFiniteSet(Holders)
        /\ Sum(lockedBalances, Holders) = aave
        /\ MARKET \in Holders
    BY MarketConstants, ConstantFacts DEF MarketInv, MarketTypeOK, EscrowTypeOK, EscrowBacked
  <1>2. Sum(sheet, Holders) \in Nat
    BY <1>1, SumNat
  <1>3. CASE escrowYield = ZERO /\ seller \notin Refusing /\ UNCHANGED escrowVars
    <2>1. seller # MARKET
      BY <1>3, MarketConstants
    <2>2. PayProceeds(sheet, seller, proceeds) = Payment(sheet, MARKET, seller, proceeds)
      BY <1>3, ProceedsGo
    <2> QED
      BY <1>1, <1>2, <1>3, <2>1, <2>2, PaymentFacts DEF escrowVars
  <1>4. CASE escrowYield = ESCROW /\ DepositYield(MARKET, seller, proceeds)
    <2>1. PayProceeds(sheet, seller, proceeds) = Debit(sheet, MARKET, proceeds)
      BY <1>4, MarketConstants, ProceedsGo
    <2>2. /\ Debit(sheet, MARKET, proceeds) \in [Holders -> Nat]
          /\ Sum(Debit(sheet, MARKET, proceeds), Holders) = Sum(sheet, Holders) - proceeds
      BY <1>1, DebitTotal
    <2>5. Debit(sheet, MARKET, proceeds)[MARKET] = sheet[MARKET] - proceeds
      BY <1>1 DEF Debit
    <2>3. /\ lockedBalances' = Credit(lockedBalances, seller, proceeds)
          /\ aave' = aave + proceeds /\ UNCHANGED escrowMarketplace
      BY <1>4 DEF DepositYield
    <2>4. /\ Credit(lockedBalances, seller, proceeds) \in [Holders -> Nat]
          /\ Sum(Credit(lockedBalances, seller, proceeds), Holders)
               = Sum(lockedBalances, Holders) + proceeds
      BY <1>1, CreditTotal
    <2> QED
      BY <1>1, <1>2, <2>1, <2>2, <2>3, <2>4, <2>5
  <1>5. CASE escrowYield \in Tills /\ UNCHANGED escrowVars
    <2>1. escrowYield \in Holders /\ escrowYield # MARKET
      BY <1>5, MarketConstants
    <2>2. PayProceeds(sheet, seller, proceeds)
            = Payment(sheet, MARKET, escrowYield, proceeds)
      BY <1>5, ProceedsGo
    <2> QED
      BY <1>1, <1>2, <1>5, <2>1, <2>2, PaymentFacts DEF escrowVars
  <1> QED
    BY <1>3, <1>4, <1>5 DEF SellerPaid

(* What a sale does to the books of the market, the escrow and the accounts. *)
LEMMA BuyMoney ==
  ASSUME MarketInv, NEW c \in Users, NEW id \in Tokens, NEW value \in Nat,
         Buy(c, id, value)
  PROVE  /\ eth' \in [Holders -> Nat] /\ eth'[MARKET] = 0
         /\ Sum(eth', Holders) + aave' = Sum(eth, Holders) + aave
         /\ lockedBalances' \in [Holders -> Nat] /\ aave' \in Nat
         /\ Sum(lockedBalances', Holders) = aave'
         /\ escrowMarketplace' = escrowMarketplace
  <1> DEFINE price == currentPrice(id)
             seller == owners[id]
             issuer == issuers[id]
             royalty == price \div 10
             proceeds == price - royalty
             refund == value - price
             received == Payment(eth, c, MARKET, value)
             paid == PayProceeds(received, seller, proceeds)
             shared == Payment(paid, MARKET, issuer, royalty)
  <1>1. /\ eth \in [Holders -> Nat] /\ seller \in Holders /\ issuer \in Holders
        /\ c \in Holders /\ c # MARKET /\ MARKET \in Holders /\ eth[MARKET] = 0
    BY MarketConstants
    DEF MarketInv, CoreInv, TypeOK, ChainTypeOK, MarketHoldsNothing
  <1>2. /\ price \in Nat /\ value \in Nat /\ price <= value /\ value <= eth[c]
        /\ issuer # MARKET /\ SellerPaid(seller, proceeds)
    BY PriceFacts, MarketConstants DEF Buy
  <1>3. eth' = Payment(shared, MARKET, c, refund)
    BY DEF Buy
  <1> HIDE DEF price, seller, issuer
  <1>4. /\ royalty \in Nat /\ proceeds \in Nat /\ refund \in Nat
        /\ proceeds + royalty + refund = value
    BY <1>2
  <1>5. /\ received \in [Holders -> Nat] /\ received[MARKET] = value
        /\ Sum(received, Holders) = Sum(eth, Holders)
    <2>1. received[MARKET] = eth[MARKET] + value
      BY <1>1, <1>2, PaymentFacts
    <2> QED
      BY <1>1, <1>2, <2>1, PaymentFacts
  <1> HIDE DEF royalty, proceeds, refund, received
  <1>6. /\ paid \in [Holders -> Nat] /\ paid[MARKET] = value - proceeds
        /\ Sum(paid, Holders) + aave' = Sum(received, Holders) + aave
        /\ lockedBalances' \in [Holders -> Nat] /\ aave' \in Nat
        /\ Sum(lockedBalances', Holders) = aave'
        /\ escrowMarketplace' = escrowMarketplace
    <2>1. proceeds <= received[MARKET]
      BY <1>2, <1>4, <1>5
    <2> QED
      BY <1>1, <1>2, <1>4, <1>5, <2>1, ProceedsFacts
  <1> HIDE DEF paid
  <1>7. /\ shared \in [Holders -> Nat] /\ shared[MARKET] = refund
        /\ Sum(shared, Holders) = Sum(paid, Holders)
    <2>1. royalty <= paid[MARKET] /\ (value - proceeds) - royalty = refund
      BY <1>2, <1>4, <1>6
    <2> QED
      BY <1>1, <1>2, <1>4, <1>6, <2>1, PaymentFacts
  <1> HIDE DEF shared
  <1>8. /\ eth' \in [Holders -> Nat] /\ eth'[MARKET] = refund - refund
        /\ Sum(eth', Holders) = Sum(shared, Holders)
    BY <1>1, <1>3, <1>4, <1>7, PaymentFacts
  <1> QED
    BY <1>4, <1>5, <1>6, <1>7, <1>8

LEMMA BuyInv ==
  ASSUME MarketInv, NEW c \in Users, NEW id \in Tokens, NEW value \in Nat,
         Buy(c, id, value)
  PROVE  MarketInv'
  <1>1. /\ MovePass(id, c) /\ UNCHANGED <<now, planVars, roleVars, escrowYield>>
        /\ listings' = [listings EXCEPT ![id] = NoListing]
    BY DEF Buy
  <1>2. CoreInv'
    BY <1>1, BuyMoney, MarketConstants
    DEF MarketInv, CoreInv, TypeOK, ChainTypeOK, FreshIdsBlank, MovePass, planVars, roleVars
  <1>3. /\ listings' \in [Tokens -> Listing]
        /\ \A i \in Tokens : listings'[i] \in {listings[i], NoListing}
    BY <1>1 DEF MarketInv, MarketTypeOK, Listing, NoListing
  <1>4. MarketTypeOK'
    BY <1>1, <1>2, <1>3, BuyMoney
    DEF MarketInv, MarketTypeOK, EscrowTypeOK, CoreInv, Listing
  <1>5. ListingsOfThePast'
    <2>1. now \in Nat /\ now' = now /\ next_token_id' = next_token_id
      BY <1>1, ConstantFacts DEF MovePass, MarketInv, CoreInv, TypeOK, ChainTypeOK
    <2>2. NoListing.listedAt = 0 /\ NoListing.openingPrice = 0
      BY DEF NoListing
    <2> QED
      BY <1>3, <2>1, <2>2 DEF MarketInv, ListingsOfThePast
  <1>6. MarketHoldsNothing' /\ WealthConserved' /\ EscrowBacked'
    BY BuyMoney DEF MarketInv, MarketHoldsNothing, WealthConserved, EscrowBacked
  <1> QED
    BY <1>2, <1>4, <1>5, <1>6 DEF MarketInv

LEMMA MarketStepInv == MarketInv /\ [MarketNext]_vars => MarketInv'
  <1> SUFFICES ASSUME MarketInv, [MarketNext]_vars PROVE MarketInv'
    OBVIOUS
  <1>1. CASE Tick /\ UNCHANGED <<escrowVars, marketVars>>
    BY <1>1, MarketTickInv
  <1>2. ASSUME NEW c \in Users, CoreStep(c) PROVE MarketInv'
    BY <1>2, CoreStepInv
  <1>3. ASSUME NEW c \in Users, MarketStep(c) PROVE MarketInv'
    BY <1>3, ListingStep, BuyInv, MarketConstants DEF MarketStep
  <1>4. ASSUME NEW c \in Users, EscrowStep(c) PROVE MarketInv'
    BY <1>4, ListingStep, WithdrawInv DEF EscrowStep, coreVars
  <1>5. CASE UNCHANGED vars
    <2>1. CoreInv'
      BY <1>5, StepType DEF MarketInv, vars
    <2>2. MarketTypeOK'
      BY <1>5, <2>1
      DEF MarketInv, MarketTypeOK, EscrowTypeOK, CoreInv, vars, escrowVars, marketVars
    <2> QED
      BY <1>5, <2>1, <2>2
      DEF MarketInv, ListingsOfThePast, MarketHoldsNothing, WealthConserved, EscrowBacked,
          vars, coreVars, tokenVars, escrowVars, marketVars
  <1> QED
    BY <1>1, <1>2, <1>3, <1>4, <1>5 DEF MarketNext

-----------------------------------------------------------------------------
(* MarketInv holds of every behaviour of the market over the core: the types of
   all three contracts, and where the money is. *)
THEOREM MarketInvariant == MarketSpec => []MarketInv
  <1>1. SystemInit => MarketInv
    BY MarketInitInv
  <1>2. MarketInv /\ [MarketNext]_vars => MarketInv'
    BY MarketStepInv
  <1> QED
    BY <1>1, <1>2, PTL DEF MarketSpec

(* MarketTypeOK for every value of the constants. *)
THEOREM MarketTypes == MarketSpec => []MarketTypeOK
  <1>1. MarketInv => MarketTypeOK
    BY DEF MarketInv
  <1> QED
    BY <1>1, MarketInvariant, PTL

(* MarketHoldsNothing for every value of the constants: however price, royalty and
   refund round, buy() passes on all it was sent. *)
THEOREM NothingKept == MarketSpec => []MarketHoldsNothing
  <1>1. MarketInv => MarketHoldsNothing
    BY DEF MarketInv
  <1> QED
    BY <1>1, MarketInvariant, PTL

(* WealthConserved for every value of the constants: no sale, deposit or withdrawal
   makes or loses ether, whenever the escrow is linked. *)
THEOREM NothingLost == MarketSpec => []WealthConserved
  <1>1. MarketInv => WealthConserved
    BY DEF MarketInv
  <1> QED
    BY <1>1, MarketInvariant, PTL

(* EscrowBacked for every value of the constants: what sellers may withdraw is what
   lies in the pool. *)
THEOREM SellersCovered == MarketSpec => []EscrowBacked
  <1>1. MarketInv => EscrowBacked
    BY DEF MarketInv
  <1> QED
    BY <1>1, MarketInvariant, PTL

(* PriceAtMostAsk for every value of the constants: the rounded ramp of
   currentPrice() never exceeds the opening price. *)
THEOREM AskBoundsPrice == MarketSpec => []PriceAtMostAsk
  <1>1. MarketInv => PriceAtMostAsk
    BY PriceFacts DEF PriceAtMostAsk
  <1> QED
    BY <1>1, MarketInvariant, PTL

-----------------------------------------------------------------------------
(* The price of a standing listing.                                        *)

LEMMA QuotientMonotone ==
  ASSUME NEW a \in Nat, NEW b \in Nat, NEW y \in Nat, 0 < y, a <= b
  PROVE  a \div y <= b \div y
  <1> DEFINE q == a \div y
             r == b \div y
  <1>1. q \in Nat /\ r \in Nat /\ y * q <= a /\ b < y * (r + 1)
    OBVIOUS
  <1> HIDE DEF q, r
  <1>2. q <= r
    <2> SUFFICES ASSUME q >= r + 1 PROVE FALSE
      BY <1>1
    <2>1. y * q >= y * (r + 1)
      BY <1>1
    <2>2. y * q \in Nat /\ y * (r + 1) \in Nat
      BY <1>1
    <2> QED
      BY <1>1, <2>1, <2>2
  <1> QED
    BY <1>2 DEF q, r

(* As time passes, or the pass is burned, the price falls. *)
LEMMA PriceFallsWithTime ==
  ASSUME MarketInv, MarketInv', NEW i \in Tokens, listings'[i] = listings[i],
         now' >= now,
         \/ listings[i].openingPrice = 0
         \/ expiries'[i] = expiries[i]
         \/ expiries'[i] = 0
  PROVE  currentPrice(i)' <= currentPrice(i)
  <1> DEFINE opening == listings[i].openingPrice
             listed == listings[i].listedAt
             expiry == expiries[i]
             later == now'
             none == opening = 0 \/ later >= expiry \/ expiry <= listed
  <1>1. /\ opening \in Nat /\ listed \in Nat /\ expiry \in Nat /\ now \in Nat
        /\ later \in Nat /\ now <= later
        /\ currentPrice(i) \in Nat
    BY ConstantFacts, PriceFacts DEF MarketInv, MarketTypeOK, CoreInv, TypeOK, ChainTypeOK
  <1>2. currentPrice(i)' = 0 => currentPrice(i)' <= currentPrice(i)
    BY <1>1
  <1>3. CASE opening = 0
    BY <1>2, <1>3 DEF currentPrice
  <1>4. CASE expiries'[i] = 0
    BY <1>1, <1>2, <1>4 DEF currentPrice
  <1>5. CASE expiries'[i] = expiry /\ none
    BY <1>2, <1>5 DEF currentPrice
  <1>6. CASE expiries'[i] = expiry /\ ~none
    <2> DEFINE ramp == expiry - listed
    <2>1. currentPrice(i) = (opening * (expiry - now)) \div ramp
      BY <1>1, <1>6 DEF currentPrice
    <2>2. currentPrice(i)' = (opening * (expiry - later)) \div ramp
      BY <1>6 DEF currentPrice
    <2>3. /\ ramp \in Nat /\ 0 < ramp /\ expiry - now \in Nat /\ expiry - later \in Nat
          /\ expiry - later <= expiry - now
      BY <1>1, <1>6
    <2> HIDE DEF opening, listed, expiry, later, ramp
    <2>4. /\ opening * (expiry - now) \in Nat /\ opening * (expiry - later) \in Nat
          /\ opening * (expiry - later) <= opening * (expiry - now)
      BY <1>1, <2>3
    <2> QED
      BY <2>1, <2>2, <2>3, <2>4, QuotientMonotone
  <1> QED
    BY <1>3, <1>4, <1>5, <1>6

(* What a step of the whole does to the clock and to a pass that is listed. *)
LEMMA ListedPassKept ==
  ASSUME MarketInv, [MarketNext]_vars, NEW i \in Tokens
  PROVE  /\ now' >= now
         /\ \/ listings[i].openingPrice = 0
            \/ expiries'[i] = expiries[i]
            \/ expiries'[i] = 0
  <1>1. now \in Nat /\ next_token_id \in Nat /\ i \in Nat
    BY ConstantFacts DEF MarketInv, CoreInv, TypeOK, ChainTypeOK
  <1>2. listings[i].openingPrice > 0 \/ listings[i].openingPrice = 0
    BY DEF MarketInv, MarketTypeOK
  <1>3. CASE [Next]_coreVars
    <2>1. now' >= now
      <3>1. CASE Tick
        BY <1>1, <3>1 DEF Tick, TimePasses
      <3>2. CASE UNCHANGED now
        BY <1>1, <3>2
      <3>3. ASSUME NEW c \in Addr, CatalogueStep(c) PROVE UNCHANGED now
        BY <3>3 DEF CatalogueStep, SetIssuer, SetMarketplace, CreatePlan, SetPlanOpen
      <3>4. ASSUME NEW c \in Addr, IssueStep(c) PROVE UNCHANGED now
        BY <3>4 DEF IssueStep, Mint, BuyPass
      <3>5. ASSUME NEW c \in Addr, HolderStep(c) PROVE UNCHANGED now
        BY <3>5 DEF HolderStep, Split, Bundle, TransferPass
      <3> QED
        BY <1>3, <3>1, <3>2, <3>3, <3>4, <3>5 DEF Next, coreVars, MarketTransfer
    <2>2. CASE listings[i].openingPrice > 0
      <3>1. i \in 0 .. next_token_id - 1
        BY <1>1, <2>2 DEF MarketInv, ListingsOfThePast
      <3>2. CASE UNCHANGED coreVars
        BY <2>1, <3>2 DEF coreVars, tokenVars
      <3>3. CASE ~ UNCHANGED coreVars
        <4>1. TermsKept(i)
          BY <1>3, <3>1, <3>3, StepKeepsTerms DEF MarketInv
        <4> QED
          BY <2>1, <4>1 DEF TermsKept
      <3> QED
        BY <3>2, <3>3
    <2> QED
      BY <1>2, <2>1, <2>2
  <1>4. CASE UNCHANGED <<now, expiries>>
    BY <1>1, <1>4
  <1> QED
    BY <1>3, <1>4, MarketConstants
    DEF MarketNext, vars, CoreStep, Next, MarketStep, SetEscrow, List, Unlist, Buy, MovePass,
        EscrowStep, Withdraw, tokenVars

(* PriceOnlyFalls for every value of the constants: while a listing stands no step of
   anybody, a burn of the pass included, makes currentPrice() rise. *)
THEOREM PriceNeverRises == MarketSpec => PriceOnlyFalls
  <1>1. MarketInv /\ MarketInv' /\ [MarketNext]_vars
          => [\A i \in Tokens : listings'[i] = listings[i]
                => currentPrice(i)' <= currentPrice(i)]_vars
    BY PriceFallsWithTime, ListedPassKept
  <1> QED
    BY <1>1, MarketInvariant, PTL DEF MarketSpec, PriceOnlyFalls

-----------------------------------------------------------------------------
(* Who parts with a pass, and for what.                                    *)

(* What one transaction does to the owner of a pass. *)
LEMMA StepOwners ==
  ASSUME MarketInv, [MarketNext]_vars, FreshIdsUnowned, NEW i \in Tokens
  PROVE  /\ i >= next_token_id' => owners'[i] = ZERO
         /\ \A h \in Addr : owners[i] = h /\ owners'[i] # h =>
              \/ h \in Users /\ HolderStep(h)
              \/ \E c \in Users, value \in Values :
                   Buy(c, i, value)
  <1> DEFINE Parted ==
        \A h \in Addr : owners[i] = h /\ owners'[i] # h =>
          \/ h \in Users /\ HolderStep(h)
          \/ \E c \in Users, value \in Values : Buy(c, i, value)
             Blank == i >= next_token_id' => owners'[i] = ZERO
  <1>1. /\ owners \in [Tokens -> Holders] /\ next_token_id \in Nat /\ Tokens \subseteq Nat
        /\ expiries \in [Tokens -> Nat] /\ now \in Nat /\ Users \subseteq Addr
        /\ U64Limit \in Nat /\ U64Limit > 0 /\ ZERO \notin Addr
        /\ i >= next_token_id => owners[i] = ZERO
    BY ConstantFacts, MarketConstants
    DEF MarketInv, CoreInv, TypeOK, ChainTypeOK, FreshIdsUnowned
  <1>2. CASE UNCHANGED <<owners, next_token_id>>
    BY <1>1, <1>2 DEF FreshIdsUnowned
  <1>3. ASSUME NEW c \in Users, CoreStep(c) PROVE Blank /\ Parted
    <2>1. IssueStep(c) \/ HolderStep(c)
      BY <1>3 DEF CoreStep
    <2> QED
      BY <1>1, <2>1, IssueOwners, HolderOwners DEF MarketInv
  <1>8. ASSUME NEW c \in Users, NEW id \in Tokens, NEW value \in Values, Buy(c, id, value)
        PROVE  Blank /\ Parted
    <2>1. /\ owners' = [owners EXCEPT ![id] = c] /\ next_token_id' = next_token_id
          /\ is_active(id)
      BY <1>8 DEF Buy, MovePass
    <2>2. id < next_token_id
      BY <1>1, <2>1 DEF is_active, MarketInv, CoreInv, FreshIdsBlank
    <2>3. Blank
      BY <1>1, <2>1, <2>2
    <2>4. i # id => owners'[i] = owners[i]
      BY <1>1, <2>1
    <2>5. Parted
      BY <1>8, <2>4
    <2> QED
      BY <2>3, <2>5
  <1>9. CASE UNCHANGED tokenVars
    BY <1>2, <1>9 DEF tokenVars
  <1> HIDE DEF Parted, Blank
  <1>10. Blank /\ Parted
    <2>1. CASE UNCHANGED <<owners, next_token_id>>
      BY <2>1, <1>2 DEF Blank, Parted
    <2>3. ASSUME NEW c \in Users, MarketStep(c) PROVE Blank /\ Parted
      BY <1>8, <2>1, <2>3 DEF MarketStep, SetEscrow, List, Unlist, coreVars, tokenVars
    <2>4. ASSUME NEW c \in Users, EscrowStep(c) PROVE Blank /\ Parted
      BY <2>1, <2>4 DEF EscrowStep, tokenVars
    <2> QED
      BY <1>3, <2>1, <2>3, <2>4 DEF MarketNext, Tick, vars, coreVars, tokenVars
  <1> QED
    BY <1>10 DEF Blank, Parted

(* Whoever the proceeds of the owner's pass reach is richer by them. *)
LEMMA SellerIsPaid ==
  ASSUME MarketInv, NEW c \in Users, NEW id \in Tokens, NEW value \in Nat,
         Buy(c, id, value), NEW h \in Addr, owners[id] = h
  PROVE  /\ currentPrice(id) > 0
         /\ Wealth(ProceedsReach(h))' - Wealth(ProceedsReach(h))
              >= currentPrice(id) - currentPrice(id) \div 10
  <1> DEFINE price == currentPrice(id)
             seller == owners[id]
             payee == ProceedsReach(seller)
             issuer == issuers[id]
             royalty == price \div 10
             proceeds == price - royalty
             refund == value - price
             received == Payment(eth, c, MARKET, value)
             paid == PayProceeds(received, seller, proceeds)
             shared == Payment(paid, MARKET, issuer, royalty)
  <1>1. /\ eth \in [Holders -> Nat] /\ seller \in Holders /\ issuer \in Holders
        /\ c \in Holders /\ c # MARKET /\ MARKET \in Holders /\ eth[MARKET] = 0
        /\ lockedBalances \in [Holders -> Nat] /\ aave \in Nat
    BY MarketConstants
    DEF MarketInv, MarketTypeOK, EscrowTypeOK, CoreInv, TypeOK, ChainTypeOK, MarketHoldsNothing
  <1>2. /\ price \in Nat /\ price > 0 /\ value \in Nat /\ price <= value /\ value <= eth[c]
        /\ issuer # MARKET /\ SellerPaid(seller, proceeds) /\ seller # c
    BY PriceFacts, MarketConstants DEF Buy
  <1>3. eth' = Payment(shared, MARKET, c, refund)
    BY DEF Buy
  <1>m. eth'[MARKET] = 0 /\ eth' \in [Holders -> Nat]
    BY BuyMoney
  <1>0. /\ payee \in Holders /\ payee # c
        /\ escrowYield \in Tills => payee = escrowYield
        /\ escrowYield \notin Tills => payee = seller
    BY <1>1, <1>2, MarketConstants DEF ProceedsReach
  <1>p. ProceedsReach(h)' = ProceedsReach(h) /\ ProceedsReach(h) = payee
    BY DEF Buy, ProceedsReach
  <1> HIDE DEF price, seller, issuer, payee
  <1>4. /\ royalty \in Nat /\ proceeds \in Nat /\ refund \in Nat /\ proceeds > 0
        /\ proceeds + royalty + refund = value
    BY <1>2
  <1>5. /\ received \in [Holders -> Nat] /\ received[MARKET] = value
        /\ received[payee] >= eth[payee]
    <2>1. received[MARKET] = eth[MARKET] + value /\ received \in [Holders -> Nat]
      BY <1>1, <1>2, PaymentFacts
    <2>2. received[payee] >= eth[payee]
      BY <1>0, <1>1, <1>2, PaymentToOthers
    <2> QED
      BY <1>1, <1>2, <2>1, <2>2
  <1> HIDE DEF royalty, proceeds, refund, received
  <1>6. proceeds <= received[MARKET]
    BY <1>2, <1>4, <1>5
  <1>7. /\ paid \in [Holders -> Nat] /\ paid[MARKET] = value - proceeds
    BY <1>1, <1>2, <1>4, <1>5, <1>6, ProceedsFacts
  <1>8. payee # MARKET => eth'[payee] >= paid[payee]
    <2> SUFFICES ASSUME payee # MARKET PROVE eth'[payee] >= paid[payee]
      OBVIOUS
    <2> HIDE DEF paid
    <2>1. royalty <= paid[MARKET]
      BY <1>2, <1>4, <1>7
    <2>2. shared \in [Holders -> Nat] /\ shared[payee] >= paid[payee]
      BY <1>0, <1>1, <1>2, <1>4, <1>7, <2>1, PaymentFacts, PaymentToOthers
    <2> HIDE DEF shared
    <2>3. eth'[payee] >= shared[payee]
      BY <1>0, <1>1, <1>3, <1>4, <2>2, PaymentToOthers
    <2>4. eth'[payee] \in Nat /\ shared[payee] \in Nat /\ paid[payee] \in Nat
      BY <1>0, <1>m, <1>7, <2>2
    <2> QED
      BY <2>2, <2>3, <2>4
  <1>9. /\ eth[payee] \in Nat /\ eth'[payee] \in Nat /\ received[payee] \in Nat
        /\ lockedBalances[payee] \in Nat /\ paid[payee] \in Nat
    BY <1>0, <1>1, <1>m, <1>5, <1>7
  <1> DEFINE gain == (eth'[payee] + lockedBalances'[payee])
                       - (eth[payee] + lockedBalances[payee])
  <1>10. gain >= proceeds
    <2>1. ASSUME payee # MARKET, paid = Payment(received, MARKET, payee, proceeds),
                 UNCHANGED escrowVars
          PROVE  gain >= proceeds
      <3>1. paid[payee] = received[payee] + proceeds
        BY <1>0, <1>1, <1>4, <1>5, <1>6, <2>1, PaymentFacts
      <3>2. lockedBalances'[payee] = lockedBalances[payee]
        BY <2>1 DEF escrowVars
      <3> HIDE DEF paid
      <3> QED
        BY <1>4, <1>5, <1>8, <1>9, <2>1, <3>1, <3>2
    <2>2. CASE escrowYield = ZERO /\ seller \notin Refusing /\ UNCHANGED escrowVars
      <3>1. payee = seller /\ paid = Payment(received, MARKET, payee, proceeds)
        BY <1>0, <2>2, MarketConstants, ProceedsGo
      <3> HIDE DEF paid
      <3> QED
        BY <2>1, <2>2, <3>1, MarketConstants
    <2>3. CASE escrowYield \in Tills /\ UNCHANGED escrowVars
      <3>1. payee = escrowYield /\ paid = Payment(received, MARKET, payee, proceeds)
        BY <1>0, <2>3, ProceedsGo
      <3> HIDE DEF paid
      <3> QED
        BY <2>1, <2>3, <3>1, MarketConstants
    <2>4. CASE escrowYield = ESCROW /\ DepositYield(MARKET, seller, proceeds)
      <3>0. payee = seller /\ paid = Debit(received, MARKET, proceeds)
        BY <1>0, <2>4, MarketConstants, ProceedsGo
      <3>1. lockedBalances'[payee] = lockedBalances[payee] + proceeds
        BY <1>1, <2>4, <3>0 DEF DepositYield, Credit
      <3>2. eth'[payee] >= eth[payee]
        <4>1. CASE payee = MARKET
          BY <1>1, <1>m, <4>1
        <4>2. CASE payee # MARKET
          <5>1. paid[payee] = received[payee]
            BY <1>0, <1>1, <1>5, <3>0, <4>2 DEF Debit
          <5> HIDE DEF paid
          <5> QED
            BY <1>5, <1>8, <1>9, <4>2, <5>1
        <4> QED
          BY <4>1, <4>2
      <3> HIDE DEF paid
      <3> QED
        BY <1>4, <1>9, <3>1, <3>2
    <2> QED
      BY <1>2, <2>2, <2>3, <2>4 DEF SellerPaid
  <1> QED
    BY <1>2, <1>p, <1>10 DEF Wealth, price, proceeds, royalty

(* The buyer has the pass, with the time it had, and parts with no more than its price,
   which is no more than was sent. *)
LEMMA BuyerPays ==
  ASSUME MarketInv, NEW c \in Users, NEW id \in Tokens, NEW value \in Nat,
         Buy(c, id, value)
  PROVE  /\ owners'[id] = c /\ expiries' = expiries /\ is_active(id)
         /\ eth[c] - eth'[c] <= currentPrice(id) /\ currentPrice(id) <= value
         /\ eth[c] \in Nat /\ eth'[c] \in Nat
  <1> DEFINE price == currentPrice(id)
             seller == owners[id]
             issuer == issuers[id]
             royalty == price \div 10
             proceeds == price - royalty
             refund == value - price
             received == Payment(eth, c, MARKET, value)
             paid == PayProceeds(received, seller, proceeds)
             shared == Payment(paid, MARKET, issuer, royalty)
  <1>0. owners'[id] = c /\ expiries' = expiries /\ is_active(id)
    BY DEF Buy, MovePass, MarketInv, CoreInv, TypeOK
  <1>1. /\ eth \in [Holders -> Nat] /\ seller \in Holders /\ issuer \in Holders
        /\ c \in Holders /\ c # MARKET /\ MARKET \in Holders /\ eth[MARKET] = 0
    BY MarketConstants
    DEF MarketInv, CoreInv, TypeOK, ChainTypeOK, MarketHoldsNothing
  <1>2. /\ price \in Nat /\ price <= value /\ value <= eth[c]
        /\ issuer # MARKET /\ SellerPaid(seller, proceeds)
    BY PriceFacts, MarketConstants DEF Buy
  <1>3. eth' = Payment(shared, MARKET, c, refund)
    BY DEF Buy
  <1>m. eth' \in [Holders -> Nat]
    BY BuyMoney
  <1> HIDE DEF price, seller, issuer
  <1>4. /\ royalty \in Nat /\ proceeds \in Nat /\ refund \in Nat
        /\ proceeds + royalty + refund = value /\ refund = value - price
    BY <1>2
  <1>5. /\ received \in [Holders -> Nat] /\ received[MARKET] = value
        /\ received[c] = eth[c] - value
    <2>1. received[MARKET] = eth[MARKET] + value /\ received \in [Holders -> Nat]
      BY <1>1, <1>2, PaymentFacts
    <2>2. received[c] = eth[c] - value
      BY <1>1, <1>2, PaymentFacts
    <2> QED
      BY <1>1, <2>1, <2>2
  <1> HIDE DEF royalty, proceeds, refund, received
  <1>6. /\ paid \in [Holders -> Nat] /\ paid[MARKET] = value - proceeds
        /\ paid[c] >= received[c]
    <2>1. proceeds <= received[MARKET]
      BY <1>2, <1>4, <1>5
    <2>2. paid \in [Holders -> Nat] /\ paid[MARKET] = value - proceeds
      BY <1>1, <1>2, <1>4, <1>5, <2>1, ProceedsFacts
    <2>3. CASE escrowYield \in Tills \cup {ZERO}
      <3> DEFINE to == IF escrowYield = ZERO THEN seller ELSE escrowYield
      <3>1. paid = Payment(received, MARKET, to, proceeds) /\ to \in Holders
        BY <1>1, <2>3, MarketConstants, ProceedsGo
      <3> HIDE DEF paid, to
      <3> QED
        BY <1>1, <1>4, <1>5, <2>2, <3>1, PaymentToOthers
    <2>4. CASE escrowYield \notin Tills \cup {ZERO}
      <3>1. paid = Debit(received, MARKET, proceeds)
        BY <2>4, ProceedsGo
      <3>2. paid[c] = received[c]
        BY <1>1, <1>5, <3>1 DEF Debit
      <3> HIDE DEF paid
      <3> QED
        BY <1>1, <1>5, <2>2, <3>2
    <2> QED
      BY <2>3, <2>4
  <1> HIDE DEF paid
  <1>7. /\ shared \in [Holders -> Nat] /\ shared[c] >= paid[c] /\ shared[MARKET] = refund
    <2>1. royalty <= paid[MARKET] /\ (value - proceeds) - royalty = refund
      BY <1>2, <1>4, <1>6
    <2>2. shared[c] >= paid[c]
      BY <1>1, <1>4, <1>6, PaymentToOthers
    <2>3. shared \in [Holders -> Nat] /\ shared[MARKET] = paid[MARKET] - royalty
      BY <1>1, <1>2, <1>4, <1>6, <2>1, PaymentFacts
    <2> QED
      BY <1>6, <2>1, <2>2, <2>3
  <1> HIDE DEF shared
  <1>8. eth'[c] = shared[c] + refund
    BY <1>1, <1>3, <1>4, <1>7, PaymentFacts
  <1>9. /\ eth[c] \in Nat /\ eth'[c] \in Nat /\ received[c] \in Nat
        /\ paid[c] \in Nat /\ shared[c] \in Nat
    BY <1>1, <1>m, <1>5, <1>6, <1>7
  <1>10. eth[c] - eth'[c] <= price
    BY <1>2, <1>4, <1>5, <1>6, <1>7, <1>8, <1>9
  <1> QED
    BY <1>0, <1>2, <1>9, <1>10 DEF price

(* PassLeavesForPay for every value of the constants: buy() reads the seller before
   it moves the pass, and nine tenths of the price end with whoever that is, an
   account or the rental contract, or with the contract linked in place of the escrow;
   nobody else's transaction takes a pass away. *)
THEOREM NobodyTakesAPass == MarketSpec => PassLeavesForPay
  <1>1. SystemInit => FreshIdsUnowned
    BY DEF SystemInit, DeployedWithPlan, NoPasses, FreshIdsUnowned
  <1>2. MarketInv /\ FreshIdsUnowned /\ [MarketNext]_vars => FreshIdsUnowned'
    BY StepOwners DEF FreshIdsUnowned
  <1>3. MarketInv /\ FreshIdsUnowned /\ [MarketNext]_vars
          => [\A i \in Tokens, h \in Addr :
                owners[i] = h /\ owners'[i] # h =>
                  \/ h \in Users /\ HolderStep(h)
                  \/ /\ currentPrice(i) > 0
                     /\ Wealth(ProceedsReach(h))' - Wealth(ProceedsReach(h))
                          >= currentPrice(i) - currentPrice(i) \div 10]_vars
    BY StepOwners, SellerIsPaid, MarketConstants
  <1> QED
    BY <1>1, <1>2, <1>3, MarketInvariant, PTL DEF MarketSpec, PassLeavesForPay
=============================================================================
