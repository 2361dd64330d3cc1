-------------------------- MODULE WebSessionProofs --------------------------
(***************************************************************************)
(* Theorems about a tab of the web app over the contracts: whatever pages  *)
(* it shows, however old, and whatever is sent elsewhere, what its flows   *)
(* send means what the person was told.  The contracts keep their books    *)
(* beside it.                                                              *)
(***************************************************************************)
EXTENDS WebSession, MarketplaceProofs

Kinds == {"buyPlan", "mint", "gift", "split", "bundle", "list", "unlist", "buy"}
Phases ==
  {"simulating", "checking", "asking", "pending", "mined", "reverted", "reloading"}
Args == Nat \cup Addr \cup IdLists

Decays == [openingWei : Nat, listedAt : Nat, expiry : Nat]
Quotes == [shown : Nat, decay : Decays]

FlowRecord ==
  [kind : Kinds, id : Tokens, arg : Args, phase : Phases, call : {"send", "unlist"},
   since : Nat, attached : BOOLEAN, quote : Quotes]

ArgFits(f) ==
  /\ f.kind \in {"buyPlan", "list", "buy"} => f.arg \in Nat
  /\ f.kind = "mint" => f.arg \in Durations
  /\ f.kind = "gift" => f.arg \in Addr
  /\ f.kind = "split" => f.arg \in PartCounts
  /\ f.kind = "bundle" => f.arg \in IdLists

(* A gift that has looked at the listing and has it off its way: it found none, or its
   unlist went through. *)
ListingGone(f) ==
  /\ f.kind = "gift"
  /\ \/ f.call = "send" /\ f.phase # "checking"
     \/ f.call = "unlist" /\ f.phase = "mined"

(* The expiries of the passes there are. *)
terms == [i \in 0 .. next_token_id - 1 |-> expiries[i]]

(* A listing of pass i, read when it asked this price or less: the pass has the expiry it
   had then, or has been burned, and the listing will not ask more. *)
Reading(i, decay, price, es, t) ==
  /\ i \in DOMAIN es /\ es[i] \in {decay.expiry, 0}
  /\ \A s \in Nat : s >= t => priceAt(decay, s) <= price

(* A flow, over these listings and passes and at this time: what stands in the way of a
   gift has come there since it looked, and what a buyer saw was read. *)
FlowFits(f, ls, es, t) ==
  /\ f \in FlowRecord /\ ArgFits(f) /\ f.since <= t
  /\ f.phase = "checking" \/ f.call = "unlist" => f.kind = "gift"
  /\ ListingGone(f) => ls[f.id].openingPrice = 0 \/ ls[f.id].listedAt >= f.since
  /\ f.kind = "buy" => Reading(f.id, f.quote.decay, f.quote.shown, es, t)

(* What is in the mempool are flows that wait for their receipt, each once. *)
MempoolFits ==
  /\ mempool \in Seq(Nat)
  /\ \A k \in 1 .. Len(mempool) :
       mempool[k] \in FlowIds /\ flows[mempool[k]].phase = "pending"
  /\ \A j, k \in 1 .. Len(mempool) : mempool[j] = mempool[k] => j = k

(* The listings a page shows were read. *)
CardFits(card, i, es, t) ==
  /\ card.current \in Nat /\ Decay(card) \in Decays
  /\ card.listed > 0 => Reading(i, Decay(card), card.current, es, t)

ViewFits == \A i \in Tokens : CardFits(view[i], i, terms, now)

FlowsFit ==
  /\ started \in Nat /\ FlowIds \subseteq 1 .. started
  /\ \A n \in FlowIds : FlowFits(flows[n], listings, terms, now)

(* The invariant the proofs carry. *)
SessionInv == MarketInv /\ FlowsFit /\ MempoolFits /\ ViewFits

LEMMA SessionConstants ==
  /\ Me \in Users /\ Me \in Addr /\ Me # MARKET /\ Rivals \subseteq Users
  /\ DEAD \in Addr /\ Friends \subseteq Addr /\ Asks \subseteq Nat
  /\ Durations \subseteq Nat /\ PartCounts \subseteq Nat
  BY SessionAssumption, MarketConstants, InputsAssumption

LEMMA MarketTypes0 ==
  ASSUME MarketInv
  PROVE  /\ now \in Nat /\ eth \in [Holders -> Nat]
         /\ owners \in [Tokens -> Holders] /\ issuers \in [Tokens -> Holders]
         /\ plan_prices \in [Plans -> Nat]
         /\ listings \in [Tokens -> Listing]
         /\ \A i \in Tokens : /\ listings[i].openingPrice \in Nat
                              /\ listings[i].listedAt \in Nat
  BY ConstantFacts DEF MarketInv, MarketTypeOK, CoreInv, TypeOK, ChainTypeOK, Listing

-----------------------------------------------------------------------------
(* Flows as records.                                                       *)

LEMMA PhaseMoves ==
  ASSUME NEW f \in FlowRecord, NEW phase \in Phases
  PROVE  LET g == [f EXCEPT !.phase = phase]
         IN  /\ g \in FlowRecord /\ g.phase = phase
             /\ g.kind = f.kind /\ g.id = f.id /\ g.arg = f.arg
             /\ g.call = f.call /\ g.since = f.since /\ g.quote = f.quote
  BY DEF FlowRecord

LEMMA CallMoves ==
  ASSUME NEW f \in FlowRecord, NEW call \in {"send", "unlist"}
  PROVE  LET g == [f EXCEPT !.phase = "asking", !.call = call]
         IN  /\ g \in FlowRecord /\ g.phase = "asking" /\ g.call = call
             /\ g.kind = f.kind /\ g.id = f.id /\ g.arg = f.arg /\ g.since = f.since
             /\ g.quote = f.quote
  <1> DEFINE g == [f EXCEPT !.phase = "asking", !.call = call]
             g1 == [f EXCEPT !.phase = "asking"]
             g2 == [g1 EXCEPT !.call = call]
  <1>1. g = g2
    BY DEF FlowRecord
  <1>2. /\ g1 \in FlowRecord /\ g1.phase = "asking"
        /\ g1.kind = f.kind /\ g1.id = f.id /\ g1.arg = f.arg /\ g1.since = f.since
        /\ g1.quote = f.quote
    BY PhaseMoves DEF Phases
  <1> HIDE DEF g1
  <1>3. /\ g2 \in FlowRecord /\ g2.phase = "asking" /\ g2.call = call
        /\ g2.kind = f.kind /\ g2.id = f.id /\ g2.arg = f.arg /\ g2.since = f.since
        /\ g2.quote = f.quote
    BY <1>2 DEF FlowRecord
  <1> QED
    BY <1>1, <1>3

LEMMA LookMoves ==
  ASSUME NEW f \in FlowRecord, now \in Nat, NEW listed \in BOOLEAN
  PROVE  LET g == Looked(f, listed)
         IN  /\ g \in FlowRecord /\ g.phase = "asking" /\ g.since = now
             /\ g.call = IF listed THEN "unlist" ELSE "send"
             /\ g.kind = f.kind /\ g.id = f.id /\ g.arg = f.arg
             /\ g.quote = f.quote
  <1> DEFINE call == IF listed THEN "unlist" ELSE "send"
             g1 == [f EXCEPT !.phase = "asking", !.call = call]
             g2 == [g1 EXCEPT !.since = now]
  <1>1. Looked(f, listed) = g2
    BY DEF FlowRecord, Looked
  <1>2. call \in {"send", "unlist"}
    OBVIOUS
  <1> HIDE DEF call
  <1>3. /\ g1 \in FlowRecord /\ g1.phase = "asking" /\ g1.call = call
        /\ g1.kind = f.kind /\ g1.id = f.id /\ g1.arg = f.arg
        /\ g1.quote = f.quote
    BY <1>2, CallMoves
  <1> HIDE DEF g1
  <1>4. /\ g2 \in FlowRecord /\ g2.phase = "asking" /\ g2.call = call /\ g2.since = now
        /\ g2.kind = f.kind /\ g2.id = f.id /\ g2.arg = f.arg
        /\ g2.quote = f.quote
    BY <1>3 DEF FlowRecord
  <1> QED
    BY <1>1, <1>4 DEF call

LEMMA Detaches ==
  ASSUME NEW f \in FlowRecord
  PROVE  LET g == [f EXCEPT !.attached = FALSE]
         IN  /\ g \in FlowRecord /\ g.phase = f.phase /\ g.call = f.call
             /\ g.kind = f.kind /\ g.id = f.id /\ g.arg = f.arg /\ g.since = f.since
             /\ g.quote = f.quote
  BY DEF FlowRecord

(* What becomes of the flows. *)
LEMMA BecomesFacts ==
  ASSUME NEW n \in FlowIds, NEW f, flows' = Becomes(n, f)
  PROVE  /\ FlowIds' = FlowIds /\ flows'[n] = f
         /\ \A m \in FlowIds \ {n} : flows'[m] = flows[m]
  BY DEF Becomes, FlowIds

LEMMA WithoutFacts ==
  ASSUME NEW n \in FlowIds, flows' = Without(n)
  PROVE  /\ FlowIds' = FlowIds \ {n}
         /\ \A m \in FlowIds \ {n} : flows'[m] = flows[m]
  BY DEF Without, FlowIds

-----------------------------------------------------------------------------
(* The chain under the tab.                                                *)

LEMMA OneSoldInv ==
  ASSUME NEW buyer \in Users, OneSold(buyer)
  PROVE  MarketInv
  <1>1. /\ buyer \in Holders /\ Admin \in Holders /\ MARKET \in Holders
        /\ MARKET # buyer /\ MARKET # Admin /\ PlanPrice \in Nat
        /\ InitEth \in [Holders -> Nat] /\ IsFiniteSet(Holders)
        /\ PlanPrice <= InitEth[buyer] /\ InitEth[MARKET] = 0
    BY MarketConstants, ConstantFacts, AccountsAssumption DEF OneSold
  <1>2. /\ eth \in [Holders -> Nat] /\ Sum(eth, Holders) = Sum(InitEth, Holders)
    BY <1>1, PaymentTotal DEF OneSold, Payment
  <1>3. eth[MARKET] = 0
    BY <1>1 DEF OneSold, Payment, Credit, Debit
  <1>4. ExpiryAfter(PlanDuration) \in Nat
    BY MarketConstants, ExpiryAfterNat DEF OneSold
  <1>5. CoreInv
    <2>1. ChainTypeOK
      BY <1>2, MaxTimeAssumption DEF OneSold, ChainTypeOK
    <2>2. TypeOK
      BY <1>1, <1>4, <2>1, ConstantFacts, MarketConstants, BoundsAssumption
      DEF OneSold, TypeOK, Holders, Plans
    <2>3. FreshIdsBlank
      BY ConstantFacts DEF OneSold, FreshIdsBlank
    <2> QED
      BY <2>2, <2>3 DEF CoreInv
  <1>6. MarketTypeOK
    BY <1>5, ConstantFacts
    DEF OneSold, MarketInit, EscrowInit, MarketTypeOK, EscrowTypeOK, CoreInv, NoListing
  <1>7. ListingsOfThePast
    BY DEF OneSold, MarketInit, ListingsOfThePast, NoListing
  <1>8. Sum(lockedBalances, Holders) = 0
    BY SumOfZeros DEF OneSold, EscrowInit
  <1>9. Sum(InitEth, Holders) \in Nat
    BY <1>1, SumNat
  <1> QED
    BY <1>2, <1>3, <1>5, <1>6, <1>7, <1>8, <1>9
    DEF MarketInv, MarketHoldsNothing, WealthConserved, EscrowBacked, OneSold, EscrowInit

(* A listing that appears is of the present. *)
ListingsDated ==
  /\ now' >= now
  /\ \A i \in Tokens : \/ listings'[i] = listings[i]
                       \/ listings'[i].openingPrice = 0
                       \/ listings'[i].listedAt = now

(* A pass keeps its expiry until it is burned. *)
PassesLast ==
  /\ next_token_id' >= next_token_id
  /\ \A i \in 0 .. next_token_id - 1 : expiries'[i] \in {expiries[i], 0}

ChainMoves == MarketInv' /\ ListingsDated /\ PassesLast

LEMMA PassesStay ==
  ASSUME MarketInv, UNCHANGED expiries, next_token_id' >= next_token_id
  PROVE  PassesLast
  BY DEF PassesLast

LEMMA PassesStand ==
  ASSUME MarketInv, UNCHANGED <<expiries, next_token_id>>
  PROVE  PassesLast
  BY ConstantFacts DEF PassesLast, MarketInv, CoreInv, TypeOK

LEMMA CoreMoves ==
  ASSUME MarketInv, CoreInv', next_token_id' >= next_token_id,
         Sum(eth', Holders) = Sum(eth, Holders), eth'[MARKET] = eth[MARKET],
         UNCHANGED <<now, escrowVars, marketVars>>, PassesLast
  PROVE  ChainMoves
  <1>1. MarketInv'
    BY CoreAsideInv
  <1>2. ListingsDated
    BY MarketTypes0 DEF ListingsDated, marketVars
  <1> QED
    BY <1>1, <1>2 DEF ChainMoves

LEMMA CoreStepMoves ==
  ASSUME MarketInv, NEW c \in Users, CoreStep(c)
  PROVE  ChainMoves
  <1>1. MarketInv'
    BY CoreStepInv
  <1>2. UNCHANGED <<now, listings>>
    BY DEF CoreStep, IssueStep, HolderStep, Mint, BuyPass, Split, Bundle, TransferPass,
           marketVars
  <1>3. PassesLast
    <2>1. CoreInv /\ Next
      BY MarketConstants DEF CoreStep, Next, MarketInv
    <2>2. next_token_id' >= next_token_id
      BY <2>1, IdsOnlyGrow
    <2>3. CASE UNCHANGED coreVars
      BY <2>2, <2>3, PassesStay DEF coreVars, tokenVars
    <2>4. CASE ~ UNCHANGED coreVars
      BY <2>1, <2>2, <2>4, StepKeepsTerms DEF PassesLast, TermsKept
    <2> QED
      BY <2>3, <2>4
  <1> QED
    BY <1>1, <1>2, <1>3, MarketTypes0 DEF ListingsDated, ChainMoves

LEMMA ListMoves ==
  ASSUME MarketInv, NEW c \in Users, NEW id \in Tokens, NEW price \in Nat,
         List(c, id, price)
  PROVE  ChainMoves
  <1> DEFINE new == [openingPrice |-> price, listedAt |-> now]
  <1>1. MarketInv'
    BY ListInv
  <1>2. /\ listings' = [listings EXCEPT ![id] = new] /\ new.listedAt = now /\ now' = now
        /\ UNCHANGED <<expiries, next_token_id>>
    BY DEF List, coreVars, tokenVars
  <1> HIDE DEF new
  <1>3. ListingsDated
    BY <1>2, MarketTypes0 DEF ListingsDated
  <1> QED
    BY <1>1, <1>2, <1>3, PassesStand DEF ChainMoves

LEMMA UnlistMoves ==
  ASSUME MarketInv, NEW c \in Users, NEW id \in Tokens, Unlist(c, id)
  PROVE  ChainMoves /\ listings'[id].openingPrice = 0
  <1>1. MarketInv'
    BY ListingStep
  <1>2. /\ listings' = [listings EXCEPT ![id] = NoListing] /\ NoListing.openingPrice = 0
        /\ now' = now /\ UNCHANGED <<expiries, next_token_id>>
    BY DEF Unlist, NoListing, coreVars, tokenVars
  <1>3. ListingsDated /\ listings'[id].openingPrice = 0
    BY <1>2, MarketTypes0 DEF ListingsDated
  <1> QED
    BY <1>1, <1>2, <1>3, PassesStand DEF ChainMoves

LEMMA BuyMoves ==
  ASSUME MarketInv, NEW c \in Users, NEW id \in Tokens, NEW value \in Nat,
         Buy(c, id, value)
  PROVE  ChainMoves
  <1>1. MarketInv'
    BY BuyInv
  <1>2. /\ listings' = [listings EXCEPT ![id] = NoListing] /\ NoListing.openingPrice = 0
        /\ now' = now /\ UNCHANGED <<expiries, next_token_id>>
    BY DEF Buy, MovePass, NoListing
  <1>3. ListingsDated
    BY <1>2, MarketTypes0 DEF ListingsDated
  <1> QED
    BY <1>1, <1>2, <1>3, PassesStand DEF ChainMoves

LEMMA MarketStepMoves ==
  ASSUME MarketInv, NEW c \in Users, MarketStep(c)
  PROVE  ChainMoves
  <1>1. ASSUME NEW escrow \in Escrows, SetEscrow(c, escrow) PROVE ChainMoves
    <2>1. MarketInv'
      BY <1>1, ListingStep
    <2>2. UNCHANGED <<now, listings, expiries, next_token_id>>
      BY <1>1 DEF SetEscrow, coreVars, tokenVars
    <2> QED
      BY <2>1, <2>2, MarketTypes0, PassesStand DEF ListingsDated, ChainMoves
  <1> QED
    BY <1>1, ListMoves, UnlistMoves, BuyMoves, MarketConstants DEF MarketStep

LEMMA TickMoves ==
  ASSUME MarketInv, Tick, UNCHANGED <<escrowVars, marketVars>>
  PROVE  ChainMoves
  <1>1. MarketInv'
    BY MarketTickInv
  <1>2. now' = now + 1 /\ UNCHANGED <<listings, expiries, next_token_id>>
    BY DEF Tick, TimePasses, marketVars, tokenVars
  <1> QED
    BY <1>1, <1>2, MarketTypes0, PassesStand DEF ListingsDated, ChainMoves

LEMMA StillMoves ==
  ASSUME MarketInv, UNCHANGED vars
  PROVE  ChainMoves
  <1>1. MarketInv'
    BY MarketStepInv
  <1>2. UNCHANGED <<now, listings, expiries, next_token_id>>
    BY DEF vars, coreVars, tokenVars, marketVars
  <1> QED
    BY <1>1, <1>2, MarketTypes0, PassesStand DEF ListingsDated, ChainMoves

(* A transaction of the tab, whatever the page it was prepared on showed. *)
LEMMA ExecuteMoves ==
  ASSUME MarketInv, NEW f \in FlowRecord, ArgFits(f), Execute(f)
  PROVE  /\ ChainMoves
         /\ f.call = "unlist" => listings'[f.id].openingPrice = 0
  <1>1. /\ f.id \in Tokens /\ f.kind \in Kinds /\ Me \in Users /\ Me \in Addr /\ Me # MARKET
        /\ 0 \in Plans
    BY SessionConstants, ConstantFacts DEF FlowRecord
  <1>2. CASE f.call = "unlist"
    <2>1. Unlist(Me, f.id)
      BY <1>2 DEF Execute
    <2> QED
      BY <1>1, <2>1, UnlistMoves
  <1>3. CASE f.call # "unlist"
    <2>1. CASE f.kind = "buyPlan"
      <3>1. BuyPass(Me, 0, f.arg) /\ UNCHANGED <<escrowVars, marketVars>>
        BY <1>3, <2>1 DEF Execute, AtCore
      <3>2. CoreInv' /\ Sum(eth', Holders) = Sum(eth, Holders) /\ eth'[MARKET] = eth[MARKET]
        BY <1>1, <3>1, BuyPassType, BuyPassTotal, MarketConstants DEF MarketInv
      <3>3. next_token_id' >= next_token_id /\ now' = now
        BY <3>1, ConstantFacts DEF BuyPass, NewPass, MarketInv, CoreInv, TypeOK
      <3>4. PassesLast
        <4>1. /\ next_token_id \in Nat /\ expiries \in [Tokens -> Nat]
              /\ 0 .. next_token_id - 1 \subseteq Tokens
          BY ConstantFacts DEF MarketInv, CoreInv, TypeOK, Tokens
        <4>2. expiries' = [expiries EXCEPT ![next_token_id] = ExpiryAfter(plan_durations[0])]
          BY <3>1 DEF BuyPass, NewPass
        <4> QED
          BY <3>3, <4>1, <4>2 DEF PassesLast
      <3> QED
        BY <1>3, <3>1, <3>2, <3>3, <3>4, CoreMoves
    <2>2. CASE f.kind = "mint"
      <3>1. Mint(Me, Me, f.arg) /\ f.arg \in Durations
        BY <1>3, <2>2 DEF Execute, AtCore, ArgFits
      <3>2. CoreStep(Me)
        BY <1>1, <1>3, <2>2, <3>1 DEF Execute, AtCore, CoreStep, IssueStep
      <3> QED
        BY <1>1, <1>3, <3>2, CoreStepMoves
    <2>3. CASE f.kind = "gift"
      <3>1. /\ TransferPass(Me, f.arg, f.id) /\ f.arg \in Holders
            /\ UNCHANGED <<escrowVars, marketVars>>
        BY <1>3, <2>3, ConstantFacts DEF Execute, AtCore, ArgFits
      <3>2. MovePass(f.id, f.arg) /\ UNCHANGED <<now, eth, planVars, roleVars>>
        BY <3>1 DEF TransferPass
      <3>3. CoreInv'
        BY <1>1, <3>1, <3>2, MoveType DEF MarketInv
      <3>4. next_token_id' >= next_token_id
        BY <3>2, ConstantFacts DEF MovePass, MarketInv, CoreInv, TypeOK
      <3>5. PassesLast
        BY <3>2, <3>4, PassesStay DEF MovePass
      <3> QED
        BY <1>3, <3>1, <3>2, <3>3, <3>4, <3>5, CoreMoves
    <2>4. CASE f.kind = "split"
      <3>1. CoreStep(Me)
        BY <1>1, <1>3, <2>4 DEF Execute, AtCore, CoreStep, HolderStep, ArgFits
      <3> QED
        BY <1>1, <1>3, <3>1, CoreStepMoves
    <2>5. CASE f.kind = "bundle"
      <3>1. CoreStep(Me)
        BY <1>1, <1>3, <2>5 DEF Execute, AtCore, CoreStep, HolderStep, ArgFits
      <3> QED
        BY <1>1, <1>3, <3>1, CoreStepMoves
    <2>6. CASE f.kind = "list"
      <3>1. List(Me, f.id, f.arg) /\ f.arg \in Nat
        BY <1>3, <2>6 DEF Execute, ArgFits
      <3> QED
        BY <1>1, <1>3, <3>1, ListMoves
    <2>7. CASE f.kind = "unlist"
      <3>1. Unlist(Me, f.id)
        BY <1>3, <2>7 DEF Execute
      <3> QED
        BY <1>1, <1>3, <3>1, UnlistMoves
    <2>8. CASE f.kind = "buy"
      <3>1. Buy(Me, f.id, withBuffer(f.arg)) /\ f.arg \in Nat
        BY <1>3, <2>8 DEF Execute, Purchase, ArgFits
      <3>2. withBuffer(f.arg) \in Nat
        BY <3>1 DEF withBuffer
      <3> QED
        BY <1>1, <1>3, <3>1, <3>2, BuyMoves
    <2> QED
      BY <1>1, <2>1, <2>2, <2>3, <2>4, <2>5, <2>6, <2>7, <2>8 DEF Kinds
  <1> QED
    BY <1>2, <1>3

-----------------------------------------------------------------------------
(* What stays true of the flows a step does not touch.                     *)

LEMMA ReadingKept ==
  ASSUME MarketInv, ChainMoves, NEW i \in Tokens, NEW decay, NEW price,
         Reading(i, decay, price, terms, now)
  PROVE  Reading(i, decay, price, terms', now')
  <1>0. i \in 0 .. next_token_id - 1
    BY DEF Reading, terms
  <1>1. /\ expiries[i] \in {decay.expiry, 0}
        /\ \A s \in Nat : s >= now => priceAt(decay, s) <= price
    BY <1>0 DEF Reading, terms
  <1>2. /\ next_token_id \in Nat /\ next_token_id' \in Nat /\ now \in Nat /\ now' \in Nat
    BY ConstantFacts DEF ChainMoves, MarketInv, CoreInv, TypeOK, ChainTypeOK
  <1>3. next_token_id' >= next_token_id /\ now' >= now
    BY DEF ChainMoves, ListingsDated, PassesLast
  <1>6. expiries'[i] \in {expiries[i], 0}
    BY <1>0 DEF ChainMoves, ListingsDated, PassesLast
  <1>4. \A s \in Nat : s >= now' => s >= now
    BY <1>2, <1>3
  <1>5. i \in 0 .. next_token_id' - 1
    <2> DEFINE m == next_token_id
               n == next_token_id'
    <2>1. i \in Nat /\ m \in Nat /\ n \in Nat /\ i \in 0 .. m - 1 /\ n >= m
      BY <1>0, <1>2, <1>3, ConstantFacts
    <2> HIDE DEF m, n
    <2>2. i \in 0 .. n - 1
      BY <2>1
    <2> QED
      BY <2>2 DEF n
  <1> QED
    BY <1>1, <1>4, <1>5, <1>6 DEF Reading, terms

LEMMA ViewKept ==
  ASSUME MarketInv, ChainMoves, ViewFits, view' = view
  PROVE  ViewFits'
  <1> SUFFICES ASSUME NEW i \in Tokens PROVE CardFits(view[i], i, terms', now')
    BY DEF ViewFits
  <1>1. CardFits(view[i], i, terms, now)
    BY DEF ViewFits
  <1> QED
    BY <1>1, ReadingKept DEF CardFits

LEMMA FlowKept ==
  ASSUME MarketInv, ChainMoves, NEW f, FlowFits(f, listings, terms, now)
  PROVE  FlowFits(f, listings', terms', now')
  <1>1. /\ f.id \in Tokens /\ f.since \in Nat /\ f.since <= now /\ now \in Nat
    BY MarketTypes0 DEF FlowFits, FlowRecord
  <1>2. now' \in Nat /\ now' >= now
    BY ConstantFacts
    DEF ChainMoves, ListingsDated, MarketInv, CoreInv, TypeOK, ChainTypeOK
  <1>3. f.since <= now'
    BY <1>1, <1>2
  <1>4. ListingGone(f) => listings'[f.id].openingPrice = 0
                          \/ listings'[f.id].listedAt >= f.since
    BY <1>1 DEF FlowFits, ChainMoves, ListingsDated
  <1>5. f.kind = "buy" => Reading(f.id, f.quote.decay, f.quote.shown, terms', now')
    BY <1>1, ReadingKept DEF FlowFits
  <1> QED
    BY <1>3, <1>4, <1>5 DEF FlowFits

(* The rest of the invariant, from what a step does to the flows: each is as it was or
   fits anew, and those in the mempool go on waiting. *)
LEMMA FlowsKept ==
  ASSUME SessionInv, ChainMoves, started' \in Nat, FlowIds' \subseteq 1 .. started',
         \A n \in FlowIds' : \/ n \in FlowIds /\ flows'[n] = flows[n]
                             \/ FlowFits(flows'[n], listings', terms', now')
  PROVE  FlowsFit'
  <1>1. ASSUME NEW n \in FlowIds', n \in FlowIds, flows'[n] = flows[n]
        PROVE  FlowFits(flows'[n], listings', terms', now')
    BY <1>1, FlowKept DEF SessionInv, FlowsFit
  <1>2. \A n \in FlowIds' : FlowFits(flows'[n], listings', terms', now')
    BY <1>1
  <1> QED
    BY <1>2 DEF FlowsFit

LEMMA MempoolKept ==
  ASSUME SessionInv, UNCHANGED mempool,
         \A n \in FlowIds : flows[n].phase = "pending" =>
           n \in FlowIds' /\ flows'[n].phase = "pending"
  PROVE  MempoolFits'
  BY DEF SessionInv, MempoolFits

(* A step of the tab alone, that reads nothing. *)
LEMMA TabStep ==
  ASSUME SessionInv, UNCHANGED <<vars, view, mempool>>,
         started' \in Nat, FlowIds' \subseteq 1 .. started',
         \A n \in FlowIds' : \/ n \in FlowIds /\ flows'[n] = flows[n]
                             \/ FlowFits(flows'[n], listings, terms, now),
         \A n \in FlowIds : flows[n].phase = "pending" =>
           n \in FlowIds' /\ flows'[n].phase = "pending"
  PROVE  SessionInv'
  <1>1. ChainMoves
    BY StillMoves DEF SessionInv
  <1>2. UNCHANGED <<listings, terms, now>>
    BY DEF vars, coreVars, tokenVars, marketVars, terms
  <1>3. FlowsFit'
    BY <1>1, <1>2, FlowsKept
  <1>4. MempoolFits'
    BY MempoolKept
  <1>5. ViewFits'
    BY <1>1, ViewKept DEF SessionInv
  <1> QED
    BY <1>1, <1>3, <1>4, <1>5 DEF SessionInv, ChainMoves

(* A flow that is not in the mempool becomes another, or ends. *)
LEMMA OneFlowStep ==
  ASSUME SessionInv, UNCHANGED <<vars, view, mempool, started>>,
         NEW n \in FlowIds, flows[n].phase # "pending",
         \/ flows' = Without(n)
         \/ \E f : flows' = Becomes(n, f) /\ FlowFits(f, listings, terms, now)
  PROVE  SessionInv'
  <1>1. started \in Nat /\ FlowIds \subseteq 1 .. started
    BY DEF SessionInv, FlowsFit
  <1>2. CASE flows' = Without(n)
    BY <1>1, <1>2, WithoutFacts, TabStep
  <1>3. ASSUME NEW f, flows' = Becomes(n, f), FlowFits(f, listings, terms, now)
        PROVE  SessionInv'
    BY <1>1, <1>3, BecomesFacts, TabStep
  <1> QED
    BY <1>2, <1>3

-----------------------------------------------------------------------------
(* Buttons.                                                                *)

(* Every control starts the flow its handler is for, with what its form allows. *)
LEMMA StartsFit ==
  ASSUME SessionInv, StartSome
  PROVE  \/ UNCHANGED <<vars, view, started, flows, mempool>>
         \/ \E kind \in Kinds, id \in Tokens, arg \in Args, phase \in Phases :
              /\ Start(kind, id, arg, phase)
              /\ ArgFits(Flow(kind, id, arg, phase))
              /\ phase \in {"asking", "simulating", "checking"}
              /\ phase = "checking" <=> kind = "gift"
              /\ kind = "buy" => view[id].listed > 0
  <1> DEFINE Fits(kind, id, arg, phase) ==
               /\ Start(kind, id, arg, phase)
               /\ ArgFits(Flow(kind, id, arg, phase))
               /\ phase \in {"asking", "simulating", "checking"}
               /\ phase = "checking" <=> kind = "gift"
               /\ kind = "buy" => view[id].listed > 0
             Goal == \/ UNCHANGED <<vars, view, started, flows, mempool>>
                     \/ \E kind \in Kinds, id \in Tokens, arg \in Args, phase \in Phases :
                          Fits(kind, id, arg, phase)
  <1>1. /\ 0 \in Tokens /\ 0 \in Nat /\ plan_prices[0] \in Nat
        /\ \A i \in Tokens : view[i].current \in Nat
    BY MarketTypes0, ConstantFacts DEF SessionInv, ViewFits, CardFits
  <1>2. /\ Durations \subseteq Args /\ Friends \cup {DEAD} \subseteq Args
        /\ PartCounts \subseteq Args /\ Asks \subseteq Args /\ Nat \subseteq Args
        /\ IdLists \subseteq Args /\ Asks \subseteq Nat /\ Friends \cup {DEAD} \subseteq Addr
    BY SessionConstants DEF Args
  <1>3. \A kind \in Kinds, id \in Tokens, arg \in Args, phase \in Phases :
          Fits(kind, id, arg, phase) => Goal
    OBVIOUS
  <1> USE DEF Kinds, Phases, ArgFits, Flow
  <1> HIDE DEF Goal
  <1>4. ASSUME BuyFromPlan PROVE Goal
    BY <1>1, <1>2, <1>3, <1>4 DEF BuyFromPlan
  <1>5. ASSUME DashboardMint PROVE Goal
    BY <1>1, <1>2, <1>3, <1>5 DEF DashboardMint
  <1>6. ASSUME BundlePasses PROVE Goal
    BY <1>1, <1>2, <1>3, <1>6 DEF BundlePasses
  <1>7. ASSUME NEW i \in Tokens, Gift(i) PROVE Goal
    BY <1>1, <1>2, <1>3, <1>7 DEF Gift
  <1>8. ASSUME NEW i \in Tokens, SplitPass(i) PROVE Goal
    BY <1>1, <1>2, <1>3, <1>8 DEF SplitPass
  <1>9. ASSUME NEW i \in Tokens, DashboardList(i) PROVE Goal
    BY <1>1, <1>2, <1>3, <1>9 DEF DashboardList
  <1>10. ASSUME NEW i \in Tokens, TakeOver(i) PROVE Goal
    BY <1>1, <1>2, <1>3, <1>10 DEF TakeOver
  <1>11. ASSUME NEW i \in Tokens, Withdraws(i) PROVE Goal
    BY <1>1, <1>2, <1>3, <1>11 DEF Withdraws
  <1>12. ASSUME NEW i \in Tokens, ListIt(i) PROVE Goal
    BY <1>1, <1>2, <1>3, <1>12 DEF ListIt
  <1>13. ASSUME NEW i \in Tokens, ConfirmTransfer(i) PROVE Goal
    BY <1>1, <1>2, <1>3, <1>13 DEF ConfirmTransfer
  <1>14. ASSUME NEW i \in Tokens, MarketBuy(i) PROVE Goal
    BY <1>1, <1>2, <1>3, <1>14 DEF MarketBuy, MarketCard
  <1>15. ASSUME NEW i \in Tokens, NEW form, OpenForm(i, form) PROVE Goal
    BY <1>15 DEF OpenForm, Goal
  <1>16. ASSUME NEW form, CancelForm(form) PROVE Goal
    BY <1>16 DEF CancelForm, Goal
  <1>17. ASSUME NEW i \in Tokens,
                \/ Gift(i) \/ SplitPass(i) \/ DashboardList(i)
                \/ TakeOver(i) \/ Withdraws(i) \/ ListIt(i) \/ ConfirmTransfer(i)
                \/ MarketBuy(i)
                \/ \E form \in {"listing", "transferring"} : OpenForm(i, form)
         PROVE  Goal
    BY <1>7, <1>8, <1>9, <1>10, <1>11, <1>12, <1>13, <1>14, <1>15, <1>17
  <1>18. Goal
    BY <1>4, <1>5, <1>6, <1>16, <1>17 DEF StartSome
  <1> QED
    BY <1>18 DEF Goal

(* The price of a listing falls, as a card reckons it and as the contract does. *)
LEMMA TickingFalls ==
  ASSUME NEW decay \in Decays, NEW t \in Nat
  PROVE  /\ priceAt(decay, t) \in Nat
         /\ \A s \in Nat : s >= t => priceAt(decay, s) <= priceAt(decay, t)
  <1> DEFINE opening == decay.openingWei
             listed == decay.listedAt
             expiry == decay.expiry
             none(s) == opening <= 0 \/ s >= expiry \/ expiry <= listed
             ramp == expiry - listed
  <1>1. opening \in Nat /\ listed \in Nat /\ expiry \in Nat
    BY DEF Decays
  <1>2. ASSUME NEW s \in Nat, none(s) PROVE priceAt(decay, s) = 0
    BY <1>2 DEF priceAt
  <1>3. ASSUME NEW s \in Nat, ~none(s)
        PROVE  /\ priceAt(decay, s) = (opening * (expiry - s)) \div ramp
               /\ ramp \in Nat /\ 0 < ramp /\ expiry - s \in Nat
    BY <1>1, <1>3 DEF priceAt
  <1>4. ASSUME NEW s \in Nat PROVE priceAt(decay, s) \in Nat
    <2>1. CASE none(s)
      BY <1>2, <2>1
    <2>2. CASE ~none(s)
      <3>1. /\ priceAt(decay, s) = (opening * (expiry - s)) \div ramp
            /\ ramp \in Nat /\ 0 < ramp /\ expiry - s \in Nat
        BY <1>3, <2>2
      <3> HIDE DEF opening, expiry, ramp
      <3>2. opening * (expiry - s) \in Nat
        BY <1>1, <3>1
      <3> QED
        BY <3>1, <3>2
    <2> QED
      BY <2>1, <2>2
  <1>5. ASSUME NEW s \in Nat, s >= t PROVE priceAt(decay, s) <= priceAt(decay, t)
    <2>1. CASE none(s)
      BY <1>2, <1>4, <2>1
    <2>2. CASE ~none(s)
      <3>1. ~none(t)
        BY <1>1, <1>5, <2>2
      <3>2. /\ priceAt(decay, s) = (opening * (expiry - s)) \div ramp
            /\ priceAt(decay, t) = (opening * (expiry - t)) \div ramp
            /\ ramp \in Nat /\ 0 < ramp /\ expiry - s \in Nat /\ expiry - t \in Nat
        BY <1>3, <2>2, <3>1
      <3>3. expiry - s <= expiry - t
        BY <1>1, <1>5
      <3> HIDE DEF opening, expiry, ramp, none
      <3>4. /\ opening * (expiry - s) \in Nat /\ opening * (expiry - t) \in Nat
            /\ opening * (expiry - s) <= opening * (expiry - t)
        BY <1>1, <3>2, <3>3
      <3> QED
        BY <3>2, <3>4, QuotientMonotone
    <2> QED
      BY <2>1, <2>2
  <1> QED
    BY <1>4, <1>5

LEMMA PriceTicks ==
  ASSUME MarketInv, NEW i \in Tokens, NEW decay, decay.expiry = expiries[i],
         decay.openingWei = listings[i].openingPrice, decay.listedAt = listings[i].listedAt
  PROVE  priceAt(decay, now) = currentPrice(i)
  BY MarketTypes0 DEF priceAt, currentPrice

(* What a buyer is quoted is of a listing that was read. *)
LEMMA QuoteFits ==
  ASSUME SessionInv, NEW kind \in Kinds, NEW id \in Tokens,
         kind = "buy" => view[id].listed > 0
  PROVE  LET quote == Quote(kind, id)
         IN  /\ quote \in Quotes
             /\ kind = "buy" => Reading(id, quote.decay, quote.shown, terms, now)
  <1> DEFINE card == view[id]
             decay == Decay(card)
             quote == Quote(kind, id)
  <1>1. now \in Nat /\ CardFits(card, id, terms, now)
    BY MarketTypes0 DEF SessionInv, ViewFits
  <1>2. CASE kind # "buy"
    BY <1>2 DEF Quote, NoQuote, Quotes, Decays
  <1>3. CASE kind = "buy"
    <2>1. decay \in Decays /\ card.current \in Nat
          /\ Reading(id, decay, card.current, terms, now)
      BY <1>1, <1>3 DEF CardFits
    <2>2. quote = [shown |-> PriceShown(card), decay |-> decay]
      BY <1>3 DEF Quote
    <2>3. PriceShown(card) \in {priceAt(decay, now), card.current}
      BY DEF PriceShown
    <2>4. CASE PriceShown(card) = card.current
      BY <1>3, <2>1, <2>2, <2>4 DEF Quotes
    <2>5. CASE PriceShown(card) = priceAt(decay, now)
      <3>1. /\ priceAt(decay, now) \in Nat
            /\ \A s \in Nat : s >= now => priceAt(decay, s) <= priceAt(decay, now)
        BY <1>1, <2>1, TickingFalls
      <3> HIDE DEF decay, card
      <3> QED
        BY <1>3, <2>1, <2>2, <2>5, <3>1 DEF Quotes, Reading
    <2> QED
      BY <2>3, <2>4, <2>5
  <1> QED
    BY <1>2, <1>3

(* A started flow has not looked at anything yet. *)
LEMMA StartStep ==
  ASSUME SessionInv, StartSome
  PROVE  SessionInv'
  <1>1. started \in Nat /\ FlowIds \subseteq 1 .. started /\ now \in Nat
    BY MarketTypes0 DEF SessionInv, FlowsFit
  <1>2. CASE UNCHANGED <<vars, view, started, flows, mempool>>
    BY <1>1, <1>2, TabStep DEF FlowIds
  <1>3. ASSUME NEW kind \in Kinds, NEW id \in Tokens, NEW arg \in Args, NEW phase \in Phases,
               Start(kind, id, arg, phase), ArgFits(Flow(kind, id, arg, phase)),
               phase \in {"asking", "simulating", "checking"},
               phase = "checking" <=> kind = "gift", kind = "buy" => view[id].listed > 0
        PROVE  SessionInv'
    <2> DEFINE f == Flow(kind, id, arg, phase)
    <2>q. /\ Quote(kind, id) \in Quotes
          /\ kind = "buy" => Reading(id, Quote(kind, id).decay, Quote(kind, id).shown, terms, now)
      BY <1>3, QuoteFits
    <2>1. /\ f \in FlowRecord /\ f.phase = phase /\ f.kind = kind /\ f.call = "send"
          /\ f.since = 0 /\ f.id = id /\ f.quote = Quote(kind, id)
      BY <2>q DEF Flow, FlowRecord
    <2>2. FlowFits(f, listings, terms, now)
      BY <1>1, <1>3, <2>q, <2>1 DEF FlowFits, ListingGone
    <2>3. /\ UNCHANGED <<vars, view, mempool>> /\ started' = started + 1
          /\ flows' = [n \in FlowIds \cup {started'} |-> IF n = started' THEN f ELSE flows[n]]
      BY <1>3 DEF Start
    <2> HIDE DEF f
    <2>4. /\ FlowIds' = FlowIds \cup {started'} /\ flows'[started'] = f
          /\ \A n \in FlowIds : n # started' => flows'[n] = flows[n]
      BY <2>3 DEF FlowIds
    <2>5. started' \notin FlowIds /\ started' \in Nat /\ FlowIds' \subseteq 1 .. started'
      BY <1>1, <2>3, <2>4
    <2> QED
      BY <2>2, <2>3, <2>4, <2>5, TabStep
  <1> QED
    BY <1>2, <1>3, StartsFit

-----------------------------------------------------------------------------
(* The steps of a flow.                                                    *)

(* Another phase, of a flow that is past its look at the listing. *)
LEMMA PhaseFits ==
  ASSUME SessionInv, NEW n \in FlowIds, NEW phase \in Phases, phase # "checking",
         flows[n].phase # "checking", flows[n].call = "send" \/ phase # "mined"
  PROVE  FlowFits([flows[n] EXCEPT !.phase = phase], listings, terms, now)
  <1> DEFINE f == flows[n]
             g == [f EXCEPT !.phase = phase]
  <1>1. FlowFits(f, listings, terms, now)
    BY DEF SessionInv, FlowsFit
  <1>2. /\ g \in FlowRecord /\ g.phase = phase /\ g.kind = f.kind /\ g.id = f.id
        /\ g.arg = f.arg /\ g.call = f.call /\ g.since = f.since /\ g.quote = f.quote
    BY <1>1, PhaseMoves DEF FlowFits
  <1> HIDE DEF g
  <1>3. FlowFits(g, listings, terms, now)
    BY <1>1, <1>2 DEF FlowFits, ArgFits, ListingGone
  <1> QED
    BY <1>3 DEF g

LEMMA SimulateStep ==
  ASSUME SessionInv, NEW n \in FlowIds, Simulate(n)
  PROVE  SessionInv'
  <1>1. UNCHANGED <<vars, view, mempool, started>> /\ flows[n].phase = "simulating"
    BY DEF Simulate, OnlyFlow
  <1>2. FlowFits([flows[n] EXCEPT !.phase = "asking"], listings, terms, now)
    BY <1>1, PhaseFits DEF Phases
  <1>3. flows' = Moved(n, "asking") \/ flows' = Without(n)
    BY DEF Simulate
  <1> QED
    BY <1>1, <1>2, <1>3, OneFlowStep DEF Moved

(* The look at the listing: what stands is seen, and is to be taken down first. *)
LEMMA LookStep ==
  ASSUME SessionInv, NEW n \in FlowIds, CheckListing(n)
  PROVE  SessionInv'
  <1> DEFINE f == flows[n]
             listed == listings[f.id].openingPrice > 0
             g == Looked(f, listed)
  <1>1. /\ UNCHANGED <<vars, view, mempool, started>> /\ f.phase = "checking"
        /\ flows' = Becomes(n, g)
    BY DEF CheckListing, OnlyFlow
  <1>2. /\ FlowFits(f, listings, terms, now) /\ f \in FlowRecord /\ f.kind = "gift"
        /\ f.id \in Tokens /\ now \in Nat /\ listings[f.id].openingPrice \in Nat
    BY <1>1, MarketTypes0 DEF SessionInv, FlowsFit, FlowFits, FlowRecord
  <1>3. listed \in BOOLEAN /\ (~listed => listings[f.id].openingPrice = 0)
    BY <1>2
  <1> HIDE DEF listed
  <1>4. /\ g \in FlowRecord /\ g.phase = "asking" /\ g.since = now
        /\ g.call = IF listed THEN "unlist" ELSE "send"
        /\ g.kind = f.kind /\ g.id = f.id /\ g.arg = f.arg /\ g.quote = f.quote
    BY <1>2, <1>3, LookMoves
  <1> HIDE DEF g
  <1>5. FlowFits(g, listings, terms, now)
    BY <1>2, <1>3, <1>4 DEF FlowFits, ArgFits, ListingGone
  <1> QED
    BY <1>1, <1>5, OneFlowStep

LEMMA ConfirmStep ==
  ASSUME SessionInv, NEW n \in FlowIds, Confirm(n)
  PROVE  SessionInv'
  <1> DEFINE g == [flows[n] EXCEPT !.phase = "pending"]
  <1>1. /\ UNCHANGED <<vars, view, started>> /\ flows[n].phase = "asking"
        /\ flows' = Becomes(n, g) /\ mempool' = Append(mempool, n)
    BY DEF Confirm, Moved
  <1>2. FlowFits(g, listings, terms, now) /\ g.phase = "pending"
    <2>1. flows[n] \in FlowRecord
      BY DEF SessionInv, FlowsFit, FlowFits
    <2> QED
      BY <1>1, <2>1, PhaseFits, PhaseMoves DEF Phases
  <1> HIDE DEF g
  <1>3. /\ FlowIds' = FlowIds /\ flows'[n] = g
        /\ \A m \in FlowIds \ {n} : flows'[m] = flows[m]
    BY <1>1, BecomesFacts
  <1>4. ChainMoves /\ UNCHANGED <<listings, terms, now>>
    BY <1>1, StillMoves DEF SessionInv, vars, coreVars, tokenVars, marketVars, terms
  <1>5. FlowsFit'
    BY <1>1, <1>2, <1>3, <1>4, FlowsKept DEF SessionInv, FlowsFit
  <1>6. MempoolFits'
    <2>1. /\ n \in Nat /\ mempool \in Seq(Nat)
          /\ \A k \in 1 .. Len(mempool) :
               mempool[k] \in FlowIds /\ flows[mempool[k]].phase = "pending"
          /\ \A j, k \in 1 .. Len(mempool) : mempool[j] = mempool[k] => j = k
      <3>1. started \in Nat /\ n \in 1 .. started
        BY DEF SessionInv, FlowsFit
      <3> QED
        BY <3>1 DEF SessionInv, MempoolFits
    <2>2. \A k \in 1 .. Len(mempool) : mempool[k] # n
      BY <1>1, <2>1
    <2>3. /\ mempool' \in Seq(Nat) /\ Len(mempool') = Len(mempool) + 1
          /\ mempool'[Len(mempool) + 1] = n
          /\ \A k \in 1 .. Len(mempool) : mempool'[k] = mempool[k]
          /\ Len(mempool) \in Nat
      BY <1>1, <2>1
    <2>4. \A k \in 1 .. Len(mempool') : k \in 1 .. Len(mempool) \/ k = Len(mempool) + 1
      BY <2>3
    <2>5. \A k \in 1 .. Len(mempool') :
            mempool'[k] \in FlowIds' /\ flows'[mempool'[k]].phase = "pending"
      BY <1>2, <1>3, <2>1, <2>2, <2>3, <2>4
    <2>6. \A j, k \in 1 .. Len(mempool') : mempool'[j] = mempool'[k] => j = k
      BY <2>1, <2>2, <2>3, <2>4
    <2> QED
      BY <2>3, <2>5, <2>6 DEF MempoolFits
  <1>7. ViewFits'
    BY <1>1, <1>4, ViewKept DEF SessionInv
  <1> QED
    BY <1>4, <1>5, <1>6, <1>7 DEF SessionInv, ChainMoves

LEMMA RejectStep ==
  ASSUME SessionInv, NEW n \in FlowIds, Reject(n)
  PROVE  SessionInv'
  <1>1. /\ UNCHANGED <<vars, view, mempool, started>> /\ flows[n].phase # "pending"
        /\ flows' = Without(n)
    BY DEF Reject, OnlyFlow
  <1> QED
    BY <1>1, OneFlowStep

(* The receipt of an unlist leads on to the transfer, that of anything else to the
   end. *)
LEMMA ReceiptStep ==
  ASSUME SessionInv, NEW n \in FlowIds, Receipt(n)
  PROVE  SessionInv'
  <1> DEFINE f == flows[n]
             g == [f EXCEPT !.phase = "asking", !.call = "send"]
  <1>1. /\ UNCHANGED <<vars, view, mempool, started>>
        /\ f.phase \in {"mined", "reverted"}
    BY DEF Receipt, OnlyFlow
  <1>2. FlowFits(f, listings, terms, now)
    BY DEF SessionInv, FlowsFit
  <1>3. CASE f.phase = "reverted"
    <2>1. flows' = Without(n)
      BY <1>3 DEF Receipt
    <2> QED
      BY <1>1, <1>3, <2>1, OneFlowStep
  <1>4. CASE f.phase = "mined" /\ f.call = "unlist"
    <2>1. flows' = Becomes(n, g)
      BY <1>4 DEF Receipt
    <2>2. /\ g \in FlowRecord /\ g.phase = "asking" /\ g.call = "send"
          /\ g.kind = f.kind /\ g.id = f.id /\ g.arg = f.arg /\ g.since = f.since
          /\ g.quote = f.quote
      BY <1>2, CallMoves DEF FlowFits
    <2> HIDE DEF g
    <2>3. FlowFits(g, listings, terms, now)
      BY <1>2, <1>4, <2>2 DEF FlowFits, ArgFits, ListingGone
    <2> QED
      BY <1>1, <2>1, <2>3, OneFlowStep
  <1>5. CASE f.phase = "mined" /\ f.call # "unlist"
    <2>1. flows' = Becomes(n, [f EXCEPT !.phase = "reloading"])
      BY <1>5 DEF Receipt, Moved
    <2>2. FlowFits([f EXCEPT !.phase = "reloading"], listings, terms, now)
      BY <1>5, PhaseFits DEF Phases
    <2> QED
      BY <1>1, <2>1, <2>2, OneFlowStep
  <1> QED
    BY <1>1, <1>3, <1>4, <1>5

(* What the chain says is a fit thing to show. *)
LEMMA SnapshotFits ==
  ASSUME MarketInv, NEW i \in Tokens
  PROVE  CardFits(Snapshot[i], i, terms, now)
  <1> DEFINE card == Snapshot[i]
             decay == Decay(card)
  <1>1. /\ decay.openingWei = listings[i].openingPrice /\ decay.listedAt = listings[i].listedAt
        /\ decay.expiry = expiries[i] /\ card.listed = listings[i].openingPrice
        /\ card.current = currentPrice(i)
    BY DEF Decay, Snapshot
  <1>2. decay \in Decays
    <2>1. /\ listings[i].openingPrice \in Nat /\ listings[i].listedAt \in Nat
          /\ expiries[i] \in Nat
      BY MarketTypes0, ConstantFacts DEF MarketInv, CoreInv, TypeOK
    <2> QED
      BY <2>1 DEF Decay, Snapshot, Decays
  <1> HIDE DEF card, decay
  <1>3. now \in Nat /\ currentPrice(i) \in Nat
    BY MarketTypes0, PriceFacts
  <1>4. \A s \in Nat : s >= now => priceAt(decay, s) <= card.current
    BY <1>1, <1>2, <1>3, TickingFalls, PriceTicks
  <1>5. card.listed > 0 => i \in 0 .. next_token_id - 1
    BY <1>1, ConstantFacts DEF MarketInv, ListingsOfThePast, Tokens, CoreInv, TypeOK
  <1>6. card.listed > 0 => Reading(i, decay, card.current, terms, now)
    BY <1>1, <1>4, <1>5 DEF Reading, terms
  <1>7. card.current \in Nat /\ Decay(card) = decay
    BY <1>1, <1>3 DEF decay
  <1>8. CardFits(card, i, terms, now)
    BY <1>2, <1>6, <1>7 DEF CardFits
  <1> QED
    BY <1>8 DEF card

LEMMA ViewReads ==
  ASSUME MarketInv, ChainMoves, UNCHANGED vars, view' \in {Snapshot, view}, ViewFits
  PROVE  ViewFits'
  <1>1. CASE view' = view
    BY <1>1, ViewKept
  <1>2. CASE view' = Snapshot
    <2>1. UNCHANGED <<terms, now>>
      BY DEF vars, coreVars, tokenVars, terms
    <2> QED
      BY <1>2, <2>1, SnapshotFits DEF ViewFits
  <1> QED
    BY <1>1, <1>2

LEMMA ReloadStep ==
  ASSUME SessionInv, NEW n \in FlowIds, Reload(n)
  PROVE  SessionInv'
  <1>1. /\ UNCHANGED <<vars, mempool, started>> /\ flows' = Without(n)
        /\ flows[n].phase = "reloading" /\ view' \in {Snapshot, view}
    BY DEF Reload
  <1>2. FlowIds' = FlowIds \ {n} /\ \A m \in FlowIds \ {n} : flows'[m] = flows[m]
    BY <1>1, WithoutFacts
  <1>3. ChainMoves
    BY <1>1, StillMoves DEF SessionInv
  <1>4. FlowsFit'
    BY <1>1, <1>2, <1>3, FlowsKept DEF SessionInv, FlowsFit
  <1>5. MempoolFits'
    BY <1>1, <1>2, MempoolKept
  <1>6. ViewFits'
    BY <1>1, <1>3, ViewReads DEF SessionInv
  <1> QED
    BY <1>3, <1>4, <1>5, <1>6 DEF SessionInv, ChainMoves

LEMMA OpenStep ==
  ASSUME SessionInv, NEW name, NEW i, Open(name, i)
  PROVE  SessionInv'
  <1> DEFINE loose(n) == [flows[n] EXCEPT !.attached = FALSE]
  <1>1. /\ UNCHANGED <<vars, mempool, started>> /\ view' \in {Snapshot, view}
        /\ flows' = [n \in FlowIds |-> loose(n)]
    BY DEF Open
  <1>2. /\ started \in Nat /\ FlowIds \subseteq 1 .. started
        /\ \A n \in FlowIds : FlowFits(flows[n], listings, terms, now)
    BY DEF SessionInv, FlowsFit
  <1>3. ASSUME NEW n \in FlowIds
        PROVE  FlowFits(loose(n), listings, terms, now) /\ loose(n).phase = flows[n].phase
    <2>1. /\ loose(n) \in FlowRecord /\ loose(n).phase = flows[n].phase
          /\ loose(n).call = flows[n].call /\ loose(n).kind = flows[n].kind
          /\ loose(n).id = flows[n].id /\ loose(n).arg = flows[n].arg
          /\ loose(n).since = flows[n].since /\ loose(n).quote = flows[n].quote
      BY <1>2, Detaches DEF FlowFits
    <2> HIDE DEF loose
    <2> QED
      BY <1>2, <2>1 DEF FlowFits, ArgFits, ListingGone
  <1> HIDE DEF loose
  <1>4. FlowIds' = FlowIds /\ \A n \in FlowIds : flows'[n] = loose(n)
    BY <1>1 DEF FlowIds
  <1>5. ChainMoves /\ UNCHANGED <<listings, terms, now>>
    BY <1>1, StillMoves DEF SessionInv, vars, coreVars, tokenVars, marketVars, terms
  <1>6. FlowsFit'
    BY <1>1, <1>2, <1>3, <1>4, <1>5, FlowsKept
  <1>7. MempoolFits'
    BY <1>1, <1>3, <1>4, MempoolKept
  <1>8. ViewFits'
    BY <1>1, <1>5, ViewReads DEF SessionInv
  <1> QED
    BY <1>5, <1>6, <1>7, <1>8 DEF SessionInv, ChainMoves

-----------------------------------------------------------------------------
(* Blocks.                                                                 *)

(* What is mined is what has waited longest; it waits no more. *)
LEMMA MempoolShifts ==
  ASSUME SessionInv, mempool # <<>>
  PROVE  /\ Head(mempool) \in FlowIds /\ flows[Head(mempool)].phase = "pending"
         /\ Tail(mempool) \in Seq(Nat)
         /\ \A k \in 1 .. Len(Tail(mempool)) :
              /\ Tail(mempool)[k] \in FlowIds /\ Tail(mempool)[k] # Head(mempool)
              /\ flows[Tail(mempool)[k]].phase = "pending"
         /\ \A j, k \in 1 .. Len(Tail(mempool)) :
              Tail(mempool)[j] = Tail(mempool)[k] => j = k
  <1>1. /\ mempool \in Seq(Nat) /\ Len(mempool) \in Nat
        /\ \A k \in 1 .. Len(mempool) :
             mempool[k] \in FlowIds /\ flows[mempool[k]].phase = "pending"
        /\ \A j, k \in 1 .. Len(mempool) : mempool[j] = mempool[k] => j = k
    BY DEF SessionInv, MempoolFits
  <1>2. /\ Head(mempool) = mempool[1] /\ Len(mempool) >= 1
        /\ Tail(mempool) \in Seq(Nat) /\ Len(Tail(mempool)) = Len(mempool) - 1
        /\ \A k \in 1 .. Len(Tail(mempool)) : Tail(mempool)[k] = mempool[k + 1]
    BY <1>1
  <1>3. 1 \in 1 .. Len(mempool)
        /\ \A k \in 1 .. Len(Tail(mempool)) : k + 1 \in 1 .. Len(mempool) /\ k + 1 # 1
    BY <1>1, <1>2
  <1>4. \A j, k \in 1 .. Len(Tail(mempool)) : j + 1 = k + 1 => j = k
    OBVIOUS
  <1> QED
    BY <1>1, <1>2, <1>3, <1>4

(* A transaction succeeds or reverts, and the flow it belongs to with it. *)
LEMMA MinedStep ==
  ASSUME SessionInv, Mined
  PROVE  SessionInv'
  <1> DEFINE n == Head(mempool)
             f == flows[n]
             g(phase) == [f EXCEPT !.phase = phase]
  <1>1. /\ n \in FlowIds /\ f.phase = "pending"
        /\ UNCHANGED <<view, started>> /\ mempool' = Tail(mempool)
    BY MempoolShifts DEF Mined
  <1>2. /\ MarketInv /\ f \in FlowRecord /\ ArgFits(f) /\ FlowFits(f, listings, terms, now)
        /\ started \in Nat /\ FlowIds \subseteq 1 .. started
    BY <1>1 DEF SessionInv, FlowsFit, FlowFits
  <1>3. \/ Execute(f) /\ flows' = Becomes(n, g("mined"))
        \/ UNCHANGED vars /\ flows' = Becomes(n, g("reverted"))
    BY DEF Mined, Moved
  <1>4. ASSUME NEW phase \in {"mined", "reverted"}, flows' = Becomes(n, g(phase)), ChainMoves,
               phase = "mined" /\ f.call = "unlist" => listings'[f.id].openingPrice = 0
        PROVE  SessionInv'
    <2>1. /\ g(phase) \in FlowRecord /\ g(phase).phase = phase /\ g(phase).kind = f.kind
          /\ g(phase).id = f.id /\ g(phase).arg = f.arg /\ g(phase).call = f.call
          /\ g(phase).since = f.since /\ g(phase).quote = f.quote
      <3>1. phase \in Phases /\ f \in FlowRecord
        BY <1>2 DEF Phases
      <3> HIDE DEF f
      <3> QED
        BY <3>1, PhaseMoves
    <2> HIDE DEF g
    <2>2. /\ FlowIds' = FlowIds /\ flows'[n] = g(phase)
          /\ \A m \in FlowIds \ {n} : flows'[m] = flows[m]
      BY <1>1, <1>4, BecomesFacts
    <2>3. FlowFits(f, listings', terms', now')
      BY <1>2, <1>4, FlowKept
    <2>4. FlowFits(g(phase), listings', terms', now')
      BY <1>1, <1>4, <2>1, <2>3 DEF FlowFits, ArgFits, ListingGone, FlowRecord
    <2>5. FlowsFit'
      BY <1>1, <1>2, <1>4, <2>2, <2>4, FlowsKept
    <2>6. MempoolFits'
      <3> DEFINE q == Tail(mempool)
      <3>1. /\ q \in Seq(Nat)
            /\ \A k \in 1 .. Len(q) :
                 q[k] \in FlowIds /\ q[k] # n /\ flows[q[k]].phase = "pending"
            /\ \A j, k \in 1 .. Len(q) : q[j] = q[k] => j = k
        <4>1. mempool # <<>>
          BY DEF Mined
        <4> QED
          BY <4>1, MempoolShifts
      <3>2. mempool' = q
        BY <1>1
      <3> HIDE DEF q, n
      <3> QED
        BY <2>2, <3>1, <3>2 DEF MempoolFits
    <2>7. ViewFits'
      BY <1>1, <1>4, ViewKept DEF SessionInv
    <2> QED
      BY <1>4, <2>5, <2>6, <2>7 DEF SessionInv, ChainMoves
  <1>5. CASE Execute(f) /\ flows' = Becomes(n, g("mined"))
    <2>1. ChainMoves /\ (f.call = "unlist" => listings'[f.id].openingPrice = 0)
      BY <1>2, <1>5, ExecuteMoves
    <2> QED
      BY <1>4, <1>5, <2>1
  <1>6. CASE UNCHANGED vars /\ flows' = Becomes(n, g("reverted"))
    BY <1>2, <1>4, <1>6, StillMoves
  <1> QED
    BY <1>3, <1>5, <1>6

(* The chain moves on without the tab. *)
LEMMA AwayStep ==
  ASSUME SessionInv, ChainMoves, UNCHANGED tabVars
  PROVE  SessionInv'
  <1>1. UNCHANGED <<view, started, flows, mempool>>
    BY DEF tabVars
  <1>2. started' \in Nat /\ FlowIds' \subseteq 1 .. started' /\ FlowIds' = FlowIds
    BY <1>1 DEF SessionInv, FlowsFit, FlowIds
  <1>3. FlowsFit'
    BY <1>1, <1>2, FlowsKept
  <1>4. MempoolFits'
    BY <1>1, <1>2, MempoolKept
  <1>5. ViewFits'
    BY <1>1, ViewKept DEF SessionInv
  <1> QED
    BY <1>3, <1>4, <1>5 DEF SessionInv, ChainMoves

LEMMA SessionStep == SessionInv /\ [SessionNext]_sessionVars => SessionInv'
  <1> SUFFICES ASSUME SessionInv, [SessionNext]_sessionVars PROVE SessionInv'
    OBVIOUS
  <1>1. CASE StartSome
    BY <1>1, StartStep
  <1>2. ASSUME NEW n \in FlowIds, FlowStep(n) PROVE SessionInv'
    BY <1>2, SimulateStep, LookStep, ConfirmStep, RejectStep, ReceiptStep, ReloadStep
    DEF FlowStep
  <1>3. CASE Mined
    BY <1>3, MinedStep
  <1>4. ASSUME NEW name \in Names, NEW i \in Tokens, Open(name, i) PROVE SessionInv'
    BY <1>4, OpenStep
  <1>5. CASE Elsewhere
    <2>1. PICK c \in Rivals : CoreStep(c) \/ MarketStep(c)
      BY <1>5 DEF Elsewhere
    <2>2. c \in Users /\ MarketInv /\ UNCHANGED tabVars
      BY <1>5, SessionConstants DEF Elsewhere, SessionInv
    <2>3. ChainMoves
      BY <2>1, <2>2, CoreStepMoves, MarketStepMoves
    <2> QED
      BY <2>2, <2>3, AwayStep
  <1>6. CASE Tick /\ UNCHANGED <<escrowVars, marketVars, tabVars, elsewhere>>
    BY <1>6, TickMoves, AwayStep DEF SessionInv
  <1>7. CASE UNCHANGED sessionVars
    BY <1>7, StillMoves, AwayStep DEF SessionInv, sessionVars
  <1> QED
    BY <1>1, <1>2, <1>3, <1>4, <1>5, <1>6, <1>7 DEF SessionNext

LEMMA SessionStarts == SessionInit => SessionInv
  <1> SUFFICES ASSUME SessionInit PROVE SessionInv
    OBVIOUS
  <1>1. MarketInv
    BY OneSoldInv DEF SessionInit
  <1>2. started = 0 /\ FlowIds = {} /\ mempool = <<>> /\ view = Snapshot
    BY DEF SessionInit, FlowIds
  <1>3. FlowsFit /\ MempoolFits
    BY <1>2 DEF FlowsFit, MempoolFits
  <1>4. ViewFits
    BY <1>1, <1>2, SnapshotFits DEF ViewFits
  <1> QED
    BY <1>1, <1>3, <1>4 DEF SessionInv

-----------------------------------------------------------------------------
(* SessionInv holds whatever pages are opened, flows started and left, and
   transactions sent elsewhere: the contracts keep their books, and a gift that is on
   its way has no listing before it but one made since it looked, and a
   listing that a buyer saw asks no more than it did. *)
THEOREM SessionInvariant == SessionSpec => []SessionInv
  <1>1. SessionInit => SessionInv
    BY SessionStarts
  <1>2. SessionInv /\ [SessionNext]_sessionVars => SessionInv'
    BY SessionStep
  <1> QED
    BY <1>1, <1>2, PTL DEF SessionSpec

(* Only a block makes a transaction take effect: that of the flow it belongs to. *)
LEMMA EffectIsMined ==
  ASSUME SessionInv, [SessionNext]_sessionVars, NEW n \in FlowIds, TakesEffect(n)
  PROVE  /\ Execute(flows[n]) /\ flows[n] \in FlowRecord /\ ArgFits(flows[n])
         /\ FlowFits(flows[n], listings, terms, now) /\ MarketInv
  <1>1. /\ flows[n] \in FlowRecord /\ ArgFits(flows[n]) /\ MarketInv
        /\ FlowFits(flows[n], listings, terms, now)
    BY DEF SessionInv, FlowsFit, FlowFits
  <1>2. /\ n \in FlowIds' /\ flows[n].phase = "pending" /\ flows'[n].phase = "mined"
        /\ flows'[n].phase # flows[n].phase
    BY DEF TakesEffect
  <1>3. CASE Mined
    <2> DEFINE h == Head(mempool)
    <2>1. /\ h \in FlowIds
          /\ \/ Execute(flows[h]) /\ flows' = Moved(h, "mined")
             \/ UNCHANGED vars /\ flows' = Moved(h, "reverted")
      BY <1>3, MempoolShifts DEF Mined
    <2> HIDE DEF h
    <2>2. ASSUME NEW phase \in Phases, flows' = Moved(h, phase)
          PROVE  n = h /\ flows'[n].phase = phase
      <3>1. /\ flows'[h] = [flows[h] EXCEPT !.phase = phase]
            /\ \A m \in FlowIds \ {h} : flows'[m] = flows[m]
        BY <2>1, <2>2, BecomesFacts DEF Moved
      <3>2. n = h
        BY <1>2, <3>1
      <3>3. [flows[h] EXCEPT !.phase = phase].phase = phase
        BY <1>1, <3>2 DEF FlowRecord
      <3> QED
        BY <3>1, <3>2, <3>3
    <2> QED
      BY <1>1, <1>2, <2>1, <2>2 DEF Phases
  <1>4. ~Mined => flows'[n].phase # "mined"
    <2> SUFFICES ASSUME ~Mined PROVE flows'[n].phase # "mined"
      OBVIOUS
    <2>1. CASE flows' = flows
      BY <1>2, <2>1
    <2>2. CASE StartSome
      <3>1. ASSUME NEW kind, NEW id, NEW arg, NEW phase, Start(kind, id, arg, phase)
            PROVE  flows'[n] = flows[n]
        <4>1. n \in 1 .. started /\ started \in Nat
          BY DEF SessionInv, FlowsFit
        <4>2. /\ n # started' /\ n \in FlowIds \cup {started'}
              /\ flows' = [m \in FlowIds \cup {started'} |->
                            IF m = started' THEN Flow(kind, id, arg, phase) ELSE flows[m]]
          BY <3>1, <4>1 DEF Start
        <4> QED
          BY <4>2
      <3> QED
        BY <1>2, <2>2, <3>1, StartsFit
    <2>3. ASSUME NEW m \in FlowIds, FlowStep(m) PROVE flows'[n].phase # "mined"
      <3>1. flows' = Without(m) \/ \E f : flows' = Becomes(m, f)
        <4>1. CASE Receipt(m)
          BY <4>1 DEF Receipt, Moved
        <4>2. CASE CheckListing(m)
          BY <4>2 DEF CheckListing
        <4> QED
          BY <2>3, <4>1, <4>2 DEF FlowStep, Simulate, Confirm, Reject, Reload, Moved
      <3>2. m # n
        BY <1>2, <2>3
        DEF FlowStep, Simulate, CheckListing, Confirm, Reject, Receipt, Reload
      <3> QED
        BY <1>2, <3>1, <3>2, BecomesFacts, WithoutFacts
    <2>4. ASSUME NEW name, NEW i, Open(name, i) PROVE flows'[n].phase # "mined"
      <3>1. flows'[n] = [flows[n] EXCEPT !.attached = FALSE]
        BY <2>4 DEF Open
      <3> QED
        BY <1>1, <1>2, <3>1, Detaches
    <2> QED
      BY <2>1, <2>2, <2>3, <2>4 DEF SessionNext, Elsewhere, sessionVars, tabVars
  <1> QED
    BY <1>1, <1>2, <1>3, <1>4

(* NoOldListingMoves for every value of the constants: however stale the page the
   gift was prepared on, and whatever another device lists meanwhile, what the
   transfer takes along was listed after useTransferPass had looked. *)
THEOREM GiftsAreUnlisted == SessionSpec => NoOldListingMoves
  <1> DEFINE Good(n) ==
        TakesEffect(n) /\ flows[n].kind = "gift" /\ flows[n].call = "send" =>
          LET l == listings'[flows[n].id]
          IN  l.openingPrice = 0 \/ l.listedAt >= flows[n].since
  <1>1. SessionInv /\ [SessionNext]_sessionVars => \A n \in FlowIds : Good(n)
    <2> SUFFICES ASSUME SessionInv, [SessionNext]_sessionVars, NEW n \in FlowIds,
                        TakesEffect(n), flows[n].kind = "gift", flows[n].call = "send"
                 PROVE  LET l == listings'[flows[n].id]
                        IN  l.openingPrice = 0 \/ l.listedAt >= flows[n].since
      OBVIOUS
    <2> DEFINE f == flows[n]
    <2>1. /\ Execute(f) /\ f \in FlowRecord /\ ArgFits(f) /\ MarketInv
          /\ FlowFits(f, listings, terms, now) /\ f.phase = "pending"
      BY EffectIsMined DEF TakesEffect
    <2>2. FlowFits(f, listings', terms', now')
      BY <2>1, ExecuteMoves, FlowKept
    <2> QED
      BY <2>1, <2>2 DEF FlowFits, ListingGone
  <1> QED
    BY <1>1, SessionInvariant, PTL DEF SessionSpec, NoOldListingMoves

(* BoughtAsQuoted for every value of the constants: handleBuy() and TAKE OVER on a page of
   any age bring the pass with the expiry its card was drawn with; while the listing it was
   drawn from stands the cost is no more than the figure that was on screen, and it is never
   more than the price that was read and the buffer. *)
THEOREM QuotesHold == SessionSpec => BoughtAsQuoted
  <1> DEFINE Good(n) ==
        TakesEffect(n) /\ flows[n].kind = "buy" =>
          LET i == flows[n].id
              quote == flows[n].quote
              cost == eth[Me] - eth'[Me]
          IN  /\ owners'[i] = Me /\ expiries'[i] = quote.decay.expiry
              /\ StillQuoted(i, quote.decay) => cost <= quote.shown
              /\ cost <= flows[n].arg + flows[n].arg \div 1000 + 1
  <1>1. SessionInv /\ [SessionNext]_sessionVars => \A n \in FlowIds : Good(n)
    <2> SUFFICES ASSUME SessionInv, [SessionNext]_sessionVars, NEW n \in FlowIds,
                        TakesEffect(n), flows[n].kind = "buy"
                 PROVE  Good(n)
      OBVIOUS
    <2> DEFINE f == flows[n]
               i == f.id
               decay == f.quote.decay
               cost == eth[Me] - eth'[Me]
    <2>1. /\ Execute(f) /\ f \in FlowRecord /\ ArgFits(f) /\ MarketInv
          /\ FlowFits(f, listings, terms, now) /\ f.phase = "pending"
      BY EffectIsMined DEF TakesEffect
    <2>2. /\ f.kind = "buy" /\ f.call = "send" /\ i \in Tokens /\ f.arg \in Nat
          /\ f.quote.shown \in Nat
      BY <2>1 DEF FlowFits, FlowRecord, ArgFits, Quotes
    <2>3. Buy(Me, i, withBuffer(f.arg)) /\ withBuffer(f.arg) \in Nat /\ Me \in Users
      BY <2>1, <2>2, SessionConstants DEF Execute, Purchase, withBuffer
    <2>4. /\ owners'[i] = Me /\ expiries' = expiries /\ is_active(i)
          /\ cost <= currentPrice(i) /\ currentPrice(i) <= withBuffer(f.arg)
          /\ eth[Me] \in Nat /\ eth'[Me] \in Nat
      BY <2>1, <2>2, <2>3, BuyerPays
    <2>5. /\ expiries[i] \in {decay.expiry, 0} /\ now \in Nat
          /\ \A s \in Nat : s >= now => priceAt(decay, s) <= f.quote.shown
      BY <2>1, <2>2, MarketTypes0 DEF FlowFits, Reading, terms
    <2>6. expiries[i] = decay.expiry
      BY <2>4, <2>5 DEF is_active
    <2>7. currentPrice(i) \in Nat /\ cost \in Int /\ withBuffer(f.arg) \in Nat
      BY <2>1, <2>2, <2>3, <2>4, PriceFacts
    <2>8. ASSUME StillQuoted(i, decay) PROVE cost <= f.quote.shown
      <3>1. priceAt(decay, now) = currentPrice(i)
        BY <2>1, <2>2, <2>6, <2>8, PriceTicks DEF StillQuoted
      <3>2. priceAt(decay, now) <= f.quote.shown
        BY <2>5
      <3> HIDE DEF cost
      <3> QED
        BY <2>2, <2>4, <2>7, <3>1, <3>2
    <2>9. cost <= withBuffer(f.arg)
      <3> HIDE DEF cost
      <3> QED
        BY <2>4, <2>7
    <2> QED
      BY <2>4, <2>6, <2>8, <2>9 DEF withBuffer
  <1> QED
    BY <1>1, SessionInvariant, PTL DEF SessionSpec, BoughtAsQuoted
=============================================================================
