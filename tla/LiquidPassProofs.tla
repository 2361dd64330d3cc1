--------------------------- MODULE LiquidPassProofs ---------------------------
(***************************************************************************)
(* Theorems about the rental contract over the core, its deposits and the  *)
(* passes in its custody; about the contracts together; and about what     *)
(* their clients see and say.  The market and the rental contract were     *)
(* written without knowing of one another: the market's books and the      *)
(* rental contract's are kept side by side whatever is listed, rented or   *)
(* sold, and custody holds for as long as sales are paid directly.         *)
(***************************************************************************)
EXTENDS RentalClients, MarketplaceProofs

-----------------------------------------------------------------------------
(* The rental contract, whatever the core does.                            *)

Stream == [owner : Holders, ratePerSecond : Nat, renter : Holders,
           startedAt : Nat, deposit : Nat]

(* An idle stream holds no deposit; what is rented is an issued pass, of somebody's
   stream and by somebody else than the contract. *)
StreamsConsistent ==
  \A i \in Tokens : /\ ~Rented(i) => streams[i].deposit = 0
                    /\ Rented(i) => i < next_token_id /\ streams[i].owner # ZERO
                    /\ streams[i].renter # RENTAL

(* What the contract keeps, whatever becomes of the passes themselves. *)
RentalBooks ==
  /\ CoreInv
  /\ RentalTypeOK
  /\ FreshIdsUnowned
  /\ StreamsConsistent
  /\ RentalSolvent

(* The invariant the proofs carry: custody is apart, because beside a market that
   sells what is in custody the books are kept and custody is not. *)
RentalInv == RentalBooks /\ RentedPassHeld

CustodyKept == RentedPassHeld => RentedPassHeld'

LEMMA RentalConstants ==
  /\ RENTAL \in Addr /\ RENTAL \in Holders /\ RENTAL # ZERO
  /\ RENTAL \in Refusing /\ InitEth[RENTAL] = 0
  /\ RentalUsers \subseteq Addr /\ RENTAL \notin RentalUsers
  /\ RentalPlan.price \in Nat /\ RentalPlan.duration \in Nat
  /\ Rates \subseteq Nat /\ Deposits \subseteq Nat
  BY RentalAssumption, AccountsAssumption DEF Holders

LEMMA RentalFacts ==
  ASSUME RentalBooks
  PROVE  /\ streams \in [Tokens -> Stream]
         /\ eth \in [Holders -> Nat] /\ owners \in [Tokens -> Holders]
         /\ issuers \in [Tokens -> Holders] /\ expiries \in [Tokens -> Nat]
         /\ now \in Nat /\ next_token_id \in Nat /\ Tokens \subseteq Nat
         /\ IsFiniteSet(Tokens) /\ IsFiniteSet(Holders)
         /\ Deposited \in [Tokens -> Nat]
  BY ConstantFacts
  DEF RentalBooks, RentalTypeOK, CoreInv, TypeOK, ChainTypeOK, Stream, Deposited

-----------------------------------------------------------------------------
(* What is owed, and what is paid out.                                     *)

(* owed() is capped by the deposit. *)
LEMMA OwedFacts ==
  ASSUME RentalBooks, NEW id \in Tokens
  PROVE  owed(id) \in Nat /\ owed(id) <= streams[id].deposit
  <1> DEFINE s == streams[id]
             endsAt == Earlier(now, expiries[id])
             charge == (endsAt - s.startedAt) * s.ratePerSecond
  <1>1. /\ s.startedAt \in Nat /\ s.ratePerSecond \in Nat /\ s.deposit \in Nat
        /\ endsAt \in Nat
    BY RentalFacts DEF Stream, Earlier
  <1>2. CASE ~Rented(id) \/ endsAt <= s.startedAt
    BY <1>1, <1>2 DEF owed
  <1>3. CASE ~(~Rented(id) \/ endsAt <= s.startedAt)
    <2>1. owed(id) = Earlier(charge, s.deposit)
      BY <1>3 DEF owed
    <2>2. endsAt - s.startedAt \in Nat
      BY <1>1, <1>3
    <2> HIDE DEF s, endsAt
    <2>3. charge \in Nat
      BY <1>1, <2>2
    <2> HIDE DEF charge
    <2> QED
      BY <1>1, <2>1, <2>3 DEF Earlier, s
  <1> QED
    BY <1>2, <1>3

LEMMA ShareFacts ==
  ASSUME NEW due \in Nat
  PROVE  /\ OwnerShare(due) \in Nat /\ Royalty(due) \in Nat
         /\ OwnerShare(due) + Royalty(due) = due
  <1>1. Royalty(due) \in Nat /\ Royalty(due) <= due
    BY DEF Royalty
  <1> QED
    BY <1>1 DEF OwnerShare

(* A payment is no concern of anybody else, nor of whoever is paid nothing. *)
LEMMA PaymentElsewhere ==
  ASSUME NEW sheet \in [Holders -> Nat], NEW a \in Holders, NEW b \in Holders,
         NEW v \in Nat, NEW h \in Holders, h # a, h # b \/ v = 0
  PROVE  Payment(sheet, a, b, v)[h] = sheet[h]
  <1> DEFINE d == Debit(sheet, a, v)
  <1>1. DOMAIN d = Holders /\ d[h] = sheet[h] /\ sheet[h] \in Nat
    BY DEF Debit
  <1>2. Payment(sheet, a, b, v) = [d EXCEPT ![b] = d[b] + v]
    BY DEF Payment, Credit
  <1> HIDE DEF d
  <1> QED
    BY <1>1, <1>2

(* A payment by the contract, to somebody who takes it if there is anything to
   take: the contract has that much less, and nobody else has less. *)
LEMMA PayOut ==
  ASSUME NEW sheet \in [Holders -> Nat], NEW b \in Holders, NEW v \in Nat,
         v <= sheet[RENTAL], v > 0 => b \notin Refusing
  PROVE  /\ Payment(sheet, RENTAL, b, v) \in [Holders -> Nat]
         /\ Payment(sheet, RENTAL, b, v)[RENTAL] = sheet[RENTAL] - v
         /\ \A h \in Holders \ {RENTAL} : Payment(sheet, RENTAL, b, v)[h] >= sheet[h]
         /\ v > 0 => Payment(sheet, RENTAL, b, v)[b] = sheet[b] + v
         /\ Sum(Payment(sheet, RENTAL, b, v), Holders) = Sum(sheet, Holders)
         /\ \A h \in Refusing \ {RENTAL} : Payment(sheet, RENTAL, b, v)[h] = sheet[h]
  <1>1. RENTAL \in Holders /\ RENTAL \in Refusing
    BY RentalConstants
  <1>2. \A h \in Refusing \ {RENTAL} : Payment(sheet, RENTAL, b, v)[h] = sheet[h]
    <2> TAKE h \in Refusing \ {RENTAL}
    <2>1. h \in Holders
      BY AccountsAssumption DEF Holders
    <2>2. h # RENTAL /\ (h # b \/ v = 0)
      OBVIOUS
    <2> QED
      BY <1>1, <2>1, <2>2, PaymentElsewhere
  <1>3. \A h \in Holders \ {RENTAL} : Payment(sheet, RENTAL, b, v)[h] >= sheet[h]
    BY <1>1, PaymentToOthers
  <1>4. CASE b # RENTAL
    BY <1>1, <1>2, <1>3, <1>4, PaymentFacts
  <1>5. CASE b = RENTAL
    <2>1. v = 0
      BY <1>1, <1>5
    <2>2. Payment(sheet, RENTAL, b, v)[RENTAL] = sheet[RENTAL]
      BY <1>1, <1>5, <2>1 DEF Payment, Credit, Debit
    <2>3. Payment(sheet, RENTAL, b, v) \in [Holders -> Nat]
      BY <1>1, <2>1 DEF Payment, Credit, Debit
    <2>4. Payment(sheet, RENTAL, b, v) = sheet
      BY <1>1, <1>5, <2>1 DEF Payment, Credit, Debit
    <2> QED
      BY <1>1, <1>2, <1>3, <2>1, <2>2, <2>3, <2>4
  <1> QED
    BY <1>4, <1>5

(* A running deposit is there. *)
LEMMA DepositIsThere ==
  ASSUME RentalBooks, NEW id \in Tokens
  PROVE  streams[id].deposit <= eth[RENTAL]
  <1>1. \A i \in Tokens : Deposited[i] \in Nat
    BY RentalFacts
  <1>2. Deposited[id] <= Sum(Deposited, Tokens)
    BY <1>1, RentalFacts, SumBoundsSummand
  <1> QED
    BY <1>2 DEF Deposited, RentalBooks, RentalSolvent

(* What settle() does to the accounts. *)
LEMMA SettleMoney ==
  ASSUME RentalBooks, NEW c \in RentalUsers, NEW id \in Tokens, Settle(c, id)
  PROVE  /\ eth' \in [Holders -> Nat]
         /\ eth'[RENTAL] = eth[RENTAL] - streams[id].deposit
         /\ streams[id].renter # RENTAL =>
              eth'[streams[id].renter] - eth[streams[id].renter]
                >= streams[id].deposit - owed(id)
         /\ Sum(eth', Holders) = Sum(eth, Holders)
         /\ \A h \in Refusing \ {RENTAL} : eth'[h] = eth[h]
  <1> DEFINE s == streams[id]
             due == owed(id)
             refund == s.deposit - due
             first == Payment(eth, RENTAL, s.owner, OwnerShare(due))
             second == Payment(first, RENTAL, issuers[id], Royalty(due))
  <1>1. /\ eth \in [Holders -> Nat] /\ s.owner \in Holders /\ issuers[id] \in Holders
        /\ s.renter \in Holders /\ s.deposit \in Nat /\ RENTAL \in Holders
        /\ due \in Nat /\ due <= s.deposit /\ s.deposit <= eth[RENTAL]
    BY RentalFacts, RentalConstants, OwedFacts, DepositIsThere DEF Stream
  <1>2. /\ OwnerShare(due) > 0 => s.owner \notin Refusing
        /\ Royalty(due) > 0 => issuers[id] \notin Refusing
        /\ refund > 0 => s.renter \notin Refusing
        /\ eth' = Payment(second, RENTAL, s.renter, refund)
    BY DEF Settle, MaySettle
  <1> HIDE DEF s, due
  <1>3. /\ OwnerShare(due) \in Nat /\ Royalty(due) \in Nat /\ refund \in Nat
        /\ OwnerShare(due) + Royalty(due) = due /\ due + refund = s.deposit
    <2>1. refund \in Nat /\ due + refund = s.deposit
      BY <1>1
    <2> QED
      BY <1>1, <2>1, ShareFacts
  <1> HIDE DEF refund
  <1>4. /\ first \in [Holders -> Nat] /\ first[RENTAL] = eth[RENTAL] - OwnerShare(due)
        /\ s.renter # RENTAL => first[s.renter] >= eth[s.renter]
        /\ Sum(first, Holders) = Sum(eth, Holders)
        /\ \A h \in Refusing \ {RENTAL} : first[h] = eth[h]
    <2>1. OwnerShare(due) <= eth[RENTAL]
      BY <1>1, <1>3
    <2> QED
      BY <1>1, <1>2, <1>3, <2>1, PayOut
  <1> HIDE DEF first
  <1>5. /\ second \in [Holders -> Nat] /\ second[RENTAL] = first[RENTAL] - Royalty(due)
        /\ s.renter # RENTAL => second[s.renter] >= first[s.renter]
        /\ Sum(second, Holders) = Sum(first, Holders)
        /\ \A h \in Refusing \ {RENTAL} : second[h] = first[h]
    <2>1. Royalty(due) <= first[RENTAL]
      BY <1>1, <1>3, <1>4
    <2> QED
      BY <1>1, <1>2, <1>3, <1>4, <2>1, PayOut
  <1> HIDE DEF second
  <1>6. /\ eth' \in [Holders -> Nat] /\ eth'[RENTAL] = second[RENTAL] - refund
        /\ refund > 0 => eth'[s.renter] = second[s.renter] + refund
        /\ s.renter # RENTAL => eth'[s.renter] >= second[s.renter]
        /\ Sum(eth', Holders) = Sum(second, Holders)
        /\ \A h \in Refusing \ {RENTAL} : eth'[h] = second[h]
    <2>1. refund <= second[RENTAL]
      BY <1>1, <1>3, <1>4, <1>5
    <2> QED
      BY <1>1, <1>2, <1>3, <1>5, <2>1, PayOut
  <1>7. eth'[RENTAL] = eth[RENTAL] - s.deposit
    BY <1>1, <1>3, <1>4, <1>5, <1>6
  <1>8. s.renter # RENTAL => eth'[s.renter] - eth[s.renter] >= refund
    <2>1. /\ eth[s.renter] \in Nat /\ first[s.renter] \in Nat
          /\ second[s.renter] \in Nat /\ eth'[s.renter] \in Nat
      BY <1>1, <1>4, <1>5, <1>6
    <2>2. refund > 0 \/ refund = 0
      BY <1>3
    <2> QED
      BY <1>3, <1>4, <1>5, <1>6, <2>1, <2>2
  <1> QED
    BY <1>4, <1>5, <1>6, <1>7, <1>8 DEF s, due, refund

-----------------------------------------------------------------------------
(* Steps.                                                                  *)

(* Where nothing is issued and nothing is streamed, the books are in order. *)
LEMMA NoStreamsInv ==
  ASSUME CoreInv, NoPasses, eth = InitEth, streams = [i \in Tokens |-> NoStream]
  PROVE  RentalInv
  <1>1. RentalTypeOK
    BY ConstantFacts DEF RentalTypeOK, CoreInv, NoStream
  <1>2. FreshIdsUnowned
    BY DEF FreshIdsUnowned, NoPasses
  <1>3. StreamsConsistent /\ RentedPassHeld
    BY RentalConstants DEF StreamsConsistent, RentedPassHeld, Rented, NoStream
  <1>4. RentalSolvent
    <2>1. Units(Deposited, Tokens) = Units(Deposited, {})
      BY DEF Units, Deposited, NoStream
    <2>2. Sum(Deposited, Tokens) = 0
      BY <2>1, SumEmpty DEF Sum
    <2> QED
      BY <2>2, RentalConstants DEF RentalSolvent
  <1> QED
    BY <1>1, <1>2, <1>3, <1>4 DEF RentalInv, RentalBooks

LEMMA RentalInitInv == RentalInit => RentalInv
  <1> SUFFICES ASSUME RentalInit PROVE RentalInv
    OBVIOUS
  <1> USE DEF RentalInit, DeployedWithPlan, ChainInit
  <1>1. CoreInv
    BY ConstantFacts, RentalConstants, BoundsAssumption, MaxTimeAssumption, AccountsAssumption
    DEF CoreInv, TypeOK, ChainTypeOK, NoPasses, FreshIdsBlank, Holders, Plans
  <1> QED
    BY <1>1, NoStreamsInv

(* Whoever acts on the core, it is not the contract: what is rented stays. *)
LEMMA HolderStepInv ==
  ASSUME RentalBooks, NEW c \in RentalUsers, IssueStep(c) \/ HolderStep(c),
         UNCHANGED streams
  PROVE  RentalBooks' /\ CustodyKept
  <1>1. c \in Addr /\ c # RENTAL
    BY RentalConstants
  <1>2. Next
    BY <1>1 DEF Next
  <1>3. CoreInv' /\ next_token_id' >= next_token_id
    BY <1>2, StepType, IdsOnlyGrow DEF RentalBooks
  <1>4. \A i \in Tokens : /\ i >= next_token_id' => owners'[i] = ZERO
                          /\ owners'[i] = owners[i] \/ owners[i] \in {ZERO, c}
    BY <1>1, IssueOwners, HolderOwners DEF RentalBooks
  <1>5. eth'[RENTAL] = eth[RENTAL]
    BY <1>1, RentalConstants, RefusingSpared DEF RentalBooks
  <1>6. RentalTypeOK'
    BY <1>3 DEF RentalBooks, RentalTypeOK, CoreInv
  <1>7. FreshIdsUnowned'
    BY <1>4 DEF FreshIdsUnowned
  <1>8. StreamsConsistent'
    <2>1. next_token_id \in Nat /\ next_token_id' \in Nat /\ Tokens \subseteq Nat
      BY <1>3, ConstantFacts DEF RentalBooks, CoreInv, TypeOK
    <2>2. \A i \in Tokens : i < next_token_id => i < next_token_id'
      BY <1>3, <2>1
    <2> QED
      BY <2>2 DEF RentalBooks, StreamsConsistent, Rented
  <1>9. CustodyKept
    BY <1>1, <1>4, RentalConstants DEF RentalBooks, CustodyKept, RentedPassHeld, Rented
  <1>10. RentalSolvent'
    BY <1>5 DEF RentalBooks, RentalSolvent, Deposited
  <1> QED
    BY <1>3, <1>6, <1>7, <1>8, <1>9, <1>10 DEF RentalBooks

(* A change of streams alone, which leaves deposits and renters as they are. *)
LEMMA StreamStepInv ==
  ASSUME RentalBooks, CoreInv', streams' \in [Tokens -> Stream],
         \A i \in Tokens : /\ streams'[i].renter = streams[i].renter
                           /\ streams'[i].deposit = streams[i].deposit
                           /\ Rented(i) => streams'[i].owner = streams[i].owner,
         UNCHANGED <<eth, next_token_id>>,
         \A i \in Tokens : /\ i >= next_token_id => owners'[i] = ZERO
                           /\ Rented(i) => owners'[i] = owners[i]
  PROVE  RentalBooks' /\ CustodyKept
  <1>1. RentalTypeOK'
    BY DEF RentalTypeOK, CoreInv, Stream
  <1>2. FreshIdsUnowned' /\ StreamsConsistent' /\ CustodyKept
    BY DEF RentalBooks, FreshIdsUnowned, StreamsConsistent, CustodyKept, RentedPassHeld, Rented
  <1>3. RentalSolvent'
    <2>1. Deposited' = Deposited
      BY DEF Deposited
    <2> QED
      BY <2>1 DEF RentalBooks, RentalSolvent
  <1> QED
    BY <1>1, <1>2, <1>3 DEF RentalBooks

LEMMA OwnerSideInv ==
  ASSUME RentalBooks, NEW c \in RentalUsers, NEW id \in Tokens,
         \/ \E rate \in Rates : OpenStream(c, id, rate) \/ SetRate(c, id, rate)
         \/ Reclaim(c, id)
  PROVE  RentalBooks' /\ CustodyKept
  <1>1. streams \in [Tokens -> Stream] /\ c \in Holders /\ NoStream \in Stream
    BY RentalFacts, RentalConstants, ConstantFacts DEF NoStream, Stream
  <1>2. ~Rented(id) /\ streams[id].deposit = 0
    BY DEF OpenStream, MayOpen, SetRate, Reclaim, OwnedIdle, RentalBooks, StreamsConsistent
  <1>3. \A i \in Tokens : i >= next_token_id => owners[i] = ZERO
    BY DEF RentalBooks, FreshIdsUnowned
  <1>4. ASSUME UNCHANGED coreVars PROVE CoreInv' /\ UNCHANGED <<eth, owners, next_token_id>>
    BY <1>4, StepType DEF RentalBooks, coreVars, tokenVars
  <1>5. ASSUME NEW rate \in Rates, OpenStream(c, id, rate) PROVE RentalBooks' /\ CustodyKept
    <2> DEFINE new == [streams[id] EXCEPT !.owner = c, !.ratePerSecond = rate,
                                          !.startedAt = 0, !.deposit = 0]
    <2>1. new \in Stream /\ new.renter = streams[id].renter /\ new.deposit = 0
      BY <1>1, RentalConstants DEF Stream
    <2>2. streams' = [streams EXCEPT ![id] = new] /\ UNCHANGED coreVars
      BY <1>5 DEF OpenStream, MayOpen
    <2> HIDE DEF new
    <2>3. /\ streams' \in [Tokens -> Stream]
          /\ \A i \in Tokens : /\ streams'[i].renter = streams[i].renter
                               /\ streams'[i].deposit = streams[i].deposit
                               /\ Rented(i) => streams'[i].owner = streams[i].owner
      BY <1>1, <1>2, <2>1, <2>2
    <2> QED
      BY <1>3, <1>4, <2>2, <2>3, StreamStepInv
  <1>6. ASSUME NEW rate \in Rates, SetRate(c, id, rate) PROVE RentalBooks' /\ CustodyKept
    <2> DEFINE new == [streams[id] EXCEPT !.ratePerSecond = rate]
    <2>1. /\ new \in Stream /\ new.renter = streams[id].renter
          /\ new.deposit = streams[id].deposit
      BY <1>1, RentalConstants DEF Stream
    <2>2. streams' = [streams EXCEPT ![id] = new] /\ UNCHANGED coreVars
      BY <1>6 DEF SetRate, OwnedIdle
    <2> HIDE DEF new
    <2>3. /\ streams' \in [Tokens -> Stream]
          /\ \A i \in Tokens : /\ streams'[i].renter = streams[i].renter
                               /\ streams'[i].deposit = streams[i].deposit
                               /\ Rented(i) => streams'[i].owner = streams[i].owner
      BY <1>1, <1>2, <2>1, <2>2
    <2> QED
      BY <1>3, <1>4, <2>2, <2>3, StreamStepInv
  <1>7. CASE Reclaim(c, id)
    <2>1. /\ streams' = [streams EXCEPT ![id] = NoStream]
          /\ UNCHANGED <<now, eth, planVars, roleVars>>
          /\ \/ owners[id] = RENTAL /\ MovePass(id, c)
             \/ UNCHANGED tokenVars
      BY <1>7 DEF Reclaim, OwnedIdle
    <2>2. /\ streams' \in [Tokens -> Stream]
          /\ \A i \in Tokens : /\ streams'[i].renter = streams[i].renter
                               /\ streams'[i].deposit = streams[i].deposit
                               /\ Rented(i) => streams'[i].owner = streams[i].owner
      BY <1>1, <1>2, <2>1 DEF NoStream, Rented
    <2>3. CASE owners[id] = RENTAL /\ MovePass(id, c)
      <3>1. CoreInv'
        BY <1>1, <2>1, <2>3, MoveType DEF RentalBooks
      <3>2. owners' = [owners EXCEPT ![id] = c] /\ UNCHANGED next_token_id
        BY <2>3 DEF MovePass
      <3>3. \A i \in Tokens : /\ i >= next_token_id => owners'[i] = ZERO
                              /\ Rented(i) => owners'[i] = owners[i]
        BY <1>2, <1>3, <2>3, <3>2, RentalConstants
      <3> QED
        BY <2>1, <2>2, <3>1, <3>2, <3>3, StreamStepInv
    <2>4. CASE UNCHANGED tokenVars
      <3>1. UNCHANGED coreVars
        BY <2>1, <2>4 DEF coreVars
      <3> QED
        BY <1>3, <1>4, <2>2, <3>1, StreamStepInv
    <2> QED
      BY <2>1, <2>3, <2>4
  <1> QED
    BY <1>5, <1>6, <1>7

(* A change of one deposit, and of what the contract holds by as much. *)
LEMMA DepositStepInv ==
  ASSUME RentalBooks, NEW id \in Tokens, NEW new \in Stream,
         streams' = [streams EXCEPT ![id] = new],
         UNCHANGED <<now, tokenVars, planVars, roleVars>>,
         eth' \in [Holders -> Nat],
         eth'[RENTAL] + streams[id].deposit = eth[RENTAL] + new.deposit,
         new.renter = ZERO => new.deposit = 0,
         new.renter # ZERO => /\ id < next_token_id /\ owners[id] = RENTAL
                              /\ new.owner # ZERO,
         new.renter # RENTAL
  PROVE  RentalBooks' /\ CustodyKept
  <1>1. streams' \in [Tokens -> Stream]
    BY RentalFacts
  <1>2. CoreInv'
    BY DEF RentalBooks, CoreInv, TypeOK, ChainTypeOK, FreshIdsBlank, tokenVars, planVars, roleVars
  <1>3. RentalTypeOK'
    BY <1>1, <1>2 DEF RentalTypeOK, CoreInv, Stream
  <1>4. \A i \in Tokens : streams'[i] = IF i = id THEN new ELSE streams[i]
    BY RentalFacts
  <1>5. FreshIdsUnowned' /\ StreamsConsistent' /\ CustodyKept
    BY <1>4 DEF RentalBooks, FreshIdsUnowned, StreamsConsistent, CustodyKept, RentedPassHeld, Rented, tokenVars
  <1>6. RentalSolvent'
    <2> DEFINE f == Deposited
               g == Deposited'
    <2>1. /\ f \in [Tokens -> Nat] /\ g \in [Tokens -> Nat]
          /\ \A j \in Tokens \ {id} : f[j] = g[j]
          /\ f[id] = streams[id].deposit /\ g[id] = new.deposit
      BY <1>1, <1>4, RentalFacts DEF Deposited, Stream
    <2>2. Sum(f, Tokens) = eth[RENTAL]
      BY DEF RentalBooks, RentalSolvent
    <2> HIDE DEF f, g
    <2>3. Sum(f, Tokens) + g[id] = Sum(g, Tokens) + f[id]
      BY <2>1, RentalFacts, SumChangeOne
    <2>4. /\ Sum(f, Tokens) \in Nat /\ Sum(g, Tokens) \in Nat
          /\ eth'[RENTAL] \in Nat /\ f[id] \in Nat /\ g[id] \in Nat
      BY <2>1, RentalFacts, RentalConstants, SumNat
    <2>5. eth'[RENTAL] = Sum(g, Tokens)
      BY <2>1, <2>2, <2>3, <2>4
    <2> QED
      BY <2>5 DEF RentalSolvent, g
  <1> QED
    BY <1>2, <1>3, <1>5, <1>6 DEF RentalBooks

LEMMA StartRentInv ==
  ASSUME RentalBooks, NEW c \in RentalUsers, NEW id \in Tokens, NEW value \in Deposits,
         StartRent(c, id, value)
  PROVE  RentalBooks' /\ CustodyKept
  <1> DEFINE new == [streams[id] EXCEPT !.renter = c, !.startedAt = now, !.deposit = value]
  <1>1. /\ c \in Holders /\ c # RENTAL /\ c # ZERO /\ value \in Nat /\ value <= eth[c]
        /\ RENTAL \in Holders
    BY RentalConstants, ConstantFacts DEF StartRent, MayStart, BuysTime
  <1>2. /\ new \in Stream /\ new.deposit = value /\ new.renter = c
        /\ new.owner # ZERO
    BY <1>1, RentalFacts DEF Stream, StartRent, MayStart, Offered
  <1>3. /\ streams' = [streams EXCEPT ![id] = new]
        /\ UNCHANGED <<now, tokenVars, planVars, roleVars>>
        /\ eth' = Payment(eth, c, RENTAL, value)
        /\ owners[id] = RENTAL /\ streams[id].deposit = 0
    BY DEF StartRent, MayStart, Offered, RentalBooks, StreamsConsistent
  <1> HIDE DEF new
  <1>4. id < next_token_id
    BY <1>3, RentalFacts, RentalConstants DEF RentalBooks, FreshIdsUnowned
  <1>5. eth' \in [Holders -> Nat] /\ eth'[RENTAL] = eth[RENTAL] + value
    BY <1>1, <1>3, RentalFacts, PaymentFacts
  <1>6. eth'[RENTAL] + streams[id].deposit = eth[RENTAL] + new.deposit
    BY <1>1, <1>2, <1>3, <1>5, RentalFacts
  <1> QED
    BY <1>1, <1>2, <1>3, <1>4, <1>5, <1>6, DepositStepInv

LEMMA SettleInv ==
  ASSUME RentalBooks, NEW c \in RentalUsers, NEW id \in Tokens, Settle(c, id)
  PROVE  RentalBooks' /\ CustodyKept
  <1> DEFINE new == [streams[id] EXCEPT !.renter = ZERO, !.startedAt = 0, !.deposit = 0]
  <1>1. new \in Stream /\ new.deposit = 0 /\ new.renter = ZERO
    BY RentalFacts, ConstantFacts DEF Stream
  <1>2. /\ streams' = [streams EXCEPT ![id] = new]
        /\ UNCHANGED <<now, tokenVars, planVars, roleVars>>
    BY DEF Settle, MaySettle
  <1> HIDE DEF new
  <1>3. eth' \in [Holders -> Nat] /\ eth'[RENTAL] = eth[RENTAL] - streams[id].deposit
    BY SettleMoney
  <1>4. eth'[RENTAL] + streams[id].deposit = eth[RENTAL] + new.deposit
    BY <1>1, <1>3, RentalFacts, RentalConstants DEF Stream
  <1> QED
    BY <1>1, <1>2, <1>3, <1>4, RentalConstants, DepositStepInv

LEMMA RentalTickInv ==
  ASSUME RentalBooks, RentalTick
  PROVE  RentalBooks' /\ CustodyKept
  <1>1. CoreInv'
    BY TickType DEF RentalTick, RentalBooks
  <1>2. UNCHANGED <<eth, tokenVars, streams>>
    BY DEF RentalTick, Tick, TimePasses
  <1>3. RentalTypeOK'
    BY <1>1, <1>2 DEF RentalBooks, RentalTypeOK, CoreInv
  <1> QED
    BY <1>1, <1>2, <1>3
    DEF RentalBooks, FreshIdsUnowned, StreamsConsistent, CustodyKept, RentedPassHeld, RentalSolvent,
        Rented, Deposited, tokenVars

LEMMA RentalStutterInv ==
  ASSUME RentalBooks, UNCHANGED rentalVars
  PROVE  RentalBooks' /\ CustodyKept
  <1>1. CoreInv'
    BY StepType DEF RentalBooks, rentalVars
  <1>2. UNCHANGED <<eth, tokenVars, streams>>
    BY DEF rentalVars, coreVars
  <1>3. RentalTypeOK'
    BY <1>1, <1>2 DEF RentalBooks, RentalTypeOK, CoreInv
  <1> QED
    BY <1>1, <1>2, <1>3
    DEF RentalBooks, FreshIdsUnowned, StreamsConsistent, CustodyKept, RentedPassHeld, RentalSolvent,
        Rented, Deposited, tokenVars

LEMMA RentalStepBooks ==
  ASSUME RentalBooks, [RentalNext]_rentalVars
  PROVE  RentalBooks' /\ CustodyKept
  <1>1. CASE RentalTick
    BY <1>1, RentalTickInv
  <1>2. ASSUME NEW c \in RentalUsers, IssueStep(c) \/ HolderStep(c), UNCHANGED streams
        PROVE  RentalBooks' /\ CustodyKept
    BY <1>2, HolderStepInv
  <1>3. ASSUME NEW c \in RentalUsers, RentalStep(c) PROVE RentalBooks' /\ CustodyKept
    BY <1>3, OwnerSideInv, StartRentInv, SettleInv DEF RentalStep
  <1>4. CASE UNCHANGED rentalVars
    BY <1>4, RentalStutterInv
  <1> QED
    BY <1>1, <1>2, <1>3, <1>4 DEF RentalNext

LEMMA RentalStepInv == RentalInv /\ [RentalNext]_rentalVars => RentalInv'
  BY RentalStepBooks DEF RentalInv, CustodyKept

(* The contract moves ether, it makes none; and nobody who refuses ether gets any. *)
LEMMA RentalStepMoney ==
  ASSUME RentalBooks, NEW c \in RentalUsers, RentalStep(c)
  PROVE  /\ Sum(eth', Holders) = Sum(eth, Holders)
         /\ \A h \in Refusing \ {RENTAL, c} : eth'[h] = eth[h]
  <1>1. ASSUME NEW id \in Tokens, NEW value \in Deposits, StartRent(c, id, value)
        PROVE  /\ Sum(eth', Holders) = Sum(eth, Holders)
               /\ \A h \in Refusing \ {RENTAL, c} : eth'[h] = eth[h]
    <2>1. /\ c \in Holders /\ c # RENTAL /\ value \in Nat /\ value <= eth[c]
          /\ RENTAL \in Holders /\ eth' = Payment(eth, c, RENTAL, value)
          /\ eth \in [Holders -> Nat]
      BY <1>1, RentalFacts, RentalConstants, ConstantFacts
      DEF StartRent, MayStart, BuysTime
    <2>2. Sum(eth', Holders) = Sum(eth, Holders)
      BY <2>1, PaymentFacts
    <2>3. ASSUME NEW h \in Refusing \ {RENTAL, c} PROVE eth'[h] = eth[h]
      <3>1. h \in Holders /\ h # c /\ h # RENTAL
        BY AccountsAssumption DEF Holders
      <3> QED
        BY <2>1, <3>1, PaymentElsewhere
    <2> QED
      BY <2>2, <2>3
  <1>2. ASSUME NEW id \in Tokens, Settle(c, id)
        PROVE  /\ Sum(eth', Holders) = Sum(eth, Holders)
               /\ \A h \in Refusing \ {RENTAL, c} : eth'[h] = eth[h]
    BY <1>2, SettleMoney
  <1> QED
    BY <1>1, <1>2 DEF RentalStep, OpenStream, SetRate, Reclaim, coreVars

-----------------------------------------------------------------------------
(* RentalInv holds of every behaviour of the rental contract over the core. *)
THEOREM RentalInvariant == RentalSpec => []RentalInv
  <1>1. RentalInit => RentalInv
    BY RentalInitInv
  <1>2. RentalInv /\ [RentalNext]_rentalVars => RentalInv'
    BY RentalStepInv
  <1> QED
    BY <1>1, <1>2, PTL DEF RentalSpec

(* RentalTypeOK for every value of the constants. *)
THEOREM RentalTypes == RentalSpec => []RentalTypeOK
  <1>1. RentalInv => RentalTypeOK
    BY DEF RentalInv, RentalBooks
  <1> QED
    BY <1>1, RentalInvariant, PTL

(* RentalSolvent for every value of the constants: however charges and royalties
   round, settle() pays out exactly the deposit it closes. *)
THEOREM DepositsCovered == RentalSpec => []RentalSolvent
  <1>1. RentalInv => RentalSolvent
    BY DEF RentalInv, RentalBooks
  <1> QED
    BY <1>1, RentalInvariant, PTL

(* RentedPassHeld for every value of the constants: no transfer, split, merge or
   reclaim takes a rented pass out of custody. *)
THEOREM RentedInCustody == RentalSpec => []RentedPassHeld
  <1>1. RentalInv => RentedPassHeld
    BY DEF RentalInv, RentalBooks
  <1> QED
    BY <1>1, RentalInvariant, PTL

-----------------------------------------------------------------------------
(* What a step does to a running rental and to a pass in custody.          *)

(* A running rental goes on, or is settled; and the pass keeps its window. *)
LEMMA RunningRental ==
  ASSUME RentalInv, RentalInv', [RentalNext]_rentalVars, NEW i \in Tokens, Rented(i)
  PROVE  /\ expiries'[i] = expiries[i]
         /\ \/ streams'[i] = streams[i]
            \/ \E c \in RentalUsers : Settle(c, i)
  <1>0. /\ streams \in [Tokens -> Stream]
        /\ Rented(i)' => owners'[i] # ZERO
        /\ i \in 0 .. next_token_id - 1
    BY RentalFacts, RentalConstants DEF RentalInv, RentalBooks, StreamsConsistent, RentedPassHeld
  <1>1. CASE UNCHANGED <<expiries, streams>>
    BY <1>1
  <1>2. ASSUME NEW c \in RentalUsers, IssueStep(c) \/ HolderStep(c), UNCHANGED streams
        PROVE  UNCHANGED streams /\ expiries'[i] = expiries[i]
    <2>1. Next
      BY <1>2, RentalConstants DEF Next
    <2>2. TermsKept(i) \/ UNCHANGED coreVars
      BY <1>0, <2>1, StepKeepsTerms DEF RentalInv, RentalBooks
    <2>3. owners'[i] # ZERO
      BY <1>0, <1>2 DEF Rented
    <2> QED
      BY <1>2, <2>2, <2>3 DEF TermsKept, coreVars, tokenVars
  <1>3. ASSUME NEW c \in RentalUsers, NEW id \in Tokens,
               \/ \E rate \in Rates : OpenStream(c, id, rate) \/ SetRate(c, id, rate)
               \/ Reclaim(c, id)
               \/ \E value \in Deposits : StartRent(c, id, value)
        PROVE  streams'[i] = streams[i] /\ expiries'[i] = expiries[i]
    <2>1. id # i
      BY <1>3 DEF OpenStream, SetRate, MayOpen, Reclaim, OwnedIdle, StartRent, MayStart, Offered
    <2>2. streams'[i] = streams[i]
      <3>1. \E new : streams' = [streams EXCEPT ![id] = new]
        BY <1>3 DEF OpenStream, SetRate, Reclaim, StartRent
      <3> QED
        BY <1>0, <2>1, <3>1
    <2>3. UNCHANGED expiries
      BY <1>3 DEF OpenStream, SetRate, Reclaim, StartRent, MovePass, coreVars, tokenVars
    <2> QED
      BY <2>2, <2>3
  <1>4. ASSUME NEW c \in RentalUsers, NEW id \in Tokens, Settle(c, id)
        PROVE  /\ expiries'[i] = expiries[i]
               /\ streams'[i] = streams[i] \/ Settle(c, i)
    <2>1. \E new : streams' = [streams EXCEPT ![id] = new]
      BY <1>4 DEF Settle, MaySettle
    <2>2. id # i => streams'[i] = streams[i]
      BY <1>0, <2>1
    <2>3. UNCHANGED expiries
      BY <1>4 DEF Settle, tokenVars
    <2> QED
      BY <1>4, <2>2, <2>3
  <1>5. ASSUME NEW c \in RentalUsers, RentalStep(c)
        PROVE  /\ expiries'[i] = expiries[i]
               /\ \/ streams'[i] = streams[i]
                  \/ \E d \in RentalUsers : Settle(d, i)
    BY <1>3, <1>4, <1>5 DEF RentalStep
  <1> QED
    BY <1>1, <1>2, <1>5
    DEF RentalNext, RentalTick, Tick, rentalVars, coreVars, tokenVars

(* openStream(), setRate(), reclaim() and startRent() find a running rental closed. *)
LEMMA RunningTerms ==
  ASSUME RentalInv, RentalInv', [RentalNext]_rentalVars, NEW i \in Tokens, Rented(i)
  PROVE  \/ streams'[i] = streams[i]
         \/ streams'[i].renter = ZERO /\ streams'[i].owner = streams[i].owner
  <1>1. ASSUME NEW c \in RentalUsers, Settle(c, i)
        PROVE  streams'[i].renter = ZERO /\ streams'[i].owner = streams[i].owner
    BY <1>1, RentalFacts DEF RentalInv, Settle, MaySettle, Stream
  <1> QED
    BY <1>1, RunningRental

(* RentalTermsFixed for every value of the constants: a running rental goes on as
   it was agreed, or is settled. *)
THEOREM RentalTermsStand == RentalSpec => RentalTermsFixed
  <1>1. RentalInv /\ RentalInv' /\ [RentalNext]_rentalVars
          => [\A i \in Tokens : Rented(i) =>
                \/ streams'[i] = streams[i]
                \/ streams'[i].renter = ZERO
                     /\ streams'[i].owner = streams[i].owner]_rentalVars
    BY RunningTerms
  <1> QED
    BY <1>1, RentalInvariant, PTL DEF RentalSpec, RentalTermsFixed

(* A pass leaves custody by reclaim() only: idle, and for the owner of its stream. *)
LEMMA OutOfCustody ==
  ASSUME RentalBooks, [RentalNext]_rentalVars, NEW i \in Tokens,
         owners[i] = RENTAL, owners'[i] # RENTAL
  PROVE  ~Rented(i) /\ owners'[i] = streams[i].owner
  <1>1. ASSUME NEW c \in RentalUsers, IssueStep(c) \/ HolderStep(c)
        PROVE  owners'[i] = owners[i]
    BY <1>1, RentalConstants, IssueOwners, HolderOwners DEF RentalBooks
  <1>2. ASSUME NEW c \in RentalUsers, NEW id \in Tokens, Reclaim(c, id)
        PROVE  ~Rented(i) /\ owners'[i] = streams[i].owner
    <2>1. ~Rented(id) /\ streams[id].owner = c
      BY <1>2 DEF Reclaim, OwnedIdle
    <2>2. UNCHANGED owners \/ owners' = [owners EXCEPT ![id] = c]
      BY <1>2 DEF Reclaim, MovePass, tokenVars
    <2>3. owners' = [owners EXCEPT ![id] = c]
      BY <2>2
    <2>4. i = id
      BY <2>3, RentalFacts
    <2>5. owners'[id] = c
      BY <2>3, RentalFacts
    <2> QED
      BY <2>1, <2>4, <2>5
  <1> QED
    BY <1>1, <1>2
    DEF RentalNext, RentalTick, Tick, RentalStep, OpenStream, SetRate, StartRent, Settle,
        rentalVars, coreVars, tokenVars

(* CustodyReturns for every value of the constants: reclaim() is the one way out of
   custody, and it is the stream owner's. *)
THEOREM CustodyGoesToOwner == RentalSpec => CustodyReturns
  <1>1. RentalInv /\ [RentalNext]_rentalVars
          => [\A i \in Tokens :
                owners[i] = RENTAL /\ owners'[i] # RENTAL
                  => owners'[i] = streams[i].owner]_rentalVars
    BY OutOfCustody DEF RentalInv
  <1> QED
    BY <1>1, RentalInvariant, PTL DEF RentalSpec, CustodyReturns

(* Within one second access ends by settle() only, and settle() returns what was
   not used. *)
LEMMA AccessEndsPaid ==
  ASSUME RentalInv, RentalInv', [RentalNext]_rentalVars, NEW i \in Tokens,
         activeRenter(i) # ZERO, activeRenter(i)' # activeRenter(i), now' = now
  PROVE  eth'[activeRenter(i)] - eth[activeRenter(i)] >= streams[i].deposit - owed(i)
  <1>1. activeRenter(i) = streams[i].renter /\ Rented(i)
    BY DEF activeRenter, Rented
  <1>2. expiries'[i] = expiries[i]
    BY <1>1, RunningRental
  <1>3. streams'[i] # streams[i]
    <2> SUFFICES ASSUME streams'[i] = streams[i] PROVE FALSE
      OBVIOUS
    <2>1. owed(i)' = owed(i)
      BY <1>2 DEF owed, Rented
    <2> QED
      BY <1>2, <2>1 DEF activeRenter
  <1>4. PICK c \in RentalUsers : Settle(c, i)
    BY <1>1, <1>3, RunningRental
  <1>5. streams[i].renter # RENTAL
    BY DEF RentalInv, RentalBooks, StreamsConsistent
  <1> QED
    BY <1>1, <1>4, <1>5, SettleMoney DEF RentalInv

(* UnusedTimeRefunded for every value of the constants, whatever the rounding of
   charge and royalty. *)
THEOREM UnusedIsRefunded == RentalSpec => UnusedTimeRefunded
  <1>1. RentalInv /\ RentalInv' /\ [RentalNext]_rentalVars
          => [\A i \in Tokens :
                LET renter == activeRenter(i)
                IN  renter # ZERO /\ activeRenter(i)' # renter /\ now' = now
                      => eth'[renter] - eth[renter]
                           >= streams[i].deposit - owed(i)]_rentalVars
    BY AccessEndsPaid
  <1> QED
    BY <1>1, RentalInvariant, PTL DEF RentalSpec, UnusedTimeRefunded

-----------------------------------------------------------------------------
(* The contracts together.                                                 *)


(* Until something that takes the proceeds of a sale is linked as the escrow, a sale
   pays the seller or reverts; the rental contract takes no ether, so that what it has
   in custody is not sold. *)
PaidDirectly == escrowYield \notin Tills \cup {ESCROW}

(* The invariant the proofs carry. *)
LiquidInv ==
  /\ MarketInv
  /\ RentalBooks
  /\ PaidDirectly => RentedPassHeld

LEMMA SystemConstants ==
  /\ RENTAL # MARKET /\ RENTAL # ESCROW /\ RENTAL \notin Users /\ RentalUsers = Users
  /\ RENTAL \notin Tills
  BY SystemAssumption

LEMMA LiquidInitInv == LiquidInit => LiquidInv
  <1> SUFFICES ASSUME LiquidInit PROVE LiquidInv
    OBVIOUS
  <1>1. MarketInv
    BY MarketInitInv DEF LiquidInit
  <1>2. RentalInv
    BY <1>1, NoStreamsInv DEF MarketInv, LiquidInit, SystemInit, DeployedWithPlan, ChainInit
  <1> QED
    BY <1>1, <1>2 DEF LiquidInv, RentalInv

-----------------------------------------------------------------------------
(* A step of the market.                                                   *)

(* Whoever trades, the rental contract is neither paid nor charged. *)
LEMMA SaleSparesRental ==
  ASSUME MarketInv, NEW c \in Users, NEW id \in Tokens, NEW value \in Values,
         Buy(c, id, value)
  PROVE  eth'[RENTAL] = eth[RENTAL]
  <1> DEFINE price == currentPrice(id)
             seller == owners[id]
             issuer == issuers[id]
             royalty == price \div 10
             proceeds == price - royalty
             refund == value - price
             received == Payment(eth, c, MARKET, value)
             paid == PayProceeds(received, seller, proceeds)
             shared == Payment(paid, MARKET, issuer, royalty)
  <1>1. /\ eth \in [Holders -> Nat] /\ seller \in Holders /\ issuer \in Holders
        /\ c \in Holders /\ c # MARKET /\ MARKET \in Holders /\ eth[MARKET] = 0
        /\ RENTAL \in Holders /\ RENTAL # c /\ RENTAL # MARKET /\ RENTAL \in Refusing
    BY MarketConstants, RentalConstants, SystemConstants
    DEF MarketInv, CoreInv, TypeOK, ChainTypeOK, MarketHoldsNothing
  <1>2. /\ price \in Nat /\ value \in Nat /\ price <= value /\ value <= eth[c]
        /\ issuer # MARKET /\ issuer # RENTAL /\ SellerPaid(seller, proceeds)
    BY <1>1, PriceFacts, MarketConstants DEF Buy
  <1>3. eth' = Payment(shared, MARKET, c, refund)
    BY DEF Buy
  <1> HIDE DEF price, seller, issuer
  <1>4. /\ royalty \in Nat /\ proceeds \in Nat /\ refund \in Nat
        /\ proceeds + royalty + refund = value
    BY <1>2
  <1>5. /\ received \in [Holders -> Nat] /\ received[MARKET] = value
        /\ received[RENTAL] = eth[RENTAL]
    <2>1. received[MARKET] = eth[MARKET] + value /\ received \in [Holders -> Nat]
      BY <1>1, <1>2, PaymentFacts
    <2>2. received[RENTAL] = eth[RENTAL]
      BY <1>1, <1>2, PaymentElsewhere
    <2> QED
      BY <1>1, <1>2, <2>1, <2>2
  <1> HIDE DEF royalty, proceeds, refund, received
  <1>6. paid \in [Holders -> Nat] /\ paid[MARKET] = value - proceeds
    <2>1. proceeds <= received[MARKET]
      BY <1>2, <1>4, <1>5
    <2> QED
      BY <1>1, <1>2, <1>4, <1>5, <2>1, ProceedsFacts
  <1>7. paid[RENTAL] = received[RENTAL]
    <2>1. CASE escrowYield = ZERO /\ seller \notin Refusing
      <3>1. seller # RENTAL /\ paid = Payment(received, MARKET, seller, proceeds)
        BY <1>1, <2>1, ProceedsGo
      <3> QED
        BY <1>1, <1>4, <1>5, <3>1, PaymentElsewhere
    <2>2. CASE escrowYield = ESCROW
      <3>1. paid = Debit(received, MARKET, proceeds)
        BY <2>2, MarketConstants, ProceedsGo
      <3> QED
        BY <1>1, <1>5, <3>1 DEF Debit
    <2>3. CASE escrowYield \in Tills
      <3>1. /\ escrowYield # RENTAL /\ escrowYield \in Holders
            /\ paid = Payment(received, MARKET, escrowYield, proceeds)
        BY <2>3, MarketConstants, SystemConstants, ProceedsGo
      <3> QED
        BY <1>1, <1>4, <1>5, <3>1, PaymentElsewhere
    <2> QED
      BY <1>2, <2>1, <2>2, <2>3 DEF SellerPaid
  <1> HIDE DEF paid
  <1>8. shared \in [Holders -> Nat] /\ shared[RENTAL] = paid[RENTAL]
    <2>1. royalty <= paid[MARKET]
      BY <1>2, <1>4, <1>6
    <2>2. Payment(paid, MARKET, issuer, royalty) \in [Holders -> Nat]
      BY <1>1, <1>2, <1>4, <1>6, <2>1, PaymentFacts
    <2>3. Payment(paid, MARKET, issuer, royalty)[RENTAL] = paid[RENTAL]
      <3>1. /\ RENTAL # issuer /\ RENTAL # MARKET
            /\ RENTAL \in Holders /\ MARKET \in Holders /\ issuer \in Holders
        BY <1>1, <1>2
      <3>2. paid \in [Holders -> Nat] /\ royalty \in Nat
        BY <1>4, <1>6
      <3> HIDE DEF proceeds, received, seller
      <3> QED
        BY <3>1, <3>2, PaymentElsewhere
    <2> QED
      BY <2>2, <2>3
  <1> HIDE DEF shared
  <1>9. eth'[RENTAL] = shared[RENTAL]
    <2>1. Payment(shared, MARKET, c, refund)[RENTAL] = shared[RENTAL]
      BY <1>1, <1>4, <1>8, PaymentElsewhere
    <2> QED
      BY <1>3, <2>1
  <1> QED
    BY <1>5, <1>7, <1>8, <1>9

(* What leaves the streams and the contract's ether alone leaves its books alone. *)
LEMMA BooksAside ==
  ASSUME RentalBooks, CoreInv', UNCHANGED <<streams, next_token_id>>,
         eth'[RENTAL] = eth[RENTAL],
         \A i \in Tokens : i >= next_token_id => owners'[i] = ZERO
  PROVE  RentalBooks'
  <1>1. RentalTypeOK' /\ FreshIdsUnowned'
    BY DEF RentalBooks, RentalTypeOK, CoreInv, FreshIdsUnowned
  <1>2. StreamsConsistent' /\ RentalSolvent'
    BY DEF RentalBooks, StreamsConsistent, Rented, RentalSolvent, Deposited
  <1> QED
    BY <1>1, <1>2 DEF RentalBooks

(* A step of the whole is one the rental contract knows of from its own, a
   withdrawal from the escrow, or a sale. *)
LEMMA LiquidStepKinds ==
  ASSUME [LiquidNext]_systemVars
  PROVE  \/ [RentalNext]_rentalVars
         \/ \E c \in Users : /\ Withdraw(c)
                             /\ UNCHANGED <<tokenVars, planVars, roleVars, marketVars, streams>>
         \/ \E c \in Users, id \in Tokens, value \in Values :
              Buy(c, id, value) /\ UNCHANGED streams
  <1>1. CASE UNCHANGED systemVars
    BY <1>1 DEF systemVars, vars, rentalVars
  <1>2. CASE Tick /\ UNCHANGED streams
    BY <1>2 DEF RentalNext, RentalTick
  <1>3. ASSUME NEW c \in Users, CoreStep(c), UNCHANGED streams
        PROVE  RentalNext
    BY <1>3, SystemConstants DEF CoreStep, RentalNext
  <1>4. ASSUME NEW c \in Users, RentalStep(c)
        PROVE  RentalNext
    BY <1>4, SystemConstants DEF RentalNext
  <1>5. ASSUME NEW c \in Users, MarketStep(c), UNCHANGED streams
        PROVE  \/ UNCHANGED rentalVars
               \/ \E id \in Tokens, value \in Values : Buy(c, id, value)
    BY <1>5 DEF MarketStep, SetEscrow, List, Unlist, rentalVars
  <1>6. ASSUME NEW c \in Users, EscrowStep(c), UNCHANGED streams
        PROVE  \/ UNCHANGED rentalVars
               \/ /\ Withdraw(c)
                  /\ UNCHANGED <<tokenVars, planVars, roleVars, marketVars, streams>>
    BY <1>6 DEF EscrowStep, rentalVars, coreVars
  <1> QED
    BY <1>1, <1>2, <1>3, <1>4, <1>5, <1>6 DEF LiquidNext, MarketNext

(* The rental contract's side of a step of the whole. *)
LEMMA LiquidBooks ==
  ASSUME LiquidInv, MarketInv', [LiquidNext]_systemVars
  PROVE  /\ RentalBooks'
         /\ PaidDirectly' => PaidDirectly /\ RentedPassHeld'
  <1>0. /\ MarketInv /\ RentalBooks /\ CoreInv'
        /\ PaidDirectly => RentedPassHeld
        /\ \A i \in Tokens : i >= next_token_id => owners[i] = ZERO
    BY DEF LiquidInv, RentalBooks, FreshIdsUnowned, MarketInv
  <1>1. PaidDirectly' => PaidDirectly
    BY MarketConstants
    DEF PaidDirectly, LiquidNext, MarketNext, CoreStep, MarketStep, SetEscrow, List, Unlist,
        Buy, EscrowStep, systemVars, vars, marketVars
  <1>2. CASE [RentalNext]_rentalVars
    BY <1>0, <1>1, <1>2, RentalStepBooks DEF CustodyKept
  <1>3. ASSUME NEW c \in Users, Withdraw(c),
               UNCHANGED <<tokenVars, planVars, roleVars, marketVars, streams>>
        PROVE  RentalBooks' /\ CustodyKept
    <2>1. UNCHANGED <<streams, next_token_id, owners>>
      BY <1>3 DEF tokenVars
    <2>2. eth'[RENTAL] = eth[RENTAL]
      <3>1. /\ eth' = [eth EXCEPT ![c] = @ + lockedBalances[c]] /\ c # RENTAL
            /\ DOMAIN eth = Holders
        BY <1>0, <1>3, SystemConstants
        DEF Withdraw, Credit, MarketInv, CoreInv, TypeOK, ChainTypeOK
      <3> QED
        BY <3>1, RentalConstants
    <2> QED
      BY <1>0, <2>1, <2>2, BooksAside DEF CustodyKept, RentedPassHeld, Rented
  <1>4. ASSUME NEW c \in Users, NEW id \in Tokens, NEW value \in Values,
               Buy(c, id, value), UNCHANGED streams
        PROVE  RentalBooks' /\ (PaidDirectly => CustodyKept)
    <2>1. /\ owners' = [owners EXCEPT ![id] = c] /\ next_token_id' = next_token_id
          /\ is_active(id) /\ owners \in [Tokens -> Holders]
      BY <1>0, <1>4 DEF Buy, MovePass, MarketInv, CoreInv, TypeOK
    <2>2. id < next_token_id
      <3>1. /\ expiries \in [Tokens -> Nat] /\ next_token_id \in Nat
            /\ now \in Nat /\ Tokens \subseteq Nat
        BY <1>0, ConstantFacts DEF MarketInv, CoreInv, TypeOK, ChainTypeOK
      <3> QED
        BY <1>0, <2>1, <3>1 DEF is_active, MarketInv, CoreInv, FreshIdsBlank
    <2>3. \A i \in Tokens : i >= next_token_id => owners'[i] = ZERO
      BY <1>0, <2>1, <2>2, ConstantFacts DEF MarketInv, CoreInv, TypeOK
    <2>4. RentalBooks'
      BY <1>0, <1>4, <2>1, <2>3, BooksAside, SaleSparesRental
    <2>5. ASSUME PaidDirectly PROVE owners[id] # RENTAL
      <3>1. SellerPaid(owners[id], currentPrice(id) - currentPrice(id) \div 10)
        BY <1>4 DEF Buy
      <3> QED
        BY <2>5, <3>1, RentalConstants, MarketConstants DEF SellerPaid, PaidDirectly
    <2>6. PaidDirectly => CustodyKept
      BY <1>4, <2>1, <2>5 DEF CustodyKept, RentedPassHeld, Rented
    <2> QED
      BY <2>4, <2>6
  <1> QED
    BY <1>0, <1>1, <1>2, <1>3, <1>4, LiquidStepKinds DEF CustodyKept

-----------------------------------------------------------------------------
(* A step of the rental contract.                                          *)

(* A rental moves ether between people and the contract: the market's books do not
   change, and nothing is made or lost. *)
LEMMA RentalStepMarket ==
  ASSUME LiquidInv, NEW c \in Users, RentalStep(c), UNCHANGED <<escrowVars, marketVars>>
  PROVE  MarketInv'
  <1>1. RentalBooks' /\ MarketInv /\ RentalBooks
    BY SystemConstants, RentalStepBooks DEF LiquidInv, RentalNext
  <1>2. CoreInv'
    BY <1>1 DEF RentalBooks
  <1>3. UNCHANGED <<now, next_token_id>>
    BY DEF RentalStep, OpenStream, SetRate, Reclaim, MovePass, StartRent, Settle, coreVars,
           tokenVars
  <1>4. Sum(eth', Holders) = Sum(eth, Holders) /\ eth'[MARKET] = eth[MARKET]
    BY <1>1, SystemConstants, MarketConstants, RentalStepMoney
  <1>5. next_token_id' >= next_token_id
    BY <1>1, <1>3 DEF MarketInv, CoreInv, TypeOK
  <1> QED
    BY <1>1, <1>2, <1>3, <1>4, <1>5, CoreAsideInv

LEMMA LiquidStepInv == LiquidInv /\ [LiquidNext]_systemVars => LiquidInv'
  <1> SUFFICES ASSUME LiquidInv, [LiquidNext]_systemVars PROVE LiquidInv'
    OBVIOUS
  <1>1. MarketInv'
    <2>1. CASE [MarketNext]_vars
      BY <2>1, MarketStepInv DEF LiquidInv
    <2>2. ASSUME NEW c \in Users, RentalStep(c), UNCHANGED <<escrowVars, marketVars>>
          PROVE  MarketInv'
      BY <2>2, RentalStepMarket
    <2> QED
      BY <2>1, <2>2 DEF LiquidNext, systemVars
  <1> QED
    BY <1>1, LiquidBooks DEF LiquidInv

-----------------------------------------------------------------------------
(* LiquidInv holds of every behaviour of the contracts together. *)
THEOREM LiquidInvariant == LiquidSpec => []LiquidInv
  <1>1. LiquidInit => LiquidInv
    BY LiquidInitInv
  <1>2. LiquidInv /\ [LiquidNext]_systemVars => LiquidInv'
    BY LiquidStepInv
  <1> QED
    BY <1>1, <1>2, PTL DEF LiquidSpec

(* RentalSolvent for the contracts together and every value of the constants: even where
   a pass is sold from under a rental, the contract can refund it. *)
THEOREM DepositsCoveredTogether == LiquidSpec => []RentalSolvent
  <1>1. LiquidInv => RentalSolvent
    BY DEF LiquidInv, RentalBooks
  <1> QED
    BY <1>1, LiquidInvariant, PTL

(* WealthConserved, EscrowBacked and MarketHoldsNothing for the contracts together:
   deposits, refunds and royalties of rentals cross none of the market's books. *)
THEOREM MoneyKeptTogether ==
  LiquidSpec => [](WealthConserved /\ EscrowBacked /\ MarketHoldsNothing)
  <1>1. LiquidInv => WealthConserved /\ EscrowBacked /\ MarketHoldsNothing
    BY DEF LiquidInv, MarketInv
  <1> QED
    BY <1>1, LiquidInvariant, PTL

-----------------------------------------------------------------------------
(* Custody beside the market.  A sale that is paid into the escrow is accepted for
   whoever owns the pass, the rental contract too; so long as none is linked, it is
   refused for a pass in custody, whoever has listed it. *)

LEMMA CustodyInv == LiquidInv /\ PaidDirectly => RentalInv
  BY DEF LiquidInv, RentalInv

(* What the market does to a pass in custody while sales are paid directly: nothing. *)
LEMMA SaleSparesCustody ==
  ASSUME LiquidInv, PaidDirectly, NEW c \in Users, NEW id \in Tokens, NEW value \in Values,
         Buy(c, id, value)
  PROVE  /\ UNCHANGED <<now, expiries>>
         /\ \A i \in Tokens : owners[i] = RENTAL => owners'[i] = RENTAL
  <1>1. owners' = [owners EXCEPT ![id] = c] /\ UNCHANGED <<now, expiries>>
    BY DEF Buy, MovePass
  <1>2. SellerPaid(owners[id], currentPrice(id) - currentPrice(id) \div 10)
    BY DEF Buy
  <1>3. owners[id] # RENTAL
    BY <1>2, RentalConstants, MarketConstants DEF SellerPaid, PaidDirectly
  <1> QED
    BY <1>1, <1>3

LEMMA CustodyStep ==
  ASSUME LiquidInv, PaidDirectly, [LiquidNext]_systemVars, NEW i \in Tokens,
         owners[i] = RENTAL, owners'[i] # RENTAL
  PROVE  ~Rented(i) /\ owners'[i] = streams[i].owner
  <1>1. CASE [RentalNext]_rentalVars
    BY <1>1, OutOfCustody DEF LiquidInv
  <1>2. CASE ~[RentalNext]_rentalVars
    <2>1. owners' = owners \/ owners'[i] = RENTAL
      BY <1>2, LiquidStepKinds, SaleSparesCustody DEF tokenVars
    <2> QED
      BY <2>1
  <1> QED
    BY <1>1, <1>2

(* RentedPassHeld for the contracts together with their clients, and every value of the
   constants: no listing, sale, transfer or reclaim takes a rented pass out of custody
   while sales are paid directly. *)
THEOREM RentedPassStays == LiquidSpec /\ []PaidDirectly => []RentedPassHeld
  <1>1. LiquidInv /\ PaidDirectly => RentedPassHeld
    BY DEF LiquidInv
  <1> QED
    BY <1>1, LiquidInvariant, PTL

(* CustodyReturns likewise: what is listed while in custody still goes back to the owner
   of its stream, and to nobody who would buy it. *)
THEOREM CustodyGoesBack == LiquidSpec /\ []PaidDirectly => CustodyReturns
  <1>1. LiquidInv /\ PaidDirectly /\ [LiquidNext]_systemVars
          => [\A i \in Tokens :
                owners[i] = RENTAL /\ owners'[i] # RENTAL
                  => owners'[i] = streams[i].owner]_rentalVars
    BY CustodyStep
  <1> QED
    BY <1>1, LiquidInvariant, PTL DEF LiquidSpec, CustodyReturns

(* UnusedTimeRefunded likewise: no trade ends a renter's access, so that only a
   settlement does, which refunds it. *)
THEOREM UnusedIsRefundedTogether == LiquidSpec /\ []PaidDirectly => UnusedTimeRefunded
  <1>1. ASSUME LiquidInv, LiquidInv', PaidDirectly, PaidDirectly', [LiquidNext]_systemVars,
               NEW i \in Tokens, activeRenter(i) # ZERO, activeRenter(i)' # activeRenter(i),
               now' = now
        PROVE  eth'[activeRenter(i)] - eth[activeRenter(i)] >= streams[i].deposit - owed(i)
    <2>1. CASE [RentalNext]_rentalVars
      BY <1>1, <2>1, CustodyInv, AccessEndsPaid DEF LiquidInv, RentalInv
    <2>2. CASE UNCHANGED <<now, expiries, streams>>
      <3>1. owed(i)' = owed(i)
        BY <2>2 DEF owed, Rented
      <3>2. activeRenter(i)' = activeRenter(i)
        BY <2>2, <3>1 DEF activeRenter
      <3> QED
        BY <1>1, <3>2
    <2>3. ASSUME NEW c \in Users, Withdraw(c), UNCHANGED <<tokenVars, streams>>
          PROVE  UNCHANGED <<now, expiries, streams>>
      BY <2>3 DEF Withdraw, tokenVars
    <2> QED
      BY <1>1, <2>1, <2>2, <2>3, LiquidStepKinds, SaleSparesCustody
  <1>2. LiquidInv /\ LiquidInv' /\ PaidDirectly /\ PaidDirectly' /\ [LiquidNext]_systemVars
          => [\A i \in Tokens :
                LET renter == activeRenter(i)
                IN  renter # ZERO /\ activeRenter(i)' # renter /\ now' = now
                      => eth'[renter] - eth[renter]
                           >= streams[i].deposit - owed(i)]_rentalVars
    BY <1>1
  <1> QED
    BY <1>2, LiquidInvariant, PTL DEF LiquidSpec, UnusedTimeRefunded

-----------------------------------------------------------------------------
(* The ledger of access under all the contracts.                           *)

(* The plan there is has a term on offer, and no contract makes another one. *)
LEMMA TermsStayOffered ==
  /\ LiquidInit => PlanTermsOffered
  /\ PlanTermsOffered /\ [LiquidNext]_systemVars => PlanTermsOffered'
  <1>1. LiquidInit => PlanTermsOffered
    BY MarketAssumption DEF LiquidInit, SystemInit, DeployedWithPlan, PlanTermsOffered
  <1>2. ASSUME NEW c \in Users, CoreStep(c) PROVE UNCHANGED <<plan_issuers, plan_durations>>
    BY <1>2
    DEF CoreStep, IssueStep, Mint, BuyPass, HolderStep, Split, Bundle, TransferPass, planVars
  <1>3. ASSUME NEW c \in Users, MarketStep(c) \/ EscrowStep(c)
        PROVE  UNCHANGED <<plan_issuers, plan_durations>>
    BY <1>3 DEF MarketStep, SetEscrow, List, Unlist, Buy, EscrowStep, planVars, coreVars
  <1>4. ASSUME NEW c \in Users, RentalStep(c) PROVE UNCHANGED <<plan_issuers, plan_durations>>
    BY <1>4
    DEF RentalStep, OpenStream, SetRate, Reclaim, StartRent, Settle, planVars, coreVars
  <1>5. [LiquidNext]_systemVars => UNCHANGED <<plan_issuers, plan_durations>>
    BY <1>2, <1>3, <1>4 DEF LiquidNext, MarketNext, Tick, planVars, coreVars, systemVars, vars
  <1> QED
    BY <1>1, <1>5 DEF PlanTermsOffered

(* A sale on the market moves a pass and no more, and so does a pass that comes back out of
   custody; everything else either is a step of the core or touches no pass. *)
LEMMA LiquidIsLedgerStep ==
  ASSUME LiquidInv, LiquidInv', PlanTermsOffered, [LiquidNext]_systemVars
  PROVE  [Ledger!Next]_<<now, accessHeld>>
  <1>1. CoreInv /\ CoreInv' /\ Users \subseteq Addr /\ Users \subseteq Holders
    BY MarketConstants, ConstantFacts DEF LiquidInv, MarketInv
  <1>2. CASE UNCHANGED <<now, tokenVars>>
    BY <1>2 DEF tokenVars, accessHeld, AccessLeft, HeldBy, SecondsLeft, Later
  <1>3. CASE Next
    BY <1>1, <1>3, StepIsLedgerStep
  <1>4. ASSUME NEW id \in Tokens, NEW to \in Holders, MovePass(id, to), now' = now
        PROVE  [Ledger!Next]_<<now, accessHeld>>
    BY <1>1, <1>4, MoveIsLedgerStep
  <1>5. ASSUME NEW c \in Users, CoreStep(c) PROVE [Ledger!Next]_<<now, accessHeld>>
    BY <1>1, <1>3, <1>5 DEF CoreStep, Next
  <1>6. ASSUME NEW c \in Users, MarketStep(c) PROVE [Ledger!Next]_<<now, accessHeld>>
    BY <1>1, <1>2, <1>4, <1>6 DEF MarketStep, SetEscrow, List, Unlist, Buy, coreVars
  <1>7. ASSUME NEW c \in Users, EscrowStep(c) PROVE [Ledger!Next]_<<now, accessHeld>>
    BY <1>2, <1>7 DEF EscrowStep, Withdraw
  <1>8. ASSUME NEW c \in Users, RentalStep(c) PROVE [Ledger!Next]_<<now, accessHeld>>
    BY <1>1, <1>2, <1>4, <1>8
    DEF RentalStep, OpenStream, SetRate, Reclaim, StartRent, Settle, coreVars
  <1>9. CASE Tick
    BY <1>3, <1>9 DEF Next
  <1> QED
    BY <1>2, <1>5, <1>6, <1>7, <1>8, <1>9
    DEF LiquidNext, MarketNext, systemVars, vars, coreVars

(* ImplementsLedger for the contracts together: whatever is listed, sold, put in custody,
   rented and taken back, access lapses with time, is granted by an issue, or is handed
   on second for second, custody being one more hand. *)
THEOREM ContractsImplementLedger == LiquidSpec => ImplementsLedger
  <1>1. LiquidInit => Ledger!Init
    BY LedgerStarts DEF LiquidInit, SystemInit, DeployedWithPlan
  <1>2. LiquidInv /\ LiquidInv' /\ PlanTermsOffered /\ [LiquidNext]_systemVars
          => [Ledger!Next]_<<now, [h \in Holders |-> AccessLeft(HeldBy(h))]>>
    BY LiquidIsLedgerStep DEF accessHeld
  <1> QED
    BY <1>1, <1>2, TermsStayOffered, LiquidInvariant, PTL
    DEF LiquidSpec, ImplementsLedger, Ledger!Spec

-----------------------------------------------------------------------------
(* The clients.                                                            *)

(* The control at work is one the panel has, and what it sends is what it was asked. *)
Controls == {"open", "escrow", "reprice", "reclaim", "start", "settle"}

RunIsKnown ==
  /\ run = [kind |-> run.kind, arg |-> run.arg, phase |-> run.phase,
            call |-> run.call, load |-> run.load]
  /\ run.phase # "none" => run.kind \in Controls
  /\ run.kind \in {"open", "reprice"} => run.arg \in Rates
  /\ run.kind = "start" => run.arg \in Deposits

LEMMA RestIsKnown == run = Rest => RunIsKnown
  BY DEF Rest, RunIsKnown

(* What the panel sends, the contracts know of. *)
LEMMA SendIsKnown ==
  ASSUME RunIsKnown, run.phase # "none", Send
  PROVE  LiquidNext
  <1>1. Me \in Users /\ PanelPass \in Tokens /\ RENTAL \in Recipients
    BY PanelAssumption
  <1>2. CASE run.call = "unlist"
    BY <1>1, <1>2 DEF Send, LiquidNext, MarketNext, MarketStep
  <1>3. CASE run.call # "unlist" /\ run.kind = "escrow"
    BY <1>1, <1>3 DEF Send, AtRental, LiquidNext, MarketNext, CoreStep, HolderStep
  <1>4. CASE run.call # "unlist" /\ run.kind # "escrow"
    <2>1. RentalStep(Me) /\ UNCHANGED <<escrowVars, marketVars>>
      BY <1>1, <1>4 DEF Send, AtRental, RentalStep, RunIsKnown, Controls
    <2> QED
      BY <1>1, <2>1 DEF LiquidNext
  <1> QED
    BY <1>2, <1>3, <1>4

(* Whoever looks, what happens to the contracts is a step of theirs. *)
LEMMA PanelStepKinds ==
  ASSUME RunIsKnown, PanelNext
  PROVE  [LiquidNext]_systemVars
  <1>1. CASE SendMined
    <2>1. CASE Send
      BY <1>1, <2>1, SendIsKnown DEF SendMined
    <2> QED
      BY <1>1, <2>1 DEF SendMined
  <1>2. CASE Outside
    BY <1>2 DEF Outside
  <1>3. CASE PanelTick
    BY <1>3 DEF PanelTick, LiquidNext, MarketNext
  <1> QED
    BY <1>1, <1>2, <1>3
    DEF PanelNext, Poll, ReadOne, LoadLands, LoadFails, PressSome, Press, LookAtListing,
        AnswerWallet, OnlyRun, Await

LEMMA ClientStepKinds ==
  ASSUME RunIsKnown, [ClientsNext]_clientsVars
  PROVE  [LiquidNext]_systemVars
  <1>1. CASE CheckNext
    BY <1>1 DEF CheckNext, CheckedChain, ReadFails, Verdict, Read, LiquidNext, MarketNext
  <1>2. CASE ClientOpens
    BY <1>2 DEF ClientOpens, PanelOpens, CheckBegins
  <1> QED
    BY <1>1, <1>2, PanelStepKinds DEF ClientsNext, clientsVars

(* A control keeps its errand from the press to the end. *)
LEMMA RunStepKnown ==
  ASSUME RunIsKnown, [ClientsNext]_clientsVars
  PROVE  RunIsKnown'
  <1>1. ASSUME UNCHANGED run PROVE RunIsKnown'
    BY <1>1 DEF RunIsKnown
  <1>2. ASSUME run' = Rest PROVE RunIsKnown'
    BY <1>2 DEF Rest, RunIsKnown
  <1>3. ASSUME NEW phase, NEW call, NEW load, run.phase # "none",
               run' = [kind |-> run.kind, arg |-> run.arg, phase |-> phase,
                       call |-> call, load |-> load]
        PROVE  RunIsKnown'
    BY <1>3 DEF RunIsKnown
  <1>4. CASE PressSome
    <2>1. ASSUME NEW kind \in Controls, NEW arg, NEW phase, Press(kind, arg, phase),
                 kind \in {"open", "reprice"} => arg \in Rates,
                 kind = "start" => arg \in Deposits
          PROVE  RunIsKnown'
      BY <2>1 DEF Press, RunIsKnown
    <2> QED
      BY <1>4, <2>1 DEF PressSome, Controls
  <1>5. CASE LookAtListing \/ AnswerWallet \/ SendMined \/ Await
    <2>1. run = [kind |-> run.kind, arg |-> run.arg, phase |-> run.phase,
                 call |-> run.call, load |-> run.load]
      BY DEF RunIsKnown
    <2>2. run.phase # "none"
      BY <1>5 DEF LookAtListing, AnswerWallet, SendMined, Await
    <2>3. \/ run' = Rest
          \/ \E phase, call, load :
               run' = [kind |-> run.kind, arg |-> run.arg, phase |-> phase,
                       call |-> call, load |-> load]
      BY <1>5, <2>1 DEF LookAtListing, AnswerWallet, SendMined, Await
    <2> QED
      BY <1>2, <1>3, <2>2, <2>3
  <1> QED
    BY <1>1, <1>2, <1>4, <1>5
    DEF ClientsNext, clientsVars, panelVars, ClientOpens, PanelOpens, PanelNext, Poll, ReadOne,
        LoadLands, LoadFails, RunEnds, Outside, PanelTick

(* The clients implement the contracts: with a panel that polls and sends beside them, or
   somebody who checks a pass, what happens on the chain is a behaviour of theirs. *)
THEOREM ClientsOnlyTransact == ClientsSpec => LiquidSpec
  <1>1. ClientsInit => LiquidInit /\ RunIsKnown
    BY RestIsKnown DEF ClientsInit, PanelInit
  <1>2. RunIsKnown /\ [ClientsNext]_clientsVars => RunIsKnown' /\ [LiquidNext]_systemVars
    BY RunStepKnown, ClientStepKinds
  <1> QED
    BY <1>1, <1>2, PTL DEF ClientsSpec, LiquidSpec

-----------------------------------------------------------------------------
(* Who is paid by a settlement, and what the panel offers.                 *)

(* Whoever is paid by a settlement takes it. *)
PartiesTakeEther(stream) == stream.owner \notin Refusing /\ stream.renter \notin Refusing

PayeesTakeEther ==
  \A i \in Tokens : PartiesTakeEther(streams[i]) /\ issuers[i] \notin Refusing

LEMMA NobodyTakesEther == ZERO \notin Refusing
  BY AccountsAssumption

(* An issuer is somebody who mints, or has been paid for a pass; a slice or a merged pass
   keeps the issuer of what it was made of. *)
LEMMA IssuersTakeEther ==
  ASSUME LiquidInv, PayeesTakeEther, Users \cap Refusing = {}, NEW c \in Users, CoreStep(c),
         NEW i \in Tokens
  PROVE  issuers'[i] \notin Refusing
  <1>1. issuers \in [Tokens -> Holders]
    BY DEF LiquidInv, MarketInv, CoreInv, TypeOK
  <1>2. ASSUME NEW to, NEW d, NEW issuer, issuer \notin Refusing, NewPass(to, d, issuer)
        PROVE  issuers'[i] \notin Refusing
    BY <1>1, <1>2 DEF NewPass, PayeesTakeEther
  <1>3. CASE IssueStep(c)
    <2>1. ASSUME NEW to \in Addr, NEW d \in Durations, Mint(c, to, d)
          PROVE  issuers'[i] \notin Refusing
      BY <1>2, <2>1 DEF Mint
    <2>2. ASSUME NEW p \in Plans, NEW v \in Prices, BuyPass(c, p, v)
          PROVE  issuers'[i] \notin Refusing
      BY <1>2, <2>2 DEF BuyPass
    <2> QED
      BY <1>3, <2>1, <2>2 DEF IssueStep
  <1>4. ASSUME NEW id \in Tokens, NEW n \in PartCounts, Split(c, id, n)
        PROVE  issuers'[i] \notin Refusing
    <2>1. issuers'[i] \in {issuers[id], issuers[i]}
      BY <1>4 DEF Split
    <2> QED
      BY <2>1 DEF PayeesTakeEther
  <1>5. ASSUME NEW ids \in IdLists, Bundle(c, ids) PROVE issuers'[i] \notin Refusing
    <2>1. issuers' = [issuers EXCEPT ![next_token_id] = issuers[ids[1]]]
      BY <1>5 DEF Bundle
    <2>2. ids[1] \in Tokens
      BY DEF IdLists
    <2> QED
      BY <1>1, <2>1, <2>2 DEF PayeesTakeEther
  <1>6. ASSUME NEW to \in Recipients, NEW id \in Tokens, TransferPass(c, to, id)
        PROVE  issuers'[i] \notin Refusing
    BY <1>6 DEF TransferPass, MovePass, PayeesTakeEther
  <1> QED
    BY <1>3, <1>4, <1>5, <1>6 DEF CoreStep, HolderStep

(* A stream is opened by a user, and stays with whoever opened it; users rent it. *)
LEMMA PartiesKept ==
  ASSUME LiquidInv, PayeesTakeEther, Users \cap Refusing = {}, NEW c \in Users, RentalStep(c),
         NEW i \in Tokens
  PROVE  PartiesTakeEther(streams'[i]) /\ UNCHANGED issuers
  <1>1. streams \in [Tokens -> Stream]
    BY RentalFacts DEF LiquidInv
  <1>2. \A id \in Tokens : PartiesTakeEther(streams[id])
    BY DEF PayeesTakeEther
  <1>3. c \notin Refusing /\ ZERO \notin Refusing
    BY NobodyTakesEther
  <1>4. ASSUME NEW id \in Tokens, NEW rate \in Rates, OpenStream(c, id, rate)
        PROVE  PartiesTakeEther(streams'[i])
    BY <1>1, <1>2, <1>3, <1>4 DEF OpenStream, Stream, PartiesTakeEther
  <1>5. ASSUME NEW id \in Tokens, NEW rate \in Rates, SetRate(c, id, rate)
        PROVE  PartiesTakeEther(streams'[i])
    BY <1>1, <1>2, <1>5 DEF SetRate, Stream, PartiesTakeEther
  <1>6. ASSUME NEW id \in Tokens, Reclaim(c, id) PROVE PartiesTakeEther(streams'[i])
    BY <1>1, <1>2, <1>3, <1>6 DEF Reclaim, NoStream, PartiesTakeEther
  <1>7. ASSUME NEW id \in Tokens, NEW value \in Deposits, StartRent(c, id, value)
        PROVE  PartiesTakeEther(streams'[i])
    BY <1>1, <1>2, <1>3, <1>7 DEF StartRent, Stream, PartiesTakeEther
  <1>8. ASSUME NEW id \in Tokens, Settle(c, id) PROVE PartiesTakeEther(streams'[i])
    BY <1>1, <1>2, <1>3, <1>8 DEF Settle, Stream, PartiesTakeEther
  <1>9. UNCHANGED issuers
    BY DEF RentalStep, OpenStream, SetRate, Reclaim, MovePass, StartRent, Settle, coreVars,
           tokenVars
  <1> QED
    BY <1>4, <1>5, <1>6, <1>7, <1>8, <1>9 DEF RentalStep

LEMMA PayeesStay ==
  ASSUME LiquidInv, PayeesTakeEther, Users \cap Refusing = {}, [LiquidNext]_systemVars
  PROVE  PayeesTakeEther'
  <1>1. CASE UNCHANGED <<issuers, streams>>
    BY <1>1 DEF PayeesTakeEther
  <1>2. ASSUME NEW c \in Users, CoreStep(c), UNCHANGED streams PROVE PayeesTakeEther'
    BY <1>2, IssuersTakeEther DEF PayeesTakeEther
  <1>3. ASSUME NEW c \in Users, RentalStep(c) PROVE PayeesTakeEther'
    BY <1>3, PartiesKept DEF PayeesTakeEther
  <1>4. ASSUME NEW c \in Users, MarketStep(c) \/ EscrowStep(c), UNCHANGED streams
        PROVE  UNCHANGED <<issuers, streams>>
    BY <1>4 DEF MarketStep, SetEscrow, List, Unlist, Buy, MovePass, EscrowStep, coreVars,
                tokenVars
  <1>5. CASE (Tick /\ UNCHANGED streams) \/ UNCHANGED systemVars
    BY <1>1, <1>5 DEF Tick, tokenVars, systemVars, vars, coreVars
  <1> QED
    BY <1>1, <1>2, <1>3, <1>4, <1>5 DEF LiquidNext, MarketNext

LEMMA EverybodyIsPaid ==
  ASSUME Users \cap Refusing = {}
  PROVE  LiquidSpec => []PayeesTakeEther
  <1>1. LiquidInit => PayeesTakeEther
    <2> SUFFICES ASSUME LiquidInit PROVE PayeesTakeEther
      OBVIOUS
    <2>1. /\ issuers = [i \in Tokens |-> ZERO]
          /\ streams = [i \in Tokens |-> NoStream]
      BY DEF LiquidInit, SystemInit, DeployedWithPlan, NoPasses
    <2> QED
      BY <2>1, NobodyTakesEther DEF PayeesTakeEther, PartiesTakeEther, NoStream
  <1>2. LiquidInv /\ PayeesTakeEther /\ [LiquidNext]_systemVars => PayeesTakeEther'
    BY PayeesStay
  <1> QED
    BY <1>1, <1>2, LiquidInvariant, PTL DEF LiquidSpec

(* A stream that somebody opened is always somebody's to move on with: its owner may close
   it, or there is a renter, who may stop; and once deposit or pass are used up, anybody
   may. *)
NobodyHeldHostage ==
  \A i \in Tokens : streams[i].owner # ZERO =>
    IF Rented(i)
    THEN /\ MaySettle(streams[i].renter, i)
         /\ Finished(i) => \A caller \in Users : MaySettle(caller, i)
    ELSE OwnedIdle(streams[i].owner, i)

(* "Anyone may settle a stream that has run out, so an owner is never held hostage by a
   renter who simply walks away" (StreamRental.sol:134): where users take ether, every
   requirement of settle() or of reclaim() holds, with market and escrow beside it and
   whatever has become of the pass. *)
THEOREM OwnersAreNotHostages ==
  ASSUME Users \cap Refusing = {}
  PROVE  LiquidSpec => []NobodyHeldHostage
  <1>1. PayeesTakeEther => NobodyHeldHostage
    BY DEF PayeesTakeEther, PartiesTakeEther, NobodyHeldHostage, MaySettle, OwnedIdle
  <1> QED
    BY <1>1, EverybodyIsPaid, PTL

(* What right figures say: whose stream it is, who is renting unless the rental has ended,
   and where the pass is. *)
LEMMA RightFigures ==
  ASSUME LiquidInv, figures = Figures
  PROVE  /\ figures["rental"].owner = streams[PanelPass].owner
         /\ figures["holder"] <=> owners[PanelPass] = RENTAL
         /\ figures["rental"].active
              = IF Finished(PanelPass) THEN ZERO ELSE streams[PanelPass].renter
  <1> DEFINE id == PanelPass
  <1>1. /\ figures["rental"].owner = streams[id].owner
        /\ figures["rental"].active = activeRenter(id)
        /\ figures["holder"] = (owners[id] = RENTAL)
    BY DEF Figures, Reads, Answer
  <1>2. /\ owed(id) \in Nat /\ streams[id].deposit \in Nat
        /\ now \in Nat /\ expiries[id] \in Nat
    BY PanelAssumption, OwedFacts, RentalFacts DEF LiquidInv, Stream
  <1>3. Finished(id) <=> ~(now < expiries[id] /\ owed(id) < streams[id].deposit)
    BY <1>2 DEF Finished
  <1> QED
    BY <1>1, <1>3 DEF activeRenter

(* Where users take ether, the contract accepts of what the panel offers on figures that
   are right exactly what OffersAccepted says: for every pass, user, rate and budget, and
   with market and escrow beside it. *)
THEOREM OffersAreAccepted ==
  ASSUME Users \cap Refusing = {}
  PROVE  ClientsSpec => []OffersAccepted
  <1> DEFINE id == PanelPass
  <1>1. ASSUME LiquidInv, PayeesTakeEther, figures = Figures PROVE OffersAccepted
    <2>1. /\ Me # ZERO /\ Me \notin Refusing /\ id \in Tokens
      BY PanelAssumption, SystemConstants, RentalConstants, AccountsAssumption
    <2>2. Rented(id) => streams[id].owner # ZERO
      BY <1>1, <2>1 DEF Rented, LiquidInv, RentalBooks, StreamsConsistent
    <2>3. OpenOffered => (MayOpen(Me, id) <=> owners[id] = passOwner /\ is_active(id))
      BY <1>1, <2>2, RightFigures DEF OpenOffered, hasStream, MayOpen
    <2>4. HandOverOffered => (owners[id] = Me <=> owners[id] = streams[id].owner)
      BY <1>1, RightFigures DEF HandOverOffered, isStreamOwner
    <2>5. Idle => (Rented(id) <=> Rented(id) /\ Finished(id))
      BY <1>1, RightFigures DEF Idle, Rented
    <2>6. RepriceOffered \/ TakeBackOffered
            => (OwnedIdle(Me, id) <=> ~(Rented(id) /\ Finished(id)))
      BY <1>1, <2>5, RightFigures
      DEF RepriceOffered, TakeBackOffered, isStreamOwner, OwnedIdle
    <2>7. StartOffered => \A value \in Deposits :
            MayStart(Me, id, value)
              <=> ~(Rented(id) /\ Finished(id)) /\ is_active(id) /\ BuysTime(Me, id, value)
      BY <1>1, <2>5, RightFigures
      DEF StartOffered, hasStream, escrowed, isStreamOwner, MayStart, Offered
    <2>8. ASSUME SettleOffered PROVE MaySettle(Me, id) <=> isRenter
      <3>1. Rented(id) /\ ~Finished(id) /\ figures["rental"].active = streams[id].renter
        BY <1>1, <2>8, RightFigures DEF SettleOffered, Idle, Rented
      <3>2. isRenter <=> Me = streams[id].renter
        BY <3>1 DEF isRenter
      <3> QED
        BY <1>1, <2>1, <3>1, <3>2 DEF MaySettle, PayeesTakeEther, PartiesTakeEther
    <2> QED
      BY <2>3, <2>4, <2>6, <2>7, <2>8 DEF OffersAccepted
  <1>2. LiquidInv /\ PayeesTakeEther => OffersAccepted
    BY <1>1 DEF OffersAccepted
  <1> QED
    BY <1>2, EverybodyIsPaid, ClientsOnlyTransact, LiquidInvariant, PTL

-----------------------------------------------------------------------------
(* A check of a pass.  While it runs its record is up to date, and each answer it has
   had agrees with the record; for whoever has had access all the time, every answer
   points to them.                                                         *)

CheckIsOpen == check.verdict = Open

CheckShape ==
  /\ check = [by |-> check.by, id |-> check.id, got |-> check.got,
              verdict |-> check.verdict]
  /\ check.id \in Tokens /\ check.by \in {"access", "oracle"}

AccessRecorded ==
  /\ was = [people |-> was.people, active |-> was.active]
  /\ owners[check.id] \in was.people /\ activeRenter(check.id) \in was.people
  /\ is_active(check.id) \in was.active
  /\ always \subseteq AccessHolders(check.id)

OwnerAnswer ==
  Has({"owner"}) =>
    /\ Got("owner") \in was.people
    /\ \A one \in always : \/ Got("owner") = RENTAL /\ owners[check.id] = RENTAL
                           \/ Got("owner") = one /\ one # RENTAL

ActiveAnswer ==
  Has({"active"}) =>
    /\ Got("active") \in BOOLEAN /\ Got("active") \in was.active
    /\ \A one \in always : Got("active")

RenterAnswer ==
  Has({"renter"}) =>
    /\ Got("renter") \in was.people /\ Got("renter") # RENTAL
    /\ \A one \in always : Got("renter") = one

AccessInv == AccessRecorded /\ OwnerAnswer /\ ActiveAnswer /\ RenterAnswer

(* Nobody but a person has access, and a renter's pass is in custody. *)
LEMMA AccessHolderFacts ==
  ASSUME RentalBooks, NEW id \in Tokens, NEW one \in AccessHolders(id)
  PROVE  /\ one # RENTAL /\ one # ZERO /\ is_active(id)
         /\ owners[id] = RENTAL => one = activeRenter(id) /\ Rented(id)
         /\ owners[id] # RENTAL => one = owners[id]
  <1>1. one \in Addr /\ one # ZERO /\ is_active(id)
    BY ConstantFacts DEF AccessHolders
  <1>2. CASE owners[id] # RENTAL
    BY <1>1, <1>2 DEF AccessHolders
  <1>3. CASE owners[id] = RENTAL
    <2>1. one = activeRenter(id)
      BY <1>3 DEF AccessHolders
    <2>2. one = streams[id].renter
      BY <1>1, <2>1 DEF activeRenter
    <2> QED
      BY <1>1, <1>3, <2>1, <2>2 DEF Rented, RentalBooks, StreamsConsistent
  <1> QED
    BY <1>2, <1>3

LEMMA AccessBegins ==
  ASSUME NEW id \in Tokens, CheckIsOpen',
         check' = Check("access", id, Open), was' = Facts("access", id),
         always' = AccessHolders(id), UNCHANGED systemVars
  PROVE  (CheckShape /\ AccessInv)'
  <1>1. /\ check' = [by |-> "access", id |-> id, got |-> [r \in {} |-> 0],
                     verdict |-> Open]
        /\ was' = [people |-> {owners[id], activeRenter(id)}, active |-> {is_active(id)}]
    BY DEF Check, Facts
  <1>2. /\ check'.id = id /\ check'.by = "access" /\ DOMAIN check'.got = {}
        /\ was'.people = {owners[id], activeRenter(id)} /\ was'.active = {is_active(id)}
    BY <1>1
  <1>3. /\ UNCHANGED owners /\ is_active(id)' = is_active(id)
        /\ activeRenter(id)' = activeRenter(id) /\ AccessHolders(id)' = AccessHolders(id)
    BY DEF systemVars, vars, coreVars, tokenVars, is_active, activeRenter, owed, Rented,
           AccessHolders
  <1>4. CheckShape'
    BY <1>1, <1>2 DEF CheckShape
  <1>5. AccessRecorded'
    BY <1>1, <1>2, <1>3 DEF AccessRecorded
  <1>6. (OwnerAnswer /\ ActiveAnswer /\ RenterAnswer)'
    BY <1>2 DEF OwnerAnswer, ActiveAnswer, RenterAnswer, Has
  <1> QED
    BY <1>4, <1>5, <1>6 DEF AccessInv

(* What is read is on the record, and points to whoever has had access all along. *)
LEMMA AccessReads ==
  ASSUME RentalBooks, CheckShape, AccessInv, check.by = "access",
         NEW read \in {"owner", "active", "expiry", "renter"}, Read(read)
  PROVE  (CheckShape /\ AccessInv)'
  <1> DEFINE answers == [r \in DOMAIN check.got \cup {read} |->
                           IF r = read THEN Reply(read) ELSE Got(r)]
             id == check.id
  <1>1. /\ check' = [check EXCEPT !.got = answers]
        /\ UNCHANGED <<systemVars, was, always>>
        /\ read \in Asked
    BY DEF Read
  <1>2. /\ DOMAIN answers = DOMAIN check.got \cup {read} /\ answers[read] = Reply(read)
        /\ \A r \in DOMAIN check.got : r # read => answers[r] = Got(r)
    OBVIOUS
  <1> HIDE DEF answers
  <1>3. check' = [by |-> check.by, id |-> check.id, got |-> answers,
                  verdict |-> check.verdict]
    BY <1>1 DEF CheckShape
  <1>4. /\ check'.id = id /\ check'.by = check.by /\ check'.got = answers
    BY <1>3
  <1>5. CheckShape'
    BY <1>3, <1>4 DEF CheckShape
  <1>6. /\ UNCHANGED owners /\ is_active(id)' = is_active(id)
        /\ activeRenter(id)' = activeRenter(id) /\ AccessHolders(id)' = AccessHolders(id)
    BY <1>1 DEF systemVars, vars, coreVars, tokenVars, is_active, activeRenter, owed, Rented,
                AccessHolders
  <1>7. AccessRecorded'
    BY <1>1, <1>4, <1>6 DEF AccessInv, AccessRecorded
  <1>8. \A one \in always : /\ one # RENTAL /\ is_active(id)
                            /\ owners[id] = RENTAL => one = activeRenter(id)
                            /\ owners[id] # RENTAL => one = owners[id]
    BY AccessHolderFacts DEF CheckShape, AccessInv, AccessRecorded
  <1>9. OwnerAnswer'
    <2>1. CASE read = "owner"
      BY <1>1, <1>2, <1>4, <1>6, <1>8, <2>1
      DEF OwnerAnswer, Reply, Got, AccessInv, AccessRecorded
    <2>2. CASE read # "owner"
      BY <1>1, <1>2, <1>4, <1>6, <2>2 DEF OwnerAnswer, Has, Got, AccessInv
    <2> QED
      BY <2>1, <2>2
  <1>10. ActiveAnswer'
    <2>1. CASE read = "active"
      <3>1. is_active(id) \in BOOLEAN
        BY DEF is_active
      <3>2. answers["active"] = is_active(id)
        BY <1>2, <2>1 DEF Reply
      <3> QED
        BY <1>1, <1>4, <1>8, <3>1, <3>2 DEF ActiveAnswer, Got, AccessInv, AccessRecorded
    <2>2. CASE read # "active"
      BY <1>1, <1>2, <1>4, <2>2 DEF ActiveAnswer, Has, Got, AccessInv
    <2> QED
      BY <2>1, <2>2
  <1>11. RenterAnswer'
    <2>1. CASE read = "renter"
      <3>1. AsksRenter
        BY <1>1, <2>1 DEF Asked, FirstReads
      <3>2. Has({"owner"}) /\ Got("owner") = RENTAL
        BY <3>1 DEF AsksRenter, InCustody
      <3>3. \A one \in always : one = activeRenter(id)
        BY <1>8, <3>2 DEF OwnerAnswer, AccessInv
      <3>4. activeRenter(id) # RENTAL
        BY RentalConstants DEF activeRenter, RentalBooks, StreamsConsistent, CheckShape
      <3>5. answers["renter"] = activeRenter(id)
        BY <1>2, <2>1 DEF Reply
      <3> QED
        BY <1>1, <1>4, <3>3, <3>4, <3>5 DEF RenterAnswer, Got, AccessInv, AccessRecorded
    <2>2. CASE read # "renter"
      BY <1>1, <1>2, <1>4, <2>2 DEF RenterAnswer, Has, Got, AccessInv
    <2> QED
      BY <2>1, <2>2
  <1> QED
    BY <1>5, <1>7, <1>9, <1>10, <1>11 DEF AccessInv

(* What happens meanwhile goes on the record, and takes nobody's place who has had
   access all along: a renter's pass stays in custody. *)
LEMMA AccessWatched ==
  ASSUME LiquidInv, LiquidInv', PaidDirectly, [LiquidNext]_systemVars,
         CheckShape, AccessInv, check.by = "access", CheckIsOpen,
         UNCHANGED check, Witnessed
  PROVE  (CheckShape /\ AccessInv)'
  <1> DEFINE id == check.id
  <1>1. RentalBooks /\ id \in Tokens /\ check' = check
    BY DEF LiquidInv, CheckShape
  <1>2. /\ was' = Both(was, Facts("access", id)')
        /\ always' = always \cap AccessHolders(id)'
    BY DEF Witnessed, CheckIsOpen
  <1>3. Facts("access", id)' = [people |-> {owners[id], activeRenter(id)}',
                                active |-> {is_active(id)'}]
    BY <1>1 DEF Facts
  <1>4. was' = [people |-> was.people \cup {owners[id], activeRenter(id)}',
                active |-> was.active \cup {is_active(id)'}]
    <2>1. was = [people |-> was.people, active |-> was.active]
      BY DEF AccessInv, AccessRecorded
    <2> QED
      BY <1>2, <1>3, <2>1 DEF Both
  <1>5. /\ was'.people = was.people \cup {owners[id], activeRenter(id)}'
        /\ was'.active = was.active \cup {is_active(id)'}
    BY <1>4
  <1>6. CheckShape'
    BY <1>1 DEF CheckShape
  <1>7. AccessRecorded'
    BY <1>1, <1>2, <1>4, <1>5 DEF AccessRecorded
  <1>8. ASSUME NEW one \in always', owners[id] = RENTAL PROVE owners'[id] = RENTAL
    <2>1. one \in AccessHolders(id)
      BY <1>2, <1>8 DEF AccessInv, AccessRecorded
    <2>2. Rented(id)
      BY <1>1, <1>8, <2>1, AccessHolderFacts
    <2> QED
      BY <1>1, <1>8, <2>2, CustodyStep
  <1>9. OwnerAnswer'
    BY <1>1, <1>2, <1>5, <1>8 DEF OwnerAnswer, Has, Got, AccessInv
  <1>10. ActiveAnswer' /\ RenterAnswer'
    BY <1>1, <1>2, <1>5 DEF ActiveAnswer, RenterAnswer, Has, Got, AccessInv
  <1> QED
    BY <1>6, <1>7, <1>9, <1>10 DEF AccessInv

(* The verdict names whoever every answer points to. *)
LEMMA AccessConcludes ==
  ASSUME RentalBooks, CheckShape, AccessInv, check.by = "access", Verdict
  PROVE  VerdictHeld' /\ check'.verdict.advice = "none"
  <1> DEFINE verdict == AccessVerdict
             owner == Got("owner")
  <1>1. check' = [check EXCEPT !.verdict = verdict] /\ Has(Asked) /\ UNCHANGED <<was, always>>
    BY DEF Verdict
  <1>2. check' = [by |-> check.by, id |-> check.id, got |-> check.got,
                  verdict |-> verdict]
    BY <1>1 DEF CheckShape
  <1>3. check'.verdict = verdict
    BY <1>2
  <1>4. Has({"owner"}) /\ Has({"active"}) /\ Has({"owner", "active"})
    BY <1>1 DEF Has, Asked, FirstReads
  <1>5. \A one \in always : one # ZERO /\ one # RENTAL
    BY AccessHolderFacts DEF CheckShape, AccessInv, AccessRecorded
  <1>6. /\ owner \in was.people /\ Got("active") \in was.active /\ Got("active") \in BOOLEAN
        /\ \A one \in always : Got("active") /\ owner \in {RENTAL, one}
    BY <1>4 DEF AccessInv, OwnerAnswer, ActiveAnswer
  <1>7. ZERO # RENTAL
    BY RentalConstants
  <1>8. /\ verdict.advice = "none"
        /\ \A one \in always : verdict.grants = one
        /\ verdict.grants # ZERO => /\ verdict.grants # RENTAL
                                    /\ verdict.grants \in was.people /\ TRUE \in was.active
    <2>1. CASE owner = ZERO \/ ~Got("active")
      <3>1. verdict.advice = "none" /\ verdict.grants = ZERO
        BY <2>1 DEF AccessVerdict, Denied
      <3>2. always = {}
        BY <1>5, <1>6, <1>7, <2>1
      <3> QED
        BY <3>1, <3>2
    <2>2. CASE owner # ZERO /\ Got("active") /\ InCustody
      <3>1. verdict.advice = "none" /\ verdict.grants = Got("renter")
        BY <2>2 DEF AccessVerdict, Grants
      <3>2. Has({"renter"})
        BY <1>1, <1>4, <2>2 DEF Has, Asked, AsksRenter
      <3> QED
        BY <1>6, <2>2, <3>1, <3>2 DEF AccessInv, RenterAnswer
    <2>3. CASE owner # ZERO /\ Got("active") /\ ~InCustody
      <3>1. verdict.advice = "none" /\ verdict.grants = owner
        BY <2>3 DEF AccessVerdict, Grants
      <3>2. owner # RENTAL
        BY <1>4, <2>3 DEF InCustody
      <3> QED
        BY <1>6, <2>3, <3>1, <3>2
    <2> QED
      BY <2>1, <2>2, <2>3
  <1> HIDE DEF verdict
  <1> QED
    BY <1>1, <1>3, <1>8 DEF VerdictHeld, VerdictShown

-----------------------------------------------------------------------------
(* The oracle.  A pass that had time left when its expiry was read and has been there
   ever since has the expiry that was read.                                  *)

OracleRecorded ==
  /\ was = [issued |-> was.issued, exists |-> was.exists, timeLeft |-> was.timeLeft]
  /\ IF owners[check.id] = ZERO THEN FALSE \in was.exists ELSE TRUE \in was.exists
  /\ IF expiries[check.id] > now THEN TRUE \in was.timeLeft
                                 ELSE FALSE \in was.timeLeft \/ FALSE \in was.issued

ExistsAnswer ==
  Has({"owner"}) =>
    IF Got("owner") = ZERO THEN FALSE \in was.exists ELSE TRUE \in was.exists

ExpiryAnswer ==
  Has({"expiry"}) =>
    /\ Got("expiry") \in Nat
    /\ Got("expiry") > now => TRUE \in was.timeLeft
    /\ \/ FALSE \in was.timeLeft \/ FALSE \in was.issued
       \/ Got("expiry") = expiries[check.id]

(* A pass with time left has been issued. *)
TimeIsLeftOnIssued == \A i \in Tokens : expiries[i] > now => i < next_token_id

LEMMA TimeLeftOnIssued == CoreInv => TimeIsLeftOnIssued
  <1> SUFFICES ASSUME CoreInv, NEW i \in Tokens
               PROVE  expiries[i] > now => i < next_token_id
    BY DEF TimeIsLeftOnIssued
  <1>1. /\ next_token_id \in Nat /\ i \in Nat /\ now \in Nat /\ expiries[i] \in Nat
    BY ConstantFacts DEF CoreInv, TypeOK, ChainTypeOK
  <1> QED
    BY <1>1 DEF CoreInv, FreshIdsBlank

LEMMA Told ==
  ASSUME NEW b \in BOOLEAN
  PROVE  IF b THEN TRUE \in {b} ELSE FALSE \in {b}
  <1>1. CASE b = TRUE
    BY <1>1
  <1>2. CASE b = FALSE
    BY <1>2
  <1> QED
    BY <1>1, <1>2

OracleInv == OracleRecorded /\ ExistsAnswer /\ ExpiryAnswer

(* No step of anybody moves the end of a pass that has one, but to burn it. *)
LEMMA WindowKept ==
  ASSUME LiquidInv, [LiquidNext]_systemVars, NEW i \in Tokens, expiries[i] > 0
  PROVE  expiries'[i] \in {expiries[i], 0}
  <1>1. /\ CoreInv /\ i \in Nat /\ next_token_id \in Nat /\ expiries[i] \in Nat
    BY ConstantFacts DEF LiquidInv, MarketInv, CoreInv, TypeOK, ChainTypeOK
  <1>2. i \in 0 .. next_token_id - 1
    BY <1>1 DEF CoreInv, FreshIdsBlank
  <1>3. CASE [Next]_coreVars
    <2>1. CASE UNCHANGED coreVars
      BY <2>1 DEF coreVars, tokenVars
    <2>2. CASE ~UNCHANGED coreVars
      <3>1. TermsKept(i)
        BY <1>1, <1>2, <1>3, <2>2, StepKeepsTerms
      <3> QED
        BY <3>1 DEF TermsKept
    <2> QED
      BY <2>1, <2>2
  <1>4. CASE UNCHANGED expiries
    BY <1>4
  <1>5. CASE [RentalNext]_rentalVars
    <2>1. CASE UNCHANGED rentalVars
      BY <1>4, <2>1 DEF rentalVars, coreVars, tokenVars
    <2>2. CASE RentalTick
      BY <1>3, <2>2 DEF RentalTick, Next
    <2>3. ASSUME NEW c \in RentalUsers, IssueStep(c) \/ HolderStep(c)
          PROVE  expiries'[i] \in {expiries[i], 0}
      BY <1>3, <2>3, RentalConstants DEF Next
    <2>4. ASSUME NEW c \in RentalUsers, RentalStep(c)
          PROVE  UNCHANGED expiries
      BY <2>4
      DEF RentalStep, OpenStream, SetRate, Reclaim, StartRent, Settle, MovePass, coreVars,
          tokenVars
    <2> QED
      BY <1>4, <1>5, <2>1, <2>2, <2>3, <2>4 DEF RentalNext
  <1> QED
    BY <1>4, <1>5, LiquidStepKinds DEF tokenVars, Buy, MovePass

LEMMA TimeGoesOn ==
  ASSUME LiquidInv, [LiquidNext]_systemVars
  PROVE  now \in Nat /\ now' \in Nat /\ now' >= now
  <1>1. now \in Nat
    BY DEF LiquidInv, MarketInv, CoreInv, TypeOK, ChainTypeOK
  <1>2. CASE Tick
    BY <1>1, <1>2 DEF Tick, TimePasses
  <1>3. ASSUME NEW c \in Users, IssueStep(c) PROVE UNCHANGED now
    BY <1>3 DEF IssueStep, Mint, BuyPass
  <1>4. ASSUME NEW c \in Users, HolderStep(c) PROVE UNCHANGED now
    BY <1>4 DEF HolderStep, Split, Bundle, TransferPass
  <1>5. ASSUME NEW c \in Users, MarketStep(c) PROVE UNCHANGED now
    BY <1>5 DEF MarketStep, SetEscrow, List, Unlist, Buy, coreVars
  <1>6. ASSUME NEW c \in Users, EscrowStep(c) \/ RentalStep(c) PROVE UNCHANGED now
    BY <1>6 DEF EscrowStep, Withdraw, coreVars, RentalStep, OpenStream, SetRate, Reclaim,
                StartRent, Settle
  <1>7. UNCHANGED systemVars => UNCHANGED now
    BY DEF systemVars, vars, coreVars
  <1>8. Tick \/ UNCHANGED now
    BY <1>3, <1>4, <1>5, <1>6, <1>7 DEF LiquidNext, MarketNext, CoreStep
  <1> QED
    BY <1>1, <1>2, <1>8

LEMMA OracleBegins ==
  ASSUME LiquidInv, NEW id \in Tokens,
         check' = Check("oracle", id, Open), was' = Facts("oracle", id),
         UNCHANGED systemVars
  PROVE  (CheckShape /\ OracleInv)'
  <1> DEFINE exists == owners[id] # ZERO
             issued == id < next_token_id
             left == IF issued THEN {expiries[id] > now} ELSE {}
  <1>0. /\ IF owners[id] = ZERO THEN exists = FALSE ELSE exists = TRUE
        /\ IF expiries[id] > now THEN TRUE \in left ELSE FALSE \in left \/ issued = FALSE
    <2>1. IF owners[id] = ZERO THEN exists = FALSE ELSE exists = TRUE
      OBVIOUS
    <2>2. expiries[id] > now => issued
      BY TimeLeftOnIssued DEF LiquidInv, MarketInv, TimeIsLeftOnIssued
    <2>3. CASE issued
      <3> DEFINE running == expiries[id] > now
      <3>1. left = {running}
        BY <2>3
      <3>2. running \in BOOLEAN
        OBVIOUS
      <3> HIDE DEF running
      <3>3. IF running THEN TRUE \in {running} ELSE FALSE \in {running}
        BY <3>2, Told
      <3>4. IF running THEN TRUE \in left ELSE FALSE \in left
        BY <3>1, <3>3
      <3> QED
        BY <2>1, <3>4 DEF running
    <2>4. CASE ~issued
      BY <2>1, <2>2, <2>4
    <2> QED
      BY <2>3, <2>4
  <1>1. /\ check' = [by |-> "oracle", id |-> id, got |-> [r \in {} |-> 0],
                     verdict |-> Open]
        /\ was' = [issued |-> {issued}, exists |-> {exists}, timeLeft |-> left]
    BY DEF Check, Facts
  <1> HIDE DEF exists, issued, left
  <1>2. /\ check'.id = id /\ check'.by = "oracle" /\ DOMAIN check'.got = {}
        /\ was'.exists = {exists} /\ was'.issued = {issued} /\ was'.timeLeft = left
    BY <1>1
  <1>3. UNCHANGED <<owners, expiries, now>>
    BY DEF systemVars, vars, coreVars, tokenVars
  <1>4. CheckShape'
    BY <1>1, <1>2 DEF CheckShape
  <1>5. OracleRecorded'
    BY <1>0, <1>1, <1>2, <1>3 DEF OracleRecorded
  <1>6. (ExistsAnswer /\ ExpiryAnswer)'
    BY <1>2 DEF ExistsAnswer, ExpiryAnswer, Has
  <1> QED
    BY <1>4, <1>5, <1>6 DEF OracleInv

LEMMA OracleReads ==
  ASSUME LiquidInv, CheckShape, OracleInv, check.by = "oracle",
         NEW read \in {"owner", "active", "expiry", "renter"}, Read(read)
  PROVE  (CheckShape /\ OracleInv)'
  <1> DEFINE answers == [r \in DOMAIN check.got \cup {read} |->
                           IF r = read THEN Reply(read) ELSE Got(r)]
             id == check.id
  <1>1. /\ check' = [check EXCEPT !.got = answers]
        /\ UNCHANGED <<systemVars, was, always>>
        /\ read \in {"owner", "expiry"}
    BY DEF Read, Asked, AsksRenter, FirstReads
  <1>2. /\ DOMAIN answers = DOMAIN check.got \cup {read} /\ answers[read] = Reply(read)
        /\ \A r \in DOMAIN check.got : r # read => answers[r] = Got(r)
    OBVIOUS
  <1> HIDE DEF answers
  <1>3. check' = [by |-> check.by, id |-> check.id, got |-> answers,
                  verdict |-> check.verdict]
    BY <1>1 DEF CheckShape
  <1>4. check'.id = id /\ check'.by = check.by /\ check'.got = answers
    BY <1>3
  <1>5. CheckShape'
    BY <1>3, <1>4 DEF CheckShape
  <1>6. /\ UNCHANGED <<owners, expiries, now>> /\ was' = was
        /\ expiries[id] \in Nat /\ now \in Nat
    BY <1>1 DEF systemVars, vars, coreVars, tokenVars, LiquidInv, MarketInv, CoreInv, TypeOK,
                ChainTypeOK, CheckShape
  <1>7. OracleRecorded'
    BY <1>4, <1>6 DEF OracleInv, OracleRecorded
  <1>8. ExistsAnswer'
    <2>1. CASE read = "owner"
      BY <1>2, <1>4, <1>6, <2>1 DEF ExistsAnswer, Reply, Got, OracleInv, OracleRecorded
    <2>2. CASE read # "owner"
      BY <1>2, <1>4, <1>6, <2>2 DEF ExistsAnswer, Has, Got, OracleInv
    <2> QED
      BY <2>1, <2>2
  <1>9. ExpiryAnswer'
    <2>1. CASE read = "expiry"
      <3>1. answers["expiry"] = expiries[id]
        BY <1>2, <2>1 DEF Reply
      <3>2. expiries[id] > now => TRUE \in was.timeLeft
        BY DEF OracleInv, OracleRecorded
      <3> QED
        BY <1>4, <1>6, <3>1, <3>2 DEF ExpiryAnswer, Got
    <2>2. CASE read # "expiry"
      BY <1>2, <1>4, <1>6, <2>2 DEF ExpiryAnswer, Has, Got, OracleInv
    <2> QED
      BY <2>1, <2>2
  <1> QED
    BY <1>5, <1>7, <1>8, <1>9 DEF OracleInv

LEMMA OracleWatched ==
  ASSUME LiquidInv, LiquidInv', [LiquidNext]_systemVars, CheckShape, OracleInv,
         check.by = "oracle",
         CheckIsOpen, UNCHANGED check, Witnessed
  PROVE  (CheckShape /\ OracleInv)'
  <1> DEFINE id == check.id
             exists == owners'[id] # ZERO
             issued == id < next_token_id'
             left == IF issued THEN {expiries'[id] > now'} ELSE {}
  <1>1. id \in Tokens /\ check' = check /\ CheckShape'
    BY DEF CheckShape
  <1>0. /\ IF owners'[id] = ZERO THEN exists = FALSE ELSE exists = TRUE
        /\ IF expiries'[id] > now' THEN TRUE \in left ELSE FALSE \in left \/ issued = FALSE
    <2>1. IF owners'[id] = ZERO THEN exists = FALSE ELSE exists = TRUE
      OBVIOUS
    <2>2. expiries'[id] > now' => issued
      <3>1. CoreInv'
        BY DEF LiquidInv, MarketInv
      <3>2. TimeIsLeftOnIssued'
        BY <3>1, TimeLeftOnIssued, PTL
      <3> QED
        BY <1>1, <3>2 DEF TimeIsLeftOnIssued
    <2>3. CASE issued
      <3> DEFINE running == expiries'[id] > now'
      <3>1. left = {running}
        BY <2>3
      <3>2. running \in BOOLEAN
        OBVIOUS
      <3> HIDE DEF running
      <3>3. IF running THEN TRUE \in {running} ELSE FALSE \in {running}
        BY <3>2, Told
      <3>4. IF running THEN TRUE \in left ELSE FALSE \in left
        BY <3>1, <3>3
      <3> QED
        BY <2>1, <3>4 DEF running
    <2>4. CASE ~issued
      BY <2>1, <2>2, <2>4
    <2> QED
      BY <2>3, <2>4
  <1>2. was' = Both(was, Facts("oracle", id)')
    BY DEF Witnessed, CheckIsOpen
  <1>3. Facts("oracle", id)' = [issued |-> {issued}, exists |-> {exists}, timeLeft |-> left]
    BY <1>1 DEF Facts
  <1> HIDE DEF exists, issued, left
  <1>4. was' = [issued |-> was.issued \cup {issued}, exists |-> was.exists \cup {exists},
                timeLeft |-> was.timeLeft \cup left]
    <2>1. was = [issued |-> was.issued, exists |-> was.exists, timeLeft |-> was.timeLeft]
      BY DEF OracleInv, OracleRecorded
    <2>2. DOMAIN was = {"issued", "exists", "timeLeft"}
      BY <2>1
    <2> DEFINE facts == Facts("oracle", id)'
    <2>3. was' = [f \in {"issued", "exists", "timeLeft"} |-> was[f] \cup facts[f]]
      BY <1>2, <2>2 DEF Both
    <2>4. /\ facts["issued"] = {issued} /\ facts["exists"] = {exists}
          /\ facts["timeLeft"] = left
      BY <1>3
    <2> HIDE DEF facts
    <2> QED
      BY <2>3, <2>4
  <1>5. /\ was'.exists = was.exists \cup {exists}
        /\ was'.issued = was.issued \cup {issued}
        /\ was'.timeLeft = was.timeLeft \cup left
    BY <1>4
  <1>6. OracleRecorded'
    BY <1>0, <1>1, <1>4, <1>5 DEF OracleRecorded
  <1>7. ExistsAnswer'
    BY <1>1, <1>5 DEF ExistsAnswer, Has, Got, OracleInv
  <1>8. expiries[id] \in Nat /\ now \in Nat /\ now' \in Nat /\ now' >= now
    BY <1>1, TimeGoesOn DEF LiquidInv, MarketInv, CoreInv, TypeOK
  <1>9. ASSUME FALSE \notin was'.timeLeft, FALSE \notin was'.issued
        PROVE  /\ FALSE \notin was.timeLeft /\ FALSE \notin was.issued
               /\ expiries'[id] = expiries[id]
    <2>1. /\ FALSE \notin was.timeLeft /\ FALSE \notin was.issued
          /\ expiries'[id] > now'
      BY <1>5, <1>6, <1>9 DEF OracleRecorded
    <2>2. expiries[id] > now
      BY <2>1 DEF OracleInv, OracleRecorded
    <2>3. expiries'[id] \in {expiries[id], 0}
      BY <1>1, <1>8, <2>2, WindowKept
    <2>4. expiries'[id] # 0
      BY <1>8, <2>1
    <2> QED
      BY <2>1, <2>3, <2>4
  <1>10. ASSUME Has({"expiry"})'
         PROVE  /\ Got("expiry")' \in Nat
                /\ Got("expiry")' > now' => TRUE \in was'.timeLeft
                /\ \/ FALSE \in was'.timeLeft \/ FALSE \in was'.issued
                   \/ Got("expiry")' = expiries'[id]
    <2>1. /\ Got("expiry")' = Got("expiry") /\ Got("expiry") \in Nat
          /\ Got("expiry") > now => TRUE \in was.timeLeft
          /\ \/ FALSE \in was.timeLeft \/ FALSE \in was.issued
             \/ Got("expiry") = expiries[id]
      BY <1>1, <1>10 DEF ExpiryAnswer, Has, Got, OracleInv
    <2>2. Got("expiry") > now' => Got("expiry") > now
      BY <1>8, <2>1
    <2> QED
      BY <1>5, <1>9, <2>1, <2>2
  <1>11. ExpiryAnswer'
    BY <1>1, <1>10 DEF ExpiryAnswer
  <1> QED
    BY <1>1, <1>6, <1>7, <1>11 DEF OracleInv

(* The advice rests on what was answered, by the oracle's clock at the end. *)
LEMMA OracleConcludes ==
  ASSUME LiquidInv, CheckShape, OracleInv, check.by = "oracle", Verdict
  PROVE  AdviceJustified' /\ ~CheckIsOpen'
  <1>1. PICK idle \in BOOLEAN : check' = [check EXCEPT !.verdict = Advice(idle)]
    BY DEF Verdict
  <1> DEFINE verdict == Advice(idle)
  <1>2. check' = [by |-> check.by, id |-> check.id, got |-> check.got,
                  verdict |-> verdict]
    BY <1>1 DEF CheckShape
  <1>3. check'.verdict = verdict /\ was' = was
    BY <1>2 DEF Verdict
  <1>4. Has({"owner"}) /\ Has({"expiry"})
    BY DEF Verdict, Has, Asked, FirstReads
  <1>5. expiries[check.id] \in Nat /\ now \in Nat
    BY ConstantFacts DEF LiquidInv, MarketInv, CoreInv, TypeOK, ChainTypeOK, CheckShape
  <1>6. /\ Got("expiry") \in Nat
        /\ ~(expiries[check.id] > now) => FALSE \in was.timeLeft \/ FALSE \in was.issued
        /\ IF Got("owner") = ZERO THEN FALSE \in was.exists ELSE TRUE \in was.exists
        /\ Got("expiry") > now => TRUE \in was.timeLeft
        /\ \/ FALSE \in was.timeLeft \/ FALSE \in was.issued
           \/ Got("expiry") = expiries[check.id]
    BY <1>4, <1>5 DEF OracleInv, OracleRecorded, ExistsAnswer, ExpiryAnswer
  <1>7. Got("expiry") <= now => FALSE \in was.timeLeft \/ FALSE \in was.issued
    <2>1. CASE Got("expiry") = expiries[check.id] /\ Got("expiry") <= now
      <3>1. ~(expiries[check.id] > now)
        BY <1>5, <2>1
      <3> QED
        BY <1>6, <3>1
    <2> QED
      BY <1>6, <2>1
  <1>8. \/ verdict.advice = "UNKNOWN_TOKEN" /\ FALSE \in was.exists
        \/ /\ verdict.advice = "EXPIRED" /\ TRUE \in was.exists
           /\ FALSE \in was.timeLeft \/ FALSE \in was.issued
        \/ /\ verdict.advice \in {"RECOMMEND_LIST", "MONITORING"} /\ TRUE \in was.exists
           /\ TRUE \in was.timeLeft
    <2>1. CASE Got("owner") = ZERO
      BY <1>5, <1>6, <2>1 DEF Advice, Advises
    <2>2. CASE Got("owner") # ZERO /\ Got("expiry") <= now
      BY <1>5, <1>6, <1>7, <2>2 DEF Advice, Advises
    <2>3. CASE Got("owner") # ZERO /\ ~(Got("expiry") <= now)
      <3>1. Got("expiry") > now
        BY <1>5, <1>6, <2>3
      <3> QED
        BY <1>6, <2>3, <3>1 DEF Advice, Advises
    <2> QED
      BY <2>1, <2>2, <2>3
  <1> HIDE DEF verdict
  <1>9. ~CheckIsOpen'
    <2>1. Open.advice = "open"
      BY DEF Open
    <2> QED
      BY <1>3, <1>8, <2>1 DEF CheckIsOpen
  <1> QED
    BY <1>3, <1>8, <1>9 DEF AdviceJustified

-----------------------------------------------------------------------------
(* Checks from the outside: begun, stepped and concluded by one client.      *)

(* What there is between the steps of a check, of whatever kind, and what only an
   access check needs custody for. *)
CheckInv ==
  CheckIsOpen => client = "check" /\ CheckShape /\ (check.by = "oracle" => OracleInv)

AccessCheckInv == CheckIsOpen /\ check.by = "access" => AccessInv

LEMMA OpenSaysNothing == CheckIsOpen => VerdictHeld /\ AdviceJustified
  <1>1. Open.advice = "open"
    BY DEF Open
  <1> QED
    BY <1>1 DEF CheckIsOpen, VerdictHeld, VerdictShown, AdviceJustified

LEMMA DeniedAtFirst ==
  CheckInit => ~CheckIsOpen /\ VerdictHeld /\ AdviceJustified
  <1> SUFFICES ASSUME CheckInit PROVE ~CheckIsOpen /\ VerdictHeld /\ AdviceJustified
    OBVIOUS
  <1>1. check.by = "nobody" /\ check.verdict = Denied /\ Denied.advice = "none"
    BY DEF CheckInit, Check, Denied
  <1>2. Open.advice = "open"
    BY DEF Open
  <1> QED
    BY <1>1, <1>2 DEF CheckIsOpen, VerdictHeld, VerdictShown, AdviceJustified

LEMMA ReadFailsEnds ==
  ASSUME CheckShape, ReadFails
  PROVE  ~CheckIsOpen' /\ VerdictHeld' /\ AdviceJustified'
  <1>1. check' = [by |-> check.by, id |-> check.id, got |-> check.got,
                  verdict |-> Advises("failed")]
    BY DEF CheckShape, ReadFails
  <1>2. check'.verdict.advice = "failed"
    BY <1>1 DEF Advises
  <1>3. Open.advice = "open"
    BY DEF Open
  <1> QED
    BY <1>2, <1>3 DEF CheckIsOpen, VerdictHeld, VerdictShown, AdviceJustified

(* A check that is over stays as it is till the next, and nobody else touches one that
   is open. *)
LEMMA CheckStepKinds ==
  ASSUME CheckInv, [ClientsNext]_clientsVars
  PROVE  \/ ~CheckIsOpen /\ UNCHANGED <<check, was, always>>
         \/ CheckIsOpen /\ UNCHANGED clientsVars
         \/ ~CheckIsOpen /\ client' = "check" /\ CheckBegins
         \/ /\ CheckIsOpen /\ client' = "check"
            /\ \/ CheckedChain \/ ReadFails \/ Verdict
               \/ \E read \in {"owner", "active", "expiry", "renter"} : Read(read)
  <1>1. CASE UNCHANGED clientsVars
    BY <1>1 DEF clientsVars, checkVars
  <1>2. CASE ClientOpens
    BY <1>2 DEF ClientOpens, CheckInv, checkVars
  <1>3. CASE client = "check" /\ CheckNext /\ UNCHANGED <<client, panelVars>>
    BY <1>3 DEF CheckNext, CheckedChain, ReadFails, Verdict, Read, CheckIsOpen
  <1>4. CASE client \in {"none", "panel"} /\ UNCHANGED checkVars
    BY <1>4 DEF CheckInv, checkVars
  <1> QED
    BY <1>1, <1>2, <1>3, <1>4 DEF ClientsNext

(* A new check, open from the start. *)
LEMMA BeginsOpen ==
  ASSUME CheckBegins
  PROVE  /\ CheckIsOpen' /\ UNCHANGED systemVars
         /\ \E who \in {"access", "oracle"}, id \in Tokens :
              /\ check' = Check(who, id, Open) /\ check'.by = who
              /\ was' = Facts(who, id) /\ always' = AccessHolders(id)
  BY CheckAssumption DEF CheckBegins, Check, CheckIsOpen

(* What runs beside a check is a step of the contracts. *)
LEMMA CheckedChainKinds == CheckedChain => [LiquidNext]_systemVars
  BY DEF CheckedChain, LiquidNext, MarketNext

LEMMA ReadStaysOpen ==
  ASSUME CheckShape, NEW read, Read(read)
  PROVE  CheckIsOpen' /\ check'.by = check.by /\ CheckShape'
  <1> DEFINE answers == [r \in DOMAIN check.got \cup {read} |->
                           IF r = read THEN Reply(read) ELSE Got(r)]
  <1>1. check' = [check EXCEPT !.got = answers] /\ check.verdict = Open
    BY DEF Read
  <1> HIDE DEF answers
  <1>2. check' = [by |-> check.by, id |-> check.id, got |-> answers,
                  verdict |-> check.verdict]
    BY <1>1 DEF CheckShape
  <1>3. check'.by = check.by /\ check'.id = check.id /\ check'.verdict = Open
    BY <1>1, <1>2
  <1> QED
    BY <1>2, <1>3 DEF CheckIsOpen, CheckShape

(* An access check gives no advice. *)
LEMMA AccessAnswers ==
  ASSUME CheckShape, check.by = "access", Verdict
  PROVE  check'.verdict.advice = "none" /\ ~CheckIsOpen' /\ AdviceJustified'
  <1>1. check' = [check EXCEPT !.verdict = AccessVerdict]
    BY DEF Verdict
  <1>2. check' = [by |-> check.by, id |-> check.id, got |-> check.got,
                  verdict |-> AccessVerdict]
    BY <1>1 DEF CheckShape
  <1>3. AccessVerdict.advice = "none"
    BY DEF AccessVerdict, Denied, Grants
  <1>4. check'.verdict.advice = "none"
    BY <1>2, <1>3
  <1>5. Open.advice = "open"
    BY DEF Open
  <1> QED
    BY <1>4, <1>5 DEF CheckIsOpen, AdviceJustified

(* The verdict of an oracle is an oracle's. *)
LEMMA OracleVerdict ==
  ASSUME CheckShape, check.by = "oracle", Verdict
  PROVE  check'.by = "oracle"
  <1>1. PICK idle \in BOOLEAN : check' = [check EXCEPT !.verdict = Advice(idle)]
    BY DEF Verdict
  <1>2. check' = [by |-> check.by, id |-> check.id, got |-> check.got,
                  verdict |-> Advice(idle)]
    BY <1>1 DEF CheckShape
  <1> QED
    BY <1>2

LEMMA CheckStepInv ==
  ASSUME LiquidInv, LiquidInv', CheckInv, AdviceJustified, [ClientsNext]_clientsVars
  PROVE  CheckInv' /\ AdviceJustified'
  <1>1. CASE ~CheckIsOpen /\ UNCHANGED <<check, was, always>>
    BY <1>1 DEF CheckInv, CheckIsOpen, AdviceJustified
  <1>2. CASE CheckIsOpen /\ UNCHANGED clientsVars
    BY <1>2 DEF CheckInv, CheckIsOpen, AdviceJustified, CheckShape, OracleInv, OracleRecorded,
                ExistsAnswer, ExpiryAnswer, Has, Got, clientsVars, checkVars, systemVars, vars,
                coreVars, tokenVars
  <1>3. CASE ~CheckIsOpen /\ client' = "check" /\ CheckBegins
    <2>1. PICK who \in {"access", "oracle"}, id \in Tokens :
            /\ check' = Check(who, id, Open) /\ check'.by = who
            /\ was' = Facts(who, id)
      BY <1>3, BeginsOpen
    <2>2. CheckIsOpen' /\ UNCHANGED systemVars
      BY <1>3, BeginsOpen
    <2>3. CheckShape'
      BY <2>1 DEF Check, CheckShape
    <2>4. check'.by = "oracle" => OracleInv'
      BY <2>1, <2>2, OracleBegins
    <2>5. AdviceJustified'
      BY <2>2, OpenSaysNothing, PTL
    <2> QED
      BY <1>3, <2>3, <2>4, <2>5 DEF CheckInv
  <1>4. CASE CheckIsOpen /\ client' = "check" /\ CheckedChain
    <2>1. CheckShape /\ UNCHANGED check /\ Witnessed /\ [LiquidNext]_systemVars
      BY <1>4, CheckedChainKinds DEF CheckInv, CheckedChain
    <2>2. CheckShape' /\ (check'.by = "oracle" => OracleInv')
      BY <1>4, <2>1, OracleWatched DEF CheckInv, CheckShape
    <2>3. AdviceJustified'
      <3>1. CheckIsOpen'
        BY <1>4, <2>1 DEF CheckIsOpen
      <3> QED
        BY <3>1, OpenSaysNothing, PTL
    <2> QED
      BY <1>4, <2>2, <2>3 DEF CheckInv
  <1>5. CASE CheckIsOpen /\ ReadFails
    BY <1>5, ReadFailsEnds DEF CheckInv
  <1>6. CASE CheckIsOpen /\ Verdict
    <2>1. CheckShape /\ (check.by = "oracle" => OracleInv)
      BY <1>6 DEF CheckInv
    <2>2. CASE check.by = "oracle"
      BY <1>6, <2>1, <2>2, OracleConcludes DEF CheckInv
    <2>3. CASE check.by = "access"
      BY <1>6, <2>1, <2>3, AccessAnswers DEF CheckInv
    <2> QED
      BY <2>1, <2>2, <2>3 DEF CheckShape
  <1>7. ASSUME CheckIsOpen, client' = "check",
               NEW read \in {"owner", "active", "expiry", "renter"}, Read(read)
        PROVE  CheckInv' /\ AdviceJustified'
    <2>1. CheckShape /\ (check.by = "oracle" => OracleInv)
      BY <1>7 DEF CheckInv
    <2>2. CheckIsOpen' /\ check'.by = check.by /\ CheckShape'
      BY <1>7, <2>1, ReadStaysOpen
    <2>3. AdviceJustified'
      BY <2>2, OpenSaysNothing, PTL
    <2>4. check.by = "oracle" => OracleInv'
      BY <1>7, <2>1, OracleReads
    <2> QED
      BY <1>7, <2>2, <2>3, <2>4 DEF CheckInv
  <1> QED
    BY <1>1, <1>2, <1>3, <1>4, <1>5, <1>6, <1>7, CheckStepKinds

(* AdviceJustified for every value of the constants, and with whatever escrow: what the
   oracle says of a pass issued before it was asked was so while it looked. *)
THEOREM AdviceRestsOnAnswers == ClientsSpec => []AdviceJustified
  <1>1. ClientsSpec => []LiquidInv
    BY ClientsOnlyTransact, LiquidInvariant, PTL
  <1>2. ClientsInit => CheckInv /\ AdviceJustified
    BY DeniedAtFirst DEF ClientsInit, CheckInv
  <1>3. LiquidInv /\ LiquidInv' /\ CheckInv /\ AdviceJustified /\ [ClientsNext]_clientsVars
          => CheckInv' /\ AdviceJustified'
    BY CheckStepInv
  <1> QED
    BY <1>1, <1>2, <1>3, PTL DEF ClientsSpec

(* An access check.  Custody is what it needs: were a rented pass sold to its renter, who
   then settled, those who ask would find it neither rented nor theirs. *)
LEMMA AccessStepInv ==
  ASSUME LiquidInv, LiquidInv', PaidDirectly, CheckInv, AccessCheckInv, VerdictHeld,
         [ClientsNext]_clientsVars
  PROVE  AccessCheckInv' /\ VerdictHeld'
  <1>1. CASE ~CheckIsOpen /\ UNCHANGED <<check, was, always>>
    BY <1>1 DEF AccessCheckInv, CheckIsOpen, VerdictHeld, VerdictShown
  <1>2. CASE CheckIsOpen /\ UNCHANGED clientsVars
    BY <1>2 DEF AccessCheckInv, CheckIsOpen, VerdictHeld, VerdictShown, AccessInv,
                AccessRecorded, OwnerAnswer, ActiveAnswer, RenterAnswer, Has, Got,
                AccessHolders, is_active, activeRenter, owed, Rented,
                clientsVars, checkVars, systemVars, vars, coreVars, tokenVars
  <1>3. CASE ~CheckIsOpen /\ client' = "check" /\ CheckBegins
    <2>1. PICK who \in {"access", "oracle"}, id \in Tokens :
            /\ check' = Check(who, id, Open) /\ check'.by = who
            /\ was' = Facts(who, id) /\ always' = AccessHolders(id)
      BY <1>3, BeginsOpen
    <2>2. CheckIsOpen' /\ UNCHANGED systemVars
      BY <1>3, BeginsOpen
    <2>3. VerdictHeld'
      BY <2>2, OpenSaysNothing, PTL
    <2>4. who = "access" => AccessInv'
      BY <2>1, <2>2, AccessBegins
    <2> QED
      BY <2>1, <2>3, <2>4 DEF AccessCheckInv
  <1>4. CASE CheckIsOpen /\ client' = "check" /\ CheckedChain
    <2>1. CheckShape /\ UNCHANGED check /\ Witnessed /\ [LiquidNext]_systemVars
      BY <1>4, CheckedChainKinds DEF CheckInv, CheckedChain
    <2>2. CheckIsOpen' /\ check'.by = check.by
      BY <1>4, <2>1 DEF CheckIsOpen
    <2>3. VerdictHeld'
      BY <2>2, OpenSaysNothing, PTL
    <2>4. check.by = "access" => AccessInv'
      BY <1>4, <2>1, AccessWatched DEF AccessCheckInv
    <2> QED
      BY <2>2, <2>3, <2>4 DEF AccessCheckInv
  <1>5. CASE CheckIsOpen /\ ReadFails
    BY <1>5, ReadFailsEnds DEF CheckInv, AccessCheckInv
  <1>6. CASE CheckIsOpen /\ Verdict
    <2>1. CheckShape
      BY <1>6 DEF CheckInv
    <2>2. CASE check.by = "access"
      <3>1. VerdictHeld'
        BY <1>6, <2>1, <2>2, AccessConcludes DEF AccessCheckInv, LiquidInv
      <3>2. ~CheckIsOpen'
        BY <1>6, <2>1, <2>2, AccessAnswers
      <3> QED
        BY <3>1, <3>2 DEF AccessCheckInv
    <2>3. CASE check.by = "oracle"
      <3>1. check'.by = "oracle"
        BY <1>6, <2>1, <2>3, OracleVerdict
      <3> QED
        BY <3>1 DEF AccessCheckInv, VerdictHeld, VerdictShown
    <2> QED
      BY <2>1, <2>2, <2>3 DEF CheckShape
  <1>7. ASSUME CheckIsOpen, NEW read \in {"owner", "active", "expiry", "renter"}, Read(read)
        PROVE  AccessCheckInv' /\ VerdictHeld'
    <2>1. CheckShape /\ RentalBooks
      BY <1>7 DEF CheckInv, LiquidInv
    <2>2. CheckIsOpen' /\ check'.by = check.by
      BY <1>7, <2>1, ReadStaysOpen
    <2>3. VerdictHeld'
      BY <2>2, OpenSaysNothing, PTL
    <2>4. check.by = "access" => AccessInv'
      BY <1>7, <2>1, AccessReads DEF AccessCheckInv
    <2> QED
      BY <2>2, <2>3, <2>4 DEF AccessCheckInv
  <1> QED
    BY <1>1, <1>2, <1>3, <1>4, <1>5, <1>6, <1>7, CheckStepKinds

(* VerdictHeld for every value of the constants, while sales are paid directly: whoever
   has had access all through a check is the one it names, and whoever it names has had a
   claim to it while it ran, whatever is sent between its reads and in whatever order they
   are answered. *)
THEOREM VerdictsHold == ClientsSpec /\ []PaidDirectly => []VerdictHeld
  <1>1. ClientsSpec => []LiquidInv
    BY ClientsOnlyTransact, LiquidInvariant, PTL
  <1>2. ClientsInit => CheckInv /\ AdviceJustified /\ AccessCheckInv /\ VerdictHeld
    BY DeniedAtFirst DEF ClientsInit, CheckInv, AccessCheckInv
  <1>3. LiquidInv /\ LiquidInv' /\ CheckInv /\ AdviceJustified /\ [ClientsNext]_clientsVars
          => CheckInv' /\ AdviceJustified'
    BY CheckStepInv
  <1>4. LiquidInv /\ LiquidInv' /\ PaidDirectly /\ CheckInv /\ AccessCheckInv /\ VerdictHeld
          /\ [ClientsNext]_clientsVars
          => AccessCheckInv' /\ VerdictHeld'
    BY AccessStepInv
  <1> QED
    BY <1>1, <1>2, <1>3, <1>4, PTL DEF ClientsSpec
=============================================================================
