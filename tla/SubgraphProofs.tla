---------------------------- MODULE SubgraphProofs ----------------------------
(***************************************************************************)
(* Theorems about the indexer, for every number of passes and people and   *)
(* however far it lags.                                                    *)
(*                                                                         *)
(* What an event has told of a pass stands until a later one tells of it   *)
(* again.  So the index follows the contracts: for each thing that it      *)
(* keeps of a pass, the last event on its way that tells of it tells what  *)
(* the contracts hold, and when none is on its way the row says so.        *)
(***************************************************************************)
EXTENDS Subgraph, MarketplaceProofs

-----------------------------------------------------------------------------
(* The events on their way.                                                *)

Introduces == {"PassPurchased", "Minted"}
PassEvents == Introduces \cup {"PassTransferred", "Listed", "Unlisted", "Bought"}

Events ==
  [event : {"PlanCreated"}, planId : {0}, issuer : {Admin}, price : {PlanPrice},
   durationSeconds : {PlanDuration}]
  \cup [event : {"PlanOpenSet"}, planId : {0}, open : BOOLEAN]
  \cup [event : {"PassPurchased"}, tokenId : Tokens, planId : {0}, buyer : Holders,
        price : {PlanPrice}, expiry : Nat]
  \cup [event : {"Minted"}, tokenId : Tokens, to : Holders, issuer : {Admin}, expiry : Nat]
  \cup [event : {"PassTransferred"}, to : Holders, tokenId : Tokens]
  \cup [event : {"Listed"}, tokenId : Tokens, price : Nat \ {0}]
  \cup [event : {"Unlisted"}, tokenId : Tokens]
  \cup [event : {"Bought"}, tokenId : Tokens, buyer : Holders, price : Nat, royalty : Nat]

(* What an event tells of the owner, the ask and the openness of a plan. *)
TheOwner(e) == IF e.event \in {"Minted", "PassTransferred"} THEN e.to ELSE e.buyer
TheAsk(e) == IF e.event = "Listed" THEN e.price ELSE 0
TheOpen(e) == IF e.event = "PlanOpenSet" THEN e.open ELSE TRUE

About(i) == { e \in Events : e.event \in PassEvents /\ e.tokenId = i }
Announces(i) == { e \in Events : e.event \in Introduces /\ e.tokenId = i }
OwnerTold(i) ==
  { e \in Events : /\ e.event \in Introduces \cup {"PassTransferred", "Bought"}
                   /\ e.tokenId = i }
AskTold(i) ==
  { e \in Events : /\ e.event \in Introduces \cup {"Listed", "Unlisted", "Bought"}
                   /\ e.tokenId = i }
OpenTold == { e \in Events : e.event \in {"PlanCreated", "PlanOpenSet"} }

OwnerTrue(i) == { e \in OwnerTold(i) : TheOwner(e) = owners[i] }
AskTrue(i) == { e \in AskTold(i) : TheAsk(e) = listings[i].openingPrice }
OpenTrue == { e \in OpenTold : TheOpen(e) = plan_open[0] }

NoneOf(p, E) == \A k \in 1 .. Len(p) : p[k] \notin E

(* The last of the events E in p is one of F. *)
LastIn(p, E, F) ==
  \A k \in 1 .. Len(p) :
    p[k] \in E /\ (\A m \in 1 .. Len(p) : m > k => p[m] \notin E) => p[k] \in F

-----------------------------------------------------------------------------
(* Sequences of events.                                                    *)

LEMMA TailFacts ==
  ASSUME NEW p \in Seq(Events), p # << >>
  PROVE  /\ Tail(p) \in Seq(Events) /\ Len(p) \in Nat /\ Len(p) >= 1
         /\ Len(Tail(p)) = Len(p) - 1 /\ Head(p) = p[1] /\ Head(p) \in Events
         /\ \A k \in 1 .. Len(p) - 1 : Tail(p)[k] = p[k + 1]
  <1>1. Len(p) \in Nat /\ Len(p) >= 1
    BY EmptySeq
  <1> QED
    BY <1>1, HeadTailProperties

LEMMA ConcatFacts ==
  ASSUME NEW p \in Seq(Events), NEW q \in Seq(Events)
  PROVE  /\ p \o q \in Seq(Events) /\ Len(p) \in Nat /\ Len(q) \in Nat
         /\ Len(p \o q) = Len(p) + Len(q)
         /\ \A k \in 1 .. Len(p) : (p \o q)[k] = p[k]
         /\ \A k \in 1 .. Len(q) : (p \o q)[Len(p) + k] = q[k]
  OBVIOUS

(* An event of the two together is one of the first or one of the second. *)
LEMMA ConcatEvent ==
  ASSUME NEW p \in Seq(Events), NEW q \in Seq(Events), NEW k \in 1 .. Len(p \o q)
  PROVE  \/ k \in 1 .. Len(p) /\ (p \o q)[k] = p[k]
         \/ k - Len(p) \in 1 .. Len(q) /\ (p \o q)[k] = q[k - Len(p)]
  <1> DEFINE r == p \o q
  <1>1. /\ Len(p) \in Nat /\ Len(q) \in Nat /\ Len(r) = Len(p) + Len(q)
        /\ \A j \in 1 .. Len(p) : r[j] = p[j]
        /\ \A j \in 1 .. Len(q) : r[Len(p) + j] = q[j]
    BY ConcatFacts
  <1> HIDE DEF r
  <1>2. CASE k <= Len(p)
    BY <1>1, <1>2 DEF r
  <1>3. CASE ~(k <= Len(p))
    <2>1. k - Len(p) \in 1 .. Len(q) /\ Len(p) + (k - Len(p)) = k
      BY <1>1, <1>3 DEF r
    <2>2. r[k] = q[k - Len(p)]
      BY <1>1, <2>1
    <2> QED
      BY <2>1, <2>2 DEF r
  <1> QED
    BY <1>2, <1>3

(* The oldest event is told: what is still to be told of E is last in F as before, and
   if nothing is, and the oldest was of E, that was in F. *)
LEMMA TailLast ==
  ASSUME NEW p \in Seq(Events), p # << >>, NEW E, NEW F, LastIn(p, E, F)
  PROVE  /\ LastIn(Tail(p), E, F)
         /\ NoneOf(Tail(p), E) /\ Head(p) \in E => Head(p) \in F
         /\ NoneOf(Tail(p), E) /\ Head(p) \notin E => NoneOf(p, E)
  <1> DEFINE t == Tail(p)
             n == Len(p)
  <1>1. /\ n \in Nat /\ n >= 1 /\ Len(t) = n - 1 /\ Head(p) = p[1]
        /\ \A k \in 1 .. n - 1 : t[k] = p[k + 1]
    BY TailFacts
  <1> HIDE DEF t, n
  <1>2. \A m \in 1 .. n : m = 1 \/ (m - 1 \in 1 .. n - 1 /\ p[m] = t[m - 1])
    <2> SUFFICES ASSUME NEW m \in 1 .. n, m # 1
                 PROVE  m - 1 \in 1 .. n - 1 /\ p[m] = t[m - 1]
      OBVIOUS
    <2>1. m - 1 \in 1 .. n - 1 /\ (m - 1) + 1 = m
      BY <1>1
    <2> QED
      BY <1>1, <2>1
  <1>3. LastIn(t, E, F)
    <2> SUFFICES ASSUME NEW k \in 1 .. n - 1, t[k] \in E,
                        \A m \in 1 .. n - 1 : m > k => t[m] \notin E
                 PROVE  t[k] \in F
      BY <1>1 DEF LastIn
    <2>1. k + 1 \in 1 .. n /\ p[k + 1] = t[k]
      BY <1>1
    <2>2. ASSUME NEW m \in 1 .. n, m > k + 1 PROVE p[m] \notin E
      <3>1. m - 1 \in 1 .. n - 1 /\ p[m] = t[m - 1] /\ m - 1 > k
        BY <1>1, <1>2, <2>2
      <3> QED
        BY <3>1
    <2> QED
      BY <2>1, <2>2 DEF LastIn, n
  <1>4. ASSUME NoneOf(t, E) PROVE \A m \in 1 .. n : m # 1 => p[m] \notin E
    BY <1>1, <1>2, <1>4 DEF NoneOf
  <1>5. NoneOf(t, E) /\ p[1] \in E => p[1] \in F
    <2>1. 1 \in 1 .. n
      BY <1>1
    <2>2. \A m \in 1 .. n : m > 1 => m # 1
      BY <1>1
    <2> QED
      BY <1>4, <2>1, <2>2 DEF LastIn, n
  <1>6. NoneOf(t, E) /\ p[1] \notin E => NoneOf(p, E)
    BY <1>4 DEF NoneOf, n
  <1> QED
    BY <1>1, <1>3, <1>5, <1>6 DEF t

(* Events that have nothing of E leave it as it was. *)
LEMMA ConcatOthers ==
  ASSUME NEW p \in Seq(Events), NEW q \in Seq(Events), NEW E, NoneOf(q, E)
  PROVE  /\ NoneOf(p \o q, E) <=> NoneOf(p, E)
         /\ \A F : LastIn(p, E, F) => LastIn(p \o q, E, F)
  <1> DEFINE r == p \o q
  <1>1. /\ Len(p) \in Nat /\ Len(q) \in Nat /\ Len(r) = Len(p) + Len(q)
        /\ \A k \in 1 .. Len(p) : r[k] = p[k]
        /\ \A k \in 1 .. Len(q) : r[Len(p) + k] = q[k]
    BY ConcatFacts
  <1> HIDE DEF r
  <1>2. ASSUME NEW m \in 1 .. Len(r), ~(m <= Len(p)) PROVE r[m] \notin E
    <2>1. m - Len(p) \in 1 .. Len(q) /\ Len(p) + (m - Len(p)) = m
      BY <1>1, <1>2
    <2>2. r[m] = q[m - Len(p)]
      BY <1>1, <2>1
    <2> QED
      BY <2>1, <2>2 DEF NoneOf
  <1>3. \A k \in 1 .. Len(p) : k \in 1 .. Len(r)
    BY <1>1
  <1>4. \A k \in 1 .. Len(r) : k <= Len(p) => k \in 1 .. Len(p)
    BY <1>1
  <1>5. NoneOf(r, E) <=> NoneOf(p, E)
    BY <1>1, <1>2, <1>3, <1>4 DEF NoneOf
  <1>6. ASSUME NEW F, LastIn(p, E, F) PROVE LastIn(r, E, F)
    <2> SUFFICES ASSUME NEW k \in 1 .. Len(r), r[k] \in E,
                        \A m \in 1 .. Len(r) : m > k => r[m] \notin E
                 PROVE  r[k] \in F
      BY DEF LastIn
    <2>1. k \in 1 .. Len(p) /\ r[k] = p[k]
      BY <1>1, <1>2, <1>4
    <2>2. \A m \in 1 .. Len(p) : m > k => p[m] \notin E
      BY <1>1, <1>3
    <2> QED
      BY <1>6, <2>1, <2>2 DEF LastIn
  <1> QED
    BY <1>5, <1>6 DEF r

(* Events that tell of E settle what is last of it. *)
LEMMA ConcatLast ==
  ASSUME NEW p \in Seq(Events), NEW q \in Seq(Events), NEW E, NEW F,
         ~NoneOf(q, E), LastIn(q, E, F)
  PROVE  ~NoneOf(p \o q, E) /\ LastIn(p \o q, E, F)
  <1> DEFINE r == p \o q
  <1>1. /\ Len(p) \in Nat /\ Len(q) \in Nat /\ Len(r) = Len(p) + Len(q)
        /\ \A k \in 1 .. Len(q) : r[Len(p) + k] = q[k]
    BY ConcatFacts
  <1> HIDE DEF r
  <1>2. PICK j \in 1 .. Len(q) : q[j] \in E
    BY DEF NoneOf
  <1>3. ASSUME NEW m \in 1 .. Len(q) PROVE Len(p) + m \in 1 .. Len(r) /\ r[Len(p) + m] = q[m]
    BY <1>1
  <1>4. ~NoneOf(r, E)
    BY <1>2, <1>3 DEF NoneOf
  <1>5. LastIn(r, E, F)
    <2> SUFFICES ASSUME NEW k \in 1 .. Len(r), r[k] \in E,
                        \A m \in 1 .. Len(r) : m > k => r[m] \notin E
                 PROVE  r[k] \in F
      BY DEF LastIn
    <2>1. ~(Len(p) + j > k)
      BY <1>2, <1>3
    <2>2. k - Len(p) \in 1 .. Len(q) /\ Len(p) + (k - Len(p)) = k
      BY <1>1, <2>1
    <2>3. r[k] = q[k - Len(p)]
      BY <1>3, <2>2
    <2>4. ASSUME NEW m \in 1 .. Len(q), m > k - Len(p) PROVE q[m] \notin E
      <3>1. Len(p) + m > k
        BY <1>1, <2>4
      <3> QED
        BY <1>3, <3>1
    <2> QED
      BY <2>2, <2>3, <2>4 DEF LastIn
  <1> QED
    BY <1>4, <1>5 DEF r

-----------------------------------------------------------------------------
(* The contracts under the indexer: one issuer with one plan, and no escrow. *)

PlansAsDeployed ==
  /\ next_plan_id = 1
  /\ plan_issuers = [p \in Plans |-> IF p = 0 THEN Admin ELSE ZERO]
  /\ plan_prices[0] = PlanPrice /\ plan_durations[0] = PlanDuration

IssuedByAdmin == \A i \in Tokens : i < next_token_id => issuers[i] = Admin

ContractsInv ==
  MarketInv /\ FreshIdsUnowned /\ PlansAsDeployed /\ IssuedByAdmin /\ escrowYield = ZERO

Transaction == IssuerEmits \/ \E caller \in Users : HolderEmits(caller)

(* A pass issued before a step keeps its terms, and loses its time only for good. *)
TermsOf(i) ==
  /\ issuers'[i] = issuers[i] /\ starts'[i] = starts[i]
  /\ token_plans'[i] = token_plans[i] /\ token_paid'[i] = token_paid[i]
  /\ expiries'[i] = expiries[i] \/ expiries'[i] = 0

LEMMA NumberFacts ==
  MarketInv => /\ next_token_id \in Nat /\ Tokens \subseteq Nat /\ now \in Nat
               /\ expiries \in [Tokens -> Nat] /\ owners \in [Tokens -> Holders]
               /\ \A i \in Tokens : i < next_token_id => i \in 0 .. next_token_id - 1
               /\ \A i \in 0 .. next_token_id - 1 : i \in Tokens
  BY ConstantFacts DEF MarketInv, CoreInv, TypeOK, ChainTypeOK, Tokens

(* What is owned, or has time, has been issued. *)
LEMMA IssuedIfHeld ==
  ASSUME MarketInv, FreshIdsUnowned, NEW i \in Tokens, owners[i] # ZERO \/ is_active(i)
  PROVE  i < next_token_id
  <1>1. i \in Nat /\ next_token_id \in Nat /\ now \in Nat
    BY NumberFacts
  <1>2. i >= next_token_id => owners[i] = ZERO /\ expiries[i] = 0
    BY DEF FreshIdsUnowned, MarketInv, CoreInv, FreshIdsBlank
  <1> QED
    BY <1>1, <1>2 DEF is_active

LEMMA ContractsInitInv == SystemInit => ContractsInv
  <1> SUFFICES ASSUME SystemInit PROVE ContractsInv
    OBVIOUS
  <1>1. MarketInv
    BY MarketInitInv
  <1> QED
    BY <1>1, ConstantFacts
    DEF ContractsInv, SystemInit, DeployedWithPlan, NoPasses, MarketInit, FreshIdsUnowned,
        PlansAsDeployed, IssuedByAdmin, Plans

(* The core's transactions are steps of the core, whoever sends them. *)
LEMMA CoreEmits ==
  ASSUME \/ \E to \in Recipients, d \in Durations : Mint(Admin, to, d)
         \/ \E p \in Plans, open \in Openings : SetPlanOpen(Admin, p, open)
         \/ \E c \in Users : IssueStep(c) \/ HolderStep(c)
  PROVE  Next
  <1>1. ASSUME NEW to \in Recipients, NEW d \in Durations, Mint(Admin, to, d) PROVE Next
    <2>1. to \in Addr /\ Admin \in Addr
      BY <1>1, ConstantFacts, InputsAssumption DEF Mint, Holders
    <2> QED
      BY <1>1, <2>1 DEF Next, IssueStep
  <1>2. ASSUME NEW p \in Plans, NEW open \in Openings, SetPlanOpen(Admin, p, open) PROVE Next
    BY <1>2, ConstantFacts, LagAssumption DEF Next, CatalogueStep
  <1> QED
    BY <1>1, <1>2, MarketConstants DEF Next

LEMMA AdminStepInv ==
  ASSUME MarketInv, Next, UNCHANGED <<now, eth, escrowVars, marketVars>>
  PROVE  MarketInv'
  <1>1. CoreInv' /\ next_token_id' >= next_token_id
    BY StepType, IdsOnlyGrow DEF MarketInv
  <1> QED
    BY <1>1, CoreAsideInv

(* A transaction is one of the core, of the market's lists, or a sale. *)
LEMMA TransactionKinds ==
  ASSUME Transaction
  PROVE  \/ Next /\ UNCHANGED <<now, escrowVars, marketVars>>
         \/ UNCHANGED <<coreVars, escrowVars, escrowYield>>
         \/ \E c \in Users, id \in Tokens, value \in Values : Buy(c, id, value)
  <1>1. CASE IssuerEmits
    BY <1>1, CoreEmits DEF IssuerEmits, EmitMint, EmitSetPlanOpen, OnCore, Mint, SetPlanOpen
  <1>2. ASSUME NEW c \in Users, HolderEmits(c)
        PROVE  \/ (IssueStep(c) \/ HolderStep(c)) /\ UNCHANGED <<now, escrowVars, marketVars>>
               \/ UNCHANGED <<coreVars, escrowVars, escrowYield>>
               \/ \E id \in Tokens, value \in Values : Buy(c, id, value)
    <2>1. CASE \E p \in Plans, v \in Prices : EmitBuyPass(c, p, v)
      BY <2>1 DEF EmitBuyPass, OnCore, IssueStep, BuyPass
    <2>2. CASE \E ids \in IdLists : EmitBundle(c, ids)
      BY <2>2 DEF EmitBundle, OnCore, HolderStep, Bundle
    <2>3. CASE \E id \in Tokens, n \in PartCounts : EmitSplit(c, id, n)
      BY <2>3 DEF EmitSplit, OnCore, HolderStep, Split
    <2>4. CASE \E id \in Tokens, to \in Recipients : EmitTransfer(c, to, id)
      BY <2>4 DEF EmitTransfer, OnCore, HolderStep, TransferPass
    <2>5. CASE \E id \in Tokens, price \in AskPrices : EmitList(c, id, price)
      BY <2>5 DEF EmitList, List
    <2>6. CASE \E id \in Tokens : EmitUnlist(c, id)
      BY <2>6 DEF EmitUnlist, Unlist
    <2>7. CASE \E id \in Tokens, v \in Values : EmitBuy(c, id, v)
      BY <2>7 DEF EmitBuy
    <2> QED
      BY <1>2, <2>1, <2>2, <2>3, <2>4, <2>5, <2>6, <2>7 DEF HolderEmits
  <1> QED
    BY <1>1, <1>2, CoreEmits DEF Transaction

LEMMA TransactionTerms ==
  ASSUME MarketInv, Transaction, NEW i \in Tokens, i < next_token_id
  PROVE  TermsOf(i)
  <1>1. i \in 0 .. next_token_id - 1
    BY NumberFacts
  <1>2. CASE Next
    <2>1. CASE UNCHANGED coreVars
      BY <2>1 DEF coreVars, tokenVars, TermsOf
    <2>2. CASE ~UNCHANGED coreVars
      <3>1. TermsKept(i)
        BY <1>1, <1>2, <2>2, StepKeepsTerms DEF MarketInv
      <3> QED
        BY <3>1 DEF TermsKept, TermsOf
    <2> QED
      BY <2>1, <2>2
  <1>3. CASE UNCHANGED coreVars
    BY <1>3 DEF coreVars, tokenVars, TermsOf
  <1> QED
    BY <1>2, <1>3, TransactionKinds DEF Buy, MovePass, TermsOf

LEMMA TransactionMarket ==
  ASSUME MarketInv, FreshIdsUnowned, Transaction
  PROVE  MarketInv' /\ FreshIdsUnowned'
  <1>1. CASE IssuerEmits
    <2>1. Next /\ UNCHANGED <<now, eth, escrowVars, marketVars>>
      BY <1>1, CoreEmits DEF IssuerEmits, EmitMint, EmitSetPlanOpen, OnCore, Mint, SetPlanOpen
    <2>2. UNCHANGED <<owners, next_token_id>> \/ \E to, d : NewPass(to, d, Admin)
      BY <1>1 DEF IssuerEmits, EmitMint, EmitSetPlanOpen, OnCore, Mint, SetPlanOpen, tokenVars
    <2>3. FreshIdsUnowned'
      <3>1. CASE UNCHANGED <<owners, next_token_id>>
        BY <3>1 DEF FreshIdsUnowned
      <3>2. CASE \E to, d : NewPass(to, d, Admin)
        BY <3>2, NumberFacts DEF FreshIdsUnowned, NewPass
      <3> QED
        BY <2>2, <3>1, <3>2
    <2> QED
      BY <2>1, <2>3, AdminStepInv
  <1>2. ASSUME NEW c \in Users, HolderEmits(c) PROVE MarketNext
    BY <1>2
    DEF HolderEmits, EmitBuyPass, EmitBundle, EmitSplit, EmitTransfer, EmitList, EmitUnlist,
        EmitBuy, OnCore, IssueStep, HolderStep, MarketNext, CoreStep, MarketStep
  <1>3. MarketNext => MarketInv' /\ FreshIdsUnowned'
    BY MarketStepInv, StepOwners DEF FreshIdsUnowned
  <1> QED
    BY <1>1, <1>2, <1>3 DEF Transaction

(* Whoever issues it, a pass is the admin's: sold from the admin's plan, minted by the
   admin, or cut from or merged of passes that were. *)
LEMMA TransactionIssuers ==
  ASSUME ContractsInv, Transaction
  PROVE  IssuedByAdmin'
  <1>1. /\ next_token_id \in Nat /\ Tokens \subseteq Nat /\ issuers \in [Tokens -> Holders]
        /\ \A i \in Tokens : i < next_token_id => issuers[i] = Admin
        /\ Admin # ZERO
    BY NumberFacts, ConstantFacts DEF ContractsInv, MarketInv, CoreInv, TypeOK, IssuedByAdmin
  <1>2. \A i \in Tokens : i < next_token_id => issuers'[i] = Admin
    BY <1>1, TransactionTerms DEF ContractsInv, TermsOf
  <1>3. ASSUME NEW to, NEW d, NewPass(to, d, Admin) PROVE IssuedByAdmin'
    BY <1>1, <1>3 DEF NewPass, IssuedByAdmin
  <1>4. ASSUME UNCHANGED next_token_id PROVE IssuedByAdmin'
    BY <1>2, <1>4 DEF IssuedByAdmin
  <1>5. ASSUME NEW c \in Users, NEW p \in Plans, NEW v \in Prices, BuyPass(c, p, v)
        PROVE  NewPass(c, plan_durations[p], Admin)
    BY <1>5 DEF BuyPass, ContractsInv, PlansAsDeployed
  <1>6. ASSUME NEW c \in Users, NEW id \in Tokens, NEW n \in PartCounts, Split(c, id, n)
        PROVE  IssuedByAdmin'
    <2>1. id < next_token_id /\ ToU64(n) \in Nat
      BY <1>6, ConstantFacts, InputsAssumption, IssuedIfHeld DEF Split, ContractsInv, ToU64
    <2>2. \A i \in Tokens : i < next_token_id' =>
            issuers'[i] = issuers[id] \/ (i < next_token_id /\ issuers'[i] = issuers[i])
      BY <1>1, <1>6, <2>1 DEF Split
    <2> QED
      BY <1>1, <2>1, <2>2 DEF IssuedByAdmin
  <1>7. ASSUME NEW c \in Users, NEW ids \in IdLists, Bundle(c, ids)
        PROVE  IssuedByAdmin'
    <2>1. Len(ids) >= 2 /\ 1 \in 1 .. Len(ids) /\ ids[1] \in Tokens /\ is_active(ids[1])
      BY <1>7, IdListType DEF Bundle
    <2>2. issuers[ids[1]] = Admin
      BY <1>1, <2>1, IssuedIfHeld DEF ContractsInv
    <2>3. /\ issuers' = [issuers EXCEPT ![next_token_id] = issuers[ids[1]]]
          /\ next_token_id' = next_token_id + 1
      BY <1>7 DEF Bundle
    <2> QED
      BY <1>1, <2>2, <2>3 DEF IssuedByAdmin
  <1>8. CASE IssuerEmits
    BY <1>3, <1>4, <1>8
    DEF IssuerEmits, EmitMint, EmitSetPlanOpen, OnCore, Mint, SetPlanOpen, tokenVars
  <1>9. ASSUME NEW c \in Users, HolderEmits(c) PROVE IssuedByAdmin'
    <2>1. CASE \E p \in Plans, v \in Prices : EmitBuyPass(c, p, v)
      BY <1>3, <1>5, <2>1 DEF EmitBuyPass, OnCore
    <2>2. CASE \E ids \in IdLists : EmitBundle(c, ids)
      BY <1>7, <2>2 DEF EmitBundle, OnCore
    <2>3. CASE \E id \in Tokens, n \in PartCounts : EmitSplit(c, id, n)
      BY <1>6, <2>3 DEF EmitSplit, OnCore
    <2>4. CASE UNCHANGED next_token_id
      BY <1>4, <2>4
    <2> QED
      BY <1>9, <2>1, <2>2, <2>3, <2>4
      DEF HolderEmits, EmitTransfer, EmitList, EmitUnlist, EmitBuy, OnCore, TransferPass,
          List, Unlist, Buy, MovePass, coreVars, tokenVars
  <1> QED
    BY <1>8, <1>9 DEF Transaction

LEMMA TransactionContracts ==
  ASSUME ContractsInv, Transaction
  PROVE  ContractsInv' /\ next_token_id' \in Nat /\ next_token_id' >= next_token_id
  <1>1. MarketInv' /\ FreshIdsUnowned'
    BY TransactionMarket DEF ContractsInv
  <1>2. escrowYield' = ZERO
    BY TransactionKinds DEF ContractsInv, marketVars, Buy
  <1>3. UNCHANGED <<next_plan_id, plan_issuers, plan_prices, plan_durations>>
    <2>1. CASE IssuerEmits
      BY <2>1 DEF IssuerEmits, EmitMint, EmitSetPlanOpen, OnCore, Mint, SetPlanOpen, planVars
    <2>2. ASSUME NEW c \in Users, HolderEmits(c) PROVE UNCHANGED planVars
      BY <2>2
      DEF HolderEmits, EmitBuyPass, EmitBundle, EmitSplit, EmitTransfer, EmitList, EmitUnlist,
          EmitBuy, OnCore, BuyPass, Bundle, Split, TransferPass, List, Unlist, Buy, coreVars
    <2> QED
      BY <2>1, <2>2 DEF Transaction, planVars
  <1>4. next_token_id' \in Nat /\ next_token_id' >= next_token_id
    <2>1. UNCHANGED next_token_id => next_token_id' >= next_token_id
      BY NumberFacts DEF ContractsInv
    <2>2. next_token_id' \in Nat
      BY <1>1, ConstantFacts DEF MarketInv, CoreInv, TypeOK
    <2> QED
      BY <2>1, <2>2, TransactionKinds, IdsOnlyGrow
      DEF ContractsInv, MarketInv, Buy, MovePass, coreVars, tokenVars
  <1> QED
    BY <1>1, <1>2, <1>3, <1>4, TransactionIssuers DEF ContractsInv, PlansAsDeployed

-----------------------------------------------------------------------------
(* What the events of a transaction tell.                                  *)

(* Of a pass issued before: nothing, and then it stands as it did, or how it stands in
   the end; that a pass is burned by a split is not told. *)
ToldOfOld(evs, i) ==
  /\ NoneOf(evs, Announces(i))
  /\ \/ NoneOf(evs, OwnerTold(i)) /\ owners'[i] = owners[i]
     \/ ~NoneOf(evs, OwnerTold(i)) /\ LastIn(evs, OwnerTold(i), OwnerTrue(i)')
     \/ expiries'[i] = 0
  /\ \/ NoneOf(evs, AskTold(i)) /\ listings'[i] = listings[i]
     \/ ~NoneOf(evs, AskTold(i)) /\ LastIn(evs, AskTold(i), AskTrue(i)')

(* The terms an announcement gives. *)
TermsTold(e, i) ==
  /\ e.expiry = expiries[i]
  /\ token_paid[i] = IF e.event = "Minted" THEN 0 ELSE PlanPrice

(* Of a new one: it is not introduced, or first of all and as it stands in the end. *)
ToldOfNew(evs, i) ==
  \/ NoneOf(evs, Announces(i))
  \/ /\ LastIn(evs, OwnerTold(i), OwnerTrue(i)')
     /\ LastIn(evs, AskTold(i), AskTrue(i)')
     /\ (starts[i] = 0 /\ token_plans[i] = 0)'
     /\ \A k \in 1 .. Len(evs) : evs[k] \in Announces(i) => k = 1 /\ TermsTold(evs[k], i)'

ToldOfPlan(evs) ==
  \/ NoneOf(evs, OpenTold) /\ plan_open'[0] = plan_open[0]
  \/ ~NoneOf(evs, OpenTold) /\ LastIn(evs, OpenTold, OpenTrue')

Sales == { e \in Events : e.event \in {"PassPurchased", "Bought"} }

(* Of what is sold: what the issuer gets of it, and nothing pays the issuer unless
   something is sold. *)
SoldFor(evs) ==
  \/ NoneOf(evs, Sales) /\ UNCHANGED eth
  \/ /\ Len(evs) = 2 /\ evs[1].event = "PassPurchased" /\ evs[2] \notin Sales
     /\ \E c \in Users, v \in Prices : BuyPass(c, 0, v)
  \/ /\ Len(evs) = 2 /\ evs[1] \notin Sales /\ evs[2].event = "Bought"
     /\ \E c \in Users, id \in Tokens, v \in Values :
          Buy(c, id, v) /\ evs[2].royalty = currentPrice(id) \div 10

Tells(evs) ==
  /\ evs \in Seq(Events)
  /\ pending' = pending \o evs
  /\ UNCHANGED indexVars
  /\ \A k \in 1 .. Len(evs) :
       /\ evs[k].event # "PlanCreated"
       /\ evs[k].event \in PassEvents => evs[k].tokenId < next_token_id'
  /\ \A i \in Tokens : IF i < next_token_id THEN ToldOfOld(evs, i) ELSE ToldOfNew(evs, i)
  /\ ToldOfPlan(evs)
  /\ SoldFor(evs)

LEMMA OneEvent ==
  ASSUME NEW e \in Events, NEW E, NEW F, e \in E => e \in F
  PROVE  /\ <<e>> \in Seq(Events) /\ LastIn(<<e>>, E, F)
         /\ NoneOf(<<e>>, E) <=> e \notin E
  <1>1. <<e>> \in Seq(Events) /\ Len(<<e>>) = 1 /\ <<e>>[1] = e
    OBVIOUS
  <1>2. \A k \in 1 .. 1 : k = 1
    OBVIOUS
  <1> QED
    BY <1>1, <1>2 DEF LastIn, NoneOf

LEMMA TwoEvents ==
  ASSUME NEW e \in Events, NEW d \in Events, NEW E, NEW F
  PROVE  /\ <<e, d>> \in Seq(Events)
         /\ (d \in E => d \in F) /\ (e \in E => e \in F) => LastIn(<<e, d>>, E, F)
         /\ NoneOf(<<e, d>>, E) <=> e \notin E /\ d \notin E
         /\ Len(<<e, d>>) = 2 /\ <<e, d>>[1] = e /\ <<e, d>>[2] = d
  <1>1. /\ <<e, d>> \in Seq(Events) /\ Len(<<e, d>>) = 2
        /\ <<e, d>>[1] = e /\ <<e, d>>[2] = d
    OBVIOUS
  <1>2. \A k \in 1 .. 2 : k = 1 \/ k = 2
    OBVIOUS
  <1> QED
    BY <1>1, <1>2 DEF LastIn, NoneOf

(* What each event tells, and of which pass. *)
LEMMA TransferTells ==
  ASSUME NEW j \in Tokens, NEW h \in Holders, NEW i \in Tokens
  PROVE  LET e == PassTransferred(h, j)
         IN  /\ e \in Events /\ e.event = "PassTransferred" /\ e.tokenId = j
             /\ e \in OwnerTold(i) <=> i = j
             /\ e \notin AskTold(i) /\ e \notin Announces(i) /\ e \notin OpenTold
             /\ TheOwner(e) = h
  <1>1. PassTransferred(h, j) \in Events
    BY DEF PassTransferred, Events
  <1> QED
    BY <1>1 DEF PassTransferred, OwnerTold, AskTold, Announces, OpenTold, TheOwner, Introduces

LEMMA ListedTells ==
  ASSUME NEW j \in Tokens, NEW price \in Nat \ {0}, NEW i \in Tokens
  PROVE  LET e == Listed(j, price)
         IN  /\ e \in Events /\ e.event = "Listed" /\ e.tokenId = j
             /\ e \in AskTold(i) <=> i = j
             /\ e \notin OwnerTold(i) /\ e \notin Announces(i) /\ e \notin OpenTold
             /\ TheAsk(e) = price
  <1>1. Listed(j, price) \in Events
    BY DEF Listed, Events
  <1> QED
    BY <1>1 DEF Listed, OwnerTold, AskTold, Announces, OpenTold, TheAsk, Introduces

LEMMA UnlistedTells ==
  ASSUME NEW j \in Tokens, NEW i \in Tokens
  PROVE  LET e == Unlisted(j)
         IN  /\ e \in Events /\ e.event = "Unlisted" /\ e.tokenId = j
             /\ e \in AskTold(i) <=> i = j
             /\ e \notin OwnerTold(i) /\ e \notin Announces(i) /\ e \notin OpenTold
             /\ TheAsk(e) = 0
  <1>1. Unlisted(j) \in Events
    BY DEF Unlisted, Events
  <1> QED
    BY <1>1 DEF Unlisted, OwnerTold, AskTold, Announces, OpenTold, TheAsk, Introduces

LEMMA BoughtTells ==
  ASSUME NEW j \in Tokens, NEW h \in Holders, NEW price \in Nat, NEW royalty \in Nat,
         NEW i \in Tokens
  PROVE  LET e == Bought(j, h, price, royalty)
         IN  /\ e \in Events /\ e.event = "Bought" /\ e.tokenId = j
             /\ e \in AskTold(i) <=> i = j
             /\ e \in OwnerTold(i) <=> i = j
             /\ e \notin Announces(i) /\ e \notin OpenTold
             /\ TheAsk(e) = 0 /\ TheOwner(e) = h
  <1>1. Bought(j, h, price, royalty) \in Events
    BY DEF Bought, Events
  <1> QED
    BY <1>1 DEF Bought, OwnerTold, AskTold, Announces, OpenTold, TheAsk, TheOwner, Introduces

LEMMA PurchaseTells ==
  ASSUME NEW j \in Tokens, NEW h \in Holders, NEW x \in Nat, NEW i \in Tokens
  PROVE  LET e == PassPurchased(j, 0, h, PlanPrice, x)
         IN  /\ e \in Events /\ e.event = "PassPurchased" /\ e.tokenId = j
             /\ e.expiry = x
             /\ e \in AskTold(i) <=> i = j
             /\ e \in OwnerTold(i) <=> i = j
             /\ e \in Announces(i) <=> i = j
             /\ e \notin OpenTold
             /\ TheAsk(e) = 0 /\ TheOwner(e) = h
  <1>1. PassPurchased(j, 0, h, PlanPrice, x) \in Events
    BY DEF PassPurchased, Events
  <1> QED
    BY <1>1
    DEF PassPurchased, OwnerTold, AskTold, Announces, OpenTold, TheAsk, TheOwner, Introduces

LEMMA MintTells ==
  ASSUME NEW j \in Tokens, NEW h \in Holders, NEW x \in Nat, NEW i \in Tokens
  PROVE  LET e == Minted(j, h, Admin, x)
         IN  /\ e \in Events /\ e.event = "Minted" /\ e.tokenId = j
             /\ e.expiry = x
             /\ e \in AskTold(i) <=> i = j
             /\ e \in OwnerTold(i) <=> i = j
             /\ e \in Announces(i) <=> i = j
             /\ e \notin OpenTold
             /\ TheAsk(e) = 0 /\ TheOwner(e) = h
  <1>1. Minted(j, h, Admin, x) \in Events
    BY DEF Minted, Events
  <1> QED
    BY <1>1
    DEF Minted, OwnerTold, AskTold, Announces, OpenTold, TheAsk, TheOwner, Introduces

LEMMA OpenTells ==
  ASSUME NEW open \in BOOLEAN, NEW i \in Tokens
  PROVE  LET e == PlanOpenSet(0, open)
         IN  /\ e \in Events /\ e.event = "PlanOpenSet"
             /\ e \in OpenTold /\ TheOpen(e) = open
             /\ e \notin AskTold(i) /\ e \notin OwnerTold(i) /\ e \notin Announces(i)
  <1>1. PlanOpenSet(0, open) \in Events
    BY DEF PlanOpenSet, Events
  <1> QED
    BY <1>1 DEF PlanOpenSet, OwnerTold, AskTold, Announces, OpenTold, TheOpen, Introduces

LEMMA TransferEmits ==
  ASSUME ContractsInv, NEW c \in Users, NEW to \in Recipients, NEW id \in Tokens,
         EmitTransfer(c, to, id)
  PROVE  \E evs : Tells(evs)
  <1> DEFINE e == PassTransferred(to, id)
  <1>1. /\ pending' = pending \o <<e>> /\ UNCHANGED indexVars
        /\ owners' = [owners EXCEPT ![id] = to] /\ owners[id] = c
        /\ UNCHANGED <<listings, plan_open, next_token_id, eth>>
    BY DEF EmitTransfer, OnCore, Emit, TransferPass, MovePass, planVars, marketVars
  <1>2. to \in Holders /\ c # ZERO /\ owners \in [Tokens -> Holders]
    BY InputsAssumption, MarketConstants, ConstantFacts, NumberFacts DEF ContractsInv
  <1>3. id < next_token_id
    BY <1>1, <1>2, IssuedIfHeld DEF ContractsInv
  <1>4. \A i \in Tokens : /\ e \in Events /\ e.event = "PassTransferred" /\ e.tokenId = id
                          /\ e \in OwnerTold(i) <=> i = id
                          /\ e \notin AskTold(i) /\ e \notin Announces(i)
                          /\ e \notin OpenTold /\ TheOwner(e) = to
    BY <1>2, TransferTells
  <1> HIDE DEF e
  <1>5. ASSUME NEW i \in Tokens PROVE ToldOfOld(<<e>>, i)
    <2>1. NoneOf(<<e>>, Announces(i)) /\ NoneOf(<<e>>, AskTold(i))
      BY <1>4, OneEvent
    <2>2. CASE i = id
      <3>1. e \in OwnerTrue(i)'
        BY <1>1, <1>2, <1>4, <2>2 DEF OwnerTrue
      <3> QED
        BY <1>1, <1>4, <2>1, <2>2, <3>1, OneEvent DEF ToldOfOld
    <2>3. CASE i # id
      <3>1. NoneOf(<<e>>, OwnerTold(i))
        BY <1>4, <2>3, OneEvent
      <3> QED
        BY <1>1, <1>2, <2>1, <2>3, <3>1 DEF ToldOfOld
    <2> QED
      BY <2>2, <2>3
  <1>6. ASSUME NEW i \in Tokens PROVE ToldOfNew(<<e>>, i)
    BY <1>4, OneEvent DEF ToldOfNew
  <1>7. ToldOfPlan(<<e>>)
    BY <1>1, <1>4, OneEvent DEF ToldOfPlan
  <1>8. <<e>> \in Seq(Events) /\ Len(<<e>>) = 1 /\ <<e>>[1] = e
    BY <1>4
  <1>9. \A k \in 1 .. Len(<<e>>) : /\ <<e>>[k].event # "PlanCreated"
                                   /\ <<e>>[k].tokenId < next_token_id'
    BY <1>1, <1>3, <1>4, <1>8
  <1>10. SoldFor(<<e>>)
    BY <1>1, <1>4, OneEvent DEF SoldFor, Sales
  <1>11. Tells(<<e>>)
    BY <1>1, <1>5, <1>6, <1>7, <1>8, <1>9, <1>10 DEF Tells
  <1> QED
    BY <1>11

(* A transaction of one event, that introduces no pass. *)
LEMMA SingleTells ==
  ASSUME NEW e \in Events, pending' = pending \o <<e>>, UNCHANGED indexVars,
         e.event \notin {"PlanCreated", "PassPurchased", "Bought"}, UNCHANGED eth,
         e.event \in PassEvents => e.tokenId < next_token_id',
         \A i \in Tokens : e \notin Announces(i),
         \A i \in Tokens :
           /\ IF e \in OwnerTold(i) THEN TheOwner(e) = owners'[i]
                                    ELSE owners'[i] = owners[i]
           /\ IF e \in AskTold(i) THEN TheAsk(e) = listings'[i].openingPrice
                                  ELSE listings'[i] = listings[i],
         IF e \in OpenTold THEN TheOpen(e) = plan_open'[0]
                           ELSE plan_open'[0] = plan_open[0]
  PROVE  \E evs : Tells(evs)
  <1>1. ASSUME NEW i \in Tokens PROVE ToldOfOld(<<e>>, i) /\ ToldOfNew(<<e>>, i)
    <2>1. NoneOf(<<e>>, Announces(i))
      BY OneEvent
    <2>2. \/ NoneOf(<<e>>, OwnerTold(i)) /\ owners'[i] = owners[i]
          \/ ~NoneOf(<<e>>, OwnerTold(i)) /\ LastIn(<<e>>, OwnerTold(i), OwnerTrue(i)')
      <3>1. CASE e \in OwnerTold(i)
        <4>1. e \in OwnerTrue(i)'
          BY <3>1 DEF OwnerTrue
        <4> QED
          BY <3>1, <4>1, OneEvent
      <3>2. CASE e \notin OwnerTold(i)
        BY <3>2, OneEvent
      <3> QED
        BY <3>1, <3>2
    <2>3. \/ NoneOf(<<e>>, AskTold(i)) /\ listings'[i] = listings[i]
          \/ ~NoneOf(<<e>>, AskTold(i)) /\ LastIn(<<e>>, AskTold(i), AskTrue(i)')
      <3>1. CASE e \in AskTold(i)
        <4>1. e \in AskTrue(i)'
          BY <3>1 DEF AskTrue
        <4> QED
          BY <3>1, <4>1, OneEvent
      <3>2. CASE e \notin AskTold(i)
        BY <3>2, OneEvent
      <3> QED
        BY <3>1, <3>2
    <2> QED
      BY <2>1, <2>2, <2>3 DEF ToldOfOld, ToldOfNew
  <1>2. ToldOfPlan(<<e>>)
    <2>1. CASE e \in OpenTold
      <3>1. e \in OpenTrue'
        BY <2>1 DEF OpenTrue
      <3> QED
        BY <2>1, <3>1, OneEvent DEF ToldOfPlan
    <2>2. CASE e \notin OpenTold
      BY <2>2, OneEvent DEF ToldOfPlan
    <2> QED
      BY <2>1, <2>2
  <1>3. <<e>> \in Seq(Events) /\ Len(<<e>>) = 1 /\ <<e>>[1] = e
    OBVIOUS
  <1>4. \A k \in 1 .. Len(<<e>>) :
          /\ <<e>>[k].event # "PlanCreated"
          /\ <<e>>[k].event \in PassEvents => <<e>>[k].tokenId < next_token_id'
    BY <1>3
  <1>5. SoldFor(<<e>>)
    BY OneEvent DEF SoldFor, Sales
  <1>6. Tells(<<e>>)
    BY <1>1, <1>2, <1>3, <1>4, <1>5 DEF Tells
  <1> QED
    BY <1>6

(* Transfers only: what was listed, and the plan, stay. *)
LEMMA MovesTell ==
  ASSUME NEW evs \in Seq(Events), pending' = pending \o evs, UNCHANGED indexVars,
         \A k \in 1 .. Len(evs) : /\ evs[k].event = "PassTransferred"
                                  /\ evs[k].tokenId < next_token_id',
         UNCHANGED <<listings, plan_open, eth>>,
         \A i \in Tokens : i < next_token_id =>
           \/ NoneOf(evs, OwnerTold(i)) /\ owners'[i] = owners[i]
           \/ expiries'[i] = 0
  PROVE  \E evts : Tells(evts)
  <1>1. ASSUME NEW i \in Tokens PROVE NoneOf(evs, Announces(i)) /\ NoneOf(evs, AskTold(i))
    BY DEF NoneOf, Announces, AskTold, Introduces
  <1>2. NoneOf(evs, OpenTold)
    BY DEF NoneOf, OpenTold
  <1>3. SoldFor(evs)
    BY DEF SoldFor, NoneOf, Sales
  <1>4. Tells(evs)
    BY <1>1, <1>2, <1>3 DEF Tells, ToldOfOld, ToldOfNew, ToldOfPlan
  <1> QED
    BY <1>4

(* A pass is introduced, and its owner with it. *)
LEMMA NewPassTells ==
  ASSUME ContractsInv, NEW n \in Tokens, n = next_token_id, NEW h \in Holders,
         NEW e \in Events, NEW d, d = PassTransferred(h, n),
         e.event \in Introduces, e.tokenId = n, TheOwner(e) = h, TermsTold(e, n)',
         pending' = pending \o <<e, d>>, UNCHANGED indexVars,
         next_token_id' = n + 1, owners' = [owners EXCEPT ![n] = h],
         starts'[n] = 0, token_plans'[n] = 0,
         UNCHANGED <<listings, plan_open>>,
         \/ e.event = "Minted" /\ UNCHANGED eth
         \/ e.event = "PassPurchased" /\ \E c \in Users, v \in Prices : BuyPass(c, 0, v)
  PROVE  \E evs : Tells(evs)
  <1> DEFINE evs == <<e, d>>
  <1>1. \A i \in Tokens :
          /\ d \in Events /\ d.event = "PassTransferred" /\ d.tokenId = n
          /\ d \in OwnerTold(i) <=> i = n
          /\ d \notin AskTold(i) /\ d \notin Announces(i) /\ d \notin OpenTold
          /\ TheOwner(d) = h
    BY TransferTells
  <1>2. \A i \in Tokens :
          /\ e \in OwnerTold(i) <=> i = n
          /\ e \in AskTold(i) <=> i = n
          /\ e \in Announces(i) <=> i = n
          /\ e \notin OpenTold /\ e.event # "PlanCreated" /\ TheAsk(e) = 0
    BY DEF OwnerTold, AskTold, Announces, OpenTold, Introduces, TheAsk
  <1>3. /\ owners \in [Tokens -> Holders] /\ Tokens \subseteq Nat
        /\ listings[n].openingPrice = 0
    <2>1. listings[n].openingPrice \in Nat /\ n \in Nat
      BY NumberFacts DEF ContractsInv, MarketInv, MarketTypeOK
    <2>2. listings[n].openingPrice > 0 => n < next_token_id
      BY DEF ContractsInv, MarketInv, ListingsOfThePast
    <2> QED
      BY <2>1, <2>2, NumberFacts DEF ContractsInv
  <1> HIDE DEF evs
  <1>4. /\ evs \in Seq(Events) /\ Len(evs) = 2 /\ evs[1] = e /\ evs[2] = d
        /\ \A k \in 1 .. Len(evs) : k = 1 \/ k = 2
    BY <1>1, TwoEvents DEF evs
  <1>5. ASSUME NEW i \in Tokens, i < next_token_id PROVE ToldOfOld(evs, i)
    <2>1. i # n
      BY <1>3, <1>5
    <2>2. /\ e \notin Announces(i) /\ e \notin OwnerTold(i) /\ e \notin AskTold(i)
          /\ d \notin Announces(i) /\ d \notin OwnerTold(i) /\ d \notin AskTold(i)
      BY <1>1, <1>2, <2>1
    <2>3. NoneOf(evs, Announces(i)) /\ NoneOf(evs, OwnerTold(i)) /\ NoneOf(evs, AskTold(i))
      BY <1>4, <2>2 DEF NoneOf
    <2> QED
      BY <1>3, <2>1, <2>3 DEF ToldOfOld
  <1>6. ASSUME NEW i \in Tokens, i # n PROVE ToldOfNew(evs, i)
    <2>1. e \notin Announces(i) /\ d \notin Announces(i)
      BY <1>1, <1>2, <1>6
    <2>2. NoneOf(evs, Announces(i))
      BY <1>4, <2>1 DEF NoneOf
    <2> QED
      BY <2>2 DEF ToldOfNew
  <1>7. ToldOfNew(evs, n)
    <2>1. e \in OwnerTrue(n)' /\ d \in OwnerTrue(n)' /\ e \in AskTrue(n)'
      BY <1>1, <1>2, <1>3 DEF OwnerTrue, AskTrue
    <2>2. LastIn(evs, OwnerTold(n), OwnerTrue(n)') /\ LastIn(evs, AskTold(n), AskTrue(n)')
      BY <1>1, <2>1, TwoEvents DEF evs
    <2>3. \A k \in 1 .. Len(evs) : evs[k] \in Announces(n) => k = 1 /\ TermsTold(evs[k], n)'
      <3>1. TermsTold(e, n)' /\ d \notin Announces(n)
        BY <1>1
      <3> QED
        BY <1>4, <3>1
    <2> QED
      BY <2>2, <2>3 DEF ToldOfNew
  <1>8. ToldOfPlan(evs)
    BY <1>1, <1>2, TwoEvents DEF ToldOfPlan, evs
  <1>9. \A k \in 1 .. Len(evs) :
          evs[k].event # "PlanCreated" /\ evs[k].tokenId < next_token_id'
    <2>1. n < next_token_id'
      BY <1>3
    <2> QED
      BY <1>1, <1>2, <1>4, <2>1
  <1>10. SoldFor(evs)
    <2>1. d \notin Sales
      BY <1>1 DEF Sales
    <2>2. CASE e.event = "Minted"
      BY <1>4, <2>1, <2>2 DEF SoldFor, NoneOf, Sales
    <2>3. CASE e.event = "PassPurchased"
      BY <1>4, <2>1, <2>3 DEF SoldFor
    <2> QED
      BY <2>2, <2>3
  <1>11. Tells(evs)
    <2>1. pending' = pending \o evs
      BY DEF evs
    <2>2. \A i \in Tokens : i < next_token_id => i # n
      BY <1>3
    <2> QED
      BY <1>4, <1>5, <1>6, <1>7, <1>8, <1>9, <1>10, <2>1, <2>2
      DEF Tells
  <1> QED
    BY <1>11

-----------------------------------------------------------------------------
(* Each transaction tells what it does.                                    *)

LEMMA FreshFacts ==
  ASSUME ContractsInv, next_token_id < MaxTokens
  PROVE  /\ next_token_id \in Tokens
         /\ starts[next_token_id] = 0 /\ token_plans[next_token_id] = 0
         /\ token_paid[next_token_id] = 0
         /\ owners \in [Tokens -> Holders] /\ expiries \in [Tokens -> Nat]
         /\ token_plans \in [Tokens -> Plans] /\ token_paid \in [Tokens -> Nat]
         /\ \A d \in Nat : ExpiryAfter(d) \in Nat
  <1>1. next_token_id \in Tokens
    BY NumberFacts, ConstantFacts DEF ContractsInv, Tokens
  <1>2. \A d \in Nat : ExpiryAfter(d) \in Nat
    <2>1. now \in Nat /\ U64Limit \in Nat \ {0}
      BY NumberFacts, ConstantFacts DEF ContractsInv
    <2> QED
      BY <2>1 DEF ExpiryAfter, ToU64
  <1>3. next_token_id >= next_token_id
    BY NumberFacts DEF ContractsInv
  <1> QED
    BY <1>1, <1>2, <1>3 DEF ContractsInv, MarketInv, CoreInv, TypeOK, FreshIdsBlank

LEMMA MintEmits ==
  ASSUME ContractsInv, NEW to \in Recipients, NEW d \in Durations, EmitMint(Admin, to, d)
  PROVE  \E evs : Tells(evs)
  <1>1. next_token_id < MaxTokens
    BY DEF EmitMint, OnCore, Mint, NewPass
  <1> PICK n \in Tokens, x \in Nat : n = next_token_id /\ x = ExpiryAfter(d)
    BY <1>1, FreshFacts, InputsAssumption
  <1> PICK e, t : e = Minted(n, to, Admin, x) /\ t = PassTransferred(to, n)
    OBVIOUS
  <1>2. /\ pending' = pending \o <<e, t>> /\ UNCHANGED <<indexVars, listings, plan_open>>
        /\ owners' = [owners EXCEPT ![n] = to]
        /\ expiries' = [expiries EXCEPT ![n] = x]
        /\ next_token_id' = n + 1
        /\ UNCHANGED <<starts, token_plans, token_paid, eth>>
    BY DEF EmitMint, OnCore, Mint, NewPass, Emit, marketVars, planVars
  <1>3. to \in Holders
    BY InputsAssumption
  <1>4. /\ e \in Events /\ e.event = "Minted" /\ e.tokenId = n /\ e.expiry = x
        /\ TheOwner(e) = to
    BY <1>3, MintTells
  <1>5. starts'[n] = 0 /\ token_plans'[n] = 0 /\ TermsTold(e, n)'
    BY <1>1, <1>2, <1>4, FreshFacts DEF TermsTold
  <1> QED
    BY <1>2, <1>3, <1>4, <1>5, NewPassTells DEF Introduces

LEMMA BuyPassEmits ==
  ASSUME ContractsInv, NEW c \in Users, NEW p \in Plans, NEW v \in Prices,
         EmitBuyPass(c, p, v)
  PROVE  \E evs : Tells(evs)
  <1>1. next_token_id < MaxTokens
    BY DEF EmitBuyPass, OnCore, BuyPass, NewPass
  <1>2. p = 0 /\ plan_prices[p] = PlanPrice /\ plan_durations[p] = PlanDuration
    BY DEF EmitBuyPass, OnCore, BuyPass, ContractsInv, PlansAsDeployed
  <1> PICK n \in Tokens, x \in Nat : n = next_token_id /\ x = ExpiryAfter(PlanDuration)
    BY <1>1, FreshFacts, MarketConstants
  <1> PICK e, t : e = PassPurchased(n, 0, c, PlanPrice, x) /\ t = PassTransferred(c, n)
    OBVIOUS
  <1>3. /\ pending' = pending \o <<e, t>> /\ UNCHANGED <<indexVars, listings, plan_open>>
        /\ owners' = [owners EXCEPT ![n] = c]
        /\ expiries' = [expiries EXCEPT ![n] = x]
        /\ next_token_id' = n + 1
        /\ token_plans' = [token_plans EXCEPT ![n] = 0]
        /\ token_paid' = [token_paid EXCEPT ![n] = PlanPrice]
        /\ UNCHANGED starts
    BY <1>2 DEF EmitBuyPass, OnCore, BuyPass, NewPass, Emit, marketVars, planVars
  <1>4. c \in Holders
    BY MarketConstants
  <1>5. /\ e \in Events /\ e.event = "PassPurchased" /\ e.tokenId = n /\ e.expiry = x
        /\ TheOwner(e) = c
    BY <1>4, PurchaseTells
  <1>6. starts'[n] = 0 /\ token_plans'[n] = 0 /\ TermsTold(e, n)'
    BY <1>1, <1>3, <1>5, FreshFacts DEF TermsTold
  <1>7. BuyPass(c, 0, v)
    BY <1>2 DEF EmitBuyPass, OnCore
  <1> QED
    BY <1>3, <1>4, <1>5, <1>6, <1>7, NewPassTells DEF Introduces

LEMMA SplitEmits ==
  ASSUME ContractsInv, NEW c \in Users, NEW id \in Tokens, NEW n \in PartCounts,
         EmitSplit(c, id, n)
  PROVE  \E evs : Tells(evs)
  <1>1. /\ ToU64(n) = n /\ n \in Nat /\ n >= 2 /\ next_token_id + n <= MaxTokens
        /\ owners' = [i \in Tokens |-> CASE i \in next_token_id .. next_token_id + n - 1 -> c
                                         [] i = id -> ZERO
                                         [] OTHER -> owners[i]]
        /\ next_token_id' = next_token_id + n
    <2>1. n \in Nat /\ ToU64(n) >= 2
      BY InputsAssumption DEF EmitSplit, OnCore, Split
    <2>2. ToU64(n) = n
      BY <2>1 DEF ToU64
    <2> QED
      BY <2>1, <2>2 DEF EmitSplit, OnCore, Split
  <1>2. /\ id < next_token_id
        /\ expiries'[id] = 0
    <2>1. id < next_token_id
      BY IssuedIfHeld DEF ContractsInv, EmitSplit, OnCore, Split
    <2>2. id \notin next_token_id .. next_token_id + n - 1
      BY <1>1, <2>1, NumberFacts DEF ContractsInv
    <2> QED
      BY <1>1, <2>1, <2>2 DEF EmitSplit, OnCore, Split
  <1> PICK m \in Nat : m = next_token_id
    BY NumberFacts DEF ContractsInv
  <1> DEFINE evs == [k \in 1 .. n |-> PassTransferred(c, m + k - 1)]
  <1>3. pending' = pending \o evs /\ UNCHANGED <<indexVars, listings, plan_open, eth>>
    BY DEF EmitSplit, OnCore, Split, Emit, marketVars, planVars
  <1>4. c \in Holders /\ Tokens \subseteq Nat /\ owners \in [Tokens -> Holders]
    BY MarketConstants, NumberFacts DEF ContractsInv
  <1>5. ASSUME NEW k \in 1 .. n
        PROVE  /\ evs[k] \in Events /\ evs[k].event = "PassTransferred"
               /\ evs[k].tokenId < next_token_id' /\ evs[k].tokenId >= next_token_id
    <2>1. m + k - 1 \in Tokens /\ m + k - 1 < next_token_id' /\ m + k - 1 >= next_token_id
      BY <1>1, ConstantFacts DEF Tokens
    <2>2. evs[k] = PassTransferred(c, m + k - 1)
      OBVIOUS
    <2> HIDE DEF evs
    <2> QED
      BY <1>4, <2>1, <2>2, TransferTells
  <1>6. Len(evs) = n
    BY <1>1
  <1> HIDE DEF evs
  <1>7. evs \in Seq(Events)
    <2>1. evs = [k \in 1 .. n |-> PassTransferred(c, m + k - 1)]
      BY DEF evs
    <2>2. evs \in [1 .. n -> Events]
      BY <1>5, <2>1
    <2> QED
      BY <1>1, <2>2
  <1>8. ASSUME NEW i \in Tokens, i < next_token_id
        PROVE  \/ NoneOf(evs, OwnerTold(i)) /\ owners'[i] = owners[i]
               \/ expiries'[i] = 0
    <2>1. CASE i = id
      BY <1>2, <2>1
    <2>2. CASE i # id
      <3>1. i \notin next_token_id .. next_token_id + n - 1
        BY <1>1, <1>4, <1>8
      <3>2. owners'[i] = owners[i]
        BY <1>1, <2>2, <3>1
      <3>3. ASSUME NEW k \in 1 .. n PROVE evs[k].tokenId # i
        BY <1>4, <1>5, <1>8
      <3>4. NoneOf(evs, OwnerTold(i))
        BY <1>6, <3>3 DEF NoneOf, OwnerTold
      <3> QED
        BY <3>2, <3>4
    <2> QED
      BY <2>1, <2>2
  <1> QED
    BY <1>3, <1>5, <1>6, <1>7, <1>8, MovesTell

LEMMA BundleEmits ==
  ASSUME ContractsInv, NEW c \in Users, NEW ids \in IdLists, EmitBundle(c, ids)
  PROVE  \E evs : Tells(evs)
  <1> PICK m \in Nat : m = next_token_id
    BY NumberFacts DEF ContractsInv
  <1> PICK l : l = Len(ids)
    OBVIOUS
  <1>1. /\ l \in Nat /\ l >= 2
        /\ \A k \in 1 .. l : ids[k] \in Tokens /\ is_active(ids[k])
        /\ m < MaxTokens /\ next_token_id' = m + 1
    <2>1. /\ l \in Nat
          /\ \A k \in 1 .. l : ids[k] \in Tokens
      BY IdListType
    <2>2. /\ l >= 2 /\ \A k \in 1 .. l : is_active(ids[k])
          /\ m < MaxTokens /\ next_token_id' = m + 1
      BY DEF EmitBundle, OnCore, Bundle
    <2> QED
      BY <2>1, <2>2
  <1>2. \A k \in 1 .. l : ids[k] < m
    BY <1>1, IssuedIfHeld DEF ContractsInv
  <1>3. \A i \in Tokens :
          /\ owners'[i] = CASE i = m -> c
                            [] i \in { ids[k] : k \in 1 .. l } -> ZERO
                            [] OTHER -> owners[i]
          /\ expiries'[i] = 0 \/ i = m \/ i \notin { ids[k] : k \in 1 .. l }
    <2>1. \A i \in Tokens :
            owners'[i] = CASE i = m -> c
                           [] i \in { ids[k] : k \in 1 .. l } -> ZERO
                           [] OTHER -> owners[i]
      BY DEF EmitBundle, OnCore, Bundle
    <2>2. \A i \in Tokens :
            expiries'[i] = 0 \/ i = m \/ i \notin { ids[k] : k \in 1 .. l }
      BY DEF EmitBundle, OnCore, Bundle
    <2> QED
      BY <2>1, <2>2
  <1> DEFINE burns == [k \in 1 .. l |-> PassTransferred(ZERO, ids[k])]
             merged == PassTransferred(c, m)
             evs == burns \o <<merged>>
  <1>4. pending' = pending \o evs /\ UNCHANGED <<indexVars, listings, plan_open, eth>>
    BY DEF EmitBundle, OnCore, Bundle, Emit, marketVars, planVars
  <1>5. c \in Holders /\ ZERO \in Holders /\ Tokens \subseteq Nat /\ m \in Tokens
    BY <1>1, MarketConstants, NumberFacts, ConstantFacts DEF ContractsInv, Tokens
  <1>6. ASSUME NEW k \in 1 .. l
        PROVE  /\ burns[k] \in Events /\ burns[k].event = "PassTransferred"
               /\ burns[k].tokenId = ids[k]
    <2>1. burns[k] = PassTransferred(ZERO, ids[k])
      OBVIOUS
    <2>2. /\ PassTransferred(ZERO, ids[k]) \in Events
          /\ PassTransferred(ZERO, ids[k]).event = "PassTransferred"
          /\ PassTransferred(ZERO, ids[k]).tokenId = ids[k]
      BY <1>1, <1>5, TransferTells
    <2> HIDE DEF burns
    <2> QED
      BY <2>1, <2>2
  <1>7. /\ merged \in Events /\ merged.event = "PassTransferred" /\ merged.tokenId = m
    BY <1>5, TransferTells
  <1>8. burns \in Seq(Events) /\ Len(burns) = l
    <2>1. burns \in [1 .. l -> Events]
      BY <1>6
    <2> QED
      BY <1>1, <2>1
  <1> HIDE DEF burns, merged
  <1>9. /\ evs \in Seq(Events) /\ Len(evs) = l + 1 /\ evs[l + 1] = merged
        /\ \A k \in 1 .. l : evs[k] = burns[k]
    BY <1>1, <1>7, <1>8
  <1> HIDE DEF evs
  <1>10. \A k \in 1 .. Len(evs) : k = l + 1 \/ k \in 1 .. l
    BY <1>1, <1>9
  <1>11. \A k \in 1 .. Len(evs) : /\ evs[k].event = "PassTransferred"
                                  /\ evs[k].tokenId < next_token_id'
    <2>1. ASSUME NEW k \in 1 .. l PROVE ids[k] < m + 1
      <3>1. ids[k] \in Nat /\ ids[k] < m
        BY <1>1, <1>2, <1>5
      <3> QED
        BY <3>1
    <2>2. m < m + 1
      OBVIOUS
    <2> QED
      BY <1>1, <1>6, <1>7, <1>9, <1>10, <2>1, <2>2
  <1>12. ASSUME NEW i \in Tokens, i < next_token_id
         PROVE  \/ NoneOf(evs, OwnerTold(i)) /\ owners'[i] = owners[i]
                \/ expiries'[i] = 0
    <2>1. i # m
      BY <1>5, <1>12
    <2>2. CASE i \in { ids[k] : k \in 1 .. l }
      BY <1>3, <2>1, <2>2
    <2>3. CASE i \notin { ids[k] : k \in 1 .. l }
      <3>1. owners'[i] = owners[i]
        BY <1>3, <2>1, <2>3
      <3>2. \A k \in 1 .. Len(evs) : evs[k].tokenId # i
        BY <1>6, <1>7, <1>9, <1>10, <2>1, <2>3
      <3>3. NoneOf(evs, OwnerTold(i))
        BY <3>2 DEF NoneOf, OwnerTold
      <3> QED
        BY <3>1, <3>3
    <2> QED
      BY <2>2, <2>3
  <1> QED
    BY <1>4, <1>9, <1>11, <1>12, MovesTell

LEMMA ListEmits ==
  ASSUME ContractsInv, NEW c \in Users, NEW id \in Tokens, NEW price \in AskPrices,
         EmitList(c, id, price)
  PROVE  \E evs : Tells(evs)
  <1> PICK e, t : e = Listed(id, price) /\ t = now
    OBVIOUS
  <1>1. /\ pending' = pending \o <<e>> /\ UNCHANGED indexVars
        /\ listings' = [listings EXCEPT ![id] = [openingPrice |-> price, listedAt |-> t]]
        /\ UNCHANGED <<owners, plan_open, next_token_id, eth>>
        /\ price > 0 /\ is_active(id)
    BY DEF EmitList, List, Emit, coreVars, tokenVars, planVars
  <1>2. price \in Nat \ {0} /\ id < next_token_id
    BY <1>1, MarketConstants, IssuedIfHeld DEF ContractsInv
  <1>3. \A i \in Tokens : /\ e \in Events /\ e.event = "Listed" /\ e.tokenId = id
                          /\ e \in AskTold(i) <=> i = id
                          /\ e \notin OwnerTold(i) /\ e \notin Announces(i)
                          /\ e \notin OpenTold /\ TheAsk(e) = price
    BY <1>2, ListedTells
  <1>4. /\ listings'[id].openingPrice = price
        /\ \A i \in Tokens : i # id => listings'[i] = listings[i]
    BY <1>1 DEF ContractsInv, MarketInv, MarketTypeOK
  <1> QED
    BY <1>1, <1>2, <1>3, <1>4, SingleTells

LEMMA UnlistEmits ==
  ASSUME ContractsInv, NEW c \in Users, NEW id \in Tokens, EmitUnlist(c, id)
  PROVE  \E evs : Tells(evs)
  <1> PICK e : e = Unlisted(id)
    OBVIOUS
  <1>1. /\ pending' = pending \o <<e>> /\ UNCHANGED indexVars
        /\ listings' = [listings EXCEPT ![id] = NoListing]
        /\ UNCHANGED <<owners, plan_open, next_token_id, eth>>
        /\ owners[id] = c
    BY DEF EmitUnlist, Unlist, Emit, coreVars, tokenVars, planVars
  <1>2. id < next_token_id
    <2>1. c # ZERO
      BY MarketConstants, ConstantFacts
    <2> QED
      BY <1>1, <2>1, IssuedIfHeld DEF ContractsInv
  <1>3. \A i \in Tokens : /\ e \in Events /\ e.event = "Unlisted" /\ e.tokenId = id
                          /\ e \in AskTold(i) <=> i = id
                          /\ e \notin OwnerTold(i) /\ e \notin Announces(i)
                          /\ e \notin OpenTold /\ TheAsk(e) = 0
    BY UnlistedTells
  <1>4. /\ listings'[id].openingPrice = 0
        /\ \A i \in Tokens : i # id => listings'[i] = listings[i]
    BY <1>1 DEF ContractsInv, MarketInv, MarketTypeOK, NoListing
  <1> QED
    BY <1>1, <1>2, <1>3, <1>4, SingleTells

LEMMA SetPlanOpenEmits ==
  ASSUME ContractsInv, NEW p \in Plans, NEW open \in Openings,
         EmitSetPlanOpen(Admin, p, open)
  PROVE  \E evs : Tells(evs)
  <1>1. p = 0 /\ 0 \in Plans /\ open \in BOOLEAN /\ plan_open \in [Plans -> BOOLEAN]
    BY ConstantFacts, LagAssumption
    DEF EmitSetPlanOpen, OnCore, SetPlanOpen, ContractsInv, PlansAsDeployed, MarketInv,
        CoreInv, TypeOK
  <1> PICK e : e = PlanOpenSet(0, open)
    OBVIOUS
  <1>2. /\ pending' = pending \o <<e>> /\ UNCHANGED indexVars
        /\ plan_open'[0] = open
        /\ UNCHANGED <<owners, listings, next_token_id, eth>>
    BY <1>1 DEF EmitSetPlanOpen, OnCore, SetPlanOpen, Emit, marketVars, tokenVars
  <1>3. e \in Events /\ e.event = "PlanOpenSet" /\ e \in OpenTold /\ TheOpen(e) = open
    BY <1>1 DEF PlanOpenSet, Events, OpenTold, TheOpen
  <1>4. \A i \in Tokens : /\ e \notin AskTold(i) /\ e \notin OwnerTold(i)
                          /\ e \notin Announces(i)
    BY <1>3 DEF AskTold, OwnerTold, Announces, Introduces
  <1>5. e.event # "PlanCreated" /\ e.event \notin PassEvents
    BY <1>3 DEF PassEvents, Introduces
  <1> QED
    BY <1>2, <1>3, <1>4, <1>5, SingleTells

LEMMA BuyEmits ==
  ASSUME ContractsInv, NEW c \in Users, NEW id \in Tokens, NEW v \in Values,
         EmitBuy(c, id, v)
  PROVE  \E evs : Tells(evs)
  <1>1. currentPrice(id) \in Nat /\ currentPrice(id) \div 10 \in Nat
    BY PriceFacts DEF ContractsInv
  <1> PICK price \in Nat, royalty \in Nat :
        price = currentPrice(id) /\ royalty = currentPrice(id) \div 10
    BY <1>1
  <1> PICK e, d : e = PassTransferred(c, id) /\ d = Bought(id, c, price, royalty)
    OBVIOUS
  <1>2. /\ pending' = pending \o <<e, d>> /\ UNCHANGED indexVars
        /\ listings' = [listings EXCEPT ![id] = NoListing]
        /\ owners' = [owners EXCEPT ![id] = c]
        /\ UNCHANGED <<plan_open, next_token_id>> /\ is_active(id)
    BY DEF EmitBuy, Buy, MovePass, Emit, planVars
  <1>3. c \in Holders /\ id < next_token_id /\ owners \in [Tokens -> Holders]
    BY <1>2, MarketConstants, IssuedIfHeld, NumberFacts DEF ContractsInv
  <1>4. \A i \in Tokens :
          /\ e \in Events /\ e.event = "PassTransferred" /\ e.tokenId = id
          /\ e \in OwnerTold(i) <=> i = id
          /\ e \notin AskTold(i) /\ e \notin Announces(i) /\ e \notin OpenTold
          /\ TheOwner(e) = c
    BY <1>3, TransferTells
  <1>5. \A i \in Tokens :
          /\ d \in Events /\ d.event = "Bought" /\ d.tokenId = id
          /\ d \in AskTold(i) <=> i = id
          /\ d \in OwnerTold(i) <=> i = id
          /\ d \notin Announces(i) /\ d \notin OpenTold
          /\ TheAsk(d) = 0 /\ TheOwner(d) = c
    BY <1>3, BoughtTells
  <1>6. /\ listings'[id].openingPrice = 0
        /\ \A i \in Tokens : i # id => listings'[i] = listings[i]
        /\ owners'[id] = c
        /\ \A i \in Tokens : i # id => owners'[i] = owners[i]
    BY <1>2, <1>3 DEF ContractsInv, MarketInv, MarketTypeOK, NoListing
  <1> DEFINE evs == <<e, d>>
  <1>7. /\ evs \in Seq(Events) /\ Len(evs) = 2 /\ evs[1] = e /\ evs[2] = d
        /\ \A k \in 1 .. Len(evs) : k = 1 \/ k = 2
        /\ 2 \in 1 .. Len(evs)
    BY <1>4, <1>5, TwoEvents
  <1> HIDE DEF evs
  <1>8. ASSUME NEW i \in Tokens PROVE ToldOfOld(evs, i) /\ ToldOfNew(evs, i)
    <2>1. NoneOf(evs, Announces(i))
      BY <1>4, <1>5, <1>7 DEF NoneOf
    <2>2. CASE i = id
      <3>1. e \in OwnerTrue(i)' /\ d \in OwnerTrue(i)' /\ d \in AskTrue(i)'
        BY <1>4, <1>5, <1>6, <2>2 DEF OwnerTrue, AskTrue
      <3>2. LastIn(evs, OwnerTold(i), OwnerTrue(i)') /\ LastIn(evs, AskTold(i), AskTrue(i)')
        BY <1>4, <1>7, <3>1 DEF LastIn
      <3>3. ~NoneOf(evs, OwnerTold(i)) /\ ~NoneOf(evs, AskTold(i))
        BY <1>5, <1>7, <2>2 DEF NoneOf
      <3> QED
        BY <2>1, <3>2, <3>3 DEF ToldOfOld, ToldOfNew
    <2>3. CASE i # id
      <3>1. NoneOf(evs, OwnerTold(i)) /\ NoneOf(evs, AskTold(i))
        BY <1>4, <1>5, <1>7, <2>3 DEF NoneOf
      <3> QED
        BY <1>6, <2>1, <2>3, <3>1 DEF ToldOfOld, ToldOfNew
    <2> QED
      BY <2>2, <2>3
  <1>9. ToldOfPlan(evs)
    <2>1. NoneOf(evs, OpenTold)
      BY <1>4, <1>5, <1>7 DEF NoneOf
    <2> QED
      BY <1>2, <2>1 DEF ToldOfPlan
  <1>10. \A k \in 1 .. Len(evs) :
           evs[k].event # "PlanCreated" /\ evs[k].tokenId < next_token_id'
    BY <1>2, <1>3, <1>4, <1>5, <1>7
  <1>11. SoldFor(evs)
    <2>1. e \notin Sales /\ d.event = "Bought" /\ d.royalty = royalty
      BY <1>4, <1>5 DEF Sales, Bought
    <2>2. Buy(c, id, v)
      BY DEF EmitBuy
    <2> QED
      BY <1>7, <2>1, <2>2 DEF SoldFor
  <1>12. Tells(evs)
    BY <1>2, <1>7, <1>8, <1>9, <1>10, <1>11 DEF Tells, evs
  <1> QED
    BY <1>12

LEMMA TransactionTells ==
  ASSUME ContractsInv, Transaction
  PROVE  \E evs : Tells(evs)
  <1>1. CASE IssuerEmits
    BY <1>1, MintEmits, SetPlanOpenEmits DEF IssuerEmits
  <1>2. ASSUME NEW c \in Users, HolderEmits(c) PROVE \E evs : Tells(evs)
    BY <1>2, BuyPassEmits, BundleEmits, SplitEmits, TransferEmits, ListEmits, UnlistEmits,
       BuyEmits
    DEF HolderEmits
  <1> QED
    BY <1>1, <1>2 DEF Transaction

-----------------------------------------------------------------------------
(* The index.                                                              *)

EventsInv ==
  /\ pending \in Seq(Events)
  /\ \A k \in 1 .. Len(pending) :
       pending[k].event \in PassEvents => pending[k].tokenId < next_token_id

(* An announcement that is still to come finds no row, and nothing else is told of the
   pass before it. *)
AnnouncedFirst ==
  \A i \in Tokens : \A k \in 1 .. Len(pending) :
    pending[k] \in Announces(i) =>
      /\ i \notin DOMAIN passRows
      /\ \A m \in 1 .. Len(pending) : m < k => pending[m] \notin About(i)

RowsInv ==
  \A i \in DOMAIN passRows :
    /\ i \in Tokens /\ i < next_token_id /\ passRows[i] \in PassRow
    /\ passRows[i].plan \in {0, NoPlan}
    /\ passRows[i].plan = 0 => 0 \in DOMAIN planRows

(* The index knows of the pass, or will. *)
Tracked(i) == i \in DOMAIN passRows \/ ~NoneOf(pending, Announces(i))

OwnerFollowed(i) ==
  /\ LastIn(pending, OwnerTold(i), OwnerTrue(i))
  /\ NoneOf(pending, OwnerTold(i)) => passRows[i].owner = owners[i]

AskFollowed(i) ==
  /\ LastIn(pending, AskTold(i), AskTrue(i))
  /\ NoneOf(pending, AskTold(i)) => passRows[i].listedPrice = listings[i].openingPrice

RowTerms(i) ==
  /\ passRows[i].issuer = Admin
  /\ passRows[i].expiry = expiries[i]
  /\ passRows[i].originalPrice = token_paid[i]

TermsFollowed(i) ==
  /\ starts[i] = 0 /\ token_plans[i] = 0
  /\ \A k \in 1 .. Len(pending) : pending[k] \in Announces(i) => TermsTold(pending[k], i)
  /\ i \in DOMAIN passRows => RowTerms(i)

PassesFollowed ==
  \A i \in Tokens :
    Tracked(i) /\ ~Burned(i) => OwnerFollowed(i) /\ AskFollowed(i) /\ TermsFollowed(i)

Creation == { e \in Events : e.event = "PlanCreated" }

PlanRowKept ==
  /\ planRows[0] \in PlanRow
  /\ planRows[0].issuer = Admin /\ planRows[0].price = PlanPrice
  /\ planRows[0].durationSeconds = PlanDuration

PlanFollowed ==
  /\ \/ /\ DOMAIN planRows = {} /\ pending # << >> /\ pending[1] \in Creation
        /\ \A k \in 1 .. Len(pending) : k > 1 => pending[k] \notin Creation
     \/ DOMAIN planRows = {0} /\ PlanRowKept /\ NoneOf(pending, Creation)
  /\ LastIn(pending, OpenTold, OpenTrue)
  /\ NoneOf(pending, OpenTold) => planRows[0].open = plan_open[0]

(* The blocks of what is on its way, and of the rows, follow the clock. *)
BlocksInv ==
  /\ blocks \in Seq(Nat) /\ Len(blocks) = Len(pending)
  /\ \A k \in 1 .. Len(blocks) : blocks[k] <= now
  /\ \A j, k \in 1 .. Len(blocks) : j <= k => blocks[j] <= blocks[k]
  /\ \A k \in 1 .. Len(eventRows) : eventRows[k].blockNumber <= now
  /\ \A k \in 1 .. Len(eventRows) : \A j \in 1 .. Len(blocks) :
       eventRows[k].blockNumber <= blocks[j]
  /\ \A j, k \in 1 .. Len(eventRows) :
       j <= k => eventRows[j].blockNumber >= eventRows[k].blockNumber

FirstOfPass(k) == \A j \in 1 .. k - 1 : eventRows[j].pass # eventRows[k].pass

RowTrue(row) ==
  /\ row.kind = "LISTED" => passRows[row.pass].listedPrice > 0
  /\ row.kind \in {"UNLISTED", "RESOLD"} => passRows[row.pass].listedPrice = 0

(* In the order they were saved, the row saved last of a pass is true of it. *)
FeedInv ==
  /\ eventRows \in Seq(EventRow)
  /\ \A k \in 1 .. Len(eventRows) : eventRows[k].pass \in DOMAIN passRows
  /\ \A k \in 1 .. Len(eventRows) : FirstOfPass(k) => RowTrue(eventRows[k])

LEMMA RowNumbers ==
  ASSUME FeedInv
  PROVE  \A k \in 1 .. Len(eventRows) :
           eventRows[k] \in EventRow /\ eventRows[k].blockNumber \in Nat
  <1>1. \A k \in 1 .. Len(eventRows) : eventRows[k] \in EventRow
    BY DEF FeedInv
  <1>2. \A row \in EventRow : row.blockNumber \in Nat
    BY DEF EventRow
  <1> QED
    BY <1>1, <1>2

IndexInv ==
  /\ ContractsInv /\ EventsInv /\ AnnouncedFirst /\ RowsInv
  /\ PassesFollowed /\ PlanFollowed /\ FeedInv /\ BlocksInv
  /\ totals \in TotalsRow

(* A pass issued now has nothing told of it that is on its way, and no row. *)
LEMMA FreshUntold ==
  ASSUME IndexInv, NEW i \in Tokens, ~(i < next_token_id)
  PROVE  /\ i \notin DOMAIN passRows
         /\ \A k \in 1 .. Len(pending) : pending[k] \notin About(i)
         /\ NoneOf(pending, Announces(i))
  <1>1. \A k \in 1 .. Len(pending) : pending[k] \notin About(i)
    BY DEF IndexInv, EventsInv, About
  <1>2. Announces(i) \subseteq About(i)
    BY DEF Announces, About, PassEvents
  <1> QED
    BY <1>1, <1>2 DEF IndexInv, RowsInv, NoneOf

(* What stood before a transaction is followed after it. *)
LEMMA OldFollowed ==
  ASSUME IndexInv, ContractsInv', Transaction, NEW evs, Tells(evs),
         NEW i \in Tokens, i < next_token_id, Tracked(i)', ~Burned(i)'
  PROVE  (OwnerFollowed(i) /\ AskFollowed(i) /\ TermsFollowed(i))'
  <1>1. /\ evs \in Seq(Events) /\ pending \in Seq(Events) /\ pending' = pending \o evs
        /\ ToldOfOld(evs, i) /\ passRows' = passRows
    BY DEF Tells, IndexInv, EventsInv, indexVars
  <1>2. NoneOf(pending', Announces(i)) <=> NoneOf(pending, Announces(i))
    BY <1>1, ConcatOthers DEF ToldOfOld
  <1>3. TermsOf(i) /\ expiries'[i] = expiries[i] /\ expiries[i] # 0
    BY TransactionTerms DEF IndexInv, ContractsInv, TermsOf, Burned
  <1>4. OwnerFollowed(i) /\ AskFollowed(i) /\ TermsFollowed(i)
    BY <1>1, <1>2, <1>3 DEF IndexInv, PassesFollowed, Tracked, Burned
  <1>5. OwnerFollowed(i)'
    <2>1. CASE NoneOf(evs, OwnerTold(i)) /\ owners'[i] = owners[i]
      <3>1. OwnerTrue(i)' = OwnerTrue(i)
        BY <2>1 DEF OwnerTrue
      <3>2. /\ NoneOf(pending', OwnerTold(i)) <=> NoneOf(pending, OwnerTold(i))
            /\ LastIn(pending', OwnerTold(i), OwnerTrue(i))
        BY <1>1, <1>4, <2>1, ConcatOthers DEF OwnerFollowed
      <3> QED
        BY <1>1, <1>4, <2>1, <3>1, <3>2 DEF OwnerFollowed
    <2>2. CASE ~NoneOf(evs, OwnerTold(i)) /\ LastIn(evs, OwnerTold(i), OwnerTrue(i)')
      <3>1. /\ ~NoneOf(pending', OwnerTold(i))
            /\ LastIn(pending', OwnerTold(i), OwnerTrue(i)')
        BY <1>1, <2>2, ConcatLast
      <3> QED
        BY <3>1 DEF OwnerFollowed
    <2> QED
      BY <1>1, <1>3, <2>1, <2>2 DEF ToldOfOld
  <1>6. AskFollowed(i)'
    <2>1. CASE NoneOf(evs, AskTold(i)) /\ listings'[i] = listings[i]
      <3>1. AskTrue(i)' = AskTrue(i)
        BY <2>1 DEF AskTrue
      <3>2. /\ NoneOf(pending', AskTold(i)) <=> NoneOf(pending, AskTold(i))
            /\ LastIn(pending', AskTold(i), AskTrue(i))
        BY <1>1, <1>4, <2>1, ConcatOthers DEF AskFollowed
      <3> QED
        BY <1>1, <1>4, <2>1, <3>1, <3>2 DEF AskFollowed
    <2>2. CASE ~NoneOf(evs, AskTold(i)) /\ LastIn(evs, AskTold(i), AskTrue(i)')
      <3>1. /\ ~NoneOf(pending', AskTold(i))
            /\ LastIn(pending', AskTold(i), AskTrue(i)')
        BY <1>1, <2>2, ConcatLast
      <3> QED
        BY <3>1 DEF AskFollowed
    <2> QED
      BY <1>1, <2>1, <2>2 DEF ToldOfOld
  <1>7. TermsFollowed(i)'
    <2>1. ASSUME NEW k \in 1 .. Len(pending'), NEW e, e = pending'[k], e \in Announces(i)
          PROVE  TermsTold(e, i)'
      <3>1. k \in 1 .. Len(pending) /\ pending[k] = e
        BY <1>1, <2>1, ConcatEvent DEF ToldOfOld, NoneOf
      <3> QED
        BY <1>3, <1>4, <2>1, <3>1 DEF TermsFollowed, TermsTold, TermsOf
    <2>2. \A k \in 1 .. Len(pending') :
            pending'[k] \in Announces(i) => TermsTold(pending[k], i)'
      BY <2>1 DEF TermsTold
    <2>3. starts'[i] = 0 /\ token_plans'[i] = 0
      BY <1>3, <1>4 DEF TermsFollowed, TermsOf
    <2>4. i \in DOMAIN passRows' => RowTerms(i)'
      BY <1>1, <1>3, <1>4 DEF TermsFollowed, RowTerms, TermsOf
    <2> QED
      BY <2>2, <2>3, <2>4 DEF TermsFollowed
  <1> QED
    BY <1>5, <1>6, <1>7

(* A pass that a transaction issues is followed if it is introduced. *)
LEMMA NewFollowed ==
  ASSUME IndexInv, NEW evs, Tells(evs), NEW i \in Tokens, ~(i < next_token_id), Tracked(i)'
  PROVE  (OwnerFollowed(i) /\ AskFollowed(i) /\ TermsFollowed(i))'
  <1>1. /\ evs \in Seq(Events) /\ pending \in Seq(Events) /\ pending' = pending \o evs
        /\ ToldOfNew(evs, i) /\ passRows' = passRows
    BY DEF Tells, IndexInv, EventsInv, indexVars
  <1>2. i \notin DOMAIN passRows /\ NoneOf(pending, Announces(i))
    BY FreshUntold
  <1>3. ~NoneOf(evs, Announces(i))
    BY <1>1, <1>2, ConcatOthers DEF Tracked
  <1>4. Announces(i) \subseteq OwnerTold(i) /\ Announces(i) \subseteq AskTold(i)
    BY DEF Announces, OwnerTold, AskTold
  <1>5. /\ LastIn(evs, OwnerTold(i), OwnerTrue(i)') /\ ~NoneOf(evs, OwnerTold(i))
        /\ LastIn(evs, AskTold(i), AskTrue(i)') /\ ~NoneOf(evs, AskTold(i))
    BY <1>1, <1>3, <1>4 DEF ToldOfNew, NoneOf
  <1>6. /\ LastIn(pending', OwnerTold(i), OwnerTrue(i)') /\ ~NoneOf(pending', OwnerTold(i))
        /\ LastIn(pending', AskTold(i), AskTrue(i)') /\ ~NoneOf(pending', AskTold(i))
    BY <1>1, <1>5, ConcatLast
  <1>7. OwnerFollowed(i)' /\ AskFollowed(i)'
    BY <1>6 DEF OwnerFollowed, AskFollowed
  <1>8. TermsFollowed(i)'
    <2>1. ASSUME NEW k \in 1 .. Len(pending'), NEW e, e = pending'[k], e \in Announces(i)
          PROVE  TermsTold(e, i)'
      <3>1. k - Len(pending) \in 1 .. Len(evs) /\ e = evs[k - Len(pending)]
        BY <1>1, <1>2, <2>1, ConcatEvent DEF NoneOf
      <3> QED
        BY <1>1, <1>3, <2>1, <3>1 DEF ToldOfNew, TermsTold
    <2>2. \A k \in 1 .. Len(pending') :
            pending'[k] \in Announces(i) => TermsTold(pending[k], i)'
      BY <2>1 DEF TermsTold
    <2>3. starts'[i] = 0 /\ token_plans'[i] = 0 /\ i \notin DOMAIN passRows'
      BY <1>1, <1>2, <1>3 DEF ToldOfNew
    <2> QED
      BY <2>2, <2>3 DEF TermsFollowed
  <1> QED
    BY <1>7, <1>8

LEMMA TransactionAnnounces ==
  ASSUME IndexInv, NEW evs, Tells(evs)
  PROVE  AnnouncedFirst'
  <1>1. /\ evs \in Seq(Events) /\ pending \in Seq(Events) /\ pending' = pending \o evs
        /\ passRows' = passRows /\ Len(pending) \in Nat /\ Len(evs) \in Nat
        /\ \A i \in Tokens : IF i < next_token_id THEN ToldOfOld(evs, i)
                                                  ELSE ToldOfNew(evs, i)
    BY DEF Tells, IndexInv, EventsInv, indexVars
  <1> SUFFICES ASSUME NEW i \in Tokens, NEW k \in 1 .. Len(pending'),
                      pending'[k] \in Announces(i)
               PROVE  /\ i \notin DOMAIN passRows
                      /\ \A m \in 1 .. Len(pending') : m < k => pending'[m] \notin About(i)
    BY <1>1 DEF AnnouncedFirst
  <1>2. CASE i < next_token_id
    <2>1. k \in 1 .. Len(pending) /\ pending[k] \in Announces(i)
      BY <1>1, <1>2, ConcatEvent DEF ToldOfOld, NoneOf
    <2>2. /\ i \notin DOMAIN passRows
          /\ \A m \in 1 .. Len(pending) : m < k => pending[m] \notin About(i)
      BY <2>1 DEF IndexInv, AnnouncedFirst
    <2>3. ASSUME NEW m \in 1 .. Len(pending'), m < k
          PROVE  m \in 1 .. Len(pending) /\ pending'[m] = pending[m]
      <3>1. m \in 1 .. Len(pending)
        BY <1>1, <2>1, <2>3
      <3> QED
        BY <1>1, <3>1, ConcatFacts
    <2> QED
      BY <2>2, <2>3
  <1>3. CASE ~(i < next_token_id)
    <2>1. /\ i \notin DOMAIN passRows /\ NoneOf(pending, Announces(i))
          /\ \A m \in 1 .. Len(pending) : pending[m] \notin About(i)
      BY <1>3, FreshUntold
    <2>2. k - Len(pending) \in 1 .. Len(evs) /\ evs[k - Len(pending)] \in Announces(i)
      BY <1>1, <2>1, ConcatEvent DEF NoneOf
    <2>3. k - Len(pending) = 1
      BY <1>1, <1>3, <2>2 DEF ToldOfNew, NoneOf
    <2>4. ASSUME NEW m \in 1 .. Len(pending'), m < k
          PROVE  m \in 1 .. Len(pending) /\ pending'[m] = pending[m]
      <3>1. m \in 1 .. Len(pending)
        BY <1>1, <2>3, <2>4
      <3> QED
        BY <1>1, <3>1, ConcatFacts
    <2> QED
      BY <2>1, <2>4
  <1> QED
    BY <1>2, <1>3

LEMMA TransactionPlan ==
  ASSUME IndexInv, NEW evs, Tells(evs)
  PROVE  PlanFollowed'
  <1>1. /\ evs \in Seq(Events) /\ pending \in Seq(Events) /\ pending' = pending \o evs
        /\ planRows' = planRows /\ Len(pending) \in Nat /\ Len(evs) \in Nat
        /\ \A k \in 1 .. Len(evs) : evs[k] \notin Creation
        /\ ToldOfPlan(evs) /\ PlanFollowed
    BY DEF Tells, IndexInv, EventsInv, indexVars, Creation
  <1>2. \/ /\ DOMAIN planRows = {} /\ pending' # << >> /\ pending'[1] \in Creation
           /\ \A k \in 1 .. Len(pending') : k > 1 => pending'[k] \notin Creation
        \/ DOMAIN planRows = {0} /\ PlanRowKept' /\ NoneOf(pending', Creation)
    <2>1. CASE /\ DOMAIN planRows = {} /\ pending # << >> /\ pending[1] \in Creation
               /\ \A k \in 1 .. Len(pending) : k > 1 => pending[k] \notin Creation
      <3>1. 1 \in 1 .. Len(pending)
        BY <1>1, <2>1, TailFacts
      <3>2. pending'[1] = pending[1] /\ Len(pending') >= 1
        BY <1>1, <3>1, ConcatFacts
      <3>3. \A k \in 1 .. Len(pending') : k > 1 => pending'[k] \notin Creation
        BY <1>1, <2>1, ConcatEvent
      <3> QED
        BY <2>1, <3>2, <3>3
    <2>2. CASE DOMAIN planRows = {0} /\ PlanRowKept /\ NoneOf(pending, Creation)
      <3>1. NoneOf(pending', Creation)
        BY <1>1, <2>2, ConcatEvent DEF NoneOf
      <3> QED
        BY <1>1, <2>2, <3>1 DEF PlanRowKept
    <2> QED
      BY <1>1, <2>1, <2>2 DEF PlanFollowed
  <1>3. /\ LastIn(pending', OpenTold, OpenTrue')
        /\ NoneOf(pending', OpenTold) => planRows[0].open = plan_open'[0]
    <2>1. CASE NoneOf(evs, OpenTold) /\ plan_open'[0] = plan_open[0]
      <3>1. OpenTrue' = OpenTrue
        BY <2>1 DEF OpenTrue
      <3>2. /\ NoneOf(pending', OpenTold) <=> NoneOf(pending, OpenTold)
            /\ LastIn(pending', OpenTold, OpenTrue)
        BY <1>1, <2>1, ConcatOthers DEF PlanFollowed
      <3> QED
        BY <1>1, <2>1, <3>1, <3>2 DEF PlanFollowed
    <2>2. CASE ~NoneOf(evs, OpenTold) /\ LastIn(evs, OpenTold, OpenTrue')
      BY <1>1, <2>2, ConcatLast
    <2> QED
      BY <1>1, <2>1, <2>2 DEF ToldOfPlan
  <1> QED
    BY <1>1, <1>2, <1>3 DEF PlanFollowed

(* What a transaction emits is of the block it is in. *)
LEMMA EmitsNow ==
  ASSUME Transaction
  PROVE  /\ now' = now
         /\ blocks' = [k \in DOMAIN pending' |-> IF k \in DOMAIN blocks THEN blocks[k] ELSE now]
  <1> DEFINE Goal == /\ now' = now
                     /\ blocks' = [k \in DOMAIN pending' |->
                                    IF k \in DOMAIN blocks THEN blocks[k] ELSE now]
  <1>1. CASE IssuerEmits
    BY <1>1
    DEF IssuerEmits, EmitMint, EmitSetPlanOpen, Emit, OnCore, Mint, SetPlanOpen
  <1>2. ASSUME NEW c \in Users, HolderEmits(c) PROVE Goal
    <2>1. ASSUME NEW p \in Plans, NEW v \in Prices, EmitBuyPass(c, p, v) PROVE Goal
      BY <2>1 DEF EmitBuyPass, Emit, OnCore, BuyPass
    <2>2. ASSUME NEW ids \in IdLists, EmitBundle(c, ids) PROVE Goal
      BY <2>2 DEF EmitBundle, Emit, OnCore, Bundle
    <2>3. ASSUME NEW id \in Tokens, NEW n \in PartCounts, EmitSplit(c, id, n) PROVE Goal
      BY <2>3 DEF EmitSplit, Emit, OnCore, Split
    <2>4. ASSUME NEW id \in Tokens, NEW to \in Recipients, EmitTransfer(c, to, id) PROVE Goal
      BY <2>4 DEF EmitTransfer, Emit, OnCore, TransferPass
    <2>5. ASSUME NEW id \in Tokens, NEW price \in AskPrices, EmitList(c, id, price) PROVE Goal
      BY <2>5 DEF EmitList, Emit, List, coreVars
    <2>6. ASSUME NEW id \in Tokens, EmitUnlist(c, id) PROVE Goal
      BY <2>6 DEF EmitUnlist, Emit, Unlist, coreVars
    <2>7. ASSUME NEW id \in Tokens, NEW v \in Values, EmitBuy(c, id, v) PROVE Goal
      BY <2>7 DEF EmitBuy, Emit, Buy
    <2> QED
      BY <1>2, <2>1, <2>2, <2>3, <2>4, <2>5, <2>6, <2>7 DEF HolderEmits
  <1> QED
    BY <1>1, <1>2 DEF Transaction

LEMMA TransactionBlocks ==
  ASSUME IndexInv, Transaction, NEW evs \in Seq(Events), pending' = pending \o evs,
         UNCHANGED eventRows
  PROVE  BlocksInv'
  <1>1. /\ blocks \in Seq(Nat) /\ Len(blocks) = Len(pending) /\ now \in Nat
        /\ pending \in Seq(Events) /\ eventRows \in Seq(EventRow)
    BY NumberFacts DEF IndexInv, BlocksInv, EventsInv, FeedInv, ContractsInv
  <1>2. /\ pending' \in Seq(Events) /\ Len(pending) \in Nat /\ Len(pending') \in Nat
        /\ Len(pending') >= Len(pending) /\ DOMAIN pending' = 1 .. Len(pending')
        /\ DOMAIN blocks = 1 .. Len(pending)
    BY <1>1, ConcatFacts
  <1>3. /\ now' = now
        /\ blocks' = [k \in 1 .. Len(pending') |->
                        IF k \in 1 .. Len(pending) THEN blocks[k] ELSE now]
    BY <1>2, EmitsNow
  <1>4. /\ blocks' \in Seq(Nat) /\ Len(blocks') = Len(pending')
        /\ \A k \in 1 .. Len(pending') :
             blocks'[k] = IF k \in 1 .. Len(pending) THEN blocks[k] ELSE now
    BY <1>1, <1>2, <1>3
  <1>5. \A k \in 1 .. Len(pending) : blocks[k] \in Nat /\ blocks[k] <= now
    BY <1>1 DEF IndexInv, BlocksInv
  <1>6. \A j, k \in 1 .. Len(pending') : j <= k => blocks'[j] <= blocks'[k]
    BY <1>1, <1>2, <1>4, <1>5 DEF IndexInv, BlocksInv
  <1>7. \A k \in 1 .. Len(eventRows) : \A j \in 1 .. Len(pending') :
          eventRows[k].blockNumber <= blocks'[j]
    BY <1>1, <1>2, <1>4, <1>5 DEF IndexInv, BlocksInv
  <1>8. \A k \in 1 .. Len(pending') : blocks'[k] <= now
    BY <1>1, <1>2, <1>4, <1>5
  <1> QED
    BY <1>1, <1>3, <1>4, <1>6, <1>7, <1>8 DEF IndexInv, BlocksInv

LEMMA IndexTransaction ==
  ASSUME IndexInv, Transaction
  PROVE  IndexInv'
  <1>1. ContractsInv' /\ next_token_id' \in Nat /\ next_token_id' >= next_token_id
    BY TransactionContracts DEF IndexInv
  <1>2. PICK evs : Tells(evs)
    BY TransactionTells DEF IndexInv
  <1>3. /\ evs \in Seq(Events) /\ pending \in Seq(Events) /\ pending' = pending \o evs
        /\ UNCHANGED indexVars /\ next_token_id \in Nat /\ Tokens \subseteq Nat
    BY <1>2, NumberFacts DEF Tells, IndexInv, EventsInv, ContractsInv
  <1>4. \A i \in Tokens : i < next_token_id => i < next_token_id'
    BY <1>1, <1>3
  <1>5. EventsInv'
    <2>1. ASSUME NEW k \in 1 .. Len(pending'), pending'[k].event \in PassEvents
          PROVE  pending'[k].tokenId < next_token_id'
      <3>1. CASE k \in 1 .. Len(pending) /\ pending'[k] = pending[k]
        <4>1. pending[k].tokenId \in Tokens /\ pending[k].tokenId < next_token_id
          <5>1. pending[k] \in Events
            BY <1>3, <3>1
          <5>2. pending[k].tokenId \in Tokens
            BY <2>1, <3>1, <5>1 DEF Events, PassEvents, Introduces
          <5> QED
            BY <2>1, <3>1, <5>2 DEF IndexInv, EventsInv
        <4> QED
          BY <1>4, <3>1, <4>1
      <3>2. CASE k - Len(pending) \in 1 .. Len(evs) /\ pending'[k] = evs[k - Len(pending)]
        BY <1>2, <2>1, <3>2 DEF Tells
      <3> QED
        BY <1>3, <3>1, <3>2, ConcatEvent
    <2> QED
      BY <1>3, <2>1, ConcatFacts DEF EventsInv
  <1>6. RowsInv'
    BY <1>3, <1>4 DEF IndexInv, RowsInv, indexVars
  <1>7. PassesFollowed'
    <2>1. ASSUME NEW i \in Tokens, Tracked(i)', ~Burned(i)'
          PROVE  (OwnerFollowed(i) /\ AskFollowed(i) /\ TermsFollowed(i))'
      BY <1>1, <1>2, <2>1, OldFollowed, NewFollowed
    <2> QED
      BY <2>1 DEF PassesFollowed
  <1>8. FeedInv' /\ (totals \in TotalsRow)'
    BY <1>3 DEF IndexInv, FeedInv, FirstOfPass, RowTrue, indexVars
  <1>9. BlocksInv'
    BY <1>3, TransactionBlocks DEF indexVars
  <1> QED
    BY <1>1, <1>2, <1>5, <1>6, <1>7, <1>8, <1>9, TransactionAnnounces, TransactionPlan DEF IndexInv

LEMMA IndexTick ==
  ASSUME IndexInv, Tick, UNCHANGED <<escrowVars, marketVars, pending, blocks, indexVars>>
  PROVE  IndexInv'
  <1>1. /\ UNCHANGED <<pending, planRows, passRows, eventRows, totals, listings>>
        /\ UNCHANGED <<owners, expiries, starts, token_plans, token_paid, next_token_id>>
        /\ UNCHANGED <<issuers, next_plan_id, plan_issuers, plan_prices, plan_durations>>
        /\ UNCHANGED <<plan_open, escrowYield>>
    BY DEF Tick, tokenVars, planVars, marketVars, indexVars
  <1>2. MarketInv'
    BY MarketStepInv DEF IndexInv, ContractsInv, MarketNext
  <1>3. ContractsInv'
    BY <1>1, <1>2 DEF IndexInv, ContractsInv, FreshIdsUnowned, PlansAsDeployed, IssuedByAdmin
  <1>4. EventsInv' /\ AnnouncedFirst' /\ RowsInv' /\ FeedInv' /\ (totals \in TotalsRow)'
    BY <1>1 DEF IndexInv, EventsInv, AnnouncedFirst, RowsInv, FeedInv, FirstOfPass, RowTrue
  <1>8. BlocksInv'
    <2>1. now \in Nat /\ now' \in Nat /\ now' >= now /\ UNCHANGED <<blocks, pending, eventRows>>
      BY <1>1, NumberFacts DEF IndexInv, ContractsInv, Tick, TimePasses
    <2>2. /\ \A k \in 1 .. Len(blocks) : blocks[k] \in Nat
          /\ \A k \in 1 .. Len(eventRows) : eventRows[k].blockNumber \in Nat
      BY RowNumbers DEF IndexInv, BlocksInv
    <2> QED
      BY <2>1, <2>2 DEF IndexInv, BlocksInv
  <1>5. PlanFollowed'
    BY <1>1 DEF IndexInv, PlanFollowed, PlanRowKept, OpenTrue
  <1>6. \A i \in Tokens : /\ OwnerTrue(i)' = OwnerTrue(i) /\ AskTrue(i)' = AskTrue(i)
                          /\ \A e : TermsTold(e, i)' <=> TermsTold(e, i)
    BY <1>1 DEF OwnerTrue, AskTrue, TermsTold
  <1>7. PassesFollowed'
    <2>1. ASSUME NEW i \in Tokens, Tracked(i)', ~Burned(i)'
          PROVE  (OwnerFollowed(i) /\ AskFollowed(i) /\ TermsFollowed(i))'
      <3>1. OwnerFollowed(i) /\ AskFollowed(i) /\ TermsFollowed(i)
        BY <1>1, <2>1 DEF IndexInv, PassesFollowed, Tracked, Burned
      <3> QED
        BY <1>1, <1>6, <3>1
        DEF OwnerFollowed, AskFollowed, TermsFollowed, RowTerms, TermsTold
    <2> QED
      BY <2>1 DEF PassesFollowed
  <1> QED
    BY <1>3, <1>4, <1>5, <1>7, <1>8 DEF IndexInv

LEMMA IndexInitInv == SubgraphInit => IndexInv
  <1> SUFFICES ASSUME SubgraphInit PROVE IndexInv
    OBVIOUS
  <1> DEFINE e == PlanCreated(0, Admin, PlanPrice, PlanDuration)
  <1>1. /\ pending = <<e>> /\ planRows = << >> /\ passRows = << >> /\ eventRows = << >>
        /\ totals = NoTotals /\ ContractsInv /\ plan_open[0] = TRUE
    BY ContractsInitInv, ConstantFacts
    DEF SubgraphInit, SystemInit, DeployedWithPlan, Plans
  <1>2. e \in Events /\ e.event = "PlanCreated"
    BY DEF PlanCreated, Events
  <1> HIDE DEF e
  <1>3. /\ pending \in Seq(Events) /\ Len(pending) = 1 /\ pending[1] = e
        /\ \A k \in 1 .. Len(pending) : k = 1
    BY <1>1, <1>2
  <1>4. DOMAIN passRows = {} /\ DOMAIN planRows = {} /\ pending # << >>
    BY <1>1
  <1>5. EventsInv /\ AnnouncedFirst /\ RowsInv
    BY <1>2, <1>3, <1>4
    DEF EventsInv, AnnouncedFirst, RowsInv, Announces, Introduces, PassEvents
  <1>6. PassesFollowed
    <2>1. \A i \in Tokens : ~Tracked(i)
      BY <1>2, <1>3, <1>4 DEF Tracked, NoneOf, Announces, Introduces
    <2> QED
      BY <2>1 DEF PassesFollowed
  <1>7. PlanFollowed
    <2>1. e \in Creation /\ e \in OpenTold /\ e \in OpenTrue
      BY <1>1, <1>2 DEF Creation, OpenTold, OpenTrue, TheOpen
    <2>2. LastIn(pending, OpenTold, OpenTrue) /\ ~NoneOf(pending, OpenTold)
      BY <1>3, <2>1 DEF LastIn, NoneOf
    <2> QED
      BY <1>3, <1>4, <2>1, <2>2 DEF PlanFollowed
  <1>8. FeedInv /\ totals \in TotalsRow
    BY <1>1 DEF FeedInv, NoTotals, TotalsRow
  <1>9. BlocksInv
    <2>1. blocks = <<now>> /\ now \in Nat /\ Len(eventRows) = 0
      BY <1>1, NumberFacts DEF SubgraphInit, ContractsInv
    <2>2. blocks \in Seq(Nat) /\ Len(blocks) = 1 /\ \A k \in 1 .. Len(blocks) : blocks[k] = now
      BY <2>1
    <2> QED
      BY <1>3, <2>1, <2>2 DEF BlocksInv
  <1> QED
    BY <1>1, <1>5, <1>6, <1>7, <1>8, <1>9 DEF IndexInv

-----------------------------------------------------------------------------
(* What handling an event makes of the rows.                               *)

Handled(e) ==
  \/ e.event = "PlanCreated" /\ handlePlanCreated(e)
  \/ e.event = "PlanOpenSet" /\ handlePlanOpenSet(e)
  \/ e.event = "PassPurchased" /\ handlePassPurchased(e)
  \/ e.event = "Minted" /\ handleMinted(e)
  \/ e.event = "PassTransferred" /\ handlePassTransferred(e)
  \/ e.event = "Listed" /\ handleListed(e)
  \/ e.event = "Unlisted" /\ handleUnlisted(e)
  \/ e.event = "Bought" /\ handleBought(e)

(* Row i after e: what e tells of the pass is taken over, and the rest stays. *)
RowTakes(e, i) ==
  /\ i \in DOMAIN passRows' <=> i \in DOMAIN passRows \/ e \in Announces(i)
  /\ i \in DOMAIN passRows' =>
       /\ passRows'[i] \in PassRow
       /\ passRows'[i].owner = IF e \in OwnerTold(i) THEN TheOwner(e)
                                                     ELSE passRows[i].owner
       /\ passRows'[i].listedPrice = IF e \in AskTold(i) THEN TheAsk(e)
                                                         ELSE passRows[i].listedPrice
       /\ IF e \in Announces(i)
          THEN /\ passRows'[i].issuer = Admin /\ passRows'[i].expiry = e.expiry
               /\ passRows'[i].originalPrice = IF e.event = "Minted" THEN 0 ELSE PlanPrice
               /\ passRows'[i].plan = IF e.event = "Minted" THEN NoPlan ELSE 0
          ELSE /\ passRows'[i].issuer = passRows[i].issuer
               /\ passRows'[i].expiry = passRows[i].expiry
               /\ passRows'[i].originalPrice = passRows[i].originalPrice
               /\ passRows'[i].plan = passRows[i].plan

LEMMA EventFields ==
  ASSUME NEW e \in Events
  PROVE  /\ e.event \in PassEvents \cup {"PlanCreated", "PlanOpenSet"}
         /\ e.event \in PassEvents => e.tokenId \in Tokens
         /\ e.event = "PlanCreated" =>
              /\ e.planId = 0 /\ e.issuer = Admin /\ e.price = PlanPrice
              /\ e.durationSeconds = PlanDuration
         /\ e.event = "PlanOpenSet" => e.planId = 0 /\ e.open \in BOOLEAN
         /\ e.event = "PassPurchased" =>
              /\ e.planId = 0 /\ e.buyer \in Holders /\ e.price = PlanPrice
              /\ e.expiry \in Nat
         /\ e.event = "Minted" => e.to \in Holders /\ e.issuer = Admin /\ e.expiry \in Nat
         /\ e.event = "PassTransferred" => e.to \in Holders
         /\ e.event = "Listed" => e.price \in Nat \ {0}
         /\ e.event = "Bought" => e.buyer \in Holders /\ e.price \in Nat /\ e.royalty \in Nat
  BY DEF Events, PassEvents, Introduces

(* Which sets an event of each kind is in. *)
LEMMA EventKinds ==
  ASSUME NEW e \in Events, NEW i
  PROVE  /\ e \in About(i) <=> e.event \in PassEvents /\ e.tokenId = i
         /\ e \in Announces(i) <=> e.event \in {"PassPurchased", "Minted"} /\ e.tokenId = i
         /\ e \in OwnerTold(i) <=>
              /\ e.event \in {"PassPurchased", "Minted", "PassTransferred", "Bought"}
              /\ e.tokenId = i
         /\ e \in AskTold(i) <=>
              /\ e.event \in {"PassPurchased", "Minted", "Listed", "Unlisted", "Bought"}
              /\ e.tokenId = i
         /\ e \in OpenTold <=> e.event \in {"PlanCreated", "PlanOpenSet"}
         /\ e \in Creation <=> e.event = "PlanCreated"
  BY DEF About, Announces, OwnerTold, AskTold, OpenTold, Creation, PassEvents, Introduces

(* Nothing is told of row i. *)
LEMMA RowStays ==
  ASSUME RowsInv, NEW e \in Events, NEW i \in Tokens,
         e \notin Announces(i),
         e \notin OwnerTold(i) \/ i \notin DOMAIN passRows,
         e \notin AskTold(i) \/ i \notin DOMAIN passRows,
         i \in DOMAIN passRows' <=> i \in DOMAIN passRows,
         i \in DOMAIN passRows => passRows'[i] = passRows[i]
  PROVE  RowTakes(e, i)
  BY DEF RowTakes, RowsInv

LEMMA AnnouncedRow ==
  ASSUME NEW e \in Events, NEW i \in Tokens, NEW plan \in {0, NoPlan},
         NEW owner \in Holders, NEW paid \in Nat,
         e \in Announces(i), owner = TheOwner(e),
         paid = IF e.event = "Minted" THEN 0 ELSE PlanPrice,
         plan = IF e.event = "Minted" THEN NoPlan ELSE 0,
         passRows' = Saved(passRows, i,
           [plan |-> plan, owner |-> owner, issuer |-> Admin, expiry |-> e.expiry,
            originalPrice |-> paid, listedPrice |-> 0, resaleCount |-> 0])
  PROVE  RowTakes(e, i)
  <1> DEFINE row == [plan |-> plan, owner |-> owner, issuer |-> Admin, expiry |-> e.expiry,
                     originalPrice |-> paid, listedPrice |-> 0, resaleCount |-> 0]
  <1>1. e.expiry \in Nat /\ e.event \in {"PassPurchased", "Minted"}
    BY EventFields, EventKinds
  <1>2. row \in PassRow
    <2>1. Admin \in Holders /\ 0 \in Plans
      BY ConstantFacts
    <2> QED
      BY <1>1, <2>1 DEF PassRow
  <1>3. /\ row.owner = owner /\ row.listedPrice = 0 /\ row.issuer = Admin
        /\ row.expiry = e.expiry /\ row.originalPrice = paid /\ row.plan = plan
    OBVIOUS
  <1>4. i \in DOMAIN passRows' /\ passRows'[i] = row
    BY DEF Saved
  <1> HIDE DEF row
  <1>5. e \in OwnerTold(i) /\ e \in AskTold(i) /\ TheAsk(e) = 0
    BY <1>1, EventKinds DEF TheAsk
  <1> QED
    BY <1>2, <1>3, <1>4, <1>5 DEF RowTakes

LEMMA OtherRow ==
  ASSUME RowsInv, NEW e \in Events, NEW i \in Tokens, e.tokenId # i, NEW row,
         passRows' = Saved(passRows, e.tokenId, row)
  PROVE  RowTakes(e, i)
  <1>1. /\ i \in DOMAIN passRows' <=> i \in DOMAIN passRows
        /\ i \in DOMAIN passRows => passRows'[i] = passRows[i]
    BY DEF Saved
  <1> QED
    BY <1>1, EventKinds, RowStays

(* A row that is there takes new values of what an event may tell. *)
LEMMA UpdatedRow ==
  ASSUME RowsInv, NEW e \in Events, NEW i \in Tokens, e.tokenId \in DOMAIN passRows,
         e.event \in {"PassTransferred", "Listed", "Unlisted", "Bought"},
         NEW row,
         row.owner = IF e \in OwnerTold(e.tokenId) THEN TheOwner(e)
                                                   ELSE passRows[e.tokenId].owner,
         row.listedPrice = IF e \in AskTold(e.tokenId) THEN TheAsk(e)
                                                       ELSE passRows[e.tokenId].listedPrice,
         row \in PassRow,
         row.issuer = passRows[e.tokenId].issuer, row.expiry = passRows[e.tokenId].expiry,
         row.originalPrice = passRows[e.tokenId].originalPrice,
         row.plan = passRows[e.tokenId].plan,
         passRows' = [passRows EXCEPT ![e.tokenId] = row]
  PROVE  RowTakes(e, i)
  <1>1. e \notin Announces(i)
    BY EventKinds
  <1>2. CASE i = e.tokenId
    <2>1. i \in DOMAIN passRows /\ i \in DOMAIN passRows' /\ passRows'[i] = row
      BY <1>2
    <2> QED
      BY <1>1, <1>2, <2>1 DEF RowTakes
  <1>3. CASE i # e.tokenId
    <2>1. /\ i \in DOMAIN passRows' <=> i \in DOMAIN passRows
          /\ i \in DOMAIN passRows => passRows'[i] = passRows[i]
      BY <1>3
    <2> QED
      BY <1>1, <1>3, <2>1, EventKinds, RowStays
  <1> QED
    BY <1>2, <1>3

LEMMA BoughtRow ==
  ASSUME RowsInv, NEW e \in Events, e.event = "Bought", handleBought(e),
         NEW t \in DOMAIN passRows, t = e.tokenId,
         NEW b \in Holders, b = e.buyer, NEW r, r = passRows[t]
  PROVE  \E row \in PassRow :
           /\ passRows' = [passRows EXCEPT ![t] = row]
           /\ row.owner = b /\ row.listedPrice = 0
           /\ row.issuer = r.issuer /\ row.expiry = r.expiry
           /\ row.originalPrice = r.originalPrice /\ row.plan = r.plan
  <1>0. passRows' = [passRows EXCEPT ![t].owner = b, ![t].listedPrice = 0,
                                     ![t].resaleCount = @ + 1]
    BY DEF handleBought, Unknown
  <1>1. r \in PassRow
    BY DEF RowsInv
  <1> DEFINE r1 == [r EXCEPT !.owner = b]
             r2 == [r1 EXCEPT !.listedPrice = 0]
             r3 == [r2 EXCEPT !.resaleCount = @ + 1]
  <1>2. /\ r1 \in PassRow /\ r1.owner = b /\ r1.issuer = r.issuer
        /\ r1.expiry = r.expiry /\ r1.originalPrice = r.originalPrice /\ r1.plan = r.plan
    BY <1>1 DEF PassRow
  <1> HIDE DEF r1
  <1>3. /\ r2 \in PassRow /\ r2.owner = b /\ r2.issuer = r.issuer
        /\ r2.expiry = r.expiry /\ r2.originalPrice = r.originalPrice /\ r2.plan = r.plan
        /\ r2.listedPrice = 0
    BY <1>2 DEF PassRow
  <1> HIDE DEF r2
  <1>4. /\ r3 \in PassRow /\ r3.owner = b /\ r3.issuer = r.issuer
        /\ r3.expiry = r.expiry /\ r3.originalPrice = r.originalPrice /\ r3.plan = r.plan
        /\ r3.listedPrice = 0
    BY <1>3 DEF PassRow
  <1>5. passRows'[t] = r3
    <2>1. passRows'[t] = [r EXCEPT !.owner = b, !.listedPrice = 0, !.resaleCount = @ + 1]
      BY <1>0
    <2>2. @ = [[[r EXCEPT !.owner = b] EXCEPT !.listedPrice = 0] EXCEPT !.resaleCount = @ + 1]
      BY <1>1 DEF PassRow
    <2> QED
      BY <2>1, <2>2 DEF r1, r2
  <1> HIDE DEF r3
  <1>6. passRows' = [passRows EXCEPT ![t] = r3]
    <2>1. /\ passRows' = [x \in DOMAIN passRows |-> passRows'[x]]
          /\ \A x \in DOMAIN passRows : x # t => passRows'[x] = passRows[x]
      BY <1>0
    <2>2. passRows' = [x \in DOMAIN passRows |-> IF x = t THEN r3 ELSE passRows[x]]
      BY <1>5, <2>1
    <2>3. [passRows EXCEPT ![t] = r3]
            = [x \in DOMAIN passRows |-> IF x = t THEN r3 ELSE passRows[x]]
      OBVIOUS
    <2> QED
      BY <2>2, <2>3
  <1> QED
    BY <1>4, <1>6

(* The events that update a row of a pass known. *)
LEMMA UpdateRows ==
  ASSUME RowsInv, NEW e \in Events, Handled(e), NEW i \in Tokens,
         e.event \in {"PassTransferred", "Listed", "Unlisted", "Bought"},
         e.tokenId \in DOMAIN passRows
  PROVE  RowTakes(e, i)
  <1> PICK t \in DOMAIN passRows : t = e.tokenId
    OBVIOUS
  <1> PICK r \in PassRow : r = passRows[t]
    BY DEF RowsInv
  <1>1. CASE e.event = "PassTransferred"
    <2>1. e.to \in Holders /\ TheOwner(e) = e.to /\ e \in OwnerTold(t) /\ e \notin AskTold(t)
      BY <1>1, EventFields, EventKinds DEF TheOwner
    <2> DEFINE row == [r EXCEPT !.owner = e.to]
    <2>2. passRows' = [passRows EXCEPT ![t] = row]
      BY <1>1 DEF Handled, handlePassTransferred, Unknown
    <2>3. /\ row \in PassRow /\ row.owner = e.to /\ row.issuer = r.issuer
          /\ row.expiry = r.expiry /\ row.originalPrice = r.originalPrice
          /\ row.plan = r.plan /\ row.listedPrice = r.listedPrice
      BY <2>1 DEF PassRow
    <2> HIDE DEF row
    <2> QED
      BY <1>1, <2>1, <2>2, <2>3, UpdatedRow
  <1>2. CASE e.event \in {"Listed", "Unlisted"}
    <2>1. TheAsk(e) \in Nat /\ e \notin OwnerTold(t) /\ e \in AskTold(t)
      BY <1>2, EventFields, EventKinds DEF TheAsk
    <2> DEFINE row == [r EXCEPT !.listedPrice = TheAsk(e)]
    <2>2. passRows' = [passRows EXCEPT ![t] = row]
      <3>1. CASE e.event = "Listed"
        <4>1. TheAsk(e) = e.price
          BY <3>1 DEF TheAsk
        <4> QED
          BY <3>1, <4>1 DEF Handled, handleListed, Unknown
      <3>2. CASE e.event = "Unlisted"
        <4>1. TheAsk(e) = 0
          BY <3>2 DEF TheAsk
        <4> QED
          BY <3>2, <4>1 DEF Handled, handleUnlisted, Unknown
      <3> QED
        BY <1>2, <3>1, <3>2
    <2>3. /\ row \in PassRow /\ row.owner = r.owner /\ row.issuer = r.issuer
          /\ row.expiry = r.expiry /\ row.originalPrice = r.originalPrice
          /\ row.plan = r.plan /\ row.listedPrice = TheAsk(e)
      BY <2>1 DEF PassRow
    <2> HIDE DEF row
    <2> QED
      BY <1>2, <2>1, <2>2, <2>3, UpdatedRow
  <1>3. CASE e.event = "Bought"
    <2>1. /\ e.buyer \in Holders /\ TheOwner(e) = e.buyer /\ TheAsk(e) = 0
          /\ e \in OwnerTold(t) /\ e \in AskTold(t)
      BY <1>3, EventFields, EventKinds DEF TheOwner, TheAsk
    <2> PICK b \in Holders : b = e.buyer
      BY <2>1
    <2>2. handleBought(e)
      BY <1>3 DEF Handled
    <2>3. PICK row \in PassRow :
            /\ passRows' = [passRows EXCEPT ![t] = row]
            /\ row.owner = b /\ row.listedPrice = 0
            /\ row.issuer = r.issuer /\ row.expiry = r.expiry
            /\ row.originalPrice = r.originalPrice /\ row.plan = r.plan
      BY <1>3, <2>1, <2>2, BoughtRow
    <2> QED
      BY <1>3, <2>1, <2>3, UpdatedRow
  <1> QED
    BY <1>1, <1>2, <1>3

(* The events that introduce a pass. *)
LEMMA AnnounceRows ==
  ASSUME RowsInv, NEW e \in Events, Handled(e), NEW i \in Tokens,
         e.event \in {"PassPurchased", "Minted"},
         e.tokenId \notin DOMAIN passRows,
         0 \in DOMAIN planRows, planRows[0].issuer = Admin
  PROVE  RowTakes(e, i)
  <1> PICK t \in Tokens : t = e.tokenId
    BY EventFields DEF PassEvents, Introduces
  <1>1. e \in Announces(t)
    BY EventKinds
  <1>2. CASE e.event = "PassPurchased"
    <2>1. /\ e.planId = 0 /\ e.buyer \in Holders /\ e.price = PlanPrice /\ PlanPrice \in Nat
          /\ TheOwner(e) = e.buyer
      BY <1>2, EventFields, MarketConstants DEF TheOwner
    <2>2. passRows' = Saved(passRows, t,
            [plan |-> 0, owner |-> e.buyer, issuer |-> Admin, expiry |-> e.expiry,
             originalPrice |-> PlanPrice, listedPrice |-> 0, resaleCount |-> 0])
      BY <1>2, <2>1 DEF Handled, handlePassPurchased
    <2>3. CASE i = t
      BY <1>1, <1>2, <2>1, <2>2, <2>3, AnnouncedRow
    <2>4. CASE i # t
      BY <2>2, <2>4, OtherRow
    <2> QED
      BY <2>3, <2>4
  <1>3. CASE e.event = "Minted"
    <2>1. e.to \in Holders /\ e.issuer = Admin /\ TheOwner(e) = e.to
      BY <1>3, EventFields DEF TheOwner
    <2>2. passRows' = Saved(passRows, t,
            [plan |-> NoPlan, owner |-> e.to, issuer |-> Admin, expiry |-> e.expiry,
             originalPrice |-> 0, listedPrice |-> 0, resaleCount |-> 0])
      BY <1>3, <2>1 DEF Handled, handleMinted
    <2>3. CASE i = t
      BY <1>1, <1>3, <2>1, <2>2, <2>3, AnnouncedRow
    <2>4. CASE i # t
      BY <2>2, <2>4, OtherRow
    <2> QED
      BY <2>3, <2>4
  <1> QED
    BY <1>2, <1>3

(* The oldest event, handled. *)
LEMMA HandleHead ==
  ASSUME IndexInv, Handle
  PROVE  /\ pending # << >> /\ pending \in Seq(Events) /\ Head(pending) \in Events
         /\ pending' = Tail(pending) /\ UNCHANGED vars
         /\ 1 \in 1 .. Len(pending) /\ pending[1] = Head(pending)
         /\ \A e : e = Head(pending) =>
              /\ Handled(e)
              /\ e.event \in Introduces => e.tokenId \notin DOMAIN passRows
              /\ e.event # "PlanCreated" => DOMAIN planRows = {0} /\ PlanRowKept
  <1>1. /\ pending # << >> /\ pending \in Seq(Events) /\ pending' = Tail(pending)
        /\ UNCHANGED vars
    BY DEF Handle, IndexInv, EventsInv
  <1>2. /\ Head(pending) \in Events /\ pending[1] = Head(pending)
        /\ 1 \in 1 .. Len(pending)
    BY <1>1, TailFacts
  <1>3. ASSUME NEW e, e = Head(pending) PROVE Handled(e)
    BY <1>3 DEF Handle, Handled
  <1>4. ASSUME NEW e, e = Head(pending), e.event \in Introduces
        PROVE  e.tokenId \notin DOMAIN passRows
    <2>1. PICK i \in Tokens : i = e.tokenId
      BY <1>2, <1>4, EventFields DEF PassEvents
    <2>2. pending[1] \in Announces(i)
      BY <1>2, <1>4, <2>1 DEF Announces
    <2> QED
      BY <1>2, <2>1, <2>2 DEF IndexInv, AnnouncedFirst
  <1>5. ASSUME NEW e, e = Head(pending), e.event # "PlanCreated"
        PROVE  DOMAIN planRows = {0} /\ PlanRowKept
    BY <1>1, <1>2, <1>5 DEF IndexInv, PlanFollowed, Creation
  <1> QED
    BY <1>1, <1>2, <1>3, <1>4, <1>5

LEMMA HandleRows ==
  ASSUME IndexInv, Handle, NEW e, e = Head(pending), NEW i \in Tokens
  PROVE  RowTakes(e, i)
  <1>1. /\ e \in Events /\ Handled(e) /\ RowsInv
        /\ e.event \in Introduces => e.tokenId \notin DOMAIN passRows
        /\ e.event # "PlanCreated" => DOMAIN planRows = {0} /\ PlanRowKept
    BY HandleHead DEF IndexInv
  <1>2. CASE e.event \in {"PassPurchased", "Minted"}
    BY <1>1, <1>2, AnnounceRows DEF PlanRowKept, Introduces
  <1>3. CASE /\ e.event \in {"PassTransferred", "Listed", "Unlisted", "Bought"}
             /\ e.tokenId \in DOMAIN passRows
    BY <1>1, <1>3, UpdateRows
  <1>4. CASE /\ e.event \in {"PassTransferred", "Listed", "Unlisted", "Bought"}
             /\ e.tokenId \notin DOMAIN passRows
    <2>1. passRows' = passRows
      BY <1>1, <1>4
      DEF Handled, handlePassTransferred, handleListed, handleUnlisted, handleBought,
          Unknown, Known, indexVars
    <2> QED
      BY <1>1, <1>4, <2>1, EventKinds, RowStays
  <1>5. CASE e.event \in {"PlanCreated", "PlanOpenSet"}
    <2>1. passRows' = passRows
      BY <1>1, <1>5 DEF Handled, handlePlanCreated, handlePlanOpenSet
    <2> QED
      BY <1>1, <1>5, <2>1, EventKinds, RowStays
  <1> QED
    BY <1>1, <1>2, <1>3, <1>4, <1>5, EventFields DEF PassEvents, Introduces

(* The tail of the queue has of E what the queue had, but for its head. *)
LEMMA TailEvents ==
  ASSUME NEW p \in Seq(Events), p # << >>, NEW k \in 1 .. Len(Tail(p))
  PROVE  /\ k + 1 \in 1 .. Len(p) /\ Tail(p)[k] = p[k + 1] /\ k + 1 > 1
  <1>1. /\ Len(p) \in Nat /\ Len(Tail(p)) = Len(p) - 1
        /\ \A j \in 1 .. Len(p) - 1 : Tail(p)[j] = p[j + 1]
    BY TailFacts
  <1>2. k \in 1 .. Len(p) - 1
    BY <1>1
  <1> QED
    BY <1>1, <1>2

LEMMA HandleQueue ==
  ASSUME IndexInv, Handle
  PROVE  EventsInv' /\ AnnouncedFirst'
  <1> PICK e : e = Head(pending)
    OBVIOUS
  <1>1. /\ pending # << >> /\ pending \in Seq(Events) /\ e \in Events
        /\ pending' = Tail(pending) /\ next_token_id' = next_token_id
        /\ 1 \in 1 .. Len(pending) /\ pending[1] = e
    BY HandleHead DEF vars, coreVars, tokenVars
  <1>2. \A k \in 1 .. Len(pending') : /\ k + 1 \in 1 .. Len(pending)
                                      /\ pending'[k] = pending[k + 1] /\ k + 1 > 1
    BY <1>1, TailEvents
  <1>3. EventsInv'
    BY <1>1, <1>2, TailFacts DEF IndexInv, EventsInv
  <1>4. AnnouncedFirst'
    <2> SUFFICES ASSUME NEW i \in Tokens, NEW k \in 1 .. Len(pending'),
                        pending'[k] \in Announces(i)
                 PROVE  /\ i \notin DOMAIN passRows'
                        /\ \A m \in 1 .. Len(pending') : m < k => pending'[m] \notin About(i)
      BY DEF AnnouncedFirst
    <2>1. /\ i \notin DOMAIN passRows
          /\ \A m \in 1 .. Len(pending) : m < k + 1 => pending[m] \notin About(i)
      BY <1>2 DEF IndexInv, AnnouncedFirst
    <2>2. e \notin About(i)
      BY <1>1, <1>2, <2>1
    <2>3. e \notin Announces(i)
      BY <1>1, <2>2, EventKinds DEF PassEvents, Introduces
    <2>4. i \notin DOMAIN passRows'
      BY <2>1, <2>3, HandleRows DEF RowTakes
    <2>5. ASSUME NEW m \in 1 .. Len(pending'), m < k PROVE pending'[m] \notin About(i)
      <3>1. m + 1 < k + 1
        BY <1>1, <2>5
      <3> QED
        BY <1>2, <2>1, <3>1
    <2> QED
      BY <2>4, <2>5
  <1> QED
    BY <1>3, <1>4

LEMMA HandlePlan ==
  ASSUME IndexInv, Handle
  PROVE  PlanFollowed' /\ DOMAIN planRows \subseteq DOMAIN planRows'
  <1> PICK e : e = Head(pending)
    OBVIOUS
  <1>1. /\ pending # << >> /\ pending \in Seq(Events) /\ e \in Events /\ Handled(e)
        /\ pending' = Tail(pending) /\ plan_open' = plan_open
        /\ 1 \in 1 .. Len(pending) /\ pending[1] = e
        /\ e.event # "PlanCreated" => DOMAIN planRows = {0} /\ PlanRowKept
    BY HandleHead DEF vars, coreVars, planVars
  <1>2. \A k \in 1 .. Len(pending') : /\ k + 1 \in 1 .. Len(pending)
                                      /\ pending'[k] = pending[k + 1] /\ k + 1 > 1
    BY <1>1, TailEvents
  <1>3. PlanFollowed
    BY DEF IndexInv
  <1>4. NoneOf(pending', Creation)
    <2>1. \A k \in 1 .. Len(pending) : k > 1 => pending[k] \notin Creation
      BY <1>3 DEF PlanFollowed, NoneOf
    <2> QED
      BY <1>2, <2>1 DEF NoneOf
  <1>5. /\ LastIn(pending', OpenTold, OpenTrue')
        /\ NoneOf(pending', OpenTold) /\ e \in OpenTold => e \in OpenTrue
        /\ NoneOf(pending', OpenTold) /\ e \notin OpenTold => NoneOf(pending, OpenTold)
    <2>1. OpenTrue' = OpenTrue
      BY <1>1 DEF OpenTrue
    <2> QED
      BY <1>1, <1>3, <2>1, TailLast DEF PlanFollowed
  <1>6. CASE e.event = "PlanCreated"
    <2>1. /\ e.planId = 0 /\ e.issuer = Admin /\ e.price = PlanPrice
          /\ e.durationSeconds = PlanDuration /\ e \in OpenTold /\ TheOpen(e) = TRUE
      BY <1>1, <1>6, EventFields, EventKinds DEF TheOpen
    <2>2. DOMAIN planRows = {}
      <3>1. e \in Creation
        BY <1>1, <1>6, EventKinds
      <3> QED
        BY <1>1, <1>3, <3>1 DEF PlanFollowed, NoneOf
    <2>3. planRows' = Saved(planRows, 0, [issuer |-> Admin, price |-> PlanPrice,
                                          durationSeconds |-> PlanDuration, open |-> TRUE])
      BY <1>1, <1>6, <2>1 DEF Handled, handlePlanCreated
    <2>4. DOMAIN planRows' = {0}
          /\ planRows'[0] = [issuer |-> Admin, price |-> PlanPrice,
                             durationSeconds |-> PlanDuration, open |-> TRUE]
      BY <2>2, <2>3 DEF Saved
    <2>5. PlanRowKept' /\ planRows'[0].open = TRUE
      BY <2>4, ConstantFacts, MarketConstants DEF PlanRowKept, PlanRow
    <2>6. NoneOf(pending', OpenTold) => planRows'[0].open = plan_open'[0]
      BY <1>1, <1>5, <2>1, <2>5 DEF OpenTrue
    <2> QED
      BY <1>4, <1>5, <2>2, <2>4, <2>5, <2>6 DEF PlanFollowed
  <1>7. CASE e.event = "PlanOpenSet"
    <2>1. /\ e.planId = 0 /\ e.open \in BOOLEAN /\ e \in OpenTold /\ TheOpen(e) = e.open
          /\ DOMAIN planRows = {0} /\ PlanRowKept
      BY <1>1, <1>7, EventFields, EventKinds DEF TheOpen
    <2>2. planRows' = [planRows EXCEPT ![0].open = e.open]
      BY <1>1, <1>7, <2>1 DEF Handled, handlePlanOpenSet
    <2>3. DOMAIN planRows' = {0} /\ planRows'[0] = [planRows[0] EXCEPT !.open = e.open]
      BY <2>1, <2>2
    <2>4. PlanRowKept' /\ planRows'[0].open = e.open
      BY <2>1, <2>3 DEF PlanRowKept, PlanRow
    <2>5. NoneOf(pending', OpenTold) => planRows'[0].open = plan_open'[0]
      BY <1>1, <1>5, <2>1, <2>4 DEF OpenTrue
    <2> QED
      BY <1>4, <1>5, <2>1, <2>3, <2>4, <2>5 DEF PlanFollowed
  <1>8. CASE e.event \in PassEvents
    <2>1. planRows' = planRows
      BY <1>1, <1>8
      DEF Handled, handlePassPurchased, handleMinted, handlePassTransferred, handleListed,
          handleUnlisted, handleBought, Unknown, indexVars, PassEvents, Introduces
    <2>2. e \notin OpenTold /\ DOMAIN planRows = {0} /\ PlanRowKept
      BY <1>1, <1>8, EventKinds DEF PassEvents, Introduces
    <2>3. PlanRowKept'
      BY <2>1, <2>2 DEF PlanRowKept
    <2>4. NoneOf(pending', OpenTold) => planRows'[0].open = plan_open'[0]
      BY <1>1, <1>3, <1>5, <2>1, <2>2 DEF PlanFollowed
    <2> QED
      BY <1>4, <1>5, <2>1, <2>2, <2>3, <2>4 DEF PlanFollowed
  <1> QED
    BY <1>1, <1>6, <1>7, <1>8, EventFields

LEMMA HandlePasses ==
  ASSUME IndexInv, Handle
  PROVE  PassesFollowed'
  <1> PICK e : e = Head(pending)
    OBVIOUS
  <1>1. /\ pending # << >> /\ pending \in Seq(Events) /\ e \in Events
        /\ pending' = Tail(pending)
        /\ UNCHANGED <<owners, expiries, starts, token_plans, token_paid, listings>>
        /\ 1 \in 1 .. Len(pending) /\ pending[1] = e
    BY HandleHead DEF vars, coreVars, tokenVars, marketVars
  <1>2. \A k \in 1 .. Len(pending') : /\ k + 1 \in 1 .. Len(pending)
                                      /\ pending'[k] = pending[k + 1] /\ k + 1 > 1
    BY <1>1, TailEvents
  <1> SUFFICES ASSUME NEW i \in Tokens, Tracked(i)', ~Burned(i)'
               PROVE  OwnerFollowed(i)' /\ AskFollowed(i)' /\ TermsFollowed(i)'
    BY DEF PassesFollowed
  <1>3. RowTakes(e, i)
    BY HandleRows
  <1>4. Tracked(i)
    BY <1>1, <1>2, <1>3 DEF Tracked, RowTakes, NoneOf
  <1>5. OwnerFollowed(i) /\ AskFollowed(i) /\ TermsFollowed(i)
    BY <1>1, <1>4 DEF IndexInv, PassesFollowed, Burned
  <1>6. Announces(i) \subseteq OwnerTold(i) /\ Announces(i) \subseteq AskTold(i)
    BY DEF Announces, OwnerTold, AskTold
  <1>7. /\ NoneOf(pending', OwnerTold(i)) => i \in DOMAIN passRows'
        /\ NoneOf(pending', AskTold(i)) => i \in DOMAIN passRows'
    BY <1>6 DEF Tracked, NoneOf
  <1>8. OwnerFollowed(i)'
    <2>1. OwnerTrue(i)' = OwnerTrue(i)
      BY <1>1 DEF OwnerTrue
    <2>2. /\ LastIn(pending', OwnerTold(i), OwnerTrue(i))
          /\ NoneOf(pending', OwnerTold(i)) /\ e \in OwnerTold(i) => e \in OwnerTrue(i)
          /\ NoneOf(pending', OwnerTold(i)) /\ e \notin OwnerTold(i)
               => NoneOf(pending, OwnerTold(i))
      BY <1>1, <1>5, TailLast DEF OwnerFollowed
    <2>3. ASSUME NoneOf(pending', OwnerTold(i)) PROVE passRows'[i].owner = owners[i]
      BY <1>3, <1>5, <1>7, <2>2, <2>3 DEF RowTakes, OwnerTrue, OwnerFollowed
    <2> QED
      BY <1>1, <2>1, <2>2, <2>3 DEF OwnerFollowed
  <1>9. AskFollowed(i)'
    <2>1. AskTrue(i)' = AskTrue(i)
      BY <1>1 DEF AskTrue
    <2>2. /\ LastIn(pending', AskTold(i), AskTrue(i))
          /\ NoneOf(pending', AskTold(i)) /\ e \in AskTold(i) => e \in AskTrue(i)
          /\ NoneOf(pending', AskTold(i)) /\ e \notin AskTold(i)
               => NoneOf(pending, AskTold(i))
      BY <1>1, <1>5, TailLast DEF AskFollowed
    <2>3. ASSUME NoneOf(pending', AskTold(i))
          PROVE  passRows'[i].listedPrice = listings[i].openingPrice
      BY <1>3, <1>5, <1>7, <2>2, <2>3 DEF RowTakes, AskTrue, AskFollowed
    <2> QED
      BY <1>1, <2>1, <2>2, <2>3 DEF AskFollowed
  <1>10. TermsFollowed(i)'
    <2>1. \A k \in 1 .. Len(pending') :
            pending'[k] \in Announces(i) => TermsTold(pending[k], i)'
      BY <1>1, <1>2, <1>5 DEF TermsFollowed, TermsTold
    <2>2. ASSUME i \in DOMAIN passRows' PROVE RowTerms(i)'
      <3>1. CASE e \in Announces(i)
        <4>1. TermsTold(e, i)
          BY <1>1, <1>5, <3>1 DEF TermsFollowed
        <4> QED
          BY <1>1, <1>3, <2>2, <3>1, <4>1 DEF RowTakes, RowTerms, TermsTold
      <3>2. CASE e \notin Announces(i)
        BY <1>1, <1>3, <1>5, <2>2, <3>2 DEF RowTakes, RowTerms, TermsFollowed
      <3> QED
        BY <3>1, <3>2
    <2> QED
      BY <1>1, <1>5, <2>1, <2>2 DEF TermsFollowed
  <1> QED
    BY <1>8, <1>9, <1>10

(* The new row comes first, before those there are. *)
LEMMA RecordFacts ==
  ASSUME eventRows \in Seq(EventRow), NEW id \in Tokens, NEW kind \in Kinds,
         NEW block \in Nat, block = Head(blocks), recordEvent(id, kind)
  PROVE  /\ eventRows' \in Seq(EventRow) /\ Len(eventRows) \in Nat
         /\ Len(eventRows') = Len(eventRows) + 1
         /\ eventRows'[1] = [pass |-> id, kind |-> kind, blockNumber |-> block]
         /\ \A k \in 1 .. Len(eventRows) : eventRows'[k + 1] = eventRows[k]
         /\ \A k \in 1 .. Len(eventRows') :
              k = 1 \/ (k - 1 \in 1 .. Len(eventRows) /\ eventRows'[k] = eventRows[k - 1])
  <1> DEFINE row == [pass |-> id, kind |-> kind, blockNumber |-> block]
  <1>1. row \in EventRow
    BY DEF EventRow
  <1>2. eventRows' = <<row>> \o eventRows
    BY DEF recordEvent
  <1> HIDE DEF row
  <1>3. /\ eventRows' \in Seq(EventRow) /\ Len(eventRows) \in Nat
        /\ Len(eventRows') = Len(eventRows) + 1 /\ eventRows'[1] = row
        /\ \A k \in 1 .. Len(eventRows) : eventRows'[1 + k] = eventRows[k]
    BY <1>1, <1>2
  <1>4. ASSUME NEW k \in 1 .. Len(eventRows')
        PROVE  k = 1 \/ (k - 1 \in 1 .. Len(eventRows) /\ eventRows'[k] = eventRows[k - 1])
    BY <1>3
  <1> QED
    BY <1>3, <1>4 DEF row

(* What the handlers record. *)
LEMMA HandleRecords ==
  ASSUME IndexInv, NEW e \in Events, Handled(e)
  PROVE  \/ /\ eventRows' = eventRows
            /\ \A i : e \notin AskTold(i) \/ i \notin DOMAIN passRows'
         \/ \E kind \in Kinds :
              /\ recordEvent(e.tokenId, kind) /\ e.tokenId \in Tokens
              /\ e.tokenId \in DOMAIN passRows'
              /\ e \in AskTold(e.tokenId)
              /\ kind = "LISTED" => e.event = "Listed"
              /\ kind \in {"UNLISTED", "RESOLD"} => TheAsk(e) = 0
  <1>1. CASE e.event \in {"PlanCreated", "PlanOpenSet"}
    BY <1>1, EventKinds DEF Handled, handlePlanCreated, handlePlanOpenSet
  <1>2. CASE e.event \in {"PassPurchased", "Minted"}
    <2>1. e.tokenId \in Tokens /\ e \in AskTold(e.tokenId)
      BY <1>2, EventFields, EventKinds DEF PassEvents, Introduces
    <2>2. /\ e.event = "PassPurchased" => recordEvent(e.tokenId, "PURCHASED")
          /\ e.event = "Minted" => recordEvent(e.tokenId, "MINTED")
          /\ e.tokenId \in DOMAIN passRows'
      BY <1>2 DEF Handled, handlePassPurchased, handleMinted, Saved
    <2> QED
      BY <1>2, <2>1, <2>2 DEF Kinds
  <1>3. CASE e.event = "PassTransferred"
    <2>1. eventRows' = eventRows
      BY <1>3 DEF Handled, handlePassTransferred, Unknown, indexVars
    <2> QED
      BY <1>3, <2>1, EventKinds
  <1>4. CASE e.event \in {"Listed", "Unlisted", "Bought"} /\ e.tokenId \notin DOMAIN passRows
    <2>1. eventRows' = eventRows /\ passRows' = passRows
      BY <1>4
      DEF Handled, handleListed, handleUnlisted, handleBought, Unknown, Known, indexVars
    <2> QED
      BY <1>4, <2>1, EventKinds
  <1>5. CASE e.event \in {"Listed", "Unlisted", "Bought"} /\ e.tokenId \in DOMAIN passRows
    <2>1. e.tokenId \in Tokens /\ e \in AskTold(e.tokenId)
      BY <1>5, EventFields, EventKinds DEF PassEvents, Introduces
    <2>2. /\ e.event = "Listed" => recordEvent(e.tokenId, "LISTED")
          /\ e.event = "Unlisted" => recordEvent(e.tokenId, "UNLISTED")
          /\ e.event = "Bought" => recordEvent(e.tokenId, "RESOLD")
      BY <1>5 DEF Handled, handleListed, handleUnlisted, handleBought, Unknown
    <2>3. DOMAIN passRows' = DOMAIN passRows
      BY <1>5 DEF Handled, handleListed, handleUnlisted, handleBought, Unknown
    <2>4. e.event # "Listed" => TheAsk(e) = 0
      BY DEF TheAsk
    <2> QED
      BY <1>5, <2>1, <2>2, <2>3, <2>4 DEF Kinds
  <1> QED
    BY <1>1, <1>2, <1>3, <1>4, <1>5, EventFields DEF PassEvents, Introduces

LEMMA HandleFeed ==
  ASSUME IndexInv, Handle
  PROVE  FeedInv' /\ BlocksInv'
  <1> PICK e : e = Head(pending)
    OBVIOUS
  <1>1. e \in Events /\ Handled(e)
    BY HandleHead
  <1>2. /\ FeedInv /\ eventRows \in Seq(EventRow) /\ DOMAIN passRows \subseteq Tokens
        /\ now' = now /\ now \in Nat
    BY NumberFacts DEF IndexInv, FeedInv, RowsInv, Handle, vars, coreVars, ContractsInv
  <1>3. \A i \in Tokens : RowTakes(e, i)
    BY HandleRows
  <1>4. \A k \in 1 .. Len(eventRows) :
          /\ eventRows[k] \in EventRow /\ eventRows[k].blockNumber \in Nat
          /\ eventRows[k].pass \in DOMAIN passRows
          /\ eventRows[k].pass \in DOMAIN passRows'
    BY <1>2, <1>3, RowNumbers DEF FeedInv, RowTakes
  <1>b. /\ blocks \in Seq(Nat) /\ Len(blocks) = Len(pending) /\ blocks' = Tail(blocks)
        /\ pending' = Tail(pending) /\ pending \in Seq(Events) /\ pending # << >>
    BY DEF IndexInv, BlocksInv, EventsInv, Handle
  <1> DEFINE block == blocks[1]
             n == Len(blocks)
  <1>c. /\ n \in Nat /\ n >= 1 /\ Len(pending') = n - 1 /\ blocks # << >>
    BY <1>b, TailFacts, EmptySeq
  <1>d. /\ blocks' \in Seq(Nat) /\ Len(blocks') = n - 1 /\ block = Head(blocks)
        /\ \A k \in 1 .. n - 1 : blocks'[k] = blocks[k + 1]
        /\ \A k \in 1 .. n : blocks[k] \in Nat
    BY <1>b, <1>c, HeadTailProperties
  <1>e. /\ block \in Nat /\ block <= now /\ \A k \in 1 .. n : block <= blocks[k]
        /\ \A k \in 1 .. Len(eventRows) : eventRows[k].blockNumber <= block
    BY <1>c, <1>d DEF IndexInv, BlocksInv
  <1> HIDE DEF block, n
  <1>f. /\ Len(blocks') = Len(pending')
        /\ \A k \in 1 .. Len(blocks') : blocks'[k] <= now
        /\ \A j, k \in 1 .. Len(blocks') : j <= k => blocks'[j] <= blocks'[k]
        /\ \A k \in 1 .. Len(blocks') : block <= blocks'[k]
    <2>1. \A k \in 1 .. Len(blocks') : k + 1 \in 1 .. n /\ blocks'[k] = blocks[k + 1]
      BY <1>c, <1>d
    <2>2. /\ \A k \in 1 .. n : blocks[k] <= now
          /\ \A j, k \in 1 .. n : j <= k => blocks[j] <= blocks[k]
      BY DEF IndexInv, BlocksInv, n
    <2> QED
      BY <1>c, <1>d, <1>e, <2>1, <2>2
  <1>5. CASE /\ eventRows' = eventRows
             /\ \A i : e \notin AskTold(i) \/ i \notin DOMAIN passRows'
    <2>1. ASSUME NEW k \in 1 .. Len(eventRows'), FirstOfPass(k)'
          PROVE  RowTrue(eventRows[k])'
      <3>1. k \in 1 .. Len(eventRows) /\ FirstOfPass(k)
        BY <1>5, <2>1 DEF FirstOfPass
      <3>2. PICK i \in Tokens : i = eventRows[k].pass /\ i \in DOMAIN passRows'
        BY <1>2, <1>4, <3>1
      <3>3. passRows'[i].listedPrice = passRows[i].listedPrice
        BY <1>3, <1>5, <3>2 DEF RowTakes
      <3> QED
        BY <1>2, <1>5, <3>1, <3>2, <3>3 DEF FeedInv, RowTrue
    <2>2. FeedInv'
      BY <1>2, <1>4, <1>5, <2>1 DEF FeedInv
    <2>3. \A k \in 1 .. Len(eventRows) : \A j \in 1 .. Len(blocks') :
            eventRows[k].blockNumber <= blocks'[j]
      <3>1. \A j \in 1 .. Len(blocks') : blocks'[j] \in Nat /\ block <= blocks'[j]
        BY <1>d, <1>f
      <3> QED
        BY <1>4, <1>e, <3>1
    <2>4. /\ \A k \in 1 .. Len(eventRows) : eventRows[k].blockNumber <= now
          /\ \A j, k \in 1 .. Len(eventRows) :
               j <= k => eventRows[j].blockNumber >= eventRows[k].blockNumber
      BY DEF IndexInv, BlocksInv
    <2> QED
      BY <1>2, <1>5, <1>d, <1>f, <2>2, <2>3, <2>4 DEF BlocksInv
  <1>6. ASSUME NEW kind \in Kinds, recordEvent(e.tokenId, kind), e.tokenId \in Tokens,
               e.tokenId \in DOMAIN passRows', e \in AskTold(e.tokenId),
               kind = "LISTED" => e.event = "Listed",
               kind \in {"UNLISTED", "RESOLD"} => TheAsk(e) = 0
        PROVE  FeedInv' /\ BlocksInv'
    <2> PICK i \in Tokens : i = e.tokenId
      BY <1>6
    <2>1. /\ eventRows' \in Seq(EventRow) /\ Len(eventRows) \in Nat
          /\ Len(eventRows') = Len(eventRows) + 1
          /\ eventRows'[1] = [pass |-> i, kind |-> kind, blockNumber |-> block]
          /\ \A k \in 1 .. Len(eventRows) : eventRows'[k + 1] = eventRows[k]
          /\ \A k \in 1 .. Len(eventRows') :
               k = 1 \/ (k - 1 \in 1 .. Len(eventRows) /\ eventRows'[k] = eventRows[k - 1])
      BY <1>2, <1>6, <1>d, <1>e, RecordFacts
    <2>2. /\ eventRows'[1].pass = i /\ eventRows'[1].kind = kind
          /\ eventRows'[1].blockNumber = block
      BY <2>1
    <2>3. \A k \in 1 .. Len(eventRows') : eventRows'[k].pass \in DOMAIN passRows'
      BY <1>4, <1>6, <2>1, <2>2
    <2>4. /\ passRows'[i].listedPrice = TheAsk(e)
          /\ kind = "LISTED" => TheAsk(e) > 0
      BY <1>1, <1>3, <1>6, EventFields DEF RowTakes, TheAsk
    <2>5. ASSUME NEW k \in 1 .. Len(eventRows'), FirstOfPass(k)'
          PROVE  RowTrue(eventRows[k])'
      <3>1. CASE k = 1
        BY <1>6, <2>2, <2>4, <3>1 DEF RowTrue
      <3>2. CASE k # 1
        <4> PICK m \in 1 .. Len(eventRows) : m = k - 1
          BY <2>1, <3>2
        <4>1. eventRows'[k] = eventRows[m]
          BY <2>1, <3>2
        <4>2. FirstOfPass(m)
          <5>1. ASSUME NEW j \in 1 .. m - 1 PROVE eventRows[j].pass # eventRows[m].pass
            <6>1. j + 1 \in 1 .. k - 1 /\ j \in 1 .. Len(eventRows)
              BY <2>1
            <6>2. eventRows'[j + 1].pass # eventRows'[k].pass
              BY <2>5, <6>1 DEF FirstOfPass
            <6> QED
              BY <2>1, <4>1, <6>1, <6>2
          <5> QED
            BY <5>1 DEF FirstOfPass
        <4>3. eventRows[m].pass # i
          <5>1. 1 \in 1 .. k - 1
            BY <2>1, <3>2
          <5> QED
            BY <2>2, <2>5, <4>1, <5>1 DEF FirstOfPass
        <4>4. PICK o \in Tokens : o = eventRows[m].pass /\ o \in DOMAIN passRows'
          BY <1>2, <1>4
        <4>5. e \notin AskTold(o)
          BY <4>3, <4>4 DEF AskTold
        <4>6. passRows'[o].listedPrice = passRows[o].listedPrice
          BY <1>3, <4>4, <4>5 DEF RowTakes
        <4> QED
          BY <1>2, <4>1, <4>2, <4>4, <4>6 DEF FeedInv, RowTrue
      <3> QED
        BY <3>1, <3>2
    <2>6. FeedInv'
      BY <2>1, <2>3, <2>5 DEF FeedInv
    <2>7. \A k \in 1 .. Len(eventRows') :
            /\ eventRows'[k].blockNumber \in Nat /\ eventRows'[k].blockNumber <= block
            /\ k = 1 => eventRows'[k].blockNumber = block
      BY <1>4, <1>e, <2>1, <2>2
    <2>8. \A k \in 1 .. Len(eventRows') : eventRows'[k].blockNumber <= now
      BY <1>2, <1>e, <2>7
    <2>9. \A k \in 1 .. Len(eventRows') : \A j \in 1 .. Len(blocks') :
            eventRows'[k].blockNumber <= blocks'[j]
      BY <1>d, <1>e, <1>f, <2>7
    <2>10. ASSUME NEW j \in 1 .. Len(eventRows'), NEW k \in 1 .. Len(eventRows'), j <= k
           PROVE  eventRows'[j].blockNumber >= eventRows'[k].blockNumber
      <3>1. CASE j = 1
        BY <1>e, <2>7, <3>1
      <3>2. CASE j # 1
        <4>1. /\ k # 1 /\ j - 1 \in 1 .. Len(eventRows) /\ k - 1 \in 1 .. Len(eventRows)
              /\ j - 1 <= k - 1
              /\ eventRows'[j] = eventRows[j - 1] /\ eventRows'[k] = eventRows[k - 1]
          BY <2>1, <2>10, <3>2
        <4> QED
          BY <4>1 DEF IndexInv, BlocksInv
      <3> QED
        BY <3>1, <3>2
    <2>11. BlocksInv'
      BY <1>2, <1>d, <1>f, <2>8, <2>9, <2>10 DEF BlocksInv
    <2> QED
      BY <2>6, <2>11
  <1> QED
    BY <1>1, <1>5, <1>6, HandleRecords

LEMMA HandleRowTypes ==
  ASSUME IndexInv, Handle
  PROVE  RowsInv'
  <1> PICK e : e = Head(pending)
    OBVIOUS
  <1>1. /\ e \in Events /\ Handled(e) /\ next_token_id' = next_token_id
        /\ 1 \in 1 .. Len(pending) /\ pending[1] = e
        /\ e.event # "PlanCreated" => DOMAIN planRows = {0}
    BY HandleHead DEF vars, coreVars, tokenVars
  <1>2. RowsInv /\ DOMAIN planRows \subseteq DOMAIN planRows'
    BY HandlePlan DEF IndexInv
  <1>3. \A i \in DOMAIN passRows' :
          i \in DOMAIN passRows \/ (i = e.tokenId /\ e.event \in PassEvents)
    <2>1. CASE e.event \in Introduces
      BY <1>1, <2>1 DEF Handled, handlePassPurchased, handleMinted, Saved, Introduces, PassEvents
    <2>2. CASE e.event \notin Introduces
      <3>1. DOMAIN passRows' = DOMAIN passRows
        BY <1>1, <2>2
        DEF Handled, handlePlanCreated, handlePlanOpenSet, handlePassTransferred,
            handleListed, handleUnlisted, handleBought, Unknown, indexVars, Introduces
      <3> QED
        BY <3>1
    <2> QED
      BY <2>1, <2>2
  <1>4. e.event \in PassEvents => e.tokenId \in Tokens /\ e.tokenId < next_token_id
    BY <1>1, EventFields DEF IndexInv, EventsInv
  <1> SUFFICES ASSUME NEW i \in DOMAIN passRows'
               PROVE  /\ i \in Tokens /\ i < next_token_id /\ passRows'[i] \in PassRow
                      /\ passRows'[i].plan \in {0, NoPlan}
                      /\ passRows'[i].plan = 0 => 0 \in DOMAIN planRows'
    BY <1>1 DEF RowsInv
  <1>5. i \in Tokens /\ i < next_token_id
    BY <1>2, <1>3, <1>4 DEF RowsInv
  <1>6. RowTakes(e, i)
    BY <1>5, HandleRows
  <1>7. CASE e \in Announces(i)
    <2>1. 0 \in DOMAIN planRows'
      BY <1>1, <1>2, <1>7, EventKinds
    <2> QED
      BY <1>5, <1>6, <1>7, <2>1 DEF RowTakes
  <1>8. CASE e \notin Announces(i)
    BY <1>2, <1>5, <1>6, <1>8 DEF RowTakes, RowsInv
  <1> QED
    BY <1>7, <1>8

(* What an event adds to the volumes of the index. *)
Counted(e) ==
  IF e.event = "PassPurchased" THEN e.price
  ELSE IF e.event = "Bought" /\ e.tokenId \in DOMAIN passRows THEN e.royalty
       ELSE 0

LEMMA PurchaseTotals ==
  ASSUME NEW t \in TotalsRow, NEW price \in Nat
  PROVE  LET u == [t EXCEPT !.passesIssued = @ + 1, !.passesSold = @ + 1,
                            !.primaryVolume = @ + price]
         IN  /\ u \in TotalsRow /\ u.primaryVolume = t.primaryVolume + price
             /\ u.royaltiesPaid = t.royaltiesPaid
  <1> DEFINE u == [t EXCEPT !.passesIssued = @ + 1, !.passesSold = @ + 1,
                            !.primaryVolume = @ + price]
             t1 == [t EXCEPT !.passesIssued = @ + 1]
             t2 == [t1 EXCEPT !.passesSold = @ + 1]
             t3 == [t2 EXCEPT !.primaryVolume = @ + price]
  <1>1. u = t3
    BY DEF TotalsRow
  <1>2. /\ t1 \in TotalsRow /\ t1.primaryVolume = t.primaryVolume
        /\ t1.royaltiesPaid = t.royaltiesPaid
    BY DEF TotalsRow
  <1> HIDE DEF t1
  <1>3. /\ t2 \in TotalsRow /\ t2.primaryVolume = t.primaryVolume
        /\ t2.royaltiesPaid = t.royaltiesPaid
    BY <1>2 DEF TotalsRow
  <1> HIDE DEF t2
  <1>4. /\ t3 \in TotalsRow /\ t3.primaryVolume = t.primaryVolume + price
        /\ t3.royaltiesPaid = t.royaltiesPaid
    BY <1>3 DEF TotalsRow
  <1> QED
    BY <1>1, <1>4

LEMMA HandleTotals ==
  ASSUME totals \in TotalsRow, NEW e \in Events, Handled(e)
  PROVE  /\ totals' \in TotalsRow /\ Counted(e) \in Nat
         /\ totals'.primaryVolume + totals'.royaltiesPaid
              = totals.primaryVolume + totals.royaltiesPaid + Counted(e)
  <1> PICK t \in TotalsRow : t = totals
    OBVIOUS
  <1>1. t.primaryVolume \in Nat /\ t.royaltiesPaid \in Nat
    BY DEF TotalsRow
  <1>2. CASE \/ e.event \in {"PlanOpenSet", "PassTransferred", "Listed", "Unlisted"}
             \/ e.event = "Bought" /\ e.tokenId \notin DOMAIN passRows
    <2>1. totals' = t /\ Counted(e) = 0
      BY <1>2
      DEF Handled, handlePlanOpenSet, handlePassTransferred, handleListed, handleUnlisted,
          handleBought, Known, Unknown, indexVars, Counted
    <2> QED
      BY <1>1, <2>1
  <1>3. CASE e.event = "PlanCreated"
    <2>1. totals' = [t EXCEPT !.plans = @ + 1] /\ Counted(e) = 0
      BY <1>3 DEF Handled, handlePlanCreated, Counted
    <2>2. /\ totals' \in TotalsRow /\ totals'.primaryVolume = t.primaryVolume
          /\ totals'.royaltiesPaid = t.royaltiesPaid
      BY <2>1 DEF TotalsRow
    <2> QED
      BY <1>1, <2>1, <2>2
  <1>4. CASE e.event = "PassPurchased"
    <2> PICK price \in Nat : price = e.price
      BY <1>4, EventFields, MarketConstants
    <2> DEFINE u == [t EXCEPT !.passesIssued = @ + 1, !.passesSold = @ + 1,
                              !.primaryVolume = @ + price]
    <2>1. totals' = u /\ Counted(e) = price
      BY <1>4 DEF Handled, handlePassPurchased, Counted
    <2>a. /\ u \in TotalsRow /\ u.primaryVolume = t.primaryVolume + price
          /\ u.royaltiesPaid = t.royaltiesPaid
      BY PurchaseTotals
    <2> HIDE DEF u
    <2>2. /\ totals' \in TotalsRow /\ totals'.primaryVolume = t.primaryVolume + price
          /\ totals'.royaltiesPaid = t.royaltiesPaid
      BY <2>1, <2>a
    <2> QED
      BY <1>1, <2>1, <2>2
  <1>5. CASE e.event = "Minted"
    <2>1. totals' = [t EXCEPT !.passesIssued = @ + 1] /\ Counted(e) = 0
      BY <1>5 DEF Handled, handleMinted, Counted
    <2>2. /\ totals' \in TotalsRow /\ totals'.primaryVolume = t.primaryVolume
          /\ totals'.royaltiesPaid = t.royaltiesPaid
      BY <2>1 DEF TotalsRow
    <2> QED
      BY <1>1, <2>1, <2>2
  <1>6. CASE e.event = "Bought" /\ e.tokenId \in DOMAIN passRows
    <2> PICK price \in Nat, royalty \in Nat : price = e.price /\ royalty = e.royalty
      BY <1>6, EventFields
    <2> DEFINE t1 == [t EXCEPT !.resales = @ + 1]
               t2 == [t1 EXCEPT !.resaleVolume = @ + price]
               t3 == [t2 EXCEPT !.royaltiesPaid = @ + royalty]
    <2>1. totals' = t3 /\ Counted(e) = royalty
      <3>1. totals' = [t EXCEPT !.resales = @ + 1, !.resaleVolume = @ + price,
                                !.royaltiesPaid = @ + royalty]
        BY <1>6 DEF Handled, handleBought, Unknown
      <3>2. @ = [[[t EXCEPT !.resales = @ + 1] EXCEPT !.resaleVolume = @ + price]
                   EXCEPT !.royaltiesPaid = @ + royalty]
        BY DEF TotalsRow
      <3> QED
        BY <1>6, <3>1, <3>2 DEF Counted
    <2>2. /\ t1 \in TotalsRow /\ t1.primaryVolume = t.primaryVolume
          /\ t1.royaltiesPaid = t.royaltiesPaid
      BY DEF TotalsRow
    <2> HIDE DEF t1
    <2>3. /\ t2 \in TotalsRow /\ t2.primaryVolume = t.primaryVolume
          /\ t2.royaltiesPaid = t.royaltiesPaid
      BY <2>2 DEF TotalsRow
    <2> HIDE DEF t2
    <2>4. /\ t3 \in TotalsRow /\ t3.primaryVolume = t.primaryVolume
          /\ t3.royaltiesPaid = t.royaltiesPaid + royalty
      BY <2>3 DEF TotalsRow
    <2> HIDE DEF t3
    <2> QED
      BY <1>1, <2>1, <2>4
  <1> QED
    BY <1>2, <1>3, <1>4, <1>5, <1>6, EventFields DEF PassEvents, Introduces

LEMMA IndexHandle ==
  ASSUME IndexInv, Handle
  PROVE  IndexInv'
  <1>1. UNCHANGED vars
    BY DEF Handle
  <1>2. MarketInv'
    BY <1>1, MarketStepInv DEF IndexInv, ContractsInv
  <1>3. ContractsInv'
    BY <1>1, <1>2
    DEF IndexInv, ContractsInv, FreshIdsUnowned, PlansAsDeployed, IssuedByAdmin, vars,
        coreVars, tokenVars, planVars, marketVars
  <1>4. (totals \in TotalsRow)'
    <2> PICK e : e = Head(pending)
      OBVIOUS
    <2>1. e \in Events /\ Handled(e)
      BY HandleHead
    <2> QED
      BY <2>1, HandleTotals DEF IndexInv
  <1> QED
    BY <1>3, <1>4, HandleQueue, HandlePlan, HandlePasses, HandleFeed, HandleRowTypes
    DEF IndexInv

LEMMA IndexStepInv == IndexInv /\ [SubgraphNext]_subgraphVars => IndexInv'
  <1> SUFFICES ASSUME IndexInv, [SubgraphNext]_subgraphVars PROVE IndexInv'
    OBVIOUS
  <1>1. CASE Tick /\ UNCHANGED <<escrowVars, marketVars, pending, blocks, indexVars>>
    BY <1>1, IndexTick
  <1>2. CASE Transaction
    BY <1>2, IndexTransaction
  <1>3. CASE Handle
    BY <1>3, IndexHandle
  <1>4. CASE UNCHANGED subgraphVars
    <2>1. UNCHANGED <<vars, pending, blocks, indexVars>>
      BY <1>4 DEF subgraphVars
    <2>2. MarketInv'
      BY <2>1, MarketStepInv DEF IndexInv, ContractsInv
    <2>3. ContractsInv'
      BY <2>1, <2>2
      DEF IndexInv, ContractsInv, FreshIdsUnowned, PlansAsDeployed, IssuedByAdmin, vars,
          coreVars, tokenVars, planVars, marketVars
    <2>4. /\ UNCHANGED <<pending, planRows, passRows, eventRows, totals, next_token_id>>
          /\ UNCHANGED <<owners, listings, expiries, starts, token_plans, token_paid>>
          /\ UNCHANGED plan_open
      BY <2>1 DEF indexVars, vars, coreVars, tokenVars, planVars, marketVars
    <2>5. EventsInv' /\ AnnouncedFirst' /\ RowsInv' /\ FeedInv' /\ (totals \in TotalsRow)'
      BY <2>4 DEF IndexInv, EventsInv, AnnouncedFirst, RowsInv, FeedInv, FirstOfPass, RowTrue
    <2>8. BlocksInv'
      BY <2>1, <2>4 DEF IndexInv, BlocksInv, vars, coreVars
    <2>6. PlanFollowed'
      BY <2>4 DEF IndexInv, PlanFollowed, PlanRowKept, OpenTrue
    <2>7. PassesFollowed'
      <3>1. \A i \in Tokens : /\ OwnerTrue(i)' = OwnerTrue(i) /\ AskTrue(i)' = AskTrue(i)
        BY <2>4 DEF OwnerTrue, AskTrue
      <3>2. ASSUME NEW i \in Tokens, Tracked(i)', ~Burned(i)'
            PROVE  (OwnerFollowed(i) /\ AskFollowed(i) /\ TermsFollowed(i))'
        <4>1. OwnerFollowed(i) /\ AskFollowed(i) /\ TermsFollowed(i)
          BY <2>4, <3>2 DEF IndexInv, PassesFollowed, Tracked, Burned
        <4> QED
          BY <2>4, <3>1, <4>1
          DEF OwnerFollowed, AskFollowed, TermsFollowed, RowTerms, TermsTold
      <3> QED
        BY <3>2 DEF PassesFollowed
    <2> QED
      BY <2>3, <2>5, <2>6, <2>7, <2>8 DEF IndexInv
  <1> QED
    BY <1>1, <1>2, <1>3, <1>4 DEF SubgraphNext, Transaction

(* What the index holds follows from what is on its way, at every moment. *)
THEOREM IndexInvariant == SubgraphSpec => []IndexInv
  BY IndexInitInv, IndexStepInv, PTL DEF SubgraphSpec

LEMMA FeedIsTrue == IndexInv => RowsConform /\ FeedAgrees
  <1> SUFFICES ASSUME IndexInv PROVE RowsConform /\ FeedAgrees
    OBVIOUS
  <1>1. RowsInv /\ FeedInv /\ PlanFollowed /\ totals \in TotalsRow
    BY DEF IndexInv
  <1>2. RowsConform
    <2>1. \A p \in DOMAIN planRows : planRows[p] \in PlanRow
      BY <1>1 DEF PlanFollowed, PlanRowKept
    <2>2. \A i \in DOMAIN passRows : /\ passRows[i] \in PassRow
                                     /\ passRows[i].plan \in DOMAIN planRows \cup {NoPlan}
      BY <1>1 DEF RowsInv
    <2>3. \A k \in DOMAIN eventRows : /\ eventRows[k] \in EventRow
                                      /\ eventRows[k].pass \in DOMAIN passRows
      BY <1>1 DEF FeedInv
    <2> QED
      BY <1>1, <2>1, <2>2, <2>3 DEF RowsConform
  <1>3. FeedAgrees
    <2> DEFINE D == DOMAIN eventRows
    <2>1. D = 1 .. Len(eventRows) /\ Len(eventRows) \in Nat /\ RecentRows \in Nat
      BY <1>1, LagAssumption DEF FeedInv
    <2> SUFFICES ASSUME NEW order \in [Shown -> D], ServedBy(order),
                        NEW feed, feed = [k \in Shown |-> GqlEvent(eventRows[order[k]])],
                        NEW k \in Shown, AloneInBlock(feed[k]),
                        \A j \in 1 .. k - 1 : feed[j].tokenId # feed[k].tokenId
                 PROVE  /\ feed[k].kind = "Listed" => GqlPass(feed[k].tokenId).listed > 0
                        /\ feed[k].kind \in {"Unlisted", "Bought"}
                             => GqlPass(feed[k].tokenId).listed = 0
      <3>1. \A feed \in GqlActivity : \E order \in [Shown -> D] :
              ServedBy(order) /\ feed = [k \in Shown |-> GqlEvent(eventRows[order[k]])]
        BY DEF GqlActivity
      <3>2. ASSUME NEW feed \in GqlActivity PROVE DOMAIN feed = Shown
        BY <3>1, <3>2
      <3> HIDE DEF D
      <3> QED
        BY <3>1, <3>2 DEF FeedAgrees
    <2> PICK r \in D : r = order[k]
      OBVIOUS
    <2>3. /\ eventRows[r] \in EventRow /\ feed[k] = GqlEvent(eventRows[r])
      BY <1>1, <2>1 DEF FeedInv
    <2>4. /\ feed[k].kind = AppKind(eventRows[r].kind) /\ feed[k].tokenId = eventRows[r].pass
          /\ feed[k].blockNumber = eventRows[r].blockNumber
      BY <2>3 DEF GqlEvent
    <2>5. FirstOfPass(r)
      <3> SUFFICES ASSUME NEW j \in 1 .. r - 1, eventRows[j].pass = eventRows[r].pass
                   PROVE  FALSE
        BY DEF FirstOfPass
      <3>1. j \in D /\ j # r /\ j <= r
        BY <2>1
      <3>2. eventRows[j].blockNumber >= eventRows[r].blockNumber
        BY <2>1, <3>1 DEF IndexInv, BlocksInv
      <3>3. eventRows[j].blockNumber # eventRows[r].blockNumber
        BY <2>4, <3>1 DEF AloneInBlock
      <3>4. eventRows[j].blockNumber \in Nat /\ eventRows[r].blockNumber \in Nat
        BY <1>1, <2>1, <3>1, RowNumbers
      <3>5. eventRows[j].blockNumber > eventRows[r].blockNumber
        BY <3>2, <3>3, <3>4
      <3>6. PICK m \in Shown : order[m] = j
        BY <3>1, <3>5 DEF ServedBy
      <3>7. ~(k <= m)
        BY <3>1, <3>4, <3>5, <3>6, <2>1 DEF ServedBy, Shown
      <3>8. m \in 1 .. k - 1
        BY <2>1, <3>7 DEF Shown
      <3>9. feed[m].tokenId = eventRows[j].pass
        BY <3>6 DEF GqlEvent
      <3> QED
        BY <2>4, <3>8, <3>9
    <2>6. RowTrue(eventRows[r])
      BY <1>1, <2>1, <2>5 DEF FeedInv
    <2>7. eventRows[r].kind \in Kinds
      BY <2>3 DEF EventRow
    <2>8. /\ AppKind(eventRows[r].kind) = "Listed" => eventRows[r].kind = "LISTED"
          /\ AppKind(eventRows[r].kind) \in {"Unlisted", "Bought"}
               => eventRows[r].kind \in {"UNLISTED", "RESOLD"}
      BY <2>7 DEF AppKind, Kinds
    <2>9. GqlPass(feed[k].tokenId).listed = passRows[eventRows[r].pass].listedPrice
      BY <2>4 DEF GqlPass
    <2> QED
      BY <2>4, <2>6, <2>8, <2>9 DEF RowTrue
  <1> QED
    BY <1>2, <1>3

LEMMA CaughtUpAgrees == IndexInv /\ CaughtUp => PlansAgree /\ PassesAgree
  <1> SUFFICES ASSUME IndexInv, CaughtUp PROVE PlansAgree /\ PassesAgree
    OBVIOUS
  <1>1. \A E : NoneOf(pending, E)
    BY DEF CaughtUp, NoneOf
  <1>2. PlansAgree
    <2>1. /\ DOMAIN planRows = {0} /\ PlanRowKept /\ planRows[0].open = plan_open[0]
          /\ next_plan_id = 1 /\ plan_prices[0] = PlanPrice
          /\ plan_durations[0] = PlanDuration /\ plan_issuers[0] = Admin
      BY <1>1, ConstantFacts
      DEF IndexInv, PlanFollowed, CaughtUp, ContractsInv, PlansAsDeployed
    <2>2. GqlPlan(0) = [price |-> plan_prices[0], duration |-> plan_durations[0],
                        issuer |-> plan_issuers[0], open |-> plan_open[0]]
      BY <2>1 DEF GqlPlan, PlanRowKept
    <2>3. \A p \in 0 .. next_plan_id - 1 : p = 0
      BY <2>1
    <2> QED
      BY <2>1, <2>2, <2>3 DEF PlansAgree
  <1>3. PassesAgree
    <2> SUFFICES ASSUME NEW i \in DOMAIN passRows, ~Burned(i)
                 PROVE  /\ GqlPass(i) = [planId |-> token_plans[i], owner |-> owners[i],
                             issuer |-> issuers[i], expiry |-> expiries[i],
                             paid |-> token_paid[i], listed |-> listings[i].openingPrice,
                             current |-> listings[i].openingPrice,
                             active |-> is_active(i)]
                        /\ currentPrice(i) <= GqlPass(i).current
      BY DEF PassesAgree
    <2>1. /\ i \in Tokens /\ i < next_token_id /\ passRows[i].plan \in {0, NoPlan}
          /\ OwnerFollowed(i) /\ AskFollowed(i) /\ TermsFollowed(i)
      BY DEF IndexInv, RowsInv, PassesFollowed, Tracked
    <2>2. /\ passRows[i].owner = owners[i]
          /\ passRows[i].listedPrice = listings[i].openingPrice
          /\ RowTerms(i) /\ starts[i] = 0 /\ token_plans[i] = 0
      BY <1>1, <2>1 DEF OwnerFollowed, AskFollowed, TermsFollowed
    <2>3. issuers[i] = Admin
      BY <2>1 DEF IndexInv, ContractsInv, IssuedByAdmin
    <2>4. is_active(i) = (passRows[i].expiry > now)
      <3>1. now \in Nat /\ expiries[i] \in Nat
        BY <2>1, NumberFacts DEF IndexInv, ContractsInv
      <3>2. is_active(i) <=> expiries[i] > now
        BY <2>2, <3>1 DEF is_active
      <3> QED
        BY <2>2, <3>1, <3>2 DEF RowTerms, is_active
    <2>5. (IF passRows[i].plan = NoPlan THEN 0 ELSE passRows[i].plan) = token_plans[i]
      BY <2>1, <2>2
    <2>6. GqlPass(i) = [planId |-> token_plans[i], owner |-> owners[i],
                        issuer |-> issuers[i], expiry |-> expiries[i],
                        paid |-> token_paid[i], listed |-> listings[i].openingPrice,
                        current |-> listings[i].openingPrice,
                        active |-> is_active(i)]
      BY <2>2, <2>3, <2>4, <2>5 DEF GqlPass, RowTerms
    <2>7. GqlPass(i).current = listings[i].openingPrice
      BY <2>2 DEF GqlPass
    <2> QED
      BY <2>1, <2>6, <2>7, PriceFacts DEF IndexInv, ContractsInv
  <1> QED
    BY <1>2, <1>3

(* IndexAgrees for every value of the constants and every lag: the index hangs together
   at every moment, and what the app is shown of plans and passes is what the contracts
   hold whenever no event is waiting, though no handler ever asks the contracts. *)
THEOREM IndexFollows == SubgraphSpec => []IndexAgrees
  <1>1. IndexInv => IndexAgrees
    BY FeedIsTrue, CaughtUpAgrees DEF IndexAgrees
  <1> QED
    BY <1>1, IndexInvariant, PTL

-----------------------------------------------------------------------------
(* The volumes.  What the issuer was paid is counted, or is told by an event *)
(* on its way, unless it was a royalty on a pass the index never learns of. *)

(* The issuer of everything neither trades nor is given passes: the ether it has more
   than at first is what it was paid as issuer. *)
IssuerApart == Admin \notin Users \cup Recipients

NoneOfAdmin == \A i \in Tokens : owners[i] # Admin

(* What an event on its way will add to the volumes, if its pass has a row by then. *)
Worth(e) ==
  IF e.event = "PassPurchased" THEN e.price
  ELSE IF e.event = "Bought" THEN e.royalty ELSE 0

WorthAt(p) == [k \in 1 .. Len(p) |-> Worth(p[k])]
QueueWorth(p) == Sum(WorthAt(p), 1 .. Len(p))

AllTracked == \A i \in Tokens : i < next_token_id => Tracked(i)

RevenueInv ==
  LET told == totals.primaryVolume + totals.royaltiesPaid + QueueWorth(pending)
  IN  /\ NoneOfAdmin
      /\ InitEth[Admin] + told <= eth[Admin]
      /\ AllTracked => InitEth[Admin] + told = eth[Admin]

LEMMA WorthNat ==
  ASSUME NEW e \in Events
  PROVE  Worth(e) \in Nat
  BY EventFields, MarketConstants DEF Worth

LEMMA QueueFacts ==
  ASSUME NEW p \in Seq(Events)
  PROVE  /\ Len(p) \in Nat /\ IsFiniteSet(1 .. Len(p))
         /\ \A k \in 1 .. Len(p) : WorthAt(p)[k] = Worth(p[k]) /\ WorthAt(p)[k] \in Nat
         /\ QueueWorth(p) \in Nat
  <1>1. Len(p) \in Nat /\ \A k \in 1 .. Len(p) : p[k] \in Events
    OBVIOUS
  <1>2. IsFiniteSet(1 .. Len(p))
    BY <1>1, FS_Interval
  <1>3. \A k \in 1 .. Len(p) : WorthAt(p)[k] = Worth(p[k]) /\ WorthAt(p)[k] \in Nat
    BY <1>1, WorthNat DEF WorthAt
  <1> QED
    BY <1>1, <1>2, <1>3, SumNat DEF QueueWorth

(* The worth of what is at the positions of q, moved by n, is that of q. *)
LEMMA WorthMoved ==
  ASSUME NEW p \in Seq(Events), NEW q \in Seq(Events), NEW n \in Nat,
         \A k \in 1 .. Len(q) : k + n \in 1 .. Len(p) /\ p[k + n] = q[k]
  PROVE  Sum(WorthAt(p), n + 1 .. n + Len(q)) = QueueWorth(q)
  <1> DEFINE m == Len(q)
             b == [k \in 1 .. m |-> k + n]
             S == 1 .. m
             T == n + 1 .. n + m
  <1>1. m \in Nat
    OBVIOUS
  <1> HIDE DEF m
  <1>2. \A k \in S : k + n \in T
    BY <1>1
  <1>3. \A t \in T : t - n \in S /\ (t - n) + n = t
    BY <1>1
  <1>4. \A x, y \in S : x + n = y + n => x = y
    BY <1>1
  <1>5. b \in [S -> T]
    BY <1>2
  <1>6. \A x, y \in S : b[x] = b[y] => x = y
    BY <1>4
  <1>7. \A t \in T : \E k \in S : b[k] = t
    BY <1>3
  <1>8. b \in Bijection(S, T)
    <2> HIDE DEF b, S, T
    <2> QED
      BY <1>5, <1>6, <1>7 DEF Bijection, Injection, Surjection, IsInjective
  <1>9. \A k \in S : WorthAt(q)[k] \in Nat /\ WorthAt(q)[k] = WorthAt(p)[b[k]]
    BY QueueFacts DEF m
  <1>10. IsFiniteSet(S)
    BY QueueFacts DEF m
  <1> HIDE DEF b, S, T
  <1>11. Sum(WorthAt(q), S) = Sum(WorthAt(p), T)
    BY <1>8, <1>9, <1>10, SumBijection
  <1> QED
    BY <1>11 DEF QueueWorth, S, T, m

LEMMA WorthTail ==
  ASSUME NEW p \in Seq(Events), p # << >>
  PROVE  QueueWorth(p) = Worth(Head(p)) + QueueWorth(Tail(p))
  <1> DEFINE t == Tail(p)
             n == Len(p)
  <1>1. /\ t \in Seq(Events) /\ n \in Nat /\ n >= 1 /\ Len(t) = n - 1 /\ Head(p) = p[1]
        /\ \A k \in 1 .. n - 1 : t[k] = p[k + 1]
    BY TailFacts
  <1>2. \A k \in 1 .. Len(t) : k + 1 \in 1 .. Len(p) /\ p[k + 1] = t[k]
    BY <1>1
  <1> HIDE DEF t
  <1>3. Sum(WorthAt(p), 1 + 1 .. 1 + Len(t)) = QueueWorth(t)
    BY <1>1, <1>2, WorthMoved
  <1>4. /\ 1 \in 1 .. n /\ 1 + 1 .. 1 + Len(t) = (1 .. n) \ {1}
    BY <1>1
  <1>a. IsFiniteSet(1 .. n) /\ \A k \in 1 .. n : WorthAt(p)[k] \in Nat
    BY QueueFacts
  <1>5. Sum(WorthAt(p), 1 .. n) = Sum(WorthAt(p), (1 .. n) \ {1}) + WorthAt(p)[1]
    <2> DEFINE f == WorthAt(p)
               S == 1 .. n
    <2>1. IsFiniteSet(S) /\ 1 \in S /\ \A k \in S : f[k] \in Nat
      BY <1>4, <1>a
    <2> HIDE DEF f, S
    <2>2. Sum(f, S) = Sum(f, S \ {1}) + f[1]
      BY <2>1, SumRemove
    <2> QED
      BY <2>2 DEF f, S
  <1>6. WorthAt(p)[1] = Worth(p[1]) /\ Worth(p[1]) \in Nat /\ QueueWorth(t) \in Nat
    BY <1>1, <1>4, QueueFacts
  <1>7. QueueWorth(p) = QueueWorth(t) + Worth(p[1])
    BY <1>3, <1>4, <1>5, <1>6 DEF QueueWorth
  <1> QED
    BY <1>1, <1>6, <1>7 DEF t

LEMMA WorthConcat ==
  ASSUME NEW p \in Seq(Events), NEW q \in Seq(Events)
  PROVE  QueueWorth(p \o q) = QueueWorth(p) + QueueWorth(q)
  <1> DEFINE r == p \o q
             n == Len(p)
             m == Len(q)
  <1>1. /\ r \in Seq(Events) /\ n \in Nat /\ m \in Nat /\ Len(r) = n + m
        /\ \A k \in 1 .. n : r[k] = p[k]
        /\ \A k \in 1 .. m : r[n + k] = q[k]
    BY ConcatFacts
  <1> HIDE DEF r
  <1>2. \A k \in 1 .. m : k + n \in 1 .. Len(r) /\ r[k + n] = q[k]
    BY <1>1
  <1>3. Sum(WorthAt(r), n + 1 .. n + m) = QueueWorth(q)
    BY <1>1, <1>2, WorthMoved
  <1>4. Sum(WorthAt(r), 1 .. n) = QueueWorth(p)
    <2>1. \A k \in 1 .. n : k \in 1 .. Len(r)
      BY <1>1
    <2>2. \A k \in 1 .. n : WorthAt(r)[k] = WorthAt(p)[k]
      BY <1>1, <2>1, QueueFacts
    <2> QED
      BY <2>2, SumCong DEF QueueWorth
  <1>5. /\ 1 .. Len(r) = (1 .. n) \cup (n + 1 .. n + m)
        /\ (1 .. n) \cap (n + 1 .. n + m) = {}
    BY <1>1
  <1>6. IsFiniteSet(1 .. n) /\ IsFiniteSet(n + 1 .. n + m)
    BY <1>1, FS_Interval
  <1>7. \A k \in (1 .. n) \cup (n + 1 .. n + m) : WorthAt(r)[k] \in Nat
    BY <1>1, <1>5, QueueFacts
  <1>8. Sum(WorthAt(r), (1 .. n) \cup (n + 1 .. n + m))
          = Sum(WorthAt(r), 1 .. n) + Sum(WorthAt(r), n + 1 .. n + m)
    BY <1>5, <1>6, <1>7, SumDisjoint
  <1> QED
    BY <1>3, <1>4, <1>5, <1>8 DEF QueueWorth, r

LEMMA WorthOfNone ==
  ASSUME NEW q \in Seq(Events), NoneOf(q, Sales)
  PROVE  QueueWorth(q) = 0
  <1>1. ASSUME NEW k \in 1 .. Len(q) PROVE WorthAt(q)[k] = 0
    <2>1. q[k] \in Events /\ q[k] \notin Sales
      BY DEF NoneOf
    <2>2. Worth(q[k]) = 0
      BY <2>1 DEF Worth, Sales
    <2> QED
      BY <2>2, QueueFacts
  <1> QED
    BY <1>1, SumOfZeros DEF QueueWorth

LEMMA WorthOfTwo ==
  ASSUME NEW q \in Seq(Events), Len(q) = 2
  PROVE  QueueWorth(q) = Worth(q[1]) + Worth(q[2])
  <1>1. 1 .. Len(q) = {1} \cup {2} /\ {1} \cap {2} = {}
    OBVIOUS
  <1>2. /\ WorthAt(q)[1] = Worth(q[1]) /\ WorthAt(q)[1] \in Nat
        /\ WorthAt(q)[2] = Worth(q[2]) /\ WorthAt(q)[2] \in Nat
    BY <1>1, QueueFacts
  <1>3. Sum(WorthAt(q), {1} \cup {2}) = Sum(WorthAt(q), {1}) + Sum(WorthAt(q), {2})
    <2>1. IsFiniteSet({1}) /\ IsFiniteSet({2})
      BY FS_Singleton
    <2>2. \A k \in {1} \cup {2} : WorthAt(q)[k] \in Nat
      BY <1>2
    <2> QED
      BY <1>1, <2>1, <2>2, SumDisjoint
  <1>4. Sum(WorthAt(q), {1}) = WorthAt(q)[1] /\ Sum(WorthAt(q), {2}) = WorthAt(q)[2]
    BY <1>2, SumSingleton
  <1> QED
    BY <1>1, <1>2, <1>3, <1>4 DEF QueueWorth

LEMMA RevenueInitInv ==
  ASSUME IssuerApart, SubgraphInit
  PROVE  RevenueInv
  <1> DEFINE e == PlanCreated(0, Admin, PlanPrice, PlanDuration)
  <1>1. /\ pending = <<e>> /\ totals = NoTotals /\ eth = InitEth
        /\ owners = [i \in Tokens |-> ZERO]
    BY DEF SubgraphInit, SystemInit, DeployedWithPlan, NoPasses, ChainInit
  <1>2. NoneOfAdmin
    BY <1>1, ConstantFacts DEF NoneOfAdmin
  <1>3. e \in Events /\ e \notin Sales
    BY DEF PlanCreated, Events, Sales
  <1> HIDE DEF e
  <1>4. pending \in Seq(Events) /\ NoneOf(pending, Sales)
    <2>1. pending \in Seq(Events) /\ Len(pending) = 1 /\ pending[1] = e
      BY <1>1, <1>3
    <2>2. \A k \in 1 .. Len(pending) : k = 1
      BY <2>1
    <2> QED
      BY <1>3, <2>1, <2>2 DEF NoneOf
  <1>5. QueueWorth(pending) = 0
    BY <1>4, WorthOfNone
  <1>6. totals.primaryVolume = 0 /\ totals.royaltiesPaid = 0
    BY <1>1 DEF NoTotals
  <1>7. InitEth[Admin] \in Nat
    BY ConstantFacts, AccountsAssumption
  <1> QED
    BY <1>1, <1>2, <1>5, <1>6, <1>7 DEF RevenueInv

(* Nobody who takes a pass is its issuer. *)
LEMMA NoneOfAdminStep ==
  ASSUME IssuerApart, ContractsInv, NoneOfAdmin, Transaction
  PROVE  NoneOfAdmin'
  <1>1. owners \in [Tokens -> Holders] /\ ZERO # Admin
    BY NumberFacts, ConstantFacts DEF ContractsInv
  <1>2. CASE \E to \in Recipients, d \in Durations : EmitMint(Admin, to, d)
    BY <1>1, <1>2 DEF EmitMint, OnCore, Mint, NewPass, NoneOfAdmin, IssuerApart
  <1>3. CASE \E p \in Plans, open \in Openings : EmitSetPlanOpen(Admin, p, open)
    BY <1>3 DEF EmitSetPlanOpen, OnCore, SetPlanOpen, tokenVars, NoneOfAdmin
  <1>4. ASSUME NEW c \in Users, HolderEmits(c) PROVE NoneOfAdmin'
    <2>1. c # Admin
      BY DEF IssuerApart
    <2>2. CASE \E p \in Plans, v \in Prices : EmitBuyPass(c, p, v)
      BY <1>1, <2>1, <2>2 DEF EmitBuyPass, OnCore, BuyPass, NewPass, NoneOfAdmin
    <2>3. CASE \E ids \in IdLists : EmitBundle(c, ids)
      BY <1>1, <2>1, <2>3 DEF EmitBundle, OnCore, Bundle, NoneOfAdmin
    <2>4. CASE \E id \in Tokens, n \in PartCounts : EmitSplit(c, id, n)
      BY <1>1, <2>1, <2>4 DEF EmitSplit, OnCore, Split, NoneOfAdmin
    <2>5. CASE \E id \in Tokens, to \in Recipients : EmitTransfer(c, to, id)
      BY <1>1, <2>5 DEF EmitTransfer, OnCore, TransferPass, MovePass, NoneOfAdmin, IssuerApart
    <2>6. CASE \E id \in Tokens, v \in Values : EmitBuy(c, id, v)
      BY <1>1, <2>1, <2>6 DEF EmitBuy, Buy, MovePass, NoneOfAdmin
    <2>7. CASE \E id \in Tokens : EmitUnlist(c, id) \/ \E a \in AskPrices : EmitList(c, id, a)
      BY <2>7 DEF EmitUnlist, EmitList, Unlist, List, coreVars, tokenVars, NoneOfAdmin
    <2> QED
      BY <1>4, <2>2, <2>3, <2>4, <2>5, <2>6, <2>7 DEF HolderEmits
  <1> QED
    BY <1>2, <1>3, <1>4 DEF Transaction, IssuerEmits

(* A payment gives its payee what it was, and nobody else but the payer is touched. *)
LEMMA PaymentReaches ==
  ASSUME NEW sheet, DOMAIN sheet = Holders, NEW a, NEW b, NEW v,
         NEW h \in Holders, h # a
  PROVE  /\ DOMAIN Payment(sheet, a, b, v) = Holders
         /\ Payment(sheet, a, b, v)[h] = IF h = b THEN sheet[h] + v ELSE sheet[h]
  <1> DEFINE d == Debit(sheet, a, v)
  <1>1. DOMAIN d = Holders /\ d[h] = sheet[h]
    BY DEF Debit
  <1>2. Payment(sheet, a, b, v) = [d EXCEPT ![b] = @ + v]
    BY DEF Payment, Credit
  <1> HIDE DEF d
  <1> QED
    BY <1>1, <1>2

LEMMA RoyaltyPaid ==
  ASSUME IssuerApart, ContractsInv, NoneOfAdmin,
         NEW c \in Users, NEW id \in Tokens, NEW v \in Values, Buy(c, id, v)
  PROVE  eth'[Admin] = eth[Admin] + currentPrice(id) \div 10
  <1> PICK price, royalty, proceeds, refund, seller :
        /\ price = currentPrice(id) /\ royalty = price \div 10
        /\ proceeds = price - royalty /\ refund = v - price /\ seller = owners[id]
    OBVIOUS
  <1>1. is_active(id) /\ SellerPaid(seller, proceeds) /\ issuers[id] \notin Refusing
    BY DEF Buy
  <1>2. id < next_token_id
    BY <1>1, IssuedIfHeld DEF ContractsInv
  <1>3. issuers[id] = Admin /\ escrowYield = ZERO
    BY <1>2 DEF ContractsInv, IssuedByAdmin
  <1>4. Admin # c /\ Admin # seller /\ Admin # MARKET /\ Admin \in Holders
    BY <1>1, <1>3, MarketConstants, ConstantFacts DEF IssuerApart, NoneOfAdmin
  <1>5. DOMAIN eth = Holders
    BY DEF ContractsInv, MarketInv, CoreInv, TypeOK, ChainTypeOK
  <1> DEFINE e1 == Payment(eth, c, MARKET, v)
             e2 == Payment(e1, MARKET, seller, proceeds)
             e3 == Payment(e2, MARKET, Admin, royalty)
             e4 == Payment(e3, MARKET, c, refund)
  <1>6. eth' = e4
    BY <1>3, ProceedsGo DEF Buy
  <1>7. DOMAIN e1 = Holders /\ e1[Admin] = eth[Admin]
    BY <1>4, <1>5, PaymentReaches
  <1> HIDE DEF e1
  <1>8. DOMAIN e2 = Holders /\ e2[Admin] = e1[Admin]
    BY <1>4, <1>7, PaymentReaches
  <1> HIDE DEF e2
  <1>9. DOMAIN e3 = Holders /\ e3[Admin] = e2[Admin] + royalty
    BY <1>4, <1>8, PaymentReaches
  <1> HIDE DEF e3
  <1>10. e4[Admin] = e3[Admin]
    BY <1>4, <1>9, PaymentReaches
  <1> QED
    BY <1>6, <1>7, <1>8, <1>9, <1>10

LEMMA PricePaid ==
  ASSUME IssuerApart, ContractsInv, NEW c \in Users, NEW v \in Prices, BuyPass(c, 0, v)
  PROVE  eth'[Admin] = eth[Admin] + PlanPrice
  <1>1. /\ plan_issuers[0] = Admin /\ plan_prices[0] = PlanPrice /\ Admin \in Holders
        /\ c # Admin
    BY ConstantFacts DEF ContractsInv, PlansAsDeployed, IssuerApart
  <1>2. DOMAIN eth = Holders
    BY DEF ContractsInv, MarketInv, CoreInv, TypeOK, ChainTypeOK
  <1> DEFINE d == Debit(eth, c, v)
  <1>3. DOMAIN d = Holders /\ d[Admin] = eth[Admin]
    BY <1>1, <1>2 DEF Debit
  <1>4. eth' = Credit(d, Admin, PlanPrice)
    BY <1>1 DEF BuyPass
  <1> HIDE DEF d
  <1> QED
    BY <1>1, <1>3, <1>4 DEF Credit

(* What the events of a transaction are worth is what the issuer got of it. *)
LEMMA IssuerPaid ==
  ASSUME IssuerApart, ContractsInv, NoneOfAdmin, NEW evs, Tells(evs)
  PROVE  eth'[Admin] = eth[Admin] + QueueWorth(evs)
  <1>1. evs \in Seq(Events) /\ SoldFor(evs)
    BY DEF Tells
  <1>2. eth[Admin] \in Nat
    BY ConstantFacts DEF ContractsInv, MarketInv, CoreInv, TypeOK, ChainTypeOK
  <1>3. ASSUME Len(evs) = 2 PROVE evs[1] \in Events /\ evs[2] \in Events
    <2>1. \A k \in 1 .. Len(evs) : evs[k] \in Events
      BY <1>1
    <2>2. 1 \in 1 .. Len(evs) /\ 2 \in 1 .. Len(evs)
      BY <1>3
    <2> QED
      BY <2>1, <2>2
  <1>6. CASE NoneOf(evs, Sales) /\ UNCHANGED eth
    BY <1>1, <1>2, <1>6, WorthOfNone
  <1>4. CASE /\ Len(evs) = 2 /\ evs[1].event = "PassPurchased" /\ evs[2] \notin Sales
             /\ \E c \in Users, v \in Prices : BuyPass(c, 0, v)
    <2>1. evs[1] \in Events /\ evs[2] \in Events
      BY <1>3, <1>4
    <2>2. Worth(evs[1]) = PlanPrice
      BY <1>4, <2>1, EventFields DEF Worth
    <2>3. Worth(evs[2]) = 0
      BY <1>4, <2>1 DEF Worth, Sales
    <2>4. QueueWorth(evs) = PlanPrice
      BY <1>1, <1>4, <2>2, <2>3, WorthOfTwo, MarketConstants
    <2> QED
      BY <1>4, <2>4, PricePaid
  <1>5. CASE /\ Len(evs) = 2 /\ evs[1] \notin Sales /\ evs[2].event = "Bought"
             /\ \E c \in Users, id \in Tokens, v \in Values :
                  Buy(c, id, v) /\ evs[2].royalty = currentPrice(id) \div 10
    <2> PICK c \in Users, id \in Tokens, v \in Values :
          Buy(c, id, v) /\ evs[2].royalty = currentPrice(id) \div 10
      BY <1>5
    <2>1. evs[1] \in Events /\ evs[2] \in Events
      BY <1>3, <1>5
    <2>2. Worth(evs[1]) = 0
      BY <1>5, <2>1 DEF Worth, Sales
    <2>3. Worth(evs[2]) = evs[2].royalty /\ Worth(evs[2]) \in Nat
      BY <1>5, <2>1, WorthNat DEF Worth
    <2>4. QueueWorth(evs) = evs[2].royalty
      BY <1>1, <1>5, <2>2, <2>3, WorthOfTwo
    <2> QED
      BY <2>4, RoyaltyPaid
  <1> QED
    BY <1>1, <1>4, <1>5, <1>6 DEF SoldFor

(* A transaction tells of no pass issued before it that the index did not know of. *)
LEMMA TrackedBefore ==
  ASSUME IndexInv, NEW evs, Tells(evs), next_token_id' \in Nat,
         next_token_id' >= next_token_id, AllTracked'
  PROVE  AllTracked
  <1>1. /\ evs \in Seq(Events) /\ pending \in Seq(Events) /\ pending' = pending \o evs
        /\ passRows' = passRows /\ next_token_id \in Nat /\ Tokens \subseteq Nat
    BY NumberFacts DEF Tells, IndexInv, EventsInv, ContractsInv, indexVars
  <1> SUFFICES ASSUME NEW i \in Tokens, i < next_token_id PROVE Tracked(i)
    BY DEF AllTracked
  <1>2. Tracked(i)'
    BY <1>1 DEF AllTracked
  <1>3. NoneOf(evs, Announces(i))
    BY DEF Tells, ToldOfOld
  <1>4. NoneOf(pending', Announces(i)) <=> NoneOf(pending, Announces(i))
    BY <1>1, <1>3, ConcatOthers
  <1> QED
    BY <1>1, <1>2, <1>4 DEF Tracked

LEMMA RevenueNumbers ==
  ASSUME IndexInv
  PROVE  /\ totals.primaryVolume \in Nat /\ totals.royaltiesPaid \in Nat
         /\ pending \in Seq(Events) /\ QueueWorth(pending) \in Nat
         /\ InitEth[Admin] \in Nat /\ eth[Admin] \in Nat
  <1>1. totals \in TotalsRow /\ pending \in Seq(Events)
    BY DEF IndexInv, EventsInv
  <1>2. eth[Admin] \in Nat /\ InitEth[Admin] \in Nat
    BY ConstantFacts, AccountsAssumption
    DEF IndexInv, ContractsInv, MarketInv, CoreInv, TypeOK, ChainTypeOK
  <1> QED
    BY <1>1, <1>2, QueueFacts DEF TotalsRow

LEMMA RevenueTransaction ==
  ASSUME IssuerApart, IndexInv, RevenueInv, Transaction
  PROVE  RevenueInv'
  <1>1. next_token_id' >= next_token_id /\ next_token_id' \in Nat
    BY TransactionContracts DEF IndexInv
  <1>2. PICK evs : Tells(evs)
    BY TransactionTells DEF IndexInv
  <1>3. evs \in Seq(Events) /\ pending' = pending \o evs /\ totals' = totals
    BY <1>2 DEF Tells, indexVars
  <1>4. NoneOfAdmin'
    BY NoneOfAdminStep DEF RevenueInv, IndexInv
  <1>5. eth'[Admin] = eth[Admin] + QueueWorth(evs)
    BY <1>2, IssuerPaid DEF RevenueInv, IndexInv
  <1>6. QueueWorth(pending') = QueueWorth(pending) + QueueWorth(evs)
    BY <1>3, RevenueNumbers, WorthConcat
  <1>7. QueueWorth(evs) \in Nat
    BY <1>3, QueueFacts
  <1>8. AllTracked' => AllTracked
    BY <1>1, <1>2, TrackedBefore
  <1> PICK w \in Nat : w = QueueWorth(evs)
    BY <1>7
  <1>9. /\ InitEth[Admin] + (totals.primaryVolume + totals.royaltiesPaid
                               + QueueWorth(pending)) <= eth[Admin]
        /\ AllTracked =>
             InitEth[Admin] + (totals.primaryVolume + totals.royaltiesPaid
                                 + QueueWorth(pending)) = eth[Admin]
    BY DEF RevenueInv
  <1>10. /\ InitEth[Admin] + (totals.primaryVolume + totals.royaltiesPaid
                               + (QueueWorth(pending) + w)) <= eth[Admin] + w
         /\ AllTracked' =>
              InitEth[Admin] + (totals.primaryVolume + totals.royaltiesPaid
                                  + (QueueWorth(pending) + w)) = eth[Admin] + w
    BY <1>8, <1>9, RevenueNumbers
  <1> QED
    BY <1>3, <1>4, <1>5, <1>6, <1>10 DEF RevenueInv

(* A resale is counted unless its pass has no row, and then the index never learns of
   the pass: its announcement would have come first. *)
LEMMA HandleCounted ==
  ASSUME IndexInv, Handle, NEW e, e = Head(pending)
  PROVE  /\ Counted(e) <= Worth(e)
         /\ AllTracked' => AllTracked /\ Counted(e) = Worth(e)
  <1>1. /\ pending # << >> /\ pending \in Seq(Events) /\ e \in Events
        /\ pending' = Tail(pending) /\ next_token_id' = next_token_id
        /\ 1 \in 1 .. Len(pending) /\ pending[1] = e
    BY HandleHead DEF vars, coreVars, tokenVars
  <1>2. \A k \in 1 .. Len(pending') : /\ k + 1 \in 1 .. Len(pending)
                                      /\ pending'[k] = pending[k + 1] /\ k + 1 > 1
    BY <1>1, TailEvents
  <1>3. ASSUME NEW i \in Tokens, Tracked(i)' PROVE Tracked(i)
    <2>1. RowTakes(e, i)
      BY HandleRows
    <2> QED
      BY <1>1, <1>2, <1>3, <2>1 DEF Tracked, RowTakes, NoneOf
  <1>4. AllTracked' => AllTracked
    BY <1>1, <1>3 DEF AllTracked
  <1>5. Worth(e) \in Nat
    BY <1>1, WorthNat
  <1>6. CASE ~(e.event = "Bought" /\ e.tokenId \notin DOMAIN passRows)
    <2>1. Counted(e) = Worth(e)
      BY <1>6 DEF Counted, Worth
    <2> QED
      BY <1>4, <1>5, <2>1
  <1>7. CASE e.event = "Bought" /\ e.tokenId \notin DOMAIN passRows
    <2>1. Counted(e) = 0
      BY <1>7 DEF Counted
    <2> PICK i \in Tokens : i = e.tokenId
      BY <1>1, <1>7, EventFields DEF PassEvents
    <2>2. i < next_token_id
      BY <1>1, <1>7 DEF IndexInv, EventsInv, PassEvents
    <2>3. e \in About(i) /\ e \notin Announces(i)
      BY <1>1, <1>7, EventKinds DEF PassEvents
    <2>4. ~Tracked(i)
      <3> SUFFICES ASSUME NEW k \in 1 .. Len(pending), pending[k] \in Announces(i)
                   PROVE  FALSE
        BY <1>7 DEF Tracked, NoneOf
      <3>1. k # 1
        BY <1>1, <2>3
      <3>2. 1 < k
        BY <1>1, <3>1
      <3> QED
        BY <1>1, <2>3, <3>2 DEF IndexInv, AnnouncedFirst
    <2>5. ~AllTracked
      BY <2>2, <2>4 DEF AllTracked
    <2> QED
      BY <1>4, <1>5, <2>1, <2>5
  <1> QED
    BY <1>6, <1>7

LEMMA RevenueHandle ==
  ASSUME IndexInv, RevenueInv, Handle
  PROVE  RevenueInv'
  <1> PICK e : e = Head(pending)
    OBVIOUS
  <1>1. /\ pending # << >> /\ e \in Events /\ Handled(e) /\ pending' = Tail(pending)
        /\ eth' = eth /\ owners' = owners
    BY HandleHead DEF vars, coreVars, tokenVars
  <1>2. QueueWorth(pending) = Worth(e) + QueueWorth(pending')
    BY <1>1, RevenueNumbers, WorthTail
  <1>3. /\ totals' \in TotalsRow /\ Counted(e) \in Nat
        /\ totals'.primaryVolume + totals'.royaltiesPaid
             = totals.primaryVolume + totals.royaltiesPaid + Counted(e)
    BY <1>1, HandleTotals DEF IndexInv
  <1>4. Worth(e) \in Nat /\ QueueWorth(pending') \in Nat
    BY <1>1, RevenueNumbers, TailFacts, WorthNat, QueueFacts
  <1>5. /\ Counted(e) <= Worth(e)
        /\ AllTracked' => AllTracked /\ Counted(e) = Worth(e)
    BY HandleCounted
  <1>6. /\ InitEth[Admin] + (totals.primaryVolume + totals.royaltiesPaid
                               + QueueWorth(pending)) <= eth[Admin]
        /\ AllTracked =>
             InitEth[Admin] + (totals.primaryVolume + totals.royaltiesPaid
                                 + QueueWorth(pending)) = eth[Admin]
    BY DEF RevenueInv
  <1> PICK w \in Nat, c \in Nat, q \in Nat :
        w = Worth(e) /\ c = Counted(e) /\ q = QueueWorth(pending')
    BY <1>3, <1>4
  <1> PICK p \in Nat, r \in Nat, i \in Nat, a \in Nat :
        /\ p = totals.primaryVolume /\ r = totals.royaltiesPaid
        /\ i = InitEth[Admin] /\ a = eth[Admin]
    BY RevenueNumbers
  <1>7. /\ i + (p + r + c + q) <= a
        /\ AllTracked' => i + (p + r + c + q) = a
    <2>1. i + (p + r + (w + q)) <= a /\ c <= w
      BY <1>2, <1>5, <1>6
    <2>2. AllTracked' => i + (p + r + (w + q)) = a /\ c = w
      BY <1>2, <1>5, <1>6
    <2>3. i + (p + r + c + q) <= a
      BY <2>1
    <2>4. i + (p + r + (w + q)) = a /\ c = w => i + (p + r + c + q) = a
      OBVIOUS
    <2> QED
      BY <2>2, <2>3, <2>4
  <1>8. /\ InitEth[Admin] + (totals'.primaryVolume + totals'.royaltiesPaid
                               + QueueWorth(pending')) <= eth[Admin]
        /\ AllTracked' =>
             InitEth[Admin] + (totals'.primaryVolume + totals'.royaltiesPaid
                                 + QueueWorth(pending')) = eth[Admin]
    BY <1>3, <1>7
  <1>9. NoneOfAdmin'
    BY <1>1 DEF RevenueInv, NoneOfAdmin
  <1> QED
    BY <1>1, <1>8, <1>9 DEF RevenueInv

LEMMA RevenueStays ==
  ASSUME RevenueInv, UNCHANGED <<owners, eth, totals, pending, passRows, next_token_id>>
  PROVE  RevenueInv'
  <1>1. AllTracked' => AllTracked
    BY DEF AllTracked, Tracked
  <1>2. NoneOfAdmin'
    BY DEF RevenueInv, NoneOfAdmin
  <1> QED
    BY <1>1, <1>2 DEF RevenueInv

LEMMA RevenueStepInv ==
  ASSUME IssuerApart
  PROVE  IndexInv /\ RevenueInv /\ [SubgraphNext]_subgraphVars => RevenueInv'
  <1> SUFFICES ASSUME IndexInv, RevenueInv, [SubgraphNext]_subgraphVars PROVE RevenueInv'
    OBVIOUS
  <1>1. CASE Tick /\ UNCHANGED <<escrowVars, marketVars, pending, blocks, indexVars>>
    <2>1. UNCHANGED <<owners, eth, totals, pending, passRows, next_token_id>>
      BY <1>1 DEF Tick, TimePasses, tokenVars, indexVars
    <2> QED
      BY <2>1, RevenueStays
  <1>2. CASE Transaction
    BY <1>2, RevenueTransaction
  <1>3. CASE Handle
    BY <1>3, RevenueHandle
  <1>4. CASE UNCHANGED subgraphVars
    <2>1. UNCHANGED <<owners, eth, totals, pending, passRows, next_token_id>>
      BY <1>4 DEF subgraphVars, vars, coreVars, tokenVars, indexVars
    <2> QED
      BY <2>1, RevenueStays
  <1> QED
    BY <1>1, <1>2, <1>3, <1>4 DEF SubgraphNext, Transaction

LEMMA RevenueFollows == IndexInv /\ RevenueInv => RevenueAccounted
  <1> SUFFICES ASSUME IndexInv, RevenueInv PROVE RevenueAccounted
    OBVIOUS
  <1>1. /\ InitEth[Admin] + (totals.primaryVolume + totals.royaltiesPaid
                               + QueueWorth(pending)) <= eth[Admin]
        /\ AllTracked =>
             InitEth[Admin] + (totals.primaryVolume + totals.royaltiesPaid
                                 + QueueWorth(pending)) = eth[Admin]
    BY DEF RevenueInv
  <1>2. totals.primaryVolume + totals.royaltiesPaid <= eth[Admin] - InitEth[Admin]
    BY <1>1, RevenueNumbers
  <1>3. ASSUME CaughtUp, 0 .. next_token_id - 1 \subseteq DOMAIN passRows
        PROVE  totals.primaryVolume + totals.royaltiesPaid = eth[Admin] - InitEth[Admin]
    <2>1. AllTracked
      BY <1>3, NumberFacts DEF AllTracked, Tracked, IndexInv, ContractsInv
    <2>2. NoneOf(pending, Sales)
      BY <1>3 DEF CaughtUp, NoneOf
    <2>3. QueueWorth(pending) = 0
      BY <2>2, RevenueNumbers, WorthOfNone
    <2> QED
      BY <1>1, <2>1, <2>3, RevenueNumbers
  <1> QED
    BY <1>2, <1>3 DEF RevenueAccounted

(* The volumes the app shows (subgraph/src/mapping.ts, handlePassPurchased and
   handleBought) never claim more than the issuer was paid, and all of it once the index
   has caught up, where it knows of every pass: RevenueAccounted. *)
THEOREM VolumesAccountForRevenue ==
  ASSUME IssuerApart
  PROVE  SubgraphSpec => []RevenueAccounted
  <1>1. SubgraphInit => RevenueInv
    BY RevenueInitInv
  <1>2. IndexInv /\ RevenueInv /\ [SubgraphNext]_subgraphVars => RevenueInv'
    BY RevenueStepInv
  <1> QED
    BY <1>1, <1>2, IndexInvariant, RevenueFollows, PTL DEF SubgraphSpec
=============================================================================
