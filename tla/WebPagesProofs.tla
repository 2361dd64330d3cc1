--------------------------- MODULE WebPagesProofs ---------------------------
(***************************************************************************)
(* Theorems about what the pages keep in one tab and show from two reads   *)
(* of the chain: whatever is pressed, read and sent in between.            *)
(***************************************************************************)
EXTENDS WebPages, MarketplaceProofs

-----------------------------------------------------------------------------
(* Sequences, and what is put in order.                                    *)

LEMMA FunctionIsSequence ==
  ASSUME NEW S, NEW n \in Nat, NEW f \in [1 .. n -> S]
  PROVE  f \in Seq(S) /\ Len(f) = n
  <1>1. f \in Seq(S)
    BY SeqDef
  <1>2. Len(f) \in Nat /\ 1 .. Len(f) = 1 .. n
    BY <1>1, LenProperties
  <1> QED
    BY <1>1, <1>2

(* Ranking by an order loses nothing, makes nothing up, and goes by the order. *)
LEMMA RankedInOrder ==
  ASSUME NEW S, IsFiniteSet(S), NEW R, Orders(R, S)
  PROVE  LET s == Ranked(S, R)
             n == Cardinality(S)
         IN  /\ n \in Nat /\ s \in Seq(S) /\ Len(s) = n /\ DOMAIN s = 1 .. n
             /\ \A k \in 1 .. n : s[k] \in S
             /\ \A x \in S : \E k \in 1 .. n : s[k] = x
             /\ \A j, k \in 1 .. n : j < k => <<s[j], s[k]>> \in R
  <1> DEFINE n == Cardinality(S)
             before(x) == Before(R, S, x)
             rank == [x \in S |-> Cardinality(before(x))]
             s == Ranked(S, R)
  <1>1. n \in Nat
    BY FS_CardinalityType
  <1>2. s = [k \in 1 .. n |-> CHOOSE x \in S : Cardinality(before(x)) = k - 1]
    BY DEF Ranked
  <1>3. /\ \A x \in S : <<x, x>> \notin R
        /\ \A x, y \in S : x # y => <<x, y>> \in R \/ <<y, x>> \in R
        /\ \A x, y, z \in S : <<x, y>> \in R /\ <<y, z>> \in R => <<x, z>> \in R
    BY DEF Orders
  <1>4. \A x \in S : before(x) = { y \in S : <<y, x>> \in R }
    BY DEF Before
  <1> HIDE DEF s, n, before
  <1>5. ASSUME NEW x \in S
        PROVE  IsFiniteSet(before(x)) /\ Cardinality(before(x)) \in 0 .. n - 1
    <2>1. before(x) \subseteq S /\ x \notin before(x)
      BY <1>3, <1>4
    <2>2. /\ IsFiniteSet(before(x)) /\ Cardinality(before(x)) <= n
          /\ Cardinality(before(x)) # n /\ Cardinality(before(x)) \in Nat
      BY <2>1, FS_Subset, FS_CardinalityType DEF n
    <2> QED
      BY <1>1, <2>2
  <1>6. ASSUME NEW x \in S, NEW y \in S, <<x, y>> \in R
        PROVE  Cardinality(before(x)) < Cardinality(before(y))
    <2>1. before(x) \subseteq before(y) /\ x \in before(y) /\ x \notin before(x)
      BY <1>3, <1>4, <1>6
    <2>2. /\ IsFiniteSet(before(y))
          /\ Cardinality(before(x)) \in Nat /\ Cardinality(before(y)) \in Nat
      BY <1>1, <1>5
    <2>3. /\ Cardinality(before(x)) <= Cardinality(before(y))
          /\ Cardinality(before(x)) # Cardinality(before(y))
      BY <2>1, <2>2, FS_Subset
    <2> QED
      BY <2>2, <2>3
  <1>7. ASSUME NEW x \in S, NEW y \in S, Cardinality(before(x)) = Cardinality(before(y))
        PROVE  x = y
    <2>1. Cardinality(before(x)) \in Nat
      BY <1>1, <1>5
    <2>2. ~(<<x, y>> \in R)
      <3> SUFFICES ASSUME <<x, y>> \in R PROVE FALSE
        OBVIOUS
      <3>1. Cardinality(before(x)) < Cardinality(before(y))
        BY <1>6
      <3> QED
        BY <1>7, <2>1, <3>1
    <2>3. ~(<<y, x>> \in R)
      <3> SUFFICES ASSUME <<y, x>> \in R PROVE FALSE
        OBVIOUS
      <3>1. Cardinality(before(y)) < Cardinality(before(x))
        BY <1>6
      <3> QED
        BY <1>7, <2>1, <3>1
    <2> QED
      BY <1>3, <2>2, <2>3
  <1>8. ASSUME NEW k \in 1 .. n PROVE \E x \in S : Cardinality(before(x)) = k - 1
    <2>1. rank \in Injection(S, 0 .. n - 1)
      BY <1>5, <1>7 DEF Injection, IsInjective
    <2>2. IsFiniteSet(0 .. n - 1) /\ Cardinality(0 .. n - 1) = n
      BY <1>1, FS_Interval
    <2>3. rank \in Surjection(S, 0 .. n - 1)
      BY <2>1, <2>2, FS_Injection DEF n
    <2>4. \A m \in 0 .. n - 1 : \E x \in S : rank[x] = m
      BY <2>3 DEF Surjection
    <2>5. \A x \in S : rank[x] = Cardinality(before(x))
      OBVIOUS
    <2> HIDE DEF rank
    <2>6. k - 1 \in 0 .. n - 1
      BY <1>1
    <2> QED
      BY <2>4, <2>5, <2>6
  <1>9. ASSUME NEW k \in 1 .. n PROVE s[k] \in S /\ Cardinality(before(s[k])) = k - 1
    BY <1>2, <1>8
  <1>10. ASSUME NEW x \in S PROVE \E k \in 1 .. n : s[k] = x
    <2> DEFINE k == Cardinality(before(x)) + 1
    <2>1. k \in 1 .. n /\ k - 1 = Cardinality(before(x))
      BY <1>1, <1>5
    <2> HIDE DEF k
    <2>2. s[k] \in S /\ Cardinality(before(s[k])) = Cardinality(before(x))
      BY <1>9, <2>1
    <2> QED
      BY <1>7, <2>1, <2>2
  <1>11. ASSUME NEW j \in 1 .. n, NEW k \in 1 .. n, j < k
         PROVE  <<s[j], s[k]>> \in R
    <2>1. /\ s[j] \in S /\ Cardinality(before(s[j])) = j - 1
          /\ s[k] \in S /\ Cardinality(before(s[k])) = k - 1
      BY <1>9
    <2>2. ~(<<s[k], s[j]>> \in R) /\ s[j] # s[k]
      BY <1>1, <1>6, <1>11, <2>1
    <2> QED
      BY <1>3, <2>1, <2>2
  <1>12. s \in [1 .. n -> S]
    BY <1>2, <1>9
  <1>13. s \in Seq(S) /\ Len(s) = n /\ DOMAIN s = 1 .. n
    BY <1>1, <1>12, FunctionIsSequence
  <1> QED
    BY <1>1, <1>9, <1>10, <1>11, <1>13 DEF s, n

(* What a stable sort goes by is an order. *)
LEMMA StableOrder ==
  ASSUME NEW D \in SUBSET Int, NEW key \in [D -> Int]
  PROVE  Orders(StablyBy(key), D)
  BY DEF Orders, StablyBy

-----------------------------------------------------------------------------
(* The carousel.                                                           *)

(* The pointer is down or a click is on its way, never both; and a rail that has been
   panned since the press is remembered as dragged until the click has come. *)
DragInv ==
  /\ clicking => ~dragging
  /\ panned => dragged \/ (~clicking /\ ~dragging)

LEMMA DragKept == DragInv /\ [RailNext]_railVars => DragInv'
  <1> SUFFICES ASSUME DragInv, [RailNext]_railVars PROVE DragInv'
    OBVIOUS
  <1>1. ASSUME NEW view, NEW busy, NEW n, Renders(view, busy, n) PROVE DragInv'
    BY <1>1 DEF Renders, DragInv, refVars
  <1>2. CASE LoadStarts \/ LoadEnds \/ CardsChange \/ SwitchView
    BY <1>1, <1>2 DEF LoadStarts, LoadEnds, CardsChange, SwitchView
  <1>3. CASE Frame \/ PauseEnds \/ Visibility \/ \E d \in {-1, 1} : ScrollGallery(d) \/ Wheel(d)
    BY <1>3 DEF Frame, PauseEnds, Visibility, ScrollGallery, Wheel, DragInv, pointerVars
  <1>4. CASE PointerEnters \/ PointerLeaves
    BY <1>4 DEF PointerEnters, PointerLeaves, DragEnds, DragInv
  <1>5. CASE Press \/ Drag \/ Release \/ Click
    BY <1>5 DEF Press, Drag, Release, DragEnds, Click, DragInv
  <1>6. CASE UNCHANGED railVars
    BY <1>6 DEF railVars, refVars, pointerVars, DragInv
  <1> QED
    BY <1>2, <1>3, <1>4, <1>5, <1>6 DEF RailNext

(* Every step of the tab is a step of what is looked at, or leaves it alone. *)
LEMMA TabSteps ==
  [WebNext]_webVars => [ClientNext]_clientVars /\ [AutoSellNext]_ruleVars /\ [RailNext]_railVars
  BY DEF WebNext, TabStep, ReaderStep, webVars, tabVars

(* NoBuyFromDrag: however presses, drags, renderings and loads follow one another, the
   click that ends a drag does not reach Buy. *)
THEOREM DragsDoNotBuy == WebSpec => NoBuyFromDrag
  <1>1. WebInit => DragInv
    BY DEF WebInit, RailInit, DragInv
  <1>2. DragInv /\ [RailNext]_railVars
          => [clicking /\ ReachesBuy => ~panned]_railVars
    BY DEF DragInv, ReachesBuy
  <1> QED
    BY <1>1, <1>2, DragKept, TabSteps, PTL DEF WebSpec, NoBuyFromDrag

-----------------------------------------------------------------------------
(* The rules.                                                              *)

(* An id names one rule, in storage and in what the tab holds of it. *)
IdsNameRules == \A q, r \in saved \cup rules : q.id = r.id => q = r

(* A rule under an id that is not used yet joins the others, and takes none away. *)
LEMMA RuleAdded ==
  ASSUME IdsNameRules, NEW i \in UnusedIds, NEW token, NEW c, addRule(Rule(i, token, c))
  PROVE  IdsNameRules' /\ saved \subseteq saved'
  <1> DEFINE r == Rule(i, token, c)
  <1>1. r.id = i
    BY DEF Rule
  <1>2. \A q \in saved \cup rules : q.id # i
    BY DEF UnusedIds
  <1> HIDE DEF r
  <1>3. rules' = saved \cup {r} /\ saved' \in {saved \cup {r}, saved}
    BY <1>1, <1>2 DEF addRule, r
  <1> QED
    BY <1>1, <1>2, <1>3 DEF IdsNameRules

(* Another tab's rule, too. *)
LEMMA RuleAddedElsewhere ==
  ASSUME IdsNameRules, NEW i \in UnusedIds, NEW token, NEW c,
         saved' = saved \cup {Rule(i, token, c)}, rules' = rules
  PROVE  IdsNameRules'
  <1> DEFINE r == Rule(i, token, c)
  <1>1. r.id = i
    BY DEF Rule
  <1>2. \A q \in saved \cup rules : q.id # i
    BY DEF UnusedIds
  <1>3. saved' = saved \cup {r}
    OBVIOUS
  <1> HIDE DEF r
  <1> QED
    BY <1>1, <1>2, <1>3 DEF IdsNameRules

LEMMA RulesKept == IdsNameRules /\ [AutoSellNext]_ruleVars => IdsNameRules'
  <1> SUFFICES ASSUME IdsNameRules, [AutoSellNext]_ruleVars PROVE IdsNameRules'
    OBVIOUS
  <1>1. CASE UNCHANGED <<saved, rules>>
    BY <1>1 DEF IdsNameRules
  <1>2. CASE TabReloads \/ \E passes \in Wallets : PassesReload(passes)
    BY <1>2 DEF TabReloads, PassesReload, IdsNameRules
  <1>3. CASE SaveRule
    BY <1>3, RuleAdded DEF SaveRule
  <1>4. CASE OtherTab
    <2>1. ASSUME NEW i \in UnusedIds, NEW token \in PassIds, NEW c \in Conditions,
                 saved' = saved \cup {Rule(i, token, c)}
          PROVE  IdsNameRules'
      BY <1>4, <2>1, RuleAddedElsewhere DEF OtherTab
    <2>2. CASE (\E r \in saved : saved' = saved \ {r}) \/ saved' = saved
      BY <1>4, <2>2 DEF OtherTab, IdsNameRules
    <2> QED
      BY <1>4, <2>1, <2>2 DEF OtherTab
  <1>5. ASSUME NEW r, RemoveRule(r) PROVE IdsNameRules'
    BY <1>5 DEF RemoveRule, removeRule, IdsNameRules
  <1> QED
    BY <1>1, <1>2, <1>3, <1>4, <1>5
    DEF AutoSellNext, DayPasses, Parse, Parsed, Discard, LogAccess, ListOffered, ruleVars

LEMMA RulesLostByHand ==
  IdsNameRules /\ [AutoSellNext]_ruleVars
    => [\A r \in saved : r \notin saved' => \/ RemoveRule(r)
                                            \/ saved' = saved \ {r} /\ UNCHANGED rules]_ruleVars
  <1> SUFFICES ASSUME IdsNameRules, AutoSellNext, NEW r \in saved, r \notin saved'
               PROVE  RemoveRule(r) \/ (saved' = saved \ {r} /\ UNCHANGED rules)
    OBVIOUS
  <1>1. CASE TabReloads \/ DayPasses \/ Parse \/ Parsed \/ Discard
             \/ \E passes \in Wallets : PassesReload(passes)
    BY <1>1 DEF TabReloads, DayPasses, Parse, Parsed, Discard, PassesReload
  <1>2. CASE SaveRule
    BY <1>2, RuleAdded DEF SaveRule
  <1>3. CASE OtherTab
    BY <1>3 DEF OtherTab
  <1>4. ASSUME NEW q \in rules, RemoveRule(q) PROVE RemoveRule(r)
    <2>1. r.id = q.id
      BY <1>4 DEF RemoveRule, removeRule
    <2>2. r = q
      BY <2>1 DEF IdsNameRules
    <2> QED
      BY <1>4, <2>2
  <1>5. ASSUME NEW q \in rules, LogAccess(q) \/ ListOffered(q) PROVE FALSE
    BY <1>5 DEF LogAccess, ListOffered
  <1> QED
    BY <1>1, <1>2, <1>3, <1>4, <1>5 DEF AutoSellNext

LEMMA NoRulesYet == WebInit => IdsNameRules
  BY DEF WebInit, AutoSellInit, IdsNameRules

(* NoRuleLost: with two tabs writing the same list, and writes that fail without a word,
   a rule goes only when somebody removes it. *)
THEOREM RulesAreKept == WebSpec => NoRuleLost
  BY NoRulesYet, RulesKept, RulesLostByHand, TabSteps, PTL DEF WebSpec, NoRuleLost

(* What a step writes was in storage, or is under an id that no rule had. *)
LEMMA RulesWritten ==
  IdsNameRules /\ [AutoSellNext]_ruleVars
    => [\A r \in rules : r \notin saved => r \notin saved']_ruleVars
  <1> SUFFICES ASSUME IdsNameRules, AutoSellNext, NEW r \in rules, r \notin saved
               PROVE  r \notin saved'
    OBVIOUS
  <1>1. ASSUME NEW i \in UnusedIds, NEW token, NEW c PROVE r # Rule(i, token, c)
    BY <1>1 DEF UnusedIds, Rule
  <1>2. CASE SaveRule
    <2>1. PICK i \in UnusedIds : addRule(Rule(i, proposal.token, proposal.condition))
      BY <1>2 DEF SaveRule
    <2> QED
      BY <1>1, <2>1 DEF addRule
  <1>3. CASE OtherTab
    BY <1>1, <1>3 DEF OtherTab
  <1>4. ASSUME NEW q, RemoveRule(q) PROVE r \notin saved'
    BY <1>4 DEF RemoveRule, removeRule
  <1>5. CASE UNCHANGED saved
    BY <1>5
  <1> QED
    BY <1>2, <1>3, <1>4, <1>5
    DEF AutoSellNext, TabReloads, DayPasses, Parse, Parsed, Discard, PassesReload, LogAccess,
        ListOffered

(* NoRuleRevived: of a list that is read before it is written, only what is read and what
   is new comes back. *)
THEOREM RulesStayRemoved == WebSpec => NoRuleRevived
  BY NoRulesYet, RulesKept, RulesWritten, TabSteps, PTL DEF WebSpec, NoRuleRevived

-----------------------------------------------------------------------------
(* The store.                                                              *)

(* A timer holds no toast that is still pending. *)
TimersSettled == \A t \in timers : t \in Shown => toasts[t] # "pending"

LEMMA ToastOpened ==
  ASSUME TimersSettled, NEW t, NewToast(t), NEW status,
         BoardIs(addNotification(Board, t, status))
  PROVE  TimersSettled' /\ Shown \subseteq Shown'
  BY DEF TimersSettled, NewToast, Fresh, BoardIs, addNotification, Board, Shown

LEMMA ToastResolved ==
  ASSUME TimersSettled, NEW t, NEW status \in {"success", "error"},
         BoardIs(updateNotification(Board, t, status))
  PROVE  TimersSettled' /\ Shown' = Shown
  BY DEF TimersSettled, BoardIs, updateNotification, Board, Shown

(* What a step of the store does to the toasts. *)
LEMMA ToastStep ==
  ASSUME TimersSettled, ClientNext
  PROVE  /\ TimersSettled'
         /\ \A t \in Shown :
              toasts[t] = "pending" /\ t \notin Shown' => Dismiss(t) \/ Reloaded
  <1> DEFINE Goal == /\ TimersSettled'
                     /\ \A t \in Shown :
                          toasts[t] = "pending" /\ t \notin Shown' => Dismiss(t) \/ Reloaded
  <1>1. ASSUME NEW t, Dismiss(t) PROVE Goal
    BY <1>1 DEF Dismiss, removeNotification, TimersSettled, Shown
  <1>2. ASSUME NEW t, TimerFires(t) PROVE Goal
    BY <1>2 DEF TimerFires, removeNotification, TimersSettled, Shown
  <1>3. ASSUME NEW t, TxStarts(t) PROVE Goal
    BY <1>3, ToastOpened DEF TxStarts
  <1>4. ASSUME NEW t, TxSettles(t) PROVE Goal
    BY <1>4, ToastResolved DEF TxSettles
  <1>5. ASSUME NEW kind, NEW id, NEW price, NEW t, DemoStarts(kind, id, price, t) PROVE Goal
    BY <1>5, ToastOpened DEF DemoStarts
  <1>6. ASSUME NEW op, NEW t, DemoEnds(op, t) PROVE Goal
    BY <1>6, ToastOpened DEF DemoEnds
  <1>7. CASE Reloaded
    BY <1>7 DEF Reloaded, TimersSettled
  <1>8. ASSUME UNCHANGED storeVars PROVE Goal
    BY <1>8 DEF storeVars, TimersSettled, Shown
  <1> QED
    BY <1>1, <1>2, <1>3, <1>4, <1>5, <1>6, <1>7, <1>8
    DEF ClientNext, setEnabled, setTimeTravel

(* PendingStays: whichever timers run, what a toast waits for is not taken from the screen
   by any of them. *)
THEOREM PendingToastsStay == WebSpec => PendingStays
  <1>1. WebInit => TimersSettled
    BY DEF WebInit, ClientInit, TimersSettled
  <1>2. TimersSettled /\ [ClientNext]_clientVars => TimersSettled'
    BY ToastStep DEF clientVars, storeVars, TimersSettled, Shown
  <1>3. TimersSettled /\ [ClientNext]_clientVars
          => [\A t \in Shown : toasts[t] = "pending" /\ t \notin DOMAIN toasts'
                                 => Dismiss(t) \/ Reloaded]_clientVars
    BY ToastStep DEF Shown
  <1> QED
    BY <1>1, <1>2, <1>3, TabSteps, PTL DEF WebSpec, PendingStays

-----------------------------------------------------------------------------
(* The chain, as the pages that read it see it move.                       *)

LEMMA TransactsOnChain ==
  ASSUME NEW c \in Users, Transact(c)
  PROVE  MarketNext
  <1>1. ASSUME NEW p \in Plans, NEW v \in Prices, OnCore(BuyPass(c, p, v)) PROVE CoreStep(c)
    BY <1>1 DEF OnCore, CoreStep, IssueStep
  <1>2. ASSUME NEW id \in Tokens, NEW n \in PartCounts, OnCore(Split(c, id, n)) PROVE CoreStep(c)
    BY <1>2 DEF OnCore, CoreStep, HolderStep
  <1>3. ASSUME NEW ids \in IdLists, OnCore(Bundle(c, ids)) PROVE CoreStep(c)
    BY <1>3 DEF OnCore, CoreStep, HolderStep
  <1>4. ASSUME NEW to \in Recipients, NEW id \in Tokens, OnCore(TransferPass(c, to, id))
        PROVE  CoreStep(c)
    BY <1>4 DEF OnCore, CoreStep, HolderStep
  <1>5. ASSUME NEW id \in Tokens, NEW price \in AskPrices, List(c, id, price) PROVE MarketStep(c)
    BY <1>5 DEF MarketStep
  <1>6. ASSUME NEW id \in Tokens, Unlist(c, id) PROVE MarketStep(c)
    BY <1>6 DEF MarketStep
  <1>7. ASSUME NEW id \in Tokens, NEW v \in Values, Buy(c, id, v) PROVE MarketStep(c)
    BY <1>7 DEF MarketStep
  <1>8. CoreStep(c) \/ MarketStep(c)
    BY <1>1, <1>2, <1>3, <1>4, <1>5, <1>6, <1>7 DEF Transact, Post
  <1> QED
    BY <1>8 DEF MarketNext

LEMMA WebOnChain ==
  ASSUME [WebNext]_webVars
  PROVE  [MarketNext]_vars
  <1>1. CASE TabStep \/ UNCHANGED webVars
    BY <1>1 DEF TabStep, webVars, readerVars
  <1>2. CASE FeedNext
    <2>1. CASE Tick /\ UNCHANGED <<escrowVars, marketVars, logs, readVars>>
      BY <2>1 DEF MarketNext
    <2>2. ASSUME NEW c \in Users, Transact(c) PROVE MarketNext
      BY <2>2, TransactsOnChain
    <2> QED
      BY <1>2, <2>1, <2>2 DEF FeedNext, LoadFeed, FeedLands, LoadCards
  <1>3. CASE PopupNext
    <2>1. CASE Elsewhere
      BY <2>1 DEF Elsewhere, MarketNext
    <2>2. CASE ~Elsewhere
      BY <1>3, <2>2 DEF PopupNext, main, GoRefused, Close, Go, Answer, Refuse
    <2> QED
      BY <2>1, <2>2
  <1> QED
    BY <1>1, <1>2, <1>3 DEF WebNext, ReaderStep

(* A pass keeps its expiry until it is burned. *)
LEMMA ExpiryKept ==
  ASSUME MarketInv, [MarketNext]_vars, NEW i \in 0 .. next_token_id - 1
  PROVE  \/ expiries'[i] = expiries[i]
         \/ expiries'[i] = 0 /\ owners'[i] = ZERO
  <1>1. CASE [Next]_coreVars
    BY <1>1, StepKeepsTerms DEF MarketInv, TermsKept, coreVars, tokenVars
  <1>2. CASE UNCHANGED expiries
    BY <1>2
  <1> QED
    BY <1>1, <1>2, MarketConstants
    DEF MarketNext, vars, CoreStep, Next, MarketStep, SetEscrow, List, Unlist, Buy, MovePass,
        EscrowStep, Withdraw, tokenVars

ContractInv == MarketInv /\ FreshIdsUnowned

LEMMA ContractsKept == ContractInv /\ [WebNext]_webVars => ContractInv'
  BY WebOnChain, MarketStepInv, StepOwners DEF ContractInv, FreshIdsUnowned

LEMMA ContractsStart == WebInit => ContractInv
  BY MarketInitInv
  DEF WebInit, FeedInit, ContractInv, SystemInit, DeployedWithPlan, NoPasses, FreshIdsUnowned

(* The next id is never less than it was. *)
LEMMA IdsGoOn ==
  ASSUME MarketInv, [MarketNext]_vars
  PROVE  next_token_id' >= next_token_id
  <1>1. next_token_id \in Nat
    BY ConstantFacts DEF MarketInv, CoreInv, TypeOK
  <1>2. CASE [Next]_coreVars
    BY <1>2, IdsOnlyGrow DEF MarketInv
  <1>3. CASE UNCHANGED next_token_id
    BY <1>1, <1>3
  <1> QED
    BY <1>2, <1>3, MarketConstants
    DEF MarketNext, vars, CoreStep, Next, MarketStep, SetEscrow, List, Unlist, Buy, MovePass,
        EscrowStep, Withdraw, tokenVars

-----------------------------------------------------------------------------
(* Prices that tick.                                                       *)

(* A card holds the expiry its pass has still, unless the pass has been burned. *)
CardsInv ==
  \A i \in Tokens : cards[i] # NoDecay =>
    /\ i \in 0 .. next_token_id - 1
    /\ cards[i].expiry = expiries[i] \/ expiries[i] = 0

LEMMA CardsKept == ContractInv /\ CardsInv /\ [WebNext]_webVars => CardsInv'
  <1> SUFFICES ASSUME ContractInv, CardsInv, [WebNext]_webVars PROVE CardsInv'
    OBVIOUS
  <1>1. MarketInv /\ [MarketNext]_vars
    BY WebOnChain DEF ContractInv
  <1>2. next_token_id \in Nat /\ next_token_id' \in Nat /\ next_token_id' >= next_token_id
        /\ Tokens \subseteq Nat
    BY <1>1, MarketStepInv, IdsGoOn, ConstantFacts DEF MarketInv, CoreInv, TypeOK
  <1>3. CASE cards' = cards
    <2> SUFFICES ASSUME NEW i \in Tokens, cards[i] # NoDecay
                 PROVE  /\ i \in 0 .. next_token_id' - 1
                        /\ cards[i].expiry = expiries'[i] \/ expiries'[i] = 0
      BY <1>3 DEF CardsInv
    <2>1. /\ i \in 0 .. next_token_id - 1
          /\ cards[i].expiry = expiries[i] \/ expiries[i] = 0
      BY DEF CardsInv
    <2>2. expiries'[i] = expiries[i] \/ expiries'[i] = 0
      BY <1>1, <2>1, ExpiryKept
    <2> QED
      BY <1>2, <2>1, <2>2
  <1>4. CASE LoadCards
    <2> SUFFICES ASSUME NEW i \in Tokens, decayOf(i) # NoDecay
                 PROVE  i \in 0 .. next_token_id - 1 /\ decayOf(i).expiry = expiries[i]
      BY <1>4
      DEF LoadCards, CardsInv, vars, coreVars, tokenVars
    <2>1. listings[i].openingPrice > 0 /\ decayOf(i).expiry = expiries[i]
      BY DEF decayOf
    <2> QED
      BY <1>1, <1>2, <2>1 DEF MarketInv, ListingsOfThePast
  <1> QED
    BY <1>3, <1>4
    DEF WebNext, TabStep, ReaderStep, readerVars, feedOnly, readVars, FeedNext, Transact, Post,
        LoadFeed, FeedLands, webVars

(* LivePriceIsCharged, the first part of PricesHold: a figure that ticks from a listing read
   long ago is the price of now. *)
THEOREM TickingPriceIsCharged == WebSpec => []LivePriceIsCharged
  <1>1. WebInit => CardsInv
    BY DEF WebInit, FeedInit, CardsInv
  <1>2. ContractInv /\ CardsInv => LivePriceIsCharged
    <2> SUFFICES ASSUME ContractInv, CardsInv, NEW i \in Tokens,
                        cards[i] # NoDecay, is_active(i),
                        cards[i].openingWei = listings[i].openingPrice,
                        cards[i].listedAt = listings[i].listedAt
                 PROVE  priceAt(cards[i], now) = currentPrice(i)
      BY DEF LivePriceIsCharged
    <2>1. now \in Nat /\ expiries[i] \in Nat
      BY ConstantFacts DEF ContractInv, MarketInv, CoreInv, TypeOK, ChainTypeOK
    <2>2. cards[i].expiry = expiries[i]
      BY <2>1 DEF CardsInv, is_active
    <2>3. listings[i].openingPrice \in Nat
      BY DEF ContractInv, MarketInv, MarketTypeOK
    <2> QED
      BY <2>2, <2>3 DEF priceAt, currentPrice
  <1> QED
    BY <1>1, <1>2, ContractsStart, ContractsKept, CardsKept, PTL DEF WebSpec

(* A share of p, x parts of y, taken y times over is no more than p * x. *)
LEMMA ShareOfPrice ==
  ASSUME NEW p \in Nat, NEW x \in Nat, NEW y \in Nat, 0 < y
  PROVE  /\ (p * x) \div y \in Nat
         /\ ((p * x) \div y) * y <= p * x
  <1>1. p * x \in Nat
    OBVIOUS
  <1> DEFINE n == p * x
  <1>2. n \div y \in Nat /\ y * (n \div y) <= n
    BY <1>1
  <1> QED
    BY <1>2

(* Whatever resales the history of a plan is read to hold, a suggested price is at most
   what the pass was bought for and what its time is worth; and above nothing where a
   hundredth of what the pass was bought for is, unless the discount is the whole price. *)
LEMMA SuggestionInBounds ==
  ASSUME ContractInv, NEW i \in 0 .. next_token_id - 1, NEW signal, signal.medianCut \in Int,
         suggestPrice(i, signal) # None
  PROVE  LET price == suggestPrice(i, signal)
         IN  /\ price \in Int /\ token_paid[i] \in Nat /\ price <= token_paid[i]
             /\ price * plan_durations[token_plans[i]] <= token_paid[i] * remaining_seconds(i)
             /\ token_paid[i] >= 100 /\ signal.medianCut <= 99 => 0 < price
  <1> DEFINE paid == token_paid[i]
             duration == plan_durations[token_plans[i]]
             left == remaining_seconds(i)
             most == IF left > duration THEN duration ELSE left
             fair == fairPrice(i)
             cut == signal.medianCut
             market == marketPrice(i, cut)
             price == suggestPrice(i, signal)
  <1>1. i \in Tokens /\ paid \in Nat /\ duration \in Nat /\ left \in Nat
    <2>1. TypeOK
      BY DEF ContractInv, MarketInv, CoreInv
    <2>2. i \in Tokens
      BY <2>1, ConstantFacts DEF TypeOK, Tokens
    <2>3. paid \in Nat /\ duration \in Nat /\ expiries[i] \in Nat /\ now \in Nat
      BY <2>1, <2>2 DEF TypeOK, ChainTypeOK
    <2> QED
      BY <2>2, <2>3 DEF remaining_seconds
  <1>2. fair > 0 /\ market \in Int /\ market = (paid * (100 - cut)) \div 100
    <2>1. fair \in Int
      <3>1. paid * most \in Nat
        BY <1>1
      <3> QED
        BY <1>1, <3>1 DEF fairPrice, None
    <2>2. fair > 0
      BY <2>1 DEF suggestPrice
    <2>3. paid * (100 - cut) \in Int
      BY <1>1
    <2> QED
      BY <2>2, <2>3 DEF marketPrice
  <1>3. duration > 0 /\ fair = (paid * most) \div duration
    BY <1>1, <1>2 DEF fairPrice, None
  <1>4. most \in Nat /\ most <= duration /\ most <= left
    BY <1>1
  <1>5. fair \in Nat /\ fair <= paid /\ fair * duration <= paid * most
    BY <1>1, <1>3, <1>4, FractionOfPrice, ShareOfPrice
  <1>6. price \in Int /\ price <= fair /\ (price = fair \/ price = market)
    BY <1>2, <1>5 DEF suggestPrice
  <1>7. cut \in Int
    OBVIOUS
  <1> HIDE DEF fair, most, market, price, paid, duration, left, cut
  <1>8. price * duration <= fair * duration
    BY <1>1, <1>5, <1>6
  <1>9. paid * most <= paid * left
    BY <1>1, <1>4
  <1>10. price * duration <= paid * left
    <2>1. price * duration \in Int /\ fair * duration \in Int /\ paid * most \in Int /\ paid * left \in Int
      BY <1>1, <1>4, <1>5, <1>6
    <2> QED
      BY <1>5, <1>8, <1>9, <2>1
  <1>11. price <= paid
    BY <1>1, <1>5, <1>6
  <1>12. paid >= 100 /\ cut <= 99 => 0 < price
    <2> SUFFICES ASSUME paid >= 100, cut <= 99 PROVE 0 < price
      OBVIOUS
    <2>1. paid * (100 - cut) >= paid /\ paid * (100 - cut) \in Int
      BY <1>1, <1>7
    <2>2. paid * (100 - cut) >= 100
      BY <1>1, <2>1
    <2>3. (paid * (100 - cut)) \div 100 >= 1
      BY <2>1, <2>2
    <2> QED
      BY <1>2, <1>5, <1>6, <2>3
  <1> QED
    BY <1>1, <1>6, <1>10, <1>11, <1>12 DEF price, paid, duration, left, cut

(* What a history can tell of a plan; a median is None, which is -1, of no figures. *)
PlanSignal == [sold : Nat, medianCut : Int, medianSpeed : Int]

(* The two bounds of SuggestionAccepted that no rounding touches hold whatever the history,
   the one the pages read or another. *)
THEOREM SuggestionsBounded ==
  WebSpec => [](\A i \in 0 .. next_token_id - 1, signal \in PlanSignal :
                  LET price == suggestPrice(i, signal)
                  IN  price # None =>
                        /\ price <= token_paid[i]
                        /\ price * plan_durations[token_plans[i]]
                             <= token_paid[i] * remaining_seconds(i))
  <1>1. ContractInv =>
          \A i \in 0 .. next_token_id - 1, signal \in PlanSignal :
            LET price == suggestPrice(i, signal)
            IN  price # None =>
                  /\ price <= token_paid[i]
                  /\ price * plan_durations[token_plans[i]]
                       <= token_paid[i] * remaining_seconds(i)
    <2>1. \A signal \in PlanSignal : signal.medianCut \in Int
      BY DEF PlanSignal
    <2> QED
      BY <2>1, SuggestionInBounds
  <1> QED
    BY <1>1, ContractsStart, ContractsKept, PTL DEF WebSpec

-----------------------------------------------------------------------------
(* What the contracts log.                                                 *)

EventNames == {"PlanCreated", "PassPurchased", "PassTransferred", "Listed", "Unlisted", "Bought"}

TxEvent ==
  [address : {CORE, MARKET}, event : EventNames, tokenId : Int, who : Holders, price : Nat]

LogRow ==
  [address : {CORE, MARKET}, event : EventNames, tokenId : Int, who : Holders, price : Nat,
   block : Nat, tx : Nat]

(* Pass i is handed on in event e. *)
Hands(e, i) == e.event = "PassTransferred" /\ e.tokenId = i

LastHanded(events, i, k) ==
  /\ k \in DOMAIN events /\ Hands(events[k], i)
  /\ \A l \in DOMAIN events : Hands(events[l], i) => l <= k

(* The core logs what the feed asks for, and the core alone hands passes on. *)
Sourced(e) ==
  /\ e.address = CORE => e.event \in ACTIVITY_EVENTS
  /\ e.event = "PassTransferred" => e.address = CORE
  /\ e.event = "Bought" => e.tokenId \in Tokens

AllDifferent(events) == \A j, k \in DOMAIN events : events[j] = events[k] => j = k

(* The events of a transaction tell of every pass that stands after it who has it, or the
   pass is left where it was. *)
TellsHolders(events) ==
  \A i \in 0 .. next_token_id' - 1 : expiries'[i] > 0 =>
    \/ \E k \in DOMAIN events : LastHanded(events, i, k) /\ events[k].who = owners'[i]
    \/ /\ \A k \in DOMAIN events : ~Hands(events[k], i)
       /\ i < next_token_id /\ expiries[i] > 0 /\ owners'[i] = owners[i]

Tells(events) ==
  /\ events \in Seq(TxEvent) /\ AllDifferent(events)
  /\ \A k \in DOMAIN events : Sourced(events[k])
  /\ TellsHolders(events)

LEMMA LogFacts ==
  /\ MARKET \in Holders /\ MARKET # CORE /\ Users \subseteq Holders /\ Tokens \subseteq Nat
  /\ "PassPurchased" \in ACTIVITY_EVENTS /\ "PassTransferred" \in ACTIVITY_EVENTS
  /\ "PlanCreated" \in ACTIVITY_EVENTS
  BY MarketConstants, ConstantFacts, FeedAssumption
  DEF ACTIVITY_EVENTS, ACTIVITY_EVENT_NAMES, liquidPassAbi

LEMMA TransferredFacts ==
  ASSUME NEW to \in Holders, NEW i \in Int
  PROVE  /\ Transferred(to, i) \in TxEvent /\ Sourced(Transferred(to, i))
         /\ Transferred(to, i).who = to
         /\ \A j : Hands(Transferred(to, i), j) <=> j = i
  BY LogFacts DEF Transferred, Event, TxEvent, Sourced, Hands, EventNames

LEMMA StatePieces ==
  ASSUME ContractInv
  PROVE  /\ next_token_id \in Nat /\ now \in Nat
         /\ owners \in [Tokens -> Holders] /\ expiries \in [Tokens -> Nat]
         /\ \A p \in Plans : plan_prices[p] \in Nat
         /\ \A i \in 0 .. next_token_id - 1 : i \in Tokens
         /\ MarketInv
  <1>1. MarketInv /\ TypeOK
    BY DEF ContractInv, MarketInv, CoreInv
  <1>2. /\ next_token_id \in 0 .. MaxTokens /\ now \in 1 .. MaxTime
        /\ owners \in [Tokens -> Holders] /\ expiries \in [Tokens -> Nat]
        /\ plan_prices \in [Plans -> Nat]
    BY <1>1 DEF TypeOK, ChainTypeOK
  <1>3. MaxTokens \in Nat /\ MaxTime \in Nat
    BY ConstantFacts
  <1>4. next_token_id \in Nat /\ now \in Nat
    BY <1>2, <1>3
  <1>5. \A i \in 0 .. next_token_id - 1 : i \in Tokens
    BY <1>2, <1>3 DEF Tokens
  <1> QED
    BY <1>1, <1>2, <1>4, <1>5

(* What is active has been issued. *)
LEMMA ActiveIsIssued ==
  ASSUME ContractInv, NEW i \in Tokens, is_active(i)
  PROVE  i < next_token_id
  <1>1. now \in Nat /\ next_token_id \in Nat /\ i \in Nat /\ FreshIdsBlank
    BY StatePieces, ConstantFacts DEF MarketInv, CoreInv
  <1>2. i >= next_token_id => expiries[i] = 0
    BY <1>1 DEF FreshIdsBlank
  <1> QED
    BY <1>1, <1>2 DEF is_active

LEMMA BuyPassTells ==
  ASSUME ContractInv, NEW c \in Users, NEW p \in Plans, NEW v \in Prices, BuyPass(c, p, v)
  PROVE  Tells(<<Event(CORE, "PassPurchased", next_token_id, c, plan_prices[p]),
                 Transferred(c, next_token_id)>>)
  <1> DEFINE bought == Event(CORE, "PassPurchased", next_token_id, c, plan_prices[p])
             moved == Transferred(c, next_token_id)
             events == <<bought, moved>>
  <1>1. c \in Holders /\ next_token_id \in Nat /\ plan_prices[p] \in Nat
    BY StatePieces, LogFacts
  <1>2. bought \in TxEvent /\ Sourced(bought) /\ \A i : ~Hands(bought, i)
    BY <1>1, LogFacts DEF Event, TxEvent, EventNames, Sourced, Hands
  <1>3. moved \in TxEvent /\ Sourced(moved) /\ moved.who = c /\ \A i : Hands(moved, i) <=> i = next_token_id
    BY <1>1, TransferredFacts
  <1>4. bought # moved
    BY <1>2, <1>3
  <1>5. /\ next_token_id < MaxTokens /\ next_token_id' = next_token_id + 1
        /\ owners' = [owners EXCEPT ![next_token_id] = c]
        /\ expiries' = [expiries EXCEPT ![next_token_id] = ExpiryAfter(plan_durations[p])]
    BY DEF BuyPass, NewPass
  <1> HIDE DEF bought, moved
  <1>6. events \in Seq(TxEvent) /\ DOMAIN events = 1 .. 2 /\ events[1] = bought /\ events[2] = moved
    BY <1>2, <1>3
  <1>7. AllDifferent(events) /\ \A k \in DOMAIN events : Sourced(events[k])
    BY <1>2, <1>3, <1>4, <1>6 DEF AllDifferent
  <1>8. TellsHolders(events)
    <2> SUFFICES ASSUME NEW i \in 0 .. next_token_id' - 1, expiries'[i] > 0
                 PROVE  \/ \E k \in DOMAIN events : LastHanded(events, i, k) /\ events[k].who = owners'[i]
                        \/ /\ \A k \in DOMAIN events : ~Hands(events[k], i)
                           /\ i < next_token_id /\ expiries[i] > 0 /\ owners'[i] = owners[i]
      BY DEF TellsHolders
    <2>1. i \in Tokens /\ next_token_id \in Tokens
      BY <1>1, <1>5, ConstantFacts DEF Tokens
    <2>2. CASE i = next_token_id
      <3>1. LastHanded(events, i, 2)
        BY <1>2, <1>3, <1>6, <2>2 DEF LastHanded
      <3>2. owners'[i] = c
        BY <1>5, <2>1, <2>2, StatePieces
      <3> QED
        BY <1>3, <1>6, <3>1, <3>2
    <2>3. CASE i # next_token_id
      <3>1. expiries'[i] = expiries[i] /\ owners'[i] = owners[i] /\ i < next_token_id
        BY <1>1, <1>5, <2>1, <2>3, StatePieces
      <3> QED
        BY <1>2, <1>3, <1>6, <2>3, <3>1
    <2> QED
      BY <2>2, <2>3
  <1> HIDE DEF events
  <1>9. Tells(events)
    BY <1>6, <1>7, <1>8 DEF Tells
  <1> QED
    BY <1>9 DEF events, bought, moved

LEMMA SplitTells ==
  ASSUME ContractInv, NEW c \in Users, NEW id \in Tokens, NEW n \in PartCounts, Split(c, id, n)
  PROVE  Tells([k \in 1 .. n |-> Transferred(c, next_token_id + k - 1)])
  <1> DEFINE events == [k \in 1 .. n |-> Transferred(c, next_token_id + k - 1)]
  <1>1. c \in Holders /\ next_token_id \in Nat /\ n \in Nat
    BY StatePieces, LogFacts, InputsAssumption
  <1>2. ToU64(n) = n
    BY <1>1 DEF Split, ToU64
  <1>3. /\ n >= 2 /\ next_token_id + n <= MaxTokens /\ next_token_id' = next_token_id + n
        /\ \A i \in Tokens : i \in next_token_id .. next_token_id + n - 1 => owners'[i] = c
        /\ \A i \in Tokens : i \notin next_token_id .. next_token_id + n - 1 =>
             /\ owners'[i] = IF i = id THEN ZERO ELSE owners[i]
             /\ expiries'[i] = IF i = id THEN 0 ELSE expiries[i]
    <2>1. id < next_token_id
      BY ActiveIsIssued DEF Split
    <2>2. id \notin next_token_id .. next_token_id + n - 1
      BY <1>1, <2>1
    <2>3. owners' = [i \in Tokens |-> CASE i \in next_token_id .. next_token_id + n - 1 -> c
                                         [] i = id -> ZERO
                                         [] OTHER -> owners[i]]
      BY <1>2 DEF Split
    <2>4. /\ n >= 2 /\ next_token_id + n <= MaxTokens /\ next_token_id' = next_token_id + n
          /\ \A i \in Tokens : i \notin next_token_id .. next_token_id + n - 1 =>
               expiries'[i] = IF i = id THEN 0 ELSE expiries[i]
      BY <1>2 DEF Split
    <2> QED
      BY <2>2, <2>3, <2>4
  <1>4. \A k \in 1 .. n :
          /\ events[k] \in TxEvent /\ Sourced(events[k]) /\ events[k].who = c
          /\ \A i : Hands(events[k], i) <=> i = next_token_id + k - 1
    <2> SUFFICES ASSUME NEW k \in 1 .. n
                 PROVE  /\ events[k] \in TxEvent /\ Sourced(events[k]) /\ events[k].who = c
                        /\ \A i : Hands(events[k], i) <=> i = next_token_id + k - 1
      OBVIOUS
    <2>1. events[k] = Transferred(c, next_token_id + k - 1) /\ next_token_id + k - 1 \in Int
      BY <1>1
    <2> QED
      BY <1>1, <2>1, TransferredFacts
  <1>5. events \in [1 .. n -> TxEvent]
    BY <1>4
  <1>6. events \in Seq(TxEvent) /\ DOMAIN events = 1 .. n
    BY <1>1, <1>5, FunctionIsSequence
  <1> HIDE DEF events
  <1>7. AllDifferent(events)
    <2> SUFFICES ASSUME NEW j \in 1 .. n, NEW k \in 1 .. n, events[j] = events[k] PROVE j = k
      BY <1>6 DEF AllDifferent
    <2>1. Hands(events[j], next_token_id + k - 1)
      BY <1>4
    <2>2. next_token_id + k - 1 = next_token_id + j - 1
      BY <1>4, <2>1
    <2> QED
      BY <1>1, <2>2
  <1>8. TellsHolders(events)
    <2> SUFFICES ASSUME NEW i \in 0 .. next_token_id' - 1, expiries'[i] > 0
                 PROVE  \/ \E k \in DOMAIN events : LastHanded(events, i, k) /\ events[k].who = owners'[i]
                        \/ /\ \A k \in DOMAIN events : ~Hands(events[k], i)
                           /\ i < next_token_id /\ expiries[i] > 0 /\ owners'[i] = owners[i]
      BY DEF TellsHolders
    <2>1. i \in Tokens
      BY <1>1, <1>3, ConstantFacts DEF Tokens
    <2>2. CASE i >= next_token_id
      <3> DEFINE k == i - next_token_id + 1
      <3>1. k \in 1 .. n /\ next_token_id + k - 1 = i
        BY <1>1, <1>3, <2>2
      <3>2. owners'[i] = c
        <4>1. i \in next_token_id .. next_token_id + n - 1
          BY <1>1, <1>3, <2>2
        <4> QED
          BY <1>3, <2>1, <4>1
      <3> HIDE DEF k
      <3>3. Hands(events[k], i) /\ events[k].who = c
        BY <1>4, <3>1
      <3>4. \A l \in 1 .. n : Hands(events[l], i) => l <= k
        <4> TAKE l \in 1 .. n
        <4>1. Hands(events[l], i) <=> i = next_token_id + l - 1
          BY <1>4
        <4> QED
          BY <1>1, <3>1, <4>1
      <3>5. LastHanded(events, i, k)
        BY <1>6, <3>1, <3>3, <3>4 DEF LastHanded
      <3> QED
        BY <1>6, <3>1, <3>2, <3>3, <3>5
    <2>3. CASE i < next_token_id
      <3>1. i \notin next_token_id .. next_token_id + n - 1
        BY <1>1, <2>3
      <3>2. i # id
        BY <1>3, <2>1, <3>1
      <3>3. expiries'[i] = expiries[i] /\ owners'[i] = owners[i]
        BY <1>3, <2>1, <3>1, <3>2
      <3>4. \A k \in 1 .. n : ~Hands(events[k], i)
        <4> TAKE k \in 1 .. n
        <4>1. Hands(events[k], i) <=> i = next_token_id + k - 1
          BY <1>4
        <4> QED
          BY <1>1, <2>3, <4>1
      <3> QED
        BY <1>6, <2>3, <3>3, <3>4
    <2> QED
      BY <1>1, <2>2, <2>3
  <1>9. Tells(events)
    BY <1>4, <1>6, <1>7, <1>8 DEF Tells
  <1> QED
    BY <1>9 DEF events

LEMMA BundleTells ==
  ASSUME ContractInv, NEW c \in Users, NEW ids \in IdLists, Bundle(c, ids)
  PROVE  Tells([k \in DOMAIN ids |-> Transferred(ZERO, ids[k])] \o <<Transferred(c, next_token_id)>>)
  <1> DEFINE n == Len(ids)
             burns == [k \in DOMAIN ids |-> Transferred(ZERO, ids[k])]
             made == Transferred(c, next_token_id)
             events == burns \o <<made>>
  <1>1. /\ c \in Holders /\ c # ZERO /\ ZERO \in Holders /\ next_token_id \in Nat
        /\ n \in Nat /\ DOMAIN ids = 1 .. n /\ \A k \in 1 .. n : ids[k] \in Tokens /\ ids[k] \in Nat
    BY StatePieces, LogFacts, ConstantFacts, MarketConstants, IdListType
  <1> HIDE DEF n
  <1>2. /\ \A k \in 1 .. n : OwnerAtTurn(ids, k) = c
        /\ next_token_id < MaxTokens /\ next_token_id' = next_token_id + 1
        /\ \A i \in Tokens : i = next_token_id => owners'[i] = c
        /\ \A i \in Tokens : i # next_token_id =>
             /\ owners'[i] = IF i \in { ids[k] : k \in 1 .. n } THEN ZERO ELSE owners[i]
             /\ expiries'[i] = IF i \in { ids[k] : k \in 1 .. n } THEN 0 ELSE expiries[i]
    <2>1. \A k \in 1 .. n : is_active(ids[k])
      BY DEF Bundle, n
    <2>2. next_token_id \notin { ids[k] : k \in 1 .. n }
      BY <1>1, <2>1, ActiveIsIssued
    <2>3. owners' = [i \in Tokens |-> CASE i = next_token_id -> c
                                         [] i \in { ids[k] : k \in 1 .. n } -> ZERO
                                         [] OTHER -> owners[i]]
      BY DEF Bundle, n
    <2>4. /\ \A k \in 1 .. n : OwnerAtTurn(ids, k) = c
          /\ next_token_id < MaxTokens /\ next_token_id' = next_token_id + 1
          /\ \A i \in Tokens : i # next_token_id =>
               expiries'[i] = IF i \in { ids[k] : k \in 1 .. n } THEN 0 ELSE expiries[i]
      BY DEF Bundle, n
    <2> QED
      BY <2>2, <2>3, <2>4
  <1>3. \A j, k \in 1 .. n : ids[j] = ids[k] => j = k
    <2>1. ASSUME NEW j \in 1 .. n, NEW k \in 1 .. n, ids[j] = ids[k], j < k PROVE FALSE
      <3>1. j \in 1 .. k - 1
        BY <1>1, <2>1
      <3>2. OwnerAtTurn(ids, k) = ZERO
        BY <2>1, <3>1 DEF OwnerAtTurn
      <3> QED
        BY <1>1, <1>2, <3>2
    <2> QED
      BY <1>1, <2>1
  <1>4. \A k \in 1 .. n : /\ burns[k] \in TxEvent /\ Sourced(burns[k]) /\ burns[k].who = ZERO
                          /\ \A i : Hands(burns[k], i) <=> i = ids[k]
    <2> SUFFICES ASSUME NEW k \in 1 .. n
                 PROVE  /\ burns[k] \in TxEvent /\ Sourced(burns[k]) /\ burns[k].who = ZERO
                        /\ \A i : Hands(burns[k], i) <=> i = ids[k]
      OBVIOUS
    <2>1. burns[k] = Transferred(ZERO, ids[k]) /\ ids[k] \in Int
      BY <1>1
    <2> QED
      BY <1>1, <2>1, TransferredFacts
  <1>5. made \in TxEvent /\ Sourced(made) /\ made.who = c /\ \A i : Hands(made, i) <=> i = next_token_id
    BY <1>1, TransferredFacts
  <1>6. burns \in [1 .. n -> TxEvent]
    BY <1>1, <1>4
  <1>7. burns \in Seq(TxEvent) /\ Len(burns) = n
    BY <1>1, <1>6, FunctionIsSequence
  <1> HIDE DEF burns, made
  <1>8. <<made>> \in Seq(TxEvent) /\ Len(<<made>>) = 1 /\ <<made>>[1] = made
    BY <1>5
  <1>9. /\ events \in Seq(TxEvent) /\ Len(events) = n + 1
        /\ \A k \in 1 .. n + 1 : events[k] = IF k <= n THEN burns[k] ELSE <<made>>[k - n]
    BY <1>7, <1>8, ConcatProperties
  <1> HIDE DEF events
  <1>10. /\ DOMAIN events = 1 .. n + 1 /\ events[n + 1] = made
         /\ \A k \in 1 .. n : events[k] = burns[k]
    BY <1>1, <1>8, <1>9
  <1>11. \A k \in 1 .. n + 1 : k \in 1 .. n \/ k = n + 1
    BY <1>1
  <1>12. \A k \in DOMAIN events : Sourced(events[k])
    BY <1>4, <1>5, <1>10, <1>11
  <1>13. AllDifferent(events)
    <2> SUFFICES ASSUME NEW j \in 1 .. n + 1, NEW k \in 1 .. n + 1, events[j] = events[k] PROVE j = k
      BY <1>10 DEF AllDifferent
    <2>1. CASE j \in 1 .. n /\ k \in 1 .. n
      <3>1. Hands(burns[j], ids[k])
        BY <1>4, <1>10, <2>1
      <3> QED
        BY <1>3, <1>4, <2>1, <3>1
    <2>2. CASE j \in 1 .. n /\ k = n + 1
      BY <1>1, <1>4, <1>5, <1>10, <2>2
    <2>3. CASE j = n + 1 /\ k \in 1 .. n
      BY <1>1, <1>4, <1>5, <1>10, <2>3
    <2> QED
      BY <1>11, <2>1, <2>2, <2>3
  <1>14. TellsHolders(events)
    <2> SUFFICES ASSUME NEW i \in 0 .. next_token_id' - 1, expiries'[i] > 0
                 PROVE  \/ \E k \in DOMAIN events : LastHanded(events, i, k) /\ events[k].who = owners'[i]
                        \/ /\ \A k \in DOMAIN events : ~Hands(events[k], i)
                           /\ i < next_token_id /\ expiries[i] > 0 /\ owners'[i] = owners[i]
      BY DEF TellsHolders
    <2>1. i \in Tokens /\ next_token_id \in Tokens
      BY <1>1, <1>2, ConstantFacts DEF Tokens
    <2>2. CASE i = next_token_id
      <3>1. Hands(events[n + 1], i) /\ n + 1 \in DOMAIN events /\ events[n + 1].who = c
        BY <1>1, <1>5, <1>10, <2>2
      <3>2. LastHanded(events, i, n + 1)
        BY <1>1, <1>10, <3>1 DEF LastHanded
      <3>3. owners'[i] = c
        BY <1>2, <2>1, <2>2
      <3> QED
        BY <3>1, <3>2, <3>3
    <2>3. CASE i # next_token_id
      <3>1. i \notin { ids[k] : k \in 1 .. n }
        BY <1>2, <2>1, <2>3
      <3>2. expiries'[i] = expiries[i] /\ owners'[i] = owners[i] /\ i < next_token_id
        BY <1>1, <1>2, <2>1, <2>3, <3>1
      <3>3. \A k \in DOMAIN events : ~Hands(events[k], i)
        BY <1>4, <1>5, <1>10, <1>11, <2>3, <3>1
      <3> QED
        BY <3>2, <3>3
    <2> QED
      BY <2>2, <2>3
  <1>15. Tells(events)
    BY <1>9, <1>12, <1>13, <1>14 DEF Tells
  <1> QED
    BY <1>15 DEF events, burns, made

(* Of one pass only the owner changes, and no term of any. *)
LEMMA OneMoveTells ==
  ASSUME ContractInv, NEW id \in Tokens, NEW to \in Holders, MovePass(id, to),
         NEW events \in Seq(TxEvent), AllDifferent(events),
         \A k \in DOMAIN events : Sourced(events[k]) /\ \A i : Hands(events[k], i) <=> (k = 1 /\ i = id),
         1 \in DOMAIN events, events[1].who = to
  PROVE  Tells(events)
  <1>1. TellsHolders(events)
    <2> SUFFICES ASSUME NEW i \in 0 .. next_token_id' - 1, expiries'[i] > 0
                 PROVE  \/ \E k \in DOMAIN events : LastHanded(events, i, k) /\ events[k].who = owners'[i]
                        \/ /\ \A k \in DOMAIN events : ~Hands(events[k], i)
                           /\ i < next_token_id /\ expiries[i] > 0 /\ owners'[i] = owners[i]
      BY DEF TellsHolders
    <2>1. /\ owners' = [owners EXCEPT ![id] = to] /\ expiries' = expiries
          /\ next_token_id' = next_token_id /\ owners \in [Tokens -> Holders]
          /\ i \in Tokens /\ i < next_token_id
      BY StatePieces DEF MovePass
    <2>2. CASE i = id
      <3>1. LastHanded(events, i, 1)
        BY <2>2 DEF LastHanded
      <3> QED
        BY <2>1, <2>2, <3>1
    <2>3. CASE i # id
      BY <2>1, <2>3
    <2> QED
      BY <2>2, <2>3
  <1> QED
    BY <1>1 DEF Tells

LEMMA TransferTells ==
  ASSUME ContractInv, NEW c \in Users, NEW to \in Recipients, NEW id \in Tokens,
         TransferPass(c, to, id)
  PROVE  Tells(<<Transferred(to, id)>>)
  <1> DEFINE moved == Transferred(to, id)
             events == <<moved>>
  <1>1. to \in Holders /\ id \in Int /\ MovePass(id, to)
    BY LogFacts, InputsAssumption DEF TransferPass
  <1>2. moved \in TxEvent /\ Sourced(moved) /\ moved.who = to /\ \A i : Hands(moved, i) <=> i = id
    BY <1>1, TransferredFacts
  <1> HIDE DEF moved
  <1>3. events \in Seq(TxEvent) /\ DOMAIN events = {1} /\ events[1] = moved
    BY <1>2
  <1> HIDE DEF events
  <1>4. AllDifferent(events)
    BY <1>3 DEF AllDifferent
  <1>5. Tells(events)
    BY <1>1, <1>2, <1>3, <1>4, OneMoveTells
  <1> QED
    BY <1>5 DEF events, moved

LEMMA BuyTells ==
  ASSUME ContractInv, NEW c \in Users, NEW id \in Tokens, NEW v \in Values, Buy(c, id, v)
  PROVE  Tells(<<Transferred(c, id), Event(MARKET, "Bought", id, c, currentPrice(id))>>)
  <1> DEFINE moved == Transferred(c, id)
             bought == Event(MARKET, "Bought", id, c, currentPrice(id))
             events == <<moved, bought>>
  <1>1. c \in Holders /\ id \in Int /\ MovePass(id, c) /\ currentPrice(id) \in Nat
    BY LogFacts, StatePieces, PriceFacts DEF Buy
  <1>2. moved \in TxEvent /\ Sourced(moved) /\ moved.who = c /\ \A i : Hands(moved, i) <=> i = id
    BY <1>1, TransferredFacts
  <1>3. bought \in TxEvent /\ Sourced(bought) /\ \A i : ~Hands(bought, i)
    BY <1>1, LogFacts DEF Event, TxEvent, EventNames, Sourced, Hands
  <1>4. moved # bought
    BY <1>2, <1>3
  <1> HIDE DEF moved, bought
  <1>5. events \in Seq(TxEvent) /\ DOMAIN events = 1 .. 2 /\ events[1] = moved /\ events[2] = bought
    BY <1>2, <1>3
  <1> HIDE DEF events
  <1>6. AllDifferent(events)
    BY <1>4, <1>5 DEF AllDifferent
  <1>7. \A k \in DOMAIN events : Sourced(events[k]) /\ \A i : Hands(events[k], i) <=> (k = 1 /\ i = id)
    BY <1>2, <1>3, <1>5
  <1>8. Tells(events)
    BY <1>1, <1>2, <1>5, <1>6, <1>7, OneMoveTells
  <1> QED
    BY <1>8 DEF events, moved, bought

(* A listing hands nothing on. *)
LEMMA ListingTells ==
  ASSUME ContractInv, NEW c \in Users, NEW id \in Tokens, NEW price \in Nat,
         NEW name \in {"Listed", "Unlisted"}, UNCHANGED coreVars
  PROVE  Tells(<<Event(MARKET, name, id, c, price)>>)
  <1> DEFINE told == Event(MARKET, name, id, c, price)
             events == <<told>>
  <1>1. told \in TxEvent /\ Sourced(told) /\ \A i : ~Hands(told, i)
    BY LogFacts DEF Event, TxEvent, EventNames, Sourced, Hands
  <1> HIDE DEF told
  <1>2. events \in Seq(TxEvent) /\ DOMAIN events = {1} /\ events[1] = told
    BY <1>1
  <1> HIDE DEF events
  <1>3. AllDifferent(events)
    BY <1>2 DEF AllDifferent
  <1>4. TellsHolders(events)
    BY <1>1, <1>2, StatePieces DEF TellsHolders, coreVars, tokenVars
  <1>5. Tells(events)
    BY <1>1, <1>2, <1>3, <1>4 DEF Tells
  <1> QED
    BY <1>5 DEF events, told

LEMMA TransactTells ==
  ASSUME ContractInv, NEW c \in Users, Transact(c)
  PROVE  /\ now' = now /\ UNCHANGED readVars
         /\ \E events : /\ Tells(events)
                        /\ logs' = logs \o Logged(events, now, Len(logs) + 1)
  <1>1. ASSUME NEW p \in Plans, NEW v \in Prices,
               Post(OnCore(BuyPass(c, p, v)),
                    <<Event(CORE, "PassPurchased", next_token_id, c, plan_prices[p]),
                      Transferred(c, next_token_id)>>)
        PROVE  now' = now /\ Tells(<<Event(CORE, "PassPurchased", next_token_id, c, plan_prices[p]),
                                     Transferred(c, next_token_id)>>)
    <2>1. BuyPass(c, p, v)
      BY <1>1 DEF Post, OnCore
    <2> QED
      BY <2>1, BuyPassTells DEF BuyPass
  <1>2. ASSUME NEW id \in Tokens, NEW n \in PartCounts,
               Post(OnCore(Split(c, id, n)), [k \in 1 .. n |-> Transferred(c, next_token_id + k - 1)])
        PROVE  now' = now /\ Tells([k \in 1 .. n |-> Transferred(c, next_token_id + k - 1)])
    <2>1. Split(c, id, n)
      BY <1>2 DEF Post, OnCore
    <2> QED
      BY <2>1, SplitTells DEF Split
  <1>3. ASSUME NEW ids \in IdLists,
               Post(OnCore(Bundle(c, ids)),
                    [k \in DOMAIN ids |-> Transferred(ZERO, ids[k])] \o <<Transferred(c, next_token_id)>>)
        PROVE  now' = now /\ Tells([k \in DOMAIN ids |-> Transferred(ZERO, ids[k])]
                                     \o <<Transferred(c, next_token_id)>>)
    <2>1. Bundle(c, ids)
      BY <1>3 DEF Post, OnCore
    <2> QED
      BY <2>1, BundleTells DEF Bundle
  <1>4. ASSUME NEW to \in Recipients, NEW id \in Tokens,
               Post(OnCore(TransferPass(c, to, id)), <<Transferred(to, id)>>)
        PROVE  now' = now /\ Tells(<<Transferred(to, id)>>)
    <2>1. TransferPass(c, to, id)
      BY <1>4 DEF Post, OnCore
    <2> QED
      BY <2>1, TransferTells DEF TransferPass
  <1>5. ASSUME NEW id \in Tokens, NEW price \in AskPrices,
               Post(List(c, id, price), <<Event(MARKET, "Listed", id, c, price)>>)
        PROVE  now' = now /\ Tells(<<Event(MARKET, "Listed", id, c, price)>>)
    <2>1. UNCHANGED coreVars /\ price \in Nat
      BY <1>5, MarketConstants DEF Post, List
    <2> QED
      BY <2>1, ListingTells DEF coreVars
  <1>6. ASSUME NEW id \in Tokens,
               Post(Unlist(c, id), <<Event(MARKET, "Unlisted", id, c, 0)>>)
        PROVE  now' = now /\ Tells(<<Event(MARKET, "Unlisted", id, c, 0)>>)
    <2>1. UNCHANGED coreVars
      BY <1>6 DEF Post, Unlist
    <2> QED
      BY <2>1, ListingTells DEF coreVars
  <1>7. ASSUME NEW id \in Tokens, NEW v \in Values,
               Post(Buy(c, id, v),
                    <<Transferred(c, id), Event(MARKET, "Bought", id, c, currentPrice(id))>>)
        PROVE  now' = now /\ Tells(<<Transferred(c, id), Event(MARKET, "Bought", id, c, currentPrice(id))>>)
    <2>1. Buy(c, id, v)
      BY <1>7 DEF Post
    <2> QED
      BY <2>1, BuyTells DEF Buy
  <1> QED
    BY <1>1, <1>2, <1>3, <1>4, <1>5, <1>6, <1>7 DEF Transact, Post

-----------------------------------------------------------------------------
(* The log.                                                                *)

(* Of every pass that stands, the last to be handed it owns it. *)
HoldersLogged ==
  \A i \in 0 .. next_token_id - 1 : expiries[i] > 0 =>
    \E k \in DOMAIN logs : LastHanded(logs, i, k) /\ logs[k].who = owners[i]

(* The popup sees the chain move and reads no log: what has been logged is told of the feed's
   behaviours. *)
LogsInv ==
  /\ logs \in Seq(LogRow) /\ AllDifferent(logs)
  /\ \A k \in DOMAIN logs : /\ Sourced(logs[k])
                            /\ DEPLOY_BLOCK <= logs[k].block /\ logs[k].block <= now
                            /\ logs[k].tx <= k
  /\ \A j, k \in DOMAIN logs : j < k => logs[j].block <= logs[k].block
  /\ lookedAt = "feed" => HoldersLogged

LEMMA RowFields ==
  ASSUME NEW r \in LogRow
  PROVE  /\ r.address \in {CORE, MARKET} /\ r.event \in EventNames /\ r.tokenId \in Int
         /\ r.who \in Holders /\ r.price \in Nat /\ r.block \in Nat /\ r.tx \in Nat
  BY DEF LogRow

LEMMA LogTypes ==
  ASSUME LogsInv
  PROVE  /\ Len(logs) \in Nat /\ DOMAIN logs = 1 .. Len(logs)
         /\ \A k \in DOMAIN logs : logs[k] \in LogRow /\ logs[k].block \in Nat /\ logs[k].tx \in Nat
  <1>1. logs \in Seq(LogRow)
    BY DEF LogsInv
  <1>2. \A k \in DOMAIN logs : logs[k] \in LogRow
    BY <1>1
  <1> QED
    BY <1>1, <1>2, RowFields

LEMMA LoggedFacts ==
  ASSUME NEW events \in Seq(TxEvent), NEW block \in Nat, NEW place \in Nat
  PROVE  LET batch == Logged(events, block, place)
         IN  /\ batch \in Seq(LogRow) /\ Len(batch) = Len(events)
             /\ \A k \in 1 .. Len(events) :
                  /\ batch[k].address = events[k].address /\ batch[k].event = events[k].event
                  /\ batch[k].tokenId = events[k].tokenId /\ batch[k].who = events[k].who
                  /\ batch[k].price = events[k].price
                  /\ batch[k].block = block /\ batch[k].tx = place
                  /\ events[k] \in TxEvent
  <1> DEFINE batch == Logged(events, block, place)
             m == Len(events)
  <1>1. m \in Nat /\ DOMAIN events = 1 .. m /\ \A k \in 1 .. m : events[k] \in TxEvent
    OBVIOUS
  <1>2. \A k \in 1 .. m :
          batch[k] = [address |-> events[k].address, event |-> events[k].event,
                      tokenId |-> events[k].tokenId, who |-> events[k].who,
                      price |-> events[k].price, block |-> block, tx |-> place]
    BY <1>1 DEF Logged
  <1>3. DOMAIN batch = 1 .. m /\ batch = [k \in 1 .. m |-> batch[k]]
    BY <1>1 DEF Logged
  <1> HIDE DEF batch, m
  <1>4. ASSUME NEW k \in 1 .. m
        PROVE  /\ batch[k] \in LogRow
               /\ batch[k].address = events[k].address /\ batch[k].event = events[k].event
               /\ batch[k].tokenId = events[k].tokenId /\ batch[k].who = events[k].who
               /\ batch[k].price = events[k].price
               /\ batch[k].block = block /\ batch[k].tx = place
               /\ events[k] \in TxEvent
    <2> DEFINE e == events[k]
    <2>1. e \in TxEvent
      BY <1>1
    <2>2. /\ e.address \in {CORE, MARKET} /\ e.event \in EventNames /\ e.tokenId \in Int
          /\ e.who \in Holders /\ e.price \in Nat
      BY <2>1 DEF TxEvent
    <2>3. batch[k] = [address |-> e.address, event |-> e.event, tokenId |-> e.tokenId,
                      who |-> e.who, price |-> e.price, block |-> block, tx |-> place]
      BY <1>2
    <2>4. batch[k] \in LogRow
      BY <2>2, <2>3 DEF LogRow
    <2> QED
      BY <2>1, <2>3, <2>4
  <1>5. batch \in [1 .. m -> LogRow]
    BY <1>3, <1>4
  <1>6. batch \in Seq(LogRow) /\ Len(batch) = m
    BY <1>1, <1>5, FunctionIsSequence
  <1> QED
    BY <1>4, <1>6 DEF batch, m

(* A transaction adds to the log what it tells. *)
LEMMA LogGrows ==
  ASSUME ContractInv, LogsInv, UNCHANGED <<now, lookedAt>>, NEW events, Tells(events),
         logs' = logs \o Logged(events, now, Len(logs) + 1)
  PROVE  /\ LogsInv'
         /\ Len(logs') \in Nat /\ Len(logs) <= Len(logs')
         /\ \A k \in 1 .. Len(logs) : logs'[k] = logs[k]
         /\ \A k \in 1 .. Len(logs') : k > Len(logs) => logs'[k].block = now
  <1> DEFINE L == Len(logs)
             m == Len(events)
             batch == Logged(events, now, L + 1)
  <1>1. /\ L \in Nat /\ DOMAIN logs = 1 .. L /\ logs \in Seq(LogRow) /\ now \in Nat
        /\ \A k \in 1 .. L : logs[k] \in LogRow /\ logs[k].block \in Nat /\ logs[k].tx \in Nat
    BY LogTypes, StatePieces DEF LogsInv
  <1>2. /\ events \in Seq(TxEvent) /\ m \in Nat /\ DOMAIN events = 1 .. m
        /\ AllDifferent(events) /\ TellsHolders(events)
        /\ \A k \in 1 .. m : Sourced(events[k])
    BY DEF Tells
  <1>3. L + 1 \in Nat
    BY <1>1
  <1>4. /\ batch \in Seq(LogRow) /\ Len(batch) = m
        /\ \A k \in 1 .. m :
             /\ batch[k].address = events[k].address /\ batch[k].event = events[k].event
             /\ batch[k].tokenId = events[k].tokenId /\ batch[k].who = events[k].who
             /\ batch[k].price = events[k].price
             /\ batch[k].block = now /\ batch[k].tx = L + 1
             /\ events[k] \in TxEvent
    BY <1>1, <1>2, <1>3, LoggedFacts
  <1>5. logs' = logs \o batch
    OBVIOUS
  <1> HIDE DEF L, m, batch
  <1>6. /\ logs' \in Seq(LogRow) /\ Len(logs') = L + m
        /\ \A k \in 1 .. L + m : logs'[k] = IF k <= L THEN logs[k] ELSE batch[k - L]
    <2>1. Len(logs) = L
      BY DEF L
    <2>2. /\ logs \o batch \in Seq(LogRow)
          /\ Len(logs \o batch) = Len(logs) + Len(batch)
          /\ \A k \in 1 .. Len(logs) + Len(batch) :
               (logs \o batch)[k] = IF k <= Len(logs) THEN logs[k] ELSE batch[k - Len(logs)]
      BY <1>1, <1>4, ConcatProperties
    <2>3. Len(batch) = m
      BY <1>4
    <2> QED
      BY <1>5, <2>1, <2>2, <2>3
  <1>7. DOMAIN logs' = 1 .. L + m
    BY <1>6
  <1>8. \A k \in 1 .. L : k \in 1 .. L + m /\ logs'[k] = logs[k]
    BY <1>1, <1>2, <1>6
  <1>9. \A k \in 1 .. m : L + k \in 1 .. L + m /\ logs'[L + k] = batch[k]
    <2> TAKE k \in 1 .. m
    <2>1. L + k \in 1 .. L + m /\ ~(L + k <= L) /\ (L + k) - L = k
      BY <1>1, <1>2
    <2> QED
      BY <1>6, <2>1
  <1>10. \A k \in 1 .. L + m : k \in 1 .. L \/ \E q \in 1 .. m : k = L + q
    <2> TAKE k \in 1 .. L + m
    <2>1. CASE k > L
      <3>1. k - L \in 1 .. m /\ k = L + (k - L)
        BY <1>1, <1>2, <2>1
      <3> QED
        BY <3>1
    <2> QED
      BY <1>1, <1>2, <2>1
  <1>11. \A q \in 1 .. m : /\ Sourced(batch[q])
                           /\ \A i : Hands(batch[q], i) <=> Hands(events[q], i)
    BY <1>2, <1>4 DEF Sourced, Hands
  <1>12. AllDifferent(logs)'
    <2> SUFFICES ASSUME NEW j \in 1 .. L + m, NEW k \in 1 .. L + m, logs'[j] = logs'[k] PROVE j = k
      BY <1>7 DEF AllDifferent
    <2>1. CASE j \in 1 .. L /\ k \in 1 .. L
      BY <1>1, <1>8, <2>1 DEF LogsInv, AllDifferent
    <2>2. ASSUME NEW a \in 1 .. L, NEW q \in 1 .. m, logs'[a] = logs'[L + q] PROVE FALSE
      <3>1. logs[a].tx <= a
        BY <1>1 DEF LogsInv
      <3>2. logs[a] = batch[q]
        BY <1>8, <1>9, <2>2
      <3>3. logs[a].tx = L + 1
        BY <1>4, <3>2
      <3> QED
        BY <1>1, <3>1, <3>3
    <2>3. ASSUME NEW q \in 1 .. m, NEW r \in 1 .. m, j = L + q, k = L + r PROVE j = k
      <3>1. batch[q] = batch[r]
        BY <1>9, <2>3
      <3>2. events[q] = events[r]
        <4>1. events[q] \in TxEvent /\ events[r] \in TxEvent
          BY <1>4
        <4>2. /\ events[q].address = events[r].address /\ events[q].event = events[r].event
              /\ events[q].tokenId = events[r].tokenId /\ events[q].who = events[r].who
              /\ events[q].price = events[r].price
          BY <1>4, <3>1
        <4>3. \A e \in TxEvent :
                e = [address |-> e.address, event |-> e.event, tokenId |-> e.tokenId,
                     who |-> e.who, price |-> e.price]
          BY DEF TxEvent
        <4> QED
          BY <4>1, <4>2, <4>3
      <3> QED
        BY <1>2, <2>3, <3>2 DEF AllDifferent
    <2> QED
      BY <1>10, <2>1, <2>2, <2>3
  <1>13. \A k \in 1 .. L + m : /\ Sourced(logs'[k])
                               /\ DEPLOY_BLOCK <= logs'[k].block /\ logs'[k].block <= now
                               /\ logs'[k].tx <= k
    <2>1. DEPLOY_BLOCK <= now
      <3>1. now \in 1 .. MaxTime /\ MaxTime \in Nat
        BY ConstantFacts DEF ContractInv, MarketInv, CoreInv, TypeOK, ChainTypeOK
      <3> QED
        BY <3>1, FeedAssumption
    <2> TAKE k \in 1 .. L + m
    <2>2. CASE k \in 1 .. L
      BY <1>1, <1>8, <2>2 DEF LogsInv
    <2>3. ASSUME NEW q \in 1 .. m, k = L + q
          PROVE  /\ Sourced(logs'[k])
                 /\ DEPLOY_BLOCK <= logs'[k].block /\ logs'[k].block <= now
                 /\ logs'[k].tx <= k
      <3>1. logs'[k] = batch[q]
        BY <1>9, <2>3
      <3>2. logs'[k].block = now /\ logs'[k].tx = L + 1
        BY <1>4, <3>1
      <3>3. L + 1 <= k
        BY <1>1, <1>2, <2>3
      <3>4. Sourced(logs'[k])
        BY <1>11, <3>1
      <3> QED
        <4>1. k \in Int /\ m \in Nat
          BY <1>1, <1>2
        <4>2. now <= now
          BY <1>1
        <4>3. logs'[k].tx <= k
          BY <1>1, <3>2, <3>3, <4>1
        <4> QED
          BY <2>1, <3>2, <3>4, <4>2, <4>3, Zenon
    <2> QED
      BY <1>10, <2>2, <2>3
  <1>14. ASSUME NEW j \in 1 .. L + m, NEW k \in 1 .. L + m, j < k
         PROVE  logs'[j].block <= logs'[k].block
    <2>1. logs'[j].block <= now /\ logs'[j].block \in Nat
      <3>1. logs'[j] \in LogRow
        BY <1>6, <1>7
      <3> QED
        BY <1>13, <3>1, RowFields
    <2>2. CASE k \in 1 .. L
      <3>1. j \in 1 .. L
        BY <1>1, <1>14, <2>2
      <3> QED
        BY <1>1, <1>8, <1>14, <2>2, <3>1 DEF LogsInv
    <2>3. ASSUME NEW q \in 1 .. m, k = L + q PROVE logs'[k].block = now
      BY <1>4, <1>9, <2>3
    <2> QED
      BY <1>10, <2>1, <2>2, <2>3
  <1>15. lookedAt = "feed" => HoldersLogged'
    <2> SUFFICES ASSUME lookedAt = "feed", NEW i \in 0 .. next_token_id' - 1, expiries'[i] > 0
                 PROVE  \E k \in DOMAIN logs' : LastHanded(logs', i, k) /\ logs'[k].who = owners'[i]
      BY DEF HoldersLogged
    <2>1. CASE \E k \in DOMAIN events : LastHanded(events, i, k) /\ events[k].who = owners'[i]
      <3>1. PICK k \in 1 .. m : LastHanded(events, i, k) /\ events[k].who = owners'[i]
        BY <1>2, <2>1
      <3>2. /\ L + k \in 1 .. L + m /\ logs'[L + k].who = owners'[i]
            /\ Hands(logs'[L + k], i)
        BY <1>4, <1>9, <1>11, <3>1 DEF LastHanded
      <3>3. ASSUME NEW l \in 1 .. L + m, Hands(logs'[l], i) PROVE l <= L + k
        <4>1. ASSUME NEW q \in 1 .. m, l = L + q PROVE l <= L + k
          <5>1. Hands(events[q], i)
            BY <1>9, <1>11, <3>3, <4>1
          <5>2. q <= k
            BY <1>2, <3>1, <5>1 DEF LastHanded
          <5> QED
            BY <1>1, <4>1, <5>2
        <4> QED
          BY <1>1, <1>2, <1>10, <4>1
      <3>4. LastHanded(logs', i, L + k)
        BY <1>7, <3>2, <3>3 DEF LastHanded
      <3> QED
        BY <1>7, <3>2, <3>4
    <2>2. CASE ~\E k \in DOMAIN events : LastHanded(events, i, k) /\ events[k].who = owners'[i]
      <3>1. /\ \A k \in 1 .. m : ~Hands(events[k], i)
            /\ i < next_token_id /\ expiries[i] > 0 /\ owners'[i] = owners[i]
        BY <1>2, <2>2 DEF TellsHolders
      <3>2. i \in 0 .. next_token_id - 1
        BY <3>1, StatePieces
      <3>3. PICK k \in 1 .. L : LastHanded(logs, i, k) /\ logs[k].who = owners[i]
        BY <1>1, <3>1, <3>2 DEF LogsInv, HoldersLogged
      <3>4. Hands(logs'[k], i) /\ logs'[k].who = owners'[i] /\ k \in 1 .. L + m
        BY <1>8, <3>1, <3>3 DEF LastHanded
      <3>5. ASSUME NEW l \in 1 .. L + m, Hands(logs'[l], i) PROVE l <= k
        <4>1. CASE l \in 1 .. L
          BY <1>1, <1>8, <3>3, <3>5, <4>1 DEF LastHanded
        <4>2. ASSUME NEW q \in 1 .. m, l = L + q PROVE FALSE
          BY <1>9, <1>11, <3>1, <3>5, <4>2
        <4> QED
          BY <1>10, <4>1, <4>2
      <3>6. LastHanded(logs', i, k)
        BY <1>7, <3>4, <3>5 DEF LastHanded
      <3> QED
        BY <1>7, <3>4, <3>6
    <2> QED
      BY <2>1, <2>2
  <1>16. LogsInv'
    BY <1>6, <1>7, <1>12, <1>13, <1>14, <1>15 DEF LogsInv
  <1>17. \A k \in 1 .. L + m : k > L => logs'[k].block = now
    <2> TAKE k \in 1 .. L + m
    <2>1. ASSUME NEW q \in 1 .. m, k = L + q PROVE logs'[k].block = now
      BY <1>4, <1>9, <2>1
    <2>2. k \in 1 .. L => ~(k > L)
      BY <1>1
    <2> QED
      BY <1>10, <2>1, <2>2
  <1> QED
    BY <1>1, <1>2, <1>6, <1>8, <1>16, <1>17 DEF L

LEMMA NowMoves ==
  ASSUME [MarketNext]_vars
  PROVE  now' = now \/ now' = now + 1
  <1>1. ASSUME NEW c \in Users, CoreStep(c) PROVE now' = now
    BY <1>1
    DEF CoreStep, IssueStep, HolderStep, Mint, BuyPass, Split, Bundle, TransferPass
  <1>2. ASSUME NEW c \in Users, MarketStep(c) PROVE now' = now
    BY <1>2 DEF MarketStep, SetEscrow, List, Unlist, Buy, coreVars
  <1>3. ASSUME NEW c \in Users, EscrowStep(c) PROVE now' = now
    BY <1>3 DEF EscrowStep, Withdraw
  <1> QED
    BY <1>1, <1>2, <1>3 DEF MarketNext, Tick, TimePasses, vars, coreVars

(* What a step does to the log: nothing, or it appends events of the block being made. *)
LEMMA LogsKept ==
  ASSUME ContractInv, LogsInv, [WebNext]_webVars
  PROVE  /\ LogsInv'
         /\ now <= now' /\ Len(logs') \in Nat /\ Len(logs) <= Len(logs')
         /\ \A k \in 1 .. Len(logs) : logs'[k] = logs[k]
         /\ \A k \in 1 .. Len(logs') : k > Len(logs) => logs'[k].block = now
  <1>1. /\ Len(logs) \in Nat /\ now \in Nat /\ now' \in Nat /\ now <= now'
        /\ \A k \in DOMAIN logs : logs[k].block \in Nat
    <2>1. now \in Nat /\ (now' = now \/ now' = now + 1)
      BY WebOnChain, NowMoves, StatePieces
    <2> QED
      BY <2>1, LogTypes
  <1>2. CASE /\ UNCHANGED <<logs, lookedAt>>
             /\ lookedAt = "feed" => UNCHANGED <<owners, expiries, next_token_id>>
    <2>1. HoldersLogged /\ UNCHANGED <<owners, expiries, next_token_id>> => HoldersLogged'
      BY <1>2 DEF HoldersLogged, LastHanded
    <2>2. \A k \in DOMAIN logs : logs[k].block <= now'
      BY <1>1 DEF LogsInv
    <2>3. AllDifferent(logs)'
      BY <1>2 DEF LogsInv, AllDifferent
    <2>4. \A k \in DOMAIN logs' : Sourced(logs'[k])
      BY <1>2 DEF LogsInv
    <2>5. LogsInv'
      BY <1>2, <2>1, <2>2, <2>3, <2>4 DEF LogsInv, Sourced
    <2> QED
      BY <1>1, <1>2, <2>5
  <1>3. ASSUME NEW c \in Users, Transact(c), lookedAt' = lookedAt
        PROVE  /\ LogsInv'
               /\ Len(logs') \in Nat /\ Len(logs) <= Len(logs')
               /\ \A k \in 1 .. Len(logs) : logs'[k] = logs[k]
               /\ \A k \in 1 .. Len(logs') : k > Len(logs) => logs'[k].block = now
    <2>1. PICK events : Tells(events) /\ logs' = logs \o Logged(events, now, Len(logs) + 1)
      BY <1>3, TransactTells
    <2>2. now' = now
      BY <1>3, TransactTells
    <2> QED
      BY <1>3, <2>1, <2>2, LogGrows
  <1>4. \/ \E c \in Users : Transact(c) /\ lookedAt' = lookedAt
        \/ /\ UNCHANGED <<logs, lookedAt>>
           /\ lookedAt = "feed" => UNCHANGED <<owners, expiries, next_token_id>>
    <2> DEFINE still == UNCHANGED <<owners, expiries, next_token_id>>
    <2>1. CASE UNCHANGED webVars
      BY <2>1 DEF webVars, readerVars, feedOnly, vars, coreVars, tokenVars
    <2>2. lookedAt' = lookedAt
      BY DEF WebNext, webVars
    <2>3. UNCHANGED vars => still
      BY DEF vars, coreVars, tokenVars
    <2>4. CASE TabStep
      <3>1. UNCHANGED logs /\ UNCHANGED vars
        BY <2>4 DEF TabStep, readerVars, feedOnly
      <3> QED
        BY <2>2, <2>3, <3>1
    <2>5. CASE FeedNext
      <3>1. CASE Tick /\ UNCHANGED <<escrowVars, marketVars, logs, readVars>>
        <4>1. still /\ UNCHANGED logs
          BY <3>1 DEF Tick, tokenVars
        <4> QED
          BY <2>2, <4>1
      <3>2. CASE LoadFeed \/ LoadCards \/ \E lost \in SUBSET windows(MaxTime) : FeedLands(lost)
        <4>1. UNCHANGED vars /\ UNCHANGED logs
          BY <3>2 DEF LoadFeed, LoadCards, FeedLands
        <4> QED
          BY <2>2, <2>3, <4>1
      <3> HIDE DEF still
      <3> QED
        BY <2>2, <2>5, <3>1, <3>2 DEF FeedNext
    <2>6. CASE lookedAt = "popup" /\ UNCHANGED feedOnly
      BY <2>2, <2>6 DEF feedOnly
    <2> QED
      BY <2>1, <2>4, <2>5, <2>6 DEF WebNext, ReaderStep
  <1> QED
    BY <1>1, <1>2, <1>3, <1>4

LEMMA LogStarts == WebInit => LogsInv
  <1> SUFFICES ASSUME WebInit PROVE LogsInv
    OBVIOUS
  <1> DEFINE opened == Event(CORE, "PlanCreated", None, Admin, PlanPrice)
             first == Logged(<<opened>>, DEPLOY_BLOCK, 1)
  <1>1. opened \in TxEvent /\ Sourced(opened)
    BY LogFacts, ConstantFacts, MarketConstants
    DEF Event, TxEvent, EventNames, Sourced, None
  <1>2. <<opened>> \in Seq(TxEvent) /\ Len(<<opened>>) = 1 /\ <<opened>>[1] = opened
    BY <1>1
  <1>3. DEPLOY_BLOCK = 1 /\ now = 1 /\ logs = first /\ next_token_id = 0
    BY FeedAssumption
    DEF WebInit, FeedInit, SystemInit, DeployedWithPlan, ChainInit, NoPasses
  <1> HIDE DEF opened
  <1>4. /\ first \in Seq(LogRow) /\ Len(first) = 1
        /\ first[1].address = opened.address /\ first[1].event = opened.event
        /\ first[1].tokenId = opened.tokenId /\ first[1].block = 1 /\ first[1].tx = 1
    <2> DEFINE events == <<opened>>
    <2>1. events \in Seq(TxEvent) /\ Len(events) = 1 /\ events[1] = opened
      BY <1>2
    <2> HIDE DEF events
    <2>2. LET batch == Logged(events, 1, 1)
          IN  /\ batch \in Seq(LogRow) /\ Len(batch) = Len(events)
              /\ \A k \in 1 .. Len(events) :
                   /\ batch[k].address = events[k].address /\ batch[k].event = events[k].event
                   /\ batch[k].tokenId = events[k].tokenId
                   /\ batch[k].block = 1 /\ batch[k].tx = 1
      BY <2>1, LoggedFacts
    <2>3. first = Logged(events, 1, 1)
      BY <1>3 DEF events
    <2> HIDE DEF first
    <2> QED
      BY <2>1, <2>2, <2>3
  <1> HIDE DEF first
  <1>5. DOMAIN logs = {1}
    BY <1>3, <1>4
  <1>6. \A k \in DOMAIN logs : /\ Sourced(logs[k])
                               /\ DEPLOY_BLOCK <= logs[k].block /\ logs[k].block <= now
                               /\ logs[k].tx <= k
    BY <1>1, <1>3, <1>4, <1>5 DEF Sourced
  <1>7. HoldersLogged
    BY <1>3 DEF HoldersLogged
  <1> QED
    BY <1>3, <1>4, <1>5, <1>6, <1>7 DEF LogsInv, AllDifferent

-----------------------------------------------------------------------------
(* What is read of it.                                                     *)

(* Windows do not overlap, and leave no block out. *)
LEMMA WindowFacts ==
  ASSUME NEW latest \in Nat
  PROVE  /\ windows(latest) \subseteq Int
         /\ \A w \in windows(latest), b \in Int :
              windowStart(w) <= b /\ b <= windowEnd(w, latest)
                <=> windowStart(w) <= b /\ b < windowStart(w) + LOG_WINDOW /\ b <= latest
         /\ \A v, w \in windows(latest), b \in Int :
              /\ windowStart(v) <= b /\ b < windowStart(v) + LOG_WINDOW
              /\ windowStart(w) <= b /\ b < windowStart(w) + LOG_WINDOW
              => v = w
         /\ \A b \in 1 .. latest : \E w \in windows(latest) :
              windowStart(w) <= b /\ b < windowStart(w) + LOG_WINDOW
  <1>1. /\ LOG_WINDOW \in Nat /\ LOG_WINDOW > 0 /\ DEPLOY_BLOCK = 1
    BY FeedAssumption
  <1>2. ASSUME NEW w \in windows(latest) PROVE w \in Int /\ w >= 1 /\ windowStart(w) \in Int
                                               /\ windowStart(w) = 1 + LOG_WINDOW * (w - 1)
    <2>1. w \in Int /\ w >= 1
      BY DEF windows
    <2>2. (w - 1) * LOG_WINDOW = LOG_WINDOW * (w - 1) /\ LOG_WINDOW * (w - 1) \in Int
      BY <1>1, <2>1
    <2> QED
      BY <1>1, <2>1, <2>2 DEF windowStart
  <1>3. windows(latest) \subseteq Int
    BY <1>2
  <1>4. ASSUME NEW w \in windows(latest), NEW b \in Int
        PROVE  windowStart(w) <= b /\ b <= windowEnd(w, latest)
                 <=> windowStart(w) <= b /\ b < windowStart(w) + LOG_WINDOW /\ b <= latest
    <2> DEFINE start == windowStart(w)
    <2>1. start \in Int
      BY <1>2
    <2>2. windowEnd(w, latest) = IF start + LOG_WINDOW - 1 > latest THEN latest ELSE start + LOG_WINDOW - 1
      BY DEF windowEnd
    <2> HIDE DEF start
    <2>3. b <= windowEnd(w, latest) <=> b < start + LOG_WINDOW /\ b <= latest
      BY <1>1, <2>1, <2>2
    <2> QED
      BY <2>3 DEF start
  <1>5. ASSUME NEW v \in windows(latest), NEW w \in windows(latest), NEW b \in Int,
               windowStart(v) <= b, b < windowStart(v) + LOG_WINDOW,
               windowStart(w) <= b, b < windowStart(w) + LOG_WINDOW, v < w
        PROVE  FALSE
    <2>1. LOG_WINDOW * (v - 1) + LOG_WINDOW <= LOG_WINDOW * (w - 1)
      <3>1. v - 1 \in Nat /\ w - 1 \in Nat /\ v - 1 < w - 1
        BY <1>2, <1>5
      <3> QED
        BY <1>1, <3>1, StretchesApart
    <2>2. LOG_WINDOW * (v - 1) \in Int /\ LOG_WINDOW * (w - 1) \in Int
      BY <1>1, <1>2
    <2> QED
      BY <1>1, <1>2, <1>5, <2>1, <2>2
  <1>6. ASSUME NEW b \in 1 .. latest
        PROVE  \E w \in windows(latest) : windowStart(w) <= b /\ b < windowStart(w) + LOG_WINDOW
    <2> DEFINE q == (b - 1) \div LOG_WINDOW
               last == (latest - 1) \div LOG_WINDOW
    <2>1. b - 1 \in Nat /\ latest - 1 \in Nat /\ b - 1 <= latest - 1
      OBVIOUS
    <2>2. q <= last
      BY <1>1, <2>1, QuotientMonotone
    <2>3. /\ q \in Nat /\ last \in Nat /\ LOG_WINDOW * q <= b - 1 /\ b - 1 < LOG_WINDOW * (q + 1)
      BY <1>1, <2>1
    <2>4. LOG_WINDOW * (q + 1) = LOG_WINDOW * q + LOG_WINDOW /\ LOG_WINDOW * q \in Int
      BY <1>1, <2>3
    <2>5. windows(latest) = 1 .. last + 1
      BY <1>1 DEF windows
    <2> HIDE DEF q, last
    <2>6. q + 1 \in windows(latest) /\ (q + 1) - 1 = q
      BY <2>2, <2>3, <2>5
    <2>7. windowStart(q + 1) = 1 + LOG_WINDOW * q
      BY <1>2, <2>6
    <2>8. windowStart(q + 1) <= b /\ b < windowStart(q + 1) + LOG_WINDOW
      BY <1>1, <2>3, <2>4, <2>7
    <2> QED
      BY <2>6, <2>8
  <1>7. \A v, w \in windows(latest), b \in Int :
          /\ windowStart(v) <= b /\ b < windowStart(v) + LOG_WINDOW
          /\ windowStart(w) <= b /\ b < windowStart(w) + LOG_WINDOW
          => v = w
    BY <1>2, <1>5
  <1> QED
    BY <1>3, <1>4, <1>6, <1>7

(* Answers that name a window and a place in the log are put in order. *)
LEMMA NewerOrders ==
  ASSUME LogsInv, NEW answers, \A p \in answers : p \in Int \X (DOMAIN logs)
  PROVE  Orders({ pair \in answers \X answers : NewerBlock(pair[1], pair[2]) }, answers)
  <1> DEFINE R == { pair \in answers \X answers : NewerBlock(pair[1], pair[2]) }
             b(p) == logs[p[2]].block
  <1>1. \A p \in answers : /\ p[1] \in Int /\ p[2] \in Int /\ p[2] \in DOMAIN logs
                           /\ p = <<p[1], p[2]>>
    BY LogTypes
  <1>2. \A p \in answers : b(p) \in Int
    BY <1>1, LogTypes
  <1>3. \A p, q \in answers : <<p, q>> \in R <=>
          \/ b(p) > b(q)
          \/ b(p) = b(q) /\ (p[1] < q[1] \/ (p[1] = q[1] /\ p[2] < q[2]))
    BY DEF NewerBlock
  <1> HIDE DEF R, b
  <1>4. \A p \in answers : <<p, p>> \notin R
    BY <1>1, <1>2, <1>3
  <1>5. ASSUME NEW p \in answers, NEW q \in answers, p # q
        PROVE  <<p, q>> \in R \/ <<q, p>> \in R
    <2>1. p[1] # q[1] \/ p[2] # q[2]
      BY <1>1, <1>5
    <2> QED
      BY <1>1, <1>2, <1>3, <2>1
  <1>6. ASSUME NEW p \in answers, NEW q \in answers, NEW r \in answers,
               <<p, q>> \in R, <<q, r>> \in R
        PROVE  <<p, r>> \in R
    BY <1>1, <1>2, <1>3, <1>6
  <1>7. Orders(R, answers)
    BY <1>4, <1>5, <1>6 DEF Orders
  <1> QED
    BY <1>7 DEF R

(* Place p of the log stands above place q in a feed. *)
NewerLog(p, q) ==
  \/ logs[p].block > logs[q].block
  \/ logs[p].block = logs[q].block /\ p < q

(* Rows are events that were due, each from its place, newest block first; and what was due
   and is not shown comes after all that is. *)
Placed(rows, due) ==
  /\ rows \in Seq(LogRow)
  /\ \E place \in [DOMAIN rows -> due] :
       /\ \A j \in DOMAIN rows : rows[j] = logs[place[j]]
       /\ \A j, k \in DOMAIN rows : j < k => NewerLog(place[j], place[k])
       /\ \A k \in due :
            \/ \E j \in DOMAIN rows : place[j] = k
            \/ Len(rows) = Limit /\ \A j \in DOMAIN rows : NewerLog(place[j], k)
  /\ Len(rows) <= Limit

(* Due, of a read up to `latest` that lost the windows `lost`. *)
DueOf(latest, lost) ==
  { k \in DOMAIN logs :
      /\ logs[k].address = CORE /\ logs[k].event \in ACTIVITY_EVENTS
      /\ logs[k].block <= latest
      /\ \E w \in windows(latest) \ lost :
           windowStart(w) <= logs[k].block /\ logs[k].block < windowStart(w) + LOG_WINDOW }

LEMMA AnsweredFacts ==
  ASSUME LogsInv, NEW latest \in Nat, NEW lost
  PROVE  LET answers == Answered(latest, lost)
         IN  /\ IsFiniteSet(answers)
             /\ \A p \in answers : p \in Int \X (DOMAIN logs) /\ p[2] \in DueOf(latest, lost)
             /\ \A p, q \in answers : logs[p[2]].block = logs[q[2]].block => p[1] = q[1]
             /\ \A k \in DueOf(latest, lost) : \E w : <<w, k>> \in answers
  <1> DEFINE answers == Answered(latest, lost)
             answering == windows(latest) \ lost
  <1>1. \A p : p \in answers <=>
          \E w \in answering : \E k \in DOMAIN logs :
            /\ p = <<w, k>>
            /\ logs[k].address = CORE /\ logs[k].event \in ACTIVITY_EVENTS
            /\ windowStart(w) <= logs[k].block /\ logs[k].block <= windowEnd(w, latest)
    <2>1. \A p : p \in answers <=>
            \E w \in answering : p \in {w} \X getLogs(windowStart(w), windowEnd(w, latest))
      BY DEF Answered
    <2> HIDE DEF answers, answering
    <2>2. \A w, p : p \in {w} \X getLogs(windowStart(w), windowEnd(w, latest)) <=>
            \E k \in getLogs(windowStart(w), windowEnd(w, latest)) : p = <<w, k>>
      OBVIOUS
    <2> QED
      BY <2>1, <2>2 DEF getLogs
  <1> HIDE DEF answers
  <1>2. \A k \in DOMAIN logs : logs[k].block \in Int
    BY LogTypes
  <1>3. \A p : p \in answers <=>
          \E w \in answering : \E k \in DOMAIN logs :
            /\ p = <<w, k>>
            /\ logs[k].address = CORE /\ logs[k].event \in ACTIVITY_EVENTS
            /\ windowStart(w) <= logs[k].block /\ logs[k].block < windowStart(w) + LOG_WINDOW
            /\ logs[k].block <= latest
    BY <1>1, <1>2, WindowFacts
  <1>4. \A p \in answers : p \in Int \X (DOMAIN logs) /\ p[2] \in DueOf(latest, lost)
    <2> TAKE p \in answers
    <2>1. PICK w \in answering, k \in DOMAIN logs :
            /\ p = <<w, k>>
            /\ logs[k].address = CORE /\ logs[k].event \in ACTIVITY_EVENTS
            /\ windowStart(w) <= logs[k].block /\ logs[k].block < windowStart(w) + LOG_WINDOW
            /\ logs[k].block <= latest
      BY <1>3
    <2>2. k \in DueOf(latest, lost)
      BY <2>1 DEF DueOf
    <2>3. w \in Int
      BY WindowFacts
    <2> QED
      BY <2>1, <2>2, <2>3
  <1>5. \A k \in DueOf(latest, lost) : \E w : <<w, k>> \in answers
    <2> TAKE k \in DueOf(latest, lost)
    <2>1. PICK w \in answering :
            /\ windowStart(w) <= logs[k].block
            /\ logs[k].block < windowStart(w) + LOG_WINDOW
      BY DEF DueOf
    <2>2. <<w, k>> \in answers
      BY <1>3, <2>1 DEF DueOf
    <2> QED
      BY <2>2
  <1>6. ASSUME NEW p \in answers, NEW q \in answers, logs[p[2]].block = logs[q[2]].block
        PROVE  p[1] = q[1]
    <2>1. PICK v \in answering, j \in DOMAIN logs :
            p = <<v, j>> /\ windowStart(v) <= logs[j].block /\ logs[j].block < windowStart(v) + LOG_WINDOW
      BY <1>3
    <2>2. PICK w \in answering, k \in DOMAIN logs :
            q = <<w, k>> /\ windowStart(w) <= logs[k].block /\ logs[k].block < windowStart(w) + LOG_WINDOW
      BY <1>3
    <2>3. logs[j].block = logs[k].block /\ logs[j].block \in Int
      BY <1>2, <1>6, <2>1, <2>2
    <2>4. v = w
      BY <2>1, <2>2, <2>3, WindowFacts
    <2> QED
      BY <2>1, <2>2, <2>4
  <1>7. IsFiniteSet(answers)
    <2>1. IsFiniteSet(windows(latest)) /\ IsFiniteSet(DOMAIN logs)
      <3>1. (latest - DEPLOY_BLOCK) \div LOG_WINDOW \in Int
        BY FeedAssumption
      <3> QED
        BY <3>1, LogTypes, FS_Interval DEF windows
    <2>2. IsFiniteSet(windows(latest) \X DOMAIN logs)
      BY <2>1, FS_Product
    <2>3. answers \subseteq windows(latest) \X DOMAIN logs
      BY <1>3
    <2> QED
      BY <2>2, <2>3, FS_Subset
  <1> QED
    BY <1>4, <1>5, <1>6, <1>7 DEF answers

(* The rows of a read: the answers in order, as many as were asked for. *)
LEMMA FetchedIsPlaced ==
  ASSUME LogsInv, NEW latest \in Nat, NEW lost
  PROVE  Placed(fetchActivity(latest, lost), DueOf(latest, lost))
  <1> DEFINE answers == Answered(latest, lost)
             due == DueOf(latest, lost)
             R == { pair \in answers \X answers : NewerBlock(pair[1], pair[2]) }
             decoded == NewestFirst(answers)
             n == Cardinality(answers)
             onShow == IF n < Limit THEN n ELSE Limit
             rows == fetchActivity(latest, lost)
  <1>1. /\ IsFiniteSet(answers)
        /\ \A p \in answers : p \in Int \X (DOMAIN logs) /\ p[2] \in due
        /\ \A p, q \in answers : logs[p[2]].block = logs[q[2]].block => p[1] = q[1]
        /\ \A k \in due : \E w : <<w, k>> \in answers
    BY AnsweredFacts
  <1> HIDE DEF answers, due
  <1>2. Orders(R, answers)
    BY <1>1, NewerOrders
  <1>3. decoded = Ranked(answers, R)
    BY DEF NewestFirst
  <1>4. \A p, q \in answers : <<p, q>> \in R => NewerBlock(p, q)
    OBVIOUS
  <1> HIDE DEF R, decoded
  <1>5. /\ n \in Nat /\ Len(decoded) = n /\ DOMAIN decoded = 1 .. n
        /\ \A k \in 1 .. n : decoded[k] \in answers
        /\ \A x \in answers : \E k \in 1 .. n : decoded[k] = x
        /\ \A j, k \in 1 .. n : j < k => <<decoded[j], decoded[k]>> \in R
    BY <1>1, <1>2, <1>3, RankedInOrder
  <1>6. Limit \in Nat
    BY FeedAssumption
  <1>7. rows = [k \in 1 .. onShow |-> logs[decoded[k][2]]]
    BY <1>5 DEF fetchActivity, answers, decoded
  <1> HIDE DEF rows, n
  <1>8. onShow \in Nat /\ onShow <= n /\ onShow <= Limit /\ (onShow < n => onShow = Limit)
    BY <1>5, <1>6
  <1> HIDE DEF onShow
  <1>9. \A k \in 1 .. n : decoded[k][2] \in due /\ decoded[k][2] \in DOMAIN logs /\ decoded[k] \in answers
    BY <1>1, <1>5
  <1>10. \A k \in 1 .. onShow : k \in 1 .. n
    BY <1>5, <1>8
  <1>11. rows \in Seq(LogRow) /\ Len(rows) = onShow /\ DOMAIN rows = 1 .. onShow
    <2>1. rows \in [1 .. onShow -> LogRow]
      BY <1>7, <1>9, <1>10, LogTypes
    <2> QED
      BY <1>8, <2>1, FunctionIsSequence
  <1>12. ASSUME NEW j \in 1 .. n, NEW k \in 1 .. n, j < k
         PROVE  NewerLog(decoded[j][2], decoded[k][2])
    <2>1. NewerBlock(decoded[j], decoded[k])
      BY <1>4, <1>5, <1>12
    <2>2. CASE logs[decoded[j][2]].block > logs[decoded[k][2]].block
      BY <2>2 DEF NewerLog
    <2>3. CASE /\ logs[decoded[j][2]].block = logs[decoded[k][2]].block
               /\ \/ decoded[j][1] < decoded[k][1]
                  \/ decoded[j][1] = decoded[k][1] /\ decoded[j][2] < decoded[k][2]
      <3>1. decoded[j][1] = decoded[k][1] /\ decoded[j][1] \in Int
        BY <1>1, <1>9, <2>3
      <3>2. ~(decoded[j][1] < decoded[k][1])
        BY <3>1
      <3> QED
        BY <2>3, <3>2 DEF NewerLog
    <2> QED
      BY <2>1, <2>2, <2>3 DEF NewerBlock
  <1> DEFINE place == [k \in 1 .. onShow |-> decoded[k][2]]
  <1>13. place \in [DOMAIN rows -> due] /\ \A k \in 1 .. onShow : place[k] = decoded[k][2]
    BY <1>9, <1>10, <1>11
  <1> HIDE DEF place
  <1>14. \A j \in DOMAIN rows : rows[j] = logs[place[j]]
    BY <1>7, <1>11, <1>13
  <1>15. \A j, k \in DOMAIN rows : j < k => NewerLog(place[j], place[k])
    BY <1>10, <1>11, <1>12, <1>13
  <1>16. ASSUME NEW k \in due
         PROVE  \/ \E j \in DOMAIN rows : place[j] = k
                \/ Len(rows) = Limit /\ \A j \in DOMAIN rows : NewerLog(place[j], k)
    <2>1. PICK w : <<w, k>> \in answers
      BY <1>1
    <2>2. PICK m \in 1 .. n : decoded[m] = <<w, k>>
      BY <1>5, <2>1
    <2>3. decoded[m][2] = k
      BY <2>2
    <2>4. CASE m \in 1 .. onShow
      BY <1>11, <1>13, <2>3, <2>4
    <2>5. CASE m \notin 1 .. onShow
      <3>1. onShow < m /\ m <= n
        BY <1>5, <1>8, <2>5
      <3>2. onShow = Limit
        BY <1>5, <1>8, <3>1
      <3>3. ASSUME NEW j \in 1 .. onShow PROVE NewerLog(place[j], k)
        <4>1. j \in 1 .. n /\ j < m
          BY <1>8, <1>10, <3>1
        <4> QED
          BY <1>12, <1>13, <2>3, <4>1
      <3> QED
        BY <1>11, <3>2, <3>3
    <2> QED
      BY <2>4, <2>5
  <1>17. Placed(rows, due)
    BY <1>8, <1>11, <1>13, <1>14, <1>15, <1>16 DEF Placed
  <1> QED
    BY <1>17 DEF rows, due

(* What a page shows was due when it was read, and nothing that is logged since is: a block
   that could be asked for is never added to. *)
FeedInv ==
  /\ head \in Nat /\ head < now
  /\ feed.latest \in Nat /\ feed.latest < now
  /\ Placed(feed.rows, DueOf(feed.latest, feed.lost))
  /\ lookedAt # "feed" => feed.latest = 0

LEMMA DueIsDue ==
  ASSUME LogsInv
  PROVE  DueOf(feed.latest, feed.lost) = Due
  <1>1. \A k \in DOMAIN logs : logs[k].address = CORE =>
          (logs[k].event \in ACTIVITY_EVENTS <=> logs[k].event \in ACTIVITY_EVENT_NAMES)
    BY DEF LogsInv, Sourced, ACTIVITY_EVENTS
  <1> QED
    BY <1>1 DEF DueOf, Due, Asked

(* Events of blocks yet to be made are not due. *)
LEMMA DueStays ==
  ASSUME ContractInv, LogsInv, [WebNext]_webVars, NEW latest \in Nat, latest < now, NEW lost
  PROVE  DueOf(latest, lost)' = DueOf(latest, lost)
  <1>1. /\ Len(logs) \in Nat /\ DOMAIN logs = 1 .. Len(logs)
        /\ Len(logs') \in Nat /\ DOMAIN logs' = 1 .. Len(logs') /\ Len(logs) <= Len(logs')
        /\ \A k \in 1 .. Len(logs) : logs'[k] = logs[k]
        /\ \A k \in 1 .. Len(logs') : k > Len(logs) => logs'[k].block = now
        /\ now \in Nat
    BY LogsKept, LogTypes, StatePieces DEF LogsInv
  <1> DEFINE L == DOMAIN logs
             M == DOMAIN logs'
  <1>2. \A k \in M : k \in L \/ ~(logs'[k].block <= latest)
    BY <1>1
  <1>3. L \subseteq M /\ \A k \in L : logs'[k] = logs[k]
    BY <1>1
  <1>4. \A k : k \in DueOf(latest, lost)' <=> k \in DueOf(latest, lost)
    BY <1>2, <1>3 DEF DueOf, windows, windowStart
  <1> QED
    BY <1>4 DEF DueOf

(* As long as the log only grows, rows keep their places in it. *)
LEMMA PlacesStay ==
  ASSUME ContractInv, LogsInv, [WebNext]_webVars, NEW latest \in Nat, latest < now, NEW lost, NEW rows,
         Placed(rows, DueOf(latest, lost))
  PROVE  Placed(rows, DueOf(latest, lost))'
  <1>1. PICK due : due = DueOf(latest, lost)
    OBVIOUS
  <1>2. /\ DueOf(latest, lost)' = due
        /\ due \subseteq DOMAIN logs
        /\ \A k \in DOMAIN logs : logs'[k] = logs[k]
    BY <1>1, DueStays, LogsKept, LogTypes DEF DueOf
  <1>3. \A p, q \in due : NewerLog(p, q) => NewerLog(p, q)'
    BY <1>2 DEF NewerLog
  <1>4. Placed(rows, due)
    BY <1>1
  <1>5. Placed(rows, due)'
    <2>1. rows \in Seq(LogRow) /\ Len(rows) <= Limit
      BY <1>4 DEF Placed
    <2>2. PICK place \in [DOMAIN rows -> due] :
            /\ \A j \in DOMAIN rows : rows[j] = logs[place[j]]
            /\ \A j, k \in DOMAIN rows : j < k => NewerLog(place[j], place[k])
            /\ \A k \in due :
                 \/ \E j \in DOMAIN rows : place[j] = k
                 \/ Len(rows) = Limit /\ \A j \in DOMAIN rows : NewerLog(place[j], k)
      BY <1>4 DEF Placed
    <2>3. \A j \in DOMAIN rows : place[j] \in due /\ rows[j] = logs'[place[j]]
      BY <1>2, <2>2
    <2>4. \A j, k \in DOMAIN rows : j < k => NewerLog(place[j], place[k])'
      BY <1>3, <2>2, <2>3
    <2>5. \A k \in due :
            \/ \E j \in DOMAIN rows : place[j] = k
            \/ Len(rows) = Limit /\ \A j \in DOMAIN rows : NewerLog(place[j], k)'
      BY <1>3, <2>2, <2>3
    <2> QED
      BY <2>1, <2>2, <2>3, <2>4, <2>5 DEF Placed
  <1> QED
    BY <1>2, <1>5

LEMMA FeedKept == ContractInv /\ LogsInv /\ FeedInv /\ [WebNext]_webVars => FeedInv'
  <1> SUFFICES ASSUME ContractInv, LogsInv, FeedInv, [WebNext]_webVars PROVE FeedInv'
    OBVIOUS
  <1>1. now \in Nat /\ now' \in Nat /\ now <= now'
    <2>1. now \in Nat /\ (now' = now \/ now' = now + 1)
      BY WebOnChain, NowMoves, StatePieces
    <2> QED
      BY <2>1
  <1>2. PICK latest, lost, rows :
          /\ latest \in Nat
          /\ latest = feed.latest /\ lost = feed.lost /\ rows = feed.rows
          /\ latest < now /\ Placed(rows, DueOf(latest, lost))
    BY DEF FeedInv
  <1>3. Placed(rows, DueOf(latest, lost))'
    BY <1>2, PlacesStay
  <1>4. head \in Nat /\ head < now
    BY DEF FeedInv
  <1>5. \/ UNCHANGED <<head, feed>>
        \/ UNCHANGED feed /\ LoadFeed
        \/ lookedAt = "feed" /\ \E gone : FeedLands(gone)
    <2>1. CASE TabStep \/ UNCHANGED webVars \/ UNCHANGED feedOnly
      BY <2>1 DEF TabStep, webVars, readerVars, feedOnly, readVars
    <2>2. CASE lookedAt = "feed" /\ FeedNext
      <3>1. ASSUME NEW c \in Users, Transact(c) PROVE UNCHANGED <<head, feed>>
        BY <3>1, TransactTells DEF readVars
      <3> QED
        BY <2>2, <3>1 DEF FeedNext, LoadFeed, LoadCards, readVars
    <2> QED
      BY <2>1, <2>2 DEF WebNext, ReaderStep
  <1>6. lookedAt' = lookedAt
    BY DEF WebNext, webVars
  <1>7. CASE UNCHANGED <<head, feed>>
    <2>1. feed'.latest = latest /\ feed'.lost = lost /\ feed'.rows = rows
      BY <1>2, <1>7
    <2>2. Placed(feed.rows, DueOf(feed.latest, feed.lost))'
      BY <1>3, <2>1
    <2>3. head' \in Nat /\ head' < now' /\ feed'.latest \in Nat /\ feed'.latest < now'
      BY <1>1, <1>2, <1>4, <1>7, <2>1
    <2>4. lookedAt' # "feed" => feed'.latest = 0
      BY <1>6, <1>7 DEF FeedInv
    <2> QED
      BY <2>2, <2>3, <2>4 DEF FeedInv
  <1>8. CASE UNCHANGED feed /\ LoadFeed
    <2>1. feed'.latest = latest /\ feed'.lost = lost /\ feed'.rows = rows
      BY <1>2, <1>8
    <2>2. Placed(feed.rows, DueOf(feed.latest, feed.lost))'
      BY <1>3, <2>1
    <2>3. feed'.latest \in Nat /\ feed'.latest < now'
      BY <1>1, <1>2, <2>1
    <2>4. head' \in Nat /\ head' < now'
      <3>1. head' = now - 1 /\ now > DEPLOY_BLOCK
        BY <1>8 DEF LoadFeed
      <3> QED
        BY <1>1, <3>1, FeedAssumption
    <2>5. lookedAt' # "feed" => feed'.latest = 0
      BY <1>6, <1>8 DEF FeedInv
    <2> QED
      BY <2>2, <2>3, <2>4, <2>5 DEF FeedInv
  <1>9. ASSUME NEW gone, FeedLands(gone), lookedAt = "feed" PROVE FeedInv'
    <2>1. PICK asked, found :
            /\ asked \in Nat
            /\ asked = head /\ found = fetchActivity(head, gone) /\ asked < now
            /\ Placed(found, DueOf(asked, gone))
      BY <1>4, FetchedIsPlaced
    <2>2. Placed(found, DueOf(asked, gone))'
      BY <2>1, PlacesStay
    <2>3. /\ feed'.latest = asked /\ feed'.lost = gone /\ feed'.rows = found /\ head' = 0
      BY <1>9, <2>1 DEF FeedLands
    <2>4. Placed(feed.rows, DueOf(feed.latest, feed.lost))'
      BY <2>2, <2>3
    <2>5. head' \in Nat /\ head' < now' /\ feed'.latest \in Nat /\ feed'.latest < now'
      BY <1>1, <2>1, <2>3
    <2> QED
      BY <1>6, <1>9, <2>4, <2>5 DEF FeedInv
  <1> QED
    BY <1>5, <1>7, <1>8, <1>9

LEMMA FeedStarts == WebInit => FeedInv
  <1> SUFFICES ASSUME WebInit PROVE FeedInv
    OBVIOUS
  <1>1. head = 0 /\ feed.latest = 0 /\ feed.lost = {} /\ feed.rows = << >> /\ now = 1
    BY DEF WebInit, FeedInit, SystemInit, DeployedWithPlan, ChainInit, Unread
  <1>2. LogsInv
    BY LogStarts
  <1>3. DueOf(0, {}) = {}
    <2>1. \A k \in DOMAIN logs : ~(logs[k].block <= 0)
      BY <1>2, LogTypes, FeedAssumption DEF LogsInv
    <2> QED
      BY <2>1 DEF DueOf
  <1>4. Placed(<< >>, {})
    <2>1. PICK rows \in Seq(LogRow) : rows = << >> /\ Len(rows) = 0 /\ DOMAIN rows = {}
      <3>1. << >> \in Seq(LogRow) /\ Len(<< >>) = 0
        OBVIOUS
      <3>2. DOMAIN << >> = {}
        OBVIOUS
      <3> QED
        BY <3>1, <3>2, Zenon
    <2>2. PICK place : place \in [{} -> {}]
      <3>1. [x \in {} |-> x] \in [{} -> {}]
        OBVIOUS
      <3> QED
        BY <3>1
    <2>3. Len(rows) <= Limit
      BY <2>1, FeedAssumption
    <2>4. Placed(rows, {})
      BY <2>1, <2>2, <2>3 DEF Placed
    <2> QED
      BY <2>1, <2>4
  <1> QED
    BY <1>1, <1>3, <1>4 DEF FeedInv

ReadInv == ContractInv /\ LogsInv /\ FeedInv

LEMMA ReadHolds == WebSpec => []ReadInv
  <1>1. WebInit => ReadInv
    BY ContractsStart, LogStarts, FeedStarts DEF ReadInv
  <1>2. ReadInv /\ [WebNext]_webVars => ReadInv'
    BY ContractsKept, LogsKept, FeedKept DEF ReadInv
  <1> QED
    BY <1>1, <1>2, PTL DEF WebSpec

(* The activity feed is the history of the core as far as it could be read. *)
THEOREM FeedTellsHistory == WebSpec => []FeedIsHistory
  <1>1. ReadInv => FeedIsHistory
    <2> SUFFICES ASSUME ReadInv PROVE FeedIsHistory
      OBVIOUS
    <2> DEFINE rows == feed.rows
               n == Len(rows)
               onShow == { rows[j] : j \in DOMAIN rows }
    <2>1. LogsInv /\ Placed(rows, Due)
      BY DueIsDue DEF ReadInv, FeedInv
    <2>2. rows \in Seq(LogRow) /\ n \in Nat /\ DOMAIN rows = 1 .. n
      BY <2>1 DEF Placed
    <2>3. PICK place \in [DOMAIN rows -> Due] :
            /\ \A j \in DOMAIN rows : rows[j] = logs[place[j]]
            /\ \A j, k \in DOMAIN rows : j < k => NewerLog(place[j], place[k])
            /\ \A k \in Due :
                 \/ \E j \in DOMAIN rows : place[j] = k
                 \/ n = Limit /\ \A j \in DOMAIN rows : NewerLog(place[j], k)
      BY <2>1 DEF Placed
    <2>4. \A k \in Due : k \in DOMAIN logs /\ k \in Nat /\ logs[k].block \in Nat
      BY <2>1, LogTypes DEF Due
    <2> HIDE DEF rows, n
    <2>5. \A j \in 1 .. n : place[j] \in Due
      BY <2>2, <2>3
    <2>6. \A j, k \in 1 .. n : place[j] = place[k] => j = k
      <3>1. ASSUME NEW j \in 1 .. n, NEW k \in 1 .. n, j < k, place[j] = place[k] PROVE FALSE
        <4>1. NewerLog(place[j], place[k])
          BY <2>2, <2>3, <3>1
        <4>2. ~NewerLog(place[k], place[k])
          BY <2>4, <2>5 DEF NewerLog
        <4> QED
          BY <3>1, <4>1, <4>2
      <3> QED
        BY <3>1
    <2>7. Cardinality(onShow) = n /\ onShow \subseteq { logs[k] : k \in Due }
      <3>1. \A j, k \in 1 .. n : rows[j] = rows[k] => j = k
        <4> SUFFICES ASSUME NEW j \in 1 .. n, NEW k \in 1 .. n, rows[j] = rows[k] PROVE j = k
          OBVIOUS
        <4>1. logs[place[j]] = logs[place[k]]
          BY <2>2, <2>3
        <4>2. place[j] = place[k]
          BY <2>1, <2>4, <2>5, <4>1 DEF LogsInv, AllDifferent
        <4> QED
          BY <2>6, <4>2
      <3> DEFINE f == [j \in 1 .. n |-> rows[j]]
      <3>2. f \in Bijection(1 .. n, onShow)
        BY <2>2, <3>1 DEF Bijection, Injection, Surjection, IsInjective
      <3>3. ExistsBijection(1 .. n, onShow)
        BY <3>2 DEF ExistsBijection
      <3>4. IsFiniteSet(1 .. n) /\ Cardinality(1 .. n) = n
        BY <2>2, FS_Interval
      <3>5. Cardinality(onShow) = n
        BY <3>3, <3>4, FS_Bijection
      <3> QED
        BY <2>2, <2>3, <2>5, <3>5
    <2>8. ASSUME NEW j \in DOMAIN rows, NEW k \in DOMAIN rows, j < k
          PROVE  rows[j].block >= rows[k].block
      <3>1. NewerLog(place[j], place[k])
        BY <2>3, <2>8
      <3> QED
        BY <2>2, <2>3, <2>4, <2>5, <3>1 DEF NewerLog
    <2>9. n < Limit => Cardinality(Due) = n
      <3> SUFFICES ASSUME n < Limit PROVE Cardinality(Due) = n
        OBVIOUS
      <3>1. n # Limit
        BY <2>2, FeedAssumption
      <3>2. \A k \in Due : \E j \in 1 .. n : place[j] = k
        BY <2>2, <2>3, <3>1
      <3>3. place \in Bijection(1 .. n, Due)
        BY <2>2, <2>6, <3>2 DEF Bijection, Injection, Surjection, IsInjective
      <3>4. ExistsBijection(1 .. n, Due)
        BY <3>3 DEF ExistsBijection
      <3>5. IsFiniteSet(1 .. n) /\ Cardinality(1 .. n) = n
        BY <2>2, FS_Interval
      <3> QED
        BY <3>4, <3>5, FS_Bijection
    <2>10. ASSUME NEW k \in Due, NEW j \in DOMAIN rows, logs[k] \notin onShow
           PROVE  logs[k].block <= rows[j].block
      <3>1. ~\E i \in DOMAIN rows : place[i] = k
        BY <2>3, <2>10
      <3>2. NewerLog(place[j], k)
        BY <2>3, <3>1
      <3> QED
        BY <2>2, <2>3, <2>4, <2>5, <3>2 DEF NewerLog
    <2> QED
      BY <2>7, <2>8, <2>9, <2>10 DEF FeedIsHistory, rows, n
  <1> QED
    BY <1>1, ReadHolds, PTL

(* A feed that is whole names the owner of every pass that stands. *)
THEOREM FeedTracesHolders == WebSpec => []HoldersTraced
  <1>1. ReadInv => HoldersTraced
    <2> SUFFICES ASSUME ReadInv, Whole, NEW i \in 0 .. next_token_id - 1, expiries[i] > 0
                 PROVE  \E j \in DOMAIN feed.rows :
                          LastMove(feed.rows, i, j) /\ feed.rows[j].who = owners[i]
      BY DEF HoldersTraced
    <2> DEFINE rows == feed.rows
               n == Len(rows)
    <2>1. LogsInv /\ Placed(rows, Due) /\ lookedAt = "feed" /\ feed.latest \in Nat
      BY DueIsDue DEF ReadInv, FeedInv, Whole
    <2>2. rows \in Seq(LogRow) /\ n \in Nat /\ DOMAIN rows = 1 .. n
      BY <2>1 DEF Placed
    <2>3. n # Limit
      BY <2>2, FeedAssumption DEF Whole
    <2>4. PICK place \in [DOMAIN rows -> Due] :
            /\ \A j \in DOMAIN rows : rows[j] = logs[place[j]]
            /\ \A j, k \in DOMAIN rows : j < k => NewerLog(place[j], place[k])
            /\ \A k \in Due : \E j \in DOMAIN rows : place[j] = k
      BY <2>1, <2>3 DEF Placed
    <2>5. \A k \in DOMAIN logs : k \in Nat /\ logs[k].block \in Nat
      BY <2>1, LogTypes
    <2>6. PICK k \in DOMAIN logs : LastHanded(logs, i, k) /\ logs[k].who = owners[i]
      BY <2>1 DEF LogsInv, HoldersLogged
    <2>7. k \in Due
      <3>1. logs[k].address = CORE /\ logs[k].event \in ACTIVITY_EVENT_NAMES
        BY <2>1, <2>6 DEF LastHanded, Hands, LogsInv, Sourced, ACTIVITY_EVENT_NAMES
      <3>2. logs[k].block \in 1 .. feed.latest
        BY <2>1, <2>5, FeedAssumption DEF LogsInv, Whole
      <3>3. Asked(logs[k].block)
        BY <2>1, <3>2, WindowFacts DEF Whole, Asked
      <3> QED
        BY <3>1, <3>2, <3>3 DEF Due
    <2>8. PICK j \in DOMAIN rows : place[j] = k
      BY <2>4, <2>7
    <2>9. rows[j] = logs[k]
      BY <2>4, <2>8
    <2>10. ASSUME NEW l \in DOMAIN rows, Hands(rows[l], i), l # j
           PROVE  rows[l].block < rows[j].block \/ (rows[l].block = rows[j].block /\ l < j)
      <3>1. place[l] \in DOMAIN logs /\ rows[l] = logs[place[l]]
        BY <2>4 DEF Due
      <3>2. place[l] <= k
        BY <2>6, <2>10, <3>1 DEF LastHanded
      <3>3. logs[place[l]].block <= logs[k].block
        <4>1. CASE place[l] = k
          BY <2>5, <4>1
        <4>2. CASE place[l] < k
          BY <2>1, <3>1, <4>2 DEF LogsInv
        <4> QED
          BY <2>5, <3>1, <3>2, <4>1, <4>2
      <3>4. CASE j < l
        <4>1. NewerLog(k, place[l])
          BY <2>4, <2>8, <3>4
        <4>2. ~(k < place[l])
          BY <2>5, <3>1, <3>2
        <4> QED
          BY <2>9, <3>1, <4>1, <4>2 DEF NewerLog
      <3>5. CASE l < j
        BY <2>5, <2>9, <3>1, <3>3, <3>5
      <3> QED
        BY <2>2, <2>10, <3>4, <3>5
    <2>11. LastMove(rows, i, j)
      BY <2>6, <2>9, <2>10 DEF LastMove, LastHanded, Hands
    <2> QED
      BY <2>6, <2>9, <2>11
  <1> QED
    BY <1>1, ReadHolds, PTL

-----------------------------------------------------------------------------
(* What is suggested from it.                                              *)

(* A median lies where the figures lie, rounded up or not. *)
LEMMA MedianBetween ==
  ASSUME NEW lo \in Int, NEW hi \in Int, NEW D \in SUBSET Int, IsFiniteSet(D),
         NEW xs \in [D -> lo .. hi]
  PROVE  median(xs) = None \/ median(xs) \in lo .. hi
  <1> DEFINE s == Ranked(D, StablyBy(xs))
             n == Cardinality(D)
             m == n \div 2
  <1>1. /\ n \in Nat /\ Len(s) = n /\ \A k \in 1 .. n : s[k] \in D
    <2>1. xs \in [D -> Int]
      OBVIOUS
    <2> QED
      BY <2>1, StableOrder, RankedInOrder
  <1>2. DOMAIN xs = D
    OBVIOUS
  <1>3. CASE D = {}
    BY <1>2, <1>3 DEF median
  <1>4. CASE D # {}
    <2>1. n # 0
      BY <1>4, FS_EmptySet
    <2>2. median(xs) = IF n % 2 = 1 THEN xs[s[m + 1]] ELSE (xs[s[m]] + xs[s[m + 1]] + 1) \div 2
      BY <1>1, <1>2, <1>4 DEF median
    <2> HIDE DEF s, n
    <2>3. CASE n % 2 = 1
      <3>1. m + 1 \in 1 .. n
        BY <1>1, <2>3
      <3>2. xs[s[m + 1]] \in lo .. hi
        BY <1>1, <3>1
      <3> QED
        BY <2>2, <2>3, <3>2
    <2>4. CASE n % 2 # 1
      <3>1. m \in 1 .. n /\ m + 1 \in 1 .. n
        BY <1>1, <2>1, <2>4
      <3> DEFINE a == xs[s[m]]
                 b == xs[s[m + 1]]
      <3>2. a \in lo .. hi /\ b \in lo .. hi
        BY <1>1, <3>1
      <3>3. median(xs) = (a + b + 1) \div 2
        BY <2>2, <2>4
      <3> HIDE DEF a, b
      <3>4. (a + b + 1) \div 2 \in lo .. hi
        BY <3>2
      <3> QED
        BY <3>3, <3>4
    <2> QED
      BY <2>3, <2>4
  <1> QED
    BY <1>3, <1>4

(* A history holds what was logged, whichever way round. *)
LEMMA HistoryIsLogged ==
  ASSUME LogsInv
  PROVE  LET ordered == OldestFirst(History)
         IN  /\ DOMAIN ordered \in SUBSET Int /\ IsFiniteSet(DOMAIN ordered)
             /\ \A k \in DOMAIN ordered : \E l \in DOMAIN logs : ordered[k] = logs[l]
  <1> DEFINE answers == {0} \X DOMAIN logs
             R == { pair \in answers \X answers : NewerBlock(pair[1], pair[2]) }
             ranked == NewestFirst(answers)
             n == Cardinality(answers)
             history == History
  <1>1. IsFiniteSet(answers) /\ \A p \in answers : p \in Int \X DOMAIN logs
    <2>1. IsFiniteSet({0}) /\ IsFiniteSet(DOMAIN logs)
      <3>1. Len(logs) \in Int /\ 1 \in Int /\ DOMAIN logs = 1 .. Len(logs)
        BY LogTypes
      <3>2. IsFiniteSet(DOMAIN logs)
        BY <3>1, FS_Interval
      <3>3. IsFiniteSet({0})
        BY FS_Singleton
      <3> QED
        BY <3>2, <3>3
    <2>2. IsFiniteSet({0} \X DOMAIN logs)
      BY <2>1, FS_Product
    <2> QED
      BY <2>2
  <1>2. history = [k \in DOMAIN ranked |-> logs[ranked[k][2]]]
    BY DEF History
  <1> HIDE DEF history, answers
  <1>3. Orders(R, answers)
    BY <1>1, NewerOrders
  <1>4. ranked = Ranked(answers, R)
    BY DEF NewestFirst
  <1> HIDE DEF R, ranked
  <1>5. n \in Nat /\ DOMAIN ranked = 1 .. n /\ \A k \in 1 .. n : ranked[k] \in answers
    BY <1>1, <1>3, <1>4, RankedInOrder
  <1> HIDE DEF n
  <1>6. DOMAIN history = 1 .. n /\ \A k \in 1 .. n : \E l \in DOMAIN logs : history[k] = logs[l]
    BY <1>1, <1>2, <1>5
  <1> DEFINE key == [k \in DOMAIN history |-> history[k].block]
             D == DOMAIN history
             places == Ranked(D, StablyBy(key))
             ordered == OldestFirst(history)
  <1>7. key \in [D -> Int] /\ D \in SUBSET Int /\ IsFiniteSet(D)
    <2>1. \A k \in D : history[k].block \in Int
      BY <1>6, LogTypes
    <2>2. n \in Int /\ 1 \in Int
      BY <1>5
    <2>3. IsFiniteSet(D) /\ D \in SUBSET Int
      BY <1>6, <2>2, FS_Interval
    <2> QED
      BY <2>1, <2>3
  <1>8. ordered = [k \in DOMAIN places |-> history[places[k]]]
    BY DEF OldestFirst, Rearranged
  <1> HIDE DEF key, ordered
  <1>9. /\ Cardinality(D) \in Nat /\ DOMAIN places = 1 .. Cardinality(D)
        /\ \A k \in 1 .. Cardinality(D) : places[k] \in D
    BY <1>7, StableOrder, RankedInOrder
  <1> HIDE DEF places
  <1>10. DOMAIN ordered = 1 .. Cardinality(D)
    BY <1>8, <1>9
  <1>11. \A k \in DOMAIN ordered : \E l \in DOMAIN logs : ordered[k] = logs[l]
    BY <1>6, <1>8, <1>9, <1>10
  <1>12. DOMAIN ordered \in SUBSET Int /\ IsFiniteSet(DOMAIN ordered)
    BY <1>9, <1>10, FS_Interval
  <1> QED
    BY <1>11, <1>12 DEF ordered, history

(* The middle discount of resales below the first price is less than the whole price. *)
LEMMA CutIsPartial ==
  ASSUME ContractInv, LogsInv, NEW plan
  PROVE  planSignal(History, plan).medianCut = None \/ planSignal(History, plan).medianCut \in 0 .. 99
  <1> DEFINE ordered == OldestFirst(History)
             original(k) == token_paid[ordered[k].tokenId]
             sales == { k \in DOMAIN ordered : /\ ordered[k].event = "Bought"
                                               /\ token_plans[ordered[k].tokenId] = plan }
             cheaper == { k \in sales : 0 < ordered[k].price /\ ordered[k].price < original(k) }
             cut(k) == ((original(k) - ordered[k].price) * 100) \div original(k)
             cuts == [k \in cheaper |-> cut(k)]
  <1>1. planSignal(History, plan).medianCut = median(cuts)
    BY DEF planSignal
  <1>2. /\ DOMAIN ordered \in SUBSET Int /\ IsFiniteSet(DOMAIN ordered)
        /\ \A k \in DOMAIN ordered : \E l \in DOMAIN logs : ordered[k] = logs[l]
    BY HistoryIsLogged
  <1> HIDE DEF ordered
  <1>3. cheaper \in SUBSET Int /\ IsFiniteSet(cheaper)
    BY <1>2, FS_Subset
  <1>4. ASSUME NEW k \in cheaper PROVE cut(k) \in 0 .. 99
    <2>1. PICK l \in DOMAIN logs : ordered[k] = logs[l]
      BY <1>2
    <2>2. Sourced(logs[l]) /\ logs[l].price \in Nat /\ ordered[k].event = "Bought"
      BY <2>1, LogTypes, RowFields DEF LogsInv
    <2>3. ordered[k].tokenId \in Tokens /\ ordered[k].price \in Nat
      BY <2>1, <2>2 DEF Sourced
    <2>4. original(k) \in Nat
      BY <2>3 DEF ContractInv, MarketInv, CoreInv, TypeOK
    <2>5. 0 < ordered[k].price /\ ordered[k].price < original(k)
      OBVIOUS
    <2> DEFINE o == original(k)
               p == ordered[k].price
               q == ((o - p) * 100) \div o
    <2>6. o \in Nat /\ p \in Nat /\ 0 < p /\ p < o
      BY <2>3, <2>4, <2>5
    <2> HIDE DEF o, p
    <2>7. (o - p) * 100 \in Nat /\ (o - p) * 100 < o * 100
      BY <2>6
    <2>8. q \in Nat /\ o * q <= (o - p) * 100
      BY <2>6, <2>7
    <2> HIDE DEF q
    <2>9. q < 100
      <3> SUFFICES ASSUME q >= 100 PROVE FALSE
        BY <2>8
      <3>1. o * q >= o * 100
        BY <2>6, <2>8
      <3>2. o * q \in Nat /\ o * 100 \in Nat
        BY <2>6, <2>8
      <3> QED
        BY <2>7, <2>8, <3>1, <3>2
    <2>10. cut(k) = q
      BY DEF q, o, p
    <2> HIDE DEF cut
    <2> QED
      BY <2>8, <2>9, <2>10
  <1>5. cuts \in [cheaper -> 0 .. 99]
    BY <1>4
  <1> HIDE DEF cheaper, cuts
  <1>6. median(cuts) = None \/ median(cuts) \in 0 .. 99
    <2>1. 0 \in Int /\ 99 \in Int
      OBVIOUS
    <2> QED
      BY <1>3, <1>5, <2>1, MedianBetween
  <1> QED
    BY <1>1, <1>6

-----------------------------------------------------------------------------
(* What is suggested, as it is shown.                                      *)

(* A multiple of an amount that is itself a multiple. *)
LEMMA MultipleOfMultiple ==
  ASSUME NEW x \in Nat, NEW y \in Nat \ {0}, NEW z \in Nat \ {0}, x % y = 0, y % z = 0
  PROVE  x % z = 0
  <1>1. x = y * (x \div y) /\ x \div y \in Nat
    OBVIOUS
  <1>2. y = z * (y \div z) /\ y \div z \in Nat
    OBVIOUS
  <1> DEFINE k == y \div z
             l == x \div y
  <1> HIDE DEF k, l
  <1>3. x = y * l /\ y = z * k /\ k \in Nat /\ l \in Nat
    BY <1>1, <1>2 DEF k, l
  <1>4. k * l \in Nat /\ x = z * (k * l)
    BY <1>3
  <1>5. ASSUME NEW n \in Nat PROVE (z * n) % z = 0
    OBVIOUS
  <1> QED
    BY <1>4, <1>5

(* What is shown exactly of an amount is so of the smaller ones' digits. *)
LEMMA UnitsNest ==
  ASSUME NEW v \in Nat \ {0}, NEW w \in Nat, v <= w, w % DisplayUnit(w) = 0
  PROVE  DisplayUnit(v) \in Nat \ {0} /\ w % DisplayUnit(v) = 0 /\ Micro % DisplayUnit(v) = 0
  <1>1. CASE v >= Milli
    <2>1. DisplayUnit(v) = Micro /\ DisplayUnit(w) = Micro
      BY <1>1, DisplayAssumption DEF DisplayUnit
    <2>2. Micro % Micro = 0
      BY DisplayAssumption
    <2> QED
      BY <2>1, <2>2, DisplayAssumption
  <1>2. CASE v < Milli
    <2>1. v \in 1 .. Milli - 1 /\ DisplayUnit(v) = Grain[v] /\ Grain[v] \in Nat \ {0}
      BY <1>2, DisplayAssumption DEF DisplayUnit
    <2>2. Micro % Grain[v] = 0
      BY <2>1, DisplayAssumption
    <2>3. CASE w >= Milli
      <3>1. w % Micro = 0
        BY <2>3 DEF DisplayUnit
      <3> QED
        BY <2>1, <2>2, <3>1, MultipleOfMultiple, DisplayAssumption
    <2>4. CASE w < Milli
      <3>1. w \in 1 .. Milli - 1 /\ w % Grain[w] = 0 /\ Grain[w] \in Nat \ {0}
        BY <2>4, DisplayAssumption DEF DisplayUnit
      <3>2. Grain[w] % Grain[v] = 0
        BY <2>1, <3>1, DisplayAssumption
      <3>3. w % Grain[v] = 0
        BY <2>1, <3>1, <3>2, MultipleOfMultiple
      <3> QED
        BY <2>1, <2>2, <3>3
    <2> QED
      BY <2>3, <2>4, DisplayAssumption
  <1> QED
    BY <1>1, <1>2, DisplayAssumption

(* Rounding to a unit crosses none of its multiples. *)
LEMMA RoundingStaysBetween ==
  ASSUME NEW unit \in Nat \ {0}, NEW wei \in Nat, NEW low \in Nat, NEW high \in Nat,
         low % unit = 0, high % unit = 0, low <= wei, wei <= high,
         NEW figure \in {wei - (wei % unit), wei - (wei % unit) + unit},
         2 * (figure - wei) <= unit
  PROVE  low <= figure /\ figure <= high
  <1> DEFINE q == wei \div unit
             r == wei % unit
             a == low \div unit
             b == high \div unit
  <1>1. wei = unit * q + r /\ q \in Nat /\ r \in 0 .. unit - 1
    OBVIOUS
  <1>2. low = unit * a /\ a \in Nat
    OBVIOUS
  <1>3. high = unit * b /\ b \in Nat
    OBVIOUS
  <1>4. figure = unit * q \/ figure = unit * q + unit
    BY <1>1
  <1> HIDE DEF q, r, a, b
  <1>5. a <= q
    <2>1. ASSUME a >= q + 1 PROVE FALSE
      <3>1. unit * a >= unit * (q + 1)
        BY <1>1, <1>2, <2>1
      <3>2. unit * (q + 1) = unit * q + unit
        BY <1>1
      <3>3. unit * q \in Nat /\ unit * a \in Nat
        BY <1>1, <1>2
      <3> QED
        BY <1>1, <1>2, <3>1, <3>2, <3>3
    <2> QED
      BY <1>1, <1>2, <2>1
  <1>6. low <= unit * q /\ unit * q \in Nat
    BY <1>1, <1>2, <1>5
  <1>7. unit * q <= high
    BY <1>1, <1>6
  <1>8. CASE figure = unit * q
    BY <1>6, <1>7, <1>8
  <1>9. CASE figure = unit * q + unit
    <2>1. r > 0
      BY <1>1, <1>6, <1>9
    <2>2. ASSUME b <= q PROVE FALSE
      <3>1. unit * b <= unit * q /\ unit * b \in Nat
        BY <1>1, <1>3, <2>2
      <3> QED
        BY <1>1, <1>3, <1>6, <2>1, <3>1
    <2>3. b >= q + 1
      BY <1>1, <1>3, <2>2
    <2>4. unit * b >= unit * (q + 1)
      BY <1>1, <1>3, <2>3
    <2>5. unit * (q + 1) = unit * q + unit
      BY <1>1
    <2>6. unit * b \in Nat
      BY <1>3
    <2> QED
      BY <1>3, <1>6, <1>9, <2>4, <2>5, <2>6
  <1> QED
    BY <1>4, <1>8, <1>9

(* A suggestion within what was paid is shown as a figure within it. *)
LEMMA ShownIsTaken ==
  ASSUME NEW i, NEW price \in Nat, token_paid[i] \in Nat, price <= token_paid[i],
         Micro <= price, token_paid[i] % DisplayUnit(token_paid[i]) = 0,
         NEW figure \in formatEthShort(price)
  PROVE  FormTakes(i, figure)
  <1> DEFINE unit == DisplayUnit(price)
  <1>1. price \in Nat \ {0} /\ Micro \in Nat \ {0}
    BY DisplayAssumption
  <1>2. unit \in Nat \ {0} /\ token_paid[i] % unit = 0 /\ Micro % unit = 0
    BY <1>1, UnitsNest
  <1>3. /\ figure \in {price - (price % unit), price - (price % unit) + unit}
        /\ 2 * (figure - price) <= unit
    BY DEF formatEthShort
  <1> HIDE DEF unit
  <1>4. Micro <= figure /\ figure <= token_paid[i]
    BY <1>1, <1>2, <1>3, RoundingStaysBetween
  <1>5. figure \in Int
    BY <1>1, <1>2, <1>3
  <1> QED
    BY <1>1, <1>4, <1>5 DEF FormTakes

-----------------------------------------------------------------------------
(* What the pages work out for themselves holds on the chain: a ticking price is the one
   charged, and what is suggested from the history of both contracts is accepted. *)
THEOREM PagesReckonRight == WebSpec => []PricesHold
  <1>1. ReadInv => SuggestionAccepted
    <2> SUFFICES ASSUME ReadInv, NEW i \in 0 .. next_token_id - 1,
                        suggestPrice(i, planSignal(History, token_plans[i])) # None
                 PROVE  LET price == suggestPrice(i, planSignal(History, token_plans[i]))
                        IN  /\ price * plan_durations[token_plans[i]]
                                 <= token_paid[i] * remaining_seconds(i)
                            /\ Micro <= price /\ token_paid[i] % DisplayUnit(token_paid[i]) = 0
                                 => \A figure \in formatEthShort(price) : FormTakes(i, figure)
      BY DEF SuggestionAccepted
    <2> DEFINE signal == planSignal(History, token_plans[i])
    <2>1. ContractInv /\ LogsInv
      BY DEF ReadInv
    <2>2. signal.medianCut = None \/ signal.medianCut \in 0 .. 99
      BY <2>1, CutIsPartial
    <2> HIDE DEF signal
    <2>3. signal.medianCut \in Int /\ signal.medianCut <= 99
      BY <2>2 DEF None
    <2>4. suggestPrice(i, signal) # None
      BY DEF signal
    <2> DEFINE price == suggestPrice(i, signal)
    <2>5. /\ price \in Int /\ token_paid[i] \in Nat /\ price <= token_paid[i]
          /\ price * plan_durations[token_plans[i]] <= token_paid[i] * remaining_seconds(i)
      BY <2>1, <2>3, <2>4, SuggestionInBounds
    <2> HIDE DEF price
    <2>6. ASSUME Micro <= price, token_paid[i] % DisplayUnit(token_paid[i]) = 0,
                 NEW figure \in formatEthShort(price)
          PROVE  FormTakes(i, figure)
      BY <2>5, <2>6, ShownIsTaken, DisplayAssumption
    <2> QED
      BY <2>5, <2>6 DEF signal, price
  <1>2. LivePriceIsCharged /\ SuggestionAccepted => PricesHold
    BY DEF PricesHold
  <1> QED
    BY <1>1, <1>2, ReadHolds, TickingPriceIsCharged, PTL

-----------------------------------------------------------------------------
(* The rows of the popup, sorted.                                          *)

Row == [id : Nat, expiry : Nat, listed : Nat]

(* The passes found, each in the order of its id. *)
ById(mine) ==
  /\ mine \in Seq(Row)
  /\ \A j, k \in 1 .. Len(mine) : j < k => mine[j].id < mine[k].id

(* Sorting by expiry loses no row and makes none up. *)
LEMMA SortedRows ==
  ASSUME NEW mine, ById(mine)
  PROVE  /\ SoonestToExpire(mine) \in Seq(Row)
         /\ Len(SoonestToExpire(mine)) = Len(mine)
         /\ \A k \in 1 .. Len(mine) :
              /\ \E j \in 1 .. Len(mine) : SoonestToExpire(mine)[k] = mine[j]
              /\ \E j \in 1 .. Len(mine) : SoonestToExpire(mine)[j] = mine[k]
  <1> DEFINE n == Len(mine)
             rows == { mine[k] : k \in 1 .. n }
             R == { pair \in rows \X rows : Sooner(pair[1], pair[2]) }
             s == SoonestToExpire(mine)
  <1>1. /\ n \in Nat /\ DOMAIN mine = 1 .. n
        /\ \A k \in 1 .. n : mine[k] \in Row
        /\ \A j, k \in 1 .. n : j < k => mine[j].id < mine[k].id
    BY LenProperties, ElementOfSeq DEF ById
  <1>2. s = Ranked(rows, R)
    BY <1>1 DEF SoonestToExpire
  <1> HIDE DEF s, n
  <1>3. IsFiniteSet(rows) /\ Cardinality(rows) = n
    <2> DEFINE f == [k \in 1 .. n |-> mine[k]]
    <2>1. \A j, k \in 1 .. n : j # k => mine[j] # mine[k]
      BY <1>1 DEF Row
    <2>2. f \in Bijection(1 .. n, rows)
      BY <2>1 DEF Bijection, Injection, Surjection, IsInjective
    <2>3. ExistsBijection(1 .. n, rows)
      BY <2>2 DEF ExistsBijection
    <2> QED
      BY <1>1, <2>3, FS_NatBijection, FS_CountingElements
  <1>4. rows \subseteq Row
    BY <1>1
  <1>5. \A q, r \in rows : q # r => Sooner(q, r) \/ Sooner(r, q)
    <2> SUFFICES ASSUME NEW j \in 1 .. n, NEW k \in 1 .. n, mine[j] # mine[k]
                 PROVE  Sooner(mine[j], mine[k]) \/ Sooner(mine[k], mine[j])
      OBVIOUS
    <2>1. mine[j].id # mine[k].id
      BY <1>1 DEF Row
    <2>2. /\ mine[j].id \in Nat /\ mine[k].id \in Nat
          /\ mine[j].expiry \in Nat /\ mine[k].expiry \in Nat
      BY <1>1 DEF Row
    <2> QED
      BY <2>1, <2>2 DEF Sooner
  <1>6. \A q, r \in rows : <<q, r>> \in R <=> Sooner(q, r)
    OBVIOUS
  <1>7. \A p, q, r \in rows : Sooner(p, q) /\ Sooner(q, r) => Sooner(p, r)
    BY <1>4 DEF Sooner, Row
  <1>8. \A r \in rows : ~Sooner(r, r)
    BY <1>4 DEF Sooner, Row
  <1> HIDE DEF R
  <1>9. Orders(R, rows)
    <2> HIDE DEF rows
    <2> QED
      BY <1>5, <1>6, <1>7, <1>8 DEF Orders
  <1>10. /\ s \in Seq(rows) /\ Len(s) = n
         /\ \A r \in rows : \E k \in 1 .. n : s[k] = r
         /\ \A k \in 1 .. n : s[k] \in rows
    <2> HIDE DEF rows
    <2>1. \A k \in 1 .. n : s[k] \in rows
      BY <1>2, <1>3, <1>9, RankedInOrder
    <2> QED
      BY <1>2, <1>3, <1>9, <2>1, RankedInOrder
  <1>11. s \in Seq(Row)
    BY <1>4, <1>10, SeqMonotonic
  <1> QED
    BY <1>10, <1>11 DEF rows, s, n

-----------------------------------------------------------------------------
(* The popup's loads.                                                      *)

Parts == {"total", "owner", "expiry", "price"}

Load == [address : Addr, main : BOOLEAN, part : Parts, total : Nat, i : Nat, expiry : Nat,
         mine : Seq(Row), kept : SUBSET Tokens, ever : SUBSET Tokens]

(* What a load has found of the passes kept all along: those it has been past. *)
FoundSoFar(kept, ever, i, mine, ends) ==
  /\ ById(mine)
  /\ \A k \in 1 .. Len(mine) : mine[k].id \in ever /\ mine[k].id < i
  /\ \A j \in kept : j < i =>
       \E k \in 1 .. Len(mine) : mine[k].id = j /\ mine[k].expiry = ends[j]

(* Where a load stands. *)
OnItsWay(part, total, i, expiry, kept, ever, ends, next) ==
  /\ part = "total" => i = 0
  /\ part # "total" => i < total /\ total <= next /\ \A j \in kept : j < total
  /\ part \in {"expiry", "price"} => i \in ever
  /\ part = "price" /\ i \in kept => expiry = ends[i]

(* Whose passes it keeps count of. *)
Watched(a, kept, ever, own) ==
  /\ \A j \in kept : own[j] = a
  /\ \A j \in Tokens : own[j] = a => j \in ever

LoadFits(l, own, ends, next) ==
  /\ l \in Load
  /\ Watched(l.address, l.kept, l.ever, own)
  /\ OnItsWay(l.part, l.total, l.i, l.expiry, l.kept, l.ever, ends, next)
  /\ FoundSoFar(l.kept, l.ever, l.i, l.mine, ends)

PopupInv ==
  /\ address \in Holders
  /\ list \in Seq(Row)
  /\ \A n \in DOMAIN loads : LoadFits(loads[n], owners, expiries, next_token_id)

(* Its fields. *)
LEMMA LoadFields ==
  ASSUME NEW l \in Load
  PROVE  /\ l.address \in Addr /\ l.part \in Parts /\ l.total \in Nat /\ l.i \in Nat
         /\ l.expiry \in Nat /\ l.mine \in Seq(Row)
         /\ l.kept \in SUBSET Tokens /\ l.ever \in SUBSET Tokens
  BY DEF Load

LEMMA PartSet ==
  ASSUME NEW l \in Load, NEW part \in Parts
  PROVE  LET m == [l EXCEPT !.part = part]
         IN  /\ m \in Load /\ m.address = l.address /\ m.part = part /\ m.total = l.total
             /\ m.i = l.i /\ m.expiry = l.expiry /\ m.mine = l.mine
             /\ m.kept = l.kept /\ m.ever = l.ever
  BY DEF Load

LEMMA TotalSet ==
  ASSUME NEW l \in Load, NEW total \in Nat
  PROVE  LET m == [l EXCEPT !.total = total]
         IN  /\ m \in Load /\ m.address = l.address /\ m.part = l.part /\ m.total = total
             /\ m.i = l.i /\ m.expiry = l.expiry /\ m.mine = l.mine
             /\ m.kept = l.kept /\ m.ever = l.ever
  BY DEF Load

LEMMA ExpirySet ==
  ASSUME NEW l \in Load, NEW expiry \in Nat
  PROVE  LET m == [l EXCEPT !.expiry = expiry]
         IN  /\ m \in Load /\ m.address = l.address /\ m.part = l.part /\ m.total = l.total
             /\ m.i = l.i /\ m.expiry = expiry /\ m.mine = l.mine
             /\ m.kept = l.kept /\ m.ever = l.ever
  BY DEF Load

LEMMA IndexSet ==
  ASSUME NEW l \in Load, NEW i \in Nat
  PROVE  LET m == [l EXCEPT !.i = i]
         IN  /\ m \in Load /\ m.address = l.address /\ m.part = l.part /\ m.total = l.total
             /\ m.i = i /\ m.expiry = l.expiry /\ m.mine = l.mine
             /\ m.kept = l.kept /\ m.ever = l.ever
  BY DEF Load

LEMMA MineSet ==
  ASSUME NEW l \in Load, NEW mine \in Seq(Row)
  PROVE  LET m == [l EXCEPT !.mine = mine]
         IN  /\ m \in Load /\ m.address = l.address /\ m.part = l.part /\ m.total = l.total
             /\ m.i = l.i /\ m.expiry = l.expiry /\ m.mine = mine
             /\ m.kept = l.kept /\ m.ever = l.ever
  BY DEF Load

LEMMA CountSet ==
  ASSUME NEW l \in Load, NEW owned \in SUBSET Tokens
  PROVE  LET m == [l EXCEPT !.kept = @ \cap owned, !.ever = @ \cup owned]
         IN  /\ m \in Load /\ m.address = l.address /\ m.part = l.part /\ m.total = l.total
             /\ m.i = l.i /\ m.expiry = l.expiry /\ m.mine = l.mine
             /\ m.kept = l.kept \cap owned /\ m.ever = l.ever \cup owned
  <1> DEFINE K == l.kept \cap owned
             E == l.ever \cup owned
             m1 == [l EXCEPT !.kept = K]
             m == [m1 EXCEPT !.ever = E]
  <1>1. K \in SUBSET Tokens /\ E \in SUBSET Tokens
    BY LoadFields
  <1> HIDE DEF K, E
  <1>2. /\ m1 \in Load /\ m1.address = l.address /\ m1.part = l.part /\ m1.total = l.total
        /\ m1.i = l.i /\ m1.expiry = l.expiry /\ m1.mine = l.mine
        /\ m1.kept = K /\ m1.ever = l.ever
    BY <1>1 DEF Load
  <1>3. [l EXCEPT !.kept = @ \cap owned, !.ever = @ \cup owned] = m
    BY <1>2 DEF K, E
  <1> HIDE DEF m1
  <1>4. /\ m \in Load /\ m.address = l.address /\ m.part = l.part /\ m.total = l.total
        /\ m.i = l.i /\ m.expiry = l.expiry /\ m.mine = l.mine
        /\ m.kept = K /\ m.ever = E
    BY <1>1, <1>2 DEF Load
  <1> QED
    BY <1>3, <1>4 DEF K, E

(* A pass of somebody has been issued. *)
LEMMA OwnedIsIssued ==
  ASSUME ContractInv, NEW i \in Tokens, owners[i] # ZERO
  PROVE  i \in 0 .. next_token_id - 1
  <1>1. i \in Nat /\ next_token_id \in Nat
    BY ConstantFacts DEF ContractInv, MarketInv, CoreInv, TypeOK
  <1> QED
    BY <1>1 DEF ContractInv, FreshIdsUnowned

(* A load that begins. *)
LEMMA NewLoadFits ==
  ASSUME NEW a \in Addr, NEW m \in BOOLEAN
  PROVE  LoadFits(NewLoad(a, m), owners, expiries, next_token_id)
  <1> DEFINE l == NewLoad(a, m)
             O == OwnedBy(a)
  <1>1. O \in SUBSET Tokens /\ \A j \in Tokens : j \in O <=> owners[j] = a
    BY DEF OwnedBy
  <1>2. << >> \in Seq(Row) /\ Len(<< >>) = 0
    BY EmptySeq
  <1> HIDE DEF O
  <1>3. /\ l.address = a /\ l.part = "total" /\ l.i = 0 /\ l.mine = << >>
        /\ l.kept = O /\ l.ever = O /\ l.expiry = 0 /\ l.total = 0
    BY DEF NewLoad, O
  <1>4. l \in Load
    BY <1>1, <1>2 DEF NewLoad, Load, Parts, O
  <1> HIDE DEF l
  <1>5. ById(<< >>)
    BY <1>2 DEF ById
  <1>6. \A j \in O : ~(j < 0)
    BY <1>1, ConstantFacts
  <1> QED
    BY <1>1, <1>2, <1>3, <1>4, <1>5, <1>6 DEF LoadFits, Watched, OnItsWay, FoundSoFar, l

-----------------------------------------------------------------------------
(* What an answer makes of a load.                                         *)

(* Rows that are worth showing for a load. *)
RowsFit(l, rows) ==
  /\ rows \in Seq(Row)
  /\ \A j \in l.kept :
       \E k \in 1 .. Len(rows) : rows[k].id = j /\ rows[k].expiry = expiries[j]
  /\ \A k \in 1 .. Len(rows) : rows[k].id \in l.ever

(* It goes on, or it ends with its rows. *)
GoesOn(n) ==
  \E l : LoadFits(l, owners, expiries, next_token_id) /\ Goes(n, l)

EndsWell(n) ==
  \E line, rows : RowsFit(loads[n], rows) /\ End(n, line, rows)

LEMMA PastThePass ==
  ASSUME ContractInv, NEW n \in DOMAIN loads, NEW mine,
         LoadFits(loads[n], owners, expiries, next_token_id),
         loads[n].part # "total",
         FoundSoFar(loads[n].kept, loads[n].ever, loads[n].i + 1, mine, expiries),
         NextPass(n, mine)
  PROVE  GoesOn(n) \/ EndsWell(n)
  <1> DEFINE l == loads[n]
  <1>1. /\ l \in Load /\ l.i \in Nat /\ l.total \in Nat /\ l.i < l.total
        /\ l.total <= next_token_id
        /\ l.kept \in SUBSET Tokens /\ \A j \in l.kept : j < l.total
        /\ mine \in Seq(Row) /\ ById(mine)
    BY LoadFields DEF LoadFits, OnItsWay, FoundSoFar, ById
  <1>2. CASE l.i + 1 < l.total /\ Goes(n, [l EXCEPT !.i = l.i + 1, !.part = "owner", !.mine = mine])
    <2> DEFINE next == l.i + 1
               l1 == [l EXCEPT !.i = next]
               l2 == [l1 EXCEPT !.part = "owner"]
               l3 == [l2 EXCEPT !.mine = mine]
    <2>1. next \in Nat /\ "owner" \in Parts
      BY <1>1 DEF Parts
    <2>2. [l EXCEPT !.i = l.i + 1, !.part = "owner", !.mine = mine] = l3
      BY <1>1 DEF Load
    <2> HIDE DEF l, next
    <2>3. /\ l1 \in Load /\ l1.address = l.address /\ l1.total = l.total /\ l1.i = next
          /\ l1.kept = l.kept /\ l1.ever = l.ever
      BY <1>1, <2>1, IndexSet
    <2> HIDE DEF l1
    <2>4. /\ l2 \in Load /\ l2.address = l.address /\ l2.total = l.total /\ l2.i = next
          /\ l2.kept = l.kept /\ l2.ever = l.ever /\ l2.part = "owner"
      BY <2>1, <2>3, PartSet
    <2> HIDE DEF l2
    <2>5. /\ l3 \in Load /\ l3.address = l.address /\ l3.total = l.total /\ l3.i = next
          /\ l3.kept = l.kept /\ l3.ever = l.ever /\ l3.part = "owner" /\ l3.mine = mine
      BY <1>1, <2>4, MineSet
    <2> HIDE DEF l3
    <2>6. LoadFits(l3, owners, expiries, next_token_id)
      BY <1>1, <1>2, <2>5 DEF LoadFits, OnItsWay, l, next
    <2> QED
      BY <1>2, <2>2, <2>6 DEF GoesOn, l
  <1>3. CASE /\ l.i + 1 = l.total /\ mine = << >>
             /\ End(n, Text("owns none"), << >>)
    <2>1. Len(mine) = 0
      BY <1>3
    <2>2. ASSUME NEW j \in l.kept PROVE FALSE
      <3>1. j < l.i + 1
        BY <1>1, <1>3
      <3>2. \E k \in 1 .. Len(mine) : mine[k].id = j
        BY <3>1 DEF FoundSoFar
      <3> QED
        BY <2>1, <3>2
    <2>3. << >> \in Seq(Row) /\ Len(<< >>) = 0
      BY EmptySeq
    <2>4. RowsFit(l, << >>)
      BY <2>2, <2>3 DEF RowsFit
    <2> QED
      BY <1>3, <2>4 DEF EndsWell
  <1>4. CASE /\ l.i + 1 = l.total
             /\ End(n, [text |-> "passes", count |-> Len(mine)], SoonestToExpire(mine))
    <2> DEFINE rows == SoonestToExpire(mine)
    <2>1. /\ rows \in Seq(Row) /\ Len(rows) = Len(mine)
          /\ \A k \in 1 .. Len(mine) : /\ \E j \in 1 .. Len(mine) : rows[k] = mine[j]
                                       /\ \E j \in 1 .. Len(mine) : rows[j] = mine[k]
      BY <1>1, SortedRows
    <2> HIDE DEF rows
    <2>2. ASSUME NEW j \in l.kept
          PROVE  \E k \in 1 .. Len(rows) : rows[k].id = j /\ rows[k].expiry = expiries[j]
      <3>1. j < l.i + 1
        BY <1>1, <1>4
      <3>2. PICK k \in 1 .. Len(mine) : mine[k].id = j /\ mine[k].expiry = expiries[j]
        BY <3>1 DEF FoundSoFar
      <3>3. PICK m \in 1 .. Len(mine) : rows[m] = mine[k]
        BY <2>1
      <3>4. m \in 1 .. Len(rows) /\ rows[m].id = j /\ rows[m].expiry = expiries[j]
        BY <2>1, <3>2, <3>3
      <3> QED
        BY <3>4
    <2>3. ASSUME NEW k \in 1 .. Len(rows) PROVE rows[k].id \in l.ever
      <3>1. PICK j \in 1 .. Len(mine) : rows[k] = mine[j]
        BY <2>1
      <3> QED
        BY <3>1 DEF FoundSoFar
    <2>4. RowsFit(l, rows)
      BY <2>1, <2>2, <2>3 DEF RowsFit
    <2> QED
      BY <1>4, <2>4 DEF EndsWell, rows
  <1> QED
    BY <1>2, <1>3, <1>4 DEF NextPass

LEMMA AnswerOutcome ==
  ASSUME ContractInv, NEW n \in DOMAIN loads,
         LoadFits(loads[n], owners, expiries, next_token_id),
         ReadTotal(n) \/ ReadOwner(n) \/ ReadExpiry(n) \/ ReadPrice(n)
  PROVE  GoesOn(n) \/ EndsWell(n)
  <1> DEFINE l == loads[n]
  <1>1. /\ l \in Load /\ l.i \in Nat /\ l.total \in Nat /\ l.expiry \in Nat
        /\ l.kept \in SUBSET Tokens /\ l.ever \in SUBSET Tokens /\ l.address \in Addr
        /\ l.mine \in Seq(Row)
    BY LoadFields DEF LoadFits
  <1>2. /\ Watched(l.address, l.kept, l.ever, owners)
        /\ OnItsWay(l.part, l.total, l.i, l.expiry, l.kept, l.ever, expiries, next_token_id)
        /\ FoundSoFar(l.kept, l.ever, l.i, l.mine, expiries)
    BY DEF LoadFits
  <1>3. /\ next_token_id \in Nat /\ next_token_id <= MaxTokens /\ MaxTokens \in Nat
        /\ Tokens = 0 .. MaxTokens - 1
        /\ \A j \in Tokens : expiries[j] \in Nat
        /\ ZERO \notin Addr
    BY ConstantFacts DEF ContractInv, MarketInv, CoreInv, TypeOK, Tokens
  <1>4. CASE ReadTotal(n)
    <2>1. \A j \in l.kept : j \in 0 .. next_token_id - 1
      BY <1>1, <1>2, <1>3, OwnedIsIssued DEF Watched
    <2>2. CASE next_token_id = 0 /\ End(n, Text("none issued"), << >>)
      <3>1. << >> \in Seq(Row) /\ Len(<< >>) = 0
        BY EmptySeq
      <3>2. ASSUME NEW j \in l.kept PROVE FALSE
        <4>1. j \in 0 .. next_token_id - 1
          BY <2>1
        <4>2. next_token_id = 0
          BY <2>2
        <4> QED
          BY <4>1, <4>2
      <3>3. RowsFit(l, << >>)
        BY <3>1, <3>2 DEF RowsFit
      <3> QED
        BY <2>2, <3>3 DEF EndsWell
    <2>3. CASE /\ next_token_id > 0
               /\ Goes(n, [l EXCEPT !.total = next_token_id, !.part = "owner"])
      <3> DEFINE l1 == [l EXCEPT !.total = next_token_id]
                 l2 == [l1 EXCEPT !.part = "owner"]
      <3>1. [l EXCEPT !.total = next_token_id, !.part = "owner"] = l2 /\ "owner" \in Parts
        BY <1>1 DEF Load, Parts
      <3>2. l.i = 0
        BY <1>2, <1>4 DEF ReadTotal, OnItsWay
      <3> HIDE DEF l
      <3>3. /\ l1 \in Load /\ l1.address = l.address /\ l1.total = next_token_id /\ l1.i = l.i
            /\ l1.kept = l.kept /\ l1.ever = l.ever /\ l1.mine = l.mine
        BY <1>1, <1>3, TotalSet
      <3> HIDE DEF l1
      <3>4. /\ l2 \in Load /\ l2.address = l.address /\ l2.total = next_token_id
            /\ l2.i = l.i /\ l2.kept = l.kept /\ l2.ever = l.ever /\ l2.mine = l.mine
            /\ l2.part = "owner"
        BY <3>1, <3>3, PartSet
      <3> HIDE DEF l2
      <3>5. \A j \in l.kept : j < next_token_id
        BY <1>3, <2>1
      <3>6. LoadFits(l2, owners, expiries, next_token_id)
        BY <1>2, <1>3, <2>3, <3>2, <3>4, <3>5 DEF LoadFits, OnItsWay
      <3> QED
        BY <2>3, <3>1, <3>6 DEF GoesOn, l
    <2> QED
      BY <1>4, <2>2, <2>3 DEF ReadTotal
  <1>5. CASE ReadOwner(n)
    <2>1. l.part = "owner"
      BY <1>5 DEF ReadOwner
    <2>2. l.i < l.total /\ l.total <= next_token_id /\ l.i \in Tokens
      BY <1>1, <1>2, <1>3, <2>1 DEF OnItsWay
    <2>3. CASE owners[l.i] = l.address /\ Goes(n, [l EXCEPT !.part = "expiry"])
      <3> DEFINE l1 == [l EXCEPT !.part = "expiry"]
      <3>1. l.i \in l.ever
        BY <1>2, <2>2, <2>3 DEF Watched
      <3>2. "expiry" \in Parts
        BY DEF Parts
      <3> HIDE DEF l
      <3>3. /\ l1 \in Load /\ l1.address = l.address /\ l1.total = l.total /\ l1.i = l.i
            /\ l1.kept = l.kept /\ l1.ever = l.ever /\ l1.mine = l.mine /\ l1.part = "expiry"
        BY <1>1, <3>2, PartSet
      <3> HIDE DEF l1
      <3>4. LoadFits(l1, owners, expiries, next_token_id)
        BY <1>2, <2>1, <2>2, <3>1, <3>3 DEF LoadFits, OnItsWay
      <3> QED
        BY <2>3, <3>4 DEF GoesOn, l, l1
    <2>4. CASE owners[l.i] # l.address /\ NextPass(n, l.mine)
      <3>1. l.i \notin l.kept
        BY <1>2, <2>4 DEF Watched
      <3>2. FoundSoFar(l.kept, l.ever, l.i + 1, l.mine, expiries)
        <4>1. \A k \in 1 .. Len(l.mine) : l.mine[k].id \in l.ever /\ l.mine[k].id < l.i + 1
          BY <1>1, <1>2, <1>3 DEF FoundSoFar
        <4>2. \A j \in l.kept : j < l.i + 1 => j < l.i
          BY <1>1, <1>3, <3>1
        <4> HIDE DEF l
        <4> QED
          BY <1>2, <4>1, <4>2 DEF FoundSoFar
      <3> QED
        BY <2>1, <2>4, <3>2, PastThePass
    <2> QED
      BY <1>5, <2>3, <2>4 DEF ReadOwner
  <1>6. CASE ReadExpiry(n)
    <2> DEFINE e == expiries[l.i]
               l1 == [l EXCEPT !.expiry = e]
               l2 == [l1 EXCEPT !.part = "price"]
    <2>1. l.part = "expiry" /\ Goes(n, [l EXCEPT !.expiry = e, !.part = "price"])
      BY <1>6 DEF ReadExpiry
    <2>2. /\ l.i < l.total /\ l.total <= next_token_id /\ l.i \in l.ever
          /\ \A j \in l.kept : j < l.total
      BY <1>2, <2>1 DEF OnItsWay
    <2>3. e \in Nat /\ "price" \in Parts
      BY <1>1, <1>3, <2>2 DEF Parts
    <2> HIDE DEF e
    <2>4. [l EXCEPT !.expiry = e, !.part = "price"] = l2
      BY <1>1 DEF Load
    <2> HIDE DEF l
    <2>5. /\ l1 \in Load /\ l1.address = l.address /\ l1.total = l.total /\ l1.i = l.i
          /\ l1.kept = l.kept /\ l1.ever = l.ever /\ l1.mine = l.mine /\ l1.expiry = e
      BY <1>1, <2>3, ExpirySet
    <2> HIDE DEF l1
    <2>6. /\ l2 \in Load /\ l2.address = l.address /\ l2.total = l.total /\ l2.i = l.i
          /\ l2.kept = l.kept /\ l2.ever = l.ever /\ l2.mine = l.mine /\ l2.expiry = e
          /\ l2.part = "price"
      BY <2>3, <2>5, PartSet
    <2> HIDE DEF l2
    <2>7. LoadFits(l2, owners, expiries, next_token_id)
      BY <1>2, <2>2, <2>6 DEF LoadFits, OnItsWay, e
    <2> QED
      BY <2>1, <2>4, <2>7 DEF GoesOn, l
  <1>7. CASE ReadPrice(n)
    <2> DEFINE price == currentPrice(l.i)
               row == [id |-> l.i, expiry |-> l.expiry, listed |-> price]
               next == Append(l.mine, row)
    <2>1. l.part = "price" /\ NextPass(n, next)
      BY <1>7 DEF ReadPrice
    <2>2. /\ l.i < l.total /\ l.total <= next_token_id /\ l.i \in l.ever
          /\ l.i \in l.kept => l.expiry = expiries[l.i]
      BY <1>2, <2>1 DEF OnItsWay
    <2>3. price \in Nat
      BY <1>1, <2>2, PriceFacts DEF ContractInv
    <2> HIDE DEF price
    <2>4. row \in Row /\ row.id = l.i /\ row.expiry = l.expiry
      BY <1>1, <2>3 DEF Row
    <2> HIDE DEF row
    <2>5. /\ next \in Seq(Row) /\ Len(next) = Len(l.mine) + 1 /\ Len(l.mine) \in Nat
          /\ \A k \in 1 .. Len(next) : next[k] = IF k = Len(next) THEN row ELSE l.mine[k]
      BY <1>1, <2>4, AppendProperties, LenProperties
    <2> HIDE DEF next
    <2>6. /\ \A k \in 1 .. Len(l.mine) : l.mine[k].id \in l.ever /\ l.mine[k].id < l.i
          /\ \A j, k \in 1 .. Len(l.mine) : j < k => l.mine[j].id < l.mine[k].id
      BY <1>2 DEF FoundSoFar, ById
    <2>7. ById(next)
      <3> SUFFICES ASSUME NEW j \in 1 .. Len(next), NEW k \in 1 .. Len(next), j < k
                   PROVE  next[j].id < next[k].id
        BY <2>5 DEF ById
      <3>1. j \in 1 .. Len(l.mine) /\ next[j] = l.mine[j]
        BY <2>5
      <3>2. CASE k = Len(next)
        BY <2>4, <2>5, <2>6, <3>1, <3>2
      <3>3. CASE k # Len(next)
        <4>1. k \in 1 .. Len(l.mine) /\ next[k] = l.mine[k]
          BY <2>5, <3>3
        <4> QED
          BY <2>6, <3>1, <4>1
      <3> QED
        BY <3>2, <3>3
    <2>8. ASSUME NEW k \in 1 .. Len(next) PROVE next[k].id \in l.ever /\ next[k].id < l.i + 1
      <3>1. CASE k = Len(next)
        BY <1>1, <2>2, <2>4, <2>5, <3>1
      <3>2. CASE k # Len(next)
        <4>1. k \in 1 .. Len(l.mine) /\ next[k] = l.mine[k]
          BY <2>5, <3>2
        <4>2. l.mine[k].id \in l.ever /\ l.mine[k].id < l.i /\ l.mine[k].id \in Nat
          BY <1>1, <1>3, <2>6, <4>1
        <4> QED
          BY <1>1, <4>1, <4>2
      <3> QED
        BY <3>1, <3>2
    <2>9. ASSUME NEW j \in l.kept, j < l.i + 1
          PROVE  \E k \in 1 .. Len(next) : next[k].id = j /\ next[k].expiry = expiries[j]
      <3>1. CASE j = l.i
        <4>1. next[Len(next)] = row /\ Len(next) \in 1 .. Len(next)
          BY <2>5
        <4> QED
          BY <2>2, <2>4, <3>1, <4>1
      <3>2. CASE j # l.i
        <4>1. j < l.i
          BY <1>1, <1>3, <2>9, <3>2
        <4>2. PICK k \in 1 .. Len(l.mine) : l.mine[k].id = j /\ l.mine[k].expiry = expiries[j]
          BY <1>2, <4>1 DEF FoundSoFar
        <4>3. k \in 1 .. Len(next) /\ next[k] = l.mine[k]
          BY <2>5
        <4> QED
          BY <4>2, <4>3
      <3> QED
        BY <3>1, <3>2
    <2> HIDE DEF l
    <2>10. FoundSoFar(l.kept, l.ever, l.i + 1, next, expiries)
      BY <2>7, <2>8, <2>9 DEF FoundSoFar
    <2> QED
      BY <2>1, <2>10, PastThePass DEF l
  <1> QED
    BY <1>4, <1>5, <1>6, <1>7

-----------------------------------------------------------------------------
(* What everybody else makes of it.                                        *)

LEMMA LoadWatches ==
  ASSUME ContractInv, ContractInv', [MarketNext]_vars, NEW l,
         LoadFits(l, owners, expiries, next_token_id)
  PROVE  LET owned == { i \in Tokens : owners'[i] = l.address }
         IN  LoadFits([l EXCEPT !.kept = @ \cap owned, !.ever = @ \cup owned],
                      owners', expiries', next_token_id')
  <1> DEFINE owned == { i \in Tokens : owners'[i] = l.address }
             m == [l EXCEPT !.kept = @ \cap owned, !.ever = @ \cup owned]
  <1>1. /\ l \in Load /\ l.address \in Addr /\ l.i \in Nat /\ l.total \in Nat
        /\ l.kept \in SUBSET Tokens /\ l.mine \in Seq(Row)
        /\ Watched(l.address, l.kept, l.ever, owners)
        /\ OnItsWay(l.part, l.total, l.i, l.expiry, l.kept, l.ever, expiries, next_token_id)
        /\ FoundSoFar(l.kept, l.ever, l.i, l.mine, expiries)
    BY LoadFields DEF LoadFits
  <1>2. owned \in SUBSET Tokens /\ \A j \in Tokens : j \in owned <=> owners'[j] = l.address
    OBVIOUS
  <1> HIDE DEF owned
  <1>3. /\ m \in Load /\ m.address = l.address /\ m.part = l.part /\ m.total = l.total
        /\ m.i = l.i /\ m.expiry = l.expiry /\ m.mine = l.mine
        /\ m.kept = l.kept \cap owned /\ m.ever = l.ever \cup owned
    BY <1>1, <1>2, CountSet
  <1> HIDE DEF m
  <1>4. ASSUME NEW j \in m.kept PROVE expiries'[j] = expiries[j]
    <2>1. j \in Tokens /\ owners[j] = l.address /\ owners'[j] = l.address /\ l.address # ZERO
      BY <1>1, <1>2, <1>3, ConstantFacts DEF Watched
    <2>2. j \in 0 .. next_token_id - 1
      BY <2>1, OwnedIsIssued
    <2> QED
      BY <2>1, <2>2, ExpiryKept DEF ContractInv
  <1>5. Watched(m.address, m.kept, m.ever, owners')
    BY <1>1, <1>2, <1>3 DEF Watched
  <1>6. /\ next_token_id \in Nat /\ next_token_id' \in Nat /\ next_token_id' >= next_token_id
    BY IdsGoOn, ConstantFacts DEF ContractInv, MarketInv, CoreInv, TypeOK
  <1>7. OnItsWay(m.part, m.total, m.i, m.expiry, m.kept, m.ever, expiries', next_token_id')
    BY <1>1, <1>3, <1>4, <1>6 DEF OnItsWay
  <1>8. FoundSoFar(m.kept, m.ever, m.i, m.mine, expiries')
    <2>1. ASSUME NEW j \in m.kept, j < m.i
          PROVE  \E k \in 1 .. Len(m.mine) : m.mine[k].id = j /\ m.mine[k].expiry = expiries'[j]
      BY <1>1, <1>3, <1>4, <2>1 DEF FoundSoFar
    <2>2. ById(m.mine) /\ \A k \in 1 .. Len(m.mine) : m.mine[k].id \in m.ever /\ m.mine[k].id < m.i
      BY <1>1, <1>3 DEF FoundSoFar
    <2> QED
      BY <2>1, <2>2 DEF FoundSoFar
  <1>9. LoadFits(m, owners', expiries', next_token_id')
    BY <1>3, <1>5, <1>7, <1>8 DEF LoadFits
  <1> QED
    BY <1>9 DEF m, owned

LEMMA PopupKept ==
  ASSUME ContractInv, ContractInv', [MarketNext]_vars, PopupInv, PopupNext
  PROVE  PopupInv'
  <1>0. << >> \in Seq(Row) /\ DOMAIN << >> = {}
    BY EmptySeq
  <1>1. CASE Elsewhere
    <2>1. \A n \in DOMAIN loads : LoadFits(loads[n], owners, expiries, next_token_id)
      BY DEF PopupInv
    <2>2. /\ DOMAIN loads' = DOMAIN loads
          /\ \A n \in DOMAIN loads :
               loads'[n] = LET owned == { i \in Tokens : owners'[i] = loads[n].address }
                           IN  [loads[n] EXCEPT !.kept = @ \cap owned, !.ever = @ \cup owned]
      BY <1>1 DEF Elsewhere
    <2>3. ASSUME NEW n \in DOMAIN loads
          PROVE  LoadFits(loads'[n], owners', expiries', next_token_id')
      <3>1. PICK l : l = loads[n]
        OBVIOUS
      <3>2. LoadFits(l, owners, expiries, next_token_id)
        BY <2>1, <3>1
      <3>3. loads'[n] = LET owned == { i \in Tokens : owners'[i] = l.address }
                        IN  [l EXCEPT !.kept = @ \cap owned, !.ever = @ \cup owned]
        BY <2>2, <3>1
      <3> QED
        BY <3>2, <3>3, LoadWatches
    <2>4. address' = address /\ list' = list
      BY <1>1 DEF Elsewhere, popupPage
    <2> QED
      BY <2>2, <2>3, <2>4 DEF PopupInv
  <1>2. ASSUME UNCHANGED vars PROVE UNCHANGED <<owners, expiries, next_token_id>>
    BY <1>2 DEF vars, coreVars, tokenVars
  <1>3. ASSUME NEW a \in Addr, NEW m \in BOOLEAN, loadFor(a, m), UNCHANGED vars,
               address' \in Holders
        PROVE  PopupInv'
    <2>1. \A n \in DOMAIN loads : LoadFits(loads[n], owners, expiries, next_token_id)
      BY DEF PopupInv
    <2>2. LoadFits(NewLoad(a, m), owners, expiries, next_token_id)
      BY NewLoadFits
    <2>3. \A n \in DOMAIN loads' :
            loads'[n] = NewLoad(a, m) \/ (n \in DOMAIN loads /\ loads'[n] = loads[n])
      BY <1>3 DEF loadFor
    <2>4. list' = << >>
      BY <1>3 DEF loadFor
    <2> QED
      BY <1>0, <1>2, <1>3, <2>1, <2>2, <2>3, <2>4 DEF PopupInv
  <1>4. CASE main
    <2>1. CASE address # ZERO /\ loadFor(address, TRUE)
      <3>1. address \in Addr /\ address' = address /\ UNCHANGED vars
        BY <1>4, <2>1 DEF main, PopupInv, Holders
      <3>2. PICK a \in Addr : a = address
        BY <3>1
      <3> QED
        BY <1>3, <2>1, <3>1, <3>2 DEF Holders
    <2>2. CASE list' = << >> /\ UNCHANGED <<loads, address, vars>>
      BY <1>0, <1>2, <2>2 DEF PopupInv
    <2> QED
      BY <1>4, <2>1, <2>2 DEF main
  <1>5. ASSUME NEW a \in Pasted, Go(a) PROVE PopupInv'
    BY <1>3, <1>5, PopupAssumption DEF Go, Holders
  <1>6. CASE GoRefused
    BY <1>2, <1>6 DEF GoRefused, PopupInv
  <1>7. CASE Close
    BY <1>0, <1>7 DEF Close, PopupInv
  <1>8. ASSUME NEW n \in DOMAIN loads, NEW line, NEW rows \in Seq(Row), End(n, line, rows),
               UNCHANGED vars
        PROVE  PopupInv'
    <2>1. \A k \in DOMAIN loads' : k \in DOMAIN loads /\ loads'[k] = loads[k]
      BY <1>8 DEF End, Ended
    <2>2. list' \in Seq(Row) /\ address' = address
      BY <1>8, ConcatProperties DEF End, PopupInv
    <2> QED
      BY <1>2, <1>8, <2>1, <2>2 DEF PopupInv
  <1>9. ASSUME NEW n, Answer(n) PROVE PopupInv'
    <2>1. n \in DOMAIN loads /\ UNCHANGED vars
      BY <1>9 DEF Answer
    <2>2. GoesOn(n) \/ EndsWell(n)
      BY <1>9, <2>1, AnswerOutcome DEF Answer, PopupInv
    <2>3. CASE EndsWell(n)
      BY <1>8, <2>1, <2>3 DEF EndsWell, RowsFit
    <2>4. CASE GoesOn(n)
      <3>1. PICK l : LoadFits(l, owners, expiries, next_token_id) /\ Goes(n, l)
        BY <2>4 DEF GoesOn
      <3>2. loads' = [loads EXCEPT ![n] = l] /\ address' = address /\ list' = list
        BY <3>1 DEF Goes, popupPage
      <3> QED
        BY <1>2, <2>1, <3>1, <3>2 DEF PopupInv
    <2> QED
      BY <2>2, <2>3, <2>4
  <1>10. ASSUME NEW n, Refuse(n) PROVE PopupInv'
    BY <1>0, <1>8, <1>10 DEF Refuse, ReadFails
  <1> QED
    BY <1>1, <1>4, <1>5, <1>6, <1>7, <1>9, <1>10 DEF PopupNext

-----------------------------------------------------------------------------
(* What is shown of a load that ends.                                      *)

LEMMA RowsShown ==
  ASSUME PopupInv, NEW n \in DOMAIN loads, NEW line, NEW rows,
         RowsFit(loads[n], rows), End(n, line, rows)
  PROVE  /\ \A i \in loads[n].kept :
              \E row \in Added : row.id = i /\ row.expiry = expiries[i]
         /\ \A row \in Added : row.id \in loads[n].ever
  <1>1. list \in Seq(Row) /\ rows \in Seq(Row) /\ list' = list \o rows
    BY DEF PopupInv, RowsFit, End
  <1>2. /\ Len(list) \in Nat /\ Len(rows) \in Nat
        /\ list' \in Seq(Row) /\ Len(list') = Len(list) + Len(rows)
        /\ \A k \in 1 .. Len(list) + Len(rows) :
             list'[k] = IF k <= Len(list) THEN list[k] ELSE rows[k - Len(list)]
    BY <1>1, ConcatProperties, LenProperties
  <1>3. DOMAIN list = 1 .. Len(list) /\ DOMAIN list' = 1 .. Len(list) + Len(rows)
    BY <1>1, <1>2, LenProperties
  <1>4. ASSUME NEW k \in 1 .. Len(rows) PROVE rows[k] \in Added
    <2> DEFINE m == Len(list) + k
    <2>1. m \in DOMAIN list' \ DOMAIN list /\ list'[m] = rows[k]
      BY <1>2, <1>3
    <2> QED
      BY <2>1 DEF Added
  <1>5. ASSUME NEW row \in Added PROVE \E k \in 1 .. Len(rows) : row = rows[k]
    <2>1. PICK m \in DOMAIN list' \ DOMAIN list : row = list'[m]
      BY <1>5 DEF Added
    <2>2. m - Len(list) \in 1 .. Len(rows) /\ row = rows[m - Len(list)]
      BY <1>2, <1>3, <2>1
    <2> QED
      BY <2>2
  <1> HIDE DEF Added
  <1> QED
    BY <1>4, <1>5 DEF RowsFit

LEMMA LoadsTell ==
  ASSUME ContractInv, PopupInv, PopupNext, NEW n \in DOMAIN loads \ DOMAIN loads',
         open', state' # Text("couldn't read")
  PROVE  /\ \A i \in loads[n].kept :
              \E row \in Added : row.id = i /\ row.expiry = expiries[i]
         /\ \A row \in Added : row.id \in loads[n].ever
  <1>1. \A m : Refuse(m) => state' = Text("couldn't read")
    BY DEF Refuse, ReadFails, End
  <1>2. ~Close
    BY DEF Close
  <1>3. ~Elsewhere /\ ~GoRefused /\ ~main /\ \A a : ~Go(a)
    BY DEF Elsewhere, GoRefused, main, Go, loadFor
  <1>4. PICK m : Answer(m)
    BY <1>1, <1>2, <1>3 DEF PopupNext
  <1>5. m \in DOMAIN loads
    BY <1>4 DEF Answer
  <1>6. GoesOn(m) \/ EndsWell(m)
    BY <1>4, <1>5, AnswerOutcome DEF Answer, PopupInv
  <1>7. ~GoesOn(m)
    BY DEF GoesOn, Goes
  <1>8. PICK line, rows : RowsFit(loads[m], rows) /\ End(m, line, rows)
    BY <1>6, <1>7 DEF EndsWell
  <1>9. n = m
    BY <1>8 DEF End, Ended
  <1> QED
    BY <1>5, <1>8, <1>9, RowsShown

(* PassesRead: a popup that reads the passes one by one, while they are sold, given away,
   cut, merged and issued, misses none that its address has kept and shows each with the
   expiry it has. *)
THEOREM PopupMissesNoPass == WebSpec => PassesRead
  <1> DEFINE OnShow == PopupInv /\ (lookedAt # "popup" => loads = << >>)
  <1>1. WebInit => OnShow
    <2> SUFFICES ASSUME WebInit PROVE OnShow
      OBVIOUS
    <2>1. loads = << >> /\ list = << >> /\ address \in Holders
      BY DEF WebInit, PopupInit, Holders
    <2>2. << >> \in Seq(Row) /\ DOMAIN << >> = {}
      BY EmptySeq
    <2> QED
      BY <2>1, <2>2 DEF PopupInv
  <1>2. ContractInv /\ ContractInv' /\ OnShow /\ [WebNext]_webVars => OnShow'
    <2> SUFFICES ASSUME ContractInv, ContractInv', OnShow, [WebNext]_webVars
                 PROVE  OnShow'
      OBVIOUS
    <2>1. [MarketNext]_vars
      BY WebOnChain
    <2>2. lookedAt' = lookedAt
      BY DEF WebNext, webVars
    <2>3. CASE lookedAt = "popup" /\ PopupNext
      BY <2>1, <2>2, <2>3, PopupKept
    <2>4. CASE lookedAt # "popup" /\ UNCHANGED popupOnly
      BY <2>2, <2>4 DEF popupOnly, popupPage, PopupInv
    <2>5. CASE UNCHANGED readerVars
      BY <2>2, <2>5 DEF readerVars, popupOnly, popupPage, PopupInv, vars, coreVars, tokenVars
    <2> QED
      BY <2>3, <2>4, <2>5 DEF WebNext, TabStep, ReaderStep, webVars
  <1>3. ContractInv /\ OnShow /\ [WebNext]_webVars
          => [\A n \in DOMAIN loads \ DOMAIN loads' :
                open' /\ state' # Text("couldn't read") =>
                  /\ \A i \in loads[n].kept :
                       \E row \in Added : row.id = i /\ row.expiry = expiries[i]
                  /\ \A row \in Added : row.id \in loads[n].ever]_popupVars
    <2> SUFFICES ASSUME ContractInv, OnShow, [WebNext]_webVars,
                        NEW n \in DOMAIN loads \ DOMAIN loads',
                        open', state' # Text("couldn't read")
                 PROVE  /\ \A i \in loads[n].kept :
                             \E row \in Added : row.id = i /\ row.expiry = expiries[i]
                        /\ \A row \in Added : row.id \in loads[n].ever
      OBVIOUS
    <2>1. loads' # loads
      OBVIOUS
    <2>2. PopupNext
      BY <2>1 DEF WebNext, TabStep, ReaderStep, webVars, readerVars, popupOnly
    <2> QED
      BY <2>2, LoadsTell
  <1> QED
    BY <1>1, <1>2, <1>3, ContractsStart, ContractsKept, PTL DEF WebSpec, PassesRead
=============================================================================
