---------------------------- MODULE ActivityFeed ----------------------------
(***************************************************************************)
(* What the web app makes of the chain's log, and of listings between two  *)
(* reads of them: the activity feed (web/lib/data.ts, fetchActivity) the   *)
(* explorer and the pass page show, the pricing signals drawn from such a  *)
(* history (web/lib/signals.ts), and the price that ticks on a card        *)
(* (web/components/LivePrice.tsx).                                         *)
(*                                                                         *)
(* A block is made every second, of any number of transactions; `now` is   *)
(* the one being made, and the newest that can be asked for is the one     *)
(* before.  The log is read in windows of blocks, each of which may fail.  *)
(***************************************************************************)
EXTENDS Marketplace, LivePrice, Ranking, Sequences

CONSTANTS
  CORE,          \* the address of the core
  DEPLOY_BLOCK,  \* where the log begins
  LOG_WINDOW,    \* blocks asked for at once: 9000 in the code
  Limit,         \* rows a page asks for: 200 in the explorer, 500 on a pass page
  MaxLogs,       \* bound on the log a transaction finds
  Milli, Micro,  \* a thousandth and a millionth of an ether
  Grain          \* of amounts below Milli: what their sixth digit stands for

ASSUME FeedAssumption ==
  /\ CORE # MARKET /\ DEPLOY_BLOCK = 1
  /\ LOG_WINDOW \in Nat \ {0} /\ Limit \in Nat \ {0} /\ MaxLogs \in Nat

(* Six digits of an amount below Milli, a wei at least: all of these are powers of ten. *)
ASSUME DisplayAssumption ==
  /\ Micro \in Nat \ {0} /\ Milli \in Nat /\ Micro <= Milli
  /\ Grain \in [1 .. Milli - 1 -> Nat \ {0}]
  /\ \A w \in 1 .. Milli - 1 : Micro % Grain[w] = 0
  /\ \A v, w \in 1 .. Milli - 1 : v <= w => Grain[w] % Grain[v] = 0

VARIABLES
  logs,   \* what the contracts have logged, oldest first
  head,   \* the newest block when the read under way began; 0 when there is none
  feed,   \* what the last read made of it
  cards   \* per pass, the listing as the market page last read it

readVars == <<head, feed, cards>>
feedVars == <<vars, logs, readVars>>

None == -1
Unread == [latest |-> 0, lost |-> {}, rows |-> << >>]
NoDecay == [openingWei |-> 0, listedAt |-> 0, expiry |-> 0]

-----------------------------------------------------------------------------
(* The transactions, and what they log.  A log names its transaction by the place of
   its first event. *)

Event(address, event, tokenId, who, price) ==
  [address |-> address, event |-> event, tokenId |-> tokenId, who |-> who,
   price |-> price]

Transferred(to, id) == Event(CORE, "PassTransferred", id, to, 0)

Logged(events, block, place) ==
  [k \in DOMAIN events |->
     [address |-> events[k].address, event |-> events[k].event,
      tokenId |-> events[k].tokenId, who |-> events[k].who,
      price |-> events[k].price, block |-> block, tx |-> place]]

Post(step, events) ==
  /\ Len(logs) < MaxLogs
  /\ step
  /\ logs' = logs \o Logged(events, now, Len(logs) + 1)
  /\ UNCHANGED readVars

OnCore(step) == step /\ UNCHANGED <<escrowVars, marketVars>>

(* The pass a split or a merge burns is not always mentioned: a merge logs that it went
   to nobody, a split logs nothing of it. *)
Transact(caller) ==
  \/ \E p \in Plans, v \in Prices :
       Post(OnCore(BuyPass(caller, p, v)),
            <<Event(CORE, "PassPurchased", next_token_id, caller, plan_prices[p]),
              Transferred(caller, next_token_id)>>)
  \/ \E id \in Tokens, n \in PartCounts :
       Post(OnCore(Split(caller, id, n)),
            [k \in 1 .. n |-> Transferred(caller, next_token_id + k - 1)])
  \/ \E ids \in IdLists :
       Post(OnCore(Bundle(caller, ids)),
            [k \in DOMAIN ids |-> Transferred(ZERO, ids[k])]
              \o <<Transferred(caller, next_token_id)>>)
  \/ \E to \in Recipients, id \in Tokens :
       Post(OnCore(TransferPass(caller, to, id)), <<Transferred(to, id)>>)
  \/ \E id \in Tokens, price \in AskPrices :
       Post(List(caller, id, price), <<Event(MARKET, "Listed", id, caller, price)>>)
  \/ \E id \in Tokens :
       Post(Unlist(caller, id), <<Event(MARKET, "Unlisted", id, caller, 0)>>)
  \/ \E id \in Tokens, v \in Values :
       Post(Buy(caller, id, v),
            <<Transferred(caller, id),
              Event(MARKET, "Bought", id, caller, currentPrice(id))>>)

-----------------------------------------------------------------------------
(* fetchActivity.                                                          *)

(* Mutant: gifts, slices and merged passes are left out. *)
NamesWithoutTransfers ==
  {"PassPurchased", "Listed", "Unlisted", "Bought", "PlanCreated", "Minted"}

ACTIVITY_EVENT_NAMES ==
  {"PassPurchased", "Listed", "Unlisted", "Bought", "PlanCreated", "Minted",
   "PassTransferred"}

liquidPassAbi ==
  {"PlanCreated", "PlanOpenSet", "PassPurchased", "Minted", "PassTransferred", "IssuerSet"}

ACTIVITY_EVENTS == ACTIVITY_EVENT_NAMES \cap liquidPassAbi

(* The core is asked, for the events of its own ABI; the answer is by place in the log. *)
getLogs(from, to) ==
  { k \in DOMAIN logs : /\ logs[k].address = CORE /\ logs[k].event \in ACTIVITY_EVENTS
                        /\ from <= logs[k].block /\ logs[k].block <= to }

windows(latest) == 1 .. ((latest - DEPLOY_BLOCK) \div LOG_WINDOW) + 1

windowStart(w) == DEPLOY_BLOCK + (w - 1) * LOG_WINDOW

(* Mutant: each window ends where the next one begins. *)
windowEndShared(w, latest) ==
  LET to == windowStart(w) + LOG_WINDOW IN IF to > latest THEN latest ELSE to

windowEnd(w, latest) ==
  LET to == windowStart(w) + LOG_WINDOW - 1 IN IF to > latest THEN latest ELSE to

(* What the windows were answered, each log with the window it came from; a window that
   cannot be read counts as empty. *)
Answered(latest, lost) ==
  UNION { {w} \X getLogs(windowStart(w), windowEnd(w, latest)) : w \in windows(latest) \ lost }

(* Array.prototype.sort on block numbers is stable: within a block, answers stand in the
   order of the windows, and a window's logs in the order of the log. *)
NewerBlock(p, q) ==
  \/ logs[p[2]].block > logs[q[2]].block
  \/ /\ logs[p[2]].block = logs[q[2]].block
     /\ p[1] < q[1] \/ (p[1] = q[1] /\ p[2] < q[2])

NewestFirst(answers) ==
  Ranked(answers, { pair \in answers \X answers : NewerBlock(pair[1], pair[2]) })

fetchActivity(latest, lost) ==
  LET decoded == NewestFirst(Answered(latest, lost))
      rows == IF Len(decoded) < Limit THEN Len(decoded) ELSE Limit
  IN  [n \in 1 .. rows |-> logs[decoded[n][2]]]

LoadFeed ==
  /\ head = 0 /\ now > DEPLOY_BLOCK
  /\ head' = now - 1
  /\ UNCHANGED <<vars, logs, feed, cards>>

FeedLands(lost) ==
  /\ head # 0 /\ lost \subseteq windows(head)
  /\ feed' = [latest |-> head, lost |-> lost, rows |-> fetchActivity(head, lost)]
  /\ head' = 0
  /\ UNCHANGED <<vars, logs, cards>>

(* The explorer's list, under the kind chosen above it. *)
filteredEvents(filterType) ==
  SelectSeq(feed.rows, LAMBDA e : filterType = "ALL" \/ e.event = filterType)

-----------------------------------------------------------------------------
(* Cards on the market page, with what a price needs to tick until the next read. *)

decayOf(i) ==
  IF listings[i].openingPrice > 0 /\ listings[i].listedAt > 0
  THEN [openingWei |-> listings[i].openingPrice, listedAt |-> listings[i].listedAt,
        expiry |-> expiries[i]]
  ELSE NoDecay

LoadCards ==
  /\ cards' = [i \in Tokens |-> decayOf(i)]
  /\ UNCHANGED <<vars, logs, head, feed>>

-----------------------------------------------------------------------------
(* Pricing signals, of a history given newest first.                       *)

(* The middle of some figures, or the mean of the two in the middle, a half rounded up. *)
median(xs) ==
  LET s == Ranked(DOMAIN xs, StablyBy(xs))
      m == Len(s) \div 2
  IN  IF DOMAIN xs = {} THEN None
      ELSE IF Len(s) % 2 = 1 THEN xs[s[m + 1]] ELSE (xs[s[m]] + xs[s[m + 1]] + 1) \div 2

(* planSignals sorts what it is given the other way round, stably too. *)
OldestFirst(activity) ==
  Rearranged(activity, StablyBy([k \in DOMAIN activity |-> activity[k].block]))

(* The block of the listing that stands before event k, as the loop remembers it. *)
listedAt(ordered, k) ==
  LET before == { j \in 1 .. k - 1 : /\ ordered[j].tokenId = ordered[k].tokenId
                                     /\ ordered[j].event \in {"Listed", "Unlisted", "Bought"} }
      last == CHOOSE j \in before : \A l \in before : l <= j
  IN  IF before # {} /\ ordered[last].event = "Listed" THEN ordered[last].block ELSE None

(* The resales of a plan's passes: how many, what was taken off the price first paid,
   and blocks from listing to sale. *)
planSignal(activity, plan) ==
  LET ordered == OldestFirst(activity)
      sales == { k \in DOMAIN ordered : /\ ordered[k].event = "Bought"
                                        /\ token_plans[ordered[k].tokenId] = plan }
      original(k) == token_paid[ordered[k].tokenId]
      cheaper == { k \in sales : 0 < ordered[k].price /\ ordered[k].price < original(k) }
      timed == { k \in sales : listedAt(ordered, k) # None }
      cut(k) == ((original(k) - ordered[k].price) * 100) \div original(k)
  IN  [sold |-> Cardinality(sales),
       medianCut |-> median([k \in cheaper |-> cut(k)]),
       medianSpeed |-> median([k \in timed |-> ordered[k].block - listedAt(ordered, k)])]

(* The share of what was paid that is left of the plan's term; None when nothing was. *)
fairPrice(i) ==
  LET left == remaining_seconds(i)
      duration == plan_durations[token_plans[i]]
  IN  IF token_paid[i] <= 0 \/ duration <= 0 THEN None
      ELSE (token_paid[i] * (IF left > duration THEN duration ELSE left)) \div duration

marketPrice(i, cut) == (token_paid[i] * (100 - cut)) \div 100

(* Where PricingOracle suggests to open, if it suggests anything. *)
suggestPrice(i, signal) ==
  LET fair == fairPrice(i)
      market == marketPrice(i, signal.medianCut)
  IN  CASE fair <= 0 -> None
        [] fair > 0 /\ (signal.sold = 0 \/ signal.medianCut = None) -> fair
        [] OTHER -> IF market < fair THEN market ELSE fair

(* What the last digit stands for of an amount as it is shown: six decimals, or below
   Milli six digits. *)
DisplayUnit(wei) == IF wei >= Milli THEN Micro ELSE Grain[wei]

(* The nearest figure; of two as near, the fraction of a double decides. *)
formatEthShort(wei) ==
  LET unit == DisplayUnit(wei)
      down == wei - (wei % unit)
  IN  { shown \in {down, down + unit} : /\ 2 * (wei - shown) <= unit
                                        /\ 2 * (shown - wei) <= unit }

(* The form of the pass page: the text is a decimal number, which the figure is down to
   Micro and no longer below, where it has an exponent; and listingPriceError finds it
   neither zero nor above what the pass was bought for. *)
FormTakes(i, figure) == Micro <= figure /\ 0 < figure /\ figure <= token_paid[i]

-----------------------------------------------------------------------------
FeedInit ==
  /\ SystemInit
  /\ logs = Logged(<<Event(CORE, "PlanCreated", None, Admin, PlanPrice)>>, DEPLOY_BLOCK, 1)
  /\ head = 0 /\ feed = Unread
  /\ cards = [i \in Tokens |-> NoDecay]

FeedNext ==
  \/ Tick /\ UNCHANGED <<escrowVars, marketVars, logs, readVars>>
  \/ \E caller \in Users : Transact(caller)
  \/ LoadFeed
  \/ \E lost \in SUBSET windows(MaxTime) : FeedLands(lost)
  \/ LoadCards

FeedSpec == FeedInit /\ [][FeedNext]_feedVars

-----------------------------------------------------------------------------
Asked(b) ==
  \E w \in windows(feed.latest) \ feed.lost :
    windowStart(w) <= b /\ b < windowStart(w) + LOG_WINDOW

Due == { k \in DOMAIN logs : /\ logs[k].address = CORE
                             /\ logs[k].event \in ACTIVITY_EVENT_NAMES
                             /\ logs[k].block <= feed.latest /\ Asked(logs[k].block) }

(* The feed is the history of the core as far as it could be read: every event of every
   window that was answered, once, newest block first; and what does not fit is no newer
   than what is shown ("One bad window must not lose the whole history", data.ts:226). *)
FeedIsHistory ==
  LET rows == feed.rows
      shown == { rows[j] : j \in DOMAIN rows }
  IN  /\ Cardinality(shown) = Len(rows)
      /\ shown \subseteq { logs[k] : k \in Due }
      /\ \A j, k \in DOMAIN rows : j < k => rows[j].block >= rows[k].block
      /\ Len(rows) < Limit => Cardinality(Due) = Len(rows)
      /\ \A k \in Due, j \in DOMAIN rows :
           logs[k] \notin shown => logs[k].block <= rows[j].block

(* Whole: nothing was lost or cut off, and nothing has been logged since. *)
Whole ==
  /\ feed.lost = {} /\ feed.latest > 0 /\ Len(feed.rows) < Limit
  /\ \A k \in DOMAIN logs : logs[k].block <= feed.latest

(* The pass was handed on last in row j. *)
LastMove(rows, i, j) ==
  LET moves == { l \in DOMAIN rows : rows[l].event = "PassTransferred" /\ rows[l].tokenId = i }
  IN  j \in moves /\ \A l \in moves \ {j} :
        rows[l].block < rows[j].block \/ (rows[l].block = rows[j].block /\ l < j)

(* Of every pass that stands, a feed that is whole names the owner: the events of its
   newest block, read downwards, end with the pass in its owner's hands, whether it was
   bought, given, cut or merged. *)
HoldersTraced ==
  Whole => \A i \in 0 .. next_token_id - 1 :
             expiries[i] > 0 =>
               \E j \in DOMAIN feed.rows :
                 LastMove(feed.rows, i, j) /\ feed.rows[j].who = owners[i]

(* While the listing read for a card stands and the pass is active, the price that ticks
   on the card is the one buy() charges. *)
LivePriceIsCharged ==
  \A i \in Tokens :
    /\ cards[i] # NoDecay /\ is_active(i)
    /\ cards[i].openingWei = listings[i].openingPrice
    /\ cards[i].listedAt = listings[i].listedAt
    => priceAt(cards[i], now) = currentPrice(i)

(* The whole history of both contracts, newest first as fetchActivity would give it. *)
History ==
  LET ranked == NewestFirst({0} \X DOMAIN logs)
  IN  [n \in DOMAIN ranked |-> logs[ranked[n][2]]]

(* What is suggested can be listed: the figure that "use" puts into the form is taken, if
   what the pass was bought for is shown exactly (a slice may have cost more digits than
   are shown: its suggestion may then be refused, by half a unit) and the suggestion is
   not below Micro.  Before it is shown it is no more than the time left is worth. *)
SuggestionAccepted ==
  LET history == History
  IN  \A i \in 0 .. next_token_id - 1 :
        LET price == suggestPrice(i, planSignal(history, token_plans[i]))
        IN  price # None =>
              /\ price * plan_durations[token_plans[i]] <= token_paid[i] * remaining_seconds(i)
              /\ Micro <= price /\ token_paid[i] % DisplayUnit(token_paid[i]) = 0
                   => \A figure \in formatEthShort(price) : FormTakes(i, figure)

(* The figures the pages work out for themselves hold on the chain.  A price that ticks from
   a listing read some time ago is the one buy() charges ("the figure shown is the figure a
   buyer would be charged at that instant", LivePrice.tsx:21); a suggested price is one the
   form takes as it was rounded to be shown, even after slices and merged passes have set
   the discounts. *)
PricesHold == LivePriceIsCharged /\ SuggestionAccepted

(* "Live stream of subscription mints, secondary listings, ownership transfers, and 90/10
   split settlements" (explorer/page.tsx:48): a resale is under "Bought" in a feed that is
   whole.  It never is: the core is asked, and the market logs it. *)
ResalesShown ==
  Whole => \A k \in DOMAIN logs :
             logs[k].event = "Bought" =>
               \E j \in DOMAIN filteredEvents("Bought") :
                 filteredEvents("Bought")[j].tokenId = logs[k].tokenId
=============================================================================
