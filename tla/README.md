# Liquid Pass, specified and checked

TLA+ modules for the contracts of Liquid Pass and for the programs around them,
the TLC instances that check them and the TLAPS proofs about them. Line numbers
are of the commit these files sit beside.

## 1. The system

Liquid Pass sells subscriptions as transferable, time-bound passes. A Stylus
contract (the *core*) keeps the registry of passes; Solidity contracts around it
resell and rent them; a subgraph, a web app, an oracle and a browser extension
read them; a second Stylus contract is a wallet that obeys a passkey.

| Component | Code | State | Operations |
|---|---|---|---|
| Core | `subscription/src/lib.rs` | owner, window, issuer, plan and price of each pass; plans; allowed issuers; the marketplace link | set_issuer, set_marketplace, create_plan, set_plan_open, mint, buy_pass, split, bundle, transfer_pass, market_transfer |
| Marketplace | `contracts/src/Marketplace.sol` | listings (price, time), escrow link | setEscrow, list, unlist, buy; currentPrice |
| Escrow | `contracts/src/EscrowYield.sol` | principal locked per seller, marketplace link | setMarketplace, depositYield, withdraw |
| Rental | `contracts/src/StreamRental.sol` | a stream per pass: owner, rate, renter, start, deposit | openStream, setRate, reclaim, startRent, settle; activeRenter, owed, secondsRemaining |
| Issuer requests | `contracts/src/IssuerRequests.sol` | one request per address, list of requesters | request, withdraw, dismiss |
| Passkey wallet | `contracts/src/lib.rs`, `webauthn.rs` | public key, nonce | register, get_challenge, execute |
| Passkey page | `web/app/passkey`, `web/lib/passkey.ts` | what was read, the key made, the last signature and what is said of it | create, sign, derive |
| Subgraph | `subgraph/src` | rows for plans, passes, events, totals | one handler per event |
| Trading pages | `web/app/dashboard`, `market`, `pass/[tokenId]`, `GiftSplit`, `PassBundler`, `useTransferPass` | a snapshot of the chain, open forms, busy flags | buy, mint, gift, split, list, unlist, bundle, resale |
| Issuer page | `web/app/issuer`, `IssuerAccess` | own status, own request, the admin's list, plans | request, withdraw, approve, decline, grant, create and toggle plans |
| Rental panel | `StreamRentalPanel` | five polled figures | open, hand over, reprice, take back, start, settle |
| Access check | `web/app/verify`, `oracle/index.js` | what has been answered so far | several reads, one verdict or advice |
| Auto-sell | `AutoSell`, `web/lib/autosell.ts` | rules and days of use in `localStorage`, a proposal | parse, save, remove, evaluate, log use |
| Store, demo mode | `web/lib/store.tsx`, `demo.tsx` | toasts, timers, demo passes, time shift | notify, resolve, dismiss, demo operations |
| Carousel | `web/app/market/page.tsx` | refs of an animation, a drag | frame, pause, wheel, drag, click |
| Activity, signals, live prices | `web/lib/data.ts`, `signals.ts`, `explorer`, `LivePrice` | the last feed, the listings last read | read the log in windows, filter, suggest a price, tick |
| Extension | `extension/popup.js` | an address that is kept, the rows on show | open, load, close |
| Bench, scripts | `bench`, `contracts/scripts` | none | one-shot scripts |

### How the parts interact

* The marketplace and the rental contract *call* the core: the first moves passes
  through `market_transfer`, which only the linked marketplace may call; the
  second is an ordinary owner, and gives passes back with `transfer_pass`.
* The core calls nobody except the issuer it pays. It knows nothing of listings or
  streams. What it does to a pass (give, split, merge) therefore leaves listings
  and streams standing: this *stale state across contracts* is where most of the
  difficulty lies.
* The marketplace calls the escrow with the proceeds of a sale, once both have
  been linked to each other. Either link is set once, by whoever comes first.
* The subgraph learns of the contracts by their events only, in log order, some
  time later; it cannot ask.
* The web reads the contracts in several calls, each answered by whatever block is
  the latest then, offers controls by what it read, and sends transactions that
  meet another state. Its only shared state is the chain and `localStorage`.
* Access is decided off chain, by `is_active`, `owner_of` and, for a pass in
  custody, `activeRenter`.

### What is hard

Every transaction is atomic, so there is no interleaving *inside* one, except
where ether is sent to a contract. What is hard is the interleaving *of*
transactions on different contracts over the same pass, time passing between
them, rounding in chains of splits, merges and price quotients, payments that are
refused, integers that wrap; and on the other side of the chain, reads that age
while an `await` is pending, polls that overlap, transactions that revert after
the page has moved on, tabs that write the same storage, timers, and refs that
outlive the element they were made for. `PROJECT.json` lists each hazard at its
line with the properties that would catch it going wrong.

### What makes each part correct

* **Core.** Ids are never reused; the terms of an issued pass never change; slices
  tile the window they come from; no sequence of splits, merges and gifts creates
  access or paid-for value.
* **Marketplace and escrow.** A pass leaves its holder by the holder's hand or for
  its price, and where the price goes is known whatever was linked; the price only
  falls; the market keeps nothing; the pool covers what sellers may withdraw.
* **Rental.** Deposits are covered; a rented pass is in custody; the terms of a
  running rental stand; unused time is refunded; custody ends; custody returns
  the pass to the stream's owner.
* **Issuer requests.** The list misses nobody and names nobody twice; nor does the
  admin's page, which reads it entry by entry.
* **Passkey wallet and page.** One signature, at most one call; no call without a
  signature for it; the page's verdict is the contract's.
* **Subgraph.** The index hangs together at every moment, agrees with the
  contracts when it has caught up, and accounts for the issuer's revenue.
* **Trading pages.** No gift takes an old listing along; a purchase costs no more than
  the card was showing, unless the pass was listed anew; every control comes back.
* **Rental panel, checks, oracle.** The figures catch up with the chain, and the
  controls they call for are refused in known cases only; whoever is let in had access
  meanwhile.
* **Activity and prices.** A feed is the history once and in order, as far as it could be
  read; a ticking price is the one charged; a suggested figure is one the form takes.
* **Extension.** No pass is missed that was held while the popup read, and none shown that
  never was.
* **Page state.** Rules are neither lost nor brought back between tabs; toasts settle; a
  drag buys nothing; the rail keeps moving, but for two reloads that stop it.

## 2. Modules

```
Sums -- Chain -+- PassCore --+- StreamRental -----+- RentalCustody
               |     |       |                    |
               | AccessLedger+- Marketplace ------+- LiquidPass -+- RentalPanel -+- RentalClients
               |             |    |   |   |                      +- AccessCheck -+
               +- EscrowYield ----+   |   +- WebSession (with LivePrice)
                             |        +- Subgraph
                             |        +- ActivityFeed, ExtensionPopup -- WebPages
                             |        |  (with Ranking, LivePrice)
                             +- IssuerRequests -- IssuerConsole

PassKeyWallet -- PasskeyClient          ClientStore, AutoSell, MarketRail -- WebPages
```

### Contracts

* **`Chain`**: accounts, their ether, the clock. One action of any module is one
  transaction; a revert is an action that is not enabled. `Refusing` is the set of
  accounts that revert when ether is sent to them: contracts without `receive()`,
  such as the rental contract and the marketplace themselves. (`Sums` defines
  totals by cardinality rather than by recursion, so that they can be reasoned
  about.)
* **`PassCore`**: one action per handler of `lib.rs`, caller first. Early `Err`
  returns are guards. Ids are allocated from 0; mappings are functions over
  `0 .. MaxTokens-1` with Solidity's defaults. The u64 conversions and the
  wrap-around of `block_timestamp() + duration` (release builds have no overflow
  checks) are `ToU64` and `ExpiryAfter`. The loop of `bundle` burns as it goes;
  `OwnerAtTurn` is what it reads at each turn. `market_transfer` may be called
  for an id that was never issued, as in the code.
* **`AccessLedger`**: the abstract specification. Each holder has a credit of
  seconds; it lapses with time, is granted in amounts of at most one term on sale,
  or is handed on.
  `PassCore` refines it with `credit` mapped to the seconds each holder's passes
  still cover (`ImplementsLedger`); a split and a merge map to stutters, or to
  handing nothing on.
* **`EscrowYield`** and **`Marketplace`**: `Buy` is the whole of `buy()`, with the core's
  `market_transfer`, the escrow's `depositYield` and the three payments inside
  it. `setEscrow()` takes any address from anybody, once: `SetEscrow` links the escrow,
  a `Till` (another contract that answers `depositYield` and keeps what it brings) or any
  other address, by which every sale reverts. Aave is external: a pool that holds the
  principal. Interest is left out: no function of the escrow reaches it.
* **`StreamRental`**: the rental contract over the core. The pass reaches it by an
  ordinary `TransferPass` to `RENTAL`. `settle()` pays owner, issuer and renter, and
  any refusal reverts it. **`RentalCustody`** adds a history variable, who put each
  pass into custody.
* **`LiquidPass`**: all of the above over one set of passes.
* **`IssuerRequests`**: the inbox beside the core's `set_issuer`.
* **`PassKeyWallet`**: several deployments, devices that sign, assertions that may
  be submitted at any time to any of them, with either value of `s`. Hashing is
  injective (every field of the preimage but the last has a fixed width) and
  signatures are made by devices only. An assertion is an abstract record.

### Clients

* **`Subgraph`**: each transaction of the market appends its events to `pending`;
  `Handle` takes the oldest and runs its handler. `GqlPass`, `GqlPlan` and `GqlActivity` are
  what `web/lib/graphql.ts` makes of the rows. The feed's query orders by block number alone:
  `GqlActivity` is the set of all answers it may get, the rows of a block in any order.
* **`WebSession`**: one tab, one wallet, three pages. A page shows a `Snapshot`; its
  handlers are *flows* (ask the wallet, wait for the receipt, reload), several at
  once where the pages' busy flags allow it. Transactions of the wallet are mined
  in nonce order, may revert although their guards hold (the pages fix the gas),
  and run on when the page is left. `Rivals` transact elsewhere. A purchase keeps what was
  on screen when it was pressed (`Quote`): on the market page the price that ticks.
* **`LivePrice`**: that price, reckoned from a listing as it was read.
* **`IssuerConsole`**: the chain of awaits of `load()`, each read at its own block,
  not stopped when the wallet is switched; two busy flags.
* **`RentalPanel`**: polls that overlap, fail and land in any order; the controls by
  the figures shown; a control's course through wallet, receipt and reload.
* **`AccessCheck`**: an access verdict or an oracle's advice from reads at different
  blocks, with the record (`was`, `always`) of what was so meanwhile.
* **`RentalClients`**: `LiquidPass` runs alone without bound; at any moment a panel or a
  check is opened on it.
* **`PasskeyClient`**: the passkey page beside the wallets. It signs the challenge it
  read, which may have gone stale, folds `s`, and says what the contract will say.
* **`ActivityFeed`**: each transaction of the market appends what the contracts log to
  `logs`. A read fixes the newest block, asks for windows of blocks, and loses any of them;
  what it makes of the rest is `fetchActivity`. Its stable sorts, and the popup's, are
  `Ranking`: a member's place is one more than the number of members that come before it,
  so that sorting can be reasoned about without induction. `planSignal` and `suggestPrice` are functions of a
  history, `formatEthShort` is the rounding by which a suggestion reaches the form, `FormTakes` what the
  form accepts.
* **`ExtensionPopup`**: loads that ask for one number at a time, side by side if the button
  is pressed twice, cut off when the popup is closed.
* **`ClientStore`**, **`AutoSell`**, **`MarketRail`**: state a tab keeps of its own. They
  share no variable, and **`WebPages`** lays them, the feed and the popup, side by side.

**`MC...`** modules give TLC its instances. **`...Proofs`** modules hold the theorems.

Definitions named in a comment `Mutant:` are wrong variants of the operator that
follows. They are used by no specification; each shows that a property would
notice such a mistake.

## 3. What is checked

| Run | Instance | Shows |
|---|---|---|
| `core_access` | Four ids, one plan, passes of three seconds that wrap if they are issued last (`U64Limit` = 6), all orders of sale, mint, split (2 or 3), merge (2), gift, the admin as issuer, and the holder as marketplace, who moves passes and blank ids at will | Types; terms fixed; splits tile; `paidOf` only from sales; the core implements the ledger. |
| `market_sales` | Three passes, two traders; the escrow, another contract or an account linked at any moment, the escrow on either side, or nothing | Money conserved, price falls, a pass leaves for pay. |
| `rental` | Two passes and streams, two users in both roles, time past expiry | Solvency, terms, refunds; under fairness, the return of the pass. |
| `system` | Core, market and rental over one pass, proceeds paid directly; at any moment the panel or a check is opened | Custody in the composite; the panel catches up, and its six controls are refused in the named cases only; verdicts and advice were so. |
| `issuer_console` | An admin and two companies, of whom the page reads the two most recent; one tab, three transactions from elsewhere | The list on the chain, the list on the page, and that the controls come back. |
| `passkey_wallet` | Two deployments, two devices, two calls, the page of one deployment, anybody else signing and submitting | One signature, at most one call; every call signed; the page's verdict. |
| `subgraph` | Three passes, sale, mint, split, merge, gift, resale, plans closed, indexed late, queried with the rows of a block in any order | The index agrees, adds up and learns of every issue. |
| `web_session` | Two flows over stale pages whose prices tick, two transactions of a rival | Old listings, price paid against the price on screen, flows end. |
| `web_pages` | Two toasts and demo operations; one pass, two rules, two tabs, two days; a rail of up to two cards and four gestures; three passes sold, split, merged, given and resold over two windows of the log, with a feed of six rows; two loads of the popup, cut off or refused, and four transactions or seconds under them | What a tab keeps, rules and toasts and rail; the feed, the price that ticks and the suggestion as it is rounded; what the popup shows. |

The passing runs between them fire every action of every module. Three runs end in a
violation, each of a statement found in the repository (`PROJECT.json`, findings):

| Run | What happens |
|---|---|
| `rental_custody` | A stream outlives the sale of a pass that was not yet in custody; the next owner who escrows it gives it to the earlier one. |
| `rental_panel` | A rental that has used up its deposit has no `activeRenter()` any more, and the panel offers to settle only while there is one. Nobody is offered to settle it, and its owner is offered to take the pass back, which the contract refuses until it is settled. The text below says that anybody can. |
| `feed_resales` | The feed asks the core for the events of the core's ABI. `Listed`, `Unlisted` and `Bought` are logged by the marketplace: no resale is ever in a feed, two of the explorer's buttons always find nothing, and the pricing signals have no history to go by. |

### What the code is known to do

Behaviours that texts of the repository describe otherwise, found while modelling and
visible in the modules; each can be shown with the modules as they are.

* *Listings outlive gifts and splits.* Neither `transfer_pass()` nor `split()` knows of the
  marketplace (`README.md:73`, `:75` and `docs/TESTING.md:174` say that they clear or refuse). The
  web app withdraws a listing before it gives a pass away; `web_session` checks that it
  does so whatever happens in between.
* *A listing made before custody.* With the escrow linked, `buy()` pays the rental
  contract's proceeds into the escrow instead of reverting, and sells the pass out of
  custody: with `Escrows = {ESCROW}` the instance of `system` violates `CustodyReturns`.
  `web/lib/useTransferPass.ts:26-29` describes the same.
* *A refusal blocks a settlement.* `settle()` pays three parties in a row, and a renter
  contract that cannot take ether keeps its finished rental open.
* *Plan 0.* A minted pass belongs to plan 0 by default. Bundled first, it makes its
  minter the issuer of passes bought from plan 0.
* *Slices and bundles* are in no index: the subgraph creates rows from sales and mints
  only, and no event tells it of the burn of a pass that was split.
* *Anybody may link anything as the escrow.* `setEscrow()` is open to the first caller and
  asks nothing of the address (`Marketplace.sol:35-38`). Another contract that answers
  `depositYield` may keep the proceeds of every sale from then on, and the seller has
  nothing (`PassLeavesForPay` says whom the proceeds reach); an account, or a contract
  without that function, makes every sale revert. It cannot be set a second time.
* *Controls that are offered and refused* (`OffersAccepted` lists them all). The panel offers
  to open a stream of a pass that has expired; to hand a pass over to an owner of the stream
  who has parted with it; to reprice, take back or rent while a rental that has ended awaits
  its settlement; to rent a pass that has expired, or for a budget that buys no second.
  "Settle" is refused to all but the renter while funds last.
* *The oracle on a pass just issued.* Its two reads may be answered by different blocks: an
  expiry of 0 from before an issue and an owner from after it give `EXPIRED` for a pass with
  all its time to come (`oracle/index.js:92-118`). `AdviceJustified` has this as its one
  exception.
* *Rows of one block.* `fetchActivityGql` orders by block number only (`graphql.ts:134`); the rest
  is the index's own order, by row id. A listing and its withdrawal in one block may be
  shown the wrong way round. `FeedAgrees` holds of what stands alone in its block.
* *A relisted pass costs more than its card shows.* The card ticks down from the listing that
  was read; the value sent is the price at the time of that read and a buffer
  (`market/page.tsx:372-374`), and the difference comes back. If the seller has listed the
  pass anew, what comes back may be nothing. Demo mode's time shift moves the figure on the
  card, and only that; and the figure is cut to a fixed number of digits, so that on screen
  it may be lower by less than the last of them.
* *A suggestion the form refuses.* `PricingOracle` hands over `formatEthShort(price)`: six
  decimals, or six digits below 0.001 ETH. Where a slice was recorded to have cost more digits
  than that, the rounded figure may be above it, and is refused; below 10^-6 ETH the figure
  has an exponent, and is refused as no number. `SuggestionAccepted` holds of all others.
* *A proposal for a pass that has left the wallet* makes the auto-sell panel throw
  (`AutoSell.tsx:229`, `Broken` in the model); the page has to be opened anew (`TabReloads`).
* *A rule that could not be written* (storage full or blocked) is gone, or there, until the
  page is reloaded, and then the other way round.
* *The rail sticks after two kinds of reload.* One that ends with as many cards as before
  mounts a new element, while the effects depend on the number of cards and the view
  (`market/page.tsx:211-292`): it neither drifts nor scrolls by the wheel (`Detached`). And one that takes
  the rail from under the pointer leaves `isHoveredRef` set (`:604-605`), so that nothing drifts
  until the pointer has been over the rail and left it (`HoverLeft`). `RailSweeps` shows that
  nothing else does it.
* *The demo store* lists a pass at whatever text was typed, the empty one included, and two
  mints that wait at the same time are given the same number.
* *The popup's button* may be pressed while a load runs: both loads clear the list first and
  then both fill it, so that passes which expire sooner stand below others
  (`extension/popup.js:147` says "Soonest to expire first").
* *`subgraph.yaml:42`* names another marketplace address than the extension does.

### Bounds

* *Ids.* Four in `core_access`: enough for a pass, two slices and their merger, or
  three slices; three for a listing, its split and a resale, and for the two
  passes of a bundle beside it. Two in `rental`, so that one rental's deposit may
  be paid from another's. One in the composite, whose properties are about one
  pass.
* *Time.* The clock runs one tick per second, past the expiry of at least one pass
  in every instance. Durations of 2 and 3 seconds make remainders of divisions
  by 2 and 3 occur.
* *Wei.* Prices of 10 and 12 give a royalty of 1 and a price that rounds; purses
  allow several purchases. Rates 7 and 10 with deposits of 10 and 15 give
  deposits that run out within a second, and that do not divide.
* *Width.* `U64Limit` is out of reach, except in `core_access`, where the last passes wrap.
* *Signatures.* `MaxSigned` = 2 in all: a second one is enough for a replay, for two
  devices and for two turns. The curve's order is 3, so that one value of `s` is low
  and one is high.
* *Clients.* `MaxLoads` polls beside the one a control waits for; `MaxRuns`,
  `MaxFlows`, `MaxActions` controls pressed; `MaxOutside`, `MaxElsewhere`, `MaxSends`
  transactions that come between. Two flows are enough for one to change what
  another has read, two transactions elsewhere for a listing and its sale.
  `RentalClients` has no bound on what was sent before a client opened (`OpensBy`
  bounds the time at which it does).
* *Index.* A transaction finds at most one event waiting (`MaxLag`) and three rows in the
  index (`MaxRows`), and appends up to three of its own; the feed shows two (`RecentRows`),
  so that what it is cut to depends on the order of a block's rows.
* *Feed.* `LOG_WINDOW` = 2 over four blocks, so that events fall on both sides of a
  boundary; `Limit` = `MaxLogs` = 6, which the last transaction may pass, so that
  feeds are cut. Prices of 200 and 150 make discounts of a quarter, and of other sizes
  where what was paid was split and rounded. `Micro` = 20 and `Milli` = 120 stand for 10^-6 and
  10^-3 ETH: above `Milli` the last digit shown is worth 20 wei, below it what `Grain` says, so that
  amounts round up and down and some cannot be shown exactly.
* *Popup.* Two loads, and `MaxElsewhere` = 4 transactions or seconds under them: enough to
  sell, merge or let lapse what a load has passed or has yet to reach.
* *Pages.* `MaxDay`, `Days`, `MaxPasses`, `MaxGestures`: the last of four gestures may meet
  the state three others have left.

Deadlock is not checked where ids, time, wei or gestures can all be used up, which
is an end of the instance and not of the system.

### Fairness

* `CustodyEnds` (rental): time passes, and the owner of a stream, who wants the pass,
  sends `settle()` when the rental has finished and `reclaim()` when the pass is idle.
  Renters are assumed to do nothing. It holds where no payee refuses ether.
* `FiguresCatchUp` (panel): the interval fires, reads are answered or fail, and not
  every load fails for ever (strong fairness of a load that lands). "Catch up" is
  eventually-always, because time and transactions are bounded: the chain rests.
* `FlowsEnd`, `ConsoleFlowsEnd`: nodes answer and blocks are made. In `WebSession` the
  person need not answer the wallet, so that a flow may wait there; in `IssuerConsole`
  the prompt is answered.
* `IssuesReachIndex`: the indexer does not stop.
* `ToastsSettle`, `RailSweeps`: `setTimeout` fires; the browser goes on drawing frames.
  `RailSweeps` asks for a sweep only while the pointer is elsewhere, the rail is on screen and
  too long to fit, and neither of the two reloads above has stopped it.

## 4. What is proved

TLAPS proves the following for every value of the constants. The assumptions are
the named `ASSUME`s of the modules: addresses form a finite set without ZERO,
bounds are naturals, the last timestamp is below 2^64, the market and the
rental contract start with no ether and refuse to be sent any (neither has a
`receive()`), the term of the plan on sale is
one of those offered, the demo catalogue is numbered from 1 and a missing price is none
that can be typed, the units amounts are shown in divide one another as powers of
ten do (`DisplayAssumption`), what else is linked as the escrow is no user, market or escrow, the
order of the curve is odd and above 2. No further axiom is used.

| Module | Theorem | Property | In words |
|---|---|---|---|
| `PassCoreProofs` | `TypeCorrect` | `TypeOK` | mappings keep their types |
| | `IdsNeverReused` | `FreshIdsBlank` | ids above the counter are blank |
| | `TermsFixed` | `PassTermsFixed` | an issued pass changes hands or is burned, nothing else |
| | `NoEthKept` | `EthConserved` | a primary sale passes on what it is sent |
| | `SlicesTileWindow` | `SplitTilesWindow` | slices leave neither gap nor overlap |
| | `OnlySalesArePaid` | `PaidOnlyBySale` | splits and merges never raise what was paid |
| | `CoreImplementsLedger` | `ImplementsLedger` | the core refines the ledger of access |
| `MarketplaceProofs` | `MarketTypes` | `MarketTypeOK` | types of core, market and escrow |
| | `NothingKept`, `NothingLost`, `SellersCovered` | `MarketHoldsNothing`, `WealthConserved`, `EscrowBacked` | where the money of a sale goes |
| | `AskBoundsPrice`, `PriceNeverRises` | `PriceAtMostAsk`, `PriceOnlyFalls` | the price starts at the ask at most, and falls |
| | `NobodyTakesAPass` | `PassLeavesForPay` | whatever is linked as the escrow, a pass leaves its holder by the holder's hand or for pay, which the holder has, or the contract that was linked instead |
| `IssuerRequestsProofs` | `ListIsComplete`, `PositionsStand` | `ListComplete`, `PositionsKept` | the list misses nobody, repeats nobody, keeps its order |
| | `ListMissesNobody` | `NobodySkipped` | nor does the page that reads it in pieces |
| `PasskeyProofs` | `OnlySignedCalls`, `NoReplay`, `BoundForGood` | `CallsAreSigned`, `ActedOnOnce`, `BindingIsFinal` | one signature, at most one call, for good |
| | `PageSignsNothingElse` | `CallsAreSigned` | with the page as a signer, every call was still signed for |
| | `PageAgreesWithContract` | `VerdictIsContracts` | what the page says of a signature is what `execute()` does with it |
| `LiquidPassProofs` | `RentalTypes`, `DepositsCovered` | `RentalTypeOK`, `RentalSolvent` | the contract holds exactly the running deposits |
| | `RentedInCustody`, `CustodyGoesToOwner` | `RentedPassHeld`, `CustodyReturns` | what is rented is in custody; custody ends with the stream's owner |
| | `RentalTermsStand`, `UnusedIsRefunded` | `RentalTermsFixed`, `UnusedTimeRefunded` | terms stand; unused time is refunded |
| | `DepositsCoveredTogether`, `MoneyKeptTogether` | `RentalSolvent`, `WealthConserved`, `EscrowBacked`, `MarketHoldsNothing` | with all contracts over the same passes, the books of each stay right |
| | `RentedPassStays`, `CustodyGoesBack`, `UnusedIsRefundedTogether` | `RentedPassHeld`, `CustodyReturns`, `UnusedTimeRefunded` | under `PaidDirectly`: custody and refunds, whatever is listed, sold or given |
| | `ContractsImplementLedger` | `ImplementsLedger` | so does the system of all contracts, whatever is listed, sold, escrowed and rented |
| | `OwnersAreNotHostages` | `NobodyHeldHostage` | where users take ether, a rental can always be stopped by its renter, settled by anybody once it is used up, and an idle stream closed |
| | `OffersAreAccepted` | `OffersAccepted` | where users take ether, and figures are right, each of the panel's six controls is refused in the named cases, and in no other |
| | `ClientsOnlyTransact` | `LiquidSpec` | with their clients, the contracts still behave like the contracts alone |
| | `AdviceRestsOnAnswers` | `AdviceJustified` | what the oracle says was so while it looked, but of a pass issued between its reads |
| | `VerdictsHold` | `VerdictHeld` | under `PaidDirectly`, a verdict names who had access, and nobody without a claim |
| `WebSessionProofs` | `GiftsAreUnlisted` | `NoOldListingMoves` | what the app moves takes along no listing made before the app looked |
| | `QuotesHold` | `BoughtAsQuoted` | a purchase from a page of any age: the pass shown, for no more than the figure that ticked on its card, unless it was listed anew |
| `WebPagesProofs` | `DragsDoNotBuy` | `NoBuyFromDrag` | a drag that began on a card never ends in its Buy button |
| | `RulesAreKept`, `RulesStayRemoved` | `NoRuleLost`, `NoRuleRevived` | a rule goes only by its holder's hand, and for good, whatever tabs share the list |
| | `PendingToastsStay` | `PendingStays` of `ToastsSettle` | no timer takes away a toast that is still pending |
| | `FeedTellsHistory` | `FeedIsHistory` | a feed shows each event of the windows that were answered once, newest block first, and leaves out none newer than what it shows |
| | `FeedTracesHolders` | `HoldersTraced` | a feed that is whole leads every pass that stands to its owner |
| | `PagesReckonRight` | `PricesHold` | the price that ticks on a card is the one `buy()` charges while the listing stands; a suggestion, rounded as it is shown, is one the form takes where what was paid is shown exactly |
| | `SuggestionsBounded` | two bounds of `SuggestionAccepted` | whatever any history tells, a suggested price is at most what was paid and what the time is worth |
| | `PopupMissesNoPass` | `PassesRead` | a popup misses no pass its address has kept, whatever is sent between its reads |
| `SubgraphProofs` | `IndexFollows` | `IndexAgrees` | the index hangs together, the feed says how each pass stands by what is alone in its block, and plans and passes are what the contracts hold once it has caught up |
| | `VolumesAccountForRevenue` | `RevenueAccounted` | volumes never exceed what the issuer was paid, and account for it |

`FreshIdsBlank`, `EthConserved`, `MarketTypeOK`, `MarketHoldsNothing`, `PriceAtMostAsk`,
`RentalTypeOK`, `PositionsKept` and `BindingIsFinal` are proved and belong to no run any more:
the prover covers more than an instance did.

Three kinds of theorem have a hypothesis beside the assumptions on constants:

* `PaidDirectly` (`escrowYield \notin Tills \cup {ESCROW}`, for good: nothing is linked that takes
  the proceeds of a sale). With the escrow or a till linked, a pass listed before
  it was put in custody is sold out of custody (section 3), so that `RentedPassHeld` and
  `CustodyReturns` are false without it. `VerdictHeld` is too: a rented pass may then be sold to
  its own renter, who settles, and is named by no read although access never ended.
  As `setEscrow()` is open to anybody, nothing in the code keeps to the hypothesis: the
  theorems say what custody is worth for as long as nobody has linked such a contract.
  The rental contract's solvency, and what is said of money and sales, needs no such hypothesis.
* `Users \cap Refusing = {}`, of `OwnersAreNotHostages` and `OffersAreAccepted`: one renter contract
  that refuses its refund blocks its settlement (section 3). The `system` run is set up so. That
  the issuer and the owner of a stream take ether is then proved, not assumed.
* `IssuerApart` (`Admin \notin Users \cup Recipients`). The volumes are compared with the ether the
  issuer gained, which is what it was paid only if it neither trades nor is given passes to
  sell. It is how the `subgraph` run is set up as well.

The arguments, by inductive invariant:

* **Core.** `CoreInv` is types together with blank fresh ids. The two are carried
  together because each is needed for the other's step: that `split` burns an
  *issued* pass follows from its being active, which a blank id is not.
* **Totals.** A total of ether is the cardinality of a set of units, so that what
  a payment does to it follows from the library's theorems on finite sets
  (the first section of `PassCoreProofs`), with no induction.
* **Access.** The access of a holder is a total over all ids (`AccessNow`, from
  `WindowUnits`), so that a sale or a gift is a change of one summand. A split and a merge
  change several; what they put in is compared with what they take out on the changed ids
  only (`SumExchange`), by a bijection: of the slices' seconds with the seconds of the
  window (`SlicesTile`: the stretches `k * length` do not overlap and leave nothing out), and of
  the turns of the loop with the passes it burns (`BundleFacts`). The ledger's bound on a grant
  needs one more invariant, that plans sell offered terms (`PlanTermsOffered`), and the
  existence of a longest term, which is that of a least natural number.
* **Market.** `MarketInv` adds that ramps start in the past and that only issued
  passes are listed. Without the second, listing an id before its issue would let
  the price jump when the id is handed out. The sale is followed payment by
  payment (`BuyMoney`, `SellerIsPaid`); the ramp needs two facts about quotients
  (`FractionOfPrice`, `QuotientMonotone`).
* **Who owns fresh ids.** `FreshIdsUnowned` is not an invariant of the core alone,
  whose `market_transfer` gives away ids nobody was issued; it is one of the core
  with the market or the rental contract, which do not ask it to.
* **Rental.** `RentalBooks` adds that an idle stream holds no deposit, and that the
  contract never rents from itself. Solvency is then an exchange between one
  summand and one balance (`DepositStepInv`). It does not rest on custody: `RentalInv` adds
  `RentedPassHeld` as a part of its own.
* **Contracts together.** `LiquidInv` is `MarketInv` and `RentalBooks`, and `RentedPassHeld` while
  sales are paid directly. A step of one contract is shown to spare the books of the
  other: the rental contract refuses ether and sends no transaction, so that no sale pays
  or charges it (`SaleSparesRental`); what the rental contract moves adds up
  (`RentalStepMarket`). A pass in custody is not sold because its seller would be
  the rental contract, which cannot be paid.
* **Access under all contracts.** `PassCore`'s refinement mapping serves the composition
  unchanged: custody is one more hand that holds passes. A sale, and a pass that comes back
  out of custody, hand the whole of its access on at once (`MoveIsLedgerStep`); everything
  else is a step of the core or touches no pass (`LiquidIsLedgerStep`).
* **Payees.** `PayeesTakeEther`: owner and renter of a stream are users or nobody, and the issuer of
  a pass has minted it or has been paid for it, or issued what it was cut or merged from.
  With figures that are right, a rental that is not used up shows its renter
  (`RightFigures`), so that a control is offered to the party the contract asks for.
* **Clients of the contracts.** `ClientsOnlyTransact` maps the identity on the variables of the
  chain: a step of the panel, of the verify page or of the oracle either leaves them alone or is
  a transaction somebody may send. All of the above then holds with clients beside the
  contracts. `CheckInv` says that
  every answer the oracle's check has had agrees with the record of what was so when it was
  given (`was`), and that for an account which has had access all the time (`always`) every
  answer points to that account. The oracle's advice follows at once. A verdict put together
  from reads at different blocks also needs to know how access can be lost between them, as
  owner, active renter or renter (`AccessCheckInv`), which is where custody comes in.
* **Inbox.** `seen` is exactly the set of accounts on the list.
* **Issuer page.** `ConsoleInv` adds that every read in flight is right for the length it
  began with (`LoadInv`): whoever is on its page is outstanding or answered, and an answer
  about a request older than the read is still what the contract says, or the request is
  gone. All a step has to keep is what `InboxMoves` says of the inbox: time does not run
  back, positions stand, and a request that changes is cleared or filed now.
* **Tab.** `SessionInv` adds three things to `MarketInv`. A flow's argument is of its kind. What is
  in the mempool is pending there, each flow once, so that what takes effect is the
  transaction of the flow that says so. And whatever stands in the way of a gift has come there since
  the app looked (`ListingGone`): it found no listing, or its unlist succeeded. The
  tab's transactions then do to the chain what anybody's may (`ExecuteMoves`), and the chain does to
  listings only what `ListingsDated` says: one that appears is of the present.
* **Wallet.** `WalletInv` ties the number of calls to the nonce and each call to an
  assertion whose challenge names wallet and turn; that each assertion acts
  at most once then follows without looking at the actions again.
* **Index.** An event stands until a later one tells of the same thing. `IndexInv` therefore says,
  for the owner, the ask and the terms of each pass that has a row or is announced, and for the
  openness of the plan: the last event on its way that tells of it tells what the contracts
  hold (`LastIn`), and when there is none (`NoneOf`), the row says so. A pass that was burned is left
  out, as in `PassesAgree`. `AnnouncedFirst` adds that nothing is told of a pass before its announcement,
  so that no update meets a missing row. The proof is in two halves. `Tells` is what a
  transaction may append: of a pass issued before, nothing, and then it stands as it did, or how it
  stands in the end (`ToldOfOld`); of a new one, its announcement first of all (`ToldOfNew`). One lemma
  per transaction establishes it, and `IndexTransaction` uses nothing else. `RowTakes` is what handling an
  event makes of a row; `IndexHandle` uses nothing else.
* **Volumes.** `RevenueInv` weighs what is on its way (`QueueWorth`): counted volumes and worth
  together never exceed what the issuer gained, and equal it while the index knows of every
  pass or will (`AllTracked`). That a resale of a pass without a row is not counted is then no loss
  in the second case, because the announcement would have come first.
* **Carousel.** `DragInv`: the pointer is down or a click is on its way, never both, and a rail
  panned since the press is remembered as dragged until that click has come.
* **Rules.** `IdsNameRules`: an id names one rule, in storage and in the tab, so that to take out the
  rules of an id takes out one. What a tab writes is what it has just read from storage, with one rule more
  or less, so that nothing it only holds is brought back.
* **Toasts.** `TimersSettled`: a timer that runs is of a toast that is settled.
* **Prices that tick.** `CardsInv`: a card's expiry is the one the pass has, unless the pass was burned,
  in which case it is not active.
* **Popup.** `PopupInv` says of each load (`LoadFits`) that it keeps count of the right passes (`Watched`:
  what its address has kept is its own, what is its own has been counted), what its last answer
  still means although the chain has moved (`OnItsWay`), and that every kept pass read so far has its row
  (`FoundSoFar`). That sorting loses no row is `RankedInOrder`.
* **Sorting.** `Ranked` gives each member of a finite set the number of members before it. Two
  members have different places, and an injection of a finite set into itself is onto
  (`RankedInOrder`): every place is taken, by one member. `StableOrder` shows that what stable sorts
  go by is such an order.
* **Log.** `LogsInv`: entries are distinct (each names its transaction), blocks do not fall, and the
  last hand-over of a pass that stands names its owner (`HoldersLogged`). `Tells` is what a
  transaction may log, with one lemma per transaction; `LogGrows` uses nothing else.
* **Feed.** `FeedInv`: each row comes from a place of its own among what was due, newest block
  first and in the order of the log within a block, and what is left out comes after (`Placed`).
  What is due for a feed that was read does not change, because whatever is logged
  later is of a block later than the newest that was asked for (`DueStays`); this is where a read
  must stop at the block before the one being made.
* **Suggestions.** A median lies between two of its figures (`MedianBetween`), so that the middle
  discount is one of 0 to 99 (`CutIsPartial`) and something is left of the price. Rounding to a unit
  does not pass a multiple of that unit (`RoundingStaysBetween`), and the unit of a larger amount is a multiple
  of that of a smaller one (`UnitsNest`): a suggestion of at most what was paid is shown as at most what
  was paid, if that has no more digits than are shown (`ShownIsTaken`).
* **Passkey page.** `PageInv` says of the page's state where each part came from: the
  challenge is one the wallet once gave, the signature is one of the key and of the
  challenge on the page, and, except while hashes are awaited, what is said is said of
  that signature. The page then adds to `signed` only assertions of the right type, which
  preserves `WalletInv`; and agreement with the contract is a comparison of two lists of
  conditions, with `FoldedIsLow` for `s`.

Every invariant and every action property that a run checks is stated by one of these
theorems. Only model-checked is liveness under fairness, which is out of the prover's reach:
`CustodyEnds`, `FiguresCatchUp`, `ConsoleFlowsEnd`, `IssuesReachIndex`, `FlowsEnd`, `RailSweeps`, and
`SettledLeaves`, the part of `ToastsSettle` beside `PendingStays`. Of `CustodyEnds`, what each
step needs is proved (`OwnersAreNotHostages`); that the steps are taken is fairness.

## 5. Abstractions, and what is not modelled

* Names, URIs, notes, message texts: data no property depends on. A toast is its status,
  a request its time, a rule its condition and pass.
* Aave's interest: unreachable from the escrow's functions.
* `settle()` calling out to payees that call back: transactions are atomic here. The
  Stylus contracts are built without the SDK's reentrancy feature, so a call back into
  them reverts; `startRent`, `openStream` and `setRate` of the rental contract would not.
* The byte level of WebAuthn, DER, SPKI and base64: by what the conversions return. Support
  for WebAuthn is assumed.
* A page's load reads and applies at one moment in `WebSession` (it is one multicall).
  The panel's three reads of the rental contract are taken as of one block, beside a
  later one of the core.
* Demo mode's shift of dates is in `ClientStore` and not applied to the pages of `WebSession`.
  A card ticks by the chain's clock there, and shows every digit.
* A till keeps what it is given: a contract linked as the escrow that calls back while it is paid,
  or passes a part on, is not modelled: transactions are atomic here. (`buy()` is not guarded
  against it, and deletes the listing first.)
* The route behind an auto-sell sentence asks a language model: its answer is any
  condition the route lets through, or an error.
* `IssuerAccess.checkTarget` (it words two buttons), `toggleDemoMode` and `verifyPassAccess` of the
  store (no page calls them), `YieldDashboard` (one flow, the escrow's `withdraw`).
* The oracle's HTTP side and idle clock; what the popup decodes, and its links.
* In `ActivityFeed` a block is made every second, speeds are in blocks, mints are left
  out, and the search box of the explorer. The pages give the signals a feed that holds
  no resale (`feed_resales`); the properties about them are of the history of both
  contracts, which the code was written for. A double is taken to hold the amounts that are
  rounded exactly enough; of two figures as near, either may be shown.
* Rendering, animation, AI and IPFS routes, the benchmark, deployment scripts.
* Loads that overlap on the dashboard, and a preset pressed on the verify page while a
  check runs: an older answer may land last. No text promises otherwise, and the next
  read replaces it.

## 6. Plan

Done: the contracts, alone and together, with proofs; the subgraph; the trading, issuer,
rental, verification and passkey pages; the activity feed and what is reckoned from it; the
state pages keep of their own; with proofs of all that is not liveness.

Next, in this order:

1. `StreamRental` with `settle()` in steps: payees that call `startRent`, `openStream` or
   `setRate` while they are paid. Solvency and terms under it.
2. The page's index rows (`Subgraph`) as what `WebSession` shows.
3. The WebAuthn scanner (`json_string_field`, base64url) as operators against reference
   definitions over bounded inputs.
4. `YieldDashboard` and the escrow in `WebSession`; overlapping loads there.
