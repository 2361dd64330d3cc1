--------------------------- MODULE ExtensionPopup ---------------------------
(***************************************************************************)
(* The browser extension's popup (extension/popup.js) over the contracts   *)
(* it reads.  A load asks the chain for one number at a time and awaits    *)
(* each answer, so people transact while it runs, and a second press of    *)
(* the button starts a second load beside it.  Closing the popup ends its  *)
(* script; the address is kept and loaded when it is opened again.         *)
(***************************************************************************)
EXTENDS Marketplace, Ranking

CONSTANTS
  Pasted,       \* addresses pasted into the field
  MaxLoads,     \* bound on the loads begun
  MaxElsewhere  \* bound on the transactions sent and seconds passed meanwhile

ASSUME PopupAssumption ==
  Pasted \subseteq Addr /\ MaxLoads \in Nat /\ MaxElsewhere \in Nat

VARIABLES
  address,    \* in chrome.storage.local: the address loaded last, or ZERO
  open,
  listening,  \* the button has its listener: main() has come past its own load
  begun,      \* loads begun so far
  loads,      \* those under way, by number
  list,       \* the rows on show
  state,      \* the line above them
  elsewhere   \* transactions sent and seconds passed so far

popupPage == <<address, open, listening, begun, list, state>>
popupVars == <<vars, popupPage, loads, elsewhere>>

LoadIds == 1 .. MaxLoads
Text(t) == [text |-> t, count |-> 0]

-----------------------------------------------------------------------------
(* Loads.  `kept` and `ever` are no part of the code: the passes the address has had for
   as long as the load has run, and at any moment of it. *)

OwnedBy(a) == { i \in Tokens : owners[i] = a }

NewLoad(a, main) ==
  [address |-> a, main |-> main, part |-> "total", total |-> 0, i |-> 0, expiry |-> 0,
   mine |-> << >>, kept |-> OwnedBy(a), ever |-> OwnedBy(a)]

loadFor(a, main) ==
  /\ begun < MaxLoads
  /\ begun' = begun + 1
  /\ loads' = [n \in DOMAIN loads \cup {begun + 1} |->
                 IF n = begun + 1 THEN NewLoad(a, main) ELSE loads[n]]
  /\ list' = << >>
  /\ state' = Text("reading")

Ended(n) == [m \in DOMAIN loads \ {n} |-> loads[m]]

(* The load is over, by what it says; main() goes on to add the listeners. *)
End(n, line, rows) ==
  /\ loads' = Ended(n)
  /\ state' = line
  /\ list' = list \o rows
  /\ listening' = (listening \/ loads[n].main)
  /\ UNCHANGED <<address, open, begun>>

(* The sort is by expiry and stable, and the rows were found in the order of their ids. *)
Sooner(a, b) == a.expiry < b.expiry \/ (a.expiry = b.expiry /\ a.id < b.id)

SoonestToExpire(mine) ==
  LET rows == { mine[k] : k \in DOMAIN mine }
  IN  Ranked(rows, { pair \in rows \X rows : Sooner(pair[1], pair[2]) })

Goes(n, load) == loads' = [loads EXCEPT ![n] = load] /\ UNCHANGED popupPage

(* On to the next id; past the last one, the passes found are shown. *)
NextPass(n, mine) ==
  LET load == loads[n]
  IN  \/ load.i + 1 < load.total
         /\ Goes(n, [load EXCEPT !.i = load.i + 1, !.part = "owner", !.mine = mine])
      \/ load.i + 1 = load.total /\ mine = << >> /\ End(n, Text("owns none"), << >>)
      \/ load.i + 1 = load.total /\ mine # << >>
         /\ End(n, [text |-> "passes", count |-> Len(mine)], SoonestToExpire(mine))

ReadTotal(n) ==
  /\ loads[n].part = "total"
  /\ \/ next_token_id = 0 /\ End(n, Text("none issued"), << >>)
     \/ /\ next_token_id > 0
        /\ Goes(n, [loads[n] EXCEPT !.total = next_token_id, !.part = "owner"])

(* Mutant: a pass that has run out is passed over. *)
ReadOwnerOfActive(n) ==
  /\ loads[n].part = "owner"
  /\ \/ /\ owners[loads[n].i] = loads[n].address /\ is_active(loads[n].i)
        /\ Goes(n, [loads[n] EXCEPT !.part = "expiry"])
     \/ /\ owners[loads[n].i] # loads[n].address \/ ~ is_active(loads[n].i)
        /\ NextPass(n, loads[n].mine)

ReadOwner(n) ==
  /\ loads[n].part = "owner"
  /\ \/ /\ owners[loads[n].i] = loads[n].address
        /\ Goes(n, [loads[n] EXCEPT !.part = "expiry"])
     \/ /\ owners[loads[n].i] # loads[n].address
        /\ NextPass(n, loads[n].mine)

(* Its plan does not change: read with the expiry. *)
ReadExpiry(n) ==
  /\ loads[n].part = "expiry"
  /\ Goes(n, [loads[n] EXCEPT !.expiry = expiries[loads[n].i], !.part = "price"])

(* And the plan's name, which may be missing, with the price. *)
ReadPrice(n) ==
  /\ loads[n].part = "price"
  /\ NextPass(n, Append(loads[n].mine,
                        [id |-> loads[n].i, expiry |-> loads[n].expiry,
                         listed |-> currentPrice(loads[n].i)]))

(* A call that fails ends the load with nothing shown of it. *)
ReadFails(n) == End(n, Text("couldn't read"), << >>)

Answer(n) ==
  /\ n \in DOMAIN loads
  /\ ReadTotal(n) \/ ReadOwner(n) \/ ReadExpiry(n) \/ ReadPrice(n)
  /\ UNCHANGED <<vars, elsewhere>>

Refuse(n) == n \in DOMAIN loads /\ ReadFails(n) /\ UNCHANGED <<vars, elsewhere>>

-----------------------------------------------------------------------------
(* The popup.                                                              *)

main ==
  /\ ~ open /\ open' = TRUE
  /\ \/ /\ address # ZERO
        /\ loadFor(address, TRUE)
        /\ UNCHANGED listening
     \/ /\ address = ZERO
        /\ listening' = TRUE /\ list' = << >> /\ state' = Text("paste an address")
        /\ UNCHANGED <<loads, begun>>
  /\ UNCHANGED <<vars, address, elsewhere>>

Go(a) ==
  /\ open /\ listening
  /\ address' = a
  /\ loadFor(a, FALSE)
  /\ UNCHANGED <<vars, open, listening, elsewhere>>

(* What is pasted is no address. *)
GoRefused ==
  /\ open /\ listening
  /\ state' = Text("doesn't look like an address")
  /\ UNCHANGED <<vars, address, open, listening, begun, list, loads, elsewhere>>

Close ==
  /\ open /\ open' = FALSE
  /\ listening' = FALSE /\ loads' = << >> /\ list' = << >> /\ state' = Text("")
  /\ UNCHANGED <<vars, address, begun, elsewhere>>

(* Everybody else. *)
Elsewhere ==
  /\ elsewhere < MaxElsewhere
  /\ elsewhere' = elsewhere + 1
  /\ \/ Tick /\ UNCHANGED <<escrowVars, marketVars>>
     \/ \E caller \in Users : CoreStep(caller) \/ MarketStep(caller)
  /\ loads' = [n \in DOMAIN loads |->
                 LET owned == { i \in Tokens : owners'[i] = loads[n].address }
                 IN  [loads[n] EXCEPT !.kept = @ \cap owned, !.ever = @ \cup owned]]
  /\ UNCHANGED popupPage

PopupInit ==
  /\ SystemInit
  /\ address = ZERO /\ open = FALSE /\ listening = FALSE
  /\ begun = 0 /\ loads = << >> /\ list = << >> /\ state = Text("")
  /\ elsewhere = 0

PopupNext ==
  \/ main \/ GoRefused \/ Close \/ Elsewhere
  \/ \E a \in Pasted : Go(a)
  \/ \E n \in LoadIds : Answer(n) \/ Refuse(n)

-----------------------------------------------------------------------------
(* The rows a load adds when it ends. *)
Added == { list'[k] : k \in DOMAIN list' \ DOMAIN list }

(* Although the passes change hands while they are read one by one, a load that ends well
   shows every pass its address has had all along, with its expiry, and none that it never
   had. *)
PassesRead ==
  [][\A n \in DOMAIN loads \ DOMAIN loads' :
       open' /\ state' # Text("couldn't read") =>
         /\ \A i \in loads[n].kept :
              \E row \in Added : row.id = i /\ row.expiry = expiries[i]
         /\ \A row \in Added : row.id \in loads[n].ever]_popupVars
=============================================================================
