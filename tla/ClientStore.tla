----------------------------- MODULE ClientStore -----------------------------
(***************************************************************************)
(* What the web app keeps above its pages: the toasts and the demo passes  *)
(* of the store (web/lib/store.tsx) and the demo mode (web/lib/demo.tsx).  *)
(*                                                                         *)
(* A demo operation shows a toast, waits, then changes the passes and      *)
(* shows a second toast; several may wait at once.  No page of this commit *)
(* calls them, the store offers them.  Real transactions use the toasts    *)
(* through web/lib/useTxToast.ts, which resolves the one it opened.        *)
(***************************************************************************)
EXTENDS Integers, Sequences, FiniteSets

CONSTANTS
  ToastIds,   \* ids of toasts: bounds how many are on screen
  Catalogue,  \* ids of the passes the store starts with: 1 to some number
  MaxPasses,  \* bound on the passes minted in demo operations
  TypedPrices, \* what may be typed as a price, the empty text included
  NoPrice,    \* undefined
  Days        \* stops of the time-travel scrubber; 0 is none

ASSUME StoreAssumption ==
  /\ IsFiniteSet(Catalogue) /\ Catalogue = 1 .. Cardinality(Catalogue)
  /\ NoPrice \notin TypedPrices
  /\ MaxPasses \in Nat /\ Days \subseteq Nat \ {0}

VARIABLES
  toasts,     \* id of a toast on screen -> its status
  timers,     \* toasts whose dismissal is scheduled
  sending,    \* toasts of real transactions not settled yet
  demoPasses, \* newest first: id, holder, listed or not, and the price asked
  waiting,    \* demo operations between their two toasts
  enabled, timeTravel,  \* demo mode, and the days it adds to the age of passes
  stored      \* the choice of mode kept in localStorage

storeVars == <<toasts, timers, sending, demoPasses, waiting>>
demoVars == <<enabled, timeTravel, stored>>
clientVars == <<storeVars, demoVars>>

Shown == DOMAIN toasts
Fresh == ToastIds \ Shown

(* Whether a pass is listed and at what price are set apart from each other. *)
DemoPass(id, owner, isListed, listingPriceEth) ==
  [id |-> id, owner |-> owner, isListed |-> isListed, listingPriceEth |-> listingPriceEth]

InitialPrice == CHOOSE price \in TypedPrices : price # ""

InitialPasses == [k \in Catalogue |-> DemoPass(k, "others", TRUE, InitialPrice)]

ClientInit ==
  /\ toasts = [t \in {} |-> "pending"] /\ timers = {} /\ sending = {}
  /\ demoPasses = InitialPasses
  /\ waiting = {}
  /\ enabled = FALSE /\ timeTravel = 0 /\ stored \in BOOLEAN

-----------------------------------------------------------------------------
(* Toasts.                                                                 *)

(* addNotification: only what is not pending is scheduled to go. *)
addNotification(board, t, status) ==
  [toasts |-> [u \in DOMAIN board.toasts \cup {t} |->
                 IF u = t THEN status ELSE board.toasts[u]],
   timers |-> IF status # "pending" THEN board.timers \cup {t} ELSE board.timers]

(* Mutant: the toast that was resolved is left to the person to close. *)
UpdateUnscheduled(board, t, status) ==
  [toasts |-> [u \in DOMAIN board.toasts |->
                 IF u = t THEN status ELSE board.toasts[u]],
   timers |-> board.timers]

(* updateNotification: a toast that is gone stays gone. *)
updateNotification(board, t, status) ==
  [toasts |-> [u \in DOMAIN board.toasts |->
                 IF u = t THEN status ELSE board.toasts[u]],
   timers |-> IF status # "pending" THEN board.timers \cup {t} ELSE board.timers]

Board == [toasts |-> toasts, timers |-> timers]
BoardIs(board) == toasts' = board.toasts /\ timers' = board.timers

removeNotification(t) == toasts' = [u \in Shown \ {t} |-> toasts[u]]

(* The cross of a toast. *)
Dismiss(t) ==
  /\ t \in Shown
  /\ removeNotification(t)
  /\ UNCHANGED <<timers, sending, demoPasses, waiting, demoVars>>

(* 6.5 seconds later, whether the toast is still there or not.  Ids are random: one is
   not taken again while a timer holds it. *)
TimerFires(t) ==
  /\ t \in timers
  /\ timers' = timers \ {t}
  /\ removeNotification(t)
  /\ UNCHANGED <<sending, demoPasses, waiting, demoVars>>

NewToast(t) == t \in Fresh \ (timers \cup sending)

(* useTxToast: opened before the wallet is asked ... *)
TxStarts(t) ==
  /\ NewToast(t)
  /\ BoardIs(addNotification(Board, t, "pending"))
  /\ sending' = sending \cup {t}
  /\ UNCHANGED <<demoPasses, waiting, demoVars>>

(* ... and resolved in place, by the receipt or by whatever was thrown. *)
TxSettles(t) ==
  /\ t \in sending
  /\ \E status \in {"success", "error"} : BoardIs(updateNotification(Board, t, status))
  /\ sending' = sending \ {t}
  /\ UNCHANGED <<demoPasses, waiting, demoVars>>

-----------------------------------------------------------------------------
(* Demo operations.                                                        *)

Op(kind, id, price, t) == [kind |-> kind, id |-> id, price |-> price, toast |-> t]

(* newId is taken from the number of passes before the wait. *)
NewId == Len(demoPasses) + 1

(* listPass asks nothing of the price it is given. *)
DemoStarts(kind, id, price, t) ==
  /\ NewToast(t)
  /\ kind = "mint" => id = NewId
  /\ kind # "mint" => id \in Catalogue
  /\ kind # "list" => price = NoPrice
  /\ Len(demoPasses) + Cardinality(waiting) < MaxPasses + Cardinality(Catalogue)
  /\ BoardIs(addNotification(Board, t, "pending"))
  /\ waiting' = waiting \cup {Op(kind, id, price, t)}
  /\ UNCHANGED <<sending, demoPasses, demoVars>>

(* The passes when the wait of an operation is over: whatever has become of the pass
   meanwhile, nothing is asked again. *)
After(op) ==
  IF op.kind = "mint"
  THEN <<DemoPass(op.id, "user", FALSE, NoPrice)>> \o demoPasses
  ELSE [k \in DOMAIN demoPasses |->
          LET p == demoPasses[k] IN
          IF p.id # op.id THEN p
          ELSE CASE op.kind = "buy"    -> [p EXCEPT !.owner = "user", !.isListed = FALSE,
                                                    !.listingPriceEth = NoPrice]
                 [] op.kind = "list"   -> [p EXCEPT !.isListed = TRUE,
                                                    !.listingPriceEth = op.price]
                 [] op.kind = "unlist" -> [p EXCEPT !.isListed = FALSE,
                                                    !.listingPriceEth = NoPrice]]

(* The second toast is a new one: the pending one is left as it is. *)
DemoEnds(op, t) ==
  /\ op \in waiting
  /\ NewToast(t)
  /\ waiting' = waiting \ {op}
  /\ demoPasses' = After(op)
  /\ BoardIs(addNotification(Board, t, "success"))
  /\ UNCHANGED <<sending, demoVars>>

-----------------------------------------------------------------------------
(* Demo mode.                                                              *)

(* The tab is loaded again: nothing is left of the store, and the stored choice of mode
   is read, unless storage is blocked. *)
Reloaded ==
  /\ toasts' = [t \in {} |-> "pending"] /\ timers' = {} /\ sending' = {}
  /\ demoPasses' = InitialPasses /\ waiting' = {}
  /\ enabled' \in {stored, FALSE}
  /\ timeTravel' = 0
  /\ UNCHANGED stored

(* Kept in storage too, if storage takes it. *)
setEnabled(v) ==
  /\ enabled' = v
  /\ timeTravel' = IF v THEN timeTravel ELSE 0
  /\ stored' \in {v, stored}
  /\ UNCHANGED storeVars

(* The bar, which is there in demo mode only: a stop, the stop that is on, or reset. *)
setTimeTravel(days) ==
  /\ enabled
  /\ timeTravel' = IF timeTravel = days THEN 0 ELSE days
  /\ UNCHANGED <<storeVars, enabled, stored>>

(* What the pages take for the end of a pass. *)
shiftExpiry(expiry) == IF enabled THEN expiry - timeTravel ELSE expiry

-----------------------------------------------------------------------------
ClientNext ==
  \/ \E t \in ToastIds :
       \/ Dismiss(t) \/ TimerFires(t) \/ TxStarts(t) \/ TxSettles(t)
       \/ \E kind \in {"buy", "list", "unlist", "mint"}, id \in 1 .. NewId,
             price \in TypedPrices \cup {NoPrice} : DemoStarts(kind, id, price, t)
       \/ \E op \in waiting : DemoEnds(op, t)
  \/ Reloaded
  \/ \E v \in BOOLEAN : setEnabled(v)
  \/ \E days \in Days : setTimeTravel(days)

-----------------------------------------------------------------------------
(* A pending toast goes only by the person's hand ("A pending notification is NOT
   auto-dismissed"), or with the whole tab: no timer of an earlier state of it, or of another toast,
   takes it. *)
PendingStays ==
  [][\A t \in Shown :
       toasts[t] = "pending" /\ t \notin DOMAIN toasts'
                      => Dismiss(t) \/ Reloaded]_clientVars

(* A toast that is settled leaves the screen by itself. *)
SettledLeaves ==
  \A t \in ToastIds :
    (t \in Shown /\ toasts[t] # "pending") ~> (t \notin Shown \/ toasts[t] = "pending")

(* Toasts: those that are pending wait to be resolved, those that are settled go. *)
ToastsSettle == PendingStays /\ SettledLeaves
=============================================================================
