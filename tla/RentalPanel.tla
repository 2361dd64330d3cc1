---------------------------- MODULE RentalPanel ----------------------------
(***************************************************************************)
(* The rental panel of a pass page (web/components/StreamRentalPanel.tsx)  *)
(* in one wallet's tab, over the contracts.  It polls five reads of the    *)
(* chain, each answered by whatever block is the latest then, and offers   *)
(* the controls that the figures call for; polls overlap, fail, and come   *)
(* in late.  What a control sends is sent to the pass of this page.        *)
(***************************************************************************)
EXTENDS LiquidPass, TLC

CONSTANTS
  Me,        \* the connected wallet
  PanelPass, \* the pass of the page
  MaxLoads,  \* bound on the polls in flight
  MaxRuns,   \* bound on the controls pressed
  MaxOutside \* bound on the transactions sent from elsewhere

ASSUME PanelAssumption ==
  /\ Me \in Users /\ PanelPass \in Tokens
  /\ RENTAL \in Recipients \* the panel has the pass handed over
  /\ MaxLoads \in Nat \ {0} /\ MaxRuns \in Nat /\ MaxOutside \in Nat

VARIABLES
  figures,   \* what the last load that came through has found
  loads,     \* loads under way: number of the load -> what it has read so far
  passOwner, \* the owner of the pass as the page last read it
  run,       \* the control that is at work
  runs, outside

panelVars == <<figures, loads, passOwner, run, runs, outside>>

Reads == {"rental", "holder"}
NoRental == [owner |-> ZERO, active |-> ZERO, left |-> FALSE]
NoFigures == [read \in Reads |-> IF read = "rental" THEN NoRental ELSE FALSE]
Rest == [kind |-> "none", arg |-> 0, phase |-> "none", call |-> "none", load |-> 0]

-----------------------------------------------------------------------------
(* Reading.                                                                *)

(* secondsRemaining(id) > 0: a second that the deposit does not pay in full is none. *)
FundedFor(id) ==
  /\ Rented(id) /\ now < expiries[id]
  /\ owed(id) < streams[id].deposit
  /\ (streams[id].deposit - owed(id)) \div streams[id].ratePerSecond > 0

(* What is asked of the rental contract (streams, activeRenter, secondsRemaining) is
   taken as of one block, and ownerOf of another.  Of the seconds left it matters whether
   there are any; what is only shown, the rate and what is owed, is left out. *)
Answer(read) ==
  IF read = "holder" THEN owners[PanelPass] = RENTAL
  ELSE [owner |-> streams[PanelPass].owner, active |-> activeRenter(PanelPass),
        left |-> FundedFor(PanelPass)]

Figures == [read \in Reads |-> Answer(read)]

LoadIds == DOMAIN loads
Begun(n) == loads @@ (n :> [read \in {} |-> ZERO])
Ended(n) == [m \in LoadIds \ {n} |-> loads[m]]
FreeLoad == CHOOSE n \in 1 .. MaxLoads + 1 : n \notin LoadIds

(* Mutant: a timeout in place of the interval. *)
PollOnce ==
  /\ figures = NoFigures /\ Cardinality(LoadIds) < MaxLoads
  /\ loads' = Begun(FreeLoad)
  /\ UNCHANGED <<systemVars, figures, passOwner, run, runs, outside>>

(* Every eight seconds while the tab is visible, whatever has become of earlier polls. *)
Poll ==
  /\ Cardinality(LoadIds) < MaxLoads
  /\ loads' = Begun(FreeLoad)
  /\ UNCHANGED <<systemVars, figures, passOwner, run, runs, outside>>

ReadOne(n, read) ==
  /\ read \notin DOMAIN loads[n]
  /\ loads' = [loads EXCEPT ![n] = @ @@ (read :> Answer(read))]
  /\ UNCHANGED <<systemVars, figures, passOwner, run, runs, outside>>

(* The control that waits for this load is through, and has the page read the pass, which
   may fail: then the panel keeps the pass it was given. *)
RunEnds(n) ==
  IF run.load = n
  THEN run' = Rest /\ passOwner' \in {owners[PanelPass], passOwner}
  ELSE UNCHANGED <<run, passOwner>>

(* All have been answered: the figures of this load replace the others', whichever
   was begun first. *)
LoadLands(n) ==
  /\ DOMAIN loads[n] = Reads
  /\ figures' = loads[n]
  /\ loads' = Ended(n)
  /\ RunEnds(n)
  /\ UNCHANGED <<systemVars, runs, outside>>

(* One read has failed, which is looked at when the others are through: the figures stay
   (a line says that they may be old). *)
LoadFails(n) ==
  /\ DOMAIN loads[n] = Reads
  /\ loads' = Ended(n)
  /\ RunEnds(n)
  /\ UNCHANGED <<systemVars, figures, runs, outside>>

-----------------------------------------------------------------------------
(* The controls.                                                           *)

hasStream == figures["rental"].owner # ZERO
isStreamOwner == figures["rental"].owner = Me
isRenter == figures["rental"].active = Me
Idle == figures["rental"].active = ZERO
escrowed == figures["holder"]

OpenOffered == ~hasStream /\ passOwner = Me
HandOverOffered == isStreamOwner /\ ~escrowed
RepriceOffered == isStreamOwner /\ Idle

(* Mutant: whether somebody is renting is not asked. *)
TakeBackAlways == isStreamOwner /\ escrowed

TakeBackOffered == isStreamOwner /\ escrowed /\ Idle
StartOffered == hasStream /\ escrowed /\ Idle /\ ~isStreamOwner
SettleOffered == ~Idle /\ (isRenter \/ ~figures["rental"].left)

Press(kind, arg, phase) ==
  /\ run = Rest /\ runs < MaxRuns
  /\ run' = [kind |-> kind, arg |-> arg, phase |-> phase, call |-> "send", load |-> 0]
  /\ runs' = runs + 1
  /\ UNCHANGED <<systemVars, figures, loads, passOwner, outside>>

PressSome ==
  \/ OpenOffered /\ \E rate \in Rates \ {0} : Press("open", rate, "asking")
  \/ HandOverOffered /\ Press("escrow", 0, "checking")
  \/ RepriceOffered /\ \E rate \in Rates \ {0} : Press("reprice", rate, "asking")
  \/ TakeBackOffered /\ Press("reclaim", 0, "asking")
  \/ StartOffered /\ \E value \in Deposits : Press("start", value, "asking")
  \/ SettleOffered /\ Press("settle", 0, "asking")

-----------------------------------------------------------------------------
(* The course of a control: wallet, chain, receipt, load.                  *)

OnlyRun == UNCHANGED <<systemVars, figures, loads, passOwner,
                       runs, outside>>

(* transferPass: the listing is read, and withdrawn first if there is one. *)
LookAtListing ==
  /\ run.phase = "checking"
  /\ run' = [run EXCEPT !.phase = "asking",
                        !.call = IF listings[PanelPass].openingPrice > 0
                                 THEN "unlist" ELSE "send"]
  /\ OnlyRun

(* Confirmed, or rejected, or left standing. *)
AnswerWallet ==
  /\ run.phase = "asking"
  /\ run' \in {[run EXCEPT !.phase = "pending"], Rest}
  /\ OnlyRun

AtRental(step) == step /\ UNCHANGED <<escrowVars, marketVars>>

Send ==
  IF run.call = "unlist" THEN Unlist(Me, PanelPass) /\ UNCHANGED streams
  ELSE CASE run.kind = "open"    -> AtRental(OpenStream(Me, PanelPass, run.arg))
         [] run.kind = "escrow"  -> /\ AtRental(TransferPass(Me, RENTAL, PanelPass))
                                    /\ UNCHANGED streams
         [] run.kind = "reprice" -> AtRental(SetRate(Me, PanelPass, run.arg))
         [] run.kind = "reclaim" -> AtRental(Reclaim(Me, PanelPass))
         [] run.kind = "start"   -> AtRental(StartRent(Me, PanelPass, run.arg))
         [] run.kind = "settle"  -> AtRental(Settle(Me, PanelPass))

(* Gas limits are fixed, so that a transaction may fail although its guards hold. *)
SendMined ==
  /\ run.phase = "pending"
  /\ \/ Send /\ run' = [run EXCEPT !.phase = "mined"]
     \/ UNCHANGED systemVars /\ run' = [run EXCEPT !.phase = "reverted"]
  /\ UNCHANGED <<figures, loads, passOwner, runs, outside>>

(* waitForSuccess, and then load(): a revert is an error and ends the control. *)
Await ==
  /\ run.phase \in {"mined", "reverted"}
  /\ \/ /\ run.phase = "reverted"
        /\ run' = Rest /\ UNCHANGED loads
     \/ /\ run.phase = "mined" /\ run.call = "unlist"
        /\ run' = [run EXCEPT !.phase = "asking", !.call = "send"]
        /\ UNCHANGED loads
     \/ /\ run.phase = "mined" /\ run.call = "send"
        /\ run' = [run EXCEPT !.phase = "loading", !.load = FreeLoad]
        /\ loads' = Begun(FreeLoad)
  /\ UNCHANGED <<systemVars, figures, passOwner, runs, outside>>

-----------------------------------------------------------------------------
PanelInit ==
  /\ figures = NoFigures
  /\ loads = [n \in {} |-> ZERO]
  /\ passOwner = ZERO
  /\ run = Rest /\ runs = 0 /\ outside = 0

(* The page of the pass is opened: it has read the pass, and the panel begins to. *)
PanelOpens ==
  /\ owners[PanelPass] # ZERO
  /\ passOwner' = owners[PanelPass]
  /\ loads' = Begun(FreeLoad)
  /\ UNCHANGED <<systemVars, figures, run, runs, outside>>

(* Somebody transacts away from this tab, and time passes. *)
Outside ==
  /\ outside < MaxOutside /\ outside' = outside + 1
  /\ LiquidNext /\ now' = now
  /\ UNCHANGED <<figures, loads, passOwner, run, runs>>

PanelTick ==
  /\ Tick /\ UNCHANGED <<escrowVars, marketVars, streams>>
  /\ UNCHANGED panelVars

PanelNext ==
  \/ Poll
  \/ \E n \in LoadIds :
       (\E read \in Reads : ReadOne(n, read)) \/ LoadLands(n) \/ LoadFails(n)
  \/ PressSome \/ LookAtListing \/ AnswerWallet \/ SendMined \/ Await
  \/ Outside \/ PanelTick

(* Nodes answer in the end, one way or the other, and not every load fails; the tab is
   visible, so that the polling goes on, and blocks are made. *)
PanelFairness ==
  /\ WF_panelVars(Poll)
  /\ \A n \in 1 .. MaxLoads + 1 :
       /\ WF_panelVars(n \in LoadIds /\ \E read \in Reads : ReadOne(n, read))
       /\ WF_panelVars(n \in LoadIds /\ (LoadLands(n) \/ LoadFails(n)))
  /\ SF_panelVars(\E n \in LoadIds : LoadLands(n))
  /\ WF_panelVars(LookAtListing \/ SendMined \/ Await)

-----------------------------------------------------------------------------
(* "Keep the last good figures on screen and say, quietly, that they may be behind":
   once the chain rests the panel comes to show it as it is, whatever polls have failed
   or come in late. *)
FiguresCatchUp == <>[](figures = Figures)

(* When each of the six controls that figures which are right offer is refused, and when it
   is not.  Opening: of a pass that has expired, or changed hands since the page read it.
   Handing over: by an owner of the stream who has parted with the pass.  A new rate, the
   pass back, or a start: while a rental that has ended awaits its settlement, which the
   panel shows as nobody's; a start also where the pass has expired or the budget buys no
   time.  Settling: to all but the renter, who is always paid out - the button the panel
   labels for others ("funds exhausted") appears before the funds are.  In all other cases
   every requirement of the transaction holds, down to payees that take what they are
   sent. *)
OffersAccepted ==
  LET id == PanelPass
      unsettled == Rented(id) /\ Finished(id)
  IN  figures = Figures =>
        /\ OpenOffered =>
             (MayOpen(Me, id) <=> owners[id] = passOwner /\ is_active(id))
        /\ HandOverOffered => (owners[id] = Me <=> owners[id] = streams[id].owner)
        /\ RepriceOffered \/ TakeBackOffered => (OwnedIdle(Me, id) <=> ~unsettled)
        /\ StartOffered => \A value \in Deposits :
             MayStart(Me, id, value)
               <=> ~unsettled /\ is_active(id) /\ BuysTime(Me, id, value)
        /\ SettleOffered => (MaySettle(Me, id) <=> isRenter)

(* "It can be settled by anyone once the budget runs out": the panel offers it then. *)
FinishedSettleOffered ==
  figures = Figures /\ Rented(PanelPass) /\ Finished(PanelPass) => SettleOffered
=============================================================================
