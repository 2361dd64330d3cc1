---------------------------- MODULE StreamRental ----------------------------
(***************************************************************************)
(* Pay-per-second rental of a pass (contracts/src/StreamRental.sol) over   *)
(* the core.  The owner opens a stream and then transfers the pass to the  *)
(* contract; a renter deposits ether and is charged by the second until it *)
(* stops, the deposit runs out or the pass expires.                        *)
(***************************************************************************)
EXTENDS PassCore

CONSTANTS
  RENTAL,      \* the contract's address
  RentalUsers, \* accounts that send transactions
  RentalPlan,  \* [price, duration] of the plan on sale
  Rates,       \* rates tried by openStream and setRate
  Deposits     \* message values tried by startRent

(* The contract has no receive(): ether reaches it as a deposit only.      *)
ASSUME RentalAssumption ==
  /\ RENTAL \in Refusing /\ InitEth[RENTAL] = 0
  /\ RENTAL \in Addr /\ RentalUsers \subseteq Addr \ {RENTAL}
  /\ RentalPlan \in [price : Nat, duration : Nat]
  /\ Rates \subseteq Nat /\ Deposits \subseteq Nat

VARIABLE streams

rentalVars == <<coreVars, streams>>

NoStream == [owner |-> ZERO, ratePerSecond |-> 0, renter |-> ZERO,
             startedAt |-> 0, deposit |-> 0]

-----------------------------------------------------------------------------
Rented(id) == streams[id].renter # ZERO

Earlier(s, t) == IF s <= t THEN s ELSE t

(* Accrued cost: time stops at the pass's expiry, money at the deposit.    *)
owed(id) ==
  LET s == streams[id]
      endsAt == Earlier(now, expiries[id])
  IN  IF ~Rented(id) \/ endsAt <= s.startedAt
      THEN 0
      ELSE Earlier((endsAt - s.startedAt) * s.ratePerSecond, s.deposit)

activeRenter(id) ==
  IF now < expiries[id] /\ owed(id) < streams[id].deposit
  THEN streams[id].renter ELSE ZERO

(* What a deposit buys, in whole seconds, within the life of the pass.     *)
MaxSeconds(id, deposit, rate) ==
  IF now >= expiries[id] THEN 0
  ELSE Earlier(deposit \div rate, expiries[id] - now)

-----------------------------------------------------------------------------
(* Owner side.                                                             *)

(* What openStream() requires of the caller and the pass. *)
MayOpen(caller, id) == owners[id] = caller /\ is_active(id) /\ ~Rented(id)

OpenStream(caller, id, rate) ==
  /\ rate > 0
  /\ MayOpen(caller, id)
  /\ streams' = [streams EXCEPT ![id] =
       [@ EXCEPT !.owner = caller, !.ratePerSecond = rate,
                 !.startedAt = 0, !.deposit = 0]]
  /\ UNCHANGED coreVars

(* What setRate() and reclaim() require: the caller's stream, and nobody renting. *)
OwnedIdle(caller, id) == streams[id].owner = caller /\ ~Rented(id)

(* Mutant: the rate may change under a renter. *)
SetRateAnytime(caller, id, rate) ==
  /\ rate > 0
  /\ streams[id].owner = caller
  /\ streams' = [streams EXCEPT ![id].ratePerSecond = rate]
  /\ UNCHANGED coreVars

SetRate(caller, id, rate) ==
  /\ rate > 0
  /\ OwnedIdle(caller, id)
  /\ streams' = [streams EXCEPT ![id].ratePerSecond = rate]
  /\ UNCHANGED coreVars

(* Mutant: a running rental does not stop the owner. *)
ReclaimRented(caller, id) ==
  /\ streams[id].owner = caller
  /\ streams' = [streams EXCEPT ![id] = NoStream]
  /\ \/ owners[id] = RENTAL /\ MovePass(id, caller)
     \/ owners[id] # RENTAL /\ UNCHANGED tokenVars
  /\ UNCHANGED <<now, eth, planVars, roleVars>>

(* The entry goes; the pass comes back if the contract has it.             *)
Reclaim(caller, id) ==
  /\ OwnedIdle(caller, id)
  /\ streams' = [streams EXCEPT ![id] = NoStream]
  /\ \/ owners[id] = RENTAL /\ MovePass(id, caller)
     \/ owners[id] # RENTAL /\ UNCHANGED tokenVars
  /\ UNCHANGED <<now, eth, planVars, roleVars>>

-----------------------------------------------------------------------------
(* Renter side.                                                            *)

Offered(id) ==
  /\ streams[id].owner # ZERO
  /\ ~Rented(id)
  /\ owners[id] = RENTAL
  /\ is_active(id)

(* The deposit is there to be sent, and buys time. *)
BuysTime(caller, id, value) ==
  /\ 0 < value /\ value <= eth[caller]
  /\ MaxSeconds(id, value, streams[id].ratePerSecond) > 0

(* What startRent() requires. *)
MayStart(caller, id, value) ==
  Offered(id) /\ caller # streams[id].owner /\ BuysTime(caller, id, value)

StartRent(caller, id, value) ==
  /\ MayStart(caller, id, value)
  /\ streams' = [streams EXCEPT ![id] =
       [@ EXCEPT !.renter = caller, !.startedAt = now, !.deposit = value]]
  /\ eth' = Payment(eth, caller, RENTAL, value)
  /\ UNCHANGED <<now, tokenVars, planVars, roleVars>>

(* Mutant: only an empty deposit ends a rental, not the end of the pass. *)
DepositSpent(id) == owed(id) >= streams[id].deposit

Finished(id) == owed(id) >= streams[id].deposit \/ now >= expiries[id]

Royalty(due) == (due * 10) \div 100

(* Mutant: the royalty is paid on top. *)
WholeShare(due) == due

OwnerShare(due) == due - Royalty(due)

(* What settle() requires.  It makes three payments, and all of them must be taken: one
   refusal reverts the settlement.  Nothing is sent where nothing is due. *)
MaySettle(caller, id) ==
  LET s == streams[id]
      due == owed(id)
      taken(payee, amount) == amount > 0 => payee \notin Refusing
  IN  /\ Rented(id)
      /\ caller = s.renter \/ Finished(id)
      /\ taken(s.owner, OwnerShare(due)) /\ taken(issuers[id], Royalty(due))
      /\ taken(s.renter, s.deposit - due)

Settle(caller, id) ==
  LET s == streams[id]
      due == owed(id)
      refund == s.deposit - due
  IN  /\ MaySettle(caller, id)
      /\ streams' = [streams EXCEPT ![id] =
           [@ EXCEPT !.renter = ZERO, !.startedAt = 0, !.deposit = 0]]
      /\ eth' = Payment(Payment(Payment(eth, RENTAL, s.owner, OwnerShare(due)),
                                RENTAL, issuers[id], Royalty(due)),
                        RENTAL, s.renter, refund)
      /\ UNCHANGED <<now, tokenVars, planVars, roleVars>>

-----------------------------------------------------------------------------
RentalInit ==
  /\ DeployedWithPlan(ZERO, RentalPlan.price, RentalPlan.duration)
  /\ streams = [i \in Tokens |-> NoStream]

RentalStep(caller) ==
  \E id \in Tokens :
    \/ \E rate \in Rates : OpenStream(caller, id, rate) \/ SetRate(caller, id, rate)
    \/ Reclaim(caller, id)
    \/ \E value \in Deposits : StartRent(caller, id, value)
    \/ Settle(caller, id)

RentalTick == Tick /\ UNCHANGED streams

RentalNext ==
  \/ RentalTick
  \/ \E caller \in RentalUsers :
       \/ (IssueStep(caller) \/ HolderStep(caller)) /\ UNCHANGED streams
       \/ RentalStep(caller)

(* Time does not stop, and a stream's owner settles a rental that has finished
   and takes back a pass that is idle.  Nothing is asked of renters. *)
RentalFairness ==
  /\ WF_rentalVars(RentalTick)
  /\ \A u \in RentalUsers, i \in Tokens :
       /\ WF_rentalVars(streams[i].owner = u /\ Settle(u, i))
       /\ WF_rentalVars(Reclaim(u, i))

RentalSpec == RentalInit /\ [][RentalNext]_rentalVars /\ RentalFairness

-----------------------------------------------------------------------------
RentalTypeOK ==
  /\ TypeOK
  /\ streams \in [Tokens -> [owner : Holders, ratePerSecond : Nat,
                             renter : Holders, startedAt : Nat, deposit : Nat]]

(* The contract holds exactly the deposits of the rentals that are running, so
   every one of them can be settled in full. *)
Deposited == [i \in Tokens |-> streams[i].deposit]
RentalSolvent == eth[RENTAL] = Sum(Deposited, Tokens)

(* A pass is in custody for as long as it is rented: nobody pays for a pass that
   has gone, and its owner cannot pull it from under the renter. *)
RentedPassHeld == \A i \in Tokens : Rented(i) => owners[i] = RENTAL

(* The terms of a rental do not change while it runs: not the rate, the start,
   the deposit or who is paid. *)
RentalTermsFixed ==
  [][\A i \in Tokens : Rented(i) =>
       \/ streams'[i] = streams[i]
       \/ streams'[i].renter = ZERO /\ streams'[i].owner = streams[i].owner]_rentalVars

(* A pass in custody leaves it only for the owner of its stream. *)
CustodyReturns ==
  [][\A i \in Tokens :
       owners[i] = RENTAL /\ owners'[i] # RENTAL
         => owners'[i] = streams[i].owner]_rentalVars

(* A renter who loses access before the deposit has run out is refunded all of
   the time not used, at once. *)
UnusedTimeRefunded ==
  [][\A i \in Tokens :
       LET renter == activeRenter(i)
       IN  renter # ZERO /\ activeRenter(i)' # renter /\ now' = now
             => eth'[renter] - eth[renter] >= streams[i].deposit - owed(i)]_rentalVars

(* An owner is never held hostage by a renter who walks away: a pass in custody
   under a stream comes back once its owner wants it. *)
CustodyEnds ==
  \A i \in Tokens :
    (owners[i] = RENTAL /\ streams[i].owner # ZERO /\ expiries[i] <= MaxTime)
      ~> (owners[i] # RENTAL)
=============================================================================
