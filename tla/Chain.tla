------------------------------- MODULE Chain -------------------------------
(***************************************************************************)
(* What every contract of Liquid Pass runs on: accounts, the ether they    *)
(* hold, and the block timestamp.  A transaction is atomic: it happens     *)
(* whole, or reverts and leaves no trace.  Between transactions time may   *)
(* pass.                                                                   *)
(***************************************************************************)
EXTENDS Integers, Sums

CONSTANTS
  Addr,      \* accounts: people and contracts
  ZERO,      \* the zero address, which never sends a transaction
  Refusing,  \* accounts that revert when they are sent ether
  InitEth,   \* wei held by each account to begin with
  MaxTime    \* bound on the block timestamp

Holders == Addr \cup {ZERO}

ASSUME AccountsAssumption ==
  /\ ZERO \notin Addr /\ IsFiniteSet(Addr)
  /\ Refusing \subseteq Addr
  /\ InitEth \in [Holders -> Nat]
ASSUME MaxTimeAssumption == MaxTime \in Nat \ {0}

VARIABLES
  now,  \* timestamp of the next block
  eth   \* wei held by each account; what is sent to ZERO is out of reach

ChainInit == now = 1 /\ eth = InitEth

TimePasses ==
  /\ now < MaxTime
  /\ now' = now + 1
  /\ UNCHANGED eth

Payment(sheet, from, to, amount) == Credit(Debit(sheet, from, amount), to, amount)

ChainTypeOK == now \in 1 .. MaxTime /\ eth \in [Holders -> Nat]
=============================================================================
