---------------------------- MODULE EscrowYield ----------------------------
(***************************************************************************)
(* The yield escrow (contracts/src/EscrowYield.sol): sale proceeds are     *)
(* locked to the seller's name and supplied to Aave until the seller       *)
(* withdraws them.                                                         *)
(*                                                                         *)
(* aave is the principal supplied to the Aave pool through the WETH        *)
(* gateway on the escrow's behalf.  The interest it earns stays in the     *)
(* pool: withdraw() asks for the principal only.                           *)
(***************************************************************************)
EXTENDS Chain

VARIABLES escrowMarketplace,  \* EscrowYield.marketplace
          lockedBalances, aave

escrowVars == <<escrowMarketplace, lockedBalances, aave>>

EscrowInit ==
  /\ escrowMarketplace = ZERO
  /\ lockedBalances = [h \in Holders |-> 0]
  /\ aave = 0

(* Open to anyone until the link is set.                                   *)
EscrowSetMarketplace(caller, market) ==
  /\ escrowMarketplace = ZERO
  /\ escrowMarketplace' = market
  /\ UNCHANGED <<lockedBalances, aave>>

(* Mutant: the deposit is booked to whoever calls. *)
DepositToSender(sender, seller, value) ==
  /\ sender = escrowMarketplace
  /\ value > 0
  /\ lockedBalances' = Credit(lockedBalances, sender, value)
  /\ aave' = aave + value
  /\ UNCHANGED escrowMarketplace

(* Called within a sale: value arrives with the call and goes on to Aave.  *)
DepositYield(sender, seller, value) ==
  /\ sender = escrowMarketplace
  /\ value > 0
  /\ lockedBalances' = Credit(lockedBalances, seller, value)
  /\ aave' = aave + value
  /\ UNCHANGED escrowMarketplace

(* Mutant: the balance is not cleared. *)
WithdrawAgain(caller) ==
  /\ lockedBalances[caller] \in 1 .. aave
  /\ caller \notin Refusing
  /\ aave' = aave - lockedBalances[caller]
  /\ eth' = Credit(eth, caller, lockedBalances[caller])
  /\ UNCHANGED <<now, escrowMarketplace, lockedBalances>>

Withdraw(caller) ==
  LET principal == lockedBalances[caller]
  IN  /\ principal > 0
      /\ principal <= aave
      /\ caller \notin Refusing
      /\ lockedBalances' = [lockedBalances EXCEPT ![caller] = 0]
      /\ aave' = aave - principal
      /\ eth' = Credit(eth, caller, principal)
      /\ UNCHANGED <<now, escrowMarketplace>>

EscrowTypeOK ==
  /\ escrowMarketplace \in Holders
  /\ lockedBalances \in [Holders -> Nat]
  /\ aave \in Nat

(* What sellers may withdraw is what lies in the pool: no withdrawal starves
   another seller's, and none is refused for want of principal. *)
EscrowBacked == Sum(lockedBalances, Holders) = aave
=============================================================================
