--------------------------- MODULE PassKeyWallet ---------------------------
(***************************************************************************)
(* The passkey wallet (contracts/src/lib.rs, contracts/src/webauthn.rs): a *)
(* contract account that makes a call when it is shown an assertion signed *)
(* for that call by the device it is bound to.                             *)
(*                                                                         *)
(* Several deployments share the chain, and a device may be bound to more  *)
(* than one.  Assertions outlive the moment they are made for: anyone may  *)
(* submit one, at any later time, to any deployment, with any call, and    *)
(* with either of the two values of s that verify.  Hashes are taken to be *)
(* injective, signatures to be made by devices only.                       *)
(***************************************************************************)
EXTENDS Naturals, Sequences, FiniteSets

CONSTANTS
  Wallets,   \* deployments of the contract
  Keys,      \* P-256 public keys, one per device
  NoKey,     \* the coordinates (0, 0)
  Calls,     \* what a wallet can be asked to do: target, value and data
  Origins,   \* sites at which a device may be asked to sign
  EXPECTED_ORIGIN,
  MaxNonce,  \* bound on the nonce, 2^64 - 1 in the code
  MaxSigned  \* bound on the assertions devices make

ASSUME WalletAssumption ==
  /\ NoKey \notin Keys
  /\ EXPECTED_ORIGIN \in Origins
  /\ MaxNonce \in Nat /\ MaxSigned \in Nat

VARIABLES
  pubkey, nonce,
  signed,   \* assertions devices have made
  executed  \* of each wallet, the Executed events: the call, and what allowed it

walletVars == <<pubkey, nonce, signed, executed>>

-----------------------------------------------------------------------------
(* Mutant: the preimage leaves the contract's address out. *)
UnaddressedChallenge(wallet, n, call) ==
  [wallet |-> CHOOSE w \in Wallets : TRUE, nonce |-> n, call |-> call]

(* The hash of domain, contract address, nonce, target, value and data: each
   but the last has a fixed width, so no two preimages coincide. *)
challenge_preimage(wallet, n, call) ==
  [wallet |-> wallet, nonce |-> n, call |-> call]

(* What a device makes of a challenge: the ceremony it took part in, whether
   somebody was present, and the signature. *)
Assertions ==
  [key : Keys, ceremony : {"create", "get"}, present : BOOLEAN, origin : Origins,
   challenge : [wallet : Wallets, nonce : 0 .. MaxNonce, call : Calls]]

(* high_s tells which of the two values of s was submitted.                *)
verify_assertion(key, a, high_s, challenge) ==
  /\ a.present
  /\ a.ceremony = "get"
  /\ a.origin = EXPECTED_ORIGIN
  /\ a.challenge = challenge
  /\ ~high_s
  /\ a.key = key

-----------------------------------------------------------------------------
WalletInit ==
  /\ pubkey = [w \in Wallets |-> NoKey]
  /\ nonce = [w \in Wallets |-> 0]
  /\ signed = {}
  /\ executed = [w \in Wallets |-> << >>]

is_registered(w) == pubkey[w] # NoKey

(* Open to anyone until a key is bound.  (0, 0) is refused; coordinates that are
   no point of the curve are not. *)
Register(w, key) ==
  /\ ~is_registered(w)
  /\ key # NoKey
  /\ pubkey' = [pubkey EXCEPT ![w] = key]
  /\ UNCHANGED <<nonce, signed, executed>>

(* A client reads get_challenge() and has a device sign it, or a site has the
   device take part in another ceremony over the same bytes. *)
Sign(key, w, call, origin, ceremony, present) ==
  /\ Cardinality(signed) < MaxSigned
  /\ signed' = signed \cup
       {[key |-> key, ceremony |-> ceremony, present |-> present, origin |-> origin,
         challenge |-> challenge_preimage(w, nonce[w], call)]}
  /\ UNCHANGED <<pubkey, nonce, executed>>

(* Mutant: the nonce stays. *)
ExecuteUncounted(w, call, a, high_s) ==
  /\ is_registered(w)
  /\ verify_assertion(pubkey[w], a, high_s, challenge_preimage(w, nonce[w], call))
  /\ executed' = [executed EXCEPT ![w] = Append(@, [call |-> call, by |-> a])]
  /\ UNCHANGED <<pubkey, nonce, signed>>

(* The call the wallet makes may fail, and then the transaction leaves no trace:
   the nonce is as before, and the assertion can be submitted again. *)
Execute(w, call, a, high_s) ==
  /\ is_registered(w)
  /\ nonce[w] < MaxNonce
  /\ verify_assertion(pubkey[w], a, high_s, challenge_preimage(w, nonce[w], call))
  /\ nonce' = [nonce EXCEPT ![w] = @ + 1]
  /\ executed' = [executed EXCEPT ![w] = Append(@, [call |-> call, by |-> a])]
  /\ UNCHANGED <<pubkey, signed>>

WalletNext ==
  \/ \E w \in Wallets, key \in Keys \cup {NoKey} : Register(w, key)
  \/ \E key \in Keys, w \in Wallets, call \in Calls, origin \in Origins,
        ceremony \in {"create", "get"}, present \in BOOLEAN :
       Sign(key, w, call, origin, ceremony, present)
  \/ \E w \in Wallets, call \in Calls, a \in signed, high_s \in BOOLEAN :
       Execute(w, call, a, high_s)

WalletSpec == WalletInit /\ [][WalletNext]_walletVars

-----------------------------------------------------------------------------
Execution == [call : Calls, by : Assertions]

WalletTypeOK ==
  /\ pubkey \in [Wallets -> Keys \cup {NoKey}]
  /\ nonce \in [Wallets -> 0 .. MaxNonce]
  /\ signed \subseteq Assertions
  /\ executed \in [Wallets -> Seq(Execution)]

(* One signature, one call: however often an assertion is submitted, to whichever
   deployments, it is acted on at most once ("an assertion cannot be replayed
   against another transaction or another deployment"). *)
ActedOnOnce ==
  \A v, w \in Wallets : \A i \in 1 .. Len(executed[v]), j \in 1 .. Len(executed[w]) :
    executed[v][i].by = executed[w][j].by => v = w /\ i = j

(* What a wallet did, it was asked to do: the n-th call was signed as such by the
   device the wallet is bound to, in a "get" ceremony at the expected site with
   somebody present, for this wallet and for its n-th turn. *)
CallsAreSigned ==
  \A w \in Wallets :
    /\ Len(executed[w]) = nonce[w]
    /\ \A i \in 1 .. Len(executed[w]) :
         LET a == executed[w][i].by
         IN  /\ a \in signed
             /\ a.key = pubkey[w] /\ a.ceremony = "get"
             /\ a.present /\ a.origin = EXPECTED_ORIGIN
             /\ a.challenge = [wallet |-> w, nonce |-> i - 1,
                               call |-> executed[w][i].call]

(* A wallet is bound once, for good. *)
BindingIsFinal ==
  [][\A w \in Wallets : pubkey[w] # NoKey => pubkey'[w] = pubkey[w]]_walletVars
=============================================================================
