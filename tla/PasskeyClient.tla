--------------------------- MODULE PasskeyClient ---------------------------
(***************************************************************************)
(* The passkey page of the web app (web/app/passkey/page.tsx, with         *)
(* web/lib/passkey.ts) in one tab, beside the wallets of PassKeyWallet.    *)
(* It reads a wallet, has a device make a key and sign the challenge that  *)
(* was read, and says for each thing the contract checks whether it holds. *)
(* It sends nothing: what it signs may be submitted by anybody.            *)
(***************************************************************************)
EXTENDS PassKeyWallet

CONSTANTS
  PageWallet, \* the wallet of the page
  PageOrigin, \* the site that serves it
  NoOp,       \* the call whose challenge is read
  P256_N      \* order of the curve's group: s is 1 .. P256_N - 1

ASSUME PageAssumption ==
  /\ PageWallet \in Wallets /\ PageOrigin \in Origins /\ NoOp \in Calls
  /\ P256_N \in Nat /\ P256_N > 2 /\ P256_N % 2 = 1

VARIABLES
  reading,   \* what the page has read of the wallet
  created,   \* the key it had made, or NoKey
  assertion, \* the last signature: what the device signed, and s as it is shown
  derived,   \* what it says of it
  busy

pageVars == <<reading, created, assertion, derived, busy>>

WalletReads == {"nonce", "pubkey", "challenge"}
Nothing == [of |-> "nothing"]

-----------------------------------------------------------------------------
isHighS(s) == s > P256_N \div 2

(* Mutant: s as the device gave it. *)
AsEmitted(s) == s

(* (r, s) and (r, n - s) sign the same. *)
normalizeS(s) == IF isHighS(s) THEN P256_N - s ELSE s

(* Each read is answered by a block of its own. *)
ReadWallet(read) ==
  CASE read = "nonce"     -> nonce[PageWallet]
    [] read = "pubkey"    -> pubkey[PageWallet]
    [] read = "challenge" -> challenge_preimage(PageWallet, nonce[PageWallet], NoOp)

PageInit ==
  /\ reading = [r \in {} |-> 0]
  /\ created = NoKey /\ assertion = Nothing /\ derived = Nothing
  /\ busy = "none"

(* Once, when the page is opened; a read that fails is not made again. *)
LoadChain(read) ==
  /\ read \notin DOMAIN reading
  /\ reading' = [r \in DOMAIN reading \cup {read} |->
                   IF r = read THEN ReadWallet(read) ELSE reading[r]]
  /\ UNCHANGED <<walletVars, created, assertion, derived, busy>>

(* All the reads are through, so that they are put on the page. *)
Loaded == DOMAIN reading = WalletReads
challenge == reading["challenge"]

-----------------------------------------------------------------------------
(* Sections 1 and 2 of the page: a button waits for the device, and disables both. *)
CreateOffered == busy = "none"
SignOffered == busy = "none" /\ created # NoKey /\ Loaded

Press(button) ==
  /\ busy' = button
  /\ UNCHANGED <<walletVars, reading, created, assertion, derived>>

PressCreate == CreateOffered /\ Press("create")
PressSign == SignOffered /\ Press("sign")

(* The device, or its user, refuses or lets the time run out: only an error is set. *)
CeremonyFails ==
  /\ busy \in {"create", "sign"}
  /\ busy' = "none"
  /\ UNCHANGED <<walletVars, reading, created, assertion, derived>>

(* createPasskey: a key of the one algorithm that the contract verifies.  The bytes the
   device is given are random, and no attestation is asked for, so nothing comes of it
   that a wallet would take. *)
CreatePasskey == Keys

(* handleCreate, when the device has made a key: what was signed with another goes. *)
HandleCreate(key) ==
  /\ busy = "create"
  /\ created' = key
  /\ assertion' = Nothing /\ derived' = Nothing
  /\ busy' = "none"
  /\ UNCHANGED <<walletVars, reading>>

(* signChallenge: what the device signs with the key that was made, and s folded. *)
signChallenge(present, s) ==
  [of |-> "signature",
   a  |-> [key |-> created, ceremony |-> "get", present |-> present,
           origin |-> PageOrigin, challenge |-> challenge],
   s  |-> normalizeS(s), wasHighS |-> isHighS(s)]

(* handleSign, up to setAssertion: the device has shown its user the site, and gives
   either of the two values of s. *)
HandleSign(present, s) ==
  /\ busy = "sign"
  /\ Cardinality(signed) < MaxSigned
  /\ assertion' = signChallenge(present, s)
  /\ signed' = signed \cup {signChallenge(present, s).a}
  /\ busy' = "derive"
  /\ UNCHANGED <<pubkey, nonce, executed, reading, created, derived>>

(* What is found in clientDataJSON behind the first "challenge":" and "origin":", and in
   byte 32 of authenticatorData: a device writes each once, and whole. *)
extractChallenge(a) == a.challenge
extractOrigin(a) == a.origin
parseFlags(a) == [userPresent |-> a.present]

(* The browser's own check of the curve takes both values of s. *)
verifyLocally(key, a) == a.key = key

(* handleSign, after setAssertion: hashes and the check of the curve are awaited, with
   what was said of an earlier signature still on the page. *)
Derive ==
  /\ busy = "derive"
  /\ derived' = [of |-> "signature",
                 originInClientData |-> extractOrigin(assertion.a),
                 flags |-> parseFlags(assertion.a),
                 locallyValid |-> verifyLocally(created, assertion.a),
                 challengeMatches |-> extractChallenge(assertion.a) = challenge]
  /\ busy' = "none"
  /\ UNCHANGED <<walletVars, reading, created, assertion>>

PageNext ==
  \/ \E read \in WalletReads : LoadChain(read)
  \/ PressCreate \/ PressSign \/ CeremonyFails
  \/ \E key \in CreatePasskey : HandleCreate(key)
  \/ \E present \in BOOLEAN, s \in 1 .. P256_N - 1 : HandleSign(present, s)
  \/ Derive

clientVars == <<walletVars, pageVars>>
ClientInit == WalletInit /\ PageInit

(* Whoever else signs and submits does so before, between and after. *)
ClientNext ==
  \/ PageNext
  \/ WalletNext /\ UNCHANGED pageVars

ClientSpec == ClientInit /\ [][ClientNext]_clientVars

-----------------------------------------------------------------------------
(* "Origin binding": the page's origin beside the one compiled into the contract. *)
originMatches == PageOrigin = EXPECTED_ORIGIN

(* Section 3 of the page, "What the contract checks", and that each of them holds. *)
Shown == busy = "none" /\ assertion # Nothing /\ derived # Nothing

AllHold ==
  /\ derived.locallyValid /\ derived.challengeMatches /\ derived.flags.userPresent
  /\ originMatches

(* What the page says of a signature is what the contract says: if the wallet is bound to
   the key that was made and no call has been made since the challenge was read, then
   execute() takes the signature, with s as shown, exactly when everything the page lists
   holds ("Everything below re-derives, in the browser, exactly what the Stylus contract
   re-derives on chain"). *)
VerdictIsContracts ==
  Shown /\ pubkey[PageWallet] = created /\ nonce[PageWallet] = challenge.nonce =>
    (AllHold <=>
       verify_assertion(pubkey[PageWallet], assertion.a, isHighS(assertion.s),
                        challenge_preimage(PageWallet, nonce[PageWallet], NoOp)))
=============================================================================
