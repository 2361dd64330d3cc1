---------------------------- MODULE PasskeyProofs ----------------------------
(***************************************************************************)
(* Theorems about the passkey wallets, and about the page that signs for   *)
(* them: signatures that answer a challenge read some time ago are no      *)
(* danger to them, and what the page says of a signature is what the       *)
(* contract says, for every odd order of the curve and any number of       *)
(* deployments, devices and calls.                                         *)
(***************************************************************************)
EXTENDS PasskeyClient, SequenceTheorems, TLAPS

-----------------------------------------------------------------------------
(* The wallets alone.                                                      *)

(* What a wallet did it was asked to do, by assertions of the right type.  *)
WalletInv == WalletTypeOK /\ CallsAreSigned

LEMMA WalletInitInv == WalletInit => WalletInv
  BY WalletAssumption
  DEF WalletInit, WalletInv, WalletTypeOK, CallsAreSigned

LEMMA RegisterInv ==
  ASSUME WalletInv, NEW w \in Wallets, NEW key \in Keys \cup {NoKey}, Register(w, key)
  PROVE  WalletInv'
  <1>1. pubkey[w] = NoKey /\ pubkey' = [pubkey EXCEPT ![w] = key]
    BY DEF Register, is_registered
  <1>2. UNCHANGED <<nonce, signed, executed>>
    BY DEF Register
  <1>3. WalletTypeOK'
    BY <1>1, <1>2 DEF WalletInv, WalletTypeOK
  (* A wallet that has done something is bound, so it is not this one. *)
  <1>4. executed[w] = << >>
    <2> SUFFICES ASSUME executed[w] # << >> PROVE FALSE
      OBVIOUS
    <2>1. executed[w] \in Seq(Execution)
      BY DEF WalletInv, WalletTypeOK
    <2>2. 1 \in 1 .. Len(executed[w])
      BY <2>1, EmptySeq, LenProperties
    <2>3. executed[w][1].by \in signed /\ executed[w][1].by.key = NoKey
      BY <1>1, <2>2 DEF WalletInv, CallsAreSigned
    <2>4. executed[w][1].by.key \in Keys
      BY <2>3 DEF WalletInv, WalletTypeOK, Assertions
    <2> QED
      BY <2>3, <2>4, WalletAssumption
  <1>5. CallsAreSigned'
    <2> SUFFICES ASSUME NEW v \in Wallets
                 PROVE  /\ Len(executed[v]) = nonce[v]
                        /\ \A i \in 1 .. Len(executed[v]) :
                             LET a == executed[v][i].by
                             IN  /\ a \in signed
                                 /\ a.key = pubkey'[v] /\ a.ceremony = "get"
                                 /\ a.present /\ a.origin = EXPECTED_ORIGIN
                                 /\ a.challenge = [wallet |-> v, nonce |-> i - 1,
                                                   call |-> executed[v][i].call]
      BY <1>2 DEF CallsAreSigned
    <2>1. CASE v = w
      BY <1>4, <2>1, EmptySeq DEF WalletInv, CallsAreSigned
    <2>2. CASE v # w
      <3>1. pubkey'[v] = pubkey[v]
        BY <1>1, <2>2 DEF WalletInv, WalletTypeOK
      <3> QED
        BY <3>1 DEF WalletInv, CallsAreSigned
    <2> QED
      BY <2>1, <2>2
  <1> QED
    BY <1>3, <1>5 DEF WalletInv

LEMMA SignInv ==
  ASSUME WalletInv, NEW key \in Keys, NEW w \in Wallets, NEW call \in Calls,
         NEW origin \in Origins, NEW ceremony \in {"create", "get"},
         NEW present \in BOOLEAN, Sign(key, w, call, origin, ceremony, present)
  PROVE  WalletInv'
  <1> DEFINE a == [key |-> key, ceremony |-> ceremony, present |-> present,
                   origin |-> origin,
                   challenge |-> challenge_preimage(w, nonce[w], call)]
  <1>1. signed' = signed \cup {a} /\ UNCHANGED <<pubkey, nonce, executed>>
    BY DEF Sign
  <1>2. nonce[w] \in 0 .. MaxNonce
    BY DEF WalletInv, WalletTypeOK
  <1>3. a \in Assertions
    BY <1>2 DEF Assertions, challenge_preimage
  <1> HIDE DEF a
  <1>4. WalletTypeOK'
    BY <1>1, <1>3 DEF WalletInv, WalletTypeOK
  <1>5. CallsAreSigned'
    BY <1>1 DEF WalletInv, CallsAreSigned
  <1> QED
    BY <1>4, <1>5 DEF WalletInv

LEMMA ExecuteInv ==
  ASSUME WalletInv, NEW w \in Wallets, NEW call \in Calls, NEW a \in signed,
         NEW high_s \in BOOLEAN, Execute(w, call, a, high_s)
  PROVE  WalletInv'
  <1> DEFINE e == [call |-> call, by |-> a]
  <1>1. /\ nonce' = [nonce EXCEPT ![w] = @ + 1]
        /\ executed' = [executed EXCEPT ![w] = Append(executed[w], e)]
        /\ UNCHANGED <<pubkey, signed>>
        /\ nonce[w] < MaxNonce
    BY DEF Execute
  <1>2. /\ a.present /\ a.ceremony = "get" /\ a.origin = EXPECTED_ORIGIN
        /\ a.key = pubkey[w]
        /\ a.challenge = [wallet |-> w, nonce |-> nonce[w], call |-> call]
    BY DEF Execute, verify_assertion, challenge_preimage
  <1>3. /\ executed[w] \in Seq(Execution) /\ e \in Execution
        /\ nonce[w] \in Nat /\ Len(executed[w]) = nonce[w]
    <2>1. executed[w] \in Seq(Execution) /\ a \in Assertions
      BY DEF WalletInv, WalletTypeOK
    <2>2. e \in Execution
      BY <2>1 DEF Execution
    <2>3. nonce[w] \in Nat
      BY WalletAssumption DEF WalletInv, WalletTypeOK
    <2>4. Len(executed[w]) = nonce[w]
      BY DEF WalletInv, CallsAreSigned
    <2> QED
      BY <2>1, <2>2, <2>3, <2>4
  <1>4. /\ executed'[w] = Append(executed[w], e)
        /\ \A v \in Wallets \ {w} : executed'[v] = executed[v]
        /\ nonce'[w] = nonce[w] + 1
        /\ \A v \in Wallets \ {w} : nonce'[v] = nonce[v]
    BY <1>1 DEF WalletInv, WalletTypeOK
  <1> HIDE DEF e
  <1>5. /\ executed'[w] \in Seq(Execution)
        /\ Len(executed'[w]) = nonce[w] + 1
        /\ \A i \in 1 .. nonce[w] : executed'[w][i] = executed[w][i]
        /\ executed'[w][nonce[w] + 1] = e
    BY <1>3, <1>4, AppendProperties
  <1>6. WalletTypeOK'
    <2>1. nonce' \in [Wallets -> 0 .. MaxNonce]
      BY <1>1, <1>3, WalletAssumption DEF WalletInv, WalletTypeOK
    <2>2. executed' \in [Wallets -> Seq(Execution)]
      BY <1>1, <1>4, <1>5 DEF WalletInv, WalletTypeOK
    <2> QED
      BY <1>1, <2>1, <2>2 DEF WalletInv, WalletTypeOK
  <1>7. CallsAreSigned'
    <2> DEFINE Signed(v, i, x) ==
                 /\ x.by \in signed
                 /\ x.by.key = pubkey[v] /\ x.by.ceremony = "get"
                 /\ x.by.present /\ x.by.origin = EXPECTED_ORIGIN
                 /\ x.by.challenge = [wallet |-> v, nonce |-> i - 1, call |-> x.call]
    <2>1. \A v \in Wallets : /\ Len(executed[v]) = nonce[v]
                             /\ \A i \in 1 .. Len(executed[v]) : Signed(v, i, executed[v][i])
      BY DEF WalletInv, CallsAreSigned
    <2>2. Signed(w, nonce[w] + 1, e)
      BY <1>2, <1>3 DEF e
    <2> HIDE DEF Signed
    <2>3. \A v \in Wallets : /\ Len(executed'[v]) = nonce'[v]
                             /\ \A i \in 1 .. Len(executed'[v]) : Signed(v, i, executed'[v][i])
      BY <1>3, <1>4, <1>5, <2>1, <2>2
    <2> QED
      BY <1>1, <2>3 DEF CallsAreSigned, Signed
  <1> QED
    BY <1>6, <1>7 DEF WalletInv

LEMMA WalletStepInv == WalletInv /\ [WalletNext]_walletVars => WalletInv'
  <1> SUFFICES ASSUME WalletInv, [WalletNext]_walletVars PROVE WalletInv'
    OBVIOUS
  <1>1. CASE UNCHANGED walletVars
    BY <1>1 DEF walletVars, WalletInv, WalletTypeOK, CallsAreSigned
  <1>2. CASE WalletNext
    BY <1>2, RegisterInv, SignInv, ExecuteInv DEF WalletNext
  <1> QED
    BY <1>1, <1>2

LEMMA WalletInvariant == WalletSpec => []WalletInv
  BY WalletInitInv, WalletStepInv, PTL DEF WalletSpec

(* CallsAreSigned for any number of deployments and devices: the n-th call of a
   wallet was signed by its device, for that wallet and that turn. *)
THEOREM OnlySignedCalls == WalletSpec => []CallsAreSigned
  <1>1. WalletInv => CallsAreSigned
    BY DEF WalletInv
  <1> QED
    BY <1>1, WalletInvariant, PTL

(* ActedOnOnce follows: the challenge an assertion answers names the wallet and the
   turn, so it can stand behind one call only. *)
THEOREM NoReplay == WalletSpec => []ActedOnOnce
  <1>1. WalletInv => ActedOnOnce
    <2> SUFFICES ASSUME WalletInv, NEW v \in Wallets, NEW w \in Wallets,
                        NEW i \in 1 .. Len(executed[v]), NEW j \in 1 .. Len(executed[w]),
                        executed[v][i].by = executed[w][j].by
                 PROVE  v = w /\ i = j
      BY DEF ActedOnOnce
    <2>1. executed[v][i].by.challenge
            = [wallet |-> v, nonce |-> i - 1, call |-> executed[v][i].call]
      BY DEF WalletInv, CallsAreSigned
    <2>2. executed[w][j].by.challenge
            = [wallet |-> w, nonce |-> j - 1, call |-> executed[w][j].call]
      BY DEF WalletInv, CallsAreSigned
    <2>3. v = w /\ i - 1 = j - 1
      BY <2>1, <2>2
    <2>4. executed[v] \in Seq(Execution) /\ executed[w] \in Seq(Execution)
      BY DEF WalletInv, WalletTypeOK
    <2>5. Len(executed[v]) \in Nat /\ Len(executed[w]) \in Nat
      BY <2>4, LenProperties
    <2>6. i \in Int /\ j \in Int
      BY <2>5
    <2> QED
      BY <2>3, <2>6
  <1> QED
    BY <1>1, WalletInvariant, PTL

(* BindingIsFinal: once bound, a wallet stays bound to the same device. *)
THEOREM BoundForGood == WalletSpec => BindingIsFinal
  <1>1. WalletInv /\ [WalletNext]_walletVars
          => [\A w \in Wallets : pubkey[w] # NoKey => pubkey'[w] = pubkey[w]]_walletVars
    <2> SUFFICES ASSUME WalletInv, WalletNext, NEW w \in Wallets, pubkey[w] # NoKey
                 PROVE  pubkey'[w] = pubkey[w]
      OBVIOUS
    <2>1. pubkey \in [Wallets -> Keys \cup {NoKey}]
      BY DEF WalletInv, WalletTypeOK
    <2>2. ASSUME NEW v \in Wallets, NEW key \in Keys \cup {NoKey}, Register(v, key)
          PROVE  pubkey'[w] = pubkey[w]
      BY <2>1, <2>2 DEF Register, is_registered
    <2> QED
      BY <2>2 DEF WalletNext, Sign, Execute
  <1> QED
    BY <1>1, WalletInvariant, PTL DEF WalletSpec, BindingIsFinal

-----------------------------------------------------------------------------
(* The page beside them.                                                   *)

(* What the page has read stays what the wallet once said. *)
ChallengeRead ==
  "challenge" \in DOMAIN reading =>
    \E n \in 0 .. MaxNonce : challenge = challenge_preimage(PageWallet, n, NoOp)

(* The signature on the page is one of the key and of the challenge on the page. *)
AssertionIsOurs ==
  \/ assertion = Nothing
  \/ /\ Loaded /\ created \in Keys
     /\ \E present \in BOOLEAN, s \in 1 .. P256_N - 1 : assertion = signChallenge(present, s)

Said(a) ==
  [of |-> "signature", originInClientData |-> extractOrigin(a), flags |-> parseFlags(a),
   locallyValid |-> verifyLocally(created, a),
   challengeMatches |-> extractChallenge(a) = challenge]

(* What is said is said of it, but for the moment in which hashes are awaited. *)
SaidOfAssertion ==
  /\ busy = "derive" => assertion # Nothing
  /\ busy # "derive" /\ derived # Nothing =>
       assertion # Nothing /\ derived = Said(assertion.a)

PageInv ==
  /\ ChallengeRead
  /\ created \in Keys \cup {NoKey}
  /\ busy = "sign" => created \in Keys /\ Loaded
  /\ AssertionIsOurs
  /\ SaidOfAssertion

(* Of (r, s) and (r, n - s), the one kept is the low one. *)
LEMMA FoldedIsLow ==
  ASSUME NEW s \in 1 .. P256_N - 1
  PROVE  normalizeS(s) \in 1 .. P256_N - 1 /\ ~isHighS(normalizeS(s))
  <1>1. PICK h \in Nat : P256_N = 2 * h + 1 /\ P256_N \div 2 = h
    BY PageAssumption
  <1> QED
    BY <1>1 DEF normalizeS, isHighS

(* An assertion more, of whatever nonce, leaves the wallets as they are. *)
LEMMA OneMoreSigned ==
  ASSUME WalletInv, NEW a \in Assertions, signed' = signed \cup {a},
         UNCHANGED <<pubkey, nonce, executed>>
  PROVE  WalletInv'
  <1>1. WalletTypeOK'
    BY DEF WalletInv, WalletTypeOK
  <1>2. CallsAreSigned'
    BY DEF WalletInv, CallsAreSigned
  <1> QED
    BY <1>1, <1>2 DEF WalletInv

LEMMA ClientInitInv == WalletInit /\ PageInit => WalletInv /\ PageInv
  BY WalletInitInv
  DEF PageInit, PageInv, ChallengeRead, AssertionIsOurs, SaidOfAssertion

LEMMA SignedIsAssertion ==
  ASSUME PageInv, busy = "sign", NEW present \in BOOLEAN, NEW s \in 1 .. P256_N - 1
  PROVE  signChallenge(present, s).a \in Assertions
  <1>1. created \in Keys /\ "challenge" \in DOMAIN reading
    BY DEF PageInv, Loaded, WalletReads
  <1>2. PICK n \in 0 .. MaxNonce : challenge = challenge_preimage(PageWallet, n, NoOp)
    BY <1>1 DEF PageInv, ChallengeRead
  <1> QED
    BY <1>1, <1>2, PageAssumption
    DEF signChallenge, Assertions, challenge_preimage

LEMMA HandleSignInv ==
  ASSUME WalletInv, PageInv, NEW present \in BOOLEAN, NEW s \in 1 .. P256_N - 1,
         HandleSign(present, s)
  PROVE  WalletInv' /\ PageInv'
  <1>1. /\ busy = "sign" /\ busy' = "derive" /\ assertion' = signChallenge(present, s)
        /\ signed' = signed \cup {signChallenge(present, s).a}
        /\ UNCHANGED <<pubkey, nonce, executed, reading, created, derived>>
    BY DEF HandleSign
  <1>2. WalletInv'
    BY <1>1, SignedIsAssertion, OneMoreSigned
  <1>3. assertion' # Nothing
    BY <1>1 DEF signChallenge, Nothing
  <1>4. signChallenge(present, s)' = signChallenge(present, s)
    BY <1>1 DEF signChallenge, challenge
  <1>5. AssertionIsOurs'
    BY <1>1, <1>4 DEF PageInv, AssertionIsOurs, Loaded
  <1>6. PageInv'
    BY <1>1, <1>3, <1>5
    DEF PageInv, ChallengeRead, challenge, SaidOfAssertion
  <1> QED
    BY <1>2, <1>6

LEMMA LoadChainInv ==
  ASSUME WalletInv, PageInv, NEW read \in WalletReads, LoadChain(read)
  PROVE  PageInv'
  <1>1. /\ read \notin DOMAIN reading
        /\ reading' = [r \in DOMAIN reading \cup {read} |->
                         IF r = read THEN ReadWallet(read) ELSE reading[r]]
        /\ UNCHANGED <<created, assertion, derived, busy>>
    BY DEF LoadChain
  <1>2. ~Loaded
    BY <1>1 DEF Loaded
  <1>3. ChallengeRead'
    <2>1. CASE read = "challenge"
      <3>1. nonce[PageWallet] \in 0 .. MaxNonce
        BY PageAssumption DEF WalletInv, WalletTypeOK
      <3>2. challenge' = challenge_preimage(PageWallet, nonce[PageWallet], NoOp)
        BY <1>1, <2>1 DEF challenge, ReadWallet
      <3> QED
        BY <3>1, <3>2 DEF ChallengeRead, challenge_preimage
    <2>2. CASE read # "challenge"
      <3>1. "challenge" \in DOMAIN reading' =>
              "challenge" \in DOMAIN reading /\ challenge' = challenge
        BY <1>1, <2>2 DEF challenge
      <3> QED
        BY <3>1 DEF PageInv, ChallengeRead, challenge_preimage
    <2> QED
      BY <2>1, <2>2
  <1> QED
    BY <1>1, <1>2, <1>3 DEF PageInv, AssertionIsOurs, SaidOfAssertion

(* The steps that touch neither what was read nor the signature. *)
LEMMA PageStepInv ==
  ASSUME WalletInv, PageInv, ClientNext
  PROVE  WalletInv' /\ PageInv'
  <1>1. ASSUME NEW read \in WalletReads, LoadChain(read)
        PROVE  WalletInv' /\ PageInv'
    <2>1. UNCHANGED walletVars
      BY <1>1 DEF LoadChain
    <2> QED
      BY <1>1, <2>1, LoadChainInv, WalletStepInv
  <1>2. ASSUME NEW present \in BOOLEAN, NEW s \in 1 .. P256_N - 1, HandleSign(present, s)
        PROVE  WalletInv' /\ PageInv'
    BY <1>2, HandleSignInv
  <1>3. ASSUME NEW key \in CreatePasskey, HandleCreate(key)
        PROVE  WalletInv' /\ PageInv'
    <2>1. UNCHANGED walletVars
      BY <1>3 DEF HandleCreate
    <2>2. PageInv'
      BY <1>3
      DEF HandleCreate, CreatePasskey, PageInv, ChallengeRead, challenge,
          AssertionIsOurs, SaidOfAssertion
    <2> QED
      BY <2>1, <2>2, WalletStepInv
  <1>4. ASSUME UNCHANGED <<walletVars, reading, created, assertion, derived>>,
               busy # "derive", busy' \in {"none", "create", "sign"},
               busy' = "sign" => SignOffered
        PROVE  WalletInv' /\ PageInv'
    <2>1. WalletInv'
      BY <1>4, WalletStepInv
    <2>2. AssertionIsOurs'
      BY <1>4 DEF PageInv, AssertionIsOurs, Loaded, signChallenge, challenge
    <2>3. SaidOfAssertion'
      BY <1>4 DEF PageInv, SaidOfAssertion, Said, challenge
    <2> QED
      BY <1>4, <2>1, <2>2, <2>3
      DEF PageInv, ChallengeRead, challenge, SignOffered, Loaded
  <1>5. ASSUME Derive PROVE WalletInv' /\ PageInv'
    <2>1. /\ busy = "derive" /\ busy' = "none" /\ derived' = Said(assertion.a)
          /\ UNCHANGED <<walletVars, reading, created, assertion>>
      BY <1>5 DEF Derive, Said
    <2>2. WalletInv'
      BY <2>1, WalletStepInv
    <2>3. AssertionIsOurs'
      BY <2>1 DEF PageInv, AssertionIsOurs, Loaded, signChallenge, challenge
    <2>4. Said(assertion.a)' = Said(assertion.a)
      BY <2>1 DEF Said, challenge
    <2>5. SaidOfAssertion'
      BY <2>1, <2>4 DEF PageInv, SaidOfAssertion
    <2> QED
      BY <2>1, <2>2, <2>3, <2>5 DEF PageInv, ChallengeRead, challenge
  <1>6. ASSUME WalletNext, UNCHANGED pageVars PROVE WalletInv' /\ PageInv'
    <2>1. AssertionIsOurs'
      BY <1>6 DEF pageVars, PageInv, AssertionIsOurs, Loaded, signChallenge, challenge
    <2>2. SaidOfAssertion'
      BY <1>6 DEF pageVars, PageInv, SaidOfAssertion, Said, challenge
    <2> QED
      BY <1>6, <2>1, <2>2, WalletStepInv DEF pageVars, PageInv, ChallengeRead, challenge, Loaded
  <1>7. PressCreate \/ PressSign \/ CeremonyFails => WalletInv' /\ PageInv'
    BY <1>4 DEF PressCreate, PressSign, CeremonyFails, Press, CreateOffered, SignOffered
  <1> QED
    BY <1>1, <1>2, <1>3, <1>5, <1>6, <1>7 DEF ClientNext, PageNext

LEMMA ClientInvariant == ClientSpec => [](WalletInv /\ PageInv)
  <1>1. WalletInv /\ PageInv /\ UNCHANGED clientVars => WalletInv' /\ PageInv'
    <2> SUFFICES ASSUME WalletInv, PageInv, UNCHANGED clientVars
                 PROVE  WalletInv' /\ PageInv'
      OBVIOUS
    <2>1. AssertionIsOurs'
      BY DEF clientVars, pageVars, PageInv, AssertionIsOurs, Loaded, signChallenge, challenge
    <2>2. SaidOfAssertion'
      BY DEF clientVars, pageVars, PageInv, SaidOfAssertion, Said, challenge
    <2> QED
      BY <2>1, <2>2, WalletStepInv
      DEF clientVars, pageVars, PageInv, ChallengeRead, challenge, Loaded
  <1>2. WalletInv /\ PageInv /\ [ClientNext]_clientVars => (WalletInv /\ PageInv)'
    BY <1>1, PageStepInv
  <1> QED
    BY <1>2, ClientInitInv, PTL DEF ClientSpec, ClientInit

(* CallsAreSigned holds with the page beside the wallets: a signature that answers a
   challenge read long ago makes no wallet act out of turn. *)
THEOREM PageSignsNothingElse == ClientSpec => []CallsAreSigned
  <1>1. WalletInv => CallsAreSigned
    BY DEF WalletInv
  <1> QED
    BY <1>1, ClientInvariant, PTL

(* VerdictIsContracts, for every odd order of the curve: when everything the page lists
   holds and the wallet is still at the nonce that was read, execute() takes the
   signature with s as shown, and otherwise it does not. *)
THEOREM PageAgreesWithContract == ClientSpec => []VerdictIsContracts
  <1>1. WalletInv /\ PageInv => VerdictIsContracts
    <2> SUFFICES ASSUME PageInv, Shown, pubkey[PageWallet] = created,
                        nonce[PageWallet] = challenge.nonce
                 PROVE  AllHold <=>
                          verify_assertion(pubkey[PageWallet], assertion.a, isHighS(assertion.s),
                            challenge_preimage(PageWallet, nonce[PageWallet], NoOp))
      BY DEF VerdictIsContracts
    <2>1. assertion # Nothing /\ derived = Said(assertion.a)
      BY DEF PageInv, SaidOfAssertion, Shown
    <2>2. /\ Loaded
          /\ \E present \in BOOLEAN, s \in 1 .. P256_N - 1 : assertion = signChallenge(present, s)
      BY <2>1 DEF PageInv, AssertionIsOurs
    <2>3. PICK present \in BOOLEAN, s \in 1 .. P256_N - 1 : assertion = signChallenge(present, s)
      BY <2>2
    <2>4. PICK n \in 0 .. MaxNonce : challenge = challenge_preimage(PageWallet, n, NoOp)
      BY <2>2 DEF PageInv, ChallengeRead, Loaded, WalletReads
    <2>5. challenge = challenge_preimage(PageWallet, nonce[PageWallet], NoOp)
      BY <2>4 DEF challenge_preimage
    <2>6. /\ assertion.a.key = created /\ assertion.a.ceremony = "get"
          /\ assertion.a.origin = PageOrigin /\ assertion.a.challenge = challenge
          /\ assertion.s = normalizeS(s)
      BY <2>3 DEF signChallenge
    <2>7. ~isHighS(assertion.s)
      BY <2>6, FoldedIsLow
    <2>8. AllHold <=> assertion.a.present /\ PageOrigin = EXPECTED_ORIGIN
      BY <2>1, <2>6
      DEF AllHold, originMatches, Said, verifyLocally, extractChallenge, parseFlags
    <2>9. verify_assertion(pubkey[PageWallet], assertion.a, isHighS(assertion.s), challenge)
            <=> assertion.a.present /\ PageOrigin = EXPECTED_ORIGIN
      BY <2>6, <2>7 DEF verify_assertion
    <2> QED
      BY <2>5, <2>8, <2>9
  <1> QED
    BY <1>1, ClientInvariant, PTL
=============================================================================
