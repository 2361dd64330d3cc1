---------------------------- MODULE AccessCheck ----------------------------
(***************************************************************************)
(* One access check, from outside the chain: the verify page of the web    *)
(* app and the snippet it hands to integrators (web/app/verify/page.tsx),  *)
(* and the usage oracle's advice (oracle/index.js).  Each asks several     *)
(* questions of the contracts, and each is answered by whatever block is   *)
(* the latest when it arrives.                                             *)
(***************************************************************************)
EXTENDS LiquidPass

CONSTANTS
  Checkers,   \* who checks: "access", "oracle"
  MaxSends    \* bound on the transactions during the check

ASSUME CheckAssumption ==
  Checkers \subseteq {"access", "oracle"} /\ MaxSends \in Nat

VARIABLES
  check,  \* who checks, which pass, what has been answered so far, and the verdict
  was,    \* what has been so at some moment since the check began
  always, \* who has had access at every moment since
  sends

checkVars == <<check, was, always, sends>>

Denied == [grants |-> ZERO, advice |-> "none"]
Grants(who) == [grants |-> who, advice |-> "none"]
Advises(action) == [grants |-> ZERO, advice |-> action]
Open == [grants |-> ZERO, advice |-> "open"]

-----------------------------------------------------------------------------
(* Who has access to a pass now, by the contracts: nobody but the renter while the
   rental contract holds it. *)
AccessHolders(id) ==
  { who \in Addr : /\ is_active(id)
                   /\ who = IF owners[id] = RENTAL THEN activeRenter(id) ELSE owners[id] }

(* What is the case now, of what each kind of check is about: who might be let in, or
   what is there to advise on.  Only a pass that has been issued has time left or none. *)
Facts(who, id) ==
  IF who = "oracle"
  THEN LET issued == id < next_token_id
       IN  [issued |-> {issued}, exists |-> {owners[id] # ZERO},
            timeLeft |-> IF issued THEN {expiries[id] > now} ELSE {}]
  ELSE [people |-> {owners[id], activeRenter(id)}, active |-> {is_active(id)}]

Both(f, g) == [k \in DOMAIN f |-> f[k] \cup g[k]]

(* Whatever happens while a check runs goes into the record of it. *)
Witnessed ==
  IF check.verdict = Open
  THEN was' = Both(was, Facts(check.by, check.id)') /\ always' = always \cap AccessHolders(check.id)'
  ELSE UNCHANGED <<was, always>>

-----------------------------------------------------------------------------
(* What each of them asks first, at once, and in whatever order it is answered. *)
FirstReads(who) == IF who = "oracle" THEN {"owner", "expiry"} ELSE {"owner", "active"}

Check(who, id, verdict) ==
  [by |-> who, id |-> id, got |-> [r \in {} |-> 0], verdict |-> verdict]

CheckInit ==
  /\ check = Check("nobody", 0, Denied)
  /\ was = Facts("nobody", 0) /\ always = {} /\ sends = 0

(* Somebody asks about a pass, at whatever state the chain is in. *)
CheckBegins ==
  \E who \in Checkers, id \in Tokens :
    /\ check' = Check(who, id, Open)
    /\ was' = Facts(who, id) /\ always' = AccessHolders(id)
    /\ UNCHANGED <<systemVars, sends>>

Got(read) == check.got[read]
Has(reads) == reads \subseteq DOMAIN check.got

Reply(read) ==
  CASE read = "owner"  -> owners[check.id]
    [] read = "active" -> is_active(check.id)
    [] read = "expiry" -> expiries[check.id]
    [] read = "renter" -> activeRenter(check.id)

(* A pass in custody takes one more question: whose it is now. *)
InCustody == Has({"owner"}) /\ Got("owner") = RENTAL

(* The page asks even when the pass has expired, the snippet does not; either way the
   answer is no. *)
AsksRenter ==
  check.by = "access" /\ Has({"owner", "active"}) /\ InCustody /\ Got("active")

Asked == FirstReads(check.by) \cup IF AsksRenter THEN {"renter"} ELSE {}

Read(read) ==
  /\ check.verdict = Open
  /\ read \in Asked \ DOMAIN check.got
  /\ check' = [check EXCEPT !.got =
       [r \in DOMAIN check.got \cup {read} |->
          IF r = read THEN Reply(read) ELSE Got(r)]]
  /\ UNCHANGED <<systemVars, was, always, sends>>

(* A read fails, and the answer is a failure, never a grant. *)
ReadFails ==
  /\ check.verdict = Open
  /\ check' = [check EXCEPT !.verdict = Advises("failed")]
  /\ UNCHANGED <<systemVars, was, always, sends>>

(* Mutant: the owner of a pass in custody is whoever opened its stream. *)
VerdictOfOwner ==
  IF Got("owner") = ZERO \/ ~Got("active") THEN Denied
  ELSE IF InCustody THEN Grants(streams[check.id].owner)
  ELSE Grants(Got("owner"))

(* handleVerify and accessHolder() *)
AccessVerdict ==
  IF Got("owner") = ZERO \/ ~Got("active") THEN Denied
  ELSE IF InCustody THEN Grants(Got("renter"))
  ELSE Grants(Got("owner"))

(* Mutant: time is looked at before the existence of the pass. *)
AdviceExpiredFirst(idle) ==
  IF Got("expiry") <= now THEN Advises("EXPIRED")
  ELSE IF Got("owner") = ZERO THEN Advises("UNKNOWN_TOKEN")
  ELSE IF idle THEN Advises("RECOMMEND_LIST") ELSE Advises("MONITORING")

(* The oracle: by its own clock, at the end. *)
Advice(idle) ==
  IF Got("owner") = ZERO THEN Advises("UNKNOWN_TOKEN")
  ELSE IF Got("expiry") <= now THEN Advises("EXPIRED")
  ELSE IF idle THEN Advises("RECOMMEND_LIST") ELSE Advises("MONITORING")

Verdict ==
  /\ check.verdict = Open /\ Has(Asked)
  /\ IF check.by = "oracle"
     THEN \E idle \in BOOLEAN : check' = [check EXCEPT !.verdict = Advice(idle)]
     ELSE check' = [check EXCEPT !.verdict = AccessVerdict]
  /\ UNCHANGED <<systemVars, was, always, sends>>

(* The page shows a verdict and the holder it names; the snippet returns the holder. *)
VerdictShown == check.by = "access" /\ check.verdict.advice = "none"

CheckedChain ==
  /\ check.verdict = Open
  /\ \/ LiquidNext /\ now' = now /\ sends < MaxSends /\ sends' = sends + 1
     \/ Tick /\ UNCHANGED <<escrowVars, marketVars, streams, sends>>
  /\ UNCHANGED check
  /\ Witnessed

CheckNext ==
  \/ CheckedChain \/ ReadFails \/ Verdict
  \/ \E read \in {"owner", "active", "expiry", "renter"} : Read(read)

-----------------------------------------------------------------------------
(* The page names a person and the snippet returns one.  Whoever had access all through
   the check is the one it names; and whoever it names has owned the pass at some moment
   of the check, or rented it, and there was time left at some moment of it: never somebody
   who had handed the pass over before, nor the rental contract or its depositor ("Access
   belongs to activeRenter() while a rental is live, and to no one while it is idle"). *)
VerdictHeld ==
  VerdictShown =>
    LET who == check.verdict.grants
    IN  /\ \A one \in always : who = one
        /\ who # ZERO => /\ who # RENTAL
                         /\ who \in was.people /\ TRUE \in was.active

(* What the oracle says of a pass was so while it looked: it advises only about passes
   that were there, recommends a listing only with time on the pass, and what it calls
   expired had come to its end, or been burned, after its issue and before the advice.  The
   one exception is a pass issued between the two reads: its expiry may be answered by a
   block before the issue and its owner by one after, and then it is called expired with
   all of its time to come. *)
AdviceJustified ==
  LET action == check.verdict.advice
  IN  /\ action \in {"EXPIRED", "RECOMMEND_LIST", "MONITORING"} => TRUE \in was.exists
      /\ action \in {"RECOMMEND_LIST", "MONITORING"} => TRUE \in was.timeLeft
      /\ action = "EXPIRED" => FALSE \in was.timeLeft \/ FALSE \in was.issued
      /\ action = "UNKNOWN_TOKEN" => FALSE \in was.exists
=============================================================================
