------------------------------ MODULE AutoSell ------------------------------
(***************************************************************************)
(* The auto-sell panel of the dashboard (web/components/AutoSell.tsx) and  *)
(* its rules (web/lib/autosell.ts).  A rule is a watch: when its condition *)
(* is met the panel offers a button, and the sale is a flow of the         *)
(* dashboard like any other.                                               *)
(*                                                                         *)
(* The rules and the days of use are in localStorage, which every tab of   *)
(* the browser writes and no tab watches.  Time is counted in days.        *)
(***************************************************************************)
EXTENDS Integers, FiniteSets, TLC

CONSTANTS
  PassIds,   \* passes the wallet may hold
  RuleIds,   \* token id and time of creation of a rule
  Triggers,  \* numbers of days a condition may name
  ExpiryDay, \* day each pass expires on, fixed for good at its issue
  MaxDay,    \* bound on the days that pass
  NoToken    \* no proposal, or no access recorded

ASSUME AutoSellAssumption ==
  /\ ExpiryDay \in [PassIds -> Nat]
  /\ NoToken \notin PassIds /\ Triggers \subseteq Nat /\ MaxDay \in Nat

VARIABLES
  day,
  shown,     \* the passes the dashboard last found in the wallet: listed, or not
  saved,     \* the rules in localStorage
  rules,     \* the rules this tab holds
  used,      \* day of the last access check of a pass, in localStorage
  reading,   \* passes known to a sentence that is being read; none is read: NoToken
  proposal,  \* the rule proposed for it, waiting for Save or Discard
  ready      \* the rules offered as of the last rendering

ruleVars == <<day, shown, saved, rules, used, reading, proposal, ready>>

Conditions == [kind : {"daysLeft", "byDate", "idle"}, days : Triggers]
Nothing == [token |-> NoToken]

-----------------------------------------------------------------------------
(* evaluate(rule, pass, now).  The token of a proposal need not be held any more; a rule
   on a pass that has left, that is listed or that has expired waits. *)

Listable(passes, token, today) ==
  /\ token \in DOMAIN passes
  /\ ~passes[token]
  /\ ExpiryDay[token] > today

Met(condition, token, uses, today) ==
  CASE condition.kind = "daysLeft" -> ExpiryDay[token] - today <= condition.days
    [] condition.kind = "byDate"   -> today >= condition.days
    [] condition.kind = "idle"     -> /\ uses[token] # NoToken
                                      /\ today - uses[token] >= condition.days

Evaluate(rs, passes, uses, today) ==
  { r \in rs : /\ Listable(passes, r.token, today)
               /\ Met(r.condition, r.token, uses, today) }

(* The panel renders whenever something of its own changes. *)
Rendered == ready' = Evaluate(rules', shown', used', day')

(* `labelFor(byToken.get(pending.tokenId)!)`: with a proposal for a pass that is not in
   the wallet the rendering throws, and the page is gone. *)
Broken == proposal # Nothing /\ proposal.token \notin DOMAIN shown

AutoSellInit ==
  /\ day = 0 /\ shown = [p \in {} |-> {}]
  /\ saved = {} /\ rules = {} /\ used = [p \in PassIds |-> NoToken]
  /\ reading = NoToken /\ proposal = Nothing /\ ready = {}

Wallets == UNION { [ids -> BOOLEAN] : ids \in SUBSET PassIds }

(* The dashboard loads: passes have come, gone, or been listed.  The panel is there while
   the wallet holds any; it mounts with the rules that are saved. *)
PassesReload(passes) ==
  /\ ~Broken
  /\ shown' = passes
  /\ IF DOMAIN shown # {} /\ DOMAIN passes # {}
     THEN UNCHANGED <<rules, reading, proposal>>
     ELSE /\ rules' = IF DOMAIN passes = {} THEN {} ELSE saved
          /\ reading' = NoToken /\ proposal' = Nothing
  /\ UNCHANGED <<day, saved, used>>
  /\ Rendered

(* The page is opened anew, the way back from a page that is gone: nothing is held until
   the wallet is read. *)
TabReloads ==
  /\ shown' = [p \in {} |-> FALSE] /\ rules' = {}
  /\ reading' = NoToken /\ proposal' = Nothing
  /\ UNCHANGED <<day, saved, used>>
  /\ Rendered

DayPasses ==
  /\ day < MaxDay
  /\ day' = day + 1
  /\ UNCHANGED <<shown, saved, rules, used, reading, proposal>>
  /\ IF Broken THEN UNCHANGED ready ELSE Rendered

-----------------------------------------------------------------------------
(* Adding a rule.                                                          *)

(* The panel reads one sentence at a time, of somebody who holds passes. *)
ParseOffered == reading = NoToken /\ DOMAIN shown # {}

(* Add rule. *)
Parse ==
  /\ ~Broken
  /\ ParseOffered
  /\ reading' = DOMAIN shown
  /\ proposal' = Nothing
  /\ UNCHANGED <<day, shown, saved, rules, used>>
  /\ Rendered

(* The answer of api/rule: a condition of one of the three kinds with a finite number of
   days, or an error.  The hint is matched with the passes the question was asked with. *)
Parsed ==
  /\ ~Broken
  /\ reading # NoToken
  /\ reading' = NoToken
  /\ \/ UNCHANGED proposal
     \/ \E token \in reading, c \in Conditions :
          proposal' = [token |-> token, condition |-> c]
  /\ UNCHANGED <<day, shown, saved, rules, used, ready>>

(* Mutant: what this tab holds is written back. *)
AddToHeld(r) ==
  LET next == { q \in rules : q.id # r.id } \cup {r}
  IN  rules' = next /\ saved' \in {next, saved}

(* addRule: storage is read again before it is written, which may fail silently. *)
addRule(r) ==
  LET next == { q \in saved : q.id # r.id } \cup {r}
  IN  rules' = next /\ saved' \in {next, saved}

(* Mutant: what this tab holds is written back. *)
RemoveFromHeld(r) ==
  LET next == { q \in rules : q.id # r.id }
  IN  rules' = next /\ saved' \in {next, saved}

removeRule(r) ==
  LET next == { q \in saved : q.id # r.id }
  IN  rules' = next /\ saved' \in {next, saved}

Rule(id, token, condition) == [id |-> id, token |-> token, condition |-> condition]

UnusedIds == { i \in RuleIds : \A r \in saved \cup rules : r.id # i }

SaveRule ==
  /\ proposal # Nothing /\ ~Broken
  /\ \E i \in UnusedIds : addRule(Rule(i, proposal.token, proposal.condition))
  /\ proposal' = Nothing
  /\ UNCHANGED <<day, shown, used, reading>>
  /\ Rendered

Discard ==
  /\ proposal # Nothing /\ ~Broken
  /\ proposal' = Nothing
  /\ UNCHANGED <<day, shown, saved, rules, used, reading, ready>>

(* remove on an armed rule, dismiss on an offered one. *)
RemoveRule(r) ==
  /\ r \in rules /\ ~Broken
  /\ removeRule(r)
  /\ UNCHANGED <<day, shown, used, reading, proposal>>
  /\ Rendered

-----------------------------------------------------------------------------
(* Use and offers.                                                         *)

(* Log an access, on an idle rule that is armed. *)
LogAccess(r) ==
  /\ r \in rules \ ready /\ r.condition.kind = "idle" /\ ~Broken
  /\ used' = [used EXCEPT ![r.token] = day]
  /\ UNCHANGED <<day, shown, saved, rules, reading, proposal>>
  /\ Rendered

(* List, on an offer: the dashboard lists the pass, or the flow fails.  The rule stays. *)
ListOffered(r) ==
  /\ r \in ready /\ ~Broken
  /\ shown' \in {shown, [shown EXCEPT ![r.token] = TRUE]}
  /\ UNCHANGED <<day, saved, rules, used, reading, proposal>>
  /\ Rendered

(* Another tab of the browser adds or removes a rule, or /verify marks a pass as used.
   This tab does not notice. *)
OtherTab ==
  /\ \/ \E i \in UnusedIds, token \in PassIds, c \in Conditions :
          saved' = saved \cup {Rule(i, token, c)} /\ UNCHANGED used
     \/ \E r \in saved : saved' = saved \ {r} /\ UNCHANGED used
     \/ \E token \in PassIds : /\ used' = [used EXCEPT ![token] = day]
                               /\ UNCHANGED saved
  /\ UNCHANGED <<day, shown, rules, reading, proposal, ready>>

AutoSellNext ==
  \/ TabReloads \/ DayPasses \/ Parse \/ Parsed \/ SaveRule \/ Discard \/ OtherTab
  \/ \E passes \in Wallets : PassesReload(passes)
  \/ \E r \in rules : RemoveRule(r) \/ LogAccess(r) \/ ListOffered(r)

-----------------------------------------------------------------------------
(* A rule that is kept is lost only by being removed, in this tab or another: no tab
   overwrites what another one has saved since. *)
NoRuleLost ==
  [][\A r \in saved : r \notin saved' => \/ RemoveRule(r)
                                         \/ saved' = saved \ {r} /\ UNCHANGED rules
     ]_ruleVars

(* A rule that is gone from storage, removed in another tab or refused by the browser,
   stays gone: what a tab still shows of it is not written back, whatever the tab adds or
   removes next. *)
NoRuleRevived == [][\A r \in rules : r \notin saved => r \notin saved']_ruleVars
=============================================================================
