------------------------------ MODULE WebPages ------------------------------
(***************************************************************************)
(* What the web app keeps in one tab: the store above the pages            *)
(* (web/app/layout.tsx puts it around all of them), the auto-sell panel of *)
(* the dashboard and the carousel of the market page; and what is only     *)
(* read and shown: feed, prices and suggestions, and the extension's popup *)
(* beside the tab.                                                         *)
(*                                                                         *)
(* They share no state of their own and no step of one reads another's, so *)
(* that a behaviour of the browser is their behaviours laid side by side:  *)
(* which of them is looked at is chosen at the beginning, and the others   *)
(* stand.                                                                  *)
(***************************************************************************)
EXTENDS ClientStore, AutoSell, MarketRail, ActivityFeed, ExtensionPopup

VARIABLE lookedAt

tabVars == <<clientVars, ruleVars, railVars>>
popupOnly == <<popupPage, loads, elsewhere>>
feedOnly == <<logs, readVars>>
readerVars == <<vars, feedOnly, popupOnly>>
webVars == <<lookedAt, tabVars, readerVars>>

WebInit ==
  /\ lookedAt \in {"store", "autosell", "market", "feed", "popup"}
  /\ ClientInit /\ AutoSellInit /\ RailInit
  /\ FeedInit /\ PopupInit
  /\ stored => lookedAt = "store"

TabStep ==
  /\ \/ lookedAt = "store" /\ ClientNext /\ UNCHANGED <<ruleVars, railVars>>
     \/ lookedAt = "autosell" /\ AutoSellNext /\ UNCHANGED <<clientVars, railVars>>
     \/ lookedAt = "market" /\ RailNext /\ UNCHANGED <<clientVars, ruleVars>>
  /\ UNCHANGED readerVars

ReaderStep ==
  /\ \/ lookedAt = "feed" /\ FeedNext /\ UNCHANGED popupOnly
     \/ lookedAt = "popup" /\ PopupNext /\ UNCHANGED feedOnly
  /\ UNCHANGED tabVars

WebNext == (TabStep \/ ReaderStep) /\ UNCHANGED lookedAt

(* setTimeout fires, and the browser goes on drawing frames: every effect that holds an
   element asks for the next frame before it does anything else. *)
WebFairness ==
  /\ \A t \in ToastIds : WF_clientVars(TimerFires(t))
  /\ WF_railVars(Frame) /\ WF_railVars(PauseEnds)

WebSpec == WebInit /\ [][WebNext]_webVars /\ WebFairness
=============================================================================
