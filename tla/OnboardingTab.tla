---------------------------- MODULE OnboardingTab ----------------------------
(***************************************************************************)
(* The tab the onboarding pages share: the page it shows, and the bounds   *)
(* on what its user does and on what goes wrong.                           *)
(***************************************************************************)
EXTENDS Integers, FiniteSets

CONSTANTS Clicks,  \* bound: what the user does
          Faults   \* bound: requests, answers and statements that are lost

ASSUME TabAssumption == Clicks \in Nat /\ Faults \in Nat

VARIABLES page, clicks, faults

tab == <<page, clicks, faults>>

(* "away" is every other page: the dashboard, the roadmap, sign in.        *)
Pages == {"chooser", "sync", "quiz", "results", "settings", "away"}

(* The links of each page; the quiz and its results also go on by code.    *)
Links(p) ==
  CASE p = "chooser"  -> {"sync", "quiz", "away"}
    [] p = "sync"     -> {"chooser", "results"}
    [] p = "quiz"     -> {"away"}
    [] p = "results"  -> {"quiz", "away"}
    [] p = "settings" -> {"away"}
    [] p = "away"     -> {"chooser", "settings"}

Click == clicks < Clicks /\ clicks' = clicks + 1
Fault == faults < Faults /\ faults' = faults + 1
=============================================================================
