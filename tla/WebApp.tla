------------------------------ MODULE WebApp ------------------------------
(***************************************************************************)
(* What the web application shows: inspect, the start-up effect and the     *)
(* wallet connection of apps/web/src/App.tsx.  Answers arrive in any order  *)
(* and after the next inspection began: aborting a fetch does not stop an   *)
(* answer that has already arrived.                                         *)
(***************************************************************************)
EXTENDS Naturals

CONSTANTS
    Inspected,      \* addresses
    MaxInspections  \* bound: inspections

ASSUME WebAssumption == MaxInspections \in Nat

VARIABLES
    generation,     \* inspectGeneration
    address,        \* the address in the page
    loading,
    shown,          \* generation of the positions, risks and summary, 0 for null
    history,        \* generation of the history, 0 for null
    answers,        \* fetches under way: what, and of which generation
    startup         \* what the start-up effect awaits

webVars == <<generation, address, loading, shown, history, answers, startup>>

NoAddress == "no address"
Fetch == [of : {"overview", "history"}, from : 1..MaxInspections]

WebInit ==
    /\ generation = 0 /\ address = NoAddress
    /\ loading \in BOOLEAN    \* whether an address was remembered
    /\ shown = 0 /\ history = 0 /\ answers = {}
    /\ startup = "session"

-----------------------------------------------------------------------------
(* inspect, until it awaits the overview.                                   *)
Inspect(a) ==
    /\ generation < MaxInspections
    /\ generation' = generation + 1
    /\ address' = a /\ loading' = TRUE
    /\ answers' = answers \cup {[of |-> "overview", from |-> generation + 1]}
    /\ UNCHANGED <<shown, history>>

(* The button, or a wallet that was connected and authenticated.            *)
InspectAddress(a) == Inspect(a) /\ UNCHANGED startup

(* The effect: the session of the wallet, whose address is shown, then its  *)
(* alerts, then its inspection; if one of them fails, the address that was  *)
(* remembered, if any.                                                      *)
SessionRead(a) ==
    /\ startup = "session" /\ startup' = "alerts"
    /\ address' = a
    /\ UNCHANGED <<generation, loading, shown, history, answers>>
StartupInspects(a) ==
    /\ startup \in {"session", "alerts"} /\ startup' = "done"
    /\ Inspect(a)
StartupEnds ==
    /\ startup \in {"session", "alerts"} /\ startup' = "done"
    /\ UNCHANGED <<generation, address, loading, shown, history, answers>>

LatestAny(f) == TRUE    \* mutant: the generation is not compared

Latest(f) == f.from = generation

(* The overview arrives: it is shown, and the history asked for.            *)
OverviewArrives(f) ==
    /\ f \in answers /\ f.of = "overview"
    /\ IF Latest(f)
       THEN /\ shown' = f.from /\ loading' = FALSE
            /\ answers' = (answers \ {f}) \cup {[f EXCEPT !.of = "history"]}
       ELSE answers' = answers \ {f} /\ UNCHANGED <<shown, loading>>
    /\ UNCHANGED <<generation, address, history, startup>>

(* It fails: nothing is shown any more.                                     *)
OverviewFails(f) ==
    /\ f \in answers /\ f.of = "overview"
    /\ answers' = answers \ {f}
    /\ IF Latest(f) THEN shown' = 0 /\ history' = 0 /\ loading' = FALSE
       ELSE UNCHANGED <<shown, history, loading>>
    /\ UNCHANGED <<generation, address, startup>>

HistoryArrives(f) ==
    /\ f \in answers /\ f.of = "history"
    /\ answers' = answers \ {f}
    /\ \/ Latest(f) /\ history' \in {f.from, 0}    \* 0: it failed
       \/ ~Latest(f) /\ UNCHANGED history
    /\ UNCHANGED <<generation, address, loading, shown, startup>>

WebNext ==
    \/ \E a \in Inspected : InspectAddress(a) \/ SessionRead(a) \/ StartupInspects(a)
    \/ StartupEnds
    \/ \E f \in answers : OverviewArrives(f) \/ OverviewFails(f) \/ HistoryArrives(f)

WebSpec == WebInit /\ [][WebNext]_webVars

-----------------------------------------------------------------------------
Waiting(what) == [of |-> what, from |-> generation] \in answers

(* App.tsx, generation and abort: the page loads until the overview of the  *)
(* latest inspection is there; then its positions, risks and summary are    *)
(* those of that inspection, or none.  The history may still be an earlier  *)
(* one's beside them, but only while the latest one's is under way.  An     *)
(* answer to an earlier inspection, however late, replaces nothing.         *)
LatestIsShown ==
    /\ generation > 0 =>
         /\ loading <=> Waiting("overview")
         /\ ~loading => shown \in {0, generation}
         /\ ~loading => history \in {0, generation} \/ Waiting("history")
    /\ history <= shown /\ shown <= generation /\ answers \subseteq Fetch
=============================================================================
