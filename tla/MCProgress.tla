---------------------------- MODULE MCProgress ----------------------------
(***************************************************************************)
(* Instances of the services that must make progress, for TLC: a behaviour  *)
(* is a behaviour of one of them, chosen in the initial state, while the    *)
(* variables of the others rest at an initial value, at which none of their *)
(* fair steps is enabled.                                                   *)
(***************************************************************************)
EXTENDS RegistryBackfill, PositionCache, ReadGate, YieldCache, SdkRetry, TLC

VARIABLE part    \* the service whose behaviour this is

CONSTANTS a1, c2    \* blocks

HeightOfBlock == (a1 :> 1) @@ (c2 :> 2)

(* Services whose initial state is one of several rest at one of them; the  *)
(* provider starts at a1 always, as heights are compared for equality only. *)
AtRest ==
    /\ providerTip = a1
    /\ part # "sdk" => method = "GET"

ProgressInit ==
    /\ part \in {"backfill", "positions", "gate", "yields", "sdk"}
    /\ Init /\ PosInit /\ GateInit /\ YieldInit /\ SdkInit /\ AtRest

Resting(p, others) == IF part = p THEN TRUE ELSE UNCHANGED others

ProgressNext ==
    /\ \/ part = "backfill" /\ Next
       \/ part = "positions" /\ PosNext
       \/ part = "gate" /\ GateNext
       \/ part = "yields" /\ YieldNext
       \/ part = "sdk" /\ SdkNext
    /\ Resting("backfill", vars)
    /\ Resting("positions", posVars) /\ Resting("gate", gateVars)
    /\ Resting("yields", yieldVars) /\ Resting("sdk", sdkVars)
    /\ UNCHANGED part

progressVars == <<part, vars, posVars, gateVars, yieldVars, sdkVars>>

(* The backfill is the one that could step from its initial state: it is    *)
(* fair only in its own behaviours, as FairSpec of RegistryBackfill has it. *)
BackfillFairness == \A p \in Runs : WF_vars(part = "backfill" /\ Step(p))

ProgressSpec ==
    /\ ProgressInit /\ [][ProgressNext]_progressVars
    /\ BackfillFairness /\ PosFairness /\ GateFairness /\ YieldFairness /\ SdkFairness

(* docs/production.md:50: in the behaviours of the backfill, the loop of    *)
(* resumed passes ends: whatever pauses, failures and other runs do to the  *)
(* checkpoint, the contract is exhausted unless the ceiling is reached.     *)
BackfillEnds == part = "backfill" => ExhaustedAgain

(* Whatever is answered from a cache, by a request that loaded it, shared   *)
(* the load or came later, is as recent as the code promises: positions,    *)
(* the tip they are said to be of and the blocks they are of                *)
(* (discoverPositions), yields whose evidence has not outlived its life     *)
(* (currentYieldMarkets), also when loads overlap.                          *)
CachesFresh == AnswersFresh /\ KeptYieldsFresh
=============================================================================
