---------------------------- MODULE MCServices ----------------------------
(***************************************************************************)
(* Instances of the services that share no state with each other, for TLC:  *)
(* a behaviour is a behaviour of one of them, chosen in the initial state,  *)
(* while the variables of the others rest at an initial value.  The states  *)
(* are those of the services added up, never multiplied.                    *)
(***************************************************************************)
EXTENDS ProtectedIntents, WalletSessions, AnonymousRate, AdminAccess, AssetCache,
        MemoryStore, AlertWorkflow, Reprojection, WebApp, RegistryAdmission,
        MCCommercialLimits, MCDecisions

VARIABLE part    \* the service whose behaviour this is

Parts == {"intents", "auth", "rate", "admin", "assets", "memory", "alerts",
          "reprojection", "web", "admission", "limits", "decisions"}

-----------------------------------------------------------------------------
(* Two blocks of one height and one that follows; what is delivered of them *)
(* extends, reorganises, returns, repeats a key and fills gaps.             *)
CONSTANTS a1, b1, a2

HeightOfBlock == (a1 :> 1) @@ (b1 :> 1) @@ (a2 :> 2)

Batch(k, s, r, a) == [key |-> k, sha |-> s, rollback |-> r, apply |-> a]
Batches == [
    extend |-> Batch("k1", "s1", <<>>, <<a1>>),
    reorg  |-> Batch("k2", "s2", <<a1>>, <<b1>>),
    back   |-> Batch("k3", "s3", <<b1>>, <<a1, a2>>),
    undo   |-> Batch("k4", "s4", <<a2, a1>>, <<b1>>),
    fill   |-> Batch("k5", "s5", <<>>, <<a1, a2>>),
    both   |-> Batch("k6", "s6", <<a2>>, <<a1, b1, a2>>),
    reused |-> Batch("k1", "s7", <<>>, <<b1>>)]
BatchIds == DOMAIN Batches
BatchKey == [d \in BatchIds |-> Batches[d].key]
BatchSha == [d \in BatchIds |-> Batches[d].sha]
BatchRollback == [d \in BatchIds |-> Batches[d].rollback]
BatchApply == [d \in BatchIds |-> Batches[d].apply]

-----------------------------------------------------------------------------
(* A registry of two contracts, a release of one that comes into force      *)
(* later, and one whose signer is not trusted.                              *)
Declared(c, facts) == [contract |-> c, network |-> "mainnet", declares |-> facts]
Submission(kind, entries, from, until, trusted) ==
    [kind |-> kind, reviewers |-> <<"same", "same">>, entries |-> entries, network |-> "mainnet",
     issuedAt |-> from, expiresAt |-> until, trusted |-> trusted, signed |-> TRUE]
MCSubmissions == {
    Submission("signed registry", <<Declared("x", Facts), Declared("y", Facts)>>, 0, 2, TRUE),
    Submission("release", <<Declared("x", Facts \ {"transaction"})>>, 1, 3, TRUE),
    Submission("release", <<Declared("x", {})>>, 0, 3, FALSE),
    Submission("release", <<>>, 0, 3, TRUE)}
MCDeployments == {Facts, Facts \ {"canonical"}, Facts \ {"interface hash", "transaction"}}

-----------------------------------------------------------------------------
(* Services whose initial state is one of several rest at one of them; the  *)
(* manifests are alike.                                                     *)
AtRest(p, rest) == part # p => rest

ServicesInit ==
    /\ part \in Parts
    /\ AuthInit /\ RateInit /\ AdminInit /\ MemInit /\ AskNothing
    /\ Init /\ AtRest("intents", dataMode = "live")
    /\ AssetInit /\ activeManifest = CHOOSE m \in Manifests : TRUE
    /\ AlertInit /\ AtRest("alerts", durable /\ \A k \in RiskIds : severityOf[k] = 0)
    /\ RepInit /\ AtRest("reprojection", \A b \in RepBlocks : ~onChain[b])
    /\ WebInit /\ AtRest("web", ~loading)
    /\ AdmitInit /\ AtRest("admission", \A c \in Contracts : deployed[c] = Facts)
    /\ LimitsInit /\ AtRest("limits", walletPlan = "free")

Resting(p, others) == IF part = p THEN TRUE ELSE UNCHANGED others

ServicesNext ==
    /\ \/ part = "intents" /\ Next
       \/ part = "auth" /\ AuthNext
       \/ part = "rate" /\ RateNext
       \/ part = "admin" /\ AdminNext
       \/ part = "assets" /\ AssetNext
       \/ part = "memory" /\ MemNext
       \/ part = "alerts" /\ AlertNext
       \/ part = "reprojection" /\ RepNext
       \/ part = "web" /\ WebNext
       \/ part = "admission" /\ AdmitNext
       \/ part = "limits" /\ LimitsNext
       \/ part = "decisions" /\ AskAny
    /\ Resting("intents", vars) /\ Resting("auth", authVars) /\ Resting("rate", rateVars)
    /\ Resting("admin", adminVars) /\ Resting("assets", assetVars)
    /\ Resting("memory", memVars) /\ Resting("alerts", alertVars)
    /\ Resting("reprojection", repVars) /\ Resting("web", webVars)
    /\ Resting("admission", admitVars)
    /\ Resting("limits", limitsVars) /\ Resting("decisions", question)
    /\ UNCHANGED part

servicesVars == <<part, vars, authVars, rateVars, adminVars, assetVars, memVars, alertVars,
                  repVars, webVars, admitVars, limitsVars, question>>

ServicesSpec == ServicesInit /\ [][ServicesNext]_servicesVars
=============================================================================
