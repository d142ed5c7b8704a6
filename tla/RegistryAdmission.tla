------------------------- MODULE RegistryAdmission -------------------------
(***************************************************************************)
(* What a signed registry must show before it is activated: the activation *)
(* route of apps/api/src/app.ts, verifySignedRegistry (registry.ts) and    *)
(* ContractRegistryVerifier (contract-verifier.ts), which reads the chain  *)
(* contract after contract, each by two reads of their own, while contracts*)
(* are deployed and blocks orphaned.  The transaction that then activates  *)
(* it is RegistryActivation's; here it takes its time, and may fail.       *)
(***************************************************************************)
EXTENDS Integers, Sequences, FiniteSets

CONSTANTS
    Submissions,      \* what may be posted
    Contracts,        \* the contracts their manifests may name
    Deployments,      \* what may be on chain of a contract: sets of facts
    Operators,        \* requests being handled at a time
    MaxAdmitTime      \* bound: the clock

(* What the manifest declares of a contract, by the read that tells.        *)
InterfaceFacts == {"interface hash", "functions"}
DeploymentFacts == {"canonical", "principal", "activation block", "transaction"}
Facts == InterfaceFacts \cup DeploymentFacts

FactsOf == [interface |-> InterfaceFacts, deployment |-> DeploymentFacts]
AllReads == DOMAIN FactsOf

Entries == [contract : Contracts, declares : SUBSET Facts, network : STRING]

ASSUME AdmissionAssumption ==
    /\ Deployments \subseteq SUBSET Facts /\ MaxAdmitTime \in Nat
    /\ \A s \in Submissions :
         s.entries \in Seq(Entries) /\ s.issuedAt \in Int /\ s.expiresAt \in Int

VARIABLES
    admitClock,
    deployed,         \* deployed[c]: the facts that hold of c on chain
    admission,        \* admission[r]: what the request r is at
    admitted,         \* the submission activated last
    heldSince         \* heldSince[r][c]: facts true of c since r began

admitVars == <<admitClock, deployed, admission, admitted, heldSince>>

NoSubmission == [kind |-> "none"]
NotSubmitted == [step |-> "off"]

AdmitInit ==
    /\ admitClock = 0
    /\ deployed \in [Contracts -> Deployments]
    /\ admission = [r \in Operators |-> NotSubmitted]
    /\ admitted = NoSubmission
    /\ heldSince = [r \in Operators |-> [c \in Contracts |-> {}]]

AdmitTick ==
    /\ admitClock < MaxAdmitTime
    /\ admitClock' = admitClock + 1
    /\ UNCHANGED <<deployed, admission, admitted, heldSince>>

(* A block with a deployment is added or orphaned.                          *)
Redeploy(c, facts) ==
    /\ facts # deployed[c]
    /\ deployed' = [deployed EXCEPT ![c] = facts]
    /\ heldSince' = [r \in Operators |-> [heldSince[r] EXCEPT ![c] = @ \cup facts]]
    /\ UNCHANGED <<admitClock, admission, admitted>>

-----------------------------------------------------------------------------
(* A bare signed registry, or a release with two reviews; no contract twice.*)
WellFormed(s) ==
    /\ s.kind = "signed registry" \/ Len(s.reviewers) >= 2
    /\ \A i, j \in DOMAIN s.entries : i # j => s.entries[i].contract # s.entries[j].contract

VerifySignedRegistry(s, at) ==
    /\ WellFormed(s) /\ s.trusted /\ s.signed
    /\ s.issuedAt <= at /\ at < s.expiresAt
    /\ \A i \in DOMAIN s.entries : s.entries[i].network = s.network

EntryOf(r) == admission[r].submission.entries[admission[r].entry]

Verifying(s) ==
    [step |-> "verifying", submission |-> s, entry |-> 0, reads |-> {}, errors |-> {}]

SubmitRegistry(r, s) ==
    /\ admission[r] = NotSubmitted
    /\ VerifySignedRegistry(s, admitClock)
    /\ admission' = [admission EXCEPT ![r] = Verifying(s)]
    /\ heldSince' = [heldSince EXCEPT ![r] = deployed]
    /\ UNCHANGED <<admitClock, deployed, admitted>>

(* verifyEntry: the two reads are sent together and answered in any order.  *)
Read(r, kind) ==
    LET wrong == (EntryOf(r).declares \cap FactsOf[kind]) \ deployed[EntryOf(r).contract]
    IN  /\ admission[r].step = "verifying" /\ kind \in admission[r].reads
        /\ admission' = [admission EXCEPT ![r].reads = @ \ {kind},
                                          ![r].errors = @ \cup wrong]
        /\ UNCHANGED <<admitClock, deployed, admitted, heldSince>>

NextEntry(r) ==
    /\ admission[r].step = "verifying" /\ admission[r].reads = {}
    /\ admission[r].entry < Len(admission[r].submission.entries)
    /\ admission' = [admission EXCEPT ![r].entry = @ + 1, ![r].reads = AllReads]
    /\ UNCHANGED <<admitClock, deployed, admitted, heldSince>>

(* A lookup fails or is no such contract: the route answers 400.            *)
LookupFails(r) ==
    /\ admission[r].step = "verifying" /\ admission[r].reads # {}
    /\ admission' = [admission EXCEPT ![r] = NotSubmitted]
    /\ UNCHANGED <<admitClock, deployed, admitted, heldSince>>

(* registryStore.activate: the registry is verified again, as of now.       *)
StillOnce(s, at) == WellFormed(s) /\ s.trusted /\ s.signed    \* mutant: when it was submitted

StillValid(s, at) == VerifySignedRegistry(s, at)

Verified(r) ==
    /\ admission[r].step = "verifying" /\ admission[r].reads = {}
    /\ admission[r].entry = Len(admission[r].submission.entries)

Activating(s, at) == [step |-> "activating", submission |-> s, at |-> at]

BeginActivation(r) ==
    /\ Verified(r) /\ admission[r].errors = {}
    /\ StillValid(admission[r].submission, admitClock)
    /\ admission' = [admission EXCEPT ![r] = Activating(admission[r].submission, admitClock)]
    /\ UNCHANGED <<admitClock, deployed, admitted, heldSince>>

(* Its transaction commits, when its locks have been free: time has passed. *)
Admit(r) ==
    /\ admission[r].step = "activating"
    /\ admitted' = admission[r].submission
    /\ admission' = [admission EXCEPT ![r] = NotSubmitted]
    /\ UNCHANGED <<admitClock, deployed, heldSince>>

ActivationFails(r) ==
    /\ admission[r].step = "activating"
    /\ admission' = [admission EXCEPT ![r] = NotSubmitted]
    /\ UNCHANGED <<admitClock, deployed, admitted, heldSince>>

Reject(r) ==
    /\ Verified(r)
    /\ \/ admission[r].errors # {}
       \/ ~StillValid(admission[r].submission, admitClock)
    /\ admission' = [admission EXCEPT ![r] = NotSubmitted]
    /\ UNCHANGED <<admitClock, deployed, admitted, heldSince>>

AdmitNext ==
    \/ AdmitTick
    \/ \E c \in Contracts, facts \in Deployments : Redeploy(c, facts)
    \/ \E r \in Operators :
         \/ \E s \in Submissions : SubmitRegistry(r, s)
         \/ \E kind \in AllReads : Read(r, kind)
         \/ NextEntry(r) \/ LookupFails(r) \/ Reject(r)
         \/ BeginActivation(r) \/ Admit(r) \/ ActivationFails(r)

AdmitSpec == AdmitInit /\ [][AdmitNext]_admitVars

-----------------------------------------------------------------------------
(* What becomes active is signed by a trusted key, all it declares of each  *)
(* of its contracts was true of the chain at some moment of the request     *)
(* (though not all at one moment), and it was in force when activate()      *)
(* looked at the clock, after the last of the reads.  It may have expired   *)
(* while the transaction waited: nothing looks at the date again.           *)
AdmittedIsCurrent ==
    [][admitted' # admitted =>
         \E r \in Operators :
            LET s == admission[r].submission
            IN  /\ admission[r].step = "activating" /\ admitted' = s
                /\ s.trusted /\ s.signed
                /\ s.issuedAt <= admission[r].at /\ admission[r].at <= admitClock
                /\ admission[r].at < s.expiresAt
                /\ \A i \in DOMAIN s.entries :
                     s.entries[i].declares \subseteq heldSince[r][s.entries[i].contract]
      ]_admitVars

-----------------------------------------------------------------------------
(* What carries the proof: as long as no error was found, each read that is *)
(* done found its part of the declaration true; with the last one, all.     *)
AdmissionRow ==
    [step : {"verifying"}, submission : Submissions, entry : Nat,
     reads : SUBSET AllReads, errors : SUBSET Facts]

ActivationRow == [step : {"activating"}, submission : Submissions, at : Nat]

AdmitTypeOK ==
    /\ admitClock \in Nat
    /\ deployed \in [Contracts -> SUBSET Facts]
    /\ heldSince \in [Operators -> [Contracts -> SUBSET Facts]]
    /\ admission \in [Operators -> {NotSubmitted} \cup AdmissionRow \cup ActivationRow]

ReadDone(a, i, kind) == i < a.entry \/ kind \notin a.reads

FoundSoFar(r) ==
    LET a == admission[r] entries == a.submission.entries
    IN  a.step = "verifying" =>
          /\ a.entry <= Len(entries)
          /\ \A c \in Contracts : deployed[c] \subseteq heldSince[r][c]
          /\ a.errors = {} => \A i \in 1 .. a.entry, kind \in AllReads : ReadDone(a, i, kind) =>
               (entries[i].declares \cap FactsOf[kind]) \subseteq heldSince[r][entries[i].contract]

FoundAll(r) ==
    LET a == admission[r] s == a.submission
    IN  a.step = "activating" =>
          /\ s.trusted /\ s.signed
          /\ s.issuedAt <= a.at /\ a.at <= admitClock /\ a.at < s.expiresAt
          /\ \A i \in DOMAIN s.entries :
               s.entries[i].declares \subseteq heldSince[r][s.entries[i].contract]

AdmitIInv == AdmitTypeOK /\ \A r \in Operators : FoundSoFar(r) /\ FoundAll(r)
=============================================================================
