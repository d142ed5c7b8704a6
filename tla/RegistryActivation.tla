------------------------ MODULE RegistryActivation ------------------------
(***************************************************************************)
(* Activation of a signed registry by PostgresRegistryStore                *)
(* (packages/data-foundation/src/registry-store.ts), one action per SQL    *)
(* statement, for the activations of one network that the operations       *)
(* endpoint runs concurrently.  PostgreSQL's READ COMMITTED level is       *)
(* external: a statement reads what is committed when it starts, an UPDATE *)
(* that had to wait looks at the row again, and the partial unique index   *)
(* one_active_registry_per_network (migration 001) waits for undecided     *)
(* rivals and refuses a second active row.                                 *)
(*                                                                         *)
(* Signature, dates and the on-chain check of a manifest only decide       *)
(* whether an activation is attempted.  A manifest is its digest.          *)
(***************************************************************************)
EXTENDS Naturals

CONSTANTS
    Versions,    \* registry versions of the network
    Manifests,   \* signed manifests that are ever submitted
    Version,     \* the version a manifest names
    Activators,  \* connections running activate()
    MaxFaults,   \* bound: connections lost inside a transaction
    NoManifest, NoVersion

ASSUME ConstantsAssumption ==
    /\ Version \in [Manifests -> Versions]
    /\ MaxFaults \in Nat
    /\ NoManifest \notin Manifests
    /\ NoVersion \notin Versions

VARIABLES
    stored,      \* stored[v]: the committed manifest of the row of version v
    state,       \* state[v]: the committed state of that row
    phase,       \* phase[p]: the statement p executes next
    job,         \* job[p]: the manifest p activates
    picked,      \* picked[p]: the rows p's UPDATE found active when it began
    superseded,  \* superseded[p]: the rows p has set to superseded, and locks
    answered,    \* manifests whose activation was answered with success
    faults       \* connections lost so far

rows == <<stored, state>>
vars == <<stored, state, phase, job, picked, superseded, answered, faults>>

Init ==
    /\ stored = [v \in Versions |-> NoManifest]
    /\ state = [v \in Versions |-> "absent"]
    /\ phase = [p \in Activators |-> "idle"]
    /\ job = [p \in Activators |-> NoManifest]
    /\ picked = [p \in Activators |-> {}]
    /\ superseded = [p \in Activators |-> {}]
    /\ answered = {}
    /\ faults = 0

-----------------------------------------------------------------------------
Active == {v \in Versions : state[v] = "active"}
Own(p) == Version[job[p]]

(* The rows p has written, or locked to write, and not yet committed.       *)
Written(p) == superseded[p] \cup IF phase[p] \in {"index", "commit"} THEN {Own(p)} ELSE {}

Go(p, from, to) == phase[p] = from /\ phase' = [phase EXCEPT ![p] = to]

(* SELECT manifest_sha256: a version that has other content is rejected.    *)
Begin(p, m) ==
    /\ Go(p, "idle", "scan")
    /\ stored[Version[m]] \in {NoManifest, m}
    /\ job' = [job EXCEPT ![p] = m]
    /\ UNCHANGED <<rows, picked, superseded, answered, faults>>

(* UPDATE ... SET state = 'superseded', as of the rows now committed.       *)
ScanActive(p) ==
    /\ Go(p, "scan", "supersede")
    /\ picked' = [picked EXCEPT ![p] = Active \ {Own(p)}]
    /\ UNCHANGED <<rows, job, superseded, answered, faults>>

RowHolders(p, R) == {q \in Activators \ {p} : Written(q) \cap R # {}}

(* Mutant: the UPDATE forgets AND state = 'active'.                         *)
SupersedeAnyRow(p) ==
    LET R == {v \in Versions : state[v] # "absent"} \ {Own(p)}
    IN /\ Go(p, "supersede", "insert") /\ RowHolders(p, R) = {}
       /\ superseded' = [superseded EXCEPT ![p] = R]
       /\ picked' = [picked EXCEPT ![p] = {}]
       /\ UNCHANGED <<rows, job, answered, faults>>

(* ... once their rows are free, those that are still active.               *)
Supersede(p) ==
    /\ Go(p, "supersede", "insert")
    /\ RowHolders(p, picked[p]) = {}
    /\ superseded' = [superseded EXCEPT ![p] = picked[p] \cap Active]
    /\ picked' = [picked EXCEPT ![p] = {}]
    /\ UNCHANGED <<rows, job, answered, faults>>

(* INSERT ... ON CONFLICT (version) DO UPDATE first takes the row of its    *)
(* version, present or new, and holds it from then on ...                   *)
TakeVersion(p) ==
    /\ Go(p, "insert", "index")
    /\ RowHolders(p, {Own(p)}) = {}
    /\ UNCHANGED <<rows, job, picked, superseded, answered, faults>>

(* ... and then waits, as an active row, for everyone who has an entry of   *)
(* the one-active index undecided.                                          *)
IndexHolders(p) ==
    RowHolders(p, Active) \cup {q \in Activators \ {p} : phase[q] = "commit"}

Rivalled(p) == Active \ ({Own(p)} \cup superseded[p]) # {}

Insert(p) ==
    /\ Go(p, "index", "commit")
    /\ IndexHolders(p) = {}
    /\ ~Rivalled(p)
    /\ UNCHANGED <<rows, job, picked, superseded, answered, faults>>

Release(p) ==
    /\ phase' = [phase EXCEPT ![p] = "idle"]
    /\ job' = [job EXCEPT ![p] = NoManifest]
    /\ picked' = [picked EXCEPT ![p] = {}]
    /\ superseded' = [superseded EXCEPT ![p] = {}]

(* unique_violation: activate() throws, nothing has changed.                *)
UniqueViolation(p) ==
    /\ phase[p] = "index"
    /\ IndexHolders(p) = {}
    /\ Rivalled(p)
    /\ Release(p)
    /\ UNCHANGED <<rows, answered, faults>>

Overwrite(p) == [stored EXCEPT ![Own(p)] = job[p]]  \* mutant: DO UPDATE SET manifest

(* DO UPDATE leaves the manifest of an existing row alone.                  *)
Content(p) ==
    [stored EXCEPT ![Own(p)] = IF @ = NoManifest THEN job[p] ELSE @]

(* COMMIT; the answer may be lost on its way.                               *)
Commit(p) ==
    /\ phase[p] = "commit"
    /\ stored' = Content(p)
    /\ state' = [v \in Versions |-> IF v = Own(p) THEN "active"
                                    ELSE IF v \in superseded[p] THEN "superseded"
                                    ELSE state[v]]
    /\ answered' \in {answered, answered \cup {job[p]}}
    /\ Release(p)
    /\ UNCHANGED faults

(* Whom p's statement waits for.                                            *)
WaitsFor(p) ==
    CASE phase[p] = "supersede" -> RowHolders(p, picked[p])
      [] phase[p] = "insert" -> RowHolders(p, {Own(p)})
      [] phase[p] = "index" -> IndexHolders(p)
      [] OTHER -> {}

(* PostgreSQL's deadlock detector aborts a member of a cycle; activate()    *)
(* throws.                                                                  *)
DeadlockVictim(p) ==
    /\ \E S \in SUBSET Activators :
         /\ p \in S
         /\ \A q \in S : WaitsFor(q) \cap S # {} /\ \E r \in S : q \in WaitsFor(r)
    /\ Release(p)
    /\ UNCHANGED <<rows, answered, faults>>

(* The connection or the process is lost; PostgreSQL rolls back.            *)
Fault(p) ==
    /\ phase[p] # "idle"
    /\ faults < MaxFaults
    /\ faults' = faults + 1
    /\ Release(p)
    /\ UNCHANGED <<rows, answered>>

Step(p) ==
    \/ \E m \in Manifests : Begin(p, m)
    \/ ScanActive(p) \/ Supersede(p) \/ TakeVersion(p) \/ Insert(p)
    \/ UniqueViolation(p) \/ DeadlockVictim(p) \/ Commit(p) \/ Fault(p)

Next == \E p \in Activators : Step(p)

Spec == Init /\ [][Next]_vars

-----------------------------------------------------------------------------
(* The variables hold what the rows and activate() can hold.                *)
TypeOK ==
    /\ stored \in [Versions -> Manifests \cup {NoManifest}]
    /\ state \in [Versions -> {"absent", "active", "superseded"}]
    /\ phase \in [Activators -> {"idle", "scan", "supersede", "insert", "index", "commit"}]
    /\ job \in [Activators -> Manifests \cup {NoManifest}]
    /\ picked \in [Activators -> SUBSET Versions]
    /\ superseded \in [Activators -> SUBSET Versions]
    /\ answered \subseteq Manifests
    /\ faults \in 0..MaxFaults

(* Activations may have to wait for one another.  They do so in a circle    *)
(* only when the circle has two activations of one version (the one has the *)
(* row and waits for the index, the other has superseded the active row and *)
(* waits for the row): activations of different versions never deadlock,    *)
(* although each supersedes what the others activate.                       *)
OnlyRepeatsDeadlock ==
    \A S \in SUBSET {p \in Activators : phase[p] # "idle"} :
      /\ S # {}
      /\ \A p, q \in S : p # q => Own(p) # Own(q)
      => \E p \in S : WaitsFor(p) \cap S = {}

(* registry-store.ts:74, "Registry version is immutable and already has     *)
(* different content": an activation answered with success is an activation *)
(* of that content.                                                         *)
AnsweredIsStored == \A m \in answered : stored[Version[m]] = m

-----------------------------------------------------------------------------
(* The inductive invariant.                                                 *)

(* At most one version is active.                                           *)
OneActive == \A v, w \in Active : v = w

(* p has superseded active rows, not its own, for which it holds the locks; *)
(* when its own row is active as well, no committed row rivals it.          *)
WorkOK(p) ==
    /\ IF phase[p] = "idle" THEN picked[p] = {} ELSE job[p] \in Manifests
    /\ superseded[p] \subseteq Active
    /\ superseded[p] # {} => phase[p] \in {"insert", "index", "commit"} /\ Own(p) \notin superseded[p]
    /\ phase[p] = "commit" => Active \subseteq superseded[p] \cup {Own(p)}
    /\ phase[p] \in {"scan", "supersede"} => Own(p) \notin picked[p]

Apart(p, q) ==
    /\ Written(p) \cap Written(q) = {}
    /\ phase[p] # "commit" \/ phase[q] # "commit"

IInv ==
    /\ TypeOK /\ OneActive
    /\ \A v \in Active : stored[v] # NoManifest
    /\ \A v \in Versions : stored[v] # NoManifest => Version[stored[v]] = v
    /\ \A p \in Activators : WorkOK(p)
    /\ \A p, q \in Activators : p # q => Apart(p, q)

-----------------------------------------------------------------------------
ActiveVersion ==
    IF Active = {} THEN NoVersion ELSE CHOOSE v \in Versions : state[v] = "active"

Memory == INSTANCE RegistryMemory WITH
    versions <- stored,
    registry <- ActiveVersion

(* However activations overlap, fail or are refused, readers of active()    *)
(* see what they would see of the store in memory: always one registry once *)
(* there is one, the last that was activated, each version with the content *)
(* it was first activated with.                                             *)
ImplementsMemoryStore == Memory!Spec
===========================================================================
