------------------------- MODULE ProtectedIntents -------------------------
(***************************************************************************)
(* A protective intent from its plan to the transaction recorded for it:   *)
(* the routes /v1/actions/... of apps/api/src/app.ts, over the rows of     *)
(* action_intents, with walletRequestForIntent (packages/execution).       *)
(* Handlers interleave at every await.  What is planned (amounts, health   *)
(* factors, evidence) decides only whether the intent is ready.            *)
(***************************************************************************)
EXTENDS Integers

CONSTANTS
    Intents,    \* intents that are ever persisted
    Txids,      \* transaction ids wallets report
    Handlers,   \* wallet-request and submission requests handled at a time
    Lifetime,   \* ticks an intent lasts (60 s)
    Drift,      \* guardrails.maximumStateBlockDrift
    MaxTime,    \* bound: the clock
    MaxTip,     \* bound: height of the canonical tip
    MaxFaults   \* bound: failed statements and lost handlers

ASSUME ConstantsAssumption ==
    /\ Lifetime \in Nat \ {0} /\ Drift \in Nat
    /\ MaxTime \in Nat /\ MaxTip \in Nat /\ MaxFaults \in Nat

Heights == 0..MaxTip
NoTip == MaxTip + Drift + 1   \* Number.MAX_SAFE_INTEGER: beyond any drift

VARIABLES
    dataMode,   \* "fixture" or "live"
    clock,
    tip,        \* canonicalTip's height, NoTip before a block is canonical
    state,      \* state[i]: of the row of intent i, "absent" without one
    txid,       \* txid[i]: the transaction recorded for it, {} for null
    plan,       \* plan[i]: ready, expiresAt and simulation.stateBlock
    doing,      \* doing[h]: what the handler h does next
    about,      \* about[h]: the intent it has read
    saw,        \* saw[h]: the tip it has read
    validated,  \* intents walletRequestForIntent has made a payload of
    faults

vars == <<dataMode, clock, tip, state, txid, plan, doing, about, saw, validated,
          faults>>
world == <<dataMode, clock, tip>>
row == <<state, txid>>

Init ==
    /\ dataMode \in {"fixture", "live"}
    /\ clock = 0 /\ tip = NoTip
    /\ state = [i \in Intents |-> "absent"]
    /\ txid = [i \in Intents |-> {}]
    /\ plan = [i \in Intents |-> [ready |-> FALSE, expires |-> 0, block |-> 0]]
    /\ doing = [h \in Handlers |-> "off"]
    /\ about \in [Handlers -> Intents]
    /\ saw = [h \in Handlers |-> NoTip]
    /\ validated = {}
    /\ faults = 0

-----------------------------------------------------------------------------
Tick ==
    /\ clock < MaxTime
    /\ clock' = clock + 1
    /\ UNCHANGED <<dataMode, tip, row, plan, doing, about, saw, validated, faults>>

(* A block, or a reorganisation.                                            *)
MoveTip ==
    /\ tip' \in Heights \ {tip}
    /\ UNCHANGED <<dataMode, clock, row, plan, doing, about, saw, validated, faults>>

(* POST /v1/actions/intents: planned on positions of some earlier block.    *)
PutIntent(i) ==
    /\ state[i] = "absent"
    /\ \E ready \in BOOLEAN, block \in Heights :
         /\ plan' = [plan EXCEPT ![i] =
                       [ready |-> ready, expires |-> clock + Lifetime, block |-> block]]
         /\ state' = [state EXCEPT ![i] = IF ready THEN "planned" ELSE "blocked"]
    /\ UNCHANGED <<world, txid, doing, about, saw, validated, faults>>

Go(h, from, to) == doing[h] = from /\ doing' = [doing EXCEPT ![h] = to]

(* wallet-request reads the intent, in whatever state it is, ...            *)
Ask(h, i) ==
    /\ Go(h, "off", "asked")
    /\ state[i] # "absent"
    /\ about' = [about EXCEPT ![h] = i]
    /\ UNCHANGED <<world, row, plan, saw, validated, faults>>

(* ... then the canonical tip, ...                                          *)
ReadTip(h) ==
    /\ Go(h, "asked", "tip")
    /\ saw' = [saw EXCEPT ![h] =
                 IF dataMode = "fixture" THEN plan[about[h]].block ELSE tip]
    /\ UNCHANGED <<world, row, plan, about, validated, faults>>

Expired(i) == plan[i].expires <= clock

DriftOnly(h) ==    \* mutant: expiry is not checked
    LET i == about[h] IN plan[i].ready /\ saw[h] - plan[i].block <= Drift

(* walletRequestForIntent.  The hash of an intent never differs: no         *)
(* statement changes what is stored of it.                                  *)
Valid(h) ==
    LET i == about[h]
    IN plan[i].ready /\ ~Expired(i) /\ saw[h] - plan[i].block <= Drift

Validate(h) ==
    \/ /\ Go(h, "tip", "request") /\ Valid(h)
       /\ validated' = validated \cup {about[h]}
       /\ UNCHANGED <<world, row, plan, about, saw, faults>>
    \/ /\ Go(h, "tip", "block") /\ ~Valid(h)
       /\ UNCHANGED <<world, row, plan, about, saw, validated, faults>>

(* updateIntent: the state and the txid of the row, whatever they were.     *)
UpdateIntent(i, s, t) ==
    /\ state' = [state EXCEPT ![i] = s]
    /\ txid' = [txid EXCEPT ![i] = t]

(* ... and it records that the wallet was asked and answers the payload, or *)
(* that the intent is blocked.                                              *)
Record(h) ==
    /\ \/ Go(h, "request", "off") /\ UpdateIntent(about[h], "wallet-requested", {})
       \/ Go(h, "block", "off") /\ UpdateIntent(about[h], "blocked", {})
    /\ UNCHANGED <<world, plan, about, saw, validated, faults>>

(* The tip cannot be read, or the first update throws, before or after it   *)
(* is committed: the catch clause blocks the intent.                        *)
Throw(h) ==
    /\ faults < MaxFaults
    /\ faults' = faults + 1
    /\ \/ Go(h, "asked", "block") /\ UNCHANGED row
       \/ /\ Go(h, "request", "block")
          /\ UpdateIntent(about[h], "wallet-requested", {}) \/ UNCHANGED row
    /\ UNCHANGED <<world, plan, about, saw, validated>>

SubmitAnyState(h, i) ==    \* mutant: the state of the intent is not checked
    /\ Go(h, "off", "submit") /\ state[i] # "absent" /\ dataMode # "live"
    /\ about' = [about EXCEPT ![h] = i]
    /\ UNCHANGED <<world, row, plan, saw, validated, faults>>

(* A submission reads the intent: in live mode every intent is a shadow,    *)
(* otherwise the wallet must have been asked.                               *)
Submit(h, i) ==
    /\ Go(h, "off", "submit")
    /\ dataMode # "live"
    /\ state[i] = "wallet-requested"
    /\ about' = [about EXCEPT ![h] = i]
    /\ UNCHANGED <<world, row, plan, saw, validated, faults>>

(* Fixture mode confirms what is reported ("submitted" is for intents that  *)
(* are neither fixtures nor shadows, and nothing plans one).                *)
RecordTxid(h) ==
    /\ Go(h, "submit", "off")
    /\ \E t \in Txids : UpdateIntent(about[h], "confirmed", {t})
    /\ UNCHANGED <<world, plan, about, saw, validated, faults>>

(* The process is lost, or the statement throws and the route answers 500.  *)
Abandon(h) ==
    /\ doing[h] # "off"
    /\ faults < MaxFaults
    /\ faults' = faults + 1
    /\ doing' = [doing EXCEPT ![h] = "off"]
    /\ UNCHANGED <<world, row, plan, about, saw, validated>>

Next ==
    \/ Tick \/ MoveTip
    \/ \E i \in Intents : PutIntent(i) \/ \E h \in Handlers : Ask(h, i) \/ Submit(h, i)
    \/ \E h \in Handlers : ReadTip(h) \/ Validate(h) \/ Record(h) \/ Throw(h)
                           \/ RecordTxid(h) \/ Abandon(h)

Spec == Init /\ [][Next]_vars

-----------------------------------------------------------------------------
(* The variables hold what the rows and the handlers can hold.              *)
TypeOK ==
    /\ dataMode \in {"fixture", "live"}
    /\ clock \in 0..MaxTime /\ tip \in Heights \cup {NoTip}
    /\ state \in [Intents -> {"absent", "planned", "wallet-requested", "confirmed",
                              "blocked"}]
    /\ txid \in [Intents -> SUBSET Txids]
    /\ plan \in [Intents -> [ready : BOOLEAN, expires : Nat, block : Heights]]
    /\ doing \in [Handlers -> {"off", "asked", "tip", "request", "block", "submit"}]
    /\ about \in [Handlers -> Intents]
    /\ saw \in [Handlers -> Heights \cup {NoTip}]
    /\ validated \subseteq Intents
    /\ faults \in 0..MaxFaults

(* README.md:345, "every protective intent expires and is revalidated at    *)
(* the authenticated boundary": however wallet requests, submissions and    *)
(* failures overlap, a transaction is recorded only for an intent that was  *)
(* ready and, at some moment before it expired, made into a payload; and    *)
(* the state says so exactly while the transaction is there.                *)
RecordedWasValidated ==
    \A i \in Intents :
      /\ txid[i] # {} => i \in validated /\ plan[i].ready /\ dataMode = "fixture"
      /\ txid[i] # {} <=> state[i] = "confirmed"

(* Handlers that are about to record something other than a block.          *)
Pending(i) == \E h \in Handlers : about[h] = i /\ doing[h] \in {"request", "submit"}

Lapsed(i) ==
    /\ state[i] \notin {"absent", "wallet-requested"}
    /\ Expired(i) /\ ~Pending(i)

(* README.md:345: an intent that has expired, that the wallet was not asked *)
(* about, and of which no handler is already past its check cannot come     *)
(* back to life: no sequence of wallet requests and submissions revives it. *)
LapsedStaysLapsed == [][\A i \in Intents : Lapsed(i) => Lapsed(i)']_vars

(* docs/adr/0001-mvp-architecture.md:20, "intent hashes so retries remain   *)
(* idempotent and auditable": a recorded transaction stays on record.       *)
TxidKept == [][\A i \in Intents : txid[i] # {} => txid'[i] # {}]_vars

(* What carries the proofs: validated intents are persisted and ready; so   *)
(* are those the wallet was asked about; a handler that passed the check    *)
(* concerns a validated intent; nothing is submitted to a live deployment.  *)
IntentOK(i) ==
    /\ i \in validated => plan[i].ready /\ state[i] # "absent"
    /\ state[i] = "wallet-requested" => i \in validated
HandlerOK(h) ==
    /\ doing[h] # "off" => state[about[h]] # "absent"
    /\ doing[h] \in {"request", "submit"} => about[h] \in validated
    /\ doing[h] = "submit" => dataMode = "fixture"

(* The inductive invariant.                                                 *)
IInv ==
    /\ TypeOK /\ RecordedWasValidated
    /\ \A i \in Intents : IntentOK(i)
    /\ \A h \in Handlers : HandlerOK(h)
===========================================================================
