--------------------------- MODULE AlertWorkflow ---------------------------
(***************************************************************************)
(* Alert rules and their occurrences: occurrencesForRule and the rows of    *)
(* packages/workflows/src/index.ts, as the overview and risk routes and     *)
(* POST /v1/alerts/rules of apps/api/src/app.ts write them: rule by rule,   *)
(* risk by risk, one upsert each, without a transaction, after awaits that  *)
(* other requests and the risks themselves overtake; or, in the memory      *)
(* store, which replaces the rows, rule by rule.  One wallet.               *)
(*                                                                         *)
(* Which plan allows how many rules is in CommercialLimits.                 *)
(***************************************************************************)
EXTENDS Naturals

CONSTANTS
    AlertRules,     \* rule ids there are to draw from
    RiskIds,        \* riskId of a finding
    Evaluators,     \* requests that evaluate risks, handled at a time
    TopSeverity,    \* severityRank of "critical"; 0 stands for no finding
    MaxAlertTime    \* bound: the clock

ASSUME AlertAssumption == TopSeverity \in Nat \ {0} /\ MaxAlertTime \in Nat

Severities == 0..TopSeverity

VARIABLES
    durable,      \* whether there is a database: PostgresProductStore
    alertClock,
    severityOf,   \* severityOf[k]: what an evaluation finds of the risk k now
    minimum,      \* minimum[q]: minimumSeverity of the rule q, 0 without a row
    occurrence,   \* occurrence[q][k]: the row of alert_occurrences
    evaluation    \* evaluation[h]: what the handler h has read and has to do

alertWorld == <<durable, alertClock, severityOf, minimum>>
alertVars == <<alertWorld, occurrence, evaluation>>

NoOccurrence == [severity |-> 0]
NoJob == [step |-> "off"]

AlertInit ==
    /\ durable \in BOOLEAN
    /\ alertClock = 0
    /\ severityOf \in [RiskIds -> Severities]
    /\ minimum = [q \in AlertRules |-> 0]
    /\ occurrence = [q \in AlertRules |-> [k \in RiskIds |-> NoOccurrence]]
    /\ evaluation = [h \in Evaluators |-> NoJob]

-----------------------------------------------------------------------------
(* Time passes, and with it the wallet's positions and prices change.       *)
AlertTick ==
    /\ alertClock < MaxAlertTime
    /\ alertClock' = alertClock + 1
    /\ severityOf' \in [RiskIds -> Severities]
    /\ UNCHANGED <<durable, minimum, occurrence, evaluation>>

Stored == {q \in AlertRules : minimum[q] > 0}

(* GET overview or risk: the risks are evaluated, then the rules are read.  *)
EvaluateRisks(h) ==
    /\ evaluation[h].step = "off"
    /\ evaluation' = [evaluation EXCEPT ![h] =
         [step |-> "rules", seen |-> severityOf]]
    /\ UNCHANGED <<alertWorld, occurrence>>
ReadRules(h) ==
    /\ evaluation[h].step = "rules"
    /\ evaluation' = [evaluation EXCEPT ![h] =
         [step |-> "next", seen |-> @.seen, rules |-> Stored, todo |-> Stored]]
    /\ UNCHANGED <<alertWorld, occurrence>>

(* POST /v1/alerts/rules: a new rule, whose occurrences are then evaluated. *)
PutAlertRule(h, q, least) ==
    /\ evaluation[h].step = "off" /\ q \notin Stored
    /\ minimum' = [minimum EXCEPT ![q] = least]
    /\ evaluation' = [evaluation EXCEPT ![h] =
         [step |-> "risks", rules |-> {q}, todo |-> {q}]]
    /\ UNCHANGED <<durable, alertClock, severityOf, occurrence>>
EvaluateForRule(h) ==
    /\ evaluation[h].step = "risks"
    /\ evaluation' = [evaluation EXCEPT ![h] =
         [step |-> "next", seen |-> severityOf, rules |-> @.rules, todo |-> @.todo]]
    /\ UNCHANGED <<alertWorld, occurrence>>

AboveMinimum(q, seen) ==    \* mutant: a risk at the minimum raises nothing
    {k \in RiskIds : seen[k] > minimum[q]}

(* occurrencesForRule: findings at the rule's minimum severity or above.    *)
Raised(q, seen) == {k \in RiskIds : seen[k] >= minimum[q] /\ seen[k] > 0}

(* The rows for the next rule are made, with the time, ...                  *)
StartRule(h, q) ==
    /\ durable /\ evaluation[h].step = "next" /\ q \in evaluation[h].todo
    /\ evaluation' = [evaluation EXCEPT ![h] =
         [step |-> "put", seen |-> @.seen, rules |-> @.rules, todo |-> @.todo \ {q},
          rule |-> q, rows |-> Raised(q, @.seen), at |-> alertClock]]
    /\ UNCHANGED <<alertWorld, occurrence>>

Opened(s, at) == [severity |-> s, opened |-> at]

Reopened(old, s, at) == Opened(s, at)    \* mutant: the whole row is replaced

(* INSERT ... ON CONFLICT (occurrence_id) DO UPDATE SET severity, ...       *)
Upserted(old, s, at) ==
    IF old = NoOccurrence THEN Opened(s, at)
    ELSE [old EXCEPT !.severity = s]

(* ... and stored one by one.                                               *)
PutOccurrence(h) ==
    /\ evaluation[h].step = "put"
    /\ \E k \in evaluation[h].rows :
         /\ occurrence' = [occurrence EXCEPT ![evaluation[h].rule][k] =
                             Upserted(@, evaluation[h].seen[k], evaluation[h].at)]
         /\ evaluation' = [evaluation EXCEPT ![h].rows = @ \ {k}]
    /\ UNCHANGED alertWorld

RuleDone(h) ==
    /\ evaluation[h].step = "put" /\ evaluation[h].rows = {}
    /\ evaluation' = [evaluation EXCEPT ![h] =
         [step |-> "next", seen |-> @.seen, rules |-> @.rules, todo |-> @.todo]]
    /\ UNCHANGED <<alertWorld, occurrence>>

(* MemoryProductStore: all rows of the next rule, in whole, in one step.    *)
ReplaceOccurrences(h, q) ==
    /\ ~durable /\ evaluation[h].step = "next" /\ q \in evaluation[h].todo
    /\ LET seen == evaluation[h].seen
       IN occurrence' = [occurrence EXCEPT ![q] =
            [k \in RiskIds |-> IF k \in Raised(q, seen) THEN Opened(seen[k], alertClock) ELSE @[k]]]
    /\ evaluation' = [evaluation EXCEPT ![h].todo = @ \ {q}]
    /\ UNCHANGED alertWorld

AnswerRisks(h) ==
    /\ evaluation[h].step = "next" /\ evaluation[h].todo = {}
    /\ evaluation' = [evaluation EXCEPT ![h].step = "answered"]
    /\ UNCHANGED <<alertWorld, occurrence>>

(* The answer is out; or a statement throws, or the process is lost.        *)
LeaveJob(h) ==
    /\ evaluation[h].step # "off"
    /\ evaluation' = [evaluation EXCEPT ![h] = NoJob]
    /\ UNCHANGED <<alertWorld, occurrence>>

AlertNext ==
    \/ AlertTick
    \/ \E h \in Evaluators :
         \/ EvaluateRisks(h) \/ ReadRules(h) \/ EvaluateForRule(h)
         \/ PutOccurrence(h) \/ RuleDone(h) \/ AnswerRisks(h) \/ LeaveJob(h)
         \/ \E q \in AlertRules :
              \/ StartRule(h, q) \/ ReplaceOccurrences(h, q)
              \/ \E s \in 1..TopSeverity : PutAlertRule(h, q, s)

AlertSpec == AlertInit /\ [][AlertNext]_alertVars

-----------------------------------------------------------------------------
(* A request that was answered has left an occurrence of every risk it      *)
(* found, for every rule it read: what another evaluation, or one that      *)
(* failed half way, has written never takes it away.                        *)
AnsweredIsRaised ==
    \A h \in Evaluators : evaluation[h].step = "answered" =>
      \A q \in evaluation[h].rules, k \in RiskIds :
        evaluation[h].seen[k] >= minimum[q] => occurrence[q][k] # NoOccurrence

(* docs/adr/0001-mvp-architecture.md:20, "deterministic alert occurrence    *)
(* keys": evaluating again never drops an occurrence, and in the database   *)
(* never opens it anew.  In the memory store it does: the row is replaced   *)
(* by every evaluation that finds the risk again, and by nothing else.      *)
OccurrencesKept ==
    [][\A q \in AlertRules, k \in RiskIds :
         occurrence[q][k] # NoOccurrence =>
           /\ occurrence'[q][k] # NoOccurrence
           /\ occurrence'[q][k].opened # occurrence[q][k].opened =>
                /\ ~durable /\ occurrence'[q][k].opened = alertClock
                /\ \E h \in Evaluators :
                     /\ evaluation[h].step = "next" /\ q \in evaluation[h].todo
                     /\ evaluation[h].seen[k] >= minimum[q]]_alertVars
===========================================================================
