--------------------------- MODULE WorkflowProofs ---------------------------
(***************************************************************************)
(* Proofs about what is kept for a wallet and changed step by step:        *)
(* ProtectedIntents, for any intents, transactions, number of handlers,    *)
(* lifetime and drift, and AlertWorkflow, for any rules, risks and number  *)
(* of evaluations and edits at a time; and about calls that are queued and *)
(* tried again: ReadGate, for any number of reads, slots and retries (the  *)
(* slots are counted right, nobody waits beside a free one, and no read    *)
(* overtakes another in the queue, which all rests on this: never more     *)
(* than one read is let in at a time), and SdkRetry, for any number of     *)
(* retries.                                                                *)
(***************************************************************************)
EXTENDS ProtectedIntents, AlertWorkflow, ReadGate, SdkRetry, FiniteSetTheorems, TLAPS

-----------------------------------------------------------------------------
(* Alert rules and their occurrences.                                       *)
Findings == [RiskIds -> Severities]
Occurrences == {NoOccurrence} \cup [severity : Severities, opened : Nat]

RuleJobs == [step : {"next", "answered"}, seen : Findings, rules : SUBSET AlertRules,
             todo : SUBSET AlertRules]
RowJobs == [step : {"put"}, seen : Findings, rules : SUBSET AlertRules,
            todo : SUBSET AlertRules, rule : AlertRules, rows : SUBSET RiskIds, at : Nat]
Jobs == {NoJob} \cup [step : {"rules"}, seen : Findings]
        \cup [step : {"risks"}, rules : SUBSET AlertRules, todo : SUBSET AlertRules]
        \cup RuleJobs \cup RowJobs

AlertTypeOK ==
    /\ durable \in BOOLEAN
    /\ alertClock \in Nat
    /\ severityOf \in Findings
    /\ minimum \in [AlertRules -> Nat]
    /\ occurrence \in [AlertRules -> [RiskIds -> Occurrences]]
    /\ evaluation \in [Evaluators -> Jobs]

(* Every finding that the rule q asks for, those of left excepted, has its  *)
(* occurrence.                                                              *)
Covered(seen, q, left) ==
    \A k \in RiskIds \ left : seen[k] >= minimum[q] => occurrence[q][k] # NoOccurrence

(* The rules a handler works off are stored, and those it is done with are  *)
(* covered; of the rule it is at, what is left is still in rows.            *)
JobOK(j) ==
    /\ j.step \in {"risks", "next", "put", "answered"} =>
         j.rules \subseteq Stored /\ j.todo \subseteq j.rules
    /\ j.step = "risks" => j.todo = j.rules
    /\ j.step = "next" => \A q \in j.rules \ j.todo : Covered(j.seen, q, {})
    /\ j.step = "put" =>
         /\ j.rule \in j.rules
         /\ Covered(j.seen, j.rule, j.rows)
         /\ \A q \in j.rules \ (j.todo \cup {j.rule}) : Covered(j.seen, q, {})
    /\ j.step = "answered" => \A q \in j.rules : Covered(j.seen, q, {})

AlertIInv ==
    /\ AlertTypeOK
    /\ \A h \in Evaluators : JobOK(evaluation[h])

LEMMA JobShapes ==
  ASSUME NEW j \in Jobs
  PROVE  /\ j.step = "rules" => j \in [step : {"rules"}, seen : Findings]
         /\ j.step = "risks" => j.rules \in SUBSET AlertRules /\ j.todo \in SUBSET AlertRules
         /\ j.step \in {"next", "answered"} => j \in RuleJobs
         /\ j.step = "put" => j \in RowJobs
         /\ j.step \in {"off", "rules", "risks", "next", "put", "answered"}
  BY DEF Jobs, NoJob, RuleJobs, RowJobs

LEMMA OccurrenceTells ==
  ASSUME NEW o \in Occurrences
  PROVE  o # NoOccurrence => o \in [severity : Severities, opened : Nat]
  BY DEF Occurrences

LEMMA NewOccurrence ==
  ASSUME NEW s \in Severities, NEW t \in Nat
  PROVE  /\ [severity |-> s, opened |-> t] \in Occurrences
         /\ [severity |-> s, opened |-> t] # NoOccurrence
  <1>1. [severity |-> s, opened |-> t] \in [severity : Severities, opened : Nat]
        OBVIOUS
  <1>2. DOMAIN [severity |-> s, opened |-> t] # DOMAIN NoOccurrence
        BY DEF NoOccurrence
  <1> QED
      BY <1>1, <1>2 DEF Occurrences

(* An upsert keeps the row and the time it was opened.                      *)
LEMMA UpsertedIsThere ==
  ASSUME NEW o \in Occurrences, NEW s \in Severities, NEW t \in Nat
  PROVE  /\ Upserted(o, s, t) \in Occurrences
         /\ Upserted(o, s, t) # NoOccurrence
         /\ o # NoOccurrence => Upserted(o, s, t).opened = o.opened
  <1>1. CASE o = NoOccurrence
        BY <1>1, NewOccurrence DEF Upserted, Opened
  <1>2. CASE o # NoOccurrence
    <2>1. o \in [severity : Severities, opened : Nat]
          BY <1>2, OccurrenceTells
    <2>2. [o EXCEPT !.severity = s] = [severity |-> s, opened |-> o.opened]
          BY <2>1
    <2> QED
        BY <1>2, <2>1, <2>2, NewOccurrence DEF Upserted, Opened
  <1> QED
      BY <1>1, <1>2

LEMMA AlertInitInv == AlertInit => AlertIInv
  <1> SUFFICES ASSUME AlertInit PROVE AlertIInv
      OBVIOUS
  <1>1. AlertTypeOK
        BY DEF AlertInit, AlertTypeOK, Findings, Severities, Occurrences, Jobs
  <1>2. \A h \in Evaluators : JobOK(evaluation[h])
        BY DEF AlertInit, JobOK, NoJob
  <1> QED
      BY <1>1, <1>2 DEF AlertIInv

(* A step of h that leaves rules and occurrences alone owes its own job.    *)
LEMMA JobStepKeepsInv ==
  ASSUME NEW h \in Evaluators, NEW j \in Jobs, AlertIInv, JobOK(j),
         evaluation' = [evaluation EXCEPT ![h] = j],
         UNCHANGED <<alertWorld, occurrence>>
  PROVE  AlertIInv'
  <1>1. AlertTypeOK'
        BY DEF AlertIInv, AlertTypeOK, alertWorld
  <1>2. \A q \in AlertRules : \A seen, left : Covered(seen, q, left) => Covered(seen, q, left)'
        BY DEF Covered, alertWorld
  <1>3. Stored' = Stored
        BY DEF Stored, alertWorld
  <1>4. \A g \in Evaluators : JobOK(evaluation'[g])
        BY DEF AlertIInv, AlertTypeOK
  <1>5. \A g \in Evaluators : JobOK(evaluation[g])'
        BY <1>4 DEF JobOK, Covered, Stored, alertWorld
  <1> QED
      BY <1>1, <1>5 DEF AlertIInv

LEMMA ReadingKeepsInv ==
  ASSUME NEW h \in Evaluators, AlertIInv,
         EvaluateRisks(h) \/ ReadRules(h) \/ EvaluateForRule(h) \/ LeaveJob(h)
  PROVE  AlertIInv'
  <1> DEFINE j == evaluation[h]
  <1>1. j \in Jobs /\ severityOf \in Findings /\ JobOK(j) /\ Stored \in SUBSET AlertRules
        BY DEF AlertIInv, AlertTypeOK, Stored
  <1>2. CASE EvaluateRisks(h)
    <2>1. [step |-> "rules", seen |-> severityOf] \in Jobs
          BY <1>1 DEF Jobs
    <2>2. JobOK([step |-> "rules", seen |-> severityOf])
          BY DEF JobOK
    <2> QED
        BY <1>2, <2>1, <2>2, JobStepKeepsInv DEF EvaluateRisks
  <1>3. CASE ReadRules(h)
    <2> DEFINE n == [step |-> "next", seen |-> j.seen, rules |-> Stored, todo |-> Stored]
    <2>1. n \in Jobs
          BY <1>1, <1>3, JobShapes DEF ReadRules, Jobs, RuleJobs
    <2>2. JobOK(n)
          BY DEF JobOK
    <2>3. evaluation' = [evaluation EXCEPT ![h] = n]
          BY <1>3 DEF ReadRules, AlertIInv, AlertTypeOK
    <2> QED
        BY <1>3, <2>1, <2>2, <2>3, JobStepKeepsInv DEF ReadRules
  <1>4. CASE EvaluateForRule(h)
    <2> DEFINE n == [step |-> "next", seen |-> severityOf, rules |-> j.rules, todo |-> j.todo]
    <2>1. j.rules \in SUBSET AlertRules /\ j.todo \in SUBSET AlertRules /\ j.step = "risks"
          BY <1>1, <1>4, JobShapes DEF EvaluateForRule
    <2>2. n \in Jobs
          BY <1>1, <2>1 DEF Jobs, RuleJobs
    <2>3. JobOK(n)
          BY <1>1, <2>1 DEF JobOK
    <2>4. evaluation' = [evaluation EXCEPT ![h] = n]
          BY <1>4 DEF EvaluateForRule, AlertIInv, AlertTypeOK
    <2> QED
        BY <1>4, <2>2, <2>3, <2>4, JobStepKeepsInv DEF EvaluateForRule
  <1>5. CASE LeaveJob(h)
    <2>1. NoJob \in Jobs /\ JobOK(NoJob)
          BY DEF Jobs, JobOK, NoJob
    <2> QED
        BY <1>5, <2>1, JobStepKeepsInv DEF LeaveJob
  <1> QED
      BY <1>2, <1>3, <1>4, <1>5

(* The rows made for a rule are those of every finding it asks for: a       *)
(* stored rule asks for one finding at least, so none of severity 0.        *)
LEMMA StartKeepsInv ==
  ASSUME NEW h \in Evaluators, NEW q \in AlertRules, AlertIInv, StartRule(h, q)
  PROVE  AlertIInv'
  <1> DEFINE j == evaluation[h]
  <1> DEFINE n == [step |-> "put", seen |-> j.seen, rules |-> j.rules, todo |-> j.todo \ {q},
                   rule |-> q, rows |-> Raised(q, j.seen), at |-> alertClock]
  <1>1. j \in RuleJobs /\ JobOK(j) /\ j.step = "next" /\ q \in j.todo
        BY JobShapes DEF AlertIInv, AlertTypeOK, StartRule
  <1>2. n \in Jobs
        BY <1>1 DEF Jobs, RuleJobs, RowJobs, Raised, AlertIInv, AlertTypeOK
  <1>3. q \in Stored /\ minimum[q] \in Nat /\ j.seen \in [RiskIds -> Nat]
        BY <1>1 DEF JobOK, RuleJobs, AlertIInv, AlertTypeOK, Findings, Severities
  <1>4. Covered(j.seen, q, Raised(q, j.seen))
        BY <1>3 DEF Covered, Raised, Stored
  <1>5. JobOK(n)
        BY <1>1, <1>4 DEF JobOK
  <1>6. evaluation' = [evaluation EXCEPT ![h] = n]
        BY DEF StartRule, AlertIInv, AlertTypeOK
  <1> QED
      BY <1>2, <1>5, <1>6, JobStepKeepsInv DEF StartRule

LEMMA DoneKeepsInv ==
  ASSUME NEW h \in Evaluators, AlertIInv, RuleDone(h) \/ AnswerRisks(h)
  PROVE  AlertIInv'
  <1> DEFINE j == evaluation[h]
  <1>1. j \in Jobs /\ JobOK(j)
        BY DEF AlertIInv, AlertTypeOK
  <1>2. CASE RuleDone(h)
    <2> DEFINE n == [step |-> "next", seen |-> j.seen, rules |-> j.rules, todo |-> j.todo]
    <2>1. j \in RowJobs /\ j.step = "put" /\ j.rows = {}
          BY <1>1, <1>2, JobShapes DEF RuleDone
    <2>2. n \in Jobs
          BY <2>1 DEF Jobs, RuleJobs, RowJobs
    <2>3. JobOK(n)
          BY <1>1, <2>1 DEF JobOK, Covered
    <2>4. evaluation' = [evaluation EXCEPT ![h] = n]
          BY <1>2 DEF RuleDone, AlertIInv, AlertTypeOK
    <2> QED
        BY <1>2, <2>2, <2>3, <2>4, JobStepKeepsInv DEF RuleDone
  <1>3. CASE AnswerRisks(h)
    <2> DEFINE n == [j EXCEPT !.step = "answered"]
    <2>1. j \in RuleJobs /\ j.step = "next" /\ j.todo = {}
          BY <1>1, <1>3, JobShapes DEF AnswerRisks
    <2>2. n \in RuleJobs /\ n.seen = j.seen /\ n.rules = j.rules /\ n.todo = {} /\ n.step = "answered"
          BY <2>1 DEF RuleJobs
    <2>3. n \in Jobs /\ JobOK(n)
          BY <1>1, <2>1, <2>2 DEF Jobs, JobOK
    <2>4. evaluation' = [evaluation EXCEPT ![h] = n]
          BY <1>3 DEF AnswerRisks, AlertIInv, AlertTypeOK
    <2> QED
        BY <1>3, <2>3, <2>4, JobStepKeepsInv DEF AnswerRisks
  <1> QED
      BY <1>2, <1>3

(* A row that is written takes no other away.                               *)
LEMMA PutChangesOneRow ==
  ASSUME NEW h \in Evaluators, AlertIInv, PutOccurrence(h)
  PROVE  \E k \in evaluation[h].rows :
           /\ evaluation[h] \in RowJobs
           /\ evaluation' = [evaluation EXCEPT ![h].rows = @ \ {k}]
           /\ occurrence' \in [AlertRules -> [RiskIds -> Occurrences]]
           /\ occurrence'[evaluation[h].rule][k] # NoOccurrence
           /\ \A q \in AlertRules, r \in RiskIds : occurrence[q][r] # NoOccurrence =>
                /\ occurrence'[q][r] # NoOccurrence
                /\ occurrence'[q][r].opened = occurrence[q][r].opened
  <1> DEFINE j == evaluation[h]
  <1>1. j \in RowJobs
        BY JobShapes DEF AlertIInv, AlertTypeOK, PutOccurrence
  <1>2. PICK k \in j.rows :
          /\ occurrence' = [occurrence EXCEPT ![j.rule][k] = Upserted(@, j.seen[k], j.at)]
          /\ evaluation' = [evaluation EXCEPT ![h].rows = @ \ {k}]
        BY DEF PutOccurrence
  <1> DEFINE o == occurrence[j.rule][k]
  <1> DEFINE u == Upserted(o, j.seen[k], j.at)
  <1>3. j.rule \in AlertRules /\ k \in RiskIds /\ j.seen[k] \in Severities /\ j.at \in Nat
        BY <1>1 DEF RowJobs, Findings
  <1>4. occurrence \in [AlertRules -> [RiskIds -> Occurrences]]
        BY DEF AlertIInv, AlertTypeOK
  <1>5. u \in Occurrences /\ u # NoOccurrence /\ (o # NoOccurrence => u.opened = o.opened)
        BY <1>3, <1>4, UpsertedIsThere
  <1> HIDE DEF u
  <1>6. \A q \in AlertRules, r \in RiskIds :
          occurrence'[q][r] = IF q = j.rule /\ r = k THEN u ELSE occurrence[q][r]
        BY <1>2, <1>3, <1>4 DEF u
  <1>7. occurrence' \in [AlertRules -> [RiskIds -> Occurrences]]
        BY <1>2, <1>3, <1>4, <1>5 DEF u
  <1> QED
      BY <1>1, <1>2, <1>3, <1>5, <1>6, <1>7

LEMMA PutKeepsInv ==
  ASSUME NEW h \in Evaluators, AlertIInv, PutOccurrence(h)
  PROVE  AlertIInv'
  <1> DEFINE j == evaluation[h]
  <1>1. PICK k \in j.rows :
          /\ j \in RowJobs
          /\ evaluation' = [evaluation EXCEPT ![h].rows = @ \ {k}]
          /\ occurrence' \in [AlertRules -> [RiskIds -> Occurrences]]
          /\ occurrence'[j.rule][k] # NoOccurrence
          /\ \A q \in AlertRules, r \in RiskIds :
               occurrence[q][r] # NoOccurrence => occurrence'[q][r] # NoOccurrence
        BY PutChangesOneRow
  <1>n. PICK n : n = [j EXCEPT !.rows = @ \ {k}]
        OBVIOUS
  <1>2. n \in RowJobs /\ n.step = j.step /\ n.seen = j.seen /\ n.rules = j.rules
        /\ n.todo = j.todo /\ n.rule = j.rule /\ n.rows = j.rows \ {k} /\ j.step = "put"
        BY <1>1, <1>n DEF RowJobs
  <1>3. evaluation' = [evaluation EXCEPT ![h] = n]
        BY <1>1, <1>n DEF AlertIInv, AlertTypeOK
  <1>4. AlertTypeOK' /\ UNCHANGED alertWorld
    <2>1. n \in Jobs
          BY <1>2 DEF Jobs
    <2>2. UNCHANGED alertWorld
          BY DEF PutOccurrence
    <2>3. evaluation' \in [Evaluators -> Jobs]
          BY <1>3, <2>1 DEF AlertIInv, AlertTypeOK
    <2> QED
        BY <1>1, <2>2, <2>3 DEF AlertIInv, AlertTypeOK, alertWorld
  <1>5. Stored' = Stored /\ Stored \subseteq AlertRules
        BY <1>4 DEF Stored, alertWorld
  <1>6. \A q \in AlertRules : \A seen, left : Covered(seen, q, left) => Covered(seen, q, left)'
        BY <1>1, <1>4 DEF Covered, alertWorld
  <1>7. \A q, seen, left : q = j.rule /\ Covered(seen, q, left) => Covered(seen, q, left \ {k})'
        BY <1>1, <1>4 DEF Covered, alertWorld, RowJobs
  <1>8. ASSUME NEW g \in Evaluators PROVE JobOK(evaluation[g])'
    <2>1. JobOK(evaluation[g]) /\ JobOK(j)
          BY DEF AlertIInv
    <2>2. CASE g # h
      <3>1. evaluation'[g] = evaluation[g]
            BY <1>3, <2>2 DEF AlertIInv, AlertTypeOK
      <3> QED
          BY <2>1, <3>1, <1>5, <1>6 DEF JobOK
    <2>3. CASE g = h
      <3>1. evaluation'[g] = n
            BY <1>3, <2>3 DEF AlertIInv, AlertTypeOK
      <3>2. /\ j.rules \subseteq Stored /\ j.todo \subseteq j.rules /\ j.rule \in j.rules
            /\ Covered(j.seen, j.rule, j.rows)
            /\ \A q \in j.rules \ (j.todo \cup {j.rule}) : Covered(j.seen, q, {})
            BY <1>2, <2>1 DEF JobOK
      <3>3. \A q \in n.rules \ (n.todo \cup {n.rule}) : Covered(n.seen, q, {})'
            BY <1>2, <1>5, <1>6, <3>2
      <3>4. Covered(n.seen, n.rule, n.rows)'
            BY <1>2, <1>7, <3>2
      <3> QED
          BY <1>2, <1>5, <3>1, <3>2, <3>3, <3>4 DEF JobOK
    <2> QED
        BY <2>2, <2>3
  <1> QED
      BY <1>4, <1>8 DEF AlertIInv

(* In the memory store the rows of a rule are replaced in one step: each    *)
(* finding has its row after it, and no row is taken away.                  *)
LEMMA ReplaceChangesOneRule ==
  ASSUME NEW h \in Evaluators, NEW p \in AlertRules, AlertIInv, ReplaceOccurrences(h, p)
  PROVE  /\ evaluation[h] \in RuleJobs /\ JobOK(evaluation[h])
         /\ p \in Stored /\ p \in evaluation[h].todo /\ evaluation[h].step = "next"
         /\ occurrence' \in [AlertRules -> [RiskIds -> Occurrences]]
         /\ \A k \in RiskIds : evaluation[h].seen[k] >= minimum[p] => occurrence'[p][k] # NoOccurrence
         /\ \A q \in AlertRules, k \in RiskIds : occurrence[q][k] # NoOccurrence =>
              /\ occurrence'[q][k] # NoOccurrence
              /\ occurrence'[q][k].opened # occurrence[q][k].opened =>
                   /\ ~durable /\ occurrence'[q][k].opened = alertClock
                   /\ q = p /\ evaluation[h].seen[k] >= minimum[p]
  <1> DEFINE j == evaluation[h]
  <1> DEFINE R == Raised(p, j.seen)
  <1> DEFINE Written(k) == IF k \in R THEN Opened(j.seen[k], alertClock) ELSE occurrence[p][k]
  <1>1. j \in RuleJobs /\ JobOK(j) /\ j.step = "next" /\ p \in j.todo /\ ~durable
        BY JobShapes DEF AlertIInv, AlertTypeOK, ReplaceOccurrences
  <1>2. p \in Stored /\ minimum[p] \in Nat /\ minimum[p] > 0 /\ j.seen \in Findings /\ alertClock \in Nat
        BY <1>1 DEF JobOK, RuleJobs, Stored, AlertIInv, AlertTypeOK
  <1>3. occurrence \in [AlertRules -> [RiskIds -> Occurrences]]
        BY DEF AlertIInv, AlertTypeOK
  <1>4. occurrence' = [occurrence EXCEPT ![p] = [k \in RiskIds |-> Written(k)]]
        BY DEF ReplaceOccurrences
  <1>5. ASSUME NEW k \in RiskIds
        PROVE  /\ Opened(j.seen[k], alertClock) \in Occurrences
               /\ Opened(j.seen[k], alertClock) # NoOccurrence
               /\ Opened(j.seen[k], alertClock).opened = alertClock
    <2>1. j.seen[k] \in Severities
          BY <1>2 DEF Findings
    <2> QED
        BY <1>2, <2>1, NewOccurrence DEF Opened
  <1>6. \A k \in RiskIds : k \in R <=> j.seen[k] >= minimum[p]
        BY <1>2 DEF Raised, Findings, Severities
  <1> HIDE DEF R
  <1>7. \A k \in RiskIds : Written(k) \in Occurrences
        BY <1>3, <1>5
  <1>8. \A q \in AlertRules, k \in RiskIds :
          occurrence'[q][k] = IF q = p THEN Written(k) ELSE occurrence[q][k]
        BY <1>3, <1>4
  <1>9. occurrence' \in [AlertRules -> [RiskIds -> Occurrences]]
        BY <1>3, <1>4, <1>7
  <1>10. \A k \in RiskIds : j.seen[k] >= minimum[p] => occurrence'[p][k] # NoOccurrence
        BY <1>5, <1>6, <1>8
  <1>11. ASSUME NEW q \in AlertRules, NEW k \in RiskIds, occurrence[q][k] # NoOccurrence
         PROVE  /\ occurrence'[q][k] # NoOccurrence
                /\ occurrence'[q][k].opened # occurrence[q][k].opened =>
                     /\ ~durable /\ occurrence'[q][k].opened = alertClock
                     /\ q = p /\ j.seen[k] >= minimum[p]
        BY <1>1, <1>5, <1>6, <1>8, <1>11
  <1> QED
      BY <1>1, <1>2, <1>9, <1>10, <1>11

LEMMA ReplaceKeepsInv ==
  ASSUME NEW h \in Evaluators, NEW p \in AlertRules, AlertIInv, ReplaceOccurrences(h, p)
  PROVE  AlertIInv'
  <1> DEFINE j == evaluation[h]
  <1>1. /\ j \in RuleJobs /\ JobOK(j) /\ j.step = "next" /\ p \in j.todo
        /\ occurrence' \in [AlertRules -> [RiskIds -> Occurrences]]
        /\ \A k \in RiskIds : j.seen[k] >= minimum[p] => occurrence'[p][k] # NoOccurrence
        /\ \A q \in AlertRules, k \in RiskIds :
             occurrence[q][k] # NoOccurrence => occurrence'[q][k] # NoOccurrence
        BY ReplaceChangesOneRule
  <1>n. PICK n : n = [j EXCEPT !.todo = @ \ {p}]
        OBVIOUS
  <1>2. n \in RuleJobs /\ n.step = "next" /\ n.seen = j.seen /\ n.rules = j.rules
        /\ n.todo = j.todo \ {p}
        BY <1>1, <1>n DEF RuleJobs
  <1>3. evaluation' = [evaluation EXCEPT ![h] = n] /\ UNCHANGED alertWorld
        BY <1>n DEF ReplaceOccurrences, AlertIInv, AlertTypeOK
  <1>4. AlertTypeOK'
    <2>1. evaluation' \in [Evaluators -> Jobs]
          BY <1>2, <1>3 DEF Jobs, AlertIInv, AlertTypeOK
    <2> QED
        BY <1>1, <1>3, <2>1 DEF AlertIInv, AlertTypeOK, alertWorld
  <1>5. Stored' = Stored /\ Stored \subseteq AlertRules
        BY <1>3 DEF Stored, alertWorld
  <1>6. \A q \in AlertRules : \A seen, left : Covered(seen, q, left) => Covered(seen, q, left)'
        BY <1>1, <1>3 DEF Covered, alertWorld
  <1>7. \A q, seen : q = p /\ seen = j.seen => Covered(seen, q, {})'
        BY <1>1, <1>3 DEF Covered, alertWorld
  <1>8. ASSUME NEW g \in Evaluators PROVE JobOK(evaluation[g])'
    <2>1. JobOK(evaluation[g])
          BY DEF AlertIInv
    <2>2. CASE g # h
      <3>1. evaluation'[g] = evaluation[g]
            BY <1>3, <2>2 DEF AlertIInv, AlertTypeOK
      <3> QED
          BY <2>1, <3>1, <1>5, <1>6 DEF JobOK
    <2>3. CASE g = h
      <3>1. evaluation'[g] = n
            BY <1>3, <2>3 DEF AlertIInv, AlertTypeOK
      <3>2. j.rules \subseteq Stored /\ j.todo \subseteq j.rules
            /\ \A q \in j.rules \ j.todo : Covered(j.seen, q, {})
            BY <1>1 DEF JobOK
      <3>3. \A q \in n.rules \ n.todo : Covered(n.seen, q, {})'
        <4> SUFFICES ASSUME NEW q \in n.rules, q \notin n.todo
                     PROVE  Covered(n.seen, q, {})'
            OBVIOUS
        <4>1. CASE q = p
              BY <1>2, <1>7, <4>1
        <4>2. CASE q # p
          <5>1. q \in AlertRules /\ Covered(n.seen, q, {})
                BY <1>2, <1>5, <3>2, <4>2
          <5> QED
              BY <1>6, <5>1
        <4> QED
            BY <4>1, <4>2
      <3> QED
          BY <1>2, <1>5, <3>1, <3>2, <3>3 DEF JobOK
    <2> QED
        BY <2>2, <2>3
  <1> QED
      BY <1>4, <1>8 DEF AlertIInv

(* A rule is new: no other handler has read it.                             *)
LEMMA RuleKeepsInv ==
  ASSUME NEW h \in Evaluators, NEW q \in AlertRules, NEW least \in 1..TopSeverity,
         AlertIInv, PutAlertRule(h, q, least)
  PROVE  AlertIInv'
  <1> DEFINE n == [step |-> "risks", rules |-> {q}, todo |-> {q}]
  <1>1. q \notin Stored /\ minimum' = [minimum EXCEPT ![q] = least]
        /\ evaluation' = [evaluation EXCEPT ![h] = n]
        /\ UNCHANGED <<durable, alertClock, severityOf, occurrence>>
        BY DEF PutAlertRule
  <1>2. n \in Jobs /\ least \in Nat /\ least > 0
        BY AlertAssumption DEF Jobs
  <1>3. AlertTypeOK'
        BY <1>1, <1>2 DEF AlertIInv, AlertTypeOK
  <1>4. Stored' = Stored \cup {q} /\ Stored \subseteq AlertRules
        BY <1>1, <1>2 DEF Stored, AlertIInv, AlertTypeOK
  <1>5. \A p \in Stored : \A seen, left : Covered(seen, p, left) => Covered(seen, p, left)'
        BY <1>1, <1>4 DEF Covered, AlertIInv, AlertTypeOK
  <1>6. ASSUME NEW g \in Evaluators PROVE JobOK(evaluation[g])'
    <2>1. JobOK(evaluation[g])
          BY DEF AlertIInv
    <2>2. CASE g # h
      <3>1. evaluation'[g] = evaluation[g]
            BY <1>1, <2>2 DEF AlertIInv, AlertTypeOK
      <3> QED
          BY <2>1, <3>1, <1>4, <1>5 DEF JobOK
    <2>3. CASE g = h
      <3>1. evaluation'[g] = n
            BY <1>1, <2>3 DEF AlertIInv, AlertTypeOK
      <3> QED
          BY <3>1, <1>4 DEF JobOK
    <2> QED
        BY <2>2, <2>3
  <1> QED
      BY <1>3, <1>6 DEF AlertIInv

LEMMA RestKeepsInv ==
  ASSUME AlertIInv, AlertTick \/ UNCHANGED alertVars
  PROVE  AlertIInv'
  <1>1. /\ severityOf' \in Findings /\ alertClock' \in Nat
        /\ UNCHANGED <<durable, minimum, occurrence, evaluation>>
        BY DEF AlertTick, alertVars, alertWorld, Findings, AlertIInv, AlertTypeOK
  <1> QED
      BY <1>1 DEF AlertIInv, AlertTypeOK, JobOK, Covered, Stored

LEMMA AlertNextInv == AlertIInv /\ [AlertNext]_alertVars => AlertIInv'
  <1> SUFFICES ASSUME AlertIInv, [AlertNext]_alertVars PROVE AlertIInv'
      OBVIOUS
  <1> QED
      BY ReadingKeepsInv, StartKeepsInv, DoneKeepsInv, PutKeepsInv, ReplaceKeepsInv,
         RuleKeepsInv, RestKeepsInv
      DEF AlertNext

(* packages/workflows, occurrencesForRule and its callers: of any number of *)
(* evaluations that overlap and fail half way, one that was answered has    *)
(* left an occurrence of every finding that a rule it read asks for.        *)
THEOREM AnsweredRiskIsRaised == AlertSpec => []AnsweredIsRaised
  <1>1. AlertIInv => AnsweredIsRaised
        BY DEF AlertIInv, JobOK, Covered, AnsweredIsRaised
  <1> QED
      BY <1>1, AlertInitInv, AlertNextInv, PTL DEF AlertSpec

(* docs/adr/0001-mvp-architecture.md:20: an occurrence is never dropped,    *)
(* whoever evaluates it again; PostgreSQL never opens it anew, and the      *)
(* memory store only when an evaluation finds the risk again.               *)
THEOREM OccurrencesAreKept == AlertSpec => OccurrencesKept
  <1> DEFINE Kept == \A q \in AlertRules, k \in RiskIds :
         occurrence[q][k] # NoOccurrence =>
           /\ occurrence'[q][k] # NoOccurrence
           /\ occurrence'[q][k].opened # occurrence[q][k].opened =>
                /\ ~durable /\ occurrence'[q][k].opened = alertClock
                /\ \E h \in Evaluators :
                     /\ evaluation[h].step = "next" /\ q \in evaluation[h].todo
                     /\ evaluation[h].seen[k] >= minimum[q]
  <1>1. ASSUME AlertIInv, AlertNext PROVE Kept
    <2>1. CASE \E h \in Evaluators : PutOccurrence(h)
          BY <1>1, <2>1, PutChangesOneRow
    <2>2. CASE \E h \in Evaluators, p \in AlertRules : ReplaceOccurrences(h, p)
          BY <1>1, <2>2, ReplaceChangesOneRule
    <2>3. CASE UNCHANGED occurrence
          BY <2>3
    <2> QED
        BY <1>1, <2>1, <2>2, <2>3 DEF AlertNext, AlertTick, EvaluateRisks, ReadRules,
           EvaluateForRule, RuleDone, AnswerRisks, LeaveJob, StartRule, PutAlertRule
  <1>2. AlertIInv /\ [AlertNext]_alertVars => [Kept]_alertVars
        BY <1>1
  <1>3. AlertSpec => []AlertIInv
        BY AlertInitInv, AlertNextInv, PTL DEF AlertSpec
  <1> QED
      BY <1>2, <1>3, PTL DEF AlertSpec, OccurrencesKept

-----------------------------------------------------------------------------
(* Protective intents.                                                      *)
USE ConstantsAssumption

LEMMA InitHolds == Init => IInv
  BY DEF Init, IInv, TypeOK, RecordedWasValidated, IntentOK, HandlerOK, Heights, NoTip

LEMMA TypeStep ==
    ASSUME TypeOK, [Next]_vars
    PROVE  TypeOK'
  <1> USE DEF TypeOK, world, row
  <1>1. CASE UNCHANGED vars
    BY <1>1 DEF vars
  <1>2. CASE Tick
    <2>1. clock' \in 0..MaxTime
      BY <1>2 DEF Tick
    <2> QED
      BY <1>2, <2>1 DEF Tick
  <1>3. CASE MoveTip
    BY <1>3 DEF MoveTip
  <1>4. ASSUME NEW i \in Intents, PutIntent(i)
        PROVE  TypeOK'
    <2>1. PICK ready \in BOOLEAN, block \in Heights :
            plan' = [plan EXCEPT ![i] =
                       [ready |-> ready, expires |-> clock + Lifetime, block |-> block]]
      BY <1>4 DEF PutIntent
    <2>2. clock + Lifetime \in Nat
      OBVIOUS
    <2>3. plan' \in [Intents -> [ready : BOOLEAN, expires : Nat, block : Heights]]
      BY <2>1, <2>2
    <2>4. state' \in [Intents -> {"absent", "planned", "wallet-requested", "confirmed",
                                  "blocked"}]
      BY <1>4 DEF PutIntent
    <2> QED
      BY <1>4, <2>3, <2>4 DEF PutIntent
  <1>5. ASSUME NEW h \in Handlers, NEW i \in Intents, Ask(h, i) \/ Submit(h, i)
        PROVE  TypeOK'
    BY <1>5 DEF Ask, Submit, Go
  <1>6. ASSUME NEW h \in Handlers, ReadTip(h)
        PROVE  TypeOK'
    <2>1. plan[about[h]].block \in Heights
      OBVIOUS
    <2> QED
      BY <1>6, <2>1 DEF ReadTip, Go
  <1>7. ASSUME NEW h \in Handlers, Validate(h)
        PROVE  TypeOK'
    BY <1>7 DEF Validate, Go
  <1>8. ASSUME NEW h \in Handlers, Record(h) \/ Throw(h)
        PROVE  TypeOK'
    BY <1>8 DEF Record, Throw, Go, UpdateIntent
  <1>9. ASSUME NEW h \in Handlers, RecordTxid(h) \/ Abandon(h)
        PROVE  TypeOK'
    <2>1. CASE RecordTxid(h)
      BY <2>1 DEF RecordTxid, Go, UpdateIntent
    <2>2. CASE Abandon(h)
      BY <2>2 DEF Abandon, Go, UpdateIntent
    <2> QED
      BY <1>9, <2>1, <2>2
  <1> QED
    BY <1>1, <1>2, <1>3, <1>4, <1>5, <1>6, <1>7, <1>8, <1>9 DEF Next

(* A handler that has only read something changes nobody else's standing.   *)
LEMMA ReadStep ==
    ASSUME IInv, TypeOK', UNCHANGED <<dataMode, row, plan>>,
           validated \subseteq validated',
           \A i \in validated' \ validated : plan[i].ready /\ state[i] # "absent",
           \A h \in Handlers : (doing'[h] = doing[h] /\ about'[h] = about[h]) \/ HandlerOK(h)'
    PROVE  IInv'
  <1> USE DEF IInv, TypeOK, row
  <1>1. RecordedWasValidated'
    BY DEF RecordedWasValidated
  <1>2. ASSUME NEW i \in Intents
        PROVE  IntentOK(i)'
    BY DEF IntentOK
  <1>3. ASSUME NEW h \in Handlers
        PROVE  HandlerOK(h)'
    BY DEF HandlerOK
  <1> QED
    BY <1>1, <1>2, <1>3

(* An update of a row that exists, by a handler that is done or blocks next.*)
LEMMA UpdateStep ==
    ASSUME IInv, TypeOK', NEW h \in Handlers, doing[h] # "off",
           NEW s, NEW t, UpdateIntent(about[h], s, t),
           \/ s = "blocked" /\ t = {}
           \/ s = "wallet-requested" /\ t = {} /\ doing[h] = "request"
           \/ s = "confirmed" /\ t # {} /\ doing[h] = "submit",
           doing' \in {[doing EXCEPT ![h] = "off"], [doing EXCEPT ![h] = "block"]},
           UNCHANGED <<dataMode, plan, about, validated>>
    PROVE  IInv'
  <1> DEFINE i == about[h]
  <1>1. i \in Intents /\ state[i] # "absent" /\ IntentOK(i) /\ HandlerOK(h)
    BY DEF IInv, TypeOK, HandlerOK
  <1>2. /\ state'[i] = s /\ txid'[i] = t /\ s # "absent"
        /\ \A j \in Intents \ {i} : state'[j] = state[j] /\ txid'[j] = txid[j]
    BY <1>1 DEF UpdateIntent, IInv, TypeOK
  <1> HIDE DEF i
  <1>3. t # {} => i \in validated /\ dataMode = "fixture"
    BY <1>1 DEF HandlerOK, i
  <1>4. RecordedWasValidated'
    BY <1>1, <1>2, <1>3 DEF RecordedWasValidated, IInv, IntentOK
  <1>5. ASSUME NEW j \in Intents
        PROVE  IntentOK(j)'
    <2>1. CASE j = i
      BY <1>1, <1>2, <2>1 DEF IntentOK, HandlerOK, i
    <2>2. CASE j # i
      BY <1>2, <2>2 DEF IInv, IntentOK
    <2> QED
      BY <2>1, <2>2
  <1>6. ASSUME NEW g \in Handlers
        PROVE  HandlerOK(g)'
    <2>1. HandlerOK(g) /\ about[g] \in Intents
      BY DEF IInv, TypeOK
    <2>2. state[about[g]] # "absent" => state'[about[g]] # "absent"
      BY <1>2, <2>1
    <2>3. CASE g = h
      <3>1. doing'[g] \in {"off", "block"}
        BY <2>3 DEF IInv, TypeOK
      <3> QED
        BY <1>1, <2>2, <2>3, <3>1 DEF HandlerOK, i
    <2>4. CASE g # h
      <3>1. doing'[g] = doing[g]
        BY <2>4 DEF IInv, TypeOK
      <3> QED
        BY <2>1, <2>2, <3>1 DEF HandlerOK
    <2> QED
      BY <2>3, <2>4
  <1> QED
    BY <1>4, <1>5, <1>6 DEF IInv

LEMMA Step ==
    ASSUME IInv, TypeOK', [Next]_vars
    PROVE  IInv'
  <1> USE DEF world, row
  <1>t. TypeOK
    BY DEF IInv
  <1>1. CASE UNCHANGED <<dataMode, row, plan, doing, about, validated>>
    BY <1>1, ReadStep
  <1>2. ASSUME NEW i \in Intents, PutIntent(i)
        PROVE  IInv'
    <2>1. /\ UNCHANGED <<dataMode, txid, doing, about, validated>>
          /\ \A j \in Intents \ {i} : state'[j] = state[j] /\ plan'[j] = plan[j]
          /\ state[i] = "absent" /\ state'[i] \in {"planned", "blocked"}
      BY <1>2, <1>t DEF PutIntent, TypeOK
    <2>2. i \notin validated
      BY <2>1 DEF IInv, IntentOK
    <2>3. RecordedWasValidated'
      BY <2>1, <2>2 DEF IInv, RecordedWasValidated
    <2>4. \A j \in Intents : IntentOK(j)'
      BY <2>1, <2>2 DEF IInv, IntentOK
    <2>5. ASSUME NEW h \in Handlers
          PROVE  HandlerOK(h)'
      <3>1. about[h] \in Intents /\ HandlerOK(h)
        BY DEF IInv, TypeOK
      <3>2. state[about[h]] # "absent" => state'[about[h]] # "absent"
        BY <2>1, <3>1
      <3> QED
        BY <2>1, <3>1, <3>2 DEF HandlerOK
    <2> QED
      BY <2>3, <2>4, <2>5 DEF IInv
  <1>3. ASSUME NEW h \in Handlers, NEW i \in Intents, Ask(h, i) \/ Submit(h, i)
        PROVE  IInv'
    <2>1. UNCHANGED <<dataMode, row, plan, validated>>
      BY <1>3 DEF Ask, Submit
    <2>2. \A g \in Handlers \ {h} : doing'[g] = doing[g] /\ about'[g] = about[g]
      BY <1>3, <1>t DEF Ask, Submit, Go, TypeOK
    <2>3. about'[h] = i /\ state[i] # "absent"
      BY <1>3, <1>t DEF Ask, Submit, TypeOK
    <2>4. \/ doing'[h] = "asked"
          \/ doing'[h] = "submit" /\ dataMode = "fixture" /\ i \in validated
      BY <1>3, <1>t DEF Ask, Submit, Go, TypeOK, IInv, IntentOK
    <2>5. HandlerOK(h)'
      BY <2>1, <2>3, <2>4 DEF HandlerOK
    <2> QED
      BY <2>1, <2>2, <2>5, ReadStep
  <1>4. ASSUME NEW h \in Handlers, ReadTip(h)
        PROVE  IInv'
    <2>1. UNCHANGED <<dataMode, row, plan, validated, about>>
      BY <1>4 DEF ReadTip
    <2>2. \A g \in Handlers \ {h} : doing'[g] = doing[g]
      BY <1>4, <1>t DEF ReadTip, Go, TypeOK
    <2>3. doing[h] = "asked" /\ doing'[h] = "tip"
      BY <1>4, <1>t DEF ReadTip, Go, TypeOK
    <2>4. HandlerOK(h)'
      BY <2>1, <2>3 DEF HandlerOK, IInv
    <2> QED
      BY <2>1, <2>2, <2>4, ReadStep
  <1>5. ASSUME NEW h \in Handlers, Validate(h)
        PROVE  IInv'
    <2>1. UNCHANGED <<dataMode, row, plan, about>>
      BY <1>5 DEF Validate
    <2>2. \A g \in Handlers \ {h} : doing'[g] = doing[g]
      BY <1>5, <1>t DEF Validate, Go, TypeOK
    <2>3. /\ doing[h] = "tip"
          /\ \/ doing'[h] = "request" /\ Valid(h) /\ validated' = validated \cup {about[h]}
             \/ doing'[h] = "block" /\ validated' = validated
      BY <1>5, <1>t DEF Validate, Go, TypeOK
    <2>4. state[about[h]] # "absent"
      BY <2>3 DEF HandlerOK, IInv
    <2>5. \A i \in validated' \ validated : plan[i].ready /\ state[i] # "absent"
      BY <2>3, <2>4 DEF Valid
    <2>6. HandlerOK(h)'
      BY <2>1, <2>3, <2>4 DEF HandlerOK
    <2> QED
      BY <2>1, <2>2, <2>3, <2>5, <2>6, ReadStep
  <1>6. ASSUME NEW h \in Handlers, Record(h)
        PROVE  IInv'
    BY <1>6, UpdateStep DEF Record, Go
  <1>7. ASSUME NEW h \in Handlers, Throw(h)
        PROVE  IInv'
    <2>1. CASE UNCHANGED row
      <3>1. UNCHANGED <<dataMode, row, plan, validated, about>>
        BY <1>7, <2>1 DEF Throw
      <3>2. /\ \A g \in Handlers \ {h} : doing'[g] = doing[g]
            /\ doing[h] # "off" /\ doing'[h] = "block"
        BY <1>7, <1>t DEF Throw, Go, TypeOK
      <3>3. HandlerOK(h)'
        BY <3>1, <3>2 DEF HandlerOK, IInv
      <3> QED
        BY <3>1, <3>2, <3>3, ReadStep
    <2>2. CASE doing[h] = "request" /\ doing' = [doing EXCEPT ![h] = "block"]
               /\ UpdateIntent(about[h], "wallet-requested", {})
      BY <1>7, <2>2, UpdateStep DEF Throw
    <2> QED
      BY <1>7, <2>1, <2>2 DEF Throw, Go
  <1>8. ASSUME NEW h \in Handlers, RecordTxid(h)
        PROVE  IInv'
    BY <1>8, UpdateStep DEF RecordTxid, Go
  <1>9. ASSUME NEW h \in Handlers, Abandon(h)
        PROVE  IInv'
    <2>1. UNCHANGED <<dataMode, row, plan, validated, about>>
      BY <1>9 DEF Abandon
    <2>2. /\ \A g \in Handlers \ {h} : doing'[g] = doing[g]
          /\ doing'[h] = "off"
      BY <1>9, <1>t DEF Abandon, TypeOK
    <2>3. HandlerOK(h)'
      BY <2>2 DEF HandlerOK
    <2> QED
      BY <2>1, <2>2, <2>3, ReadStep
  <1> QED
    BY <1>1, <1>2, <1>3, <1>4, <1>5, <1>6, <1>7, <1>8, <1>9 DEF Next, vars, Tick, MoveTip

(* The inductive invariant holds in every reachable state.                  *)
THEOREM IntentsAreInductive == Spec => []IInv
  <1>1. IInv /\ [Next]_vars => IInv'
    BY TypeStep, Step DEF IInv
  <1> QED
    BY InitHolds, <1>1, PTL DEF Spec

(* A transaction is recorded only for an intent that was made into a        *)
(* payload before it expired.                                               *)
THEOREM RecordingIsValidated == Spec => []RecordedWasValidated
  <1>1. IInv => RecordedWasValidated
    BY DEF IInv
  <1> QED
    BY <1>1, IntentsAreInductive, PTL

(* An expired intent that was not left to the wallet stays expired, and no  *)
(* handler gets past its check with it again.                               *)
THEOREM LapsingIsFinal == Spec => LapsedStaysLapsed
  <1>1. ASSUME TypeOK, TypeOK', [Next]_vars, NEW i \in Intents, Lapsed(i)
        PROVE  Lapsed(i)'
    <2> USE DEF row, world
    <2>1. plan[i].expires \in Nat /\ clock \in Nat /\ plan[i].expires <= clock
      BY <1>1 DEF TypeOK, Lapsed, Expired
    <2>2. plan'[i] = plan[i]
      BY <1>1 DEF TypeOK, Lapsed, Next, vars, Tick, MoveTip, PutIntent, Ask, Submit, ReadTip,
        Validate, Record, Throw, RecordTxid, Abandon
    <2>3. clock' \in {clock, clock + 1}
      BY <1>1 DEF Next, vars, Tick, MoveTip, PutIntent, Ask, Submit, ReadTip, Validate,
        Record, Throw, RecordTxid, Abandon
    <2>4. Expired(i)'
      BY <2>1, <2>2, <2>3 DEF Expired
    <2>5. state'[i] \in {state[i], "blocked"}
      <3>1. CASE UNCHANGED state
        BY <3>1
      <3>2. ASSUME NEW j \in Intents, PutIntent(j)
            PROVE  state'[i] = state[i]
        BY <1>1, <3>2 DEF PutIntent, TypeOK, Lapsed
      <3>3. ASSUME NEW h \in Handlers, Record(h) \/ Throw(h) \/ RecordTxid(h)
            PROVE  state'[i] \in {state[i], "blocked"}
        <4>1. CASE about[h] = i
          <5>1. doing[h] \notin {"request", "submit"}
            BY <1>1, <4>1 DEF Pending, Lapsed
          <5> QED
            BY <1>1, <3>3, <4>1, <5>1
            DEF Record, Throw, RecordTxid, UpdateIntent, Go, TypeOK
        <4>2. CASE about[h] # i
          BY <1>1, <3>3, <4>2 DEF Record, Throw, RecordTxid, UpdateIntent, TypeOK
        <4> QED
          BY <4>1, <4>2
      <3> QED
        BY <1>1, <3>1, <3>2, <3>3 DEF Next, vars, Tick, MoveTip, Ask, Submit, ReadTip,
          Validate, Abandon
    <2>6. ASSUME NEW h \in Handlers, about'[h] = i, doing'[h] \in {"request", "submit"}
          PROVE  FALSE
      <3>1. ~(about[h] = i /\ doing[h] \in {"request", "submit"})
        BY <1>1 DEF Lapsed, Pending
      <3>2. CASE UNCHANGED <<doing, about>>
        BY <2>6, <3>1, <3>2
      <3>3. ASSUME NEW g \in Handlers, NEW j \in Intents, Ask(g, j) \/ Submit(g, j)
            PROVE  FALSE
        <4>1. CASE g = h
          <5>1. Submit(g, j) /\ j = i
            BY <1>1, <2>6, <3>3, <4>1 DEF Ask, Submit, Go, TypeOK
          <5> QED
            BY <1>1, <5>1 DEF Submit, Lapsed
        <4>2. CASE g # h
          BY <1>1, <2>6, <3>1, <3>3, <4>2 DEF Ask, Submit, Go, TypeOK
        <4> QED
          BY <4>1, <4>2
      <3>4. ASSUME NEW g \in Handlers, Validate(g)
            PROVE  FALSE
        <4>1. CASE g = h
          <5>1. Valid(h) /\ about[h] = i
            BY <1>1, <2>6, <3>4, <4>1 DEF Validate, Go, TypeOK
          <5> QED
            BY <1>1, <5>1 DEF Valid, Lapsed
        <4>2. CASE g # h
          BY <1>1, <2>6, <3>1, <3>4, <4>2 DEF Validate, Go, TypeOK
        <4> QED
          BY <4>1, <4>2
      <3>5. ASSUME NEW g \in Handlers,
                   ReadTip(g) \/ Record(g) \/ Throw(g) \/ RecordTxid(g) \/ Abandon(g)
            PROVE  FALSE
        <4>1. about' = about /\ doing'[h] \in {doing[h], "off", "tip", "block"}
          BY <1>1, <3>5 DEF ReadTip, Record, Throw, RecordTxid, Abandon, Go, TypeOK
        <4> QED
          BY <2>6, <3>1, <4>1
      <3> QED
        BY <1>1, <3>2, <3>3, <3>4, <3>5 DEF Next, vars, Tick, MoveTip, PutIntent
    <2> QED
      BY <1>1, <2>4, <2>5, <2>6 DEF Lapsed, Pending
  <1>2. IInv => TypeOK
    BY DEF IInv
  <1>3. TypeOK /\ TypeOK' /\ [Next]_vars => [\A i \in Intents : Lapsed(i) => Lapsed(i)']_vars
    BY <1>1
  <1> QED
    BY <1>2, <1>3, IntentsAreInductive, PTL DEF Spec, LapsedStaysLapsed

-----------------------------------------------------------------------------
(* The gate of the reads.                                                   *)
Steps == {"idle", "queued", "out", "delayed"}

LEMMA HoldersFinite == IsFiniteSet(Holders)
  <1>1. Holders \subseteq Reads
        BY DEF Holders
  <1> QED
      BY <1>1, FS_Subset, GateAssumption

(* Nothing is admitted to a full gate.                                      *)
LEMMA PumpFull ==
  ASSUME NEW taken, NEW queue \in Seq(Reads), NEW at \in [Reads -> Steps],
         taken = GateLimit, Pump(taken, queue, at)
  PROVE  active' = taken /\ waiting' = queue /\ reading' = at
  <1>1. Admitted(GateLimit - taken, queue) = 0
        BY GateAssumption DEF Admitted
  <1>2. active' = taken /\ waiting' = SubSeq(queue, 1, Len(queue))
        BY <1>1, GateAssumption DEF Pump
  <1>3. reading' = [r \in Reads |-> at[r]]
        BY <1>1 DEF Pump
  <1> QED
      BY <1>2, <1>3

(* One free slot goes to the first of the queue.                            *)
LEMMA PumpOne ==
  ASSUME NEW taken \in Nat, NEW queue \in Seq(Reads), NEW at \in [Reads -> Steps],
         queue # <<>>, taken = GateLimit - 1 \/ (taken < GateLimit /\ Len(queue) = 1),
         Pump(taken, queue, at)
  PROVE  /\ active' = taken + 1 /\ waiting' = Tail(queue)
         /\ reading' = [at EXCEPT ![queue[1]] = "out"]
  <1>1. Len(queue) \in Nat /\ Len(queue) >= 1 /\ queue[1] \in Reads
        OBVIOUS
  <1>2. Admitted(GateLimit - taken, queue) = 1
    <2>1. CASE taken = GateLimit - 1
      <3>1. GateLimit - taken = 1
            BY <2>1, GateAssumption
      <3>2. \A n \in Nat : n >= 1 => (IF 1 < n THEN 1 ELSE n) = 1
            OBVIOUS
      <3>3. (IF 1 < Len(queue) THEN 1 ELSE Len(queue)) = 1
            BY <1>1, <3>2
      <3> QED
          BY <3>1, <3>3 DEF Admitted
    <2>2. CASE taken < GateLimit /\ Len(queue) = 1
          BY <2>2, GateAssumption DEF Admitted
    <2> QED
        BY <2>1, <2>2
  <1>3. /\ active' = taken + 1 /\ waiting' = SubSeq(queue, 2, Len(queue))
        /\ reading' = [r \in Reads |->
                         IF \E i \in 1..1 : queue[i] = r THEN "out" ELSE at[r]]
        BY <1>2 DEF Pump
  <1>4. \A r \in Reads : (\E i \in 1..1 : queue[i] = r) <=> queue[1] = r
        OBVIOUS
  <1>5. reading' = [r \in Reads |-> IF queue[1] = r THEN "out" ELSE at[r]]
        BY <1>3, <1>4
  <1>6. reading' = [at EXCEPT ![queue[1]] = "out"]
        BY <1>1, <1>5
  <1>7. SubSeq(queue, 2, Len(queue)) = Tail(queue)
        BY <1>1
  <1> QED
      BY <1>3, <1>6, <1>7

(* Without a queue nothing is admitted.                                     *)
LEMMA PumpNobody ==
  ASSUME NEW taken \in Nat, NEW at \in [Reads -> Steps],
         taken < GateLimit, Pump(taken, <<>>, at)
  PROVE  active' = taken /\ waiting' = <<>> /\ reading' = at
  <1>1. Admitted(GateLimit - taken, <<>>) = 0
        BY GateAssumption DEF Admitted
  <1>2. active' = taken /\ waiting' = SubSeq(<<>>, 1, 0)
        BY <1>1 DEF Pump
  <1>3. reading' = [r \in Reads |-> at[r]]
        BY <1>1 DEF Pump
  <1> QED
      BY <1>2, <1>3

-----------------------------------------------------------------------------
(* What is so of the queue and the slots after a read has joined: it goes   *)
(* in at once or waits behind the others.                                   *)
LEMMA EnterCases ==
  ASSUME NEW r \in Reads, GateIInv, Enter(r)
  PROVE  \/ /\ active < GateLimit /\ waiting = <<>> /\ waiting' = <<>>
            /\ active' = active + 1 /\ reading' = [reading EXCEPT ![r] = "out"]
         \/ /\ active = GateLimit /\ waiting' = Append(waiting, r)
            /\ active' = active /\ reading' = [reading EXCEPT ![r] = "queued"]
  <1> DEFINE queue == Append(waiting, r)
             at == [reading EXCEPT ![r] = "queued"]
  <1>1. queue \in Seq(Reads) /\ queue # <<>> /\ at \in [Reads -> Steps]
        BY DEF GateIInv, GateTypeOK, Steps
  <1>2. active \in Nat /\ active <= GateLimit /\ Pump(active, queue, at)
        BY DEF GateIInv, GateTypeOK, SlotsCounted, Enter
  <1> HIDE DEF queue, at
  <1>3. CASE active = GateLimit
        BY <1>1, <1>2, <1>3, PumpFull DEF queue, at
  <1>4. CASE active < GateLimit
    <2>1. waiting = <<>>
          BY <1>4, GateAssumption DEF GateIInv, GateTypeOK, SlotsCounted
    <2>2. queue = <<r>> /\ Len(queue) = 1 /\ queue[1] = r /\ Tail(queue) = <<>>
          BY <2>1 DEF queue
    <2>3. /\ active' = active + 1 /\ waiting' = Tail(queue)
          /\ reading' = [at EXCEPT ![queue[1]] = "out"]
          BY <1>1, <1>2, <1>4, <2>2, PumpOne, ZenonT(40)
    <2>4. [at EXCEPT ![r] = "out"] = [reading EXCEPT ![r] = "out"]
          BY DEF at, GateIInv, GateTypeOK
    <2> QED
        BY <1>4, <2>1, <2>2, <2>3, <2>4
  <1> QED
      BY <1>2, <1>3, <1>4, GateAssumption

(* After a read has left, its slot is free, or the first of the queue's.    *)
LEMMA ReleaseCases ==
  ASSUME NEW r \in Reads, GateIInv, reading[r] = "out", Release(r)
  PROVE  \/ /\ waiting = <<>> /\ waiting' = <<>> /\ active' = active - 1
            /\ reading' = [reading EXCEPT ![r] = "idle"]
         \/ /\ waiting # <<>> /\ waiting' = Tail(waiting) /\ active' = active
            /\ reading' = [[reading EXCEPT ![r] = "idle"] EXCEPT ![waiting[1]] = "out"]
  <1> DEFINE at == [reading EXCEPT ![r] = "idle"]
  <1>1. waiting \in Seq(Reads) /\ at \in [Reads -> Steps] /\ active \in Nat
        BY DEF GateIInv, GateTypeOK, Steps
  <1>2. active # 0
    <2>1. r \in Holders
          BY DEF Holders
    <2>2. Cardinality(Holders) # 0
          BY <2>1, HoldersFinite, FS_EmptySet
    <2> QED
        BY <2>2 DEF GateIInv, SlotsCounted
  <1>3. active - 1 \in Nat /\ active <= GateLimit /\ active - 1 < GateLimit
        BY <1>1, <1>2, GateAssumption DEF GateIInv, SlotsCounted
  <1>4. Pump(active - 1, waiting, at)
        BY DEF Release
  <1> HIDE DEF at
  <1>5. CASE waiting = <<>>
        BY <1>1, <1>3, <1>4, <1>5, PumpNobody DEF at
  <1>6. CASE waiting # <<>>
    <2>1. active = GateLimit
          BY <1>6 DEF GateIInv, SlotsCounted
    <2>2. /\ active' = (active - 1) + 1 /\ waiting' = Tail(waiting)
          /\ reading' = [at EXCEPT ![waiting[1]] = "out"]
          BY <1>1, <1>3, <1>4, <1>6, <2>1, PumpOne
    <2> QED
        BY <1>1, <1>6, <2>2 DEF at
  <1> QED
      BY <1>5, <1>6

-----------------------------------------------------------------------------
(* How many are in the gate after one went in, left, or took over.          *)
LEMMA OneMore ==
  ASSUME NEW r \in Reads, r \notin Holders, GateTypeOK,
         reading' = [reading EXCEPT ![r] = "out"]
  PROVE  Cardinality(Holders') = Cardinality(Holders) + 1
  <1>1. Holders' = Holders \cup {r}
        BY DEF Holders, GateTypeOK
  <1> QED
      BY <1>1, HoldersFinite, FS_AddElement

LEMMA OneLess ==
  ASSUME NEW r \in Reads, reading[r] = "out", GateTypeOK,
         reading' = [reading EXCEPT ![r] = "idle"]
  PROVE  Cardinality(Holders') = Cardinality(Holders) - 1
  <1>1. Holders' = Holders \ {r} /\ r \in Holders
        BY DEF Holders, GateTypeOK
  <1> QED
      BY <1>1, HoldersFinite, FS_RemoveElement

LEMMA OneForOther ==
  ASSUME NEW r \in Reads, NEW q \in Reads, reading[r] = "out", reading[q] = "queued",
         GateTypeOK,
         reading' = [[reading EXCEPT ![r] = "idle"] EXCEPT ![q] = "out"]
  PROVE  Cardinality(Holders') = Cardinality(Holders)
  <1>1. r \in Holders /\ q \notin Holders /\ Holders' = (Holders \ {r}) \cup {q}
        BY DEF Holders, GateTypeOK
  <1>2. /\ IsFiniteSet(Holders \ {r})
        /\ Cardinality(Holders \ {r}) = Cardinality(Holders) - 1
        BY <1>1, HoldersFinite, FS_RemoveElement
  <1>3. Cardinality(Holders') = Cardinality(Holders \ {r}) + 1
        BY <1>1, <1>2, FS_AddElement
  <1>4. Cardinality(Holders) \in Nat
        BY HoldersFinite, FS_CardinalityType
  <1> QED
      BY <1>2, <1>3, <1>4

-----------------------------------------------------------------------------
(* The queue, when a read joins it or its first leaves.                     *)
LEMMA QueueAppended ==
  ASSUME NEW r \in Reads, GateTypeOK, QueueOK, reading[r] # "queued",
         waiting' = Append(waiting, r), reading' = [reading EXCEPT ![r] = "queued"]
  PROVE  QueueOK'
  <1> DEFINE n == Len(waiting)
  <1>1. /\ n \in Nat /\ DOMAIN waiting = 1..n /\ DOMAIN waiting' = 1..(n + 1)
        /\ waiting'[n + 1] = r /\ \A i \in 1..n : waiting'[i] = waiting[i]
        BY DEF GateTypeOK
  <1>2. \A i \in 1..n : waiting[i] \in Queued
        BY <1>1 DEF QueueOK, Range
  <1>3. Queued' = Queued \cup {r} /\ r \notin Queued
        BY DEF Queued, GateTypeOK
  <1> HIDE DEF n
  <1>4. Range(waiting') = Queued'
    <2>1. ASSUME NEW x \in Range(waiting') PROVE x \in Queued'
      <3>1. PICK i \in 1..(n + 1) : x = waiting'[i]
            BY <1>1, <2>1 DEF Range
      <3>2. i \in 1..n \/ i = n + 1
            BY <1>1
      <3> QED
          BY <1>1, <1>2, <1>3, <3>1, <3>2
    <2>2. ASSUME NEW x \in Queued' PROVE x \in Range(waiting')
      <3>1. CASE x = r
            BY <1>1, <3>1 DEF Range
      <3>2. CASE x \in Queued
        <4>1. PICK i \in 1..n : x = waiting[i]
              BY <1>1, <3>2 DEF QueueOK, Range
        <4> QED
            BY <1>1, <4>1 DEF Range
      <3> QED
          BY <1>3, <2>2, <3>1, <3>2
    <2> QED
        BY <2>1, <2>2
  <1>5. \A i, j \in DOMAIN waiting' : waiting'[i] = waiting'[j] => i = j
    <2>1. \A i, j \in 1..n : waiting[i] = waiting[j] => i = j
          BY <1>1 DEF QueueOK
    <2>2. \A i \in 1..n : waiting[i] # r
          BY <1>2, <1>3
    <2>3. \A i \in 1..(n + 1) : i \in 1..n \/ i = n + 1
          BY <1>1
    <2> QED
        BY <1>1, <2>1, <2>2, <2>3
  <1> QED
      BY <1>4, <1>5 DEF QueueOK

LEMMA QueueShortened ==
  ASSUME NEW r \in Reads, GateTypeOK, QueueOK, reading[r] = "out", waiting # <<>>,
         waiting' = Tail(waiting),
         reading' = [[reading EXCEPT ![r] = "idle"] EXCEPT ![waiting[1]] = "out"]
  PROVE  QueueOK'
  <1> DEFINE n == Len(waiting)
             first == waiting[1]
  <1>1. /\ n \in Nat /\ n >= 1 /\ DOMAIN waiting = 1..n /\ DOMAIN waiting' = 1..(n - 1)
        /\ \A i \in 1..(n - 1) : waiting'[i] = waiting[i + 1]
        BY DEF GateTypeOK
  <1>2. first \in Queued /\ \A i \in 1..n : waiting[i] \in Queued
        BY <1>1 DEF QueueOK, Range
  <1>3. Queued' = Queued \ {first}
        BY <1>2 DEF Queued, GateTypeOK
  <1>4. \A i, j \in 1..n : waiting[i] = waiting[j] => i = j
        BY <1>1 DEF QueueOK
  <1> HIDE DEF n
  <1>5. Range(waiting') = Queued'
    <2>1. ASSUME NEW x \in Range(waiting') PROVE x \in Queued'
      <3>1. PICK i \in 1..(n - 1) : x = waiting'[i]
            BY <1>1, <2>1 DEF Range
      <3>2. i + 1 \in 1..n /\ 1 \in 1..n /\ i + 1 # 1
            BY <1>1
      <3>3. x = waiting[i + 1] /\ waiting[i + 1] # first
            BY <1>1, <1>4, <3>1, <3>2
      <3> QED
          BY <1>2, <1>3, <3>2, <3>3
    <2>2. ASSUME NEW x \in Queued' PROVE x \in Range(waiting')
      <3>1. x \in Queued /\ x # first
            BY <1>3, <2>2
      <3>2. PICK i \in 1..n : x = waiting[i]
            BY <1>1, <3>1 DEF QueueOK, Range
      <3>3. i - 1 \in 1..(n - 1) /\ (i - 1) + 1 = i
            BY <1>1, <3>1, <3>2
      <3> QED
          BY <1>1, <3>2, <3>3 DEF Range
    <2> QED
        BY <2>1, <2>2
  <1>6. \A i, j \in DOMAIN waiting' : waiting'[i] = waiting'[j] => i = j
    <2>1. \A i \in 1..(n - 1) : i + 1 \in 1..n
          BY <1>1
    <2>2. \A i, j \in 1..(n - 1) : i + 1 = j + 1 => i = j
          BY <1>1
    <2> QED
        BY <1>1, <1>4, <2>1, <2>2
  <1> QED
      BY <1>5, <1>6 DEF QueueOK

LEMMA QueueEmpty ==
  ASSUME NEW r \in Reads, NEW to \in Steps \ {"queued"}, GateTypeOK, QueueOK,
         reading[r] # "queued", waiting = <<>>, waiting' = <<>>,
         reading' = [reading EXCEPT ![r] = to]
  PROVE  QueueOK'
  <1>1. Queued = {} /\ Range(<<>>) = {}
        BY DEF QueueOK, Range
  <1>2. Queued' = {}
        BY <1>1 DEF Queued, GateTypeOK
  <1> QED
      BY <1>1, <1>2 DEF QueueOK

-----------------------------------------------------------------------------
LEMMA EnterKeeps ==
  ASSUME NEW r \in Reads, GateIInv, Enter(r)
  PROVE  /\ active' \in Nat /\ waiting' \in Seq(Reads) /\ reading' \in [Reads -> Steps]
         /\ tries' \in [Reads -> 0..RetryLimit]
         /\ SlotsCounted' /\ QueueOK'
         /\ reading'[r] # "idle" /\ \A q \in Reads \ {r} : reading'[q] = reading[q]
  <1>1. reading[r] = "idle" /\ tries' = [tries EXCEPT ![r] = 0]
        BY DEF Enter
  <1>2. /\ GateTypeOK /\ QueueOK /\ active = Cardinality(Holders) /\ active \in Nat
        /\ reading \in [Reads -> Steps] /\ waiting \in Seq(Reads)
        BY DEF GateIInv, GateTypeOK, SlotsCounted, Steps
  <1>3. tries' \in [Reads -> 0..RetryLimit]
        BY <1>1, <1>2, GateAssumption DEF GateTypeOK
  <1>4. CASE /\ active < GateLimit /\ waiting = <<>> /\ waiting' = <<>>
             /\ active' = active + 1 /\ reading' = [reading EXCEPT ![r] = "out"]
    <2>1. Cardinality(Holders') = Cardinality(Holders) + 1
          BY <1>1, <1>2, <1>4, OneMore DEF Holders
    <2>2. SlotsCounted'
          BY <1>2, <1>4, <2>1, GateAssumption DEF SlotsCounted
    <2>3. QueueOK'
          BY <1>1, <1>2, <1>4, QueueEmpty DEF Steps
    <2> QED
        BY <1>2, <1>3, <1>4, <2>2, <2>3 DEF Steps
  <1>5. CASE /\ active = GateLimit /\ waiting' = Append(waiting, r)
             /\ active' = active /\ reading' = [reading EXCEPT ![r] = "queued"]
    <2>1. Holders' = Holders
          BY <1>1, <1>2, <1>5 DEF Holders
    <2>2. SlotsCounted'
      <3>1. active' = Cardinality(Holders')
            BY <1>2, <1>5, <2>1
      <3>2. active' <= GateLimit /\ active' = GateLimit
            BY <1>5, GateAssumption
      <3> QED
          BY <3>1, <3>2 DEF SlotsCounted
    <2>3. QueueOK'
          BY <1>1, <1>2, <1>5, QueueAppended
    <2> QED
        BY <1>2, <1>3, <1>5, <2>2, <2>3 DEF Steps
  <1> QED
      BY <1>4, <1>5, EnterCases

LEMMA ReleaseKeeps ==
  ASSUME NEW r \in Reads, GateIInv, reading[r] = "out", Release(r)
  PROVE  /\ active' \in Nat /\ waiting' \in Seq(Reads) /\ reading' \in [Reads -> Steps]
         /\ SlotsCounted' /\ QueueOK'
         /\ \A q \in Reads \ {r} : reading[q] # "idle" => reading'[q] # "idle"
  <1>1. /\ GateTypeOK /\ QueueOK /\ active = Cardinality(Holders) /\ active \in Nat
        /\ reading \in [Reads -> Steps] /\ waiting \in Seq(Reads) /\ active <= GateLimit
        BY DEF GateIInv, GateTypeOK, SlotsCounted, Steps
  <1>2. CASE /\ waiting = <<>> /\ waiting' = <<>> /\ active' = active - 1
             /\ reading' = [reading EXCEPT ![r] = "idle"]
    <2>1. Cardinality(Holders') = Cardinality(Holders) - 1
          BY <1>1, <1>2, OneLess
    <2>2. Cardinality(Holders') \in Nat
          BY HoldersFinite, FS_Subset, FS_CardinalityType, GateAssumption, <1>1, <1>2,
             Holders' \subseteq Reads DEF Holders
    <2>3. SlotsCounted'
          BY <1>1, <1>2, <2>1, GateAssumption DEF SlotsCounted
    <2>4. QueueOK'
          BY <1>1, <1>2, QueueEmpty DEF Steps
    <2> QED
        BY <1>1, <1>2, <2>1, <2>2, <2>3, <2>4 DEF Steps
  <1>3. CASE /\ waiting # <<>> /\ waiting' = Tail(waiting) /\ active' = active
             /\ reading' = [[reading EXCEPT ![r] = "idle"] EXCEPT ![waiting[1]] = "out"]
    <2>1. waiting[1] \in Reads /\ waiting[1] \in Queued
          BY <1>1, <1>3 DEF QueueOK, Range
    <2>2. reading[waiting[1]] = "queued"
          BY <2>1 DEF Queued
    <2>3. Cardinality(Holders') = Cardinality(Holders)
          BY <1>1, <1>3, <2>1, <2>2, OneForOther
    <2>4. active = GateLimit
          BY <1>3 DEF GateIInv, SlotsCounted
    <2>5. SlotsCounted'
          BY <1>1, <1>3, <2>3, <2>4 DEF SlotsCounted
    <2>6. QueueOK'
          BY <1>1, <1>3, QueueShortened
    <2>7. reading' \in [Reads -> Steps]
          BY <1>1, <1>3, <2>1 DEF Steps
    <2>8. \A q \in Reads \ {r} : reading[q] # "idle" => reading'[q] # "idle"
          BY <1>1, <1>3, <2>1
    <2>9. active' \in Nat /\ waiting' \in Seq(Reads)
          BY <1>1, <1>3
    <2> QED
        BY <2>5, <2>6, <2>7, <2>8, <2>9
  <1> QED
      BY <1>2, <1>3, ReleaseCases

-----------------------------------------------------------------------------
LEMMA GateInitInv == GateInit => GateIInv
  <1> SUFFICES ASSUME GateInit PROVE GateIInv
      OBVIOUS
  <1> USE DEF GateInit
  <1>1. GateTypeOK
    <2>1. tries \in [Reads -> 0..RetryLimit]
          BY GateAssumption
    <2>2. waiting \in Seq(Reads)
          OBVIOUS
    <2> QED
        BY <2>1, <2>2 DEF GateTypeOK
  <1>2. SlotsCounted
    <2>1. Holders = {}
          BY DEF Holders
    <2> QED
        BY <2>1, FS_EmptySet, GateAssumption DEF SlotsCounted
  <1>3. QueueOK
    <2>1. Queued = {} /\ Range(waiting) = {}
          BY DEF Queued, Range
    <2> QED
        BY <2>1 DEF QueueOK
  <1>4. TipLookupShared
        BY DEF TipLookupShared
  <1> QED
      BY <1>1, <1>2, <1>3, <1>4 DEF GateIInv

LEMMA EnterReadKeepsInv ==
  ASSUME NEW r \in Reads, GateIInv, EnterRead(r)
  PROVE  GateIInv'
  <1>1. Enter(r) /\ UNCHANGED <<tipRead, tipCached, pinner>>
        BY DEF EnterRead, pinVars
  <1>2. SlotsCounted' /\ QueueOK' /\ GateTypeOK'
        BY <1>1, EnterKeeps DEF GateIInv, GateTypeOK, Steps
  <1>3. \A q \in Reads : reading[q] # "idle" => reading'[q] # "idle"
        BY <1>1, EnterKeeps
  <1>4. tipRead \subseteq Reads
        BY DEF GateIInv, GateTypeOK
  <1>5. TipLookupShared'
        BY <1>1, <1>3, <1>4 DEF GateIInv, TipLookupShared
  <1> QED
      BY <1>2, <1>5 DEF GateIInv

(* A read that sleeps, and then tries again, stays in its slot.             *)
LEMMA RetryKeepsInv ==
  ASSUME NEW r \in Reads, GateIInv, RateLimited(r) \/ Again(r)
  PROVE  GateIInv'
  <1>1. UNCHANGED <<active, waiting, tipRead, tipCached, pinner>>
        BY DEF RateLimited, Again, pinVars
  <1>2. \/ reading[r] = "out" /\ reading' = [reading EXCEPT ![r] = "delayed"]
        \/ reading[r] = "delayed" /\ reading' = [reading EXCEPT ![r] = "out"]
        BY DEF RateLimited, Again
  <1>3. tries' \in [Reads -> 0..RetryLimit]
        BY GateAssumption DEF RateLimited, Again, GateIInv, GateTypeOK
  <1>4. GateTypeOK'
        BY <1>1, <1>2, <1>3 DEF GateIInv, GateTypeOK
  <1>5. Holders' = Holders /\ Queued' = Queued
        BY <1>2 DEF Holders, Queued, GateIInv, GateTypeOK
  <1>6. SlotsCounted' /\ QueueOK'
        BY <1>1, <1>5 DEF GateIInv, SlotsCounted, QueueOK
  <1>7. TipLookupShared'
        BY <1>1, <1>2 DEF GateIInv, GateTypeOK, TipLookupShared
  <1> QED
      BY <1>4, <1>6, <1>7 DEF GateIInv

LEMMA FinishKeepsInv ==
  ASSUME NEW r \in Reads, GateIInv, Finish(r)
  PROVE  GateIInv'
  <1>1. reading[r] = "out" /\ Release(r) /\ UNCHANGED tries
        BY DEF Finish
  <1>2. /\ active' \in Nat /\ waiting' \in Seq(Reads) /\ reading' \in [Reads -> Steps]
        /\ SlotsCounted' /\ QueueOK'
        /\ \A q \in Reads \ {r} : reading[q] # "idle" => reading'[q] # "idle"
        BY <1>1, ReleaseKeeps
  <1>3. CASE r \notin tipRead /\ UNCHANGED pinVars
    <2>1. GateTypeOK'
          BY <1>1, <1>2, <1>3 DEF GateIInv, GateTypeOK, Steps, pinVars
    <2>2. TipLookupShared'
          BY <1>2, <1>3 DEF GateIInv, GateTypeOK, TipLookupShared, pinVars
    <2> QED
        BY <1>2, <2>1, <2>2 DEF GateIInv
  <1>4. CASE /\ r \in tipRead /\ tipRead' = {}
             /\ \/ tipCached' = TRUE /\ pinner' = Settle("pinned")
                \/ UNCHANGED tipCached /\ pinner' = Settle("failed")
    <2>1. /\ pinner' \in [Pinners -> {"idle", "waits", "pinned", "failed"}]
          /\ \A p \in Pinners : pinner'[p] # "waits"
          BY <1>4 DEF Settle, GateIInv, GateTypeOK
    <2>2. GateTypeOK'
          BY <1>1, <1>2, <1>4, <2>1 DEF GateIInv, GateTypeOK, Steps
    <2>3. TipLookupShared'
          BY <1>4, <2>1 DEF TipLookupShared
    <2> QED
        BY <1>2, <2>2, <2>3 DEF GateIInv
  <1> QED
      BY <1>3, <1>4 DEF Finish

LEMMA PinTipKeepsInv ==
  ASSUME NEW p \in Pinners, GateIInv, PinTip(p)
  PROVE  GateIInv'
  <1>1. CASE /\ \/ tipCached /\ pinner' = [pinner EXCEPT ![p] = "pinned"]
                \/ tipRead # {} /\ pinner' = [pinner EXCEPT ![p] = "waits"]
             /\ UNCHANGED <<active, waiting, reading, tries, tipRead, tipCached>>
    <2>1. GateTypeOK'
          BY <1>1 DEF GateIInv, GateTypeOK
    <2>2. SlotsCounted' /\ QueueOK'
          BY <1>1 DEF GateIInv, SlotsCounted, QueueOK, Holders, Queued
    <2>3. TipLookupShared'
          BY <1>1 DEF GateIInv, GateTypeOK, TipLookupShared
    <2> QED
        BY <2>1, <2>2, <2>3 DEF GateIInv
  <1>2. ASSUME NEW r \in Reads, Enter(r), tipRead' = {r},
               pinner' = [pinner EXCEPT ![p] = "waits"], UNCHANGED tipCached
        PROVE  GateIInv'
    <2>1. SlotsCounted' /\ QueueOK' /\ reading'[r] # "idle"
          BY <1>2, EnterKeeps
    <2>2. GateTypeOK'
          BY <1>2, EnterKeeps DEF GateIInv, GateTypeOK, Steps
    <2>3. TipLookupShared'
          BY <1>2, <2>1 DEF TipLookupShared
    <2> QED
        BY <2>1, <2>2, <2>3 DEF GateIInv
  <1> QED
      BY <1>1, <1>2 DEF PinTip

LEMMA PinnerKeepsInv ==
  ASSUME GateIInv, TipAges \/ \E p \in Pinners : GoOn(p)
  PROVE  GateIInv'
  <1>1. UNCHANGED <<active, waiting, reading, tries, tipRead>>
        BY DEF TipAges, GoOn
  <1>2. GateTypeOK' /\ TipLookupShared'
        BY DEF GateIInv, GateTypeOK, TipLookupShared, TipAges, GoOn
  <1>3. SlotsCounted' /\ QueueOK'
        BY <1>1 DEF GateIInv, SlotsCounted, QueueOK, Holders, Queued
  <1> QED
      BY <1>2, <1>3 DEF GateIInv

LEMMA GateStepInv == GateIInv /\ [GateNext]_gateVars => GateIInv'
  <1> SUFFICES ASSUME GateIInv, [GateNext]_gateVars PROVE GateIInv'
      OBVIOUS
  <1>1. ASSUME NEW r \in Reads, EnterRead(r) PROVE GateIInv'
        BY <1>1, EnterReadKeepsInv
  <1>2. ASSUME NEW r \in Reads, RateLimited(r) \/ Again(r) PROVE GateIInv'
        BY <1>2, RetryKeepsInv
  <1>3. ASSUME NEW r \in Reads, Finish(r) PROVE GateIInv'
        BY <1>3, FinishKeepsInv
  <1>4. ASSUME NEW p \in Pinners, PinTip(p) PROVE GateIInv'
        BY <1>4, PinTipKeepsInv
  <1>5. CASE TipAges \/ \E p \in Pinners : GoOn(p)
        BY <1>5, PinnerKeepsInv
  <1>6. CASE UNCHANGED gateVars
        BY <1>6 DEF gateVars, GateIInv, GateTypeOK, SlotsCounted, QueueOK, TipLookupShared,
           Holders, Queued
  <1> QED
      BY <1>1, <1>2, <1>3, <1>4, <1>5, <1>6 DEF GateNext

-----------------------------------------------------------------------------
(* For any number of reads, slots and retries the gate counts the reads     *)
(* that are in it, lets in no more than its limit, leaves nobody waiting    *)
(* beside a free slot, and one lookup of the tip is shared.                 *)
THEOREM GateIsInductive == GateSpec => []GateIInv
  <1> QED
      BY GateInitInv, GateStepInv, PTL DEF GateSpec

(* A read that joins goes behind the queue, or in when there is none.       *)
LEMMA EnterOvertakesNone ==
  ASSUME NEW r \in Reads, GateIInv, Enter(r), NEW i \in DOMAIN waiting
  PROVE  reading'[waiting[i]] = "queued"
  <1>1. waiting[i] \in Reads /\ reading[waiting[i]] = "queued" /\ waiting # <<>>
        BY DEF GateIInv, GateTypeOK, QueueOK, Range, Queued
  <1>2. reading[r] = "idle"
        BY DEF Enter
  <1> QED
      BY <1>1, <1>2, EnterKeeps

(* Only the first of the queue is let in when a read leaves.                *)
LEMMA ReleaseLetsFirstIn ==
  ASSUME NEW r \in Reads, GateIInv, reading[r] = "out", Release(r),
         NEW j \in DOMAIN waiting, j # 1
  PROVE  reading'[waiting[j]] = "queued"
  <1>1. /\ waiting[j] \in Reads /\ reading[waiting[j]] = "queued"
        /\ waiting # <<>> /\ waiting[1] \in Reads /\ waiting[j] # waiting[1]
        BY DEF GateIInv, GateTypeOK, QueueOK, Range, Queued
  <1>2. reading' = [[reading EXCEPT ![r] = "idle"] EXCEPT ![waiting[1]] = "out"]
        BY <1>1, ReleaseCases
  <1> QED
      BY <1>1, <1>2 DEF GateIInv, GateTypeOK

(* The gate is first in, first out: a read that waits is not overtaken by   *)
(* one that joined the queue after it, whatever reads end or sleep.         *)
THEOREM GateIsFair == GateSpec => NoOvertaking
  <1> DEFINE InTurn == \A i, j \in DOMAIN waiting :
               i < j /\ reading'[waiting[j]] # "queued" => reading'[waiting[i]] # "queued"
  <1>1. GateIInv /\ [GateNext]_gateVars => [InTurn]_gateVars
    <2> SUFFICES ASSUME GateIInv, GateNext, NEW i \in DOMAIN waiting,
                        NEW j \in DOMAIN waiting, i < j
                 PROVE  reading'[waiting[j]] = "queued"
        OBVIOUS
    <2>1. reading[waiting[j]] = "queued" /\ waiting[j] \in Reads /\ j # 1
          BY DEF GateIInv, GateTypeOK, QueueOK, Range, Queued
    <2>2. ASSUME NEW r \in Reads, EnterRead(r) PROVE reading'[waiting[j]] = "queued"
          BY <2>2, EnterOvertakesNone DEF EnterRead
    <2>3. ASSUME NEW r \in Reads, RateLimited(r) \/ Again(r)
          PROVE  reading'[waiting[j]] = "queued"
          BY <2>1, <2>3 DEF RateLimited, Again, GateIInv, GateTypeOK
    <2>4. ASSUME NEW r \in Reads, Finish(r) PROVE reading'[waiting[j]] = "queued"
          BY <2>1, <2>4, ReleaseLetsFirstIn DEF Finish
    <2>5. ASSUME NEW p \in Pinners, PinTip(p) PROVE reading'[waiting[j]] = "queued"
          BY <2>1, <2>5, EnterOvertakesNone DEF PinTip
    <2>6. CASE TipAges \/ \E p \in Pinners : GoOn(p)
          BY <2>1, <2>6 DEF TipAges, GoOn
    <2> QED
        BY <2>2, <2>3, <2>4, <2>5, <2>6 DEF GateNext
  <1> QED
      BY <1>1, GateIsInductive, PTL DEF GateSpec, NoOvertaking

-----------------------------------------------------------------------------
(* The client's call.  Attempts are counted by what was sent, and only a    *)
(* GET has more than one.                                                   *)
Pausing == {"pause", "backoff"}

SdkIInv ==
    /\ method \in {"GET", "POST"}
    /\ attempt \in Nat /\ attempt <= Retries /\ sends \in Nat /\ executed \in Nat
    /\ sdk \in {"idle", "send", "sent", "executed", "pause", "backoff", "done"}
    /\ sends <= attempt + 1 /\ executed <= sends
    /\ sdk \in {"idle", "send"} => sends <= attempt
    /\ sdk = "sent" => executed < sends
    /\ method = "POST" => attempt = 0
    /\ sdk \in Pausing => method = "GET" /\ attempt < Retries

(* No more requests than the retries allow go out, and one that may change  *)
(* something goes out once.                                                 *)
SendsBounded ==
    /\ sends <= Retries + 1 /\ executed <= sends
    /\ method = "POST" => sends <= 1

LEMMA SdkInitInv == SdkInit => SdkIInv
  BY SdkAssumption DEF SdkAssumption, SdkInit, SdkIInv, Pausing

LEMMA SdkNextInv == SdkIInv /\ [SdkNext]_sdkVars => SdkIInv'
  <1> SUFFICES ASSUME SdkIInv, [SdkNext]_sdkVars PROVE SdkIInv'
      OBVIOUS
  <1> USE SdkAssumption DEF SdkAssumption, SdkIInv, Pausing
  <1>1. CASE UNCHANGED sdkVars \/ AbortCall
        BY <1>1 DEF sdkVars, AbortCall
  <1>2. CASE StartCall
        BY <1>2 DEF StartCall
  <1>3. CASE SendAttempt
        BY <1>3 DEF SendAttempt, End
  <1>4. CASE Execute
        BY <1>4 DEF Execute
  <1>5. CASE Respond
        BY <1>5 DEF Respond, MayRetry, End
  <1>6. CASE FailAttempt
        BY <1>6 DEF FailAttempt, MayRetry, End
  <1>7. CASE AwaitRetry
        BY <1>7 DEF AwaitRetry, End
  <1> QED
      BY <1>1, <1>2, <1>3, <1>4, <1>5, <1>6, <1>7 DEF SdkNext

(* packages/client/src/index.ts, send: for every number of retries, a POST  *)
(* reaches the API once at most, although its answer may be lost.           *)
THEOREM RetriesAreBounded == SdkSpec => []SendsBounded
  <1>1. SdkIInv => SendsBounded
        BY SdkAssumption DEF SdkAssumption, SdkIInv, SendsBounded, Pausing
  <1> QED
      BY <1>1, SdkInitInv, SdkNextInv, PTL DEF SdkSpec

(* packages/client/README.md:54: an aborted call sends nothing more.        *)
THEOREM AbortedSendsNothing == SdkSpec => AbortStopsSending
  <1>1. [SdkNext]_sdkVars => [aborted => sends' = sends]_sdkVars
        BY DEF SdkNext, sdkVars, StartCall, AbortCall, SendAttempt, Execute, Respond,
               FailAttempt, AwaitRetry
  <1> QED
      BY <1>1, PTL DEF SdkSpec, AbortStopsSending
===============================================================================
