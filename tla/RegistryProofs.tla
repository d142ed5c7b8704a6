--------------------------- MODULE RegistryProofs ---------------------------
(***************************************************************************)
(* Proofs about RegistryActivation, for any versions, manifests and number *)
(* of concurrent activations, and about RegistryAdmission, for any         *)
(* manifests, contracts and number of requests: one registry is active at  *)
(* most, what was written stays, and what is activated was all found on    *)
(* chain during the request, and was then found to be in force.            *)
(***************************************************************************)
EXTENDS RegistryActivation, RegistryAdmission, TLAPS

-----------------------------------------------------------------------------
(* Admission: the verification of what a manifest declares.                 *)
LEMMA ReadsAndFacts ==
  /\ AllReads = {"interface", "deployment"}
  /\ \A kind \in AllReads : FactsOf[kind] \subseteq Facts
  /\ \A f \in Facts : \E kind \in AllReads : f \in FactsOf[kind]
  BY DEF AllReads, FactsOf, Facts

LEMMA NotSubmittedIsIdle ==
  /\ NotSubmitted.step \notin {"verifying", "activating"}
  /\ \A a \in AdmissionRow : a.step = "verifying"
  /\ \A a \in ActivationRow : a.step = "activating"
  BY DEF NotSubmitted, AdmissionRow, ActivationRow

LEMMA EntriesOfSubmission ==
  ASSUME NEW s \in Submissions
  PROVE  /\ s.entries \in Seq(Entries) /\ Len(s.entries) \in Nat
         /\ DOMAIN s.entries = 1 .. Len(s.entries)
         /\ \A i \in 1 .. Len(s.entries) :
              s.entries[i].contract \in Contracts /\ s.entries[i].declares \subseteq Facts
  <1>1. s.entries \in Seq(Entries)
        BY AdmissionAssumption
  <1>2. \A i \in 1 .. Len(s.entries) : s.entries[i] \in Entries
        BY <1>1
  <1> QED
      BY <1>1, <1>2 DEF Entries

-----------------------------------------------------------------------------
LEMMA AdmitInitInv == AdmitInit => AdmitIInv
  <1> SUFFICES ASSUME AdmitInit PROVE AdmitIInv
      OBVIOUS
  <1>1. AdmitTypeOK
        BY AdmissionAssumption DEF AdmitInit, AdmitTypeOK
  <1>2. \A r \in Operators : FoundSoFar(r) /\ FoundAll(r)
        BY NotSubmittedIsIdle DEF AdmitInit, FoundSoFar, FoundAll
  <1> QED
      BY <1>1, <1>2 DEF AdmitIInv

(* The chain changes: what was found stays found.                           *)
LEMMA RedeployKeepsInv ==
  ASSUME NEW c \in Contracts, NEW facts \in Deployments, AdmitIInv, Redeploy(c, facts)
  PROVE  AdmitIInv'
  <1>1. /\ deployed' = [deployed EXCEPT ![c] = facts]
        /\ heldSince' = [r \in Operators |-> [heldSince[r] EXCEPT ![c] = @ \cup facts]]
        /\ UNCHANGED <<admission, admitClock>>
        BY DEF Redeploy
  <1>2. facts \subseteq Facts
        BY AdmissionAssumption
  <1>3. AdmitTypeOK
        BY DEF AdmitIInv
  <1>4. deployed' \in [Contracts -> SUBSET Facts]
        BY <1>1, <1>2, <1>3 DEF AdmitTypeOK
  <1>5. ASSUME NEW r \in Operators
        PROVE  /\ heldSince'[r] \in [Contracts -> SUBSET Facts]
               /\ \A d \in Contracts : heldSince[r][d] \subseteq heldSince'[r][d]
               /\ facts \subseteq heldSince'[r][c]
    <2>1. heldSince[r] \in [Contracts -> SUBSET Facts]
          BY <1>3 DEF AdmitTypeOK
    <2>2. heldSince'[r] = [heldSince[r] EXCEPT ![c] = heldSince[r][c] \cup facts]
          BY <1>1
    <2> QED
        BY <1>2, <2>1, <2>2
  <1>6. AdmitTypeOK'
    <2>1. heldSince' \in [Operators -> [Contracts -> SUBSET Facts]]
          BY <1>1, <1>5
    <2> QED
        BY <1>1, <1>3, <1>4, <2>1 DEF AdmitTypeOK
  <1>7. ASSUME NEW r \in Operators, admission[r].step = "verifying" PROVE FoundSoFar(r)'
    <2> DEFINE a == admission[r]
               entries == a.submission.entries
    <2>1. /\ FoundSoFar(r) /\ a \in AdmissionRow /\ a.submission \in Submissions
          /\ a.entry \in Nat
          BY <1>3, <1>7, NotSubmittedIsIdle DEF AdmitIInv, AdmitTypeOK, AdmissionRow
    <2>2. /\ a.entry <= Len(entries)
          /\ \A d \in Contracts : deployed[d] \subseteq heldSince[r][d]
          /\ a.errors = {} => \A i \in 1 .. a.entry, kind \in AllReads : ReadDone(a, i, kind) =>
               (entries[i].declares \cap FactsOf[kind]) \subseteq heldSince[r][entries[i].contract]
          BY <1>7, <2>1 DEF FoundSoFar
    <2>3. \A d \in Contracts : deployed'[d] \subseteq heldSince'[r][d]
          BY <1>1, <1>3, <1>5, <2>2 DEF AdmitTypeOK
    <2>4. ASSUME NEW i \in 1 .. a.entry, NEW kind \in AllReads, ReadDone(a, i, kind), a.errors = {}
          PROVE  (entries[i].declares \cap FactsOf[kind]) \subseteq heldSince'[r][entries[i].contract]
      <3>1. entries[i].contract \in Contracts
            BY <2>1, <2>2, EntriesOfSubmission
      <3> QED
          BY <1>5, <2>2, <2>4, <3>1
    <2> HIDE DEF entries
    <2>5. a' = a /\ entries' = entries
          BY <1>1 DEF entries
    <2> QED
        BY <1>1, <2>2, <2>3, <2>4, <2>5 DEF FoundSoFar, ReadDone, entries
  <1>8. \A r \in Operators : FoundSoFar(r)'
    <2>1. \A r \in Operators : admission[r].step # "verifying" => FoundSoFar(r)'
          BY <1>1 DEF FoundSoFar
    <2> QED
        BY <1>7, <2>1
  <1>9. ASSUME NEW r \in Operators, admission[r].step = "activating" PROVE FoundAll(r)'
    <2> DEFINE a == admission[r]
               s == a.submission
    <2>1. a \in ActivationRow /\ s \in Submissions
      <3>1. a \in ActivationRow
            BY <1>3, <1>9, NotSubmittedIsIdle DEF AdmitTypeOK
      <3> QED
          BY <3>1 DEF ActivationRow
    <2>2. /\ s.trusted /\ s.signed
          /\ s.issuedAt <= a.at /\ a.at <= admitClock /\ a.at < s.expiresAt
          /\ \A i \in DOMAIN s.entries :
               s.entries[i].declares \subseteq heldSince[r][s.entries[i].contract]
          BY <1>9 DEF AdmitIInv, FoundAll
    <2>3. ASSUME NEW i \in DOMAIN s.entries
          PROVE  s.entries[i].declares \subseteq heldSince'[r][s.entries[i].contract]
      <3>1. s.entries[i].contract \in Contracts
            BY <2>1, EntriesOfSubmission
      <3> QED
          BY <1>5, <2>2, <3>1
    <2> QED
        BY <1>1, <2>2, <2>3 DEF FoundAll
  <1>10. \A r \in Operators : FoundAll(r)'
    <2>1. \A r \in Operators : admission[r].step # "activating" => FoundAll(r)'
          BY <1>1 DEF FoundAll
    <2> QED
        BY <1>9, <2>1
  <1> QED
      BY <1>6, <1>8, <1>10 DEF AdmitIInv

(* A step of one request leaves the others alone.                           *)
LEMMA OthersKeep ==
  ASSUME NEW r \in Operators, NEW q \in Operators, q # r, AdmitIInv,
         UNCHANGED <<deployed, admitClock>>,
         admission'[q] = admission[q], heldSince'[q] = heldSince[q]
  PROVE  FoundSoFar(q)' /\ FoundAll(q)'
  <1>1. FoundSoFar(q) /\ FoundAll(q)
        BY DEF AdmitIInv
  <1>2. FoundSoFar(q)'
        BY <1>1 DEF FoundSoFar, ReadDone
  <1>3. FoundAll(q)'
        BY <1>1 DEF FoundAll
  <1> QED
      BY <1>2, <1>3

LEMMA EndKeepsInv ==
  ASSUME NEW r \in Operators, AdmitIInv, UNCHANGED <<deployed, heldSince, admitClock>>,
         admission' = [admission EXCEPT ![r] = NotSubmitted]
  PROVE  AdmitIInv'
  <1>1. AdmitTypeOK'
        BY DEF AdmitIInv, AdmitTypeOK
  <1>2. admission'[r] = NotSubmitted
        /\ \A q \in Operators : q # r => admission'[q] = admission[q]
        BY DEF AdmitIInv, AdmitTypeOK
  <1>3. FoundSoFar(r)' /\ FoundAll(r)'
        BY <1>2, NotSubmittedIsIdle DEF FoundSoFar, FoundAll
  <1>4. \A q \in Operators : FoundSoFar(q)' /\ FoundAll(q)'
        BY <1>2, <1>3, OthersKeep
  <1> QED
      BY <1>1, <1>4 DEF AdmitIInv

LEMMA SubmitKeepsInv ==
  ASSUME NEW r \in Operators, NEW s \in Submissions, AdmitIInv, SubmitRegistry(r, s)
  PROVE  AdmitIInv'
  <1>1. /\ admission' = [admission EXCEPT ![r] = Verifying(s)]
        /\ heldSince' = [heldSince EXCEPT ![r] = deployed] /\ UNCHANGED <<deployed, admitClock>>
        BY DEF SubmitRegistry
  <1>2. Verifying(s) \in AdmissionRow
        BY DEF Verifying, AdmissionRow
  <1>3. AdmitTypeOK'
        BY <1>1, <1>2 DEF AdmitIInv, AdmitTypeOK
  <1>4. /\ admission'[r] = Verifying(s) /\ heldSince'[r] = deployed
        /\ \A q \in Operators :
              q # r => admission'[q] = admission[q] /\ heldSince'[q] = heldSince[q]
        BY <1>1 DEF AdmitIInv, AdmitTypeOK
  <1>5. FoundSoFar(r)' /\ FoundAll(r)'
    <2>1. /\ Verifying(s).step = "verifying" /\ Verifying(s).entry = 0
          /\ Verifying(s).submission = s /\ Len(s.entries) \in Nat
          BY EntriesOfSubmission DEF Verifying
    <2>2. FoundSoFar(r)'
          BY <1>1, <1>4, <2>1 DEF FoundSoFar
    <2>3. FoundAll(r)'
          BY <1>4, <2>1 DEF FoundAll
    <2> QED
        BY <2>2, <2>3
  <1>6. \A q \in Operators : FoundSoFar(q)' /\ FoundAll(q)'
        BY <1>1, <1>4, <1>5, OthersKeep
  <1> QED
      BY <1>3, <1>6 DEF AdmitIInv

(* What is known of a request that is verifying, by the invariant.          *)
LEMMA VerifyingRow ==
  ASSUME NEW r \in Operators, AdmitIInv, admission[r].step = "verifying"
  PROVE  /\ admission[r] \in AdmissionRow
         /\ admission[r].submission \in Submissions /\ admission[r].entry \in Nat
         /\ admission[r].reads \subseteq AllReads /\ admission[r].errors \subseteq Facts
         /\ admission[r].entry <= Len(admission[r].submission.entries)
         /\ \A c \in Contracts : deployed[c] \subseteq heldSince[r][c]
         /\ admission[r].errors = {} =>
              \A i \in 1 .. admission[r].entry, kind \in AllReads : ReadDone(admission[r], i, kind) =>
                (admission[r].submission.entries[i].declares \cap FactsOf[kind])
                  \subseteq heldSince[r][admission[r].submission.entries[i].contract]
  <1>1. admission[r] \in AdmissionRow
        BY NotSubmittedIsIdle DEF AdmitIInv, AdmitTypeOK
  <1>2. FoundSoFar(r)
        BY DEF AdmitIInv
  <1> QED
      BY <1>1, <1>2 DEF AdmissionRow, FoundSoFar

(* A read that finds nothing wrong found its part of the entry on chain.    *)
LEMMA ReadKeepsInv ==
  ASSUME NEW r \in Operators, NEW kind \in AllReads, AdmitIInv, Read(r, kind)
  PROVE  AdmitIInv'
  <1> DEFINE a == admission[r]
             s == a.submission
             entry == s.entries[a.entry]
             wrong == (entry.declares \cap FactsOf[kind]) \ deployed[entry.contract]
             b == [a EXCEPT !.reads = a.reads \ {kind}, !.errors = a.errors \cup wrong]
  <1>1. /\ a.step = "verifying" /\ kind \in a.reads
        /\ admission' = [admission EXCEPT ![r] = b]
        /\ UNCHANGED <<deployed, heldSince, admitClock>>
        BY DEF Read, EntryOf
  <1>2. /\ a \in AdmissionRow /\ s \in Submissions /\ a.entry \in Nat
        /\ a.entry <= Len(s.entries) /\ a.errors \subseteq Facts
        /\ \A c \in Contracts : deployed[c] \subseteq heldSince[r][c]
        /\ a.errors = {} =>
             \A i \in 1 .. a.entry, k \in AllReads : ReadDone(a, i, k) =>
               (s.entries[i].declares \cap FactsOf[k]) \subseteq heldSince[r][s.entries[i].contract]
        BY <1>1, VerifyingRow
  <1>3. wrong \subseteq Facts
        BY ReadsAndFacts
  <1> HIDE DEF wrong
  <1>4. /\ b \in AdmissionRow /\ b.step = "verifying" /\ b.submission = s /\ b.entry = a.entry
        /\ b.reads = a.reads \ {kind} /\ b.errors = a.errors \cup wrong
        BY <1>2, <1>3 DEF AdmissionRow
  <1> HIDE DEF b
  <1>5. AdmitTypeOK'
        BY <1>1, <1>4 DEF AdmitIInv, AdmitTypeOK
  <1>6. /\ admission'[r] = b
        /\ \A q \in Operators : q # r => admission'[q] = admission[q]
        BY <1>1 DEF AdmitIInv, AdmitTypeOK
  <1>7. ASSUME NEW i \in 1 .. a.entry, NEW k \in AllReads, ReadDone(b, i, k), b.errors = {}
        PROVE  (s.entries[i].declares \cap FactsOf[k]) \subseteq heldSince[r][s.entries[i].contract]
    <2>1. a.errors = {} /\ wrong = {}
          BY <1>4, <1>7
    <2>2. CASE ReadDone(a, i, k)
          BY <1>2, <2>1, <2>2
    <2>3. CASE ~ReadDone(a, i, k)
      <3>1. i = a.entry /\ k = kind
            BY <1>2, <1>4, <1>7, <2>3 DEF ReadDone
      <3>2. s.entries[i].contract \in Contracts
            BY <1>2, EntriesOfSubmission
      <3>3. (s.entries[i].declares \cap FactsOf[k]) \subseteq deployed[s.entries[i].contract]
            BY <2>1, <3>1 DEF wrong
      <3> QED
          BY <1>2, <3>2, <3>3
    <2> QED
        BY <2>2, <2>3
  <1>8. FoundSoFar(r)'
        BY <1>1, <1>2, <1>4, <1>6, <1>7 DEF FoundSoFar, ReadDone
  <1>9. \A q \in Operators : FoundSoFar(q)' /\ FoundAll(q)'
    <2>1. FoundAll(r)'
          BY <1>4, <1>6 DEF FoundAll
    <2> QED
        BY <1>1, <1>6, <1>8, <2>1, OthersKeep
  <1> QED
      BY <1>5, <1>9, SMTT(30) DEF AdmitIInv

LEMMA RowAtEntry ==
  ASSUME NEW a \in AdmissionRow, NEW n \in Nat
  PROVE  LET b == [a EXCEPT !.entry = n, !.reads = AllReads]
         IN  /\ b \in AdmissionRow /\ b.step = a.step /\ b.submission = a.submission
             /\ b.entry = n /\ b.reads = AllReads /\ b.errors = a.errors
  BY DEF AdmissionRow

(* With no read left open, the entries so far are all found.                *)
LEMMA NextEntryKeepsInv ==
  ASSUME NEW r \in Operators, AdmitIInv, NextEntry(r)
  PROVE  AdmitIInv'
  <1> DEFINE a == admission[r]
             s == a.submission
             b == [a EXCEPT !.entry = a.entry + 1, !.reads = AllReads]
  <1>1. /\ a.step = "verifying" /\ a.reads = {} /\ a.entry < Len(s.entries)
        /\ admission' = [admission EXCEPT ![r] = b]
        /\ UNCHANGED <<deployed, heldSince, admitClock>>
        BY DEF NextEntry
  <1>2. /\ a \in AdmissionRow /\ s \in Submissions /\ a.entry \in Nat
        /\ \A c \in Contracts : deployed[c] \subseteq heldSince[r][c]
        /\ a.errors = {} =>
             \A i \in 1 .. a.entry, k \in AllReads : ReadDone(a, i, k) =>
               (s.entries[i].declares \cap FactsOf[k]) \subseteq heldSince[r][s.entries[i].contract]
        BY <1>1, VerifyingRow
  <1>3. /\ b \in AdmissionRow /\ b.step = "verifying" /\ b.submission = s
        /\ b.entry = a.entry + 1 /\ b.reads = AllReads /\ b.errors = a.errors
    <2> HIDE DEF a
    <2>1. a.entry + 1 \in Nat
          BY <1>2
    <2>2. PICK n \in Nat : n = a.entry + 1
          BY <2>1
    <2> QED
        BY <1>1, <1>2, <2>2, RowAtEntry, ZenonT(40)
  <1>4. Len(s.entries) \in Nat
        BY <1>2, EntriesOfSubmission
  <1> HIDE DEF b
  <1>5. AdmitTypeOK'
        BY <1>1, <1>3 DEF AdmitIInv, AdmitTypeOK
  <1>6. /\ admission'[r] = b
        /\ \A q \in Operators : q # r => admission'[q] = admission[q]
        BY <1>1 DEF AdmitIInv, AdmitTypeOK
  <1>7. ASSUME NEW i \in 1 .. b.entry, NEW k \in AllReads, ReadDone(b, i, k), b.errors = {}
        PROVE  (s.entries[i].declares \cap FactsOf[k]) \subseteq heldSince[r][s.entries[i].contract]
    <2>1. i < b.entry
          BY <1>3, <1>7 DEF ReadDone
    <2>2. i \in 1 .. a.entry /\ ReadDone(a, i, k)
          BY <1>1, <1>2, <1>3, <2>1 DEF ReadDone
    <2> QED
        BY <1>2, <1>3, <1>7, <2>2
  <1>8. b.entry <= Len(s.entries)
        BY <1>1, <1>2, <1>3, <1>4
  <1>9. FoundSoFar(r)'
        BY <1>1, <1>2, <1>3, <1>6, <1>7, <1>8 DEF FoundSoFar, ReadDone
  <1>10. \A q \in Operators : FoundSoFar(q)' /\ FoundAll(q)'
    <2>1. FoundAll(r)'
          BY <1>3, <1>6 DEF FoundAll
    <2> QED
        BY <1>1, <1>6, <1>9, <2>1, OthersKeep
  <1> QED
      BY <1>5, <1>10 DEF AdmitIInv

(* The last read is done and nothing was wrong: all that is declared was    *)
(* found, and the dates hold at the time the request takes along.           *)
LEMMA BeginActivationKeepsInv ==
  ASSUME NEW r \in Operators, AdmitIInv, BeginActivation(r)
  PROVE  AdmitIInv'
  <1> DEFINE a == admission[r]
             s == a.submission
             b == Activating(s, admitClock)
  <1>1. /\ a.step = "verifying" /\ a.reads = {} /\ a.entry = Len(s.entries) /\ a.errors = {}
        /\ admission' = [admission EXCEPT ![r] = b]
        /\ UNCHANGED <<deployed, heldSince, admitClock>>
        BY DEF BeginActivation, Verified
  <1>2. s.trusted /\ s.signed /\ s.issuedAt <= admitClock /\ admitClock < s.expiresAt
        BY DEF BeginActivation, StillValid, VerifySignedRegistry
  <1>3. /\ s \in Submissions
        /\ \A i \in 1 .. a.entry, k \in AllReads :
             (s.entries[i].declares \cap FactsOf[k]) \subseteq heldSince[r][s.entries[i].contract]
        BY <1>1, VerifyingRow DEF ReadDone
  <1>4. ASSUME NEW i \in DOMAIN s.entries, NEW f \in s.entries[i].declares
        PROVE  f \in heldSince[r][s.entries[i].contract]
    <2>1. i \in 1 .. a.entry /\ f \in Facts
          BY <1>1, <1>3, EntriesOfSubmission
    <2>2. PICK k \in AllReads : f \in FactsOf[k]
          BY <2>1, ReadsAndFacts
    <2> QED
        BY <1>3, <2>1, <2>2
  <1>5. /\ b \in ActivationRow /\ b.step = "activating" /\ b.submission = s
        /\ b.at = admitClock
        BY <1>3 DEF Activating, ActivationRow, AdmitIInv, AdmitTypeOK
  <1> HIDE DEF b
  <1>6. AdmitTypeOK'
        BY <1>1, <1>5 DEF AdmitIInv, AdmitTypeOK
  <1>7. /\ admission'[r] = b
        /\ \A q \in Operators : q # r => admission'[q] = admission[q]
        BY <1>1 DEF AdmitIInv, AdmitTypeOK
  <1>8. FoundSoFar(r)'
        BY <1>5, <1>7 DEF FoundSoFar
  <1>9. FoundAll(r)'
    <2>1. admitClock \in Nat
          BY DEF AdmitIInv, AdmitTypeOK
    <2> QED
        BY <1>1, <1>2, <1>4, <1>5, <1>7, <2>1 DEF FoundAll
  <1>10. \A q \in Operators : FoundSoFar(q)' /\ FoundAll(q)'
        BY <1>1, <1>7, <1>8, <1>9, OthersKeep
  <1> QED
      BY <1>6, <1>10 DEF AdmitIInv

LEMMA AdmitTickKeepsInv == AdmitIInv /\ AdmitTick => AdmitIInv'
  <1> SUFFICES ASSUME AdmitIInv, AdmitTick PROVE AdmitIInv'
      OBVIOUS
  <1>1. /\ admitClock' = admitClock + 1 /\ admitClock \in Nat
        /\ UNCHANGED <<deployed, admission, admitted, heldSince>>
        BY DEF AdmitTick, AdmitIInv, AdmitTypeOK
  <1>2. AdmitTypeOK'
        BY <1>1 DEF AdmitIInv, AdmitTypeOK
  <1>3. ASSUME NEW r \in Operators PROVE FoundSoFar(r)' /\ FoundAll(r)'
    <2>1. FoundSoFar(r) /\ FoundAll(r)
          BY DEF AdmitIInv
    <2>2. FoundSoFar(r)'
          BY <1>1, <2>1 DEF FoundSoFar, ReadDone
    <2>3. ASSUME admission[r].step = "activating" PROVE admission[r].at <= admitClock'
      <3>1. admission[r] \in ActivationRow
            BY <2>3, NotSubmittedIsIdle DEF AdmitIInv, AdmitTypeOK
      <3>2. admission[r].at \in Nat
            BY <3>1 DEF ActivationRow
      <3> QED
          BY <1>1, <2>1, <2>3, <3>2 DEF FoundAll
    <2>4. FoundAll(r)'
          BY <1>1, <2>1, <2>3 DEF FoundAll
    <2> QED
        BY <2>2, <2>4
  <1> QED
      BY <1>2, <1>3 DEF AdmitIInv

LEMMA AdmitStepKeepsInv == AdmitIInv /\ [AdmitNext]_admitVars => AdmitIInv'
  <1> SUFFICES ASSUME AdmitIInv, [AdmitNext]_admitVars PROVE AdmitIInv'
      OBVIOUS
  <1>1. CASE AdmitTick
        BY <1>1, AdmitTickKeepsInv
  <1>2. ASSUME NEW c \in Contracts, NEW facts \in Deployments, Redeploy(c, facts) PROVE AdmitIInv'
        BY <1>2, RedeployKeepsInv
  <1>3. ASSUME NEW r \in Operators, NEW s \in Submissions, SubmitRegistry(r, s) PROVE AdmitIInv'
        BY <1>3, SubmitKeepsInv
  <1>4. ASSUME NEW r \in Operators, NEW kind \in AllReads, Read(r, kind) PROVE AdmitIInv'
        BY <1>4, ReadKeepsInv
  <1>5. ASSUME NEW r \in Operators, NextEntry(r) PROVE AdmitIInv'
        BY <1>5, NextEntryKeepsInv
  <1>6. ASSUME NEW r \in Operators, LookupFails(r) \/ Admit(r) \/ ActivationFails(r) \/ Reject(r)
        PROVE  AdmitIInv'
        BY <1>6, EndKeepsInv DEF LookupFails, Admit, ActivationFails, Reject
  <1>8. ASSUME NEW r \in Operators, BeginActivation(r) PROVE AdmitIInv'
        BY <1>8, BeginActivationKeepsInv
  <1>7. CASE UNCHANGED admitVars
        BY <1>7 DEF admitVars, AdmitIInv, AdmitTypeOK, FoundSoFar, FoundAll, ReadDone
  <1> QED
      BY <1>1, <1>2, <1>3, <1>4, <1>5, <1>6, <1>7, <1>8 DEF AdmitNext

(* However requests, deployments and reorganisations interleave, each read  *)
(* that is done and found nothing wrong found its facts on chain, which is  *)
(* what ContractRegistryVerifier's list of errors stands for.               *)
THEOREM AdmitIsInductive == AdmitSpec => []AdmitIInv
  <1>1. AdmitInit => AdmitIInv
        BY AdmitInitInv
  <1>2. AdmitIInv /\ [AdmitNext]_admitVars => AdmitIInv'
        BY AdmitStepKeepsInv
  <1> QED
      BY <1>1, <1>2, PTL DEF AdmitSpec

-----------------------------------------------------------------------------
(* What is activated is signed by a trusted key, was found on chain during  *)
(* the request, and was in force when activate() looked at the clock, after *)
(* every read of the request.                                               *)
THEOREM ActivatesOnlyTheCurrent == AdmitSpec => AdmittedIsCurrent
  <1> DEFINE Activates ==
        admitted' # admitted =>
         \E r \in Operators :
            LET s == admission[r].submission
            IN  /\ admission[r].step = "activating" /\ admitted' = s
                /\ s.trusted /\ s.signed
                /\ s.issuedAt <= admission[r].at /\ admission[r].at <= admitClock
                /\ admission[r].at < s.expiresAt
                /\ \A i \in DOMAIN s.entries :
                     s.entries[i].declares \subseteq heldSince[r][s.entries[i].contract]
  <1>1. AdmitIInv /\ [AdmitNext]_admitVars => [Activates]_admitVars
    <2> SUFFICES ASSUME AdmitIInv, AdmitNext, admitted' # admitted PROVE Activates
        OBVIOUS
    <2>1. PICK r \in Operators : Admit(r)
          BY DEF AdmitNext, AdmitTick, Redeploy, SubmitRegistry, Read, NextEntry, LookupFails,
                 BeginActivation, ActivationFails, Reject
    <2>2. admission[r].step = "activating" /\ admitted' = admission[r].submission
          BY <2>1 DEF Admit
    <2>3. FoundAll(r)
          BY DEF AdmitIInv
    <2> QED
        BY <2>2, <2>3 DEF FoundAll
  <1> QED
      BY <1>1, AdmitIsInductive, PTL DEF AdmitSpec, AdmittedIsCurrent

-----------------------------------------------------------------------------
(* Activation: the store of the registries.                                 *)
USE ConstantsAssumption

LEMMA InitHolds == Init => IInv
  BY DEF Init, IInv, TypeOK, OneActive, Active, WorkOK, Apart, Written

LEMMA TypeStep ==
    ASSUME TypeOK, \A p \in Activators : WorkOK(p), [Next]_vars
    PROVE  TypeOK'
  <1> USE DEF TypeOK, rows
  <1>1. CASE UNCHANGED vars
    BY <1>1 DEF vars
  <1>2. ASSUME NEW p \in Activators, NEW m \in Manifests, Begin(p, m)
        PROVE  TypeOK'
    BY <1>2 DEF Begin, Go
  <1>3. ASSUME NEW p \in Activators, ScanActive(p)
        PROVE  TypeOK'
    BY <1>3 DEF ScanActive, Go, Active
  <1>4. ASSUME NEW p \in Activators, Supersede(p) \/ TakeVersion(p) \/ Insert(p)
        PROVE  TypeOK'
    BY <1>4 DEF Supersede, TakeVersion, Insert, Go
  <1>5. ASSUME NEW p \in Activators,
               UniqueViolation(p) \/ DeadlockVictim(p) \/ Fault(p)
        PROVE  TypeOK'
    BY <1>5 DEF UniqueViolation, DeadlockVictim, Fault, Release
  <1>6. ASSUME NEW p \in Activators, Commit(p)
        PROVE  TypeOK'
    <2>1. job[p] \in Manifests /\ Own(p) \in Versions
      BY <1>6 DEF WorkOK, Commit, Own
    <2>2. stored' \in [Versions -> Manifests \cup {NoManifest}]
      BY <1>6, <2>1 DEF Commit, Content
    <2>3. state' \in [Versions -> {"absent", "active", "superseded"}]
      BY <1>6 DEF Commit
    <2>4. answered' \subseteq Manifests /\ UNCHANGED faults
      BY <1>6, <2>1 DEF Commit
    <2> QED
      BY <1>6, <2>2, <2>3, <2>4 DEF Commit, Release
  <1> QED
    BY <1>1, <1>2, <1>3, <1>4, <1>5, <1>6 DEF Next, Step

(* A step that leaves the rows alone keeps what is said of every other      *)
(* connection; what remains is p itself and p against the others.           *)
LEMMA Uncommitted ==
    ASSUME IInv, TypeOK', NEW p \in Activators, UNCHANGED rows,
           \A q \in Activators \ {p} :
             /\ phase'[q] = phase[q] /\ job'[q] = job[q]
             /\ picked'[q] = picked[q] /\ superseded'[q] = superseded[q],
           WorkOK(p)', \A q \in Activators \ {p} : Apart(p, q)'
    PROVE  IInv'
  <1>1. Active' = Active /\ UNCHANGED <<stored, state>>
    BY DEF Active, rows
  <1>2. /\ OneActive' /\ \A v \in Active' : stored'[v] # NoManifest
        /\ \A v \in Versions : stored'[v] # NoManifest => Version[stored'[v]] = v
    BY <1>1 DEF IInv, OneActive
  <1>3. ASSUME NEW q \in Activators, q # p
        PROVE  /\ WorkOK(q)'
               /\ \A r \in Activators \ {p} : r # q => Apart(q, r)'
               /\ Apart(q, p)'
    <2>1. WorkOK(q)'
      BY <1>1, <1>3 DEF IInv, WorkOK, Own
    <2>2. ASSUME NEW r \in Activators \ {p}, r # q
          PROVE  Apart(q, r)'
      BY <1>3, <2>2 DEF IInv, Apart, Written, Own
    <2>3. Apart(q, p)'
      BY <1>3 DEF Apart
    <2> QED
      BY <2>1, <2>2, <2>3
  <1> QED
    BY <1>2, <1>3 DEF IInv

(* A transaction that ends without a commit leaves nothing behind.          *)
LEMMA ReleaseKeeps ==
    ASSUME IInv, TypeOK', NEW p \in Activators, Release(p), UNCHANGED rows
    PROVE  IInv'
  <1>1. phase'[p] = "idle" /\ picked'[p] = {} /\ superseded'[p] = {}
    BY DEF IInv, TypeOK, Release
  <1>2. WorkOK(p)' /\ Written(p)' = {}
    BY <1>1 DEF WorkOK, Written
  <1>3. \A q \in Activators \ {p} : Apart(p, q)'
    BY <1>1, <1>2 DEF Apart
  <1>4. \A q \in Activators \ {p} :
             /\ phase'[q] = phase[q] /\ job'[q] = job[q]
             /\ picked'[q] = picked[q] /\ superseded'[q] = superseded[q]
    BY DEF IInv, TypeOK, Release
  <1> QED
    BY <1>2, <1>3, <1>4, Uncommitted

LEMMA BeginKeeps ==
    ASSUME IInv, TypeOK', NEW p \in Activators, NEW m \in Manifests, Begin(p, m)
    PROVE  IInv'
  <1>1. /\ phase[p] = "idle" /\ phase'[p] = "scan" /\ job'[p] = m
        /\ UNCHANGED <<stored, state, picked, superseded>>
    BY DEF IInv, TypeOK, Begin, Go, rows
  <1>2. superseded[p] = {}
    BY <1>1 DEF IInv, WorkOK
  <1>3. \A q \in Activators \ {p} : phase'[q] = phase[q] /\ job'[q] = job[q]
    BY DEF IInv, TypeOK, Begin, Go
  <1>4. Written(p)' = {}
    BY <1>1, <1>2 DEF Written
  <1>5. WorkOK(p)'
    <2>1. picked[p] = {}
      BY <1>1 DEF IInv, WorkOK
    <2> QED
      BY <1>1, <1>2, <2>1 DEF WorkOK
  <1>6. \A q \in Activators \ {p} : Apart(p, q)'
    BY <1>1, <1>4 DEF Apart
  <1> QED
    BY <1>1, <1>3, <1>5, <1>6, Uncommitted DEF rows

LEMMA ScanKeeps ==
    ASSUME IInv, TypeOK', NEW p \in Activators, ScanActive(p)
    PROVE  IInv'
  <1>1. /\ phase[p] = "scan" /\ phase'[p] = "supersede"
        /\ picked'[p] = Active \ {Own(p)}
        /\ UNCHANGED <<stored, state, job, superseded>>
    BY DEF IInv, TypeOK, ScanActive, Go, rows
  <1>2. \A q \in Activators \ {p} : phase'[q] = phase[q] /\ picked'[q] = picked[q]
    BY DEF IInv, TypeOK, ScanActive, Go
  <1>3. superseded[p] = {} /\ Written(p)' = {}
    BY <1>1 DEF IInv, WorkOK, Written
  <1>4. WorkOK(p)'
    BY <1>1, <1>3 DEF IInv, WorkOK, Own
  <1>5. \A q \in Activators \ {p} : Apart(p, q)'
    BY <1>1, <1>3 DEF Apart
  <1> QED
    BY <1>1, <1>2, <1>4, <1>5, Uncommitted DEF rows

LEMMA SupersedeKeeps ==
    ASSUME IInv, TypeOK', NEW p \in Activators, Supersede(p)
    PROVE  IInv'
  <1>1. /\ phase[p] = "supersede" /\ phase'[p] = "insert"
        /\ superseded'[p] = picked[p] \cap Active /\ picked'[p] = {}
        /\ UNCHANGED <<stored, state, job>>
        /\ RowHolders(p, picked[p]) = {}
    BY DEF IInv, TypeOK, Supersede, Go, rows
  <1>2. \A q \in Activators \ {p} :
          /\ phase'[q] = phase[q] /\ picked'[q] = picked[q]
          /\ superseded'[q] = superseded[q]
    BY DEF IInv, TypeOK, Supersede, Go
  <1>3. Own(p) \notin picked[p] /\ Active' = Active /\ Own(p)' = Own(p)
    BY <1>1 DEF IInv, WorkOK, Active, Own
  <1>4. WorkOK(p)'
    BY <1>1, <1>3 DEF IInv, WorkOK
  <1>5. \A q \in Activators \ {p} : Apart(p, q)'
    <2> SUFFICES ASSUME NEW q \in Activators \ {p}
                 PROVE  Apart(p, q)'
      OBVIOUS
    <2>1. Written(q)' = Written(q)
      BY <1>1, <1>2 DEF Written, Own
    <2>2. Written(q) \cap picked[p] = {}
      BY <1>1 DEF RowHolders
    <2>3. Written(p)' \subseteq picked[p]
      BY <1>1 DEF Written
    <2> QED
      BY <1>1, <2>1, <2>2, <2>3 DEF Apart
  <1> QED
    BY <1>1, <1>2, <1>4, <1>5, Uncommitted DEF rows

LEMMA TakeVersionKeeps ==
    ASSUME IInv, TypeOK', NEW p \in Activators, TakeVersion(p)
    PROVE  IInv'
  <1>1. /\ phase[p] = "insert" /\ phase'[p] = "index"
        /\ RowHolders(p, {Own(p)}) = {}
        /\ UNCHANGED <<stored, state, job, picked, superseded>>
    BY DEF IInv, TypeOK, TakeVersion, Go, rows
  <1>2. \A q \in Activators \ {p} : phase'[q] = phase[q]
    BY DEF IInv, TypeOK, TakeVersion, Go
  <1>3. Own(p)' = Own(p) /\ Active' = Active
    BY <1>1 DEF Own, Active
  <1>4. WorkOK(p)'
    BY <1>1, <1>3 DEF IInv, WorkOK
  <1>5. \A q \in Activators \ {p} : Apart(p, q)'
    <2> SUFFICES ASSUME NEW q \in Activators \ {p}
                 PROVE  Apart(p, q)'
      OBVIOUS
    <2>1. Own(p) \notin Written(q)
      BY <1>1 DEF RowHolders
    <2>2. Written(q)' = Written(q) /\ Written(q) \cap superseded[p] = {}
      BY <1>1, <1>2 DEF Written, Own, IInv, Apart
    <2>3. Written(p)' = superseded[p] \cup {Own(p)}
      BY <1>1, <1>3 DEF Written
    <2> QED
      BY <1>1, <2>1, <2>2, <2>3 DEF Apart
  <1> QED
    BY <1>1, <1>2, <1>4, <1>5, Uncommitted DEF rows

LEMMA InsertKeeps ==
    ASSUME IInv, TypeOK', NEW p \in Activators, Insert(p)
    PROVE  IInv'
  <1>1. /\ phase[p] = "index" /\ phase'[p] = "commit"
        /\ IndexHolders(p) = {} /\ ~Rivalled(p)
        /\ UNCHANGED <<stored, state, job, picked, superseded>>
    BY DEF IInv, TypeOK, Insert, Go, rows
  <1>2. \A q \in Activators \ {p} : phase'[q] = phase[q]
    BY DEF IInv, TypeOK, Insert, Go
  <1>3. Own(p)' = Own(p) /\ Active' = Active
    BY <1>1 DEF Own, Active
  <1>4. WorkOK(p)'
    BY <1>1, <1>3 DEF IInv, WorkOK, Rivalled
  <1>5. \A q \in Activators \ {p} : Apart(p, q)'
    <2> SUFFICES ASSUME NEW q \in Activators \ {p}
                 PROVE  Apart(p, q)'
      OBVIOUS
    <2>1. phase[q] # "commit"
      BY <1>1 DEF IndexHolders
    <2>2. Written(q)' = Written(q) /\ Written(q) \cap Written(p) = {}
      BY <1>1, <1>2 DEF Written, Own, IInv, Apart
    <2>3. Written(p)' = Written(p)
      BY <1>1, <1>3 DEF Written
    <2> QED
      BY <1>2, <2>1, <2>2, <2>3 DEF Apart
  <1> QED
    BY <1>1, <1>2, <1>4, <1>5, Uncommitted DEF rows

(* A commit makes its version the one active version: every other active    *)
(* row is among those it superseded.                                        *)
LEMMA CommitActivates ==
    ASSUME IInv, NEW p \in Activators, Commit(p)
    PROVE  /\ job[p] \in Manifests /\ Own(p) \in Versions
           /\ Active' = {Own(p)}
           /\ stored'[Own(p)] \in Manifests
           /\ stored[Own(p)] \in {NoManifest, stored'[Own(p)]}
           /\ stored' = [stored EXCEPT ![Own(p)] = stored'[Own(p)]]
           /\ Version[stored'[Own(p)]] = Own(p)
  <1>1. job[p] \in Manifests /\ Own(p) \in Versions /\ phase[p] = "commit"
    BY DEF IInv, WorkOK, Commit, Own
  <1>2. Active \subseteq superseded[p] \cup {Own(p)}
    BY <1>1 DEF IInv, WorkOK
  <1>3. Active' = {Own(p)}
    BY <1>1, <1>2 DEF IInv, TypeOK, Commit, Active
  <1>4. stored' = [stored EXCEPT ![Own(p)] =
                     IF stored[Own(p)] = NoManifest THEN job[p] ELSE stored[Own(p)]]
    BY DEF IInv, TypeOK, Commit, Content
  <1>5. stored'[Own(p)] = IF stored[Own(p)] = NoManifest THEN job[p] ELSE stored[Own(p)]
    BY <1>1, <1>4 DEF IInv, TypeOK
  <1>6. stored'[Own(p)] \in Manifests /\ Version[stored'[Own(p)]] = Own(p)
    BY <1>1, <1>5 DEF IInv, TypeOK, Own
  <1> QED
    BY <1>1, <1>3, <1>4, <1>5, <1>6

LEMMA CommitKeeps ==
    ASSUME IInv, TypeOK', NEW p \in Activators, Commit(p)
    PROVE  IInv'
  <1>1. /\ phase[p] = "commit" /\ phase'[p] = "idle"
        /\ superseded'[p] = {} /\ picked'[p] = {}
    BY DEF IInv, TypeOK, Commit, Release
  <1>2. /\ Active' = {Own(p)} /\ stored'[Own(p)] \in Manifests
    BY CommitActivates
  <1>3. /\ OneActive' /\ \A v \in Active' : stored'[v] # NoManifest
        /\ \A v \in Versions : stored'[v] # NoManifest => Version[stored'[v]] = v
    <2>1. OneActive' /\ \A v \in Active' : stored'[v] # NoManifest
      BY <1>2 DEF OneActive
    <2>2. ASSUME NEW v \in Versions, stored'[v] # NoManifest
          PROVE  Version[stored'[v]] = v
      <3>1. CASE v = Own(p)
        BY <3>1, CommitActivates
      <3>2. CASE v # Own(p)
        <4>1. stored'[v] = stored[v]
          BY <3>2, CommitActivates DEF IInv, TypeOK
        <4> QED
          BY <2>2, <4>1 DEF IInv
      <3> QED
        BY <3>1, <3>2
    <2> QED
      BY <2>1, <2>2
  <1>4. WorkOK(p)' /\ Written(p)' = {}
    BY <1>1 DEF WorkOK, Written
  <1>5. ASSUME NEW q \in Activators \ {p}
        PROVE  WorkOK(q)' /\ Written(q)' = Written(q) /\ phase'[q] = phase[q]
    <2>1. /\ phase'[q] = phase[q] /\ job'[q] = job[q]
          /\ picked'[q] = picked[q] /\ superseded'[q] = superseded[q]
      BY DEF IInv, TypeOK, Commit, Release
    <2>2. superseded[q] = {} /\ phase[q] # "commit"
      <3>1. Written(p) = superseded[p] \cup {Own(p)} /\ Written(p) \cap Written(q) = {}
        BY <1>1 DEF IInv, Apart, Written
      <3>2. superseded[q] \subseteq Active /\ Active \subseteq Written(p)
        BY <1>1, <3>1 DEF IInv, WorkOK
      <3>3. superseded[q] \subseteq Written(q)
        BY DEF Written
      <3>4. phase[q] # "commit"
        BY <1>1 DEF IInv, Apart
      <3> QED
        BY <3>1, <3>2, <3>3, <3>4
    <2>3. Written(q)' = Written(q)
      BY <2>1 DEF Written, Own
    <2>4. WorkOK(q)'
      BY <2>1, <2>2 DEF IInv, WorkOK, Own
    <2> QED
      BY <2>1, <2>3, <2>4
  <1>6. ASSUME NEW q \in Activators, NEW r \in Activators, q # r
        PROVE  Apart(q, r)'
    <2>1. CASE q = p \/ r = p
      BY <1>1, <1>4, <2>1 DEF Apart
    <2>2. CASE q # p /\ r # p
      BY <1>5, <1>6, <2>2 DEF IInv, Apart
    <2> QED
      BY <2>1, <2>2
  <1> QED
    BY <1>3, <1>4, <1>5, <1>6 DEF IInv

LEMMA StepKeeps ==
    ASSUME IInv, [Next]_vars
    PROVE  IInv'
  <1>1. TypeOK'
    BY TypeStep DEF IInv
  <1>2. CASE UNCHANGED vars
    BY <1>2 DEF vars, IInv, TypeOK, OneActive, Active, WorkOK, Own, Apart, Written
  <1>3. ASSUME NEW p \in Activators, Step(p)
        PROVE  IInv'
    <2>1. CASE UniqueViolation(p) \/ DeadlockVictim(p) \/ Fault(p)
      BY <1>1, <2>1, ReleaseKeeps DEF UniqueViolation, DeadlockVictim, Fault
    <2> QED
      BY <1>1, <1>3, <2>1, BeginKeeps, ScanKeeps, SupersedeKeeps, TakeVersionKeeps,
        InsertKeeps, CommitKeeps DEF Step
  <1> QED
    BY <1>2, <1>3 DEF Next

-----------------------------------------------------------------------------
(* The inductive invariant: at most one active version, superseded rows     *)
(* locked by one activation each, one undecided active row at a time.       *)
THEOREM ActivationIsInductive == Spec => []IInv
  BY InitHolds, StepKeeps, PTL DEF Spec

(* Whoever waits for the row of its version, among activations of other     *)
(* versions that all wait, waits for the one that superseded that row, and  *)
(* holds nothing itself.                                                    *)
LEMMA RowWaiter ==
    ASSUME IInv, NEW p \in Activators, NEW q \in Activators \ {p}, phase[p] = "insert",
           q \in WaitsFor(p), Own(p) # Own(q)
    PROVE  Own(p) \in superseded[q] /\ Written(p) = {}
  <1>1. Own(p) \in superseded[q]
    BY DEF WaitsFor, RowHolders, Written
  <1>2. Written(p) = superseded[p]
    BY DEF Written
  <1>3. superseded[p] # {} => Own(p) \notin superseded[p]
    BY DEF IInv, WorkOK
  <1>4. superseded[p] \subseteq {Own(p)}
    BY <1>1 DEF IInv, WorkOK, OneActive
  <1> QED
    BY <1>1, <1>2, <1>3, <1>4

(* Activations of different versions never wait for one another in a        *)
(* circle: the one that has superseded the active row (at most one has)     *)
(* waits for nobody who waits.                                              *)
THEOREM OnlyRepeatsCanDeadlock == Spec => []OnlyRepeatsDeadlock
  <1>1. IInv => OnlyRepeatsDeadlock
    <2> SUFFICES ASSUME IInv, NEW S \in SUBSET {p \in Activators : phase[p] # "idle"},
                        S # {}, \A p, q \in S : p # q => Own(p) # Own(q),
                        \A p \in S : WaitsFor(p) \cap S # {}
                 PROVE  FALSE
      BY DEF OnlyRepeatsDeadlock
    <2>1. ASSUME NEW p \in S
          PROVE  /\ p \in Activators /\ phase[p] \in {"supersede", "insert", "index"}
                 /\ \E q \in S \ {p} : q \in WaitsFor(p)
      BY DEF WaitsFor, RowHolders, IndexHolders
    <2>2. ASSUME NEW p \in S, NEW q \in S, q \in WaitsFor(p)
          PROVE  Written(q) # {}
      BY <2>1, <2>2 DEF WaitsFor, RowHolders, IndexHolders
    <2>3. ASSUME NEW p \in S, Written(p) # {}
          PROVE  phase[p] = "index"
      <3>1. PICK q \in S \ {p} : q \in WaitsFor(p)
        BY <2>1
      <3>2. phase[p] # "insert"
        BY <2>1, <2>3, <3>1, RowWaiter
      <3>3. phase[p] # "supersede"
        BY <2>1, <2>3 DEF Written, IInv, WorkOK
      <3> QED
        BY <2>1, <3>2, <3>3
    <2>4. ASSUME NEW p \in S, phase[p] = "index"
          PROVE  \E q \in S \ {p} : phase[q] = "index" /\ Written(q) \cap Active # {}
      <3>1. PICK q \in S \ {p} : q \in WaitsFor(p)
        BY <2>1
      <3>2. Written(q) \cap Active # {}
        BY <2>1, <2>4, <3>1 DEF WaitsFor, IndexHolders, RowHolders
      <3> QED
        BY <2>3, <3>1, <3>2
    <2>5. PICK p \in S : phase[p] = "index"
      BY <2>1, <2>2, <2>3
    <2>6. PICK q \in S \ {p} : phase[q] = "index" /\ Written(q) \cap Active # {}
      BY <2>4, <2>5
    <2>7. PICK r \in S \ {q} : Written(r) \cap Active # {}
      BY <2>4, <2>6
    <2>8. Written(q) \cap Written(r) # {}
      BY <2>6, <2>7 DEF IInv, OneActive
    <2> QED
      BY <2>1, <2>6, <2>7, <2>8 DEF IInv, Apart
  <1> QED
    BY <1>1, ActivationIsInductive, PTL

(* Statement by statement, the PostgreSQL store implements the store in     *)
(* memory: a commit is an activation, everything else changes nothing.      *)
THEOREM Implements == Spec => ImplementsMemoryStore
  <1>1. Init => Memory!Init
    BY DEF Init, Memory!Init, ActiveVersion, Active
  <1>2. ASSUME IInv, IInv', [Next]_vars
        PROVE  [Memory!Next]_<<stored, ActiveVersion>>
    <2>1. ASSUME UNCHANGED rows
          PROVE  UNCHANGED <<stored, ActiveVersion>>
      BY <2>1 DEF rows, ActiveVersion, Active
    <2>2. ASSUME NEW p \in Activators, Commit(p)
          PROVE  Memory!Next
      <3> DEFINE m == stored'[Own(p)]
      <3>1. /\ Own(p) \in Versions /\ Active' = {Own(p)} /\ m \in Manifests
            /\ stored[Own(p)] \in {NoManifest, m}
            /\ stored' = [stored EXCEPT ![Own(p)] = m]
        BY <1>2, <2>2, CommitActivates
      <3>2. Version[m] = Own(p)
        BY <1>2, <2>2, CommitActivates
      <3>3. ActiveVersion' = Own(p)
        BY <3>1 DEF ActiveVersion, Active
      <3>4. Memory!Activate(m)
        BY <3>1, <3>2, <3>3 DEF Memory!Activate
      <3> QED
        BY <3>1, <3>4 DEF Memory!Next
    <2> QED
      BY <1>2, <2>1, <2>2 DEF Next, Step, vars, rows, Begin, ScanActive, Supersede,
        TakeVersion, Insert, UniqueViolation, DeadlockVictim, Fault
  <1> QED
    BY <1>1, <1>2, ActivationIsInductive, PTL DEF Spec, ImplementsMemoryStore, Memory!Spec
=============================================================================
