---------------------------- MODULE AccessProofs ----------------------------
(***************************************************************************)
(* Proofs about who is let in, and to how much.  WalletSessions: whatever  *)
(* number of handlers overlap, one challenge gives one session at most,    *)
(* within its time and to the wallet it was issued for, and an ended       *)
(* session is refused.  AdminAccess: nobody is locked out who has not      *)
(* failed as often as the limit says.  CommercialLimits: what the plans    *)
(* promise of keys, rules and requests, for any number of creations at a   *)
(* time.                                                                   *)
(***************************************************************************)
EXTENDS WalletSessions, AdminAccess, CommercialLimits, FiniteSetTheorems, TLAPS

-----------------------------------------------------------------------------
(* Sessions of wallets.                                                     *)
LEMMA ChallengeNotAbsent == Absent \notin ChallengeRow
  BY DEF Absent, ChallengeRow

LEMMA SessionNotAbsent == Absent \notin SessionRow
  BY DEF Absent, SessionRow

LEMMA OffIsIdle ==
  /\ Off \notin Verification /\ Off \notin Call /\ Off \notin Answer
  /\ Off.step = "off"
  BY DEF Off, Verification, Call, Answer

-----------------------------------------------------------------------------
LEMMA AuthInitInv == AuthInit => AuthIInv
  <1> SUFFICES ASSUME AuthInit PROVE AuthIInv
      OBVIOUS
  <1> USE DEF AuthInit
  <1>1. AuthTypeOK
        BY DEF AuthTypeOK
  <1>2. \A s \in Sessions : ~Given(s)
        BY DEF Given
  <1>3. OneSessionPerChallenge /\ SessionWithinChallenge
        BY <1>2 DEF OneSessionPerChallenge, SessionWithinChallenge
  <1>4. EndedIsRefused /\ \A r \in Callers : CallerOK(r)
        BY OffIsIdle DEF EndedIsRefused, CallerOK
  <1>5. \A v \in Verifiers : PutterOK(v)
        BY OffIsIdle DEF PutterOK
  <1> QED
      BY <1>1, <1>3, <1>4, <1>5 DEF AuthIInv

(* Time passes: what has ended stays ended.                                 *)
LEMMA TickKeepsInv == AuthIInv /\ AuthTick => AuthIInv'
  <1> SUFFICES ASSUME AuthIInv, AuthTick PROVE AuthIInv'
      OBVIOUS
  <1> USE DEF AuthTick
  <1>1. AuthTypeOK'
        BY DEF AuthIInv, AuthTypeOK
  <1>2. OneSessionPerChallenge' /\ SessionWithinChallenge' /\ EndedIsRefused'
        BY DEF AuthIInv, OneSessionPerChallenge, SessionWithinChallenge, EndedIsRefused, Given
  <1>3. \A v \in Verifiers : PutterOK(v)'
        BY DEF AuthIInv, PutterOK, Given
  <1>4. ASSUME NEW r \in Callers PROVE CallerOK(r)'
    <2>1. CallerOK(r)
          BY DEF AuthIInv
    <2>2. CASE caller[r].step # "asked"
          BY <2>2 DEF CallerOK
    <2>3. CASE caller[r].step = "asked"
      <3>1. caller[r] \in Call
            BY <2>3, OffIsIdle DEF AuthIInv, AuthTypeOK, Off, Answer
      <3>2. caller[r].at \in Nat /\ authClock \in Nat
            BY <3>1 DEF Call, AuthIInv, AuthTypeOK
      <3> QED
          BY <2>1, <2>3, <3>2 DEF CallerOK, Given
    <2> QED
        BY <2>2, <2>3
  <1> QED
      BY <1>1, <1>2, <1>3, <1>4 DEF AuthIInv

(* A challenge is issued under an id no session and no handler knows yet.   *)
LEMMA IssueKeepsInv ==
  ASSUME NEW c \in Challenges, NEW w \in Wallets, AuthIInv, IssueChallenge(c, w)
  PROVE  AuthIInv'
  <1> USE DEF IssueChallenge
  <1> DEFINE row == [state |-> "issued", wallet |-> w, expires |-> authClock + ChallengeLife]
  <1>1. row \in ChallengeRow
        BY AuthAssumption DEF ChallengeRow, AuthIInv, AuthTypeOK
  <1>2. AuthTypeOK'
        BY <1>1 DEF AuthIInv, AuthTypeOK
  <1>3. \A d \in Challenges : d # c => challenge'[d] = challenge[d]
        BY DEF AuthIInv, AuthTypeOK
  <1>4. challenge[c].state # "consumed"
        BY DEF Absent
  <1>5. ASSUME NEW s \in Sessions, Given(s)
        PROVE  session[s].proof \in Challenges /\ session[s].proof # c
    <2>1. session[s] \in SessionRow
          BY <1>5 DEF Given, AuthIInv, AuthTypeOK
    <2> QED
        BY <1>4, <1>5, <2>1 DEF SessionRow, AuthIInv, SessionWithinChallenge
  <1>6. SessionWithinChallenge'
        BY <1>3, <1>5 DEF AuthIInv, SessionWithinChallenge, Given
  <1>7. OneSessionPerChallenge' /\ EndedIsRefused'
        BY DEF AuthIInv, OneSessionPerChallenge, EndedIsRefused, Given
  <1>8. ASSUME NEW v \in Verifiers PROVE PutterOK(v)'
    <2>1. CASE verifier[v].step # "put"
          BY <2>1 DEF PutterOK
    <2>2. CASE verifier[v].step = "put"
      <3>1. verifier[v].id \in Challenges
            BY <2>2, OffIsIdle DEF AuthIInv, AuthTypeOK, Verification, Off
      <3>2. verifier[v].id # c
            BY <1>4, <2>2 DEF AuthIInv, PutterOK
      <3> QED
          BY <1>3, <2>2, <3>1, <3>2 DEF AuthIInv, PutterOK, Given
    <2> QED
        BY <2>1, <2>2
  <1>9. \A r \in Callers : CallerOK(r)'
        BY DEF AuthIInv, CallerOK, Given
  <1> QED
      BY <1>2, <1>6, <1>7, <1>8, <1>9 DEF AuthIInv

LEMMA BeginVerifyKeepsInv ==
  ASSUME NEW v \in Verifiers, NEW c \in Challenges, NEW w \in Wallets,
         AuthIInv, BeginVerify(v, c, w)
  PROVE  AuthIInv'
  <1> USE DEF BeginVerify
  <1> DEFINE q == [step |-> "consume", id |-> c, wallet |-> w, at |-> authClock]
  <1>1. q \in Verification
        BY DEF Verification, AuthIInv, AuthTypeOK
  <1>2. AuthTypeOK'
        BY <1>1 DEF AuthIInv, AuthTypeOK
  <1>3. \A u \in Verifiers : verifier'[u].step = "put" => verifier'[u] = verifier[u] /\ u # v
        BY DEF AuthIInv, AuthTypeOK
  <1>4. \A u \in Verifiers : PutterOK(u)'
        BY <1>3 DEF AuthIInv, PutterOK, Given
  <1>5. OneSessionPerChallenge' /\ SessionWithinChallenge' /\ EndedIsRefused'
        BY DEF AuthIInv, OneSessionPerChallenge, SessionWithinChallenge, EndedIsRefused, Given
  <1>6. \A r \in Callers : CallerOK(r)'
        BY DEF AuthIInv, CallerOK, Given
  <1> QED
      BY <1>2, <1>4, <1>5, <1>6 DEF AuthIInv

(* The one attempt that consumes the challenge goes on alone.               *)
LEMMA ConsumeKeepsInv ==
  ASSUME NEW v \in Verifiers, AuthIInv, ConsumeChallenge(v)
  PROVE  AuthIInv'
  <1> DEFINE q == verifier[v]
             c == challenge[q.id]
  <1>1. q \in Verification /\ q.id \in Challenges /\ q.at \in Nat
        BY OffIsIdle DEF ConsumeChallenge, AuthIInv, AuthTypeOK, Verification, Off
  <1>2. UNCHANGED <<authClock, session, caller, authFaults>>
        BY DEF ConsumeChallenge
  <1>3. /\ verifier' \in [Verifiers -> {Off} \cup Verification]
        /\ \A u \in Verifiers : u # v => verifier'[u] = verifier[u]
    <2>1. [q EXCEPT !.step = "put"] \in Verification
          BY <1>1 DEF Verification
    <2> QED
        BY <2>1 DEF ConsumeChallenge, AuthIInv, AuthTypeOK
  <1>4. CASE ~Consumable(q.id, q.at)
    <2>1. UNCHANGED challenge /\ verifier'[v] = Off
          BY <1>4 DEF ConsumeChallenge, AuthIInv, AuthTypeOK
    <2>2. AuthTypeOK'
          BY <1>2, <1>3, <2>1 DEF AuthIInv, AuthTypeOK
    <2>3. \A u \in Verifiers : verifier'[u].step = "put" => verifier'[u] = verifier[u] /\ u # v
          BY <1>3, <2>1, OffIsIdle
    <2>4. \A u \in Verifiers : PutterOK(u)'
          BY <1>2, <2>1, <2>3 DEF AuthIInv, PutterOK, Given
    <2>5. OneSessionPerChallenge' /\ SessionWithinChallenge' /\ EndedIsRefused'
          BY <1>2, <2>1 DEF AuthIInv, OneSessionPerChallenge, SessionWithinChallenge,
             EndedIsRefused, Given
    <2>6. \A r \in Callers : CallerOK(r)'
          BY <1>2 DEF AuthIInv, CallerOK, Given
    <2> QED
        BY <2>2, <2>4, <2>5, <2>6 DEF AuthIInv
  <1>5. CASE Consumable(q.id, q.at)
    <2>1. challenge' = [challenge EXCEPT ![q.id].state = "consumed"]
          BY <1>5 DEF ConsumeChallenge
    <2>2. c \in ChallengeRow /\ c.state = "issued" /\ q.at < c.expires
      <3>1. c.state = "issued" /\ c.expires > q.at
            BY <1>5 DEF Consumable
      <3>2. c \in ChallengeRow
            BY <1>1, <3>1 DEF AuthIInv, AuthTypeOK, Absent
      <3> QED
          BY <1>1, <3>1, <3>2 DEF ChallengeRow
    <2>3. /\ challenge'[q.id] = [c EXCEPT !.state = "consumed"]
          /\ \A d \in Challenges : d # q.id => challenge'[d] = challenge[d]
          BY <1>1, <2>1 DEF AuthIInv, AuthTypeOK
    <2>4. [c EXCEPT !.state = "consumed"] \in ChallengeRow
          BY <2>2 DEF ChallengeRow
    <2>5. AuthTypeOK'
          BY <1>1, <1>2, <1>3, <2>1, <2>4 DEF AuthIInv, AuthTypeOK
    <2>6. ASSUME NEW s \in Sessions, Given(s)
          PROVE  session[s].proof \in Challenges /\ session[s].proof # q.id
      <3>1. session[s] \in SessionRow
            BY <2>6 DEF Given, AuthIInv, AuthTypeOK
      <3> QED
          BY <2>2, <2>6, <3>1 DEF SessionRow, AuthIInv, SessionWithinChallenge
    <2>7. SessionWithinChallenge'
          BY <1>2, <2>3, <2>6 DEF AuthIInv, SessionWithinChallenge, Given
    <2>8. OneSessionPerChallenge' /\ EndedIsRefused' /\ \A r \in Callers : CallerOK(r)'
          BY <1>2 DEF AuthIInv, OneSessionPerChallenge, EndedIsRefused, CallerOK, Given
    <2>9. ASSUME NEW u \in Verifiers, u # v, verifier[u].step = "put"
          PROVE  verifier[u].id \in Challenges /\ verifier[u].id # q.id
      <3>1. verifier[u] \in Verification
            BY <2>9, OffIsIdle DEF AuthIInv, AuthTypeOK, Off
      <3> QED
          BY <2>2, <2>9, <3>1 DEF AuthIInv, PutterOK, Verification
    <2>10. \/ verifier'[v] = Off
           \/ c.wallet = q.wallet /\ verifier'[v] = [q EXCEPT !.step = "put"]
      <3>1. \/ verifier' = [verifier EXCEPT ![v] = Off]
            \/ c.wallet = q.wallet /\ verifier' = [verifier EXCEPT ![v].step = "put"]
            BY <1>5 DEF ConsumeChallenge
      <3> QED
          BY <3>1 DEF AuthIInv, AuthTypeOK
    <2>11. ASSUME NEW u \in Verifiers, u # v PROVE PutterOK(u)'
      <3>1. CASE verifier[u].step # "put"
            BY <1>3, <2>11, <3>1 DEF PutterOK
      <3>2. CASE verifier[u].step = "put"
        <4>1. verifier'[u] = verifier[u] /\ challenge'[verifier[u].id] = challenge[verifier[u].id]
              BY <1>3, <2>3, <2>9, <2>11, <3>2
        <4>2. \A t \in Verifiers : verifier'[t].step = "put" /\ verifier'[t].id = verifier[u].id
                 => t = u
          <5> SUFFICES ASSUME NEW t \in Verifiers, verifier'[t].step = "put",
                              verifier'[t].id = verifier[u].id
                       PROVE  t = u
              OBVIOUS
          <5>1. CASE t = v
            <6>1. verifier'[v].id = q.id
                  BY <2>10, <5>1, <1>1, OffIsIdle DEF Verification
            <6> QED
                BY <5>1, <6>1, <2>9, <2>11, <3>2
          <5>2. CASE t # v
                BY <1>3, <5>2, <3>2 DEF AuthIInv, PutterOK
          <5> QED
              BY <5>1, <5>2
        <4> QED
            BY <1>2, <3>2, <4>1, <4>2 DEF AuthIInv, PutterOK, Given
      <3> QED
          BY <3>1, <3>2
    <2>12. PutterOK(v)'
      <3>1. CASE verifier'[v] = Off
            BY <3>1, OffIsIdle DEF PutterOK
      <3>2. CASE c.wallet = q.wallet /\ verifier'[v] = [q EXCEPT !.step = "put"]
        <4>1. /\ verifier'[v].step = "put" /\ verifier'[v].id = q.id
              /\ verifier'[v].wallet = q.wallet /\ verifier'[v].at = q.at
              BY <1>1, <3>2 DEF Verification
        <4>2. /\ challenge'[q.id].state = "consumed" /\ challenge'[q.id].wallet = q.wallet
              /\ q.at < challenge'[q.id].expires
              BY <2>2, <2>3, <3>2 DEF ChallengeRow
        <4>3. \A u \in Verifiers : verifier'[u].step = "put" /\ verifier'[u].id = q.id => u = v
              BY <1>3, <2>9
        <4>4. \A s \in Sessions : Given(s)' => session'[s].proof # q.id
              BY <1>2, <2>6 DEF Given
        <4> QED
            BY <4>1, <4>2, <4>3, <4>4 DEF PutterOK
      <3> QED
          BY <2>10, <3>1, <3>2
    <2> QED
        BY <2>5, <2>7, <2>8, <2>11, <2>12 DEF AuthIInv
  <1> QED
      BY <1>4, <1>5

(* The handler that consumed the challenge stores its only session.         *)
LEMMA PutKeepsInv ==
  ASSUME NEW v \in Verifiers, AuthIInv, PutSession(v)
  PROVE  AuthIInv'
  <1> DEFINE q == verifier[v]
             c == challenge[q.id]
             row == [state |-> "live", wallet |-> q.wallet,
                     expires |-> q.at + SessionLife, proof |-> q.id]
  <1>1. PICK s \in Sessions :
            session[s] = Absent /\ session' = [session EXCEPT ![s] = row]
        BY DEF PutSession
  <1>2. /\ q.step = "put" /\ verifier' = [verifier EXCEPT ![v] = Off]
        /\ UNCHANGED <<authClock, challenge, caller, authFaults>>
        BY DEF PutSession
  <1>3. q \in Verification /\ q.id \in Challenges /\ q.at \in Nat /\ q.wallet \in Wallets
        BY <1>2, OffIsIdle DEF AuthIInv, AuthTypeOK, Verification, Off
  <1>4. row \in SessionRow /\ row # Absent
        BY <1>3, AuthAssumption, SessionNotAbsent DEF SessionRow
  <1>5. AuthTypeOK'
        BY <1>1, <1>2, <1>4 DEF AuthIInv, AuthTypeOK
  <1>6. session'[s] = row /\ \A t \in Sessions : t # s => session'[t] = session[t]
        BY <1>1 DEF AuthIInv, AuthTypeOK
  <1>7. PutterOK(v)
        BY DEF AuthIInv
  <1>8. \A t \in Sessions : Given(t) => session[t].proof # q.id
        BY <1>2, <1>7 DEF PutterOK
  <1>9. OneSessionPerChallenge'
    <2> SUFFICES ASSUME NEW t \in Sessions, NEW u \in Sessions, Given(t)', Given(u)',
                        session'[t].proof = session'[u].proof
                 PROVE  t = u
        BY DEF OneSessionPerChallenge
    <2>1. row.proof = q.id
          OBVIOUS
    <2> QED
        BY <1>6, <1>8, <2>1 DEF Given, AuthIInv, OneSessionPerChallenge
  <1>10. SessionWithinChallenge'
    <2> SUFFICES ASSUME NEW t \in Sessions, Given(t)'
                 PROVE  LET d == challenge'[session'[t].proof]
                        IN  /\ d.state = "consumed" /\ d.wallet = session'[t].wallet
                            /\ session'[t].expires < d.expires + SessionLife
        BY DEF SessionWithinChallenge
    <2>1. CASE t # s
          BY <1>2, <1>6, <2>1 DEF AuthIInv, SessionWithinChallenge, Given
    <2>2. CASE t = s
      <3>1. c.state = "consumed" /\ c.wallet = q.wallet /\ q.at < c.expires
            BY <1>2, <1>7 DEF PutterOK
      <3>2. c.expires \in Nat
            BY <1>3, <3>1 DEF AuthIInv, AuthTypeOK, ChallengeRow, Absent
      <3>3. q.at + SessionLife < c.expires + SessionLife
            BY <1>3, <3>1, <3>2, AuthAssumption
      <3> QED
          BY <1>2, <1>6, <2>2, <3>1, <3>3
    <2> QED
        BY <2>1, <2>2
  <1>11. \A u \in Verifiers :
            verifier'[u].step = "put" => verifier'[u] = verifier[u] /\ verifier[u].id # q.id
    <2> SUFFICES ASSUME NEW u \in Verifiers, verifier'[u].step = "put"
                 PROVE  verifier'[u] = verifier[u] /\ verifier[u].id # q.id
        OBVIOUS
    <2>1. u # v /\ verifier'[u] = verifier[u]
          BY <1>2, OffIsIdle DEF AuthIInv, AuthTypeOK
    <2> QED
        BY <1>2, <1>7, <2>1 DEF PutterOK
  <1>12. ASSUME NEW u \in Verifiers PROVE PutterOK(u)'
    <2>1. CASE verifier'[u].step # "put"
          BY <2>1 DEF PutterOK
    <2>2. CASE verifier'[u].step = "put"
      <3>1. PutterOK(u) /\ verifier'[u] = verifier[u] /\ verifier[u].id # q.id
            BY <1>11, <2>2 DEF AuthIInv
      <3>2. \A t \in Sessions : Given(t)' => session'[t].proof # verifier[u].id
            BY <1>6, <2>2, <3>1 DEF PutterOK, Given
      <3>3. \A t \in Verifiers :
               verifier'[t].step = "put" /\ verifier'[t].id = verifier[u].id => t = u
            BY <1>11, <2>2, <3>1 DEF PutterOK
      <3> QED
          BY <1>2, <2>2, <3>1, <3>2, <3>3 DEF PutterOK
    <2> QED
        BY <2>1, <2>2
  <1>13. ASSUME NEW r \in Callers PROVE CallerOK(r)'
    <2>1. CallerOK(r)
          BY DEF AuthIInv
    <2>2. CASE caller[r].step # "asked"
          BY <1>2, <2>2 DEF CallerOK
    <2>3. CASE caller[r].step = "asked"
      <3>1. Given(caller[r].token) /\ caller[r].token \in Sessions
            BY <2>1, <2>3, OffIsIdle DEF CallerOK, AuthIInv, AuthTypeOK, Call, Answer, Off
      <3>2. session'[caller[r].token] = session[caller[r].token]
            BY <1>1, <1>6, <3>1 DEF Given
      <3> QED
          BY <1>2, <2>1, <2>3, <3>2 DEF CallerOK, Given
    <2> QED
        BY <2>2, <2>3
  <1>14. EndedIsRefused'
        BY <1>2 DEF AuthIInv, EndedIsRefused
  <1> QED
      BY <1>5, <1>9, <1>10, <1>12, <1>13, <1>14 DEF AuthIInv

LEMMA AbandonKeepsInv ==
  ASSUME NEW v \in Verifiers, AuthIInv, AbandonVerify(v)
  PROVE  AuthIInv'
  <1> USE DEF AbandonVerify
  <1>1. AuthTypeOK'
        BY DEF AuthIInv, AuthTypeOK
  <1>2. \A u \in Verifiers : verifier'[u].step = "put" => verifier'[u] = verifier[u]
        BY OffIsIdle DEF AuthIInv, AuthTypeOK
  <1>3. \A u \in Verifiers : PutterOK(u)'
        BY <1>2 DEF AuthIInv, PutterOK, Given
  <1>4. OneSessionPerChallenge' /\ SessionWithinChallenge' /\ EndedIsRefused'
        BY DEF AuthIInv, OneSessionPerChallenge, SessionWithinChallenge, EndedIsRefused, Given
  <1>5. \A r \in Callers : CallerOK(r)'
        BY DEF AuthIInv, CallerOK, Given
  <1> QED
      BY <1>1, <1>3, <1>4, <1>5 DEF AuthIInv

-----------------------------------------------------------------------------
(* A request remembers what was so when it came in.                         *)
LEMMA BeginCallKeepsInv ==
  ASSUME NEW r \in Callers, NEW s \in Sessions, AuthIInv, BeginCall(r, s)
  PROVE  AuthIInv'
  <1> DEFINE call == [step |-> "asked", token |-> s, at |-> authClock, over |-> Ended(s)]
  <1>1. /\ session[s] # Absent /\ caller' = [caller EXCEPT ![r] = call]
        /\ UNCHANGED <<authClock, challenge, session, verifier, authFaults>>
        BY DEF BeginCall
  <1>2. call \in Call
    <2>1. Ended(s) \in BOOLEAN
          BY DEF Ended
    <2> QED
        BY <2>1 DEF Call, AuthIInv, AuthTypeOK
  <1>3. AuthTypeOK'
        BY <1>1, <1>2 DEF AuthIInv, AuthTypeOK
  <1>4. caller'[r] = call /\ \A u \in Callers : u # r => caller'[u] = caller[u]
        BY <1>1 DEF AuthIInv, AuthTypeOK
  <1>5. CallerOK(r)'
    <2>1. /\ caller'[r].token = s /\ caller'[r].at = authClock
          /\ caller'[r].over => Ended(s)
          BY <1>4
    <2>2. Ended(s) => session[s].state = "deleted" \/ session[s].expires <= authClock
          BY DEF Ended
    <2> QED
        BY <1>1, <2>1, <2>2 DEF CallerOK, Given, AuthIInv, AuthTypeOK
  <1>6. \A u \in Callers : CallerOK(u)'
        BY <1>1, <1>4, <1>5 DEF AuthIInv, CallerOK, Given
  <1>7. EndedIsRefused'
        BY <1>4 DEF AuthIInv, EndedIsRefused
  <1>8. OneSessionPerChallenge' /\ SessionWithinChallenge' /\ \A v \in Verifiers : PutterOK(v)'
        BY <1>1 DEF AuthIInv, OneSessionPerChallenge, SessionWithinChallenge, PutterOK, Given
  <1> QED
      BY <1>3, <1>6, <1>7, <1>8 DEF AuthIInv

LEMMA AuthenticateKeepsInv ==
  ASSUME NEW r \in Callers, AuthIInv, Authenticate(r)
  PROVE  AuthIInv'
  <1> DEFINE q == caller[r]
             answer == [step |-> IF Found(q.token, q.at) THEN "served" ELSE "refused",
                        over |-> q.over]
  <1>1. /\ q.step = "asked" /\ caller' = [caller EXCEPT ![r] = answer]
        /\ UNCHANGED <<authClock, challenge, session, verifier, authFaults>>
        BY DEF Authenticate
  <1>2. q \in Call /\ q.over \in BOOLEAN /\ q.token \in Sessions /\ q.at \in Nat
        BY <1>1, OffIsIdle DEF AuthIInv, AuthTypeOK, Call, Answer, Off
  <1>3. answer \in Answer
        BY <1>2 DEF Answer
  <1>4. AuthTypeOK'
        BY <1>1, <1>3 DEF AuthIInv, AuthTypeOK
  <1>5. caller'[r] = answer /\ \A u \in Callers : u # r => caller'[u] = caller[u]
        BY <1>1 DEF AuthIInv, AuthTypeOK
  <1>6. Found(q.token, q.at) => ~q.over
    <2> SUFFICES ASSUME Found(q.token, q.at), q.over PROVE FALSE
        OBVIOUS
    <2>1. session[q.token].state = "live" /\ session[q.token].expires > q.at
          BY DEF Found
    <2>2. session[q.token] \in SessionRow
          BY <1>2, <2>1 DEF AuthIInv, AuthTypeOK, Absent
    <2>3. session[q.token].state = "deleted" \/ session[q.token].expires <= q.at
          BY <1>1 DEF AuthIInv, CallerOK
    <2> QED
        BY <1>2, <2>1, <2>2, <2>3 DEF SessionRow
  <1>7. EndedIsRefused'
        BY <1>5, <1>6 DEF AuthIInv, EndedIsRefused
  <1>8. \A u \in Callers : CallerOK(u)'
        BY <1>1, <1>5 DEF AuthIInv, CallerOK, Given
  <1>9. OneSessionPerChallenge' /\ SessionWithinChallenge' /\ \A v \in Verifiers : PutterOK(v)'
        BY <1>1 DEF AuthIInv, OneSessionPerChallenge, SessionWithinChallenge, PutterOK, Given
  <1> QED
      BY <1>4, <1>7, <1>8, <1>9 DEF AuthIInv

LEMMA LogoutKeepsInv ==
  ASSUME NEW s \in Sessions, AuthIInv, Logout(s)
  PROVE  AuthIInv'
  <1> DEFINE row == [session[s] EXCEPT !.state = "deleted"]
  <1>1. /\ session[s] # Absent /\ session' = [session EXCEPT ![s].state = "deleted"]
        /\ UNCHANGED <<authClock, challenge, verifier, caller, authFaults>>
        BY DEF Logout
  <1>2. session[s] \in SessionRow
        BY <1>1 DEF AuthIInv, AuthTypeOK
  <1>3. /\ row \in SessionRow /\ row.state = "deleted" /\ row.proof = session[s].proof
        /\ row.wallet = session[s].wallet /\ row.expires = session[s].expires
        BY <1>2 DEF SessionRow
  <1>4. AuthTypeOK'
        BY <1>1, <1>3 DEF AuthIInv, AuthTypeOK
  <1>5. session'[s] = row /\ \A t \in Sessions : t # s => session'[t] = session[t]
        BY <1>1 DEF AuthIInv, AuthTypeOK
  <1>6. \A t \in Sessions :
           /\ Given(t)' <=> Given(t)
           /\ Given(t) => /\ session'[t].proof = session[t].proof
                          /\ session'[t].wallet = session[t].wallet
                          /\ session'[t].expires = session[t].expires
                          /\ session'[t].state = session[t].state \/ session'[t].state = "deleted"
        BY <1>1, <1>3, <1>5, SessionNotAbsent DEF Given
  <1>7. OneSessionPerChallenge' /\ SessionWithinChallenge' /\ EndedIsRefused'
        BY <1>1, <1>6 DEF AuthIInv, OneSessionPerChallenge, SessionWithinChallenge, EndedIsRefused
  <1>8. \A v \in Verifiers : PutterOK(v)'
        BY <1>1, <1>6 DEF AuthIInv, PutterOK
  <1>9. ASSUME NEW r \in Callers PROVE CallerOK(r)'
    <2>1. CallerOK(r)
          BY DEF AuthIInv
    <2>2. caller[r].step = "asked" => caller[r].token \in Sessions
          BY OffIsIdle DEF AuthIInv, AuthTypeOK, Call, Answer, Off
    <2> QED
        BY <1>1, <1>6, <2>1, <2>2 DEF CallerOK
  <1> QED
      BY <1>4, <1>7, <1>8, <1>9 DEF AuthIInv

-----------------------------------------------------------------------------
(* Whatever handlers overlap and are lost, a challenge gives one session    *)
(* and a session that ended is refused: with a handler that holds a         *)
(* consumed challenge counted in, the invariant of all of WalletSessions.   *)
THEOREM AuthIsInductive == AuthSpec => []AuthIInv
  <1>1. AuthInit => AuthIInv
        BY AuthInitInv
  <1>2. AuthIInv /\ [AuthNext]_authVars => AuthIInv'
    <2> SUFFICES ASSUME AuthIInv, [AuthNext]_authVars PROVE AuthIInv'
        OBVIOUS
    <2>1. CASE AuthTick
          BY <2>1, TickKeepsInv
    <2>2. ASSUME NEW c \in Challenges, NEW w \in Wallets, IssueChallenge(c, w)
          PROVE  AuthIInv'
          BY <2>2, IssueKeepsInv
    <2>3. ASSUME NEW c \in Challenges, NEW w \in Wallets, NEW v \in Verifiers,
                 BeginVerify(v, c, w)
          PROVE  AuthIInv'
          BY <2>3, BeginVerifyKeepsInv
    <2>4. ASSUME NEW v \in Verifiers, ConsumeChallenge(v) PROVE AuthIInv'
          BY <2>4, ConsumeKeepsInv
    <2>5. ASSUME NEW v \in Verifiers, PutSession(v) PROVE AuthIInv'
          BY <2>5, PutKeepsInv
    <2>6. ASSUME NEW v \in Verifiers, AbandonVerify(v) PROVE AuthIInv'
          BY <2>6, AbandonKeepsInv
    <2>7. ASSUME NEW s \in Sessions, Logout(s) PROVE AuthIInv'
          BY <2>7, LogoutKeepsInv
    <2>8. ASSUME NEW s \in Sessions, NEW r \in Callers, BeginCall(r, s) PROVE AuthIInv'
          BY <2>8, BeginCallKeepsInv
    <2>9. ASSUME NEW r \in Callers, Authenticate(r) PROVE AuthIInv'
          BY <2>9, AuthenticateKeepsInv
    <2>10. CASE UNCHANGED authVars
          BY <2>10 DEF authVars, AuthIInv, AuthTypeOK, OneSessionPerChallenge,
             SessionWithinChallenge, EndedIsRefused, PutterOK, CallerOK, Given
    <2> QED
        BY <2>1, <2>2, <2>3, <2>4, <2>5, <2>6, <2>7, <2>8, <2>9, <2>10 DEF AuthNext
  <1> QED
      BY <1>1, <1>2, PTL DEF AuthSpec

(* However many handlers bring the answer to one challenge, and whichever   *)
(* are lost half way, at most one obtains a session.                        *)
THEOREM ChallengeSpentOnce == AuthSpec => []OneSessionPerChallenge
  <1>1. AuthIInv => OneSessionPerChallenge
        BY DEF AuthIInv
  <1> QED
      BY <1>1, AuthIsInductive, PTL

(* A request that came in after its session had ended is never served.      *)
THEOREM EndedSessionRefused == AuthSpec => []EndedIsRefused
  <1>1. AuthIInv => EndedIsRefused
        BY DEF AuthIInv
  <1> QED
      BY <1>1, AuthIsInductive, PTL

(* A session is of the wallet that answered, and ends within a session's    *)
(* life of the end of its challenge.                                        *)
THEOREM SessionIsWithinChallenge == AuthSpec => []SessionWithinChallenge
  <1>1. AuthIInv => SessionWithinChallenge
        BY DEF AuthIInv
  <1> QED
      BY <1>1, AuthIsInductive, PTL

-----------------------------------------------------------------------------
(* Administrator logins.                                                    *)
Counts == [startedAt : Nat, count : Nat]
Hashing == [step : {"hashing"}, from : Consoles, at : Times, read : Counts]
Limited == [step : {"limited"}, from : Consoles, at : Times, read : Counts]

AdminTypeOK ==
    /\ adminClock \in Times
    /\ attempts \in [Consoles -> Counts]
    /\ login \in [Logins -> {NoLogin} \cup Hashing \cup Limited]
    /\ failures \in [Consoles -> [Times -> Nat]]

(* The failures of p that began at the time t or after it.                  *)
FailuresSince(p, t) ==
    {x \in Times \X (1..MaxFailures) : t <= x[1] /\ x[2] <= failures[p][x[1]]}

(* A count is never higher than the failures its window has seen.           *)
CountOK(p, c) == c.count <= Cardinality(FailuresSince(p, c.startedAt))

LoginOK(q) ==
    /\ q.step = "hashing" =>
         q.at <= adminClock /\ q.read.startedAt <= q.at /\ CountOK(q.from, q.read)
    /\ q.step = "limited" =>
         Cardinality(RecentFailures(q.from, q.at)) >= AttemptLimit

AdminIInv ==
    /\ AdminTypeOK
    /\ \A p \in Consoles :
         /\ CountOK(p, attempts[p]) /\ attempts[p].startedAt <= adminClock
         /\ \A t \in Times : failures[p][t] <= MaxFailures
         /\ \A t \in Times : t > adminClock => failures[p][t] = 0
    /\ \A o \in Logins : LoginOK(login[o])

Pairs == Times \X (1..MaxFailures)

LEMMA MoreIsCounted ==
  ASSUME NEW T, T \subseteq Pairs, NEW S, S \subseteq T
  PROVE  /\ IsFiniteSet(T) /\ Cardinality(S) \in Nat /\ Cardinality(T) \in Nat
         /\ Cardinality(S) <= Cardinality(T)
  <1>1. IsFiniteSet(Times) /\ IsFiniteSet(1..MaxFailures)
        BY AdminAssumption, FS_Interval DEF Times
  <1>2. IsFiniteSet(Pairs)
        BY <1>1, FS_Product DEF Pairs
  <1>3. IsFiniteSet(T) /\ IsFiniteSet(S)
        BY <1>2, FS_Subset
  <1> QED
      BY <1>3, FS_Subset, FS_CardinalityType

LEMMA FailuresArePairs ==
  ASSUME NEW p, NEW t
  PROVE  FailuresSince(p, t) \subseteq Pairs /\ RecentFailures(p, t) \subseteq Pairs
  BY DEF FailuresSince, RecentFailures, Pairs

LEMMA AdminInitInv == AdminInit => AdminIInv
  <1> SUFFICES ASSUME AdminInit PROVE AdminIInv
      OBVIOUS
  <1> USE AdminAssumption DEF AdminInit
  <1>1. AdminTypeOK
        BY DEF AdminTypeOK, Times, NoAttempts, Counts
  <1>2. \A p \in Consoles : CountOK(p, attempts[p]) /\ attempts[p].startedAt <= adminClock
        BY FailuresArePairs, MoreIsCounted DEF CountOK, NoAttempts
  <1>3. \A o \in Logins : LoginOK(login[o])
        BY DEF LoginOK, NoLogin
  <1>4. \A p \in Consoles, t \in Times : failures[p][t] = 0
        OBVIOUS
  <1> QED
      BY <1>1, <1>2, <1>3, <1>4 DEF AdminIInv

(* Failures are never forgotten: what they justify stays justified.         *)
LEMMA FailuresGrow ==
  ASSUME AdminIInv, adminClock' \in Nat, adminClock <= adminClock',
         \A p \in Consoles, t \in Times : failures'[p][t] \in Nat /\ failures[p][t] <= failures'[p][t]
  PROVE  /\ \A p \in Consoles, c \in Counts : CountOK(p, c) => CountOK(p, c)'
         /\ \A q \in {NoLogin} \cup Hashing \cup Limited : LoginOK(q) => LoginOK(q)'
  <1> USE AdminAssumption
  <1>1. \A p \in Consoles, t \in Times : failures[p][t] \in Nat
        BY DEF AdminIInv, AdminTypeOK
  <1>2. \A p \in Consoles : \A t :
          FailuresSince(p, t) \subseteq FailuresSince(p, t)' /\ FailuresSince(p, t)' \subseteq Pairs
        BY <1>1 DEF FailuresSince, Pairs
  <1>3. \A p \in Consoles : \A t :
          RecentFailures(p, t) \subseteq RecentFailures(p, t)' /\ RecentFailures(p, t)' \subseteq Pairs
        BY <1>1 DEF RecentFailures, Pairs
  <1>4. ASSUME NEW p \in Consoles, NEW c \in Counts, CountOK(p, c) PROVE CountOK(p, c)'
    <2>1. Cardinality(FailuresSince(p, c.startedAt)) <= Cardinality(FailuresSince(p, c.startedAt)')
          /\ Cardinality(FailuresSince(p, c.startedAt)) \in Nat
          /\ Cardinality(FailuresSince(p, c.startedAt)') \in Nat
          BY <1>2, MoreIsCounted
    <2> QED
        BY <1>4, <2>1 DEF CountOK, Counts
  <1>5. ASSUME NEW q \in {NoLogin} \cup Hashing \cup Limited, LoginOK(q) PROVE LoginOK(q)'
    <2>1. CASE q = NoLogin
          BY <2>1 DEF NoLogin, LoginOK
    <2>2. CASE q \in Hashing
          BY <1>4, <1>5, <2>2 DEF Hashing, LoginOK, AdminIInv, AdminTypeOK, Times
    <2>3. CASE q \in Limited
      <3>1. q.from \in Consoles /\ q.step = "limited"
            BY <2>3 DEF Limited
      <3>2. Cardinality(RecentFailures(q.from, q.at)) <= Cardinality(RecentFailures(q.from, q.at)')
            /\ Cardinality(RecentFailures(q.from, q.at)) \in Nat
            /\ Cardinality(RecentFailures(q.from, q.at)') \in Nat
            BY <1>3, <3>1, MoreIsCounted
      <3> QED
          BY <1>5, <3>1, <3>2 DEF LoginOK
    <2> QED
        BY <1>5, <2>1, <2>2, <2>3
  <1> QED
      BY <1>4, <1>5
(* A step that leaves time and failures alone owes only what it sets.       *)
LEMMA QuietKeepsInv ==
  ASSUME AdminIInv, UNCHANGED <<adminClock, failures>>,
         attempts' \in [Consoles -> Counts],
         \A p \in Consoles : CountOK(p, attempts'[p]) /\ attempts'[p].startedAt <= adminClock,
         login' \in [Logins -> {NoLogin} \cup Hashing \cup Limited],
         \A o \in Logins : LoginOK(login'[o])
  PROVE  AdminIInv'
  <1>1. /\ \A p \in Consoles : \A c : CountOK(p, c) => CountOK(p, c)'
        /\ \A q : LoginOK(q) => LoginOK(q)'
        BY DEF CountOK, LoginOK, FailuresSince, RecentFailures
  <1>2. AdminTypeOK'
        BY DEF AdminIInv, AdminTypeOK
  <1>3. \A p \in Consoles : CountOK(p, attempts[p])'
        BY <1>1
  <1>4. \A o \in Logins : LoginOK(login[o])'
        BY <1>1
  <1> QED
      BY <1>2, <1>3, <1>4 DEF AdminIInv

LEMMA AdminTickKeepsInv == AdminIInv /\ AdminTick => AdminIInv'
  <1> SUFFICES ASSUME AdminIInv, AdminTick PROVE AdminIInv'
      OBVIOUS
  <1> USE AdminAssumption DEF AdminTick
  <1>1. AdminTypeOK' /\ adminClock' = adminClock + 1 /\ adminClock \in Nat
        BY DEF AdminIInv, AdminTypeOK, Times
  <1>2. /\ \A p \in Consoles, c \in Counts : CountOK(p, c) => CountOK(p, c)'
        /\ \A q \in {NoLogin} \cup Hashing \cup Limited : LoginOK(q) => LoginOK(q)'
        BY <1>1, FailuresGrow DEF AdminIInv, AdminTypeOK
  <1>3. \A p \in Consoles : CountOK(p, attempts[p])' /\ attempts'[p].startedAt <= adminClock'
        BY <1>1, <1>2 DEF AdminIInv, AdminTypeOK, Counts
  <1>4. \A o \in Logins : LoginOK(login[o])'
        BY <1>2 DEF AdminIInv, AdminTypeOK
  <1>5. \A p \in Consoles, t \in Times : t > adminClock' => t > adminClock
        BY <1>1 DEF Times
  <1> QED
      BY <1>1, <1>3, <1>4, <1>5 DEF AdminIInv

(* Without failures counted nothing is claimed.                             *)
LEMMA NothingCounted ==
  ASSUME NEW p, NEW c, c.count = 0
  PROVE  CountOK(p, c)
  BY FailuresArePairs, MoreIsCounted DEF CountOK

(* The window read is in force, so all the failures it counts began within  *)
(* one window before now.                                                   *)
LEMMA BeginKeepsInv ==
  ASSUME NEW o \in Logins, NEW p \in Consoles, AdminIInv, BeginLogin(o, p)
  PROVE  AdminIInv'
  <1> USE AdminAssumption DEF BeginLogin
  <1> DEFINE c == AttemptsNow(p)
  <1>1. attempts[p] \in Counts /\ adminClock \in Times /\ adminClock \in Nat
        BY DEF AdminIInv, AdminTypeOK, Times
  <1>2. c \in Counts /\ c.startedAt <= adminClock /\ adminClock - c.startedAt < AttemptWindow
    <2>1. [startedAt |-> adminClock, count |-> 0] \in Counts
          BY <1>1 DEF Counts
    <2> QED
        BY <1>1, <2>1 DEF AttemptsNow, AdminIInv, Counts
  <1>3. CountOK(p, c)
    <2>1. CASE c = attempts[p]
          BY <2>1 DEF AdminIInv
    <2>2. CASE c.count = 0
          BY <2>2, NothingCounted
    <2> QED
        BY <2>1, <2>2 DEF AttemptsNow
  <1>4. FailuresSince(p, c.startedAt) \subseteq RecentFailures(p, adminClock)
    <2> SUFFICES ASSUME NEW x \in FailuresSince(p, c.startedAt)
                 PROVE  x \in RecentFailures(p, adminClock)
        OBVIOUS
    <2>1. x \in Times \X (1..MaxFailures) /\ c.startedAt <= x[1] /\ x[2] <= failures[p][x[1]]
          BY DEF FailuresSince
    <2>2. x[1] \in Times /\ x[1] \in Nat /\ x[2] \in Nat /\ x[2] > 0
          BY <2>1 DEF Times
    <2>3. x[1] <= adminClock
          BY <1>1, <2>1, <2>2 DEF AdminIInv
    <2> QED
        BY <1>1, <1>2, <2>1, <2>2, <2>3 DEF RecentFailures, Counts
  <1>5. Cardinality(FailuresSince(p, c.startedAt)) <= Cardinality(RecentFailures(p, adminClock))
        /\ Cardinality(FailuresSince(p, c.startedAt)) \in Nat
        /\ Cardinality(RecentFailures(p, adminClock)) \in Nat
        BY <1>4, FailuresArePairs, MoreIsCounted
  <1> DEFINE q == [step |-> IF c.count >= AttemptLimit THEN "limited" ELSE "hashing",
                   from |-> p, at |-> adminClock, read |-> c]
  <1>6. q \in Hashing \cup Limited
        BY <1>1, <1>2 DEF Hashing, Limited
  <1>7. LoginOK(q)
    <2>1. CASE c.count >= AttemptLimit
      <3>1. Cardinality(RecentFailures(p, adminClock)) >= AttemptLimit
            BY <1>2, <1>3, <1>5, <2>1 DEF CountOK, Counts
      <3> QED
          BY <2>1, <3>1 DEF LoginOK
    <2>2. CASE ~(c.count >= AttemptLimit)
          BY <1>1, <1>2, <1>3, <2>2 DEF LoginOK
    <2> QED
        BY <2>1, <2>2
  <1>8. login' = [login EXCEPT ![o] = q]
        OBVIOUS
  <1> HIDE DEF q
  <1> QED
      BY <1>6, <1>7, <1>8, QuietKeepsInv DEF AdminIInv, AdminTypeOK

(* The failure that is added is one more than those the stored count, which *)
(* is the count that was read, plus one, may claim.                         *)
LEMMA FailKeepsInv ==
  ASSUME NEW o \in Logins, AdminIInv, FailLogin(o)
  PROVE  AdminIInv'
  <1> USE AdminAssumption DEF FailLogin
  <1> DEFINE q == login[o]
  <1> DEFINE p == q.from
  <1> DEFINE n == failures[p][q.at] + 1
  <1>1. q \in Hashing /\ LoginOK(q) /\ q.step = "hashing"
        BY DEF AdminIInv, AdminTypeOK, NoLogin, Limited
  <1>2. p \in Consoles /\ q.at \in Times /\ q.at \in Nat /\ q.read \in Counts
        BY <1>1 DEF Hashing, Times
  <1>3. failures \in [Consoles -> [Times -> Nat]] /\ failures[p][q.at] \in Nat
        /\ attempts \in [Consoles -> Counts] /\ adminClock \in Nat
        BY <1>2 DEF AdminIInv, AdminTypeOK, Times
  <1>4. failures' = [failures EXCEPT ![p][q.at] = n] /\ n \in 1..MaxFailures
        BY <1>2, <1>3
  <1>5. \A r \in Consoles, t \in Times :
          failures'[r][t] = IF r = p /\ t = q.at THEN n ELSE failures[r][t]
        BY <1>2, <1>3, <1>4
  <1>6. failures' \in [Consoles -> [Times -> Nat]]
        BY <1>2, <1>3, <1>4
  <1>7. UNCHANGED <<adminClock>> /\ login' = [login EXCEPT ![o] = NoLogin]
        /\ attempts' = [attempts EXCEPT ![p] = [q.read EXCEPT !.count = @ + 1]]
        OBVIOUS
  <1> DEFINE c == [q.read EXCEPT !.count = @ + 1]
  <1>8. c \in Counts /\ c.count = q.read.count + 1 /\ c.startedAt = q.read.startedAt
        BY <1>2 DEF Counts
  <1> HIDE DEF n
  <1>9. /\ \A r \in Consoles, d \in Counts : CountOK(r, d) => CountOK(r, d)'
        /\ \A x \in {NoLogin} \cup Hashing \cup Limited : LoginOK(x) => LoginOK(x)'
    <2>1. \A r \in Consoles, t \in Times : failures'[r][t] \in Nat /\ failures[r][t] <= failures'[r][t]
          BY <1>3, <1>5, <1>6 DEF n
    <2> QED
        BY <1>3, <1>7, <2>1, FailuresGrow
  <1>10. \A s, r : r = p /\ s = q.read.startedAt =>
           Cardinality(FailuresSince(r, s)) + 1 <= Cardinality(FailuresSince(r, s)')
    <2> TAKE s, r
    <2> SUFFICES ASSUME r = p, s = q.read.startedAt
                 PROVE  Cardinality(FailuresSince(r, s)) + 1 <= Cardinality(FailuresSince(r, s)')
        OBVIOUS
    <2> DEFINE S == FailuresSince(r, s)
    <2> DEFINE y == <<q.at, n>>
    <2>1. S \subseteq Pairs /\ FailuresSince(r, s)' \subseteq Pairs
          BY DEF FailuresSince, Pairs
    <2>2. s <= q.at /\ r \in Consoles
          BY <1>1, <1>2, SMTT(30) DEF LoginOK
    <2>3. y \in FailuresSince(r, s)' /\ y \notin S
          BY <1>2, <1>3, <1>4, <1>5, <2>2 DEF FailuresSince, n
    <2>4. S \subseteq FailuresSince(r, s)'
          BY <1>3, <1>5, <2>2 DEF FailuresSince, n
    <2>5. IsFiniteSet(S)
          BY <2>1, MoreIsCounted
    <2>6. Cardinality(S \cup {y}) = Cardinality(S) + 1
          BY <2>3, <2>5, FS_AddElement
    <2>7. S \cup {y} \subseteq FailuresSince(r, s)'
          BY <2>3, <2>4
    <2> HIDE DEF S, y
    <2>8. Cardinality(S \cup {y}) <= Cardinality(FailuresSince(r, s)')
          BY <2>1, <2>7, MoreIsCounted
    <2> QED
        BY <2>6, <2>8 DEF S
  <1>11. CountOK(p, q.read) /\ q.read.startedAt <= adminClock
        BY <1>1, <1>2, <1>3 DEF LoginOK, Counts
  <1>12. \A r : r = p => CountOK(r, attempts[r])'
    <2> TAKE r
    <2> SUFFICES ASSUME r = p PROVE CountOK(r, attempts[r])'
        OBVIOUS
    <2>1. attempts'[r] = c
          BY <1>2, <1>3, <1>7
    <2>2. PICK s : s = q.read.startedAt
          OBVIOUS
    <2>3. Cardinality(FailuresSince(r, s)) + 1 <= Cardinality(FailuresSince(r, s)')
          BY <1>10, <2>2
    <2>4. q.read.count <= Cardinality(FailuresSince(r, s))
          BY <1>11, <2>2 DEF CountOK
    <2>5. Cardinality(FailuresSince(r, s)) \in Nat /\ Cardinality(FailuresSince(r, s)') \in Nat
          BY MoreIsCounted DEF FailuresSince, Pairs
    <2>6. c.count <= Cardinality(FailuresSince(r, s)') /\ c.startedAt = s
          BY <1>2, <1>8, <2>2, <2>3, <2>4, <2>5 DEF Counts
    <2> QED
        BY <2>1, <2>6 DEF CountOK
  <1>13. \A r \in Consoles : CountOK(r, attempts[r])' /\ attempts'[r].startedAt <= adminClock'
        BY <1>3, <1>7, <1>8, <1>9, <1>11, <1>12, ZenonT(40) DEF AdminIInv, AdminTypeOK
  <1>14. \A x \in Logins : LoginOK(login[x])'
    <2>1. LoginOK(NoLogin) /\ NoLogin \in {NoLogin}
          BY DEF LoginOK, NoLogin
    <2> QED
        BY <1>7, <1>9, <2>1 DEF AdminIInv, AdminTypeOK
  <1>15. AdminTypeOK'
        BY <1>3, <1>6, <1>7, <1>8, <1>2 DEF AdminIInv, AdminTypeOK
  <1>16. \A r \in Consoles, t \in Times :
           failures'[r][t] <= MaxFailures /\ (t > adminClock' => failures'[r][t] = 0)
        BY <1>1, <1>2, <1>3, <1>4, <1>5, <1>7 DEF AdminIInv, LoginOK
  <1> QED
      BY <1>13, <1>14, <1>15, <1>16 DEF AdminIInv

LEMMA AdminNextInv == AdminIInv /\ [AdminNext]_adminVars => AdminIInv'
  <1> SUFFICES ASSUME AdminIInv, [AdminNext]_adminVars PROVE AdminIInv'
      OBVIOUS
  <1>1. NoLogin \in {NoLogin} /\ LoginOK(NoLogin)
        BY DEF LoginOK, NoLogin
  <1>2. \A p : NoAttempts \in Counts /\ CountOK(p, NoAttempts) /\ NoAttempts.startedAt = 0
        BY NothingCounted DEF NoAttempts, Counts
  <1>3. adminClock \in Nat
        BY AdminAssumption DEF AdminIInv, AdminTypeOK, Times
  <1>4. CASE UNCHANGED <<adminClock, failures, attempts, login>>
        BY <1>4, QuietKeepsInv DEF AdminIInv, AdminTypeOK
  <1>5. CASE RestartApi
        BY <1>1, <1>2, <1>3, <1>5, QuietKeepsInv DEF RestartApi, AdminIInv, AdminTypeOK
  <1>6. ASSUME NEW o \in Logins, CompleteLogin(o) PROVE AdminIInv'
    <2>1. /\ attempts' = [attempts EXCEPT ![login[o].from] = NoAttempts]
          /\ login' = [login EXCEPT ![o] = NoLogin]
          /\ UNCHANGED <<adminClock, failures>>
          BY <1>6 DEF CompleteLogin
    <2>2. attempts' \in [Consoles -> Counts] /\ login' \in [Logins -> {NoLogin} \cup Hashing \cup Limited]
          BY <1>1, <1>2, <2>1 DEF AdminIInv, AdminTypeOK
    <2>3. \A p \in Consoles : attempts'[p] \in {attempts[p], NoAttempts}
          BY <2>1 DEF AdminIInv, AdminTypeOK
    <2>4. \A p \in Consoles : CountOK(p, attempts'[p]) /\ attempts'[p].startedAt <= adminClock
          BY <1>2, <1>3, <2>3 DEF AdminIInv
    <2>5. \A x \in Logins : LoginOK(login'[x])
          BY <1>1, <2>1 DEF AdminIInv, AdminTypeOK
    <2> QED
        BY <2>1, <2>2, <2>4, <2>5, QuietKeepsInv
  <1> QED
      BY <1>4, <1>5, <1>6, AdminTickKeepsInv, BeginKeepsInv, FailKeepsInv
      DEF AdminNext, adminVars, EndSession

(* POST /v1/admin/session: of any number of logins that overlap, one is     *)
(* refused only if the limit of failures of its address began within one    *)
(* window before it: late counts never shut out who did not fail.           *)
THEOREM LockoutIsEarned == AdminSpec => []LockoutJustified
  <1>1. AdminIInv => LockoutJustified
        BY DEF AdminIInv, LoginOK, LockoutJustified
  <1> QED
      BY <1>1, AdminInitInv, AdminNextInv, PTL DEF AdminSpec

-----------------------------------------------------------------------------
(* Plans, keys and quota.                                                   *)
USE LimitsAssumption

LEMMA InitHolds == LimitsInit => LimitsIInv
  <1> SUFFICES ASSUME LimitsInit
               PROVE  LimitsIInv
    OBVIOUS
  <1>1. ActiveKeys = {} /\ Putting("put-key") = {} /\ Putting("put-rule") = {}
    BY DEF LimitsInit, ActiveKeys, Putting
  <1>2. Cardinality(Creators) \in Nat
    BY FS_CardinalityType
  <1>3. rules = {} /\ Cardinality({}) = 0
    BY FS_EmptySet DEF LimitsInit
  <1>4. OvershootBounded
    BY <1>1, <1>2, <1>3 DEF OvershootBounded
  <1>5. LimitsTypeOK /\ PlanRead /\ Unused /\ Authenticated
    BY DEF LimitsInit, LimitsTypeOK, PlanRead, Unused, Authenticated, Months
  <1>6. EveryRequestMetered
    BY DEF LimitsInit, EveryRequestMetered, Least
  <1> QED
    BY <1>4, <1>5, <1>6 DEF LimitsIInv

(* An allowance spent, or a request counted, is one more in one place.      *)
LEMMA Counting ==
    ASSUME NEW f \in [Keys -> [Months -> Nat]], NEW k \in Keys, NEW m \in Months
    PROVE  /\ Add(f, k, m) \in [Keys -> [Months -> Nat]]
           /\ Add(f, k, m)[k][m] = f[k][m] + 1
           /\ \A l \in Keys, n \in Months :
                l # k \/ n # m => Add(f, k, m)[l][n] = f[l][n]
  BY DEF Add

LEMMA ConsumeFacts ==
    ASSUME LimitsTypeOK, NEW r \in Requests, request[r] # Idle
    PROVE  /\ request[r] = <<request[r][1], request[r][2]>>
           /\ request[r][1] \in Keys /\ request[r][2] \in Months
  BY DEF LimitsTypeOK, Idle

LEMMA TypeStep ==
    ASSUME LimitsIInv, [LimitsNext]_limitsVars
    PROVE  LimitsTypeOK'
  <1> USE DEF LimitsIInv, LimitsTypeOK, items, meter
  <1>1. CASE UNCHANGED limitsVars
    BY <1>1 DEF limitsVars
  <1>2. CASE ChangePlan
    BY <1>2 DEF ChangePlan
  <1>3. CASE NextMonth
    <2>1. month' \in Months
      BY <1>3 DEF NextMonth, Months
    <2> QED
      BY <1>3, <2>1 DEF NextMonth
  <1>4. ASSUME NEW c \in Creators, ReadPlan(c)
        PROVE  LimitsTypeOK'
    BY <1>4 DEF ReadPlan, Proceed
  <1>5. ASSUME NEW c \in Creators, Count(c) \/ Refuse(c)
        PROVE  LimitsTypeOK'
    BY <1>5 DEF Count, Refuse, Proceed
  <1>6. ASSUME NEW c \in Creators, PutKey(c)
        PROVE  LimitsTypeOK'
    <2>1. read[c] \in Plans
      BY <1>6 DEF PutKey, Proceed, PlanRead
    <2> QED
      BY <1>6, <2>1 DEF PutKey, Proceed
  <1>7. ASSUME NEW c \in Creators, PutRule(c) \/ AbandonCreation(c)
        PROVE  LimitsTypeOK'
    BY <1>7 DEF PutRule, AbandonCreation, Proceed
  <1>8. ASSUME NEW k \in Keys, Revoke(k)
        PROVE  LimitsTypeOK'
    BY <1>8 DEF Revoke
  <1>9. ASSUME NEW k \in Keys, NEW r \in Requests, AuthenticateKey(r, k)
        PROVE  LimitsTypeOK'
    BY <1>9 DEF AuthenticateKey
  <1>10. ASSUME NEW r \in Requests, Consume(r)
         PROVE  LimitsTypeOK'
    <2>1. request[r][1] \in Keys /\ request[r][2] \in Months
      BY <1>10, ConsumeFacts DEF Consume
    <2> DEFINE k == request[r][1]
    <2> DEFINE m == request[r][2]
    <2>2. \A f \in [Keys -> [Months -> Nat]] : Add(f, k, m) \in [Keys -> [Months -> Nat]]
      BY <2>1, Counting
    <2>3. /\ usage' = Add(usage, k, m)
          /\ granted' \in {granted, Add(granted, k, m)}
          /\ dropped' \in {dropped, Add(dropped, k, m)}
      BY <1>10 DEF Consume
    <2>4. /\ usage' \in [Keys -> [Months -> Nat]]
          /\ granted' \in [Keys -> [Months -> Nat]]
          /\ dropped' \in [Keys -> [Months -> Nat]]
      <3> HIDE DEF k, m
      <3> QED
        BY <2>2, <2>3
    <2>5. lost' \in 0..MaxLost
      BY <1>10 DEF Consume
    <2> QED
      BY <1>10, <2>4, <2>5 DEF Consume
  <1> QED
    BY <1>1, <1>2, <1>3, <1>4, <1>5, <1>6, <1>7, <1>8, <1>9, <1>10 DEF LimitsNext

-----------------------------------------------------------------------------
(* The limits.                                                              *)

LEMMA Handlers ==
    ASSUME NEW T \in SUBSET Creators
    PROVE  /\ IsFiniteSet(T) /\ Cardinality(T) \in Nat
           /\ Cardinality(T) <= Cardinality(Creators)
  BY FS_Subset, FS_CardinalityType

LEMMA Finite ==
    ASSUME LimitsTypeOK
    PROVE  /\ IsFiniteSet(ActiveKeys) /\ Cardinality(ActiveKeys) \in Nat
           /\ IsFiniteSet(rules) /\ Cardinality(rules) \in Nat
           /\ Cardinality(Creators) \in Nat
           /\ \A kind : /\ IsFiniteSet(Putting(kind))
                        /\ Cardinality(Putting(kind)) \in Nat
                        /\ Cardinality(Putting(kind)) <= Cardinality(Creators)
  <1>1. IsFiniteSet(ActiveKeys) /\ IsFiniteSet(rules)
    BY FS_Subset DEF LimitsTypeOK, ActiveKeys
  <1>2. ASSUME NEW kind
        PROVE  IsFiniteSet(Putting(kind))
               /\ Cardinality(Putting(kind)) <= Cardinality(Creators)
    <2>1. Putting(kind) \in SUBSET Creators
      BY DEF Putting
    <2> QED
      BY <2>1, Handlers
  <1> QED
    BY <1>1, <1>2, FS_CardinalityType

(* What is put leaves the handlers and joins the rows.                      *)
LEMMA Moves ==
    ASSUME NEW A, NEW B, IsFiniteSet(A), IsFiniteSet(B), NEW a, a \notin A,
           NEW b \in B
    PROVE  Cardinality(A \cup {a}) + Cardinality(B \ {b})
             = Cardinality(A) + Cardinality(B)
  <1>1. Cardinality(A) \in Nat /\ Cardinality(B) \in Nat
    BY FS_CardinalityType
  <1>2. Cardinality(A \cup {a}) = Cardinality(A) + 1
    BY FS_AddElement
  <1>3. Cardinality(B \ {b}) = Cardinality(B) - 1
    BY FS_RemoveElement
  <1> QED
    BY <1>1, <1>2, <1>3

(* Nothing more than before, in the rows and in the handlers.               *)
LEMMA NoMore ==
    ASSUME LimitsIInv, LimitsTypeOK', ActiveKeys' \subseteq ActiveKeys, UNCHANGED rules,
           Putting("put-key")' \subseteq Putting("put-key"),
           Putting("put-rule")' \subseteq Putting("put-rule")
    PROVE  OvershootBounded'
  <1>1. /\ Cardinality(ActiveKeys') <= Cardinality(ActiveKeys)
        /\ Cardinality(Putting("put-key")') <= Cardinality(Putting("put-key"))
        /\ Cardinality(Putting("put-rule")') <= Cardinality(Putting("put-rule"))
    BY Finite, FS_Subset DEF LimitsIInv
  <1>2. /\ Cardinality(ActiveKeys') \in Nat
        /\ Cardinality(Putting("put-key")') \in Nat
        /\ Cardinality(Putting("put-rule")') \in Nat
    <2>1. IsFiniteSet(ActiveKeys')
      BY Finite, FS_Subset DEF LimitsIInv
    <2>2. /\ Putting("put-key")' \in SUBSET Creators
          /\ Putting("put-rule")' \in SUBSET Creators
      BY DEF Putting
    <2> QED
      BY <2>1, <2>2, Handlers, FS_CardinalityType
  <1> QED
    BY <1>1, <1>2, Finite DEF LimitsIInv, OvershootBounded

LEMMA LimitStep ==
    ASSUME LimitsIInv, LimitsTypeOK', [LimitsNext]_limitsVars
    PROVE  OvershootBounded'
  <1> USE DEF items, meter
  <1>t. LimitsTypeOK /\ OvershootBounded
    BY DEF LimitsIInv
  <1>1. CASE UNCHANGED <<status, rules, creation>>
    BY <1>1, NoMore DEF ActiveKeys, Putting
  <1>2. ASSUME NEW c \in Creators, ReadPlan(c) \/ Refuse(c) \/ AbandonCreation(c)
        PROVE  OvershootBounded'
    <2>1. UNCHANGED <<status, rules>>
      BY <1>2 DEF ReadPlan, Refuse, AbandonCreation
    <2>2. \E to \in {"off", "key", "rule"} :
            creation' = [creation EXCEPT ![c] = to]
      BY <1>2 DEF ReadPlan, Refuse, AbandonCreation, Proceed
    <2>3. \A kind \in {"put-key", "put-rule"} : Putting(kind)' \subseteq Putting(kind)
      BY <2>2, <1>t DEF Putting, LimitsTypeOK
    <2> QED
      BY <2>1, <2>3, NoMore DEF ActiveKeys
  <1>3. ASSUME NEW c \in Creators, Count(c)
        PROVE  OvershootBounded'
    <2>1. ActiveKeys' = ActiveKeys /\ rules' = rules
      BY <1>3 DEF Count, ActiveKeys
    <2>2. /\ Cardinality(Putting("put-key")') \in Nat
          /\ Cardinality(Putting("put-key")') <= Cardinality(Creators)
          /\ Cardinality(Putting("put-rule")') \in Nat
          /\ Cardinality(Putting("put-rule")') <= Cardinality(Creators)
      <3>1. /\ Putting("put-key")' \in SUBSET Creators
            /\ Putting("put-rule")' \in SUBSET Creators
        BY DEF Putting
      <3> QED
        BY <3>1, Handlers
    <2>3. read[c] \in Plans
      BY <1>3 DEF Count, Proceed, LimitsIInv, PlanRead
    <2>4. CASE Proceed(c, "key", "put-key") /\ Cardinality(ActiveKeys) < KeyLimit[read[c]]
      <3>1. Putting("put-rule")' = Putting("put-rule")
        BY <2>4, <1>t DEF Putting, Proceed, LimitsTypeOK
      <3>2. Cardinality(ActiveKeys) < MaxKeys
        BY <2>3, <2>4, <1>t, Finite
      <3> QED
        BY <2>1, <2>2, <3>1, <3>2, <1>t, Finite DEF OvershootBounded
    <2>5. CASE Proceed(c, "rule", "put-rule") /\ Cardinality(rules) < RuleLimit[read[c]]
      <3>1. Putting("put-key")' = Putting("put-key")
        BY <2>5, <1>t DEF Putting, Proceed, LimitsTypeOK
      <3>2. Cardinality(rules) < MaxRules
        BY <2>3, <2>5, <1>t, Finite
      <3> QED
        BY <2>1, <2>2, <3>1, <3>2, <1>t, Finite DEF OvershootBounded
    <2> QED
      BY <1>3, <2>4, <2>5 DEF Count
  <1>4. ASSUME NEW c \in Creators, PutKey(c)
        PROVE  OvershootBounded'
    <2>1. PICK k \in Keys : status[k] = "absent"
                            /\ status' = [status EXCEPT ![k] = "active"]
      BY <1>4 DEF PutKey
    <2>2. ActiveKeys' = ActiveKeys \cup {k} /\ k \notin ActiveKeys /\ rules' = rules
      BY <1>4, <2>1, <1>t DEF PutKey, ActiveKeys, LimitsTypeOK
    <2>3. /\ c \in Putting("put-key")
          /\ Putting("put-key")' = Putting("put-key") \ {c}
          /\ Putting("put-rule")' = Putting("put-rule")
      BY <1>4, <1>t DEF PutKey, Proceed, Putting, LimitsTypeOK
    <2>4. Cardinality(ActiveKeys') + Cardinality(Putting("put-key")')
            = Cardinality(ActiveKeys) + Cardinality(Putting("put-key"))
      BY <2>2, <2>3, <1>t, Finite, Moves
    <2> QED
      BY <2>2, <2>3, <2>4, <1>t DEF OvershootBounded
  <1>5. ASSUME NEW c \in Creators, PutRule(c)
        PROVE  OvershootBounded'
    <2>1. PICK q \in Rules \ rules : rules' = rules \cup {q}
      BY <1>5 DEF PutRule
    <2>2. ActiveKeys' = ActiveKeys
      BY <1>5 DEF PutRule, ActiveKeys
    <2>3. /\ c \in Putting("put-rule")
          /\ Putting("put-rule")' = Putting("put-rule") \ {c}
          /\ Putting("put-key")' = Putting("put-key")
      BY <1>5, <1>t DEF PutRule, Proceed, Putting, LimitsTypeOK
    <2>4. Cardinality(rules') + Cardinality(Putting("put-rule")')
            = Cardinality(rules) + Cardinality(Putting("put-rule"))
      BY <2>1, <2>3, <1>t, Finite, Moves
    <2> QED
      BY <2>2, <2>3, <2>4, <1>t DEF OvershootBounded
  <1>6. ASSUME NEW k \in Keys, Revoke(k)
        PROVE  OvershootBounded'
    <2>1. ActiveKeys' \subseteq ActiveKeys
      BY <1>6, <1>t DEF Revoke, ActiveKeys, LimitsTypeOK
    <2>2. Putting("put-key")' = Putting("put-key")
          /\ Putting("put-rule")' = Putting("put-rule") /\ rules' = rules
      BY <1>6 DEF Revoke, Putting
    <2> QED
      BY <2>1, <2>2, NoMore
  <1> QED
    BY <1>1, <1>2, <1>3, <1>4, <1>5, <1>6
    DEF LimitsNext, limitsVars, ChangePlan, NextMonth, AuthenticateKey, Consume

-----------------------------------------------------------------------------
(* The meter.                                                               *)

LEMMA MeterStep ==
    ASSUME LimitsIInv, LimitsTypeOK', [LimitsNext]_limitsVars
    PROVE  EveryRequestMetered'
  <1> USE DEF items, meter
  <1>t. LimitsTypeOK /\ EveryRequestMetered /\ Unused /\ LimitsTypeOK'
    BY DEF LimitsIInv
  <1>1. CASE UNCHANGED <<usage, quota, granted, dropped>>
    BY <1>1, <1>t DEF EveryRequestMetered
  <1>2. ASSUME NEW c \in Creators, PutKey(c)
        PROVE  EveryRequestMetered'
    <2>1. PICK k \in Keys : status[k] = "absent"
                            /\ quota' = [quota EXCEPT ![k] = Quota[read[c]]]
      BY <1>2 DEF PutKey
    <2>2. UNCHANGED <<usage, granted, dropped>>
      BY <1>2 DEF PutKey
    <2> SUFFICES ASSUME NEW l \in Keys, NEW m \in Months
                 PROVE  granted'[l][m] + dropped'[l][m] = Least(usage'[l][m], quota'[l])
      BY DEF EveryRequestMetered
    <2>3. granted[l][m] + dropped[l][m] = Least(usage[l][m], quota[l])
      BY <1>t DEF EveryRequestMetered
    <2>4. quota[l] \in Nat /\ quota'[l] \in Nat
      BY <1>t DEF LimitsTypeOK
    <2>5. CASE l = k
      <3>1. usage[l][m] = 0
        BY <2>1, <2>5, <1>t DEF Unused
      <3> QED
        BY <2>2, <2>3, <2>4, <3>1 DEF Least
    <2>6. CASE l # k
      BY <2>1, <2>2, <2>3, <2>6, <1>t DEF LimitsTypeOK
    <2> QED
      BY <2>5, <2>6
  <1>3. ASSUME NEW r \in Requests, Consume(r)
        PROVE  EveryRequestMetered'
    <2> DEFINE k == request[r][1]
    <2> DEFINE m == request[r][2]
    <2>1. k \in Keys /\ m \in Months
      BY <1>3, <1>t, ConsumeFacts DEF Consume
    <2>2. /\ quota' = quota /\ usage' = Add(usage, k, m)
          /\ IF usage[k][m] + 1 > quota[k]
             THEN UNCHANGED <<granted, dropped>>
             ELSE \/ granted' = Add(granted, k, m) /\ UNCHANGED dropped
                  \/ dropped' = Add(dropped, k, m) /\ UNCHANGED granted
      BY <1>3 DEF Consume
    <2> SUFFICES ASSUME NEW l \in Keys, NEW n \in Months
                 PROVE  granted'[l][n] + dropped'[l][n] = Least(usage'[l][n], quota'[l])
      BY DEF EveryRequestMetered
    <2>3. granted[l][n] + dropped[l][n] = Least(usage[l][n], quota[l])
      BY <1>t DEF EveryRequestMetered
    <2>4. /\ quota[l] \in Nat /\ usage[l][n] \in Nat
          /\ granted[l][n] \in Nat /\ dropped[l][n] \in Nat
      BY <1>t DEF LimitsTypeOK
    <2> HIDE DEF k, m
    <2>5. \A f \in {usage, granted, dropped} : f \in [Keys -> [Months -> Nat]]
      BY <1>t DEF LimitsTypeOK
    <2>6. \A f \in {usage, granted, dropped} :
            IF l = k /\ n = m THEN Add(f, k, m)[l][n] = f[l][n] + 1
                              ELSE Add(f, k, m)[l][n] = f[l][n]
      <3> SUFFICES ASSUME NEW f \in [Keys -> [Months -> Nat]]
                   PROVE  IF l = k /\ n = m THEN Add(f, k, m)[l][n] = f[l][n] + 1
                                            ELSE Add(f, k, m)[l][n] = f[l][n]
        BY <2>5
      <3> QED
        BY <2>1, Counting
    <2>7. CASE l # k \/ n # m
      <3>1. usage'[l][n] = usage[l][n]
        BY <2>2, <2>7, <2>6
      <3>2. granted'[l][n] = granted[l][n] /\ dropped'[l][n] = dropped[l][n]
        BY <2>2, <2>7, <2>6
      <3> QED
        BY <2>2, <2>3, <3>1, <3>2
    <2>8. CASE l = k /\ n = m
      <3>1. usage'[l][n] = usage[l][n] + 1
        BY <2>2, <2>8, <2>6
      <3>2. IF usage[l][n] + 1 > quota[l]
            THEN granted'[l][n] + dropped'[l][n] = granted[l][n] + dropped[l][n]
            ELSE granted'[l][n] + dropped'[l][n] = granted[l][n] + dropped[l][n] + 1
        <4>1. Add(granted, k, m)[l][n] = granted[l][n] + 1
              /\ Add(dropped, k, m)[l][n] = dropped[l][n] + 1
          BY <2>8, <2>6
        <4> QED
          BY <2>2, <2>4, <2>8, <4>1
      <3> QED
        BY <2>2, <2>3, <2>4, <3>1, <3>2 DEF Least
    <2> QED
      BY <2>7, <2>8
  <1> QED
    BY <1>1, <1>2, <1>3 DEF LimitsNext, limitsVars, ChangePlan, NextMonth, AuthenticateKey, Revoke,
      ReadPlan, Count, Refuse, PutRule, AbandonCreation

(* A row of a key is never taken back: its usage and its requests keep it.  *)
LEMMA RestStep ==
    ASSUME LimitsIInv, LimitsTypeOK', [LimitsNext]_limitsVars
    PROVE  PlanRead' /\ Unused' /\ Authenticated'
  <1> USE DEF items, meter
  <1>t. LimitsTypeOK /\ PlanRead /\ Unused /\ Authenticated
    BY DEF LimitsIInv
  <1>1. PlanRead'
    <2>1. CASE UNCHANGED <<creation, read>>
      BY <2>1, <1>t DEF PlanRead
    <2>2. ASSUME NEW c \in Creators, ReadPlan(c)
          PROVE  PlanRead'
      BY <2>2, <1>t DEF PlanRead, ReadPlan, Proceed, LimitsTypeOK
    <2>3. ASSUME NEW c \in Creators,
                 Count(c) \/ Refuse(c) \/ PutKey(c) \/ PutRule(c) \/ AbandonCreation(c)
          PROVE  PlanRead'
      <3>1. read' = read /\ creation[c] # "off"
        BY <2>3 DEF Count, Refuse, PutKey, PutRule, AbandonCreation, Proceed
      <3>2. \A d \in Creators \ {c} : creation'[d] = creation[d]
        BY <2>3, <1>t DEF Count, Refuse, PutKey, PutRule, AbandonCreation, Proceed, LimitsTypeOK
      <3> QED
        BY <3>1, <3>2, <1>t DEF PlanRead
    <2> QED
      BY <2>1, <2>2, <2>3 DEF LimitsNext, limitsVars, ChangePlan, NextMonth, AuthenticateKey, Consume, Revoke
  <1>2. \A k \in Keys : status'[k] = "absent" => status[k] = "absent"
    BY <1>t DEF LimitsTypeOK, LimitsNext, limitsVars, ChangePlan, NextMonth, AuthenticateKey, Consume,
      Revoke, ReadPlan, Count, Refuse, PutKey, PutRule, AbandonCreation
  <1>3. ASSUME NEW r \in Requests, Consume(r)
        PROVE  Unused' /\ Authenticated'
    <2>1. /\ request[r][1] \in Keys /\ request[r][2] \in Months
          /\ status[request[r][1]] # "absent"
      BY <1>3, <1>t, ConsumeFacts DEF Consume, Authenticated
    <2>2. \A k \in Keys \ {request[r][1]} : usage'[k] = usage[k]
      BY <1>3, <2>1, <1>t DEF Consume, Add, LimitsTypeOK
    <2>3. request' = [request EXCEPT ![r] = Idle] /\ status' = status
      BY <1>3 DEF Consume
    <2> QED
      BY <2>1, <2>2, <2>3, <1>t DEF Unused, Authenticated, LimitsTypeOK
  <1>4. ASSUME NEW r \in Requests, NEW k \in Keys, AuthenticateKey(r, k)
        PROVE  Unused' /\ Authenticated'
    BY <1>4, <1>t DEF AuthenticateKey, Unused, Authenticated, LimitsTypeOK
  <1>5. CASE UNCHANGED <<usage, request>>
    <2>1. Unused'
      BY <1>2, <1>5, <1>t DEF Unused
    <2>2. \A r \in Requests : request[r] # Idle => request[r][1] \in Keys
      BY <1>t, ConsumeFacts
    <2>3. ASSUME NEW r \in Requests, request'[r] # Idle
          PROVE  status'[request'[r][1]] # "absent"
      <3>1. request[r][1] \in Keys /\ status[request[r][1]] # "absent"
        BY <1>5, <2>2, <2>3, <1>t DEF Authenticated
      <3> QED
        BY <1>2, <1>5, <3>1
    <2>4. Authenticated'
      BY <2>3, Zenon DEF Authenticated, Idle
    <2> QED
      BY <1>1, <2>1, <2>4
  <1> QED
    BY <1>1, <1>3, <1>4, <1>5 DEF LimitsNext, limitsVars, ChangePlan, NextMonth,
      Revoke, ReadPlan, Count, Refuse, PutKey, PutRule, AbandonCreation

-----------------------------------------------------------------------------
(* The inductive invariant holds in every reachable state.                  *)
THEOREM LimitsAreInductive == LimitsSpec => []LimitsIInv
  <1>1. LimitsIInv /\ [LimitsNext]_limitsVars => LimitsIInv'
    BY TypeStep, LimitStep, MeterStep, RestStep DEF LimitsIInv
  <1> QED
    BY InitHolds, <1>1, PTL DEF LimitsSpec

(* However many creations overlap, a wallet exceeds the limit of the most   *)
(* generous plan by fewer keys and rules than there were handlers.          *)
THEOREM OvershootIsBounded == LimitsSpec => []OvershootBounded
  <1>1. LimitsIInv => OvershootBounded
    BY DEF LimitsIInv
  <1> QED
    BY <1>1, LimitsAreInductive, PTL

(* Every unit of a month's allowance is spent by one request, and no        *)
(* request is let through beyond it.                                        *)
THEOREM MeterIsExact == LimitsSpec => []EveryRequestMetered
  <1>1. LimitsIInv => EveryRequestMetered
    BY DEF LimitsIInv
  <1> QED
    BY <1>1, LimitsAreInductive, PTL
=============================================================================
