-------------------------- MODULE WalletSessions --------------------------
(***************************************************************************)
(* Wallet authentication: WalletAuthService (packages/auth/src/index.ts)    *)
(* over the challenges and sessions of packages/workflows/src/index.ts, as  *)
(* the routes /v1/auth/... of apps/api/src/app.ts call it.  A handler reads *)
(* the clock once, when its request comes in, and then awaits statements of *)
(* the store; handlers interleave at every await, in one process or several.*)
(***************************************************************************)
EXTENDS Naturals

CONSTANTS
    Wallets,        \* addresses
    Challenges,     \* challenge ids there are to draw from
    Sessions,       \* session tokens there are to draw from
    Verifiers,      \* POST /v1/auth/verify being handled at a time
    Callers,        \* requests with a session token being handled at a time
    ChallengeLife,  \* ticks a challenge lasts (5 minutes)
    SessionLife,    \* ticks a session lasts (30 minutes)
    MaxAuthTime,    \* bound: the clock
    MaxAuthFaults   \* bound: handlers lost between two statements

ASSUME AuthAssumption ==
    /\ ChallengeLife \in Nat \ {0} /\ SessionLife \in Nat \ {0}
    /\ MaxAuthTime \in Nat /\ MaxAuthFaults \in Nat

VARIABLES
    authClock,
    challenge,   \* challenge[c]: the row of wallet_challenges
    session,     \* session[s]: the row of wallet_sessions
    verifier,    \* verifier[v]: request and progress of the handler v
    caller,      \* caller[r]: request and answer of the handler r
    authFaults

authVars == <<authClock, challenge, session, verifier, caller, authFaults>>

Absent == [state |-> "absent"]
Off == [step |-> "off"]

ChallengeRow == [state : {"issued", "consumed"}, wallet : Wallets, expires : Nat]
SessionRow == [state : {"live", "deleted"}, wallet : Wallets, expires : Nat,
               proof : Challenges]
Verification == [step : {"consume", "put"}, id : Challenges, wallet : Wallets,
                 at : Nat]
(* over: whether the session had ended when the request came in.            *)
Call == [step : {"asked"}, token : Sessions, at : Nat, over : BOOLEAN]
Answer == [step : {"served", "refused"}, over : BOOLEAN]

AuthInit ==
    /\ authClock = 0
    /\ challenge = [c \in Challenges |-> Absent]
    /\ session = [s \in Sessions |-> Absent]
    /\ verifier = [v \in Verifiers |-> Off]
    /\ caller = [r \in Callers |-> Off]
    /\ authFaults = 0

-----------------------------------------------------------------------------
AuthTick ==
    /\ authClock < MaxAuthTime
    /\ authClock' = authClock + 1
    /\ UNCHANGED <<challenge, session, verifier, caller, authFaults>>

(* challenge: a row with a fresh id, for whoever claims an address.         *)
IssueChallenge(c, w) ==
    /\ challenge[c] = Absent
    /\ challenge' = [challenge EXCEPT ![c] =
         [state |-> "issued", wallet |-> w, expires |-> authClock + ChallengeLife]]
    /\ UNCHANGED <<authClock, session, verifier, caller, authFaults>>

(* verify is called for a challenge, which may not exist, and an address.   *)
BeginVerify(v, c, w) ==
    /\ verifier[v].step = "off"
    /\ verifier' = [verifier EXCEPT ![v] =
         [step |-> "consume", id |-> c, wallet |-> w, at |-> authClock]]
    /\ UNCHANGED <<authClock, challenge, session, caller, authFaults>>

ConsumableTwice(c, at) ==    \* mutant: consumed_at is not looked at
    challenge[c] # Absent /\ challenge[c].expires > at

(* WHERE ... consumed_at IS NULL AND expires_at > at                        *)
Consumable(c, at) == challenge[c].state = "issued" /\ challenge[c].expires > at

(* consumeChallenge, one UPDATE; the challenge is spent by the attempt.     *)
ConsumeChallenge(v) ==
    LET q == verifier[v]
    IN /\ q.step = "consume"
       /\ \/ /\ Consumable(q.id, q.at)
             /\ challenge' = [challenge EXCEPT ![q.id].state = "consumed"]
             \* another wallet's challenge, or a proof that does not hold
             /\ \/ verifier' = [verifier EXCEPT ![v] = Off]
                \/ /\ challenge[q.id].wallet = q.wallet
                   /\ verifier' = [verifier EXCEPT ![v].step = "put"]
          \/ /\ ~Consumable(q.id, q.at)
             /\ verifier' = [verifier EXCEPT ![v] = Off]
             /\ UNCHANGED challenge
    /\ UNCHANGED <<authClock, session, caller, authFaults>>

(* putSession, under a fresh random token.                                  *)
PutSession(v) ==
    LET q == verifier[v]
    IN /\ q.step = "put"
       /\ \E s \in Sessions :
            /\ session[s] = Absent
            /\ session' = [session EXCEPT ![s] =
                 [state |-> "live", wallet |-> q.wallet,
                  expires |-> q.at + SessionLife, proof |-> q.id]]
       /\ verifier' = [verifier EXCEPT ![v] = Off]
    /\ UNCHANGED <<authClock, challenge, caller, authFaults>>

(* The handler is lost, or a statement throws.                              *)
AbandonVerify(v) ==
    /\ verifier[v].step # "off"
    /\ authFaults < MaxAuthFaults
    /\ authFaults' = authFaults + 1
    /\ verifier' = [verifier EXCEPT ![v] = Off]
    /\ UNCHANGED <<authClock, challenge, session, caller>>

(* The session was deleted, or its time is up.                              *)
Ended(s) ==
    \/ session[s].state = "deleted"
    \/ session[s].state = "live" /\ session[s].expires <= authClock

(* A request carries a token that was handed out.                           *)
BeginCall(r, s) ==
    /\ caller[r].step # "asked"
    /\ session[s] # Absent
    /\ caller' = [caller EXCEPT ![r] =
         [step |-> "asked", token |-> s, at |-> authClock, over |-> Ended(s)]]
    /\ UNCHANGED <<authClock, challenge, session, verifier, authFaults>>

FoundExpired(s, at) ==    \* mutant: expires_at is not looked at
    session[s].state = "live"

(* SELECT ... WHERE token_hash = ... AND expires_at > at                    *)
Found(s, at) == session[s].state = "live" /\ session[s].expires > at

(* authenticate, by sessionFor and requestHasFeature.                       *)
Authenticate(r) ==
    /\ caller[r].step = "asked"
    /\ caller' = [caller EXCEPT ![r] =
         [step |-> IF Found(@.token, @.at) THEN "served" ELSE "refused",
          over |-> @.over]]
    /\ UNCHANGED <<authClock, challenge, session, verifier, authFaults>>

(* logout: revokeSession, whatever the session's state.                     *)
Logout(s) ==
    /\ session[s] # Absent
    /\ session' = [session EXCEPT ![s].state = "deleted"]
    /\ UNCHANGED <<authClock, challenge, verifier, caller, authFaults>>

AuthNext ==
    \/ AuthTick
    \/ \E c \in Challenges, w \in Wallets :
         IssueChallenge(c, w) \/ \E v \in Verifiers : BeginVerify(v, c, w)
    \/ \E v \in Verifiers : ConsumeChallenge(v) \/ PutSession(v) \/ AbandonVerify(v)
    \/ \E s \in Sessions : Logout(s) \/ \E r \in Callers : BeginCall(r, s)
    \/ \E r \in Callers : Authenticate(r)

AuthSpec == AuthInit /\ [][AuthNext]_authVars

-----------------------------------------------------------------------------
(* The variables hold what the rows and the handlers can hold.              *)
AuthTypeOK ==
    /\ authClock \in Nat /\ authFaults \in Nat
    /\ challenge \in [Challenges -> {Absent} \cup ChallengeRow]
    /\ session \in [Sessions -> {Absent} \cup SessionRow]
    /\ verifier \in [Verifiers -> {Off} \cup Verification]
    /\ caller \in [Callers -> {Off} \cup Call \cup Answer]

Given(s) == session[s] # Absent

(* docs/production.md:80, "challenges are single-use": of the requests      *)
(* that bring the answer to one challenge, at once or in sequence, at most  *)
(* one obtains a session, whichever handlers are lost half way.             *)
OneSessionPerChallenge ==
    \A s, t \in Sessions :
      Given(s) /\ Given(t) /\ session[s].proof = session[t].proof => s = t

(* However long a statement waits, a session is of the wallet whose         *)
(* challenge was answered, and ends within a session's life of the moment   *)
(* the challenge expired.                                                   *)
SessionWithinChallenge ==
    \A s \in Sessions : Given(s) =>
      LET c == challenge[session[s].proof]
      IN /\ c.state = "consumed" /\ c.wallet = session[s].wallet
         /\ session[s].expires < c.expires + SessionLife

(* POST /v1/auth/logout and session(): a request that comes in after its    *)
(* session was logged out, or after its time was up, is refused, whatever   *)
(* requests and verifications it overlaps.                                  *)
EndedIsRefused ==
    \A r \in Callers : caller[r].step = "served" => ~caller[r].over

(* What carries the proofs: a handler about to store a session has consumed *)
(* its challenge in time, for the wallet it names, and alone.               *)
PutterOK(v) ==
    LET q == verifier[v] c == challenge[q.id]
    IN q.step = "put" =>
         /\ c.state = "consumed" /\ c.wallet = q.wallet /\ q.at < c.expires
         /\ \A s \in Sessions : Given(s) => session[s].proof # q.id
         /\ \A u \in Verifiers : verifier[u].step = "put" /\ verifier[u].id = q.id
              => u = v
CallerOK(r) ==
    LET q == caller[r]
    IN q.step = "asked" =>
         /\ Given(q.token) /\ q.at <= authClock
         /\ q.over => session[q.token].state = "deleted"
                      \/ session[q.token].expires <= q.at

(* The inductive invariant.                                                 *)
AuthIInv ==
    /\ AuthTypeOK /\ OneSessionPerChallenge /\ SessionWithinChallenge
    /\ EndedIsRefused
    /\ \A v \in Verifiers : PutterOK(v)
    /\ \A r \in Callers : CallerOK(r)
===========================================================================
