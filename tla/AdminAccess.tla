--------------------------- MODULE AdminAccess ----------------------------
(***************************************************************************)
(* Administrator logins and sessions: AdminSessionService                   *)
(* (packages/operations/src/index.ts) and the routes /v1/admin/session and  *)
(* /v1/admin/logout of apps/api/src/app.ts, in one API process, which keeps *)
(* both tables in memory.  A login awaits scrypt between reading the count  *)
(* of failed attempts and writing it.                                       *)
(***************************************************************************)
EXTENDS Naturals, FiniteSets

CONSTANTS
    Consoles,       \* request.ip of administrators
    Logins,         \* POST /v1/admin/session being handled at a time
    AdminTokens,    \* tokens there are to draw from
    AttemptLimit,   \* 5
    AttemptWindow,  \* windowMilliseconds, in ticks
    AdminLife,      \* ttlMilliseconds, in ticks
    MaxAdminTime,   \* bound: the clock
    MaxFailures     \* bound: failed logins of a console that begin in one tick

ASSUME AdminAssumption ==
    /\ AttemptLimit \in Nat \ {0} /\ AttemptWindow \in Nat \ {0}
    /\ AdminLife \in Nat \ {0} /\ MaxAdminTime \in Nat /\ MaxFailures \in Nat

VARIABLES
    adminClock,
    attempts,        \* attempts[p]: adminLoginAttempts, NoAttempts without an entry
    login,           \* login[o]: what the handler o has read, Idle when there is none
    adminSessions,   \* expiry of each token in the map
    issued,          \* tokens ever handed out
    failures         \* failures[p][t]: failed logins of p that began at t

adminVars == <<adminClock, attempts, login, adminSessions, issued, failures>>

NoAttempts == [startedAt |-> 0, count |-> 0]
NoLogin == [step |-> "off"]
Times == 0..MaxAdminTime

AdminInit ==
    /\ adminClock = 0
    /\ attempts = [p \in Consoles |-> NoAttempts]
    /\ login = [o \in Logins |-> NoLogin]
    /\ adminSessions = [t \in {} |-> 0]
    /\ issued = {}
    /\ failures = [p \in Consoles |-> [t \in Times |-> 0]]

-----------------------------------------------------------------------------
AdminTick ==
    /\ adminClock < MaxAdminTime
    /\ adminClock' = adminClock + 1
    /\ UNCHANGED <<attempts, login, adminSessions, issued, failures>>

AttemptsKept(p) == attempts[p]    \* mutant: an old window goes on

(* The attempts of the window in force, or of a new one.                    *)
AttemptsNow(p) ==
    IF attempts[p].count = 0 \/ adminClock - attempts[p].startedAt >= AttemptWindow
    THEN [startedAt |-> adminClock, count |-> 0] ELSE attempts[p]

(* Below the limit the password is hashed, which takes a while; at the      *)
(* limit the login is refused until the window is over.                     *)
BeginLogin(o, p) ==
    /\ login[o].step # "hashing"
    /\ login' = [login EXCEPT ![o] =
         [step |-> IF AttemptsNow(p).count >= AttemptLimit THEN "limited" ELSE "hashing",
          from |-> p, at |-> adminClock, read |-> AttemptsNow(p)]]
    /\ UNCHANGED <<adminClock, attempts, adminSessions, issued, failures>>

(* The password was wrong: the count that was read, plus one, is stored.    *)
FailLogin(o) ==
    /\ login[o].step = "hashing"
    /\ LET q == login[o]
       IN /\ failures[q.from][q.at] < MaxFailures
          /\ failures' = [failures EXCEPT ![q.from][q.at] = @ + 1]
          /\ attempts' = [attempts EXCEPT ![q.from] = [q.read EXCEPT !.count = @ + 1]]
    /\ login' = [login EXCEPT ![o] = NoLogin]
    /\ UNCHANGED <<adminClock, adminSessions, issued>>

SessionOf(t, expiry) ==
    [x \in DOMAIN adminSessions \cup {t} |-> IF x = t THEN expiry ELSE adminSessions[x]]

(* It was right: a session under a fresh token, and the count is dropped.   *)
CompleteLogin(o) ==
    /\ login[o].step = "hashing"
    /\ \E t \in AdminTokens \ issued :
         /\ adminSessions' = SessionOf(t, login[o].at + AdminLife)
         /\ issued' = issued \cup {t}
    /\ attempts' = [attempts EXCEPT ![login[o].from] = NoAttempts]
    /\ login' = [login EXCEPT ![o] = NoLogin]
    /\ UNCHANGED <<adminClock, failures>>

Without(t) == [x \in DOMAIN adminSessions \ {t} |-> adminSessions[x]]

(* authenticate, which deletes a session that is over, and logout, which    *)
(* needs one that is not: either way the session is gone.                   *)
EndSession(t) ==
    /\ t \in DOMAIN adminSessions
    /\ adminSessions' = Without(t)
    /\ UNCHANGED <<adminClock, attempts, login, issued, failures>>

(* The process starts again, with empty maps.                               *)
RestartApi ==
    /\ adminSessions' = [t \in {} |-> 0]
    /\ attempts' = [p \in Consoles |-> NoAttempts]
    /\ login' = [o \in Logins |-> NoLogin]
    /\ UNCHANGED <<adminClock, issued, failures>>

AdminNext ==
    \/ AdminTick \/ RestartApi
    \/ \E o \in Logins : FailLogin(o) \/ CompleteLogin(o)
                         \/ \E p \in Consoles : BeginLogin(o, p)
    \/ \E t \in AdminTokens : EndSession(t)

AdminSpec == AdminInit /\ [][AdminNext]_adminVars

-----------------------------------------------------------------------------
(* Failed logins of p that began in the last window before the time at, as  *)
(* pairs of the time and a number.                                          *)
RecentFailures(p, at) ==
    {x \in Times \X (1..MaxFailures) :
        x[1] <= at /\ at - x[1] < AttemptWindow /\ x[2] <= failures[p][x[1]]}

(* POST /v1/admin/session: counts that overlapping logins read and write    *)
(* back late never shut an administrator out who did not fail that often:   *)
(* a login is refused only if the limit of failures of the same address     *)
(* began within one window before it.                                       *)
LockoutJustified ==
    \A o \in Logins : login[o].step = "limited"
      => Cardinality(RecentFailures(login[o].from, login[o].at)) >= AttemptLimit
===========================================================================
