------------------------- MODULE CommercialLimits -------------------------
(***************************************************************************)
(* What a wallet's commercial plan limits (packages/commercial/src/index.ts *)
(* and the routes of apps/api/src/app.ts that call it): the active API keys *)
(* and the alert rules it may create, and the requests a key may make in a *)
(* calendar month.  Handlers interleave at every await; each SQL statement *)
(* is one step, in one API process or in several.                          *)
(*                                                                         *)
(* One wallet: wallets share nothing.  Keys that operations provisions have *)
(* no owner and no limit on their number; they are metered alike.          *)
(***************************************************************************)
EXTENDS Naturals, FiniteSets

CONSTANTS
    Plans,      \* commercial plans
    Keys,       \* key ids there are to draw from
    Rules,      \* alert rule ids there are to draw from
    KeyLimit,   \* apiKeyLimitForPlan
    RuleLimit,  \* maxAlertRules of a plan
    Quota,      \* apiRequestsMonthly of a plan
    MaxKeys, MaxRules,   \* the largest of those limits
    Creators,   \* creations of keys and rules being handled at a time
    Requests,   \* metered API requests being handled at a time
    MaxMonth,   \* bound: months that pass
    MaxUsage,   \* bound: requests made in a month
    MaxLost     \* bound: processes lost before they answer

ASSUME LimitsAssumption ==
    /\ KeyLimit \in [Plans -> 1..MaxKeys] /\ RuleLimit \in [Plans -> 0..MaxRules]
    /\ Quota \in [Plans -> Nat \ {0}]
    /\ MaxKeys \in Nat \ {0} /\ MaxRules \in Nat \ {0}
    /\ IsFiniteSet(Keys) /\ IsFiniteSet(Rules) /\ IsFiniteSet(Creators)
    /\ MaxMonth \in Nat /\ MaxUsage \in Nat /\ MaxLost \in Nat

Months == 0..MaxMonth

VARIABLES
    walletPlan, \* the plan entitlement() finds for the wallet, free without one
    status,    \* status[k]: of the key's row
    quota,     \* quota[k]: its monthly_request_limit
    rules,     \* the wallet's alert rules
    usage,     \* usage[k][m]: request_count of commercial_api_usage
    month,     \* the calendar month
    creation,  \* creation[c]: what the handler c of a creation does next
    read,      \* read[c]: the plan c has read
    request,   \* request[r]: the key and month of an authenticated request
    granted,   \* granted[k][m]: requests let through
    dropped,   \* dropped[k][m]: of the allowance, spent by requests that died
    lost       \* processes lost so far

limitsVars == <<walletPlan, status, quota, rules, usage, month, creation, read,
                request, granted, dropped, lost>>
meter == <<usage, request, granted, dropped>>
items == <<status, quota, rules>>

None == "none"
Idle == <<>>

LimitsInit ==
    /\ walletPlan \in Plans
    /\ status = [k \in Keys |-> "absent"]
    /\ quota = [k \in Keys |-> 0]
    /\ rules = {}
    /\ usage = [k \in Keys |-> [m \in Months |-> 0]]
    /\ month = 0
    /\ creation = [c \in Creators |-> "off"]
    /\ read = [c \in Creators |-> None]
    /\ request = [r \in Requests |-> Idle]
    /\ granted = [k \in Keys |-> [m \in Months |-> 0]]
    /\ dropped = [k \in Keys |-> [m \in Months |-> 0]]
    /\ lost = 0

-----------------------------------------------------------------------------
(* Operations grants a plan, or the entitlement's ends_at passes.           *)
ChangePlan ==
    /\ walletPlan' \in Plans \ {walletPlan}
    /\ UNCHANGED <<items, month, creation, read, meter, lost>>

NextMonth ==
    /\ month < MaxMonth
    /\ month' = month + 1
    /\ UNCHANGED <<walletPlan, items, creation, read, meter, lost>>

Proceed(c, from, to) == creation[c] = from /\ creation' = [creation EXCEPT ![c] = to]

(* createWalletApiKey, POST /v1/alerts/rules: the plan is read first, ...   *)
ReadPlan(c) ==
    /\ \E kind \in {"key", "rule"} : Proceed(c, "off", kind)
    /\ read' = [read EXCEPT ![c] = walletPlan]
    /\ UNCHANGED <<walletPlan, items, month, meter, lost>>

ActiveKeys == {k \in Keys : status[k] = "active"}

CountNone(c) ==    \* mutant: the count is not compared with the limit
    /\ \/ Proceed(c, "key", "put-key") \/ Proceed(c, "rule", "put-rule")
    /\ UNCHANGED <<walletPlan, items, month, read, meter, lost>>

(* ... then what there is already is counted, ...                           *)
Count(c) ==
    /\ \/ /\ Proceed(c, "key", "put-key")
          /\ Cardinality(ActiveKeys) < KeyLimit[read[c]]
       \/ /\ Proceed(c, "rule", "put-rule")
          /\ Cardinality(rules) < RuleLimit[read[c]]
    /\ UNCHANGED <<walletPlan, items, month, read, meter, lost>>

(* ... and at the limit the creation is refused.                            *)
Refuse(c) ==
    /\ \/ Proceed(c, "key", "off") /\ Cardinality(ActiveKeys) >= KeyLimit[read[c]]
       \/ Proceed(c, "rule", "off") /\ Cardinality(rules) >= RuleLimit[read[c]]
    /\ UNCHANGED <<walletPlan, items, month, read, meter, lost>>

(* putApiKey: a key with the quota of the plan that was read.               *)
PutKey(c) ==
    /\ Proceed(c, "put-key", "off")
    /\ \E k \in Keys :
         /\ status[k] = "absent"
         /\ status' = [status EXCEPT ![k] = "active"]
         /\ quota' = [quota EXCEPT ![k] = Quota[read[c]]]
    /\ UNCHANGED <<walletPlan, rules, month, read, meter, lost>>

(* putAlertRule.                                                            *)
PutRule(c) ==
    /\ Proceed(c, "put-rule", "off")
    /\ \E q \in Rules \ rules : rules' = rules \cup {q}
    /\ UNCHANGED <<walletPlan, status, quota, month, read, meter, lost>>

(* The handler's process dies, or the statement throws.                     *)
AbandonCreation(c) ==
    /\ creation[c] # "off"
    /\ lost < MaxLost
    /\ lost' = lost + 1
    /\ creation' = [creation EXCEPT ![c] = "off"]
    /\ UNCHANGED <<walletPlan, items, month, read, meter>>

(* UPDATE ... SET status = 'revoked' ... AND status = 'active'.             *)
Revoke(k) ==
    /\ status[k] = "active"
    /\ status' = [status EXCEPT ![k] = "revoked"]
    /\ UNCHANGED <<walletPlan, quota, rules, month, creation, read, meter, lost>>

(* authenticateAndConsume: an active key is found, and the month is taken.  *)
AuthenticateKey(r, k) ==
    /\ request[r] = Idle
    /\ status[k] = "active"
    /\ request' = [request EXCEPT ![r] = <<k, month>>]
    /\ UNCHANGED <<walletPlan, items, month, creation, read, usage, granted, dropped,
                   lost>>

Add(f, k, m) == [f EXCEPT ![k][m] = @ + 1]

ConsumeBelow(r) ==    \* mutant: the last request of the quota is refused
    /\ request[r] # Idle
    /\ LET k == request[r][1] m == request[r][2] n == usage[k][m] + 1
       IN /\ n <= MaxUsage /\ usage' = Add(usage, k, m)
          /\ granted' = IF n < quota[k] THEN Add(granted, k, m) ELSE granted
    /\ request' = [request EXCEPT ![r] = Idle]
    /\ UNCHANGED <<walletPlan, items, month, creation, read, dropped, lost>>

(* The request is counted, by one atomic upsert of its month's row, and let *)
(* through up to the key's quota, unless its process dies first.            *)
Consume(r) ==
    /\ request[r] # Idle
    /\ LET k == request[r][1]
           m == request[r][2]
           n == usage[k][m] + 1
       IN /\ n <= MaxUsage
          /\ usage' = Add(usage, k, m)
          /\ \/ /\ granted' = IF n > quota[k] THEN granted ELSE Add(granted, k, m)
                /\ UNCHANGED <<dropped, lost>>
             \/ /\ lost < MaxLost /\ lost' = lost + 1
                /\ dropped' = IF n > quota[k] THEN dropped ELSE Add(dropped, k, m)
                /\ UNCHANGED granted
    /\ request' = [request EXCEPT ![r] = Idle]
    /\ UNCHANGED <<walletPlan, items, month, creation, read>>

LimitsNext ==
    \/ ChangePlan \/ NextMonth
    \/ \E c \in Creators :
         ReadPlan(c) \/ Count(c) \/ Refuse(c) \/ PutKey(c) \/ PutRule(c) \/ AbandonCreation(c)
    \/ \E k \in Keys : Revoke(k) \/ \E r \in Requests : AuthenticateKey(r, k)
    \/ \E r \in Requests : Consume(r)

LimitsSpec == LimitsInit /\ [][LimitsNext]_limitsVars

-----------------------------------------------------------------------------
(* The variables hold what the rows and the handlers can hold.              *)
LimitsTypeOK ==
    /\ walletPlan \in Plans
    /\ status \in [Keys -> {"absent", "active", "revoked"}]
    /\ quota \in [Keys -> Nat]
    /\ rules \subseteq Rules
    /\ usage \in [Keys -> [Months -> Nat]]
    /\ month \in Months
    /\ creation \in [Creators -> {"off", "key", "rule", "put-key", "put-rule"}]
    /\ read \in [Creators -> Plans \cup {None}]
    /\ request \in [Requests -> {Idle} \cup (Keys \X Months)]
    /\ granted \in [Keys -> [Months -> Nat]]
    /\ dropped \in [Keys -> [Months -> Nat]]
    /\ lost \in 0..MaxLost

Putting(kind) == {c \in Creators : creation[c] = kind}

(* Creations that pass the check together can exceed the limit of a plan,   *)
(* but by no more than the handlers that were under way: no sequence of     *)
(* creations, revocations and plan changes accumulates keys or rules.       *)
(* (createWalletApiKey and POST /v1/alerts/rules check, then act.)          *)
OvershootBounded ==
    /\ Cardinality(ActiveKeys) + Cardinality(Putting("put-key"))
         < MaxKeys + Cardinality(Creators)
    /\ Cardinality(rules) + Cardinality(Putting("put-rule"))
         < MaxRules + Cardinality(Creators)

Least(a, b) == IF a < b THEN a ELSE b

(* docs/commercial-launch.md:21: whatever requests of a key overlap, with   *)
(* one another, with its revocation and with the turn of the month, each of *)
(* the month's allowance is spent by exactly one request, and none beyond.  *)
EveryRequestMetered ==
    \A k \in Keys, m \in Months :
      granted[k][m] + dropped[k][m] = Least(usage[k][m], quota[k])

(* README.md:178: a wallet keeps at most as many active keys as the most    *)
(* generous plan allows.                                                    *)
KeysWithinLimit == Cardinality(ActiveKeys) <= MaxKeys

(* A creation under way has read a plan; a key without a row has no usage,  *)
(* and no request has authenticated with it.                                *)
PlanRead == \A c \in Creators : creation[c] # "off" => read[c] \in Plans
Unused == \A k \in Keys : status[k] = "absent" => usage[k] = [m \in Months |-> 0]
Authenticated ==
    \A r \in Requests : request[r] # Idle => status[request[r][1]] # "absent"

(* The inductive invariant of the proofs.                                   *)
LimitsIInv ==
    /\ LimitsTypeOK /\ OvershootBounded /\ EveryRequestMetered
    /\ PlanRead /\ Unused /\ Authenticated
===========================================================================
