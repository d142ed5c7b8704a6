----------------------------- MODULE SdkRetry -----------------------------
(***************************************************************************)
(* One call of the client SDK: RiskOsClient.send of                         *)
(* packages/client/src/index.ts, with its retries, its timeout and the      *)
(* caller's AbortSignal.  An attempt that fails may still have been         *)
(* executed by the API; the caller may abort at any moment.                 *)
(***************************************************************************)
EXTENDS Naturals

CONSTANTS Retries   \* options.retries, 2 by default

ASSUME SdkAssumption == Retries \in Nat

VARIABLES
    method,     \* "GET" or "POST"
    attempt,    \* of the loop
    sdk,        \* what the call is at
    aborted,    \* options.signal
    sends,      \* requests that went out
    executed,   \* requests the API has executed
    outcome     \* what the caller got

sdkVars == <<method, attempt, sdk, aborted, sends, executed, outcome>>

SdkInit ==
    /\ method \in {"GET", "POST"}
    /\ attempt = 0 /\ sdk = "idle" /\ aborted = FALSE
    /\ sends = 0 /\ executed = 0 /\ outcome = "none"

-----------------------------------------------------------------------------
StartCall ==
    /\ sdk = "idle" /\ sdk' = "send"
    /\ UNCHANGED <<method, attempt, aborted, sends, executed, outcome>>

AbortCall ==
    /\ ~aborted /\ sdk \notin {"idle", "done"} /\ aborted' = TRUE
    /\ UNCHANGED <<method, attempt, sdk, sends, executed, outcome>>

End(what) == sdk' = "done" /\ outcome' = what

SendAnyway ==    \* mutant: the signal is not passed on
    /\ sdk = "send" /\ sdk' = "sent" /\ sends' = sends + 1
    /\ UNCHANGED <<method, attempt, aborted, executed, outcome>>

(* fetch with a signal that is aborted rejects without sending anything.    *)
SendAttempt ==
    /\ sdk = "send"
    /\ IF aborted
       THEN End("aborted") /\ UNCHANGED sends
       ELSE sdk' = "sent" /\ sends' = sends + 1 /\ UNCHANGED outcome
    /\ UNCHANGED <<method, attempt, aborted, executed>>

(* The API executes the request, if it arrives.                             *)
Execute ==
    /\ sdk = "sent" /\ executed' = executed + 1 /\ sdk' = "executed"
    /\ UNCHANGED <<method, attempt, aborted, sends, outcome>>

(* canRetry, and attempts are left.                                         *)
MayRetry == method = "GET" /\ attempt + 1 < Retries + 1

(* A whole response: a result, an error that retrying may cure, or not.     *)
Respond ==
    /\ sdk = "executed"
    /\ \/ End("result")
       \/ End("error")    \* not retryableStatus, or not JSON
       \/ ~MayRetry /\ End("error")
       \/ MayRetry /\ sdk' = "pause" /\ UNCHANGED outcome
    /\ UNCHANGED <<method, attempt, aborted, sends, executed>>

FailOnlyAborted ==    \* mutant: there is no timeout
    /\ sdk \in {"sent", "executed"} /\ aborted /\ End("aborted")
    /\ UNCHANGED <<method, attempt, aborted, sends, executed>>

(* No response in time, none at all, or the caller has aborted.             *)
FailAttempt ==
    /\ sdk \in {"sent", "executed"}
    /\ IF aborted THEN End("aborted")
       ELSE IF ~MayRetry THEN End("unreachable")
       ELSE sdk' = "backoff" /\ UNCHANGED outcome
    /\ UNCHANGED <<method, attempt, aborted, sends, executed>>

(* delay: it ends, or the signal cuts it short.  Within the try clause that *)
(* is an aborted request; within the catch clause the caller gets the       *)
(* signal's own reason.                                                     *)
AwaitRetry ==
    /\ sdk \in {"pause", "backoff"}
    /\ \/ ~aborted /\ sdk' = "send" /\ attempt' = attempt + 1 /\ UNCHANGED outcome
       \/ /\ aborted
          /\ End(IF sdk = "pause" THEN "aborted" ELSE "reason")
          /\ UNCHANGED attempt
    /\ UNCHANGED <<method, aborted, sends, executed>>

SdkNext ==
    \/ StartCall \/ AbortCall \/ SendAttempt \/ Execute
    \/ Respond \/ FailAttempt \/ AwaitRetry

(* The timeout of each attempt fires, and timers end.                       *)
SdkFairness == WF_sdkVars(SendAttempt \/ FailAttempt \/ AwaitRetry)

SdkSpec == SdkInit /\ [][SdkNext]_sdkVars /\ SdkFairness

-----------------------------------------------------------------------------
(* packages/client/README.md:54: once the caller has aborted, nothing more  *)
(* is sent, whichever attempt or pause the call is in.                      *)
AbortStopsSending == [][aborted => sends' = sends]_sdkVars

(* README.md:248: a call that was made ends, with a result or an error,     *)
(* although the API may never answer.                                       *)
CallEnds == sdk = "send" ~> sdk = "done"
===========================================================================
