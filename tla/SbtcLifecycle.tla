--------------------------- MODULE SbtcLifecycle ---------------------------
(***************************************************************************)
(* The state of sBTC deposits and withdrawals, put together from the        *)
(* canonical Stacks events, Emily's record and Bitcoin transactions:        *)
(* packages/data-foundation/src/sbtc-reconciliation.ts.  A world w holds    *)
(* what the three say, and the address that is asked about; operations are  *)
(* known by their key, events name an owner when the chain does.            *)
(***************************************************************************)
EXTENDS Integers, FiniteSets

NoEvent == [kind |-> "none"]
NoTxid == "none"
NoRecord == [status |-> "none"]

(* Bitcoin: how many blocks confirm each transaction, 0 when unknown, when  *)
(* unconfirmed, or when its block is above the tip that was cached 15 s ago.*)
Confirmations(w, txid) ==
    IF txid \notin DOMAIN w.minedAt THEN 0
    ELSE IF w.minedAt[txid] > w.tip THEN 0 ELSE w.tip - w.minedAt[txid] + 1

SomeConfirmed(w, txids) == \E t \in txids : Confirmations(w, t) > 0    \* mutant: one is enough

AllConfirmed(w, txids) == txids # {} /\ \A t \in txids : Confirmations(w, t) > 0

(* The stages in which an operation may be, before evidence that conflicts. *)
Stage(completed, confirmed, emily) ==
    IF completed /\ confirmed THEN "completed"
    ELSE IF completed THEN "stacks-completed-bitcoin-unverified"
    ELSE IF confirmed THEN "bitcoin-confirming"
    ELSE IF emily.status = "accepted" THEN "signer-accepted"
    ELSE "requested"

ConfirmedTooEarly(completed, confirmed, emily) ==
    emily.status = "confirmed" /\ ~(completed /\ confirmed)

WithdrawalTxids(kinds, event, emily) ==
    (IF "withdrawal-accept" \in kinds THEN {event.txid, event.sweep} ELSE {})
    \cup (IF emily.status # "none" /\ emily.txid # NoTxid THEN {emily.txid} ELSE {})

ReconcileWithdrawal(w, kinds, event, emily) ==
    LET completed == "withdrawal-accept" \in kinds
        confirmed == AllConfirmed(w, WithdrawalTxids(kinds, event, emily))
    IN  IF ConfirmedTooEarly(completed, confirmed, emily) THEN "evidence-conflict"
        ELSE IF "withdrawal-reject" \in kinds \/ emily.status = "failed" THEN "failed"
        ELSE Stage(completed, confirmed, emily)

(* The deposit Emily describes is the one that was completed.               *)
SameDeposit(event, emily) ==
    /\ event.txid = emily.txid
    /\ event.amount = emily.amount - (IF emily.fulfilled THEN emily.fee ELSE 0)
    /\ emily.fulfilled => event.sweep = emily.sweep

DepositTxids(txid, event) == {txid} \cup (IF event = NoEvent THEN {} ELSE {event.sweep})

ReconcileDeposit(w, txid, event, emily) ==
    LET completed == event # NoEvent
        confirmed == AllConfirmed(w, DepositTxids(txid, event))
    IN  IF \/ ConfirmedTooEarly(completed, confirmed, emily)
           \/ completed /\ emily # NoRecord /\ ~SameDeposit(event, emily)
        THEN "evidence-conflict"
        ELSE IF emily.status = "failed" THEN "failed"
        ELSE Stage(completed, confirmed, emily)

-----------------------------------------------------------------------------
(* protocolEventsForAddress: all events of an operation that one event says *)
(* is the address's.                                                        *)
EventsForAddress(w) ==
    {e \in w.events : \E o \in w.events : o.op = e.op /\ o.owner = w.address}

(* Emily lists the withdrawals of a sender, and deposits by transaction,    *)
(* whoever they are of.                                                     *)
WithdrawalsBySender(w) == {r \in w.withdrawals : r.sender = w.address}
DepositsByTransaction(w, txid) == {r \in w.deposits : r.txid = txid}

(* reconcileSbtcAddress: one operation per position of the address's events *)
(* and per withdrawal Emily knows of it, which may have no event yet.       *)
Operations(w) ==
    {e.op : e \in EventsForAddress(w)}
    \cup {<<"withdrawal", r.id>> : r \in WithdrawalsBySender(w)}

Only(S, none) == IF S = {} THEN none ELSE CHOOSE x \in S : TRUE

OperationEvents(w, op) == {e \in EventsForAddress(w) : e.op = op}
EventOf(w, op, kind) == Only({e \in OperationEvents(w, op) : e.kind = kind}, NoEvent)

EmilyOf(w, op) ==
    Only(IF op[1] = "withdrawal" THEN {r \in WithdrawalsBySender(w) : r.id = op[2]}
         ELSE DepositsByTransaction(w, op[2]), NoRecord)

StateOf(w, op) ==
    IF op[1] = "withdrawal"
    THEN ReconcileWithdrawal(w, {e.kind : e \in OperationEvents(w, op)},
                             EventOf(w, op, "withdrawal-accept"), EmilyOf(w, op))
    ELSE ReconcileDeposit(w, op[2], EventOf(w, op, "completed-deposit"), EmilyOf(w, op))

NoEvidenceToday == [ok |-> FALSE]

ReconcileSbtcAddress(w) ==
    IF ~w.emilyAnswers \/ ~w.bitcoinAnswers THEN NoEvidenceToday
    ELSE [ok |-> TRUE, state |-> [op \in Operations(w) |-> StateOf(w, op)]]

-----------------------------------------------------------------------------
Concludes(w, op) ==
    \E e \in w.events :
       /\ e.op = op /\ e.kind \in {"withdrawal-accept", "completed-deposit"}
       /\ \A t \in {e.txid, e.sweep} : t \in DOMAIN w.minedAt /\ w.minedAt[t] <= w.tip

NotDenied(w, op) ==
    /\ ~\E e \in w.events : e.op = op /\ e.kind = "withdrawal-reject"
    /\ EmilyOf(w, op).status # "failed"
    /\ op[1] = "deposit" /\ EmilyOf(w, op) # NoRecord
         => SameDeposit(EventOf(w, op, "completed-deposit"), EmilyOf(w, op))

(* Completed says that the canonical chain concluded the operation, that    *)
(* every Bitcoin transaction of it is in a block, and that nobody denies    *)
(* it; it stays so as Bitcoin goes on.  Emily's word alone proves nothing,  *)
(* and is not needed.                                                       *)
LifecycleIsSound(w) ==
    LET answer == ReconcileSbtcAddress(w)
        later == ReconcileSbtcAddress([w EXCEPT !.tip = @ + 1])
    IN  answer.ok => \A op \in Operations(w) :
          /\ answer.state[op] = "completed" =>
               Concludes(w, op) /\ NotDenied(w, op) /\ later.state[op] = "completed"
          /\ Concludes(w, op) /\ NotDenied(w, op) /\ EmilyOf(w, op) = NoRecord
               => answer.state[op] = "completed"
          /\ EmilyOf(w, op).status = "confirmed" /\ ~Concludes(w, op)
               => answer.state[op] = "evidence-conflict"
=============================================================================
