---------------------------- MODULE TxSubmitter ----------------------------
(***************************************************************************)
(* How a relayer gets a settlement on chain: the lock around its wallet,   *)
(* the gas estimate, sendAndWait, and the chain it talks to.  A task is a  *)
(* caller awaiting one submission: the settlement worker, or the handler   *)
(* of a trade offer.  A submission names the orders it settles; the chain  *)
(* settles them all or reverts.                                            *)
(*                                                                         *)
(* Abstractions.  The lock's queue is not kept in order; the age of a      *)
(* transaction and of a wait is nondeterminism.  Errors are the three      *)
(* kinds classifySettleError tells apart.                                  *)
(***************************************************************************)
EXTENDS Naturals, Sequences, FiniteSets

CONSTANTS
    Relayers,        \* the relayers, each with a wallet of its own
    Orders,          \* signed orders, each named by its nullifier
    Expiry,          \* the signed expiry of each order
    Tasks,           \* the callers that may await a submission
    RelayerOf,       \* the relayer each task runs in
    Cancellers,      \* orders whose users may cancel on chain
    sendRetries,     \* sends tried before a transient error is reported
    MaxTime,         \* bound on the clock
    MaxTxs           \* bound on the transactions broadcast

ASSUME SubmitterAssumption ==
    /\ IsFiniteSet(Orders)    \* nullifiers are elements of a finite field
    /\ Expiry \in [Orders -> Nat]
    /\ RelayerOf \in [Tasks -> Relayers]
    /\ Cancellers \subseteq Orders
    /\ sendRetries \in Nat \ {0}
    /\ MaxTime \in Nat
    /\ MaxTxs \in Nat

VARIABLES
    clock,           \* time
    spent,           \* orders whose nullifier a settlement consumed on chain
    cancelLog,       \* the PrivateCancel events, in order
    txs,             \* settlement transactions broadcast, in order
    pendingTxs,      \* rows of pending_txs: transactions not yet accounted for
    recorded,        \* transactions with history, claims root and outbox rows
    sub              \* what each task is awaiting

chainVars == <<clock, spent, cancelLog, txs>>
submitterVars == <<pendingTxs, recorded, sub>>

Errors == {"permanent", "transient", "unknown"}
Idle == [at |-> "idle", orders |-> {}, tx |-> 0, tries |-> 0, out |-> "none"]
Txs == [relayer : Relayers, orders : SUBSET Orders, state : {"pending", "ok", "reverted"}]
Submissions ==
    [at : {"idle", "locking", "sending", "waiting", "done"}, orders : SUBSET Orders,
     tx : 0..MaxTxs, tries : 0..sendRetries, out : Errors \cup {"none", "settled"}]

Cancelled == {cancelLog[i] : i \in DOMAIN cancelLog}
Settles(S) == \A o \in S : o \notin spent /\ o \notin Cancelled /\ clock <= Expiry[o]
Pending(r) == {i \in DOMAIN txs : txs[i].relayer = r /\ txs[i].state = "pending"}

SubmitterInit ==
    /\ clock = 0 /\ spent = {} /\ cancelLog = << >> /\ txs = << >>
    /\ pendingTxs = {} /\ recorded = {}
    /\ sub = [t \in Tasks |-> Idle]
-----------------------------------------------------------------------------
(* The caller's side: begin a submission, take its outcome.                *)

Submit(t, S) == sub' = [sub EXCEPT ![t] = [Idle EXCEPT !.at = "locking", !.orders = S]]
Collected(t) == sub' = [sub EXCEPT ![t] = Idle]
Finish(t, out) ==
    sub' = [sub EXCEPT ![t] = [Idle EXCEPT !.at = "done", !.orders = sub[t].orders, !.out = out]]
Waiting(t) == [sub[t] EXCEPT !.at = "waiting", !.tx = Len(txs) + 1]
-----------------------------------------------------------------------------
LockFree(r) == \A t \in Tasks : RelayerOf[t] = r => sub[t].at \notin {"sending", "waiting"}

(* The estimate runs the call: a settlement that would revert fails here.  *)
(* The gas price cap is an unknown error, an RPC failure a transient one.  *)
estimateAndGuard(t) ==
    /\ sub[t].at = "locking"
    /\ LockFree(RelayerOf[t])
    /\ \/ /\ Settles(sub[t].orders)
          /\ sub' = [sub EXCEPT ![t].at = "sending"]
       \/ /\ ~Settles(sub[t].orders)
          /\ Finish(t, "permanent")
       \/ \E e \in {"transient", "unknown"} : Finish(t, e)
    /\ UNCHANGED <<chainVars, pendingTxs, recorded>>

Broadcast(t) ==
    /\ Len(txs) < MaxTxs
    /\ txs' = Append(txs, [relayer |-> RelayerOf[t], orders |-> sub[t].orders, state |-> "pending"])

(* A send that fails for a transient reason is tried again, whether or not *)
(* the node took the transaction before the reply was lost.                *)
SendAgain(t) ==
    IF sub[t].tries + 1 < sendRetries
    THEN sub' = [sub EXCEPT ![t].tries = @ + 1]
    ELSE Finish(t, "transient")

send(t) ==
    /\ sub[t].at = "sending"
    /\ \/ /\ Broadcast(t)
          /\ sub' = [sub EXCEPT ![t] = Waiting(t)]
          /\ pendingTxs' = pendingTxs \cup {Len(txs) + 1}
       \/ /\ Broadcast(t)
          /\ SendAgain(t)
          /\ UNCHANGED pendingTxs
       \/ /\ \/ SendAgain(t)
             \/ \E e \in {"permanent", "unknown"} : Finish(t, e)
          /\ UNCHANGED <<txs, pendingTxs>>
    /\ UNCHANGED <<clock, spent, cancelLog, recorded>>

(* The receipt arrives: a success is booked before the caller continues.   *)
receipt(t) ==
    /\ sub[t].at = "waiting"
    /\ LET i == sub[t].tx IN
       \/ /\ txs[i].state = "ok"
          /\ pendingTxs' = pendingTxs \ {i}
          /\ recorded' = recorded \cup {i}
          /\ Finish(t, "settled")
       \/ /\ txs[i].state = "reverted"
          /\ Finish(t, "permanent")
          /\ UNCHANGED <<pendingTxs, recorded>>
    /\ UNCHANGED chainVars

(* The wait and the polls that follow it see no receipt; the message says  *)
(* "timeout", which is a transient error to every caller.                  *)
(* Mutant: a transaction that was sent is taken for settled. *)
NoReceiptMeansSettled == "settled"
NoReceiptOutcome == "transient"

noReceipt(t) ==
    /\ sub[t].at = "waiting"
    /\ Finish(t, NoReceiptOutcome)
    /\ UNCHANGED <<chainVars, pendingTxs, recorded>>
-----------------------------------------------------------------------------
(* The chain: a wallet's transactions are mined in nonce order; users      *)
(* cancel on chain without telling the relayer.                            *)

Mine(r) ==
    /\ Pending(r) # {}
    /\ LET i == CHOOSE j \in Pending(r) : \A k \in Pending(r) : j <= k
           ok == Settles(txs[i].orders)
       IN /\ txs' = [txs EXCEPT ![i].state = IF ok THEN "ok" ELSE "reverted"]
          /\ spent' = IF ok THEN spent \cup txs[i].orders ELSE spent
    /\ UNCHANGED <<clock, cancelLog, submitterVars>>

cancelPrivate(o) ==
    /\ o \in Cancellers \ (spent \cup Cancelled)
    /\ cancelLog' = Append(cancelLog, o)
    /\ UNCHANGED <<clock, spent, txs, submitterVars>>

Tick ==
    /\ clock < MaxTime
    /\ clock' = clock + 1
    /\ UNCHANGED <<spent, cancelLog, txs, submitterVars>>

TaskStep(t) ==
    \/ estimateAndGuard(t)
    \/ send(t)
    \/ receipt(t)
    \/ noReceipt(t)
ChainStep ==
    \/ \E r \in Relayers : Mine(r)
    \/ \E o \in Orders : cancelPrivate(o)
    \/ Tick
-----------------------------------------------------------------------------
SubmitterTypeOK ==
    /\ clock \in 0..MaxTime
    /\ spent \subseteq Orders
    /\ cancelLog \in Seq(Orders)
    /\ txs \in Seq(Txs) /\ Len(txs) <= MaxTxs
    /\ pendingTxs \subseteq DOMAIN txs
    /\ recorded \subseteq DOMAIN txs
    /\ sub \in [Tasks -> Submissions]
=============================================================================
