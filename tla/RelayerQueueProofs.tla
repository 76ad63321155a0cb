------------------------- MODULE RelayerQueueProofs -------------------------
(***************************************************************************)
(* Proofs about the relayer's queue: its storage keeps its types, a        *)
(* settled row is booked, only a running worker's order is settling, and   *)
(* rows and map entries agree, for any number of relayers, orders, keys,   *)
(* requests and retries; and until an order expires no key has more than   *)
(* its slots.                                                              *)
(***************************************************************************)
EXTENDS RelayerQueue, FiniteSetTheorems, WellFoundedInduction, TLAPS

-----------------------------------------------------------------------------
(* Submissions and the chain.                                              *)

(* A mined settlement consumed its orders; a task waits for its own        *)
(* transaction; a submission that ended settled was booked before.         *)
TxMined(i) == txs[i].state = "ok" => txs[i].orders \subseteq spent
TaskWaits(t) ==
    sub[t].at = "waiting" => sub[t].tx \in DOMAIN txs /\ txs[sub[t].tx].orders = sub[t].orders
TaskBooked(t) ==
    sub[t].at = "done" /\ sub[t].out = "settled" =>
      /\ sub[t].orders \subseteq spent
      /\ \E i \in recorded : txs[i].orders = sub[t].orders
Chained ==
    /\ \A i \in DOMAIN txs : TxMined(i)
    /\ \A t \in Tasks : TaskWaits(t) /\ TaskBooked(t)

(* What a later step never takes back.                                     *)
Grows ==
    /\ spent \subseteq spent' /\ recorded \subseteq recorded'
    /\ DOMAIN txs \subseteq DOMAIN txs'
    /\ \A i \in DOMAIN txs : txs'[i].orders = txs[i].orders
    /\ clock <= clock' /\ Cancelled \subseteq Cancelled'

(* The outcome of a submission, and its fields.                            *)
Finished(t, out) == [Idle EXCEPT !.at = "done", !.orders = sub[t].orders, !.out = out]

(* A finished submission is a submission.                                  *)
LEMMA FinishShape ==
    ASSUME NEW t \in Tasks, NEW out \in Errors \cup {"settled"}, Finish(t, out), SubmitterTypeOK
    PROVE  /\ sub' = [sub EXCEPT ![t] = Finished(t, out)]
           /\ Finished(t, out) \in Submissions
           /\ Finished(t, out).orders = sub[t].orders /\ Finished(t, out).at = "done"
           /\ Finished(t, out).out = out
<1>1. sub' = [sub EXCEPT ![t] = Finished(t, out)]
  BY Zenon DEF Finish, Finished
<1>2. sub[t].orders \in SUBSET Orders
  BY DEF SubmitterTypeOK, Submissions
<1>3. Idle \in Submissions
  BY SubmitterAssumption DEF Idle, Submissions
<1>4. /\ Finished(t, out) \in Submissions
      /\ Finished(t, out).orders = sub[t].orders /\ Finished(t, out).at = "done"
      /\ Finished(t, out).out = out
  BY <1>2, <1>3 DEF Finished, Submissions
<1> QED BY <1>1, <1>4

(* A task whose submission becomes s leaves the others alone.              *)
LEMMA OneTask ==
    ASSUME NEW t \in Tasks, NEW s \in Submissions, SubmitterTypeOK,
           sub' = [sub EXCEPT ![t] = s]
    PROVE  /\ sub' \in [Tasks -> Submissions] /\ sub'[t] = s
           /\ \A u \in Tasks \ {t} : sub'[u] = sub[u]
BY DEF SubmitterTypeOK

(* Types and chaining survive while nothing is taken back, if they hold    *)
(* for the one task that moved.                                            *)
LEMMA TaskMoves ==
    ASSUME NEW t \in Tasks, NEW s \in Submissions, SubmitterTypeOK, Chained,
           sub' = [sub EXCEPT ![t] = s], Grows, s.orders = sub[t].orders,
           \A i \in DOMAIN txs' : TxMined(i)',
           s.at = "waiting" => s.tx \in DOMAIN txs' /\ txs'[s.tx].orders = s.orders,
           s.at = "done" /\ s.out = "settled" =>
              s.orders \subseteq spent' /\ \E i \in recorded' : txs'[i].orders = s.orders
    PROVE  /\ sub' \in [Tasks -> Submissions] /\ Chained'
           /\ \A u \in Tasks : sub'[u].orders = sub[u].orders
<1>1. /\ sub' \in [Tasks -> Submissions] /\ sub'[t] = s
      /\ \A u \in Tasks \ {t} : sub'[u] = sub[u]
  BY OneTask
<1>2. ASSUME NEW u \in Tasks PROVE TaskWaits(u)' /\ TaskBooked(u)'
  <2>1. CASE u = t
    BY <1>1, <2>1 DEF TaskWaits, TaskBooked
  <2>2. CASE u # t
    <3>1. sub'[u] = sub[u] /\ TaskWaits(u) /\ TaskBooked(u)
      BY <1>1, <2>2 DEF Chained
    <3>2. recorded \subseteq DOMAIN txs
      BY DEF SubmitterTypeOK
    <3> QED BY <3>1, <3>2 DEF TaskWaits, TaskBooked, Grows
  <2> QED BY <2>1, <2>2
<1>3. \A u \in Tasks : sub'[u].orders = sub[u].orders
  BY <1>1
<1> QED BY <1>1, <1>2, <1>3 DEF Chained

(* A task's own steps.                                                     *)
SubmitterOK == SubmitterTypeOK /\ Chained

(* An outcome other than settled needs no booking.                         *)
LEMMA FinishOK ==
    ASSUME NEW t \in Tasks, NEW out \in Errors, Finish(t, out), SubmitterOK,
           UNCHANGED <<clock, spent, cancelLog, recorded>>, Grows,
           \A i \in DOMAIN txs' : TxMined(i)'
    PROVE  /\ sub' \in [Tasks -> Submissions] /\ Chained'
           /\ \A u \in Tasks : sub'[u].orders = sub[u].orders
<1>1. /\ sub' = [sub EXCEPT ![t] = Finished(t, out)] /\ Finished(t, out) \in Submissions
      /\ SubmitterTypeOK /\ Chained
  BY FinishShape DEF SubmitterOK
<1>2. /\ Finished(t, out).orders = sub[t].orders /\ Finished(t, out).at = "done"
      /\ Finished(t, out).out # "settled"
  BY FinishShape DEF SubmitterOK, Errors
<1> QED BY <1>1, <1>2, TaskMoves

(* The gas estimate: the task goes on to send, or is done with an error.   *)
LEMMA EstimateOK ==
    ASSUME NEW t \in Tasks, SubmitterOK, estimateAndGuard(t)
    PROVE  SubmitterOK' /\ Grows /\ \A u \in Tasks : sub'[u].orders = sub[u].orders
<1>0. SubmitterTypeOK /\ Chained /\ UNCHANGED <<clock, spent, cancelLog, txs, pendingTxs, recorded>>
  BY DEF SubmitterOK, estimateAndGuard, chainVars
<1>1. Grows
  BY <1>0 DEF Grows, SubmitterTypeOK, Cancelled
<1>2. \A i \in DOMAIN txs' : TxMined(i)'
  BY <1>0 DEF Chained, TxMined
<1>3. CASE sub' = [sub EXCEPT ![t].at = "sending"]
  <2> DEFINE s == [sub[t] EXCEPT !.at = "sending"]
  <2>1. sub[t] \in Submissions
    BY <1>0 DEF SubmitterTypeOK
  <2>2. s \in Submissions /\ s.orders = sub[t].orders /\ s.at = "sending"
    BY <2>1 DEF Submissions
  <2>3. sub' = [sub EXCEPT ![t] = s]
    BY <1>3
  <2> HIDE DEF s
  <2>4. /\ sub' \in [Tasks -> Submissions] /\ Chained'
        /\ \A u \in Tasks : sub'[u].orders = sub[u].orders
    BY <1>0, <1>1, <1>2, <2>2, <2>3, TaskMoves
  <2> QED BY <1>0, <1>1, <2>4 DEF SubmitterOK, SubmitterTypeOK
<1>4. ASSUME NEW out \in Errors, Finish(t, out)
      PROVE  SubmitterOK' /\ Grows /\ \A u \in Tasks : sub'[u].orders = sub[u].orders
  <2>1. /\ sub' \in [Tasks -> Submissions] /\ Chained'
        /\ \A u \in Tasks : sub'[u].orders = sub[u].orders
    BY <1>0, <1>1, <1>2, <1>4, FinishOK DEF SubmitterOK
  <2> QED BY <1>0, <1>1, <2>1 DEF SubmitterOK, SubmitterTypeOK
<1> QED BY <1>3, <1>4 DEF estimateAndGuard, Errors

(* The new transaction names the task's orders, and nothing else changed.  *)
LEMMA BroadcastOK ==
    ASSUME NEW t \in Tasks, SubmitterOK, Broadcast(t),
           UNCHANGED <<clock, spent, cancelLog, recorded>>
    PROVE  /\ txs' \in Seq(Txs) /\ Len(txs)' <= MaxTxs /\ Len(txs)' = Len(txs) + 1
           /\ Len(txs) + 1 \in DOMAIN txs'
           /\ txs'[Len(txs) + 1].orders = sub[t].orders
           /\ Grows /\ \A i \in DOMAIN txs' : TxMined(i)'
<1> DEFINE new == [relayer |-> RelayerOf[t], orders |-> sub[t].orders, state |-> "pending"]
<1>1. txs \in Seq(Txs) /\ Len(txs) < MaxTxs /\ Len(txs) \in Nat /\ MaxTxs \in Nat
  BY SubmitterAssumption DEF SubmitterOK, SubmitterTypeOK, Broadcast
<1>2. sub[t].orders \in SUBSET Orders
  BY DEF SubmitterOK, SubmitterTypeOK, Submissions
<1>3. new \in Txs /\ new.orders = sub[t].orders /\ new.state # "ok"
  BY <1>2, SubmitterAssumption DEF Txs
<1>4. txs' = Append(txs, new)
  BY DEF Broadcast
<1> HIDE DEF new
<1>5. /\ txs' \in Seq(Txs) /\ Len(txs)' = Len(txs) + 1 /\ txs'[Len(txs) + 1] = new
      /\ \A i \in DOMAIN txs : i \in DOMAIN txs' /\ txs'[i] = txs[i]
      /\ \A i \in DOMAIN txs' : i \in DOMAIN txs \/ i = Len(txs) + 1
      /\ Len(txs) + 1 \in DOMAIN txs'
  BY <1>1, <1>3, <1>4
<1>6. Len(txs)' <= MaxTxs
  BY <1>1, <1>5
<1>7. Grows
  <2>1. clock <= clock'
    BY DEF SubmitterOK, SubmitterTypeOK
  <2> QED BY <1>5, <2>1 DEF Grows, Cancelled
<1>8. \A i \in DOMAIN txs' : TxMined(i)'
  BY <1>3, <1>5 DEF SubmitterOK, Chained, TxMined
<1> QED BY <1>3, <1>5, <1>6, <1>7, <1>8

(* A send that failed: the task tries again or gives up.                   *)
LEMMA AgainOK ==
    ASSUME NEW t \in Tasks, SubmitterOK, sub[t].at = "sending", SendAgain(t),
           UNCHANGED <<clock, spent, cancelLog, recorded>>, Grows,
           \A i \in DOMAIN txs' : TxMined(i)'
    PROVE  /\ sub' \in [Tasks -> Submissions] /\ Chained'
           /\ \A u \in Tasks : sub'[u].orders = sub[u].orders
<1>1. CASE sub[t].tries + 1 < sendRetries
  <2> DEFINE s == [sub[t] EXCEPT !.tries = @ + 1]
  <2>1. sub[t] \in Submissions
    BY DEF SubmitterOK, SubmitterTypeOK
  <2>2. sub[t].tries + 1 \in 0..sendRetries
    BY <1>1, <2>1, SubmitterAssumption DEF Submissions
  <2>3. s \in Submissions /\ s.orders = sub[t].orders /\ s.at = "sending"
    BY <2>1, <2>2 DEF Submissions
  <2>4. sub' = [sub EXCEPT ![t] = s]
    BY <1>1 DEF SendAgain
  <2> HIDE DEF s
  <2> QED BY <2>3, <2>4, TaskMoves DEF SubmitterOK
<1>2. CASE ~(sub[t].tries + 1 < sendRetries)
  <2>1. Finish(t, "transient")
    BY <1>2 DEF SendAgain
  <2> QED BY <2>1, FinishOK DEF Errors
<1> QED BY <1>1, <1>2

(* A send is pending, lost after it was broadcast, or failed.              *)
LEMMA SendOK ==
    ASSUME NEW t \in Tasks, SubmitterOK, send(t)
    PROVE  SubmitterOK' /\ Grows /\ \A u \in Tasks : sub'[u].orders = sub[u].orders
<1>0. /\ SubmitterTypeOK /\ Chained /\ UNCHANGED <<clock, spent, cancelLog, recorded>>
      /\ sub[t].at = "sending"
  BY DEF SubmitterOK, send
<1>1. ASSUME Broadcast(t), sub' = [sub EXCEPT ![t] = Waiting(t)],
             pendingTxs' = pendingTxs \cup {Len(txs) + 1}
      PROVE  SubmitterOK' /\ Grows /\ \A u \in Tasks : sub'[u].orders = sub[u].orders
  <2>1. /\ txs' \in Seq(Txs) /\ Len(txs)' <= MaxTxs /\ Len(txs)' = Len(txs) + 1
        /\ Len(txs) + 1 \in DOMAIN txs'
        /\ txs'[Len(txs) + 1].orders = sub[t].orders
        /\ Grows /\ \A i \in DOMAIN txs' : TxMined(i)'
    BY <1>0, <1>1, BroadcastOK
  <2>2. sub[t] \in Submissions /\ Len(txs) + 1 \in 0..MaxTxs
    BY <1>0, <2>1, SubmitterAssumption DEF SubmitterTypeOK
  <2>3. /\ Waiting(t) \in Submissions /\ Waiting(t).orders = sub[t].orders
        /\ Waiting(t).at = "waiting" /\ Waiting(t).tx = Len(txs) + 1
    BY <2>2 DEF Submissions, Waiting
  <2>4. /\ sub' \in [Tasks -> Submissions] /\ Chained'
        /\ \A u \in Tasks : sub'[u].orders = sub[u].orders
    BY <1>0, <1>1, <2>1, <2>3, TaskMoves
  <2>5. pendingTxs' \subseteq DOMAIN txs' /\ recorded' \subseteq DOMAIN txs'
    BY <1>0, <1>1, <2>1 DEF SubmitterTypeOK, Grows
  <2> QED BY <1>0, <2>1, <2>4, <2>5 DEF SubmitterOK, SubmitterTypeOK
<1>2. ASSUME Broadcast(t), SendAgain(t), UNCHANGED pendingTxs
      PROVE  SubmitterOK' /\ Grows /\ \A u \in Tasks : sub'[u].orders = sub[u].orders
  <2>1. /\ txs' \in Seq(Txs) /\ Len(txs)' <= MaxTxs
        /\ Grows /\ \A i \in DOMAIN txs' : TxMined(i)'
    BY <1>0, <1>2, BroadcastOK
  <2>2. /\ sub' \in [Tasks -> Submissions] /\ Chained'
        /\ \A u \in Tasks : sub'[u].orders = sub[u].orders
    BY <1>0, <1>2, <2>1, AgainOK
  <2>3. pendingTxs' \subseteq DOMAIN txs' /\ recorded' \subseteq DOMAIN txs'
    BY <1>0, <1>2, <2>1 DEF SubmitterTypeOK, Grows
  <2> QED BY <1>0, <2>1, <2>2, <2>3 DEF SubmitterOK, SubmitterTypeOK
<1>3. ASSUME UNCHANGED <<txs, pendingTxs>>
      PROVE  Grows /\ \A i \in DOMAIN txs' : TxMined(i)'
  <2>1. clock <= clock
    BY <1>0 DEF SubmitterTypeOK
  <2> QED BY <1>0, <1>3, <2>1 DEF Grows, Cancelled, Chained, TxMined
<1>4. ASSUME SendAgain(t), UNCHANGED <<txs, pendingTxs>>
      PROVE  SubmitterOK' /\ Grows /\ \A u \in Tasks : sub'[u].orders = sub[u].orders
  <2>1. /\ sub' \in [Tasks -> Submissions] /\ Chained'
        /\ \A u \in Tasks : sub'[u].orders = sub[u].orders
    BY <1>0, <1>3, <1>4, AgainOK
  <2> QED BY <1>0, <1>3, <1>4, <2>1 DEF SubmitterOK, SubmitterTypeOK
<1>5. ASSUME NEW out \in {"permanent", "unknown"}, Finish(t, out), UNCHANGED <<txs, pendingTxs>>
      PROVE  SubmitterOK' /\ Grows /\ \A u \in Tasks : sub'[u].orders = sub[u].orders
  <2>1. /\ sub' \in [Tasks -> Submissions] /\ Chained'
        /\ \A u \in Tasks : sub'[u].orders = sub[u].orders
    <3>1. out \in Errors
      BY <1>5 DEF Errors
    <3> QED BY <1>0, <1>3, <1>5, <3>1, FinishOK
  <2> QED BY <1>0, <1>3, <1>5, <2>1 DEF SubmitterOK, SubmitterTypeOK
<1> QED BY <1>1, <1>2, <1>4, <1>5, Zenon DEF send

(* A receipt: what is booked names the task's orders.                      *)
LEMMA ReceiptOK ==
    ASSUME NEW t \in Tasks, SubmitterOK, receipt(t)
    PROVE  SubmitterOK' /\ Grows /\ \A u \in Tasks : sub'[u].orders = sub[u].orders
<1> DEFINE i == sub[t].tx
<1>0. SubmitterTypeOK /\ Chained /\ UNCHANGED <<clock, spent, cancelLog, txs>>
  BY DEF SubmitterOK, receipt, chainVars
<1>1. i \in DOMAIN txs /\ txs[i].orders = sub[t].orders
  BY <1>0 DEF Chained, TaskWaits, receipt
<1>2. ASSUME recorded \subseteq recorded'
      PROVE  Grows /\ \A j \in DOMAIN txs' : TxMined(j)'
  <2>1. clock <= clock
    BY <1>0 DEF SubmitterTypeOK
  <2> QED BY <1>0, <1>2, <2>1 DEF Grows, Cancelled, Chained, TxMined
<1>3. ASSUME txs[i].state = "ok", pendingTxs' = pendingTxs \ {i}, recorded' = recorded \cup {i},
             Finish(t, "settled")
      PROVE  SubmitterOK' /\ Grows /\ \A u \in Tasks : sub'[u].orders = sub[u].orders
  <2> DEFINE s == Finished(t, "settled")
  <2>1. /\ sub' = [sub EXCEPT ![t] = s] /\ s \in Submissions
        /\ s.orders = sub[t].orders /\ s.at = "done" /\ s.out = "settled"
    BY <1>0, <1>3, FinishShape
  <2>2. s.orders \subseteq spent' /\ i \in recorded' /\ txs'[i].orders = s.orders
    BY <1>0, <1>1, <1>3, <2>1 DEF Chained, TxMined
  <2>3. recorded' \subseteq DOMAIN txs' /\ pendingTxs' \subseteq DOMAIN txs'
    BY <1>0, <1>1, <1>3 DEF SubmitterTypeOK
  <2>4. Grows /\ \A j \in DOMAIN txs' : TxMined(j)'
    BY <1>2, <1>3
  <2> HIDE DEF s, i
  <2>5. /\ sub' \in [Tasks -> Submissions] /\ Chained'
        /\ \A u \in Tasks : sub'[u].orders = sub[u].orders
    BY <1>0, <2>1, <2>2, <2>4, TaskMoves
  <2> QED BY <1>0, <2>3, <2>4, <2>5 DEF SubmitterOK, SubmitterTypeOK
<1>4. ASSUME Finish(t, "permanent"), UNCHANGED <<pendingTxs, recorded>>
      PROVE  SubmitterOK' /\ Grows /\ \A u \in Tasks : sub'[u].orders = sub[u].orders
  <2>1. /\ sub' \in [Tasks -> Submissions] /\ Chained'
        /\ \A u \in Tasks : sub'[u].orders = sub[u].orders
    BY <1>0, <1>2, <1>4, FinishOK DEF Errors
  <2> QED BY <1>0, <1>2, <1>4, <2>1 DEF SubmitterOK, SubmitterTypeOK
<1> QED BY <1>3, <1>4, Zenon DEF receipt

(* A wait that gave up.                                                    *)
LEMMA NoReceiptOK ==
    ASSUME NEW t \in Tasks, SubmitterOK, noReceipt(t)
    PROVE  SubmitterOK' /\ Grows /\ \A u \in Tasks : sub'[u].orders = sub[u].orders
<1>0. /\ SubmitterTypeOK /\ Chained /\ UNCHANGED <<clock, spent, cancelLog, txs, pendingTxs, recorded>>
      /\ Finish(t, "transient")
  BY DEF SubmitterOK, noReceipt, chainVars, NoReceiptOutcome
<1>1. Grows /\ \A j \in DOMAIN txs' : TxMined(j)'
  <2>1. clock <= clock
    BY <1>0 DEF SubmitterTypeOK
  <2> QED BY <1>0, <2>1 DEF Grows, Cancelled, Chained, TxMined
<1>2. /\ sub' \in [Tasks -> Submissions] /\ Chained'
      /\ \A u \in Tasks : sub'[u].orders = sub[u].orders
  BY <1>0, <1>1, FinishOK DEF Errors
<1> QED BY <1>0, <1>1, <1>2 DEF SubmitterOK, SubmitterTypeOK

(* Whatever a task does, types and chaining hold and its orders stay.      *)
LEMMA TaskOK ==
    ASSUME NEW t \in Tasks, SubmitterOK, TaskStep(t)
    PROVE  SubmitterOK' /\ Grows /\ \A u \in Tasks : sub'[u].orders = sub[u].orders
BY EstimateOK, SendOK, ReceiptOK, NoReceiptOK DEF TaskStep

-----------------------------------------------------------------------------
(* The chain's own steps.                                                  *)

(* A nonempty set of naturals has a least element.                         *)
LEMMA LeastOf ==
    ASSUME NEW T \in SUBSET Nat, T # {}
    PROVE  (CHOOSE j \in T : \A k \in T : j <= k) \in T
<1>1. PICK x \in T : \A y \in T : ~(<<y, x>> \in OpToRel(<, Nat))
  BY NatLessThanWellFounded, WFMin
<1>2. \A y \in T : ~(y < x)
  BY <1>1 DEF OpToRel
<1>3. \A y \in T : x <= y
  BY <1>2
<1> QED BY <1>3

(* The oldest pending transaction is mined: its orders are spent, or it    *)
(* reverts.                                                                *)
LEMMA MineOK ==
    ASSUME NEW r \in Relayers, SubmitterOK, Mine(r)
    PROVE  SubmitterOK' /\ Grows /\ UNCHANGED sub
<1> DEFINE i == CHOOSE j \in Pending(r) : \A k \in Pending(r) : j <= k
           ok == Settles(txs[i].orders)
<1>0. /\ SubmitterTypeOK /\ Chained /\ UNCHANGED <<clock, cancelLog, pendingTxs, recorded, sub>>
      /\ txs' = [txs EXCEPT ![i].state = IF ok THEN "ok" ELSE "reverted"]
      /\ spent' = IF ok THEN spent \cup txs[i].orders ELSE spent
  BY DEF SubmitterOK, Mine, submitterVars
<1>1. i \in DOMAIN txs
  <2>1. Pending(r) \in SUBSET Nat /\ Pending(r) # {}
    BY <1>0 DEF Pending, SubmitterTypeOK, Mine
  <2>2. i \in Pending(r)
    BY <2>1, LeastOf, Zenon
  <2> QED BY <2>2 DEF Pending
<1> HIDE DEF i, ok
<1>2. txs[i] \in Txs /\ txs[i].orders \subseteq Orders /\ txs \in Seq(Txs)
  <2>1. txs \in Seq(Txs)
    BY <1>0 DEF SubmitterTypeOK
  <2>2. txs[i] \in Txs
    BY <1>1, <2>1
  <2> QED BY <2>1, <2>2 DEF Txs
<1> DEFINE x == [txs[i] EXCEPT !.state = IF ok THEN "ok" ELSE "reverted"]
<1>3. x \in Txs /\ x.orders = txs[i].orders /\ (x.state = "ok" <=> ok)
  BY <1>2 DEF Txs
<1>4. txs' = [txs EXCEPT ![i] = x]
  BY <1>0
<1> HIDE DEF x
<1>5. /\ txs' \in Seq(Txs) /\ Len(txs)' = Len(txs) /\ DOMAIN txs' = DOMAIN txs
      /\ txs'[i] = x /\ \A j \in DOMAIN txs : j # i => txs'[j] = txs[j]
  BY <1>1, <1>2, <1>3, <1>4
<1>6. Len(txs)' <= MaxTxs /\ spent \subseteq spent' /\ spent' \subseteq Orders
  BY <1>0, <1>2, <1>5 DEF SubmitterTypeOK
<1>7. Grows
  <2>1. clock <= clock
    BY <1>0 DEF SubmitterTypeOK
  <2> QED BY <1>0, <1>3, <1>5, <1>6, <2>1 DEF Grows, Cancelled
<1>8. Chained'
  <2>1. ASSUME NEW j \in DOMAIN txs' PROVE TxMined(j)'
    <3>1. CASE j = i
      BY <1>0, <1>3, <1>5, <3>1 DEF TxMined
    <3>2. CASE j # i
      BY <1>0, <1>5, <1>6, <3>2 DEF TxMined, Chained
    <3> QED BY <3>1, <3>2
  <2>2. ASSUME NEW t \in Tasks PROVE TaskWaits(t)' /\ TaskBooked(t)'
    BY <1>0, <1>7 DEF Chained, TaskWaits, TaskBooked, Grows, SubmitterTypeOK
  <2> QED BY <2>1, <2>2 DEF Chained
<1> QED BY <1>0, <1>5, <1>6, <1>7, <1>8 DEF SubmitterOK, SubmitterTypeOK

(* The chain only adds: settlements, cancels and time.                     *)
LEMMA ChainOK ==
    ASSUME SubmitterOK, ChainStep
    PROVE  SubmitterOK' /\ Grows /\ UNCHANGED sub
<1>0. SubmitterTypeOK /\ Chained
  BY DEF SubmitterOK
<1>1. ASSUME NEW r \in Relayers, Mine(r) PROVE SubmitterOK' /\ Grows /\ UNCHANGED sub
  BY <1>1, MineOK
<1>2. ASSUME NEW o \in Orders, cancelPrivate(o) PROVE SubmitterOK' /\ Grows /\ UNCHANGED sub
  <2>1. /\ cancelLog' = Append(cancelLog, o)
        /\ UNCHANGED <<clock, spent, txs, pendingTxs, recorded, sub>>
    BY <1>2 DEF cancelPrivate, submitterVars
  <2>2. /\ cancelLog' \in Seq(Orders)
        /\ \A i \in DOMAIN cancelLog : i \in DOMAIN cancelLog' /\ cancelLog'[i] = cancelLog[i]
    BY <1>0, <2>1 DEF SubmitterTypeOK
  <2>3. Cancelled \subseteq Cancelled'
    BY <2>2 DEF Cancelled
  <2>4. Grows
    BY <1>0, <2>1, <2>3 DEF Grows, SubmitterTypeOK
  <2>5. Chained'
    BY <1>0, <2>1 DEF Chained, TxMined, TaskWaits, TaskBooked
  <2> QED BY <1>0, <2>1, <2>2, <2>4, <2>5 DEF SubmitterOK, SubmitterTypeOK
<1>3. ASSUME Tick PROVE SubmitterOK' /\ Grows /\ UNCHANGED sub
  <2>1. /\ clock < MaxTime /\ clock' = clock + 1
        /\ UNCHANGED <<spent, cancelLog, txs, pendingTxs, recorded, sub>>
    BY <1>3 DEF Tick, submitterVars
  <2>2. clock' \in 0..MaxTime /\ clock <= clock'
    BY <1>0, <2>1, SubmitterAssumption DEF SubmitterTypeOK
  <2>3. Grows
    BY <2>1, <2>2 DEF Grows, Cancelled
  <2>4. Chained'
    BY <1>0, <2>1 DEF Chained, TxMined, TaskWaits, TaskBooked
  <2> QED BY <1>0, <2>1, <2>2, <2>3, <2>4 DEF SubmitterOK, SubmitterTypeOK
<1> QED BY <1>1, <1>2, <1>3, Zenon DEF ChainStep

-----------------------------------------------------------------------------
(* Jobs.                                                                   *)

(* The job a worker is on: its orders are its relayer's, they are what its *)
(* task submits, the entries it reaches are theirs, and a process that     *)
(* does not run has none.                                                  *)
JobOK(r) ==
    /\ worker[r].orders \subseteq Own(r)
    /\ worker[r].job \in Orders => worker[r].job \in worker[r].orders
    /\ sub[WorkerOf[r]].orders = worker[r].orders
    /\ held[WorkerOf[r]] \subseteq worker[r].orders
    /\ up[r] # "up" => worker[r].orders = {}
JobsMatch == \A r \in Relayers : JobOK(r)

(* What holds of the queue whatever else writes rows and entries.          *)
QueueBase == SubmitterOK /\ QueueVarsOK /\ JobsMatch

(* Each relayer's worker has a task of its own.                            *)
LEMMA OwnTask ==
    ASSUME NEW r \in Relayers, NEW s \in Relayers, r # s
    PROVE  WorkerOf[r] # WorkerOf[s]
BY QueueAssumption

(* Counting orders down never leaves the naturals.                         *)
LEMMA DecType ==
    ASSUME NEW S, IsFiniteSet(S), slots \in [Keys -> Nat]
    PROVE  decPubKeyCount(S) \in [Keys -> Nat]
<1>1. ASSUME NEW k \in Keys
      PROVE  Decremented(slots[k], Cardinality({o \in S : KeyOf[o] = k})) \in Nat
  <2> DEFINE d == Cardinality({o \in S : KeyOf[o] = k})
  <2>1. IsFiniteSet({o \in S : KeyOf[o] = k})
    BY FS_Subset
  <2>2. d \in Nat
    BY <2>1, FS_CardinalityType
  <2>3. slots[k] \in Nat
    OBVIOUS
  <2> HIDE DEF d
  <2>4. Decremented(slots[k], d) \in Nat
    BY <2>2, <2>3 DEF Decremented
  <2> QED BY <2>4 DEF d
<1> QED BY <1>1 DEF decPubKeyCount

(* A step that leaves chain and submissions alone.                         *)
LEMMA SameSubmitter ==
    ASSUME SubmitterOK, UNCHANGED <<chainVars, submitterVars>>
    PROVE  SubmitterOK' /\ Grows
<1>1. /\ UNCHANGED <<clock, spent, cancelLog, txs, pendingTxs, recorded, sub>>
      /\ SubmitterTypeOK /\ Chained
  BY DEF chainVars, submitterVars, SubmitterOK
<1>2. Chained'
  BY <1>1 DEF Chained, TxMined, TaskWaits, TaskBooked
<1>3. clock <= clock
  BY <1>1 DEF SubmitterTypeOK
<1> QED BY <1>1, <1>2, <1>3 DEF SubmitterOK, SubmitterTypeOK, Grows, Cancelled

(* What the base says of the variables.                                    *)
LEMMA Parts ==
    ASSUME QueueBase
    PROVE  /\ SubmitterOK /\ SubmitterTypeOK /\ Chained /\ QueueVarsOK /\ JobsMatch
           /\ row \in [Orders -> Statuses \cup {"none"}] /\ mem \in [Orders -> Statuses \cup {"none"}]
           /\ held \in [Tasks -> SUBSET Orders] /\ slots \in [Keys -> Nat]
           /\ up \in [Relayers -> {"up", "down", "scanned"}]
           /\ \A o \in Orders : WorkerOf[Owner[o]] \in Tasks /\ Owner[o] \in Relayers
           /\ \A r \in Relayers : WorkerOf[r] \in Tasks
           /\ \A S \in SUBSET Orders : IsFiniteSet(S)
<1>1. \A S \in SUBSET Orders : IsFiniteSet(S)
  BY SubmitterAssumption, FS_Subset
<1> QED BY <1>1, QueueAssumption DEF QueueBase, SubmitterOK, QueueVarsOK

-----------------------------------------------------------------------------
(* What a step of the queue does to one order: to its row, its entry, the  *)
(* references to the entry, and the job it may be on.                      *)

OnTheJob(o) == o \in worker[Owner[o]].orders
IsTheJob(o) == o = worker[Owner[o]].job
JobTask(o) == WorkerOf[Owner[o]]
SameReach(o) == \A t \in Tasks : o \in held'[t] <=> o \in held[t]
Dropped(o) == \A t \in Tasks : o \notin held'[t]
OthersReach(o) == \A t \in Tasks \ {JobTask(o)} : o \in held'[t] <=> o \in held[t]
SameJob(o) ==
    \/ worker'[Owner[o]] = worker[Owner[o]]
    \/ ~OnTheJob(o) /\ ~OnTheJob(o)' /\ ~IsTheJob(o)'
NotBooted(o) == up'[Owner[o]] = "up" => up[Owner[o]] = "up"

Rests(o) == row'[o] = row[o] /\ mem'[o] = mem[o] /\ SameReach(o)

(* Requests: accepted, or withdrawn because it failed and comes again.     *)
Accepted(o) == row[o] = "none" /\ row'[o] = "accepted" /\ mem'[o] = "accepted" /\ Dropped(o)
Withdrawn(o) == row[o] = "failed" /\ row'[o] = "none" /\ mem'[o] = "none" /\ Dropped(o)

(* Timers: parked by the worker, expired, or past its retention.           *)
Parked(o) ==
    /\ row[o] \in {"accepted", "retrying"} /\ row'[o] = "accepted"
    /\ mem'[o] = mem[o] /\ SameReach(o)
Swept(o) ==
    /\ Expired(o) /\ row[o] \in SweepStatuses /\ row'[o] = "expired"
    /\ mem'[o] = mem[o] /\ SameReach(o)
Purged(o) ==
    /\ \/ mem'[o] = mem[o] /\ SameReach(o)
       \/ /\ mem[o] \in TERMINAL_STATUSES \/ (mem[o] \in LIVE_STATUSES /\ Expired(o))
          /\ mem'[o] = "none" /\ Dropped(o)
    /\ row'[o] = row[o] \/ (~RetainForever /\ row[o] \in TERMINAL_STATUSES /\ row'[o] = "none")

(* Cancelled by the operator or on chain: the entry goes, the row stays.   *)
Dismissed(o) ==
    /\ mem[o] \in LIVE_STATUSES \/ o \in Cancelled
    /\ mem'[o] = "none" /\ Dropped(o)
    /\ row'[o] = IF row[o] = "none" THEN "none" ELSE "cancelled"

(* The worker claims it, or takes it as the counterparty of its job.       *)
Claimed(o) ==
    /\ ~OnTheJob(o) /\ OnTheJob(o)' /\ IsTheJob(o)' /\ OthersReach(o)
    /\ row[o] \in {"accepted", "retrying"} /\ row'[o] = "settling"
    /\ mem'[o] = IF mem[o] = "none" THEN "none" ELSE "matched"
    /\ o \in held'[JobTask(o)] <=> mem[o] # "none"
Paired(o) ==
    /\ ~OnTheJob(o) /\ OnTheJob(o)' /\ ~IsTheJob(o)' /\ OthersReach(o)
    /\ mem[o] \in LIVE_STATUSES /\ mem'[o] = "matched" /\ o \in held'[JobTask(o)]
    /\ row'[o] = row[o]

(* The job ends: settled and booked, or given back.                        *)
Booked(o) == o \in spent /\ \E i \in recorded : o \in txs[i].orders
LeavesJob(o) ==
    OnTheJob(o) /\ ~OnTheJob(o)' /\ ~IsTheJob(o)' /\ OthersReach(o) /\ o \notin held'[JobTask(o)]
Completed(o) ==
    /\ LeavesJob(o) /\ Booked(o)
    /\ row'[o] = IF row[o] = "none" THEN "none" ELSE "settled"
    /\ mem'[o] = IF o \in held[JobTask(o)] THEN "settled" ELSE mem[o]
GivenBack(o) ==
    /\ LeavesJob(o) /\ ~IsTheJob(o)
    /\ row'[o] = row[o]
    /\ mem'[o] = IF o \in held[JobTask(o)] THEN "pending" ELSE mem[o]
Judged(o) ==
    /\ LeavesJob(o) /\ IsTheJob(o)
    /\ \E s \in {"failed", "dead_letter", "retrying"} :
          /\ row'[o] = IF row[o] = "none" THEN "none" ELSE s
          /\ mem'[o] = IF o \in held[JobTask(o)] THEN s ELSE mem[o]

(* Boot loads the entry from the row.                                      *)
Restored(o) ==
    /\ up[Owner[o]] # "up" /\ SameReach(o)
    /\ mem'[o] = IF row[o] \in LIVE_STATUSES \cup IN_FLIGHT_STATUSES THEN row[o] ELSE mem[o]
    /\ row'[o] = IF row[o] = "settling" THEN "accepted" ELSE row[o]

QuietMove(o) ==
    \/ Rests(o) \/ Accepted(o) \/ Withdrawn(o)
    \/ Parked(o) \/ Swept(o) \/ Purged(o) \/ Dismissed(o)
JobMove(o) ==
    \/ Claimed(o) \/ Paired(o)
    \/ Completed(o) \/ GivenBack(o) \/ Judged(o)
Moves(o) ==
    \/ SameJob(o) /\ NotBooted(o) /\ QuietMove(o)
    \/ up[Owner[o]] = "up" /\ up'[Owner[o]] = "up" /\ JobMove(o)
    \/ SameJob(o) /\ Restored(o)

(* A step that keeps the base, takes nothing back, and moves each order in *)
(* one of these ways.                                                      *)
OrdersMove ==
    /\ QueueBase' /\ Grows /\ crashes' = crashes
    /\ \A q \in Relayers : up[q] = "up" => up'[q] = "up"
    /\ \A o \in Orders : Moves(o)

(* The tasks that are no worker's do not move.                             *)
OthersWait == \A t \in Tasks : (\A q \in Relayers : t # WorkerOf[q]) => sub'[t] = sub[t]
QueueMoves == OrdersMove /\ OthersWait

(* A step on rows and entries alone.                                       *)
LEMMA QuietStep ==
    ASSUME QueueBase, UNCHANGED <<chainVars, submitterVars, worker, up, crashes>>, QueueVarsOK',
           \A t \in Tasks : held'[t] \subseteq held[t],
           \A o \in Orders : QuietMove(o)
    PROVE  QueueMoves
<1>1. SubmitterOK' /\ Grows /\ UNCHANGED sub
  BY Parts, SameSubmitter DEF submitterVars
<1>2. JobsMatch'
  <2>1. ASSUME NEW r \in Relayers PROVE JobOK(r)'
    <3>1. WorkerOf[r] \in Tasks /\ JobOK(r)
      BY Parts DEF JobsMatch
    <3> QED BY <1>1, <3>1 DEF JobOK, Own
  <2> QED BY <2>1 DEF JobsMatch
<1>3. \A o \in Orders : SameJob(o) /\ NotBooted(o)
  BY DEF SameJob, NotBooted
<1> QED BY <1>1, <1>2, <1>3 DEF QueueMoves, OrdersMove, OthersWait, QueueBase, Moves

(* A step outside the queue: its own variables stay.                       *)
LEMMA OutsideStep ==
    ASSUME QueueBase, SubmitterOK', Grows, UNCHANGED queueVars,
           Len(cancelLog) <= Len(cancelLog)',
           \A t \in Tasks : sub'[t].orders = sub[t].orders
    PROVE  OrdersMove
<1>0. /\ QueueVarsOK /\ JobsMatch /\ SubmitterTypeOK /\ SubmitterTypeOK'
      /\ UNCHANGED <<row, attempt, mem, slots, posts, worker, held, cursor, up, crashes, failures>>
  BY Parts DEF SubmitterOK, queueVars
<1>1. QueueVarsOK'
  <2>1. /\ Len(cancelLog) \in Nat /\ Len(cancelLog)' \in Nat
        /\ cursor \in [Relayers -> 0..Len(cancelLog)]
    BY <1>0 DEF SubmitterTypeOK, QueueVarsOK
  <2>2. cursor' \in [Relayers -> 0..Len(cancelLog)']
    BY <1>0, <2>1
  <2> QED BY <1>0, <2>2 DEF QueueVarsOK
<1>2. JobsMatch'
  <2>1. ASSUME NEW r \in Relayers PROVE JobOK(r)'
    <3>1. WorkerOf[r] \in Tasks /\ JobOK(r)
      BY <1>0, Parts DEF JobsMatch
    <3> QED BY <1>0, <3>1 DEF JobOK, Own
  <2> QED BY <2>1 DEF JobsMatch
<1>3. \A o \in Orders : SameJob(o) /\ NotBooted(o) /\ Rests(o)
  BY <1>0 DEF SameJob, NotBooted, Rests, SameReach
<1> QED BY <1>0, <1>1, <1>2, <1>3 DEF OrdersMove, QueueBase, Moves, QuietMove

(* The chain, and the worker's own submission.                             *)
LEMMA EnvironmentMoves ==
    ASSUME QueueBase, Environment
    PROVE  QueueMoves
<1>1. SubmitterOK' /\ Grows /\ UNCHANGED sub
  BY ChainOK, Parts DEF Environment
<1>2. Len(cancelLog) <= Len(cancelLog)'
  <2>1. cancelLog \in Seq(Orders)
    BY Parts DEF SubmitterTypeOK
  <2>2. UNCHANGED cancelLog \/ \E o \in Orders : cancelLog' = Append(cancelLog, o)
    BY DEF Environment, ChainStep, Mine, cancelPrivate, Tick
  <2>3. CASE UNCHANGED cancelLog
    BY <2>1, <2>3
  <2>4. ASSUME NEW o \in Orders, cancelLog' = Append(cancelLog, o)
        PROVE  Len(cancelLog) <= Len(cancelLog)'
    BY <2>1, <2>4
  <2> QED BY <2>2, <2>3, <2>4
<1> QED BY <1>1, <1>2, OutsideStep DEF Environment, QueueMoves, OthersWait

(* A task moves alone.                                                     *)
LEMMA OnlyOneTask ==
    ASSUME SubmitterOK, NEW t \in Tasks, TaskStep(t)
    PROVE  UNCHANGED cancelLog /\ \A u \in Tasks \ {t} : sub'[u] = sub[u]
<1>1. sub \in [Tasks -> Submissions]
  BY DEF SubmitterOK, SubmitterTypeOK
<1>2. UNCHANGED cancelLog
  BY DEF TaskStep, estimateAndGuard, send, receipt, noReceipt, chainVars
<1>3. \E s : sub' = [sub EXCEPT ![t] = s]
  <2>1. (\E e : Finish(t, e)) => \E s : sub' = [sub EXCEPT ![t] = s]
    BY Zenon DEF Finish
  <2>2. CASE estimateAndGuard(t)
    <3>1. \/ sub' = [sub EXCEPT ![t].at = "sending"]
          \/ \E e : Finish(t, e)
      BY <2>2, Zenon DEF estimateAndGuard
    <3> QED BY <2>1, <3>1
  <2>3. CASE send(t)
    <3>1. \/ sub' = [sub EXCEPT ![t] = Waiting(t)]
          \/ SendAgain(t)
          \/ \E e : Finish(t, e)
      BY <2>3, Zenon DEF send
    <3>2. SendAgain(t) => \/ sub' = [sub EXCEPT ![t].tries = @ + 1]
                          \/ \E e : Finish(t, e)
      BY Zenon DEF SendAgain
    <3> QED BY <2>1, <3>1, <3>2
  <2>4. CASE receipt(t) \/ noReceipt(t)
    BY <2>1, <2>4, Zenon DEF receipt, noReceipt
  <2> QED BY <2>2, <2>3, <2>4, Zenon DEF TaskStep
<1> QED BY <1>1, <1>2, <1>3

(* A step of the worker's own submission.                                  *)
LEMMA SubmissionMoves ==
    ASSUME QueueBase, NEW r \in Relayers, Submission(r)
    PROVE  QueueMoves
<1>1. WorkerOf[r] \in Tasks /\ SubmitterOK
  BY Parts
<1>2. SubmitterOK' /\ Grows /\ \A u \in Tasks : sub'[u].orders = sub[u].orders
  BY <1>1, TaskOK DEF Submission
<1>3. UNCHANGED cancelLog /\ \A u \in Tasks \ {WorkerOf[r]} : sub'[u] = sub[u]
  BY <1>1, OnlyOneTask DEF Submission
<1>4. Len(cancelLog) <= Len(cancelLog)'
  BY <1>1, <1>3 DEF SubmitterOK, SubmitterTypeOK
<1> QED BY <1>2, <1>3, <1>4, OutsideStep DEF Submission, QueueMoves, OthersWait

-----------------------------------------------------------------------------
(* Requests.                                                               *)

(* A request begins: a failed order's row and entry go first.              *)
LEMMA PostStartMoves ==
    ASSUME QueueBase, NEW p \in Posts, NEW o \in Orders, PostStart(p, o)
    PROVE  QueueMoves
<1>0. /\ QueueVarsOK
      /\ UNCHANGED <<chainVars, submitterVars, attempt, slots, worker, cursor, up, crashes, failures>>
      /\ row' = IF IsRetry(o) THEN [row EXCEPT ![o] = "none"] ELSE row
      /\ mem' = IF IsRetry(o) THEN [mem EXCEPT ![o] = "none"] ELSE mem
      /\ held' = IF IsRetry(o) THEN Detached({o}) ELSE held
      /\ posts' = [posts EXCEPT ![p] = [at |-> "binding", order |-> o]]
  BY Parts DEF PostStart
<1>1. UNCHANGED cancelLog
  BY <1>0 DEF chainVars
<1>2. /\ row \in [Orders -> Statuses \cup {"none"}] /\ mem \in [Orders -> Statuses \cup {"none"}]
      /\ held \in [Tasks -> SUBSET Orders]
  BY Parts
<1>3. /\ row' \in [Orders -> Statuses \cup {"none"}] /\ mem' \in [Orders -> Statuses \cup {"none"}]
      /\ held' \in [Tasks -> SUBSET Orders]
  BY <1>0, <1>2 DEF Detached
<1>4. posts' \in [Posts -> [at : {"idle", "binding", "verifying"}, order : Orders \cup {NoOrder}]]
  BY <1>0 DEF QueueVarsOK
<1>5. QueueVarsOK'
  BY <1>0, <1>1, <1>3, <1>4 DEF QueueVarsOK
<1>6. \A t \in Tasks : held'[t] \subseteq held[t]
  BY <1>0, <1>2 DEF Detached
<1>7. ASSUME NEW x \in Orders PROVE Withdrawn(x) \/ Rests(x)
  <2>1. CASE IsRetry(o) /\ x = o
    BY <1>0, <1>2, <2>1 DEF IsRetry, Withdrawn, Dropped, Detached
  <2>2. CASE ~(IsRetry(o) /\ x = o)
    BY <1>0, <1>2, <2>2 DEF Rests, SameReach, Detached
  <2> QED BY <2>1, <2>2
<1> QED BY <1>0, <1>5, <1>6, <1>7, QuietStep DEF QuietMove

(* A slot is taken, or the request ends.                                   *)
LEMMA PostReserveMoves ==
    ASSUME QueueBase, NEW p \in Posts, PostReserve(p)
    PROVE  QueueMoves
<1>0. /\ QueueVarsOK
      /\ UNCHANGED <<chainVars, submitterVars, row, attempt, mem, worker, held, cursor, up, crashes,
                     failures>>
  BY Parts DEF PostReserve
<1>1. UNCHANGED cancelLog
  BY <1>0 DEF chainVars
<1>2. posts[p] \in [at : {"idle", "binding", "verifying"}, order : Orders \cup {NoOrder}]
  BY <1>0 DEF QueueVarsOK
<1>3. posts' \in [Posts -> [at : {"idle", "binding", "verifying"}, order : Orders \cup {NoOrder}]]
  <2> DEFINE x == [posts[p] EXCEPT !.at = "verifying"]
  <2>1. /\ x \in [at : {"idle", "binding", "verifying"}, order : Orders \cup {NoOrder}]
        /\ NoPost \in [at : {"idle", "binding", "verifying"}, order : Orders \cup {NoOrder}]
    BY <1>2 DEF NoPost
  <2>2. posts' = [posts EXCEPT ![p] = x] \/ posts' = [posts EXCEPT ![p] = NoPost]
    BY DEF PostReserve
  <2> HIDE DEF x
  <2> QED BY <1>0, <2>1, <2>2 DEF QueueVarsOK
<1>4. slots' \in [Keys -> Nat]
  <2>1. slots \in [Keys -> Nat]
    BY Parts
  <2>2. UNCHANGED slots \/ \E k : slots' = incPubKeyCount(k)
    BY DEF PostReserve
  <2>3. ASSUME NEW k PROVE incPubKeyCount(k) \in [Keys -> Nat]
    <3>1. CASE k \in Keys
      BY <2>1, <3>1 DEF incPubKeyCount
    <3>2. CASE k \notin Keys
      <4>1. incPubKeyCount(k) = slots
        BY <2>1, <3>2 DEF incPubKeyCount
      <4> QED BY <2>1, <4>1
    <3> QED BY <3>1, <3>2
  <2> QED BY <2>1, <2>2, <2>3
<1>5. QueueVarsOK'
  BY <1>0, <1>1, <1>3, <1>4 DEF QueueVarsOK
<1>6. \A x \in Orders : Rests(x)
  BY <1>0 DEF Rests, SameReach
<1>7. \A t \in Tasks : held'[t] \subseteq held[t]
  BY <1>0
<1> QED BY <1>0, <1>5, <1>6, <1>7, QuietStep DEF QuietMove

(* The row and the entry of an accepted order appear together.             *)
LEMMA PostAcceptMoves ==
    ASSUME QueueBase, NEW p \in Posts, PostAccept(p)
    PROVE  QueueMoves
<1> DEFINE o == posts[p].order
<1>0. /\ QueueVarsOK
      /\ UNCHANGED <<chainVars, submitterVars, worker, cursor, up, crashes, failures>>
      /\ posts' = [posts EXCEPT ![p] = NoPost]
  BY Parts DEF PostAccept
<1>1. UNCHANGED cancelLog
  BY <1>0 DEF chainVars
<1>2. /\ row \in [Orders -> Statuses \cup {"none"}] /\ mem \in [Orders -> Statuses \cup {"none"}]
      /\ held \in [Tasks -> SUBSET Orders]
      /\ attempt \in [Orders -> 0..MAX_SETTLEMENT_ATTEMPTS] /\ slots \in [Keys -> Nat]
      /\ MAX_SETTLEMENT_ATTEMPTS \in Nat
  BY <1>0, QueueAssumption DEF QueueVarsOK
<1>3. posts' \in [Posts -> [at : {"idle", "binding", "verifying"}, order : Orders \cup {NoOrder}]]
  BY <1>0 DEF QueueVarsOK, NoPost
<1>4. CASE /\ row[o] = "none" /\ row' = [row EXCEPT ![o] = "accepted"]
           /\ attempt' = [attempt EXCEPT ![o] = 0] /\ mem' = [mem EXCEPT ![o] = "accepted"]
           /\ held' = Detached({o}) /\ UNCHANGED slots
  <2>1. /\ row' \in [Orders -> Statuses \cup {"none"}] /\ mem' \in [Orders -> Statuses \cup {"none"}]
    BY <1>2, <1>4 DEF Statuses, LIVE_STATUSES
  <2>2. held' \in [Tasks -> SUBSET Orders] /\ attempt' \in [Orders -> 0..MAX_SETTLEMENT_ATTEMPTS]
    <3>1. 0 \in 0..MAX_SETTLEMENT_ATTEMPTS
      BY <1>2
    <3>2. attempt' \in [Orders -> 0..MAX_SETTLEMENT_ATTEMPTS]
      BY <1>2, <1>4, <3>1
    <3>3. held' \in [Tasks -> SUBSET Orders]
      BY <1>2, <1>4 DEF Detached
    <3> QED BY <3>2, <3>3
  <2>3. QueueVarsOK'
    BY <1>0, <1>1, <1>2, <1>3, <1>4, <2>1, <2>2 DEF QueueVarsOK
  <2>4. \A t \in Tasks : held'[t] \subseteq held[t]
    BY <1>2, <1>4 DEF Detached
  <2>5. ASSUME NEW x \in Orders PROVE Accepted(x) \/ Rests(x)
    <3>1. CASE x = o
      BY <1>2, <1>4, <3>1 DEF Accepted, Dropped, Detached
    <3>2. CASE x # o
      BY <1>2, <1>4, <3>2 DEF Rests, SameReach, Detached
    <3> QED BY <3>1, <3>2
  <2> HIDE DEF o
  <2> QED BY <1>0, <2>3, <2>4, <2>5, QuietStep DEF QuietMove
<1>5. CASE slots' = decPubKeyCount({o}) /\ UNCHANGED <<row, attempt, mem, held>>
  <2>1. slots' \in [Keys -> Nat]
    BY <1>2, <1>5, DecType, FS_Singleton
  <2>2. QueueVarsOK'
    BY <1>0, <1>1, <1>3, <1>5, <2>1 DEF QueueVarsOK
  <2>3. \A x \in Orders : Rests(x)
    BY <1>5 DEF Rests, SameReach
  <2>4. \A t \in Tasks : held'[t] \subseteq held[t]
    BY <1>5
  <2> QED BY <1>0, <2>2, <2>3, <2>4, QuietStep DEF QuietMove
<1> QED BY <1>4, <1>5 DEF PostAccept

-----------------------------------------------------------------------------
(* Timers and administration.                                              *)

(* A parked order is still accepted.                                       *)
LEMMA DeferMoves ==
    ASSUME QueueBase, NEW r \in Relayers, deferAccepted(r)
    PROVE  QueueMoves
<1>1. PICK o \in Claimable(r) : row' = [row EXCEPT ![o] = "accepted"]
  BY DEF deferAccepted
<1>2. /\ QueueVarsOK
      /\ UNCHANGED <<chainVars, submitterVars, attempt, mem, slots, posts, worker, held, cursor,
                     failures, up, crashes>>
  BY Parts DEF deferAccepted, memVars
<1>3. UNCHANGED cancelLog
  BY <1>2 DEF chainVars
<1>4. /\ o \in Orders /\ row[o] \in {"accepted", "retrying"}
      /\ row \in [Orders -> Statuses \cup {"none"}]
  BY Parts DEF Claimable, Own
<1>5. QueueVarsOK'
  <2>1. row' \in [Orders -> Statuses \cup {"none"}]
    BY <1>1, <1>4 DEF Statuses, LIVE_STATUSES
  <2> QED BY <1>2, <1>3, <2>1 DEF QueueVarsOK
<1>6. ASSUME NEW x \in Orders PROVE Parked(x) \/ Rests(x)
  BY <1>1, <1>2, <1>4 DEF Parked, Rests, SameReach
<1>7. \A t \in Tasks : held'[t] \subseteq held[t]
  BY <1>2
<1> QED BY <1>2, <1>5, <1>6, <1>7, QuietStep DEF QuietMove

(* Expired rows are swept.                                                 *)
LEMMA SweepMoves ==
    ASSUME QueueBase, NEW r \in Relayers, sweepExpired(r)
    PROVE  QueueMoves
<1>1. /\ QueueVarsOK
      /\ UNCHANGED <<chainVars, submitterVars, attempt, mem, slots, posts, worker, held, cursor,
                     failures, up, crashes>>
      /\ row' = [o \in Orders |-> IF o \in Own(r) /\ row[o] \in SweepStatuses /\ Expired(o)
                                  THEN "expired" ELSE row[o]]
  BY Parts DEF sweepExpired, memVars
<1>2. UNCHANGED cancelLog
  BY <1>1 DEF chainVars
<1>3. QueueVarsOK'
  <2>1. row' \in [Orders -> Statuses \cup {"none"}]
    BY <1>1 DEF QueueVarsOK, Statuses, TERMINAL_STATUSES
  <2> QED BY <1>1, <1>2, <2>1 DEF QueueVarsOK
<1>4. ASSUME NEW x \in Orders PROVE Swept(x) \/ Rests(x)
  BY <1>1 DEF Swept, Rests, SameReach
<1>5. \A t \in Tasks : held'[t] \subseteq held[t]
  BY <1>1
<1> QED BY <1>1, <1>3, <1>4, <1>5, QuietStep DEF QuietMove

(* Entries that leave the map leave every reference too.                   *)
LEMMA Removal ==
    ASSUME QueueBase, NEW S \in SUBSET Orders, mem' = Set(mem, S, "none"), held' = Detached(S)
    PROVE  /\ mem' \in [Orders -> Statuses \cup {"none"}] /\ held' \in [Tasks -> SUBSET Orders]
           /\ \A t \in Tasks : held'[t] \subseteq held[t]
           /\ \A o \in S : mem'[o] = "none" /\ Dropped(o)
           /\ \A o \in Orders \ S : mem'[o] = mem[o] /\ SameReach(o)
<1>1. mem \in [Orders -> Statuses \cup {"none"}] /\ held \in [Tasks -> SUBSET Orders]
  BY Parts
<1>2. mem' \in [Orders -> Statuses \cup {"none"}] /\ held' \in [Tasks -> SUBSET Orders]
  BY <1>1 DEF Set, Detached
<1>3. \A o \in Orders : mem'[o] = IF o \in S THEN "none" ELSE mem[o]
  BY DEF Set
<1>4. \A t \in Tasks : held[t] \subseteq Orders /\ held'[t] = held[t] \ S
  BY <1>1 DEF Detached
<1> QED BY <1>2, <1>3, <1>4 DEF Dropped, SameReach

(* The purge takes no live entry before its time and no row that is not    *)
(* final.                                                                  *)
LEMMA PurgeMoves ==
    ASSUME QueueBase, NEW r \in Relayers, purgeNonPending(r)
    PROVE  QueueMoves
<1>0. /\ QueueVarsOK
      /\ UNCHANGED <<chainVars, submitterVars, attempt, posts, worker, cursor, up, crashes, failures>>
      /\ slots' = decPubKeyCount(PurgeReleases(Purgeable(r)))
      /\ mem' = Set(mem, Purgeable(r), "none")
      /\ held' = Detached(Purgeable(r))
  BY Parts DEF purgeNonPending
<1>1. PICK old \in SUBSET {o \in Own(r) : row[o] \in TERMINAL_STATUSES} :
         /\ RetainForever => old = {}
         /\ row' = Set(row, old, "none")
  BY Zenon DEF purgeNonPending
<1>2. UNCHANGED cancelLog
  BY <1>0 DEF chainVars
<1>3. Purgeable(r) \in SUBSET Orders /\ PurgeReleases(Purgeable(r)) \in SUBSET Orders
  BY DEF Purgeable, PurgeReleases, Live, Own
<1>4. /\ mem' \in [Orders -> Statuses \cup {"none"}] /\ held' \in [Tasks -> SUBSET Orders]
      /\ \A t \in Tasks : held'[t] \subseteq held[t]
      /\ \A o \in Purgeable(r) : mem'[o] = "none" /\ Dropped(o)
      /\ \A o \in Orders \ Purgeable(r) : mem'[o] = mem[o] /\ SameReach(o)
  BY <1>0, <1>3, Removal
<1>5. QueueVarsOK'
  <2>1. row' \in [Orders -> Statuses \cup {"none"}]
    BY <1>0, <1>1 DEF QueueVarsOK, Set
  <2>2. slots' \in [Keys -> Nat]
    BY <1>0, <1>3, Parts, DecType
  <2> QED BY <1>0, <1>2, <1>4, <2>1, <2>2 DEF QueueVarsOK
<1>6. ASSUME NEW o \in Orders PROVE Purged(o)
  <2>1. row'[o] = row[o] \/ (~RetainForever /\ row[o] \in TERMINAL_STATUSES /\ row'[o] = "none")
    BY <1>1 DEF Set
  <2>2. o \in Purgeable(r) =>
          mem[o] \in TERMINAL_STATUSES \/ (mem[o] \in LIVE_STATUSES /\ Expired(o))
    BY DEF Purgeable
  <2> QED BY <1>4, <2>1, <2>2 DEF Purged
<1> QED BY <1>0, <1>4, <1>5, <1>6, QuietStep DEF QuietMove

(* Cancelling a set of orders: their entries go, their rows say so.        *)
LEMMA Dismissal ==
    ASSUME QueueBase, NEW S \in SUBSET Orders, NEW D \in SUBSET Orders,
           \A o \in S : mem[o] \in LIVE_STATUSES \/ o \in Cancelled,
           slots' = decPubKeyCount(D), row' = Marked(row, S, "cancelled"),
           mem' = Set(mem, S, "none"), held' = Detached(S)
    PROVE  /\ row' \in [Orders -> Statuses \cup {"none"}] /\ slots' \in [Keys -> Nat]
           /\ mem' \in [Orders -> Statuses \cup {"none"}] /\ held' \in [Tasks -> SUBSET Orders]
           /\ \A t \in Tasks : held'[t] \subseteq held[t]
           /\ \A o \in Orders : Rests(o) \/ Dismissed(o)
<1>1. /\ mem' \in [Orders -> Statuses \cup {"none"}] /\ held' \in [Tasks -> SUBSET Orders]
      /\ \A t \in Tasks : held'[t] \subseteq held[t]
      /\ \A o \in S : mem'[o] = "none" /\ Dropped(o)
      /\ \A o \in Orders \ S : mem'[o] = mem[o] /\ SameReach(o)
  BY Removal
<1>2. \A o \in Orders : row'[o] = IF o \in S /\ row[o] # "none" THEN "cancelled" ELSE row[o]
  BY DEF Marked
<1>3. row' \in [Orders -> Statuses \cup {"none"}]
  BY Parts DEF Marked, Statuses, TERMINAL_STATUSES
<1>4. slots' \in [Keys -> Nat]
  BY Parts, DecType
<1>5. ASSUME NEW o \in Orders PROVE Rests(o) \/ Dismissed(o)
  <2>1. CASE o \in S
    BY <1>1, <1>2, <2>1 DEF Dismissed
  <2>2. CASE o \notin S
    BY <1>1, <1>2, <2>2 DEF Rests
  <2> QED BY <2>1, <2>2
<1> QED BY <1>1, <1>3, <1>4, <1>5

(* Draining cancels the live orders, row and entry alike.                  *)
LEMMA DrainMoves ==
    ASSUME QueueBase, NEW r \in Relayers, drainAuthorizeOrders(r)
    PROVE  QueueMoves
<1> DEFINE S == Live(Own(r))
<1>0. /\ QueueVarsOK
      /\ UNCHANGED <<chainVars, submitterVars, attempt, posts, worker, cursor, up, crashes, failures>>
      /\ slots' = decPubKeyCount(S) /\ row' = Marked(row, S, "cancelled")
      /\ mem' = Set(mem, S, "none") /\ held' = Detached(S)
  BY Parts DEF drainAuthorizeOrders
<1>1. UNCHANGED cancelLog
  BY <1>0 DEF chainVars
<1>2. S \in SUBSET Orders /\ \A o \in S : mem[o] \in LIVE_STATUSES
  BY DEF Live, Own
<1> HIDE DEF S
<1>3. /\ row' \in [Orders -> Statuses \cup {"none"}] /\ slots' \in [Keys -> Nat]
      /\ mem' \in [Orders -> Statuses \cup {"none"}] /\ held' \in [Tasks -> SUBSET Orders]
      /\ \A t \in Tasks : held'[t] \subseteq held[t]
      /\ \A o \in Orders : Rests(o) \/ Dismissed(o)
  BY <1>0, <1>2, Dismissal
<1>4. QueueVarsOK'
  BY <1>0, <1>1, <1>3 DEF QueueVarsOK
<1> QED BY <1>0, <1>3, <1>4, QuietStep DEF QuietMove

(* Applying cancels to rows and entries touches cancelled orders only.     *)
LEMMA ApplyCancels ==
    ASSUME QueueBase, NEW r \in Relayers, applyOnChainAuthorizeCancel(NewCancels(r))
    PROVE  /\ row' \in [Orders -> Statuses \cup {"none"}] /\ slots' \in [Keys -> Nat]
           /\ mem' \in [Orders -> Statuses \cup {"none"}] /\ held' \in [Tasks -> SUBSET Orders]
           /\ \A t \in Tasks : held'[t] \subseteq held[t]
           /\ \A o \in Orders : Rests(o) \/ Dismissed(o)
<1> DEFINE S == {o \in NewCancels(r) : mem[o] # "none"}
<1>0. /\ slots' = decPubKeyCount(Live(S)) /\ row' = Marked(row, S, "cancelled")
      /\ mem' = Set(mem, S, "none") /\ held' = Detached(S)
  BY DEF applyOnChainAuthorizeCancel
<1>1. S \in SUBSET Orders /\ Live(S) \in SUBSET Orders
  BY DEF NewCancels, Own, Live
<1>2. S \subseteq Cancelled
  <2>1. cursor[r] \in Nat /\ cancelLog \in Seq(Orders)
    BY Parts DEF QueueVarsOK, SubmitterTypeOK
  <2> QED BY <2>1 DEF NewCancels, Cancelled
<1> HIDE DEF S
<1> QED BY <1>0, <1>1, <1>2, Dismissal

(* The poller applies the cancels it read.                                 *)
LEMMA IndexMoves ==
    ASSUME QueueBase, NEW r \in Relayers, indexCancels(r)
    PROVE  QueueMoves
<1>0. /\ QueueVarsOK /\ SubmitterTypeOK
      /\ UNCHANGED <<chainVars, submitterVars, attempt, posts, worker, up, crashes, failures>>
      /\ applyOnChainAuthorizeCancel(NewCancels(r))
      /\ cursor' = [cursor EXCEPT ![r] = Len(cancelLog)]
  BY Parts DEF indexCancels
<1>1. UNCHANGED cancelLog /\ Len(cancelLog) \in Nat
  BY <1>0 DEF chainVars, SubmitterTypeOK
<1>2. /\ row' \in [Orders -> Statuses \cup {"none"}] /\ slots' \in [Keys -> Nat]
      /\ mem' \in [Orders -> Statuses \cup {"none"}] /\ held' \in [Tasks -> SUBSET Orders]
      /\ \A t \in Tasks : held'[t] \subseteq held[t]
      /\ \A o \in Orders : Rests(o) \/ Dismissed(o)
  BY <1>0, ApplyCancels
<1>3. QueueVarsOK'
  <2>1. cursor' \in [Relayers -> 0..Len(cancelLog)]
    BY <1>0, <1>1 DEF QueueVarsOK
  <2> QED BY <1>0, <1>1, <1>2, <2>1 DEF QueueVarsOK
<1> QED BY <1>0, <1>2, <1>3, QuietStep DEF QuietMove

-----------------------------------------------------------------------------
(* How jobs begin and end.                                                 *)

(* A submission that is begun or dropped owes no booking.                  *)
LEMMA Reset ==
    ASSUME SubmitterOK, UNCHANGED <<chainVars, pendingTxs, recorded>>,
           NEW t \in Tasks, NEW s \in Submissions, s.at \notin {"waiting", "done"},
           sub' = [sub EXCEPT ![t] = s]
    PROVE  SubmitterOK' /\ Grows /\ sub'[t] = s /\ \A u \in Tasks \ {t} : sub'[u] = sub[u]
<1>1. /\ UNCHANGED <<clock, spent, cancelLog, txs, pendingTxs, recorded>>
      /\ SubmitterTypeOK /\ Chained
  BY DEF chainVars, SubmitterOK
<1>2. /\ sub' \in [Tasks -> Submissions] /\ sub'[t] = s
      /\ \A u \in Tasks \ {t} : sub'[u] = sub[u]
  BY <1>1, OneTask
<1>3. clock <= clock
  BY <1>1 DEF SubmitterTypeOK
<1>4. Grows
  BY <1>1, <1>3 DEF Grows, Cancelled
<1>5. ASSUME NEW u \in Tasks PROVE TaskWaits(u)' /\ TaskBooked(u)'
  <2>1. CASE u = t
    BY <1>2, <2>1 DEF TaskWaits, TaskBooked
  <2>2. CASE u # t
    BY <1>1, <1>2, <2>2 DEF Chained, TaskWaits, TaskBooked
  <2> QED BY <2>1, <2>2
<1>6. Chained'
  BY <1>1, <1>5 DEF Chained, TxMined
<1> QED BY <1>1, <1>2, <1>4, <1>6 DEF SubmitterOK, SubmitterTypeOK

(* A job begins with a live row and its live counterparty.                 *)
LEMMA StartJobMoves ==
    ASSUME QueueBase, NEW r \in Relayers, NEW o \in Claimable(r), NEW S \in SUBSET Own(r),
           WorkerIdle(r), o \in S, StartJob(r, o, S),
           \A c \in S : c # o => mem[c] \in LIVE_STATUSES
    PROVE  QueueMoves
<1> DEFINE w == WorkerOf[r]
           s == [Idle EXCEPT !.at = "locking", !.orders = S]
<1>0. /\ SubmitterOK /\ QueueVarsOK /\ SubmitterTypeOK /\ JobsMatch
      /\ UNCHANGED <<chainVars, pendingTxs, recorded, attempt, slots, posts, cursor, up,
                     crashes, failures>>
      /\ row' = [row EXCEPT ![o] = "settling"]
      /\ mem' = [x \in Orders |-> IF x \in S /\ mem[x] # "none" THEN "matched" ELSE mem[x]]
      /\ worker' = [worker EXCEPT ![r] = [job |-> o, orders |-> S, attempt |-> attempt[o]]]
      /\ held' = [held EXCEPT ![w] = {x \in S : mem[x] # "none"}]
      /\ sub' = [sub EXCEPT ![w] = s]
      /\ up[r] = "up" /\ worker[r] = NoJob
      /\ o \in Orders /\ Owner[o] = r /\ row[o] \in {"accepted", "retrying"}
      /\ S \subseteq Orders /\ w \in Tasks
      /\ \A x \in Orders : WorkerOf[Owner[x]] \in Tasks /\ Owner[x] \in Relayers
  BY Parts, QueueAssumption DEF StartJob, WorkerIdle, Claimable, Own, Submit
<1>1. s \in Submissions /\ s.orders = S /\ s.at = "locking"
  <2>1. Idle \in Submissions
    BY SubmitterAssumption DEF Idle, Submissions
  <2> QED BY <1>0, <2>1 DEF Submissions
<1> HIDE DEF s, w
<1>2. SubmitterOK' /\ Grows /\ sub'[w] = s /\ \A u \in Tasks \ {w} : sub'[u] = sub[u]
  BY <1>0, <1>1, Reset
<1>3. UNCHANGED cancelLog /\ SubmitterTypeOK'
  BY <1>0, <1>2 DEF chainVars, SubmitterOK
<1>4. /\ row' \in [Orders -> Statuses \cup {"none"}]
      /\ \A x \in Orders : row'[x] = IF x = o THEN "settling" ELSE row[x]
  BY <1>0 DEF QueueVarsOK, Statuses, IN_FLIGHT_STATUSES
<1>5. /\ mem' \in [Orders -> Statuses \cup {"none"}]
      /\ \A x \in Orders : mem'[x] = IF x \in S /\ mem[x] # "none" THEN "matched" ELSE mem[x]
  BY <1>0 DEF QueueVarsOK, Statuses, IN_FLIGHT_STATUSES
<1>6. /\ held' \in [Tasks -> SUBSET Orders] /\ held'[w] = {x \in S : mem[x] # "none"}
      /\ \A t \in Tasks \ {w} : held'[t] = held[t]
  BY <1>0 DEF QueueVarsOK
<1>7. /\ worker' \in [Relayers -> [job : Orders \cup {NoOrder}, orders : SUBSET Orders,
                                  attempt : 0..MAX_SETTLEMENT_ATTEMPTS]]
      /\ worker'[r].job = o /\ worker'[r].orders = S
      /\ \A q \in Relayers \ {r} : worker'[q] = worker[q]
  <2> DEFINE j == [job |-> o, orders |-> S, attempt |-> attempt[o]]
  <2>1. /\ j \in [job : Orders \cup {NoOrder}, orders : SUBSET Orders,
                  attempt : 0..MAX_SETTLEMENT_ATTEMPTS]
        /\ j.job = o /\ j.orders = S
    BY <1>0 DEF QueueVarsOK
  <2>2. worker' = [worker EXCEPT ![r] = j]
    BY <1>0
  <2> HIDE DEF j
  <2> QED BY <1>0, <2>1, <2>2 DEF QueueVarsOK
<1>8. QueueVarsOK'
  BY <1>0, <1>3, <1>4, <1>5, <1>6, <1>7 DEF QueueVarsOK
<1>9. worker[r].orders = {} /\ worker[r].job = NoOrder /\ held[w] = {}
  <2>1. worker[r].orders = {} /\ worker[r].job = NoOrder
    BY <1>0 DEF NoJob
  <2>2. held[w] \subseteq worker[r].orders
    BY <1>0 DEF JobsMatch, JobOK, w
  <2> QED BY <2>1, <2>2
<1>10. JobsMatch'
  <2>1. JobOK(r)'
    BY <1>0, <1>1, <1>2, <1>6, <1>7 DEF JobOK, Own, w
  <2>2. ASSUME NEW q \in Relayers, q # r PROVE JobOK(q)'
    <3>1. WorkerOf[q] \in Tasks \ {w} /\ JobOK(q)
      BY <1>0, <2>2, OwnTask, QueueAssumption DEF w, JobsMatch
    <3> QED BY <1>0, <1>2, <1>6, <1>7, <2>2, <3>1 DEF JobOK, Own
  <2> QED BY <2>1, <2>2 DEF JobsMatch
<1>11. ASSUME NEW x \in Orders PROVE Moves(x)
  <2>0. x \in S => up[Owner[x]] = "up" /\ up'[Owner[x]] = "up"
    BY <1>0 DEF Own
  <2>1. ASSUME x \in S PROVE Claimed(x) \/ Paired(x)
    <3>1. Owner[x] = r /\ JobTask(x) = w
      BY <2>1 DEF Own, JobTask, w
    <3>2. ~OnTheJob(x) /\ OnTheJob(x)' /\ OthersReach(x) /\ (IsTheJob(x)' <=> x = o)
          /\ (x \in held'[JobTask(x)] <=> mem[x] # "none")
      BY <1>6, <1>7, <1>9, <2>1, <3>1 DEF OnTheJob, OthersReach, IsTheJob
    <3>3. CASE x = o
      BY <1>0, <1>4, <1>5, <2>1, <3>2, <3>3 DEF Claimed
    <3>4. CASE x # o
      <4>1. mem[x] \in LIVE_STATUSES /\ mem[x] # "none"
        BY <2>1, <3>4 DEF LIVE_STATUSES
      <4> QED BY <1>4, <1>5, <2>1, <3>2, <3>4, <4>1 DEF Paired
    <3> QED BY <3>3, <3>4
  <2>2. ASSUME x \notin S PROVE Rests(x) /\ SameJob(x) /\ NotBooted(x)
    <3>1. row'[x] = row[x] /\ mem'[x] = mem[x]
      BY <1>0, <1>4, <1>5, <2>2
    <3>2. SameReach(x)
      <4>1. x \notin held[w] /\ x \notin held'[w]
        BY <1>6, <1>9, <2>2
      <4> QED BY <1>6, <4>1 DEF SameReach
    <3>3. SameJob(x)
      <4>1. CASE Owner[x] = r
        BY <1>0, <1>7, <1>9, <2>2, <4>1 DEF SameJob, OnTheJob, IsTheJob
      <4>2. CASE Owner[x] # r
        BY <1>0, <1>7, <4>2 DEF SameJob
      <4> QED BY <4>1, <4>2
    <3>4. NotBooted(x)
      BY <1>0 DEF NotBooted
    <3> QED BY <3>1, <3>2, <3>3, <3>4 DEF Rests
  <2>3. CASE x \in S
    BY <2>0, <2>1, <2>3 DEF Moves, JobMove
  <2>4. CASE x \notin S
    BY <2>2, <2>4 DEF Moves, QuietMove
  <2> QED BY <2>3, <2>4
<1>12. OthersWait
  BY <1>2 DEF OthersWait, w
<1> QED BY <1>0, <1>2, <1>8, <1>10, <1>11, <1>12 DEF QueueMoves, OrdersMove, OthersWait, QueueBase

(* Both kinds of job.                                                      *)
LEMMA SettleMoves ==
    ASSUME QueueBase, NEW r \in Relayers, settleSameToken(r) \/ settleCrossToken(r)
    PROVE  QueueMoves
<1>1. CASE settleSameToken(r)
  <2>1. PICK o \in Claimable(r) : WorkerIdle(r) /\ StartJob(r, o, {o})
    BY <1>1 DEF settleSameToken
  <2>2. {o} \in SUBSET Own(r)
    BY DEF Claimable
  <2> QED BY <2>1, <2>2, StartJobMoves
<1>2. CASE settleCrossToken(r)
  <2>1. PICK o \in Claimable(r) : WorkerIdle(r) /\ \E c \in findMatch(o) : StartJob(r, o, {o, c})
    BY <1>2 DEF settleCrossToken
  <2>2. PICK c \in findMatch(o) : StartJob(r, o, {o, c})
    BY <2>1
  <2>3. {o, c} \in SUBSET Own(r) /\ mem[c] \in LIVE_STATUSES
    BY DEF Claimable, findMatch, Own
  <2> QED BY <2>1, <2>2, <2>3, StartJobMoves
<1> QED BY <1>1, <1>2

(* How a job ends: what its outcome must say of its rows and entries.      *)
Ends(x) ==
    \/ /\ Booked(x)
       /\ row'[x] = IF row[x] = "none" THEN "none" ELSE "settled"
       /\ mem'[x] = IF x \in held[JobTask(x)] THEN "settled" ELSE mem[x]
    \/ /\ ~IsTheJob(x)
       /\ row'[x] = row[x]
       /\ mem'[x] = IF x \in held[JobTask(x)] THEN "pending" ELSE mem[x]
    \/ /\ IsTheJob(x)
       /\ \E s \in {"failed", "dead_letter", "retrying"} :
             /\ row'[x] = IF row[x] = "none" THEN "none" ELSE s
             /\ mem'[x] = IF x \in held[JobTask(x)] THEN s ELSE mem[x]

(* The job is over and every order of it ends; the others rest.            *)
LEMMA JobEnds ==
    ASSUME QueueBase, NEW r \in Relayers, JobDone(r),
           row' \in [Orders -> Statuses \cup {"none"}], mem' \in [Orders -> Statuses \cup {"none"}],
           slots' \in [Keys -> Nat], attempt' \in [Orders -> 0..MAX_SETTLEMENT_ATTEMPTS],
           failures' \in [Relayers -> [count : 0..settlementFailureThreshold, alerted : BOOLEAN]],
           \A x \in Orders \ worker[r].orders : row'[x] = row[x] /\ mem'[x] = mem[x],
           \A x \in worker[r].orders : Ends(x)
    PROVE  QueueMoves
<1> DEFINE w == WorkerOf[r]
<1>0. /\ SubmitterOK /\ QueueVarsOK /\ SubmitterTypeOK /\ JobsMatch
      /\ UNCHANGED <<chainVars, pendingTxs, recorded, posts, cursor, up, crashes>>
      /\ worker' = [worker EXCEPT ![r] = NoJob]
      /\ held' = [held EXCEPT ![w] = {}]
      /\ sub' = [sub EXCEPT ![w] = Idle]
      /\ up[r] = "up" /\ w \in Tasks
      /\ \A x \in Orders : WorkerOf[Owner[x]] \in Tasks /\ Owner[x] \in Relayers
      /\ worker[r].orders \subseteq Own(r) /\ held[w] \subseteq worker[r].orders
  BY Parts, QueueAssumption DEF JobDone, Collected, JobsMatch, JobOK
<1>1. Idle \in Submissions /\ Idle.orders = {} /\ Idle.at = "idle"
  BY SubmitterAssumption DEF Idle, Submissions
<1> HIDE DEF w
<1>2. SubmitterOK' /\ Grows /\ sub'[w] = Idle /\ \A u \in Tasks \ {w} : sub'[u] = sub[u]
  BY <1>0, <1>1, Reset
<1>3. UNCHANGED cancelLog /\ SubmitterTypeOK'
  BY <1>0, <1>2 DEF chainVars, SubmitterOK
<1>6. /\ held' \in [Tasks -> SUBSET Orders] /\ held'[w] = {}
      /\ \A t \in Tasks \ {w} : held'[t] = held[t]
  BY <1>0 DEF QueueVarsOK
<1>7. /\ worker' \in [Relayers -> [job : Orders \cup {NoOrder}, orders : SUBSET Orders,
                                  attempt : 0..MAX_SETTLEMENT_ATTEMPTS]]
      /\ worker'[r].job = NoOrder /\ worker'[r].orders = {}
      /\ \A q \in Relayers \ {r} : worker'[q] = worker[q]
  <2>1. /\ NoJob \in [job : Orders \cup {NoOrder}, orders : SUBSET Orders,
                  attempt : 0..MAX_SETTLEMENT_ATTEMPTS]
        /\ NoJob.job = NoOrder /\ NoJob.orders = {}
    BY QueueAssumption DEF NoJob
  <2> QED BY <1>0, <2>1 DEF QueueVarsOK
<1>8. QueueVarsOK'
  BY <1>0, <1>3, <1>6, <1>7 DEF QueueVarsOK
<1>10. JobsMatch'
  <2>1. JobOK(r)'
    BY <1>0, <1>1, <1>2, <1>6, <1>7, QueueAssumption DEF JobOK, w
  <2>2. ASSUME NEW q \in Relayers, q # r PROVE JobOK(q)'
    <3>1. WorkerOf[q] \in Tasks \ {w} /\ JobOK(q)
      BY <1>0, <2>2, OwnTask, QueueAssumption DEF w, JobsMatch
    <3> QED BY <1>0, <1>2, <1>6, <1>7, <2>2, <3>1 DEF JobOK, Own
  <2> QED BY <2>1, <2>2 DEF JobsMatch
<1>11. ASSUME NEW x \in Orders PROVE Moves(x)
  <2>1. ASSUME x \in worker[r].orders
        PROVE  up[Owner[x]] = "up" /\ up'[Owner[x]] = "up" /\ LeavesJob(x)
    <3>1. Owner[x] = r /\ JobTask(x) = w
      BY <1>0, <2>1 DEF Own, JobTask, w
    <3> QED BY <1>0, <1>6, <1>7, <2>1, <3>1, QueueAssumption
            DEF LeavesJob, OnTheJob, IsTheJob, OthersReach
  <2>2. ASSUME x \notin worker[r].orders PROVE Rests(x) /\ SameJob(x) /\ NotBooted(x)
    <3>1. row'[x] = row[x] /\ mem'[x] = mem[x]
      BY <2>2
    <3>2. SameReach(x)
      <4>1. x \notin held[w] /\ x \notin held'[w]
        BY <1>0, <1>6, <2>2
      <4> QED BY <1>6, <4>1 DEF SameReach
    <3>3. SameJob(x)
      <4>1. CASE Owner[x] = r
        BY <1>7, <2>2, <4>1, QueueAssumption DEF SameJob, OnTheJob, IsTheJob
      <4>2. CASE Owner[x] # r
        BY <1>0, <1>7, <4>2 DEF SameJob
      <4> QED BY <4>1, <4>2
    <3>4. NotBooted(x)
      BY <1>0 DEF NotBooted
    <3> QED BY <3>1, <3>2, <3>3, <3>4 DEF Rests
  <2>3. CASE x \in worker[r].orders
    <3>1. Ends(x)
      BY <2>3
    <3>2. Completed(x) \/ GivenBack(x) \/ Judged(x)
      BY <2>1, <2>3, <3>1 DEF Ends, Completed, GivenBack, Judged
    <3> QED BY <2>1, <2>3, <3>2 DEF Moves, JobMove
  <2>4. CASE x \notin worker[r].orders
    BY <2>2, <2>4 DEF Moves, QuietMove
  <2> QED BY <2>3, <2>4
<1>12. OthersWait
  BY <1>2 DEF OthersWait, w
<1> QED BY <1>0, <1>2, <1>8, <1>10, <1>11, <1>12 DEF QueueMoves, OrdersMove, OthersWait, QueueBase

(* The failure counter keeps its type.                                     *)
LEMMA OutcomeRecorded ==
    ASSUME QueueVarsOK, NEW r \in Relayers, NEW kind, recordSettlementOutcome(r, kind)
    PROVE  failures' \in [Relayers -> [count : 0..settlementFailureThreshold, alerted : BOOLEAN]]
<1> DEFINE n == failures[r].count + 1
           capped == IF n > settlementFailureThreshold THEN settlementFailureThreshold ELSE n
           b == failures[r].alerted \/ n >= settlementFailureThreshold
           FT == [count : 0..settlementFailureThreshold, alerted : BOOLEAN]
<1>1. failures \in [Relayers -> FT] /\ settlementFailureThreshold \in Nat
  BY QueueAssumption DEF QueueVarsOK
<1>2. failures[r] \in FT /\ n \in Nat
  BY <1>1
<1>3. capped \in 0..settlementFailureThreshold
  BY <1>1, <1>2
<1>4. failures' = [failures EXCEPT ![r] = IF kind = "settled" THEN NoFailures
                                          ELSE [count |-> capped, alerted |-> b]]
  BY Zenon DEF recordSettlementOutcome
<1> HIDE DEF n
<1>5. b \in BOOLEAN
  BY Zenon
<1>6. [count |-> capped, alerted |-> b] \in FT
  BY <1>3, <1>5, Zenon
<1>7. NoFailures \in FT
  <2>1. 0 \in 0..settlementFailureThreshold
    BY <1>1
  <2> QED BY <2>1 DEF NoFailures
<1> HIDE DEF capped, b, FT
<1>8. failures' \in [Relayers -> FT]
  BY <1>1, <1>4, <1>6, <1>7
<1> QED BY <1>8 DEF FT

(* A settled job: the booked transaction names exactly the job's orders.   *)
LEMMA JobSettledMoves ==
    ASSUME QueueBase, NEW r \in Relayers, JobSettled(r)
    PROVE  QueueMoves
<1> DEFINE w == WorkerOf[r]
           S == worker[r].orders
<1>0. /\ SubmitterOK /\ QueueVarsOK /\ JobsMatch /\ Chained
      /\ JobDone(r) /\ sub[w].at = "done" /\ sub[w].out = "settled"
      /\ row' = Marked(row, S, "settled") /\ mem' = Set(mem, held[w], "settled")
      /\ slots' = decPubKeyCount(S) /\ UNCHANGED attempt
      /\ w \in Tasks
  BY Parts, QueueAssumption DEF JobSettled, JobDone, Outcome
<1>1. S \in SUBSET Orders /\ held[w] \subseteq S /\ sub[w].orders = S /\ S \subseteq Own(r)
  BY <1>0 DEF JobsMatch, JobOK, QueueVarsOK
<1>2. \A o \in Orders : row'[o] = IF o \in S /\ row[o] # "none" THEN "settled" ELSE row[o]
  BY <1>0 DEF Marked
<1>3. \A o \in Orders : mem'[o] = IF o \in held[w] THEN "settled" ELSE mem[o]
  BY <1>0 DEF Set
<1>4. /\ row' \in [Orders -> Statuses \cup {"none"}] /\ mem' \in [Orders -> Statuses \cup {"none"}]
  BY <1>0 DEF Marked, Set, QueueVarsOK, Statuses, TERMINAL_STATUSES
<1>5. slots' \in [Keys -> Nat]
  BY <1>0, <1>1, Parts, DecType DEF QueueVarsOK
<1>6. failures' \in [Relayers -> [count : 0..settlementFailureThreshold, alerted : BOOLEAN]]
  BY <1>0, OutcomeRecorded DEF JobSettled
<1>7. S \subseteq spent /\ \E i \in recorded : txs[i].orders = S
  BY <1>0, <1>1 DEF Chained, TaskBooked
<1>8. ASSUME NEW x \in Orders \ S PROVE row'[x] = row[x] /\ mem'[x] = mem[x]
  BY <1>1, <1>2, <1>3
<1>9. ASSUME NEW x \in S PROVE Ends(x)
  <2>1. x \in Orders /\ JobTask(x) = w /\ Booked(x)
    BY <1>1, <1>7 DEF Own, JobTask, Booked
  <2> QED BY <1>2, <1>3, <2>1 DEF Ends
<1>10. attempt' \in [Orders -> 0..MAX_SETTLEMENT_ATTEMPTS]
  BY <1>0 DEF QueueVarsOK
<1> HIDE DEF w
<1> QED BY <1>0, <1>4, <1>5, <1>6, <1>8, <1>9, <1>10, JobEnds

(* A job that is not settled: its own entry gets the status of its row,    *)
(* the counterparty's is pending again.                                    *)
LEMMA Reversal ==
    ASSUME QueueBase, NEW r \in Relayers, NEW s \in {"failed", "dead_letter", "retrying"},
           row' = Marked(row, {worker[r].job}, s), mem' = Reverted(r, s)
    PROVE  /\ row' \in [Orders -> Statuses \cup {"none"}]
           /\ mem' \in [Orders -> Statuses \cup {"none"}]
           /\ \A x \in Orders \ worker[r].orders : row'[x] = row[x] /\ mem'[x] = mem[x]
           /\ \A x \in worker[r].orders : Ends(x)
<1> DEFINE w == WorkerOf[r]
           S == worker[r].orders
           j == worker[r].job
<1>0. /\ QueueVarsOK /\ S \in SUBSET Orders /\ held[w] \subseteq S /\ S \subseteq Own(r)
      /\ j \in Orders => j \in S
  BY Parts DEF JobsMatch, JobOK, QueueVarsOK
<1>1. \A o \in Orders : row'[o] = IF o = j /\ row[o] # "none" THEN s ELSE row[o]
  BY DEF Marked
<1>2. \A o \in Orders : mem'[o] = IF o \notin held[w] THEN mem[o]
                                  ELSE IF o = j THEN s ELSE "pending"
  BY DEF Reverted
<1>3. row' \in [Orders -> Statuses \cup {"none"}] /\ mem' \in [Orders -> Statuses \cup {"none"}]
  BY <1>0 DEF Marked, Reverted, QueueVarsOK, Statuses, LIVE_STATUSES, TERMINAL_STATUSES
<1>4. \A x \in S : x \in Orders /\ JobTask(x) = w /\ (IsTheJob(x) <=> x = j)
  BY <1>0 DEF Own, JobTask, IsTheJob
<1> HIDE DEF w, S, j
<1>5. ASSUME NEW x \in Orders \ S PROVE row'[x] = row[x] /\ mem'[x] = mem[x]
  BY <1>0, <1>1, <1>2, <1>5
<1>6. ASSUME NEW x \in S PROVE Ends(x)
  <2>1. CASE x = j
    <3>1. /\ row'[x] = IF row[x] = "none" THEN "none" ELSE s
          /\ mem'[x] = IF x \in held[JobTask(x)] THEN s ELSE mem[x]
      BY <1>1, <1>2, <1>4, <2>1
    <3> QED BY <1>4, <2>1, <3>1 DEF Ends
  <2>2. CASE x # j
    BY <1>1, <1>2, <1>4, <2>2 DEF Ends
  <2> QED BY <2>1, <2>2
<1> QED BY <1>3, <1>5, <1>6 DEF S

(* A failed job.                                                           *)
LEMMA JobFailedMoves ==
    ASSUME QueueBase, NEW r \in Relayers, JobFailed(r)
    PROVE  QueueMoves
<1> DEFINE s == IF Outcome(r) = "transient" THEN "dead_letter" ELSE "failed"
<1>0. /\ QueueVarsOK /\ JobDone(r)
      /\ row' = Marked(row, {worker[r].job}, s) /\ mem' = Reverted(r, s)
      /\ slots' = decPubKeyCount({worker[r].job}) /\ UNCHANGED attempt
  BY Parts DEF JobFailed
<1>1. s \in {"failed", "dead_letter", "retrying"}
  OBVIOUS
<1>2. failures' \in [Relayers -> [count : 0..settlementFailureThreshold, alerted : BOOLEAN]]
  BY <1>0, OutcomeRecorded DEF JobFailed
<1>3. slots' \in [Keys -> Nat] /\ attempt' \in [Orders -> 0..MAX_SETTLEMENT_ATTEMPTS]
  BY <1>0, DecType, FS_Singleton DEF QueueVarsOK
<1> HIDE DEF s
<1> QED BY <1>0, <1>1, <1>2, <1>3, Reversal, JobEnds

(* A retried job: its budget is not exhausted.                             *)
LEMMA JobRetriedMoves ==
    ASSUME QueueBase, NEW r \in Relayers, JobRetried(r)
    PROVE  QueueMoves
<1>0. /\ QueueVarsOK /\ JobDone(r)
      /\ row' = Marked(row, {worker[r].job}, "retrying") /\ mem' = Reverted(r, "retrying")
      /\ UNCHANGED <<slots, failures>>
  BY Parts DEF JobRetried
<1>1. attempt' \in [Orders -> 0..MAX_SETTLEMENT_ATTEMPTS]
  <2> DEFINE n == worker[r].attempt + 1
  <2>1. worker[r].attempt \in Nat /\ MAX_SETTLEMENT_ATTEMPTS \in Nat \ {0}
    BY <1>0, QueueAssumption DEF QueueVarsOK
  <2>2. ~(n > Budget(Outcome(r)))
    BY DEF JobRetried, Exhausted
  <2>3. Budget(Outcome(r)) = MAX_SETTLEMENT_ATTEMPTS \/ Budget(Outcome(r)) = 1
    BY DEF Budget
  <2>4. n \in 0..MAX_SETTLEMENT_ATTEMPTS
    BY <2>1, <2>2, <2>3
  <2>5. UNCHANGED attempt \/ attempt' = [attempt EXCEPT ![worker[r].job] = n]
    BY DEF JobRetried
  <2> HIDE DEF n
  <2> QED BY <1>0, <2>4, <2>5 DEF QueueVarsOK
<1>2. /\ slots' \in [Keys -> Nat]
      /\ failures' \in [Relayers -> [count : 0..settlementFailureThreshold, alerted : BOOLEAN]]
  BY <1>0 DEF QueueVarsOK
<1> QED BY <1>0, <1>1, <1>2, Reversal, JobEnds

-----------------------------------------------------------------------------
(* Crash and boot.                                                         *)

(* A crash drops the job and what it held; chain and rows stay.            *)
LEMMA CrashBase ==
    ASSUME QueueBase, NEW r \in Relayers, Crash(r)
    PROVE  QueueBase' /\ Grows
<1>0. /\ QueueVarsOK /\ SubmitterTypeOK /\ Chained /\ JobsMatch
      /\ crashes < MaxCrashes /\ crashes' = crashes + 1
      /\ up' = [up EXCEPT ![r] = "down"]
      /\ mem' = Set(mem, Own(r), "none")
      /\ worker' = [worker EXCEPT ![r] = NoJob]
      /\ held' = [t \in Tasks |-> IF RelayerOf[t] = r THEN {} ELSE held[t]]
      /\ sub' = [t \in Tasks |-> IF RelayerOf[t] = r THEN Idle ELSE sub[t]]
      /\ UNCHANGED <<clock, spent, cancelLog, txs, pendingTxs, recorded, row, attempt>>
  BY Parts DEF Crash, chainVars
<1>1. Idle \in Submissions /\ Idle.orders = {} /\ Idle.at = "idle"
  BY SubmitterAssumption DEF Idle, Submissions
<1>2. SubmitterOK'
  <2>1. sub' \in [Tasks -> Submissions]
    BY <1>0, <1>1 DEF SubmitterTypeOK
  <2>2. ASSUME NEW t \in Tasks PROVE TaskWaits(t)' /\ TaskBooked(t)'
    <3>1. CASE RelayerOf[t] = r
      BY <1>0, <1>1, <3>1 DEF TaskWaits, TaskBooked
    <3>2. CASE RelayerOf[t] # r
      <4>1. sub'[t] = sub[t] /\ TaskWaits(t) /\ TaskBooked(t)
        BY <1>0, <3>2 DEF Chained
      <4> QED BY <1>0, <4>1 DEF TaskWaits, TaskBooked
    <3> QED BY <3>1, <3>2
  <2> QED BY <1>0, <2>1, <2>2 DEF SubmitterOK, SubmitterTypeOK, Chained, TxMined
<1>3. QueueVarsOK'
  <2>1. slots' \in [Keys -> Nat]
    BY <1>0 DEF QueueVarsOK, Crash
  <2>2. posts' \in [Posts -> [at : {"idle", "binding", "verifying"}, order : Orders \cup {NoOrder}]]
    <3>1. NoPost \in [at : {"idle", "binding", "verifying"}, order : Orders \cup {NoOrder}]
      BY DEF NoPost
    <3>2. posts' = [p \in Posts |-> IF posts[p].order \in Own(r) THEN NoPost ELSE posts[p]]
      BY DEF Crash
    <3> QED BY <1>0, <3>1, <3>2 DEF QueueVarsOK
  <2>3. worker' \in [Relayers -> [job : Orders \cup {NoOrder}, orders : SUBSET Orders,
                                  attempt : 0..MAX_SETTLEMENT_ATTEMPTS]]
    <3>1. NoJob \in [job : Orders \cup {NoOrder}, orders : SUBSET Orders,
                     attempt : 0..MAX_SETTLEMENT_ATTEMPTS]
      BY QueueAssumption DEF NoJob
    <3> QED BY <1>0, <3>1 DEF QueueVarsOK
  <2>4. cursor' \in [Relayers -> 0..Len(cancelLog)]
    <3>1. 0 \in 0..Len(cancelLog)
      BY <1>0 DEF SubmitterTypeOK
    <3>2. cursor' = [cursor EXCEPT ![r] = 0]
      BY DEF Crash
    <3> QED BY <1>0, <3>1, <3>2 DEF QueueVarsOK
  <2>5. failures' \in [Relayers -> [count : 0..settlementFailureThreshold, alerted : BOOLEAN]]
    <3>1. 0 \in 0..settlementFailureThreshold
      BY QueueAssumption
    <3>2. NoFailures \in [count : 0..settlementFailureThreshold, alerted : BOOLEAN]
      BY <3>1 DEF NoFailures
    <3>3. failures' = [failures EXCEPT ![r] = NoFailures]
      BY DEF Crash
    <3> QED BY <1>0, <3>2, <3>3 DEF QueueVarsOK
  <2>6. /\ mem' \in [Orders -> Statuses \cup {"none"}] /\ held' \in [Tasks -> SUBSET Orders]
        /\ up' \in [Relayers -> {"up", "down", "scanned"}]
    BY <1>0 DEF QueueVarsOK, Set
  <2>7. crashes' \in 0..MaxCrashes
    BY <1>0, QueueAssumption DEF QueueVarsOK
  <2> QED BY <1>0, <2>1, <2>2, <2>3, <2>4, <2>5, <2>6, <2>7 DEF QueueVarsOK
<1>4. JobsMatch'
  <2>1. ASSUME NEW q \in Relayers PROVE JobOK(q)'
    <3>1. WorkerOf[q] \in Tasks /\ RelayerOf[WorkerOf[q]] = q /\ JobOK(q)
      BY <1>0, QueueAssumption DEF JobsMatch
    <3>2. CASE q = r
      <4>1. worker'[q] = NoJob /\ held'[WorkerOf[q]] = {} /\ sub'[WorkerOf[q]] = Idle
        BY <1>0, <3>1, <3>2 DEF QueueVarsOK
      <4> QED BY <1>1, <4>1, QueueAssumption DEF JobOK, NoJob
    <3>3. CASE q # r
      <4>1. /\ worker'[q] = worker[q] /\ held'[WorkerOf[q]] = held[WorkerOf[q]]
            /\ sub'[WorkerOf[q]] = sub[WorkerOf[q]] /\ up'[q] = up[q]
        BY <1>0, <3>1, <3>3 DEF QueueVarsOK
      <4> QED BY <3>1, <4>1 DEF JobOK, Own
    <3> QED BY <3>2, <3>3
  <2> QED BY <2>1 DEF JobsMatch
<1>5. Grows
  BY <1>0 DEF Grows, Cancelled, SubmitterTypeOK
<1> QED BY <1>2, <1>3, <1>4, <1>5 DEF QueueBase

(* The boot scan cancels what it read.                                     *)
LEMMA BootScanMoves ==
    ASSUME QueueBase, NEW r \in Relayers, BootScan(r)
    PROVE  QueueMoves
<1>0. /\ QueueVarsOK /\ SubmitterTypeOK /\ Chained /\ JobsMatch
      /\ up[r] = "down" /\ up' = [up EXCEPT ![r] = "scanned"]
      /\ pendingTxs' = {i \in pendingTxs : txs[i].relayer = r => txs[i].state = "pending"}
      /\ UNCHANGED <<clock, spent, cancelLog, txs, recorded, sub, attempt, posts, worker, crashes,
                     failures>>
      /\ \/ /\ applyOnChainAuthorizeCancel(NewCancels(r))
            /\ cursor' = [cursor EXCEPT ![r] = Len(cancelLog)]
         \/ UNCHANGED <<slots, row, mem, held, cursor>>
  BY Parts DEF BootScan, chainVars
<1>1. /\ row' \in [Orders -> Statuses \cup {"none"}] /\ slots' \in [Keys -> Nat]
      /\ mem' \in [Orders -> Statuses \cup {"none"}] /\ held' \in [Tasks -> SUBSET Orders]
      /\ cursor' \in [Relayers -> 0..Len(cancelLog)]
      /\ \A t \in Tasks : held'[t] \subseteq held[t]
      /\ \A o \in Orders : Rests(o) \/ Dismissed(o)
  <2>1. CASE /\ applyOnChainAuthorizeCancel(NewCancels(r))
             /\ cursor' = [cursor EXCEPT ![r] = Len(cancelLog)]
    <3>1. cursor' \in [Relayers -> 0..Len(cancelLog)]
      <4>1. Len(cancelLog) \in 0..Len(cancelLog)
        BY <1>0 DEF SubmitterTypeOK
      <4> QED BY <1>0, <2>1, <4>1 DEF QueueVarsOK
    <3> QED BY <2>1, <3>1, ApplyCancels
  <2>2. CASE UNCHANGED <<slots, row, mem, held, cursor>>
    <3>1. \A o \in Orders : Rests(o)
      BY <2>2 DEF Rests, SameReach
    <3>2. \A t \in Tasks : held'[t] \subseteq held[t]
      BY <2>2
    <3> QED BY <1>0, <2>2, <3>1, <3>2 DEF QueueVarsOK
  <2> QED BY <1>0, <2>1, <2>2
<1>2. SubmitterOK'
  BY <1>0 DEF SubmitterOK, SubmitterTypeOK, Chained, TxMined, TaskWaits, TaskBooked
<1>3. Grows
  BY <1>0 DEF Grows, Cancelled, SubmitterTypeOK
<1>4. /\ up' \in [Relayers -> {"up", "down", "scanned"}]
      /\ \A q \in Relayers : (up[q] = "up" => up'[q] = "up") /\ (up'[q] = "up" => up[q] = "up")
      /\ \A q \in Relayers : up'[q] # "up" => up[q] # "up"
  BY <1>0 DEF QueueVarsOK
<1>5. QueueVarsOK'
  BY <1>0, <1>1, <1>4 DEF QueueVarsOK
<1>6. JobsMatch'
  <2>1. ASSUME NEW q \in Relayers PROVE JobOK(q)'
    <3>1. WorkerOf[q] \in Tasks /\ JobOK(q) /\ (up'[q] # "up" => up[q] # "up")
      BY <1>0, <1>4, QueueAssumption DEF JobsMatch
    <3> QED BY <1>0, <1>1, <3>1 DEF JobOK, Own
  <2> QED BY <2>1 DEF JobsMatch
<1>7. ASSUME NEW o \in Orders PROVE Moves(o)
  <2>1. Owner[o] \in Relayers
    BY QueueAssumption
  <2>2. SameJob(o) /\ NotBooted(o)
    BY <1>0, <1>4, <2>1 DEF SameJob, NotBooted
  <2> QED BY <1>1, <2>2 DEF Moves, QuietMove
<1> QED BY <1>0, <1>2, <1>3, <1>4, <1>5, <1>6, <1>7 DEF QueueMoves, OrdersMove, OthersWait, QueueBase

(* Restoring loads the relayer's rows into its map.                        *)
LEMMA BootRestoreMoves ==
    ASSUME QueueBase, NEW r \in Relayers, BootRestore(r)
    PROVE  QueueMoves
<1>0. /\ QueueVarsOK /\ SubmitterOK /\ JobsMatch
      /\ up[r] = "scanned" /\ up' = [up EXCEPT ![r] = "up"]
      /\ mem' = [o \in Orders |-> IF o \in RestoredFrom(row, r) THEN row[o] ELSE mem[o]]
      /\ row' = resetOrphanedSettling(row, r)
      /\ UNCHANGED <<chainVars, submitterVars, attempt, posts, worker, held, cursor, crashes, failures>>
  BY Parts DEF BootRestore
<1>1. SubmitterOK' /\ Grows /\ UNCHANGED <<sub, cancelLog>>
  BY <1>0, SameSubmitter DEF submitterVars, chainVars
<1>2. /\ row' \in [Orders -> Statuses \cup {"none"}]
      /\ \A o \in Orders :
            row'[o] = IF Owner[o] = r /\ row[o] = "settling" THEN "accepted" ELSE row[o]
  BY <1>0 DEF resetOrphanedSettling, QueueVarsOK, Own, Statuses, LIVE_STATUSES
<1>3. /\ mem' \in [Orders -> Statuses \cup {"none"}]
      /\ \A o \in Orders :
            mem'[o] = IF Owner[o] = r /\ row[o] \in LIVE_STATUSES \cup IN_FLIGHT_STATUSES
                      THEN row[o] ELSE mem[o]
  BY <1>0 DEF QueueVarsOK, RestoredFrom, Own
<1>4. /\ up' \in [Relayers -> {"up", "down", "scanned"}] /\ up'[r] = "up"
      /\ \A q \in Relayers : q # r => up'[q] = up[q]
  BY <1>0 DEF QueueVarsOK
<1>5. QueueVarsOK'
  <2>1. slots' \in [Keys -> Nat]
    <3>1. ASSUME NEW k \in Keys
          PROVE  Cardinality({o \in RestoredFrom(row, r) : KeyOf[o] = k}) \in Nat
      <4>1. {o \in RestoredFrom(row, r) : KeyOf[o] = k} \in SUBSET Orders
        BY DEF RestoredFrom, Own
      <4> QED BY <4>1, Parts, FS_CardinalityType
    <3>2. slots' = [k \in Keys |-> IF k \in KeysAt(r)
                                   THEN Cardinality({o \in RestoredFrom(row, r) : KeyOf[o] = k})
                                   ELSE slots[k]]
      BY DEF BootRestore
    <3> QED BY <1>0, <3>1, <3>2 DEF QueueVarsOK
  <2> QED BY <1>0, <1>1, <1>2, <1>3, <1>4, <2>1 DEF QueueVarsOK
<1>6. JobsMatch'
  <2>1. ASSUME NEW q \in Relayers PROVE JobOK(q)'
    <3>1. WorkerOf[q] \in Tasks /\ JobOK(q) /\ (up'[q] # "up" => up[q] # "up")
      BY <1>0, <1>4, QueueAssumption DEF JobsMatch
    <3> QED BY <1>0, <1>1, <3>1 DEF JobOK, Own
  <2> QED BY <2>1 DEF JobsMatch
<1>7. ASSUME NEW o \in Orders PROVE Moves(o)
  <2>1. SameJob(o) /\ SameReach(o)
    BY <1>0 DEF SameJob, SameReach
  <2>2. CASE Owner[o] = r
    <3>1. Restored(o)
      BY <1>0, <1>2, <1>3, <2>1, <2>2 DEF Restored
    <3> QED BY <2>1, <3>1 DEF Moves
  <2>3. CASE Owner[o] # r
    <3>1. Rests(o) /\ NotBooted(o)
      BY <1>2, <1>3, <1>4, <2>1, <2>3, QueueAssumption DEF Rests, NotBooted
    <3> QED BY <2>1, <3>1 DEF Moves, QuietMove
  <2> QED BY <2>2, <2>3
<1>8. \A q \in Relayers : up[q] = "up" => up'[q] = "up"
  BY <1>4
<1> QED BY <1>0, <1>1, <1>5, <1>6, <1>7, <1>8 DEF QueueMoves, OrdersMove, OthersWait, QueueBase

(* Every step of the queue but a crash.                                    *)
LEMMA QueueStepMoves ==
    ASSUME QueueBase, QueueStep
    PROVE  QueueMoves
<1>1. CASE Client
  BY <1>1, PostStartMoves, PostReserveMoves, PostAcceptMoves DEF Client
<1>2. CASE Environment
  BY <1>2, EnvironmentMoves
<1>3. ASSUME NEW r \in Relayers, Submission(r) PROVE QueueMoves
  BY <1>3, SubmissionMoves
<1>4. ASSUME NEW r \in Relayers, handleJob(r) PROVE QueueMoves
  BY <1>4, SettleMoves, DeferMoves, JobSettledMoves, JobFailedMoves, JobRetriedMoves DEF handleJob
<1>5. ASSUME NEW r \in Relayers, Housekeeping(r) PROVE QueueMoves
  BY <1>5, SweepMoves, PurgeMoves, DrainMoves, IndexMoves DEF Housekeeping
<1>6. ASSUME NEW r \in Relayers, Boot(r) PROVE QueueMoves
  BY <1>6, BootScanMoves, BootRestoreMoves DEF Boot
<1> QED BY <1>1, <1>2, <1>3, <1>4, <1>5, <1>6 DEF QueueStep

-----------------------------------------------------------------------------
(* The queue's invariant.                                                  *)

(* An entry the worker reaches is matched.                                 *)
HeldMatched(o) == o \in held[JobTask(o)] => mem[o] = "matched"

(* A settled row is booked, and only the worker's job is settling.         *)
SettledBooked(o) == row[o] = "settled" => Booked(o)
SettlingAtWork(o) == row[o] = "settling" => up[Owner[o]] # "up" \/ IsTheJob(o)

(* Until the first crash, row and entry of an order that has neither       *)
(* expired nor been cancelled tell the same story.                         *)
Calm(o) == crashes = 0 /\ ~Expired(o) /\ o \notin Cancelled
JobRow(o) ==
    /\ o \in held[JobTask(o)]
    /\ row[o] \in {"accepted", "retrying", "settling"}
    /\ row[o] = "settling" <=> IsTheJob(o)
FreeRow(o) ==
    /\ mem[o] \in LIVE_STATUSES <=> row[o] \in {"accepted", "retrying"}
    /\ mem[o] # "matched" /\ row[o] # "settling"
Agrees(o) == Calm(o) => (OnTheJob(o) => JobRow(o)) /\ (~OnTheJob(o) => FreeRow(o))

OrderOK(o) == HeldMatched(o) /\ SettledBooked(o) /\ SettlingAtWork(o) /\ Agrees(o)
AllUp == crashes = 0 => \A r \in Relayers : up[r] = "up"
QueueInv == QueueBase /\ AllUp /\ \A o \in Orders : OrderOK(o)

(* What the base says of one order.                                        *)
LEMMA OrderParts ==
    ASSUME QueueBase, NEW o \in Orders
    PROVE  /\ Owner[o] \in Relayers /\ JobTask(o) \in Tasks
           /\ o \in held[JobTask(o)] => OnTheJob(o)
           /\ IsTheJob(o) => OnTheJob(o)
           /\ up[Owner[o]] # "up" => ~OnTheJob(o)
<1>1. Owner[o] \in Relayers /\ JobTask(o) \in Tasks
  BY QueueAssumption DEF JobTask
<1>2. JobOK(Owner[o])
  BY <1>1, Parts DEF JobsMatch
<1> QED BY <1>1, <1>2 DEF JobOK, OnTheJob, IsTheJob, JobTask

(* What was not calm does not become calm.                                 *)
LEMMA CalmBefore ==
    ASSUME NEW o \in Orders, OrdersMove, QueueBase, Calm(o)'
    PROVE  Calm(o)
<1>1. clock \in Nat /\ clock' \in Nat /\ Expiry[o] \in Nat /\ clock <= clock'
      /\ crashes' = crashes /\ Cancelled \subseteq Cancelled'
  BY SubmitterAssumption DEF OrdersMove, QueueBase, SubmitterOK, SubmitterTypeOK, Grows
<1> QED BY <1>1 DEF Calm, Expired

(* Booked orders stay booked.                                              *)
LEMMA StillBooked ==
    ASSUME QueueBase, Grows, NEW o \in Orders, Booked(o)
    PROVE  Booked(o)'
<1>1. recorded \subseteq DOMAIN txs
  BY DEF QueueBase, SubmitterOK, SubmitterTypeOK
<1> QED BY <1>1 DEF Booked, Grows

(* A job that goes on is the same job to its orders.                       *)
LEMMA JobGoesOn ==
    ASSUME NEW o \in Orders, SameJob(o)
    PROVE  /\ OnTheJob(o)' <=> OnTheJob(o)
           /\ OnTheJob(o) => (IsTheJob(o)' <=> IsTheJob(o))
           /\ ~IsTheJob(o) => ~IsTheJob(o)'
BY DEF SameJob, OnTheJob, IsTheJob

(* Entries the worker reaches stay matched.                                *)
LEMMA HeldStays ==
    ASSUME QueueBase, NEW o \in Orders, Moves(o), HeldMatched(o)
    PROVE  HeldMatched(o)'
<1>1. JobTask(o) \in Tasks /\ JobTask(o)' = JobTask(o)
  BY OrderParts DEF JobTask
<1>2. CASE Rests(o) \/ Parked(o) \/ Swept(o)
  BY <1>1, <1>2 DEF Rests, Parked, Swept, SameReach, HeldMatched
<1>3. CASE Accepted(o) \/ Withdrawn(o) \/ Dismissed(o)
  BY <1>1, <1>3 DEF Accepted, Withdrawn, Dismissed, Dropped, HeldMatched
<1>4. CASE Purged(o)
  BY <1>1, <1>4 DEF Purged, Dropped, SameReach, HeldMatched
<1>5. CASE Claimed(o) \/ Paired(o)
  BY <1>1, <1>5 DEF Claimed, Paired, HeldMatched
<1>6. CASE Completed(o) \/ GivenBack(o) \/ Judged(o)
  BY <1>1, <1>6 DEF Completed, GivenBack, Judged, LeavesJob, HeldMatched
<1>7. CASE Restored(o)
  <2>1. o \notin held[JobTask(o)]
    BY <1>7, OrderParts DEF Restored
  <2> QED BY <1>1, <1>7, <2>1 DEF Restored, SameReach, HeldMatched
<1> QED BY <1>2, <1>3, <1>4, <1>5, <1>6, <1>7 DEF Moves, QuietMove, JobMove

(* A row becomes settled by a booking only.                                *)
LEMMA BookedStays ==
    ASSUME QueueBase, OrdersMove, NEW o \in Orders, SettledBooked(o)
    PROVE  SettledBooked(o)'
<1>1. Moves(o) /\ Grows
  BY DEF OrdersMove
<1>2. row'[o] = "settled" => row[o] = "settled" \/ Booked(o)
  <2>1. CASE Completed(o)
    BY <2>1 DEF Completed
  <2>2. CASE ~Completed(o)
    <3>1. QuietMove(o) => (row'[o] = "settled" => row[o] = "settled")
      BY DEF QuietMove, Rests, Accepted, Withdrawn, Parked, Swept, Purged, Dismissed
    <3>2. Restored(o) \/ JobMove(o) => (row'[o] = "settled" => row[o] = "settled")
      BY <2>2 DEF Restored, JobMove, Claimed, Paired, GivenBack, Judged
    <3> QED BY <1>1, <3>1, <3>2 DEF Moves
  <2> QED BY <2>1, <2>2
<1> QED BY <1>1, <1>2, StillBooked DEF SettledBooked

(* A row becomes settling as the job of the worker, and ends with it.      *)
LEMMA AtWorkStays ==
    ASSUME QueueBase, NEW o \in Orders, Moves(o), SettlingAtWork(o)
    PROVE  SettlingAtWork(o)'
<1> SUFFICES ASSUME row'[o] = "settling" PROVE up'[Owner[o]] # "up" \/ IsTheJob(o)'
  BY DEF SettlingAtWork
<1>1. CASE SameJob(o) /\ NotBooted(o) /\ QuietMove(o)
  <2>1. row[o] = "settling"
    BY <1>1 DEF QuietMove, Rests, Accepted, Withdrawn, Parked, Swept, Purged, Dismissed
  <2>2. CASE up[Owner[o]] # "up"
    BY <1>1, <2>2 DEF NotBooted
  <2>3. CASE up[Owner[o]] = "up"
    <3>1. IsTheJob(o) /\ OnTheJob(o)
      BY <2>1, <2>3, OrderParts DEF SettlingAtWork
    <3> QED BY <1>1, <3>1, JobGoesOn
  <2> QED BY <2>2, <2>3
<1>2. CASE up[Owner[o]] = "up" /\ JobMove(o)
  <2>1. row[o] = "settling" => IsTheJob(o) /\ OnTheJob(o)
    BY <1>2, OrderParts DEF SettlingAtWork
  <2> QED BY <1>2, <2>1 DEF JobMove, Claimed, Paired, Completed, GivenBack, Judged
<1>3. CASE Restored(o)
  BY <1>3 DEF Restored
<1> QED BY <1>1, <1>2, <1>3 DEF Moves

(* Row and entry go on telling the same story.                             *)
LEMMA AgreesStays ==
    ASSUME QueueBase, OrdersMove, AllUp, NEW o \in Orders, OrderOK(o)
    PROVE  Agrees(o)'
<1> SUFFICES ASSUME Calm(o)'
             PROVE  (OnTheJob(o)' => JobRow(o)') /\ (~OnTheJob(o)' => FreeRow(o)')
  BY DEF Agrees
<1>0. /\ Calm(o) /\ Moves(o) /\ up[Owner[o]] = "up"
      /\ JobTask(o) \in Tasks /\ JobTask(o)' = JobTask(o)
  BY CalmBefore, OrderParts DEF OrdersMove, Calm, AllUp, JobTask
<1>1. ~Expired(o) /\ o \notin Cancelled
  BY <1>0 DEF Calm
<1>2. CASE OnTheJob(o)
  <2>1. JobRow(o) /\ mem[o] = "matched"
    BY <1>0, <1>2 DEF OrderOK, Agrees, HeldMatched, JobRow
  <2>2. CASE SameJob(o) /\ QuietMove(o)
    <3>1. OnTheJob(o)' /\ (IsTheJob(o)' <=> IsTheJob(o))
      BY <1>2, <2>2, JobGoesOn
    <3>2. Rests(o) \/ Parked(o) \/ Purged(o)
      BY <1>1, <2>1, <2>2
         DEF QuietMove, Accepted, Withdrawn, Swept, Dismissed, JobRow, LIVE_STATUSES
    <3>3. /\ o \in held'[JobTask(o)]
          /\ row'[o] = row[o] \/ (row[o] # "settling" /\ row'[o] = "accepted")
      BY <1>0, <2>1, <3>2
         DEF Rests, Parked, Purged, SameReach, JobRow, LIVE_STATUSES, TERMINAL_STATUSES
    <3>4. JobRow(o)'
      BY <1>0, <2>1, <3>1, <3>3 DEF JobRow
    <3> QED BY <3>1, <3>4
  <2>3. CASE Completed(o) \/ GivenBack(o) \/ Judged(o)
    <3>1. ~OnTheJob(o)'
      BY <2>3 DEF Completed, GivenBack, Judged, LeavesJob
    <3>2. FreeRow(o)'
      BY <2>1, <2>3 DEF Completed, GivenBack, Judged, JobRow, FreeRow, LIVE_STATUSES
    <3> QED BY <3>1, <3>2
  <2>4. ~Claimed(o) /\ ~Paired(o) /\ ~Restored(o)
    BY <1>0, <1>2 DEF Claimed, Paired, Restored
  <2> QED BY <1>0, <2>2, <2>3, <2>4 DEF Moves, JobMove
<1>3. CASE ~OnTheJob(o)
  <2>1. FreeRow(o)
    BY <1>0, <1>3 DEF OrderOK, Agrees
  <2>2. CASE SameJob(o) /\ QuietMove(o)
    <3>1. ~OnTheJob(o)'
      BY <1>3, <2>2, JobGoesOn
    <3>2. FreeRow(o)'
      BY <1>1, <2>1, <2>2
         DEF QuietMove, Rests, Accepted, Withdrawn, Parked, Swept, Purged, Dismissed, FreeRow,
             LIVE_STATUSES, TERMINAL_STATUSES
    <3> QED BY <3>1, <3>2
  <2>3. CASE Claimed(o) \/ Paired(o)
    <3>1. mem[o] \in LIVE_STATUSES /\ row[o] \in {"accepted", "retrying"} /\ mem[o] # "none"
      BY <2>1, <2>3 DEF Claimed, Paired, FreeRow, LIVE_STATUSES
    <3>2. JobRow(o)' /\ OnTheJob(o)'
      BY <1>0, <2>3, <3>1 DEF Claimed, Paired, JobRow
    <3> QED BY <3>2
  <2>4. ~Completed(o) /\ ~GivenBack(o) /\ ~Judged(o) /\ ~Restored(o)
    BY <1>0, <1>3 DEF Completed, GivenBack, Judged, LeavesJob, Restored
  <2> QED BY <1>0, <2>2, <2>3, <2>4 DEF Moves, JobMove
<1> QED BY <1>2, <1>3

(* Moves keep the invariant.                                               *)
LEMMA QueueInvMoves ==
    ASSUME QueueInv, OrdersMove
    PROVE  QueueInv'
<1>1. QueueBase /\ AllUp
  BY DEF QueueInv
<1>2. ASSUME NEW o \in Orders PROVE OrderOK(o)'
  <2>1. OrderOK(o) /\ Moves(o)
    BY DEF QueueInv, OrdersMove
  <2>2. HeldMatched(o)' /\ SettledBooked(o)' /\ SettlingAtWork(o)'
    BY <1>1, <2>1, HeldStays, BookedStays, AtWorkStays DEF OrderOK
  <2> QED BY <1>1, <2>1, <2>2, AgreesStays DEF OrderOK
<1>3. AllUp'
  BY <1>1 DEF OrdersMove, AllUp
<1> QED BY <1>2, <1>3 DEF QueueInv, OrdersMove

(* So does a crash: rows stay, the relayer is down and has no job.         *)
LEMMA QueueInvCrash ==
    ASSUME QueueInv, NEW r \in Relayers, Crash(r)
    PROVE  QueueInv'
<1>0. /\ QueueBase /\ QueueBase' /\ Grows /\ QueueVarsOK
      /\ crashes' = crashes + 1
      /\ up' = [up EXCEPT ![r] = "down"]
      /\ mem' = Set(mem, Own(r), "none")
      /\ worker' = [worker EXCEPT ![r] = NoJob]
      /\ held' = [t \in Tasks |-> IF RelayerOf[t] = r THEN {} ELSE held[t]]
      /\ UNCHANGED row
  BY CrashBase, Parts DEF QueueInv, Crash
<1>1. crashes' # 0
  BY <1>0 DEF QueueVarsOK
<1>2. ASSUME NEW o \in Orders PROVE OrderOK(o)'
  <2>1. OrderOK(o) /\ Owner[o] \in Relayers /\ JobTask(o) \in Tasks
        /\ RelayerOf[JobTask(o)] = Owner[o]
    BY <1>0, OrderParts, QueueAssumption DEF QueueInv, JobTask
  <2>2. SettledBooked(o)'
    BY <1>0, <2>1, StillBooked DEF OrderOK, SettledBooked
  <2>3. SettlingAtWork(o)' /\ HeldMatched(o)'
    <3>1. CASE Owner[o] = r
      <4>1. up'[Owner[o]] = "down" /\ held'[JobTask(o)] = {}
        BY <1>0, <2>1, <3>1 DEF QueueVarsOK
      <4> QED BY <4>1 DEF SettlingAtWork, HeldMatched, JobTask
    <3>2. CASE Owner[o] # r
      <4>1. /\ up'[Owner[o]] = up[Owner[o]] /\ worker'[Owner[o]] = worker[Owner[o]]
            /\ mem'[o] = mem[o] /\ held'[JobTask(o)] = held[JobTask(o)]
        BY <1>0, <2>1, <3>2 DEF QueueVarsOK, Set, Own
      <4> QED BY <1>0, <2>1, <4>1
              DEF OrderOK, SettlingAtWork, HeldMatched, JobTask, IsTheJob
    <3> QED BY <3>1, <3>2
  <2>4. Agrees(o)'
    BY <1>1 DEF Agrees, Calm
  <2> QED BY <2>2, <2>3, <2>4 DEF OrderOK
<1> QED BY <1>0, <1>1, <1>2 DEF QueueInv, AllUp

-----------------------------------------------------------------------------
(* The specification.                                                      *)

(* The base holds of a relayer that starts with any rows in its map.       *)
LEMMA FreshBase ==
    ASSUME SubmitterInit, row \in [Orders -> Statuses \cup {"none"}],
           mem \in [Orders -> Statuses \cup {"none"}], slots \in [Keys -> Nat],
           attempt = [o \in Orders |-> 0], posts = [p \in Posts |-> NoPost],
           worker = [r \in Relayers |-> NoJob], held = [t \in Tasks |-> {}],
           cursor = [r \in Relayers |-> 0], up = [r \in Relayers |-> "up"], crashes = 0,
           failures = [r \in Relayers |-> NoFailures]
    PROVE  QueueBase
<1>1. /\ clock = 0 /\ spent = {} /\ cancelLog = << >> /\ txs = << >>
      /\ pendingTxs = {} /\ recorded = {} /\ sub = [t \in Tasks |-> Idle]
  BY DEF SubmitterInit
<1>2. Idle \in Submissions /\ Idle.orders = {} /\ Idle.at = "idle"
  BY SubmitterAssumption DEF Idle, Submissions
<1>3. SubmitterOK
  BY <1>1, <1>2, SubmitterAssumption
     DEF SubmitterOK, SubmitterTypeOK, Chained, TxMined, TaskWaits, TaskBooked
<1>4. QueueVarsOK
  <2>1. /\ 0 \in 0..MAX_SETTLEMENT_ATTEMPTS /\ 0 \in 0..settlementFailureThreshold
        /\ 0 \in 0..MaxCrashes /\ 0 \in 0..Len(cancelLog)
    BY <1>1, QueueAssumption
  <2>2. /\ NoJob \in [job : Orders \cup {NoOrder}, orders : SUBSET Orders,
                      attempt : 0..MAX_SETTLEMENT_ATTEMPTS]
        /\ NoFailures \in [count : 0..settlementFailureThreshold, alerted : BOOLEAN]
        /\ NoPost \in [at : {"idle", "binding", "verifying"}, order : Orders \cup {NoOrder}]
    BY <2>1 DEF NoJob, NoFailures, NoPost
  <2> QED BY <2>1, <2>2 DEF QueueVarsOK
<1>5. JobsMatch
  <2>1. ASSUME NEW r \in Relayers PROVE JobOK(r)
    <3>1. WorkerOf[r] \in Tasks
      BY QueueAssumption
    <3>2. worker[r] = NoJob /\ held[WorkerOf[r]] = {} /\ sub[WorkerOf[r]].orders = {}
      BY <1>1, <1>2, <3>1
    <3> QED BY <3>2, QueueAssumption DEF JobOK, NoJob
  <2> QED BY <2>1 DEF JobsMatch
<1> QED BY <1>3, <1>4, <1>5 DEF QueueBase

(* The invariant holds at the start.                                       *)
LEMMA QueueInvInit == QueueInit => QueueInv
<1> SUFFICES ASSUME QueueInit PROVE QueueInv
  OBVIOUS
<1>1. QueueBase
  <2>1. /\ row \in [Orders -> Statuses \cup {"none"}] /\ mem \in [Orders -> Statuses \cup {"none"}]
        /\ slots \in [Keys -> Nat]
    BY DEF QueueInit
  <2> QED BY <2>1, FreshBase DEF QueueInit
<1>2. ASSUME NEW o \in Orders PROVE OrderOK(o)
  <2>1. JobTask(o) \in Tasks /\ Owner[o] \in Relayers
    BY <1>1, OrderParts
  <2>2. /\ row[o] = "none" /\ mem[o] = "none" /\ held[JobTask(o)] = {}
        /\ ~OnTheJob(o)
    BY <2>1 DEF QueueInit, OnTheJob, NoJob
  <2> QED BY <2>2
          DEF OrderOK, HeldMatched, SettledBooked, SettlingAtWork, Agrees, FreeRow, LIVE_STATUSES
<1>3. AllUp
  BY DEF QueueInit, AllUp
<1> QED BY <1>1, <1>2, <1>3 DEF QueueInv

(* A step that changes nothing is a move too.                              *)
LEMMA StutterMoves ==
    ASSUME QueueBase, UNCHANGED queueAll
    PROVE  QueueMoves
<1>1. UNCHANGED <<chainVars, submitterVars, row, attempt, mem, slots, posts, worker, held, cursor,
                  up, crashes, failures>>
  BY DEF queueAll, queueVars
<1>2. UNCHANGED cancelLog
  BY <1>1 DEF chainVars
<1>3. QueueVarsOK'
  BY <1>1, <1>2, Parts DEF QueueVarsOK
<1>4. \A o \in Orders : QuietMove(o)
  BY <1>1 DEF QuietMove, Rests, SameReach
<1>5. \A t \in Tasks : held'[t] \subseteq held[t]
  BY <1>1
<1> QED BY <1>1, <1>3, <1>4, <1>5, QuietStep

(* Every step keeps the invariant.                                         *)
LEMMA QueueInvStep == QueueInv /\ [QueueNext]_queueAll => QueueInv'
<1> SUFFICES ASSUME QueueInv, [QueueNext]_queueAll PROVE QueueInv'
  OBVIOUS
<1>1. QueueBase
  BY DEF QueueInv
<1>2. CASE QueueStep
  BY <1>1, <1>2, QueueStepMoves, QueueInvMoves DEF QueueMoves
<1>3. ASSUME NEW r \in Relayers, Crash(r) PROVE QueueInv'
  BY <1>3, QueueInvCrash
<1>4. CASE UNCHANGED queueAll
  BY <1>1, <1>4, StutterMoves, QueueInvMoves DEF QueueMoves
<1> QED BY <1>2, <1>3, <1>4 DEF QueueNext

(* Every variable of relayer, submitter and chain keeps its type; a row    *)
(* that says settled is booked and its order spent; until the first crash  *)
(* a live row that is nobody's job has a live entry to be matched with.    *)
THEOREM RowsStaySound == QueueSpec => []RowsAreSound
<1>1. QueueInv => RowsAreSound
  <2> SUFFICES ASSUME QueueInv PROVE RowsAreSound
    OBVIOUS
  <2>1. QueueTypeOK
    BY Parts DEF QueueInv, QueueTypeOK
  <2>2. SettledRowIsBooked
    BY DEF QueueInv, OrderOK, SettledBooked, Booked, SettledRowIsBooked
  <2>3. LiveRowsAreMatchable
    BY DEF QueueInv, OrderOK, Agrees, Calm, OnTheJob, FreeRow, LiveRowsAreMatchable
  <2> QED BY <2>1, <2>2, <2>3 DEF RowsAreSound
<1> QED BY <1>1, QueueInvInit, QueueInvStep, PTL DEF QueueSpec

(* A row in status settling belongs to the job the running worker is on:   *)
(* no way a job ends, no crash and no boot leaves an orphan behind.        *)
THEOREM NoOrphanedSettling == QueueSpec => []OnlyTheWorkerSettles
<1>1. QueueInv => OnlyTheWorkerSettles
  BY DEF QueueInv, OrderOK, SettlingAtWork, IsTheJob, OnlyTheWorkerSettles
<1> QED BY <1>1, QueueInvInit, QueueInvStep, PTL DEF QueueSpec

-----------------------------------------------------------------------------
(* The slots of the users' keys.                                           *)

OPEN_STATUSES == LIVE_STATUSES \cup IN_FLIGHT_STATUSES

(* An order takes a slot of its key while its entry or its row is open or  *)
(* a job has it, and a second one when it came back while the job still    *)
(* has what it was before; a request takes one while its proof is checked. *)
TakesSlot(o) == mem[o] \in OPEN_STATUSES \/ row[o] \in OPEN_STATUSES \/ OnTheJob(o)
TakesSecond(o) == OnTheJob(o) /\ mem[o] \in OPEN_STATUSES /\ o \notin held[JobTask(o)]
Takers(k) == {o \in Orders : KeyOf[o] = k /\ TakesSlot(o)}
Returned(k) == {o \in Orders : KeyOf[o] = k /\ TakesSecond(o)}
Requests(k) == {p \in Posts : posts[p].at = "verifying" /\ KeyOf[posts[p].order] = k}
Taken(k) == Cardinality(Takers(k)) + Cardinality(Returned(k)) + Cardinality(Requests(k))

(* While the relayer runs its counter covers what is taken; what it will   *)
(* count at the next boot stays within the limit.                          *)
Running(k) == \A o \in Orders : KeyOf[o] = k => up[Owner[o]] = "up"
Limit(k) == IF Running(k) THEN slots[k] ELSE MAX_ORDERS_PER_PUBKEY
KeyOK(k) == Taken(k) <= Limit(k) /\ slots[k] <= MAX_ORDERS_PER_PUBKEY

(* A process that does not run has neither entries nor requests.           *)
NoEntries == \A o \in Orders : up[Owner[o]] # "up" => mem[o] = "none"
PostsRun ==
    \A p \in Posts : posts[p].at # "idle" =>
        posts[p].order \in Orders /\ up[Owner[posts[p].order]] = "up"

(* A worker that awaits a submission has a job.                            *)
BusyHasJob == \A r \in Relayers : sub[WorkerOf[r]].at # "idle" => worker[r].job \in Orders

NothingExpired == \A o \in Orders : ~Expired(o)
SlotsInv ==
    /\ QueueInv /\ NoEntries /\ PostsRun
    /\ NothingExpired => \A k \in Keys : KeyOK(k)

(* What is taken from a finite set and what is left of it.                 *)
LEMMA Fewer ==
    ASSUME NEW A, IsFiniteSet(A), NEW D \in SUBSET A, NEW B \in SUBSET (A \ D)
    PROVE  /\ Cardinality(A) \in Nat /\ Cardinality(D) \in Nat /\ Cardinality(B) \in Nat
           /\ Cardinality(B) + Cardinality(D) <= Cardinality(A)
<1>1. IsFiniteSet(B) /\ IsFiniteSet(D)
  BY FS_Subset
<1>2. B \cap D = {}
  OBVIOUS
<1>3. Cardinality(B \cup D) = Cardinality(B) + Cardinality(D) - Cardinality(B \cap D)
  BY <1>1, FS_Union
<1>4. Cardinality(B \cup D) <= Cardinality(A)
  BY FS_Subset
<1>5. Cardinality(A) \in Nat /\ Cardinality(D) \in Nat /\ Cardinality(B) \in Nat
  BY <1>1, FS_CardinalityType
<1> QED BY <1>2, <1>3, <1>4, <1>5, FS_EmptySet

(* One more at most.                                                       *)
LEMMA OneMore ==
    ASSUME NEW A, IsFiniteSet(A), NEW x, NEW B \in SUBSET (A \cup {x})
    PROVE  Cardinality(B) <= Cardinality(A) + 1
<1>1. Cardinality(B) <= Cardinality(A \cup {x}) /\ IsFiniteSet(B) /\ IsFiniteSet(A \cup {x})
  BY FS_AddElement, FS_Subset
<1>2. Cardinality(A \cup {x}) = IF x \in A THEN Cardinality(A) ELSE Cardinality(A) + 1
  BY FS_AddElement
<1>3. Cardinality(A) \in Nat /\ Cardinality(B) \in Nat /\ Cardinality(A \cup {x}) \in Nat
  BY <1>1, FS_CardinalityType
<1> QED BY <1>1, <1>2, <1>3

(* What is counted of a key is finite, before and after a step.            *)
LEMMA TakersFinite ==
    ASSUME NEW k \in Keys
    PROVE  /\ IsFiniteSet(Takers(k)) /\ IsFiniteSet(Returned(k)) /\ IsFiniteSet(Requests(k))
           /\ IsFiniteSet(Takers(k)') /\ IsFiniteSet(Returned(k)') /\ IsFiniteSet(Requests(k)')
           /\ Cardinality(Takers(k)) \in Nat /\ Cardinality(Returned(k)) \in Nat
           /\ Cardinality(Requests(k)) \in Nat
           /\ Cardinality(Takers(k)') \in Nat /\ Cardinality(Returned(k)') \in Nat
           /\ Cardinality(Requests(k)') \in Nat
<1>1. IsFiniteSet(Orders) /\ IsFiniteSet(Posts)
  BY SubmitterAssumption, QueueAssumption
<1>2. /\ Takers(k) \subseteq Orders /\ Returned(k) \subseteq Orders /\ Requests(k) \subseteq Posts
      /\ Takers(k)' \subseteq Orders /\ Returned(k)' \subseteq Orders /\ Requests(k)' \subseteq Posts
  BY DEF Takers, Returned, Requests
<1>3. /\ IsFiniteSet(Takers(k)) /\ IsFiniteSet(Returned(k)) /\ IsFiniteSet(Requests(k))
      /\ IsFiniteSet(Takers(k)') /\ IsFiniteSet(Returned(k)') /\ IsFiniteSet(Requests(k)')
  BY <1>1, <1>2, FS_Subset
<1> QED BY <1>3, FS_CardinalityType

(* Counting nobody down.                                                   *)
LEMMA DecNone ==
    ASSUME slots \in [Keys -> Nat]
    PROVE  decPubKeyCount({}) = slots
<1>1. ASSUME NEW k \in Keys
      PROVE  Decremented(slots[k], Cardinality({o \in {} : KeyOf[o] = k})) = slots[k]
  <2>1. {o \in {} : KeyOf[o] = k} = {} /\ slots[k] \in Nat
    OBVIOUS
  <2>2. Cardinality({o \in {} : KeyOf[o] = k}) = 0
    BY <2>1, FS_EmptySet
  <2> QED BY <2>1, <2>2 DEF Decremented
<1>2. decPubKeyCount({}) = [k \in Keys |-> slots[k]]
  BY <1>1 DEF decPubKeyCount
<1> QED BY <1>2

(* An order whose slot is given back takes one less.                       *)
GivesBack(o) == IF TakesSecond(o) THEN ~TakesSecond(o)' ELSE TakesSlot(o) /\ ~TakesSlot(o)'

(* The counter covers what is taken when slots are given back.             *)
LEMMA KeyCounted ==
    ASSUME NEW k \in Keys, KeyOK(k), slots \in [Keys -> Nat],
           NEW S \in SUBSET Orders, slots' = decPubKeyCount(S),
           Running(k)' <=> Running(k),
           Takers(k)' \subseteq Takers(k), Returned(k)' \subseteq Returned(k),
           Requests(k)' \subseteq Requests(k),
           \A o \in S : KeyOf[o] = k => GivesBack(o)
    PROVE  KeyOK(k)'
<1> DEFINE K == {o \in S : KeyOf[o] = k}
           D2 == K \cap Returned(k)
           D1 == K \ D2
           c == Cardinality(K)
<1>1. /\ D1 \in SUBSET Takers(k) /\ Takers(k)' \in SUBSET (Takers(k) \ D1)
      /\ D2 \in SUBSET Returned(k) /\ Returned(k)' \in SUBSET (Returned(k) \ D2)
  BY DEF GivesBack, Takers, Returned
<1>2. IsFiniteSet(D1) /\ IsFiniteSet(D2) /\ K = D1 \cup D2 /\ D1 \cap D2 = {}
  BY <1>1, TakersFinite, FS_Subset
<1>3. /\ c \in Nat /\ c = Cardinality(D1) + Cardinality(D2)
      /\ Cardinality(D1) \in Nat /\ Cardinality(D2) \in Nat
  <2>1. Cardinality(D1 \cup D2) = Cardinality(D1) + Cardinality(D2) - Cardinality(D1 \cap D2)
    BY <1>2, FS_Union
  <2>2. Cardinality(D1) \in Nat /\ Cardinality(D2) \in Nat /\ Cardinality(D1 \cap D2) = 0
    BY <1>2, FS_EmptySet, FS_CardinalityType
  <2>3. c = Cardinality(D1 \cup D2)
    BY <1>2
  <2> HIDE DEF c, K, D1, D2
  <2> QED BY <2>1, <2>2, <2>3
<1>4. /\ Cardinality(Takers(k)') + Cardinality(D1) <= Cardinality(Takers(k))
      /\ Cardinality(Returned(k)') + Cardinality(D2) <= Cardinality(Returned(k))
  BY <1>1, TakersFinite, Fewer
<1>5. Cardinality(Requests(k)') <= Cardinality(Requests(k))
  BY TakersFinite, FS_Subset
<1>6. slots'[k] = IF slots[k] > c THEN slots[k] - c ELSE 0
  BY DEF decPubKeyCount, Decremented
<1>7. slots[k] \in Nat /\ MAX_ORDERS_PER_PUBKEY \in Nat
  BY QueueAssumption
<1> HIDE DEF c, K, D1, D2
<1>8. Taken(k)' + c <= Taken(k) /\ Taken(k) \in Nat /\ Taken(k)' \in Nat
  BY <1>3, <1>4, <1>5, TakersFinite DEF Taken
<1>9. CASE Running(k)
  <2>1. Limit(k) = slots[k] /\ Limit(k)' = slots'[k]
    BY <1>9 DEF Limit
  <2> QED BY <1>3, <1>6, <1>7, <1>8, <2>1 DEF KeyOK
<1>10. CASE ~Running(k)
  <2>1. Limit(k) = MAX_ORDERS_PER_PUBKEY /\ Limit(k)' = MAX_ORDERS_PER_PUBKEY
    BY <1>10 DEF Limit
  <2> QED BY <1>3, <1>6, <1>7, <1>8, <2>1 DEF KeyOK
<1> QED BY <1>9, <1>10

(* However an order moves, unless it is accepted it takes no more.         *)
LEMMA TakesNoMore ==
    ASSUME QueueInv, NEW o \in Orders, Moves(o), ~Accepted(o)
    PROVE  (TakesSlot(o)' => TakesSlot(o)) /\ (TakesSecond(o)' => TakesSecond(o))
<1>0. QueueBase /\ JobTask(o) \in Tasks
  BY OrderParts DEF QueueInv
<1>1. CASE SameJob(o) /\ QuietMove(o)
  <2>1. OnTheJob(o)' <=> OnTheJob(o)
    BY <1>1 DEF SameJob, OnTheJob
  <2>2. CASE mem'[o] = mem[o] /\ SameReach(o) /\ (row'[o] \in OPEN_STATUSES => row[o] \in OPEN_STATUSES)
    BY <1>0, <2>1, <2>2 DEF TakesSlot, TakesSecond, SameReach, JobTask
  <2>3. CASE mem'[o] = "none" /\ (row'[o] \in OPEN_STATUSES => row[o] \in OPEN_STATUSES)
    BY <2>1, <2>3 DEF TakesSlot, TakesSecond, OPEN_STATUSES, LIVE_STATUSES, IN_FLIGHT_STATUSES
  <2> QED BY <1>1, <2>2, <2>3
          DEF QuietMove, Rests, Withdrawn, Parked, Swept, Purged, Dismissed, OPEN_STATUSES,
              LIVE_STATUSES, IN_FLIGHT_STATUSES
<1>2. CASE JobMove(o)
  <2>1. CASE Claimed(o) \/ Paired(o)
    BY <2>1 DEF Claimed, Paired, TakesSlot, TakesSecond, OPEN_STATUSES, LIVE_STATUSES,
                IN_FLIGHT_STATUSES, JobTask
  <2>2. CASE Completed(o) \/ GivenBack(o) \/ Judged(o)
    BY <2>2 DEF Completed, GivenBack, Judged, LeavesJob, TakesSlot, TakesSecond
  <2> QED BY <1>2, <2>1, <2>2 DEF JobMove
<1>3. CASE SameJob(o) /\ Restored(o)
  <2>1. ~OnTheJob(o)
    BY <1>0, <1>3, OrderParts DEF Restored
  <2>2. ~OnTheJob(o)'
    BY <1>3, <2>1 DEF SameJob, OnTheJob
  <2> QED BY <1>3, <2>1, <2>2 DEF Restored, TakesSlot, TakesSecond, OPEN_STATUSES, LIVE_STATUSES,
                                  IN_FLIGHT_STATUSES
<1> QED BY <1>1, <1>2, <1>3 DEF Moves


(* A step that accepts no order and boots no relayer.                      *)
Plain ==
    /\ OrdersMove
    /\ \A o \in Orders : row[o] = "none" => row'[o] = "none"
    /\ \A r \in Relayers : up'[r] = "up" <=> up[r] = "up"
    /\ \A o \in Orders : up[Owner[o]] # "up" => mem'[o] = mem[o]

(* Nothing expires before it has expired.                                  *)
LEMMA NothingExpiredBefore ==
    ASSUME QueueBase, Grows, SubmitterTypeOK', NothingExpired'
    PROVE  NothingExpired
<1> SUFFICES ASSUME NEW o \in Orders PROVE ~Expired(o)
  BY DEF NothingExpired
<1>1. clock \in Nat /\ clock' \in Nat /\ Expiry[o] \in Nat /\ clock <= clock'
  BY SubmitterAssumption, Parts DEF SubmitterTypeOK, Grows
<1> QED BY <1>1 DEF NothingExpired, Expired

(* Such a step keeps the count if it gives back the slots it counts down.  *)
LEMMA PlainKeeps ==
    ASSUME SlotsInv, Plain, PostsRun', NEW S \in SUBSET Orders, slots' = decPubKeyCount(S),
           \A k \in Keys : Requests(k)' \subseteq Requests(k),
           NothingExpired => \A o \in S : GivesBack(o)
    PROVE  SlotsInv'
<1>1. QueueInv /\ QueueBase /\ slots \in [Keys -> Nat]
  BY Parts DEF SlotsInv, QueueInv
<1>2. QueueInv'
  BY <1>1, QueueInvMoves DEF Plain
<1>3. NoEntries'
  BY QueueAssumption DEF SlotsInv, NoEntries, Plain
<1>4. ASSUME NothingExpired', NEW k \in Keys PROVE KeyOK(k)'
  <2>1. NothingExpired /\ KeyOK(k)
    <3>1. Grows /\ SubmitterTypeOK'
      BY DEF Plain, OrdersMove, QueueBase, SubmitterOK
    <3> QED BY <1>1, <1>4, <3>1, NothingExpiredBefore DEF SlotsInv
  <2>2. Running(k)' <=> Running(k)
    BY QueueAssumption DEF Running, Plain
  <2>3. ASSUME NEW o \in Orders
        PROVE  (TakesSlot(o)' => TakesSlot(o)) /\ (TakesSecond(o)' => TakesSecond(o))
    <3>1. Moves(o) /\ ~Accepted(o)
      BY DEF Plain, OrdersMove, Accepted
    <3> QED BY <1>1, <3>1, TakesNoMore
  <2>4. Takers(k)' \subseteq Takers(k) /\ Returned(k)' \subseteq Returned(k)
    BY <2>3 DEF Takers, Returned
  <2> QED BY <1>1, <2>1, <2>2, <2>4, KeyCounted
<1> QED BY <1>2, <1>3, <1>4 DEF SlotsInv

(* The requests go on where they are.                                      *)
LEMMA SamePosts ==
    ASSUME SlotsInv, Plain, UNCHANGED posts
    PROVE  PostsRun' /\ \A k \in Keys : Requests(k)' \subseteq Requests(k)
BY QueueAssumption DEF SlotsInv, PostsRun, Plain, Requests

(* Steps that leave counter and requests alone.                            *)
LEMMA UncountedKeeps ==
    ASSUME SlotsInv, Plain, UNCHANGED <<slots, posts>>
    PROVE  SlotsInv'
<1>1. slots' = decPubKeyCount({})
  BY Parts, DecNone DEF SlotsInv, QueueInv
<1>2. PostsRun' /\ \A k \in Keys : Requests(k)' \subseteq Requests(k)
  BY SamePosts
<1> QED BY <1>1, <1>2, PlainKeeps

(* So do a running relayer's steps that leave counter and requests alone.  *)
LEMMA QuietKeeps ==
    ASSUME SlotsInv, OrdersMove, UNCHANGED <<slots, posts, up>>, NEW r \in Relayers, up[r] = "up",
           \A o \in Orders : row[o] = "none" => row'[o] = "none",
           \A o \in Orders \ Own(r) : mem'[o] = mem[o]
    PROVE  SlotsInv'
<1>1. Plain
  BY DEF Plain, Own
<1> QED BY <1>1, UncountedKeeps

(* Steps outside the queue.                                                *)
LEMMA OutsideKeeps ==
    ASSUME SlotsInv, Environment \/ (\E r \in Relayers : Submission(r)) \/ UNCHANGED queueAll
    PROVE  SlotsInv'
<1>1. QueueBase
  BY DEF SlotsInv, QueueInv
<1>2. OrdersMove
  BY <1>1, EnvironmentMoves, SubmissionMoves, StutterMoves DEF QueueMoves
<1>3. UNCHANGED <<row, mem, slots, posts, up>>
  BY DEF Environment, Submission, queueAll, queueVars
<1>4. Plain
  BY <1>2, <1>3 DEF Plain
<1> QED BY <1>3, <1>4, UncountedKeeps

(* A request begins.                                                       *)
LEMMA PostStartKeeps ==
    ASSUME SlotsInv, NEW p \in Posts, NEW o \in Orders, PostStart(p, o)
    PROVE  SlotsInv'
<1>0. /\ QueueBase /\ row \in [Orders -> Statuses \cup {"none"}]
      /\ mem \in [Orders -> Statuses \cup {"none"}] /\ slots \in [Keys -> Nat]
  BY Parts DEF SlotsInv, QueueInv
<1>1. /\ up[Owner[o]] = "up" /\ UNCHANGED <<slots, up>>
      /\ posts' = [posts EXCEPT ![p] = [at |-> "binding", order |-> o]]
      /\ row' = IF IsRetry(o) THEN [row EXCEPT ![o] = "none"] ELSE row
      /\ mem' = IF IsRetry(o) THEN [mem EXCEPT ![o] = "none"] ELSE mem
  BY DEF PostStart
<1>2. posts'[p] = [at |-> "binding", order |-> o] /\ \A q \in Posts \ {p} : posts'[q] = posts[q]
  BY <1>0, <1>1 DEF QueueBase, QueueVarsOK
<1>3. Plain
  <2>1. \A x \in Orders : row[x] = "none" => row'[x] = "none"
    BY <1>0, <1>1
  <2>2. \A x \in Orders : up[Owner[x]] # "up" => mem'[x] = mem[x]
    BY <1>0, <1>1
  <2> QED BY <1>0, <1>1, <2>1, <2>2, PostStartMoves DEF Plain, QueueMoves
<1>4. PostsRun' /\ \A k \in Keys : Requests(k)' \subseteq Requests(k)
  BY <1>1, <1>2 DEF SlotsInv, PostsRun, Requests
<1>5. slots' = decPubKeyCount({})
  BY <1>0, <1>1, DecNone
<1> QED BY <1>3, <1>4, <1>5, PlainKeeps

(* A slot is taken if there is one.                                        *)
LEMMA PostReserveKeeps ==
    ASSUME SlotsInv, NEW p \in Posts, PostReserve(p)
    PROVE  SlotsInv'
<1> DEFINE o == posts[p].order
           k0 == KeyOf[o]
<1>0. /\ QueueBase /\ slots \in [Keys -> Nat] /\ posts[p].at = "binding"
      /\ o \in Orders /\ up[Owner[o]] = "up" /\ k0 \in Keys
      /\ UNCHANGED <<row, mem, worker, held, up>>
  BY Parts, QueueAssumption DEF SlotsInv, QueueInv, PostReserve, PostsRun
<1>1. OrdersMove
  BY <1>0, PostReserveMoves DEF QueueMoves
<1>2. CASE slots' = slots /\ posts' = [posts EXCEPT ![p] = NoPost]
  <2>1. posts'[p] = NoPost /\ \A q \in Posts \ {p} : posts'[q] = posts[q]
    BY <1>0, <1>2 DEF QueueBase, QueueVarsOK
  <2>2. PostsRun' /\ \A k \in Keys : Requests(k)' \subseteq Requests(k)
    BY <1>0, <2>1 DEF SlotsInv, PostsRun, Requests, NoPost
  <2>3. Plain /\ slots' = decPubKeyCount({})
    BY <1>0, <1>1, <1>2, DecNone DEF Plain
  <2> QED BY <2>2, <2>3, PlainKeeps
<1>3. CASE HasSlot(o) /\ slots' = incPubKeyCount(k0) /\ posts' = [posts EXCEPT ![p].at = "verifying"]
  <2>1. /\ posts'[p].at = "verifying" /\ posts'[p].order = o
        /\ \A q \in Posts \ {p} : posts'[q] = posts[q]
    BY <1>0, <1>3 DEF QueueBase, QueueVarsOK
  <2>2. PostsRun' /\ NoEntries' /\ QueueInv'
    <3>1. PostsRun'
      BY <1>0, <2>1 DEF SlotsInv, PostsRun
    <3>2. NoEntries'
      BY <1>0 DEF SlotsInv, NoEntries
    <3> QED BY <1>1, <3>1, <3>2, QueueInvMoves DEF SlotsInv
  <2>3. ASSUME NothingExpired', NEW k \in Keys PROVE KeyOK(k)'
    <3>1. KeyOK(k)
      <4>1. Grows /\ SubmitterTypeOK'
        BY <1>1 DEF OrdersMove, QueueBase, SubmitterOK
      <4> QED BY <1>0, <2>3, <4>1, NothingExpiredBefore DEF SlotsInv
    <3>2. /\ Takers(k)' = Takers(k) /\ Returned(k)' = Returned(k) /\ Running(k)' = Running(k)
      BY <1>0 DEF Takers, Returned, Running, TakesSlot, TakesSecond, OnTheJob
    <3>3. CASE k # k0
      <4>1. slots'[k] = slots[k]
        BY <1>0, <1>3, <3>3 DEF incPubKeyCount
      <4>2. Requests(k)' = Requests(k)
        BY <1>0, <2>1, <3>3 DEF Requests
      <4> QED BY <3>1, <3>2, <4>1, <4>2 DEF KeyOK, Limit, Taken
    <3>4. CASE k = k0
      <4>1. slots'[k] = slots[k] + 1 /\ slots[k] \in Nat /\ slots[k] < MAX_ORDERS_PER_PUBKEY
        BY <1>0, <1>3, <3>4 DEF incPubKeyCount, HasSlot
      <4>2. Requests(k)' = Requests(k) \cup {p} /\ p \notin Requests(k)
        BY <1>0, <2>1, <3>4 DEF Requests
      <4>3. Cardinality(Requests(k)') = Cardinality(Requests(k)) + 1
        BY <4>2, TakersFinite, FS_AddElement
      <4>4. Running(k)
        BY <1>0, <3>4, QueueAssumption DEF Running
      <4> QED BY <3>1, <3>2, <4>1, <4>3, <4>4, TakersFinite, QueueAssumption DEF KeyOK, Limit, Taken
    <3> QED BY <3>3, <3>4
  <2> QED BY <2>2, <2>3 DEF SlotsInv
<1> QED BY <1>2, <1>3 DEF PostReserve


(* An order is accepted with the slot of its request, or the slot is given *)
(* back.                                                                   *)
LEMMA PostAcceptKeeps ==
    ASSUME SlotsInv, NEW p \in Posts, PostAccept(p)
    PROVE  SlotsInv'
<1>o. PICK o : o = posts[p].order
  OBVIOUS
<1> DEFINE k0 == KeyOf[o]
<1>0. /\ QueueBase /\ QueueInv /\ slots \in [Keys -> Nat] /\ posts[p].at = "verifying"
      /\ row \in [Orders -> Statuses \cup {"none"}] /\ mem \in [Orders -> Statuses \cup {"none"}]
      /\ held \in [Tasks -> SUBSET Orders]
      /\ o \in Orders /\ up[Owner[o]] = "up" /\ k0 \in Keys
      /\ posts' = [posts EXCEPT ![p] = NoPost] /\ UNCHANGED <<worker, up>>
  BY <1>o, Parts, QueueAssumption DEF SlotsInv, QueueInv, PostAccept, PostsRun
<1>1. OrdersMove /\ QueueInv'
  BY <1>0, PostAcceptMoves, QueueInvMoves DEF QueueMoves
<1>2. posts'[p] = NoPost /\ \A q \in Posts \ {p} : posts'[q] = posts[q]
  BY <1>0 DEF QueueBase, QueueVarsOK
<1>3. PostsRun'
  BY <1>0, <1>2 DEF SlotsInv, PostsRun, NoPost
<1>4. \A k \in Keys : Requests(k)' = Requests(k) \ {p}
  BY <1>2 DEF Requests, NoPost
<1>5. p \in Requests(k0)
  BY <1>o, <1>0 DEF Requests
<1>6. ASSUME NothingExpired', NEW k \in Keys PROVE KeyOK(k)
  <2>1. Grows /\ SubmitterTypeOK'
    BY <1>1 DEF OrdersMove, QueueBase, SubmitterOK
  <2> QED BY <1>0, <1>6, <2>1, NothingExpiredBefore DEF SlotsInv
<1>7. CASE /\ row[o] = "none" /\ row' = [row EXCEPT ![o] = "accepted"]
           /\ mem' = [mem EXCEPT ![o] = "accepted"] /\ held' = Detached({o}) /\ UNCHANGED slots
  <2>1. NoEntries'
    BY <1>0, <1>7 DEF SlotsInv, NoEntries
  <2>2. ASSUME NothingExpired', NEW k \in Keys PROVE KeyOK(k)'
    <3>1. ASSUME NEW x \in Orders, x # o
          PROVE  (TakesSlot(x)' <=> TakesSlot(x)) /\ (TakesSecond(x)' <=> TakesSecond(x))
      <4>1. row'[x] = row[x] /\ mem'[x] = mem[x] /\ OnTheJob(x)' = OnTheJob(x)
        BY <1>0, <1>7, <3>1 DEF OnTheJob
      <4>2. JobTask(x) \in Tasks
        BY <1>0, OrderParts
      <4>3. x \in held'[JobTask(x)] <=> x \in held[JobTask(x)]
        BY <1>0, <1>7, <3>1, <4>2 DEF Detached
      <4> QED BY <4>1, <4>3 DEF TakesSlot, TakesSecond, JobTask
    <3>2. Running(k)' = Running(k) /\ slots'[k] = slots[k]
      BY <1>0, <1>7 DEF Running
    <3>3. CASE k # k0
      <4>1. Takers(k)' = Takers(k) /\ Returned(k)' = Returned(k) /\ Requests(k)' = Requests(k)
        BY <1>o, <1>4, <3>1, <3>3 DEF Takers, Returned, Requests
      <4> QED BY <1>6, <2>2, <3>2, <4>1 DEF KeyOK, Limit, Taken
    <3>4. CASE k = k0
      <4>1. Cardinality(Requests(k)') = Cardinality(Requests(k)) - 1
        BY <1>4, <1>5, <3>4, TakersFinite, FS_RemoveElement
      <4>2. Taken(k)' <= Taken(k)
        <5>1. CASE ~OnTheJob(o)
          <6>1. ~TakesSecond(o)'
            BY <1>0, <5>1 DEF TakesSecond, OnTheJob
          <6>2. Takers(k)' \subseteq Takers(k) \cup {o} /\ Returned(k)' \subseteq Returned(k)
            BY <3>1, <6>1 DEF Takers, Returned
          <6>3. Cardinality(Takers(k)') <= Cardinality(Takers(k)) + 1
            BY <6>2, TakersFinite, OneMore
          <6>4. Cardinality(Returned(k)') <= Cardinality(Returned(k))
            BY <6>2, TakersFinite, FS_Subset
          <6> QED BY <4>1, <6>3, <6>4, TakersFinite DEF Taken
        <5>2. CASE OnTheJob(o)
          <6>1. TakesSlot(o)
            BY <5>2 DEF TakesSlot
          <6>2. Takers(k)' \subseteq Takers(k) /\ Returned(k)' \subseteq Returned(k) \cup {o}
            BY <3>1, <3>4, <6>1 DEF Takers, Returned
          <6>3. Cardinality(Returned(k)') <= Cardinality(Returned(k)) + 1
            BY <6>2, TakersFinite, OneMore
          <6>4. Cardinality(Takers(k)') <= Cardinality(Takers(k))
            BY <6>2, TakersFinite, FS_Subset
          <6> QED BY <4>1, <6>3, <6>4, TakersFinite DEF Taken
        <5> QED BY <5>1, <5>2
      <4>3. Taken(k) \in Nat /\ Taken(k)' \in Nat /\ slots[k] \in Nat
        <5>1. Taken(k) \in Nat /\ slots[k] \in Nat
          BY <1>0, TakersFinite DEF Taken
        <5>2. Taken(k)' \in Nat
          BY TakersFinite DEF Taken
        <5> QED BY <5>1, <5>2
      <4> QED BY <1>6, <2>2, <3>2, <4>2, <4>3, QueueAssumption DEF KeyOK, Limit
    <3> QED BY <3>3, <3>4
  <2> QED BY <1>1, <1>3, <2>1, <2>2 DEF SlotsInv
<1>8. CASE slots' = decPubKeyCount({o}) /\ UNCHANGED <<row, mem, held>>
  <2>1. NoEntries'
    BY <1>0, <1>8 DEF SlotsInv, NoEntries
  <2>2. ASSUME NothingExpired', NEW k \in Keys PROVE KeyOK(k)'
    <3>1. /\ Takers(k)' = Takers(k) /\ Returned(k)' = Returned(k) /\ Running(k)' = Running(k)
      BY <1>0, <1>8 DEF Takers, Returned, Running, TakesSlot, TakesSecond, OnTheJob
    <3>2. slots'[k] = Decremented(slots[k], Cardinality({x \in {o} : KeyOf[x] = k}))
      BY <1>8 DEF decPubKeyCount
    <3>3. CASE k # k0
      <4>1. {x \in {o} : KeyOf[x] = k} = {} /\ Requests(k)' = Requests(k)
        BY <1>o, <1>4, <3>3 DEF Requests
      <4>2. slots'[k] = slots[k]
        <5>1. Cardinality({x \in {o} : KeyOf[x] = k}) = 0
          BY <4>1, FS_EmptySet
        <5>2. slots[k] \in Nat
          BY <1>0
        <5> QED BY <3>2, <5>1, <5>2 DEF Decremented
      <4> QED BY <1>6, <2>2, <3>1, <4>1, <4>2 DEF KeyOK, Limit, Taken
    <3>4. CASE k = k0
      <4>1. {x \in {o} : KeyOf[x] = k} = {o}
        BY <3>4
      <4>2. slots'[k] = IF slots[k] > 1 THEN slots[k] - 1 ELSE 0
        BY <3>2, <4>1, FS_Singleton DEF Decremented
      <4>3. Cardinality(Requests(k)') = Cardinality(Requests(k)) - 1
        BY <1>4, <1>5, <3>4, TakersFinite, FS_RemoveElement
      <4>4. Running(k)
        BY <1>0, <3>4, QueueAssumption DEF Running
      <4>5. slots[k] \in Nat
        BY <1>0
      <4>6. Taken(k)' = Taken(k) - 1 /\ Taken(k) \in Nat /\ Taken(k)' \in Nat
        <5>1. Taken(k) \in Nat /\ Taken(k)' = Taken(k) - 1
          BY <3>1, <4>3, TakersFinite DEF Taken
        <5>2. Taken(k)' \in Nat
          BY TakersFinite DEF Taken
        <5> QED BY <5>1, <5>2
      <4>7. Taken(k) <= slots[k] /\ slots[k] <= MAX_ORDERS_PER_PUBKEY
        BY <1>6, <2>2, <4>4 DEF KeyOK, Limit
      <4>8. Taken(k)' <= slots'[k] /\ slots'[k] <= MAX_ORDERS_PER_PUBKEY
        BY <4>2, <4>5, <4>6, <4>7, QueueAssumption
      <4>9. Limit(k)' = slots'[k]
        BY <3>1, <4>4 DEF Limit
      <4> QED BY <4>8, <4>9 DEF KeyOK
    <3> QED BY <3>3, <3>4
  <2> QED BY <1>1, <1>3, <2>1, <2>2 DEF SlotsInv
<1> QED BY <1>o, <1>7, <1>8 DEF PostAccept


(* The worker begins a job or parks one.                                   *)
LEMMA StartKeeps ==
    ASSUME SlotsInv, NEW r \in Relayers,
           settleSameToken(r) \/ settleCrossToken(r) \/ deferAccepted(r)
    PROVE  SlotsInv'
<1>0. /\ QueueBase /\ row \in [Orders -> Statuses \cup {"none"}]
      /\ mem \in [Orders -> Statuses \cup {"none"}]
  BY Parts DEF SlotsInv, QueueInv
<1>1. OrdersMove
  BY <1>0, SettleMoves, DeferMoves DEF QueueMoves
<1>2. ASSUME NEW o \in Claimable(r), NEW S \in SUBSET Own(r), StartJob(r, o, S)
      PROVE  /\ UNCHANGED <<slots, posts, up>>
             /\ \A x \in Orders : row[x] = "none" => row'[x] = "none"
             /\ \A x \in Orders \ Own(r) : mem'[x] = mem[x]
  BY <1>0, <1>2 DEF StartJob, Claimable, Own
<1>3. /\ UNCHANGED <<slots, posts, up>>
      /\ \A x \in Orders : row[x] = "none" => row'[x] = "none"
      /\ \A x \in Orders \ Own(r) : mem'[x] = mem[x]
  <2>1. CASE settleSameToken(r)
    <3>1. PICK o \in Claimable(r) : StartJob(r, o, {o})
      BY <2>1 DEF settleSameToken
    <3> QED BY <1>2, <3>1 DEF Claimable
  <2>2. CASE settleCrossToken(r)
    <3>1. PICK o \in Claimable(r) : \E c \in findMatch(o) : StartJob(r, o, {o, c})
      BY <2>2 DEF settleCrossToken
    <3>2. PICK c \in findMatch(o) : StartJob(r, o, {o, c})
      BY <3>1
    <3>3. {o, c} \in SUBSET Own(r)
      BY <3>1, <3>2 DEF Claimable, findMatch, Own
    <3> QED BY <1>2, <3>2, <3>3
  <2>3. CASE deferAccepted(r)
    BY <1>0, <2>3 DEF deferAccepted, memVars, Claimable, Own
  <2> QED BY <2>1, <2>2, <2>3
<1>4. up[r] = "up"
  BY DEF settleSameToken, settleCrossToken, deferAccepted, WorkerIdle
<1> QED BY <1>1, <1>3, <1>4, QuietKeeps

(* What every way a job ends has in common.                                *)
LEMMA EndsPlain ==
    ASSUME SlotsInv, NEW r \in Relayers, JobDone(r), OrdersMove,
           \A o \in Orders : row[o] = "none" => row'[o] = "none",
           \A o \in Orders \ worker[r].orders : mem'[o] = mem[o]
    PROVE  /\ Plain /\ PostsRun' /\ \A k \in Keys : Requests(k)' \subseteq Requests(k)
           /\ worker[r].orders \in SUBSET Own(r) /\ held[WorkerOf[r]] \subseteq worker[r].orders
           /\ \A o \in worker[r].orders :
                o \in Orders /\ OnTheJob(o) /\ ~OnTheJob(o)' /\ JobTask(o) = WorkerOf[r]
<1>1. QueueBase /\ JobOK(r)
  BY DEF SlotsInv, QueueInv, QueueBase, JobsMatch
<1>2. worker[r].orders \in SUBSET Own(r) /\ held[WorkerOf[r]] \subseteq worker[r].orders
  BY <1>1 DEF JobOK
<1>3. up[r] = "up" /\ UNCHANGED <<posts, up>> /\ worker'[r] = NoJob
  BY <1>1 DEF JobDone, QueueBase, QueueVarsOK
<1>4. Plain
  BY <1>2, <1>3 DEF Plain, Own
<1>5. \A o \in worker[r].orders :
          o \in Orders /\ OnTheJob(o) /\ ~OnTheJob(o)' /\ JobTask(o) = WorkerOf[r]
  BY <1>2, <1>3 DEF Own, OnTheJob, JobTask, NoJob
<1> QED BY <1>2, <1>3, <1>4, <1>5, SamePosts

(* Settled: both orders give their slots back.                             *)
LEMMA JobSettledKeeps ==
    ASSUME SlotsInv, NEW r \in Relayers, JobSettled(r)
    PROVE  SlotsInv'
<1> DEFINE S == worker[r].orders
           w == WorkerOf[r]
<1>0. /\ QueueBase /\ row \in [Orders -> Statuses \cup {"none"}]
      /\ mem \in [Orders -> Statuses \cup {"none"}]
  BY Parts DEF SlotsInv, QueueInv
<1>1. /\ JobDone(r) /\ slots' = decPubKeyCount(S)
      /\ row' = Marked(row, S, "settled") /\ mem' = Set(mem, held[w], "settled")
  BY DEF JobSettled
<1>2. OrdersMove
  BY <1>0, JobSettledMoves DEF QueueMoves
<1>3. held[w] \subseteq S
  BY <1>0 DEF QueueBase, JobsMatch, JobOK
<1>4. /\ Plain /\ PostsRun' /\ \A k \in Keys : Requests(k)' \subseteq Requests(k)
      /\ S \in SUBSET Own(r)
      /\ \A o \in S : o \in Orders /\ OnTheJob(o) /\ ~OnTheJob(o)' /\ JobTask(o) = w
  <2>1. \A o \in Orders : row[o] = "none" => row'[o] = "none"
    BY <1>0, <1>1 DEF Marked
  <2>2. \A o \in Orders \ S : mem'[o] = mem[o]
    BY <1>0, <1>1, <1>3 DEF Set
  <2> QED BY <1>1, <1>2, <2>1, <2>2, EndsPlain
<1>5. ASSUME NEW o \in S PROVE GivesBack(o)
  <2>1. OnTheJob(o) /\ ~OnTheJob(o)' /\ JobTask(o) = w /\ o \in Orders
    BY <1>4
  <2>2. /\ row'[o] \in {"none", "settled"}
        /\ mem'[o] = IF o \in held[w] THEN "settled" ELSE mem[o]
    BY <1>0, <1>1, <2>1 DEF Marked, Set
  <2> QED BY <2>1, <2>2
          DEF GivesBack, TakesSlot, TakesSecond, OPEN_STATUSES, LIVE_STATUSES, IN_FLIGHT_STATUSES
<1>6. S \in SUBSET Orders
  BY <1>4 DEF Own
<1> QED BY <1>1, <1>4, <1>5, <1>6, PlainKeeps

(* Failed or tried again: only a failed order gives its slot back.         *)
LEMMA JobJudgedKeeps ==
    ASSUME SlotsInv, BusyHasJob, NEW r \in Relayers, JobFailed(r) \/ JobRetried(r)
    PROVE  SlotsInv'
<1> DEFINE S == worker[r].orders
           w == WorkerOf[r]
<1>j. PICK j : j = worker[r].job
  OBVIOUS
<1>0. /\ QueueBase /\ row \in [Orders -> Statuses \cup {"none"}]
      /\ mem \in [Orders -> Statuses \cup {"none"}]
  BY Parts DEF SlotsInv, QueueInv
<1>1. OrdersMove /\ JobDone(r)
  BY <1>0, JobFailedMoves, JobRetriedMoves DEF QueueMoves, JobFailed, JobRetried
<1>2. PICK s \in {"failed", "dead_letter", "retrying"} :
          /\ row' = Marked(row, {j}, s) /\ mem' = Reverted(r, s)
          /\ \/ s # "retrying" /\ slots' = decPubKeyCount({j})
             \/ UNCHANGED slots
  BY <1>j DEF JobFailed, JobRetried
<1>3. held[w] \subseteq S /\ w \in Tasks
  BY <1>0, Parts DEF QueueBase, JobsMatch, JobOK
<1>4. /\ Plain /\ PostsRun' /\ \A k \in Keys : Requests(k)' \subseteq Requests(k)
      /\ S \in SUBSET Own(r)
      /\ \A o \in S : o \in Orders /\ OnTheJob(o) /\ ~OnTheJob(o)' /\ JobTask(o) = w
  <2>1. \A o \in Orders : row[o] = "none" => row'[o] = "none"
    BY <1>0, <1>2 DEF Marked
  <2>2. \A o \in Orders \ S : mem'[o] = mem[o]
    BY <1>0, <1>2, <1>3 DEF Reverted
  <2> QED BY <1>1, <2>1, <2>2, EndsPlain
<1>5. CASE UNCHANGED slots
  BY <1>1, <1>4, <1>5, UncountedKeeps DEF JobDone
<1>6. CASE s # "retrying" /\ slots' = decPubKeyCount({j})
  <2>1. j \in Orders
    BY <1>j, <1>1 DEF BusyHasJob, JobDone
  <2>2. j \in S /\ OnTheJob(j) /\ ~OnTheJob(j)' /\ JobTask(j) = w
    BY <1>j, <1>0, <1>4, <2>1 DEF QueueBase, JobsMatch, JobOK
  <2>3. /\ row'[j] \in {"none", s}
        /\ mem'[j] = IF j \in held[w] THEN s ELSE mem[j]
    BY <1>j, <1>0, <1>2, <2>1 DEF Marked, Reverted
  <2>4. GivesBack(j)
    BY <1>6, <2>2, <2>3 DEF GivesBack, TakesSlot, TakesSecond, OPEN_STATUSES, LIVE_STATUSES,
                            IN_FLIGHT_STATUSES
  <2>5. {j} \in SUBSET Orders /\ \A o \in {j} : GivesBack(o)
    BY <2>1, <2>4
  <2> QED BY <1>4, <1>6, <2>5, PlainKeeps
<1> QED BY <1>2, <1>5, <1>6


(* Removals of live entries by a running relayer give their slots back:    *)
(* the row ends, too, and no job has them.                                 *)
LEMMA RemovalKeeps ==
    ASSUME SlotsInv, OrdersMove, NEW r \in Relayers, NEW S \in SUBSET Own(r), up[r] = "up",
           UNCHANGED <<posts, worker, up>>,
           mem' = Set(mem, S, "none"), slots' = decPubKeyCount(Live(S)),
           \A o \in Orders : row[o] = "none" => row'[o] = "none",
           NothingExpired => \A o \in Live(S) : row'[o] \notin OPEN_STATUSES
    PROVE  SlotsInv'
<1>1. QueueBase /\ mem \in [Orders -> Statuses \cup {"none"}]
  BY Parts DEF SlotsInv, QueueInv
<1>2. \A o \in Orders : mem'[o] = IF o \in S THEN "none" ELSE mem[o]
  BY <1>1 DEF Set
<1>3. Plain
  BY <1>2 DEF Plain, Own
<1>4. ASSUME NothingExpired, NEW o \in Live(S) PROVE GivesBack(o)
  <2>1. o \in Orders /\ mem[o] \in LIVE_STATUSES /\ mem'[o] = "none" /\ row'[o] \notin OPEN_STATUSES
    BY <1>2, <1>4 DEF Live, Own
  <2>2. OnTheJob(o)' <=> OnTheJob(o)
    BY DEF OnTheJob
  <2>3. HeldMatched(o)
    BY <2>1 DEF SlotsInv, QueueInv, OrderOK
  <2>4. CASE OnTheJob(o)
    <3>1. o \notin held[JobTask(o)] /\ mem[o] \in OPEN_STATUSES
      BY <2>1, <2>3 DEF HeldMatched, OPEN_STATUSES, LIVE_STATUSES
    <3>2. TakesSecond(o) /\ ~TakesSecond(o)'
      BY <2>1, <2>4, <3>1 DEF TakesSecond, OPEN_STATUSES, LIVE_STATUSES, IN_FLIGHT_STATUSES
    <3> QED BY <3>2 DEF GivesBack
  <2>5. CASE ~OnTheJob(o)
    BY <2>1, <2>2, <2>5 DEF GivesBack, TakesSecond, TakesSlot, OPEN_STATUSES, LIVE_STATUSES,
                            IN_FLIGHT_STATUSES
  <2> QED BY <2>4, <2>5
<1>5. Live(S) \in SUBSET Orders
  BY DEF Live, Own
<1> QED BY <1>3, <1>4, <1>5, SamePosts, PlainKeeps

(* Timers, the operator's drain and cancellations on chain.                *)
LEMMA HousekeepingKeeps ==
    ASSUME SlotsInv, NEW r \in Relayers, Housekeeping(r)
    PROVE  SlotsInv'
<1>0. /\ QueueBase /\ row \in [Orders -> Statuses \cup {"none"}]
      /\ mem \in [Orders -> Statuses \cup {"none"}]
  BY Parts DEF SlotsInv, QueueInv
<1>1. OrdersMove
  BY <1>0, SweepMoves, PurgeMoves, DrainMoves, IndexMoves DEF QueueMoves, Housekeeping
<1>2. CASE sweepExpired(r)
  <2>1. /\ up[r] = "up" /\ UNCHANGED <<mem, slots, posts, up>>
        /\ \A o \in Orders : row[o] = "none" => row'[o] = "none"
    BY <1>0, <1>2 DEF sweepExpired, memVars, SweepStatuses
  <2> QED BY <1>1, <2>1, QuietKeeps
<1>3. CASE purgeNonPending(r)
  <2>1. PICK old \in SUBSET {o \in Own(r) : row[o] \in TERMINAL_STATUSES} : row' = Set(row, old, "none")
    BY <1>3 DEF purgeNonPending
  <2>2. /\ up[r] = "up" /\ UNCHANGED <<posts, worker, up>> /\ mem' = Set(mem, Purgeable(r), "none")
        /\ slots' = decPubKeyCount(Live(Purgeable(r))) /\ Purgeable(r) \in SUBSET Own(r)
    BY <1>3 DEF purgeNonPending, PurgeReleases, Purgeable
  <2>3. \A o \in Orders : row[o] = "none" => row'[o] = "none"
    BY <1>0, <2>1 DEF Set
  <2>4. NothingExpired => Live(Purgeable(r)) = {}
    BY DEF NothingExpired, Live, Purgeable, Own, LIVE_STATUSES, TERMINAL_STATUSES
  <2> QED BY <1>1, <2>2, <2>3, <2>4, RemovalKeeps
<1>4. CASE drainAuthorizeOrders(r)
  <2> DEFINE S == Live(Own(r))
  <2>1. /\ up[r] = "up" /\ UNCHANGED <<posts, worker, up>> /\ mem' = Set(mem, S, "none")
        /\ slots' = decPubKeyCount(S) /\ row' = Marked(row, S, "cancelled")
        /\ S \in SUBSET Own(r) /\ Live(S) = S
    BY <1>4 DEF drainAuthorizeOrders, Live
  <2>2. \A o \in Orders : row[o] = "none" => row'[o] = "none"
    BY <1>0, <2>1 DEF Marked
  <2>3. \A o \in S : row'[o] \notin OPEN_STATUSES
    BY <1>0, <2>1 DEF Marked, Own, OPEN_STATUSES, LIVE_STATUSES, IN_FLIGHT_STATUSES
  <2> HIDE DEF S
  <2> QED BY <1>1, <2>1, <2>2, <2>3, RemovalKeeps
<1>5. CASE indexCancels(r)
  <2>1. PICK S : S = {o \in NewCancels(r) : mem[o] # "none"}
    OBVIOUS
  <2>2. /\ up[r] = "up" /\ UNCHANGED <<posts, worker, up>> /\ mem' = Set(mem, S, "none")
        /\ slots' = decPubKeyCount(Live(S)) /\ row' = Marked(row, S, "cancelled")
        /\ S \in SUBSET Own(r) /\ Live(S) \subseteq S
    BY <1>5, <2>1 DEF indexCancels, applyOnChainAuthorizeCancel, NewCancels, Live
  <2>3. \A o \in Orders : row[o] = "none" => row'[o] = "none"
    BY <1>0, <2>2 DEF Marked
  <2>4. \A o \in Live(S) : row'[o] \notin OPEN_STATUSES
    BY <1>0, <2>2 DEF Marked, Own, OPEN_STATUSES, LIVE_STATUSES, IN_FLIGHT_STATUSES
  <2> QED BY <1>1, <2>2, <2>3, <2>4, RemovalKeeps
<1> QED BY <1>2, <1>3, <1>4, <1>5 DEF Housekeeping

(* A crash: what will be counted at the next boot is within the limit.     *)
LEMMA CrashKeeps ==
    ASSUME SlotsInv, NEW r \in Relayers, Crash(r)
    PROVE  SlotsInv'
<1>0. /\ QueueBase /\ QueueInv /\ row \in [Orders -> Statuses \cup {"none"}]
      /\ mem \in [Orders -> Statuses \cup {"none"}] /\ held \in [Tasks -> SUBSET Orders]
      /\ slots \in [Keys -> Nat] /\ QueueVarsOK
  BY Parts DEF SlotsInv, QueueInv
<1>1. /\ up' = [up EXCEPT ![r] = "down"] /\ mem' = Set(mem, Own(r), "none")
      /\ slots' = [k \in Keys |-> IF k \in KeysAt(r) THEN 0 ELSE slots[k]]
      /\ posts' = [p \in Posts |-> IF posts[p].order \in Own(r) THEN NoPost ELSE posts[p]]
      /\ worker' = [worker EXCEPT ![r] = NoJob]
      /\ held' = [t \in Tasks |-> IF RelayerOf[t] = r THEN {} ELSE held[t]]
      /\ UNCHANGED row
  BY DEF Crash
<1>2. QueueInv' /\ Grows
  BY <1>0, QueueInvCrash, CrashBase
<1>3. /\ up'[r] = "down" /\ \A q \in Relayers \ {r} : up'[q] = up[q]
      /\ worker'[r] = NoJob /\ \A q \in Relayers \ {r} : worker'[q] = worker[q]
  BY <1>0, <1>1 DEF QueueVarsOK
<1>4. NoEntries'
  BY <1>0, <1>1, <1>3, QueueAssumption DEF SlotsInv, NoEntries, Set, Own
<1>5. PostsRun'
  BY <1>1, <1>3, QueueAssumption DEF SlotsInv, PostsRun, Own, NoPost
<1>6. ASSUME NEW o \in Orders
      PROVE  (TakesSlot(o)' => TakesSlot(o)) /\ (TakesSecond(o)' => TakesSecond(o))
  <2>1. JobTask(o) \in Tasks /\ Owner[o] \in Relayers /\ RelayerOf[JobTask(o)] = Owner[o]
    BY <1>0, OrderParts, QueueAssumption DEF JobTask
  <2>2. CASE Owner[o] = r
    <3>1. mem'[o] = "none" /\ row'[o] = row[o] /\ ~OnTheJob(o)'
      BY <1>0, <1>1, <1>3, <2>2 DEF Set, Own, OnTheJob, NoJob
    <3> QED BY <3>1 DEF TakesSlot, TakesSecond, OPEN_STATUSES, LIVE_STATUSES, IN_FLIGHT_STATUSES
  <2>3. CASE Owner[o] # r
    <3>1. /\ mem'[o] = mem[o] /\ row'[o] = row[o] /\ OnTheJob(o)' = OnTheJob(o)
          /\ held'[JobTask(o)] = held[JobTask(o)]
      BY <1>0, <1>1, <1>3, <2>1, <2>3 DEF Set, Own, OnTheJob
    <3> QED BY <3>1 DEF TakesSlot, TakesSecond, JobTask
  <2> QED BY <2>2, <2>3
<1>7. ASSUME NothingExpired', NEW k \in Keys PROVE KeyOK(k)'
  <2>1. KeyOK(k)
    <3>1. SubmitterTypeOK'
      BY <1>2, Parts DEF QueueInv, QueueBase, SubmitterOK
    <3> QED BY <1>0, <1>2, <1>7, <3>1, NothingExpiredBefore DEF SlotsInv
  <2>2. Taken(k)' <= Taken(k) /\ Taken(k) \in Nat /\ Taken(k)' \in Nat
    <3>1. /\ Takers(k)' \subseteq Takers(k) /\ Returned(k)' \subseteq Returned(k)
          /\ Requests(k)' \subseteq Requests(k)
      BY <1>1, <1>6 DEF Takers, Returned, Requests, NoPost
    <3>2. /\ Cardinality(Takers(k)') <= Cardinality(Takers(k))
          /\ Cardinality(Returned(k)') <= Cardinality(Returned(k))
          /\ Cardinality(Requests(k)') <= Cardinality(Requests(k))
      BY <3>1, TakersFinite, FS_Subset
    <3>3. Taken(k) \in Nat
      BY TakersFinite DEF Taken
    <3>4. Taken(k)' \in Nat
      BY TakersFinite DEF Taken
    <3> QED BY <3>2, <3>3, <3>4, TakersFinite DEF Taken
  <2>3. slots[k] \in Nat /\ MAX_ORDERS_PER_PUBKEY \in Nat /\ slots'[k] <= slots[k] /\ slots'[k] \in Nat
    BY <1>0, <1>1, QueueAssumption
  <2>4. CASE k \in KeysAt(r)
    <3>1. ~Running(k)'
      BY <1>3, <2>4 DEF Running, KeysAt, Own
    <3> QED BY <2>1, <2>2, <2>3, <3>1 DEF KeyOK, Limit
  <2>5. CASE k \notin KeysAt(r)
    <3>1. slots'[k] = slots[k]
      BY <1>1, <2>5
    <3>2. Running(k)' <=> Running(k)
      BY <1>3, <2>5, QueueAssumption DEF Running, KeysAt, Own
    <3> QED BY <2>1, <2>2, <2>3, <3>1, <3>2 DEF KeyOK, Limit
  <2> QED BY <2>4, <2>5
<1> QED BY <1>2, <1>4, <1>5, <1>7 DEF SlotsInv


(* Boot, first half: the map is empty, so that no cancellation finds an    *)
(* entry.                                                                  *)
LEMMA BootScanKeeps ==
    ASSUME SlotsInv, NEW r \in Relayers, BootScan(r)
    PROVE  SlotsInv'
<1>0. /\ QueueBase /\ row \in [Orders -> Statuses \cup {"none"}]
      /\ mem \in [Orders -> Statuses \cup {"none"}] /\ slots \in [Keys -> Nat] /\ QueueVarsOK
  BY Parts DEF SlotsInv, QueueInv
<1>1. OrdersMove /\ up[r] = "down" /\ up' = [up EXCEPT ![r] = "scanned"] /\ UNCHANGED posts
  BY <1>0, BootScanMoves DEF QueueMoves, BootScan
<1>2. UNCHANGED <<slots, mem, row>>
  <2>1. CASE UNCHANGED <<slots, row, mem, held, cursor>>
    BY <2>1
  <2>2. CASE applyOnChainAuthorizeCancel(NewCancels(r))
    <3>1. {o \in NewCancels(r) : mem[o] # "none"} = {}
      BY <1>1 DEF NewCancels, Own, SlotsInv, NoEntries
    <3>2. /\ slots' = decPubKeyCount(Live({})) /\ row' = Marked(row, {}, "cancelled")
          /\ mem' = Set(mem, {}, "none")
      BY <2>2, <3>1 DEF applyOnChainAuthorizeCancel
    <3>3. Live({}) = {}
      BY DEF Live
    <3>4. slots' = slots
      BY <1>0, <3>2, <3>3, DecNone
    <3>5. row' = row /\ mem' = mem
      BY <1>0, <3>2 DEF Marked, Set
    <3> QED BY <3>4, <3>5
  <2> QED BY <2>1, <2>2 DEF BootScan
<1>3. Plain
  BY <1>0, <1>1, <1>2 DEF Plain, QueueVarsOK
<1> QED BY <1>1, <1>2, <1>3, UncountedKeeps

(* Second half: the counter starts from what was taken.                    *)
LEMMA BootRestoreKeeps ==
    ASSUME SlotsInv, NEW r \in Relayers, BootRestore(r)
    PROVE  SlotsInv'
<1>0. /\ QueueBase /\ QueueInv /\ row \in [Orders -> Statuses \cup {"none"}]
      /\ mem \in [Orders -> Statuses \cup {"none"}] /\ slots \in [Keys -> Nat] /\ QueueVarsOK
      /\ worker \in [Relayers -> [job : Orders \cup {NoOrder}, orders : SUBSET Orders,
                                  attempt : 0..MAX_SETTLEMENT_ATTEMPTS]]
  BY Parts DEF SlotsInv, QueueInv, QueueVarsOK
<1>1. /\ up[r] = "scanned" /\ up' = [up EXCEPT ![r] = "up"]
      /\ mem' = [o \in Orders |-> IF o \in RestoredFrom(row, r) THEN row[o] ELSE mem[o]]
      /\ slots' = [k \in Keys |-> IF k \in KeysAt(r)
                                  THEN Cardinality({o \in RestoredFrom(row, r) : KeyOf[o] = k})
                                  ELSE slots[k]]
      /\ row' = resetOrphanedSettling(row, r)
      /\ UNCHANGED <<posts, worker, held>>
  BY DEF BootRestore
<1>2. OrdersMove /\ QueueInv'
  BY <1>0, BootRestoreMoves, QueueInvMoves DEF QueueMoves
<1>3. up'[r] = "up" /\ \A q \in Relayers \ {r} : up'[q] = up[q]
  BY <1>0, <1>1 DEF QueueVarsOK
<1>4. NoEntries'
  BY <1>0, <1>1, <1>3, QueueAssumption DEF SlotsInv, NoEntries, RestoredFrom, Own
<1>5. PostsRun'
  BY <1>1, <1>3, QueueAssumption DEF SlotsInv, PostsRun
<1>6. ASSUME NEW o \in Orders
      PROVE  (TakesSlot(o)' => TakesSlot(o)) /\ (TakesSecond(o)' => TakesSecond(o))
  <2>1. Moves(o) /\ ~Accepted(o)
    BY <1>0, <1>1, <1>2 DEF OrdersMove, Accepted, resetOrphanedSettling
  <2> QED BY <1>0, <2>1, TakesNoMore
<1>7. ASSUME NothingExpired', NEW k \in Keys PROVE KeyOK(k)'
  <2>1. KeyOK(k)
    <3>1. Grows /\ SubmitterTypeOK'
      BY <1>2 DEF OrdersMove, QueueBase, SubmitterOK
    <3> QED BY <1>0, <1>7, <3>1, NothingExpiredBefore DEF SlotsInv
  <2>2. /\ Takers(k)' \subseteq Takers(k) /\ Returned(k)' \subseteq Returned(k)
        /\ Requests(k)' = Requests(k)
    BY <1>1, <1>6 DEF Takers, Returned, Requests
  <2>3. CASE k \notin KeysAt(r)
    <3>1. slots'[k] = slots[k]
      BY <1>1, <2>3
    <3>2. Running(k)' <=> Running(k)
      BY <1>3, <2>3, QueueAssumption DEF Running, KeysAt, Own
    <3>3. Taken(k)' <= Taken(k)
      BY <2>2, TakersFinite, FS_Subset DEF Taken
    <3>4. Taken(k) \in Nat /\ slots[k] \in Nat /\ MAX_ORDERS_PER_PUBKEY \in Nat
      BY <1>0, TakersFinite, QueueAssumption DEF Taken
    <3>5. Taken(k)' \in Nat
      BY TakersFinite DEF Taken
    <3> QED BY <2>1, <3>1, <3>2, <3>3, <3>4, <3>5 DEF KeyOK, Limit
  <2>4. CASE k \in KeysAt(r)
    <3>1. \A o \in Orders : KeyOf[o] = k => Owner[o] = r
      BY <2>4, QueueAssumption DEF KeysAt, Own
    <3>2. Requests(k) = {}
      BY <1>1, <3>1 DEF SlotsInv, PostsRun, Requests
    <3>3. ASSUME NEW o \in Orders, KeyOf[o] = k
          PROVE  /\ TakesSlot(o) <=> o \in RestoredFrom(row, r)
                 /\ ~TakesSecond(o)
      <4>1. Owner[o] = r /\ mem[o] = "none" /\ ~OnTheJob(o)
        BY <1>0, <1>1, <3>1, <3>3, OrderParts DEF SlotsInv, NoEntries
      <4> QED BY <4>1, <3>3 DEF TakesSlot, TakesSecond, RestoredFrom, Own, OPEN_STATUSES, LIVE_STATUSES,
                                IN_FLIGHT_STATUSES
    <3>4. Takers(k) = {o \in RestoredFrom(row, r) : KeyOf[o] = k} /\ Returned(k) = {}
      BY <3>3 DEF Takers, Returned, RestoredFrom, Own
    <3>5. slots'[k] = Cardinality(Takers(k))
      BY <1>1, <2>4, <3>4
    <3>6. Returned(k)' = {} /\ Requests(k)' = {}
      BY <2>2, <3>2, <3>4
    <3>7. /\ Taken(k)' = Cardinality(Takers(k)') /\ Taken(k) = Cardinality(Takers(k))
          /\ Cardinality(Takers(k)') <= Cardinality(Takers(k))
      <4>1. Cardinality({}) = 0
        BY FS_EmptySet
      <4>2. Cardinality(Takers(k)') <= Cardinality(Takers(k))
        BY <2>2, TakersFinite, FS_Subset
      <4>3. Taken(k) = Cardinality(Takers(k))
        BY <3>2, <3>4, <4>1, TakersFinite DEF Taken
      <4>4. Taken(k)' = Cardinality(Takers(k)')
        BY <3>6, <4>1, TakersFinite DEF Taken
      <4> QED BY <4>2, <4>3, <4>4
    <3>8. Running(k)' /\ ~Running(k)
      BY <1>1, <1>3, <2>4, <3>1 DEF Running, KeysAt, Own
    <3> QED BY <2>1, <3>5, <3>7, <3>8 DEF KeyOK, Limit
  <2> QED BY <2>3, <2>4
<1> QED BY <1>2, <1>4, <1>5, <1>7 DEF SlotsInv

(* A worker that awaits a submission has a job, after every step.          *)
LEMMA BusyKeeps ==
    ASSUME QueueBase, BusyHasJob, [QueueNext]_queueAll
    PROVE  BusyHasJob'
<1>0. /\ SubmitterOK /\ sub \in [Tasks -> Submissions] /\ \A r \in Relayers : WorkerOf[r] \in Tasks
      /\ worker \in [Relayers -> [job : Orders \cup {NoOrder}, orders : SUBSET Orders,
                                  attempt : 0..MAX_SETTLEMENT_ATTEMPTS]]
  BY Parts DEF SubmitterTypeOK, QueueVarsOK
<1>1. CASE UNCHANGED <<sub, worker>>
  BY <1>1 DEF BusyHasJob
<1>2. ASSUME NEW r \in Relayers, NEW j \in Orders, NEW S, worker' = [worker EXCEPT ![r] =
                 [job |-> j, orders |-> S, attempt |-> attempt[j]]], Submit(WorkerOf[r], S)
      PROVE  BusyHasJob'
  BY <1>0, <1>2, OwnTask DEF BusyHasJob, Submit
<1>3. ASSUME NEW r \in Relayers, JobDone(r)
      PROVE  BusyHasJob'
  <2>1. sub'[WorkerOf[r]] = Idle
    BY <1>0, <1>3 DEF JobDone, Collected
  <2>2. \A q \in Relayers \ {r} : sub'[WorkerOf[q]] = sub[WorkerOf[q]] /\ worker'[q] = worker[q]
    BY <1>0, <1>3, OwnTask DEF JobDone, Collected
  <2> QED BY <2>1, <2>2 DEF BusyHasJob, Idle
<1>4. ASSUME NEW r \in Relayers, Submission(r)
      PROVE  BusyHasJob'
  <2>1. UNCHANGED worker /\ TaskStep(WorkerOf[r])
    BY <1>4 DEF Submission, queueVars
  <2>2. sub[WorkerOf[r]].at # "idle"
    BY <2>1 DEF TaskStep, estimateAndGuard, send, receipt, noReceipt
  <2>3. \A u \in Tasks \ {WorkerOf[r]} : sub'[u] = sub[u]
    BY <1>0, <2>1, OnlyOneTask
  <2> QED BY <1>0, <2>1, <2>2, <2>3, OwnTask DEF BusyHasJob
<1>5. ASSUME NEW r \in Relayers, Crash(r)
      PROVE  BusyHasJob'
  <2>1. sub' = [t \in Tasks |-> IF RelayerOf[t] = r THEN Idle ELSE sub[t]]
    BY <1>5 DEF Crash
  <2>2. \A q \in Relayers \ {r} : worker'[q] = worker[q]
    BY <1>0, <1>5 DEF Crash
  <2>3. \A q \in Relayers : RelayerOf[WorkerOf[q]] = q
    BY QueueAssumption
  <2> QED BY <1>0, <2>1, <2>2, <2>3 DEF BusyHasJob, Idle
<1>6. CASE Client
  BY <1>1, <1>6 DEF Client, PostStart, PostReserve, PostAccept, submitterVars
<1>7. CASE Environment
  <2>1. UNCHANGED <<sub, worker>>
    BY <1>7 DEF Environment, ChainStep, Mine, cancelPrivate, Tick, submitterVars, queueVars
  <2> QED BY <1>1, <2>1
<1>8. ASSUME NEW r \in Relayers, handleJob(r) PROVE BusyHasJob'
  <2>1. CASE settleSameToken(r)
    <3>1. PICK o \in Claimable(r) : StartJob(r, o, {o})
      BY <2>1 DEF settleSameToken
    <3> QED BY <1>2, <3>1 DEF StartJob, Claimable, Own
  <2>2. CASE settleCrossToken(r)
    <3>1. PICK o \in Claimable(r) : \E c \in findMatch(o) : StartJob(r, o, {o, c})
      BY <2>2 DEF settleCrossToken
    <3> QED BY <1>2, <3>1 DEF StartJob, Claimable, Own
  <2>3. CASE deferAccepted(r)
    BY <1>1, <2>3 DEF deferAccepted, submitterVars, memVars
  <2>4. CASE JobSettled(r) \/ JobFailed(r) \/ JobRetried(r)
    BY <1>3, <2>4 DEF JobSettled, JobFailed, JobRetried
  <2> QED BY <1>8, <2>1, <2>2, <2>3, <2>4 DEF handleJob
<1>9. ASSUME NEW r \in Relayers, Housekeeping(r) \/ Boot(r) PROVE BusyHasJob'
  <2>1. UNCHANGED <<sub, worker>>
    BY <1>9 DEF Housekeeping, sweepExpired, purgeNonPending, drainAuthorizeOrders, indexCancels, Boot,
                BootScan, BootRestore, submitterVars, memVars
  <2> QED BY <1>1, <2>1
<1>10. CASE UNCHANGED queueAll
  BY <1>1, <1>10 DEF queueAll, submitterVars, queueVars
<1> QED BY <1>4, <1>5, <1>6, <1>7, <1>8, <1>9, <1>10 DEF QueueNext, QueueStep

(* Every step keeps the count.                                             *)
LEMMA SlotsStep == SlotsInv /\ BusyHasJob /\ [QueueNext]_queueAll => (SlotsInv /\ BusyHasJob)'
<1> SUFFICES ASSUME SlotsInv, BusyHasJob, [QueueNext]_queueAll PROVE SlotsInv' /\ BusyHasJob'
  OBVIOUS
<1>1. BusyHasJob'
  BY BusyKeeps DEF SlotsInv, QueueInv
<1>2. ASSUME Client PROVE SlotsInv'
  BY <1>2, PostStartKeeps, PostReserveKeeps, PostAcceptKeeps DEF Client
<1>3. ASSUME NEW r \in Relayers, handleJob(r) PROVE SlotsInv'
  BY <1>3, StartKeeps, JobSettledKeeps, JobJudgedKeeps DEF handleJob
<1>4. ASSUME NEW r \in Relayers, Boot(r) PROVE SlotsInv'
  BY <1>4, BootScanKeeps, BootRestoreKeeps DEF Boot
<1> QED BY <1>1, <1>2, <1>3, <1>4, HousekeepingKeeps, CrashKeeps, OutsideKeeps DEF QueueNext, QueueStep

(* The count at the start.                                                 *)
LEMMA SlotsStart == QueueInit => SlotsInv /\ BusyHasJob
<1> SUFFICES ASSUME QueueInit PROVE SlotsInv /\ BusyHasJob
  OBVIOUS
<1>1. QueueInv /\ \A o \in Orders : Owner[o] \in Relayers
  BY QueueInvInit, QueueAssumption
<1>2. NoEntries /\ PostsRun
  BY <1>1 DEF QueueInit, NoEntries, PostsRun, NoPost
<1>3. BusyHasJob
  BY QueueAssumption DEF QueueInit, SubmitterInit, BusyHasJob, Idle
<1>4. ASSUME NEW k \in Keys PROVE KeyOK(k)
  <2>1. /\ Takers(k) = {} /\ Returned(k) = {} /\ Requests(k) = {}
    BY <1>1 DEF QueueInit, Takers, Returned, Requests, TakesSlot, TakesSecond, OnTheJob, NoJob, NoPost,
                OPEN_STATUSES, LIVE_STATUSES, IN_FLIGHT_STATUSES
  <2>2. Taken(k) = 0
    BY <2>1, FS_EmptySet DEF Taken
  <2>3. slots[k] = 0 /\ MAX_ORDERS_PER_PUBKEY \in Nat
    BY QueueAssumption DEF QueueInit
  <2> QED BY <2>2, <2>3 DEF KeyOK, Limit
<1> QED BY <1>1, <1>2, <1>3, <1>4 DEF SlotsInv

(* Until an order expires a key never has more than MAX_ORDERS_PER_PUBKEY  *)
(* orders live or in flight, however requests race between their awaits,   *)
(* jobs end, orders come back, and relayers crash and boot.                *)
THEOREM LimitHoldsUntilExpiry == QueueSpec => [](NothingExpired => PerKeyLimit)
<1>1. SlotsInv => (NothingExpired => PerKeyLimit)
  <2> SUFFICES ASSUME SlotsInv, NothingExpired, NEW k \in Keys
               PROVE  Cardinality(Outstanding(k)) <= MAX_ORDERS_PER_PUBKEY
    BY DEF PerKeyLimit
  <2>1. KeyOK(k) /\ slots[k] \in Nat /\ MAX_ORDERS_PER_PUBKEY \in Nat
    BY Parts, QueueAssumption DEF SlotsInv, QueueInv
  <2>2. Outstanding(k) \subseteq Takers(k)
    BY DEF Outstanding, Takers, TakesSlot, OPEN_STATUSES
  <2>3. /\ Cardinality(Outstanding(k)) \in Nat
        /\ Cardinality(Outstanding(k)) <= Cardinality(Takers(k))
    BY <2>2, TakersFinite, FS_Subset, FS_CardinalityType
  <2>4. Taken(k) >= Cardinality(Takers(k)) /\ Taken(k) \in Nat
    BY TakersFinite DEF Taken
  <2>5. Limit(k) <= MAX_ORDERS_PER_PUBKEY /\ Limit(k) \in Nat
    BY <2>1 DEF KeyOK, Limit
  <2> QED BY <2>1, <2>3, <2>4, <2>5, TakersFinite DEF KeyOK
<1> QED BY <1>1, SlotsStart, SlotsStep, PTL DEF QueueSpec
=============================================================================
