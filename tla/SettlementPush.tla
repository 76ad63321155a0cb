--------------------------- MODULE SettlementPush ---------------------------
(***************************************************************************)
(* How a confirmed settlement reaches the shared orderbook's index and     *)
(* becomes a verified row there.  Three processes share two databases:     *)
(*                                                                         *)
(*  - the relayer: on a receipt it writes an outbox row and pushes it at   *)
(*    once (index.ts, the settlement pusher), and SettlementPushWorker     *)
(*    replays what was not acknowledged (settlement-push-worker.ts);       *)
(*  - the orderbook's API server, which inserts or replaces rows           *)
(*    (routes/settlements.ts, OrderbookDB.insertSettlement);               *)
(*  - the verifier, a process of its own that compares rows with the       *)
(*    chain's events (core/verifier.ts, core/verify-runtime.ts).  Its      *)
(*    pass awaits the event query, and writes the result in three          *)
(*    transactions.                                                        *)
(*                                                                         *)
(* Requests may be lost, answered too late, or handled after the caller    *)
(* gave up; the chain may drop its last blocks.  A row stands for the      *)
(* columns the protocol looks at; amounts, fees and times are left out.    *)
(***************************************************************************)
EXTENDS Integers, FiniteSets, SequencesExt

CONSTANTS
    Txs,                \* settlement transactions, numbers: the order of their hashes
    Settlers,           \* those our relayer sends; the others are never mined
    Self,               \* the address of our relayer
    None,               \* no relayer: SQL NULL
    EventOf,            \* tx -> [maker, taker]: what its event says
    Reports,            \* rows other submitters may post: [tx, submitter, maker, taker, block]
    MAX_PUSH_ATTEMPTS,  \* the outbox gives a row up after so many
    MaxVerifyAttempts,  \* the verifier quarantines a row after so many
    BlockSafetyMargin,  \* confirmations before a row is looked at
    MaxBlockRange, LimitPerPass, FutureBlockBuffer,
    MaxSettlements,     \* cap on the rows of the table
    MaxHead,            \* bound: height of the chain
    MaxFaults,          \* bound: requests, queries and passes that fail
    MaxLosses,          \* bound: receipts the relayer never acts on
    MaxReports,         \* bound: reports of other submitters
    MaxReorgs           \* bound: reorganisations

ASSUME SettlementPushAssumption ==
    /\ Txs \subseteq Nat /\ Settlers \subseteq Txs
    /\ {MAX_PUSH_ATTEMPTS, MaxVerifyAttempts, LimitPerPass, MaxSettlements, MaxHead} \subseteq Nat \ {0}
    /\ {BlockSafetyMargin, MaxBlockRange, FutureBlockBuffer, MaxFaults, MaxLosses,
        MaxReports, MaxReorgs} \subseteq Nat
    /\ \A t \in Txs : /\ EventOf[t] = [maker |-> EventOf[t].maker, taker |-> EventOf[t].taker]
                     /\ EventOf[t].maker # None
    /\ \A p \in Reports : p.tx \in Txs /\ p.block \in 0 .. (MaxHead + FutureBlockBuffer + 1)

VARIABLES
    head,       \* height of the canonical chain
    mined,      \* tx -> the block with its event, 0 if none
    awaited,    \* transactions whose receipt the relayer awaits
    outbox,     \* tx -> row of settlement_push_outbox
    batch,      \* rows SettlementPushWorker.tick has read and not pushed yet
    requests,   \* POST /api/settlements: on the wire, or awaiting the answer
    rows,       \* tx -> row of the orderbook's settlements table
    order,      \* the keys of that table by created_at
    verifier,   \* the verify loop between its awaits
    budget      \* what is left of the bounds on faults, losses, reports, reorgs

relayerVars == <<awaited, outbox, batch, requests>>
tableVars == <<rows, order>>
pushAll == <<head, mined, relayerVars, tableVars, verifier, budget>>

Addresses == {Self, None} \cup (UNION {{r.submitter, r.maker, r.taker} : r \in Reports})
                \cup (UNION {{EventOf[t].maker, EventOf[t].taker} : t \in Txs})
Blocks == 0 .. (MaxHead + FutureBlockBuffer + 1)
Attributions == [maker : Addresses, taker : Addresses]
Unattested == [maker |-> None, taker |-> None]
NoRow == [stored |-> FALSE]
Rows == [stored : {TRUE}, submitter : Addresses, maker : Addresses, taker : Addresses, block : Blocks,
         verified : BOOLEAN, attempts : 0 .. MaxVerifyAttempts, event : Attributions]
NoPush == [state |-> "none", attempts |-> 0, block |-> 0]
VerifierIdle == [pc |-> "idle", latest |-> 0, scanned |-> {}, matched |-> {}, unmatched |-> {},
                 mismatched |-> {}]

Spent(kind) == [budget EXCEPT ![kind] = @ - 1]

PushInit ==
    /\ head = 1
    /\ mined = [t \in Txs |-> 0]
    /\ awaited = Settlers
    /\ outbox = [t \in Txs |-> NoPush]
    /\ batch = {}
    /\ requests = {}
    /\ rows = [t \in Txs |-> NoRow]
    /\ order = <<>>
    /\ verifier = VerifierIdle
    /\ budget = [faults |-> MaxFaults, losses |-> MaxLosses, reports |-> MaxReports,
                 reorgs |-> MaxReorgs]

-----------------------------------------------------------------------------
(* The chain. *)

\* A settlement is mined early enough for its confirmations to fit the bound.
NewBlock ==
    /\ head < MaxHead
    /\ \E included \in SUBSET {t \in Settlers : mined[t] = 0 /\ head + 1 + BlockSafetyMargin <= MaxHead} :
           mined' = [t \in Txs |-> IF t \in included THEN head + 1 ELSE mined[t]]
    /\ head' = head + 1
    /\ UNCHANGED <<relayerVars, tableVars, verifier, budget>>

\* The last blocks, at most the confirmations that are waited for, are
\* replaced by blocks without their transactions, which are pending again.
Reorg ==
    /\ budget.reorgs > 0
    /\ \E depth \in 1 .. BlockSafetyMargin :
           mined' = [t \in Txs |-> IF mined[t] > head - depth THEN 0 ELSE mined[t]]
    /\ mined' # mined
    /\ budget' = Spent("reorgs")
    /\ UNCHANGED <<head, relayerVars, tableVars, verifier>>

-----------------------------------------------------------------------------
(* The relayer's outbox. *)

Request(t, via) == [tx |-> t, block |-> outbox[t].block, via |-> via, awaited |-> TRUE, stored |-> FALSE]

\* The receipt is there: enqueueSettlementPush, INSERT OR IGNORE, and the
\* immediate push.
Receipt(t) ==
    /\ t \in awaited /\ mined[t] > 0
    /\ awaited' = awaited \ {t}
    /\ outbox' = IF outbox[t].state = "none"
                 THEN [outbox EXCEPT ![t] = [state |-> "pending", attempts |-> 0, block |-> mined[t]]]
                 ELSE outbox
    /\ requests' = requests \cup {[tx |-> t, block |-> mined[t], via |-> "live", awaited |-> TRUE,
                                   stored |-> FALSE]}
    /\ UNCHANGED <<head, mined, batch, tableVars, verifier, budget>>

\* The process dies, or the wait for the receipt times out: the submission
\* is forgotten and nothing is enqueued for it.
ReceiptLost(t) ==
    /\ budget.losses > 0
    /\ t \in awaited
    /\ awaited' = awaited \ {t}
    /\ budget' = Spent("losses")
    /\ UNCHANGED <<head, mined, outbox, batch, requests, tableVars, verifier>>

\* Rows selectPendingPushes returns; the back-off only delays them.
PendingPushes == {t \in Txs : outbox[t].state = "pending" /\ outbox[t].attempts < MAX_PUSH_ATTEMPTS}

WorkerPushing == \E r \in requests : r.via = "worker" /\ r.awaited

\* tick reads its rows when the previous tick has ended.
tick ==
    /\ batch = {} /\ ~WorkerPushing
    /\ PendingPushes # {}
    /\ batch' = PendingPushes
    /\ UNCHANGED <<head, mined, awaited, outbox, requests, tableVars, verifier, budget>>

\* The next row is pushed as it was read, even if the immediate push has been
\* acknowledged meanwhile.
WorkerPush(t) ==
    /\ t \in batch /\ ~WorkerPushing
    /\ batch' = batch \ {t}
    /\ requests' = requests \cup {Request(t, "worker")}
    /\ UNCHANGED <<head, mined, awaited, outbox, tableVars, verifier, budget>>

\* An acknowledged row is dropped from the outbox a week later.
prunePushed(t) ==
    /\ batch = {} /\ ~WorkerPushing
    /\ outbox[t].state = "pushed"
    /\ outbox' = [outbox EXCEPT ![t] = NoPush]
    /\ UNCHANGED <<head, mined, awaited, batch, requests, tableVars, verifier, budget>>

Attempts(t) == IF outbox[t].attempts < MAX_PUSH_ATTEMPTS THEN outbox[t].attempts + 1
                                                          ELSE MAX_PUSH_ATTEMPTS

\* UPDATE ... WHERE tx_hash: a pruned row is not touched, and a failure does
\* not take back an acknowledgement.
MarkedPushed(t) ==
    IF outbox[t].state = "none" THEN outbox
    ELSE [outbox EXCEPT ![t] = [@ EXCEPT !.state = "pushed", !.attempts = Attempts(t)]]

MarkedFailed(t) ==
    IF outbox[t].state = "none" THEN outbox
    ELSE [outbox EXCEPT ![t] = [@ EXCEPT !.attempts = Attempts(t)]]

\* The answer of the orderbook arrives: 200 and 201 alike.
Acknowledged(r) ==
    /\ r \in requests /\ r.awaited /\ r.stored
    /\ outbox' = MarkedPushed(r.tx)
    /\ requests' = requests \ {r}
    /\ UNCHANGED <<head, mined, awaited, batch, tableVars, verifier, budget>>

\* The call fails: offline, refused by the limiter or the membership gate,
\* an error, or no answer in 5 s.  The request may still arrive.
PushFailed(r) ==
    /\ budget.faults > 0
    /\ r \in requests /\ r.awaited
    /\ outbox' = MarkedFailed(r.tx)
    /\ \E late \in {{}, {[r EXCEPT !.awaited = FALSE]}} :
           requests' = (requests \ {r}) \cup {l \in late : ~l.stored}
    /\ budget' = Spent("faults")
    /\ UNCHANGED <<head, mined, awaited, batch, tableVars, verifier>>

-----------------------------------------------------------------------------
(* The orderbook's API server: insertSettlement, one transaction. *)

SameAttribution(row, p) ==
    row.submitter = p.submitter /\ row.maker = p.maker /\ row.taker = p.taker

\* Clause (c) of the eviction: once a pass has recorded what the event says,
\* only a report that agrees may replace the row.
Agrees(p, event) ==
    event.maker = None \/ (p.maker = event.maker /\ p.taker \in {None, event.taker})

\* stmtEvictSquattedSettlement
Evicts(row, p) ==
    row.stored /\ ~row.verified /\ ~SameAttribution(row, p) /\ Agrees(p, row.event)

\* The attestation of the evicted row is stamped on its replacement.
Inherited(row) == IF row.stored THEN row.event ELSE Unattested

\* A row that is replaced gets a new created_at.
PlacesOf(t) == {i \in DOMAIN order : order[i] = t}
Refilled(t) == Append(IF PlacesOf(t) = {} THEN order ELSE RemoveAt(order, CHOOSE i \in PlacesOf(t) : TRUE), t)

insertSettlement(p) ==
    IF rows[p.tx].stored /\ ~Evicts(rows[p.tx], p) THEN UNCHANGED tableVars
    ELSE /\ rows' = [rows EXCEPT ![p.tx] =
                         [stored |-> TRUE, submitter |-> p.submitter, maker |-> p.maker,
                          taker |-> p.taker, block |-> p.block, verified |-> FALSE, attempts |-> 0,
                          event |-> Inherited(@)]]
         /\ order' = Refilled(p.tx)

\* What our relayer reports: itself as maker relayer, and the counterparty's
\* relayer, or none for a single-party settlement.
OwnReport(r) == [tx |-> r.tx, submitter |-> Self, maker |-> Self, taker |-> EventOf[r.tx].taker,
                 block |-> r.block]

HandleRequest(r) ==
    /\ r \in requests /\ ~r.stored
    /\ insertSettlement(OwnReport(r))
    /\ requests' = (requests \ {r}) \cup
                       (IF r.awaited THEN {[r EXCEPT !.stored = TRUE]} ELSE {})
    /\ UNCHANGED <<head, mined, awaited, outbox, batch, verifier, budget>>

\* Another submitter reports a settlement it names itself a side of.
OtherReport(p) ==
    /\ budget.reports > 0
    /\ p.submitter \in {p.maker, p.taker}
    /\ insertSettlement(p)
    /\ budget' = Spent("reports")
    /\ UNCHANGED <<head, mined, relayerVars, verifier>>

pruneSettlements ==
    /\ Len(order) > MaxSettlements
    /\ rows' = [rows EXCEPT ![Head(order)] = NoRow]
    /\ order' = Tail(order)
    /\ UNCHANGED <<head, mined, relayerVars, verifier, budget>>

-----------------------------------------------------------------------------
(* The verifier. *)

Active(t) == rows[t].stored /\ ~rows[t].verified /\ rows[t].attempts < MaxVerifyAttempts

\* runVerifyLoop: the head is read first, the pass starts when it is known.
ReadHead ==
    /\ verifier.pc = "idle"
    /\ verifier' = [verifier EXCEPT !.pc = "head", !.latest = head]
    /\ UNCHANGED <<head, mined, relayerVars, tableVars, budget>>

\* One confirmation less than the margin.
MaxBlockEarly == IF verifier.latest + 1 > BlockSafetyMargin
                 THEN verifier.latest + 1 - BlockSafetyMargin ELSE 0

MaxBlock == IF verifier.latest > BlockSafetyMargin THEN verifier.latest - BlockSafetyMargin ELSE 0

Future(t) == Active(t) /\ rows[t].block > verifier.latest + FutureBlockBuffer

Before(t, u) == rows[t].block < rows[u].block \/ (rows[t].block = rows[u].block /\ t < u)

\* listUnverifiedSettlements: the oldest rows first.
Unverified ==
    LET due == {t \in Txs : Active(t) /\ ~Future(t) /\ rows[t].block <= MaxBlock}
    IN {t \in due : Cardinality({u \in due : Before(u, t)}) < LimitPerPass}

\* The window of one pass starts at the oldest row.
Window ==
    {t \in Unverified : \A u \in Unverified : rows[t].block <= rows[u].block + MaxBlockRange}

\* runVerifyPass up to the event query.  quarantineFutureSettlements is a
\* transaction of its own; rows it excludes are excluded from the list too.
StartPass ==
    /\ verifier.pc = "head"
    /\ rows' = [t \in Txs |-> IF Future(t) THEN [rows[t] EXCEPT !.attempts = MaxVerifyAttempts]
                                           ELSE rows[t]]
    /\ verifier' = IF Window = {} THEN VerifierIdle
                   ELSE [verifier EXCEPT !.pc = "fetch",
                             !.scanned = {[tx |-> t, maker |-> rows[t].maker, taker |-> rows[t].taker,
                                           block |-> rows[t].block] : t \in Window}]
    /\ UNCHANGED <<head, mined, order, relayerVars, budget>>

\* Events of the window the query returns.
Fetched == {t \in Txs : /\ mined[t] > 0
                        /\ \E r \in verifier.scanned : r.block <= mined[t]
                        /\ \E r \in verifier.scanned : mined[t] <= r.block}

RelayersAgree(r, event) == r.maker = event.maker /\ r.taker \in {None, event.taker}

\* matchSettlements on the rows as they were read.
matchSettlements ==
    /\ verifier.pc = "fetch"
    /\ LET found == {r \in verifier.scanned : r.tx \in Fetched}
           good == {r \in found : RelayersAgree(r, EventOf[r.tx])}
       IN verifier' = [verifier EXCEPT !.pc = "mark",
                           !.matched = {r.tx : r \in good},
                           !.unmatched = {r.tx : r \in verifier.scanned \ good},
                           !.mismatched = {r.tx : r \in found \ good}]
    /\ UNCHANGED <<head, mined, relayerVars, tableVars, budget>>

\* The query fails, or the verifier is restarted: the pass is dropped, with
\* the writes it has not made.
PassFailed ==
    /\ budget.faults > 0
    /\ verifier.pc # "idle"
    /\ verifier' = VerifierIdle
    /\ budget' = Spent("faults")
    /\ UNCHANGED <<head, mined, relayerVars, tableVars>>

Unlocked(txs) == {t \in txs : rows[t].stored /\ ~rows[t].verified}

markSettlementsVerified ==
    /\ verifier.pc = "mark"
    /\ rows' = [t \in Txs |-> IF t \in Unlocked(verifier.matched)
                              THEN [rows[t] EXCEPT !.verified = TRUE] ELSE rows[t]]
    /\ verifier' = [verifier EXCEPT !.pc = "fail"]
    /\ UNCHANGED <<head, mined, relayerVars, order, budget>>

\* Forgetting rows that have no event at all.
FailedMismatched == Unlocked(verifier.mismatched)

\* The rows whose counter of failed passes is advanced.
Failed == Unlocked(verifier.unmatched)

recordVerifyFailures ==
    /\ verifier.pc = "fail"
    /\ rows' = [t \in Txs |->
                   IF t \in Failed /\ rows[t].attempts < MaxVerifyAttempts
                   THEN [rows[t] EXCEPT !.attempts = @ + 1] ELSE rows[t]]
    /\ verifier' = [verifier EXCEPT !.pc = "attest"]
    /\ UNCHANGED <<head, mined, relayerVars, order, budget>>

recordEventAttribution ==
    /\ verifier.pc = "attest"
    /\ rows' = [t \in Txs |-> IF t \in Unlocked(verifier.mismatched)
                              THEN [rows[t] EXCEPT !.event = EventOf[t]] ELSE rows[t]]
    /\ verifier' = VerifierIdle
    /\ UNCHANGED <<head, mined, relayerVars, order, budget>>

-----------------------------------------------------------------------------

Relayer ==
    \/ \E t \in Txs : Receipt(t) \/ ReceiptLost(t) \/ WorkerPush(t) \/ prunePushed(t)
    \/ tick
    \/ \E r \in requests : Acknowledged(r) \/ PushFailed(r)

Server ==
    \/ \E r \in requests : HandleRequest(r)
    \/ \E p \in Reports : OtherReport(p)
    \/ pruneSettlements

Verifier == ReadHead \/ StartPass \/ matchSettlements \/ PassFailed
                \/ markSettlementsVerified \/ recordVerifyFailures \/ recordEventAttribution

PushNext == NewBlock \/ Reorg \/ Relayer \/ Server \/ Verifier

\* Blocks are produced and settlements included; timers fire, requests that
\* are not lost are handled and answered, queries that do not fail return.
PushFairness ==
    /\ WF_pushAll(NewBlock)
    /\ \A t \in Txs : WF_pushAll(Receipt(t)) /\ WF_pushAll(WorkerPush(t))
    /\ WF_pushAll(tick)
    /\ WF_pushAll(\E r \in requests : Acknowledged(r))
    /\ WF_pushAll(\E r \in requests : HandleRequest(r))
    /\ WF_pushAll(ReadHead) /\ WF_pushAll(StartPass) /\ WF_pushAll(matchSettlements)
    /\ WF_pushAll(markSettlementsVerified) /\ WF_pushAll(recordVerifyFailures)
    /\ WF_pushAll(recordEventAttribution)

PushSpec == PushInit /\ [][PushNext]_pushAll /\ PushFairness

-----------------------------------------------------------------------------

(* Types of the outbox, the requests, the index and the verifier; the      *)
(* index holds one row per stored transaction, oldest first.               *)
PushTypeOK ==
    /\ head \in 1 .. MaxHead
    /\ mined \in [Txs -> 0 .. MaxHead]
    /\ awaited \subseteq Settlers
    /\ outbox \in [Txs -> [state : {"none", "pending", "pushed"}, attempts : 0 .. MAX_PUSH_ATTEMPTS,
                           block : 0 .. MaxHead]]
    /\ batch \subseteq Txs
    /\ requests \subseteq [tx : Txs, block : 0 .. MaxHead, via : {"live", "worker"},
                           awaited : BOOLEAN, stored : BOOLEAN]
    /\ rows \in [Txs -> Rows \cup {NoRow}]
    /\ Range(order) = {t \in Txs : rows[t].stored} /\ IsInjective(order)
    /\ verifier.pc \in {"idle", "head", "fetch", "mark", "fail", "attest"}

\* A verified row is a settlement of the canonical chain, and stays one: the
\* confirmations the verifier waits for outlast a reorganisation, whenever
\* it happens between the awaits of a pass.
VerifiedIsOnChain == \A t \in Txs : rows[t].stored /\ rows[t].verified => mined[t] > 0

\* Once a pass has recorded what the event says of a settlement, its row
\* keeps that record and is only replaced by a report that agrees with it,
\* until it is verified or the cap of the table removes it.
AttestationSticks ==
    [][\A t \in Txs :
          rows[t].stored /\ rows[t].event # Unattested /\ rows'[t].stored =>
              /\ rows'[t].event = rows[t].event
              /\ \/ SameAttribution(rows'[t], rows[t])
                 \/ RelayersAgree(rows'[t], rows[t].event)]_pushAll

\* What the outbox holds for delivered has a row in the index, unless the
\* table is full and gave the place to another.
PushedMeansStored ==
    \A t \in Txs : outbox[t].state = "pushed" => rows[t].stored \/ Len(order) >= MaxSettlements

\* What the two sides say of each other is so: a row marked verified is on the
\* chain, and what the outbox counts as pushed the orderbook has stored.
IndexIsSound == PushTypeOK /\ VerifiedIsOnChain /\ PushedMeansStored

\* Every settlement of the relayer is in the index, verified, in the end.
EverySettlementVerified ==
    \A t \in Settlers : mined[t] > 0 ~> (rows[t].stored /\ rows[t].verified)

\* Every settlement of the relayer gets a row in the index in the end.
EverySettlementIndexed == \A t \in Settlers : mined[t] > 0 ~> rows[t].stored

\* The relayers of a verified row are those the event names.
VerifiedIsGenuine ==
    \A t \in Txs : rows[t].stored /\ rows[t].verified => RelayersAgree(rows[t], EventOf[t])

=============================================================================
