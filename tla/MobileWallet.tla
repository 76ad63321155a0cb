---------------------------- MODULE MobileWallet ----------------------------
(***************************************************************************)
(* The mobile client's life of one escrow: deposit, limit order, market    *)
(* order, cancellation, the poll of the order's status and the note        *)
(* synchronisation (DepositService, OrderService, MarketOrderService,      *)
(* CancelService, PendingOrdersService, NoteStorageService and History     *)
(* Screen).  Note 0 is the deposit.  Every later attempt has a number of   *)
(* its own: it draws fresh secrets, so it has its own claims and its own   *)
(* derived note (the change of an order, the rotated escrow of a           *)
(* cancellation).  The chain and the relayer know an attempt by the        *)
(* escrow's nullifier, which is the same for all of them.  Each write to   *)
(* storage is a step, and the app may be closed before any of them.        *)
(***************************************************************************)
EXTENDS Integers, FiniteSets, SequencesExt

CONSTANTS
    MaxAttempts,    \* bound: orders and cancellations that are tried
    Kinds,          \* what the user does after the deposit
    EventMissing,   \* flows whose receipt may lack the CommitmentInserted event
    MaxFaults       \* bound: answers lost, tracking writes that fail, settlements
                    \* the relayer gave up that may still be mined, closings of the app

ASSUME WalletAssumption ==
    /\ MaxAttempts \in Nat \ {0}
    /\ Kinds \subseteq {"order", "market", "cancel"}
    /\ EventMissing \subseteq {"deposit", "cancel"}
    /\ MaxFaults \in Nat

VARIABLES
    onChain,    \* numbers of the notes whose commitment is in the tree
    spentBy,    \* the attempt that spent note 0 on the chain, 0 while none did
    mempool,    \* transactions sent and not mined
    net,        \* orders posted and not yet handled by the relayer
    relayer,    \* the relayer's row for the nullifier
    kind,       \* what each attempt is
    attempt,    \* the last attempt
    notes,      \* the stored notes
    claims,     \* attempts whose claim secrets are stored
    trades,     \* attempts with a trade record
    row,        \* the row of pending_orders for the nullifier
    flow,       \* the user's operation in the foreground
    poll,       \* pollOnce between its await and its writes
    faults      \* faults that may still happen

chainVars == <<onChain, spentBy, mempool>>
relayerVars == <<net, relayer>>
diskVars == <<notes, claims, trades, row>>
appVars == <<kind, attempt, flow, poll, faults>>
walletVars == <<chainVars, relayerVars, diskVars, appVars>>

Attempts == 1 .. MaxAttempts
Ended == {"settled", "failed", "dead_letter", "cancelled", "expired"}

NoNote == [status |-> "none", leaf |-> FALSE, indexed |-> FALSE]
NoRow == [status |-> "none", v |-> 0]
NoFlow == [kind |-> "none", v |-> 0, pc |-> "idle", reply |-> "none"]
NoPoll == [pc |-> "idle", status |-> "none"]

WalletInit ==
    /\ onChain = {} /\ spentBy = 0 /\ mempool = {}
    /\ net = {} /\ relayer = NoRow
    /\ kind = [v \in 0 .. MaxAttempts |-> IF v = 0 THEN "deposit" ELSE "none"]
    /\ attempt = 0
    /\ notes = [v \in 0 .. MaxAttempts |-> NoNote]
    /\ claims = {} /\ trades = {} /\ row = NoRow
    /\ flow = NoFlow /\ poll = NoPoll
    /\ faults = MaxFaults

\* getAllNotes returns the notes that are in the index and have a blob.
Listed(v) == notes[v].status # "none" /\ notes[v].indexed

OneFault == faults > 0 /\ faults' = faults - 1

-----------------------------------------------------------------------------
(* The steps of a flow, in the order of its awaits. *)

\* The escrow is marked spent before the claim secrets are stored.
StepsSpentFirst(k) ==
    CASE k = "deposit" -> <<"mine", "blob", "index">>
      [] k = "order"   -> <<"post", "spent", "claims", "trade", "blob", "index", "track">>
      [] k = "market"  -> <<"mine", "spent", "blob", "index", "claims">>
      [] k = "cancel"  -> <<"mine", "spent", "blob", "index", "drop", "mark">>

Steps(k) ==
    CASE k = "deposit" -> <<"mine", "blob", "index">>
      [] k = "order"   -> <<"post", "claims", "spent", "trade", "blob", "index", "track">>
      [] k = "market"  -> <<"mine", "spent", "blob", "index", "claims">>
      [] k = "cancel"  -> <<"mine", "spent", "blob", "index", "drop", "mark">>

At(pc) == flow.pc = pc
Resume == LET steps == Steps(flow.kind)
              i     == CHOOSE j \in DOMAIN steps : steps[j] = flow.pc
          IN IF i = Len(steps) THEN NoFlow ELSE [flow EXCEPT !.pc = steps[i + 1]]

Begin(k, v) ==
    /\ flow = NoFlow
    /\ flow' = [kind |-> k, v |-> v, pc |-> Head(Steps(k)), reply |-> "none"]
    /\ kind' = [kind EXCEPT ![v] = k]
    /\ attempt' = v
    /\ IF k = "order" THEN net' = net \cup {v} /\ UNCHANGED mempool
                      ELSE mempool' = mempool \cup {v} /\ UNCHANGED net
    /\ UNCHANGED <<onChain, spentBy, relayer, diskVars, poll, faults>>

DepositStart == notes[0] = NoNote /\ 0 \notin onChain \cup mempool /\ Begin("deposit", 0)

\* The user picks an active note; the flow checks that the tree has it at
\* its index.
OrderStart(k) ==
    /\ k \in Kinds \ {"cancel"} /\ attempt < MaxAttempts
    /\ Listed(0) /\ notes[0].status = "active" /\ notes[0].leaf
    /\ Begin(k, attempt + 1)

\* handleCancelPendingOrder on a row that is not over; the escrow note is
\* marked spent by then.
CancelStart ==
    /\ "cancel" \in Kinds /\ attempt < MaxAttempts
    /\ row.status = "live" /\ Listed(0) /\ notes[0].leaf
    /\ Begin("cancel", attempt + 1)

-----------------------------------------------------------------------------
(* The chain and the relayer. *)

\* A transaction is mined; one that spends a spent nullifier reverts.
Mine(v) ==
    /\ v \in mempool
    /\ mempool' = mempool \ {v}
    /\ IF v = 0 \/ spentBy = 0
       THEN onChain' = onChain \cup {v} /\ spentBy' = v
       ELSE UNCHANGED <<onChain, spentBy>>
    /\ UNCHANGED <<relayerVars, diskVars, appVars>>

\* POST /api/authorize-orders: a known nullifier that has not failed is a
\* replay, whatever order the request carries.  The answer is the row's status.
PostArrives(v) ==
    /\ v \in net
    /\ net' = net \ {v}
    /\ relayer' = IF relayer.status \in {"none", "failed"} THEN [status |-> "live", v |-> v] ELSE relayer
    /\ flow' = IF At("post") /\ flow.v = v THEN [flow EXCEPT !.reply = relayer'.status] ELSE flow
    /\ UNCHANGED <<chainVars, diskVars, kind, attempt, poll, faults>>

\* The relayer settles the order, gives it up, or sees its cancellation.
RelayerEnds(status) ==
    /\ relayer.status = "live"
    /\ \/ /\ status = "settled" /\ spentBy = 0
          /\ spentBy' = relayer.v /\ onChain' = onChain \cup {relayer.v}
          /\ UNCHANGED <<mempool, faults>>
       \/ /\ status = "cancelled" /\ spentBy # 0 /\ kind[spentBy] = "cancel"
          /\ UNCHANGED <<chainVars, faults>>
       \/ /\ status \in {"failed", "dead_letter", "expired"}
          /\ \/ UNCHANGED <<mempool, faults>>
             \/ mempool' = mempool \cup {relayer.v} /\ OneFault
          /\ UNCHANGED <<onChain, spentBy>>
    /\ relayer' = [relayer EXCEPT !.status = status]
    /\ UNCHANGED <<net, diskVars, kind, attempt, flow, poll>>

-----------------------------------------------------------------------------
(* The foreground flow. *)

\* The receipt: the transaction took effect, or the flow ends with an error.
Mined ==
    /\ At("mine") /\ flow.v \notin mempool
    /\ flow' = IF flow.v \in onChain THEN Resume ELSE NoFlow
    /\ UNCHANGED <<chainVars, relayerVars, diskVars, kind, attempt, poll, faults>>

\* The answer to the POST.  A dead letter is answered with 409, an order that
\* fails the relayer's checks with an error before it is stored.
Posted ==
    /\ At("post")
    /\ \/ /\ flow.v \notin net
          /\ flow' = IF flow.reply = "dead_letter" THEN NoFlow ELSE Resume
          /\ UNCHANGED net
       \/ /\ flow.v \in net
          /\ net' = net \ {flow.v}
          /\ flow' = NoFlow
    /\ UNCHANGED <<chainVars, relayer, diskVars, kind, attempt, poll, faults>>

\* The POST is aborted, the upload may still arrive: pollForAcceptedOrder
\* takes any status the relayer has for the nullifier as the acceptance.
PostAborted ==
    /\ At("post") /\ OneFault
    /\ flow' = IF relayer.status = "none" THEN NoFlow ELSE [Resume EXCEPT !.reply = relayer.status]
    /\ UNCHANGED <<chainVars, relayerVars, diskVars, kind, attempt, poll>>

SaveClaims ==
    /\ At("claims")
    /\ claims' = claims \cup {flow.v}
    /\ flow' = Resume
    /\ UNCHANGED <<chainVars, relayerVars, notes, trades, row, kind, attempt, poll, faults>>

MarkSpent ==
    /\ At("spent")
    /\ notes' = [notes EXCEPT ![0].status = "spent"]
    /\ flow' = Resume
    /\ UNCHANGED <<chainVars, relayerVars, claims, trades, row, kind, attempt, poll, faults>>

SaveTrade ==
    /\ At("trade")
    /\ trades' = trades \cup {flow.v}
    /\ flow' = Resume
    /\ UNCHANGED <<chainVars, relayerVars, notes, claims, row, kind, attempt, poll, faults>>

\* The note a flow stores: change notes have no leaf yet; a deposit whose
\* event is missing is pending; the rotated escrow is always active.
Saved(hasEvent) ==
    CASE flow.kind = "cancel"  -> [status |-> "active", leaf |-> hasEvent, indexed |-> FALSE]
      [] flow.kind = "deposit" -> [status |-> IF hasEvent THEN "active" ELSE "pending", leaf |-> hasEvent, indexed |-> FALSE]
      [] OTHER                 -> [status |-> "pending", leaf |-> FALSE, indexed |-> FALSE]

\* saveNote: the blob ...
SaveBlob ==
    /\ At("blob")
    /\ \E hasEvent \in {TRUE} \cup (IF flow.kind \in EventMissing THEN {FALSE} ELSE {}) :
        notes' = [notes EXCEPT ![flow.v] = Saved(hasEvent)]
    /\ flow' = Resume
    /\ UNCHANGED <<chainVars, relayerVars, claims, trades, row, kind, attempt, poll, faults>>

\* ... then the index.
SaveIndex ==
    /\ At("index")
    /\ notes' = [notes EXCEPT ![flow.v].indexed = TRUE]
    /\ flow' = Resume
    /\ UNCHANGED <<chainVars, relayerVars, claims, trades, row, kind, attempt, poll, faults>>

\* track: an existing row gets the new status and keeps its order; a failing
\* write is only logged.
Track ==
    /\ At("track")
    /\ flow' = Resume
    /\ \/ /\ row' = [status |-> flow.reply, v |-> IF row = NoRow THEN flow.v ELSE row.v]
          /\ UNCHANGED faults
       \/ OneFault /\ UNCHANGED row
    /\ UNCHANGED <<chainVars, relayerVars, notes, claims, trades, kind, attempt, poll>>

\* After a cancellation the change note of a trade of this escrow is dropped.
DropChange ==
    /\ At("drop")
    /\ \/ trades = {} /\ UNCHANGED notes
       \/ \E v \in trades : notes' = [notes EXCEPT ![v] = NoNote]
    /\ flow' = Resume
    /\ UNCHANGED <<chainVars, relayerVars, claims, trades, row, kind, attempt, poll, faults>>

MarkCancelledLocally ==
    /\ At("mark")
    /\ row' = [row EXCEPT !.status = "cancelled"]
    /\ flow' = Resume
    /\ UNCHANGED <<chainVars, relayerVars, notes, claims, trades, kind, attempt, poll, faults>>

-----------------------------------------------------------------------------
(* The background: pollOnce and the note synchronisation. *)

PollFetch ==
    /\ poll = NoPoll
    /\ row.status = "live" /\ relayer.status # "none"
    /\ poll' = [pc |-> "apply", status |-> relayer.status]
    /\ UNCHANGED <<chainVars, relayerVars, diskVars, kind, attempt, flow, faults>>

\* Only a failed order is rolled back.
RollsBackFailed(status) == status = "failed"

RollsBack(status) == status \in Ended \ {"settled"}

\* applyStatus; the row it was fetched for was live.
PollApply ==
    /\ poll.pc = "apply"
    /\ row' = IF poll.status = "live" THEN row ELSE [row EXCEPT !.status = poll.status]
    /\ poll' = IF RollsBack(poll.status) THEN [poll EXCEPT !.pc = "drop"] ELSE NoPoll
    /\ UNCHANGED <<chainVars, relayerVars, notes, claims, trades, kind, attempt, flow, faults>>

\* dropChangeNoteForOrder: by the trade record of the row's order.
PollDrop ==
    /\ poll.pc = "drop"
    /\ notes' = IF row.v \in trades THEN [notes EXCEPT ![row.v] = NoNote] ELSE notes
    /\ poll' = NoPoll
    /\ UNCHANGED <<chainVars, relayerVars, claims, trades, row, kind, attempt, flow, faults>>

\* syncPendingNotes finds the commitment of a pending note among the leaves.
SyncPromotes(v) ==
    /\ Listed(v) /\ notes[v].status = "pending" /\ v \in onChain
    /\ notes' = [notes EXCEPT ![v].status = "active", ![v].leaf = TRUE]
    /\ UNCHANGED <<chainVars, relayerVars, claims, trades, row, appVars>>

\* The app is closed; storage, the chain and the network keep what they have.
Crash ==
    /\ OneFault
    /\ flow' = NoFlow /\ poll' = NoPoll
    /\ UNCHANGED <<chainVars, relayerVars, diskVars, kind, attempt>>

FlowStep ==
    Mined \/ Posted \/ SaveClaims \/ MarkSpent \/ SaveTrade \/ SaveBlob \/ SaveIndex
    \/ Track \/ DropChange \/ MarkCancelledLocally

PollStep == PollFetch \/ PollApply \/ PollDrop

UserStep == DepositStart \/ CancelStart \/ PostAborted \/ \E k \in {"order", "market"} : OrderStart(k)

WalletNext ==
    \/ UserStep \/ FlowStep \/ PollStep \/ Crash
    \/ \E v \in 0 .. MaxAttempts : Mine(v) \/ PostArrives(v) \/ SyncPromotes(v)
    \/ \E status \in Ended : RelayerEnds(status)

\* Awaits return, transactions are mined, the relayer sees a cancellation, the
\* app polls and synchronises while it is open.
WalletFairness ==
    /\ WF_walletVars(FlowStep)
    /\ WF_walletVars(PollStep)
    /\ WF_walletVars(RelayerEnds("cancelled"))
    /\ \A v \in 0 .. MaxAttempts : WF_walletVars(Mine(v)) /\ WF_walletVars(SyncPromotes(v))

WalletSpec == WalletInit /\ [][WalletNext]_walletVars /\ WalletFairness

-----------------------------------------------------------------------------

\* The type invariant of the wallet.
WalletTypeOK ==
    /\ onChain \subseteq 0 .. MaxAttempts /\ spentBy \in 0 .. MaxAttempts
    /\ mempool \subseteq 0 .. MaxAttempts /\ net \subseteq Attempts
    /\ claims \subseteq Attempts /\ trades \subseteq Attempts
    /\ row.status \in {"none", "live"} \cup Ended
    /\ relayer.status \in {"none", "live"} \cup Ended
    /\ \A v \in 0 .. MaxAttempts : notes[v].status \in {"none", "pending", "active", "spent"}

\* Whenever no operation is running, the wallet has what it takes to recover
\* all the money on the chain: the escrow note while it is unspent, the claim
\* secrets and the change note of the order that spent it, or the rotated
\* escrow of the cancellation that did.
FundsRecoverable ==
    flow = NoFlow =>
        /\ 0 \in onChain /\ spentBy = 0 => Listed(0)
        /\ spentBy # 0 => Listed(spentBy)
        /\ spentBy # 0 /\ kind[spentBy] # "cancel" => spentBy \in claims

\* No "orphaned spent-state with no way to claim": an escrow that is marked
\* spent, and was not cancelled, has claim secrets in the store, even when the
\* app is closed between the writes.  A market order stores them last, so it
\* is left out.
SpentHasClaims ==
    notes[0].status = "spent" /\ (\A v \in Attempts : kind[v] # "market") =>
        claims # {} \/ (spentBy # 0 /\ kind[spentBy] = "cancel")

\* After a cancellation "the user holds a fresh escrow": the rotated note is
\* in the wallet.
RotatedEscrowHeld ==
    flow = NoFlow /\ spentBy # 0 /\ kind[spentBy] = "cancel" => Listed(spentBy)

\* The change note of an order that settles is never rolled back.
SettledChangeKept ==
    flow = NoFlow /\ spentBy # 0 /\ kind[spentBy] = "order" /\ spentBy \in trades => Listed(spentBy)

\* Whatever is lost or closed, an escrow whose order was placed is marked spent
\* only after the secrets of its claims were stored (OrderService stores them
\* first); while nothing has gone wrong, the wallet can recover all its money
\* whenever no operation is running.
WalletIsSound ==
    /\ WalletTypeOK /\ SpentHasClaims
    /\ faults = MaxFaults => FundsRecoverable

\* A note in the wallet whose commitment is on the chain gets its leaf index,
\* without which no proof can be made for it.
LandedNoteIsProvable ==
    \A v \in 0 .. MaxAttempts :
        (Listed(v) /\ v \in onChain) ~> (~Listed(v) \/ notes[v].leaf)

\* The change note of an order that ended without settling does not linger as
\* a phantom balance.
PhantomGoes ==
    \A v \in Attempts :
        (relayer.v = v /\ relayer.status \in Ended \ {"settled"} /\ Listed(v) /\ v \notin onChain)
            ~> (~Listed(v) \/ relayer.v # v \/ relayer.status \notin Ended \ {"settled"})

\* An order that failed or expired is over without having spent the escrow:
\* the note can be used again.
EscrowReturns ==
    (relayer.status \in {"failed", "expired"} /\ spentBy = 0 /\ flow = NoFlow)
        ~> (spentBy # 0 \/ notes[0].status # "spent" \/ relayer.status \notin {"failed", "expired"})

=============================================================================
