---------------------------- MODULE RelayerQueue ----------------------------
(***************************************************************************)
(* The relayer's order queue: authorize_orders rows in SQLite, the         *)
(* in-memory map the matcher reads, the per-pubKey slot counter, the POST  *)
(* handler, the settlement worker, the expiry sweep, the purge, the drain, *)
(* the PrivateCancel poller, crash and boot.                               *)
(*                                                                         *)
(* Every order belongs to the relayer its proof names (Owner); everything  *)
(* a relayer keeps is indexed by its orders.  A task holds references to   *)
(* map entries across an await; an entry that leaves the map meanwhile is  *)
(* out of reach of its writes.                                             *)
(*                                                                         *)
(* Abstractions.  Which due row is claimed first, which candidate of the   *)
(* pair index is found first and how long a retry is parked are choices;   *)
(* requests that are refused change nothing and are left out.              *)
(***************************************************************************)
EXTENDS TxSubmitter

CONSTANTS
    Owner,                     \* the relayer each order's proof is bound to
    SameToken,                 \* orders that sell and buy the same token
    Compatible,                \* <<maker, taker>> pairs whose tokens and prices fit
    Keys, KeyOf,               \* user public keys, and the key behind each order
    Posts,                     \* POST requests that may be in progress at once
    WorkerOf,                  \* the settlement worker's task, per relayer
    NoOrder,
    MAX_AUTHORIZE_ORDERS,
    MAX_ORDERS_PER_PUBKEY,
    MAX_SETTLEMENT_ATTEMPTS,
    settlementFailureThreshold,
    RetainForever,             \* TERMINAL_RETENTION_MS = 0: rows are never purged
    MaxCrashes                 \* bound on crashes

ASSUME QueueAssumption ==
    /\ Owner \in [Orders -> Relayers]
    /\ SameToken \subseteq Orders
    /\ Compatible \subseteq Orders \X Orders
    /\ KeyOf \in [Orders -> Keys]
    /\ WorkerOf \in [Relayers -> Tasks]
    /\ \A r \in Relayers : RelayerOf[WorkerOf[r]] = r
    /\ NoOrder \notin Orders
    /\ IsFiniteSet(Posts)
    /\ \A a, b \in Orders : KeyOf[a] = KeyOf[b] => Owner[a] = Owner[b]
    /\ {MAX_AUTHORIZE_ORDERS, MAX_ORDERS_PER_PUBKEY, MAX_SETTLEMENT_ATTEMPTS,
        settlementFailureThreshold} \subseteq Nat \ {0}
    /\ RetainForever \in BOOLEAN
    /\ MaxCrashes \in Nat

VARIABLES
    row,        \* status of each order's row in authorize_orders, or "none"
    attempt,    \* its attempt column
    mem,        \* status of its entry in the authorizeOrders map, or "none"
    slots,      \* pendingCountByPubKey
    posts,      \* the POST requests in progress
    worker,     \* the job the settlement worker of each relayer is on
    held,       \* map entries each task's references still reach
    cursor,     \* lastCancelBlock: PrivateCancel events already applied
    up,         \* whether the process runs
    crashes,    \* crashes so far
    failures    \* consecutive failures, and whether the alert is raised

queueVars == <<row, attempt, mem, slots, posts, worker, held, cursor, up, crashes, failures>>
memVars == <<mem, slots, posts, worker, held, cursor, failures>>

LIVE_STATUSES == {"pending", "accepted", "retrying"}
IN_FLIGHT_STATUSES == {"matched", "settling"}
TERMINAL_STATUSES == {"settled", "cancelled", "failed", "dead_letter", "expired"}
Statuses == LIVE_STATUSES \cup IN_FLIGHT_STATUSES \cup TERMINAL_STATUSES

Own(r) == {o \in Orders : Owner[o] = r}
KeysAt(r) == {KeyOf[o] : o \in Own(r)}
Expired(o) == Expiry[o] < clock

NoPost == [at |-> "idle", order |-> NoOrder]
NoJob == [job |-> NoOrder, orders |-> {}, attempt |-> 0]
NoFailures == [count |-> 0, alerted |-> FALSE]

QueueInit ==
    /\ SubmitterInit
    /\ row = [o \in Orders |-> "none"]
    /\ attempt = [o \in Orders |-> 0]
    /\ mem = [o \in Orders |-> "none"]
    /\ slots = [k \in Keys |-> 0]
    /\ posts = [p \in Posts |-> NoPost]
    /\ worker = [r \in Relayers |-> NoJob]
    /\ held = [t \in Tasks |-> {}]
    /\ cursor = [r \in Relayers |-> 0]
    /\ up = [r \in Relayers |-> "up"]
    /\ crashes = 0
    /\ failures = [r \in Relayers |-> NoFailures]
-----------------------------------------------------------------------------
(* Helpers.  An UPDATE by nullifier touches nothing when the row is gone,  *)
(* and does not look at the status it overwrites.                          *)

Marked(rows, S, s) == [o \in Orders |-> IF o \in S /\ rows[o] # "none" THEN s ELSE rows[o]]
Set(entries, S, s) == [o \in Orders |-> IF o \in S THEN s ELSE entries[o]]

incPubKeyCount(k) == [slots EXCEPT ![k] = @ + 1]
Decremented(n, d) == IF n > d THEN n - d ELSE 0
decPubKeyCount(S) ==
    [k \in Keys |-> Decremented(slots[k], Cardinality({o \in S : KeyOf[o] = k}))]
Live(S) == {o \in S : mem[o] \in LIVE_STATUSES}

(* Entries that leave the map are out of reach of every reference.         *)
Detached(S) == [t \in Tasks |-> held[t] \ S]

recordSettlementOutcome(r, kind) ==
    LET n == failures[r].count + 1
        capped == IF n > settlementFailureThreshold THEN settlementFailureThreshold ELSE n
    IN failures' = [failures EXCEPT ![r] =
           IF kind = "settled" THEN NoFailures
           ELSE [count |-> capped, alerted |-> @.alerted \/ n >= settlementFailureThreshold]]
-----------------------------------------------------------------------------
(* POST /api/authorize-orders, cut at its two awaits: the hash that binds  *)
(* the public key, and the proof verification.                             *)

(* A failed order may be submitted again: its row and entry are dropped.   *)
IsRetry(o) == row[o] = "failed"
PostStart(p, o) ==
    /\ posts[p] = NoPost
    /\ up[Owner[o]] = "up"
    /\ clock < Expiry[o]
    /\ row[o] \in {"none", "failed"}
    /\ IsRetry(o) \/ mem[o] \in {"none", "failed"}
    /\ row' = IF IsRetry(o) THEN [row EXCEPT ![o] = "none"] ELSE row
    /\ mem' = IF IsRetry(o) THEN [mem EXCEPT ![o] = "none"] ELSE mem
    /\ held' = IF IsRetry(o) THEN Detached({o}) ELSE held
    /\ Cardinality({x \in Own(Owner[o]) : mem'[x] # "none"}) < MAX_AUTHORIZE_ORDERS
    /\ posts' = [posts EXCEPT ![p] = [at |-> "binding", order |-> o]]
    /\ UNCHANGED <<chainVars, submitterVars, attempt, slots, worker, cursor, up, crashes, failures>>

(* Mutant: the limit is compared with <=. *)
HasSlotInclusive(o) == slots[KeyOf[o]] <= MAX_ORDERS_PER_PUBKEY
HasSlot(o) == slots[KeyOf[o]] < MAX_ORDERS_PER_PUBKEY

(* The slot is taken before the next await; a key that does not bind, a    *)
(* sanctioned key or a full allowance ends the request.                    *)
PostReserve(p) ==
    LET o == posts[p].order IN
    /\ posts[p].at = "binding"
    /\ \/ /\ HasSlot(o)
          /\ slots' = incPubKeyCount(KeyOf[o])
          /\ posts' = [posts EXCEPT ![p].at = "verifying"]
       \/ /\ posts' = [posts EXCEPT ![p] = NoPost]
          /\ UNCHANGED slots
    /\ UNCHANGED <<chainVars, submitterVars, row, attempt, mem, worker, held, cursor, up, crashes,
                   failures>>

(* A valid proof inserts the row unless another request already did; a bad *)
(* proof, or losing that race, gives the slot back.                        *)
PostAccept(p) ==
    LET o == posts[p].order IN
    /\ posts[p].at = "verifying"
    /\ posts' = [posts EXCEPT ![p] = NoPost]
    /\ \/ /\ row[o] = "none"
          /\ row' = [row EXCEPT ![o] = "accepted"]
          /\ attempt' = [attempt EXCEPT ![o] = 0]
          /\ mem' = [mem EXCEPT ![o] = "accepted"]
          /\ held' = Detached({o})
          /\ UNCHANGED slots
       \/ /\ slots' = decPubKeyCount({o})
          /\ UNCHANGED <<row, attempt, mem, held>>
    /\ UNCHANGED <<chainVars, submitterVars, worker, cursor, up, crashes, failures>>
-----------------------------------------------------------------------------
(* The settlement worker.  One job at a time; everything up to the         *)
(* submission runs without an await.                                       *)

findMatch(o) ==
    {c \in Own(Owner[o]) \ {o} : mem[c] \in LIVE_STATUSES /\ <<c, o>> \in Compatible}

Claimable(r) == {o \in Own(r) : row[o] \in {"accepted", "retrying"}}
WorkerIdle(r) == up[r] = "up" /\ worker[r] = NoJob

StartJob(r, o, S) ==
    /\ row' = [row EXCEPT ![o] = "settling"]
    /\ mem' = [x \in Orders |-> IF x \in S /\ mem[x] # "none" THEN "matched" ELSE mem[x]]
    /\ worker' = [worker EXCEPT ![r] =
                     [job |-> o, orders |-> S, attempt |-> attempt[o]]]
    /\ held' = [held EXCEPT ![WorkerOf[r]] = {x \in S : mem[x] # "none"}]
    /\ Submit(WorkerOf[r], S)
    /\ UNCHANGED <<chainVars, pendingTxs, recorded, attempt, slots, posts, cursor, up,
                   crashes, failures>>

settleSameToken(r) ==
    /\ WorkerIdle(r)
    /\ \E o \in Claimable(r) \cap SameToken : StartJob(r, o, {o})

settleCrossToken(r) ==
    /\ WorkerIdle(r)
    /\ \E o \in Claimable(r) \ SameToken :
          /\ mem[o] # "none"
          /\ \E c \in findMatch(o) : StartJob(r, o, {o, c})

(* Nobody to trade with, or no map entry: parked as accepted.              *)
deferAccepted(r) ==
    /\ WorkerIdle(r)
    /\ \E o \in Claimable(r) \ SameToken :
          /\ mem[o] = "none" \/ findMatch(o) = {}
          /\ row' = [row EXCEPT ![o] = "accepted"]
    /\ UNCHANGED <<chainVars, submitterVars, attempt, memVars, up, crashes>>

Outcome(r) == sub[WorkerOf[r]].out
JobDone(r) ==
    /\ up[r] = "up"
    /\ sub[WorkerOf[r]].at = "done"
    /\ Collected(WorkerOf[r])
    /\ worker' = [worker EXCEPT ![r] = NoJob]
    /\ held' = [held EXCEPT ![WorkerOf[r]] = {}]
    /\ UNCHANGED <<chainVars, pendingTxs, recorded, posts, cursor, up, crashes>>

JobSettled(r) ==
    /\ JobDone(r)
    /\ Outcome(r) = "settled"
    /\ row' = Marked(row, worker[r].orders, "settled")
    /\ mem' = Set(mem, held[WorkerOf[r]], "settled")
    /\ slots' = decPubKeyCount(worker[r].orders)
    /\ recordSettlementOutcome(r, "settled")
    /\ UNCHANGED attempt

(* Both entries return to pending before the job itself is judged.         *)
Reverted(r, s) ==
    [o \in Orders |-> IF o \notin held[WorkerOf[r]] THEN mem[o]
                      ELSE IF o = worker[r].job THEN s ELSE "pending"]
Budget(kind) == IF kind = "transient" THEN MAX_SETTLEMENT_ATTEMPTS ELSE 1
Exhausted(r) == worker[r].attempt + 1 > Budget(Outcome(r))

JobFailed(r) ==
    LET o == worker[r].job
        s == IF Outcome(r) = "transient" THEN "dead_letter" ELSE "failed"
    IN
    /\ JobDone(r)
    /\ Outcome(r) \in Errors
    /\ Outcome(r) = "permanent" \/ Exhausted(r)
    /\ row' = Marked(row, {o}, s)
    /\ mem' = Reverted(r, s)
    /\ slots' = decPubKeyCount({o})
    /\ recordSettlementOutcome(r, "failed")
    /\ UNCHANGED attempt

JobRetried(r) ==
    LET o == worker[r].job IN
    /\ JobDone(r)
    /\ Outcome(r) \in {"transient", "unknown"}
    /\ ~Exhausted(r)
    /\ row' = Marked(row, {o}, "retrying")
    /\ attempt' = IF row[o] = "none" THEN attempt
                  ELSE [attempt EXCEPT ![o] = worker[r].attempt + 1]
    /\ mem' = Reverted(r, "retrying")
    /\ UNCHANGED <<slots, failures>>

handleJob(r) ==
    \/ settleSameToken(r)
    \/ settleCrossToken(r)
    \/ deferAccepted(r)
    \/ JobSettled(r)
    \/ JobFailed(r)
    \/ JobRetried(r)
-----------------------------------------------------------------------------
(* Timers and administration.                                              *)

(* The statuses of which the sweep takes expired rows.                     *)
SweepStatuses == {"accepted", "settling", "retrying"}
sweepExpired(r) ==
    /\ up[r] = "up"
    /\ \E o \in Own(r) : row[o] \in SweepStatuses /\ Expired(o)
    /\ row' = [o \in Orders |-> IF o \in Own(r) /\ row[o] \in SweepStatuses /\ Expired(o)
                                THEN "expired" ELSE row[o]]
    /\ UNCHANGED <<chainVars, submitterVars, attempt, memVars, up, crashes>>

(* Entries leave the map; expired live ones give their slot back.  Rows    *)
(* past their retention go too, if the operator set one.                   *)
Purgeable(r) == {o \in Own(r) : \/ mem[o] \in TERMINAL_STATUSES
                                \/ mem[o] \in LIVE_STATUSES /\ Expired(o)}
PurgeReleases(S) == Live(S)
purgeNonPending(r) ==
    /\ up[r] = "up"
    /\ slots' = decPubKeyCount(PurgeReleases(Purgeable(r)))
    /\ mem' = Set(mem, Purgeable(r), "none")
    /\ held' = Detached(Purgeable(r))
    /\ \E old \in SUBSET {o \in Own(r) : row[o] \in TERMINAL_STATUSES} :
          /\ RetainForever => old = {}
          /\ Purgeable(r) # {} \/ old # {}
          /\ row' = Set(row, old, "none")
    /\ UNCHANGED <<chainVars, submitterVars, attempt, posts, worker, cursor, up, crashes, failures>>

drainAuthorizeOrders(r) ==
    /\ up[r] = "up"
    /\ Live(Own(r)) # {}
    /\ slots' = decPubKeyCount(Live(Own(r)))
    /\ row' = Marked(row, Live(Own(r)), "cancelled")
    /\ mem' = Set(mem, Live(Own(r)), "none")
    /\ held' = Detached(Live(Own(r)))
    /\ UNCHANGED <<chainVars, submitterVars, attempt, posts, worker, cursor, up, crashes, failures>>

(* A scan hands every new event to applyOnChainAuthorizeCancel, which does *)
(* nothing for an order that is not in the map.                            *)
NewCancels(r) ==
    {o \in Own(r) : \E i \in cursor[r] + 1 .. Len(cancelLog) : cancelLog[i] = o}
applyOnChainAuthorizeCancel(S) ==
    LET hit == {o \in S : mem[o] # "none"} IN
    /\ slots' = decPubKeyCount(Live(hit))
    /\ row' = Marked(row, hit, "cancelled")
    /\ mem' = Set(mem, hit, "none")
    /\ held' = Detached(hit)

indexCancels(r) ==
    /\ up[r] = "up"
    /\ cursor[r] < Len(cancelLog)
    /\ applyOnChainAuthorizeCancel(NewCancels(r))
    /\ cursor' = [cursor EXCEPT ![r] = Len(cancelLog)]
    /\ UNCHANGED <<chainVars, submitterVars, attempt, posts, worker, up, crashes, failures>>

Housekeeping(r) ==
    \/ sweepExpired(r)
    \/ purgeNonPending(r)
    \/ drainAuthorizeOrders(r)
    \/ indexCancels(r)
-----------------------------------------------------------------------------
(* A crash loses memory; rows, pending_txs and the chain stay.             *)

Crash(r) ==
    /\ up[r] # "down"
    /\ crashes < MaxCrashes
    /\ crashes' = crashes + 1
    /\ up' = [up EXCEPT ![r] = "down"]
    /\ mem' = Set(mem, Own(r), "none")
    /\ slots' = [k \in Keys |-> IF k \in KeysAt(r) THEN 0 ELSE slots[k]]
    /\ posts' = [p \in Posts |-> IF posts[p].order \in Own(r) THEN NoPost ELSE posts[p]]
    /\ worker' = [worker EXCEPT ![r] = NoJob]
    /\ held' = [t \in Tasks |-> IF RelayerOf[t] = r THEN {} ELSE held[t]]
    /\ cursor' = [cursor EXCEPT ![r] = 0]
    /\ failures' = [failures EXCEPT ![r] = NoFailures]
    /\ sub' = [t \in Tasks |-> IF RelayerOf[t] = r THEN Idle ELSE sub[t]]
    /\ UNCHANGED <<chainVars, pendingTxs, recorded, row, attempt>>

(* Boot, first half: mined transactions are struck off pending_txs, then   *)
(* the cancel events are scanned while the map is still empty.             *)
BootScan(r) ==
    /\ up[r] = "down"
    /\ up' = [up EXCEPT ![r] = "scanned"]
    /\ pendingTxs' = {i \in pendingTxs : txs[i].relayer = r => txs[i].state = "pending"}
    /\ \/ /\ applyOnChainAuthorizeCancel(NewCancels(r))
          /\ cursor' = [cursor EXCEPT ![r] = Len(cancelLog)]
       \/ UNCHANGED <<slots, row, mem, held, cursor>>
    /\ UNCHANGED <<chainVars, recorded, sub, attempt, posts, worker, crashes, failures>>

(* Second half: the map is loaded from the rows, then orphaned settling    *)
(* rows are reset, then the worker starts.                                 *)
RestoredFrom(rows, r) == {o \in Own(r) : rows[o] \in LIVE_STATUSES \cup IN_FLIGHT_STATUSES}
(* Mutant: boot does not look at settling rows. *)
resetNothing(rows, r) == rows
resetOrphanedSettling(rows, r) ==
    [o \in Orders |-> IF o \in Own(r) /\ rows[o] = "settling" THEN "accepted" ELSE rows[o]]
BootRestore(r) ==
    /\ up[r] = "scanned"
    /\ up' = [up EXCEPT ![r] = "up"]
    /\ mem' = [o \in Orders |-> IF o \in RestoredFrom(row, r) THEN row[o] ELSE mem[o]]
    /\ slots' = [k \in Keys |-> IF k \in KeysAt(r)
                                THEN Cardinality({o \in RestoredFrom(row, r) : KeyOf[o] = k})
                                ELSE slots[k]]
    /\ row' = resetOrphanedSettling(row, r)
    /\ UNCHANGED <<chainVars, submitterVars, attempt, posts, worker, held, cursor, crashes, failures>>
-----------------------------------------------------------------------------
Client ==
    \/ \E p \in Posts, o \in Orders : PostStart(p, o)
    \/ \E p \in Posts : PostReserve(p)
    \/ \E p \in Posts : PostAccept(p)
Environment == ChainStep /\ UNCHANGED queueVars
Submission(r) == TaskStep(WorkerOf[r]) /\ UNCHANGED queueVars
Boot(r) == BootScan(r) \/ BootRestore(r)

QueueStep ==
    \/ Client
    \/ Environment
    \/ \E r \in Relayers : Submission(r) \/ handleJob(r) \/ Housekeeping(r) \/ Boot(r)
QueueNext == QueueStep \/ \E r \in Relayers : Crash(r)

queueAll == <<chainVars, submitterVars, queueVars>>

(* Time passes, the process is restarted after a crash, its 60 s sweep     *)
(* runs, and an awaited call ends: it has a timeout of its own.  Nothing   *)
(* is assumed of the chain or of the users.                                *)
QueueFairness ==
    /\ WF_queueAll(Tick /\ UNCHANGED queueVars)
    /\ \A p \in Posts : WF_queueAll(PostReserve(p)) /\ WF_queueAll(PostAccept(p))
    /\ \A r \in Relayers :
          /\ WF_queueAll(Boot(r))
          /\ WF_queueAll(sweepExpired(r))
          /\ WF_queueAll(Submission(r))
          /\ WF_queueAll(JobSettled(r) \/ JobFailed(r) \/ JobRetried(r))

QueueSpec == QueueInit /\ [][QueueNext]_queueAll /\ QueueFairness
-----------------------------------------------------------------------------
(* Properties.                                                             *)

(* Every variable keeps its type; in particular no order is tried more     *)
(* often than its retry budget allows, whatever the outcomes are.          *)
QueueVarsOK ==
    /\ row \in [Orders -> Statuses \cup {"none"}]
    /\ attempt \in [Orders -> 0..MAX_SETTLEMENT_ATTEMPTS]
    /\ mem \in [Orders -> Statuses \cup {"none"}]
    /\ slots \in [Keys -> Nat]
    /\ posts \in [Posts -> [at : {"idle", "binding", "verifying"}, order : Orders \cup {NoOrder}]]
    /\ worker \in [Relayers -> [job : Orders \cup {NoOrder}, orders : SUBSET Orders,
                                attempt : 0..MAX_SETTLEMENT_ATTEMPTS]]
    /\ held \in [Tasks -> SUBSET Orders]
    /\ cursor \in [Relayers -> 0..Len(cancelLog)]
    /\ up \in [Relayers -> {"up", "down", "scanned"}]
    /\ crashes \in 0..MaxCrashes
    /\ failures \in [Relayers -> [count : 0..settlementFailureThreshold, alerted : BOOLEAN]]
QueueTypeOK == SubmitterTypeOK /\ QueueVarsOK

(* An order is reported settled only after the chain mined its settlement *)
(* and the books hold it (history, claims root, outbox): a timeout, a      *)
(* retry, a cancel or a restart never makes the row run ahead of them.     *)
SettledRowIsBooked ==
    \A o \in Orders : row[o] = "settled" =>
        o \in spent /\ \E i \in recorded : o \in txs[i].orders

(* A row in status settling is the job the running worker is on: boot and  *)
(* every way a job ends leave no orphan that nobody would claim again.     *)
OnlyTheWorkerSettles ==
    \A o \in Orders : row[o] = "settling" =>
        up[Owner[o]] # "up" \/ worker[Owner[o]].job = o

Outstanding(k) ==
    {o \in Orders : KeyOf[o] = k /\ mem[o] \in LIVE_STATUSES \cup IN_FLIGHT_STATUSES}

(* A key never has more than MAX_ORDERS_PER_PUBKEY orders in the map that  *)
(* are live or in flight, although requests race between their awaits.     *)
PerKeyLimit == \A k \in Keys : Cardinality(Outstanding(k)) <= MAX_ORDERS_PER_PUBKEY

(* An order the worker may claim can also be found as a counterparty: the  *)
(* row and the map entry of an order nobody is settling agree, until the   *)
(* first restart (BootRestore loads the status settling into the map and   *)
(* only then resets the row).                                              *)
LiveRowsAreMatchable ==
    \A o \in Orders :
        (/\ crashes = 0
         /\ row[o] \in {"accepted", "retrying"}
         /\ ~Expired(o)
         /\ o \notin Cancelled
         /\ o \notin worker[Owner[o]].orders) => mem[o] \in LIVE_STATUSES

(* Rows agree with what they stand for: a settled row has its booking or a *)
(* transaction under way, and what the worker may claim can be found as a  *)
(* counterparty.                                                           *)
RowsAreSound == QueueTypeOK /\ SettledRowIsBooked /\ LiveRowsAreMatchable

(* An order reported failed may be submitted again because its nullifier   *)
(* was not consumed.                                                       *)
FailedMeansUnspent ==
    \A o \in Orders : row[o] \in {"failed", "dead_letter"} => o \notin spent

(* Terminal states other than failed stay sticky: nothing puts an order    *)
(* back in the queue once it was reported settled, cancelled or expired.   *)
TerminalIsSticky ==
    [][\A o \in Orders :
          row[o] \in TERMINAL_STATUSES \ {"failed"} =>
              row'[o] \notin LIVE_STATUSES \cup IN_FLIGHT_STATUSES]_queueAll

(* The startup backfill catches every cancel that landed while the relayer *)
(* was down: boot does not restore as live an order whose event it read.   *)
BootDropsCancelledOrders ==
    [][\A r \in Relayers : up[r] = "scanned" /\ up'[r] = "up" =>
          \A i \in 1..cursor[r] : mem'[cancelLog[i]] \notin LIVE_STATUSES]_queueAll
=============================================================================
