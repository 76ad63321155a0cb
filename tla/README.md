# zkScatter: a TLA+ model of the contracts and the programs around them

zkScatter (`scatter-dex`) is a private exchange. Users deposit ERC20 tokens into
a pool and get *notes*, leaves of a Merkle tree that only their owner can open.
They sign orders and hand them to relayers. A relayer pairs two orders, or
sends one to a DEX, and submits zero-knowledge proofs to a settlement contract.
The contract burns the notes, inserts the residual notes, moves the traded
tokens out of the pool and registers *claims groups*, from which recipients
later collect their shares. Relayer fees and platform revenue go to a vault.
Around the contracts run relayers, an index shared between them (the shared
orderbook), a mobile wallet and web applications built on an SDK.

This directory holds TLA+ modules of that system, TLC configurations for them
and TLAPS proofs. `PROJECT.json` maps every definition to the source lines it
translates and lists, under `hazards`, what is hard to test in this code with
the properties that watch it.

## 1. Inventory

| Part | State | Operations | Talks to |
|---|---|---|---|
| `IncrementalMerkleTree.sol` | `filledSubtrees`, ring of `roots`, `currentRootIndex`, `nextIndex` | `_insert`, `isKnownRoot`, `getLastRoot` | inherited by the pool |
| `CommitmentPool.sol` | spent escrow nullifiers, token balances, the authorized settlement and its timelock, whitelist, pause, compliance switches | `deposit`, `withdraw`, `withdrawFor`, `insertCommitment`, `spendEscrowNullifier`, `transferToSettlement`, `transferFee`, owner operations | called by users and by the authorized settlement |
| `PrivateSettlement.sol`, `SettleVerifyLib.sol` | escrow, nonce and claim nullifiers, claims groups, token balances, switches | `settleAuth`, `scatterDirectAuth`, `settleWithDex`, `cancelPrivate`, `claimWithProof`, `claimWithProofBatch`, owner operations | calls the pool, the vault, DEX routers, the registry and the compliance lists |
| `FeeVault.sol` | relayer balances, `totalTracked`, `platformRevenue`, fee rate and its timelock, depositors, treasury | `deposit`, `accrueDexFee`, `accrueDexSurplus`, `claim`, `claimAsEth`, `withdrawPlatformRevenue`, owner operations | credited by the settlement |
| `RelayerRegistry.sol` | relayers with their bonds, `bondToken`, `minBond`, `exitCooldown` | `register`, `addBond`, `requestExit`, `executeExit`, `adminRemoveRelayer`, owner operations | consulted by the settlement |
| `Treasury.sol` | balances, attributed revenue, allowlists, pause | `receive`, `recordRevenue`, `withdraw(ETH)`, `rescue(ETH)`, owner operations | paid by the vault |
| Circuits (`authorize`, `claim`, `withdraw`, `cancel`, `deposit`) | none | what a proof forces about notes, orders, residuals and nullifiers | verified by pool and settlement |
| `SanctionsList.sol`, `IdentityGate.sol` | listed addresses, oracle; accepted CA registries | `isSanctioned`, `isVerified` | consulted by pool, settlement, registry |
| `IssuanceApprovalRegistry.sol`, `BatchExecutor.sol`, proxy | approvals; none | approve/revoke; multicall | - |
| Relayer, queue (`zk-relayer/src`) | `authorize_orders` in SQLite, the order map, slots per key, `pending_txs`, failure counters | POST of an order, settlement worker, wallet lock, send and wait, cancel events, expiry sweep, purge, drain, crash and boot | chain, users |
| Relayer, cross-relayer matching | offers, `lockingOrders` | trade offers as taker and as maker | other relayers |
| Relayer, settlement push | `settlement_push_outbox` | push on receipt, replay worker | shared orderbook |
| Shared orderbook (`shared-orderbook/src`) | settlements table, quarantine and eviction; indexed commitments and cursor | insert or replace a settlement, verifier pass, index pass | relayers, chain, clients |
| Mobile client (`mobile/src`) | notes, claim secrets and index, pending orders, scan checkpoint | deposit, order, market order, cancel, poll, note sync, claims, scan | chain, relayer |
| SDK (`packages/sdk/src`) | run files and index, note files and provider, deposit guard | save, mark, delete, list; add, patch, remove, load; recheck before a retry, detector of reverted deposits | the user's folder, chain |
| Pay application (`apps/pay`) | locks of the deposit button, page state | deposit, cancel, memo, marks | SDK, wallet |
| Other applications, deployment, load tests | display state | forms, dashboards, scripts | everything above |

Behaviour that is hard to get right:

* *Two contracts, one note.* A note can leave the pool through `withdraw` or be
  spent through the settlement; both keep nullifiers.
* *Pooled balances.* Neither the pool nor the settlement keeps tokens apart by
  owner, nor the registry bonds by relayer. A mistake is paid by whoever
  withdraws last.
* *Roots expire.* Proofs are made against old roots, of which a ring buffer
  remembers a bounded number.
* *Long delays.* Claims are collected long after the settlement: the pool may
  have another settlement by then, the lists another opinion, the contracts may
  have been paused and resumed, the vault replaced.
* *Timelocks and cooldowns* on the settlement address, on the platform fee and on
  bonds, which the owner may re-arm, cancel and reconfigure.
* *Two copies of an order's status.* The relayer keeps it in memory and in a
  database, reads it before awaits and writes it after them, and may crash at
  any point.
* *A transaction outlives its sender.* A receipt may not come in time, a
  broadcast may be answered with an error and still be mined; retries, offers to
  other relayers and the wallet's rollback act on what they believe meanwhile.
* *Answers are late, lost or untrue.* A peer's answer to an offer, a push, a
  report by another relayer, a node that lags behind another one.
* *Reorganisations* under cursors, checkpoints, indices and verified rows.
* *Read, await, write back.* Claim index, run files, note files and the deposit
  button's locks are all shared by operations that overlap, and a tab or an app
  may be closed between any two writes. What is lost there are secrets, that is
  money.

## 2. Modules

```
  LeafLog <--refines-- IncrementalMerkleTree        Chain
     |                                            /   |   \
  CommitmentPool ---- FeeVault (Totals)    RelayerRegistry  Treasury
          \           /
       PrivateSettlement (composes pool, vault and settlement)

  TxSubmitter <-- RelayerQueue <-- CrossRelayer      SettlementPush
                                                     (relayer and orderbook)
  LeafChain <-- LeafIndexer
  LeafChain <-- CommitmentScan <-- NoteSync
  MobileWallet    ClaimStore    RunStore    NoteVault    DepositGuard

  PrivateSettlement, RelayerRegistry, Treasury <-- ContractProofs
  IncrementalMerkleTree, LeafIndexer, NoteSync <-- LeafProofs
  RelayerQueue <-- RelayerQueueProofs <-- CrossRelayerProofs
  SettlementPush <-- SettlementPushProofs         RunStore <-- RunStoreProofs
  NoteVault, DepositGuard <-- PayNotesProofs
  MobileWallet, ClaimStore <-- MobileProofs
```

(`A <-- B`: B extends A.) `MC...` modules instantiate these for TLC.

### Contracts

**IncrementalMerkleTree** is the contract's tree: `insert` walks from the leaf
to the root with one cached left sibling per level (`Path`) and advances the
ring; `isKnownRoot` is the backwards scan. Poseidon is a free constructor: a
hash is the pair of its arguments. The module also has a history variable with
all leaves, from which the reference root of the padded tree is built.

**LeafLog** is what the pool needs of a tree: an append-only sequence of bounded
length in which a root is the length of the prefix it commits to, known while
fewer than `ROOT_HISTORY_SIZE` insertions followed. `ImplementsLog` in the tree's
module states that the tree implements it, with the log read off the newest root
as the refinement mapping. That the roots of the last prefixes and no others are
known is `RootsAreExact`.

**Chain** holds what all contracts see: `block.timestamp`, tokens, accounts, and
which accounts cannot receive ETH. A transaction is one step. All external
functions of the contracts are `nonReentrant`, and the only foreign code called
in the middle of one is a DEX router, modelled by the amounts it takes and
returns.

**Totals** has the sum of a function's values, defined as the number of its coins,
each tagged with the index it is booked under. The `...Proofs` modules are described
in section 5.

**FeeVault** has one action per external function. The vault does not pull
tokens: a caller transfers first and asks for credit afterwards. Alone it is
checked with these as separate steps (`TransferToVault`, `deposit`) and with
foreign transfers; within a settlement they are one step (`RouteFees`,
`AccrueRevenue`), built from the same operators. The history variable
`announced` records the last `scheduleFeeChange`.

**CommitmentPool** is the pool. A commitment is represented by the note it
commits to (`[secret, token, amount, salt]`) and a nullifier by its preimage
(`<<secret, salt>>`): amount and token are not part of it, as in the circuit, so
notes that share a salt share a nullifier. A proof is modelled by its
witness. Alone, the pool is run against `AnySettlement`, a settlement contract
of unknown code.

**PrivateSettlement** extends pool and vault. `Proofs` is the set of proofs the
verifier would accept in the current state, from any signed order and any note;
relayers submit any of them at any time and in any pair, also a user's order
against the same user's. Each settlement path is one action that burns
(`Burn`), moves tokens, routes fees and registers groups, or is disabled when any
part of the transaction reverts. The two verifier paths of `settleAuth` (one
batched check or two single ones) accept the same proofs and are not told apart;
`setBatchAuthorizeVerifier` still changes its switch. `executeClaims` is a batch
of claims; a single claim is a batch of one.

**RelayerRegistry** has one action per call that moves a bond or starts an exit,
and the owner's settings. A bond is paid in and out in the token the relayer
registered with (`PaidIn`), a token may take a fee on the way in, and the answers
of the identity and KYC registries are arbitrary at each call. In
`PrivateSettlement` the registry is a set that changes at any time
(`RegistryChange`).

**Treasury** treats ETH as one more asset; `Receive` is any way tokens or ETH
arrive, tagged or not.

### Relayer

**TxSubmitter** is what lies between a relayer and the chain: the wallet lock,
the gas estimate, `sendAndWait` with its repeats, the three kinds of error and
the chain's own steps (mining, reverting, cancel events, time). A *task* is a
caller awaiting one submission.

**RelayerQueue** is the order's life at one relayer. `row` is the status in
SQLite, `mem` the status of the entry in the map, `held` the entries that the
references of a running task still reach; an entry removed from the map meanwhile
no longer sees their writes. The POST handler is split at its awaits
(`PostReserve`, `PostAccept`), the worker into claim, submission and outcome, and
boot into the restoration of the map and the reset of the rows.

**CrossRelayer** adds trade offers: the taker's side, the request on its way, and
the maker's handler with its checks before and after the proof's verification.
The taker's wait ends without stopping the handler. A relayer skips orders it
posted itself. Every call that awaits is a task of its own, so the tasks of
workers, takers and makers are distinct (`CrossAssumption`). Two history variables, which
no guard reads, name what goes wrong in the code: `raced` has the orders a handler locked
after the proof although the check made before it no longer held, `orphaned` those whose
relayer crashed while an offer was at work on them.

**SettlementPush** is the outbox, the live push and the replay worker on the
relayer's side, and the settlements table with its cap, eviction, quarantine and
verifier on the orderbook's. The verifier's pass is one action per transaction,
with the chain's events read in between.

### Followers of the leaves

**LeafChain** is a chain of blocks holding leaves, with reorganisations up to a
depth and replicas that lag up to `lag` blocks, a number chosen at the start between
0 and `MaxLag`. **LeafIndexer** is the
orderbook's index pass (head, window, events, upsert, cursor) and what the API
serves. **CommitmentScan** is the mobile scanner with its persisted checkpoint,
its tail and its short-lived cache; **NoteSync** promotes stored notes to active
with the index at which the scanner found them.

### Clients

**MobileWallet** follows one escrow through deposits, orders, market orders,
cancellations and polls. `Steps` lists the order in which each flow writes claims,
escrow status, change note and order row; each write is a step of its own.
**ClaimStore** is the store of claim secrets (keychain, metadata, index, legacy
store and its migration) and the claim screen. The history variable `overwritten` has the
claims whose index entry was dropped by a write from a copy older than the entry.
**RunStore** has the run files, their queues and the index; any read or write of a
file may fail, and a listing (`listRuns` or `listRunsSummary`) reads file by file, or
trusts the index. **NoteVault** has the provider's notes over
the folder adapter, with a generation per adapter;
**DepositGuard** the attempts of the deposit button, the recheck before a retry
and the detector of reverted deposits. An attempt remembers which earlier ones ran
`beside` it and which the node `ruledOut`.

### What is abstracted

* Hashes, signatures and proof systems are ideal. Field widths (128-bit amounts,
  the field modulus) are not modelled.
* A claims root is the group itself. All empty groups of a tier have the same
  root, as in the circuit.
* Configuration of the contracts is a record of switches (`cfg`, `poolCfg`).
  `AdminOps` selects the owner operations a run may contain. Two-step ownership
  and proxy upgrades are left out.
* The sanctions list and the identity gate are sets that change at any time
  (`ComplianceChange`).
* Fee-on-transfer tokens are refused by the pool and by the vault's backing check
  and do not occur there; the registry accepts them.
* Off the chain, times are choices where the code compares ages (receipt
  timeouts, retry delays, cache lifetimes, the wait for an answer), a log query or
  an RPC call may fail at any time within a bound, and requests that are refused
  without changing anything are left out.
* Rows and notes have the columns the protocols decide on; amounts, names, URLs,
  time stamps and layout are left out.
* `NoteVault` names every file differently. The code makes a name of the leaf index,
  the millisecond and the note's id (`folderAdapter.ts`, `put`), so that two writes
  of one note within a millisecond would share it, and the cleanup after the
  second would delete the file just written. Such pairs of writes are left out.

## 3. Runs

The larger runs explore several *situations*: the variable `situation` is chosen
at the start and never changes, and each situation is an instance of the
specification with constants of its own. They are separate state spaces checked
together; a property that is promised only in some of them says so in its
definition.

| Run | Situations | What it shows |
|---|---|---|
| `contracts` | `tree`, `vault`, `registry`, `treasury`, `indexer`, `scan`, `lag`, `sync` | the cached walk computes the root of the whole tree, exactly the last roots are known, the tree implements the log; the vault is backed and exactly counted, a fee rate is announced a full delay ahead, credited fees are paid; bonds are exact, removals stick, bonds return; revenue tags stay within the balance. Indexed and persisted leaves are the canonical ones, and what has its confirmations is served in the end; scans return the chain's leaves; active notes have their index |
| `settlement` | `flow`, `dex`, `pause` | the pool is solvent, every note can leave, every claim is covered, books are exact, settled notes are spent in the pool; a DEX fee never lacks a vault; with pauses and owner switches in between |
| `claims_are_paid` | `migration`, `compliance`, `pool` | claims are paid although the pool moves to a successor, groups contain equal leaves, accounts are listed and delisted and relayers come and go; the pool alone pays users only what they burn, and a new settlement waits out its timelock |
| `queue` | `races` (two orders that match), `slots` (two orders for the one slot of a key), `crash` | a settled row is booked or its transaction still pending, only a running worker's order is settling, what the worker may claim can be found as a counterparty, a key keeps within its slots |
| `cross_relayer` | `races` (the offer against the maker's own worker), `crash`, both with relayers that verify the taker's proof (the default); `bothWays`, without | an order is in two submissions, or left matched, only after a lock on the word of a check that the await had made untrue, or after a crash during an offer; a settled row is on the chain; every other order ends, or stops in pending |
| `settlement_push` | `reorged`, `failing`, `delivery` | a verified row is on the canonical chain and keeps its attestation, acknowledged pushes are stored, own settlements are verified in the end although unverifiable rows stand before them |
| `mobile` | `calm`, `faults`, `store` (one operation at a time, from the legacy store on), `overlap` (two at a time) | an escrow marked spent has its claims, funds are recoverable, phantom change notes go, landed notes get their index; no claim loses its payloads across closings of the app, and an entry is lost, or a secret orphaned, only by a write from a copy of the index older than the entry |
| `runs` | `busy`, `faults`, `one` | a listing shows every run that was there throughout, unless its file could not be read by that listing; the index agrees with the files until something fails, marks stay until the memo is edited, operations end behind one that failed |
| `pay_notes` | vault: `calm`, `reload`, `faults`; deposits: `retry`, `phantom`, `cancel` | no note is lost, a removed note stays gone, the provider shows what is stored; a note marked failed never lands, one attempt at a time, no second deposit without consent or the node's word on the first, no deposit without its note |
| `one_sided_settles` | given | violated, finding 1 |
| `sanctioned_relayer` | given | violated, finding 2 |
| `receipt_timeout` | as `queue` | violated, finding 3 |

A run checks the module's properties by name or, where several say one thing
together, a conjunction the `MC` module names (or the module itself, where a
theorem states it):

| Checked as | Conjunction of |
|---|---|
| `TypesOK` (contracts) | the type invariants of the vault, the registry and the treasury |
| `RootsAreExact` (contracts) | the types of the tree, `LastRootIsReference`, `KnownRootsAreTheLast` |
| `BondsComeBack` (contracts) | `RemovalSticks`, `BondReturns` |
| `IndexIsCanonical` (contracts) | the types of the indexer, `ScannedIsStored`, `ServedIsCanonical` |
| `ScanFollowsTheChain` (contracts) | `PersistedIsCanonical`, and of replicas that do not lag `ReturnsPrefix` |
| `ActiveNoteIsAtItsIndex` (contracts) | itself, until a block is replaced and while no replica lags |
| `FollowersCatchUp` (contracts) | `EveryLeafServed`, `SelfHeals`, `LandedNoteBecomesActive`, each in its situation |
| `BooksExact` (settlement) | the types, `GroupBooksExact`, `VaultBooksExact`, `DexFeeHasVault` |
| `RowsAreSound` (queue) | the types, `SettledRowIsBooked`, `LiveRowsAreMatchable` |
| `RowsFollowTheChain` (cross_relayer) | the types, `SettledRowIsOnChain` |
| `IndexIsSound` (settlement_push) | the types, `VerifiedIsOnChain`, `PushedMeansStored`, in every situation |
| `OwnSettlementsVerified` (settlement_push) | `AttestationSticks`, `EverySettlementVerified` in `delivery` |
| `WalletIsSound` (mobile) | the types, `SpentHasClaims`, `FundsRecoverable` until the first fault |
| `StoreIsSound` (mobile) | the types, `NoClaimLost`, `NoOrphanSecret` |
| `ChangeIsResolved` (mobile) | `PhantomGoes` in `calm`, `LandedNoteIsProvable` in `faults` |
| `RecordsAreSound` (runs) | the types, `EveryRunListed`, `IndexIsCurrent` until the first failure or closing of the page |
| `UneditedMarksStay` (runs) | `NoMarkLost` until the first edit of a memo |
| `VaultIsSound` (pay_notes) | the types, `NoNoteLost`; of an application that waits for the vault to load and within one account `StoredIndexIsShown`; if moreover no deletion failed and at most two operations overlap `ShownIsStored`, and until the vault is reloaded `RemovedStaysGone` |
| `DepositsAreSound` (pay_notes) | the types, `FailedNeverLands`, `OneAttempt` until the first switch of account, `LandedHasNote` until the first failed write or closing |

Every property of a passing run has a mutant in `PROJECT.json`: a changed form of
one mapped definition, written next to it, with which TLC finds the property
violated.

### Bounds

* *Tree*: three levels and a ring smaller than the number of insertions, so that
  every parity pattern, the wrap-around and the full tree occur. In the
  settlement runs `Capacity` is at most 4 and `ROOT_HISTORY_SIZE` is 2: roots are
  forgotten, and settlements fail because a residual does not fit.
* *Users and notes*: two users, two salts. Salts may be reused in change notes,
  which is where nullifiers collide. Deposits may be repeated up to the capacity.
* *Amounts* of 1 to 3 allow partial withdrawals, residuals, fees of zero and one
  and a claims cap that is met exactly. Rates are in basis points as in the code;
  50 % is used so that small amounts give a fee of one unit.
* *Orders of a settlement run* are the ones it needs: an opposite pair, one with a
  fee margin and one without; a scatter with two claims, one released later; a
  swap; orders without claims. The scatter order and the pair compete for Alice's
  note and for her nonces.
* *Time on chain*: one to three blocks; timelocks, delays and cooldowns are 1 or
  2 ticks, so that they can be re-armed while they run. An exit is requested only
  while the clock has room for the longest cooldown (`RoomToExit`).
* `MaxVaultBalance`, `MaxBonds`, `MaxTreasury` bound what one contract receives.
* *Relayer*: two matching orders and one that competes for a slot, two requests at
  a time, two transactions, one failure before an order is given up, one crash.
  Two relayers with one order each, and a third that competes; one offer in each
  direction. With a second attempt the same steps repeat. In `races` and
  `crash` time passes between offers, in `bothWays` at any moment; receipts time out by
  choice, not by the clock. One transaction reaches the chain in `races`, two elsewhere.
* *Push*: one own settlement and one that does not exist, four blocks, one
  reorganisation, one lost request and one failing pass, two foreign reports.
* *Leaves*: two commitments, five blocks, two reorganisations of depth up to two,
  replicas two blocks behind, windows of two blocks, so that leaves fall in the
  buffer, at its edge and beyond it.
* *Mobile*: four attempts on one escrow in the `calm` situation; three with up to
  four faults (`MaxFaults`: an answer lost, a tracking write refused, a settlement
  after the relayer gave up, a closing of the app). Two closings of the app at the
  claim store; three claims, one of them in the legacy store,
  chunks of two. Two storage operations overlap (`MaxOps`) in `overlap`, which starts
  after the migration; the proof is for any number of them, also during it.
* *Runs and notes*: two runs or notes, two operations in flight, one failing
  access, one closing, two switches of account; three deposit attempts, two to
  four blocks, two confirmations and one reorganisation of one block.

No symmetry is used. Behaviours end when their actors run out of moves (a full
tree, all orders ended, bounds reached), so deadlock is not checked. Everyone
waiting on everyone is caught by the liveness properties instead
(`OrdersEnd`, `OneRunEnds`, `OwnSettlementsVerified`).

### Fairness

* `VaultFairness`, `RegistryFairness`: a relayer collects its fees and asks for
  its bond when it may. These are calls only it can make, in its own interest;
  and time passes.
* `MCFairSpec` of the settlement (`CollectEveryClaim`): each released claim is
  weakly fair as a single `claimWithProof`, which anybody may submit for the
  recipient, and the clock advances. Nothing is assumed of relayers, of the owner
  or of batches. Claims barred forever (listed, unverified, paused, recipient
  that rejects ETH) are excluded in the property itself: `ClaimsArePaid` says that
  a registered group is fully paid or one of its claims is barred at some later
  point.
* `CrossFairness`: time passes, timers run (expiry sweep, restart by the supervisor), an
  awaited submission comes to an end (its timeouts see to that), and a handler
  that was resumed goes on. Nothing is assumed of the network or of users.
* `PushFairness`: blocks are mined, the receipt arrives, both loops run on their
  timers, requests are handled or answered. Faults are bounded.
* The followers: each stage of a pass or scan goes on, the daemon's timer and the
  user start new ones, blocks are mined in the indexer's situation (confirmations
  need them). A promise for a note needs strong fairness of one step only
  (`SyncLeaves`): it awaits a scan that is again and again completed and expired.
* `WalletFairness`: a running flow goes on, History polls, what is in the mempool
  is mined, the relayer ends an order it has. Opening the app again after a
  closing is assumed.
* `OneRunEnds`: operations in flight go on.

## 4. Findings

Three runs show the code doing other than its documents say.

1. **One-sided settlements fit only once per tier** (`one_sided_settles`). The
   comments say one-sided settles are permitted and that the duplicate-root guard
   is gated so that they still fit. The guard is, but `registerClaimsGroup` is
   called for the empty side too. All orders without claims of one tier commit to
   the same claims root, so the second such settlement reverts with
   `ClaimsGroupAlreadyExists`, although it passes every check before.
2. **A listed relayer still earns fees** (`sanctioned_relayer`). `settleAuth`
   screens `msg.sender` only. When the other side's relayer submits the pair, the
   listed relayer is credited its fee, and the vault consults no list when it
   pays. The enforcement document says no on-chain action moves funds to a
   listed address.
3. **A settled order may be recorded as failed** (`receipt_timeout`). When the
   receipt does not arrive in time, `sendAndWait` throws and the worker counts a
   failure, while the transaction stays in the network and is mined. The comment of
   `sendAndWait` says not to resend but to poll, and the route calls failed orders
   retryable because their nullifier was not consumed.

### Limits of the promises

The properties below state more than the code keeps; the modules define them, and
the runs check them where they hold. What breaks each of them, with the constants
to see it:

| Property | Holds except when | See |
|---|---|---|
| `TerminalIsSticky` (RelayerQueue) | the worker's error path writes `retrying` by nullifier alone over a cancellation or expiry written during its await | `RetainForever = TRUE`, two attempts; `settlement-worker.ts:329`, against `authorize-orders.ts:275-277` |
| `BootDropsCancelledOrders` (RelayerQueue) | a cancel event falls into the downtime: the backfill runs before the map is filled, finds nothing, and the row is queued | `MaxCrashes = 1`, a canceller; `index.ts:325`, against `authorize-submitter.ts:303-304` |
| `PerKeyLimit` (RelayerQueue) | an expired order is purged and then ended by the worker: its slot is released twice | `MaxTime > 0` in the situation `slots`; `settlement-worker.ts:350`, against `index.ts:438` |
| `LiveRowsAreMatchable` (RelayerQueue) | rows still say settling when the boot fills the map; only the rows are reset afterwards | after a restart; `index.ts:563`, against `db.ts:558-559` |
| `NoDoubleSettle` (CrossRelayer) | the worker, or a second offer, takes a maker order while the handler of an offer awaits the check of the taker's proof: the handler locks it without looking at its status or at the lock again, and both submit it. `OneSubmissionPerOrder`, which the run checks, says that this is the only way | `verifyOrderProofs`, the default; situation `races`; `authorize-cross-relayer-matcher.ts:442`, against `:366-368` |
| `NeverStuck` (CrossRelayer) | the loser of that race restores `matched`, which it read after the await; or a relayer crashes during an offer, whose row the next boot neither resets nor restores. `NoStuckMatched` says that these are the only ways | as above; situation `crash`; `authorize-cross-relayer-matcher.ts:446`, `db.ts:663`, against `:510` and `db.ts:558-562` |
| `RestoredIsClaimable` (CrossRelayer) | the worker's failed settlement of a cross-token pair puts `pending` into the map, an offer takes the order, fails and copies it into the row: the worker claims only accepted and retrying rows and the sweep expires no pending one. `OrdersEnd` leaves such rows out | situation `races`; `settlement-worker.ts:274-275`, `db.ts:617-618`, `db.ts:676`, against `authorize-cross-relayer-matcher.ts:510-512` |
| `OneSubmissionPerOrder` and `NoStuckMatched`, with rows purged | a row that is purged after its retention while its order is still locked is accepted again by a new POST; ages are choices here, so that the model does not see that a retention of minutes outlasts every await | `RetainForever = FALSE`; `db.ts:99-105` |
| `EverySettlementIndexed` (SettlementPush) | the process that saw the receipt dies before the enqueue, or the row reaches `MAX_PUSH_ATTEMPTS` | `index.ts:96` and `db.ts:832`, against `authorize-submitter.ts:126-127` and `index.ts:225-226` |
| `VerifiedIsGenuine` (SettlementPush) | a row is replaced while the verifier awaits the events: it is marked on the strength of the row it replaced | two reports of transaction 1; `shared-orderbook db.ts:1084`, against `verifier.ts:14-16` |
| `ReturnsPrefix` (CommitmentScan) | a node lags behind the checkpoint by fewer blocks than the buffer: the tail repeats blocks that were counted | `lag > 0`; `commitmentScan.ts:173`, against `:164-166` |
| `ActiveNoteIsAtItsIndex`, `NoteIndexSelfHeals` (NoteSync) | an index is taken from the tail and the block is replaced: only notes without an index are looked up again | a reorganisation in the situation `sync`; `NoteStorageService.ts:453`, against `commitmentScan.ts:18-19` |
| every claim is listed (ClaimStore) | two of append, remove and list overlap: each reads the index, awaits and writes it back, and the entry that came in between is dropped, though its payloads stay. `NoClaimLost` and `NoOrphanSecret` name exactly these (`overwritten`) | situation `overlap`; `PendingClaimsStorage.ts:388`, against `:360` |
| what a batch claimed is dropped (ClaimStore) | a complete batch of several claims reports one hash per chunk, and so many entries are dropped | three claims; `ClaimScreen.tsx:295`, against `:314-315` |
| `FundsRecoverable` (MobileWallet) | the answer to the POST is lost and the order settles: its claim secrets were never stored; or an app dies between a deposit's receipt and its note | a fault (`MaxFaults > 0`); `OrderService.ts:513`, `DepositService.ts:220`, against `OrderService.ts:541-542` |
| `SpentHasClaims` (MobileWallet) | of market orders, whose flow marks the escrow spent before it stores the claims (the checked form leaves them out) | `MarketOrderService.ts:313`, against `:333` |
| `RotatedEscrowHeld` (MobileWallet) | the app dies before the rotated note is saved: its salt lived in memory | a cancellation and a closing; `CancelService.ts:228`, against `:9` |
| `SettledChangeKept` (MobileWallet) | the relayer reports a failed order that is mined later | `MaxFaults > 0`; `PendingOrdersService.ts:372`, against `:370-371` |
| `LandedNoteIsProvable` (MobileWallet) | the receipt of a cancellation lacks the event: the rotated note is active with index -1, which no sync repairs | `EventMissing` with `cancel`; `CancelService.ts:241`, against `:214-215` |
| `PhantomGoes` (MobileWallet) | the app is closed after the row was marked terminal and before its change note was dropped, or before the row was tracked | `MaxFaults > 0`; `PendingOrdersService.ts:372`, against `OrderService.ts:665-666` |
| `EscrowReturns` (MobileWallet) | an accepted order fails or expires: nothing marks the escrow active again | `OrderService.ts:579`, against `authorize-orders.ts:276-277` |
| every run is listed (RunStore) | the file cannot be read at the moment of the listing; if that listing rebuilds the index, so is the run missing from the index, until the next listing compares the ids and rebuilds it. `EveryRunListed` names the exception | `MaxFailures = 1`; `runs.ts:552-556`, as `:660-662` says |
| `IndexIsCurrent` (RunStore) | the write of the index fails: a listing compares ids, not contents | `MaxFailures = 1`; `runs.ts:599`, against `:587-589` |
| `NoMarkLost` (RunStore) | the memo editor saves the record the page holds, past the queue, over a mark made since | `MaxEdits = 1`; `payouts/detail/page.tsx:788`, against `runs.ts:752-754` |
| `RemovedStaysGone` (NoteVault) | the account is switched before the write in flight lands, or a third operation overlaps | `MaxVaultSwitches > 0` or `MaxOps = 3`; `vaultProvider.tsx:270`, against `:255-257` |
| `OneAttempt` (DepositGuard) | an attempt abandoned at a switch of account ends later and releases the locks of the next one | two accounts; `payouts/new/page.tsx:2139`, against `:2065-2066` |
| no second deposit without consent (DepositGuard) | a transaction the public node forgot is taken as gone and is mined after all; a receipt of few confirmations is reorganised; or the attempts overlap across a switch of account. `RetryIsNeverSilent` names these (`ruledOut`, `beside`) | `MayReturn`, reorganisations, two accounts; `depositGuard.ts:216`, against `phantomDepositDetector.tsx:49` |
| `LandedHasNote` (DepositGuard) | the page is closed, or the folder refuses the write, between the wallet's prompt and the stored note | a reload during the prompt; `realDeposit.ts:448`, against `:139-141` |

## 5. Proofs

Each theorem is about a specification of section 2 for every value of its constants,
under the assumptions the modules name (`RelayersAssumption`, `CapacityAssumption`,
...) and the hypotheses the theorem itself states. Eight modules hold the theorems:

| Module | About |
|---|---|
| `ContractProofs` | vault, registry, treasury, pool, settlement |
| `LeafProofs` | the tree, the orderbook's index of leaves, the wallet's scan and notes |
| `RelayerQueueProofs`, `CrossRelayerProofs` | the relayers |
| `SettlementPushProofs` | outbox and orderbook |
| `MobileProofs` | the wallet and its store of claims |
| `PayNotesProofs`, `RunStoreProofs` | the Pay application and the SDK's stores |

An invariant that is not inductive has a strengthening, defined in the proof module
(`...Inv`). Each strengthening was model-checked as an invariant of the run of its
component before it was proved.

### Contracts (`ContractProofs`)

The module begins with lemmas on totals: the sum of a finite family of amounts is a
natural number, changing or adding one member changes it by the difference, a
subfamily has no larger sum, disjoint families add up, and renaming the members
changes nothing. Counting coins (`Totals`) reduces them to the library's theorems on
the cardinality of unions and products.

Its second part is about the vault, for every finite set of relayers and all sets of tokens,
depositors, amounts, rates and delays (assumptions `RelayersAssumption`,
`FeeAssumption`, `DelayAssumption`, ...: finite relayers, rates and delays natural
numbers, cap at most 100 %):

| Theorem | States | Argument |
|---|---|---|
| `VaultTypeCorrect` | `VaultSpec => []VaultTypeOK` | inductive as it stands: the guards of claims and withdrawals keep balances natural, `RateAllowed` keeps rates below the cap |
| `VaultAlwaysBacked` | `VaultSpec => []VaultBacked` | inductive with the types: credits end with `Backed`, payouts take the same amount off both sides |
| `VaultCounterExact` | `VaultSpec => []TrackedIsSum` | inductive with the types: each action changes at most one balance and the counter by the same amount, by the lemmas on sums |
| `FeeTimelock` | `VaultSpec => FeeRateWasAnnounced` | needs `PendingIsAnnounced`: what is pending is the last announcement with the delay of that time, whatever the owner did to the delay since |

`VaultCounterExact` and `VaultAlwaysBacked` together say that the guards of
`PayOut` never refuse a claim, which is what `FeesAreClaimed` checks as a
liveness property.

About the pool, for all tokens, notes, salts, amounts, capacities,
root histories, timelocks and settlement contracts (assumptions
`NotesAssumption`, `CapacityAssumption`, `SettlementAssumption`, ...):

| Theorem | States | Argument |
|---|---|---|
| `PoolTypeCorrect` | `PoolSpec => []PoolTypeOK` | inductive as it stands; a change note is a note, balances are guarded, insertions are guarded by the capacity |
| `SettlementTimelock` | `PoolSpec => SettlementChangeWasQueued` | needs `PendingWasQueued`: what is pending is the last one queued, due a full timelock later. The immediate first `setAuthorizedSettlement` leaves a pending one in place and cannot break it |
| `UsersOnly` | `PoolSpec => UsersTakeOnlyTheirNotes` | the lemmas on `Owed` below |

`Owed(ls, ns, t)` is the sum of the notes of token `t` in the log `ls` whose
nullifier is not in `ns`. Three lemmas carry both this theorem and the
settlement's solvency: appending a note adds at most its amount (`OwedAppend`; it
adds nothing if its nullifier is already spent), spending a nullifier takes off at
least the note's amount (`OwedBurn`; notes that share the nullifier die with it),
and so spending a note and inserting its change takes off at least what left it
(`OwedSpend`, and `OwedSpendTwo` for two notes of different nullifiers). These
are inequalities because users may reuse salts.

About the composed system, for all orders, fees,
routers, DEX outputs, tiers and initial switches:

| Theorem | States | Argument |
|---|---|---|
| `SettledAreSpent` | `Spec => []SettledNotesAreSpent` | inductive as it stands; the pool forgets no nullifier |
| `DexFeeNeedsVault` | `Spec => []DexFeeHasVault` | inductive with the type of the switches (`CfgOK`): removing the vault resets the fee, setting a fee needs the vault. `CfgAssumption` asks the same of the initial switches |
| `PoolStaysSolvent` | `Spec => []PoolSolvent` | inductive invariant `SolventOK`: the switches, a well-formed log and solvency. `BurnOne` and `BurnTwo` say that burning takes off the notes what the orders sell; the cap of `validateCrossSide` and of the scatter path keeps claims and fee within that; a swap takes out what was sold and gives back a natural number, because the fee is one; a cancelled note returns with its amount |
| `BooksStayExact` | `Spec => []BooksExact` | `SettlementInv`: the types of the three contracts, solvency, and for each group that `totalLocked` is the sum of its leaves and `totalClaimed` the sum of those whose nullifier is marked. A batch is followed leaf by leaf: what it pays is the sum of the leaves it marks first. The vault's part reuses the lemmas on single credits and payouts |
| `ClaimsStayCovered` | `Spec => []ClaimsCovered` | `ClaimsExact`: the sum over the unpaid leaves of all groups, as one family indexed by group and leaf, is at most the balance. Registering a group adds a family disjoint from the others (a root is registered once) and at least as many tokens (`validateCrossSide` and the caps); paying marks leaves and takes off their amounts |
| `NotesCanExit` | `Spec => []EveryNoteCanExit` | from `SettlementInv`: a single note's amount is a member of the sum that `PoolSolvent` bounds; the newest root is always known |
| `ComposedSettlementTimelock`, `ComposedUsersOnly`, `ComposedFeeTimelock` | `Spec => SettlementChangeWasQueued`, `UsersTakeOnlyTheirNotes`, `FeeRateWasAnnounced` | the action properties of pool and vault survive the composition: the steps added by the settlement change neither the pending changes nor, without an authorization, the pool |

`StepKinds` sorts the steps of the composition into those that burn, cancel, use
the pool, reconfigure, or leave notes and switches alone, so that each proof has
one step per action that matters.

About registry and treasury, for all operators, bond tokens, fees on transfers,
amounts, assets, reporters and cooldowns:

| Theorem | States | Argument |
|---|---|---|
| `RegistryTypeCorrect` | `RegistrySpec => []RegistryTypeOK` | inductive as it stands: payouts are guarded by the balance |
| `BondsStayExact` | `RegistrySpec => []BondsExact` | inductive with the types: each call changes one operator's bond and the balance of the token it is booked in by the same amount, by the lemmas on sums; an operator with a bond cannot register again |
| `RemovalsStick` | `RegistrySpec => RemovalSticks` | from the types, one case per call |
| `TreasuryTypeCorrect`, `RevenueIsHeld` | `TreasurySpec => []TreasuryTypeOK`, `[]AttributedIsHeld` | inductive together: the guards of `recordRevenue` and `rescue` keep tags below the balance, `withdraw` takes from both |

### Relayers (`RelayerQueueProofs`, `CrossRelayerProofs`)

About the relayers' queues, for any number of relayers,
orders, keys, requests, retries and crashes:

| Theorem | States | Argument |
|---|---|---|
| `RowsStaySound` | `QueueSpec => []RowsAreSound` | `QueueInv`, below |
| `NoOrphanedSettling` | `QueueSpec => []OnlyTheWorkerSettles` | `QueueInv`, below |
| `LimitHoldsUntilExpiry` | `QueueSpec => [](NothingExpired => PerKeyLimit)` | `SlotsInv`, below |

Neither property is inductive. The proof has two layers.

* `QueueBase` holds whatever else writes rows and entries: types; a mined
  transaction consumed its orders, a task waits for its own one and a submission
  that ended settled was booked (`Chained`); the job of a worker, what it awaits and
  the entries it still reaches fit together, and a process that is not up reaches
  none (`JobsMatch`).
* Each step but a crash moves each order in one of a few ways (`Moves`): it rests,
  is accepted, withdrawn, parked, swept, purged or dismissed; it is claimed or
  paired by the worker, completed, given back or judged; or it is restored by a
  boot. Each of these says what happens to row, entry, references and job
  together. `QueueStepMoves` shows it once, action by action. All that follows is
  about moves and does not look at the actions again.

`QueueInv` adds to the base that an entry the worker reaches is matched
(`HeldMatched`), that settled rows are booked and settling rows are their worker's
job, and `Agrees`: until the first crash, the row and the entry of an order that
has neither expired nor been cancelled tell the same story, one for an order on the
job (`JobRow`), another for an order nobody is settling (`FreeRow`). This is the
hard part: rows and entries are written at different moments around the awaits, and
while the worker is on a job the row may be cancelled, be expired or be gone.
`SubmitterAssumption` says that orders are finitely many, because they are named
by nullifiers, elements of a finite field, and `QueueAssumption` that a server has
finitely many requests in progress; the counters of slots need both.

`SlotsInv` counts what takes a slot of a key: an order whose entry or row is open or
that a job has, a request whose proof is being checked, and a second slot for an
order that came back (was posted again and accepted) while the job still has what
it was before. While the relayer runs the counter covers this number and is within
the limit; while it is down the number itself is within the limit, since the boot
will count the rows it finds. That the counter is at least the number is the exact
balance of every path that releases a slot: each releases only what stops taking
one (`KeyCounted`), and the moves of `QueueInv` show that nothing but an acceptance
takes one (`TakesNoMore`). The theorem is about the time before any order expires,
for a reason: after that the purge and the worker can release one slot twice, and
the property is false (section 4). The invariant was checked by TLC on the situations of
`queue` and on two orders of one key with crashes and boots.

About the composition of queues and trade offers, for
any number of relayers, orders, requests and offers in any direction, over a
network that loses and delays requests and with peers that answer anything:

| Theorem | States | Argument |
|---|---|---|
| `RowsFollow` | `CrossSpec => []RowsFollowTheChain` | `CrossBase`: the queue's base, which offers keep because they touch no worker's task; a handler submits exactly its own and the taker's order while it settles, and nobody but workers and handlers submits; what a handler will put back says settled only if the chain did; and a row or entry that says settled stands for a spent order |
| `NoDoubleSubmission` | `RetainForever` implies `CrossSpec => []OneSubmissionPerOrder` | `LockInv`: an order an offer works on is in `lockingOrders`, is not live, is nobody's job and has a row no worker claims (`Reserved`), and no second offer works on it (`OneLock`) |
| `NobodyIsStuck` | `RetainForever` implies `CrossSpec => []NoStuckMatched` | `LockInv`: what says matched is a job or locked, unless its relayer crashed while it was locked (`NotStuck`) |

`QueueInv` does not hold of the composition (a taker's row says matched while
nobody's job), but the base and the moves do, so the queue's steps enter as moves
beside the offers (`BesideBase`, `BesideLocks`) and no action of the queue is looked
at again. A step of an offer is framed (`Framed`): it leaves the other offers and
all workers alone, and the order it is about is taken (`TakenOK`), released
(`ReleasedOK`) or aside (`AsideKeeps`). The hypothesis `RetainForever` is the default of the code (`AUTHORIZE_ORDER_RETENTION_MS` unset or
0, `zk-relayer db.ts:99-105`); section 4 says what happens without it. Whether a
relayer verifies proofs, and whether anybody crashes, is open. `LockInv` says its facts
of every order that was never locked on the word of a check that had become untrue
(`raced`, which only a handler that verifies proofs sets): orders are taken,
locked and released one by one, so that a lost race damages the order it is about
and no other. In the same way a crash costs an order its `NotStuck` only while an offer
is at work on it (`orphaned`).

### Payout records (`RunStoreProofs`)

For any number of runs and of
overlapping operations, and for any failures of file accesses and closings of the
page:

| Theorem | States | Argument |
|---|---|---|
| `StoreInvHolds` | `RunSpec => []StoreInv` | the inductive invariant, below |
| `RunRecordsSound` | `RunSpec => []RecordsAreSound` | `IndexFollows` and `ListOK` of `StoreInv` |
| `RecordedMarksStay` | `RunSpec => []UneditedMarksStay` | `MarksKept` of `StoreInv` |

`StoreInv` consists of

* the types, with what an operation of each kind looks like where it stands
  (`OpOK`);
* the two kinds of queue (`IndexQueueOK`, `RunQueuesOK`): the index queue holds
  exactly the operations that have come to the index and a run's queue its marks,
  each once, and who has made its first read there is the head. `AppendQueue` and
  `TailQueue` are the lemmas on queues all of this rests on;
* `ListOK`: what a listing must show is on disk and is in what it has read or in
  what it will read; a run whose file it fails to read leaves both (`kept`);
* `CreatesOnce`: a run is created once and nothing else happens to it before;
* `MarksKept`, until the first edit: a mark about to write knows all marks
  recorded so far, because it is the head of its run's queue since it read the
  file, and a mark that has written is in the file until the run is deleted;
* `IndexFollows`, until the first failure: index writes are queued in the order of
  the file writes, so the *last* task of a run in the queue knows its file
  (`Reflects`), and a run without a task there has a current entry, both in the
  index and in what a rebuild has read. The files may change while a task waits;
  then another task has joined behind it.

The two hypotheses (no failure yet, no edit yet) are not ones of convenience: section
4 says how a failure and an edit break the properties.

### Notes of the Pay application (`PayNotesProofs`)

For any number of notes, operations, attempts, switches of account, reloads, failing
accesses and reorganisations:

| Theorem | States | Argument |
|---|---|---|
| `VaultStaysSound` | `VaultSpec => []VaultIsSound` | `VaultInv`, below |
| `DepositsStaySound` | `GuardSpec => []DepositsAreSound` | `GuardInv`, below |
| `RetriesAreNeverSilent` | `GuardSpec => []RetryIsNeverSilent` | `GuardInv`, below |

The conditions `VaultIsSound` and `DepositsAreSound` put on their parts (section 3)
are conditions on the constants and on what has happened so far; `VaultInv` and
`GuardInv` are layered by them. `RetryIsNeverSilent` has none.

* `StorageInv` holds whatever happens: names of files are unique and those an
  operation or an adapter keeps for a note are of that note; a note that is being
  added is known to nobody else; only spent notes are removed; and the file a write
  leaves is newer than all files it is about to delete (`UnspentIsStored`), so that an
  unspent note has a file between any two steps.
* `AccountInv`, of an application that waits for the vault and within one account:
  nothing overlaps the load, an index or a note that is stored and not shown is
  about to be shown by an operation in flight.
* `ShownIsBacked`, while deletions succeed, and `RemovalInv`, of at most two
  overlapping operations: each file of a removed note is known to the adapter, on some
  operation's list, or will be found by a write that looks for files when it is done
  (`FilesAreTraced`); a removal has listed what the adapter knew
  (`RemovalsAreComplete`). With a third operation this is false, as section 4 says.
* `GuardInv`: where an attempt stands agrees with what became of its transaction
  (`PlacesAgree`); a failed note's transaction is deeper than a reorganisation reaches
  (`FailedIsDeep`); within one account the attempt under way holds the locks and the
  earlier ones have ended (`OneAtATime`). In any case, switches, reorganisations and
  a forgetful node included, of an earlier stored attempt a later one knows that it
  failed, was told by the node that it reverted or is unknown, ran beside it, still
  has to ask about it, or has ended without a deposit (`EarlierIsMinded`). As for the queue, `AttemptMoves` sorts the steps of an attempt
  once, and the layers are proved about moves.

### Mobile wallet (`MobileProofs`)

| Theorem | States | Argument |
|---|---|---|
| `WalletStaysSound` | `WalletSpec => []WalletIsSound` | `WalletInv`, below |
| `StoreStaysSound` | `ClaimSpec => []StoreIsSound` | `ClaimInv`, below |

*The wallet.* `WalletFacts` holds in every behaviour: an attempt keeps its kind, the escrow is
spent once (`EscrowIsOne`), and the flow that runs has written what precedes the
step it is at (`FlowHasWritten`), so that a limit order's secrets are stored before its
escrow is marked spent. `CalmFacts` holds until the first fault: what was sent is
awaited by the flow in the foreground, the relayer has at most one order of this
escrow and what the poll is about to apply is still true (`RelayerIsRight`), and the
notes and secrets the money depends on (`Matters`: of the attempt that spent the
escrow, or that the relayer may still settle) are stored or will be by a later step
of the running flow (`NoteComes`, `SecretsCome`).

*The claim store*, with any number of overlapping storage operations: any claims, any
legacy store, any number of closings, failed or unanswered transactions and other
devices that claim. Nothing but the migration runs before it is done
(`MigratesFirst`), and it deletes only what is copied and indexed
(`MigrationIsOrdered`). What an operation has still to do fits what is stored,
whatever the others do meanwhile (`OpsFit`): a claim that is being appended is new and
nobody else's (`AppendsApart`) and is indexed only when both its payloads are there; a
removal takes only claims the chain has paid, payloads first; a listing prunes from
its copy only what was claimed and removed. The copy itself may be old. What an
operation saw (`seen`) and the index it writes over say which entries it drops
without having seen them (`overwritten`), and `NothingDropped` and `NoOrphanSecret`
say that an entry goes, or a secret stays without one, in no other way. And the screen removes the *first* `submittedCount` entries of
its selection although what it claimed may be a later part of it, because claims
taken elsewhere were left out: `SelectionIsClaimed` says that what this claim took
comes before what nobody has taken yet, so that a prefix no longer than the number of
claims taken has been paid entirely. Lists of claims are filtered by `Within`, which
keeps the order of the list (`WithinSelects`, by induction over the list).

### Settlement push (`SettlementPushProofs`)

| Theorem | States | Argument |
|---|---|---|
| `IndexStaysSound` | `PushSpec => []IndexIsSound` | `PushInv`, below |
| `AttestationStays` | `PushSpec => AttestationSticks` | `AttestedIsTheEvent` of `PushInv`: an attestation is absent or what the event says, so a row that carries one gives way only to a report that agrees with it |

`PushInv` says that what a pass looks at lies at least `BlockSafetyMargin` blocks below
the head it read (`VerifierIsBehind`). The head never falls and no reorganisation goes
deeper than the margin, so what a pass matched is confirmed whenever it writes its
marks (`MatchedIsConfirmed`). A delivery is acknowledged after it was stored
(`AnsweredIsKept`); a row is evicted only from a full table, and a full table stays
full (`Kept`).

### Leaves (`LeafProofs`)

For every depth of the tree and every size of its ring, any leaves, and any number of
blocks and reorganisations:

| Theorem | States | Hypotheses | Argument |
|---|---|---|---|
| `TreeRootsAreExact` | `Spec => []RootsAreExact` | none | `TreeInv`, below |
| `TreeImplementsLog` | `Spec => ImplementsLog` | none | `LogIsInserted`: unfolding the newest root gives back the leaves, so that every step of the tree appends to the log |
| `IndexStaysCanonical` | `IndexerSpec => []IndexIsCanonical` | `MaxDepth`, `MaxLag` at most `IndexSafetyMargin` | `IndexInv`: cursor and window end below the blocks a reorganisation or a lagging replica can reach, the leaves up to the cursor are stored, and what is stored is settled, also after a pass that failed midway |
| `ScannerFollowsTheChain` | `ScanSpec => ScanFollowsTheChain` | `MaxDepth`, `MaxLag` at most `CONFIRMATIONS` | `ScanInv`: the checkpoint has its confirmations and holds the leaves up to it |
| `NotesStayAtTheirIndex` | `SyncSpec => []ActiveNoteIsAtItsIndex` | none | `SyncInv`: on a chain that only grew, cache and sync hold a beginning of its leaves |

The two bounds on reorganisations and lag are what the margins in the code are for; the
runs of the followers keep them too.

`TreeInv` relates the contract's storage to the padded tree, node by node. `Tree(row)`
is the table of all nodes over a bottom row, `IsHalving` says what the path of a leaf is (its
index, halved once per level). The invariant says: the leaves are counted; where the path of
the *next* leaf turns right at level `l`, `filledSubtrees[l]` is the node to its left
(`FilledAreNodes`), and elsewhere nothing is claimed, because the old value is never
read; and the ring, read backwards from `currentRootIndex`, holds the roots of the
prefixes, newest first (`RingHoldsTheLastRoots`). The step has two parts. The walk of
`insert` computes, level by level, the node of the new tree above the new leaf: the
sibling on its left is the recorded one, the one on its right covers zero leaves
only. And the path of the leaf after that turns right either where this one turned
left first, or where the paths agree, so the records are those the next insertion
reads. That no two prefixes share a root, which makes "exactly the last roots are
known" true, follows from the hash being a pairing: roots that are equal have equal
leaves, and the leaves of a prefix are not zero.

The library's induction theorems take an operator as parameter, which the provers
cannot instantiate. `LeafProofs`, `MobileProofs` and the other modules use induction over data in the
form of least elements instead: `LeastExists` is proved from the well-foundedness of
`<`, and `SetInduction` says that a *set* of numbers with 0 that is closed under
successor is all of `Nat`. With it the facts about `FlattenSeq`, which the community
modules define recursively, about recursive functions (the walk, the backwards scan)
and about the trees are lemmas. What stays out of reach are `RECURSIVE` operators,
which no module here uses.

### Only model-checked

* Liveness under fairness and `ENABLED`: `FeesAreClaimed`, `BondReturns`,
  `FollowersCatchUp`, `ClaimsArePaid`, `OrdersEnd`, `EverySettlementVerified`,
  `ChangeIsResolved`, `OneRunEnds`.
* `PerKeyLimit` after an order expired: it is not true for all constants (section 4),
  and the run checks it where it holds.

`TypesOK` is proved part by part (`VaultTypeCorrect`, `RegistryTypeCorrect`,
`TreasuryTypeCorrect`).

## 6. What could be proved next

1. The promises of section 4 with the code repaired: a claim store whose operations
   are serialised overwrites no entry, a handler that looks at the lock again after
   the proof races with nobody (`NoDoubleSettle`), and a `markFailed` with
   the guard its comment asks for keeps terminal rows (`TerminalIsSticky`).
2. That a group whose claims are all paid owes nothing: a consequence of
   `BooksStayExact` that nothing states yet.

## 7. Not modelled

* Issuance approvals, the batch executor and the proxy: an append-only table, a
  stateless multicall and a library; no interleaving of their own.
* Identity, sanctions and KYC registries beyond their answers.
* The orderbook's listings, sessions and statistics, and the claim indexer, which
  is the commitment indexer's loop over another event; the relayer's monitor and
  backfill scripts, which read and report.
* In the wallet: key handling, proof generation, screens other than the claim
  screen's bookkeeping. Two tabs or devices on one store. A vault that fails to
  load, and the adapter's `clear`. A reload of the web application loses its
  in-memory state and nothing else.
* The SDK's builders of notes, orders and proof inputs: what they build is what the
  circuits' guards describe.
* The web applications beside the Pay pages named above (administration, operators,
  issuance, frontend), deployment scripts and load tests. They are about two thirds
  of the repository's TypeScript and consist of forms, tables and layout over the
  services modelled here; a model of them would have nothing to check. This is why
  the share of all lines that the map covers stays small although the parts that
  hold state are covered.
* Field widths of the circuits: the spending circuits range-check a balance to 128
  bits where `deposit` accepts any field element.
