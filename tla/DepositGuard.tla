---------------------------- MODULE DepositGuard ----------------------------
(***************************************************************************)
(* Deposits of the Pay application: the handler of the deposit button with *)
(* its locks (apps/pay/app/payouts/new/page.tsx), the recheck of earlier   *)
(* deposits before a retry (packages/sdk/src/notes/depositGuard.ts), the   *)
(* deposit itself (apps/pay/app/_lib/realDeposit.ts) and the detector of   *)
(* deposits that reverted (packages/sdk/src/react/phantomDepositDetector). *)
(* A user whose deposit hangs tries again; the second note must not lock   *)
(* the same funds twice, and no deposit may land without its note.         *)
(*                                                                         *)
(* beside and ruledOut of an attempt are history: no guard reads them.     *)
(***************************************************************************)
EXTENDS Integers, FiniteSets

CONSTANTS
    Accounts,         \* accounts of the wallet
    MaxAttempts,      \* bound: clicks of the deposit button that start one
    MaxHead,          \* bound: block height
    MinConfirmations, \* MIN_CONFIRMATIONS of the detector
    MaxReorgDepth,    \* blocks a reorganisation replaces
    MayReturn,        \* a transaction the public node forgot may still be mined
    MaxReorgs, MaxSwitches, MaxReloads, MaxErrors   \* bounds on faults

ASSUME GuardAssumption ==
    /\ {MaxAttempts, MaxHead, MinConfirmations} \subseteq Nat \ {0}
    /\ {MaxReorgDepth, MaxReorgs, MaxSwitches, MaxReloads, MaxErrors} \subseteq Nat
    /\ MaxReorgDepth < MinConfirmations
    /\ MayReturn \in BOOLEAN

Attempts == 1 .. MaxAttempts

VARIABLES
    head, tx,         \* the chain and the deposit transaction of each attempt
    account,          \* the connected account
    vault,            \* the note of each attempt
    flow,             \* the attempts of the button
    inFlight,         \* depositInFlightRef
    abortRef, parked, \* the attempt of depositAbortRef and of pendingDepositRef, or 0
    tree,             \* commitments the page's tree shows
    scan, cleared,    \* the detector: the pass under way, hashes it need not ask for
    budget

chainVars == <<head, tx>>
pageVars == <<flow, inFlight, abortRef, parked>>
guardVars == <<head, tx, account, vault, flow, inFlight, abortRef, parked, tree, scan, cleared, budget>>

NoTx == [fate |-> "none", known |-> FALSE, at |-> 0]
NoNote == [saved |-> FALSE, hash |-> FALSE, aged |-> FALSE, leaf |-> FALSE, failed |-> FALSE]
NoFlow == [pc |-> "new", account |-> "none", todo |-> {}, asked |-> 0, ambiguous |-> FALSE,
           aborted |-> FALSE, confirmed |-> FALSE, hash |-> FALSE,
           beside |-> {},      \* attempts still under way when this one was clicked
           ruledOut |-> {}]    \* attempts its recheck was told reverted or are unknown to the node
NoScan == [head |-> 0, targets |-> {}]

Started ==
    /\ head = 1
    /\ tx = [a \in Attempts |-> NoTx] /\ vault = [a \in Attempts |-> NoNote]
    /\ account \in Accounts
    /\ flow = [a \in Attempts |-> NoFlow]
    /\ inFlight = FALSE /\ abortRef = 0 /\ parked = 0
    /\ tree = {} /\ scan = NoScan /\ cleared = {}

Bounds(reorgs, switches, reloads, errors) ==
    [reorgs |-> reorgs, switches |-> switches, reloads |-> reloads, errors |-> errors]

GuardInit == Started /\ budget = Bounds(MaxReorgs, MaxSwitches, MaxReloads, MaxErrors)

At(a, pc) == flow[a].pc = pc
Goto(a, pc) == flow' = [flow EXCEPT ![a].pc = pc]
Active(a) == flow[a].pc \notin {"new", "done"}
Spend(kind) == budget[kind] > 0 /\ budget' = [budget EXCEPT ![kind] = @ - 1]

-----------------------------------------------------------------------------
(* What the guard reads off the vault. *)

NotesOf(acct) == {a \in Attempts : vault[a].saved /\ flow[a].account = acct}
IsPendingDeposit(a) == ~vault[a].failed /\ ~vault[a].leaf

\* A recent pending note blocks; the window passes.
HasConfirmingDeposit(acct) == \E a \in NotesOf(acct) : IsPendingDeposit(a) /\ ~vault[a].aged

\* One reconciled note covers the run: there is no shortfall to deposit.
Covered(acct) == \E a \in NotesOf(acct) : vault[a].leaf

-----------------------------------------------------------------------------
(* The handler of the button. *)

\* The locks go whoever holds them.
ReleaseDepositLocks == inFlight' = FALSE /\ abortRef' = 0

Click(a) ==
    /\ At(a, "new") /\ \A b \in 1 .. a - 1 : ~At(b, "new")
    /\ ~inFlight /\ ~Covered(account) /\ ~HasConfirmingDeposit(account)
    /\ inFlight' = TRUE /\ abortRef' = a
    /\ LET pending == {b \in NotesOf(account) : IsPendingDeposit(b)} IN
       flow' = [flow EXCEPT ![a] = [NoFlow EXCEPT !.pc = IF pending = {} THEN "prepare" ELSE "poll",
                                                  !.account = account, !.todo = pending,
                                                  !.beside = {b \in Attempts : Active(b)}]]
    /\ UNCHANGED <<chainVars, account, vault, parked, tree, scan, cleared, budget>>

\* An attempt that ends gives up the locks and leaves no modal open.
Finish(a) ==
    /\ Goto(a, "done")
    /\ ReleaseDepositLocks
    /\ UNCHANGED parked

\* assessDepositRetry polls the tree for the pending notes.
Poll(a) ==
    /\ At(a, "poll")
    /\ IF flow[a].aborted \/ flow[a].todo \cap tree # {} THEN Finish(a)
       ELSE Goto(a, "classify") /\ UNCHANGED <<inFlight, abortRef, parked>>
    /\ UNCHANGED <<chainVars, account, vault, tree, scan, cleared, budget>>

Doubt(a, b) == flow' = [flow EXCEPT ![a].todo = @ \ {b}, ![a].ambiguous = TRUE]
Safe(a, b) == flow' = [flow EXCEPT ![a].todo = @ \ {b}, ![a].ruledOut = @ \cup {b}]

\* The receipt of one pending note.  No hash, or an error: ambiguous; mined:
\* blocked; reverted: safe; none: the transaction is asked for next.
Classify(a, b) ==
    /\ At(a, "classify") /\ ~flow[a].aborted /\ b \in flow[a].todo
    /\ \/ ~vault[b].hash /\ Doubt(a, b) /\ UNCHANGED <<inFlight, abortRef, parked, budget>>
       \/ vault[b].hash /\ Doubt(a, b) /\ Spend("errors") /\ UNCHANGED <<inFlight, abortRef, parked>>
       \/ vault[b].hash /\ tx[b].fate = "mined" /\ Finish(a) /\ UNCHANGED budget
       \/ vault[b].hash /\ tx[b].fate = "reverted" /\ Safe(a, b) /\ UNCHANGED <<inFlight, abortRef, parked, budget>>
       \/ /\ vault[b].hash /\ tx[b].fate \in {"pending", "gone"}
          /\ flow' = [flow EXCEPT ![a].asked = b, ![a].pc = "lookup"]
          /\ UNCHANGED <<inFlight, abortRef, parked, budget>>
    /\ UNCHANGED <<chainVars, account, vault, tree, scan, cleared>>

Answered(a, doubt) ==
    LET b == flow[a].asked
        unknown == {c \in {b} : ~doubt /\ ~tx[c].known}
    IN flow' = [flow EXCEPT ![a].todo = @ \ {b}, ![a].ambiguous = @ \/ doubt,
                            ![a].ruledOut = @ \cup unknown, ![a].pc = "classify"]

\* A transaction without a receipt counts as dropped.
LookupSkipped(a) ==
    /\ At(a, "lookup")
    /\ Answered(a, FALSE)
    /\ UNCHANGED <<chainVars, account, vault, inFlight, abortRef, parked, tree, scan, cleared, budget>>

\* getTransaction: one the node knows blocks, one it does not is safe.
Lookup(a) ==
    /\ At(a, "lookup")
    /\ LET known == tx[flow[a].asked].known IN
        \/ known /\ Finish(a) /\ UNCHANGED budget
        \/ ~known /\ Answered(a, FALSE) /\ UNCHANGED <<inFlight, abortRef, parked, budget>>
        \/ Spend("errors") /\ Answered(a, TRUE) /\ UNCHANGED <<inFlight, abortRef, parked>>
    /\ UNCHANGED <<chainVars, account, vault, tree, scan, cleared>>

Verdict(a) ==
    /\ At(a, "classify") /\ (flow[a].aborted \/ flow[a].todo = {})
    /\ CASE flow[a].aborted -> Finish(a)
         [] ~flow[a].aborted /\ flow[a].ambiguous ->
              Goto(a, "confirm") /\ parked' = a /\ UNCHANGED <<inFlight, abortRef>>
         [] OTHER -> Goto(a, "prepare") /\ UNCHANGED <<inFlight, abortRef, parked>>
    /\ UNCHANGED <<chainVars, account, vault, tree, scan, cleared, budget>>

\* The modal that asks whether to deposit again.
Confirm(a) ==
    /\ parked = a /\ At(a, "confirm")
    /\ parked' = 0
    /\ flow' = [flow EXCEPT ![a].pc = "prepare", ![a].confirmed = TRUE]
    /\ UNCHANGED <<chainVars, account, vault, inFlight, abortRef, tree, scan, cleared, budget>>

Decline(a) ==
    /\ parked = a /\ At(a, "confirm")
    /\ parked' = 0 /\ ReleaseDepositLocks
    /\ Goto(a, "done")
    /\ UNCHANGED <<chainVars, account, vault, tree, scan, cleared, budget>>

\* The progress panel's Cancel.
Cancel ==
    /\ abortRef # 0 /\ ~flow[abortRef].aborted /\ ~At(abortRef, "confirm")
    /\ flow' = [flow EXCEPT ![abortRef].aborted = TRUE]
    /\ UNCHANGED <<chainVars, account, vault, inFlight, abortRef, parked, tree, scan, cleared, budget>>

\* The effect that runs when the account changes.
SwitchAccount(acct) ==
    /\ Spend("switches") /\ acct # account
    /\ account' = acct
    /\ IF inFlight \/ parked # 0
       THEN /\ flow' = [a \in Attempts |->
                          [flow[a] EXCEPT !.aborted = @ \/ a = abortRef,
                                          !.pc = IF a = parked THEN "done" ELSE @]]
            /\ parked' = 0 /\ ReleaseDepositLocks
       ELSE UNCHANGED <<flow, parked, inFlight, abortRef>>
    /\ UNCHANGED <<chainVars, vault, tree, scan, cleared>>

-----------------------------------------------------------------------------
(* realDeposit. *)

\* Balance, key, proof, wrap and approve; the abort is looked at between them.
Prepare(a) ==
    /\ At(a, "prepare")
    /\ \/ ~flow[a].aborted /\ Goto(a, "sign") /\ UNCHANGED <<inFlight, abortRef, parked>>
       \/ Finish(a)
    /\ UNCHANGED <<chainVars, account, vault, tree, scan, cleared, budget>>

\* The wallet's prompt: signed, the deposit is out; alone or in a batch,
\* whose hash is not known.
Sign(a, hash) ==
    /\ At(a, "sign")
    /\ tx' = [tx EXCEPT ![a] = [fate |-> "pending", known |-> TRUE, at |-> 0]]
    /\ flow' = [flow EXCEPT ![a].pc = "persist", ![a].hash = hash]
    /\ UNCHANGED <<head, account, vault, inFlight, abortRef, parked, tree, scan, cleared, budget>>

Reject(a) ==
    /\ At(a, "sign")
    /\ Finish(a)
    /\ UNCHANGED <<chainVars, account, vault, tree, scan, cleared, budget>>

\* A late cancel is honoured before the note is stored.
PersistAborting(a) ==
    /\ At(a, "persist")
    /\ IF flow[a].aborted THEN Finish(a) /\ UNCHANGED vault
       ELSE /\ vault' = [vault EXCEPT ![a] = [NoNote EXCEPT !.saved = TRUE, !.hash = flow[a].hash]]
            /\ Goto(a, "wait")
            /\ UNCHANGED <<inFlight, abortRef, parked>>
    /\ UNCHANGED <<chainVars, account, tree, scan, cleared, budget>>

\* vault.add, before the receipt is waited for.
Persist(a) ==
    /\ At(a, "persist")
    /\ vault' = [vault EXCEPT ![a] = [NoNote EXCEPT !.saved = TRUE, !.hash = flow[a].hash]]
    /\ Goto(a, "wait")
    /\ UNCHANGED <<chainVars, account, inFlight, abortRef, parked, tree, scan, cleared, budget>>

\* The folder cannot be written.
PersistFails(a) ==
    /\ At(a, "persist")
    /\ Spend("errors")
    /\ Finish(a)
    /\ UNCHANGED <<chainVars, account, vault, tree, scan, cleared>>

\* The receipt, a cancel, or the time limit on a batch.
Wait(a) ==
    /\ At(a, "wait")
    /\ flow[a].aborted \/ ~flow[a].hash \/ tx[a].fate \in {"mined", "reverted"}
    /\ Finish(a)
    /\ UNCHANGED <<chainVars, account, vault, tree, scan, cleared, budget>>

\* The page is closed or reloaded; a prompt that is open may still be signed.
Reload ==
    /\ Spend("reloads")
    /\ \E signed \in SUBSET {a \in Attempts : At(a, "sign")} :
        tx' = [a \in Attempts |-> IF a \in signed THEN [fate |-> "pending", known |-> TRUE, at |-> 0] ELSE tx[a]]
    /\ flow' = [a \in Attempts |-> IF At(a, "new") THEN flow[a] ELSE [flow[a] EXCEPT !.pc = "done"]]
    /\ inFlight' = FALSE /\ abortRef' = 0 /\ parked' = 0
    /\ tree' = {} /\ scan' = NoScan /\ cleared' = {}
    /\ UNCHANGED <<head, account, vault>>

-----------------------------------------------------------------------------
(* The chain and the public node; time. *)

Block == head < MaxHead /\ head' = head + 1

Mine(a, outcome) ==
    /\ tx[a].fate = "pending"
    /\ Block
    /\ tx' = [tx EXCEPT ![a] = [fate |-> outcome, known |-> TRUE, at |-> head + 1]]
    /\ UNCHANGED <<account, vault, pageVars, tree, scan, cleared, budget>>

EmptyBlock ==
    /\ Block
    /\ UNCHANGED <<tx, account, vault, pageVars, tree, scan, cleared, budget>>

\* The last blocks are replaced; their transactions are pending again.
Reorg(depth) ==
    /\ Spend("reorgs") /\ depth < head
    /\ LET out(a) == tx[a].at > head - depth IN
        /\ \E a \in Attempts : out(a)
        /\ tx' = [a \in Attempts |->
                    IF out(a) THEN [fate |-> "pending", known |-> TRUE, at |-> 0] ELSE tx[a]]
        /\ tree' = {a \in tree : ~out(a)}
    /\ UNCHANGED <<head, account, vault, pageVars, scan, cleared>>

\* The node forgets a pending transaction.
Drop(a) ==
    /\ tx[a].fate = "pending" /\ tx[a].known
    /\ tx' = [tx EXCEPT ![a].known = FALSE, ![a].fate = IF MayReturn THEN "pending" ELSE "gone"]
    /\ UNCHANGED <<head, account, vault, pageVars, tree, scan, cleared, budget>>

\* Ten minutes pass since the note was stored.
Age(a) ==
    /\ vault[a].saved /\ ~vault[a].aged
    /\ vault' = [vault EXCEPT ![a].aged = TRUE]
    /\ UNCHANGED <<chainVars, account, pageVars, tree, scan, cleared, budget>>

Hydrate(a) ==
    /\ tx[a].fate = "mined" /\ a \notin tree
    /\ tree' = tree \cup {a}
    /\ UNCHANGED <<chainVars, account, vault, pageVars, scan, cleared, budget>>

\* The leaf index reconciler, on the notes of the connected account.
Reconcile(a) ==
    /\ a \in tree \cap NotesOf(account) /\ ~vault[a].leaf
    /\ vault' = [vault EXCEPT ![a].leaf = TRUE]
    /\ UNCHANGED <<chainVars, account, pageVars, tree, scan, cleared, budget>>

-----------------------------------------------------------------------------
(* The detector of phantom deposits. *)

ScanHead ==
    /\ scan = NoScan
    /\ LET targets == {a \in NotesOf(account) : IsPendingDeposit(a) /\ vault[a].hash /\ a \notin cleared} IN
        /\ targets # {}
        /\ scan' = [head |-> head, targets |-> targets]
    /\ UNCHANGED <<chainVars, account, vault, pageVars, tree, cleared, budget>>

Confirmed(a) == scan.head - tx[a].at >= MinConfirmations

Decided(fate) == {a \in scan.targets : tx[a].fate = fate /\ Confirmed(a)}

ScanReceipts ==
    /\ scan # NoScan
    /\ vault' = [a \in Attempts |-> [vault[a] EXCEPT !.failed = @ \/ a \in Decided("reverted")]]
    /\ cleared' = cleared \cup Decided("mined")
    /\ scan' = NoScan
    /\ UNCHANGED <<chainVars, account, pageVars, tree, budget>>

AttemptStep(a) ==
    \/ Click(a) \/ Poll(a) \/ Verdict(a) \/ Confirm(a) \/ Decline(a)
    \/ Lookup(a) \/ \E b \in Attempts : Classify(a, b)
    \/ Prepare(a) \/ Reject(a) \/ Persist(a) \/ PersistFails(a) \/ Wait(a)
    \/ \E hash \in BOOLEAN : Sign(a, hash)

ChainStep ==
    \/ \E a \in Attempts : Drop(a) \/ Age(a) \/ Hydrate(a) \/ Reconcile(a)
    \/ \E a \in Attempts : \E outcome \in {"mined", "reverted"} : Mine(a, outcome)
    \/ \E depth \in 1 .. MaxReorgDepth : Reorg(depth)
    \/ EmptyBlock

GuardNext ==
    \/ \E a \in Attempts : AttemptStep(a)
    \/ ChainStep
    \/ Cancel \/ Reload
    \/ \E acct \in Accounts : SwitchAccount(acct)
    \/ ScanHead \/ ScanReceipts

GuardSpec == GuardInit /\ [][GuardNext]_guardVars

-----------------------------------------------------------------------------

\* The shape of the state: a parked attempt waits at the modal, and a note
\* stands for a transaction that was sent.
GuardTypeOK ==
    /\ parked # 0 => At(parked, "confirm")
    /\ \A a \in Attempts : vault[a].saved => tx[a].fate # "none"

\* A double click cannot "start two flows": of the attempts under way at most
\* one has not been told to stop.
OneAttempt == Cardinality({a \in Attempts : Active(a) /\ ~flow[a].aborted}) <= 1

\* A retry does not "lock 2x the funds": when two deposits of an account land,
\* and the earlier one's note was stored, the later one was made with the
\* user's consent, or beside the earlier attempt, or after the node had said
\* that the earlier one reverted or is unknown to it.
RetryIsNeverSilent ==
    \A a, b \in Attempts :
        (/\ a < b /\ flow[a].account = flow[b].account
         /\ vault[a].saved
         /\ tx[a].fate = "mined" /\ tx[b].fate = "mined")
            => flow[b].confirmed \/ a \in flow[b].beside \cup flow[b].ruledOut

\* "Flagging either could strand a real, recoverable deposit": a note marked
\* failed is one whose deposit reverted and, whatever is reorganised, does
\* not land.
FailedNeverLands == \A a \in Attempts : vault[a].failed => tx[a].fate = "reverted"

\* "Lost secrets are unrecoverable": no deposit is on the chain whose attempt
\* has ended without storing the note.
LandedHasNote == \A a \in Attempts : tx[a].fate = "mined" /\ At(a, "done") => vault[a].saved

\* Faults of one kind that have not struck yet.
NeverSwitched == budget.switches = MaxSwitches
NothingFailed == budget.reloads = MaxReloads /\ budget.errors = MaxErrors

\* A deposit reported as failed never lands.  Within one account, one attempt
\* is under way at a time; until the first reload, and when the folder can be
\* written, no deposit lands without its note.
DepositsAreSound ==
    /\ GuardTypeOK /\ FailedNeverLands
    /\ NeverSwitched => OneAttempt
    /\ NothingFailed => LandedHasNote
=============================================================================
