--------------------------- MODULE CommitmentScan ---------------------------
(***************************************************************************)
(* The mobile client's checkpointed scanner (mobile/src/lib/commitmentScan *)
(* .ts).  It persists the leaves of the blocks that have their             *)
(* confirmations, queries the tail after them again on every scan, keeps   *)
(* the result in memory for a short time, and lets concurrent callers      *)
(* share one scan.  Block 0 is the block before the deployment, so an      *)
(* empty store is a checkpoint at block 0.                                 *)
(***************************************************************************)
EXTENDS LeafChain

CONSTANTS
    CONFIRMATIONS,  \* blocks at the end that are never persisted
    MaxFailures     \* bound: failed queries, failed writes and restarts of the app

ASSUME ScanAssumption == CONFIRMATIONS \in Nat \ {0} /\ MaxFailures \in Nat

VARIABLES
    persisted,  \* [lastBlock, leaves] in AsyncStorage
    memCache,   \* leaves of the last result
    fresh,      \* the result is younger than CACHE_TTL_MS
    scan,       \* the scan in flight, between its awaits
    failures

scanVars == <<persisted, memCache, fresh, scan, failures>>
scanAll == <<leafChainVars, scanVars>>

NoScan == [pc |-> "idle", latest |-> 0, leaves |-> <<>>]

ScanInit ==
    /\ ChainInit
    /\ persisted = [lastBlock |-> 0, leaves |-> <<>>]
    /\ memCache = <<>>
    /\ fresh = FALSE
    /\ scan = NoScan
    /\ failures = MaxFailures

-----------------------------------------------------------------------------

Confirmed(latest) == IF latest > CONFIRMATIONS THEN latest - CONFIRMATIONS ELSE 0

\* The lagging-RPC guard: the node is behind the checkpoint.
NodeBehind(latest) == latest < persisted.lastBlock

needConfirmedScan(latest) == persisted.lastBlock < Confirmed(latest)
needTailScan(latest) == Confirmed(latest) < latest

\* The scan ends and its callers get the leaves.
Return(leaves) ==
    /\ memCache' = leaves
    /\ fresh' = TRUE
    /\ scan' = NoScan

\* A call that finds no fresh result and no scan in flight: the checkpoint is
\* loaded and the head is read.
StartScan ==
    /\ scan.pc = "idle" /\ ~fresh
    /\ \E latest \in Heads :
        \/ /\ \/ NodeBehind(latest)
              \/ ~needConfirmedScan(latest) /\ ~needTailScan(latest)
           /\ Return(persisted.leaves)
        \/ /\ ~NodeBehind(latest)
           /\ needConfirmedScan(latest) \/ needTailScan(latest)
           /\ scan' = [pc |-> IF needConfirmedScan(latest) THEN "confirmed" ELSE "tail",
                       latest |-> latest, leaves |-> persisted.leaves]
           /\ UNCHANGED <<memCache, fresh>>
    /\ UNCHANGED <<leafChainVars, persisted, failures>>

\* The blocks that gained their confirmations are scanned and saved; a write
\* that fails is ignored.
ScanConfirmed ==
    /\ scan.pc = "confirmed"
    /\ \E h \in Heads :
        LET to     == Confirmed(scan.latest)
            leaves == scan.leaves \o Events(persisted.lastBlock + 1, to, h)
        IN /\ scan' = [scan EXCEPT !.pc = "tail", !.leaves = leaves]
           /\ \/ persisted' = [lastBlock |-> to, leaves |-> leaves] /\ UNCHANGED failures
              \/ failures > 0 /\ failures' = failures - 1 /\ UNCHANGED persisted
    /\ UNCHANGED <<leafChainVars, memCache, fresh>>

\* A tail that starts at the last confirmed block.
TailOverlapping(h) == Events(IF Confirmed(scan.latest) = 0 THEN 1 ELSE Confirmed(scan.latest), scan.latest, h)

TailLeaves(h) == Events(Confirmed(scan.latest) + 1, scan.latest, h)

ScanTail ==
    /\ scan.pc = "tail"
    /\ \E h \in Heads : Return(scan.leaves \o TailLeaves(h))
    /\ UNCHANGED <<leafChainVars, persisted, failures>>

\* CACHE_TTL_MS passes.
Expire ==
    /\ fresh
    /\ fresh' = FALSE
    /\ UNCHANGED <<leafChainVars, persisted, memCache, scan, failures>>

\* A query throws and the scan ends without a result.
ScanFails ==
    /\ failures > 0 /\ scan.pc # "idle"
    /\ scan' = NoScan
    /\ failures' = failures - 1
    /\ UNCHANGED <<leafChainVars, persisted, memCache, fresh>>

ScanStep == StartScan \/ ScanConfirmed \/ ScanTail \/ Expire \/ ScanFails

ScanNext == ((LeafBlock \/ LeafReorg) /\ UNCHANGED scanVars) \/ ScanStep

\* Screens keep calling, queries are answered and time passes.
ScanFairness ==
    /\ WF_scanAll(StartScan) /\ WF_scanAll(ScanConfirmed) /\ WF_scanAll(ScanTail)
    /\ WF_scanAll(Expire)

ScanSpec == ScanInit /\ [][ScanNext]_scanAll /\ ScanFairness

-----------------------------------------------------------------------------

\* The checkpoint is exactly the canonical chain up to its block, although a
\* block is never scanned again once it is in it: reorganisations and lag
\* within the confirmations, failed writes and broken scans do not touch it.
PersistedIsCanonical == persisted.leaves = LeavesIn(1, persisted.lastBlock)

\* What a scan returns is the canonical sequence of leaves from the first, so
\* that position is leaf index: nothing is missing, repeated or moved.
ReturnsPrefix == memCache' # memCache => IsPrefix(memCache', ChainLeaves)

\* The scanner follows the chain: in its checkpoint always, in its results
\* when no replica lags (a tail behind a checkpoint that another replica
\* answered may repeat leaves).
ScanFollowsTheChain == []PersistedIsCanonical /\ [][lag = 0 => ReturnsPrefix]_scanAll

\* "Reorgs inside this window self-heal on the next scan": when the chain has
\* settled the result becomes the chain's leaves and stays so.
SelfHeals == <>[](memCache = ChainLeaves)

=============================================================================
