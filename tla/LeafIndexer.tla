---------------------------- MODULE LeafIndexer ----------------------------
(***************************************************************************)
(* The orderbook's indexers: a daemon that scans the chain's events in     *)
(* windows, stores what it finds and its cursor in the database, and never *)
(* looks at a block twice (core/commitment-indexer.ts; core/claim-indexer  *)
(* .ts is the same loop over PrivateClaim events, keyed by nullifier).     *)
(* GET /api/commitments reads the rows at any time.                        *)
(***************************************************************************)
EXTENDS LeafChain

CONSTANTS
    IndexSafetyMargin,  \* confirmations the indexer stays behind the head
    ChunkSize,          \* blocks per window
    MaxPassFailures     \* bound: failed queries and crashes

ASSUME LeafIndexerAssumption ==
    IndexSafetyMargin \in Nat /\ ChunkSize \in Nat \ {0} /\ MaxPassFailures \in Nat

VARIABLES
    leafRows,       \* leaf index -> commitment, or Absent
    cursor,     \* last scanned block; 0, the block before the deployment, for none
    pass,       \* the index pass between its awaits and transactions
    passFailures    \* failed queries and crashes left

indexerVars == <<leafRows, cursor, pass, passFailures>>
indexAll == <<leafChainVars, indexerVars>>

Indices == 0 .. (MaxHeight - 1)
PassIdle == [pc |-> "idle", start |-> 0, end |-> 0, to |-> 0, found |-> <<>>, first |-> 0]

IndexerInit ==
    /\ ChainInit
    /\ leafRows = [i \in Indices |-> Absent]
    /\ cursor = 0
    /\ pass = PassIdle
    /\ passFailures = MaxPassFailures

-----------------------------------------------------------------------------

\* toBlock when the head is reported as latest.
ToBlock(latest) == IF latest > IndexSafetyMargin THEN latest - IndexSafetyMargin ELSE 0

WindowEnd(start, to) == IF start + ChunkSize - 1 < to THEN start + ChunkSize - 1 ELSE to

\* A pass needs more than one new block.
Behind(to) == cursor + 1 < to

\* A pass has something to scan.
SomethingNew(to) == cursor + 1 <= to

\* getBlockNumber, then the first window of the pass starts after the cursor.
StartIndexPass ==
    /\ pass.pc = "idle"
    /\ \E latest \in Heads :
        LET to == ToBlock(latest) IN
        /\ SomethingNew(to)
        /\ pass' = [PassIdle EXCEPT !.pc = "fetch", !.start = cursor + 1, !.to = to,
                                    !.end = WindowEnd(cursor + 1, to)]
    /\ UNCHANGED <<leafChainVars, leafRows, cursor, passFailures>>

\* A cursor that is advanced before the rows are stored.
CursorFirst ==
    /\ pass.pc = "fetch"
    /\ \E h \in Heads :
        pass' = [pass EXCEPT !.pc = "upsert", !.found = Events(pass.start, pass.end, h),
                             !.first = FirstIndex(pass.start)]
    /\ cursor' = pass.end
    /\ UNCHANGED <<leafChainVars, leafRows, passFailures>>

\* The events of the window arrive, with the leaf index each carries.
Fetch ==
    /\ pass.pc = "fetch"
    /\ \E h \in Heads :
        pass' = [pass EXCEPT !.pc = "upsert", !.found = Events(pass.start, pass.end, h),
                             !.first = FirstIndex(pass.start)]
    /\ UNCHANGED <<leafChainVars, leafRows, cursor, passFailures>>

\* upsertCommitments, one transaction, keyed by leaf index.
Upsert ==
    /\ pass.pc = "upsert"
    /\ leafRows' = [i \in Indices |->
                   IF i - pass.first + 1 \in DOMAIN pass.found THEN pass.found[i - pass.first + 1]
                                                               ELSE leafRows[i]]
    /\ pass' = [pass EXCEPT !.pc = "cursor"]
    /\ UNCHANGED <<leafChainVars, cursor, passFailures>>

NextWindow ==
    IF pass.end = pass.to THEN PassIdle
    ELSE [PassIdle EXCEPT !.pc = "fetch", !.start = pass.end + 1, !.to = pass.to,
                          !.end = WindowEnd(pass.end + 1, pass.to)]

\* setCommitmentCursor, a transaction of its own, then the next window.
SetCursor ==
    /\ pass.pc = "cursor"
    /\ cursor' = pass.end
    /\ pass' = NextWindow
    /\ UNCHANGED <<leafChainVars, leafRows, passFailures>>

\* A query throws, or the daemon dies between two steps.
PassLost ==
    /\ passFailures > 0
    /\ pass.pc # "idle"
    /\ pass' = PassIdle
    /\ passFailures' = passFailures - 1
    /\ UNCHANGED <<leafChainVars, leafRows, cursor>>

IndexerStep == StartIndexPass \/ Fetch \/ Upsert \/ SetCursor \/ PassLost

IndexerNext == ((LeafBlock \/ LeafReorg) /\ UNCHANGED indexerVars) \/ IndexerStep

\* Blocks are produced, and the daemon's loop makes progress.
IndexerFairness ==
    /\ WF_indexAll(LeafBlock /\ UNCHANGED indexerVars)
    /\ WF_indexAll(StartIndexPass) /\ WF_indexAll(Fetch) /\ WF_indexAll(Upsert) /\ WF_indexAll(SetCursor)

IndexerSpec == IndexerInit /\ [][IndexerNext]_indexAll /\ IndexerFairness

-----------------------------------------------------------------------------

\* The type invariant of the indexer; a pass works on the window that follows
\* the cursor.
IndexerTypeOK ==
    /\ leafRows \in [Indices -> Leaves \cup {Absent}]
    /\ cursor \in 0 .. MaxHeight
    /\ pass.pc \in {"idle", "fetch", "upsert", "cursor"}
    /\ pass.found \in Seq(Leaves)
    /\ pass.pc # "idle" => /\ pass.start = cursor + 1
                           /\ pass.start <= pass.end /\ pass.end <= pass.to

\* No gap: every leaf of the blocks up to the cursor is stored at its index,
\* although those blocks are never scanned again, whatever crashes, failed
\* queries, replicas that lag and reorganisations there were.
ScannedIsStored ==
    LET scanned == LeavesIn(1, cursor)
    IN \A i \in DOMAIN scanned : leafRows[i - 1] = scanned[i]

\* No row is of an abandoned block: what clients are served is a part of the
\* canonical tree.
ServedIsCanonical ==
    \A i \in Indices : leafRows[i] # Absent => i < Len(ChainLeaves) /\ leafRows[i] = ChainLeaves[i + 1]

\* What the orderbook keeps of the chain is a part of the canonical tree,
\* without gaps up to the cursor.
IndexIsCanonical == IndexerTypeOK /\ ScannedIsStored /\ ServedIsCanonical

\* A leaf that has its confirmations is served in the end.
EveryLeafServed ==
    \A l \in Leaves :
        l \in Range(LeavesIn(1, ToBlock(Height))) ~> (\E i \in Indices : leafRows[i] = l)

=============================================================================
