----------------------------- MODULE LeafChain -----------------------------
(***************************************************************************)
(* The chain as the programs that follow CommitmentInserted events see it: *)
(* blocks that hold leaves in order, replaced from the end by a            *)
(* reorganisation, and read through an endpoint whose replicas may be      *)
(* some blocks behind.  A query of the head and the query of events that   *)
(* follows it may be answered by different replicas.                       *)
(***************************************************************************)
EXTENDS Integers, SequencesExt

CONSTANTS
    Leaves,     \* commitments that may be inserted
    MaxHeight,  \* bound: number of blocks
    MaxDepth,   \* how many blocks a reorganisation may replace
    MaxLeafReorgs,  \* bound: number of reorganisations
    MaxLag      \* bound: how many blocks a replica may be behind

ASSUME LeafChainAssumption == {MaxHeight, MaxDepth, MaxLeafReorgs, MaxLag} \subseteq Nat

VARIABLES
    blocks,     \* the canonical chain: the leaves of each block
    reorgs,     \* reorganisations left
    lag         \* how far behind the replicas of this behaviour may be

leafChainVars == <<blocks, reorgs, lag>>

Absent == "absent"

Height == Len(blocks)

\* The leaves of blocks from .. to, in order of insertion.
LeavesIn(from, to) == FlattenSeq(SubSeq(blocks, from, to))

ChainLeaves == LeavesIn(1, Height)

\* Position, counted from 0, of the first leaf of a block.
FirstIndex(b) == Len(LeavesIn(1, b - 1))

ChainInit == blocks = <<>> /\ reorgs = MaxLeafReorgs /\ lag \in 0 .. MaxLag

Contents(free) == {<<>>} \cup {<<l>> : l \in free}

LeafBlock ==
    /\ Height < MaxHeight
    /\ \E c \in Contents(Leaves \ Range(ChainLeaves)) : blocks' = Append(blocks, c)
    /\ UNCHANGED <<reorgs, lag>>

\* The last blocks are replaced by as many others; their transactions may be
\* in the new blocks, in another order, or pending again.
LeafReorg ==
    /\ reorgs > 0
    /\ \E d \in 1 .. MaxDepth :
        /\ d <= Height
        /\ LET kept == SubSeq(blocks, 1, Height - d)
               free == Leaves \ Range(FlattenSeq(kept))
           IN \E new \in [1 .. d -> Contents(free)] :
                  /\ IsInjective(FlattenSeq(new))
                  /\ blocks' = kept \o new
    /\ blocks' # blocks
    /\ reorgs' = reorgs - 1
    /\ UNCHANGED lag

\* Heads a replica may report, and the events of a range a replica that has
\* the blocks up to h returns: none for the blocks it does not have.
Heads == {h \in 0 .. Height : h >= Height - lag}
Events(from, to, h) == LeavesIn(from, IF to < h THEN to ELSE h)

=============================================================================
