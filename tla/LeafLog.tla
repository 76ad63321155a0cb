------------------------------ MODULE LeafLog ------------------------------
(***************************************************************************)
(* What the pool relies on when it talks to its Merkle tree: an append     *)
(* only log of leaves, of bounded capacity, in which every prefix is       *)
(* named by a root and only the last ROOT_HISTORY_SIZE prefixes are still  *)
(* accepted.  A root is represented by the length of the prefix it         *)
(* commits to; IncrementalMerkleTree shows that the contract's hashes and  *)
(* its ring buffer implement exactly this.                                 *)
(***************************************************************************)
EXTENDS Naturals, Sequences

CONSTANTS
    Capacity,           \* number of leaves the tree can hold, 2 ^ levels
    ROOT_HISTORY_SIZE   \* number of roots the ring buffer remembers

ASSUME CapacityAssumption == Capacity \in Nat
ASSUME RootHistoryAssumption == ROOT_HISTORY_SIZE \in Nat \ {0}

VARIABLE leaves         \* the inserted leaves, oldest first

-----------------------------------------------------------------------------
(* Mutants of the definitions below.                                       *)
IsKnownRootMutant(root) == root < Len(leaves) /\ Len(leaves) - root < ROOT_HISTORY_SIZE

(* The log after the leaves of the sequence ls are inserted.  Inserting    *)
(* past the capacity reverts the whole transaction (TreeFull).             *)
HasRoomFor(ls) == Len(leaves) + Len(ls) <= Capacity
Appended(ls) == leaves \o ls

(* A root commits to a prefix of the log; it is known while fewer than     *)
(* ROOT_HISTORY_SIZE insertions followed it.                               *)
Roots == 0 .. Len(leaves)
IsKnownRoot(root) == root \in Roots /\ Len(leaves) - root < ROOT_HISTORY_SIZE

(* What a membership proof against root shows: leaf is in that prefix.     *)
MemberUnder(leaf, root) == \E i \in 1 .. root : leaves[i] = leaf

-----------------------------------------------------------------------------
LogInit == leaves = << >>
LogAppend(leaf) == HasRoomFor(<<leaf>>) /\ leaves' = Appended(<<leaf>>)
=============================================================================
