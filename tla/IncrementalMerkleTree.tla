----------------------- MODULE IncrementalMerkleTree -----------------------
(***************************************************************************)
(* The pool's Merkle tree with its ring buffer of historical roots         *)
(* (contracts/src/zk/IncrementalMerkleTree.sol).  Poseidon is modelled as  *)
(* a free binary constructor: two hashes are equal only when their inputs  *)
(* are.  `inserted` is a history variable, the leaves in insertion order.  *)
(***************************************************************************)
EXTENDS Naturals, Sequences

CONSTANTS
    levels,             \* depth of the tree
    ROOT_HISTORY_SIZE,  \* slots of the ring buffer
    LeafValues          \* the non-zero commitments that may be inserted

ASSUME LevelsAssumption == levels \in 1 .. 20
ASSUME HistoryAssumption == ROOT_HISTORY_SIZE \in Nat \ {0}
ASSUME LeafAssumption == 0 \notin LeafValues

VARIABLES
    filledSubtrees,     \* level -> last left node seen at that level
    roots,              \* ring slot -> root, or Unset
    currentRootIndex,   \* slot of the newest root
    nextIndex,          \* index of the next free leaf
    inserted            \* history: every leaf inserted so far

vars == <<filledSubtrees, roots, currentRootIndex, nextIndex, inserted>>

Leaf(v) == <<"leaf", v>>
hashPair(left, right) == <<"node", left, right>>
Unset == <<"unset">>    \* a mapping slot never written; reads as 0

(* zeros[0] = 0 and zeros[i] = hash(zeros[i-1], zeros[i-1]).               *)
zeros[i \in 0 .. levels] ==
    IF i = 0 THEN Leaf(0) ELSE hashPair(zeros[i - 1], zeros[i - 1])

-----------------------------------------------------------------------------
Init ==
    /\ filledSubtrees = [i \in 0 .. levels - 1 |-> zeros[i]]
    /\ roots = [i \in 0 .. ROOT_HISTORY_SIZE - 1 |->
                  IF i = 0 THEN zeros[levels] ELSE Unset]
    /\ currentRootIndex = 0
    /\ nextIndex = 0
    /\ inserted = << >>

(* Mutants of the definitions below.                                       *)
PathIndexMutant(index) == index % 2 = 1
NewRootIndexMutant == IF currentRootIndex + 1 = ROOT_HISTORY_SIZE THEN 1 ELSE currentRootIndex + 1

IsLeftChild(index) == index % 2 = 0
HasRoom == nextIndex < 2 ^ levels

(* The walk of insert: the node at level i on the path of the new leaf,   *)
(* its index at that level, and the left nodes recorded below level i.     *)
Path(leaf) ==
    LET step[i \in 0 .. levels] ==
          IF i = 0 THEN [hash |-> Leaf(leaf), index |-> nextIndex, filled |-> filledSubtrees]
          ELSE LET p == step[i - 1] IN
               IF IsLeftChild(p.index)
               THEN [hash |-> hashPair(p.hash, zeros[i - 1]),
                     index |-> p.index \div 2,
                     filled |-> [p.filled EXCEPT ![i - 1] = p.hash]]
               ELSE [hash |-> hashPair(p.filled[i - 1], p.hash),
                     index |-> p.index \div 2,
                     filled |-> p.filled]
    IN  step[levels]

NewRootIndex == (currentRootIndex + 1) % ROOT_HISTORY_SIZE

insert(leaf) ==
    /\ HasRoom                           \* otherwise TreeFull
    /\ filledSubtrees' = Path(leaf).filled
    /\ currentRootIndex' = NewRootIndex
    /\ roots' = [roots EXCEPT ![NewRootIndex] = Path(leaf).hash]
    /\ nextIndex' = nextIndex + 1
    /\ inserted' = Append(inserted, leaf)

(* The ring is scanned backwards from the newest slot until it comes back. *)
isKnownRoot(root) ==
    LET found[k \in 0 .. ROOT_HISTORY_SIZE] ==
          /\ k < ROOT_HISTORY_SIZE
          /\ \/ roots[(currentRootIndex + ROOT_HISTORY_SIZE - k) % ROOT_HISTORY_SIZE] = root
             \/ found[k + 1]
    IN  root # Unset /\ found[0]

getLastRoot == roots[currentRootIndex]

Next == \E leaf \in LeafValues : insert(leaf)

Spec == Init /\ [][Next]_vars

-----------------------------------------------------------------------------
(* Reference: the root of the full binary tree over a prefix of the        *)
(* inserted leaves, padded with zero leaves.                               *)
ReferenceRoot(n) ==
    LET row[l \in 0 .. levels] ==
          IF l = 0 THEN [i \in Nat |-> Leaf(IF i < n THEN inserted[i + 1] ELSE 0)]
          ELSE [i \in Nat |-> hashPair(row[l - 1][2 * i], row[l - 1][2 * i + 1])]
    IN  row[levels][0]

(* Types of the tree's storage.                                            *)
TypeOK ==
    /\ currentRootIndex \in 0 .. ROOT_HISTORY_SIZE - 1
    /\ nextIndex \in 0 .. 2 ^ levels
    /\ inserted \in Seq(LeafValues)
    /\ DOMAIN filledSubtrees = 0 .. levels - 1
    /\ DOMAIN roots = 0 .. ROOT_HISTORY_SIZE - 1

(* The root that insert computes from the cached left siblings alone is   *)
(* the root of the whole padded tree: a membership proof against           *)
(* getLastRoot() is a proof about every leaf ever inserted.                *)
LastRootIsReference == getLastRoot = ReferenceRoot(Len(inserted))

(* isKnownRoot accepts the root of a past tree exactly when fewer than     *)
(* ROOT_HISTORY_SIZE insertions followed it, whether or not the ring has   *)
(* wrapped around and whatever slots were never written.                   *)
KnownRootsAreTheLast ==
    \A n \in 0 .. Len(inserted) :
        isKnownRoot(ReferenceRoot(n)) <=> Len(inserted) - n < ROOT_HISTORY_SIZE

(* Membership proofs are about the whole tree: the newest root is the root *)
(* of all leaves, and exactly the last roots are accepted.                 *)
RootsAreExact == TypeOK /\ LastRootIsReference /\ KnownRootsAreTheLast

(* The leaves the newest root commits to, read off the tree of hashes.     *)
CommittedLeaves ==
    LET down[d \in 0 .. levels] ==
          IF d = 0 THEN [i \in Nat |-> getLastRoot]
          ELSE [i \in Nat |-> down[d - 1][i \div 2][IF i % 2 = 0 THEN 2 ELSE 3]]
    IN  [k \in 1 .. nextIndex |-> down[levels][k - 1][2]]

(* The contract's tree implements the log the pool is specified with: what *)
(* its newest root commits to starts empty and grows by one leaf at the    *)
(* end with every insertion, and never past the capacity.  The history     *)
(* variable plays no part in the mapping.                                  *)
Log == INSTANCE LeafLog WITH leaves <- CommittedLeaves, Capacity <- 2 ^ levels
ImplementsLog == Log!LogInit /\ [][\E leaf \in LeafValues : Log!LogAppend(leaf)]_vars
=============================================================================
