----------------------------- MODULE LeafProofs -----------------------------
(***************************************************************************)
(* Proofs about the leaves of the pool: the contract's Merkle tree         *)
(* (IncrementalMerkleTree.tla), the orderbook's copy of its leaf events    *)
(* (LeafIndexer.tla) and the wallet's scan of them with the notes that    *)
(* are numbered by it (CommitmentScan.tla, NoteSync.tla).                  *)
(***************************************************************************)
EXTENDS LeafIndexer, NoteSync, IncrementalMerkleTree, SequenceTheorems,
        FiniteSetTheorems, FunctionTheorems, WellFoundedInduction, TLAPS

(* A non-empty set of naturals has a least element; inductions over data   *)
(* are proved from this.                                                   *)
LEMMA LeastExists ==
  ASSUME NEW T, T \subseteq Nat, T # {}
  PROVE  \E x \in T : \A y \in T : x <= y
<1>1. PICK R : IsWellFoundedOn(R, Nat) /\ \A x, y \in Nat : y < x => <<y, x>> \in R
  <2> DEFINE R == OpToRel(<, Nat)
  <2>1. IsWellFoundedOn(R, Nat)
    BY NatLessThanWellFounded
  <2>2. \A x, y \in Nat : y < x => <<y, x>> \in R
    BY Zenon DEF OpToRel
  <2> HIDE DEF R
  <2>q. QED BY <2>1, <2>2
<1>2. PICK x \in T : \A y \in T : ~ (<<y, x>> \in R)
  BY <1>1, WFMin
<1>3. \A y \in T : ~(y < x)
  BY <1>1, <1>2
<1>q. QED BY <1>3

(* Induction over the naturals, for the set of the numbers that have the   *)
(* property.                                                               *)
LEMMA SetInduction ==
  ASSUME NEW P, 0 \in P, \A n \in Nat : n \in P => n + 1 \in P
  PROVE  \A n \in Nat : n \in P
<1> SUFFICES ASSUME {n \in Nat : n \notin P} # {} PROVE FALSE
  OBVIOUS
<1> DEFINE T == {n \in Nat : n \notin P}
<1>1. T \subseteq Nat /\ T # {}
  OBVIOUS
<1> HIDE DEF T
<1>2. PICK x \in T : \A y \in T : x <= y
  BY <1>1, LeastExists
<1>3. x \in Nat /\ x \notin P /\ x # 0
  BY DEF T
<1>4. x - 1 \in Nat /\ x - 1 \notin T
  BY <1>2, <1>3
<1>5. x - 1 \in P
  BY <1>4 DEF T
<1>q. QED BY <1>3, <1>4, <1>5

FlatRec(s, n, f) == f = [i \in 1 .. n |-> IF i = 1 THEN s[i] ELSE f[i - 1] \o s[i]]

(* The concatenations of the first i members of s: as a recursive          *)
(* function, and by its values.                                            *)
LEMMA FlatRecValues ==
  ASSUME NEW s, NEW n \in Nat, NEW f
  PROVE  FlatRec(s, n, f) <=>
            /\ f = [i \in 1 .. n |-> f[i]]
            /\ n > 0 => f[1] = s[1]
            /\ \A i \in 1 .. n - 1 : f[i + 1] = f[i] \o s[i + 1]
<1> DEFINE V(i) == IF i = 1 THEN s[i] ELSE f[i - 1] \o s[i]
<1>1. FlatRec(s, n, f) <=> f = [i \in 1 .. n |-> V(i)]
  BY DEF FlatRec
<1>2. ASSUME FlatRec(s, n, f)
      PROVE  /\ f = [i \in 1 .. n |-> f[i]]
             /\ n > 0 => f[1] = s[1]
             /\ \A i \in 1 .. n - 1 : f[i + 1] = f[i] \o s[i + 1]
  <2> HIDE DEF V
  <2>1. f = [i \in 1 .. n |-> V(i)]
    BY <1>1, <1>2
  <2>2. \A i \in 1 .. n : f[i] = V(i)
    BY <2>1
  <2>3. f = [i \in 1 .. n |-> f[i]]
    BY <2>1
  <2>4. n > 0 => f[1] = s[1]
    BY <2>2 DEF V
  <2>5. ASSUME NEW i \in 1 .. n - 1 PROVE f[i + 1] = f[i] \o s[i + 1]
    <3>1. PICK j \in 1 .. n : j = i + 1 /\ j # 1 /\ j - 1 = i
      OBVIOUS
    <3>2. V(j) = f[j - 1] \o s[j]
      BY Zenon, <3>1 DEF V
    <3>3. f[j] = f[j - 1] \o s[j]
      BY <2>2, <3>2
    <3>q. QED BY <3>1, <3>3
  <2>q. QED BY <2>3, <2>4, <2>5
<1>3. ASSUME f = [i \in 1 .. n |-> f[i]],
             n > 0 => f[1] = s[1],
             \A i \in 1 .. n - 1 : f[i + 1] = f[i] \o s[i + 1]
      PROVE  FlatRec(s, n, f)
  <2>1. ASSUME NEW i \in 1 .. n PROVE f[i] = V(i)
    <3>1. CASE i = 1
      BY <1>3, <3>1
    <3>2. CASE i # 1
      <4>1. i - 1 \in 1 .. n - 1 /\ i - 1 + 1 = i
        BY <3>2
      <4>q. QED BY <1>3, <3>2, <4>1
    <3>q. QED BY <3>1, <3>2
  <2> HIDE DEF V
  <2>2. f = [i \in 1 .. n |-> V(i)]
    BY <1>3, <2>1
  <2>q. QED BY <1>1, <2>2
<1>q. QED BY <1>2, <1>3

(* The values of that function.                                            *)
LEMMA FlatRecGives ==
  ASSUME NEW s, NEW n \in Nat, NEW f, FlatRec(s, n, f)
  PROVE  /\ n > 0 => f[1] = s[1]
         /\ \A i \in 1 .. n - 1 : f[i + 1] = f[i] \o s[i + 1]
  BY FlatRecValues

(* Such a function exists for every length.                                *)
LEMMA FlatRecExists ==
  ASSUME NEW s
  PROVE  \A n \in Nat : \E f : FlatRec(s, n, f)
<1> DEFINE P == {k \in Nat : \E f : FlatRec(s, k, f)}
<1>1. 0 \in P
  <2> DEFINE f == [i \in 1 .. 0 |-> 0]
  <2>1. FlatRec(s, 0, f)
    BY DEF FlatRec
  <2>q. QED BY <2>1
<1>2. ASSUME NEW k \in Nat, k \in P PROVE k + 1 \in P
  <2>1. PICK f : FlatRec(s, k, f)
    BY <1>2
  <2>0. PICK m \in Nat : m = k + 1 /\ m # 0 /\ m \in 1 .. m
    OBVIOUS
  <2>a. PICK last : last = IF k = 0 THEN s[m] ELSE f[k] \o s[m]
    OBVIOUS
  <2> DEFINE g == [i \in 1 .. m |-> IF i = m THEN last ELSE f[i]]
  <2>2. /\ g = [i \in 1 .. m |-> g[i]]
        /\ \A i \in 1 .. k : g[i] = f[i]
        /\ g[m] = last
    BY <2>0
  <2> HIDE DEF g
  <2>3. /\ k > 0 => f[1] = s[1]
        /\ \A i \in 1 .. k - 1 : f[i + 1] = f[i] \o s[i + 1]
    BY <2>1, FlatRecValues
  <2>4. m > 0 => g[1] = s[1]
    <3>1. CASE k = 0
      BY <2>0, <2>a, <2>2, <3>1
    <3>2. CASE k # 0
      <4>1. 1 \in 1 .. k /\ k > 0
        BY <3>2
      <4>q. QED BY <2>2, <2>3, <4>1
    <3>q. QED BY <3>1, <3>2
  <2>5. ASSUME NEW i \in 1 .. m - 1 PROVE g[i + 1] = g[i] \o s[i + 1]
    <3>1. CASE i = k
      <4>1. k # 0 /\ k \in 1 .. k /\ i + 1 = m
        BY <2>0, <3>1
      <4>2. last = f[k] \o s[m]
        BY <2>a, <4>1, Zenon
      <4>3. g[m] = last /\ g[i] = f[k]
        BY <2>2, <3>1, <4>1, Zenon
      <4>q. QED BY <4>1, <4>2, <4>3, Zenon
    <3>2. CASE i # k
      <4>1. i \in 1 .. k - 1 /\ i + 1 \in 1 .. k /\ i \in 1 .. k
        BY <2>0, <3>2
      <4>2. g[i + 1] = f[i + 1] /\ g[i] = f[i]
        BY <2>2, <4>1
      <4>q. QED BY <2>3, <4>1, <4>2
    <3>q. QED BY <3>1, <3>2
  <2>6. FlatRec(s, m, g)
    BY <2>2, <2>4, <2>5, FlatRecValues
  <2>7. m \in P
    BY <2>6
  <2>q. QED BY <2>0, <2>7
<1> HIDE DEF P
<1>3. \A n \in Nat : n \in P
  BY <1>1, <1>2, SetInduction
<1>q. QED BY <1>3 DEF P

(* It depends on nothing but the members of the sequence.                  *)
LEMMA FlatRecUnique ==
  ASSUME NEW s, NEW t, NEW f, NEW g, NEW n \in Nat, NEW k \in Nat,
         FlatRec(s, n, f), FlatRec(t, k, g), k <= n,
         \A i \in 1 .. k : s[i] = t[i]
  PROVE  \A i \in 1 .. k : f[i] = g[i]
<1>a. /\ n > 0 => f[1] = s[1]
      /\ \A i \in 1 .. n - 1 : f[i + 1] = f[i] \o s[i + 1]
  BY FlatRecGives
<1>b. /\ k > 0 => g[1] = t[1]
      /\ \A i \in 1 .. k - 1 : g[i + 1] = g[i] \o t[i + 1]
  BY FlatRecGives
<1> DEFINE P == {j \in Nat : j \in 1 .. k => f[j] = g[j]}
<1>1. 0 \in P
  OBVIOUS
<1>2. ASSUME NEW j \in Nat, j \in P PROVE j + 1 \in P
  <2> SUFFICES ASSUME j + 1 \in 1 .. k PROVE f[j + 1] = g[j + 1]
    OBVIOUS
  <2>2. s[j + 1] = t[j + 1]
    OBVIOUS
  <2>3. CASE j = 0
    <3>1. j + 1 = 1 /\ n > 0 /\ k > 0
      BY <2>3
    <3>q. QED BY <1>a, <1>b, <2>2, <3>1, Zenon
  <2>4. CASE j # 0
    <3>1. j \in 1 .. k /\ j \in 1 .. n - 1 /\ j \in 1 .. k - 1
      BY <2>4
    <3>2. f[j + 1] = f[j] \o s[j + 1] /\ g[j + 1] = g[j] \o t[j + 1]
      BY <1>a, <1>b, <3>1, Zenon
    <3>3. f[j] = g[j]
      BY <1>2, <3>1, Zenon
    <3>q. QED BY <2>2, <3>2, <3>3, Zenon
  <2>q. QED BY <2>3, <2>4
<1> HIDE DEF P
<1>3. \A j \in Nat : j \in P
  BY <1>1, <1>2, SetInduction
<1>q. QED BY <1>3 DEF P

(* FlattenSeq is the last value of that function.                          *)
LEMMA FlattenFrom ==
  ASSUME NEW s, NEW n \in Nat \ {0}, n = Len(s), NEW f, FlatRec(s, n, f)
  PROVE  FlattenSeq(s) = f[n]
<1>1. FlattenSeq(s) = (CHOOSE g : FlatRec(s, n, g))[n]
  BY DEF FlattenSeq, FlatRec
<1> DEFINE g == CHOOSE h : FlatRec(s, n, h)
<1>2. FlatRec(s, n, g)
  OBVIOUS
<1>3. FlattenSeq(s) = g[n]
  BY <1>1
<1> HIDE DEF g
<1>4. \A i \in 1 .. n : f[i] = g[i]
  BY <1>2, FlatRecUnique
<1>q. QED BY <1>3, <1>4

(* Nothing flattens to nothing.                                            *)
LEMMA FlattenEmpty == FlattenSeq(<<>>) = <<>>
  BY DEF FlattenSeq

(* The function and its values, picked together.                           *)
LEMMA FlatRecOf ==
  ASSUME NEW s, NEW n \in Nat
  PROVE  \E f : /\ FlatRec(s, n, f)
                /\ n > 0 => f[1] = s[1]
                /\ \A i \in 1 .. n - 1 : f[i + 1] = f[i] \o s[i + 1]
<1>1. PICK f : FlatRec(s, n, f)
  BY FlatRecExists
<1>2. /\ n > 0 => f[1] = s[1]
      /\ \A i \in 1 .. n - 1 : f[i + 1] = f[i] \o s[i + 1]
  BY <1>1, FlatRecGives
<1>q. QED BY <1>1, <1>2

(* A sequence with one more member flattens to the rest followed by that   *)
(* member.                                                                 *)
LEMMA FlattenStep ==
  ASSUME NEW s, NEW t, NEW n \in Nat \ {0}, NEW m \in Nat, m = n + 1,
         Len(s) = n, Len(t) = m, \A i \in 1 .. n : t[i] = s[i]
  PROVE  FlattenSeq(t) = FlattenSeq(s) \o t[m]
<1>0. n \in Nat /\ m \in Nat \ {0} /\ n <= m /\ n \in 1 .. n /\ n \in 1 .. m - 1
  OBVIOUS
<1>1. PICK f : /\ FlatRec(t, m, f)
               /\ m > 0 => f[1] = t[1]
               /\ \A i \in 1 .. m - 1 : f[i + 1] = f[i] \o t[i + 1]
  BY FlatRecOf
<1>2. PICK g : FlatRec(s, n, g)
  BY <1>0, FlatRecExists
<1>3. FlattenSeq(t) = f[m] /\ FlattenSeq(s) = g[n]
  BY <1>0, <1>1, <1>2, FlattenFrom
<1>4. \A i \in 1 .. n : f[i] = g[i]
  BY <1>0, <1>1, <1>2, FlatRecUnique
<1>5. \A i \in 1 .. m - 1 : f[i + 1] = f[i] \o t[i + 1]
  BY <1>1
<1>6. f[n + 1] = f[n] \o t[n + 1] /\ f[n] = g[n]
  BY <1>0, <1>4, <1>5, Zenon
<1>q. QED BY <1>3, <1>6

(* The same for Append.                                                    *)
LEMMA FlattenAppend ==
  ASSUME NEW S, NEW s \in Seq(Seq(S)), NEW x \in Seq(S)
  PROVE  FlattenSeq(Append(s, x)) = FlattenSeq(s) \o x
<1>1. PICK n \in Nat : n = Len(s) /\ DOMAIN s = 1 .. n
  OBVIOUS
<1>2. PICK m \in Nat : m = n + 1 /\ m # 0
  OBVIOUS
<1>3. PICK u : u = s
  OBVIOUS
<1>4. PICK t : t = Append(u, x)
  OBVIOUS
<1>5. Len(t) = m /\ Len(u) = n /\ (\A i \in 1 .. n : t[i] = u[i]) /\ t[m] = x
  BY <1>1, <1>2, <1>3, <1>4, AppendProperties
<1>6. CASE n = 0
  <2>1. s = <<>>
    BY <1>1, <1>6
  <2>2. <<>> \o x = x
    OBVIOUS
  <2>3. PICK f : FlatRec(t, m, f)
    BY FlatRecExists
  <2>4. FlattenSeq(t) = f[m]
    BY <1>5, <1>2, <2>3, FlattenFrom
  <2>5. m > 0 => f[1] = t[1]
    BY <2>3, FlatRecValues
  <2>6. m = 1
    BY <1>2, <1>6
  <2>q. QED BY <1>3, <1>4, <1>5, <2>1, <2>2, <2>4, <2>5, <2>6, FlattenEmpty
<1>7. CASE n # 0
  <2>1. FlattenSeq(t) = FlattenSeq(u) \o t[m]
    BY <1>2, <1>5, <1>7, FlattenStep
  <2>q. QED BY <1>3, <1>4, <1>5, <2>1, Zenon
<1>q. QED BY <1>6, <1>7

(* Induction over sequences, by their length, for the set of those that    *)
(* have the property.                                                      *)
LEMMA SeqInduction ==
  ASSUME NEW S, NEW P, <<>> \in P,
         \A s \in Seq(S), x \in S : s \in P => Append(s, x) \in P
  PROVE  \A s \in Seq(S) : s \in P
<1> DEFINE Q == {n \in Nat : \A s \in Seq(S) : Len(s) = n => s \in P}
<1>1. 0 \in Q
  <2>1. ASSUME NEW s \in Seq(S), Len(s) = 0 PROVE s \in P
    <3>1. s = <<>>
      BY <2>1
    <3>q. QED BY <3>1
  <2>q. QED BY <2>1
<1>2. ASSUME NEW n \in Nat, n \in Q PROVE n + 1 \in Q
  <2>1. ASSUME NEW s \in Seq(S), Len(s) = n + 1 PROVE s \in P
    <3>1. PICK t \in Seq(S), x \in S : s = Append(t, x) /\ Len(t) = n
      <4>1. s # <<>>
        BY <2>1
      <4>2. s[Len(s)] \in S
        BY <2>1
      <4>3. SubSeq(s, 1, Len(s) - 1) \in Seq(S) /\ Len(SubSeq(s, 1, Len(s) - 1)) = n
        BY <2>1, SubSeqProperties
      <4>4. s = Append(SubSeq(s, 1, Len(s) - 1), s[Len(s)])
        BY <4>1, <2>1
      <4>q. QED BY <4>2, <4>3, <4>4
    <3>2. t \in P
      BY <1>2, <3>1
    <3>q. QED BY <3>1, <3>2
  <2>q. QED BY <2>1
<1> HIDE DEF Q
<1>3. \A n \in Nat : n \in Q
  BY <1>1, <1>2, SetInduction
<1>4. ASSUME NEW s \in Seq(S) PROVE s \in P
  <2>1. Len(s) \in Nat
    OBVIOUS
  <2>2. Len(s) \in Q
    BY <1>3, <2>1
  <2>q. QED BY <2>2 DEF Q
<1>q. QED BY <1>4

(* Flattened sequences of sequences over S are sequences over S.           *)
LEMMA FlattenType ==
  ASSUME NEW S
  PROVE  \A s \in Seq(Seq(S)) : FlattenSeq(s) \in Seq(S)
<1> DEFINE P == {s \in Seq(Seq(S)) : FlattenSeq(s) \in Seq(S)}
<1>1. <<>> \in P
  <2>1. <<>> \in Seq(Seq(S)) /\ <<>> \in Seq(S)
    OBVIOUS
  <2>2. FlattenSeq(<<>>) \in Seq(S)
    BY <2>1, FlattenEmpty
  <2>q. QED BY <2>1, <2>2, Zenon
<1>2. ASSUME NEW s \in Seq(Seq(S)), NEW x \in Seq(S), s \in P PROVE Append(s, x) \in P
  <2>1. FlattenSeq(Append(s, x)) = FlattenSeq(s) \o x
    BY FlattenAppend
  <2>2. FlattenSeq(s) \in Seq(S)
    BY <1>2
  <2>3. FlattenSeq(s) \o x \in Seq(S)
    BY <2>2
  <2>4. Append(s, x) \in Seq(Seq(S)) /\ FlattenSeq(Append(s, x)) \in Seq(S)
    BY <2>1, <2>3
  <2>q. QED BY <2>4, Zenon
<1> HIDE DEF P
<1>3. \A s \in Seq(Seq(S)) : s \in P
  BY <1>1, <1>2, SeqInduction
<1>q. QED BY <1>3 DEF P

(* FlattenSeq distributes over concatenation.                              *)
LEMMA FlattenConcat ==
  ASSUME NEW S, NEW s \in Seq(Seq(S))
  PROVE  \A t \in Seq(Seq(S)) : FlattenSeq(s \o t) = FlattenSeq(s) \o FlattenSeq(t)
<1> DEFINE P == {t \in Seq(Seq(S)) : FlattenSeq(s \o t) = FlattenSeq(s) \o FlattenSeq(t)}
<1>0. FlattenSeq(s) \in Seq(S)
  BY FlattenType
<1>1. <<>> \in P
  <2>1. s \o <<>> = s
    OBVIOUS
  <2>2. FlattenSeq(s) \o <<>> = FlattenSeq(s)
    BY <1>0
  <2>3. <<>> \in Seq(Seq(S)) /\ FlattenSeq(<<>>) = <<>>
    BY FlattenEmpty
  <2>4. FlattenSeq(s \o <<>>) = FlattenSeq(s) \o FlattenSeq(<<>>)
    BY <2>1, <2>2, <2>3
  <2>q. QED BY <2>3, <2>4, Zenon
<1>2. ASSUME NEW t \in Seq(Seq(S)), NEW x \in Seq(S), t \in P PROVE Append(t, x) \in P
  <2>1. s \o Append(t, x) = Append(s \o t, x)
    OBVIOUS
  <2>2. s \o t \in Seq(Seq(S)) /\ FlattenSeq(t) \in Seq(S)
    BY FlattenType
  <2>3. FlattenSeq(Append(s \o t, x)) = FlattenSeq(s \o t) \o x
    BY <2>2, FlattenAppend
  <2>4. FlattenSeq(Append(t, x)) = FlattenSeq(t) \o x
    BY FlattenAppend
  <2>5. FlattenSeq(s \o t) = FlattenSeq(s) \o FlattenSeq(t)
    BY <1>2
  <2>6. (FlattenSeq(s) \o FlattenSeq(t)) \o x = FlattenSeq(s) \o (FlattenSeq(t) \o x)
    BY <1>0, <2>2
  <2>7. FlattenSeq(s \o Append(t, x)) = FlattenSeq(s) \o FlattenSeq(Append(t, x))
    BY <2>1, <2>3, <2>4, <2>5, <2>6, Zenon
  <2>8. Append(t, x) \in Seq(Seq(S))
    OBVIOUS
  <2>q. QED BY <2>7, <2>8, Zenon
<1> HIDE DEF P
<1>3. \A t \in Seq(Seq(S)) : t \in P
  BY <1>1, <1>2, SeqInduction
<1>q. QED BY <1>3 DEF P

-----------------------------------------------------------------------------
(* The leaves of the first k blocks of b.                                  *)
Upto(b, k) == FlattenSeq(SubSeq(b, 1, k))

(* A block holds at most one leaf.                                         *)
LEMMA ContentsType ==
  ASSUME NEW S, NEW x \in Contents(S)
  PROVE  x \in Seq(S) /\ Len(x) <= 1
<1>1. CASE x = <<>>
  BY <1>1
<1>2. CASE x # <<>>
  <2>1. PICK l \in S : x = <<l>>
    BY <1>2 DEF Contents
  <2>2. <<l>> \in Seq(S) /\ Len(<<l>>) = 1
    OBVIOUS
  <2>q. QED BY <2>1, <2>2
<1>q. QED BY <1>1, <1>2

(* A chain is a sequence of sequences of leaves.                           *)
LEMMA BlocksType ==
  ASSUME NEW S, NEW s \in Seq(Contents(S))
  PROVE  s \in Seq(Seq(S))
<1>1. \A x \in Contents(S) : x \in Seq(S)
  BY ContentsType
<1>2. \A i \in 1 .. Len(s) : s[i] \in Seq(S)
  BY <1>1
<1>q. QED BY <1>2, SeqDef

(* Blocks of at most one leaf hold at most as many leaves as they are.     *)
LEMMA FlattenLength ==
  ASSUME NEW S
  PROVE  \A s \in Seq(Contents(S)) : FlattenSeq(s) \in Seq(S) /\ Len(FlattenSeq(s)) <= Len(s)
<1> DEFINE P == {s \in Seq(Contents(S)) : FlattenSeq(s) \in Seq(S) /\ Len(FlattenSeq(s)) <= Len(s)}
<1>0. ASSUME NEW x \in Contents(S) PROVE x \in Seq(S) /\ Len(x) <= 1
  BY ContentsType
<1>1. <<>> \in P
  <2>1. <<>> \in Seq(Contents(S)) /\ <<>> \in Seq(S) /\ Len(<<>>) <= Len(<<>>)
    OBVIOUS
  <2>2. PICK e : e = <<>>
    OBVIOUS
  <2>3. e \in Seq(Contents(S)) /\ FlattenSeq(e) \in Seq(S) /\ Len(FlattenSeq(e)) <= Len(e)
    BY <2>1, <2>2, FlattenEmpty
  <2>q. QED BY <2>2, <2>3
<1>2. ASSUME NEW s \in Seq(Contents(S)), NEW x \in Contents(S), s \in P
      PROVE  Append(s, x) \in P
  <2>1. s \in Seq(Seq(S)) /\ x \in Seq(S) /\ Len(x) <= 1
    BY <1>0, BlocksType
  <2>2. FlattenSeq(Append(s, x)) = FlattenSeq(s) \o x
    BY <2>1, FlattenAppend
  <2>3. FlattenSeq(s) \in Seq(S) /\ Len(FlattenSeq(s)) <= Len(s)
    BY <1>2
  <2>4. FlattenSeq(s) \o x \in Seq(S) /\ Len(FlattenSeq(s) \o x) = Len(FlattenSeq(s)) + Len(x)
    BY <2>1, <2>3
  <2>5. Append(s, x) \in Seq(Contents(S)) /\ Len(Append(s, x)) = Len(s) + 1
    OBVIOUS
  <2>6. Len(FlattenSeq(s) \o x) <= Len(s) + 1
    BY <2>1, <2>3, <2>4
  <2>q. QED BY <2>2, <2>4, <2>5, <2>6
<1> HIDE DEF P
<1>3. \A s \in Seq(Contents(S)) : s \in P
  BY <1>1, <1>2, SeqInduction
<1>q. QED BY <1>3 DEF P

(* The first k blocks are a chain of their own, block for block.           *)
LEMMA PrefixOfBlocks ==
  ASSUME NEW S, NEW b \in Seq(Contents(S)), NEW k \in 0 .. Len(b)
  PROVE  /\ SubSeq(b, 1, k) \in Seq(Contents(S))
         /\ Len(SubSeq(b, 1, k)) = k
         /\ \A i \in 1 .. k : SubSeq(b, 1, k)[i] = b[i]
  BY SubSeqProperties

(* k blocks hold at most k leaves.                                         *)
LEMMA UptoType ==
  ASSUME NEW S, NEW b \in Seq(Contents(S)), NEW k \in 0 .. Len(b)
  PROVE  Upto(b, k) \in Seq(S) /\ Len(Upto(b, k)) <= k
<1>1. SubSeq(b, 1, k) \in Seq(Contents(S)) /\ Len(SubSeq(b, 1, k)) = k
  BY PrefixOfBlocks
<1>q. QED BY <1>1, FlattenLength DEF Upto

(* The leaves of the first k blocks are those of the first j and those of  *)
(* the blocks between.                                                     *)
LEMMA UptoSplit ==
  ASSUME NEW S, NEW b \in Seq(Contents(S)), NEW k \in 0 .. Len(b), NEW j \in 0 .. k
  PROVE  /\ Upto(b, k) = Upto(b, j) \o FlattenSeq(SubSeq(b, j + 1, k))
         /\ FlattenSeq(SubSeq(b, j + 1, k)) \in Seq(S)
         /\ Len(FlattenSeq(SubSeq(b, j + 1, k))) <= k - j
<1>1. PICK s : s = SubSeq(b, 1, j)
  OBVIOUS
<1>2. PICK t : t = SubSeq(b, j + 1, k)
  OBVIOUS
<1>3. s \in Seq(Contents(S)) /\ Len(s) = j /\ \A i \in 1 .. j : s[i] = b[i]
  BY <1>1, PrefixOfBlocks
<1>4. t \in Seq(Contents(S)) /\ Len(t) = k - j /\ \A i \in 1 .. k - j : t[i] = b[j + i]
  <2>1. CASE j = k
    <3>1. t = <<>>
      BY <1>2, <2>1
    <3>q. QED BY <2>1, <3>1
  <2>2. CASE j # k
    <3>1. j + 1 \in 1 .. Len(b) /\ k \in j .. Len(b) /\ k - (j + 1) + 1 = k - j
      BY <2>2
    <3>2. t \in Seq(Contents(S)) /\ Len(t) = k - j
      BY <1>2, <3>1
    <3>3. \A i \in 1 .. k - j : t[i] = b[j + i]
      BY <1>2, <3>1
    <3>q. QED BY <3>2, <3>3
  <2>q. QED BY <2>1, <2>2
<1>5. SubSeq(b, 1, k) = s \o t
  <2>1. PICK u : u = s \o t
    OBVIOUS
  <2>2. u \in Seq(Contents(S)) /\ Len(u) = k
    BY <1>3, <1>4, <2>1
  <2>3. ASSUME NEW i \in 1 .. k PROVE u[i] = b[i]
    <3>1. CASE i <= j
      BY <1>3, <1>4, <2>1, <3>1
    <3>2. CASE ~(i <= j)
      <4>1. i - j \in 1 .. k - j /\ j + (i - j) = i
        BY <3>2
      <4>2. u[i] = t[i - j]
        BY <1>3, <1>4, <2>1, <3>2
      <4>q. QED BY <1>4, <4>1, <4>2
    <3>q. QED BY <3>1, <3>2
  <2>4. PICK v : v = SubSeq(b, 1, k)
    OBVIOUS
  <2>5. v \in Seq(Contents(S)) /\ Len(v) = k /\ \A i \in 1 .. k : v[i] = b[i]
    BY <2>4, PrefixOfBlocks
  <2>6. u = v
    BY <2>2, <2>3, <2>5
  <2>q. QED BY <2>1, <2>4, <2>6
<1>7. s \in Seq(Seq(S)) /\ t \in Seq(Seq(S))
  BY <1>3, <1>4, BlocksType
<1>8. FlattenSeq(s \o t) = FlattenSeq(s) \o FlattenSeq(t)
  BY <1>7, FlattenConcat
<1>9. FlattenSeq(t) \in Seq(S) /\ Len(FlattenSeq(t)) <= k - j
  BY <1>4, FlattenLength
<1>q. QED BY <1>1, <1>2, <1>5, <1>8, <1>9 DEF Upto

(* Chains that agree on k blocks agree on the leaves of k blocks.          *)
LEMMA UptoSame ==
  ASSUME NEW S, NEW b \in Seq(Contents(S)), NEW c \in Seq(Contents(S)),
         NEW k \in 0 .. Len(b), k <= Len(c), \A i \in 1 .. k : b[i] = c[i]
  PROVE  Upto(b, k) = Upto(c, k)
<1>0. k \in 0 .. Len(c)
  OBVIOUS
<1>1. PICK s : s = SubSeq(b, 1, k)
  OBVIOUS
<1>2. PICK t : t = SubSeq(c, 1, k)
  OBVIOUS
<1>3. s \in Seq(Contents(S)) /\ Len(s) = k /\ \A i \in 1 .. k : s[i] = b[i]
  BY <1>1, PrefixOfBlocks
<1>4. t \in Seq(Contents(S)) /\ Len(t) = k /\ \A i \in 1 .. k : t[i] = c[i]
  BY <1>0, <1>2, PrefixOfBlocks
<1>5. s = t
  BY <1>3, <1>4
<1>q. QED BY <1>1, <1>2, <1>5 DEF Upto

(* The leaves of the first j of k blocks are the beginning of the leaves   *)
(* of all k.                                                               *)
LEMMA UptoPrefix ==
  ASSUME NEW S, NEW b \in Seq(Contents(S)), NEW k \in 0 .. Len(b), NEW j \in 0 .. k
  PROVE  /\ Len(Upto(b, j)) <= Len(Upto(b, k))
         /\ \A i \in 1 .. Len(Upto(b, j)) : Upto(b, k)[i] = Upto(b, j)[i]
<1>0. j \in 0 .. Len(b)
  OBVIOUS
<1>1. PICK s : s = Upto(b, j)
  OBVIOUS
<1>2. PICK t : t = FlattenSeq(SubSeq(b, j + 1, k))
  OBVIOUS
<1>3. s \in Seq(S) /\ t \in Seq(S) /\ Upto(b, k) = s \o t
  BY <1>0, <1>1, <1>2, UptoType, UptoSplit
<1>4. Len(s \o t) = Len(s) + Len(t) /\ \A i \in 1 .. Len(s) : (s \o t)[i] = s[i]
  BY <1>3
<1>q. QED BY <1>1, <1>3, <1>4

(* No block holds no leaf.                                                 *)
LEMMA UptoNothing ==
  ASSUME NEW b
  PROVE  Upto(b, 0) = <<>>
<1>1. SubSeq(b, 1, 0) = <<>>
  OBVIOUS
<1>q. QED BY <1>1, FlattenEmpty DEF Upto

-----------------------------------------------------------------------------
(* The chain.                                                              *)
ChainTyped ==
    /\ blocks \in Seq(Contents(Leaves))
    /\ Height <= MaxHeight
    /\ reorgs \in 0 .. MaxLeafReorgs
    /\ lag \in 0 .. MaxLag

ChainMoves == LeafBlock \/ LeafReorg \/ UNCHANGED leafChainVars

(* The bounds of the chain are natural numbers.                            *)
LEMMA BoundsAreNaturals ==
    MaxHeight \in Nat /\ MaxDepth \in Nat /\ MaxLeafReorgs \in Nat /\ MaxLag \in Nat
  BY LeafChainAssumption

(* The chain starts typed and empty.                                       *)
LEMMA ChainStarts ==
  ASSUME ChainInit
  PROVE  ChainTyped /\ Height = 0
<1>1. blocks = <<>> /\ reorgs = MaxLeafReorgs /\ lag \in 0 .. MaxLag
  BY DEF ChainInit
<1>2. blocks \in Seq(Contents(Leaves)) /\ Len(blocks) = 0
  BY <1>1
<1>q. QED BY <1>1, <1>2, BoundsAreNaturals DEF ChainTyped, Height

(* A new block leaves all earlier ones as they are.                        *)
LEMMA BlockIsAdded ==
  ASSUME ChainTyped, LeafBlock
  PROVE  /\ blocks' \in Seq(Contents(Leaves))
         /\ Height < MaxHeight
         /\ Len(blocks') = Len(blocks) + 1
         /\ \A i \in 1 .. Len(blocks) : blocks'[i] = blocks[i]
<1>1. PICK c \in Contents(Leaves \ Range(ChainLeaves)) : blocks' = Append(blocks, c)
  BY DEF LeafBlock
<1>2. c \in Contents(Leaves)
  BY Zenon, <1>1 DEF Contents
<1>3. Height < MaxHeight
  BY DEF LeafBlock
<1>q. QED BY <1>1, <1>2, <1>3, AppendProperties DEF ChainTyped

(* A concatenation keeps its first part where it is.                       *)
LEMMA JoinedBlocks ==
  ASSUME NEW S, NEW s \in Seq(S), NEW t \in Seq(S)
  PROVE  /\ s \o t \in Seq(S)
         /\ Len(s \o t) = Len(s) + Len(t)
         /\ \A i \in 1 .. Len(s) : (s \o t)[i] = s[i]
  OBVIOUS

(* A reorganisation replaces only the last MaxDepth blocks.                *)
LEMMA BlocksAreReplaced ==
  ASSUME ChainTyped, LeafReorg
  PROVE  /\ blocks' \in Seq(Contents(Leaves))
         /\ Len(blocks') = Len(blocks)
         /\ \A i \in 1 .. Len(blocks) : i + MaxDepth <= Len(blocks) => blocks'[i] = blocks[i]
<1>0. blocks \in Seq(Contents(Leaves)) /\ MaxDepth \in Nat /\ Len(blocks) \in Nat
  BY BoundsAreNaturals DEF ChainTyped
<1>1. PICK d \in 1 .. MaxDepth :
        /\ d <= Height
        /\ \E new \in [1 .. d -> Contents(Leaves \ Range(FlattenSeq(SubSeq(blocks, 1, Height - d))))] :
              blocks' = SubSeq(blocks, 1, Height - d) \o new
  BY DEF LeafReorg
<1>2. PICK new \in [1 .. d -> Contents(Leaves \ Range(FlattenSeq(SubSeq(blocks, 1, Height - d))))] :
        blocks' = SubSeq(blocks, 1, Height - d) \o new
  BY <1>1
<1>3. new \in [1 .. d -> Contents(Leaves)]
  <2>1. \A free : Contents(Leaves \ free) \subseteq Contents(Leaves)
    BY Zenon DEF Contents
  <2>q. QED BY <1>2, <2>1
<1>4. PICK kept : kept = SubSeq(blocks, 1, Height - d)
  OBVIOUS
<1>5. Height - d \in 0 .. Len(blocks) /\ d \in Nat
  BY <1>0, <1>1 DEF Height
<1>6. /\ kept \in Seq(Contents(Leaves)) /\ Len(kept) = Len(blocks) - d
      /\ \A i \in 1 .. Len(blocks) - d : kept[i] = blocks[i]
  BY <1>0, <1>4, <1>5, PrefixOfBlocks DEF Height
<1>7. new \in Seq(Contents(Leaves)) /\ Len(new) = d
  BY <1>3, <1>5
<1>8. blocks' = kept \o new
  BY <1>2, <1>4
<1>9. /\ kept \o new \in Seq(Contents(Leaves))
      /\ Len(kept \o new) = Len(blocks)
      /\ \A i \in 1 .. Len(kept) : (kept \o new)[i] = kept[i]
  <2>1. PICK u : u = new
    OBVIOUS
  <2>2. u \in Seq(Contents(Leaves)) /\ Len(u) = d
    BY <1>7, <2>1
  <2>3. /\ kept \o u \in Seq(Contents(Leaves))
        /\ Len(kept \o u) = Len(kept) + Len(u)
        /\ \A i \in 1 .. Len(kept) : (kept \o u)[i] = kept[i]
    BY <1>6, <2>2, JoinedBlocks
  <2>4. Len(kept) + Len(u) = Len(blocks)
    BY <1>0, <1>5, <1>6, <2>2
  <2>q. QED BY <2>1, <2>3, <2>4
<1>10. ASSUME NEW i \in 1 .. Len(blocks), i + MaxDepth <= Len(blocks)
       PROVE  blocks'[i] = blocks[i]
  <2>1. i \in 1 .. Len(blocks) - d /\ i \in 1 .. Len(kept)
    BY <1>0, <1>1, <1>5, <1>6, <1>10
  <2>q. QED BY <1>6, <1>8, <1>9, <2>1
<1>q. QED BY <1>8, <1>9, <1>10

(* Every step of the chain keeps the leaves of the blocks that are deep    *)
(* enough, and all its blocks when it is no reorganisation.                *)
LEMMA ChainStays ==
  ASSUME ChainTyped, ChainMoves
  PROVE  /\ ChainTyped'
         /\ Len(blocks) <= Len(blocks')
         /\ lag' = lag
         /\ reorgs' \in 0 .. reorgs
         /\ \A k \in 0 .. Len(blocks) :
              (k = 0 \/ k + MaxDepth <= Len(blocks) \/ reorgs' = reorgs) => Upto(blocks', k) = Upto(blocks, k)
<1>0. /\ blocks \in Seq(Contents(Leaves)) /\ Len(blocks) \in Nat /\ Len(blocks) <= MaxHeight
      /\ reorgs \in 0 .. MaxLeafReorgs /\ lag \in 0 .. MaxLag
      /\ MaxDepth \in Nat /\ MaxHeight \in Nat /\ MaxLeafReorgs \in Nat
  BY BoundsAreNaturals DEF ChainTyped, Height
<1>1. CASE LeafBlock
  <2>1. /\ blocks' \in Seq(Contents(Leaves)) /\ Len(blocks) < MaxHeight
        /\ Len(blocks') = Len(blocks) + 1
        /\ \A i \in 1 .. Len(blocks) : blocks'[i] = blocks[i]
    BY <1>1, BlockIsAdded DEF Height
  <2>2. reorgs' = reorgs /\ lag' = lag
    BY <1>1 DEF LeafBlock
  <2>3. ASSUME NEW k \in 0 .. Len(blocks) PROVE Upto(blocks', k) = Upto(blocks, k)
    <3>1. k <= Len(blocks') /\ \A i \in 1 .. k : blocks[i] = blocks'[i]
      BY <1>0, <2>1
    <3>q. QED BY <1>0, <2>1, <3>1, UptoSame
  <2>4. ChainTyped'
    BY <1>0, <2>1, <2>2 DEF ChainTyped, Height
  <2>q. QED BY <1>0, <2>1, <2>2, <2>3, <2>4
<1>2. CASE LeafReorg
  <2>1. /\ blocks' \in Seq(Contents(Leaves))
        /\ Len(blocks') = Len(blocks)
        /\ \A i \in 1 .. Len(blocks) : i + MaxDepth <= Len(blocks) => blocks'[i] = blocks[i]
    BY <1>2, BlocksAreReplaced
  <2>2. reorgs > 0 /\ reorgs' = reorgs - 1 /\ lag' = lag
    BY <1>2 DEF LeafReorg
  <2>3. ASSUME NEW k \in 0 .. Len(blocks), k = 0 \/ k + MaxDepth <= Len(blocks)
        PROVE  Upto(blocks', k) = Upto(blocks, k)
    <3>1. CASE k = 0
      BY <3>1, UptoNothing
    <3>2. CASE k # 0
      <4>1. k <= Len(blocks') /\ \A i \in 1 .. k : blocks[i] = blocks'[i]
        BY <1>0, <2>1, <2>3, <3>2
      <4>q. QED BY <1>0, <2>1, <4>1, UptoSame
    <3>q. QED BY <3>1, <3>2
  <2>4. ChainTyped'
    BY <1>0, <2>1, <2>2 DEF ChainTyped, Height
  <2>5. reorgs' # reorgs /\ reorgs' \in 0 .. reorgs
    BY <1>0, <2>2
  <2>q. QED BY <1>0, <2>1, <2>2, <2>3, <2>4, <2>5
<1>3. CASE UNCHANGED leafChainVars
  <2>1. blocks' = blocks /\ reorgs' = reorgs /\ lag' = lag
    BY <1>3 DEF leafChainVars
  <2>q. QED BY <1>0, <2>1 DEF ChainTyped, Height
<1>q. QED BY <1>1, <1>2, <1>3 DEF ChainMoves

(* The events of a range whose end every replica has.                      *)
LEMMA EventsArrive ==
  ASSUME ChainTyped, NEW h \in Heads, NEW from, NEW to \in Nat, to + lag <= Height
  PROVE  Events(from, to, h) = LeavesIn(from, to) /\ h \in 0 .. Height
<1>1. h \in 0 .. Height /\ h >= Height - lag /\ lag \in Nat /\ Height \in Nat
  BY BoundsAreNaturals DEF Heads, ChainTyped, Height
<1>2. ~(to < h) => to = h
  BY <1>1
<1>q. QED BY <1>1, <1>2 DEF Events

-----------------------------------------------------------------------------
(* The indexer.                                                            *)

(* The margin covers what a reorganisation may replace and what a replica  *)
(* may be missing.                                                         *)
MarginIsEnough == MaxDepth <= IndexSafetyMargin /\ MaxLag <= IndexSafetyMargin

(* The last block that has its confirmations.                              *)
Settled == ToBlock(Height)

IndexerTyped ==
    /\ leafRows \in [Indices -> Leaves \cup {Absent}]
    /\ cursor \in 0 .. Settled
    /\ pass \in [pc : {"idle", "fetch", "upsert", "cursor"}, start : Nat, end : Nat, to : Nat,
                 found : Seq(Leaves), first : Nat]

PassFollowsTheCursor ==
    pass.pc # "idle" => /\ pass.start = cursor + 1
                        /\ pass.start <= pass.end /\ pass.end <= pass.to /\ pass.to <= Settled

(* The leaves of the first k blocks are stored.                            *)
StoredUpto(k) == \A i \in 1 .. Len(Upto(blocks, k)) : leafRows[i - 1] = Upto(blocks, k)[i]

RowsAreSettled ==
    \A i \in Indices : leafRows[i] # Absent =>
        i + 1 \in 1 .. Len(Upto(blocks, Settled)) /\ leafRows[i] = Upto(blocks, Settled)[i + 1]

FoundIsTheWindow ==
    pass.pc = "upsert" => /\ Upto(blocks, pass.end) = Upto(blocks, cursor) \o pass.found
                          /\ pass.first = Len(Upto(blocks, cursor))

WindowIsStored == pass.pc = "cursor" => StoredUpto(pass.end)

IndexInv ==
    /\ ChainTyped
    /\ IndexerTyped
    /\ PassFollowsTheCursor
    /\ StoredUpto(cursor)
    /\ RowsAreSettled
    /\ FoundIsTheWindow
    /\ WindowIsStored

(* The parameters of the indexer are natural numbers.                      *)
LEMMA IndexerConstants ==
    /\ IndexSafetyMargin \in Nat /\ ChunkSize \in Nat /\ ChunkSize > 0
    /\ MaxHeight \in Nat /\ MaxDepth \in Nat /\ MaxLeafReorgs \in Nat /\ MaxLag \in Nat
  BY LeafIndexerAssumption, BoundsAreNaturals

(* The last settled block lies IndexSafetyMargin below the head, or is     *)
(* block 0.                                                                *)
LEMMA SettledRange ==
  ASSUME ChainTyped
  PROVE  /\ Height \in Nat /\ Height = Len(blocks)
         /\ Settled \in 0 .. Height
         /\ Settled # 0 => Settled + IndexSafetyMargin <= Height
         /\ Settled <= MaxHeight
         /\ blocks \in Seq(Contents(Leaves))
  BY IndexerConstants DEF ChainTyped, Height, Settled, ToBlock

(* A window ends between its start and the last block of the pass.         *)
LEMMA WindowRange ==
  ASSUME NEW start \in Nat, NEW to \in Nat, start <= to
  PROVE  WindowEnd(start, to) \in Nat /\ start <= WindowEnd(start, to) /\ WindowEnd(start, to) <= to
  BY IndexerConstants DEF WindowEnd

(* The inductive invariant implies the invariant the run checks.           *)
LEMMA IndexImplies ==
  ASSUME IndexInv
  PROVE  IndexIsCanonical
<1>0. /\ Settled \in 0 .. Height /\ Settled <= MaxHeight /\ Height \in Nat /\ Height = Len(blocks)
      /\ blocks \in Seq(Contents(Leaves))
  BY SettledRange DEF IndexInv
<1>1. cursor \in 0 .. Settled /\ cursor \in 0 .. Len(blocks)
  BY <1>0 DEF IndexInv, IndexerTyped
<1>2. IndexerTypeOK
  <2>1. leafRows \in [Indices -> Leaves \cup {Absent}] /\ cursor \in 0 .. MaxHeight
    <3>1. cursor \in 0 .. MaxHeight
      BY <1>0, <1>1, IndexerConstants
    <3>q. QED BY <3>1 DEF IndexInv, IndexerTyped
  <2>2. pass.pc \in {"idle", "fetch", "upsert", "cursor"} /\ pass.found \in Seq(Leaves)
    BY DEF IndexInv, IndexerTyped
  <2>q. QED BY <2>1, <2>2 DEF IndexInv, PassFollowsTheCursor, IndexerTypeOK
<1>3. ScannedIsStored
  <2>1. LeavesIn(1, cursor) = Upto(blocks, cursor)
    BY DEF LeavesIn, Upto
  <2>2. Upto(blocks, cursor) \in Seq(Leaves)
    BY <1>0, <1>1, UptoType
  <2>3. DOMAIN Upto(blocks, cursor) = 1 .. Len(Upto(blocks, cursor))
    BY <2>2
  <2>q. QED BY <2>1, <2>3 DEF IndexInv, StoredUpto, ScannedIsStored
<1>4. ServedIsCanonical
  <2>1. ChainLeaves = Upto(blocks, Height)
    BY DEF ChainLeaves, LeavesIn, Upto
  <2>2. /\ Len(Upto(blocks, Settled)) <= Len(Upto(blocks, Height))
        /\ \A i \in 1 .. Len(Upto(blocks, Settled)) : Upto(blocks, Height)[i] = Upto(blocks, Settled)[i]
    BY <1>0, UptoPrefix
  <2>3. Len(Upto(blocks, Settled)) \in Nat /\ Len(Upto(blocks, Height)) \in Nat
    <3>1. Upto(blocks, Settled) \in Seq(Leaves) /\ Upto(blocks, Height) \in Seq(Leaves)
      BY <1>0, UptoType
    <3>q. QED BY <3>1
  <2>4. ASSUME NEW i \in Indices, leafRows[i] # Absent
        PROVE  i < Len(ChainLeaves) /\ leafRows[i] = ChainLeaves[i + 1]
    <3>1. i + 1 \in 1 .. Len(Upto(blocks, Settled)) /\ leafRows[i] = Upto(blocks, Settled)[i + 1]
      BY <2>4 DEF IndexInv, RowsAreSettled
    <3>2. leafRows[i] = Upto(blocks, Height)[i + 1]
      BY <2>2, <3>1
    <3>3. i \in Nat
      BY DEF Indices
    <3>4. i < Len(Upto(blocks, Height))
      BY <2>2, <2>3, <3>1, <3>3
    <3>q. QED BY <2>1, <3>2, <3>4
  <2>q. QED BY <2>4 DEF ServedIsCanonical
<1>q. QED BY <1>2, <1>3, <1>4 DEF IndexIsCanonical

(* The indexer starts with nothing stored and the cursor at 0.             *)
LEMMA IndexStarts ==
  ASSUME IndexerInit
  PROVE  IndexInv
<1>1. ChainInit /\ leafRows = [i \in Indices |-> Absent] /\ cursor = 0 /\ pass = PassIdle
  BY DEF IndexerInit
<1>2. ChainTyped /\ Height = 0
  BY <1>1, ChainStarts
<1>3. Settled = 0
  BY <1>2, SettledRange
<1>4. IndexerTyped
  <2>1. <<>> \in Seq(Leaves)
    OBVIOUS
  <2>2. PassIdle \in [pc : {"idle", "fetch", "upsert", "cursor"}, start : Nat, end : Nat, to : Nat,
                 found : Seq(Leaves), first : Nat]
    BY <2>1 DEF PassIdle
  <2>q. QED BY <1>1, <1>3, <2>2 DEF IndexerTyped
<1>5. pass.pc = "idle"
  BY <1>1 DEF PassIdle
<1>6. StoredUpto(cursor)
  <2>1. Upto(blocks, 0) = <<>>
    BY UptoNothing
  <2>2. Len(Upto(blocks, 0)) = 0
    BY <2>1
  <2>q. QED BY <1>1, <2>2 DEF StoredUpto
<1>7. RowsAreSettled
  BY <1>1 DEF RowsAreSettled
<1>q. QED BY <1>2, <1>4, <1>5, <1>6, <1>7
     DEF IndexInv, PassFollowsTheCursor, FoundIsTheWindow, WindowIsStored

(* A step of the chain keeps all that was stored.                          *)
LEMMA ChainKeepsIndex ==
  ASSUME MarginIsEnough, IndexInv, ChainMoves, UNCHANGED <<leafRows, cursor, pass>>
  PROVE  IndexInv'
<1>0. ChainTyped /\ IndexerTyped /\ PassFollowsTheCursor /\ StoredUpto(cursor) /\ RowsAreSettled
      /\ FoundIsTheWindow /\ WindowIsStored
  BY DEF IndexInv
<1>1. leafRows' = leafRows /\ cursor' = cursor /\ pass' = pass
  OBVIOUS
<1>2. /\ Settled \in 0 .. Len(blocks) /\ Len(blocks) \in Nat
      /\ Settled # 0 => Settled + IndexSafetyMargin <= Len(blocks)
      /\ blocks \in Seq(Contents(Leaves))
  BY <1>0, SettledRange
<1>3. /\ ChainTyped' /\ Len(blocks) <= Len(blocks')
      /\ \A k \in 0 .. Len(blocks) :
           (k = 0 \/ k + MaxDepth <= Len(blocks)) => Upto(blocks', k) = Upto(blocks, k)
  BY <1>0, ChainStays
<1>4. /\ Settled' \in 0 .. Len(blocks') /\ Len(blocks') \in Nat
      /\ blocks' \in Seq(Contents(Leaves))
  <2>1. blocks' \in Seq(Contents(Leaves)) /\ Len(blocks') <= MaxHeight
    BY <1>3 DEF ChainTyped, Height
  <2>2. Len(blocks') \in Nat
    BY <2>1
  <2>3. Settled' \in 0 .. Len(blocks')
    BY <2>2, IndexerConstants DEF Settled, ToBlock, Height
  <2>q. QED BY <2>1, <2>2, <2>3
<1>5. Settled <= Settled'
  BY <1>2, <1>3, <1>4, IndexerConstants DEF Settled, ToBlock, Height
<1>6. ASSUME NEW k \in 0 .. Settled PROVE Upto(blocks', k) = Upto(blocks, k)
  <2>1. k \in 0 .. Len(blocks) /\ (k = 0 \/ k + MaxDepth <= Len(blocks))
    BY <1>2, <1>6, IndexerConstants DEF MarginIsEnough
  <2>q. QED BY <1>3, <2>1
<1>7. cursor \in 0 .. Settled
  BY <1>0 DEF IndexerTyped
<1>8. Upto(blocks', cursor) = Upto(blocks, cursor)
  BY <1>6, <1>7
<1>9. pass.pc # "idle" => Upto(blocks', pass.end) = Upto(blocks, pass.end)
  <2>1. pass.pc # "idle" => pass.end \in 0 .. Settled
    BY <1>0, <1>2 DEF PassFollowsTheCursor, IndexerTyped
  <2>q. QED BY <1>6, <2>1
<1>10. IndexerTyped'
  <2>1. cursor \in 0 .. Settled'
    BY <1>2, <1>4, <1>5, <1>7
  <2>q. QED BY <1>0, <1>1, <2>1 DEF IndexerTyped, Indices
<1>11. PassFollowsTheCursor'
  <2>1. pass.to <= Settled => pass.to <= Settled'
    BY <1>0, <1>2, <1>4, <1>5 DEF IndexerTyped
  <2>q. QED BY <1>0, <1>1, <2>1 DEF PassFollowsTheCursor
<1>12. StoredUpto(cursor)'
  BY <1>0, <1>1, <1>8 DEF StoredUpto
<1>13. RowsAreSettled'
  <2>1. Upto(blocks', Settled) = Upto(blocks, Settled)
    BY <1>2, <1>6
  <2>2. Settled \in 0 .. Settled' /\ Settled \in 0 .. Len(blocks')
    BY <1>2, <1>4, <1>5
  <2>3. PICK b : b = blocks'
    OBVIOUS
  <2>4. PICK k : k = Settled'
    OBVIOUS
  <2>5. PICK j : j = Settled
    OBVIOUS
  <2>6. b \in Seq(Contents(Leaves)) /\ k \in 0 .. Len(b) /\ j \in 0 .. k /\ j \in 0 .. Len(b)
    BY <1>4, <2>2, <2>3, <2>4, <2>5
  <2>7. /\ Len(Upto(b, j)) <= Len(Upto(b, k))
        /\ \A i \in 1 .. Len(Upto(b, j)) : Upto(b, k)[i] = Upto(b, j)[i]
    BY <2>6, UptoPrefix
  <2>8. Len(Upto(b, j)) \in Nat /\ Len(Upto(b, k)) \in Nat
    <3>1. Upto(b, j) \in Seq(Leaves) /\ Upto(b, k) \in Seq(Leaves)
      BY <2>6, UptoType
    <3>q. QED BY <3>1
  <2>9. ASSUME NEW i \in Indices, leafRows[i] # Absent
        PROVE  i + 1 \in 1 .. Len(Upto(b, k)) /\ leafRows[i] = Upto(b, k)[i + 1]
    <3>1. i + 1 \in 1 .. Len(Upto(b, j)) /\ leafRows[i] = Upto(b, j)[i + 1]
      BY <1>0, <2>1, <2>3, <2>5, <2>9 DEF RowsAreSettled
    <3>2. i + 1 \in 1 .. Len(Upto(b, k))
      BY <2>7, <2>8, <3>1
    <3>q. QED BY <2>7, <3>1, <3>2
  <2>q. QED BY <1>1, <2>3, <2>4, <2>9 DEF RowsAreSettled, Indices
<1>14. FoundIsTheWindow'
  BY <1>0, <1>1, <1>8, <1>9 DEF FoundIsTheWindow
<1>15. WindowIsStored'
  BY <1>0, <1>1, <1>9 DEF WindowIsStored, StoredUpto
<1>q. QED BY <1>3, <1>10, <1>11, <1>12, <1>13, <1>14, <1>15 DEF IndexInv

(* The parts of the invariant a step that leaves the chain and the rows    *)
(* alone keeps.                                                            *)
LEMMA RowsStay ==
  ASSUME IndexInv, UNCHANGED <<leafChainVars, leafRows>>
  PROVE  /\ ChainTyped' /\ Settled' = Settled /\ RowsAreSettled'
         /\ blocks' = blocks
         /\ \A k : Upto(blocks', k) = Upto(blocks, k)
         /\ \A k : StoredUpto(k) => (\A i \in 1 .. Len(Upto(blocks', k)) : leafRows'[i - 1] = Upto(blocks', k)[i])
<1>1. blocks' = blocks /\ reorgs' = reorgs /\ lag' = lag /\ leafRows' = leafRows
  BY DEF leafChainVars
<1>2. Settled' = Settled
  BY <1>1 DEF Settled, Height, ToBlock
<1>q. QED BY <1>1, <1>2 DEF IndexInv, ChainTyped, Height, RowsAreSettled, Indices, StoredUpto

(* A pass that starts asks only for settled blocks, whatever replica       *)
(* answers.                                                                *)
LEMMA PassStarts ==
  ASSUME IndexInv, StartIndexPass
  PROVE  IndexInv'
<1>0. IndexerTyped /\ StoredUpto(cursor) /\ ChainTyped
  BY DEF IndexInv
<1>1. PICK latest \in Heads :
        /\ SomethingNew(ToBlock(latest))
        /\ pass' = [PassIdle EXCEPT !.pc = "fetch", !.start = cursor + 1, !.to = ToBlock(latest),
                                    !.end = WindowEnd(cursor + 1, ToBlock(latest))]
  BY DEF StartIndexPass
<1>2. UNCHANGED <<leafChainVars, leafRows>> /\ cursor' = cursor
  BY DEF StartIndexPass
<1>3. /\ ChainTyped' /\ Settled' = Settled /\ RowsAreSettled'
      /\ \A i \in 1 .. Len(Upto(blocks', cursor)) : leafRows'[i - 1] = Upto(blocks', cursor)[i]
  BY <1>0, <1>2, RowsStay
<1>4. PICK to : to = ToBlock(latest)
  OBVIOUS
<1>5. latest \in 0 .. Height /\ Height \in Nat
  BY <1>0, SettledRange DEF Heads
<1>6. to \in Nat /\ to <= Settled
  BY <1>4, <1>5, IndexerConstants DEF ToBlock, Settled
<1>7. cursor \in Nat /\ cursor + 1 \in Nat /\ cursor + 1 <= to
  BY <1>0, <1>1, <1>4, <1>5, SettledRange DEF IndexerTyped, SomethingNew
<1>8. PICK end : end = WindowEnd(cursor + 1, to)
  OBVIOUS
<1>9. end \in Nat /\ cursor + 1 <= end /\ end <= to
  BY <1>6, <1>7, <1>8, WindowRange
<1>10. pass' = [pc |-> "fetch", start |-> cursor + 1, end |-> end, to |-> to, found |-> <<>>, first |-> 0]
  BY <1>1, <1>4, <1>8 DEF PassIdle
<1>11. IndexerTyped'
  <2>1. <<>> \in Seq(Leaves) /\ leafRows' = leafRows
    BY <1>2
  <2>2. pass' \in [pc : {"idle", "fetch", "upsert", "cursor"}, start : Nat, end : Nat, to : Nat,
                   found : Seq(Leaves), first : Nat]
    BY <1>6, <1>7, <1>9, <1>10, <2>1
  <2>q. QED BY <1>0, <1>2, <1>3, <2>1, <2>2 DEF IndexerTyped, Indices
<1>12. PassFollowsTheCursor'
  BY <1>2, <1>3, <1>6, <1>9, <1>10 DEF PassFollowsTheCursor
<1>13. StoredUpto(cursor)'
  BY <1>2, <1>3 DEF StoredUpto
<1>14. FoundIsTheWindow' /\ WindowIsStored'
  BY <1>10 DEF FoundIsTheWindow, WindowIsStored
<1>q. QED BY <1>3, <1>11, <1>12, <1>13, <1>14 DEF IndexInv

(* What Fetch found is what the canonical chain holds between the cursor   *)
(* and the end of the window: here the margin is used.                     *)
LEMMA WindowArrives ==
  ASSUME MarginIsEnough, IndexInv, Fetch
  PROVE  IndexInv'
<1>0. IndexerTyped /\ StoredUpto(cursor) /\ ChainTyped /\ PassFollowsTheCursor
  BY DEF IndexInv
<1>1. pass.pc = "fetch" /\ UNCHANGED <<leafChainVars, leafRows>> /\ cursor' = cursor
  BY DEF Fetch
<1>2. PICK h \in Heads :
        pass' = [pass EXCEPT !.pc = "upsert", !.found = Events(pass.start, pass.end, h),
                             !.first = FirstIndex(pass.start)]
  BY DEF Fetch
<1>3. /\ ChainTyped' /\ Settled' = Settled /\ RowsAreSettled' /\ blocks' = blocks
      /\ \A i \in 1 .. Len(Upto(blocks', cursor)) : leafRows'[i - 1] = Upto(blocks', cursor)[i]
  BY <1>0, <1>1, RowsStay
<1>4. /\ Settled \in 0 .. Len(blocks) /\ Len(blocks) \in Nat /\ Height = Len(blocks)
      /\ Settled # 0 => Settled + IndexSafetyMargin <= Height
      /\ blocks \in Seq(Contents(Leaves))
  BY <1>0, SettledRange
<1>5. /\ pass.start = cursor + 1 /\ pass.start <= pass.end /\ pass.end <= pass.to /\ pass.to <= Settled
      /\ pass.start \in Nat /\ pass.end \in Nat /\ pass.to \in Nat /\ cursor \in 0 .. Settled
  BY <1>0, <1>1 DEF IndexerTyped, PassFollowsTheCursor
<1>6. Events(pass.start, pass.end, h) = LeavesIn(pass.start, pass.end)
  <2>1. pass.end + lag <= Height
    <3>1. lag \in 0 .. MaxLag
      BY <1>0 DEF ChainTyped
    <3>q. QED BY <1>4, <1>5, <3>1, IndexerConstants DEF MarginIsEnough
  <2>q. QED BY <1>0, <1>5, <2>1, EventsArrive
<1>7. PICK found : found = LeavesIn(pass.start, pass.end)
  OBVIOUS
<1>8. FirstIndex(pass.start) = Len(Upto(blocks, cursor))
  <2>1. pass.start - 1 = cursor
    BY <1>4, <1>5
  <2>q. QED BY <2>1 DEF FirstIndex, LeavesIn, Upto
<1>9. /\ Upto(blocks, pass.end) = Upto(blocks, cursor) \o found
      /\ found \in Seq(Leaves)
      /\ Upto(blocks, cursor) \in Seq(Leaves)
  <2>1. pass.end \in 0 .. Len(blocks) /\ cursor \in 0 .. pass.end /\ cursor \in 0 .. Len(blocks)
    BY <1>4, <1>5
  <2>2. found = FlattenSeq(SubSeq(blocks, cursor + 1, pass.end))
    BY <1>5, <1>7 DEF LeavesIn
  <2>q. QED BY <1>4, <2>1, <2>2, UptoSplit, UptoType
<1>10. PICK first : first = Len(Upto(blocks, cursor)) /\ first \in Nat
  BY <1>9
<1>11. /\ pass' = [pass EXCEPT !.pc = "upsert", !.found = found, !.first = first]
  BY <1>2, <1>6, <1>7, <1>8, <1>10
<1>12. /\ pass'.pc = "upsert" /\ pass'.found = found /\ pass'.first = first
       /\ pass'.start = pass.start /\ pass'.end = pass.end /\ pass'.to = pass.to
       /\ pass' \in [pc : {"idle", "fetch", "upsert", "cursor"}, start : Nat, end : Nat, to : Nat,
                     found : Seq(Leaves), first : Nat]
  BY <1>0, <1>9, <1>10, <1>11 DEF IndexerTyped
<1>13. IndexerTyped'
  <2>1. leafRows' = leafRows
    BY <1>1
  <2>q. QED BY <1>0, <1>1, <1>3, <1>12, <2>1 DEF IndexerTyped, Indices
<1>14. PassFollowsTheCursor'
  BY <1>1, <1>3, <1>5, <1>12 DEF PassFollowsTheCursor
<1>15. StoredUpto(cursor)'
  BY <1>1, <1>3 DEF StoredUpto
<1>16. FoundIsTheWindow'
  BY <1>1, <1>3, <1>9, <1>10, <1>12 DEF FoundIsTheWindow
<1>17. WindowIsStored'
  BY <1>12 DEF WindowIsStored
<1>q. QED BY <1>3, <1>13, <1>14, <1>15, <1>16, <1>17 DEF IndexInv

(* Upsert stores the leaves of the window at their canonical indices, and  *)
(* nothing else changes.                                                   *)
LEMMA WindowIsWritten ==
  ASSUME IndexInv, Upsert
  PROVE  IndexInv'
<1>0. IndexerTyped /\ StoredUpto(cursor) /\ ChainTyped /\ PassFollowsTheCursor /\ RowsAreSettled
      /\ FoundIsTheWindow
  BY DEF IndexInv
<1>1. /\ pass.pc = "upsert" /\ UNCHANGED leafChainVars /\ cursor' = cursor
      /\ pass' = [pass EXCEPT !.pc = "cursor"]
      /\ leafRows' = [i \in Indices |->
                   IF i - pass.first + 1 \in DOMAIN pass.found THEN pass.found[i - pass.first + 1]
                                                               ELSE leafRows[i]]
  BY DEF Upsert
<1>2. blocks' = blocks /\ reorgs' = reorgs /\ lag' = lag
  BY <1>1 DEF leafChainVars
<1>3. /\ Settled \in 0 .. Len(blocks) /\ Len(blocks) \in Nat /\ Settled <= MaxHeight
      /\ blocks \in Seq(Contents(Leaves))
  BY <1>0, SettledRange
<1>4. Settled' = Settled
  BY <1>2 DEF Settled, Height, ToBlock
<1>5. PICK end : end = pass.end
  OBVIOUS
<1>6. /\ end \in Nat /\ cursor \in 0 .. end /\ end \in 0 .. Len(blocks) /\ end \in 0 .. Settled /\ end <= MaxHeight
      /\ cursor \in 0 .. Len(blocks)
  BY <1>0, <1>1, <1>3, <1>5, IndexerConstants DEF IndexerTyped, PassFollowsTheCursor
<1>7. PICK c : c = Upto(blocks, cursor)
  OBVIOUS
<1>8. PICK f : f = pass.found
  OBVIOUS
<1>9. PICK e : e = Upto(blocks, end)
  OBVIOUS
<1>10. PICK s : s = Upto(blocks, Settled)
  OBVIOUS
<1>11. /\ c \in Seq(Leaves) /\ f \in Seq(Leaves) /\ e \in Seq(Leaves) /\ s \in Seq(Leaves)
       /\ e = c \o f /\ pass.first = Len(c) /\ Len(e) <= end
  <2>1. f \in Seq(Leaves)
    BY <1>0, <1>8 DEF IndexerTyped
  <2>2. c \in Seq(Leaves)
    BY <1>3, <1>6, <1>7, UptoType
  <2>3. e \in Seq(Leaves) /\ Len(e) <= end
    BY <1>3, <1>6, <1>9, UptoType
  <2>4. s \in Seq(Leaves)
    BY <1>3, <1>10, UptoType
  <2>q. QED BY <1>0, <1>1, <1>5, <1>7, <1>8, <1>9, <2>1, <2>2, <2>3, <2>4 DEF FoundIsTheWindow
<1>12. Len(e) <= Len(s) /\ \A i \in 1 .. Len(e) : s[i] = e[i]
  BY <1>3, <1>6, <1>9, <1>10, UptoPrefix
<1>13. /\ Len(e) = Len(c) + Len(f) /\ Len(c) \in Nat /\ Len(f) \in Nat /\ DOMAIN f = 1 .. Len(f)
       /\ \A i \in 1 .. Len(c) : e[i] = c[i]
       /\ \A i \in 1 .. Len(f) : e[Len(c) + i] = f[i]
  BY <1>11
<1>14. leafRows' = [i \in Indices |->
          IF i - Len(c) + 1 \in 1 .. Len(f) THEN f[i - Len(c) + 1] ELSE leafRows[i]]
  BY <1>1, <1>8, <1>11, <1>13
<1>15. \A i \in Indices : i + 1 \in 1 .. Len(e) => leafRows'[i] = e[i + 1]
  <2>1. SUFFICES ASSUME NEW i \in Indices, i + 1 \in 1 .. Len(e) PROVE leafRows'[i] = e[i + 1]
    OBVIOUS
  <2>2. i \in Nat
    BY DEF Indices
  <2>3. CASE i + 1 <= Len(c)
    <3>1. ~(i - Len(c) + 1 \in 1 .. Len(f))
      BY <1>13, <2>2, <2>3
    <3>2. leafRows'[i] = leafRows[i]
      BY <1>14, <3>1
    <3>3. PICK k \in 1 .. Len(c) : k = i + 1 /\ k - 1 = i
      BY <1>13, <2>2, <2>3
    <3>4. leafRows[k - 1] = c[k]
      BY <1>0, <1>7 DEF StoredUpto
    <3>q. QED BY <1>13, <3>2, <3>3, <3>4
  <2>4. CASE ~(i + 1 <= Len(c))
    <3>1. i - Len(c) + 1 \in 1 .. Len(f) /\ Len(c) + (i - Len(c) + 1) = i + 1
      BY <1>13, <2>1, <2>2, <2>4
    <3>2. leafRows'[i] = f[i - Len(c) + 1]
      BY <1>14, <3>1
    <3>q. QED BY <1>13, <3>1, <3>2
  <2>q. QED BY <2>3, <2>4
<1>16. \A i \in Indices : ~(i + 1 \in 1 .. Len(e)) => leafRows'[i] = leafRows[i]
  <2>1. SUFFICES ASSUME NEW i \in Indices, ~(i + 1 \in 1 .. Len(e)) PROVE leafRows'[i] = leafRows[i]
    OBVIOUS
  <2>2. i \in Nat
    BY DEF Indices
  <2>3. ~(i - Len(c) + 1 \in 1 .. Len(f))
    BY <1>13, <2>1, <2>2
  <2>q. QED BY <1>14, <2>3
<1>17. \A i \in 1 .. Len(e) : i - 1 \in Indices /\ leafRows'[i - 1] = e[i]
  <2>1. SUFFICES ASSUME NEW i \in 1 .. Len(e) PROVE i - 1 \in Indices /\ leafRows'[i - 1] = e[i]
    OBVIOUS
  <2>2. PICK j : j = i - 1
    OBVIOUS
  <2>3. j \in Indices /\ j + 1 = i
    BY <1>6, <1>11, <1>13, <2>2, IndexerConstants DEF Indices
  <2>q. QED BY <1>15, <2>2, <2>3
<1>18. IndexerTyped'
  <2>1. leafRows' \in [Indices -> Leaves \cup {Absent}]
    <3>1. ASSUME NEW i \in Indices PROVE leafRows'[i] \in Leaves \cup {Absent}
      <4>1. CASE i + 1 \in 1 .. Len(e)
        <5>1. e[i + 1] \in Leaves
          BY <1>11, <4>1, ElementOfSeq
        <5>q. QED BY <1>15, <4>1, <5>1
      <4>2. CASE ~(i + 1 \in 1 .. Len(e))
        BY <1>0, <1>16, <4>2 DEF IndexerTyped
      <4>q. QED BY <4>1, <4>2
    <3>2. leafRows' = [i \in Indices |-> leafRows'[i]]
      BY <1>14
    <3>q. QED BY <3>1, <3>2
  <2>2. pass' \in [pc : {"idle", "fetch", "upsert", "cursor"}, start : Nat, end : Nat, to : Nat,
                     found : Seq(Leaves), first : Nat]
    BY <1>0, <1>1 DEF IndexerTyped
  <2>q. QED BY <1>0, <1>1, <1>4, <2>1, <2>2 DEF IndexerTyped, Indices
<1>19. pass'.pc = "cursor" /\ pass'.start = pass.start /\ pass'.end = pass.end /\ pass'.to = pass.to
  BY <1>0, <1>1 DEF IndexerTyped
<1>20. PassFollowsTheCursor'
  BY <1>0, <1>1, <1>4, <1>19 DEF PassFollowsTheCursor
<1>21. StoredUpto(cursor)'
  <2>1. ASSUME NEW i \in 1 .. Len(c) PROVE leafRows'[i - 1] = c[i]
    <3>1. i \in 1 .. Len(e)
      BY <1>13
    <3>q. QED BY <1>13, <1>17, <3>1
  <2>q. QED BY <1>1, <1>2, <1>7, <2>1 DEF StoredUpto
<1>22. RowsAreSettled'
  <2>1. ASSUME NEW i \in Indices, leafRows'[i] # Absent
        PROVE  i + 1 \in 1 .. Len(s) /\ leafRows'[i] = s[i + 1]
    <3>1. CASE i + 1 \in 1 .. Len(e)
      <4>1. i + 1 \in 1 .. Len(s)
        BY <1>11, <1>12, <3>1
      <4>q. QED BY <1>12, <1>15, <3>1, <4>1
    <3>2. CASE ~(i + 1 \in 1 .. Len(e))
      BY <1>0, <1>10, <1>16, <2>1, <3>2 DEF RowsAreSettled
    <3>q. QED BY <3>1, <3>2
  <2>q. QED BY <1>2, <1>4, <1>10, <2>1 DEF RowsAreSettled, Indices
<1>23. FoundIsTheWindow'
  BY <1>19 DEF FoundIsTheWindow
<1>24. WindowIsStored'
  BY <1>2, <1>5, <1>9, <1>17, <1>19 DEF WindowIsStored, StoredUpto
<1>25. ChainTyped'
  BY <1>0, <1>2 DEF ChainTyped, Height
<1>q. QED BY <1>18, <1>20, <1>21, <1>22, <1>23, <1>24, <1>25 DEF IndexInv

(* The cursor moves to the end of a window whose leaves are stored.        *)
LEMMA CursorMoves ==
  ASSUME IndexInv, SetCursor
  PROVE  IndexInv'
<1>0. IndexerTyped /\ ChainTyped /\ PassFollowsTheCursor /\ WindowIsStored
  BY DEF IndexInv
<1>1. /\ pass.pc = "cursor" /\ UNCHANGED <<leafChainVars, leafRows>>
      /\ cursor' = pass.end /\ pass' = NextWindow
  BY DEF SetCursor
<1>2. PICK end : end = pass.end
  OBVIOUS
<1>3. PICK to : to = pass.to
  OBVIOUS
<1>4. /\ end \in Nat /\ to \in Nat /\ end <= to /\ to <= Settled /\ end \in 0 .. Settled
      /\ Settled \in Nat
  <2>1. Settled \in Nat
    BY <1>0, SettledRange
  <2>q. QED BY <1>0, <1>1, <1>2, <1>3, <2>1 DEF IndexerTyped, PassFollowsTheCursor
<1>5. StoredUpto(end)
  BY <1>0, <1>1, <1>2 DEF WindowIsStored
<1>6. /\ ChainTyped' /\ Settled' = Settled /\ RowsAreSettled'
      /\ \A i \in 1 .. Len(Upto(blocks', end)) : leafRows'[i - 1] = Upto(blocks', end)[i]
  BY <1>1, <1>5, RowsStay
<1>7. <<>> \in Seq(Leaves)
  OBVIOUS
<1>8. StoredUpto(cursor)'
  BY <1>1, <1>2, <1>6 DEF StoredUpto
<1>9. /\ pass' \in [pc : {"idle", "fetch", "upsert", "cursor"}, start : Nat, end : Nat, to : Nat,
                     found : Seq(Leaves), first : Nat]
      /\ pass'.pc = "idle" \/ pass'.pc = "fetch"
      /\ pass'.pc # "idle" => /\ pass'.start = end + 1
                              /\ pass'.start <= pass'.end /\ pass'.end <= pass'.to /\ pass'.to <= Settled
  <2>1. CASE end = to
    <3>1. pass' = PassIdle
      BY <1>1, <1>2, <1>3, <2>1 DEF NextWindow
    <3>q. QED BY <1>7, <3>1 DEF PassIdle
  <2>2. CASE end # to
    <3>1. PICK w : w = WindowEnd(end + 1, to)
      OBVIOUS
    <3>2. end + 1 \in Nat /\ end + 1 <= to
      BY <1>4, <2>2
    <3>3. w \in Nat /\ end + 1 <= w /\ w <= to
      BY <1>4, <3>1, <3>2, WindowRange
    <3>4. pass' = [pc |-> "fetch", start |-> end + 1, end |-> w, to |-> to, found |-> <<>>, first |-> 0]
      BY <1>1, <1>2, <1>3, <2>2, <3>1 DEF NextWindow, PassIdle
    <3>q. QED BY <1>4, <1>7, <3>2, <3>3, <3>4
  <2>q. QED BY <2>1, <2>2
<1>10. IndexerTyped'
  <2>1. leafRows' = leafRows
    BY <1>1
  <2>q. QED BY <1>0, <1>1, <1>2, <1>4, <1>6, <1>9, <2>1 DEF IndexerTyped, Indices
<1>11. PassFollowsTheCursor'
  BY <1>1, <1>2, <1>6, <1>9 DEF PassFollowsTheCursor
<1>12. FoundIsTheWindow' /\ WindowIsStored'
  BY <1>9 DEF FoundIsTheWindow, WindowIsStored
<1>q. QED BY <1>6, <1>8, <1>10, <1>11, <1>12 DEF IndexInv

(* A pass that is lost leaves what is stored as it is: the next one starts *)
(* from the cursor.                                                        *)
LEMMA PassBreaks ==
  ASSUME IndexInv, PassLost
  PROVE  IndexInv'
<1>0. IndexerTyped /\ ChainTyped /\ StoredUpto(cursor)
  BY DEF IndexInv
<1>1. UNCHANGED <<leafChainVars, leafRows>> /\ cursor' = cursor /\ pass' = PassIdle
  BY DEF PassLost
<1>2. /\ ChainTyped' /\ Settled' = Settled /\ RowsAreSettled'
      /\ \A i \in 1 .. Len(Upto(blocks', cursor)) : leafRows'[i - 1] = Upto(blocks', cursor)[i]
  BY <1>0, <1>1, RowsStay
<1>3. <<>> \in Seq(Leaves) /\ leafRows' = leafRows
  BY <1>1
<1>4. pass' \in [pc : {"idle", "fetch", "upsert", "cursor"}, start : Nat, end : Nat, to : Nat,
                 found : Seq(Leaves), first : Nat] /\ pass'.pc = "idle"
  BY <1>1, <1>3 DEF PassIdle
<1>5. IndexerTyped'
  BY <1>0, <1>1, <1>2, <1>3, <1>4 DEF IndexerTyped, Indices
<1>6. StoredUpto(cursor)'
  BY <1>1, <1>2 DEF StoredUpto
<1>q. QED BY <1>2, <1>4, <1>5, <1>6
     DEF IndexInv, PassFollowsTheCursor, FoundIsTheWindow, WindowIsStored

(* Every step keeps the inductive invariant.                               *)
LEMMA IndexSteps ==
  ASSUME MarginIsEnough, IndexInv, [IndexerNext]_indexAll
  PROVE  IndexInv'
<1>1. CASE (LeafBlock \/ LeafReorg) /\ UNCHANGED indexerVars
  BY <1>1, ChainKeepsIndex DEF ChainMoves, indexerVars
<1>2. CASE IndexerStep
  BY <1>2, PassStarts, WindowArrives, WindowIsWritten, CursorMoves, PassBreaks DEF IndexerStep
<1>3. CASE UNCHANGED indexAll
  BY <1>3, ChainKeepsIndex DEF ChainMoves, indexAll, indexerVars
<1>q. QED BY <1>1, <1>2, <1>3 DEF IndexerNext

(* When reorganisations and the lag of the RPC's replicas stay within the  *)
(* safety margin, the leaves it serves are those of the canonical *)
(* chain, without a gap, at their indices, in every state of every pass,   *)
(* whatever fails in between.                                              *)
THEOREM IndexStaysCanonical ==
  ASSUME MaxDepth <= IndexSafetyMargin, MaxLag <= IndexSafetyMargin
  PROVE  IndexerSpec => []IndexIsCanonical
<1>0. MarginIsEnough
  BY DEF MarginIsEnough
<1>1. IndexerInit => IndexInv
  BY IndexStarts
<1>2. IndexInv /\ [IndexerNext]_indexAll => IndexInv'
  BY <1>0, IndexSteps
<1>3. IndexInv => IndexIsCanonical
  BY IndexImplies
<1>q. QED BY <1>1, <1>2, <1>3, PTL DEF IndexerSpec

-----------------------------------------------------------------------------
(* The scanner.                                                            *)

(* The confirmations cover what a reorganisation may replace and what a    *)
(* replica may be missing.                                                 *)
ConfirmationsAreEnough == MaxDepth <= CONFIRMATIONS /\ MaxLag <= CONFIRMATIONS

(* A chain that has only grown, seen through replicas that do not lag.     *)
OnlyGrown == reorgs = MaxLeafReorgs /\ lag = 0

ScanTyped ==
    /\ persisted \in [lastBlock : Nat, leaves : Seq(Leaves)]
    /\ memCache \in Seq(Leaves)
    /\ scan \in [pc : {"idle", "confirmed", "tail"}, latest : Nat, leaves : Seq(Leaves)]

(* Block k has its confirmations.                                          *)
IsDeep(k) == k = 0 \/ k + CONFIRMATIONS <= Height

ScanInv ==
    /\ ChainTyped
    /\ ScanTyped
    /\ IsDeep(persisted.lastBlock)
    /\ persisted.leaves = Upto(blocks, persisted.lastBlock)
    /\ scan.pc # "idle" => scan.latest <= Height
    /\ scan.pc = "confirmed" => /\ persisted.lastBlock < Confirmed(scan.latest)
                                /\ scan.leaves = persisted.leaves
    /\ (lag = 0 /\ scan.pc = "tail") => scan.leaves = Upto(blocks, Confirmed(scan.latest))

(* The parameters of the scanner are natural numbers.                      *)
LEMMA ScanConstants ==
    /\ CONFIRMATIONS \in Nat /\ CONFIRMATIONS > 0
    /\ MaxHeight \in Nat /\ MaxDepth \in Nat /\ MaxLeafReorgs \in Nat /\ MaxLag \in Nat
  BY ScanAssumption, BoundsAreNaturals

(* The last confirmed block lies CONFIRMATIONS below the given head, or is *)
(* block 0.                                                                *)
LEMMA ConfirmedRange ==
  ASSUME NEW latest \in Nat
  PROVE  /\ Confirmed(latest) \in 0 .. latest
         /\ Confirmed(latest) # 0 => Confirmed(latest) + CONFIRMATIONS <= latest
         /\ latest # 0 => Confirmed(latest) < latest
  BY ScanConstants DEF Confirmed

(* What the invariant says of a state, in the terms the steps need.        *)
LEMMA ScanFacts ==
  ASSUME ScanInv
  PROVE  /\ blocks \in Seq(Contents(Leaves)) /\ Height \in Nat /\ Height = Len(blocks)
         /\ lag \in Nat /\ lag <= MaxLag
         /\ persisted.lastBlock \in 0 .. Len(blocks) /\ persisted.leaves \in Seq(Leaves)
         /\ persisted = [lastBlock |-> persisted.lastBlock, leaves |-> persisted.leaves]
         /\ memCache \in Seq(Leaves)
         /\ scan.pc \in {"idle", "confirmed", "tail"} /\ scan.latest \in Nat /\ scan.leaves \in Seq(Leaves)
<1>1. ChainTyped /\ ScanTyped /\ IsDeep(persisted.lastBlock)
  BY DEF ScanInv
<1>2. /\ blocks \in Seq(Contents(Leaves)) /\ Height = Len(blocks) /\ lag \in 0 .. MaxLag
  BY <1>1 DEF ChainTyped, Height
<1>3. Height \in Nat /\ lag \in Nat /\ lag <= MaxLag
  BY <1>2, ScanConstants
<1>4. persisted \in [lastBlock : Nat, leaves : Seq(Leaves)]
  BY <1>1 DEF ScanTyped
<1>5. persisted.lastBlock \in 0 .. Len(blocks)
  BY <1>1, <1>2, <1>3, <1>4, ScanConstants DEF IsDeep
<1>q. QED BY <1>1, <1>2, <1>3, <1>4, <1>5 DEF ScanTyped

(* The scanner starts with nothing persisted.                              *)
LEMMA ScanStarts ==
  ASSUME ScanInit
  PROVE  ScanInv
<1>1. ChainInit /\ persisted = [lastBlock |-> 0, leaves |-> <<>>] /\ memCache = <<>> /\ scan = NoScan
  BY DEF ScanInit
<1>2. ChainTyped
  BY <1>1, ChainStarts
<1>3. <<>> \in Seq(Leaves)
  OBVIOUS
<1>4. ScanTyped
  BY <1>1, <1>3 DEF ScanTyped, NoScan
<1>5. persisted.lastBlock = 0 /\ persisted.leaves = <<>> /\ scan.pc = "idle"
  BY <1>1 DEF NoScan
<1>6. persisted.leaves = Upto(blocks, persisted.lastBlock)
  BY <1>5, UptoNothing
<1>q. QED BY <1>2, <1>4, <1>5, <1>6 DEF ScanInv, IsDeep

(* What is confirmed stays when blocks are added or the last ones are      *)
(* replaced.                                                               *)
LEMMA ChainKeepsScan ==
  ASSUME ConfirmationsAreEnough \/ OnlyGrown', ScanInv, ChainMoves,
         UNCHANGED <<persisted, scan, memCache>>
  PROVE  ScanInv'
<1>0. ChainTyped /\ ScanTyped /\ IsDeep(persisted.lastBlock)
  BY DEF ScanInv
<1>1. persisted' = persisted /\ scan' = scan /\ memCache' = memCache
  OBVIOUS
<1>2. /\ blocks \in Seq(Contents(Leaves)) /\ Height \in Nat /\ Height = Len(blocks)
      /\ persisted.lastBlock \in 0 .. Len(blocks) /\ scan.latest \in Nat
  BY ScanFacts
<1>3. /\ ChainTyped' /\ Len(blocks) <= Len(blocks') /\ lag' = lag /\ reorgs' \in 0 .. reorgs
      /\ \A k \in 0 .. Len(blocks) :
           (k = 0 \/ k + MaxDepth <= Len(blocks) \/ reorgs' = reorgs) => Upto(blocks', k) = Upto(blocks, k)
  BY <1>0, ChainStays
<1>4. Height' = Len(blocks') /\ Len(blocks') \in Nat
  <2>1. blocks' \in Seq(Contents(Leaves))
    BY <1>3 DEF ChainTyped
  <2>q. QED BY <2>1 DEF Height
<1>5. ASSUME NEW k \in 0 .. Len(blocks), IsDeep(k)
      PROVE  Upto(blocks', k) = Upto(blocks, k) /\ IsDeep(k)'
  <2>1. k = 0 \/ k + MaxDepth <= Len(blocks) \/ reorgs' = reorgs
    <3>1. CASE ConfirmationsAreEnough
      BY <1>2, <1>5, <3>1, ScanConstants DEF IsDeep, ConfirmationsAreEnough
    <3>2. CASE OnlyGrown'
      BY <1>0, <1>3, <3>2, ScanConstants DEF OnlyGrown, ChainTyped
    <3>q. QED BY <3>1, <3>2
  <2>2. IsDeep(k)'
    BY <1>2, <1>3, <1>4, <1>5, ScanConstants DEF IsDeep
  <2>q. QED BY <1>3, <2>1, <2>2
<1>6. ScanTyped'
  BY <1>0, <1>1 DEF ScanTyped
<1>7. IsDeep(persisted.lastBlock)' /\ persisted'.leaves = Upto(blocks', persisted'.lastBlock)
  <2>1. PICK k : k = persisted.lastBlock
    OBVIOUS
  <2>2. Upto(blocks', k) = Upto(blocks, k) /\ IsDeep(k)'
    BY <1>0, <1>2, <1>5, <2>1
  <2>q. QED BY <1>1, <2>1, <2>2 DEF ScanInv, IsDeep
<1>8. scan'.pc # "idle" => scan'.latest <= Height'
  BY <1>1, <1>2, <1>3, <1>4 DEF ScanInv
<1>9. scan'.pc = "confirmed" => /\ persisted'.lastBlock < Confirmed(scan'.latest)
                                /\ scan'.leaves = persisted'.leaves
  BY <1>1 DEF ScanInv
<1>10. (lag' = 0 /\ scan'.pc = "tail") => scan'.leaves = Upto(blocks', Confirmed(scan'.latest))
  <2>1. SUFFICES ASSUME lag = 0, scan.pc = "tail"
                 PROVE  scan.leaves = Upto(blocks', Confirmed(scan.latest))
    BY <1>1, <1>3
  <2>2. scan.leaves = Upto(blocks, Confirmed(scan.latest)) /\ scan.latest <= Height
    BY <2>1 DEF ScanInv
  <2>3. PICK k : k = Confirmed(scan.latest)
    OBVIOUS
  <2>4. k \in 0 .. Len(blocks) /\ IsDeep(k)
    BY <1>2, <2>2, <2>3, ConfirmedRange, ScanConstants DEF IsDeep
  <2>q. QED BY <1>5, <2>2, <2>3, <2>4
<1>q. QED BY <1>3, <1>6, <1>7, <1>8, <1>9, <1>10 DEF ScanInv

(* The leaves of the first blocks are a prefix of the leaves of the chain. *)
LEMMA LeavesArePrefix ==
  ASSUME ScanInv, NEW k \in 0 .. Len(blocks)
  PROVE  Upto(blocks, k) \in Seq(Leaves) /\ IsPrefix(Upto(blocks, k), ChainLeaves)
<1>1. blocks \in Seq(Contents(Leaves)) /\ Height = Len(blocks) /\ Len(blocks) \in Nat
  BY ScanFacts
<1>2. PICK s : s = Upto(blocks, k)
  OBVIOUS
<1>3. PICK t : t = Upto(blocks, Height)
  OBVIOUS
<1>4. s \in Seq(Leaves) /\ t \in Seq(Leaves)
  BY <1>1, <1>2, <1>3, UptoType
<1>5. Len(s) <= Len(t) /\ \A i \in 1 .. Len(s) : t[i] = s[i]
  BY <1>1, <1>2, <1>3, UptoPrefix
<1>6. SubSeq(s, 1, Len(s)) = SubSeq(t, 1, Len(s))
  <2>1. PICK n \in Nat : n = Len(s) /\ n \in 0 .. Len(s) /\ n \in 0 .. Len(t)
    BY <1>4, <1>5
  <2>2. PICK u : u = SubSeq(s, 1, n)
    OBVIOUS
  <2>3. PICK v : v = SubSeq(t, 1, n)
    OBVIOUS
  <2>4. u \in Seq(Leaves) /\ Len(u) = n /\ \A i \in 1 .. n : u[i] = s[i]
    BY <1>4, <2>1, <2>2, SubSeqProperties
  <2>5. v \in Seq(Leaves) /\ Len(v) = n /\ \A i \in 1 .. n : v[i] = t[i]
    BY <1>4, <2>1, <2>3, SubSeqProperties
  <2>6. u = v
    BY <1>5, <2>1, <2>4, <2>5
  <2>q. QED BY <2>1, <2>2, <2>3, <2>6
<1>7. IsPrefix(s, t)
  BY <1>4, <1>5, <1>6 DEF IsPrefix
<1>q. QED BY <1>2, <1>3, <1>4, <1>7 DEF ChainLeaves, LeavesIn, Upto

(* A step of the scanner that leaves the chain alone.                      *)
LEMMA ScanStarted ==
  ASSUME ScanInv, StartScan
  PROVE  /\ ScanInv' /\ UNCHANGED leafChainVars
         /\ lag = 0 /\ memCache' # memCache => IsPrefix(memCache', ChainLeaves)
<1>0. /\ ChainTyped /\ ScanTyped /\ IsDeep(persisted.lastBlock)
      /\ persisted.leaves = Upto(blocks, persisted.lastBlock)
  BY DEF ScanInv
<1>1. /\ blocks \in Seq(Contents(Leaves)) /\ Height \in Nat /\ Height = Len(blocks)
      /\ lag \in Nat
      /\ persisted.lastBlock \in 0 .. Len(blocks) /\ persisted.leaves \in Seq(Leaves)
      /\ memCache \in Seq(Leaves)
  BY ScanFacts
<1>2. UNCHANGED leafChainVars /\ persisted' = persisted
  BY DEF StartScan
<1>3. blocks' = blocks /\ lag' = lag /\ Height' = Height /\ ChainTyped'
  BY <1>0, <1>2 DEF leafChainVars, ChainTyped, Height
<1>4. PICK latest \in Heads :
        \/ Return(persisted.leaves)
        \/ /\ needConfirmedScan(latest) \/ needTailScan(latest)
           /\ ~NodeBehind(latest)
           /\ scan' = [pc |-> IF needConfirmedScan(latest) THEN "confirmed" ELSE "tail",
                       latest |-> latest, leaves |-> persisted.leaves]
           /\ UNCHANGED <<memCache, fresh>>
  BY DEF StartScan
<1>5. latest \in 0 .. Height /\ latest >= Height - lag
  BY DEF Heads
<1>6. <<>> \in Seq(Leaves)
  OBVIOUS
<1>7. IsDeep(persisted.lastBlock)' /\ persisted'.leaves = Upto(blocks', persisted'.lastBlock)
  BY <1>0, <1>2, <1>3 DEF IsDeep
<1>8. CASE Return(persisted.leaves)
  <2>1. memCache' = persisted.leaves /\ scan' = NoScan
    BY <1>8 DEF Return
  <2>2. IsPrefix(memCache', ChainLeaves)
    BY <1>0, <1>1, <2>1, LeavesArePrefix
  <2>3. ScanTyped'
    BY <1>0, <1>1, <1>2, <1>6, <2>1 DEF ScanTyped, NoScan
  <2>4. scan'.pc = "idle"
    BY <2>1 DEF NoScan
  <2>q. QED BY <1>2, <1>3, <1>7, <2>2, <2>3, <2>4 DEF ScanInv
<1>9. CASE /\ needConfirmedScan(latest) \/ needTailScan(latest)
           /\ ~NodeBehind(latest)
           /\ scan' = [pc |-> IF needConfirmedScan(latest) THEN "confirmed" ELSE "tail",
                       latest |-> latest, leaves |-> persisted.leaves]
           /\ UNCHANGED <<memCache, fresh>>
  <2>1. /\ scan'.latest = latest /\ scan'.leaves = persisted.leaves
        /\ scan'.pc = IF needConfirmedScan(latest) THEN "confirmed" ELSE "tail"
        /\ scan' = [pc |-> scan'.pc, latest |-> latest, leaves |-> persisted.leaves]
    BY <1>9
  <2>2. scan'.pc \in {"confirmed", "tail"} /\ latest \in Nat
    BY <1>1, <1>5, <2>1
  <2>3. ScanTyped'
    BY <1>0, <1>1, <1>2, <1>9, <2>1, <2>2 DEF ScanTyped
  <2>4. scan'.latest <= Height'
    BY <1>1, <1>3, <1>5, <2>1
  <2>5. scan'.pc = "confirmed" => persisted.lastBlock < Confirmed(latest)
    BY <2>1 DEF needConfirmedScan
  <2>6. (lag = 0 /\ scan'.pc = "tail") => persisted.lastBlock = Confirmed(latest)
    <3>1. SUFFICES ASSUME lag = 0, scan'.pc = "tail" PROVE persisted.lastBlock = Confirmed(latest)
      OBVIOUS
    <3>2. latest = Height
      BY <1>1, <1>5, <3>1
    <3>3. ~(persisted.lastBlock < Confirmed(latest))
      BY <2>1, <3>1 DEF needConfirmedScan
    <3>4. persisted.lastBlock <= Confirmed(latest)
      BY <1>0, <1>1, <3>2, ScanConstants DEF IsDeep, Confirmed
    <3>q. QED BY <1>1, <2>2, <3>3, <3>4, ConfirmedRange
  <2>7. (lag' = 0 /\ scan'.pc = "tail") => scan'.leaves = Upto(blocks', Confirmed(scan'.latest))
    BY <1>0, <1>3, <2>1, <2>6
  <2>q. QED BY <1>2, <1>3, <1>7, <1>9, <2>1, <2>3, <2>4, <2>5, <2>7 DEF ScanInv
<1>q. QED BY <1>4, <1>8, <1>9

(* The confirmed range read from the chain extends what is persisted to    *)
(* the last confirmed block: here the confirmations are used.              *)
LEMMA ConfirmedArrives ==
  ASSUME ConfirmationsAreEnough \/ OnlyGrown', ScanInv, ScanConfirmed
  PROVE  ScanInv' /\ UNCHANGED <<leafChainVars, memCache>>
<1>0. /\ ChainTyped /\ ScanTyped /\ IsDeep(persisted.lastBlock)
      /\ persisted.leaves = Upto(blocks, persisted.lastBlock)
  BY DEF ScanInv
<1>1. /\ blocks \in Seq(Contents(Leaves)) /\ Height \in Nat /\ Height = Len(blocks)
      /\ lag \in Nat /\ lag <= MaxLag
      /\ persisted.lastBlock \in 0 .. Len(blocks) /\ persisted.leaves \in Seq(Leaves)
      /\ memCache \in Seq(Leaves) /\ scan.latest \in Nat
  BY ScanFacts
<1>2. UNCHANGED leafChainVars /\ memCache' = memCache /\ scan.pc = "confirmed"
  BY DEF ScanConfirmed
<1>3. blocks' = blocks /\ lag' = lag /\ Height' = Height /\ ChainTyped'
  BY <1>0, <1>2 DEF leafChainVars, ChainTyped, Height
<1>4. PICK to : to = Confirmed(scan.latest)
  OBVIOUS
<1>5. /\ scan.latest <= Height /\ persisted.lastBlock < to /\ scan.leaves = persisted.leaves
      /\ to \in 0 .. Len(blocks) /\ to # 0 /\ to + CONFIRMATIONS <= Height
  <2>1. scan.latest <= Height /\ persisted.lastBlock < to /\ scan.leaves = persisted.leaves
    BY <1>2, <1>4 DEF ScanInv
  <2>2. to \in 0 .. scan.latest /\ (to # 0 => to + CONFIRMATIONS <= scan.latest)
    BY <1>1, <1>4, ConfirmedRange
  <2>3. to \in Nat /\ scan.latest \in Nat /\ Height \in Nat /\ Height = Len(blocks) /\ persisted.lastBlock \in Nat
    BY <1>1, <2>2
  <2>q. QED BY <2>1, <2>2, <2>3, ScanConstants
<1>6. PICK h \in Heads :
        LET leaves == scan.leaves \o Events(persisted.lastBlock + 1, to, h)
        IN /\ scan' = [scan EXCEPT !.pc = "tail", !.leaves = leaves]
           /\ \/ persisted' = [lastBlock |-> to, leaves |-> leaves]
              \/ persisted' = persisted
  BY <1>4 DEF ScanConfirmed
<1>7. Events(persisted.lastBlock + 1, to, h) = LeavesIn(persisted.lastBlock + 1, to)
  <2>1. to \in Nat /\ to + lag <= Height
    <3>1. to \in Nat /\ (lag = 0 \/ lag <= CONFIRMATIONS)
      BY <1>1, <1>3, <1>5, ScanConstants DEF ConfirmationsAreEnough, OnlyGrown
    <3>q. QED BY <1>1, <1>5, <3>1, ScanConstants
  <2>q. QED BY <1>0, <2>1, EventsArrive
<1>8. PICK leaves : leaves = Upto(blocks, to)
  OBVIOUS
<1>9. scan.leaves \o Events(persisted.lastBlock + 1, to, h) = leaves /\ leaves \in Seq(Leaves)
  <2>1. persisted.lastBlock \in 0 .. to
    BY <1>1, <1>5
  <2>2. Upto(blocks, to) = Upto(blocks, persisted.lastBlock) \o FlattenSeq(SubSeq(blocks, persisted.lastBlock + 1, to))
    BY <1>1, <1>5, <2>1, UptoSplit
  <2>3. Upto(blocks, to) \in Seq(Leaves)
    BY <1>1, <1>5, UptoType
  <2>q. QED BY <1>0, <1>5, <1>7, <1>8, <2>2, <2>3 DEF LeavesIn
<1>10. /\ scan' = [scan EXCEPT !.pc = "tail", !.leaves = leaves]
       /\ \/ persisted' = [lastBlock |-> to, leaves |-> leaves]
          \/ persisted' = persisted
  BY <1>6, <1>9
<1>11. /\ scan'.pc = "tail" /\ scan'.leaves = leaves /\ scan'.latest = scan.latest
       /\ scan' \in [pc : {"idle", "confirmed", "tail"}, latest : Nat, leaves : Seq(Leaves)]
  BY <1>0, <1>9, <1>10 DEF ScanTyped
<1>12. /\ persisted' \in [lastBlock : Nat, leaves : Seq(Leaves)]
       /\ IsDeep(persisted'.lastBlock)
       /\ persisted'.leaves = Upto(blocks, persisted'.lastBlock)
  <2>1. CASE persisted' = [lastBlock |-> to, leaves |-> leaves]
    BY <1>1, <1>5, <1>8, <1>9, <2>1 DEF IsDeep
  <2>2. CASE persisted' = persisted
    BY <1>0, <2>2 DEF ScanTyped
  <2>q. QED BY <1>10, <2>1, <2>2
<1>13. IsDeep(persisted.lastBlock)'
  BY <1>3, <1>12 DEF IsDeep
<1>14. ScanTyped'
  BY <1>0, <1>2, <1>11, <1>12 DEF ScanTyped
<1>q. QED BY <1>2, <1>3, <1>4, <1>5, <1>8, <1>11, <1>12, <1>13, <1>14 DEF ScanInv

(* The tail read by a replica that does not lag completes the confirmed    *)
(* leaves to a prefix of the chain's leaves.                               *)
LEMMA TailArrives ==
  ASSUME ScanInv, ScanTail
  PROVE  /\ ScanInv' /\ UNCHANGED leafChainVars
         /\ lag = 0 => IsPrefix(memCache', ChainLeaves)
<1>0. /\ ChainTyped /\ ScanTyped /\ IsDeep(persisted.lastBlock)
      /\ persisted.leaves = Upto(blocks, persisted.lastBlock)
  BY DEF ScanInv
<1>1. /\ blocks \in Seq(Contents(Leaves)) /\ Height \in Nat /\ Height = Len(blocks)
      /\ lag \in Nat /\ scan.latest \in Nat /\ scan.leaves \in Seq(Leaves)
  BY ScanFacts
<1>2. UNCHANGED leafChainVars /\ persisted' = persisted /\ scan.pc = "tail"
  BY DEF ScanTail
<1>3. blocks' = blocks /\ lag' = lag /\ Height' = Height /\ ChainTyped'
  BY <1>0, <1>2 DEF leafChainVars, ChainTyped, Height
<1>4. PICK h \in Heads : Return(scan.leaves \o TailLeaves(h))
  BY DEF ScanTail
<1>5. memCache' = scan.leaves \o TailLeaves(h) /\ scan' = NoScan
  BY <1>4 DEF Return
<1>6. PICK c : c = Confirmed(scan.latest)
  OBVIOUS
<1>7. /\ scan.latest <= Height /\ c \in 0 .. scan.latest /\ scan.latest \in 0 .. Len(blocks)
      /\ h \in 0 .. Height /\ h >= Height - lag
  <2>1. scan.latest <= Height
    BY <1>2 DEF ScanInv
  <2>2. c \in 0 .. scan.latest
    BY <1>1, <1>6, ConfirmedRange
  <2>3. scan.latest \in 0 .. Len(blocks)
    BY <1>1, <2>1
  <2>4. h \in 0 .. Height /\ h >= Height - lag
    BY DEF Heads
  <2>q. QED BY <2>1, <2>2, <2>3, <2>4
<1>8. TailLeaves(h) \in Seq(Leaves)
  <2>1. PICK to : to = IF scan.latest < h THEN scan.latest ELSE h
    OBVIOUS
  <2>2. to \in 0 .. Len(blocks) /\ TailLeaves(h) = FlattenSeq(SubSeq(blocks, c + 1, to))
    BY <1>1, <1>6, <1>7, <2>1 DEF TailLeaves, Events, LeavesIn
  <2>3. CASE c <= to
    <3>1. c \in 0 .. to
      BY <1>7, <2>2, <2>3
    <3>q. QED BY <1>1, <2>2, <3>1, UptoSplit
  <2>4. CASE ~(c <= to)
    <3>1. SubSeq(blocks, c + 1, to) = <<>>
      BY <1>7, <2>2, <2>4
    <3>2. <<>> \in Seq(Leaves)
      OBVIOUS
    <3>q. QED BY <2>2, <3>1, <3>2, FlattenEmpty
  <2>q. QED BY <2>3, <2>4
<1>9. memCache' \in Seq(Leaves)
  BY <1>1, <1>5, <1>8
<1>10. lag = 0 => IsPrefix(memCache', ChainLeaves)
  <2>1. SUFFICES ASSUME lag = 0 PROVE IsPrefix(memCache', ChainLeaves)
    OBVIOUS
  <2>2. h = Height
    BY <1>1, <1>7, <2>1
  <2>3. TailLeaves(h) = FlattenSeq(SubSeq(blocks, c + 1, scan.latest))
    <3>1. (IF scan.latest < h THEN scan.latest ELSE h) = scan.latest
      BY <1>1, <1>7, <2>2
    <3>q. QED BY <1>6, <3>1 DEF TailLeaves, Events, LeavesIn
  <2>4. scan.leaves = Upto(blocks, c)
    BY <1>2, <1>6, <2>1 DEF ScanInv
  <2>5. Upto(blocks, scan.latest) = Upto(blocks, c) \o FlattenSeq(SubSeq(blocks, c + 1, scan.latest))
    BY <1>1, <1>7, UptoSplit
  <2>6. memCache' = Upto(blocks, scan.latest)
    BY <1>5, <2>3, <2>4, <2>5
  <2>q. QED BY <1>7, <2>6, LeavesArePrefix
<1>11. <<>> \in Seq(Leaves)
  OBVIOUS
<1>12. scan'.pc = "idle" /\ ScanTyped'
  BY <1>0, <1>2, <1>5, <1>9, <1>11 DEF ScanTyped, NoScan
<1>13. IsDeep(persisted.lastBlock)' /\ persisted'.leaves = Upto(blocks', persisted'.lastBlock)
  BY <1>0, <1>2, <1>3 DEF IsDeep
<1>q. QED BY <1>2, <1>3, <1>10, <1>12, <1>13 DEF ScanInv

(* A scan that ends or fails keeps what is persisted.                      *)
LEMMA ScanEnds ==
  ASSUME ScanInv, UNCHANGED <<leafChainVars, persisted, memCache>>, scan' = NoScan
  PROVE  ScanInv'
<1>0. /\ ChainTyped /\ ScanTyped /\ IsDeep(persisted.lastBlock)
      /\ persisted.leaves = Upto(blocks, persisted.lastBlock)
  BY DEF ScanInv
<1>1. blocks' = blocks /\ lag' = lag /\ Height' = Height /\ ChainTyped' /\ persisted' = persisted
  BY <1>0 DEF leafChainVars, ChainTyped, Height
<1>2. <<>> \in Seq(Leaves)
  OBVIOUS
<1>3. scan'.pc = "idle" /\ ScanTyped'
  BY <1>0, <1>2 DEF ScanTyped, NoScan
<1>4. IsDeep(persisted.lastBlock)' /\ persisted'.leaves = Upto(blocks', persisted'.lastBlock)
  BY <1>0, <1>1 DEF IsDeep
<1>q. QED BY <1>1, <1>3, <1>4 DEF ScanInv

(* Every step keeps the invariant; the chain's keep what is in memory, and *)
(* the scanner's leave the chain alone.                                    *)
LEMMA ScanSteps ==
  ASSUME ConfirmationsAreEnough \/ OnlyGrown', ScanInv, [ScanNext]_scanAll
  PROVE  /\ ScanInv'
         /\ lag = 0 => ReturnsPrefix
         /\ \/ ChainMoves /\ UNCHANGED scanVars
            \/ UNCHANGED leafChainVars
<1>1. CASE (LeafBlock \/ LeafReorg) /\ UNCHANGED scanVars
  BY <1>1, ChainKeepsScan DEF ChainMoves, scanVars, ReturnsPrefix
<1>2. CASE UNCHANGED scanAll
  BY <1>2, ChainKeepsScan DEF ChainMoves, scanVars, scanAll, ReturnsPrefix
<1>3. CASE StartScan
  BY <1>3, ScanStarted DEF ReturnsPrefix
<1>4. CASE ScanConfirmed
  <2>1. ScanInv' /\ UNCHANGED leafChainVars /\ memCache' = memCache
    BY <1>4, ConfirmedArrives
  <2>q. QED BY <2>1 DEF ReturnsPrefix
<1>5. CASE ScanTail
  <2>1. ScanInv' /\ UNCHANGED leafChainVars /\ (lag = 0 => IsPrefix(memCache', ChainLeaves))
    BY <1>5, TailArrives
  <2>q. QED BY <2>1 DEF ReturnsPrefix
<1>6. CASE Expire
  <2>1. UNCHANGED <<leafChainVars, persisted, memCache, scan>>
    BY <1>6 DEF Expire
  <2>2. ScanInv'
    BY <2>1, ChainKeepsScan DEF ChainMoves
  <2>q. QED BY <2>1, <2>2 DEF ReturnsPrefix
<1>7. CASE ScanFails
  <2>1. UNCHANGED <<leafChainVars, persisted, memCache>> /\ scan' = NoScan
    BY <1>7 DEF ScanFails
  <2>2. ScanInv'
    BY <2>1, ScanEnds
  <2>q. QED BY <2>1, <2>2 DEF ReturnsPrefix
<1>q. QED BY <1>1, <1>2, <1>3, <1>4, <1>5, <1>6, <1>7 DEF ScanNext, ScanStep

(* When reorganisations and the lag of the RPC's replicas stay within      *)
(* CONFIRMATIONS, what the wallet persists is what the canonical chain    *)
(* holds up to that block, and a scan that saw no lag returns a prefix of  *)
(* the chain's leaves.                                                     *)
THEOREM ScannerFollowsTheChain ==
  ASSUME MaxDepth <= CONFIRMATIONS, MaxLag <= CONFIRMATIONS
  PROVE  ScanSpec => ScanFollowsTheChain
<1>0. ConfirmationsAreEnough
  BY DEF ConfirmationsAreEnough
<1>1. ScanInit => ScanInv
  BY ScanStarts
<1>2. ScanInv /\ [ScanNext]_scanAll => ScanInv' /\ [lag = 0 => ReturnsPrefix]_scanAll
  BY <1>0, ScanSteps
<1>3. ScanInv => PersistedIsCanonical
  BY DEF ScanInv, PersistedIsCanonical, LeavesIn, Upto
<1>q. QED BY <1>1, <1>2, <1>3, PTL DEF ScanSpec, ScanFollowsTheChain

-----------------------------------------------------------------------------
(* The notes.                                                              *)

SyncTyped ==
    /\ sync.pc \in {"idle", "leaves", "write"}
    /\ sync.leaves \in Seq(Leaves)
    /\ DOMAIN noteStore = Leaves

(* A sequence is the beginning of the chain's leaves.                      *)
IsBeginning(s) == Len(s) <= Len(ChainLeaves) /\ \A i \in 1 .. Len(s) : s[i] = ChainLeaves[i]

HasItsIndex(l) ==
    noteStore[l].status = "active" =>
        /\ noteStore[l].leafIndex + 1 \in 1 .. Len(ChainLeaves)
        /\ ChainLeaves[noteStore[l].leafIndex + 1] = l

SyncInv ==
    /\ ScanInv
    /\ SyncTyped
    /\ OnlyGrown => /\ IsBeginning(memCache)
                    /\ IsBeginning(sync.leaves)
                    /\ \A l \in Leaves : HasItsIndex(l)

(* The leaves of the chain are the leaves of all its blocks.               *)
LEMMA ChainLeavesType ==
  ASSUME ScanInv
  PROVE  ChainLeaves \in Seq(Leaves) /\ ChainLeaves = Upto(blocks, Len(blocks)) /\ Len(blocks) \in Nat
<1>1. blocks \in Seq(Contents(Leaves)) /\ Height = Len(blocks) /\ Len(blocks) \in Nat
  BY ScanFacts
<1>2. ChainLeaves = Upto(blocks, Len(blocks))
  BY DEF ChainLeaves, LeavesIn, Upto, Height
<1>q. QED BY <1>1, <1>2, UptoType

(* A chain that only grows keeps its leaves where they are.                *)
LEMMA LeavesStay ==
  ASSUME ScanInv, ScanInv', ChainMoves, OnlyGrown'
  PROVE  /\ OnlyGrown
         /\ Len(ChainLeaves) <= Len(ChainLeaves')
         /\ Len(ChainLeaves) \in Nat /\ Len(ChainLeaves') \in Nat
         /\ \A i \in 1 .. Len(ChainLeaves) : ChainLeaves'[i] = ChainLeaves[i]
<1>1. /\ ChainTyped /\ blocks \in Seq(Contents(Leaves)) /\ reorgs \in 0 .. MaxLeafReorgs
  BY DEF ScanInv, ChainTyped
<1>2. blocks' \in Seq(Contents(Leaves))
  BY DEF ScanInv, ChainTyped
<1>3. /\ Len(blocks) <= Len(blocks') /\ lag' = lag /\ reorgs' \in 0 .. reorgs
      /\ \A k \in 0 .. Len(blocks) : reorgs' = reorgs => Upto(blocks', k) = Upto(blocks, k)
  BY <1>1, ChainStays
<1>4. reorgs' = reorgs /\ OnlyGrown
  BY <1>1, <1>3, ScanConstants DEF OnlyGrown
<1>5. PICK b : b = blocks'
  OBVIOUS
<1>6. PICK n \in Nat : n = Len(blocks)
  BY <1>1
<1>7. PICK m \in Nat : m = Len(b)
  BY <1>2, <1>5
<1>8. ChainLeaves \in Seq(Leaves) /\ ChainLeaves = Upto(blocks, n)
  BY <1>6, ChainLeavesType
<1>9. ChainLeaves' = Upto(b, m)
  BY <1>5, <1>7 DEF ChainLeaves, LeavesIn, Upto, Height
<1>10. b \in Seq(Contents(Leaves)) /\ n \in 0 .. m /\ m \in 0 .. Len(b) /\ n \in 0 .. Len(b)
  BY <1>2, <1>3, <1>5, <1>6, <1>7
<1>11. Upto(b, n) = Upto(blocks, n)
  <2>1. n \in 0 .. Len(blocks)
    BY <1>6
  <2>q. QED BY <1>3, <1>4, <1>5, <2>1
<1>12. /\ Len(Upto(b, n)) <= Len(Upto(b, m))
       /\ \A i \in 1 .. Len(Upto(b, n)) : Upto(b, m)[i] = Upto(b, n)[i]
  BY <1>10, UptoPrefix
<1>13. Upto(b, n) \in Seq(Leaves) /\ Upto(b, m) \in Seq(Leaves)
  BY <1>10, UptoType
<1>14. Len(Upto(b, n)) \in Nat /\ Len(Upto(b, m)) \in Nat
  BY <1>13
<1>q. QED BY <1>4, <1>8, <1>9, <1>11, <1>12, <1>14

(* A prefix of the chain's leaves has each of them at the chain's index.   *)
LEMMA BeginningIs ==
  ASSUME NEW s \in Seq(Leaves), ChainLeaves \in Seq(Leaves), IsPrefix(s, ChainLeaves)
  PROVE  IsBeginning(s)
<1>1. PICK c : c = ChainLeaves
  OBVIOUS
<1>2. c \in Seq(Leaves) /\ Len(s) <= Len(c) /\ SubSeq(s, 1, Len(s)) = SubSeq(c, 1, Len(s))
  BY <1>1 DEF IsPrefix
<1>3. PICK n \in Nat : n = Len(s) /\ n \in 0 .. Len(s) /\ n \in 0 .. Len(c)
  BY <1>2
<1>4. ASSUME NEW i \in 1 .. n PROVE s[i] = c[i]
  <2>1. SubSeq(s, 1, n)[i] = s[i]
    BY <1>3, SubSeqProperties
  <2>2. SubSeq(c, 1, n)[i] = c[i]
    BY <1>2, <1>3, SubSeqProperties
  <2>q. QED BY <1>2, <1>3, <2>1, <2>2
<1>q. QED BY <1>1, <1>2, <1>3, <1>4 DEF IsBeginning

(* The note store starts without a note.                                   *)
LEMMA SyncStarts ==
  ASSUME SyncInit
  PROVE  SyncInv
<1>1. ScanInit /\ noteStore = [l \in Leaves |-> NotStored] /\ sync = NoSync
  BY DEF SyncInit
<1>2. ScanInv
  BY <1>1, ScanStarts
<1>3. <<>> \in Seq(Leaves) /\ Len(<<>>) = 0
  OBVIOUS
<1>4. SyncTyped
  BY <1>1, <1>3 DEF SyncTyped, NoSync
<1>5. ChainLeaves \in Seq(Leaves)
  BY <1>2, ChainLeavesType
<1>6. IsBeginning(<<>>)
  <2>1. PICK c \in Seq(Leaves) : c = ChainLeaves
    BY <1>5
  <2>2. Len(c) \in Nat
    OBVIOUS
  <2>q. QED BY <1>3, <2>1, <2>2 DEF IsBeginning
<1>7. memCache = <<>> /\ sync.leaves = <<>>
  BY <1>1 DEF ScanInit, NoSync
<1>8. ASSUME NEW l \in Leaves PROVE HasItsIndex(l)
  BY <1>1 DEF HasItsIndex, NotStored, Absent
<1>q. QED BY <1>2, <1>4, <1>6, <1>7, <1>8 DEF SyncInv

(* The inductive invariant implies the invariant the run checks.           *)
LEMMA SyncImplies ==
  ASSUME SyncInv
  PROVE  ActiveNoteIsAtItsIndex
<1>1. ChainLeaves \in Seq(Leaves)
  BY ChainLeavesType DEF SyncInv
<1>2. DOMAIN ChainLeaves = 1 .. Len(ChainLeaves)
  BY <1>1
<1>q. QED BY <1>2 DEF SyncInv, OnlyGrown, HasItsIndex, ActiveNoteIsAtItsIndex

(* A step of the scanner or of the chain.                                  *)
LEMMA ScanKeepsNotes ==
  ASSUME OnlyGrown', SyncInv, ScanNext, UNCHANGED syncVars
  PROVE  SyncInv'
<1>0. ScanInv /\ SyncTyped
  BY DEF SyncInv
<1>1. noteStore' = noteStore /\ sync' = sync
  BY DEF syncVars
<1>2. /\ ScanInv' /\ (lag = 0 => ReturnsPrefix)
      /\ (ChainMoves /\ UNCHANGED scanVars) \/ UNCHANGED leafChainVars
  BY <1>0, ScanSteps
<1>3. SyncTyped'
  BY <1>0, <1>1 DEF SyncTyped
<1>4. CASE ChainMoves /\ UNCHANGED scanVars
  <2>1. SUFFICES ASSUME OnlyGrown'
                 PROVE  /\ IsBeginning(memCache)' /\ IsBeginning(sync.leaves)'
                        /\ \A l \in Leaves : HasItsIndex(l)'
    BY <1>2, <1>3 DEF SyncInv
  <2>2. /\ OnlyGrown
        /\ Len(ChainLeaves) <= Len(ChainLeaves')
        /\ Len(ChainLeaves) \in Nat /\ Len(ChainLeaves') \in Nat
        /\ \A i \in 1 .. Len(ChainLeaves) : ChainLeaves'[i] = ChainLeaves[i]
    BY <1>0, <1>2, <1>4, <2>1, LeavesStay
  <2>3. PICK c : c = ChainLeaves
    OBVIOUS
  <2>4. PICK d : d = ChainLeaves'
    OBVIOUS
  <2>5. PICK n \in Nat : n = Len(c)
    BY <2>2, <2>3
  <2>6. PICK m \in Nat : m = Len(d)
    BY <2>2, <2>4
  <2>7. n <= m /\ \A i \in 1 .. n : d[i] = c[i]
    BY <2>2, <2>3, <2>4, <2>5, <2>6
  <2>8. ASSUME NEW s \in Seq(Leaves), IsBeginning(s)
        PROVE  Len(s) <= m /\ \A i \in 1 .. Len(s) : s[i] = d[i]
    <3>1. Len(s) \in Nat /\ Len(s) <= n /\ \A i \in 1 .. Len(s) : s[i] = c[i]
      BY <2>3, <2>5, <2>8 DEF IsBeginning
    <3>2. \A i \in 1 .. Len(s) : i \in 1 .. n
      BY <3>1
    <3>q. QED BY <2>7, <3>1, <3>2
  <2>9. memCache' = memCache /\ memCache \in Seq(Leaves) /\ sync.leaves \in Seq(Leaves)
    BY <1>0, <1>4 DEF scanVars, ScanInv, ScanTyped, SyncTyped
  <2>10. IsBeginning(memCache) /\ IsBeginning(sync.leaves) /\ \A l \in Leaves : HasItsIndex(l)
    BY <2>2 DEF SyncInv
  <2>11. IsBeginning(memCache)' /\ IsBeginning(sync.leaves)'
    BY <1>1, <2>4, <2>6, <2>8, <2>9, <2>10 DEF IsBeginning
  <2>12. ASSUME NEW l \in Leaves PROVE HasItsIndex(l)'
    <3>1. SUFFICES ASSUME noteStore[l].status = "active"
                   PROVE  /\ noteStore[l].leafIndex + 1 \in 1 .. m
                          /\ d[noteStore[l].leafIndex + 1] = l
      BY <1>1, <2>4, <2>6 DEF HasItsIndex
    <3>2. PICK k : k = noteStore[l].leafIndex + 1
      OBVIOUS
    <3>3. k \in 1 .. n /\ c[k] = l
      BY <2>3, <2>5, <2>10, <3>1, <3>2 DEF HasItsIndex
    <3>4. k \in 1 .. m /\ d[k] = l
      BY <2>7, <3>3
    <3>q. QED BY <3>2, <3>4
  <2>q. QED BY <2>11, <2>12
<1>5. CASE UNCHANGED leafChainVars
  <2>1. blocks' = blocks /\ reorgs' = reorgs /\ lag' = lag
    BY <1>5 DEF leafChainVars
  <2>2. ChainLeaves' = ChainLeaves /\ ChainLeaves \in Seq(Leaves)
    BY <1>0, <2>1, ChainLeavesType DEF ChainLeaves, LeavesIn, Height
  <2>3. SUFFICES ASSUME OnlyGrown'
                 PROVE  /\ IsBeginning(memCache)' /\ IsBeginning(sync.leaves)'
                        /\ \A l \in Leaves : HasItsIndex(l)'
    BY <1>2, <1>3 DEF SyncInv
  <2>4. OnlyGrown
    BY <2>1, <2>3 DEF OnlyGrown
  <2>5. IsBeginning(memCache)'
    <3>1. CASE memCache' = memCache
      <4>1. IsBeginning(memCache)
        BY <2>4 DEF SyncInv
      <4>q. QED BY <2>2, <3>1, <4>1 DEF IsBeginning
    <3>2. CASE memCache' # memCache
      <4>1. IsPrefix(memCache', ChainLeaves)
        BY <1>2, <2>4, <3>2 DEF ReturnsPrefix, OnlyGrown
      <4>2. PICK s : s = memCache'
        OBVIOUS
      <4>3. s \in Seq(Leaves)
        BY <1>2, <4>2 DEF ScanInv, ScanTyped
      <4>4. IsBeginning(s)
        BY <2>2, <4>1, <4>2, <4>3, BeginningIs
      <4>q. QED BY <2>2, <4>2, <4>4 DEF IsBeginning
    <3>q. QED BY <3>1, <3>2
  <2>6. IsBeginning(sync.leaves)'
    BY <1>1, <2>2, <2>4 DEF SyncInv, IsBeginning
  <2>7. ASSUME NEW l \in Leaves PROVE HasItsIndex(l)'
    <3>1. HasItsIndex(l)
      BY <2>4 DEF SyncInv
    <3>q. QED BY <1>1, <2>2, <3>1 DEF HasItsIndex
  <2>q. QED BY <2>5, <2>6, <2>7
<1>q. QED BY <1>2, <1>4, <1>5

(* A non-empty set of positions has a last one.                            *)
LEMMA LastExists ==
  ASSUME NEW n \in Nat, NEW T, T \subseteq 1 .. n, T # {}
  PROVE  \E x \in T : \A y \in T : y <= x
<1> DEFINE U == {n - x : x \in T}
<1>1. U \subseteq Nat /\ U # {}
  <2>1. ASSUME NEW x \in T PROVE n - x \in Nat
    BY x \in 1 .. n
  <2>2. PICK x \in T : TRUE
    OBVIOUS
  <2>3. n - x \in U
    BY Zenon
  <2>q. QED BY <2>1, <2>3
<1>2. PICK u \in U : \A v \in U : u <= v
  <2> HIDE DEF U
  <2>q. QED BY <1>1, LeastExists
<1>3. PICK x \in T : u = n - x
  BY <1>2
<1>4. ASSUME NEW y \in T PROVE y <= x
  <2>1. n - y \in U
    OBVIOUS
  <2>2. n - x <= n - y
    BY <1>2, <1>3, <2>1
  <2>3. x \in 1 .. n /\ y \in 1 .. n
    OBVIOUS
  <2>q. QED BY <2>2, <2>3
<1>q. QED BY <1>4

(* The last position of a commitment that occurs.                          *)
LEMMA PositionIsItsOwn ==
  ASSUME NEW s \in Seq(Leaves), NEW l \in Range(s)
  PROVE  leafByCommit(s, l) \in 1 .. Len(s) /\ s[leafByCommit(s, l)] = l
<1>1. Len(s) \in Nat /\ DOMAIN s = 1 .. Len(s)
  OBVIOUS
<1> DEFINE T == {i \in 1 .. Len(s) : s[i] = l}
<1>2. T \subseteq 1 .. Len(s) /\ T # {}
  BY <1>1 DEF Range
<1>3. PICK x \in T : \A y \in T : y <= x
  <2> HIDE DEF T
  <2>q. QED BY <1>1, <1>2, LastExists
<1>4. \E i \in DOMAIN s : s[i] = l /\ \A j \in DOMAIN s : s[j] = l => j <= i
  BY <1>1, <1>3
<1>q. QED BY <1>1, <1>4 DEF leafByCommit

(* A step of the sync promotes a note only to the index its leaf has in    *)
(* the chain.                                                              *)
LEMMA NotesStep ==
  ASSUME SyncInv, SyncStep
  PROVE  SyncInv'
<1>0. ScanInv /\ SyncTyped
  BY DEF SyncInv
<1>1. UNCHANGED <<leafChainVars, persisted, memCache, scan>>
  BY DEF SyncStep, SaveNote, SyncStart, SyncLeaves, SyncWrite, SyncFails, scanAll, scanVars
<1>2. blocks' = blocks /\ reorgs' = reorgs /\ lag' = lag /\ persisted' = persisted /\ memCache' = memCache
      /\ scan' = scan
  BY <1>1 DEF leafChainVars
<1>3. ScanInv'
  BY <1>0, <1>2 DEF ScanInv, ChainTyped, ScanTyped, Height, IsDeep
<1>4. ChainLeaves' = ChainLeaves /\ ChainLeaves \in Seq(Leaves) /\ (OnlyGrown' <=> OnlyGrown)
  BY <1>0, <1>2, ChainLeavesType DEF ChainLeaves, LeavesIn, Height, OnlyGrown
<1>5. IsBeginning(<<>>)
  <2>1. PICK c \in Seq(Leaves) : c = ChainLeaves
    BY <1>4
  <2>2. Len(c) \in Nat /\ Len(<<>>) = 0
    OBVIOUS
  <2>q. QED BY <2>1, <2>2 DEF IsBeginning
<1>6. <<>> \in Seq(Leaves) /\ memCache \in Seq(Leaves)
  BY <1>0 DEF ScanInv, ScanTyped
<1>7. IsBeginning(memCache)' <=> IsBeginning(memCache)
  BY <1>2, <1>4 DEF IsBeginning
<1>8. ASSUME sync'.pc \in {"idle", "leaves", "write"},
             sync'.leaves \in {<<>>, sync.leaves, memCache},
             noteStore' = noteStore
      PROVE  SyncInv'
  <2>1. SyncTyped'
    BY <1>0, <1>6, <1>8 DEF SyncTyped
  <2>2. OnlyGrown => IsBeginning(sync.leaves)'
    BY <1>4, <1>5, <1>8 DEF SyncInv, IsBeginning
  <2>3. \A l \in Leaves : HasItsIndex(l)' <=> HasItsIndex(l)
    BY <1>4, <1>8 DEF HasItsIndex
  <2>q. QED BY <1>3, <1>4, <1>7, <2>1, <2>2, <2>3 DEF SyncInv
<1>9. ASSUME NEW l \in Leaves, SaveNote(l) PROVE SyncInv'
  <2>1. noteStore' = [noteStore EXCEPT ![l] = Pending] /\ sync' = sync
    BY <1>9 DEF SaveNote
  <2>2. SyncTyped'
    BY <1>0, <2>1 DEF SyncTyped
  <2>3. ASSUME NEW k \in Leaves, HasItsIndex(k) PROVE HasItsIndex(k)'
    <3>1. CASE k = l
      <4>1. noteStore'[k] = Pending
        BY <1>0, <2>1, <3>1 DEF SyncTyped
      <4>q. QED BY <4>1 DEF HasItsIndex, Pending
    <3>2. CASE k # l
      <4>1. noteStore'[k] = noteStore[k]
        BY <1>0, <2>1, <3>2 DEF SyncTyped
      <4>q. QED BY <1>4, <2>3, <4>1 DEF HasItsIndex
    <3>q. QED BY <3>1, <3>2
  <2>4. IsBeginning(sync.leaves)' <=> IsBeginning(sync.leaves)
    BY <1>4, <2>1 DEF IsBeginning
  <2>q. QED BY <1>3, <1>4, <1>7, <2>2, <2>3, <2>4 DEF SyncInv
<1>10. CASE SyncStart
  <2>1. sync' = [NoSync EXCEPT !.pc = "leaves", !.stale = Stale] /\ noteStore' = noteStore
    BY <1>10 DEF SyncStart
  <2>2. sync'.pc = "leaves" /\ sync'.leaves = <<>>
    BY <2>1 DEF NoSync
  <2>q. QED BY <1>8, <2>1, <2>2
<1>11. CASE SyncLeaves
  <2>1. sync.pc = "leaves" /\ sync' = [sync EXCEPT !.pc = "write", !.leaves = memCache] /\ noteStore' = noteStore
    BY <1>11 DEF SyncLeaves
  <2>2. sync'.pc = "write" /\ sync'.leaves = memCache
    BY <1>0, <2>1 DEF SyncTyped
  <2>q. QED BY <1>8, <2>1, <2>2
<1>12. CASE SyncFails
  <2>1. sync' = NoSync /\ noteStore' = noteStore
    BY <1>12 DEF SyncFails
  <2>2. sync'.pc = "idle" /\ sync'.leaves = <<>>
    BY <2>1 DEF NoSync
  <2>q. QED BY <1>8, <2>1, <2>2
<1>13. CASE SyncWrite
  <2>1. CASE sync' = NoSync /\ noteStore' = noteStore
    <3>1. sync'.pc = "idle" /\ sync'.leaves = <<>>
      BY <2>1 DEF NoSync
    <3>q. QED BY <1>8, <2>1, <3>1
  <2>2. ASSUME NEW l \in Found,
               noteStore' = [noteStore EXCEPT ![l] = Promoted(l)],
               sync' = [sync EXCEPT !.stale = @ \ {l}]
        PROVE  SyncInv'
    <3>1. l \in Range(sync.leaves)
      BY DEF Found
    <3>2. PICK s \in Seq(Leaves) : s = sync.leaves
      BY <1>0 DEF SyncTyped
    <3>3. PICK i : i = leafByCommit(s, l)
      OBVIOUS
    <3>4. i \in 1 .. Len(s) /\ s[i] = l /\ Len(s) \in Nat
      BY <3>1, <3>2, <3>3, PositionIsItsOwn
    <3>5. l \in Leaves
      BY <3>4, ElementOfSeq
    <3>6. Promoted(l) = [status |-> "active", leafIndex |-> i - 1]
      BY <3>2, <3>3 DEF Promoted
    <3>7. sync'.pc = sync.pc /\ sync'.leaves = sync.leaves
      BY <2>2
    <3>8. SyncTyped'
      BY <1>0, <2>2, <3>7 DEF SyncTyped
    <3>9. IsBeginning(sync.leaves)' <=> IsBeginning(sync.leaves)
      BY <1>4, <3>7 DEF IsBeginning
    <3>10. ASSUME NEW k \in Leaves, OnlyGrown PROVE HasItsIndex(k)'
      <4>1. CASE k = l
        <5>1. noteStore'[k] = [status |-> "active", leafIndex |-> i - 1]
          BY <1>0, <2>2, <3>6, <4>1 DEF SyncTyped
        <5>2. noteStore'[k].leafIndex + 1 = i
          BY <3>4, <5>1
        <5>3. PICK c \in Seq(Leaves) : c = ChainLeaves
          BY <1>4
        <5>4. Len(c) \in Nat /\ Len(s) <= Len(c) /\ \A j \in 1 .. Len(s) : s[j] = c[j]
          BY <3>2, <3>10, <5>3 DEF SyncInv, IsBeginning
        <5>5. i \in 1 .. Len(c) /\ c[i] = l
          BY <3>4, <5>4
        <5>q. QED BY <1>4, <4>1, <5>2, <5>3, <5>5 DEF HasItsIndex
      <4>2. CASE k # l
        <5>1. noteStore'[k] = noteStore[k]
          BY <1>0, <2>2, <4>2 DEF SyncTyped
        <5>2. HasItsIndex(k)
          BY <3>10 DEF SyncInv
        <5>q. QED BY <1>4, <5>1, <5>2 DEF HasItsIndex
      <4>q. QED BY <4>1, <4>2
    <3>q. QED BY <1>3, <1>4, <1>7, <3>8, <3>9, <3>10 DEF SyncInv
  <2>q. QED BY <1>13, <2>1, <2>2 DEF SyncWrite
<1>q. QED BY <1>9, <1>10, <1>11, <1>12, <1>13 DEF SyncStep

(* A step that changes nothing keeps the invariant.                        *)
LEMMA SyncStutters ==
  ASSUME SyncInv, UNCHANGED syncAll
  PROVE  SyncInv'
<1>1. /\ blocks' = blocks /\ reorgs' = reorgs /\ lag' = lag /\ persisted' = persisted /\ memCache' = memCache
      /\ scan' = scan /\ noteStore' = noteStore /\ sync' = sync
  BY DEF syncAll, syncVars, scanAll, scanVars, leafChainVars
<1>2. ChainLeaves' = ChainLeaves
  BY <1>1 DEF ChainLeaves, LeavesIn, Height
<1>3. ScanInv'
  BY <1>1 DEF SyncInv, ScanInv, ChainTyped, ScanTyped, Height, IsDeep
<1>q. QED BY <1>1, <1>2, <1>3 DEF SyncInv, SyncTyped, OnlyGrown, IsBeginning, HasItsIndex

(* As long as the chain has only grown it had only grown before.           *)
LEMMA GrownBefore ==
  ASSUME ChainTyped, [SyncNext]_syncAll
  PROVE  ChainTyped' /\ (OnlyGrown' => OnlyGrown)
<1>1. ChainMoves
  <2>1. CASE ScanNext
    BY <2>1 DEF ScanNext, ScanStep, StartScan, ScanConfirmed, ScanTail, Expire, ScanFails, ChainMoves
  <2>2. CASE SyncStep
    BY <2>2 DEF SyncStep, SaveNote, SyncStart, SyncLeaves, SyncWrite, SyncFails, scanAll, ChainMoves
  <2>3. CASE UNCHANGED syncAll
    BY <2>3 DEF syncAll, scanAll, ChainMoves
  <2>q. QED BY <2>1, <2>2, <2>3 DEF SyncNext
<1>2. ChainTyped' /\ lag' = lag /\ reorgs' \in 0 .. reorgs
  BY <1>1, ChainStays
<1>3. reorgs \in 0 .. MaxLeafReorgs /\ MaxLeafReorgs \in Nat
  BY ScanConstants DEF ChainTyped
<1>q. QED BY <1>2, <1>3 DEF OnlyGrown

(* While the chain has only grown and no replica lags, every active note   *)
(* carries the index its leaf has in the pool's tree: the index its        *)
(* membership proof is made for.                                           *)
THEOREM NotesStayAtTheirIndex == SyncSpec => []ActiveNoteIsAtItsIndex
<1> DEFINE Inv == ChainTyped /\ (OnlyGrown => SyncInv)
<1>1. SyncInit => Inv
  BY SyncStarts DEF SyncInv, ScanInv
<1>2. Inv /\ [SyncNext]_syncAll => Inv'
  <2>1. SUFFICES ASSUME Inv, [SyncNext]_syncAll PROVE Inv'
    OBVIOUS
  <2>2. ChainTyped' /\ (OnlyGrown' => OnlyGrown)
    BY <2>1, GrownBefore
  <2>3. ASSUME OnlyGrown' PROVE SyncInv'
    <3>1. SyncInv
      BY <2>1, <2>2, <2>3
    <3>q. QED BY <2>1, <2>3, <3>1, ScanKeepsNotes, NotesStep, SyncStutters DEF SyncNext
  <2>q. QED BY <2>2, <2>3
<1>3. Inv => ActiveNoteIsAtItsIndex
  <2>1. CASE OnlyGrown
    BY <2>1, SyncImplies
  <2>2. CASE ~OnlyGrown
    BY <2>2 DEF OnlyGrown, ActiveNoteIsAtItsIndex
  <2>q. QED BY <2>1, <2>2
<1> HIDE DEF Inv
<1>q. QED BY <1>1, <1>2, <1>3, PTL DEF SyncSpec

-----------------------------------------------------------------------------
(* Powers of two, counted as sets of subsets.                              *)
LEMMA PowerOfTwo ==
  ASSUME NEW n \in Nat
  PROVE  2 ^ n \in Nat /\ 2 ^ n > 0 /\ 2 ^ (n + 1) = 2 * 2 ^ n
<1>1. PICK m \in Nat : m = n + 1 /\ ~(m \in 1 .. n) /\ 1 .. m = (1 .. n) \cup {m}
  OBVIOUS
<1>2. IsFiniteSet(1 .. n) /\ Cardinality(1 .. n) = n
  BY FS_Interval
<1>3. IsFiniteSet(1 .. m) /\ Cardinality(1 .. m) = m
  BY FS_Interval
<1>4. PICK S : S = SUBSET (1 .. n)
  OBVIOUS
<1>5. IsFiniteSet(S) /\ Cardinality(S) = 2 ^ n
  BY <1>2, <1>4, FS_SUBSET
<1>6. IsFiniteSet(SUBSET (1 .. m)) /\ Cardinality(SUBSET (1 .. m)) = 2 ^ m
  BY <1>3, FS_SUBSET
<1> DEFINE With == {x \cup {m} : x \in S}
<1> DEFINE F == [x \in S |-> x \cup {m}]
<1>7. F \in Bijection(S, With)
  <2>1. F \in [S -> With]
    OBVIOUS
  <2>2. \A x, y \in S : F[x] = F[y] => x = y
    <3>1. SUFFICES ASSUME NEW x \in S, NEW y \in S, F[x] = F[y] PROVE x = y
      OBVIOUS
    <3>2. x \cup {m} = y \cup {m} /\ m \notin x /\ m \notin y
      BY <1>1, <1>4, <3>1
    <3>q. QED BY <3>2
  <2>3. \A z \in With : \E x \in S : F[x] = z
    OBVIOUS
  <2>q. QED BY <2>1, <2>2, <2>3, Fun_IsBij
<1>8. IsFiniteSet(With) /\ Cardinality(With) = 2 ^ n
  <2>1. \E G : G \in Bijection(S, With)
    BY <1>7
  <2> HIDE DEF With, F
  <2>2. ExistsBijection(S, With)
    BY <1>7 DEF ExistsBijection
  <2>q. QED BY <1>5, <2>2, FS_Bijection
<1>9. SUBSET (1 .. m) = S \cup With
  <2>1. ASSUME NEW x \in SUBSET (1 .. m) PROVE x \in S \cup With
    <3>1. CASE m \in x
      <4>1. x \ {m} \in S /\ x = (x \ {m}) \cup {m}
        BY <1>1, <1>4, <3>1
      <4>q. QED BY <4>1
    <3>2. CASE m \notin x
      BY <1>1, <1>4, <3>2
    <3>q. QED BY <3>1, <3>2
  <2>2. ASSUME NEW x \in S \cup With PROVE x \in SUBSET (1 .. m)
    BY <1>1, <1>4
  <2>q. QED BY <2>1, <2>2
<1>10. S \cap With = {}
  BY <1>1, <1>4
<1> HIDE DEF With, F
<1>11. Cardinality(S \cup With) = Cardinality(S) + Cardinality(With) - Cardinality(S \cap With)
  BY <1>5, <1>8, FS_Union
<1>12. Cardinality({}) = 0
  BY FS_EmptySet
<1>13. Cardinality(S) \in Nat
  BY <1>5, FS_CardinalityType
<1>14. {} \in S
  BY <1>4
<1>15. Cardinality(S) # 0
  BY <1>5, <1>14, FS_EmptySet
<1>16. PICK c : c = 2 ^ n
  OBVIOUS
<1>17. PICK e : e = 2 ^ m
  OBVIOUS
<1>18. c \in Nat /\ c # 0 /\ e = c + c - 0
  BY Zenon, <1>5, <1>6, <1>8, <1>9, <1>10, <1>11, <1>12, <1>13, <1>15, <1>16, <1>17
<1>19. e = 2 * c /\ c > 0
  BY <1>18
<1>20. 2 ^ (n + 1) = e
  BY Zenon, <1>1, <1>17
<1>q. QED BY Zenon, <1>16, <1>18, <1>19, <1>20

-----------------------------------------------------------------------------
(* The tree has at least one level.                                        *)
LEMMA Levels == levels \in Nat /\ levels > 0
  BY LevelsAssumption

(* Induction up to the levels of the tree.                                 *)
LEMMA LevelInduction ==
  ASSUME NEW P, 0 \in P, \A l \in 0 .. levels - 1 : l \in P => l + 1 \in P
  PROVE  \A l \in 0 .. levels : l \in P
<1> DEFINE Q == {n \in Nat : n \in 0 .. levels => n \in P}
<1>1. 0 \in Q
  OBVIOUS
<1>2. ASSUME NEW n \in Nat, n \in Q PROVE n + 1 \in Q
  <2>1. CASE n + 1 \in 0 .. levels
    <3>1. n \in 0 .. levels - 1
      BY <2>1, Levels
    <3>2. n \in 0 .. levels
      BY <3>1, Levels
    <3>q. QED BY <1>2, <3>1, <3>2
  <2>2. CASE n + 1 \notin 0 .. levels
    BY <2>2
  <2>q. QED BY <2>1, <2>2
<1> HIDE DEF Q
<1>3. \A n \in Nat : n \in Q
  BY <1>1, <1>2, SetInduction
<1>4. ASSUME NEW l \in 0 .. levels PROVE l \in P
  <2>1. l \in Nat /\ l \in Q
    BY <1>3
  <2>q. QED BY <2>1 DEF Q
<1>q. QED BY <1>4

(* The zero of every level.                                                *)
IsZeros(n, f) == f = [i \in 0 .. n |-> IF i = 0 THEN Leaf(0) ELSE hashPair(f[i - 1], f[i - 1])]

(* The zero nodes up to level n: as a recursive function, and by its       *)
(* values.                                                                 *)
LEMMA ZerosValues ==
  ASSUME NEW n \in Nat, NEW f
  PROVE  IsZeros(n, f) <=>
            /\ f = [i \in 0 .. n |-> f[i]]
            /\ f[0] = Leaf(0)
            /\ \A i \in 0 .. n - 1 : f[i + 1] = hashPair(f[i], f[i])
<1> DEFINE V(i) == IF i = 0 THEN Leaf(0) ELSE hashPair(f[i - 1], f[i - 1])
<1>1. IsZeros(n, f) <=> f = [i \in 0 .. n |-> V(i)]
  BY DEF IsZeros
<1>2. V(0) = Leaf(0)
  OBVIOUS
<1>3. ASSUME NEW i \in 0 .. n - 1 PROVE V(i + 1) = hashPair(f[i], f[i])
  <2>1. i + 1 # 0 /\ i + 1 - 1 = i
    OBVIOUS
  <2>q. QED BY <2>1
<1>4. ASSUME NEW i \in 0 .. n, i # 0 PROVE i - 1 \in 0 .. n - 1 /\ i - 1 + 1 = i
  BY <1>4
<1> HIDE DEF V
<1>5. ASSUME f = [i \in 0 .. n |-> V(i)]
      PROVE  /\ f = [i \in 0 .. n |-> f[i]]
             /\ f[0] = Leaf(0)
             /\ \A i \in 0 .. n - 1 : f[i + 1] = hashPair(f[i], f[i])
  <2>1. \A i \in 0 .. n : f[i] = V(i)
    BY <1>5
  <2>2. 0 \in 0 .. n /\ \A i \in 0 .. n - 1 : i + 1 \in 0 .. n
    OBVIOUS
  <2>q. QED BY <1>2, <1>3, <1>5, <2>1, <2>2
<1>6. ASSUME f = [i \in 0 .. n |-> f[i]], f[0] = Leaf(0),
             \A i \in 0 .. n - 1 : f[i + 1] = hashPair(f[i], f[i])
      PROVE  f = [i \in 0 .. n |-> V(i)]
  <2>1. ASSUME NEW i \in 0 .. n PROVE f[i] = V(i)
    <3>1. CASE i = 0
      BY <1>2, <1>6, <3>1
    <3>2. CASE i # 0
      <4>1. PICK j \in 0 .. n - 1 : j + 1 = i
        BY <1>4, <3>2
      <4>q. QED BY <1>3, <1>6, <4>1
    <3>q. QED BY <3>1, <3>2
  <2>q. QED BY <1>6, <2>1
<1>q. QED BY <1>1, <1>5, <1>6

(* That function exists for every level.                                   *)
LEMMA ZerosExist == \A n \in Nat : \E f : IsZeros(n, f)
<1> DEFINE P == {k \in Nat : \E f : IsZeros(k, f)}
<1>1. 0 \in P
  <2> DEFINE f == [i \in 0 .. 0 |-> Leaf(0)]
  <2>1. f = [i \in 0 .. 0 |-> f[i]] /\ f[0] = Leaf(0)
    OBVIOUS
  <2> HIDE DEF f
  <2>2. \A i \in 0 .. 0 - 1 : f[i + 1] = hashPair(f[i], f[i])
    OBVIOUS
  <2>3. IsZeros(0, f)
    BY <2>1, <2>2, ZerosValues
  <2>q. QED BY <2>3
<1>2. ASSUME NEW k \in Nat, k \in P PROVE k + 1 \in P
  <2>1. PICK f : IsZeros(k, f)
    BY <1>2
  <2>2. PICK m \in Nat : m = k + 1
    OBVIOUS
  <2> DEFINE g == [i \in 0 .. m |-> IF i = m THEN hashPair(f[k], f[k]) ELSE f[i]]
  <2>3. /\ g = [i \in 0 .. m |-> g[i]]
        /\ \A i \in 0 .. k : g[i] = f[i]
        /\ g[m] = hashPair(f[k], f[k])
    BY <2>2
  <2> HIDE DEF g
  <2>4. /\ f[0] = Leaf(0)
        /\ \A i \in 0 .. k - 1 : f[i + 1] = hashPair(f[i], f[i])
    BY <2>1, ZerosValues
  <2>5. g[0] = Leaf(0)
    BY <2>3, <2>4
  <2>6. ASSUME NEW i \in 0 .. m - 1 PROVE g[i + 1] = hashPair(g[i], g[i])
    <3>1. CASE i = k
      <4>1. i + 1 = m /\ i \in 0 .. k
        BY <2>2, <3>1
      <4>q. QED BY <2>3, <3>1, <4>1
    <3>2. CASE i # k
      <4>1. i \in 0 .. k - 1 /\ i + 1 \in 0 .. k /\ i \in 0 .. k
        BY <2>2, <3>2
      <4>q. QED BY <2>3, <2>4, <4>1
    <3>q. QED BY <3>1, <3>2
  <2>7. IsZeros(m, g)
    BY <2>3, <2>5, <2>6, ZerosValues
  <2>q. QED BY <2>2, <2>7
<1> HIDE DEF P
<1>3. \A n \in Nat : n \in P
  BY <1>1, <1>2, SetInduction
<1>q. QED BY <1>3 DEF P

(* The zero of a level is the hash of two zeros of the level below.        *)
LEMMA Zeros ==
    /\ zeros[0] = Leaf(0)
    /\ \A l \in 0 .. levels - 1 : zeros[l + 1] = hashPair(zeros[l], zeros[l])
<1>1. zeros = CHOOSE f : IsZeros(levels, f)
  BY DEF zeros, IsZeros
<1>2. IsZeros(levels, zeros)
  BY <1>1, Levels, ZerosExist
<1>q. QED BY <1>2, Levels, ZerosValues

-----------------------------------------------------------------------------
(* The full tree over a row of leaves without end.                         *)
IsTree(b, n, f) ==
    f = [l \in 0 .. n |-> IF l = 0 THEN b ELSE [i \in Nat |-> hashPair(f[l - 1][2 * i], f[l - 1][2 * i + 1])]]

Above(row) == [i \in Nat |-> hashPair(row[2 * i], row[2 * i + 1])]

(* A tree of n levels: as a recursive function, and by its rows.           *)
LEMMA TreeValues ==
  ASSUME NEW b, NEW n \in Nat, NEW f
  PROVE  IsTree(b, n, f) <=>
            /\ f = [l \in 0 .. n |-> f[l]]
            /\ f[0] = b
            /\ \A l \in 0 .. n - 1 : f[l + 1] = Above(f[l])
<1> DEFINE V(l) == IF l = 0 THEN b ELSE Above(f[l - 1])
<1>1. IsTree(b, n, f) <=> f = [l \in 0 .. n |-> V(l)]
  BY DEF IsTree, Above
<1>2. V(0) = b
  OBVIOUS
<1>3. ASSUME NEW l \in 0 .. n - 1 PROVE V(l + 1) = Above(f[l])
  <2>1. l + 1 # 0 /\ l + 1 - 1 = l
    OBVIOUS
  <2>q. QED BY <2>1
<1>4. ASSUME NEW l \in 0 .. n, l # 0 PROVE l - 1 \in 0 .. n - 1 /\ l - 1 + 1 = l
  BY <1>4
<1> HIDE DEF V
<1>5. ASSUME f = [l \in 0 .. n |-> V(l)]
      PROVE  /\ f = [l \in 0 .. n |-> f[l]]
             /\ f[0] = b
             /\ \A l \in 0 .. n - 1 : f[l + 1] = Above(f[l])
  <2>1. \A l \in 0 .. n : f[l] = V(l)
    BY <1>5
  <2>2. 0 \in 0 .. n /\ \A l \in 0 .. n - 1 : l + 1 \in 0 .. n
    OBVIOUS
  <2>q. QED BY <1>2, <1>3, <1>5, <2>1, <2>2
<1>6. ASSUME f = [l \in 0 .. n |-> f[l]], f[0] = b,
             \A l \in 0 .. n - 1 : f[l + 1] = Above(f[l])
      PROVE  f = [l \in 0 .. n |-> V(l)]
  <2>1. ASSUME NEW l \in 0 .. n PROVE f[l] = V(l)
    <3>1. CASE l = 0
      BY <1>2, <1>6, <3>1
    <3>2. CASE l # 0
      <4>1. PICK j \in 0 .. n - 1 : j + 1 = l
        BY <1>4, <3>2
      <4>q. QED BY <1>3, <1>6, <4>1
    <3>q. QED BY <3>1, <3>2
  <2>q. QED BY <1>6, <2>1
<1>q. QED BY <1>1, <1>5, <1>6

(* Every row of leaves is the bottom of a tree of any number of levels.    *)
LEMMA TreeExists ==
  ASSUME NEW b
  PROVE  \A n \in Nat : \E f : IsTree(b, n, f)
<1> DEFINE P == {k \in Nat : \E f : IsTree(b, k, f)}
<1>1. 0 \in P
  <2> DEFINE f == [i \in 0 .. 0 |-> b]
  <2>1. f = [i \in 0 .. 0 |-> f[i]] /\ f[0] = b
    OBVIOUS
  <2> HIDE DEF f
  <2>2. \A l \in 0 .. 0 - 1 : f[l + 1] = Above(f[l])
    OBVIOUS
  <2>3. IsTree(b, 0, f)
    BY <2>1, <2>2, TreeValues
  <2>q. QED BY <2>3
<1>2. ASSUME NEW k \in Nat, k \in P PROVE k + 1 \in P
  <2>1. PICK f : IsTree(b, k, f)
    BY <1>2
  <2>2. PICK m \in Nat : m = k + 1
    OBVIOUS
  <2> DEFINE g == [i \in 0 .. m |-> IF i = m THEN Above(f[k]) ELSE f[i]]
  <2>3. /\ g = [i \in 0 .. m |-> g[i]]
        /\ \A i \in 0 .. k : g[i] = f[i]
        /\ g[m] = Above(f[k])
    BY <2>2
  <2> HIDE DEF g
  <2>4. /\ f[0] = b
        /\ \A i \in 0 .. k - 1 : f[i + 1] = Above(f[i])
    BY <2>1, TreeValues
  <2>5. g[0] = b
    BY <2>3, <2>4
  <2>6. ASSUME NEW i \in 0 .. m - 1 PROVE g[i + 1] = Above(g[i])
    <3>1. CASE i = k
      <4>1. i + 1 = m /\ i \in 0 .. k
        BY <2>2, <3>1
      <4>q. QED BY <2>3, <3>1, <4>1
    <3>2. CASE i # k
      <4>1. i \in 0 .. k - 1 /\ i + 1 \in 0 .. k /\ i \in 0 .. k
        BY <2>2, <3>2
      <4>q. QED BY <2>3, <2>4, <4>1
    <3>q. QED BY <3>1, <3>2
  <2>7. IsTree(b, m, g)
    BY <2>3, <2>5, <2>6, TreeValues
  <2>q. QED BY <2>2, <2>7
<1> HIDE DEF P
<1>3. \A n \in Nat : n \in P
  BY <1>1, <1>2, SetInduction
<1>q. QED BY <1>3 DEF P

Tree(b) == CHOOSE f : IsTree(b, levels, f)

(* The rows of the tree over b.                                            *)
LEMMA TreeRows ==
  ASSUME NEW b
  PROVE  /\ Tree(b)[0] = b
         /\ \A l \in 0 .. levels - 1 : Tree(b)[l + 1] = Above(Tree(b)[l])
<1>1. IsTree(b, levels, Tree(b))
  BY Levels, TreeExists DEF Tree
<1>q. QED BY <1>1, Levels, TreeValues

(* Every node above the leaves is the hash of its two children.            *)
LEMMA TreeNodes ==
  ASSUME NEW b
  PROVE  /\ Tree(b)[0] = b
         /\ \A l \in 0 .. levels - 1, i \in Nat :
              Tree(b)[l + 1][i] = hashPair(Tree(b)[l][2 * i], Tree(b)[l][2 * i + 1])
<1>1. PICK t : t = Tree(b)
  OBVIOUS
<1>2. t[0] = b /\ \A l \in 0 .. levels - 1 : t[l + 1] = Above(t[l])
  BY <1>1, TreeRows
<1>3. ASSUME NEW l \in 0 .. levels - 1, NEW i \in Nat
      PROVE  t[l + 1][i] = hashPair(t[l][2 * i], t[l][2 * i + 1])
  <2>1. Above(t[l])[i] = hashPair(t[l][2 * i], t[l][2 * i + 1])
    BY DEF Above
  <2>q. QED BY <1>2, <2>1
<1>q. QED BY <1>1, <1>2, <1>3

(* The leaves of the first n of s, padded with zero leaves.                *)
Bottom(s, n) == [i \in Nat |-> Leaf(IF i < n THEN s[i + 1] ELSE 0)]

(* The reference root is the root of the tree over the first n leaves.     *)
LEMMA ReferenceIsTree ==
  ASSUME NEW n
  PROVE  ReferenceRoot(n) = Tree(Bottom(inserted, n))[levels][0]
  BY DEF ReferenceRoot, Tree, IsTree, Bottom

-----------------------------------------------------------------------------
(* The path of a leaf: its index halved from level to level.               *)
IsHalving(n, d) ==
    /\ d \in [0 .. levels -> Nat]
    /\ d[0] = n
    /\ \A l \in 0 .. levels - 1 : d[l + 1] = d[l] \div 2

(* Every leaf has a path.                                                  *)
LEMMA HalvingExists ==
  ASSUME NEW n \in Nat
  PROVE  \E d : IsHalving(n, d)
<1> DEFINE P == {k \in Nat : \E d \in [0 .. k -> Nat] : /\ d[0] = n
                                                      /\ \A l \in 0 .. k - 1 : d[l + 1] = d[l] \div 2}
<1>1. 0 \in P
  <2> DEFINE d == [l \in 0 .. 0 |-> n]
  <2>1. d \in [0 .. 0 -> Nat] /\ d[0] = n
    OBVIOUS
  <2> HIDE DEF d
  <2>2. \A l \in 0 .. 0 - 1 : d[l + 1] = d[l] \div 2
    OBVIOUS
  <2>q. QED BY <2>1, <2>2
<1>2. ASSUME NEW k \in Nat, k \in P PROVE k + 1 \in P
  <2>1. PICK d \in [0 .. k -> Nat] : d[0] = n /\ \A l \in 0 .. k - 1 : d[l + 1] = d[l] \div 2
    BY <1>2
  <2>2. PICK m \in Nat : m = k + 1
    OBVIOUS
  <2> DEFINE g == [l \in 0 .. m |-> IF l = m THEN d[k] \div 2 ELSE d[l]]
  <2>3. d[k] \in Nat /\ d[k] \div 2 \in Nat
    BY <2>1
  <2>4. /\ g \in [0 .. m -> Nat]
        /\ \A l \in 0 .. k : g[l] = d[l]
        /\ g[m] = d[k] \div 2
    BY <2>2, <2>3
  <2> HIDE DEF g
  <2>5. g[0] = n
    BY <2>1, <2>4
  <2>6. ASSUME NEW l \in 0 .. m - 1 PROVE g[l + 1] = g[l] \div 2
    <3>1. CASE l = k
      <4>1. l + 1 = m /\ l \in 0 .. k
        BY <2>2, <3>1
      <4>q. QED BY <2>4, <3>1, <4>1
    <3>2. CASE l # k
      <4>1. l \in 0 .. k - 1 /\ l + 1 \in 0 .. k /\ l \in 0 .. k
        BY <2>2, <3>2
      <4>q. QED BY <2>1, <2>4, <4>1
    <3>q. QED BY <3>1, <3>2
  <2>7. m \in P
    BY <2>4, <2>5, <2>6
  <2>q. QED BY <2>2, <2>7
<1> HIDE DEF P
<1>3. \A k \in Nat : k \in P
  BY <1>1, <1>2, SetInduction
<1>4. levels \in P
  BY <1>3, Levels
<1>5. PICK d \in [0 .. levels -> Nat] : d[0] = n /\ \A l \in 0 .. levels - 1 : d[l + 1] = d[l] \div 2
  BY <1>4 DEF P
<1>q. QED BY <1>5 DEF IsHalving

(* A number is twice its half, or one more.                                *)
LEMMA Half ==
  ASSUME NEW a \in Nat
  PROVE  /\ a \div 2 \in Nat
         /\ a % 2 = 0 \/ a % 2 = 1
         /\ a % 2 = 0 => a = 2 * (a \div 2)
         /\ a % 2 = 1 => a = 2 * (a \div 2) + 1
  OBVIOUS

(* The path of a leaf of the tree ends at its root.                        *)
LEMMA PathEndsAtTheRoot ==
  ASSUME NEW n \in Nat, NEW d, IsHalving(n, d), n < 2 ^ levels
  PROVE  d[levels] = 0
<1> DEFINE P == {l \in 0 .. levels : d[l] < 2 ^ (levels - l)}
<1>1. 0 \in P
  <2>1. d[0] = n /\ levels - 0 = levels /\ 0 \in 0 .. levels
    BY Levels DEF IsHalving
  <2>q. QED BY <2>1
<1>2. ASSUME NEW l \in 0 .. levels - 1, l \in P PROVE l + 1 \in P
  <2>1. PICK k \in Nat : k = levels - (l + 1) /\ levels - l = k + 1
    <3>1. levels - (l + 1) \in Nat /\ levels - l = (levels - (l + 1)) + 1
      BY Levels
    <3>q. QED BY <3>1
  <2>2. 2 ^ k \in Nat /\ 2 ^ (k + 1) = 2 * 2 ^ k
    BY PowerOfTwo
  <2>3. d[l] \in Nat /\ d[l + 1] = d[l] \div 2
    BY Levels DEF IsHalving
  <2>4. PICK c \in Nat : c = 2 ^ k
    BY <2>2
  <2>5. d[l] < 2 ^ (levels - l)
    BY <1>2
  <2>6. d[l] < 2 * c
    BY <2>1, <2>2, <2>4, <2>5
  <2>7. d[l + 1] < c
    BY <2>3, <2>6
  <2>8. d[l + 1] < 2 ^ (levels - (l + 1))
    BY Zenon, <2>1, <2>4, <2>7
  <2>9. l + 1 \in 0 .. levels
    BY Levels
  <2>q. QED BY Zenon, <2>8, <2>9
<1> HIDE DEF P
<1>3. \A l \in 0 .. levels : l \in P
  BY <1>1, <1>2, LevelInduction
<1>4. levels \in P /\ levels - levels = 0
  BY <1>3, Levels
<1>5. d[levels] < 2 ^ 0
  BY <1>4 DEF P
<1>6. d[levels] \in Nat
  BY Levels DEF IsHalving
<1>q. QED BY <1>5, <1>6

(* Rows that differ in one leaf only differ on its path.                   *)
LEMMA SameOffPath ==
  ASSUME NEW n, NEW d, IsHalving(n, d), NEW b, NEW c, \A i \in Nat : i # n => b[i] = c[i]
  PROVE  \A l \in 0 .. levels, i \in Nat : i # d[l] => Tree(b)[l][i] = Tree(c)[l][i]
<1>1. PICK t : t = Tree(b)
  OBVIOUS
<1>2. PICK u : u = Tree(c)
  OBVIOUS
<1>3. /\ t[0] = b /\ u[0] = c
      /\ \A l \in 0 .. levels - 1, i \in Nat :
           /\ t[l + 1][i] = hashPair(t[l][2 * i], t[l][2 * i + 1])
           /\ u[l + 1][i] = hashPair(u[l][2 * i], u[l][2 * i + 1])
  BY <1>1, <1>2, TreeNodes
<1> DEFINE P == {l \in 0 .. levels : \A i \in Nat : i # d[l] => t[l][i] = u[l][i]}
<1>4. 0 \in P
  BY <1>3, Levels DEF IsHalving
<1>5. ASSUME NEW l \in 0 .. levels - 1, l \in P PROVE l + 1 \in P
  <2>1. ASSUME NEW i \in Nat, i # d[l + 1] PROVE t[l + 1][i] = u[l + 1][i]
    <3>1. d[l] \in Nat /\ d[l + 1] = d[l] \div 2
      BY Levels DEF IsHalving
    <3>2. 2 * i # d[l] /\ 2 * i + 1 # d[l] /\ 2 * i \in Nat /\ 2 * i + 1 \in Nat
      BY <2>1, <3>1
    <3>3. t[l][2 * i] = u[l][2 * i] /\ t[l][2 * i + 1] = u[l][2 * i + 1]
      BY <1>5, <3>2
    <3>q. QED BY <1>3, <3>3
  <2>2. l + 1 \in 0 .. levels
    BY Levels
  <2>q. QED BY <2>1, <2>2
<1> HIDE DEF P
<1>6. \A l \in 0 .. levels : l \in P
  BY <1>4, <1>5, LevelInduction
<1>7. ASSUME NEW l \in 0 .. levels, NEW i \in Nat, i # d[l] PROVE t[l][i] = u[l][i]
  BY <1>6, <1>7 DEF P
<1>q. QED BY <1>1, <1>2, <1>7

(* Rows that differ in a leaf differ on all of its path: the hash is free. *)
LEMMA DifferOnPath ==
  ASSUME NEW n \in Nat, NEW d, IsHalving(n, d), NEW b, NEW c, b[n] # c[n]
  PROVE  \A l \in 0 .. levels : Tree(b)[l][d[l]] # Tree(c)[l][d[l]]
<1>1. PICK t : t = Tree(b)
  OBVIOUS
<1>2. PICK u : u = Tree(c)
  OBVIOUS
<1>3. /\ t[0] = b /\ u[0] = c
      /\ \A l \in 0 .. levels - 1, i \in Nat :
           /\ t[l + 1][i] = hashPair(t[l][2 * i], t[l][2 * i + 1])
           /\ u[l + 1][i] = hashPair(u[l][2 * i], u[l][2 * i + 1])
  BY <1>1, <1>2, TreeNodes
<1> DEFINE P == {l \in 0 .. levels : t[l][d[l]] # u[l][d[l]]}
<1>4. 0 \in P
  BY <1>3, Levels DEF IsHalving
<1>5. ASSUME NEW l \in 0 .. levels - 1, l \in P PROVE l + 1 \in P
  <2>1. PICK a \in Nat : a = d[l] /\ d[l + 1] = a \div 2
    BY Levels DEF IsHalving
  <2>2. PICK e \in Nat : e = a \div 2
    BY <2>1, Half
  <2>3. a = 2 * e \/ a = 2 * e + 1
    BY <2>2, Half
  <2>4. t[l][a] # u[l][a]
    BY <1>5, <2>1
  <2>5. hashPair(t[l][2 * e], t[l][2 * e + 1]) # hashPair(u[l][2 * e], u[l][2 * e + 1])
    BY <2>3, <2>4 DEF hashPair
  <2>6. t[l + 1][e] # u[l + 1][e]
    BY <1>3, <2>5
  <2>7. l + 1 \in 0 .. levels
    BY Levels
  <2>q. QED BY <2>1, <2>2, <2>6, <2>7
<1> HIDE DEF P
<1>6. \A l \in 0 .. levels : l \in P
  BY <1>4, <1>5, LevelInduction
<1>7. ASSUME NEW l \in 0 .. levels PROVE t[l][d[l]] # u[l][d[l]]
  BY <1>6 DEF P
<1>q. QED BY <1>1, <1>2, <1>7

(* Beyond the path of the first free leaf every node is a zero.            *)
LEMMA ZeroBeyond ==
  ASSUME NEW n \in Nat, NEW d, IsHalving(n, d), NEW b, \A i \in Nat : i > n => b[i] = Leaf(0)
  PROVE  \A l \in 0 .. levels, i \in Nat : i > d[l] => Tree(b)[l][i] = zeros[l]
<1>1. PICK t : t = Tree(b)
  OBVIOUS
<1>2. /\ t[0] = b
      /\ \A l \in 0 .. levels - 1, i \in Nat : t[l + 1][i] = hashPair(t[l][2 * i], t[l][2 * i + 1])
  BY <1>1, TreeNodes
<1> DEFINE P == {l \in 0 .. levels : \A i \in Nat : i > d[l] => t[l][i] = zeros[l]}
<1>3. 0 \in P
  <2>1. d[0] = n /\ zeros[0] = Leaf(0) /\ 0 \in 0 .. levels
    BY Levels, Zeros DEF IsHalving
  <2>2. ASSUME NEW i \in Nat, i > d[0] PROVE t[0][i] = zeros[0]
    BY <1>2, <2>1, <2>2
  <2>q. QED BY <2>1, <2>2
<1>4. ASSUME NEW l \in 0 .. levels - 1, l \in P PROVE l + 1 \in P
  <2>1. ASSUME NEW i \in Nat, i > d[l + 1] PROVE t[l + 1][i] = zeros[l + 1]
    <3>1. d[l] \in Nat /\ d[l + 1] = d[l] \div 2
      BY Levels DEF IsHalving
    <3>2. 2 * i > d[l] /\ 2 * i + 1 > d[l] /\ 2 * i \in Nat /\ 2 * i + 1 \in Nat
      BY <2>1, <3>1
    <3>3. t[l][2 * i] = zeros[l] /\ t[l][2 * i + 1] = zeros[l]
      BY <1>4, <3>2
    <3>q. QED BY <1>2, <3>3, Zeros
  <2>2. l + 1 \in 0 .. levels
    BY Levels
  <2>q. QED BY <2>1, <2>2
<1> HIDE DEF P
<1>5. \A l \in 0 .. levels : l \in P
  BY <1>3, <1>4, LevelInduction
<1>6. ASSUME NEW l \in 0 .. levels, NEW i \in Nat, i > d[l] PROVE t[l][i] = zeros[l]
  BY <1>5, <1>6 DEF P
<1>q. QED BY <1>1, <1>6

(* A tree without leaves consists of zeros.                                *)
LEMMA EmptyTreeIsZero ==
  ASSUME NEW b, \A i \in Nat : b[i] = Leaf(0)
  PROVE  \A l \in 0 .. levels, i \in Nat : Tree(b)[l][i] = zeros[l]
<1>1. PICK t : t = Tree(b)
  OBVIOUS
<1>2. /\ t[0] = b
      /\ \A l \in 0 .. levels - 1, i \in Nat : t[l + 1][i] = hashPair(t[l][2 * i], t[l][2 * i + 1])
  BY <1>1, TreeNodes
<1> DEFINE P == {l \in 0 .. levels : \A i \in Nat : t[l][i] = zeros[l]}
<1>3. 0 \in P
  BY <1>2, Levels, Zeros
<1>4. ASSUME NEW l \in 0 .. levels - 1, l \in P PROVE l + 1 \in P
  <2>1. ASSUME NEW i \in Nat PROVE t[l + 1][i] = zeros[l + 1]
    <3>1. 2 * i \in Nat /\ 2 * i + 1 \in Nat
      OBVIOUS
    <3>2. t[l][2 * i] = zeros[l] /\ t[l][2 * i + 1] = zeros[l]
      BY <1>4, <3>1
    <3>q. QED BY <1>2, <3>2, Zeros
  <2>2. l + 1 \in 0 .. levels
    BY Levels
  <2>q. QED BY <2>1, <2>2
<1> HIDE DEF P
<1>5. \A l \in 0 .. levels : l \in P
  BY <1>3, <1>4, LevelInduction
<1>6. ASSUME NEW l \in 0 .. levels, NEW i \in Nat PROVE t[l][i] = zeros[l]
  BY <1>5 DEF P
<1>q. QED BY <1>1, <1>6

-----------------------------------------------------------------------------
(* The walk of insert.                                                     *)
NextNode(p, i) ==
    IF IsLeftChild(p.index)
    THEN [hash |-> hashPair(p.hash, zeros[i - 1]),
          index |-> p.index \div 2,
          filled |-> [p.filled EXCEPT ![i - 1] = p.hash]]
    ELSE [hash |-> hashPair(p.filled[i - 1], p.hash),
          index |-> p.index \div 2,
          filled |-> p.filled]

IsWalk(leaf, f) ==
    f = [i \in 0 .. levels |->
          IF i = 0 THEN [hash |-> Leaf(leaf), index |-> nextIndex, filled |-> filledSubtrees]
          ELSE NextNode(f[i - 1], i)]

(* The walk of insert is the recursive function that goes from node to     *)
(* node.                                                                   *)
LEMMA PathIsWalk ==
  ASSUME NEW leaf
  PROVE  Path(leaf) = (CHOOSE f : IsWalk(leaf, f))[levels]
  BY DEF Path, IsWalk, NextNode

(* What the walk needs of a tree t: the new leaf at the end of the path d, *)
(* zeros to the right of the path, the recorded left nodes to its left.    *)
FitsTheTree(leaf, t, d) ==
    /\ IsHalving(nextIndex, d)
    /\ t[0][nextIndex] = Leaf(leaf)
    /\ \A l \in 0 .. levels - 1, i \in Nat : t[l + 1][i] = hashPair(t[l][2 * i], t[l][2 * i + 1])
    /\ \A l \in 0 .. levels - 1 : d[l] % 2 = 0 => t[l][d[l] + 1] = zeros[l]
    /\ \A l \in 0 .. levels - 1 : d[l] % 2 = 1 => t[l][d[l] - 1] = filledSubtrees[l]
    /\ filledSubtrees = [j \in 0 .. levels - 1 |-> filledSubtrees[j]]

FilledAfter(t, d) == [j \in 0 .. levels - 1 |-> IF d[j] % 2 = 0 THEN t[j][d[j]] ELSE filledSubtrees[j]]

(* Then the walk visits the nodes of t on the path.                        *)
LEMMA WalkFollowsTheTree ==
  ASSUME NEW leaf, NEW d, NEW t, FitsTheTree(leaf, t, d)
  PROVE  Path(leaf).hash = t[levels][d[levels]] /\ Path(leaf).filled = FilledAfter(t, d)
<1>0. /\ IsHalving(nextIndex, d)
      /\ t[0][nextIndex] = Leaf(leaf)
      /\ \A l \in 0 .. levels - 1, i \in Nat : t[l + 1][i] = hashPair(t[l][2 * i], t[l][2 * i + 1])
      /\ \A l \in 0 .. levels - 1 : d[l] % 2 = 0 => t[l][d[l] + 1] = zeros[l]
      /\ \A l \in 0 .. levels - 1 : d[l] % 2 = 1 => t[l][d[l] - 1] = filledSubtrees[l]
      /\ filledSubtrees = [j \in 0 .. levels - 1 |-> filledSubtrees[j]]
  BY Zenon DEF FitsTheTree
<1> DEFINE Known(l) == [j \in 0 .. levels - 1 |-> IF j < l /\ d[j] % 2 = 0 THEN t[j][d[j]] ELSE filledSubtrees[j]]
<1> DEFINE At(l) == [hash |-> t[l][d[l]], index |-> d[l], filled |-> Known(l)]
<1>1. Known(0) = filledSubtrees
  <2>1. \A j \in 0 .. levels - 1 : ~(j < 0)
    OBVIOUS
  <2>2. Known(0) = [j \in 0 .. levels - 1 |-> filledSubtrees[j]]
    BY <2>1
  <2>q. QED BY Zenon, <1>0, <2>2
<1>2. At(0) = [hash |-> Leaf(leaf), index |-> nextIndex, filled |-> filledSubtrees]
  <2>1. d[0] = nextIndex
    BY <1>0 DEF IsHalving
  <2>q. QED BY <1>0, <1>1, <2>1
<1>3. ASSUME NEW l \in 0 .. levels - 1 PROVE NextNode(At(l), l + 1) = At(l + 1)
  <2>1. PICK a \in Nat : a = d[l] /\ d[l + 1] = a \div 2
    BY <1>0, Levels DEF IsHalving
  <2>2. PICK e \in Nat : e = a \div 2 /\ d[l + 1] = e
    BY <2>1, Half
  <2>3. PICK k : k = l + 1
    OBVIOUS
  <2>4. k - 1 = l /\ \A j \in 0 .. levels - 1 : j < k <=> (j < l \/ j = l)
    BY <2>3, Levels
  <2>5. t[k][e] = hashPair(t[l][2 * e], t[l][2 * e + 1])
    BY <1>0, <2>3
  <2>6. /\ At(l).hash = t[l][a] /\ At(l).index = a /\ At(l).filled = Known(l)
    BY <2>1
  <2>7. At(k) = [hash |-> t[k][e], index |-> e, filled |-> Known(k)]
    BY <2>2, <2>3
  <2>8. Known(l)[l] = filledSubtrees[l]
    <3>1. ~(l < l)
      OBVIOUS
    <3>q. QED BY <3>1
  <2>9. DOMAIN Known(l) = 0 .. levels - 1
    OBVIOUS
  <2>10. CASE a % 2 = 0
    <3>1. a = 2 * e
      BY <2>2, <2>10, Half
    <3>2. t[l][a + 1] = zeros[l]
      BY <1>0, <2>1, <2>10
    <3>3. t[k][e] = hashPair(t[l][a], zeros[l])
      BY <2>5, <3>1, <3>2
    <3>4. [Known(l) EXCEPT ![l] = t[l][a]] = Known(k)
      <4>1. ASSUME NEW j \in 0 .. levels - 1
            PROVE  [Known(l) EXCEPT ![l] = t[l][a]][j] = Known(k)[j]
        <5>1. CASE j = l
          BY <2>1, <2>4, <2>10, <5>1
        <5>2. CASE j # l
          BY <2>4, <5>2
        <5>q. QED BY <5>1, <5>2
      <4>q. QED BY <4>1
    <3> HIDE DEF At, Known
    <3>5. IsLeftChild(At(l).index)
      BY <2>6, <2>10 DEF IsLeftChild
    <3>6. NextNode(At(l), k) = [hash |-> hashPair(At(l).hash, zeros[k - 1]), index |-> At(l).index \div 2,
                                filled |-> [At(l).filled EXCEPT ![k - 1] = At(l).hash]]
      BY <3>5, Zenon DEF NextNode
    <3>7. NextNode(At(l), k) = [hash |-> hashPair(t[l][a], zeros[l]), index |-> e,
                                filled |-> [Known(l) EXCEPT ![l] = t[l][a]]]
      BY <2>2, <2>4, <2>6, <3>6, Zenon
    <3>q. QED BY <2>3, <2>7, <3>3, <3>4, <3>7, Zenon
  <2>11. CASE a % 2 = 1
    <3>1. a = 2 * e + 1 /\ a - 1 = 2 * e
      BY <2>2, <2>11, Half
    <3>2. t[l][a - 1] = filledSubtrees[l]
      BY <1>0, <2>1, <2>11
    <3>3. t[k][e] = hashPair(filledSubtrees[l], t[l][a])
      BY <2>5, <3>1, <3>2
    <3>4. Known(l) = Known(k)
      <4>1. ASSUME NEW j \in 0 .. levels - 1
            PROVE  Known(l)[j] = Known(k)[j]
        <5>1. CASE j = l
          BY <2>1, <2>4, <2>11, <5>1
        <5>2. CASE j # l
          BY <2>4, <5>2
        <5>q. QED BY <5>1, <5>2
      <4>q. QED BY <4>1
    <3> HIDE DEF At, Known
    <3>5. ~IsLeftChild(At(l).index)
      BY <2>6, <2>11 DEF IsLeftChild
    <3>6. NextNode(At(l), k) = [hash |-> hashPair(At(l).filled[k - 1], At(l).hash), index |-> At(l).index \div 2,
                                filled |-> At(l).filled]
      BY <3>5, Zenon DEF NextNode
    <3>7. NextNode(At(l), k) = [hash |-> hashPair(filledSubtrees[l], t[l][a]), index |-> e, filled |-> Known(l)]
      BY <2>2, <2>4, <2>6, <2>8, <3>6, Zenon
    <3>q. QED BY <2>3, <2>7, <3>3, <3>4, <3>7, Zenon
  <2>q. QED BY <2>10, <2>11, Half
<1>4. Known(levels) = FilledAfter(t, d)
  <2>1. \A j \in 0 .. levels - 1 : j < levels
    BY Levels
  <2>q. QED BY <2>1 DEF FilledAfter
<1>5. At(levels).hash = t[levels][d[levels]] /\ At(levels).filled = Known(levels)
  OBVIOUS
<1> HIDE DEF At, Known
<1> DEFINE V(f, i) == IF i = 0 THEN [hash |-> Leaf(leaf), index |-> nextIndex, filled |-> filledSubtrees]
                      ELSE NextNode(f[i - 1], i)
<1>6. \A f : IsWalk(leaf, f) <=> f = [i \in 0 .. levels |-> V(f, i)]
  BY DEF IsWalk
<1>7. ASSUME NEW f PROVE V(f, 0) = At(0)
  BY <1>2
<1>8. ASSUME NEW f, NEW l \in 0 .. levels - 1, f[l] = At(l) PROVE V(f, l + 1) = At(l + 1)
  <2>1. l + 1 # 0 /\ l + 1 - 1 = l
    OBVIOUS
  <2>2. V(f, l + 1) = NextNode(f[l], l + 1)
    BY <2>1
  <2>q. QED BY Zenon, <1>3, <1>8, <2>2
<1> HIDE DEF V
<1>9. \E f : IsWalk(leaf, f)
  <2> DEFINE f == [i \in 0 .. levels |-> At(i)]
  <2>1. ASSUME NEW i \in 0 .. levels PROVE V(f, i) = At(i)
    <3>1. CASE i = 0
      BY <1>7, <3>1
    <3>2. CASE i # 0
      <4>1. PICK l \in 0 .. levels - 1 : l + 1 = i /\ l \in 0 .. levels
        <5>1. i - 1 \in 0 .. levels - 1 /\ i - 1 + 1 = i /\ i - 1 \in 0 .. levels
          BY <3>2, Levels
        <5>q. QED BY <5>1
      <4>2. f[l] = At(l)
        BY <4>1
      <4> HIDE DEF f
      <4>q. QED BY <1>8, <4>1, <4>2
    <3>q. QED BY <3>1, <3>2
  <2>2. f = [i \in 0 .. levels |-> V(f, i)]
    BY <2>1
  <2>q. QED BY <1>6, <2>2
<1>10. PICK f : f = (CHOOSE g : IsWalk(leaf, g)) /\ IsWalk(leaf, f)
  BY <1>9
<1>11. \A i \in 0 .. levels : f[i] = V(f, i)
  <2>1. f = [i \in 0 .. levels |-> V(f, i)]
    BY Zenon, <1>6, <1>10
  <2>2. ASSUME NEW i \in 0 .. levels PROVE [j \in 0 .. levels |-> V(f, j)][i] = V(f, i)
    OBVIOUS
  <2>q. QED BY Zenon, <2>1, <2>2
<1> DEFINE P == {l \in 0 .. levels : f[l] = At(l)}
<1>12. 0 \in P
  <2>1. 0 \in 0 .. levels
    BY Levels
  <2>2. f[0] = At(0)
    BY <1>7, <1>11, <2>1
  <2>q. QED BY <2>1, <2>2
<1>13. ASSUME NEW l \in 0 .. levels - 1, l \in P PROVE l + 1 \in P
  <2>1. l + 1 \in 0 .. levels /\ f[l] = At(l)
    BY <1>13, Levels
  <2>2. f[l + 1] = At(l + 1)
    BY <1>8, <1>11, <2>1
  <2>q. QED BY <2>1, <2>2
<1> HIDE DEF P
<1>14. \A l \in 0 .. levels : l \in P
  BY <1>12, <1>13, LevelInduction
<1>15. f[levels] = At(levels)
  BY <1>14, Levels DEF P
<1>16. Path(leaf) = At(levels)
  BY <1>10, <1>15, PathIsWalk
<1>q. QED BY Zenon, <1>4, <1>5, <1>16

-----------------------------------------------------------------------------
(* The root of the tree over the first m leaves of s.                      *)
Root(s, m) == Tree(Bottom(s, m))[levels][0]

(* The ring has at least one slot.                                         *)
LEMMA RingSize == ROOT_HISTORY_SIZE \in Nat /\ ROOT_HISTORY_SIZE > 0
  BY HistoryAssumption

(* A root is a hash, never the value of a slot that was not written.       *)
LEMMA RootIsNode ==
  ASSUME NEW s, NEW m
  PROVE  Root(s, m) # Unset
<1>1. PICK t : t = Tree(Bottom(s, m))
  OBVIOUS
<1>2. PICK k \in 0 .. levels - 1 : k + 1 = levels
  <2>1. levels - 1 \in 0 .. levels - 1 /\ (levels - 1) + 1 = levels
    BY Levels
  <2>q. QED BY <2>1
<1>3. t[k + 1][0] = hashPair(t[k][2 * 0], t[k][2 * 0 + 1])
  BY <1>1, TreeNodes
<1>4. hashPair(t[k][2 * 0], t[k][2 * 0 + 1]) # Unset
  BY DEF hashPair, Unset
<1>q. QED BY <1>1, <1>2, <1>3, <1>4 DEF Root

(* A root determines how many leaves it commits to.                        *)
LEMMA RootsDiffer ==
  ASSUME NEW s \in Seq(LeafValues), NEW m \in Nat, NEW k \in Nat, m < k, k <= Len(s), k <= 2 ^ levels
  PROVE  Root(s, m) # Root(s, k)
<1>1. PICK d : IsHalving(m, d)
  BY HalvingExists
<1>2. PICK b : b = Bottom(s, m)
  OBVIOUS
<1>3. PICK c : c = Bottom(s, k)
  OBVIOUS
<1>4. b[m] # c[m]
  <2>1. b[m] = Leaf(0)
    BY <1>2 DEF Bottom
  <2>2. c[m] = Leaf(s[m + 1])
    BY <1>3 DEF Bottom
  <2>3. s[m + 1] \in LeafValues
    <3>1. m + 1 \in 1 .. Len(s)
      OBVIOUS
    <3>q. QED BY <3>1, ElementOfSeq
  <2>4. s[m + 1] # 0
    BY <2>3, LeafAssumption
  <2>q. QED BY <2>1, <2>2, <2>4 DEF Leaf
<1>5. Tree(b)[levels][d[levels]] # Tree(c)[levels][d[levels]]
  <2>1. \A l \in 0 .. levels : Tree(b)[l][d[l]] # Tree(c)[l][d[l]]
    BY <1>1, <1>4, DifferOnPath
  <2>2. levels \in 0 .. levels
    BY Levels
  <2>q. QED BY <2>1, <2>2
<1>6. d[levels] = 0
  <2>1. 2 ^ levels \in Nat
    BY Levels, PowerOfTwo
  <2>2. m < 2 ^ levels
    <3>1. PICK w \in Nat : w = 2 ^ levels
      BY <2>1
    <3>2. k <= w
      BY <3>1
    <3>q. QED BY <3>1, <3>2
  <2>q. QED BY <1>1, <2>2, PathEndsAtTheRoot
<1>q. QED BY <1>2, <1>3, <1>5, <1>6 DEF Root

(* Roots of the leaves before do not change.                               *)
LEMMA RootStays ==
  ASSUME NEW s, NEW u, NEW m \in Nat, \A i \in 1 .. m : s[i] = u[i]
  PROVE  Root(s, m) = Root(u, m)
<1>1. ASSUME NEW i \in Nat
      PROVE  (IF i < m THEN s[i + 1] ELSE 0) = (IF i < m THEN u[i + 1] ELSE 0)
  <2>1. i < m => i + 1 \in 1 .. m
    OBVIOUS
  <2>q. QED BY <2>1
<1>2. Bottom(s, m) = Bottom(u, m)
  BY <1>1 DEF Bottom
<1>q. QED BY <1>2 DEF Root

-----------------------------------------------------------------------------
(* The ring of roots.                                                      *)
Slot(c, k) == (c + ROOT_HISTORY_SIZE - k) % ROOT_HISTORY_SIZE

(* The slot k before the newest, without the remainder.                    *)
LEMMA SlotIs ==
  ASSUME NEW c \in 0 .. ROOT_HISTORY_SIZE - 1, NEW k \in 0 .. ROOT_HISTORY_SIZE - 1
  PROVE  /\ Slot(c, k) \in 0 .. ROOT_HISTORY_SIZE - 1
         /\ k <= c => Slot(c, k) = c - k
         /\ k > c => Slot(c, k) = c + ROOT_HISTORY_SIZE - k
<1>1. PICK R \in Nat : R = ROOT_HISTORY_SIZE /\ R > 0
  BY RingSize
<1>2. \A x, y \in Nat : y > 0 /\ x < y => x % y = x
  OBVIOUS
<1>3. \A x, y \in Nat : y > 0 /\ x >= y /\ x < 2 * y => x % y = x - y
  OBVIOUS
<1>4. CASE k <= c
  <2>1. PICK x \in Nat : x = c + R - k /\ x >= R /\ x < 2 * R /\ x - R = c - k /\ c - k \in 0 .. R - 1
    BY <1>1, <1>4
  <2>2. x % R = x - R
    BY <1>1, <1>3, <2>1
  <2>q. QED BY <1>1, <1>4, <2>1, <2>2 DEF Slot
<1>5. CASE k > c
  <2>1. PICK x \in Nat : x = c + R - k /\ x < R /\ x \in 0 .. R - 1
    BY <1>1, <1>5
  <2>2. x % R = x
    BY <1>1, <1>2, <2>1
  <2>q. QED BY <1>1, <1>5, <2>1, <2>2 DEF Slot
<1>q. QED BY <1>1, <1>4, <1>5

(* When the newest slot moves on by one, what was k back is k + 1 back,    *)
(* and only the oldest is overwritten.                                     *)
LEMMA NextSlot ==
  ASSUME NEW c \in 0 .. ROOT_HISTORY_SIZE - 1, NEW e, e = (c + 1) % ROOT_HISTORY_SIZE
  PROVE  /\ e \in 0 .. ROOT_HISTORY_SIZE - 1
         /\ Slot(e, 0) = e
         /\ \A k \in 1 .. ROOT_HISTORY_SIZE - 1 : Slot(e, k) = Slot(c, k - 1) /\ Slot(e, k) # e
<1>1. PICK R \in Nat : R = ROOT_HISTORY_SIZE /\ R > 0
  BY RingSize
<1>2. e = IF c + 1 = R THEN 0 ELSE c + 1
  <2>1. \A x, y \in Nat : y > 0 /\ x < y => x % y = x
    OBVIOUS
  <2>2. \A y \in Nat : y > 0 => y % y = 0
    OBVIOUS
  <2>3. PICK x \in Nat : x = c + 1 /\ x <= R
    BY <1>1
  <2>4. e = x % R
    BY <1>1, <2>3
  <2>5. CASE x = R
    BY <1>1, <2>2, <2>3, <2>4, <2>5
  <2>6. CASE x # R
    BY <1>1, <2>1, <2>3, <2>4, <2>6
  <2>q. QED BY <2>5, <2>6
<1>3. e \in 0 .. R - 1 /\ e \in Nat /\ c \in Nat
  BY <1>1, <1>2
<1>4. Slot(e, 0) = e
  <2>1. 0 \in 0 .. ROOT_HISTORY_SIZE - 1 /\ e \in 0 .. ROOT_HISTORY_SIZE - 1 /\ 0 <= e
    BY <1>1, <1>3
  <2>2. Slot(e, 0) = e - 0
    BY <2>1, SlotIs
  <2>q. QED BY <1>3, <2>2
<1>5. ASSUME NEW k \in 1 .. R - 1 PROVE Slot(e, k) = Slot(c, k - 1) /\ Slot(e, k) # e
  <2>1. PICK j \in 0 .. R - 1 : j = k - 1
    BY <1>1
  <2>2. k \in 0 .. R - 1
    BY <1>1
  <2>3. /\ k <= e => Slot(e, k) = e - k
        /\ k > e => Slot(e, k) = e + R - k
    BY <1>1, <1>3, <2>2, SlotIs
  <2>4. /\ j <= c => Slot(c, j) = c - j
        /\ j > c => Slot(c, j) = c + R - j
    BY <1>1, <2>1, SlotIs
  <2>5. CASE c + 1 = R
    <3>1. e = 0 /\ k > e /\ j <= c
      BY <1>1, <1>2, <2>1, <2>5
    <3>2. e + R - k = c - j /\ e + R - k # e
      BY <1>1, <2>1, <2>5, <3>1
    <3>q. QED BY <2>1, <2>3, <2>4, <3>1, <3>2
  <2>6. CASE c + 1 # R
    <3>1. e = c + 1 /\ (k <= e <=> j <= c)
      BY <1>1, <1>2, <2>1, <2>6
    <3>2. CASE k <= e
      <4>1. j <= c /\ e - k = c - j /\ e - k # e
        BY <1>1, <1>3, <2>1, <3>1, <3>2
      <4>q. QED BY <2>1, <2>3, <2>4, <3>2, <4>1
    <3>3. CASE k > e
      <4>1. j > c /\ e + R - k = c + R - j /\ e + R - k # e
        BY <1>1, <1>3, <2>1, <3>1, <3>3
      <4>q. QED BY <2>1, <2>3, <2>4, <3>3, <4>1
    <3>q. QED BY <1>3, <3>2, <3>3
  <2>q. QED BY <2>5, <2>6
<1>q. QED BY <1>1, <1>3, <1>4, <1>5

(* The scan of isKnownRoot looks at every slot.                            *)
IsScan(root, f) ==
    f = [k \in 0 .. ROOT_HISTORY_SIZE |->
          /\ k < ROOT_HISTORY_SIZE
          /\ \/ roots[(currentRootIndex + ROOT_HISTORY_SIZE - k) % ROOT_HISTORY_SIZE] = root
             \/ f[k + 1]]

SomeFrom(root, k) == \E j \in k .. ROOT_HISTORY_SIZE - 1 : roots[Slot(currentRootIndex, j)] = root

(* Some slot from k on holds the root: slot k does, or one from k + 1 on.  *)
LEMMA SomeFromStep ==
  ASSUME NEW root, NEW k \in 0 .. ROOT_HISTORY_SIZE
  PROVE  SomeFrom(root, k) <=> /\ k < ROOT_HISTORY_SIZE
                               /\ roots[Slot(currentRootIndex, k)] = root \/ SomeFrom(root, k + 1)
<1>1. PICK R \in Nat : R = ROOT_HISTORY_SIZE
  BY RingSize
<1>2. ASSUME k < R PROVE k .. R - 1 = {k} \cup (k + 1 .. R - 1)
  BY <1>1, <1>2
<1>3. ASSUME ~(k < R) PROVE k .. R - 1 = {}
  BY <1>1, <1>3
<1>q. QED BY <1>1, <1>2, <1>3 DEF SomeFrom

(* The function of the scan exists.                                        *)
LEMMA ScanExists ==
  ASSUME NEW root
  PROVE  \E f : IsScan(root, f)
<1> DEFINE f == [k \in 0 .. ROOT_HISTORY_SIZE |-> SomeFrom(root, k)]
<1>1. ASSUME NEW k \in 0 .. ROOT_HISTORY_SIZE
      PROVE  f[k] <=> /\ k < ROOT_HISTORY_SIZE
                      /\ roots[Slot(currentRootIndex, k)] = root \/ f[k + 1]
  <2>1. f[k] <=> SomeFrom(root, k)
    OBVIOUS
  <2>2. k < ROOT_HISTORY_SIZE => (f[k + 1] <=> SomeFrom(root, k + 1))
    <3>1. k < ROOT_HISTORY_SIZE => k + 1 \in 0 .. ROOT_HISTORY_SIZE
      BY RingSize
    <3>q. QED BY <3>1
  <2> HIDE DEF f
  <2>q. QED BY <2>1, <2>2, SomeFromStep
<1> DEFINE W(k) == /\ k < ROOT_HISTORY_SIZE
                   /\ roots[Slot(currentRootIndex, k)] = root \/ f[k + 1]
<1> HIDE DEF f
<1>2. f = [k \in 0 .. ROOT_HISTORY_SIZE |-> SomeFrom(root, k)]
  BY DEF f
<1>3. ASSUME NEW k \in 0 .. ROOT_HISTORY_SIZE PROVE SomeFrom(root, k) = W(k)
  <2>1. f[k] = SomeFrom(root, k)
    BY <1>2
  <2>2. f[k] <=> W(k)
    BY <1>1
  <2>3. SomeFrom(root, k) <=> W(k)
    BY <2>1, <2>2
  <2>4. SomeFrom(root, k) \in BOOLEAN /\ W(k) \in BOOLEAN
    BY DEF SomeFrom
  <2> HIDE DEF W
  <2>q. QED BY <2>3, <2>4
<1>4. f = [k \in 0 .. ROOT_HISTORY_SIZE |-> W(k)]
  <2> HIDE DEF W
  <2>q. QED BY <1>2, <1>3, Zenon
<1>5. IsScan(root, f)
  BY <1>4, Zenon DEF IsScan, Slot
<1>q. QED BY <1>5

(* Whatever the scan computes, a slot is known from k on when some slot    *)
(* from k on holds the root.                                               *)
LEMMA ScanFinds ==
  ASSUME NEW root, NEW f, IsScan(root, f)
  PROVE  f[0] <=> SomeFrom(root, 0)
<1>1. PICK R \in Nat : R = ROOT_HISTORY_SIZE
  BY RingSize
<1> DEFINE W(k) == /\ k < ROOT_HISTORY_SIZE
                   /\ roots[Slot(currentRootIndex, k)] = root \/ f[k + 1]
<1>2. f = [k \in 0 .. ROOT_HISTORY_SIZE |-> W(k)]
  BY Zenon DEF IsScan, Slot
<1>3. \A k \in 0 .. R : f[k] = W(k)
  <2> HIDE DEF W
  <2>q. QED BY <1>1, <1>2
<1>4. \A k \in 0 .. R : f[k] <=> /\ k < R
                                 /\ roots[Slot(currentRootIndex, k)] = root \/ f[k + 1]
  BY <1>1, <1>3
<1> HIDE DEF W
<1> DEFINE P == {j \in Nat : j <= R => (f[R - j] <=> SomeFrom(root, R - j))}
<1>5. 0 \in P
  <2>1. R \in 0 .. ROOT_HISTORY_SIZE /\ R - 0 = R /\ ~(R < R) /\ ~(R < ROOT_HISTORY_SIZE)
    BY <1>1
  <2>2. ~f[R]
    BY <1>4, <2>1, <1>1
  <2>3. ~SomeFrom(root, R)
    BY <2>1, SomeFromStep
  <2>4. f[R - 0] <=> SomeFrom(root, R - 0)
    BY <2>1, <2>2, <2>3
  <2>q. QED BY <2>4
<1>6. ASSUME NEW j \in Nat, j \in P PROVE j + 1 \in P
  <2>1. CASE j + 1 <= R
    <3>1. PICK k \in 0 .. R : k = R - (j + 1) /\ k + 1 = R - j /\ k < R
      BY <1>1, <2>1
    <3>2. f[k + 1] <=> SomeFrom(root, k + 1)
      BY <1>6, <2>1, <3>1
    <3>3. SomeFrom(root, k) <=> /\ k < ROOT_HISTORY_SIZE
                                /\ roots[Slot(currentRootIndex, k)] = root \/ SomeFrom(root, k + 1)
      BY <1>1, SomeFromStep
    <3>4. f[k] <=> SomeFrom(root, k)
      BY <1>1, <1>4, <3>1, <3>2, <3>3
    <3>5. f[R - (j + 1)] <=> SomeFrom(root, R - (j + 1))
      BY <3>1, <3>4
    <3>q. QED BY <3>5
  <2>2. CASE ~(j + 1 <= R)
    BY <2>2
  <2>q. QED BY <2>1, <2>2
<1> HIDE DEF P
<1>7. \A j \in Nat : j \in P
  BY <1>5, <1>6, SetInduction
<1>8. R \in P /\ R <= R /\ R - R = 0
  BY <1>1, <1>7
<1>9. f[R - R] <=> SomeFrom(root, R - R)
  BY <1>8 DEF P
<1>q. QED BY <1>8, <1>9

(* isKnownRoot accepts exactly what some slot holds, whatever its place.   *)
LEMMA KnownRoot ==
  ASSUME NEW root
  PROVE  isKnownRoot(root) <=> root # Unset /\ SomeFrom(root, 0)
<1>1. PICK f : f = (CHOOSE g : IsScan(root, g)) /\ IsScan(root, f)
  BY ScanExists
<1>2. isKnownRoot(root) <=> root # Unset /\ f[0]
  BY <1>1 DEF isKnownRoot, IsScan
<1>3. f[0] <=> SomeFrom(root, 0)
  BY <1>1, ScanFinds
<1>q. QED BY <1>2, <1>3

-----------------------------------------------------------------------------
(* The inductive invariant: the recorded left nodes and the ring, node for *)
(* node.                                                                   *)
LeavesAreCounted == nextIndex = Len(inserted)

StorageIsDense ==
    /\ filledSubtrees = [l \in 0 .. levels - 1 |-> filledSubtrees[l]]
    /\ roots = [k \in 0 .. ROOT_HISTORY_SIZE - 1 |-> roots[k]]

FilledAreNodes ==
    \A d : IsHalving(nextIndex, d) =>
        \A l \in 0 .. levels - 1 :
            d[l] % 2 = 1 => filledSubtrees[l] = Tree(Bottom(inserted, nextIndex))[l][d[l] - 1]

RingHoldsTheLastRoots ==
    \A k \in 0 .. ROOT_HISTORY_SIZE - 1 :
        roots[Slot(currentRootIndex, k)] =
            IF k <= nextIndex THEN Root(inserted, nextIndex - k) ELSE Unset

TreeInv == TypeOK /\ LeavesAreCounted /\ StorageIsDense /\ FilledAreNodes /\ RingHoldsTheLastRoots

(* The path of leaf 0 is 0 at every level.                                 *)
LEMMA HalvingOfZero ==
  ASSUME NEW d, IsHalving(0, d)
  PROVE  \A l \in 0 .. levels : d[l] = 0
<1> DEFINE P == {l \in 0 .. levels : d[l] = 0}
<1>1. 0 \in P
  BY Levels DEF IsHalving
<1>2. ASSUME NEW l \in 0 .. levels - 1, l \in P PROVE l + 1 \in P
  <2>1. d[l] = 0 /\ d[l + 1] = d[l] \div 2 /\ l + 1 \in 0 .. levels
    BY <1>2, Levels DEF IsHalving
  <2>2. d[l + 1] = 0
    BY <2>1
  <2>q. QED BY <2>1, <2>2
<1> HIDE DEF P
<1>3. \A l \in 0 .. levels : l \in P
  BY <1>1, <1>2, LevelInduction
<1>q. QED BY <1>3 DEF P

(* At every level the path of the next leaf is the path of this one or one *)
(* to its right.                                                           *)
LEMMA NextHalving ==
  ASSUME NEW n \in Nat, NEW m \in Nat, m = n + 1, NEW d, NEW e, IsHalving(n, d), IsHalving(m, e)
  PROVE  \A l \in 0 .. levels : e[l] = d[l] \/ e[l] = d[l] + 1
<1> DEFINE P == {l \in 0 .. levels : e[l] = d[l] \/ e[l] = d[l] + 1}
<1>1. 0 \in P
  BY Levels DEF IsHalving
<1>2. ASSUME NEW l \in 0 .. levels - 1, l \in P PROVE l + 1 \in P
  <2>1. /\ d[l] \in Nat /\ e[l] \in Nat
        /\ d[l + 1] = d[l] \div 2 /\ e[l + 1] = e[l] \div 2
    BY Levels DEF IsHalving
  <2>2. e[l] = d[l] \/ e[l] = d[l] + 1
    BY <1>2
  <2>3. e[l + 1] = d[l + 1] \/ e[l + 1] = d[l + 1] + 1
    BY <2>1, <2>2
  <2>4. l + 1 \in 0 .. levels
    BY Levels
  <2>q. QED BY <2>3, <2>4
<1> HIDE DEF P
<1>3. \A l \in 0 .. levels : l \in P
  BY <1>1, <1>2, LevelInduction
<1>q. QED BY <1>3 DEF P

(* The constructor's storage is that of the empty tree.                    *)
LEMMA TreeStarts == Init => TreeInv
<1> SUFFICES ASSUME Init PROVE TreeInv
  OBVIOUS
<1>1. /\ filledSubtrees = [i \in 0 .. levels - 1 |-> zeros[i]]
      /\ roots = [i \in 0 .. ROOT_HISTORY_SIZE - 1 |-> IF i = 0 THEN zeros[levels] ELSE Unset]
      /\ currentRootIndex = 0 /\ nextIndex = 0 /\ inserted = << >>
  BY DEF Init
<1>2. 2 ^ levels \in Nat /\ 2 ^ levels > 0
  BY Levels, PowerOfTwo
<1>3. TypeOK
  <2>1. inserted \in Seq(LeafValues)
    BY <1>1
  <2>2. currentRootIndex \in 0 .. ROOT_HISTORY_SIZE - 1
    BY <1>1, RingSize
  <2>3. nextIndex \in 0 .. 2 ^ levels
    <3>1. PICK w \in Nat : w = 2 ^ levels
      BY <1>2
    <3>2. 0 \in 0 .. w
      BY <3>1
    <3>q. QED BY <1>1, <3>1, <3>2
  <2>q. QED BY <1>1, <2>1, <2>2, <2>3 DEF TypeOK
<1>4. LeavesAreCounted
  BY <1>1 DEF LeavesAreCounted
<1>5. StorageIsDense
  BY <1>1 DEF StorageIsDense
<1>6. FilledAreNodes
  <2>1. ASSUME NEW d, IsHalving(nextIndex, d), NEW l \in 0 .. levels - 1 PROVE ~(d[l] % 2 = 1)
    <3>1. IsHalving(0, d)
      BY <1>1, <2>1
    <3>2. l \in 0 .. levels
      BY Levels
    <3>3. d[l] = 0
      BY <3>1, <3>2, HalvingOfZero
    <3>q. QED BY <3>3
  <2>q. QED BY <2>1 DEF FilledAreNodes
<1>7. RingHoldsTheLastRoots
  <2>1. Root(inserted, 0) = zeros[levels]
    <3>1. \A i \in Nat : Bottom(inserted, 0)[i] = Leaf(0)
      BY DEF Bottom
    <3>2. levels \in 0 .. levels
      BY Levels
    <3>q. QED BY <3>1, <3>2, EmptyTreeIsZero DEF Root
  <2>2. ASSUME NEW k \in 0 .. ROOT_HISTORY_SIZE - 1
        PROVE  roots[Slot(currentRootIndex, k)] = IF k <= nextIndex THEN Root(inserted, nextIndex - k) ELSE Unset
    <3>1. PICK j \in 0 .. ROOT_HISTORY_SIZE - 1 :
            /\ j = Slot(currentRootIndex, k)
            /\ k <= currentRootIndex => j = currentRootIndex - k
            /\ k > currentRootIndex => j = currentRootIndex + ROOT_HISTORY_SIZE - k
      <4>1. currentRootIndex \in 0 .. ROOT_HISTORY_SIZE - 1
        BY <1>1, RingSize
      <4>q. QED BY <4>1, SlotIs
    <3>2. CASE k = 0
      <4>1. j = 0 /\ k <= nextIndex /\ nextIndex - k = 0
        BY <1>1, <3>1, <3>2
      <4>2. roots[j] = zeros[levels]
        BY <1>1, <4>1
      <4>q. QED BY <2>1, <3>1, <4>1, <4>2
    <3>3. CASE k # 0
      <4>1. j # 0 /\ ~(k <= nextIndex)
        BY <1>1, <3>1, <3>3, RingSize
      <4>2. roots[j] = Unset
        BY <1>1, <4>1
      <4>q. QED BY <3>1, <4>1, <4>2
    <3>q. QED BY <3>2, <3>3
  <2>q. QED BY <2>2 DEF RingHoldsTheLastRoots
<1>q. QED BY <1>3, <1>4, <1>5, <1>6, <1>7 DEF TreeInv

(* insert records the left nodes of the new tree and puts its root in the  *)
(* newest slot.                                                            *)
LEMMA InsertIsExact ==
  ASSUME TreeInv, NEW leaf \in LeafValues, insert(leaf)
  PROVE  TreeInv'
<1>1. PICK n \in Nat : n = nextIndex /\ n = Len(inserted)
  <2>1. Len(inserted) \in Nat
    BY DEF TreeInv, TypeOK
  <2>q. QED BY <2>1 DEF TreeInv, LeavesAreCounted
<1>2. PICK m \in Nat : m = n + 1
  OBVIOUS
<1>3. PICK s : s = inserted /\ s \in Seq(LeafValues)
  BY DEF TreeInv, TypeOK
<1>4. PICK u : /\ u = Append(s, leaf) /\ u \in Seq(LeafValues) /\ Len(u) = m
               /\ u[m] = leaf /\ \A i \in 1 .. n : u[i] = s[i]
  <2>1. Append(s, leaf) \in Seq(LeafValues)
    BY <1>3
  <2>2. Len(Append(s, leaf)) = m /\ Append(s, leaf)[m] = leaf
    BY <1>1, <1>2, <1>3
  <2>3. \A i \in 1 .. n : Append(s, leaf)[i] = s[i]
    BY <1>1, <1>2, <1>3
  <2>q. QED BY <2>1, <2>2, <2>3
<1>5. PICK w \in Nat : w = 2 ^ levels /\ w > 0 /\ n < w
  <2>1. 2 ^ levels \in Nat /\ 2 ^ levels > 0
    BY Levels, PowerOfTwo
  <2>2. n < 2 ^ levels
    BY <1>1 DEF insert, HasRoom
  <2>q. QED BY <2>1, <2>2
<1>6. PICK p : p = Path(leaf)
  OBVIOUS
<1>7. PICK r : r = NewRootIndex
  OBVIOUS
<1>8. /\ filledSubtrees' = p.filled /\ currentRootIndex' = r
      /\ roots' = [roots EXCEPT ![r] = p.hash]
      /\ nextIndex' = m /\ inserted' = u
  BY <1>1, <1>2, <1>3, <1>4, <1>6, <1>7 DEF insert
<1>9. PICK c \in 0 .. ROOT_HISTORY_SIZE - 1 : c = currentRootIndex
  BY DEF TreeInv, TypeOK
<1>10. r = (c + 1) % ROOT_HISTORY_SIZE
  BY <1>7, <1>9 DEF NewRootIndex
<1>11. /\ r \in 0 .. ROOT_HISTORY_SIZE - 1 /\ Slot(r, 0) = r
       /\ \A k \in 1 .. ROOT_HISTORY_SIZE - 1 : Slot(r, k) = Slot(c, k - 1) /\ Slot(r, k) # r
  BY <1>10, NextSlot
<1>12. /\ DOMAIN filledSubtrees = 0 .. levels - 1
       /\ DOMAIN roots = 0 .. ROOT_HISTORY_SIZE - 1
       /\ filledSubtrees = [l \in 0 .. levels - 1 |-> filledSubtrees[l]]
       /\ roots = [k \in 0 .. ROOT_HISTORY_SIZE - 1 |-> roots[k]]
  BY DEF TreeInv, TypeOK, StorageIsDense
<1>13. PICK d : IsHalving(n, d)
  BY HalvingExists
<1>14. PICK b : b = Bottom(u, m)
  OBVIOUS
<1>15. PICK t : t = Tree(b)
  OBVIOUS
<1>16. /\ b[n] = Leaf(leaf)
       /\ \A i \in Nat : i > n => b[i] = Leaf(0)
       /\ \A i \in Nat : i # n => b[i] = Bottom(s, n)[i]
  <2>1. \A i \in Nat : b[i] = Leaf(IF i < m THEN u[i + 1] ELSE 0)
    BY <1>14 DEF Bottom
  <2>2. \A i \in Nat : Bottom(s, n)[i] = Leaf(IF i < n THEN s[i + 1] ELSE 0)
    BY DEF Bottom
  <2>3. b[n] = Leaf(leaf)
    BY <1>2, <1>4, <2>1
  <2>4. ASSUME NEW i \in Nat, i > n PROVE b[i] = Leaf(0)
    BY <1>2, <2>1, <2>4
  <2>5. ASSUME NEW i \in Nat, i # n PROVE b[i] = Bottom(s, n)[i]
    <3>1. CASE i < n
      <4>1. i + 1 \in 1 .. n /\ i < m
        BY <1>2, <3>1
      <4>q. QED BY <1>4, <2>1, <2>2, <3>1, <4>1
    <3>2. CASE ~(i < n)
      <4>1. ~(i < m)
        BY <1>2, <2>5, <3>2
      <4>q. QED BY <2>1, <2>2, <3>2, <4>1
    <3>q. QED BY <3>1, <3>2
  <2>q. QED BY <2>3, <2>4, <2>5
<1>17. /\ t[0][n] = Leaf(leaf)
       /\ \A l \in 0 .. levels - 1, i \in Nat : t[l + 1][i] = hashPair(t[l][2 * i], t[l][2 * i + 1])
  <2>1. /\ t[0] = b
        /\ \A l \in 0 .. levels - 1, i \in Nat : t[l + 1][i] = hashPair(t[l][2 * i], t[l][2 * i + 1])
    BY <1>15, TreeNodes
  <2>q. QED BY <1>16, <2>1
<1>18. \A l \in 0 .. levels - 1 : d[l] \in Nat /\ l \in 0 .. levels
  BY <1>13, Levels DEF IsHalving
<1>19. \A l \in 0 .. levels - 1 : d[l] % 2 = 0 => t[l][d[l] + 1] = zeros[l]
  <2>1. \A l \in 0 .. levels, i \in Nat : i > d[l] => t[l][i] = zeros[l]
    BY <1>13, <1>15, <1>16, ZeroBeyond
  <2>2. ASSUME NEW l \in 0 .. levels - 1 PROVE t[l][d[l] + 1] = zeros[l]
    <3>1. d[l] + 1 \in Nat /\ d[l] + 1 > d[l] /\ l \in 0 .. levels
      BY <1>18
    <3>q. QED BY <2>1, <3>1
  <2>q. QED BY <2>2
<1>20. \A l \in 0 .. levels - 1 : d[l] % 2 = 1 => t[l][d[l] - 1] = filledSubtrees[l]
  <2>1. \A l \in 0 .. levels, i \in Nat : i # d[l] => t[l][i] = Tree(Bottom(s, n))[l][i]
    BY <1>13, <1>15, <1>16, SameOffPath
  <2>2. ASSUME NEW l \in 0 .. levels - 1, d[l] % 2 = 1 PROVE t[l][d[l] - 1] = filledSubtrees[l]
    <3>1. d[l] - 1 \in Nat /\ d[l] - 1 # d[l] /\ l \in 0 .. levels
      BY <1>18, <2>2
    <3>2. filledSubtrees[l] = Tree(Bottom(s, n))[l][d[l] - 1]
      BY <1>1, <1>3, <1>13, <2>2 DEF TreeInv, FilledAreNodes
    <3>q. QED BY <2>1, <3>1, <3>2
  <2>q. QED BY <2>2
<1>21. p.hash = t[levels][d[levels]] /\ p.filled = FilledAfter(t, d)
  <2>1. IsHalving(nextIndex, d)
    BY <1>1, <1>13
  <2>2. t[0][nextIndex] = Leaf(leaf)
    BY <1>1, <1>17
  <2>3. FitsTheTree(leaf, t, d)
    BY Zenon, <1>12, <1>17, <1>19, <1>20, <2>1, <2>2 DEF FitsTheTree
  <2>q. QED BY <1>6, <2>3, WalkFollowsTheTree
<1>22. p.hash = Root(u, m)
  <2>1. d[levels] = 0
    BY <1>5, <1>13, PathEndsAtTheRoot
  <2>q. QED BY <1>14, <1>15, <1>21, <2>1 DEF Root
<1>23. TypeOK'
  <2>1. m \in 0 .. w
    BY <1>2, <1>5
  <2>2. nextIndex' \in 0 .. 2 ^ levels
    BY <1>5, <1>8, <2>1
  <2>3. DOMAIN filledSubtrees' = 0 .. levels - 1 /\ DOMAIN roots' = 0 .. ROOT_HISTORY_SIZE - 1
    BY <1>8, <1>12, <1>21 DEF FilledAfter
  <2>q. QED BY <1>4, <1>8, <1>11, <2>2, <2>3 DEF TypeOK
<1>24. LeavesAreCounted'
  BY <1>4, <1>8 DEF LeavesAreCounted
<1>25. StorageIsDense'
  <2>1. filledSubtrees' = [l \in 0 .. levels - 1 |-> filledSubtrees'[l]]
    BY <1>8, <1>21 DEF FilledAfter
  <2>2. roots' = [k \in 0 .. ROOT_HISTORY_SIZE - 1 |-> roots'[k]]
    BY <1>8, <1>12
  <2>q. QED BY <2>1, <2>2 DEF StorageIsDense
<1>26. FilledAreNodes'
  <2>1. ASSUME NEW e, IsHalving(m, e), NEW l \in 0 .. levels - 1, e[l] % 2 = 1
        PROVE  p.filled[l] = t[l][e[l] - 1]
    <3>1. e[l] = d[l] \/ e[l] = d[l] + 1
      <4>1. \A j \in 0 .. levels : e[j] = d[j] \/ e[j] = d[j] + 1
        BY <1>2, <1>13, <2>1, NextHalving
      <4>q. QED BY <1>18, <4>1
    <3>2. p.filled[l] = IF d[l] % 2 = 0 THEN t[l][d[l]] ELSE filledSubtrees[l]
      BY <1>21 DEF FilledAfter
    <3>3. CASE e[l] = d[l]
      BY <1>20, <2>1, <3>2, <3>3
    <3>4. CASE e[l] = d[l] + 1
      <4>1. d[l] % 2 = 0 /\ e[l] - 1 = d[l]
        BY <1>18, <2>1, <3>4
      <4>q. QED BY <3>2, <4>1
    <3>q. QED BY <3>1, <3>3, <3>4
  <2>2. \A e : IsHalving(m, e) =>
          \A l \in 0 .. levels - 1 : e[l] % 2 = 1 => filledSubtrees'[l] = Tree(Bottom(u, m))[l][e[l] - 1]
    BY <1>8, <1>14, <1>15, <2>1
  <2>3. \A e : IsHalving(nextIndex', e) =>
          \A l \in 0 .. levels - 1 : e[l] % 2 = 1 => filledSubtrees'[l] = Tree(Bottom(inserted', nextIndex'))[l][e[l] - 1]
    BY <1>8, <2>2
  <2>q. QED BY <2>3 DEF FilledAreNodes, IsHalving, Tree, IsTree, Bottom
<1>27. RingHoldsTheLastRoots'
  <2>1. ASSUME NEW k \in 0 .. ROOT_HISTORY_SIZE - 1
        PROVE  roots'[Slot(r, k)] = IF k <= m THEN Root(u, m - k) ELSE Unset
    <3>1. CASE k = 0
      <4>1. k <= m /\ m - k = m
        BY <3>1
      <4>2. roots'[r] = p.hash
        BY <1>8, <1>11, <1>12
      <4>q. QED BY <1>11, <1>22, <3>1, <4>1, <4>2
    <3>2. CASE k # 0
      <4>1. PICK j \in 0 .. ROOT_HISTORY_SIZE - 1 : j = k - 1 /\ k \in 1 .. ROOT_HISTORY_SIZE - 1
        BY <3>2, RingSize
      <4>2. Slot(r, k) = Slot(c, j) /\ Slot(c, j) # r /\ Slot(c, j) \in 0 .. ROOT_HISTORY_SIZE - 1
        BY <1>11, <4>1, SlotIs
      <4>3. roots'[Slot(r, k)] = roots[Slot(c, j)]
        BY <1>8, <1>12, <4>2
      <4>4. roots[Slot(c, j)] = IF j <= n THEN Root(s, n - j) ELSE Unset
        BY <1>1, <1>3, <1>9 DEF TreeInv, RingHoldsTheLastRoots
      <4>5. CASE j <= n
        <5>1. PICK x \in Nat : x = n - j /\ x = m - k /\ k <= m /\ x <= n
          BY <1>2, <4>1, <4>5
        <5>2. \A i \in 1 .. x : s[i] = u[i]
          BY <1>4, <5>1
        <5>3. Root(s, x) = Root(u, x)
          BY <5>2, RootStays
        <5>q. QED BY <4>3, <4>4, <4>5, <5>1, <5>3
      <4>6. CASE ~(j <= n)
        <5>1. ~(k <= m)
          BY <1>2, <4>1, <4>6
        <5>q. QED BY <4>3, <4>4, <4>6, <5>1
      <4>q. QED BY <4>5, <4>6
    <3>q. QED BY <3>1, <3>2
  <2>2. \A k \in 0 .. ROOT_HISTORY_SIZE - 1 :
          roots'[Slot(currentRootIndex', k)] =
            IF k <= nextIndex' THEN Root(inserted', nextIndex' - k) ELSE Unset
    BY <1>8, <2>1
  <2>q. QED BY <2>2 DEF RingHoldsTheLastRoots, Slot, Root, Tree, IsTree, Bottom
<1>q. QED BY <1>23, <1>24, <1>25, <1>26, <1>27 DEF TreeInv

(* Every step keeps the inductive invariant.                               *)
LEMMA TreeStays == TreeInv /\ [Next]_vars => TreeInv'
<1> SUFFICES ASSUME TreeInv, [Next]_vars PROVE TreeInv'
  OBVIOUS
<1>1. ASSUME NEW leaf \in LeafValues, insert(leaf) PROVE TreeInv'
  BY <1>1, InsertIsExact
<1>2. CASE UNCHANGED vars
  <2>1. /\ filledSubtrees' = filledSubtrees /\ roots' = roots /\ currentRootIndex' = currentRootIndex
        /\ nextIndex' = nextIndex /\ inserted' = inserted
    BY <1>2 DEF vars
  <2>2. TypeOK'
    BY <2>1 DEF TreeInv, TypeOK
  <2>3. LeavesAreCounted' /\ StorageIsDense'
    BY <2>1 DEF TreeInv, LeavesAreCounted, StorageIsDense
  <2>4. FilledAreNodes'
    <3>1. \A e : IsHalving(nextIndex, e) =>
            \A l \in 0 .. levels - 1 : e[l] % 2 = 1 => filledSubtrees[l] = Tree(Bottom(inserted, nextIndex))[l][e[l] - 1]
      BY DEF TreeInv, FilledAreNodes
    <3>2. \A e : IsHalving(nextIndex', e) =>
            \A l \in 0 .. levels - 1 : e[l] % 2 = 1 => filledSubtrees'[l] = Tree(Bottom(inserted', nextIndex'))[l][e[l] - 1]
      BY <2>1, <3>1
    <3>q. QED BY <3>2 DEF FilledAreNodes, IsHalving, Tree, IsTree, Bottom
  <2>5. RingHoldsTheLastRoots'
    BY <2>1 DEF TreeInv, RingHoldsTheLastRoots, Slot, Root, Tree, IsTree, Bottom
  <2>q. QED BY <2>2, <2>3, <2>4, <2>5 DEF TreeInv
<1>q. QED BY <1>1, <1>2 DEF Next

(* The inductive invariant implies the invariant the run checks.           *)
LEMMA TreeIsExact == TreeInv => RootsAreExact
<1> SUFFICES ASSUME TreeInv PROVE RootsAreExact
  OBVIOUS
<1>1. PICK n \in Nat : n = nextIndex /\ n = Len(inserted)
  <2>1. Len(inserted) \in Nat
    BY DEF TreeInv, TypeOK
  <2>q. QED BY <2>1 DEF TreeInv, LeavesAreCounted
<1>2. PICK s : s = inserted /\ s \in Seq(LeafValues)
  BY DEF TreeInv, TypeOK
<1>3. n <= 2 ^ levels
  <2>1. PICK w \in Nat : w = 2 ^ levels
    BY Levels, PowerOfTwo
  <2>2. n \in 0 .. w
    BY <1>1, <2>1 DEF TreeInv, TypeOK
  <2>q. QED BY <2>1, <2>2
<1>4. PICK c : c = currentRootIndex /\ c \in 0 .. ROOT_HISTORY_SIZE - 1
  BY DEF TreeInv, TypeOK
<1>5. PICK R \in Nat : R = ROOT_HISTORY_SIZE /\ R > 0
  BY RingSize
<1>6. \A k \in 0 .. R - 1 : roots[Slot(c, k)] = IF k <= n THEN Root(s, n - k) ELSE Unset
  BY <1>1, <1>2, <1>4, <1>5 DEF TreeInv, RingHoldsTheLastRoots
<1>7. \A k : ReferenceRoot(k) = Root(s, k)
  BY <1>2, ReferenceIsTree DEF Root
<1>8. LastRootIsReference
  <2>1. 0 \in 0 .. R - 1 /\ 0 <= n /\ n - 0 = n
    BY <1>5
  <2>2. Slot(c, 0) = c
    <3>1. 0 \in 0 .. ROOT_HISTORY_SIZE - 1 /\ 0 <= c /\ c - 0 = c
      BY <1>4, <1>5
    <3>q. QED BY <1>4, <3>1, SlotIs
  <2>3. roots[c] = Root(s, n)
    BY <1>6, <2>1, <2>2
  <2>q. QED BY <1>1, <1>4, <1>7, <2>3 DEF LastRootIsReference, getLastRoot
<1>9. ASSUME NEW k \in 0 .. n
      PROVE  isKnownRoot(Root(s, k)) <=> n - k < R
  <2>1. PICK x : x = Root(s, k)
    OBVIOUS
  <2>2. x # Unset
    BY <2>1, RootIsNode
  <2>3. ASSUME n - k < R PROVE SomeFrom(x, 0)
    <3>1. PICK j \in 0 .. R - 1 : j = n - k /\ j <= n /\ n - j = k
      BY <2>3
    <3>2. roots[Slot(c, j)] = x
      BY <1>6, <2>1, <3>1
    <3>q. QED BY <1>4, <1>5, <3>2 DEF SomeFrom
  <2>4. ASSUME SomeFrom(x, 0) PROVE n - k < R
    <3>1. PICK j \in 0 .. R - 1 : roots[Slot(c, j)] = x
      BY <1>4, <1>5, <2>4 DEF SomeFrom
    <3>2. j <= n
      BY <1>6, <2>2, <3>1
    <3>3. PICK i \in Nat : i = n - j /\ i <= n /\ Root(s, i) = Root(s, k)
      <4>1. n - j \in Nat /\ n - j <= n
        BY <3>2
      <4>2. Root(s, n - j) = Root(s, k)
        BY <1>6, <2>1, <3>1, <3>2
      <4>q. QED BY <4>1, <4>2
    <3>4. i = k
      <4>1. k \in Nat /\ k <= n /\ Len(s) = n
        BY <1>1, <1>2
      <4>2. PICK w \in Nat : w = 2 ^ levels
        BY Levels, PowerOfTwo
      <4>3. k <= w /\ i <= w
        BY <1>3, <3>3, <4>1, <4>2
      <4>4. CASE i < k
        <5>1. Root(s, i) # Root(s, k)
          BY <1>2, <4>1, <4>2, <4>3, <4>4, RootsDiffer
        <5>q. QED BY <3>3, <5>1
      <4>5. CASE k < i
        <5>1. Root(s, k) # Root(s, i)
          BY <1>2, <3>3, <4>1, <4>2, <4>3, <4>5, RootsDiffer
        <5>q. QED BY <3>3, <5>1
      <4>q. QED BY <4>1, <4>4, <4>5
    <3>q. QED BY <3>3, <3>4
  <2>5. isKnownRoot(x) <=> SomeFrom(x, 0)
    BY <2>2, KnownRoot
  <2>q. QED BY <2>1, <2>3, <2>4, <2>5
<1>10. KnownRootsAreTheLast
  BY <1>1, <1>5, <1>7, <1>9 DEF KnownRootsAreTheLast
<1>11. TypeOK
  BY DEF TreeInv
<1>q. QED BY <1>8, <1>10, <1>11 DEF RootsAreExact

(* For every depth and every ring size, the root insert computes from one  *)
(* cached node per level is the root of the whole tree, and isKnownRoot    *)
(* accepts exactly the roots of the last ROOT_HISTORY_SIZE trees.          *)
THEOREM TreeRootsAreExact == Spec => []RootsAreExact
<1>1. Init => TreeInv
  BY TreeStarts
<1>2. TreeInv /\ [Next]_vars => TreeInv'
  BY TreeStays
<1>3. TreeInv => RootsAreExact
  BY TreeIsExact
<1>q. QED BY <1>1, <1>2, <1>3, PTL DEF Spec

-----------------------------------------------------------------------------
(* The way back from a root to the leaves under it.                        *)
Everywhere(node) == [i \in Nat |-> node]
Below(row) == [i \in Nat |-> row[i \div 2][IF i % 2 = 0 THEN 2 ELSE 3]]

IsDescent(r, n, f) ==
    f = [d \in 0 .. n |-> IF d = 0 THEN Everywhere(r) ELSE Below(f[d - 1])]

(* The rows of the way back.                                               *)
LEMMA DescentRows ==
  ASSUME NEW r, NEW n \in Nat, NEW f, IsDescent(r, n, f)
  PROVE  /\ f[0] = Everywhere(r)
         /\ \A l \in 0 .. n - 1 : f[l + 1] = Below(f[l])
<1>1. f = [d \in 0 .. n |-> IF d = 0 THEN Everywhere(r) ELSE Below(f[d - 1])]
  BY DEF IsDescent
<1>2. f[0] = Everywhere(r)
  <2>1. 0 \in 0 .. n
    OBVIOUS
  <2>q. QED BY <1>1, <2>1
<1>3. ASSUME NEW l \in 0 .. n - 1 PROVE f[l + 1] = Below(f[l])
  <2>1. l + 1 \in 0 .. n /\ l + 1 # 0 /\ (l + 1) - 1 = l
    OBVIOUS
  <2>q. QED BY <1>1, <2>1
<1>q. QED BY <1>2, <1>3

(* A function with these rows is the way back.                             *)
LEMMA DescentIs ==
  ASSUME NEW r, NEW n \in Nat, NEW f, f = [d \in 0 .. n |-> f[d]],
         f[0] = Everywhere(r), \A l \in 0 .. n - 1 : f[l + 1] = Below(f[l])
  PROVE  IsDescent(r, n, f)
<1>1. ASSUME NEW d \in 0 .. n PROVE f[d] = IF d = 0 THEN Everywhere(r) ELSE Below(f[d - 1])
  <2>1. CASE d = 0
    BY <2>1
  <2>2. CASE d # 0
    <3>1. PICK l \in 0 .. n - 1 : l + 1 = d /\ d - 1 = l
      <4>1. d - 1 \in 0 .. n - 1 /\ d - 1 + 1 = d
        BY <2>2
      <4>q. QED BY <4>1
    <3>2. f[d] = Below(f[d - 1])
      BY <3>1
    <3>q. QED BY <2>2, <3>2
  <2>q. QED BY <2>1, <2>2
<1>2. f = [d \in 0 .. n |-> IF d = 0 THEN Everywhere(r) ELSE Below(f[d - 1])]
  BY <1>1
<1>q. QED BY Zenon, <1>2 DEF IsDescent

(* The way back can be continued by one level.                             *)
LEMMA DescentExtends ==
  ASSUME NEW r, NEW k \in Nat, NEW f, IsDescent(r, k, f), NEW m \in Nat, m = k + 1
  PROVE  \E g : IsDescent(r, m, g)
<1>1. /\ f[0] = Everywhere(r)
      /\ \A i \in 0 .. k - 1 : f[i + 1] = Below(f[i])
  BY DescentRows
<1> DEFINE g == [i \in 0 .. m |-> IF i = m THEN Below(f[k]) ELSE f[i]]
<1>2. /\ g = [i \in 0 .. m |-> g[i]]
      /\ \A i \in 0 .. k : g[i] = f[i]
      /\ g[m] = Below(f[k])
  OBVIOUS
<1> HIDE DEF g
<1>3. g[0] = Everywhere(r)
  <2>1. 0 \in 0 .. k
    OBVIOUS
  <2>q. QED BY Zenon, <1>1, <1>2, <2>1
<1>4. ASSUME NEW i \in 0 .. m - 1 PROVE g[i + 1] = Below(g[i])
  <2>1. CASE i = k
    <3>1. i + 1 = m /\ k \in 0 .. k
      BY <2>1
    <3>2. g[k] = f[k]
      BY <1>2, <3>1
    <3>q. QED BY Zenon, <1>2, <2>1, <3>1, <3>2
  <2>2. CASE i # k
    <3>1. i \in 0 .. k - 1 /\ i + 1 \in 0 .. k /\ i \in 0 .. k
      BY <2>2
    <3>q. QED BY <1>1, <1>2, <3>1
  <2>q. QED BY <2>1, <2>2
<1>5. IsDescent(r, m, g)
  BY <1>2, <1>3, <1>4, DescentIs
<1>q. QED BY <1>5

(* The way back exists for any number of levels.                           *)
LEMMA DescentExists ==
  ASSUME NEW r
  PROVE  \A n \in Nat : \E f : IsDescent(r, n, f)
<1> DEFINE P == {k \in Nat : \E f : IsDescent(r, k, f)}
<1>1. 0 \in P
  <2> DEFINE f == [i \in 0 .. 0 |-> Everywhere(r)]
  <2>1. f = [i \in 0 .. 0 |-> f[i]] /\ f[0] = Everywhere(r)
    OBVIOUS
  <2> HIDE DEF f
  <2>2. \A l \in 0 .. 0 - 1 : f[l + 1] = Below(f[l])
    OBVIOUS
  <2>3. IsDescent(r, 0, f)
    BY <2>1, <2>2, DescentIs
  <2>q. QED BY <2>3
<1>2. ASSUME NEW k \in Nat, k \in P PROVE k + 1 \in P
  <2>1. PICK f : IsDescent(r, k, f)
    BY <1>2
  <2>2. PICK m \in Nat : m = k + 1
    OBVIOUS
  <2>3. \E g : IsDescent(r, m, g)
    BY <2>1, <2>2, DescentExtends
  <2>q. QED BY <2>2, <2>3
<1> HIDE DEF P
<1>3. \A n \in Nat : n \in P
  BY <1>1, <1>2, SetInduction
<1>q. QED BY <1>3 DEF P

(* From the root of a tree the way back leads to the tree's leaves.        *)
LEMMA DescentFindsLeaves ==
  ASSUME NEW b, NEW f, IsDescent(Tree(b)[levels][0], levels, f), NEW k \in Nat, k < 2 ^ levels
  PROVE  f[levels][k] = b[k]
<1>1. PICK t : t = Tree(b)
  OBVIOUS
<1>2. /\ t[0] = b
      /\ \A l \in 0 .. levels - 1, i \in Nat : t[l + 1][i] = hashPair(t[l][2 * i], t[l][2 * i + 1])
  BY <1>1, TreeNodes
<1>3. /\ f[0] = Everywhere(t[levels][0])
      /\ \A l \in 0 .. levels - 1 : f[l + 1] = Below(f[l])
  <2>1. IsDescent(t[levels][0], levels, f)
    BY <1>1
  <2>q. QED BY <2>1, Levels, DescentRows
<1>4. PICK d : IsHalving(k, d)
  BY HalvingExists
<1>5. d[levels] = 0
  BY <1>4, PathEndsAtTheRoot
<1> DEFINE P == {j \in 0 .. levels : f[j][d[levels - j]] = t[levels - j][d[levels - j]]}
<1>6. 0 \in P
  <2>1. levels - 0 = levels /\ 0 \in 0 .. levels
    BY Levels
  <2>2. f[0][0] = t[levels][0]
    BY <1>3 DEF Everywhere
  <2>q. QED BY <1>5, <2>1, <2>2
<1>7. ASSUME NEW j \in 0 .. levels - 1, j \in P PROVE j + 1 \in P
  <2>1. PICK l \in 0 .. levels - 1 : l = levels - (j + 1) /\ l + 1 = levels - j
    <3>1. levels - (j + 1) \in 0 .. levels - 1 /\ levels - (j + 1) + 1 = levels - j
      BY Levels
    <3>q. QED BY <3>1
  <2>2. PICK a \in Nat : a = d[l] /\ d[l + 1] = a \div 2
    <3>1. l \in 0 .. levels /\ l \in 0 .. levels - 1
      BY Levels
    <3>2. d[l] \in Nat /\ d[l + 1] = d[l] \div 2
      BY <1>4, <3>1 DEF IsHalving
    <3>q. QED BY <3>2
  <2>3. PICK e \in Nat : e = a \div 2
    BY <2>2, Half
  <2>4. f[j][e] = t[l + 1][e]
    BY <1>7, <2>1, <2>2, <2>3
  <2>5. t[l + 1][e] = hashPair(t[l][2 * e], t[l][2 * e + 1])
    BY <1>2
  <2>6. f[j + 1][a] = f[j][e][IF a % 2 = 0 THEN 2 ELSE 3]
    BY <1>3, <2>3 DEF Below
  <2>7. \A x, y : hashPair(x, y)[2] = x /\ hashPair(x, y)[3] = y
    BY DEF hashPair
  <2>8. f[j + 1][a] = t[l][a]
    <3>1. CASE a % 2 = 0
      <4>1. a = 2 * e
        BY <2>3, <3>1, Half
      <4>2. hashPair(t[l][2 * e], t[l][2 * e + 1])[2] = t[l][2 * e]
        BY <2>7
      <4>q. QED BY <2>4, <2>5, <2>6, <3>1, <4>1, <4>2
    <3>2. CASE a % 2 = 1
      <4>1. a = 2 * e + 1
        BY <2>3, <3>2, Half
      <4>2. hashPair(t[l][2 * e], t[l][2 * e + 1])[3] = t[l][2 * e + 1]
        BY <2>7
      <4>q. QED BY <2>4, <2>5, <2>6, <3>2, <4>1, <4>2
    <3>q. QED BY <3>1, <3>2, Half
  <2>9. j + 1 \in 0 .. levels
    BY Levels
  <2>q. QED BY <2>1, <2>2, <2>8, <2>9
<1> HIDE DEF P
<1>8. \A j \in 0 .. levels : j \in P
  BY <1>6, <1>7, LevelInduction
<1>9. levels \in P /\ levels - levels = 0
  BY <1>8, Levels
<1>10. f[levels][d[0]] = t[0][d[0]]
  BY <1>9 DEF P
<1>q. QED BY <1>2, <1>4, <1>10 DEF IsHalving

(* CommittedLeaves reads the leaves off the way back from the newest root. *)
LEMMA CommittedIsDescent ==
    CommittedLeaves = LET down == CHOOSE f : IsDescent(getLastRoot, levels, f)
                      IN  [k \in 1 .. nextIndex |-> down[levels][k - 1][2]]
  BY DEF CommittedLeaves, IsDescent, Everywhere, Below

LogIsInserted == CommittedLeaves = inserted

(* Read off the tree of hashes, the leaves are those inserted.             *)
LEMMA CommittedIsInserted == TreeInv => LogIsInserted
<1> SUFFICES ASSUME TreeInv PROVE CommittedLeaves = inserted
  BY DEF LogIsInserted
<1>1. PICK n \in Nat : n = nextIndex /\ n = Len(inserted)
  <2>1. Len(inserted) \in Nat
    BY DEF TreeInv, TypeOK
  <2>q. QED BY <2>1 DEF TreeInv, LeavesAreCounted
<1>2. PICK s : s = inserted /\ s \in Seq(LeafValues)
  BY DEF TreeInv, TypeOK
<1>3. PICK w \in Nat : w = 2 ^ levels /\ n <= w
  <2>1. PICK w \in Nat : w = 2 ^ levels
    BY Levels, PowerOfTwo
  <2>2. n \in 0 .. w
    BY <1>1, <2>1 DEF TreeInv, TypeOK
  <2>q. QED BY <2>1, <2>2
<1>4. PICK b : b = Bottom(s, n)
  OBVIOUS
<1>5. getLastRoot = Tree(b)[levels][0]
  <2>1. LastRootIsReference
    BY TreeIsExact DEF RootsAreExact
  <2>q. QED BY <1>1, <1>2, <1>4, <2>1, ReferenceIsTree DEF LastRootIsReference
<1>6. PICK f : f = (CHOOSE g : IsDescent(getLastRoot, levels, g)) /\ IsDescent(getLastRoot, levels, f)
  BY Levels, DescentExists
<1>7. CommittedLeaves = [k \in 1 .. n |-> f[levels][k - 1][2]]
  BY <1>1, <1>6, CommittedIsDescent
<1>8. ASSUME NEW k \in 1 .. n PROVE f[levels][k - 1][2] = s[k]
  <2>1. PICK i \in Nat : i = k - 1 /\ i + 1 = k /\ i < n /\ i < w
    BY <1>3
  <2>2. f[levels][i] = b[i]
    <3>1. IsDescent(Tree(b)[levels][0], levels, f)
      BY <1>5, <1>6
    <3>q. QED BY <1>3, <2>1, <3>1, DescentFindsLeaves
  <2>3. b[i] = Leaf(s[k])
    BY <1>4, <2>1 DEF Bottom
  <2>4. Leaf(s[k])[2] = s[k]
    BY DEF Leaf
  <2>q. QED BY <2>1, <2>2, <2>3, <2>4
<1>9. CommittedLeaves = [k \in 1 .. n |-> s[k]]
  BY <1>7, <1>8
<1>10. s = [k \in 1 .. n |-> s[k]]
  BY <1>1, <1>2
<1>q. QED BY <1>2, <1>9, <1>10

(* The empty tree commits to the empty log.                                *)
LEMMA LogStarts == Init => Log!LogInit
<1> SUFFICES ASSUME Init PROVE Log!LogInit
  OBVIOUS
<1>1. CommittedLeaves = inserted
  BY TreeStarts, CommittedIsInserted DEF LogIsInserted
<1>2. inserted = << >>
  BY DEF Init
<1>q. QED BY <1>1, <1>2 DEF Log!LogInit

(* An insertion appends one leaf to the log, within its capacity.          *)
LEMMA LogMoves ==
  ASSUME TreeInv, LogIsInserted', [Next]_vars
  PROVE  [\E leaf \in LeafValues : Log!LogAppend(leaf)]_vars
<1>1. CommittedLeaves = inserted
  BY CommittedIsInserted DEF LogIsInserted
<1>2. ASSUME NEW leaf \in LeafValues, insert(leaf)
      PROVE  Log!LogAppend(leaf)
  <2>1. PICK n \in Nat : n = nextIndex /\ n = Len(inserted)
    <3>1. Len(inserted) \in Nat
      BY DEF TreeInv, TypeOK
    <3>q. QED BY <3>1 DEF TreeInv, LeavesAreCounted
  <2>2. PICK w \in Nat : w = 2 ^ levels /\ n < w
    <3>1. n < 2 ^ levels
      BY <1>2, <2>1 DEF insert, HasRoom
    <3>q. QED BY <3>1, Levels, PowerOfTwo
  <2>3. Len(<<leaf>>) = 1
    OBVIOUS
  <2>4. Len(CommittedLeaves) + Len(<<leaf>>) <= 2 ^ levels
    <3>1. n + 1 <= w
      BY <2>2
    <3>q. QED BY <1>1, <2>1, <2>2, <2>3, <3>1
  <2>5. inserted' = Append(inserted, leaf) /\ inserted \in Seq(LeafValues)
    BY <1>2 DEF insert, TreeInv, TypeOK
  <2>6. Append(inserted, leaf) = inserted \o <<leaf>>
    BY <2>5
  <2>7. CommittedLeaves' = CommittedLeaves \o <<leaf>>
    <3>1. CommittedLeaves' = inserted'
      BY DEF LogIsInserted
    <3>q. QED BY <1>1, <2>5, <2>6, <3>1
  <2>q. QED BY <2>4, <2>7 DEF Log!LogAppend, Log!HasRoomFor, Log!Appended
<1>q. QED BY <1>2 DEF Next

(* The contract's tree implements the log the pool is specified with: what *)
(* the newest root commits to starts empty and grows by one leaf at the    *)
(* end with every insertion, never past 2 ^ levels, and nothing else ever  *)
(* changes it.                                                             *)
THEOREM TreeImplementsLog == Spec => ImplementsLog
<1>1. Init => TreeInv /\ Log!LogInit
  BY TreeStarts, LogStarts
<1>2. TreeInv /\ [Next]_vars => TreeInv'
  BY TreeStays
<1>3. TreeInv' => LogIsInserted'
  BY CommittedIsInserted, PTL
<1>4. TreeInv /\ [Next]_vars => [\E leaf \in LeafValues : Log!LogAppend(leaf)]_vars
  BY <1>2, <1>3, LogMoves
<1>q. QED BY <1>1, <1>2, <1>4, PTL DEF Spec, ImplementsLog
=============================================================================
