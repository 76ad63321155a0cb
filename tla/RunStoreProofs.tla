--------------------------- MODULE RunStoreProofs ---------------------------
(***************************************************************************)
(* Proofs about the payout records.  For any number of runs and of         *)
(* overlapping operations, and for any failures and closed pages: a        *)
(* listing shows every run that was there; until something fails the index *)
(* agrees with the files whenever no mutation is in flight; until a memo   *)
(* is edited no mark is lost.                                              *)
(***************************************************************************)
EXTENDS RunStore, TLAPS

-----------------------------------------------------------------------------
(* Types.                                                                  *)

Slots == 1 .. MaxOps
Indexes == {NoIndex} \cup UNION {[D -> SUBSET Marks] : D \in SUBSET Ids}
Kinds == {"none", "create", "edit", "delete", "list"} \cup MarkKinds
PCs == {"done", "file", "upsert", "put", "unlink", "drop", "filter", "load", "refresh", "check",
        "scan", "files", "read", "listed"}
OpRecords ==
    [kind : Kinds, id : Ids \cup {"none"}, rec : SUBSET (Marks \cup Ids), idx : Indexes,
     todo : SUBSET Ids, kept : SUBSET Ids, pc : PCs]

FilesOK == files \in [Ids -> (SUBSET Marks) \cup {Fresh, Gone}]
BudgetOK ==
    /\ budget \in [edits : Nat, deletes : Nat, failures : Nat, crashes : Nat]
    /\ budget.edits <= MaxEdits
    /\ budget.failures <= MaxFailures /\ budget.crashes <= MaxCrashes
PageOK ==
    page # NoPage => /\ page \in [id : Ids, rec : SUBSET Marks]
                     /\ files[page.id] # Fresh

(* What an operation of each kind looks like.                              *)
OpOK(op) ==
    /\ op.kind = "none" => op.pc = "done"
    /\ op.kind = "create" => op.pc \in {"file", "upsert", "put"}
    /\ op.kind \in MarkKinds => op.pc \in {"load", "file", "upsert", "put"}
    /\ op.kind = "edit" => op.pc \in {"file", "upsert", "put", "refresh"}
    /\ op.kind = "delete" => op.pc \in {"unlink", "drop", "filter"}
    /\ op.kind = "list" => op.id = "none" /\ op.pc \in {"check", "scan", "files", "read", "listed"}
    /\ op.kind \notin {"none", "list"} => op.id \in Ids /\ op.rec \subseteq Marks

StoreTypes ==
    /\ FilesOK
    /\ index \in Indexes
    /\ PageOK
    /\ ops \in [Slots -> OpRecords] /\ \A s \in Slots : OpOK(ops[s])
    /\ marked \in [Ids -> SUBSET Marks]
    /\ BudgetOK

-----------------------------------------------------------------------------
(* The queues.                                                             *)

(* A queue holds each of a set of operations once.                         *)
QueueOf(q, S) == q \in Seq(Slots) /\ IsInjective(q) /\ \A s \in Slots : s \in Range(q) <=> s \in S

InIndexQueue(s) == ops[s].pc \in {"upsert", "put", "drop", "filter", "scan", "files"}
WritesIndex(s) == ops[s].pc \in {"put", "filter", "files"}
IsMark(s, id) == ops[s].kind \in MarkKinds /\ ops[s].id = id
HasLoaded(s) == ops[s].pc \in {"file", "upsert", "put"}

(* The index queue has every task that has come to the index, a run's      *)
(* queue its marks; who has gone past the first read is the head.          *)
IndexQueueOK ==
    /\ QueueOf(indexQueue, {s \in Slots : InIndexQueue(s)})
    /\ \A s \in Slots : WritesIndex(s) => Runs(s)
RunQueueOK(id) ==
    /\ QueueOf(runQueue[id], {s \in Slots : IsMark(s, id)})
    /\ \A s \in Slots : IsMark(s, id) /\ HasLoaded(s) => Head(runQueue[id]) = s
RunQueuesOK == DOMAIN runQueue = Ids /\ runQueue = [id \in Ids |-> runQueue[id]]
                 /\ \A id \in Ids : RunQueueOK(id)

-----------------------------------------------------------------------------
(* Listings, marks and the index.                                          *)

(* The runs a listing must show are still on disk, and it has them or will *)
(* read them (read drops a run from both when its file is unreadable).     *)
ListOK(s) ==
    /\ ops[s].kept \subseteq OnDisk
    /\ At(s, "check") => ops[s].kept \subseteq ops[s].rec
    /\ At(s, "files") \/ At(s, "read") =>
          ops[s].kept \subseteq Entries(ops[s].idx) \cup ops[s].todo
    /\ At(s, "listed") => ops[s].kept \subseteq Entries(ops[s].idx)

(* A run is created once, and nothing else is done to it before.           *)
CreatesOnce(s) ==
    /\ ops[s].kind = "create" /\ At(s, "file") => files[ops[s].id] = Fresh
    /\ ops[s].kind = "create" =>
          \A t \in Slots : ops[t].kind = "create" /\ ops[t].id = ops[s].id => t = s
    /\ ops[s].kind \in MarkKinds \cup {"edit", "delete"} => files[ops[s].id] # Fresh

(* While no memo was edited, a mark about to write knows all that were     *)
(* recorded, and one that has written is in the file.                      *)
MarkKept(s) ==
    /\ ops[s].kind # "edit"
    /\ ops[s].kind \in MarkKinds /\ HasLoaded(s) => ops[s].kind \in ops[s].rec
    /\ ops[s].kind \in MarkKinds /\ At(s, "file") => marked[ops[s].id] \subseteq ops[s].rec
    /\ ops[s].kind \in MarkKinds /\ ops[s].pc \in {"upsert", "put"} /\ ops[s].id \in OnDisk =>
          ops[s].kind \in files[ops[s].id]
MarksKept ==
    Unedited =>
        /\ \A id \in Ids : files[id] # Gone => marked[id] \subseteq files[id] \ Fresh
        /\ \A s \in Slots : MarkKept(s)

(* While nothing failed: of the tasks of a run in the index queue the last *)
(* one knows the file, and without one the entry of the run, and the entry *)
(* a rebuild has made of it, agree with the file.                          *)
Reflects(s) ==
    IF ops[s].kind = "delete" THEN files[ops[s].id] = Gone ELSE files[ops[s].id] = ops[s].rec
IsLast(s) ==
    \E j \in 1 .. Len(indexQueue) :
        /\ indexQueue[j] = s
        /\ \A k \in 1 .. Len(indexQueue) : k > j => ops[indexQueue[k]].id # ops[s].id
Pending(id) == \E s \in Slots : InIndexQueue(s) /\ ops[s].id = id
AgreesOn(idx, id) == id \in Entries(idx) => idx[id] = Summary(files[id])
IndexFollows ==
    NothingFailed =>
        /\ \A s \in Slots : ops[s].id \in Ids /\ IsLast(s) => Reflects(s)
        /\ \A s \in Slots : ops[s].pc \in {"put", "filter"} => ops[s].idx = index
        /\ \A id \in OnDisk : ~Pending(id) =>
               /\ AgreesOn(index, id)
               /\ \A s \in Slots : At(s, "files") => AgreesOn(ops[s].idx, id)

StoreInv ==
    /\ StoreTypes /\ IndexQueueOK /\ RunQueuesOK
    /\ \A s \in Slots : ListOK(s) /\ CreatesOnce(s)
    /\ MarksKept /\ IndexFollows

-----------------------------------------------------------------------------
(* Queues and index files.                                                 *)

(* A task that joins a queue comes last in it.                             *)
LEMMA AppendQueue ==
    ASSUME NEW q, NEW S, QueueOf(q, S), NEW s \in Slots, s \notin S
    PROVE  /\ QueueOf(Append(q, s), S \cup {s})
           /\ Append(q, s) # <<>>
           /\ Head(Append(q, s)) = IF q = <<>> THEN s ELSE Head(q)
<1>1. q \in Seq(Slots) /\ s \notin Range(q)
  BY DEF QueueOf
<1> DEFINE r == Append(q, s)
<1>2. /\ r \in Seq(Slots) /\ Len(r) = Len(q) + 1 /\ r[Len(q) + 1] = s
      /\ \A i \in 1 .. Len(q) : r[i] = q[i]
      /\ DOMAIN r = 1 .. Len(r) /\ DOMAIN q = 1 .. Len(q) /\ Len(q) \in Nat
  BY <1>1
<1> HIDE DEF r
<1>3. \A i \in 1 .. Len(q) : q[i] # s
  BY <1>1, <1>2 DEF Range
<1>4. IsInjective(r)
  <2>1. \A i, j \in 1 .. Len(q) : q[i] = q[j] => i = j
    BY <1>2 DEF QueueOf, IsInjective
  <2>2. \A i \in 1 .. Len(r) : i \in 1 .. Len(q) \/ i = Len(q) + 1
    BY <1>2
  <2> QED BY <1>2, <1>3, <2>1, <2>2 DEF IsInjective
<1>5. ASSUME NEW t \in Slots PROVE t \in Range(r) <=> t \in Range(q) \/ t = s
  <2>1. \A i \in 1 .. Len(q) : i \in 1 .. Len(r)
    BY <1>2
  <2>2. \A i \in 1 .. Len(r) : i \in 1 .. Len(q) \/ i = Len(q) + 1
    BY <1>2
  <2>3. Len(q) + 1 \in 1 .. Len(r)
    BY <1>2
  <2> QED BY <1>2, <2>1, <2>2, <2>3 DEF Range
<1>6. QueueOf(r, S \cup {s})
  BY <1>2, <1>4, <1>5 DEF QueueOf
<1>7. r # <<>> /\ Head(r) = IF q = <<>> THEN s ELSE Head(q)
  <2>1. r # <<>> /\ Head(r) = r[1]
    BY <1>2
  <2>2. CASE q = <<>>
    BY <1>2, <2>1, <2>2
  <2>3. CASE q # <<>>
    <3>1. 1 \in 1 .. Len(q) /\ Head(q) = q[1]
      BY <1>1, <1>2, <2>3
    <3> QED BY <1>2, <2>1, <2>3, <3>1
  <2> QED BY <2>2, <2>3, <2>1
<1> QED BY <1>6, <1>7 DEF r

(* The head of a queue leaves it.                                          *)
LEMMA TailQueue ==
    ASSUME NEW q, NEW S, QueueOf(q, S), q # <<>>
    PROVE  Head(q) \in Slots /\ Head(q) \in S /\ QueueOf(Tail(q), S \ {Head(q)})
<1>1. q \in Seq(Slots) /\ Len(q) \in Nat /\ Len(q) > 0 /\ DOMAIN q = 1 .. Len(q)
  BY DEF QueueOf
<1> DEFINE r == Tail(q)
<1>2. /\ r \in Seq(Slots) /\ Len(r) = Len(q) - 1 /\ DOMAIN r = 1 .. Len(r)
      /\ \A i \in 1 .. Len(r) : r[i] = q[i + 1]
      /\ Head(q) = q[1]
  BY <1>1
<1> HIDE DEF r
<1>3. \A i, j \in 1 .. Len(q) : q[i] = q[j] => i = j
  BY <1>1 DEF QueueOf, IsInjective
<1>4. 1 \in 1 .. Len(q) /\ \A i \in 1 .. Len(r) : i + 1 \in 1 .. Len(q) /\ i + 1 # 1
  BY <1>1, <1>2
<1>5. IsInjective(r)
  <2>1. \A i, j \in 1 .. Len(r) : r[i] = r[j] => i + 1 = j + 1
    BY <1>2, <1>3, <1>4
  <2>2. \A i, j \in 1 .. Len(r) : i + 1 = j + 1 => i = j
    BY <1>1, <1>2
  <2> QED BY <1>2, <2>1, <2>2 DEF IsInjective
<1>6. Head(q) \in Slots /\ Head(q) \in Range(q)
  BY <1>1, <1>2, <1>4 DEF Range
<1>7. ASSUME NEW t \in Slots PROVE t \in Range(r) <=> t \in Range(q) /\ t # Head(q)
  <2>1. \A i \in 1 .. Len(q) : i = 1 \/ (i - 1 \in 1 .. Len(r) /\ (i - 1) + 1 = i)
    BY <1>1, <1>2
  <2>2. \A i \in 1 .. Len(r) : q[i + 1] # q[1]
    BY <1>3, <1>4
  <2>3. t \in Range(r) => t \in Range(q) /\ t # Head(q)
    BY <1>1, <1>2, <1>4, <2>2 DEF Range
  <2>4. ASSUME t \in Range(q), t # Head(q) PROVE t \in Range(r)
    <3>1. PICK i \in 1 .. Len(q) : q[i] = t
      BY <1>1, <2>4 DEF Range
    <3>2. i - 1 \in 1 .. Len(r) /\ (i - 1) + 1 = i
      BY <1>2, <2>1, <2>4, <3>1
    <3>3. r[i - 1] = t
      BY <1>2, <3>1, <3>2
    <3> QED BY <1>2, <3>2, <3>3 DEF Range
  <2> QED BY <2>3, <2>4
<1>8. QueueOf(r, S \ {Head(q)})
  BY <1>2, <1>5, <1>7 DEF QueueOf
<1> QED BY <1>6, <1>8 DEF r, QueueOf

(* The entries of an index: none of a file that is not there.              *)
LEMMA EntriesOf ==
    /\ NoIndex \in Indexes /\ Entries(NoIndex) = {}
    /\ \A idx \in Indexes : /\ Entries(idx) \in SUBSET Ids
                            /\ idx # NoIndex => Entries(idx) = DOMAIN idx
                            /\ \A id \in Entries(idx) : idx[id] \in SUBSET Marks
    /\ \A D \in SUBSET Ids : \A idx \in [D -> SUBSET Marks] : idx \in Indexes /\ Entries(idx) = D
<1>1. NoIndex \in Indexes /\ Entries(NoIndex) = {}
  BY DEF Indexes, Entries
<1>2. ASSUME NEW D \in SUBSET Ids, NEW idx \in [D -> SUBSET Marks]
      PROVE  idx # NoIndex /\ idx \in Indexes /\ DOMAIN idx = D
  <2>1. "none" \notin D
    BY RunStoreAssumption
  <2>2. DOMAIN NoIndex = {"none"}
    BY DEF NoIndex
  <2> QED BY <2>1, <2>2 DEF Indexes
<1>3. \A D \in SUBSET Ids : \A idx \in [D -> SUBSET Marks] : idx \in Indexes /\ Entries(idx) = D
  BY <1>2 DEF Entries
<1>4. ASSUME NEW idx \in Indexes
      PROVE  /\ Entries(idx) \in SUBSET Ids
             /\ idx # NoIndex => Entries(idx) = DOMAIN idx
             /\ \A id \in Entries(idx) : idx[id] \in SUBSET Marks
  <2>1. CASE idx = NoIndex
    BY <1>1, <2>1
  <2>2. CASE idx # NoIndex
    <3>1. PICK D \in SUBSET Ids : idx \in [D -> SUBSET Marks]
      BY <2>2 DEF Indexes
    <3> QED BY <2>2, <3>1 DEF Entries
  <2> QED BY <2>1, <2>2
<1> QED BY <1>1, <1>3, <1>4

(* Records that are on disk are neither of the two others.                 *)
LEMMA Records ==
    /\ Fresh \notin SUBSET Marks /\ Gone \notin SUBSET Marks /\ Fresh # Gone
    /\ MarkKinds \subseteq Marks
    /\ \A k \in MarkKinds : k \notin {"none", "create", "edit", "delete", "list", "note"}
<1>1. Fresh \notin SUBSET Marks /\ Gone \notin SUBSET Marks /\ Fresh # Gone
  BY DEF Fresh, Gone, Marks
<1>2. MarkKinds \subseteq {"sent", "claimed"}
  BY RunStoreAssumption
<1> QED BY <1>1, <1>2 DEF Marks

-----------------------------------------------------------------------------
(* What an action does to the operations.                                  *)

(* The same operation, wherever it has come to.                            *)
Keeps(new, old) == new.kind = old.kind /\ new.id = old.id /\ new.rec = old.rec
(* All other operations stay, but for what a listing need no longer show.  *)
Rest(s) ==
    /\ ops' \in [Slots -> OpRecords]
    /\ \A t \in Slots \ {s} :
          /\ Keeps(ops'[t], ops[t]) /\ ops'[t].pc = ops[t].pc
          /\ ops'[t].idx = ops[t].idx /\ ops'[t].todo = ops[t].todo
          /\ ops'[t].kept \subseteq ops[t].kept
Idles(s) ==
    ops'[s].kind = "none" /\ ops'[s].id = "none" /\ ops'[s].pc = "done" /\ ops'[s].kept = {}

(* The fields of an idle operation.                                        *)
LEMMA NoOpFields ==
    /\ NoOp \in OpRecords
    /\ NoOp.kind = "none" /\ NoOp.id = "none" /\ NoOp.rec = {} /\ NoOp.idx = NoIndex
    /\ NoOp.todo = {} /\ NoOp.kept = {} /\ NoOp.pc = "done"
  BY EntriesOf DEF NoOp, OpRecords, Kinds, PCs

(* One operation is replaced.                                              *)
LEMMA Replaced ==
    ASSUME ops \in [Slots -> OpRecords], NEW s \in Slots, NEW o \in OpRecords,
           ops' = [ops EXCEPT ![s] = o]
    PROVE  Rest(s) /\ ops'[s] = o
<1>1. ops'[s] = o /\ \A t \in Slots \ {s} : ops'[t] = ops[t]
  OBVIOUS
<1>2. ops' \in [Slots -> OpRecords]
  OBVIOUS
<1> QED BY <1>1, <1>2 DEF Rest, Keeps

(* An operation begins.                                                    *)
LEMMA BeginEffect ==
    ASSUME StoreTypes, NEW s \in Slots, NEW kind, NEW id, NEW rec, NEW pc,
           kind \in Kinds, id \in Ids, rec \subseteq Marks, pc \in PCs,
           Begin(s, kind, id, rec, pc)
    PROVE  /\ Rest(s)
           /\ ops[s].kind = "none" /\ ops[s].pc = "done" /\ ops[s].id = "none"
           /\ ops'[s].kind = kind /\ ops'[s].id = id /\ ops'[s].rec = rec /\ ops'[s].pc = pc
           /\ ops'[s].idx = NoIndex /\ ops'[s].todo = {} /\ ops'[s].kept = {}
<1> DEFINE o == [NoOp EXCEPT !.kind = kind, !.id = id, !.rec = rec, !.pc = pc]
<1>1. /\ o \in OpRecords
      /\ o.kind = kind /\ o.id = id /\ o.rec = rec /\ o.pc = pc
      /\ o.idx = NoIndex /\ o.todo = {} /\ o.kept = {}
  BY NoOpFields DEF OpRecords
<1>2. ops[s] = NoOp /\ ops' = [ops EXCEPT ![s] = o]
  BY DEF Begin
<1> HIDE DEF o
<1>3. Rest(s) /\ ops'[s] = o
  BY <1>1, <1>2, Replaced DEF StoreTypes
<1> QED BY <1>1, <1>2, <1>3, NoOpFields

(* An operation goes on.                                                   *)
LEMMA GotoEffect ==
    ASSUME StoreTypes, NEW s \in Slots, NEW pc \in PCs, Goto(s, pc)
    PROVE  /\ Rest(s) /\ Keeps(ops'[s], ops[s]) /\ ops'[s].pc = pc
           /\ ops'[s].idx = ops[s].idx /\ ops'[s].todo = ops[s].todo /\ ops'[s].kept = ops[s].kept
<1> DEFINE o == [ops[s] EXCEPT !.pc = pc]
<1>1. ops[s] \in OpRecords
  BY DEF StoreTypes
<1>2. o \in OpRecords /\ Keeps(o, ops[s]) /\ o.pc = pc
      /\ o.idx = ops[s].idx /\ o.todo = ops[s].todo /\ o.kept = ops[s].kept
  BY <1>1 DEF OpRecords, Keeps
<1>3. ops' = [ops EXCEPT ![s] = o]
  BY DEF Goto
<1> HIDE DEF o
<1> QED BY <1>2, <1>3, Replaced DEF StoreTypes

(* An operation ends.                                                      *)
LEMMA EndEffect ==
    ASSUME StoreTypes, NEW s \in Slots, ops' = [ops EXCEPT ![s] = NoOp]
    PROVE  Rest(s) /\ Idles(s) /\ ops'[s] = NoOp
  BY NoOpFields, Replaced DEF StoreTypes, Idles

(* An operation is read from its record once it is known to be one.        *)
LEMMA OpTypes ==
    ASSUME StoreTypes, NEW s \in Slots
    PROVE  /\ ops[s] \in OpRecords /\ OpOK(ops[s])
           /\ ops[s].kind \in Kinds /\ ops[s].id \in Ids \cup {"none"} /\ ops[s].pc \in PCs
           /\ ops[s].idx \in Indexes /\ ops[s].todo \subseteq Ids /\ ops[s].kept \subseteq Ids
           /\ ops[s].pc \in {"file", "upsert", "put", "unlink", "drop", "filter", "load", "refresh"} =>
                 ops[s].id \in Ids /\ ops[s].rec \subseteq Marks /\ ops[s].kind \notin {"none", "list"}
           /\ ops[s].pc \in {"check", "scan", "files", "read", "listed"} => ops[s].kind = "list"
           /\ ops[s].pc \in {"unlink", "drop", "filter"} => ops[s].kind = "delete"
           /\ ops[s].pc \in {"upsert", "put", "file"} => ops[s].kind \in {"create", "edit"} \cup MarkKinds
           /\ ops[s].pc = "load" => ops[s].kind \in MarkKinds
           /\ ops[s].pc = "refresh" => ops[s].kind = "edit"
<1>1. ops[s] \in OpRecords /\ OpOK(ops[s])
  BY DEF StoreTypes
<1>2. ops[s].kind \in Kinds /\ ops[s].id \in Ids \cup {"none"} /\ ops[s].pc \in PCs
      /\ ops[s].idx \in Indexes /\ ops[s].todo \subseteq Ids /\ ops[s].kept \subseteq Ids
  BY <1>1 DEF OpRecords
<1> QED BY <1>1, <1>2, Records DEF OpOK, Kinds

(* What bounds spend only goes down, and shows that something failed.      *)
LEMMA SpendEffect ==
    ASSUME BudgetOK, NEW what \in {"edits", "deletes", "failures", "crashes"}, Spend(what)
    PROVE  /\ BudgetOK'
           /\ NothingFailed' => NothingFailed /\ what \notin {"failures", "crashes"}
           /\ Unedited' => Unedited /\ what # "edits"
<1>0. MaxEdits \in Nat /\ MaxFailures \in Nat /\ MaxCrashes \in Nat
  BY RunStoreAssumption
<1>1. budget \in [edits : Nat, deletes : Nat, failures : Nat, crashes : Nat]
      /\ budget.edits <= MaxEdits /\ budget.failures <= MaxFailures /\ budget.crashes <= MaxCrashes
  BY DEF BudgetOK
<1>2. budget[what] \in Nat \ {0} /\ budget' = [budget EXCEPT ![what] = @ - 1]
  BY <1>1 DEF Spend
<1>3. budget' \in [edits : Nat, deletes : Nat, failures : Nat, crashes : Nat]
  BY <1>1, <1>2
<1>4. /\ budget'[what] = budget[what] - 1
      /\ \A w \in {"edits", "deletes", "failures", "crashes"} \ {what} : budget'[w] = budget[w]
  BY <1>1, <1>2
<1>5. CASE what = "edits"
  <2>1. budget'.edits = budget.edits - 1 /\ budget'.failures = budget.failures
        /\ budget'.crashes = budget.crashes /\ budget.edits \in Nat
    BY <1>1, <1>4, <1>5
  <2> QED BY <1>0, <1>1, <1>3, <1>5, <2>1 DEF BudgetOK, NothingFailed, Unedited
<1>6. CASE what = "failures"
  <2>1. budget'.failures = budget.failures - 1 /\ budget'.edits = budget.edits
        /\ budget'.crashes = budget.crashes /\ budget.failures \in Nat
    BY <1>1, <1>4, <1>6
  <2> QED BY <1>0, <1>1, <1>3, <1>6, <2>1 DEF BudgetOK, NothingFailed, Unedited
<1>7. CASE what = "crashes"
  <2>1. budget'.crashes = budget.crashes - 1 /\ budget'.failures = budget.failures
        /\ budget'.edits = budget.edits /\ budget.crashes \in Nat
    BY <1>1, <1>4, <1>7
  <2> QED BY <1>0, <1>1, <1>3, <1>7, <2>1 DEF BudgetOK, NothingFailed, Unedited
<1>8. CASE what = "deletes"
  BY <1>1, <1>3, <1>4, <1>8 DEF BudgetOK, NothingFailed, Unedited
<1> QED BY <1>5, <1>6, <1>7, <1>8

(* What does not spend leaves the bounds.                                  *)
LEMMA BudgetRests ==
    ASSUME BudgetOK, UNCHANGED budget
    PROVE  BudgetOK' /\ (NothingFailed' => NothingFailed) /\ (Unedited' => Unedited)
  BY DEF BudgetOK, NothingFailed, Unedited

(* The bounds after a step.                                                *)
BudgetMoves ==
    BudgetOK' /\ (NothingFailed' => NothingFailed) /\ (Unedited' => Unedited)

(* A task of the index queue has read the index.                           *)
LEMMA ReadIndexEffect ==
    ASSUME StoreTypes, NEW s \in Slots, ReadIndex(s)
    PROVE  /\ Rest(s) /\ Keeps(ops'[s], ops[s]) /\ ops'[s].kept = ops[s].kept
           /\ ops[s].pc \in {"upsert", "drop"} /\ Runs(s)
           /\ ops'[s].pc = IF ops[s].pc = "upsert" THEN "put" ELSE "filter"
           /\ BudgetMoves /\ (NothingFailed' => ops'[s].idx = index)
           /\ UNCHANGED <<diskVars, page, runQueue, indexQueue, marked>>
<1> DEFINE p == IF ops[s].pc = "upsert" THEN "put" ELSE "filter"
           o(i) == [ops[s] EXCEPT !.idx = i, !.pc = p]
<1>1. ops[s] \in OpRecords /\ index \in Indexes /\ NoIndex \in Indexes /\ BudgetOK
  BY EntriesOf DEF StoreTypes
<1>2. ASSUME NEW i \in Indexes
      PROVE  /\ o(i) \in OpRecords /\ Keeps(o(i), ops[s]) /\ o(i).kept = ops[s].kept
             /\ o(i).idx = i /\ o(i).pc = p
  BY <1>1 DEF OpRecords, Keeps, PCs
<1>3. /\ ops[s].pc \in {"upsert", "drop"} /\ Runs(s)
      /\ UNCHANGED <<diskVars, page, runQueue, indexQueue, marked>>
  BY Zenon DEF ReadIndex
<1>4. \/ ops' = [ops EXCEPT ![s] = o(index)] /\ UNCHANGED budget
      \/ ops' = [ops EXCEPT ![s] = o(NoIndex)] /\ Spend("failures")
  BY DEF ReadIndex
<1>5. CASE ops' = [ops EXCEPT ![s] = o(index)] /\ UNCHANGED budget
  <2>1. o(index) \in OpRecords /\ Keeps(o(index), ops[s]) /\ o(index).kept = ops[s].kept
        /\ o(index).idx = index /\ o(index).pc = p
    BY <1>1, <1>2
  <2> HIDE DEF o
  <2>2. Rest(s) /\ ops'[s] = o(index)
    BY <1>5, <2>1, Replaced DEF StoreTypes
  <2>3. BudgetMoves
    BY <1>1, <1>5, BudgetRests DEF BudgetMoves
  <2> QED BY <1>3, <2>1, <2>2, <2>3
<1>6. CASE ops' = [ops EXCEPT ![s] = o(NoIndex)] /\ Spend("failures")
  <2>1. o(NoIndex) \in OpRecords /\ Keeps(o(NoIndex), ops[s]) /\ o(NoIndex).kept = ops[s].kept
        /\ o(NoIndex).pc = p
    BY <1>1, <1>2
  <2> HIDE DEF o
  <2>2. Rest(s) /\ ops'[s] = o(NoIndex)
    BY <1>6, <2>1, Replaced DEF StoreTypes
  <2>3. BudgetMoves /\ ~NothingFailed'
    BY <1>1, <1>6, SpendEffect DEF BudgetMoves
  <2> QED BY <1>3, <2>1, <2>2, <2>3
<1> QED BY <1>4, <1>5, <1>6

(* The caller of saveRun goes on.                                          *)
LEMMA ReturnEffect ==
    ASSUME StoreTypes, NEW s \in Slots, At(s, "put"), Return(s)
    PROVE  /\ Rest(s)
           /\ ops[s].kind = "edit" =>
                 Keeps(ops'[s], ops[s]) /\ ops'[s].pc = "refresh" /\ ops'[s].kept = ops[s].kept
                 /\ UNCHANGED runQueue
           /\ ops[s].kind # "edit" => Idles(s) /\ LeaveRunQueue(s)
           /\ marked' \in [Ids -> SUBSET Marks]
           /\ \A id \in Ids : marked'[id] = marked[id] \/
                 (id = ops[s].id /\ ops[s].kind \in MarkKinds /\ marked'[id] = marked[id] \cup {ops[s].kind})
                 \/ ops[s].kind = "edit"
           /\ page' # NoPage =>
                 /\ page # NoPage /\ page' \in [id : Ids, rec : SUBSET Marks]
                 /\ page'.id = page.id
<1>1. /\ ops[s].kind \in {"create", "edit"} \cup MarkKinds /\ ops[s].id \in Ids
      /\ ops[s].rec \subseteq Marks
  BY OpTypes DEF At
<1>2. CASE ops[s].kind = "edit"
  <2>1. Goto(s, "refresh") /\ UNCHANGED runQueue
    BY <1>2 DEF Return
  <2> QED
    <3>1. "refresh" \in PCs
      BY DEF PCs
    <3>2. Rest(s) /\ Keeps(ops'[s], ops[s]) /\ ops'[s].pc = "refresh" /\ ops'[s].kept = ops[s].kept
      BY <2>1, <3>1, GotoEffect
    <3>3. marked' = [marked EXCEPT ![ops[s].id] = (@ \ {"note"}) \cup (ops[s].rec \cap {"note"})]
      BY <1>2 DEF Return
    <3>4. marked' \in [Ids -> SUBSET Marks]
      BY <1>1, <3>3 DEF StoreTypes, Marks
    <3>5. page' = page
      BY <1>2 DEF Return
    <3> QED BY <1>2, <2>1, <3>2, <3>4, <3>5 DEF StoreTypes, PageOK
<1>3. CASE ops[s].kind # "edit"
  <2>1. ops' = [ops EXCEPT ![s] = NoOp] /\ LeaveRunQueue(s)
    BY <1>3 DEF Return, End
  <2>2. Rest(s) /\ Idles(s)
    BY <2>1, EndEffect
  <2>3. marked' = IF ops[s].kind = "create" THEN marked
                  ELSE [marked EXCEPT ![ops[s].id] = @ \cup {ops[s].kind}]
    BY <1>3 DEF Return
  <2>4. /\ marked' \in [Ids -> SUBSET Marks]
        /\ \A id \in Ids : marked'[id] = marked[id] \/
              (id = ops[s].id /\ ops[s].kind \in MarkKinds /\ marked'[id] = marked[id] \cup {ops[s].kind})
    <3>1. marked \in [Ids -> SUBSET Marks]
      BY DEF StoreTypes
    <3>2. CASE ops[s].kind = "create"
      BY <2>3, <3>1, <3>2
    <3>3. CASE ops[s].kind # "create"
      <4>1. ops[s].kind \in MarkKinds /\ ops[s].kind \in Marks
        BY <1>1, <1>3, <3>3, Records
      <4> QED BY <1>1, <2>3, <3>1, <3>3, <4>1
    <3> QED BY <3>2, <3>3
  <2>5. page' = page \/ (page # NoPage /\ page' = [page EXCEPT !.rec = ops[s].rec])
    <3>1. page' = IF ops[s].kind \in {"create", "edit"} \/ page.id # ops[s].id THEN page
                  ELSE [page EXCEPT !.rec = ops[s].rec]
      BY DEF Return
    <3>2. page = NoPage => page.id = "none"
      BY DEF NoPage
    <3>3. ops[s].id # "none"
      BY <1>1, RunStoreAssumption
    <3> QED BY <3>1, <3>2, <3>3
  <2>6. page' # NoPage => page # NoPage /\ page' \in [id : Ids, rec : SUBSET Marks] /\ page'.id = page.id
    BY <1>1, <2>5 DEF StoreTypes, PageOK
  <2> QED BY <1>3, <2>1, <2>2, <2>4, <2>6
<1> QED BY <1>2, <1>3

(* The file is gone, and no listing need show it.                          *)
LEMMA UnlinkEffect ==
    ASSUME StoreTypes, NEW s \in Slots, Unlink(s)
    PROVE  /\ Rest(s) /\ Keeps(ops'[s], ops[s]) /\ ops[s].pc = "unlink" /\ ops'[s].pc = "drop"
           /\ ops[s].kind = "delete" /\ ops[s].id \in Ids
           /\ \A t \in Slots : ops'[t].kept = ops[t].kept \ {ops[s].id}
<1> DEFINE o(t) == [ops[t] EXCEPT !.kept = @ \ {ops[s].id}, !.pc = IF t = s THEN "drop" ELSE @]
<1>1. ops[s].pc = "unlink" /\ ops[s].id \in Ids /\ ops[s].kind = "delete"
  BY OpTypes DEF Unlink, At
<1>2. \A t \in Slots : ops[t] \in OpRecords
  BY DEF StoreTypes
<1>3. ASSUME NEW t \in Slots
      PROVE  /\ o(t) \in OpRecords /\ Keeps(o(t), ops[t])
             /\ o(t).idx = ops[t].idx /\ o(t).todo = ops[t].todo
             /\ o(t).kept = ops[t].kept \ {ops[s].id}
             /\ o(t).pc = IF t = s THEN "drop" ELSE ops[t].pc
  BY <1>2 DEF OpRecords, Keeps, PCs
<1>4. DOMAIN ops = Slots
  BY DEF StoreTypes
<1>5. ops' = [t \in Slots |-> o(t)]
  BY <1>4 DEF Unlink
<1> HIDE DEF o
<1>6. ops' \in [Slots -> OpRecords] /\ \A t \in Slots : ops'[t] = o(t)
  BY <1>3, <1>5
<1> QED BY <1>1, <1>3, <1>6 DEF Rest

(* A mark has read the record it adds to.                                  *)
LEMMA LoadEffect ==
    ASSUME StoreTypes, NEW s \in Slots, ops[s].pc = "load", files[ops[s].id] \notin {Fresh, Gone},
           ops' = [ops EXCEPT ![s].rec = files[ops[s].id] \cup {ops[s].kind}, ![s].pc = "file"]
    PROVE  /\ Rest(s) /\ ops'[s].kind = ops[s].kind /\ ops'[s].id = ops[s].id
           /\ ops'[s].pc = "file" /\ ops'[s].kept = ops[s].kept
           /\ ops'[s].rec = files[ops[s].id] \cup {ops[s].kind}
           /\ ops'[s].rec \subseteq Marks
<1> DEFINE r == files[ops[s].id] \cup {ops[s].kind}
           o == [ops[s] EXCEPT !.rec = r, !.pc = "file"]
<1>1. ops[s].kind \in MarkKinds /\ ops[s].id \in Ids
  BY OpTypes
<1>2. r \subseteq Marks
  BY <1>1, Records DEF StoreTypes, FilesOK
<1> HIDE DEF r
<1>3. ops[s] \in OpRecords
  BY DEF StoreTypes
<1>4. o \in OpRecords /\ o.kind = ops[s].kind /\ o.id = ops[s].id /\ o.pc = "file"
      /\ o.rec = r /\ o.kept = ops[s].kept
  BY <1>2, <1>3 DEF OpRecords, PCs
<1>5. ops' = [ops EXCEPT ![s] = o]
  BY DEF r
<1> HIDE DEF o
<1>6. Rest(s) /\ ops'[s] = o
  BY <1>4, <1>5, Replaced DEF StoreTypes
<1> QED BY <1>2, <1>4, <1>6 DEF r

(* A listing begins with the runs it must show.                            *)
LEMMA ListStartEffect ==
    ASSUME StoreTypes, NEW s \in Slots, ListStart(s)
    PROVE  /\ Rest(s) /\ ops[s].kind = "none" /\ ops[s].pc = "done" /\ ops[s].id = "none"
           /\ ops'[s].kind = "list" /\ ops'[s].id = "none" /\ ops'[s].pc = "check"
           /\ ops'[s].rec = OnDisk /\ ops'[s].kept = OnDisk
<1> DEFINE o == [NoOp EXCEPT !.kind = "list", !.rec = OnDisk, !.kept = OnDisk, !.pc = "check"]
<1>1. OnDisk \subseteq Ids
  BY DEF OnDisk
<1>2. o \in OpRecords /\ o.kind = "list" /\ o.id = "none" /\ o.pc = "check"
      /\ o.rec = OnDisk /\ o.kept = OnDisk
  BY <1>1, NoOpFields DEF OpRecords, Kinds, PCs
<1>3. ops[s] = NoOp /\ ops' = [ops EXCEPT ![s] = o]
  BY DEF ListStart
<1> HIDE DEF o
<1>4. Rest(s) /\ ops'[s] = o
  BY <1>2, <1>3, Replaced DEF StoreTypes
<1> QED BY <1>2, <1>3, <1>4, NoOpFields

(* A listing takes the index, reads the files it names, or waits for its   *)
(* turn to rebuild it.                                                     *)
LEMMA ListCheckEffect ==
    ASSUME StoreTypes, NEW s \in Slots, ListCheck(s)
    PROVE  /\ Rest(s) /\ Keeps(ops'[s], ops[s]) /\ ops'[s].kept = ops[s].kept
           /\ ops[s].pc = "check" /\ ops[s].kind = "list" /\ BudgetMoves
           /\ \/ /\ ops'[s].pc = "listed" /\ ops'[s].idx = index /\ UNCHANGED indexQueue
                 /\ Entries(index) = ops[s].rec
              \/ /\ ops'[s].pc = "read" /\ ops'[s].todo = ops[s].rec /\ UNCHANGED indexQueue
              \/ ops'[s].pc = "scan" /\ indexQueue' = Append(indexQueue, s)
           /\ UNCHANGED <<diskVars, page, runQueue, marked>>
<1>1. ops[s].pc = "check" /\ UNCHANGED <<diskVars, page, runQueue, marked>>
  BY DEF ListCheck, At
<1>2. ops[s].kind = "list" /\ ops[s] \in OpRecords /\ index \in Indexes /\ BudgetOK
  BY <1>1, OpTypes DEF StoreTypes
<1>3. \/ /\ IndexMatchesFiles(index, ops[s].rec) /\ UNCHANGED indexQueue
         /\ \/ ops' = [ops EXCEPT ![s].idx = index, ![s].pc = "listed"]
            \/ ops' = [ops EXCEPT ![s].todo = Entries(index), ![s].pc = "read"]
         /\ UNCHANGED budget
      \/ /\ indexQueue' = Append(indexQueue, s) /\ Goto(s, "scan")
         /\ UNCHANGED budget \/ Spend("failures")
  BY Zenon DEF ListCheck
<1>4. BudgetMoves
  <2>1. UNCHANGED budget \/ Spend("failures")
    BY <1>3, Zenon
  <2>2. CASE UNCHANGED budget
    BY <1>2, <2>2, BudgetRests DEF BudgetMoves
  <2>3. CASE Spend("failures")
    BY <1>2, <2>3, SpendEffect DEF BudgetMoves
  <2> QED BY <2>1, <2>2, <2>3
<1>5. CASE /\ IndexMatchesFiles(index, ops[s].rec) /\ UNCHANGED indexQueue
           /\ ops' = [ops EXCEPT ![s].idx = index, ![s].pc = "listed"] /\ UNCHANGED budget
  <2> DEFINE o == [ops[s] EXCEPT !.idx = index, !.pc = "listed"]
  <2>1. o \in OpRecords /\ Keeps(o, ops[s]) /\ o.kept = ops[s].kept /\ o.idx = index /\ o.pc = "listed"
    BY <1>2 DEF OpRecords, Keeps, PCs
  <2>2. ops' = [ops EXCEPT ![s] = o]
    BY <1>5
  <2> HIDE DEF o
  <2>3. Rest(s) /\ ops'[s] = o
    BY <2>1, <2>2, Replaced DEF StoreTypes
  <2> QED BY <1>1, <1>2, <1>4, <1>5, <2>1, <2>3 DEF IndexMatchesFiles
<1>6. CASE indexQueue' = Append(indexQueue, s) /\ Goto(s, "scan")
  <2>1. "scan" \in PCs
    BY DEF PCs
  <2> QED BY <1>1, <1>2, <1>4, <1>6, <2>1, GotoEffect
<1>7. CASE /\ IndexMatchesFiles(index, ops[s].rec) /\ UNCHANGED indexQueue
           /\ ops' = [ops EXCEPT ![s].todo = Entries(index), ![s].pc = "read"] /\ UNCHANGED budget
  <2> DEFINE e == Entries(index)
             o == [ops[s] EXCEPT !.todo = e, !.pc = "read"]
  <2>1. e \subseteq Ids /\ e = ops[s].rec
    BY <1>2, <1>7, EntriesOf DEF IndexMatchesFiles
  <2>2. ops' = [ops EXCEPT ![s] = o]
    BY <1>7
  <2> HIDE DEF e
  <2>3. o \in OpRecords /\ Keeps(o, ops[s]) /\ o.kept = ops[s].kept /\ o.todo = e /\ o.pc = "read"
    BY <1>2, <2>1 DEF OpRecords, Keeps, PCs
  <2> HIDE DEF o
  <2>4. Rest(s) /\ ops'[s] = o
    BY <2>2, <2>3, Replaced DEF StoreTypes
  <2> QED BY <1>1, <1>2, <1>4, <1>7, <2>1, <2>3, <2>4
<1> QED BY <1>3, <1>5, <1>6, <1>7

(* A rebuild begins: nothing is read yet.                                  *)
LEMMA ScanEffect ==
    ASSUME StoreTypes, NEW s \in Slots, Scan(s)
    PROVE  /\ Rest(s) /\ Keeps(ops'[s], ops[s]) /\ ops'[s].kept = ops[s].kept
           /\ ops[s].pc = "scan" /\ ops'[s].pc = "files" /\ ops[s].kind = "list" /\ Runs(s)
           /\ ops'[s].todo = OnDisk /\ ops'[s].idx = NoIndex
<1> DEFINE o == [ops[s] EXCEPT !.todo = OnDisk, !.idx = NoIndex, !.pc = "files"]
<1>1. OnDisk \subseteq Ids /\ NoIndex \in Indexes /\ ops[s] \in OpRecords
  BY EntriesOf DEF OnDisk, StoreTypes
<1>2. o \in OpRecords /\ Keeps(o, ops[s]) /\ o.kept = ops[s].kept /\ o.pc = "files"
      /\ o.todo = OnDisk /\ o.idx = NoIndex
  BY <1>1 DEF OpRecords, Keeps, PCs
<1>3. ops[s].pc = "scan" /\ Runs(s) /\ ops' = [ops EXCEPT ![s] = o]
  BY DEF Scan, At
<1> HIDE DEF o
<1>4. Rest(s) /\ ops'[s] = o
  BY <1>2, <1>3, Replaced DEF StoreTypes
<1> QED BY <1>2, <1>3, <1>4, OpTypes

(* A rebuild or a listing reads a file, finds it gone, or fails to read it. *)
LEMMA ScanFileEffect ==
    ASSUME StoreTypes, NEW s \in Slots, NEW id \in Ids, ScanFile(s, id)
    PROVE  /\ Rest(s) /\ Keeps(ops'[s], ops[s])
           /\ ops[s].pc \in {"files", "read"} /\ ops'[s].pc = ops[s].pc /\ ops[s].kind = "list"
           /\ ops'[s].todo = ops[s].todo \ {id} /\ BudgetMoves
           /\ UNCHANGED <<diskVars, page, runQueue, indexQueue, marked>>
           /\ \/ ops'[s].kept = ops[s].kept \ {id} /\ ops'[s].idx = ops[s].idx
              \/ /\ ops'[s].kept = ops[s].kept
                 /\ id \notin OnDisk => ops'[s].idx = ops[s].idx
                 /\ id \in OnDisk =>
                       /\ Entries(ops'[s].idx) = Entries(ops[s].idx) \cup {id}
                       /\ ops'[s].idx[id] = Summary(files[id])
                       /\ \A i \in Entries(ops[s].idx) \ {id} : ops'[s].idx[i] = ops[s].idx[i]
<1> DEFINE idx == ops[s].idx
           E == Entries(idx) \cup {id}
           new == [i \in E |-> IF i = id THEN Summary(files[id]) ELSE idx[i]]
           jdx == IF id \notin OnDisk THEN idx ELSE new
           o == [ops[s] EXCEPT !.todo = @ \ {id}, !.idx = jdx]
           u == [ops[s] EXCEPT !.todo = @ \ {id}, !.kept = @ \ {id}]
<1>0. /\ ops[s].pc \in {"files", "read"} /\ UNCHANGED <<diskVars, page, runQueue, indexQueue, marked>>
      /\ \/ ops' = [ops EXCEPT ![s] = o] /\ UNCHANGED budget
         \/ ops' = [ops EXCEPT ![s] = u] /\ Spend("failures")
  BY DEF ScanFile
<1>1. ops[s] \in OpRecords /\ idx \in Indexes /\ ops[s].kind = "list" /\ BudgetOK
  BY <1>0, OpTypes DEF StoreTypes
<1>2. E \in SUBSET Ids /\ (id \in OnDisk => Summary(files[id]) \in SUBSET Marks)
  BY <1>1, EntriesOf DEF OnDisk, StoreTypes, FilesOK, Summary
<1>3. ASSUME id \in OnDisk
      PROVE  /\ new \in Indexes /\ Entries(new) = E /\ new[id] = Summary(files[id])
             /\ \A i \in Entries(idx) \ {id} : new[i] = idx[i]
  <2>1. new \in [E -> SUBSET Marks]
    BY <1>1, <1>2, <1>3, EntriesOf
  <2>2. new[id] = Summary(files[id]) /\ \A i \in Entries(idx) \ {id} : new[i] = idx[i]
    OBVIOUS
  <2> HIDE DEF new, E
  <2> QED BY <1>2, <2>1, <2>2, EntriesOf
<1>4. jdx \in Indexes
  BY <1>1, <1>3
<1>5. CASE ops' = [ops EXCEPT ![s] = o] /\ UNCHANGED budget
  <2> HIDE DEF jdx
  <2>1. o \in OpRecords /\ Keeps(o, ops[s]) /\ o.kept = ops[s].kept /\ o.pc = ops[s].pc
        /\ o.todo = ops[s].todo \ {id} /\ o.idx = jdx
    BY <1>1, <1>4 DEF OpRecords, Keeps
  <2> HIDE DEF o
  <2>2. Rest(s) /\ ops'[s] = o
    BY <1>5, <2>1, Replaced DEF StoreTypes
  <2>3. BudgetMoves
    BY <1>1, <1>5, BudgetRests DEF BudgetMoves
  <2>4. CASE id \notin OnDisk
    BY <1>0, <1>1, <2>1, <2>2, <2>3, <2>4 DEF jdx
  <2>5. CASE id \in OnDisk
    <3>1. jdx = new
      BY <2>5 DEF jdx
    <3> HIDE DEF new
    <3> QED BY <1>0, <1>1, <1>3, <2>1, <2>2, <2>3, <2>5, <3>1
  <2> QED BY <2>4, <2>5
<1>6. CASE ops' = [ops EXCEPT ![s] = u] /\ Spend("failures")
  <2>1. u \in OpRecords /\ Keeps(u, ops[s]) /\ u.kept = ops[s].kept \ {id} /\ u.pc = ops[s].pc
        /\ u.todo = ops[s].todo \ {id} /\ u.idx = ops[s].idx
    BY <1>1 DEF OpRecords, Keeps
  <2> HIDE DEF u
  <2>2. Rest(s) /\ ops'[s] = u
    BY <1>6, <2>1, Replaced DEF StoreTypes
  <2>3. BudgetMoves
    BY <1>1, <1>6, SpendEffect DEF BudgetMoves
  <2> QED BY <1>0, <1>1, <2>1, <2>2, <2>3
<1> QED BY <1>0, <1>5, <1>6

(* listRuns returns what it has read.                                      *)
LEMMA ListReadEffect ==
    ASSUME StoreTypes, NEW s \in Slots, ListRead(s)
    PROVE  /\ Rest(s) /\ Keeps(ops'[s], ops[s]) /\ ops'[s].kept = ops[s].kept
           /\ ops[s].pc = "read" /\ ops'[s].pc = "listed" /\ ops[s].kind = "list"
           /\ ops[s].todo = {} /\ ops'[s].idx = ops[s].idx
           /\ UNCHANGED <<diskVars, page, runQueue, indexQueue, marked, budget>>
<1>1. /\ ops[s].pc = "read" /\ ops[s].todo = {} /\ Goto(s, "listed")
      /\ UNCHANGED <<diskVars, page, runQueue, indexQueue, marked, budget>>
  BY DEF ListRead, At
<1>2. ops[s].kind = "list" /\ "listed" \in PCs
  BY <1>1, OpTypes DEF PCs
<1> QED BY <1>1, <1>2, GotoEffect

(* A saved record is put into the index as it was read, unless the write   *)
(* fails.                                                                  *)
LEMMA UpsertEffect ==
    ASSUME StoreTypes, NEW s \in Slots, UpsertEntry(s)
    PROVE  /\ ops[s].pc = "put" /\ Runs(s) /\ Return(s) /\ indexQueue' = Tail(indexQueue)
           /\ UNCHANGED files /\ BudgetMoves /\ index' \in Indexes
           /\ NothingFailed' =>
                 /\ Entries(index') = Entries(ops[s].idx) \cup {ops[s].id}
                 /\ index'[ops[s].id] = Summary(ops[s].rec)
                 /\ \A i \in Entries(ops[s].idx) \ {ops[s].id} : index'[i] = ops[s].idx[i]
<1> DEFINE idx == ops[s].idx
           E == Entries(idx) \cup {ops[s].id}
           new == [id \in E |-> IF id = ops[s].id THEN Summary(ops[s].rec) ELSE idx[id]]
<1>1. /\ ops[s].pc = "put" /\ Runs(s) /\ Return(s) /\ indexQueue' = Tail(indexQueue)
      /\ UNCHANGED files
      /\ (index' = new /\ UNCHANGED budget) \/ (Spend("failures") /\ UNCHANGED index)
  BY DEF UpsertEntry, At
<1>2. ops[s].id \in Ids /\ ops[s].rec \subseteq Marks /\ idx \in Indexes /\ index \in Indexes /\ BudgetOK
  BY <1>1, OpTypes DEF StoreTypes
<1>3. E \in SUBSET Ids /\ Summary(ops[s].rec) \in SUBSET Marks
  BY <1>2, EntriesOf DEF Summary
<1>4. new \in [E -> SUBSET Marks]
  BY <1>2, <1>3, EntriesOf
<1>5. new[ops[s].id] = Summary(ops[s].rec) /\ \A i \in Entries(idx) \ {ops[s].id} : new[i] = idx[i]
  OBVIOUS
<1> HIDE DEF new, E
<1>6. new \in Indexes /\ Entries(new) = E
  BY <1>3, <1>4, EntriesOf
<1>7. CASE index' = new /\ UNCHANGED budget
  <2>1. BudgetMoves
    BY <1>2, <1>7, BudgetRests DEF BudgetMoves
  <2> QED BY <1>1, <1>5, <1>6, <1>7, <2>1 DEF E
<1>8. CASE Spend("failures") /\ UNCHANGED index
  <2>1. BudgetMoves /\ ~NothingFailed'
    BY <1>2, <1>8, SpendEffect DEF BudgetMoves
  <2> QED BY <1>1, <1>2, <1>8, <2>1
<1> QED BY <1>1, <1>7, <1>8

(* The entry of a deleted run is taken out of the index as it was read,    *)
(* unless the write fails.                                                 *)
LEMMA FilterEffect ==
    ASSUME StoreTypes, NEW s \in Slots, FilterEntry(s)
    PROVE  /\ ops[s].pc = "filter" /\ Runs(s) /\ End(s) /\ indexQueue' = Tail(indexQueue)
           /\ UNCHANGED <<files, page, marked>> /\ BudgetMoves /\ index' \in Indexes
           /\ NothingFailed' /\ ops[s].idx = index =>
                 /\ Entries(index') = Entries(index) \ {ops[s].id}
                 /\ \A i \in Entries(index) \ {ops[s].id} : index'[i] = index[i]
<1> DEFINE idx == ops[s].idx
           E == Entries(idx) \ {ops[s].id}
           new == [id \in E |-> idx[id]]
<1>1. /\ ops[s].pc = "filter" /\ Runs(s) /\ End(s) /\ indexQueue' = Tail(indexQueue)
      /\ UNCHANGED <<files, page, marked>>
      /\ \/ index' = (IF ops[s].id \in Entries(idx) THEN new ELSE index) /\ UNCHANGED budget
         \/ Spend("failures") /\ UNCHANGED index
  BY DEF FilterEntry, At
<1>2. ops[s].id \in Ids /\ idx \in Indexes /\ index \in Indexes /\ BudgetOK
  BY <1>1, OpTypes DEF StoreTypes
<1>3. E \in SUBSET Ids
  BY <1>2, EntriesOf
<1>4. new \in [E -> SUBSET Marks]
  BY <1>2, <1>3, EntriesOf
<1>5. \A i \in E : new[i] = idx[i]
  OBVIOUS
<1> HIDE DEF new
<1>6. new \in Indexes /\ Entries(new) = E
  BY <1>3, <1>4, EntriesOf
<1>7. CASE index' = (IF ops[s].id \in Entries(idx) THEN new ELSE index) /\ UNCHANGED budget
  <2>1. BudgetMoves
    BY <1>2, <1>7, BudgetRests DEF BudgetMoves
  <2>2. CASE ops[s].id \in Entries(idx)
    BY <1>1, <1>5, <1>6, <1>7, <2>1, <2>2
  <2>3. CASE ops[s].id \notin Entries(idx)
    BY <1>1, <1>2, <1>7, <2>1, <2>3
  <2> QED BY <2>2, <2>3
<1>8. CASE Spend("failures") /\ UNCHANGED index
  <2>1. BudgetMoves /\ ~NothingFailed'
    BY <1>2, <1>8, SpendEffect DEF BudgetMoves
  <2> QED BY <1>1, <1>2, <1>8, <2>1
<1> QED BY <1>1, <1>7, <1>8

(* A rebuild writes what it has read, unless the write fails.              *)
LEMMA RebuildEffect ==
    ASSUME StoreTypes, NEW s \in Slots, RebuildIndex(s)
    PROVE  /\ ops[s].pc = "files" /\ ops[s].kind = "list" /\ ops[s].todo = {}
           /\ indexQueue' = Tail(indexQueue)
           /\ Rest(s) /\ Keeps(ops'[s], ops[s]) /\ ops'[s].kept = ops[s].kept
           /\ ops'[s].idx = ops[s].idx /\ ops'[s].pc = "listed"
           /\ UNCHANGED <<files, page, runQueue, marked>> /\ BudgetMoves /\ index' \in Indexes
           /\ NothingFailed' => index' = ops[s].idx
<1>1. /\ ops[s].pc = "files" /\ ops[s].todo = {} /\ indexQueue' = Tail(indexQueue)
      /\ Goto(s, "listed") /\ UNCHANGED <<files, page, runQueue, marked>>
      /\ (index' = ops[s].idx /\ UNCHANGED budget) \/ (Spend("failures") /\ UNCHANGED index)
  BY DEF RebuildIndex, At
<1>2. ops[s].kind = "list" /\ ops[s].idx \in Indexes /\ index \in Indexes /\ BudgetOK
  BY <1>1, OpTypes DEF StoreTypes
<1>3. "listed" \in PCs
  BY DEF PCs
<1>4. Rest(s) /\ Keeps(ops'[s], ops[s]) /\ ops'[s].kept = ops[s].kept
      /\ ops'[s].idx = ops[s].idx /\ ops'[s].pc = "listed"
  BY <1>1, <1>3, GotoEffect
<1>5. CASE index' = ops[s].idx /\ UNCHANGED budget
  <2>1. BudgetMoves
    BY <1>2, <1>5, BudgetRests DEF BudgetMoves
  <2> QED BY <1>1, <1>2, <1>4, <1>5, <2>1
<1>6. CASE Spend("failures") /\ UNCHANGED index
  <2>1. BudgetMoves /\ ~NothingFailed'
    BY <1>2, <1>6, SpendEffect DEF BudgetMoves
  <2> QED BY <1>1, <1>2, <1>4, <1>6, <2>1
<1> QED BY <1>1, <1>5, <1>6

-----------------------------------------------------------------------------
(* The types are kept.                                                     *)

(* Operations that stay keep their shape.                                  *)
LEMMA ShapesStay ==
    ASSUME StoreTypes, NEW s \in Slots, Rest(s), OpOK(ops'[s])
    PROVE  ops' \in [Slots -> OpRecords] /\ \A t \in Slots : OpOK(ops'[t])
<1>1. ASSUME NEW t \in Slots \ {s} PROVE OpOK(ops'[t])
  <2>1. OpOK(ops[t])
    BY DEF StoreTypes
  <2>2. ops'[t].kind = ops[t].kind /\ ops'[t].id = ops[t].id /\ ops'[t].rec = ops[t].rec
        /\ ops'[t].pc = ops[t].pc
    BY DEF Rest, Keeps
  <2> QED BY <2>1, <2>2 DEF OpOK
<1> QED BY <1>1 DEF Rest

(* An operation of the same kind at a place of its kind is well formed.    *)
LEMMA ShapeOf ==
    ASSUME StoreTypes, NEW s \in Slots, Keeps(ops'[s], ops[s]),
           \/ ops[s].kind = "create" /\ ops'[s].pc \in {"file", "upsert", "put"}
           \/ ops[s].kind \in MarkKinds /\ ops'[s].pc \in {"load", "file", "upsert", "put"}
           \/ ops[s].kind = "edit" /\ ops'[s].pc \in {"file", "upsert", "put", "refresh"}
           \/ ops[s].kind = "delete" /\ ops'[s].pc \in {"unlink", "drop", "filter"}
           \/ ops[s].kind = "list" /\ ops'[s].pc \in {"check", "scan", "files", "read", "listed"}
    PROVE  OpOK(ops'[s])
<1>1. OpOK(ops[s])
  BY DEF StoreTypes
<1>2. ops'[s].kind = ops[s].kind /\ ops'[s].id = ops[s].id /\ ops'[s].rec = ops[s].rec
  BY DEF Keeps
<1> QED BY <1>1, <1>2, Records DEF OpOK

(* An idle operation has its shape.                                        *)
LEMMA IdleShape ==
    ASSUME NEW s, Idles(s)
    PROVE  OpOK(ops'[s])
  BY Records DEF Idles, OpOK

(* A file that is written or deleted is not a fresh one.                   *)
LEMMA PageStays ==
    ASSUME StoreTypes, page' = page \/ page' = NoPage \/
              (page # NoPage /\ page' \in [id : Ids, rec : SUBSET Marks] /\ page'.id = page.id),
           \A id \in Ids : files'[id] = Fresh => files[id] = Fresh
    PROVE  PageOK'
<1>1. page # NoPage => page \in [id : Ids, rec : SUBSET Marks] /\ files[page.id] # Fresh
  BY DEF StoreTypes, PageOK
<1>2. ASSUME page' # NoPage PROVE page' \in [id : Ids, rec : SUBSET Marks] /\ files'[page'.id] # Fresh
  <2>1. page # NoPage /\ page' \in [id : Ids, rec : SUBSET Marks] /\ page'.id = page.id
    BY <1>1, <1>2
  <2>2. page.id \in Ids
    BY <1>1, <2>1
  <2> QED BY <1>1, <2>1, <2>2
<1> QED BY <1>2 DEF PageOK, NoPage

(* An action that begins an operation.                                     *)
LEMMA StartTypes ==
    ASSUME StoreTypes, NEW s \in Slots, StartStep(s)
    PROVE  StoreTypes'
<1>0. FilesOK /\ index \in Indexes /\ PageOK /\ marked \in [Ids -> SUBSET Marks] /\ BudgetOK
      /\ "none" \notin Ids
  BY RunStoreAssumption DEF StoreTypes
<1>1. ASSUME NEW kind \in Kinds, NEW id \in Ids, NEW rec \in SUBSET Marks, NEW pc \in PCs,
             Begin(s, kind, id, rec, pc), UNCHANGED <<diskVars, page, marked>>,
             BudgetOK',
             \/ kind \in {"create", "edit"} /\ pc = "file"
             \/ kind \in MarkKinds /\ pc = "load"
             \/ kind = "delete" /\ pc = "unlink"
      PROVE  StoreTypes'
  <2>1. Begin(s, kind, id, rec, pc)
    BY <1>1
  <2>2. Rest(s) /\ ops'[s].kind = kind /\ ops'[s].id = id /\ ops'[s].rec = rec /\ ops'[s].pc = pc
    BY <2>1, BeginEffect
  <2>3. OpOK(ops'[s])
    BY <1>1, <2>2, Records DEF OpOK
  <2>4. ops' \in [Slots -> OpRecords] /\ \A t \in Slots : OpOK(ops'[t])
    BY <2>2, <2>3, ShapesStay
  <2>5. FilesOK' /\ PageOK' /\ index' \in Indexes /\ marked' \in [Ids -> SUBSET Marks]
    BY <1>0, <1>1 DEF FilesOK, PageOK, diskVars
  <2> QED BY <1>1, <2>4, <2>5 DEF StoreTypes
<1>2. {"create", "delete", "edit"} \cup MarkKinds \subseteq Kinds
      /\ {"file", "unlink", "load"} \subseteq PCs /\ {} \in SUBSET Marks
  BY DEF Kinds, PCs
<1>3. ASSUME NEW id \in Ids, CreateStart(s, id) PROVE StoreTypes'
  <2>1. Begin(s, "create", id, {}, "file") /\ UNCHANGED <<diskVars, page, marked, budget>>
    BY <1>3 DEF CreateStart
  <2>2. BudgetOK'
    BY <1>0, <2>1, BudgetRests
  <2> QED BY <1>1, <1>2, <2>1, <2>2
<1>4. ASSUME NEW id \in Ids, DeleteStart(s, id) PROVE StoreTypes'
  <2>1. Begin(s, "delete", id, {}, "unlink") /\ UNCHANGED <<diskVars, page, marked>> /\ Spend("deletes")
    BY <1>4 DEF DeleteStart
  <2> QED BY <1>0, <1>1, <1>2, <2>1, SpendEffect
<1>5. ASSUME NEW mark \in MarkKinds, MarkStart(s, mark) PROVE StoreTypes'
  <2>1. Begin(s, mark, page.id, {}, "load") /\ UNCHANGED <<diskVars, page, marked, budget>>
        /\ page.id \in Ids
    BY <1>0, <1>5 DEF MarkStart, PageOK
  <2> QED BY <1>0, <1>1, <1>2, <2>1, BudgetRests
<1>6. CASE EditStart(s)
  <2>1. page.id \in Ids /\ page.rec \in SUBSET Marks
    BY <1>0, <1>6 DEF EditStart, PageOK
  <2>2. PICK rec \in {page.rec \cup {"note"}, page.rec \ {"note"}} : Begin(s, "edit", page.id, rec, "file")
    BY <1>6 DEF EditStart
  <2>3. UNCHANGED <<diskVars, page, marked>> /\ Spend("edits") /\ rec \in SUBSET Marks
    BY <1>6, <2>1, <2>2 DEF EditStart, Marks
  <2>4. BudgetOK'
    BY <1>0, <2>3, SpendEffect
  <2> QED BY <1>1, <1>2, <2>1, <2>2, <2>3, <2>4
<1>7. CASE ListStart(s)
  <2>1. Rest(s) /\ ops'[s].kind = "list" /\ ops'[s].id = "none" /\ ops'[s].pc = "check"
    BY <1>7, ListStartEffect
  <2>2. OpOK(ops'[s])
    BY <2>1, Records DEF OpOK
  <2>3. ops' \in [Slots -> OpRecords] /\ \A t \in Slots : OpOK(ops'[t])
    BY <2>1, <2>2, ShapesStay
  <2>4. UNCHANGED <<files, index, page, marked, budget>>
    BY <1>7 DEF ListStart, diskVars
  <2> QED BY <1>0, <2>3, <2>4 DEF StoreTypes, FilesOK, PageOK, BudgetOK
<1> QED BY <1>3, <1>4, <1>5, <1>6, <1>7 DEF StartStep

(* An action of an operation that is under way.                            *)
LEMMA StepTypes ==
    ASSUME StoreTypes, NEW s \in Slots, OpStep(s)
    PROVE  StoreTypes'
<1>0. FilesOK /\ index \in Indexes /\ PageOK /\ marked \in [Ids -> SUBSET Marks] /\ BudgetOK
  BY DEF StoreTypes
<1>1. ASSUME Rest(s), OpOK(ops'[s]), FilesOK', index' \in Indexes, PageOK',
             marked' \in [Ids -> SUBSET Marks], BudgetOK'
      PROVE  StoreTypes'
  <2>1. ops' \in [Slots -> OpRecords] /\ \A t \in Slots : OpOK(ops'[t])
    BY <1>1, ShapesStay
  <2> QED BY <1>1, <2>1 DEF StoreTypes
<1>2. ASSUME UNCHANGED files PROVE FilesOK'
  BY <1>0, <1>2 DEF FilesOK
<1>3. ASSUME UNCHANGED <<files, page>> PROVE PageOK'
  BY <1>0, <1>3 DEF PageOK
<1>4. ASSUME UNCHANGED budget PROVE BudgetOK'
  BY <1>0, <1>4, BudgetRests
<1>5. ASSUME Spend("failures") PROVE BudgetOK'
  BY <1>0, <1>5, SpendEffect
<1>6. ASSUME End(s) PROVE Rest(s) /\ OpOK(ops'[s])
  BY <1>6, EndEffect, IdleShape DEF End
<1>7. CASE WriteFile(s)
  <2>1. ops[s].pc = "file" /\ Goto(s, "upsert") /\ UNCHANGED <<index, page, marked, budget>>
        /\ files' = [files EXCEPT ![ops[s].id] = ops[s].rec] /\ "upsert" \in PCs
    BY <1>7 DEF WriteFile, At, PCs
  <2>2. ops[s].id \in Ids /\ ops[s].rec \in SUBSET Marks /\ ops[s].kind \in {"create", "edit"} \cup MarkKinds
    BY <2>1, OpTypes
  <2>3. Rest(s) /\ Keeps(ops'[s], ops[s]) /\ ops'[s].pc = "upsert"
    BY <2>1, GotoEffect
  <2>4. OpOK(ops'[s])
    BY <2>2, <2>3, ShapeOf
  <2>5. FilesOK' /\ \A id \in Ids : files'[id] = Fresh => files[id] = Fresh
    BY <1>0, <2>1, <2>2, Records DEF FilesOK
  <2> QED BY <1>0, <1>1, <1>4, <2>1, <2>3, <2>4, <2>5, PageStays
<1>8. CASE WriteFileFails(s) \/ UnlinkFails(s)
  <2>1. End(s) /\ Spend("failures") /\ UNCHANGED <<files, index, page, marked>>
    BY <1>8 DEF WriteFileFails, UnlinkFails, diskVars
  <2> QED BY <1>0, <1>1, <1>2, <1>3, <1>5, <1>6, <2>1
<1>9. CASE ReadIndex(s)
  <2>1. /\ Rest(s) /\ Keeps(ops'[s], ops[s]) /\ ops[s].pc \in {"upsert", "drop"}
        /\ ops'[s].pc = IF ops[s].pc = "upsert" THEN "put" ELSE "filter"
        /\ BudgetMoves /\ UNCHANGED <<files, index, page, marked>>
    BY <1>9, ReadIndexEffect DEF diskVars
  <2>2. OpOK(ops'[s])
    BY <2>1, OpTypes, ShapeOf
  <2> QED BY <1>0, <1>1, <1>2, <1>3, <2>1, <2>2 DEF BudgetMoves
<1>10. CASE UpsertEntry(s)
  <2>1. ops[s].pc = "put" /\ Return(s) /\ UNCHANGED files /\ BudgetMoves /\ index' \in Indexes
    BY <1>10, UpsertEffect
  <2>2. /\ Rest(s)
        /\ ops[s].kind = "edit" => Keeps(ops'[s], ops[s]) /\ ops'[s].pc = "refresh"
        /\ ops[s].kind # "edit" => Idles(s)
        /\ marked' \in [Ids -> SUBSET Marks]
        /\ page' # NoPage =>
              page # NoPage /\ page' \in [id : Ids, rec : SUBSET Marks] /\ page'.id = page.id
    BY <2>1, ReturnEffect DEF At
  <2>3. OpOK(ops'[s])
    BY <2>2, ShapeOf, IdleShape
  <2>4. PageOK'
    BY <2>1, <2>2, PageStays
  <2> QED BY <1>1, <1>2, <2>1, <2>2, <2>3, <2>4 DEF BudgetMoves
<1>11. CASE Unlink(s)
  <2>1. /\ Rest(s) /\ Keeps(ops'[s], ops[s]) /\ ops[s].kind = "delete" /\ ops'[s].pc = "drop"
        /\ ops[s].id \in Ids
    BY <1>11, UnlinkEffect
  <2>2. UNCHANGED <<index, page, budget>> /\ files' = [files EXCEPT ![ops[s].id] = Gone]
        /\ marked' = [marked EXCEPT ![ops[s].id] = {}]
    BY <1>11 DEF Unlink
  <2>3. OpOK(ops'[s])
    BY <2>1, ShapeOf
  <2>4. FilesOK' /\ \A id \in Ids : files'[id] = Fresh => files[id] = Fresh
    BY <1>0, <2>1, <2>2, Records DEF FilesOK
  <2>5. marked' \in [Ids -> SUBSET Marks]
    BY <1>0, <2>2
  <2> QED BY <1>0, <1>1, <1>4, <2>1, <2>2, <2>3, <2>4, <2>5, PageStays
<1>12. CASE FilterEntry(s)
  <2>1. End(s) /\ UNCHANGED <<files, page, marked>> /\ BudgetMoves /\ index' \in Indexes
    BY <1>12, FilterEffect
  <2> QED BY <1>0, <1>1, <1>2, <1>3, <1>6, <2>1 DEF BudgetMoves
<1>13. CASE MarkLoad(s)
  <2>0. UNCHANGED <<files, index>> /\ ops[s].pc = "load" /\ BudgetOK'
    <3>1. UNCHANGED budget \/ Spend("failures")
      BY <1>13, Zenon DEF MarkLoad
    <3> QED BY <1>0, <1>4, <1>13, <3>1, SpendEffect DEF MarkLoad, At, diskVars
  <2>1. ops[s].id \in Ids /\ ops[s].kind \in MarkKinds
    BY <2>0, OpTypes
  <2>2. CASE End(s) /\ UNCHANGED <<page, marked>>
    BY <1>0, <1>1, <1>2, <1>3, <1>6, <2>0, <2>2
  <2>3. CASE /\ End(s) /\ files[ops[s].id] \notin {Fresh, Gone}
             /\ page' = IF page.id = ops[s].id THEN [page EXCEPT !.rec = files[ops[s].id]] ELSE page
             /\ marked' = [marked EXCEPT ![ops[s].id] = @ \cup {"claimed"}]
    <3>1. marked' \in [Ids -> SUBSET Marks]
      BY <1>0, <2>3 DEF Marks
    <3>2. page.id = ops[s].id => page # NoPage
      BY <2>1, RunStoreAssumption DEF NoPage
    <3>3. files[ops[s].id] \in SUBSET Marks
      BY <1>0, <2>1, <2>3 DEF FilesOK
    <3>4. page' = page \/
             (page # NoPage /\ page' \in [id : Ids, rec : SUBSET Marks] /\ page'.id = page.id)
      BY <1>0, <2>3, <3>2, <3>3 DEF PageOK
    <3>5. PageOK'
      BY <2>0, <3>4, PageStays
    <3> QED BY <1>0, <1>1, <1>2, <1>6, <2>0, <2>3, <3>1, <3>5
  <2>4. CASE /\ files[ops[s].id] \notin {Fresh, Gone} /\ UNCHANGED <<page, marked>>
             /\ ops' = [ops EXCEPT ![s].rec = files[ops[s].id] \cup {ops[s].kind}, ![s].pc = "file"]
    <3>1. /\ Rest(s) /\ ops'[s].kind = ops[s].kind /\ ops'[s].id = ops[s].id /\ ops'[s].pc = "file"
          /\ ops'[s].rec \subseteq Marks
      BY <2>0, <2>4, LoadEffect
    <3>2. OpOK(ops'[s])
      BY <2>1, <3>1, Records DEF OpOK
    <3> QED BY <1>0, <1>1, <1>2, <1>3, <2>0, <2>4, <3>1, <3>2
  <2> QED BY <1>13, <2>2, <2>3, <2>4 DEF MarkLoad
<1>14. CASE Refresh(s)
  <2>1. End(s) /\ UNCHANGED <<files, index, marked>> /\ BudgetOK'
    <3>1. UNCHANGED budget \/ Spend("failures")
      BY <1>14, Zenon DEF Refresh
    <3> QED BY <1>0, <1>4, <1>14, <3>1, SpendEffect DEF Refresh, diskVars
  <2>2. ops[s].id \in Ids
    BY <1>14, OpTypes DEF Refresh, At
  <2>3. page' = page \/ page' = NoPage \/
           (page # NoPage /\ page' \in [id : Ids, rec : SUBSET Marks] /\ page'.id = page.id)
    <3>1. CASE page.id # ops[s].id
      BY <1>14, <3>1 DEF Refresh
    <3>2. CASE page.id = ops[s].id /\ ops[s].id \in OnDisk
      <4>1. page' = NoPage \/ page' = [page EXCEPT !.rec = files[ops[s].id]]
        BY <1>14, <3>2 DEF Refresh
      <4>2. files[ops[s].id] \in SUBSET Marks
        BY <1>0, <2>2, <3>2 DEF FilesOK, OnDisk
      <4>3. page # NoPage
        BY <2>2, <3>2, RunStoreAssumption DEF NoPage
      <4> QED BY <1>0, <4>1, <4>2, <4>3 DEF PageOK
    <3>3. CASE page.id = ops[s].id /\ ops[s].id \notin OnDisk
      BY <1>14, <3>3 DEF Refresh
    <3> QED BY <3>1, <3>2, <3>3
  <2>4. PageOK'
    BY <2>1, <2>3, PageStays
  <2> QED BY <1>0, <1>1, <1>2, <1>6, <2>1, <2>4
<1>15. CASE ListCheck(s)
  <2>1. /\ Rest(s) /\ Keeps(ops'[s], ops[s]) /\ ops[s].kind = "list" /\ BudgetMoves
        /\ ops'[s].pc \in {"listed", "read", "scan"} /\ UNCHANGED <<files, index, page, marked>>
    BY <1>15, ListCheckEffect DEF diskVars
  <2>2. OpOK(ops'[s])
    BY <2>1, ShapeOf
  <2> QED BY <1>0, <1>1, <1>2, <1>3, <2>1, <2>2 DEF BudgetMoves
<1>16. CASE Scan(s)
  <2>1. /\ Rest(s) /\ Keeps(ops'[s], ops[s]) /\ ops[s].kind = "list" /\ ops'[s].pc = "files"
    BY <1>16, ScanEffect
  <2>2. UNCHANGED <<files, index, page, marked, budget>>
    BY <1>16 DEF Scan, diskVars
  <2> QED BY <1>0, <1>1, <1>2, <1>3, <1>4, <2>1, <2>2, ShapeOf
<1>17. ASSUME NEW id \in Ids, ScanFile(s, id) PROVE StoreTypes'
  <2>1. /\ Rest(s) /\ Keeps(ops'[s], ops[s]) /\ ops[s].kind = "list" /\ ops'[s].pc \in {"files", "read"}
        /\ UNCHANGED <<files, index, page, marked>> /\ BudgetMoves
    BY <1>17, ScanFileEffect DEF diskVars
  <2> QED BY <1>0, <1>1, <1>2, <1>3, <2>1, ShapeOf DEF BudgetMoves
<1>18. CASE RebuildIndex(s)
  <2>1. /\ Rest(s) /\ Keeps(ops'[s], ops[s]) /\ ops[s].kind = "list" /\ ops'[s].pc = "listed"
        /\ UNCHANGED <<files, page, marked>> /\ BudgetMoves /\ index' \in Indexes
    BY <1>18, RebuildEffect
  <2> QED BY <1>0, <1>1, <1>2, <1>3, <2>1, ShapeOf DEF BudgetMoves
<1>19. CASE ListEnd(s)
  <2>1. End(s) /\ UNCHANGED <<files, index, page, marked, budget>>
    BY <1>19 DEF ListEnd, diskVars
  <2> QED BY <1>0, <1>1, <1>2, <1>3, <1>4, <1>6, <2>1
<1>20. CASE ListRead(s)
  <2>1. /\ Rest(s) /\ Keeps(ops'[s], ops[s]) /\ ops[s].kind = "list" /\ ops'[s].pc = "listed"
        /\ UNCHANGED <<files, index, page, marked, budget>>
    BY <1>20, ListReadEffect DEF diskVars
  <2> QED BY <1>0, <1>1, <1>2, <1>3, <1>4, <2>1, ShapeOf
<1> QED BY <1>7, <1>8, <1>9, <1>10, <1>11, <1>12, <1>13, <1>14, <1>15, <1>16, <1>17, <1>18, <1>19, <1>20
        DEF OpStep

(* The page closes.                                                        *)
LEMMA CrashEffect ==
    ASSUME StoreTypes, Crash
    PROVE  /\ StoreTypes' /\ ~NothingFailed' /\ (Unedited' => Unedited)
           /\ ops' \in [Slots -> OpRecords]
           /\ \A s \in Slots : Idles(s)
           /\ runQueue' = [id \in Ids |-> <<>>] /\ indexQueue' = <<>>
           /\ UNCHANGED <<files, index, marked>>
<1>0. FilesOK /\ index \in Indexes /\ marked \in [Ids -> SUBSET Marks] /\ BudgetOK
      /\ DOMAIN ops = Slots
  BY DEF StoreTypes
<1>1. /\ Spend("crashes") /\ page' = NoPage /\ ops' = [s \in Slots |-> NoOp]
      /\ runQueue' = [id \in Ids |-> <<>>] /\ indexQueue' = <<>> /\ UNCHANGED <<files, index, marked>>
  BY <1>0 DEF Crash, diskVars
<1>2. ops' \in [Slots -> OpRecords] /\ \A s \in Slots : Idles(s)
  BY <1>1, NoOpFields DEF Idles
<1>3. \A s \in Slots : OpOK(ops'[s])
  BY <1>2, IdleShape
<1>4. BudgetOK' /\ ~NothingFailed' /\ (Unedited' => Unedited)
  BY <1>0, <1>1, SpendEffect
<1>5. FilesOK' /\ PageOK'
  BY <1>0, <1>1 DEF FilesOK, PageOK
<1> QED BY <1>0, <1>1, <1>2, <1>3, <1>4, <1>5 DEF StoreTypes

(* The page shows a record.                                                *)
LEMMA OpenTypes ==
    ASSUME StoreTypes, NEW id \in Ids, OpenPage(id)
    PROVE  StoreTypes'
<1>1. id \in OnDisk /\ page' = [id |-> id, rec |-> files[id]]
      /\ UNCHANGED <<files, index, ops, marked, budget>>
  BY DEF OpenPage, diskVars
<1>2. files[id] \in SUBSET Marks /\ files[id] # Fresh
  BY <1>1 DEF StoreTypes, FilesOK, OnDisk
<1>3. PageOK'
  BY <1>1, <1>2 DEF PageOK
<1> QED BY <1>1, <1>3 DEF StoreTypes, FilesOK, BudgetOK

-----------------------------------------------------------------------------
(* The queues are kept.                                                    *)

(* The head of the index queue is not another task.                        *)
LEMMA OneRuns ==
    ASSUME NEW s, NEW t, Runs(s), Runs(t)
    PROVE  s = t
  BY DEF Runs

(* No task joins or leaves the index queue.                                *)
LEMMA IndexQueueRests ==
    ASSUME IndexQueueOK, NEW s \in Slots, Rest(s), UNCHANGED indexQueue,
           InIndexQueue(s)' <=> InIndexQueue(s), WritesIndex(s)' => Runs(s)
    PROVE  IndexQueueOK'
<1>1. ASSUME NEW t \in Slots
      PROVE  (InIndexQueue(t)' <=> InIndexQueue(t)) /\ (WritesIndex(t)' => Runs(t))
  <2>1. CASE t = s
    BY <2>1
  <2>2. CASE t # s
    <3>1. ops'[t].pc = ops[t].pc
      BY <2>2 DEF Rest
    <3> QED BY <3>1 DEF InIndexQueue, WritesIndex, IndexQueueOK
  <2> QED BY <2>1, <2>2
<1>2. QueueOf(indexQueue', {t \in Slots : InIndexQueue(t)'})
  BY <1>1 DEF IndexQueueOK, QueueOf
<1> QED BY <1>1, <1>2 DEF IndexQueueOK, Runs

(* A task joins the index queue.                                           *)
LEMMA IndexQueueGrows ==
    ASSUME IndexQueueOK, NEW s \in Slots, Rest(s), indexQueue' = Append(indexQueue, s),
           ~InIndexQueue(s), ops'[s].pc \in {"upsert", "drop", "scan"}
    PROVE  IndexQueueOK'
<1> DEFINE S == {t \in Slots : InIndexQueue(t)}
<1>1. QueueOf(indexQueue, S) /\ s \notin S
  BY DEF IndexQueueOK
<1> HIDE DEF S
<1>2. /\ QueueOf(indexQueue', S \cup {s}) /\ indexQueue' # <<>>
      /\ Head(indexQueue') = IF indexQueue = <<>> THEN s ELSE Head(indexQueue)
  BY <1>1, AppendQueue
<1>3. ASSUME NEW t \in Slots
      PROVE  /\ InIndexQueue(t)' <=> t \in S \cup {s}
             /\ WritesIndex(t)' => Runs(t)'
  <2>1. CASE t = s
    BY <2>1 DEF InIndexQueue, WritesIndex
  <2>2. CASE t # s
    <3>1. ops'[t].pc = ops[t].pc
      BY <2>2 DEF Rest
    <3>2. WritesIndex(t) => Runs(t)
      BY DEF IndexQueueOK
    <3>3. Runs(t) => Runs(t)'
      BY <1>2 DEF Runs
    <3> QED BY <2>2, <3>1, <3>2, <3>3 DEF InIndexQueue, WritesIndex, S
  <2> QED BY <2>1, <2>2
<1>4. QueueOf(indexQueue', {t \in Slots : InIndexQueue(t)'})
  BY <1>2, <1>3 DEF QueueOf
<1> QED BY <1>3, <1>4 DEF IndexQueueOK

(* The head of the index queue leaves it.                                  *)
LEMMA IndexQueueMovesOn ==
    ASSUME IndexQueueOK, NEW s \in Slots, Rest(s), Runs(s), indexQueue' = Tail(indexQueue),
           ~InIndexQueue(s)'
    PROVE  IndexQueueOK'
<1> DEFINE S == {t \in Slots : InIndexQueue(t)}
<1>1. QueueOf(indexQueue, S) /\ indexQueue # <<>> /\ Head(indexQueue) = s
  BY DEF IndexQueueOK, Runs
<1> HIDE DEF S
<1>2. QueueOf(indexQueue', S \ {s})
  BY <1>1, TailQueue
<1>3. ASSUME NEW t \in Slots
      PROVE  (InIndexQueue(t)' <=> t \in S \ {s}) /\ ~WritesIndex(t)'
  <2>1. CASE t = s
    BY <2>1 DEF InIndexQueue, WritesIndex
  <2>2. CASE t # s
    <3>1. ops'[t].pc = ops[t].pc
      BY <2>2 DEF Rest
    <3>2. ~WritesIndex(t)
      BY <2>2, OneRuns DEF IndexQueueOK
    <3> QED BY <2>2, <3>1, <3>2 DEF InIndexQueue, WritesIndex, S
  <2> QED BY <2>1, <2>2
<1>4. QueueOf(indexQueue', {t \in Slots : InIndexQueue(t)'})
  BY <1>2, <1>3 DEF QueueOf
<1> QED BY <1>3, <1>4 DEF IndexQueueOK

(* No mark joins or leaves its run's queue.                                *)
LEMMA RunQueuesRest ==
    ASSUME RunQueuesOK, NEW s \in Slots, Rest(s), UNCHANGED runQueue,
           \A id \in Ids : /\ IsMark(s, id)' <=> IsMark(s, id)
                           /\ IsMark(s, id) /\ HasLoaded(s)' => Head(runQueue[id]) = s
    PROVE  RunQueuesOK'
<1>1. ASSUME NEW id \in Ids PROVE RunQueueOK(id)'
  <2>1. ASSUME NEW t \in Slots
        PROVE  /\ IsMark(t, id)' <=> IsMark(t, id)
               /\ IsMark(t, id)' /\ HasLoaded(t)' => Head(runQueue[id]) = t
    <3>1. CASE t = s
      BY <3>1
    <3>2. CASE t # s
      <4>1. ops'[t].pc = ops[t].pc /\ ops'[t].kind = ops[t].kind /\ ops'[t].id = ops[t].id
        BY <3>2 DEF Rest, Keeps
      <4>2. IsMark(t, id) /\ HasLoaded(t) => Head(runQueue[id]) = t
        BY DEF RunQueuesOK, RunQueueOK
      <4> QED BY <4>1, <4>2 DEF IsMark, HasLoaded
    <3> QED BY <3>1, <3>2
  <2>2. QueueOf(runQueue'[id], {t \in Slots : IsMark(t, id)'})
    BY <2>1 DEF RunQueuesOK, RunQueueOK, QueueOf
  <2> QED BY <2>1, <2>2 DEF RunQueueOK
<1> QED BY <1>1 DEF RunQueuesOK

(* A mark joins its run's queue.                                           *)
LEMMA RunQueueGrows ==
    ASSUME RunQueuesOK, NEW s \in Slots, Rest(s), NEW p \in Ids, ops[s].kind = "none",
           ops'[s].kind \in MarkKinds, ops'[s].id = p, ops'[s].pc = "load",
           runQueue' = [runQueue EXCEPT ![p] = Append(@, s)]
    PROVE  RunQueuesOK'
<1>1. ASSUME NEW id \in Ids PROVE RunQueueOK(id)'
  <2>1. ASSUME NEW t \in Slots \ {s}
        PROVE  (IsMark(t, id)' <=> IsMark(t, id)) /\ (HasLoaded(t)' <=> HasLoaded(t))
    BY DEF Rest, Keeps, IsMark, HasLoaded
  <2>2. ~IsMark(s, id) /\ (IsMark(s, id)' <=> id = p) /\ ~HasLoaded(s)'
    BY Records DEF IsMark, HasLoaded
  <2> DEFINE S == {t \in Slots : IsMark(t, id)}
  <2>3. QueueOf(runQueue[id], S) /\ s \notin S /\ DOMAIN runQueue = Ids
    BY <2>2 DEF RunQueuesOK, RunQueueOK
  <2>4. \A t \in Slots : t \in S <=> IsMark(t, id)
    OBVIOUS
  <2> HIDE DEF S
  <2>5. CASE id = p
    <3>1. runQueue'[id] = Append(runQueue[id], s)
      BY <2>3, <2>5
    <3>2. /\ QueueOf(runQueue'[id], S \cup {s})
          /\ Head(runQueue'[id]) = IF runQueue[id] = <<>> THEN s ELSE Head(runQueue[id])
      BY <2>3, <3>1, AppendQueue
    <3>3. \A t \in Slots : IsMark(t, id)' <=> t \in S \cup {s}
      BY <2>1, <2>2, <2>4, <2>5
    <3>4. QueueOf(runQueue'[id], {t \in Slots : IsMark(t, id)'})
      BY <3>2, <3>3 DEF QueueOf
    <3>5. ASSUME NEW t \in Slots, IsMark(t, id)', HasLoaded(t)' PROVE Head(runQueue'[id]) = t
      <4>1. t # s /\ IsMark(t, id) /\ HasLoaded(t)
        BY <2>1, <2>2, <3>5
      <4>2. Head(runQueue[id]) = t /\ t \in S
        BY <2>4, <4>1 DEF RunQueuesOK, RunQueueOK
      <4>3. runQueue[id] # <<>>
        BY <2>3, <4>2 DEF QueueOf, Range
      <4> QED BY <3>2, <4>2, <4>3
    <3> QED BY <3>4, <3>5 DEF RunQueueOK
  <2>6. CASE id # p
    <3>1. runQueue'[id] = runQueue[id]
      BY <2>3, <2>6
    <3>2. \A t \in Slots : IsMark(t, id)' <=> t \in S
      BY <2>1, <2>2, <2>4, <2>6
    <3>3. QueueOf(runQueue'[id], {t \in Slots : IsMark(t, id)'})
      BY <2>3, <3>1, <3>2 DEF QueueOf
    <3>4. ASSUME NEW t \in Slots, IsMark(t, id)', HasLoaded(t)' PROVE Head(runQueue'[id]) = t
      <4>1. t # s /\ IsMark(t, id) /\ HasLoaded(t)
        BY <2>1, <2>2, <2>6, <3>4
      <4> QED BY <3>1, <4>1 DEF RunQueuesOK, RunQueueOK
    <3> QED BY <3>3, <3>4 DEF RunQueueOK
  <2> QED BY <2>5, <2>6
<1> QED BY <1>1 DEF RunQueuesOK

(* An operation that ends leaves the queue it is at the head of.           *)
LEMMA RunQueueMovesOn ==
    ASSUME RunQueuesOK, NEW s \in Slots, Rest(s), Idles(s), LeaveRunQueue(s),
           \A id \in Ids : IsMark(s, id) => Head(runQueue[id]) = s
    PROVE  RunQueuesOK'
<1>0. runQueue' = [id \in Ids |-> IF runQueue[id] # <<>> /\ Head(runQueue[id]) = s
                                  THEN Tail(runQueue[id]) ELSE runQueue[id]]
  BY DEF LeaveRunQueue
<1>1. ASSUME NEW id \in Ids PROVE RunQueueOK(id)'
  <2>1. ASSUME NEW t \in Slots \ {s}
        PROVE  (IsMark(t, id)' <=> IsMark(t, id)) /\ (HasLoaded(t)' <=> HasLoaded(t))
    BY DEF Rest, Keeps, IsMark, HasLoaded
  <2>2. ~IsMark(s, id)'
    BY Records DEF IsMark, Idles
  <2> DEFINE S == {t \in Slots : IsMark(t, id)}
  <2>3. QueueOf(runQueue[id], S) /\ \A t \in Slots : t \in S <=> IsMark(t, id)
    BY DEF RunQueuesOK, RunQueueOK
  <2> HIDE DEF S
  <2>4. CASE runQueue[id] # <<>> /\ Head(runQueue[id]) = s
    <3>1. QueueOf(runQueue'[id], S \ {s})
      BY <1>0, <2>3, <2>4, TailQueue
    <3>2. \A t \in Slots : IsMark(t, id)' <=> t \in S \ {s}
      BY <2>1, <2>2, <2>3
    <3>3. QueueOf(runQueue'[id], {t \in Slots : IsMark(t, id)'})
      BY <3>1, <3>2 DEF QueueOf
    <3>4. ASSUME NEW t \in Slots, IsMark(t, id)', HasLoaded(t)' PROVE FALSE
      <4>1. t # s /\ IsMark(t, id) /\ HasLoaded(t)
        BY <2>1, <2>2, <3>4
      <4> QED BY <2>4, <4>1 DEF RunQueuesOK, RunQueueOK
    <3> QED BY <3>3, <3>4 DEF RunQueueOK
  <2>5. CASE ~(runQueue[id] # <<>> /\ Head(runQueue[id]) = s)
    <3>1. runQueue'[id] = runQueue[id]
      BY <1>0, <2>5
    <3>2. ~IsMark(s, id)
      <4>1. ASSUME IsMark(s, id) PROVE FALSE
        <5>1. s \in Range(runQueue[id]) /\ Head(runQueue[id]) = s
          BY <2>3, <4>1 DEF QueueOf
        <5>2. runQueue[id] # <<>>
          BY <5>1 DEF Range
        <5> QED BY <2>5, <5>1, <5>2
      <4> QED BY <4>1
    <3>3. \A t \in Slots : IsMark(t, id)' <=> t \in S
      BY <2>1, <2>2, <2>3, <3>2
    <3>4. QueueOf(runQueue'[id], {t \in Slots : IsMark(t, id)'})
      BY <2>3, <3>1, <3>3 DEF QueueOf
    <3>5. ASSUME NEW t \in Slots, IsMark(t, id)', HasLoaded(t)' PROVE Head(runQueue'[id]) = t
      <4>1. t # s /\ IsMark(t, id) /\ HasLoaded(t)
        BY <2>1, <2>2, <3>5
      <4> QED BY <3>1, <4>1 DEF RunQueuesOK, RunQueueOK
    <3> QED BY <3>4, <3>5 DEF RunQueueOK
  <2> QED BY <2>4, <2>5
<1>2. DOMAIN runQueue' = Ids /\ runQueue' = [id \in Ids |-> runQueue'[id]]
  BY <1>0
<1> QED BY <1>1, <1>2 DEF RunQueuesOK

(* A new operation is in no queue, a mark excepted, which joins its run's. *)
LEMMA StartQueues ==
    ASSUME StoreTypes, IndexQueueOK, RunQueuesOK, NEW s \in Slots, StartStep(s)
    PROVE  IndexQueueOK' /\ RunQueuesOK' /\ Rest(s) /\ ops[s].kind = "none" /\ ops[s].pc = "done"
<1>1. ASSUME Rest(s), UNCHANGED indexQueue, ops[s].pc = "done",
             ops'[s].pc \in {"file", "unlink", "load", "check"}
      PROVE  IndexQueueOK'
  <2>1. ~InIndexQueue(s) /\ ~InIndexQueue(s)' /\ ~WritesIndex(s)'
    BY <1>1 DEF InIndexQueue, WritesIndex
  <2> QED BY <1>1, <2>1, IndexQueueRests
<1>2. ASSUME Rest(s), UNCHANGED runQueue, ops[s].kind = "none", ops'[s].kind \notin MarkKinds
      PROVE  RunQueuesOK'
  <2>1. \A id \in Ids : ~IsMark(s, id) /\ ~IsMark(s, id)'
    BY <1>2, Records DEF IsMark
  <2> QED BY <1>2, <2>1, RunQueuesRest
<1>3. {"create", "delete", "edit"} \cup MarkKinds \subseteq Kinds
      /\ {"file", "unlink", "load"} \subseteq PCs /\ {} \subseteq Marks
  BY DEF Kinds, PCs
<1>4. page # NoPage => page.id \in Ids /\ page.rec \subseteq Marks
  BY DEF StoreTypes, PageOK
<1>5. ASSUME NEW id \in Ids, CreateStart(s, id)
      PROVE  IndexQueueOK' /\ RunQueuesOK' /\ Rest(s) /\ ops[s].kind = "none" /\ ops[s].pc = "done"
  <2>1. Begin(s, "create", id, {}, "file") /\ UNCHANGED <<runQueue, indexQueue>>
    BY <1>5 DEF CreateStart
  <2>2. Rest(s) /\ ops[s].kind = "none" /\ ops[s].pc = "done"
        /\ ops'[s].kind = "create" /\ ops'[s].pc = "file"
    BY <1>3, <2>1, BeginEffect
  <2> QED BY <1>1, <1>2, <2>1, <2>2, Records
<1>6. ASSUME NEW id \in Ids, DeleteStart(s, id)
      PROVE  IndexQueueOK' /\ RunQueuesOK' /\ Rest(s) /\ ops[s].kind = "none" /\ ops[s].pc = "done"
  <2>1. Begin(s, "delete", id, {}, "unlink") /\ UNCHANGED <<runQueue, indexQueue>>
    BY <1>6 DEF DeleteStart
  <2>2. Rest(s) /\ ops[s].kind = "none" /\ ops[s].pc = "done"
        /\ ops'[s].kind = "delete" /\ ops'[s].pc = "unlink"
    BY <1>3, <2>1, BeginEffect
  <2> QED BY <1>1, <1>2, <2>1, <2>2, Records
<1>7. ASSUME NEW mark \in MarkKinds, MarkStart(s, mark)
      PROVE  IndexQueueOK' /\ RunQueuesOK' /\ Rest(s) /\ ops[s].kind = "none" /\ ops[s].pc = "done"
  <2>1. /\ Begin(s, mark, page.id, {}, "load") /\ UNCHANGED indexQueue /\ page.id \in Ids
        /\ runQueue' = [runQueue EXCEPT ![page.id] = Append(@, s)]
    BY <1>4, <1>7 DEF MarkStart
  <2>2. PICK p \in Ids : p = page.id
    BY <2>1
  <2>3. mark \in Kinds
    BY <1>3
  <2>4. Rest(s) /\ ops[s].kind = "none" /\ ops[s].pc = "done"
        /\ ops'[s].kind = mark /\ ops'[s].id = p /\ ops'[s].pc = "load"
    BY <1>3, <2>1, <2>2, <2>3, BeginEffect
  <2>5. RunQueuesOK'
    BY <2>1, <2>2, <2>4, RunQueueGrows
  <2> QED BY <1>1, <2>1, <2>4, <2>5
<1>8. CASE EditStart(s)
  <2>1. page.id \in Ids /\ page.rec \subseteq Marks /\ UNCHANGED <<runQueue, indexQueue>>
    BY <1>4, <1>8 DEF EditStart
  <2>2. PICK rec \in {page.rec \cup {"note"}, page.rec \ {"note"}} : Begin(s, "edit", page.id, rec, "file")
    BY <1>8 DEF EditStart
  <2>3. rec \subseteq Marks
    BY <2>1, <2>2 DEF Marks
  <2>4. Rest(s) /\ ops[s].kind = "none" /\ ops[s].pc = "done"
        /\ ops'[s].kind = "edit" /\ ops'[s].pc = "file"
    BY <1>3, <2>1, <2>2, <2>3, BeginEffect
  <2> QED BY <1>1, <1>2, <2>1, <2>4, Records
<1>9. CASE ListStart(s)
  <2>1. Rest(s) /\ ops[s].kind = "none" /\ ops[s].pc = "done"
        /\ ops'[s].kind = "list" /\ ops'[s].pc = "check"
    BY <1>9, ListStartEffect
  <2>2. UNCHANGED <<runQueue, indexQueue>>
    BY <1>9 DEF ListStart
  <2> QED BY <1>1, <1>2, <2>1, <2>2, Records
<1> QED BY <1>5, <1>6, <1>7, <1>8, <1>9 DEF StartStep

(* Operations join, go on in and leave the queues in their order.          *)
LEMMA StepQueues ==
    ASSUME StoreTypes, IndexQueueOK, RunQueuesOK, NEW s \in Slots, OpStep(s)
    PROVE  IndexQueueOK' /\ RunQueuesOK' /\ Rest(s)
<1>1. \A id \in Ids : IsMark(s, id) /\ HasLoaded(s) => Head(runQueue[id]) = s
  BY DEF RunQueuesOK, RunQueueOK
<1>2. WritesIndex(s) => Runs(s)
  BY DEF IndexQueueOK
<1>3. ASSUME End(s), UNCHANGED indexQueue, ~InIndexQueue(s),
             \A id \in Ids : IsMark(s, id) => Head(runQueue[id]) = s
      PROVE  IndexQueueOK' /\ RunQueuesOK' /\ Rest(s)
  <2>1. Rest(s) /\ Idles(s) /\ LeaveRunQueue(s)
    BY <1>3, EndEffect DEF End
  <2>2. ~InIndexQueue(s)' /\ ~WritesIndex(s)'
    BY <2>1 DEF InIndexQueue, WritesIndex, Idles
  <2> QED BY <1>3, <2>1, <2>2, IndexQueueRests, RunQueueMovesOn
<1>4. ASSUME Rest(s), Keeps(ops'[s], ops[s]), UNCHANGED runQueue,
             HasLoaded(s)' => HasLoaded(s) \/ ops[s].kind \notin MarkKinds
      PROVE  RunQueuesOK'
  <2>1. \A id \in Ids : /\ IsMark(s, id)' <=> IsMark(s, id)
                        /\ IsMark(s, id) /\ HasLoaded(s)' => Head(runQueue[id]) = s
    BY <1>1, <1>4 DEF IsMark, Keeps
  <2> QED BY <1>4, <2>1, RunQueuesRest
<1>5. CASE WriteFile(s)
  <2>1. ops[s].pc = "file" /\ Goto(s, "upsert") /\ indexQueue' = Append(indexQueue, s)
        /\ UNCHANGED runQueue /\ "upsert" \in PCs
    BY <1>5 DEF WriteFile, At, PCs
  <2>2. Rest(s) /\ Keeps(ops'[s], ops[s]) /\ ops'[s].pc = "upsert"
    BY <2>1, GotoEffect
  <2>3. ~InIndexQueue(s) /\ HasLoaded(s)
    BY <2>1 DEF InIndexQueue, HasLoaded
  <2> QED BY <1>4, <2>1, <2>2, <2>3, IndexQueueGrows
<1>6. CASE WriteFileFails(s) \/ UnlinkFails(s)
  <2>1. End(s) /\ ops[s].pc \in {"file", "unlink"} /\ UNCHANGED indexQueue
    BY <1>6 DEF WriteFileFails, UnlinkFails, At
  <2>2. \A id \in Ids : IsMark(s, id) => HasLoaded(s)
    BY <2>1, OpTypes, Records DEF IsMark, HasLoaded
  <2>3. ~InIndexQueue(s)
    BY <2>1 DEF InIndexQueue
  <2> QED BY <1>1, <1>3, <2>1, <2>2, <2>3
<1>7. CASE ReadIndex(s)
  <2>1. /\ Rest(s) /\ Keeps(ops'[s], ops[s]) /\ ops[s].pc \in {"upsert", "drop"} /\ Runs(s)
        /\ ops'[s].pc = IF ops[s].pc = "upsert" THEN "put" ELSE "filter"
        /\ UNCHANGED <<runQueue, indexQueue>>
    BY <1>7, ReadIndexEffect
  <2>2. InIndexQueue(s) /\ InIndexQueue(s)' /\ (HasLoaded(s)' => HasLoaded(s))
    BY <2>1 DEF InIndexQueue, HasLoaded
  <2> QED BY <1>4, <2>1, <2>2, IndexQueueRests
<1>8. CASE UpsertEntry(s)
  <2>1. ops[s].pc = "put" /\ Runs(s) /\ Return(s) /\ indexQueue' = Tail(indexQueue)
    BY <1>8, UpsertEffect
  <2>2. /\ Rest(s)
        /\ ops[s].kind = "edit" =>
              Keeps(ops'[s], ops[s]) /\ ops'[s].pc = "refresh" /\ UNCHANGED runQueue
        /\ ops[s].kind # "edit" => Idles(s) /\ LeaveRunQueue(s)
    BY <2>1, ReturnEffect DEF At
  <2>3. ~InIndexQueue(s)'
    BY <2>2 DEF InIndexQueue, Idles
  <2>4. IndexQueueOK'
    BY <2>1, <2>2, <2>3, IndexQueueMovesOn
  <2>5. HasLoaded(s)
    BY <2>1 DEF HasLoaded
  <2>6. RunQueuesOK'
    BY <1>1, <1>4, <2>2, <2>5, RunQueueMovesOn
  <2> QED BY <2>2, <2>4, <2>6
<1>9. CASE Unlink(s)
  <2>1. /\ Rest(s) /\ Keeps(ops'[s], ops[s]) /\ ops[s].pc = "unlink" /\ ops'[s].pc = "drop"
    BY <1>9, UnlinkEffect
  <2>2. UNCHANGED runQueue /\ indexQueue' = Append(indexQueue, s)
    BY <1>9 DEF Unlink
  <2>3. ~InIndexQueue(s) /\ ~HasLoaded(s)'
    BY <2>1 DEF InIndexQueue, HasLoaded
  <2> QED BY <1>4, <2>1, <2>2, <2>3, IndexQueueGrows
<1>10. CASE FilterEntry(s)
  <2>1. ops[s].pc = "filter" /\ Runs(s) /\ End(s) /\ indexQueue' = Tail(indexQueue)
    BY <1>10, FilterEffect
  <2>2. Rest(s) /\ Idles(s) /\ LeaveRunQueue(s)
    BY <2>1, EndEffect DEF End
  <2>3. ~InIndexQueue(s)' /\ \A id \in Ids : ~IsMark(s, id)
    BY <2>1, <2>2, OpTypes, Records DEF InIndexQueue, Idles, IsMark
  <2> QED BY <2>1, <2>2, <2>3, IndexQueueMovesOn, RunQueueMovesOn
<1>11. CASE MarkLoad(s)
  <2>1. ops[s].pc = "load" /\ Head(runQueue[ops[s].id]) = s /\ UNCHANGED indexQueue
    BY <1>11 DEF MarkLoad, At
  <2>2. ~InIndexQueue(s) /\ \A id \in Ids : IsMark(s, id) => Head(runQueue[id]) = s
    BY <2>1 DEF InIndexQueue, IsMark
  <2>3. CASE End(s)
    BY <1>3, <2>1, <2>2, <2>3
  <2>4. CASE /\ files[ops[s].id] \notin {Fresh, Gone} /\ UNCHANGED runQueue
             /\ ops' = [ops EXCEPT ![s].rec = files[ops[s].id] \cup {ops[s].kind}, ![s].pc = "file"]
    <3>1. Rest(s) /\ ops'[s].kind = ops[s].kind /\ ops'[s].id = ops[s].id /\ ops'[s].pc = "file"
      BY <2>1, <2>4, LoadEffect
    <3>2. ~InIndexQueue(s)' /\ ~WritesIndex(s)'
      BY <3>1 DEF InIndexQueue, WritesIndex
    <3>3. \A id \in Ids : IsMark(s, id)' <=> IsMark(s, id)
      BY <3>1 DEF IsMark
    <3> QED BY <2>1, <2>2, <2>4, <3>1, <3>2, <3>3, IndexQueueRests, RunQueuesRest
  <2> QED BY <1>11, <2>3, <2>4 DEF MarkLoad
<1>12. CASE Refresh(s) \/ ListEnd(s)
  <2>1. End(s) /\ ops[s].pc \in {"refresh", "listed"} /\ UNCHANGED indexQueue
    BY <1>12 DEF Refresh, ListEnd, At
  <2>2. ~InIndexQueue(s) /\ \A id \in Ids : ~IsMark(s, id)
    BY <2>1, OpTypes, Records DEF InIndexQueue, IsMark
  <2> QED BY <1>3, <2>1, <2>2
<1>13. CASE ListCheck(s)
  <2>1. /\ Rest(s) /\ Keeps(ops'[s], ops[s]) /\ ops[s].pc = "check" /\ ops[s].kind = "list"
        /\ \/ ops'[s].pc \in {"listed", "read"} /\ UNCHANGED indexQueue
           \/ ops'[s].pc = "scan" /\ indexQueue' = Append(indexQueue, s)
        /\ UNCHANGED runQueue
    BY <1>13, ListCheckEffect
  <2>2. RunQueuesOK'
    BY <1>4, <2>1, Records
  <2>3. ~InIndexQueue(s)
    BY <2>1 DEF InIndexQueue
  <2>4. CASE ops'[s].pc \in {"listed", "read"} /\ UNCHANGED indexQueue
    <3>1. ~InIndexQueue(s)' /\ ~WritesIndex(s)'
      BY <2>4 DEF InIndexQueue, WritesIndex
    <3> QED BY <2>1, <2>2, <2>3, <2>4, <3>1, IndexQueueRests
  <2>5. CASE ops'[s].pc = "scan" /\ indexQueue' = Append(indexQueue, s)
    BY <2>1, <2>2, <2>3, <2>5, IndexQueueGrows
  <2> QED BY <2>1, <2>4, <2>5
<1>14. CASE Scan(s)
  <2>1. /\ Rest(s) /\ Keeps(ops'[s], ops[s]) /\ ops[s].kind = "list" /\ Runs(s)
        /\ ops[s].pc = "scan" /\ ops'[s].pc = "files"
    BY <1>14, ScanEffect
  <2>2. UNCHANGED <<runQueue, indexQueue>> /\ InIndexQueue(s) /\ InIndexQueue(s)'
    BY <1>14, <2>1 DEF Scan, InIndexQueue
  <2> QED BY <1>4, <2>1, <2>2, IndexQueueRests, Records
<1>15. ASSUME NEW id \in Ids, ScanFile(s, id) PROVE IndexQueueOK' /\ RunQueuesOK' /\ Rest(s)
  <2>1. /\ Rest(s) /\ Keeps(ops'[s], ops[s]) /\ ops[s].kind = "list"
        /\ ops[s].pc \in {"files", "read"} /\ ops'[s].pc = ops[s].pc /\ UNCHANGED <<runQueue, indexQueue>>
    BY <1>15, ScanFileEffect
  <2>2. /\ InIndexQueue(s)' <=> InIndexQueue(s)
        /\ WritesIndex(s)' => WritesIndex(s)
    BY <2>1 DEF InIndexQueue, WritesIndex
  <2> QED BY <1>2, <1>4, <2>1, <2>2, IndexQueueRests, Records
<1>16. CASE RebuildIndex(s)
  <2>1. /\ Rest(s) /\ Keeps(ops'[s], ops[s]) /\ ops[s].kind = "list" /\ UNCHANGED runQueue
        /\ ops[s].pc = "files" /\ ops'[s].pc = "listed" /\ indexQueue' = Tail(indexQueue)
    BY <1>16, RebuildEffect
  <2>2. ~InIndexQueue(s)' /\ WritesIndex(s)
    BY <2>1 DEF InIndexQueue, WritesIndex
  <2> QED BY <1>2, <1>4, <2>1, <2>2, IndexQueueMovesOn, Records
<1>17. CASE ListRead(s)
  <2>1. /\ Rest(s) /\ Keeps(ops'[s], ops[s]) /\ ops[s].kind = "list"
        /\ ops[s].pc = "read" /\ ops'[s].pc = "listed" /\ UNCHANGED <<runQueue, indexQueue>>
    BY <1>17, ListReadEffect
  <2>2. ~InIndexQueue(s) /\ ~InIndexQueue(s)' /\ ~WritesIndex(s)'
    BY <2>1 DEF InIndexQueue, WritesIndex
  <2> QED BY <1>4, <2>1, <2>2, IndexQueueRests, Records
<1> QED BY <1>5, <1>6, <1>7, <1>8, <1>9, <1>10, <1>11, <1>12, <1>13, <1>14, <1>15, <1>16, <1>17
        DEF OpStep

(* After the page has closed the queues are empty.                         *)
LEMMA CrashQueues ==
    ASSUME StoreTypes, Crash
    PROVE  IndexQueueOK' /\ RunQueuesOK'
<1>1. /\ \A s \in Slots : Idles(s)
      /\ runQueue' = [id \in Ids |-> <<>>] /\ indexQueue' = <<>>
  BY CrashEffect
<1>2. \A s \in Slots : ~InIndexQueue(s)' /\ ~WritesIndex(s)' /\ \A id \in Ids : ~IsMark(s, id)'
  BY <1>1, Records DEF Idles, InIndexQueue, WritesIndex, IsMark
<1>3. \A S \in SUBSET Slots : S = {} => QueueOf(<<>>, S)
  BY DEF QueueOf, IsInjective, Range
<1>4. {s \in Slots : InIndexQueue(s)'} = {} /\ \A id \in Ids : {s \in Slots : IsMark(s, id)'} = {}
  BY <1>2
<1>5. QueueOf(<<>>, {})
  BY <1>3
<1> QED BY <1>1, <1>2, <1>4, <1>5 DEF IndexQueueOK, RunQueuesOK, RunQueueOK

-----------------------------------------------------------------------------
(* Listings.                                                               *)

ListsOK == \A s \in Slots : ListOK(s)

(* Listings stay right where no file goes.                                 *)
LEMMA ListsRest ==
    ASSUME ListsOK, NEW s \in Slots, Rest(s), OnDisk \subseteq OnDisk',
           \/ ops'[s].kept = {}
           \/ /\ ops'[s].kept = ops[s].kept /\ ops'[s].pc \notin {"check", "files", "read", "listed"}
           \/ ListOK(s)'
    PROVE  ListsOK'
<1>1. ASSUME NEW t \in Slots \ {s} PROVE ListOK(t)'
  <2>1. /\ ops'[t].kept \subseteq ops[t].kept /\ ops'[t].pc = ops[t].pc /\ ops'[t].idx = ops[t].idx
        /\ ops'[t].todo = ops[t].todo /\ ops'[t].rec = ops[t].rec
    BY DEF Rest, Keeps
  <2>2. ListOK(t)
    BY DEF ListsOK
  <2> QED BY <2>1, <2>2 DEF ListOK, At
<1>2. ListOK(s)'
  <2>1. ListOK(s)
    BY DEF ListsOK
  <2> QED BY <2>1 DEF ListOK, At
<1> QED BY <1>1, <1>2 DEF ListsOK

(* The runs on disk follow from the files.                                 *)
LEMMA SameFiles ==
    ASSUME UNCHANGED files
    PROVE  OnDisk' = OnDisk
  BY DEF OnDisk

(* A listing loses no run that stays on disk.                              *)
LEMMA ListsStay ==
    ASSUME StoreTypes, ListsOK, NEW s \in Slots, OpStep(s), Rest(s)
    PROVE  ListsOK'
<1>0. ListOK(s) /\ index \in Indexes /\ ops[s].idx \in Indexes
  BY OpTypes DEF ListsOK, StoreTypes
<1>1. ASSUME End(s), UNCHANGED files PROVE ListsOK'
  <2>1. Idles(s)
    BY <1>1, EndEffect DEF End
  <2> QED BY <1>1, <2>1, SameFiles, ListsRest DEF Idles
<1>2. CASE WriteFile(s)
  <2>1. ops[s].pc = "file" /\ Goto(s, "upsert") /\ files' = [files EXCEPT ![ops[s].id] = ops[s].rec]
        /\ "upsert" \in PCs
    BY <1>2 DEF WriteFile, At, PCs
  <2>2. ops[s].rec \subseteq Marks /\ DOMAIN files = Ids
    BY <2>1, OpTypes DEF StoreTypes, FilesOK
  <2>3. OnDisk \subseteq OnDisk'
    BY <2>1, <2>2, Records DEF OnDisk
  <2>4. ops'[s].pc = "upsert" /\ ops'[s].kept = ops[s].kept
    BY <2>1, GotoEffect
  <2> QED BY <2>3, <2>4, ListsRest
<1>3. CASE WriteFileFails(s) \/ UnlinkFails(s) \/ FilterEntry(s) \/ Refresh(s) \/ ListEnd(s)
  <2>1. End(s) /\ UNCHANGED files
    BY <1>3 DEF WriteFileFails, UnlinkFails, FilterEntry, Refresh, ListEnd, diskVars
  <2> QED BY <1>1, <2>1
<1>4. CASE ReadIndex(s)
  <2>1. ops'[s].kept = ops[s].kept /\ ops'[s].pc \in {"put", "filter"} /\ UNCHANGED files
    BY <1>4, ReadIndexEffect DEF diskVars
  <2> QED BY <2>1, SameFiles, ListsRest
<1>5. CASE UpsertEntry(s)
  <2>1. ops[s].pc = "put" /\ Return(s) /\ UNCHANGED files
    BY <1>5, UpsertEffect
  <2>2. \/ ops'[s].pc = "refresh" /\ ops'[s].kept = ops[s].kept
        \/ Idles(s)
    BY <2>1, ReturnEffect DEF At
  <2> QED BY <2>1, <2>2, SameFiles, ListsRest DEF Idles
<1>6. CASE Unlink(s)
  <2>1. /\ ops'[s].pc = "drop" /\ ops[s].id \in Ids
        /\ \A t \in Slots : ops'[t].kept = ops[t].kept \ {ops[s].id}
    BY <1>6, UnlinkEffect
  <2>2. files' = [files EXCEPT ![ops[s].id] = Gone] /\ DOMAIN files = Ids
    BY <1>6 DEF Unlink, StoreTypes, FilesOK
  <2>3. OnDisk \ {ops[s].id} \subseteq OnDisk'
    BY <2>1, <2>2 DEF OnDisk
  <2>4. ASSUME NEW t \in Slots PROVE ListOK(t)'
    <3>1. ops'[t].kept = ops[t].kept \ {ops[s].id} /\ ListOK(t)
      BY <2>1 DEF ListsOK
    <3>2. CASE t = s
      BY <2>1, <2>3, <3>1, <3>2 DEF ListOK, At
    <3>3. CASE t # s
      <4>1. ops'[t].pc = ops[t].pc /\ ops'[t].idx = ops[t].idx
            /\ ops'[t].todo = ops[t].todo /\ ops'[t].rec = ops[t].rec
        BY <3>3 DEF Rest, Keeps
      <4> QED BY <2>3, <3>1, <4>1 DEF ListOK, At
    <3> QED BY <3>2, <3>3
  <2> QED BY <2>4 DEF ListsOK
<1>7. CASE MarkLoad(s)
  <2>1. ops[s].pc = "load" /\ UNCHANGED files
    BY <1>7 DEF MarkLoad, At, diskVars
  <2>2. CASE /\ files[ops[s].id] \notin {Fresh, Gone}
             /\ ops' = [ops EXCEPT ![s].rec = files[ops[s].id] \cup {ops[s].kind}, ![s].pc = "file"]
    <3>1. ops'[s].pc = "file" /\ ops'[s].kept = ops[s].kept
      BY <2>1, <2>2, LoadEffect
    <3> QED BY <2>1, <3>1, SameFiles, ListsRest
  <2> QED BY <1>1, <1>7, <2>1, <2>2 DEF MarkLoad
<1>8. CASE ListCheck(s)
  <2>1. /\ Keeps(ops'[s], ops[s]) /\ ops'[s].kept = ops[s].kept /\ ops[s].pc = "check"
        /\ \/ ops'[s].pc = "listed" /\ ops'[s].idx = index /\ Entries(index) = ops[s].rec
           \/ ops'[s].pc = "read" /\ ops'[s].todo = ops[s].rec
           \/ ops'[s].pc = "scan"
        /\ UNCHANGED files
    BY <1>8, ListCheckEffect DEF diskVars
  <2>2. ops[s].kept \subseteq ops[s].rec /\ ops[s].kept \subseteq OnDisk
    BY <1>0, <2>1 DEF ListOK, At
  <2>3. CASE ops'[s].pc = "scan"
    BY <2>1, <2>3, SameFiles, ListsRest
  <2>4. CASE ops'[s].pc = "listed" /\ ops'[s].idx = index /\ Entries(index) = ops[s].rec
    <3>1. Entries(ops'[s].idx) = ops[s].rec
      BY <2>4
    <3>2. ListOK(s)'
      BY <2>1, <2>2, <2>4, <3>1, SameFiles DEF ListOK, At
    <3> QED BY <2>1, <3>2, SameFiles, ListsRest
  <2>5. CASE ops'[s].pc = "read" /\ ops'[s].todo = ops[s].rec
    <3>1. ListOK(s)'
      BY <2>1, <2>2, <2>5, SameFiles DEF ListOK, At
    <3> QED BY <2>1, <3>1, SameFiles, ListsRest
  <2> QED BY <2>1, <2>3, <2>4, <2>5
<1>9. CASE Scan(s)
  <2>1. ops'[s].pc = "files" /\ ops'[s].kept = ops[s].kept /\ ops'[s].todo = OnDisk
    BY <1>9, ScanEffect
  <2>2. UNCHANGED files
    BY <1>9 DEF Scan, diskVars
  <2>3. ListOK(s)'
    BY <1>0, <2>1, <2>2, SameFiles DEF ListOK, At
  <2> QED BY <2>2, <2>3, SameFiles, ListsRest
<1>10. ASSUME NEW id \in Ids, ScanFile(s, id) PROVE ListsOK'
  <2>1. /\ ops[s].pc \in {"files", "read"} /\ ops'[s].pc = ops[s].pc /\ UNCHANGED files
        /\ ops'[s].todo = ops[s].todo \ {id}
        /\ \/ ops'[s].kept = ops[s].kept \ {id} /\ ops'[s].idx = ops[s].idx
           \/ /\ ops'[s].kept = ops[s].kept
              /\ id \notin OnDisk => ops'[s].idx = ops[s].idx
              /\ id \in OnDisk => Entries(ops'[s].idx) = Entries(ops[s].idx) \cup {id}
    BY <1>10, ScanFileEffect DEF diskVars
  <2>2. ops[s].kept \subseteq OnDisk /\ ops[s].kept \subseteq Entries(ops[s].idx) \cup ops[s].todo
    BY <1>0, <2>1 DEF ListOK, At
  <2>3. ops'[s].kept \subseteq Entries(ops'[s].idx) \cup ops'[s].todo /\ ops'[s].kept \subseteq OnDisk
    <3>1. CASE ops'[s].kept = ops[s].kept \ {id} /\ ops'[s].idx = ops[s].idx
      <4>1. Entries(ops'[s].idx) = Entries(ops[s].idx)
        BY <3>1
      <4> QED BY <2>1, <2>2, <3>1, <4>1
    <3>2. CASE /\ ops'[s].kept = ops[s].kept /\ id \in OnDisk
               /\ Entries(ops'[s].idx) = Entries(ops[s].idx) \cup {id}
      BY <2>1, <2>2, <3>2
    <3>3. CASE ops'[s].kept = ops[s].kept /\ id \notin OnDisk /\ ops'[s].idx = ops[s].idx
      <4>1. Entries(ops'[s].idx) = Entries(ops[s].idx)
        BY <3>3
      <4> QED BY <2>1, <2>2, <3>3, <4>1
    <3> QED BY <2>1, <3>1, <3>2, <3>3
  <2>4. ListOK(s)'
    BY <2>1, <2>3, SameFiles DEF ListOK, At
  <2> QED BY <2>1, <2>4, SameFiles, ListsRest
<1>11. CASE RebuildIndex(s)
  <2>1. /\ ops[s].pc = "files" /\ ops[s].todo = {} /\ ops'[s].kept = ops[s].kept
        /\ ops'[s].idx = ops[s].idx /\ ops'[s].pc = "listed" /\ UNCHANGED files
    BY <1>11, RebuildEffect
  <2>2. ops[s].kept \subseteq OnDisk /\ ops[s].kept \subseteq Entries(ops[s].idx)
    BY <1>0, <2>1 DEF ListOK, At
  <2>3. ListOK(s)'
    BY <2>1, <2>2, SameFiles DEF ListOK, At
  <2> QED BY <2>1, <2>3, SameFiles, ListsRest
<1>12. CASE ListRead(s)
  <2>1. /\ ops[s].pc = "read" /\ ops[s].todo = {} /\ ops'[s].kept = ops[s].kept
        /\ ops'[s].idx = ops[s].idx /\ ops'[s].pc = "listed" /\ UNCHANGED files
    BY <1>12, ListReadEffect DEF diskVars
  <2>2. ops[s].kept \subseteq OnDisk /\ ops[s].kept \subseteq Entries(ops[s].idx)
    BY <1>0, <2>1 DEF ListOK, At
  <2>3. ListOK(s)'
    BY <2>1, <2>2, SameFiles DEF ListOK, At
  <2> QED BY <2>1, <2>3, SameFiles, ListsRest
<1> QED BY <1>2, <1>3, <1>4, <1>5, <1>6, <1>7, <1>8, <1>9, <1>10, <1>11, <1>12 DEF OpStep

(* What an operation begins with.                                          *)
LEMMA StartEffect ==
    ASSUME StoreTypes, NEW s \in Slots, StartStep(s)
    PROVE  /\ UNCHANGED <<files, index, marked>>
           /\ \/ /\ ops'[s].kind = "create" /\ ops'[s].pc = "file" /\ ops'[s].id \in Ids
                 /\ files[ops'[s].id] = Fresh /\ ops'[s].kept = {}
                 /\ \A t \in Slots : ~(ops[t].kind = "create" /\ ops[t].id = ops'[s].id)
              \/ /\ ops'[s].kind \in MarkKinds /\ ops'[s].pc = "load" /\ ops'[s].kept = {}
                 /\ files[ops'[s].id] # Fresh
              \/ /\ ops'[s].kind = "edit" /\ ops'[s].pc = "file" /\ ops'[s].kept = {}
                 /\ files[ops'[s].id] # Fresh /\ ~Unedited'
              \/ /\ ops'[s].kind = "delete" /\ ops'[s].pc = "unlink" /\ ops'[s].kept = {}
                 /\ files[ops'[s].id] # Fresh
              \/ /\ ops'[s].kind = "list" /\ ops'[s].pc = "check"
                 /\ ops'[s].kept = OnDisk /\ ops'[s].rec = OnDisk
           /\ BudgetMoves
<1>0. BudgetOK /\ DOMAIN ops = Slots
  BY DEF StoreTypes
<1>1. {"create", "delete", "edit"} \cup MarkKinds \subseteq Kinds
      /\ {"file", "unlink", "load"} \subseteq PCs /\ {} \subseteq Marks
  BY DEF Kinds, PCs
<1>2. page # NoPage => page.id \in Ids /\ page.rec \subseteq Marks /\ files[page.id] # Fresh
  BY DEF StoreTypes, PageOK
<1>3. UNCHANGED budget => BudgetMoves
  BY <1>0, BudgetRests DEF BudgetMoves
<1>4. ASSUME NEW id \in Ids, CreateStart(s, id)
      PROVE  /\ UNCHANGED <<files, index, marked>> /\ BudgetMoves
             /\ ops'[s].kind = "create" /\ ops'[s].pc = "file" /\ ops'[s].id \in Ids
             /\ files[ops'[s].id] = Fresh /\ ops'[s].kept = {}
             /\ \A t \in Slots : ~(ops[t].kind = "create" /\ ops[t].id = ops'[s].id)
  <2>1. Begin(s, "create", id, {}, "file") /\ UNCHANGED <<files, index, marked, budget>>
        /\ files[id] = Fresh /\ \A t \in Slots : ~(ops[t].kind = "create" /\ ops[t].id = id)
    BY <1>0, <1>4 DEF CreateStart, diskVars
  <2>2. ops'[s].kind = "create" /\ ops'[s].pc = "file" /\ ops'[s].kept = {} /\ ops'[s].id = id
    BY <1>1, <2>1, BeginEffect
  <2> QED BY <1>3, <2>1, <2>2
<1>5. ASSUME NEW id \in Ids, DeleteStart(s, id)
      PROVE  /\ UNCHANGED <<files, index, marked>> /\ BudgetMoves
             /\ ops'[s].kind = "delete" /\ ops'[s].pc = "unlink" /\ ops'[s].kept = {}
             /\ files[ops'[s].id] # Fresh
  <2>1. Begin(s, "delete", id, {}, "unlink") /\ UNCHANGED <<files, index, marked>>
        /\ files[id] # Fresh /\ Spend("deletes")
    BY <1>5 DEF DeleteStart, diskVars, OnDisk
  <2>2. ops'[s].kind = "delete" /\ ops'[s].pc = "unlink" /\ ops'[s].kept = {} /\ ops'[s].id = id
    BY <1>1, <2>1, BeginEffect
  <2>3. BudgetMoves
    BY <1>0, <2>1, SpendEffect DEF BudgetMoves
  <2> QED BY <2>1, <2>2, <2>3
<1>6. ASSUME NEW mark \in MarkKinds, MarkStart(s, mark)
      PROVE  /\ UNCHANGED <<files, index, marked>> /\ BudgetMoves
             /\ ops'[s].kind \in MarkKinds /\ ops'[s].pc = "load" /\ ops'[s].kept = {}
             /\ files[ops'[s].id] # Fresh
  <2>1. Begin(s, mark, page.id, {}, "load") /\ UNCHANGED <<files, index, marked, budget>>
        /\ page.id \in Ids /\ files[page.id] # Fresh
    BY <1>2, <1>6 DEF MarkStart, diskVars
  <2>2. mark \in Kinds
    BY <1>1
  <2>3. ops'[s].kind = mark /\ ops'[s].pc = "load" /\ ops'[s].kept = {} /\ ops'[s].id = page.id
    BY <1>1, <2>1, <2>2, BeginEffect
  <2> QED BY <1>3, <2>1, <2>3
<1>7. CASE EditStart(s)
  <2>1. page.id \in Ids /\ page.rec \subseteq Marks /\ files[page.id] # Fresh
        /\ UNCHANGED <<files, index, marked>> /\ Spend("edits")
    BY <1>2, <1>7 DEF EditStart, diskVars
  <2>2. PICK rec \in {page.rec \cup {"note"}, page.rec \ {"note"}} : Begin(s, "edit", page.id, rec, "file")
    BY <1>7 DEF EditStart
  <2>3. rec \subseteq Marks
    BY <2>1, <2>2 DEF Marks
  <2>4. ops'[s].kind = "edit" /\ ops'[s].pc = "file" /\ ops'[s].kept = {} /\ ops'[s].id = page.id
    BY <1>1, <2>1, <2>2, <2>3, BeginEffect
  <2>5. BudgetMoves /\ ~Unedited'
    BY <1>0, <2>1, SpendEffect DEF BudgetMoves
  <2> QED BY <2>1, <2>4, <2>5
<1>8. CASE ListStart(s)
  <2>1. ops'[s].kind = "list" /\ ops'[s].pc = "check" /\ ops'[s].kept = OnDisk /\ ops'[s].rec = OnDisk
    BY <1>8, ListStartEffect
  <2>2. UNCHANGED <<files, index, marked, budget>>
    BY <1>8 DEF ListStart, diskVars
  <2> QED BY <1>3, <2>1, <2>2
<1> QED BY <1>4, <1>5, <1>6, <1>7, <1>8 DEF StartStep

(* A listing begins with the files there are.                              *)
LEMMA StartLists ==
    ASSUME StoreTypes, ListsOK, NEW s \in Slots, StartStep(s), Rest(s)
    PROVE  ListsOK'
<1>1. UNCHANGED files /\ (ops'[s].kept = {} \/
         (ops'[s].pc = "check" /\ ops'[s].kept = OnDisk /\ ops'[s].rec = OnDisk))
  BY StartEffect
<1>2. OnDisk' = OnDisk
  BY <1>1, SameFiles
<1>3. CASE ops'[s].kept = {}
  BY <1>2, <1>3, ListsRest
<1>4. CASE ops'[s].pc = "check" /\ ops'[s].kept = OnDisk /\ ops'[s].rec = OnDisk
  <2>1. ListOK(s)'
    BY <1>2, <1>4 DEF ListOK, At
  <2> QED BY <1>2, <2>1, ListsRest
<1> QED BY <1>1, <1>3, <1>4

-----------------------------------------------------------------------------
(* A run is created once.                                                  *)

RunsOK == \A s \in Slots : CreatesOnce(s)

(* An operation keeps its kind and its run until it ends.                  *)
Follows(s) ==
    ops'[s].kind = "none" \/ (ops'[s].kind = ops[s].kind /\ ops'[s].id = ops[s].id)

(* Runs stay created once where operations only go on or end.              *)
LEMMA RunsRest ==
    ASSUME StoreTypes, RunsOK, NEW s \in Slots, Rest(s), Follows(s),
           \A id \in Ids : files'[id] = Fresh => files[id] = Fresh,
           \A t \in Slots : ops'[t].kind = "create" /\ ops'[t].pc = "file" => files'[ops'[t].id] = Fresh
    PROVE  RunsOK'
<1>1. \A t \in Slots : Follows(t)
  BY DEF Follows, Rest, Keeps
<1>2. ASSUME NEW t \in Slots PROVE CreatesOnce(t)'
  <2>1. Follows(t) /\ CreatesOnce(t)
    BY <1>1 DEF RunsOK
  <2>2. CASE ops'[t].kind = "none"
    BY <2>2, Records DEF CreatesOnce
  <2>3. CASE ops'[t].kind # "none"
    <3>1. ops'[t].kind = ops[t].kind /\ ops'[t].id = ops[t].id
      BY <2>1, <2>3 DEF Follows
    <3>2. ops[t].kind = "create" =>
             \A u \in Slots : ops'[u].kind = "create" /\ ops'[u].id = ops[t].id => u = t
      BY <1>1, <2>1 DEF Follows, CreatesOnce
    <3>3. ops[t].kind \in MarkKinds \cup {"edit", "delete"} => files'[ops[t].id] # Fresh
      <4>1. ASSUME ops[t].kind \in MarkKinds \cup {"edit", "delete"} PROVE ops[t].id \in Ids
        BY <4>1, Records DEF StoreTypes, OpOK
      <4> QED BY <2>1, <4>1 DEF CreatesOnce
    <3> QED BY <3>1, <3>2, <3>3 DEF CreatesOnce, At
  <2> QED BY <2>2, <2>3
<1> QED BY <1>2 DEF RunsOK

(* Where no file changes, a new create excepted, nothing is to be shown.   *)
LEMMA RunsRestFiles ==
    ASSUME StoreTypes, RunsOK, NEW s \in Slots, Rest(s), Follows(s), UNCHANGED files,
           ops'[s].kind = "create" /\ ops'[s].pc = "file" => ops[s].pc = "file"
    PROVE  RunsOK'
<1>1. ASSUME NEW t \in Slots, ops'[t].kind = "create", ops'[t].pc = "file"
      PROVE  files'[ops'[t].id] = Fresh
  <2>1. ops[t].kind = "create" /\ ops[t].pc = "file" /\ ops'[t].id = ops[t].id
    BY <1>1 DEF Follows, Rest, Keeps
  <2> QED BY <2>1 DEF RunsOK, CreatesOnce, At
<1> QED BY <1>1, RunsRest

(* No step of an operation creates a run twice.                            *)
LEMMA RunsStay ==
    ASSUME StoreTypes, RunsOK, NEW s \in Slots, OpStep(s), Rest(s)
    PROVE  RunsOK'
<1>1. ASSUME End(s), UNCHANGED files PROVE RunsOK'
  <2>1. Idles(s)
    BY <1>1, EndEffect DEF End
  <2> QED BY <1>1, <2>1, RunsRestFiles DEF Idles, Follows
<1>2. ASSUME Keeps(ops'[s], ops[s]), ops'[s].pc # "file", UNCHANGED files PROVE RunsOK'
  <2>1. Follows(s)
    BY <1>2 DEF Follows, Keeps
  <2> QED BY <1>2, <2>1, RunsRestFiles
<1>3. CASE WriteFile(s)
  <2>1. ops[s].pc = "file" /\ Goto(s, "upsert") /\ files' = [files EXCEPT ![ops[s].id] = ops[s].rec]
        /\ "upsert" \in PCs
    BY <1>3 DEF WriteFile, At, PCs
  <2>2. ops[s].id \in Ids /\ ops[s].rec \subseteq Marks /\ DOMAIN files = Ids
        /\ ops[s].kind \in {"create", "edit"} \cup MarkKinds
    BY <2>1, OpTypes DEF StoreTypes, FilesOK
  <2>3. Keeps(ops'[s], ops[s]) /\ ops'[s].pc = "upsert"
    BY <2>1, GotoEffect
  <2>4. \A id \in Ids : files'[id] = Fresh => files[id] = Fresh
    BY <2>1, <2>2, Records
  <2>5. ASSUME NEW t \in Slots, ops'[t].kind = "create", ops'[t].pc = "file"
        PROVE  files'[ops'[t].id] = Fresh
    <3>1. t # s
      BY <2>3, <2>5
    <3>2. ops[t].kind = "create" /\ ops[t].pc = "file" /\ ops'[t].id = ops[t].id
      BY <2>5, <3>1 DEF Rest, Keeps
    <3>3. files[ops[t].id] = Fresh /\ ops[t].id \in Ids
      BY <3>2, OpTypes DEF RunsOK, CreatesOnce, At
    <3>4. ops[t].id # ops[s].id
      <4>1. CreatesOnce(s)
        BY DEF RunsOK
      <4> QED BY <2>2, <3>1, <3>2, <3>3, <4>1 DEF CreatesOnce
    <3> QED BY <2>1, <2>2, <3>2, <3>3, <3>4
  <2>6. Follows(s)
    BY <2>3 DEF Follows, Keeps
  <2> QED BY <2>4, <2>5, <2>6, RunsRest
<1>4. CASE WriteFileFails(s) \/ UnlinkFails(s) \/ FilterEntry(s) \/ Refresh(s) \/ ListEnd(s)
  <2>1. End(s) /\ UNCHANGED files
    BY <1>4 DEF WriteFileFails, UnlinkFails, FilterEntry, Refresh, ListEnd, diskVars
  <2> QED BY <1>1, <2>1
<1>5. CASE ReadIndex(s)
  <2>1. Keeps(ops'[s], ops[s]) /\ ops'[s].pc \in {"put", "filter"} /\ UNCHANGED files
    BY <1>5, ReadIndexEffect DEF diskVars
  <2> QED BY <1>2, <2>1
<1>6. CASE UpsertEntry(s)
  <2>1. ops[s].pc = "put" /\ Return(s) /\ UNCHANGED files
    BY <1>6, UpsertEffect
  <2>2. \/ Keeps(ops'[s], ops[s]) /\ ops'[s].pc = "refresh"
        \/ Idles(s)
    BY <2>1, ReturnEffect DEF At
  <2>3. CASE Idles(s)
    BY <2>1, <2>3, RunsRestFiles DEF Idles, Follows
  <2> QED BY <1>2, <2>1, <2>2, <2>3
<1>7. CASE Unlink(s)
  <2>1. /\ Keeps(ops'[s], ops[s]) /\ ops'[s].pc = "drop" /\ ops[s].id \in Ids /\ ops[s].kind = "delete"
    BY <1>7, UnlinkEffect
  <2>2. files' = [files EXCEPT ![ops[s].id] = Gone] /\ DOMAIN files = Ids
    BY <1>7 DEF Unlink, StoreTypes, FilesOK
  <2>3. files[ops[s].id] # Fresh
    BY <2>1 DEF RunsOK, CreatesOnce
  <2>4. \A id \in Ids : files'[id] = Fresh => files[id] = Fresh
    BY <2>1, <2>2, Records
  <2>5. ASSUME NEW t \in Slots, ops'[t].kind = "create", ops'[t].pc = "file"
        PROVE  files'[ops'[t].id] = Fresh
    <3>1. ops[t].kind = "create" /\ ops[t].pc = "file" /\ ops'[t].id = ops[t].id
      BY <2>1, <2>5 DEF Rest, Keeps
    <3>2. files[ops[t].id] = Fresh /\ ops[t].id \in Ids
      BY <3>1, OpTypes DEF RunsOK, CreatesOnce, At
    <3> QED BY <2>1, <2>2, <2>3, <3>1, <3>2
  <2>6. Follows(s)
    BY <2>1 DEF Follows, Keeps
  <2> QED BY <2>4, <2>5, <2>6, RunsRest
<1>8. CASE MarkLoad(s)
  <2>1. ops[s].pc = "load" /\ UNCHANGED files
    BY <1>8 DEF MarkLoad, At, diskVars
  <2>2. CASE /\ files[ops[s].id] \notin {Fresh, Gone}
             /\ ops' = [ops EXCEPT ![s].rec = files[ops[s].id] \cup {ops[s].kind}, ![s].pc = "file"]
    <3>1. ops'[s].kind = ops[s].kind /\ ops'[s].id = ops[s].id
      BY <2>1, <2>2, LoadEffect
    <3>2. ops[s].kind # "create"
      BY <2>1, OpTypes, Records
    <3> QED BY <2>1, <3>1, <3>2, RunsRestFiles DEF Follows
  <2> QED BY <1>1, <1>8, <2>1, <2>2 DEF MarkLoad
<1>9. CASE ListCheck(s)
  <2>1. Keeps(ops'[s], ops[s]) /\ ops'[s].pc \in {"listed", "read", "scan"} /\ UNCHANGED files
    BY <1>9, ListCheckEffect DEF diskVars
  <2> QED BY <1>2, <2>1
<1>10. CASE Scan(s)
  <2>1. Keeps(ops'[s], ops[s]) /\ ops'[s].pc = "files" /\ UNCHANGED files
    BY <1>10, ScanEffect DEF Scan, diskVars
  <2> QED BY <1>2, <2>1
<1>11. ASSUME NEW id \in Ids, ScanFile(s, id) PROVE RunsOK'
  <2>1. Keeps(ops'[s], ops[s]) /\ ops'[s].pc \in {"files", "read"} /\ UNCHANGED files
    BY <1>11, ScanFileEffect DEF diskVars
  <2> QED BY <1>2, <2>1
<1>12. CASE RebuildIndex(s)
  <2>1. Keeps(ops'[s], ops[s]) /\ ops'[s].pc = "listed" /\ UNCHANGED files
    BY <1>12, RebuildEffect
  <2> QED BY <1>2, <2>1
<1>13. CASE ListRead(s)
  <2>1. Keeps(ops'[s], ops[s]) /\ ops'[s].pc = "listed" /\ UNCHANGED files
    BY <1>13, ListReadEffect DEF diskVars
  <2> QED BY <1>2, <2>1
<1> QED BY <1>3, <1>4, <1>5, <1>6, <1>7, <1>8, <1>9, <1>10, <1>11, <1>12, <1>13 DEF OpStep

(* A run is created only when it was never saved.                          *)
LEMMA StartRuns ==
    ASSUME StoreTypes, RunsOK, NEW s \in Slots, StartStep(s), Rest(s), ops[s].kind = "none"
    PROVE  RunsOK'
<1>1. UNCHANGED files
  BY StartEffect
<1>2. CreatesOnce(s)'
  <2>1. CASE /\ ops'[s].kind = "create" /\ files[ops'[s].id] = Fresh
             /\ \A t \in Slots : ~(ops[t].kind = "create" /\ ops[t].id = ops'[s].id)
    <3>1. \A t \in Slots \ {s} : ~(ops'[t].kind = "create" /\ ops'[t].id = ops'[s].id)
      BY <2>1 DEF Rest, Keeps
    <3> QED BY <1>1, <2>1, <3>1, Records DEF CreatesOnce
  <2>2. CASE ops'[s].kind \in MarkKinds \cup {"edit", "delete"} /\ files[ops'[s].id] # Fresh
    BY <1>1, <2>2, Records DEF CreatesOnce
  <2>3. CASE ops'[s].kind = "list"
    BY <2>3, Records DEF CreatesOnce
  <2> QED BY <2>1, <2>2, <2>3, StartEffect
<1>3. ASSUME NEW t \in Slots \ {s} PROVE CreatesOnce(t)'
  <2>1. /\ ops'[t].kind = ops[t].kind /\ ops'[t].id = ops[t].id /\ ops'[t].pc = ops[t].pc
        /\ CreatesOnce(t)
    BY DEF Rest, Keeps, RunsOK
  <2>2. ASSUME ops[t].kind = "create", NEW u \in Slots, ops'[u].kind = "create", ops'[u].id = ops[t].id
        PROVE  u = t
    <3>1. CASE u = s
      BY <2>1, <2>2, <3>1, <1>2 DEF CreatesOnce
    <3>2. CASE u # s
      <4>1. ops[u].kind = "create" /\ ops[u].id = ops[t].id
        BY <2>2, <3>2 DEF Rest, Keeps
      <4> QED BY <2>1, <2>2, <4>1 DEF CreatesOnce
    <3> QED BY <3>1, <3>2
  <2> QED BY <1>1, <2>1, <2>2 DEF CreatesOnce, At
<1> QED BY <1>2, <1>3 DEF RunsOK

-----------------------------------------------------------------------------
(* Marks.                                                                  *)

(* Marks are kept where no file and no record of marks changes.            *)
LEMMA MarksRest ==
    ASSUME MarksKept, NEW s \in Slots, Rest(s), UNCHANGED <<files, marked>>, BudgetMoves,
           Unedited' => MarkKept(s)'
    PROVE  MarksKept'
<1> SUFFICES ASSUME Unedited' PROVE  (/\ \A id \in Ids : files[id] # Gone => marked[id] \subseteq files[id] \ Fresh
                                 /\ \A t \in Slots : MarkKept(t))'
  BY DEF MarksKept
<1>1. \A id \in Ids : files[id] # Gone => marked[id] \subseteq files[id] \ Fresh
  BY DEF MarksKept, BudgetMoves
<1>2. ASSUME NEW t \in Slots \ {s} PROVE MarkKept(t)'
  <2>1. ops'[t].kind = ops[t].kind /\ ops'[t].id = ops[t].id /\ ops'[t].rec = ops[t].rec
        /\ ops'[t].pc = ops[t].pc
    BY DEF Rest, Keeps
  <2>2. MarkKept(t)
    BY DEF MarksKept, BudgetMoves
  <2> QED BY <2>1, <2>2 DEF MarkKept, At, HasLoaded, OnDisk
<1> QED BY <1>1, <1>2

(* An action spends from the bounds or leaves them.                        *)
LEMMA StepBudget ==
    ASSUME StoreTypes, NEW s \in Slots, OpStep(s)
    PROVE  BudgetMoves
<1>1. BudgetOK
  BY DEF StoreTypes
<1>2. UNCHANGED budget \/ Spend("failures")
  <2>1. ASSUME NEW id \in Ids, ScanFile(s, id) PROVE UNCHANGED budget \/ Spend("failures")
    BY <2>1, Zenon DEF ScanFile
  <2>2. CASE WriteFile(s) \/ Unlink(s) \/ Scan(s) \/ ListRead(s) \/ ListEnd(s)
    BY <2>2 DEF WriteFile, Unlink, Scan, ListRead, ListEnd
  <2>5. CASE MarkLoad(s) \/ Refresh(s)
    BY <2>5, Zenon DEF MarkLoad, Refresh
  <2>3. CASE WriteFileFails(s) \/ ReadIndex(s) \/ UpsertEntry(s) \/ UnlinkFails(s) \/ FilterEntry(s)
    BY <2>3, Zenon DEF WriteFileFails, ReadIndex, UpsertEntry, UnlinkFails, FilterEntry
  <2>4. CASE ListCheck(s) \/ RebuildIndex(s)
    BY <2>4, Zenon DEF ListCheck, RebuildIndex
  <2> QED BY <2>1, <2>2, <2>3, <2>4, <2>5 DEF OpStep
<1>3. CASE UNCHANGED budget
  BY <1>1, <1>3, BudgetRests DEF BudgetMoves
<1>4. CASE Spend("failures")
  BY <1>1, <1>4, SpendEffect DEF BudgetMoves
<1> QED BY <1>2, <1>3, <1>4

(* Of the marks of a run only the first in its queue has read the file.    *)
LEMMA OneLoaded ==
    ASSUME RunQueuesOK, NEW s \in Slots, NEW t \in Slots, NEW id \in Ids,
           IsMark(s, id), Head(runQueue[id]) = s \/ HasLoaded(s),
           IsMark(t, id), HasLoaded(t)
    PROVE  t = s
  BY DEF RunQueuesOK, RunQueueOK

(* No action but an edit of the memo loses a mark.                         *)
LEMMA MarksStay ==
    ASSUME StoreTypes, RunQueuesOK, RunsOK, MarksKept, NEW s \in Slots, OpStep(s), Rest(s)
    PROVE  MarksKept'
<1> DEFINE Kept == /\ \A id \in Ids : files[id] # Gone => marked[id] \subseteq files[id] \ Fresh
                   /\ \A t \in Slots : MarkKept(t)
<1> SUFFICES ASSUME Unedited' PROVE Kept'
  BY DEF MarksKept
<1>0. BudgetMoves /\ Unedited
  BY StepBudget DEF BudgetMoves
<1>1. MarkKept(s) /\ Kept
  BY <1>0 DEF MarksKept
<1>2. ASSUME MarksKept' PROVE Kept'
  BY <1>2 DEF MarksKept
<1>3. /\ files \in [Ids -> (SUBSET Marks) \cup {Fresh, Gone}] /\ DOMAIN files = Ids
      /\ marked \in [Ids -> SUBSET Marks] /\ DOMAIN marked = Ids
  BY DEF StoreTypes, FilesOK
<1>4. ASSUME NEW t \in Slots \ {s}
      PROVE  /\ ops'[t].kind = ops[t].kind /\ ops'[t].id = ops[t].id
             /\ ops'[t].rec = ops[t].rec /\ ops'[t].pc = ops[t].pc
             /\ MarkKept(t)
             /\ ops[t].kind \in MarkKinds => ops[t].id \in Ids /\ IsMark(t, ops[t].id)
  <2>1. ops[t].kind \in MarkKinds => ops[t].id \in Ids
    BY Records DEF StoreTypes, OpOK
  <2> QED BY <1>1, <2>1 DEF Rest, Keeps, IsMark
<1> HIDE DEF Kept
<1>5. ASSUME Idles(s) PROVE MarkKept(s)'
  BY <1>5, Records DEF Idles, MarkKept
<1>6. ASSUME Idles(s), UNCHANGED <<files, marked>> PROVE Kept'
  BY <1>0, <1>2, <1>5, <1>6, MarksRest
<1>7. ASSUME End(s), UNCHANGED <<files, marked>> PROVE Kept'
  BY <1>6, <1>7, EndEffect DEF End
<1>8. ASSUME Keeps(ops'[s], ops[s]), UNCHANGED <<files, marked>>,
             \/ ops[s].kind \notin MarkKinds
             \/ ops[s].pc \in {"upsert", "put"} /\ ops'[s].pc \in {"upsert", "put"}
      PROVE  Kept'
  <2>1. ops'[s].kind = ops[s].kind /\ ops'[s].id = ops[s].id /\ ops'[s].rec = ops[s].rec
    BY <1>8 DEF Keeps
  <2>2. MarkKept(s)'
    BY <1>1, <1>8, <2>1 DEF MarkKept, At, HasLoaded, OnDisk
  <2> QED BY <1>0, <1>2, <1>8, <2>2, MarksRest
<1>9. CASE WriteFile(s)
  <2>1. ops[s].pc = "file" /\ Goto(s, "upsert") /\ files' = [files EXCEPT ![ops[s].id] = ops[s].rec]
        /\ UNCHANGED marked /\ "upsert" \in PCs
    BY <1>9 DEF WriteFile, At, PCs
  <2>2. /\ ops[s].id \in Ids /\ ops[s].rec \subseteq Marks
        /\ ops[s].kind \in {"create"} \cup MarkKinds /\ HasLoaded(s)
    BY <1>1, <2>1, OpTypes DEF MarkKept, HasLoaded
  <2>3. ops'[s].kind = ops[s].kind /\ ops'[s].id = ops[s].id /\ ops'[s].rec = ops[s].rec
        /\ ops'[s].pc = "upsert"
    BY <2>1, GotoEffect DEF Keeps
  <2>4. /\ files'[ops[s].id] = ops[s].rec
        /\ \A id \in Ids \ {ops[s].id} : files'[id] = files[id]
    BY <1>3, <2>1, <2>2
  <2>5. marked[ops[s].id] \subseteq ops[s].rec
    <3>1. CASE ops[s].kind = "create"
      <4>1. files[ops[s].id] = Fresh
        BY <2>1, <3>1 DEF RunsOK, CreatesOnce, At
      <4> QED BY <1>1, <2>2, <4>1, Records DEF Kept
    <3>2. CASE ops[s].kind \in MarkKinds
      BY <1>1, <2>1, <3>2 DEF MarkKept, At
    <3> QED BY <2>2, <3>1, <3>2
  <2>6. ASSUME NEW id \in Ids, files'[id] # Gone PROVE marked'[id] \subseteq files'[id] \ Fresh
    <3>1. CASE id = ops[s].id
      BY <1>3, <2>1, <2>4, <2>5, <3>1 DEF Fresh, Marks
    <3>2. CASE id # ops[s].id
      BY <1>1, <2>1, <2>4, <2>6, <3>2 DEF Kept
    <3> QED BY <3>1, <3>2
  <2>7. MarkKept(s)'
    <3>1. ops[s].kind \in MarkKinds => ops[s].kind \in ops[s].rec
      BY <1>1, <2>2 DEF MarkKept
    <3>2. ops[s].kind # "edit"
      BY <1>1 DEF MarkKept
    <3> QED BY <2>3, <2>4, <3>1, <3>2 DEF MarkKept, At
  <2>8. ASSUME NEW t \in Slots \ {s} PROVE MarkKept(t)'
    <3>1. ops[t].kind \in MarkKinds /\ HasLoaded(t) => ops[t].id # ops[s].id
      <4>1. ASSUME ops[t].kind \in MarkKinds, HasLoaded(t), ops[t].id = ops[s].id PROVE FALSE
        <5>1. CASE ops[s].kind = "create"
          <6>1. files[ops[s].id] = Fresh
            BY <2>1, <5>1 DEF RunsOK, CreatesOnce, At
          <6>2. files[ops[t].id] # Fresh
            BY <4>1 DEF RunsOK, CreatesOnce
          <6> QED BY <4>1, <6>1, <6>2
        <5>2. CASE ops[s].kind \in MarkKinds
          <6>1. IsMark(s, ops[s].id) /\ IsMark(t, ops[s].id)
            BY <4>1, <5>2 DEF IsMark
          <6> QED BY <2>2, <2>8, <4>1, <6>1, OneLoaded
        <5> QED BY <2>2, <5>1, <5>2
      <4> QED BY <4>1
    <3>2. ops[t].kind \in MarkKinds /\ HasLoaded(t) => files'[ops[t].id] = files[ops[t].id]
      BY <1>4, <2>4, <3>1
    <3> QED BY <1>4, <2>1, <3>2 DEF MarkKept, At, HasLoaded, OnDisk
  <2> QED BY <2>6, <2>7, <2>8 DEF Kept
<1>10. CASE WriteFileFails(s) \/ UnlinkFails(s) \/ FilterEntry(s) \/ Refresh(s) \/ ListEnd(s)
  <2>1. End(s) /\ UNCHANGED <<files, marked>>
    BY <1>10 DEF WriteFileFails, UnlinkFails, FilterEntry, Refresh, ListEnd, diskVars
  <2> QED BY <1>7, <2>1
<1>11. CASE ReadIndex(s)
  <2>1. /\ Keeps(ops'[s], ops[s]) /\ UNCHANGED <<files, marked>>
        /\ ops[s].pc \in {"upsert", "drop"}
        /\ ops'[s].pc = IF ops[s].pc = "upsert" THEN "put" ELSE "filter"
    BY <1>11, ReadIndexEffect DEF diskVars
  <2>2. ops[s].pc = "drop" => ops[s].kind \notin MarkKinds
    BY OpTypes, Records
  <2> QED BY <1>8, <2>1, <2>2
<1>12. CASE UpsertEntry(s)
  <2>1. ops[s].pc = "put" /\ Return(s) /\ UNCHANGED files
    BY <1>12, UpsertEffect
  <2>2. ops[s].kind # "edit" /\ ops[s].id \in Ids
    BY <1>1, <2>1, OpTypes DEF MarkKept
  <2>3. /\ Idles(s) /\ marked' \in [Ids -> SUBSET Marks]
        /\ \A id \in Ids : marked'[id] = marked[id] \/
              (id = ops[s].id /\ ops[s].kind \in MarkKinds /\ marked'[id] = marked[id] \cup {ops[s].kind})
    BY <2>1, <2>2, ReturnEffect DEF At
  <2>4. ops[s].kind \in MarkKinds /\ files[ops[s].id] # Gone =>
           ops[s].kind \in files[ops[s].id] \ Fresh
    <3>1. ASSUME ops[s].kind \in MarkKinds, files[ops[s].id] # Gone
          PROVE  ops[s].kind \in files[ops[s].id] \ Fresh
      <4>1. ops[s].id \in OnDisk
        BY <2>2, <3>1 DEF RunsOK, CreatesOnce, OnDisk
      <4>2. ops[s].kind \in files[ops[s].id]
        BY <1>1, <2>1, <3>1, <4>1 DEF MarkKept
      <4>3. ops[s].kind \notin Fresh
        BY <3>1, Records DEF Fresh, Marks
      <4> QED BY <4>2, <4>3
    <3> QED BY <3>1
  <2>5. \A id \in Ids : files'[id] # Gone => marked'[id] \subseteq files'[id] \ Fresh
    BY <1>1, <2>1, <2>3, <2>4 DEF Kept
  <2>6. ASSUME NEW t \in Slots \ {s} PROVE MarkKept(t)'
    <3>1. ops[t].kind \in MarkKinds /\ ops[t].pc = "file" => marked'[ops[t].id] = marked[ops[t].id]
      <4>1. ASSUME ops[t].kind \in MarkKinds, ops[t].pc = "file", ops[t].id = ops[s].id,
                   ops[s].kind \in MarkKinds
            PROVE  FALSE
        <5>1. IsMark(s, ops[s].id) /\ IsMark(t, ops[s].id) /\ HasLoaded(t) /\ HasLoaded(s)
          BY <2>1, <4>1 DEF IsMark, HasLoaded
        <5> QED BY <2>2, <2>6, <5>1, OneLoaded
      <4> QED BY <1>4, <2>3, <4>1
    <3> QED BY <1>4, <2>1, <3>1 DEF MarkKept, At, HasLoaded, OnDisk
  <2> QED BY <1>5, <2>3, <2>5, <2>6 DEF Kept
<1>13. CASE Unlink(s)
  <2>1. /\ ops[s].kind = "delete" /\ ops[s].id \in Ids /\ ops'[s].kind = "delete"
    BY <1>13, UnlinkEffect DEF Keeps
  <2>2. /\ files' = [files EXCEPT ![ops[s].id] = Gone]
        /\ marked' = [marked EXCEPT ![ops[s].id] = {}]
    BY <1>13 DEF Unlink
  <2>3. /\ files'[ops[s].id] = Gone /\ marked'[ops[s].id] = {}
        /\ \A id \in Ids \ {ops[s].id} : files'[id] = files[id] /\ marked'[id] = marked[id]
    BY <1>3, <2>1, <2>2
  <2>4. \A id \in Ids : files'[id] # Gone => marked'[id] \subseteq files'[id] \ Fresh
    BY <1>1, <2>3 DEF Kept
  <2>5. MarkKept(s)'
    BY <2>1, Records DEF MarkKept
  <2>6. ASSUME NEW t \in Slots \ {s} PROVE MarkKept(t)'
    <3>1. CASE ops[t].id = ops[s].id
      BY <1>4, <2>3, <3>1 DEF MarkKept, At, HasLoaded, OnDisk
    <3>2. CASE ops[t].id # ops[s].id
      BY <1>4, <2>3, <3>2 DEF MarkKept, At, HasLoaded, OnDisk
    <3> QED BY <3>1, <3>2
  <2> QED BY <2>4, <2>5, <2>6 DEF Kept
<1>14. CASE MarkLoad(s)
  <2>1. ops[s].pc = "load" /\ Head(runQueue[ops[s].id]) = s /\ UNCHANGED files
    BY <1>14 DEF MarkLoad, At, diskVars
  <2>2. ops[s].kind \in MarkKinds /\ ops[s].id \in Ids /\ IsMark(s, ops[s].id)
    BY <2>1, OpTypes DEF IsMark
  <2>3. \/ End(s) /\ UNCHANGED marked
        \/ /\ "claimed" \in files[ops[s].id] /\ End(s) /\ files[ops[s].id] \notin {Fresh, Gone}
           /\ marked' = [marked EXCEPT ![ops[s].id] = @ \cup {"claimed"}]
        \/ /\ files[ops[s].id] \notin {Fresh, Gone} /\ UNCHANGED marked
           /\ ops' = [ops EXCEPT ![s].rec = files[ops[s].id] \cup {ops[s].kind}, ![s].pc = "file"]
    BY <1>14, Zenon DEF MarkLoad
  <2>4. CASE End(s) /\ UNCHANGED marked
    BY <1>7, <2>1, <2>4
  <2>5. CASE /\ "claimed" \in files[ops[s].id] /\ End(s) /\ files[ops[s].id] \notin {Fresh, Gone}
             /\ marked' = [marked EXCEPT ![ops[s].id] = @ \cup {"claimed"}]
    <3>1. Idles(s)
      BY <2>5, EndEffect DEF End
    <3>2. /\ marked'[ops[s].id] = marked[ops[s].id] \cup {"claimed"}
          /\ \A id \in Ids \ {ops[s].id} : marked'[id] = marked[id]
      BY <1>3, <2>2, <2>5
    <3>3. "claimed" \notin Fresh
      BY DEF Fresh
    <3>4. \A id \in Ids : files'[id] # Gone => marked'[id] \subseteq files'[id] \ Fresh
      BY <1>1, <2>1, <2>5, <3>2, <3>3 DEF Kept
    <3>5. ASSUME NEW t \in Slots \ {s} PROVE MarkKept(t)'
      <4>1. ops[t].kind \in MarkKinds /\ ops[t].pc = "file" => ops[t].id # ops[s].id
        <5>1. ASSUME ops[t].kind \in MarkKinds, ops[t].pc = "file", ops[t].id = ops[s].id PROVE FALSE
          <6>1. IsMark(t, ops[s].id) /\ HasLoaded(t)
            BY <5>1 DEF IsMark, HasLoaded
          <6> QED BY <2>1, <2>2, <3>5, <6>1, OneLoaded
        <5> QED BY <5>1
      <4>2. ops[t].kind \in MarkKinds /\ ops[t].pc = "file" => marked'[ops[t].id] = marked[ops[t].id]
        BY <1>4, <3>2, <4>1
      <4> QED BY <1>4, <2>1, <4>2 DEF MarkKept, At, HasLoaded, OnDisk
    <3> QED BY <1>5, <3>1, <3>4, <3>5 DEF Kept
  <2>6. CASE /\ files[ops[s].id] \notin {Fresh, Gone} /\ UNCHANGED marked
             /\ ops' = [ops EXCEPT ![s].rec = files[ops[s].id] \cup {ops[s].kind}, ![s].pc = "file"]
    <3>1. ops'[s].kind = ops[s].kind /\ ops'[s].id = ops[s].id /\ ops'[s].pc = "file"
          /\ ops'[s].rec = files[ops[s].id] \cup {ops[s].kind}
      BY <2>1, <2>6, LoadEffect
    <3>2. marked[ops[s].id] \subseteq files[ops[s].id]
      BY <1>1, <2>2, <2>6 DEF Kept
    <3>3. MarkKept(s)'
      BY <2>2, <2>6, <3>1, <3>2, Records DEF MarkKept, At
    <3> QED BY <1>0, <1>2, <2>1, <2>6, <3>3, MarksRest
  <2> QED BY <2>3, <2>4, <2>5, <2>6
<1>15. ASSUME ops[s].kind = "list", Keeps(ops'[s], ops[s]), UNCHANGED <<files, marked>> PROVE Kept'
  BY <1>8, <1>15, Records
<1>16. CASE ListCheck(s)
  BY <1>15, <1>16, ListCheckEffect DEF diskVars
<1>17. CASE Scan(s)
  BY <1>15, <1>17, ScanEffect DEF Scan, diskVars
<1>18. ASSUME NEW id \in Ids, ScanFile(s, id) PROVE Kept'
  BY <1>15, <1>18, ScanFileEffect DEF diskVars
<1>19. CASE RebuildIndex(s)
  BY <1>15, <1>19, RebuildEffect
<1>20. CASE ListRead(s)
  BY <1>15, <1>20, ListReadEffect DEF diskVars
<1> QED BY <1>9, <1>10, <1>11, <1>12, <1>13, <1>14, <1>16, <1>17, <1>18, <1>19, <1>20 DEF OpStep

(* A new operation has recorded nothing.                                   *)
LEMMA StartMarks ==
    ASSUME StoreTypes, MarksKept, NEW s \in Slots, StartStep(s), Rest(s)
    PROVE  MarksKept'
<1>1. UNCHANGED <<files, marked>> /\ BudgetMoves
  BY StartEffect
<1>2. Unedited' => MarkKept(s)'
  <2>1. CASE ops'[s].kind \in {"create", "delete", "list"}
    BY <2>1, Records DEF MarkKept
  <2>2. CASE ops'[s].kind \in MarkKinds /\ ops'[s].pc = "load"
    BY <2>2, Records DEF MarkKept, At, HasLoaded
  <2>3. CASE ~Unedited'
    BY <2>3
  <2> QED BY <2>1, <2>2, <2>3, StartEffect
<1> QED BY <1>1, <1>2, MarksRest

-----------------------------------------------------------------------------
(* The index.                                                              *)

(* Who is the last task of its run stays so where no task joins.           *)
LEMMA LastRests ==
    ASSUME IndexQueueOK, NEW s \in Slots, Rest(s), UNCHANGED indexQueue,
           InIndexQueue(s) => ops'[s].id = ops[s].id, NEW t \in Slots, IsLast(t)'
    PROVE  IsLast(t)
<1>1. PICK j \in 1 .. Len(indexQueue) :
         /\ indexQueue[j] = t
         /\ \A k \in 1 .. Len(indexQueue) : k > j => ops'[indexQueue[k]].id # ops'[t].id
  BY DEF IsLast
<1>2. ASSUME NEW k \in 1 .. Len(indexQueue) PROVE ops'[indexQueue[k]].id = ops[indexQueue[k]].id
  <2>1. indexQueue \in Seq(Slots) /\ indexQueue[k] \in Slots /\ indexQueue[k] \in Range(indexQueue)
    BY DEF IndexQueueOK, QueueOf, Range
  <2>2. InIndexQueue(indexQueue[k])
    BY <2>1 DEF IndexQueueOK, QueueOf
  <2> QED BY <2>1, <2>2 DEF Rest, Keeps
<1>3. \A k \in 1 .. Len(indexQueue) : k > j => ops[indexQueue[k]].id # ops[t].id
  BY <1>1, <1>2
<1> QED BY <1>1, <1>3 DEF IsLast

(* A task that joins is the last one of its run.                           *)
LEMMA LastGrows ==
    ASSUME IndexQueueOK, NEW s \in Slots, Rest(s), indexQueue' = Append(indexQueue, s),
           ~InIndexQueue(s), ops'[s].id = ops[s].id, NEW t \in Slots \ {s}, IsLast(t)'
    PROVE  IsLast(t) /\ ops[t].id # ops[s].id
<1>1. indexQueue \in Seq(Slots) /\ Len(indexQueue) \in Nat /\ DOMAIN indexQueue = 1 .. Len(indexQueue)
  BY DEF IndexQueueOK, QueueOf
<1>2. /\ Len(indexQueue') = Len(indexQueue) + 1 /\ indexQueue'[Len(indexQueue) + 1] = s
      /\ \A k \in 1 .. Len(indexQueue) : indexQueue'[k] = indexQueue[k]
  BY <1>1
<1>3. PICK j \in 1 .. Len(indexQueue') :
         /\ indexQueue'[j] = t
         /\ \A k \in 1 .. Len(indexQueue') : k > j => ops'[indexQueue'[k]].id # ops'[t].id
  BY DEF IsLast
<1>4. j \in 1 .. Len(indexQueue)
  BY <1>1, <1>2, <1>3
<1>5. Len(indexQueue) + 1 \in 1 .. Len(indexQueue') /\ Len(indexQueue) + 1 > j
      /\ \A k \in 1 .. Len(indexQueue) : k \in 1 .. Len(indexQueue')
  BY <1>1, <1>2, <1>4
<1>6. \A u \in Slots : ops'[u].id = ops[u].id
  BY DEF Rest, Keeps
<1>7. \A k \in 1 .. Len(indexQueue) : indexQueue[k] \in Slots
  BY <1>1
<1>8. \A k \in 1 .. Len(indexQueue) : k > j => ops[indexQueue[k]].id # ops[t].id
  BY <1>2, <1>3, <1>5, <1>6, <1>7
<1>9. ops[t].id # ops[s].id
  BY <1>2, <1>3, <1>5, <1>6
<1> QED BY <1>2, <1>3, <1>4, <1>8, <1>9 DEF IsLast

(* The head leaves the others as they were; it was the last one of its run *)
(* if no other task of the run is in the queue.                            *)
LEMMA LastMovesOn ==
    ASSUME IndexQueueOK, NEW s \in Slots, Rest(s), Runs(s), indexQueue' = Tail(indexQueue)
    PROVE  /\ \A t \in Slots \ {s} : IsLast(t)' => IsLast(t)
           /\ ~IsLast(s)'
           /\ IsLast(s) \/ \E t \in Slots \ {s} : InIndexQueue(t) /\ ops[t].id = ops[s].id
<1>1. /\ indexQueue \in Seq(Slots) /\ Len(indexQueue) \in Nat /\ Len(indexQueue) > 0
      /\ DOMAIN indexQueue = 1 .. Len(indexQueue)
  BY DEF IndexQueueOK, QueueOf, Runs
<1>2. /\ Len(indexQueue') = Len(indexQueue) - 1 /\ indexQueue[1] = s
      /\ \A k \in 1 .. Len(indexQueue') : indexQueue'[k] = indexQueue[k + 1]
  BY <1>1 DEF Runs
<1>3. \A i, j \in 1 .. Len(indexQueue) : indexQueue[i] = indexQueue[j] => i = j
  BY <1>1 DEF IndexQueueOK, QueueOf, IsInjective
<1>4. /\ 1 \in 1 .. Len(indexQueue)
      /\ \A k \in 1 .. Len(indexQueue') : k + 1 \in 1 .. Len(indexQueue) /\ k + 1 # 1
      /\ \A k \in 1 .. Len(indexQueue) : k > 1 => k - 1 \in 1 .. Len(indexQueue') /\ (k - 1) + 1 = k
  BY <1>1, <1>2
<1>5. \A k \in 1 .. Len(indexQueue) : indexQueue[k] \in Slots /\ (k # 1 => indexQueue[k] # s)
  BY <1>1, <1>2, <1>3, <1>4
<1>6. ~IsLast(s)'
  <2>1. \A j \in 1 .. Len(indexQueue') : indexQueue'[j] # s
    BY <1>2, <1>4, <1>5
  <2> QED BY <2>1 DEF IsLast
<1>7. ASSUME NEW t \in Slots \ {s}, IsLast(t)' PROVE IsLast(t)
  <2>1. PICK j \in 1 .. Len(indexQueue') :
           /\ indexQueue'[j] = t
           /\ \A k \in 1 .. Len(indexQueue') : k > j => ops'[indexQueue'[k]].id # ops'[t].id
    BY <1>7 DEF IsLast
  <2>2. j + 1 \in 1 .. Len(indexQueue) /\ indexQueue[j + 1] = t
    BY <1>2, <1>4, <2>1
  <2>3. ASSUME NEW k \in 1 .. Len(indexQueue), k > j + 1 PROVE ops[indexQueue[k]].id # ops[t].id
    <3>1. k > 1 /\ k - 1 > j
      BY <1>1, <1>2, <2>3
    <3>2. k - 1 \in 1 .. Len(indexQueue') /\ indexQueue'[k - 1] = indexQueue[k]
      BY <1>2, <1>4, <3>1
    <3>3. ops'[indexQueue[k]].id # ops'[t].id
      BY <2>1, <3>1, <3>2
    <3>4. indexQueue[k] \in Slots \ {s}
      BY <1>5, <3>1
    <3> QED BY <3>3, <3>4 DEF Rest, Keeps
  <2> QED BY <2>2, <2>3 DEF IsLast
<1>8. ASSUME ~IsLast(s) PROVE \E t \in Slots \ {s} : InIndexQueue(t) /\ ops[t].id = ops[s].id
  <2>1. PICK k \in 1 .. Len(indexQueue) : k > 1 /\ ops[indexQueue[k]].id = ops[s].id
    BY <1>2, <1>4, <1>8 DEF IsLast
  <2>2. indexQueue[k] \in Slots \ {s} /\ indexQueue[k] \in Range(indexQueue)
    BY <1>1, <1>5, <2>1 DEF Range
  <2>3. InIndexQueue(indexQueue[k])
    BY <2>2 DEF IndexQueueOK, QueueOf
  <2> QED BY <2>1, <2>2, <2>3
<1> QED BY <1>6, <1>7, <1>8

(* The index goes on agreeing where no file and no entry changes.          *)
LEMMA FollowRests ==
    ASSUME StoreTypes, IndexQueueOK, IndexFollows, NEW s \in Slots, Rest(s), BudgetMoves,
           UNCHANGED <<files, index, indexQueue>>,
           InIndexQueue(s)' <=> InIndexQueue(s),
           InIndexQueue(s) => Keeps(ops'[s], ops[s]),
           NothingFailed' /\ ops'[s].pc \in {"put", "filter"} => ops'[s].idx = index,
           ops'[s].pc = "files" =>
               \A id \in OnDisk : (ops[s].pc = "files" => AgreesOn(ops[s].idx, id))
                                    => AgreesOn(ops'[s].idx, id)
    PROVE  IndexFollows'
<1> SUFFICES ASSUME NothingFailed' PROVE
        /\ \A t \in Slots : ops'[t].id \in Ids /\ IsLast(t)' => Reflects(t)'
        /\ \A t \in Slots : ops'[t].pc \in {"put", "filter"} => ops'[t].idx = index
        /\ \A id \in OnDisk : ~Pending(id)' =>
              AgreesOn(index, id) /\ \A t \in Slots : ops'[t].pc = "files" => AgreesOn(ops'[t].idx, id)
  BY DEF IndexFollows, OnDisk, AgreesOn, At
<1>1. /\ \A t \in Slots : ops[t].id \in Ids /\ IsLast(t) => Reflects(t)
      /\ \A t \in Slots : ops[t].pc \in {"put", "filter"} => ops[t].idx = index
      /\ \A id \in OnDisk : ~Pending(id) =>
            AgreesOn(index, id) /\ \A t \in Slots : ops[t].pc = "files" => AgreesOn(ops[t].idx, id)
  BY DEF IndexFollows, At, BudgetMoves
<1>2. ASSUME NEW t \in Slots \ {s}
      PROVE  /\ Keeps(ops'[t], ops[t]) /\ ops'[t].pc = ops[t].pc /\ ops'[t].idx = ops[t].idx
             /\ InIndexQueue(t)' <=> InIndexQueue(t)
  BY DEF Rest, InIndexQueue
<1>3. ASSUME NEW t \in Slots, IsLast(t)' PROVE IsLast(t) /\ Keeps(ops'[t], ops[t])
  <2>1. IsLast(t)
    BY <1>3, LastRests DEF Keeps
  <2>2. t \in Range(indexQueue)
    BY <2>1 DEF IsLast, IndexQueueOK, QueueOf, Range
  <2>3. InIndexQueue(t)
    BY <2>2 DEF IndexQueueOK, QueueOf
  <2> QED BY <1>2, <2>1, <2>3
<1>4. ASSUME NEW t \in Slots, ops'[t].id \in Ids, IsLast(t)' PROVE Reflects(t)'
  <2>1. Reflects(t) /\ ops'[t].kind = ops[t].kind /\ ops'[t].id = ops[t].id /\ ops'[t].rec = ops[t].rec
    BY <1>1, <1>3, <1>4 DEF Keeps
  <2> QED BY <2>1 DEF Reflects
<1>5. ASSUME NEW id \in OnDisk, ~Pending(id)'
      PROVE  AgreesOn(index, id) /\ \A t \in Slots : ops'[t].pc = "files" => AgreesOn(ops'[t].idx, id)
  <2>1. ~Pending(id)
    <3>1. ASSUME NEW t \in Slots, InIndexQueue(t), ops[t].id = id PROVE FALSE
      <4>1. InIndexQueue(t)' /\ ops'[t].id = id
        BY <1>2, <3>1 DEF Keeps
      <4> QED BY <1>5, <4>1 DEF Pending
    <3> QED BY <3>1 DEF Pending
  <2> QED BY <1>1, <1>2, <2>1
<1>6. ASSUME NEW t \in Slots, ops'[t].pc \in {"put", "filter"} PROVE ops'[t].idx = index
  BY <1>1, <1>2, <1>6
<1> QED BY <1>4, <1>5, <1>6

(* A task that joins the queue brings the file it has written.             *)
LEMMA FollowGrows ==
    ASSUME StoreTypes, IndexQueueOK, IndexFollows, NEW s \in Slots, Rest(s), BudgetMoves,
           indexQueue' = Append(indexQueue, s), ~InIndexQueue(s), Keeps(ops'[s], ops[s]),
           ops'[s].pc \in {"upsert", "drop", "scan"}, UNCHANGED index,
           \A id \in Ids \ {ops[s].id} : files'[id] = files[id],
           ops[s].id \in Ids => Reflects(s)'
    PROVE  IndexFollows'
<1> SUFFICES ASSUME NothingFailed' PROVE
        /\ \A t \in Slots : ops'[t].id \in Ids /\ IsLast(t)' => Reflects(t)'
        /\ \A t \in Slots : ops'[t].pc \in {"put", "filter"} => ops'[t].idx = index
        /\ \A id \in OnDisk' : ~Pending(id)' =>
              /\ AgreesOn(index, id)'
              /\ \A t \in Slots : ops'[t].pc = "files" => AgreesOn(ops[t].idx, id)'
  BY DEF IndexFollows, At
<1>1. /\ \A t \in Slots : ops[t].id \in Ids /\ IsLast(t) => Reflects(t)
      /\ \A t \in Slots : ops[t].pc \in {"put", "filter"} => ops[t].idx = index
      /\ \A id \in OnDisk : ~Pending(id) =>
            AgreesOn(index, id) /\ \A t \in Slots : ops[t].pc = "files" => AgreesOn(ops[t].idx, id)
  BY DEF IndexFollows, At, BudgetMoves
<1>2. ASSUME NEW t \in Slots \ {s}
      PROVE  /\ ops'[t].kind = ops[t].kind /\ ops'[t].id = ops[t].id /\ ops'[t].rec = ops[t].rec
             /\ ops'[t].pc = ops[t].pc /\ ops'[t].idx = ops[t].idx
             /\ InIndexQueue(t)' <=> InIndexQueue(t)
  BY DEF Rest, Keeps, InIndexQueue
<1>3. ops'[s].id = ops[s].id /\ ops'[s].pc \notin {"put", "filter", "files"} /\ InIndexQueue(s)'
  BY DEF Keeps, InIndexQueue
<1>4. ASSUME NEW t \in Slots, ops'[t].id \in Ids, IsLast(t)' PROVE Reflects(t)'
  <2>1. CASE t = s
    BY <1>3, <1>4, <2>1
  <2>2. CASE t # s
    <3>1. IsLast(t) /\ ops[t].id # ops[s].id
      BY <1>3, <1>4, <2>2, LastGrows
    <3>2. ops[t].id \in Ids \ {ops[s].id} /\ Reflects(t)
      BY <1>1, <1>2, <1>4, <2>2, <3>1
    <3> QED BY <1>2, <2>2, <3>2 DEF Reflects
  <2> QED BY <2>1, <2>2
<1>5. ASSUME NEW id \in OnDisk', ~Pending(id)'
      PROVE  /\ AgreesOn(index, id)'
             /\ \A t \in Slots : ops'[t].pc = "files" => AgreesOn(ops[t].idx, id)'
  <2>1. id \in Ids /\ id # ops[s].id
    BY <1>3, <1>5 DEF OnDisk, Pending
  <2>2. files'[id] = files[id] /\ id \in OnDisk
    BY <1>5, <2>1 DEF OnDisk
  <2>3. ~Pending(id)
    <3>1. ASSUME NEW t \in Slots, InIndexQueue(t), ops[t].id = id PROVE FALSE
      <4>1. InIndexQueue(t)' /\ ops'[t].id = id
        BY <1>2, <1>3, <3>1
      <4> QED BY <1>5, <4>1 DEF Pending
    <3> QED BY <3>1 DEF Pending
  <2>4. AgreesOn(index, id) /\ \A t \in Slots : ops[t].pc = "files" => AgreesOn(ops[t].idx, id)
    BY <1>1, <2>2, <2>3
  <2> QED BY <1>2, <1>3, <2>2, <2>4 DEF AgreesOn
<1>6. ASSUME NEW t \in Slots, ops'[t].pc \in {"put", "filter"} PROVE ops'[t].idx = index
  BY <1>1, <1>2, <1>3, <1>6
<1> QED BY <1>4, <1>5, <1>6

(* A task that leaves the queue has put what it knows into the index.      *)
LEMMA FollowMovesOn ==
    ASSUME StoreTypes, IndexQueueOK, IndexFollows, NEW s \in Slots, Rest(s), BudgetMoves,
           Runs(s), indexQueue' = Tail(indexQueue), ops'[s].pc \in {"done", "refresh", "listed"},
           UNCHANGED files,
           NothingFailed' =>
               \A id \in OnDisk :
                   IF id = ops[s].id THEN Reflects(s) => AgreesOn(index', id)
                   ELSE AgreesOn(index, id) /\ (ops[s].pc = "files" => AgreesOn(ops[s].idx, id))
                          => AgreesOn(index', id)
    PROVE  IndexFollows'
<1> SUFFICES ASSUME NothingFailed' PROVE
        /\ \A t \in Slots : ops'[t].id \in Ids /\ IsLast(t)' => Reflects(t)'
        /\ \A t \in Slots : ~WritesIndex(t)'
        /\ \A id \in OnDisk : ~Pending(id)' => AgreesOn(index', id)
  BY DEF IndexFollows, OnDisk, AgreesOn, At, WritesIndex
<1>1. /\ \A t \in Slots : ops[t].id \in Ids /\ IsLast(t) => Reflects(t)
      /\ \A id \in OnDisk : ~Pending(id) =>
            AgreesOn(index, id) /\ \A t \in Slots : ops[t].pc = "files" => AgreesOn(ops[t].idx, id)
  BY DEF IndexFollows, At, BudgetMoves
<1>2. ASSUME NEW t \in Slots \ {s}
      PROVE  /\ ops'[t].kind = ops[t].kind /\ ops'[t].id = ops[t].id /\ ops'[t].rec = ops[t].rec
             /\ ops'[t].pc = ops[t].pc
             /\ InIndexQueue(t)' <=> InIndexQueue(t)
  BY DEF Rest, Keeps, InIndexQueue
<1>3. ASSUME NEW t \in Slots PROVE ~WritesIndex(t)'
  <2>1. CASE t = s
    BY <2>1 DEF WritesIndex
  <2>2. CASE t # s
    <3>1. ~WritesIndex(t)
      BY <2>2, OneRuns DEF IndexQueueOK
    <3> QED BY <1>2, <2>2, <3>1 DEF WritesIndex
  <2> QED BY <2>1, <2>2
<1>4. ASSUME NEW t \in Slots, ops'[t].id \in Ids, IsLast(t)' PROVE Reflects(t)'
  <2>1. t # s /\ IsLast(t)
    BY <1>4, LastMovesOn
  <2>2. Reflects(t)
    BY <1>1, <1>2, <1>4, <2>1
  <2> QED BY <1>2, <2>1, <2>2 DEF Reflects
<1>5. ASSUME NEW id \in OnDisk, ~Pending(id)' PROVE AgreesOn(index', id)
  <2>1. \A t \in Slots \ {s} : ~(InIndexQueue(t) /\ ops[t].id = id)
    BY <1>2, <1>5 DEF Pending
  <2>2. CASE id = ops[s].id
    <3>1. IsLast(s)
      BY <2>1, <2>2, LastMovesOn
    <3>2. id \in Ids
      BY DEF OnDisk
    <3>3. Reflects(s)
      BY <1>1, <2>2, <3>1, <3>2
    <3> QED BY <2>2, <3>3
  <2>3. CASE id # ops[s].id
    <3>1. ~Pending(id)
      BY <2>1, <2>3 DEF Pending
    <3> QED BY <1>1, <2>3, <3>1
  <2> QED BY <2>2, <2>3
<1> QED BY <1>3, <1>4, <1>5

(* Every action leaves the index behind no further than its queue tells.   *)
LEMMA FollowsStay ==
    ASSUME StoreTypes, IndexQueueOK, IndexFollows, NEW s \in Slots, OpStep(s), Rest(s)
    PROVE  IndexFollows'
<1>0. BudgetMoves
  BY StepBudget
<1>1. /\ WritesIndex(s) => Runs(s)
      /\ NothingFailed' => \A t \in Slots : ops[t].pc \in {"put", "filter"} => ops[t].idx = index
  BY <1>0 DEF IndexQueueOK, IndexFollows, BudgetMoves
<1>2. /\ files \in [Ids -> (SUBSET Marks) \cup {Fresh, Gone}] /\ DOMAIN files = Ids
      /\ index \in Indexes /\ "none" \notin Ids
  BY RunStoreAssumption DEF StoreTypes, FilesOK
<1>3. ASSUME UNCHANGED <<files, index, indexQueue>>, ~InIndexQueue(s), ~InIndexQueue(s)'
      PROVE  IndexFollows'
  <2>1. ops'[s].pc \notin {"put", "filter", "files"}
    BY <1>3 DEF InIndexQueue
  <2> QED BY <1>0, <1>3, <2>1, FollowRests
<1>4. ASSUME End(s), UNCHANGED <<files, index, indexQueue>>, ~InIndexQueue(s) PROVE IndexFollows'
  <2>1. Idles(s)
    BY <1>4, EndEffect DEF End
  <2>2. ~InIndexQueue(s)'
    BY <2>1 DEF Idles, InIndexQueue
  <2> QED BY <1>3, <1>4, <2>2
<1>5. CASE WriteFile(s)
  <2>1. ops[s].pc = "file" /\ Goto(s, "upsert") /\ files' = [files EXCEPT ![ops[s].id] = ops[s].rec]
        /\ UNCHANGED index /\ indexQueue' = Append(indexQueue, s) /\ "upsert" \in PCs
    BY <1>5 DEF WriteFile, At, PCs
  <2>2. ops[s].id \in Ids /\ ops[s].kind # "delete" /\ ~InIndexQueue(s)
    BY <2>1, OpTypes, Records DEF InIndexQueue
  <2>3. Keeps(ops'[s], ops[s]) /\ ops'[s].pc = "upsert"
    BY <2>1, GotoEffect
  <2>4. files'[ops[s].id] = ops[s].rec /\ \A id \in Ids \ {ops[s].id} : files'[id] = files[id]
    BY <1>2, <2>1, <2>2
  <2>5. Reflects(s)'
    BY <2>2, <2>3, <2>4 DEF Reflects, Keeps
  <2> QED BY <1>0, <2>1, <2>2, <2>3, <2>4, <2>5, FollowGrows
<1>6. CASE WriteFileFails(s) \/ UnlinkFails(s) \/ Refresh(s) \/ ListEnd(s)
  <2>1. End(s) /\ UNCHANGED <<files, index, indexQueue>>
        /\ ops[s].pc \in {"file", "unlink", "refresh", "listed"}
    BY <1>6 DEF WriteFileFails, UnlinkFails, Refresh, ListEnd, diskVars, At
  <2> QED BY <1>4, <2>1 DEF InIndexQueue
<1>7. CASE ReadIndex(s)
  <2>1. /\ Keeps(ops'[s], ops[s]) /\ UNCHANGED <<files, index, indexQueue>>
        /\ ops[s].pc \in {"upsert", "drop"}
        /\ ops'[s].pc = IF ops[s].pc = "upsert" THEN "put" ELSE "filter"
        /\ NothingFailed' => ops'[s].idx = index
    BY <1>7, ReadIndexEffect DEF diskVars
  <2>2. InIndexQueue(s) /\ InIndexQueue(s)' /\ ops'[s].pc # "files"
    BY <2>1 DEF InIndexQueue
  <2> QED BY <1>0, <2>1, <2>2, FollowRests
<1>8. CASE UpsertEntry(s)
  <2>1. /\ ops[s].pc = "put" /\ Runs(s) /\ Return(s) /\ indexQueue' = Tail(indexQueue)
        /\ UNCHANGED files /\ index' \in Indexes
        /\ NothingFailed' =>
              /\ Entries(index') = Entries(ops[s].idx) \cup {ops[s].id}
              /\ index'[ops[s].id] = Summary(ops[s].rec)
              /\ \A i \in Entries(ops[s].idx) \ {ops[s].id} : index'[i] = ops[s].idx[i]
    BY <1>8, UpsertEffect
  <2>2. ops'[s].pc \in {"done", "refresh", "listed"} /\ ops[s].kind # "delete"
    <3>1. ops'[s].pc \in {"done", "refresh", "listed"}
      BY <2>1, ReturnEffect DEF At, Idles
    <3> QED BY <2>1, <3>1, OpTypes, Records
  <2>3. ASSUME NothingFailed', NEW id \in OnDisk
        PROVE  IF id = ops[s].id THEN Reflects(s) => AgreesOn(index', id)
               ELSE AgreesOn(index, id) /\ (ops[s].pc = "files" => AgreesOn(ops[s].idx, id))
                      => AgreesOn(index', id)
    <3>1. ops[s].idx = index
      BY <1>1, <2>1, <2>3
    <3>2. CASE id = ops[s].id
      BY <2>1, <2>2, <2>3, <3>2 DEF Reflects, AgreesOn
    <3>3. CASE id # ops[s].id
      BY <2>1, <2>3, <3>1, <3>3 DEF AgreesOn
    <3> QED BY <3>2, <3>3
  <2> QED BY <1>0, <2>1, <2>2, <2>3, FollowMovesOn
<1>9. CASE Unlink(s)
  <2>1. /\ Keeps(ops'[s], ops[s]) /\ ops[s].pc = "unlink" /\ ops'[s].pc = "drop"
        /\ ops[s].id \in Ids /\ ops[s].kind = "delete"
    BY <1>9, UnlinkEffect
  <2>2. /\ files' = [files EXCEPT ![ops[s].id] = Gone] /\ UNCHANGED index
        /\ indexQueue' = Append(indexQueue, s)
    BY <1>9 DEF Unlink
  <2>3. files'[ops[s].id] = Gone /\ \A id \in Ids \ {ops[s].id} : files'[id] = files[id]
    BY <1>2, <2>1, <2>2
  <2>4. Reflects(s)' /\ ~InIndexQueue(s)
    BY <2>1, <2>3 DEF Reflects, Keeps, InIndexQueue
  <2> QED BY <1>0, <2>1, <2>2, <2>3, <2>4, FollowGrows
<1>10. CASE FilterEntry(s)
  <2>1. /\ ops[s].pc = "filter" /\ Runs(s) /\ End(s) /\ indexQueue' = Tail(indexQueue)
        /\ UNCHANGED files
        /\ NothingFailed' /\ ops[s].idx = index =>
              /\ Entries(index') = Entries(index) \ {ops[s].id}
              /\ \A i \in Entries(index) \ {ops[s].id} : index'[i] = index[i]
    BY <1>10, FilterEffect
  <2>2. ops'[s].pc = "done" /\ ops[s].kind = "delete"
    BY <2>1, EndEffect, OpTypes DEF End, Idles
  <2>3. ASSUME NothingFailed', NEW id \in OnDisk
        PROVE  IF id = ops[s].id THEN Reflects(s) => AgreesOn(index', id)
               ELSE AgreesOn(index, id) /\ (ops[s].pc = "files" => AgreesOn(ops[s].idx, id))
                      => AgreesOn(index', id)
    <3>1. ops[s].idx = index
      BY <1>1, <2>1, <2>3
    <3>2. CASE id = ops[s].id
      BY <2>2, <3>2 DEF Reflects, OnDisk
    <3>3. CASE id # ops[s].id
      BY <2>1, <2>3, <3>1, <3>3 DEF AgreesOn
    <3> QED BY <3>2, <3>3
  <2> QED BY <1>0, <2>1, <2>2, <2>3, FollowMovesOn
<1>11. CASE MarkLoad(s)
  <2>1. ops[s].pc = "load" /\ UNCHANGED <<files, index, indexQueue>>
    BY <1>11 DEF MarkLoad, At, diskVars
  <2>2. ~InIndexQueue(s)
    BY <2>1 DEF InIndexQueue
  <2>3. CASE /\ files[ops[s].id] \notin {Fresh, Gone}
             /\ ops' = [ops EXCEPT ![s].rec = files[ops[s].id] \cup {ops[s].kind}, ![s].pc = "file"]
    <3>1. ops'[s].pc = "file"
      BY <2>1, <2>3, LoadEffect
    <3> QED BY <1>3, <2>1, <2>2, <3>1 DEF InIndexQueue
  <2> QED BY <1>4, <1>11, <2>1, <2>2, <2>3 DEF MarkLoad
<1>12. CASE ListCheck(s)
  <2>1. /\ Keeps(ops'[s], ops[s]) /\ ops[s].pc = "check" /\ ops[s].kind = "list"
        /\ UNCHANGED <<files, index>>
        /\ \/ ops'[s].pc \in {"listed", "read"} /\ UNCHANGED indexQueue
           \/ ops'[s].pc = "scan" /\ indexQueue' = Append(indexQueue, s)
    BY <1>12, ListCheckEffect DEF diskVars
  <2>2. ~InIndexQueue(s) /\ ops[s].id = "none"
    BY <2>1 DEF InIndexQueue, StoreTypes, OpOK
  <2>3. CASE ops'[s].pc \in {"listed", "read"} /\ UNCHANGED indexQueue
    BY <1>3, <2>1, <2>2, <2>3 DEF InIndexQueue
  <2>4. CASE ops'[s].pc = "scan" /\ indexQueue' = Append(indexQueue, s)
    BY <1>0, <1>2, <2>1, <2>2, <2>4, FollowGrows
  <2> QED BY <2>1, <2>3, <2>4
<1>13. CASE Scan(s)
  <2>1. /\ Keeps(ops'[s], ops[s]) /\ ops[s].pc = "scan" /\ ops'[s].pc = "files" /\ ops'[s].idx = NoIndex
    BY <1>13, ScanEffect
  <2>2. UNCHANGED <<files, index, indexQueue>>
    BY <1>13 DEF Scan, diskVars
  <2>3. InIndexQueue(s) /\ InIndexQueue(s)' /\ \A id \in OnDisk : AgreesOn(ops'[s].idx, id)
    BY <2>1, EntriesOf DEF InIndexQueue, AgreesOn
  <2> QED BY <1>0, <2>1, <2>2, <2>3, FollowRests
<1>14. ASSUME NEW i \in Ids, ScanFile(s, i) PROVE IndexFollows'
  <2>1. /\ Keeps(ops'[s], ops[s]) /\ ops[s].pc \in {"files", "read"} /\ ops'[s].pc = ops[s].pc
        /\ UNCHANGED <<files, index, indexQueue>>
        /\ \/ ops'[s].idx = ops[s].idx
           \/ /\ i \in OnDisk
              /\ Entries(ops'[s].idx) = Entries(ops[s].idx) \cup {i}
              /\ ops'[s].idx[i] = Summary(files[i])
              /\ \A k \in Entries(ops[s].idx) \ {i} : ops'[s].idx[k] = ops[s].idx[k]
    BY <1>14, ScanFileEffect DEF diskVars
  <2>2. InIndexQueue(s)' <=> InIndexQueue(s)
    BY <2>1 DEF InIndexQueue
  <2>3. ASSUME NEW id \in OnDisk, AgreesOn(ops[s].idx, id) PROVE AgreesOn(ops'[s].idx, id)
    <3>1. CASE ops'[s].idx = ops[s].idx
      BY <2>3, <3>1
    <3>2. CASE ops'[s].idx # ops[s].idx
      BY <2>1, <2>3, <3>2 DEF AgreesOn
    <3> QED BY <3>1, <3>2
  <2> QED BY <1>0, <2>1, <2>2, <2>3, FollowRests
<1>15. CASE RebuildIndex(s)
  <2>1. /\ ops[s].pc = "files" /\ ops[s].kind = "list" /\ indexQueue' = Tail(indexQueue)
        /\ ops'[s].pc = "listed" /\ UNCHANGED files
        /\ NothingFailed' => index' = ops[s].idx
    BY <1>15, RebuildEffect
  <2>2. ops[s].id = "none" /\ Runs(s)
    BY <1>1, <2>1 DEF StoreTypes, OpOK, WritesIndex
  <2>3. \A id \in OnDisk : id # ops[s].id
    BY <1>2, <2>2 DEF OnDisk
  <2> QED BY <1>0, <2>1, <2>2, <2>3, FollowMovesOn
<1>16. CASE ListRead(s)
  <2>1. /\ ops[s].pc = "read" /\ ops'[s].pc = "listed" /\ UNCHANGED <<files, index, indexQueue>>
    BY <1>16, ListReadEffect DEF diskVars
  <2> QED BY <1>3, <2>1 DEF InIndexQueue
<1> QED BY <1>5, <1>6, <1>7, <1>8, <1>9, <1>10, <1>11, <1>12, <1>13, <1>14, <1>15, <1>16 DEF OpStep

(* A new operation waits for no index yet.                                 *)
LEMMA StartFollows ==
    ASSUME StoreTypes, IndexQueueOK, IndexFollows, NEW s \in Slots, StartStep(s), Rest(s),
           ops[s].pc = "done"
    PROVE  IndexFollows'
<1>1. UNCHANGED <<files, index>> /\ BudgetMoves /\ ops'[s].pc \in {"file", "load", "unlink", "check"}
  BY StartEffect
<1>2. UNCHANGED indexQueue
  <2>1. ASSUME NEW id \in Ids, CreateStart(s, id) \/ DeleteStart(s, id) PROVE UNCHANGED indexQueue
    BY <2>1 DEF CreateStart, DeleteStart
  <2>2. ASSUME NEW mark \in MarkKinds, MarkStart(s, mark) PROVE UNCHANGED indexQueue
    BY <2>2 DEF MarkStart
  <2>3. CASE EditStart(s) \/ ListStart(s)
    BY <2>3 DEF EditStart, ListStart
  <2> QED BY <2>1, <2>2, <2>3 DEF StartStep
<1>3. ~InIndexQueue(s) /\ ~InIndexQueue(s)' /\ ops'[s].pc \notin {"put", "filter", "files"}
  BY <1>1 DEF InIndexQueue
<1> QED BY <1>1, <1>2, <1>3, FollowRests

-----------------------------------------------------------------------------
(* The invariant.                                                          *)

(* It holds of an empty folder.                                            *)
LEMMA StoreInvInit == RunInit => StoreInv
<1> SUFFICES ASSUME RunInit PROVE StoreInv
  OBVIOUS
<1>1. /\ files = [id \in Ids |-> Fresh] /\ index = NoIndex /\ page = NoPage
      /\ ops = [s \in Slots |-> NoOp] /\ runQueue = [id \in Ids |-> <<>>] /\ indexQueue = <<>>
      /\ marked = [id \in Ids |-> {}]
      /\ budget = [edits |-> MaxEdits, deletes |-> MaxDeletes, failures |-> MaxFailures,
                   crashes |-> MaxCrashes]
  BY DEF RunInit, Slots
<1>2. {MaxEdits, MaxDeletes, MaxFailures, MaxCrashes} \subseteq Nat
  BY RunStoreAssumption
<1>3. \A s \in Slots : /\ ops[s] \in OpRecords /\ ops[s].kind = "none" /\ ops[s].pc = "done"
                       /\ ops[s].kept = {}
  BY <1>1, NoOpFields
<1>4. StoreTypes
  <2>1. BudgetOK
    BY <1>1, <1>2 DEF BudgetOK
  <2>2. ops \in [Slots -> OpRecords] /\ \A s \in Slots : OpOK(ops[s])
    BY <1>1, <1>3, Records DEF OpOK
  <2>3. index \in Indexes
    BY <1>1, EntriesOf
  <2> QED BY <1>1, <2>1, <2>2, <2>3 DEF StoreTypes, FilesOK, PageOK
<1>5. \A s \in Slots : ~InIndexQueue(s) /\ ~WritesIndex(s) /\ \A id \in Ids : ~IsMark(s, id)
  BY <1>3, Records DEF InIndexQueue, WritesIndex, IsMark
<1>6. IndexQueueOK /\ RunQueuesOK
  <2>1. QueueOf(<<>>, {s \in Slots : InIndexQueue(s)})
    BY <1>5 DEF QueueOf, IsInjective, Range
  <2>2. \A id \in Ids : QueueOf(<<>>, {s \in Slots : IsMark(s, id)})
    BY <1>5 DEF QueueOf, IsInjective, Range
  <2> QED BY <1>1, <1>5, <2>1, <2>2 DEF IndexQueueOK, RunQueuesOK, RunQueueOK
<1>7. \A s \in Slots : ListOK(s) /\ CreatesOnce(s)
  BY <1>3, Records DEF ListOK, CreatesOnce, At
<1>8. MarksKept
  BY <1>1, <1>3, Records DEF MarksKept, MarkKept
<1>9. IndexFollows
  <2>1. \A s \in Slots : ~IsLast(s)
    BY <1>1 DEF IsLast
  <2>2. OnDisk = {}
    BY <1>1 DEF OnDisk
  <2> QED BY <1>3, <2>1, <2>2 DEF IndexFollows, At
<1> QED BY <1>4, <1>6, <1>7, <1>8, <1>9 DEF StoreInv

(* Opening the page changes nothing but the page.                          *)
LEMMA StoreInvPage ==
    ASSUME StoreInv, UNCHANGED <<files, index, ops, runQueue, indexQueue, marked, budget>>, PageOK'
    PROVE  StoreInv'
<1>1. StoreTypes'
  BY DEF StoreInv, StoreTypes, FilesOK, BudgetOK
<1>2. IndexQueueOK' /\ RunQueuesOK'
  BY DEF StoreInv, IndexQueueOK, RunQueuesOK, RunQueueOK, QueueOf, InIndexQueue, WritesIndex, Runs,
         IsMark, HasLoaded
<1>3. \A s \in Slots : ListOK(s)' /\ CreatesOnce(s)'
  BY DEF StoreInv, ListOK, CreatesOnce, At, OnDisk
<1>4. MarksKept'
  BY DEF StoreInv, MarksKept, MarkKept, Unedited, At, HasLoaded, OnDisk
<1>5. IndexFollows'
  BY DEF StoreInv, IndexFollows, NothingFailed, IsLast, Reflects, Pending, InIndexQueue, AgreesOn,
         At, OnDisk
<1> QED BY <1>1, <1>2, <1>3, <1>4, <1>5 DEF StoreInv

(* Every step keeps it: those of an operation, the page and its close.     *)
LEMMA StoreInvStep == StoreInv /\ [RunNext]_runVars => StoreInv'
<1> SUFFICES ASSUME StoreInv, [RunNext]_runVars PROVE StoreInv'
  OBVIOUS
<1>0. /\ StoreTypes /\ IndexQueueOK /\ RunQueuesOK /\ ListsOK /\ RunsOK /\ MarksKept /\ IndexFollows
      /\ DOMAIN ops = Slots
  BY DEF StoreInv, StoreTypes, ListsOK, RunsOK
<1>1. ASSUME StoreTypes', IndexQueueOK', RunQueuesOK', ListsOK', RunsOK', MarksKept', IndexFollows'
      PROVE  StoreInv'
  BY <1>1 DEF StoreInv, ListsOK, RunsOK
<1>2. ASSUME NEW s \in Slots, OpStep(s) PROVE StoreInv'
  <2>1. StoreTypes' /\ IndexQueueOK' /\ RunQueuesOK' /\ Rest(s)
    BY <1>0, <1>2, StepTypes, StepQueues
  <2>2. ListsOK' /\ RunsOK' /\ MarksKept' /\ IndexFollows'
    BY <1>0, <1>2, <2>1, ListsStay, RunsStay, MarksStay, FollowsStay
  <2> QED BY <1>1, <2>1, <2>2
<1>3. ASSUME NEW s \in Slots, StartStep(s) PROVE StoreInv'
  <2>1. StoreTypes' /\ IndexQueueOK' /\ RunQueuesOK' /\ Rest(s) /\ ops[s].kind = "none" /\ ops[s].pc = "done"
    BY <1>0, <1>3, StartTypes, StartQueues
  <2>2. ListsOK' /\ RunsOK' /\ MarksKept' /\ IndexFollows'
    BY <1>0, <1>3, <2>1, StartLists, StartRuns, StartMarks, StartFollows
  <2> QED BY <1>1, <2>1, <2>2
<1>4. ASSUME NEW id \in Ids, OpenPage(id) PROVE StoreInv'
  <2>1. PageOK'
    BY <1>0, <1>4, OpenTypes DEF StoreTypes
  <2>2. UNCHANGED <<files, index, ops, runQueue, indexQueue, marked, budget>>
    BY <1>4 DEF OpenPage, diskVars
  <2> QED BY <2>1, <2>2, StoreInvPage
<1>5. CASE Crash
  <2>1. /\ StoreTypes' /\ ~NothingFailed' /\ (Unedited' => Unedited)
        /\ \A s \in Slots : Idles(s)
        /\ UNCHANGED <<files, index, marked>>
    BY <1>0, <1>5, CrashEffect
  <2>2. IndexQueueOK' /\ RunQueuesOK'
    BY <1>0, <1>5, CrashQueues
  <2>3. ListsOK' /\ RunsOK'
    BY <2>1, Records DEF Idles, ListsOK, ListOK, RunsOK, CreatesOnce, At
  <2>4. MarksKept'
    <3>1. \A s \in Slots : MarkKept(s)'
      BY <2>1, Records DEF Idles, MarkKept
    <3> QED BY <1>0, <2>1, <3>1 DEF MarksKept
  <2>5. IndexFollows'
    BY <2>1 DEF IndexFollows
  <2> QED BY <1>1, <2>1, <2>2, <2>3, <2>4, <2>5
<1>6. CASE UNCHANGED runVars
  <2>1. UNCHANGED <<files, index, page, ops, runQueue, indexQueue, marked, budget>>
    BY <1>6 DEF runVars, diskVars
  <2>2. PageOK'
    BY <1>0, <2>1 DEF StoreTypes, PageOK
  <2> QED BY <2>1, <2>2, StoreInvPage
<1> QED BY <1>0, <1>2, <1>3, <1>4, <1>5, <1>6 DEF RunNext

(* The store's inductive invariant holds in every state of every run of    *)
(* the specification.                                                      *)
THEOREM StoreInvHolds == RunSpec => []StoreInv
  BY StoreInvInit, StoreInvStep, PTL DEF RunSpec

-----------------------------------------------------------------------------
(* What the runs check.                                                    *)

(* No queue holds an operation twice, and files, index and marks have      *)
(* their shapes.                                                           *)
LEMMA ShapesHold == StoreInv => RunTypeOK
<1> SUFFICES ASSUME StoreInv PROVE RunTypeOK
  OBVIOUS
<1>1. \A id \in Ids : files[id] \in {Fresh, Gone} \/ files[id] \subseteq Marks
  BY DEF StoreInv, StoreTypes, FilesOK
<1>2. index = NoIndex \/ DOMAIN index \subseteq Ids
  BY EntriesOf DEF StoreInv, StoreTypes
<1>3. IsInjective(indexQueue) /\ \A id \in Ids : IsInjective(runQueue[id])
  BY DEF StoreInv, IndexQueueOK, RunQueuesOK, RunQueueOK, QueueOf
<1>4. \A id \in Ids : marked[id] \subseteq Marks
  BY DEF StoreInv, StoreTypes
<1> QED BY <1>1, <1>2, <1>3, <1>4 DEF RunTypeOK

(* Where only listings are in flight no task is about to change an entry.  *)
LEMMA IndexHolds == StoreInv /\ NothingFailed => IndexIsCurrent
<1> SUFFICES ASSUME StoreInv, NothingFailed, Quiet, index # NoIndex, DOMAIN index = OnDisk,
                    NEW id \in OnDisk
             PROVE  index[id] = Summary(files[id])
  BY DEF IndexIsCurrent
<1>1. DOMAIN ops = Slots /\ id \in Ids /\ "none" \notin Ids
  BY RunStoreAssumption DEF StoreInv, StoreTypes, OnDisk
<1>2. ~Pending(id)
  <2>1. ASSUME NEW s \in Slots, InIndexQueue(s), ops[s].id = id PROVE FALSE
    <3>1. ops[s].kind \in {"none", "list"} /\ OpOK(ops[s])
      BY <1>1 DEF Quiet, StoreInv, StoreTypes
    <3>2. ops[s].kind = "list"
      BY <2>1, <3>1 DEF OpOK, InIndexQueue
    <3>3. ops[s].id = "none"
      BY <3>1, <3>2 DEF OpOK
    <3> QED BY <1>1, <2>1, <3>3
  <2> QED BY <2>1 DEF Pending
<1>3. AgreesOn(index, id)
  BY <1>2 DEF StoreInv, IndexFollows
<1> QED BY <1>3 DEF AgreesOn, Entries

(* A run that stays in the folder is in every listing taken meanwhile that *)
(* could read its file, whatever failed before, and until a file access    *)
(* fails or the page is closed the index a dashboard uses agrees with the  *)
(* files whenever no mutation is in flight.                                *)
THEOREM RunRecordsSound == RunSpec => []RecordsAreSound
<1>1. StoreInv => RecordsAreSound
  <2>1. StoreInv => EveryRunListed
    BY DEF StoreInv, StoreTypes, EveryRunListed, ListOK
  <2> QED BY <2>1, ShapesHold, IndexHolds DEF RecordsAreSound
<1> QED BY <1>1, StoreInvHolds, PTL

(* A notification or a claim the page was told is recorded is in the file, *)
(* whatever fails and however marks overlap, until the memo is edited.     *)
THEOREM RecordedMarksStay == RunSpec => []UneditedMarksStay
<1>1. StoreInv => UneditedMarksStay
  BY DEF StoreInv, MarksKept, UneditedMarksStay, NoMarkLost, OnDisk
<1> QED BY <1>1, StoreInvHolds, PTL
=============================================================================
