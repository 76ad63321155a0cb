------------------------------ MODULE RunStore ------------------------------
(***************************************************************************)
(* The payout records of the Pay application: one file per run in the      *)
(* user's folder and a summary index beside them (packages/sdk/src/        *)
(* storage/runs.ts), with the page that marks rows as notified or claimed  *)
(* and edits the memo (apps/pay/app/_lib/runRecord.ts, payouts/detail/     *)
(* page.tsx).  Marks go through a queue per run, index writes through one  *)
(* queue, a plain saveRun through no run queue.  Writes may fail and the   *)
(* page may be closed between any two of them.                             *)
(***************************************************************************)
EXTENDS Integers, SequencesExt

CONSTANTS
    Ids,            \* run ids
    MarkKinds,      \* the marks the page makes, of "sent" and "claimed"
    MaxOps,         \* operations that may overlap
    MaxEdits,       \* bound: memo edits and claim-link repairs
    MaxDeletes,     \* bound: deleted runs
    MaxFailures,    \* bound: file reads and writes that fail
    MaxCrashes      \* bound: how often the page is closed

ASSUME RunStoreAssumption ==
    /\ "none" \notin Ids
    /\ MarkKinds \subseteq {"sent", "claimed"}
    /\ MaxOps \in Nat \ {0}
    /\ {MaxEdits, MaxDeletes, MaxFailures, MaxCrashes} \subseteq Nat

VARIABLES
    files,          \* the record of each run: the set of marks it carries
    index,          \* the summaries of the index file, or NoIndex
    page,           \* the record the detail page shows
    ops,            \* operations in flight
    runQueue,       \* per run: the operations in its queue, the running one first
    indexQueue,     \* the same for the index
    marked,         \* marks an operation reported as recorded
    budget          \* what is left of the bounds

diskVars == <<files, index>>
runVars == <<diskVars, page, ops, runQueue, indexQueue, marked, budget>>

\* The marks of a record: its row was notified, its row was claimed, it has a
\* memo (or repaired claim links).  The summary leaves notifications out.
Marks == {"sent", "claimed", "note"}
Summary(rec) == rec \ {"sent"}

Fresh == {"fresh"}                  \* this run has never been saved
Gone == {"deleted"}
NoIndex == [x \in {"none"} |-> {}]
NoPage == [id |-> "none", rec |-> {}]
NoOp == [kind |-> "none", id |-> "none", rec |-> {}, idx |-> NoIndex, todo |-> {},
         kept |-> {}, pc |-> "done"]

OnDisk == {id \in Ids : files[id] \notin {Fresh, Gone}}
Entries(idx) == IF idx = NoIndex THEN {} ELSE DOMAIN idx

RunInit ==
    /\ files = [id \in Ids |-> Fresh]
    /\ index = NoIndex
    /\ page = NoPage
    /\ ops = [s \in 1 .. MaxOps |-> NoOp]
    /\ runQueue = [id \in Ids |-> <<>>]
    /\ indexQueue = <<>>
    /\ marked = [id \in Ids |-> {}]
    /\ budget = [edits |-> MaxEdits, deletes |-> MaxDeletes, failures |-> MaxFailures,
                 crashes |-> MaxCrashes]

At(s, pc) == ops[s].pc = pc
Goto(s, pc) == ops' = [ops EXCEPT ![s].pc = pc]
Begin(s, kind, id, rec, pc) ==
    /\ ops[s] = NoOp
    /\ ops' = [ops EXCEPT ![s] = [NoOp EXCEPT !.kind = kind, !.id = id, !.rec = rec, !.pc = pc]]

\* A task at the head of a queue runs; the queue goes on when it has settled,
\* whether it was fulfilled or rejected.
Runs(s) == indexQueue # <<>> /\ Head(indexQueue) = s
LeaveRunQueue(s) ==
    runQueue' = [id \in Ids |-> IF runQueue[id] # <<>> /\ Head(runQueue[id]) = s
                                THEN Tail(runQueue[id]) ELSE runQueue[id]]
End(s) == ops' = [ops EXCEPT ![s] = NoOp] /\ LeaveRunQueue(s)

Spend(what) == budget[what] > 0 /\ budget' = [budget EXCEPT ![what] = @ - 1]

-----------------------------------------------------------------------------
(* saveRun: the file, then the entry of the index. *)

\* The wizard saves the record of a settled payout.
CreateStart(s, id) ==
    /\ files[id] = Fresh
    /\ \A t \in DOMAIN ops : ~(ops[t].kind = "create" /\ ops[t].id = id)
    /\ Begin(s, "create", id, {}, "file")
    /\ UNCHANGED <<diskVars, page, runQueue, indexQueue, marked, budget>>

WriteFile(s) ==
    /\ At(s, "file")
    /\ files' = [files EXCEPT ![ops[s].id] = ops[s].rec]
    /\ indexQueue' = Append(indexQueue, s)
    /\ Goto(s, "upsert")
    /\ UNCHANGED <<index, page, runQueue, marked, budget>>

\* A task that threw stays at the head of its queue.
WriteFileFailsLocked(s) ==
    /\ At(s, "file")
    /\ Spend("failures")
    /\ ops' = [ops EXCEPT ![s] = NoOp]
    /\ UNCHANGED <<diskVars, page, runQueue, indexQueue, marked>>

\* saveFile throws: the caller reports the error.
WriteFileFails(s) ==
    /\ At(s, "file")
    /\ Spend("failures")
    /\ End(s)
    /\ UNCHANGED <<diskVars, page, indexQueue, marked>>

\* A task of the index queue reads the index; an unreadable one counts as none.
ReadIndex(s) ==
    /\ ops[s].pc \in {"upsert", "drop"} /\ Runs(s)
    /\ \/ ops' = [ops EXCEPT ![s].idx = index, ![s].pc = IF @ = "upsert" THEN "put" ELSE "filter"]
          /\ UNCHANGED budget
       \/ ops' = [ops EXCEPT ![s].idx = NoIndex, ![s].pc = IF @ = "upsert" THEN "put" ELSE "filter"]
          /\ Spend("failures")
    /\ UNCHANGED <<diskVars, page, runQueue, indexQueue, marked>>

\* What the caller does when saveRun has returned: a mark shows the record and
\* has been recorded, an edit reads it again.
Return(s) ==
    LET op == ops[s] IN
    /\ marked' = IF op.kind = "create" THEN marked ELSE [marked EXCEPT ![op.id] =
           CASE op.kind = "edit" -> (@ \ {"note"}) \cup (op.rec \cap {"note"})
             [] OTHER -> @ \cup {op.kind}]
    /\ page' = IF op.kind \in {"create", "edit"} \/ page.id # op.id THEN page
               ELSE [page EXCEPT !.rec = op.rec]
    /\ IF op.kind = "edit" THEN Goto(s, "refresh") /\ UNCHANGED runQueue ELSE End(s)

\* The write of the index may fail, which is logged and no more.
UpsertEntry(s) ==
    /\ At(s, "put") /\ Runs(s)
    /\ \/ /\ index' = [id \in Entries(ops[s].idx) \cup {ops[s].id} |->
                          IF id = ops[s].id THEN Summary(ops[s].rec) ELSE ops[s].idx[id]]
          /\ UNCHANGED budget
       \/ Spend("failures") /\ UNCHANGED index
    /\ indexQueue' = Tail(indexQueue)
    /\ Return(s)
    /\ UNCHANGED files

-----------------------------------------------------------------------------
(* deleteRun. *)

DeleteStart(s, id) ==
    /\ id \in OnDisk
    /\ Spend("deletes")
    /\ Begin(s, "delete", id, {}, "unlink")
    /\ UNCHANGED <<diskVars, page, runQueue, indexQueue, marked>>

\* A listing in flight need no longer show the run.
Unlink(s) ==
    /\ At(s, "unlink")
    /\ files' = [files EXCEPT ![ops[s].id] = Gone]
    /\ marked' = [marked EXCEPT ![ops[s].id] = {}]
    /\ indexQueue' = Append(indexQueue, s)
    /\ ops' = [t \in DOMAIN ops |-> [ops[t] EXCEPT !.kept = @ \ {ops[s].id},
                                                    !.pc = IF t = s THEN "drop" ELSE @]]
    /\ UNCHANGED <<index, page, runQueue, budget>>

UnlinkFails(s) ==
    /\ At(s, "unlink")
    /\ Spend("failures")
    /\ End(s)
    /\ UNCHANGED <<diskVars, page, indexQueue, marked>>

FilterEntry(s) ==
    /\ At(s, "filter") /\ Runs(s)
    /\ \/ /\ index' = IF ops[s].id \in Entries(ops[s].idx)
                      THEN [id \in Entries(ops[s].idx) \ {ops[s].id} |-> ops[s].idx[id]] ELSE index
          /\ UNCHANGED budget
       \/ Spend("failures") /\ UNCHANGED index
    /\ indexQueue' = Tail(indexQueue)
    /\ End(s)
    /\ UNCHANGED <<files, page, marked>>

-----------------------------------------------------------------------------
(* The detail page: recordSentNotification, recordClaimedRecipients, the memo
   and the repair of claim links. *)

OpenPage(id) ==
    /\ id \in OnDisk
    /\ page' = [id |-> id, rec |-> files[id]]
    /\ UNCHANGED <<diskVars, ops, runQueue, indexQueue, marked, budget>>

MarkStart(s, mark) ==
    /\ page # NoPage
    /\ Begin(s, mark, page.id, {}, "load")
    /\ runQueue' = [runQueue EXCEPT ![page.id] = Append(@, s)]
    /\ UNCHANGED <<diskVars, page, indexQueue, marked, budget>>

\* A mark that does not wait for the one before it.
MarkLoadUnqueued(s) ==
    /\ At(s, "load")
    /\ files[ops[s].id] \notin {Fresh, Gone}
    /\ ops' = [ops EXCEPT ![s].rec = files[ops[s].id] \cup {ops[s].kind}, ![s].pc = "file"]
    /\ UNCHANGED <<diskVars, page, runQueue, indexQueue, marked, budget>>

\* A record that is gone or unreadable is an error; a row that is claimed is
\* left alone.
MarkLoad(s) ==
    /\ At(s, "load") /\ Head(runQueue[ops[s].id]) = s
    /\ LET id == ops[s].id
           known == files[id] \notin {Fresh, Gone}
           skip == ops[s].kind = "claimed" /\ "claimed" \in files[id]
       IN \/ ~known /\ End(s) /\ UNCHANGED <<page, marked, budget>>
          \/ Spend("failures") /\ End(s) /\ UNCHANGED <<page, marked>>
          \/ /\ known /\ skip /\ End(s)
             /\ page' = IF page.id = id THEN [page EXCEPT !.rec = files[id]] ELSE page
             /\ marked' = [marked EXCEPT ![id] = @ \cup {"claimed"}]
             /\ UNCHANGED budget
          \/ /\ known /\ ~skip
             /\ ops' = [ops EXCEPT ![s].rec = files[id] \cup {ops[s].kind}, ![s].pc = "file"]
             /\ UNCHANGED <<page, runQueue, marked, budget>>
    /\ UNCHANGED <<diskVars, indexQueue>>

\* The memo is set or cleared on the record the page shows.
EditStart(s) ==
    /\ page # NoPage
    /\ Spend("edits")
    /\ \E rec \in {page.rec \cup {"note"}, page.rec \ {"note"}} :
           rec # page.rec /\ Begin(s, "edit", page.id, rec, "file")
    /\ UNCHANGED <<diskVars, page, runQueue, indexQueue, marked>>

\* The page shows the file as it is now, or nothing when it cannot be read.
Refresh(s) ==
    /\ At(s, "refresh")
    /\ \/ /\ page' = IF page.id # ops[s].id THEN page
                      ELSE IF ops[s].id \in OnDisk THEN [page EXCEPT !.rec = files[ops[s].id]]
                      ELSE NoPage
          /\ UNCHANGED budget
       \/ Spend("failures") /\ page' = IF page.id # ops[s].id THEN page ELSE NoPage
    /\ End(s)
    /\ UNCHANGED <<diskVars, indexQueue, marked>>

-----------------------------------------------------------------------------
(* listRuns and listRunsSummary.  An operation that lists keeps the ids of the
   files it found (rec), what it has read (idx), the files it has yet to read
   (todo) and, for the properties, the runs whose file was there all the while
   and was never unreadable to it (kept). *)

ListStart(s) ==
    /\ ops[s] = NoOp
    /\ ops' = [ops EXCEPT ![s] = [NoOp EXCEPT !.kind = "list", !.rec = OnDisk, !.kept = OnDisk, !.pc = "check"]]
    /\ UNCHANGED <<diskVars, page, runQueue, indexQueue, marked, budget>>

SameLength(idx, ids) == Cardinality(Entries(idx)) = Cardinality(ids)
IndexMatchesFiles(idx, ids) == Entries(idx) = ids

\* When the ids of the index are the ids of the files, listRunsSummary returns
\* it and listRuns reads the files it names; else, and when the index cannot be
\* read, both wait for a rebuild.
ListCheck(s) ==
    /\ At(s, "check")
    /\ \/ /\ index # NoIndex /\ IndexMatchesFiles(index, ops[s].rec)
          /\ \/ ops' = [ops EXCEPT ![s].idx = index, ![s].pc = "listed"]
             \/ ops' = [ops EXCEPT ![s].todo = Entries(index), ![s].pc = "read"]
          /\ UNCHANGED <<indexQueue, budget>>
       \/ /\ index = NoIndex \/ ~IndexMatchesFiles(index, ops[s].rec)
          /\ indexQueue' = Append(indexQueue, s)
          /\ Goto(s, "scan")
          /\ UNCHANGED budget
       \/ /\ Spend("failures")
          /\ indexQueue' = Append(indexQueue, s)
          /\ Goto(s, "scan")
    /\ UNCHANGED <<diskVars, page, runQueue, marked>>

Scan(s) ==
    /\ At(s, "scan") /\ Runs(s)
    /\ ops' = [ops EXCEPT ![s].todo = OnDisk, ![s].idx = NoIndex, ![s].pc = "files"]
    /\ UNCHANGED <<diskVars, page, runQueue, indexQueue, marked, budget>>

\* The files are read one by one, for the rebuild or for listRuns; one that is
\* gone by then, or cannot be read, is skipped.
ScanFile(s, id) ==
    /\ ops[s].pc \in {"files", "read"} /\ id \in ops[s].todo
    /\ \/ LET idx == ops[s].idx IN
          /\ ops' = [ops EXCEPT ![s].todo = @ \ {id},
                                ![s].idx = IF id \notin OnDisk THEN idx
                                           ELSE [i \in Entries(idx) \cup {id} |->
                                                    IF i = id THEN Summary(files[id]) ELSE idx[i]]]
          /\ UNCHANGED budget
       \/ /\ Spend("failures")
          /\ ops' = [ops EXCEPT ![s].todo = @ \ {id}, ![s].kept = @ \ {id}]
    /\ UNCHANGED <<diskVars, page, runQueue, indexQueue, marked>>

\* listRuns returns the records it has read.
ListRead(s) ==
    /\ At(s, "read") /\ ops[s].todo = {}
    /\ Goto(s, "listed")
    /\ UNCHANGED <<diskVars, page, runQueue, indexQueue, marked, budget>>

RebuildIndex(s) ==
    /\ At(s, "files") /\ ops[s].todo = {}
    /\ \/ index' = ops[s].idx /\ UNCHANGED budget
       \/ Spend("failures") /\ UNCHANGED index
    /\ indexQueue' = Tail(indexQueue)
    /\ Goto(s, "listed")
    /\ UNCHANGED <<files, page, runQueue, marked>>

ListEnd(s) ==
    /\ At(s, "listed")
    /\ End(s)
    /\ UNCHANGED <<diskVars, page, indexQueue, marked, budget>>

\* The page is closed or reloaded.
Crash ==
    /\ Spend("crashes")
    /\ page' = NoPage
    /\ ops' = [s \in DOMAIN ops |-> NoOp]
    /\ runQueue' = [id \in Ids |-> <<>>]
    /\ indexQueue' = <<>>
    /\ UNCHANGED <<diskVars, marked>>

OpStep(s) ==
    \/ WriteFile(s) \/ WriteFileFails(s) \/ ReadIndex(s) \/ UpsertEntry(s)
    \/ Unlink(s) \/ UnlinkFails(s) \/ FilterEntry(s)
    \/ MarkLoad(s) \/ Refresh(s)
    \/ ListCheck(s) \/ Scan(s) \/ (\E id \in Ids : ScanFile(s, id)) \/ ListRead(s)
    \/ RebuildIndex(s) \/ ListEnd(s)

StartStep(s) ==
    \/ \E id \in Ids : CreateStart(s, id) \/ DeleteStart(s, id)
    \/ \E mark \in MarkKinds : MarkStart(s, mark)
    \/ EditStart(s) \/ ListStart(s)

RunNext ==
    \/ \E s \in DOMAIN ops : OpStep(s) \/ StartStep(s)
    \/ \E id \in Ids : OpenPage(id)
    \/ Crash

RunSpec == RunInit /\ [][RunNext]_runVars

\* Storage calls return: an operation in flight goes on.
FairRunSpec == RunSpec /\ \A s \in 1 .. MaxOps : WF_runVars(OpStep(s))

-----------------------------------------------------------------------------

\* The shape of the state: records carry marks, and an operation is in at most
\* one place of a queue.
RunTypeOK ==
    /\ \A id \in Ids : files[id] \in {Fresh, Gone} \/ files[id] \subseteq Marks
    /\ index = NoIndex \/ DOMAIN index \subseteq Ids
    /\ IsInjective(indexQueue) /\ \A id \in Ids : IsInjective(runQueue[id])
    /\ \A id \in Ids : marked[id] \subseteq Marks

Quiet == \A s \in DOMAIN ops : ops[s].kind \in {"none", "list"}

\* "saveRun / deleteRun keep the index in sync after every mutation": when no
\* mutation is in flight, an index the dashboard would use (its ids are the
\* ids of the files) has the summary of every record as it is on disk.
IndexIsCurrent ==
    Quiet /\ index # NoIndex /\ DOMAIN index = OnDisk =>
        \A id \in OnDisk : index[id] = Summary(files[id])

\* A notification, a claim or a memo the page was told is recorded stays in
\* the file: no read-modify-write of the same run overwrites another.
NoMarkLost == \A id \in OnDisk : marked[id] \subseteq files[id]

\* A listing shows every run that was on disk from its start to its end unless
\* the run's own file was unreadable to that very listing ("Skips files that
\* fail to parse"): no index write that failed or was cut short before, and no
\* file another listing could not read and left out of the index, hides a run.
EveryRunListed ==
    \A s \in DOMAIN ops : At(s, "listed") => ops[s].kept \subseteq Entries(ops[s].idx)

\* Whether nothing has failed or been cut short yet, and whether no memo has
\* been edited yet.
NothingFailed == budget.failures = MaxFailures /\ budget.crashes = MaxCrashes
Unedited == budget.edits = MaxEdits

\* Every run can be listed; until the first failure or close of the page the
\* index agrees with the files whenever no mutation is in flight.
RecordsAreSound == RunTypeOK /\ EveryRunListed /\ (NothingFailed => IndexIsCurrent)

\* Until the first memo is edited no mark is lost, whatever fails.
UneditedMarksStay == Unedited => NoMarkLost

\* A queue goes on when a task in it failed: every operation ends.
EveryOperationEnds == \A s \in 1 .. MaxOps : ops[s] # NoOp ~> ops[s] = NoOp
=============================================================================
