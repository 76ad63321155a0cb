------------------------------ MODULE NoteSync ------------------------------
(***************************************************************************)
(* The mobile client's note synchronisation: a note that is saved before   *)
(* its leaf index is known (status pending, leafIndex -1) is promoted to   *)
(* active when its commitment is among the scanner's leaves, with the      *)
(* position it has there (mobile/src/lib/noteSync.ts, syncPendingNotes of  *)
(* NoteStorageService.ts).  Every commitment of the instance belongs to    *)
(* the wallet.                                                             *)
(***************************************************************************)
EXTENDS CommitmentScan

VARIABLES
    noteStore,      \* commitment -> [status, leafIndex]
    sync        \* the synchronisation in flight, one per address

syncVars == <<noteStore, sync>>
syncAll == <<scanAll, syncVars>>

NoIndex == -1
NotStored == [status |-> Absent, leafIndex |-> NoIndex]
Pending == [status |-> "pending", leafIndex |-> NoIndex]
NoSync == [pc |-> "idle", stale |-> {}, leaves |-> <<>>]

SyncInit ==
    /\ ScanInit
    /\ noteStore = [l \in Leaves |-> NotStored]
    /\ sync = NoSync

Stored(l) == noteStore[l] # NotStored

\* saveNote of a change note, or of a deposit whose event was not in the
\* receipt.
SaveNote(l) ==
    /\ ~Stored(l)
    /\ noteStore' = [noteStore EXCEPT ![l] = Pending]
    /\ UNCHANGED <<scanAll, sync>>

\* The notes that a synchronisation looks for.
Stale == {l \in Leaves : noteStore[l] = Pending}

\* getAllNotes, then the wait for the leaves; nothing is fetched when no note
\* is stale.
SyncStart ==
    /\ sync.pc = "idle" /\ Stale # {}
    /\ sync' = [NoSync EXCEPT !.pc = "leaves", !.stale = Stale]
    /\ UNCHANGED <<scanAll, noteStore>>

\* getCommitmentLeaves answers with the result in memory.
SyncLeaves ==
    /\ sync.pc = "leaves" /\ fresh
    /\ sync' = [sync EXCEPT !.pc = "write", !.leaves = memCache]
    /\ UNCHANGED <<scanAll, noteStore>>

\* leafByCommit: the position of a commitment, the last one when it occurs
\* more than once.
leafByCommit(leaves, l) ==
    CHOOSE i \in DOMAIN leaves : leaves[i] = l /\ \A j \in DOMAIN leaves : leaves[j] = l => j <= i

Found == {l \in sync.stale : l \in Range(sync.leaves)}

\* A position counted from 1.
PromotedFromOne(l) == [status |-> "active", leafIndex |-> leafByCommit(sync.leaves, l)]

Promoted(l) == [status |-> "active", leafIndex |-> leafByCommit(sync.leaves, l) - 1]

\* One note is written back; each write is an await of its own.
SyncWrite ==
    /\ sync.pc = "write"
    /\ \/ /\ Found = {}
          /\ sync' = NoSync
          /\ UNCHANGED noteStore
       \/ \E l \in Found :
            /\ noteStore' = [noteStore EXCEPT ![l] = Promoted(l)]
            /\ sync' = [sync EXCEPT !.stale = @ \ {l}]
    /\ UNCHANGED scanAll

\* A write throws, or the app is closed.
SyncFails ==
    /\ failures > 0 /\ sync.pc # "idle"
    /\ sync' = NoSync
    /\ failures' = failures - 1
    /\ UNCHANGED <<leafChainVars, persisted, memCache, fresh, scan, noteStore>>

SyncStep == (\E l \in Leaves : SaveNote(l)) \/ SyncStart \/ SyncLeaves \/ SyncWrite \/ SyncFails

SyncNext == (ScanNext /\ UNCHANGED syncVars) \/ SyncStep

\* Screens start a synchronisation on every focus; the scanner it waits for
\* answers.  A result is fresh again and again, and some call finds it so.
SyncFairness ==
    /\ WF_syncAll(StartScan /\ UNCHANGED syncVars) /\ WF_syncAll(ScanConfirmed /\ UNCHANGED syncVars)
    /\ WF_syncAll(ScanTail /\ UNCHANGED syncVars) /\ WF_syncAll(Expire /\ UNCHANGED syncVars)
    /\ WF_syncAll(SyncStart) /\ SF_syncAll(SyncLeaves) /\ WF_syncAll(SyncWrite)

SyncSpec == SyncInit /\ [][SyncNext]_syncAll /\ SyncFairness

-----------------------------------------------------------------------------

\* A note whose commitment stays on the chain becomes spendable.
LandedNoteBecomesActive ==
    \A l \in Leaves :
        (Stored(l) /\ l \in Range(ChainLeaves)) ~>
            (l \notin Range(ChainLeaves) \/ noteStore[l].status = "active")

\* An active note has the leaf index of its commitment in the canonical tree:
\* proofs are made for that position, and no later step corrects it.  It takes
\* a chain that only grows, seen through replicas that do not lag.
ActiveNoteIsAtItsIndex ==
    (reorgs = MaxLeafReorgs /\ lag = 0) =>
        \A l \in Leaves :
            noteStore[l].status = "active" =>
                noteStore[l].leafIndex + 1 \in DOMAIN ChainLeaves /\ ChainLeaves[noteStore[l].leafIndex + 1] = l

\* After a reorganisation within the confirmations the notes heal with the
\* scan: in the end every active note on the chain has its index there.
NoteIndexSelfHeals ==
    <>[](\A l \in Range(ChainLeaves) :
            noteStore[l].status = "active" =>
                noteStore[l].leafIndex + 1 \in DOMAIN ChainLeaves /\ ChainLeaves[noteStore[l].leafIndex + 1] = l)

=============================================================================
