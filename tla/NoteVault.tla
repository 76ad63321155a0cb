----------------------------- MODULE NoteVault ------------------------------
(***************************************************************************)
(* The note vault of the web applications: the React provider that holds   *)
(* the notes (packages/sdk/src/react/vaultProvider.tsx) over the adapter   *)
(* that keeps each note as a file in the user's folder (packages/sdk/src/  *)
(* notes/folderAdapter.ts).  A note is rewritten under a new file name     *)
(* before its old file goes; a switch of account or chain makes a new      *)
(* adapter and loads everything again while operations begun before it go  *)
(* on against the old one.  A note whose file is lost is lost money.       *)
(***************************************************************************)
EXTENDS Integers, FiniteSets

CONSTANTS
    Ids,            \* notes, by the id made from their commitment
    WaitsForLoad,   \* whether the application offers a deposit only once the
                    \* vault is loaded (Pay does, Pro does not)
    MaxOps,         \* operations that may overlap
    MaxVaultSwitches,   \* bound: switches of account
    MaxFiles,       \* bound: note files ever written
    MaxFailures,    \* bound: deletions that fail
    MaxCrashes      \* bound: page reloads

ASSUME VaultAssumption ==
    /\ {MaxOps, MaxFiles} \subseteq Nat \ {0}
    /\ {MaxVaultSwitches, MaxFailures, MaxCrashes} \subseteq Nat
    /\ WaitsForLoad \in BOOLEAN

VARIABLES
    disk,           \* the note files
    written,        \* how many files were ever written: the next name
    cache,          \* per adapter: the file names it knows of each note
    gen,            \* the current adapter
    notes, mirror,  \* the provider's notes, and the copy an effect takes of them
    removedIds,     \* ids remove was called for since the last load
    ops,            \* operations in flight
    fate,           \* what became of each deposit on the chain
    added, gone,    \* notes whose add, whose remove returned
    faults

vaultVars == <<disk, written, cache, gen, notes, mirror, removedIds, ops, fate, added, gone, faults>>

\* The home adapters see these notes, the others (another account) do not; the
\* first adapter and every second one after it is a home one.
Gens == 1 .. 1 + MaxVaultSwitches + 2 * MaxCrashes
Home(g) == g % 2 = 1

Note(id, leaf, failed) == [id |-> id, leaf |-> leaf, failed |-> failed]
NoOp == [kind |-> "none", id |-> "none", gen |-> 0, note |-> Note("none", FALSE, FALSE),
         names |-> {}, loaded |-> {}, pc |-> "done"]

Opened ==
    /\ disk = {} /\ written = 0
    /\ cache = [g \in Gens |-> [id \in Ids |-> {}]]
    /\ gen = 1
    /\ notes = {} /\ mirror = {} /\ removedIds = {}
    /\ ops = [s \in 1 .. MaxOps |->
                 IF s = 1 THEN [NoOp EXCEPT !.kind = "load", !.gen = 1, !.pc = "list"] ELSE NoOp]
    /\ fate = [id \in Ids |-> "none"]
    /\ added = {} /\ gone = {}

Faults(switches, failures, crashes) == [switches |-> switches, failures |-> failures, crashes |-> crashes]

VaultInit == Opened /\ faults = Faults(MaxVaultSwitches, MaxFailures, MaxCrashes)

OpAt(s, pc) == ops[s].pc = pc
OpGoto(s, pc) == ops' = [ops EXCEPT ![s].pc = pc]
End(s) == ops' = [ops EXCEPT ![s] = NoOp]
HasId(set, id) == \E n \in set : n.id = id
WithoutId(set, id) == {n \in set : n.id # id}
TheNote(set, id) == CHOOSE n \in set : n.id = id
FilesOf(id) == {f.name : f \in {g \in disk : g.note.id = id}}

-----------------------------------------------------------------------------
(* put of the adapter: the new file, then the old ones go. *)

Save(s) ==
    /\ OpAt(s, "save") /\ written < MaxFiles
    /\ LET op == ops[s] IN
        /\ disk' = disk \cup {[name |-> written + 1, note |-> op.note]}
        /\ cache' = [cache EXCEPT ![op.gen][op.id] = {written + 1}]
        /\ ops' = [ops EXCEPT ![s].names = cache[op.gen][op.id],
                              ![s].pc = IF cache[op.gen][op.id] = {} THEN "put" ELSE "clean"]
    /\ written' = written + 1
    /\ UNCHANGED <<gen, notes, mirror, removedIds, fate, added, gone, faults>>

\* Files that cannot be deleted are left behind.
Delete(names, kept) ==
    /\ kept \subseteq names /\ Cardinality(kept) <= faults.failures
    /\ disk' = {f \in disk : f.name \notin names \ kept}
    /\ faults' = [faults EXCEPT !.failures = @ - Cardinality(kept)]

Clean(s) ==
    /\ OpAt(s, "clean")
    /\ \E kept \in SUBSET ops[s].names : Delete(ops[s].names, kept)
    /\ ops' = [ops EXCEPT ![s].names = {}, ![s].pc = "put"]
    /\ UNCHANGED <<written, cache, gen, notes, mirror, removedIds, fate, added, gone>>

-----------------------------------------------------------------------------
(* add: the note of a deposit that was just broadcast. *)

Broadcast(s, id) ==
    /\ ops[s] = NoOp /\ Home(gen) /\ fate[id] = "none"
    /\ WaitsForLoad => \A t \in DOMAIN ops : ~(ops[t].kind = "load" /\ ops[t].gen = gen)
    /\ fate' = [fate EXCEPT ![id] = "pending"]
    /\ ops' = [ops EXCEPT ![s] = [NoOp EXCEPT !.kind = "add", !.id = id, !.gen = gen,
                                              !.note = Note(id, FALSE, FALSE), !.pc = "save"]]
    /\ UNCHANGED <<disk, written, cache, gen, notes, mirror, removedIds, added, gone, faults>>

\* After a switch the note is not put among the notes of the new adapter.
AddEnd(s) ==
    /\ ops[s].kind = "add" /\ OpAt(s, "put")
    /\ notes' = IF gen = ops[s].gen THEN notes \cup {ops[s].note} ELSE notes
    /\ added' = added \cup {ops[s].id}
    /\ End(s)
    /\ UNCHANGED <<disk, written, cache, gen, mirror, removedIds, fate, gone, faults>>

\* The deposit is mined or reverts.
Resolve(id) ==
    /\ fate[id] = "pending"
    /\ \E f \in {"landed", "reverted"} : fate' = [fate EXCEPT ![id] = f]
    /\ UNCHANGED <<disk, written, cache, gen, notes, mirror, removedIds, ops, added, gone, faults>>

-----------------------------------------------------------------------------
(* setLeafIndex, called by the reconciler, and markFailed, by the detector of
   phantom deposits; both are patchNote. *)

Patched(n) == [n EXCEPT !.leaf = @ \/ fate[n.id] = "landed", !.failed = @ \/ fate[n.id] = "reverted"]

PatchStart(s, id) ==
    /\ ops[s] = NoOp
    /\ fate[id] \in {"landed", "reverted"}
    /\ id \notin removedIds
    /\ HasId(mirror, id) /\ Patched(TheNote(mirror, id)) # TheNote(mirror, id)
    /\ ops' = [ops EXCEPT ![s] = [NoOp EXCEPT !.kind = "patch", !.id = id, !.gen = gen,
                                              !.note = Patched(TheNote(mirror, id)), !.pc = "save"]]
    /\ UNCHANGED <<disk, written, cache, gen, notes, mirror, removedIds, fate, added, gone, faults>>

\* The write was overtaken by remove.
Overtaken(s) == ops[s].id \in removedIds \/ ~HasId(mirror, ops[s].id)

\* Without the look at the generation.
PatchEndAnyGen(s) ==
    /\ ops[s].kind = "patch" /\ OpAt(s, "put")
    /\ IF Overtaken(s) THEN OpGoto(s, "remove") /\ UNCHANGED notes
       ELSE /\ notes' = IF HasId(notes, ops[s].id) THEN WithoutId(notes, ops[s].id) \cup {ops[s].note} ELSE notes
            /\ End(s)
    /\ UNCHANGED <<disk, written, cache, gen, mirror, removedIds, fate, added, gone, faults>>

PatchEnd(s) ==
    /\ ops[s].kind = "patch" /\ OpAt(s, "put")
    /\ IF gen # ops[s].gen THEN End(s) /\ UNCHANGED notes
       ELSE IF Overtaken(s) THEN OpGoto(s, "remove") /\ UNCHANGED notes
       ELSE /\ notes' = IF HasId(notes, ops[s].id) THEN WithoutId(notes, ops[s].id) \cup {ops[s].note} ELSE notes
            /\ End(s)
    /\ UNCHANGED <<disk, written, cache, gen, mirror, removedIds, fate, added, gone, faults>>

-----------------------------------------------------------------------------
(* remove, called when the note is spent on the chain. *)

\* The handler that spends a note holds the vault it began with.
SpendStart(s, id) ==
    /\ ops[s] = NoOp /\ fate[id] = "landed"
    /\ \E n \in notes : n.id = id /\ n.leaf
    /\ ops' = [ops EXCEPT ![s] = [NoOp EXCEPT !.kind = "remove", !.id = id, !.gen = gen, !.pc = "chain"]]
    /\ UNCHANGED <<disk, written, cache, gen, notes, mirror, removedIds, fate, added, gone, faults>>

Spent(s) ==
    /\ OpAt(s, "chain") /\ fate[ops[s].id] = "landed"
    /\ fate' = [fate EXCEPT ![ops[s].id] = "spent"]
    /\ removedIds' = removedIds \cup {ops[s].id}
    /\ OpGoto(s, "remove")
    /\ UNCHANGED <<disk, written, cache, gen, notes, mirror, added, gone, faults>>

SpendFails(s) ==
    /\ OpAt(s, "chain")
    /\ End(s)
    /\ UNCHANGED <<disk, written, cache, gen, notes, mirror, removedIds, fate, added, gone, faults>>

\* The names the adapter knows, or else those a walk of the folder finds.
RemoveFiles(s) ==
    /\ OpAt(s, "remove")
    /\ LET known == cache[ops[s].gen][ops[s].id] IN
       ops' = [ops EXCEPT ![s].names = IF known # {} THEN known ELSE FilesOf(ops[s].id),
                          ![s].pc = IF known # {} THEN "unlink" ELSE "sweep"]
    /\ UNCHANGED <<disk, written, cache, gen, notes, mirror, removedIds, fate, added, gone, faults>>

\* A file that stays is no error, except after a walk: then remove throws.
RemoveEnd(s) ==
    /\ OpAt(s, "unlink") \/ OpAt(s, "sweep")
    /\ \E kept \in SUBSET ops[s].names :
        LET removed == ops[s].kind = "remove" /\ (OpAt(s, "unlink") \/ kept = {}) IN
        /\ Delete(ops[s].names, kept)
        /\ notes' = IF removed THEN WithoutId(notes, ops[s].id) ELSE notes
        /\ gone' = IF removed THEN gone \cup {ops[s].id} ELSE gone
    /\ cache' = IF OpAt(s, "unlink") THEN [cache EXCEPT ![ops[s].gen][ops[s].id] = {}] ELSE cache
    /\ End(s)
    /\ UNCHANGED <<written, gen, mirror, removedIds, fate, added>>

-----------------------------------------------------------------------------
(* The load of a new adapter. *)

LoadList(s) ==
    /\ ops[s].kind = "load" /\ OpAt(s, "list")
    /\ ops' = [ops EXCEPT ![s].names = IF Home(ops[s].gen) THEN {f.name : f \in disk} ELSE {}, ![s].pc = "read"]
    /\ cache' = [cache EXCEPT ![ops[s].gen] = [id \in Ids |-> {}]]
    /\ UNCHANGED <<disk, written, gen, notes, mirror, removedIds, fate, added, gone, faults>>

\* Of the files of one note one with a leaf index is taken; between two that
\* both have one, or both not, the order of the folder decides.
Picks(found, f) == f.note.leaf \/ \A g \in found : g.note.id = f.note.id => ~g.note.leaf

\* One file that is listed; it may be gone by the time it is read.
LoadFile(s) ==
    /\ ops[s].kind = "load" /\ OpAt(s, "read") /\ ops[s].names # {}
    /\ \E name \in ops[s].names :
        LET found == {f \in disk : f.name = name} IN
        /\ ops' = [ops EXCEPT ![s].names = @ \ {name}, ![s].loaded = @ \cup found]
        /\ cache' = [cache EXCEPT ![ops[s].gen] =
                        [id \in Ids |-> @[id] \cup {f.name : f \in {g \in found : g.note.id = id}}]]
    /\ UNCHANGED <<disk, written, gen, notes, mirror, removedIds, fate, added, gone, faults>>

\* What was added meanwhile stays; a load that a switch overtook is dropped.
LoadEnd(s) ==
    /\ ops[s].kind = "load" /\ OpAt(s, "read") /\ ops[s].names = {}
    /\ IF gen # ops[s].gen THEN UNCHANGED notes
       ELSE LET found == ops[s].loaded
                ids == {f.note.id : f \in found}
            IN \E pick \in [ids -> found] :
                /\ \A id \in ids : pick[id].note.id = id /\ Picks(found, pick[id])
                /\ notes' = {pick[id].note : id \in ids} \cup {n \in notes : n.id \notin ids}
    /\ End(s)
    /\ UNCHANGED <<disk, written, cache, gen, mirror, removedIds, fate, added, gone, faults>>

\* The effect that copies the notes for the writers.
Mirror ==
    /\ mirror # notes
    /\ mirror' = notes
    /\ UNCHANGED <<disk, written, cache, gen, notes, removedIds, ops, fate, added, gone, faults>>

NewAdapter(g) ==
    /\ gen' = g
    /\ notes' = {} /\ mirror' = {} /\ removedIds' = {}
    /\ UNCHANGED <<disk, written, cache, fate, added, gone>>

\* The user switches to the other account, or back.
Switch(s) ==
    /\ faults.switches > 0 /\ ops[s] = NoOp
    /\ faults' = [faults EXCEPT !.switches = @ - 1]
    /\ NewAdapter(gen + 1)
    /\ ops' = [ops EXCEPT ![s] = [NoOp EXCEPT !.kind = "load", !.gen = gen + 1, !.pc = "list"]]

\* The page is reloaded, with the same account; a deposit that was broadcast
\* and whose file was not written is out of the vault's hands.
ReloadVault ==
    /\ faults.crashes > 0
    /\ faults' = [faults EXCEPT !.crashes = @ - 1]
    /\ NewAdapter(gen + 2)
    /\ ops' = [s \in DOMAIN ops |->
                  IF s = 1 THEN [NoOp EXCEPT !.kind = "load", !.gen = gen + 2, !.pc = "list"] ELSE NoOp]

\* What follows a put runs before anything else does.
Continue(s) == AddEnd(s) \/ PatchEnd(s)
NothingToContinue == \A s \in DOMAIN ops : ~OpAt(s, "put")

OpStep(s) ==
    \/ Save(s) \/ Clean(s)
    \/ Spent(s) \/ SpendFails(s) \/ RemoveFiles(s) \/ RemoveEnd(s)
    \/ LoadList(s) \/ LoadFile(s) \/ LoadEnd(s)

StartStep(s) ==
    \/ \E id \in Ids : Broadcast(s, id) \/ PatchStart(s, id) \/ SpendStart(s, id)
    \/ Switch(s)

VaultNext ==
    \/ \E s \in DOMAIN ops : Continue(s)
    \/ /\ NothingToContinue
       /\ \/ \E s \in DOMAIN ops : OpStep(s) \/ StartStep(s)
          \/ \E id \in Ids : Resolve(id)
          \/ Mirror
          \/ ReloadVault

VaultSpec == VaultInit /\ [][VaultNext]_vaultVars

-----------------------------------------------------------------------------

\* The shape of the state: file names are used once, and the provider holds
\* at most one note of an id.
NoteVaultTypeOK ==
    /\ \A f, g \in disk : f.name = g.name => f = g
    /\ \A f \in disk : f.name \in 1 .. written
    /\ \A n, m \in notes : n.id = m.id => n = m

Quiet == \A s \in DOMAIN ops : ops[s] = NoOp

\* "Lost secrets are unrecoverable": a note whose add returned has a file in
\* the folder until it is spent, whatever is switched, reloaded or fails.
NoNoteLost == \A id \in added : fate[id] # "spent" => FilesOf(id) # {}

\* "A stale write can't resurrect" a note: once remove has returned and no
\* operation is in flight, no file of the note is left.
RemovedStaysGone == Quiet => \A id \in gone : FilesOf(id) = {}

\* A leaf index that was stored is what a later load shows: no load falls
\* back to an older file of the note that a failed deletion left behind.
StoredIndexIsShown ==
    Quiet /\ Home(gen) =>
        \A n \in notes : (\E f \in disk : f.note.id = n.id /\ f.note.leaf) => n.leaf

\* With nothing in flight, the provider shows exactly the notes of the folder.
ShownIsStored == Quiet /\ Home(gen) => {n.id : n \in notes} = {f.note.id : f \in disk}

\* The faults that have not struck yet.
SameAccount == faults.switches = MaxVaultSwitches
EveryDeletionDone == faults.failures = MaxFailures
NeverReloaded == faults.crashes = MaxCrashes

\* No note is lost whatever fails.  Where deposits wait for the vault and the
\* account stays, a stored leaf index is what a load shows; while every
\* deletion succeeds and no more than two operations overlap, the provider
\* shows exactly the notes of the folder, and until the first reload a removed
\* note stays gone although writes of it were in flight.
VaultIsSound ==
    /\ NoteVaultTypeOK /\ NoNoteLost
    /\ WaitsForLoad /\ SameAccount => StoredIndexIsShown
    /\ WaitsForLoad /\ SameAccount /\ EveryDeletionDone /\ MaxOps <= 2 =>
           ShownIsStored /\ (NeverReloaded => RemovedStaysGone)
=============================================================================
