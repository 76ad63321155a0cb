----------------------------- MODULE ClaimStore -----------------------------
(***************************************************************************)
(* The mobile client's store of claim secrets (services/PendingClaims      *)
(* Storage.ts) and the screen that claims with them (screens/ClaimScreen   *)
(* .tsx, services/ClaimService.ts).  A claim is a secret in the keychain,  *)
(* its metadata and an entry of an index in AsyncStorage; every read and   *)
(* write is an await, nothing serialises the operations, and the app may   *)
(* be closed between any two writes.  A claim that is lost before it is    *)
(* claimed on the chain is money nobody can claim.                         *)
(*                                                                         *)
(* overwritten, and seen of an operation, are history: no guard reads them.*)
(***************************************************************************)
EXTENDS Integers, SequencesExt

CONSTANTS
    Claims,                 \* claims, each known by its secret
    Legacy,                 \* the claims of the single-wallet store of the version before
    MAX_CLAIM_BATCH_SIZE,
    MaxOps,                 \* storage operations that may overlap
    MaxClosings              \* bound: how often the app is closed

ASSUME ClaimStoreAssumption ==
    /\ Legacy \subseteq Claims /\ IsFiniteSet(Legacy)
    /\ MAX_CLAIM_BATCH_SIZE \in Nat \ {0}
    /\ MaxOps \in Nat \ {0}
    /\ MaxClosings \in Nat

VARIABLES
    secrets, meta, ids,     \* the store: two sets, and the index, a sequence
    v1,                     \* the claims still in the legacy store
    migrated,               \* the migration marker
    ready,                  \* this run of the app has migrated (the latch)
    ops,                    \* storage operations in flight
    shown,                  \* the claims the screen lists
    screen,                 \* the claim the user makes with it
    claimed,                \* claims taken on the chain
    appended,               \* claims whose append returned
    overwritten,            \* claims whose index entry a write from an older copy may have dropped
    closings

storeVars == <<secrets, meta, ids, v1, migrated>>
screenVars == <<ready, ops, shown, screen>>
claimVars == <<storeVars, screenVars, claimed, appended, overwritten, closings>>

NoOp == [kind |-> "none", on |-> {}, pc |-> "done", snap |-> <<>>, seen |-> {}]
NoClaim == [pc |-> "idle", list |-> <<>>, sel |-> <<>>, rest |-> <<>>, mine |-> {}, txs |-> 0, err |-> FALSE]

ClaimInit ==
    /\ secrets = {} /\ meta = {} /\ ids = <<>>
    /\ v1 = Legacy /\ migrated = FALSE
    /\ ready = FALSE
    /\ ops = [s \in 1 .. MaxOps |-> NoOp]
    /\ shown = <<>>
    /\ screen = NoClaim
    /\ claimed = {} /\ appended = {} /\ overwritten = {}
    /\ closings = MaxClosings

\* filter: the members of a sequence that are in a set, or that are not.
Within(seq, set) == FlattenSeq([i \in DOMAIN seq |-> IF seq[i] \in set THEN <<seq[i]>> ELSE <<>>])
Without(seq, set) == Within(seq, Range(seq) \ set)

\* One more step of the operation in slot s.
Goto(s, pc) == ops' = [ops EXCEPT ![s].pc = pc]
BeginOp(s, kind, on, pc) ==
    /\ ops[s] = NoOp
    /\ ops' = [ops EXCEPT ![s] = [NoOp EXCEPT !.kind = kind, !.on = on, !.pc = pc]]
OpAt(s, kind, pc) == ops[s].kind = kind /\ ops[s].pc = pc
End(s) == ops' = [ops EXCEPT ![s] = NoOp]

\* Reads the index; what is written back later is made from this copy.
ReadIds(s, kind) ==
    /\ OpAt(s, kind, "read")
    /\ ops' = [ops EXCEPT ![s].snap = ids, ![s].seen = Range(ids), ![s].pc = "write"]
    /\ UNCHANGED <<storeVars, ready, shown, screen, claimed, appended, overwritten, closings>>

\* Writes the index: whatever entered it since the copy was read is dropped.
WriteIds(s, new) ==
    /\ ids' = new
    /\ overwritten' = overwritten \cup (Range(ids) \ ops[s].seen)

-----------------------------------------------------------------------------
(* migrateV1ToV2IfNeeded, once per run of the app and shared by its callers. *)

MigrateStart(s) ==
    /\ ~ready /\ \A t \in DOMAIN ops : ops[t] = NoOp
    /\ IF migrated \/ v1 = {}
       THEN ready' = TRUE /\ migrated' = TRUE /\ UNCHANGED ops
       ELSE BeginOp(s, "migrate", v1, "copy") /\ UNCHANGED <<ready, migrated>>
    /\ UNCHANGED <<secrets, meta, ids, v1, shown, screen, claimed, appended, overwritten, closings>>

MigrateCopy(s) ==
    /\ OpAt(s, "migrate", "copy")
    /\ secrets' = secrets \cup ops[s].on
    /\ meta' = meta \cup ops[s].on
    /\ Goto(s, "read")
    /\ UNCHANGED <<ids, v1, migrated, ready, shown, screen, claimed, appended, overwritten, closings>>

MigrateMerge(s) ==
    /\ OpAt(s, "migrate", "write")
    /\ WriteIds(s, ops[s].snap \o SetToSeq(ops[s].on \ Range(ops[s].snap)))
    /\ Goto(s, "marker")
    /\ UNCHANGED <<secrets, meta, v1, migrated, ready, shown, screen, claimed, appended, closings>>

MigrateMarker(s) ==
    /\ OpAt(s, "migrate", "marker")
    /\ migrated' = TRUE
    /\ Goto(s, "delete")
    /\ UNCHANGED <<secrets, meta, ids, v1, ready, shown, screen, claimed, appended, overwritten, closings>>

MigrateDelete(s) ==
    /\ OpAt(s, "migrate", "delete")
    /\ v1' = {}
    /\ ready' = TRUE
    /\ End(s)
    /\ UNCHANGED <<secrets, meta, ids, migrated, shown, screen, claimed, appended, overwritten, closings>>

-----------------------------------------------------------------------------
(* append, removeByIds and list. *)

\* An order is submitted or a backup restored: its claims are appended.
AppendStart(s, c) ==
    /\ ready
    /\ c \notin appended /\ c \notin Legacy
    /\ \A t \in DOMAIN ops : ops[t].kind = "append" => c \notin ops[t].on
    /\ BeginOp(s, "append", {c}, "secret")
    /\ UNCHANGED <<storeVars, ready, shown, screen, claimed, appended, overwritten, closings>>

AppendSecret(s) ==
    /\ OpAt(s, "append", "secret")
    /\ secrets' = secrets \cup ops[s].on
    /\ Goto(s, "meta")
    /\ UNCHANGED <<meta, ids, v1, migrated, ready, shown, screen, claimed, appended, overwritten, closings>>

AppendMeta(s) ==
    /\ OpAt(s, "append", "meta")
    /\ meta' = meta \cup ops[s].on
    /\ Goto(s, "read")
    /\ UNCHANGED <<secrets, ids, v1, migrated, ready, shown, screen, claimed, appended, overwritten, closings>>

AppendWrite(s) ==
    /\ OpAt(s, "append", "write")
    /\ WriteIds(s, ops[s].snap \o SetToSeq(ops[s].on))
    /\ appended' = appended \cup ops[s].on
    /\ End(s)
    /\ UNCHANGED <<secrets, meta, v1, migrated, ready, shown, screen, claimed, closings>>

\* The secrets and the metadata first ...
RemovePayload(s) ==
    /\ OpAt(s, "remove", "payload")
    /\ secrets' = secrets \ ops[s].on
    /\ meta' = meta \ ops[s].on
    /\ Goto(s, "read")
    /\ UNCHANGED <<ids, v1, migrated, ready, shown, screen, claimed, appended, overwritten, closings>>

\* ... then the index.
RemoveWrite(s) ==
    /\ OpAt(s, "remove", "write")
    /\ WriteIds(s, Without(ops[s].snap, ops[s].on))
    /\ End(s)
    /\ UNCHANGED <<secrets, meta, v1, migrated, ready, shown, screen, claimed, appended, closings>>

ListStart(s) ==
    /\ ready
    /\ BeginOp(s, "list", {}, "read")
    /\ UNCHANGED <<storeVars, ready, shown, screen, claimed, appended, overwritten, closings>>

\* The payloads are read; entries without one are pruned from the copy.
ListWrite(s) ==
    /\ OpAt(s, "list", "write")
    /\ LET whole == Within(ops[s].snap, secrets \cap meta) IN
        /\ shown' = whole
        /\ IF whole = ops[s].snap THEN End(s)
           ELSE ops' = [ops EXCEPT ![s].snap = whole, ![s].pc = "prune"]
    /\ UNCHANGED <<secrets, meta, ids, v1, migrated, ready, screen, claimed, appended, overwritten, closings>>

ListPrune(s) ==
    /\ OpAt(s, "list", "prune")
    /\ WriteIds(s, ops[s].snap)
    /\ End(s)
    /\ UNCHANGED <<secrets, meta, v1, migrated, ready, shown, screen, claimed, appended, closings>>

-----------------------------------------------------------------------------
(* handleClaim of the screen and executeBatch of the service. *)

Select ==
    /\ screen.pc = "idle"
    /\ \E S \in (SUBSET Range(shown)) \ {{}} :
        screen' = [NoClaim EXCEPT !.pc = "check", !.list = shown, !.sel = Within(shown, S)]
    /\ UNCHANGED <<storeVars, ready, ops, shown, claimed, appended, overwritten, closings>>

\* The claims already taken are left out; when none is left it is an error.
CheckStatus ==
    /\ screen.pc = "check"
    /\ LET eligible == Without(screen.sel, claimed) IN
        screen' = [screen EXCEPT !.rest = eligible, !.err = eligible = <<>>,
                                 !.pc = IF eligible = <<>> THEN "finish" ELSE "submit"]
    /\ UNCHANGED <<storeVars, ready, ops, shown, claimed, appended, overwritten, closings>>

Chunk == SubSeq(screen.rest, 1, IF Len(screen.rest) < MAX_CLAIM_BATCH_SIZE
                                THEN Len(screen.rest) ELSE MAX_CLAIM_BATCH_SIZE)
AfterChunk == SubSeq(screen.rest, Len(Chunk) + 1, Len(screen.rest))

\* A chunk is one transaction, all of it or nothing.
SubmitChunk ==
    /\ screen.pc = "submit"
    /\ Range(Chunk) \cap claimed = {}
    /\ claimed' = claimed \cup Range(Chunk)
    /\ screen' = [screen EXCEPT !.mine = @ \cup Range(Chunk), !.txs = @ + 1, !.rest = AfterChunk,
                                !.pc = IF AfterChunk = <<>> THEN "finish" ELSE "submit"]
    /\ UNCHANGED <<storeVars, ready, ops, shown, appended, overwritten, closings>>

\* The transaction reverts, or is mined but its receipt is never seen.
ChunkFails ==
    /\ screen.pc = "submit"
    /\ screen' = [screen EXCEPT !.err = TRUE, !.pc = "finish"]
    /\ \/ UNCHANGED claimed
       \/ Range(Chunk) \cap claimed = {} /\ claimed' = claimed \cup Range(Chunk)
    /\ UNCHANGED <<storeVars, ready, ops, shown, appended, overwritten, closings>>

\* Everything that was selected.
SubmittedAll == Len(screen.sel)

\* submittedCount: for a batch the committed count after an error, else the
\* number of transactions.
SubmittedCount ==
    IF Len(screen.sel) = 1 THEN IF screen.err THEN 0 ELSE 1
    ELSE IF screen.err THEN Cardinality(screen.mine) ELSE screen.txs

\* The first submittedCount of the selection are removed.
Finish(s) ==
    /\ screen.pc = "finish"
    /\ LET removed == Range(SubSeq(screen.sel, 1, SubmittedCount)) IN
        /\ shown' = IF removed = {} THEN shown ELSE Without(screen.list, removed)
        /\ IF removed = {} THEN screen' = NoClaim /\ UNCHANGED ops
           ELSE screen' = [screen EXCEPT !.pc = "removing"] /\ BeginOp(s, "remove", removed, "payload")
    /\ UNCHANGED <<storeVars, ready, claimed, appended, overwritten, closings>>

Done ==
    /\ screen.pc = "removing"
    /\ \A s \in DOMAIN ops : ops[s].kind # "remove"
    /\ screen' = NoClaim
    /\ UNCHANGED <<storeVars, ready, ops, shown, claimed, appended, overwritten, closings>>

\* Another device that has the secret claims.
OtherDeviceClaims(c) ==
    /\ c \in appended \cup Legacy /\ c \notin claimed
    /\ claimed' = claimed \cup {c}
    /\ UNCHANGED <<storeVars, screenVars, appended, overwritten, closings>>

\* The app is closed; only the storage remains.
AppClosed ==
    /\ closings > 0
    /\ closings' = closings - 1
    /\ ready' = FALSE
    /\ ops' = [s \in DOMAIN ops |-> NoOp]
    /\ shown' = <<>>
    /\ screen' = NoClaim
    /\ UNCHANGED <<storeVars, claimed, appended, overwritten>>

StoreStep(s) ==
    \/ MigrateStart(s) \/ MigrateCopy(s) \/ MigrateMerge(s) \/ MigrateMarker(s) \/ MigrateDelete(s)
    \/ \E c \in Claims : AppendStart(s, c)
    \/ AppendSecret(s) \/ AppendMeta(s) \/ AppendWrite(s)
    \/ RemovePayload(s) \/ RemoveWrite(s)
    \/ ListStart(s) \/ ListWrite(s) \/ ListPrune(s)
    \/ \E kind \in {"migrate", "append", "remove", "list"} : ReadIds(s, kind)

ScreenStep == Select \/ CheckStatus \/ SubmitChunk \/ ChunkFails \/ Done \/ \E s \in DOMAIN ops : Finish(s)

ClaimNext ==
    \/ \E s \in DOMAIN ops : StoreStep(s)
    \/ ScreenStep
    \/ \E c \in Claims : OtherDeviceClaims(c)
    \/ AppClosed

ClaimSpec == ClaimInit /\ [][ClaimNext]_claimVars

-----------------------------------------------------------------------------

\* The type invariant of the store: the index never names a claim twice.
ClaimTypeOK ==
    /\ secrets \subseteq Claims /\ meta \subseteq Claims
    /\ Range(ids) \subseteq Claims /\ IsInjective(ids)
    /\ v1 \in {{}, Legacy}
    /\ claimed \subseteq Claims /\ appended \subseteq Claims
    /\ \A s \in DOMAIN ops : ops[s].kind \in {"none", "migrate", "append", "remove", "list"}

\* "Losing a claim secret is a permanent fund-loss": a claim whose append
\* returned, or that the legacy store held, can be listed (after the
\* migration, if it has not run to its end) until it is claimed on the chain.
\* Nothing locks the index: an operation may write it from a copy read before
\* another one's entry came; no claim is lost in any other way, and none
\* loses its payloads in this one.
NoClaimLost ==
    \A c \in (appended \cup Legacy) \ claimed :
        \/ c \in secrets \cap meta \cap (Range(ids) \cup overwritten)
        \/ ~migrated /\ c \in v1

\* The removal drops the secret before the index entry: a crash in between
\* leaves no secret that no index entry leads to.
NoOrphanSecret == \A c \in appended \ (Range(ids) \cup overwritten) : c \notin secrets

\* Whatever overlaps, and wherever the app is closed between two writes: no
\* claim loses its secret, none drops out of the index and no secret is left
\* that nothing lists, but by a write of the index from an older copy.
StoreIsSound == ClaimTypeOK /\ NoClaimLost /\ NoOrphanSecret
=============================================================================
