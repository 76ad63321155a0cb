--------------------------- MODULE PayNotesProofs ---------------------------
(***************************************************************************)
(* Proofs about the notes of the web applications: what the deposits of    *)
(* the Pay application promise, and that the vault loses no note.          *)
(***************************************************************************)
EXTENDS NoteVault, DepositGuard, FiniteSetTheorems, TLAPS

-----------------------------------------------------------------------------
(* The deposits.  First the types. *)

Fates == {"none", "pending", "mined", "reverted", "gone"}
Unsent == {"new", "poll", "classify", "lookup", "confirm", "prepare", "sign"}
Places == Unsent \cup {"persist", "wait", "done"}

TxRecords == [fate : Fates, known : BOOLEAN, at : Nat]
NoteRecords == [saved : BOOLEAN, hash : BOOLEAN, aged : BOOLEAN, leaf : BOOLEAN, failed : BOOLEAN]
FlowRecords ==
    [pc : Places, account : Accounts \cup {"none"}, todo : SUBSET Attempts, asked : Attempts \cup {0},
     ambiguous : BOOLEAN, aborted : BOOLEAN, confirmed : BOOLEAN, hash : BOOLEAN,
     beside : SUBSET Attempts, ruledOut : SUBSET (Attempts \cup {0})]
Budgets == [reorgs : 0 .. MaxReorgs, switches : 0 .. MaxSwitches, reloads : 0 .. MaxReloads, errors : 0 .. MaxErrors]

GuardTyped ==
    /\ head \in Nat \ {0}
    /\ tx \in [Attempts -> TxRecords]
    /\ account \in Accounts
    /\ vault \in [Attempts -> NoteRecords]
    /\ flow \in [Attempts -> FlowRecords]
    /\ inFlight \in BOOLEAN /\ abortRef \in Attempts \cup {0} /\ parked \in Attempts \cup {0}
    /\ tree \subseteq Attempts /\ cleared \subseteq Attempts
    /\ scan \in [head : Nat, targets : SUBSET Attempts]
    /\ budget \in Budgets

(* The deposit's storage is typed at the start.                            *)
LEMMA GuardTypedInit == GuardInit => GuardTyped
<1> SUFFICES ASSUME GuardInit PROVE GuardTyped
  OBVIOUS
<1>1. NoTx \in TxRecords /\ NoNote \in NoteRecords /\ NoScan \in [head : Nat, targets : SUBSET Attempts]
  BY DEF NoTx, NoNote, NoScan, TxRecords, NoteRecords, Fates
<1>2. NoFlow \in FlowRecords
  BY DEF NoFlow, FlowRecords, Places, Unsent
<1>3. budget \in Budgets
  BY GuardAssumption DEF GuardInit, Bounds, Budgets
<1>4. tx \in [Attempts -> TxRecords] /\ vault \in [Attempts -> NoteRecords]
  BY <1>1 DEF GuardInit, Started
<1>5. flow \in [Attempts -> FlowRecords]
  BY <1>2 DEF GuardInit, Started
<1>6. scan \in [head : Nat, targets : SUBSET Attempts]
  BY <1>1 DEF GuardInit, Started
<1>7. head \in Nat \ {0} /\ account \in Accounts
  BY DEF GuardInit, Started
<1>8. inFlight \in BOOLEAN /\ abortRef \in Attempts \cup {0} /\ parked \in Attempts \cup {0}
  BY DEF GuardInit, Started
<1>9. tree \subseteq Attempts /\ cleared \subseteq Attempts
  BY DEF GuardInit, Started
<1> QED BY <1>3, <1>4, <1>5, <1>6, <1>7, <1>8, <1>9 DEF GuardTyped

(* Spending from a budget leaves a budget.                                 *)
LEMMA SpendTyped ==
    ASSUME budget \in Budgets, NEW kind \in {"reorgs", "switches", "reloads", "errors"}, Spend(kind)
    PROVE  /\ budget' \in Budgets /\ budget'[kind] = budget[kind] - 1
           /\ \A other \in {"reorgs", "switches", "reloads", "errors"} \ {kind} : budget'[other] = budget[other]
  BY GuardAssumption DEF Spend, Budgets

(* Records of attempts with some fields changed.                           *)
LEMMA FlowEdits ==
    ASSUME NEW r \in FlowRecords
    PROVE  /\ \A p \in Places : [r EXCEPT !.pc = p] \in FlowRecords
           /\ \A T \in SUBSET Attempts, R \in SUBSET (Attempts \cup {0}) :
                 [r EXCEPT !.todo = T, !.ruledOut = R] \in FlowRecords
           /\ \A T \in SUBSET Attempts, x \in BOOLEAN : [r EXCEPT !.todo = T, !.ambiguous = x] \in FlowRecords
           /\ \A k \in Attempts, p \in Places : [r EXCEPT !.asked = k, !.pc = p] \in FlowRecords
           /\ \A T \in SUBSET Attempts, R \in SUBSET (Attempts \cup {0}), x \in BOOLEAN, p \in Places :
                 [r EXCEPT !.todo = T, !.ambiguous = x, !.ruledOut = R, !.pc = p] \in FlowRecords
           /\ \A p \in Places, x \in BOOLEAN : [r EXCEPT !.pc = p, !.confirmed = x] \in FlowRecords
           /\ \A x \in BOOLEAN : [r EXCEPT !.aborted = x] \in FlowRecords
           /\ \A p \in Places, x \in BOOLEAN : [r EXCEPT !.aborted = x, !.pc = p] \in FlowRecords
           /\ \A p \in Places, x \in BOOLEAN : [r EXCEPT !.pc = p, !.hash = x] \in FlowRecords
  BY DEF FlowRecords

(* The fields of an attempt.                                               *)
LEMMA FlowFields ==
    ASSUME NEW r \in FlowRecords
    PROVE  /\ r.pc \in Places /\ r.account \in Accounts \cup {"none"} /\ r.todo \subseteq Attempts
           /\ r.asked \in Attempts \cup {0}
           /\ r.ambiguous \in BOOLEAN /\ r.aborted \in BOOLEAN /\ r.confirmed \in BOOLEAN /\ r.hash \in BOOLEAN
           /\ r.beside \subseteq Attempts /\ r.ruledOut \subseteq Attempts \cup {0}
  BY DEF FlowRecords

(* Going to another place, or ending.                                      *)
LEMMA GotoTyped ==
    ASSUME flow \in [Attempts -> FlowRecords], NEW a \in Attempts, NEW p \in Places, Goto(a, p)
    PROVE  flow' \in [Attempts -> FlowRecords]
  BY FlowEdits DEF Goto

(* Ending keeps the types.                                                 *)
LEMMA FinishTyped ==
    ASSUME flow \in [Attempts -> FlowRecords], NEW a \in Attempts, Finish(a)
    PROVE  /\ flow' \in [Attempts -> FlowRecords]
           /\ inFlight' = FALSE /\ abortRef' = 0 /\ parked' = parked
<1>1. flow' \in [Attempts -> FlowRecords]
  BY GotoTyped DEF Finish, Places
<1> QED BY <1>1 DEF Finish, ReleaseDepositLocks

(* Every step of an attempt keeps the types of flow, vault and tx.         *)
LEMMA AttemptTyped ==
    ASSUME GuardTyped, NEW a \in Attempts, AttemptStep(a)
    PROVE  GuardTyped'
<1> USE DEF GuardTyped
<1> flow[a] \in FlowRecords
  OBVIOUS
<1>0. \A p \in Unsent : p \in Places
  BY DEF Places
<1>1. CASE Click(a)
  <2> DEFINE pending == {b \in NotesOf(account) : IsPendingDeposit(b)}
             r == [NoFlow EXCEPT !.pc = IF pending = {} THEN "prepare" ELSE "poll",
                                 !.account = account, !.todo = pending,
                                 !.beside = {b \in Attempts : Active(b)}]
  <2>1. r \in FlowRecords
    <3>1. \A p \in {"prepare", "poll"}, T, S \in SUBSET Attempts :
             [NoFlow EXCEPT !.pc = p, !.account = account, !.todo = T, !.beside = S] \in FlowRecords
      BY DEF NoFlow, FlowRecords, Places, Unsent
    <3>2. {b \in Attempts : Active(b)} \in SUBSET Attempts /\ pending \in SUBSET Attempts
      BY DEF NotesOf
    <3>3. (IF pending = {} THEN "prepare" ELSE "poll") \in {"prepare", "poll"}
      OBVIOUS
    <3> HIDE DEF pending
    <3> QED BY <3>1, <3>2, <3>3
  <2>2. flow' = [flow EXCEPT ![a] = r]
    BY <1>1 DEF Click
  <2> HIDE DEF r, pending
  <2>3. flow' \in [Attempts -> FlowRecords]
    BY <2>1, <2>2
  <2> QED BY <1>1, <2>3 DEF Click, chainVars
<1>2. CASE Poll(a)
  <2>1. flow' \in [Attempts -> FlowRecords]
    BY <1>2, FinishTyped, GotoTyped, <1>0 DEF Poll, Unsent
  <2> QED BY <1>2, <2>1, FinishTyped DEF Poll, chainVars
<1>3. CASE Verdict(a)
  <2>1. flow' \in [Attempts -> FlowRecords]
    BY <1>3, FinishTyped, GotoTyped, <1>0 DEF Verdict, Unsent
  <2> QED BY <1>3, <2>1, FinishTyped DEF Verdict, chainVars
<1>4. CASE Confirm(a)
  <2>1. flow' \in [Attempts -> FlowRecords]
    BY <1>4, FlowEdits, <1>0 DEF Confirm, Unsent
  <2> QED BY <1>4, <2>1 DEF Confirm, chainVars
<1>5. CASE Decline(a)
  <2>1. flow' \in [Attempts -> FlowRecords]
    BY <1>5, GotoTyped DEF Decline, Places
  <2> QED BY <1>5, <2>1 DEF Decline, ReleaseDepositLocks, chainVars
<1>6. CASE Lookup(a)
  <2>1. flow' \in [Attempts -> FlowRecords]
    <3>1. flow[a].todo \ {flow[a].asked} \subseteq Attempts
      BY FlowFields
    <3>2. ASSUME NEW doubt \in BOOLEAN, Answered(a, doubt) PROVE flow' \in [Attempts -> FlowRecords]
      <4> DEFINE k == flow[a].asked
                 R == flow[a].ruledOut \cup {c \in {k} : ~doubt /\ ~tx[c].known}
      <4>1. (flow[a].ambiguous \/ doubt) \in BOOLEAN /\ R \subseteq Attempts \cup {0}
        BY FlowFields
      <4>2. [flow[a] EXCEPT !.todo = @ \ {k}, !.ambiguous = @ \/ doubt, !.ruledOut = R, !.pc = "classify"]
              \in FlowRecords
        <5> HIDE DEF R
        <5> QED BY <3>1, <4>1, FlowEdits, <1>0 DEF Unsent
      <4> QED BY <3>2, <4>2 DEF Answered
    <3> QED BY <1>6, <3>2, FinishTyped DEF Lookup
  <2>2. budget' \in Budgets
    BY <1>6, SpendTyped DEF Lookup
  <2> QED BY <1>6, <2>1, <2>2, FinishTyped DEF Lookup, chainVars
<1>7. ASSUME NEW b \in Attempts, Classify(a, b) PROVE GuardTyped'
  <2>1. flow' \in [Attempts -> FlowRecords]
    <3>1. flow[a].todo \ {b} \subseteq Attempts
      BY FlowFields
    <3>2. CASE Doubt(a, b)
      BY <3>1, <3>2, FlowEdits DEF Doubt
    <3>3. CASE Safe(a, b)
      <4>1. flow[a].ruledOut \cup {b} \subseteq Attempts \cup {0}
        BY FlowFields
      <4> QED BY <3>1, <3>3, <4>1, FlowEdits DEF Safe
    <3>4. CASE flow' = [flow EXCEPT ![a].asked = b, ![a].pc = "lookup"]
      <4>1. [flow[a] EXCEPT !.asked = b, !.pc = "lookup"] \in FlowRecords
        BY FlowEdits DEF Places, Unsent
      <4> QED BY <3>4, <4>1
    <3> QED BY <1>7, <3>2, <3>3, <3>4, FinishTyped DEF Classify
  <2>2. budget' \in Budgets
    BY <1>7, SpendTyped DEF Classify
  <2> QED BY <1>7, <2>1, <2>2, FinishTyped DEF Classify, chainVars
<1>8. CASE Prepare(a)
  <2>1. flow' \in [Attempts -> FlowRecords]
    BY <1>8, FinishTyped, GotoTyped, <1>0 DEF Prepare, Unsent
  <2> QED BY <1>8, <2>1, FinishTyped DEF Prepare, chainVars
<1>9. CASE Reject(a)
  BY <1>9, FinishTyped DEF Reject, chainVars
<1>10. CASE Persist(a)
  <2>1. flow' \in [Attempts -> FlowRecords]
    BY <1>10, GotoTyped DEF Persist, Places
  <2>2. [NoNote EXCEPT !.saved = TRUE, !.hash = flow[a].hash] \in NoteRecords
    BY FlowFields DEF NoNote, NoteRecords
  <2>3. vault' \in [Attempts -> NoteRecords]
    BY <1>10, <2>2 DEF Persist
  <2> QED BY <1>10, <2>1, <2>3 DEF Persist, chainVars
<1>11. CASE PersistFails(a)
  <2>1. budget' \in Budgets
    BY <1>11, SpendTyped DEF PersistFails
  <2> QED BY <1>11, <2>1, FinishTyped DEF PersistFails, chainVars
<1>12. CASE Wait(a)
  BY <1>12, FinishTyped DEF Wait, chainVars
<1>13. ASSUME NEW hash \in BOOLEAN, Sign(a, hash) PROVE GuardTyped'
  <2>1. flow' \in [Attempts -> FlowRecords]
    BY <1>13, FlowEdits DEF Sign, Places
  <2>2. tx' \in [Attempts -> TxRecords]
    BY <1>13 DEF Sign, TxRecords, Fates
  <2> QED BY <1>13, <2>1, <2>2 DEF Sign
<1> QED
  BY <1>1, <1>2, <1>3, <1>4, <1>5, <1>6, <1>7, <1>8, <1>9, <1>10, <1>11, <1>12, <1>13 DEF AttemptStep

(* Every step of the chain and of time keeps the types.                    *)
LEMMA ChainTyped ==
    ASSUME GuardTyped, ChainStep
    PROVE  GuardTyped'
<1> USE DEF GuardTyped
<1>1. ASSUME NEW a \in Attempts, Drop(a) PROVE GuardTyped'
  BY <1>1 DEF Drop, TxRecords, Fates, pageVars
<1>2. ASSUME NEW a \in Attempts, Age(a) PROVE GuardTyped'
  BY <1>2 DEF Age, NoteRecords, chainVars, pageVars
<1>3. ASSUME NEW a \in Attempts, Hydrate(a) PROVE GuardTyped'
  BY <1>3 DEF Hydrate, chainVars, pageVars
<1>4. ASSUME NEW a \in Attempts, Reconcile(a) PROVE GuardTyped'
  BY <1>4 DEF Reconcile, NoteRecords, chainVars, pageVars
<1>5. ASSUME NEW a \in Attempts, NEW outcome \in {"mined", "reverted"}, Mine(a, outcome) PROVE GuardTyped'
  BY <1>5 DEF Mine, Block, TxRecords, Fates, pageVars
<1>6. ASSUME NEW depth \in 1 .. MaxReorgDepth, Reorg(depth) PROVE GuardTyped'
  <2>1. budget' \in Budgets
    BY <1>6, SpendTyped DEF Reorg
  <2>2. tx' \in [Attempts -> TxRecords]
    BY <1>6 DEF Reorg, TxRecords, Fates
  <2> QED BY <1>6, <2>1, <2>2 DEF Reorg, pageVars
<1>7. CASE EmptyBlock
  BY <1>7 DEF EmptyBlock, Block, pageVars
<1> QED BY <1>1, <1>2, <1>3, <1>4, <1>5, <1>6, <1>7 DEF ChainStep

(* Every step keeps the types.                                             *)
LEMMA GuardTypedStep == GuardTyped /\ [GuardNext]_guardVars => GuardTyped'
<1> SUFFICES ASSUME GuardTyped, [GuardNext]_guardVars PROVE GuardTyped'
  OBVIOUS
<1> USE DEF GuardTyped
<1>1. CASE Cancel
  <2>1. flow' \in [Attempts -> FlowRecords]
    <3>1. abortRef \in Attempts /\ flow' = [flow EXCEPT ![abortRef].aborted = TRUE]
      BY <1>1 DEF Cancel
    <3>2. [flow[abortRef] EXCEPT !.aborted = TRUE] \in FlowRecords
      BY <3>1, FlowEdits
    <3> QED BY <3>1, <3>2
  <2> QED BY <1>1, <2>1 DEF Cancel, chainVars
<1>2. CASE Reload
  <2>1. budget' \in Budgets
    BY <1>2, SpendTyped DEF Reload
  <2>2. tx' \in [Attempts -> TxRecords]
    BY <1>2 DEF Reload, TxRecords, Fates
  <2>3. flow' \in [Attempts -> FlowRecords]
    BY <1>2, FlowEdits DEF Reload, Places
  <2> QED BY <1>2, <2>1, <2>2, <2>3 DEF Reload, NoScan
<1>3. ASSUME NEW acct \in Accounts, SwitchAccount(acct) PROVE GuardTyped'
  <2>1. budget' \in Budgets
    BY <1>3, SpendTyped DEF SwitchAccount
  <2>2. flow' \in [Attempts -> FlowRecords]
    <3>1. ASSUME NEW a \in Attempts
          PROVE  [flow[a] EXCEPT !.aborted = @ \/ a = abortRef,
                                 !.pc = IF a = parked THEN "done" ELSE @] \in FlowRecords
      <4>1. (flow[a].aborted \/ a = abortRef) \in BOOLEAN /\ (IF a = parked THEN "done" ELSE flow[a].pc) \in Places
        BY FlowFields DEF Places
      <4> QED BY <4>1, FlowEdits
    <3>2. CASE inFlight \/ parked # 0
      <4>1. flow' = [a \in Attempts |-> [flow[a] EXCEPT !.aborted = @ \/ a = abortRef,
                                                        !.pc = IF a = parked THEN "done" ELSE @]]
        BY <1>3, <3>2 DEF SwitchAccount
      <4> QED BY <3>1, <4>1
    <3>3. CASE ~(inFlight \/ parked # 0)
      BY <1>3, <3>3 DEF SwitchAccount
    <3> QED BY <3>2, <3>3
  <2> QED BY <1>3, <2>1, <2>2 DEF SwitchAccount, ReleaseDepositLocks, chainVars
<1>4. CASE ScanHead
  BY <1>4 DEF ScanHead, NotesOf, chainVars, pageVars
<1>5. CASE ScanReceipts
  <2>1. vault' \in [Attempts -> NoteRecords]
    <3>1. ASSUME NEW a \in Attempts
          PROVE  [vault[a] EXCEPT !.failed = @ \/ a \in Decided("reverted")] \in NoteRecords
      BY DEF NoteRecords
    <3> QED BY <1>5, <3>1 DEF ScanReceipts
  <2> QED BY <1>5, <2>1 DEF ScanReceipts, Decided, NoScan, chainVars, pageVars
<1>6. CASE UNCHANGED guardVars
  BY <1>6 DEF guardVars
<1> QED BY <1>1, <1>2, <1>3, <1>4, <1>5, <1>6, AttemptTyped, ChainTyped DEF GuardNext

-----------------------------------------------------------------------------
(* What a step of an attempt does, in one of a few ways. *)

(* The records of the other attempts stay.                                 *)
OthersStay(a) ==
    \A b \in Attempts \ {a} : flow'[b] = flow[b] /\ tx'[b] = tx[b] /\ vault'[b] = vault[b]

(* Only the place of the record moves; or the rest of the check, too.      *)
SameFields(q, r) ==
    q.account = r.account /\ q.confirmed = r.confirmed /\ q.hash = r.hash /\ q.beside = r.beside
SameCheck(q, r) ==
    q.todo = r.todo /\ q.asked = r.asked /\ q.ambiguous = r.ambiguous /\ q.ruledOut = r.ruledOut

SameLocks == inFlight' = inFlight /\ abortRef' = abortRef
Released == inFlight' = FALSE /\ abortRef' = 0
SameDeposit(a) == tx'[a] = tx[a] /\ vault'[a] = vault[a]

Pending(acct) == {b \in NotesOf(acct) : IsPendingDeposit(b)}

(* A click of the button.                                                  *)
Clicks(a) ==
    /\ At(a, "new") /\ \A b \in 1 .. a - 1 : ~At(b, "new")
    /\ ~inFlight /\ ~Covered(account)
    /\ inFlight' = TRUE /\ abortRef' = a /\ parked' = parked
    /\ flow'[a].pc = (IF Pending(account) = {} THEN "prepare" ELSE "poll")
    /\ flow'[a].account = account /\ flow'[a].todo = Pending(account)
    /\ flow'[a].beside = {b \in Attempts : Active(b)}
    /\ SameDeposit(a)

(* The end of an attempt.                                                  *)
Ends(a) ==
    /\ flow[a].pc \notin {"new", "done"} /\ flow'[a].pc = "done"
    /\ SameFields(flow'[a], flow[a]) /\ SameCheck(flow'[a], flow[a]) /\ SameDeposit(a)
    /\ Released
    /\ IF flow[a].pc = "confirm" THEN parked = a /\ parked' = 0 ELSE parked' = parked
    /\ flow[a].pc = "persist" => budget'.errors # MaxErrors

(* The attempt still minds note b: it will not go on without the user.     *)
Minds(r, b) ==
    \/ r.confirmed
    \/ r.pc = "poll" /\ b \in r.todo
    \/ r.pc \in {"classify", "lookup"} /\ (r.ambiguous \/ b \in r.todo)
    \/ r.pc = "confirm"

(* A step of the check of earlier deposits: a note it stops minding is one *)
(* that it ruled out.                                                      *)
Checks(a) ==
    /\ flow[a].pc \in {"poll", "classify", "lookup", "confirm"}
    /\ flow'[a].pc \in {"classify", "lookup", "confirm", "prepare"}
    /\ flow'[a].account = flow[a].account /\ SameDeposit(a)
    /\ flow'[a].beside = flow[a].beside /\ flow[a].ruledOut \subseteq flow'[a].ruledOut
    /\ SameLocks
    /\ IF flow'[a].pc = "confirm" THEN parked' = a
       ELSE IF flow[a].pc = "confirm" THEN parked' = 0 ELSE parked' = parked
    /\ \A b \in Attempts :
          Minds(flow[a], b) => Minds(flow'[a], b) \/ b \in flow'[a].ruledOut

Prepares(a) ==
    /\ At(a, "prepare") /\ flow'[a].pc = "sign" /\ SameCheck(flow'[a], flow[a])
    /\ SameFields(flow'[a], flow[a]) /\ SameDeposit(a) /\ SameLocks /\ parked' = parked

Signs(a) ==
    /\ At(a, "sign") /\ flow'[a].pc = "persist"
    /\ flow'[a].account = flow[a].account /\ flow'[a].confirmed = flow[a].confirmed
    /\ flow'[a].beside = flow[a].beside /\ flow'[a].ruledOut = flow[a].ruledOut
    /\ tx'[a] = [fate |-> "pending", known |-> TRUE, at |-> 0] /\ vault'[a] = vault[a]
    /\ SameLocks /\ parked' = parked

Persists(a) ==
    /\ At(a, "persist") /\ flow'[a].pc = "wait"
    /\ SameFields(flow'[a], flow[a]) /\ SameCheck(flow'[a], flow[a])
    /\ tx'[a] = tx[a] /\ vault'[a].saved /\ ~vault'[a].failed /\ ~vault'[a].leaf
    /\ SameLocks /\ parked' = parked

AttemptMoves(a) ==
    /\ OthersStay(a)
    /\ UNCHANGED <<head, account, scan>>
    /\ budget'.reorgs = budget.reorgs /\ budget'.switches = budget.switches
    /\ budget'.reloads = budget.reloads /\ budget'.errors <= budget.errors
    /\ Clicks(a) \/ Ends(a) \/ Checks(a) \/ Prepares(a) \/ Signs(a) \/ Persists(a)

(* Going to another place changes nothing else.                            *)
LEMMA GotoFields ==
    ASSUME GuardTyped, NEW a \in Attempts, NEW p, Goto(a, p)
    PROVE  /\ flow'[a].pc = p /\ SameFields(flow'[a], flow[a]) /\ SameCheck(flow'[a], flow[a])
           /\ flow'[a].aborted = flow[a].aborted
           /\ \A b \in Attempts \ {a} : flow'[b] = flow[b]
  BY DEF Goto, GuardTyped, FlowRecords, SameFields, SameCheck

(* The errors that are left go down when one is spent.                     *)
LEMMA SpendError ==
    ASSUME budget \in Budgets, Spend("errors")
    PROVE  /\ budget'.reorgs = budget.reorgs /\ budget'.switches = budget.switches
           /\ budget'.reloads = budget.reloads
           /\ budget'.errors <= budget.errors /\ budget'.errors # MaxErrors
  BY GuardAssumption DEF Spend, Budgets

(* An attempt that ends.                                                   *)
LEMMA FinishEnds ==
    ASSUME GuardTyped, NEW a \in Attempts, Finish(a), flow[a].pc \notin {"new", "done", "confirm"},
           UNCHANGED <<tx, vault>>,
           flow[a].pc = "persist" => budget'.errors # MaxErrors
    PROVE  Ends(a) /\ OthersStay(a)
  BY GotoFields DEF Finish, ReleaseDepositLocks, Released, Ends, OthersStay, SameDeposit
(* Every step of an attempt is one of those ways.                          *)
LEMMA AttemptMakesAMove ==
    ASSUME GuardTyped, NEW a \in Attempts, AttemptStep(a)
    PROVE  AttemptMoves(a)
<1> DEFINE Budgeted == /\ budget'.reorgs = budget.reorgs /\ budget'.switches = budget.switches
                       /\ budget'.reloads = budget.reloads /\ budget'.errors <= budget.errors
<1>t. flow \in [Attempts -> FlowRecords] /\ flow[a] \in FlowRecords /\ budget \in Budgets /\ DOMAIN flow = Attempts
  BY DEF GuardTyped
<1>b. UNCHANGED budget => Budgeted
  BY <1>t DEF Budgets
<1>e. Spend("errors") => Budgeted /\ budget'.errors # MaxErrors
  BY <1>t, SpendError
<1> HIDE DEF Budgeted
<1>1. CASE Click(a)
  <2> DEFINE r == [NoFlow EXCEPT !.pc = IF Pending(account) = {} THEN "prepare" ELSE "poll",
                                 !.account = account, !.todo = Pending(account),
                                 !.beside = {b \in Attempts : Active(b)}]
  <2>1. flow' = [flow EXCEPT ![a] = r]
    BY <1>1 DEF Click, Pending
  <2>2. r.pc = (IF Pending(account) = {} THEN "prepare" ELSE "poll") /\ r.account = account
        /\ r.todo = Pending(account) /\ r.beside = {b \in Attempts : Active(b)}
    BY DEF NoFlow
  <2> HIDE DEF r
  <2>3. flow'[a] = r /\ \A b \in Attempts \ {a} : flow'[b] = flow[b]
    BY <2>1, <1>t
  <2>4. Clicks(a)
    BY <1>1, <2>2, <2>3 DEF Click, Clicks, SameDeposit, chainVars
  <2> QED BY <1>1, <1>b, <2>3, <2>4 DEF Click, AttemptMoves, OthersStay, chainVars, Budgeted
<1>2. CASE Poll(a)
  <2>1. CASE flow[a].aborted \/ flow[a].todo \cap tree # {}
    <3>1. Ends(a) /\ OthersStay(a)
      BY <1>2, <2>1, FinishEnds DEF Poll, At, chainVars
    <3> QED BY <1>2, <3>1, <1>b DEF Poll, AttemptMoves, chainVars, Budgeted
  <2>2. CASE ~(flow[a].aborted \/ flow[a].todo \cap tree # {})
    <3>1. Goto(a, "classify") /\ UNCHANGED <<inFlight, abortRef, parked>>
      BY <1>2, <2>2 DEF Poll
    <3>2. /\ flow'[a].pc = "classify" /\ SameFields(flow'[a], flow[a]) /\ SameCheck(flow'[a], flow[a])
          /\ \A b \in Attempts \ {a} : flow'[b] = flow[b]
      BY <3>1, GotoFields
    <3>3. Checks(a)
      BY <1>2, <3>1, <3>2 DEF Poll, At, Checks, Minds, SameFields, SameCheck, SameDeposit, SameLocks, chainVars
    <3> QED BY <1>2, <3>2, <3>3, <1>b DEF Poll, AttemptMoves, OthersStay, chainVars, Budgeted
  <2> QED BY <2>1, <2>2
<1>3. CASE Verdict(a)
  <2>1. CASE flow[a].aborted
    <3>1. Ends(a) /\ OthersStay(a)
      BY <1>3, <2>1, FinishEnds DEF Verdict, At, chainVars
    <3> QED BY <1>3, <3>1, <1>b DEF Verdict, AttemptMoves, chainVars, Budgeted
  <2>2. CASE ~flow[a].aborted /\ flow[a].ambiguous
    <3>1. Goto(a, "confirm") /\ parked' = a /\ UNCHANGED <<inFlight, abortRef>>
      BY <1>3, <2>2 DEF Verdict
    <3>2. /\ flow'[a].pc = "confirm" /\ SameFields(flow'[a], flow[a]) /\ SameCheck(flow'[a], flow[a])
          /\ \A b \in Attempts \ {a} : flow'[b] = flow[b]
      BY <3>1, GotoFields
    <3>3. Checks(a)
      BY <1>3, <3>1, <3>2 DEF Verdict, At, Checks, Minds, SameFields, SameCheck, SameDeposit, SameLocks, chainVars
    <3> QED BY <1>3, <3>2, <3>3, <1>b DEF Verdict, AttemptMoves, OthersStay, chainVars, Budgeted
  <2>3. CASE ~flow[a].aborted /\ ~flow[a].ambiguous
    <3>1. Goto(a, "prepare") /\ UNCHANGED <<inFlight, abortRef, parked>> /\ flow[a].todo = {}
      BY <1>3, <2>3 DEF Verdict
    <3>2. /\ flow'[a].pc = "prepare" /\ SameFields(flow'[a], flow[a]) /\ SameCheck(flow'[a], flow[a])
          /\ \A b \in Attempts \ {a} : flow'[b] = flow[b]
      BY <3>1, GotoFields
    <3>3. Checks(a)
      BY <1>3, <2>3, <3>1, <3>2 DEF Verdict, At, Checks, Minds, SameFields, SameCheck, SameDeposit, SameLocks, chainVars
    <3> QED BY <1>3, <3>2, <3>3, <1>b DEF Verdict, AttemptMoves, OthersStay, chainVars, Budgeted
  <2> QED BY <2>1, <2>2, <2>3
<1>4. CASE Confirm(a)
  <2>1. /\ flow'[a].pc = "prepare" /\ flow'[a].confirmed /\ flow'[a].account = flow[a].account
        /\ flow'[a].beside = flow[a].beside /\ flow'[a].ruledOut = flow[a].ruledOut
        /\ \A b \in Attempts \ {a} : flow'[b] = flow[b]
    BY <1>4, <1>t DEF Confirm, FlowRecords
  <2>2. Checks(a)
    BY <1>4, <2>1 DEF Confirm, At, Checks, Minds, SameDeposit, SameLocks, chainVars
  <2> QED BY <1>4, <2>1, <2>2, <1>b DEF Confirm, AttemptMoves, OthersStay, chainVars, Budgeted
<1>5. CASE Decline(a)
  <2>1. /\ flow'[a].pc = "done" /\ SameFields(flow'[a], flow[a]) /\ SameCheck(flow'[a], flow[a])
        /\ \A b \in Attempts \ {a} : flow'[b] = flow[b]
    BY <1>5, GotoFields DEF Decline
  <2>2. Ends(a)
    BY <1>5, <2>1 DEF Decline, At, Ends, ReleaseDepositLocks, Released, SameDeposit, chainVars
  <2> QED BY <1>5, <2>1, <2>2, <1>b DEF Decline, AttemptMoves, OthersStay, chainVars, Budgeted
<1>6. CASE Lookup(a)
  <2>1. CASE tx[flow[a].asked].known /\ Finish(a) /\ UNCHANGED budget
    <3>1. Ends(a) /\ OthersStay(a)
      BY <1>6, <2>1, FinishEnds DEF Lookup, At, chainVars
    <3> QED BY <1>6, <2>1, <3>1, <1>b DEF Lookup, AttemptMoves, chainVars, Budgeted
  <2>2. ASSUME NEW doubt \in BOOLEAN, Answered(a, doubt), UNCHANGED <<inFlight, abortRef, parked>>,
               doubt \/ ~tx[flow[a].asked].known, Budgeted
        PROVE  AttemptMoves(a)
    <3>1. /\ flow'[a].pc = "classify" /\ SameFields(flow'[a], flow[a])
          /\ flow'[a].todo = flow[a].todo \ {flow[a].asked}
          /\ flow'[a].ambiguous = (flow[a].ambiguous \/ doubt)
          /\ flow'[a].ruledOut = flow[a].ruledOut \cup {c \in {flow[a].asked} : ~doubt /\ ~tx[c].known}
          /\ \A b \in Attempts \ {a} : flow'[b] = flow[b]
      BY <2>2, <1>t DEF Answered, FlowRecords, SameFields
    <3>2. Checks(a)
      BY <1>6, <2>2, <3>1 DEF Lookup, At, Checks, Minds, SameFields, SameDeposit, SameLocks, chainVars
    <3> QED BY <1>6, <2>2, <3>1, <3>2 DEF Lookup, AttemptMoves, OthersStay, chainVars, Budgeted
  <2> QED BY <1>6, <2>1, <2>2, <1>b, <1>e DEF Lookup
<1>7. ASSUME NEW b \in Attempts, Classify(a, b) PROVE AttemptMoves(a)
  <2>1. CASE Finish(a) /\ UNCHANGED budget
    <3>1. Ends(a) /\ OthersStay(a)
      BY <1>7, <2>1, FinishEnds DEF Classify, At, chainVars
    <3> QED BY <1>7, <2>1, <3>1, <1>b DEF Classify, AttemptMoves, chainVars, Budgeted
  <2>2. ASSUME Doubt(a, b), UNCHANGED <<inFlight, abortRef, parked>>, Budgeted
        PROVE  AttemptMoves(a)
    <3>1. /\ flow'[a].pc = flow[a].pc /\ SameFields(flow'[a], flow[a]) /\ flow'[a].ambiguous
          /\ flow'[a].ruledOut = flow[a].ruledOut
          /\ \A c \in Attempts \ {a} : flow'[c] = flow[c]
      BY <2>2, <1>t DEF Doubt, FlowRecords, SameFields
    <3>2. Checks(a)
      BY <1>7, <2>2, <3>1 DEF Classify, At, Checks, Minds, SameFields, SameDeposit, SameLocks, chainVars
    <3> QED BY <1>7, <2>2, <3>1, <3>2 DEF Classify, AttemptMoves, OthersStay, chainVars, Budgeted
  <2>3. ASSUME Safe(a, b), tx[b].fate = "reverted", UNCHANGED <<inFlight, abortRef, parked>>, Budgeted
        PROVE  AttemptMoves(a)
    <3>1. /\ flow'[a].pc = flow[a].pc /\ SameFields(flow'[a], flow[a])
          /\ flow'[a].ambiguous = flow[a].ambiguous /\ flow'[a].todo = flow[a].todo \ {b}
          /\ flow'[a].ruledOut = flow[a].ruledOut \cup {b}
          /\ \A c \in Attempts \ {a} : flow'[c] = flow[c]
      BY <2>3, <1>t DEF Safe, FlowRecords, SameFields
    <3>2. Checks(a)
      BY <1>7, <2>3, <3>1 DEF Classify, At, Checks, Minds, SameFields, SameDeposit, SameLocks, chainVars
    <3> QED BY <1>7, <2>3, <3>1, <3>2 DEF Classify, AttemptMoves, OthersStay, chainVars, Budgeted
  <2>4. ASSUME flow' = [flow EXCEPT ![a].asked = b, ![a].pc = "lookup"],
               UNCHANGED <<inFlight, abortRef, parked>>, Budgeted
        PROVE  AttemptMoves(a)
    <3>1. /\ flow'[a].pc = "lookup" /\ SameFields(flow'[a], flow[a])
          /\ flow'[a].ambiguous = flow[a].ambiguous /\ flow'[a].todo = flow[a].todo
          /\ flow'[a].ruledOut = flow[a].ruledOut
          /\ \A c \in Attempts \ {a} : flow'[c] = flow[c]
      BY <2>4, <1>t DEF FlowRecords, SameFields
    <3>2. Checks(a)
      BY <1>7, <2>4, <3>1 DEF Classify, At, Checks, Minds, SameFields, SameDeposit, SameLocks, chainVars
    <3> QED BY <1>7, <2>4, <3>1, <3>2 DEF Classify, AttemptMoves, OthersStay, chainVars, Budgeted
  <2> QED BY <1>7, <2>1, <2>2, <2>3, <2>4, <1>b, <1>e DEF Classify
<1>8. CASE Prepare(a)
  <2>1. CASE Finish(a)
    <3>1. Ends(a) /\ OthersStay(a)
      BY <1>8, <2>1, FinishEnds DEF Prepare, At, chainVars
    <3> QED BY <1>8, <3>1, <1>b DEF Prepare, AttemptMoves, chainVars, Budgeted
  <2>2. CASE Goto(a, "sign") /\ UNCHANGED <<inFlight, abortRef, parked>>
    <3>1. /\ flow'[a].pc = "sign" /\ SameFields(flow'[a], flow[a]) /\ SameCheck(flow'[a], flow[a])
          /\ \A b \in Attempts \ {a} : flow'[b] = flow[b]
      BY <2>2, GotoFields
    <3>2. Prepares(a)
      BY <1>8, <2>2, <3>1 DEF Prepare, Prepares, SameDeposit, SameLocks, chainVars
    <3> QED BY <1>8, <3>1, <3>2, <1>b DEF Prepare, AttemptMoves, OthersStay, chainVars, Budgeted
  <2> QED BY <1>8, <2>1, <2>2 DEF Prepare
<1>9. CASE Reject(a)
  <2>1. Ends(a) /\ OthersStay(a)
    BY <1>9, FinishEnds DEF Reject, At, chainVars
  <2> QED BY <1>9, <2>1, <1>b DEF Reject, AttemptMoves, chainVars, Budgeted
<1>10. CASE Persist(a)
  <2> DEFINE n == [NoNote EXCEPT !.saved = TRUE, !.hash = flow[a].hash]
  <2>1. vault' = [vault EXCEPT ![a] = n]
    BY <1>10 DEF Persist
  <2>2. n.saved /\ ~n.failed /\ ~n.leaf
    BY DEF NoNote
  <2> HIDE DEF n
  <2>3. vault'[a] = n /\ \A b \in Attempts \ {a} : vault'[b] = vault[b]
    BY <2>1 DEF GuardTyped
  <2>4. /\ flow'[a].pc = "wait" /\ SameFields(flow'[a], flow[a]) /\ SameCheck(flow'[a], flow[a])
        /\ \A b \in Attempts \ {a} : flow'[b] = flow[b]
    BY <1>10, GotoFields DEF Persist
  <2>5. Persists(a)
    BY <1>10, <2>2, <2>3, <2>4 DEF Persist, Persists, SameLocks, chainVars
  <2> QED BY <1>10, <2>3, <2>4, <2>5, <1>b DEF Persist, AttemptMoves, OthersStay, chainVars, Budgeted
<1>11. CASE PersistFails(a)
  <2>1. Ends(a) /\ OthersStay(a)
    BY <1>11, <1>e, FinishEnds DEF PersistFails, At, chainVars
  <2> QED BY <1>11, <2>1, <1>e DEF PersistFails, AttemptMoves, chainVars, Budgeted
<1>12. CASE Wait(a)
  <2>1. Ends(a) /\ OthersStay(a)
    BY <1>12, FinishEnds DEF Wait, At, chainVars
  <2> QED BY <1>12, <2>1, <1>b DEF Wait, AttemptMoves, chainVars, Budgeted
<1>13. ASSUME NEW hash \in BOOLEAN, Sign(a, hash) PROVE AttemptMoves(a)
  <2>1. /\ flow'[a].pc = "persist" /\ flow'[a].account = flow[a].account
        /\ flow'[a].confirmed = flow[a].confirmed
        /\ flow'[a].beside = flow[a].beside /\ flow'[a].ruledOut = flow[a].ruledOut
        /\ \A b \in Attempts \ {a} : flow'[b] = flow[b]
    BY <1>13, <1>t DEF Sign, FlowRecords
  <2>2. tx'[a] = [fate |-> "pending", known |-> TRUE, at |-> 0] /\ \A b \in Attempts \ {a} : tx'[b] = tx[b]
    BY <1>13 DEF Sign, GuardTyped
  <2>3. Signs(a)
    BY <1>13, <2>1, <2>2 DEF Sign, Signs, SameLocks
  <2> QED BY <1>13, <2>1, <2>2, <2>3, <1>b DEF Sign, AttemptMoves, OthersStay, Budgeted
<1> QED
  BY <1>1, <1>2, <1>3, <1>4, <1>5, <1>6, <1>7, <1>8, <1>9, <1>10, <1>11, <1>12, <1>13 DEF AttemptStep

-----------------------------------------------------------------------------
(* The invariant. *)

(* Where the attempts are agrees with the chain and the vault.             *)
PlacesAgree ==
    /\ parked # 0 => At(parked, "confirm")
    /\ \A a \in Attempts :
        /\ flow[a].pc \in Unsent => tx[a].fate = "none"
        /\ flow[a].pc \in Unsent \cup {"persist"} => ~vault[a].saved
        /\ tx[a].fate = "none" => tx[a].at = 0
        /\ vault[a].saved \/ At(a, "persist") => tx[a].fate # "none"

(* A failed note's deposit is out of a reorganisation's reach.             *)
FailedIsDeep ==
    /\ scan.head <= head
    /\ \A a \in Attempts :
        /\ tx[a].at <= head
        /\ vault[a].failed => tx[a].fate = "reverted" /\ head - tx[a].at >= MinConfirmations

(* Within one account the attempt under way holds the lock, and the        *)
(* earlier ones have ended.                                                *)
OneAtATime ==
    \A a \in Attempts :
        /\ Active(a) => inFlight /\ abortRef = a
        /\ ~At(a, "new") => flow[a].account = account
        /\ \A b \in Attempts : a < b /\ ~At(b, "new") => At(a, "done")

(* A deposit that is sent has a note, or is about to have one.             *)
SentHasNote ==
    \A a \in Attempts : tx[a].fate # "none" => vault[a].saved \/ At(a, "persist")

(* Once a later attempt was clicked, an earlier one that was not under way *)
(* beside it has ended or has its note.  Of an earlier note of its account *)
(* the later attempt knows that it failed, or rules it out, or minds it,   *)
(* or has ended without a deposit.                                         *)
EarlierIsMinded ==
    \A a, b \in Attempts : a < b /\ ~At(b, "new") =>
        /\ ~At(a, "new")
        /\ a \in flow[b].beside \/ vault[a].saved \/ At(a, "done")
        /\ vault[a].saved /\ flow[a].account = flow[b].account =>
              \/ a \in flow[b].beside \cup flow[b].ruledOut
              \/ vault[a].failed
              \/ Minds(flow[b], a)
              \/ At(b, "done") /\ tx[b].fate = "none"

GuardInv ==
    /\ GuardTyped /\ PlacesAgree /\ FailedIsDeep
    /\ NeverSwitched => OneAtATime
    /\ NothingFailed => SentHasNote
    /\ EarlierIsMinded

(* What a step of the chain, of time, of the detector or of Cancel does:   *)
(* only a pending transaction changes.                                     *)
ChainOnly ==
    /\ UNCHANGED <<account, inFlight, abortRef, parked, budget>>
    /\ head <= head'
    /\ \A a \in Attempts :
        /\ flow'[a].pc = flow[a].pc /\ SameFields(flow'[a], flow[a]) /\ SameCheck(flow'[a], flow[a])
        /\ vault'[a].saved = vault[a].saved /\ (vault[a].failed => vault'[a].failed)
        /\ \/ tx'[a] = tx[a]
           \/ /\ tx[a].fate = "pending" /\ tx'[a].fate \in {"pending", "mined", "reverted", "gone"}
              /\ tx'[a].at = tx[a].at \/ tx'[a].at = head'

(* A step that leaves the flow and the locks alone.                        *)
LEMMA StillFlow ==
    ASSUME GuardTyped, UNCHANGED <<account, flow, inFlight, abortRef, parked, budget>>, head <= head',
           \A a \in Attempts : vault'[a].saved = vault[a].saved /\ (vault[a].failed => vault'[a].failed),
           \A a \in Attempts :
              \/ tx'[a] = tx[a]
              \/ /\ tx[a].fate = "pending" /\ tx'[a].fate \in {"pending", "mined", "reverted", "gone"}
                 /\ tx'[a].at = tx[a].at \/ tx'[a].at = head'
    PROVE  ChainOnly
  BY DEF ChainOnly, SameFields, SameCheck

(* Those steps are quiet.                                                  *)
LEMMA ChainOnlySteps ==
    ASSUME GuardTyped,
           \/ ChainStep /\ ~(\E depth \in 1 .. MaxReorgDepth : Reorg(depth))
           \/ Cancel \/ ScanHead \/ ScanReceipts \/ UNCHANGED guardVars
    PROVE  ChainOnly
<1>h. head \in Nat
  BY DEF GuardTyped
<1>1. ASSUME NEW a \in Attempts, Drop(a) PROVE ChainOnly
  <2>1. \A b \in Attempts \ {a} : tx'[b] = tx[b]
    BY <1>1 DEF Drop, GuardTyped
  <2>2. tx'[a].fate = (IF MayReturn THEN "pending" ELSE "gone") /\ tx'[a].at = tx[a].at
    BY <1>1 DEF Drop, GuardTyped, TxRecords
  <2>3. tx[a].fate = "pending" /\ tx'[a].fate \in {"pending", "mined", "reverted", "gone"}
    BY <1>1, <2>2 DEF Drop
  <2>4. UNCHANGED <<account, flow, inFlight, abortRef, parked, budget, vault>> /\ head <= head'
    BY <1>1, <1>h DEF Drop, pageVars
  <2> QED BY <2>1, <2>2, <2>3, <2>4, StillFlow
<1>2. ASSUME NEW a \in Attempts, Age(a) PROVE ChainOnly
  <2>1. \A b \in Attempts : vault'[b].saved = vault[b].saved /\ (vault[b].failed => vault'[b].failed)
    BY <1>2 DEF Age, GuardTyped, NoteRecords
  <2> QED BY <1>2, <1>h, <2>1, StillFlow DEF Age, chainVars, pageVars
<1>3. ASSUME NEW a \in Attempts, Hydrate(a) PROVE ChainOnly
  BY <1>3, <1>h, StillFlow DEF Hydrate, chainVars, pageVars
<1>4. ASSUME NEW a \in Attempts, Reconcile(a) PROVE ChainOnly
  <2>1. \A b \in Attempts : vault'[b].saved = vault[b].saved /\ (vault[b].failed => vault'[b].failed)
    BY <1>4 DEF Reconcile, GuardTyped, NoteRecords
  <2> QED BY <1>4, <1>h, <2>1, StillFlow DEF Reconcile, chainVars, pageVars
<1>5. ASSUME NEW a \in Attempts, NEW outcome \in {"mined", "reverted"}, Mine(a, outcome) PROVE ChainOnly
  <2>1. \A b \in Attempts \ {a} : tx'[b] = tx[b]
    BY <1>5 DEF Mine, GuardTyped
  <2>2. tx'[a] = [fate |-> outcome, known |-> TRUE, at |-> head + 1] /\ head' = head + 1
    BY <1>5 DEF Mine, Block, GuardTyped
  <2>3. tx[a].fate = "pending" /\ tx'[a].fate \in {"pending", "mined", "reverted", "gone"}
        /\ tx'[a].at = head'
    BY <1>5, <2>2 DEF Mine
  <2>4. UNCHANGED <<account, flow, inFlight, abortRef, parked, budget, vault>> /\ head <= head'
    BY <1>5, <1>h, <2>2 DEF Mine, pageVars
  <2> QED BY <2>1, <2>3, <2>4, StillFlow
<1>6. CASE EmptyBlock
  BY <1>6, <1>h, StillFlow DEF EmptyBlock, Block, pageVars
<1>7. CASE Cancel
  <2>1. flow' = [flow EXCEPT ![abortRef].aborted = TRUE] /\ abortRef \in Attempts
    BY <1>7 DEF Cancel, GuardTyped
  <2>2. \A a \in Attempts : /\ flow'[a].pc = flow[a].pc /\ SameFields(flow'[a], flow[a])
                            /\ SameCheck(flow'[a], flow[a])
    BY <2>1 DEF GuardTyped, FlowRecords, SameFields, SameCheck
  <2>3. UNCHANGED <<account, inFlight, abortRef, parked, budget, tx, vault>> /\ head <= head'
    BY <1>7, <1>h DEF Cancel, chainVars
  <2> QED BY <2>2, <2>3 DEF ChainOnly
<1>8. CASE ScanHead
  BY <1>8, <1>h, StillFlow DEF ScanHead, chainVars, pageVars
<1>9. CASE ScanReceipts
  <2>1. \A b \in Attempts : vault'[b].saved = vault[b].saved /\ (vault[b].failed => vault'[b].failed)
    BY <1>9 DEF ScanReceipts, GuardTyped, NoteRecords
  <2> QED BY <1>9, <1>h, <2>1, StillFlow DEF ScanReceipts, chainVars, pageVars
<1>10. CASE UNCHANGED guardVars
  BY <1>10, <1>h, StillFlow DEF guardVars
<1> QED BY <1>1, <1>2, <1>3, <1>4, <1>5, <1>6, <1>7, <1>8, <1>9, <1>10 DEF ChainStep

(* A step is a move of an attempt, quiet, a reorganisation, a reload or a  *)
(* switch of account.                                                      *)
LEMMA GuardMoves ==
    ASSUME GuardTyped, [GuardNext]_guardVars
    PROVE  \/ \E a \in Attempts : AttemptMoves(a)
           \/ ChainOnly \/ Reload
           \/ \E depth \in 1 .. MaxReorgDepth : Reorg(depth)
           \/ \E acct \in Accounts : SwitchAccount(acct)
  BY AttemptMakesAMove, ChainOnlySteps DEF GuardNext

(* After a reload the attempts have ended, and a prompt that was open may  *)
(* have been signed.                                                       *)
LEMMA ReloadFields ==
    ASSUME GuardTyped, Reload
    PROVE  /\ \A a \in Attempts :
                 /\ flow'[a].pc = (IF At(a, "new") THEN "new" ELSE "done") /\ SameFields(flow'[a], flow[a])
                 /\ SameCheck(flow'[a], flow[a])
                 /\ \/ tx'[a] = tx[a]
                    \/ At(a, "sign") /\ tx'[a] = [fate |-> "pending", known |-> TRUE, at |-> 0]
           /\ vault' = vault /\ account' = account /\ head' = head /\ parked' = 0
           /\ inFlight' = FALSE /\ abortRef' = 0 /\ scan' = NoScan
           /\ budget'.reloads # MaxReloads
           /\ budget'.reorgs = budget.reorgs /\ budget'.switches = budget.switches
           /\ budget'.errors = budget.errors
<1>1. /\ budget'.reloads # MaxReloads
      /\ budget'.reorgs = budget.reorgs /\ budget'.switches = budget.switches
      /\ budget'.errors = budget.errors
  BY GuardAssumption, SpendTyped DEF Reload, GuardTyped, Budgets
<1>2. ASSUME NEW a \in Attempts
      PROVE  /\ flow'[a].pc = (IF At(a, "new") THEN "new" ELSE "done")
             /\ SameFields(flow'[a], flow[a]) /\ SameCheck(flow'[a], flow[a])
  BY DEF Reload, GuardTyped, FlowRecords, SameFields, SameCheck, At
<1>3. ASSUME NEW a \in Attempts
      PROVE  \/ tx'[a] = tx[a]
             \/ At(a, "sign") /\ tx'[a] = [fate |-> "pending", known |-> TRUE, at |-> 0]
  <2>1. PICK signed \in SUBSET {b \in Attempts : At(b, "sign")} :
            tx' = [b \in Attempts |-> IF b \in signed THEN [fate |-> "pending", known |-> TRUE, at |-> 0] ELSE tx[b]]
    BY DEF Reload
  <2> QED BY <2>1
<1> QED BY <1>1, <1>2, <1>3 DEF Reload

(* A switch of account ends the attempt at the modal and releases the      *)
(* locks.                                                                  *)
LEMMA SwitchFields ==
    ASSUME GuardTyped, NEW acct \in Accounts, SwitchAccount(acct)
    PROVE  /\ \A a \in Attempts :
                 /\ flow'[a].pc = (IF a = parked THEN "done" ELSE flow[a].pc) /\ SameFields(flow'[a], flow[a])
                 /\ SameCheck(flow'[a], flow[a])
           /\ tx' = tx /\ vault' = vault /\ head' = head /\ scan' = scan /\ parked' = 0
           /\ budget'.switches # MaxSwitches
           /\ budget'.reorgs = budget.reorgs /\ budget'.reloads = budget.reloads
           /\ budget'.errors = budget.errors
<1>1. /\ budget'.switches # MaxSwitches
      /\ budget'.reorgs = budget.reorgs /\ budget'.reloads = budget.reloads
      /\ budget'.errors = budget.errors
  <2>1. budget \in Budgets /\ Spend("switches")
    BY DEF GuardTyped, SwitchAccount
  <2> QED BY <2>1, GuardAssumption, SpendTyped DEF Budgets
<1>2. CASE inFlight \/ parked # 0
  <2>1. flow' = [a \in Attempts |-> [flow[a] EXCEPT !.aborted = @ \/ a = abortRef,
                                                    !.pc = IF a = parked THEN "done" ELSE @]]
    BY <1>2 DEF SwitchAccount
  <2>2. ASSUME NEW a \in Attempts
        PROVE  /\ flow'[a].pc = (IF a = parked THEN "done" ELSE flow[a].pc) /\ SameFields(flow'[a], flow[a])
               /\ SameCheck(flow'[a], flow[a])
    <3>1. flow[a] \in FlowRecords
      BY DEF GuardTyped
    <3>2. flow'[a] = [flow[a] EXCEPT !.aborted = @ \/ a = abortRef, !.pc = IF a = parked THEN "done" ELSE @]
      BY <2>1
    <3>3. /\ flow'[a].account = flow[a].account /\ flow'[a].confirmed = flow[a].confirmed
          /\ flow'[a].hash = flow[a].hash /\ flow'[a].todo = flow[a].todo
          /\ flow'[a].asked = flow[a].asked /\ flow'[a].ambiguous = flow[a].ambiguous
          /\ flow'[a].beside = flow[a].beside /\ flow'[a].ruledOut = flow[a].ruledOut
      BY <3>1, <3>2 DEF FlowRecords
    <3>4. flow'[a].pc = (IF a = parked THEN "done" ELSE flow[a].pc)
      BY <3>1, <3>2 DEF FlowRecords
    <3> QED BY <3>3, <3>4 DEF SameFields, SameCheck
  <2> QED BY <1>1, <1>2, <2>2 DEF SwitchAccount, chainVars
<1>3. CASE ~(inFlight \/ parked # 0)
  <2>1. 0 \notin Attempts
    BY DEF Attempts
  <2> QED BY <1>1, <1>3, <2>1 DEF SwitchAccount, SameFields, SameCheck, chainVars
<1> QED BY <1>2, <1>3

(* A reorganisation leaves the page and the vault alone.                   *)
LEMMA ReorgFields ==
    ASSUME GuardTyped, NEW depth \in 1 .. MaxReorgDepth, Reorg(depth)
    PROVE  /\ \A a \in Attempts :
                 \/ tx'[a] = tx[a]
                 \/ tx[a].at > head - depth /\ tx'[a] = [fate |-> "pending", known |-> TRUE, at |-> 0]
           /\ flow' = flow /\ vault' = vault /\ account' = account /\ head' = head /\ scan' = scan
           /\ inFlight' = inFlight /\ abortRef' = abortRef /\ parked' = parked
           /\ depth < head
           /\ budget'.reorgs # MaxReorgs
           /\ budget'.switches = budget.switches /\ budget'.reloads = budget.reloads
           /\ budget'.errors = budget.errors
<1>1. /\ budget'.reorgs # MaxReorgs
      /\ budget'.switches = budget.switches /\ budget'.reloads = budget.reloads
      /\ budget'.errors = budget.errors
  BY GuardAssumption, SpendTyped DEF Reorg, GuardTyped, Budgets
<1> QED BY <1>1 DEF Reorg, pageVars

(* The invariant holds at the start.                                       *)
LEMMA GuardInvInit == GuardInit => GuardInv
<1> SUFFICES ASSUME GuardInit PROVE GuardInv
  OBVIOUS
<1>1. /\ head = 1 /\ parked = 0 /\ scan = NoScan /\ NoScan.head = 0
      /\ \A a \in Attempts : /\ tx[a].fate = "none" /\ tx[a].at = 0 /\ ~vault[a].saved /\ ~vault[a].failed
                             /\ At(a, "new")
  BY DEF GuardInit, Started, NoTx, NoNote, NoFlow, NoScan, At
<1>2. GuardTyped
  BY GuardTypedInit
<1>3. PlacesAgree /\ FailedIsDeep
  <2>1. \A a \in Attempts : ~At(a, "persist")
    BY <1>1 DEF At
  <2> QED BY <1>1, <2>1 DEF PlacesAgree, FailedIsDeep
<1>4. OneAtATime /\ SentHasNote /\ EarlierIsMinded
  BY <1>1 DEF OneAtATime, SentHasNote, EarlierIsMinded, Active, At
<1> QED BY <1>2, <1>3, <1>4 DEF GuardInv

(* Where the attempts are keeps agreeing with the chain and the vault.     *)
LEMMA PlacesAgreeStep == GuardTyped /\ PlacesAgree /\ [GuardNext]_guardVars => PlacesAgree'
<1> SUFFICES ASSUME GuardTyped, PlacesAgree, [GuardNext]_guardVars PROVE PlacesAgree'
  OBVIOUS
<1> USE DEF PlacesAgree, At, Unsent
<1>1. ASSUME NEW a \in Attempts, AttemptMoves(a) PROVE PlacesAgree'
  <2>0. /\ \A b \in Attempts \ {a} : flow'[b] = flow[b] /\ tx'[b] = tx[b] /\ vault'[b] = vault[b]
        /\ parked \in Attempts \cup {0} /\ 0 \notin Attempts
    BY <1>1 DEF AttemptMoves, OthersStay, GuardTyped, Attempts
  <2>1. CASE Clicks(a)
    BY <2>0, <2>1 DEF Clicks, SameDeposit
  <2>2. CASE Ends(a)
    BY <2>0, <2>2 DEF Ends, SameDeposit
  <2>3. CASE Checks(a)
    BY <2>0, <2>3 DEF Checks, SameDeposit
  <2>4. CASE Prepares(a)
    BY <2>0, <2>4 DEF Prepares, SameDeposit
  <2>5. CASE Signs(a)
    <3>1. /\ tx'[a].fate = "pending" /\ vault'[a] = vault[a] /\ flow'[a].pc = "persist"
          /\ flow[a].pc = "sign" /\ parked' = parked
      BY <2>5 DEF Signs
    <3> QED BY <2>0, <3>1
  <2>6. CASE Persists(a)
    <3>1. tx'[a] = tx[a] /\ tx[a].fate # "none" /\ flow'[a].pc = "wait" /\ flow[a].pc = "persist" /\ parked' = parked
      BY <2>6 DEF Persists
    <3> QED BY <2>0, <3>1
  <2> QED BY <1>1, <2>1, <2>2, <2>3, <2>4, <2>5, <2>6 DEF AttemptMoves
<1>2. CASE ChainOnly
  <2>1. parked \in Attempts \cup {0} /\ 0 \notin Attempts
    BY DEF GuardTyped, Attempts
  <2> QED BY <1>2, <2>1 DEF ChainOnly
<1>3. CASE Reload
  BY <1>3, ReloadFields
<1>4. ASSUME NEW depth \in 1 .. MaxReorgDepth, Reorg(depth) PROVE PlacesAgree'
  <2>1. head - depth \in Nat /\ GuardTyped
    BY <1>4, ReorgFields DEF GuardTyped
  <2> QED BY <1>4, <2>1, ReorgFields
<1>5. ASSUME NEW acct \in Accounts, SwitchAccount(acct) PROVE PlacesAgree'
  BY <1>5, SwitchFields
<1> QED BY <1>1, <1>2, <1>3, <1>4, <1>5, GuardMoves

(* The detector fails only what is out of a reorganisation's reach.        *)
LEMMA FailedIsDeepStep == GuardTyped /\ PlacesAgree /\ FailedIsDeep /\ [GuardNext]_guardVars => FailedIsDeep'
<1> SUFFICES ASSUME GuardTyped, PlacesAgree, FailedIsDeep, [GuardNext]_guardVars PROVE FailedIsDeep'
  OBVIOUS
<1>t. head \in Nat /\ MinConfirmations \in Nat \ {0} /\ \A a \in Attempts : tx[a].at \in Nat
  BY GuardAssumption DEF GuardTyped, TxRecords
<1>s. scan.head \in Nat
  BY DEF GuardTyped
<1>0. ASSUME scan' = scan \/ scan' = NoScan \/ scan'.head = head, head <= head', head' \in Nat,
             \A a \in Attempts :
                /\ tx'[a].at = tx[a].at \/ tx'[a].at = head' \/ tx'[a].at = 0
                /\ vault'[a].failed => vault[a].failed /\ tx'[a] = tx[a]
      PROVE  FailedIsDeep'
  <2>1. scan'.head <= head'
    BY <1>0, <1>t, <1>s DEF FailedIsDeep, NoScan
  <2>2. ASSUME NEW a \in Attempts PROVE tx'[a].at <= head'
    BY <1>0, <1>t DEF FailedIsDeep
  <2>3. ASSUME NEW a \in Attempts, vault'[a].failed
        PROVE  tx'[a].fate = "reverted" /\ head' - tx'[a].at >= MinConfirmations
    BY <1>0, <1>t, <2>3 DEF FailedIsDeep
  <2> QED BY <2>1, <2>2, <2>3 DEF FailedIsDeep
<1>1. ASSUME NEW a \in Attempts, AttemptMoves(a) PROVE FailedIsDeep'
  <2>1. \A b \in Attempts \ {a} : tx'[b] = tx[b] /\ vault'[b] = vault[b]
    BY <1>1 DEF AttemptMoves, OthersStay
  <2>2. scan' = scan /\ head' = head
    BY <1>1 DEF AttemptMoves
  <2>3. CASE Signs(a)
    <3>1. ~vault[a].failed
      BY <2>3 DEF Signs, FailedIsDeep, PlacesAgree, At, Unsent
    <3>2. tx'[a].at = 0 /\ ~vault'[a].failed
      BY <2>3, <3>1 DEF Signs
    <3> QED BY <1>0, <1>t, <2>1, <2>2, <3>2
  <2>4. CASE Persists(a)
    <3>1. tx'[a] = tx[a] /\ ~vault'[a].failed
      BY <2>4 DEF Persists
    <3> QED BY <1>0, <1>t, <2>1, <2>2, <3>1
  <2>5. CASE SameDeposit(a)
    BY <1>0, <1>t, <2>1, <2>2, <2>5 DEF SameDeposit
  <2> QED BY <1>1, <2>3, <2>4, <2>5 DEF AttemptMoves, Clicks, Ends, Checks, Prepares
<1>2. CASE Reload
  <2>1. ASSUME NEW a \in Attempts, vault[a].failed PROVE ~At(a, "sign")
    BY <2>1 DEF FailedIsDeep, PlacesAgree, At, Unsent
  <2>2. ASSUME NEW a \in Attempts
        PROVE  /\ tx'[a].at = tx[a].at \/ tx'[a].at = head' \/ tx'[a].at = 0
               /\ vault'[a].failed => vault[a].failed /\ tx'[a] = tx[a]
    BY <1>2, <2>1, ReloadFields
  <2> QED BY <1>0, <1>2, <1>t, <2>2, ReloadFields
<1>3. ASSUME NEW depth \in 1 .. MaxReorgDepth, Reorg(depth) PROVE FailedIsDeep'
  <2>1. ASSUME NEW a \in Attempts, vault[a].failed PROVE ~(tx[a].at > head - depth)
    <3>1. head - tx[a].at >= MinConfirmations /\ MaxReorgDepth < MinConfirmations /\ depth <= MaxReorgDepth
      BY <2>1, GuardAssumption DEF FailedIsDeep
    <3>2. MaxReorgDepth \in Nat
      BY GuardAssumption
    <3> QED BY <3>1, <3>2, <1>t
  <2>2. ASSUME NEW a \in Attempts
        PROVE  /\ tx'[a].at = tx[a].at \/ tx'[a].at = head' \/ tx'[a].at = 0
               /\ vault'[a].failed => vault[a].failed /\ tx'[a] = tx[a]
    BY <1>3, <2>1, ReorgFields
  <2> QED BY <1>0, <1>3, <1>t, <2>2, ReorgFields
<1>4. ASSUME NEW acct \in Accounts, SwitchAccount(acct) PROVE FailedIsDeep'
  BY <1>0, <1>4, <1>t, SwitchFields
<1>5. CASE (ChainStep /\ ~(\E depth \in 1 .. MaxReorgDepth : Reorg(depth))) \/ Cancel \/ UNCHANGED guardVars
  <2>1. ChainOnly
    BY <1>5, ChainOnlySteps
  <2>2. \A a \in Attempts : vault'[a].failed = vault[a].failed
    <3>1. ASSUME NEW a \in Attempts, Age(a) \/ Reconcile(a)
          PROVE  \A b \in Attempts : vault'[b].failed = vault[b].failed
      BY <3>1 DEF Age, Reconcile, GuardTyped, NoteRecords
    <3>2. CASE vault' = vault
      BY <3>2
    <3> QED BY <1>5, <3>1, <3>2 DEF ChainStep, Drop, Hydrate, Mine, EmptyBlock, Cancel, guardVars
  <2>3. scan' = scan
    BY <1>5 DEF ChainStep, Drop, Age, Reconcile, Hydrate, Mine, EmptyBlock, Cancel, guardVars
  <2>4. ASSUME NEW a \in Attempts
        PROVE  /\ tx'[a].at = tx[a].at \/ tx'[a].at = head' \/ tx'[a].at = 0
               /\ vault'[a].failed => vault[a].failed /\ tx'[a] = tx[a]
    BY <2>1, <2>2 DEF ChainOnly, FailedIsDeep
  <2>5. head <= head' /\ head' \in Nat
    BY <2>1, GuardTypedStep DEF ChainOnly, GuardTyped
  <2> QED BY <1>0, <2>3, <2>4, <2>5
<1>6. CASE ScanHead
  BY <1>0, <1>6, <1>t DEF ScanHead, chainVars
<1>7. CASE ScanReceipts
  <2>1. scan' = NoScan /\ head' = head /\ tx' = tx
    BY <1>7 DEF ScanReceipts, chainVars
  <2>2. ASSUME NEW a \in Attempts, vault'[a].failed
        PROVE  tx[a].fate = "reverted" /\ head - tx[a].at >= MinConfirmations
    <3>1. vault[a].failed \/ a \in Decided("reverted")
      BY <1>7, <2>2 DEF ScanReceipts, GuardTyped, NoteRecords
    <3>2. CASE vault[a].failed
      BY <3>2 DEF FailedIsDeep
    <3>3. CASE a \in Decided("reverted")
      <4>1. tx[a].fate = "reverted" /\ scan.head - tx[a].at >= MinConfirmations
        BY <3>3 DEF Decided, Confirmed
      <4> QED BY <4>1, <1>t, <1>s DEF FailedIsDeep
    <3> QED BY <3>1, <3>2, <3>3
  <2> QED BY <2>1, <2>2, <1>t DEF FailedIsDeep, NoScan
<1>8. \/ \E a \in Attempts : AttemptMoves(a)
      \/ Reload \/ (\E depth \in 1 .. MaxReorgDepth : Reorg(depth))
      \/ (\E acct \in Accounts : SwitchAccount(acct))
      \/ (ChainStep /\ ~(\E depth \in 1 .. MaxReorgDepth : Reorg(depth))) \/ Cancel
      \/ UNCHANGED guardVars \/ ScanHead \/ ScanReceipts
  BY AttemptMakesAMove DEF GuardNext
<1> QED BY <1>1, <1>2, <1>3, <1>4, <1>5, <1>6, <1>7, <1>8

(* What the faults that have not struck say of the steps.                  *)
LEMMA BudgetsStand ==
    ASSUME GuardTyped, [GuardNext]_guardVars
    PROVE  /\ NeverSwitched' => NeverSwitched /\ ~(\E acct \in Accounts : SwitchAccount(acct))
           /\ NothingFailed' => NothingFailed /\ ~Reload /\ budget'.errors = MaxErrors
<1> USE DEF NeverSwitched, NothingFailed
<1>0. /\ budget.errors <= MaxErrors /\ budget.errors \in Nat /\ MaxErrors \in Nat
      /\ budget'.errors <= MaxErrors /\ budget'.errors \in Nat
  BY GuardAssumption, GuardTypedStep DEF GuardTyped, Budgets
<1>1. Reload => budget'.reloads # MaxReloads
  BY ReloadFields
<1>3. (\E acct \in Accounts : SwitchAccount(acct)) => budget'.switches # MaxSwitches
  BY SwitchFields
<1>5. CASE ChainOnly
  <2>1. budget' = budget
    BY <1>5 DEF ChainOnly
  <2> QED BY <2>1, <1>1, <1>3
<1>6. CASE \E a \in Attempts : AttemptMoves(a)
  <2>1. /\ budget'.switches = budget.switches
        /\ budget'.reloads = budget.reloads /\ budget'.errors <= budget.errors
    BY <1>6 DEF AttemptMoves
  <2>2. budget'.errors = MaxErrors => budget.errors = MaxErrors
    BY <2>1, <1>0
  <2> QED BY <2>1, <2>2, <1>1, <1>3
<1>4. CASE Reload \/ (\E depth \in 1 .. MaxReorgDepth : Reorg(depth)) \/ (\E acct \in Accounts : SwitchAccount(acct))
  <2>4. Reload => budget'.switches = budget.switches /\ budget'.errors = budget.errors
    BY ReloadFields
  <2>5. (\E depth \in 1 .. MaxReorgDepth : Reorg(depth)) =>
            budget'.reloads = budget.reloads /\ budget'.switches = budget.switches /\ budget'.errors = budget.errors
    BY ReorgFields
  <2>6. (\E acct \in Accounts : SwitchAccount(acct)) =>
            budget'.reloads = budget.reloads /\ budget'.errors = budget.errors
    BY SwitchFields
  <2> QED BY <1>4, <1>1, <1>3, <2>4, <2>5, <2>6
<1> QED BY <1>4, <1>5, <1>6, GuardMoves

(* The attempt under way keeps the lock, as long as the account stays.     *)
LEMMA OneAtATimeStep ==
    GuardTyped /\ OneAtATime /\ [GuardNext]_guardVars /\ NeverSwitched' => OneAtATime'
<1> SUFFICES ASSUME GuardTyped, OneAtATime, [GuardNext]_guardVars, NeverSwitched' PROVE OneAtATime'
  OBVIOUS
<1> USE DEF At, Active
<1>1. ASSUME NEW a \in Attempts, AttemptMoves(a) PROVE OneAtATime'
  <2>0. /\ \A b \in Attempts \ {a} : flow'[b] = flow[b]
        /\ account' = account
    BY <1>1 DEF AttemptMoves, OthersStay
  <2>1. CASE Clicks(a)
    <3>1. \A b \in Attempts : flow[b].pc \in {"new", "done"}
      BY <2>1 DEF Clicks, OneAtATime
    <3>2. \A b \in Attempts : b < a => flow[b].pc = "done"
      <4>1. ASSUME NEW b \in Attempts, b < a PROVE b \in 1 .. a - 1
        BY <4>1, GuardAssumption DEF Attempts
      <4> QED BY <2>1, <3>1, <4>1 DEF Clicks
    <3>3. flow[a].pc = "new" /\ flow'[a].account = account /\ inFlight' = TRUE /\ abortRef' = a
          /\ flow'[a].pc \notin {"new", "done"}
      BY <2>1 DEF Clicks
    <3>4. ASSUME NEW b \in Attempts, b > a PROVE flow[b].pc = "new"
      BY <3>3, <3>4, <3>1 DEF OneAtATime
    <3>5. ASSUME NEW b \in Attempts PROVE Active(b)' => inFlight' /\ abortRef' = b
      BY <2>0, <3>1, <3>3
    <3>6. ASSUME NEW b \in Attempts, flow'[b].pc # "new" PROVE flow'[b].account = account'
      BY <2>0, <3>3, <3>6 DEF OneAtATime
    <3>7. ASSUME NEW b \in Attempts, NEW c \in Attempts, b < c, flow'[c].pc # "new" PROVE flow'[b].pc = "done"
      <4>0. b # c /\ a \in Int /\ b \in Int /\ c \in Int
        BY <3>7 DEF Attempts
      <4>1. CASE c = a
        BY <2>0, <3>2, <3>7, <4>0, <4>1
      <4>2. CASE c # a
        <5>1. flow[c].pc # "new" /\ flow[b].pc = "done"
          BY <2>0, <3>7, <4>2 DEF OneAtATime
        <5>2. b # a
          BY <3>3, <5>1
        <5> QED BY <2>0, <5>1, <5>2
      <4> QED BY <4>1, <4>2
    <3> QED BY <3>5, <3>6, <3>7 DEF OneAtATime
  <2>2. CASE Ends(a)
    <3>1. /\ flow[a].pc \notin {"new", "done"} /\ flow'[a].pc = "done" /\ flow'[a].account = flow[a].account
      BY <2>2 DEF Ends, SameFields
    <3>2. \A b \in Attempts \ {a} : ~Active(b)
      BY <3>1 DEF OneAtATime
    <3> QED BY <2>0, <3>1, <3>2 DEF OneAtATime
  <2>3. ASSUME flow[a].pc \notin {"new", "done"}, flow'[a].pc \notin {"new", "done"},
               flow'[a].account = flow[a].account, SameLocks
        PROVE  OneAtATime'
    BY <2>0, <2>3 DEF OneAtATime, SameLocks
  <2> QED BY <1>1, <2>1, <2>2, <2>3 DEF AttemptMoves, Checks, Prepares, Signs, Persists, SameFields
<1>2. CASE ChainOnly
  BY <1>2 DEF ChainOnly, OneAtATime, SameFields
<1>3. CASE Reload
  <2>1. /\ \A a \in Attempts : /\ flow'[a].pc = (IF At(a, "new") THEN "new" ELSE "done")
                               /\ flow'[a].account = flow[a].account
        /\ account' = account
    BY <1>3, ReloadFields DEF SameFields
  <2> QED BY <2>1 DEF OneAtATime
<1>4. ASSUME NEW depth \in 1 .. MaxReorgDepth, Reorg(depth) PROVE OneAtATime'
  BY <1>4, ReorgFields DEF OneAtATime
<1> QED BY <1>1, <1>2, <1>3, <1>4, GuardMoves, BudgetsStand

(* Until something fails, what is sent has its note, or is about to.       *)
LEMMA SentHasNoteStep ==
    GuardTyped /\ PlacesAgree /\ SentHasNote /\ [GuardNext]_guardVars /\ NothingFailed' => SentHasNote'
<1> SUFFICES ASSUME GuardTyped, PlacesAgree, SentHasNote, [GuardNext]_guardVars, NothingFailed'
             PROVE  SentHasNote'
  OBVIOUS
<1> USE DEF At, SentHasNote
<1>1. ASSUME NEW a \in Attempts, AttemptMoves(a) PROVE SentHasNote'
  <2>0. \A b \in Attempts \ {a} : flow'[b] = flow[b] /\ tx'[b] = tx[b] /\ vault'[b] = vault[b]
    BY <1>1 DEF AttemptMoves, OthersStay
  <2>1. ASSUME flow[a].pc # "persist", SameDeposit(a) PROVE SentHasNote'
    BY <2>0, <2>1 DEF SameDeposit
  <2>2. CASE Ends(a)
    <3>1. flow[a].pc # "persist"
      BY <2>2, BudgetsStand DEF Ends
    <3> QED BY <2>1, <2>2, <3>1 DEF Ends
  <2>3. CASE Signs(a)
    BY <2>0, <2>3 DEF Signs
  <2>4. CASE Persists(a)
    BY <2>0, <2>4 DEF Persists
  <2> QED BY <1>1, <2>1, <2>2, <2>3, <2>4 DEF AttemptMoves, Clicks, Checks, Prepares
<1>2. CASE ChainOnly
  BY <1>2 DEF ChainOnly
<1>3. ASSUME NEW depth \in 1 .. MaxReorgDepth, Reorg(depth) PROVE SentHasNote'
  <2>1. /\ \A a \in Attempts : tx'[a] = tx[a] \/ tx[a].at > head - depth
        /\ flow' = flow /\ vault' = vault /\ depth < head
    BY <1>3, ReorgFields
  <2>2. ASSUME NEW a \in Attempts, tx[a].at > head - depth PROVE tx[a].fate # "none"
    <3>1. head - depth > 0 /\ head - depth \in Nat
      BY <2>1, <1>3 DEF GuardTyped
    <3>2. tx[a].at # 0
      BY <3>1, <2>2
    <3> QED BY <3>2, <2>2 DEF PlacesAgree, Unsent, SentHasNote
  <2> QED BY <2>1, <2>2
<1>4. ASSUME NEW acct \in Accounts, SwitchAccount(acct) PROVE SentHasNote'
  <2>1. tx' = tx /\ vault' = vault /\ \A a \in Attempts : flow'[a].pc = (IF a = parked THEN "done" ELSE flow[a].pc)
    BY <1>4, SwitchFields
  <2>2. \A a \in Attempts : a = parked => flow[a].pc = "confirm"
    BY DEF PlacesAgree, Attempts
  <2> QED BY <2>1, <2>2 DEF PlacesAgree, Unsent
<1> QED BY <1>1, <1>2, <1>3, <1>4, GuardMoves, BudgetsStand

(* An attempt keeps minding a note until it rules it out.                  *)
LEMMA EarlierIsMindedStep ==
    GuardTyped /\ PlacesAgree /\ EarlierIsMinded /\ [GuardNext]_guardVars => EarlierIsMinded'
<1> USE DEF At
<1> DEFINE Under(a, b) == a \in flow[b].beside \/ vault[a].saved \/ flow[a].pc = "done"
           Minded(a, b) == \/ a \in flow[b].beside \cup flow[b].ruledOut
                           \/ vault[a].failed
                           \/ Minds(flow[b], a)
                           \/ flow[b].pc = "done" /\ tx[b].fate = "none"
           Fine(a, b) == /\ flow[a].pc # "new"
                         /\ Under(a, b)
                         /\ vault[a].saved /\ flow[a].account = flow[b].account => Minded(a, b)
<1> SUFFICES ASSUME GuardTyped, PlacesAgree, EarlierIsMinded, [GuardNext]_guardVars,
                    NEW a \in Attempts, NEW b \in Attempts, a < b, flow'[b].pc # "new"
             PROVE  Fine(a, b)'
  BY DEF EarlierIsMinded
<1>0. a # b /\ a \in 1 .. b - 1
  BY GuardAssumption DEF Attempts
<1>1. flow[b].pc # "new" => Fine(a, b)
  BY DEF EarlierIsMinded
<1>3. flow[b].pc \in {"poll", "classify", "lookup", "confirm"} => tx[b].fate = "none"
  BY DEF PlacesAgree, Unsent
<1>4. ASSUME NEW x \in Attempts, AttemptMoves(x) PROVE Fine(a, b)'
  <2>1. \A c \in Attempts \ {x} : flow'[c] = flow[c] /\ tx'[c] = tx[c] /\ vault'[c] = vault[c]
    BY <1>4 DEF AttemptMoves, OthersStay
  <2>2. CASE x = a
    <3>1. flow[b].pc # "new" /\ flow'[b] = flow[b] /\ tx'[b] = tx[b] /\ Fine(a, b)
      BY <2>1, <2>2, <1>0, <1>1
    <3>2. CASE Persists(a)
      <4>1. a \in flow[b].beside /\ flow'[a].pc = "wait" /\ vault'[a].saved
        BY <3>1, <3>2 DEF Persists, PlacesAgree
      <4> QED BY <3>1, <4>1
    <3>3. ASSUME flow[a].pc \notin {"new", "done"}, vault'[a] = vault[a], flow'[a].pc # "new",
                 flow'[a].account = flow[a].account
          PROVE  Fine(a, b)'
      BY <3>1, <3>3
    <3> QED BY <1>4, <2>2, <3>1, <3>2, <3>3
            DEF AttemptMoves, Clicks, Ends, Checks, Prepares, Signs, SameFields, SameDeposit
  <2>3. CASE x # a /\ x # b
    BY <2>1, <2>3, <1>1
  <2>4. CASE x = b
    <3>0. flow'[a] = flow[a] /\ tx'[a] = tx[a] /\ vault'[a] = vault[a]
      BY <2>1, <2>4, <1>0
    <3>1. CASE Clicks(b)
      <4>1. flow[a].pc # "new"
        BY <3>1, <1>0 DEF Clicks
      <4>2. a \in flow'[b].beside \/ flow[a].pc = "done"
        BY <3>1, <4>1 DEF Clicks, Active
      <4>3. ASSUME vault[a].saved, flow[a].account = account, ~vault[a].failed PROVE Minds(flow'[b], a)
        <5>1. ~vault[a].leaf
          BY <3>1, <4>3 DEF Clicks, Covered, NotesOf
        <5>2. a \in Pending(account)
          BY <4>3, <5>1 DEF Pending, NotesOf, IsPendingDeposit
        <5>3. flow'[b].pc = "poll" /\ a \in flow'[b].todo
          BY <3>1, <5>2 DEF Clicks
        <5> QED BY <5>3 DEF Minds
      <4>4. flow'[b].account = account
        BY <3>1 DEF Clicks
      <4> QED BY <3>0, <4>1, <4>2, <4>3, <4>4
    <3>2. CASE Ends(b)
      <4>1. /\ flow'[b].confirmed = flow[b].confirmed /\ flow'[b].pc = "done" /\ tx'[b] = tx[b]
            /\ flow'[b].account = flow[b].account /\ flow'[b].beside = flow[b].beside
            /\ flow'[b].ruledOut = flow[b].ruledOut /\ Fine(a, b)
        BY <3>2, <1>1 DEF Ends, SameFields, SameCheck, SameDeposit
      <4>2. Minds(flow[b], a) => Minds(flow'[b], a) \/ tx'[b].fate = "none"
        BY <4>1, <1>3 DEF Minds
      <4> QED BY <3>0, <4>1, <4>2
    <3>3. CASE Checks(b)
      <4>1. /\ Fine(a, b) /\ flow[b].pc # "done" /\ flow'[b].account = flow[b].account
            /\ flow'[b].beside = flow[b].beside /\ flow[b].ruledOut \subseteq flow'[b].ruledOut
        BY <3>3, <1>1 DEF Checks
      <4>2. Minds(flow[b], a) => Minds(flow'[b], a) \/ a \in flow'[b].ruledOut
        BY <3>3 DEF Checks
      <4> QED BY <3>0, <4>1, <4>2
    <3>4. CASE Prepares(b) \/ Signs(b) \/ Persists(b)
      <4>1. /\ flow[b].pc \in {"prepare", "sign", "persist"} /\ flow'[b].confirmed = flow[b].confirmed
            /\ flow'[b].account = flow[b].account /\ flow'[b].beside = flow[b].beside
            /\ flow'[b].ruledOut = flow[b].ruledOut /\ Fine(a, b)
        BY <3>4, <1>1 DEF Prepares, Signs, Persists, SameFields, SameCheck
      <4>2. Minds(flow[b], a) => Minds(flow'[b], a)
        BY <4>1 DEF Minds
      <4> QED BY <3>0, <4>1, <4>2
    <3> QED BY <1>4, <2>4, <3>1, <3>2, <3>3, <3>4 DEF AttemptMoves
  <2> QED BY <2>2, <2>3, <2>4
<1>5. ASSUME flow[b].pc # "new", flow'[a].pc = flow[a].pc \/ flow'[a].pc = "done",
             SameFields(flow'[a], flow[a]), SameFields(flow'[b], flow[b]), SameCheck(flow'[b], flow[b]),
             vault'[a].saved = vault[a].saved, vault[a].failed => vault'[a].failed,
             \/ flow'[b].pc = flow[b].pc
             \/ flow'[b].pc = "done" /\ (flow[b].pc \in {"poll", "classify", "lookup", "confirm"} => tx'[b] = tx[b]),
             flow[b].pc = "done" /\ tx[b].fate = "none" => tx'[b] = tx[b]
      PROVE  Fine(a, b)'
  <2>1. /\ Fine(a, b) /\ flow'[b].confirmed = flow[b].confirmed /\ flow'[b].todo = flow[b].todo
        /\ flow'[b].ambiguous = flow[b].ambiguous /\ flow'[b].ruledOut = flow[b].ruledOut
        /\ flow'[b].beside = flow[b].beside
        /\ flow'[b].account = flow[b].account /\ flow'[a].account = flow[a].account
    BY <1>5, <1>1 DEF SameFields, SameCheck
  <2>2. Minds(flow[b], a) => Minds(flow'[b], a) \/ (flow'[b].pc = "done" /\ tx'[b].fate = "none")
    BY <2>1, <1>3, <1>5 DEF Minds
  <2>3. flow[b].pc = "done" /\ tx[b].fate = "none" => flow'[b].pc = "done" /\ tx'[b].fate = "none"
    BY <1>5
  <2>4. flow'[a].pc # "new" /\ Under(a, b)'
    BY <2>1, <1>5
  <2> QED BY <2>1, <2>2, <2>3, <2>4, <1>5
<1>6. CASE ChainOnly
  <2>1. /\ flow'[a].pc = flow[a].pc /\ flow'[b].pc = flow[b].pc
        /\ SameFields(flow'[a], flow[a]) /\ SameFields(flow'[b], flow[b]) /\ SameCheck(flow'[b], flow[b])
        /\ vault'[a].saved = vault[a].saved /\ (vault[a].failed => vault'[a].failed)
        /\ tx'[b] = tx[b] \/ tx[b].fate = "pending"
    BY <1>6 DEF ChainOnly
  <2> QED BY <2>1, <1>5
<1>7. CASE Reload
  <2>1. \A c \in Attempts :
            /\ flow'[c].pc = (IF flow[c].pc = "new" THEN "new" ELSE "done")
            /\ SameFields(flow'[c], flow[c]) /\ SameCheck(flow'[c], flow[c])
            /\ tx'[c] = tx[c] \/ flow[c].pc = "sign"
            /\ vault'[c] = vault[c]
    BY <1>7, ReloadFields
  <2>2. flow[b].pc # "new" /\ flow[a].pc # "new"
    BY <2>1, <1>1
  <2> QED BY <2>1, <2>2, <1>5
<1>8. ASSUME NEW depth \in 1 .. MaxReorgDepth, Reorg(depth) PROVE Fine(a, b)'
  <2>1. /\ flow' = flow /\ vault' = vault /\ depth < head
        /\ tx'[b] = tx[b] \/ tx[b].at > head - depth
    BY <1>8, ReorgFields
  <2>2. tx[b].fate = "none" => tx'[b] = tx[b]
    <3>1. head - depth \in Nat
      BY <2>1 DEF GuardTyped
    <3> QED BY <2>1, <3>1 DEF PlacesAgree
  <2> QED BY <2>1, <2>2, <1>5 DEF SameFields, SameCheck
<1>9. ASSUME NEW acct \in Accounts, SwitchAccount(acct) PROVE Fine(a, b)'
  <2>1. /\ \A c \in Attempts :
              /\ flow'[c].pc = (IF c = parked THEN "done" ELSE flow[c].pc)
              /\ SameFields(flow'[c], flow[c]) /\ SameCheck(flow'[c], flow[c])
        /\ tx' = tx /\ vault' = vault
    BY <1>9, SwitchFields
  <2>2. \A c \in Attempts : c = parked => flow[c].pc = "confirm"
    BY DEF PlacesAgree, Attempts
  <2> QED BY <2>1, <2>2, <1>5
<1> QED BY <1>4, <1>6, <1>7, <1>8, <1>9, GuardMoves

(* Every step keeps the invariant.                                         *)
LEMMA GuardInvStep == GuardInv /\ [GuardNext]_guardVars => GuardInv'
<1> SUFFICES ASSUME GuardInv, [GuardNext]_guardVars PROVE GuardInv'
  OBVIOUS
<1> USE DEF GuardInv
<1>1. GuardTyped' /\ PlacesAgree' /\ FailedIsDeep'
  BY GuardTypedStep, PlacesAgreeStep, FailedIsDeepStep
<1>2. NeverSwitched' => OneAtATime'
  BY BudgetsStand, OneAtATimeStep
<1>3. NothingFailed' => SentHasNote'
  BY BudgetsStand, SentHasNoteStep
<1>4. EarlierIsMinded'
  BY EarlierIsMindedStep
<1> QED BY <1>1, <1>2, <1>3, <1>4

(* At every moment the invariant of the deposits holds.                    *)
LEMMA GuardInvHolds == GuardSpec => []GuardInv
  BY GuardInvInit, GuardInvStep, PTL DEF GuardSpec

(* What the invariant says of the deposits: one attempt under way, no      *)
(* failed note that lands, no landed deposit without its note.             *)
LEMMA SoundFromInv == GuardInv => DepositsAreSound
<1> SUFFICES ASSUME GuardInv PROVE DepositsAreSound
  OBVIOUS
<1>1. GuardTypeOK
  BY DEF GuardInv, PlacesAgree, GuardTypeOK
<1>2. FailedNeverLands
  BY DEF GuardInv, FailedIsDeep, FailedNeverLands
<1>3. ASSUME NeverSwitched PROVE OneAttempt
  <2> DEFINE S == {a \in Attempts : Active(a) /\ ~flow[a].aborted}
  <2>1. S \subseteq {abortRef}
    BY <1>3 DEF GuardInv, OneAtATime
  <2>2. IsFiniteSet({abortRef}) /\ Cardinality({abortRef}) = 1
    BY FS_Singleton
  <2>3. IsFiniteSet(S) /\ Cardinality(S) <= Cardinality({abortRef})
    BY <2>1, <2>2, FS_Subset
  <2> QED BY <2>2, <2>3 DEF OneAttempt
<1>4. ASSUME NothingFailed PROVE LandedHasNote
  BY <1>4 DEF GuardInv, SentHasNote, LandedHasNote, At
<1> QED BY <1>1, <1>2, <1>3, <1>4 DEF DepositsAreSound

(* What it says of a second deposit.                                       *)
LEMMA SilentFromInv == GuardInv => RetryIsNeverSilent
<1> SUFFICES ASSUME GuardInv,
                    NEW a \in Attempts, NEW b \in Attempts, a < b, flow[a].account = flow[b].account,
                    vault[a].saved, tx[a].fate = "mined", tx[b].fate = "mined"
             PROVE  flow[b].confirmed \/ a \in flow[b].beside \cup flow[b].ruledOut
  BY DEF RetryIsNeverSilent
<1>1. flow[b].pc \notin Unsent
  BY DEF GuardInv, PlacesAgree
<1>2. ~vault[a].failed
  BY DEF GuardInv, FailedIsDeep
<1>3. a \in flow[b].beside \cup flow[b].ruledOut \/ Minds(flow[b], a)
  BY <1>1, <1>2 DEF GuardInv, EarlierIsMinded, At, Unsent
<1> QED BY <1>1, <1>3 DEF Minds, Unsent

(* A deposit the detector reports as failed does not land, however the     *)
(* chain is reorganised; within one account one attempt is under way at a  *)
(* time; and until a reload or a failed write, every deposit that lands    *)
(* has its note in the vault.  The locks of the button, vault.add before   *)
(* the receipt, and MIN_CONFIRMATIONS of the detector.                     *)
THEOREM DepositsStaySound == GuardSpec => []DepositsAreSound
  BY GuardInvHolds, SoundFromInv, PTL

(* However often the button is clicked and cancelled, the page reloaded,   *)
(* the account switched and the chain reorganised, and whatever a node     *)
(* forgets: when two deposits of an account land and the earlier one's     *)
(* note was stored, the user confirmed the later one, or it was clicked    *)
(* beside the earlier attempt, or the node had said that the earlier one   *)
(* reverted or is unknown.  assessDepositRetry looks at every pending note *)
(* and takes nothing but those two answers for safe.                       *)
THEOREM RetriesAreNeverSilent == GuardSpec => []RetryIsNeverSilent
  BY GuardInvHolds, SilentFromInv, PTL

-----------------------------------------------------------------------------
(* The vault.  First the types. *)

VaultFates == {"none", "pending", "landed", "reverted", "spent"}
Notes == [id : Ids, leaf : BOOLEAN, failed : BOOLEAN]
Files == [name : Nat, note : Notes]
Slots == 1 .. MaxOps
Removing == {"remove", "unlink", "sweep"}

Kinds == {"none", "load", "add", "patch", "remove"}
Pcs == {"done", "list", "read", "save", "clean", "put", "chain"} \cup Removing

OpRecords ==
    [kind : Kinds, id : Ids \cup {"none"}, gen : Nat,
     note : [id : Ids \cup {"none"}, leaf : BOOLEAN, failed : BOOLEAN],
     names : SUBSET Nat, loaded : SUBSET Files,
     pc : Pcs]

IsOp(s) == ops[s].kind \in {"add", "patch", "remove"}

(* What an operation of each kind goes through.                            *)
OpShape(op) ==
    /\ op.kind = "none" => op = NoOp
    /\ op.kind = "load" => op.pc \in {"list", "read"}
    /\ op.kind \in {"add", "patch", "remove"} => op.id \in Ids /\ op.loaded = {}
    /\ op.kind = "add" => op.pc \in {"save", "put"} /\ op.note = Note(op.id, FALSE, FALSE) /\ op.names = {}
    /\ op.kind = "patch" => /\ op.pc \in {"save", "clean", "put"} \cup Removing
                            /\ op.note \in Notes /\ op.note.id = op.id
    /\ op.kind = "remove" => op.pc \in {"chain"} \cup Removing

VaultTyped ==
    /\ written \in Nat /\ disk \subseteq Files
    /\ cache \in [Gens -> [Ids -> SUBSET Nat]]
    /\ gen \in Gens
    /\ notes \subseteq Notes /\ mirror \subseteq Notes
    /\ removedIds \subseteq Ids /\ added \subseteq Ids /\ gone \subseteq Ids
    /\ fate \in [Ids -> VaultFates]
    /\ ops \in [Slots -> OpRecords]
    /\ \A s \in Slots : OpShape(ops[s])
    /\ faults \in [switches : 0 .. MaxVaultSwitches, failures : 0 .. MaxFailures, crashes : 0 .. MaxCrashes]
    /\ gen = 1 + (MaxVaultSwitches - faults.switches) + 2 * (MaxCrashes - faults.crashes)

-----------------------------------------------------------------------------
(* The invariant.  The names. *)

(* Names are used once, and those an adapter or an operation holds for a   *)
(* note are of that note's files.                                          *)
NamesAreUnique ==
    /\ \A f, g \in disk : f.name = g.name => f = g
    /\ \A f \in disk : f.name \in 1 .. written
    /\ \A g \in Gens, id \in Ids : cache[g][id] \subseteq 1 .. written
    /\ \A s \in Slots : ops[s].names \subseteq 1 .. written

NamesAreOfTheirNote ==
    /\ \A g \in Gens, id \in Ids, f \in disk : f.name \in cache[g][id] => f.note.id = id
    /\ \A s \in Slots, f \in disk : IsOp(s) /\ f.name \in ops[s].names => f.note.id = ops[s].id

(* Nothing of the note is stored, shown or read.                           *)
NotStored(id) ==
    /\ \A f \in disk : f.note.id # id
    /\ \A g \in Gens : cache[g][id] = {}
NotShown(id) ==
    /\ \A n \in notes \cup mirror : n.id # id
    /\ \A t \in Slots : \A f \in ops[t].loaded : f.note.id # id

(* A note that is being added is known to nobody else.                     *)
AddedIsUnknown(s) ==
    /\ fate[ops[s].id] \in {"pending", "landed", "reverted"}
    /\ NotShown(ops[s].id)
    /\ \A t \in Slots \ {s} : IsOp(t) => ops[t].id # ops[s].id
    /\ OpAt(s, "save") => NotStored(ops[s].id)
    /\ OpAt(s, "put") => \A f \in disk : f.note.id = ops[s].id => f.note = ops[s].note

NewIsUnknown ==
    /\ \A id \in Ids : fate[id] = "none" =>
          NotStored(id) /\ NotShown(id) /\ \A t \in Slots : IsOp(t) => ops[t].id # id
    /\ \A s \in Slots : ops[s].kind = "add" => AddedIsUnknown(s)

ShownOnce == \A n, m \in notes : n.id = m.id => n = m

(* Removals are of spent notes; a write that is not overtaken is of a note *)
(* the provider shows.                                                     *)
OnlySpentIsRemoved ==
    /\ \A id \in removedIds : fate[id] = "spent"
    /\ \A s \in Slots : ops[s].pc \in Removing => fate[ops[s].id] = "spent"
    /\ \A s \in Slots : ops[s].kind # "none" => ops[s].gen \in 1 .. gen
    /\ \A s \in Slots : ops[s].kind = "patch" /\ ops[s].gen = gen /\ fate[ops[s].id] # "spent" =>
          HasId(mirror, ops[s].id)
    /\ \A id \in Ids : HasId(mirror, id) /\ fate[id] # "spent" => HasId(notes, id)

(* Until it is spent a note has a file, newer than those a write deletes.  *)
HasFile(id) == \E f \in disk : f.note.id = id
UnspentIsStored ==
    /\ \A id \in added : fate[id] # "spent" => HasFile(id)
    /\ \A s \in Slots : OpAt(s, "put") /\ fate[ops[s].id] # "spent" => HasFile(ops[s].id)
    /\ \A s \in Slots : OpAt(s, "clean") /\ fate[ops[s].id] # "spent" =>
          \E f \in disk : f.note.id = ops[s].id /\ \A k \in ops[s].names : k < f.name

StorageInv ==
    /\ VaultTyped /\ NamesAreUnique /\ NamesAreOfTheirNote /\ NewIsUnknown /\ ShownOnce
    /\ OnlySpentIsRemoved /\ UnspentIsStored

-----------------------------------------------------------------------------
(* The invariant within one account. *)

(* The operations are of the current adapter, and a load is alone.         *)
LoadsFirst ==
    /\ \A s \in Slots : ops[s].kind # "none" => ops[s].gen = gen
    /\ \A s \in Slots : ops[s].kind = "load" =>
          /\ notes = {} /\ mirror = {} /\ removedIds = {}
          /\ \A t \in Slots \ {s} : ops[t].kind = "none"
          /\ ops[s].loaded \subseteq disk
          /\ OpAt(s, "read") =>
                \A f \in disk : \/ f.name \in ops[s].names
                                \/ f \in ops[s].loaded /\ f.name \in cache[gen][f.note.id]

Landed(id) == fate[id] \in {"landed", "spent"}

(* A leaf index is of a deposit that landed; a spent note with operations  *)
(* in flight is in removedIds, and the provider shows its index.           *)
IndexOfLanded ==
    /\ \A f \in disk : f.note.leaf => Landed(f.note.id)
    /\ \A n \in notes \cup mirror : n.leaf => Landed(n.id)
    /\ \A s \in Slots : ops[s].kind = "patch" =>
          /\ fate[ops[s].id] \in {"landed", "reverted", "spent"}
          /\ ops[s].note.leaf <=> Landed(ops[s].id)
    /\ \A s \in Slots : ops[s].kind = "remove" => Landed(ops[s].id)

RemovedIsKnown ==
    /\ \A s \in Slots : IsOp(s) /\ fate[ops[s].id] = "spent" => ops[s].id \in removedIds
    /\ \A n \in notes : n.id \in removedIds \/ (\E s \in Slots : ops[s].kind = "remove" /\ ops[s].id = n.id) => n.leaf

(* An index that is stored and not shown is about to be.                   *)
IndexIsComing ==
    \A n \in notes, f \in disk : f.note.id = n.id /\ f.note.leaf /\ ~n.leaf =>
        \E s \in Slots : ops[s].kind = "patch" /\ ops[s].id = n.id /\ ops[s].pc \in {"clean", "put"}

(* A stored note that is not removed is shown, or about to be.             *)
StoredIsComing ==
    \A f \in disk : f.note.id \notin removedIds =>
        \/ HasId(notes, f.note.id)
        \/ \E s \in Slots : \/ ops[s].kind = "load"
                            \/ ops[s].kind = "add" /\ ops[s].id = f.note.id /\ OpAt(s, "put")

AccountInv == LoadsFirst /\ IndexOfLanded /\ RemovedIsKnown /\ IndexIsComing /\ StoredIsComing

-----------------------------------------------------------------------------
(* While every deletion succeeds. *)

Removes(s, id) == ops[s].kind = "remove" /\ ops[s].id = id /\ ops[s].pc \in Removing
Patches(s, id) == ops[s].kind = "patch" /\ ops[s].id = id

(* A note that is shown has a file, or is being removed.                   *)
ShownIsBacked ==
    /\ \A n \in notes : HasFile(n.id) \/ \E s \in Slots : Removes(s, n.id)
    /\ \A n \in notes : n.id \in removedIds => \E s \in Slots : Removes(s, n.id)

(* Operation s has listed the file for deletion.                           *)
Lists(s, f) ==
    /\ ops[s].kind \in {"patch", "remove"} /\ ops[s].id = f.note.id
    /\ ops[s].pc \in {"clean", "unlink", "sweep"} /\ f.name \in ops[s].names

(* Operation s has written, and will look for files to remove.             *)
WillRemove(s, id) == Patches(s, id) /\ ops[s].pc \in {"clean", "put", "remove"}

(* With two operations at most: a file of a loaded adapter is one it       *)
(* knows, or is listed, or will be found by a walk.                        *)
FilesAreTraced ==
    \A f \in disk : (\E s \in Slots : ops[s].kind = "load") \/
        \/ f.name \in cache[gen][f.note.id]
        \/ \E s \in Slots : Lists(s, f)
        \/ /\ cache[gen][f.note.id] = {} /\ f.note.id \in removedIds
           /\ \E s \in Slots : WillRemove(s, f.note.id)

(* A removal has listed the files the adapter knows, but for those of a    *)
(* write that will look for them itself.                                   *)
RemovalsAreComplete ==
    \A s \in Slots, f \in disk :
        IsOp(s) /\ ops[s].pc \in {"unlink", "sweep"} /\ f.note.id = ops[s].id
          /\ f.name \in cache[gen][f.note.id] =>
            \/ f.name \in ops[s].names
            \/ \E t \in Slots \ {s} : \/ WillRemove(t, f.note.id)
                                      \/ Lists(t, f) /\ ops[t].pc \in {"unlink", "sweep"}

(* The files of a removed note have someone to remove them.                *)
RemovedIsRemoved ==
    \A id \in removedIds :
        /\ HasFile(id) => \E s \in Slots : Removes(s, id) \/ Patches(s, id)
        /\ \A s, t \in Slots : Patches(s, id) /\ Patches(t, id) => s = t

RemovalInv == FilesAreTraced /\ RemovalsAreComplete /\ RemovedIsRemoved

VaultInv ==
    /\ StorageInv
    /\ WaitsForLoad /\ SameAccount =>
          /\ AccountInv
          /\ NeverReloaded => gone \subseteq removedIds
          /\ EveryDeletionDone => ShownIsBacked
          /\ EveryDeletionDone /\ MaxOps <= 2 => RemovalInv

(* An empty slot is typed.                                                 *)
LEMMA NoOpTyped == NoOp \in OpRecords /\ OpShape(NoOp)
<1>1. Note("none", FALSE, FALSE) \in [id : Ids \cup {"none"}, leaf : BOOLEAN, failed : BOOLEAN]
  BY DEF Note
<1>2. NoOp \in OpRecords
  BY <1>1 DEF NoOp, OpRecords, Kinds, Pcs
<1> QED BY <1>2 DEF OpShape, NoOp

(* Operations with some fields changed.                                    *)
LEMMA OpEdits ==
    ASSUME NEW r \in OpRecords
    PROVE  /\ \A p \in Pcs : [r EXCEPT !.pc = p] \in OpRecords
           /\ \A N \in SUBSET Nat, p \in Pcs : [r EXCEPT !.names = N, !.pc = p] \in OpRecords
           /\ \A N \in SUBSET Nat, L \in SUBSET Files : [r EXCEPT !.names = N, !.loaded = L] \in OpRecords
           /\ \A k \in Kinds, g \in Nat, p \in Pcs : [r EXCEPT !.kind = k, !.gen = g, !.pc = p] \in OpRecords
           /\ \A k \in Kinds, i \in Ids, g \in Nat, p \in Pcs :
                 [r EXCEPT !.kind = k, !.id = i, !.gen = g, !.pc = p] \in OpRecords
           /\ \A k \in Kinds, i \in Ids, g \in Nat, n \in Notes, p \in Pcs :
                 [r EXCEPT !.kind = k, !.id = i, !.gen = g, !.note = n, !.pc = p] \in OpRecords
<1>1. \A n \in Notes : n \in [id : Ids \cup {"none"}, leaf : BOOLEAN, failed : BOOLEAN]
  BY DEF Notes
<1> QED BY <1>1 DEF OpRecords

(* Which kind an operation is, by where it is.                             *)
LEMMA KindOf ==
    ASSUME VaultTyped, NEW s \in Slots
    PROVE  /\ ops[s] \in OpRecords
           /\ ops[s].kind = "none" <=> ops[s] = NoOp
           /\ ops[s].kind = "none" => ops[s].pc = "done" /\ ops[s].names = {} /\ ops[s].loaded = {}
           /\ ops[s].pc \in {"save", "put"} => ops[s].kind \in {"add", "patch"}
           /\ ops[s].pc = "clean" => ops[s].kind = "patch"
           /\ ops[s].pc = "chain" => ops[s].kind = "remove"
           /\ ops[s].pc \in Removing => ops[s].kind \in {"patch", "remove"}
           /\ ops[s].pc \in {"list", "read"} => ops[s].kind = "load"
           /\ ops[s].kind \in {"add", "patch", "remove"} => ops[s].id \in Ids
           /\ ops[s].kind \in {"add", "patch"} => ops[s].note \in Notes /\ ops[s].note.id = ops[s].id
<1>1. ops[s] \in OpRecords /\ OpShape(ops[s])
  BY DEF VaultTyped
<1>2. NoOp.kind = "none" /\ NoOp.pc = "done" /\ NoOp.names = {} /\ NoOp.loaded = {}
  BY DEF NoOp
<1>3. ops[s].kind \in {"none", "load", "add", "patch", "remove"}
  BY <1>1 DEF OpRecords, Kinds
<1>4. ops[s].kind = "add" => ops[s].note \in Notes /\ ops[s].note.id = ops[s].id
  <2> SUFFICES ASSUME ops[s].kind = "add" PROVE ops[s].note \in Notes /\ ops[s].note.id = ops[s].id
    OBVIOUS
  <2>1. ops[s].note = Note(ops[s].id, FALSE, FALSE) /\ ops[s].id \in Ids
    BY <1>1 DEF OpShape
  <2> QED BY <2>1 DEF Note, Notes
<1>5. ops[s].kind = "patch" => ops[s].note \in Notes /\ ops[s].note.id = ops[s].id
  BY <1>1 DEF OpShape
<1> QED BY <1>1, <1>2, <1>3, <1>4, <1>5 DEF OpShape, Removing

(* The other operations stay.                                              *)
OthersGoOn(s) == \A t \in Slots \ {s} : ops'[t] = ops[t]

(* Operation s goes on elsewhere, ends, or begins.                         *)
GoesOn(s, pc, names) ==
    /\ OthersGoOn(s)
    /\ ops'[s].kind = ops[s].kind /\ ops'[s].id = ops[s].id /\ ops'[s].gen = ops[s].gen
    /\ ops'[s].note = ops[s].note
    /\ ops'[s].pc = pc /\ ops'[s].names = names

OpEnds(s) == OthersGoOn(s) /\ ops'[s] = NoOp

Begins(s, kind, id, note, pc) ==
    /\ ops[s] = NoOp /\ OthersGoOn(s)
    /\ ops'[s].kind = kind /\ ops'[s].id = id /\ ops'[s].gen = gen' /\ ops'[s].note = note
    /\ ops'[s].names = {} /\ ops'[s].loaded = {} /\ ops'[s].pc = pc

(* What ends leaves its slot.                                              *)
LEMMA EndEnds ==
    ASSUME VaultTyped, NEW s \in Slots, End(s)
    PROVE  OpEnds(s)
  BY DEF VaultTyped, End, OpEnds, OthersGoOn

(* An operation that goes to another place.                                *)
LEMMA GotoGoesOn ==
    ASSUME VaultTyped, NEW s \in Slots, NEW pc, OpGoto(s, pc)
    PROVE  GoesOn(s, pc, ops[s].names) /\ ops'[s].loaded = ops[s].loaded
<1>1. ops[s] \in OpRecords
  BY KindOf
<1> QED BY <1>1 DEF VaultTyped, OpRecords, OpGoto, GoesOn, OthersGoOn

(* What a write does to the folder and the adapter.                        *)
LEMMA SaveFields ==
    ASSUME VaultTyped, NEW s \in Slots, Save(s)
    PROVE  LET known == cache[ops[s].gen][ops[s].id] IN
           /\ ops[s].kind \in {"add", "patch"} /\ ops[s].pc = "save"
           /\ GoesOn(s, IF known = {} THEN "put" ELSE "clean", known) /\ ops'[s].loaded = ops[s].loaded
           /\ disk' = disk \cup {[name |-> written + 1, note |-> ops[s].note]} /\ written' = written + 1
           /\ \A g \in Gens, id \in Ids :
                 cache'[g][id] = IF g = ops[s].gen /\ id = ops[s].id THEN {written + 1} ELSE cache[g][id]
           /\ UNCHANGED <<gen, notes, mirror, removedIds, fate, added, gone, faults>>
<1> DEFINE known == cache[ops[s].gen][ops[s].id]
<1>1. ops[s] \in OpRecords /\ ops[s].kind \in {"add", "patch"} /\ ops[s].pc = "save"
  BY KindOf DEF Save, OpAt
<1>2. ops' = [ops EXCEPT ![s].names = known, ![s].pc = IF known = {} THEN "put" ELSE "clean"]
  BY DEF Save
<1>3. GoesOn(s, IF known = {} THEN "put" ELSE "clean", known) /\ ops'[s].loaded = ops[s].loaded
  BY <1>1, <1>2 DEF VaultTyped, OpRecords, GoesOn, OthersGoOn
<1>4. \A g \in Gens, id \in Ids :
          cache'[g][id] = IF g = ops[s].gen /\ id = ops[s].id THEN {written + 1} ELSE cache[g][id]
  BY DEF Save, VaultTyped
<1> QED BY <1>1, <1>3, <1>4 DEF Save

(* Deleting files.                                                         *)
Deletes(names) ==
    /\ disk' \subseteq disk
    /\ \A f \in disk : f.name \notin names => f \in disk'
    /\ EveryDeletionDone' => \A f \in disk' : f.name \notin names
    /\ faults' \in [switches : 0 .. MaxVaultSwitches, failures : 0 .. MaxFailures, crashes : 0 .. MaxCrashes]
    /\ faults'.switches = faults.switches /\ faults'.crashes = faults.crashes
    /\ EveryDeletionDone' => EveryDeletionDone

(* Files that are kept are few.                                            *)
LEMMA DeleteDeletes ==
    ASSUME VaultTyped, NEW names, names \subseteq 1 .. written, NEW kept, Delete(names, kept)
    PROVE  Deletes(names) /\ (EveryDeletionDone' => kept = {})
<1>1. IsFiniteSet(kept)
  <2>1. written \in Nat /\ IsFiniteSet(1 .. written)
    BY FS_Interval DEF VaultTyped
  <2>2. kept \subseteq 1 .. written
    BY DEF Delete
  <2> QED BY <2>1, <2>2, FS_Subset
<1>2. Cardinality(kept) \in Nat /\ (Cardinality(kept) = 0 => kept = {})
  BY <1>1, FS_CardinalityType, FS_EmptySet
<1>3. /\ faults \in [switches : 0 .. MaxVaultSwitches, failures : 0 .. MaxFailures, crashes : 0 .. MaxCrashes]
      /\ faults' = [faults EXCEPT !.failures = @ - Cardinality(kept)]
      /\ Cardinality(kept) <= faults.failures /\ MaxFailures \in Nat
      /\ disk' = {f \in disk : f.name \notin names \ kept}
  BY VaultAssumption DEF VaultTyped, Delete
<1>4. /\ faults'.failures = faults.failures - Cardinality(kept)
      /\ faults'.switches = faults.switches /\ faults'.crashes = faults.crashes
  BY <1>3
<1>5. faults.failures \in 0 .. MaxFailures
  BY <1>3
<1>6. faults'.failures \in 0 .. MaxFailures
  BY <1>2, <1>3, <1>4, <1>5
<1>7. faults' \in [switches : 0 .. MaxVaultSwitches, failures : 0 .. MaxFailures, crashes : 0 .. MaxCrashes]
  BY <1>3, <1>4, <1>6
<1>8. faults'.failures = MaxFailures => faults.failures = MaxFailures /\ Cardinality(kept) = 0
  BY <1>2, <1>3, <1>4, <1>5
<1>9. EveryDeletionDone' => kept = {} /\ EveryDeletionDone
  BY <1>2, <1>8 DEF EveryDeletionDone
<1> QED BY <1>3, <1>4, <1>7, <1>9 DEF Deletes

(* A write deletes the files it replaces.                                  *)
LEMMA CleanFields ==
    ASSUME VaultTyped, NamesAreUnique, NEW s \in Slots, Clean(s)
    PROVE  /\ ops[s].kind = "patch" /\ ops[s].pc = "clean"
           /\ GoesOn(s, "put", {}) /\ ops'[s].loaded = ops[s].loaded
           /\ Deletes(ops[s].names)
           /\ UNCHANGED <<written, cache, gen, notes, mirror, removedIds, fate, added, gone>>
<1>1. ops[s] \in OpRecords /\ ops[s].kind = "patch" /\ ops[s].pc = "clean"
  BY KindOf DEF Clean, OpAt
<1>2. GoesOn(s, "put", {}) /\ ops'[s].loaded = ops[s].loaded
  BY <1>1 DEF Clean, VaultTyped, OpRecords, GoesOn, OthersGoOn
<1>3. Deletes(ops[s].names)
  BY DeleteDeletes DEF Clean, NamesAreUnique
<1> QED BY <1>1, <1>2, <1>3 DEF Clean

(* A deposit is broadcast and its note added.                              *)
LEMMA BroadcastFields ==
    ASSUME VaultTyped, NEW s \in Slots, NEW id \in Ids, Broadcast(s, id)
    PROVE  /\ Begins(s, "add", id, Note(id, FALSE, FALSE), "save")
           /\ fate[id] = "none" /\ fate'[id] = "pending" /\ \A i \in Ids \ {id} : fate'[i] = fate[i]
           /\ WaitsForLoad => \A t \in Slots : ~(ops[t].kind = "load" /\ ops[t].gen = gen)
           /\ UNCHANGED <<disk, written, cache, gen, notes, mirror, removedIds, added, gone, faults>>
<1>1. ops[s] \in OpRecords
  BY KindOf
<1>2. Begins(s, "add", id, Note(id, FALSE, FALSE), "save")
  BY <1>1 DEF Broadcast, VaultTyped, OpRecords, Begins, OthersGoOn, NoOp
<1> QED BY <1>2 DEF Broadcast, VaultTyped

(* add returns.                                                            *)
LEMMA AddEndFields ==
    ASSUME VaultTyped, NEW s \in Slots, AddEnd(s)
    PROVE  /\ ops[s].kind = "add" /\ ops[s].pc = "put"
           /\ OpEnds(s)
           /\ notes' = (IF gen = ops[s].gen THEN notes \cup {ops[s].note} ELSE notes)
           /\ added' = added \cup {ops[s].id}
           /\ UNCHANGED <<disk, written, cache, gen, mirror, removedIds, fate, gone, faults>>
  BY EndEnds DEF AddEnd, OpAt

(* The note a writer finds.                                                *)
LEMMA TheNoteIs ==
    ASSUME NEW set, NEW id, HasId(set, id)
    PROVE  TheNote(set, id) \in set /\ TheNote(set, id).id = id
  BY DEF HasId, TheNote

(* A write of a note begins.                                               *)
LEMMA PatchStartFields ==
    ASSUME VaultTyped, NEW s \in Slots, NEW id \in Ids, PatchStart(s, id)
    PROVE  LET n == Patched(TheNote(mirror, id)) IN
           /\ Begins(s, "patch", id, n, "save")
           /\ n \in Notes /\ n.id = id
           /\ n.leaf = (TheNote(mirror, id).leaf \/ fate[id] = "landed")
           /\ fate[id] \in {"landed", "reverted"} /\ id \notin removedIds /\ HasId(mirror, id)
           /\ UNCHANGED <<disk, written, cache, gen, notes, mirror, removedIds, fate, added, gone, faults>>
<1> DEFINE n == Patched(TheNote(mirror, id))
<1>1. HasId(mirror, id) /\ TheNote(mirror, id) \in Notes /\ TheNote(mirror, id).id = id
  BY TheNoteIs DEF PatchStart, VaultTyped
<1>2. n \in Notes /\ n.id = id /\ n.leaf = (TheNote(mirror, id).leaf \/ fate[id] = "landed")
  BY <1>1 DEF Patched, Notes
<1>3. ops' = [ops EXCEPT ![s] = [NoOp EXCEPT !.kind = "patch", !.id = id, !.gen = gen, !.note = n, !.pc = "save"]]
  BY DEF PatchStart
<1> HIDE DEF n
<1>5. ops[s] = NoOp /\ gen' = gen /\ ops \in [Slots -> OpRecords]
  BY DEF PatchStart, VaultTyped
<1>4. Begins(s, "patch", id, n, "save")
  BY <1>3, <1>5 DEF Begins, OthersGoOn, NoOp
<1> QED BY <1>1, <1>2, <1>4 DEF PatchStart, n

(* A write returns.                                                        *)
LEMMA PatchEndFields ==
    ASSUME VaultTyped, NEW s \in Slots, PatchEnd(s)
    PROVE  /\ ops[s].kind = "patch" /\ ops[s].pc = "put"
           /\ \/ gen # ops[s].gen /\ OpEnds(s) /\ notes' = notes
              \/ /\ gen = ops[s].gen /\ Overtaken(s)
                 /\ GoesOn(s, "remove", ops[s].names) /\ ops'[s].loaded = ops[s].loaded /\ notes' = notes
              \/ /\ gen = ops[s].gen /\ ~Overtaken(s) /\ OpEnds(s)
                 /\ notes' = (IF HasId(notes, ops[s].id) THEN WithoutId(notes, ops[s].id) \cup {ops[s].note} ELSE notes)
           /\ UNCHANGED <<disk, written, cache, gen, mirror, removedIds, fate, added, gone, faults>>
  BY EndEnds, GotoGoesOn DEF PatchEnd, OpAt

(* A handler that spends a note begins.                                    *)
LEMMA SpendStartFields ==
    ASSUME VaultTyped, NEW s \in Slots, NEW id \in Ids, SpendStart(s, id)
    PROVE  /\ \E note : Begins(s, "remove", id, note, "chain")
           /\ fate[id] = "landed" /\ \E n \in notes : n.id = id /\ n.leaf
           /\ UNCHANGED <<disk, written, cache, gen, notes, mirror, removedIds, fate, added, gone, faults>>
<1>1. Begins(s, "remove", id, NoOp.note, "chain")
  BY DEF SpendStart, VaultTyped, Begins, OthersGoOn, NoOp
<1> QED BY <1>1 DEF SpendStart

(* The note is spent on the chain.                                         *)
LEMMA SpentFields ==
    ASSUME VaultTyped, NEW s \in Slots, Spent(s)
    PROVE  /\ ops[s].kind = "remove" /\ ops[s].pc = "chain"
           /\ GoesOn(s, "remove", ops[s].names) /\ ops'[s].loaded = ops[s].loaded
           /\ fate[ops[s].id] = "landed" /\ fate'[ops[s].id] = "spent"
           /\ \A i \in Ids \ {ops[s].id} : fate'[i] = fate[i]
           /\ removedIds' = removedIds \cup {ops[s].id}
           /\ UNCHANGED <<disk, written, cache, gen, notes, mirror, added, gone, faults>>
<1>1. ops[s].kind = "remove" /\ ops[s].pc = "chain" /\ ops[s].id \in Ids
  BY KindOf DEF Spent, OpAt
<1> QED BY <1>1, GotoGoesOn DEF Spent, VaultTyped

(* The spend fails.                                                        *)
LEMMA SpendFailsFields ==
    ASSUME VaultTyped, NEW s \in Slots, SpendFails(s)
    PROVE  /\ ops[s].kind = "remove" /\ ops[s].pc = "chain" /\ OpEnds(s)
           /\ UNCHANGED <<disk, written, cache, gen, notes, mirror, removedIds, fate, added, gone, faults>>
  BY KindOf, EndEnds DEF SpendFails, OpAt

(* The files to remove are listed.                                         *)
LEMMA RemoveFilesFields ==
    ASSUME VaultTyped, NEW s \in Slots, RemoveFiles(s)
    PROVE  LET known == cache[ops[s].gen][ops[s].id] IN
           /\ ops[s].kind \in {"patch", "remove"} /\ ops[s].pc = "remove"
           /\ GoesOn(s, IF known # {} THEN "unlink" ELSE "sweep", IF known # {} THEN known ELSE FilesOf(ops[s].id))
           /\ ops'[s].loaded = ops[s].loaded
           /\ UNCHANGED <<disk, written, cache, gen, notes, mirror, removedIds, fate, added, gone, faults>>
<1> DEFINE known == cache[ops[s].gen][ops[s].id]
           names == IF known # {} THEN known ELSE FilesOf(ops[s].id)
           pc == IF known # {} THEN "unlink" ELSE "sweep"
<1>1. ops[s] \in OpRecords /\ ops[s].kind \in {"patch", "remove"} /\ ops[s].pc = "remove"
  BY KindOf DEF RemoveFiles, OpAt, Removing
<1>2. ops' = [ops EXCEPT ![s].names = names, ![s].pc = pc]
  BY DEF RemoveFiles
<1> HIDE DEF names, pc
<1>3. GoesOn(s, pc, names) /\ ops'[s].loaded = ops[s].loaded
  BY <1>1, <1>2 DEF VaultTyped, OpRecords, GoesOn, OthersGoOn
<1> QED BY <1>1, <1>3 DEF RemoveFiles, names, pc

(* They are removed.                                                       *)
LEMMA RemoveEndFields ==
    ASSUME VaultTyped, NamesAreUnique, NEW s \in Slots, RemoveEnd(s)
    PROVE  /\ ops[s].kind \in {"patch", "remove"} /\ ops[s].pc \in {"unlink", "sweep"}
           /\ OpEnds(s)
           /\ Deletes(ops[s].names)
           /\ \/ notes' = notes /\ gone' = gone /\ (ops[s].kind = "remove" => ~EveryDeletionDone')
              \/ /\ notes' = notes /\ gone' = gone /\ ops[s].kind = "patch"
              \/ /\ ops[s].kind = "remove" /\ notes' = WithoutId(notes, ops[s].id) /\ gone' = gone \cup {ops[s].id}
           /\ \A g \in Gens, id \in Ids :
                 cache'[g][id] = IF ops[s].pc = "unlink" /\ g = ops[s].gen /\ id = ops[s].id THEN {} ELSE cache[g][id]
           /\ UNCHANGED <<written, gen, mirror, removedIds, fate, added>>
<1>1. ops[s].kind \in {"patch", "remove"} /\ ops[s].pc \in {"unlink", "sweep"}
  BY KindOf DEF RemoveEnd, OpAt, Removing
<1>2. \A g \in Gens, id \in Ids :
          cache'[g][id] = IF ops[s].pc = "unlink" /\ g = ops[s].gen /\ id = ops[s].id THEN {} ELSE cache[g][id]
  BY DEF RemoveEnd, VaultTyped, OpAt
<1>3. PICK kept \in SUBSET ops[s].names :
          LET removed == ops[s].kind = "remove" /\ (OpAt(s, "unlink") \/ kept = {}) IN
          /\ Delete(ops[s].names, kept)
          /\ notes' = IF removed THEN WithoutId(notes, ops[s].id) ELSE notes
          /\ gone' = IF removed THEN gone \cup {ops[s].id} ELSE gone
  BY DEF RemoveEnd
<1>4. Deletes(ops[s].names) /\ (EveryDeletionDone' => kept = {})
  BY <1>3, DeleteDeletes DEF NamesAreUnique
<1>5. OpEnds(s)
  BY EndEnds DEF RemoveEnd
<1> QED BY <1>1, <1>2, <1>3, <1>4, <1>5 DEF RemoveEnd

(* A load lists the folder.                                                *)
LEMMA LoadListFields ==
    ASSUME VaultTyped, NEW s \in Slots, LoadList(s)
    PROVE  /\ ops[s].kind = "load" /\ ops[s].pc = "list"
           /\ GoesOn(s, "read", IF Home(ops[s].gen) THEN {f.name : f \in disk} ELSE {})
           /\ ops'[s].loaded = ops[s].loaded
           /\ \A g \in Gens, id \in Ids : cache'[g][id] = IF g = ops[s].gen THEN {} ELSE cache[g][id]
           /\ UNCHANGED <<disk, written, gen, notes, mirror, removedIds, fate, added, gone, faults>>
<1> DEFINE names == IF Home(ops[s].gen) THEN {f.name : f \in disk} ELSE {}
<1>1. ops[s] \in OpRecords
  BY KindOf
<1>2. ops' = [ops EXCEPT ![s].names = names, ![s].pc = "read"]
  BY DEF LoadList
<1> HIDE DEF names
<1>3. GoesOn(s, "read", names) /\ ops'[s].loaded = ops[s].loaded
  BY <1>1, <1>2 DEF VaultTyped, OpRecords, GoesOn, OthersGoOn
<1>4. \A g \in Gens, id \in Ids : cache'[g][id] = IF g = ops[s].gen THEN {} ELSE cache[g][id]
  BY DEF LoadList, VaultTyped
<1> QED BY <1>3, <1>4 DEF LoadList, OpAt, names

(* A load reads a file.                                                    *)
LEMMA LoadFileFields ==
    ASSUME VaultTyped, NEW s \in Slots, LoadFile(s)
    PROVE  /\ ops[s].kind = "load" /\ ops[s].pc = "read"
           /\ \E name \in ops[s].names :
                LET found == {f \in disk : f.name = name} IN
                /\ GoesOn(s, "read", ops[s].names \ {name}) /\ ops'[s].loaded = ops[s].loaded \cup found
                /\ \A g \in Gens, id \in Ids :
                      cache'[g][id] = IF g = ops[s].gen
                                      THEN cache[g][id] \cup {f.name : f \in {h \in found : h.note.id = id}}
                                      ELSE cache[g][id]
           /\ UNCHANGED <<disk, written, gen, notes, mirror, removedIds, fate, added, gone, faults>>
<1>1. ops[s] \in OpRecords
  BY KindOf
<1>2. PICK name \in ops[s].names :
        LET found == {f \in disk : f.name = name} IN
        /\ ops' = [ops EXCEPT ![s].names = @ \ {name}, ![s].loaded = @ \cup found]
        /\ cache' = [cache EXCEPT ![ops[s].gen] =
                        [id \in Ids |-> @[id] \cup {f.name : f \in {g \in found : g.note.id = id}}]]
  BY DEF LoadFile
<1> DEFINE found == {f \in disk : f.name = name}
<1>3. \A g \in Gens, id \in Ids :
          cache'[g][id] = IF g = ops[s].gen
                          THEN cache[g][id] \cup {f.name : f \in {h \in found : h.note.id = id}}
                          ELSE cache[g][id]
  BY <1>2 DEF VaultTyped
<1>4. ops' = [ops EXCEPT ![s].names = @ \ {name}, ![s].loaded = @ \cup found]
  BY <1>2
<1>5. ops[s].pc = "read"
  BY DEF LoadFile, OpAt
<1> HIDE DEF found
<1>6. GoesOn(s, "read", ops[s].names \ {name}) /\ ops'[s].loaded = ops[s].loaded \cup found
  BY <1>1, <1>4, <1>5 DEF VaultTyped, OpRecords, GoesOn, OthersGoOn
<1> QED BY <1>3, <1>5, <1>6 DEF LoadFile, found

(* What the adapter knows after a file is read.                            *)
LEMMA LoadFileCaches ==
    ASSUME VaultTyped, NEW s \in Slots, LoadFile(s)
    PROVE  /\ \A g \in Gens, id \in Ids :
                 /\ cache[g][id] \subseteq cache'[g][id]
                 /\ \A k \in cache'[g][id] : k \in cache[g][id] \/ \E f \in disk : f.name = k /\ f.note.id = id
                 /\ g # ops[s].gen => cache'[g][id] = cache[g][id]
           /\ OthersGoOn(s) /\ ops'[s].kind = "load" /\ ops'[s].id = ops[s].id /\ ops'[s].gen = ops[s].gen
           /\ ops'[s].pc = "read" /\ ops'[s].names \subseteq ops[s].names
           /\ \A f \in ops'[s].loaded : f \in ops[s].loaded \/ f \in disk
           /\ ops[s].loaded \subseteq ops'[s].loaded
           /\ \A f \in disk : f.name \in ops[s].names \ ops'[s].names /\ ops[s].gen \in Gens =>
                 f \in ops'[s].loaded /\ f.name \in cache'[ops[s].gen][f.note.id]
<1>1. PICK name \in ops[s].names :
          LET found == {f \in disk : f.name = name} IN
          /\ GoesOn(s, "read", ops[s].names \ {name}) /\ ops'[s].loaded = ops[s].loaded \cup found
          /\ \A g \in Gens, id \in Ids :
                cache'[g][id] = IF g = ops[s].gen
                                THEN cache[g][id] \cup {f.name : f \in {h \in found : h.note.id = id}}
                                ELSE cache[g][id]
  BY LoadFileFields
<1>2. ASSUME NEW g \in Gens, NEW id \in Ids
      PROVE  /\ cache[g][id] \subseteq cache'[g][id]
             /\ \A k \in cache'[g][id] : k \in cache[g][id] \/ \E f \in disk : f.name = k /\ f.note.id = id
             /\ g # ops[s].gen => cache'[g][id] = cache[g][id]
  <2>1. CASE g = ops[s].gen
    <3>1. cache'[g][id] = cache[g][id] \cup {f.name : f \in {h \in {f \in disk : f.name = name} : h.note.id = id}}
      BY <1>1, <2>1
    <3> QED BY <3>1, <2>1
  <2>2. CASE g # ops[s].gen
    BY <1>1, <2>2
  <2> QED BY <2>1, <2>2
<1>3. ASSUME NEW f \in disk, f.name \in ops[s].names \ ops'[s].names, ops[s].gen \in Gens
      PROVE  f \in ops'[s].loaded /\ f.name \in cache'[ops[s].gen][f.note.id]
  <2>1. f.name = name /\ f.note.id \in Ids
    BY <1>1, <1>3 DEF GoesOn, VaultTyped, Files, Notes
  <2>2. cache'[ops[s].gen][f.note.id] =
            cache[ops[s].gen][f.note.id] \cup
              {h.name : h \in {e \in {d \in disk : d.name = name} : e.note.id = f.note.id}}
    BY <1>1, <1>3, <2>1
  <2> QED BY <1>1, <2>1, <2>2
<1> QED BY <1>1, <1>2, <1>3, LoadFileFields DEF GoesOn

(* What a load of the current adapter shows.                               *)
Shows(found) ==
    /\ notes' \subseteq Notes
    /\ \A n \in notes' : \/ n \in notes /\ \A f \in found : f.note.id # n.id
                         \/ \E f \in found : f.note = n /\ Picks(found, f)
    /\ \A f \in found : HasId(notes', f.note.id)
    /\ \A n \in notes : HasId(notes', n.id)
    /\ ShownOnce => ShownOnce'

(* A load ends.                                                            *)
LEMMA LoadEndFields ==
    ASSUME VaultTyped, NEW s \in Slots, LoadEnd(s)
    PROVE  /\ ops[s].kind = "load" /\ ops[s].pc = "read" /\ ops[s].names = {}
           /\ OpEnds(s)
           /\ \/ gen # ops[s].gen /\ notes' = notes
              \/ gen = ops[s].gen /\ Shows(ops[s].loaded)
           /\ UNCHANGED <<disk, written, cache, gen, mirror, removedIds, fate, added, gone, faults>>
<1>1. ASSUME gen = ops[s].gen PROVE Shows(ops[s].loaded)
  <2> DEFINE found == ops[s].loaded
             ids == {f.note.id : f \in found}
  <2>1. PICK pick \in [ids -> found] :
            /\ \A id \in ids : pick[id].note.id = id /\ Picks(found, pick[id])
            /\ notes' = {pick[id].note : id \in ids} \cup {n \in notes : n.id \notin ids}
    BY <1>1 DEF LoadEnd
  <2>2. found \subseteq Files /\ notes \subseteq Notes
    BY KindOf DEF OpRecords, VaultTyped
  <2>3. \A f \in found : f.note.id \in ids
    OBVIOUS
  <2>4. \A id \in ids : pick[id] \in found
    BY <2>1
  <2>5. ASSUME NEW n \in notes'
        PROVE  \/ n \in notes /\ n.id \notin ids
               \/ \E id \in ids : n = pick[id].note /\ n.id = id
    BY <2>1
  <2>6. \A id \in ids : \E f \in found : f.note.id = id
    OBVIOUS
  <2> HIDE DEF found, ids
  <2>7. notes' \subseteq Notes
    <3>1. ASSUME NEW n \in notes' PROVE n \in Notes
      <4>1. CASE n \in notes
        BY <2>2, <4>1
      <4>2. ASSUME NEW id \in ids, n = pick[id].note PROVE n \in Notes
        BY <2>2, <2>4, <4>2 DEF Files
      <4> QED BY <2>5, <4>1, <4>2
    <3> QED BY <3>1
  <2>8. ASSUME NEW n \in notes'
        PROVE  \/ n \in notes /\ \A f \in found : f.note.id # n.id
               \/ \E f \in found : f.note = n /\ Picks(found, f)
    BY <2>1, <2>3, <2>4, <2>5
  <2>9. ASSUME NEW f \in found PROVE HasId(notes', f.note.id)
    <3>1. pick[f.note.id].note \in notes' /\ pick[f.note.id].note.id = f.note.id
      BY <2>1, <2>3
    <3> QED BY <3>1 DEF HasId
  <2>10. ASSUME NEW n \in notes PROVE HasId(notes', n.id)
    <3>1. CASE n.id \in ids
      BY <2>6, <2>9, <3>1
    <3>2. CASE n.id \notin ids
      BY <2>1, <3>2 DEF HasId
    <3> QED BY <3>1, <3>2
  <2>11. ShownOnce => ShownOnce'
    <3>1. ASSUME ShownOnce, NEW n \in notes', NEW m \in notes', n.id = m.id PROVE n = m
      BY <3>1, <2>5 DEF ShownOnce
    <3> QED BY <3>1 DEF ShownOnce
  <2> QED BY <2>7, <2>8, <2>9, <2>10, <2>11 DEF Shows, found
<1> QED BY <1>1, EndEnds DEF LoadEnd, OpAt

(* The adapter changes.                                                    *)
LEMMA VaultSwitchFields ==
    ASSUME VaultTyped, NEW s \in Slots, Switch(s)
    PROVE  /\ gen' = gen + 1
           /\ \E note : Begins(s, "load", "none", note, "list")
           /\ notes' = {} /\ mirror' = {} /\ removedIds' = {}
           /\ faults' \in [switches : 0 .. MaxVaultSwitches, failures : 0 .. MaxFailures, crashes : 0 .. MaxCrashes]
           /\ faults'.switches = faults.switches - 1 /\ faults'.crashes = faults.crashes /\ ~SameAccount'
           /\ UNCHANGED <<disk, written, cache, fate, added, gone>>
<1>1. Begins(s, "load", "none", NoOp.note, "list")
  BY DEF Switch, NewAdapter, VaultTyped, Begins, OthersGoOn, NoOp
<1>2. /\ faults' \in [switches : 0 .. MaxVaultSwitches, failures : 0 .. MaxFailures, crashes : 0 .. MaxCrashes]
      /\ faults'.switches = faults.switches - 1 /\ faults'.crashes = faults.crashes /\ ~SameAccount'
  <2>1. /\ faults \in [switches : 0 .. MaxVaultSwitches, failures : 0 .. MaxFailures, crashes : 0 .. MaxCrashes]
        /\ faults' = [faults EXCEPT !.switches = @ - 1] /\ faults.switches > 0 /\ MaxVaultSwitches \in Nat
    BY VaultAssumption DEF Switch, VaultTyped
  <2>2. faults'.switches = faults.switches - 1 /\ faults'.crashes = faults.crashes
    BY <2>1
  <2>3. faults.switches \in 0 .. MaxVaultSwitches
    BY <2>1
  <2>4. faults'.switches \in 0 .. MaxVaultSwitches /\ faults'.switches # MaxVaultSwitches
    BY <2>1, <2>2, <2>3
  <2> QED BY <2>1, <2>2, <2>4 DEF SameAccount
<1> QED BY <1>1, <1>2 DEF Switch, NewAdapter

(* The page is reloaded.                                                   *)
LEMMA ReloadVaultFields ==
    ASSUME VaultTyped, ReloadVault
    PROVE  /\ gen' = gen + 2
           /\ \A s \in Slots : \/ ops'[s] = NoOp
                               \/ /\ s = 1
                                  /\ ops'[s].kind = "load" /\ ops'[s].id = "none" /\ ops'[s].gen = gen'
                                  /\ ops'[s].note = NoOp.note /\ ops'[s].names = {} /\ ops'[s].loaded = {}
                                  /\ ops'[s].pc = "list"
           /\ 1 \in Slots /\ ops'[1].kind = "load" /\ ops' \in [Slots -> OpRecords]
           /\ notes' = {} /\ mirror' = {} /\ removedIds' = {}
           /\ faults' \in [switches : 0 .. MaxVaultSwitches, failures : 0 .. MaxFailures, crashes : 0 .. MaxCrashes]
           /\ faults'.switches = faults.switches /\ faults'.failures = faults.failures
           /\ faults'.crashes = faults.crashes - 1 /\ faults'.crashes >= 0 /\ ~NeverReloaded'
           /\ UNCHANGED <<disk, written, cache, fate, added, gone>>
<1> DEFINE opened == [NoOp EXCEPT !.kind = "load", !.gen = gen + 2, !.pc = "list"]
<1>1. ops' = [s \in Slots |-> IF s = 1 THEN opened ELSE NoOp]
  BY DEF ReloadVault, VaultTyped
<1>2. /\ opened.kind = "load" /\ opened.id = "none" /\ opened.gen = gen + 2 /\ opened.note = NoOp.note
      /\ opened.names = {} /\ opened.loaded = {} /\ opened.pc = "list"
  BY DEF NoOp
<1>0. gen \in Nat
  BY DEF VaultTyped, Gens
<1>3. opened \in OpRecords /\ NoOp \in OpRecords
  <2>1. NoOp \in OpRecords
    BY NoOpTyped
  <2>2. "list" \in Pcs /\ "load" \in Kinds /\ gen + 2 \in Nat
    BY <1>0 DEF Pcs, Kinds
  <2> QED BY <2>1, <2>2, OpEdits
<1>4. 1 \in Slots
  BY VaultAssumption DEF Slots
<1> HIDE DEF opened
<1>5. /\ faults' \in [switches : 0 .. MaxVaultSwitches, failures : 0 .. MaxFailures, crashes : 0 .. MaxCrashes]
      /\ faults'.switches = faults.switches /\ faults'.failures = faults.failures
      /\ faults'.crashes = faults.crashes - 1 /\ faults'.crashes >= 0 /\ ~NeverReloaded'
  <2>1. /\ faults \in [switches : 0 .. MaxVaultSwitches, failures : 0 .. MaxFailures, crashes : 0 .. MaxCrashes]
        /\ faults' = [faults EXCEPT !.crashes = @ - 1] /\ faults.crashes > 0 /\ MaxCrashes \in Nat
    BY VaultAssumption DEF ReloadVault, VaultTyped
  <2>2. faults'.switches = faults.switches /\ faults'.failures = faults.failures /\ faults'.crashes = faults.crashes - 1
    BY <2>1
  <2>3. faults.crashes \in 0 .. MaxCrashes
    BY <2>1
  <2>4. faults'.crashes \in 0 .. MaxCrashes /\ faults'.crashes # MaxCrashes /\ faults'.crashes >= 0
    BY <2>1, <2>2, <2>3
  <2> QED BY <2>1, <2>2, <2>4 DEF NeverReloaded
<1> QED BY <1>1, <1>2, <1>3, <1>4, <1>5 DEF ReloadVault, NewAdapter

-----------------------------------------------------------------------------
(* The steps keep the types. *)

FaultRecords == [switches : 0 .. MaxVaultSwitches, failures : 0 .. MaxFailures, crashes : 0 .. MaxCrashes]

(* What is kept when only slot s changes.                                  *)
LEMMA SlotShapes ==
    ASSUME VaultTyped, NEW s \in Slots, OthersGoOn(s), OpShape(ops'[s])
    PROVE  \A t \in Slots : OpShape(ops'[t])
  BY DEF VaultTyped, OthersGoOn

(* The types but for the slots.                                            *)
LEMMA FrameTyped ==
    ASSUME VaultTyped, ops' \in [Slots -> OpRecords], \A s \in Slots : OpShape(ops'[s]),
           written' \in Nat, disk' \subseteq Files, cache' \in [Gens -> [Ids -> SUBSET Nat]],
           notes' \subseteq Notes, mirror' \subseteq Notes, removedIds' \subseteq Ids,
           added' \subseteq Ids, gone' \subseteq Ids, fate' \in [Ids -> VaultFates],
           gen' = gen, faults' \in FaultRecords,
           faults'.switches = faults.switches, faults'.crashes = faults.crashes
    PROVE  VaultTyped'
  BY DEF VaultTyped, FaultRecords

(* Operations are of adapters there were.                                  *)
LEMMA GensOfOps ==
    ASSUME StorageInv, NEW s \in Slots, ops[s].kind # "none"
    PROVE  ops[s].gen \in Gens /\ gen \in Gens
<1>1. gen \in Gens /\ ops[s].gen \in 1 .. gen
  BY DEF StorageInv, OnlySpentIsRemoved, VaultTyped
<1>2. 1 + MaxVaultSwitches + 2 * MaxCrashes \in Nat
  BY VaultAssumption
<1> QED BY <1>1, <1>2 DEF Gens

(* A write of a note that is being added replaces nothing.                 *)
LEMMA AddReplacesNothing ==
    ASSUME StorageInv, NEW s \in Slots, ops[s].pc = "save"
    PROVE  /\ ops[s].gen \in Gens
           /\ ops[s].kind = "add" => cache[ops[s].gen][ops[s].id] = {}
<1>1. ops[s].kind \in {"add", "patch"}
  BY KindOf DEF StorageInv
<1>2. ops[s].gen \in Gens
  BY <1>1, GensOfOps
<1> QED BY <1>2 DEF StorageInv, NewIsUnknown, AddedIsUnknown, NotStored, OpAt

(* Every step of an operation keeps the types.                             *)
LEMMA OpStepTyped ==
    ASSUME StorageInv, NEW s \in Slots, Continue(s) \/ OpStep(s)
    PROVE  VaultTyped'
<1>v. VaultTyped /\ NamesAreUnique
  BY DEF StorageInv
<1>t. /\ written \in Nat /\ disk \subseteq Files /\ cache \in [Gens -> [Ids -> SUBSET Nat]]
      /\ notes \subseteq Notes /\ mirror \subseteq Notes /\ removedIds \subseteq Ids
      /\ added \subseteq Ids /\ gone \subseteq Ids /\ fate \in [Ids -> VaultFates]
      /\ faults \in FaultRecords /\ ops \in [Slots -> OpRecords]
      /\ ops[s] \in OpRecords /\ OpShape(ops[s])
  BY <1>v DEF VaultTyped, FaultRecords
<1>o. \A p \in {"put", "clean", "remove", "unlink", "sweep", "read"} : p \in Pcs
  BY DEF Pcs, Removing
<1>n. ASSUME NEW names, Deletes(names)
      PROVE  /\ disk' \subseteq Files /\ faults' \in FaultRecords
             /\ faults'.switches = faults.switches /\ faults'.crashes = faults.crashes
  BY <1>n, <1>t DEF Deletes, FaultRecords
<1>e. ASSUME End(s)
      PROVE  ops' \in [Slots -> OpRecords] /\ \A t \in Slots : OpShape(ops'[t])
  <2>1. OpEnds(s) /\ ops' \in [Slots -> OpRecords]
    BY <1>e, <1>v, <1>t, EndEnds, NoOpTyped DEF End
  <2> QED BY <2>1, <1>v, NoOpTyped, SlotShapes DEF OpEnds
<1>k. /\ ops[s].kind \in {"add", "patch", "remove"} => ops[s].id \in Ids
      /\ ops[s].kind \in {"add", "patch"} => ops[s].note \in Notes
      /\ ops[s].kind \in Kinds
  BY <1>v, KindOf DEF OpRecords
\* A slot that goes on.
<1>g. ASSUME NEW pc, NEW names, GoesOn(s, pc, names), ops'[s].loaded = ops[s].loaded,
             \/ ops[s].kind = "add" /\ pc = "put" /\ names = {}
             \/ ops[s].kind = "patch" /\ pc \in {"put", "clean", "remove", "unlink", "sweep"}
             \/ ops[s].kind = "remove" /\ pc \in {"remove", "unlink", "sweep"}
      PROVE  \A t \in Slots : OpShape(ops'[t])
  <2>1. OpShape(ops'[s]) /\ OthersGoOn(s)
    BY <1>g, <1>t DEF OpShape, GoesOn, Removing
  <2> QED BY <2>1, <1>v, SlotShapes
<1>1. CASE Save(s)
  <2> DEFINE known == cache[ops[s].gen][ops[s].id]
             pc == IF known = {} THEN "put" ELSE "clean"
  <2>1. /\ GoesOn(s, pc, known) /\ ops'[s].loaded = ops[s].loaded /\ ops[s].kind \in {"add", "patch"}
        /\ ops[s].pc = "save" /\ disk' = disk \cup {[name |-> written + 1, note |-> ops[s].note]}
        /\ written' = written + 1
    BY <1>1, <1>v, SaveFields
  <2>2. ops' = [ops EXCEPT ![s].names = known, ![s].pc = pc]
    BY <1>1 DEF Save
  <2>3. ops[s].gen \in Gens /\ (ops[s].kind = "add" => known = {})
    BY <2>1, AddReplacesNothing
  <2>4. known \subseteq Nat /\ pc \in Pcs /\ pc \in {"put", "clean"} /\ (known = {} => pc = "put")
    BY <1>t, <1>o, <1>k, <2>1, <2>3
  <2> HIDE DEF known, pc
  <2>5. ops' \in [Slots -> OpRecords]
    BY <1>t, <2>2, <2>4, OpEdits
  <2>6. \A t \in Slots : OpShape(ops'[t])
    BY <1>g, <2>1, <2>3, <2>4
  <2>7. disk' \subseteq Files /\ written' \in Nat
    BY <1>t, <1>k, <2>1 DEF Files
  <2>8. cache' \in [Gens -> [Ids -> SUBSET Nat]]
    <3>1. cache' = [cache EXCEPT ![ops[s].gen][ops[s].id] = {written + 1}] /\ {written + 1} \subseteq Nat
      BY <1>1, <1>t DEF Save
    <3> QED BY <1>t, <1>k, <2>1, <2>3, <3>1
  <2> QED BY <1>1, <1>v, <1>t, <2>5, <2>6, <2>7, <2>8, FrameTyped DEF Save
<1>2. CASE Clean(s)
  <2>1. GoesOn(s, "put", {}) /\ ops'[s].loaded = ops[s].loaded /\ Deletes(ops[s].names) /\ ops[s].kind = "patch"
    BY <1>2, <1>v, CleanFields
  <2>2. ops' \in [Slots -> OpRecords]
    BY <1>2, <1>t, <1>o, OpEdits DEF Clean
  <2>3. \A t \in Slots : OpShape(ops'[t])
    BY <1>g, <2>1
  <2> QED BY <1>2, <1>v, <1>t, <1>n, <2>1, <2>2, <2>3, FrameTyped DEF Clean
<1>3. CASE AddEnd(s)
  <2>1. notes' \subseteq Notes /\ added' \subseteq Ids
    BY <1>3, <1>v, <1>t, <1>k, AddEndFields
  <2> QED BY <1>3, <1>v, <1>t, <1>e, <2>1, FrameTyped DEF AddEnd
<1>4. CASE PatchEnd(s)
  <2>1. ops' \in [Slots -> OpRecords]
    <3>1. OpGoto(s, "remove") => ops' \in [Slots -> OpRecords]
      BY <1>t, <1>o, OpEdits DEF OpGoto
    <3> QED BY <1>4, <1>e, <3>1 DEF PatchEnd
  <2>2. \A t \in Slots : OpShape(ops'[t])
    <3>1. OpGoto(s, "remove") => \A t \in Slots : OpShape(ops'[t])
      BY <1>4, <1>v, <1>g, GotoGoesOn DEF PatchEnd
    <3> QED BY <1>4, <1>e, <3>1 DEF PatchEnd
  <2>3. notes' \subseteq Notes
    BY <1>4, <1>v, <1>t, <1>k, PatchEndFields DEF WithoutId
  <2> QED BY <1>4, <1>v, <1>t, <2>1, <2>2, <2>3, FrameTyped DEF PatchEnd
<1>5. CASE Spent(s)
  <2>1. ops[s].kind = "remove" /\ OpGoto(s, "remove")
    BY <1>5, <1>v, SpentFields DEF Spent
  <2>2. ops' \in [Slots -> OpRecords]
    BY <2>1, <1>t, <1>o, OpEdits DEF OpGoto
  <2>3. \A t \in Slots : OpShape(ops'[t])
    BY <1>v, <1>g, <2>1, GotoGoesOn
  <2>4. fate' \in [Ids -> VaultFates] /\ removedIds' \subseteq Ids
    BY <1>5, <1>t, <1>k, <2>1 DEF Spent, VaultFates
  <2> QED BY <1>5, <1>v, <1>t, <2>2, <2>3, <2>4, FrameTyped DEF Spent
<1>6. CASE SpendFails(s)
  BY <1>6, <1>v, <1>t, <1>e, FrameTyped DEF SpendFails
<1>7. CASE RemoveFiles(s)
  <2> DEFINE known == cache[ops[s].gen][ops[s].id]
             names == IF known # {} THEN known ELSE FilesOf(ops[s].id)
             pc == IF known # {} THEN "unlink" ELSE "sweep"
  <2>1. GoesOn(s, pc, names) /\ ops'[s].loaded = ops[s].loaded /\ ops[s].kind \in {"patch", "remove"}
        /\ ops[s].pc = "remove"
    BY <1>7, <1>v, RemoveFilesFields
  <2>2. ops' = [ops EXCEPT ![s].names = names, ![s].pc = pc]
    BY <1>7 DEF RemoveFiles
  <2>3. ops[s].gen \in Gens
    BY <2>1, GensOfOps
  <2>4. names \subseteq Nat /\ pc \in Pcs /\ pc \in {"unlink", "sweep"}
    BY <1>t, <1>o, <1>k, <2>1, <2>3 DEF FilesOf, Files
  <2> HIDE DEF known, names, pc
  <2>5. ops' \in [Slots -> OpRecords]
    BY <1>t, <2>2, <2>4, OpEdits
  <2>6. \A t \in Slots : OpShape(ops'[t])
    BY <1>g, <2>1, <2>4
  <2> QED BY <1>7, <1>v, <1>t, <2>5, <2>6, FrameTyped DEF RemoveFiles
<1>8. CASE RemoveEnd(s)
  <2>1. Deletes(ops[s].names) /\ ops[s].kind \in {"patch", "remove"}
    BY <1>8, <1>v, RemoveEndFields
  <2>2. notes' \subseteq Notes /\ gone' \subseteq Ids
    BY <1>8, <1>v, <1>t, <1>k, RemoveEndFields DEF WithoutId
  <2>3. cache' \in [Gens -> [Ids -> SUBSET Nat]]
    BY <1>8, <1>t DEF RemoveEnd
  <2> QED BY <1>8, <1>v, <1>t, <1>n, <1>e, <2>1, <2>2, <2>3, FrameTyped DEF RemoveEnd
<1>9. CASE LoadList(s)
  <2> DEFINE names == IF Home(ops[s].gen) THEN {f.name : f \in disk} ELSE {}
  <2>1. ops[s].kind = "load" /\ GoesOn(s, "read", names)
    BY <1>9, <1>v, LoadListFields
  <2>2. ops' = [ops EXCEPT ![s].names = names, ![s].pc = "read"]
    BY <1>9 DEF LoadList
  <2>3. names \subseteq Nat
    BY <1>t DEF Files
  <2> HIDE DEF names
  <2>4. ops' \in [Slots -> OpRecords]
    BY <1>t, <1>o, <2>2, <2>3, OpEdits
  <2>5. \A t \in Slots : OpShape(ops'[t])
    BY <1>v, <2>1, SlotShapes DEF GoesOn, OpShape
  <2>6. cache' \in [Gens -> [Ids -> SUBSET Nat]]
    BY <1>9, <1>t DEF LoadList
  <2> QED BY <1>9, <1>v, <1>t, <2>4, <2>5, <2>6, FrameTyped DEF LoadList
<1>10. CASE LoadFile(s)
  <2>1. PICK name \in ops[s].names :
          LET found == {f \in disk : f.name = name} IN
          /\ ops' = [ops EXCEPT ![s].names = @ \ {name}, ![s].loaded = @ \cup found]
          /\ cache' = [cache EXCEPT ![ops[s].gen] =
                          [id \in Ids |-> @[id] \cup {f.name : f \in {g \in found : g.note.id = id}}]]
    BY <1>10 DEF LoadFile
  <2>2. ops[s].names \ {name} \subseteq Nat /\ ops[s].loaded \cup {f \in disk : f.name = name} \subseteq Files
    BY <1>t DEF OpRecords
  <2>3. ops' \in [Slots -> OpRecords]
    BY <1>t, <2>1, <2>2, OpEdits
  <2>4. \A t \in Slots : OpShape(ops'[t])
    <3>1. ops[s].kind = "load" /\ OthersGoOn(s) /\ ops'[s].kind = "load" /\ ops'[s].pc = "read"
      BY <1>10, <1>v, LoadFileFields DEF GoesOn
    <3> QED BY <1>v, <3>1, SlotShapes DEF OpShape
  <2>5. cache' \in [Gens -> [Ids -> SUBSET Nat]]
    <3>1. ASSUME NEW id \in Ids
          PROVE  {f.name : f \in {g \in {f \in disk : f.name = name} : g.note.id = id}} \subseteq Nat
      BY <1>t DEF Files
    <3> QED BY <1>t, <2>1, <3>1
  <2> QED BY <1>10, <1>v, <1>t, <2>3, <2>4, <2>5, FrameTyped DEF LoadFile
<1>11. CASE LoadEnd(s)
  <2>1. notes' \subseteq Notes
    BY <1>11, <1>v, <1>t, LoadEndFields DEF Shows
  <2> QED BY <1>11, <1>v, <1>t, <1>e, <2>1, FrameTyped DEF LoadEnd
<1> QED BY <1>1, <1>2, <1>3, <1>4, <1>5, <1>6, <1>7, <1>8, <1>9, <1>10, <1>11 DEF Continue, OpStep

(* Every step keeps the types.                                             *)
LEMMA VaultTypedStep ==
    ASSUME StorageInv, [VaultNext]_vaultVars
    PROVE  VaultTyped'
<1>v. VaultTyped
  BY DEF StorageInv
<1>t. /\ written \in Nat /\ disk \subseteq Files /\ cache \in [Gens -> [Ids -> SUBSET Nat]]
      /\ gen \in Gens /\ gen \in Nat
      /\ notes \subseteq Notes /\ mirror \subseteq Notes /\ removedIds \subseteq Ids
      /\ added \subseteq Ids /\ gone \subseteq Ids /\ fate \in [Ids -> VaultFates]
      /\ faults \in FaultRecords /\ ops \in [Slots -> OpRecords] /\ DOMAIN ops = Slots
      /\ \A s \in Slots : OpShape(ops[s])
  BY <1>v DEF VaultTyped, FaultRecords, Gens
<1>p. \A p \in {"save", "chain", "list"} : p \in Pcs
  BY DEF Pcs
<1>q. \A k \in {"load", "add", "patch", "remove"} : k \in Kinds
  BY DEF Kinds
<1>1. ASSUME NEW s \in Slots, NEW id \in Ids, Broadcast(s, id) PROVE VaultTyped'
  <2>1. Note(id, FALSE, FALSE) \in Notes
    BY DEF Note, Notes
  <2>2. ops' \in [Slots -> OpRecords]
    BY <1>1, <1>t, <1>p, <1>q, <2>1, NoOpTyped, OpEdits DEF Broadcast
  <2>3. \A t \in Slots : OpShape(ops'[t])
    <3>1. /\ OthersGoOn(s) /\ ops'[s].kind = "add" /\ ops'[s].id = id /\ ops'[s].loaded = {}
          /\ ops'[s].pc = "save" /\ ops'[s].names = {} /\ ops'[s].note = Note(id, FALSE, FALSE)
      BY <1>1, <1>v, BroadcastFields DEF Begins
    <3>2. OpShape(ops'[s])
      BY <3>1 DEF OpShape, Note
    <3> QED BY <1>v, <3>1, <3>2, SlotShapes
  <2>4. fate' \in [Ids -> VaultFates]
    BY <1>1, <1>t DEF Broadcast, VaultFates
  <2> QED BY <1>1, <1>v, <1>t, <2>2, <2>3, <2>4, FrameTyped DEF Broadcast
<1>2. ASSUME NEW s \in Slots, NEW id \in Ids, PatchStart(s, id) PROVE VaultTyped'
  <2> DEFINE n == Patched(TheNote(mirror, id))
  <2>1. n \in Notes /\ n.id = id /\ Begins(s, "patch", id, n, "save")
    BY <1>2, <1>v, PatchStartFields
  <2>2. ops' = [ops EXCEPT ![s] = [NoOp EXCEPT !.kind = "patch", !.id = id, !.gen = gen, !.note = n, !.pc = "save"]]
    BY <1>2 DEF PatchStart
  <2> HIDE DEF n
  <2>3. ops' \in [Slots -> OpRecords]
    BY <1>t, <1>p, <1>q, <2>1, <2>2, NoOpTyped, OpEdits
  <2>4. \A t \in Slots : OpShape(ops'[t])
    BY <1>v, <2>1, SlotShapes DEF Begins, OpShape
  <2> QED BY <1>2, <1>v, <1>t, <2>3, <2>4, FrameTyped DEF PatchStart
<1>3. ASSUME NEW s \in Slots, NEW id \in Ids, SpendStart(s, id) PROVE VaultTyped'
  <2>1. ops' \in [Slots -> OpRecords]
    <3>1. [NoOp EXCEPT !.kind = "remove", !.id = id, !.gen = gen, !.pc = "chain"] \in OpRecords
      BY <1>t, <1>p, <1>q, NoOpTyped, OpEdits
    <3> QED BY <1>3, <1>t, <3>1 DEF SpendStart
  <2>2. \A t \in Slots : OpShape(ops'[t])
    <3>1. /\ OthersGoOn(s) /\ ops'[s].kind = "remove" /\ ops'[s].id = id /\ ops'[s].loaded = {}
          /\ ops'[s].pc = "chain"
      BY <1>3, <1>v, SpendStartFields DEF Begins
    <3>2. OpShape(ops'[s])
      BY <3>1 DEF OpShape
    <3> QED BY <1>v, <3>1, <3>2, SlotShapes
  <2> QED BY <1>3, <1>v, <1>t, <2>1, <2>2, FrameTyped DEF SpendStart
<1>4. ASSUME NEW s \in Slots, Switch(s) PROVE VaultTyped'
  <2>1. ops' \in [Slots -> OpRecords]
    <3>1. gen + 1 \in Nat /\ NoOp \in OpRecords
      BY <1>t, NoOpTyped
    <3>2. [NoOp EXCEPT !.kind = "load", !.gen = gen + 1, !.pc = "list"] \in OpRecords
      BY <3>1, <1>p, <1>q, OpEdits
    <3> QED BY <1>4, <1>t, <3>2 DEF Switch
  <2>2. \A t \in Slots : OpShape(ops'[t])
    BY <1>4, <1>v, VaultSwitchFields, SlotShapes DEF Begins, OpShape
  <2>3. /\ gen' = gen + 1 /\ faults' \in FaultRecords
        /\ faults'.switches = faults.switches - 1 /\ faults'.crashes = faults.crashes
        /\ notes' = {} /\ mirror' = {} /\ removedIds' = {}
        /\ UNCHANGED <<disk, written, cache, fate, added, gone>>
    BY <1>4, <1>v, VaultSwitchFields DEF FaultRecords
  <2>4. gen' = 1 + (MaxVaultSwitches - faults'.switches) + 2 * (MaxCrashes - faults'.crashes) /\ gen' \in Gens
    <3>1. /\ faults'.switches \in 0 .. MaxVaultSwitches /\ faults'.crashes \in 0 .. MaxCrashes
          /\ faults.switches \in 0 .. MaxVaultSwitches /\ faults.crashes \in 0 .. MaxCrashes
      BY <1>t, <2>3 DEF FaultRecords
    <3>2. gen = 1 + (MaxVaultSwitches - faults.switches) + 2 * (MaxCrashes - faults.crashes)
      BY <1>v DEF VaultTyped
    <3>3. MaxVaultSwitches \in Nat /\ MaxCrashes \in Nat
      BY VaultAssumption
    <3> QED BY <2>3, <3>1, <3>2, <3>3 DEF Gens
  <2> QED BY <1>t, <2>1, <2>2, <2>3, <2>4 DEF VaultTyped, FaultRecords
<1>5. CASE ReloadVault
  <2>1. /\ gen' = gen + 2 /\ faults' \in FaultRecords /\ ops' \in [Slots -> OpRecords]
        /\ faults'.switches = faults.switches /\ faults'.crashes = faults.crashes - 1
        /\ notes' = {} /\ mirror' = {} /\ removedIds' = {}
        /\ UNCHANGED <<disk, written, cache, fate, added, gone>>
    BY <1>5, <1>v, ReloadVaultFields DEF FaultRecords
  <2>2. \A t \in Slots : OpShape(ops'[t])
    BY <1>5, <1>v, ReloadVaultFields, NoOpTyped DEF OpShape
  <2>4. gen' = 1 + (MaxVaultSwitches - faults'.switches) + 2 * (MaxCrashes - faults'.crashes) /\ gen' \in Gens
    <3>1. /\ faults'.switches \in 0 .. MaxVaultSwitches /\ faults'.crashes \in 0 .. MaxCrashes
          /\ faults.switches \in 0 .. MaxVaultSwitches /\ faults.crashes \in 0 .. MaxCrashes
      BY <1>t, <2>1 DEF FaultRecords
    <3>2. gen = 1 + (MaxVaultSwitches - faults.switches) + 2 * (MaxCrashes - faults.crashes)
      BY <1>v DEF VaultTyped
    <3>3. MaxVaultSwitches \in Nat /\ MaxCrashes \in Nat
      BY VaultAssumption
    <3> QED BY <2>1, <3>1, <3>2, <3>3 DEF Gens
  <2> QED BY <1>t, <2>1, <2>2, <2>4 DEF VaultTyped, FaultRecords
<1>6. ASSUME NEW id \in Ids, Resolve(id) PROVE VaultTyped'
  <2>1. fate' \in [Ids -> VaultFates]
    BY <1>6, <1>t DEF Resolve, VaultFates
  <2> QED BY <1>6, <1>v, <1>t, <2>1, FrameTyped DEF Resolve
<1>7. CASE Mirror
  BY <1>7, <1>v, <1>t, FrameTyped DEF Mirror
<1>8. CASE UNCHANGED vaultVars
  BY <1>8, <1>v, <1>t, FrameTyped DEF vaultVars
<1> QED BY <1>1, <1>2, <1>3, <1>4, <1>5, <1>6, <1>7, <1>8, <1>t, OpStepTyped DEF VaultNext, StartStep

-----------------------------------------------------------------------------
(* The steps keep the storage invariant. *)

(* A step that leaves the files and what the adapters know of them alone.  *)
StoreStill ==
    /\ disk' = disk /\ written' = written /\ cache' = cache
    /\ \A t \in Slots :
        \/ ops'[t].names = {}
        \/ ops'[t].names = ops[t].names /\ ops'[t].kind = ops[t].kind /\ ops'[t].id = ops[t].id

(* The empty slot lists no file.                                           *)
LEMMA NoOpFields ==
    /\ NoOp.kind = "none" /\ NoOp.pc = "done" /\ NoOp.names = {} /\ NoOp.loaded = {} /\ NoOp.gen = 0
    /\ ~(NoOp.kind \in {"add", "patch", "remove"})
  BY DEF NoOp

(* Most steps leave the files alone.                                       *)
LEMMA StoreStillSteps ==
    ASSUME VaultTyped, NamesAreUnique, [VaultNext]_vaultVars
    PROVE  \/ StoreStill
           \/ \E s \in Slots : Save(s) \/ Clean(s) \/ RemoveFiles(s) \/ RemoveEnd(s) \/ LoadList(s) \/ LoadFile(s)
<1>1. ASSUME NEW s \in Slots, OpEnds(s), UNCHANGED <<disk, written, cache>> PROVE StoreStill
  BY <1>1, NoOpFields DEF OpEnds, OthersGoOn, StoreStill
<1>2. ASSUME NEW s \in Slots, NEW pc, GoesOn(s, pc, ops[s].names), UNCHANGED <<disk, written, cache>> PROVE StoreStill
  BY <1>2 DEF GoesOn, OthersGoOn, StoreStill
<1>3. ASSUME NEW s \in Slots, NEW kind, NEW id, NEW note, NEW pc, Begins(s, kind, id, note, pc),
             UNCHANGED <<disk, written, cache>> PROVE StoreStill
  BY <1>3 DEF Begins, OthersGoOn, StoreStill
<1>4. ASSUME NEW s \in Slots, AddEnd(s) \/ PatchEnd(s) \/ Spent(s) \/ SpendFails(s) \/ LoadEnd(s) PROVE StoreStill
  BY <1>4, <1>1, <1>2, AddEndFields, PatchEndFields, SpentFields, SpendFailsFields, LoadEndFields
<1>5. ASSUME NEW s \in Slots, NEW id \in Ids, Broadcast(s, id) \/ PatchStart(s, id) \/ SpendStart(s, id)
      PROVE  StoreStill
  BY <1>5, <1>3, BroadcastFields, PatchStartFields, SpendStartFields
<1>6. ASSUME NEW s \in Slots, Switch(s) PROVE StoreStill
  BY <1>6, <1>3, VaultSwitchFields
<1>7. CASE ReloadVault
  BY <1>7, ReloadVaultFields, NoOpFields DEF StoreStill
<1>8. CASE Mirror \/ UNCHANGED vaultVars \/ \E id \in Ids : Resolve(id)
  BY <1>8 DEF Mirror, vaultVars, Resolve, StoreStill
<1>9. DOMAIN ops = Slots
  BY DEF VaultTyped
<1> QED BY <1>4, <1>5, <1>6, <1>7, <1>8, <1>9 DEF VaultNext, Continue, OpStep, StartStep

(* File names are used once.                                               *)
LEMMA NamesAreUniqueStep ==
    ASSUME StorageInv, [VaultNext]_vaultVars
    PROVE  NamesAreUnique'
<1>v. VaultTyped /\ NamesAreUnique /\ written \in Nat
  BY DEF StorageInv, VaultTyped
<1>k. ASSUME disk' \subseteq disk, written' = written,
             \A g \in Gens, id \in Ids : cache'[g][id] \subseteq 1 .. written,
             \A s \in Slots : ops'[s].names \subseteq 1 .. written
      PROVE  NamesAreUnique'
  BY <1>k, <1>v DEF NamesAreUnique
<1>1. CASE StoreStill
  BY <1>1, <1>v, <1>k DEF StoreStill, NamesAreUnique
<1>2. ASSUME NEW s \in Slots, Save(s) PROVE NamesAreUnique'
  <2>1. /\ disk' = disk \cup {[name |-> written + 1, note |-> ops[s].note]} /\ written' = written + 1
        /\ \A g \in Gens, id \in Ids :
              cache'[g][id] = IF g = ops[s].gen /\ id = ops[s].id THEN {written + 1} ELSE cache[g][id]
        /\ ops'[s].names = cache[ops[s].gen][ops[s].id] /\ \A t \in Slots \ {s} : ops'[t] = ops[t]
        /\ ops[s].gen \in Gens /\ ops[s].id \in Ids
    BY <1>2, <1>v, SaveFields, GensOfOps, KindOf DEF GoesOn, OthersGoOn
  <2>2. \A n \in 1 .. written : n \in 1 .. written' /\ n # written + 1
    BY <1>v, <2>1
  <2>3. written + 1 \in 1 .. written'
    BY <1>v, <2>1
  <2>4. /\ \A f, g \in disk' : f.name = g.name => f = g
        /\ \A f \in disk' : f.name \in 1 .. written'
    BY <1>v, <2>1, <2>2, <2>3 DEF NamesAreUnique
  <2>5. \A g \in Gens, id \in Ids : cache'[g][id] \subseteq 1 .. written'
    BY <1>v, <2>1, <2>2, <2>3 DEF NamesAreUnique
  <2>6. ASSUME NEW t \in Slots PROVE ops'[t].names \subseteq 1 .. written'
    BY <1>v, <2>1, <2>2 DEF NamesAreUnique
  <2> QED BY <2>4, <2>5, <2>6 DEF NamesAreUnique
<1>3. ASSUME NEW s \in Slots, Clean(s) PROVE NamesAreUnique'
  <2>1. /\ ops'[s].names = {} /\ \A t \in Slots \ {s} : ops'[t] = ops[t]
        /\ disk' \subseteq disk /\ written' = written /\ cache' = cache
    BY <1>3, <1>v, CleanFields DEF GoesOn, OthersGoOn, Deletes
  <2> QED BY <2>1, <1>v, <1>k DEF NamesAreUnique
<1>4. ASSUME NEW s \in Slots, RemoveFiles(s) PROVE NamesAreUnique'
  <2>1. /\ ops'[s].names = cache[ops[s].gen][ops[s].id] \/ ops'[s].names = FilesOf(ops[s].id)
        /\ \A t \in Slots \ {s} : ops'[t] = ops[t]
        /\ disk' = disk /\ written' = written /\ cache' = cache /\ ops[s].kind \in {"patch", "remove"}
    BY <1>4, <1>v, RemoveFilesFields DEF GoesOn, OthersGoOn
  <2>2. ops[s].gen \in Gens /\ ops[s].id \in Ids
    BY <2>1, <1>v, GensOfOps, KindOf
  <2>3. FilesOf(ops[s].id) \subseteq 1 .. written
    BY <1>v DEF FilesOf, NamesAreUnique
  <2> QED BY <2>1, <2>2, <2>3, <1>v, <1>k DEF NamesAreUnique
<1>5. ASSUME NEW s \in Slots, RemoveEnd(s) PROVE NamesAreUnique'
  <2>1. /\ ops'[s].names = {} /\ \A t \in Slots \ {s} : ops'[t] = ops[t]
        /\ disk' \subseteq disk /\ written' = written
        /\ \A g \in Gens, id \in Ids : cache'[g][id] \subseteq cache[g][id]
    BY <1>5, <1>v, RemoveEndFields, NoOpFields DEF OpEnds, OthersGoOn, Deletes
  <2> QED BY <2>1, <1>v, <1>k DEF NamesAreUnique
<1>6. ASSUME NEW s \in Slots, LoadList(s) PROVE NamesAreUnique'
  <2>1. /\ ops'[s].names \subseteq {f.name : f \in disk} /\ \A t \in Slots \ {s} : ops'[t] = ops[t]
        /\ disk' = disk /\ written' = written
        /\ \A g \in Gens, id \in Ids : cache'[g][id] \subseteq cache[g][id]
    BY <1>6, <1>v, LoadListFields DEF GoesOn, OthersGoOn
  <2> QED BY <2>1, <1>v, <1>k DEF NamesAreUnique
<1>7. ASSUME NEW s \in Slots, LoadFile(s) PROVE NamesAreUnique'
  <2>1. /\ ops'[s].names \subseteq ops[s].names /\ \A t \in Slots \ {s} : ops'[t] = ops[t]
        /\ disk' = disk /\ written' = written
        /\ \A g \in Gens, id \in Ids : \A k \in cache'[g][id] :
              k \in cache[g][id] \/ \E f \in disk : f.name = k
    BY <1>7, <1>v, LoadFileCaches, LoadFileFields DEF OthersGoOn
  <2> QED BY <2>1, <1>v, <1>k DEF NamesAreUnique
<1> QED BY <1>1, <1>2, <1>3, <1>4, <1>5, <1>6, <1>7, <1>v, StoreStillSteps

(* What an adapter or an operation lists is of its note.                   *)
LEMMA NamesAreOfTheirNoteStep ==
    ASSUME StorageInv, [VaultNext]_vaultVars
    PROVE  NamesAreOfTheirNote'
<1>v. VaultTyped /\ NamesAreUnique /\ NamesAreOfTheirNote /\ written \in Nat
  BY DEF StorageInv, VaultTyped
<1> USE DEF IsOp
<1>k. ASSUME disk' \subseteq disk,
             \A g \in Gens, id \in Ids, f \in disk : f.name \in cache'[g][id] => f.note.id = id,
             \A s \in Slots, f \in disk : IsOp(s)' /\ f.name \in ops'[s].names => f.note.id = ops'[s].id
      PROVE  NamesAreOfTheirNote'
  BY <1>k DEF NamesAreOfTheirNote
<1>1. CASE StoreStill
  BY <1>1, <1>v, <1>k DEF StoreStill, NamesAreOfTheirNote
<1>2. ASSUME NEW s \in Slots, Save(s) PROVE NamesAreOfTheirNote'
  <2>1. /\ disk' = disk \cup {[name |-> written + 1, note |-> ops[s].note]}
        /\ \A g \in Gens, id \in Ids :
              cache'[g][id] = IF g = ops[s].gen /\ id = ops[s].id THEN {written + 1} ELSE cache[g][id]
        /\ ops'[s].names = cache[ops[s].gen][ops[s].id] /\ \A t \in Slots \ {s} : ops'[t] = ops[t]
        /\ ops'[s].id = ops[s].id /\ ops'[s].kind = ops[s].kind
    BY <1>2, <1>v, SaveFields DEF GoesOn, OthersGoOn
  <2>2. ops[s].gen \in Gens /\ ops[s].id \in Ids /\ ops[s].note.id = ops[s].id /\ ops[s].kind \in {"add", "patch"}
    BY <1>2, <1>v, SaveFields, GensOfOps, KindOf
  <2>3. \A n \in 1 .. written : n # written + 1
    BY <1>v
  <2>4. /\ \A f \in disk : f.name # written + 1
        /\ \A g \in Gens, id \in Ids : written + 1 \notin cache[g][id]
        /\ \A t \in Slots : written + 1 \notin ops[t].names
    BY <1>v, <2>3 DEF NamesAreUnique
  <2>5. ASSUME NEW g \in Gens, NEW id \in Ids, NEW f \in disk', f.name \in cache'[g][id] PROVE f.note.id = id
    <3>1. CASE f \in disk
      BY <1>v, <2>1, <2>4, <2>5, <3>1 DEF NamesAreOfTheirNote
    <3>2. CASE f = [name |-> written + 1, note |-> ops[s].note]
      BY <2>1, <2>2, <2>4, <2>5, <3>2
    <3> QED BY <2>1, <3>1, <3>2
  <2>6. ASSUME NEW t \in Slots, NEW f \in disk', IsOp(t)', f.name \in ops'[t].names PROVE f.note.id = ops'[t].id
    <3>1. CASE f \in disk
      BY <1>v, <2>1, <2>2, <2>6, <3>1 DEF NamesAreOfTheirNote
    <3>2. CASE f = [name |-> written + 1, note |-> ops[s].note]
      BY <2>1, <2>2, <2>4, <2>6, <3>2
    <3> QED BY <2>1, <3>1, <3>2
  <2> QED BY <2>5, <2>6 DEF NamesAreOfTheirNote
<1>3. ASSUME NEW s \in Slots, Clean(s) PROVE NamesAreOfTheirNote'
  <2>1. /\ ops'[s].names = {} /\ \A t \in Slots \ {s} : ops'[t] = ops[t]
        /\ disk' \subseteq disk /\ cache' = cache
    BY <1>3, <1>v, CleanFields DEF GoesOn, OthersGoOn, Deletes
  <2> QED BY <2>1, <1>v, <1>k DEF NamesAreOfTheirNote
<1>4. ASSUME NEW s \in Slots, RemoveFiles(s) PROVE NamesAreOfTheirNote'
  <2>1. /\ ops'[s].names = cache[ops[s].gen][ops[s].id] \/ ops'[s].names = FilesOf(ops[s].id)
        /\ \A t \in Slots \ {s} : ops'[t] = ops[t]
        /\ disk' = disk /\ cache' = cache /\ ops[s].kind \in {"patch", "remove"} /\ ops'[s].id = ops[s].id
    BY <1>4, <1>v, RemoveFilesFields DEF GoesOn, OthersGoOn
  <2>2. ops[s].gen \in Gens /\ ops[s].id \in Ids
    BY <2>1, <1>v, GensOfOps, KindOf
  <2>3. ASSUME NEW f \in disk, f.name \in FilesOf(ops[s].id) PROVE f.note.id = ops[s].id
    BY <1>v, <2>3 DEF FilesOf, NamesAreUnique
  <2> QED BY <2>1, <2>2, <2>3, <1>v, <1>k DEF NamesAreOfTheirNote
<1>5. ASSUME NEW s \in Slots, RemoveEnd(s) PROVE NamesAreOfTheirNote'
  <2>1. /\ ops'[s].names = {} /\ \A t \in Slots \ {s} : ops'[t] = ops[t]
        /\ disk' \subseteq disk
        /\ \A g \in Gens, id \in Ids : cache'[g][id] \subseteq cache[g][id]
    BY <1>5, <1>v, RemoveEndFields, NoOpFields DEF OpEnds, OthersGoOn, Deletes
  <2> QED BY <2>1, <1>v, <1>k DEF NamesAreOfTheirNote
<1>6. ASSUME NEW s \in Slots, LoadList(s) PROVE NamesAreOfTheirNote'
  <2>1. /\ ops'[s].kind = "load" /\ \A t \in Slots \ {s} : ops'[t] = ops[t]
        /\ disk' = disk
        /\ \A g \in Gens, id \in Ids : cache'[g][id] \subseteq cache[g][id]
    BY <1>6, <1>v, LoadListFields DEF GoesOn, OthersGoOn
  <2> QED BY <2>1, <1>v, <1>k DEF NamesAreOfTheirNote
<1>7. ASSUME NEW s \in Slots, LoadFile(s) PROVE NamesAreOfTheirNote'
  <2>1. /\ ops'[s].kind = "load" /\ \A t \in Slots \ {s} : ops'[t] = ops[t]
        /\ disk' = disk
        /\ \A g \in Gens, id \in Ids : \A k \in cache'[g][id] :
              k \in cache[g][id] \/ \E f \in disk : f.name = k /\ f.note.id = id
    BY <1>7, <1>v, LoadFileCaches, LoadFileFields DEF OthersGoOn
  <2>2. ASSUME NEW g \in Gens, NEW id \in Ids, NEW f \in disk, f.name \in cache'[g][id] PROVE f.note.id = id
    BY <2>1, <2>2, <1>v DEF NamesAreOfTheirNote, NamesAreUnique
  <2> QED BY <2>1, <2>2, <1>v, <1>k DEF NamesAreOfTheirNote
<1> QED BY <1>1, <1>2, <1>3, <1>4, <1>5, <1>6, <1>7, <1>v, StoreStillSteps

(* An operation begins in an empty slot.                                   *)
LEMMA StartFields ==
    ASSUME VaultTyped, NEW s \in Slots, NEW id \in Ids,
           Broadcast(s, id) \/ PatchStart(s, id) \/ SpendStart(s, id)
    PROVE  /\ OthersGoOn(s) /\ ops[s] = NoOp
           /\ ops'[s].id = id /\ ops'[s].kind \in {"add", "patch", "remove"} /\ ops'[s].gen = gen'
           /\ ops'[s].names = {} /\ ops'[s].loaded = {} /\ ops'[s].pc \in {"save", "chain"}
<1>1. CASE Broadcast(s, id)
  BY <1>1, BroadcastFields DEF Begins
<1>2. CASE PatchStart(s, id)
  BY <1>2, PatchStartFields DEF Begins
<1>3. CASE SpendStart(s, id)
  BY <1>3, SpendStartFields DEF Begins
<1> QED BY <1>1, <1>2, <1>3

(* Where the operations of a state come from.                              *)
LEMMA OpsComeFrom ==
    ASSUME VaultTyped, NamesAreUnique, [VaultNext]_vaultVars, NEW t \in Slots, ops'[t].kind # "none"
    PROVE  \/ /\ ops'[t].kind = ops[t].kind /\ ops'[t].id = ops[t].id /\ ops'[t].gen = ops[t].gen
              /\ ops'[t].note = ops[t].note /\ ~ReloadVault
           \/ \E id \in Ids : /\ Broadcast(t, id) \/ PatchStart(t, id) \/ SpendStart(t, id)
                              /\ ops'[t].id = id /\ ops'[t].kind \in {"add", "patch", "remove"}
           \/ ops'[t].kind = "load" /\ (Switch(t) \/ ReloadVault)
<1> DEFINE Kept == /\ ops'[t].kind = ops[t].kind /\ ops'[t].id = ops[t].id /\ ops'[t].gen = ops[t].gen
                   /\ ops'[t].note = ops[t].note
<1>0. DOMAIN ops = Slots
  BY DEF VaultTyped
<1>1. ASSUME NEW s \in Slots, OpEnds(s) PROVE Kept
  BY <1>1, NoOpFields DEF OpEnds, OthersGoOn
<1>2. ASSUME NEW s \in Slots, NEW pc, NEW names, GoesOn(s, pc, names) PROVE Kept
  BY <1>2 DEF GoesOn, OthersGoOn
<1>3. ASSUME NEW s \in Slots, Continue(s) \/ OpStep(s) PROVE Kept
  <2>1. CASE AddEnd(s) \/ SpendFails(s) \/ RemoveEnd(s) \/ LoadEnd(s)
    BY <2>1, <1>1, AddEndFields, SpendFailsFields, RemoveEndFields, LoadEndFields
  <2>2. CASE PatchEnd(s)
    BY <2>2, <1>1, <1>2, PatchEndFields
  <2>3. CASE Save(s) \/ Clean(s) \/ Spent(s) \/ RemoveFiles(s) \/ LoadList(s)
    BY <2>3, <1>2, SaveFields, CleanFields, SpentFields, RemoveFilesFields, LoadListFields
  <2>4. CASE LoadFile(s)
    BY <2>4, <1>2, LoadFileFields
  <2> QED BY <1>3, <2>1, <2>2, <2>3, <2>4 DEF Continue, OpStep
<1>b. ASSUME NEW s \in Slots, NEW id \in Ids, Broadcast(s, id) \/ PatchStart(s, id) \/ SpendStart(s, id)
      PROVE  OthersGoOn(s) /\ ops'[s].id = id /\ ops'[s].kind \in {"add", "patch", "remove"}
  BY <1>b, StartFields
<1>4. ASSUME NEW s \in Slots, NEW id \in Ids, Broadcast(s, id) \/ PatchStart(s, id) \/ SpendStart(s, id), s # t
      PROVE  Kept
  BY <1>4, <1>b DEF OthersGoOn
<1>5. ASSUME NEW id \in Ids, Broadcast(t, id) \/ PatchStart(t, id) \/ SpendStart(t, id)
      PROVE  ops'[t].id = id /\ ops'[t].kind \in {"add", "patch", "remove"}
  BY <1>5, <1>b
<1>6. ASSUME NEW s \in Slots, Switch(s) PROVE (s = t /\ ops'[t].kind = "load") \/ Kept
  BY <1>6, VaultSwitchFields DEF Begins, OthersGoOn
<1>7. ReloadVault => ops'[t].kind = "load"
  BY ReloadVaultFields, NoOpFields
<1>8. Mirror \/ UNCHANGED vaultVars \/ (\E id \in Ids : Resolve(id)) => Kept
  BY DEF Mirror, vaultVars, Resolve
<1> QED BY <1>0, <1>3, <1>4, <1>5, <1>6, <1>7, <1>8 DEF VaultNext, StartStep

(* How the fate of a deposit goes on.                                      *)
LEMMA FatesGoOn ==
    ASSUME VaultTyped, [VaultNext]_vaultVars, NEW id \in Ids
    PROVE  \/ fate'[id] = fate[id]
           \/ fate[id] = "none" /\ fate'[id] = "pending" /\ \E s \in Slots : Broadcast(s, id)
           \/ fate[id] = "pending" /\ fate'[id] \in {"landed", "reverted"} /\ Resolve(id)
           \/ fate[id] = "landed" /\ fate'[id] = "spent" /\ \E s \in Slots : Spent(s) /\ ops[s].id = id
<1>0. DOMAIN ops = Slots /\ fate \in [Ids -> VaultFates]
  BY DEF VaultTyped
<1>1. ASSUME NEW s \in Slots, NEW i \in Ids, Broadcast(s, i)
      PROVE  \/ fate'[id] = fate[id]
             \/ i = id /\ fate[id] = "none" /\ fate'[id] = "pending"
  BY <1>1, BroadcastFields
<1>2. ASSUME NEW s \in Slots, Spent(s)
      PROVE  \/ fate'[id] = fate[id]
             \/ ops[s].id = id /\ fate[id] = "landed" /\ fate'[id] = "spent"
  BY <1>2, SpentFields
<1>3. ASSUME NEW i \in Ids, Resolve(i)
      PROVE  \/ fate'[id] = fate[id]
             \/ i = id /\ fate[id] = "pending" /\ fate'[id] \in {"landed", "reverted"}
  BY <1>0, <1>3 DEF Resolve
<1>4. ASSUME NEW s \in Slots,
             \/ Continue(s) \/ (OpStep(s) /\ ~Spent(s)) \/ Switch(s)
             \/ \E i \in Ids : PatchStart(s, i) \/ SpendStart(s, i)
      PROVE  fate' = fate
  BY <1>4 DEF Continue, OpStep, AddEnd, PatchEnd, Save, Clean, SpendFails, RemoveFiles, RemoveEnd, LoadList,
              LoadFile, LoadEnd, Switch, NewAdapter, PatchStart, SpendStart
<1>5. Mirror \/ ReloadVault \/ UNCHANGED vaultVars => fate' = fate
  BY DEF Mirror, ReloadVault, NewAdapter, vaultVars
<1> QED BY <1>0, <1>1, <1>2, <1>3, <1>4, <1>5 DEF VaultNext, StartStep

(* Where what is shown comes from.                                         *)
LEMMA ShownComesFrom ==
    ASSUME VaultTyped, NamesAreUnique, [VaultNext]_vaultVars
    PROVE  /\ \A n \in notes' :
                 \/ n \in notes
                 \/ \E s \in Slots : AddEnd(s) /\ gen = ops[s].gen /\ n = ops[s].note
                 \/ \E s \in Slots : /\ PatchEnd(s) /\ gen = ops[s].gen /\ ~Overtaken(s)
                                     /\ n = ops[s].note /\ HasId(notes, ops[s].id)
                 \/ \E s \in Slots : /\ LoadEnd(s) /\ gen = ops[s].gen
                                     /\ \E f \in ops[s].loaded : f.note = n
           /\ \A n \in mirror' : n \in mirror \/ n \in notes
<1>0. DOMAIN ops = Slots
  BY DEF VaultTyped
<1>1. ASSUME NEW s \in Slots, AddEnd(s)
      PROVE  (\A n \in notes' : n \in notes \/ (gen = ops[s].gen /\ n = ops[s].note)) /\ mirror' = mirror
  BY <1>1, AddEndFields
<1>2. ASSUME NEW s \in Slots, PatchEnd(s)
      PROVE  (\A n \in notes' : n \in notes \/ (gen = ops[s].gen /\ ~Overtaken(s) /\ n = ops[s].note /\ HasId(notes, ops[s].id)))
             /\ mirror' = mirror
  BY <1>2, PatchEndFields DEF WithoutId
<1>3. ASSUME NEW s \in Slots, LoadEnd(s)
      PROVE  (\A n \in notes' : n \in notes \/ (gen = ops[s].gen /\ \E f \in ops[s].loaded : f.note = n)) /\ mirror' = mirror
  BY <1>3, LoadEndFields DEF Shows
<1>4. ASSUME NEW s \in Slots, RemoveEnd(s) PROVE notes' \subseteq notes /\ mirror' = mirror
  BY <1>4, RemoveEndFields DEF WithoutId
<1>5. ASSUME NEW s \in Slots,
             \/ Save(s) \/ Clean(s) \/ Spent(s) \/ SpendFails(s) \/ RemoveFiles(s) \/ LoadList(s) \/ LoadFile(s)
             \/ \E id \in Ids : Broadcast(s, id) \/ PatchStart(s, id) \/ SpendStart(s, id)
      PROVE  notes' = notes /\ mirror' = mirror
  BY <1>5 DEF Save, Clean, Spent, SpendFails, RemoveFiles, LoadList, LoadFile, Broadcast, PatchStart, SpendStart
<1>6. ReloadVault \/ (\E s \in Slots : Switch(s)) => notes' = {} /\ mirror' = {}
  BY DEF ReloadVault, Switch, NewAdapter
<1>7. Mirror => notes' = notes /\ mirror' = notes
  BY DEF Mirror
<1>8. UNCHANGED vaultVars \/ (\E id \in Ids : Resolve(id)) => notes' = notes /\ mirror' = mirror
  BY DEF vaultVars, Resolve
<1>9. CASE \E s \in Slots : AddEnd(s) \/ PatchEnd(s) \/ LoadEnd(s)
  BY <1>9, <1>1, <1>2, <1>3
<1>10. CASE /\ notes' \subseteq notes
            /\ mirror' = mirror \/ mirror' = {} \/ mirror' = notes
  BY <1>10
<1>11. \/ \E s \in Slots : AddEnd(s) \/ PatchEnd(s) \/ LoadEnd(s)
       \/ /\ notes' \subseteq notes
          /\ mirror' = mirror \/ mirror' = {} \/ mirror' = notes
  BY <1>0, <1>4, <1>5, <1>6, <1>7, <1>8 DEF VaultNext, StartStep, Continue, OpStep
<1> QED BY <1>9, <1>10, <1>11

(* What a load has read it had read before, or is in the folder.           *)
LEMMA LoadedComesFrom ==
    ASSUME VaultTyped, NamesAreUnique, [VaultNext]_vaultVars, NEW t \in Slots, NEW f \in ops'[t].loaded
    PROVE  f \in ops[t].loaded \/ (LoadFile(t) /\ f \in disk)
<1>0. DOMAIN ops = Slots
  BY DEF VaultTyped
<1>1. ASSUME NEW s \in Slots, OpEnds(s) PROVE f \in ops[t].loaded
  BY <1>1, NoOpFields DEF OpEnds, OthersGoOn
<1>2. ASSUME NEW s \in Slots, NEW pc, NEW names, GoesOn(s, pc, names), ops'[s].loaded = ops[s].loaded
      PROVE f \in ops[t].loaded
  BY <1>2 DEF GoesOn, OthersGoOn
<1>3. ASSUME NEW s \in Slots, Continue(s) \/ OpStep(s)
      PROVE  f \in ops[t].loaded \/ (LoadFile(t) /\ f \in disk)
  <2>1. CASE AddEnd(s) \/ SpendFails(s) \/ RemoveEnd(s) \/ LoadEnd(s)
    BY <2>1, <1>1, AddEndFields, SpendFailsFields, RemoveEndFields, LoadEndFields
  <2>2. CASE PatchEnd(s)
    BY <2>2, <1>1, <1>2, PatchEndFields
  <2>3. CASE Save(s) \/ Clean(s) \/ Spent(s) \/ RemoveFiles(s) \/ LoadList(s)
    BY <2>3, <1>2, SaveFields, CleanFields, SpentFields, RemoveFilesFields, LoadListFields
  <2>4. CASE LoadFile(s)
    BY <2>4, LoadFileCaches DEF OthersGoOn
  <2> QED BY <1>3, <2>1, <2>2, <2>3, <2>4 DEF Continue, OpStep
<1>4. ASSUME NEW s \in Slots, NEW id \in Ids, Broadcast(s, id) \/ PatchStart(s, id) \/ SpendStart(s, id)
      PROVE  f \in ops[t].loaded
  BY <1>4, StartFields, NoOpFields DEF OthersGoOn
<1>6. ASSUME NEW s \in Slots, Switch(s) PROVE f \in ops[t].loaded
  BY <1>6, VaultSwitchFields DEF Begins, OthersGoOn
<1>7. ~ReloadVault
  BY ReloadVaultFields, NoOpFields
<1>8. Mirror \/ UNCHANGED vaultVars \/ (\E id \in Ids : Resolve(id)) => f \in ops[t].loaded
  BY DEF Mirror, vaultVars, Resolve
<1> QED BY <1>0, <1>3, <1>4, <1>6, <1>7, <1>8 DEF VaultNext, StartStep


(* Where the files and what the adapters know of them come from.           *)
LEMMA StoredComesFrom ==
    ASSUME VaultTyped, NamesAreUnique, [VaultNext]_vaultVars
    PROVE  /\ \A f \in disk' :
                 \/ f \in disk
                 \/ \E s \in Slots : Save(s) /\ f = [name |-> written + 1, note |-> ops[s].note]
           /\ \A f \in disk :
                 \/ f \in disk'
                 \/ \E s \in Slots : (Clean(s) \/ RemoveEnd(s)) /\ f.name \in ops[s].names
           /\ \A g \in Gens, id \in Ids : \A k \in cache'[g][id] :
                 \/ k \in cache[g][id]
                 \/ \E s \in Slots : Save(s) /\ k = written + 1 /\ id = ops[s].id /\ g = ops[s].gen
                 \/ \E s \in Slots : LoadFile(s) /\ g = ops[s].gen /\ \E f \in disk : f.name = k /\ f.note.id = id
<1>1. CASE StoreStill
  BY <1>1 DEF StoreStill
<1>2. ASSUME NEW s \in Slots, Save(s)
      PROVE  /\ \A f \in disk' : f \in disk \/ f = [name |-> written + 1, note |-> ops[s].note]
             /\ disk \subseteq disk'
             /\ \A g \in Gens, id \in Ids : \A k \in cache'[g][id] :
                   k \in cache[g][id] \/ (k = written + 1 /\ id = ops[s].id /\ g = ops[s].gen)
  BY <1>2, SaveFields
<1>3. ASSUME NEW s \in Slots, Clean(s)
      PROVE  /\ disk' \subseteq disk /\ cache' = cache
             /\ \A f \in disk : f \in disk' \/ f.name \in ops[s].names
  BY <1>3, CleanFields DEF Deletes
<1>4. ASSUME NEW s \in Slots, RemoveEnd(s)
      PROVE  /\ disk' \subseteq disk
             /\ \A g \in Gens, id \in Ids : cache'[g][id] \subseteq cache[g][id]
             /\ \A f \in disk : f \in disk' \/ f.name \in ops[s].names
  BY <1>4, RemoveEndFields DEF Deletes
<1>5. ASSUME NEW s \in Slots, RemoveFiles(s) \/ LoadList(s)
      PROVE  /\ disk' = disk
             /\ \A g \in Gens, id \in Ids : cache'[g][id] \subseteq cache[g][id]
  BY <1>5, RemoveFilesFields, LoadListFields
<1>6. ASSUME NEW s \in Slots, LoadFile(s)
      PROVE  /\ disk' = disk
             /\ \A g \in Gens, id \in Ids : \A k \in cache'[g][id] :
                   k \in cache[g][id] \/ (g = ops[s].gen /\ \E f \in disk : f.name = k /\ f.note.id = id)
  BY <1>6, LoadFileCaches, LoadFileFields
<1> QED BY <1>1, <1>2, <1>3, <1>4, <1>5, <1>6, StoreStillSteps

(* The other slots stay.                                                   *)
LEMMA StepsAreOfTheirSlot ==
    ASSUME VaultTyped, NamesAreUnique, NEW s \in Slots, Continue(s) \/ OpStep(s)
    PROVE  OthersGoOn(s)
<1>1. CASE AddEnd(s) \/ SpendFails(s) \/ RemoveEnd(s) \/ LoadEnd(s)
  BY <1>1, AddEndFields, SpendFailsFields, RemoveEndFields, LoadEndFields DEF OpEnds
<1>2. CASE PatchEnd(s)
  BY <1>2, PatchEndFields DEF OpEnds, GoesOn
<1>3. CASE Save(s) \/ Clean(s) \/ Spent(s)
  BY <1>3, SaveFields, CleanFields, SpentFields DEF GoesOn
<1>4. CASE RemoveFiles(s) \/ LoadList(s) \/ LoadFile(s)
  BY <1>4, RemoveFilesFields, LoadListFields, LoadFileFields DEF GoesOn
<1> QED BY <1>1, <1>2, <1>3, <1>4 DEF Continue, OpStep

(* A slot changes by its own steps only.                                   *)
LEMMA SlotGoesOn ==
    ASSUME VaultTyped, NamesAreUnique, [VaultNext]_vaultVars, NEW t \in Slots
    PROVE  \/ ops'[t] = ops[t]
           \/ Continue(t) \/ OpStep(t)
           \/ \E id \in Ids : Broadcast(t, id) \/ PatchStart(t, id) \/ SpendStart(t, id)
           \/ Switch(t)
           \/ ReloadVault /\ (ops'[t] = NoOp \/ (ops'[t].kind = "load" /\ ops'[t].pc = "list"))
<1>0. DOMAIN ops = Slots
  BY DEF VaultTyped
<1>1. ASSUME NEW s \in Slots, Continue(s) \/ OpStep(s) PROVE s = t \/ ops'[t] = ops[t]
  BY <1>1, StepsAreOfTheirSlot DEF OthersGoOn
<1>2. ASSUME NEW s \in Slots, NEW id \in Ids, Broadcast(s, id) \/ PatchStart(s, id) \/ SpendStart(s, id)
      PROVE  s = t \/ ops'[t] = ops[t]
  BY <1>2, StartFields DEF OthersGoOn
<1>3. ASSUME NEW s \in Slots, Switch(s) PROVE s = t \/ ops'[t] = ops[t]
  BY <1>3, VaultSwitchFields DEF Begins, OthersGoOn
<1>4. ReloadVault => ops'[t] = NoOp \/ (ops'[t].kind = "load" /\ ops'[t].pc = "list")
  BY ReloadVaultFields
<1>5. Mirror \/ UNCHANGED vaultVars \/ (\E id \in Ids : Resolve(id)) => ops'[t] = ops[t]
  BY DEF Mirror, vaultVars, Resolve
<1> QED BY <1>0, <1>1, <1>2, <1>3, <1>4, <1>5 DEF VaultNext, StartStep

(* Where the place of an operation comes from.                             *)
LEMMA PlaceComesFrom ==
    ASSUME VaultTyped, NamesAreUnique, [VaultNext]_vaultVars, NEW t \in Slots, ops'[t].kind # "none"
    PROVE  \/ ops'[t] = ops[t]
           \/ Save(t) \/ Clean(t) \/ Spent(t) \/ RemoveFiles(t) \/ LoadList(t) \/ LoadFile(t)
           \/ PatchEnd(t) /\ gen = ops[t].gen /\ Overtaken(t) /\ ops'[t].pc = "remove"
           \/ \E id \in Ids : Broadcast(t, id) \/ PatchStart(t, id) \/ SpendStart(t, id)
           \/ Switch(t)
           \/ ReloadVault /\ ops'[t].kind = "load" /\ ops'[t].pc = "list"
<1>1. ops'[t] # NoOp
  BY NoOpFields
<1>2. ~AddEnd(t) /\ ~SpendFails(t) /\ ~RemoveEnd(t) /\ ~LoadEnd(t)
  BY <1>1, AddEndFields, SpendFailsFields, RemoveEndFields, LoadEndFields DEF OpEnds
<1>3. PatchEnd(t) => gen = ops[t].gen /\ Overtaken(t) /\ ops'[t].pc = "remove"
  BY <1>1, PatchEndFields DEF OpEnds, GoesOn
<1> QED BY <1>1, <1>2, <1>3, SlotGoesOn DEF Continue, OpStep

(* While a put has still to go on, nothing else happens.                   *)
LEMMA ContinueFirst ==
    ASSUME VaultTyped, [VaultNext]_vaultVars, NEW s \in Slots, ops[s].pc = "put"
    PROVE  /\ UNCHANGED <<disk, written, cache, gen, mirror, removedIds, fate, gone, faults>>
           /\ \A t \in Slots : ops[t].pc # "put" => ops'[t] = ops[t]
<1>0. DOMAIN ops = Slots
  BY DEF VaultTyped
<1>1. (\E u \in Slots : Continue(u)) \/ UNCHANGED vaultVars
  BY <1>0 DEF VaultNext, NothingToContinue, OpAt
<1>2. ASSUME NEW u \in Slots, AddEnd(u)
      PROVE  /\ UNCHANGED <<disk, written, cache, gen, mirror, removedIds, fate, gone, faults>>
             /\ \A t \in Slots : ops[t].pc # "put" => ops'[t] = ops[t]
  BY <1>2, AddEndFields DEF OpEnds, OthersGoOn
<1>3. ASSUME NEW u \in Slots, PatchEnd(u)
      PROVE  /\ UNCHANGED <<disk, written, cache, gen, mirror, removedIds, fate, gone, faults>>
             /\ \A t \in Slots : ops[t].pc # "put" => ops'[t] = ops[t]
  <2>1. OthersGoOn(u) /\ ops[u].pc = "put"
    BY <1>3, PatchEndFields DEF OpEnds, GoesOn
  <2> QED BY <1>3, <2>1 DEF PatchEnd, OthersGoOn
<1> QED BY <1>1, <1>2, <1>3 DEF Continue, vaultVars

(* A note that is not yet broadcast stays unknown.                         *)
LEMMA UnbroadcastIsUnknown ==
    ASSUME StorageInv, [VaultNext]_vaultVars, NEW id \in Ids, fate'[id] = "none"
    PROVE  (NotStored(id) /\ NotShown(id) /\ \A t \in Slots : IsOp(t) => ops[t].id # id)'
<1>v. VaultTyped /\ NamesAreUnique
  BY DEF StorageInv
<1>1. fate[id] = "none"
  BY <1>v, FatesGoOn
<1>2. NotStored(id) /\ NotShown(id) /\ \A t \in Slots : ops[t].kind \in {"add", "patch", "remove"} => ops[t].id # id
  BY <1>1 DEF StorageInv, NewIsUnknown, IsOp
<1>3. ASSUME NEW s \in Slots, ops[s].kind \in {"add", "patch"}
      PROVE  ops[s].id # id /\ ops[s].note.id # id
  BY <1>2, <1>3, <1>v, KindOf
<1>4. ASSUME NEW s \in Slots, Save(s) \/ AddEnd(s) \/ PatchEnd(s)
      PROVE  ops[s].id # id /\ ops[s].note.id # id
  <2>1. ops[s].kind \in {"add", "patch"}
    BY <1>4, <1>v, SaveFields, AddEndFields, PatchEndFields
  <2> QED BY <1>3, <2>1
<1>5. NotStored(id)'
  <2>1. \A f \in disk' : f.note.id # id
    BY <1>v, <1>2, <1>4, StoredComesFrom DEF NotStored
  <2>2. \A g \in Gens : cache'[g][id] = {}
    BY <1>v, <1>2, <1>4, StoredComesFrom DEF NotStored
  <2> QED BY <2>1, <2>2 DEF NotStored
<1>6. NotShown(id)'
  <2>1. \A n \in notes' \cup mirror' : n.id # id
    BY <1>v, <1>2, <1>4, ShownComesFrom DEF NotShown
  <2>2. \A t \in Slots : \A f \in ops'[t].loaded : f.note.id # id
    BY <1>v, <1>2, LoadedComesFrom DEF NotShown, NotStored
  <2> QED BY <2>1, <2>2 DEF NotShown
<1>7. ASSUME NEW t \in Slots, ops'[t].kind \in {"add", "patch", "remove"} PROVE ops'[t].id # id
  <2>1. \A i \in Ids : Broadcast(t, i) => fate'[i] = "pending"
    BY <1>v, BroadcastFields
  <2>2. \A i \in Ids : PatchStart(t, i) \/ SpendStart(t, i) => fate[i] # "none"
    BY <1>v, PatchStartFields, SpendStartFields
  <2> QED BY <1>v, <1>1, <1>2, <1>7, <2>1, <2>2, OpsComeFrom
<1> QED BY <1>5, <1>6, <1>7 DEF IsOp

(* A deposit is broadcast.                                                 *)
LEMMA BroadcastIsUnknown ==
    ASSUME StorageInv, [VaultNext]_vaultVars, NEW s \in Slots, NEW id \in Ids, Broadcast(s, id)
    PROVE  AddedIsUnknown(s)'
<1>v. VaultTyped /\ NamesAreUnique
  BY DEF StorageInv
<1>1. /\ ops'[s].id = id /\ ops'[s].pc = "save" /\ fate[id] = "none" /\ fate'[id] = "pending"
      /\ OthersGoOn(s) /\ UNCHANGED <<disk, cache, notes, mirror>>
  BY <1>v, BroadcastFields DEF Begins
<1>2. NotStored(id) /\ NotShown(id) /\ \A t \in Slots : ops[t].kind \in {"add", "patch", "remove"} => ops[t].id # id
  BY <1>1 DEF StorageInv, NewIsUnknown, IsOp
<1>3. NotShown(id)'
  <2>1. \A t \in Slots : \A f \in ops'[t].loaded : f.note.id # id
    BY <1>v, <1>2, LoadedComesFrom DEF NotShown, NotStored
  <2> QED BY <1>1, <1>2, <2>1 DEF NotShown
<1>4. NotStored(id)'
  BY <1>1, <1>2 DEF NotStored
<1> QED BY <1>1, <1>2, <1>3, <1>4 DEF AddedIsUnknown, OthersGoOn, IsOp, OpAt

(* The operation that adds it goes on.                                     *)
LEMMA AddedStaysUnknown ==
    ASSUME StorageInv, [VaultNext]_vaultVars, NEW s \in Slots,
           ops[s].kind = "add", ops'[s].kind = "add", ops'[s].id = ops[s].id, ops'[s].note = ops[s].note
    PROVE  AddedIsUnknown(s)'
<1> DEFINE id == ops[s].id
<1>v. VaultTyped /\ NamesAreUnique
  BY DEF StorageInv
<1>1. AddedIsUnknown(s)
  BY DEF StorageInv, NewIsUnknown, AddedIsUnknown
<1>2. id \in Ids /\ ops[s].note.id = id /\ ops[s].pc \in {"save", "put"}
  BY <1>v, KindOf DEF VaultTyped, OpShape
<1>n. NoOp.kind # "add"
  BY NoOpFields
<1>3. \A t \in Slots \ {s} : ops[t].kind \in {"add", "patch", "remove"} => ops[t].id # id
  BY <1>1 DEF AddedIsUnknown, IsOp
<1>4. ASSUME NEW t \in Slots, ops[t].kind \in {"add", "patch"}, ops[t].note.id = id PROVE t = s
  BY <1>3, <1>4, <1>v, KindOf
<1>5. fate'[id] \in {"pending", "landed", "reverted"}
  <2>1. ASSUME NEW t \in Slots, Spent(t), ops[t].id = id PROVE FALSE
    BY <1>3, <2>1, <1>v, SpentFields
  <2> QED BY <1>1, <1>2, <1>v, <2>1, FatesGoOn DEF AddedIsUnknown
<1>6. ASSUME NEW t \in Slots, LoadFile(t) PROVE ops[s].pc # "put"
  <2>1. PICK name \in ops[t].names : ops'[t].names = ops[t].names \ {name}
    BY <1>6, <1>v, LoadFileFields DEF GoesOn
  <2>2. ops'[t] # ops[t] /\ ops[t].pc = "read"
    BY <1>6, <1>v, <2>1, LoadFileFields
  <2> QED BY <2>2, <1>v, ContinueFirst
<1>7. NotShown(id)'
  <2>1. ASSUME NEW t \in Slots, AddEnd(t) PROVE ops[t].note.id # id
    <3>1. ops[t].kind = "add" /\ ops'[t].kind = "none"
      BY <2>1, <1>v, AddEndFields, NoOpFields DEF OpEnds
    <3> QED BY <3>1, <1>4
  <2>2. ASSUME NEW t \in Slots, PatchEnd(t) PROVE ops[t].note.id # id
    BY <2>2, <1>v, <1>4, PatchEndFields
  <2>3. \A n \in notes' \cup mirror' : n.id # id
    BY <1>v, <1>1, <2>1, <2>2, ShownComesFrom DEF NotShown, AddedIsUnknown
  <2>4. \A t \in Slots : \A f \in ops'[t].loaded : f.note.id # id
    BY <1>v, <1>1, <1>2, <1>6, LoadedComesFrom DEF NotShown, NotStored, AddedIsUnknown, OpAt
  <2> QED BY <2>3, <2>4 DEF NotShown
<1>8. ASSUME NEW t \in Slots \ {s}, ops'[t].kind \in {"add", "patch", "remove"} PROVE ops'[t].id # id
  <2>1. \A i \in Ids : Broadcast(t, i) => i # id
    BY <1>1, <1>v, BroadcastFields DEF AddedIsUnknown
  <2>2. \A i \in Ids : PatchStart(t, i) => i # id
    BY <1>1, <1>v, PatchStartFields DEF AddedIsUnknown, NotShown, HasId
  <2>3. \A i \in Ids : SpendStart(t, i) => i # id
    BY <1>1, <1>v, SpendStartFields DEF AddedIsUnknown, NotShown
  <2> QED BY <1>v, <1>3, <1>8, <2>1, <2>2, <2>3, OpsComeFrom
<1>9. ASSUME ops'[s].pc = "save" PROVE NotStored(id)'
  <2>1. ops[s].pc = "save"
    <3>1. ASSUME ops[s].pc = "put" PROVE FALSE
      <4>1. \/ ops'[s] = ops[s]
            \/ PatchEnd(s) \/ Save(s) \/ Clean(s) \/ Spent(s) \/ RemoveFiles(s) \/ LoadList(s) \/ LoadFile(s)
            \/ (\E i \in Ids : Broadcast(s, i) \/ PatchStart(s, i) \/ SpendStart(s, i)) \/ Switch(s)
            \/ ReloadVault /\ ops'[s].kind = "load"
        BY <1>v, PlaceComesFrom
      <4>2. ~PatchEnd(s) /\ ~Save(s) /\ ~Clean(s) /\ ~Spent(s) /\ ~RemoveFiles(s) /\ ~LoadList(s) /\ ~LoadFile(s)
        BY <3>1, <1>v, PatchEndFields, SaveFields, CleanFields, SpentFields, RemoveFilesFields, LoadListFields,
           LoadFileFields
      <4>3. \A i \in Ids : ~Broadcast(s, i) /\ ~PatchStart(s, i) /\ ~SpendStart(s, i)
        BY <1>n, <1>v, StartFields
      <4>4. ~Switch(s)
        BY <1>v, VaultSwitchFields DEF Begins
      <4> QED BY <1>9, <1>n, <3>1, <4>1, <4>2, <4>3, <4>4
    <3> QED BY <1>2, <3>1
  <2>2. NotStored(id)
    BY <1>1, <2>1 DEF AddedIsUnknown, OpAt
  <2>3. ASSUME NEW t \in Slots, Save(t) PROVE ops[t].note.id # id /\ ops[t].id # id
    <3>1. t # s
      BY <1>9, <2>3, <1>v, SaveFields DEF GoesOn
    <3> QED BY <2>3, <1>v, <1>3, <1>4, <3>1, SaveFields
  <2>4. \A f \in disk' : f.note.id # id
    BY <1>v, <2>2, <2>3, StoredComesFrom DEF NotStored
  <2>5. \A g \in Gens : cache'[g][id] = {}
    BY <1>v, <1>2, <2>2, <2>3, StoredComesFrom DEF NotStored
  <2> QED BY <2>4, <2>5 DEF NotStored
<1>10. ASSUME ops'[s].pc = "put", NEW f \in disk', f.note.id = id PROVE f.note = ops[s].note
  <2>1. CASE ops[s].pc = "put"
    BY <1>1, <1>v, <1>10, <2>1, ContinueFirst DEF AddedIsUnknown, OpAt
  <2>2. CASE ops[s].pc = "save"
    <3>1. f \notin disk
      BY <1>1, <1>10, <2>2 DEF AddedIsUnknown, NotStored, OpAt
    <3>2. PICK t \in Slots : Save(t) /\ f = [name |-> written + 1, note |-> ops[t].note]
      BY <1>v, <3>1, StoredComesFrom
    <3>3. ops[t].kind \in {"add", "patch"} /\ ops[t].note.id = id /\ f.note = ops[t].note
      BY <3>2, <1>v, <1>10, SaveFields
    <3> QED BY <1>4, <3>3
  <2> QED BY <1>2, <2>1, <2>2
<1>11. /\ fate'[ops'[s].id] \in {"pending", "landed", "reverted"}
       /\ NotShown(ops[s].id)'
       /\ \A t \in Slots \ {s} : IsOp(t)' => ops'[t].id # ops'[s].id
       /\ OpAt(s, "save")' => NotStored(ops[s].id)'
       /\ OpAt(s, "put")' => \A f \in disk' : f.note.id = ops'[s].id => f.note = ops'[s].note
  <2>1. NotShown(ops[s].id)'
    BY <1>7 DEF NotShown
  <2>2. OpAt(s, "save")' => NotStored(ops[s].id)'
    BY <1>9 DEF NotStored, OpAt
  <2> QED BY <1>5, <1>8, <1>10, <2>1, <2>2 DEF IsOp, OpAt
<1> QED BY <1>11 DEF AddedIsUnknown

(* A note that is not yet added stays unknown.                             *)
LEMMA NewIsUnknownStep ==
    ASSUME StorageInv, [VaultNext]_vaultVars
    PROVE  NewIsUnknown'
<1>v. VaultTyped /\ NamesAreUnique
  BY DEF StorageInv
<1>1. ASSUME NEW s \in Slots, ops'[s].kind = "add" PROVE AddedIsUnknown(s)'
  <2>1. \A id \in Ids : ~PatchStart(s, id) /\ ~SpendStart(s, id)
    BY <1>1, <1>v, PatchStartFields, SpendStartFields DEF Begins
  <2> QED BY <1>1, <1>v, <2>1, OpsComeFrom, BroadcastIsUnknown, AddedStaysUnknown
<1> QED BY <1>1, UnbroadcastIsUnknown DEF NewIsUnknown, AddedIsUnknown

(* How what the provider holds goes on, within an adapter and beyond it.   *)
LEMMA GenGoesOn ==
    ASSUME VaultTyped, NamesAreUnique, [VaultNext]_vaultVars
    PROVE  \/ /\ gen' = gen /\ removedIds \subseteq removedIds'
              /\ \A id \in removedIds' : id \in removedIds \/ \E s \in Slots : Spent(s) /\ id = ops[s].id
              /\ \A n \in notes : \/ HasId(notes', n.id)
                                  \/ \E s \in Slots : RemoveEnd(s) /\ ops[s].kind = "remove" /\ ops[s].id = n.id
              /\ mirror' = mirror \/ (mirror' = notes /\ notes' = notes)
           \/ /\ gen' \in {gen + 1, gen + 2} /\ notes' = {} /\ mirror' = {} /\ removedIds' = {}
              /\ (\E s \in Slots : Switch(s)) \/ ReloadVault
<1>0. DOMAIN ops = Slots
  BY DEF VaultTyped
<1>1. ASSUME NEW s \in Slots, AddEnd(s)
      PROVE  UNCHANGED <<gen, removedIds, mirror>> /\ \A n \in notes : HasId(notes', n.id)
  BY <1>1, AddEndFields DEF HasId
<1>2. ASSUME NEW s \in Slots, PatchEnd(s)
      PROVE  UNCHANGED <<gen, removedIds, mirror>> /\ \A n \in notes : HasId(notes', n.id)
  <2>1. /\ UNCHANGED <<gen, removedIds, mirror>>
        /\ \/ notes' = notes
           \/ notes' = WithoutId(notes, ops[s].id) \cup {ops[s].note}
        /\ ops[s].note.id = ops[s].id
    BY <1>2, PatchEndFields, KindOf
  <2> QED BY <2>1 DEF HasId, WithoutId
<1>3. ASSUME NEW s \in Slots, LoadEnd(s)
      PROVE  UNCHANGED <<gen, removedIds, mirror>> /\ \A n \in notes : HasId(notes', n.id)
  BY <1>3, LoadEndFields DEF HasId, Shows
<1>4. ASSUME NEW s \in Slots, RemoveEnd(s)
      PROVE  /\ UNCHANGED <<gen, removedIds, mirror>>
             /\ \A n \in notes : HasId(notes', n.id) \/ (ops[s].kind = "remove" /\ ops[s].id = n.id)
  BY <1>4, RemoveEndFields DEF HasId, WithoutId
<1>5. ASSUME NEW s \in Slots, Spent(s)
      PROVE  UNCHANGED <<gen, notes, mirror>> /\ removedIds' = removedIds \cup {ops[s].id}
  BY <1>5, SpentFields
<1>6. ASSUME NEW s \in Slots,
             \/ Save(s) \/ Clean(s) \/ SpendFails(s) \/ RemoveFiles(s) \/ LoadList(s) \/ LoadFile(s)
             \/ \E id \in Ids : Broadcast(s, id) \/ PatchStart(s, id) \/ SpendStart(s, id)
      PROVE  UNCHANGED <<gen, notes, mirror, removedIds>>
  BY <1>6 DEF Save, Clean, SpendFails, RemoveFiles, LoadList, LoadFile, Broadcast, PatchStart, SpendStart
<1>7. ReloadVault => gen' = gen + 2 /\ notes' = {} /\ mirror' = {} /\ removedIds' = {}
  BY DEF ReloadVault, NewAdapter
<1>8. (\E s \in Slots : Switch(s)) => gen' = gen + 1 /\ notes' = {} /\ mirror' = {} /\ removedIds' = {}
  BY DEF Switch, NewAdapter
<1>9. Mirror => UNCHANGED <<gen, notes, removedIds>> /\ mirror' = notes
  BY DEF Mirror
<1>10. UNCHANGED vaultVars \/ (\E id \in Ids : Resolve(id)) => UNCHANGED <<gen, notes, mirror, removedIds>>
  BY DEF vaultVars, Resolve
<1>11. \A n \in notes : HasId(notes, n.id)
  BY DEF HasId
<1>12. CASE UNCHANGED <<gen, notes, mirror, removedIds>>
  BY <1>11, <1>12
<1>13. CASE \E s \in Slots : AddEnd(s) \/ PatchEnd(s) \/ LoadEnd(s)
  BY <1>13, <1>1, <1>2, <1>3
<1>14. CASE \E s \in Slots : RemoveEnd(s)
  BY <1>14, <1>4
<1>15. CASE \E s \in Slots : Spent(s)
  BY <1>15, <1>5, <1>11
<1>16. CASE Mirror
  BY <1>16, <1>9, <1>11
<1>17. CASE ReloadVault \/ \E s \in Slots : Switch(s)
  BY <1>17, <1>7, <1>8
<1> QED BY <1>0, <1>6, <1>10, <1>12, <1>13, <1>14, <1>15, <1>16, <1>17
        DEF VaultNext, StartStep, Continue, OpStep

(* The provider shows a note once.                                         *)
LEMMA ShownOnceStep ==
    ASSUME StorageInv, [VaultNext]_vaultVars
    PROVE  ShownOnce'
<1>v. VaultTyped /\ NamesAreUnique /\ ShownOnce
  BY DEF StorageInv
<1>1. ASSUME NEW s \in Slots, AddEnd(s) PROVE ShownOnce'
  <2>1. ops[s].kind = "add" /\ ops[s].note.id = ops[s].id
    BY <1>1, <1>v, AddEndFields, KindOf
  <2>2. \A n \in notes : n.id # ops[s].id
    BY <2>1 DEF StorageInv, NewIsUnknown, AddedIsUnknown, NotShown
  <2> QED BY <1>1, <1>v, <2>1, <2>2, AddEndFields DEF ShownOnce
<1>2. ASSUME NEW s \in Slots, PatchEnd(s) PROVE ShownOnce'
  BY <1>2, <1>v, PatchEndFields, KindOf DEF ShownOnce, WithoutId
<1>3. ASSUME NEW s \in Slots, LoadEnd(s) PROVE ShownOnce'
  BY <1>3, <1>v, LoadEndFields DEF Shows, ShownOnce
<1>4. CASE ~(\E s \in Slots : AddEnd(s) \/ PatchEnd(s) \/ LoadEnd(s))
  <2>1. \A n \in notes' : n \in notes
    BY <1>v, <1>4, ShownComesFrom
  <2> QED BY <2>1, <1>v DEF ShownOnce
<1> QED BY <1>1, <1>2, <1>3, <1>4

(* Only spent notes are removed.                                           *)
LEMMA OnlySpentIsRemovedStep ==
    ASSUME StorageInv, [VaultNext]_vaultVars
    PROVE  OnlySpentIsRemoved'
<1>v. VaultTyped /\ NamesAreUnique /\ OnlySpentIsRemoved
  BY DEF StorageInv
<1>t. /\ gen \in Nat /\ notes \subseteq Notes /\ removedIds \subseteq Ids /\ DOMAIN ops = Slots
      /\ \A n \in Notes : n.id \in Ids
  BY <1>v DEF VaultTyped, Gens, Notes
<1>n. NoOp.kind = "none" /\ NoOp.pc = "done"
  BY NoOpFields
<1>s. \A id \in Ids : fate[id] = "spent" => fate'[id] = "spent"
  BY <1>v, FatesGoOn
<1>1. ASSUME NEW id \in removedIds' PROVE fate'[id] = "spent"
  <2>1. CASE id \in removedIds
    BY <1>v, <1>t, <1>s, <2>1 DEF OnlySpentIsRemoved
  <2>2. ASSUME NEW s \in Slots, Spent(s), id = ops[s].id PROVE fate'[id] = "spent"
    BY <1>v, <2>2, SpentFields
  <2> QED BY <1>v, <1>1, <2>1, <2>2, GenGoesOn
<1>2. ASSUME NEW s \in Slots, ops'[s].pc \in Removing PROVE fate'[ops'[s].id] = "spent"
  <2>0. ops'[s].pc \in {"remove", "unlink", "sweep"}
    BY <1>2 DEF Removing
  <2>1. CASE ops'[s] = ops[s]
    BY <1>2, <1>v, <1>s, <2>1, KindOf DEF OnlySpentIsRemoved
  <2>2. CASE Spent(s)
    BY <1>v, <2>2, SpentFields DEF GoesOn
  <2>3. CASE RemoveFiles(s)
    <3>1. ops[s].pc \in Removing /\ ops'[s].id = ops[s].id
      BY <1>v, <2>3, RemoveFilesFields DEF GoesOn, Removing
    <3> QED BY <1>v, <1>s, <3>1, KindOf DEF OnlySpentIsRemoved
  <2>4. CASE PatchEnd(s) /\ gen = ops[s].gen /\ Overtaken(s)
    <3>1. ops[s].kind = "patch" /\ fate'[ops[s].id] = fate[ops[s].id] /\ ops[s].id \in Ids
      BY <1>v, <2>4, PatchEndFields, KindOf
    <3>2. fate[ops[s].id] = "spent"
      BY <1>v, <2>4, <3>1 DEF OnlySpentIsRemoved, Overtaken
    <3>3. ops'[s].id = ops[s].id
      BY <1>v, <1>n, <2>0, <2>4, PatchEndFields DEF GoesOn, OpEnds
    <3> QED BY <3>1, <3>2, <3>3
  <2>5. ~Save(s) /\ ~Clean(s) /\ ~LoadList(s) /\ ~LoadFile(s) /\ ~Switch(s)
    BY <1>v, <2>0, SaveFields, CleanFields, LoadListFields, LoadFileFields, VaultSwitchFields DEF GoesOn, Begins
  <2>6. \A id \in Ids : ~Broadcast(s, id) /\ ~PatchStart(s, id) /\ ~SpendStart(s, id)
    BY <1>v, <2>0, StartFields
  <2>7. ops'[s].kind # "none"
    <3>1. ops'[s].kind = "none" => ops'[s].pc = "done"
      <4>1. VaultTyped'
        BY VaultTypedStep
      <4> QED BY <4>1, NoOpFields DEF VaultTyped, OpShape
    <3> QED BY <2>0, <3>1
  <2> QED BY <1>v, <2>0, <2>1, <2>2, <2>3, <2>4, <2>5, <2>6, <2>7, PlaceComesFrom
<1>3. ASSUME NEW s \in Slots, ops'[s].kind # "none" PROVE ops'[s].gen \in 1 .. gen'
  <2>1. gen' \in Nat /\ gen' >= gen /\ gen' >= 1
    <3>1. gen' \in {gen, gen + 1, gen + 2} /\ gen >= 1
      BY <1>v, GenGoesOn DEF VaultTyped, Gens
    <3> QED BY <1>t, <3>1
  <2>2. CASE ops'[s].kind = ops[s].kind /\ ops'[s].gen = ops[s].gen
    <3>1. ops[s].gen \in 1 .. gen
      BY <1>3, <1>v, <2>2 DEF OnlySpentIsRemoved
    <3> QED BY <1>t, <2>1, <2>2, <3>1
  <2>3. CASE ops'[s].gen = gen'
    BY <2>1, <2>3
  <2>4. ASSUME NEW id \in Ids, Broadcast(s, id) \/ PatchStart(s, id) \/ SpendStart(s, id)
        PROVE  ops'[s].gen = gen'
    BY <1>v, <2>4, StartFields
  <2>5. Switch(s) => ops'[s].gen = gen'
    BY <1>v, VaultSwitchFields DEF Begins
  <2>6. ReloadVault => ops'[s].gen = gen'
    BY <1>3, <1>v, <1>n, ReloadVaultFields
  <2> QED BY <1>3, <1>v, <2>2, <2>3, <2>4, <2>5, <2>6, OpsComeFrom
<1>4. ASSUME NEW id \in Ids, HasId(mirror, id), fate'[id] # "spent", gen' = gen
      PROVE  HasId(mirror', id) /\ HasId(notes', id)
  <2>1. HasId(notes, id)
    BY <1>4, <1>v, <1>s DEF OnlySpentIsRemoved
  <2>2. ASSUME NEW s \in Slots, RemoveEnd(s) PROVE ops[s].id # id
    <3>1. ops[s].pc \in Removing /\ fate' = fate
      BY <1>v, <2>2, RemoveEndFields DEF Removing
    <3> QED BY <1>v, <1>4, <3>1 DEF OnlySpentIsRemoved
  <2>3. gen' \notin {gen + 1, gen + 2}
    BY <1>4, <1>t
  <2> QED BY <1>4, <1>v, <2>1, <2>2, <2>3, GenGoesOn DEF HasId
<1>5. ASSUME NEW s \in Slots, ops'[s].kind = "patch", ops'[s].gen = gen', fate'[ops'[s].id] # "spent"
      PROVE  HasId(mirror', ops'[s].id)
  <2>1. CASE ops'[s].kind = ops[s].kind /\ ops'[s].id = ops[s].id /\ ops'[s].gen = ops[s].gen
    <3>1. ops[s].id \in Ids /\ fate[ops[s].id] # "spent" /\ ops[s].gen \in 1 .. gen
      BY <1>5, <1>v, <1>s, <2>1, KindOf DEF OnlySpentIsRemoved
    <3>2. gen' = gen
      <4>1. gen' \in {gen, gen + 1, gen + 2} /\ gen' \in 1 .. gen
        BY <1>5, <1>v, <2>1, <3>1, GenGoesOn
      <4> QED BY <1>t, <4>1
    <3> QED BY <1>5, <1>v, <1>4, <2>1, <3>1, <3>2 DEF OnlySpentIsRemoved
  <2>2. ASSUME NEW id \in Ids, PatchStart(s, id) PROVE HasId(mirror', ops'[s].id)
    BY <1>v, <2>2, PatchStartFields DEF Begins
  <2>3. \A id \in Ids : ~Broadcast(s, id) /\ ~SpendStart(s, id)
    BY <1>5, <1>v, BroadcastFields, SpendStartFields DEF Begins
  <2> QED BY <1>5, <1>v, <2>1, <2>2, <2>3, OpsComeFrom
<1>6. ASSUME NEW id \in Ids, HasId(mirror', id), fate'[id] # "spent" PROVE HasId(notes', id)
  <2>1. CASE mirror' = mirror /\ gen' = gen
    BY <1>4, <1>6, <2>1
  <2>2. CASE mirror' = notes /\ notes' = notes
    BY <1>6, <2>2
  <2>3. CASE mirror' = {}
    BY <1>6, <2>3 DEF HasId
  <2> QED BY <1>v, <2>1, <2>2, <2>3, GenGoesOn
<1> QED BY <1>1, <1>2, <1>3, <1>5, <1>6 DEF OnlySpentIsRemoved

(* A note that is not spent keeps a file.                                  *)
LEMMA FilesStay ==
    ASSUME StorageInv, [VaultNext]_vaultVars, NEW id \in Ids, fate'[id] # "spent", NEW f \in disk, f.note.id = id
    PROVE  \/ f \in disk'
           \/ \E s \in Slots : /\ Clean(s) /\ f.name \in ops[s].names
                               /\ \E g \in disk' : g.note.id = id /\ \A k \in ops[s].names : k < g.name
<1>v. VaultTyped /\ NamesAreUnique /\ NamesAreOfTheirNote /\ OnlySpentIsRemoved /\ UnspentIsStored /\ written \in Nat
  BY DEF StorageInv, VaultTyped
<1>0. fate[id] # "spent"
  BY <1>v, FatesGoOn
<1>1. ASSUME NEW s \in Slots, RemoveEnd(s), f.name \in ops[s].names PROVE FALSE
  <2>1. ops[s].pc \in Removing /\ ops[s].kind \in {"patch", "remove"}
    BY <1>v, <1>1, RemoveEndFields DEF Removing
  <2>2. f.note.id = ops[s].id
    BY <1>v, <1>1, <2>1 DEF NamesAreOfTheirNote, IsOp
  <2> QED BY <1>0, <1>v, <2>1, <2>2 DEF OnlySpentIsRemoved
<1>2. ASSUME NEW s \in Slots, Clean(s), f.name \in ops[s].names
      PROVE  \E g \in disk' : g.note.id = id /\ \A k \in ops[s].names : k < g.name
  <2>1. ops[s].pc = "clean" /\ ops[s].kind = "patch" /\ Deletes(ops[s].names)
    BY <1>v, <1>2, CleanFields
  <2>2. ops[s].id = id
    BY <1>v, <1>2, <2>1 DEF NamesAreOfTheirNote, IsOp
  <2>3. PICK g \in disk : g.note.id = id /\ \A k \in ops[s].names : k < g.name
    BY <1>v, <1>0, <2>1, <2>2 DEF UnspentIsStored, OpAt
  <2>4. g.name \notin ops[s].names
    <3>1. g.name \in 1 .. written
      BY <1>v DEF NamesAreUnique
    <3> QED BY <1>v, <2>3, <3>1
  <2> QED BY <2>1, <2>3, <2>4 DEF Deletes
<1> QED BY <1>v, <1>1, <1>2, StoredComesFrom

(* Until it is spent a note is stored.                                     *)
LEMMA UnspentIsStoredStep ==
    ASSUME StorageInv, [VaultNext]_vaultVars
    PROVE  UnspentIsStored'
<1>v. VaultTyped /\ NamesAreUnique /\ UnspentIsStored /\ written \in Nat /\ added \subseteq Ids
  BY DEF StorageInv, VaultTyped
<1>0. ASSUME NEW id \in Ids, HasFile(id), fate'[id] # "spent" PROVE HasFile(id)'
  BY <1>0, FilesStay DEF HasFile
<1>s. \A id \in Ids : fate'[id] # "spent" => fate[id] # "spent"
  BY <1>v, FatesGoOn
\* Where a slot that writes comes from.
<1>c. ASSUME NEW s \in Slots, ops'[s].pc \in {"put", "clean"}
      PROVE  \/ ops'[s] = ops[s]
             \/ Save(s)
             \/ Clean(s) /\ ops'[s].pc = "put"
  <2>1. ~RemoveFiles(s) /\ ~LoadList(s) /\ ~LoadFile(s) /\ ~Switch(s) /\ ~Spent(s)
    BY <1>v, <1>c, RemoveFilesFields, LoadListFields, LoadFileFields, VaultSwitchFields, SpentFields DEF GoesOn, Begins
  <2>2. \A id \in Ids : ~Broadcast(s, id) /\ ~PatchStart(s, id) /\ ~SpendStart(s, id)
    BY <1>v, <1>c, StartFields
  <2>3. Clean(s) => ops'[s].pc = "put"
    BY <1>v, CleanFields DEF GoesOn
  <2>4. ops'[s].kind # "none"
    <3>1. ops'[s].kind = "none" => ops'[s].pc = "done"
      <4>1. VaultTyped'
        BY VaultTypedStep
      <4> QED BY <4>1, NoOpFields DEF VaultTyped, OpShape
    <3> QED BY <1>c, <3>1
  <2> QED BY <1>v, <1>c, <2>1, <2>2, <2>3, <2>4, PlaceComesFrom
<1>w. ASSUME NEW s \in Slots, Save(s)
      PROVE  LET f == [name |-> written + 1, note |-> ops[s].note] IN
             /\ f \in disk' /\ f.note.id = ops'[s].id /\ ops'[s].id \in Ids
             /\ \A k \in ops'[s].names : k < f.name
  <2>1. /\ ops[s].kind \in {"add", "patch"} /\ ops'[s].id = ops[s].id
        /\ ops'[s].names = cache[ops[s].gen][ops[s].id]
        /\ [name |-> written + 1, note |-> ops[s].note] \in disk'
    BY <1>v, <1>w, SaveFields DEF GoesOn
  <2>2. ops[s].note.id = ops[s].id /\ ops[s].id \in Ids /\ ops[s].gen \in Gens
    BY <1>v, <2>1, KindOf, GensOfOps
  <2>3. ops'[s].names \subseteq 1 .. written
    BY <1>v, <2>1, <2>2 DEF NamesAreUnique
  <2>4. \A k \in ops'[s].names : k < written + 1
    BY <1>v, <2>3
  <2> QED BY <2>1, <2>2, <2>4
<1>1. ASSUME NEW id \in added', fate'[id] # "spent" PROVE HasFile(id)'
  <2>1. CASE id \in added
    BY <1>0, <1>1, <1>s, <1>v, <2>1 DEF UnspentIsStored
  <2>2. ASSUME NEW s \in Slots, AddEnd(s), id = ops[s].id PROVE HasFile(id)'
    <3>1. ops[s].pc = "put" /\ id \in Ids
      BY <2>2, <1>v, AddEndFields, KindOf
    <3> QED BY <1>0, <1>1, <1>s, <1>v, <2>2, <3>1 DEF UnspentIsStored, OpAt
  <2>3. id \in added \/ \E s \in Slots : AddEnd(s) /\ id = ops[s].id
    <3>1. DOMAIN ops = Slots
      BY <1>v DEF VaultTyped
    <3>2. added' = added \/ \E s \in Slots : AddEnd(s)
      <4>1. ASSUME NEW s \in Slots, PatchEnd(s) \/ OpStep(s) \/ StartStep(s) PROVE added' = added
        BY <4>1 DEF PatchEnd, OpStep, StartStep, Save, Clean, Spent, SpendFails, RemoveFiles, RemoveEnd, LoadList,
                    LoadFile, LoadEnd, Broadcast, PatchStart, SpendStart, Switch, NewAdapter
      <4>2. Mirror \/ ReloadVault \/ UNCHANGED vaultVars \/ (\E i \in Ids : Resolve(i)) => added' = added
        BY DEF Mirror, ReloadVault, NewAdapter, vaultVars, Resolve
      <4> QED BY <3>1, <4>1, <4>2 DEF VaultNext, Continue
    <3>3. \A s \in Slots : AddEnd(s) => added' = added \cup {ops[s].id}
      BY DEF AddEnd
    <3> QED BY <1>1, <3>2, <3>3
  <2> QED BY <2>1, <2>2, <2>3
<1>2. ASSUME NEW s \in Slots, ops'[s].pc = "put", fate'[ops'[s].id] # "spent" PROVE HasFile(ops[s].id)'
  <2>1. CASE ops'[s] = ops[s]
    <3>1. ops[s].id \in Ids /\ ops[s].pc = "put"
      BY <1>2, <1>v, <2>1, KindOf
    <3>2. HasFile(ops[s].id)
      BY <1>2, <1>s, <1>v, <2>1, <3>1 DEF UnspentIsStored, OpAt
    <3>3. \E f \in disk' : f.note.id = ops[s].id
      BY <1>0, <1>2, <2>1, <3>1, <3>2 DEF HasFile
    <3> QED BY <2>1, <3>3 DEF HasFile
  <2>2. CASE Save(s)
    <3>1. \E f \in disk' : f.note.id = ops'[s].id
      BY <1>w, <2>2
    <3> QED BY <3>1 DEF HasFile
  <2>3. CASE Clean(s)
    <3>1. ops[s].id \in Ids /\ ops[s].pc = "clean" /\ ops'[s].id = ops[s].id
      BY <1>v, <2>3, CleanFields, KindOf DEF GoesOn
    <3>2. HasFile(ops[s].id)
      BY <1>2, <1>s, <1>v, <3>1 DEF UnspentIsStored, OpAt, HasFile
    <3>3. \E f \in disk' : f.note.id = ops[s].id
      BY <1>0, <1>2, <3>1, <3>2 DEF HasFile
    <3> QED BY <3>1, <3>3 DEF HasFile
  <2> QED BY <1>2, <1>c, <2>1, <2>2, <2>3
<1>3. ASSUME NEW s \in Slots, ops'[s].pc = "clean", fate'[ops'[s].id] # "spent"
      PROVE  \E f \in disk' : f.note.id = ops'[s].id /\ \A k \in ops'[s].names : k < f.name
  <2>1. CASE ops'[s] = ops[s]
    <3>1. ops[s].id \in Ids /\ ops[s].pc = "clean" /\ fate[ops[s].id] # "spent"
      BY <1>3, <1>s, <1>v, <2>1, KindOf
    <3>2. PICK f \in disk : f.note.id = ops[s].id /\ \A k \in ops[s].names : k < f.name
      BY <1>v, <3>1 DEF UnspentIsStored, OpAt
    <3>3. ASSUME NEW t \in Slots, f.name \in ops[t].names, NEW g \in disk', g.note.id = ops[s].id,
                 \A k \in ops[t].names : k < g.name
          PROVE  \A k \in ops[s].names : k < g.name
      <4>1. f.name < g.name /\ f.name \in Nat
        BY <1>v, <3>3 DEF NamesAreUnique
      <4>2. g.name \in Nat
        BY <3>3, VaultTypedStep DEF VaultTyped, Files
      <4>3. ops[s].names \subseteq Nat
        BY <1>v DEF NamesAreUnique
      <4> QED BY <3>2, <4>1, <4>2, <4>3
    <3>4. CASE f \in disk'
      BY <2>1, <3>2, <3>4
    <3>5. ASSUME NEW t \in Slots, f.name \in ops[t].names, NEW g \in disk', g.note.id = ops[s].id,
                 \A k \in ops[t].names : k < g.name
          PROVE  g.note.id = ops'[s].id /\ \A k \in ops'[s].names : k < g.name
      BY <2>1, <3>3, <3>5
    <3>6. \/ f \in disk'
          \/ \E t \in Slots : /\ f.name \in ops[t].names
                              /\ \E g \in disk' : g.note.id = ops[s].id /\ \A k \in ops[t].names : k < g.name
      <4>1. fate'[ops[s].id] # "spent"
        BY <1>3, <2>1
      <4> QED BY <3>1, <3>2, <4>1, FilesStay
    <3> QED BY <3>4, <3>5, <3>6
  <2>2. CASE Save(s)
    BY <1>w, <2>2
  <2> QED BY <1>3, <1>c, <2>1, <2>2
<1> QED BY <1>1, <1>2, <1>3 DEF UnspentIsStored, OpAt

-----------------------------------------------------------------------------
(* The steps keep the invariant of one account. *)

(* What has not happened after a step had not happened before.             *)
LEMMA FaultsGoOn ==
    ASSUME VaultTyped, NamesAreUnique, [VaultNext]_vaultVars
    PROVE  /\ SameAccount' => SameAccount /\ \A s \in Slots : ~Switch(s)
           /\ EveryDeletionDone' => EveryDeletionDone
           /\ NeverReloaded' => NeverReloaded /\ ~ReloadVault
<1> DEFINE Goes == /\ SameAccount' => SameAccount
                   /\ EveryDeletionDone' => EveryDeletionDone
                   /\ NeverReloaded' => NeverReloaded
<1>0. DOMAIN ops = Slots
  BY DEF VaultTyped
<1>1. faults' = faults => Goes
  BY DEF SameAccount, EveryDeletionDone, NeverReloaded
<1>2. ASSUME NEW s \in Slots, Clean(s) \/ RemoveEnd(s) PROVE Goes
  <2>1. \E names : Deletes(names)
    BY <1>2, CleanFields, RemoveEndFields
  <2> QED BY <2>1 DEF Deletes, SameAccount, NeverReloaded
<1>3. ASSUME NEW s \in Slots, Switch(s) PROVE Goes
  <2>1. ~SameAccount' /\ faults'.crashes = faults.crashes
    BY <1>3, VaultSwitchFields
  <2>2. faults'.failures = faults.failures
    BY <1>3 DEF Switch, VaultTyped
  <2> QED BY <2>1, <2>2 DEF EveryDeletionDone, NeverReloaded
<1>4. ReloadVault => Goes
  BY ReloadVaultFields DEF SameAccount, EveryDeletionDone
<1>5. ASSUME NEW s \in Slots,
             \/ AddEnd(s) \/ PatchEnd(s) \/ Save(s) \/ Spent(s) \/ SpendFails(s) \/ RemoveFiles(s) \/ LoadList(s)
             \/ LoadFile(s) \/ LoadEnd(s)
             \/ \E id \in Ids : Broadcast(s, id) \/ PatchStart(s, id) \/ SpendStart(s, id)
      PROVE  faults' = faults
  BY <1>5 DEF AddEnd, PatchEnd, Save, Spent, SpendFails, RemoveFiles, LoadList, LoadFile, LoadEnd, Broadcast,
              PatchStart, SpendStart
<1>6. Mirror \/ UNCHANGED vaultVars \/ (\E id \in Ids : Resolve(id)) => faults' = faults
  BY DEF Mirror, vaultVars, Resolve
<1>7. Goes
  <2> HIDE DEF Goes
  <2> QED BY <1>0, <1>1, <1>2, <1>3, <1>4, <1>5, <1>6 DEF VaultNext, StartStep, Continue, OpStep
<1>8. \A s \in Slots : Switch(s) => ~SameAccount'
  BY VaultSwitchFields
<1>9. ReloadVault => ~NeverReloaded'
  BY ReloadVaultFields
<1> QED BY <1>7, <1>8, <1>9

(* Without a switch every adapter is a home one.                           *)
LEMMA AlwaysHome ==
    ASSUME VaultTyped, SameAccount
    PROVE  Home(gen)
<1>1. gen = 1 + (MaxVaultSwitches - faults.switches) + 2 * (MaxCrashes - faults.crashes)
  BY DEF VaultTyped
<1>2. faults.switches = MaxVaultSwitches /\ MaxVaultSwitches \in Nat /\ MaxCrashes \in Nat
      /\ faults.crashes \in 0 .. MaxCrashes
  BY VaultAssumption DEF VaultTyped, SameAccount
<1>3. gen = 1 + 2 * (MaxCrashes - faults.crashes) /\ MaxCrashes - faults.crashes \in Nat
  BY <1>1, <1>2
<1>4. \A k \in Nat : (1 + 2 * k) % 2 = 1
  OBVIOUS
<1> QED BY <1>3, <1>4 DEF Home

(* Operations are of the current adapter, and a load is alone.             *)
LEMMA LoadsFirstStep ==
    ASSUME StorageInv, LoadsFirst, WaitsForLoad, SameAccount', [VaultNext]_vaultVars
    PROVE  LoadsFirst'
<1>v. VaultTyped /\ NamesAreUnique /\ SameAccount /\ DOMAIN ops = Slots
  BY FaultsGoOn DEF StorageInv, VaultTyped
<1>w. \A s \in Slots : ~Switch(s)
  BY <1>v, FaultsGoOn
<1>n. NoOp.kind = "none" /\ NoOp.pc = "done" /\ NoOp.loaded = {}
  BY NoOpFields
<1>g. ~ReloadVault => gen' = gen
  BY <1>v, <1>w, GenGoesOn
<1>1. ASSUME NEW s \in Slots, ops'[s].kind # "none" PROVE ops'[s].gen = gen'
  <2>1. ASSUME NEW id \in Ids, Broadcast(s, id) \/ PatchStart(s, id) \/ SpendStart(s, id)
        PROVE  ops'[s].gen = gen'
    BY <1>v, <2>1, StartFields
  <2>2. ReloadVault => ops'[s].gen = gen'
    BY <1>1, <1>v, <1>n, ReloadVaultFields
  <2> QED BY <1>1, <1>v, <1>w, <1>g, <2>1, <2>2, OpsComeFrom DEF LoadsFirst
<1>2. ASSUME ReloadVault, NEW s \in Slots, ops'[s].kind = "load"
      PROVE  /\ notes' = {} /\ mirror' = {} /\ removedIds' = {}
             /\ \A t \in Slots \ {s} : ops'[t].kind = "none"
             /\ ops'[s].loaded = {} /\ ops'[s].pc = "list"
  BY <1>2, <1>v, <1>n, ReloadVaultFields
<1>3. ASSUME ~ReloadVault, NEW s \in Slots, ops[s].kind = "load", ops'[s].kind = "load"
      PROVE  /\ notes' = {} /\ mirror' = {} /\ removedIds' = {}
             /\ \A t \in Slots \ {s} : ops'[t].kind = "none"
             /\ ops'[s].loaded \subseteq disk'
             /\ ops'[s].pc = "read" =>
                   \A f \in disk' : \/ f.name \in ops'[s].names
                                    \/ f \in ops'[s].loaded /\ f.name \in cache'[gen'][f.note.id]
  <2>1. /\ ops[s].gen = gen /\ gen' = gen /\ gen \in Gens
        /\ notes = {} /\ mirror = {} /\ removedIds = {}
        /\ \A t \in Slots \ {s} : ops[t].kind = "none"
        /\ ops[s].loaded \subseteq disk
    BY <1>3, <1>g, <1>v DEF LoadsFirst, VaultTyped
  <2>2. \A t \in Slots : ~AddEnd(t) /\ ~PatchEnd(t) /\ ~Spent(t) /\ ~Save(t) /\ ~Clean(t) /\ ~RemoveFiles(t) /\ ~RemoveEnd(t)
    BY <1>3, <1>v, <2>1, AddEndFields, PatchEndFields, SpentFields, SaveFields, CleanFields, RemoveFilesFields,
       RemoveEndFields
  <2>3. \A t \in Slots : ~LoadEnd(t)
    BY <1>3, <1>v, <1>n, <2>1, LoadEndFields DEF OpEnds
  <2>4. \A t \in Slots, id \in Ids : ~Broadcast(t, id) /\ ~PatchStart(t, id) /\ ~SpendStart(t, id)
    BY <1>3, <1>v, <2>1, BroadcastFields, PatchStartFields, SpendStartFields DEF HasId
  <2>5. notes' = {} /\ mirror' = {}
    BY <1>v, <2>1, <2>2, <2>3, ShownComesFrom
  <2>6. removedIds' = {}
    BY <1>3, <1>v, <1>w, <2>1, <2>2, GenGoesOn
  <2>7. ASSUME NEW t \in Slots \ {s} PROVE ops'[t].kind = "none"
    BY <1>3, <1>v, <1>w, <2>1, <2>4, OpsComeFrom
  <2>8. CASE LoadList(s)
    <3>1. /\ ops'[s].names = {f.name : f \in disk} /\ ops'[s].loaded = ops[s].loaded /\ disk' = disk
      BY <1>v, <2>1, <2>8, LoadListFields, AlwaysHome DEF GoesOn
    <3> QED BY <2>1, <2>5, <2>6, <2>7, <3>1
  <2>9. CASE LoadFile(s)
    <3>1. /\ disk' = disk /\ ops[s].pc = "read"
          /\ \A f \in ops'[s].loaded : f \in ops[s].loaded \/ f \in disk
          /\ ops[s].loaded \subseteq ops'[s].loaded
          /\ \A f \in disk : f.name \in ops[s].names \ ops'[s].names =>
                f \in ops'[s].loaded /\ f.name \in cache'[gen][f.note.id]
          /\ \A g \in Gens, id \in Ids : cache[g][id] \subseteq cache'[g][id]
      BY <1>v, <2>1, <2>9, LoadFileFields, LoadFileCaches
    <3>2. \A f \in disk : \/ f.name \in ops[s].names
                          \/ f \in ops[s].loaded /\ f.name \in cache[gen][f.note.id]
      BY <1>3, <3>1 DEF LoadsFirst, OpAt
    <3>3. \A f \in disk : f.note.id \in Ids
      BY <1>v DEF VaultTyped, Files, Notes
    <3> QED BY <2>1, <2>5, <2>6, <2>7, <3>1, <3>2, <3>3
  <2>10. CASE ops'[s] = ops[s] /\ ~LoadList(s) /\ ~LoadFile(s)
    <3>1. \A t \in Slots : ~LoadList(t) /\ ~LoadFile(t)
      BY <1>v, <2>1, <2>10, LoadListFields, LoadFileFields
    <3>2. disk' = disk /\ cache' = cache
      BY <1>v, <2>2, <3>1, StoreStillSteps DEF StoreStill
    <3>3. ops[s].pc = "read" =>
              \A f \in disk : \/ f.name \in ops[s].names
                              \/ f \in ops[s].loaded /\ f.name \in cache[gen][f.note.id]
      BY <1>3 DEF LoadsFirst, OpAt
    <3> QED BY <2>1, <2>5, <2>6, <2>7, <2>10, <3>2, <3>3
  <2> QED BY <1>3, <1>v, <1>w, <2>2, <2>4, <2>8, <2>9, <2>10, PlaceComesFrom
<1>4. ASSUME NEW s \in Slots, ops'[s].kind = "load", ~ReloadVault PROVE ops[s].kind = "load"
  <2>1. \A id \in Ids : ~(Broadcast(s, id) \/ PatchStart(s, id) \/ SpendStart(s, id))
    BY <1>4, <1>v, StartFields
  <2> QED BY <1>4, <1>v, <1>w, <2>1, OpsComeFrom
<1>5. ASSUME NEW s \in Slots, ops'[s].kind = "load"
      PROVE  /\ notes' = {} /\ mirror' = {} /\ removedIds' = {}
             /\ \A t \in Slots \ {s} : ops'[t].kind = "none"
             /\ ops'[s].loaded \subseteq disk'
             /\ ops'[s].pc = "read" =>
                   \A f \in disk' : \/ f.name \in ops'[s].names
                                    \/ f \in ops'[s].loaded /\ f.name \in cache'[gen'][f.note.id]
  <2>1. CASE ReloadVault
    BY <1>2, <1>5, <2>1
  <2>2. CASE ~ReloadVault
    BY <1>3, <1>4, <1>5, <2>2
  <2> QED BY <2>1, <2>2
<1> QED BY <1>1, <1>5 DEF LoadsFirst, OpAt

(* A deposit that landed stays landed.                                     *)
LEMMA LandedStays ==
    ASSUME VaultTyped, [VaultNext]_vaultVars, NEW id \in Ids, Landed(id)
    PROVE  Landed(id)'
  BY FatesGoOn DEF Landed

(* An index is of a deposit that landed.                                   *)
LEMMA IndexOfLandedStep ==
    ASSUME StorageInv, LoadsFirst, IndexOfLanded, [VaultNext]_vaultVars
    PROVE  IndexOfLanded'
<1>v. VaultTyped /\ NamesAreUnique /\ disk \subseteq Files /\ notes \cup mirror \subseteq Notes
  BY DEF StorageInv, VaultTyped
<1>t. (\A n \in Notes : n.id \in Ids) /\ (\A f \in Files : f.note.id \in Ids)
  BY DEF Notes, Files
<1>0. ASSUME NEW s \in Slots, ops[s].kind \in {"add", "patch"}, ops[s].note.leaf
      PROVE  Landed(ops[s].note.id) /\ ops[s].note.id \in Ids
  <2>1. ops[s].kind # "add"
    <3>1. ops[s].kind = "add" => ops[s].note = Note(ops[s].id, FALSE, FALSE)
      BY <1>v DEF VaultTyped, OpShape
    <3> QED BY <1>0, <3>1 DEF Note
  <2>2. ops[s].note.id = ops[s].id /\ ops[s].id \in Ids
    BY <1>0, <1>v, KindOf
  <2> QED BY <1>0, <2>1, <2>2 DEF IndexOfLanded
<1>1. ASSUME NEW f \in disk', f.note.leaf PROVE Landed(f.note.id)'
  <2>1. Landed(f.note.id) /\ f.note.id \in Ids
    <3>1. CASE f \in disk
      BY <1>1, <1>v, <1>t, <3>1 DEF IndexOfLanded
    <3>2. ASSUME NEW s \in Slots, Save(s), f = [name |-> written + 1, note |-> ops[s].note]
          PROVE  Landed(f.note.id) /\ f.note.id \in Ids
      BY <1>0, <1>1, <1>v, <3>2, SaveFields
    <3> QED BY <1>v, <3>1, <3>2, StoredComesFrom
  <2> QED BY <1>v, <2>1, LandedStays
<1>2. ASSUME NEW n \in notes' \cup mirror', n.leaf PROVE Landed(n.id)'
  <2>1. Landed(n.id) /\ n.id \in Ids
    <3>1. CASE n \in notes \cup mirror
      BY <1>2, <1>v, <1>t, <3>1 DEF IndexOfLanded
    <3>2. ASSUME NEW s \in Slots, AddEnd(s) \/ PatchEnd(s), n = ops[s].note PROVE Landed(n.id) /\ n.id \in Ids
      BY <1>0, <1>2, <1>v, <3>2, AddEndFields, PatchEndFields
    <3>3. ASSUME NEW s \in Slots, LoadEnd(s), NEW f \in ops[s].loaded, f.note = n
          PROVE  Landed(n.id) /\ n.id \in Ids
      <4>1. f \in disk
        BY <1>v, <3>3, LoadEndFields DEF LoadsFirst
      <4> QED BY <1>2, <1>v, <1>t, <3>3, <4>1 DEF IndexOfLanded
    <3> QED BY <1>v, <3>1, <3>2, <3>3, ShownComesFrom
  <2> QED BY <1>v, <2>1, LandedStays
<1>3. ASSUME NEW s \in Slots, ops'[s].kind = "patch"
      PROVE  /\ fate'[ops'[s].id] \in {"landed", "reverted", "spent"}
             /\ ops'[s].note.leaf <=> fate'[ops'[s].id] \in {"landed", "spent"}
  <2>1. CASE ops'[s].kind = ops[s].kind /\ ops'[s].id = ops[s].id /\ ops'[s].note = ops[s].note
    <3>1. ops[s].id \in Ids
      BY <1>3, <1>v, <2>1, KindOf
    <3>2. /\ fate[ops[s].id] \in {"landed", "reverted", "spent"}
          /\ ops[s].note.leaf <=> fate[ops[s].id] \in {"landed", "spent"}
      BY <1>3, <2>1 DEF IndexOfLanded, Landed
    <3> QED BY <1>v, <2>1, <3>1, <3>2, FatesGoOn
  <2>2. ASSUME NEW id \in Ids, PatchStart(s, id)
        PROVE  /\ fate'[ops'[s].id] \in {"landed", "reverted", "spent"}
               /\ ops'[s].note.leaf <=> fate'[ops'[s].id] \in {"landed", "spent"}
    <3>1. /\ ops'[s].id = id /\ fate' = fate /\ fate[id] \in {"landed", "reverted"} /\ HasId(mirror, id)
          /\ ops'[s].note.leaf = (TheNote(mirror, id).leaf \/ fate[id] = "landed")
      BY <1>v, <2>2, PatchStartFields DEF Begins
    <3>2. TheNote(mirror, id).leaf => fate[id] \in {"landed", "spent"}
      BY <3>1, TheNoteIs DEF IndexOfLanded, Landed
    <3>3. TheNote(mirror, id).leaf \in BOOLEAN
      BY <1>v, <3>1, TheNoteIs DEF Notes
    <3> QED BY <3>1, <3>2, <3>3
  <2>3. \A id \in Ids : ~Broadcast(s, id) /\ ~SpendStart(s, id)
    BY <1>3, <1>v, BroadcastFields, SpendStartFields DEF Begins
  <2> QED BY <1>3, <1>v, <2>1, <2>2, <2>3, OpsComeFrom
<1>4. ASSUME NEW s \in Slots, ops'[s].kind = "remove" PROVE fate'[ops'[s].id] \in {"landed", "spent"}
  <2>1. CASE ops'[s].kind = ops[s].kind /\ ops'[s].id = ops[s].id
    <3>1. ops[s].id \in Ids /\ fate[ops[s].id] \in {"landed", "spent"}
      BY <1>4, <1>v, <2>1, KindOf DEF IndexOfLanded, Landed
    <3> QED BY <1>v, <2>1, <3>1, FatesGoOn
  <2>2. ASSUME NEW id \in Ids, SpendStart(s, id) PROVE fate'[ops'[s].id] = "landed"
    BY <1>v, <2>2, SpendStartFields DEF Begins
  <2>3. \A id \in Ids : ~Broadcast(s, id) /\ ~PatchStart(s, id)
    BY <1>4, <1>v, BroadcastFields, PatchStartFields DEF Begins
  <2> QED BY <1>4, <1>v, <2>1, <2>2, <2>3, OpsComeFrom
<1> QED BY <1>1, <1>2, <1>3, <1>4 DEF IndexOfLanded, Landed

(* A spent note with operations in flight is in removedIds.                *)
LEMMA RemovedIsKnownStep ==
    ASSUME StorageInv, LoadsFirst, IndexOfLanded, RemovedIsKnown, SameAccount', [VaultNext]_vaultVars
    PROVE  RemovedIsKnown'
<1>v. VaultTyped /\ NamesAreUnique /\ ShownOnce /\ notes \subseteq Notes
  BY DEF StorageInv, VaultTyped
<1>w. \A s \in Slots : ~Switch(s)
  BY <1>v, FaultsGoOn
<1>r. /\ ~ReloadVault => removedIds \subseteq removedIds'
      /\ \A s \in Slots : Spent(s) /\ ~ReloadVault => ops[s].id \in removedIds'
      /\ \A id \in removedIds' : id \in removedIds \/ \E s \in Slots : Spent(s) /\ id = ops[s].id
  BY <1>v, <1>w, GenGoesOn, SpentFields
<1>1. ASSUME NEW s \in Slots, ops'[s].kind \in {"add", "patch", "remove"}, fate'[ops'[s].id] = "spent"
      PROVE  ops'[s].id \in removedIds'
  <2>1. ASSUME ops'[s].kind = ops[s].kind, ops'[s].id = ops[s].id, ~ReloadVault
        PROVE  ops'[s].id \in removedIds'
    <3>1. ops[s].id \in Ids
      BY <1>1, <1>v, <2>1, KindOf
    <3> QED BY <1>1, <1>v, <1>r, <2>1, <3>1, FatesGoOn DEF RemovedIsKnown, IsOp
  <2>2. ASSUME NEW id \in Ids, Broadcast(s, id) \/ PatchStart(s, id) \/ SpendStart(s, id) PROVE FALSE
    <3>1. fate'[ops'[s].id] # "spent"
      <4>1. CASE Broadcast(s, id)
        BY <1>v, <4>1, BroadcastFields DEF Begins
      <4>2. CASE PatchStart(s, id)
        BY <1>v, <4>2, PatchStartFields DEF Begins
      <4>3. CASE SpendStart(s, id)
        BY <1>v, <4>3, SpendStartFields DEF Begins
      <4> QED BY <2>2, <4>1, <4>2, <4>3
    <3> QED BY <1>1, <3>1
  <2> QED BY <1>1, <1>v, <2>1, <2>2, OpsComeFrom
\* Where a removal comes from.
<1>2. ASSUME NEW s \in Slots, ops'[s].kind = "remove"
      PROVE  \/ ops[s].kind = "remove" /\ ops[s].id = ops'[s].id
             \/ SpendStart(s, ops'[s].id) /\ ops'[s].id \in Ids
  <2>1. \A id \in Ids : ~Broadcast(s, id) /\ ~PatchStart(s, id)
    BY <1>2, <1>v, BroadcastFields, PatchStartFields DEF Begins
  <2> QED BY <1>2, <1>v, <2>1, OpsComeFrom
<1>3. ASSUME NEW n \in notes', NEW s \in Slots, ops'[s].kind = "remove", ops'[s].id = n.id PROVE n.leaf
  <2>1. \/ ops[s].kind = "remove" /\ ops[s].id = n.id
        \/ SpendStart(s, n.id) /\ n.id \in Ids
    BY <1>2, <1>3
  <2>2. CASE n \in notes
    <3>1. SpendStart(s, n.id) /\ n.id \in Ids => n.leaf
      BY <1>v, <2>2, SpendStartFields DEF ShownOnce
    <3> QED BY <2>1, <2>2, <3>1 DEF RemovedIsKnown
  <2>3. ASSUME NEW t \in Slots, AddEnd(t), n = ops[t].note PROVE FALSE
    <3>1. ops[t].kind = "add" /\ n.id = ops[t].id
      BY <1>v, <2>3, AddEndFields, KindOf
    <3>2. (\A m \in notes : m.id # n.id) /\ \A u \in Slots \ {t} : ops[u].kind = "remove" => ops[u].id # n.id
      BY <3>1 DEF StorageInv, NewIsUnknown, AddedIsUnknown, NotShown, IsOp
    <3> QED BY <1>v, <2>1, <3>1, <3>2, SpendStartFields
  <2>4. ASSUME NEW t \in Slots, PatchEnd(t), n = ops[t].note PROVE n.leaf
    <3>1. ops[t].kind = "patch" /\ n.id = ops[t].id /\ n \in Notes
      BY <1>v, <2>4, PatchEndFields, KindOf
    <3>2. n.leaf <=> Landed(n.id)
      BY <2>4, <3>1 DEF IndexOfLanded
    <3>3. Landed(n.id)
      BY <1>v, <2>1, SpendStartFields DEF IndexOfLanded, Landed
    <3> QED BY <3>2, <3>3
  <2>5. ASSUME NEW t \in Slots, LoadEnd(t) PROVE FALSE
    <3>1. ops[t].kind = "load"
      BY <1>v, <2>5, LoadEndFields
    <3>2. notes = {} /\ \A u \in Slots \ {t} : ops[u].kind = "none"
      BY <3>1 DEF LoadsFirst
    <3> QED BY <1>v, <2>1, <3>1, <3>2, SpendStartFields
  <2> QED BY <1>v, <2>2, <2>3, <2>4, <2>5, ShownComesFrom
<1>4. ASSUME NEW n \in notes', n.id \in removedIds' PROVE n.leaf
  <2>1. n.id \in removedIds \/ \E s \in Slots : ops[s].kind = "remove" /\ n.id = ops[s].id
    BY <1>4, <1>v, <1>r, SpentFields
  <2>2. CASE n \in notes
    BY <2>1, <2>2 DEF RemovedIsKnown
  <2>3. ASSUME NEW t \in Slots, AddEnd(t), n = ops[t].note PROVE FALSE
    <3>1. ops[t].kind = "add" /\ n.id = ops[t].id
      BY <1>v, <2>3, AddEndFields, KindOf
    <3>2. fate[n.id] # "spent" /\ \A u \in Slots \ {t} : ops[u].kind = "remove" => ops[u].id # n.id
      BY <3>1 DEF StorageInv, NewIsUnknown, AddedIsUnknown, IsOp
    <3> QED BY <2>1, <3>1, <3>2 DEF StorageInv, OnlySpentIsRemoved
  <2>4. ASSUME NEW t \in Slots, PatchEnd(t), n = ops[t].note PROVE n.leaf
    <3>1. ops[t].kind = "patch" /\ n.id = ops[t].id /\ n \in Notes
      BY <1>v, <2>4, PatchEndFields, KindOf
    <3>2. n.leaf <=> Landed(n.id)
      BY <2>4, <3>1 DEF IndexOfLanded
    <3>3. Landed(n.id)
      BY <2>1 DEF IndexOfLanded, Landed, StorageInv, OnlySpentIsRemoved
    <3> QED BY <3>2, <3>3
  <2>5. ASSUME NEW t \in Slots, LoadEnd(t) PROVE FALSE
    <3>1. ops[t].kind = "load"
      BY <1>v, <2>5, LoadEndFields
    <3>2. removedIds = {} /\ \A u \in Slots \ {t} : ops[u].kind = "none"
      BY <3>1 DEF LoadsFirst
    <3> QED BY <2>1, <3>1, <3>2
  <2> QED BY <1>v, <2>2, <2>3, <2>4, <2>5, ShownComesFrom
<1> QED BY <1>1, <1>3, <1>4 DEF RemovedIsKnown, IsOp

(* A write of a note the provider shows is not overtaken until it is       *)
(* removed.                                                                *)
LEMMA WritesAreOfTheShown ==
    ASSUME StorageInv, LoadsFirst, RemovedIsKnown, NEW s \in Slots, ops[s].kind = "patch",
           ops[s].id \notin removedIds
    PROVE  gen = ops[s].gen /\ ~Overtaken(s) /\ HasId(notes, ops[s].id) /\ fate[ops[s].id] # "spent"
<1>1. fate[ops[s].id] # "spent" /\ gen = ops[s].gen /\ ops[s].id \in Ids
  BY KindOf DEF RemovedIsKnown, IsOp, LoadsFirst, StorageInv
<1>2. HasId(mirror, ops[s].id)
  BY <1>1 DEF StorageInv, OnlySpentIsRemoved
<1> QED BY <1>1, <1>2 DEF StorageInv, OnlySpentIsRemoved, Overtaken

(* An index that is stored is about to be shown.                           *)
LEMMA IndexIsComingStep ==
    ASSUME StorageInv, LoadsFirst, IndexOfLanded, RemovedIsKnown, IndexIsComing, SameAccount',
           [VaultNext]_vaultVars
    PROVE  IndexIsComing'
<1>v. VaultTyped /\ NamesAreUnique /\ ShownOnce /\ notes \subseteq Notes
  BY DEF StorageInv, VaultTyped
<1>w. \A s \in Slots : ~Switch(s)
  BY <1>v, FaultsGoOn
<1>n. NoOp.kind = "none"
  BY NoOpFields
<1> SUFFICES ASSUME NEW n \in notes', NEW f \in disk', f.note.id = n.id, f.note.leaf, ~n.leaf
             PROVE  \E s \in Slots : ops'[s].kind = "patch" /\ ops'[s].id = n.id /\ ops'[s].pc \in {"clean", "put"}
  BY DEF IndexIsComing
<1>r. ~ReloadVault
  BY <1>v, ReloadVaultFields
<1>1. ASSUME NEW t \in Slots, PatchEnd(t), n = ops[t].note PROVE FALSE
  <2>1. ops[t].kind = "patch" /\ n.id = ops[t].id /\ n \in Notes /\ disk' = disk
    BY <1>v, <1>1, PatchEndFields, KindOf
  <2>2. Landed(n.id)
    BY <2>1 DEF IndexOfLanded
  <2> QED BY <1>1, <2>1, <2>2 DEF IndexOfLanded
<1>2. ASSUME NEW t \in Slots, AddEnd(t), n = ops[t].note PROVE FALSE
  <2>1. ops[t].kind = "add" /\ n.id = ops[t].id /\ ops[t].pc = "put" /\ disk' = disk
    BY <1>v, <1>2, AddEndFields, KindOf
  <2>2. f.note = n
    BY <1>2, <2>1 DEF StorageInv, NewIsUnknown, AddedIsUnknown, OpAt
  <2> QED BY <2>2
<1>3. ASSUME NEW t \in Slots, LoadEnd(t) PROVE FALSE
  <2>1. ops[t].kind = "load" /\ ops[t].pc = "read" /\ ops[t].names = {} /\ disk' = disk /\ gen = ops[t].gen
    BY <1>v, <1>3, LoadEndFields DEF LoadsFirst
  <2>2. notes = {} /\ f \in ops[t].loaded
    BY <2>1 DEF LoadsFirst, OpAt
  <2>3. Shows(ops[t].loaded)
    BY <1>v, <1>3, <2>1, LoadEndFields
  <2>4. PICK g \in ops[t].loaded : g.note = n /\ Picks(ops[t].loaded, g)
    BY <2>2, <2>3 DEF Shows
  <2> QED BY <2>2, <2>4 DEF Picks
<1>4. CASE n \in notes /\ f \in disk
  <2>1. PICK s \in Slots : ops[s].kind = "patch" /\ ops[s].id = n.id /\ ops[s].pc \in {"clean", "put"}
    BY <1>4 DEF IndexIsComing
  <2>2. n.id \notin removedIds
    BY <1>4 DEF RemovedIsKnown
  <2>3. CASE ops'[s] = ops[s]
    BY <2>1, <2>3
  <2>4. CASE Clean(s)
    BY <1>v, <2>1, <2>4, CleanFields DEF GoesOn
  <2>5. ASSUME PatchEnd(s) PROVE FALSE
    <3>1. notes' = WithoutId(notes, n.id) \cup {ops[s].note}
      BY <1>v, <2>1, <2>2, <2>5, WritesAreOfTheShown, PatchEndFields
    <3>2. n = ops[s].note
      BY <3>1 DEF WithoutId
    <3> QED BY <1>1, <2>5, <3>2
  <2>6. ~Save(s) /\ ~Spent(s) /\ ~RemoveFiles(s) /\ ~LoadList(s) /\ ~LoadFile(s)
    BY <1>v, <2>1, SaveFields, SpentFields, RemoveFilesFields, LoadListFields, LoadFileFields
  <2>7. ~AddEnd(s) /\ ~SpendFails(s) /\ ~RemoveEnd(s) /\ ~LoadEnd(s)
    BY <1>v, <2>1, AddEndFields, SpendFailsFields, RemoveEndFields, LoadEndFields
  <2>8. \A id \in Ids : ~Broadcast(s, id) /\ ~PatchStart(s, id) /\ ~SpendStart(s, id)
    BY <1>v, <1>n, <2>1, StartFields
  <2> QED BY <1>v, <1>r, <1>w, <2>3, <2>4, <2>5, <2>6, <2>7, <2>8, SlotGoesOn DEF Continue, OpStep
<1>5. ASSUME n \in notes, NEW s \in Slots, Save(s), f = [name |-> written + 1, note |-> ops[s].note]
      PROVE  \E t \in Slots : ops'[t].kind = "patch" /\ ops'[t].id = n.id /\ ops'[t].pc \in {"clean", "put"}
  <2>1. /\ ops[s].kind \in {"add", "patch"} /\ ops'[s].kind = ops[s].kind /\ ops'[s].id = ops[s].id
        /\ ops'[s].pc \in {"clean", "put"}
    BY <1>v, <1>5, SaveFields DEF GoesOn
  <2>2. ops[s].kind # "add"
    <3>1. ops[s].kind = "add" => ops[s].note = Note(ops[s].id, FALSE, FALSE)
      BY <1>v DEF VaultTyped, OpShape
    <3> QED BY <1>5, <3>1 DEF Note
  <2>3. ops[s].note.id = ops[s].id
    BY <1>v, <2>1, KindOf
  <2> QED BY <1>5, <2>1, <2>2, <2>3
<1> QED BY <1>v, <1>1, <1>2, <1>3, <1>4, <1>5, ShownComesFrom, StoredComesFrom

(* A stored note that is not removed is shown, or about to be.             *)
LEMMA StoredIsComingStep ==
    ASSUME StorageInv, LoadsFirst, RemovedIsKnown, StoredIsComing, SameAccount', [VaultNext]_vaultVars
    PROVE  StoredIsComing'
<1>v. VaultTyped /\ NamesAreUnique /\ disk \subseteq Files
  BY DEF StorageInv, VaultTyped
<1>w. \A s \in Slots : ~Switch(s)
  BY <1>v, FaultsGoOn
<1>n. NoOp.kind = "none"
  BY NoOpFields
<1> SUFFICES ASSUME NEW f \in disk', f.note.id \notin removedIds'
             PROVE  \/ HasId(notes', f.note.id)
                    \/ \E s \in Slots : \/ ops'[s].kind = "load"
                                        \/ ops'[s].kind = "add" /\ ops'[s].id = f.note.id /\ ops'[s].pc = "put"
  BY DEF StoredIsComing, HasId, OpAt
<1>1. CASE ReloadVault
  BY <1>v, <1>1, ReloadVaultFields
<1>g. ~ReloadVault =>
        /\ removedIds \subseteq removedIds'
        /\ \A n \in notes : \/ HasId(notes', n.id)
                            \/ \E s \in Slots : RemoveEnd(s) /\ ops[s].kind = "remove" /\ ops[s].id = n.id
  BY <1>v, <1>w, GenGoesOn
<1>2. ASSUME ~ReloadVault, HasId(notes, f.note.id) PROVE HasId(notes', f.note.id)
  <2>1. ASSUME NEW s \in Slots, RemoveEnd(s), ops[s].id = f.note.id PROVE FALSE
    <3>1. ops[s].pc \in Removing /\ ops[s].kind \in {"patch", "remove"}
      BY <1>v, <2>1, RemoveEndFields DEF Removing
    <3>2. ops[s].id \in removedIds
      BY <3>1 DEF StorageInv, OnlySpentIsRemoved, RemovedIsKnown, IsOp
    <3> QED BY <1>2, <1>g, <2>1, <3>2
  <2>2. PICK n \in notes : n.id = f.note.id
    BY <1>2 DEF HasId
  <2> QED BY <1>2, <1>g, <2>1, <2>2
<1>3. ASSUME NEW s \in Slots, AddEnd(s), ops[s].id = f.note.id PROVE HasId(notes', f.note.id)
  <2>1. notes' = notes \cup {ops[s].note} /\ ops[s].note.id = ops[s].id
    BY <1>v, <1>3, AddEndFields, KindOf DEF LoadsFirst
  <2> QED BY <1>3, <2>1 DEF HasId
<1>4. ASSUME NEW s \in Slots, LoadEnd(s), f \in disk PROVE HasId(notes', f.note.id)
  <2>1. ops[s].kind = "load" /\ ops[s].pc = "read" /\ ops[s].names = {} /\ gen = ops[s].gen
    BY <1>v, <1>4, LoadEndFields DEF LoadsFirst
  <2>2. f \in ops[s].loaded
    BY <1>4, <2>1 DEF LoadsFirst, OpAt
  <2> QED BY <1>v, <1>4, <2>1, <2>2, LoadEndFields DEF Shows
\* A load or an add stays where it is, or ends.
<1>5. ASSUME ~ReloadVault, NEW s \in Slots, ops[s].kind \in {"load", "add"}
      PROVE  \/ ops'[s] = ops[s]
             \/ ops[s].kind = "load" /\ (LoadEnd(s) \/ ops'[s].kind = "load")
             \/ ops[s].kind = "add" /\ (AddEnd(s) \/ Save(s))
  <2>1. ~PatchEnd(s) /\ ~Clean(s) /\ ~Spent(s) /\ ~SpendFails(s) /\ ~RemoveFiles(s) /\ ~RemoveEnd(s)
    BY <1>v, <1>5, PatchEndFields, CleanFields, SpentFields, SpendFailsFields, RemoveFilesFields, RemoveEndFields
  <2>2. AddEnd(s) \/ Save(s) => ops[s].kind = "add"
    BY <1>v, <1>5, AddEndFields, SaveFields
  <2>3. LoadList(s) => ops[s].kind = "load" /\ ops'[s].kind = "load"
    BY <1>v, LoadListFields DEF GoesOn
  <2>4. LoadFile(s) => ops[s].kind = "load" /\ ops'[s].kind = "load"
    BY <1>v, LoadFileFields, LoadFileCaches
  <2>5. LoadEnd(s) => ops[s].kind = "load"
    BY <1>v, LoadEndFields
  <2>6. \A id \in Ids : ~(Broadcast(s, id) \/ PatchStart(s, id) \/ SpendStart(s, id))
    BY <1>v, <1>n, <1>5, StartFields
  <2> QED BY <1>5, <1>v, <1>w, <2>1, <2>2, <2>3, <2>4, <2>5, <2>6, SlotGoesOn DEF Continue, OpStep
<1>6. CASE f \in disk /\ ~ReloadVault
  <2>1. ASSUME NEW s \in Slots, ops[s].kind = "load"
        PROVE  HasId(notes', f.note.id) \/ ops'[s].kind = "load"
    BY <1>4, <1>5, <1>6, <2>1
  <2>2. ASSUME NEW s \in Slots, ops[s].kind = "add" /\ ops[s].id = f.note.id /\ ops[s].pc = "put"
        PROVE  HasId(notes', f.note.id) \/ ops'[s] = ops[s]
    <3>1. ~Save(s)
      BY <1>v, <2>2, SaveFields
    <3> QED BY <1>3, <1>5, <1>6, <2>2, <3>1
  <2> QED BY <1>2, <1>6, <1>g, <2>1, <2>2 DEF StoredIsComing, OpAt
<1>7. ASSUME ~ReloadVault, NEW s \in Slots, Save(s), f = [name |-> written + 1, note |-> ops[s].note]
      PROVE  \/ HasId(notes', f.note.id)
             \/ ops'[s].kind = "add" /\ ops'[s].id = f.note.id /\ ops'[s].pc = "put"
  <2>1. /\ ops[s].kind \in {"add", "patch"} /\ ops'[s].kind = ops[s].kind /\ ops'[s].id = ops[s].id
        /\ ops[s].pc = "save" /\ notes' = notes /\ removedIds' = removedIds
        /\ ops'[s].pc = (IF cache[ops[s].gen][ops[s].id] = {} THEN "put" ELSE "clean")
    BY <1>v, <1>7, SaveFields DEF GoesOn
  <2>2. f.note.id = ops[s].id
    BY <1>v, <1>7, <2>1, KindOf
  <2>3. CASE ops[s].kind = "add"
    BY <2>1, <2>2, <2>3, AddReplacesNothing
  <2>4. CASE ops[s].kind = "patch"
    BY <2>1, <2>2, <2>4, WritesAreOfTheShown
  <2> QED BY <2>1, <2>3, <2>4
<1> QED BY <1>v, <1>1, <1>6, <1>7, StoredComesFrom

(* Until a reload, what was removed is in removedIds.                      *)
LEMMA GoneIsRemovedStep ==
    ASSUME StorageInv, LoadsFirst, RemovedIsKnown, gone \subseteq removedIds, SameAccount', NeverReloaded',
           [VaultNext]_vaultVars
    PROVE  gone' \subseteq removedIds'
<1>v. VaultTyped /\ NamesAreUnique /\ DOMAIN ops = Slots
  BY DEF StorageInv, VaultTyped
<1>w. ~ReloadVault /\ \A s \in Slots : ~Switch(s)
  BY <1>v, FaultsGoOn
<1>g. removedIds \subseteq removedIds'
  BY <1>v, <1>w, GenGoesOn
<1>1. ASSUME NEW s \in Slots, RemoveEnd(s) PROVE gone' \subseteq removedIds'
  <2>1. ops[s].pc \in Removing /\ ops[s].kind \in {"patch", "remove"}
    BY <1>v, <1>1, RemoveEndFields DEF Removing
  <2>2. ops[s].id \in removedIds
    BY <2>1 DEF StorageInv, OnlySpentIsRemoved, RemovedIsKnown, IsOp
  <2>3. gone' = gone \/ gone' = gone \cup {ops[s].id}
    BY <1>v, <1>1, RemoveEndFields
  <2> QED BY <1>g, <2>2, <2>3
<1>2. ASSUME NEW s \in Slots,
             \/ Continue(s) \/ (OpStep(s) /\ ~RemoveEnd(s))
             \/ \E id \in Ids : Broadcast(s, id) \/ PatchStart(s, id) \/ SpendStart(s, id)
      PROVE  gone' = gone
  BY <1>2 DEF Continue, AddEnd, PatchEnd, OpStep, Save, Clean, Spent, SpendFails, RemoveFiles, LoadList, LoadFile,
              LoadEnd, Broadcast, PatchStart, SpendStart
<1>3. Mirror \/ UNCHANGED vaultVars \/ (\E id \in Ids : Resolve(id)) => gone' = gone
  BY DEF Mirror, vaultVars, Resolve
<1> QED BY <1>v, <1>w, <1>g, <1>1, <1>2, <1>3 DEF VaultNext, StartStep

-----------------------------------------------------------------------------
(* The steps keep the invariant of the removals. *)

(* A removal has its note in removedIds.                                   *)
LEMMA RemovalsAreKnown ==
    ASSUME StorageInv, RemovedIsKnown, NEW s \in Slots, ops[s].pc \in Removing
    PROVE  ops[s].id \in removedIds /\ ops[s].kind \in {"patch", "remove"} /\ ops[s].id \in Ids
<1>1. ops[s].kind \in {"patch", "remove"} /\ ops[s].id \in Ids
  BY KindOf DEF StorageInv
<1> QED BY <1>1 DEF StorageInv, OnlySpentIsRemoved, RemovedIsKnown, IsOp

(* A removal goes on until its files are deleted.                          *)
LEMMA RemovalGoesOn ==
    ASSUME StorageInv, [VaultNext]_vaultVars, ~ReloadVault, \A s \in Slots : ~Switch(s),
           NEW s \in Slots, NEW id, Removes(s, id)
    PROVE  RemoveEnd(s) \/ Removes(s, id)'
<1>v. VaultTyped /\ NamesAreUnique
  BY DEF StorageInv
<1>0. ops[s].kind = "remove" /\ ops[s].id = id /\ ops[s].pc \in {"remove", "unlink", "sweep"}
  BY DEF Removes, Removing
<1>1. ~AddEnd(s) /\ ~PatchEnd(s) /\ ~Save(s) /\ ~Clean(s) /\ ~Spent(s) /\ ~SpendFails(s)
  BY <1>v, <1>0, AddEndFields, PatchEndFields, SaveFields, CleanFields, SpentFields, SpendFailsFields
<1>2. ~LoadList(s) /\ ~LoadFile(s) /\ ~LoadEnd(s)
  BY <1>v, <1>0, LoadListFields, LoadFileFields, LoadEndFields
<1>3. \A i \in Ids : ~(Broadcast(s, i) \/ PatchStart(s, i) \/ SpendStart(s, i))
  BY <1>v, <1>0, NoOpFields, StartFields
<1>4. RemoveFiles(s) => ops'[s].kind = "remove" /\ ops'[s].id = id /\ ops'[s].pc \in {"unlink", "sweep"}
  BY <1>v, <1>0, RemoveFilesFields DEF GoesOn
<1> QED BY <1>v, <1>0, <1>1, <1>2, <1>3, <1>4, SlotGoesOn DEF Continue, OpStep, Removes, Removing

(* A note that is shown is stored, or being removed.                       *)
LEMMA ShownIsBackedStep ==
    ASSUME StorageInv, LoadsFirst, RemovedIsKnown, ShownIsBacked, SameAccount', EveryDeletionDone',
           [VaultNext]_vaultVars
    PROVE  ShownIsBacked'
<1>v. VaultTyped /\ NamesAreUnique /\ NamesAreOfTheirNote /\ notes \subseteq Notes /\ removedIds \subseteq Ids
  BY DEF StorageInv, VaultTyped
<1>t. \A m \in Notes : m.id \in Ids
  BY DEF Notes
<1>w. \A s \in Slots : ~Switch(s)
  BY <1>v, FaultsGoOn
<1> SUFFICES ASSUME NEW n \in notes'
             PROVE  /\ HasFile(n.id)' \/ \E s \in Slots : Removes(s, n.id)'
                    /\ n.id \in removedIds' => \E s \in Slots : Removes(s, n.id)'
  BY DEF ShownIsBacked, HasFile, Removes
<1>r. ~ReloadVault
  BY <1>v, ReloadVaultFields
<1>g. /\ removedIds \subseteq removedIds'
      /\ \A id \in removedIds' : id \in removedIds \/ \E s \in Slots : Spent(s) /\ id = ops[s].id
  BY <1>v, <1>w, <1>r, GenGoesOn
<1>1. ASSUME NEW t \in Slots, AddEnd(t), n = ops[t].note PROVE n.id \notin removedIds' /\ HasFile(n.id)'
  <2>1. ops[t].kind = "add" /\ ops[t].pc = "put" /\ n.id = ops[t].id /\ disk' = disk /\ removedIds' = removedIds
    BY <1>v, <1>1, AddEndFields, KindOf
  <2>2. fate[n.id] # "spent"
    BY <2>1 DEF StorageInv, NewIsUnknown, AddedIsUnknown
  <2>3. HasFile(n.id)
    BY <2>1, <2>2 DEF StorageInv, UnspentIsStored, OpAt
  <2> QED BY <2>1, <2>2, <2>3 DEF StorageInv, OnlySpentIsRemoved, HasFile
<1>2. ASSUME NEW t \in Slots, PatchEnd(t), ~Overtaken(t), n = ops[t].note, HasId(notes, ops[t].id)
      PROVE  n.id \notin removedIds' /\ HasFile(n.id)'
  <2>1. n.id = ops[t].id /\ disk' = disk /\ removedIds' = removedIds
    BY <1>v, <1>2, PatchEndFields, KindOf
  <2>2. n.id \notin removedIds
    BY <1>2, <2>1 DEF Overtaken
  <2>3. PICK m \in notes : m.id = n.id
    BY <1>2, <2>1 DEF HasId
  <2>4. HasFile(n.id)
    <3>1. ASSUME NEW s \in Slots, Removes(s, n.id) PROVE FALSE
      BY <2>2, <3>1, RemovalsAreKnown DEF Removes
    <3> QED BY <2>3, <3>1 DEF ShownIsBacked
  <2> QED BY <2>1, <2>2, <2>4 DEF HasFile
<1>3. ASSUME NEW t \in Slots, LoadEnd(t), NEW f \in ops[t].loaded, f.note = n
      PROVE  n.id \notin removedIds' /\ HasFile(n.id)'
  <2>1. ops[t].kind = "load" /\ disk' = disk /\ removedIds' = removedIds
    BY <1>v, <1>3, LoadEndFields
  <2>2. removedIds = {} /\ f \in disk
    BY <1>3, <2>1 DEF LoadsFirst
  <2> QED BY <1>3, <2>1, <2>2 DEF HasFile
<1>4. ASSUME n \in notes, n.id \in removedIds' PROVE \E s \in Slots : Removes(s, n.id)'
  <2>1. ASSUME NEW s \in Slots, Removes(s, n.id) PROVE Removes(s, n.id)'
    <3>1. ASSUME RemoveEnd(s) PROVE FALSE
      <4>1. ops[s].kind = "remove" /\ ops[s].id = n.id
        BY <2>1 DEF Removes
      <4>2. notes' = WithoutId(notes, n.id)
        BY <1>v, <3>1, <4>1, RemoveEndFields
      <4> QED BY <4>2 DEF WithoutId
    <3> QED BY <1>r, <1>w, <2>1, <3>1, RemovalGoesOn
  <2>2. ASSUME NEW s \in Slots, Spent(s), n.id = ops[s].id PROVE Removes(s, n.id)'
    BY <1>v, <2>2, SpentFields DEF Removes, Removing, GoesOn
  <2> QED BY <1>g, <1>4, <2>1, <2>2 DEF ShownIsBacked
<1>5. ASSUME n \in notes, n.id \notin removedIds' PROVE HasFile(n.id)'
  <2>1. n.id \in Ids /\ n.id \notin removedIds
    BY <1>v, <1>t, <1>g, <1>5
  <2>2. PICK f \in disk : f.note.id = n.id
    <3>1. ASSUME NEW s \in Slots, Removes(s, n.id) PROVE FALSE
      BY <2>1, <3>1, RemovalsAreKnown DEF Removes
    <3> QED BY <1>5, <3>1 DEF ShownIsBacked, HasFile
  <2>3. CASE fate'[n.id] # "spent"
    BY <2>1, <2>2, <2>3, FilesStay DEF HasFile
  <2>4. CASE fate'[n.id] = "spent"
    <3>1. fate[n.id] = "spent"
      <4>1. ASSUME NEW s \in Slots, Spent(s), ops[s].id = n.id PROVE FALSE
        BY <1>5, <1>v, <4>1, SpentFields
      <4> QED BY <1>v, <2>1, <2>4, <4>1, FatesGoOn
    <3>2. ASSUME NEW s \in Slots, Clean(s) \/ RemoveEnd(s), f.name \in ops[s].names PROVE FALSE
      <4>1. ops[s].kind \in {"patch", "remove"}
        BY <1>v, <3>2, CleanFields, RemoveEndFields
      <4>2. ops[s].id = n.id
        BY <1>v, <2>2, <3>2, <4>1 DEF NamesAreOfTheirNote, IsOp
      <4> QED BY <2>1, <3>1, <4>1, <4>2 DEF RemovedIsKnown, IsOp
    <3> QED BY <1>v, <2>2, <3>2, StoredComesFrom DEF HasFile
  <2> QED BY <2>3, <2>4
<1> QED BY <1>v, <1>1, <1>2, <1>3, <1>4, <1>5, ShownComesFrom

(* A write of a removed note goes on until it looks for the files.         *)
LEMMA WillRemoveGoesOn ==
    ASSUME StorageInv, LoadsFirst, [VaultNext]_vaultVars, ~ReloadVault, \A s \in Slots : ~Switch(s),
           NEW t \in Slots, NEW id \in removedIds, WillRemove(t, id)
    PROVE  RemoveFiles(t) \/ WillRemove(t, id)'
<1>v. VaultTyped /\ NamesAreUnique
  BY DEF StorageInv
<1>0. ops[t].kind = "patch" /\ ops[t].id = id /\ ops[t].pc \in {"clean", "put", "remove"}
  BY DEF WillRemove, Patches
<1>1. ~AddEnd(t) /\ ~Save(t) /\ ~Spent(t) /\ ~SpendFails(t) /\ ~RemoveEnd(t)
  BY <1>v, <1>0, AddEndFields, SaveFields, SpentFields, SpendFailsFields, RemoveEndFields
<1>2. ~LoadList(t) /\ ~LoadFile(t) /\ ~LoadEnd(t)
  BY <1>v, <1>0, LoadListFields, LoadFileFields, LoadEndFields
<1>3. \A i \in Ids : ~(Broadcast(t, i) \/ PatchStart(t, i) \/ SpendStart(t, i))
  BY <1>v, <1>0, NoOpFields, StartFields
<1>4. Clean(t) => ops'[t].kind = "patch" /\ ops'[t].id = id /\ ops'[t].pc = "put"
  BY <1>v, <1>0, CleanFields DEF GoesOn
<1>5. PatchEnd(t) => ops'[t].kind = "patch" /\ ops'[t].id = id /\ ops'[t].pc = "remove"
  <2>1. gen = ops[t].gen /\ Overtaken(t)
    BY <1>0 DEF LoadsFirst, Overtaken
  <2> QED BY <1>v, <1>0, <2>1, PatchEndFields DEF GoesOn
<1> QED BY <1>v, <1>0, <1>1, <1>2, <1>3, <1>4, <1>5, SlotGoesOn DEF Continue, OpStep, WillRemove, Patches

(* What lists a file for deletion goes on until it is deleted.             *)
LEMMA ListsGoesOn ==
    ASSUME StorageInv, [VaultNext]_vaultVars, ~ReloadVault, \A s \in Slots : ~Switch(s), EveryDeletionDone',
           NEW t \in Slots, NEW f \in disk', Lists(t, f)
    PROVE  ops'[t] = ops[t]
<1>v. VaultTyped /\ NamesAreUnique
  BY DEF StorageInv
<1>0. /\ ops[t].kind \in {"patch", "remove"} /\ ops[t].pc \in {"clean", "unlink", "sweep"}
      /\ f.name \in ops[t].names
  BY DEF Lists
<1>1. ~AddEnd(t) /\ ~PatchEnd(t) /\ ~Save(t) /\ ~Spent(t) /\ ~SpendFails(t) /\ ~RemoveFiles(t)
  BY <1>v, <1>0, AddEndFields, PatchEndFields, SaveFields, SpentFields, SpendFailsFields, RemoveFilesFields
<1>2. ~LoadList(t) /\ ~LoadFile(t) /\ ~LoadEnd(t)
  BY <1>v, <1>0, LoadListFields, LoadFileFields, LoadEndFields
<1>3. \A i \in Ids : ~(Broadcast(t, i) \/ PatchStart(t, i) \/ SpendStart(t, i))
  BY <1>v, <1>0, NoOpFields, StartFields
<1>4. ~Clean(t) /\ ~RemoveEnd(t)
  BY <1>v, <1>0, CleanFields, RemoveEndFields DEF Deletes
<1> QED BY <1>v, <1>0, <1>1, <1>2, <1>3, <1>4, SlotGoesOn DEF Continue, OpStep

(* While a note is removed, a write of it is the only one, and no deposit. *)
LEMMA WriteOfRemoved ==
    ASSUME StorageInv, RemovedIsKnown, NEW s \in Slots, Save(s), ops[s].id \in removedIds
    PROVE  Patches(s, ops[s].id)
<1>1. ops[s].kind \in {"add", "patch"}
  BY SaveFields DEF StorageInv
<1>2. fate[ops[s].id] = "spent"
  BY DEF StorageInv, OnlySpentIsRemoved
<1>3. ops[s].kind # "add"
  BY <1>2 DEF StorageInv, NewIsUnknown, AddedIsUnknown
<1> QED BY <1>1, <1>3 DEF Patches

(* Every file is known, listed or about to be found.                       *)
LEMMA FilesAreTracedStep ==
    ASSUME StorageInv, LoadsFirst, RemovedIsKnown, RemovalInv, SameAccount', EveryDeletionDone',
           [VaultNext]_vaultVars
    PROVE  FilesAreTraced'
<1>v. VaultTyped /\ NamesAreUnique /\ disk \subseteq Files /\ gen \in Gens /\ written \in Nat
  BY DEF StorageInv, VaultTyped
<1>t. \A f \in Files : f.note.id \in Ids
  BY DEF Files, Notes
<1>w. \A s \in Slots : ~Switch(s)
  BY <1>v, FaultsGoOn
<1> SUFFICES ASSUME NEW f \in disk'
             PROVE  \/ \E s \in Slots : ops'[s].kind = "load"
                    \/ f.name \in cache'[gen'][f.note.id]
                    \/ \E s \in Slots : Lists(s, f)'
                    \/ /\ cache'[gen'][f.note.id] = {} /\ f.note.id \in removedIds'
                       /\ \E s \in Slots : WillRemove(s, f.note.id)'
  BY DEF FilesAreTraced, Lists, WillRemove, Patches
<1> DEFINE id == f.note.id
           Traced == \/ \E s \in Slots : ops'[s].kind = "load"
                     \/ f.name \in cache'[gen'][id]
                     \/ \E s \in Slots : Lists(s, f)'
                     \/ /\ cache'[gen'][id] = {} /\ id \in removedIds'
                        /\ \E s \in Slots : WillRemove(s, id)'
<1>1. ReloadVault => Traced
  BY <1>v, ReloadVaultFields
<1>g. ~ReloadVault => gen' = gen /\ removedIds \subseteq removedIds'
  BY <1>v, <1>w, GenGoesOn
<1>2. ASSUME NEW s \in Slots, Save(s), f \notin disk PROVE Traced
  <2>1. ops[s].kind \in {"add", "patch"} /\ gen' = gen
    BY <1>v, <1>2, SaveFields
  <2>2. f.name = written + 1 /\ f.note = ops[s].note /\ ops[s].gen = gen
    BY <1>v, <1>2, <2>1, SaveFields DEF LoadsFirst
  <2>3. ops[s].note.id = ops[s].id /\ ops[s].id \in Ids
    BY <1>v, <2>1, KindOf
  <2>4. cache'[gen][id] = {written + 1}
    BY <1>v, <1>2, <2>2, <2>3, SaveFields
  <2> QED BY <2>1, <2>2, <2>4
<1>3. ASSUME ~ReloadVault, f \in disk, NEW s \in Slots, ops[s].kind = "load" PROVE Traced
  <2>1. ASSUME LoadEnd(s) PROVE Traced
    <3>1. ops[s].pc = "read" /\ ops[s].names = {} /\ cache' = cache
      BY <1>v, <2>1, LoadEndFields
    <3>2. f.name \in cache[gen][id]
      BY <1>3, <3>1 DEF LoadsFirst, OpAt
    <3> QED BY <1>3, <1>g, <3>1, <3>2
  <2>2. ~LoadEnd(s) => ops'[s].kind = "load"
    <3>1. ~AddEnd(s) /\ ~PatchEnd(s) /\ ~Save(s) /\ ~Clean(s) /\ ~Spent(s) /\ ~SpendFails(s)
      BY <1>v, <1>3, AddEndFields, PatchEndFields, SaveFields, CleanFields, SpentFields, SpendFailsFields
    <3>2. ~RemoveFiles(s) /\ ~RemoveEnd(s)
      BY <1>v, <1>3, RemoveFilesFields, RemoveEndFields
    <3>3. LoadList(s) => ops'[s].kind = "load"
      BY <1>v, LoadListFields DEF GoesOn
    <3>4. LoadFile(s) => ops'[s].kind = "load"
      BY <1>v, LoadFileCaches
    <3>5. \A i \in Ids : ~(Broadcast(s, i) \/ PatchStart(s, i) \/ SpendStart(s, i))
      BY <1>v, <1>3, NoOpFields, StartFields
    <3> QED BY <1>v, <1>w, <1>3, <3>1, <3>2, <3>3, <3>4, <3>5, SlotGoesOn DEF Continue, OpStep
  <2> QED BY <2>1, <2>2
<1>4. ASSUME ~ReloadVault, f \in disk, \A s \in Slots : ops[s].kind # "load", f.name \in cache[gen][id] PROVE Traced
  <2>0. id \in Ids /\ f.name # written + 1
    <3>1. f.name \in 1 .. written
      BY <1>v, <1>4 DEF NamesAreUnique
    <3> QED BY <1>v, <1>t, <1>4, <3>1
  <2>1. ASSUME NEW s \in Slots, Save(s), ops[s].id = id PROVE Traced
    <3>1. ops[s].gen = gen /\ ops[s].kind \in {"add", "patch"} /\ ops[s].pc = "save"
      BY <1>v, <2>1, SaveFields DEF LoadsFirst
    <3>2. ops[s].kind = "patch"
      BY <1>4, <2>1, <3>1, AddReplacesNothing
    <3>3. /\ ops'[s].kind = "patch" /\ ops'[s].id = id /\ ops'[s].pc = "clean"
          /\ ops'[s].names = cache[gen][id]
      BY <1>v, <1>4, <2>1, <3>1, <3>2, SaveFields DEF GoesOn
    <3> QED BY <1>4, <3>3 DEF Lists
  <2>2. ASSUME NEW s \in Slots, RemoveEnd(s), ops[s].id = id, f.name \notin cache'[gen][id] PROVE Traced
    <3>1. /\ ops[s].kind \in {"patch", "remove"} /\ ops[s].pc \in {"unlink", "sweep"}
          /\ f.name \notin ops[s].names /\ OpEnds(s)
          /\ cache'[gen][id] = {}
      BY <1>v, <1>4, <2>0, <2>2, RemoveEndFields DEF Deletes
    <3>2. id \in removedIds
      BY <2>2, <3>1, RemovalsAreKnown DEF Removing
    <3>3. PICK t \in Slots \ {s} : \/ WillRemove(t, id)
                                   \/ Lists(t, f) /\ ops[t].pc \in {"unlink", "sweep"}
      BY <1>4, <2>2, <3>1 DEF RemovalInv, RemovalsAreComplete, IsOp
    <3>4. ops'[t] = ops[t]
      BY <3>1, <3>3 DEF OpEnds, OthersGoOn
    <3>5. WillRemove(t, id) => WillRemove(t, id)'
      BY <3>4 DEF WillRemove, Patches
    <3>6. Lists(t, f) => Lists(t, f)'
      BY <3>4 DEF Lists
    <3> QED BY <1>4, <1>g, <3>1, <3>2, <3>3, <3>5, <3>6
  <2>3. \/ f.name \in cache'[gen][id]
        \/ \E s \in Slots : (Save(s) \/ RemoveEnd(s)) /\ ops[s].id = id
    <3>1. CASE StoreStill
      BY <1>4, <3>1 DEF StoreStill
    <3>2. ASSUME NEW s \in Slots, Save(s) PROVE f.name \in cache'[gen][id] \/ ops[s].id = id
      BY <1>v, <1>4, <2>0, <3>2, SaveFields
    <3>3. ASSUME NEW s \in Slots, RemoveEnd(s) PROVE f.name \in cache'[gen][id] \/ ops[s].id = id
      BY <1>v, <1>4, <2>0, <3>3, RemoveEndFields
    <3>4. ASSUME NEW s \in Slots, Clean(s) \/ RemoveFiles(s) PROVE f.name \in cache'[gen][id]
      BY <1>v, <1>4, <3>4, CleanFields, RemoveFilesFields
    <3>5. \A s \in Slots : ~LoadList(s) /\ ~LoadFile(s)
      BY <1>v, <1>4, LoadListFields, LoadFileFields
    <3> QED BY <1>v, <3>1, <3>2, <3>3, <3>4, <3>5, StoreStillSteps
  <2> QED BY <1>4, <1>g, <2>1, <2>2, <2>3
<1>5. ASSUME ~ReloadVault, NEW s \in Slots, Lists(s, f) PROVE Traced
  <2>1. Lists(s, f)'
    BY <1>5, <1>w, ListsGoesOn DEF Lists
  <2> QED BY <2>1
<1>6. ASSUME ~ReloadVault, f \in disk, \A s \in Slots : ops[s].kind # "load",
             cache[gen][id] = {}, id \in removedIds, NEW s \in Slots, WillRemove(s, id) PROVE Traced
  <2>0. id \in Ids
    BY <1>v, <1>t, <1>6
  <2>1. ASSUME RemoveFiles(s) PROVE Traced
    <3>1. ops[s].id = id /\ ops[s].gen = gen /\ ops[s].kind = "patch"
      BY <1>6 DEF WillRemove, Patches, LoadsFirst
    <3>2. /\ ops'[s].kind = "patch" /\ ops'[s].id = id /\ ops'[s].pc = "sweep" /\ ops'[s].names = FilesOf(id)
      BY <1>v, <1>6, <2>1, <3>1, RemoveFilesFields DEF GoesOn
    <3>3. f.name \in FilesOf(id)
      BY <1>6 DEF FilesOf
    <3> QED BY <3>2, <3>3 DEF Lists
  <2>2. ASSUME WillRemove(s, id)' PROVE Traced
    <3>1. cache'[gen][id] = {}
      <4>1. ASSUME NEW t \in Slots, Save(t), ops[t].id = id PROVE FALSE
        <5>1. Patches(t, id) /\ ops[t].pc = "save"
          BY <1>v, <1>6, <4>1, WriteOfRemoved, SaveFields
        <5>2. t = s
          BY <1>6, <5>1 DEF RemovalInv, RemovedIsRemoved, WillRemove
        <5> QED BY <1>6, <5>1, <5>2 DEF WillRemove
      <4>2. \A t \in Slots : ~LoadFile(t)
        BY <1>v, <1>6, LoadFileFields
      <4> QED BY <1>v, <1>6, <2>0, <4>1, <4>2, StoredComesFrom
    <3> QED BY <1>6, <1>g, <2>2, <3>1
  <2> QED BY <1>6, <1>w, <2>1, <2>2, WillRemoveGoesOn
<1>7. ASSUME f \in disk, ~ReloadVault PROVE Traced
  <2> HIDE DEF Traced
  <2> QED BY <1>3, <1>4, <1>5, <1>6, <1>7 DEF RemovalInv, FilesAreTraced
<1>8. f \in disk \/ \E s \in Slots : Save(s)
  BY <1>v, StoredComesFrom
<1> QED BY <1>1, <1>2, <1>7, <1>8

(* A removal lists the files its adapter knows.                            *)
LEMMA RemovalsAreCompleteStep ==
    ASSUME StorageInv, LoadsFirst, RemovedIsKnown, RemovalInv, SameAccount', EveryDeletionDone',
           [VaultNext]_vaultVars
    PROVE  RemovalsAreComplete'
<1>v. VaultTyped /\ NamesAreUnique /\ disk \subseteq Files /\ gen \in Gens /\ written \in Nat
  BY DEF StorageInv, VaultTyped
<1>w. \A s \in Slots : ~Switch(s)
  BY <1>v, FaultsGoOn
<1> SUFFICES ASSUME NEW s \in Slots, NEW f \in disk', ops'[s].kind \in {"add", "patch", "remove"},
                    ops'[s].pc \in {"unlink", "sweep"}, f.note.id = ops'[s].id,
                    f.name \in cache'[gen'][f.note.id]
             PROVE  \/ f.name \in ops'[s].names
                    \/ \E t \in Slots \ {s} : \/ WillRemove(t, f.note.id)'
                                              \/ Lists(t, f)' /\ ops'[t].pc \in {"unlink", "sweep"}
  BY DEF RemovalsAreComplete, IsOp, WillRemove, Patches, Lists
<1> DEFINE id == f.note.id
           Complete == \/ f.name \in ops'[s].names
                       \/ \E t \in Slots \ {s} : \/ WillRemove(t, id)'
                                                 \/ Lists(t, f)' /\ ops'[t].pc \in {"unlink", "sweep"}
<1>r. ~ReloadVault
  BY <1>v, NoOpFields, ReloadVaultFields
<1>g. gen' = gen /\ removedIds \subseteq removedIds'
  BY <1>v, <1>w, <1>r, GenGoesOn
<1>1. CASE RemoveFiles(s)
  <2>1. /\ ops'[s].names = (IF cache[ops[s].gen][ops[s].id] # {} THEN cache[ops[s].gen][ops[s].id] ELSE FilesOf(ops[s].id))
        /\ ops'[s].id = ops[s].id /\ cache' = cache /\ ops[s].kind # "none"
    BY <1>v, <1>1, RemoveFilesFields DEF GoesOn
  <2>2. ops[s].gen = gen
    BY <2>1 DEF LoadsFirst
  <2>3. f.name \in cache[gen][ops[s].id]
    BY <1>g, <2>1
  <2> QED BY <2>1, <2>2, <2>3
<1>2. CASE ops'[s] = ops[s]
  <2>0. /\ ops[s].kind \in {"patch", "remove"} /\ ops[s].id = id /\ id \in Ids /\ id \in removedIds
        /\ ops[s].pc \in {"unlink", "sweep"}
    BY <1>2, RemovalsAreKnown DEF Removing
  <2>l. \A u \in Slots : ops[u].kind # "load"
    BY <2>0 DEF LoadsFirst
  <2>1. ASSUME NEW u \in Slots, Save(u), f = [name |-> written + 1, note |-> ops[u].note] PROVE Complete
    <3>1. /\ ops[u].kind \in {"add", "patch"} /\ ops[u].pc = "save"
          /\ ops'[u].kind = ops[u].kind /\ ops'[u].id = ops[u].id /\ ops'[u].pc \in {"put", "clean"}
      BY <1>v, <2>1, SaveFields DEF GoesOn
    <3>2. ops[u].id = id
      BY <1>v, <2>1, <3>1, KindOf
    <3>3. ops[u].kind = "patch"
      BY <2>0, <2>1, <3>2, WriteOfRemoved DEF Patches
    <3>4. u # s
      BY <2>0, <3>1
    <3> QED BY <3>1, <3>2, <3>3, <3>4 DEF WillRemove, Patches
  <2>2. f \in disk => f.name \in cache[gen][id]
    <3>1. ASSUME f \in disk PROVE f.name # written + 1
      <4>1. f.name \in 1 .. written
        BY <1>v, <3>1 DEF NamesAreUnique
      <4> QED BY <1>v, <4>1
    <3>2. \A u \in Slots : ~LoadFile(u)
      BY <1>v, <2>l, LoadFileFields
    <3> QED BY <1>v, <1>g, <2>0, <3>1, <3>2, StoredComesFrom
  <2>3. ASSUME NEW t \in Slots \ {s}, WillRemove(t, id), f \in disk PROVE Complete
    <3>1. ASSUME RemoveFiles(t) PROVE Complete
      <4>1. ops[t].id = id /\ ops[t].gen = gen /\ ops[t].kind = "patch"
        BY <2>3 DEF WillRemove, Patches, LoadsFirst
      <4>2. /\ ops'[t].kind = "patch" /\ ops'[t].id = id /\ ops'[t].pc = "unlink"
            /\ ops'[t].names = cache[gen][id]
        BY <1>v, <2>2, <2>3, <3>1, <4>1, RemoveFilesFields DEF GoesOn
      <4> QED BY <2>2, <2>3, <4>2 DEF Lists
    <3> QED BY <1>r, <1>w, <2>0, <2>3, <3>1, WillRemoveGoesOn
  <2>4. ASSUME NEW t \in Slots \ {s}, Lists(t, f), ops[t].pc \in {"unlink", "sweep"} PROVE Complete
    <3>1. ops'[t] = ops[t]
      BY <1>r, <1>w, <2>4, ListsGoesOn
    <3> QED BY <2>4, <3>1 DEF Lists
  <2>5. f \in disk => \/ f.name \in ops[s].names
                      \/ \E t \in Slots \ {s} : \/ WillRemove(t, id)
                                                \/ Lists(t, f) /\ ops[t].pc \in {"unlink", "sweep"}
    BY <2>0, <2>2 DEF RemovalInv, RemovalsAreComplete, IsOp
  <2>6. f \in disk \/ \E u \in Slots : Save(u) /\ f = [name |-> written + 1, note |-> ops[u].note]
    BY <1>v, StoredComesFrom
  <2> QED BY <1>2, <2>1, <2>3, <2>4, <2>5, <2>6
<1>3. ~Save(s) /\ ~Clean(s) /\ ~Spent(s) /\ ~LoadList(s) /\ ~PatchEnd(s)
  BY <1>v, SaveFields, CleanFields, SpentFields, LoadListFields, NoOpFields, PatchEndFields DEF GoesOn, OpEnds
<1>4. ~LoadFile(s)
  BY <1>v, LoadFileCaches
<1>5. \A i \in Ids : ~(Broadcast(s, i) \/ PatchStart(s, i) \/ SpendStart(s, i))
  BY <1>v, StartFields
<1> QED BY <1>v, <1>w, <1>r, <1>1, <1>2, <1>3, <1>4, <1>5, PlaceComesFrom

(* The files of a removed note have someone to remove them.                *)
LEMMA RemovedIsRemovedStep ==
    ASSUME StorageInv, LoadsFirst, RemovedIsKnown, RemovalInv, SameAccount', EveryDeletionDone', MaxOps <= 2,
           [VaultNext]_vaultVars
    PROVE  RemovedIsRemoved'
<1>v. VaultTyped /\ NamesAreUnique /\ disk \subseteq Files /\ removedIds \subseteq Ids
  BY DEF StorageInv, VaultTyped
<1>w. \A s \in Slots : ~Switch(s)
  BY <1>v, FaultsGoOn
<1> SUFFICES ASSUME NEW id \in removedIds'
             PROVE  /\ HasFile(id)' => \E s \in Slots : Removes(s, id)' \/ Patches(s, id)'
                    /\ \A s, t \in Slots : Patches(s, id)' /\ Patches(t, id)' => s = t
  BY DEF RemovedIsRemoved, HasFile, Removes, Patches
<1>r. ~ReloadVault
  BY <1>v, ReloadVaultFields
<1>g. id \in removedIds \/ \E s \in Slots : Spent(s) /\ id = ops[s].id
  BY <1>v, <1>w, <1>r, GenGoesOn
\* Where a write comes from.
<1>p. ASSUME NEW s \in Slots, ops'[s].kind = "patch"
      PROVE  \/ ops[s].kind = "patch" /\ ops[s].id = ops'[s].id
             \/ PatchStart(s, ops'[s].id) /\ ops'[s].id \in Ids
  <2>1. \A i \in Ids : ~Broadcast(s, i) /\ ~SpendStart(s, i)
    BY <1>p, <1>v, BroadcastFields, SpendStartFields DEF Begins
  <2> QED BY <1>p, <1>v, <2>1, OpsComeFrom
<1>1. CASE id \in removedIds
  <2>1. ASSUME NEW s \in Slots, NEW t \in Slots, Patches(s, id)', Patches(t, id)' PROVE s = t
    <3>1. \A u \in Slots : Patches(u, id)' => Patches(u, id)
      BY <1>v, <1>1, <1>p, PatchStartFields DEF Patches
    <3> QED BY <1>1, <2>1, <3>1 DEF RemovalInv, RemovedIsRemoved
  <2>2. ASSUME NEW f \in disk, f \in disk', f.note.id = id
        PROVE  \E s \in Slots : Removes(s, id)' \/ Patches(s, id)'
    <3>1. PICK s \in Slots : Removes(s, id) \/ Patches(s, id)
      BY <1>1, <2>2 DEF RemovalInv, RemovedIsRemoved, HasFile
    <3>2. CASE RemoveEnd(s)
      <4>1. /\ ops[s].kind \in {"patch", "remove"} /\ ops[s].pc \in {"unlink", "sweep"} /\ ops[s].id = id
            /\ f.name \notin ops[s].names /\ OpEnds(s)
        BY <1>v, <2>2, <3>1, <3>2, RemoveEndFields DEF Deletes, Removes, Patches
      <4>2. \A u \in Slots : ops[u].kind # "load"
        BY <4>1 DEF LoadsFirst
      <4>3. ASSUME NEW t \in Slots \ {s}, WillRemove(t, id) \/ Lists(t, f)
            PROVE  Removes(t, id)' \/ Patches(t, id)'
        <5>1. ops'[t] = ops[t]
          BY <4>1 DEF OpEnds, OthersGoOn
        <5>2. CASE WillRemove(t, id)
          BY <5>1, <5>2 DEF WillRemove, Patches
        <5>3. CASE Lists(t, f)
          <6>1. ops[t].pc = "clean" => ops[t].kind = "patch"
            BY <1>v, KindOf
          <6> QED BY <2>2, <5>1, <5>3, <6>1 DEF Lists, Patches, Removes, Removing
        <5> QED BY <4>3, <5>2, <5>3
      <4>4. \E t \in Slots \ {s} : WillRemove(t, id) \/ Lists(t, f)
        <5>1. CASE f.name \in cache[gen][id]
          BY <2>2, <4>1, <5>1 DEF RemovalInv, RemovalsAreComplete, IsOp
        <5>2. ASSUME NEW t \in Slots, Lists(t, f) PROVE t # s
          BY <4>1, <5>2 DEF Lists
        <5>3. ASSUME NEW t \in Slots, WillRemove(t, id) PROVE t # s
          BY <4>1, <5>3 DEF WillRemove
        <5> QED BY <2>2, <4>2, <5>1, <5>2, <5>3 DEF RemovalInv, FilesAreTraced
      <4> QED BY <4>3, <4>4
    <3>3. CASE Removes(s, id)
      BY <1>r, <1>w, <3>2, <3>3, RemovalGoesOn
    <3>4. CASE Patches(s, id) /\ ~RemoveEnd(s)
      <4>1. ~AddEnd(s) /\ ~Spent(s) /\ ~SpendFails(s)
        BY <1>v, <3>4, AddEndFields, SpentFields, SpendFailsFields DEF Patches
      <4>2. ~LoadList(s) /\ ~LoadFile(s) /\ ~LoadEnd(s)
        BY <1>v, <3>4, LoadListFields, LoadFileFields, LoadEndFields DEF Patches
      <4>3. \A i \in Ids : ~(Broadcast(s, i) \/ PatchStart(s, i) \/ SpendStart(s, i))
        BY <1>v, <3>4, NoOpFields, StartFields DEF Patches
      <4>4. Save(s) \/ Clean(s) \/ RemoveFiles(s) => Patches(s, id)'
        BY <1>v, <3>4, SaveFields, CleanFields, RemoveFilesFields DEF GoesOn, Patches
      <4>5. PatchEnd(s) => Patches(s, id)'
        <5>1. gen = ops[s].gen /\ Overtaken(s)
          BY <1>1, <3>4 DEF LoadsFirst, Overtaken, Patches
        <5> QED BY <1>v, <3>4, <5>1, PatchEndFields DEF GoesOn, Patches
      <4>6. ops'[s] = ops[s] => Patches(s, id)'
        BY <3>4 DEF Patches
      <4> QED BY <1>v, <1>r, <1>w, <3>4, <4>1, <4>2, <4>3, <4>4, <4>5, <4>6, SlotGoesOn DEF Continue, OpStep
    <3> QED BY <3>1, <3>2, <3>3, <3>4
  <2>3. ASSUME NEW u \in Slots, Save(u), NEW f, f = [name |-> written + 1, note |-> ops[u].note], f.note.id = id
        PROVE  Patches(u, id)'
    <3>1. ops[u].id = id /\ ops'[u].kind = ops[u].kind /\ ops'[u].id = ops[u].id
      BY <1>v, <2>3, SaveFields, KindOf DEF GoesOn
    <3> QED BY <1>1, <2>3, <3>1, WriteOfRemoved DEF Patches
  <2>4. ASSUME HasFile(id)' PROVE \E s \in Slots : Removes(s, id)' \/ Patches(s, id)'
    <3>1. PICK f \in disk' : f.note.id = id
      BY <2>4 DEF HasFile
    <3> QED BY <1>v, <2>2, <2>3, <3>1, StoredComesFrom
  <2> QED BY <2>1, <2>4
<1>2. ASSUME NEW u \in Slots, Spent(u), id = ops[u].id
      PROVE  /\ Removes(u, id)'
             /\ \A s, t \in Slots : Patches(s, id)' /\ Patches(t, id)' => s = t
  <2>1. /\ ops'[u].kind = "remove" /\ ops'[u].id = id /\ ops'[u].pc = "remove"
    BY <1>v, <1>2, SpentFields DEF GoesOn
  <2>2. ASSUME NEW s \in Slots, NEW t \in Slots, Patches(s, id)', Patches(t, id)' PROVE s = t
    <3>1. s # u /\ t # u
      BY <2>1, <2>2 DEF Patches
    <3>2. MaxOps \in Nat
      BY VaultAssumption
    <3> QED BY <3>1, <3>2 DEF Slots
  <2> QED BY <2>1, <2>2 DEF Removes, Removing
<1> QED BY <1>g, <1>1, <1>2

-----------------------------------------------------------------------------
(* The invariant holds, and the vault is sound. *)

(* It holds when the vault opens.                                          *)
LEMMA VaultInvInit ==
    ASSUME VaultInit
    PROVE  VaultInv
<1> DEFINE first == [NoOp EXCEPT !.kind = "load", !.gen = 1, !.pc = "list"]
<1>0. 1 \in Slots /\ 1 \in Gens /\ {MaxVaultSwitches, MaxFailures, MaxCrashes} \subseteq Nat
  <2>1. /\ MaxOps \in Nat \ {0} /\ MaxVaultSwitches \in Nat /\ MaxCrashes \in Nat /\ MaxFailures \in Nat
    BY VaultAssumption
  <2> QED BY <2>1 DEF Slots, Gens
<1>1. /\ first.kind = "load" /\ first.gen = 1 /\ first.pc = "list" /\ first.names = {} /\ first.loaded = {}
      /\ first \in OpRecords
  <2>1. NoOp \in OpRecords /\ "list" \in Pcs /\ "load" \in Kinds
    BY NoOpTyped DEF Pcs, Kinds
  <2> QED BY <2>1, OpEdits DEF NoOp
<1>2. ops = [s \in Slots |-> IF s = 1 THEN first ELSE NoOp]
  BY DEF VaultInit, Opened, Slots
<1> HIDE DEF first
<1>3. /\ disk = {} /\ written = 0 /\ cache = [g \in Gens |-> [id \in Ids |-> {}]] /\ gen = 1
      /\ notes = {} /\ mirror = {} /\ removedIds = {} /\ added = {} /\ gone = {}
      /\ fate = [id \in Ids |-> "none"]
      /\ faults = [switches |-> MaxVaultSwitches, failures |-> MaxFailures, crashes |-> MaxCrashes]
  BY DEF VaultInit, Opened, Faults
<1>4. \A s \in Slots : ops[s] = first \/ ops[s] = NoOp
  BY <1>2
<1>5. \A s \in Slots : /\ ops[s].names = {} /\ ops[s].loaded = {}
                       /\ ops[s].kind = "none" \/ ops[s].kind = "load"
                       /\ ops[s].pc = "done" \/ ops[s].pc = "list"
                       /\ ops[s].kind # "none" => s = 1 /\ ops[s].gen = 1
  <2>1. \A s \in Slots : s # 1 => ops[s] = NoOp
    BY <1>2
  <2> QED BY <1>1, <1>4, <2>1, NoOpFields
<1>6. VaultTyped
  <2>1. ops \in [Slots -> OpRecords]
    BY <1>1, <1>2, NoOpTyped
  <2>2. \A s \in Slots : OpShape(ops[s])
    BY <1>1, <1>4, NoOpTyped DEF OpShape
  <2>3. faults \in [switches : 0 .. MaxVaultSwitches, failures : 0 .. MaxFailures, crashes : 0 .. MaxCrashes]
    BY <1>0, <1>3
  <2>4. gen = 1 + (MaxVaultSwitches - faults.switches) + 2 * (MaxCrashes - faults.crashes)
    BY <1>0, <1>3
  <2>5. fate \in [Ids -> VaultFates] /\ cache \in [Gens -> [Ids -> SUBSET Nat]]
    BY <1>3 DEF VaultFates
  <2> QED BY <1>0, <1>3, <2>1, <2>2, <2>3, <2>4, <2>5 DEF VaultTyped
<1>7. NamesAreUnique /\ NamesAreOfTheirNote
  BY <1>3, <1>5 DEF NamesAreUnique, NamesAreOfTheirNote
<1>8. NewIsUnknown
  BY <1>3, <1>5 DEF NewIsUnknown, NotStored, NotShown, IsOp
<1>9. ShownOnce /\ OnlySpentIsRemoved
  BY <1>3, <1>5 DEF ShownOnce, OnlySpentIsRemoved, Removing, HasId
<1>10. UnspentIsStored
  BY <1>3, <1>5 DEF UnspentIsStored, OpAt
<1>11. AccountInv
  <2>1. LoadsFirst
    BY <1>3, <1>5 DEF LoadsFirst, OpAt
  <2>2. IndexOfLanded /\ RemovedIsKnown
    BY <1>3, <1>5 DEF IndexOfLanded, RemovedIsKnown, IsOp
  <2>3. IndexIsComing /\ StoredIsComing
    BY <1>3 DEF IndexIsComing, StoredIsComing
  <2> QED BY <2>1, <2>2, <2>3 DEF AccountInv
<1>12. ShownIsBacked /\ RemovalInv
  BY <1>3 DEF ShownIsBacked, RemovalInv, FilesAreTraced, RemovalsAreComplete, RemovedIsRemoved
<1> QED BY <1>3, <1>6, <1>7, <1>8, <1>9, <1>10, <1>11, <1>12 DEF VaultInv, StorageInv

(* Every step keeps it.                                                    *)
LEMMA VaultInvStep ==
    ASSUME VaultInv, [VaultNext]_vaultVars
    PROVE  VaultInv'
<1>1. StorageInv /\ VaultTyped /\ NamesAreUnique
  BY DEF VaultInv, StorageInv
<1>2. StorageInv'
  BY <1>1, VaultTypedStep, NamesAreUniqueStep, NamesAreOfTheirNoteStep, NewIsUnknownStep, ShownOnceStep,
     OnlySpentIsRemovedStep, UnspentIsStoredStep DEF StorageInv
<1>3. ASSUME WaitsForLoad, SameAccount'
      PROVE  /\ AccountInv'
             /\ NeverReloaded' => gone' \subseteq removedIds'
             /\ EveryDeletionDone' => ShownIsBacked'
             /\ EveryDeletionDone' /\ MaxOps <= 2 => RemovalInv'
  <2>1. SameAccount /\ (EveryDeletionDone' => EveryDeletionDone) /\ (NeverReloaded' => NeverReloaded)
    BY <1>1, <1>3, FaultsGoOn
  <2>2. /\ LoadsFirst /\ IndexOfLanded /\ RemovedIsKnown /\ IndexIsComing /\ StoredIsComing
        /\ NeverReloaded => gone \subseteq removedIds
        /\ EveryDeletionDone => ShownIsBacked
        /\ EveryDeletionDone /\ MaxOps <= 2 => RemovalInv
    BY <1>3, <2>1 DEF VaultInv, AccountInv
  <2>3. AccountInv'
    BY <1>1, <1>3, <2>2, LoadsFirstStep, IndexOfLandedStep, RemovedIsKnownStep, IndexIsComingStep,
       StoredIsComingStep DEF AccountInv
  <2>4. NeverReloaded' => gone' \subseteq removedIds'
    BY <1>1, <1>3, <2>1, <2>2, GoneIsRemovedStep
  <2>5. EveryDeletionDone' => ShownIsBacked'
    BY <1>1, <1>3, <2>1, <2>2, ShownIsBackedStep
  <2>6. EveryDeletionDone' /\ MaxOps <= 2 => RemovalInv'
    BY <1>1, <1>3, <2>1, <2>2, FilesAreTracedStep, RemovalsAreCompleteStep, RemovedIsRemovedStep DEF RemovalInv
  <2> QED BY <2>3, <2>4, <2>5, <2>6
<1> QED BY <1>2, <1>3 DEF VaultInv

(* What it says of the vault.                                              *)
LEMMA VaultInvIsSound ==
    ASSUME VaultInv
    PROVE  VaultIsSound
<1>t. VaultTyped /\ StorageInv /\ notes \subseteq Notes /\ disk \subseteq Files /\ DOMAIN ops = Slots /\ added \subseteq Ids
  BY DEF VaultInv, StorageInv, VaultTyped
<1>q. Quiet => \A s \in Slots : ops[s].kind = "none"
  BY <1>t, NoOpFields DEF Quiet
<1>1. NoteVaultTypeOK
  BY <1>t DEF NoteVaultTypeOK, StorageInv, NamesAreUnique, ShownOnce
<1>f. \A id : HasFile(id) <=> FilesOf(id) # {}
  BY DEF HasFile, FilesOf
<1>2. NoNoteLost
  BY <1>t, <1>f DEF NoNoteLost, StorageInv, UnspentIsStored
<1>3. ASSUME WaitsForLoad, SameAccount PROVE StoredIndexIsShown
  <2>1. IndexIsComing
    BY <1>3 DEF VaultInv, AccountInv
  <2> QED BY <1>t, <1>q, <2>1 DEF StoredIndexIsShown, IndexIsComing, Notes
<1>4. ASSUME WaitsForLoad, SameAccount, EveryDeletionDone, MaxOps <= 2
      PROVE  ShownIsStored /\ (NeverReloaded => RemovedStaysGone)
  <2>1. /\ ShownIsBacked /\ StoredIsComing /\ RemovedIsRemoved /\ (NeverReloaded => gone \subseteq removedIds)
    BY <1>4 DEF VaultInv, AccountInv, RemovalInv
  <2>2. ASSUME Quiet, NEW s \in Slots, NEW id PROVE ~Removes(s, id) /\ ~Patches(s, id)
    BY <1>q, <2>2 DEF Removes, Patches
  <2>3. ASSUME Quiet, NEW n \in notes PROVE \E f \in disk : f.note.id = n.id
    BY <2>1, <2>2, <2>3 DEF ShownIsBacked, HasFile
  <2>4. ASSUME Quiet, NEW id \in removedIds PROVE ~HasFile(id)
    BY <2>1, <2>2, <2>4 DEF RemovedIsRemoved
  <2>5. ASSUME Quiet, NEW f \in disk PROVE \E n \in notes : n.id = f.note.id
    <3>1. f.note.id \notin removedIds
      BY <2>4, <2>5 DEF HasFile
    <3> QED BY <1>q, <2>1, <2>5, <3>1 DEF StoredIsComing, HasId
  <2>6. ShownIsStored
    BY <2>3, <2>5 DEF ShownIsStored
  <2>7. NeverReloaded => RemovedStaysGone
    BY <1>f, <2>1, <2>4 DEF RemovedStaysGone
  <2> QED BY <2>6, <2>7
<1> QED BY <1>1, <1>2, <1>3, <1>4 DEF VaultIsSound

(* The vault is sound: whatever is switched, reloaded or fails, no note    *)
(* whose add returned is left without a file before it is spent; within    *)
(* one account a stored leaf index is what a load shows; and while every   *)
(* deletion succeeds the provider shows exactly the notes of the folder.   *)
THEOREM VaultStaysSound == VaultSpec => []VaultIsSound
<1>1. VaultInit => VaultInv
  BY VaultInvInit
<1>2. VaultInv /\ [VaultNext]_vaultVars => VaultInv'
  BY VaultInvStep
<1>3. VaultInv => VaultIsSound
  BY VaultInvIsSound
<1> QED BY <1>1, <1>2, <1>3, PTL DEF VaultSpec
=============================================================================
