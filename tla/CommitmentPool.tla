--------------------------- MODULE CommitmentPool ---------------------------
(***************************************************************************)
(* The pool that holds every user's tokens (contracts/src/zk/              *)
(* CommitmentPool.sol).  A leaf of its tree is a note; only its owner can  *)
(* prove knowledge of it, so a proof is modelled by the note it opens.     *)
(* Hashes are ideal: a commitment is its note, a nullifier its preimage.   *)
(***************************************************************************)
EXTENDS Chain, Totals, LeafLog

CONSTANTS
    Secrets,                \* owner secrets, one per user and signing key
    Salts,
    DepositNotes,           \* the notes users deposit
    WithdrawAmounts,        \* the amounts users withdraw
    Settlements,            \* settlement contracts the owner may authorize
    SETTLEMENT_TIMELOCK,
    InitialSettlement,      \* authorizedSettlement when the behaviour starts
    InitialPoolCfg,         \* the pool's switches when the behaviour starts
    AdminOps                \* the owner operations a behaviour may contain

Notes == [secret : Secrets, token : Tokens, amount : Nat, salt : Salts]
PoolCfgs == [paused : BOOLEAN, whitelistedTokens : SUBSET Tokens,
             sanctionsList : BOOLEAN, identityGate : BOOLEAN]

ASSUME NotesAssumption == DepositNotes \subseteq Notes
ASSUME WithdrawAssumption == WithdrawAmounts \subseteq Nat
ASSUME SettlementAssumption ==
    /\ None \notin Settlements
    /\ InitialSettlement \in Settlements \cup {None}
    /\ SETTLEMENT_TIMELOCK \in Nat
ASSUME PoolCfgAssumption == InitialPoolCfg \in PoolCfgs

VARIABLES
    poolNullifiers,         \* spent escrow nullifiers
    poolBal,                \* token -> balanceOf(pool)
    poolCfg,                \* the pool's switches, see PoolCfgs
    authorizedSettlement,
    pendingSettlement,      \* [addr, activateAt], addr None when nothing is queued
    queued,                 \* history: [addr, at] of the last queueSetAuthorizedSettlement
    sanctioned,             \* SanctionsList: the accounts it reports
    verified                \* IdentityGate: the accounts it reports

noteVars == <<leaves, poolNullifiers, poolBal>>
timelockVars == <<authorizedSettlement, pendingSettlement, queued>>
complianceVars == <<sanctioned, verified>>
poolAdminVars == <<poolCfg, timelockVars, complianceVars>>
poolVars == <<noteVars, poolAdminVars>>

NothingQueued == [addr |-> None, activateAt |-> 0]

PoolInit ==
    /\ LogInit
    /\ poolNullifiers = {}
    /\ poolBal = Zero
    /\ poolCfg = InitialPoolCfg
    /\ authorizedSettlement = InitialSettlement
    /\ pendingSettlement = NothingQueued
    /\ queued = [addr |-> None, at |-> 0]
    /\ sanctioned = {}
    /\ verified = Accounts

-----------------------------------------------------------------------------
(* Notes and what the circuits prove about them.                           *)

(* Mutants of the definitions below.                                       *)
ChangeMutant(note, amount, newSalt) ==
    <<[note EXCEPT !.amount = note.amount, !.salt = newSalt]>>
TimelockExpiredMutant == TRUE

(* escrow nullifier = hash(TAG_ESCROW_NULL, secret, salt): the amount and  *)
(* the token are not part of it.                                           *)
EscrowNullifier(note) == <<note.secret, note.salt>>
Spent(nullifier) == nullifier \in poolNullifiers

(* What is left of a note after amount is taken out of it, as a sequence   *)
(* of leaves: the circuits force commitment 0, which is never inserted,    *)
(* exactly when nothing is left.                                           *)
Change(note, amount, newSalt) ==
    IF note.amount = amount THEN << >>
    ELSE <<[note EXCEPT !.amount = note.amount - amount, !.salt = newSalt]>>

(* There is a membership proof of the note under a root the pool still     *)
(* knows; which one makes no difference to the transaction.                *)
ProvesMembership(note) == {root \in Roots : IsKnownRoot(root) /\ MemberUnder(note, root)} # {}

-----------------------------------------------------------------------------
(* notSanctioned and _requireIdentityVerified.                             *)
MayUsePool(account) ==
    /\ poolCfg.sanctionsList => account \notin sanctioned
    /\ poolCfg.identityGate => account \in verified

(* deposit: the proof binds commitment, token and amount; a token that     *)
(* charges on transfer is refused, so the pool receives exactly the amount.*)
PoolDeposit(sender, note) ==
    /\ ~poolCfg.paused
    /\ MayUsePool(sender)
    /\ note.token \in poolCfg.whitelistedTokens
    /\ note.amount > 0
    /\ HasRoomFor(<<note>>)
    /\ leaves' = Appended(<<note>>)
    /\ poolBal' = Plus(poolBal, note.token, note.amount)
    /\ UNCHANGED <<poolNullifiers, poolAdminVars>>

(* _processWithdraw: part of a note is paid out, the rest becomes a new    *)
(* note.  The transfer needs the tokens.                                   *)
ProcessWithdraw(note, amount, newSalt) ==
    /\ amount > 0 /\ amount <= note.amount
    /\ ProvesMembership(note)
    /\ ~Spent(EscrowNullifier(note))
    /\ HasRoomFor(Change(note, amount, newSalt))
    /\ poolBal[note.token] >= amount
    /\ poolNullifiers' = poolNullifiers \cup {EscrowNullifier(note)}
    /\ leaves' = Appended(Change(note, amount, newSalt))
    /\ poolBal' = Minus(poolBal, note.token, amount)
    /\ UNCHANGED poolAdminVars

withdraw(sender, recipient, note, amount, newSalt) ==
    /\ ~poolCfg.paused
    /\ MayUsePool(sender) /\ MayUsePool(recipient)
    /\ ProcessWithdraw(note, amount, newSalt)

-----------------------------------------------------------------------------
(* Calls reserved to the authorized settlement contract.                   *)
FromSettlement(caller) == caller # None /\ caller = authorizedSettlement

withdrawFor(caller, note, amount, newSalt) ==
    FromSettlement(caller) /\ ProcessWithdraw(note, amount, newSalt)

(* insertCommitment of a non-zero commitment; zero returns early.          *)
insertCommitment(caller, note) ==
    /\ FromSettlement(caller)
    /\ HasRoomFor(<<note>>)
    /\ leaves' = Appended(<<note>>)
    /\ UNCHANGED <<poolNullifiers, poolBal, poolAdminVars>>

spendEscrowNullifier(caller, nullifier) ==
    /\ FromSettlement(caller)
    /\ ~Spent(nullifier)
    /\ poolNullifiers' = poolNullifiers \cup {nullifier}
    /\ UNCHANGED <<leaves, poolBal, poolAdminVars>>

(* transferToSettlement and transferFee: tokens leave the pool.            *)
poolTransfer(caller, t, amount) ==
    /\ FromSettlement(caller)
    /\ poolBal[t] >= amount
    /\ poolBal' = Minus(poolBal, t, amount)
    /\ UNCHANGED <<leaves, poolNullifiers, poolAdminVars>>

-----------------------------------------------------------------------------
(* Owner operations on the settlement that may move the pool's tokens.     *)
queueSetAuthorizedSettlement(s) ==
    /\ pendingSettlement' = [addr |-> s, activateAt |-> now + SETTLEMENT_TIMELOCK]
    /\ queued' = [addr |-> s, at |-> now]
    /\ UNCHANGED authorizedSettlement

TimelockExpired == now >= pendingSettlement.activateAt

activateAuthorizedSettlement ==
    /\ pendingSettlement.addr # None
    /\ TimelockExpired
    /\ authorizedSettlement' = pendingSettlement.addr
    /\ pendingSettlement' = NothingQueued
    /\ UNCHANGED queued

(* The first settlement needs no timelock and leaves a queued one pending. *)
setAuthorizedSettlement(s) ==
    /\ authorizedSettlement = None
    /\ authorizedSettlement' = s
    /\ UNCHANGED <<pendingSettlement, queued>>

SettlementAdmin ==
    /\ "settlement" \in AdminOps
    /\ \/ \E s \in Settlements : queueSetAuthorizedSettlement(s)
       \/ activateAuthorizedSettlement
       \/ \E s \in Settlements : setAuthorizedSettlement(s)
    /\ UNCHANGED <<noteVars, poolCfg, complianceVars>>

(* The pool's other switches.                                              *)
pausePool == ~poolCfg.paused /\ poolCfg' = [poolCfg EXCEPT !.paused = TRUE]
unpausePool == poolCfg.paused /\ poolCfg' = [poolCfg EXCEPT !.paused = FALSE]
setPoolTokenWhitelist(t, allowed) ==
    poolCfg' = [poolCfg EXCEPT !.whitelistedTokens = IF allowed THEN @ \cup {t} ELSE @ \ {t}]
setPoolSanctionsList(isSet) == poolCfg' = [poolCfg EXCEPT !.sanctionsList = isSet]
setPoolIdentityGate(isSet) == poolCfg' = [poolCfg EXCEPT !.identityGate = isSet]

PoolSwitch ==
    /\ \/ "pause" \in AdminOps /\ (pausePool \/ unpausePool)
       \/ "whitelist" \in AdminOps /\ \E t \in Tokens, b \in BOOLEAN : setPoolTokenWhitelist(t, b)
       \/ "compliance" \in AdminOps /\ \E b \in BOOLEAN : setPoolSanctionsList(b) \/ setPoolIdentityGate(b)
    /\ UNCHANGED <<noteVars, timelockVars, complianceVars>>

(* SanctionsList and IdentityGate change their answer about an account.    *)
ComplianceChange ==
    /\ "compliance" \in AdminOps
    /\ \E a \in Accounts :
         \/ sanctioned' \in {sanctioned \cup {a}, sanctioned \ {a}} /\ UNCHANGED verified
         \/ verified' \in {verified \cup {a}, verified \ {a}} /\ UNCHANGED sanctioned
    /\ UNCHANGED <<noteVars, poolCfg, timelockVars>>

PoolOwner == SettlementAdmin \/ PoolSwitch \/ ComplianceChange

PoolUser ==
    \/ \E sender \in Accounts, note \in DepositNotes : PoolDeposit(sender, note)
    \/ \E sender \in Accounts, recipient \in Accounts, i \in DOMAIN leaves,
          amount \in WithdrawAmounts, newSalt \in Salts :
         withdraw(sender, recipient, leaves[i], amount, newSalt)

(* A settlement contract of unknown code, calling in any order.            *)
AnySettlement ==
    \E caller \in Settlements :
       \/ \E i \in DOMAIN leaves, amount \in WithdrawAmounts, newSalt \in Salts :
            withdrawFor(caller, leaves[i], amount, newSalt)
       \/ \E note \in DepositNotes : insertCommitment(caller, note)
       \/ \E nullifier \in Secrets \X Salts : spendEscrowNullifier(caller, nullifier)
       \/ \E t \in Tokens, amount \in WithdrawAmounts : poolTransfer(caller, t, amount)

poolAndClock == <<poolVars, now>>
PoolNext ==
    \/ (PoolUser \/ AnySettlement \/ PoolOwner) /\ UNCHANGED now
    \/ Tick /\ UNCHANGED poolVars

PoolStart == PoolInit /\ now = 1
PoolSpec == PoolStart /\ [][PoolNext]_poolAndClock

-----------------------------------------------------------------------------
(* Types of the pool's storage.                                            *)
PoolTypeOK ==
    /\ now \in Nat \ {0}
    /\ leaves \in Seq(Notes)
    /\ Len(leaves) <= Capacity
    /\ poolNullifiers \subseteq Secrets \X Salts
    /\ poolBal \in [Tokens -> Nat]
    /\ poolCfg \in PoolCfgs
    /\ authorizedSettlement \in Settlements \cup {None}
    /\ pendingSettlement \in [addr : Settlements \cup {None}, activateAt : Nat]
    /\ queued \in [addr : Settlements \cup {None}, at : Nat]
    /\ sanctioned \subseteq Accounts
    /\ verified \subseteq Accounts

(* The amounts of the notes of token t in ls whose nullifier is not in ns. *)
Live(ls, ns, t) ==
    [i \in {j \in DOMAIN ls : ls[j].token = t /\ EscrowNullifier(ls[j]) \notin ns}
       |-> ls[i].amount]
Liability(t) == Total(Live(leaves, poolNullifiers, t))

(* As long as no settlement contract is authorized, no step makes the      *)
(* pool's tokens fall behind its unspent notes: users can only take out    *)
(* what they burn, through any chain of deposits, partial withdrawals,     *)
(* change notes and reused salts.                                          *)
UsersTakeOnlyTheirNotes ==
    [][ authorizedSettlement = None =>
          \A t \in Tokens : poolBal[t] + Liability(t)' <= poolBal'[t] + Liability(t) ]_poolAndClock

(* A contract that may move the pool's tokens is either the first one, or  *)
(* it was the last one queued, a full timelock earlier.                    *)
SettlementChangeWasQueued ==
    [][ authorizedSettlement' # authorizedSettlement =>
          \/ authorizedSettlement = None
          \/ /\ queued.addr = authorizedSettlement'
             /\ now >= queued.at + SETTLEMENT_TIMELOCK ]_poolAndClock
=============================================================================
