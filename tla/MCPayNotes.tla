----------------------------- MODULE MCPayNotes -----------------------------
(***************************************************************************)
(* The notes of the web applications: the vault that stores them, and the  *)
(* deposits of the Pay application that make them.  Each is explored       *)
(* beside the other standing still; a behaviour stays in the situation it  *)
(* starts in.  The vault:                                                  *)
(*   calm     two notes, no switch, no reload, every deletion succeeds;    *)
(*   reload   two notes, one deletion that fails and one reload;           *)
(*   faults   one note in an application that offers a deposit before the  *)
(*            vault is loaded, after a switch of account and with more.    *)
(* The deposits:                                                           *)
(*   retry    one account tries three times, double clicks, cancels and    *)
(*            reloads; a transaction the node forgot is gone;              *)
(*   phantom  two attempts, reorganisations and reads that fail, with the  *)
(*            detector of reverted deposits at work;                       *)
(*   cancel   two attempts, cancelled or overtaken by a switch of account  *)
(*            at any moment; a forgotten transaction may still be mined.   *)
(***************************************************************************)
EXTENDS NoteVault, DepositGuard

CONSTANTS
    onlyNote,       \* the note of the situation with one
    onlyAccount     \* the account of the situations without a switch

VARIABLE situation

all == <<vaultVars, guardVars, situation>>

Hasty == INSTANCE NoteVault WITH WaitsForLoad <- FALSE
Retry == INSTANCE DepositGuard WITH MaxHead <- MaxHead - 1
Cancelling == INSTANCE DepositGuard WITH MaxHead <- MaxHead - 2, MayReturn <- TRUE

VaultStart ==
    \/ VaultInit /\ situation \in {"calm", "reload"}
    \/ /\ Opened /\ situation = "faults"
       /\ faults = Faults(MaxVaultSwitches - 1, MaxFailures, MaxCrashes)

DepositStart ==
    \/ GuardInit /\ account = onlyAccount /\ situation \in {"retry", "phantom"}
    \/ /\ Started /\ situation = "cancel"
       /\ budget = Bounds(0, MaxSwitches, MaxReloads, MaxErrors)

MCInit ==
    \/ VaultStart /\ GuardInit /\ account = onlyAccount
    \/ DepositStart /\ VaultInit

(* The last attempt is not made.                                           *)
OneLess == flow'[MaxAttempts].pc = "new"

VaultSituations ==
    \/ situation = "calm" /\ VaultNext /\ UNCHANGED faults
    \/ situation = "reload" /\ VaultNext /\ SameAccount'
    \/ situation = "faults" /\ Hasty!VaultNext /\ \A id \in Ids \ {onlyNote} : fate'[id] = "none"

DepositSituations ==
    \/ situation = "retry" /\ Retry!GuardNext /\ budget' = [budget EXCEPT !.reloads = budget'.reloads]
    \/ /\ situation = "phantom" /\ GuardNext /\ OneLess
       /\ NeverSwitched' /\ budget'.reloads = MaxReloads
    \/ situation = "cancel" /\ Cancelling!GuardNext /\ OneLess /\ NothingFailed'

MCNext ==
    /\ \/ VaultSituations /\ UNCHANGED guardVars
       \/ DepositSituations /\ UNCHANGED vaultVars
    /\ UNCHANGED situation

MCSpec == MCInit /\ [][MCNext]_all
=============================================================================
