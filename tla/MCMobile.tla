------------------------------ MODULE MCMobile ------------------------------
(***************************************************************************)
(* The mobile client: the life of one escrow beside a claim store that     *)
(* stands still, and the claim store beside an escrow that does.  A        *)
(* behaviour stays in the situation it starts in:                          *)
(*   calm    the relayer's answers arrive, what it gave up is not mined,   *)
(*           and the app stays open;                                       *)
(*   faults  answers are lost, late settlements are mined and the app is   *)
(*           closed, for a cancellation whose receipt holds its event;     *)
(*   store   one operation of the claim store at a time, from the legacy   *)
(*           store on, and the app is closed between any two writes;       *)
(*   overlap operations of the claim store overlap, and the app is closed  *)
(*           between any two writes; the legacy claims have been claimed   *)
(*           and removed.                                                  *)
(***************************************************************************)
EXTENDS MobileWallet, ClaimStore

VARIABLE situation

all == <<walletVars, claimVars, situation>>

Faults == INSTANCE MobileWallet WITH MaxAttempts <- MaxAttempts - 1, EventMissing <- {"deposit"}

(* The claim store after its migration and the removal of every claim.     *)
Emptied ==
    /\ secrets = {} /\ meta = {} /\ ids = <<>>
    /\ v1 = {} /\ migrated = TRUE
    /\ ready = FALSE /\ shown = <<>> /\ screen = NoClaim
    /\ ops = [s \in 1 .. MaxOps |-> NoOp]
    /\ claimed = Legacy /\ appended = {} /\ overwritten = {}
    /\ closings = MaxClosings

MCInit ==
    /\ WalletInit
    /\ \/ ClaimInit /\ situation \in {"calm", "faults", "store"}
       \/ Emptied /\ situation = "overlap"

OneAtATime == \A s \in DOMAIN ops \ {1} : ops'[s] = NoOp

MCNext ==
    /\ \/ situation = "calm" /\ WalletNext /\ UNCHANGED <<faults, claimVars>>
       \/ situation = "faults" /\ Faults!WalletNext /\ UNCHANGED claimVars
       \/ situation = "store" /\ ClaimNext /\ OneAtATime /\ UNCHANGED walletVars
       \/ situation = "overlap" /\ ClaimNext /\ UNCHANGED walletVars
    /\ UNCHANGED situation

(* The fairness of the wallet, in its situations.                          *)
InCalm(A) == situation = "calm" /\ A /\ UNCHANGED faults
InFaults(A) == situation = "faults" /\ A

MCFairness ==
    /\ WF_walletVars(InCalm(FlowStep)) /\ WF_walletVars(InCalm(PollStep))
    /\ WF_walletVars(InCalm(RelayerEnds("cancelled")))
    /\ \A v \in 0 .. MaxAttempts :
           WF_walletVars(InCalm(Mine(v))) /\ WF_walletVars(InCalm(SyncPromotes(v)))
    /\ WF_walletVars(InFaults(Faults!FlowStep))
    /\ \A v \in 0 .. MaxAttempts :
           WF_walletVars(InFaults(Faults!Mine(v))) /\ WF_walletVars(InFaults(Faults!SyncPromotes(v)))

MCSpec == MCInit /\ [][MCNext]_all /\ MCFairness

(* Change notes come to their end: no phantom lingers while the app stays  *)
(* open, and one whose leaf landed gets the index its proof needs.         *)
ChangeIsResolved ==
    /\ (situation = "calm") => PhantomGoes
    /\ (situation = "faults") => LandedNoteIsProvable
=============================================================================
