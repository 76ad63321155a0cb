------------------------------ MODULE Treasury ------------------------------
(***************************************************************************)
(* The treasury (contracts/src/Treasury.sol).  Tokens arrive by plain      *)
(* transfers and reporters tag them as revenue afterwards; ETH is tagged   *)
(* by receive() unless it is forced in.  ETH is one more asset here.       *)
(***************************************************************************)
EXTENDS Chain

CONSTANTS
    Ether,              \* native ETH, beside the tokens
    Reporters,          \* contracts that may be allowed to tag revenue
    TreasuryAmounts,    \* amounts sent, tagged and withdrawn in one call
    MaxTreasury         \* bound of one balance

Assets == Tokens \cup {Ether}

ASSUME TreasuryAmountsAssumption == TreasuryAmounts \subseteq Nat

VARIABLES
    treasuryBal,    \* asset -> balance of the treasury
    attributed,     \* attributedERC20 and attributedETH
    beneficiary,    \* accounts that may be paid
    reporter,       \* contracts that may tag revenue
    treasuryPaused

treasuryVars == <<treasuryBal, attributed, beneficiary, reporter, treasuryPaused>>

(* initialize                                                              *)
TreasuryInit ==
    /\ treasuryBal = [a \in Assets |-> 0] /\ attributed = [a \in Assets |-> 0]
    /\ beneficiary = {} /\ reporter = {} /\ treasuryPaused = FALSE

-----------------------------------------------------------------------------
(* Mutants of the definitions below.                                       *)
RescuableMutant(a) == treasuryBal[a]

-----------------------------------------------------------------------------
(* A transfer; ETH sent by a call is tagged, ETH forced in is not.         *)
Receive(a, n, tagged) ==
    /\ treasuryBal[a] + n <= MaxTreasury
    /\ a # Ether => ~tagged
    /\ treasuryBal' = [treasuryBal EXCEPT ![a] = @ + n]
    /\ attributed' = IF tagged THEN [attributed EXCEPT ![a] = @ + n] ELSE attributed
    /\ UNCHANGED <<beneficiary, reporter, treasuryPaused>>

recordRevenue(r, t, n) ==
    /\ r \in reporter /\ t \in Tokens /\ n > 0
    /\ attributed[t] + n <= treasuryBal[t]
    /\ attributed' = [attributed EXCEPT ![t] = @ + n]
    /\ UNCHANGED <<treasuryBal, beneficiary, reporter, treasuryPaused>>

(* The guards withdraw, withdrawETH, rescue and rescueETH share.           *)
MayPay(to, a, n) ==
    /\ ~treasuryPaused /\ n > 0 /\ to \in beneficiary
    /\ a = Ether => to \notin RejectsEth

(* What stays tagged when n is withdrawn, and what a rescue may take.      *)
AttributedAfter(a, n) == IF attributed[a] > n THEN attributed[a] - n ELSE 0
Rescuable(a) == IF treasuryBal[a] > attributed[a] THEN treasuryBal[a] - attributed[a] ELSE 0

(* withdraw and withdrawETH                                                *)
withdrawTreasury(a, to, n) ==
    /\ MayPay(to, a, n) /\ n <= treasuryBal[a]
    /\ attributed' = [attributed EXCEPT ![a] = AttributedAfter(a, n)]
    /\ treasuryBal' = [treasuryBal EXCEPT ![a] = @ - n]
    /\ UNCHANGED <<beneficiary, reporter, treasuryPaused>>

(* rescue and rescueETH                                                    *)
rescue(a, to, n) ==
    /\ MayPay(to, a, n) /\ n <= Rescuable(a)
    /\ treasuryBal' = [treasuryBal EXCEPT ![a] = @ - n]
    /\ UNCHANGED <<attributed, beneficiary, reporter, treasuryPaused>>

setBeneficiary(addr, allowed) ==
    /\ beneficiary' = IF allowed THEN beneficiary \cup {addr} ELSE beneficiary \ {addr}
    /\ UNCHANGED <<treasuryBal, attributed, reporter, treasuryPaused>>

setReporter(addr, allowed) ==
    /\ reporter' = IF allowed THEN reporter \cup {addr} ELSE reporter \ {addr}
    /\ UNCHANGED <<treasuryBal, attributed, beneficiary, treasuryPaused>>

(* pause and unpause                                                       *)
SwitchPause ==
    /\ treasuryPaused' = ~treasuryPaused
    /\ UNCHANGED <<treasuryBal, attributed, beneficiary, reporter>>

TreasuryNext ==
    \/ \E a \in Assets, n \in TreasuryAmounts :
          \/ \E tagged \in BOOLEAN : Receive(a, n, tagged)
          \/ \E r \in Reporters : recordRevenue(r, a, n)
          \/ \E to \in Accounts : withdrawTreasury(a, to, n) \/ rescue(a, to, n)
    \/ \E allowed \in BOOLEAN :
          \/ \E x \in Accounts : setBeneficiary(x, allowed)
          \/ \E r \in Reporters : setReporter(r, allowed)
    \/ SwitchPause

TreasurySpec == TreasuryInit /\ [][TreasuryNext]_treasuryVars

-----------------------------------------------------------------------------
(* Types of the treasury's storage; the tag of a withdrawal larger than    *)
(* what is tagged stops at zero instead of underflowing.                   *)
TreasuryTypeOK ==
    /\ treasuryBal \in [Assets -> Nat] /\ attributed \in [Assets -> Nat]
    /\ beneficiary \subseteq Accounts /\ reporter \subseteq Reporters
    /\ treasuryPaused \in BOOLEAN

(* The treasury never has more on its books as revenue than it holds: the  *)
(* tag of tokens that were withdrawn or rescued would block every later    *)
(* recordRevenue and rescue.                                               *)
AttributedIsHeld == \A a \in Assets : attributed[a] <= treasuryBal[a]
=============================================================================
