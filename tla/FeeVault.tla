----------------------------- MODULE FeeVault -----------------------------
(***************************************************************************)
(* The vault that accumulates relayer fees and platform revenue            *)
(* (contracts/src/FeeVault.sol).  A depositor first transfers tokens and   *)
(* then asks for credit; the vault only compares its balance with its      *)
(* liabilities, so the two steps are separate actions here.                *)
(***************************************************************************)
EXTENDS Chain, Totals

CONSTANTS
    Relayers,               \* accounts that earn fees
    Depositors,             \* contracts that may be authorized to credit fees
    InitialDepositors,      \* those authorized when the behaviour starts
    DepositAmounts,         \* amounts transferred or credited in one call
    FeeRates,               \* platform fee rates the owner schedules, in bps
    InitialFeeBps,
    InitialTreasury,
    Delays,                 \* values the owner gives feeChangeDelay
    DEFAULT_FEE_CHANGE_DELAY,
    MAX_FEE_CHANGE_DELAY,
    MAX_PLATFORM_FEE,
    MaxVaultBalance         \* bound of the tokens one contract receives

ASSUME RelayersAssumption == IsFiniteSet(Relayers) /\ None \notin Relayers
ASSUME RolesAssumption == InitialDepositors \subseteq Depositors /\ InitialTreasury \in Accounts
ASSUME VaultAmountsAssumption == DepositAmounts \subseteq Nat
ASSUME FeeAssumption ==
    /\ MAX_PLATFORM_FEE \in 0 .. FEE_BPS_DENOMINATOR
    /\ FeeRates \subseteq Nat
    /\ InitialFeeBps \in 0 .. MAX_PLATFORM_FEE
ASSUME DelayAssumption ==
    /\ Delays \subseteq Nat
    /\ MAX_FEE_CHANGE_DELAY \in Nat
    /\ DEFAULT_FEE_CHANGE_DELAY \in 0 .. MAX_FEE_CHANGE_DELAY

VARIABLES
    vaultBal,               \* token -> balanceOf(vault)
    balances,               \* relayer -> token -> unclaimed fees
    totalTracked,           \* token -> sum of all relayer balances
    platformRevenue,        \* token -> revenue of DEX settlements
    authorizedDepositors,
    vaultWeth,              \* the vault's weth slot, or None
    treasury,               \* receives the platform's share
    platformFeeBps,
    pendingFee,             \* [bps, effectiveTime]; effectiveTime 0 = nothing pending
    feeChangeDelay,
    announced               \* history: [bps, at, delay] of the last scheduleFeeChange

ledgerVars == <<vaultBal, balances, totalTracked, platformRevenue>>
feeVars == <<platformFeeBps, pendingFee, feeChangeDelay, announced>>
rolesVars == <<authorizedDepositors, vaultWeth, treasury>>
vaultAdminVars == <<rolesVars, feeVars>>
vaultVars == <<ledgerVars, vaultAdminVars>>

NoPendingFee == [bps |-> 0, effectiveTime |-> 0]

(* initialize                                                              *)
VaultInit ==
    /\ vaultBal = Zero /\ totalTracked = Zero /\ platformRevenue = Zero
    /\ balances = [r \in Relayers |-> Zero]
    /\ authorizedDepositors = InitialDepositors
    /\ vaultWeth = None
    /\ treasury = InitialTreasury
    /\ platformFeeBps = InitialFeeBps
    /\ pendingFee = NoPendingFee
    /\ feeChangeDelay = DEFAULT_FEE_CHANGE_DELAY
    /\ announced = [bps |-> InitialFeeBps, at |-> 0, delay |-> 0]

-----------------------------------------------------------------------------
(* Mutants of the definitions below.                                       *)
BackedMutant(bal, tracked, revenue, t) == bal[t] >= tracked[t]
ReleasedMutant(balance) == balance - (balance * platformFeeBps) \div FEE_BPS_DENOMINATOR
FeeChangeReadyMutant == pendingFee.effectiveTime > 0
CreditMutant(tracked, t, n) == tracked
RateAllowedMutant(bps) == TRUE

-----------------------------------------------------------------------------
(* _assertBalanceBacked, on the state the caller would leave behind.       *)
Backed(bal, tracked, revenue, t) == bal[t] >= tracked[t] + revenue[t]

(* The liability counter after a credit of n.                              *)
Tracked(tracked, t, n) == Plus(tracked, t, n)
Credited(b, r, t, n) == [b EXCEPT ![r] = Plus(b[r], t, n)]

(* Someone transfers tokens to the vault, with or without a later credit.  *)
TransferToVault(t, n) ==
    /\ vaultBal[t] + n <= MaxVaultBalance
    /\ vaultBal' = Plus(vaultBal, t, n)
    /\ UNCHANGED <<balances, totalTracked, platformRevenue, vaultAdminVars, now>>

(* deposit; a zero amount returns early and changes nothing.               *)
deposit(d, r, t, n) ==
    /\ d \in authorizedDepositors
    /\ n > 0
    /\ Backed(vaultBal, Tracked(totalTracked, t, n), platformRevenue, t)
    /\ balances' = Credited(balances, r, t, n)
    /\ totalTracked' = Tracked(totalTracked, t, n)
    /\ UNCHANGED <<vaultBal, platformRevenue, vaultAdminVars, now>>

(* accrueDexFee and accrueDexSurplus share this body.                      *)
accruePlatformRevenue(d, t, n) ==
    /\ d \in authorizedDepositors
    /\ n > 0
    /\ Backed(vaultBal, totalTracked, Plus(platformRevenue, t, n), t)
    /\ platformRevenue' = Plus(platformRevenue, t, n)
    /\ UNCHANGED <<vaultBal, balances, totalTracked, vaultAdminVars, now>>

(* withdrawPlatformRevenue, by the treasury or the owner.                  *)
withdrawPlatformRevenue(t) ==
    /\ platformRevenue[t] > 0
    /\ vaultBal[t] >= platformRevenue[t]
    /\ vaultBal' = Minus(vaultBal, t, platformRevenue[t])
    /\ platformRevenue' = [platformRevenue EXCEPT ![t] = 0]
    /\ UNCHANGED <<balances, totalTracked, vaultAdminVars, now>>

(* The platform's share of a claim, and what a claim takes off the         *)
(* liability counter.                                                      *)
PlatformFee(balance) == (balance * platformFeeBps) \div FEE_BPS_DENOMINATOR
Released(balance) == balance

(* The common body of claim and claimAsEth: the balance is cleared, the    *)
(* platform's share goes to the treasury and the rest to the relayer.  The *)
(* counter is checked arithmetic and the transfers need the tokens.        *)
PayOut(r, t) ==
    LET balance == balances[r][t] IN
    /\ balance > 0
    /\ totalTracked[t] >= Released(balance)
    /\ vaultBal[t] >= balance
    /\ balances' = [balances EXCEPT ![r] = [@ EXCEPT ![t] = 0]]
    /\ totalTracked' = Minus(totalTracked, t, Released(balance))
    /\ vaultBal' = Minus(vaultBal, t, balance)
    /\ UNCHANGED <<platformRevenue, vaultAdminVars, now>>

claim(r, t) == PayOut(r, t)

(* Only the real WETH can be unwrapped, and the share of an account that   *)
(* rejects ETH reverts the whole claim.                                    *)
claimAsEth(r, t) ==
    /\ t = vaultWeth /\ t = weth
    /\ PlatformFee(balances[r][t]) > 0 => treasury \notin RejectsEth
    /\ PlatformFee(balances[r][t]) < balances[r][t] => r \notin RejectsEth
    /\ PayOut(r, t)

-----------------------------------------------------------------------------
(* Owner operations.                                                       *)
setAuthorizedDepositor(d, allowed) ==
    /\ authorizedDepositors' =
         IF allowed THEN authorizedDepositors \cup {d} ELSE authorizedDepositors \ {d}
    /\ UNCHANGED <<ledgerVars, vaultWeth, treasury, feeVars, now>>

setWeth(t) ==
    /\ vaultWeth' = t
    /\ UNCHANGED <<ledgerVars, authorizedDepositors, treasury, feeVars, now>>

setTreasury(a) ==
    /\ treasury' = a
    /\ UNCHANGED <<ledgerVars, authorizedDepositors, vaultWeth, feeVars, now>>

RateAllowed(bps) == bps <= MAX_PLATFORM_FEE

(* A new announcement replaces the pending one and restarts its delay.     *)
scheduleFeeChange(bps) ==
    /\ RateAllowed(bps)
    /\ pendingFee' = [bps |-> bps, effectiveTime |-> now + feeChangeDelay]
    /\ announced' = [bps |-> bps, at |-> now, delay |-> feeChangeDelay]
    /\ UNCHANGED <<ledgerVars, rolesVars, platformFeeBps, feeChangeDelay, now>>

setFeeChangeDelay(delay) ==
    /\ delay <= MAX_FEE_CHANGE_DELAY
    /\ feeChangeDelay' = delay
    /\ UNCHANGED <<ledgerVars, rolesVars, platformFeeBps, pendingFee, announced, now>>

FeeChangePending == pendingFee.effectiveTime # 0
FeeChangeReady == FeeChangePending /\ now >= pendingFee.effectiveTime

applyFeeChange ==
    /\ FeeChangeReady
    /\ platformFeeBps' = pendingFee.bps
    /\ pendingFee' = NoPendingFee
    /\ UNCHANGED <<ledgerVars, rolesVars, feeChangeDelay, announced, now>>

cancelFeeChange ==
    /\ FeeChangePending
    /\ pendingFee' = NoPendingFee
    /\ UNCHANGED <<ledgerVars, rolesVars, platformFeeBps, feeChangeDelay, announced, now>>

-----------------------------------------------------------------------------
RelayerClaims == \E r \in Relayers, t \in Tokens : claim(r, t) \/ claimAsEth(r, t)

OwnerOfVault ==
    \/ \E d \in Depositors, allowed \in BOOLEAN : setAuthorizedDepositor(d, allowed)
    \/ \E t \in Tokens \cup {None} : setWeth(t)
    \/ \E a \in Accounts : setTreasury(a)
    \/ \E bps \in FeeRates : scheduleFeeChange(bps)
    \/ \E delay \in Delays : setFeeChangeDelay(delay)
    \/ applyFeeChange
    \/ cancelFeeChange

VaultNext ==
    \/ \E t \in Tokens, n \in DepositAmounts : TransferToVault(t, n)
    \/ \E d \in Depositors, r \in Relayers, t \in Tokens, n \in DepositAmounts : deposit(d, r, t, n)
    \/ \E d \in Depositors, t \in Tokens, n \in DepositAmounts : accruePlatformRevenue(d, t, n)
    \/ \E t \in Tokens : withdrawPlatformRevenue(t)
    \/ RelayerClaims
    \/ OwnerOfVault
    \/ Tick /\ UNCHANGED vaultVars

vaultAndClock == <<vaultVars, now>>
VaultStart == VaultInit /\ now = 1
VaultSpec == VaultStart /\ [][VaultNext]_vaultAndClock

(* A relayer collects its fees sooner or later: claiming is in its own     *)
(* interest, is open to nobody else and is never blocked by the owner.     *)
VaultFairness == \A r \in Relayers, t \in Tokens : WF_vaultAndClock(claim(r, t))
VaultFairSpec == VaultSpec /\ VaultFairness

-----------------------------------------------------------------------------
(* Types of the vault's storage; the fee rate stays below its cap.         *)
VaultTypeOK ==
    /\ now \in Nat \ {0}
    /\ vaultBal \in [Tokens -> Nat]
    /\ balances \in [Relayers -> [Tokens -> Nat]]
    /\ totalTracked \in [Tokens -> Nat]
    /\ platformRevenue \in [Tokens -> Nat]
    /\ authorizedDepositors \subseteq Depositors
    /\ vaultWeth \in Tokens \cup {None}
    /\ treasury \in Accounts
    /\ platformFeeBps \in 0 .. MAX_PLATFORM_FEE
    /\ pendingFee \in [bps : 0 .. MAX_PLATFORM_FEE, effectiveTime : Nat]
    /\ feeChangeDelay \in 0 .. MAX_FEE_CHANGE_DELAY
    /\ announced \in [bps : 0 .. MAX_PLATFORM_FEE, at : Nat, delay : Nat]

(* The tokens in the vault cover what it owes to relayers and to the       *)
(* platform together, so neither can be paid with the other's money.       *)
VaultBacked == \A t \in Tokens : vaultBal[t] >= totalTracked[t] + platformRevenue[t]

(* totalTracked is the sum of the relayer balances after any mix of        *)
(* credits, claims and fee changes: subtracting a balance from it never    *)
(* underflows, which would block every later claim of that token.          *)
OwedTo(t) == Total([r \in Relayers |-> balances[r][t]])
TrackedIsSum == \A t \in Tokens : totalTracked[t] = OwedTo(t)

(* What is pending is the last announcement, not yet due before its delay. *)
PendingIsAnnounced ==
    FeeChangePending => /\ pendingFee.bps = announced.bps
                        /\ pendingFee.effectiveTime = announced.at + announced.delay

(* The fee rate only ever becomes the rate announced last, and only once   *)
(* the delay in force when it was announced has passed: relayers can claim *)
(* at the old rate until then, whatever the owner does to the delay,       *)
(* reschedules or cancels in between.                                      *)
FeeRateWasAnnounced ==
    [][ platformFeeBps' # platformFeeBps =>
          /\ platformFeeBps' = announced.bps
          /\ now >= announced.at + announced.delay ]_vaultAndClock

(* Every credited fee is eventually paid out: no sequence of credits,      *)
(* claims, revenue withdrawals and owner operations leaves a relayer with  *)
(* a balance whose claim reverts from then on.                             *)
FeesAreClaimed ==
    \A r \in Relayers, t \in Tokens : balances[r][t] > 0 ~> balances[r][t] = 0
=============================================================================
