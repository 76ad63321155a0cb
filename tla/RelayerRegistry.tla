-------------------------- MODULE RelayerRegistry --------------------------
(***************************************************************************)
(* The registry in which relayers stake a bond                             *)
(* (contracts/src/RelayerRegistry.sol).  The identity and the KYC registry *)
(* may answer anything at each call, so neither they nor the switches that *)
(* select them keep a relayer from a step; url, name, fee and the treasury *)
(* are only shown.                                                         *)
(***************************************************************************)
EXTENDS Chain, Totals

CONSTANTS
    Operators,          \* accounts that may become relayers
    Native,             \* ETH as a bond token, address(0) in the code
    BondAmounts,        \* what a caller stakes in one call
    MinBonds,           \* values the owner gives minBond
    Cooldowns,          \* values the owner tries to give exitCooldown
    DEFAULT_EXIT_COOLDOWN,
    MAX_EXIT_COOLDOWN,
    MaxBonds            \* bound of the bonds held in one token

BondTokens == Tokens \cup {Native}

ASSUME OperatorsAssumption == IsFiniteSet(Operators)
ASSUME BondAssumption == BondAmounts \cup MinBonds \cup Cooldowns \subseteq Nat
ASSUME CooldownAssumption ==
    MAX_EXIT_COOLDOWN \in Nat /\ DEFAULT_EXIT_COOLDOWN \in 0 .. MAX_EXIT_COOLDOWN

VARIABLES
    relayers,       \* operator -> [active, bond, bondToken, exitRequestedAt]
    registryBal,    \* token -> what the registry holds
    bondToken,      \* the token of new registrations
    minBond,
    exitCooldown

registryVars == <<relayers, registryBal, bondToken, minBond, exitCooldown>>
registryAll == <<registryVars, now>>

NoRelayer == [active |-> FALSE, bond |-> 0, bondToken |-> Native, exitRequestedAt |-> 0]

(* initialize.  reinitializeV2 belongs to the upgrade transaction of an    *)
(* older registry and leaves a state that registrations reach as well.     *)
RegistryInit ==
    /\ relayers = [o \in Operators |-> NoRelayer]
    /\ registryBal = [t \in BondTokens |-> 0]
    /\ bondToken \in BondTokens
    /\ minBond = 0
    /\ exitCooldown = DEFAULT_EXIT_COOLDOWN

-----------------------------------------------------------------------------
(* Mutants of the definitions below.                                       *)
PaidInMutant(o) == bondToken
RemovalTimeMutant(o) == now

-----------------------------------------------------------------------------
Seated(o) == relayers[o].active
Exiting(o) == relayers[o].active /\ relayers[o].exitRequestedAt # 0

(* _pullBond: what arrives is credited; a token may take a fee on the way. *)
PullBond(t, n, received) ==
    /\ received <= n /\ (t = Native => received = n)
    /\ registryBal[t] + received <= MaxBonds
    /\ registryBal' = [registryBal EXCEPT ![t] = @ + received]

register(o, n, received) ==
    /\ ~Seated(o)
    /\ PullBond(bondToken, n, received)
    /\ received >= minBond
    /\ relayers' = [relayers EXCEPT ![o] =
           [active |-> TRUE, bond |-> received, bondToken |-> bondToken, exitRequestedAt |-> 0]]
    /\ UNCHANGED <<bondToken, minBond, exitCooldown, now>>

(* The token a relayer's bond is paid in and out: the one it registered in.*)
PaidIn(o) == relayers[o].bondToken

addBond(o, n, received) ==
    /\ Seated(o)
    /\ PullBond(PaidIn(o), n, received)
    /\ received > 0
    /\ relayers' = [relayers EXCEPT ![o].bond = @ + received]
    /\ UNCHANGED <<bondToken, minBond, exitCooldown, now>>

(* Bound of the model: the clock still has room for the longest cooldown.  *)
RoomToExit == now + MAX_EXIT_COOLDOWN <= MaxTime

requestExit(o) ==
    /\ Seated(o) /\ ~Exiting(o) /\ RoomToExit
    /\ relayers' = [relayers EXCEPT ![o].exitRequestedAt = now]
    /\ UNCHANGED <<registryBal, bondToken, minBond, exitCooldown, now>>

(* executeExit with _pushBond: ETH is refused by some accounts.            *)
executeExit(o) ==
    LET r == relayers[o] IN
    /\ Exiting(o)
    /\ now >= r.exitRequestedAt + exitCooldown
    /\ registryBal[PaidIn(o)] >= r.bond
    /\ PaidIn(o) = Native /\ r.bond > 0 => o \notin RejectsEth
    /\ registryBal' = [registryBal EXCEPT ![PaidIn(o)] = @ - r.bond]
    /\ relayers' = [relayers EXCEPT ![o].active = FALSE, ![o].bond = 0]
    /\ UNCHANGED <<bondToken, minBond, exitCooldown, now>>

(* When the cooldown of a removed relayer began: a removal of one that is  *)
(* leaving already does not start it again.                                *)
RemovalTime(o) == IF Exiting(o) THEN relayers[o].exitRequestedAt ELSE now

adminRemoveRelayer(o) ==
    /\ Seated(o) /\ (Exiting(o) \/ RoomToExit)
    /\ relayers' = [relayers EXCEPT ![o].exitRequestedAt = RemovalTime(o)]
    /\ UNCHANGED <<registryBal, bondToken, minBond, exitCooldown, now>>

(* setBond; setBondToken and setMinBond are its cases in which the other   *)
(* value stays.                                                            *)
setBond(t, n) ==
    /\ bondToken' = t /\ minBond' = n
    /\ UNCHANGED <<relayers, registryBal, exitCooldown, now>>

CooldownAllowed(c) == c <= MAX_EXIT_COOLDOWN

setExitCooldown(c) ==
    /\ CooldownAllowed(c)
    /\ exitCooldown' = c
    /\ UNCHANGED <<relayers, registryBal, bondToken, minBond, now>>

RegistryNext ==
    \/ \E o \in Operators :
          \/ \E n \in BondAmounts \cup {0} : \E received \in 0 .. n :
                register(o, n, received) \/ addBond(o, n, received)
          \/ requestExit(o) \/ executeExit(o) \/ adminRemoveRelayer(o)
    \/ \E t \in BondTokens, n \in MinBonds : setBond(t, n)
    \/ \E c \in Cooldowns : setExitCooldown(c)
    \/ Tick /\ UNCHANGED registryVars

(* Time passes, and a relayer that is leaving asks for its bond.           *)
RegistryFairness ==
    /\ WF_registryAll(Tick /\ UNCHANGED registryVars)
    /\ \A o \in Operators : WF_registryAll(executeExit(o))

RegistrySpec == RegistryInit /\ now = 1 /\ [][RegistryNext]_registryAll /\ RegistryFairness

-----------------------------------------------------------------------------
(* Types of the registry's storage.                                        *)
RegistryTypeOK ==
    /\ relayers \in [Operators -> [active : BOOLEAN, bond : Nat, bondToken : BondTokens,
                                   exitRequestedAt : Nat]]
    /\ registryBal \in [BondTokens -> Nat]
    /\ bondToken \in BondTokens /\ minBond \in Nat
    /\ exitCooldown \in 0 .. MAX_EXIT_COOLDOWN

(* The registry holds exactly the bonds on its books, token by token: no   *)
(* switch of the bond token, top-up, fee on a transfer, exit or second     *)
(* registration pays a bond from another one, or leaves one behind.        *)
BondsExact ==
    \A t \in BondTokens :
        registryBal[t] = Total([o \in Operators |->
            IF Seated(o) /\ relayers[o].bondToken = t THEN relayers[o].bond ELSE 0])

(* A relayer that was removed or asked to leave stays out, with the        *)
(* cooldown it began with, until the registry has paid its whole bond.     *)
RemovalSticks ==
    [][\A o \in Operators : Exiting(o) =>
          \/ /\ relayers'[o].active
             /\ relayers'[o].exitRequestedAt = relayers[o].exitRequestedAt
             /\ relayers'[o].bond >= relayers[o].bond
          \/ /\ ~relayers'[o].active
             /\ registryBal'[relayers[o].bondToken] =
                    registryBal[relayers[o].bondToken] - relayers[o].bond]_registryAll

(* Whatever the owner sets meanwhile, a relayer that leaves gets its bond  *)
(* back, unless it refuses ETH.                                            *)
BondReturns ==
    \A o \in Operators \ RejectsEth : Exiting(o) ~> ~Seated(o)
=============================================================================
