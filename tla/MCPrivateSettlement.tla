------------------------ MODULE MCPrivateSettlement ------------------------
(***************************************************************************)
(* Instances of the settlement system: two users, two tokens, one or two   *)
(* relayers, and the orders of each run.                                   *)
(***************************************************************************)
EXTENDS PrivateSettlement

CONSTANTS alice, bob, A, B, r1, r2, dex, recip

Note(secret, token, amount, salt) ==
    [secret |-> secret, token |-> token, amount |-> amount, salt |-> salt]
Leaf(secret, amount, releaseTime) ==
    [secret |-> secret, recipient |-> recip, amount |-> amount, releaseTime |-> releaseTime]
Order(secret, sell, buy, sellAmount, buyAmount, maxFee, claims, relayer, nonce) ==
    [secret |-> secret, sellToken |-> sell, buyToken |-> buy, sellAmount |-> sellAmount,
     buyAmount |-> buyAmount, maxFee |-> maxFee, expiry |-> 2, nonce |-> nonce,
     claims |-> claims, relayer |-> relayer, tier |-> 16]

(* Alice sells A for B, Bob sells B for A; the fee comes off what is       *)
(* received, and Bob leaves no room for one.  Both sign a claims leaf with *)
(* the same secret and position.                                           *)
AliceSells == Order(alice, A, B, 2, 2, 5000, <<Leaf(alice, 1, 1)>>, r1, 1)
BobSells == Order(bob, B, A, 2, 2, 5000, <<Leaf(alice, 1, 1), Leaf(bob, 1, 1)>>, r2, 1)
AliceScatters == Order(alice, A, A, 3, 3, 5000, <<Leaf(alice, 1, 1), Leaf(bob, 1, 2)>>, r1, 2)
AliceSwaps == Order(alice, A, B, 2, 1, 0, <<Leaf(alice, 1, 1)>>, r1, 2)

FlowNotes == {Note(alice, A, 3, 1), Note(bob, B, 2, 1)}
FlowOrders == {AliceSells, BobSells, AliceScatters}
PairOrders == {AliceSells, BobSells}
AllOrders == FlowOrders \cup {AliceSwaps}
DexNotes == {Note(alice, A, 3, 1)}
DexOrders == {AliceSwaps}
ScatterOrders == {AliceScatters}

(* Bob signs two orders without claims: all he buys may go to the fee.     *)
OneSidedNotes ==
    {Note(alice, A, 2, salt) : salt \in {1, 2}} \cup {Note(bob, B, 2, salt) : salt \in {1, 2}}
BobTips(nonce) == Order(bob, B, A, 2, 2, 10000, << >>, r2, nonce)
AliceSellsAgain == Order(alice, A, B, 2, 2, 5000, <<Leaf(alice, 1, 2)>>, r1, 2)
OneSidedOrders == {BobTips(1), BobTips(2), AliceSells, AliceSellsAgain}

PoolNotes == {Note(alice, A, 1, 1), Note(alice, A, 3, 1), Note(bob, A, 2, 2)}

DeployedPool == [paused |-> FALSE, whitelistedTokens |-> {A, B},
                 sanctionsList |-> FALSE, identityGate |-> FALSE]
ScreenedPool == [DeployedPool EXCEPT !.sanctionsList = TRUE]
Deployed ==
    [paused |-> FALSE, whitelistedTokens |-> {A, B}, authorizeTiers |-> {16}, batchTiers |-> {},
     claimTiers |-> {16}, cancelVerifier |-> TRUE, routers |-> {dex}, feeVault |-> TRUE,
     dexPlatformFeeBps |-> 0, sanctionsList |-> FALSE, identityGate |-> FALSE,
     relayerRegistry |-> FALSE]
Screened == [Deployed EXCEPT !.sanctionsList = TRUE]

-----------------------------------------------------------------------------
(* The situations a run explores, each an instance of the specification    *)
(* with notes, orders and owner operations of its own.  They share the     *)
(* variables, and a behaviour stays in the situation it starts in.         *)
CONSTANT Situations
VARIABLE situation

(* Everything users and relayers do, with an owner who does nothing.       *)
Flow == INSTANCE PrivateSettlement WITH
    Orders <- FlowOrders, DepositNotes <- FlowNotes, AdminOps <- {}, Routers <- {},
    MaxTime <- 2

(* Swaps through a router while the owner rewires the vault and the fee.   *)
Dex == INSTANCE PrivateSettlement WITH
    Orders <- DexOrders, DepositNotes <- DexNotes, AdminOps <- {"vault", "vaultOwner"},
    Capacity <- 3, MaxTime <- 1

(* The owner pauses, and reconfigures while everything is paused.          *)
Pause == INSTANCE PrivateSettlement WITH
    Orders <- ScatterOrders, DepositNotes <- DexNotes, WithdrawAmounts <- {3},
    AdminOps <- {"pause", "whitelist", "verifiers"}, Nonces <- {2}, Fees <- {1}, Routers <- {}, Capacity <- 2,
    MaxTime <- 2

(* The pool is handed to a successor while claims are open.                *)
Migration == INSTANCE PrivateSettlement WITH
    Orders <- PairOrders, DepositNotes <- FlowNotes, WithdrawAmounts <- {},
    AdminOps <- {"settlement"}, Fees <- {0}, Routers <- {}

(* Accounts are listed and verified, relayers come and go.                 *)
Compliance == INSTANCE PrivateSettlement WITH
    Orders <- ScatterOrders, DepositNotes <- DexNotes, Salts <- {1},
    Relayers <- {r1}, Accounts <- {r1, recip}, AdminOps <- {"compliance", "registry"},
    Fees <- {1}, Nonces <- {2}, Routers <- {}, Capacity <- 1

(* "given" is the specification with the constants of the run itself.      *)

(* The pool with a settlement contract of unknown code, or none yet; a     *)
(* reused salt makes two notes share a nullifier.                          *)
Pool == INSTANCE CommitmentPool WITH
    DepositNotes <- PoolNotes, WithdrawAmounts <- {1, 2}, Accounts <- {recip},
    InitialSettlement <- None, InitialPoolCfg <- ScreenedPool,
    AdminOps <- {"settlement"}, Capacity <- 2

MCInit ==
    /\ situation \in Situations
    /\ \/ situation = "given" /\ Init
       \/ situation = "flow" /\ Flow!Init
       \/ situation = "dex" /\ Dex!Init
       \/ situation = "pause" /\ Pause!Init
       \/ situation = "migration" /\ Migration!Init
       \/ situation = "compliance" /\ Compliance!Init
       \/ /\ situation = "pool" /\ Pool!PoolStart /\ VaultInit
          /\ cfg = Deployed /\ activeRelayers = Relayers
          /\ nullifiers = {} /\ nonceNullifiers = {} /\ claimNullifiers = {}
          /\ groups = << >> /\ settleBal = Zero

MCNext ==
    /\ \/ situation = "given" /\ Next
       \/ situation = "flow" /\ Flow!Next
       \/ situation = "dex" /\ Dex!Next
       \/ situation = "pause" /\ Pause!Next
       \/ situation = "migration" /\ Migration!Next
       \/ situation = "compliance" /\ Compliance!Next
       \/ situation = "pool" /\ Pool!PoolNext /\ UNCHANGED <<settlementVars, vaultVars>>
    /\ UNCHANGED situation

MCSpec == MCInit /\ [][MCNext]_<<vars, situation>>
MCFairSpec ==
    /\ MCSpec
    /\ CollectEveryClaim
    /\ WF_vars(Tick /\ UNCHANGED <<settlementVars, poolVars, vaultVars>>)
=============================================================================
