-------------------------- MODULE PrivateSettlement --------------------------
(***************************************************************************)
(* The settlement contract (contracts/src/zk/PrivateSettlement.sol and     *)
(* SettleVerifyLib.sol) together with the pool it pulls tokens from and    *)
(* the vault it pays fees to.  One transaction is one step: it burns notes *)
(* in the pool, moves tokens, credits fees and registers claims groups, or *)
(* reverts as a whole.                                                     *)
(*                                                                         *)
(* A valid Groth16 proof is modelled by the witness it proves knowledge    *)
(* of: an order the user signed, a note it is paid from and the salt of    *)
(* the residual note.  Relayers may hold any number of such proofs and     *)
(* submit them at any time, in any pairing.                                *)
(***************************************************************************)
EXTENDS CommitmentPool, FeeVault

CONSTANTS
    Self,                   \* the address of this settlement contract
    Orders,                 \* the orders users sign, see OrderTypes
    Tiers,                  \* circuit sizes
    Nonces,
    Fees,                   \* the fees relayers charge, in token units
    Routers,                \* DEX routers
    DexOutputs,             \* the amounts a router may deliver
    DexFees,                \* platform fee rates for DEX settlements, in bps
    MAX_DEX_PLATFORM_FEE_BPS,
    MAX_CLAIM_BATCH_SIZE,
    InitialCfg              \* the switches when the behaviour starts

(* A claims leaf names who is paid what and when; a group of leaves is     *)
(* committed to by its root, which ideal hashing makes the group itself.   *)
ClaimLeaves == [secret : Secrets, recipient : Accounts, amount : Nat, releaseTime : Nat]
ClaimsRoots == [tier : Tiers, token : Tokens \cup {None}, leaves : Seq(ClaimLeaves)]
OrderTypes ==
    [secret : Secrets, sellToken : Tokens, buyToken : Tokens, sellAmount : Nat,
     buyAmount : Nat, maxFee : 0 .. FEE_BPS_DENOMINATOR, expiry : Nat, nonce : Nonces,
     claims : Seq(ClaimLeaves), relayer : Relayers, tier : Tiers]
Cfgs ==
    [paused : BOOLEAN, whitelistedTokens : SUBSET Tokens, authorizeTiers : SUBSET Tiers,
     batchTiers : SUBSET Tiers, claimTiers : SUBSET Tiers, cancelVerifier : BOOLEAN,
     routers : SUBSET Routers, feeVault : BOOLEAN, dexPlatformFeeBps : Nat,
     sanctionsList : BOOLEAN, identityGate : BOOLEAN, relayerRegistry : BOOLEAN]

ASSUME SelfAssumption == Self \in Settlements /\ Self \in Depositors
ASSUME OrdersAssumption == Orders \subseteq OrderTypes
ASSUME FeesAssumption == Fees \subseteq Nat /\ DexOutputs \subseteq Nat /\ DexFees \subseteq Nat
ASSUME DexFeeCapAssumption == MAX_DEX_PLATFORM_FEE_BPS \in 0 .. FEE_BPS_DENOMINATOR
ASSUME RelayerAccountsAssumption == Relayers \subseteq Accounts
ASSUME CfgAssumption ==
    /\ InitialCfg \in Cfgs
    /\ InitialCfg.dexPlatformFeeBps <= MAX_DEX_PLATFORM_FEE_BPS
    /\ InitialCfg.dexPlatformFeeBps > 0 => InitialCfg.feeVault

VARIABLES
    nullifiers,             \* escrow nullifiers this contract has seen
    nonceNullifiers,        \* order nonces that were settled or cancelled
    claimNullifiers,        \* claims that were paid
    groups,                 \* claimsRoot -> [token, tier, totalLocked, totalClaimed]
    settleBal,              \* token -> balanceOf(settlement)
    cfg,                    \* the contract's switches, see Cfgs
    activeRelayers          \* RelayerRegistry: who isActiveRelayer

orderVars == <<nullifiers, nonceNullifiers>>
claimVars == <<claimNullifiers, groups, settleBal>>
settlementVars == <<orderVars, claimVars, cfg, activeRelayers>>
vars == <<poolVars, vaultVars, settlementVars, now>>

Init ==
    /\ PoolInit /\ VaultInit /\ now = 1
    /\ nullifiers = {} /\ nonceNullifiers = {} /\ claimNullifiers = {}
    /\ groups = << >>
    /\ settleBal = Zero
    /\ cfg = InitialCfg
    /\ activeRelayers = Relayers

-----------------------------------------------------------------------------
(* Orders, claims groups and the authorize circuit.                        *)

(* Mutants of the definitions below.                                       *)
SpentInPoolMutant(sides) == {}
CapMutant(locked, fee, cap) == locked <= cap
SurplusMutant(amountOut, locked) == amountOut
PaidForMutant(C, root) == 0
CountsGroupMutant(C, root) ==
    IF {c \in C : c[1] = root} = {} THEN 0 ELSE groups[root].totalLocked

NonceNullifier(secret, nonce) == <<secret, nonce>>

(* totalLocked is the sum over the claims; the circuit forces it.          *)
Locked(claims) == Total([i \in DOMAIN claims |-> claims[i].amount])

(* An empty tree hashes to the same root whatever the order buys.          *)
ClaimsRoot(order) ==
    [tier |-> order.tier,
     token |-> IF order.claims = << >> THEN None ELSE order.buyToken,
     leaves |-> order.claims]

(* A claim is a group's root and a leaf index.  The nullifier binds both,  *)
(* so equal leaves of two groups do not block each other.                  *)
ClaimNullifier(c) == <<c[1].leaves[c[2]].secret, c[2], c[1]>>
ClaimLeaf(c) == c[1].leaves[c[2]]
ClaimsIn(gs) == UNION {{root} \X DOMAIN root.leaves : root \in DOMAIN gs}

(* authorize.circom: ownership and membership of the note, a sufficient    *)
(* balance, and at least the signed minimum distributed to the claims.     *)
Authorizes(order, note) ==
    /\ note.secret = order.secret
    /\ note.token = order.sellToken
    /\ ProvesMembership(note)
    /\ order.sellAmount <= note.amount
    /\ Locked(order.claims) * FEE_BPS_DENOMINATOR
         >= order.buyAmount * (FEE_BPS_DENOMINATOR - order.maxFee)

(* The proofs the verifier accepts: an order, the note it is paid from and *)
(* the salt of the residual note.                                          *)
Proofs ==
    {p \in [order : Orders, note : {leaves[i] : i \in DOMAIN leaves}, newSalt : Salts] :
       Authorizes(p.order, p.note)}

Residual(side) == Change(side.note, side.order.sellAmount, side.newSalt)
Nullifier(side) == EscrowNullifier(side.note)
Nonce(side) == NonceNullifier(side.order.secret, side.order.nonce)

(* _requireNotSanctioned and _requireIdentityVerified.                     *)
NotSanctioned(account) == cfg.sanctionsList => account \notin sanctioned
IdentityVerified(account) == cfg.identityGate => account \in verified
Active(relayer) == cfg.relayerRegistry => relayer \in activeRelayers

-----------------------------------------------------------------------------
(* Steps shared by the settlement paths.                                   *)

(* No nullifier of the side is marked, here or in the pool.                *)
Unspent(side) ==
    /\ Nullifier(side) \notin nullifiers
    /\ Nonce(side) \notin nonceNullifiers
    /\ ~Spent(Nullifier(side))

(* Mark the nullifiers here and in the pool; insert the residual notes.    *)
SpentInPool(sides) == {Nullifier(s) : s \in sides}
Burn(sides, residuals) ==
    /\ FromSettlement(Self)
    /\ nullifiers' = nullifiers \cup {Nullifier(s) : s \in sides}
    /\ nonceNullifiers' = nonceNullifiers \cup {Nonce(s) : s \in sides}
    /\ poolNullifiers' = poolNullifiers \cup SpentInPool(sides)
    /\ HasRoomFor(residuals)
    /\ leaves' = Appended(residuals)

(* registerClaimsGroup, which reverts when the root is taken.              *)
NewGroup(order) ==
    [token |-> order.buyToken, tier |-> order.tier,
     totalLocked |-> Locked(order.claims), totalClaimed |-> 0]
CanRegister(gs, order) == ClaimsRoot(order) \notin DOMAIN gs
Registered(gs, order) ==
    [root \in DOMAIN gs \cup {ClaimsRoot(order)} |->
       IF root = ClaimsRoot(order) THEN NewGroup(order) ELSE gs[root]]

(* Taking out[t] of every token t off a contract's balance.                *)
Covers(bal, out) == \A t \in Tokens : out[t] <= bal[t]
Less(bal, out) == [t \in Tokens |-> bal[t] - out[t]]

(* _routeFeeFromPoolTo for two fees, which have left the pool: into the    *)
(* vault and credited there, or straight to the relayers.                  *)
RouteFees(r1, t1, fee1, r2, t2, fee2) ==
    IF cfg.feeVault
    THEN /\ fee1 + fee2 > 0 => Self \in authorizedDepositors
         /\ vaultBal' = Plus(Plus(vaultBal, t1, fee1), t2, fee2)
         /\ totalTracked' = Tracked(Tracked(totalTracked, t1, fee1), t2, fee2)
         /\ balances' = Credited(Credited(balances, r1, t1, fee1), r2, t2, fee2)
         /\ fee1 > 0 => Backed(vaultBal', totalTracked', platformRevenue, t1)
         /\ fee2 > 0 => Backed(vaultBal', totalTracked', platformRevenue, t2)
         /\ UNCHANGED <<platformRevenue, vaultAdminVars>>
    ELSE UNCHANGED vaultVars

(* accrueDexFee and accrueDexSurplus, after the tokens were transferred.   *)
AccrueRevenue(t1, fee, t2, surplus) ==
    IF cfg.feeVault
    THEN /\ fee + surplus > 0 => Self \in authorizedDepositors
         /\ vaultBal' = Plus(Plus(vaultBal, t1, fee), t2, surplus)
         /\ platformRevenue' = Plus(Plus(platformRevenue, t1, fee), t2, surplus)
         /\ fee > 0 => Backed(vaultBal', totalTracked, platformRevenue', t1)
         /\ surplus > 0 => Backed(vaultBal', totalTracked, platformRevenue', t2)
         /\ UNCHANGED <<balances, totalTracked, vaultAdminVars>>
    ELSE UNCHANGED vaultVars

-----------------------------------------------------------------------------
Open == ~cfg.paused

(* Claims and fee of one side come out of what the other side sells.       *)
WithinCap(locked, fee, cap) == locked + fee <= cap
WithinMaxFee(fee, base, maxFee) == fee * FEE_BPS_DENOMINATOR <= base * maxFee

(* validateCrossSide                                                       *)
CrossSideValid(m, t, feeMaker, feeTaker) ==
    /\ m.sellAmount > 0 /\ t.sellAmount > 0 /\ m.buyAmount > 0 /\ t.buyAmount > 0
    /\ {m.sellToken, t.sellToken} \subseteq cfg.whitelistedTokens
    /\ m.sellToken = t.buyToken /\ t.sellToken = m.buyToken
    /\ m.buyAmount * t.buyAmount <= m.sellAmount * t.sellAmount
    /\ WithinCap(Locked(m.claims), feeMaker, t.sellAmount)
    /\ WithinCap(Locked(t.claims), feeTaker, m.sellAmount)
    /\ WithinMaxFee(feeMaker, m.buyAmount, m.maxFee)
    /\ WithinMaxFee(feeTaker, t.buyAmount, t.maxFee)
    /\ now <= m.expiry /\ now <= t.expiry

(* Everything settleAuth checks before it registers the claims groups.     *)
SettleAuthChecks(sender, maker, taker, feeMaker, feeTaker) ==
    /\ Open
    /\ sender \in {maker.order.relayer, taker.order.relayer}
    /\ NotSanctioned(sender)
    /\ {maker.order.tier, taker.order.tier} \subseteq cfg.authorizeTiers
    /\ CrossSideValid(maker.order, taker.order, feeMaker, feeTaker)
    /\ Nullifier(maker) # Nullifier(taker) /\ Nonce(maker) # Nonce(taker)
    /\ Unspent(maker) /\ Unspent(taker)
    /\ Active(maker.order.relayer) /\ Active(taker.order.relayer)

(* What leaves the pool: each side's claims and the fee of its relayer, in *)
(* the token the side buys.                                                *)
SettleOut(m, t, feeMaker, feeTaker) ==
    Plus(Plus(Zero, m.buyToken, Locked(m.claims) + feeMaker),
         t.buyToken, Locked(t.claims) + feeTaker)

settleAuth(sender, maker, taker, feeMaker, feeTaker) ==
    LET m == maker.order
        t == taker.order
        out == SettleOut(m, t, feeMaker, feeTaker)
    IN
    /\ SettleAuthChecks(sender, maker, taker, feeMaker, feeTaker)
    /\ Burn({maker, taker}, Residual(maker) \o Residual(taker))
    /\ Covers(poolBal, out)
    /\ poolBal' = Less(poolBal, out)
    /\ settleBal' = Plus(Plus(settleBal, m.buyToken, Locked(m.claims)),
                         t.buyToken, Locked(t.claims))
    /\ RouteFees(m.relayer, m.buyToken, feeMaker, t.relayer, t.buyToken, feeTaker)
    /\ CanRegister(groups, m) /\ CanRegister(Registered(groups, m), t)
    /\ groups' = Registered(Registered(groups, m), t)
    /\ UNCHANGED <<claimNullifiers, cfg, activeRelayers, poolAdminVars, now>>

(* scatterDirectAuth: one side, one token, the fee goes to the sender.     *)
scatterDirectAuth(sender, side, fee) ==
    LET o == side.order IN
    /\ Open
    /\ o.tier \in cfg.authorizeTiers
    /\ NotSanctioned(sender)
    /\ sender = o.relayer
    /\ o.sellToken = o.buyToken
    /\ o.sellToken \in cfg.whitelistedTokens
    /\ o.sellAmount > 0 /\ o.buyAmount > 0
    /\ WithinMaxFee(fee, o.sellAmount, o.maxFee)
    /\ WithinCap(Locked(o.claims), fee, o.sellAmount)
    /\ now <= o.expiry
    /\ Active(o.relayer)
    /\ Unspent(side)
    /\ Burn({side}, Residual(side))
    /\ poolBal[o.sellToken] >= Locked(o.claims) + fee
    /\ poolBal' = Minus(poolBal, o.sellToken, Locked(o.claims) + fee)
    /\ settleBal' = Plus(settleBal, o.sellToken, Locked(o.claims))
    /\ RouteFees(sender, o.sellToken, fee, sender, o.sellToken, 0)
    /\ CanRegister(groups, o)
    /\ groups' = Registered(groups, o)
    /\ UNCHANGED <<claimNullifiers, cfg, activeRelayers, poolAdminVars, now>>

(* settleWithDex: the pool's tokens are swapped by a whitelisted router,   *)
(* which spends at most its allowance and delivers some output.  What it   *)
(* leaves unspent goes back to the pool; the surplus goes to the vault, or *)
(* stays here when there is none.  No relayer registry check.              *)
DexFee(sellAmount) == (sellAmount * cfg.dexPlatformFeeBps) \div FEE_BPS_DENOMINATOR
ToVault(amount) == IF cfg.feeVault THEN amount ELSE 0
Returned(sellAmount, fee, spent) == sellAmount - fee - spent
Surplus(amountOut, locked) == amountOut - locked

settleWithDex(sender, side, router, spent, amountOut) ==
    LET o == side.order
        platformFee == DexFee(o.sellAmount)
        surplus == Surplus(amountOut, Locked(o.claims))
    IN
    /\ Open
    /\ NotSanctioned(sender)
    /\ o.tier \in cfg.authorizeTiers
    /\ router \in cfg.routers
    /\ sender = o.relayer
    /\ o.sellToken # o.buyToken
    /\ {o.sellToken, o.buyToken} \subseteq cfg.whitelistedTokens
    /\ o.sellAmount > 0
    /\ now <= o.expiry
    /\ Unspent(side)
    /\ Burn({side}, Residual(side))
    /\ poolBal[o.sellToken] >= o.sellAmount
    /\ spent <= o.sellAmount - platformFee
    /\ amountOut >= Locked(o.claims)
    /\ poolBal' = Plus(Minus(poolBal, o.sellToken, o.sellAmount),
                       o.sellToken, Returned(o.sellAmount, ToVault(platformFee), spent))
    /\ settleBal' = Plus(settleBal, o.buyToken, amountOut - ToVault(surplus))
    /\ AccrueRevenue(o.sellToken, platformFee, o.buyToken, surplus)
    /\ CanRegister(groups, o)
    /\ groups' = Registered(groups, o)
    /\ UNCHANGED <<claimNullifiers, cfg, activeRelayers, poolAdminVars, now>>

(* cancelPrivate: the note is rotated to a fresh salt and the order nonce  *)
(* burned.  The circuit signs the nonce and the submitter, nothing else.   *)
cancelPrivate(note, nonce, freshSalt) ==
    /\ Open
    /\ cfg.cancelVerifier
    /\ EscrowNullifier(note) \notin nullifiers
    /\ NonceNullifier(note.secret, nonce) \notin nonceNullifiers
    /\ ProvesMembership(note)
    /\ FromSettlement(Self)
    /\ ~Spent(EscrowNullifier(note))
    /\ HasRoomFor(<<note>>)
    /\ nullifiers' = nullifiers \cup {EscrowNullifier(note)}
    /\ nonceNullifiers' = nonceNullifiers \cup {NonceNullifier(note.secret, nonce)}
    /\ poolNullifiers' = poolNullifiers \cup {EscrowNullifier(note)}
    /\ leaves' = Appended(<<[note EXCEPT !.salt = freshSalt]>>)
    /\ UNCHANGED <<poolBal, poolAdminVars, vaultVars, claimVars, cfg, activeRelayers, now>>

(* claimWithProof and claimWithProofBatch: _executeClaim for every claim   *)
(* of the batch C, all or nothing.  The checks of a later claim see the    *)
(* effects of the earlier ones.                                            *)
AmountOf(C) == [c \in C |-> ClaimLeaf(c).amount]
PaidFor(C, root) == Total(AmountOf({c \in C : c[1] = root}))
ClaimedIn(C, t) == Total(AmountOf({c \in C : groups[c[1]].token = t}))
BatchAllowed(C) == Cardinality(C) \in 1 .. MAX_CLAIM_BATCH_SIZE

executeClaims(C) ==
    /\ Open
    /\ BatchAllowed(C)
    /\ \A c \in C :
         /\ NotSanctioned(ClaimLeaf(c).recipient) /\ IdentityVerified(ClaimLeaf(c).recipient)
         /\ ClaimNullifier(c) \notin claimNullifiers
         /\ \A d \in C \ {c} : ClaimNullifier(d) # ClaimNullifier(c)
         /\ now >= ClaimLeaf(c).releaseTime
         /\ groups[c[1]].tier \in cfg.claimTiers
         /\ AcceptsPayout(ClaimLeaf(c).recipient, groups[c[1]].token)
    /\ \A root \in DOMAIN groups :
         groups[root].totalClaimed + PaidFor(C, root) <= groups[root].totalLocked
    /\ \A t \in Tokens : ClaimedIn(C, t) <= settleBal[t]
    /\ claimNullifiers' = claimNullifiers \cup {ClaimNullifier(c) : c \in C}
    /\ groups' = [root \in DOMAIN groups |->
                    [groups[root] EXCEPT !.totalClaimed = @ + PaidFor(C, root)]]
    /\ settleBal' = [t \in Tokens |-> settleBal[t] - ClaimedIn(C, t)]
    /\ UNCHANGED <<orderVars, cfg, activeRelayers, poolVars, vaultVars, now>>

-----------------------------------------------------------------------------
(* Owner operations.                                                       *)
With(set, x, b) == IF b THEN set \cup {x} ELSE set \ {x}

pause == ~cfg.paused /\ cfg' = [cfg EXCEPT !.paused = TRUE]
unpause == cfg.paused /\ cfg' = [cfg EXCEPT !.paused = FALSE]
setTokenWhitelist(t, b) == cfg' = [cfg EXCEPT !.whitelistedTokens = With(@, t, b)]
setAuthorizeVerifier(tier, b) == cfg' = [cfg EXCEPT !.authorizeTiers = With(@, tier, b)]
setBatchAuthorizeVerifier(tier, b) == cfg' = [cfg EXCEPT !.batchTiers = With(@, tier, b)]
setClaimVerifier(tier, b) == cfg' = [cfg EXCEPT !.claimTiers = With(@, tier, b)]
setCancelVerifier(b) == cfg' = [cfg EXCEPT !.cancelVerifier = b]
setDexRouterWhitelist(router, b) == cfg' = [cfg EXCEPT !.routers = With(@, router, b)]
setSanctionsList(b) == cfg' = [cfg EXCEPT !.sanctionsList = b]
setIdentityGate(b) == cfg' = [cfg EXCEPT !.identityGate = b]
setRelayerRegistry(b) == cfg' = [cfg EXCEPT !.relayerRegistry = b]

(* Removing the vault also resets the DEX platform fee, which needs one.   *)
CfgWithoutVault == [cfg EXCEPT !.feeVault = FALSE, !.dexPlatformFeeBps = 0]
setFeeVault(b) == cfg' = IF b THEN [cfg EXCEPT !.feeVault = TRUE] ELSE CfgWithoutVault
setDexPlatformFee(bps) ==
    /\ bps <= MAX_DEX_PLATFORM_FEE_BPS
    /\ bps > 0 => cfg.feeVault
    /\ cfg' = [cfg EXCEPT !.dexPlatformFeeBps = bps]

OwnerOfSettlement ==
    /\ \/ "pause" \in AdminOps /\ (pause \/ unpause)
       \/ /\ "whitelist" \in AdminOps
          /\ \E t \in Tokens, b \in BOOLEAN : setTokenWhitelist(t, b)
       \/ /\ "verifiers" \in AdminOps
          /\ \E tier \in Tiers, b \in BOOLEAN :
               \/ setAuthorizeVerifier(tier, b)
               \/ setBatchAuthorizeVerifier(tier, b)
               \/ setClaimVerifier(tier, b)
               \/ setCancelVerifier(b)
       \/ /\ "compliance" \in AdminOps
          /\ \E b \in BOOLEAN : setSanctionsList(b) \/ setIdentityGate(b)
       \/ /\ "registry" \in AdminOps
          /\ \E b \in BOOLEAN : setRelayerRegistry(b)
       \/ /\ "vault" \in AdminOps
          /\ \/ \E b \in BOOLEAN : setFeeVault(b)
             \/ \E bps \in DexFees : setDexPlatformFee(bps)
             \/ \E router \in Routers, b \in BOOLEAN : setDexRouterWhitelist(router, b)
    /\ UNCHANGED <<orderVars, claimVars, activeRelayers, poolVars, vaultVars, now>>

(* RelayerRegistry: a relayer joins, leaves, or loses its standing.        *)
RegistryChange ==
    /\ "registry" \in AdminOps
    /\ \E r \in Relayers, b \in BOOLEAN : activeRelayers' = With(activeRelayers, r, b)
    /\ UNCHANGED <<orderVars, claimVars, cfg, poolVars, vaultVars, now>>

-----------------------------------------------------------------------------
Settle ==
    LET proofs == Proofs IN
    \/ \E maker \in proofs, taker \in proofs, feeMaker \in Fees, feeTaker \in Fees :
         \E sender \in {maker.order.relayer, taker.order.relayer} :
           settleAuth(sender, maker, taker, feeMaker, feeTaker)
    \/ \E side \in proofs, fee \in Fees : scatterDirectAuth(side.order.relayer, side, fee)
    \/ \E side \in proofs, router \in Routers, amountOut \in DexOutputs :
         \E spent \in 0 .. side.order.sellAmount :
           settleWithDex(side.order.relayer, side, router, spent, amountOut)

Cancel ==
    \E i \in DOMAIN leaves, nonce \in Nonces, freshSalt \in Salts :
       cancelPrivate(leaves[i], nonce, freshSalt)

Claim == \E C \in SUBSET ClaimsIn(groups) : executeClaims(C)

Vault ==
    \/ \E t \in Tokens : withdrawPlatformRevenue(t)
    \/ RelayerClaims
    \/ "vaultOwner" \in AdminOps /\ OwnerOfVault

Next ==
    \/ Settle
    \/ Cancel
    \/ Claim
    \/ OwnerOfSettlement
    \/ RegistryChange
    \/ (PoolUser \/ PoolOwner) /\ UNCHANGED <<settlementVars, vaultVars, now>>
    \/ Vault /\ UNCHANGED <<settlementVars, poolVars>>
    \/ Tick /\ UNCHANGED <<settlementVars, poolVars, vaultVars>>

Spec == Init /\ [][Next]_vars

(* Whoever is owed a released claim collects it sooner or later, one by    *)
(* one, and blocks keep coming.                                            *)
CollectEveryClaim ==
    \A o \in Orders : \A i \in DOMAIN o.claims :
       WF_vars(LET c == <<ClaimsRoot(o), i>> IN c \in ClaimsIn(groups) /\ executeClaims({c}))
FairSpec == Spec /\ CollectEveryClaim /\ WF_vars(Tick /\ UNCHANGED <<settlementVars, poolVars, vaultVars>>)

-----------------------------------------------------------------------------
(* Types of all three contracts' storage.                                  *)
TypeOK ==
    /\ PoolTypeOK
    /\ VaultTypeOK
    /\ nullifiers \subseteq Secrets \X Salts
    /\ nonceNullifiers \subseteq Secrets \X Nonces
    /\ DOMAIN groups \subseteq ClaimsRoots
    /\ \A root \in DOMAIN groups :
         groups[root] \in [token : Tokens, tier : Tiers, totalLocked : Nat, totalClaimed : Nat]
    /\ settleBal \in [Tokens -> Nat]
    /\ cfg \in Cfgs
    /\ activeRelayers \subseteq Relayers

(* The unpaid claims of token t.                                           *)
Outstanding(gs, paid, t) ==
    [c \in {d \in ClaimsIn(gs) : gs[d[1]].token = t /\ ClaimNullifier(d) \notin paid}
       |-> ClaimLeaf(c).amount]
ClaimsOwed(t) == Total(Outstanding(groups, claimNullifiers, t))

(* The pool can pay every unspent note at the same time: no pairing of     *)
(* orders, scatter, swap, cancellation, withdrawal or deposit, however     *)
(* interleaved, hands out tokens for which no note was burned.             *)
PoolSolvent == \A t \in Tokens : Liability(t) <= poolBal[t]

(* Nobody can lock a user's note in the pool.  Its owner can always take   *)
(* it out whole: the current root proves membership however many roots     *)
(* were forgotten, no change note is inserted, so a full tree is no        *)
(* obstacle, and the tokens are there.                                     *)
EveryNoteCanExit ==
    \A i \in DOMAIN leaves :
       LET note == leaves[i] IN
       ~Spent(EscrowNullifier(note)) =>
          /\ ProvesMembership(note)
          /\ \A salt \in Salts : HasRoomFor(Change(note, note.amount, salt))
          /\ note.amount <= poolBal[note.token]

(* The settlement contract can pay every unpaid claim at the same time,    *)
(* although the tokens of all groups are pooled in one balance.            *)
ClaimsCovered == \A t \in Tokens : ClaimsOwed(t) <= settleBal[t]

(* totalClaimed counts exactly the paid leaves of a group and totalLocked  *)
(* all of them, so ExceedsTotalLocked never stops a first-time claim.      *)
GroupBooksExact ==
    \A root \in DOMAIN groups :
       LET all == {root} \X DOMAIN root.leaves IN
       /\ groups[root].totalLocked = Total(AmountOf(all))
       /\ groups[root].totalClaimed =
            Total(AmountOf({c \in all : ClaimNullifier(c) \in claimNullifiers}))

(* A note that was settled, scattered, swapped or cancelled here is also   *)
(* spent in the pool: the withdraw path cannot pay it a second time.       *)
SettledNotesAreSpent == nullifiers \subseteq poolNullifiers

(* The vault's books stay exact when fees and revenue arrive inside        *)
(* settlements, while relayers claim and the owner rewires the vault.      *)
VaultBooksExact == VaultBacked /\ TrackedIsSum

(* A DEX platform fee is only ever configured together with a vault that   *)
(* collects it, in whatever order the owner adds and removes the two.      *)
DexFeeHasVault == cfg.dexPlatformFeeBps > 0 => cfg.feeVault

(* The books of the settlement and of the vault stay exact when fees and   *)
(* revenue arrive inside settlements, while recipients and relayers claim  *)
(* and the owner rewires the vault; no DEX fee is taken without a vault.   *)
BooksExact == TypeOK /\ GroupBooksExact /\ VaultBooksExact /\ DexFeeHasVault

(* Nothing but the owner's switches, the compliance lists and the clock    *)
(* keeps a claim of order o from being paid.                               *)
ClaimOpen(o, i) ==
    /\ Open
    /\ NotSanctioned(o.claims[i].recipient) /\ IdentityVerified(o.claims[i].recipient)
    /\ o.tier \in cfg.claimTiers
    /\ AcceptsPayout(o.claims[i].recipient, o.buyToken)

(* "Claims are permanently claimable": the claims of a registered group    *)
(* are all paid in the end, unless one is barred again and again.  Neither *)
(* the claims of other groups, nor a move of the pool to another           *)
(* settlement contract, nor a pause or a listing that was lifted since,    *)
(* can leave them unpaid for good.                                         *)
FullyClaimed(root) ==
    /\ root \in DOMAIN groups
    /\ groups[root].totalClaimed = groups[root].totalLocked
    /\ \A i \in DOMAIN root.leaves : ClaimNullifier(<<root, i>>) \in claimNullifiers
ClaimsArePaid ==
    \A o \in Orders :
       ClaimsRoot(o) \in DOMAIN groups
         ~> FullyClaimed(ClaimsRoot(o)) \/ \E i \in DOMAIN o.claims : ~ClaimOpen(o, i)

(* "No future on-chain action can move funds to or from that address":     *)
(* while a relayer is on the sanctions list that both contracts consult,   *)
(* it is neither credited a fee nor paid one.                              *)
SanctionedRelayersEarnNothing ==
    [][ cfg.sanctionsList /\ poolCfg.sanctionsList =>
          \A r \in Relayers \cap sanctioned : balances'[r] = balances[r] ]_vars

(* "One-sided settles are permitted": a pair that passes every check and   *)
(* of which one side locks nothing is not refused when its claims groups   *)
(* are registered.                                                         *)
OneSidedSettlesFit ==
    \A maker \in Proofs, taker \in Proofs, feeMaker \in Fees, feeTaker \in Fees :
       LET m == maker.order
           t == taker.order
       IN  /\ SettleAuthChecks(m.relayer, maker, taker, feeMaker, feeTaker)
           /\ Locked(m.claims) = 0 \/ Locked(t.claims) = 0
           => CanRegister(groups, m) /\ CanRegister(Registered(groups, m), t)
=============================================================================
