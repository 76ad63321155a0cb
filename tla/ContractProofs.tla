--------------------------- MODULE ContractProofs ---------------------------
(***************************************************************************)
(* Proofs about the contracts, after the lemmas on totals they share.  The *)
(* fee vault stays backed, its liability counter exact and its fee rate    *)
(* announced.  The registry holds exactly the bonds on its books and no    *)
(* call undoes a removal.  The treasury holds what it has tagged as        *)
(* revenue.  The pool changes its settlement contract only through the     *)
(* timelock, and users take out only their notes; the lemmas on Owed are   *)
(* stated on a sequence of leaves and a set of nullifiers.  The last part  *)
(* is the settlement contract composed with pool and vault: settled notes  *)
(* are spent, the pool stays solvent, claims stay covered, the books       *)
(* agree, and every note can exit.                                         *)
(***************************************************************************)
EXTENDS PrivateSettlement, RelayerRegistry, Treasury,
        FiniteSetTheorems, FunctionTheorems, SequenceTheorems, TLAPS

-----------------------------------------------------------------------------
(* How the total of a family changes when one entry is added or replaced.  *)

(* A family of amounts over finitely many indices.                         *)
IsFamily(f) == IsFiniteSet(DOMAIN f) /\ \A x \in DOMAIN f : f[x] \in Nat

(* g is f with one more entry, at x.                                       *)
Extends(g, f, x) ==
    /\ x \notin DOMAIN f
    /\ DOMAIN g = DOMAIN f \cup {x}
    /\ \A y \in DOMAIN f : g[y] = f[y]

(* The coins booked under one index are as many as the amount says.        *)
LEMMA CellCardinality ==
    ASSUME NEW f, NEW x, f[x] \in Nat
    PROVE  IsFiniteSet(Cell(f, x)) /\ Cardinality(Cell(f, x)) = f[x]
<1>1. IsFiniteSet(1 .. f[x]) /\ Cardinality(1 .. f[x]) = f[x]
  BY FS_Interval
<1>2. IsFiniteSet({x}) /\ Cardinality({x}) = 1
  BY FS_Singleton
<1>3. IsFiniteSet({x} \X (1 .. f[x]))
      /\ Cardinality({x} \X (1 .. f[x])) = 1 * f[x]
  BY <1>1, <1>2, FS_Product
<1> QED BY <1>3 DEF Cell

(* A family has finitely many coins, so its total is a natural number.     *)
LEMMA TotalType ==
    ASSUME NEW f, IsFamily(f)
    PROVE  IsFiniteSet(Units(f)) /\ Total(f) \in Nat
<1> DEFINE Cells == {Cell(f, x) : x \in DOMAIN f}
<1> DEFINE cell == [x \in DOMAIN f |-> Cell(f, x)]
<1>1. cell \in Surjection(DOMAIN f, Cells)
  BY DEF Surjection
<1>2. IsFiniteSet(Cells)
  <2> HIDE DEF cell, Cells
  <2> QED BY <1>1, FS_Surjection DEF IsFamily
<1>3. \A T \in Cells : IsFiniteSet(T)
  BY CellCardinality DEF IsFamily
<1>4. IsFiniteSet(UNION Cells)
  <2> HIDE DEF Cells
  <2> QED BY <1>2, <1>3, FS_UNION
<1>5. IsFiniteSet(Units(f))
  BY <1>4 DEF Units
<1> QED BY <1>5, FS_CardinalityType DEF Total

(* Adding an entry adds its amount.                                        *)
LEMMA TotalExtend ==
    ASSUME NEW f, NEW g, NEW x, IsFamily(f), Extends(g, f, x), g[x] \in Nat
    PROVE  IsFamily(g) /\ Total(g) = Total(f) + g[x]
<1>1. IsFamily(g)
  BY FS_AddElement DEF IsFamily, Extends
<1>2. Units(g) = Units(f) \cup Cell(g, x)
  BY DEF Units, Cell, Extends
<1>3. Units(f) \cap Cell(g, x) = {}
  BY DEF Units, Cell, Extends
<1>4. IsFiniteSet(Units(f)) /\ Total(f) \in Nat
  BY TotalType
<1>5. IsFiniteSet(Cell(g, x)) /\ Cardinality(Cell(g, x)) = g[x]
  BY CellCardinality
<1>6. Cardinality(Units(f) \cup Cell(g, x))
        = Cardinality(Units(f)) + Cardinality(Cell(g, x))
          - Cardinality(Units(f) \cap Cell(g, x))
  BY <1>4, <1>5, FS_Union
<1>7. Cardinality(Units(f) \cap Cell(g, x)) = 0
  BY <1>3, FS_EmptySet
<1>8. Total(g) = Total(f) + g[x]
  BY <1>2, <1>4, <1>5, <1>6, <1>7 DEF Total
<1> QED BY <1>1, <1>8

(* Replacing the amount of one entry moves the total by the difference.    *)
LEMMA TotalUpdate ==
    ASSUME NEW f, NEW g, NEW x, IsFamily(f), x \in DOMAIN f,
           DOMAIN g = DOMAIN f, \A y \in DOMAIN f \ {x} : g[y] = f[y],
           g[x] \in Nat
    PROVE  /\ IsFamily(g)
           /\ f[x] <= Total(f)
           /\ Total(g) = Total(f) - f[x] + g[x]
<1> DEFINE h == [y \in DOMAIN f \ {x} |-> f[y]]
<1>1. IsFamily(h)
  BY FS_RemoveElement DEF IsFamily
<1>2. Extends(f, h, x) /\ Extends(g, h, x)
  BY DEF Extends
<1>3. f[x] \in Nat
  BY DEF IsFamily
<1> HIDE DEF h
<1>4. IsFamily(g) /\ Total(f) = Total(h) + f[x] /\ Total(g) = Total(h) + g[x]
  BY <1>1, <1>2, <1>3, TotalExtend
<1>5. Total(h) \in Nat
  BY <1>1, TotalType
<1> QED BY <1>3, <1>4, <1>5

(* A family with fewer entries has no larger total.                        *)
LEMMA TotalSubfamily ==
    ASSUME NEW f, NEW g, IsFamily(f), DOMAIN g \subseteq DOMAIN f,
           \A y \in DOMAIN g : g[y] = f[y]
    PROVE  IsFamily(g) /\ Total(g) <= Total(f)
<1>1. IsFiniteSet(DOMAIN g)
  BY FS_Subset DEF IsFamily
<1>2. IsFamily(g)
  BY <1>1 DEF IsFamily
<1>3. Units(g) \subseteq Units(f)
  BY DEF Units, Cell
<1>4. IsFiniteSet(Units(f))
  BY TotalType
<1>5. Cardinality(Units(g)) <= Cardinality(Units(f))
  BY <1>3, <1>4, FS_Subset
<1> QED BY <1>2, <1>5 DEF Total

(* The empty family, and more generally a family of zeros, totals zero.    *)
LEMMA TotalZero ==
    ASSUME NEW f, \A x \in DOMAIN f : f[x] = 0
    PROVE  Total(f) = 0
<1>1. Units(f) = {}
  BY DEF Units, Cell
<1> QED BY <1>1, FS_EmptySet DEF Total

(* Two families without a common index total what they total together.     *)
LEMMA TotalUnion ==
    ASSUME NEW f, NEW g, NEW h, IsFamily(f), IsFamily(g),
           DOMAIN f \cap DOMAIN g = {}, DOMAIN h = DOMAIN f \cup DOMAIN g,
           \A x \in DOMAIN f : h[x] = f[x], \A x \in DOMAIN g : h[x] = g[x]
    PROVE  IsFamily(h) /\ Total(h) = Total(f) + Total(g)
<1>1. IsFamily(h)
  BY FS_Union DEF IsFamily
<1>2. Units(h) = Units(f) \cup Units(g)
  BY DEF Units, Cell
<1>3. Units(f) \cap Units(g) = {}
  BY DEF Units, Cell
<1>4. /\ IsFiniteSet(Units(f)) /\ IsFiniteSet(Units(g))
      /\ Total(f) \in Nat /\ Total(g) \in Nat
  BY TotalType
<1>5. Cardinality(Units(f) \cup Units(g))
        = Cardinality(Units(f)) + Cardinality(Units(g))
          - Cardinality(Units(f) \cap Units(g))
  BY <1>4, FS_Union
<1>6. Cardinality(Units(f) \cap Units(g)) = 0
  BY <1>3, FS_EmptySet
<1>7. Total(h) = Total(f) + Total(g)
  BY <1>2, <1>4, <1>5, <1>6 DEF Total
<1> QED BY <1>1, <1>7

(* Renaming the indices of a family leaves its total as it is.             *)
LEMMA TotalReindex ==
    ASSUME NEW f, NEW g, NEW b \in Bijection(DOMAIN f, DOMAIN g), IsFamily(f),
           \A x \in DOMAIN f : g[b[x]] = f[x]
    PROVE  Total(g) = Total(f)
<1> DEFINE S == Units(f)
           T == Units(g)
           u == [p \in S |-> <<b[p[1]], p[2]>>]
<1>1. \A p : p \in S <=> \E x \in DOMAIN f : \E k \in 1 .. f[x] : p = <<x, k>>
  BY DEF Units, Cell
<1>2. \A p : p \in T <=> \E x \in DOMAIN g : \E k \in 1 .. g[x] : p = <<x, k>>
  BY DEF Units, Cell
<1>3. /\ \A x \in DOMAIN f : b[x] \in DOMAIN g
      /\ \A x, y \in DOMAIN f : b[x] = b[y] => x = y
      /\ \A z \in DOMAIN g : \E x \in DOMAIN f : b[x] = z
  BY DEF Bijection, Injection, Surjection, IsInjective
<1>4. u \in [S -> T]
  <2> SUFFICES ASSUME NEW p \in S PROVE <<b[p[1]], p[2]>> \in T
    OBVIOUS
  <2> HIDE DEF S, T
  <2>1. PICK x \in DOMAIN f : \E n \in 1 .. f[x] : p = <<x, n>>
    BY <1>1
  <2>1a. PICK k \in 1 .. f[x] : p = <<x, k>>
    BY <2>1
  <2>2. b[x] \in DOMAIN g /\ k \in 1 .. g[b[x]]
    BY <1>3
  <2> QED BY <1>2, <2>1a, <2>2
<1>5. ASSUME NEW p \in S, NEW q \in S, u[p] = u[q] PROVE p = q
  <2>0. u[p] = <<b[p[1]], p[2]>> /\ u[q] = <<b[q[1]], q[2]>>
    OBVIOUS
  <2> HIDE DEF S, T, u
  <2>1. PICK x \in DOMAIN f : \E n \in 1 .. f[x] : p = <<x, n>>
    BY <1>1
  <2>1a. PICK k \in 1 .. f[x] : p = <<x, k>>
    BY <2>1
  <2>2. PICK y \in DOMAIN f : \E n \in 1 .. f[y] : q = <<y, n>>
    BY <1>1
  <2>2a. PICK l \in 1 .. f[y] : q = <<y, l>>
    BY <2>2
  <2>2b. /\ p[1] = x /\ p[2] = k /\ q[1] = y /\ q[2] = l
    BY <2>1a, <2>2a
  <2>2c. <<b[p[1]], p[2]>> = <<b[q[1]], q[2]>>
    BY <1>5, <2>0
  <2>3. b[x] = b[y] /\ k = l
    BY <2>2b, <2>2c
  <2> QED BY <1>3, <2>1a, <2>2a, <2>3
<1>6. ASSUME NEW q \in T PROVE \E p \in S : u[p] = q
  <2>0. \A p \in S : u[p] = <<b[p[1]], p[2]>>
    OBVIOUS
  <2> HIDE DEF S, T, u
  <2>1. PICK z \in DOMAIN g : \E n \in 1 .. g[z] : q = <<z, n>>
    BY <1>2
  <2>1a. PICK k \in 1 .. g[z] : q = <<z, k>>
    BY <2>1
  <2>2. PICK x \in DOMAIN f : b[x] = z
    BY <1>3
  <2>3. <<x, k>> \in S
    BY <1>1, <2>1a, <2>2
  <2> QED BY <2>0, <2>1a, <2>2, <2>3
<1>7. u \in Bijection(S, T)
  <2> HIDE DEF S, T, u
  <2> QED BY <1>4, <1>5, <1>6 DEF Bijection, Injection, Surjection, IsInjective
<1>8. IsFiniteSet(S)
  BY TotalType
<1>9. Cardinality(S) = Cardinality(T)
  <2> HIDE DEF S, T, u
  <2> QED BY <1>7, <1>8, FS_Bijection DEF ExistsBijection
<1> QED BY <1>9 DEF Total

-----------------------------------------------------------------------------
(* The fee vault.                                                          *)

(* Type correctness is inductive by itself.                                *)
LEMMA VaultTypeInit == VaultInit /\ now = 1 => VaultTypeOK
  BY FeeAssumption, DelayAssumption, RolesAssumption
  DEF VaultInit, VaultTypeOK, Zero, NoPendingFee

(* Every step keeps the types.                                             *)
LEMMA VaultTypeStep == VaultTypeOK /\ [VaultNext]_vaultAndClock => VaultTypeOK'
<1> SUFFICES ASSUME VaultTypeOK, [VaultNext]_vaultAndClock PROVE VaultTypeOK'
  OBVIOUS
<1> USE VaultAmountsAssumption, FeeAssumption, DelayAssumption DEF VaultTypeOK
<1>1. CASE \E t \in Tokens, n \in DepositAmounts : TransferToVault(t, n)
  BY <1>1 DEF TransferToVault, Plus, vaultAdminVars, rolesVars, feeVars
<1>2. CASE \E d \in Depositors, r \in Relayers, t \in Tokens, n \in DepositAmounts :
             deposit(d, r, t, n)
  BY <1>2 DEF deposit, Credited, Tracked, Plus, vaultAdminVars, rolesVars, feeVars
<1>3. CASE \E d \in Depositors, t \in Tokens, n \in DepositAmounts :
             accruePlatformRevenue(d, t, n)
  BY <1>3 DEF accruePlatformRevenue, Plus, vaultAdminVars, rolesVars, feeVars
<1>4. CASE \E t \in Tokens : withdrawPlatformRevenue(t)
  BY <1>4 DEF withdrawPlatformRevenue, Minus, vaultAdminVars, rolesVars, feeVars
<1>5. CASE RelayerClaims
  <2>1. PICK r \in Relayers, t \in Tokens : PayOut(r, t)
    BY <1>5 DEF RelayerClaims, claim, claimAsEth
  <2> QED BY <2>1 DEF PayOut, Released, Minus, vaultAdminVars, rolesVars, feeVars
<1>6. CASE OwnerOfVault
  BY <1>6 DEF OwnerOfVault, setAuthorizedDepositor, setWeth, setTreasury,
              scheduleFeeChange, RateAllowed, setFeeChangeDelay, applyFeeChange,
              cancelFeeChange, NoPendingFee, ledgerVars, rolesVars, feeVars
<1>7. CASE Tick /\ UNCHANGED vaultVars
  BY <1>7, TimeAssumption DEF Tick, vaultVars, ledgerVars, vaultAdminVars, rolesVars, feeVars
<1>8. CASE UNCHANGED vaultAndClock
  BY <1>8 DEF vaultAndClock, vaultVars, ledgerVars, vaultAdminVars, rolesVars, feeVars
<1> QED BY <1>1, <1>2, <1>3, <1>4, <1>5, <1>6, <1>7, <1>8 DEF VaultNext

(* The vault's storage keeps its types and the fee rate its cap            *)
(* (MAX_PLATFORM_FEE), whatever calls are made.                            *)
THEOREM VaultTypeCorrect == VaultSpec => []VaultTypeOK
<1> QED BY VaultTypeInit, VaultTypeStep, PTL DEF VaultSpec, VaultStart

-----------------------------------------------------------------------------
(* The relayer balances of one token, as a family.                         *)
FeesOwed(b, t) == [r \in Relayers |-> b[r][t]]

(* What relayers are owed in one token is a finite family of amounts.      *)
LEMMA FeesOwedFamily ==
    ASSUME NEW b \in [Relayers -> [Tokens -> Nat]], NEW t \in Tokens
    PROVE  IsFamily(FeesOwed(b, t)) /\ Total(FeesOwed(b, t)) \in Nat
<1>1. IsFamily(FeesOwed(b, t))
  BY RelayersAssumption DEF FeesOwed, IsFamily
<1> QED BY <1>1, TotalType

(* c is b with r's balance of token t replaced by n.                       *)
Rebooked(c, b, r, t, n) ==
    /\ c \in [Relayers -> [Tokens -> Nat]]
    /\ c[r][t] = n
    /\ \A q \in Relayers, u \in Tokens : (q # r \/ u # t) => c[q][u] = b[q][u]

(* Changing one balance moves the sum by the difference, and leaves the    *)
(* sums of the other tokens alone.                                         *)
LEMMA FeesOwedUpdate ==
    ASSUME NEW b \in [Relayers -> [Tokens -> Nat]],
           NEW c, NEW r \in Relayers, NEW t \in Tokens, NEW n \in Nat,
           Rebooked(c, b, r, t, n)
    PROVE  /\ b[r][t] <= Total(FeesOwed(b, t))
           /\ Total(FeesOwed(c, t)) = Total(FeesOwed(b, t)) - b[r][t] + n
           /\ \A u \in Tokens \ {t} : FeesOwed(c, u) = FeesOwed(b, u)
<1>1. /\ IsFamily(FeesOwed(b, t)) /\ r \in DOMAIN FeesOwed(b, t)
      /\ DOMAIN FeesOwed(c, t) = DOMAIN FeesOwed(b, t)
  BY FeesOwedFamily DEF FeesOwed
<1> USE DEF Rebooked
<1>2. /\ FeesOwed(c, t)[r] = n /\ FeesOwed(b, t)[r] = b[r][t]
      /\ \A y \in DOMAIN FeesOwed(b, t) \ {r} : FeesOwed(c, t)[y] = FeesOwed(b, t)[y]
  BY DEF FeesOwed
<1>3. /\ b[r][t] <= Total(FeesOwed(b, t))
      /\ Total(FeesOwed(c, t)) = Total(FeesOwed(b, t)) - b[r][t] + n
  <2> DEFINE f == FeesOwed(b, t)
             g == FeesOwed(c, t)
  <2>1. /\ IsFamily(f) /\ r \in DOMAIN f /\ DOMAIN g = DOMAIN f /\ g[r] \in Nat
        /\ \A y \in DOMAIN f \ {r} : g[y] = f[y]
    BY <1>1, <1>2
  <2>2. f[r] = b[r][t] /\ g[r] = n
    BY <1>2
  <2> HIDE DEF f, g
  <2>3. f[r] <= Total(f) /\ Total(g) = Total(f) - f[r] + g[r]
    BY <2>1, TotalUpdate
  <2> QED BY <2>2, <2>3 DEF f, g
<1>4. \A u \in Tokens \ {t} : FeesOwed(c, u) = FeesOwed(b, u)
  BY DEF FeesOwed
<1> QED BY <1>3, <1>4

(* A sequence of independent credits and payouts keeps the books exact.    *)
Exact(tracked, b) == \A t \in Tokens : tracked[t] = Total(FeesOwed(b, t))

(* Exact for each token is the property of the runs.                       *)
LEMMA ExactIsTrackedIsSum == TrackedIsSum <=> Exact(totalTracked, balances)
  BY DEF TrackedIsSum, OwedTo, Exact, FeesOwed

(* A credit adds the same amount to the counter and to one balance.        *)
LEMMA ExactAfterCredit ==
    ASSUME NEW b \in [Relayers -> [Tokens -> Nat]],
           NEW tracked \in [Tokens -> Nat], Exact(tracked, b),
           NEW r \in Relayers, NEW t \in Tokens, NEW n \in Nat
    PROVE  Exact(Tracked(tracked, t, n), Credited(b, r, t, n))
<1> DEFINE c == Credited(b, r, t, n)
<1> DEFINE m == b[r][t] + n
<1>1. m \in Nat /\ Rebooked(c, b, r, t, m)
  BY DEF Credited, Plus, Rebooked
<1> HIDE DEF c, m
<1>2. /\ Total(FeesOwed(c, t)) = Total(FeesOwed(b, t)) - b[r][t] + m
      /\ \A u \in Tokens \ {t} : FeesOwed(c, u) = FeesOwed(b, u)
  BY <1>1, FeesOwedUpdate
<1>3. Total(FeesOwed(b, t)) \in Nat
  BY FeesOwedFamily
<1>4. ASSUME NEW u \in Tokens PROVE Tracked(tracked, t, n)[u] = Total(FeesOwed(c, u))
  <2>1. CASE u = t
    BY <2>1, <1>2, <1>3 DEF Exact, Tracked, Plus, m
  <2>2. CASE u # t
    BY <2>2, <1>2 DEF Exact, Tracked, Plus
  <2> QED BY <2>1, <2>2
<1> QED BY <1>4 DEF Exact, c

(* A payout takes the same amount off both.                                *)
LEMMA ExactAfterPayOut ==
    ASSUME NEW b \in [Relayers -> [Tokens -> Nat]],
           NEW tracked \in [Tokens -> Nat], Exact(tracked, b),
           NEW r \in Relayers, NEW t \in Tokens
    PROVE  /\ b[r][t] <= tracked[t]
           /\ Exact(Minus(tracked, t, b[r][t]), [b EXCEPT ![r] = [@ EXCEPT ![t] = 0]])
<1> DEFINE c == [b EXCEPT ![r] = [@ EXCEPT ![t] = 0]]
<1> DEFINE m == 0
<1>1. m \in Nat /\ Rebooked(c, b, r, t, m)
  BY DEF Rebooked
<1> HIDE DEF c, m
<1>2. /\ Total(FeesOwed(c, t)) = Total(FeesOwed(b, t)) - b[r][t] + m
      /\ \A u \in Tokens \ {t} : FeesOwed(c, u) = FeesOwed(b, u)
  BY <1>1, FeesOwedUpdate
<1>2a. b[r][t] <= Total(FeesOwed(b, t))
  BY <1>1, FeesOwedUpdate
<1>3. Total(FeesOwed(b, t)) \in Nat
  BY FeesOwedFamily
<1>4. ASSUME NEW u \in Tokens PROVE Minus(tracked, t, b[r][t])[u] = Total(FeesOwed(c, u))
  <2>1. CASE u = t
    BY <2>1, <1>2, <1>3 DEF Exact, Minus, m
  <2>2. CASE u # t
    BY <2>2, <1>2 DEF Exact, Minus
  <2> QED BY <2>1, <2>2
<1>5. b[r][t] <= tracked[t]
  BY <1>2a DEF Exact
<1> QED BY <1>4, <1>5 DEF Exact, c

-----------------------------------------------------------------------------
(* The inductive invariant of the books.  Backing alone is not inductive:  *)
(* a claim takes a balance off both sides, which needs the counter exact.  *)
VaultInv == VaultTypeOK /\ VaultBacked /\ TrackedIsSum

(* The empty vault satisfies the invariant.                                *)
LEMMA VaultInvInit == VaultInit /\ now = 1 => VaultInv
<1> SUFFICES ASSUME VaultInit, now = 1 PROVE VaultInv
  OBVIOUS
<1>1. VaultTypeOK
  BY VaultTypeInit
<1>2. VaultBacked
  <2>1. \A t \in Tokens : vaultBal[t] = 0 /\ totalTracked[t] = 0 /\ platformRevenue[t] = 0
    BY DEF VaultInit, Zero
  <2>2. 0 >= 0 + 0
    OBVIOUS
  <2> QED BY <2>1, <2>2, Zenon DEF VaultBacked
<1>3. ASSUME NEW t \in Tokens PROVE totalTracked[t] = Total(FeesOwed(balances, t))
  <2>1. \A r \in DOMAIN FeesOwed(balances, t) : FeesOwed(balances, t)[r] = 0
    BY DEF VaultInit, FeesOwed, Zero
  <2>2. Total(FeesOwed(balances, t)) = 0
    BY <2>1, TotalZero
  <2> QED BY <2>2 DEF VaultInit, Zero
<1> QED BY <1>1, <1>2, <1>3, ExactIsTrackedIsSum DEF VaultInv, Exact

(* Every step keeps the invariant.                                         *)
LEMMA VaultInvStep == VaultInv /\ [VaultNext]_vaultAndClock => VaultInv'
<1> SUFFICES ASSUME VaultInv, [VaultNext]_vaultAndClock PROVE VaultInv'
  OBVIOUS
<1>t. VaultTypeOK'
  BY VaultTypeStep DEF VaultInv
<1>x. Exact(totalTracked, balances)
  BY ExactIsTrackedIsSum DEF VaultInv
<1>e. TrackedIsSum' <=> Exact(totalTracked', balances')
  BY DEF TrackedIsSum, OwedTo, Exact, FeesOwed
<1> USE VaultAmountsAssumption DEF VaultInv, VaultTypeOK, VaultBacked
<1>1. CASE \E t \in Tokens, n \in DepositAmounts : TransferToVault(t, n)
  BY <1>1, <1>t, <1>x, <1>e DEF TransferToVault, Plus
<1>2. CASE \E d \in Depositors, r \in Relayers, t \in Tokens, n \in DepositAmounts :
             deposit(d, r, t, n)
  <2>1. PICK d \in Depositors, r \in Relayers, t \in Tokens, n \in DepositAmounts :
           deposit(d, r, t, n)
    BY <1>2
  <2>2. Exact(totalTracked', balances')
    <3>1. n \in Nat
      OBVIOUS
    <3> QED BY <2>1, <3>1, <1>x, ExactAfterCredit DEF deposit
  <2>3. VaultBacked'
    BY <2>1 DEF deposit, Backed, Tracked, Plus
  <2> QED BY <1>t, <1>e, <2>2, <2>3
<1>3. CASE \E d \in Depositors, t \in Tokens, n \in DepositAmounts :
             accruePlatformRevenue(d, t, n)
  <2>1. VaultBacked'
    BY <1>3 DEF accruePlatformRevenue, Backed, Plus
  <2>2. Exact(totalTracked', balances')
    BY <1>3, <1>x DEF accruePlatformRevenue
  <2> QED BY <1>t, <1>e, <2>1, <2>2
<1>4. CASE \E t \in Tokens : withdrawPlatformRevenue(t)
  <2>1. VaultBacked'
    BY <1>4 DEF withdrawPlatformRevenue, Minus
  <2>2. Exact(totalTracked', balances')
    BY <1>4, <1>x DEF withdrawPlatformRevenue
  <2> QED BY <1>t, <1>e, <2>1, <2>2
<1>5. CASE RelayerClaims
  <2>1. PICK r \in Relayers, t \in Tokens : PayOut(r, t)
    BY <1>5 DEF RelayerClaims, claim, claimAsEth
  <2>2. Exact(totalTracked', balances')
    BY <2>1, <1>x, ExactAfterPayOut DEF PayOut, Released
  <2>3. balances[r][t] \in Nat
    OBVIOUS
  <2>4. VaultBacked'
    BY <2>1, <2>3 DEF PayOut, Released, Minus
  <2> QED BY <1>t, <1>e, <2>2, <2>4
<1>6. CASE OwnerOfVault
  <2>1. UNCHANGED ledgerVars
    BY <1>6 DEF OwnerOfVault, setAuthorizedDepositor, setWeth, setTreasury,
                scheduleFeeChange, setFeeChangeDelay, applyFeeChange, cancelFeeChange
  <2> QED BY <2>1, <1>t, <1>x, <1>e DEF ledgerVars
<1>7. CASE Tick /\ UNCHANGED vaultVars
  BY <1>7, <1>t, <1>x, <1>e DEF vaultVars, ledgerVars
<1>8. CASE UNCHANGED vaultAndClock
  BY <1>8, <1>t, <1>x, <1>e DEF vaultAndClock, vaultVars, ledgerVars
<1> QED BY <1>1, <1>2, <1>3, <1>4, <1>5, <1>6, <1>7, <1>8 DEF VaultNext

(* Relayers and the platform are always fully covered by the vault's       *)
(* tokens (_assertBalanceBacked holds in every state, not only after a     *)
(* credit).                                                                *)
THEOREM VaultAlwaysBacked == VaultSpec => []VaultBacked
<1>1. VaultInv => VaultBacked
  BY DEF VaultInv
<1> QED BY <1>1, VaultInvInit, VaultInvStep, PTL DEF VaultSpec, VaultStart

(* totalTracked is exactly the sum of the relayer balances, so claim's     *)
(* subtraction cannot underflow.                                           *)
THEOREM VaultCounterExact == VaultSpec => []TrackedIsSum
<1>1. VaultInv => TrackedIsSum
  BY DEF VaultInv
<1> QED BY <1>1, VaultInvInit, VaultInvStep, PTL DEF VaultSpec, VaultStart

-----------------------------------------------------------------------------
(* Nothing is announced at first.                                          *)
LEMMA PendingInit == VaultInit => PendingIsAnnounced
  BY DEF VaultInit, PendingIsAnnounced, FeeChangePending, NoPendingFee

(* Every step keeps what is pending in line with the announcement.         *)
LEMMA PendingStep == PendingIsAnnounced /\ [VaultNext]_vaultAndClock => PendingIsAnnounced'
<1> SUFFICES ASSUME PendingIsAnnounced, [VaultNext]_vaultAndClock PROVE PendingIsAnnounced'
  OBVIOUS
<1> USE DEF PendingIsAnnounced, FeeChangePending
<1>1. CASE UNCHANGED <<pendingFee, announced>>
  BY <1>1
<1>2. CASE \E bps \in FeeRates : scheduleFeeChange(bps)
  BY <1>2 DEF scheduleFeeChange
<1>3. CASE applyFeeChange \/ cancelFeeChange
  BY <1>3 DEF applyFeeChange, cancelFeeChange, NoPendingFee
<1>4. \/ UNCHANGED <<pendingFee, announced>>
      \/ \E bps \in FeeRates : scheduleFeeChange(bps)
      \/ applyFeeChange \/ cancelFeeChange
  BY DEF VaultNext, TransferToVault, deposit, accruePlatformRevenue,
         withdrawPlatformRevenue, RelayerClaims, claim, claimAsEth, PayOut,
         OwnerOfVault, setAuthorizedDepositor, setWeth, setTreasury, setFeeChangeDelay,
         vaultAndClock, vaultVars, vaultAdminVars, feeVars
<1> QED BY <1>1, <1>2, <1>3, <1>4

(* Only applyFeeChange changes the rate, and it waits for the delay.       *)
LEMMA FeeTimelockStep ==
    PendingIsAnnounced /\ [VaultNext]_vaultAndClock =>
      [ platformFeeBps' # platformFeeBps =>
          /\ platformFeeBps' = announced.bps
          /\ now >= announced.at + announced.delay ]_vaultAndClock
<1> SUFFICES ASSUME PendingIsAnnounced, [VaultNext]_vaultAndClock,
                    platformFeeBps' # platformFeeBps
             PROVE  platformFeeBps' = announced.bps /\ now >= announced.at + announced.delay
  OBVIOUS
<1>1. applyFeeChange
  BY DEF VaultNext, TransferToVault, deposit, accruePlatformRevenue,
     withdrawPlatformRevenue, RelayerClaims, claim, claimAsEth, PayOut,
     OwnerOfVault, setAuthorizedDepositor, setWeth, setTreasury, setFeeChangeDelay,
     scheduleFeeChange, cancelFeeChange, vaultAndClock, vaultVars, vaultAdminVars, feeVars
<1> QED BY <1>1 DEF applyFeeChange, FeeChangeReady, PendingIsAnnounced

(* The timelock of the fee rate: a new rate takes effect only when it was  *)
(* the last one announced and its delay has passed, however often the      *)
(* owner changes the delay, reschedules or cancels.                        *)
THEOREM FeeTimelock == VaultSpec => FeeRateWasAnnounced
<1> QED BY FeeTimelockStep, PendingInit, PendingStep, PTL
        DEF VaultSpec, VaultStart, FeeRateWasAnnounced

-----------------------------------------------------------------------------
(* The registry: types.                                                    *)

RelayerRecords ==
    [active : BOOLEAN, bond : Nat, bondToken : BondTokens, exitRequestedAt : Nat]

(* The storage's types are inductive together with the clock's.            *)
RegistryTyped == RegistryTypeOK /\ now \in Nat

(* The fields of one operator's record.                                    *)
LEMMA RecordFields ==
    ASSUME NEW r \in RelayerRecords
    PROVE  /\ r.active \in BOOLEAN /\ r.bond \in Nat
           /\ r.bondToken \in BondTokens /\ r.exitRequestedAt \in Nat
  BY DEF RelayerRecords

(* A new registry has its types, and the clock is a number.                *)
LEMMA RegistryTypeInit == RegistryInit /\ now = 1 => RegistryTyped
  BY CooldownAssumption DEF RegistryInit, RegistryTyped, RegistryTypeOK, NoRelayer, BondTokens

(* What a call does to the registry: it rewrites the record of at most one *)
(* operator, and the balance of at most one token.                         *)
Rewrites(o, r) ==
    /\ r \in RelayerRecords
    /\ relayers' = [relayers EXCEPT ![o] = r]

(* Each call on a relayer rewrites its record, and keeps it one.           *)
LEMMA RecordRewritten ==
    ASSUME RegistryTyped, NEW o \in Operators, NEW n \in Nat, NEW received \in 0 .. n
    PROVE  /\ register(o, n, received) =>
                Rewrites(o, [active |-> TRUE, bond |-> received, bondToken |-> bondToken,
                             exitRequestedAt |-> 0])
           /\ addBond(o, n, received) =>
                Rewrites(o, [relayers[o] EXCEPT !.bond = @ + received])
           /\ requestExit(o) => Rewrites(o, [relayers[o] EXCEPT !.exitRequestedAt = now])
           /\ executeExit(o) => Rewrites(o, [relayers[o] EXCEPT !.active = FALSE, !.bond = 0])
           /\ adminRemoveRelayer(o) =>
                Rewrites(o, [relayers[o] EXCEPT !.exitRequestedAt = RemovalTime(o)])
<1>1. /\ relayers \in [Operators -> RelayerRecords] /\ now \in Nat /\ bondToken \in BondTokens
      /\ relayers[o] \in RelayerRecords
  BY DEF RegistryTyped, RegistryTypeOK, RelayerRecords
<1>2. relayers[o].bond \in Nat /\ relayers[o].exitRequestedAt \in Nat /\ received \in Nat
  BY <1>1, RecordFields
<1>3. RemovalTime(o) \in Nat
  BY <1>1, <1>2 DEF RemovalTime
<1>4. register(o, n, received) =>
         Rewrites(o, [active |-> TRUE, bond |-> received, bondToken |-> bondToken,
                      exitRequestedAt |-> 0])
  BY <1>1, <1>2 DEF register, Rewrites, RelayerRecords
<1>5. addBond(o, n, received) => Rewrites(o, [relayers[o] EXCEPT !.bond = @ + received])
  BY <1>1, <1>2 DEF addBond, Rewrites, RelayerRecords
<1>6. requestExit(o) => Rewrites(o, [relayers[o] EXCEPT !.exitRequestedAt = now])
  BY <1>1, <1>2 DEF requestExit, Rewrites, RelayerRecords
<1>7. executeExit(o) => Rewrites(o, [relayers[o] EXCEPT !.active = FALSE, !.bond = 0])
  BY <1>1, <1>2 DEF executeExit, Rewrites, RelayerRecords
<1>8. adminRemoveRelayer(o) =>
         Rewrites(o, [relayers[o] EXCEPT !.exitRequestedAt = RemovalTime(o)])
  BY <1>1, <1>2, <1>3 DEF adminRemoveRelayer, Rewrites, RelayerRecords
<1> QED BY <1>4, <1>5, <1>6, <1>7, <1>8

(* An operator's call, as RegistryNext offers it.                          *)
OperatorCall(o) ==
    \/ \E n \in BondAmounts \cup {0} : \E received \in 0 .. n :
          register(o, n, received) \/ addBond(o, n, received)
    \/ requestExit(o) \/ executeExit(o) \/ adminRemoveRelayer(o)

(* The other steps leave the bonds and the records alone.                  *)
LEMMA RegistryStepKinds ==
    ASSUME [RegistryNext]_registryAll
    PROVE  \/ \E o \in Operators : OperatorCall(o)
           \/ /\ UNCHANGED <<relayers, registryBal, exitCooldown, now>>
              /\ \E t \in BondTokens, n \in MinBonds : bondToken' = t /\ minBond' = n
           \/ /\ UNCHANGED <<relayers, registryBal, bondToken, minBond, now>>
              /\ \E c \in Cooldowns : exitCooldown' = c /\ c <= MAX_EXIT_COOLDOWN
           \/ Tick /\ UNCHANGED registryVars
           \/ UNCHANGED registryAll
<1>1. CASE \E t \in BondTokens, n \in MinBonds : setBond(t, n)
  BY <1>1 DEF setBond
<1>2. CASE \E c \in Cooldowns : setExitCooldown(c)
  BY <1>2 DEF setExitCooldown, CooldownAllowed
<1> QED BY <1>1, <1>2, Zenon DEF RegistryNext, OperatorCall

(* The balance after a call is what a stake adds or an exit takes.         *)
LEMMA BalanceAfter ==
    ASSUME RegistryTyped, NEW o \in Operators, NEW n \in Nat, NEW received \in 0 .. n
    PROVE  /\ register(o, n, received) =>
                registryBal' = [registryBal EXCEPT ![bondToken] = @ + received]
           /\ addBond(o, n, received) =>
                registryBal' = [registryBal EXCEPT ![relayers[o].bondToken] = @ + received]
           /\ executeExit(o) =>
                /\ registryBal[relayers[o].bondToken] >= relayers[o].bond
                /\ registryBal' =
                     [registryBal EXCEPT ![relayers[o].bondToken] = @ - relayers[o].bond]
           /\ requestExit(o) \/ adminRemoveRelayer(o) => registryBal' = registryBal
<1>1. register(o, n, received) =>
        registryBal' = [registryBal EXCEPT ![bondToken] = @ + received]
  BY DEF register, PullBond
<1>2. addBond(o, n, received) =>
        registryBal' = [registryBal EXCEPT ![relayers[o].bondToken] = @ + received]
  BY DEF addBond, PullBond, PaidIn
<1>3. executeExit(o) =>
        /\ registryBal[relayers[o].bondToken] >= relayers[o].bond
        /\ registryBal' = [registryBal EXCEPT ![relayers[o].bondToken] = @ - relayers[o].bond]
  BY DEF executeExit, PaidIn
<1>4. requestExit(o) \/ adminRemoveRelayer(o) => registryBal' = registryBal
  BY DEF requestExit, adminRemoveRelayer
<1> QED BY <1>1, <1>2, <1>3, <1>4

(* No call of an operator touches the owner's settings or the clock.       *)
LEMMA CallsKeepSettings ==
    ASSUME NEW o \in Operators, OperatorCall(o)
    PROVE  UNCHANGED <<bondToken, minBond, exitCooldown, now>>
<1>1. ASSUME NEW n, NEW received, register(o, n, received) \/ addBond(o, n, received)
      PROVE  UNCHANGED <<bondToken, minBond, exitCooldown, now>>
  BY <1>1 DEF register, addBond
<1>2. ASSUME requestExit(o) \/ executeExit(o) \/ adminRemoveRelayer(o)
      PROVE  UNCHANGED <<bondToken, minBond, exitCooldown, now>>
  BY <1>2 DEF requestExit, executeExit, adminRemoveRelayer
<1> QED BY <1>1, <1>2, Zenon DEF OperatorCall

(* Every call keeps the types: an exit never takes more than is there.     *)
LEMMA RegistryTypeStep == RegistryTyped /\ [RegistryNext]_registryAll => RegistryTyped'
<1> SUFFICES ASSUME RegistryTyped, [RegistryNext]_registryAll PROVE RegistryTyped'
  OBVIOUS
<1>0. /\ relayers \in [Operators -> RelayerRecords] /\ registryBal \in [BondTokens -> Nat]
      /\ bondToken \in BondTokens /\ minBond \in Nat /\ exitCooldown \in 0 .. MAX_EXIT_COOLDOWN
      /\ now \in Nat
  BY DEF RegistryTyped, RegistryTypeOK, RelayerRecords
<1>1. ASSUME NEW o \in Operators, NEW r, Rewrites(o, r)
      PROVE  relayers' \in [Operators -> RelayerRecords]
  BY <1>0, <1>1 DEF Rewrites
<1>2. ASSUME NEW o \in Operators, OperatorCall(o)
      PROVE  RegistryTyped'
  <2>1. relayers[o].bond \in Nat /\ relayers[o].bondToken \in BondTokens
    BY <1>0, RecordFields
  <2>2. ASSUME NEW n \in Nat, NEW received \in 0 .. n,
               register(o, n, received) \/ addBond(o, n, received)
        PROVE  relayers' \in [Operators -> RelayerRecords] /\ registryBal' \in [BondTokens -> Nat]
    <3>1. relayers' \in [Operators -> RelayerRecords]
      BY <1>1, <2>2, RecordRewritten
    <3>2. registryBal' \in [BondTokens -> Nat]
      BY <1>0, <2>1, <2>2, BalanceAfter
    <3> QED BY <3>1, <3>2
  <2>3. ASSUME requestExit(o) \/ executeExit(o) \/ adminRemoveRelayer(o)
        PROVE  relayers' \in [Operators -> RelayerRecords] /\ registryBal' \in [BondTokens -> Nat]
    <3>0. 0 \in Nat /\ 0 \in 0 .. 0
      OBVIOUS
    <3>1. relayers' \in [Operators -> RelayerRecords]
      BY <1>1, <2>3, <3>0, RecordRewritten
    <3>2. registryBal' \in [BondTokens -> Nat]
      BY <1>0, <2>1, <2>3, <3>0, BalanceAfter
    <3> QED BY <3>1, <3>2
  <2>4. relayers' \in [Operators -> RelayerRecords] /\ registryBal' \in [BondTokens -> Nat]
    <3>1. \A n \in BondAmounts \cup {0} : n \in Nat
      BY BondAssumption
    <3> QED BY <1>2, <2>2, <2>3, <3>1, Zenon DEF OperatorCall
  <2> QED BY <1>0, <1>2, <2>4, CallsKeepSettings
          DEF RegistryTyped, RegistryTypeOK, RelayerRecords
<1>3. ASSUME NEW t \in BondTokens, NEW n \in MinBonds, bondToken' = t, minBond' = n,
             UNCHANGED <<relayers, registryBal, exitCooldown, now>>
      PROVE  RegistryTyped'
  <2>1. n \in Nat
    BY BondAssumption
  <2> QED BY <1>0, <1>3, <2>1 DEF RegistryTyped, RegistryTypeOK, RelayerRecords
<1>4. ASSUME NEW c \in Cooldowns, exitCooldown' = c, c <= MAX_EXIT_COOLDOWN,
             UNCHANGED <<relayers, registryBal, bondToken, minBond, now>>
      PROVE  RegistryTyped'
  <2>1. c \in 0 .. MAX_EXIT_COOLDOWN
    BY <1>4, BondAssumption, CooldownAssumption
  <2> QED BY <1>0, <1>4, <2>1 DEF RegistryTyped, RegistryTypeOK, RelayerRecords
<1>5. CASE Tick /\ UNCHANGED registryVars
  BY <1>0, <1>5 DEF Tick, registryVars, RegistryTyped, RegistryTypeOK, RelayerRecords
<1>6. CASE UNCHANGED registryAll
  BY <1>0, <1>6 DEF registryAll, registryVars, RegistryTyped, RegistryTypeOK, RelayerRecords
<1>7. (\E o \in Operators : OperatorCall(o)) => RegistryTyped'
  BY <1>2
<1>8. (\E t \in BondTokens, n \in MinBonds :
         bondToken' = t /\ minBond' = n /\ UNCHANGED <<relayers, registryBal, exitCooldown, now>>)
      => RegistryTyped'
  BY <1>3
<1>9. (\E c \in Cooldowns : /\ exitCooldown' = c /\ c <= MAX_EXIT_COOLDOWN
                            /\ UNCHANGED <<relayers, registryBal, bondToken, minBond, now>>)
      => RegistryTyped'
  BY <1>4
<1> QED BY <1>5, <1>6, <1>7, <1>8, <1>9, RegistryStepKinds

(* The registry's storage keeps its types, whatever calls are made.        *)
THEOREM RegistryTypeCorrect == RegistrySpec => []RegistryTypeOK
<1>1. RegistryTyped => RegistryTypeOK
  BY DEF RegistryTyped
<1> QED BY <1>1, RegistryTypeInit, RegistryTypeStep, PTL DEF RegistrySpec
-----------------------------------------------------------------------------
(* The registry: its books.                                                *)

(* What one record and all records hold in token t.                        *)
Counted(r, t) == IF r.active /\ r.bondToken = t THEN r.bond ELSE 0
BondsIn(rel, t) == [o \in Operators |-> Counted(rel[o], t)]

(* A record counts for a natural number of tokens.                         *)
LEMMA CountedType ==
    ASSUME NEW r \in RelayerRecords, NEW t
    PROVE  Counted(r, t) \in Nat
  BY RecordFields DEF Counted

(* Rewriting one record moves the sum of every token by the difference.    *)
LEMMA BondsUpdate ==
    ASSUME RegistryTyped, NEW o \in Operators, NEW r, Rewrites(o, r), NEW t
    PROVE  /\ Total(BondsIn(relayers, t)) \in Nat
           /\ Total(BondsIn(relayers', t)) =
                Total(BondsIn(relayers, t)) - Counted(relayers[o], t) + Counted(r, t)
<1> DEFINE f == BondsIn(relayers, t)
           g == BondsIn(relayers', t)
<1>1. relayers \in [Operators -> RelayerRecords] /\ r \in RelayerRecords
      /\ relayers' = [relayers EXCEPT ![o] = r]
  BY DEF RegistryTyped, RegistryTypeOK, RelayerRecords, Rewrites
<1>2. IsFamily(f)
  BY <1>1, CountedType, OperatorsAssumption DEF BondsIn, IsFamily
<1>3. /\ o \in DOMAIN f /\ DOMAIN g = DOMAIN f
      /\ \A y \in DOMAIN f \ {o} : g[y] = f[y]
      /\ f[o] = Counted(relayers[o], t) /\ g[o] = Counted(r, t)
  BY <1>1 DEF BondsIn
<1>4. g[o] \in Nat
  BY <1>1, <1>3, CountedType
<1> HIDE DEF f, g
<1>5. Total(g) = Total(f) - f[o] + g[o] /\ Total(f) \in Nat
  BY <1>2, <1>3, <1>4, TotalUpdate, TotalType
<1> QED BY <1>3, <1>5 DEF f, g

(* A call that books what it moves keeps the books exact.                  *)
LEMMA BooksFollow ==
    ASSUME RegistryTyped, BondsExact, NEW o \in Operators, NEW r, Rewrites(o, r),
           \A t \in BondTokens :
              registryBal'[t] = registryBal[t] - Counted(relayers[o], t) + Counted(r, t)
    PROVE  BondsExact'
<1> SUFFICES ASSUME NEW t \in BondTokens PROVE registryBal'[t] = Total(BondsIn(relayers', t))
  BY DEF BondsExact, BondsIn, Counted, Seated
<1>1. registryBal[t] = Total(BondsIn(relayers, t))
  BY DEF BondsExact, BondsIn, Counted, Seated
<1> QED BY <1>1, BondsUpdate

(* An empty registry has exact books.                                      *)
LEMMA BooksInit == RegistryInit => BondsExact
<1> SUFFICES ASSUME RegistryInit, NEW t \in BondTokens
             PROVE  registryBal[t] = Total(BondsIn(relayers, t))
  BY DEF BondsExact, BondsIn, Counted, Seated
<1>1. \A o \in DOMAIN BondsIn(relayers, t) : BondsIn(relayers, t)[o] = 0
  BY DEF RegistryInit, NoRelayer, BondsIn, Counted
<1> QED BY <1>1, TotalZero DEF RegistryInit

(* Every call books what it moves.                                         *)
LEMMA BooksStep == RegistryTyped /\ BondsExact /\ [RegistryNext]_registryAll => BondsExact'
<1> SUFFICES ASSUME RegistryTyped, BondsExact, [RegistryNext]_registryAll PROVE BondsExact'
  OBVIOUS
<1>0. /\ relayers \in [Operators -> RelayerRecords] /\ registryBal \in [BondTokens -> Nat]
      /\ bondToken \in BondTokens /\ now \in Nat
  BY DEF RegistryTyped, RegistryTypeOK, RelayerRecords
<1>1. ASSUME NEW o \in Operators, OperatorCall(o)
      PROVE  BondsExact'
  <2>0. /\ relayers[o] \in RelayerRecords /\ relayers[o].bond \in Nat
        /\ relayers[o].bondToken \in BondTokens /\ relayers[o].active \in BOOLEAN
    BY <1>0, RecordFields
  <2>1. ASSUME NEW n \in Nat, NEW received \in 0 .. n, register(o, n, received)
        PROVE  BondsExact'
    <3> DEFINE r == [active |-> TRUE, bond |-> received, bondToken |-> bondToken,
                     exitRequestedAt |-> 0]
    <3>1. Rewrites(o, r) /\ registryBal' = [registryBal EXCEPT ![bondToken] = @ + received]
      BY <2>1, RecordRewritten, BalanceAfter
    <3>2. ~relayers[o].active
      BY <2>1 DEF register, Seated
    <3>3. \A t \in BondTokens :
            registryBal'[t] = registryBal[t] - Counted(relayers[o], t) + Counted(r, t)
      BY <1>0, <3>1, <3>2 DEF Counted
    <3> QED BY <3>1, <3>3, BooksFollow
  <2>2. ASSUME NEW n \in Nat, NEW received \in 0 .. n, addBond(o, n, received)
        PROVE  BondsExact'
    <3> DEFINE r == [relayers[o] EXCEPT !.bond = @ + received]
    <3>1. /\ Rewrites(o, r)
          /\ registryBal' = [registryBal EXCEPT ![relayers[o].bondToken] = @ + received]
      BY <2>2, RecordRewritten, BalanceAfter
    <3>2. relayers[o].active
      BY <2>2 DEF addBond, Seated
    <3>3. r.active = relayers[o].active /\ r.bondToken = relayers[o].bondToken
          /\ r.bond = relayers[o].bond + received
      BY <2>0 DEF RelayerRecords
    <3> HIDE DEF r
    <3>4. \A t \in BondTokens :
            registryBal'[t] = registryBal[t] - Counted(relayers[o], t) + Counted(r, t)
      BY <1>0, <2>0, <3>1, <3>2, <3>3 DEF Counted
    <3> QED BY <3>1, <3>4, BooksFollow
  <2>3. ASSUME executeExit(o) PROVE BondsExact'
    <3> DEFINE r == [relayers[o] EXCEPT !.active = FALSE, !.bond = 0]
    <3>0. 0 \in Nat /\ 0 \in 0 .. 0
      OBVIOUS
    <3>1. /\ Rewrites(o, r)
          /\ registryBal' = [registryBal EXCEPT ![relayers[o].bondToken] = @ - relayers[o].bond]
      BY <2>3, <3>0, RecordRewritten, BalanceAfter
    <3>2. relayers[o].active
      BY <2>3 DEF executeExit, Exiting
    <3>3. r.active = FALSE
      BY <2>0 DEF RelayerRecords
    <3> HIDE DEF r
    <3>4. \A t \in BondTokens :
            registryBal'[t] = registryBal[t] - Counted(relayers[o], t) + Counted(r, t)
      BY <1>0, <2>0, <3>1, <3>2, <3>3 DEF Counted
    <3> QED BY <3>1, <3>4, BooksFollow
  <2>4. ASSUME NEW time, Rewrites(o, [relayers[o] EXCEPT !.exitRequestedAt = time]),
               registryBal' = registryBal
        PROVE  BondsExact'
    <3> DEFINE r == [relayers[o] EXCEPT !.exitRequestedAt = time]
    <3>1. r.active = relayers[o].active /\ r.bondToken = relayers[o].bondToken
          /\ r.bond = relayers[o].bond
      BY <2>0 DEF RelayerRecords
    <3> HIDE DEF r
    <3>2. \A t : Counted(r, t) = Counted(relayers[o], t) /\ Counted(relayers[o], t) \in Nat
      BY <2>0, <3>1, CountedType DEF Counted
    <3>3. \A t \in BondTokens :
            registryBal'[t] = registryBal[t] - Counted(relayers[o], t) + Counted(r, t)
      BY <1>0, <2>4, <3>2
    <3> QED BY <2>4, <3>3, BooksFollow DEF r
  <2>5. ASSUME requestExit(o) \/ adminRemoveRelayer(o) PROVE BondsExact'
    <3>0. 0 \in Nat /\ 0 \in 0 .. 0
      OBVIOUS
    <3> QED BY <2>4, <2>5, <3>0, RecordRewritten, BalanceAfter
  <2>6. \A n \in BondAmounts \cup {0} : n \in Nat
    BY BondAssumption
  <2> QED BY <1>1, <2>1, <2>2, <2>3, <2>5, <2>6, Zenon DEF OperatorCall
<1>2. CASE UNCHANGED <<relayers, registryBal>>
  BY <1>2 DEF BondsExact, Seated
<1> QED BY <1>1, <1>2, RegistryStepKinds DEF registryVars, registryAll

(* Whatever bond tokens the owner switches between, and whatever a token   *)
(* takes as a fee, the registry holds exactly the bonds on its books.      *)
THEOREM BondsStayExact == RegistrySpec => []BondsExact
<1> QED BY BooksInit, BooksStep, RegistryTypeInit, RegistryTypeStep, PTL DEF RegistrySpec

-----------------------------------------------------------------------------
(* The registry: exits and removals.                                       *)

(* What may happen to an operator that is leaving.                         *)
StaysOut(o) ==
    \/ /\ relayers'[o].active
       /\ relayers'[o].exitRequestedAt = relayers[o].exitRequestedAt
       /\ relayers'[o].bond >= relayers[o].bond
    \/ /\ ~relayers'[o].active
       /\ registryBal'[relayers[o].bondToken] =
              registryBal[relayers[o].bondToken] - relayers[o].bond

(* No call of anybody brings an operator back that is leaving.             *)
LEMMA RemovalStep ==
    ASSUME RegistryTyped, [RegistryNext]_registryAll, NEW o \in Operators, Exiting(o)
    PROVE  StaysOut(o)
<1>0. /\ relayers \in [Operators -> RelayerRecords] /\ registryBal \in [BondTokens -> Nat]
      /\ relayers[o] \in RelayerRecords /\ relayers[o].bond \in Nat
      /\ relayers[o].bondToken \in BondTokens /\ relayers[o].active
  BY RecordFields DEF RegistryTyped, RegistryTypeOK, RelayerRecords, Exiting
<1>1. CASE relayers'[o] = relayers[o]
  BY <1>0, <1>1 DEF StaysOut
<1>2. ASSUME NEW p \in Operators, NEW r, Rewrites(p, r), p # o
      PROVE  relayers'[o] = relayers[o]
  BY <1>0, <1>2 DEF Rewrites
<1>3. ASSUME NEW r, Rewrites(o, r) PROVE relayers'[o] = r
  BY <1>0, <1>3 DEF Rewrites
<1>4. ASSUME NEW n \in Nat, NEW received \in 0 .. n, addBond(o, n, received)
      PROVE  StaysOut(o)
  <2>1. relayers'[o] = [relayers[o] EXCEPT !.bond = @ + received]
    BY <1>3, <1>4, RecordRewritten
  <2> QED BY <1>0, <2>1 DEF RelayerRecords, StaysOut
<1>5. 0 \in Nat /\ 0 \in 0 .. 0
  OBVIOUS
<1>6. ASSUME executeExit(o) PROVE StaysOut(o)
  <2>1. /\ relayers'[o] = [relayers[o] EXCEPT !.active = FALSE, !.bond = 0]
        /\ registryBal' = [registryBal EXCEPT ![relayers[o].bondToken] = @ - relayers[o].bond]
    BY <1>3, <1>5, <1>6, RecordRewritten, BalanceAfter
  <2> QED BY <1>0, <2>1 DEF RelayerRecords, StaysOut
<1>7. ASSUME adminRemoveRelayer(o) PROVE StaysOut(o)
  <2>1. relayers'[o] = [relayers[o] EXCEPT !.exitRequestedAt = relayers[o].exitRequestedAt]
    BY <1>3, <1>5, <1>7, RecordRewritten DEF RemovalTime
  <2> QED BY <1>0, <2>1 DEF RelayerRecords, StaysOut
<1>8. \A n, received : ~register(o, n, received)
  BY DEF register, Seated, Exiting
<1>9. ~requestExit(o)
  BY DEF requestExit
<1>10. \A n \in BondAmounts \cup {0} : n \in Nat
  BY BondAssumption
<1>11. ASSUME OperatorCall(o) PROVE StaysOut(o)
  BY <1>4, <1>6, <1>7, <1>8, <1>9, <1>10, <1>11, Zenon DEF OperatorCall
<1>12. ASSUME NEW p \in Operators, p # o, OperatorCall(p) PROVE StaysOut(o)
  <2>1. ASSUME NEW n \in Nat, NEW received \in 0 .. n,
               register(p, n, received) \/ addBond(p, n, received)
        PROVE  relayers'[o] = relayers[o]
    BY <1>2, <1>12, <2>1, RecordRewritten
  <2>2. ASSUME requestExit(p) \/ executeExit(p) \/ adminRemoveRelayer(p)
        PROVE  relayers'[o] = relayers[o]
    BY <1>2, <1>5, <1>12, <2>2, RecordRewritten
  <2>3. relayers'[o] = relayers[o]
    BY <1>10, <1>12, <2>1, <2>2, Zenon DEF OperatorCall
  <2> QED BY <1>1, <2>3
<1>13. CASE UNCHANGED relayers
  BY <1>1, <1>13
<1> QED BY <1>11, <1>12, <1>13, RegistryStepKinds DEF registryVars, registryAll

(* A relayer that was removed or asked to leave stays out until the        *)
(* registry has paid its whole bond, whatever it or the owner calls.       *)
THEOREM RemovalsStick == RegistrySpec => RemovalSticks
<1>1. RegistryTyped /\ [RegistryNext]_registryAll
        => [\A o \in Operators : Exiting(o) => StaysOut(o)]_registryAll
  BY RemovalStep
<1>2. RegistrySpec => [][\A o \in Operators : Exiting(o) => StaysOut(o)]_registryAll
  BY <1>1, RegistryTypeInit, RegistryTypeStep, PTL DEF RegistrySpec
<1> QED BY <1>2 DEF RemovalSticks, StaysOut
-----------------------------------------------------------------------------
(* The treasury.                                                           *)

(* The treasury's steps, as they change the two books.                     *)
TreasuryBooks == <<treasuryBal, attributed>>

(* Lists and switch of the treasury.                                       *)
TreasuryListsOK ==
    beneficiary \subseteq Accounts /\ reporter \subseteq Reporters /\ treasuryPaused \in BOOLEAN

(* The two books are inductive together: a rescue stays within what is not *)
(* tagged because the tags are held.                                       *)
HeldInv ==
    /\ treasuryBal \in [Assets -> Nat] /\ attributed \in [Assets -> Nat]
    /\ AttributedIsHeld

(* The calls that move money or tag it keep the lists as they are.         *)
LEMMA MoneyStep ==
    ASSUME HeldInv, NEW a \in Assets, NEW n \in TreasuryAmounts,
           \/ \E tagged \in BOOLEAN : Receive(a, n, tagged)
           \/ \E r \in Reporters : recordRevenue(r, a, n)
           \/ \E to \in Accounts : withdrawTreasury(a, to, n) \/ rescue(a, to, n)
    PROVE  HeldInv' /\ UNCHANGED <<beneficiary, reporter, treasuryPaused>>
<1>0. /\ treasuryBal \in [Assets -> Nat] /\ attributed \in [Assets -> Nat] /\ n \in Nat
      /\ treasuryBal[a] \in Nat /\ attributed[a] \in Nat /\ attributed[a] <= treasuryBal[a]
      /\ \A b \in Assets : attributed[b] <= treasuryBal[b]
  BY TreasuryAmountsAssumption DEF HeldInv, AttributedIsHeld
<1>1. ASSUME NEW m \in Nat, NEW k \in Nat, k <= m,
             treasuryBal' = [treasuryBal EXCEPT ![a] = m],
             attributed' = [attributed EXCEPT ![a] = k]
      PROVE  HeldInv'
  BY <1>0, <1>1 DEF HeldInv, AttributedIsHeld
<1>2. /\ treasuryBal = [treasuryBal EXCEPT ![a] = treasuryBal[a]]
      /\ attributed = [attributed EXCEPT ![a] = attributed[a]]
  BY <1>0
<1>3. ASSUME NEW tagged \in BOOLEAN, Receive(a, n, tagged)
      PROVE  HeldInv' /\ UNCHANGED <<beneficiary, reporter, treasuryPaused>>
  <2>1. /\ treasuryBal' = [treasuryBal EXCEPT ![a] = treasuryBal[a] + n]
        /\ UNCHANGED <<beneficiary, reporter, treasuryPaused>>
    BY <1>3 DEF Receive
  <2>2. CASE tagged
    <3>1. attributed' = [attributed EXCEPT ![a] = attributed[a] + n]
      BY <1>3, <2>2, Zenon DEF Receive
    <3>2. treasuryBal[a] + n \in Nat /\ attributed[a] + n \in Nat
          /\ attributed[a] + n <= treasuryBal[a] + n
      BY <1>0
    <3> QED BY <1>1, <2>1, <3>1, <3>2
  <2>3. CASE ~tagged
    <3>1. attributed' = attributed
      BY <1>3, <2>3, Zenon DEF Receive
    <3>2. treasuryBal[a] + n \in Nat /\ attributed[a] <= treasuryBal[a] + n
      BY <1>0
    <3> QED BY <1>0, <1>1, <1>2, <2>1, <3>1, <3>2
  <2> QED BY <2>2, <2>3, Zenon
<1>4. ASSUME NEW r \in Reporters, recordRevenue(r, a, n)
      PROVE  HeldInv' /\ UNCHANGED <<beneficiary, reporter, treasuryPaused>>
  <2>1. /\ attributed' = [attributed EXCEPT ![a] = attributed[a] + n]
        /\ attributed[a] + n <= treasuryBal[a] /\ treasuryBal' = treasuryBal
        /\ UNCHANGED <<beneficiary, reporter, treasuryPaused>>
    BY <1>4 DEF recordRevenue
  <2>2. attributed[a] + n \in Nat
    BY <1>0
  <2> QED BY <1>0, <1>1, <1>2, <2>1, <2>2
<1>5. ASSUME NEW to \in Accounts, withdrawTreasury(a, to, n)
      PROVE  HeldInv' /\ UNCHANGED <<beneficiary, reporter, treasuryPaused>>
  <2>1. /\ attributed' = [attributed EXCEPT ![a] = AttributedAfter(a, n)]
        /\ treasuryBal' = [treasuryBal EXCEPT ![a] = treasuryBal[a] - n]
        /\ n <= treasuryBal[a]
        /\ UNCHANGED <<beneficiary, reporter, treasuryPaused>>
    BY <1>5 DEF withdrawTreasury
  <2>2. /\ treasuryBal[a] - n \in Nat /\ AttributedAfter(a, n) \in Nat
        /\ AttributedAfter(a, n) <= treasuryBal[a] - n
    BY <1>0, <2>1 DEF AttributedAfter
  <2> QED BY <1>1, <2>1, <2>2
<1>6. ASSUME NEW to \in Accounts, rescue(a, to, n)
      PROVE  HeldInv' /\ UNCHANGED <<beneficiary, reporter, treasuryPaused>>
  <2>1. /\ treasuryBal' = [treasuryBal EXCEPT ![a] = treasuryBal[a] - n]
        /\ n <= Rescuable(a) /\ n > 0 /\ attributed' = attributed
        /\ UNCHANGED <<beneficiary, reporter, treasuryPaused>>
    BY <1>6 DEF rescue, MayPay
  <2>2. treasuryBal[a] - n \in Nat /\ attributed[a] <= treasuryBal[a] - n
    BY <1>0, <2>1 DEF Rescuable
  <2> QED BY <1>0, <1>1, <1>2, <2>1, <2>2
<1> QED BY <1>3, <1>4, <1>5, <1>6, Zenon

(* The owner's calls leave the money alone.                                *)
LEMMA ListStep ==
    ASSUME TreasuryListsOK,
           \/ \E allowed \in BOOLEAN :
                 \/ \E x \in Accounts : setBeneficiary(x, allowed)
                 \/ \E r \in Reporters : setReporter(r, allowed)
           \/ SwitchPause
    PROVE  TreasuryListsOK' /\ UNCHANGED TreasuryBooks
<1> USE DEF TreasuryListsOK, TreasuryBooks
<1>1. ASSUME NEW allowed \in BOOLEAN, NEW x \in Accounts, setBeneficiary(x, allowed)
      PROVE  TreasuryListsOK' /\ UNCHANGED TreasuryBooks
  BY <1>1, Zenon DEF setBeneficiary
<1>2. ASSUME NEW allowed \in BOOLEAN, NEW r \in Reporters, setReporter(r, allowed)
      PROVE  TreasuryListsOK' /\ UNCHANGED TreasuryBooks
  BY <1>2, Zenon DEF setReporter
<1>3. CASE SwitchPause
  BY <1>3, Zenon DEF SwitchPause
<1> HIDE DEF TreasuryListsOK, TreasuryBooks
<1> QED BY <1>1, <1>2, <1>3, Zenon

(* Every call keeps the books and the lists in order.                      *)
LEMMA TreasuryStep ==
    HeldInv /\ TreasuryListsOK /\ [TreasuryNext]_treasuryVars => HeldInv' /\ TreasuryListsOK'
<1> SUFFICES ASSUME HeldInv, TreasuryListsOK, [TreasuryNext]_treasuryVars
             PROVE  HeldInv' /\ TreasuryListsOK'
  OBVIOUS
<1>1. ASSUME UNCHANGED <<beneficiary, reporter, treasuryPaused>> PROVE TreasuryListsOK'
  BY <1>1 DEF TreasuryListsOK
<1>2. ASSUME UNCHANGED TreasuryBooks PROVE HeldInv'
  BY <1>2 DEF HeldInv, AttributedIsHeld, TreasuryBooks
<1>3. CASE UNCHANGED treasuryVars
  BY <1>1, <1>2, <1>3 DEF treasuryVars, TreasuryBooks
<1>4. CASE TreasuryNext
  BY <1>1, <1>2, <1>4, MoneyStep, ListStep, Zenon DEF TreasuryNext
<1> QED BY <1>3, <1>4

(* An empty treasury holds its empty tags.                                 *)
LEMMA TreasuryStart == TreasuryInit => HeldInv /\ TreasuryListsOK
<1>1. TreasuryInit => HeldInv
  BY DEF TreasuryInit, HeldInv, AttributedIsHeld
<1>2. TreasuryInit => TreasuryListsOK
  BY Zenon DEF TreasuryInit, TreasuryListsOK
<1> QED BY <1>1, <1>2

(* The treasury's storage keeps its types.                                 *)
THEOREM TreasuryTypeCorrect == TreasurySpec => []TreasuryTypeOK
<1>1. HeldInv /\ TreasuryListsOK => TreasuryTypeOK
  BY DEF HeldInv, TreasuryListsOK, TreasuryTypeOK
<1> QED BY <1>1, TreasuryStart, TreasuryStep, PTL DEF TreasurySpec

(* Nothing is on the treasury's books as revenue that it does not hold,    *)
(* for any assets, amounts, reporters and beneficiaries.                   *)
THEOREM RevenueIsHeld == TreasurySpec => []AttributedIsHeld
<1>1. HeldInv => AttributedIsHeld
  BY DEF HeldInv
<1> QED BY <1>1, TreasuryStart, TreasuryStep, PTL DEF TreasurySpec

-----------------------------------------------------------------------------
(* The commitment pool.                                                    *)

USE DEF None

-----------------------------------------------------------------------------
(* What is owed in token t for the unspent notes of ls.                    *)
Owed(ls, ns, t) == Total(Live(ls, ns, t))

(* An amount of token u, seen as an amount of token t.                     *)
Of(u, n, t) == IF u = t THEN n ELSE 0

(* An amount seen from another token is still an amount.                   *)
LEMMA OfType ==
    ASSUME NEW u, NEW t, NEW n \in Nat
    PROVE  Of(u, n, t) \in Nat
BY DEF Of

(* The fields of a note.                                                   *)
LEMMA NoteFields ==
    ASSUME NEW note \in Notes
    PROVE  /\ note.secret \in Secrets /\ note.token \in Tokens
           /\ note.amount \in Nat /\ note.salt \in Salts
BY DEF Notes

(* A leaf of the log is a note.                                            *)
LEMMA NoteAt ==
    ASSUME NEW ls \in Seq(Notes), NEW i \in DOMAIN ls
    PROVE  ls[i] \in Notes /\ ls[i].amount \in Nat
<1>1. ls[i] \in Notes
  OBVIOUS
<1> QED BY <1>1, NoteFields

(* The unspent notes of a token are a family of amounts.                   *)
LEMMA LiveFamily ==
    ASSUME NEW ls \in Seq(Notes), NEW ns, NEW t
    PROVE  IsFamily(Live(ls, ns, t)) /\ Owed(ls, ns, t) \in Nat
<1> DEFINE D == {j \in DOMAIN ls : ls[j].token = t /\ EscrowNullifier(ls[j]) \notin ns}
<1>1. DOMAIN ls = 1 .. Len(ls) /\ Len(ls) \in Nat
  OBVIOUS
<1>2. IsFiniteSet(DOMAIN ls)
  BY <1>1, FS_Interval
<1>3. IsFiniteSet(D)
  BY <1>2, FS_Subset
<1>4. \A j \in D : ls[j].amount \in Nat
  BY NoteAt
<1>5. IsFamily(Live(ls, ns, t))
  BY <1>3, <1>4 DEF Live, IsFamily
<1> QED BY <1>5, TotalType DEF Owed

(* Appending a note adds at most its amount.                               *)
LEMMA OwedAppend ==
    ASSUME NEW ls \in Seq(Notes), NEW ns, NEW t, NEW note \in Notes
    PROVE  Owed(ls \o <<note>>, ns, t) <= Owed(ls, ns, t) + Of(note.token, note.amount, t)
<1> DEFINE new == ls \o <<note>>
<1> DEFINE x == Len(ls) + 1
<1> DEFINE f == Live(ls, ns, t)
<1> DEFINE g == Live(new, ns, t)
<1>1. /\ DOMAIN ls = 1 .. Len(ls) /\ Len(ls) \in Nat
      /\ DOMAIN new = 1 .. x
      /\ new[x] = note
      /\ \A j \in DOMAIN ls : new[j] = ls[j]
  OBVIOUS
<1>2. IsFamily(f) /\ Total(f) \in Nat
  BY LiveFamily DEF Owed
<1>3. note.amount \in Nat
  BY NoteFields
<1>4. CASE note.token = t /\ EscrowNullifier(note) \notin ns
  <2>1. Extends(g, f, x) /\ g[x] = note.amount
    BY <1>1, <1>4 DEF Live, Extends
  <2> HIDE DEF f, g, x
  <2>2. Total(g) = Total(f) + note.amount
    BY <1>2, <1>3, <2>1, TotalExtend
  <2> QED BY <1>2, <1>3, <1>4, <2>2 DEF Owed, Of, f, g
<1>5. CASE ~(note.token = t /\ EscrowNullifier(note) \notin ns)
  <2>1. f = g
    BY <1>1, <1>5 DEF Live
  <2>2. Of(note.token, note.amount, t) \in Nat
    BY <1>3, OfType
  <2> HIDE DEF f, g
  <2>3. Total(f) <= Total(f) + Of(note.token, note.amount, t)
    BY <1>2, <2>2
  <2> QED BY <2>1, <2>3 DEF Owed, f, g
<1> QED BY <1>4, <1>5

(* Spending the nullifier of an unspent note removes at least its amount;  *)
(* notes that share the nullifier die with it.                             *)
LEMMA OwedBurn ==
    ASSUME NEW ls \in Seq(Notes), NEW ns, NEW t, NEW i \in DOMAIN ls,
           EscrowNullifier(ls[i]) \notin ns
    PROVE  Owed(ls, ns \cup {EscrowNullifier(ls[i])}, t) + Of(ls[i].token, ls[i].amount, t)
             <= Owed(ls, ns, t)
<1> DEFINE ns2 == ns \cup {EscrowNullifier(ls[i])}
<1> DEFINE f == Live(ls, ns, t)
<1> DEFINE g == Live(ls, ns2, t)
<1>1. IsFamily(f) /\ IsFamily(g) /\ Total(f) \in Nat /\ Total(g) \in Nat
  BY LiveFamily DEF Owed
<1>2. ls[i].amount \in Nat
  BY NoteAt
<1>3. CASE ls[i].token = t
  <2> DEFINE h == [j \in DOMAIN g \cup {i} |-> IF j = i THEN ls[i].amount ELSE g[j]]
  <2>1. i \notin DOMAIN g /\ i \in DOMAIN f /\ f[i] = ls[i].amount
    BY <1>3 DEF Live
  <2>2. Extends(h, g, i) /\ h[i] = ls[i].amount
    BY <2>1 DEF Extends
  <2>3. DOMAIN h \subseteq DOMAIN f /\ \A j \in DOMAIN h : h[j] = f[j]
    BY <2>1 DEF Live
  <2> HIDE DEF f, g, h
  <2>4. Total(h) = Total(g) + ls[i].amount
    BY <1>1, <1>2, <2>2, TotalExtend
  <2>5. Total(h) <= Total(f)
    BY <1>1, <2>3, TotalSubfamily
  <2>6. Of(ls[i].token, ls[i].amount, t) = ls[i].amount
    BY <1>3 DEF Of
  <2> QED BY <2>4, <2>5, <2>6 DEF Owed, f, g
<1>4. CASE ls[i].token # t
  <2>1. DOMAIN g \subseteq DOMAIN f /\ \A j \in DOMAIN g : g[j] = f[j]
    BY DEF Live
  <2> HIDE DEF f, g
  <2>2. Total(g) <= Total(f)
    BY <1>1, <2>1, TotalSubfamily
  <2>3. Of(ls[i].token, ls[i].amount, t) = 0
    BY <1>4 DEF Of
  <2> QED BY <1>1, <2>2, <2>3 DEF Owed, f, g
<1> QED BY <1>3, <1>4

(* What is left of a note is at most one well-formed note.                 *)
LEMMA ChangeType ==
    ASSUME NEW note \in Notes, NEW amount \in Nat, amount <= note.amount, NEW salt \in Salts
    PROVE  Change(note, amount, salt) \in Seq(Notes)
<1>1. note.amount \in Nat
  BY NoteFields
<1>2. CASE note.amount = amount
  BY <1>2 DEF Change
<1>3. CASE note.amount # amount
  <2> DEFINE rest == [note EXCEPT !.amount = note.amount - amount, !.salt = salt]
  <2>1. note.amount - amount \in Nat
    BY <1>1
  <2>2. rest \in Notes
    BY <2>1 DEF Notes
  <2>3. Change(note, amount, salt) = <<rest>>
    BY <1>3 DEF Change
  <2> HIDE DEF rest
  <2> QED BY <2>2, <2>3
<1> QED BY <1>2, <1>3

(* Appending the change of a note adds at most what is left of it.         *)
LEMMA OwedAppendChange ==
    ASSUME NEW ls \in Seq(Notes), NEW ns, NEW t,
           NEW note \in Notes, NEW amount \in Nat, amount <= note.amount, NEW salt \in Salts
    PROVE  /\ ls \o Change(note, amount, salt) \in Seq(Notes)
           /\ Owed(ls \o Change(note, amount, salt), ns, t)
                <= Owed(ls, ns, t) + Of(note.token, note.amount - amount, t)
<1>1. note.amount \in Nat /\ note.amount - amount \in Nat
  BY NoteFields
<1>2. ls \o Change(note, amount, salt) \in Seq(Notes)
  BY ChangeType
<1>3. CASE note.amount = amount
  <2>1. ls \o Change(note, amount, salt) = ls
    BY <1>3 DEF Change
  <2>2. Of(note.token, note.amount - amount, t) = 0
    BY <1>1, <1>3 DEF Of
  <2>3. Owed(ls, ns, t) \in Nat
    BY LiveFamily
  <2>4. Owed(ls, ns, t) <= Owed(ls, ns, t) + 0
    BY <2>3
  <2>5. Owed(ls \o Change(note, amount, salt), ns, t)
          <= Owed(ls, ns, t) + Of(note.token, note.amount - amount, t)
    BY <2>1, <2>2, <2>4
  <2> QED BY <1>2, <2>5
<1>4. CASE note.amount # amount
  <2> DEFINE rest == [note EXCEPT !.amount = note.amount - amount, !.salt = salt]
  <2>1. rest \in Notes /\ rest.token = note.token /\ rest.amount = note.amount - amount
    BY <1>1 DEF Notes
  <2>2. Change(note, amount, salt) = <<rest>>
    BY <1>4 DEF Change
  <2> HIDE DEF rest
  <2>3. Owed(ls \o <<rest>>, ns, t) <= Owed(ls, ns, t) + Of(rest.token, rest.amount, t)
    BY <2>1, OwedAppend
  <2> QED BY <1>2, <2>1, <2>2, <2>3
<1> QED BY <1>3, <1>4

(* Spending a note and appending its change takes off what leaves it.      *)
LEMMA OwedSpend ==
    ASSUME NEW ls \in Seq(Notes), NEW ns, NEW t, NEW i \in DOMAIN ls,
           EscrowNullifier(ls[i]) \notin ns,
           NEW amount \in Nat, amount <= ls[i].amount, NEW salt \in Salts
    PROVE  /\ ls \o Change(ls[i], amount, salt) \in Seq(Notes)
           /\ Owed(ls \o Change(ls[i], amount, salt), ns \cup {EscrowNullifier(ls[i])}, t)
                + Of(ls[i].token, amount, t) <= Owed(ls, ns, t)
<1> DEFINE note == ls[i]
<1> DEFINE ns2 == ns \cup {EscrowNullifier(note)}
<1> DEFINE new == ls \o Change(note, amount, salt)
<1>1. note \in Notes /\ note.amount \in Nat
  BY NoteAt
<1>2. Owed(ls, ns2, t) + Of(note.token, note.amount, t) <= Owed(ls, ns, t)
  BY OwedBurn
<1>3. new \in Seq(Notes)
      /\ Owed(new, ns2, t) <= Owed(ls, ns2, t) + Of(note.token, note.amount - amount, t)
  BY <1>1, OwedAppendChange
<1> HIDE DEF note, ns2, new
<1>4. Owed(new, ns2, t) \in Nat /\ Owed(ls, ns2, t) \in Nat /\ Owed(ls, ns, t) \in Nat
  BY <1>3, LiveFamily
<1>5. amount <= note.amount
  BY DEF note
<1>6. Owed(new, ns2, t) + Of(note.token, amount, t) <= Owed(ls, ns, t)
  <2>1. CASE note.token = t
    BY <1>1, <1>2, <1>3, <1>4, <1>5, <2>1 DEF Of
  <2>2. CASE note.token # t
    BY <1>2, <1>3, <1>4, <2>2 DEF Of
  <2> QED BY <2>1, <2>2
<1> QED BY <1>3, <1>6 DEF note, ns2, new

(* Two bounds chained.                                                     *)
LEMMA AddSteps ==
    ASSUME NEW x \in Nat, NEW y \in Nat, NEW z \in Nat, NEW p \in Nat, NEW q \in Nat,
           x + q <= y, y + p <= z
    PROVE  x + p + q <= z
OBVIOUS

(* The same for two notes of different nullifiers.                         *)
LEMMA OwedSpendTwo ==
    ASSUME NEW ls \in Seq(Notes), NEW ns, NEW t, NEW i \in DOMAIN ls, NEW j \in DOMAIN ls,
           EscrowNullifier(ls[i]) \notin ns, EscrowNullifier(ls[j]) \notin ns,
           EscrowNullifier(ls[i]) # EscrowNullifier(ls[j]),
           NEW a \in Nat, a <= ls[i].amount, NEW b \in Nat, b <= ls[j].amount,
           NEW salt1 \in Salts, NEW salt2 \in Salts
    PROVE  LET new == ls \o (Change(ls[i], a, salt1) \o Change(ls[j], b, salt2))
               ns2 == ns \cup {EscrowNullifier(ls[i]), EscrowNullifier(ls[j])}
           IN  /\ new \in Seq(Notes)
               /\ Owed(new, ns2, t) + Of(ls[i].token, a, t) + Of(ls[j].token, b, t)
                    <= Owed(ls, ns, t)
<1> DEFINE c1 == Change(ls[i], a, salt1)
<1> DEFINE c2 == Change(ls[j], b, salt2)
<1> DEFINE n1 == EscrowNullifier(ls[i])
<1> DEFINE n2 == EscrowNullifier(ls[j])
<1> DEFINE mid == ls \o c1
<1> DEFINE ns1 == ns \cup {n1}
<1> DEFINE ns2 == ns \cup {n1, n2}
<1>0. c1 \in Seq(Notes) /\ c2 \in Seq(Notes)
  BY NoteAt, ChangeType
<1>1. mid \in Seq(Notes) /\ Owed(mid, ns1, t) + Of(ls[i].token, a, t) <= Owed(ls, ns, t)
  BY OwedSpend
<1>2. j \in DOMAIN mid /\ mid[j] = ls[j]
  <2> HIDE DEF c1
  <2> QED BY <1>0
<1>3. n2 \notin ns1
  OBVIOUS
<1>4. ns1 \cup {n2} = ns2
  OBVIOUS
<1> HIDE DEF mid, ns1, ns2, n1
<1>5. mid \o c2 \in Seq(Notes)
      /\ Owed(mid \o c2, ns1 \cup {n2}, t) + Of(ls[j].token, b, t) <= Owed(mid, ns1, t)
  BY <1>1, <1>2, <1>3, OwedSpend
<1> HIDE DEF c1, c2, n2
<1>6. mid \o c2 = ls \o (c1 \o c2)
  BY <1>0 DEF mid
<1>7. Owed(mid \o c2, ns2, t) \in Nat /\ Owed(mid, ns1, t) \in Nat /\ Owed(ls, ns, t) \in Nat
  BY <1>1, <1>5, LiveFamily
<1>8. Of(ls[i].token, a, t) \in Nat /\ Of(ls[j].token, b, t) \in Nat
  BY OfType
<1>9. Owed(mid \o c2, ns2, t) + Of(ls[j].token, b, t) <= Owed(mid, ns1, t)
  BY <1>4, <1>5
<1>10. Owed(mid \o c2, ns2, t) + Of(ls[i].token, a, t) + Of(ls[j].token, b, t) <= Owed(ls, ns, t)
  BY <1>1, <1>7, <1>8, <1>9, AddSteps
<1> QED BY <1>5, <1>6, <1>10 DEF c1, c2, n1, n2, ns2

(* A known membership proof is about a leaf of the log.                    *)
LEMMA MemberIndex ==
    ASSUME leaves \in Seq(Notes), NEW note, ProvesMembership(note)
    PROVE  \E i \in DOMAIN leaves : leaves[i] = note
<1>1. PICK root \in 0 .. Len(leaves) : \E i \in 1 .. root : leaves[i] = note
  BY DEF ProvesMembership, MemberUnder, Roots
<1>2. 1 .. root \subseteq DOMAIN leaves
  OBVIOUS
<1> QED BY <1>1, <1>2

-----------------------------------------------------------------------------
(* The log and the balances, which the settlement's steps share with the   *)
(* pool's own.                                                             *)
NotesOK ==
    /\ leaves \in Seq(Notes)
    /\ poolBal \in [Tokens -> Nat]

(* A deposit adds at least as many tokens as it adds to the notes.         *)
LEMMA PoolDepositOwed ==
    ASSUME NotesOK, NEW sender, NEW note \in Notes, PoolDeposit(sender, note), NEW t \in Tokens
    PROVE  /\ NotesOK'
           /\ poolBal[t] + Liability(t)' <= poolBal'[t] + Liability(t)
<1> USE DEF NotesOK
<1>1. leaves' = leaves \o <<note>> /\ poolNullifiers' = poolNullifiers
      /\ poolBal' = [poolBal EXCEPT ![note.token] = @ + note.amount]
  BY DEF PoolDeposit, Appended, Plus
<1>2. note.amount \in Nat /\ note.token \in Tokens
  BY NoteFields
<1>3. leaves' \in Seq(Notes)
  BY <1>1
<1>4. poolBal' \in [Tokens -> Nat] /\ poolBal'[t] = poolBal[t] + Of(note.token, note.amount, t)
  BY <1>1, <1>2 DEF Of
<1>5. Liability(t) = Owed(leaves, poolNullifiers, t)
      /\ Liability(t)' = Owed(leaves \o <<note>>, poolNullifiers, t)
  BY <1>1 DEF Liability, Owed, Live
<1>6. Liability(t)' <= Liability(t) + Of(note.token, note.amount, t)
  BY <1>5, OwedAppend
<1>7. Liability(t) \in Nat /\ Liability(t)' \in Nat
  BY <1>1, <1>3, <1>5, LiveFamily
<1>8. Of(note.token, note.amount, t) \in Nat /\ poolBal[t] \in Nat
  BY <1>2, OfType
<1> QED BY <1>3, <1>4, <1>6, <1>7, <1>8

(* A withdrawal takes at least as much off the notes as off the tokens.    *)
LEMMA ProcessWithdrawOwed ==
    ASSUME NotesOK, NEW note \in Notes, NEW amount \in Nat, NEW salt \in Salts,
           ProcessWithdraw(note, amount, salt), NEW t \in Tokens
    PROVE  /\ NotesOK'
           /\ poolBal[t] + Liability(t)' <= poolBal'[t] + Liability(t)
<1> USE DEF NotesOK
<1> DEFINE n == EscrowNullifier(note)
<1> DEFINE ns == poolNullifiers \cup {n}
<1> DEFINE change == Change(note, amount, salt)
<1>1. /\ leaves' = leaves \o change /\ poolNullifiers' = ns
      /\ poolBal' = [poolBal EXCEPT ![note.token] = @ - amount]
      /\ amount <= note.amount /\ amount <= poolBal[note.token] /\ n \notin poolNullifiers
      /\ ProvesMembership(note)
  BY DEF ProcessWithdraw, Appended, Minus, Spent
<1>2. note.amount \in Nat /\ note.token \in Tokens
  BY NoteFields
<1>3. PICK i \in DOMAIN leaves : leaves[i] = note
  BY <1>1, MemberIndex
<1> HIDE DEF n, ns, change
<1>4. poolBal' \in [Tokens -> Nat] /\ poolBal'[t] = poolBal[t] - Of(note.token, amount, t)
  BY <1>1, <1>2 DEF Of
<1>5. Liability(t) = Owed(leaves, poolNullifiers, t)
      /\ Liability(t)' = Owed(leaves \o change, ns, t)
  BY <1>1 DEF Liability, Owed, Live
<1>6. leaves \o change \in Seq(Notes)
      /\ Owed(leaves \o change, ns, t) + Of(note.token, amount, t) <= Owed(leaves, poolNullifiers, t)
  BY <1>1, <1>3, OwedSpend DEF n, ns, change
<1>7. Liability(t) \in Nat /\ Liability(t)' \in Nat
  BY <1>5, <1>6, LiveFamily
<1>8. Of(note.token, amount, t) \in Nat /\ poolBal[t] \in Nat
  BY OfType
<1>9. NotesOK'
  BY <1>1, <1>4, <1>6
<1> QED BY <1>4, <1>5, <1>6, <1>7, <1>8, <1>9

-----------------------------------------------------------------------------
(* Each kind of step keeps the types of the pool's storage.                *)
LEMMA PoolTypeInit == PoolStart => PoolTypeOK
<1> SUFFICES ASSUME PoolStart PROVE PoolTypeOK
  OBVIOUS
<1>1. leaves \in Seq(Notes) /\ Len(leaves) <= Capacity
  BY CapacityAssumption DEF PoolStart, PoolInit, LogInit
<1> QED BY <1>1, SettlementAssumption, PoolCfgAssumption
        DEF PoolStart, PoolInit, PoolTypeOK, Zero, NothingQueued

(* A step that leaves the owner's settings alone keeps the types.          *)
LEMMA NoteVarsType ==
    ASSUME PoolTypeOK, NotesOK', Len(leaves)' <= Capacity,
           poolNullifiers' \subseteq Secrets \X Salts, UNCHANGED <<poolAdminVars, now>>
    PROVE  PoolTypeOK'
BY DEF PoolTypeOK, NotesOK, poolAdminVars, timelockVars, complianceVars

(* Users and settlement contracts keep the types.                          *)
LEMMA PoolUserType ==
    ASSUME PoolTypeOK, PoolUser \/ AnySettlement, UNCHANGED now
    PROVE  PoolTypeOK'
<1>0. NotesOK /\ poolNullifiers \subseteq Secrets \X Salts
  BY DEF PoolTypeOK, NotesOK
<1>1. ASSUME NEW sender, NEW note \in DepositNotes, PoolDeposit(sender, note)
      PROVE  PoolTypeOK'
  <2>1. note \in Notes
    BY NotesAssumption
  <2>2. NotesOK'
    <3>1. PICK t \in Tokens : TRUE
      BY <2>1, NoteFields
    <3> QED BY <1>0, <1>1, <2>1, PoolDepositOwed
  <2>3. Len(leaves)' <= Capacity /\ poolNullifiers' = poolNullifiers /\ UNCHANGED poolAdminVars
    <3>1. leaves' = leaves \o <<note>> /\ Len(leaves) + Len(<<note>>) <= Capacity
      BY <1>1 DEF PoolDeposit, HasRoomFor, Appended
    <3>2. Len(leaves \o <<note>>) = Len(leaves) + Len(<<note>>)
      BY <1>0, <2>1 DEF NotesOK
    <3> QED BY <1>1, <3>1, <3>2 DEF PoolDeposit
  <2> QED BY <1>0, <2>2, <2>3, NoteVarsType
<1>2. ASSUME NEW i \in DOMAIN leaves, NEW amount \in WithdrawAmounts, NEW salt \in Salts,
             ProcessWithdraw(leaves[i], amount, salt)
      PROVE  PoolTypeOK'
  <2> DEFINE note == leaves[i]
  <2> DEFINE change == Change(note, amount, salt)
  <2>1. note \in Notes /\ amount \in Nat
    BY <1>0, NoteAt, WithdrawAssumption DEF NotesOK
  <2>2. NotesOK'
    <3>1. PICK t \in Tokens : TRUE
      BY <2>1, NoteFields
    <3> QED BY <1>0, <1>2, <2>1, ProcessWithdrawOwed
  <2>3. /\ amount <= note.amount
        /\ leaves' = leaves \o change
        /\ Len(leaves) + Len(change) <= Capacity
        /\ poolNullifiers' = poolNullifiers \cup {EscrowNullifier(note)}
        /\ UNCHANGED poolAdminVars
    BY <1>2 DEF ProcessWithdraw, HasRoomFor, Appended
  <2>4. EscrowNullifier(note) \in Secrets \X Salts
    BY <2>1, NoteFields DEF EscrowNullifier
  <2>5. change \in Seq(Notes)
    BY <2>1, <2>3, ChangeType
  <2> HIDE DEF change
  <2>6. Len(leaves)' <= Capacity
    BY <1>0, <2>3, <2>5 DEF NotesOK
  <2> QED BY <1>0, <2>2, <2>3, <2>4, <2>6, NoteVarsType
<1>3. ASSUME NEW caller, NEW note \in DepositNotes, insertCommitment(caller, note)
      PROVE  PoolTypeOK'
  <2>1. note \in Notes
    BY NotesAssumption
  <2>2. leaves' = leaves \o <<note>> /\ Len(leaves) + Len(<<note>>) <= Capacity
        /\ UNCHANGED <<poolNullifiers, poolBal, poolAdminVars>>
    BY <1>3 DEF insertCommitment, HasRoomFor, Appended
  <2>3. NotesOK' /\ Len(leaves)' <= Capacity
    BY <1>0, <2>1, <2>2 DEF NotesOK
  <2> QED BY <1>0, <2>2, <2>3, NoteVarsType
<1>4. ASSUME NEW caller, NEW n \in Secrets \X Salts, spendEscrowNullifier(caller, n)
      PROVE  PoolTypeOK'
  <2>1. UNCHANGED <<leaves, poolBal, poolAdminVars>> /\ poolNullifiers' = poolNullifiers \cup {n}
    BY <1>4 DEF spendEscrowNullifier
  <2>2. NotesOK' /\ Len(leaves)' <= Capacity
    BY <2>1, <1>0 DEF NotesOK, PoolTypeOK
  <2> QED BY <1>0, <2>1, <2>2, NoteVarsType
<1>5. ASSUME NEW caller, NEW t \in Tokens, NEW amount \in WithdrawAmounts, poolTransfer(caller, t, amount)
      PROVE  PoolTypeOK'
  <2>1. UNCHANGED <<leaves, poolNullifiers, poolAdminVars>>
        /\ poolBal' = [poolBal EXCEPT ![t] = @ - amount] /\ amount <= poolBal[t]
    BY <1>5 DEF poolTransfer, Minus
  <2>2. amount \in Nat
    BY WithdrawAssumption
  <2>3. poolBal' \in [Tokens -> Nat]
    BY <1>0, <2>1, <2>2 DEF NotesOK
  <2>4. NotesOK' /\ Len(leaves)' <= Capacity
    BY <2>1, <2>3, <1>0 DEF NotesOK, PoolTypeOK
  <2> QED BY <1>0, <2>1, <2>4, NoteVarsType
<1>6. CASE PoolUser
  BY <1>1, <1>2, <1>6 DEF PoolUser, withdraw
<1>7. CASE AnySettlement
  BY <1>2, <1>3, <1>4, <1>5, <1>7 DEF AnySettlement, withdrawFor
<1> QED BY <1>6, <1>7

(* So do the owner and the compliance lists.                               *)
LEMMA PoolOwnerType ==
    ASSUME PoolTypeOK, PoolOwner, UNCHANGED now
    PROVE  PoolTypeOK'
<1> USE DEF PoolTypeOK
<1>1. CASE SettlementAdmin
  <2>1. now + SETTLEMENT_TIMELOCK \in Nat
    BY SettlementAssumption
  <2>2. UNCHANGED <<leaves, poolNullifiers, poolBal, poolCfg, sanctioned, verified>>
    BY <1>1 DEF SettlementAdmin, noteVars, complianceVars
  <2>3. /\ authorizedSettlement' \in Settlements \cup {None}
        /\ pendingSettlement' \in [addr : Settlements \cup {None}, activateAt : Nat]
        /\ queued' \in [addr : Settlements \cup {None}, at : Nat]
    BY <1>1, <2>1 DEF SettlementAdmin, queueSetAuthorizedSettlement,
       activateAuthorizedSettlement, setAuthorizedSettlement, NothingQueued
  <2> QED BY <2>2, <2>3
<1>2. CASE PoolSwitch
  <2>1. poolCfg' \in PoolCfgs
    <3>0. poolCfg \in PoolCfgs
      OBVIOUS
    <3>1. CASE pausePool \/ unpausePool
      BY <3>0, <3>1 DEF PoolCfgs, pausePool, unpausePool
    <3>2. ASSUME NEW t \in Tokens, NEW b \in BOOLEAN, setPoolTokenWhitelist(t, b)
          PROVE  poolCfg' \in PoolCfgs
      <4> DEFINE w == IF b THEN poolCfg.whitelistedTokens \cup {t}
                      ELSE poolCfg.whitelistedTokens \ {t}
      <4>1. w \in SUBSET Tokens
        BY <3>0, Zenon DEF PoolCfgs
      <4>2. poolCfg' = [poolCfg EXCEPT !.whitelistedTokens = w]
        BY <3>2 DEF setPoolTokenWhitelist
      <4> HIDE DEF w
      <4> QED BY <3>0, <4>1, <4>2 DEF PoolCfgs
    <3>3. ASSUME NEW b \in BOOLEAN, setPoolSanctionsList(b) \/ setPoolIdentityGate(b)
          PROVE  poolCfg' \in PoolCfgs
      BY <3>0, <3>3 DEF PoolCfgs, setPoolSanctionsList, setPoolIdentityGate
    <3> QED BY <1>2, <3>1, <3>2, <3>3 DEF PoolSwitch
  <2> QED BY <1>2, <2>1 DEF PoolSwitch, noteVars, timelockVars, complianceVars
<1>3. CASE ComplianceChange
  BY <1>3 DEF ComplianceChange, noteVars, timelockVars
<1> QED BY <1>1, <1>2, <1>3 DEF PoolOwner

(* So does every step.                                                     *)
LEMMA PoolTypeStep == PoolTypeOK /\ [PoolNext]_poolAndClock => PoolTypeOK'
<1> SUFFICES ASSUME PoolTypeOK, [PoolNext]_poolAndClock PROVE PoolTypeOK'
  OBVIOUS
<1>1. CASE (PoolUser \/ AnySettlement) /\ UNCHANGED now
  BY <1>1, PoolUserType
<1>2. CASE PoolOwner /\ UNCHANGED now
  BY <1>2, PoolOwnerType
<1>3. CASE Tick /\ UNCHANGED poolVars
  BY <1>3, TimeAssumption DEF Tick, PoolTypeOK, poolVars, noteVars, poolAdminVars,
     timelockVars, complianceVars
<1>4. CASE UNCHANGED poolAndClock
  BY <1>4 DEF PoolTypeOK, poolAndClock, poolVars, noteVars, poolAdminVars,
     timelockVars, complianceVars
<1> QED BY <1>1, <1>2, <1>3, <1>4 DEF PoolNext

(* The pool's storage keeps its types and the tree never outgrows its      *)
(* capacity, whatever users, owner and settlement contracts do.            *)
THEOREM PoolTypeCorrect == PoolSpec => []PoolTypeOK
<1> QED BY PoolTypeInit, PoolTypeStep, PTL DEF PoolSpec

-----------------------------------------------------------------------------
(* The settlement's timelock: what is pending is the last one queued, and  *)
(* due a full timelock after that.  Activation and the first, immediate    *)
(* setAuthorizedSettlement cannot break this, in any order.                *)
PendingWasQueued ==
    pendingSettlement.addr # None =>
       /\ pendingSettlement.addr = queued.addr
       /\ pendingSettlement.activateAt = queued.at + SETTLEMENT_TIMELOCK

(* Nothing is pending at first.                                            *)
LEMMA PendingQueuedInit == PoolStart => PendingWasQueued
BY DEF PoolStart, PoolInit, PendingWasQueued, NothingQueued

(* Only the owner's three settlement operations touch the timelock.        *)
LEMMA TimelockSteps ==
    ASSUME [PoolNext]_poolAndClock
    PROVE  \/ (\E s \in Settlements : queueSetAuthorizedSettlement(s)) /\ UNCHANGED now
           \/ activateAuthorizedSettlement /\ UNCHANGED now
           \/ (\E s \in Settlements : setAuthorizedSettlement(s)) /\ UNCHANGED now
           \/ UNCHANGED timelockVars
<1>1. CASE PoolUser \/ AnySettlement
  <2>1. UNCHANGED poolAdminVars
    BY <1>1 DEF PoolUser, AnySettlement, PoolDeposit, withdraw, withdrawFor, ProcessWithdraw,
       insertCommitment, spendEscrowNullifier, poolTransfer
  <2> QED BY <2>1 DEF poolAdminVars
<1>2. CASE PoolOwner /\ UNCHANGED now
  BY <1>2 DEF PoolOwner, SettlementAdmin, PoolSwitch, ComplianceChange
<1>3. CASE UNCHANGED poolVars
  BY <1>3 DEF poolVars, poolAdminVars
<1>4. CASE UNCHANGED poolAndClock
  BY <1>4 DEF poolAndClock, poolVars, poolAdminVars
<1> QED BY <1>1, <1>2, <1>3, <1>4 DEF PoolNext

(* Every step keeps what is pending in line with what was queued.          *)
LEMMA PendingQueuedStep == PendingWasQueued /\ [PoolNext]_poolAndClock => PendingWasQueued'
<1> SUFFICES ASSUME PendingWasQueued, [PoolNext]_poolAndClock PROVE PendingWasQueued'
  OBVIOUS
<1> USE DEF PendingWasQueued
<1>1. ASSUME NEW s \in Settlements, queueSetAuthorizedSettlement(s), UNCHANGED now
      PROVE  PendingWasQueued'
  BY <1>1 DEF queueSetAuthorizedSettlement
<1>2. CASE activateAuthorizedSettlement
  BY <1>2 DEF activateAuthorizedSettlement, NothingQueued
<1>3. ASSUME NEW s \in Settlements, setAuthorizedSettlement(s)
      PROVE  PendingWasQueued'
  BY <1>3 DEF setAuthorizedSettlement
<1>4. CASE UNCHANGED timelockVars
  BY <1>4 DEF timelockVars
<1> QED BY <1>1, <1>2, <1>3, <1>4, TimelockSteps

(* Only an activation replaces a settlement, and it waits for the timelock.*)
LEMMA SettlementTimelockStep ==
    PendingWasQueued /\ [PoolNext]_poolAndClock =>
      [ authorizedSettlement' # authorizedSettlement =>
          \/ authorizedSettlement = None
          \/ /\ queued.addr = authorizedSettlement'
             /\ now >= queued.at + SETTLEMENT_TIMELOCK ]_poolAndClock
<1> SUFFICES ASSUME PendingWasQueued, [PoolNext]_poolAndClock,
                    authorizedSettlement' # authorizedSettlement, authorizedSettlement # None
             PROVE  queued.addr = authorizedSettlement' /\ now >= queued.at + SETTLEMENT_TIMELOCK
  OBVIOUS
<1>1. activateAuthorizedSettlement
  BY TimelockSteps DEF queueSetAuthorizedSettlement, setAuthorizedSettlement, timelockVars
<1> QED BY <1>1 DEF PendingWasQueued, activateAuthorizedSettlement, TimelockExpired

(* A contract that may move the pool's tokens was either the first one, or *)
(* the last one queued a full SETTLEMENT_TIMELOCK before, for any timelock *)
(* and any settlement contracts.                                           *)
THEOREM SettlementTimelock == PoolSpec => SettlementChangeWasQueued
<1> QED BY SettlementTimelockStep, PendingQueuedInit, PendingQueuedStep, PTL
        DEF PoolSpec, SettlementChangeWasQueued

-----------------------------------------------------------------------------
(* A step without an authorized settlement is a user's or the owner's.     *)
LEMMA UsersOnlyStep ==
    PoolTypeOK /\ [PoolNext]_poolAndClock =>
      [ authorizedSettlement = None =>
          \A t \in Tokens : poolBal[t] + Liability(t)' <= poolBal'[t] + Liability(t) ]_poolAndClock
<1> SUFFICES ASSUME PoolTypeOK, PoolNext, authorizedSettlement = None, NEW t \in Tokens
             PROVE  poolBal[t] + Liability(t)' <= poolBal'[t] + Liability(t)
  OBVIOUS
<1>0. NotesOK
  BY DEF PoolTypeOK, NotesOK
<1>1. CASE UNCHANGED noteVars
  <2>1. Liability(t)' = Liability(t) /\ poolBal' = poolBal
    BY <1>1 DEF noteVars, Liability, Live
  <2>2. Liability(t) = Owed(leaves, poolNullifiers, t)
    BY DEF Liability, Owed
  <2>3. Liability(t) \in Nat /\ poolBal[t] \in Nat
    BY <1>0, <2>2, LiveFamily DEF NotesOK
  <2> QED BY <2>1, <2>3
<1>2. ASSUME NEW sender, NEW note \in DepositNotes, PoolDeposit(sender, note)
      PROVE  poolBal[t] + Liability(t)' <= poolBal'[t] + Liability(t)
  BY <1>0, <1>2, NotesAssumption, PoolDepositOwed
<1>3. ASSUME NEW i \in DOMAIN leaves, NEW amount \in WithdrawAmounts, NEW salt \in Salts,
             ProcessWithdraw(leaves[i], amount, salt)
      PROVE  poolBal[t] + Liability(t)' <= poolBal'[t] + Liability(t)
  <2>1. leaves[i] \in Notes /\ amount \in Nat
    BY <1>0, NoteAt, WithdrawAssumption DEF NotesOK
  <2> QED BY <1>0, <1>3, <2>1, ProcessWithdrawOwed
<1>4. CASE PoolUser
  BY <1>2, <1>3, <1>4 DEF PoolUser, withdraw
<1>5. ~AnySettlement
  BY DEF AnySettlement, withdrawFor, insertCommitment, spendEscrowNullifier, poolTransfer,
     FromSettlement
<1>6. CASE PoolOwner
  BY <1>1, <1>6 DEF PoolOwner, SettlementAdmin, PoolSwitch, ComplianceChange
<1>7. CASE UNCHANGED poolVars
  BY <1>1, <1>7 DEF poolVars
<1> QED BY <1>4, <1>5, <1>6, <1>7 DEF PoolNext

(* Without an authorized settlement, no step makes the pool's tokens fall  *)
(* behind its unspent notes: for any users, notes, salts and amounts.      *)
THEOREM UsersOnly == PoolSpec => UsersTakeOnlyTheirNotes
<1> QED BY UsersOnlyStep, PoolTypeInit, PoolTypeStep, PTL DEF PoolSpec, UsersTakeOnlyTheirNotes

-----------------------------------------------------------------------------
(* Which steps touch the notes, and how.                                   *)

(* The steps that burn notes for the settlement contract.                  *)
Settling ==
    \/ \E maker \in Proofs, taker \in Proofs, feeMaker \in Fees, feeTaker \in Fees :
         \E sender \in {maker.order.relayer, taker.order.relayer} :
           settleAuth(sender, maker, taker, feeMaker, feeTaker)
    \/ \E side \in Proofs, fee \in Fees : scatterDirectAuth(side.order.relayer, side, fee)
    \/ \E side \in Proofs, router \in Routers, amountOut \in DexOutputs :
         \E spent \in 0 .. side.order.sellAmount :
           settleWithDex(side.order.relayer, side, router, spent, amountOut)

(* Every other step leaves the notes, the order nullifiers or both alone.  *)
LEMMA StepKinds ==
    ASSUME [Next]_vars
    PROVE  \/ Settling
           \/ Cancel
           \/ PoolUser /\ UNCHANGED <<settlementVars, vaultVars, now>>
           \/ OwnerOfSettlement /\ UNCHANGED <<noteVars, orderVars>>
           \/ UNCHANGED <<noteVars, orderVars, cfg>>
<1>1. CASE Settle
  BY <1>1 DEF Settle, Settling
<1>2. CASE Cancel
  BY <1>2
<1>3. CASE Claim
  BY <1>3 DEF Claim, executeClaims, poolVars
<1>4. CASE OwnerOfSettlement
  BY <1>4 DEF OwnerOfSettlement, poolVars
<1>5. CASE RegistryChange
  BY <1>5 DEF RegistryChange, poolVars
<1>6. CASE (PoolUser \/ PoolOwner) /\ UNCHANGED <<settlementVars, vaultVars, now>>
  <2>1. CASE PoolUser
    BY <1>6, <2>1
  <2>2. CASE PoolOwner
    <3>1. UNCHANGED noteVars
      BY <2>2 DEF PoolOwner, SettlementAdmin, PoolSwitch, ComplianceChange
    <3> QED BY <1>6, <3>1 DEF settlementVars
  <2> QED BY <1>6, <2>1, <2>2
<1>7. CASE Vault /\ UNCHANGED <<settlementVars, poolVars>>
  BY <1>7 DEF settlementVars, poolVars
<1>8. CASE Tick /\ UNCHANGED <<settlementVars, poolVars, vaultVars>>
  BY <1>8 DEF settlementVars, poolVars
<1>9. CASE UNCHANGED vars
  BY <1>9 DEF vars, settlementVars, poolVars
<1> QED BY <1>1, <1>2, <1>3, <1>4, <1>5, <1>6, <1>7, <1>8, <1>9 DEF Next

-----------------------------------------------------------------------------
(* Whatever the settlement burns, it also burns in the pool, and the pool  *)
(* never forgets a nullifier.                                              *)
LEMMA SettledSpentStep == SettledNotesAreSpent /\ [Next]_vars => SettledNotesAreSpent'
<1> SUFFICES ASSUME SettledNotesAreSpent, [Next]_vars PROVE SettledNotesAreSpent'
  OBVIOUS
<1> USE DEF SettledNotesAreSpent
<1>1. ASSUME NEW sides, NEW residuals, Burn(sides, residuals)
      PROVE  SettledNotesAreSpent'
  BY <1>1 DEF Burn, SpentInPool
<1>2. CASE Settling
  <2>1. ASSUME NEW sender, NEW maker, NEW taker, NEW fee1, NEW fee2,
               settleAuth(sender, maker, taker, fee1, fee2)
        PROVE  SettledNotesAreSpent'
    BY <1>1, <2>1 DEF settleAuth
  <2>2. ASSUME NEW sender, NEW side, NEW fee, scatterDirectAuth(sender, side, fee)
        PROVE  SettledNotesAreSpent'
    BY <1>1, <2>2 DEF scatterDirectAuth
  <2>3. ASSUME NEW sender, NEW side, NEW router, NEW spent, NEW amountOut,
               settleWithDex(sender, side, router, spent, amountOut)
        PROVE  SettledNotesAreSpent'
    BY <1>1, <2>3 DEF settleWithDex
  <2> QED BY <1>2, <2>1, <2>2, <2>3, Zenon DEF Settling
<1>3. CASE Cancel
  BY <1>3 DEF Cancel, cancelPrivate
<1>4. CASE PoolUser /\ UNCHANGED <<settlementVars, vaultVars, now>>
  <2>1. poolNullifiers \subseteq poolNullifiers'
    BY <1>4 DEF PoolUser, PoolDeposit, withdraw, ProcessWithdraw
  <2>2. nullifiers' = nullifiers
    BY <1>4 DEF settlementVars, orderVars
  <2> QED BY <2>1, <2>2
<1>5. CASE UNCHANGED <<noteVars, orderVars>>
  BY <1>5 DEF noteVars, orderVars
<1> QED BY <1>2, <1>3, <1>4, <1>5, StepKinds

(* A note that was settled, scattered, swapped or cancelled can never be   *)
(* withdrawn from the pool, for any users, orders and interleaving.        *)
THEOREM SettledAreSpent == Spec => []SettledNotesAreSpent
<1>1. Init => SettledNotesAreSpent
  BY DEF Init, PoolInit, SettledNotesAreSpent
<1> QED BY <1>1, SettledSpentStep, PTL DEF Spec

-----------------------------------------------------------------------------
(* The switches keep their types, and a DEX fee keeps its vault.           *)
CfgOK == cfg \in Cfgs /\ DexFeeHasVault

(* Adding and removing an element stays inside the set.                    *)
LEMMA WithType ==
    ASSUME NEW S, NEW x \in S, NEW T \in SUBSET S, NEW b \in BOOLEAN
    PROVE  With(T, x, b) \in SUBSET S
BY Zenon DEF With

(* Every setter keeps the switches in order.                               *)
LEMMA CfgOwner ==
    ASSUME CfgOK, OwnerOfSettlement
    PROVE  CfgOK'
<1>0. cfg \in Cfgs /\ DexFeeHasVault
  BY DEF CfgOK
<1> USE DEF CfgOK, DexFeeHasVault
<1>1. CASE pause \/ unpause
  BY <1>0, <1>1 DEF Cfgs, pause, unpause
<1>2. ASSUME NEW t \in Tokens, NEW b \in BOOLEAN, setTokenWhitelist(t, b)
      PROVE  CfgOK'
  <2>1. With(cfg.whitelistedTokens, t, b) \in SUBSET Tokens
    <3>1. cfg.whitelistedTokens \in SUBSET Tokens
      BY <1>0 DEF Cfgs
    <3> QED BY <3>1, WithType
  <2> QED BY <1>0, <1>2, <2>1 DEF Cfgs, setTokenWhitelist
<1>3. ASSUME NEW tier \in Tiers, NEW b \in BOOLEAN,
             \/ setAuthorizeVerifier(tier, b) \/ setBatchAuthorizeVerifier(tier, b)
             \/ setClaimVerifier(tier, b)
      PROVE  CfgOK'
  <2>1. /\ With(cfg.authorizeTiers, tier, b) \in SUBSET Tiers
        /\ With(cfg.batchTiers, tier, b) \in SUBSET Tiers
        /\ With(cfg.claimTiers, tier, b) \in SUBSET Tiers
    <3>1. /\ cfg.authorizeTiers \in SUBSET Tiers /\ cfg.batchTiers \in SUBSET Tiers
          /\ cfg.claimTiers \in SUBSET Tiers
      BY <1>0 DEF Cfgs
    <3> QED BY <3>1, WithType
  <2> QED BY <1>0, <1>3, <2>1
          DEF Cfgs, setAuthorizeVerifier, setBatchAuthorizeVerifier, setClaimVerifier
<1>4. ASSUME NEW b \in BOOLEAN,
             \/ setCancelVerifier(b) \/ setSanctionsList(b) \/ setIdentityGate(b)
             \/ setRelayerRegistry(b)
      PROVE  CfgOK'
  BY <1>0, <1>4 DEF Cfgs, setCancelVerifier, setSanctionsList, setIdentityGate, setRelayerRegistry
<1>5. ASSUME NEW router \in Routers, NEW b \in BOOLEAN, setDexRouterWhitelist(router, b)
      PROVE  CfgOK'
  <2>1. With(cfg.routers, router, b) \in SUBSET Routers
    <3>1. cfg.routers \in SUBSET Routers
      BY <1>0 DEF Cfgs
    <3> QED BY <3>1, WithType
  <2> QED BY <1>0, <1>5, <2>1 DEF Cfgs, setDexRouterWhitelist
<1>6. ASSUME NEW b \in BOOLEAN, setFeeVault(b)
      PROVE  CfgOK'
  <2>1. CASE b
    <3>1. cfg' = [cfg EXCEPT !.feeVault = TRUE]
      BY <1>6, <2>1, Zenon DEF setFeeVault
    <3> QED BY <1>0, <3>1 DEF Cfgs
  <2>2. CASE ~b
    <3>1. cfg' = [cfg EXCEPT !.feeVault = FALSE, !.dexPlatformFeeBps = 0]
      BY <1>6, <2>2 DEF setFeeVault, CfgWithoutVault
    <3>2. cfg' \in Cfgs
      BY <1>0, <3>1 DEF Cfgs
    <3>3. cfg'.dexPlatformFeeBps = 0
      BY <1>0, <3>1 DEF Cfgs
    <3> QED BY <3>2, <3>3
  <2> QED BY <2>1, <2>2, Zenon
<1>7. ASSUME NEW bps \in DexFees, setDexPlatformFee(bps)
      PROVE  CfgOK'
  BY <1>0, <1>7, FeesAssumption DEF Cfgs, setDexPlatformFee
<1>8. ASSUME NEW tier \in Tiers, NEW b \in BOOLEAN,
             \/ setAuthorizeVerifier(tier, b) \/ setBatchAuthorizeVerifier(tier, b)
             \/ setClaimVerifier(tier, b) \/ setCancelVerifier(b)
      PROVE  CfgOK'
  BY <1>3, <1>4, <1>8, Zenon
<1>9. ASSUME \/ \E b \in BOOLEAN : setFeeVault(b)
             \/ \E bps \in DexFees : setDexPlatformFee(bps)
             \/ \E router \in Routers, b \in BOOLEAN : setDexRouterWhitelist(router, b)
      PROVE  CfgOK'
  BY <1>5, <1>6, <1>7, <1>9, Zenon
<1>10. ASSUME NEW b \in BOOLEAN,
              setSanctionsList(b) \/ setIdentityGate(b) \/ setRelayerRegistry(b)
       PROVE  CfgOK'
  BY <1>4, <1>10, Zenon
<1>11. \/ pause \/ unpause
       \/ \E t \in Tokens, b \in BOOLEAN : setTokenWhitelist(t, b)
       \/ \E tier \in Tiers, b \in BOOLEAN :
            \/ setAuthorizeVerifier(tier, b) \/ setBatchAuthorizeVerifier(tier, b)
            \/ setClaimVerifier(tier, b) \/ setCancelVerifier(b)
       \/ \E b \in BOOLEAN :
            setSanctionsList(b) \/ setIdentityGate(b) \/ setRelayerRegistry(b)
       \/ \E b \in BOOLEAN : setFeeVault(b)
       \/ \E bps \in DexFees : setDexPlatformFee(bps)
       \/ \E router \in Routers, b \in BOOLEAN : setDexRouterWhitelist(router, b)
  BY Zenon DEF OwnerOfSettlement
<1> HIDE DEF CfgOK, DexFeeHasVault
<1> QED BY <1>1, <1>2, <1>8, <1>9, <1>10, <1>11, Zenon

(* No other step touches the switches.                                     *)
LEMMA CfgStep == CfgOK /\ [Next]_vars => CfgOK'
<1> SUFFICES ASSUME CfgOK, [Next]_vars PROVE CfgOK'
  OBVIOUS
<1>1. CASE UNCHANGED cfg
  BY <1>1 DEF CfgOK, DexFeeHasVault
<1>2. CASE Settling
  <2>1. ASSUME NEW maker \in Proofs, NEW taker \in Proofs, NEW feeMaker \in Fees,
               NEW feeTaker \in Fees, NEW sender,
               settleAuth(sender, maker, taker, feeMaker, feeTaker)
        PROVE  UNCHANGED cfg
    BY <2>1 DEF settleAuth
  <2>2. ASSUME NEW side \in Proofs, NEW fee \in Fees,
               scatterDirectAuth(side.order.relayer, side, fee)
        PROVE  UNCHANGED cfg
    BY <2>2 DEF scatterDirectAuth
  <2>3. ASSUME NEW side \in Proofs, NEW router \in Routers, NEW amountOut \in DexOutputs,
               NEW spent, settleWithDex(side.order.relayer, side, router, spent, amountOut)
        PROVE  UNCHANGED cfg
    BY <2>3 DEF settleWithDex
  <2>4. UNCHANGED cfg
    BY <1>2, <2>1, <2>2, <2>3, Zenon DEF Settling
  <2> QED BY <1>1, <2>4
<1>3. CASE Cancel
  BY <1>1, <1>3 DEF Cancel, cancelPrivate
<1>4. CASE UNCHANGED settlementVars
  BY <1>1, <1>4 DEF settlementVars
<1> QED BY <1>1, <1>2, <1>3, <1>4, CfgOwner, StepKinds

(* The switches start in order.                                            *)
LEMMA CfgInit == Init => CfgOK
BY CfgAssumption DEF Init, CfgOK, DexFeeHasVault

(* A DEX platform fee is never configured without the vault that collects  *)
(* it, in whatever order the owner adds and removes the two.               *)
THEOREM DexFeeNeedsVault == Spec => []DexFeeHasVault
<1>1. CfgOK => DexFeeHasVault
  BY DEF CfgOK
<1> QED BY <1>1, CfgInit, CfgStep, PTL DEF Spec

-----------------------------------------------------------------------------
(* The pool's solvency.  Every step takes no more tokens out of the pool   *)
(* than it takes off the unspent notes.                                    *)

(* What the circuits and the orders say about the two sides of a trade.    *)
LEMMA OrderFields ==
    ASSUME NEW o \in Orders
    PROVE  /\ o.sellToken \in Tokens /\ o.buyToken \in Tokens
           /\ o.sellAmount \in Nat /\ Locked(o.claims) \in Nat
<1>1. /\ o.sellToken \in Tokens /\ o.buyToken \in Tokens
      /\ o.sellAmount \in Nat /\ o.claims \in Seq(ClaimLeaves)
  BY OrdersAssumption DEF OrderTypes
<1> DEFINE cs == o.claims
<1> DEFINE f == [i \in DOMAIN cs |-> cs[i].amount]
<1> HIDE DEF cs
<1>2. cs \in Seq(ClaimLeaves)
  BY <1>1 DEF cs
<1>3. DOMAIN cs = 1 .. Len(cs) /\ Len(cs) \in Nat
  BY <1>2
<1>4. ASSUME NEW i \in DOMAIN cs PROVE cs[i].amount \in Nat
  <2>1. cs[i] \in ClaimLeaves
    BY <1>2
  <2> QED BY <2>1 DEF ClaimLeaves
<1>5. IsFamily(f)
  BY <1>3, <1>4, FS_Interval DEF IsFamily
<1>6. Total(f) \in Nat
  BY <1>5, TotalType
<1> QED BY <1>1, <1>6 DEF Locked, cs

(* What an accepted proof says of its order and its note.                  *)
LEMMA ProofFields ==
    ASSUME NEW p \in Proofs
    PROVE  /\ p.order \in Orders /\ p.newSalt \in Salts
           /\ \E i \in DOMAIN leaves : leaves[i] = p.note
           /\ p.note.token = p.order.sellToken
           /\ p.order.sellAmount <= p.note.amount
<1>1. p \in [order : Orders, note : {leaves[i] : i \in DOMAIN leaves}, newSalt : Salts]
      /\ Authorizes(p.order, p.note)
  BY Zenon DEF Proofs
<1>2. p.order \in Orders /\ p.newSalt \in Salts /\ p.note \in {leaves[i] : i \in DOMAIN leaves}
  BY <1>1
<1> QED BY <1>1, <1>2 DEF Authorizes

(* Burning one side of a trade takes what it sells off the unspent notes.  *)
LEMMA BurnOne ==
    ASSUME NotesOK, NEW side \in Proofs, Unspent(side), Burn({side}, Residual(side)),
           NEW t \in Tokens
    PROVE  /\ leaves' \in Seq(Notes)
           /\ Liability(t) \in Nat /\ Liability(t)' \in Nat
           /\ Liability(t)' + Of(side.order.sellToken, side.order.sellAmount, t) <= Liability(t)
<1> DEFINE o == side.order
<1> DEFINE note == side.note
<1> DEFINE change == Change(note, o.sellAmount, side.newSalt)
<1> DEFINE n == EscrowNullifier(note)
<1>1. /\ o \in Orders /\ side.newSalt \in Salts /\ note.token = o.sellToken
      /\ o.sellAmount <= note.amount
  BY ProofFields
<1>2. PICK i \in DOMAIN leaves : leaves[i] = note
  BY ProofFields
<1>3. o.sellAmount \in Nat
  BY <1>1, OrderFields
<1>4. n \notin poolNullifiers
  BY DEF Unspent, Nullifier, Spent
<1>5. leaves' = leaves \o change /\ poolNullifiers' = poolNullifiers \cup {n}
  BY DEF Burn, SpentInPool, Nullifier, Appended, Residual
<1>6. /\ leaves \o change \in Seq(Notes)
      /\ Owed(leaves \o change, poolNullifiers \cup {n}, t) + Of(note.token, o.sellAmount, t)
           <= Owed(leaves, poolNullifiers, t)
  BY <1>1, <1>2, <1>3, <1>4, OwedSpend DEF NotesOK
<1> HIDE DEF change, n, note, o
<1>7. Liability(t) = Owed(leaves, poolNullifiers, t)
      /\ Liability(t)' = Owed(leaves \o change, poolNullifiers \cup {n}, t)
  BY <1>5 DEF Liability, Owed, Live
<1>8. Liability(t) \in Nat /\ Liability(t)' \in Nat
  BY <1>6, <1>7, LiveFamily DEF NotesOK
<1> QED BY <1>1, <1>5, <1>6, <1>7, <1>8 DEF o

(* Burning both sides takes off what both of them sell.                    *)
LEMMA BurnTwo ==
    ASSUME NotesOK, NEW maker \in Proofs, NEW taker \in Proofs, Unspent(maker), Unspent(taker),
           Nullifier(maker) # Nullifier(taker),
           Burn({maker, taker}, Residual(maker) \o Residual(taker)), NEW t \in Tokens
    PROVE  /\ leaves' \in Seq(Notes)
           /\ Liability(t) \in Nat /\ Liability(t)' \in Nat
           /\ Liability(t)' + Of(maker.order.sellToken, maker.order.sellAmount, t)
                            + Of(taker.order.sellToken, taker.order.sellAmount, t)
                <= Liability(t)
<1> DEFINE a == maker.order.sellAmount
<1> DEFINE b == taker.order.sellAmount
<1> DEFINE n1 == EscrowNullifier(maker.note)
<1> DEFINE n2 == EscrowNullifier(taker.note)
<1> DEFINE change == Change(maker.note, a, maker.newSalt) \o Change(taker.note, b, taker.newSalt)
<1> DEFINE ns == poolNullifiers \cup {n1, n2}
<1>1. /\ maker.order \in Orders /\ maker.newSalt \in Salts
      /\ maker.note.token = maker.order.sellToken /\ a <= maker.note.amount
  BY ProofFields
<1>2. /\ taker.order \in Orders /\ taker.newSalt \in Salts
      /\ taker.note.token = taker.order.sellToken /\ b <= taker.note.amount
  BY ProofFields
<1>3. PICK i \in DOMAIN leaves : leaves[i] = maker.note
  BY ProofFields
<1>4. PICK j \in DOMAIN leaves : leaves[j] = taker.note
  BY ProofFields
<1>5. a \in Nat /\ b \in Nat
  BY <1>1, <1>2, OrderFields
<1>6. n1 \notin poolNullifiers /\ n2 \notin poolNullifiers /\ n1 # n2
  BY DEF Unspent, Nullifier, Spent
<1>7. leaves' = leaves \o change /\ poolNullifiers' = ns
  <2>1. {Nullifier(s) : s \in {maker, taker}} = {n1, n2}
    BY Zenon DEF Nullifier
  <2> QED BY <2>1 DEF Burn, SpentInPool, Appended, Residual
<1>8. /\ leaves \o change \in Seq(Notes)
      /\ Owed(leaves \o change, ns, t) + Of(maker.note.token, a, t) + Of(taker.note.token, b, t)
           <= Owed(leaves, poolNullifiers, t)
  <2>1. leaves \in Seq(Notes)
    BY DEF NotesOK
  <2> QED BY <1>1, <1>2, <1>3, <1>4, <1>5, <1>6, <2>1, OwedSpendTwo
<1> HIDE DEF change, n1, n2, ns, a, b
<1>9. Liability(t) = Owed(leaves, poolNullifiers, t)
      /\ Liability(t)' = Owed(leaves \o change, ns, t)
  BY <1>7 DEF Liability, Owed, Live
<1>10. Liability(t) \in Nat /\ Liability(t)' \in Nat
  BY <1>8, <1>9, LiveFamily DEF NotesOK
<1> QED BY <1>1, <1>2, <1>7, <1>8, <1>9, <1>10 DEF a, b

(* The inductive invariant: the switches (the DEX fee must be a number)    *)
(* and the solvency of a well-formed log.                                  *)
SolventOK == CfgOK /\ NotesOK /\ PoolSolvent

(* Each side's claims and fee fit in what the other side sold.             *)
LEMMA SolventSettleAuth ==
    ASSUME SolventOK, NEW maker \in Proofs, NEW taker \in Proofs, NEW feeMaker \in Fees,
           NEW feeTaker \in Fees, NEW sender, settleAuth(sender, maker, taker, feeMaker, feeTaker)
    PROVE  NotesOK' /\ PoolSolvent'
<1> DEFINE m == maker.order
<1> DEFINE k == taker.order
<1> DEFINE a == Locked(m.claims) + feeMaker
<1> DEFINE b == Locked(k.claims) + feeTaker
<1> DEFINE out == SettleOut(m, k, feeMaker, feeTaker)
<1>0. NotesOK /\ PoolSolvent
  BY DEF SolventOK
<1>1. /\ Unspent(maker) /\ Unspent(taker) /\ Nullifier(maker) # Nullifier(taker)
      /\ Burn({maker, taker}, Residual(maker) \o Residual(taker))
      /\ m.sellToken = k.buyToken /\ k.sellToken = m.buyToken
      /\ a <= k.sellAmount /\ b <= m.sellAmount
      /\ Covers(poolBal, out) /\ poolBal' = Less(poolBal, out)
  BY DEF settleAuth, SettleAuthChecks, CrossSideValid, WithinCap
<1>2. m \in Orders /\ k \in Orders
  BY ProofFields
<1>3. /\ m.buyToken \in Tokens /\ k.buyToken \in Tokens
      /\ m.sellAmount \in Nat /\ k.sellAmount \in Nat
      /\ a \in Nat /\ b \in Nat
  BY <1>2, OrderFields, FeesAssumption
<1> HIDE DEF a, b, m, k
<1>4. ASSUME NEW t \in Tokens
      PROVE  out[t] = Of(m.buyToken, a, t) + Of(k.buyToken, b, t)
  BY <1>3 DEF SettleOut, Plus, Zero, Of, a, b
<1> HIDE DEF out
<1>5. ASSUME NEW t \in Tokens
      PROVE  /\ leaves' \in Seq(Notes)
             /\ poolBal'[t] \in Nat
             /\ Liability(t)' <= poolBal'[t]
  <2>1. /\ leaves' \in Seq(Notes) /\ Liability(t) \in Nat /\ Liability(t)' \in Nat
        /\ Liability(t)' + Of(m.sellToken, m.sellAmount, t) + Of(k.sellToken, k.sellAmount, t)
             <= Liability(t)
    BY <1>0, <1>1, BurnTwo DEF m, k
  <2>2. /\ Of(m.sellToken, m.sellAmount, t) \in Nat /\ Of(k.sellToken, k.sellAmount, t) \in Nat
        /\ Of(m.buyToken, a, t) \in Nat /\ Of(k.buyToken, b, t) \in Nat
    BY <1>3, OfType
  <2>3. /\ Of(m.buyToken, a, t) <= Of(k.sellToken, k.sellAmount, t)
        /\ Of(k.buyToken, b, t) <= Of(m.sellToken, m.sellAmount, t)
    BY <1>1, <1>3 DEF Of
  <2>4. poolBal[t] \in Nat /\ Liability(t) <= poolBal[t] /\ out[t] <= poolBal[t]
        /\ poolBal'[t] = poolBal[t] - out[t]
    BY <1>0, <1>1 DEF NotesOK, PoolSolvent, Covers, Less
  <2> QED BY <1>4, <2>1, <2>2, <2>3, <2>4
<1>6. leaves' \in Seq(Notes)
  BY <1>3, <1>5
<1>7. poolBal' \in [Tokens -> Nat]
  BY <1>1, <1>5 DEF Less
<1> QED BY <1>5, <1>6, <1>7 DEF NotesOK, PoolSolvent

(* Claims and fee of a scatter fit in what was sold.                       *)
LEMMA SolventScatter ==
    ASSUME SolventOK, NEW side \in Proofs, NEW fee \in Fees, NEW sender,
           scatterDirectAuth(sender, side, fee)
    PROVE  NotesOK' /\ PoolSolvent'
<1> DEFINE o == side.order
<1> DEFINE a == Locked(o.claims) + fee
<1>0. NotesOK /\ PoolSolvent
  BY DEF SolventOK
<1>1. /\ Unspent(side) /\ Burn({side}, Residual(side))
      /\ a <= o.sellAmount /\ a <= poolBal[o.sellToken]
      /\ poolBal' = [poolBal EXCEPT ![o.sellToken] = @ - a]
  BY DEF scatterDirectAuth, WithinCap, Minus
<1>2. o \in Orders
  BY ProofFields
<1>3. o.sellToken \in Tokens /\ o.sellAmount \in Nat /\ a \in Nat
  BY <1>2, OrderFields, FeesAssumption
<1> HIDE DEF a, o
<1>4. poolBal' \in [Tokens -> Nat]
  BY <1>0, <1>1, <1>3 DEF NotesOK
<1>5. ASSUME NEW t \in Tokens
      PROVE  leaves' \in Seq(Notes) /\ Liability(t)' <= poolBal'[t]
  <2>1. /\ leaves' \in Seq(Notes) /\ Liability(t) \in Nat /\ Liability(t)' \in Nat
        /\ Liability(t)' + Of(o.sellToken, o.sellAmount, t) <= Liability(t)
    BY <1>0, <1>1, BurnOne DEF o
  <2>2. poolBal[t] \in Nat /\ Liability(t) <= poolBal[t]
        /\ poolBal'[t] = poolBal[t] - Of(o.sellToken, a, t)
    BY <1>0, <1>1, <1>3 DEF NotesOK, PoolSolvent, Of
  <2>3. Of(o.sellToken, a, t) <= Of(o.sellToken, o.sellAmount, t)
    BY <1>1, <1>3 DEF Of
  <2>4. Of(o.sellToken, a, t) \in Nat /\ Of(o.sellToken, o.sellAmount, t) \in Nat
    BY <1>3, OfType
  <2> QED BY <2>1, <2>2, <2>3, <2>4
<1> QED BY <1>3, <1>4, <1>5 DEF NotesOK, PoolSolvent

(* The platform fee of a swap is a number and at most goes to the vault.   *)
LEMMA DexFeeType ==
    ASSUME CfgOK, NEW amount \in Nat
    PROVE  DexFee(amount) \in Nat /\ ToVault(DexFee(amount)) \in 0 .. DexFee(amount)
<1>1. cfg.dexPlatformFeeBps \in Nat
  BY DEF CfgOK, Cfgs
<1>2. amount * cfg.dexPlatformFeeBps \in Nat
  BY <1>1
<1>3. DexFee(amount) \in Nat
  BY <1>2 DEF DexFee, FEE_BPS_DENOMINATOR
<1> QED BY <1>3 DEF ToVault

(* A swap takes out what was sold and returns what is left of it.          *)
LEMMA SolventDex ==
    ASSUME SolventOK, NEW side \in Proofs, NEW router, NEW amountOut, NEW sender,
           NEW spent \in 0 .. side.order.sellAmount,
           settleWithDex(sender, side, router, spent, amountOut)
    PROVE  NotesOK' /\ PoolSolvent'
<1> DEFINE o == side.order
<1> DEFINE fee == DexFee(o.sellAmount)
<1> DEFINE back == o.sellAmount - ToVault(fee) - spent
<1>0. CfgOK /\ NotesOK /\ PoolSolvent
  BY DEF SolventOK
<1>1. o \in Orders
  BY ProofFields
<1>2. o.sellToken \in Tokens /\ o.sellAmount \in Nat
  BY <1>1, OrderFields
<1>3. /\ Unspent(side) /\ Burn({side}, Residual(side))
      /\ o.sellAmount <= poolBal[o.sellToken]
      /\ spent <= o.sellAmount - fee
      /\ poolBal' = Plus(Minus(poolBal, o.sellToken, o.sellAmount), o.sellToken, back)
  BY DEF settleWithDex, Returned
<1>4. fee \in Nat /\ ToVault(fee) \in 0 .. fee
  BY <1>0, <1>2, DexFeeType
<1>5. spent \in Nat
  BY <1>2
<1> HIDE DEF fee, o
<1>6. back \in Nat
  BY <1>2, <1>3, <1>4, <1>5
<1> HIDE DEF back
<1>7. poolBal \in [Tokens -> Nat]
  BY <1>0 DEF NotesOK
<1>8. poolBal' = [poolBal EXCEPT ![o.sellToken] = @ - o.sellAmount + back]
  BY <1>2, <1>3, <1>7 DEF Plus, Minus
<1>9. poolBal' \in [Tokens -> Nat]
  BY <1>2, <1>3, <1>6, <1>7, <1>8
<1>10. ASSUME NEW t \in Tokens
       PROVE  leaves' \in Seq(Notes) /\ Liability(t)' <= poolBal'[t]
  <2>1. /\ leaves' \in Seq(Notes) /\ Liability(t) \in Nat /\ Liability(t)' \in Nat
        /\ Liability(t)' + Of(o.sellToken, o.sellAmount, t) <= Liability(t)
    BY <1>0, <1>3, BurnOne DEF o
  <2>2. poolBal[t] \in Nat /\ Liability(t) <= poolBal[t]
    BY <1>0, <1>7 DEF PoolSolvent
  <2>3. CASE t = o.sellToken
    BY <1>2, <1>6, <1>7, <1>8, <2>1, <2>2, <2>3 DEF Of
  <2>4. CASE t # o.sellToken
    BY <1>7, <1>8, <2>1, <2>2, <2>4 DEF Of
  <2> QED BY <2>1, <2>3, <2>4
<1> QED BY <1>2, <1>9, <1>10 DEF NotesOK, PoolSolvent

(* A cancelled note comes back under a fresh salt with the same amount.    *)
LEMMA SolventCancel ==
    ASSUME SolventOK, NEW i \in DOMAIN leaves, NEW nonce \in Nonces, NEW salt \in Salts,
           cancelPrivate(leaves[i], nonce, salt)
    PROVE  NotesOK' /\ PoolSolvent'
<1> DEFINE note == leaves[i]
<1> DEFINE fresh == [note EXCEPT !.salt = salt]
<1> DEFINE ns == poolNullifiers \cup {EscrowNullifier(note)}
<1>0. NotesOK /\ PoolSolvent /\ leaves \in Seq(Notes) /\ poolBal \in [Tokens -> Nat]
  BY DEF SolventOK, NotesOK
<1>1. /\ leaves' = leaves \o <<fresh>> /\ poolNullifiers' = ns /\ poolBal' = poolBal
      /\ EscrowNullifier(note) \notin poolNullifiers
  BY DEF cancelPrivate, Appended, Spent
<1>2. note \in Notes /\ note.amount \in Nat
  BY <1>0, NoteAt
<1>3. fresh \in Notes /\ fresh.token = note.token /\ fresh.amount = note.amount
  BY <1>2 DEF Notes
<1>4. ASSUME NEW t \in Tokens PROVE Liability(t)' <= poolBal'[t]
  <2>1. Owed(leaves, ns, t) + Of(note.token, note.amount, t) <= Owed(leaves, poolNullifiers, t)
    BY <1>0, <1>1, OwedBurn
  <2> HIDE DEF fresh, ns, note
  <2>2. Owed(leaves \o <<fresh>>, ns, t) <= Owed(leaves, ns, t) + Of(fresh.token, fresh.amount, t)
    BY <1>0, <1>3, OwedAppend
  <2>3. leaves \o <<fresh>> \in Seq(Notes)
    BY <1>0, <1>3
  <2>4. Liability(t) = Owed(leaves, poolNullifiers, t)
        /\ Liability(t)' = Owed(leaves \o <<fresh>>, ns, t)
    BY <1>1 DEF Liability, Owed, Live
  <2>5. /\ Owed(leaves, ns, t) \in Nat /\ Owed(leaves, poolNullifiers, t) \in Nat
        /\ Owed(leaves \o <<fresh>>, ns, t) \in Nat
    BY <1>0, <2>3, LiveFamily
  <2>6. Of(note.token, note.amount, t) \in Nat
    BY <1>2, OfType
  <2>7. poolBal[t] \in Nat /\ Liability(t) <= poolBal[t] /\ poolBal'[t] = poolBal[t]
    BY <1>0, <1>1 DEF PoolSolvent
  <2> QED BY <1>3, <2>1, <2>2, <2>4, <2>5, <2>6, <2>7
<1> HIDE DEF fresh
<1> QED BY <1>0, <1>1, <1>3, <1>4 DEF NotesOK, PoolSolvent

(* Deposits and withdrawals cost the pool no more than they take off the   *)
(* notes.                                                                  *)
LEMMA SolventUser ==
    ASSUME SolventOK, PoolUser
    PROVE  NotesOK' /\ PoolSolvent'
<1>0. NotesOK /\ PoolSolvent /\ leaves \in Seq(Notes) /\ poolBal \in [Tokens -> Nat]
  BY DEF SolventOK, NotesOK
<1>1. ASSUME NotesOK',
             \A t \in Tokens : poolBal[t] + Liability(t)' <= poolBal'[t] + Liability(t)
      PROVE  PoolSolvent'
  <2> SUFFICES ASSUME NEW t \in Tokens PROVE Liability(t)' <= poolBal'[t]
    BY DEF PoolSolvent
  <2>1. Liability(t) = Owed(leaves, poolNullifiers, t)
        /\ Liability(t)' = Owed(leaves', poolNullifiers', t)
    BY DEF Liability, Owed, Live
  <2>2. Liability(t) \in Nat /\ Liability(t)' \in Nat /\ poolBal[t] \in Nat /\ poolBal'[t] \in Nat
    BY <1>0, <1>1, <2>1, LiveFamily DEF NotesOK
  <2>3. Liability(t) <= poolBal[t]
    BY <1>0 DEF PoolSolvent
  <2> QED BY <1>1, <2>2, <2>3
<1>2. ASSUME NEW sender, NEW note \in DepositNotes, PoolDeposit(sender, note)
      PROVE  NotesOK' /\ PoolSolvent'
  <2>1. note \in Notes
    BY NotesAssumption
  <2>2. note.token \in Tokens
    BY <2>1, NoteFields
  <2> QED BY <1>0, <1>1, <1>2, <2>1, <2>2, PoolDepositOwed
<1>3. ASSUME NEW i \in DOMAIN leaves, NEW amount \in WithdrawAmounts, NEW salt \in Salts,
             ProcessWithdraw(leaves[i], amount, salt)
      PROVE  NotesOK' /\ PoolSolvent'
  <2>1. leaves[i] \in Notes /\ amount \in Nat
    BY <1>0, NoteAt, WithdrawAssumption
  <2>2. leaves[i].token \in Tokens
    BY <2>1, NoteFields
  <2> QED BY <1>0, <1>1, <1>3, <2>1, <2>2, ProcessWithdrawOwed
<1> QED BY <1>2, <1>3, Zenon DEF PoolUser, withdraw

(* An empty pool is solvent.                                               *)
LEMMA SolventInit == Init => SolventOK
<1> SUFFICES ASSUME Init PROVE SolventOK
  OBVIOUS
<1>1. leaves = << >> /\ poolBal = [t \in Tokens |-> 0]
  BY DEF Init, PoolInit, LogInit, Zero
<1>2. NotesOK
  BY <1>1 DEF NotesOK
<1>3. ASSUME NEW t \in Tokens PROVE Liability(t) = 0
  <2>1. \A x \in DOMAIN Live(leaves, poolNullifiers, t) : Live(leaves, poolNullifiers, t)[x] = 0
    BY <1>1 DEF Live
  <2> QED BY <2>1, TotalZero DEF Liability
<1>4. ASSUME NEW t \in Tokens PROVE Liability(t) <= poolBal[t]
  <2>1. poolBal[t] = 0
    BY <1>1
  <2> QED BY <1>3, <2>1
<1>5. PoolSolvent
  BY <1>4 DEF PoolSolvent
<1> QED BY <1>2, <1>5, CfgInit DEF SolventOK

(* Every step keeps the pool solvent.                                      *)
LEMMA SolventStep == SolventOK /\ [Next]_vars => SolventOK'
<1> SUFFICES ASSUME SolventOK, [Next]_vars PROVE SolventOK'
  OBVIOUS
<1>0. CfgOK /\ CfgOK'
  BY CfgStep DEF SolventOK
<1>1. CASE Settling
  <2>1. NotesOK' /\ PoolSolvent'
    BY <1>1, SolventSettleAuth, SolventScatter, SolventDex, Zenon DEF Settling
  <2> QED BY <1>0, <2>1 DEF SolventOK
<1>2. CASE Cancel
  <2>1. NotesOK' /\ PoolSolvent'
    BY <1>2, SolventCancel, Zenon DEF Cancel
  <2> QED BY <1>0, <2>1 DEF SolventOK
<1>3. CASE PoolUser
  BY <1>0, <1>3, SolventUser DEF SolventOK
<1>4. CASE UNCHANGED noteVars
  <2>1. NotesOK' /\ PoolSolvent'
    BY <1>4 DEF SolventOK, noteVars, NotesOK, PoolSolvent, Liability, Live
  <2> QED BY <1>0, <2>1 DEF SolventOK
<1> QED BY <1>1, <1>2, <1>3, <1>4, StepKinds

(* The pool can pay all its unspent notes at the same time: for any users, *)
(* orders, fees, routers and switches, and any interleaving of deposits,   *)
(* withdrawals, settlements, swaps, cancellations and owner operations.    *)
THEOREM PoolStaysSolvent == Spec => []PoolSolvent
<1>1. SolventOK => PoolSolvent
  BY DEF SolventOK
<1> QED BY <1>1, SolventInit, SolventStep, PTL DEF Spec

-----------------------------------------------------------------------------
(* The books of the claims.  They are stated on a value gs of the groups,  *)
(* a set of paid nullifiers and a balance, because a settlement registers  *)
(* two groups in one step.                                                 *)

GroupRecords == [token : Tokens, tier : Tiers, totalLocked : Nat, totalClaimed : Nat]

GroupsTyped(gs) ==
    /\ IsFiniteSet(DOMAIN gs) /\ DOMAIN gs \subseteq ClaimsRoots
    /\ \A root \in DOMAIN gs : gs[root] \in GroupRecords

(* The claims of one root, those of a set that are paid, and those of gs   *)
(* that are not, in token t.                                               *)
ClaimsOf(root) == {root} \X DOMAIN root.leaves
PaidOf(C, paid) == {c \in C : ClaimNullifier(c) \in paid}
Due(gs, paid, t) ==
    {c \in ClaimsIn(gs) : gs[c[1]].token = t /\ ClaimNullifier(c) \notin paid}
SumOf(C) == Total(AmountOf(C))

(* The invariant.  A group's books are exact only because nothing is paid  *)
(* before its group is registered.                                         *)
ClaimBooks(gs, paid, bal) ==
    /\ GroupsTyped(gs)
    /\ paid \subseteq {ClaimNullifier(c) : c \in ClaimsIn(gs)}
    /\ \A root \in DOMAIN gs :
         /\ gs[root].totalLocked = SumOf(ClaimsOf(root))
         /\ gs[root].totalClaimed = SumOf(PaidOf(ClaimsOf(root), paid))
    /\ bal \in [Tokens -> Nat]
    /\ \A t \in Tokens : SumOf(Due(gs, paid, t)) <= bal[t]

(* A claim is a registered root and the index of one of its leaves.        *)
LEMMA ClaimShape ==
    ASSUME NEW gs, NEW c
    PROVE  c \in ClaimsIn(gs) <=>
             \E root \in DOMAIN gs : \E i \in DOMAIN root.leaves : c = <<root, i>>
  BY DEF ClaimsIn

(* The claims of one root are its leaves.                                  *)
LEMMA ClaimsOfShape ==
    ASSUME NEW root, NEW c
    PROVE  c \in ClaimsOf(root) <=> \E i \in DOMAIN root.leaves : c = <<root, i>>
  BY DEF ClaimsOf

(* A claim's nullifier names the claim.                                    *)
LEMMA NullifierNames ==
    ASSUME NEW x, NEW i, NEW y, NEW j
    PROVE  /\ ClaimNullifier(<<x, i>>) = ClaimNullifier(<<y, j>>) => x = y /\ i = j
           /\ ClaimNullifier(<<x, i>>)[3] = x
  BY DEF ClaimNullifier

(* The leaves of a root are finitely many, and their amounts are numbers.  *)
LEMMA RootLeaves ==
    ASSUME NEW root \in ClaimsRoots
    PROVE  /\ IsFiniteSet(DOMAIN root.leaves)
           /\ \A i \in DOMAIN root.leaves : root.leaves[i].amount \in Nat
           /\ IsFiniteSet(ClaimsOf(root))
<1> DEFINE ls == root.leaves
<1>1. ls \in Seq(ClaimLeaves)
  BY DEF ClaimsRoots
<1> HIDE DEF ls
<1>2. DOMAIN ls = 1 .. Len(ls) /\ Len(ls) \in Nat
  BY <1>1
<1>3. IsFiniteSet(DOMAIN ls)
  BY <1>2, FS_Interval
<1>4. ASSUME NEW i \in DOMAIN ls PROVE ls[i].amount \in Nat
  <2>1. ls[i] \in ClaimLeaves
    BY <1>1
  <2> QED BY <2>1 DEF ClaimLeaves
<1>5. IsFiniteSet({root} \X DOMAIN ls)
  <2>1. IsFiniteSet({root})
    BY FS_Singleton
  <2> QED BY <1>3, <2>1, FS_Product
<1> QED BY <1>3, <1>4, <1>5 DEF ls, ClaimsOf

(* Any set of claims of registered groups is a finite family of amounts.   *)
LEMMA ClaimsFamily ==
    ASSUME NEW gs, GroupsTyped(gs), NEW C \in SUBSET ClaimsIn(gs)
    PROVE  IsFiniteSet(C) /\ IsFamily(AmountOf(C)) /\ SumOf(C) \in Nat
<1> DEFINE parts == {ClaimsOf(root) : root \in DOMAIN gs}
           part == [root \in DOMAIN gs |-> ClaimsOf(root)]
<1>0. DOMAIN gs \subseteq ClaimsRoots /\ IsFiniteSet(DOMAIN gs)
  BY DEF GroupsTyped
<1>1. part \in Surjection(DOMAIN gs, parts)
  BY DEF Surjection
<1>2. IsFiniteSet(parts)
  <2> HIDE DEF part, parts
  <2> QED BY <1>0, <1>1, FS_Surjection
<1>3. \A T \in parts : IsFiniteSet(T)
  BY <1>0, RootLeaves
<1>4. IsFiniteSet(UNION parts)
  <2> HIDE DEF parts
  <2> QED BY <1>2, <1>3, FS_UNION
<1>5. ClaimsIn(gs) = UNION parts
  BY DEF ClaimsIn, ClaimsOf
<1>6. IsFiniteSet(C)
  BY <1>4, <1>5, FS_Subset
<1>7. ASSUME NEW c \in C PROVE ClaimLeaf(c).amount \in Nat
  <2>1. PICK root \in DOMAIN gs : \E i \in DOMAIN root.leaves : c = <<root, i>>
    BY ClaimShape
  <2> QED BY <1>0, <2>1, RootLeaves DEF ClaimLeaf
<1>8. IsFamily(AmountOf(C))
  BY <1>6, <1>7 DEF IsFamily, AmountOf
<1> QED BY <1>6, <1>8, TotalType DEF SumOf

(* Two sets of claims without a common claim add up.                       *)
LEMMA SumOfUnion ==
    ASSUME NEW C, NEW D, IsFamily(AmountOf(C)), IsFamily(AmountOf(D)), C \cap D = {}
    PROVE  SumOf(C \cup D) = SumOf(C) + SumOf(D)
<1> DEFINE f == AmountOf(C)
           g == AmountOf(D)
           h == AmountOf(C \cup D)
<1>1. /\ DOMAIN f \cap DOMAIN g = {} /\ DOMAIN h = DOMAIN f \cup DOMAIN g
      /\ \A x \in DOMAIN f : h[x] = f[x]
      /\ \A x \in DOMAIN g : h[x] = g[x]
  BY DEF AmountOf
<1>2. IsFamily(f) /\ IsFamily(g)
  OBVIOUS
<1> HIDE DEF f, g, h
<1>3. Total(h) = Total(f) + Total(g)
  BY <1>1, <1>2, TotalUnion
<1> QED BY <1>3 DEF f, g, h, SumOf

(* The leaves of a group sum up to what the circuit locked for them.       *)
LEMMA LockedIsSum ==
    ASSUME NEW root \in ClaimsRoots
    PROVE  Locked(root.leaves) = SumOf(ClaimsOf(root))
<1> DEFINE ls == root.leaves
           f == [i \in DOMAIN ls |-> ls[i].amount]
           g == AmountOf(ClaimsOf(root))
           b == [i \in DOMAIN f |-> <<root, i>>]
<1>1. IsFamily(f)
  BY RootLeaves DEF IsFamily
<1>2. DOMAIN f = DOMAIN ls /\ DOMAIN g = {root} \X DOMAIN ls
  BY DEF AmountOf, ClaimsOf
<1>3. b \in Bijection(DOMAIN f, DOMAIN g)
  <2>1. b \in [DOMAIN f -> DOMAIN g]
    BY <1>2
  <2>2. ASSUME NEW i \in DOMAIN f, NEW j \in DOMAIN f, b[i] = b[j] PROVE i = j
    BY <2>2
  <2>3. ASSUME NEW c \in DOMAIN g PROVE \E i \in DOMAIN f : b[i] = c
    BY <1>2
  <2> HIDE DEF b, f, g
  <2> QED BY <2>1, <2>2, <2>3 DEF Bijection, Injection, Surjection, IsInjective
<1>4. \A i \in DOMAIN f : g[b[i]] = f[i]
  BY <1>2 DEF AmountOf, ClaimLeaf, ClaimsOf
<1> HIDE DEF f, g, b
<1>5. Total(g) = Total(f)
  BY <1>1, <1>3, <1>4, TotalReindex
<1> QED BY <1>5 DEF f, g, Locked, SumOf

(* What an order's root and group are.                                     *)
LEMMA RootOfOrder ==
    ASSUME NEW o \in Orders
    PROVE  /\ ClaimsRoot(o) \in ClaimsRoots /\ ClaimsRoot(o).leaves = o.claims
           /\ NewGroup(o) \in GroupRecords /\ NewGroup(o).token = o.buyToken
           /\ NewGroup(o).totalLocked = Locked(o.claims) /\ NewGroup(o).totalClaimed = 0
<1>1. /\ o.tier \in Tiers /\ o.buyToken \in Tokens /\ o.claims \in Seq(ClaimLeaves)
  BY OrdersAssumption DEF OrderTypes
<1>2. ClaimsRoot(o) \in ClaimsRoots /\ ClaimsRoot(o).leaves = o.claims
  BY <1>1 DEF ClaimsRoot, ClaimsRoots
<1>3. Locked(o.claims) \in Nat
  BY OrderFields
<1>4. /\ NewGroup(o) \in GroupRecords /\ NewGroup(o).token = o.buyToken
      /\ NewGroup(o).totalLocked = Locked(o.claims) /\ NewGroup(o).totalClaimed = 0
  BY <1>1, <1>3 DEF NewGroup, GroupRecords
<1> QED BY <1>2, <1>4

(* Registering adds the claims of the new root and leaves the groups there *)
(* were as they are.                                                       *)
LEMMA RegisteredGroups ==
    ASSUME NEW gs, GroupsTyped(gs), NEW o \in Orders, CanRegister(gs, o)
    PROVE  LET root == ClaimsRoot(o)
               new == Registered(gs, o)
           IN  /\ GroupsTyped(new)
               /\ DOMAIN new = DOMAIN gs \cup {root} /\ root \notin DOMAIN gs
               /\ new[root] = NewGroup(o) /\ \A x \in DOMAIN gs : new[x] = gs[x]
               /\ ClaimsIn(new) = ClaimsIn(gs) \cup ClaimsOf(root)
               /\ ClaimsIn(gs) \cap ClaimsOf(root) = {}
<1> DEFINE root == ClaimsRoot(o)
           new == Registered(gs, o)
<1>1. root \in ClaimsRoots /\ NewGroup(o) \in GroupRecords
  BY RootOfOrder
<1>2. /\ DOMAIN new = DOMAIN gs \cup {root} /\ root \notin DOMAIN gs
      /\ new[root] = NewGroup(o) /\ \A x \in DOMAIN gs : new[x] = gs[x]
  BY DEF Registered, CanRegister
<1> HIDE DEF new, root
<1>3. GroupsTyped(new)
  BY <1>1, <1>2, FS_AddElement DEF GroupsTyped
<1>4. ClaimsIn(new) = ClaimsIn(gs) \cup ClaimsOf(root)
  BY <1>2 DEF ClaimsIn, ClaimsOf
<1>5. ClaimsIn(gs) \cap ClaimsOf(root) = {}
  BY <1>2, ClaimShape, ClaimsOfShape
<1> QED BY <1>2, <1>3, <1>4, <1>5 DEF new, root

(* The books stay exact when a group is registered and its tokens arrive.  *)
LEMMA RegisterBooks ==
    ASSUME NEW gs, NEW paid, NEW bal, ClaimBooks(gs, paid, bal),
           NEW o \in Orders, CanRegister(gs, o), NEW bal2 \in [Tokens -> Nat],
           \A t \in Tokens : bal[t] + Of(o.buyToken, Locked(o.claims), t) <= bal2[t]
    PROVE  ClaimBooks(Registered(gs, o), paid, bal2)
<1> DEFINE root == ClaimsRoot(o)
           new == Registered(gs, o)
           locked == Locked(o.claims)
<1>1. /\ GroupsTyped(gs) /\ bal \in [Tokens -> Nat]
      /\ paid \subseteq {ClaimNullifier(c) : c \in ClaimsIn(gs)}
      /\ \A x \in DOMAIN gs :
           /\ gs[x].totalLocked = SumOf(ClaimsOf(x))
           /\ gs[x].totalClaimed = SumOf(PaidOf(ClaimsOf(x), paid))
      /\ \A t \in Tokens : SumOf(Due(gs, paid, t)) <= bal[t]
  BY DEF ClaimBooks
<1>2. /\ GroupsTyped(new)
      /\ DOMAIN new = DOMAIN gs \cup {root} /\ root \notin DOMAIN gs
      /\ new[root] = NewGroup(o) /\ \A x \in DOMAIN gs : new[x] = gs[x]
      /\ ClaimsIn(new) = ClaimsIn(gs) \cup ClaimsOf(root)
      /\ ClaimsIn(gs) \cap ClaimsOf(root) = {}
  BY <1>1, RegisteredGroups, Zenon
<1>3. /\ root \in ClaimsRoots /\ root.leaves = o.claims
      /\ NewGroup(o).token = o.buyToken
      /\ NewGroup(o).totalLocked = locked /\ NewGroup(o).totalClaimed = 0
      /\ o.buyToken \in Tokens /\ locked \in Nat
  BY RootOfOrder, OrderFields
<1>4. locked = SumOf(ClaimsOf(root))
  BY <1>3, LockedIsSum
<1> HIDE DEF root, new, locked
<1>5. \A c \in ClaimsOf(root) : ClaimNullifier(c) \notin paid
  <2> SUFFICES ASSUME NEW c \in ClaimsOf(root), ClaimNullifier(c) \in paid PROVE FALSE
    OBVIOUS
  <2>1. PICK d \in ClaimsIn(gs) : ClaimNullifier(c) = ClaimNullifier(d)
    BY <1>1
  <2>2. PICK x \in DOMAIN gs : \E i \in DOMAIN x.leaves : d = <<x, i>>
    BY ClaimShape
  <2>3. ClaimNullifier(d)[3] = x /\ ClaimNullifier(c)[3] = root
    BY <2>2, ClaimsOfShape, NullifierNames
  <2> QED BY <1>2, <2>1, <2>3
<1>6. paid \subseteq {ClaimNullifier(c) : c \in ClaimsIn(new)}
  BY <1>1, <1>2
<1>7. ASSUME NEW x \in DOMAIN new
      PROVE  /\ new[x].totalLocked = SumOf(ClaimsOf(x))
             /\ new[x].totalClaimed = SumOf(PaidOf(ClaimsOf(x), paid))
  <2>1. CASE x \in DOMAIN gs
    BY <1>1, <1>2, <2>1
  <2>2. CASE x = root
    <3>1. PaidOf(ClaimsOf(root), paid) = {}
      BY <1>5 DEF PaidOf
    <3>2. SumOf({}) = 0
      <4>1. \A c \in DOMAIN AmountOf({}) : AmountOf({})[c] = 0
        BY DEF AmountOf
      <4> QED BY <4>1, TotalZero DEF SumOf
    <3> QED BY <1>2, <1>3, <1>4, <2>2, <3>1, <3>2
  <2> QED BY <1>2, <2>1, <2>2
<1>8. ASSUME NEW t \in Tokens PROVE SumOf(Due(new, paid, t)) <= bal2[t]
  <2>1. Due(gs, paid, t) \in SUBSET ClaimsIn(gs) /\ ClaimsOf(root) \in SUBSET ClaimsIn(new)
    BY <1>2 DEF Due
  <2>2. /\ IsFamily(AmountOf(Due(gs, paid, t))) /\ SumOf(Due(gs, paid, t)) \in Nat
        /\ IsFamily(AmountOf(ClaimsOf(root)))
    BY <1>1, <1>2, <2>1, ClaimsFamily
  <2>3. \A c \in ClaimsIn(gs) : c[1] \in DOMAIN gs
    BY ClaimShape
  <2>4. \A c \in ClaimsOf(root) : c[1] = root
    BY ClaimsOfShape
  <2>5. bal[t] \in Nat /\ bal2[t] \in Nat /\ SumOf(Due(gs, paid, t)) <= bal[t]
        /\ bal[t] + Of(o.buyToken, locked, t) <= bal2[t]
    BY <1>1 DEF locked
  <2>6. CASE t = o.buyToken
    <3>1. Due(new, paid, t) = Due(gs, paid, t) \cup ClaimsOf(root)
      BY <1>2, <1>3, <1>5, <2>3, <2>4, <2>6 DEF Due
    <3>2. Due(gs, paid, t) \cap ClaimsOf(root) = {}
      BY <1>2, <2>1
    <3>3. SumOf(Due(new, paid, t)) = SumOf(Due(gs, paid, t)) + locked
      BY <1>4, <2>2, <3>1, <3>2, SumOfUnion
    <3> QED BY <1>3, <2>2, <2>5, <2>6, <3>3 DEF Of
  <2>7. CASE t # o.buyToken
    <3>1. Due(new, paid, t) = Due(gs, paid, t)
      BY <1>2, <1>3, <2>3, <2>4, <2>7 DEF Due
    <3> QED BY <2>2, <2>5, <2>7, <3>1 DEF Of
  <2> QED BY <2>6, <2>7
<1>9. ClaimBooks(new, paid, bal2)
  BY <1>2, <1>6, <1>7, <1>8 DEF ClaimBooks
<1> QED BY <1>9 DEF new

(* The claims' part of the state.                                          *)
ClaimsExact == ClaimBooks(groups, claimNullifiers, settleBal)

(* The books stay exact when a batch of claims is paid.                    *)
LEMMA ExecuteBooks ==
    ASSUME ClaimsExact, NEW C \in SUBSET ClaimsIn(groups), executeClaims(C)
    PROVE  ClaimsExact'
<1> DEFINE gs == groups
           paid == claimNullifiers
           bal == settleBal
           new == [root \in DOMAIN gs |->
                     [gs[root] EXCEPT !.totalClaimed = @ + PaidFor(C, root)]]
           paid2 == paid \cup {ClaimNullifier(c) : c \in C}
           bal2 == [t \in Tokens |-> bal[t] - ClaimedIn(C, t)]
<1>1. /\ GroupsTyped(gs) /\ bal \in [Tokens -> Nat]
      /\ paid \subseteq {ClaimNullifier(c) : c \in ClaimsIn(gs)}
      /\ \A x \in DOMAIN gs :
           /\ gs[x].totalLocked = SumOf(ClaimsOf(x))
           /\ gs[x].totalClaimed = SumOf(PaidOf(ClaimsOf(x), paid))
      /\ \A t \in Tokens : SumOf(Due(gs, paid, t)) <= bal[t]
  BY DEF ClaimBooks, ClaimsExact
<1>2. /\ \A c \in C : ClaimNullifier(c) \notin paid
      /\ \A t \in Tokens : ClaimedIn(C, t) <= bal[t]
      /\ groups' = new /\ claimNullifiers' = paid2 /\ settleBal' = bal2
  BY DEF executeClaims
<1>3. \A x : PaidFor(C, x) = SumOf({c \in C : c[1] = x})
  BY DEF PaidFor, SumOf
<1>4. \A t : ClaimedIn(C, t) = SumOf({c \in C : gs[c[1]].token = t})
  BY DEF ClaimedIn, SumOf
<1>5. \A D \in SUBSET ClaimsIn(gs) : IsFamily(AmountOf(D)) /\ SumOf(D) \in Nat
  BY <1>1, ClaimsFamily
<1>6. \A x : PaidFor(C, x) \in Nat
  <2> SUFFICES ASSUME NEW x PROVE SumOf({c \in C : c[1] = x}) \in Nat
    BY <1>3
  <2>1. {c \in C : c[1] = x} \in SUBSET ClaimsIn(gs)
    OBVIOUS
  <2> QED BY <1>5, <2>1
<1>7. ASSUME NEW x \in DOMAIN gs
      PROVE  /\ new[x] \in GroupRecords /\ new[x].token = gs[x].token
             /\ new[x].totalLocked = gs[x].totalLocked
             /\ new[x].totalClaimed = gs[x].totalClaimed + PaidFor(C, x)
  <2>1. gs[x] \in GroupRecords
    BY <1>1 DEF GroupsTyped
  <2>2. new[x] = [gs[x] EXCEPT !.totalClaimed = @ + PaidFor(C, x)]
    OBVIOUS
  <2> HIDE DEF new
  <2> QED BY <1>6, <2>1, <2>2 DEF GroupRecords
<1>8. DOMAIN new = DOMAIN gs
  OBVIOUS
<1>9. bal2 \in [Tokens -> Nat]
  <2> SUFFICES ASSUME NEW t \in Tokens PROVE bal[t] - ClaimedIn(C, t) \in Nat
    OBVIOUS
  <2>1. {c \in C : gs[c[1]].token = t} \in SUBSET ClaimsIn(gs)
    OBVIOUS
  <2>2. ClaimedIn(C, t) \in Nat
    BY <1>4, <1>5, <2>1
  <2> QED BY <1>1, <1>2, <2>2
<1>10. ASSUME NEW c \in ClaimsIn(gs), NEW d \in ClaimsIn(gs),
              ClaimNullifier(c) = ClaimNullifier(d)
       PROVE  c = d
  <2>1. PICK x \in DOMAIN gs : \E i \in DOMAIN x.leaves : c = <<x, i>>
    BY ClaimShape
  <2>2. PICK y \in DOMAIN gs : \E i \in DOMAIN y.leaves : d = <<y, i>>
    BY ClaimShape
  <2> QED BY <1>10, <2>1, <2>2, NullifierNames
<1> HIDE DEF new, paid2, bal2, gs, paid, bal
<1>11. ASSUME NEW c \in ClaimsIn(gs)
       PROVE  ClaimNullifier(c) \in paid2 <=> ClaimNullifier(c) \in paid \/ c \in C
  BY <1>10 DEF paid2, gs
<1>12. GroupsTyped(new)
  BY <1>1, <1>7, <1>8 DEF GroupsTyped
<1>13. ClaimsIn(new) = ClaimsIn(gs)
  BY <1>8 DEF ClaimsIn
<1>14. paid2 \subseteq {ClaimNullifier(c) : c \in ClaimsIn(new)}
  BY <1>1, <1>13 DEF paid2, gs
<1>15. ASSUME NEW x \in DOMAIN gs
       PROVE  /\ new[x].totalLocked = SumOf(ClaimsOf(x))
              /\ new[x].totalClaimed = SumOf(PaidOf(ClaimsOf(x), paid2))
  <2> DEFINE old == PaidOf(ClaimsOf(x), paid)
             add == {c \in C : c[1] = x}
  <2>1. ClaimsOf(x) \subseteq ClaimsIn(gs)
    BY ClaimShape, ClaimsOfShape
  <2>2. \A c \in ClaimsIn(gs) : c[1] = x <=> c \in ClaimsOf(x)
    BY ClaimShape, ClaimsOfShape
  <2>3. C \subseteq ClaimsIn(gs)
    BY DEF gs
  <2>4. PaidOf(ClaimsOf(x), paid2) = old \cup add
    BY <1>11, <2>1, <2>2, <2>3 DEF PaidOf
  <2>5. old \cap add = {}
    BY <1>2 DEF PaidOf
  <2>6. old \in SUBSET ClaimsIn(gs) /\ add \in SUBSET ClaimsIn(gs)
    BY <2>1, <2>3 DEF PaidOf
  <2> HIDE DEF old, add
  <2>7. SumOf(old \cup add) = SumOf(old) + SumOf(add)
    BY <1>5, <2>5, <2>6, SumOfUnion
  <2>8. new[x].totalClaimed = SumOf(old) + SumOf(add)
    BY <1>1, <1>3, <1>7 DEF old, add
  <2> QED BY <1>1, <1>7, <2>4, <2>7, <2>8
<1>16. ASSUME NEW t \in Tokens PROVE SumOf(Due(new, paid2, t)) <= bal2[t]
  <2> DEFINE rest == Due(new, paid2, t)
             out == {c \in C : gs[c[1]].token = t}
  <2>1. \A c \in ClaimsIn(gs) : new[c[1]].token = gs[c[1]].token
    BY <1>7, ClaimShape
  <2>2. C \subseteq ClaimsIn(gs)
    BY DEF gs
  <2>3. Due(gs, paid, t) = rest \cup out
    BY <1>2, <1>11, <1>13, <2>1, <2>2 DEF Due
  <2>4. rest \cap out = {}
    BY <1>11, <1>13, <2>2 DEF Due
  <2>5. rest \in SUBSET ClaimsIn(gs) /\ out \in SUBSET ClaimsIn(gs)
    BY <1>13, <2>2 DEF Due
  <2> HIDE DEF rest
  <2>6. ClaimedIn(C, t) = SumOf(out)
    BY <1>4
  <2> HIDE DEF out
  <2>7. SumOf(rest \cup out) = SumOf(rest) + SumOf(out)
    BY <1>5, <2>4, <2>5, SumOfUnion
  <2>8. SumOf(rest) \in Nat /\ SumOf(out) \in Nat
    BY <1>5, <2>5
  <2>9. SumOf(rest \cup out) <= bal[t] /\ bal[t] \in Nat
    BY <1>1, <2>3
  <2>10. bal2[t] = bal[t] - SumOf(out)
    BY <2>6 DEF bal2
  <2>11. SumOf(rest) <= bal2[t]
    BY <2>7, <2>8, <2>9, <2>10
  <2> QED BY <2>11 DEF rest
<1>17. ClaimBooks(new, paid2, bal2)
  BY <1>8, <1>9, <1>12, <1>14, <1>15, <1>16 DEF ClaimBooks
<1> QED BY <1>2, <1>17 DEF ClaimsExact

(* What a settlement leaves on the contract's balance covers its claims.   *)
LEMMA SettleAuthBooks ==
    ASSUME ClaimsExact, NEW maker \in Proofs, NEW taker \in Proofs, NEW feeMaker, NEW feeTaker,
           NEW sender, settleAuth(sender, maker, taker, feeMaker, feeTaker)
    PROVE  ClaimsExact'
<1> DEFINE m == maker.order
           k == taker.order
           bal1 == [settleBal EXCEPT ![m.buyToken] = @ + Locked(m.claims)]
           bal2 == [bal1 EXCEPT ![k.buyToken] = @ + Locked(k.claims)]
<1>1. /\ settleBal' = bal2 /\ claimNullifiers' = claimNullifiers
      /\ groups' = Registered(Registered(groups, m), k)
      /\ CanRegister(groups, m) /\ CanRegister(Registered(groups, m), k)
  BY DEF settleAuth, Plus
<1>2. /\ m \in Orders /\ k \in Orders
      /\ m.buyToken \in Tokens /\ Locked(m.claims) \in Nat
      /\ k.buyToken \in Tokens /\ Locked(k.claims) \in Nat
  BY ProofFields, OrderFields
<1>3. ClaimBooks(groups, claimNullifiers, settleBal) /\ settleBal \in [Tokens -> Nat]
  BY DEF ClaimsExact, ClaimBooks
<1> HIDE DEF m, k
<1>4. bal1 \in [Tokens -> Nat] /\ bal2 \in [Tokens -> Nat]
  BY <1>2, <1>3
<1>5. /\ \A t \in Tokens : settleBal[t] + Of(m.buyToken, Locked(m.claims), t) <= bal1[t]
      /\ \A t \in Tokens : bal1[t] + Of(k.buyToken, Locked(k.claims), t) <= bal2[t]
  BY <1>2, <1>3, <1>4 DEF Of
<1> HIDE DEF bal1, bal2
<1>6. ClaimBooks(Registered(groups, m), claimNullifiers, bal1)
  BY <1>1, <1>2, <1>3, <1>4, <1>5, RegisterBooks
<1>7. ClaimBooks(Registered(Registered(groups, m), k), claimNullifiers, bal2)
  BY <1>1, <1>2, <1>4, <1>5, <1>6, RegisterBooks
<1> QED BY <1>1, <1>7 DEF ClaimsExact

(* So does what a scatter leaves there.                                    *)
LEMMA ScatterBooks ==
    ASSUME ClaimsExact, NEW side \in Proofs, NEW fee, NEW sender,
           scatterDirectAuth(sender, side, fee)
    PROVE  ClaimsExact'
<1> DEFINE o == side.order
           bal2 == [settleBal EXCEPT ![o.buyToken] = @ + Locked(o.claims)]
<1>1. /\ settleBal' = bal2 /\ claimNullifiers' = claimNullifiers
      /\ groups' = Registered(groups, o) /\ CanRegister(groups, o)
  BY DEF scatterDirectAuth, Plus
<1>2. o \in Orders /\ o.buyToken \in Tokens /\ Locked(o.claims) \in Nat
  BY ProofFields, OrderFields
<1>3. ClaimBooks(groups, claimNullifiers, settleBal) /\ settleBal \in [Tokens -> Nat]
  BY DEF ClaimsExact, ClaimBooks
<1> HIDE DEF o
<1>4. /\ bal2 \in [Tokens -> Nat]
      /\ \A t \in Tokens : settleBal[t] + Of(o.buyToken, Locked(o.claims), t) <= bal2[t]
  BY <1>2, <1>3 DEF Of
<1> HIDE DEF bal2
<1>5. ClaimBooks(Registered(groups, o), claimNullifiers, bal2)
  BY <1>1, <1>2, <1>3, <1>4, RegisterBooks
<1> QED BY <1>1, <1>5 DEF ClaimsExact

(* So does the output of a swap, less the surplus that goes to the vault.  *)
LEMMA DexBooks ==
    ASSUME ClaimsExact, NEW side \in Proofs, NEW router, NEW amountOut \in DexOutputs,
           NEW sender, NEW spent, settleWithDex(sender, side, router, spent, amountOut)
    PROVE  ClaimsExact'
<1> DEFINE o == side.order
           kept == amountOut - ToVault(Surplus(amountOut, Locked(o.claims)))
           bal2 == [settleBal EXCEPT ![o.buyToken] = @ + kept]
<1>1. /\ settleBal' = bal2 /\ claimNullifiers' = claimNullifiers
      /\ groups' = Registered(groups, o) /\ CanRegister(groups, o)
      /\ amountOut >= Locked(o.claims)
  BY DEF settleWithDex, Plus
<1>2. o \in Orders /\ o.buyToken \in Tokens /\ Locked(o.claims) \in Nat
  BY ProofFields, OrderFields
<1>3. ClaimBooks(groups, claimNullifiers, settleBal) /\ settleBal \in [Tokens -> Nat]
  BY DEF ClaimsExact, ClaimBooks
<1> HIDE DEF o
<1>4. amountOut \in Nat
  BY FeesAssumption
<1>5. kept \in Nat /\ Locked(o.claims) <= kept
  BY <1>1, <1>2, <1>4 DEF ToVault, Surplus
<1> HIDE DEF kept
<1>6. /\ bal2 \in [Tokens -> Nat]
      /\ \A t \in Tokens : settleBal[t] + Of(o.buyToken, Locked(o.claims), t) <= bal2[t]
  BY <1>2, <1>3, <1>5 DEF Of
<1> HIDE DEF bal2
<1>7. ClaimBooks(Registered(groups, o), claimNullifiers, bal2)
  BY <1>1, <1>2, <1>3, <1>6, RegisterBooks
<1> QED BY <1>1, <1>7 DEF ClaimsExact

(* Only settlements and claims touch the claims' books.                    *)
LEMMA ClaimStepKinds ==
    ASSUME [Next]_vars
    PROVE  Settling \/ Claim \/ UNCHANGED claimVars
<1>1. CASE Settle
  BY <1>1 DEF Settle, Settling
<1>2. CASE Cancel
  BY <1>2 DEF Cancel, cancelPrivate
<1>3. CASE OwnerOfSettlement \/ RegistryChange
  BY <1>3 DEF OwnerOfSettlement, RegistryChange
<1>4. CASE UNCHANGED settlementVars
  BY <1>4 DEF settlementVars
<1>5. CASE UNCHANGED vars
  BY <1>4, <1>5 DEF vars
<1> QED BY <1>1, <1>2, <1>3, <1>4, <1>5 DEF Next

(* Every step keeps the books of the claims.                               *)
LEMMA ClaimsStep == ClaimsExact /\ [Next]_vars => ClaimsExact'
<1> SUFFICES ASSUME ClaimsExact, [Next]_vars PROVE ClaimsExact'
  OBVIOUS
<1>1. CASE Settling
  BY <1>1, SettleAuthBooks, ScatterBooks, DexBooks, Zenon DEF Settling
<1>2. CASE Claim
  BY <1>2, ExecuteBooks, Zenon DEF Claim
<1>3. CASE UNCHANGED claimVars
  BY <1>3 DEF claimVars, ClaimsExact
<1> QED BY <1>1, <1>2, <1>3, ClaimStepKinds

(* Without groups nothing is owed.                                         *)
LEMMA ClaimsInit == Init => ClaimsExact
<1> SUFFICES ASSUME Init PROVE ClaimsExact
  OBVIOUS
<1>1. groups = << >> /\ claimNullifiers = {} /\ settleBal = [t \in Tokens |-> 0]
  BY DEF Init, Zero
<1>2. DOMAIN groups = {}
  BY <1>1
<1>3. GroupsTyped(groups)
  BY <1>2, FS_EmptySet DEF GroupsTyped
<1>4. ASSUME NEW t \in Tokens PROVE SumOf(Due(groups, claimNullifiers, t)) <= settleBal[t]
  <2>1. Due(groups, claimNullifiers, t) = {}
    BY <1>2 DEF Due, ClaimsIn
  <2>2. SumOf({}) = 0
    <3>1. \A c \in DOMAIN AmountOf({}) : AmountOf({})[c] = 0
      BY DEF AmountOf
    <3> QED BY <3>1, TotalZero DEF SumOf
  <2>3. settleBal[t] = 0
    BY <1>1
  <2> QED BY <2>1, <2>2, <2>3
<1> QED BY <1>1, <1>2, <1>3, <1>4 DEF ClaimsExact, ClaimBooks

(* The settlement contract can pay every unpaid claim at the same time,    *)
(* out of the one balance all groups share.                                *)
THEOREM ClaimsStayCovered == Spec => []ClaimsCovered
<1>1. ClaimsExact => ClaimsCovered
  BY DEF ClaimsExact, ClaimBooks, ClaimsCovered, ClaimsOwed, Outstanding, SumOf, Due, AmountOf
<1> QED BY <1>1, ClaimsInit, ClaimsStep, PTL DEF Spec

-----------------------------------------------------------------------------
(* Types of the three contracts' storage, and the vault's books when fees  *)
(* and revenue arrive inside settlements.                                  *)
OrderVarsOK == nullifiers \subseteq Secrets \X Salts /\ nonceNullifiers \subseteq Secrets \X Nonces

(* What an accepted proof leaves in the pool is well formed.               *)
LEMMA ProofTypes ==
    ASSUME PoolTypeOK, NEW p \in Proofs
    PROVE  /\ Residual(p) \in Seq(Notes)
           /\ Nullifier(p) \in Secrets \X Salts /\ Nonce(p) \in Secrets \X Nonces
<1>1. PICK i \in DOMAIN leaves : leaves[i] = p.note
  BY ProofFields
<1>2. leaves \in Seq(Notes)
  BY DEF PoolTypeOK
<1>3. p.note \in Notes
  BY <1>1, <1>2, NoteAt
<1>4. p.order \in Orders /\ p.newSalt \in Salts /\ p.order.sellAmount <= p.note.amount
  BY ProofFields
<1>5. p.order.sellAmount \in Nat
  BY <1>4, OrderFields
<1>6. p.order.secret \in Secrets /\ p.order.nonce \in Nonces
  BY <1>4, OrdersAssumption DEF OrderTypes
<1>7. Residual(p) \in Seq(Notes)
  BY <1>3, <1>4, <1>5, ChangeType DEF Residual
<1>8. Nullifier(p) \in Secrets \X Salts
  BY <1>3, NoteFields DEF Nullifier, EscrowNullifier
<1> QED BY <1>6, <1>7, <1>8 DEF Nonce, NonceNullifier

(* Burning keeps the tree within its capacity.                             *)
LEMMA BurnTypes ==
    ASSUME PoolTypeOK, OrderVarsOK, NotesOK', UNCHANGED <<poolAdminVars, now>>,
           NEW sides \in SUBSET Proofs, NEW residuals \in Seq(Notes), Burn(sides, residuals)
    PROVE  PoolTypeOK' /\ OrderVarsOK'
<1>1. /\ nullifiers' = nullifiers \cup {Nullifier(s) : s \in sides}
      /\ nonceNullifiers' = nonceNullifiers \cup {Nonce(s) : s \in sides}
      /\ poolNullifiers' = poolNullifiers \cup {Nullifier(s) : s \in sides}
      /\ Len(leaves) + Len(residuals) <= Capacity /\ leaves' = leaves \o residuals
  BY DEF Burn, HasRoomFor, Appended, SpentInPool
<1>2. \A s \in sides : Nullifier(s) \in Secrets \X Salts /\ Nonce(s) \in Secrets \X Nonces
  BY ProofTypes
<1>3. leaves \in Seq(Notes) /\ poolNullifiers \subseteq Secrets \X Salts
  BY DEF PoolTypeOK
<1>4. Len(leaves)' <= Capacity
  BY <1>1, <1>3
<1>5. poolNullifiers' \subseteq Secrets \X Salts
  BY <1>1, <1>2, <1>3
<1>6. OrderVarsOK'
  BY <1>1, <1>2 DEF OrderVarsOK
<1> QED BY <1>4, <1>5, <1>6, NoteVarsType

(* Every settlement burns proofs and leaves the owner's settings alone.    *)
LEMMA SettlingBurns ==
    ASSUME PoolTypeOK, Settling
    PROVE  /\ UNCHANGED <<poolAdminVars, now, activeRelayers>>
           /\ \E sides \in SUBSET Proofs, residuals \in Seq(Notes) : Burn(sides, residuals)
<1> DEFINE Goal == /\ UNCHANGED <<poolAdminVars, now, activeRelayers>>
                   /\ \E sides \in SUBSET Proofs, residuals \in Seq(Notes) : Burn(sides, residuals)
<1>1. ASSUME NEW maker \in Proofs, NEW taker \in Proofs, NEW feeMaker \in Fees,
             NEW feeTaker \in Fees, NEW sender,
             settleAuth(sender, maker, taker, feeMaker, feeTaker)
      PROVE  Goal
  <2>1. Residual(maker) \in Seq(Notes) /\ Residual(taker) \in Seq(Notes)
    BY ProofTypes
  <2>2. Residual(maker) \o Residual(taker) \in Seq(Notes)
    BY <2>1
  <2> QED BY <1>1, <2>2 DEF settleAuth
<1>2. ASSUME NEW side \in Proofs, NEW fee \in Fees,
             scatterDirectAuth(side.order.relayer, side, fee)
      PROVE  Goal
  BY <1>2, ProofTypes DEF scatterDirectAuth
<1>3. ASSUME NEW side \in Proofs, NEW router \in Routers, NEW amountOut \in DexOutputs,
             NEW spent, settleWithDex(side.order.relayer, side, router, spent, amountOut)
      PROVE  Goal
  BY <1>3, ProofTypes DEF settleWithDex
<1> HIDE DEF Goal
<1>4. Goal
  BY <1>1, <1>2, <1>3, Zenon DEF Settling
<1> QED BY <1>4 DEF Goal

(* A cancellation rotates one note.                                        *)
LEMMA CancelTypes ==
    ASSUME PoolTypeOK, OrderVarsOK, NotesOK', Cancel
    PROVE  PoolTypeOK' /\ OrderVarsOK' /\ UNCHANGED <<vaultVars, activeRelayers, now>>
<1>1. PICK i \in DOMAIN leaves, nonce \in Nonces, salt \in Salts :
         cancelPrivate(leaves[i], nonce, salt)
  BY DEF Cancel
<1> DEFINE note == leaves[i]
           fresh == [note EXCEPT !.salt = salt]
<1>2. leaves \in Seq(Notes) /\ poolNullifiers \subseteq Secrets \X Salts
  BY DEF PoolTypeOK
<1>3. note \in Notes
  BY <1>2, NoteAt
<1>4. EscrowNullifier(note) \in Secrets \X Salts /\ note.secret \in Secrets
  BY <1>3, NoteFields DEF EscrowNullifier, Notes
<1>5. fresh \in Notes
  BY <1>3 DEF Notes
<1>6. /\ Len(leaves) + Len(<<note>>) <= Capacity /\ leaves' = leaves \o <<fresh>>
      /\ poolNullifiers' = poolNullifiers \cup {EscrowNullifier(note)}
      /\ nullifiers' = nullifiers \cup {EscrowNullifier(note)}
      /\ nonceNullifiers' = nonceNullifiers \cup {<<note.secret, nonce>>}
      /\ UNCHANGED <<poolAdminVars, now>> /\ UNCHANGED <<vaultVars, activeRelayers, now>>
  BY <1>1 DEF cancelPrivate, HasRoomFor, Appended, NonceNullifier
<1> HIDE DEF fresh, note
<1>7. Len(leaves)' <= Capacity
  BY <1>2, <1>5, <1>6
<1>8. OrderVarsOK'
  BY <1>4, <1>6 DEF OrderVarsOK
<1>9. poolNullifiers' \subseteq Secrets \X Salts
  BY <1>2, <1>4, <1>6
<1> QED BY <1>6, <1>7, <1>8, <1>9, NoteVarsType

(* A credit is a number again.                                             *)
LEMMA CreditedType ==
    ASSUME NEW b \in [Relayers -> [Tokens -> Nat]],
           NEW r \in Relayers, NEW t \in Tokens, NEW n \in Nat
    PROVE  Credited(b, r, t, n) \in [Relayers -> [Tokens -> Nat]]
<1>1. Plus(b[r], t, n) \in [Tokens -> Nat]
  BY DEF Plus
<1> QED BY <1>1 DEF Credited

(* Fees that leave the pool arrive in the vault and are credited there.    *)
LEMMA RouteFeesInv ==
    ASSUME VaultInv, UNCHANGED now, NEW r1 \in Relayers, NEW t1 \in Tokens, NEW fee1 \in Nat,
           NEW r2 \in Relayers, NEW t2 \in Tokens, NEW fee2 \in Nat,
           RouteFees(r1, t1, fee1, r2, t2, fee2)
    PROVE  VaultInv'
<1>0. VaultTypeOK /\ VaultBacked /\ Exact(totalTracked, balances)
  BY ExactIsTrackedIsSum DEF VaultInv
<1>1. CASE cfg.feeVault
  <2> DEFINE bal1 == [vaultBal EXCEPT ![t1] = @ + fee1]
             bal2 == [bal1 EXCEPT ![t2] = @ + fee2]
             tracked1 == [totalTracked EXCEPT ![t1] = @ + fee1]
             tracked2 == [tracked1 EXCEPT ![t2] = @ + fee2]
             owed1 == Credited(balances, r1, t1, fee1)
             owed2 == Credited(owed1, r2, t2, fee2)
  <2>1. /\ vaultBal' = bal2 /\ totalTracked' = tracked2 /\ balances' = owed2
        /\ UNCHANGED <<platformRevenue, vaultAdminVars>>
    BY <1>1, Zenon DEF RouteFees, Plus, Tracked
  <2>2. /\ vaultBal \in [Tokens -> Nat] /\ totalTracked \in [Tokens -> Nat]
        /\ platformRevenue \in [Tokens -> Nat] /\ balances \in [Relayers -> [Tokens -> Nat]]
    BY <1>0 DEF VaultTypeOK
  <2>3. /\ bal1 \in [Tokens -> Nat] /\ bal2 \in [Tokens -> Nat]
        /\ tracked1 \in [Tokens -> Nat] /\ tracked2 \in [Tokens -> Nat]
    BY <2>2
  <2>4. owed1 \in [Relayers -> [Tokens -> Nat]] /\ owed2 \in [Relayers -> [Tokens -> Nat]]
    <3>1. owed1 \in [Relayers -> [Tokens -> Nat]]
      BY <2>2, CreditedType
    <3> HIDE DEF owed1
    <3> QED BY <3>1, CreditedType
  <2>5. Exact(tracked1, owed1)
    BY <1>0, <2>2, ExactAfterCredit DEF Tracked, Plus
  <2>6. Exact(tracked2, owed2)
    <3> HIDE DEF tracked1, owed1
    <3> QED BY <2>3, <2>4, <2>5, ExactAfterCredit DEF Tracked, Plus
  <2>7. ASSUME NEW t \in Tokens PROVE bal2[t] >= tracked2[t] + platformRevenue[t]
    <3>1. vaultBal[t] >= totalTracked[t] + platformRevenue[t]
      BY <1>0 DEF VaultBacked
    <3>2. /\ bal2[t] = vaultBal[t] + Of(t1, fee1, t) + Of(t2, fee2, t)
          /\ tracked2[t] = totalTracked[t] + Of(t1, fee1, t) + Of(t2, fee2, t)
      BY <2>2 DEF Of
    <3>3. /\ vaultBal[t] \in Nat /\ totalTracked[t] \in Nat /\ platformRevenue[t] \in Nat
          /\ Of(t1, fee1, t) \in Nat /\ Of(t2, fee2, t) \in Nat
      BY <2>2, OfType
    <3> HIDE DEF bal2, tracked2
    <3> QED BY <3>1, <3>2, <3>3
  <2> HIDE DEF bal1, bal2, tracked1, tracked2, owed1, owed2
  <2>8. VaultTypeOK'
    BY <1>0, <2>1, <2>3, <2>4 DEF VaultTypeOK, vaultAdminVars, rolesVars, feeVars
  <2>9. VaultBacked'
    BY <2>1, <2>7 DEF VaultBacked
  <2>10. TrackedIsSum'
    BY <2>1, <2>6 DEF TrackedIsSum, OwedTo, Exact, FeesOwed
  <2> QED BY <2>8, <2>9, <2>10 DEF VaultInv
<1>2. CASE ~cfg.feeVault
  <2>1. UNCHANGED vaultVars
    BY <1>2, Zenon DEF RouteFees
  <2>2. UNCHANGED vaultAndClock
    BY <2>1 DEF vaultAndClock
  <2> QED BY <2>2, VaultInvStep
<1> QED BY <1>1, <1>2

(* The platform fee and the surplus of a swap arrive as platform revenue.  *)
LEMMA AccrueRevenueInv ==
    ASSUME VaultInv, UNCHANGED now, NEW t1 \in Tokens, NEW fee \in Nat,
           NEW t2 \in Tokens, NEW surplus \in Nat, AccrueRevenue(t1, fee, t2, surplus)
    PROVE  VaultInv'
<1>0. VaultTypeOK /\ VaultBacked /\ TrackedIsSum
  BY DEF VaultInv
<1>1. CASE cfg.feeVault
  <2> DEFINE bal1 == [vaultBal EXCEPT ![t1] = @ + fee]
             bal2 == [bal1 EXCEPT ![t2] = @ + surplus]
             revenue1 == [platformRevenue EXCEPT ![t1] = @ + fee]
             revenue2 == [revenue1 EXCEPT ![t2] = @ + surplus]
  <2>1. /\ vaultBal' = bal2 /\ platformRevenue' = revenue2
        /\ UNCHANGED <<balances, totalTracked, vaultAdminVars>>
    BY <1>1, Zenon DEF AccrueRevenue, Plus
  <2>2. /\ vaultBal \in [Tokens -> Nat] /\ totalTracked \in [Tokens -> Nat]
        /\ platformRevenue \in [Tokens -> Nat]
    BY <1>0 DEF VaultTypeOK
  <2>3. bal2 \in [Tokens -> Nat] /\ revenue2 \in [Tokens -> Nat]
    BY <2>2
  <2>4. ASSUME NEW t \in Tokens PROVE bal2[t] >= totalTracked[t] + revenue2[t]
    <3>1. vaultBal[t] >= totalTracked[t] + platformRevenue[t]
      BY <1>0 DEF VaultBacked
    <3>2. /\ bal2[t] = vaultBal[t] + Of(t1, fee, t) + Of(t2, surplus, t)
          /\ revenue2[t] = platformRevenue[t] + Of(t1, fee, t) + Of(t2, surplus, t)
      BY <2>2 DEF Of
    <3>3. /\ vaultBal[t] \in Nat /\ totalTracked[t] \in Nat /\ platformRevenue[t] \in Nat
          /\ Of(t1, fee, t) \in Nat /\ Of(t2, surplus, t) \in Nat
      BY <2>2, OfType
    <3> HIDE DEF bal2, revenue2
    <3> QED BY <3>1, <3>2, <3>3
  <2> HIDE DEF bal1, bal2, revenue1, revenue2
  <2>5. VaultTypeOK'
    BY <1>0, <2>1, <2>3 DEF VaultTypeOK, vaultAdminVars, rolesVars, feeVars
  <2>6. VaultBacked'
    BY <2>1, <2>4 DEF VaultBacked
  <2>7. TrackedIsSum'
    BY <1>0, <2>1 DEF TrackedIsSum, OwedTo
  <2> QED BY <2>5, <2>6, <2>7 DEF VaultInv
<1>2. CASE ~cfg.feeVault
  <2>1. UNCHANGED vaultVars
    BY <1>2, Zenon DEF AccrueRevenue
  <2>2. UNCHANGED vaultAndClock
    BY <2>1 DEF vaultAndClock
  <2> QED BY <2>2, VaultInvStep
<1> QED BY <1>1, <1>2

(* A settlement's fees and a swap's revenue keep the vault's books.        *)
LEMMA SettlingVault ==
    ASSUME VaultInv, CfgOK, Settling
    PROVE  VaultInv'
<1>1. ASSUME NEW maker \in Proofs, NEW taker \in Proofs, NEW feeMaker \in Fees,
             NEW feeTaker \in Fees, NEW sender,
             settleAuth(sender, maker, taker, feeMaker, feeTaker)
      PROVE  VaultInv'
  <2> DEFINE m == maker.order
             k == taker.order
  <2>1. m \in Orders /\ k \in Orders /\ feeMaker \in Nat /\ feeTaker \in Nat
    BY ProofFields, FeesAssumption
  <2>2. m.relayer \in Relayers /\ k.relayer \in Relayers
    BY <2>1, OrdersAssumption DEF OrderTypes
  <2>3. m.buyToken \in Tokens /\ k.buyToken \in Tokens
    BY <2>1, OrderFields
  <2>4. RouteFees(m.relayer, m.buyToken, feeMaker, k.relayer, k.buyToken, feeTaker)
        /\ UNCHANGED now
    BY <1>1 DEF settleAuth
  <2> HIDE DEF m, k
  <2> QED BY <2>1, <2>2, <2>3, <2>4, RouteFeesInv
<1>2. ASSUME NEW side \in Proofs, NEW fee \in Fees,
             scatterDirectAuth(side.order.relayer, side, fee)
      PROVE  VaultInv'
  <2> DEFINE o == side.order
             none == 0
  <2>1. o \in Orders /\ fee \in Nat
    BY ProofFields, FeesAssumption
  <2>2. o.relayer \in Relayers /\ o.sellToken \in Tokens
    BY <2>1, OrdersAssumption DEF OrderTypes
  <2>3. RouteFees(o.relayer, o.sellToken, fee, o.relayer, o.sellToken, none) /\ UNCHANGED now
    BY <1>2 DEF scatterDirectAuth
  <2>4. none \in Nat
    OBVIOUS
  <2> HIDE DEF o, none
  <2> QED BY <2>1, <2>2, <2>3, <2>4, RouteFeesInv
<1>3. ASSUME NEW side \in Proofs, NEW router \in Routers, NEW amountOut \in DexOutputs,
             NEW spent, settleWithDex(side.order.relayer, side, router, spent, amountOut)
      PROVE  VaultInv'
  <2> DEFINE o == side.order
             fee == DexFee(o.sellAmount)
             surplus == Surplus(amountOut, Locked(o.claims))
  <2>1. o \in Orders /\ amountOut \in Nat
    BY ProofFields, FeesAssumption
  <2>2. /\ o.sellToken \in Tokens /\ o.buyToken \in Tokens
        /\ o.sellAmount \in Nat /\ Locked(o.claims) \in Nat
    BY <2>1, OrderFields
  <2>3. /\ AccrueRevenue(o.sellToken, fee, o.buyToken, surplus) /\ UNCHANGED now
        /\ amountOut >= Locked(o.claims)
    BY <1>3 DEF settleWithDex
  <2>4. fee \in Nat
    BY <2>2, DexFeeType
  <2>5. surplus \in Nat
    BY <2>1, <2>2, <2>3 DEF Surplus
  <2> HIDE DEF o, fee, surplus
  <2> QED BY <2>2, <2>3, <2>4, <2>5, AccrueRevenueInv
<1> QED BY <1>1, <1>2, <1>3, Zenon DEF Settling

(* Every other step is a step of the pool's and of the vault's own         *)
(* specification, or leaves them alone.                                    *)
LEMMA OtherSteps ==
    ASSUME [Next]_vars, activeRelayers \subseteq Relayers
    PROVE  \/ Settling
           \/ Cancel
           \/ /\ [PoolNext]_poolAndClock /\ [VaultNext]_vaultAndClock
              /\ UNCHANGED orderVars /\ activeRelayers' \subseteq Relayers
<1>1. CASE Settle
  BY <1>1 DEF Settle, Settling
<1>2. CASE Claim
  BY <1>2 DEF Claim, executeClaims, poolAndClock, vaultAndClock
<1>3. CASE OwnerOfSettlement
  BY <1>3 DEF OwnerOfSettlement, poolAndClock, vaultAndClock
<1>4. CASE RegistryChange
  <2>1. activeRelayers' \subseteq Relayers
    BY <1>4 DEF RegistryChange, With
  <2> QED BY <1>4, <2>1 DEF RegistryChange, poolAndClock, vaultAndClock
<1>5. CASE (PoolUser \/ PoolOwner) /\ UNCHANGED <<settlementVars, vaultVars, now>>
  BY <1>5 DEF PoolNext, vaultAndClock, settlementVars
<1>6. CASE Vault /\ UNCHANGED <<settlementVars, poolVars>>
  <2>1. UNCHANGED now
    BY <1>6 DEF Vault, withdrawPlatformRevenue, RelayerClaims, claim, claimAsEth, PayOut,
       OwnerOfVault, setAuthorizedDepositor, setWeth, setTreasury, scheduleFeeChange,
       setFeeChangeDelay, applyFeeChange, cancelFeeChange
  <2>2. VaultNext
    BY <1>6 DEF Vault, VaultNext
  <2> QED BY <1>6, <2>1, <2>2 DEF poolAndClock, settlementVars
<1>7. CASE Tick /\ UNCHANGED <<settlementVars, poolVars, vaultVars>>
  BY <1>7 DEF PoolNext, VaultNext, settlementVars
<1>8. CASE UNCHANGED vars
  BY <1>8 DEF vars, poolAndClock, vaultAndClock, settlementVars
<1>9. CASE Cancel
  BY <1>9
<1> QED BY <1>1, <1>2, <1>3, <1>4, <1>5, <1>6, <1>7, <1>8, <1>9 DEF Next

-----------------------------------------------------------------------------
(* The inductive invariant of the composition.  The types of the pool need *)
(* its solvency (a balance stays a number because a settlement takes out   *)
(* no more than the notes it burns), the solvency needs the switches, and  *)
(* the claims are only covered because groups were registered exactly.     *)
SettlementInv ==
    /\ SolventOK /\ ClaimsExact
    /\ PoolTypeOK /\ VaultInv
    /\ OrderVarsOK /\ activeRelayers \subseteq Relayers

(* The invariant holds at first.                                           *)
LEMMA SettlementInvInit == Init => SettlementInv
<1> SUFFICES ASSUME Init PROVE SettlementInv
  OBVIOUS
<1>1. PoolStart /\ VaultInit /\ now = 1 /\ OrderVarsOK /\ activeRelayers \subseteq Relayers
  BY DEF Init, PoolStart, OrderVarsOK
<1> QED BY <1>1, SolventInit, ClaimsInit, PoolTypeInit, VaultInvInit DEF SettlementInv

(* Every step keeps it.                                                    *)
LEMMA SettlementInvStep == SettlementInv /\ [Next]_vars => SettlementInv'
<1> SUFFICES ASSUME SettlementInv, [Next]_vars PROVE SettlementInv'
  OBVIOUS
<1>0. /\ SolventOK /\ ClaimsExact /\ PoolTypeOK /\ VaultInv
      /\ OrderVarsOK /\ activeRelayers \subseteq Relayers
  BY DEF SettlementInv
<1>1. SolventOK' /\ ClaimsExact'
  BY <1>0, SolventStep, ClaimsStep
<1>2. NotesOK' /\ CfgOK
  BY <1>0, <1>1 DEF SolventOK
<1>3. CASE Settling
  <2>1. VaultInv'
    BY <1>0, <1>2, <1>3, SettlingVault
  <2>2. /\ UNCHANGED <<poolAdminVars, now, activeRelayers>>
        /\ \E sides \in SUBSET Proofs, residuals \in Seq(Notes) : Burn(sides, residuals)
    BY <1>0, <1>3, SettlingBurns
  <2>3. PoolTypeOK' /\ OrderVarsOK'
    BY <1>0, <1>2, <2>2, BurnTypes
  <2> QED BY <1>0, <1>1, <2>1, <2>2, <2>3 DEF SettlementInv
<1>4. CASE Cancel
  <2>1. PoolTypeOK' /\ OrderVarsOK' /\ UNCHANGED <<vaultVars, activeRelayers, now>>
    BY <1>0, <1>2, <1>4, CancelTypes
  <2>2. VaultInv'
    BY <1>0, <2>1, VaultInvStep DEF vaultAndClock
  <2> QED BY <1>0, <1>1, <2>1, <2>2 DEF SettlementInv
<1>5. CASE /\ [PoolNext]_poolAndClock /\ [VaultNext]_vaultAndClock
           /\ UNCHANGED orderVars /\ activeRelayers' \subseteq Relayers
  <2>1. PoolTypeOK' /\ VaultInv'
    BY <1>0, <1>5, PoolTypeStep, VaultInvStep
  <2>2. OrderVarsOK'
    BY <1>0, <1>5 DEF OrderVarsOK, orderVars
  <2> QED BY <1>1, <1>5, <2>1, <2>2 DEF SettlementInv
<1> QED BY <1>0, <1>3, <1>4, <1>5, OtherSteps

(* The invariant implies the types and the books of all three contracts.   *)
LEMMA BooksFromInv == SettlementInv => BooksExact
<1> SUFFICES ASSUME SettlementInv PROVE BooksExact
  OBVIOUS
<1>1. CfgOK /\ ClaimsExact /\ PoolTypeOK /\ VaultInv /\ OrderVarsOK /\ activeRelayers \subseteq Relayers
  BY DEF SettlementInv, SolventOK
<1>2. /\ GroupsTyped(groups) /\ settleBal \in [Tokens -> Nat] /\ GroupBooksExact
  BY <1>1 DEF ClaimsExact, ClaimBooks, GroupBooksExact, SumOf, ClaimsOf, PaidOf
<1>3. TypeOK
  BY <1>1, <1>2 DEF TypeOK, VaultInv, OrderVarsOK, GroupsTyped, GroupRecords, CfgOK
<1>4. VaultBooksExact /\ DexFeeHasVault
  BY <1>1 DEF VaultInv, VaultBooksExact, CfgOK
<1> QED BY <1>2, <1>3, <1>4 DEF BooksExact

(* The storage of the three contracts keeps its types, a group's totals    *)
(* count its leaves and those that were paid, the vault covers and counts  *)
(* what it owes although fees and revenue arrive inside settlements, and   *)
(* no DEX fee is taken without a vault.                                    *)
THEOREM BooksStayExact == Spec => []BooksExact
<1> QED BY SettlementInvInit, SettlementInvStep, BooksFromInv, PTL DEF Spec

-----------------------------------------------------------------------------
(* A note can be taken out whole.                                          *)

(* The current root proves membership of every note of the log.            *)
LEMMA CurrentRootProves ==
    ASSUME PoolTypeOK, NEW i \in DOMAIN leaves
    PROVE  ProvesMembership(leaves[i])
<1>1. leaves \in Seq(Notes)
  BY DEF PoolTypeOK
<1>2. Len(leaves) \in Nat /\ DOMAIN leaves = 1 .. Len(leaves)
  BY <1>1
<1> DEFINE root == Len(leaves)
<1>3. root \in Roots /\ Len(leaves) - root < ROOT_HISTORY_SIZE
  BY <1>2, RootHistoryAssumption DEF Roots
<1>4. MemberUnder(leaves[i], root)
  BY <1>2 DEF MemberUnder
<1>5. IsKnownRoot(root)
  BY <1>3 DEF IsKnownRoot
<1> QED BY <1>3, <1>4, <1>5 DEF ProvesMembership

(* One unspent note is part of what the pool owes.                         *)
LEMMA NoteIsOwed ==
    ASSUME PoolTypeOK, NEW i \in DOMAIN leaves, ~Spent(EscrowNullifier(leaves[i]))
    PROVE  leaves[i].amount <= Liability(leaves[i].token)
<1> DEFINE note == leaves[i]
           f == Live(leaves, poolNullifiers, note.token)
           x == i
<1>1. leaves \in Seq(Notes)
  BY DEF PoolTypeOK
<1>2. note \in Notes
  BY <1>1, NoteAt
<1>3. note.token \in Tokens
  BY <1>2, NoteFields
<1>4. IsFamily(f)
  BY <1>1, <1>3, LiveFamily
<1>5. x \in DOMAIN f /\ f[x] = note.amount
  BY DEF Live, Spent
<1> HIDE DEF f, note
<1>6. f[x] <= Total(f)
  <2>1. \A y \in DOMAIN f \ {x} : f[y] = f[y]
    OBVIOUS
  <2>2. f[x] \in Nat
    BY <1>4, <1>5 DEF IsFamily
  <2> QED BY <1>4, <1>5, <2>1, <2>2, TotalUpdate
<1> QED BY <1>5, <1>6 DEF f, note, Liability

(* Nobody can lock a note in the pool: for any users, orders and roots     *)
(* forgotten, its owner can prove membership, needs no room in the tree,   *)
(* and finds the tokens there.                                             *)
THEOREM NotesCanExit == Spec => []EveryNoteCanExit
<1>1. ASSUME SettlementInv PROVE EveryNoteCanExit
  <2>1. PoolTypeOK /\ PoolSolvent /\ NotesOK
    BY <1>1 DEF SettlementInv, SolventOK
  <2>2. leaves \in Seq(Notes) /\ Len(leaves) <= Capacity /\ poolBal \in [Tokens -> Nat]
    BY <2>1 DEF PoolTypeOK
  <2> SUFFICES ASSUME NEW i \in DOMAIN leaves, ~Spent(EscrowNullifier(leaves[i]))
               PROVE  /\ ProvesMembership(leaves[i])
                      /\ \A salt \in Salts : HasRoomFor(Change(leaves[i], leaves[i].amount, salt))
                      /\ leaves[i].amount <= poolBal[leaves[i].token]
    BY Zenon DEF EveryNoteCanExit
  <2>3. leaves[i] \in Notes
    BY <2>2, NoteAt
  <2>4. leaves[i].token \in Tokens /\ leaves[i].amount \in Nat
    BY <2>3, NoteFields
  <2>5. \A salt \in Salts : Change(leaves[i], leaves[i].amount, salt) = << >>
    BY DEF Change
  <2>6. HasRoomFor(<< >>)
    BY <2>2, CapacityAssumption DEF HasRoomFor
  <2>7. leaves[i].amount <= Liability(leaves[i].token)
    BY <2>1, NoteIsOwed
  <2>8. Liability(leaves[i].token) <= poolBal[leaves[i].token]
    BY <2>1, <2>4 DEF PoolSolvent
  <2>9. Liability(leaves[i].token) \in Nat /\ poolBal[leaves[i].token] \in Nat
    BY <2>2, <2>4, LiveFamily DEF Liability, Owed
  <2>10. leaves[i].amount <= poolBal[leaves[i].token]
    BY <2>4, <2>7, <2>8, <2>9
  <2> QED BY <2>1, <2>5, <2>6, <2>10, CurrentRootProves
<1> QED BY <1>1, SettlementInvInit, SettlementInvStep, PTL DEF Spec

-----------------------------------------------------------------------------
(* The timelocks, and what users can take, in the composition: settlements *)
(* are not steps of the pool's or the vault's own specification, but they  *)
(* touch neither timelock and need an authorized settlement.               *)

(* The contracts' owners change nothing during a settlement.               *)
LEMMA SettlingLeavesAdmin ==
    ASSUME Settling \/ Cancel
    PROVE  /\ UNCHANGED <<poolAdminVars, vaultAdminVars, now>>
           /\ authorizedSettlement = Self /\ Self # None
<1> DEFINE Goal == /\ UNCHANGED <<poolAdminVars, vaultAdminVars, now>>
                   /\ authorizedSettlement = Self /\ Self # None
<1>1. ASSUME NEW r1, NEW t1, NEW n1, NEW r2, NEW t2, NEW n2, RouteFees(r1, t1, n1, r2, t2, n2)
      PROVE  UNCHANGED vaultAdminVars
  <2>1. CASE cfg.feeVault
    BY <1>1, <2>1, Zenon DEF RouteFees
  <2>2. CASE ~cfg.feeVault
    <3>1. UNCHANGED vaultVars
      BY <1>1, <2>2, Zenon DEF RouteFees
    <3> QED BY <3>1 DEF vaultVars
  <2> QED BY <2>1, <2>2
<1>2. ASSUME NEW t1, NEW n1, NEW t2, NEW n2, AccrueRevenue(t1, n1, t2, n2)
      PROVE  UNCHANGED vaultAdminVars
  <2>1. CASE cfg.feeVault
    BY <1>2, <2>1, Zenon DEF AccrueRevenue
  <2>2. CASE ~cfg.feeVault
    <3>1. UNCHANGED vaultVars
      BY <1>2, <2>2, Zenon DEF AccrueRevenue
    <3> QED BY <3>1 DEF vaultVars
  <2> QED BY <2>1, <2>2
<1>3. ASSUME NEW sides, NEW residuals, Burn(sides, residuals)
      PROVE  authorizedSettlement = Self /\ Self # None
  BY <1>3 DEF Burn, FromSettlement
<1>4. ASSUME NEW maker, NEW taker, NEW feeMaker, NEW feeTaker, NEW sender,
             settleAuth(sender, maker, taker, feeMaker, feeTaker)
      PROVE  Goal
  <2>1. UNCHANGED <<poolAdminVars, now>>
    BY <1>4 DEF settleAuth
  <2>2. UNCHANGED vaultAdminVars
    BY <1>1, <1>4, Zenon DEF settleAuth
  <2>3. authorizedSettlement = Self /\ Self # None
    BY <1>3, <1>4, Zenon DEF settleAuth
  <2> QED BY <2>1, <2>2, <2>3
<1>5. ASSUME NEW side, NEW fee, NEW sender, scatterDirectAuth(sender, side, fee)
      PROVE  Goal
  <2>1. UNCHANGED <<poolAdminVars, now>>
    BY <1>5 DEF scatterDirectAuth
  <2>2. UNCHANGED vaultAdminVars
    BY <1>1, <1>5, Zenon DEF scatterDirectAuth
  <2>3. authorizedSettlement = Self /\ Self # None
    BY <1>3, <1>5, Zenon DEF scatterDirectAuth
  <2> QED BY <2>1, <2>2, <2>3
<1>6. ASSUME NEW side, NEW router, NEW amountOut, NEW spent, NEW sender,
             settleWithDex(sender, side, router, spent, amountOut)
      PROVE  Goal
  <2>1. UNCHANGED <<poolAdminVars, now>>
    BY <1>6 DEF settleWithDex
  <2>2. UNCHANGED vaultAdminVars
    BY <1>2, <1>6, Zenon DEF settleWithDex
  <2>3. authorizedSettlement = Self /\ Self # None
    BY <1>3, <1>6, Zenon DEF settleWithDex
  <2> QED BY <2>1, <2>2, <2>3
<1>7. ASSUME Cancel PROVE Goal
  BY <1>7 DEF Cancel, cancelPrivate, vaultVars, FromSettlement
<1> HIDE DEF Goal
<1>8. ASSUME Settling PROVE Goal
  BY <1>4, <1>5, <1>6, <1>8, Zenon DEF Settling
<1>9. Goal
  BY <1>7, <1>8, Zenon
<1> QED BY <1>9 DEF Goal

(* So what was queued or announced stays what is pending.                  *)
TimelocksInv == SettlementInv /\ PendingWasQueued /\ PendingIsAnnounced

(* Nothing is pending at first.                                            *)
LEMMA TimelocksInit == Init => TimelocksInv
<1>1. Init => PoolStart
  BY DEF Init, PoolStart
<1>2. Init => VaultInit
  BY DEF Init
<1> QED BY <1>1, <1>2, SettlementInvInit, PendingQueuedInit, PendingInit DEF TimelocksInv

(* Every step keeps the pending changes in line with their announcements.  *)
LEMMA TimelocksStep == TimelocksInv /\ [Next]_vars => TimelocksInv'
<1> SUFFICES ASSUME TimelocksInv, [Next]_vars PROVE TimelocksInv'
  OBVIOUS
<1>0. SettlementInv /\ PendingWasQueued /\ PendingIsAnnounced /\ activeRelayers \subseteq Relayers
  BY DEF TimelocksInv, SettlementInv
<1>1. SettlementInv'
  BY <1>0, SettlementInvStep
<1>2. CASE Settling \/ Cancel
  <2>1. UNCHANGED <<poolAdminVars, vaultAdminVars>>
    BY <1>2, SettlingLeavesAdmin
  <2>2. PendingWasQueued' /\ PendingIsAnnounced'
    BY <1>0, <2>1 DEF poolAdminVars, timelockVars, vaultAdminVars, feeVars, PendingWasQueued,
       PendingIsAnnounced, FeeChangePending
  <2> QED BY <1>1, <2>2 DEF TimelocksInv
<1>3. CASE [PoolNext]_poolAndClock /\ [VaultNext]_vaultAndClock
  <2>1. PendingWasQueued' /\ PendingIsAnnounced'
    BY <1>0, <1>3, PendingQueuedStep, PendingStep
  <2> QED BY <1>1, <2>1 DEF TimelocksInv
<1> QED BY <1>0, <1>2, <1>3, OtherSteps

(* With claims, settlements and swaps running, a contract that may move    *)
(* the pool's tokens is the first one or was queued a full timelock ago.   *)
THEOREM ComposedSettlementTimelock == Spec => SettlementChangeWasQueued
<1>1. TimelocksInv /\ [Next]_vars =>
        [ authorizedSettlement' # authorizedSettlement =>
            \/ authorizedSettlement = None
            \/ /\ queued.addr = authorizedSettlement'
               /\ now >= queued.at + SETTLEMENT_TIMELOCK ]_poolAndClock
  <2> SUFFICES ASSUME TimelocksInv, [Next]_vars
               PROVE  [ authorizedSettlement' # authorizedSettlement =>
                          \/ authorizedSettlement = None
                          \/ /\ queued.addr = authorizedSettlement'
                             /\ now >= queued.at + SETTLEMENT_TIMELOCK ]_poolAndClock
    OBVIOUS
  <2>0. PendingWasQueued /\ activeRelayers \subseteq Relayers
    BY DEF TimelocksInv, SettlementInv
  <2>1. CASE Settling \/ Cancel
    BY <2>1, SettlingLeavesAdmin DEF poolAdminVars, timelockVars
  <2>2. CASE [PoolNext]_poolAndClock
    BY <2>0, <2>2, SettlementTimelockStep
  <2> QED BY <2>0, <2>1, <2>2, OtherSteps
<1> QED BY <1>1, TimelocksInit, TimelocksStep, PTL DEF Spec, SettlementChangeWasQueued

(* Next to relayers and routers, users still take only what they burn      *)
(* while no settlement contract is authorized.                             *)
THEOREM ComposedUsersOnly == Spec => UsersTakeOnlyTheirNotes
<1>1. TimelocksInv /\ [Next]_vars =>
        [ authorizedSettlement = None =>
            \A t \in Tokens : poolBal[t] + Liability(t)' <= poolBal'[t] + Liability(t) ]_poolAndClock
  <2> SUFFICES ASSUME TimelocksInv, [Next]_vars, authorizedSettlement = None
               PROVE  [\A t \in Tokens :
                         poolBal[t] + Liability(t)' <= poolBal'[t] + Liability(t)]_poolAndClock
    OBVIOUS
  <2>0. PoolTypeOK /\ activeRelayers \subseteq Relayers
    BY DEF TimelocksInv, SettlementInv
  <2>1. ~(Settling \/ Cancel)
    BY SettlingLeavesAdmin
  <2>2. [PoolNext]_poolAndClock
    BY <2>0, <2>1, OtherSteps
  <2> QED BY <2>0, <2>2, UsersOnlyStep
<1> QED BY <1>1, TimelocksInit, TimelocksStep, PTL DEF Spec, UsersTakeOnlyTheirNotes

(* While settlements credit fees, the fee rate honours its timelock.       *)
THEOREM ComposedFeeTimelock == Spec => FeeRateWasAnnounced
<1>1. TimelocksInv /\ [Next]_vars =>
        [ platformFeeBps' # platformFeeBps =>
            /\ platformFeeBps' = announced.bps
            /\ now >= announced.at + announced.delay ]_vaultAndClock
  <2> SUFFICES ASSUME TimelocksInv, [Next]_vars
               PROVE  [ platformFeeBps' # platformFeeBps =>
                          /\ platformFeeBps' = announced.bps
                          /\ now >= announced.at + announced.delay ]_vaultAndClock
    OBVIOUS
  <2>0. PendingIsAnnounced /\ activeRelayers \subseteq Relayers
    BY DEF TimelocksInv, SettlementInv
  <2>1. CASE Settling \/ Cancel
    BY <2>1, SettlingLeavesAdmin DEF vaultAdminVars, feeVars
  <2>2. CASE [VaultNext]_vaultAndClock
    BY <2>0, <2>2, FeeTimelockStep
  <2> QED BY <2>0, <2>1, <2>2, OtherSteps
<1> QED BY <1>1, TimelocksInit, TimelocksStep, PTL DEF Spec, FeeRateWasAnnounced
=============================================================================
