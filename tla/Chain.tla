------------------------------- MODULE Chain -------------------------------
(***************************************************************************)
(* What every contract of the system sees of the chain: the block clock    *)
(* and the ERC20 balances it looks up.  A transaction is one step.         *)
(***************************************************************************)
EXTENDS Naturals

CONSTANTS
    Tokens,     \* ERC20 contracts
    Accounts,   \* externally owned accounts and contracts of users
    weth,       \* the token that is unwrapped into native ETH when paid out
    RejectsEth, \* accounts without a payable receive(): a transfer reverts
    MaxTime     \* bound of the clock

ASSUME TimeAssumption == MaxTime \in Nat
ASSUME WethAssumption == weth \in Tokens

VARIABLE now    \* block.timestamp

None == "none"  \* address(0)

Tick == now < MaxTime /\ now' = now + 1

(* Per-token balances after a transfer in or out.                          *)
Plus(f, t, n) == [f EXCEPT ![t] = @ + n]
Minus(f, t, n) == [f EXCEPT ![t] = @ - n]

Zero == [t \in Tokens |-> 0]

(* Paying WETH out means unwrapping it and sending ETH.                    *)
AcceptsPayout(account, t) == t = weth => account \notin RejectsEth

FEE_BPS_DENOMINATOR == 10000
=============================================================================
