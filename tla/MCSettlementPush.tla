-------------------------- MODULE MCSettlementPush --------------------------
(***************************************************************************)
(* Instances of SettlementPush: relayer a settles transaction 1 against an *)
(* order of relayer b; transaction 2 is never mined.                       *)
(***************************************************************************)
EXTENDS SettlementPush

MCEventOf == [t \in Txs |-> [maker |-> "a", taker |-> IF t = 1 THEN "b" ELSE None]]

Row(t, s, m, k, b) == [tx |-> t, submitter |-> s, maker |-> m, taker |-> k, block |-> b]

\* The counterparty's relayer reports the settlement as well; relayer c names
\* itself the maker's; and b reports a settlement that does not exist.
MCReports == {Row(1, "b", "a", "b", 2), Row(1, "c", "c", "b", 2), Row(2, "b", "b", None, 1)}

\* Settlements that do not exist: one in an old block, one far in the future.
MCNoEvent == {Row(2, "b", "b", None, 1), Row(2, "c", "c", None, MaxHead + FutureBlockBuffer + 1)}

\* The situations a run explores; a behaviour stays in the one it starts in.
VARIABLE situation

\* Reports race for the one row of the table with our own, through a
\* reorganisation or through failures.
Reorged == INSTANCE SettlementPush WITH MaxFaults <- 0, MaxLosses <- 0, FutureBlockBuffer <- 1
Failing == INSTANCE SettlementPush WITH MaxReorgs <- 0, MaxReports <- 1, FutureBlockBuffer <- 1

\* Rows that can never be verified stand before ours in a window of one row.
Delivery == INSTANCE SettlementPush WITH
    LimitPerPass <- 1, MaxSettlements <- 2,
    MaxLosses <- 0, MaxReorgs <- 0, Reports <- MCNoEvent

MCInit ==
    \/ situation = "reorged" /\ Reorged!PushInit
    \/ situation = "failing" /\ Failing!PushInit
    \/ situation = "delivery" /\ Delivery!PushInit

MCNext ==
    /\ \/ situation = "reorged" /\ Reorged!PushNext
       \/ situation = "failing" /\ Failing!PushNext
       \/ situation = "delivery" /\ Delivery!PushNext
    /\ UNCHANGED situation

MCSpec == MCInit /\ [][MCNext]_<<pushAll, situation>> /\ ((situation = "delivery") => Delivery!PushFairness)

\* Every settlement of the relayer is in the index, verified, in the end:
\* failures up to the caps and rows of others cannot keep it out while the
\* table has room for it, and what a pass recorded of its event is not undone.
OwnSettlementsVerified ==
    /\ AttestationSticks
    /\ (situation = "delivery") => EverySettlementVerified
=============================================================================
