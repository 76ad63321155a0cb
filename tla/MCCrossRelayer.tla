--------------------------- MODULE MCCrossRelayer ---------------------------
(* Instances of CrossRelayer: order mo with its local counterparty no at   *)
(* r1, order to at r2.  Offer f goes from r2 to r1, offer g the other way. *)
EXTENDS CrossRelayer

CONSTANTS r1, r2, w1, w2, ft, fm, gt, gm, mo, no, to, k1, k2, f, g

TwoRelayers == {r1, r2}
OwnerMN == [o \in Orders |-> IF o = to THEN r2 ELSE r1]
TaskRelayer == [x \in Tasks |-> IF x \in {w1, fm, gt} THEN r1 ELSE r2]
WorkerTask == [r \in Relayers |-> IF r = r1 THEN w1 ELSE w2]
OfferTaker == [x \in Offers |-> IF x = f THEN ft ELSE gt]
OfferMaker == [x \in Offers |-> IF x = f THEN fm ELSE gm]
AllFit == {<<mo, to>>, <<to, mo>>, <<mo, no>>, <<no, mo>>} \cap (Orders \X Orders)
KeyPerRelayer == [o \in Orders |-> IF o = to THEN k2 ELSE k1]
ExpireTogether == [o \in Orders |-> 1]

VerifyAll == [r \in Relayers |-> TRUE]

Plain == INSTANCE CrossRelayer WITH
    verifyOrderProofs <- [r \in Relayers |-> FALSE], Unreliable <- {}

VARIABLE situation

NoneFrom(x) == offers'[x] = NoOffer

Quiet(x) == offers[x] = NoOffer /\ handlers[x] = NoHandler /\ \A t \in Tasks : sub[t].at = "idle"
TimePasses(x) == clock' # clock => Quiet(x)

(* Time passes in each, and a behaviour stays in the one it starts in:     *)
(*   races     the offer and the worker, with its counterparty no, both    *)
(*             want mo;                                                    *)
(*   bothWays  offers in both directions, and nobody verifies;             *)
(*   crash     a crash on either side of an offer, while mo is cancelled.  *)
(* In races and crash time passes between offers, and in races an RPC that *)
(* was given MaxTxs - 1 transactions takes no more: a request may be lost, *)
(* and a wait or a broadcast fail, at any time, so that there are fair     *)
(* behaviours.                                                             *)
MCInit ==
    /\ CrossInit
    /\ situation \in {"races", "bothWays", "crash"}
    /\ {o \in Orders : row[o] = "accepted"} = IF situation = "races" THEN {mo, no, to} ELSE {mo, to}

MCNext ==
    /\ \/ /\ situation = "races"
          /\ CrossNext
          /\ NoneFrom(g) /\ cancelLog' = << >> /\ crashes' = 0 /\ Len(txs') < MaxTxs
          /\ TimePasses(f)
       \/ situation = "bothWays" /\ Plain!CrossNext /\ cancelLog' = << >> /\ crashes' = 0
       \/ situation = "crash" /\ CrossNext /\ NoneFrom(f) /\ TimePasses(g)
    /\ UNCHANGED situation

MCSpec == MCInit /\ [][MCNext]_<<crossAll, situation>> /\ CrossFairness
=============================================================================
