--------------------------- MODULE MCRelayerQueue ---------------------------
(***************************************************************************)
(* One relayer.  Orders a and b fit each other; a and c are of one key,    *)
(* which has one slot.  The situations bound what happens beside the       *)
(* worker; a behaviour stays in the situation it starts in.                *)
(***************************************************************************)
EXTENDS RelayerQueue

CONSTANTS r1, w1, a, b, c, k1, k2, p1, p2

OneRelayer == {r1}
OwnerAll == [o \in Orders |-> r1]
TaskRelayer == [t \in Tasks |-> r1]
WorkerTask == [r \in Relayers |-> w1]
ABFit == {<<a, b>>, <<b, a>>}
KeyOfB == [o \in Orders |-> IF o = b THEN k2 ELSE k1]
ExpireEarly == [o \in Orders |-> 1]

VARIABLE situation

Posted == {posts[p].order : p \in Posts} \ {NoOrder}

Within ==
    \/ situation = "races" /\ Posted' \subseteq {a, b} /\ crashes' = 0
    \/ situation = "slots" /\ Posted' \subseteq {a, c} /\ crashes' = 0 /\ clock' = 0
    \/ situation = "crash" /\ Posted' \subseteq {a, b} /\ posts'[p2] = NoPost

MCInit == QueueInit /\ situation \in {"races", "slots", "crash"}
MCNext == QueueNext /\ Within /\ UNCHANGED situation
MCSpec == MCInit /\ [][MCNext]_<<queueAll, situation>>
=============================================================================
