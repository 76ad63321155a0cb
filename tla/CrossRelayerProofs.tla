------------------------- MODULE CrossRelayerProofs -------------------------
(***************************************************************************)
(* Proofs about trade offers between relayers.  For any number of          *)
(* relayers, orders and offers, lost and late messages, crashes and wrong  *)
(* answers: a row is settled only if the chain settled its order.  Where   *)
(* relayers keep their rows, an order is in two submissions at a time, or  *)
(* left in matched by a race, only after a handler locked it on the word   *)
(* of a check that the await of the proof had made untrue; only a crash    *)
(* during an offer leaves other orders in matched.                         *)
(***************************************************************************)
EXTENDS CrossRelayer, RelayerQueueProofs

-----------------------------------------------------------------------------
(* The offers.                                                             *)

OfferRecords ==
    [at : {"idle", "asking"}, maker : Orders \cup {NoOrder}, taker : Orders \cup {NoOrder},
     prior : Statuses \cup {"none"}, ans : {"none", "settled", "rejected", "error"}]
HandlerRecords ==
    [at : {"idle", "sent", "verifying", "settling"}, maker : Orders \cup {NoOrder},
     taker : Orders \cup {NoOrder}, prior : Statuses \cup {"none"}]

(* The taker's side: it asks for an order of its own relayer that was      *)
(* live, and reaches no other entry.                                       *)
OfferOK(f) ==
    /\ offers[f].at = "asking" =>
          /\ offers[f].taker \in Orders /\ Owner[offers[f].taker] = RelayerOf[TakerTask[f]]
          /\ up[Owner[offers[f].taker]] = "up"
          /\ offers[f].prior \in LIVE_STATUSES
    /\ held[TakerTask[f]] \subseteq {offers[f].taker}
    /\ offers[f].at = "idle" => held[TakerTask[f]] = {}

(* The maker's side: its own order against a foreign one, submitted while  *)
(* it settles and only then; it reaches no other entry than its own, and   *)
(* what it will put back says settled only if the chain did.               *)
HandlerOK(f) ==
    /\ handlers[f].at # "idle" =>
          /\ handlers[f].maker \in Orders /\ handlers[f].taker \in Orders
          /\ Owner[handlers[f].maker] = RelayerOf[MakerTask[f]]
          /\ Owner[handlers[f].maker] # Owner[handlers[f].taker]
    /\ handlers[f].at = "verifying" => verifyOrderProofs[Owner[handlers[f].maker]]
    /\ handlers[f].at \in {"verifying", "settling"} => up[Owner[handlers[f].maker]] = "up"
    /\ handlers[f].at = "settling" =>
          /\ sub[MakerTask[f]].at # "idle"
          /\ sub[MakerTask[f]].orders = {handlers[f].maker, handlers[f].taker}
    /\ handlers[f].at # "settling" => sub[MakerTask[f]] = Idle
    /\ held[MakerTask[f]] \subseteq {handlers[f].maker}
    /\ handlers[f].at \in {"idle", "sent"} => held[MakerTask[f]] = {}
    /\ handlers[f].prior = "settled" => handlers[f].maker \in spent

(* Orders whose relayer verifies the taker's proof.                        *)
Verifying == {o \in Orders : verifyOrderProofs[Owner[o]]}

(* Only workers and handlers submit.                                       *)
OthersIdle ==
    \A t \in Tasks :
        \/ \E r \in Relayers : t = WorkerOf[r]
        \/ \E f \in Offers : t = MakerTask[f]
        \/ sub[t] = Idle

(* An entry or a row says settled only if the chain settled the order.     *)
OnChain(o) == "settled" \in {row[o], mem[o]} => o \in spent

CrossBase ==
    /\ QueueBase /\ AllUp
    /\ lockingOrders \subseteq Orders
    /\ offers \in [Offers -> OfferRecords] /\ handlers \in [Offers -> HandlerRecords]
    /\ raced \subseteq Verifying /\ orphaned \subseteq Orders
    /\ \A f \in Offers : OfferOK(f) /\ HandlerOK(f)
    /\ OthersIdle
    /\ \A o \in Orders : OnChain(o)

-----------------------------------------------------------------------------
(* Orders that no handler locked on the word of a stale check.             *)

(* Row, entry and job of an order fit together: a live entry has a row the *)
(* worker may not yet have taken, and the job reaches its entries.         *)
Sound(o) ==
    /\ mem[o] # "none" => row[o] # "none"
    /\ mem[o] \in LIVE_STATUSES => ~OnTheJob(o)
    /\ mem[o] \in LIVE_STATUSES \/ OnTheJob(o) => row[o] \notin {"none", "failed", "matched"}
    /\ OnTheJob(o) /\ mem[o] = "matched" => o \in held[JobTask(o)]

(* While task t is at work on a locked order, nothing else can take it:    *)
(* neither worker nor another offer nor a new request.                     *)
Reserved(o, t) ==
    /\ o \in lockingOrders
    /\ mem[o] \notin LIVE_STATUSES
    /\ row[o] \notin {"accepted", "retrying", "none", "failed"}
    /\ ~OnTheJob(o)
    /\ mem[o] = "matched" => o \in held[t]
LocksHold(o) ==
    \A f \in Offers :
        /\ AsksFor(f, o) => Reserved(o, TakerTask[f])
        /\ SettlesFor(f, o) => Reserved(o, MakerTask[f]) /\ handlers[f].prior \in LIVE_STATUSES
OneLock(o) ==
    \A f, g \in Offers :
        /\ AsksFor(f, o) /\ AsksFor(g, o) => f = g
        /\ SettlesFor(f, o) /\ SettlesFor(g, o) => f = g
        /\ ~(AsksFor(f, o) /\ SettlesFor(g, o))

(* Matched means that somebody is at work, unless a crash ended an offer   *)
(* that was at work on the order.                                          *)
NotStuck(o) ==
    o \notin orphaned =>
        /\ row[o] = "matched" => Locked(o)
        /\ mem[o] = "matched" => OnTheJob(o) \/ Locked(o)

LockOK(o) == Sound(o) /\ LocksHold(o) /\ OneLock(o) /\ NotStuck(o)
LockInv == \A o \in Orders : o \notin raced => LockOK(o)

-----------------------------------------------------------------------------
(* Tasks.                                                                  *)

(* Every side of every offer is a task of its own.                         *)
LEMMA OfferTasks ==
    ASSUME NEW f \in Offers
    PROVE  /\ TakerTask[f] \in Tasks /\ MakerTask[f] \in Tasks
           /\ \A r \in Relayers : TakerTask[f] # WorkerOf[r] /\ MakerTask[f] # WorkerOf[r]
           /\ \A o \in Orders : TakerTask[f] # JobTask(o) /\ MakerTask[f] # JobTask(o)
           /\ \A g \in Offers : TakerTask[f] # MakerTask[g] /\ MakerTask[f] # TakerTask[g]
           /\ \A g \in Offers \ {f} : TakerTask[f] # TakerTask[g] /\ MakerTask[f] # MakerTask[g]
<1>1. \A r \in Relayers : TakerTask[f] # WorkerOf[r] /\ MakerTask[f] # WorkerOf[r]
  BY CrossAssumption
<1>2. \A o \in Orders : TakerTask[f] # JobTask(o) /\ MakerTask[f] # JobTask(o)
  BY <1>1, QueueAssumption DEF JobTask
<1> QED BY <1>1, <1>2, CrossAssumption

(* A task that moves has begun, and is still not idle.                     *)
LEMMA TaskRuns ==
    ASSUME SubmitterOK, NEW t \in Tasks, TaskStep(t)
    PROVE  sub[t].at # "idle" /\ sub'[t].at # "idle"
<1>1. sub \in [Tasks -> Submissions] /\ sub[t] \in Submissions
  BY DEF SubmitterOK, SubmitterTypeOK
<1>2. sub[t].at # "idle"
  BY DEF TaskStep, estimateAndGuard, send, receipt, noReceipt
<1> SUFFICES sub'[t].at # "idle"
  BY <1>2
<1>3. ASSUME NEW e, Finish(t, e) PROVE sub'[t].at # "idle"
  <2> DEFINE s == [Idle EXCEPT !.at = "done", !.orders = sub[t].orders, !.out = e]
  <2>1. sub' = [sub EXCEPT ![t] = s]
    BY <1>3, Zenon DEF Finish
  <2>2. s.at = "done"
    BY DEF Idle
  <2> HIDE DEF s
  <2> QED BY <1>1, <2>1, <2>2
<1>4. CASE estimateAndGuard(t)
  <2>1. CASE sub' = [sub EXCEPT ![t].at = "sending"]
    <3> DEFINE s == [sub[t] EXCEPT !.at = "sending"]
    <3>1. s.at = "sending" /\ sub' = [sub EXCEPT ![t] = s]
      BY <1>1, <2>1 DEF Submissions
    <3> HIDE DEF s
    <3> QED BY <1>1, <3>1
  <2>2. CASE \E e : Finish(t, e)
    BY <1>3, <2>2
  <2>3. \/ sub' = [sub EXCEPT ![t].at = "sending"]
        \/ \E e : Finish(t, e)
    BY <1>4, Zenon DEF estimateAndGuard
  <2> QED BY <2>1, <2>2, <2>3
<1>5. CASE send(t)
  <2>1. CASE sub' = [sub EXCEPT ![t] = Waiting(t)]
    <3>1. Waiting(t).at = "waiting"
      BY <1>1 DEF Waiting, Submissions
    <3> QED BY <1>1, <2>1, <3>1
  <2>2. CASE sub' = [sub EXCEPT ![t].tries = @ + 1]
    <3> DEFINE s == [sub[t] EXCEPT !.tries = @ + 1]
    <3>1. s.at = sub[t].at /\ sub' = [sub EXCEPT ![t] = s]
      BY <1>1, <2>2 DEF Submissions
    <3> HIDE DEF s
    <3> QED BY <1>1, <1>2, <3>1
  <2>3. CASE \E e : Finish(t, e)
    BY <1>3, <2>3
  <2>4. \/ sub' = [sub EXCEPT ![t] = Waiting(t)]
        \/ SendAgain(t)
        \/ \E e : Finish(t, e)
    BY <1>5, Zenon DEF send
  <2>5. SendAgain(t) => \/ sub' = [sub EXCEPT ![t].tries = @ + 1]
                        \/ \E e : Finish(t, e)
    BY Zenon DEF SendAgain
  <2> QED BY <2>1, <2>2, <2>3, <2>4, <2>5
<1>6. CASE receipt(t) \/ noReceipt(t)
  <2>1. \E e : Finish(t, e)
    BY <1>6, Zenon DEF receipt, noReceipt
  <2> QED BY <1>3, <2>1
<1> QED BY <1>4, <1>5, <1>6 DEF TaskStep

-----------------------------------------------------------------------------
(* What the queue's moves do to an order offers are about.                 *)

(* Only a worker's own task comes to reach an entry.                       *)
LEMMA ReachShrinks ==
    ASSUME NEW o \in Orders, Moves(o), NEW t \in Tasks, t # JobTask(o), o \in held'[t]
    PROVE  o \in held[t]
<1>1. CASE QuietMove(o) \/ Restored(o)
  BY <1>1 DEF QuietMove, Rests, Accepted, Withdrawn, Parked, Swept, Purged, Dismissed, Restored,
              SameReach, Dropped
<1>2. CASE JobMove(o)
  BY <1>2 DEF JobMove, Claimed, Paired, Completed, GivenBack, Judged, LeavesJob, OthersReach
<1> QED BY <1>1, <1>2 DEF Moves

(* Only a booking makes a row or an entry settled.                         *)
LEMMA OnChainStays ==
    ASSUME QueueBase, OrdersMove, NEW o \in Orders, OnChain(o)
    PROVE  OnChain(o)'
<1>1. Moves(o) /\ spent \subseteq spent'
  BY DEF OrdersMove, Grows
<1>2. CASE QuietMove(o)
  <2>1. (row'[o] = "settled" => row[o] = "settled") /\ (mem'[o] = "settled" => mem[o] = "settled")
    BY <1>2 DEF QuietMove, Rests, Accepted, Withdrawn, Parked, Swept, Purged, Dismissed
  <2> QED BY <1>1, <2>1 DEF OnChain
<1>3. CASE Completed(o)
  BY <1>1, <1>3 DEF Completed, Booked, OnChain
<1>4. CASE Claimed(o) \/ Paired(o) \/ GivenBack(o) \/ Judged(o) \/ Restored(o)
  <2>1. (row'[o] = "settled" => row[o] = "settled") /\ (mem'[o] = "settled" => mem[o] = "settled")
    BY <1>4 DEF Claimed, Paired, GivenBack, Judged, Restored, LIVE_STATUSES, IN_FLIGHT_STATUSES
  <2> QED BY <1>1, <2>1 DEF OnChain
<1> QED BY <1>1, <1>2, <1>3, <1>4 DEF Moves, JobMove

(* Rows that are kept fit their entries whatever the queue does.           *)
LEMMA SoundStays ==
    ASSUME QueueBase, NEW o \in Orders, Moves(o), RetainForever, Sound(o)
    PROVE  Sound(o)'
<1>0. JobTask(o) \in Tasks /\ JobTask(o)' = JobTask(o)
  BY OrderParts DEF JobTask
<1>1. CASE SameJob(o) /\ QuietMove(o)
  <2>1. OnTheJob(o)' <=> OnTheJob(o)
    BY <1>1, JobGoesOn
  <2>2. CASE Rests(o) \/ Parked(o) \/ Swept(o)
    <3>1. mem'[o] = mem[o] /\ (o \in held'[JobTask(o)] <=> o \in held[JobTask(o)])
      BY <1>0, <2>2 DEF Rests, Parked, Swept, SameReach
    <3>2. row'[o] = row[o] \/ row'[o] \in {"accepted", "expired"}
      BY <2>2 DEF Rests, Parked, Swept
    <3> QED BY <1>0, <2>1, <3>1, <3>2 DEF Sound
  <2>3. CASE Accepted(o)
    <3>1. ~OnTheJob(o)
      BY <2>3 DEF Accepted, Sound
    <3> QED BY <2>1, <2>3, <3>1 DEF Accepted, Sound
  <2>4. CASE Withdrawn(o)
    <3>1. ~OnTheJob(o)
      BY <2>4 DEF Withdrawn, Sound
    <3> QED BY <2>1, <2>4, <3>1 DEF Withdrawn, Sound, LIVE_STATUSES
  <2>5. CASE Purged(o)
    <3>1. row'[o] = row[o] /\ (mem'[o] = "none" \/ (mem'[o] = mem[o] /\ SameReach(o)))
      BY <2>5 DEF Purged
    <3>2. CASE mem'[o] = "none"
      BY <2>1, <3>1, <3>2 DEF Sound, LIVE_STATUSES
    <3>3. CASE mem'[o] = mem[o] /\ SameReach(o)
      BY <1>0, <2>1, <3>1, <3>3 DEF Sound, SameReach
    <3> QED BY <3>1, <3>2, <3>3
  <2>6. CASE Dismissed(o)
    BY <2>1, <2>6 DEF Dismissed, Sound, LIVE_STATUSES
  <2> QED BY <1>1, <2>2, <2>3, <2>4, <2>5, <2>6 DEF QuietMove
<1>2. CASE Claimed(o)
  BY <1>0, <1>2 DEF Claimed, Sound, LIVE_STATUSES
<1>3. CASE Paired(o)
  BY <1>0, <1>3 DEF Paired, Sound, LIVE_STATUSES
<1>4. CASE Completed(o) \/ GivenBack(o) \/ Judged(o)
  <2>1. OnTheJob(o) /\ ~OnTheJob(o)'
    BY <1>4 DEF Completed, GivenBack, Judged, LeavesJob
  <2>2. row[o] \notin {"none", "failed", "matched"} /\ mem[o] \notin LIVE_STATUSES
    BY <2>1 DEF Sound
  <2>3. CASE Completed(o) \/ GivenBack(o)
    BY <2>1, <2>2, <2>3 DEF Completed, GivenBack, Sound, LIVE_STATUSES
  <2>4. CASE Judged(o)
    <3>1. PICK s \in {"failed", "dead_letter", "retrying"} :
             /\ row'[o] = IF row[o] = "none" THEN "none" ELSE s
             /\ mem'[o] = IF o \in held[JobTask(o)] THEN s ELSE mem[o]
      BY <2>4 DEF Judged
    <3> QED BY <2>1, <2>2, <3>1 DEF Sound, LIVE_STATUSES
  <2> QED BY <1>4, <2>3, <2>4
<1>5. CASE SameJob(o) /\ Restored(o)
  <2>1. ~OnTheJob(o) /\ ~OnTheJob(o)'
    BY <1>5, OrderParts, JobGoesOn DEF Restored
  <2> QED BY <1>5, <2>1 DEF Restored, Sound, LIVE_STATUSES, IN_FLIGHT_STATUSES
<1> QED BY <1>1, <1>2, <1>3, <1>4, <1>5 DEF Moves, JobMove

(* The queue leaves a reserved order to the task that is at work on it.    *)
LEMMA ReservedStays ==
    ASSUME QueueBase, NEW o \in Orders, Moves(o), RetainForever, NEW t \in Tasks, Reserved(o, t),
           up[Owner[o]] = "up", lockingOrders' = lockingOrders
    PROVE  Reserved(o, t)'
<1>1. SameJob(o) /\ QuietMove(o)
  BY DEF Moves, JobMove, Claimed, Paired, Completed, GivenBack, Judged, LeavesJob, Restored, Reserved
<1>2. ~OnTheJob(o)'
  BY <1>1, JobGoesOn DEF Reserved
<1>3. Rests(o) \/ Swept(o) \/ Purged(o) \/ Dismissed(o)
  BY <1>1 DEF QuietMove, Accepted, Withdrawn, Parked, Reserved
<1>4. row'[o] = row[o] \/ row'[o] \in {"expired", "cancelled"}
  BY <1>3 DEF Rests, Swept, Purged, Dismissed, Reserved
<1>5. mem'[o] = "none" \/ (mem'[o] = mem[o] /\ SameReach(o))
  BY <1>3 DEF Rests, Swept, Purged, Dismissed
<1>6. CASE mem'[o] = "none"
  BY <1>2, <1>4, <1>6 DEF Reserved, LIVE_STATUSES
<1>7. CASE mem'[o] = mem[o] /\ SameReach(o)
  BY <1>2, <1>4, <1>7 DEF Reserved, SameReach
<1> QED BY <1>5, <1>6, <1>7

(* The queue matches an order for its worker's job only; a boot restores   *)
(* what the row says.                                                      *)
LEMMA MatchedByJob ==
    ASSUME QueueBase, NEW o \in Orders, Moves(o), Sound(o)
    PROVE  /\ row'[o] = "matched" => row[o] = "matched"
           /\ mem'[o] = "matched" =>
                 OnTheJob(o)' \/ (mem[o] = "matched" /\ ~OnTheJob(o)) \/ row[o] = "matched"
<1>1. CASE SameJob(o) /\ QuietMove(o)
  <2>1. OnTheJob(o)' <=> OnTheJob(o)
    BY <1>1, JobGoesOn
  <2>2. (row'[o] = "matched" => row[o] = "matched") /\ (mem'[o] = "matched" => mem[o] = "matched")
    BY <1>1 DEF QuietMove, Rests, Accepted, Withdrawn, Parked, Swept, Purged, Dismissed
  <2> QED BY <2>1, <2>2
<1>2. CASE Claimed(o) \/ Paired(o)
  BY <1>2 DEF Claimed, Paired
<1>3. CASE Completed(o) \/ GivenBack(o) \/ Judged(o)
  <2>1. OnTheJob(o)
    BY <1>3 DEF Completed, GivenBack, Judged, LeavesJob
  <2> QED BY <1>3, <2>1 DEF Completed, GivenBack, Judged, Sound
<1>4. CASE Restored(o)
  <2>1. ~OnTheJob(o)
    BY <1>4, OrderParts DEF Restored
  <2>2. mem'[o] = row[o] \/ mem'[o] = mem[o]
    BY <1>4 DEF Restored
  <2>3. row'[o] = "matched" => row[o] = "matched"
    BY <1>4 DEF Restored
  <2> QED BY <2>1, <2>2, <2>3
<1> QED BY <1>1, <1>2, <1>3, <1>4 DEF Moves, JobMove

-----------------------------------------------------------------------------
(* The queue beside the offers.                                            *)

(* What the offers do while the queue or a submission moves.               *)
BesideOffers ==
    /\ UNCHANGED <<lockingOrders, offers, raced, orphaned>>
    /\ handlers' = [f \in Offers |->
          LET m == handlers[f].maker IN
          IF handlers[f].at = "verifying" /\ m \in held[MakerTask[f]] \ held'[MakerTask[f]]
          THEN [handlers[f] EXCEPT !.prior = LastStatus(m)] ELSE handlers[f]]
(* A submission that has begun goes on; nobody begins one.                 *)
Waits ==
    \A t \in Tasks : (\A r \in Relayers : t # WorkerOf[r]) =>
        \/ sub'[t] = sub[t]
        \/ sub[t].at # "idle" /\ sub'[t].at # "idle" /\ sub'[t].orders = sub[t].orders

(* What the invariant says of the variables.                               *)
LEMMA CrossParts ==
    ASSUME CrossBase
    PROVE  /\ QueueBase /\ AllUp /\ OthersIdle /\ lockingOrders \subseteq Orders
           /\ offers \in [Offers -> OfferRecords] /\ handlers \in [Offers -> HandlerRecords]
           /\ raced \subseteq Verifying /\ orphaned \subseteq Orders
           /\ \A f \in Offers : OfferOK(f) /\ HandlerOK(f)
           /\ \A o \in Orders : OnChain(o)
           /\ row \in [Orders -> Statuses \cup {"none"}] /\ mem \in [Orders -> Statuses \cup {"none"}]
           /\ held \in [Tasks -> SUBSET Orders] /\ slots \in [Keys -> Nat]
           /\ sub \in [Tasks -> Submissions]
BY Parts DEF CrossBase, SubmitterTypeOK

(* A handler keeps everything but what it will put back.                   *)
LEMMA BesideHandlers ==
    ASSUME CrossBase, BesideOffers
    PROVE  /\ handlers' \in [Offers -> HandlerRecords]
           /\ \A f \in Offers :
                 /\ handlers'[f].at = handlers[f].at /\ handlers'[f].maker = handlers[f].maker
                 /\ handlers'[f].taker = handlers[f].taker
                 /\ handlers[f].at # "verifying" => handlers'[f].prior = handlers[f].prior
                 /\ handlers'[f].prior = "settled" =>
                       \/ handlers[f].prior = "settled"
                       \/ handlers[f].maker \in Orders /\ mem[handlers[f].maker] = "settled"
<1>0. /\ handlers \in [Offers -> HandlerRecords] /\ mem \in [Orders -> Statuses \cup {"none"}]
      /\ held \in [Tasks -> SUBSET Orders] /\ \A f \in Offers : HandlerOK(f)
  BY CrossParts
<1>1. ASSUME NEW f \in Offers
      PROVE  /\ handlers'[f] \in HandlerRecords
             /\ handlers'[f].at = handlers[f].at /\ handlers'[f].maker = handlers[f].maker
             /\ handlers'[f].taker = handlers[f].taker
             /\ handlers[f].at # "verifying" => handlers'[f].prior = handlers[f].prior
             /\ handlers'[f].prior = "settled" =>
                   \/ handlers[f].prior = "settled"
                   \/ handlers[f].maker \in Orders /\ mem[handlers[f].maker] = "settled"
  <2> DEFINE m == handlers[f].maker
             h == [handlers[f] EXCEPT !.prior = LastStatus(m)]
  <2>1. handlers'[f] = IF handlers[f].at = "verifying" /\ m \in held[MakerTask[f]] \ held'[MakerTask[f]]
                       THEN h ELSE handlers[f]
    BY DEF BesideOffers
  <2>2. handlers[f] \in HandlerRecords
    BY <1>0
  <2>3. CASE handlers'[f] = handlers[f]
    BY <2>2, <2>3
  <2>4. CASE handlers[f].at = "verifying" /\ handlers'[f] = h
    <3>1. m \in Orders
      BY <1>0, <2>4 DEF HandlerOK
    <3>2. LastStatus(m) = "cancelled" \/ LastStatus(m) = mem[m]
      BY DEF LastStatus
    <3>3. LastStatus(m) \in Statuses \cup {"none"}
      BY <1>0, <3>1, <3>2 DEF Statuses, TERMINAL_STATUSES
    <3>4. /\ h \in HandlerRecords /\ h.at = handlers[f].at /\ h.maker = m
          /\ h.taker = handlers[f].taker /\ h.prior = LastStatus(m)
      BY <2>2, <3>3 DEF HandlerRecords
    <3> QED BY <2>4, <3>1, <3>2, <3>4
  <2> QED BY <2>1, <2>3, <2>4
<1>2. handlers' \in [Offers -> HandlerRecords]
  <2>1. handlers' = [f \in Offers |-> handlers'[f]]
    BY DEF BesideOffers
  <2> QED BY <1>1, <2>1
<1> QED BY <1>1, <1>2

(* The base beside a step that moves orders and lets submissions go on.    *)
LEMMA BesideBase ==
    ASSUME CrossBase, OrdersMove, Waits, BesideOffers
    PROVE  CrossBase'
<1>0. /\ QueueBase /\ AllUp /\ OthersIdle /\ lockingOrders \subseteq Orders
      /\ offers \in [Offers -> OfferRecords] /\ sub \in [Tasks -> Submissions]
      /\ QueueBase' /\ Grows /\ crashes' = crashes
      /\ \A q \in Relayers : up[q] = "up" => up'[q] = "up"
      /\ \A o \in Orders : Moves(o)
      /\ UNCHANGED <<lockingOrders, offers, raced, orphaned>>
      /\ raced \subseteq Verifying /\ orphaned \subseteq Orders
  BY CrossParts DEF OrdersMove, BesideOffers
<1>1. /\ handlers' \in [Offers -> HandlerRecords]
      /\ \A f \in Offers :
            /\ handlers'[f].at = handlers[f].at /\ handlers'[f].maker = handlers[f].maker
            /\ handlers'[f].taker = handlers[f].taker
            /\ handlers'[f].prior = "settled" =>
                  \/ handlers[f].prior = "settled"
                  \/ handlers[f].maker \in Orders /\ mem[handlers[f].maker] = "settled"
  BY BesideHandlers
<1>2. ASSUME NEW t \in Tasks, \A r \in Relayers : t # WorkerOf[r] PROVE held'[t] \subseteq held[t]
  <2>1. held' \in [Tasks -> SUBSET Orders]
    BY <1>0 DEF QueueBase, QueueVarsOK
  <2>2. ASSUME NEW o \in held'[t] PROVE o \in held[t]
    <3>1. o \in Orders /\ t # JobTask(o)
      BY <1>2, <2>1, QueueAssumption DEF JobTask
    <3> QED BY <1>0, <3>1, ReachShrinks
  <2> QED BY <2>2
<1>3. ASSUME NEW f \in Offers PROVE OfferOK(f)'
  <2>1. OfferOK(f) /\ held'[TakerTask[f]] \subseteq held[TakerTask[f]]
    BY <1>2, CrossParts, OfferTasks
  <2> QED BY <1>0, <2>1, QueueAssumption DEF OfferOK
<1>4. ASSUME NEW f \in Offers PROVE HandlerOK(f)'
  <2>1. HandlerOK(f) /\ held'[MakerTask[f]] \subseteq held[MakerTask[f]] /\ MakerTask[f] \in Tasks
    BY <1>2, CrossParts, OfferTasks
  <2>2. \/ sub'[MakerTask[f]] = sub[MakerTask[f]]
        \/ /\ sub[MakerTask[f]].at # "idle" /\ sub'[MakerTask[f]].at # "idle"
           /\ sub'[MakerTask[f]].orders = sub[MakerTask[f]].orders
    BY OfferTasks DEF Waits
  <2>3. Idle.at = "idle"
    BY DEF Idle
  <2>4. /\ handlers'[f].at = handlers[f].at /\ handlers'[f].maker = handlers[f].maker
        /\ handlers'[f].taker = handlers[f].taker
    BY <1>1
  <2>5. handlers'[f].at = "settling" =>
          /\ sub'[MakerTask[f]].at # "idle"
          /\ sub'[MakerTask[f]].orders = {handlers'[f].maker, handlers'[f].taker}
    BY <1>0, <2>1, <2>2, <2>4, QueueAssumption DEF HandlerOK
  <2>8. handlers'[f].at \in {"verifying", "settling"} => up'[Owner[handlers'[f].maker]] = "up"
    BY <1>0, <2>1, <2>4, QueueAssumption DEF HandlerOK
  <2>6. handlers'[f].at # "settling" => sub'[MakerTask[f]] = Idle
    BY <2>1, <2>2, <2>3, <2>4 DEF HandlerOK
  <2>7. handlers'[f].prior = "settled" => handlers'[f].maker \in spent'
    <3>1. spent \subseteq spent' /\ \A o \in Orders : OnChain(o)
      BY <1>0, CrossParts DEF Grows
    <3> QED BY <1>1, <2>1, <3>1 DEF HandlerOK, OnChain
  <2> QED BY <2>1, <2>4, <2>5, <2>6, <2>7, <2>8 DEF HandlerOK
<1>5. OthersIdle'
  <2>1. ASSUME NEW t \in Tasks, \A r \in Relayers : t # WorkerOf[r], sub[t] = Idle PROVE sub'[t] = Idle
    BY <2>1 DEF Waits, Idle
  <2> QED BY <1>0, <2>1 DEF OthersIdle
<1>6. ASSUME NEW o \in Orders PROVE OnChain(o)'
  BY <1>0, CrossParts, OnChainStays
<1>7. AllUp'
  BY <1>0 DEF AllUp
<1> QED BY <1>0, <1>1, <1>3, <1>4, <1>5, <1>6, <1>7 DEF CrossBase

(* The locks beside such a step.                                           *)
LEMMA BesideLocks ==
    ASSUME CrossBase, LockInv, RetainForever, OrdersMove, BesideOffers
    PROVE  LockInv'
<1>0. /\ QueueBase /\ UNCHANGED <<lockingOrders, offers, raced, orphaned>>
      /\ \A o \in Orders : Moves(o)
      /\ \A f \in Offers : OfferOK(f) /\ HandlerOK(f)
  BY CrossParts DEF OrdersMove, BesideOffers
<1>1. ASSUME NEW o \in Orders, o \notin raced PROVE LockOK(o)'
  <2>1. /\ Sound(o) /\ LocksHold(o) /\ OneLock(o) /\ NotStuck(o) /\ Moves(o)
        /\ Owner[o] \in Relayers
    BY <1>0, <1>1, QueueAssumption DEF LockInv, LockOK
  <2>2. ASSUME NEW f \in Offers
        PROVE  (AsksFor(f, o)' <=> AsksFor(f, o)) /\ (SettlesFor(f, o)' <=> SettlesFor(f, o))
    BY <1>0, BesideHandlers DEF AsksFor, SettlesFor
  <2>3. Locked(o)' <=> Locked(o)
    BY <2>2 DEF Locked
  <2>4. Sound(o)'
    BY <1>0, <2>1, SoundStays
  <2>5. LocksHold(o)'
    <3>1. ASSUME NEW f \in Offers, AsksFor(f, o) PROVE Reserved(o, TakerTask[f])'
      <4>1. Reserved(o, TakerTask[f]) /\ TakerTask[f] \in Tasks
        BY <2>1, <3>1, OfferTasks DEF LocksHold
      <4>2. up[Owner[o]] = "up"
        BY <1>0, <3>1 DEF AsksFor, OfferOK
      <4> QED BY <1>0, <4>1, <4>2, ReservedStays
    <3>2. ASSUME NEW f \in Offers, SettlesFor(f, o)
          PROVE  Reserved(o, MakerTask[f])' /\ handlers'[f].prior \in LIVE_STATUSES
      <4>1. /\ Reserved(o, MakerTask[f]) /\ MakerTask[f] \in Tasks
            /\ handlers[f].prior \in LIVE_STATUSES
        BY <2>1, <3>2, OfferTasks DEF LocksHold
      <4>2. up[Owner[o]] = "up"
        BY <1>0, <3>2 DEF SettlesFor, HandlerOK
      <4>3. handlers'[f].prior = handlers[f].prior
        BY <3>2, BesideHandlers DEF SettlesFor
      <4> QED BY <1>0, <4>1, <4>2, <4>3, ReservedStays
    <3> QED BY <2>2, <3>1, <3>2 DEF LocksHold
  <2>6. OneLock(o)'
    BY <2>1, <2>2 DEF OneLock
  <2>7. NotStuck(o)'
    <3> SUFFICES ASSUME o \notin orphaned
                 PROVE  /\ row'[o] = "matched" => Locked(o)
                        /\ mem'[o] = "matched" => OnTheJob(o)' \/ Locked(o)
      BY <1>0, <2>3 DEF NotStuck
    <3>2. /\ row'[o] = "matched" => row[o] = "matched"
          /\ mem'[o] = "matched" =>
                OnTheJob(o)' \/ (mem[o] = "matched" /\ ~OnTheJob(o)) \/ row[o] = "matched"
      BY <1>0, <2>1, MatchedByJob
    <3> QED BY <2>1, <3>2 DEF NotStuck
  <2> QED BY <2>4, <2>5, <2>6, <2>7 DEF LockOK
<1> QED BY <1>0, <1>1 DEF LockInv

-----------------------------------------------------------------------------
(* A crash on either side of an offer.                                     *)

(* The base after a crash: the relayer's offers and handlers are gone.     *)
LEMMA CrashBesideBase ==
    ASSUME CrossBase, NEW r \in Relayers, CrashBeside(r)
    PROVE  CrossBase'
<1>0. /\ QueueBase /\ QueueBase' /\ Grows /\ QueueVarsOK /\ OthersIdle
      /\ lockingOrders \subseteq Orders
      /\ offers \in [Offers -> OfferRecords] /\ handlers \in [Offers -> HandlerRecords]
      /\ crashes' = crashes + 1 /\ up' = [up EXCEPT ![r] = "down"]
      /\ mem' = Set(mem, Own(r), "none")
      /\ held' = [t \in Tasks |-> IF RelayerOf[t] = r THEN {} ELSE held[t]]
      /\ sub' = [t \in Tasks |-> IF RelayerOf[t] = r THEN Idle ELSE sub[t]]
      /\ UNCHANGED <<row, spent>>
      /\ lockingOrders' = lockingOrders \ Own(r)
      /\ offers' = [f \in Offers |-> IF RelayerOf[TakerTask[f]] = r THEN NoOffer ELSE offers[f]]
      /\ handlers' = [f \in Offers |-> IF RelayerOf[MakerTask[f]] = r THEN NoHandler ELSE handlers[f]]
      /\ raced' \subseteq Verifying /\ orphaned' \subseteq Orders
  BY CrossParts, CrashBase, Parts DEF CrashBeside, Crash, chainVars, Own
<1>1. /\ NoOffer \in OfferRecords /\ NoOffer.at = "idle"
      /\ NoHandler \in HandlerRecords /\ NoHandler.at = "idle" /\ NoHandler.prior = "none"
  BY DEF NoOffer, NoHandler, OfferRecords, HandlerRecords
<1>2. offers' \in [Offers -> OfferRecords] /\ handlers' \in [Offers -> HandlerRecords]
  BY <1>0, <1>1
<1>3. \A q \in Relayers : q # r => up'[q] = up[q]
  BY <1>0 DEF QueueVarsOK
<1>4. ASSUME NEW f \in Offers PROVE OfferOK(f)'
  <2>0. TakerTask[f] \in Tasks /\ OfferOK(f)
    BY CrossParts, OfferTasks
  <2>1. CASE RelayerOf[TakerTask[f]] = r
    <3>1. offers'[f] = NoOffer /\ held'[TakerTask[f]] = {}
      BY <1>0, <2>0, <2>1
    <3> QED BY <1>1, <3>1 DEF OfferOK
  <2>2. CASE RelayerOf[TakerTask[f]] # r
    <3>1. offers'[f] = offers[f] /\ held'[TakerTask[f]] = held[TakerTask[f]]
      BY <1>0, <2>0, <2>2
    <3>2. offers[f].at = "asking" => up'[Owner[offers[f].taker]] = "up"
      BY <1>3, <2>0, <2>2, QueueAssumption DEF OfferOK
    <3> QED BY <2>0, <3>1, <3>2 DEF OfferOK
  <2> QED BY <2>1, <2>2
<1>5. ASSUME NEW f \in Offers PROVE HandlerOK(f)'
  <2>0. MakerTask[f] \in Tasks /\ HandlerOK(f)
    BY CrossParts, OfferTasks
  <2>1. CASE RelayerOf[MakerTask[f]] = r
    <3>1. handlers'[f] = NoHandler /\ held'[MakerTask[f]] = {} /\ sub'[MakerTask[f]] = Idle
      BY <1>0, <2>0, <2>1
    <3> QED BY <1>1, <3>1 DEF HandlerOK
  <2>2. CASE RelayerOf[MakerTask[f]] # r
    <3>1. /\ handlers'[f] = handlers[f] /\ held'[MakerTask[f]] = held[MakerTask[f]]
          /\ sub'[MakerTask[f]] = sub[MakerTask[f]]
      BY <1>0, <2>0, <2>2
    <3>2. handlers[f].at \in {"verifying", "settling"} => up'[Owner[handlers[f].maker]] = "up"
      BY <1>3, <2>0, <2>2, QueueAssumption DEF HandlerOK
    <3> QED BY <1>0, <2>0, <3>1, <3>2 DEF HandlerOK
  <2> QED BY <2>1, <2>2
<1>6. OthersIdle'
  BY <1>0 DEF OthersIdle
<1>7. ASSUME NEW o \in Orders PROVE OnChain(o)'
  <2>1. mem'[o] = mem[o] \/ mem'[o] = "none"
    BY <1>0 DEF Set
  <2> QED BY <1>0, <2>1, CrossParts DEF OnChain
<1>8. AllUp'
  BY <1>0 DEF AllUp, QueueVarsOK
<1> QED BY <1>0, <1>2, <1>4, <1>5, <1>6, <1>7, <1>8 DEF CrossBase

(* The locks after a crash: none of the relayer's orders is locked, and    *)
(* those that were are orphaned.                                           *)
LEMMA CrashBesideLocks ==
    ASSUME CrossBase, LockInv, NEW r \in Relayers, CrashBeside(r)
    PROVE  LockInv'
<1>0. /\ QueueBase /\ QueueVarsOK
      /\ UNCHANGED raced /\ orphaned' = orphaned \cup {o \in Own(r) : Locked(o)}
      /\ mem' = Set(mem, Own(r), "none")
      /\ worker' = [worker EXCEPT ![r] = NoJob]
      /\ held' = [t \in Tasks |-> IF RelayerOf[t] = r THEN {} ELSE held[t]]
      /\ UNCHANGED row
      /\ lockingOrders' = lockingOrders \ Own(r)
      /\ offers' = [f \in Offers |-> IF RelayerOf[TakerTask[f]] = r THEN NoOffer ELSE offers[f]]
      /\ handlers' = [f \in Offers |-> IF RelayerOf[MakerTask[f]] = r THEN NoHandler ELSE handlers[f]]
      /\ \A f \in Offers : OfferOK(f) /\ HandlerOK(f)
  BY CrossParts, Parts DEF CrashBeside, Crash
<1>1. NoOffer.at = "idle" /\ NoHandler.at = "idle"
  BY DEF NoOffer, NoHandler
<1>2. ASSUME NEW o \in Orders, o \notin raced PROVE LockOK(o)'
  <2>0. /\ Sound(o) /\ LocksHold(o) /\ OneLock(o) /\ NotStuck(o)
        /\ Owner[o] \in Relayers /\ JobTask(o) \in Tasks /\ RelayerOf[JobTask(o)] = Owner[o]
        /\ JobTask(o)' = JobTask(o)
    BY <1>2, QueueAssumption DEF LockInv, LockOK, JobTask
  <2>2. CASE Owner[o] = r
    <3>1. mem'[o] = "none" /\ ~OnTheJob(o)'
      BY <1>0, <2>0, <2>2 DEF Set, Own, OnTheJob, NoJob, QueueVarsOK
    <3>2. ASSUME NEW f \in Offers PROVE ~AsksFor(f, o)' /\ ~SettlesFor(f, o)'
      <4>1. CASE AsksFor(f, o)'
        <5>1. RelayerOf[TakerTask[f]] # r /\ offers'[f] = offers[f]
          BY <1>0, <1>1, <4>1 DEF AsksFor
        <5> QED BY <1>0, <2>2, <4>1, <5>1 DEF AsksFor, OfferOK
      <4>2. CASE SettlesFor(f, o)'
        <5>1. RelayerOf[MakerTask[f]] # r /\ handlers'[f] = handlers[f]
          BY <1>0, <1>1, <4>2 DEF SettlesFor
        <5> QED BY <1>0, <2>2, <4>2, <5>1 DEF SettlesFor, HandlerOK
      <4> QED BY <4>1, <4>2
    <3>3. Sound(o)'
      BY <3>1 DEF Sound, LIVE_STATUSES
    <3>4. LocksHold(o)' /\ OneLock(o)'
      BY <3>2 DEF LocksHold, OneLock
    <3>5. NotStuck(o)'
      <4>1. o \notin orphaned' => row[o] # "matched"
        BY <1>0, <2>0, <2>2 DEF NotStuck, Own
      <4> QED BY <1>0, <3>1, <4>1 DEF NotStuck
    <3> QED BY <3>3, <3>4, <3>5 DEF LockOK
  <2>3. CASE Owner[o] # r
    <3>1. /\ mem'[o] = mem[o] /\ (OnTheJob(o)' <=> OnTheJob(o))
          /\ held'[JobTask(o)] = held[JobTask(o)]
          /\ o \in lockingOrders' <=> o \in lockingOrders
      BY <1>0, <2>0, <2>3 DEF Set, Own, OnTheJob, QueueVarsOK
    <3>2. ASSUME NEW f \in Offers
          PROVE  /\ AsksFor(f, o)' => AsksFor(f, o) /\ held'[TakerTask[f]] = held[TakerTask[f]]
                 /\ SettlesFor(f, o)' => /\ SettlesFor(f, o) /\ handlers'[f] = handlers[f]
                                         /\ held'[MakerTask[f]] = held[MakerTask[f]]
      <4>1. TakerTask[f] \in Tasks /\ MakerTask[f] \in Tasks
        BY OfferTasks
      <4>2. AsksFor(f, o)' => AsksFor(f, o) /\ held'[TakerTask[f]] = held[TakerTask[f]]
        <5>1. ASSUME AsksFor(f, o)' PROVE RelayerOf[TakerTask[f]] # r
          BY <1>0, <1>1, <5>1 DEF AsksFor
        <5> QED BY <1>0, <4>1, <5>1 DEF AsksFor
      <4>3. SettlesFor(f, o)' => /\ SettlesFor(f, o) /\ handlers'[f] = handlers[f]
                                 /\ held'[MakerTask[f]] = held[MakerTask[f]]
        <5>1. ASSUME SettlesFor(f, o)' PROVE RelayerOf[MakerTask[f]] # r
          BY <1>0, <1>1, <5>1 DEF SettlesFor
        <5> QED BY <1>0, <4>1, <5>1 DEF SettlesFor
      <4> QED BY <4>2, <4>3
    <3>3. Sound(o)'
      BY <1>0, <2>0, <3>1 DEF Sound
    <3>4. LocksHold(o)'
      BY <1>0, <2>0, <3>1, <3>2 DEF LocksHold, Reserved
    <3>5. OneLock(o)'
      BY <2>0, <3>2 DEF OneLock
    <3>6. Locked(o) => Locked(o)'
      <4>1. ASSUME NEW f \in Offers, AsksFor(f, o) PROVE AsksFor(f, o)'
        <5>1. RelayerOf[TakerTask[f]] # r
          BY <1>0, <2>3, <4>1 DEF AsksFor, OfferOK
        <5> QED BY <1>0, <4>1, <5>1 DEF AsksFor
      <4>2. ASSUME NEW f \in Offers, SettlesFor(f, o) PROVE SettlesFor(f, o)'
        <5>1. RelayerOf[MakerTask[f]] # r
          BY <1>0, <2>3, <4>2 DEF SettlesFor, HandlerOK
        <5> QED BY <1>0, <4>2, <5>1 DEF SettlesFor
      <4> QED BY <4>1, <4>2 DEF Locked
    <3>7. NotStuck(o)'
      BY <1>0, <2>0, <3>1, <3>6 DEF NotStuck
    <3> QED BY <3>3, <3>4, <3>5, <3>7 DEF LockOK
  <2> QED BY <2>2, <2>3
<1> QED BY <1>0, <1>2 DEF LockInv

-----------------------------------------------------------------------------
(* One step of an offer.                                                   *)

(* What a step of offer f may touch: one order's row and entry, its locks, *)
(* its two tasks, and its own records.                                     *)
FramedTypes ==
    /\ SubmitterOK'
    /\ row' \in [Orders -> Statuses \cup {"none"}] /\ mem' \in [Orders -> Statuses \cup {"none"}]
    /\ slots' \in [Keys -> Nat] /\ held' \in [Tasks -> SUBSET Orders]
    /\ lockingOrders' \subseteq Orders
    /\ offers' \in [Offers -> OfferRecords] /\ handlers' \in [Offers -> HandlerRecords]
    /\ raced' \subseteq Verifying
Framed(f) ==
    /\ UNCHANGED Untouched /\ raced \subseteq raced'
    /\ FramedTypes
    /\ \A t \in Tasks \ {TakerTask[f], MakerTask[f]} : sub'[t] = sub[t] /\ held'[t] = held[t]
    /\ sub'[TakerTask[f]] = sub[TakerTask[f]]
    /\ \A g \in Offers \ {f} : offers'[g] = offers[g] /\ handlers'[g] = handlers[g]

(* Such a step leaves every worker alone.                                  *)
LEMMA FramedQueue ==
    ASSUME CrossBase, NEW f \in Offers, Framed(f)
    PROVE  /\ QueueBase' /\ AllUp'
           /\ UNCHANGED <<spent, worker, up, orphaned>>
           /\ \A o \in Orders : held'[JobTask(o)] = held[JobTask(o)] /\ JobTask(o)' = JobTask(o)
<1>0. /\ UNCHANGED <<clock, spent, cancelLog, txs, pendingTxs, recorded, attempt, posts, worker,
                     cursor, up, crashes, failures, orphaned>>
      /\ FramedTypes /\ QueueBase /\ AllUp /\ QueueVarsOK /\ JobsMatch
  BY CrossParts, Parts DEF Framed, Untouched, chainVars
<1>1. QueueVarsOK'
  BY <1>0 DEF QueueVarsOK, FramedTypes
<1>2. ASSUME NEW r \in Relayers
      PROVE  sub'[WorkerOf[r]] = sub[WorkerOf[r]] /\ held'[WorkerOf[r]] = held[WorkerOf[r]]
  <2>1. WorkerOf[r] \in Tasks \ {TakerTask[f], MakerTask[f]}
    BY <1>0, Parts, OfferTasks
  <2> QED BY <2>1 DEF Framed
<1>3. JobsMatch'
  <2>1. ASSUME NEW r \in Relayers PROVE JobOK(r)'
    BY <1>0, <1>2 DEF JobsMatch, JobOK, Own
  <2> QED BY <2>1 DEF JobsMatch
<1>4. \A o \in Orders : held'[JobTask(o)] = held[JobTask(o)] /\ JobTask(o)' = JobTask(o)
  BY <1>2, QueueAssumption DEF JobTask
<1>5. AllUp'
  BY <1>0 DEF AllUp
<1> QED BY <1>0, <1>1, <1>3, <1>4, <1>5 DEF QueueBase, FramedTypes

(* The base after a step of offer f: what is to be shown of f alone.       *)
LEMMA OfferBase ==
    ASSUME CrossBase, NEW f \in Offers, Framed(f), OfferOK(f)', HandlerOK(f)',
           \A o \in Orders : OnChain(o)'
    PROVE  CrossBase'
<1>0. QueueBase' /\ AllUp' /\ UNCHANGED <<spent, up>> /\ FramedTypes /\ orphaned' \subseteq Orders
  BY CrossParts, FramedQueue DEF Framed
<1>1. ASSUME NEW g \in Offers PROVE OfferOK(g)' /\ HandlerOK(g)'
  <2>1. CASE g = f
    BY <2>1
  <2>2. CASE g # f
    <3>1. TakerTask[g] \in Tasks \ {TakerTask[f], MakerTask[f]}
          /\ MakerTask[g] \in Tasks \ {TakerTask[f], MakerTask[f]}
      BY <2>2, OfferTasks
    <3>2. /\ held'[TakerTask[g]] = held[TakerTask[g]] /\ held'[MakerTask[g]] = held[MakerTask[g]]
          /\ sub'[MakerTask[g]] = sub[MakerTask[g]]
          /\ offers'[g] = offers[g] /\ handlers'[g] = handlers[g]
      BY <2>2, <3>1 DEF Framed
    <3>3. OfferOK(g) /\ HandlerOK(g)
      BY CrossParts
    <3>4. OfferOK(g)'
      BY <1>0, <3>2, <3>3 DEF OfferOK
    <3>5. HandlerOK(g)'
      BY <1>0, <3>2, <3>3 DEF HandlerOK
    <3> QED BY <3>4, <3>5
  <2> QED BY <2>1, <2>2
<1>2. OthersIdle'
  <2>1. ASSUME NEW t \in Tasks, t # MakerTask[f] PROVE sub'[t] = sub[t]
    BY <2>1 DEF Framed
  <2> QED BY <2>1, CrossParts DEF OthersIdle
<1> QED BY <1>0, <1>1, <1>2 DEF CrossBase, FramedTypes

(* An order the step is not about.                                         *)
Aside(f, o) ==
    /\ row'[o] = row[o] /\ mem'[o] = mem[o]
    /\ o \in lockingOrders' <=> o \in lockingOrders
    /\ AsksFor(f, o)' <=> AsksFor(f, o)
    /\ SettlesFor(f, o)' <=> SettlesFor(f, o)
    /\ AsksFor(f, o) => held'[TakerTask[f]] = held[TakerTask[f]]
    /\ SettlesFor(f, o) => /\ held'[MakerTask[f]] = held[MakerTask[f]]
                           /\ handlers'[f].prior = handlers[f].prior

(* What is the same for every order: the worker, and the other offers.     *)
LEMMA FramedOrder ==
    ASSUME CrossBase, NEW f \in Offers, Framed(f), NEW o \in Orders
    PROVE  /\ OnTheJob(o)' <=> OnTheJob(o)
           /\ held'[JobTask(o)] = held[JobTask(o)] /\ JobTask(o)' = JobTask(o)
           /\ \A g \in Offers \ {f} :
                 /\ AsksFor(g, o)' <=> AsksFor(g, o)
                 /\ SettlesFor(g, o)' <=> SettlesFor(g, o)
                 /\ held'[TakerTask[g]] = held[TakerTask[g]]
                 /\ held'[MakerTask[g]] = held[MakerTask[g]]
                 /\ handlers'[g].prior = handlers[g].prior
<1>1. UNCHANGED worker /\ held'[JobTask(o)] = held[JobTask(o)] /\ JobTask(o)' = JobTask(o)
  BY FramedQueue
<1>2. ASSUME NEW g \in Offers \ {f}
      PROVE  /\ offers'[g] = offers[g] /\ handlers'[g] = handlers[g]
             /\ held'[TakerTask[g]] = held[TakerTask[g]]
             /\ held'[MakerTask[g]] = held[MakerTask[g]]
  <2>1. TakerTask[g] \in Tasks \ {TakerTask[f], MakerTask[f]}
        /\ MakerTask[g] \in Tasks \ {TakerTask[f], MakerTask[f]}
    BY OfferTasks
  <2> QED BY <2>1 DEF Framed
<1>3. OnTheJob(o)' <=> OnTheJob(o)
  BY <1>1 DEF OnTheJob
<1> QED BY <1>1, <1>2, <1>3 DEF AsksFor, SettlesFor

(* It keeps its locks.                                                     *)
LEMMA AsideKeeps ==
    ASSUME CrossBase, NEW f \in Offers, Framed(f), NEW o \in Orders, Aside(f, o), LockOK(o)
    PROVE  LockOK(o)'
<1>0. /\ OnTheJob(o)' <=> OnTheJob(o)
      /\ held'[JobTask(o)] = held[JobTask(o)] /\ JobTask(o)' = JobTask(o)
      /\ UNCHANGED orphaned
  BY FramedOrder, FramedQueue
<1>1. ASSUME NEW g \in Offers
      PROVE  /\ AsksFor(g, o)' <=> AsksFor(g, o)
             /\ SettlesFor(g, o)' <=> SettlesFor(g, o)
             /\ AsksFor(g, o) => held'[TakerTask[g]] = held[TakerTask[g]]
             /\ SettlesFor(g, o) => /\ held'[MakerTask[g]] = held[MakerTask[g]]
                                    /\ handlers'[g].prior = handlers[g].prior
  <2>1. CASE g = f
    BY <2>1 DEF Aside
  <2>2. CASE g # f
    BY <2>2, FramedOrder
  <2> QED BY <2>1, <2>2
<1>2. Sound(o)'
  BY <1>0 DEF LockOK, Sound, Aside
<1>3. LocksHold(o)'
  <2>1. ASSUME NEW t \in Tasks, Reserved(o, t), held'[t] = held[t] PROVE Reserved(o, t)'
    BY <1>0, <2>1 DEF Reserved, Aside
  <2>2. ASSUME NEW g \in Offers PROVE TakerTask[g] \in Tasks /\ MakerTask[g] \in Tasks
    BY OfferTasks
  <2> QED BY <1>1, <2>1, <2>2 DEF LockOK, LocksHold
<1>4. OneLock(o)'
  BY <1>1 DEF LockOK, OneLock
<1>5. Locked(o)' <=> Locked(o)
  BY <1>1 DEF Locked
<1>6. NotStuck(o)'
  BY <1>0, <1>5 DEF LockOK, NotStuck, Aside
<1> QED BY <1>2, <1>3, <1>4, <1>6 DEF LockOK

(* A live order that no offer has is locked by one.                        *)
LEMMA TakenOK ==
    ASSUME CrossBase, NEW f \in Offers, Framed(f), NEW o \in Orders, LockOK(o),
           mem[o] \in LIVE_STATUSES, o \notin lockingOrders,
           row'[o] = IF row[o] = "none" THEN "none" ELSE "matched", mem'[o] = "matched",
           o \in lockingOrders',
           \/ AsksFor(f, o)' /\ ~SettlesFor(f, o)' /\ o \in held'[TakerTask[f]]
           \/ /\ SettlesFor(f, o)' /\ ~AsksFor(f, o)' /\ o \in held'[MakerTask[f]]
              /\ handlers'[f].prior \in LIVE_STATUSES
    PROVE  LockOK(o)'
<1>0. /\ OnTheJob(o)' <=> OnTheJob(o)
      /\ Sound(o) /\ LocksHold(o)
  BY FramedOrder DEF LockOK
<1>1. ~OnTheJob(o)' /\ row'[o] = "matched"
  BY <1>0 DEF Sound, LIVE_STATUSES
<1>2. \A g \in Offers \ {f} : ~AsksFor(g, o)' /\ ~SettlesFor(g, o)'
  <2>1. \A g \in Offers : ~AsksFor(g, o) /\ ~SettlesFor(g, o)
    BY <1>0 DEF LocksHold, Reserved
  <2> QED BY <2>1, FramedOrder
<1>3. Sound(o)'
  BY <1>1 DEF Sound, LIVE_STATUSES
<1>4. ASSUME NEW t, o \in held'[t] PROVE Reserved(o, t)'
  BY <1>1, <1>4 DEF Reserved, LIVE_STATUSES
<1>5. LocksHold(o)'
  BY <1>2, <1>4 DEF LocksHold
<1>6. OneLock(o)'
  BY <1>2 DEF OneLock
<1>7. NotStuck(o)'
  BY DEF NotStuck, Locked
<1> QED BY <1>3, <1>5, <1>6, <1>7 DEF LockOK

(* The offer that has it gives it back.                                    *)
LEMMA ReleasedOK ==
    ASSUME CrossBase, NEW f \in Offers, Framed(f), NEW o \in Orders, LockOK(o), NEW t,
           (AsksFor(f, o) /\ t = TakerTask[f]) \/ (SettlesFor(f, o) /\ t = MakerTask[f]),
           ~AsksFor(f, o)', ~SettlesFor(f, o)', NEW s \in LIVE_STATUSES \cup {"settled"},
           row'[o] = IF row[o] = "none" THEN "none" ELSE s,
           mem'[o] = IF o \in held[t] THEN s ELSE mem[o]
    PROVE  LockOK(o)'
<1>0. OnTheJob(o)' <=> OnTheJob(o)
  BY FramedOrder
<1>1. Reserved(o, t) /\ OneLock(o)
  BY DEF LockOK, LocksHold
<1>2. \A g \in Offers : ~AsksFor(g, o)' /\ ~SettlesFor(g, o)'
  <2>1. \A g \in Offers \ {f} : ~AsksFor(g, o) /\ ~SettlesFor(g, o)
    BY <1>1 DEF OneLock
  <2> QED BY <2>1, FramedOrder
<1>3. row'[o] = s /\ ~OnTheJob(o)' /\ mem'[o] # "matched"
  BY <1>0, <1>1 DEF Reserved, LIVE_STATUSES
<1>4. Sound(o)'
  BY <1>3 DEF Sound, LIVE_STATUSES
<1>5. LocksHold(o)' /\ OneLock(o)'
  BY <1>2 DEF LocksHold, OneLock
<1>6. NotStuck(o)'
  BY <1>3 DEF NotStuck, LIVE_STATUSES
<1> QED BY <1>4, <1>5, <1>6 DEF LockOK

-----------------------------------------------------------------------------
(* What an offer writes.                                                   *)

(* A step of an offer that leaves the submissions alone.                   *)
LEMMA SubmitterRests ==
    ASSUME CrossBase, UNCHANGED <<Untouched, raced, sub>>
    PROVE  SubmitterOK' /\ UNCHANGED spent
<1>1. UNCHANGED <<chainVars, submitterVars>> /\ UNCHANGED spent
  BY DEF Untouched, submitterVars, chainVars
<1> QED BY <1>1, CrossParts, Parts, SameSubmitter

(* One order's row is marked, and its entry if it is within reach.         *)
LEMMA Written ==
    ASSUME CrossBase, NEW y \in Orders, NEW R, R \subseteq {y}, NEW s \in Statuses \cup {"none"},
           row' = Marked(row, {y}, s), mem' = Set(mem, R, s),
           s = "settled" => y \in spent, UNCHANGED spent
    PROVE  /\ row' \in [Orders -> Statuses \cup {"none"}] /\ mem' \in [Orders -> Statuses \cup {"none"}]
           /\ \A o \in Orders : OnChain(o)'
           /\ row'[y] = IF row[y] = "none" THEN "none" ELSE s
           /\ mem'[y] = IF y \in R THEN s ELSE mem[y]
           /\ \A o \in Orders \ {y} : row'[o] = row[o] /\ mem'[o] = mem[o]
<1>0. /\ row \in [Orders -> Statuses \cup {"none"}] /\ mem \in [Orders -> Statuses \cup {"none"}]
      /\ \A o \in Orders : OnChain(o)
  BY CrossParts
<1>1. \A o \in Orders : row'[o] = IF o \in {y} /\ row[o] # "none" THEN s ELSE row[o]
  BY DEF Marked
<1>2. \A o \in Orders : mem'[o] = IF o \in R THEN s ELSE mem[o]
  BY DEF Set
<1>3. row' \in [Orders -> Statuses \cup {"none"}]
  BY <1>0 DEF Marked
<1>4. mem' \in [Orders -> Statuses \cup {"none"}]
  BY <1>0 DEF Set
<1>5. \A o \in Orders \ {y} : row'[o] = row[o] /\ mem'[o] = mem[o]
  BY <1>1, <1>2
<1>6. ASSUME NEW o \in Orders PROVE OnChain(o)'
  BY <1>0, <1>1, <1>2 DEF OnChain
<1> QED BY <1>1, <1>2, <1>3, <1>4, <1>5, <1>6

(* A task's references become S.                                           *)
LEMMA HoldOK ==
    ASSUME CrossBase, NEW t \in Tasks, NEW S \in SUBSET Orders, Hold(t, S)
    PROVE  /\ held' \in [Tasks -> SUBSET Orders] /\ held'[t] = S
           /\ \A u \in Tasks \ {t} : held'[u] = held[u]
BY CrossParts DEF Hold

(* An offer's record becomes a, its handler's h.                           *)
LEMMA OfferWritten ==
    ASSUME CrossBase, NEW f \in Offers, NEW a \in OfferRecords, offers' = [offers EXCEPT ![f] = a]
    PROVE  /\ offers' \in [Offers -> OfferRecords] /\ offers'[f] = a
           /\ \A g \in Offers \ {f} : offers'[g] = offers[g]
BY CrossParts

(* As for the record of the handler.                                       *)
LEMMA HandlerWritten ==
    ASSUME CrossBase, NEW f \in Offers, NEW h \in HandlerRecords,
           handlers' = [handlers EXCEPT ![f] = h]
    PROVE  /\ handlers' \in [Offers -> HandlerRecords] /\ handlers'[f] = h
           /\ \A g \in Offers \ {f} : handlers'[g] = handlers[g]
BY CrossParts

(* The records without an offer.                                           *)
LEMMA EmptyRecords ==
    /\ NoOffer \in OfferRecords /\ NoOffer.at = "idle" /\ NoOffer.ans = "none"
    /\ NoHandler \in HandlerRecords /\ NoHandler.at = "idle" /\ NoHandler.prior = "none"
BY DEF NoOffer, NoHandler, OfferRecords, HandlerRecords

(* A locked order is what its row and its locks are about.                 *)
LEMMA LocksFrom ==
    ASSUME CrossBase, NEW f \in Offers, Framed(f), NEW y \in Orders,
           \A o \in Orders \ {y} : Aside(f, o),
           y \notin raced' /\ LockOK(y) => LockOK(y)'
    PROVE  LockInv => LockInv'
<1> SUFFICES ASSUME LockInv, NEW o \in Orders, o \notin raced' PROVE LockOK(o)'
  BY DEF LockInv
<1>1. LockOK(o)
  BY DEF LockInv, Framed
<1>2. CASE o = y
  BY <1>1, <1>2
<1>3. CASE o # y
  BY <1>1, <1>3, AsideKeeps
<1> QED BY <1>2, <1>3

-----------------------------------------------------------------------------
(* The taker's side.                                                       *)

(* The taker's order is locked and says matched before it is offered.      *)
LEMMA ArrivedOK ==
    ASSUME CrossBase, NEW f \in Offers, NEW t \in Orders, NEW m \in Orders,
           onRemoteOrderArrived(f, t, m)
    PROVE  CrossBase' /\ (LockInv => LockInv')
<1> DEFINE a == [at |-> "asking", maker |-> m, taker |-> t, prior |-> mem[t], ans |-> "none"]
           h == [at |-> "sent", maker |-> m, taker |-> t, prior |-> "none"]
           T == TakerTask[f]
<1>0. /\ offers[f] = NoOffer /\ handlers[f] = NoHandler
      /\ Owner[t] = RelayerOf[T] /\ Owner[m] = RelayerOf[MakerTask[f]] /\ Owner[m] # Owner[t]
      /\ up[Owner[t]] = "up" /\ mem[t] \in LIVE_STATUSES /\ t \notin lockingOrders
      /\ lockingOrders' = lockingOrders \cup {t}
      /\ mem' = [mem EXCEPT ![t] = "matched"] /\ row' = Marked(row, {t}, "matched")
      /\ Hold(T, {t})
      /\ offers' = [offers EXCEPT ![f] = a] /\ handlers' = [handlers EXCEPT ![f] = h]
      /\ UNCHANGED <<Untouched, raced, sub>> /\ UNCHANGED <<sub, slots, raced>>
  BY DEF onRemoteOrderArrived
<1>1. /\ a \in OfferRecords /\ a.at = "asking" /\ a.taker = t /\ a.prior = mem[t]
      /\ h \in HandlerRecords /\ h.at = "sent" /\ h.maker = m /\ h.taker = t /\ h.prior = "none"
  BY <1>0 DEF OfferRecords, HandlerRecords, Statuses
<1> HIDE DEF a, h
<1>2. /\ T \in Tasks /\ MakerTask[f] \in Tasks /\ T # MakerTask[f]
      /\ OfferOK(f) /\ HandlerOK(f) /\ slots \in [Keys -> Nat] /\ lockingOrders \subseteq Orders
      /\ raced \subseteq Verifying /\ mem \in [Orders -> Statuses \cup {"none"}]
  BY CrossParts, OfferTasks
<1> HIDE DEF T
<1>3. SubmitterOK' /\ UNCHANGED spent
  BY <1>0, SubmitterRests
<1>4. mem' = Set(mem, {t}, "matched")
  BY <1>0, <1>2 DEF Set
<1>5. /\ row' \in [Orders -> Statuses \cup {"none"}] /\ mem' \in [Orders -> Statuses \cup {"none"}]
      /\ \A o \in Orders : OnChain(o)'
      /\ row'[t] = IF row[t] = "none" THEN "none" ELSE "matched"
      /\ mem'[t] = "matched"
      /\ \A o \in Orders \ {t} : row'[o] = row[o] /\ mem'[o] = mem[o]
  <2>1. "matched" \in Statuses \cup {"none"} /\ {t} \subseteq {t}
    BY DEF Statuses, IN_FLIGHT_STATUSES
  <2>2. PICK s \in Statuses \cup {"none"} : s = "matched"
    BY <2>1
  <2>3. row' = Marked(row, {t}, s) /\ mem' = Set(mem, {t}, s) /\ (s = "settled" => t \in spent)
    BY <1>0, <1>4, <2>2
  <2>4. t \in {t} /\ {t} \subseteq {t}
    OBVIOUS
  <2>5. /\ row' \in [Orders -> Statuses \cup {"none"}] /\ mem' \in [Orders -> Statuses \cup {"none"}]
        /\ \A o \in Orders : OnChain(o)'
        /\ row'[t] = IF row[t] = "none" THEN "none" ELSE s
        /\ mem'[t] = IF t \in {t} THEN s ELSE mem[t]
        /\ \A o \in Orders \ {t} : row'[o] = row[o] /\ mem'[o] = mem[o]
    BY <1>3, <2>3, <2>4, Written
  <2> QED BY <2>2, <2>5
<1>6. /\ held' \in [Tasks -> SUBSET Orders] /\ held'[T] = {t}
      /\ \A u \in Tasks \ {T} : held'[u] = held[u]
  BY <1>0, <1>2, HoldOK
<1>7. /\ offers' \in [Offers -> OfferRecords] /\ offers'[f] = a
      /\ \A g \in Offers \ {f} : offers'[g] = offers[g]
  BY <1>0, <1>1, OfferWritten
<1>8. /\ handlers' \in [Offers -> HandlerRecords] /\ handlers'[f] = h
      /\ \A g \in Offers \ {f} : handlers'[g] = handlers[g]
  BY <1>0, <1>1, HandlerWritten
<1>9. FramedTypes
  BY <1>0, <1>2, <1>3, <1>5, <1>6, <1>7, <1>8 DEF FramedTypes
<1>10. Framed(f)
  BY <1>0, <1>6, <1>7, <1>8, <1>9 DEF Framed, T
<1>11. OfferOK(f)'
  <2>1. UNCHANGED up
    BY <1>10, FramedQueue
  <2> QED BY <1>0, <1>1, <1>6, <1>7, <2>1 DEF OfferOK, T
<1>12. HandlerOK(f)'
  <2>1. sub'[MakerTask[f]] = Idle /\ held'[MakerTask[f]] = {}
    BY <1>0, <1>2, <1>6, EmptyRecords DEF HandlerOK
  <2> QED BY <1>0, <1>1, <1>8, <2>1 DEF HandlerOK
<1>13. CrossBase'
  BY <1>5, <1>10, <1>11, <1>12, OfferBase
<1>14. \A o \in Orders : SettlesFor(f, o)' <=> SettlesFor(f, o)
  BY <1>0, <1>1, <1>8, EmptyRecords DEF SettlesFor
<1>15. \A o \in Orders : ~AsksFor(f, o) /\ ~SettlesFor(f, o)
  BY <1>0, EmptyRecords DEF AsksFor, SettlesFor
<1>16. ASSUME NEW o \in Orders \ {t} PROVE Aside(f, o)
  <2>1. ~AsksFor(f, o)'
    BY <1>1, <1>7 DEF AsksFor
  <2> QED BY <1>0, <1>5, <1>14, <1>15, <2>1 DEF Aside
<1>17. ASSUME LockOK(t) PROVE LockOK(t)'
  <2>1. AsksFor(f, t)' /\ ~SettlesFor(f, t)' /\ t \in held'[TakerTask[f]] /\ t \in lockingOrders'
    BY <1>0, <1>1, <1>6, <1>7, <1>14, <1>15 DEF AsksFor, T
  <2>2. mem[t] \in LIVE_STATUSES /\ t \notin lockingOrders
    BY <1>0
  <2> QED BY <1>5, <1>10, <1>17, <2>1, <2>2, TakenOK
<1> QED BY <1>10, <1>13, <1>16, <1>17, LocksFrom

(* The taker's side ends: settled on chain, or as it was before.           *)
LEMMA TakerEndOK ==
    ASSUME CrossBase, NEW f \in Offers, NEW s \in LIVE_STATUSES \cup {"settled"}, TakerEnd(f, s),
           s = "settled" => offers[f].taker \in spent, slots' \in [Keys -> Nat]
    PROVE  CrossBase' /\ (LockInv => LockInv')
<1> DEFINE T == TakerTask[f]
<1>t. PICK t \in Orders : t = offers[f].taker
  BY CrossParts DEF TakerEnd, OfferOK
<1>0. /\ offers[f].at = "asking"
      /\ mem' = Set(mem, held[T], s) /\ row' = Marked(row, {t}, s)
      /\ lockingOrders' = lockingOrders \ {t} /\ Hold(T, {})
      /\ offers' = [offers EXCEPT ![f] = NoOffer]
      /\ handlers' = [handlers EXCEPT ![f] = handlers[f]]
      /\ UNCHANGED <<Untouched, raced, sub>> /\ UNCHANGED <<sub, raced>>
  BY <1>t DEF TakerEnd, HandlerAfterTaker
<1>1. /\ T \in Tasks /\ MakerTask[f] \in Tasks /\ T # MakerTask[f]
      /\ OfferOK(f) /\ HandlerOK(f) /\ lockingOrders \subseteq Orders /\ raced \subseteq Verifying
      /\ handlers \in [Offers -> HandlerRecords] /\ held \in [Tasks -> SUBSET Orders]
  BY CrossParts, OfferTasks
<1>2. t \in Orders /\ held[T] \subseteq {t}
  BY <1>0, <1>1, <1>t DEF OfferOK
<1> HIDE DEF T
<1>3. SubmitterOK' /\ UNCHANGED spent
  BY <1>0, SubmitterRests
<1>4. /\ row' \in [Orders -> Statuses \cup {"none"}] /\ mem' \in [Orders -> Statuses \cup {"none"}]
      /\ \A o \in Orders : OnChain(o)'
      /\ row'[t] = IF row[t] = "none" THEN "none" ELSE s
      /\ mem'[t] = IF t \in held[T] THEN s ELSE mem[t]
      /\ \A o \in Orders \ {t} : row'[o] = row[o] /\ mem'[o] = mem[o]
  <2>1. s \in Statuses \cup {"none"}
    BY DEF Statuses, TERMINAL_STATUSES
  <2>2. s = "settled" => t \in spent
    BY <1>t
  <2> QED BY <1>0, <1>2, <1>3, <2>1, <2>2, Written
<1>5. /\ held' \in [Tasks -> SUBSET Orders] /\ held'[T] = {}
      /\ \A u \in Tasks \ {T} : held'[u] = held[u]
  BY <1>0, <1>1, HoldOK
<1>6. /\ offers' \in [Offers -> OfferRecords] /\ offers'[f] = NoOffer
      /\ \A g \in Offers \ {f} : offers'[g] = offers[g]
  BY <1>0, EmptyRecords, OfferWritten
<1>7. handlers' = handlers
  BY <1>0, <1>1
<1>8. FramedTypes
  BY <1>0, <1>1, <1>3, <1>4, <1>5, <1>6, <1>7 DEF FramedTypes
<1>9. Framed(f)
  BY <1>0, <1>5, <1>6, <1>7, <1>8 DEF Framed, T
<1>10. OfferOK(f)'
  BY <1>5, <1>6, EmptyRecords DEF OfferOK, T
<1>11. HandlerOK(f)'
  <2>1. UNCHANGED <<up, spent>> /\ held'[MakerTask[f]] = held[MakerTask[f]]
    BY <1>1, <1>5, <1>9, FramedQueue
  <2> QED BY <1>0, <1>1, <1>7, <2>1 DEF HandlerOK
<1>12. CrossBase'
  BY <1>4, <1>9, <1>10, <1>11, OfferBase
<1>13. \A o \in Orders : ~AsksFor(f, o)' /\ (SettlesFor(f, o)' <=> SettlesFor(f, o))
  BY <1>6, <1>7, EmptyRecords DEF AsksFor, SettlesFor
<1>14. ASSUME NEW o \in Orders \ {t} PROVE Aside(f, o)
  <2>1. ~AsksFor(f, o)
    BY <1>t DEF AsksFor
  <2>2. held'[MakerTask[f]] = held[MakerTask[f]] /\ handlers'[f].prior = handlers[f].prior
    BY <1>1, <1>5, <1>7
  <2> QED BY <1>0, <1>4, <1>13, <2>1, <2>2 DEF Aside
<1>15. ASSUME LockOK(t) PROVE LockOK(t)'
  <2>1. AsksFor(f, t)
    BY <1>0, <1>t DEF AsksFor
  <2>2. ~SettlesFor(f, t)
    BY <1>15, <2>1 DEF LockOK, OneLock
  <2> QED BY <1>2, <1>4, <1>9, <1>13, <1>15, <2>1, <2>2, ReleasedOK DEF T
<1> QED BY <1>2, <1>9, <1>12, <1>14, <1>15, LocksFrom

(* The taker believes the chain only.                                      *)
LEMMA TakerSettledOK ==
    ASSUME CrossBase, NEW f \in Offers, TakerSettled(f)
    PROVE  CrossBase' /\ (LockInv => LockInv')
<1>1. /\ offers[f].taker \in spent /\ TakerEnd(f, "settled")
      /\ slots' = decPubKeyCount({offers[f].taker}) /\ slots \in [Keys -> Nat]
  BY CrossParts DEF TakerSettled, verifyPeerSettlement
<1>2. slots' \in [Keys -> Nat]
  BY <1>1, FS_Singleton, DecType
<1> QED BY <1>1, <1>2, TakerEndOK

(* Whatever the answer, the taker gets back what it had.                   *)
LEMMA TakerRestoredOK ==
    ASSUME CrossBase, NEW f \in Offers, TakerRestored(f)
    PROVE  CrossBase' /\ (LockInv => LockInv')
<1>1. TakerEnd(f, offers[f].prior) /\ UNCHANGED slots /\ slots \in [Keys -> Nat] /\ OfferOK(f)
  BY CrossParts DEF TakerRestored
<1>2. offers[f].prior \in LIVE_STATUSES
  BY <1>1 DEF TakerEnd, OfferOK
<1>3. offers[f].prior # "settled" /\ offers[f].prior \in LIVE_STATUSES \cup {"settled"}
  BY <1>2 DEF LIVE_STATUSES
<1> QED BY <1>1, <1>3, TakerEndOK

-----------------------------------------------------------------------------
(* The maker's side.                                                       *)

(* An answer changes nothing else of the offer.                            *)
LEMMA ReplyOK ==
    ASSUME CrossBase, NEW f \in Offers, NEW a \in {"settled", "rejected", "error"}, Reply(f, a)
    PROVE  /\ offers' \in [Offers -> OfferRecords]
           /\ offers'[f].at = offers[f].at /\ offers'[f].taker = offers[f].taker
           /\ offers'[f].prior = offers[f].prior
           /\ \A g \in Offers \ {f} : offers'[g] = offers[g]
<1> DEFINE n == [offers[f] EXCEPT !.ans = IF offers[f].at = "asking" THEN a ELSE "none"]
<1>1. offers[f] \in OfferRecords
  BY CrossParts
<1>2. n \in OfferRecords /\ n.at = offers[f].at /\ n.taker = offers[f].taker /\ n.prior = offers[f].prior
  BY <1>1 DEF OfferRecords
<1>3. offers' = [offers EXCEPT ![f] = n]
  BY DEF Reply
<1> HIDE DEF n
<1> QED BY <1>2, <1>3, OfferWritten

(* What the taker's side of an offer keeps while the maker's side moves.   *)
TakerSideKept(f) ==
    /\ offers' \in [Offers -> OfferRecords]
    /\ offers'[f].at = offers[f].at /\ offers'[f].taker = offers[f].taker
    /\ offers'[f].prior = offers[f].prior
    /\ \A g \in Offers \ {f} : offers'[g] = offers[g]

(* The taker's side is then as it was.                                     *)
LEMMA TakerSideOK ==
    ASSUME CrossBase, NEW f \in Offers, TakerSideKept(f), UNCHANGED up,
           held'[TakerTask[f]] = held[TakerTask[f]]
    PROVE  OfferOK(f)' /\ \A o \in Orders : AsksFor(f, o)' <=> AsksFor(f, o)
<1>1. OfferOK(f)
  BY CrossParts
<1> QED BY <1>1 DEF OfferOK, AsksFor, TakerSideKept

(* A handler that has not locked its order ends: nothing was written.      *)
LEMMA DroppedOK ==
    ASSUME CrossBase, NEW f \in Offers, handlers[f].at \in {"sent", "verifying"}, HandlerEnds(f),
           UNCHANGED <<Untouched, raced, sub, row, mem, slots, lockingOrders>>, TakerSideKept(f),
           held' \in [Tasks -> SUBSET Orders], held'[MakerTask[f]] = {},
           \A u \in Tasks \ {MakerTask[f]} : held'[u] = held[u]
    PROVE  CrossBase' /\ (LockInv => LockInv')
<1> DEFINE M == MakerTask[f]
<1>0. /\ M \in Tasks /\ TakerTask[f] \in Tasks \ {M} /\ HandlerOK(f) /\ handlers[f].maker \in Orders
      /\ raced \subseteq Verifying /\ lockingOrders \subseteq Orders /\ slots \in [Keys -> Nat]
      /\ row \in [Orders -> Statuses \cup {"none"}] /\ mem \in [Orders -> Statuses \cup {"none"}]
      /\ \A o \in Orders : OnChain(o)
  BY CrossParts, OfferTasks DEF HandlerOK
<1>1. SubmitterOK' /\ UNCHANGED spent
  BY SubmitterRests
<1>2. /\ handlers' \in [Offers -> HandlerRecords] /\ handlers'[f] = NoHandler
      /\ \A g \in Offers \ {f} : handlers'[g] = handlers[g]
  BY EmptyRecords, HandlerWritten DEF HandlerEnds
<1>3. Framed(f)
  BY <1>0, <1>1, <1>2 DEF Framed, FramedTypes, TakerSideKept
<1>4. UNCHANGED up /\ held'[TakerTask[f]] = held[TakerTask[f]]
  BY <1>0, <1>3, FramedQueue
<1>5. OfferOK(f)' /\ \A o \in Orders : AsksFor(f, o)' <=> AsksFor(f, o)
  BY <1>4, TakerSideOK
<1>6. HandlerOK(f)'
  <2>1. sub'[M] = Idle
    BY <1>0 DEF HandlerOK
  <2> QED BY <1>2, <2>1, EmptyRecords DEF HandlerOK
<1>7. CrossBase'
  BY <1>0, <1>1, <1>3, <1>5, <1>6, OfferBase DEF OnChain
<1>8. ASSUME NEW o \in Orders PROVE Aside(f, o)
  <2>1. ~SettlesFor(f, o) /\ ~SettlesFor(f, o)'
    BY <1>2, EmptyRecords DEF SettlesFor
  <2> QED BY <1>4, <1>5, <2>1 DEF Aside
<1>9. LockInv => LockInv'
  BY <1>3, <1>8, AsideKeeps DEF LockInv, Framed
<1> QED BY <1>7, <1>9

(* A request that is lost.                                                 *)
LEMMA RequestLostOK ==
    ASSUME CrossBase, NEW f \in Offers, RequestLost(f)
    PROVE  CrossBase' /\ (LockInv => LockInv')
<1>1. /\ handlers[f].at = "sent" /\ HandlerEnds(f)
      /\ UNCHANGED <<Untouched, raced, sub, row, mem, slots, lockingOrders>> /\ UNCHANGED <<held, offers>>
  BY DEF RequestLost, submitterVars
<1>2. /\ HandlerOK(f) /\ held \in [Tasks -> SUBSET Orders] /\ offers \in [Offers -> OfferRecords]
  BY CrossParts
<1>3. held'[MakerTask[f]] = {}
  BY <1>1, <1>2 DEF HandlerOK
<1>4. TakerSideKept(f)
  BY <1>1, <1>2 DEF TakerSideKept
<1> QED BY <1>1, <1>2, <1>3, <1>4, DroppedOK

(* A request that is refused, by a relayer that may answer anything.       *)
LEMMA OfferRefusedOK ==
    ASSUME CrossBase, NEW f \in Offers, OfferRefused(f)
    PROVE  CrossBase' /\ (LockInv => LockInv')
<1>1. /\ handlers[f].at = "sent" /\ HandlerEnds(f)
      /\ UNCHANGED <<Untouched, raced, sub, row, mem, slots, lockingOrders>> /\ UNCHANGED held
      /\ Reply(f, "rejected") \/ Reply(f, "settled")
  BY DEF OfferRefused, submitterVars, Arrives
<1>2. HandlerOK(f) /\ held \in [Tasks -> SUBSET Orders]
  BY CrossParts
<1>3. held'[MakerTask[f]] = {}
  BY <1>1, <1>2 DEF HandlerOK
<1>4. TakerSideKept(f)
  BY <1>1, ReplyOK DEF TakerSideKept
<1> QED BY <1>1, <1>2, <1>3, <1>4, DroppedOK

(* A proof that does not verify.                                           *)
LEMMA ProofRefusedOK ==
    ASSUME CrossBase, NEW f \in Offers, ProofRefused(f)
    PROVE  CrossBase' /\ (LockInv => LockInv')
<1>1. /\ handlers[f].at = "verifying" /\ HandlerEnds(f)
      /\ UNCHANGED <<Untouched, raced, sub, row, mem, slots, lockingOrders>> /\ Hold(MakerTask[f], {})
      /\ Reply(f, "rejected") \/ Reply(f, "error")
  BY DEF ProofRefused
<1>2. MakerTask[f] \in Tasks /\ {} \in SUBSET Orders
  BY OfferTasks
<1>3. /\ held' \in [Tasks -> SUBSET Orders] /\ held'[MakerTask[f]] = {}
      /\ \A u \in Tasks \ {MakerTask[f]} : held'[u] = held[u]
  BY <1>1, <1>2, HoldOK
<1>4. TakerSideKept(f)
  BY <1>1, ReplyOK DEF TakerSideKept
<1> QED BY <1>1, <1>3, <1>4, DroppedOK

(* The handler verifies the proof: it holds its order, and locks nothing.  *)
LEMMA VerifyingOK ==
    ASSUME CrossBase, NEW f \in Offers, Arrives(f), verifyOrderProofs[Owner[handlers[f].maker]],
           handlers' = [handlers EXCEPT ![f].at = "verifying"],
           Hold(MakerTask[f], {handlers[f].maker}),
           UNCHANGED <<Untouched, raced, sub, row, mem, slots, lockingOrders, offers>>
    PROVE  CrossBase' /\ (LockInv => LockInv')
<1> DEFINE M == MakerTask[f]
           h == [handlers[f] EXCEPT !.at = "verifying"]
<1>0. /\ M \in Tasks /\ TakerTask[f] \in Tasks \ {M} /\ HandlerOK(f) /\ OfferOK(f)
      /\ raced \subseteq Verifying /\ lockingOrders \subseteq Orders /\ slots \in [Keys -> Nat] /\ handlers[f] \in HandlerRecords
      /\ row \in [Orders -> Statuses \cup {"none"}] /\ mem \in [Orders -> Statuses \cup {"none"}]
      /\ offers \in [Offers -> OfferRecords] /\ \A o \in Orders : OnChain(o)
      /\ handlers[f].at = "sent" /\ up[RelayerOf[M]] = "up"
  BY CrossParts, OfferTasks DEF Arrives
<1>1. SubmitterOK' /\ UNCHANGED spent
  BY SubmitterRests
<1>2. h \in HandlerRecords /\ h.at = "verifying" /\ h.maker = handlers[f].maker
      /\ h.taker = handlers[f].taker /\ h.prior = handlers[f].prior
  BY <1>0 DEF HandlerRecords
<1> HIDE DEF h
<1>3. /\ handlers' \in [Offers -> HandlerRecords] /\ handlers'[f] = h
      /\ \A g \in Offers \ {f} : handlers'[g] = handlers[g]
  <2>1. handlers' = [handlers EXCEPT ![f] = h]
    BY DEF h
  <2> QED BY <1>2, <2>1, HandlerWritten
<1>4. /\ held' \in [Tasks -> SUBSET Orders] /\ held'[M] = {handlers[f].maker}
      /\ \A u \in Tasks \ {M} : held'[u] = held[u]
  <2>1. {handlers[f].maker} \in SUBSET Orders
    BY <1>0 DEF HandlerOK
  <2> QED BY <1>0, <2>1, HoldOK
<1>5. Framed(f)
  BY <1>0, <1>1, <1>3, <1>4 DEF Framed, FramedTypes
<1>6. UNCHANGED up /\ held'[TakerTask[f]] = held[TakerTask[f]]
  BY <1>0, <1>4, <1>5, FramedQueue
<1>7. OfferOK(f)' /\ \A o \in Orders : AsksFor(f, o)' <=> AsksFor(f, o)
  <2>1. TakerSideKept(f)
    BY <1>0 DEF TakerSideKept
  <2> QED BY <1>6, <2>1, TakerSideOK
<1>8. HandlerOK(f)'
  <2>1. sub'[M] = Idle
    BY <1>0 DEF HandlerOK
  <2> QED BY <1>0, <1>1, <1>2, <1>3, <1>4, <1>6, <2>1 DEF HandlerOK
<1>9. CrossBase'
  BY <1>0, <1>1, <1>5, <1>7, <1>8, OfferBase DEF OnChain
<1>10. ASSUME NEW o \in Orders PROVE Aside(f, o)
  <2>1. ~SettlesFor(f, o) /\ ~SettlesFor(f, o)'
    BY <1>0, <1>2, <1>3 DEF SettlesFor
  <2> QED BY <1>6, <1>7, <2>1 DEF Aside
<1>11. LockInv => LockInv'
  BY <1>5, <1>10, AsideKeeps DEF LockInv, Framed
<1> QED BY <1>9, <1>11

(* The maker's order is locked and submitted in one step.                  *)
LEMMA LockMakerOK ==
    ASSUME CrossBase, NEW f \in Offers, NEW m \in Orders, m = handlers[f].maker,
           handlers[f].at \in {"sent", "verifying"}, up[Owner[m]] = "up",
           NEW prior \in Statuses \cup {"none"}, prior = "settled" => m \in spent,
           NEW reach, reach \subseteq {m}, LockMaker(f, prior, reach),
           raced \subseteq raced', raced' \subseteq Verifying,
           m \notin raced' =>
              /\ mem[m] \in LIVE_STATUSES /\ m \notin lockingOrders
              /\ reach = {m} /\ prior \in LIVE_STATUSES
    PROVE  CrossBase' /\ (LockInv => LockInv')
<1> DEFINE M == MakerTask[f]
           h == [handlers[f] EXCEPT !.at = "settling", !.prior = prior]
           S == {m, handlers[f].taker}
           sb == [Idle EXCEPT !.at = "locking", !.orders = S]
<1>0. /\ M \in Tasks /\ TakerTask[f] \in Tasks \ {M} /\ HandlerOK(f)
      /\ lockingOrders \subseteq Orders /\ slots \in [Keys -> Nat] /\ handlers[f] \in HandlerRecords
      /\ offers \in [Offers -> OfferRecords] /\ SubmitterOK
      /\ handlers[f].taker \in Orders /\ Owner[m] = RelayerOf[M] /\ Owner[m] # Owner[handlers[f].taker]
  BY CrossParts, Parts, OfferTasks DEF HandlerOK
<1>1. /\ lockingOrders' = lockingOrders \cup {m}
      /\ handlers' = [handlers EXCEPT ![f].at = "settling", ![f].prior = prior]
      /\ mem' = Set(mem, reach, "matched") /\ row' = Marked(row, {m}, "matched")
      /\ Hold(M, reach) /\ Submit(M, S)
      /\ UNCHANGED Untouched /\ UNCHANGED <<slots, offers>>
  BY DEF LockMaker, MatchedInMap
<1>2. /\ h \in HandlerRecords /\ h.at = "settling" /\ h.maker = m
      /\ h.taker = handlers[f].taker /\ h.prior = prior
  BY <1>0 DEF HandlerRecords
<1>3. handlers' = [handlers EXCEPT ![f] = h]
  BY <1>1
<1> HIDE DEF h
<1>4. /\ handlers' \in [Offers -> HandlerRecords] /\ handlers'[f] = h
      /\ \A g \in Offers \ {f} : handlers'[g] = handlers[g]
  BY <1>2, <1>3, HandlerWritten
<1>5. sb \in Submissions /\ sb.at = "locking" /\ sb.orders = S /\ sub' = [sub EXCEPT ![M] = sb]
  <2>1. S \in SUBSET Orders
    BY <1>0
  <2>2. Idle \in Submissions
    BY SubmitterAssumption DEF Idle, Submissions
  <2>3. sub' = [sub EXCEPT ![M] = sb]
    BY <1>1, Zenon DEF Submit
  <2> HIDE DEF S
  <2> QED BY <2>1, <2>2, <2>3 DEF Submissions
<1> HIDE DEF sb
<1>6. /\ SubmitterOK' /\ sub'[M] = sb /\ UNCHANGED spent
      /\ \A u \in Tasks \ {M} : sub'[u] = sub[u]
  BY <1>0, <1>1, <1>5, Reset DEF Untouched, chainVars
<1>7. /\ held' \in [Tasks -> SUBSET Orders] /\ held'[M] = reach
      /\ \A u \in Tasks \ {M} : held'[u] = held[u]
  <2>1. reach \in SUBSET Orders
    OBVIOUS
  <2> QED BY <1>0, <1>1, <2>1, HoldOK
<1>8. /\ row' \in [Orders -> Statuses \cup {"none"}] /\ mem' \in [Orders -> Statuses \cup {"none"}]
      /\ \A o \in Orders : OnChain(o)'
      /\ row'[m] = IF row[m] = "none" THEN "none" ELSE "matched"
      /\ mem'[m] = IF m \in reach THEN "matched" ELSE mem[m]
      /\ \A o \in Orders \ {m} : row'[o] = row[o] /\ mem'[o] = mem[o]
  <2>1. PICK s \in Statuses \cup {"none"} : s = "matched"
    BY DEF Statuses, IN_FLIGHT_STATUSES
  <2>2. row' = Marked(row, {m}, s) /\ mem' = Set(mem, reach, s) /\ (s = "settled" => m \in spent)
    BY <1>1, <2>1
  <2>3. /\ row' \in [Orders -> Statuses \cup {"none"}] /\ mem' \in [Orders -> Statuses \cup {"none"}]
        /\ \A o \in Orders : OnChain(o)'
        /\ row'[m] = IF row[m] = "none" THEN "none" ELSE s
        /\ mem'[m] = IF m \in reach THEN s ELSE mem[m]
        /\ \A o \in Orders \ {m} : row'[o] = row[o] /\ mem'[o] = mem[o]
    BY <1>6, <2>2, Written
  <2> QED BY <2>1, <2>3
<1>9. FramedTypes
  BY <1>0, <1>1, <1>4, <1>6, <1>7, <1>8 DEF FramedTypes
<1>10. Framed(f)
  BY <1>0, <1>1, <1>4, <1>6, <1>7, <1>9 DEF Framed, M
<1>11. UNCHANGED up /\ held'[TakerTask[f]] = held[TakerTask[f]]
  BY <1>0, <1>7, <1>10, FramedQueue
<1>12. OfferOK(f)' /\ \A o \in Orders : AsksFor(f, o)' <=> AsksFor(f, o)
  <2>1. TakerSideKept(f)
    BY <1>0, <1>1 DEF TakerSideKept
  <2> QED BY <1>11, <2>1, TakerSideOK
<1>13. HandlerOK(f)'
  BY <1>0, <1>2, <1>4, <1>5, <1>6, <1>7, <1>11 DEF HandlerOK, M, S
<1>14. CrossBase'
  BY <1>8, <1>10, <1>12, <1>13, OfferBase
<1>15. \A o \in Orders : ~SettlesFor(f, o) /\ (SettlesFor(f, o)' <=> o = m)
  BY <1>2, <1>4 DEF SettlesFor
<1>16. ASSUME NEW o \in Orders \ {m} PROVE Aside(f, o)
  BY <1>1, <1>8, <1>11, <1>12, <1>15, <1>16 DEF Aside
<1>17. ASSUME m \notin raced', LockOK(m) PROVE LockOK(m)'
  <2>1. mem[m] \in LIVE_STATUSES /\ m \notin lockingOrders /\ m \in reach /\ prior \in LIVE_STATUSES
    BY <1>17
  <2>2. ~AsksFor(f, m)'
    BY <1>12, <1>17, <2>1 DEF LockOK, LocksHold, Reserved
  <2>3. SettlesFor(f, m)' /\ m \in held'[MakerTask[f]] /\ handlers'[f].prior \in LIVE_STATUSES
        /\ m \in lockingOrders'
    BY <1>1, <1>2, <1>4, <1>7, <1>15, <2>1 DEF M
  <2>4. row'[m] = (IF row[m] = "none" THEN "none" ELSE "matched") /\ mem'[m] = "matched"
    BY <1>8, <2>1
  <2> QED BY <1>10, <1>17, <2>1, <2>2, <2>3, <2>4, TakenOK
<1> QED BY <1>10, <1>14, <1>16, <1>17, LocksFrom

(* An offer is taken up: its proof is verified first, or it is settled.    *)
LEMMA HandleOfferOK ==
    ASSUME CrossBase, NEW f \in Offers, handleTradeOffer(f)
    PROVE  CrossBase' /\ (LockInv => LockInv')
<1>0. /\ HandlerOK(f) /\ handlers[f].at = "sent" /\ up[RelayerOf[MakerTask[f]]] = "up"
      /\ mem \in [Orders -> Statuses \cup {"none"}] /\ \A o \in Orders : OnChain(o)
  BY CrossParts DEF handleTradeOffer, Arrives
<1>1. PICK m \in Orders : m = handlers[f].maker
  BY <1>0 DEF HandlerOK
<1>2. up[Owner[m]] = "up" /\ mem[m] \in LIVE_STATUSES /\ m \notin lockingOrders
  BY <1>0, <1>1 DEF HandlerOK, handleTradeOffer, NotLocked
<1>3. CASE /\ verifyOrderProofs[Owner[m]]
           /\ handlers' = [handlers EXCEPT ![f].at = "verifying"]
           /\ Hold(MakerTask[f], {m})
           /\ UNCHANGED <<Untouched, raced, sub, row, mem, slots, lockingOrders, offers>>
  <2>1. Arrives(f)
    BY DEF handleTradeOffer
  <2> QED BY <1>1, <1>3, <2>1, VerifyingOK
<1>4. CASE LockMaker(f, mem[m], {m}) /\ UNCHANGED raced
  <2>1. PICK p \in Statuses \cup {"none"} : p = mem[m]
    BY <1>0
  <2>2. (p = "settled" => m \in spent) /\ p \in LIVE_STATUSES /\ LockMaker(f, p, {m})
    BY <1>0, <1>2, <1>4, <2>1 DEF OnChain
  <2>3. PICK R : R = {m}
    OBVIOUS
  <2>4. LockMaker(f, p, R) /\ R \subseteq {m}
    BY <2>2, <2>3
  <2>5. raced \subseteq raced' /\ raced' \subseteq Verifying
    BY <1>4, CrossParts
  <2> QED BY <1>0, <1>1, <1>2, <2>2, <2>3, <2>4, <2>5, LockMakerOK
<1>5. \/ /\ verifyOrderProofs[Owner[m]]
         /\ handlers' = [handlers EXCEPT ![f].at = "verifying"]
         /\ Hold(MakerTask[f], {m})
         /\ UNCHANGED <<Untouched, raced, sub, row, mem, slots, lockingOrders, offers>>
      \/ LockMaker(f, mem[m], {m}) /\ UNCHANGED raced
  BY <1>1 DEF handleTradeOffer
<1> QED BY <1>3, <1>4, <1>5

(* The proof verified: where the check made before no longer holds, the    *)
(* order is raced from here on.                                            *)
LEMMA ProofVerifiedOK ==
    ASSUME CrossBase, NEW f \in Offers, ProofVerified(f)
    PROVE  CrossBase' /\ (LockInv => LockInv')
<1>0. /\ HandlerOK(f) /\ handlers[f].at = "verifying" /\ handlers[f] \in HandlerRecords
      /\ mem \in [Orders -> Statuses \cup {"none"}] /\ \A o \in Orders : OnChain(o)
  BY CrossParts DEF ProofVerified
<1>1. PICK m \in Orders : m = handlers[f].maker
  BY <1>0 DEF HandlerOK
<1>2. up[Owner[m]] = "up" /\ verifyOrderProofs[Owner[m]] /\ held[MakerTask[f]] \subseteq {m}
  BY <1>0, <1>1 DEF HandlerOK
<1>3. PICK R : R = held[MakerTask[f]]
  OBVIOUS
<1>4. PICK p \in Statuses \cup {"none"} : p = IF m \in R THEN mem[m] ELSE handlers[f].prior
  BY <1>0 DEF HandlerRecords
<1>5. p = "settled" => m \in spent
  BY <1>0, <1>1, <1>4 DEF OnChain, HandlerOK
<1>6. LockMaker(f, p, R)
  BY <1>1, <1>3, <1>4 DEF ProofVerified
<1>7. raced' = IF m \in R /\ NotLocked(m) THEN raced ELSE raced \cup {m}
  BY <1>1, <1>3 DEF ProofVerified
<1>8. raced \subseteq raced' /\ raced' \subseteq Verifying
  BY <1>1, <1>2, <1>7, CrossParts DEF Verifying
<1>9. m \notin raced' =>
         /\ mem[m] \in LIVE_STATUSES /\ m \notin lockingOrders
         /\ R = {m} /\ p \in LIVE_STATUSES
  BY <1>2, <1>3, <1>4, <1>7 DEF NotLocked
<1>10. R \subseteq {m}
  BY <1>2, <1>3
<1> QED BY <1>0, <1>1, <1>2, <1>5, <1>6, <1>8, <1>9, <1>10, LockMakerOK

(* The handler's submission ended: settled, or as the order was before.    *)
LEMMA MakerEndOK ==
    ASSUME CrossBase, NEW f \in Offers, NEW m \in Orders, m = handlers[f].maker,
           NEW s \in Statuses \cup {"none"}, MakerEnd(f, s), s = "settled" => m \in spent,
           LockOK(m) => s \in LIVE_STATUSES \cup {"settled"},
           slots' \in [Keys -> Nat], TakerSideKept(f)
    PROVE  CrossBase' /\ (LockInv => LockInv')
<1> DEFINE M == MakerTask[f]
<1>0. /\ handlers[f].at = "settling" /\ Collected(M)
      /\ mem' = Set(mem, held[M], s) /\ row' = Marked(row, {m}, s)
      /\ lockingOrders' = lockingOrders \ {m} /\ Hold(M, {}) /\ HandlerEnds(f)
      /\ UNCHANGED Untouched /\ UNCHANGED raced
  BY DEF MakerEnd
<1>1. /\ M \in Tasks /\ TakerTask[f] \in Tasks \ {M} /\ HandlerOK(f) /\ held[M] \subseteq {m}
      /\ raced \subseteq Verifying /\ lockingOrders \subseteq Orders /\ SubmitterOK
  BY CrossParts, Parts, OfferTasks DEF HandlerOK
<1> HIDE DEF M
<1>2. /\ SubmitterOK' /\ sub'[M] = Idle /\ UNCHANGED spent
      /\ \A u \in Tasks \ {M} : sub'[u] = sub[u]
  <2>1. Idle \in Submissions /\ Idle.at = "idle"
    BY SubmitterAssumption DEF Idle, Submissions
  <2> QED BY <1>0, <1>1, <2>1, Reset DEF Untouched, chainVars, Collected
<1>3. /\ row' \in [Orders -> Statuses \cup {"none"}] /\ mem' \in [Orders -> Statuses \cup {"none"}]
      /\ \A o \in Orders : OnChain(o)'
      /\ row'[m] = IF row[m] = "none" THEN "none" ELSE s
      /\ mem'[m] = IF m \in held[M] THEN s ELSE mem[m]
      /\ \A o \in Orders \ {m} : row'[o] = row[o] /\ mem'[o] = mem[o]
  <2>1. PICK R : R = held[M]
    OBVIOUS
  <2>2. row' = Marked(row, {m}, s) /\ mem' = Set(mem, R, s) /\ R \subseteq {m}
    BY <1>0, <1>1, <2>1
  <2>3. /\ row' \in [Orders -> Statuses \cup {"none"}] /\ mem' \in [Orders -> Statuses \cup {"none"}]
        /\ \A o \in Orders : OnChain(o)'
        /\ row'[m] = IF row[m] = "none" THEN "none" ELSE s
        /\ mem'[m] = IF m \in R THEN s ELSE mem[m]
        /\ \A o \in Orders \ {m} : row'[o] = row[o] /\ mem'[o] = mem[o]
    BY <1>2, <2>2, Written
  <2> QED BY <2>1, <2>3
<1>4. /\ held' \in [Tasks -> SUBSET Orders] /\ held'[M] = {}
      /\ \A u \in Tasks \ {M} : held'[u] = held[u]
  BY <1>0, <1>1, HoldOK
<1>5. /\ handlers' \in [Offers -> HandlerRecords] /\ handlers'[f] = NoHandler
      /\ \A g \in Offers \ {f} : handlers'[g] = handlers[g]
  BY <1>0, EmptyRecords, HandlerWritten DEF HandlerEnds
<1>6. FramedTypes
  BY <1>0, <1>1, <1>2, <1>3, <1>4, <1>5 DEF FramedTypes, TakerSideKept
<1>7. Framed(f)
  BY <1>0, <1>1, <1>2, <1>4, <1>5, <1>6 DEF Framed, M, TakerSideKept
<1>8. UNCHANGED up /\ held'[TakerTask[f]] = held[TakerTask[f]]
  BY <1>1, <1>4, <1>7, FramedQueue
<1>9. OfferOK(f)' /\ \A o \in Orders : AsksFor(f, o)' <=> AsksFor(f, o)
  BY <1>8, TakerSideOK
<1>10. HandlerOK(f)'
  BY <1>2, <1>4, <1>5, EmptyRecords DEF HandlerOK, M
<1>11. CrossBase'
  BY <1>3, <1>7, <1>9, <1>10, OfferBase
<1>12. \A o \in Orders : ~SettlesFor(f, o)' /\ (SettlesFor(f, o) <=> o = m)
  BY <1>0, <1>5, EmptyRecords DEF SettlesFor
<1>13. ASSUME NEW o \in Orders \ {m} PROVE Aside(f, o)
  BY <1>0, <1>3, <1>8, <1>9, <1>12, <1>13 DEF Aside
<1>14. ASSUME LockOK(m) PROVE LockOK(m)'
  <2>1. SettlesFor(f, m) /\ ~AsksFor(f, m) /\ ~AsksFor(f, m)' /\ ~SettlesFor(f, m)'
    BY <1>9, <1>12, <1>14 DEF LockOK, OneLock
  <2>2. s \in LIVE_STATUSES \cup {"settled"}
    BY <1>14
  <2> QED BY <1>3, <1>7, <1>14, <2>1, <2>2, ReleasedOK DEF M
<1> QED BY <1>7, <1>11, <1>13, <1>14, LocksFrom

(* The booked transaction names the maker's order.                         *)
LEMMA MakerSettledOK ==
    ASSUME CrossBase, NEW f \in Offers, MakerSettled(f)
    PROVE  CrossBase' /\ (LockInv => LockInv')
<1>0. /\ HandlerOK(f) /\ handlers[f].at = "settling" /\ slots \in [Keys -> Nat]
      /\ MakerTask[f] \in Tasks /\ Chained
      /\ sub[MakerTask[f]].at = "done" /\ sub[MakerTask[f]].out = "settled"
      /\ MakerEnd(f, "settled") /\ Reply(f, "settled")
  BY CrossParts, Parts, OfferTasks DEF MakerSettled, MakerEnd
<1>1. PICK m \in Orders : m = handlers[f].maker
  BY <1>0 DEF HandlerOK
<1>2. m \in spent
  BY <1>0, <1>1 DEF HandlerOK, Chained, TaskBooked
<1>3. slots' \in [Keys -> Nat]
  BY <1>0, FS_Singleton, DecType DEF MakerSettled
<1>4. TakerSideKept(f)
  BY <1>0, ReplyOK DEF TakerSideKept
<1>5. PICK s \in Statuses \cup {"none"} : s = "settled"
  BY DEF Statuses, TERMINAL_STATUSES
<1>6. MakerEnd(f, s) /\ s \in LIVE_STATUSES \cup {"settled"}
  BY <1>0, <1>5
<1> QED BY <1>1, <1>2, <1>3, <1>4, <1>6, MakerEndOK

(* An error: the order gets back the status it was locked with.            *)
LEMMA MakerFailedOK ==
    ASSUME CrossBase, NEW f \in Offers, MakerFailed(f)
    PROVE  CrossBase' /\ (LockInv => LockInv')
<1>0. /\ HandlerOK(f) /\ handlers[f].at = "settling" /\ slots \in [Keys -> Nat]
      /\ handlers[f] \in HandlerRecords
      /\ MakerEnd(f, handlers[f].prior) /\ Reply(f, "error") /\ UNCHANGED slots
  BY CrossParts DEF MakerFailed, MakerEnd, RestoredStatus
<1>1. PICK m \in Orders : m = handlers[f].maker
  BY <1>0 DEF HandlerOK
<1>2. PICK s \in Statuses \cup {"none"} : s = handlers[f].prior
  BY <1>0 DEF HandlerRecords
<1>3. MakerEnd(f, s) /\ (s = "settled" => m \in spent)
  BY <1>0, <1>1, <1>2 DEF HandlerOK
<1>4. LockOK(m) => s \in LIVE_STATUSES
  BY <1>0, <1>1, <1>2 DEF LockOK, LocksHold, SettlesFor
<1>5. TakerSideKept(f)
  BY <1>0, ReplyOK DEF TakerSideKept
<1> QED BY <1>0, <1>1, <1>3, <1>4, <1>5, MakerEndOK

-----------------------------------------------------------------------------
(* The specification.                                                      *)

(* A step that leaves the handlers alone is beside the offers.             *)
LEMMA BesideRests ==
    ASSUME CrossBase, UNCHANGED <<held, crossVars>>
    PROVE  BesideOffers
<1>1. UNCHANGED <<held, lockingOrders, offers, handlers, raced, orphaned>> /\ handlers \in [Offers -> HandlerRecords]
  BY CrossParts DEF crossVars
<1>2. \A f \in Offers : handlers[f].maker \notin held[MakerTask[f]] \ held'[MakerTask[f]]
  BY <1>1
<1>3. handlers' = [f \in Offers |->
          LET m == handlers[f].maker IN
          IF handlers[f].at = "verifying" /\ m \in held[MakerTask[f]] \ held'[MakerTask[f]]
          THEN [handlers[f] EXCEPT !.prior = LastStatus(m)] ELSE handlers[f]]
  BY <1>1, <1>2
<1> QED BY <1>1, <1>3 DEF BesideOffers

(* The handler's own submission goes on.                                   *)
LEMMA OfferSubmissionMoves ==
    ASSUME CrossBase, NEW f \in Offers, OfferSubmission(f)
    PROVE  OrdersMove /\ Waits /\ BesideOffers
<1>0. /\ QueueBase /\ SubmitterOK /\ MakerTask[f] \in Tasks /\ TaskStep(MakerTask[f])
      /\ UNCHANGED <<queueVars, crossVars>> /\ UNCHANGED <<held, crossVars>>
  BY CrossParts, Parts, OfferTasks DEF OfferSubmission, queueVars
<1>1. /\ SubmitterOK' /\ Grows /\ \A u \in Tasks : sub'[u].orders = sub[u].orders
      /\ UNCHANGED cancelLog /\ \A u \in Tasks \ {MakerTask[f]} : sub'[u] = sub[u]
      /\ sub[MakerTask[f]].at # "idle" /\ sub'[MakerTask[f]].at # "idle"
  BY <1>0, TaskOK, OnlyOneTask, TaskRuns
<1>2. Len(cancelLog) <= Len(cancelLog)'
  BY <1>0, <1>1 DEF SubmitterOK, SubmitterTypeOK
<1>3. OrdersMove
  BY <1>0, <1>1, <1>2, OutsideStep
<1>4. Waits
  BY <1>1 DEF Waits
<1> QED BY <1>0, <1>3, <1>4, BesideRests

(* So does the queue, and a step that changes nothing.                     *)
LEMMA QueueBesideMoves ==
    ASSUME CrossBase, QueueBeside \/ UNCHANGED crossAll
    PROVE  OrdersMove /\ Waits /\ BesideOffers
<1>1. QueueBase
  BY CrossParts
<1>2. CASE QueueBeside
  <2>1. QueueMoves
    BY <1>1, <1>2, QueueStepMoves DEF QueueBeside
  <2>2. BesideOffers
    BY <1>2 DEF QueueBeside, BesideOffers, history
  <2> QED BY <2>1, <2>2 DEF QueueMoves, OthersWait, Waits
<1>3. CASE UNCHANGED crossAll
  <2>1. UNCHANGED queueAll /\ UNCHANGED <<held, crossVars>>
    BY <1>3 DEF crossAll, queueAll, queueVars
  <2>2. QueueMoves /\ BesideOffers
    BY <1>1, <2>1, StutterMoves, BesideRests
  <2> QED BY <2>2 DEF QueueMoves, OthersWait, Waits
<1> QED BY <1>2, <1>3

(* Every step of an offer but its submission's.                            *)
LEMMA OfferStepOK ==
    ASSUME CrossBase, NEW f \in Offers, OfferStep(f), ~OfferSubmission(f)
    PROVE  CrossBase' /\ (LockInv => LockInv')
BY TakerSettledOK, TakerRestoredOK, RequestLostOK, OfferRefusedOK, HandleOfferOK, ProofVerifiedOK,
   ProofRefusedOK, MakerSettledOK, MakerFailedOK DEF OfferStep

(* Every step keeps the base, and the locks where rows are kept.           *)
LEMMA CrossStepOK ==
    ASSUME CrossBase, [CrossNext]_crossAll
    PROVE  CrossBase' /\ (RetainForever /\ LockInv => LockInv')
<1>1. CASE QueueBeside \/ UNCHANGED crossAll
  BY <1>1, QueueBesideMoves, BesideBase, BesideLocks
<1>2. ASSUME NEW r \in Relayers, CrashBeside(r) PROVE CrossBase' /\ (LockInv => LockInv')
  BY <1>2, CrashBesideBase, CrashBesideLocks
<1>3. ASSUME NEW f \in Offers, NEW t \in Orders, NEW m \in Orders, onRemoteOrderArrived(f, t, m)
      PROVE  CrossBase' /\ (LockInv => LockInv')
  BY <1>3, ArrivedOK
<1>4. ASSUME NEW f \in Offers, OfferStep(f)
      PROVE  CrossBase' /\ (RetainForever /\ LockInv => LockInv')
  <2>1. CASE OfferSubmission(f)
    BY <2>1, OfferSubmissionMoves, BesideBase, BesideLocks
  <2>2. CASE ~OfferSubmission(f)
    BY <1>4, <2>2, OfferStepOK
  <2> QED BY <2>1, <2>2
<1> QED BY <1>1, <1>2, <1>3, <1>4 DEF CrossNext

(* Both hold once the POSTs of some orders were accepted.                  *)
LEMMA CrossInitOK == CrossInit => CrossBase /\ LockInv
<1> SUFFICES ASSUME CrossInit PROVE CrossBase /\ LockInv
  OBVIOUS
<1>1. PICK accepted \in SUBSET Orders :
         /\ row = [o \in Orders |-> IF o \in accepted THEN "accepted" ELSE "none"]
         /\ slots = [k \in Keys |-> Cardinality({o \in accepted : KeyOf[o] = k})]
  BY DEF CrossInit
<1>2. /\ row \in [Orders -> Statuses \cup {"none"}] /\ mem = row
      /\ \A o \in Orders : row[o] \in {"accepted", "none"}
  BY <1>1 DEF CrossInit, Statuses, LIVE_STATUSES
<1>3. slots \in [Keys -> Nat]
  <2>1. ASSUME NEW k \in Keys PROVE Cardinality({o \in accepted : KeyOf[o] = k}) \in Nat
    <3>1. IsFiniteSet({o \in accepted : KeyOf[o] = k})
      BY SubmitterAssumption, FS_Subset
    <3> QED BY <3>1, FS_CardinalityType
  <2> QED BY <1>1, <2>1
<1>4. QueueBase
  BY <1>2, <1>3, FreshBase DEF CrossInit
<1>5. /\ lockingOrders = {} /\ raced = {} /\ orphaned = {} /\ offers = [f \in Offers |-> NoOffer]
      /\ handlers = [f \in Offers |-> NoHandler] /\ held = [t \in Tasks |-> {}]
      /\ sub = [t \in Tasks |-> Idle] /\ up = [r \in Relayers |-> "up"]
      /\ worker = [r \in Relayers |-> NoJob]
  BY DEF CrossInit, SubmitterInit
<1>6. ASSUME NEW f \in Offers PROVE OfferOK(f) /\ HandlerOK(f)
  <2>1. /\ offers[f] = NoOffer /\ handlers[f] = NoHandler
        /\ held[TakerTask[f]] = {} /\ held[MakerTask[f]] = {} /\ sub[MakerTask[f]] = Idle
    BY <1>5, OfferTasks
  <2> QED BY <2>1, EmptyRecords DEF OfferOK, HandlerOK
<1>7. CrossBase
  <2>1. AllUp /\ OthersIdle /\ \A o \in Orders : OnChain(o)
    BY <1>2, <1>5 DEF AllUp, OthersIdle, OnChain
  <2> QED BY <1>4, <1>5, <1>6, <2>1, EmptyRecords DEF CrossBase
<1>8. ASSUME NEW o \in Orders PROVE LockOK(o)
  <2>1. ~OnTheJob(o)
    BY <1>5, QueueAssumption DEF OnTheJob, NoJob
  <2>2. \A f \in Offers : ~AsksFor(f, o) /\ ~SettlesFor(f, o)
    BY <1>5, EmptyRecords DEF AsksFor, SettlesFor
  <2>3. Sound(o)
    BY <1>2, <2>1 DEF Sound, LIVE_STATUSES
  <2>4. LocksHold(o) /\ OneLock(o)
    BY <2>2 DEF LocksHold, OneLock
  <2>5. NotStuck(o)
    BY <1>2 DEF NotStuck
  <2> QED BY <2>3, <2>4, <2>5 DEF LockOK
<1> QED BY <1>7, <1>8 DEF LockInv

(* What a peer answers never decides what a row says: a row is settled     *)
(* only if the chain consumed the order's nullifier, on the maker's side   *)
(* by the booked transaction, on the taker's by its own look at the chain. *)
THEOREM RowsFollow == CrossSpec => []RowsFollowTheChain
<1>1. CrossBase => RowsFollowTheChain
  <2> SUFFICES ASSUME CrossBase PROVE RowsFollowTheChain
    OBVIOUS
  <2>1. QueueTypeOK /\ lockingOrders \subseteq Orders /\ raced \cup orphaned \subseteq Orders
    BY CrossParts, Parts DEF QueueTypeOK, Verifying
  <2>2. ASSUME NEW f \in Offers
        PROVE  /\ offers[f].at \in {"idle", "asking"}
               /\ offers[f].ans \in {"none", "settled", "rejected", "error"}
               /\ offers[f].prior \in Statuses \cup {"none"}
               /\ handlers[f].at \in {"idle", "sent", "verifying", "settling"}
               /\ handlers[f].at = "settling" <=> sub[MakerTask[f]].at # "idle"
    <3>1. offers[f] \in OfferRecords /\ handlers[f] \in HandlerRecords /\ HandlerOK(f)
      BY CrossParts
    <3>2. handlers[f].at = "settling" <=> sub[MakerTask[f]].at # "idle"
      BY <3>1 DEF HandlerOK, Idle
    <3>3. /\ offers[f].at \in {"idle", "asking"}
          /\ offers[f].ans \in {"none", "settled", "rejected", "error"}
          /\ offers[f].prior \in Statuses \cup {"none"}
          /\ handlers[f].at \in {"idle", "sent", "verifying", "settling"}
      BY <3>1 DEF OfferRecords, HandlerRecords
    <3> QED BY <3>2, <3>3
  <2>3. SettledRowIsOnChain
    BY CrossParts DEF OnChain, SettledRowIsOnChain
  <2> QED BY <2>1, <2>2, <2>3 DEF RowsFollowTheChain, CrossTypeOK
<1>2. CrossInit => CrossBase
  BY CrossInitOK
<1>3. CrossBase /\ [CrossNext]_crossAll => CrossBase'
  BY CrossStepOK
<1> QED BY <1>1, <1>2, <1>3, PTL DEF CrossSpec

(* What a relayer submits of its own orders: its worker's job, or the      *)
(* order a handler has locked.                                             *)
LEMMA WhoSubmits ==
    ASSUME CrossBase, NEW t \in Tasks, NEW o \in Orders, o \in sub[t].orders,
           RelayerOf[t] = Owner[o]
    PROVE  \/ t = JobTask(o) /\ OnTheJob(o)
           \/ \E f \in Offers : t = MakerTask[f] /\ SettlesFor(f, o)
<1>0. Idle.orders = {}
  BY DEF Idle
<1>1. ASSUME NEW r \in Relayers, t = WorkerOf[r] PROVE t = JobTask(o) /\ OnTheJob(o)
  <2>1. r = Owner[o] /\ JobOK(r)
    BY <1>1, CrossParts, Parts, QueueAssumption DEF JobsMatch
  <2> QED BY <1>1, <2>1 DEF JobOK, JobTask, OnTheJob
<1>2. ASSUME NEW f \in Offers, t = MakerTask[f] PROVE SettlesFor(f, o)
  <2>1. HandlerOK(f)
    BY CrossParts
  <2>2. handlers[f].at = "settling" /\ o \in {handlers[f].maker, handlers[f].taker}
    BY <1>0, <1>2, <2>1 DEF HandlerOK
  <2>3. Owner[handlers[f].maker] = Owner[o] /\ Owner[handlers[f].maker] # Owner[handlers[f].taker]
    BY <1>2, <2>1, <2>2 DEF HandlerOK
  <2> QED BY <2>2, <2>3 DEF SettlesFor
<1> QED BY <1>0, <1>1, <1>2, CrossParts DEF OthersIdle

(* A relayer that keeps its rows (the default) has one of its own orders   *)
(* in two submissions at a time only after a handler locked the order on   *)
(* the word of a check that the await of the proof had made untrue; where  *)
(* proofs are not verified that is never, however the worker, the timers,  *)
(* the offers in either direction, crashes and lost messages interleave.   *)
THEOREM NoDoubleSubmission ==
    ASSUME RetainForever
    PROVE  CrossSpec => []OneSubmissionPerOrder
<1>1. CrossBase /\ LockInv => OneSubmissionPerOrder
  <2> SUFFICES ASSUME CrossBase, LockInv, NEW o \in Orders,
                      ~(o \in raced /\ verifyOrderProofs[Owner[o]]),
                      NEW t \in Tasks, NEW u \in Tasks, t # u,
                      RelayerOf[t] = Owner[o], RelayerOf[u] = Owner[o],
                      o \in sub[t].orders \cap sub[u].orders
               PROVE  FALSE
    BY DEF OneSubmissionPerOrder, SubmittedOnce
  <2>1. o \notin raced
    BY CrossParts DEF Verifying
  <2>2. LockOK(o)
    BY <2>1 DEF LockInv
  <2>3. ASSUME NEW f \in Offers, SettlesFor(f, o) PROVE ~OnTheJob(o)
    BY <2>2, <2>3 DEF LockOK, LocksHold, Reserved
  <2>4. \A f, g \in Offers : SettlesFor(f, o) /\ SettlesFor(g, o) => f = g
    BY <2>2 DEF LockOK, OneLock
  <2>5. \/ t = JobTask(o) /\ OnTheJob(o)
        \/ \E f \in Offers : t = MakerTask[f] /\ SettlesFor(f, o)
    BY WhoSubmits
  <2>6. \/ u = JobTask(o) /\ OnTheJob(o)
        \/ \E f \in Offers : u = MakerTask[f] /\ SettlesFor(f, o)
    BY WhoSubmits
  <2> QED BY <2>3, <2>4, <2>5, <2>6
<1>2. CrossInit => CrossBase /\ LockInv
  BY CrossInitOK
<1>3. CrossBase /\ LockInv /\ [CrossNext]_crossAll => CrossBase' /\ LockInv'
  BY CrossStepOK
<1> QED BY <1>1, <1>2, <1>3, PTL DEF CrossSpec

(* No order is left in matched, in its row or its entry, without its       *)
(* worker or an offer being at work, but by such a lock or by a crash of   *)
(* its relayer while an offer was at work on it.                           *)
THEOREM NobodyIsStuck ==
    ASSUME RetainForever
    PROVE  CrossSpec => []NoStuckMatched
<1>1. CrossBase /\ LockInv => NoStuckMatched
  <2> SUFFICES ASSUME CrossBase, LockInv, NEW o \in Orders, o \notin raced \cup orphaned,
                      "matched" \in {row[o], mem[o]}
               PROVE  AtWork(o)
    BY DEF NoStuckMatched, Stuck
  <2>1. OnTheJob(o) \/ Locked(o)
    BY DEF LockInv, LockOK, NotStuck
  <2> QED BY <2>1 DEF AtWork, OnTheJob
<1>2. CrossInit => CrossBase /\ LockInv
  BY CrossInitOK
<1>3. CrossBase /\ LockInv /\ [CrossNext]_crossAll => CrossBase' /\ LockInv'
  BY CrossStepOK
<1> QED BY <1>1, <1>2, <1>3, PTL DEF CrossSpec
=============================================================================
