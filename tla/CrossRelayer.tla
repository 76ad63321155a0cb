---------------------------- MODULE CrossRelayer ----------------------------
(***************************************************************************)
(* Matching across relayers: the taker's relayer sends a trade offer to    *)
(* the maker's, which settles the pair on chain.  An offer is a request    *)
(* that may be lost or late, a handler on the maker's side that outlives   *)
(* the 30 s the taker waits, and an answer the taker does not trust.       *)
(*                                                                         *)
(* Abstractions.  A summary on the shared orderbook may be stale, so any   *)
(* order may be offered for; the checks on fees and signals are a refusal  *)
(* that is always possible.  A map entry that the handler alone still      *)
(* holds keeps the status it had when it left the map.                     *)
(*                                                                         *)
(* raced and orphaned are history: no guard reads them.                    *)
(***************************************************************************)
EXTENDS RelayerQueue

CONSTANTS
    Offers,                          \* offers that may be in progress at once
    TakerTask, MakerTask,            \* the task on each side of an offer
    verifyOrderProofs,               \* whether a relayer verifies the taker's proof, per relayer
    maxConcurrentAuthorizeOffers,    \* handlers a relayer runs at once
    Unreliable                       \* relayers that may answer "settled" wrongly

ASSUME CrossAssumption ==
    /\ TakerTask \in [Offers -> Tasks] /\ MakerTask \in [Offers -> Tasks]
    /\ verifyOrderProofs \in [Relayers -> BOOLEAN]
    /\ maxConcurrentAuthorizeOffers \in Nat \ {0}
    /\ Unreliable \subseteq Relayers
    \* every call that awaits is a task of its own
    /\ \A f \in Offers, r \in Relayers : WorkerOf[r] \notin {TakerTask[f], MakerTask[f]}
    /\ \A f, g \in Offers :
          /\ TakerTask[f] # MakerTask[g]
          /\ f # g => TakerTask[f] # TakerTask[g] /\ MakerTask[f] # MakerTask[g]

VARIABLES
    lockingOrders,   \* orders some offer is working on, at their own relayer
    offers,          \* the taker's side of each offer
    handlers,        \* its request: in transit, verifying, settling
    raced,           \* orders locked after a proof although the check made before it no longer held
    orphaned         \* orders whose relayer crashed while an offer was at work on them

crossVars == <<lockingOrders, offers, handlers, raced, orphaned>>
history == <<raced, orphaned>>
crossAll == <<chainVars, submitterVars, queueVars, crossVars>>

NoOffer == [at |-> "idle", maker |-> NoOrder, taker |-> NoOrder, prior |-> "none", ans |-> "none"]
NoHandler == [at |-> "idle", maker |-> NoOrder, taker |-> NoOrder, prior |-> "none"]

(* A state the relayers are in once the POSTs of some orders were accepted. *)
CrossInit ==
    /\ SubmitterInit
    /\ \E accepted \in SUBSET Orders :
          /\ row = [o \in Orders |-> IF o \in accepted THEN "accepted" ELSE "none"]
          /\ slots = [k \in Keys |-> Cardinality({o \in accepted : KeyOf[o] = k})]
    /\ mem = row
    /\ attempt = [o \in Orders |-> 0]
    /\ posts = [p \in Posts |-> NoPost]
    /\ worker = [r \in Relayers |-> NoJob]
    /\ held = [t \in Tasks |-> {}]
    /\ cursor = [r \in Relayers |-> 0]
    /\ up = [r \in Relayers |-> "up"] /\ crashes = 0
    /\ failures = [r \in Relayers |-> NoFailures]
    /\ lockingOrders = {}
    /\ offers = [f \in Offers |-> NoOffer]
    /\ handlers = [f \in Offers |-> NoHandler]
    /\ raced = {} /\ orphaned = {}

(* What no step of an offer touches.                                       *)
Untouched == <<chainVars, pendingTxs, recorded, attempt, posts, worker, cursor, up, crashes, failures,
               orphaned>>
Hold(t, S) == held' = [held EXCEPT ![t] = S]
-----------------------------------------------------------------------------
(* The taker's side.                                                       *)

(* A relayer skips the orders it posted itself.  The row says matched      *)
(* before the offer is sent, so that the worker does not claim it.         *)
onRemoteOrderArrived(f, t, m) ==
    /\ offers[f] = NoOffer /\ handlers[f] = NoHandler
    /\ Owner[t] = RelayerOf[TakerTask[f]] /\ Owner[m] = RelayerOf[MakerTask[f]]
    /\ Owner[m] # Owner[t]
    /\ up[Owner[t]] = "up"
    /\ clock < Expiry[m] /\ clock < Expiry[t]
    /\ <<m, t>> \in Compatible
    /\ mem[t] \in LIVE_STATUSES
    /\ t \notin lockingOrders
    /\ lockingOrders' = lockingOrders \cup {t}
    /\ mem' = [mem EXCEPT ![t] = "matched"]
    /\ row' = Marked(row, {t}, "matched")
    /\ Hold(TakerTask[f], {t})
    /\ offers' = [offers EXCEPT ![f] =
                     [at |-> "asking", maker |-> m, taker |-> t, prior |-> mem[t], ans |-> "none"]]
    /\ handlers' = [handlers EXCEPT ![f] =
                     [at |-> "sent", maker |-> m, taker |-> t, prior |-> "none"]]
    /\ UNCHANGED <<Untouched, raced, sub, slots>>

(* The maker's relayer does not learn that the taker stopped waiting.      *)
HandlerAfterTaker(f) == handlers[f]

(* The end of the taker's side: both memory and row get status s, the lock *)
(* goes.                                                                   *)
TakerEnd(f, s) ==
    LET t == offers[f].taker IN
    /\ offers[f].at = "asking"
    /\ up[Owner[t]] = "up"
    /\ mem' = Set(mem, held[TakerTask[f]], s)
    /\ row' = Marked(row, {t}, s)
    /\ lockingOrders' = lockingOrders \ {t}
    /\ Hold(TakerTask[f], {})
    /\ offers' = [offers EXCEPT ![f] = NoOffer]
    /\ handlers' = [handlers EXCEPT ![f] = HandlerAfterTaker(f)]
    /\ UNCHANGED <<Untouched, raced, sub>>

(* Mutant: the answer is believed. *)
TrustPeer(t) == TRUE
(* The receipt exists, succeeded and carries the order's nullifier.        *)
verifyPeerSettlement(t) == t \in spent

TakerSettled(f) ==
    /\ offers[f].ans = "settled"
    /\ verifyPeerSettlement(offers[f].taker)
    /\ TakerEnd(f, "settled")
    /\ slots' = decPubKeyCount({offers[f].taker})

(* Mutant: the request has no timeout. *)
AnswerNeeded(f) == offers[f].ans # "none"
(* A refusal, an error, a timeout, or a settlement that cannot be checked. *)
TakerGivesUp(f) == TRUE

TakerRestored(f) ==
    /\ TakerGivesUp(f)
    /\ TakerEnd(f, offers[f].prior)
    /\ UNCHANGED slots
-----------------------------------------------------------------------------
(* The maker's side.                                                       *)

Reply(f, a) == offers' = [offers EXCEPT ![f].ans = IF offers[f].at = "asking" THEN a ELSE "none"]
HandlerEnds(f) == handlers' = [handlers EXCEPT ![f] = NoHandler]
Arrives(f) == handlers[f].at = "sent" /\ up[RelayerOf[MakerTask[f]]] = "up"

RequestLost(f) ==
    /\ handlers[f].at = "sent"
    /\ HandlerEnds(f)
    /\ UNCHANGED <<Untouched, raced, submitterVars, row, mem, slots, held, lockingOrders, offers>>

OfferRefused(f) ==
    /\ Arrives(f)
    /\ HandlerEnds(f)
    /\ \/ Reply(f, "rejected")
       \/ RelayerOf[MakerTask[f]] \in Unreliable /\ Reply(f, "settled")
    /\ UNCHANGED <<Untouched, raced, submitterVars, row, mem, slots, held, lockingOrders>>

InFlight(r) ==
    {f \in Offers : RelayerOf[MakerTask[f]] = r /\ handlers[f].at \in {"verifying", "settling"}}

(* Mutant: only the row says matched, which the worker's matcher does not read. *)
MatchedInRowOnly(reach) == mem
MatchedInMap(reach) == Set(mem, reach, "matched")

(* From here to the submission there is no await.                          *)
LockMaker(f, prior, reach) ==
    LET m == handlers[f].maker IN
    /\ lockingOrders' = lockingOrders \cup {m}
    /\ handlers' = [handlers EXCEPT ![f].at = "settling", ![f].prior = prior]
    /\ mem' = MatchedInMap(reach)
    /\ row' = Marked(row, {m}, "matched")
    /\ Hold(MakerTask[f], reach)
    /\ Submit(MakerTask[f], {m, handlers[f].taker})
    /\ UNCHANGED <<Untouched, slots, offers>>

NotLocked(m) == mem[m] \in LIVE_STATUSES /\ m \notin lockingOrders

handleTradeOffer(f) ==
    LET m == handlers[f].maker IN
    /\ Arrives(f)
    /\ mem[m] # "none"
    /\ NotLocked(m)
    /\ clock < Expiry[m] /\ clock < Expiry[handlers[f].taker]
    /\ Cardinality(InFlight(Owner[m])) < maxConcurrentAuthorizeOffers
    /\ \/ /\ verifyOrderProofs[Owner[m]]
          /\ handlers' = [handlers EXCEPT ![f].at = "verifying"]
          /\ Hold(MakerTask[f], {m})
          /\ UNCHANGED <<Untouched, raced, sub, row, mem, slots, lockingOrders, offers>>
       \/ /\ ~verifyOrderProofs[Owner[m]]
          /\ LockMaker(f, mem[m], {m})
          /\ UNCHANGED raced

(* The proof is checked during an await; the order is not looked at again. *)
ProofVerified(f) ==
    LET m == handlers[f].maker
        reach == held[MakerTask[f]]
    IN /\ handlers[f].at = "verifying"
       /\ LockMaker(f, IF m \in reach THEN mem[m] ELSE handlers[f].prior, reach)
       /\ raced' = IF m \in reach /\ NotLocked(m) THEN raced ELSE raced \cup {m}

ProofRefused(f) ==
    /\ handlers[f].at = "verifying"
    /\ HandlerEnds(f)
    /\ \E a \in {"rejected", "error"} : Reply(f, a)
    /\ Hold(MakerTask[f], {})
    /\ UNCHANGED <<Untouched, raced, sub, row, mem, slots, lockingOrders>>

MakerEnd(f, s) ==
    LET m == handlers[f].maker IN
    /\ handlers[f].at = "settling"
    /\ sub[MakerTask[f]].at = "done"
    /\ Collected(MakerTask[f])
    /\ mem' = Set(mem, held[MakerTask[f]], s)
    /\ row' = Marked(row, {m}, s)
    /\ lockingOrders' = lockingOrders \ {m}
    /\ Hold(MakerTask[f], {})
    /\ HandlerEnds(f)
    /\ UNCHANGED <<Untouched, raced>>

MakerSettled(f) ==
    /\ sub[MakerTask[f]].out = "settled"
    /\ MakerEnd(f, "settled")
    /\ slots' = decPubKeyCount({handlers[f].maker})
    /\ Reply(f, "settled")

(* Mutant: the row stays matched after an error. *)
LeftMatched(f) == "matched"
RestoredStatus(f) == handlers[f].prior

MakerFailed(f) ==
    /\ sub[MakerTask[f]].out \in Errors
    /\ MakerEnd(f, RestoredStatus(f))
    /\ UNCHANGED slots
    /\ Reply(f, "error")
-----------------------------------------------------------------------------
(* The queue beside it: an entry a verifying handler holds may leave.      *)
LastStatus(m) == IF mem[m] \in LIVE_STATUSES /\ row'[m] = "cancelled" THEN "cancelled" ELSE mem[m]
QueueBeside ==
    /\ QueueStep
    /\ handlers' = [f \in Offers |->
          LET m == handlers[f].maker IN
          IF handlers[f].at = "verifying" /\ m \in held[MakerTask[f]] \ held'[MakerTask[f]]
          THEN [handlers[f] EXCEPT !.prior = LastStatus(m)] ELSE handlers[f]]
    /\ UNCHANGED <<lockingOrders, offers, history>>

(* An offer is at work on the order, at its own relayer.                   *)
AsksFor(f, o) == offers[f].at = "asking" /\ offers[f].taker = o
SettlesFor(f, o) == handlers[f].at = "settling" /\ handlers[f].maker = o
Locked(o) == \E f \in Offers : AsksFor(f, o) \/ SettlesFor(f, o)

CrashBeside(r) ==
    /\ Crash(r)
    /\ lockingOrders' = lockingOrders \ Own(r)
    /\ offers' = [f \in Offers |-> IF RelayerOf[TakerTask[f]] = r THEN NoOffer ELSE offers[f]]
    /\ handlers' = [f \in Offers |-> IF RelayerOf[MakerTask[f]] = r THEN NoHandler ELSE handlers[f]]
    /\ orphaned' = orphaned \cup {o \in Own(r) : Locked(o)}
    /\ UNCHANGED raced

OfferSubmission(f) == TaskStep(MakerTask[f]) /\ UNCHANGED <<queueVars, crossVars>>

OfferStep(f) ==
    \/ TakerSettled(f) \/ TakerRestored(f)
    \/ RequestLost(f) \/ OfferRefused(f)
    \/ handleTradeOffer(f) \/ ProofVerified(f) \/ ProofRefused(f)
    \/ MakerSettled(f) \/ MakerFailed(f)
    \/ OfferSubmission(f)

CrossNext ==
    \/ QueueBeside
    \/ \E r \in Relayers : CrashBeside(r)
    \/ \E f \in Offers, t, m \in Orders : onRemoteOrderArrived(f, t, m)
    \/ \E f \in Offers : OfferStep(f)

(* As for the queue; both sides of an offer run on after their awaits,     *)
(* which end: the request by its timeout, the submission by sendAndWait's. *)
CrossFairness ==
    /\ WF_crossAll(Tick /\ UNCHANGED <<queueVars, crossVars>>)
    /\ \A r \in Relayers :
          /\ WF_crossAll((sweepExpired(r) \/ Boot(r)) /\ UNCHANGED crossVars)
          /\ WF_crossAll((JobSettled(r) \/ JobFailed(r) \/ JobRetried(r)) /\ UNCHANGED crossVars)
          /\ WF_crossAll(Submission(r) /\ UNCHANGED crossVars)
    /\ \A f \in Offers :
          /\ WF_crossAll(TakerSettled(f) \/ TakerRestored(f))
          /\ WF_crossAll(ProofVerified(f) \/ ProofRefused(f))
          /\ WF_crossAll(MakerSettled(f) \/ MakerFailed(f))
          /\ WF_crossAll(OfferSubmission(f))

CrossSpec == CrossInit /\ [][CrossNext]_crossAll /\ CrossFairness
-----------------------------------------------------------------------------
(* Properties.                                                             *)

(* Types of the offers; a handler whose order is locked has a submission.  *)
CrossTypeOK ==
    /\ QueueTypeOK
    /\ lockingOrders \subseteq Orders
    /\ \A f \in Offers :
          /\ offers[f].at \in {"idle", "asking"}
          /\ offers[f].ans \in {"none", "settled", "rejected", "error"}
          /\ offers[f].prior \in Statuses \cup {"none"}
          /\ handlers[f].at \in {"idle", "sent", "verifying", "settling"}
          /\ handlers[f].at = "settling" <=> sub[MakerTask[f]].at # "idle"
    /\ raced \cup orphaned \subseteq Orders

(* No relayer has two of its tasks submit the same order of its own.       *)
SubmittedOnce(o) ==
    \A t, u \in Tasks :
        RelayerOf[t] = Owner[o] /\ RelayerOf[u] = Owner[o]
        /\ o \in sub[t].orders \cap sub[u].orders => t = u

(* In-flight and terminal orders are refused so that a double settlement   *)
(* cannot race, whether proofs are verified or not: an order is in two     *)
(* submissions at a time only after a handler locked it on the word of a   *)
(* check that the await of the proof had made untrue (raced).              *)
OneSubmissionPerOrder ==
    \A o \in Orders : SubmittedOnce(o) \/ (o \in raced /\ verifyOrderProofs[Owner[o]])

(* The same without the exception, as the comment on the check has it:     *)
(* "In-flight / terminal rows stay rejected so a double-settle can't race".*)
NoDoubleSettle == \A o \in Orders : SubmittedOnce(o)

AtWork(o) == o \in worker[Owner[o]].orders \/ Locked(o)
Stuck(o) == "matched" \in {row[o], mem[o]} /\ ~AtWork(o)

(* No order is left in matched, from which nothing would take it again:    *)
(* while it says so, in the map or in the table, its worker or an offer is *)
(* at work and will write it once more.  The only ways to lose it are a    *)
(* lock on the word of a stale check, and a crash of its relayer while an  *)
(* offer was at work on it.                                                *)
NoStuckMatched == \A o \in Orders : Stuck(o) => o \in raced \cup orphaned

(* The same without the exceptions, as the comment on the error path has   *)
(* it: "Don't leave the maker stuck in matched".                           *)
NeverStuck == \A o \in Orders : ~Stuck(o)

(* Whatever peers, the chain and the users do and wherever a relayer       *)
(* crashes, every order reaches a final status or leaves the table.  What  *)
(* does not is left in matched, in the two ways named above, or in         *)
(* pending: a failed settlement puts that into the map, an offer that      *)
(* fails later copies it into the table, and neither the worker nor the    *)
(* sweep takes such a row.                                                 *)
OrdersEnd ==
    <>[](\A o \in Orders : \/ row[o] \in TERMINAL_STATUSES \cup {"none"}
                           \/ row[o] = "matched" /\ o \in raced \cup orphaned
                           \/ row[o] = "pending")

(* A row that no offer holds can be taken by the worker: "restore the      *)
(* captured prior live-queue status in both memory AND the DB so the local *)
(* SettlementWorker (or a future remote tick) can retry it".               *)
RestoredIsClaimable ==
    \A o \in Orders : row[o] \in LIVE_STATUSES => row[o] \in {"accepted", "retrying"}

(* An order is reported settled only if its nullifier was consumed on      *)
(* chain, whatever a peer answers and however late.                        *)
SettledRowIsOnChain == \A o \in Orders : row[o] = "settled" => o \in spent

(* A row is settled only if the chain settled the order, also where a      *)
(* peer's word was all that spoke for it.                                  *)
RowsFollowTheChain == CrossTypeOK /\ SettledRowIsOnChain
=============================================================================
