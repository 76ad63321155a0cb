---------------------------- MODULE MobileProofs ----------------------------
(***************************************************************************)
(* The mobile wallet keeps what it needs to recover the money of one       *)
(* escrow, for every number of attempts, of faults, and whatever the user  *)
(* does.  The invariant has two layers.  WalletFacts holds in every        *)
(* behaviour: an attempt keeps its kind, the escrow is spent once, and an  *)
(* order's secrets are stored before its escrow is marked spent.           *)
(* CalmFacts holds while nothing has gone wrong: what is sent is awaited   *)
(* by the flow in the foreground, the relayer has at most one order of     *)
(* this escrow, so that what the poll applies is still true, and a note    *)
(* or a secret the money needs is stored or still to be stored by the      *)
(* flow that is running.                                                   *)
(*                                                                         *)
(* The second part is the store of claim secrets, for any number of        *)
(* storage operations that overlap: no claim loses its payloads, and none  *)
(* its index entry but by a write from an older copy, whenever the app is  *)
(* closed.                                                                 *)
(***************************************************************************)
EXTENDS MobileWallet, ClaimStore, FiniteSetTheorems, SequenceTheorems,
        WellFoundedInduction, TLAPS

Numbers == 0 .. MaxAttempts
FlowKinds == {"deposit", "order", "market", "cancel"}
Statuses == {"none", "live"} \cup Ended
NoteRecords == [status : {"none", "pending", "active", "spent"}, leaf : BOOLEAN, indexed : BOOLEAN]
RowRecords == [status : Statuses, v : Numbers]
Pcs == {"idle", "mine", "post", "spent", "claims", "trade", "blob", "index", "track", "drop", "mark"}
FlowRecords == [kind : FlowKinds \cup {"none"}, v : Numbers, pc : Pcs, reply : Statuses]
PollRecords == [pc : {"idle", "apply", "drop"}, status : Statuses]

\* The steps each kind of flow has.
PcsOf(k) ==
    CASE k = "deposit" -> {"mine", "blob", "index"}
      [] k = "order"   -> {"post", "claims", "spent", "trade", "blob", "index", "track"}
      [] k = "market"  -> {"mine", "spent", "blob", "index", "claims"}
      [] k = "cancel"  -> {"mine", "spent", "blob", "index", "drop", "mark"}

WalletTyped ==
    /\ onChain \subseteq Numbers /\ spentBy \in Numbers
    /\ mempool \subseteq Numbers /\ net \subseteq Attempts
    /\ claims \subseteq Attempts /\ trades \subseteq Attempts
    /\ row \in RowRecords /\ relayer \in RowRecords
    /\ kind \in [Numbers -> FlowKinds \cup {"none"}]
    /\ attempt \in Numbers
    /\ notes \in [Numbers -> NoteRecords]
    /\ flow \in FlowRecords /\ poll \in PollRecords
    /\ faults \in 0 .. MaxFaults

\* The flow in the foreground is the last attempt's.
FlowIsTheLast ==
    flow = NoFlow \/ /\ flow.kind \in FlowKinds /\ flow.pc \in PcsOf(flow.kind)
                     /\ flow.v = attempt /\ flow.kind = kind[attempt]

\* An attempt gets its kind once; only orders reach the relayer and have
\* trade records.
KindsAreFixed ==
    /\ kind[0] = "deposit"
    /\ \A v \in Attempts : kind[v] # "deposit" /\ (v > attempt <=> kind[v] = "none")
    /\ \A v \in net \cup trades : kind[v] = "order"
    /\ relayer.status # "none" => relayer.v \in Attempts /\ kind[relayer.v] = "order"

\* Whoever acts on the chain or at the relayer was tried.
OnlyTriedActs == \A v \in onChain \cup mempool \cup {spentBy} : v <= attempt

\* The escrow is mined once, before anything is tried with it, and one attempt
\* at most spends it.
EscrowIsOne ==
    /\ onChain \subseteq {0, spentBy} /\ (spentBy # 0 => spentBy \in onChain)
    /\ 0 \in onChain => 0 \notin mempool
    /\ attempt > 0 \/ notes[0].leaf \/ (flow.kind = "deposit" /\ flow.pc # "mine") => 0 \in onChain

\* A flow that is past its first writes has made them.
FlowHasWritten ==
    /\ flow.kind = "order" /\ flow.pc \in {"spent", "trade", "blob", "index", "track"} => flow.v \in claims
    /\ flow.kind = "cancel" /\ flow.pc # "mine" => spentBy = flow.v

WalletFacts ==
    /\ WalletTyped /\ FlowIsTheLast /\ KindsAreFixed /\ OnlyTriedActs
    /\ EscrowIsOne /\ FlowHasWritten /\ SpentHasClaims

-----------------------------------------------------------------------------

\* What was sent is awaited; the relayer knows of an order only once its POST
\* has arrived, and of one order only.
SentIsAwaited ==
    /\ \A v \in mempool : flow.v = v /\ flow.pc = "mine"
    /\ \A v \in net : flow.v = v /\ flow.pc = "post" /\ relayer.status = "none"
    /\ flow.pc = "post" => flow.v \in net \/ (relayer.status # "none" /\ relayer.v = flow.v /\ flow.reply = "live")
    /\ relayer.status # "none" =>
           \/ notes[0].status = "spent"
           \/ flow.kind = "order" /\ flow.v = relayer.v /\ flow.pc \in {"post", "claims", "spent"}

\* An order that spent the escrow is the one the relayer settled, and what the
\* poll fetched of an order that is over is still true.
RelayerIsRight ==
    /\ kind[spentBy] = "order" => relayer.status = "settled" /\ relayer.v = spentBy
    /\ poll.status \in Ended => relayer.status = poll.status
    /\ poll.pc = "drop" => RollsBack(poll.status)

\* The deposit's note is stored, or its flow is running.
DepositIsHeld ==
    /\ 0 \in onChain => Listed(0) \/ flow.kind = "deposit"
    /\ flow.kind = "deposit" /\ flow.pc = "mine" => 0 \in mempool \cup onChain
    /\ flow.kind = "deposit" /\ flow.pc = "index" => notes[0].status # "none"

\* The attempt the money depends on: the one that spent the escrow, or the
\* order that still may.
Matters(v) == v = spentBy \/ (spentBy = 0 /\ relayer.status = "live" /\ v = relayer.v)

NoteComes(v) ==
    /\ flow.v = v
    /\ \/ flow.pc \in {"mine", "post", "spent", "trade", "blob"}
       \/ flow.pc = "claims" /\ flow.kind = "order"
       \/ flow.pc = "index" /\ notes[v].status # "none"

SecretsCome(v) ==
    /\ flow.v = v
    /\ \/ flow.kind = "order" /\ flow.pc \in {"post", "claims"}
       \/ flow.kind = "market"

NoteIsHeld == \A v \in Attempts : Matters(v) => Listed(v) \/ NoteComes(v)
SecretsAreHeld == \A v \in Attempts : Matters(v) /\ kind[v] # "cancel" => v \in claims \/ SecretsCome(v)

CalmFacts == SentIsAwaited /\ RelayerIsRight /\ DepositIsHeld /\ NoteIsHeld /\ SecretsAreHeld

\* The inductive invariant.
WalletInv == WalletFacts /\ (faults = MaxFaults => CalmFacts)

-----------------------------------------------------------------------------
(* Where a flow goes. *)

\* The step after the one a flow is at, "idle" after its last.
After(k, pc) ==
    CASE k = "deposit" /\ pc = "mine"  -> "blob"
      [] k = "deposit" /\ pc = "blob"  -> "index"
      [] k = "order"  /\ pc = "post"   -> "claims"
      [] k = "order"  /\ pc = "claims" -> "spent"
      [] k = "order"  /\ pc = "spent"  -> "trade"
      [] k = "order"  /\ pc = "trade"  -> "blob"
      [] k = "order"  /\ pc = "blob"   -> "index"
      [] k = "order"  /\ pc = "index"  -> "track"
      [] k = "market" /\ pc = "mine"   -> "spent"
      [] k = "market" /\ pc = "spent"  -> "blob"
      [] k = "market" /\ pc = "blob"   -> "index"
      [] k = "market" /\ pc = "index"  -> "claims"
      [] k = "cancel" /\ pc = "mine"   -> "spent"
      [] k = "cancel" /\ pc = "spent"  -> "blob"
      [] k = "cancel" /\ pc = "blob"   -> "index"
      [] k = "cancel" /\ pc = "index"  -> "drop"
      [] k = "cancel" /\ pc = "drop"   -> "mark"
      [] OTHER -> "idle"

\* No flow does one step twice, so the place of a step is the one it has in
\* Steps (DepositService, OrderService, MarketOrderService, CancelService).
LEMMA StepsAreDistinct ==
  ASSUME NEW k \in FlowKinds
  PROVE  \A i, j \in DOMAIN Steps(k) : Steps(k)[i] = Steps(k)[j] => i = j
<1>1. CASE k = "deposit"
  BY <1>1 DEF Steps
<1>2. CASE k = "order"
  BY <1>2 DEF Steps
<1>3. CASE k = "market"
  BY <1>3 DEF Steps
<1>4. CASE k = "cancel"
  BY <1>4 DEF Steps
<1>q. QED BY <1>1, <1>2, <1>3, <1>4 DEF FlowKinds

\* Resume from the i-th step of a flow is its next step.
LEMMA ResumeFrom ==
  ASSUME flow.kind \in FlowKinds, NEW i \in DOMAIN Steps(flow.kind), flow.pc = Steps(flow.kind)[i]
  PROVE  Resume = IF i = Len(Steps(flow.kind)) THEN NoFlow ELSE [flow EXCEPT !.pc = Steps(flow.kind)[i + 1]]
<1> DEFINE at == CHOOSE j \in DOMAIN Steps(flow.kind) : Steps(flow.kind)[j] = flow.pc
<1>1. at \in DOMAIN Steps(flow.kind) /\ Steps(flow.kind)[at] = flow.pc
  OBVIOUS
<1>2. at = i
  <2> HIDE DEF at
  <2>q. QED BY <1>1, StepsAreDistinct
<1>q. QED BY <1>2 DEF Resume

\* The same, as a table.
LEMMA ResumeIsNext ==
  ASSUME flow.kind \in FlowKinds, flow.pc \in PcsOf(flow.kind)
  PROVE  Resume = IF After(flow.kind, flow.pc) = "idle" THEN NoFlow ELSE [flow EXCEPT !.pc = After(flow.kind, flow.pc)]
<1>1. CASE flow.kind = "deposit"
  <2>1. Steps(flow.kind) = <<"mine", "blob", "index">>
    BY <1>1 DEF Steps
  <2>2. CASE flow.pc = "mine"
    <3>1. 1 \in DOMAIN Steps(flow.kind) /\ flow.pc = Steps(flow.kind)[1] /\ Len(Steps(flow.kind)) = 3
      BY <2>1, <2>2
    <3>2. Resume = [flow EXCEPT !.pc = "blob"]
      BY <2>1, <3>1, ResumeFrom
    <3>3. After(flow.kind, flow.pc) = "blob"
      BY <1>1, <2>2 DEF After
    <3>q. QED BY <3>2, <3>3
  <2>3. CASE flow.pc = "blob"
    <3>1. 2 \in DOMAIN Steps(flow.kind) /\ flow.pc = Steps(flow.kind)[2] /\ Len(Steps(flow.kind)) = 3
      BY <2>1, <2>3
    <3>2. Resume = [flow EXCEPT !.pc = "index"]
      BY <2>1, <3>1, ResumeFrom
    <3>3. After(flow.kind, flow.pc) = "index"
      BY <1>1, <2>3 DEF After
    <3>q. QED BY <3>2, <3>3
  <2>4. CASE flow.pc = "index"
    <3>1. 3 \in DOMAIN Steps(flow.kind) /\ flow.pc = Steps(flow.kind)[3] /\ Len(Steps(flow.kind)) = 3
      BY <2>1, <2>4
    <3>2. Resume = NoFlow
      BY <2>1, <3>1, ResumeFrom
    <3>3. After(flow.kind, flow.pc) = "idle"
      BY <1>1, <2>4 DEF After
    <3>q. QED BY <3>2, <3>3
  <2>q. QED BY <1>1, <2>2, <2>3, <2>4 DEF PcsOf
<1>2. CASE flow.kind = "order"
  <2>1. Steps(flow.kind) = <<"post", "claims", "spent", "trade", "blob", "index", "track">>
    BY <1>2 DEF Steps
  <2>2. CASE flow.pc = "post"
    <3>1. 1 \in DOMAIN Steps(flow.kind) /\ flow.pc = Steps(flow.kind)[1] /\ Len(Steps(flow.kind)) = 7
      BY <2>1, <2>2
    <3>2. Resume = [flow EXCEPT !.pc = "claims"]
      BY <2>1, <3>1, ResumeFrom
    <3>3. After(flow.kind, flow.pc) = "claims"
      BY <1>2, <2>2 DEF After
    <3>q. QED BY <3>2, <3>3
  <2>3. CASE flow.pc = "claims"
    <3>1. 2 \in DOMAIN Steps(flow.kind) /\ flow.pc = Steps(flow.kind)[2] /\ Len(Steps(flow.kind)) = 7
      BY <2>1, <2>3
    <3>2. Resume = [flow EXCEPT !.pc = "spent"]
      BY <2>1, <3>1, ResumeFrom
    <3>3. After(flow.kind, flow.pc) = "spent"
      BY <1>2, <2>3 DEF After
    <3>q. QED BY <3>2, <3>3
  <2>4. CASE flow.pc = "spent"
    <3>1. 3 \in DOMAIN Steps(flow.kind) /\ flow.pc = Steps(flow.kind)[3] /\ Len(Steps(flow.kind)) = 7
      BY <2>1, <2>4
    <3>2. Resume = [flow EXCEPT !.pc = "trade"]
      BY <2>1, <3>1, ResumeFrom
    <3>3. After(flow.kind, flow.pc) = "trade"
      BY <1>2, <2>4 DEF After
    <3>q. QED BY <3>2, <3>3
  <2>5. CASE flow.pc = "trade"
    <3>1. 4 \in DOMAIN Steps(flow.kind) /\ flow.pc = Steps(flow.kind)[4] /\ Len(Steps(flow.kind)) = 7
      BY <2>1, <2>5
    <3>2. Resume = [flow EXCEPT !.pc = "blob"]
      BY <2>1, <3>1, ResumeFrom
    <3>3. After(flow.kind, flow.pc) = "blob"
      BY <1>2, <2>5 DEF After
    <3>q. QED BY <3>2, <3>3
  <2>6. CASE flow.pc = "blob"
    <3>1. 5 \in DOMAIN Steps(flow.kind) /\ flow.pc = Steps(flow.kind)[5] /\ Len(Steps(flow.kind)) = 7
      BY <2>1, <2>6
    <3>2. Resume = [flow EXCEPT !.pc = "index"]
      BY <2>1, <3>1, ResumeFrom
    <3>3. After(flow.kind, flow.pc) = "index"
      BY <1>2, <2>6 DEF After
    <3>q. QED BY <3>2, <3>3
  <2>7. CASE flow.pc = "index"
    <3>1. 6 \in DOMAIN Steps(flow.kind) /\ flow.pc = Steps(flow.kind)[6] /\ Len(Steps(flow.kind)) = 7
      BY <2>1, <2>7
    <3>2. Resume = [flow EXCEPT !.pc = "track"]
      BY <2>1, <3>1, ResumeFrom
    <3>3. After(flow.kind, flow.pc) = "track"
      BY <1>2, <2>7 DEF After
    <3>q. QED BY <3>2, <3>3
  <2>8. CASE flow.pc = "track"
    <3>1. 7 \in DOMAIN Steps(flow.kind) /\ flow.pc = Steps(flow.kind)[7] /\ Len(Steps(flow.kind)) = 7
      BY <2>1, <2>8
    <3>2. Resume = NoFlow
      BY <2>1, <3>1, ResumeFrom
    <3>3. After(flow.kind, flow.pc) = "idle"
      BY <1>2, <2>8 DEF After
    <3>q. QED BY <3>2, <3>3
  <2>q. QED BY <1>2, <2>2, <2>3, <2>4, <2>5, <2>6, <2>7, <2>8 DEF PcsOf
<1>3. CASE flow.kind = "market"
  <2>1. Steps(flow.kind) = <<"mine", "spent", "blob", "index", "claims">>
    BY <1>3 DEF Steps
  <2>2. CASE flow.pc = "mine"
    <3>1. 1 \in DOMAIN Steps(flow.kind) /\ flow.pc = Steps(flow.kind)[1] /\ Len(Steps(flow.kind)) = 5
      BY <2>1, <2>2
    <3>2. Resume = [flow EXCEPT !.pc = "spent"]
      BY <2>1, <3>1, ResumeFrom
    <3>3. After(flow.kind, flow.pc) = "spent"
      BY <1>3, <2>2 DEF After
    <3>q. QED BY <3>2, <3>3
  <2>3. CASE flow.pc = "spent"
    <3>1. 2 \in DOMAIN Steps(flow.kind) /\ flow.pc = Steps(flow.kind)[2] /\ Len(Steps(flow.kind)) = 5
      BY <2>1, <2>3
    <3>2. Resume = [flow EXCEPT !.pc = "blob"]
      BY <2>1, <3>1, ResumeFrom
    <3>3. After(flow.kind, flow.pc) = "blob"
      BY <1>3, <2>3 DEF After
    <3>q. QED BY <3>2, <3>3
  <2>4. CASE flow.pc = "blob"
    <3>1. 3 \in DOMAIN Steps(flow.kind) /\ flow.pc = Steps(flow.kind)[3] /\ Len(Steps(flow.kind)) = 5
      BY <2>1, <2>4
    <3>2. Resume = [flow EXCEPT !.pc = "index"]
      BY <2>1, <3>1, ResumeFrom
    <3>3. After(flow.kind, flow.pc) = "index"
      BY <1>3, <2>4 DEF After
    <3>q. QED BY <3>2, <3>3
  <2>5. CASE flow.pc = "index"
    <3>1. 4 \in DOMAIN Steps(flow.kind) /\ flow.pc = Steps(flow.kind)[4] /\ Len(Steps(flow.kind)) = 5
      BY <2>1, <2>5
    <3>2. Resume = [flow EXCEPT !.pc = "claims"]
      BY <2>1, <3>1, ResumeFrom
    <3>3. After(flow.kind, flow.pc) = "claims"
      BY <1>3, <2>5 DEF After
    <3>q. QED BY <3>2, <3>3
  <2>6. CASE flow.pc = "claims"
    <3>1. 5 \in DOMAIN Steps(flow.kind) /\ flow.pc = Steps(flow.kind)[5] /\ Len(Steps(flow.kind)) = 5
      BY <2>1, <2>6
    <3>2. Resume = NoFlow
      BY <2>1, <3>1, ResumeFrom
    <3>3. After(flow.kind, flow.pc) = "idle"
      BY <1>3, <2>6 DEF After
    <3>q. QED BY <3>2, <3>3
  <2>q. QED BY <1>3, <2>2, <2>3, <2>4, <2>5, <2>6 DEF PcsOf
<1>4. CASE flow.kind = "cancel"
  <2>1. Steps(flow.kind) = <<"mine", "spent", "blob", "index", "drop", "mark">>
    BY <1>4 DEF Steps
  <2>2. CASE flow.pc = "mine"
    <3>1. 1 \in DOMAIN Steps(flow.kind) /\ flow.pc = Steps(flow.kind)[1] /\ Len(Steps(flow.kind)) = 6
      BY <2>1, <2>2
    <3>2. Resume = [flow EXCEPT !.pc = "spent"]
      BY <2>1, <3>1, ResumeFrom
    <3>3. After(flow.kind, flow.pc) = "spent"
      BY <1>4, <2>2 DEF After
    <3>q. QED BY <3>2, <3>3
  <2>3. CASE flow.pc = "spent"
    <3>1. 2 \in DOMAIN Steps(flow.kind) /\ flow.pc = Steps(flow.kind)[2] /\ Len(Steps(flow.kind)) = 6
      BY <2>1, <2>3
    <3>2. Resume = [flow EXCEPT !.pc = "blob"]
      BY <2>1, <3>1, ResumeFrom
    <3>3. After(flow.kind, flow.pc) = "blob"
      BY <1>4, <2>3 DEF After
    <3>q. QED BY <3>2, <3>3
  <2>4. CASE flow.pc = "blob"
    <3>1. 3 \in DOMAIN Steps(flow.kind) /\ flow.pc = Steps(flow.kind)[3] /\ Len(Steps(flow.kind)) = 6
      BY <2>1, <2>4
    <3>2. Resume = [flow EXCEPT !.pc = "index"]
      BY <2>1, <3>1, ResumeFrom
    <3>3. After(flow.kind, flow.pc) = "index"
      BY <1>4, <2>4 DEF After
    <3>q. QED BY <3>2, <3>3
  <2>5. CASE flow.pc = "index"
    <3>1. 4 \in DOMAIN Steps(flow.kind) /\ flow.pc = Steps(flow.kind)[4] /\ Len(Steps(flow.kind)) = 6
      BY <2>1, <2>5
    <3>2. Resume = [flow EXCEPT !.pc = "drop"]
      BY <2>1, <3>1, ResumeFrom
    <3>3. After(flow.kind, flow.pc) = "drop"
      BY <1>4, <2>5 DEF After
    <3>q. QED BY <3>2, <3>3
  <2>6. CASE flow.pc = "drop"
    <3>1. 5 \in DOMAIN Steps(flow.kind) /\ flow.pc = Steps(flow.kind)[5] /\ Len(Steps(flow.kind)) = 6
      BY <2>1, <2>6
    <3>2. Resume = [flow EXCEPT !.pc = "mark"]
      BY <2>1, <3>1, ResumeFrom
    <3>3. After(flow.kind, flow.pc) = "mark"
      BY <1>4, <2>6 DEF After
    <3>q. QED BY <3>2, <3>3
  <2>7. CASE flow.pc = "mark"
    <3>1. 6 \in DOMAIN Steps(flow.kind) /\ flow.pc = Steps(flow.kind)[6] /\ Len(Steps(flow.kind)) = 6
      BY <2>1, <2>7
    <3>2. Resume = NoFlow
      BY <2>1, <3>1, ResumeFrom
    <3>3. After(flow.kind, flow.pc) = "idle"
      BY <1>4, <2>7 DEF After
    <3>q. QED BY <3>2, <3>3
  <2>q. QED BY <1>4, <2>2, <2>3, <2>4, <2>5, <2>6, <2>7 DEF PcsOf
<1>q. QED BY <1>1, <1>2, <1>3, <1>4 DEF FlowKinds

\* The fields of the flow when it goes on with its next step, whatever the
\* step is (the awaits of DepositService, OrderService, MarketOrderService and
\* CancelService come back in program order).
GoesOn(pc) ==
    /\ flow'.kind = flow.kind /\ flow'.v = flow.v /\ flow'.reply = flow.reply
    /\ flow'.pc = pc
Stops == flow' = NoFlow

LEMMA FlowMoves ==
  ASSUME WalletTyped, FlowIsTheLast, flow.pc # "idle", flow' = Resume
  PROVE  /\ flow' \in FlowRecords
         /\ flow.pc = "mine"   => \/ flow.kind = "deposit" /\ GoesOn("blob")
                                  \/ flow.kind \in {"market", "cancel"} /\ GoesOn("spent")
         /\ flow.pc = "post"   => flow.kind = "order" /\ GoesOn("claims")
         /\ flow.pc = "claims" => (flow.kind = "order" /\ GoesOn("spent")) \/ (flow.kind = "market" /\ Stops)
         /\ flow.pc = "spent"  => \/ flow.kind = "order" /\ GoesOn("trade")
                                  \/ flow.kind \in {"market", "cancel"} /\ GoesOn("blob")
         /\ flow.pc = "trade"  => flow.kind = "order" /\ GoesOn("blob")
         /\ flow.pc = "blob"   => flow.kind \in FlowKinds /\ GoesOn("index")
         /\ flow.pc = "index"  => \/ flow.kind = "deposit" /\ Stops
                                  \/ flow.kind = "order" /\ GoesOn("track")
                                  \/ flow.kind = "market" /\ GoesOn("claims")
                                  \/ flow.kind = "cancel" /\ GoesOn("drop")
         /\ flow.pc = "track"  => flow.kind = "order" /\ Stops
         /\ flow.pc = "drop"   => flow.kind = "cancel" /\ GoesOn("mark")
         /\ flow.pc = "mark"   => flow.kind = "cancel" /\ Stops
<1>1. flow.kind \in FlowKinds /\ flow.pc \in PcsOf(flow.kind) /\ flow \in FlowRecords
  BY DEF FlowIsTheLast, NoFlow, WalletTyped
<1>2. flow' = IF After(flow.kind, flow.pc) = "idle" THEN NoFlow ELSE [flow EXCEPT !.pc = After(flow.kind, flow.pc)]
  BY <1>1, ResumeIsNext
<1>3. NoFlow \in FlowRecords
  BY WalletAssumption DEF NoFlow, FlowRecords, Pcs, Statuses, Numbers
<1>4. ASSUME NEW pc \in Pcs \ {"idle"}, After(flow.kind, flow.pc) = pc
      PROVE  flow' \in FlowRecords /\ GoesOn(pc)
  BY <1>1, <1>2, <1>4 DEF FlowRecords, GoesOn
<1>5. ASSUME After(flow.kind, flow.pc) = "idle"
      PROVE  flow' \in FlowRecords /\ Stops
  BY <1>2, <1>3, <1>5 DEF Stops
<1>6. CASE flow.kind = "deposit"
  <2>1. CASE flow.pc = "mine"
    <3>1. After(flow.kind, flow.pc) = "blob"
      BY <1>6, <2>1 DEF After
    <3>2. flow' \in FlowRecords /\ GoesOn("blob")
      BY <1>4, <3>1 DEF Pcs
    <3>q. QED BY <1>6, <2>1, <3>2 DEF FlowKinds
  <2>2. CASE flow.pc = "blob"
    <3>1. After(flow.kind, flow.pc) = "index"
      BY <1>6, <2>2 DEF After
    <3>2. flow' \in FlowRecords /\ GoesOn("index")
      BY <1>4, <3>1 DEF Pcs
    <3>q. QED BY <1>6, <2>2, <3>2 DEF FlowKinds
  <2>3. CASE flow.pc = "index"
    <3>1. After(flow.kind, flow.pc) = "idle"
      BY <1>6, <2>3 DEF After
    <3>2. flow' \in FlowRecords /\ Stops
      BY <1>5, <3>1
    <3>q. QED BY <1>6, <2>3, <3>2 DEF FlowKinds
  <2>q. QED BY <1>1, <1>6, <2>1, <2>2, <2>3 DEF PcsOf
<1>7. CASE flow.kind = "order"
  <2>1. CASE flow.pc = "post"
    <3>1. After(flow.kind, flow.pc) = "claims"
      BY <1>7, <2>1 DEF After
    <3>2. flow' \in FlowRecords /\ GoesOn("claims")
      BY <1>4, <3>1 DEF Pcs
    <3>q. QED BY <1>7, <2>1, <3>2 DEF FlowKinds
  <2>2. CASE flow.pc = "claims"
    <3>1. After(flow.kind, flow.pc) = "spent"
      BY <1>7, <2>2 DEF After
    <3>2. flow' \in FlowRecords /\ GoesOn("spent")
      BY <1>4, <3>1 DEF Pcs
    <3>q. QED BY <1>7, <2>2, <3>2 DEF FlowKinds
  <2>3. CASE flow.pc = "spent"
    <3>1. After(flow.kind, flow.pc) = "trade"
      BY <1>7, <2>3 DEF After
    <3>2. flow' \in FlowRecords /\ GoesOn("trade")
      BY <1>4, <3>1 DEF Pcs
    <3>q. QED BY <1>7, <2>3, <3>2 DEF FlowKinds
  <2>4. CASE flow.pc = "trade"
    <3>1. After(flow.kind, flow.pc) = "blob"
      BY <1>7, <2>4 DEF After
    <3>2. flow' \in FlowRecords /\ GoesOn("blob")
      BY <1>4, <3>1 DEF Pcs
    <3>q. QED BY <1>7, <2>4, <3>2 DEF FlowKinds
  <2>5. CASE flow.pc = "blob"
    <3>1. After(flow.kind, flow.pc) = "index"
      BY <1>7, <2>5 DEF After
    <3>2. flow' \in FlowRecords /\ GoesOn("index")
      BY <1>4, <3>1 DEF Pcs
    <3>q. QED BY <1>7, <2>5, <3>2 DEF FlowKinds
  <2>6. CASE flow.pc = "index"
    <3>1. After(flow.kind, flow.pc) = "track"
      BY <1>7, <2>6 DEF After
    <3>2. flow' \in FlowRecords /\ GoesOn("track")
      BY <1>4, <3>1 DEF Pcs
    <3>q. QED BY <1>7, <2>6, <3>2 DEF FlowKinds
  <2>7. CASE flow.pc = "track"
    <3>1. After(flow.kind, flow.pc) = "idle"
      BY <1>7, <2>7 DEF After
    <3>2. flow' \in FlowRecords /\ Stops
      BY <1>5, <3>1
    <3>q. QED BY <1>7, <2>7, <3>2 DEF FlowKinds
  <2>q. QED BY <1>1, <1>7, <2>1, <2>2, <2>3, <2>4, <2>5, <2>6, <2>7 DEF PcsOf
<1>8. CASE flow.kind = "market"
  <2>1. CASE flow.pc = "mine"
    <3>1. After(flow.kind, flow.pc) = "spent"
      BY <1>8, <2>1 DEF After
    <3>2. flow' \in FlowRecords /\ GoesOn("spent")
      BY <1>4, <3>1 DEF Pcs
    <3>q. QED BY <1>8, <2>1, <3>2 DEF FlowKinds
  <2>2. CASE flow.pc = "spent"
    <3>1. After(flow.kind, flow.pc) = "blob"
      BY <1>8, <2>2 DEF After
    <3>2. flow' \in FlowRecords /\ GoesOn("blob")
      BY <1>4, <3>1 DEF Pcs
    <3>q. QED BY <1>8, <2>2, <3>2 DEF FlowKinds
  <2>3. CASE flow.pc = "blob"
    <3>1. After(flow.kind, flow.pc) = "index"
      BY <1>8, <2>3 DEF After
    <3>2. flow' \in FlowRecords /\ GoesOn("index")
      BY <1>4, <3>1 DEF Pcs
    <3>q. QED BY <1>8, <2>3, <3>2 DEF FlowKinds
  <2>4. CASE flow.pc = "index"
    <3>1. After(flow.kind, flow.pc) = "claims"
      BY <1>8, <2>4 DEF After
    <3>2. flow' \in FlowRecords /\ GoesOn("claims")
      BY <1>4, <3>1 DEF Pcs
    <3>q. QED BY <1>8, <2>4, <3>2 DEF FlowKinds
  <2>5. CASE flow.pc = "claims"
    <3>1. After(flow.kind, flow.pc) = "idle"
      BY <1>8, <2>5 DEF After
    <3>2. flow' \in FlowRecords /\ Stops
      BY <1>5, <3>1
    <3>q. QED BY <1>8, <2>5, <3>2 DEF FlowKinds
  <2>q. QED BY <1>1, <1>8, <2>1, <2>2, <2>3, <2>4, <2>5 DEF PcsOf
<1>9. CASE flow.kind = "cancel"
  <2>1. CASE flow.pc = "mine"
    <3>1. After(flow.kind, flow.pc) = "spent"
      BY <1>9, <2>1 DEF After
    <3>2. flow' \in FlowRecords /\ GoesOn("spent")
      BY <1>4, <3>1 DEF Pcs
    <3>q. QED BY <1>9, <2>1, <3>2 DEF FlowKinds
  <2>2. CASE flow.pc = "spent"
    <3>1. After(flow.kind, flow.pc) = "blob"
      BY <1>9, <2>2 DEF After
    <3>2. flow' \in FlowRecords /\ GoesOn("blob")
      BY <1>4, <3>1 DEF Pcs
    <3>q. QED BY <1>9, <2>2, <3>2 DEF FlowKinds
  <2>3. CASE flow.pc = "blob"
    <3>1. After(flow.kind, flow.pc) = "index"
      BY <1>9, <2>3 DEF After
    <3>2. flow' \in FlowRecords /\ GoesOn("index")
      BY <1>4, <3>1 DEF Pcs
    <3>q. QED BY <1>9, <2>3, <3>2 DEF FlowKinds
  <2>4. CASE flow.pc = "index"
    <3>1. After(flow.kind, flow.pc) = "drop"
      BY <1>9, <2>4 DEF After
    <3>2. flow' \in FlowRecords /\ GoesOn("drop")
      BY <1>4, <3>1 DEF Pcs
    <3>q. QED BY <1>9, <2>4, <3>2 DEF FlowKinds
  <2>5. CASE flow.pc = "drop"
    <3>1. After(flow.kind, flow.pc) = "mark"
      BY <1>9, <2>5 DEF After
    <3>2. flow' \in FlowRecords /\ GoesOn("mark")
      BY <1>4, <3>1 DEF Pcs
    <3>q. QED BY <1>9, <2>5, <3>2 DEF FlowKinds
  <2>6. CASE flow.pc = "mark"
    <3>1. After(flow.kind, flow.pc) = "idle"
      BY <1>9, <2>6 DEF After
    <3>2. flow' \in FlowRecords /\ Stops
      BY <1>5, <3>1
    <3>q. QED BY <1>9, <2>6, <3>2 DEF FlowKinds
  <2>q. QED BY <1>1, <1>9, <2>1, <2>2, <2>3, <2>4, <2>5, <2>6 DEF PcsOf
<1>q. QED BY <1>1, <1>6, <1>7, <1>8, <1>9 DEF FlowKinds

\* What the running flow is.
LEMMA FlowRuns ==
  ASSUME WalletTyped, FlowIsTheLast, KindsAreFixed, flow.pc # "idle" \/ flow.kind # "none"
  PROVE  /\ flow.kind \in FlowKinds /\ flow.pc \in PcsOf(flow.kind) /\ flow.pc # "idle"
         /\ flow.v = attempt /\ flow.kind = kind[flow.v] /\ flow.v \in Numbers
         /\ flow.kind = "deposit" <=> flow.v = 0
         /\ flow.v # 0 => flow.v \in Attempts
<1>1. /\ flow.kind \in FlowKinds /\ flow.pc \in PcsOf(flow.kind)
      /\ flow.v = attempt /\ flow.kind = kind[flow.v] /\ flow.v \in Numbers
  BY DEF FlowIsTheLast, NoFlow, WalletTyped
<1>2. flow.pc # "idle"
  BY <1>1 DEF PcsOf, FlowKinds
<1>3. flow.v # 0 => flow.v \in Attempts
  BY <1>1, WalletAssumption DEF Numbers, Attempts
<1>q. QED BY <1>1, <1>2, <1>3 DEF KindsAreFixed

\* A flow that goes on, or stops, is still the last attempt's.
LEMMA FlowStaysTheLast ==
  ASSUME WalletTyped, FlowIsTheLast, flow.pc # "idle", flow' = Resume, UNCHANGED <<kind, attempt>>
  PROVE  FlowIsTheLast'
<1>1. flow.kind \in FlowKinds /\ flow.pc \in PcsOf(flow.kind) /\ flow.v = attempt /\ flow.kind = kind[attempt]
  BY DEF FlowIsTheLast, NoFlow
<1>2. flow' = NoFlow \/ (flow'.kind = flow.kind /\ flow'.v = flow.v /\ flow'.pc \in PcsOf(flow.kind))
  <2>1. CASE flow.kind = "deposit"
    BY <1>1, <2>1, FlowMoves DEF PcsOf, GoesOn, Stops
  <2>2. CASE flow.kind = "order"
    BY <1>1, <2>2, FlowMoves DEF PcsOf, GoesOn, Stops
  <2>3. CASE flow.kind = "market"
    BY <1>1, <2>3, FlowMoves DEF PcsOf, GoesOn, Stops
  <2>4. CASE flow.kind = "cancel"
    BY <1>1, <2>4, FlowMoves DEF PcsOf, GoesOn, Stops
  <2>q. QED BY <1>1, <2>1, <2>2, <2>3, <2>4 DEF FlowKinds
<1>q. QED BY <1>1, <1>2 DEF FlowIsTheLast, NoFlow

-----------------------------------------------------------------------------
(* What happens to the notes. *)

\* MarkSpent (updateNoteStatus) changes the status of the escrow note only.
LEMMA MarkSpentNotes ==
  ASSUME WalletTyped, MarkSpent
  PROVE  /\ notes' \in [Numbers -> NoteRecords]
         /\ notes'[0].status = "spent" /\ notes'[0].leaf = notes[0].leaf /\ notes'[0].indexed = notes[0].indexed
         /\ \A v \in Numbers \ {0} : notes'[v] = notes[v]
<1>1. notes \in [Numbers -> NoteRecords] /\ 0 \in Numbers
  BY WalletAssumption DEF WalletTyped, Numbers
<1>2. notes' = [notes EXCEPT ![0] = [notes[0] EXCEPT !.status = "spent"]]
  BY DEF MarkSpent
<1>3. notes[0] \in NoteRecords
  BY <1>1
<1>4. /\ [notes[0] EXCEPT !.status = "spent"] \in NoteRecords
      /\ [notes[0] EXCEPT !.status = "spent"].status = "spent"
      /\ [notes[0] EXCEPT !.status = "spent"].leaf = notes[0].leaf
      /\ [notes[0] EXCEPT !.status = "spent"].indexed = notes[0].indexed
  BY <1>3 DEF NoteRecords
<1>q. QED BY <1>1, <1>2, <1>4

\* saveNote writes the whole blob of the note the flow stores ...
LEMMA SaveBlobNotes ==
  ASSUME WalletTyped, SaveBlob
  PROVE  /\ notes' \in [Numbers -> NoteRecords]
         /\ notes'[flow.v].status \in {"active", "pending"}
         /\ flow.kind \notin {"deposit", "cancel"} => ~notes'[flow.v].leaf
         /\ \A v \in Numbers \ {flow.v} : notes'[v] = notes[v]
<1>1. PICK hasEvent \in BOOLEAN : notes' = [notes EXCEPT ![flow.v] = Saved(hasEvent)]
  BY DEF SaveBlob
<1>2. /\ Saved(hasEvent) \in NoteRecords /\ Saved(hasEvent).status \in {"active", "pending"}
      /\ flow.kind \notin {"deposit", "cancel"} => ~Saved(hasEvent).leaf
  BY <1>1 DEF Saved, NoteRecords
<1>3. notes \in [Numbers -> NoteRecords] /\ flow.v \in Numbers
  BY DEF WalletTyped, FlowRecords
<1>q. QED BY <1>1, <1>2, <1>3

\* ... and then enters it in the index.
LEMMA SaveIndexNotes ==
  ASSUME WalletTyped, SaveIndex
  PROVE  /\ notes' \in [Numbers -> NoteRecords]
         /\ notes'[flow.v].status = notes[flow.v].status /\ notes'[flow.v].leaf = notes[flow.v].leaf
         /\ notes'[flow.v].indexed
         /\ \A v \in Numbers \ {flow.v} : notes'[v] = notes[v]
<1>1. notes \in [Numbers -> NoteRecords] /\ flow.v \in Numbers
  BY DEF WalletTyped, FlowRecords
<1>2. notes' = [notes EXCEPT ![flow.v] = [notes[flow.v] EXCEPT !.indexed = TRUE]]
  BY DEF SaveIndex
<1>3. notes[flow.v] \in NoteRecords
  BY <1>1
<1>4. /\ [notes[flow.v] EXCEPT !.indexed = TRUE] \in NoteRecords
      /\ [notes[flow.v] EXCEPT !.indexed = TRUE].status = notes[flow.v].status
      /\ [notes[flow.v] EXCEPT !.indexed = TRUE].leaf = notes[flow.v].leaf
      /\ [notes[flow.v] EXCEPT !.indexed = TRUE].indexed
  BY <1>3 DEF NoteRecords
<1>q. QED BY <1>1, <1>2, <1>4

\* A dropped change note is an order's, known by its trade record.
LEMMA DroppedNotes ==
  ASSUME WalletTyped, DropChange \/ PollDrop
  PROVE  /\ notes' \in [Numbers -> NoteRecords]
         /\ \A v \in Numbers : v \notin trades => notes'[v] = notes[v]
<1>1. notes \in [Numbers -> NoteRecords] /\ trades \subseteq Numbers
  BY DEF WalletTyped, Numbers, Attempts
<1>2. NoNote \in NoteRecords
  BY DEF NoNote, NoteRecords
<1>3. notes' = notes \/ \E u \in trades : notes' = [notes EXCEPT ![u] = NoNote]
  BY DEF DropChange, PollDrop
<1>q. QED BY <1>1, <1>2, <1>3

\* syncPendingNotes makes a pending note active with its leaf.
LEMMA SyncedNotes ==
  ASSUME WalletTyped, NEW v \in Numbers, SyncPromotes(v)
  PROVE  /\ notes' \in [Numbers -> NoteRecords]
         /\ notes[v].status = "pending" /\ v \in onChain
         /\ notes'[v].status = "active" /\ notes'[v].indexed = notes[v].indexed
         /\ \A u \in Numbers \ {v} : notes'[u] = notes[u]
<1>1. notes \in [Numbers -> NoteRecords]
  BY DEF WalletTyped
<1>2. notes' = [notes EXCEPT ![v] = [[notes[v] EXCEPT !.status = "active"] EXCEPT !.leaf = TRUE]]
  BY <1>1 DEF SyncPromotes
<1>3. notes[v] \in NoteRecords
  BY <1>1
<1>4. /\ [[notes[v] EXCEPT !.status = "active"] EXCEPT !.leaf = TRUE] \in NoteRecords
      /\ [[notes[v] EXCEPT !.status = "active"] EXCEPT !.leaf = TRUE].status = "active"
      /\ [[notes[v] EXCEPT !.status = "active"] EXCEPT !.leaf = TRUE].indexed = notes[v].indexed
  BY <1>3 DEF NoteRecords
<1>5. notes[v].status = "pending" /\ v \in onChain
  BY DEF SyncPromotes
<1>q. QED BY <1>1, <1>2, <1>4, <1>5

-----------------------------------------------------------------------------
(* The steps of a flow keep the facts of every behaviour. *)

\* Storing the claim secrets keeps them (OrderService, MarketOrderService).
LEMMA SaveClaimsKeeps ==
  ASSUME WalletFacts, SaveClaims
  PROVE  WalletFacts'
<1>1. /\ WalletTyped /\ FlowIsTheLast /\ KindsAreFixed /\ OnlyTriedActs
      /\ EscrowIsOne /\ FlowHasWritten /\ SpentHasClaims
  BY DEF WalletFacts
<1>2. flow' = Resume /\ flow.pc = "claims"
      /\ UNCHANGED <<onChain, spentBy, mempool, net, relayer, notes, trades, row, kind, attempt, poll, faults>>
  BY DEF SaveClaims, At, chainVars, relayerVars, diskVars
<1>3. /\ flow.kind \in FlowKinds /\ flow.pc \in PcsOf(flow.kind) /\ flow.kind = kind[flow.v]
      /\ flow.v \in Numbers /\ (flow.kind = "deposit" <=> flow.v = 0) /\ (flow.v # 0 => flow.v \in Attempts)
  BY <1>1, <1>2, FlowRuns
<1>4. /\ flow' \in FlowRecords
      /\ (flow.kind = "order" /\ GoesOn("spent")) \/ (flow.kind = "market" /\ Stops)
  BY <1>1, <1>2, FlowMoves
<1>5. claims' = claims \cup {flow.v} /\ claims' \subseteq Attempts
  BY <1>1, <1>3, <1>4 DEF SaveClaims, WalletTyped
<1>6. WalletTyped'
  BY <1>1, <1>2, <1>4, <1>5 DEF WalletTyped
<1>7. FlowIsTheLast'
  BY <1>1, <1>2, FlowStaysTheLast
<1>8. KindsAreFixed' /\ OnlyTriedActs'
  BY <1>1, <1>2, <1>3, <1>4, <1>5 DEF KindsAreFixed, OnlyTriedActs
<1>9. EscrowIsOne'
  BY <1>1, <1>2, <1>3, <1>4, <1>5 DEF EscrowIsOne, GoesOn, Stops, NoFlow
<1>10. FlowHasWritten'
  BY <1>1, <1>2, <1>3, <1>4, <1>5 DEF FlowHasWritten, GoesOn, Stops, NoFlow
<1>11. SpentHasClaims'
  BY <1>1, <1>2, <1>3, <1>4, <1>5 DEF SpentHasClaims, FlowHasWritten
<1>q. QED BY <1>6, <1>7, <1>8, <1>9, <1>10, <1>11 DEF WalletFacts

\* Marking the escrow spent, which the claims of an order precede, keeps them (updateNoteStatus).
LEMMA MarkSpentKeeps ==
  ASSUME WalletFacts, MarkSpent
  PROVE  WalletFacts'
<1>1. /\ WalletTyped /\ FlowIsTheLast /\ KindsAreFixed /\ OnlyTriedActs
      /\ EscrowIsOne /\ FlowHasWritten /\ SpentHasClaims
  BY DEF WalletFacts
<1>2. flow' = Resume /\ flow.pc = "spent"
      /\ UNCHANGED <<onChain, spentBy, mempool, net, relayer, claims, trades, row, kind, attempt, poll, faults>>
  BY DEF MarkSpent, At, chainVars, relayerVars, diskVars
<1>3. /\ flow.kind \in FlowKinds /\ flow.pc \in PcsOf(flow.kind) /\ flow.kind = kind[flow.v]
      /\ flow.v \in Numbers /\ (flow.kind = "deposit" <=> flow.v = 0) /\ (flow.v # 0 => flow.v \in Attempts)
  BY <1>1, <1>2, FlowRuns
<1>4. /\ flow' \in FlowRecords
      /\ \/ flow.kind = "order" /\ GoesOn("trade")
         \/ flow.kind \in {"market", "cancel"} /\ GoesOn("blob")
  BY <1>1, <1>2, FlowMoves
<1>5. /\ notes' \in [Numbers -> NoteRecords]
      /\ notes'[0].status = "spent" /\ notes'[0].leaf = notes[0].leaf
  BY <1>1, MarkSpentNotes
<1>6. WalletTyped'
  BY <1>1, <1>2, <1>4, <1>5 DEF WalletTyped
<1>7. FlowIsTheLast'
  BY <1>1, <1>2, FlowStaysTheLast
<1>8. KindsAreFixed' /\ OnlyTriedActs'
  BY <1>1, <1>2, <1>3, <1>4, <1>5 DEF KindsAreFixed, OnlyTriedActs
<1>9. EscrowIsOne'
  BY <1>1, <1>2, <1>3, <1>4, <1>5 DEF EscrowIsOne, GoesOn, Stops, NoFlow
<1>10. FlowHasWritten'
  BY <1>1, <1>2, <1>3, <1>4, <1>5 DEF FlowHasWritten, GoesOn, Stops, NoFlow
<1>11. SpentHasClaims'
  BY <1>1, <1>2, <1>3, <1>4, <1>5 DEF SpentHasClaims, FlowHasWritten
<1>q. QED BY <1>6, <1>7, <1>8, <1>9, <1>10, <1>11 DEF WalletFacts

\* Writing the trade record keeps them (saveTrade).
LEMMA SaveTradeKeeps ==
  ASSUME WalletFacts, SaveTrade
  PROVE  WalletFacts'
<1>1. /\ WalletTyped /\ FlowIsTheLast /\ KindsAreFixed /\ OnlyTriedActs
      /\ EscrowIsOne /\ FlowHasWritten /\ SpentHasClaims
  BY DEF WalletFacts
<1>2. flow' = Resume /\ flow.pc = "trade"
      /\ UNCHANGED <<onChain, spentBy, mempool, net, relayer, notes, claims, row, kind, attempt, poll, faults>>
  BY DEF SaveTrade, At, chainVars, relayerVars, diskVars
<1>3. /\ flow.kind \in FlowKinds /\ flow.pc \in PcsOf(flow.kind) /\ flow.kind = kind[flow.v]
      /\ flow.v \in Numbers /\ (flow.kind = "deposit" <=> flow.v = 0) /\ (flow.v # 0 => flow.v \in Attempts)
  BY <1>1, <1>2, FlowRuns
<1>4. /\ flow' \in FlowRecords
      /\ flow.kind = "order" /\ GoesOn("blob")
  BY <1>1, <1>2, FlowMoves
<1>5. trades' = trades \cup {flow.v} /\ trades' \subseteq Attempts
  BY <1>1, <1>3, <1>4 DEF SaveTrade, WalletTyped
<1>6. WalletTyped'
  BY <1>1, <1>2, <1>4, <1>5 DEF WalletTyped
<1>7. FlowIsTheLast'
  BY <1>1, <1>2, FlowStaysTheLast
<1>8. KindsAreFixed' /\ OnlyTriedActs'
  BY <1>1, <1>2, <1>3, <1>4, <1>5 DEF KindsAreFixed, OnlyTriedActs
<1>9. EscrowIsOne'
  BY <1>1, <1>2, <1>3, <1>4, <1>5 DEF EscrowIsOne, GoesOn, Stops, NoFlow
<1>10. FlowHasWritten'
  BY <1>1, <1>2, <1>3, <1>4, <1>5 DEF FlowHasWritten, GoesOn, Stops, NoFlow
<1>11. SpentHasClaims'
  BY <1>1, <1>2, <1>3, <1>4, <1>5 DEF SpentHasClaims, FlowHasWritten
<1>q. QED BY <1>6, <1>7, <1>8, <1>9, <1>10, <1>11 DEF WalletFacts

\* Writing the blob of a note keeps them (saveNote).
LEMMA SaveBlobKeeps ==
  ASSUME WalletFacts, SaveBlob
  PROVE  WalletFacts'
<1>1. /\ WalletTyped /\ FlowIsTheLast /\ KindsAreFixed /\ OnlyTriedActs
      /\ EscrowIsOne /\ FlowHasWritten /\ SpentHasClaims
  BY DEF WalletFacts
<1>2. flow' = Resume /\ flow.pc = "blob"
      /\ UNCHANGED <<onChain, spentBy, mempool, net, relayer, claims, trades, row, kind, attempt, poll, faults>>
  BY DEF SaveBlob, At, chainVars, relayerVars, diskVars
<1>3. /\ flow.kind \in FlowKinds /\ flow.pc \in PcsOf(flow.kind) /\ flow.kind = kind[flow.v]
      /\ flow.v \in Numbers /\ (flow.kind = "deposit" <=> flow.v = 0) /\ (flow.v # 0 => flow.v \in Attempts)
  BY <1>1, <1>2, FlowRuns
<1>4. /\ flow' \in FlowRecords
      /\ flow.kind \in FlowKinds /\ GoesOn("index")
  BY <1>1, <1>2, FlowMoves
<1>5. /\ notes' \in [Numbers -> NoteRecords]
      /\ flow.v = 0 => notes'[0].status # "spent"
      /\ flow.v # 0 => notes'[0] = notes[0]
  BY <1>1, <1>3, SaveBlobNotes, WalletAssumption DEF Numbers
<1>6. WalletTyped'
  BY <1>1, <1>2, <1>4, <1>5 DEF WalletTyped
<1>7. FlowIsTheLast'
  BY <1>1, <1>2, FlowStaysTheLast
<1>8. KindsAreFixed' /\ OnlyTriedActs'
  BY <1>1, <1>2, <1>3, <1>4, <1>5 DEF KindsAreFixed, OnlyTriedActs
<1>9. EscrowIsOne'
  BY <1>1, <1>2, <1>3, <1>4, <1>5 DEF EscrowIsOne, GoesOn, Stops, NoFlow
<1>10. FlowHasWritten'
  BY <1>1, <1>2, <1>3, <1>4, <1>5 DEF FlowHasWritten, GoesOn, Stops, NoFlow
<1>11. SpentHasClaims'
  BY <1>1, <1>2, <1>3, <1>4, <1>5 DEF SpentHasClaims, FlowHasWritten
<1>q. QED BY <1>6, <1>7, <1>8, <1>9, <1>10, <1>11 DEF WalletFacts

\* Indexing a note keeps them (saveNote).
LEMMA SaveIndexKeeps ==
  ASSUME WalletFacts, SaveIndex
  PROVE  WalletFacts'
<1>1. /\ WalletTyped /\ FlowIsTheLast /\ KindsAreFixed /\ OnlyTriedActs
      /\ EscrowIsOne /\ FlowHasWritten /\ SpentHasClaims
  BY DEF WalletFacts
<1>2. flow' = Resume /\ flow.pc = "index"
      /\ UNCHANGED <<onChain, spentBy, mempool, net, relayer, claims, trades, row, kind, attempt, poll, faults>>
  BY DEF SaveIndex, At, chainVars, relayerVars, diskVars
<1>3. /\ flow.kind \in FlowKinds /\ flow.pc \in PcsOf(flow.kind) /\ flow.kind = kind[flow.v]
      /\ flow.v \in Numbers /\ (flow.kind = "deposit" <=> flow.v = 0) /\ (flow.v # 0 => flow.v \in Attempts)
  BY <1>1, <1>2, FlowRuns
<1>4. /\ flow' \in FlowRecords
      /\ \/ flow.kind = "deposit" /\ Stops
         \/ flow.kind = "order" /\ GoesOn("track")
         \/ flow.kind = "market" /\ GoesOn("claims")
         \/ flow.kind = "cancel" /\ GoesOn("drop")
  BY <1>1, <1>2, FlowMoves
<1>5. /\ notes' \in [Numbers -> NoteRecords]
      /\ notes'[0].status = notes[0].status /\ notes'[0].leaf = notes[0].leaf
  BY <1>1, <1>3, SaveIndexNotes, WalletAssumption DEF Numbers
<1>6. WalletTyped'
  BY <1>1, <1>2, <1>4, <1>5 DEF WalletTyped
<1>7. FlowIsTheLast'
  BY <1>1, <1>2, FlowStaysTheLast
<1>8. KindsAreFixed' /\ OnlyTriedActs'
  BY <1>1, <1>2, <1>3, <1>4, <1>5 DEF KindsAreFixed, OnlyTriedActs
<1>9. EscrowIsOne'
  BY <1>1, <1>2, <1>3, <1>4, <1>5 DEF EscrowIsOne, GoesOn, Stops, NoFlow
<1>10. FlowHasWritten'
  BY <1>1, <1>2, <1>3, <1>4, <1>5 DEF FlowHasWritten, GoesOn, Stops, NoFlow
<1>11. SpentHasClaims'
  BY <1>1, <1>2, <1>3, <1>4, <1>5 DEF SpentHasClaims, FlowHasWritten
<1>q. QED BY <1>6, <1>7, <1>8, <1>9, <1>10, <1>11 DEF WalletFacts

\* Tracking the order's row, or failing to, keeps them (track).
LEMMA TrackKeeps ==
  ASSUME WalletFacts, Track
  PROVE  WalletFacts'
<1>1. /\ WalletTyped /\ FlowIsTheLast /\ KindsAreFixed /\ OnlyTriedActs
      /\ EscrowIsOne /\ FlowHasWritten /\ SpentHasClaims
  BY DEF WalletFacts
<1>2. flow' = Resume /\ flow.pc = "track"
      /\ UNCHANGED <<onChain, spentBy, mempool, net, relayer, notes, claims, trades, kind, attempt, poll>>
  BY DEF Track, At, chainVars, relayerVars, diskVars
<1>3. /\ flow.kind \in FlowKinds /\ flow.pc \in PcsOf(flow.kind) /\ flow.kind = kind[flow.v]
      /\ flow.v \in Numbers /\ (flow.kind = "deposit" <=> flow.v = 0) /\ (flow.v # 0 => flow.v \in Attempts)
  BY <1>1, <1>2, FlowRuns
<1>4. /\ flow' \in FlowRecords
      /\ flow.kind = "order" /\ Stops
  BY <1>1, <1>2, FlowMoves
<1>5. row' \in RowRecords /\ faults' \in 0 .. MaxFaults
  BY <1>1, <1>3, WalletAssumption DEF Track, OneFault, WalletTyped, RowRecords, FlowRecords
<1>6. WalletTyped'
  BY <1>1, <1>2, <1>4, <1>5 DEF WalletTyped
<1>7. FlowIsTheLast'
  BY <1>1, <1>2, FlowStaysTheLast
<1>8. KindsAreFixed' /\ OnlyTriedActs'
  BY <1>1, <1>2, <1>3, <1>4, <1>5 DEF KindsAreFixed, OnlyTriedActs
<1>9. EscrowIsOne'
  BY <1>1, <1>2, <1>3, <1>4, <1>5 DEF EscrowIsOne, GoesOn, Stops, NoFlow
<1>10. FlowHasWritten'
  BY <1>1, <1>2, <1>3, <1>4, <1>5 DEF FlowHasWritten, GoesOn, Stops, NoFlow
<1>11. SpentHasClaims'
  BY <1>1, <1>2, <1>3, <1>4, <1>5 DEF SpentHasClaims, FlowHasWritten
<1>q. QED BY <1>6, <1>7, <1>8, <1>9, <1>10, <1>11 DEF WalletFacts

\* Dropping a change note after a cancellation keeps them (handleCancelPendingOrder).
LEMMA DropChangeKeeps ==
  ASSUME WalletFacts, DropChange
  PROVE  WalletFacts'
<1>1. /\ WalletTyped /\ FlowIsTheLast /\ KindsAreFixed /\ OnlyTriedActs
      /\ EscrowIsOne /\ FlowHasWritten /\ SpentHasClaims
  BY DEF WalletFacts
<1>2. flow' = Resume /\ flow.pc = "drop"
      /\ UNCHANGED <<onChain, spentBy, mempool, net, relayer, claims, trades, row, kind, attempt, poll, faults>>
  BY DEF DropChange, At, chainVars, relayerVars, diskVars
<1>3. /\ flow.kind \in FlowKinds /\ flow.pc \in PcsOf(flow.kind) /\ flow.kind = kind[flow.v]
      /\ flow.v \in Numbers /\ (flow.kind = "deposit" <=> flow.v = 0) /\ (flow.v # 0 => flow.v \in Attempts)
  BY <1>1, <1>2, FlowRuns
<1>4. /\ flow' \in FlowRecords
      /\ flow.kind = "cancel" /\ GoesOn("mark")
  BY <1>1, <1>2, FlowMoves
<1>5. notes' \in [Numbers -> NoteRecords] /\ notes'[0] = notes[0]
  BY <1>1, DroppedNotes, WalletAssumption DEF WalletTyped, Numbers, Attempts
<1>6. WalletTyped'
  BY <1>1, <1>2, <1>4, <1>5 DEF WalletTyped
<1>7. FlowIsTheLast'
  BY <1>1, <1>2, FlowStaysTheLast
<1>8. KindsAreFixed' /\ OnlyTriedActs'
  BY <1>1, <1>2, <1>3, <1>4, <1>5 DEF KindsAreFixed, OnlyTriedActs
<1>9. EscrowIsOne'
  BY <1>1, <1>2, <1>3, <1>4, <1>5 DEF EscrowIsOne, GoesOn, Stops, NoFlow
<1>10. FlowHasWritten'
  BY <1>1, <1>2, <1>3, <1>4, <1>5 DEF FlowHasWritten, GoesOn, Stops, NoFlow
<1>11. SpentHasClaims'
  BY <1>1, <1>2, <1>3, <1>4, <1>5 DEF SpentHasClaims, FlowHasWritten
<1>q. QED BY <1>6, <1>7, <1>8, <1>9, <1>10, <1>11 DEF WalletFacts

\* Marking the row of a cancelled order keeps them (markCancelledLocally).
LEMMA MarkCancelledLocallyKeeps ==
  ASSUME WalletFacts, MarkCancelledLocally
  PROVE  WalletFacts'
<1>1. /\ WalletTyped /\ FlowIsTheLast /\ KindsAreFixed /\ OnlyTriedActs
      /\ EscrowIsOne /\ FlowHasWritten /\ SpentHasClaims
  BY DEF WalletFacts
<1>2. flow' = Resume /\ flow.pc = "mark"
      /\ UNCHANGED <<onChain, spentBy, mempool, net, relayer, notes, claims, trades, kind, attempt, poll, faults>>
  BY DEF MarkCancelledLocally, At, chainVars, relayerVars, diskVars
<1>3. /\ flow.kind \in FlowKinds /\ flow.pc \in PcsOf(flow.kind) /\ flow.kind = kind[flow.v]
      /\ flow.v \in Numbers /\ (flow.kind = "deposit" <=> flow.v = 0) /\ (flow.v # 0 => flow.v \in Attempts)
  BY <1>1, <1>2, FlowRuns
<1>4. /\ flow' \in FlowRecords
      /\ flow.kind = "cancel" /\ Stops
  BY <1>1, <1>2, FlowMoves
<1>5. row' \in RowRecords
  BY <1>1 DEF MarkCancelledLocally, WalletTyped, RowRecords, Statuses, Ended
<1>6. WalletTyped'
  BY <1>1, <1>2, <1>4, <1>5 DEF WalletTyped
<1>7. FlowIsTheLast'
  BY <1>1, <1>2, FlowStaysTheLast
<1>8. KindsAreFixed' /\ OnlyTriedActs'
  BY <1>1, <1>2, <1>3, <1>4, <1>5 DEF KindsAreFixed, OnlyTriedActs
<1>9. EscrowIsOne'
  BY <1>1, <1>2, <1>3, <1>4, <1>5 DEF EscrowIsOne, GoesOn, Stops, NoFlow
<1>10. FlowHasWritten'
  BY <1>1, <1>2, <1>3, <1>4, <1>5 DEF FlowHasWritten, GoesOn, Stops, NoFlow
<1>11. SpentHasClaims'
  BY <1>1, <1>2, <1>3, <1>4, <1>5 DEF SpentHasClaims, FlowHasWritten
<1>q. QED BY <1>6, <1>7, <1>8, <1>9, <1>10, <1>11 DEF WalletFacts

\* A receipt lets the flow go on, or ends it (CancelService: execute).
LEMMA MinedKeeps ==
  ASSUME WalletFacts, Mined
  PROVE  WalletFacts'
<1>1. /\ WalletTyped /\ FlowIsTheLast /\ KindsAreFixed /\ OnlyTriedActs
      /\ EscrowIsOne /\ FlowHasWritten /\ SpentHasClaims
  BY DEF WalletFacts
<1>2. /\ flow.pc = "mine"
      /\ UNCHANGED <<onChain, spentBy, mempool, net, relayer, notes, claims, trades, row, kind, attempt, poll, faults>>
  BY DEF Mined, At, chainVars, relayerVars, diskVars
<1>3. /\ flow.kind \in FlowKinds /\ flow.pc \in PcsOf(flow.kind) /\ flow.kind = kind[flow.v]
      /\ flow.v \in Numbers /\ (flow.kind = "deposit" <=> flow.v = 0) /\ (flow.v # 0 => flow.v \in Attempts)
  BY <1>1, <1>2, FlowRuns
<1>4. \/ /\ flow' \in FlowRecords /\ flow.v \in onChain
         /\ \/ flow.kind = "deposit" /\ GoesOn("blob")
            \/ flow.kind \in {"market", "cancel"} /\ GoesOn("spent")
      \/ Stops
  <2>1. (flow.v \in onChain /\ flow' = Resume) \/ Stops
    BY DEF Mined, Stops
  <2>q. QED BY <1>1, <1>2, <2>1, FlowMoves
<1>5. flow' \in FlowRecords
  BY <1>4, WalletAssumption DEF Stops, NoFlow, FlowRecords, Pcs, Statuses, Numbers
<1>6. WalletTyped'
  BY <1>1, <1>2, <1>5 DEF WalletTyped
<1>7. FlowIsTheLast'
  <2>1. CASE flow' = Resume
    BY <1>1, <1>2, <2>1, FlowStaysTheLast
  <2>2. CASE flow' = NoFlow
    BY <2>2 DEF FlowIsTheLast, NoFlow
  <2>q. QED BY <2>1, <2>2 DEF Mined
<1>8. KindsAreFixed' /\ OnlyTriedActs'
  BY <1>1, <1>2 DEF KindsAreFixed, OnlyTriedActs
<1>9. EscrowIsOne'
  BY <1>1, <1>2, <1>3, <1>4 DEF EscrowIsOne, GoesOn, Stops, NoFlow
<1>10. FlowHasWritten'
  <2>1. CASE Stops
    BY <2>1 DEF FlowHasWritten, Stops, NoFlow
  <2>2. CASE flow.v \in onChain /\ (GoesOn("blob") \/ GoesOn("spent"))
    <3>1. flow.v # 0 => flow.v = spentBy
      BY <1>1, <2>2 DEF EscrowIsOne
    <3>2. flow'.v = flow.v /\ flow'.kind = flow.kind /\ flow.kind # "order"
      BY <1>2, <1>3, <2>2 DEF GoesOn, PcsOf
    <3>q. QED BY <1>2, <1>3, <3>1, <3>2 DEF FlowHasWritten
  <2>q. QED BY <1>4, <2>1, <2>2
<1>11. SpentHasClaims'
  BY <1>1, <1>2 DEF SpentHasClaims
<1>q. QED BY <1>6, <1>7, <1>8, <1>9, <1>10, <1>11 DEF WalletFacts

\* So does the answer to a POST, or its loss (OrderService: execute and
\* pollForAcceptedOrder).
LEMMA PostedKeeps ==
  ASSUME WalletFacts, Posted \/ PostAborted
  PROVE  WalletFacts'
<1>1. /\ WalletTyped /\ FlowIsTheLast /\ KindsAreFixed /\ OnlyTriedActs
      /\ EscrowIsOne /\ FlowHasWritten /\ SpentHasClaims
  BY DEF WalletFacts
<1>2. /\ flow.pc = "post" /\ net' \subseteq net /\ faults' \in 0 .. MaxFaults
      /\ UNCHANGED <<onChain, spentBy, mempool, relayer, notes, claims, trades, row, kind, attempt, poll>>
  BY <1>1, WalletAssumption DEF Posted, PostAborted, OneFault, At, chainVars, relayerVars, diskVars, WalletTyped
<1>3. /\ flow.kind \in FlowKinds /\ flow.pc \in PcsOf(flow.kind) /\ flow.kind = kind[flow.v]
      /\ flow.v \in Numbers /\ (flow.kind = "deposit" <=> flow.v = 0) /\ (flow.v # 0 => flow.v \in Attempts)
  BY <1>1, <1>2, FlowRuns
<1>4. \/ /\ flow' \in FlowRecords /\ flow.kind = "order"
         /\ flow'.kind = flow.kind /\ flow'.v = flow.v /\ flow'.pc = "claims"
      \/ Stops
  <2>1. \/ flow' = Resume \/ Stops
        \/ flow' = [Resume EXCEPT !.reply = relayer.status]
    BY DEF Posted, PostAborted, Stops
  <2>2. CASE flow' = Resume
    BY <1>1, <1>2, <2>2, FlowMoves DEF GoesOn
  <2>3. CASE flow' = [Resume EXCEPT !.reply = relayer.status]
    <3>1. flow.kind = "order"
      BY <1>2, <1>3 DEF PcsOf, FlowKinds
    <3>2. Resume = [flow EXCEPT !.pc = "claims"]
      <4>1. After(flow.kind, flow.pc) = "claims"
        BY <1>2, <3>1 DEF After
      <4>q. QED BY <1>3, <4>1, ResumeIsNext
    <3>3. flow \in FlowRecords /\ relayer.status \in Statuses
      BY <1>1 DEF WalletTyped, RowRecords
    <3>q. QED BY <2>3, <3>1, <3>2, <3>3 DEF FlowRecords, Pcs
  <2>q. QED BY <2>1, <2>2, <2>3
<1>5. flow' \in FlowRecords
  BY <1>4, WalletAssumption DEF Stops, NoFlow, FlowRecords, Pcs, Statuses, Numbers
<1>6. WalletTyped'
  BY <1>1, <1>2, <1>5 DEF WalletTyped
<1>7. FlowIsTheLast'
  BY <1>1, <1>2, <1>3, <1>4 DEF FlowIsTheLast, NoFlow, Stops, PcsOf
<1>8. KindsAreFixed' /\ OnlyTriedActs'
  BY <1>1, <1>2 DEF KindsAreFixed, OnlyTriedActs
<1>9. EscrowIsOne'
  BY <1>1, <1>2, <1>3, <1>4 DEF EscrowIsOne, Stops, NoFlow
<1>10. FlowHasWritten'
  BY <1>1, <1>2, <1>3, <1>4 DEF FlowHasWritten, Stops, NoFlow
<1>11. SpentHasClaims'
  BY <1>1, <1>2 DEF SpentHasClaims
<1>q. QED BY <1>6, <1>7, <1>8, <1>9, <1>10, <1>11 DEF WalletFacts

\* A new attempt has a number no one has acted under yet.
LEMMA BeginKeeps ==
  ASSUME WalletFacts, NEW k \in FlowKinds, NEW v \in Numbers, Begin(k, v),
         k = "deposit" => v = 0 /\ 0 \notin onChain,
         k # "deposit" => v = attempt + 1 /\ 0 \in onChain
  PROVE  WalletFacts'
<1>1. /\ WalletTyped /\ FlowIsTheLast /\ KindsAreFixed /\ OnlyTriedActs
      /\ EscrowIsOne /\ FlowHasWritten /\ SpentHasClaims
  BY DEF WalletFacts
<1>2. /\ flow = NoFlow /\ kind' = [kind EXCEPT ![v] = k] /\ attempt' = v
      /\ UNCHANGED <<onChain, spentBy, relayer, notes, claims, trades, row, poll, faults>>
      /\ k = "order" => net' = net \cup {v} /\ mempool' = mempool
      /\ k # "order" => net' = net /\ mempool' = mempool \cup {v}
  BY DEF Begin, diskVars
<1>3. /\ flow' \in FlowRecords /\ flow'.kind = k /\ flow'.v = v
      /\ flow'.pc \in PcsOf(k) /\ flow'.pc \in {"mine", "post"}
  <2>1. flow' = [kind |-> k, v |-> v, pc |-> Head(Steps(k)), reply |-> "none"]
    BY DEF Begin
  <2>2. Head(Steps(k)) \in PcsOf(k) /\ Head(Steps(k)) \in {"mine", "post"}
    BY DEF Steps, PcsOf, FlowKinds
  <2>q. QED BY <2>1, <2>2 DEF FlowRecords, Pcs, Statuses
<1>4. attempt = 0 => v = 0 \/ v = 1
  BY <1>1 DEF FlowKinds
<1>5. /\ attempt \in Nat /\ v \in Nat /\ attempt <= v /\ (v = 0 => attempt = 0) /\ (v # 0 => v \in Attempts)
      /\ v = 0 <=> k = "deposit"
  <2>1. k = "deposit" => attempt = 0
    BY <1>1, WalletAssumption DEF EscrowIsOne, WalletTyped, Numbers
  <2>q. QED BY <1>1, <2>1, WalletAssumption DEF WalletTyped, Numbers, Attempts, FlowKinds
<1>6. /\ kind' \in [Numbers -> FlowKinds \cup {"none"}] /\ kind'[v] = k
      /\ \A u \in Numbers \ {v} : kind'[u] = kind[u]
  BY <1>1, <1>2 DEF WalletTyped
<1>7. v # 0 => kind[v] = "none" /\ v > attempt
  BY <1>1, <1>5 DEF KindsAreFixed
<1>8. WalletTyped'
  BY <1>1, <1>2, <1>3, <1>5, <1>6 DEF WalletTyped
<1>9. FlowIsTheLast'
  BY <1>2, <1>3, <1>6 DEF FlowIsTheLast
<1>10. KindsAreFixed'
  <2>1. kind'[0] = "deposit"
    BY <1>1, <1>5, <1>6, WalletAssumption DEF KindsAreFixed, Numbers
  <2>2. ASSUME NEW u \in Attempts
        PROVE  kind'[u] # "deposit" /\ (u > attempt' <=> kind'[u] = "none")
    <3>1. u \in Numbers /\ u \in Nat /\ u # 0
      BY WalletAssumption DEF Attempts, Numbers
    <3>2. CASE u = v
      BY <1>2, <1>5, <1>6, <3>1, <3>2 DEF FlowKinds
    <3>3. CASE u # v
      <4>1. kind'[u] = kind[u] /\ (u > attempt <=> kind[u] = "none") /\ kind[u] # "deposit"
        BY <1>1, <1>6, <3>1, <3>3 DEF KindsAreFixed
      <4>2. u > attempt <=> u > v
        <5>1. CASE k = "deposit"
          BY <1>5, <3>1, <5>1
        <5>2. CASE k # "deposit"
          BY <1>5, <3>1, <3>3, <5>2
        <5>q. QED BY <5>1, <5>2
      <4>q. QED BY <1>2, <4>1, <4>2
    <3>q. QED BY <3>2, <3>3
  <2>3. ASSUME NEW u \in net' \cup trades'
        PROVE  kind'[u] = "order"
    <3>1. u \in Numbers
      <4>1. net' = net \/ net' = net \cup {v}
        BY <1>2
      <4>2. net \subseteq Numbers /\ trades \subseteq Numbers
        BY <1>1, WalletAssumption DEF WalletTyped, Numbers, Attempts
      <4>3. trades' = trades
        BY <1>2
      <4>q. QED BY <4>1, <4>2, <4>3
    <3>2. CASE u = v
      <4>1. u \in net \cup trades => kind[v] = "order"
        BY <1>1, <3>2 DEF KindsAreFixed
      <4>q. QED BY <1>1, <1>2, <1>5, <1>6, <1>7, <3>2, <4>1 DEF KindsAreFixed
    <3>3. CASE u # v
      BY <1>1, <1>2, <1>6, <3>1, <3>3 DEF KindsAreFixed
    <3>q. QED BY <3>2, <3>3
  <2>4. relayer'.status # "none" => relayer'.v \in Attempts /\ kind'[relayer'.v] = "order"
    BY <1>1, <1>2, <1>5, <1>6, <1>7, WalletAssumption DEF KindsAreFixed, Attempts, Numbers
  <2>q. QED BY <2>1, <2>2, <2>3, <2>4 DEF KindsAreFixed
<1>11. OnlyTriedActs'
  BY <1>1, <1>2, <1>5 DEF OnlyTriedActs, WalletTyped, Numbers
<1>12. EscrowIsOne'
  BY <1>1, <1>2, <1>3, <1>5 DEF EscrowIsOne, PcsOf
<1>13. FlowHasWritten'
  BY <1>3 DEF FlowHasWritten, PcsOf
<1>14. SpentHasClaims'
  <2>1. ASSUME \A u \in Attempts : kind'[u] # "market"
        PROVE  \A u \in Attempts : kind[u] # "market"
    BY <1>1, <1>6, <1>7, <2>1, WalletAssumption DEF Attempts, Numbers
  <2>2. spentBy # 0 /\ kind[spentBy] = "cancel" => kind'[spentBy] = "cancel"
    BY <1>1, <1>5, <1>6, <1>7 DEF WalletTyped
  <2>q. QED BY <1>1, <1>2, <2>1, <2>2 DEF SpentHasClaims
<1>q. QED BY <1>8, <1>9, <1>10, <1>11, <1>12, <1>13, <1>14 DEF WalletFacts

\* The user starts a deposit, an order or a cancellation.
LEMMA StartKeeps ==
  ASSUME WalletFacts, DepositStart \/ CancelStart \/ \E k \in {"order", "market"} : OrderStart(k)
  PROVE  WalletFacts'
<1>1. WalletTyped /\ EscrowIsOne
  BY DEF WalletFacts
<1>2. CASE DepositStart
  <2>1. Begin("deposit", 0) /\ 0 \notin onChain
    BY <1>2 DEF DepositStart
  <2>q. QED BY <2>1, BeginKeeps, WalletAssumption DEF FlowKinds, Numbers
<1>3. ASSUME NEW k \in {"order", "market", "cancel"}, Begin(k, attempt + 1), attempt < MaxAttempts, notes[0].leaf
      PROVE  WalletFacts'
  <2>1. attempt + 1 \in Numbers /\ 0 \in onChain
    BY <1>1, <1>3, WalletAssumption DEF WalletTyped, Numbers, EscrowIsOne
  <2>q. QED BY <1>3, <2>1, BeginKeeps DEF FlowKinds
<1>4. CASE CancelStart
  BY <1>3, <1>4 DEF CancelStart
<1>5. CASE \E k \in {"order", "market"} : OrderStart(k)
  BY <1>3, <1>5 DEF OrderStart
<1>q. QED BY <1>2, <1>4, <1>5

-----------------------------------------------------------------------------
(* The chain, the relayer and the background keep them too. *)

\* A transaction that is mined, or reverts.
LEMMA MineKeeps ==
  ASSUME WalletFacts, NEW v \in Numbers, Mine(v)
  PROVE  WalletFacts'
<1>1. /\ WalletTyped /\ FlowIsTheLast /\ KindsAreFixed /\ OnlyTriedActs
      /\ EscrowIsOne /\ FlowHasWritten /\ SpentHasClaims
  BY DEF WalletFacts
<1>2. /\ v \in mempool /\ mempool' = mempool \ {v}
      /\ UNCHANGED <<net, relayer, notes, claims, trades, row, kind, attempt, flow, poll, faults>>
  BY DEF Mine, relayerVars, diskVars, appVars
<1>3. \/ onChain' = onChain \cup {v} /\ spentBy' = v /\ spentBy = 0
      \/ UNCHANGED <<onChain, spentBy>>
  <2>1. v = 0 => spentBy = 0
    BY <1>1, <1>2 DEF EscrowIsOne, OnlyTriedActs, WalletTyped, Numbers
  <2>q. QED BY <2>1 DEF Mine
<1>4. WalletTyped'
  BY <1>1, <1>2, <1>3 DEF WalletTyped
<1>5. FlowIsTheLast' /\ KindsAreFixed'
  BY <1>1, <1>2 DEF FlowIsTheLast, NoFlow, KindsAreFixed
<1>6. OnlyTriedActs'
  BY <1>1, <1>2, <1>3 DEF OnlyTriedActs
<1>7. EscrowIsOne'
  BY <1>1, <1>2, <1>3 DEF EscrowIsOne
<1>8. FlowHasWritten'
  <2>1. flow.kind = "cancel" /\ flow.pc # "mine" => spentBy # 0
    BY <1>1, FlowRuns DEF FlowHasWritten
  <2>q. QED BY <1>1, <1>2, <1>3, <2>1 DEF FlowHasWritten
<1>9. SpentHasClaims'
  BY <1>1, <1>2, <1>3 DEF SpentHasClaims
<1>q. QED BY <1>4, <1>5, <1>6, <1>7, <1>8, <1>9 DEF WalletFacts

\* The relayer takes an order (POST /api/authorize-orders).
LEMMA PostArrivesKeeps ==
  ASSUME WalletFacts, NEW v \in Numbers, PostArrives(v)
  PROVE  WalletFacts'
<1>1. /\ WalletTyped /\ FlowIsTheLast /\ KindsAreFixed /\ OnlyTriedActs
      /\ EscrowIsOne /\ FlowHasWritten /\ SpentHasClaims
  BY DEF WalletFacts
<1>2. /\ v \in net /\ net' \subseteq net
      /\ UNCHANGED <<onChain, spentBy, mempool, notes, claims, trades, row, kind, attempt, poll, faults>>
  BY DEF PostArrives, chainVars, diskVars
<1>3. relayer' \in RowRecords /\ (relayer' = relayer \/ (relayer'.v = v /\ relayer'.status = "live"))
  BY <1>1 DEF PostArrives, WalletTyped, RowRecords, Statuses
<1>4. /\ flow' \in FlowRecords
      /\ flow'.kind = flow.kind /\ flow'.v = flow.v /\ flow'.pc = flow.pc
      /\ flow = NoFlow => flow' = NoFlow
  <2>1. flow \in FlowRecords /\ relayer'.status \in Statuses
    BY <1>1, <1>3 DEF WalletTyped, RowRecords
  <2>2. flow' = flow \/ (flow.pc = "post" /\ flow' = [flow EXCEPT !.reply = relayer'.status])
    BY DEF PostArrives, At
  <2>q. QED BY <2>1, <2>2 DEF FlowRecords, NoFlow
<1>5. WalletTyped'
  BY <1>1, <1>2, <1>3, <1>4 DEF WalletTyped
<1>6. FlowIsTheLast'
  BY <1>1, <1>2, <1>4 DEF FlowIsTheLast
<1>7. KindsAreFixed'
  BY <1>1, <1>2, <1>3 DEF KindsAreFixed, WalletTyped
<1>8. OnlyTriedActs' /\ EscrowIsOne' /\ FlowHasWritten' /\ SpentHasClaims'
  BY <1>1, <1>2, <1>4 DEF OnlyTriedActs, EscrowIsOne, FlowHasWritten, SpentHasClaims
<1>q. QED BY <1>5, <1>6, <1>7, <1>8 DEF WalletFacts

\* The relayer settles its order, sees it cancelled or gives it up.
LEMMA RelayerEndsKeeps ==
  ASSUME WalletFacts, NEW status \in Ended, RelayerEnds(status)
  PROVE  WalletFacts'
<1>1. /\ WalletTyped /\ FlowIsTheLast /\ KindsAreFixed /\ OnlyTriedActs
      /\ EscrowIsOne /\ FlowHasWritten /\ SpentHasClaims
  BY DEF WalletFacts
<1>2. /\ relayer.status = "live"
      /\ UNCHANGED <<net, notes, claims, trades, row, kind, attempt, flow, poll>>
  BY DEF RelayerEnds, diskVars
<1>3. relayer' \in RowRecords /\ relayer'.v = relayer.v
  BY <1>1 DEF RelayerEnds, WalletTyped, RowRecords, Statuses
<1>4. relayer.v \in Attempts /\ relayer.v \in Numbers /\ relayer.v # 0 /\ relayer.v <= attempt /\ 0 \in onChain
  <2>1. relayer.v \in Attempts /\ kind[relayer.v] = "order"
    BY <1>1, <1>2 DEF KindsAreFixed
  <2>2. relayer.v <= attempt /\ relayer.v > 0 /\ relayer.v \in Numbers
    BY <1>1, <2>1, WalletAssumption DEF KindsAreFixed, WalletTyped, Attempts, Numbers
  <2>3. attempt > 0
    BY <1>1, <2>2 DEF WalletTyped, Numbers
  <2>q. QED BY <1>1, <2>1, <2>2, <2>3 DEF EscrowIsOne
<1>5. /\ \/ onChain' = onChain \cup {relayer.v} /\ spentBy' = relayer.v /\ spentBy = 0
         \/ UNCHANGED <<onChain, spentBy>>
      /\ mempool' \subseteq mempool \cup {relayer.v}
      /\ faults' \in 0 .. MaxFaults
  BY <1>1, WalletAssumption DEF RelayerEnds, chainVars, OneFault, WalletTyped
<1>6. WalletTyped'
  BY <1>1, <1>2, <1>3, <1>4, <1>5 DEF WalletTyped
<1>7. FlowIsTheLast' /\ KindsAreFixed'
  BY <1>1, <1>2, <1>3, <1>4 DEF FlowIsTheLast, NoFlow, KindsAreFixed
<1>8. OnlyTriedActs'
  BY <1>1, <1>2, <1>4, <1>5 DEF OnlyTriedActs
<1>9. EscrowIsOne'
  BY <1>1, <1>2, <1>4, <1>5 DEF EscrowIsOne
<1>10. FlowHasWritten'
  <2>1. flow.kind = "cancel" /\ flow.pc # "mine" => spentBy # 0
    BY <1>1, FlowRuns DEF FlowHasWritten
  <2>q. QED BY <1>1, <1>2, <1>5, <2>1 DEF FlowHasWritten
<1>11. SpentHasClaims'
  BY <1>1, <1>2, <1>5 DEF SpentHasClaims
<1>q. QED BY <1>6, <1>7, <1>8, <1>9, <1>10, <1>11 DEF WalletFacts

\* The poll and the note synchronisation (PendingOrdersService, Note
\* StorageService).
LEMMA BackgroundKeeps ==
  ASSUME WalletFacts, PollStep \/ \E v \in Numbers : SyncPromotes(v)
  PROVE  WalletFacts'
<1>1. /\ WalletTyped /\ FlowIsTheLast /\ KindsAreFixed /\ OnlyTriedActs
      /\ EscrowIsOne /\ FlowHasWritten /\ SpentHasClaims
  BY DEF WalletFacts
<1>2. UNCHANGED <<onChain, spentBy, mempool, net, relayer, claims, trades, kind, attempt, flow, faults>>
  BY DEF PollStep, PollFetch, PollApply, PollDrop, SyncPromotes, chainVars, relayerVars, diskVars, appVars
<1>3. /\ row' \in RowRecords /\ poll' \in PollRecords
  <2>1. /\ row \in RowRecords /\ poll \in PollRecords /\ relayer.status \in Statuses /\ poll.status \in Statuses
        /\ NoPoll \in PollRecords
    BY <1>1 DEF WalletTyped, RowRecords, PollRecords, NoPoll, Statuses
  <2>2. CASE PollFetch
    BY <2>1, <2>2 DEF PollFetch, diskVars, PollRecords
  <2>3. CASE PollApply
    BY <2>1, <2>3 DEF PollApply, PollRecords, RowRecords
  <2>4. CASE PollDrop \/ \E v \in Numbers : SyncPromotes(v)
    BY <2>1, <2>4 DEF PollDrop, SyncPromotes, appVars
  <2>q. QED BY <2>2, <2>3, <2>4 DEF PollStep
<1>4. /\ notes' \in [Numbers -> NoteRecords]
      /\ notes'[0].status = "spent" => notes[0].status = "spent"
      /\ notes'[0].leaf => notes[0].leaf \/ 0 \in onChain
  <2>1. CASE PollFetch \/ PollApply
    BY <1>1, <2>1 DEF PollFetch, PollApply, diskVars, WalletTyped
  <2>2. CASE PollDrop
    <3>1. 0 \in Numbers /\ 0 \notin trades
      BY <1>1, WalletAssumption DEF WalletTyped, Numbers, Attempts
    <3>q. QED BY <1>1, <2>2, <3>1, DroppedNotes
  <2>3. ASSUME NEW v \in Numbers, SyncPromotes(v)
        PROVE  /\ notes' \in [Numbers -> NoteRecords]
               /\ notes'[0].status = "spent" => notes[0].status = "spent"
               /\ notes'[0].leaf => notes[0].leaf \/ 0 \in onChain
    <3>1. 0 \in Numbers
      BY WalletAssumption DEF Numbers
    <3>q. QED BY <1>1, <2>3, <3>1, SyncedNotes
  <2>q. QED BY <2>1, <2>2, <2>3 DEF PollStep
<1>5. WalletTyped'
  BY <1>1, <1>2, <1>3, <1>4 DEF WalletTyped
<1>6. FlowIsTheLast' /\ KindsAreFixed' /\ OnlyTriedActs' /\ FlowHasWritten'
  BY <1>1, <1>2 DEF FlowIsTheLast, NoFlow, KindsAreFixed, OnlyTriedActs, FlowHasWritten
<1>7. EscrowIsOne'
  BY <1>1, <1>2, <1>4 DEF EscrowIsOne
<1>8. SpentHasClaims'
  BY <1>1, <1>2, <1>4 DEF SpentHasClaims
<1>q. QED BY <1>5, <1>6, <1>7, <1>8 DEF WalletFacts

\* The app is closed: what is stored stays.
LEMMA CrashKeeps ==
  ASSUME WalletFacts, Crash
  PROVE  WalletFacts'
<1>1. /\ WalletTyped /\ FlowIsTheLast /\ KindsAreFixed /\ OnlyTriedActs
      /\ EscrowIsOne /\ FlowHasWritten /\ SpentHasClaims
  BY DEF WalletFacts
<1>2. /\ flow' = NoFlow /\ poll' = NoPoll /\ faults' \in 0 .. MaxFaults
      /\ UNCHANGED <<onChain, spentBy, mempool, net, relayer, notes, claims, trades, row, kind, attempt>>
  BY <1>1, WalletAssumption DEF Crash, OneFault, chainVars, relayerVars, diskVars, WalletTyped
<1>3. NoFlow \in FlowRecords /\ NoPoll \in PollRecords
  BY WalletAssumption DEF NoFlow, FlowRecords, Pcs, Statuses, Numbers, NoPoll, PollRecords
<1>4. WalletTyped'
  BY <1>1, <1>2, <1>3 DEF WalletTyped
<1>5. FlowIsTheLast' /\ KindsAreFixed' /\ OnlyTriedActs'
  BY <1>1, <1>2 DEF FlowIsTheLast, KindsAreFixed, OnlyTriedActs
<1>6. EscrowIsOne' /\ FlowHasWritten' /\ SpentHasClaims'
  BY <1>1, <1>2 DEF EscrowIsOne, FlowHasWritten, NoFlow, SpentHasClaims
<1>q. QED BY <1>4, <1>5, <1>6 DEF WalletFacts

\* Every step keeps the facts of every behaviour.
LEMMA FactsStepKeeps ==
  ASSUME WalletFacts, [WalletNext]_walletVars
  PROVE  WalletFacts'
<1>1. CASE UserStep
  BY <1>1, StartKeeps, PostedKeeps DEF UserStep
<1>2. CASE FlowStep
  BY <1>2, MinedKeeps, PostedKeeps, SaveClaimsKeeps, MarkSpentKeeps, SaveTradeKeeps, SaveBlobKeeps,
     SaveIndexKeeps, TrackKeeps, DropChangeKeeps, MarkCancelledLocallyKeeps DEF FlowStep
<1>3. CASE PollStep \/ \E v \in Numbers : SyncPromotes(v)
  BY <1>3, BackgroundKeeps
<1>4. CASE Crash
  BY <1>4, CrashKeeps
<1>5. CASE \E v \in Numbers : Mine(v) \/ PostArrives(v)
  BY <1>5, MineKeeps, PostArrivesKeeps
<1>6. CASE \E status \in Ended : RelayerEnds(status)
  BY <1>6, RelayerEndsKeeps
<1>7. CASE UNCHANGED walletVars
  BY <1>7 DEF walletVars, chainVars, relayerVars, diskVars, appVars, WalletFacts, WalletTyped, FlowIsTheLast,
              NoFlow, KindsAreFixed, OnlyTriedActs, EscrowIsOne, FlowHasWritten, SpentHasClaims
<1>q. QED BY <1>1, <1>2, <1>3, <1>4, <1>5, <1>6, <1>7 DEF WalletNext, Numbers

-----------------------------------------------------------------------------
(* While nothing goes wrong, the steps of a flow keep the calm facts. *)

\* Storing the claim secrets keeps them (OrderService, MarketOrderService).
LEMMA SaveClaimsKeepsCalm ==
  ASSUME WalletFacts, CalmFacts, SaveClaims, faults' = faults
  PROVE  CalmFacts'
<1>1. /\ WalletTyped /\ FlowIsTheLast /\ KindsAreFixed /\ FlowHasWritten
      /\ SentIsAwaited /\ RelayerIsRight /\ DepositIsHeld /\ NoteIsHeld /\ SecretsAreHeld
  BY DEF WalletFacts, CalmFacts
<1>2. flow' = Resume /\ flow.pc = "claims"
      /\ UNCHANGED <<onChain, spentBy, mempool, net, relayer, notes, trades, row, kind, attempt, poll, faults>>
  BY DEF SaveClaims, At, chainVars, relayerVars, diskVars
<1>3. /\ flow.kind \in FlowKinds /\ flow.pc \in PcsOf(flow.kind) /\ flow.kind = kind[flow.v]
      /\ flow.v \in Numbers /\ (flow.kind = "deposit" <=> flow.v = 0) /\ (flow.v # 0 => flow.v \in Attempts)
  BY <1>1, <1>2, FlowRuns
<1>4. (flow.kind = "order" /\ GoesOn("spent")) \/ (flow.kind = "market" /\ Stops)
  BY <1>1, <1>2, FlowMoves
<1>5. claims' = claims \cup {flow.v}
  BY DEF SaveClaims
<1>6. 0 \in Numbers /\ Attempts \subseteq Numbers \ {0}
  BY WalletAssumption DEF Numbers, Attempts
<1>7. SentIsAwaited'
  BY <1>1, <1>2, <1>3, <1>4, <1>5, <1>6 DEF SentIsAwaited, GoesOn, Stops, NoFlow
<1>8. RelayerIsRight'
  BY <1>1, <1>2 DEF RelayerIsRight
<1>9. DepositIsHeld'
  BY <1>1, <1>2, <1>3, <1>4, <1>5, <1>6 DEF DepositIsHeld, Listed, GoesOn, Stops, NoFlow
<1>10. NoteIsHeld'
  BY <1>1, <1>2, <1>3, <1>4, <1>5, <1>6 DEF NoteIsHeld, Matters, Listed, NoteComes, GoesOn, Stops, NoFlow
<1>11. SecretsAreHeld'
  BY <1>1, <1>2, <1>3, <1>4, <1>5, <1>6 DEF SecretsAreHeld, Matters, SecretsCome, GoesOn, Stops, NoFlow
<1>q. QED BY <1>7, <1>8, <1>9, <1>10, <1>11 DEF CalmFacts

\* Marking the escrow spent keeps them (updateNoteStatus).
LEMMA MarkSpentKeepsCalm ==
  ASSUME WalletFacts, CalmFacts, MarkSpent, faults' = faults
  PROVE  CalmFacts'
<1>1. /\ WalletTyped /\ FlowIsTheLast /\ KindsAreFixed /\ FlowHasWritten
      /\ SentIsAwaited /\ RelayerIsRight /\ DepositIsHeld /\ NoteIsHeld /\ SecretsAreHeld
  BY DEF WalletFacts, CalmFacts
<1>2. flow' = Resume /\ flow.pc = "spent"
      /\ UNCHANGED <<onChain, spentBy, mempool, net, relayer, claims, trades, row, kind, attempt, poll, faults>>
  BY DEF MarkSpent, At, chainVars, relayerVars, diskVars
<1>3. /\ flow.kind \in FlowKinds /\ flow.pc \in PcsOf(flow.kind) /\ flow.kind = kind[flow.v]
      /\ flow.v \in Numbers /\ (flow.kind = "deposit" <=> flow.v = 0) /\ (flow.v # 0 => flow.v \in Attempts)
  BY <1>1, <1>2, FlowRuns
<1>4. \/ flow.kind = "order" /\ GoesOn("trade")
      \/ flow.kind \in {"market", "cancel"} /\ GoesOn("blob")
  BY <1>1, <1>2, FlowMoves
<1>5. /\ notes'[0].status = "spent" /\ notes'[0].indexed = notes[0].indexed
      /\ \A v \in Numbers \ {0} : notes'[v] = notes[v]
  BY <1>1, MarkSpentNotes
<1>6. 0 \in Numbers /\ Attempts \subseteq Numbers \ {0}
  BY WalletAssumption DEF Numbers, Attempts
<1>7. SentIsAwaited'
  BY <1>1, <1>2, <1>3, <1>4, <1>5, <1>6 DEF SentIsAwaited, GoesOn, Stops, NoFlow
<1>8. RelayerIsRight'
  BY <1>1, <1>2 DEF RelayerIsRight
<1>9. DepositIsHeld'
  BY <1>1, <1>2, <1>3, <1>4, <1>5, <1>6 DEF DepositIsHeld, Listed, GoesOn, Stops, NoFlow
<1>10. NoteIsHeld'
  BY <1>1, <1>2, <1>3, <1>4, <1>5, <1>6 DEF NoteIsHeld, Matters, Listed, NoteComes, GoesOn, Stops, NoFlow
<1>11. SecretsAreHeld'
  BY <1>1, <1>2, <1>3, <1>4, <1>5, <1>6 DEF SecretsAreHeld, Matters, SecretsCome, GoesOn, Stops, NoFlow
<1>q. QED BY <1>7, <1>8, <1>9, <1>10, <1>11 DEF CalmFacts

\* Writing the trade record keeps them (saveTrade).
LEMMA SaveTradeKeepsCalm ==
  ASSUME WalletFacts, CalmFacts, SaveTrade, faults' = faults
  PROVE  CalmFacts'
<1>1. /\ WalletTyped /\ FlowIsTheLast /\ KindsAreFixed /\ FlowHasWritten
      /\ SentIsAwaited /\ RelayerIsRight /\ DepositIsHeld /\ NoteIsHeld /\ SecretsAreHeld
  BY DEF WalletFacts, CalmFacts
<1>2. flow' = Resume /\ flow.pc = "trade"
      /\ UNCHANGED <<onChain, spentBy, mempool, net, relayer, notes, claims, row, kind, attempt, poll, faults>>
  BY DEF SaveTrade, At, chainVars, relayerVars, diskVars
<1>3. /\ flow.kind \in FlowKinds /\ flow.pc \in PcsOf(flow.kind) /\ flow.kind = kind[flow.v]
      /\ flow.v \in Numbers /\ (flow.kind = "deposit" <=> flow.v = 0) /\ (flow.v # 0 => flow.v \in Attempts)
  BY <1>1, <1>2, FlowRuns
<1>4. flow.kind = "order" /\ GoesOn("blob")
  BY <1>1, <1>2, FlowMoves
<1>5. notes' = notes
  BY <1>2
<1>6. 0 \in Numbers /\ Attempts \subseteq Numbers \ {0}
  BY WalletAssumption DEF Numbers, Attempts
<1>7. SentIsAwaited'
  BY <1>1, <1>2, <1>3, <1>4, <1>5, <1>6 DEF SentIsAwaited, GoesOn, Stops, NoFlow
<1>8. RelayerIsRight'
  BY <1>1, <1>2 DEF RelayerIsRight
<1>9. DepositIsHeld'
  BY <1>1, <1>2, <1>3, <1>4, <1>5, <1>6 DEF DepositIsHeld, Listed, GoesOn, Stops, NoFlow
<1>10. NoteIsHeld'
  BY <1>1, <1>2, <1>3, <1>4, <1>5, <1>6 DEF NoteIsHeld, Matters, Listed, NoteComes, GoesOn, Stops, NoFlow
<1>11. SecretsAreHeld'
  BY <1>1, <1>2, <1>3, <1>4, <1>5, <1>6 DEF SecretsAreHeld, Matters, SecretsCome, GoesOn, Stops, NoFlow
<1>q. QED BY <1>7, <1>8, <1>9, <1>10, <1>11 DEF CalmFacts

\* Writing the blob of a note keeps them (saveNote).
LEMMA SaveBlobKeepsCalm ==
  ASSUME WalletFacts, CalmFacts, SaveBlob, faults' = faults
  PROVE  CalmFacts'
<1>1. /\ WalletTyped /\ FlowIsTheLast /\ KindsAreFixed /\ FlowHasWritten
      /\ SentIsAwaited /\ RelayerIsRight /\ DepositIsHeld /\ NoteIsHeld /\ SecretsAreHeld
  BY DEF WalletFacts, CalmFacts
<1>2. flow' = Resume /\ flow.pc = "blob"
      /\ UNCHANGED <<onChain, spentBy, mempool, net, relayer, claims, trades, row, kind, attempt, poll, faults>>
  BY DEF SaveBlob, At, chainVars, relayerVars, diskVars
<1>3. /\ flow.kind \in FlowKinds /\ flow.pc \in PcsOf(flow.kind) /\ flow.kind = kind[flow.v]
      /\ flow.v \in Numbers /\ (flow.kind = "deposit" <=> flow.v = 0) /\ (flow.v # 0 => flow.v \in Attempts)
  BY <1>1, <1>2, FlowRuns
<1>4. flow.kind \in FlowKinds /\ GoesOn("index")
  BY <1>1, <1>2, FlowMoves
<1>5. /\ notes'[flow.v].status \in {"active", "pending"}
      /\ \A v \in Numbers \ {flow.v} : notes'[v] = notes[v]
  BY <1>1, SaveBlobNotes
<1>6. 0 \in Numbers /\ Attempts \subseteq Numbers \ {0}
  BY WalletAssumption DEF Numbers, Attempts
<1>7. SentIsAwaited'
  <2>1. relayer.status # "none" => flow.v # 0
    BY <1>1, <1>2, <1>6, FlowRuns, WalletAssumption DEF KindsAreFixed, Attempts
  <2>q. QED BY <1>1, <1>2, <1>3, <1>4, <1>5, <1>6, <2>1 DEF SentIsAwaited, GoesOn, Stops, NoFlow
<1>8. RelayerIsRight'
  BY <1>1, <1>2 DEF RelayerIsRight
<1>9. DepositIsHeld'
  BY <1>1, <1>2, <1>3, <1>4, <1>5, <1>6 DEF DepositIsHeld, Listed, GoesOn, Stops, NoFlow
<1>10. NoteIsHeld'
  BY <1>1, <1>2, <1>3, <1>4, <1>5, <1>6 DEF NoteIsHeld, Matters, Listed, NoteComes, GoesOn, Stops, NoFlow
<1>11. SecretsAreHeld'
  BY <1>1, <1>2, <1>3, <1>4, <1>5, <1>6 DEF SecretsAreHeld, Matters, SecretsCome, GoesOn, Stops, NoFlow
<1>q. QED BY <1>7, <1>8, <1>9, <1>10, <1>11 DEF CalmFacts

\* Indexing a note keeps them (saveNote).
LEMMA SaveIndexKeepsCalm ==
  ASSUME WalletFacts, CalmFacts, SaveIndex, faults' = faults
  PROVE  CalmFacts'
<1>1. /\ WalletTyped /\ FlowIsTheLast /\ KindsAreFixed /\ FlowHasWritten
      /\ SentIsAwaited /\ RelayerIsRight /\ DepositIsHeld /\ NoteIsHeld /\ SecretsAreHeld
  BY DEF WalletFacts, CalmFacts
<1>2. flow' = Resume /\ flow.pc = "index"
      /\ UNCHANGED <<onChain, spentBy, mempool, net, relayer, claims, trades, row, kind, attempt, poll, faults>>
  BY DEF SaveIndex, At, chainVars, relayerVars, diskVars
<1>3. /\ flow.kind \in FlowKinds /\ flow.pc \in PcsOf(flow.kind) /\ flow.kind = kind[flow.v]
      /\ flow.v \in Numbers /\ (flow.kind = "deposit" <=> flow.v = 0) /\ (flow.v # 0 => flow.v \in Attempts)
  BY <1>1, <1>2, FlowRuns
<1>4. \/ flow.kind = "deposit" /\ Stops
      \/ flow.kind = "order" /\ GoesOn("track")
      \/ flow.kind = "market" /\ GoesOn("claims")
      \/ flow.kind = "cancel" /\ GoesOn("drop")
  BY <1>1, <1>2, FlowMoves
<1>5. /\ notes'[flow.v].status = notes[flow.v].status /\ notes'[flow.v].indexed
      /\ \A v \in Numbers \ {flow.v} : notes'[v] = notes[v]
  BY <1>1, SaveIndexNotes
<1>6. 0 \in Numbers /\ Attempts \subseteq Numbers \ {0}
  BY WalletAssumption DEF Numbers, Attempts
<1>7. SentIsAwaited'
  BY <1>1, <1>2, <1>3, <1>4, <1>5, <1>6 DEF SentIsAwaited, GoesOn, Stops, NoFlow
<1>8. RelayerIsRight'
  BY <1>1, <1>2 DEF RelayerIsRight
<1>9. DepositIsHeld'
  BY <1>1, <1>2, <1>3, <1>4, <1>5, <1>6 DEF DepositIsHeld, Listed, GoesOn, Stops, NoFlow
<1>10. NoteIsHeld'
  BY <1>1, <1>2, <1>3, <1>4, <1>5, <1>6 DEF NoteIsHeld, Matters, Listed, NoteComes, GoesOn, Stops, NoFlow
<1>11. SecretsAreHeld'
  BY <1>1, <1>2, <1>3, <1>4, <1>5, <1>6 DEF SecretsAreHeld, Matters, SecretsCome, GoesOn, Stops, NoFlow
<1>q. QED BY <1>7, <1>8, <1>9, <1>10, <1>11 DEF CalmFacts

\* Tracking the order's row keeps them (track).
LEMMA TrackKeepsCalm ==
  ASSUME WalletFacts, CalmFacts, Track, faults' = faults
  PROVE  CalmFacts'
<1>1. /\ WalletTyped /\ FlowIsTheLast /\ KindsAreFixed /\ FlowHasWritten
      /\ SentIsAwaited /\ RelayerIsRight /\ DepositIsHeld /\ NoteIsHeld /\ SecretsAreHeld
  BY DEF WalletFacts, CalmFacts
<1>2. flow' = Resume /\ flow.pc = "track"
      /\ UNCHANGED <<onChain, spentBy, mempool, net, relayer, notes, claims, trades, kind, attempt, poll>>
  BY DEF Track, At, chainVars, relayerVars, diskVars
<1>3. /\ flow.kind \in FlowKinds /\ flow.pc \in PcsOf(flow.kind) /\ flow.kind = kind[flow.v]
      /\ flow.v \in Numbers /\ (flow.kind = "deposit" <=> flow.v = 0) /\ (flow.v # 0 => flow.v \in Attempts)
  BY <1>1, <1>2, FlowRuns
<1>4. flow.kind = "order" /\ Stops
  BY <1>1, <1>2, FlowMoves
<1>5. notes' = notes
  BY <1>2
<1>6. 0 \in Numbers /\ Attempts \subseteq Numbers \ {0}
  BY WalletAssumption DEF Numbers, Attempts
<1>7. SentIsAwaited'
  BY <1>1, <1>2, <1>3, <1>4, <1>5, <1>6 DEF SentIsAwaited, GoesOn, Stops, NoFlow
<1>8. RelayerIsRight'
  BY <1>1, <1>2 DEF RelayerIsRight
<1>9. DepositIsHeld'
  BY <1>1, <1>2, <1>3, <1>4, <1>5, <1>6 DEF DepositIsHeld, Listed, GoesOn, Stops, NoFlow
<1>10. NoteIsHeld'
  BY <1>1, <1>2, <1>3, <1>4, <1>5, <1>6 DEF NoteIsHeld, Matters, Listed, NoteComes, GoesOn, Stops, NoFlow
<1>11. SecretsAreHeld'
  BY <1>1, <1>2, <1>3, <1>4, <1>5, <1>6 DEF SecretsAreHeld, Matters, SecretsCome, GoesOn, Stops, NoFlow
<1>q. QED BY <1>7, <1>8, <1>9, <1>10, <1>11 DEF CalmFacts

\* Dropping a change note after a cancellation, which is not the note the money is in, keeps them (handleCancelPendingOrder).
LEMMA DropChangeKeepsCalm ==
  ASSUME WalletFacts, CalmFacts, DropChange, faults' = faults
  PROVE  CalmFacts'
<1>1. /\ WalletTyped /\ FlowIsTheLast /\ KindsAreFixed /\ FlowHasWritten
      /\ SentIsAwaited /\ RelayerIsRight /\ DepositIsHeld /\ NoteIsHeld /\ SecretsAreHeld
  BY DEF WalletFacts, CalmFacts
<1>2. flow' = Resume /\ flow.pc = "drop"
      /\ UNCHANGED <<onChain, spentBy, mempool, net, relayer, claims, trades, row, kind, attempt, poll, faults>>
  BY DEF DropChange, At, chainVars, relayerVars, diskVars
<1>3. /\ flow.kind \in FlowKinds /\ flow.pc \in PcsOf(flow.kind) /\ flow.kind = kind[flow.v]
      /\ flow.v \in Numbers /\ (flow.kind = "deposit" <=> flow.v = 0) /\ (flow.v # 0 => flow.v \in Attempts)
  BY <1>1, <1>2, FlowRuns
<1>4. flow.kind = "cancel" /\ GoesOn("mark")
  BY <1>1, <1>2, FlowMoves
<1>5. /\ spentBy = flow.v /\ flow.v # 0 /\ kind[spentBy] = "cancel"
      /\ \A v \in Numbers : v \notin trades => notes'[v] = notes[v]
      /\ 0 \notin trades /\ spentBy \notin trades
  <2>1. spentBy = flow.v /\ flow.v # 0 /\ kind[spentBy] = "cancel"
    BY <1>1, <1>2, <1>3, <1>4 DEF FlowHasWritten
  <2>2. 0 \notin trades /\ spentBy \notin trades
    BY <1>1, <2>1 DEF KindsAreFixed
  <2>q. QED BY <1>1, <2>1, <2>2, DroppedNotes
<1>6. 0 \in Numbers /\ Attempts \subseteq Numbers \ {0}
  BY WalletAssumption DEF Numbers, Attempts
<1>7. SentIsAwaited'
  BY <1>1, <1>2, <1>3, <1>4, <1>5, <1>6 DEF SentIsAwaited, GoesOn, Stops, NoFlow
<1>8. RelayerIsRight'
  BY <1>1, <1>2 DEF RelayerIsRight
<1>9. DepositIsHeld'
  BY <1>1, <1>2, <1>3, <1>4, <1>5, <1>6 DEF DepositIsHeld, Listed, GoesOn, Stops, NoFlow
<1>10. NoteIsHeld'
  BY <1>1, <1>2, <1>3, <1>4, <1>5, <1>6 DEF NoteIsHeld, Matters, Listed, NoteComes, GoesOn, Stops, NoFlow
<1>11. SecretsAreHeld'
  BY <1>1, <1>2, <1>3, <1>4, <1>5, <1>6 DEF SecretsAreHeld, Matters, SecretsCome, GoesOn, Stops, NoFlow
<1>q. QED BY <1>7, <1>8, <1>9, <1>10, <1>11 DEF CalmFacts

\* Marking the row of a cancelled order keeps them (markCancelledLocally).
LEMMA MarkCancelledLocallyKeepsCalm ==
  ASSUME WalletFacts, CalmFacts, MarkCancelledLocally, faults' = faults
  PROVE  CalmFacts'
<1>1. /\ WalletTyped /\ FlowIsTheLast /\ KindsAreFixed /\ FlowHasWritten
      /\ SentIsAwaited /\ RelayerIsRight /\ DepositIsHeld /\ NoteIsHeld /\ SecretsAreHeld
  BY DEF WalletFacts, CalmFacts
<1>2. flow' = Resume /\ flow.pc = "mark"
      /\ UNCHANGED <<onChain, spentBy, mempool, net, relayer, notes, claims, trades, kind, attempt, poll, faults>>
  BY DEF MarkCancelledLocally, At, chainVars, relayerVars, diskVars
<1>3. /\ flow.kind \in FlowKinds /\ flow.pc \in PcsOf(flow.kind) /\ flow.kind = kind[flow.v]
      /\ flow.v \in Numbers /\ (flow.kind = "deposit" <=> flow.v = 0) /\ (flow.v # 0 => flow.v \in Attempts)
  BY <1>1, <1>2, FlowRuns
<1>4. flow.kind = "cancel" /\ Stops
  BY <1>1, <1>2, FlowMoves
<1>5. notes' = notes
  BY <1>2
<1>6. 0 \in Numbers /\ Attempts \subseteq Numbers \ {0}
  BY WalletAssumption DEF Numbers, Attempts
<1>7. SentIsAwaited'
  BY <1>1, <1>2, <1>3, <1>4, <1>5, <1>6 DEF SentIsAwaited, GoesOn, Stops, NoFlow
<1>8. RelayerIsRight'
  BY <1>1, <1>2 DEF RelayerIsRight
<1>9. DepositIsHeld'
  BY <1>1, <1>2, <1>3, <1>4, <1>5, <1>6 DEF DepositIsHeld, Listed, GoesOn, Stops, NoFlow
<1>10. NoteIsHeld'
  BY <1>1, <1>2, <1>3, <1>4, <1>5, <1>6 DEF NoteIsHeld, Matters, Listed, NoteComes, GoesOn, Stops, NoFlow
<1>11. SecretsAreHeld'
  BY <1>1, <1>2, <1>3, <1>4, <1>5, <1>6 DEF SecretsAreHeld, Matters, SecretsCome, GoesOn, Stops, NoFlow
<1>q. QED BY <1>7, <1>8, <1>9, <1>10, <1>11 DEF CalmFacts

\* A receipt: the flow goes on, unless another attempt has spent the escrow.
LEMMA MinedKeepsCalm ==
  ASSUME WalletFacts, CalmFacts, Mined, faults' = faults
  PROVE  CalmFacts'
<1>1. /\ WalletTyped /\ FlowIsTheLast /\ KindsAreFixed /\ EscrowIsOne
      /\ SentIsAwaited /\ RelayerIsRight /\ DepositIsHeld /\ NoteIsHeld /\ SecretsAreHeld
  BY DEF WalletFacts, CalmFacts
<1>2. /\ flow.pc = "mine" /\ flow.v \notin mempool
      /\ UNCHANGED <<onChain, spentBy, mempool, net, relayer, notes, claims, trades, row, kind, attempt, poll, faults>>
  BY DEF Mined, At, chainVars, relayerVars, diskVars
<1>3. /\ flow.kind \in FlowKinds /\ flow.pc \in PcsOf(flow.kind) /\ flow.kind = kind[flow.v]
      /\ flow.v \in Numbers /\ (flow.kind = "deposit" <=> flow.v = 0) /\ (flow.v # 0 => flow.v \in Attempts)
  BY <1>1, <1>2, FlowRuns
<1>4. mempool = {} /\ net = {} /\ flow.kind # "order"
  BY <1>1, <1>2, <1>3 DEF SentIsAwaited, PcsOf
<1>5. \/ flow.kind = "deposit" /\ GoesOn("blob")
      \/ flow.kind \in {"market", "cancel"} /\ GoesOn("spent")
      \/ Stops /\ flow.v # 0 /\ flow.v \notin onChain
  <2>1. flow.v = 0 => 0 \in onChain
    BY <1>1, <1>2, <1>3, <1>4 DEF DepositIsHeld
  <2>2. CASE flow.v \in onChain
    BY <1>1, <1>2, <2>2, FlowMoves DEF Mined
  <2>3. CASE flow.v \notin onChain
    BY <2>1, <2>3 DEF Mined, Stops
  <2>q. QED BY <2>2, <2>3
<1>6. ASSUME NEW v \in Attempts, Matters(v), flow.v \notin onChain
      PROVE  flow.v # v
  <2>1. CASE v = spentBy
    BY <1>1, <1>6, <2>1 DEF Attempts, EscrowIsOne
  <2>2. CASE v = relayer.v /\ relayer.status = "live"
    BY <1>1, <1>3, <1>4, <2>2 DEF KindsAreFixed
  <2>q. QED BY <1>6, <2>1, <2>2 DEF Matters
<1>7. SentIsAwaited'
  <2>1. flow.v # 0 /\ flow.kind # "order" => flow'.pc \in {"spent", "idle"}
    BY <1>3, <1>5 DEF GoesOn, Stops, NoFlow
  <2>2. relayer.status # "none" => notes[0].status = "spent"
    BY <1>1, <1>4 DEF SentIsAwaited
  <2>3. flow'.pc # "post"
    BY <1>5 DEF GoesOn, Stops, NoFlow
  <2>q. QED BY <1>2, <1>4, <2>2, <2>3 DEF SentIsAwaited
<1>8. RelayerIsRight'
  BY <1>1, <1>2 DEF RelayerIsRight
<1>9. DepositIsHeld'
  BY <1>1, <1>2, <1>3, <1>5 DEF DepositIsHeld, Listed, GoesOn, Stops, NoFlow
<1>10. NoteIsHeld'
  <2>1. SUFFICES ASSUME NEW v \in Attempts, Matters(v)'
                 PROVE  (Listed(v) \/ NoteComes(v))'
    BY DEF NoteIsHeld
  <2>2. Matters(v) /\ (Listed(v) \/ NoteComes(v))
    BY <1>1, <1>2, <2>1 DEF Matters, NoteIsHeld
  <2>3. CASE Listed(v)
    BY <1>2, <2>3 DEF Listed
  <2>4. CASE NoteComes(v)
    <3>1. flow.v = v /\ v # 0
      BY <2>4 DEF NoteComes, Attempts
    <3>2. GoesOn("spent")
      BY <1>3, <1>5, <1>6, <2>2, <3>1
    <3>q. QED BY <3>1, <3>2 DEF NoteComes, GoesOn
  <2>q. QED BY <2>2, <2>3, <2>4
<1>11. SecretsAreHeld'
  <2>1. SUFFICES ASSUME NEW v \in Attempts, Matters(v)', (kind[v] # "cancel")'
                 PROVE  (v \in claims \/ SecretsCome(v))'
    BY DEF SecretsAreHeld
  <2>2. Matters(v) /\ (v \in claims \/ SecretsCome(v))
    BY <1>1, <1>2, <2>1 DEF Matters, SecretsAreHeld
  <2>3. CASE SecretsCome(v)
    <3>1. flow.v = v /\ v # 0 /\ flow.kind = "market"
      BY <1>2, <2>3 DEF SecretsCome, Attempts
    <3>2. GoesOn("spent")
      BY <1>3, <1>5, <1>6, <2>2, <3>1
    <3>q. QED BY <3>1, <3>2 DEF SecretsCome, GoesOn
  <2>q. QED BY <1>2, <2>2, <2>3
<1>q. QED BY <1>7, <1>8, <1>9, <1>10, <1>11 DEF CalmFacts

\* The answer to a POST: it is an acceptance, or the order was refused before
\* the relayer stored it.
LEMMA PostedKeepsCalm ==
  ASSUME WalletFacts, CalmFacts, Posted, faults' = faults
  PROVE  CalmFacts'
<1>1. /\ WalletTyped /\ FlowIsTheLast /\ KindsAreFixed
      /\ SentIsAwaited /\ RelayerIsRight /\ DepositIsHeld /\ NoteIsHeld /\ SecretsAreHeld
  BY DEF WalletFacts, CalmFacts
<1>2. /\ flow.pc = "post" /\ net' = net \ {flow.v}
      /\ UNCHANGED <<onChain, spentBy, mempool, relayer, notes, claims, trades, row, kind, attempt, poll>>
  BY DEF Posted, At, chainVars, diskVars
<1>3. /\ flow.kind \in FlowKinds /\ flow.pc \in PcsOf(flow.kind) /\ flow.kind = kind[flow.v]
      /\ flow.v \in Numbers /\ (flow.kind = "deposit" <=> flow.v = 0) /\ (flow.v # 0 => flow.v \in Attempts)
  BY <1>1, <1>2, FlowRuns
<1>4. flow.kind = "order" /\ flow.v \in Attempts
  BY <1>2, <1>3 DEF PcsOf, FlowKinds
<1>5. mempool = {} /\ net' = {}
  BY <1>1, <1>2 DEF SentIsAwaited
<1>6. \/ GoesOn("claims") /\ flow.v \notin net
      \/ Stops /\ relayer.status = "none"
  <2>1. CASE flow.v \in net
    BY <1>1, <2>1 DEF Posted, Stops, SentIsAwaited
  <2>2. CASE flow.v \notin net
    <3>1. flow.reply = "live"
      BY <1>1, <1>2, <2>2 DEF SentIsAwaited
    <3>2. flow' = Resume
      BY <2>2, <3>1 DEF Posted
    <3>q. QED BY <1>1, <1>2, <2>2, <3>2, FlowMoves
  <2>q. QED BY <2>1, <2>2
<1>7. SentIsAwaited'
  BY <1>1, <1>2, <1>4, <1>5, <1>6 DEF SentIsAwaited, GoesOn, Stops, NoFlow
<1>8. RelayerIsRight'
  BY <1>1, <1>2 DEF RelayerIsRight
<1>9. DepositIsHeld'
  BY <1>1, <1>2, <1>4, <1>6 DEF DepositIsHeld, Listed, GoesOn, Stops, NoFlow
<1>10. relayer.status = "none" => ~Matters(flow.v)
  BY <1>1, <1>3, <1>4 DEF RelayerIsRight, Matters
<1>11. NoteIsHeld'
  BY <1>1, <1>2, <1>4, <1>6, <1>10 DEF NoteIsHeld, Matters, Listed, NoteComes, GoesOn
<1>12. SecretsAreHeld'
  BY <1>1, <1>2, <1>4, <1>6, <1>10 DEF SecretsAreHeld, Matters, SecretsCome, GoesOn
<1>q. QED BY <1>7, <1>8, <1>9, <1>11, <1>12 DEF CalmFacts

-----------------------------------------------------------------------------
(* The user, the chain, the relayer and the background keep them. *)

\* A new attempt is the only thing that is sent, and no money depends on it
\* yet.
LEMMA BeginKeepsCalm ==
  ASSUME WalletFacts, CalmFacts, NEW k \in FlowKinds, NEW v \in Numbers, Begin(k, v),
         k = "deposit" => v = 0 /\ 0 \notin onChain,
         k # "deposit" => v = attempt + 1,
         k = "order" => notes[0].status = "active"
  PROVE  CalmFacts'
<1>1. /\ WalletTyped /\ KindsAreFixed /\ OnlyTriedActs /\ EscrowIsOne
      /\ SentIsAwaited /\ RelayerIsRight /\ DepositIsHeld /\ NoteIsHeld /\ SecretsAreHeld
  BY DEF WalletFacts, CalmFacts
<1>2. /\ flow = NoFlow /\ flow.pc = "idle" /\ flow.kind = "none" /\ kind' = [kind EXCEPT ![v] = k]
      /\ UNCHANGED <<onChain, spentBy, relayer, notes, claims, trades, row, poll, faults>>
      /\ k = "order" => net' = net \cup {v} /\ mempool' = mempool
      /\ k # "order" => net' = net /\ mempool' = mempool \cup {v}
  BY DEF Begin, diskVars, NoFlow
<1>3. /\ flow'.kind = k /\ flow'.v = v /\ flow'.reply = "none"
      /\ k = "order" => flow'.pc = "post"
      /\ k # "order" => flow'.pc = "mine"
  <2>1. flow' = [kind |-> k, v |-> v, pc |-> Head(Steps(k)), reply |-> "none"]
    BY DEF Begin
  <2>2. /\ k = "order" => Head(Steps(k)) = "post"
        /\ k # "order" => Head(Steps(k)) = "mine"
    BY DEF Steps, FlowKinds
  <2>q. QED BY <2>1, <2>2
<1>4. net = {} /\ mempool = {} /\ (relayer.status # "none" => notes[0].status = "spent")
  BY <1>1, <1>2 DEF SentIsAwaited
<1>5. v # 0 => v > attempt /\ kind[v] = "none"
  <2>1. v # 0 => v = attempt + 1 /\ v \in Attempts /\ attempt \in Nat
    BY <1>1, WalletAssumption DEF WalletTyped, Numbers, Attempts
  <2>q. QED BY <1>1, <2>1 DEF KindsAreFixed
<1>6. \A u \in Numbers : u # v => kind'[u] = kind[u]
  BY <1>1, <1>2 DEF WalletTyped
<1>7. v # spentBy \/ v = 0
  BY <1>1, <1>5 DEF OnlyTriedActs, WalletTyped, Numbers
<1>8. relayer.status # "none" => v # relayer.v
  BY <1>1, <1>5, WalletAssumption DEF KindsAreFixed, Attempts
<1>9. SentIsAwaited'
  BY <1>2, <1>3, <1>4 DEF SentIsAwaited
<1>10. kind'[spentBy] = "order" => kind[spentBy] = "order"
  <2>1. v = 0 => k = "deposit"
    BY <1>1 DEF WalletTyped, Numbers
  <2>2. kind' \in [Numbers -> FlowKinds \cup {"none"}] /\ kind'[v] = k /\ spentBy \in Numbers
    BY <1>1, <1>2 DEF WalletTyped
  <2>q. QED BY <1>6, <1>7, <2>1, <2>2
<1>11. RelayerIsRight'
  BY <1>1, <1>2, <1>10 DEF RelayerIsRight
<1>12. DepositIsHeld'
  BY <1>1, <1>2, <1>3 DEF DepositIsHeld, Listed
<1>13. ASSUME NEW u \in Attempts, Matters(u)'
       PROVE  Matters(u) /\ u # v /\ kind'[u] = kind[u]
  <2>1. Matters(u) /\ u \in Numbers /\ u # 0
    BY <1>2, <1>13, WalletAssumption DEF Matters, Attempts, Numbers
  <2>2. u # v
    BY <1>7, <1>8, <2>1 DEF Matters
  <2>q. QED BY <1>6, <2>1, <2>2
<1>14. NoteIsHeld'
  BY <1>1, <1>2, <1>13 DEF NoteIsHeld, Listed, NoteComes
<1>15. SecretsAreHeld'
  BY <1>1, <1>2, <1>13 DEF SecretsAreHeld, SecretsCome
<1>q. QED BY <1>9, <1>11, <1>12, <1>14, <1>15 DEF CalmFacts

\* The user starts a deposit, an order or a cancellation.
LEMMA StartKeepsCalm ==
  ASSUME WalletFacts, CalmFacts, DepositStart \/ CancelStart \/ \E k \in {"order", "market"} : OrderStart(k)
  PROVE  CalmFacts'
<1>1. attempt \in Numbers
  BY DEF WalletFacts, WalletTyped
<1>2. CASE DepositStart
  <2>1. Begin("deposit", 0) /\ 0 \notin onChain
    BY <1>2 DEF DepositStart
  <2>q. QED BY <2>1, BeginKeepsCalm, WalletAssumption DEF FlowKinds, Numbers
<1>3. ASSUME NEW k \in {"order", "market", "cancel"}, Begin(k, attempt + 1), attempt < MaxAttempts,
             k = "order" => notes[0].status = "active"
      PROVE  CalmFacts'
  <2>1. attempt + 1 \in Numbers
    BY <1>1, <1>3, WalletAssumption DEF Numbers
  <2>q. QED BY <1>3, <2>1, BeginKeepsCalm DEF FlowKinds
<1>4. CASE CancelStart
  BY <1>3, <1>4 DEF CancelStart
<1>5. CASE \E k \in {"order", "market"} : OrderStart(k)
  BY <1>3, <1>5 DEF OrderStart
<1>q. QED BY <1>2, <1>4, <1>5

\* What is mined is awaited by the flow, which still has its writes to do.
LEMMA MineKeepsCalm ==
  ASSUME WalletFacts, CalmFacts, NEW v \in Numbers, Mine(v)
  PROVE  CalmFacts'
<1>1. /\ WalletTyped /\ FlowIsTheLast /\ KindsAreFixed /\ OnlyTriedActs /\ EscrowIsOne
      /\ SentIsAwaited /\ RelayerIsRight /\ DepositIsHeld /\ NoteIsHeld /\ SecretsAreHeld
  BY DEF WalletFacts, CalmFacts
<1>2. /\ v \in mempool /\ mempool' = mempool \ {v}
      /\ UNCHANGED <<net, relayer, notes, claims, trades, row, kind, attempt, flow, poll, faults>>
  BY DEF Mine, relayerVars, diskVars, appVars
<1>3. \/ onChain' = onChain \cup {v} /\ spentBy' = v /\ spentBy = 0
      \/ UNCHANGED <<onChain, spentBy>> /\ v # 0
  <2>1. v = 0 => spentBy = 0
    BY <1>1, <1>2 DEF EscrowIsOne, OnlyTriedActs, WalletTyped, Numbers
  <2>q. QED BY <2>1 DEF Mine
<1>4. flow.v = v /\ flow.pc = "mine"
  BY <1>1, <1>2 DEF SentIsAwaited
<1>5. /\ flow.kind \in FlowKinds /\ flow.pc \in PcsOf(flow.kind) /\ flow.kind = kind[v]
      /\ flow.kind = "deposit" <=> v = 0
  BY <1>1, <1>4, FlowRuns
<1>6. flow.kind # "order"
  BY <1>4, <1>5 DEF PcsOf
<1>7. SentIsAwaited'
  BY <1>1, <1>2 DEF SentIsAwaited
<1>8. RelayerIsRight'
  BY <1>1, <1>2, <1>3, <1>5, <1>6 DEF RelayerIsRight
<1>9. DepositIsHeld'
  BY <1>1, <1>2, <1>3, <1>4, <1>5 DEF DepositIsHeld, Listed
<1>10. ASSUME NEW u \in Attempts, Matters(u)', u # v
       PROVE  Matters(u)
  BY <1>2, <1>3, <1>10 DEF Matters, Attempts
<1>11. NoteIsHeld'
  BY <1>1, <1>2, <1>4, <1>10 DEF NoteIsHeld, Listed, NoteComes
<1>12. SecretsAreHeld'
  <2>1. SUFFICES ASSUME NEW u \in Attempts, Matters(u)', (kind[u] # "cancel")'
                 PROVE  (u \in claims \/ SecretsCome(u))'
    BY DEF SecretsAreHeld
  <2>2. CASE u = v
    BY <1>2, <1>4, <1>5, <1>6, <2>1, <2>2 DEF SecretsCome, FlowKinds, Attempts
  <2>3. CASE u # v
    BY <1>1, <1>2, <1>10, <2>1, <2>3 DEF SecretsAreHeld, SecretsCome
  <2>q. QED BY <2>2, <2>3
<1>q. QED BY <1>7, <1>8, <1>9, <1>11, <1>12 DEF CalmFacts

\* An order that reaches the relayer is the first one that does.
LEMMA PostArrivesKeepsCalm ==
  ASSUME WalletFacts, CalmFacts, NEW v \in Numbers, PostArrives(v)
  PROVE  CalmFacts'
<1>1. /\ WalletTyped /\ FlowIsTheLast /\ KindsAreFixed
      /\ SentIsAwaited /\ RelayerIsRight /\ DepositIsHeld /\ NoteIsHeld /\ SecretsAreHeld
  BY DEF WalletFacts, CalmFacts
<1>2. /\ v \in net /\ net' = net \ {v}
      /\ UNCHANGED <<onChain, spentBy, mempool, notes, claims, trades, row, kind, attempt, poll, faults>>
  BY DEF PostArrives, chainVars, diskVars
<1>3. flow.v = v /\ flow.pc = "post" /\ relayer.status = "none" /\ kind[v] = "order" /\ v # 0
  BY <1>1, <1>2 DEF SentIsAwaited, KindsAreFixed
<1>4. flow.kind = "order"
  BY <1>1, <1>3, FlowRuns
<1>5. relayer' = [status |-> "live", v |-> v]
  BY <1>3 DEF PostArrives
<1>6. flow'.kind = flow.kind /\ flow'.v = flow.v /\ flow'.pc = flow.pc /\ flow'.reply = "live"
  <2>1. flow \in FlowRecords
    BY <1>1 DEF WalletTyped
  <2>q. QED BY <1>3, <1>5, <2>1 DEF PostArrives, At, FlowRecords
<1>7. mempool' = {} /\ net' = {}
  BY <1>1, <1>2, <1>3 DEF SentIsAwaited
<1>8. SentIsAwaited'
  BY <1>2, <1>3, <1>4, <1>5, <1>6, <1>7 DEF SentIsAwaited
<1>9. RelayerIsRight'
  BY <1>1, <1>2, <1>3 DEF RelayerIsRight, Ended
<1>10. DepositIsHeld'
  BY <1>1, <1>2, <1>3, <1>4, <1>6 DEF DepositIsHeld, Listed
<1>11. ASSUME NEW u \in Attempts, Matters(u)', u # v
       PROVE  Matters(u)
  BY <1>2, <1>5, <1>11 DEF Matters
<1>12. NoteIsHeld'
  BY <1>1, <1>2, <1>3, <1>6, <1>11 DEF NoteIsHeld, Listed, NoteComes
<1>13. SecretsAreHeld'
  BY <1>1, <1>2, <1>3, <1>4, <1>6, <1>11 DEF SecretsAreHeld, SecretsCome
<1>q. QED BY <1>8, <1>9, <1>10, <1>12, <1>13 DEF CalmFacts

\* The relayer ends its order once, and no transaction of it is left behind.
LEMMA RelayerEndsKeepsCalm ==
  ASSUME WalletFacts, CalmFacts, NEW status \in Ended, RelayerEnds(status), faults' = faults
  PROVE  CalmFacts'
<1>1. /\ WalletTyped /\ FlowIsTheLast /\ KindsAreFixed
      /\ SentIsAwaited /\ RelayerIsRight /\ DepositIsHeld /\ NoteIsHeld /\ SecretsAreHeld
  BY DEF WalletFacts, CalmFacts
<1>2. /\ relayer.status = "live"
      /\ UNCHANGED <<net, notes, claims, trades, row, kind, attempt, flow, poll>>
  BY DEF RelayerEnds, diskVars
<1>3. relayer'.v = relayer.v /\ relayer'.status = status /\ status \notin {"none", "live"}
  BY <1>1 DEF RelayerEnds, WalletTyped, RowRecords, Ended
<1>4. mempool' = mempool
  <2>1. faults \in Int
    BY <1>1, WalletAssumption DEF WalletTyped
  <2>q. QED BY <2>1 DEF RelayerEnds, chainVars, OneFault
<1>5. relayer.v \in Attempts /\ relayer.v # 0 /\ kind[relayer.v] = "order" /\ kind[0] = "deposit"
  BY <1>1, <1>2 DEF KindsAreFixed, Attempts
<1>6. \/ /\ status = "settled" /\ spentBy = 0
         /\ spentBy' = relayer.v /\ onChain' = onChain \cup {relayer.v}
      \/ UNCHANGED <<onChain, spentBy>>
  BY DEF RelayerEnds, chainVars
<1>7. SentIsAwaited'
  BY <1>1, <1>2, <1>3, <1>4 DEF SentIsAwaited
<1>8. RelayerIsRight'
  BY <1>1, <1>2, <1>3, <1>5, <1>6 DEF RelayerIsRight, Ended
<1>9. DepositIsHeld'
  BY <1>1, <1>2, <1>4, <1>5, <1>6 DEF DepositIsHeld, Listed
<1>10. ASSUME NEW u \in Attempts, Matters(u)'
       PROVE  Matters(u)
  BY <1>2, <1>3, <1>6, <1>10 DEF Matters, Attempts
<1>11. NoteIsHeld' /\ SecretsAreHeld'
  BY <1>1, <1>2, <1>10 DEF NoteIsHeld, SecretsAreHeld, Listed, NoteComes, SecretsCome
<1>q. QED BY <1>7, <1>8, <1>9, <1>11 DEF CalmFacts

\* What the poll fetched is still true when it is applied, so a change note is
\* dropped only when its order cannot have settled.
LEMMA PollKeepsCalm ==
  ASSUME WalletFacts, CalmFacts, PollStep
  PROVE  CalmFacts'
<1>1. /\ WalletTyped /\ FlowIsTheLast /\ KindsAreFixed
      /\ SentIsAwaited /\ RelayerIsRight /\ DepositIsHeld /\ NoteIsHeld /\ SecretsAreHeld
  BY DEF WalletFacts, CalmFacts
<1>2. UNCHANGED <<onChain, spentBy, mempool, net, relayer, claims, trades, kind, attempt, flow, faults>>
  BY DEF PollStep, PollFetch, PollApply, PollDrop, chainVars, relayerVars, diskVars
<1>3. RelayerIsRight'
  <2>1. poll \in PollRecords
    BY <1>1 DEF WalletTyped
  <2>2. CASE PollFetch
    BY <1>1, <1>2, <2>2 DEF RelayerIsRight, PollFetch
  <2>3. CASE PollApply
    BY <1>1, <1>2, <2>1, <2>3 DEF RelayerIsRight, PollApply, NoPoll, PollRecords, Ended
  <2>4. CASE PollDrop
    BY <1>1, <1>2, <2>4 DEF RelayerIsRight, PollDrop, NoPoll, Ended
  <2>q. QED BY <2>2, <2>3, <2>4 DEF PollStep
<1>4. /\ notes'[0] = notes[0]
      /\ \A v \in Attempts : Matters(v) => notes'[v] = notes[v]
  <2>1. CASE PollFetch \/ PollApply
    BY <2>1 DEF PollFetch, PollApply, diskVars
  <2>2. CASE PollDrop
    <3>1. relayer.status \notin {"settled", "live"}
      BY <1>1, <2>2 DEF PollDrop, RelayerIsRight, RollsBack, Ended
    <3>2. 0 \in Numbers /\ 0 \notin trades /\ Attempts \subseteq Numbers
      BY <1>1, WalletAssumption DEF WalletTyped, Numbers, Attempts
    <3>3. ASSUME NEW v \in Attempts, Matters(v)
          PROVE  v \notin trades
      BY <1>1, <3>1, <3>3 DEF Matters, KindsAreFixed, RelayerIsRight
    <3>q. QED BY <1>1, <2>2, <3>2, <3>3, DroppedNotes
  <2>q. QED BY <2>1, <2>2 DEF PollStep
<1>5. SentIsAwaited'
  BY <1>1, <1>2, <1>4 DEF SentIsAwaited
<1>6. DepositIsHeld'
  BY <1>1, <1>2, <1>4 DEF DepositIsHeld, Listed
<1>7. NoteIsHeld' /\ SecretsAreHeld'
  BY <1>1, <1>2, <1>4 DEF NoteIsHeld, SecretsAreHeld, Matters, Listed, NoteComes, SecretsCome
<1>q. QED BY <1>3, <1>5, <1>6, <1>7 DEF CalmFacts

\* The synchronisation takes no note from the wallet.
LEMMA SyncKeepsCalm ==
  ASSUME WalletFacts, CalmFacts, NEW v \in Numbers, SyncPromotes(v)
  PROVE  CalmFacts'
<1>1. /\ WalletTyped
      /\ SentIsAwaited /\ RelayerIsRight /\ DepositIsHeld /\ NoteIsHeld /\ SecretsAreHeld
  BY DEF WalletFacts, CalmFacts
<1>2. UNCHANGED <<onChain, spentBy, mempool, net, relayer, claims, trades, kind, attempt, flow, poll, faults>>
  BY DEF SyncPromotes, chainVars, relayerVars, appVars
<1>3. 0 \in Numbers /\ Attempts \subseteq Numbers
  BY WalletAssumption DEF Numbers, Attempts
<1>4. /\ \A u \in Numbers : notes'[u].indexed = notes[u].indexed
      /\ \A u \in Numbers : notes[u].status # "none" => notes'[u].status # "none"
      /\ notes[0].status = "spent" => notes'[0].status = "spent"
  BY <1>1, <1>3, SyncedNotes
<1>5. SentIsAwaited' /\ RelayerIsRight'
  BY <1>1, <1>2, <1>4 DEF SentIsAwaited, RelayerIsRight
<1>6. DepositIsHeld'
  BY <1>1, <1>2, <1>3, <1>4 DEF DepositIsHeld, Listed
<1>7. NoteIsHeld' /\ SecretsAreHeld'
  BY <1>1, <1>2, <1>3, <1>4 DEF NoteIsHeld, SecretsAreHeld, Matters, Listed, NoteComes, SecretsCome
<1>q. QED BY <1>5, <1>6, <1>7 DEF CalmFacts

\* A fault leaves fewer faults than the bound, and no other step has one.
LEMMA FaultsOnlyFall ==
  ASSUME WalletFacts, [WalletNext]_walletVars
  PROVE  faults' = faults \/ faults' = faults - 1
<1>1. CASE UNCHANGED walletVars
  BY <1>1 DEF walletVars, appVars
<1>2. CASE UserStep
  BY <1>2 DEF UserStep, DepositStart, CancelStart, OrderStart, Begin, PostAborted, OneFault
<1>3. CASE FlowStep
  BY <1>3 DEF FlowStep, Mined, Posted, SaveClaims, MarkSpent, SaveTrade, SaveBlob, SaveIndex, Track,
              DropChange, MarkCancelledLocally, OneFault
<1>4. CASE PollStep \/ Crash
  BY <1>4 DEF PollStep, PollFetch, PollApply, PollDrop, Crash, OneFault
<1>5. CASE \E v \in Numbers : Mine(v) \/ PostArrives(v) \/ SyncPromotes(v)
  BY <1>5 DEF Mine, PostArrives, SyncPromotes, appVars
<1>6. CASE \E status \in Ended : RelayerEnds(status)
  BY <1>6 DEF RelayerEnds, OneFault
<1>q. QED BY <1>1, <1>2, <1>3, <1>4, <1>5, <1>6 DEF WalletNext, Numbers

\* Every step without a fault keeps the calm facts.
LEMMA CalmStepKeeps ==
  ASSUME WalletFacts, CalmFacts, [WalletNext]_walletVars, faults' = faults
  PROVE  CalmFacts'
<1>1. faults \in Int
  BY WalletAssumption DEF WalletFacts, WalletTyped
<1>2. ~OneFault
  BY <1>1 DEF OneFault
<1>3. CASE UserStep
  BY <1>2, <1>3, StartKeepsCalm DEF UserStep, PostAborted
<1>4. CASE FlowStep
  BY <1>4, MinedKeepsCalm, PostedKeepsCalm, SaveClaimsKeepsCalm, MarkSpentKeepsCalm, SaveTradeKeepsCalm,
     SaveBlobKeepsCalm, SaveIndexKeepsCalm, TrackKeepsCalm, DropChangeKeepsCalm, MarkCancelledLocallyKeepsCalm
     DEF FlowStep
<1>5. CASE PollStep \/ Crash
  BY <1>2, <1>5, PollKeepsCalm DEF Crash
<1>6. CASE \E v \in Numbers : Mine(v) \/ PostArrives(v) \/ SyncPromotes(v)
  BY <1>6, MineKeepsCalm, PostArrivesKeepsCalm, SyncKeepsCalm
<1>7. CASE \E status \in Ended : RelayerEnds(status)
  BY <1>7, RelayerEndsKeepsCalm
<1>8. CASE UNCHANGED walletVars
  BY <1>8 DEF walletVars, chainVars, relayerVars, diskVars, appVars, CalmFacts, SentIsAwaited, RelayerIsRight,
              DepositIsHeld, NoteIsHeld, SecretsAreHeld, Matters, Listed, NoteComes, SecretsCome
<1>q. QED BY <1>3, <1>4, <1>5, <1>6, <1>7, <1>8 DEF WalletNext, Numbers

-----------------------------------------------------------------------------
(* The theorem. *)

\* The wallet starts with nothing on the chain and nothing stored.
LEMMA WalletInvStarts == WalletInit => WalletInv
<1> SUFFICES ASSUME WalletInit
             PROVE  WalletInv
  OBVIOUS
<1>1. /\ MaxAttempts \in Nat \ {0} /\ MaxFaults \in Nat
      /\ 0 \in Numbers /\ Attempts \subseteq Numbers \ {0} /\ \A v \in Numbers : v # 0 <=> v \in Attempts
  BY WalletAssumption DEF Numbers, Attempts
<1>2. /\ onChain = {} /\ spentBy = 0 /\ mempool = {} /\ net = {} /\ relayer = NoRow /\ attempt = 0
      /\ claims = {} /\ trades = {} /\ row = NoRow /\ flow = NoFlow /\ poll = NoPoll /\ faults = MaxFaults
  BY DEF WalletInit
<1>3. kind \in [Numbers -> FlowKinds \cup {"none"}] /\ kind[0] = "deposit" /\ \A v \in Attempts : kind[v] = "none"
  BY <1>1 DEF WalletInit, Numbers, FlowKinds
<1>4. notes \in [Numbers -> NoteRecords] /\ \A v \in Numbers : notes[v] = NoNote
  BY DEF WalletInit, Numbers, NoteRecords, NoNote
<1>5. /\ NoRow \in RowRecords /\ NoFlow \in FlowRecords /\ NoPoll \in PollRecords
      /\ NoRow.status = "none" /\ NoFlow.kind = "none" /\ NoFlow.pc = "idle" /\ NoNote.status = "none"
      /\ ~NoNote.leaf /\ NoPoll.pc = "idle" /\ NoPoll.status = "none"
  BY <1>1 DEF NoRow, RowRecords, NoFlow, FlowRecords, NoPoll, PollRecords, Statuses, Pcs, NoNote
<1>6. WalletTyped
  BY <1>1, <1>2, <1>3, <1>4, <1>5 DEF WalletTyped
<1>7. FlowIsTheLast /\ KindsAreFixed /\ OnlyTriedActs /\ EscrowIsOne /\ FlowHasWritten /\ SpentHasClaims
  BY <1>1, <1>2, <1>3, <1>4, <1>5 DEF FlowIsTheLast, KindsAreFixed, OnlyTriedActs, EscrowIsOne, FlowHasWritten,
     SpentHasClaims, Attempts
<1>8. CalmFacts
  BY <1>1, <1>2, <1>3, <1>4, <1>5 DEF CalmFacts, SentIsAwaited, RelayerIsRight, DepositIsHeld, NoteIsHeld,
     SecretsAreHeld, Matters, Ended
<1>q. QED BY <1>6, <1>7, <1>8 DEF WalletInv, WalletFacts

\* Every step keeps the invariant: one that has no fault keeps the calm facts,
\* one that has a fault ends the calm.
LEMMA WalletInvSteps == WalletInv /\ [WalletNext]_walletVars => WalletInv'
<1> SUFFICES ASSUME WalletInv, [WalletNext]_walletVars
             PROVE  WalletInv'
  OBVIOUS
<1>1. WalletFacts /\ WalletFacts'
  BY FactsStepKeeps DEF WalletInv
<1>2. faults' = MaxFaults => CalmFacts'
  <2>1. SUFFICES ASSUME faults' = MaxFaults
                 PROVE  CalmFacts'
    OBVIOUS
  <2>2. faults \in 0 .. MaxFaults /\ MaxFaults \in Nat
    BY <1>1, WalletAssumption DEF WalletFacts, WalletTyped
  <2>3. faults' = faults /\ faults = MaxFaults
    BY <1>1, <2>1, <2>2, FaultsOnlyFall
  <2>q. QED BY <1>1, <2>3, CalmStepKeeps DEF WalletInv
<1>q. QED BY <1>1, <1>2 DEF WalletInv

\* The invariant gives what the run checks: when no flow is running nothing is
\* still to come, so what matters is stored.
LEMMA WalletInvIsSound == WalletInv => WalletIsSound
<1> SUFFICES ASSUME WalletInv
             PROVE  WalletIsSound
  OBVIOUS
<1>1. WalletTyped /\ SpentHasClaims
  BY DEF WalletInv, WalletFacts
<1>2. WalletTypeOK
  BY <1>1, WalletAssumption DEF WalletTypeOK, WalletTyped, Numbers, RowRecords, Statuses, NoteRecords, Ended
<1>3. ASSUME faults = MaxFaults, flow = NoFlow
      PROVE  /\ 0 \in onChain /\ spentBy = 0 => Listed(0)
             /\ spentBy # 0 => Listed(spentBy)
             /\ spentBy # 0 /\ kind[spentBy] # "cancel" => spentBy \in claims
  <2>1. DepositIsHeld /\ NoteIsHeld /\ SecretsAreHeld
    BY <1>3 DEF WalletInv, CalmFacts
  <2>2. flow.pc = "idle" /\ flow.kind = "none"
    BY <1>3 DEF NoFlow
  <2>3. spentBy # 0 => spentBy \in Attempts /\ Matters(spentBy)
    BY <1>1, WalletAssumption DEF WalletTyped, Numbers, Attempts, Matters
  <2>4. ~NoteComes(spentBy) /\ ~SecretsCome(spentBy)
    BY <2>2 DEF NoteComes, SecretsCome
  <2>q. QED BY <2>1, <2>2, <2>3, <2>4 DEF DepositIsHeld, NoteIsHeld, SecretsAreHeld
<1>q. QED BY <1>1, <1>2, <1>3 DEF WalletIsSound, FundsRecoverable

\* Whatever is lost or closed, the escrow of an order is marked spent only
\* after the secrets of its claims are stored; and while nothing goes wrong the
\* wallet can recover the money whenever no operation is running, in whatever
\* order the flow, the poll, the synchronisation, the relayer and the chain
\* act (OrderService, MarketOrderService, CancelService, PendingOrdersService).
THEOREM WalletStaysSound == WalletSpec => []WalletIsSound
<1>1. WalletInit => WalletInv
  BY WalletInvStarts
<1>2. WalletInv /\ [WalletNext]_walletVars => WalletInv'
  BY WalletInvSteps
<1>3. WalletInv => WalletIsSound
  BY WalletInvIsSound
<1>q. QED BY <1>1, <1>2, <1>3, PTL DEF WalletSpec
-----------------------------------------------------------------------------
(* The claim store, with any number of storage operations at a time.  The  *)
(* invariant has two parts: what the operations in flight have still to do *)
(* fits what is stored, however the others move; and what the screen       *)
(* removes has been taken on the chain.                                    *)

Slots == 1 .. MaxOps
StorePcs == {"done", "copy", "read", "write", "marker", "delete", "secret", "meta", "payload", "prune"}
ScreenPcs == {"idle", "check", "submit", "finish", "removing"}

\* A list of claims, each once.
Lists == {s \in Seq(Claims) : IsInjective(s)}

OpRecords == [kind : {"none", "migrate", "append", "remove", "list"}, on : SUBSET Claims,
              pc : StorePcs, snap : Lists, seen : SUBSET Claims]
ScreenRecords == [pc : ScreenPcs, list : Lists, sel : Lists, rest : Lists, mine : SUBSET Claims,
                  txs : Nat, err : BOOLEAN]

StoreTyped ==
    /\ ClaimTypeOK
    /\ ids \in Lists
    /\ ready \in BOOLEAN /\ migrated \in BOOLEAN
    /\ ops \in [Slots -> OpRecords]
    /\ \A s \in Slots : ops[s].kind = "none" => ops[s] = NoOp

\* Every claim an index can name, and those the new store is to hold.
Known == appended \cup Legacy
Kept == appended \cup IF migrated THEN Legacy ELSE {}

(* Nothing but the migration runs before it is done, and it runs alone.    *)
MigratesFirst ==
    /\ ready => migrated
    /\ ~migrated => v1 = Legacy
    /\ \A s \in Slots : ops[s].kind \in {"append", "remove", "list"} => ready
    /\ \A s, t \in Slots : ops[s].kind = "migrate" => ~ready /\ (t = s \/ ops[t] = NoOp)

(* A migration has copied what it indexes, and indexed what it deletes.    *)
MigrationIsOrdered ==
    \A s \in Slots : ops[s].kind = "migrate" =>
        /\ ops[s].on = Legacy
        /\ ops[s].pc \in {"copy", "read", "write", "marker", "delete"}
        /\ v1 = Legacy /\ (migrated <=> ops[s].pc = "delete")
        /\ ops[s].pc \in {"read", "write", "marker"} => Legacy \subseteq secrets \cap meta
        /\ ops[s].pc = "marker" => Legacy \subseteq Range(ids)

(* A claim that is being appended is new, and indexed with both payloads.  *)
AppendFits(o) ==
    o.kind = "append" =>
        /\ o.pc \in {"secret", "meta", "read", "write"}
        /\ IsFiniteSet(o.on) /\ o.on \cap Known = {}
        /\ o.pc \in {"meta", "read", "write"} => o.on \subseteq secrets
        /\ o.pc \in {"read", "write"} => o.on \subseteq meta

(* Only claims taken on the chain are removed, their payloads first.       *)
RemovalFits(o) ==
    o.kind = "remove" =>
        /\ o.pc \in {"payload", "read", "write"}
        /\ o.on \subseteq claimed \cap Known
        /\ o.pc \in {"read", "write"} => o.on \cap secrets = {}

(* What a listing prunes from its copy has been claimed and removed.       *)
ListingFits(o) ==
    /\ o.kind = "list" => o.pc \in {"read", "write", "prune"}
    /\ Range(o.snap) \cup o.seen \subseteq Known
    /\ o.pc = "write" => o.seen = Range(o.snap)
    /\ o.pc = "prune" => \A c \in o.seen \ Range(o.snap) : c \in claimed /\ c \notin appended \cap secrets

OpsFit == \A s \in Slots : AppendFits(ops[s]) /\ RemovalFits(ops[s]) /\ ListingFits(ops[s])

(* No claim is appended twice.                                             *)
AppendsApart ==
    \A s, t \in Slots :
        s # t /\ ops[s].kind = "append" /\ ops[t].kind = "append" => ops[s].on \cap ops[t].on = {}

(* The index and the payloads of what was appended.                        *)
PayloadsAgree ==
    /\ Range(ids) \subseteq Known /\ appended \cap Legacy = {}
    /\ appended \cap secrets \subseteq meta

(* What the new store is to hold it does, until it is claimed.             *)
NothingDropped ==
    \A c \in Kept \ claimed : c \in secrets \cap meta \cap (Range(ids) \cup overwritten)

StoreInv ==
    /\ StoreTyped /\ MigratesFirst /\ MigrationIsOrdered /\ OpsFit /\ AppendsApart
    /\ PayloadsAgree /\ NothingDropped /\ NoOrphanSecret

(* The screen shows and selects what an index can name.                    *)
ScreenTyped ==
    /\ shown \in Lists /\ screen \in ScreenRecords
    /\ Range(shown) \cup Range(screen.list) \cup Range(screen.sel) \subseteq Known
    /\ shown # <<>> \/ screen.pc # "idle" => ready

(* What the screen has claimed comes before what is left of its selection. *)
SelectionIsClaimed ==
    /\ screen.pc = "check" => screen.mine = {} /\ screen.txs = 0
    /\ screen.pc \in {"submit", "finish"} =>
          /\ IsFiniteSet(screen.mine) /\ screen.mine \subseteq Range(screen.sel) \cap claimed
          /\ screen.txs <= Cardinality(screen.mine)
          /\ \A j, k \in DOMAIN screen.sel :
                screen.sel[j] \in screen.mine /\ screen.sel[k] \notin claimed => j < k
    /\ screen.pc = "submit" =>
          /\ screen.rest # <<>>
          /\ Range(screen.rest) \subseteq Range(screen.sel)
          /\ Range(screen.sel) \subseteq claimed \cup Range(screen.rest)
          /\ \A a, b \in DOMAIN screen.rest, j, k \in DOMAIN screen.sel :
                a < b /\ screen.sel[j] = screen.rest[a] /\ screen.sel[k] = screen.rest[b] => j < k
    /\ screen.pc = "finish" /\ ~screen.err => Range(screen.sel) \subseteq claimed

ScreenInv == ScreenTyped /\ SelectionIsClaimed

ClaimInv == StoreInv /\ ScreenInv

-----------------------------------------------------------------------------
(* Induction over data, and filtered lists.                                *)

(* A non-empty set of naturals has a least element; inductions over data   *)
(* are proved from this.                                                   *)
LEMMA LeastExists ==
  ASSUME NEW T, T \subseteq Nat, T # {}
  PROVE  \E x \in T : \A y \in T : x <= y
<1>1. PICK R : IsWellFoundedOn(R, Nat) /\ \A x, y \in Nat : y < x => <<y, x>> \in R
  <2> DEFINE R == OpToRel(<, Nat)
  <2>1. IsWellFoundedOn(R, Nat)
    BY NatLessThanWellFounded
  <2>2. \A x, y \in Nat : y < x => <<y, x>> \in R
    BY Zenon DEF OpToRel
  <2> HIDE DEF R
  <2>q. QED BY <2>1, <2>2
<1>2. PICK x \in T : \A y \in T : ~ (<<y, x>> \in R)
  BY <1>1, WFMin
<1>3. \A y \in T : ~(y < x)
  BY <1>1, <1>2
<1>q. QED BY <1>3

(* Induction over the naturals, for the set of the numbers that have the   *)
(* property.                                                               *)
LEMMA SetInduction ==
  ASSUME NEW P, 0 \in P, \A n \in Nat : n \in P => n + 1 \in P
  PROVE  \A n \in Nat : n \in P
<1> SUFFICES ASSUME {n \in Nat : n \notin P} # {} PROVE FALSE
  OBVIOUS
<1> DEFINE T == {n \in Nat : n \notin P}
<1>1. T \subseteq Nat /\ T # {}
  OBVIOUS
<1> HIDE DEF T
<1>2. PICK x \in T : \A y \in T : x <= y
  BY <1>1, LeastExists
<1>3. x \in Nat /\ x \notin P /\ x # 0
  BY DEF T
<1>4. x - 1 \in Nat /\ x - 1 \notin T
  BY <1>2, <1>3
<1>5. x - 1 \in P
  BY <1>4 DEF T
<1>q. QED BY <1>3, <1>4, <1>5

FlatRec(s, n, f) == f = [i \in 1 .. n |-> IF i = 1 THEN s[i] ELSE f[i - 1] \o s[i]]

(* The concatenations of the first i members of s: as a recursive          *)
(* function, and by its values.                                            *)
LEMMA FlatRecValues ==
  ASSUME NEW s, NEW n \in Nat, NEW f
  PROVE  FlatRec(s, n, f) <=>
            /\ f = [i \in 1 .. n |-> f[i]]
            /\ n > 0 => f[1] = s[1]
            /\ \A i \in 1 .. n - 1 : f[i + 1] = f[i] \o s[i + 1]
<1> DEFINE V(i) == IF i = 1 THEN s[i] ELSE f[i - 1] \o s[i]
<1>1. FlatRec(s, n, f) <=> f = [i \in 1 .. n |-> V(i)]
  BY DEF FlatRec
<1>2. ASSUME FlatRec(s, n, f)
      PROVE  /\ f = [i \in 1 .. n |-> f[i]]
             /\ n > 0 => f[1] = s[1]
             /\ \A i \in 1 .. n - 1 : f[i + 1] = f[i] \o s[i + 1]
  <2> HIDE DEF V
  <2>1. f = [i \in 1 .. n |-> V(i)]
    BY <1>1, <1>2
  <2>2. \A i \in 1 .. n : f[i] = V(i)
    BY <2>1
  <2>3. f = [i \in 1 .. n |-> f[i]]
    BY <2>1
  <2>4. n > 0 => f[1] = s[1]
    BY <2>2 DEF V
  <2>5. ASSUME NEW i \in 1 .. n - 1 PROVE f[i + 1] = f[i] \o s[i + 1]
    <3>1. PICK j \in 1 .. n : j = i + 1 /\ j # 1 /\ j - 1 = i
      OBVIOUS
    <3>2. V(j) = f[j - 1] \o s[j]
      BY Zenon, <3>1 DEF V
    <3>3. f[j] = f[j - 1] \o s[j]
      BY <2>2, <3>2
    <3>q. QED BY <3>1, <3>3
  <2>q. QED BY <2>3, <2>4, <2>5
<1>3. ASSUME f = [i \in 1 .. n |-> f[i]],
             n > 0 => f[1] = s[1],
             \A i \in 1 .. n - 1 : f[i + 1] = f[i] \o s[i + 1]
      PROVE  FlatRec(s, n, f)
  <2>1. ASSUME NEW i \in 1 .. n PROVE f[i] = V(i)
    <3>1. CASE i = 1
      BY <1>3, <3>1
    <3>2. CASE i # 1
      <4>1. i - 1 \in 1 .. n - 1 /\ i - 1 + 1 = i
        BY <3>2
      <4>q. QED BY <1>3, <3>2, <4>1
    <3>q. QED BY <3>1, <3>2
  <2> HIDE DEF V
  <2>2. f = [i \in 1 .. n |-> V(i)]
    BY <1>3, <2>1
  <2>q. QED BY <1>1, <2>2
<1>q. QED BY <1>2, <1>3

(* The values of that function.                                            *)
LEMMA FlatRecGives ==
  ASSUME NEW s, NEW n \in Nat, NEW f, FlatRec(s, n, f)
  PROVE  /\ n > 0 => f[1] = s[1]
         /\ \A i \in 1 .. n - 1 : f[i + 1] = f[i] \o s[i + 1]
  BY FlatRecValues

(* Such a function exists for every length.                                *)
LEMMA FlatRecExists ==
  ASSUME NEW s
  PROVE  \A n \in Nat : \E f : FlatRec(s, n, f)
<1> DEFINE P == {k \in Nat : \E f : FlatRec(s, k, f)}
<1>1. 0 \in P
  <2> DEFINE f == [i \in 1 .. 0 |-> 0]
  <2>1. FlatRec(s, 0, f)
    BY DEF FlatRec
  <2>q. QED BY <2>1
<1>2. ASSUME NEW k \in Nat, k \in P PROVE k + 1 \in P
  <2>1. PICK f : FlatRec(s, k, f)
    BY <1>2
  <2>0. PICK m \in Nat : m = k + 1 /\ m # 0 /\ m \in 1 .. m
    OBVIOUS
  <2>a. PICK last : last = IF k = 0 THEN s[m] ELSE f[k] \o s[m]
    OBVIOUS
  <2> DEFINE g == [i \in 1 .. m |-> IF i = m THEN last ELSE f[i]]
  <2>2. /\ g = [i \in 1 .. m |-> g[i]]
        /\ \A i \in 1 .. k : g[i] = f[i]
        /\ g[m] = last
    BY <2>0
  <2> HIDE DEF g
  <2>3. /\ k > 0 => f[1] = s[1]
        /\ \A i \in 1 .. k - 1 : f[i + 1] = f[i] \o s[i + 1]
    BY <2>1, FlatRecValues
  <2>4. m > 0 => g[1] = s[1]
    <3>1. CASE k = 0
      BY <2>0, <2>a, <2>2, <3>1
    <3>2. CASE k # 0
      <4>1. 1 \in 1 .. k /\ k > 0
        BY <3>2
      <4>q. QED BY <2>2, <2>3, <4>1
    <3>q. QED BY <3>1, <3>2
  <2>5. ASSUME NEW i \in 1 .. m - 1 PROVE g[i + 1] = g[i] \o s[i + 1]
    <3>1. CASE i = k
      <4>1. k # 0 /\ k \in 1 .. k /\ i + 1 = m
        BY <2>0, <3>1
      <4>2. last = f[k] \o s[m]
        BY <2>a, <4>1, Zenon
      <4>3. g[m] = last /\ g[i] = f[k]
        BY <2>2, <3>1, <4>1, Zenon
      <4>q. QED BY <4>1, <4>2, <4>3, Zenon
    <3>2. CASE i # k
      <4>1. i \in 1 .. k - 1 /\ i + 1 \in 1 .. k /\ i \in 1 .. k
        BY <2>0, <3>2
      <4>2. g[i + 1] = f[i + 1] /\ g[i] = f[i]
        BY <2>2, <4>1
      <4>q. QED BY <2>3, <4>1, <4>2
    <3>q. QED BY <3>1, <3>2
  <2>6. FlatRec(s, m, g)
    BY <2>2, <2>4, <2>5, FlatRecValues
  <2>7. m \in P
    BY <2>6
  <2>q. QED BY <2>0, <2>7
<1> HIDE DEF P
<1>3. \A n \in Nat : n \in P
  BY <1>1, <1>2, SetInduction
<1>q. QED BY <1>3 DEF P

(* It depends on nothing but the members of the sequence.                  *)
LEMMA FlatRecUnique ==
  ASSUME NEW s, NEW t, NEW f, NEW g, NEW n \in Nat, NEW k \in Nat,
         FlatRec(s, n, f), FlatRec(t, k, g), k <= n,
         \A i \in 1 .. k : s[i] = t[i]
  PROVE  \A i \in 1 .. k : f[i] = g[i]
<1>a. /\ n > 0 => f[1] = s[1]
      /\ \A i \in 1 .. n - 1 : f[i + 1] = f[i] \o s[i + 1]
  BY FlatRecGives
<1>b. /\ k > 0 => g[1] = t[1]
      /\ \A i \in 1 .. k - 1 : g[i + 1] = g[i] \o t[i + 1]
  BY FlatRecGives
<1> DEFINE P == {j \in Nat : j \in 1 .. k => f[j] = g[j]}
<1>1. 0 \in P
  OBVIOUS
<1>2. ASSUME NEW j \in Nat, j \in P PROVE j + 1 \in P
  <2> SUFFICES ASSUME j + 1 \in 1 .. k PROVE f[j + 1] = g[j + 1]
    OBVIOUS
  <2>2. s[j + 1] = t[j + 1]
    OBVIOUS
  <2>3. CASE j = 0
    <3>1. j + 1 = 1 /\ n > 0 /\ k > 0
      BY <2>3
    <3>q. QED BY <1>a, <1>b, <2>2, <3>1, Zenon
  <2>4. CASE j # 0
    <3>1. j \in 1 .. k /\ j \in 1 .. n - 1 /\ j \in 1 .. k - 1
      BY <2>4
    <3>2. f[j + 1] = f[j] \o s[j + 1] /\ g[j + 1] = g[j] \o t[j + 1]
      BY <1>a, <1>b, <3>1, Zenon
    <3>3. f[j] = g[j]
      BY <1>2, <3>1, Zenon
    <3>q. QED BY <2>2, <3>2, <3>3, Zenon
  <2>q. QED BY <2>3, <2>4
<1> HIDE DEF P
<1>3. \A j \in Nat : j \in P
  BY <1>1, <1>2, SetInduction
<1>q. QED BY <1>3 DEF P

(* FlattenSeq is the last value of that function.                          *)
LEMMA FlattenFrom ==
  ASSUME NEW s, NEW n \in Nat \ {0}, n = Len(s), NEW f, FlatRec(s, n, f)
  PROVE  FlattenSeq(s) = f[n]
<1>1. FlattenSeq(s) = (CHOOSE g : FlatRec(s, n, g))[n]
  BY DEF FlattenSeq, FlatRec
<1> DEFINE g == CHOOSE h : FlatRec(s, n, h)
<1>2. FlatRec(s, n, g)
  OBVIOUS
<1>3. FlattenSeq(s) = g[n]
  BY <1>1
<1> HIDE DEF g
<1>4. \A i \in 1 .. n : f[i] = g[i]
  BY <1>2, FlatRecUnique
<1>q. QED BY <1>3, <1>4

(* Nothing flattens to nothing.                                            *)
LEMMA FlattenEmpty == FlattenSeq(<<>>) = <<>>
  BY DEF FlattenSeq

(* The function and its values, picked together.                           *)
LEMMA FlatRecOf ==
  ASSUME NEW s, NEW n \in Nat
  PROVE  \E f : /\ FlatRec(s, n, f)
                /\ n > 0 => f[1] = s[1]
                /\ \A i \in 1 .. n - 1 : f[i + 1] = f[i] \o s[i + 1]
<1>1. PICK f : FlatRec(s, n, f)
  BY FlatRecExists
<1>2. /\ n > 0 => f[1] = s[1]
      /\ \A i \in 1 .. n - 1 : f[i + 1] = f[i] \o s[i + 1]
  BY <1>1, FlatRecGives
<1>q. QED BY <1>1, <1>2

(* A sequence with one more member flattens to the rest followed by that   *)
(* member.                                                                 *)
LEMMA FlattenStep ==
  ASSUME NEW s, NEW t, NEW n \in Nat \ {0}, NEW m \in Nat, m = n + 1,
         Len(s) = n, Len(t) = m, \A i \in 1 .. n : t[i] = s[i]
  PROVE  FlattenSeq(t) = FlattenSeq(s) \o t[m]
<1>0. n \in Nat /\ m \in Nat \ {0} /\ n <= m /\ n \in 1 .. n /\ n \in 1 .. m - 1
  OBVIOUS
<1>1. PICK f : /\ FlatRec(t, m, f)
               /\ m > 0 => f[1] = t[1]
               /\ \A i \in 1 .. m - 1 : f[i + 1] = f[i] \o t[i + 1]
  BY FlatRecOf
<1>2. PICK g : FlatRec(s, n, g)
  BY <1>0, FlatRecExists
<1>3. FlattenSeq(t) = f[m] /\ FlattenSeq(s) = g[n]
  BY <1>0, <1>1, <1>2, FlattenFrom
<1>4. \A i \in 1 .. n : f[i] = g[i]
  BY <1>0, <1>1, <1>2, FlatRecUnique
<1>5. \A i \in 1 .. m - 1 : f[i + 1] = f[i] \o t[i + 1]
  BY <1>1
<1>6. f[n + 1] = f[n] \o t[n + 1] /\ f[n] = g[n]
  BY <1>0, <1>4, <1>5, Zenon
<1>q. QED BY <1>3, <1>6

(* The same for Append.                                                    *)
LEMMA FlattenAppend ==
  ASSUME NEW S, NEW s \in Seq(Seq(S)), NEW x \in Seq(S)
  PROVE  FlattenSeq(Append(s, x)) = FlattenSeq(s) \o x
<1>1. PICK n \in Nat : n = Len(s) /\ DOMAIN s = 1 .. n
  OBVIOUS
<1>2. PICK m \in Nat : m = n + 1 /\ m # 0
  OBVIOUS
<1>3. PICK u : u = s
  OBVIOUS
<1>4. PICK t : t = Append(u, x)
  OBVIOUS
<1>5. Len(t) = m /\ Len(u) = n /\ (\A i \in 1 .. n : t[i] = u[i]) /\ t[m] = x
  BY <1>1, <1>2, <1>3, <1>4, AppendProperties
<1>6. CASE n = 0
  <2>1. s = <<>>
    BY <1>1, <1>6
  <2>2. <<>> \o x = x
    OBVIOUS
  <2>3. PICK f : FlatRec(t, m, f)
    BY FlatRecExists
  <2>4. FlattenSeq(t) = f[m]
    BY <1>5, <1>2, <2>3, FlattenFrom
  <2>5. m > 0 => f[1] = t[1]
    BY <2>3, FlatRecValues
  <2>6. m = 1
    BY <1>2, <1>6
  <2>q. QED BY <1>3, <1>4, <1>5, <2>1, <2>2, <2>4, <2>5, <2>6, FlattenEmpty
<1>7. CASE n # 0
  <2>1. FlattenSeq(t) = FlattenSeq(u) \o t[m]
    BY <1>2, <1>5, <1>7, FlattenStep
  <2>q. QED BY <1>3, <1>4, <1>5, <2>1, Zenon
<1>q. QED BY <1>6, <1>7

(* Induction over sequences, by their length, for the set of those that    *)
(* have the property.                                                      *)
LEMMA SeqInduction ==
  ASSUME NEW S, NEW P, <<>> \in P,
         \A s \in Seq(S), x \in S : s \in P => Append(s, x) \in P
  PROVE  \A s \in Seq(S) : s \in P
<1> DEFINE Q == {n \in Nat : \A s \in Seq(S) : Len(s) = n => s \in P}
<1>1. 0 \in Q
  <2>1. ASSUME NEW s \in Seq(S), Len(s) = 0 PROVE s \in P
    <3>1. s = <<>>
      BY <2>1
    <3>q. QED BY <3>1
  <2>q. QED BY <2>1
<1>2. ASSUME NEW n \in Nat, n \in Q PROVE n + 1 \in Q
  <2>1. ASSUME NEW s \in Seq(S), Len(s) = n + 1 PROVE s \in P
    <3>1. PICK t \in Seq(S), x \in S : s = Append(t, x) /\ Len(t) = n
      <4>1. s # <<>>
        BY <2>1
      <4>2. s[Len(s)] \in S
        BY <2>1
      <4>3. SubSeq(s, 1, Len(s) - 1) \in Seq(S) /\ Len(SubSeq(s, 1, Len(s) - 1)) = n
        BY <2>1, SubSeqProperties
      <4>4. s = Append(SubSeq(s, 1, Len(s) - 1), s[Len(s)])
        BY <4>1, <2>1
      <4>q. QED BY <4>2, <4>3, <4>4
    <3>2. t \in P
      BY <1>2, <3>1
    <3>q. QED BY <3>1, <3>2
  <2>q. QED BY <2>1
<1> HIDE DEF Q
<1>3. \A n \in Nat : n \in Q
  BY <1>1, <1>2, SetInduction
<1>4. ASSUME NEW s \in Seq(S) PROVE s \in P
  <2>1. Len(s) \in Nat
    OBVIOUS
  <2>2. Len(s) \in Q
    BY <1>3, <2>1
  <2>q. QED BY <2>2 DEF Q
<1>q. QED BY <1>4

(* The claims of a list that are in a set, with where they stand in it.    *)
IsSelection(f, s, T, m) ==
    /\ m \in [1 .. Len(f) -> 1 .. Len(s)]
    /\ \A a, b \in 1 .. Len(f) : a < b => m[a] < m[b]
    /\ \A a \in 1 .. Len(f) : f[a] = s[m[a]] /\ f[a] \in T
    /\ \A i \in 1 .. Len(s) : s[i] \in T => \E a \in 1 .. Len(f) : m[a] = i

(* A longer list selects what the shorter one does and then its last       *)
(* member, if that is in the set.                                          *)
LEMMA WithinAppend ==
  ASSUME NEW S, NEW s \in Seq(S), NEW x \in S, NEW T
  PROVE  Within(Append(s, x), T) = Within(s, T) \o (IF x \in T THEN <<x>> ELSE <<>>)
<1> DEFINE G(q) == [i \in DOMAIN q |-> IF q[i] \in T THEN <<q[i]>> ELSE <<>>]
           one == IF x \in T THEN <<x>> ELSE <<>>
<1>1. G(s) \in Seq(Seq(S)) /\ one \in Seq(S)
  <2>1. ASSUME NEW i \in DOMAIN s PROVE (IF s[i] \in T THEN <<s[i]>> ELSE <<>>) \in Seq(S)
    <3>1. s[i] \in S
      OBVIOUS
    <3>2. <<s[i]>> \in Seq(S) /\ <<>> \in Seq(S)
      BY <3>1
    <3>q. QED BY <3>2
  <2>2. Len(s) \in Nat /\ DOMAIN s = 1 .. Len(s)
    OBVIOUS
  <2>3. G(s) \in [1 .. Len(s) -> Seq(S)]
    BY <2>1, <2>2
  <2>q. QED BY <2>2, <2>3
<1>2. G(Append(s, x)) = Append(G(s), one)
  OBVIOUS
<1>3. FlattenSeq(Append(G(s), one)) = FlattenSeq(G(s)) \o one
  <2> HIDE DEF G, one
  <2>q. QED BY <1>1, FlattenAppend
<1>4. Within(Append(s, x), T) = FlattenSeq(G(Append(s, x))) /\ Within(s, T) = FlattenSeq(G(s))
  BY DEF Within
<1>q. QED BY <1>2, <1>3, <1>4, Zenon

(* Within selects.                                                         *)
LEMMA WithinSelects ==
  ASSUME NEW S, NEW T
  PROVE  \A s \in Seq(S) : Within(s, T) \in Seq(S) /\ \E m : IsSelection(Within(s, T), s, T, m)
<1> DEFINE P == {s \in Seq(S) : Within(s, T) \in Seq(S) /\ \E m : IsSelection(Within(s, T), s, T, m)}
<1>1. <<>> \in P
  <2>1. [i \in DOMAIN <<>> |-> IF <<>>[i] \in T THEN <<<<>>[i]>> ELSE <<>>] = <<>>
    OBVIOUS
  <2>2. Within(<<>>, T) = <<>>
    BY <2>1, FlattenEmpty DEF Within
  <2>3. IsSelection(<<>>, <<>>, T, <<>>)
    BY DEF IsSelection
  <2>4. <<>> \in Seq(S)
    OBVIOUS
  <2>q. QED BY <2>2, <2>3, <2>4, Zenon
<1>2. ASSUME NEW s \in Seq(S), NEW x \in S, s \in P PROVE Append(s, x) \in P
  <2>8. PICK f \in Seq(S) : f = Within(s, T) /\ \E m : IsSelection(f, s, T, m)
    BY <1>2
  <2>1. PICK m : f = Within(s, T) /\ IsSelection(f, s, T, m)
    BY <2>8
  <2>0. PICK t : t = Append(s, x)
    OBVIOUS
  <2>2. /\ t = Append(s, x) /\ t \in Seq(S) /\ Len(t) = Len(s) + 1
        /\ (\A i \in 1 .. Len(s) : t[i] = s[i]) /\ t[Len(s) + 1] = x
    BY <2>0, AppendProperties
  <2>3. CASE x \in T
    <3>1. Within(t, T) = Append(f, x)
      <4>1. Within(t, T) = f \o <<x>>
        BY <2>1, <2>2, <2>3, WithinAppend
      <4>q. QED BY <4>1
    <3>0. PICK g : g = Append(f, x)
      OBVIOUS
    <3>2. /\ g = Append(f, x) /\ g \in Seq(S) /\ Len(g) = Len(f) + 1
          /\ (\A i \in 1 .. Len(f) : g[i] = f[i]) /\ g[Len(f) + 1] = x
      BY <3>0, AppendProperties
    <3>3. PICK n : n = [a \in 1 .. Len(f) + 1 |-> IF a <= Len(f) THEN m[a] ELSE Len(s) + 1]
      OBVIOUS
    <3>4. IsSelection(g, t, T, n)
      <4>0. Len(f) \in Nat /\ Len(s) \in Nat
        OBVIOUS
      <4>1. /\ \A a \in 1 .. Len(f) : n[a] = m[a] /\ m[a] \in 1 .. Len(s)
            /\ n[Len(f) + 1] = Len(s) + 1
        <5>1. \A a \in 1 .. Len(f) : m[a] \in 1 .. Len(s)
          BY <2>1 DEF IsSelection
        <5>2. ASSUME NEW a \in 1 .. Len(f) PROVE n[a] = m[a]
          BY <3>3, <4>0
        <5>3. n[Len(f) + 1] = Len(s) + 1
          BY <3>3, <4>0
        <5>q. QED BY <5>1, <5>2, <5>3
      <4>2. n \in [1 .. Len(g) -> 1 .. Len(t)]
        <5>1. \A a \in 1 .. Len(f) + 1 : (IF a <= Len(f) THEN m[a] ELSE Len(s) + 1) \in 1 .. Len(s) + 1
          BY <4>0, <4>1
        <5>2. n \in [1 .. Len(f) + 1 -> 1 .. Len(s) + 1]
          BY <3>3, <5>1
        <5>q. QED BY <2>2, <3>2, <5>2
      <4>3. ASSUME NEW a \in 1 .. Len(g), NEW b \in 1 .. Len(g), a < b PROVE n[a] < n[b]
        <5>1. a \in 1 .. Len(f) /\ n[a] = m[a] /\ m[a] \in 1 .. Len(s)
          BY <3>2, <4>0, <4>1, <4>3
        <5>2. CASE b = Len(f) + 1
          BY <5>1, <5>2, <4>0, <4>1
        <5>3. CASE b \in 1 .. Len(f)
          <6>1. n[b] = m[b] /\ m[a] < m[b]
            BY <2>1, <4>1, <4>3, <5>1, <5>3 DEF IsSelection
          <6>q. QED BY <5>1, <6>1
        <5>q. QED BY <5>2, <5>3, <3>2, <4>0
      <4>4. \A a \in 1 .. Len(g) : g[a] = t[n[a]] /\ g[a] \in T
        BY <2>1, <2>2, <2>3, <3>2, <4>0, <4>1 DEF IsSelection
      <4>5. ASSUME NEW i \in 1 .. Len(t), t[i] \in T PROVE \E a \in 1 .. Len(g) : n[a] = i
        <5>1. CASE i = Len(s) + 1
          BY <5>1, <3>2, <4>0, <4>1
        <5>2. CASE i \in 1 .. Len(s)
          <6>1. PICK a \in 1 .. Len(f) : m[a] = i
            BY <2>1, <2>2, <4>5, <5>2 DEF IsSelection
          <6>q. QED BY <6>1, <3>2, <4>0, <4>1
        <5>q. QED BY <5>1, <5>2, <2>2, <4>0
      <4>q. QED BY <4>2, <4>3, <4>4, <4>5 DEF IsSelection
    <3>q. QED BY <2>2, <3>1, <3>2, <3>4
  <2>4. CASE x \notin T
    <3>1. Within(t, T) = f
      <4>1. Within(t, T) = f \o <<>>
        BY <2>1, <2>2, <2>4, WithinAppend
      <4>q. QED BY <4>1
    <3>2. IsSelection(f, t, T, m)
      BY <2>1, <2>2, <2>4 DEF IsSelection
    <3>q. QED BY <2>2, <3>1, <3>2
  <2>q. QED BY <2>3, <2>4
<1> HIDE DEF P
<1>3. \A s \in Seq(S) : s \in P
  BY <1>1, <1>2, SeqInduction
<1>q. QED BY <1>3 DEF P

(* The members of f stand in s in the same order.                          *)
InOrder(f, s) ==
    \A a, b \in DOMAIN f, j, k \in DOMAIN s : a < b /\ s[j] = f[a] /\ s[k] = f[b] => j < k

(* What is selected of a list is a list, and in the order of the list.     *)
LEMMA WithinList ==
  ASSUME NEW s \in Lists, NEW T
  PROVE  /\ Within(s, T) \in Lists
         /\ Range(Within(s, T)) = Range(s) \cap T
         /\ InOrder(Within(s, T), s)
<1>9. PICK f \in Seq(Claims) : f = Within(s, T) /\ \E m : IsSelection(f, s, T, m)
  BY WithinSelects DEF Lists
<1>1. PICK m : f = Within(s, T) /\ IsSelection(f, s, T, m)
  BY <1>9
<1>2. s \in Seq(Claims) /\ \A i, j \in 1 .. Len(s) : s[i] = s[j] => i = j
  BY DEF Lists, IsInjective
<1>3. /\ \A a \in 1 .. Len(f) : m[a] \in 1 .. Len(s) /\ f[a] = s[m[a]] /\ f[a] \in T
      /\ \A a, b \in 1 .. Len(f) : a < b => m[a] < m[b]
      /\ \A i \in 1 .. Len(s) : s[i] \in T => \E a \in 1 .. Len(f) : m[a] = i
  BY <1>1 DEF IsSelection
<1>4. DOMAIN f = 1 .. Len(f) /\ DOMAIN s = 1 .. Len(s) /\ Len(f) \in Nat /\ Len(s) \in Nat
  BY <1>2
<1>5. \A a, b \in 1 .. Len(f) : f[a] = f[b] => a = b
  <2> SUFFICES ASSUME NEW a \in 1 .. Len(f), NEW b \in 1 .. Len(f), f[a] = f[b], a < b PROVE FALSE
    BY <1>4
  <2>1. m[a] = m[b] /\ m[a] < m[b] /\ m[a] \in Nat
    BY <1>2, <1>3, <1>4
  <2>q. QED BY <2>1
<1>6. f \in Lists
  BY <1>4, <1>5 DEF Lists, IsInjective
<1>7. Range(f) = Range(s) \cap T
  <2>1. ASSUME NEW x \in Range(f) PROVE x \in Range(s) \cap T
    <3>1. PICK a \in 1 .. Len(f) : x = f[a]
      BY <1>4 DEF Range
    <3>2. m[a] \in 1 .. Len(s) /\ x = s[m[a]] /\ x \in T
      BY <1>3, <3>1
    <3>q. QED BY <1>4, <3>2 DEF Range
  <2>2. ASSUME NEW x \in Range(s), x \in T PROVE x \in Range(f)
    <3>1. PICK i \in 1 .. Len(s) : x = s[i]
      BY <1>4 DEF Range
    <3>2. PICK a \in 1 .. Len(f) : m[a] = i
      BY <1>3, <2>2, <3>1
    <3>3. f[a] = x
      BY <1>3, <3>1, <3>2
    <3>q. QED BY <1>4, <3>3 DEF Range
  <2>q. QED BY <2>1, <2>2
<1>8. InOrder(f, s)
  <2> SUFFICES ASSUME NEW a \in 1 .. Len(f), NEW b \in 1 .. Len(f), NEW j \in 1 .. Len(s),
                      NEW k \in 1 .. Len(s),
                      a < b, s[j] = f[a], s[k] = f[b]
               PROVE  j < k
    BY <1>4 DEF InOrder
  <2>1. m[a] \in 1 .. Len(s) /\ m[b] \in 1 .. Len(s) /\ s[m[a]] = s[j] /\ s[m[b]] = s[k] /\ m[a] < m[b]
    BY <1>3
  <2>2. m[a] = j /\ m[b] = k
    BY <1>2, <2>1
  <2>q. QED BY <2>1, <2>2
<1>q. QED BY <1>1, <1>6, <1>7, <1>8

(* The same for what is left out.                                          *)
LEMMA WithoutList ==
  ASSUME NEW s \in Lists, NEW T
  PROVE  /\ Without(s, T) \in Lists
         /\ Range(Without(s, T)) = Range(s) \ T
         /\ InOrder(Without(s, T), s)
<1>1. PICK R : R = Range(s) \ T
  OBVIOUS
<1>2. Without(s, T) = Within(s, R)
  BY <1>1 DEF Without
<1>3. /\ Within(s, R) \in Lists
      /\ Range(Within(s, R)) = Range(s) \cap R
      /\ InOrder(Within(s, R), s)
  BY WithinList
<1>q. QED BY <1>1, <1>2, <1>3

(* SetToSeq lists a finite set.                                            *)
LEMMA SetToSeqLists ==
  ASSUME NEW T \in SUBSET Claims, IsFiniteSet(T)
  PROVE  SetToSeq(T) \in Lists /\ Range(SetToSeq(T)) = T
<1>1. PICK n \in Nat : n = Cardinality(T)
  BY FS_CardinalityType
<1>2. ExistsBijection(1 .. n, T)
  BY <1>1, FS_CardinalityType
<1>3. PICK g : g \in Bijection(1 .. n, T)
  BY <1>2 DEF ExistsBijection
<1>4. g \in [1 .. n -> T] /\ IsInjective(g)
  BY <1>3 DEF Bijection, Injection, IsInjective
<1>5. PICK f : f = SetToSeq(T)
  OBVIOUS
<1>6. f \in [1 .. n -> T] /\ IsInjective(f)
  BY <1>1, <1>4, <1>5, Zenon DEF SetToSeq
<1>7. f \in Injection(1 .. n, T) /\ f \in Seq(T) /\ DOMAIN f = 1 .. n
  BY <1>6 DEF Injection, IsInjective
<1>8. IsFiniteSet(1 .. n) /\ Cardinality(1 .. n) = n
  BY FS_Interval
<1>9. f \in Surjection(1 .. n, T)
  BY <1>1, <1>7, <1>8, FS_Injection
<1>10. Range(f) = T
  BY <1>6, <1>9 DEF Surjection, Range
<1>11. f \in Seq(Claims)
  BY <1>7
<1>q. QED BY <1>5, <1>6, <1>10, <1>11 DEF Lists

(* Two lists that share nothing, one after the other.                      *)
LEMMA JoinLists ==
  ASSUME NEW s \in Lists, NEW t \in Lists, Range(s) \cap Range(t) = {}
  PROVE  s \o t \in Lists /\ Range(s \o t) = Range(s) \cup Range(t)
<1>1. /\ s \in Seq(Claims) /\ t \in Seq(Claims) /\ DOMAIN s = 1 .. Len(s) /\ DOMAIN t = 1 .. Len(t)
      /\ Len(s) \in Nat /\ Len(t) \in Nat
      /\ \A i, j \in 1 .. Len(s) : s[i] = s[j] => i = j
      /\ \A i, j \in 1 .. Len(t) : t[i] = t[j] => i = j
  BY DEF Lists, IsInjective
<1>2. PICK u : u = s \o t
  OBVIOUS
<1>3. /\ u \in Seq(Claims)
      /\ Len(u) = Len(s) + Len(t) /\ DOMAIN u = 1 .. Len(u)
      /\ \A i \in 1 .. Len(s) : u[i] = s[i]
      /\ \A i \in Len(s) + 1 .. Len(s) + Len(t) : u[i] = t[i - Len(s)]
  BY <1>1, <1>2, ConcatProperties
<1>4. ASSUME NEW i \in 1 .. Len(u) PROVE u[i] \in Range(s) <=> i <= Len(s)
  <2>1. CASE i <= Len(s)
    <3>1. i \in DOMAIN s /\ u[i] = s[i]
      BY <1>1, <1>3, <2>1
    <3>q. QED BY <2>1, <3>1 DEF Range
  <2>2. CASE i > Len(s)
    <3>1. i - Len(s) \in 1 .. Len(t) /\ u[i] = t[i - Len(s)]
      BY <1>1, <1>3, <2>2
    <3>2. u[i] \in Range(t)
      BY <1>1, <3>1 DEF Range
    <3>q. QED BY <2>2, <3>2, <1>1, <1>3
  <2>q. QED BY <2>1, <2>2, <1>1, <1>3
<1>5. ASSUME NEW i \in 1 .. Len(u), NEW j \in 1 .. Len(u), u[i] = u[j] PROVE i = j
  <2>1. i <= Len(s) <=> j <= Len(s)
    BY <1>4, <1>5
  <2>2. CASE i <= Len(s)
    BY <1>1, <1>3, <1>5, <2>1, <2>2
  <2>3. CASE i > Len(s)
    <3>1. /\ i - Len(s) \in 1 .. Len(t) /\ u[i] = t[i - Len(s)]
          /\ j - Len(s) \in 1 .. Len(t) /\ u[j] = t[j - Len(s)]
      BY <1>1, <1>3, <2>1, <2>3
    <3>2. i - Len(s) = j - Len(s)
      BY <1>1, <1>5, <3>1, Zenon
    <3>q. QED BY <1>1, <3>2
  <2>q. QED BY <2>2, <2>3, <1>1, <1>3
<1>6. Range(u) = Range(s) \cup Range(t)
  <2>1. ASSUME NEW x \in Range(u) PROVE x \in Range(s) \cup Range(t)
    <3>1. PICK i \in 1 .. Len(u) : x = u[i]
      BY <1>3 DEF Range
    <3>2. CASE i <= Len(s)
      BY <1>4, <3>1, <3>2
    <3>3. CASE i > Len(s)
      <4>1. i - Len(s) \in 1 .. Len(t) /\ u[i] = t[i - Len(s)]
        BY <1>1, <1>3, <3>3
      <4>q. QED BY <1>1, <3>1, <4>1 DEF Range
    <3>q. QED BY <3>2, <3>3, <1>1, <1>3
  <2>2. ASSUME NEW x \in Range(s) PROVE x \in Range(u)
    <3>1. PICK i \in 1 .. Len(s) : x = s[i]
      BY <1>1 DEF Range
    <3>2. i \in DOMAIN u /\ u[i] = x
      BY <1>1, <1>3, <3>1
    <3>q. QED BY <3>2 DEF Range
  <2>3. ASSUME NEW x \in Range(t) PROVE x \in Range(u)
    <3>1. PICK i \in 1 .. Len(t) : x = t[i]
      BY <1>1 DEF Range
    <3>2. i + Len(s) \in DOMAIN u /\ u[i + Len(s)] = x
      BY <1>1, <1>3, <3>1
    <3>q. QED BY <3>2 DEF Range
  <2>q. QED BY <2>1, <2>2, <2>3
<1>7. u \in Lists
  BY <1>3, <1>5 DEF Lists, IsInjective
<1>q. QED BY <1>2, <1>6, <1>7

(* The head and the rest of a list.                                        *)
LEMMA SplitList ==
  ASSUME NEW s \in Lists, NEW n \in 0 .. Len(s)
  PROVE  /\ SubSeq(s, n + 1, Len(s)) \in Lists
         /\ Range(SubSeq(s, 1, n)) = {s[i] : i \in 1 .. n}
         /\ Range(SubSeq(s, n + 1, Len(s))) = {s[i] : i \in n + 1 .. Len(s)}
         /\ Len(SubSeq(s, 1, n)) = n
<1>1. /\ s \in Seq(Claims) /\ Len(s) \in Nat /\ DOMAIN s = 1 .. Len(s)
      /\ (\A i, j \in 1 .. Len(s) : s[i] = s[j] => i = j)
  BY DEF Lists, IsInjective
<1>2. PICK h : h = SubSeq(s, 1, n)
  OBVIOUS
<1>3. PICK r : r = SubSeq(s, n + 1, Len(s))
  OBVIOUS
<1>4. h \in Seq(Claims) /\ Len(h) = n /\ DOMAIN h = 1 .. n /\ \A i \in 1 .. n : h[i] = s[i]
  BY <1>1, <1>2
<1>5. /\ r \in Seq(Claims) /\ Len(r) = Len(s) - n /\ DOMAIN r = 1 .. Len(s) - n
      /\ \A i \in 1 .. Len(s) - n : r[i] = s[n + i]
  <2>1. r = [i \in 1 .. Len(s) - n |-> s[n + i]]
    BY <1>1, <1>3
  <2>2. \A i \in 1 .. Len(s) - n : n + i \in 1 .. Len(s) /\ s[n + i] \in Claims
    BY <1>1
  <2>3. Len(s) - n \in Nat
    BY <1>1
  <2>4. r \in [1 .. Len(s) - n -> Claims]
    BY <2>1, <2>2
  <2>5. \A k \in Nat : \A f \in [1 .. k -> Claims] : f \in Seq(Claims) /\ Len(f) = k /\ DOMAIN f = 1 .. k
    OBVIOUS
  <2>6. r \in Seq(Claims) /\ Len(r) = Len(s) - n /\ DOMAIN r = 1 .. Len(s) - n
    BY <2>3, <2>4, <2>5
  <2>q. QED BY <2>1, <2>6
<1>6. Range(h) = {s[i] : i \in 1 .. n}
  BY <1>4 DEF Range
<1>7. Range(r) = {s[i] : i \in n + 1 .. Len(s)}
  <2>1. ASSUME NEW x \in Range(r) PROVE x \in {s[i] : i \in n + 1 .. Len(s)}
    <3>1. PICK i \in 1 .. Len(s) - n : x = s[n + i]
      BY <1>5 DEF Range
    <3>2. n + i \in n + 1 .. Len(s)
      BY <1>1
    <3>q. QED BY <3>1, <3>2
  <2>2. ASSUME NEW i \in n + 1 .. Len(s) PROVE s[i] \in Range(r)
    <3>1. i - n \in 1 .. Len(s) - n /\ n + (i - n) = i
      BY <1>1
    <3>2. r[i - n] = s[i] /\ i - n \in DOMAIN r
      BY <1>5, <3>1
    <3>q. QED BY <3>2 DEF Range
  <2>q. QED BY <2>1, <2>2
<1>8. r \in Lists
  <2>1. ASSUME NEW i \in 1 .. Len(s) - n, NEW j \in 1 .. Len(s) - n, r[i] = r[j] PROVE i = j
    <3>1. n + i \in 1 .. Len(s) /\ n + j \in 1 .. Len(s) /\ s[n + i] = s[n + j]
      BY <1>1, <1>5, <2>1
    <3>2. n + i = n + j
      BY <1>1, <3>1
    <3>q. QED BY <3>2
  <2>q. QED BY <1>5, <2>1 DEF Lists, IsInjective
<1>q. QED BY <1>2, <1>3, <1>4, <1>6, <1>7, <1>8

-----------------------------------------------------------------------------
(* What a step leaves alone.                                               *)

(* The list, the operation and the claim that are not there.               *)
LEMMA Nothing ==
  /\ <<>> \in Lists /\ Range(<<>>) = {}
  /\ NoOp \in OpRecords /\ NoOp.kind = "none" /\ NoOp.pc = "done"
  /\ NoOp.snap = <<>> /\ NoOp.seen = {} /\ NoOp.on = {}
  /\ NoClaim \in ScreenRecords /\ NoClaim.pc = "idle" /\ NoClaim.list = <<>> /\ NoClaim.sel = <<>>
<1>1. <<>> \in Lists /\ Range(<<>>) = {}
  BY DEF Lists, IsInjective, Range
<1>2. NoOp \in OpRecords /\ NoClaim \in ScreenRecords
  BY <1>1 DEF NoOp, OpRecords, StorePcs, NoClaim, ScreenRecords, ScreenPcs
<1>q. QED BY <1>1, <1>2 DEF NoOp, NoClaim

(* Claims taken on the chain change nothing the store relies on.           *)
LEMMA StoreStays ==
  ASSUME StoreInv, UNCHANGED <<storeVars, ready, ops, appended, overwritten>>,
         claimed \subseteq claimed', claimed' \subseteq Claims
  PROVE  StoreInv'
<1>1. StoreTyped' /\ MigratesFirst' /\ MigrationIsOrdered' /\ AppendsApart'
  BY DEF StoreInv, StoreTyped, ClaimTypeOK, storeVars, MigratesFirst, MigrationIsOrdered, AppendsApart
<1>2. OpsFit'
  BY DEF StoreInv, storeVars, OpsFit, AppendFits, RemovalFits, ListingFits, Known
<1>3. PayloadsAgree' /\ NothingDropped' /\ NoOrphanSecret'
  BY DEF StoreInv, storeVars, PayloadsAgree, NothingDropped, NoOrphanSecret, Known, Kept
<1>q. QED BY <1>1, <1>2, <1>3 DEF StoreInv

(* Nor does the screen rely on anything that goes away under it.           *)
LEMMA ScreenStays ==
  ASSUME ScreenInv, UNCHANGED <<shown, screen>>, claimed \subseteq claimed',
         appended \subseteq appended', ready => ready'
  PROVE  ScreenInv'
<1>1. ScreenTyped'
  BY DEF ScreenInv, ScreenTyped, Known
<1>2. SelectionIsClaimed'
  BY DEF ScreenInv, SelectionIsClaimed
<1>q. QED BY <1>1, <1>2 DEF ScreenInv

(* An operation that is under way still fits after a step of another one:  *)
(* what that adds is new, and what it takes away was appended.             *)
LEMMA OpStays ==
  ASSUME NEW o \in OpRecords, AppendFits(o), RemovalFits(o), ListingFits(o),
         claimed \subseteq claimed', appended \subseteq appended', appended' \cap Legacy = {},
         o.kind = "append" => o.on \cap appended' = {},
         (secrets' \ secrets) \cap Known = {},
         secrets \ secrets' \subseteq Known, meta \ meta' \subseteq Known
  PROVE  AppendFits(o)' /\ RemovalFits(o)' /\ ListingFits(o)'
<1>1. AppendFits(o)'
  BY DEF AppendFits, Known
<1>2. RemovalFits(o)'
  BY DEF RemovalFits, Known
<1>3. ListingFits(o)'
  <2>1. Range(o.snap) \cup o.seen \subseteq Known'
    BY DEF ListingFits, Known
  <2>2. ASSUME o.pc = "prune", NEW c \in o.seen \ Range(o.snap)
        PROVE  c \in claimed' /\ c \notin appended' \cap secrets'
    <3>1. c \in claimed /\ c \notin appended \cap secrets /\ c \in Known
      BY <2>2 DEF ListingFits
    <3>2. c \notin secrets => c \notin secrets'
      BY <3>1
    <3>3. c \notin appended => c \notin appended'
      BY <3>1 DEF Known
    <3>q. QED BY <3>1, <3>2, <3>3
  <2>q. QED BY <2>1, <2>2 DEF ListingFits
<1>q. QED BY <1>1, <1>2, <1>3

(* A step of one operation, after the migration: its own part of the       *)
(* invariant is enough.                                                    *)
LEMMA WorkKeeps ==
  ASSUME StoreInv, NEW s \in Slots, NEW new \in OpRecords,
         ops' = [ops EXCEPT ![s] = new], ready, UNCHANGED <<v1, migrated, ready, claimed>>,
         new.kind # "migrate", new.kind = "none" => new = NoOp,
         secrets' \subseteq Claims, meta' \subseteq Claims, ids' \in Lists,
         appended \subseteq appended', appended' \subseteq Claims,
         (secrets' \ secrets) \cap Known = {},
         secrets \ secrets' \subseteq Known, meta \ meta' \subseteq Known,
         \A t \in Slots \ {s} : ops[t].kind = "append" =>
             /\ ops[t].on \cap appended' = {}
             /\ new.kind = "append" => ops[t].on \cap new.on = {},
         AppendFits(new)', RemovalFits(new)', ListingFits(new)',
         PayloadsAgree', NothingDropped', NoOrphanSecret'
  PROVE  StoreInv'
<1>1. /\ ops \in [Slots -> OpRecords] /\ ops' \in [Slots -> OpRecords]
      /\ ops'[s] = new /\ \A t \in Slots \ {s} : ops'[t] = ops[t]
  BY DEF StoreInv, StoreTyped, OpRecords
<1>2. StoreTyped'
  <2>1. ClaimTypeOK'
    BY <1>1 DEF StoreInv, StoreTyped, ClaimTypeOK, Lists, OpRecords, PayloadsAgree, Range
  <2>2. \A t \in Slots : ops'[t].kind = "none" => ops'[t] = NoOp
    BY <1>1 DEF StoreInv, StoreTyped
  <2>q. QED BY <1>1, <2>1, <2>2 DEF StoreInv, StoreTyped
<1>3. \A t \in Slots : ops[t].kind # "migrate" /\ ops'[t].kind # "migrate"
  BY <1>1 DEF StoreInv, MigratesFirst
<1>4. MigratesFirst' /\ MigrationIsOrdered'
  BY <1>3 DEF StoreInv, MigratesFirst, MigrationIsOrdered
<1>5. OpsFit'
  <2>1. ASSUME NEW t \in Slots
        PROVE  AppendFits(ops[t])' /\ RemovalFits(ops[t])' /\ ListingFits(ops[t])'
    <3>1. CASE t = s
      BY <1>1, <3>1 DEF AppendFits, RemovalFits, ListingFits
    <3>2. CASE t # s
      <4>1. PICK o \in OpRecords : o = ops[t] /\ o = ops'[t]
        BY <1>1, <3>2
      <4>2. AppendFits(o) /\ RemovalFits(o) /\ ListingFits(o)
        BY <4>1 DEF StoreInv, OpsFit
      <4>3. appended' \cap Legacy = {} /\ (o.kind = "append" => o.on \cap appended' = {})
        BY <3>2, <4>1 DEF PayloadsAgree
      <4>4. AppendFits(o)' /\ RemovalFits(o)' /\ ListingFits(o)'
        BY <4>2, <4>3, OpStays
      <4>q. QED BY <4>1, <4>4 DEF AppendFits, RemovalFits, ListingFits
    <3>q. QED BY <3>1, <3>2
  <2>q. QED BY <2>1 DEF OpsFit
<1>6. AppendsApart'
  BY <1>1 DEF StoreInv, AppendsApart
<1>q. QED BY <1>2, <1>4, <1>5, <1>6 DEF StoreInv

(* A step that changes nothing but what one operation has still to do.     *)
LEMMA PlanKeeps ==
  ASSUME StoreInv, NEW s \in Slots, NEW new \in OpRecords,
         ops' = [ops EXCEPT ![s] = new], ready,
         UNCHANGED <<storeVars, ready, claimed, appended, overwritten>>,
         new.kind # "migrate", new.kind = "none" => new = NoOp,
         \A t \in Slots \ {s} : ops[t].kind = "append" /\ new.kind = "append" =>
             ops[t].on \cap new.on = {},
         AppendFits(new), RemovalFits(new), ListingFits(new)
  PROVE  StoreInv'
<1>1. /\ UNCHANGED <<v1, migrated, secrets, meta, ids>>
      /\ secrets \subseteq Claims /\ meta \subseteq Claims /\ ids \in Lists /\ appended \subseteq Claims
  BY DEF storeVars, StoreInv, StoreTyped, ClaimTypeOK
<1>2. AppendFits(new)' /\ RemovalFits(new)' /\ ListingFits(new)'
  BY <1>1 DEF AppendFits, RemovalFits, ListingFits, Known
<1>3. PayloadsAgree' /\ NothingDropped' /\ NoOrphanSecret'
  BY <1>1 DEF StoreInv, PayloadsAgree, NothingDropped, NoOrphanSecret, Known, Kept
<1>4. \A t \in Slots : ops[t].kind = "append" => ops[t].on \cap appended = {}
  BY DEF StoreInv, OpsFit, AppendFits, Known
<1>q. QED BY <1>1, <1>2, <1>3, <1>4, WorkKeeps

(* A step of the migration, which runs alone.                              *)
LEMMA MigrationKeeps ==
  ASSUME StoreInv, NEW s \in Slots, NEW new \in OpRecords,
         ops' = [ops EXCEPT ![s] = new], \A t \in Slots \ {s} : ops[t] = NoOp,
         UNCHANGED <<claimed, appended>>,
         secrets' \subseteq Claims, meta' \subseteq Claims, ids' \in Lists, v1' \in {{}, Legacy},
         ready' \in BOOLEAN, migrated' \in BOOLEAN, ready' => migrated', ~migrated' => v1' = Legacy,
         \/ new = NoOp
         \/ /\ new.kind = "migrate" /\ new.on = Legacy /\ ~ready' /\ v1' = Legacy
            /\ new.pc \in {"copy", "read", "write", "marker", "delete"}
            /\ migrated' <=> new.pc = "delete"
            /\ new.pc \in {"read", "write", "marker"} => Legacy \subseteq secrets' \cap meta'
            /\ new.pc = "marker" => Legacy \subseteq Range(ids'),
         Range(new.snap) \cup new.seen \subseteq Known,
         new.pc = "write" => new.seen = Range(new.snap),
         PayloadsAgree', NothingDropped', NoOrphanSecret'
  PROVE  StoreInv'
<1>1. /\ ops \in [Slots -> OpRecords] /\ ops' \in [Slots -> OpRecords]
      /\ ops'[s] = new /\ \A t \in Slots \ {s} : ops'[t] = NoOp
  BY DEF StoreInv, StoreTyped, OpRecords
<1>2. StoreTyped'
  <2>1. ClaimTypeOK'
    BY <1>1 DEF StoreInv, StoreTyped, ClaimTypeOK, Lists, OpRecords, Range
  <2>2. \A t \in Slots : ops'[t].kind = "none" => ops'[t] = NoOp
    BY <1>1
  <2>q. QED BY <1>1, <2>1, <2>2 DEF StoreInv, StoreTyped
<1>3. \A t \in Slots : ops'[t].kind \in {"append", "remove", "list"} => FALSE
  BY <1>1, Nothing
<1>4. MigratesFirst'
  BY <1>1, <1>3, Nothing DEF MigratesFirst
<1>5. MigrationIsOrdered'
  BY <1>1, Nothing DEF MigrationIsOrdered
<1>6. OpsFit'
  <2>1. Known' = Known
    BY DEF Known
  <2>2. ASSUME NEW t \in Slots
        PROVE  AppendFits(ops[t])' /\ RemovalFits(ops[t])' /\ ListingFits(ops[t])'
    <3>1. PICK o \in OpRecords : o = ops'[t]
      BY <1>1
    <3>2. o = NoOp \/ o = new
      BY <1>1, <3>1
    <3>3. /\ o.kind \notin {"append", "remove", "list"}
          /\ Range(o.snap) \cup o.seen \subseteq Known
          /\ o.pc = "write" => o.seen = Range(o.snap)
          /\ o.pc # "prune"
      BY <3>2, Nothing
    <3>q. QED BY <2>1, <3>1, <3>3 DEF AppendFits, RemovalFits, ListingFits
  <2>q. QED BY <2>2 DEF OpsFit
<1>7. AppendsApart'
  BY <1>3 DEF AppendsApart
<1>q. QED BY <1>2, <1>4, <1>5, <1>6, <1>7 DEF StoreInv

(* A write of the index from a copy drops nothing but, perhaps, what was   *)
(* not there when the copy was read.                                       *)
LEMMA WriteIdsDrops ==
  ASSUME NEW s, NEW new, WriteIds(s, new)
  PROVE  /\ ids' = new
         /\ \A c \in Range(ids) \cup overwritten : c \in Range(new) \cup overwritten' \/ c \in ops[s].seen
  BY DEF WriteIds

-----------------------------------------------------------------------------
(* The steps of the migration.                                             *)

(* It starts, or finds that there is nothing to migrate.                   *)
LEMMA MigrateStartKeeps ==
  ASSUME StoreInv, NEW s \in Slots, MigrateStart(s)
  PROVE  StoreInv'
<1>1. /\ \A t \in Slots : ops[t] = NoOp
      /\ ops \in [Slots -> OpRecords] /\ ~ready
      /\ v1 \in {{}, Legacy} /\ (~migrated => v1 = Legacy)
      /\ migrated \in BOOLEAN /\ ready \in BOOLEAN
      /\ secrets \subseteq Claims /\ meta \subseteq Claims /\ ids \in Lists /\ Legacy \subseteq Claims
  BY ClaimStoreAssumption DEF MigrateStart, StoreInv, StoreTyped, ClaimTypeOK, MigratesFirst, OpRecords
<1>2. UNCHANGED <<secrets, meta, ids, v1, claimed, appended, overwritten>>
  BY DEF MigrateStart
<1>3. PayloadsAgree' /\ NoOrphanSecret'
  BY <1>2 DEF StoreInv, PayloadsAgree, NoOrphanSecret, Known
<1>4. CASE migrated \/ v1 = {}
  <2>1. ready' = TRUE /\ migrated' = TRUE /\ ops' = ops
    BY <1>4 DEF MigrateStart
  <2>2. ops' = [ops EXCEPT ![s] = NoOp]
    BY <1>1, <2>1
  <2>3. NothingDropped'
    <3>1. Kept' = Kept
      BY <1>1, <1>2, <1>4, <2>1 DEF Kept
    <3>q. QED BY <1>2, <3>1 DEF StoreInv, NothingDropped
  <2>q. QED BY <1>1, <1>2, <1>3, <2>1, <2>2, <2>3, Nothing, MigrationKeeps
<1>5. CASE ~(migrated \/ v1 = {})
  <2>1. /\ ops' = [ops EXCEPT ![s] = [NoOp EXCEPT !.kind = "migrate", !.on = v1, !.pc = "copy"]]
        /\ ready' = ready /\ migrated' = migrated
    BY <1>5 DEF MigrateStart, BeginOp
  <2>2. PICK new : new = [NoOp EXCEPT !.kind = "migrate", !.on = v1, !.pc = "copy"]
    OBVIOUS
  <2>3. /\ new \in OpRecords /\ new.kind = "migrate" /\ new.on = Legacy /\ new.pc = "copy"
        /\ new.snap = <<>> /\ new.seen = {}
    BY <1>1, <1>5, <2>2, Nothing DEF OpRecords, StorePcs
  <2>4. NothingDropped'
    BY <1>2, <2>1 DEF StoreInv, NothingDropped, Kept
  <2>q. QED BY <1>1, <1>2, <1>3, <1>5, <2>1, <2>2, <2>3, <2>4, Nothing, MigrationKeeps
<1>q. QED BY <1>4, <1>5

(* What a step of the migration finds.                                     *)
LEMMA Migrating ==
  ASSUME StoreInv, NEW s \in Slots, ops[s].kind = "migrate"
  PROVE  /\ ops[s] \in OpRecords /\ ops \in [Slots -> OpRecords]
         /\ \A t \in Slots \ {s} : ops[t] = NoOp
         /\ ~ready /\ ops[s].on = Legacy /\ v1 = Legacy /\ (migrated <=> ops[s].pc = "delete")
         /\ secrets \subseteq Claims /\ meta \subseteq Claims /\ ids \in Lists /\ Legacy \subseteq Claims
         /\ ops[s].pc \in {"read", "write", "marker"} => Legacy \subseteq secrets \cap meta
         /\ ops[s].pc = "marker" => Legacy \subseteq Range(ids)
         /\ Range(ops[s].snap) \cup ops[s].seen \subseteq Known
         /\ ops[s].pc = "write" => ops[s].seen = Range(ops[s].snap)
         /\ ready \in BOOLEAN /\ migrated \in BOOLEAN
<1>1. ops[s] \in OpRecords /\ ops \in [Slots -> OpRecords]
  BY DEF StoreInv, StoreTyped, OpRecords
<1>2. ~ready /\ \A t \in Slots \ {s} : ops[t] = NoOp
  BY DEF StoreInv, MigratesFirst
<1>3. /\ ops[s].on = Legacy /\ v1 = Legacy /\ (migrated <=> ops[s].pc = "delete")
      /\ ops[s].pc \in {"read", "write", "marker"} => Legacy \subseteq secrets \cap meta
      /\ ops[s].pc = "marker" => Legacy \subseteq Range(ids)
  BY DEF StoreInv, MigrationIsOrdered
<1>4. /\ Range(ops[s].snap) \cup ops[s].seen \subseteq Known
      /\ ops[s].pc = "write" => ops[s].seen = Range(ops[s].snap)
  BY DEF StoreInv, OpsFit, ListingFits
<1>5. /\ secrets \subseteq Claims /\ meta \subseteq Claims /\ ids \in Lists /\ Legacy \subseteq Claims
      /\ ready \in BOOLEAN /\ migrated \in BOOLEAN
  BY ClaimStoreAssumption DEF StoreInv, StoreTyped, ClaimTypeOK
<1>q. QED BY <1>1, <1>2, <1>3, <1>4, <1>5

(* One more step of an operation changes nothing but where it is.          *)
LEMMA GotoGives ==
  ASSUME NEW s, NEW pc \in StorePcs, Goto(s, pc), ops[s] \in OpRecords
  PROVE  \E new \in OpRecords :
             /\ ops' = [ops EXCEPT ![s] = new] /\ new.pc = pc
             /\ new.kind = ops[s].kind /\ new.on = ops[s].on
             /\ new.snap = ops[s].snap /\ new.seen = ops[s].seen
<1>1. PICK new : new = [ops[s] EXCEPT !.pc = pc]
  OBVIOUS
<1>2. /\ new \in OpRecords /\ new.pc = pc
      /\ new.kind = ops[s].kind /\ new.on = ops[s].on
      /\ new.snap = ops[s].snap /\ new.seen = ops[s].seen
  BY <1>1 DEF OpRecords
<1>3. ops' = [ops EXCEPT ![s] = new]
  BY <1>1 DEF Goto
<1>q. QED BY <1>2, <1>3

(* The payloads are copied.                                                *)
LEMMA MigrateCopyKeeps ==
  ASSUME StoreInv, NEW s \in Slots, MigrateCopy(s)
  PROVE  StoreInv'
<1>1. ops[s].kind = "migrate" /\ ops[s].pc = "copy"
  BY DEF MigrateCopy, OpAt
<1>2. PICK new \in OpRecords :
          /\ ops' = [ops EXCEPT ![s] = new] /\ new.pc = "read"
          /\ new.kind = ops[s].kind /\ new.on = ops[s].on
          /\ new.snap = ops[s].snap /\ new.seen = ops[s].seen
  BY <1>1, Migrating, GotoGives DEF MigrateCopy, StorePcs
<1>3. /\ secrets' = secrets \cup Legacy /\ meta' = meta \cup Legacy
      /\ UNCHANGED <<ids, v1, migrated, ready, claimed, appended, overwritten>>
  BY <1>1, Migrating DEF MigrateCopy
<1>4. PayloadsAgree' /\ NothingDropped' /\ NoOrphanSecret'
  BY <1>3 DEF StoreInv, PayloadsAgree, NothingDropped, NoOrphanSecret, Known, Kept
<1>q. QED BY <1>1, <1>2, <1>3, <1>4, Migrating, MigrationKeeps

(* The index is read.                                                      *)
LEMMA ReadGives ==
  ASSUME StoreInv, NEW s \in Slots, NEW what, ReadIds(s, what)
  PROVE  \E new \in OpRecords :
             /\ ops' = [ops EXCEPT ![s] = new] /\ new.pc = "write"
             /\ new.kind = ops[s].kind /\ new.on = ops[s].on
             /\ new.snap = ids /\ new.seen = Range(ids) /\ Range(ids) \subseteq Known
<1>1. ops \in [Slots -> OpRecords] /\ ids \in Lists /\ Range(ids) \subseteq Claims
  BY DEF StoreInv, StoreTyped, ClaimTypeOK, OpRecords
<1>2. PICK new : new = [ops[s] EXCEPT !.snap = ids, !.seen = Range(ids), !.pc = "write"]
  OBVIOUS
<1>3. /\ new \in OpRecords /\ new.pc = "write" /\ new.kind = ops[s].kind /\ new.on = ops[s].on
      /\ new.snap = ids /\ new.seen = Range(ids)
  BY <1>1, <1>2 DEF OpRecords, StorePcs
<1>4. ops' = [ops EXCEPT ![s] = new]
  BY <1>1, <1>2 DEF ReadIds
<1>5. Range(ids) \subseteq Known
  BY DEF StoreInv, PayloadsAgree
<1>q. QED BY <1>3, <1>4, <1>5

(* The index names all of it, after what it named before.                  *)
LEMMA MigrateMergeKeeps ==
  ASSUME StoreInv, NEW s \in Slots, MigrateMerge(s)
  PROVE  StoreInv'
<1>1. ops[s].kind = "migrate" /\ ops[s].pc = "write"
  BY DEF MigrateMerge, OpAt
<1>2. PICK new \in OpRecords :
          /\ ops' = [ops EXCEPT ![s] = new] /\ new.pc = "marker"
          /\ new.kind = ops[s].kind /\ new.on = ops[s].on
          /\ new.snap = ops[s].snap /\ new.seen = ops[s].seen
  BY <1>1, Migrating, GotoGives DEF MigrateMerge, StorePcs
<1>3. UNCHANGED <<secrets, meta, v1, migrated, ready, claimed, appended>>
  BY DEF MigrateMerge
<1>4. PICK snap \in Lists : snap = ops[s].snap
  BY <1>1, Migrating DEF OpRecords
<1>5. PICK more : more = SetToSeq(Legacy \ Range(snap))
  OBVIOUS
<1>6. more \in Lists /\ Range(more) = Legacy \ Range(snap)
  <2>1. Legacy \ Range(snap) \in SUBSET Claims /\ IsFiniteSet(Legacy \ Range(snap))
    BY ClaimStoreAssumption, FS_Subset
  <2>q. QED BY <1>5, <2>1, SetToSeqLists
<1>7. snap \o more \in Lists /\ Range(snap \o more) = Range(snap) \cup Legacy
  <2>1. Range(snap) \cap Range(more) = {}
    BY <1>6
  <2>q. QED BY <1>4, <1>6, <2>1, JoinLists
<1>8. WriteIds(s, snap \o more)
  BY <1>1, <1>4, <1>5, Migrating DEF MigrateMerge
<1>9. /\ ids' = snap \o more
      /\ \A c \in Range(ids) \cup overwritten : c \in Range(ids') \cup overwritten'
  <2>1. ops[s].seen = Range(snap)
    BY <1>1, <1>4, Migrating
  <2>q. QED BY <1>7, <1>8, <2>1, WriteIdsDrops
<1>10. Range(ids') = Range(snap) \cup Legacy /\ ids' \in Lists
  BY <1>7, <1>9
<1>11. PayloadsAgree'
  BY <1>1, <1>3, <1>4, <1>10, Migrating DEF StoreInv, PayloadsAgree, Known
<1>12. NothingDropped' /\ NoOrphanSecret'
  BY <1>3, <1>9 DEF StoreInv, NothingDropped, NoOrphanSecret, Kept
<1>q. QED BY <1>1, <1>2, <1>3, <1>10, <1>11, <1>12, Migrating, MigrationKeeps

(* The marker is set when everything is in the new store.                  *)
LEMMA MigrateMarkerKeeps ==
  ASSUME StoreInv, NEW s \in Slots, MigrateMarker(s)
  PROVE  StoreInv'
<1>1. ops[s].kind = "migrate" /\ ops[s].pc = "marker"
  BY DEF MigrateMarker, OpAt
<1>2. PICK new \in OpRecords :
          /\ ops' = [ops EXCEPT ![s] = new] /\ new.pc = "delete"
          /\ new.kind = ops[s].kind /\ new.on = ops[s].on
          /\ new.snap = ops[s].snap /\ new.seen = ops[s].seen
  BY <1>1, Migrating, GotoGives DEF MigrateMarker, StorePcs
<1>3. migrated' = TRUE /\ UNCHANGED <<secrets, meta, ids, v1, ready, claimed, appended, overwritten>>
  BY DEF MigrateMarker
<1>4. Legacy \subseteq secrets \cap meta \cap Range(ids)
  BY <1>1, Migrating
<1>5. PayloadsAgree' /\ NothingDropped' /\ NoOrphanSecret'
  BY <1>3, <1>4 DEF StoreInv, PayloadsAgree, NothingDropped, NoOrphanSecret, Known, Kept
<1>q. QED BY <1>1, <1>2, <1>3, <1>5, Migrating, MigrationKeeps

(* Only then is the old store deleted.                                     *)
LEMMA MigrateDeleteKeeps ==
  ASSUME StoreInv, NEW s \in Slots, MigrateDelete(s)
  PROVE  StoreInv'
<1>1. ops[s].kind = "migrate" /\ ops[s].pc = "delete"
  BY DEF MigrateDelete, OpAt
<1>2. /\ v1' = {} /\ ready' = TRUE /\ ops' = [ops EXCEPT ![s] = NoOp]
      /\ UNCHANGED <<secrets, meta, ids, migrated, claimed, appended, overwritten>>
  BY DEF MigrateDelete, End
<1>3. migrated' = TRUE
  BY <1>1, <1>2, Migrating DEF StoreInv, StoreTyped
<1>4. PayloadsAgree' /\ NothingDropped' /\ NoOrphanSecret'
  BY <1>2 DEF StoreInv, PayloadsAgree, NothingDropped, NoOrphanSecret, Known, Kept
<1>q. QED BY <1>1, <1>2, <1>3, <1>4, Nothing, Migrating, MigrationKeeps

-----------------------------------------------------------------------------
(* The steps of the other operations.                                      *)

(* What they find: the migration is over, and the copy they hold.          *)
LEMMA Working ==
  ASSUME StoreInv, NEW s \in Slots, ops[s].kind \in {"append", "remove", "list"}
  PROVE  /\ ops[s] \in OpRecords /\ ready /\ migrated
         /\ secrets \subseteq Claims /\ meta \subseteq Claims /\ ids \in Lists
         /\ appended \subseteq Claims /\ Kept = Known
         /\ AppendFits(ops[s]) /\ RemovalFits(ops[s]) /\ ListingFits(ops[s])
         /\ \A t \in Slots : ops[t].kind = "append" => ops[t].on \cap Known = {}
<1>1. ops[s] \in OpRecords
  BY DEF StoreInv, StoreTyped, OpRecords
<1>2. ready /\ migrated
  BY DEF StoreInv, MigratesFirst
<1>3. secrets \subseteq Claims /\ meta \subseteq Claims /\ ids \in Lists /\ appended \subseteq Claims
  BY DEF StoreInv, StoreTyped, ClaimTypeOK
<1>4. AppendFits(ops[s]) /\ RemovalFits(ops[s]) /\ ListingFits(ops[s])
  BY DEF StoreInv, OpsFit
<1>5. \A t \in Slots : ops[t].kind = "append" => ops[t].on \cap Known = {}
  BY DEF StoreInv, OpsFit, AppendFits
<1>q. QED BY <1>1, <1>2, <1>3, <1>4, <1>5 DEF Known, Kept

(* An operation begins.                                                    *)
LEMMA BeginGives ==
  ASSUME NEW s \in Slots, NEW what \in {"append", "remove", "list"}, NEW on \in SUBSET Claims,
         NEW pc \in StorePcs, BeginOp(s, what, on, pc)
  PROVE  \E new \in OpRecords :
             /\ ops' = [ops EXCEPT ![s] = new]
             /\ new.kind = what /\ new.on = on /\ new.pc = pc /\ new.snap = <<>> /\ new.seen = {}
<1>1. PICK new : new = [NoOp EXCEPT !.kind = what, !.on = on, !.pc = pc]
  OBVIOUS
<1>2. /\ new \in OpRecords
      /\ new.kind = what /\ new.on = on /\ new.pc = pc /\ new.snap = <<>> /\ new.seen = {}
  BY <1>1, Nothing DEF OpRecords
<1>3. ops' = [ops EXCEPT ![s] = new]
  BY <1>1 DEF BeginOp
<1>q. QED BY <1>2, <1>3

(* A new claim is to be appended.                                          *)
LEMMA AppendStartKeeps ==
  ASSUME StoreInv, NEW s \in Slots, NEW c \in Claims, AppendStart(s, c)
  PROVE  StoreInv'
<1>1. PICK new \in OpRecords :
          /\ ops' = [ops EXCEPT ![s] = new]
          /\ new.kind = "append" /\ new.on = {c} /\ new.pc = "secret" /\ new.snap = <<>> /\ new.seen = {}
  BY BeginGives DEF AppendStart, StorePcs
<1>2. /\ ready /\ c \notin Known
      /\ UNCHANGED <<storeVars, ready, claimed, appended, overwritten>>
  BY DEF AppendStart, Known
<1>3. \A t \in Slots : ops[t].kind = "append" => ops[t].on \cap {c} = {}
  BY DEF AppendStart, StoreInv, StoreTyped
<1>4. IsFiniteSet({c})
  BY FS_Singleton
<1>5. AppendFits(new) /\ RemovalFits(new) /\ ListingFits(new)
  BY <1>1, <1>2, <1>4, Nothing DEF AppendFits, RemovalFits, ListingFits
<1>q. QED BY <1>1, <1>2, <1>3, <1>5, PlanKeeps

(* The claims are to be listed.                                            *)
LEMMA ListStartKeeps ==
  ASSUME StoreInv, NEW s \in Slots, ListStart(s)
  PROVE  StoreInv'
<1>1. PICK new \in OpRecords :
          /\ ops' = [ops EXCEPT ![s] = new]
          /\ new.kind = "list" /\ new.on = {} /\ new.pc = "read" /\ new.snap = <<>> /\ new.seen = {}
  BY BeginGives DEF ListStart, StorePcs
<1>2. ready /\ UNCHANGED <<storeVars, ready, claimed, appended, overwritten>>
  BY DEF ListStart
<1>3. AppendFits(new) /\ RemovalFits(new) /\ ListingFits(new)
  BY <1>1, Nothing DEF AppendFits, RemovalFits, ListingFits
<1>q. QED BY <1>1, <1>2, <1>3, PlanKeeps

(* The index is read, by the migration or by another operation.            *)
LEMMA ReadIdsKeeps ==
  ASSUME StoreInv, NEW s \in Slots, NEW what \in {"migrate", "append", "remove", "list"},
         ReadIds(s, what)
  PROVE  StoreInv'
<1>1. PICK new \in OpRecords :
          /\ ops' = [ops EXCEPT ![s] = new] /\ new.pc = "write"
          /\ new.kind = ops[s].kind /\ new.on = ops[s].on
          /\ new.snap = ids /\ new.seen = Range(ids) /\ Range(ids) \subseteq Known
  BY ReadGives
<1>2. /\ ops[s].kind = what /\ ops[s].pc = "read"
      /\ UNCHANGED <<storeVars, ready, claimed, appended, overwritten>>
  BY DEF ReadIds, OpAt
<1>3. CASE what = "migrate"
  <2>1. PayloadsAgree' /\ NothingDropped' /\ NoOrphanSecret'
    BY <1>2 DEF storeVars, StoreInv, PayloadsAgree, NothingDropped, NoOrphanSecret, Known, Kept
  <2>2. ready \in BOOLEAN /\ migrated \in BOOLEAN
    BY DEF StoreInv, StoreTyped
  <2>q. QED BY <1>1, <1>2, <1>3, <2>1, <2>2, Migrating, MigrationKeeps DEF storeVars
<1>4. CASE what # "migrate"
  <2>1. AppendFits(new) /\ RemovalFits(new) /\ ListingFits(new)
    BY <1>1, <1>2, <1>4, Working DEF AppendFits, RemovalFits, ListingFits
  <2>2. \A t \in Slots \ {s} : ops[t].kind = "append" /\ new.kind = "append" => ops[t].on \cap new.on = {}
    BY <1>1 DEF StoreInv, AppendsApart
  <2>3. new.kind \in {"append", "remove", "list"}
    BY <1>1, <1>2, <1>4
  <2>4. ready
    BY <1>1, <2>3, Working
  <2>q. QED BY <1>1, <1>2, <2>1, <2>2, <2>3, <2>4, PlanKeeps
<1>q. QED BY <1>3, <1>4

(* Its secret is stored.                                                   *)
LEMMA AppendSecretKeeps ==
  ASSUME StoreInv, NEW s \in Slots, AppendSecret(s)
  PROVE  StoreInv'
<1>1. ops[s].kind = "append" /\ ops[s].pc = "secret"
  BY DEF AppendSecret, OpAt
<1>2. PICK new \in OpRecords :
          /\ ops' = [ops EXCEPT ![s] = new] /\ new.pc = "meta"
          /\ new.kind = ops[s].kind /\ new.on = ops[s].on
          /\ new.snap = ops[s].snap /\ new.seen = ops[s].seen
  BY <1>1, Working, GotoGives DEF AppendSecret, StorePcs
<1>3. /\ secrets' = secrets \cup new.on /\ new.on \subseteq Claims /\ new.on \cap Known = {}
      /\ UNCHANGED <<meta, ids, v1, migrated, ready, claimed, appended, overwritten>>
  BY <1>1, <1>2, Working DEF AppendSecret, OpRecords
<1>4. AppendFits(new)' /\ RemovalFits(new)' /\ ListingFits(new)'
  <2>1. AppendFits(ops[s]) /\ ListingFits(ops[s])
    BY <1>1, Working
  <2>q. QED BY <1>1, <1>2, <1>3, <2>1 DEF AppendFits, RemovalFits, ListingFits, Known
<1>5. PayloadsAgree' /\ NothingDropped' /\ NoOrphanSecret'
  BY <1>3 DEF StoreInv, PayloadsAgree, NothingDropped, NoOrphanSecret, Known, Kept
<1>6. \A t \in Slots \ {s} : ops[t].kind = "append" =>
          /\ ops[t].on \cap appended' = {}
          /\ new.kind = "append" => ops[t].on \cap new.on = {}
  BY <1>1, <1>2, <1>3, Working DEF StoreInv, AppendsApart, Known
<1>q. QED BY <1>1, <1>2, <1>3, <1>4, <1>5, <1>6, Working, WorkKeeps

(* Its metadata is stored.                                                 *)
LEMMA AppendMetaKeeps ==
  ASSUME StoreInv, NEW s \in Slots, AppendMeta(s)
  PROVE  StoreInv'
<1>1. ops[s].kind = "append" /\ ops[s].pc = "meta"
  BY DEF AppendMeta, OpAt
<1>2. PICK new \in OpRecords :
          /\ ops' = [ops EXCEPT ![s] = new] /\ new.pc = "read"
          /\ new.kind = ops[s].kind /\ new.on = ops[s].on
          /\ new.snap = ops[s].snap /\ new.seen = ops[s].seen
  BY <1>1, Working, GotoGives DEF AppendMeta, StorePcs
<1>3. /\ meta' = meta \cup new.on /\ new.on \subseteq Claims /\ new.on \cap Known = {}
      /\ UNCHANGED <<secrets, ids, v1, migrated, ready, claimed, appended, overwritten>>
  BY <1>1, <1>2, Working DEF AppendMeta, OpRecords
<1>4. AppendFits(new)' /\ RemovalFits(new)' /\ ListingFits(new)'
  <2>1. AppendFits(ops[s]) /\ ListingFits(ops[s])
    BY <1>1, Working
  <2>q. QED BY <1>1, <1>2, <1>3, <2>1 DEF AppendFits, RemovalFits, ListingFits, Known
<1>5. PayloadsAgree' /\ NothingDropped' /\ NoOrphanSecret'
  BY <1>3 DEF StoreInv, PayloadsAgree, NothingDropped, NoOrphanSecret, Known, Kept
<1>6. \A t \in Slots \ {s} : ops[t].kind = "append" =>
          /\ ops[t].on \cap appended' = {}
          /\ new.kind = "append" => ops[t].on \cap new.on = {}
  BY <1>1, <1>2, <1>3, Working DEF StoreInv, AppendsApart, Known
<1>q. QED BY <1>1, <1>2, <1>3, <1>4, <1>5, <1>6, Working, WorkKeeps

(* The index names it, after what its copy named.                          *)
LEMMA AppendWriteKeeps ==
  ASSUME StoreInv, NEW s \in Slots, AppendWrite(s)
  PROVE  StoreInv'
<1>1. ops[s].kind = "append" /\ ops[s].pc = "write"
  BY DEF AppendWrite, OpAt
<1>2. /\ ops' = [ops EXCEPT ![s] = NoOp] /\ appended' = appended \cup ops[s].on
      /\ UNCHANGED <<secrets, meta, v1, migrated, ready, claimed>>
  BY DEF AppendWrite, End
<1>3. PICK on \in SUBSET Claims : on = ops[s].on
  BY <1>1, Working DEF OpRecords
<1>4. PICK snap \in Lists : snap = ops[s].snap
  BY <1>1, Working DEF OpRecords
<1>5. /\ IsFiniteSet(on) /\ on \cap Known = {} /\ on \subseteq secrets \cap meta
      /\ Range(snap) \subseteq Known /\ ops[s].seen = Range(snap)
  <2>1. AppendFits(ops[s]) /\ ListingFits(ops[s])
    BY <1>1, Working
  <2>q. QED BY <1>1, <1>3, <1>4, <2>1 DEF AppendFits, ListingFits
<1>6. snap \o SetToSeq(on) \in Lists /\ Range(snap \o SetToSeq(on)) = Range(snap) \cup on
  <2>1. SetToSeq(on) \in Lists /\ Range(SetToSeq(on)) = on
    BY <1>5, SetToSeqLists
  <2>2. Range(snap) \cap on = {}
    BY <1>5
  <2>q. QED BY <2>1, <2>2, JoinLists
<1>7. WriteIds(s, snap \o SetToSeq(on))
  BY <1>3, <1>4 DEF AppendWrite
<1>8. /\ ids' \in Lists /\ Range(ids') = Range(snap) \cup on
      /\ \A c \in Range(ids) \cup overwritten : c \in Range(ids') \cup overwritten'
  BY <1>5, <1>6, <1>7, WriteIdsDrops
<1>9. PayloadsAgree' /\ NothingDropped' /\ NoOrphanSecret'
  <2>1. appended' = appended \cup on
    BY <1>2, <1>3
  <2>2. PayloadsAgree'
    BY <1>2, <1>5, <1>8, <2>1 DEF StoreInv, PayloadsAgree, Known
  <2>3. NothingDropped'
    BY <1>2, <1>5, <1>8, <2>1 DEF StoreInv, NothingDropped, Kept
  <2>4. NoOrphanSecret'
    BY <1>2, <1>8, <2>1 DEF StoreInv, NoOrphanSecret
  <2>q. QED BY <2>2, <2>3, <2>4
<1>10. \A t \in Slots \ {s} : ops[t].kind = "append" => ops[t].on \cap appended' = {}
  <2>1. \A t \in Slots \ {s} : ops[t].kind = "append" =>
            ops[t].on \cap Known = {} /\ ops[t].on \cap ops[s].on = {}
    BY <1>1, Working DEF StoreInv, AppendsApart
  <2>q. QED BY <1>2, <2>1 DEF Known
<1>11. AppendFits(NoOp)' /\ RemovalFits(NoOp)' /\ ListingFits(NoOp)'
  BY Nothing DEF AppendFits, RemovalFits, ListingFits
<1>12. appended' \subseteq Claims
  BY <1>1, <1>2, <1>3, Working
<1>q. QED BY <1>1, <1>2, <1>8, <1>9, <1>10, <1>11, <1>12, Working, Nothing, WorkKeeps

(* What was taken on the chain loses its payloads.                         *)
LEMMA RemovePayloadKeeps ==
  ASSUME StoreInv, NEW s \in Slots, RemovePayload(s)
  PROVE  StoreInv'
<1>1. ops[s].kind = "remove" /\ ops[s].pc = "payload"
  BY DEF RemovePayload, OpAt
<1>2. PICK new \in OpRecords :
          /\ ops' = [ops EXCEPT ![s] = new] /\ new.pc = "read"
          /\ new.kind = ops[s].kind /\ new.on = ops[s].on
          /\ new.snap = ops[s].snap /\ new.seen = ops[s].seen
  BY <1>1, Working, GotoGives DEF RemovePayload, StorePcs
<1>3. /\ secrets' = secrets \ new.on /\ meta' = meta \ new.on
      /\ UNCHANGED <<ids, v1, migrated, ready, claimed, appended, overwritten>>
  BY <1>2 DEF RemovePayload
<1>4. RemovalFits(ops[s]) /\ ListingFits(ops[s])
  BY <1>1, Working
<1>5. new.on \subseteq claimed \cap Known
  BY <1>1, <1>2, <1>4 DEF RemovalFits
<1>6. AppendFits(new)' /\ RemovalFits(new)' /\ ListingFits(new)'
  BY <1>1, <1>2, <1>3, <1>4, <1>5 DEF AppendFits, RemovalFits, ListingFits, Known
<1>7. PayloadsAgree' /\ NothingDropped' /\ NoOrphanSecret'
  BY <1>3, <1>5 DEF StoreInv, PayloadsAgree, NothingDropped, NoOrphanSecret, Known, Kept
<1>8. \A t \in Slots \ {s} : ops[t].kind = "append" =>
          /\ ops[t].on \cap appended' = {}
          /\ new.kind = "append" => ops[t].on \cap new.on = {}
  BY <1>1, <1>2, <1>3, Working DEF Known
<1>q. QED BY <1>1, <1>2, <1>3, <1>5, <1>6, <1>7, <1>8, Working, WorkKeeps

(* Then the index names the others only.                                   *)
LEMMA RemoveWriteKeeps ==
  ASSUME StoreInv, NEW s \in Slots, RemoveWrite(s)
  PROVE  StoreInv'
<1>1. ops[s].kind = "remove" /\ ops[s].pc = "write"
  BY DEF RemoveWrite, OpAt
<1>2. /\ ops' = [ops EXCEPT ![s] = NoOp]
      /\ UNCHANGED <<secrets, meta, v1, migrated, ready, claimed, appended>>
  BY DEF RemoveWrite, End
<1>3. PICK on : on = ops[s].on
  OBVIOUS
<1>4. PICK snap \in Lists : snap = ops[s].snap
  BY <1>1, Working DEF OpRecords
<1>5. /\ on \subseteq claimed /\ on \cap secrets = {}
      /\ Range(snap) \subseteq Known /\ ops[s].seen = Range(snap)
  <2>1. RemovalFits(ops[s]) /\ ListingFits(ops[s])
    BY <1>1, Working
  <2>q. QED BY <1>1, <1>3, <1>4, <2>1 DEF RemovalFits, ListingFits
<1>6. Without(snap, on) \in Lists /\ Range(Without(snap, on)) = Range(snap) \ on
  BY WithoutList
<1>7. WriteIds(s, Without(snap, on))
  BY <1>3, <1>4 DEF RemoveWrite
<1>8. /\ ids' \in Lists /\ Range(ids') = Range(snap) \ on
      /\ \A c \in Range(ids) \cup overwritten : c \in Range(ids') \cup overwritten' \/ c \in on
  BY <1>5, <1>6, <1>7, WriteIdsDrops
<1>9. PayloadsAgree' /\ NothingDropped' /\ NoOrphanSecret'
  <2>1. PayloadsAgree'
    BY <1>2, <1>5, <1>8 DEF StoreInv, PayloadsAgree, Known
  <2>2. NothingDropped'
    BY <1>2, <1>5, <1>8 DEF StoreInv, NothingDropped, Kept
  <2>3. NoOrphanSecret'
    BY <1>2, <1>5, <1>8 DEF StoreInv, NoOrphanSecret
  <2>q. QED BY <2>1, <2>2, <2>3
<1>10. \A t \in Slots \ {s} : ops[t].kind = "append" => ops[t].on \cap appended' = {}
  BY <1>1, <1>2, Working DEF Known
<1>11. AppendFits(NoOp)' /\ RemovalFits(NoOp)' /\ ListingFits(NoOp)'
  BY Nothing DEF AppendFits, RemovalFits, ListingFits
<1>q. QED BY <1>1, <1>2, <1>8, <1>9, <1>10, <1>11, Working, Nothing, WorkKeeps

(* The screen lists the claims that have both payloads; what has not is    *)
(* to be pruned, and has been claimed.                                     *)
LEMMA ListWriteKeeps ==
  ASSUME StoreInv, NEW s \in Slots, ListWrite(s)
  PROVE  /\ StoreInv' /\ shown' \in Lists /\ Range(shown') \subseteq Known
         /\ ready /\ UNCHANGED <<ready, screen, claimed, appended>>
<1>1. ops[s].kind = "list" /\ ops[s].pc = "write"
  BY DEF ListWrite, OpAt
<1>2. UNCHANGED <<storeVars, ready, screen, claimed, appended, overwritten>>
  BY DEF ListWrite, storeVars
<1>3. PICK snap \in Lists : snap = ops[s].snap
  BY <1>1, Working DEF OpRecords
<1>4. PICK whole : whole = Within(snap, secrets \cap meta)
  OBVIOUS
<1>5. whole \in Lists /\ Range(whole) = Range(snap) \cap (secrets \cap meta)
  BY <1>4, WithinList
<1>6. Range(snap) \subseteq Known /\ ops[s].seen = Range(snap)
  <2>1. ListingFits(ops[s])
    BY <1>1, Working
  <2>q. QED BY <1>1, <1>3, <2>1 DEF ListingFits
<1>7. /\ shown' = whole
      /\ IF whole = snap THEN End(s)
         ELSE ops' = [ops EXCEPT ![s].snap = whole, ![s].pc = "prune"]
  BY <1>3, <1>4 DEF ListWrite
<1>8. StoreInv'
  <2>1. CASE whole = snap
    <3>1. ops' = [ops EXCEPT ![s] = NoOp]
      BY <1>7, <2>1 DEF End
    <3>2. AppendFits(NoOp) /\ RemovalFits(NoOp) /\ ListingFits(NoOp)
      BY Nothing DEF AppendFits, RemovalFits, ListingFits
    <3>q. QED BY <1>1, <1>2, <3>1, <3>2, Working, Nothing, PlanKeeps
  <2>2. CASE whole # snap
    <3>1. PICK new : new = [ops[s] EXCEPT !.snap = whole, !.pc = "prune"]
      OBVIOUS
    <3>2. /\ new \in OpRecords /\ new.kind = "list" /\ new.pc = "prune" /\ new.snap = whole
          /\ new.seen = Range(snap)
      BY <1>1, <1>5, <1>6, <3>1, Working DEF OpRecords, StorePcs
    <3>3. ops' = [ops EXCEPT ![s] = new]
      BY <1>7, <2>2, <3>1 DEF StoreInv, StoreTyped
    <3>4. \A c \in Range(snap) \ Range(whole) : c \in claimed /\ c \notin appended \cap secrets
      <4>1. ASSUME NEW c \in Range(snap) \ Range(whole)
            PROVE  c \in claimed /\ c \notin appended \cap secrets
        <5>1. c \in Known /\ c \notin secrets \cap meta
          BY <1>5, <1>6
        <5>2. c \in Kept
          BY <1>1, <5>1, Working
        <5>q. QED BY <5>1, <5>2 DEF StoreInv, NothingDropped, PayloadsAgree
      <4>q. QED BY <4>1
    <3>5. AppendFits(new) /\ RemovalFits(new) /\ ListingFits(new)
      BY <1>5, <1>6, <3>2, <3>4 DEF AppendFits, RemovalFits, ListingFits
    <3>q. QED BY <1>1, <1>2, <3>2, <3>3, <3>5, Working, PlanKeeps
  <2>q. QED BY <2>1, <2>2
<1>q. QED BY <1>1, <1>2, <1>5, <1>6, <1>7, <1>8, Working

(* The pruned copy is written back.                                        *)
LEMMA ListPruneKeeps ==
  ASSUME StoreInv, NEW s \in Slots, ListPrune(s)
  PROVE  StoreInv'
<1>1. ops[s].kind = "list" /\ ops[s].pc = "prune"
  BY DEF ListPrune, OpAt
<1>2. /\ ops' = [ops EXCEPT ![s] = NoOp]
      /\ UNCHANGED <<secrets, meta, v1, migrated, ready, claimed, appended>>
  BY DEF ListPrune, End
<1>3. PICK snap \in Lists : snap = ops[s].snap
  BY <1>1, Working DEF OpRecords
<1>4. PICK gone : gone = ops[s].seen \ Range(snap)
  OBVIOUS
<1>5. /\ Range(snap) \subseteq Known
      /\ \A c \in gone : c \in claimed /\ c \notin appended \cap secrets
  <2>1. ListingFits(ops[s])
    BY <1>1, Working
  <2>q. QED BY <1>1, <1>3, <1>4, <2>1 DEF ListingFits
<1>6. WriteIds(s, snap)
  BY <1>3 DEF ListPrune
<1>7. /\ ids' \in Lists /\ Range(ids') = Range(snap)
      /\ \A c \in Range(ids) \cup overwritten : c \in Range(ids') \cup overwritten' \/ c \in gone
  BY <1>3, <1>4, <1>6, WriteIdsDrops
<1>8. PayloadsAgree' /\ NothingDropped' /\ NoOrphanSecret'
  <2>1. PayloadsAgree'
    BY <1>2, <1>5, <1>7 DEF StoreInv, PayloadsAgree, Known
  <2>2. NothingDropped'
    BY <1>2, <1>5, <1>7 DEF StoreInv, NothingDropped, Kept
  <2>3. NoOrphanSecret'
    BY <1>2, <1>5, <1>7 DEF StoreInv, NoOrphanSecret
  <2>q. QED BY <2>1, <2>2, <2>3
<1>9. \A t \in Slots \ {s} : ops[t].kind = "append" => ops[t].on \cap appended' = {}
  BY <1>1, <1>2, Working DEF Known
<1>10. AppendFits(NoOp)' /\ RemovalFits(NoOp)' /\ ListingFits(NoOp)'
  BY Nothing DEF AppendFits, RemovalFits, ListingFits
<1>q. QED BY <1>1, <1>2, <1>7, <1>8, <1>9, <1>10, Working, Nothing, WorkKeeps

(* A step of an operation of the store.                                    *)
LEMMA StoreStepKeeps ==
  ASSUME ClaimInv, NEW s \in Slots, StoreStep(s)
  PROVE  ClaimInv'
<1>1. StoreInv /\ ScreenInv
  BY DEF ClaimInv
<1>2. ready => migrated
  BY <1>1 DEF StoreInv, MigratesFirst
<1>3. CASE MigrateStart(s) \/ MigrateCopy(s) \/ MigrateMerge(s) \/ MigrateMarker(s) \/ MigrateDelete(s)
  <2>1. StoreInv'
    BY <1>1, <1>3, MigrateStartKeeps, MigrateCopyKeeps, MigrateMergeKeeps, MigrateMarkerKeeps,
       MigrateDeleteKeeps
  <2>2. UNCHANGED <<shown, screen, claimed, appended>> /\ (ready => ready')
    BY <1>3 DEF MigrateStart, MigrateCopy, MigrateMerge, MigrateMarker, MigrateDelete
  <2>q. QED BY <1>1, <2>1, <2>2, ScreenStays DEF ClaimInv
<1>4. CASE \E c \in Claims : AppendStart(s, c)
  <2>1. StoreInv'
    BY <1>1, <1>4, AppendStartKeeps
  <2>2. UNCHANGED <<shown, screen, claimed, appended, ready>>
    BY <1>4 DEF AppendStart
  <2>q. QED BY <1>1, <2>1, <2>2, ScreenStays DEF ClaimInv
<1>5. CASE AppendSecret(s) \/ AppendMeta(s) \/ AppendWrite(s)
  <2>1. StoreInv'
    BY <1>1, <1>5, AppendSecretKeeps, AppendMetaKeeps, AppendWriteKeeps
  <2>2. UNCHANGED <<shown, screen, claimed, ready>> /\ appended \subseteq appended'
    BY <1>5 DEF AppendSecret, AppendMeta, AppendWrite
  <2>q. QED BY <1>1, <2>1, <2>2, ScreenStays DEF ClaimInv
<1>6. CASE RemovePayload(s) \/ RemoveWrite(s) \/ ListStart(s) \/ ListPrune(s)
  <2>1. StoreInv'
    BY <1>1, <1>6, RemovePayloadKeeps, RemoveWriteKeeps, ListStartKeeps, ListPruneKeeps
  <2>2. UNCHANGED <<shown, screen, claimed, appended, ready>>
    BY <1>6 DEF RemovePayload, RemoveWrite, ListStart, ListPrune
  <2>q. QED BY <1>1, <2>1, <2>2, ScreenStays DEF ClaimInv
<1>7. CASE \E what \in {"migrate", "append", "remove", "list"} : ReadIds(s, what)
  <2>1. StoreInv'
    BY <1>1, <1>7, ReadIdsKeeps
  <2>2. UNCHANGED <<shown, screen, claimed, appended, ready>>
    BY <1>7 DEF ReadIds
  <2>q. QED BY <1>1, <2>1, <2>2, ScreenStays DEF ClaimInv
<1>8. CASE ListWrite(s)
  <2>1. /\ StoreInv' /\ shown' \in Lists /\ Range(shown') \subseteq Known
        /\ ready /\ UNCHANGED <<ready, screen, claimed, appended>>
    BY <1>1, <1>8, ListWriteKeeps
  <2>2. ScreenTyped'
    BY <1>1, <2>1 DEF ScreenInv, ScreenTyped, Known
  <2>3. SelectionIsClaimed'
    BY <1>1, <2>1 DEF ScreenInv, SelectionIsClaimed
  <2>q. QED BY <2>1, <2>2, <2>3 DEF ClaimInv, ScreenInv
<1>q. QED BY <1>3, <1>4, <1>5, <1>6, <1>7, <1>8 DEF StoreStep

-----------------------------------------------------------------------------
(* The steps of the screen and of the chain.                               *)

(* The user selects claims of the list.                                    *)
LEMMA SelectKeeps ==
  ASSUME ClaimInv, Select
  PROVE  ClaimInv'
<1>1. PICK S \in (SUBSET Range(shown)) \ {{}} :
            screen' = [NoClaim EXCEPT !.pc = "check", !.list = shown, !.sel = Within(shown, S)]
  BY DEF Select
<1>2. UNCHANGED <<storeVars, ready, ops, shown, claimed, appended, overwritten>>
  BY DEF Select
<1>3. shown \in Lists /\ Range(shown) \subseteq Known
  BY DEF ClaimInv, ScreenInv, ScreenTyped
<1>4. PICK sel : sel = Within(shown, S)
  OBVIOUS
<1>5. sel \in Lists /\ Range(sel) \subseteq Range(shown)
  BY <1>3, <1>4, WithinList
<1>6. screen' = [pc |-> "check", list |-> shown, sel |-> sel, rest |-> <<>>,
                 mine |-> {}, txs |-> 0, err |-> FALSE]
  BY <1>1, <1>4 DEF NoClaim
<1>7. screen' \in ScreenRecords
  BY <1>3, <1>5, <1>6, Nothing DEF ScreenRecords, ScreenPcs
<1>8. ready
  <2>1. shown # <<>>
    BY <1>1, Nothing
  <2>q. QED BY <2>1 DEF ClaimInv, ScreenInv, ScreenTyped
<1>9. ScreenTyped'
  BY <1>2, <1>3, <1>5, <1>6, <1>7, <1>8 DEF ScreenTyped, Known
<1>10. SelectionIsClaimed'
  BY <1>6 DEF SelectionIsClaimed
<1>11. StoreInv'
  BY <1>2, StoreStays DEF ClaimInv, StoreInv, StoreTyped, ClaimTypeOK
<1>q. QED BY <1>9, <1>10, <1>11 DEF ClaimInv, ScreenInv

(* What is left to submit is the selection without what is already taken.  *)
LEMMA CheckStatusKeeps ==
  ASSUME ClaimInv, CheckStatus
  PROVE  ClaimInv'
<1>1. screen \in ScreenRecords /\ screen.pc = "check" /\ screen.mine = {} /\ screen.txs = 0
  BY DEF ClaimInv, ScreenInv, ScreenTyped, SelectionIsClaimed, CheckStatus
<1>2. UNCHANGED <<storeVars, ready, ops, shown, claimed, appended, overwritten>>
  BY DEF CheckStatus
<1>3. PICK left : left = Without(screen.sel, claimed)
  OBVIOUS
<1>4. left \in Lists /\ Range(left) = Range(screen.sel) \ claimed /\ InOrder(left, screen.sel)
  BY <1>1, <1>3, WithoutList DEF ScreenRecords
<1>5. screen' = [screen EXCEPT !.rest = left, !.err = left = <<>>,
                                !.pc = IF left = <<>> THEN "finish" ELSE "submit"]
  BY <1>3 DEF CheckStatus
<1>6. /\ screen'.mine = {} /\ screen'.txs = 0 /\ screen'.rest = left
      /\ screen'.sel = screen.sel /\ screen'.list = screen.list
      /\ left # <<>> => screen'.pc = "submit"
      /\ left = <<>> => screen'.pc = "finish" /\ screen'.err
      /\ screen' \in ScreenRecords
  BY <1>1, <1>4, <1>5 DEF ScreenRecords, ScreenPcs
<1>7. ScreenTyped'
  BY <1>1, <1>2, <1>6 DEF ClaimInv, ScreenInv, ScreenTyped, Known
<1>8. SelectionIsClaimed'
  <2>1. screen'.pc # "check" /\ (screen'.pc = "finish" => screen'.err)
    BY <1>6
  <2>2. /\ screen'.mine \subseteq Range(screen'.sel) \cap claimed' /\ IsFiniteSet(screen'.mine)
        /\ screen'.txs <= Cardinality(screen'.mine)
    BY <1>6, FS_EmptySet
  <2>3. \A j, k \in DOMAIN screen'.sel : screen'.sel[j] \in screen'.mine => j < k
    BY <1>6
  <2>4. screen'.pc = "submit" => screen'.rest # <<>>
    BY <1>6
  <2>5. /\ Range(screen'.rest) \subseteq Range(screen'.sel)
        /\ Range(screen'.sel) \subseteq claimed' \cup Range(screen'.rest)
    BY <1>2, <1>4, <1>6
  <2>6. \A a, b \in DOMAIN screen'.rest, j, k \in DOMAIN screen'.sel :
            a < b /\ screen'.sel[j] = screen'.rest[a] /\ screen'.sel[k] = screen'.rest[b] => j < k
    BY <1>4, <1>6 DEF InOrder
  <2>q. QED BY <2>1, <2>2, <2>3, <2>4, <2>5, <2>6 DEF SelectionIsClaimed
<1>9. StoreInv'
  BY <1>2, StoreStays DEF ClaimInv, StoreInv, StoreTyped, ClaimTypeOK
<1>q. QED BY <1>7, <1>8, <1>9 DEF ClaimInv, ScreenInv

(* A chunk and what is left behind it.                                     *)
LEMMA ChunkFacts ==
  ASSUME ScreenInv, screen.pc = "submit"
  PROVE  /\ AfterChunk \in Lists
         /\ Range(Chunk) \cup Range(AfterChunk) = Range(screen.rest)
         /\ Range(Chunk) # {} /\ IsFiniteSet(Range(Chunk))
         /\ \A c \in Range(Chunk), d \in Range(AfterChunk) :
               \A j, k \in DOMAIN screen.sel : screen.sel[j] = c /\ screen.sel[k] = d => j < k
         /\ \A a, b \in DOMAIN AfterChunk, j, k \in DOMAIN screen.sel :
                a < b /\ screen.sel[j] = AfterChunk[a] /\ screen.sel[k] = AfterChunk[b] => j < k
<1>1. PICK r : r = screen.rest
  OBVIOUS
<1>2. r \in Lists /\ r # <<>>
  BY <1>1 DEF ScreenInv, ScreenTyped, ScreenRecords, SelectionIsClaimed
<1>3. r \in Seq(Claims) /\ Len(r) \in Nat \ {0} /\ DOMAIN r = 1 .. Len(r)
  BY <1>2 DEF Lists
<1>4. PICK n : n = IF Len(r) < MAX_CLAIM_BATCH_SIZE THEN Len(r) ELSE MAX_CLAIM_BATCH_SIZE
  OBVIOUS
<1>5. n \in 1 .. Len(r)
  BY <1>3, <1>4, ClaimStoreAssumption
<1>6. Chunk = SubSeq(r, 1, n) /\ Len(Chunk) = n
  BY <1>1, <1>2, <1>4, <1>5, SplitList DEF Chunk
<1>7. AfterChunk = SubSeq(r, n + 1, Len(r))
  BY <1>1, <1>6 DEF AfterChunk
<1>8. n \in 0 .. Len(r)
  BY <1>5
<1>9. /\ AfterChunk \in Lists
      /\ Range(Chunk) = {r[i] : i \in 1 .. n}
      /\ Range(AfterChunk) = {r[i] : i \in n + 1 .. Len(r)}
  BY <1>2, <1>6, <1>7, <1>8, SplitList
<1>10. Range(Chunk) \cup Range(AfterChunk) = Range(r)
  <2>1. Range(r) = {r[i] : i \in 1 .. Len(r)}
    BY <1>3 DEF Range
  <2>2. \A i \in 1 .. Len(r) : i \in 1 .. n \/ i \in n + 1 .. Len(r)
    BY <1>3, <1>5
  <2>3. \A i \in 1 .. n : i \in 1 .. Len(r)
    BY <1>3, <1>5
  <2>4. \A i \in n + 1 .. Len(r) : i \in 1 .. Len(r)
    BY <1>3, <1>5
  <2>q. QED BY <1>9, <2>1, <2>2, <2>3, <2>4
<1>11. Range(Chunk) # {}
  <2>1. 1 \in 1 .. n
    BY <1>3, <1>5
  <2>2. r[1] \in {r[i] : i \in 1 .. n}
    BY <2>1
  <2>q. QED BY <1>9, <2>2
<1>12. IsFiniteSet(Range(Chunk))
  <2>1. PICK f : f = [i \in 1 .. n |-> r[i]]
    OBVIOUS
  <2>2. f \in Surjection(1 .. n, Range(Chunk))
    BY <1>9, <2>1 DEF Surjection
  <2>3. IsFiniteSet(1 .. n)
    BY <1>5, FS_Interval
  <2>q. QED BY <2>2, <2>3, FS_Surjection
<1>13. \A a, b \in 1 .. Len(r) : \A j, k \in DOMAIN screen.sel :
          a < b /\ screen.sel[j] = r[a] /\ screen.sel[k] = r[b] => j < k
  BY <1>1, <1>3 DEF ScreenInv, SelectionIsClaimed
<1>14. ASSUME NEW c \in Range(Chunk), NEW d \in Range(AfterChunk), NEW j \in DOMAIN screen.sel,
              NEW k \in DOMAIN screen.sel,
              screen.sel[j] = c, screen.sel[k] = d
       PROVE  j < k
  <2>1. PICK a \in 1 .. n : c = r[a]
    BY <1>9
  <2>2. PICK b \in n + 1 .. Len(r) : d = r[b]
    BY <1>9
  <2>3. a \in 1 .. Len(r) /\ b \in 1 .. Len(r) /\ a < b
    BY <1>3, <1>5
  <2>q. QED BY <1>13, <1>14, <2>1, <2>2, <2>3
<1>15. ASSUME NEW a \in DOMAIN AfterChunk, NEW b \in DOMAIN AfterChunk,
              NEW j \in DOMAIN screen.sel, NEW k \in DOMAIN screen.sel,
              a < b, screen.sel[j] = AfterChunk[a], screen.sel[k] = AfterChunk[b]
       PROVE  j < k
  <2>1. AfterChunk = [i \in 1 .. Len(r) - n |-> r[n + i]]
    BY <1>3, <1>5, <1>7
  <2>2. a \in 1 .. Len(r) - n /\ b \in 1 .. Len(r) - n
    BY <2>1
  <2>3. AfterChunk[a] = r[n + a] /\ AfterChunk[b] = r[n + b]
    BY <2>1, <2>2
  <2>4. n + a \in 1 .. Len(r) /\ n + b \in 1 .. Len(r) /\ n + a < n + b
    BY <1>3, <1>5, <1>15, <2>2
  <2>q. QED BY <1>13, <1>15, <2>3, <2>4
<1>q. QED BY <1>1, <1>9, <1>10, <1>11, <1>12, <1>14, <1>15

(* A further chunk: the transactions are no more than the claims they took. *)
LEMMA SubmitChunkSelects ==
  ASSUME ClaimInv, SubmitChunk
  PROVE  /\ SelectionIsClaimed' /\ screen' \in ScreenRecords /\ screen'.pc # "idle"
         /\ claimed' \in SUBSET Claims /\ screen'.sel = screen.sel /\ screen'.list = screen.list
<1>1. screen \in ScreenRecords
  BY DEF ClaimInv, ScreenInv, ScreenTyped, ScreenRecords
<1>2. PICK new, after : new = Range(Chunk) /\ after = AfterChunk
  OBVIOUS
<1>3. /\ after \in Lists
      /\ new \cup Range(after) = Range(screen.rest)
      /\ new # {} /\ IsFiniteSet(new)
      /\ \A c \in new, d \in Range(after) :
            \A j, k \in DOMAIN screen.sel : screen.sel[j] = c /\ screen.sel[k] = d => j < k
      /\ \A a, b \in DOMAIN after, j, k \in DOMAIN screen.sel :
             a < b /\ screen.sel[j] = after[a] /\ screen.sel[k] = after[b] => j < k
  BY <1>2, ChunkFacts DEF SubmitChunk, ClaimInv
<1>4. /\ new \cap claimed = {}
      /\ claimed' = claimed \cup new
      /\ screen' = [screen EXCEPT !.mine = @ \cup new, !.txs = @ + 1, !.rest = after,
                                  !.pc = IF after = <<>> THEN "finish" ELSE "submit"]
  BY <1>2 DEF SubmitChunk
<1>5. /\ IsFiniteSet(screen.mine) /\ screen.mine \subseteq Range(screen.sel) \cap claimed
      /\ screen.txs <= Cardinality(screen.mine)
      /\ \A j, k \in DOMAIN screen.sel :
            screen.sel[j] \in screen.mine /\ screen.sel[k] \notin claimed => j < k
      /\ Range(screen.rest) \subseteq Range(screen.sel)
      /\ Range(screen.sel) \subseteq claimed \cup Range(screen.rest)
  BY DEF ClaimInv, ScreenInv, SelectionIsClaimed, SubmitChunk
<1>6. /\ screen'.mine = screen.mine \cup new /\ screen'.txs = screen.txs + 1 /\ screen'.rest = after
      /\ screen'.pc = IF after = <<>> THEN "finish" ELSE "submit"
      /\ screen'.sel = screen.sel /\ screen'.err = screen.err /\ screen'.list = screen.list
  BY <1>1, <1>4 DEF ScreenRecords
<1>7. new \subseteq Claims
  BY <1>1, <1>3 DEF ScreenRecords, Lists, Range
<1>8. screen' \in ScreenRecords /\ screen'.pc # "idle"
  <2>1. screen.mine \cup new \in SUBSET Claims /\ screen.txs + 1 \in Nat
    BY <1>1, <1>7 DEF ScreenRecords
  <2>2. (IF after = <<>> THEN "finish" ELSE "submit") \in ScreenPcs
    BY DEF ScreenPcs
  <2>3. screen' = [screen EXCEPT !.mine = screen.mine \cup new, !.txs = screen.txs + 1, !.rest = after,
                                 !.pc = IF after = <<>> THEN "finish" ELSE "submit"]
    BY <1>1, <1>4 DEF ScreenRecords
  <2>q. QED BY <1>1, <1>3, <1>6, <2>1, <2>2, <2>3 DEF ScreenRecords
<1>9. IsFiniteSet(screen'.mine) /\ screen'.txs <= Cardinality(screen'.mine)
  <2>1. screen.mine \cap new = {}
    BY <1>4, <1>5
  <2>2. /\ IsFiniteSet(screen.mine \cup new)
        /\ Cardinality(screen.mine \cup new)
              = Cardinality(screen.mine) + Cardinality(new) - Cardinality(screen.mine \cap new)
    BY <1>3, <1>5, FS_Union
  <2>3. Cardinality(screen.mine \cap new) = 0 /\ Cardinality(new) \in Nat /\ Cardinality(new) # 0
        /\ Cardinality(screen.mine) \in Nat
    BY <1>3, <1>5, <2>1, FS_EmptySet, FS_CardinalityType
  <2>4. screen.txs \in Nat
    BY <1>1 DEF ScreenRecords
  <2>q. QED BY <1>5, <1>6, <2>2, <2>3, <2>4
<1>10. ASSUME NEW j \in DOMAIN screen.sel, NEW k \in DOMAIN screen.sel,
              screen.sel[j] \in screen.mine \cup new, screen.sel[k] \notin claimed \cup new
       PROVE  j < k
  <2>1. screen.sel[k] \in Range(after)
    BY <1>3, <1>5, <1>10 DEF Range
  <2>2. CASE screen.sel[j] \in screen.mine
    BY <1>5, <1>10, <2>2
  <2>3. CASE screen.sel[j] \in new
    BY <1>3, <2>1, <2>3
  <2>q. QED BY <1>10, <2>2, <2>3
<1>11. screen'.mine \subseteq Range(screen'.sel) \cap claimed'
  BY <1>3, <1>4, <1>5, <1>6
<1>12. screen'.pc = "submit" =>
          /\ screen'.rest # <<>>
          /\ Range(screen'.rest) \subseteq Range(screen'.sel)
          /\ Range(screen'.sel) \subseteq claimed' \cup Range(screen'.rest)
          /\ \A a, b \in DOMAIN screen'.rest, j, k \in DOMAIN screen'.sel :
                a < b /\ screen'.sel[j] = screen'.rest[a] /\ screen'.sel[k] = screen'.rest[b] => j < k
  BY <1>3, <1>4, <1>5, <1>6
<1>13. screen'.pc = "finish" => Range(screen'.sel) \subseteq claimed'
  <2>1. Range(<<>>) = {}
    BY DEF Range
  <2>q. QED BY <1>3, <1>4, <1>5, <1>6, <2>1
<1>14. claimed' \in SUBSET Claims
  BY <1>4, <1>7 DEF ClaimInv, StoreInv, StoreTyped, ClaimTypeOK
<1>15. \A j, k \in DOMAIN screen'.sel :
            screen'.sel[j] \in screen'.mine /\ screen'.sel[k] \notin claimed' => j < k
  BY <1>4, <1>6, <1>10
<1>16. screen'.pc # "check"
  BY <1>6
<1>q. QED BY <1>6, <1>8, <1>9, <1>11, <1>12, <1>13, <1>14, <1>15, <1>16 DEF SelectionIsClaimed

(* A chunk is taken on the chain.                                          *)
LEMMA SubmitChunkKeeps ==
  ASSUME ClaimInv, SubmitChunk
  PROVE  ClaimInv'
<1>1. /\ SelectionIsClaimed' /\ screen' \in ScreenRecords
      /\ claimed' \in SUBSET Claims /\ screen'.sel = screen.sel /\ screen'.list = screen.list
  BY SubmitChunkSelects
<1>2. /\ UNCHANGED <<storeVars, ready, ops, shown, appended, overwritten>> /\ claimed \subseteq claimed'
      /\ screen.pc = "submit"
  BY DEF SubmitChunk
<1>3. ScreenTyped'
  BY <1>1, <1>2 DEF ClaimInv, ScreenInv, ScreenTyped, Known
<1>4. StoreInv'
  BY <1>1, <1>2, StoreStays DEF ClaimInv
<1>q. QED BY <1>1, <1>3, <1>4 DEF ClaimInv, ScreenInv

(* A chunk fails, or is taken without the screen knowing.                  *)
LEMMA ChunkFailsKeeps ==
  ASSUME ClaimInv, ChunkFails
  PROVE  ClaimInv'
<1>1. screen \in ScreenRecords /\ screen.pc = "submit"
  BY DEF ClaimInv, ScreenInv, ScreenTyped, ChunkFails
<1>2. claimed' \in SUBSET Claims /\ claimed \subseteq claimed'
  <2>1. Range(Chunk) \subseteq Range(screen.rest)
    BY <1>1, ChunkFacts DEF ClaimInv
  <2>2. Range(screen.rest) \subseteq Claims
    BY <1>1 DEF ScreenRecords, Lists, Range
  <2>q. QED BY <2>1, <2>2 DEF ChunkFails, ClaimInv, StoreInv, StoreTyped, ClaimTypeOK
<1>3. UNCHANGED <<storeVars, ready, ops, shown, appended, overwritten>>
  BY DEF ChunkFails
<1>4. screen' = [screen EXCEPT !.err = TRUE, !.pc = "finish"]
  BY DEF ChunkFails
<1>5. /\ screen' \in ScreenRecords /\ screen'.pc = "finish" /\ screen'.err
      /\ screen'.sel = screen.sel /\ screen'.list = screen.list
      /\ screen'.mine = screen.mine /\ screen'.txs = screen.txs
  BY <1>1, <1>4 DEF ScreenRecords, ScreenPcs
<1>6. ScreenTyped'
  BY <1>1, <1>3, <1>5 DEF ClaimInv, ScreenInv, ScreenTyped, Known
<1>7. SelectionIsClaimed'
  BY <1>1, <1>2, <1>5 DEF ClaimInv, ScreenInv, SelectionIsClaimed
<1>8. StoreInv'
  BY <1>2, <1>3, StoreStays DEF ClaimInv
<1>q. QED BY <1>6, <1>7, <1>8 DEF ClaimInv, ScreenInv

(* The screen is done when its removal is.                                 *)
LEMMA DoneKeeps ==
  ASSUME ClaimInv, Done
  PROVE  ClaimInv'
<1>1. UNCHANGED <<storeVars, ready, ops, shown, claimed, appended, overwritten>> /\ screen' = NoClaim
  BY DEF Done
<1>2. ScreenTyped'
  BY <1>1, Nothing DEF ClaimInv, ScreenInv, ScreenTyped, Known
<1>3. SelectionIsClaimed'
  BY <1>1, Nothing DEF SelectionIsClaimed
<1>4. StoreInv'
  BY <1>1, StoreStays DEF ClaimInv, StoreInv, StoreTyped, ClaimTypeOK
<1>q. QED BY <1>2, <1>3, <1>4 DEF ClaimInv, ScreenInv

(* The numbers up to m are m.                                              *)
LEMMA IntervalSize ==
  ASSUME NEW m \in Nat
  PROVE  IsFiniteSet(1 .. m) /\ Cardinality(1 .. m) = m
<1>1. 1 \in Int /\ m \in Int
  OBVIOUS
<1>2. IsFiniteSet(1 .. m) /\ Cardinality(1 .. m) = IF 1 > m THEN 0 ELSE m - 1 + 1
  BY <1>1, FS_Interval
<1>3. (IF 1 > m THEN 0 ELSE m - 1 + 1) = m
  OBVIOUS
<1>q. QED BY <1>2, <1>3

(* What is removed has been taken on the chain.                            *)
LEMMA RemovedIsClaimed ==
  ASSUME ScreenInv, screen.pc = "finish"
  PROVE  /\ Range(SubSeq(screen.sel, 1, SubmittedCount)) \subseteq claimed
         /\ Range(SubSeq(screen.sel, 1, SubmittedCount)) \in SUBSET Claims
         /\ Range(SubSeq(screen.sel, 1, SubmittedCount)) \subseteq Range(screen.sel)
<1>1. PICK s : s = screen.sel
  OBVIOUS
<1>2. s \in Lists
  BY <1>1 DEF ScreenInv, ScreenTyped, ScreenRecords
<1>3. /\ s \in Seq(Claims) /\ Len(s) \in Nat /\ DOMAIN s = 1 .. Len(s)
      /\ (\A i, j \in 1 .. Len(s) : s[i] = s[j] => i = j)
  BY <1>2 DEF Lists, IsInjective
<1>4. /\ IsFiniteSet(screen.mine) /\ screen.mine \subseteq Range(s) \cap claimed
      /\ screen.txs <= Cardinality(screen.mine) /\ screen.txs \in Nat
      /\ \A j, k \in 1 .. Len(s) : s[j] \in screen.mine /\ s[k] \notin claimed => j < k
      /\ ~screen.err => Range(s) \subseteq claimed
  BY <1>1, <1>3 DEF ScreenInv, SelectionIsClaimed, ScreenTyped, ScreenRecords
<1>5. Cardinality(screen.mine) \in Nat /\ Cardinality(screen.mine) <= Len(s)
  <2>1. PICK at : at = [c \in screen.mine |-> CHOOSE i \in 1 .. Len(s) : s[i] = c]
    OBVIOUS
  <2>2. \A c \in screen.mine : \E i \in 1 .. Len(s) : s[i] = c
    BY <1>3, <1>4 DEF Range
  <2>3. \A c \in screen.mine : at[c] \in 1 .. Len(s) /\ s[at[c]] = c
    BY <2>1, <2>2
  <2>4. at \in Injection(screen.mine, 1 .. Len(s))
    <3>1. at \in [screen.mine -> 1 .. Len(s)]
      BY <2>1, <2>3
    <3>2. \A c, d \in screen.mine : at[c] = at[d] => c = d
      BY <2>3
    <3>q. QED BY <3>1, <3>2 DEF Injection, IsInjective
  <2>5. IsFiniteSet(1 .. Len(s)) /\ Cardinality(1 .. Len(s)) = Len(s)
    BY <1>3, FS_Interval
  <2>q. QED BY <1>4, <2>4, <2>5, FS_Injection, FS_CardinalityType
<1>6. SubmittedCount \in 0 .. Len(s)
  <2>1. CASE Len(s) = 1
    BY <1>1, <2>1 DEF SubmittedCount
  <2>2. CASE Len(s) # 1 /\ screen.err
    BY <1>1, <1>3, <1>5, <2>2 DEF SubmittedCount
  <2>3. CASE Len(s) # 1 /\ ~screen.err
    BY <1>1, <1>3, <1>4, <1>5, <2>3 DEF SubmittedCount
  <2>q. QED BY <2>1, <2>2, <2>3
<1>7. PICK n \in 0 .. Len(s) : n = SubmittedCount
  BY <1>6
<1>8. Range(SubSeq(s, 1, n)) = {s[i] : i \in 1 .. n}
  BY <1>2, <1>7, SplitList
<1>9. ASSUME NEW i \in 1 .. n PROVE s[i] \in claimed
  <2>0. i \in 1 .. Len(s) /\ s[i] \in Range(s)
    BY <1>3, <1>7 DEF Range
  <2>1. CASE ~screen.err
    BY <1>4, <2>0, <2>1
  <2>2. CASE screen.err
    <3>1. n <= Cardinality(screen.mine)
      BY <1>1, <1>3, <1>5, <1>7, <2>2 DEF SubmittedCount
    <3> SUFFICES ASSUME s[i] \notin claimed PROVE FALSE
      OBVIOUS
    <3>2. \A c \in screen.mine : \E j \in 1 .. i - 1 : s[j] = c
      <4>1. ASSUME NEW c \in screen.mine PROVE \E j \in 1 .. i - 1 : s[j] = c
        <5>1. PICK j \in 1 .. Len(s) : s[j] = c
          BY <1>3, <1>4 DEF Range
        <5>2. j < i
          BY <1>4, <2>0, <5>1
        <5>3. j \in 1 .. i - 1
          BY <1>3, <2>0, <5>1, <5>2
        <5>q. QED BY <5>1, <5>3
      <4>q. QED BY <4>1
    <3>3. PICK at : at = [c \in screen.mine |-> CHOOSE j \in 1 .. i - 1 : s[j] = c]
      OBVIOUS
    <3>4. \A c \in screen.mine : at[c] \in 1 .. i - 1 /\ s[at[c]] = c
      BY <3>2, <3>3
    <3>5. at \in Injection(screen.mine, 1 .. i - 1)
      <4>1. at \in [screen.mine -> 1 .. i - 1]
        BY <3>3, <3>4
      <4>2. \A c, d \in screen.mine : at[c] = at[d] => c = d
        BY <3>4
      <4>q. QED BY <4>1, <4>2 DEF Injection, IsInjective
    <3>6. i - 1 \in Nat
      BY <1>7
    <3>7. IsFiniteSet(1 .. i - 1) /\ Cardinality(1 .. i - 1) = i - 1
      BY <3>6, IntervalSize
    <3>8. Cardinality(screen.mine) <= i - 1
      BY <3>5, <3>7, FS_Injection
    <3>q. QED BY <1>5, <1>7, <3>1, <3>6, <3>8
  <2>q. QED BY <2>1, <2>2
<1>10. \A i \in 1 .. n : s[i] \in Claims
  BY <1>3, <1>7
<1>11. \A i \in 1 .. n : s[i] \in Range(s)
  BY <1>3, <1>7 DEF Range
<1>q. QED BY <1>1, <1>7, <1>8, <1>9, <1>10, <1>11

(* The screen removes what it counts as submitted.                         *)
LEMMA FinishKeeps ==
  ASSUME ClaimInv, NEW s \in Slots, Finish(s)
  PROVE  ClaimInv'
<1>1. PICK gone : gone = Range(SubSeq(screen.sel, 1, SubmittedCount))
  OBVIOUS
<1>2. /\ screen \in ScreenRecords /\ screen.pc = "finish" /\ ready /\ StoreInv
      /\ shown \in Lists /\ Range(shown) \cup Range(screen.list) \cup Range(screen.sel) \subseteq Known
  BY DEF ClaimInv, ScreenInv, ScreenTyped, Finish
<1>3. gone \in SUBSET Claims /\ gone \subseteq claimed \cap Known
  BY <1>1, <1>2, RemovedIsClaimed DEF ClaimInv
<1>4. UNCHANGED <<storeVars, ready, claimed, appended, overwritten>>
  BY DEF Finish
<1>5. shown' \in Lists /\ Range(shown') \subseteq Known
  <2>1. shown' = shown \/ shown' = Without(screen.list, gone)
    BY <1>1 DEF Finish
  <2>2. Without(screen.list, gone) \in Lists
        /\ Range(Without(screen.list, gone)) = Range(screen.list) \ gone
    BY <1>2, WithoutList DEF ScreenRecords
  <2>q. QED BY <1>2, <2>1, <2>2
<1>6. CASE gone = {}
  <2>1. screen' = NoClaim /\ ops' = ops
    BY <1>1, <1>6 DEF Finish
  <2>2. ScreenTyped'
    BY <1>2, <1>4, <1>5, <2>1, Nothing DEF ScreenTyped, Known
  <2>3. SelectionIsClaimed'
    BY <2>1, Nothing DEF SelectionIsClaimed
  <2>4. StoreInv'
    BY <1>2, <1>4, <2>1, StoreStays DEF StoreInv, StoreTyped, ClaimTypeOK
  <2>q. QED BY <2>2, <2>3, <2>4 DEF ClaimInv, ScreenInv
<1>7. CASE gone # {}
  <2>1. screen' = [screen EXCEPT !.pc = "removing"] /\ BeginOp(s, "remove", gone, "payload")
    BY <1>1, <1>7 DEF Finish
  <2>2. /\ screen' \in ScreenRecords /\ screen'.pc = "removing"
        /\ screen'.sel = screen.sel /\ screen'.list = screen.list
    BY <1>2, <2>1 DEF ScreenRecords, ScreenPcs
  <2>3. ScreenTyped'
    BY <1>2, <1>4, <1>5, <2>2 DEF ScreenTyped, Known
  <2>4. SelectionIsClaimed'
    BY <2>2 DEF SelectionIsClaimed
  <2>5. PICK new \in OpRecords :
            /\ ops' = [ops EXCEPT ![s] = new]
            /\ new.kind = "remove" /\ new.on = gone /\ new.pc = "payload"
            /\ new.snap = <<>> /\ new.seen = {}
    BY <1>3, <2>1, BeginGives DEF StorePcs
  <2>6. AppendFits(new) /\ RemovalFits(new) /\ ListingFits(new)
    BY <1>3, <2>5, Nothing DEF AppendFits, RemovalFits, ListingFits
  <2>7. StoreInv'
    BY <1>2, <1>4, <2>5, <2>6, PlanKeeps
  <2>q. QED BY <2>3, <2>4, <2>7 DEF ClaimInv, ScreenInv
<1>q. QED BY <1>6, <1>7

(* Another device claims.                                                  *)
LEMMA OtherDeviceClaimsKeeps ==
  ASSUME ClaimInv, NEW c \in Claims, OtherDeviceClaims(c)
  PROVE  ClaimInv'
<1>1. /\ UNCHANGED <<storeVars, screenVars, appended, overwritten>>
      /\ claimed \subseteq claimed' /\ claimed' \subseteq Claims
  BY DEF OtherDeviceClaims, ClaimInv, StoreInv, StoreTyped, ClaimTypeOK
<1>2. UNCHANGED <<ready, ops, shown, screen>>
  BY <1>1 DEF screenVars
<1>q. QED BY <1>1, <1>2, StoreStays, ScreenStays DEF ClaimInv

(* The app is closed: nothing is under way, and the store is as it was.    *)
LEMMA AppClosedKeeps ==
  ASSUME ClaimInv, AppClosed
  PROVE  ClaimInv'
<1>1. /\ UNCHANGED <<storeVars, claimed, appended, overwritten>>
      /\ ready' = FALSE /\ shown' = <<>> /\ screen' = NoClaim
  BY DEF AppClosed
<1>2. ops' = [s \in Slots |-> NoOp]
  BY DEF AppClosed, ClaimInv, StoreInv, StoreTyped
<1>3. ops' \in [Slots -> OpRecords] /\ \A s \in Slots : ops'[s] = NoOp
  BY <1>2, Nothing
<1>4. StoreTyped'
  BY <1>1, <1>3, Nothing DEF ClaimInv, StoreInv, StoreTyped, ClaimTypeOK, storeVars
<1>5. MigratesFirst' /\ MigrationIsOrdered' /\ AppendsApart'
  BY <1>1, <1>3, Nothing DEF ClaimInv, StoreInv, MigratesFirst, MigrationIsOrdered, AppendsApart, storeVars
<1>6. OpsFit'
  BY <1>3, Nothing DEF OpsFit, AppendFits, RemovalFits, ListingFits
<1>7. PayloadsAgree' /\ NothingDropped' /\ NoOrphanSecret'
  BY <1>1 DEF ClaimInv, StoreInv, PayloadsAgree, NothingDropped, NoOrphanSecret, Known, Kept, storeVars
<1>8. ScreenInv'
  BY <1>1, Nothing DEF ScreenInv, ScreenTyped, SelectionIsClaimed
<1>q. QED BY <1>4, <1>5, <1>6, <1>7, <1>8 DEF ClaimInv, StoreInv

-----------------------------------------------------------------------------
(* The steps together.                                                     *)

(* The invariant holds at the start.                                       *)
LEMMA ClaimStarts ==
  ASSUME ClaimInit
  PROVE  ClaimInv
<1>1. ops \in [Slots -> OpRecords] /\ \A s \in Slots : ops[s] = NoOp
  BY Nothing DEF ClaimInit, Slots
<1>2. Legacy \subseteq Claims
  BY ClaimStoreAssumption
<1>3. StoreTyped
  <2>1. IsInjective(ids) /\ Range(ids) = {} /\ ids \in Lists
    BY Nothing DEF ClaimInit, Lists
  <2>2. DOMAIN ops = Slots
    BY <1>1
  <2>q. QED BY <1>1, <1>2, <2>1, <2>2, Nothing DEF StoreTyped, ClaimTypeOK, ClaimInit
<1>4. MigratesFirst /\ MigrationIsOrdered /\ AppendsApart
  BY <1>1, Nothing DEF ClaimInit, MigratesFirst, MigrationIsOrdered, AppendsApart
<1>5. OpsFit
  BY <1>1, Nothing DEF OpsFit, AppendFits, RemovalFits, ListingFits
<1>6. PayloadsAgree /\ NothingDropped /\ NoOrphanSecret
  BY Nothing DEF ClaimInit, PayloadsAgree, NothingDropped, NoOrphanSecret, Kept
<1>7. ScreenInv
  BY Nothing DEF ClaimInit, ScreenInv, ScreenTyped, SelectionIsClaimed
<1>q. QED BY <1>3, <1>4, <1>5, <1>6, <1>7 DEF ClaimInv, StoreInv

(* Every step keeps the invariant.                                         *)
LEMMA ClaimSteps ==
  ASSUME ClaimInv, [ClaimNext]_claimVars
  PROVE  ClaimInv'
<1>1. DOMAIN ops = Slots
  BY DEF ClaimInv, StoreInv, StoreTyped
<1>2. CASE \E s \in DOMAIN ops : StoreStep(s)
  BY <1>1, <1>2, StoreStepKeeps
<1>3. CASE ScreenStep
  <2>1. CASE Select \/ CheckStatus \/ SubmitChunk \/ ChunkFails \/ Done
    BY <2>1, SelectKeeps, CheckStatusKeeps, SubmitChunkKeeps, ChunkFailsKeeps, DoneKeeps
  <2>2. CASE \E s \in DOMAIN ops : Finish(s)
    BY <1>1, <2>2, FinishKeeps
  <2>q. QED BY <1>3, <2>1, <2>2 DEF ScreenStep
<1>4. CASE \E c \in Claims : OtherDeviceClaims(c)
  BY <1>4, OtherDeviceClaimsKeeps
<1>5. CASE AppClosed
  BY <1>5, AppClosedKeeps
<1>6. CASE UNCHANGED claimVars
  <2>1. UNCHANGED <<storeVars, ready, ops, shown, screen, claimed, appended, overwritten>>
    BY <1>6 DEF claimVars, screenVars
  <2>2. claimed \subseteq Claims
    BY DEF ClaimInv, StoreInv, StoreTyped, ClaimTypeOK
  <2>q. QED BY <2>1, <2>2, StoreStays, ScreenStays DEF ClaimInv
<1>q. QED BY <1>2, <1>3, <1>4, <1>5, <1>6 DEF ClaimNext

(* The invariant is enough.                                                *)
LEMMA ClaimInvIsSound ==
  ASSUME ClaimInv
  PROVE  StoreIsSound
<1>1. ClaimTypeOK /\ NoOrphanSecret
  BY DEF ClaimInv, StoreInv, StoreTyped
<1>2. NoClaimLost
  BY DEF ClaimInv, StoreInv, MigratesFirst, NothingDropped, Kept, NoClaimLost
<1>q. QED BY <1>1, <1>2 DEF StoreIsSound

(* Any number of storage operations may overlap, whatever transaction      *)
(* fails and whenever the app is closed: over migrations, appends,         *)
(* listings and claims the store loses no payload of a claim that is not   *)
(* taken on the chain, and a claim drops out of the index, or a secret is  *)
(* left that nothing lists, only by a write from a copy that is older than *)
(* the claim's entry (PendingClaimsStorage.ts).                            *)
THEOREM StoreStaysSound == ClaimSpec => []StoreIsSound
<1>1. ClaimInit => ClaimInv
  BY ClaimStarts
<1>2. ClaimInv /\ [ClaimNext]_claimVars => ClaimInv'
  BY ClaimSteps
<1>3. ClaimInv => StoreIsSound
  BY ClaimInvIsSound
<1>q. QED BY <1>1, <1>2, <1>3, PTL DEF ClaimSpec
=============================================================================
