----------------------- MODULE SettlementPushProofs -------------------------
(***************************************************************************)
(* The orderbook's index tells the truth about the chain, for any number   *)
(* of transactions, reports, attempts and faults, and any number of        *)
(* reorganisations that are no deeper than the confirmations waited for.   *)
(* The argument: what a pass looks at is at least BlockSafetyMargin blocks *)
(* below the head it read, and the head never falls, so what it matched    *)
(* has its confirmations from then on, whenever the marks are written.     *)
(* A delivery that was acknowledged was stored first, and a full table     *)
(* stays full.  An attestation is either absent or what the event says,    *)
(* which is why a row it is stamped on only gives way to its like.         *)
(***************************************************************************)
EXTENDS SettlementPush, SequenceTheorems, TLAPS

Verdicts == [tx : Txs, maker : Addresses, taker : Addresses, block : Blocks]
Passes == [pc : {"idle", "head", "fetch", "mark", "fail", "attest"}, latest : 0 .. MaxHead,
           scanned : SUBSET Verdicts, matched : SUBSET Txs, unmatched : SUBSET Txs, mismatched : SUBSET Txs]
Requests == [tx : Txs, block : 0 .. MaxHead, via : {"live", "worker"}, awaited : BOOLEAN, stored : BOOLEAN]
Pushes == [state : {"none", "pending", "pushed"}, attempts : 0 .. MAX_PUSH_ATTEMPTS, block : 0 .. MaxHead]

PushTyped ==
    /\ head \in 1 .. MaxHead
    /\ mined \in [Txs -> 0 .. MaxHead]
    /\ awaited \subseteq Settlers
    /\ outbox \in [Txs -> Pushes]
    /\ batch \subseteq Txs
    /\ requests \subseteq Requests
    /\ rows \in [Txs -> Rows \cup {NoRow}]
    /\ order \in Seq(Txs) /\ IsInjective(order) /\ Range(order) = {t \in Txs : rows[t].stored}
    /\ verifier \in Passes

\* A settlement that no reorganisation can take back.
Confirmed(t) == mined[t] > 0 /\ mined[t] + BlockSafetyMargin <= head

\* The head the verifier read is not above the chain's, and the rows it looks
\* at have their confirmations below it.
VerifierIsBehind ==
    /\ verifier.latest <= head
    /\ \A r \in verifier.scanned : r.block <= MaxBlock

\* What a pass matched, and what is marked verified, is confirmed.
MatchedIsConfirmed == \A t \in verifier.matched : Confirmed(t)
VerifiedIsConfirmed == \A t \in Txs : rows[t].stored /\ rows[t].verified => Confirmed(t)

\* An acknowledgement, on its way or booked, means a row, or a table so full
\* that another may have taken its place.
Kept(t) == rows[t].stored \/ Len(order) >= MaxSettlements
AnsweredIsKept == \A r \in requests : r.stored => Kept(r.tx)
PushedIsKept == \A t \in Txs : outbox[t].state = "pushed" => Kept(t)

\* An attestation is what the event says, or there is none.
AttestedIsTheEvent == \A t \in Txs : rows[t].stored => rows[t].event \in {Unattested, EventOf[t]}

\* The inductive invariant.
PushInv ==
    /\ PushTyped /\ VerifierIsBehind /\ MatchedIsConfirmed /\ VerifiedIsConfirmed
    /\ AnsweredIsKept /\ PushedIsKept /\ AttestedIsTheEvent

-----------------------------------------------------------------------------
(* The addresses of the instance, and records of the index. *)

\* Every side of an event or of a report is one of the addresses.
LEMMA AddressesAreThere ==
  /\ Self \in Addresses /\ None \in Addresses /\ Unattested \in Attributions
  /\ \A p \in Reports : p.submitter \in Addresses /\ p.maker \in Addresses /\ p.taker \in Addresses
  /\ \A t \in Txs : EventOf[t].maker \in Addresses /\ EventOf[t].taker \in Addresses /\ EventOf[t] \in Attributions
<1>1. Self \in Addresses /\ None \in Addresses
  BY DEF Addresses
<1>2. ASSUME NEW p \in Reports
      PROVE  p.submitter \in Addresses /\ p.maker \in Addresses /\ p.taker \in Addresses
  <2> DEFINE sides == {p.submitter, p.maker, p.taker}
  <2>1. sides \in {{r.submitter, r.maker, r.taker} : r \in Reports}
    OBVIOUS
  <2>2. p.submitter \in sides /\ p.maker \in sides /\ p.taker \in sides
    OBVIOUS
  <2> HIDE DEF sides
  <2>q. QED BY <2>1, <2>2 DEF Addresses
<1>3. ASSUME NEW t \in Txs
      PROVE  EventOf[t].maker \in Addresses /\ EventOf[t].taker \in Addresses /\ EventOf[t] \in Attributions
  <2>1. EventOf[t].maker \in Addresses /\ EventOf[t].taker \in Addresses
    <3> DEFINE sides == {EventOf[t].maker, EventOf[t].taker}
    <3>1. sides \in {{EventOf[u].maker, EventOf[u].taker} : u \in Txs}
      OBVIOUS
    <3>2. EventOf[t].maker \in sides /\ EventOf[t].taker \in sides
      OBVIOUS
    <3> HIDE DEF sides
    <3>3. /\ EventOf[t].maker \in UNION {{EventOf[u].maker, EventOf[u].taker} : u \in Txs}
          /\ EventOf[t].taker \in UNION {{EventOf[u].maker, EventOf[u].taker} : u \in Txs}
      BY <3>1, <3>2, Zenon
    <3>q. QED BY <3>3, Zenon DEF Addresses
  <2>2. EventOf[t] = [maker |-> EventOf[t].maker, taker |-> EventOf[t].taker]
    BY SettlementPushAssumption
  <2>q. QED BY <2>1, <2>2 DEF Attributions
<1>q. QED BY <1>1, <1>2, <1>3 DEF Unattested, Attributions

\* A stored row is a row with all its columns.
LEMMA StoredIsRow ==
  ASSUME rows \in [Txs -> Rows \cup {NoRow}], NEW t \in Txs
  PROVE  /\ rows[t].stored => rows[t] \in Rows
         /\ rows[t] \in Rows => rows[t].stored
         /\ rows[t].stored \in BOOLEAN
<1>1. rows[t] \in Rows \/ rows[t] = NoRow
  OBVIOUS
<1>2. rows[t] = NoRow => rows[t].stored = FALSE
  BY DEF NoRow
<1>3. rows[t] \in Rows => rows[t].stored = TRUE
  BY DEF Rows
<1>q. QED BY <1>1, <1>2, <1>3

\* What the passes write into a row.
LEMMA RowEdits ==
  ASSUME NEW row \in Rows
  PROVE  /\ [row EXCEPT !.verified = TRUE] \in Rows
         /\ [row EXCEPT !.verified = TRUE].event = row.event
         /\ \A n \in 0 .. MaxVerifyAttempts :
                /\ [row EXCEPT !.attempts = n] \in Rows
                /\ [row EXCEPT !.attempts = n].event = row.event
                /\ [row EXCEPT !.attempts = n].verified = row.verified
         /\ \A e \in Attributions :
                /\ [row EXCEPT !.event = e] \in Rows
                /\ [row EXCEPT !.event = e].event = e
                /\ [row EXCEPT !.event = e].verified = row.verified
  BY DEF Rows

-----------------------------------------------------------------------------
(* The keys by created_at. *)

\* A row that is filled again goes to the end: no key is lost or doubled
\* (stmtEvictSquattedSettlement and the insert, one transaction).
LEMMA RefilledKeys ==
  ASSUME order \in Seq(Txs), IsInjective(order), NEW t \in Txs
  PROVE  /\ Refilled(t) \in Seq(Txs) /\ IsInjective(Refilled(t))
         /\ Range(Refilled(t)) = Range(order) \cup {t}
         /\ Len(Refilled(t)) >= Len(order)
<1>1. PICK n \in Nat : n = Len(order) /\ DOMAIN order = 1 .. n
  OBVIOUS
<1>2. \A i, j \in 1 .. n : order[i] = order[j] => i = j
  BY <1>1 DEF IsInjective
<1>3. CASE PlacesOf(t) = {}
  <2>1. Refilled(t) = Append(order, t)
    BY <1>3 DEF Refilled
  <2>2. \A i \in 1 .. n : order[i] # t
    BY <1>1, <1>3 DEF PlacesOf
  <2>3. /\ Append(order, t) \in Seq(Txs) /\ Len(Append(order, t)) = n + 1
        /\ DOMAIN Append(order, t) = 1 .. n + 1
        /\ \A i \in 1 .. n : Append(order, t)[i] = order[i]
        /\ Append(order, t)[n + 1] = t
    BY <1>1
  <2>4. IsInjective(Refilled(t))
    BY <1>1, <1>2, <2>1, <2>2, <2>3 DEF IsInjective
  <2>5. Range(Refilled(t)) = Range(order) \cup {t}
    BY <1>1, <2>1, <2>3 DEF Range
  <2>q. QED BY <1>1, <2>1, <2>3, <2>4, <2>5
<1>4. CASE PlacesOf(t) # {}
  <2>1. PICK i \in 1 .. n : order[i] = t /\ Refilled(t) = Append(RemoveAt(order, i), t)
    <3>1. (CHOOSE i \in PlacesOf(t) : TRUE) \in PlacesOf(t)
      BY <1>4
    <3>2. Refilled(t) = Append(RemoveAt(order, CHOOSE i \in PlacesOf(t) : TRUE), t)
      BY <1>4 DEF Refilled
    <3>q. QED BY <1>1, <3>1, <3>2 DEF PlacesOf
  <2> DEFINE short == RemoveAt(order, i)
  <2>2. /\ short \in Seq(Txs) /\ Len(short) = n - 1
        /\ \A j \in 1 .. n - 1 : short[j] = IF j < i THEN order[j] ELSE order[j + 1]
    <3>1. PICK below \in Seq(Txs) : /\ below = SubSeq(order, 1, i - 1) /\ Len(below) = i - 1
                                   /\ \A j \in 1 .. i - 1 : below[j] = order[j]
      <4>1. \A j \in 1 .. i - 1 : order[j] \in Txs
        BY <1>1
      <4>2. /\ SubSeq(order, 1, i - 1) \in Seq(Txs)
            /\ Len(SubSeq(order, 1, i - 1)) = IF 1 <= i - 1 THEN i - 1 - 1 + 1 ELSE 0
            /\ \A j \in 1 .. i - 1 - 1 + 1 : SubSeq(order, 1, i - 1)[j] = order[1 + j - 1]
        BY <4>1, SubSeqProperties
      <4>3. /\ i - 1 - 1 + 1 = i - 1 /\ (IF 1 <= i - 1 THEN i - 1 - 1 + 1 ELSE 0) = i - 1
            /\ \A j \in 1 .. i - 1 : 1 + j - 1 = j
        BY <1>1
      <4>q. QED BY <4>2, <4>3
    <3>2. PICK above \in Seq(Txs) : /\ above = SubSeq(order, i + 1, n) /\ Len(above) = n - i
                                   /\ \A j \in 1 .. n - i : above[j] = order[i + j]
      <4>1. \A j \in i + 1 .. n : order[j] \in Txs
        BY <1>1
      <4>2. /\ SubSeq(order, i + 1, n) \in Seq(Txs)
            /\ Len(SubSeq(order, i + 1, n)) = IF i + 1 <= n THEN n - (i + 1) + 1 ELSE 0
            /\ \A j \in 1 .. n - (i + 1) + 1 : SubSeq(order, i + 1, n)[j] = order[i + 1 + j - 1]
        BY <4>1, SubSeqProperties
      <4>3. /\ n - (i + 1) + 1 = n - i /\ (IF i + 1 <= n THEN n - (i + 1) + 1 ELSE 0) = n - i
        BY <1>1
      <4>4. ASSUME NEW j \in 1 .. n - i
            PROVE  SubSeq(order, i + 1, n)[j] = order[i + j]
        <5>1. i + 1 + j - 1 = i + j
          BY <1>1
        <5>q. QED BY <4>2, <4>3, <5>1
      <4>5. SubSeq(order, i + 1, n) \in Seq(Txs) /\ Len(SubSeq(order, i + 1, n)) = n - i
        BY <4>2, <4>3
      <4>q. QED BY <4>4, <4>5
    <3>3. short = below \o above
      BY <1>1, <3>1, <3>2 DEF RemoveAt
    <3> HIDE DEF short
    <3>6. /\ below \o above \in Seq(Txs) /\ Len(below \o above) = Len(below) + Len(above)
          /\ \A j \in 1 .. Len(below) + Len(above) :
                 (below \o above)[j] = IF j <= Len(below) THEN below[j] ELSE above[j - Len(below)]
      BY ConcatProperties
    <3>4. short \in Seq(Txs) /\ Len(short) = n - 1
      <4>1. (i - 1) + (n - i) = n - 1
        BY <1>1
      <4>q. QED BY <3>1, <3>2, <3>3, <3>6, <4>1
    <3>5. ASSUME NEW j \in 1 .. n - 1
          PROVE  short[j] = IF j < i THEN order[j] ELSE order[j + 1]
      <4>5. (i - 1) + (n - i) = n - 1 /\ (j <= i - 1 <=> j < i)
        BY <1>1
      <4>3. /\ Len(below) = i - 1 /\ Len(above) = n - i /\ Len(below) + Len(above) = n - 1
            /\ (j <= i - 1 <=> j < i)
        BY <3>1, <3>2, <4>5
      <4>4. short[j] = IF j <= i - 1 THEN below[j] ELSE above[j - (i - 1)]
        BY <3>3, <3>6, <4>3
      <4>1. CASE j < i
        <5>1. j \in 1 .. i - 1
          BY <1>1, <4>1
        <5>q. QED BY <3>1, <4>1, <4>3, <4>4, <5>1
      <4>2. CASE j >= i
        <5>1. short[j] = above[j - (i - 1)]
          BY <1>1, <4>2, <4>3, <4>4
        <5>2. PICK k \in 1 .. n - i : k = j - (i - 1) /\ i + k = j + 1
          BY <1>1, <4>2
        <5>3. above[k] = order[i + k]
          BY <3>2
        <5>4. ~(j < i)
          BY <1>1, <4>2
        <5>q. QED BY <5>1, <5>2, <5>3, <5>4
      <4>q. QED BY <1>1, <4>1, <4>2
    <3>q. QED BY <3>4, <3>5
  <2>7. Refilled(t) = Append(short, t)
    BY <2>1
  <2> HIDE DEF short
  <2>3. \A j \in 1 .. n - 1 : \E m \in 1 .. n : m # i /\ short[j] = order[m] /\ m = IF j < i THEN j ELSE j + 1
    BY <1>1, <2>2
  <2>4. /\ Refilled(t) \in Seq(Txs) /\ Len(Refilled(t)) = n /\ DOMAIN Refilled(t) = 1 .. n
        /\ \A j \in 1 .. n - 1 : Refilled(t)[j] = short[j]
        /\ Refilled(t)[n] = t
    BY <1>1, <2>2, <2>7
  <2>5. IsInjective(Refilled(t))
    <3>1. ASSUME NEW j \in 1 .. n - 1
          PROVE  short[j] # t
      BY <1>1, <1>2, <2>1, <2>3
    <3>2. ASSUME NEW j \in 1 .. n - 1, NEW m \in 1 .. n - 1, short[j] = short[m]
          PROVE  j = m
      BY <1>1, <1>2, <2>3, <3>2
    <3>3. \A j \in 1 .. n : j \in 1 .. n - 1 \/ j = n
      BY <1>1
    <3>q. QED BY <2>4, <3>1, <3>2, <3>3 DEF IsInjective
  <2>6. Range(Refilled(t)) = Range(order) \cup {t}
    <3>1. ASSUME NEW j \in 1 .. n
          PROVE  Refilled(t)[j] \in Range(order)
      <4>1. CASE j = n
        BY <1>1, <2>1, <2>4, <4>1 DEF Range
      <4>2. CASE j # n
        <5>1. j \in 1 .. n - 1
          BY <1>1, <4>2
        <5>q. QED BY <1>1, <2>3, <2>4, <5>1 DEF Range
      <4>q. QED BY <4>1, <4>2
    <3>2. ASSUME NEW m \in 1 .. n
          PROVE  order[m] \in Range(Refilled(t))
      <4>1. CASE m = i
        <5>1. n \in 1 .. n
          BY <1>1
        <5>q. QED BY <2>1, <2>4, <4>1, <5>1 DEF Range
      <4>2. CASE m < i
        <5>1. m \in 1 .. n - 1 /\ short[m] = order[m] /\ m \in 1 .. n
          BY <1>1, <2>2, <4>2
        <5>q. QED BY <2>4, <5>1 DEF Range
      <4>3. CASE m > i
        <5>1. m - 1 \in 1 .. n - 1 /\ ~(m - 1 < i) /\ (m - 1) + 1 = m /\ m - 1 \in 1 .. n
          BY <1>1, <4>3
        <5>2. short[m - 1] = order[m]
          BY <2>2, <5>1
        <5>q. QED BY <2>4, <5>1, <5>2 DEF Range
      <4>q. QED BY <1>1, <4>1, <4>2, <4>3
    <3>3. t \in Range(order)
      BY <1>1, <2>1 DEF Range
    <3>q. QED BY <1>1, <2>4, <3>1, <3>2, <3>3 DEF Range
  <2>q. QED BY <1>1, <2>4, <2>5, <2>6
<1>q. QED BY <1>3, <1>4

\* Pruning takes the oldest key and no other.
LEMMA TailKeys ==
  ASSUME order \in Seq(Txs), IsInjective(order), order # <<>>
  PROVE  /\ Tail(order) \in Seq(Txs) /\ IsInjective(Tail(order))
         /\ Head(order) \in Txs /\ Range(Tail(order)) = Range(order) \ {Head(order)}
         /\ Len(Tail(order)) = Len(order) - 1
<1> DEFINE n == Len(order)
<1>1. n \in Nat /\ n # 0 /\ DOMAIN order = 1 .. n /\ Head(order) = order[1] /\ order[1] \in Txs
  OBVIOUS
<1>2. /\ Tail(order) \in Seq(Txs) /\ Len(Tail(order)) = n - 1 /\ DOMAIN Tail(order) = 1 .. n - 1
      /\ \A i \in 1 .. n - 1 : Tail(order)[i] = order[i + 1]
  BY <1>1
<1>3. \A i, j \in 1 .. n : order[i] = order[j] => i = j
  BY <1>1 DEF IsInjective
<1>4. IsInjective(Tail(order))
  BY <1>1, <1>2, <1>3 DEF IsInjective
<1>5. Range(Tail(order)) = Range(order) \ {Head(order)}
  <2>1. ASSUME NEW i \in 1 .. n - 1
        PROVE  Tail(order)[i] \in Range(order) \ {Head(order)}
    <3>1. i + 1 \in 1 .. n /\ i + 1 # 1 /\ 1 \in 1 .. n
      BY <1>1
    <3>q. QED BY <1>1, <1>2, <1>3, <3>1 DEF Range
  <2>2. ASSUME NEW i \in 1 .. n, order[i] # Head(order)
        PROVE  order[i] \in Range(Tail(order))
    <3>1. i - 1 \in 1 .. n - 1 /\ (i - 1) + 1 = i
      BY <1>1, <2>2
    <3>q. QED BY <1>2, <3>1 DEF Range
  <2>q. QED BY <1>1, <1>2, <2>1, <2>2 DEF Range
<1>q. QED BY <1>1, <1>2, <1>4, <1>5


-----------------------------------------------------------------------------
(* What the conjuncts of the invariant follow from. *)

\* What has its confirmations keeps them while the chain stands still.
LEMMA ConfirmedStays ==
  ASSUME UNCHANGED <<head, mined>>
  PROVE  \A t \in Txs : Confirmed(t) => Confirmed(t)'
  BY DEF Confirmed

\* The steps of the chain, the relayer and the API server leave the verifier
\* alone: the rest of the invariant follows from what they do to the two
\* databases.
LEMMA OutsideTheVerifier ==
  ASSUME PushInv, PushTyped', UNCHANGED verifier, head <= head',
         \A t \in Txs : Confirmed(t) => Confirmed(t)',
         \A t \in Txs : rows'[t].stored /\ rows'[t].verified => rows[t].stored /\ rows[t].verified,
         \A t \in Txs : rows'[t].stored => rows'[t].event \in {Unattested, EventOf[t]},
         \A t \in Txs : Kept(t) => Kept(t)',
         \A r \in requests' : r.stored => r \in requests \/ Kept(r.tx)',
         \A t \in Txs : outbox'[t].state = "pushed" => outbox[t].state = "pushed" \/ Kept(t)
  PROVE  PushInv'
<1>1. VerifierIsBehind'
  <2>1. verifier.latest <= head' /\ verifier.latest \in Nat /\ head \in Nat /\ head' \in Nat
    BY DEF PushInv, PushTyped, VerifierIsBehind, Passes
  <2>2. MaxBlock' = MaxBlock
    BY DEF MaxBlock
  <2>q. QED BY <2>1, <2>2 DEF PushInv, VerifierIsBehind
<1>2. MatchedIsConfirmed'
  <2>1. verifier.matched \subseteq Txs
    BY DEF PushInv, PushTyped, Passes
  <2>2. ASSUME NEW t \in verifier.matched
        PROVE  Confirmed(t)'
    BY <2>1 DEF PushInv, MatchedIsConfirmed
  <2>q. QED BY <2>2 DEF MatchedIsConfirmed
<1>3. VerifiedIsConfirmed'
  <2>1. ASSUME NEW t \in Txs, rows'[t].stored, rows'[t].verified
        PROVE  Confirmed(t)'
    BY <2>1 DEF PushInv, VerifiedIsConfirmed
  <2>q. QED BY <2>1 DEF VerifiedIsConfirmed
<1>4. AnsweredIsKept'
  <2>1. ASSUME NEW r \in requests', r.stored
        PROVE  Kept(r.tx)'
    <3>1. r.tx \in Txs
      BY DEF PushTyped, Requests
    <3>2. r \in requests => Kept(r.tx)
      BY <2>1 DEF PushInv, AnsweredIsKept
    <3>q. QED BY <2>1, <3>1, <3>2
  <2>q. QED BY <2>1 DEF AnsweredIsKept
<1>5. PushedIsKept'
  <2>1. ASSUME NEW t \in Txs, outbox'[t].state = "pushed"
        PROVE  Kept(t)'
    <3>1. outbox[t].state = "pushed" => Kept(t)
      BY DEF PushInv, PushedIsKept
    <3>q. QED BY <2>1, <3>1
  <2>q. QED BY <2>1 DEF PushedIsKept
<1>6. AttestedIsTheEvent'
  BY DEF AttestedIsTheEvent
<1>q. QED BY <1>1, <1>2, <1>3, <1>4, <1>5, <1>6 DEF PushInv

\* The steps of the verifier write rows that are there and nothing else.
LEMMA InsideTheVerifier ==
  ASSUME PushInv, UNCHANGED <<head, mined, relayerVars, order>>,
         rows' \in [Txs -> Rows \cup {NoRow}],
         \A t \in Txs : rows'[t].stored = rows[t].stored,
         verifier' \in Passes, VerifierIsBehind', MatchedIsConfirmed', VerifiedIsConfirmed',
         AttestedIsTheEvent'
  PROVE  PushInv'
<1>1. UNCHANGED <<head, mined, awaited, outbox, batch, requests, order>>
  BY DEF relayerVars
<1>2. {t \in Txs : rows'[t].stored} = {t \in Txs : rows[t].stored}
  OBVIOUS
<1>3. PushTyped'
  BY <1>1, <1>2 DEF PushInv, PushTyped
<1>4. ASSUME NEW t \in Txs, Kept(t)
      PROVE  Kept(t)'
  BY <1>1, <1>4 DEF Kept
<1>5. AnsweredIsKept'
  <2>1. ASSUME NEW r \in requests, r.stored
        PROVE  Kept(r.tx)'
    <3>1. r.tx \in Txs /\ Kept(r.tx)
      BY <2>1 DEF PushInv, PushTyped, Requests, AnsweredIsKept
    <3>q. QED BY <1>4, <3>1
  <2>q. QED BY <1>1, <2>1 DEF AnsweredIsKept
<1>6. PushedIsKept'
  BY <1>1, <1>4 DEF PushInv, PushedIsKept
<1>q. QED BY <1>3, <1>5, <1>6 DEF PushInv

-----------------------------------------------------------------------------
(* The chain. *)

\* A block takes in settlements that were not mined, and takes none back.
LEMMA OnNewBlock ==
  ASSUME PushInv, NewBlock
  PROVE  PushInv'
<1>1. /\ head < MaxHead /\ head' = head + 1
      /\ UNCHANGED <<awaited, outbox, batch, requests, rows, order, verifier>>
  BY DEF NewBlock, relayerVars, tableVars
<1>2. PICK included \in SUBSET {t \in Settlers : mined[t] = 0 /\ head + 1 + BlockSafetyMargin <= MaxHead} :
         mined' = [t \in Txs |-> IF t \in included THEN head + 1 ELSE mined[t]]
  BY DEF NewBlock
<1>3. head \in 1 .. MaxHead /\ MaxHead \in Nat /\ mined \in [Txs -> 0 .. MaxHead] /\ BlockSafetyMargin \in Nat
  BY SettlementPushAssumption DEF PushInv, PushTyped
<1>4. head' \in 1 .. MaxHead /\ head + 1 \in 0 .. MaxHead /\ head <= head'
  BY <1>1, <1>3
<1>5. mined' \in [Txs -> 0 .. MaxHead]
  BY <1>2, <1>3, <1>4
<1>6. PushTyped'
  BY <1>1, <1>4, <1>5 DEF PushInv, PushTyped
<1>7. ASSUME NEW t \in Txs, Confirmed(t)
      PROVE  Confirmed(t)'
  <2>1. mined[t] \in Nat /\ mined[t] > 0
    BY <1>3, <1>7 DEF Confirmed
  <2>2. mined'[t] = mined[t]
    BY <1>2, <2>1
  <2>q. QED BY <1>1, <1>3, <1>7, <2>1, <2>2 DEF Confirmed
<1>8. \A t \in Txs : Kept(t) => Kept(t)'
  BY <1>1 DEF Kept
<1>9. /\ \A t \in Txs : rows'[t].stored /\ rows'[t].verified => rows[t].stored /\ rows[t].verified
      /\ \A t \in Txs : rows'[t].stored => rows'[t].event \in {Unattested, EventOf[t]}
      /\ \A r \in requests' : r.stored => r \in requests
      /\ \A t \in Txs : outbox'[t].state = "pushed" => outbox[t].state = "pushed"
  BY <1>1 DEF PushInv, AttestedIsTheEvent
<1>q. QED BY <1>1, <1>4, <1>6, <1>7, <1>8, <1>9, OutsideTheVerifier

\* A reorganisation is no deeper than the confirmations that are waited for.
LEMMA OnReorg ==
  ASSUME PushInv, Reorg
  PROVE  PushInv'
<1>1. UNCHANGED <<head, awaited, outbox, batch, requests, rows, order, verifier>>
  BY DEF Reorg, relayerVars, tableVars
<1>2. PICK depth \in 1 .. BlockSafetyMargin :
         mined' = [t \in Txs |-> IF mined[t] > head - depth THEN 0 ELSE mined[t]]
  BY DEF Reorg
<1>3. head \in 1 .. MaxHead /\ MaxHead \in Nat /\ mined \in [Txs -> 0 .. MaxHead] /\ BlockSafetyMargin \in Nat
  BY SettlementPushAssumption DEF PushInv, PushTyped
<1>4. mined' \in [Txs -> 0 .. MaxHead] /\ head <= head'
  BY <1>1, <1>2, <1>3
<1>5. PushTyped'
  BY <1>1, <1>4 DEF PushInv, PushTyped
<1>6. ASSUME NEW t \in Txs, Confirmed(t)
      PROVE  Confirmed(t)'
  <2>1. mined[t] \in Nat /\ mined[t] + BlockSafetyMargin <= head
    BY <1>3, <1>6 DEF Confirmed
  <2>2. ~(mined[t] > head - depth)
    BY <1>3, <2>1
  <2>3. mined'[t] = mined[t]
    BY <1>2, <2>2
  <2>q. QED BY <1>1, <1>6, <2>3 DEF Confirmed
<1>7. \A t \in Txs : Kept(t) => Kept(t)'
  BY <1>1 DEF Kept
<1>8. /\ \A t \in Txs : rows'[t].stored /\ rows'[t].verified => rows[t].stored /\ rows[t].verified
      /\ \A t \in Txs : rows'[t].stored => rows'[t].event \in {Unattested, EventOf[t]}
      /\ \A r \in requests' : r.stored => r \in requests
      /\ \A t \in Txs : outbox'[t].state = "pushed" => outbox[t].state = "pushed"
  BY <1>1 DEF PushInv, AttestedIsTheEvent
<1>q. QED BY <1>1, <1>4, <1>5, <1>6, <1>7, <1>8, OutsideTheVerifier

-----------------------------------------------------------------------------
(* The relayer's outbox. *)

\* What the relayer does alone leaves the chain and the index as they are.
LEMMA OutsideTheIndex ==
  ASSUME PushInv, UNCHANGED <<head, mined, rows, order, verifier>>,
         awaited' \subseteq Settlers, outbox' \in [Txs -> Pushes], batch' \subseteq Txs,
         requests' \subseteq Requests,
         \A r \in requests' : r.stored => r \in requests,
         \A t \in Txs : outbox'[t].state = "pushed" => outbox[t].state = "pushed" \/ Kept(t)
  PROVE  PushInv'
<1>1. PushTyped'
  BY DEF PushInv, PushTyped
<1>2. head <= head'
  BY DEF PushInv, PushTyped
<1>3. \A t \in Txs : Confirmed(t) => Confirmed(t)'
  BY ConfirmedStays
<1>4. \A t \in Txs : Kept(t) => Kept(t)'
  BY DEF Kept
<1>5. /\ \A t \in Txs : rows'[t].stored /\ rows'[t].verified => rows[t].stored /\ rows[t].verified
      /\ \A t \in Txs : rows'[t].stored => rows'[t].event \in {Unattested, EventOf[t]}
  BY DEF PushInv, AttestedIsTheEvent
<1>q. QED BY <1>1, <1>2, <1>3, <1>4, <1>5, OutsideTheVerifier

\* The columns of an outbox row.
LEMMA PushColumns ==
  ASSUME outbox \in [Txs -> Pushes], NEW t \in Txs
  PROVE  /\ outbox[t] \in Pushes
         /\ outbox[t].attempts \in 0 .. MAX_PUSH_ATTEMPTS /\ outbox[t].block \in 0 .. MaxHead
         /\ Attempts(t) \in 0 .. MAX_PUSH_ATTEMPTS
<1>1. outbox[t] \in Pushes
  OBVIOUS
<1>2. outbox[t].attempts \in 0 .. MAX_PUSH_ATTEMPTS /\ outbox[t].block \in 0 .. MaxHead
  BY <1>1 DEF Pushes
<1>3. MAX_PUSH_ATTEMPTS \in Nat
  BY SettlementPushAssumption
<1>q. QED BY <1>1, <1>2, <1>3 DEF Attempts

\* Both updates keep the rows of the outbox rows, and only the first one
\* makes a row a delivered one.
LEMMA OutboxUpdates ==
  ASSUME outbox \in [Txs -> Pushes], NEW t \in Txs
  PROVE  /\ MarkedPushed(t) \in [Txs -> Pushes] /\ MarkedFailed(t) \in [Txs -> Pushes]
         /\ \A u \in Txs : u # t => MarkedPushed(t)[u] = outbox[u]
         /\ \A u \in Txs : MarkedFailed(t)[u].state = outbox[u].state
<1>1. outbox[t] \in Pushes /\ Attempts(t) \in 0 .. MAX_PUSH_ATTEMPTS
  BY PushColumns
<1>2. /\ [outbox[t] EXCEPT !.state = "pushed", !.attempts = Attempts(t)] \in Pushes
      /\ [outbox[t] EXCEPT !.attempts = Attempts(t)] \in Pushes
      /\ [outbox[t] EXCEPT !.attempts = Attempts(t)].state = outbox[t].state
  BY <1>1 DEF Pushes
<1>3. CASE outbox[t].state = "none"
  BY <1>3 DEF MarkedPushed, MarkedFailed
<1>4. CASE outbox[t].state # "none"
  <2>1. /\ MarkedPushed(t) = [outbox EXCEPT ![t] = [outbox[t] EXCEPT !.state = "pushed", !.attempts = Attempts(t)]]
        /\ MarkedFailed(t) = [outbox EXCEPT ![t] = [outbox[t] EXCEPT !.attempts = Attempts(t)]]
    BY <1>4 DEF MarkedPushed, MarkedFailed
  <2>q. QED BY <1>2, <2>1
<1>q. QED BY <1>3, <1>4

\* A receipt enqueues a row, undelivered, and sends the first push.
LEMMA OnReceipt ==
  ASSUME PushInv, NEW t \in Txs, Receipt(t)
  PROVE  PushInv'
<1> DEFINE fresh == [state |-> "pending", attempts |-> 0, block |-> mined[t]]
           push == [tx |-> t, block |-> mined[t], via |-> "live", awaited |-> TRUE, stored |-> FALSE]
<1>1. /\ awaited' = awaited \ {t} /\ requests' = requests \cup {push}
      /\ outbox' = IF outbox[t].state = "none" THEN [outbox EXCEPT ![t] = fresh] ELSE outbox
      /\ UNCHANGED <<head, mined, batch, rows, order, verifier>>
  BY DEF Receipt, tableVars
<1>2. /\ outbox \in [Txs -> Pushes] /\ requests \subseteq Requests /\ awaited \subseteq Settlers
      /\ batch \subseteq Txs /\ mined[t] \in 0 .. MaxHead /\ MAX_PUSH_ATTEMPTS \in Nat
  BY SettlementPushAssumption DEF PushInv, PushTyped
<1>3. fresh \in Pushes /\ fresh.state # "pushed"
  BY <1>2 DEF Pushes
<1>4. push \in Requests /\ ~push.stored
  BY <1>2 DEF Requests
<1> HIDE DEF fresh, push
<1>5. outbox' \in [Txs -> Pushes]
  BY <1>1, <1>2, <1>3
<1>6. \A u \in Txs : outbox'[u].state = "pushed" => outbox[u].state = "pushed"
  BY <1>1, <1>2, <1>3
<1>7. /\ awaited' \subseteq Settlers /\ batch' \subseteq Txs /\ requests' \subseteq Requests
      /\ \A r \in requests' : r.stored => r \in requests
  BY <1>1, <1>2, <1>4
<1>q. QED BY <1>1, <1>5, <1>6, <1>7, OutsideTheIndex

\* A submission is forgotten.
LEMMA OnReceiptLost ==
  ASSUME PushInv, NEW t \in Txs, ReceiptLost(t)
  PROVE  PushInv'
<1>1. /\ awaited' = awaited \ {t}
      /\ UNCHANGED <<head, mined, outbox, batch, requests, rows, order, verifier>>
  BY DEF ReceiptLost, tableVars
<1>2. /\ outbox \in [Txs -> Pushes] /\ requests \subseteq Requests /\ awaited \subseteq Settlers
      /\ batch \subseteq Txs
  BY DEF PushInv, PushTyped
<1>q. QED BY <1>1, <1>2, OutsideTheIndex

\* The worker reads what is pending.
LEMMA OnTick ==
  ASSUME PushInv, tick
  PROVE  PushInv'
<1>1. /\ batch' = PendingPushes
      /\ UNCHANGED <<head, mined, awaited, outbox, requests, rows, order, verifier>>
  BY DEF tick, tableVars
<1>2. /\ outbox \in [Txs -> Pushes] /\ requests \subseteq Requests /\ awaited \subseteq Settlers
      /\ PendingPushes \subseteq Txs
  BY DEF PushInv, PushTyped, PendingPushes
<1>q. QED BY <1>1, <1>2, OutsideTheIndex

\* The worker pushes a row as it read it.
LEMMA OnWorkerPush ==
  ASSUME PushInv, NEW t \in Txs, WorkerPush(t)
  PROVE  PushInv'
<1>1. /\ batch' = batch \ {t} /\ requests' = requests \cup {Request(t, "worker")}
      /\ UNCHANGED <<head, mined, awaited, outbox, rows, order, verifier>>
  BY DEF WorkerPush, tableVars
<1>2. /\ outbox \in [Txs -> Pushes] /\ requests \subseteq Requests /\ awaited \subseteq Settlers
      /\ batch \subseteq Txs
  BY DEF PushInv, PushTyped
<1>3. outbox[t].block \in 0 .. MaxHead
  BY <1>2, PushColumns
<1>4. Request(t, "worker") \in Requests /\ ~Request(t, "worker").stored
  BY <1>3 DEF Request, Requests
<1>5. requests' \subseteq Requests /\ \A r \in requests' : r.stored => r \in requests
  BY <1>1, <1>2, <1>4
<1>q. QED BY <1>1, <1>2, <1>5, OutsideTheIndex

\* A delivered row is dropped.
LEMMA OnPrunePushed ==
  ASSUME PushInv, NEW t \in Txs, prunePushed(t)
  PROVE  PushInv'
<1>1. /\ outbox' = [outbox EXCEPT ![t] = NoPush]
      /\ UNCHANGED <<head, mined, awaited, batch, requests, rows, order, verifier>>
  BY DEF prunePushed, tableVars
<1>2. /\ outbox \in [Txs -> Pushes] /\ requests \subseteq Requests /\ awaited \subseteq Settlers
      /\ batch \subseteq Txs /\ MAX_PUSH_ATTEMPTS \in Nat /\ MaxHead \in Nat
  BY SettlementPushAssumption DEF PushInv, PushTyped
<1>3. NoPush \in Pushes /\ NoPush.state # "pushed"
  BY <1>2 DEF NoPush, Pushes
<1>4. outbox' \in [Txs -> Pushes] /\ \A u \in Txs : outbox'[u].state = "pushed" => outbox[u].state = "pushed"
  BY <1>1, <1>2, <1>3
<1>q. QED BY <1>1, <1>2, <1>4, OutsideTheIndex

\* An answer is an answer to a request that was handled: what it marks as
\* delivered has a row, or the table is full.
LEMMA OnAcknowledged ==
  ASSUME PushInv, NEW r \in requests, Acknowledged(r)
  PROVE  PushInv'
<1>1. /\ r.stored /\ outbox' = MarkedPushed(r.tx) /\ requests' = requests \ {r}
      /\ UNCHANGED <<head, mined, awaited, batch, rows, order, verifier>>
  BY DEF Acknowledged, tableVars
<1>2. /\ outbox \in [Txs -> Pushes] /\ requests \subseteq Requests /\ awaited \subseteq Settlers
      /\ batch \subseteq Txs /\ r.tx \in Txs
  BY DEF PushInv, PushTyped, Requests
<1>3. Kept(r.tx)
  BY <1>1 DEF PushInv, AnsweredIsKept
<1>4. /\ outbox' \in [Txs -> Pushes]
      /\ \A u \in Txs : u # r.tx => outbox'[u] = outbox[u]
  BY <1>1, <1>2, OutboxUpdates
<1>5. \A u \in Txs : outbox'[u].state = "pushed" => outbox[u].state = "pushed" \/ Kept(u)
  BY <1>3, <1>4
<1>6. requests' \subseteq Requests /\ \A q \in requests' : q.stored => q \in requests
  BY <1>1, <1>2
<1>q. QED BY <1>1, <1>2, <1>4, <1>5, <1>6, OutsideTheIndex

\* A failed push is counted and takes no acknowledgement back; the request
\* may still arrive.
LEMMA OnPushFailed ==
  ASSUME PushInv, NEW r \in requests, PushFailed(r)
  PROVE  PushInv'
<1>1. /\ outbox' = MarkedFailed(r.tx)
      /\ UNCHANGED <<head, mined, awaited, batch, rows, order, verifier>>
  BY DEF PushFailed, tableVars
<1>2. PICK late \in {{}, {[r EXCEPT !.awaited = FALSE]}} :
         requests' = (requests \ {r}) \cup {l \in late : ~l.stored}
  BY DEF PushFailed
<1>3. /\ outbox \in [Txs -> Pushes] /\ requests \subseteq Requests /\ awaited \subseteq Settlers
      /\ batch \subseteq Txs /\ r \in Requests
  BY DEF PushInv, PushTyped
<1>4. r.tx \in Txs /\ [r EXCEPT !.awaited = FALSE] \in Requests
  BY <1>3 DEF Requests
<1>5. late \subseteq Requests
  BY <1>4
<1>6. requests' \subseteq Requests /\ \A q \in requests' : q.stored => q \in requests
  BY <1>2, <1>3, <1>5
<1>7. outbox' \in [Txs -> Pushes] /\ \A u \in Txs : outbox'[u].state = outbox[u].state
  BY <1>1, <1>3, <1>4, OutboxUpdates
<1>q. QED BY <1>1, <1>3, <1>6, <1>7, OutsideTheIndex

-----------------------------------------------------------------------------
(* The orderbook's API server. *)

\* A report as either route builds it.
Report(p) ==
    /\ p.tx \in Txs /\ p.submitter \in Addresses /\ p.maker \in Addresses /\ p.taker \in Addresses
    /\ p.block \in Blocks

\* The row a report puts in place of the one there was, if any.
NewRow(p) ==
    [stored |-> TRUE, submitter |-> p.submitter, maker |-> p.maker, taker |-> p.taker,
     block |-> p.block, verified |-> FALSE, attempts |-> 0, event |-> Inherited(rows[p.tx])]

\* insertSettlement stores the transaction of the report and forgets none;
\* it marks nothing verified, and hands the attestation of the row it evicts
\* to the one that replaces it.
LEMMA Inserted ==
  ASSUME PushInv, NEW p, Report(p), insertSettlement(p)
  PROVE  /\ rows' \in [Txs -> Rows \cup {NoRow}]
         /\ order' \in Seq(Txs) /\ IsInjective(order') /\ Range(order') = {t \in Txs : rows'[t].stored}
         /\ Len(order') >= Len(order)
         /\ \A t \in Txs : rows[t].stored => rows'[t].stored
         /\ rows'[p.tx].stored
         /\ \A t \in Txs : rows'[t].stored /\ rows'[t].verified => rows[t].stored /\ rows[t].verified
         /\ \A t \in Txs : rows'[t].stored => rows'[t].event \in {Unattested, EventOf[t]}
<1>1. /\ p.tx \in Txs /\ rows \in [Txs -> Rows \cup {NoRow}]
      /\ order \in Seq(Txs) /\ IsInjective(order) /\ Range(order) = {t \in Txs : rows[t].stored}
      /\ Len(order) \in Nat
  BY DEF PushInv, PushTyped, Report
<1>2. \A t \in Txs : rows[t].stored => rows[t].event \in {Unattested, EventOf[t]}
  BY DEF PushInv, AttestedIsTheEvent
<1>3. CASE rows[p.tx].stored /\ ~Evicts(rows[p.tx], p)
  <2>1. rows' = rows /\ order' = order
    BY <1>3 DEF insertSettlement, tableVars
  <2>q. QED BY <1>1, <1>2, <1>3, <2>1
<1>4. CASE ~(rows[p.tx].stored /\ ~Evicts(rows[p.tx], p))
  <2>1. rows' = [rows EXCEPT ![p.tx] = NewRow(p)] /\ order' = Refilled(p.tx)
    BY <1>1, <1>4 DEF insertSettlement, NewRow
  <2>2. Inherited(rows[p.tx]) \in {Unattested, EventOf[p.tx]} /\ Inherited(rows[p.tx]) \in Attributions
    <3>1. Unattested \in Attributions /\ EventOf[p.tx] \in Attributions
      BY <1>1, AddressesAreThere
    <3>q. QED BY <1>1, <1>2, <3>1 DEF Inherited
  <2>3. /\ NewRow(p) \in Rows /\ NewRow(p).stored /\ ~NewRow(p).verified
        /\ NewRow(p).event = Inherited(rows[p.tx])
    <3>1. 0 \in 0 .. MaxVerifyAttempts
      BY SettlementPushAssumption
    <3>q. QED BY <2>2, <3>1 DEF NewRow, Rows, Report
  <2>4. /\ rows'[p.tx] = NewRow(p) /\ \A t \in Txs : t # p.tx => rows'[t] = rows[t]
        /\ rows' \in [Txs -> Rows \cup {NoRow}]
    BY <1>1, <2>1, <2>3
  <2>5. /\ order' \in Seq(Txs) /\ IsInjective(order') /\ Range(order') = Range(order) \cup {p.tx}
        /\ Len(order') >= Len(order)
    BY <1>1, <2>1, RefilledKeys
  <2>6. {t \in Txs : rows'[t].stored} = {t \in Txs : rows[t].stored} \cup {p.tx}
    BY <1>1, <2>3, <2>4
  <2>q. QED BY <1>1, <1>2, <2>2, <2>3, <2>4, <2>5, <2>6
<1>q. QED BY <1>3, <1>4

\* What was kept stays so when a report is inserted.
LEMMA InsertedIsKept ==
  ASSUME PushInv, NEW p, Report(p), insertSettlement(p)
  PROVE  rows'[p.tx].stored /\ \A t \in Txs : Kept(t) => Kept(t)'
<1>1. /\ rows'[p.tx].stored /\ \A t \in Txs : rows[t].stored => rows'[t].stored
      /\ Len(order') >= Len(order) /\ order' \in Seq(Txs) /\ order \in Seq(Txs)
  BY Inserted DEF PushInv, PushTyped
<1>2. MaxSettlements \in Nat /\ Len(order) \in Nat /\ Len(order') \in Nat
  BY <1>1, SettlementPushAssumption
<1>3. ASSUME NEW t \in Txs, Kept(t)
      PROVE  Kept(t)'
  BY <1>1, <1>2, <1>3 DEF Kept
<1>q. QED BY <1>1, <1>3

\* A request of our relayer is handled: its transaction has a row now, which
\* is what the answer says.
LEMMA OnHandleRequest ==
  ASSUME PushInv, NEW r \in requests, HandleRequest(r)
  PROVE  PushInv'
<1>1. /\ insertSettlement(OwnReport(r))
      /\ requests' = (requests \ {r}) \cup (IF r.awaited THEN {[r EXCEPT !.stored = TRUE]} ELSE {})
      /\ UNCHANGED <<head, mined, awaited, outbox, batch, verifier>>
  BY DEF HandleRequest
<1>2. /\ head \in Nat /\ requests \subseteq Requests /\ r \in Requests /\ MaxHead \in Nat
      /\ FutureBlockBuffer \in Nat
  BY SettlementPushAssumption DEF PushInv, PushTyped
<1>3. r.tx \in Txs /\ r.block \in 0 .. MaxHead /\ [r EXCEPT !.stored = TRUE] \in Requests
      /\ [r EXCEPT !.stored = TRUE].tx = r.tx
  BY <1>2 DEF Requests
<1>4. Report(OwnReport(r)) /\ OwnReport(r).tx = r.tx
  BY <1>2, <1>3, AddressesAreThere DEF Report, OwnReport, Blocks
<1>5. /\ rows' \in [Txs -> Rows \cup {NoRow}]
      /\ order' \in Seq(Txs) /\ IsInjective(order') /\ Range(order') = {t \in Txs : rows'[t].stored}
      /\ \A t \in Txs : rows'[t].stored /\ rows'[t].verified => rows[t].stored /\ rows[t].verified
      /\ \A t \in Txs : rows'[t].stored => rows'[t].event \in {Unattested, EventOf[t]}
  BY <1>1, <1>4, Inserted
<1>6. /\ rows'[r.tx].stored /\ \A t \in Txs : Kept(t) => Kept(t)'
  BY <1>1, <1>4, InsertedIsKept
<1>7. requests' \subseteq Requests
  BY <1>1, <1>2, <1>3
<1>8. PushTyped'
  BY <1>1, <1>5, <1>7 DEF PushInv, PushTyped
<1>9. ASSUME NEW q \in requests', q.stored
      PROVE  q \in requests \/ Kept(q.tx)'
  <2>1. CASE q \in requests
    BY <2>1
  <2>2. CASE q \notin requests
    <3>1. q.tx = r.tx
      BY <1>1, <1>3, <2>2
    <3>q. QED BY <1>3, <1>6, <3>1 DEF Kept
  <2>q. QED BY <2>1, <2>2
<1>10. head <= head'
  BY <1>1, <1>2
<1>11. \A t \in Txs : Confirmed(t) => Confirmed(t)'
  BY <1>1, ConfirmedStays
<1>12. \A t \in Txs : outbox'[t].state = "pushed" => outbox[t].state = "pushed"
  BY <1>1
<1>q. QED BY <1>1, <1>5, <1>6, <1>8, <1>9, <1>10, <1>11, <1>12, OutsideTheVerifier

\* Another submitter's report.
LEMMA OnOtherReport ==
  ASSUME PushInv, NEW p \in Reports, OtherReport(p)
  PROVE  PushInv'
<1>1. /\ insertSettlement(p)
      /\ UNCHANGED <<head, mined, awaited, outbox, batch, requests, verifier>>
  BY DEF OtherReport, relayerVars
<1>2. Report(p)
  BY SettlementPushAssumption, AddressesAreThere DEF Report, Blocks
<1>3. /\ rows' \in [Txs -> Rows \cup {NoRow}]
      /\ order' \in Seq(Txs) /\ IsInjective(order') /\ Range(order') = {t \in Txs : rows'[t].stored}
      /\ \A t \in Txs : rows'[t].stored /\ rows'[t].verified => rows[t].stored /\ rows[t].verified
      /\ \A t \in Txs : rows'[t].stored => rows'[t].event \in {Unattested, EventOf[t]}
  BY <1>1, <1>2, Inserted
<1>4. \A t \in Txs : Kept(t) => Kept(t)'
  BY <1>1, <1>2, InsertedIsKept
<1>5. PushTyped'
  BY <1>1, <1>3 DEF PushInv, PushTyped
<1>6. head <= head'
  BY <1>1 DEF PushInv, PushTyped
<1>7. \A t \in Txs : Confirmed(t) => Confirmed(t)'
  BY <1>1, ConfirmedStays
<1>8. /\ \A q \in requests' : q.stored => q \in requests
      /\ \A t \in Txs : outbox'[t].state = "pushed" => outbox[t].state = "pushed"
  BY <1>1
<1>q. QED BY <1>1, <1>3, <1>4, <1>5, <1>6, <1>7, <1>8, OutsideTheVerifier

\* The cap removes the oldest row of a table that is over it: it stays full.
LEMMA OnPruneSettlements ==
  ASSUME PushInv, pruneSettlements
  PROVE  PushInv'
<1>1. /\ Len(order) > MaxSettlements /\ order' = Tail(order)
      /\ rows' = [rows EXCEPT ![Head(order)] = NoRow]
      /\ UNCHANGED <<head, mined, awaited, outbox, batch, requests, verifier>>
  BY DEF pruneSettlements, relayerVars
<1>2. /\ rows \in [Txs -> Rows \cup {NoRow}] /\ MaxSettlements \in Nat
      /\ order \in Seq(Txs) /\ IsInjective(order) /\ Range(order) = {t \in Txs : rows[t].stored}
  BY SettlementPushAssumption DEF PushInv, PushTyped
<1>3. order # <<>> /\ Len(order) \in Nat
  BY <1>1, <1>2
<1>4. /\ order' \in Seq(Txs) /\ IsInjective(order')
      /\ Head(order) \in Txs /\ Range(order') = Range(order) \ {Head(order)}
      /\ Len(order') = Len(order) - 1
  BY <1>1, <1>2, <1>3, TailKeys
<1>5. /\ rows'[Head(order)] = NoRow /\ \A t \in Txs : t # Head(order) => rows'[t] = rows[t]
      /\ rows' \in [Txs -> Rows \cup {NoRow}]
  BY <1>1, <1>2, <1>4
<1>6. ~NoRow.stored
  BY DEF NoRow
<1>7. {t \in Txs : rows'[t].stored} = {t \in Txs : rows[t].stored} \ {Head(order)}
  BY <1>4, <1>5, <1>6
<1>8. PushTyped'
  BY <1>1, <1>2, <1>4, <1>5, <1>7 DEF PushInv, PushTyped
<1>9. Len(order') >= MaxSettlements
  BY <1>1, <1>2, <1>3, <1>4
<1>10. \A t \in Txs : Kept(t) => Kept(t)'
  BY <1>9 DEF Kept
<1>11. head <= head'
  BY <1>1 DEF PushInv, PushTyped
<1>12. \A t \in Txs : Confirmed(t) => Confirmed(t)'
  BY <1>1, ConfirmedStays
<1>13. /\ \A q \in requests' : q.stored => q \in requests
       /\ \A t \in Txs : outbox'[t].state = "pushed" => outbox[t].state = "pushed"
  BY <1>1
<1>14. /\ \A t \in Txs : rows'[t].stored /\ rows'[t].verified => rows[t].stored /\ rows[t].verified
       /\ \A t \in Txs : rows'[t].stored => rows'[t].event \in {Unattested, EventOf[t]}
  BY <1>4, <1>5, <1>6 DEF PushInv, AttestedIsTheEvent
<1>q. QED BY <1>1, <1>8, <1>10, <1>11, <1>12, <1>13, <1>14, OutsideTheVerifier

-----------------------------------------------------------------------------
(* The verifier. *)

\* The types the steps of the verifier need.
LEMMA VerifierFacts ==
  ASSUME PushInv
  PROVE  /\ rows \in [Txs -> Rows \cup {NoRow}] /\ mined \in [Txs -> 0 .. MaxHead]
         /\ verifier \in Passes /\ verifier.latest \in 0 .. MaxHead /\ verifier.scanned \subseteq Verdicts
         /\ verifier.matched \subseteq Txs /\ verifier.mismatched \subseteq Txs
         /\ verifier.unmatched \subseteq Txs
         /\ head \in 1 .. MaxHead /\ verifier.latest <= head
         /\ MaxHead \in Nat /\ BlockSafetyMargin \in Nat /\ MaxVerifyAttempts \in Nat
         /\ VerifierIdle \in Passes
<1>1. /\ rows \in [Txs -> Rows \cup {NoRow}] /\ mined \in [Txs -> 0 .. MaxHead]
      /\ verifier \in Passes /\ head \in 1 .. MaxHead /\ verifier.latest <= head
  BY DEF PushInv, PushTyped, VerifierIsBehind
<1>2. MaxHead \in Nat /\ BlockSafetyMargin \in Nat /\ MaxVerifyAttempts \in Nat
  BY SettlementPushAssumption
<1>3. /\ verifier.latest \in 0 .. MaxHead /\ verifier.scanned \subseteq Verdicts
      /\ verifier.matched \subseteq Txs /\ verifier.mismatched \subseteq Txs
      /\ verifier.unmatched \subseteq Txs
  BY <1>1 DEF Passes
<1>4. VerifierIdle \in Passes
  BY <1>2 DEF VerifierIdle, Passes
<1>q. QED BY <1>1, <1>2, <1>3, <1>4

\* Reading the head only raises the blocks a pass may look at.
LEMMA OnReadHead ==
  ASSUME PushInv, ReadHead
  PROVE  PushInv'
<1>1. /\ verifier' = [verifier EXCEPT !.pc = "head", !.latest = head]
      /\ UNCHANGED <<head, mined, relayerVars, rows, order>>
  BY DEF ReadHead, tableVars
<1>2. verifier' \in Passes /\ verifier'.latest = head /\ verifier'.scanned = verifier.scanned
      /\ verifier'.matched = verifier.matched
  <2>1. head \in 0 .. MaxHead
    BY VerifierFacts
  <2>q. QED BY <1>1, <2>1, VerifierFacts DEF Passes
<1>3. VerifierIsBehind'
  <2>1. MaxBlock \in Nat /\ MaxBlock' \in Nat /\ MaxBlock <= MaxBlock'
    BY <1>2, VerifierFacts DEF MaxBlock
  <2>2. ASSUME NEW r \in verifier.scanned
        PROVE  r.block <= MaxBlock'
    <3>1. r.block \in Blocks /\ r.block <= MaxBlock
      BY VerifierFacts DEF PushInv, VerifierIsBehind, Verdicts
    <3>2. r.block \in Nat
      BY <3>1 DEF Blocks
    <3>q. QED BY <2>1, <3>1, <3>2
  <2>q. QED BY <1>1, <1>2, <2>2, VerifierFacts DEF VerifierIsBehind
<1>4. MatchedIsConfirmed'
  BY <1>1, <1>2 DEF PushInv, MatchedIsConfirmed, Confirmed
<1>5. VerifiedIsConfirmed' /\ AttestedIsTheEvent' /\ \A t \in Txs : rows'[t].stored = rows[t].stored
  BY <1>1 DEF PushInv, VerifiedIsConfirmed, AttestedIsTheEvent, Confirmed
<1>6. rows' \in [Txs -> Rows \cup {NoRow}]
  BY <1>1, VerifierFacts
<1>q. QED BY <1>1, <1>2, <1>3, <1>4, <1>5, <1>6, InsideTheVerifier

\* A pass that is dropped has written nothing.
LEMMA OnPassFailed ==
  ASSUME PushInv, PassFailed
  PROVE  PushInv'
<1>1. verifier' = VerifierIdle /\ UNCHANGED <<head, mined, relayerVars, rows, order>>
  BY DEF PassFailed, tableVars
<1>2. verifier'.latest = 0 /\ verifier'.scanned = {} /\ verifier'.matched = {}
  BY <1>1 DEF VerifierIdle
<1>3. VerifierIsBehind' /\ MatchedIsConfirmed'
  BY <1>1, <1>2, VerifierFacts DEF VerifierIsBehind, MatchedIsConfirmed
<1>4. VerifiedIsConfirmed' /\ AttestedIsTheEvent' /\ \A t \in Txs : rows'[t].stored = rows[t].stored
  BY <1>1 DEF PushInv, VerifiedIsConfirmed, AttestedIsTheEvent, Confirmed
<1>5. rows' \in [Txs -> Rows \cup {NoRow}] /\ verifier' \in Passes
  BY <1>1, VerifierFacts
<1>q. QED BY <1>1, <1>3, <1>4, <1>5, InsideTheVerifier

\* The rows of a window have their confirmations below the head as it was
\* read (runVerifyPass, maxBlock).
LEMMA WindowIsConfirmed ==
  ASSUME PushInv, NEW t \in Window
  PROVE  /\ t \in Txs /\ rows[t].stored /\ rows[t] \in Rows /\ rows[t].block <= MaxBlock
         /\ [tx |-> t, maker |-> rows[t].maker, taker |-> rows[t].taker, block |-> rows[t].block] \in Verdicts
<1>1. t \in Txs /\ rows[t].stored /\ rows[t].block <= MaxBlock
  BY DEF Window, Unverified, Active
<1>2. rows[t] \in Rows
  BY <1>1, VerifierFacts, StoredIsRow
<1>q. QED BY <1>1, <1>2 DEF Rows, Verdicts

\* Quarantining a row from the future changes its counter alone, and the pass
\* that starts looks at confirmed blocks.
LEMMA OnStartPass ==
  ASSUME PushInv, StartPass
  PROVE  PushInv'
<1> DEFINE seen == {[tx |-> t, maker |-> rows[t].maker, taker |-> rows[t].taker, block |-> rows[t].block] : t \in Window}
<1>1. /\ rows' = [t \in Txs |-> IF Future(t) THEN [rows[t] EXCEPT !.attempts = MaxVerifyAttempts] ELSE rows[t]]
      /\ verifier' = IF Window = {} THEN VerifierIdle
                     ELSE [verifier EXCEPT !.pc = "fetch", !.scanned = seen]
      /\ UNCHANGED <<head, mined, relayerVars, order>>
  BY DEF StartPass
<1>2. seen \subseteq Verdicts /\ \A r \in seen : r.block <= MaxBlock
  BY WindowIsConfirmed
<1> HIDE DEF seen
<1>3. /\ verifier' \in Passes /\ verifier'.latest \in {0, verifier.latest}
      /\ verifier'.matched \in {{}, verifier.matched}
      /\ \/ verifier'.scanned = {}
         \/ verifier'.scanned = seen /\ verifier'.latest = verifier.latest
  <2>1. CASE Window = {}
    BY <1>1, <2>1, VerifierFacts DEF VerifierIdle
  <2>2. CASE Window # {}
    BY <1>1, <1>2, <2>2, VerifierFacts DEF Passes
  <2>q. QED BY <2>1, <2>2
<1>4. VerifierIsBehind'
  <2>1. verifier'.latest <= head'
    BY <1>1, <1>3, VerifierFacts
  <2>2. ASSUME NEW r \in verifier'.scanned
        PROVE  r.block <= MaxBlock'
    <3>1. r \in seen /\ verifier'.latest = verifier.latest
      BY <1>3
    <3>2. MaxBlock' = MaxBlock
      BY <3>1 DEF MaxBlock
    <3>q. QED BY <1>2, <3>1, <3>2
  <2>q. QED BY <2>1, <2>2 DEF VerifierIsBehind
<1>5. MatchedIsConfirmed'
  BY <1>1, <1>3 DEF PushInv, MatchedIsConfirmed, Confirmed
<1>6. ASSUME NEW t \in Txs
      PROVE  /\ rows'[t] \in Rows \cup {NoRow} /\ rows'[t].stored = rows[t].stored
             /\ rows[t].stored => rows'[t].verified = rows[t].verified /\ rows'[t].event = rows[t].event
  <2>1. CASE Future(t)
    <3>1. rows[t] \in Rows /\ rows[t].stored
      BY <2>1, VerifierFacts, StoredIsRow DEF Future, Active
    <3>2. rows'[t] = [rows[t] EXCEPT !.attempts = MaxVerifyAttempts]
      BY <1>1, <2>1
    <3>3. MaxVerifyAttempts \in 0 .. MaxVerifyAttempts
      BY VerifierFacts
    <3>5. /\ [rows[t] EXCEPT !.attempts = MaxVerifyAttempts] \in Rows
          /\ [rows[t] EXCEPT !.attempts = MaxVerifyAttempts].event = rows[t].event
          /\ [rows[t] EXCEPT !.attempts = MaxVerifyAttempts].verified = rows[t].verified
      BY <3>1, <3>3, RowEdits
    <3>4. rows'[t] \in Rows /\ rows'[t].event = rows[t].event /\ rows'[t].verified = rows[t].verified
      BY <3>2, <3>5
    <3>q. QED BY <3>1, <3>4 DEF Rows
  <2>2. CASE ~Future(t)
    BY <1>1, <2>2, VerifierFacts
  <2>q. QED BY <2>1, <2>2
<1>7. rows' \in [Txs -> Rows \cup {NoRow}]
  BY <1>1, <1>6
<1>8. VerifiedIsConfirmed' /\ AttestedIsTheEvent'
  BY <1>1, <1>6 DEF PushInv, VerifiedIsConfirmed, AttestedIsTheEvent, Confirmed
<1>q. QED BY <1>1, <1>3, <1>4, <1>5, <1>6, <1>7, <1>8, InsideTheVerifier

\* What a pass matches was mined at or below a row it looked at, with its
\* confirmations below the head as it was read; the head has not fallen
\* since, whatever happened while the query was under way.
LEMMA OnMatchSettlements ==
  ASSUME PushInv, matchSettlements
  PROVE  PushInv'
<1> DEFINE found == {r \in verifier.scanned : r.tx \in Fetched}
           good == {r \in found : RelayersAgree(r, EventOf[r.tx])}
<1>1. /\ verifier' = [verifier EXCEPT !.pc = "mark",
                          !.matched = {r.tx : r \in good},
                          !.unmatched = {r.tx : r \in verifier.scanned \ good},
                          !.mismatched = {r.tx : r \in found \ good}]
      /\ UNCHANGED <<head, mined, relayerVars, rows, order>>
  BY DEF matchSettlements, tableVars
<1>2. good \subseteq verifier.scanned /\ found \subseteq verifier.scanned /\ \A r \in good : r.tx \in Fetched
  OBVIOUS
<1> HIDE DEF found, good
<1>3. \A r \in verifier.scanned : r.tx \in Txs /\ r.block \in Nat /\ r.block <= MaxBlock
  BY VerifierFacts DEF PushInv, VerifierIsBehind, Verdicts, Blocks
<1>4. /\ {r.tx : r \in good} \subseteq Txs /\ {r.tx : r \in verifier.scanned \ good} \subseteq Txs
      /\ {r.tx : r \in found \ good} \subseteq Txs
  BY <1>2, <1>3
<1>5. /\ verifier' \in Passes /\ verifier'.latest = verifier.latest
      /\ verifier'.scanned = verifier.scanned /\ verifier'.matched = {r.tx : r \in good}
  BY <1>1, <1>4, VerifierFacts DEF Passes
<1>6. VerifierIsBehind'
  BY <1>1, <1>5 DEF PushInv, VerifierIsBehind, MaxBlock
<1>7. ASSUME NEW t \in Fetched
      PROVE  Confirmed(t)
  <2>1. t \in Txs /\ mined[t] > 0 /\ mined[t] \in Nat
    BY VerifierFacts DEF Fetched
  <2>2. PICK r \in verifier.scanned : mined[t] <= r.block
    BY DEF Fetched
  <2>3. MaxBlock \in Nat /\ mined[t] <= MaxBlock
    BY <1>3, <2>1, <2>2, VerifierFacts DEF MaxBlock
  <2>4. MaxBlock + BlockSafetyMargin <= verifier.latest
    BY <2>1, <2>3, VerifierFacts DEF MaxBlock
  <2>5. mined[t] + BlockSafetyMargin <= head
    BY <2>1, <2>3, <2>4, VerifierFacts
  <2>q. QED BY <2>1, <2>5 DEF Confirmed
<1>8. MatchedIsConfirmed'
  BY <1>1, <1>2, <1>5, <1>7 DEF MatchedIsConfirmed, Confirmed
<1>9. VerifiedIsConfirmed' /\ AttestedIsTheEvent' /\ \A t \in Txs : rows'[t].stored = rows[t].stored
  BY <1>1 DEF PushInv, VerifiedIsConfirmed, AttestedIsTheEvent, Confirmed
<1>10. rows' \in [Txs -> Rows \cup {NoRow}]
  BY <1>1, VerifierFacts
<1>q. QED BY <1>1, <1>5, <1>6, <1>8, <1>9, <1>10, InsideTheVerifier

\* The three writes of a pass touch one column of rows that are there.
LEMMA Written ==
  ASSUME NEW row \in Rows
  PROVE  /\ [row EXCEPT !.verified = TRUE] \in Rows /\ [row EXCEPT !.verified = TRUE].stored = row.stored
         /\ [row EXCEPT !.verified = TRUE].event = row.event
  BY DEF Rows

\* markSettlementsVerified marks what the pass matched, which is confirmed.
LEMMA OnMarkSettlementsVerified ==
  ASSUME PushInv, markSettlementsVerified
  PROVE  PushInv'
<1>1. /\ rows' = [t \in Txs |-> IF t \in Unlocked(verifier.matched)
                                THEN [rows[t] EXCEPT !.verified = TRUE] ELSE rows[t]]
      /\ verifier' = [verifier EXCEPT !.pc = "fail"]
      /\ UNCHANGED <<head, mined, relayerVars, order>>
  BY DEF markSettlementsVerified
<1>2. /\ verifier' \in Passes /\ verifier'.latest = verifier.latest
      /\ verifier'.scanned = verifier.scanned /\ verifier'.matched = verifier.matched
  BY <1>1, VerifierFacts DEF Passes
<1>3. VerifierIsBehind' /\ MatchedIsConfirmed'
  BY <1>1, <1>2 DEF PushInv, VerifierIsBehind, MatchedIsConfirmed, MaxBlock, Confirmed
<1>4. ASSUME NEW t \in Txs
      PROVE  /\ rows'[t] \in Rows \cup {NoRow} /\ rows'[t].stored = rows[t].stored
             /\ rows[t].stored => rows'[t].event = rows[t].event
             /\ rows'[t].stored /\ rows'[t].verified => Confirmed(t)
  <2>1. CASE t \in Unlocked(verifier.matched)
    <3>1. t \in verifier.matched /\ rows[t].stored /\ rows[t] \in Rows
      BY <2>1, VerifierFacts, StoredIsRow DEF Unlocked
    <3>2. rows'[t] = [rows[t] EXCEPT !.verified = TRUE]
      BY <1>1, <2>1
    <3>3. Confirmed(t)
      BY <3>1 DEF PushInv, MatchedIsConfirmed
    <3>q. QED BY <3>1, <3>2, <3>3, Written
  <2>2. CASE t \notin Unlocked(verifier.matched)
    <3>1. rows'[t] = rows[t]
      BY <1>1, <2>2
    <3>q. QED BY <3>1, VerifierFacts DEF PushInv, VerifiedIsConfirmed
  <2>q. QED BY <2>1, <2>2
<1>5. rows' \in [Txs -> Rows \cup {NoRow}]
  BY <1>1, <1>4
<1>6. VerifiedIsConfirmed' /\ AttestedIsTheEvent'
  BY <1>1, <1>4 DEF PushInv, VerifiedIsConfirmed, AttestedIsTheEvent, Confirmed
<1>q. QED BY <1>1, <1>2, <1>3, <1>4, <1>5, <1>6, InsideTheVerifier

\* recordVerifyFailures counts and marks nothing.
LEMMA OnRecordVerifyFailures ==
  ASSUME PushInv, recordVerifyFailures
  PROVE  PushInv'
<1>1. /\ rows' = [t \in Txs |-> IF t \in Failed /\ rows[t].attempts < MaxVerifyAttempts
                                THEN [rows[t] EXCEPT !.attempts = @ + 1] ELSE rows[t]]
      /\ verifier' = [verifier EXCEPT !.pc = "attest"]
      /\ UNCHANGED <<head, mined, relayerVars, order>>
  BY DEF recordVerifyFailures
<1>2. /\ verifier' \in Passes /\ verifier'.latest = verifier.latest
      /\ verifier'.scanned = verifier.scanned /\ verifier'.matched = verifier.matched
  BY <1>1, VerifierFacts DEF Passes
<1>3. VerifierIsBehind' /\ MatchedIsConfirmed'
  BY <1>1, <1>2 DEF PushInv, VerifierIsBehind, MatchedIsConfirmed, MaxBlock, Confirmed
<1>4. ASSUME NEW t \in Txs
      PROVE  /\ rows'[t] \in Rows \cup {NoRow} /\ rows'[t].stored = rows[t].stored
             /\ rows[t].stored => rows'[t].event = rows[t].event /\ rows'[t].verified = rows[t].verified
  <2>1. CASE t \in Failed /\ rows[t].attempts < MaxVerifyAttempts
    <3>1. rows[t].stored /\ rows[t] \in Rows
      BY <2>1, VerifierFacts, StoredIsRow DEF Failed, Unlocked
    <3>2. rows'[t] = [rows[t] EXCEPT !.attempts = rows[t].attempts + 1]
      BY <1>1, <2>1
    <3>3. rows[t].attempts + 1 \in 0 .. MaxVerifyAttempts
      BY <2>1, <3>1, VerifierFacts DEF Rows
    <3>4. /\ [rows[t] EXCEPT !.attempts = rows[t].attempts + 1] \in Rows
          /\ [rows[t] EXCEPT !.attempts = rows[t].attempts + 1].event = rows[t].event
          /\ [rows[t] EXCEPT !.attempts = rows[t].attempts + 1].verified = rows[t].verified
      BY <3>1, <3>3, RowEdits
    <3>5. rows'[t] \in Rows /\ rows'[t].event = rows[t].event /\ rows'[t].verified = rows[t].verified
      BY <3>2, <3>4
    <3>q. QED BY <3>1, <3>5 DEF Rows
  <2>2. CASE ~(t \in Failed /\ rows[t].attempts < MaxVerifyAttempts)
    <3>1. rows'[t] = rows[t]
      BY <1>1, <2>2
    <3>q. QED BY <3>1, VerifierFacts
  <2>q. QED BY <2>1, <2>2
<1>5. rows' \in [Txs -> Rows \cup {NoRow}]
  BY <1>1, <1>4
<1>6. VerifiedIsConfirmed' /\ AttestedIsTheEvent'
  BY <1>1, <1>4 DEF PushInv, VerifiedIsConfirmed, AttestedIsTheEvent, Confirmed
<1>q. QED BY <1>1, <1>2, <1>3, <1>4, <1>5, <1>6, InsideTheVerifier

\* recordEventAttribution writes what the event says.
LEMMA OnRecordEventAttribution ==
  ASSUME PushInv, recordEventAttribution
  PROVE  PushInv'
<1>1. /\ rows' = [t \in Txs |-> IF t \in Unlocked(verifier.mismatched)
                                THEN [rows[t] EXCEPT !.event = EventOf[t]] ELSE rows[t]]
      /\ verifier' = VerifierIdle
      /\ UNCHANGED <<head, mined, relayerVars, order>>
  BY DEF recordEventAttribution
<1>2. /\ verifier' \in Passes /\ verifier'.latest = 0 /\ verifier'.scanned = {} /\ verifier'.matched = {}
  BY <1>1, VerifierFacts DEF VerifierIdle
<1>3. VerifierIsBehind' /\ MatchedIsConfirmed'
  BY <1>1, <1>2, VerifierFacts DEF VerifierIsBehind, MatchedIsConfirmed
<1>4. ASSUME NEW t \in Txs
      PROVE  /\ rows'[t] \in Rows \cup {NoRow} /\ rows'[t].stored = rows[t].stored
             /\ rows[t].stored => /\ rows'[t].event \in {rows[t].event, EventOf[t]}
                                  /\ rows'[t].verified = rows[t].verified
  <2>1. CASE t \in Unlocked(verifier.mismatched)
    <3>1. rows[t].stored /\ rows[t] \in Rows
      BY <2>1, VerifierFacts, StoredIsRow DEF Unlocked
    <3>2. rows'[t] = [rows[t] EXCEPT !.event = EventOf[t]] /\ EventOf[t] \in Attributions
      BY <1>1, <2>1, AddressesAreThere
    <3>3. /\ [rows[t] EXCEPT !.event = EventOf[t]] \in Rows
          /\ [rows[t] EXCEPT !.event = EventOf[t]].event = EventOf[t]
          /\ [rows[t] EXCEPT !.event = EventOf[t]].verified = rows[t].verified
      BY <3>1, <3>2, RowEdits
    <3>4. rows'[t] \in Rows /\ rows'[t].event = EventOf[t] /\ rows'[t].verified = rows[t].verified
      BY <3>2, <3>3
    <3>q. QED BY <3>1, <3>4 DEF Rows
  <2>2. CASE t \notin Unlocked(verifier.mismatched)
    <3>1. rows'[t] = rows[t]
      BY <1>1, <2>2
    <3>q. QED BY <3>1, VerifierFacts
  <2>q. QED BY <2>1, <2>2
<1>5. rows' \in [Txs -> Rows \cup {NoRow}]
  BY <1>1, <1>4
<1>6. VerifiedIsConfirmed' /\ AttestedIsTheEvent'
  BY <1>1, <1>4 DEF PushInv, VerifiedIsConfirmed, AttestedIsTheEvent, Confirmed
<1>q. QED BY <1>1, <1>2, <1>3, <1>4, <1>5, <1>6, InsideTheVerifier

-----------------------------------------------------------------------------
(* The invariant holds and is kept. *)

\* At the start nothing is stored, sent or looked at.
LEMMA PushInvStarts == PushInit => PushInv
<1> SUFFICES ASSUME PushInit
             PROVE  PushInv
  OBVIOUS
<1>1. /\ MaxHead \in Nat /\ MaxHead >= 1 /\ MAX_PUSH_ATTEMPTS \in Nat /\ Settlers \subseteq Txs
  BY SettlementPushAssumption
<1>2. /\ head = 1 /\ mined = [t \in Txs |-> 0] /\ awaited = Settlers /\ outbox = [t \in Txs |-> NoPush]
      /\ batch = {} /\ requests = {} /\ rows = [t \in Txs |-> NoRow] /\ order = <<>>
      /\ verifier = VerifierIdle
  BY DEF PushInit
<1>3. NoPush \in Pushes /\ NoPush.state = "none"
  BY <1>1 DEF NoPush, Pushes
<1>4. VerifierIdle \in Passes /\ verifier.latest = 0 /\ verifier.scanned = {} /\ verifier.matched = {}
  BY <1>1, <1>2 DEF VerifierIdle, Passes
<1>5. \A t \in Txs : ~rows[t].stored
  BY <1>2 DEF NoRow
<1>6. order \in Seq(Txs) /\ IsInjective(order) /\ Range(order) = {}
  BY <1>2 DEF IsInjective, Range
<1>7. PushTyped
  BY <1>1, <1>2, <1>3, <1>4, <1>5, <1>6 DEF PushTyped
<1>8. VerifierIsBehind /\ MatchedIsConfirmed
  BY <1>2, <1>4 DEF VerifierIsBehind, MatchedIsConfirmed
<1>9. VerifiedIsConfirmed /\ AttestedIsTheEvent
  BY <1>5 DEF VerifiedIsConfirmed, AttestedIsTheEvent
<1>10. AnsweredIsKept /\ PushedIsKept
  BY <1>2, <1>3 DEF AnsweredIsKept, PushedIsKept
<1>q. QED BY <1>7, <1>8, <1>9, <1>10 DEF PushInv

\* A step that changes nothing keeps the invariant.
LEMMA OnStutter ==
  ASSUME PushInv, UNCHANGED pushAll
  PROVE  PushInv'
<1>1. /\ UNCHANGED <<head, mined, rows, order, verifier, awaited, outbox, batch, requests>>
  BY DEF pushAll, relayerVars, tableVars
<1>2. /\ awaited \subseteq Settlers /\ outbox \in [Txs -> Pushes] /\ batch \subseteq Txs
      /\ requests \subseteq Requests
  BY DEF PushInv, PushTyped
<1>q. QED BY <1>1, <1>2, OutsideTheIndex

\* Every step of the chain, the relayer, the API server and the verifier keeps
\* the invariant.
LEMMA PushInvSteps == PushInv /\ [PushNext]_pushAll => PushInv'
<1> SUFFICES ASSUME PushInv, [PushNext]_pushAll
             PROVE  PushInv'
  OBVIOUS
<1>1. CASE NewBlock \/ Reorg
  BY <1>1, OnNewBlock, OnReorg
<1>2. CASE Relayer
  BY <1>2, OnReceipt, OnReceiptLost, OnTick, OnWorkerPush, OnPrunePushed, OnAcknowledged, OnPushFailed
     DEF Relayer
<1>3. CASE Server
  BY <1>3, OnHandleRequest, OnOtherReport, OnPruneSettlements DEF Server
<1>4. CASE Verifier
  BY <1>4, OnReadHead, OnStartPass, OnMatchSettlements, OnPassFailed, OnMarkSettlementsVerified,
     OnRecordVerifyFailures, OnRecordEventAttribution DEF Verifier
<1>5. CASE UNCHANGED pushAll
  BY <1>5, OnStutter
<1>q. QED BY <1>1, <1>2, <1>3, <1>4, <1>5 DEF PushNext

\* The invariant gives what the run checks.
LEMMA PushInvIsSound == PushInv => IndexIsSound
<1> SUFFICES ASSUME PushInv
             PROVE  IndexIsSound
  OBVIOUS
<1>1. verifier.pc \in {"idle", "head", "fetch", "mark", "fail", "attest"}
  BY DEF PushInv, PushTyped, Passes
<1>2. PushTypeOK
  BY <1>1 DEF PushInv, PushTyped, PushTypeOK, Pushes, Requests
<1>3. VerifiedIsOnChain
  BY DEF PushInv, VerifiedIsConfirmed, VerifiedIsOnChain, Confirmed
<1>4. PushedMeansStored
  BY DEF PushInv, PushedIsKept, PushedMeansStored, Kept
<1>q. QED BY <1>2, <1>3, <1>4 DEF IndexIsSound

\* A row marked verified is on the chain and stays there, whenever the chain
\* is reorganised between the awaits of a pass; what the outbox counts as
\* delivered is in the index, unless its cap gave the place away (verifier.ts,
\* settlement-push-worker.ts, OrderbookDB.insertSettlement).
THEOREM IndexStaysSound == PushSpec => []IndexIsSound
<1>1. PushInit => PushInv
  BY PushInvStarts
<1>2. PushInv /\ [PushNext]_pushAll => PushInv'
  BY PushInvSteps
<1>3. PushInv => IndexIsSound
  BY PushInvIsSound
<1>q. QED BY <1>1, <1>2, <1>3, PTL DEF PushSpec

-----------------------------------------------------------------------------
(* What a pass recorded of an event is not undone. *)

\* What a step may do to an attested row.
Sticks(t) ==
    rows[t].stored /\ rows[t].event # Unattested /\ rows'[t].stored =>
        /\ rows'[t].event = rows[t].event
        /\ \/ SameAttribution(rows'[t], rows[t])
           \/ RelayersAgree(rows'[t], rows[t].event)

\* A report replaces an attested row only if it agrees with the event, and
\* inherits the attestation.
LEMMA InsertedSticks ==
  ASSUME PushInv, NEW p, Report(p), insertSettlement(p), NEW t \in Txs
  PROVE  Sticks(t)
<1> SUFFICES ASSUME rows[t].stored, rows[t].event # Unattested
             PROVE  /\ rows'[t].event = rows[t].event
                    /\ \/ SameAttribution(rows'[t], rows[t])
                       \/ RelayersAgree(rows'[t], rows[t].event)
  BY DEF Sticks
<1>1. rows \in [Txs -> Rows \cup {NoRow}] /\ p.tx \in Txs
  BY VerifierFacts DEF Report
<1>2. CASE rows'[t] = rows[t]
  BY <1>2 DEF SameAttribution
<1>3. CASE rows'[t] # rows[t]
  <2>1. ~(rows[p.tx].stored /\ ~Evicts(rows[p.tx], p))
    BY <1>3 DEF insertSettlement, tableVars
  <2>2. rows' = [rows EXCEPT ![p.tx] = NewRow(p)]
    BY <1>1, <2>1 DEF insertSettlement, NewRow
  <2>3. t = p.tx /\ rows'[t] = NewRow(p)
    BY <1>1, <1>3, <2>2
  <2>4. Agrees(p, rows[t].event)
    BY <2>1, <2>3 DEF Evicts
  <2>5. rows[t].event = EventOf[t] /\ EventOf[t].maker # None
    BY SettlementPushAssumption DEF PushInv, AttestedIsTheEvent
  <2>6. p.maker = rows[t].event.maker /\ p.taker \in {None, rows[t].event.taker}
    BY <2>4, <2>5 DEF Agrees
  <2>7. /\ NewRow(p).event = rows[t].event /\ NewRow(p).maker = p.maker /\ NewRow(p).taker = p.taker
    BY <2>3 DEF NewRow, Inherited
  <2>q. QED BY <2>3, <2>6, <2>7 DEF RelayersAgree
<1>q. QED BY <1>2, <1>3

\* A write of the verifier leaves the relayers of a row, and an attestation
\* that is there.
LEMMA WrittenSticks ==
  ASSUME PushInv, StartPass \/ markSettlementsVerified \/ recordVerifyFailures \/ recordEventAttribution,
         NEW t \in Txs
  PROVE  Sticks(t)
<1> SUFFICES ASSUME rows[t].stored, rows[t].event # Unattested
             PROVE  rows'[t].event = rows[t].event /\ SameAttribution(rows'[t], rows[t])
  BY DEF Sticks
<1>1. rows[t] \in Rows /\ rows[t].event = EventOf[t]
  BY VerifierFacts, StoredIsRow DEF PushInv, AttestedIsTheEvent
<1>2. \/ rows'[t] = rows[t]
      \/ rows'[t] = [rows[t] EXCEPT !.verified = TRUE]
      \/ rows'[t] = [rows[t] EXCEPT !.attempts = MaxVerifyAttempts]
      \/ rows'[t] = [rows[t] EXCEPT !.attempts = rows[t].attempts + 1]
      \/ rows'[t] = [rows[t] EXCEPT !.event = EventOf[t]]
  BY DEF StartPass, markSettlementsVerified, recordVerifyFailures, recordEventAttribution
<1>q. QED BY <1>1, <1>2 DEF Rows, SameAttribution

\* No step takes an attestation back.
LEMMA StepSticks ==
    PushInv /\ [PushNext]_pushAll =>
      [\A t \in Txs :
          rows[t].stored /\ rows[t].event # Unattested /\ rows'[t].stored =>
              /\ rows'[t].event = rows[t].event
              /\ \/ SameAttribution(rows'[t], rows[t])
                 \/ RelayersAgree(rows'[t], rows[t].event)]_pushAll
<1> SUFFICES ASSUME PushInv, PushNext, NEW t \in Txs
             PROVE  Sticks(t)
  BY DEF Sticks
<1>1. CASE rows' = rows
  BY <1>1 DEF Sticks, SameAttribution
<1>2. ASSUME NEW r \in requests, HandleRequest(r)
      PROVE  Sticks(t)
  <2>1. /\ head \in Nat /\ r \in Requests /\ MaxHead \in Nat /\ FutureBlockBuffer \in Nat
    BY SettlementPushAssumption DEF PushInv, PushTyped
  <2>2. r.tx \in Txs /\ r.block \in 0 .. MaxHead
    BY <2>1 DEF Requests
  <2>3. Report(OwnReport(r))
    BY <2>1, <2>2, AddressesAreThere DEF Report, OwnReport, Blocks
  <2>q. QED BY <1>2, <2>3, InsertedSticks DEF HandleRequest
<1>3. ASSUME NEW p \in Reports, OtherReport(p)
      PROVE  Sticks(t)
  <2>1. Report(p)
    BY SettlementPushAssumption, AddressesAreThere DEF Report, Blocks
  <2>q. QED BY <1>3, <2>1, InsertedSticks DEF OtherReport
<1>4. CASE pruneSettlements
  <2>1. rows' = [rows EXCEPT ![Head(order)] = NoRow]
    BY <1>4 DEF pruneSettlements
  <2>2. rows'[t] = NoRow \/ rows'[t] = rows[t]
    BY <2>1, VerifierFacts
  <2>q. QED BY <2>2 DEF Sticks, NoRow, SameAttribution
<1>5. CASE StartPass \/ markSettlementsVerified \/ recordVerifyFailures \/ recordEventAttribution
  BY <1>5, WrittenSticks
<1>6. CASE NewBlock \/ Reorg \/ Relayer
  <2>1. UNCHANGED rows
    BY <1>6 DEF NewBlock, Reorg, Relayer, Receipt, ReceiptLost, WorkerPush, prunePushed, tick,
       Acknowledged, PushFailed, tableVars
  <2>q. QED BY <1>1, <2>1
<1>7. CASE ReadHead \/ matchSettlements \/ PassFailed
  <2>1. UNCHANGED rows
    BY <1>7 DEF ReadHead, matchSettlements, PassFailed, tableVars
  <2>q. QED BY <1>1, <2>1
<1>q. QED BY <1>2, <1>3, <1>4, <1>5, <1>6, <1>7 DEF PushNext, Server, Verifier

\* Once a pass has recorded what the event of a settlement says, the row keeps
\* that record and gives way only to a report that agrees with it, whoever
\* reports in whatever order (clause (c) of stmtEvictSquattedSettlement).
THEOREM AttestationStays == PushSpec => AttestationSticks
<1>1. PushInit => PushInv
  BY PushInvStarts
<1>2. PushInv /\ [PushNext]_pushAll => PushInv'
  BY PushInvSteps
<1>q. QED BY <1>1, <1>2, StepSticks, PTL DEF PushSpec, AttestationSticks
=============================================================================
