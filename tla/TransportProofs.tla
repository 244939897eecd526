--------------------------- MODULE TransportProofs ---------------------------
(***************************************************************************)
(* Credits, for every ledger and every capacity, and the end of a link's       *)
(* session, for every workload.                                              *)
(*                                                                         *)
(* CreditManager's grants: a grant is taken off rx_pending_return, which is  *)
(* unsigned: one above it would wrap and hand out credits that do not exist;  *)
(* a grant of nothing while something is pending would leave the peer        *)
(* without credits for ever.                                                 *)
(*                                                                         *)
(* CreditLoop: the credits of one plane and kind are conserved for every      *)
(* capacity the counters can hold.  Conserved is inductive with TypeOK alone: *)
(* because the sum of all places is Capacity and Capacity is at most          *)
(* CounterMax, neither of the two saturating additions of CreditManager ever  *)
(* saturates.                                                               *)
(*                                                                         *)
(* LinkSession: a run that ends early shows Failed (SessionEndsHonestly).      *)
(* StatusInv says why: a watchdog that fired has woken the status thread for   *)
(* the delta cycle of its own second step at the latest, so stop, which takes  *)
(* effect at the end of a delta cycle, never overtakes the report.             *)
(***************************************************************************)
EXTENDS CreditManager, CreditLoop, LinkSession, TLAPS

-----------------------------------------------------------------------------
(* CreditManager                                                             *)

\* rx_pending_return of a ledger holds a number for every plane and kind.
Ledger(c) ==
    c.pend \in [RPs -> [Kinds -> Nat]] /\ c = [tx |-> c.tx, cap |-> c.cap, pend |-> c.pend,
                                              next_header_rp |-> c.next_header_rp]

\* encode_credit_amount finds, for every pending amount, the largest amount its field can name.
LEMMA EncodeChosen ==
    ASSUME NEW amount \in Nat, NEW kind
    PROVE  /\ EncodeCreditAmount(amount, kind) \in Encodable(kind)
           /\ EncodeCreditAmount(amount, kind) <= amount
           /\ \A w \in Encodable(kind) : w <= amount => w <= EncodeCreditAmount(amount, kind)
<1> DEFINE Best(v) == /\ v \in Encodable(kind) /\ v <= amount
                      /\ \A w \in Encodable(kind) : w <= amount => w <= v
<1>1. \E v : Best(v)
  <2>1. CASE kind = "WriteResp"
    <3>1. Encodable(kind) = {0, 1, 4, 8}
      BY <2>1 DEF Encodable
    <3> QED
      BY <3>1
  <2>2. CASE kind # "WriteResp"
    <3>1. Encodable(kind) = {0, 1, 4, 8, 16, 32, 64, 128}
      BY <2>2 DEF Encodable
    <3> QED
      BY <3>1
  <2> QED
    BY <2>1, <2>2
<1> QED
  BY <1>1 DEF EncodeCreditAmount

\* encode_credit_amount never grants more than is pending, and grants something whenever
\* anything is pending.
THEOREM GrantWithinPending ==
    ASSUME NEW amount \in Nat, NEW kind
    PROVE  /\ EncodeCreditAmount(amount, kind) \in 0..amount
           /\ amount > 0 => EncodeCreditAmount(amount, kind) > 0
<1>1. Encodable(kind) \subseteq Nat /\ 1 \in Encodable(kind)
  BY DEF Encodable
<1> QED
  BY <1>1, EncodeChosen

\* take_encoded moves credits from pending to the grant, on any choice of planes, and loses none:
\* this is the granting half of CreditLoop's ReceiverCycle.
THEOREM GrantsConserve ==
    ASSUME NEW c, Ledger(c), NEW planes, NEW rp \in RPs, NEW k \in Kinds
    PROVE  /\ GrantsFor(c, planes)[rp][k] \in 0..c.pend[rp][k]
           /\ Granted(c, GrantsFor(c, planes)).pend[rp][k] + GrantsFor(c, planes)[rp][k]
                = c.pend[rp][k]
           /\ Granted(c, GrantsFor(c, planes)).tx = c.tx
<1> DEFINE g == GrantsFor(c, planes)
<1>1. c.pend[rp][k] \in Nat
  BY DEF Ledger
<1>2. g[rp][k] = IF rp \in planes THEN EncodeCreditAmount(c.pend[rp][k], k) ELSE 0
  BY DEF GrantsFor
<1>3. g[rp][k] \in 0..c.pend[rp][k]
  BY <1>1, <1>2, GrantWithinPending
<1>4. Granted(c, g).pend[rp][k] = c.pend[rp][k] - g[rp][k]
  BY DEF Granted, Ledger
<1>5. Granted(c, g).tx = c.tx
  BY DEF Granted, Ledger
<1> HIDE DEF g
<1>6. Granted(c, g).pend[rp][k] + g[rp][k] = c.pend[rp][k]
  BY <1>1, <1>3, <1>4
<1> QED
  BY <1>3, <1>5, <1>6 DEF g

\* A new ledger satisfies Ledger, and granting and sending keep it one: rx_pending_return never
\* wraps below zero.
THEOREM LedgerKept ==
    ASSUME NEW c, Ledger(c), NEW planes
    PROVE  /\ Ledger(Granted(c, GrantsFor(c, planes)))
           /\ \A rp \in RPs, k \in Kinds, n \in Nat : Ledger(Consume(c, rp, k, n))
           /\ \A capacity \in [RPs -> [Kinds -> Nat]] : Ledger(NewCredits(capacity))
<1> DEFINE g == GrantsFor(c, planes)
<1>1. \A rp \in RPs, k \in Kinds : g[rp][k] \in 0..c.pend[rp][k] /\ c.pend[rp][k] \in Nat
  BY GrantsConserve DEF Ledger
<1>2. Granted(c, g) = [tx |-> c.tx, cap |-> c.cap, next_header_rp |-> c.next_header_rp,
                       pend |-> [rp \in RPs |-> [k \in Kinds |-> c.pend[rp][k] - g[rp][k]]]]
  BY DEF Granted, Ledger
<1> HIDE DEF g
<1>3. Ledger(Granted(c, g))
  BY <1>1, <1>2 DEF Ledger
<1>4. \A rp \in RPs, k \in Kinds, n \in Nat : Ledger(Consume(c, rp, k, n))
  BY DEF Consume, Ledger
<1>5. \A capacity \in [RPs -> [Kinds -> Nat]] : Ledger(NewCredits(capacity))
  BY DEF NewCredits, Ledger
<1> QED
  BY <1>3, <1>4, <1>5 DEF g

-----------------------------------------------------------------------------
(* CreditLoop                                                                *)

\* The saturating additions of add_tx_credit and return_rx_credit are plain additions in every
\* state of LoopInv, so no granted or returned credit is cut off.
LEMMA SaturationInert ==
    ASSUME LoopInv
    PROVE  /\ \A a \in 0..granted : AtMost(CounterMax, tx + a) = tx + a
           /\ \A n \in 0..held : \A r \in 0..(freed + n) : AtMost(Capacity, pend + r) = pend + r
  BY LoopAssumption DEF LoopInv, TypeOK, Conserved, AtMost

\* The initial state, with all of the buffer still to be granted, satisfies the invariant.
LEMMA LoopInitial == Init => LoopInv
  BY LoopAssumption DEF Init, LoopInv, TypeOK, Conserved

\* A cycle of either end moves granules from place to place and leaves their sum alone.
LEMMA LoopStep == LoopInv /\ [Next]_vars => LoopInv'
<1> SUFFICES ASSUME LoopInv, [Next]_vars
             PROVE  LoopInv'
  OBVIOUS
<1> USE LoopAssumption
<1>1. ASSUME NEW a \in 0..granted, NEW u \in 0..(tx + a), SenderCycle(a, u)
      PROVE  LoopInv'
  <2>1. AtMost(CounterMax, tx + a) = tx + a
    BY SaturationInert
  <2>2. tx' = tx + a - u /\ granted' = granted - a /\ held' = held + u
    BY <1>1, <2>1 DEF SenderCycle, LoopInv, TypeOK, AtMost
  <2>3. freed' = freed /\ pend' = pend
    BY <1>1 DEF SenderCycle
  <2> QED
    BY <2>2, <2>3 DEF LoopInv, TypeOK, Conserved
<1>2. ASSUME NEW n \in 0..held, NEW r \in 0..(freed + n), NEW g \in 0..(pend + r),
             ReceiverCycle(n, r, g)
      PROVE  LoopInv'
  <2>1. AtMost(Capacity, pend + r) = pend + r
    BY SaturationInert
  <2>2. held' = held - n /\ freed' = freed + n - r /\ pend' = pend + r - g
    BY <1>2, <2>1 DEF ReceiverCycle, LoopInv, TypeOK, AtMost
  <2>3. granted' = granted + g /\ tx' = tx
    BY <1>2 DEF ReceiverCycle
  <2> QED
    BY <2>2, <2>3 DEF LoopInv, TypeOK, Conserved
<1>3. CASE UNCHANGED vars
  BY <1>3 DEF vars, LoopInv, TypeOK, Conserved
<1> QED
  BY <1>1, <1>2, <1>3 DEF Next

\* In every reachable state each granule of the receiver's buffer is in exactly one place.
THEOREM CreditsAreConserved == Spec => []LoopInv
  BY LoopInitial, LoopStep, PTL DEF Spec

\* The sender never has more in the receiver's buffer or on its way there than fits, for any
\* delay of grants, messages and returns.
THEOREM BufferNeverOverrun == Spec => []NoOverrun
<1>1. LoopInv => NoOverrun
  BY LoopAssumption DEF LoopInv, TypeOK, Conserved, NoOverrun
<1> QED
  BY <1>1, CreditsAreConserved, PTL
-----------------------------------------------------------------------------
(* The session around a link                                                 *)

\* q holds the numbers from first on.
Counting(q, first) == q \in Seq(Nat) /\ \A i \in 1..Len(q) : q[i] = first + i - 1

\* Items 0..sent-1 are, in their order, with the sink, in rev, in pending and in fwd.
TrafficInv ==
    /\ sent \in 0..Items /\ next_request \in Nat /\ next_response \in Nat /\ errors = 0
    /\ Counting(fwd, next_request) /\ next_request + Len(fwd) = sent
    /\ Counting(rev, next_response)
    /\ Counting(pending, next_response + Len(rev))
    /\ next_response + Len(rev) + Len(pending) = next_request

\* A process runs only when what it waited for is there, and nobody else takes it away.
ReadyInv ==
    /\ "source" \in ready => sent < Items
    /\ "ingress" \in ready => fwd # <<>>
    /\ "egress" \in ready => pending # <<>>
    /\ "sink" \in ready => rev # <<>> /\ next_response < Items
    /\ notified \subseteq {"status", "watchdog"}

\* The status thread has reported the failure, or is in the set of processes to do so.
Reports(set) == status = "done" \/ "status" \in set

\* A watchdog that fired has woken the status thread for no later delta cycle than its own second
\* step, and stop is called by that step or by the last response.
StatusInv ==
    /\ status \in {"training", "active", "done"} /\ watchdog \in {"armed", "stopping", "done"}
    /\ fired \in BOOLEAN /\ (failed <=> fired)
    /\ (fired <=> watchdog # "armed")
    /\ status = "done" => written = "Failed"
    /\ written = "Failed" => fired
    /\ link_state = "Failed" => fired
    /\ watchdog = "stopping" => IF "watchdog" \in ready THEN Reports(ready)
                                ELSE "watchdog" \in notified /\ Reports(notified)
    /\ watchdog = "done" => Reports(ready)
    /\ stop => next_response >= Items \/ watchdog = "done"
    /\ halted => stop /\ ready = {} /\ link_state = written

SessionInv == TrafficInv /\ ReadyInv /\ StatusInv

\* The next number goes to the end, and the first one comes off the front.
LEMMA CountingAppended ==
    ASSUME NEW first \in Nat, NEW q, Counting(q, first)
    PROVE  /\ Counting(Append(q, first + Len(q)), first)
           /\ Len(Append(q, first + Len(q))) = Len(q) + 1
  BY DEF Counting

LEMMA CountingRest ==
    ASSUME NEW first \in Nat, NEW q, Counting(q, first), q # <<>>, NEW rest, rest = Tail(q)
    PROVE  /\ Head(q) = first /\ Counting(rest, first + 1)
           /\ Len(rest) \in Nat /\ Len(rest) + 1 = Len(q)
  BY DEF Counting

\* Each step keeps the items in order, what a ready process waited for, and the report.
LEMMA TrafficKept ==
    ASSUME SessionAssumption, TrafficInv, ReadyInv, [SessionNext]_sessionVars
    PROVE  TrafficInv'
<1> USE DEF TrafficInv, ReadyInv
<1>0. Len(fwd) \in Nat /\ Len(rev) \in Nat /\ Len(pending) \in Nat /\ Items \in Nat /\ sent \in Nat
  BY DEF Counting, SessionAssumption
<1>1. CASE FdiSource
  <2>1. fwd' = Append(fwd, next_request + Len(fwd)) /\ sent' = sent + 1 /\ sent < Items
    BY <1>1 DEF FdiSource, Running
  <2>2. Counting(fwd', next_request) /\ Len(fwd') = Len(fwd) + 1
    BY <2>1, CountingAppended
  <2> QED
    BY <1>0, <1>1, <2>1, <2>2 DEF FdiSource
<1>2. CASE Ingress
  <2>1. /\ Head(fwd) = next_request /\ Counting(fwd', next_request + 1) /\ Len(fwd') \in Nat
        /\ Len(fwd') + 1 = Len(fwd)
    BY <1>2, CountingRest DEF Ingress, Running
  <2>2. next_response + Len(rev) \in Nat
    BY <1>0
  <2>3. pending' = Append(pending, (next_response + Len(rev)) + Len(pending))
    BY <1>2, <2>1, <1>0 DEF Ingress
  <2>4. Counting(pending', next_response + Len(rev)) /\ Len(pending') = Len(pending) + 1
    BY <2>2, <2>3, CountingAppended
  <2>5. next_request < Items
    BY <1>0, <2>1
  <2>6. errors' = 0 /\ next_request' = next_request + 1
    BY <1>2, <2>1, <2>5 DEF Ingress
  <2>7. UNCHANGED <<sent, rev, next_response>>
    BY <1>2 DEF Ingress
  <2> QED
    BY <1>0, <2>1, <2>4, <2>6, <2>7
<1>3. CASE Egress
  <2>0. next_response + Len(rev) \in Nat
    BY <1>0
  <2>1. /\ Head(pending) = next_response + Len(rev)
        /\ Counting(pending', next_response + Len(rev) + 1)
        /\ Len(pending') \in Nat /\ Len(pending') + 1 = Len(pending)
    BY <1>3, <2>0, CountingRest DEF Egress, Running
  <2>2. Counting(rev', next_response) /\ Len(rev') = Len(rev) + 1
    BY <1>3, <2>1, CountingAppended DEF Egress
  <2>3. UNCHANGED <<sent, fwd, next_request, next_response, errors>>
    BY <1>3 DEF Egress
  <2>4. Counting(pending', next_response' + Len(rev'))
    BY <1>0, <2>1, <2>2, <2>3
  <2> QED
    BY <1>0, <2>1, <2>2, <2>3, <2>4
<1>4. CASE FdiSink
  <2>1. /\ Head(rev) = next_response /\ Counting(rev', next_response + 1)
        /\ Len(rev') \in Nat /\ Len(rev') + 1 = Len(rev) /\ next_response < Items
    BY <1>4, CountingRest DEF FdiSink, Running
  <2>2. errors' = 0 /\ next_response' = next_response + 1
    BY <1>4, <2>1 DEF FdiSink
  <2>3. UNCHANGED <<sent, fwd, pending, next_request>>
    BY <1>4 DEF FdiSink
  <2>4. next_response' + Len(rev') = next_response + Len(rev)
    BY <1>0, <2>1, <2>2
  <2> QED
    <3>1. next_response' + Len(rev') + Len(pending') = next_request'
      BY <1>0, <2>1, <2>2, <2>3
    <3>2. Counting(rev', next_response')
      BY <2>1, <2>2
    <3> QED
      BY <1>0, <2>1, <2>2, <2>3, <2>4, <3>1, <3>2
<1>5. CASE UNCHANGED trafficVars
  BY <1>5 DEF trafficVars
<1> QED
  BY <1>1, <1>2, <1>3, <1>4, <1>5
     DEF SessionNext, WatchdogFires, WatchdogStops, StatusThread, DeltaCycle, Halted, sessionVars

LEMMA ReadyKept ==
    ASSUME SessionAssumption, TrafficInv, ReadyInv, [SessionNext]_sessionVars
    PROVE  ReadyInv'
<1> USE DEF ReadyInv
<1>0. Len(fwd) \in Nat /\ Len(rev) \in Nat /\ Len(pending) \in Nat /\ fwd \in Seq(Nat) /\ rev \in Seq(Nat)
      /\ pending \in Seq(Nat) /\ sent \in Nat /\ Items \in Nat /\ next_response \in Nat
  BY DEF TrafficInv, Counting, SessionAssumption
<1>1. CASE FdiSource
  BY <1>0, <1>1 DEF FdiSource, Running
<1>2. CASE Ingress
  <2>0. Head(fwd) \in Nat
    BY <1>0, <1>2 DEF Ingress, Running
  <2>1. pending' # <<>>
    BY <1>0, <1>2, <2>0 DEF Ingress
  <2> QED
    BY <1>2, <2>1 DEF Ingress, Running
<1>3. CASE Egress
  <2>0. Head(pending) \in Nat
    BY <1>0, <1>3 DEF Egress, Running
  <2>1. rev' # <<>>
    BY <1>0, <1>3, <2>0 DEF Egress
  <2> QED
    BY <1>3, <2>1 DEF Egress, Running
<1>4. CASE FdiSink
  BY <1>4 DEF FdiSink, Running
<1>5. CASE WatchdogFires
  BY <1>5 DEF WatchdogFires, Running, trafficVars, Fail
<1>6. CASE WatchdogStops
  BY <1>6 DEF WatchdogStops, Running, trafficVars
<1>7. CASE StatusThread
  BY <1>7 DEF StatusThread, Running, trafficVars
<1>8. CASE DeltaCycle
  BY <1>8 DEF DeltaCycle, Due, trafficVars
<1>9. CASE UNCHANGED sessionVars
  BY <1>9 DEF sessionVars, trafficVars, kernelVars
<1> QED
  BY <1>1, <1>2, <1>3, <1>4, <1>5, <1>6, <1>7, <1>8, <1>9 DEF SessionNext, Halted

LEMMA StatusKept ==
    ASSUME SessionAssumption, TrafficInv, ReadyInv, StatusInv, [SessionNext]_sessionVars
    PROVE  StatusInv'
<1> USE DEF StatusInv, Reports
<1>0. next_response \in Nat /\ Items \in Nat
  BY DEF TrafficInv, SessionAssumption
<1>1. CASE FdiSource \/ Ingress \/ Egress
  <2>1. \E p \in {"source", "ingress", "egress"} : p \in ready /\ ready' = ready \ {p}
    BY <1>1 DEF FdiSource, Ingress, Egress, Running
  <2>2. UNCHANGED <<next_response, statusVars, watchdogVars, stop, notified, halted>>
    BY <1>1 DEF FdiSource, Ingress, Egress
  <2> QED
    BY <2>1, <2>2 DEF statusVars, watchdogVars
<1>2. CASE FdiSink
  <2>1. "sink" \in ready /\ ready' = ready \ {"sink"}
    BY <1>2 DEF FdiSink, Running
  <2>2. UNCHANGED <<statusVars, watchdogVars, notified, halted>>
    BY <1>2 DEF FdiSink
  <2>3. next_response' = next_response + 1 /\ (stop' <=> (stop \/ next_response + 1 >= Items))
    BY <1>2 DEF FdiSink
  <2>4. stop' => next_response' >= Items \/ watchdog' = "done"
    BY <1>0, <2>2, <2>3 DEF watchdogVars
  <2> QED
    BY <2>1, <2>2, <2>3, <2>4 DEF statusVars, watchdogVars
<1>3. CASE WatchdogFires
  BY <1>3 DEF WatchdogFires, Running, statusVars, trafficVars, Fail
<1>4. CASE WatchdogStops
  BY <1>4 DEF WatchdogStops, Running, statusVars, trafficVars
<1>5. CASE StatusThread
  BY <1>5 DEF StatusThread, Running, watchdogVars, trafficVars
<1>6. CASE DeltaCycle
  <2>1. ready = {} /\ ~halted /\ link_state' = written
    BY <1>6 DEF DeltaCycle
  <2>2. UNCHANGED <<next_response, written, status, watchdog, fired, failed, stop>>
    BY <1>6 DEF DeltaCycle, watchdogVars, trafficVars
  <2>3. CASE stop /\ halted' = TRUE /\ UNCHANGED <<ready, notified, impaired>>
    BY <2>1, <2>2, <2>3
  <2>4. CASE ~stop /\ notified # {} /\ ready' = notified /\ notified' = {} /\ UNCHANGED <<halted, impaired>>
    BY <2>1, <2>2, <2>4
  <2>5. CASE ~stop /\ notified = {} /\ UNCHANGED <<halted, notified>>
    BY <2>1, <2>2, <2>5
  <2> QED
    BY <1>6, <2>3, <2>4, <2>5 DEF DeltaCycle
<1>7. CASE UNCHANGED sessionVars
  BY <1>7 DEF sessionVars, trafficVars, kernelVars, statusVars, watchdogVars
<1> QED
  BY <1>1, <1>2, <1>3, <1>4, <1>5, <1>6, <1>7 DEF SessionNext, Halted

\* A run cut short ends with a visible Failed and only such a run does; echoes come back once each
\* and in order, for every number of items and every depth of the FIFOs.
THEOREM SessionHonest ==
    ASSUME SessionAssumption
    PROVE  SessionSpec => []SessionEndsHonestly
<1>1. SessionInit => SessionInv
  <2> SUFFICES ASSUME SessionInit PROVE SessionInv
    OBVIOUS
  <2>1. TrafficInv
    BY DEF SessionInit, TrafficInv, Counting, SessionAssumption
  <2>2. ReadyInv /\ StatusInv
    BY DEF SessionInit, ReadyInv, StatusInv
  <2> QED
    BY <2>1, <2>2 DEF SessionInv
<1>2. SessionInv /\ [SessionNext]_sessionVars => SessionInv'
  BY TrafficKept, ReadyKept, StatusKept DEF SessionInv
<1>3. SessionInv => SessionEndsHonestly
  <2> SUFFICES ASSUME SessionInv PROVE SessionEndsHonestly
    OBVIOUS
  <2>1. EchoesMatch
    BY DEF SessionInv, TrafficInv, EchoesMatch
  <2>2. FailedObservable
    BY DEF SessionInv, TrafficInv, StatusInv, FailedObservable, Reports, SessionAssumption
  <2> QED
    BY <2>1, <2>2 DEF SessionEndsHonestly
<1>4. QED
  BY <1>1, <1>2, <1>3, PTL DEF SessionSpec
=============================================================================
