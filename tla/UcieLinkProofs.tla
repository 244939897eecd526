-------------------------- MODULE UcieLinkProofs --------------------------
(***************************************************************************)
(* Proofs that one direction of UcieLink keeps LinkInv, and with it that   *)
(* the eight-bit sequence comparison is right and the link implements a    *)
(* FIFO, for every window below half the sequence space, every flit set,   *)
(* every FIFO depth and every bound.                                       *)
(***************************************************************************)
EXTENDS UcieLink, FiniteSetTheorems, TLAPS

-----------------------------------------------------------------------------
(* Modular arithmetic of the sequence byte                                 *)

\* Integer division: what % and \div of the sequence counters satisfy.
LEMMA DivMod ==
    ASSUME NEW x \in Int, NEW m \in Nat, m > 0
    PROVE  /\ x % m \in 0..(m - 1)
           /\ x \div m \in Int
           /\ x = m * (x \div m) + (x % m)
  OBVIOUS

\* A number below the modulus that differs by a multiple of it is the remainder.
LEMMA ModUnique ==
    ASSUME NEW x \in Int, NEW m \in Nat, m > 0, NEW q \in Int, NEW r \in Int,
           0 <= r, r < m, x = m * q + r
    PROVE  x % m = r
  OBVIOUS

\* The difference of two sequence bytes tells how far apart the 64-bit counters are,
\* as long as they are less than SeqMod apart.
LEMMA ModDiff ==
    ASSUME NEW m \in Nat, m > 0, NEW s \in Nat, NEW e \in Nat, s - e < m, e - s < m
    PROVE  ((s % m) - (e % m)) % m = IF s >= e THEN s - e ELSE s - e + m
<1> DEFINE qs == s \div m
           qe == e \div m
           d  == IF s >= e THEN s - e ELSE s - e + m
           k  == IF s >= e THEN qe - qs ELSE qe - qs - 1
<1>1. /\ s % m \in Int /\ e % m \in Int /\ qs \in Int /\ qe \in Int
      /\ s = m * qs + (s % m) /\ e = m * qe + (e % m)
  BY DivMod
<1>2. m * qe - m * qs = m * (qe - qs)
  BY <1>1
<1>3. m * (qe - qs - 1) = m * (qe - qs) - m
  BY <1>1
<1>4. (s % m) - (e % m) = m * k + d
  <2>1. CASE s >= e
    BY <2>1, <1>1, <1>2
  <2>2. CASE ~(s >= e)
    BY <2>2, <1>1, <1>2, <1>3
  <2> QED BY <2>1, <2>2
<1>5. d \in Int /\ 0 <= d /\ d < m /\ k \in Int
  BY <1>1
<1> HIDE DEF d, k, qs, qe
<1>6. ((s % m) - (e % m)) % m = d
  BY <1>1, <1>4, <1>5, ModUnique
<1> QED BY <1>6 DEF d

\* A frame inside the window is classified by RxAdapter::run as its full number demands.
LEMMA FrameClassified ==
    ASSUME NEW f \in Frame, f.crc_ok, expected_seq \in Nat, next_seq \in Nat,
           FrameOK(f, next_seq, expected_seq, retry_buffer), next_seq <= expected_seq + RetrySize
    PROVE  /\ InOrder(f, expected_seq) <=> f.seq = expected_seq
           /\ Duplicate(f, expected_seq) <=> f.seq < expected_seq
<1>1. /\ SeqMod \in Nat /\ SeqMod > 0 /\ f.seq \in Nat /\ f.seq8 = f.seq % SeqMod
      /\ f.seq - expected_seq < RetrySize /\ expected_seq - f.seq <= RetrySize
      /\ RetrySize \in Nat /\ 2 * RetrySize < SeqMod
  BY LinkAssumption DEF Frame, FrameOK
<1>2. SeqDiff(f, expected_seq) =
          IF f.seq >= expected_seq THEN f.seq - expected_seq ELSE f.seq - expected_seq + SeqMod
  <2>1. f.seq - expected_seq < SeqMod /\ expected_seq - f.seq < SeqMod
    BY <1>1
  <2>2. ((f.seq % SeqMod) - (expected_seq % SeqMod)) % SeqMod =
          IF f.seq >= expected_seq THEN f.seq - expected_seq ELSE f.seq - expected_seq + SeqMod
    BY <1>1, <2>1, ModDiff
  <2> QED BY <1>1, <2>2 DEF SeqDiff
<1>3. /\ SeqMod \div 2 \in Int
      /\ RetrySize <= SeqMod \div 2
      /\ 2 * (SeqMod \div 2) <= SeqMod
  BY <1>1
<1>4. /\ (SeqDiff(f, expected_seq) = 0) <=> (f.seq = expected_seq)
      /\ (SeqDiff(f, expected_seq) >= SeqMod \div 2) <=> (f.seq < expected_seq)
  BY <1>1, <1>2, <1>3
<1> QED BY <1>4 DEF InOrder, Duplicate

-----------------------------------------------------------------------------
(* Reading an sc_fifo                                                      *)

\* Reading the head of a FIFO moves every other element one place forward.
LEMMA TailFacts ==
    ASSUME NEW S, NEW q \in Seq(S), q # <<>>
    PROVE  /\ Tail(q) \in Seq(S) /\ Len(q) \in Nat /\ Len(Tail(q)) = Len(q) - 1
           /\ 1 \in 1..Len(q) /\ Head(q) = q[1] /\ q[1] \in S
           /\ \A i \in 1..Len(Tail(q)) : Tail(q)[i] = q[i + 1] /\ i + 1 \in 1..Len(q)
<1>1. Len(q) \in Nat /\ Len(q) > 0
  OBVIOUS
<1>2. Tail(q) \in Seq(S) /\ Len(Tail(q)) = Len(q) - 1 /\ Head(q) = q[1] /\ q[1] \in S
  BY <1>1
<1>3. \A i \in 1..Len(Tail(q)) : Tail(q)[i] = q[i + 1] /\ i + 1 \in 1..Len(q)
  BY <1>1, <1>2
<1> QED BY <1>1, <1>2, <1>3

-----------------------------------------------------------------------------
(* LinkInv is inductive                                                    *)

\* Init of TxAdapter, RxAdapter and the FIFOs between them satisfies LinkInv.
LEMMA InitLinkInv == Init => LinkInv
<1> SUFFICES ASSUME Init PROVE LinkInv
  OBVIOUS
<1>1. Seqs = {} /\ retry_buffer \in [Seqs -> Flits]
  <2>1. retry_buffer = <<>> /\ DOMAIN <<>> = {}
    BY DEF Init
  <2>2. retry_buffer = [s \in {} |-> s]
    BY <2>1
  <2> QED BY <2>1, <2>2 DEF Seqs
<1>2. TypeOK
  <2>1. /\ fdi_in \in Seq(Flits) /\ Len(fdi_in) <= InDepth
        /\ fdi_out \in Seq(Flits) /\ Len(fdi_out) <= OutDepth
        /\ wire \in Seq(Frame) /\ Len(wire) <= MaxWire
        /\ fb \in Seq(FbMsg) /\ Len(fb) <= MaxFb
    BY LinkAssumption DEF Init
  <2>2. /\ next_seq \in Nat /\ replay_cursor \in Nat /\ replay_end \in Nat
        /\ expected_seq \in Nat /\ frames_since_nak \in 0..(NakRepeat - 1)
    BY LinkAssumption DEF Init
  <2>3. replay_active \in BOOLEAN
    BY DEF Init
  <2> QED BY <1>1, <2>1, <2>2, <2>3 DEF Init, TypeOK
<1>3. RetryHoldsUndelivered
  BY <1>1, LinkAssumption DEF Init, RetryHoldsUndelivered
<1> QED BY <1>2, <1>3 DEF Init, LinkInv, FlightInv, OrderInv, FbInv

\* The retry buffer as an interval, for use in the steps below.
LEMMA WindowFacts ==
    ASSUME LinkInv
    PROVE  /\ next_seq \in Nat /\ expected_seq \in Nat /\ RetrySize \in Nat
           /\ next_seq <= expected_seq + RetrySize
           /\ expected_seq <= next_seq
           /\ \A s \in Seqs : s \in Nat /\ s < next_seq /\ next_seq <= s + RetrySize
           /\ \A s \in Nat : s >= expected_seq /\ s < next_seq => s \in Seqs
<1>1. PICK b \in 0..expected_seq :
        /\ Seqs = b..(next_seq - 1)
        /\ expected_seq <= next_seq /\ next_seq <= b + RetrySize
  BY DEF LinkInv, RetryHoldsUndelivered
<1> QED BY <1>1, LinkAssumption DEF LinkInv, TypeOK

\* A round of sender's loop keeps LinkInv if what send_one put on the wire before it is
\* in the window and in order.
LEMMA SenderLoopInv ==
    ASSUME LinkInv, NEW active \in BOOLEAN, NEW cursor \in Nat, NEW end \in Nat,
           SenderLoop(active, cursor, end),
           UNCHANGED <<fdi_out, rxVars, fb>>,
           wire' \in Seq(Frame), Len(wire') <= MaxWire,
           \A i \in 1..Len(wire') : FrameOK(wire'[i], next_seq, expected_seq, retry_buffer),
           \A i, j \in 1..Len(wire') : i < j => wire'[i].seq < wire'[j].seq + RetrySize
    PROVE  LinkInv'
<1> USE LinkAssumption
<1>t. TypeOK /\ RetryHoldsUndelivered /\ FbInv
  BY DEF LinkInv
<1>w. /\ \A s \in Seqs : s \in Nat /\ s < next_seq /\ next_seq <= s + RetrySize
      /\ next_seq \in Nat /\ expected_seq \in Nat /\ RetrySize \in Nat
      /\ expected_seq <= next_seq
      /\ \A s \in Nat : s >= expected_seq /\ s < next_seq => s \in Seqs
  BY WindowFacts
<1>u. UNCHANGED <<fdi_out, expected_seq, rx_state, frames_since_nak, fb>>
  BY DEF rxVars
<1>r. replay_cursor' \in Nat /\ replay_end' \in Nat
  BY DEF SenderLoop
<1>f. FbInv'
  BY <1>t, <1>u DEF FbInv
<1>1. CASE StartReplay(cursor, end)
  <2>1. PICK s \in Seqs : StartSendOne(s, retry_buffer[s], TRUE)
    BY <1>1 DEF StartReplay, LowerBound
  <2>2. UNCHANGED <<fdi_in, next_seq, retry_buffer>> /\ replay_active' = TRUE
    BY <1>1 DEF StartReplay
  <2> DEFINE f == BuildFlit(s, retry_buffer[s], TRUE)
  <2>3. cur' = <<f>> /\ tx_pc' = "serialize" /\ wake' = "no"
    BY <2>1 DEF StartSendOne
  <2>4. /\ f \in Frame /\ f.seq = s /\ f.seq8 = s % SeqMod /\ f.data = retry_buffer[s]
    <3>1. s \in Nat /\ retry_buffer[s] \in Flits
      BY <1>w, <1>t DEF TypeOK
    <3>2. s % SeqMod \in 0..(SeqMod - 1)
      BY <3>1, DivMod
    <3> QED BY <3>1, <3>2 DEF BuildFlit, Frame
  <2> HIDE DEF f
  <2>5. Seqs' = Seqs
    BY <2>2 DEF Seqs
  <2>6. TypeOK'
    BY <1>t, <1>u, <1>r, <2>2, <2>3, <2>4, <2>5 DEF TypeOK
  <2>7. RetryHoldsUndelivered'
    BY <1>t, <1>u, <2>2, <2>5 DEF RetryHoldsUndelivered
  <2>8. FrameOK(f, next_seq, expected_seq, retry_buffer)
    BY <1>w, <2>4 DEF FrameOK
  <2>9. FlightInv'
    BY <1>u, <2>2, <2>3, <2>8 DEF FlightInv, FrameOK
  <2>10. \A i \in 1..Len(wire') : wire'[i].seq < f.seq + RetrySize
    <3> TAKE i \in 1..Len(wire')
    <3>1. wire'[i] \in Frame
      OBVIOUS
    <3>2. wire'[i].seq < next_seq /\ wire'[i].seq \in Nat
      BY <3>1 DEF FrameOK, Frame
    <3> QED BY <3>2, <1>w, <2>4
  <2>11. OrderInv'
    BY <2>3, <2>10 DEF OrderInv
  <2> QED BY <1>f, <2>6, <2>7, <2>9, <2>11 DEF LinkInv
<1>2. CASE StartNew
  <2> DEFINE f == BuildFlit(next_seq, Head(fdi_in), FALSE)
  <2>1. /\ fdi_in # <<>> /\ Cardinality(Seqs) < RetrySize
        /\ fdi_in' = Tail(fdi_in)
        /\ next_seq' = next_seq + 1
        /\ retry_buffer' = [s \in Seqs \cup {next_seq} |->
                               IF s = next_seq THEN Head(fdi_in) ELSE retry_buffer[s]]
        /\ cur' = <<f>> /\ tx_pc' = "serialize" /\ wake' = "no"
        /\ replay_active' = FALSE
    BY <1>2 DEF StartNew, StartSendOne, WindowOpen
  <2>2. /\ f \in Frame /\ f.seq = next_seq /\ f.seq8 = next_seq % SeqMod
        /\ f.data = Head(fdi_in) /\ Head(fdi_in) \in Flits
    <3>1. next_seq % SeqMod \in 0..(SeqMod - 1)
      BY <1>w, DivMod
    <3>2. Head(fdi_in) \in Flits
      BY <1>t, <2>1 DEF TypeOK
    <3> QED BY <3>1, <3>2, <1>w DEF BuildFlit, Frame
  <2> HIDE DEF f
  <2>3. Seqs' = Seqs \cup {next_seq}
    BY <2>1 DEF Seqs
  <2>4. fdi_in' \in Seq(Flits) /\ Len(fdi_in') <= InDepth
    BY <1>t, <2>1 DEF TypeOK
  <2>5. retry_buffer' \in [Seqs' -> Flits] /\ Seqs' \subseteq Nat
    BY <1>t, <1>w, <2>1, <2>2, <2>3 DEF TypeOK
  <2>6. TypeOK'
    <3>1. cur' \in Seq(Frame) /\ Len(cur') = 1 /\ tx_pc' = "serialize" /\ wake' = "no"
      BY <2>1, <2>2
    <3>2. next_seq' \in Nat
      <4>1. next_seq' = next_seq + 1 /\ next_seq \in Nat
        BY <2>1, <1>w
      <4> QED BY <4>1
    <3>3. replay_active' \in BOOLEAN
      BY <2>1
    <3> QED BY <1>t, <1>u, <1>r, <2>4, <2>5, <3>1, <3>2, <3>3 DEF TypeOK
  <2>7. RetryHoldsUndelivered'
    <3>1. PICK b \in 0..expected_seq :
            /\ Seqs = b..(next_seq - 1)
            /\ expected_seq <= next_seq /\ next_seq <= b + RetrySize
      BY <1>t DEF RetryHoldsUndelivered
    <3>2. Cardinality(Seqs) = next_seq - b
      <4>1. b \in Int /\ next_seq - 1 \in Int /\ b <= next_seq
        BY <3>1, <1>w
      <4>2. Cardinality(b..(next_seq - 1)) = IF b > next_seq - 1 THEN 0 ELSE (next_seq - 1) - b + 1
        BY <4>1, FS_Interval
      <4> QED BY <3>1, <1>w, <4>1, <4>2
    <3>3. Seqs' = b..(next_seq' - 1)
      BY <3>1, <2>1, <2>3, <1>w
    <3>4. next_seq' <= b + RetrySize /\ expected_seq' <= next_seq'
      BY <3>1, <3>2, <2>1, <1>u, <1>w
    <3> QED BY <3>1, <3>3, <3>4, <1>u DEF RetryHoldsUndelivered
  <2>8. \A i \in 1..Len(wire') : wire'[i].seq \in Nat /\ FrameOK(wire'[i], next_seq', expected_seq', retry_buffer')
    <3> TAKE i \in 1..Len(wire')
    <3>0. wire'[i] \in Frame
      OBVIOUS
    <3>1. FrameOK(wire'[i], next_seq, expected_seq, retry_buffer) /\ wire'[i].seq \in Nat
      BY <3>0 DEF Frame
    <3>2. wire'[i].seq >= expected_seq => retry_buffer'[wire'[i].seq] = retry_buffer[wire'[i].seq]
      BY <3>1, <1>w, <2>1 DEF FrameOK
    <3> QED BY <3>1, <3>2, <2>1, <1>u, <1>w DEF FrameOK
  <2>9. FrameOK(f, next_seq', expected_seq', retry_buffer')
    BY <2>1, <2>2, <1>u, <1>w DEF FrameOK
  <2>10. FlightInv'
    BY <2>1, <2>8, <2>9 DEF FlightInv
  <2>11. \A i \in 1..Len(wire') : wire'[i].seq < f.seq + RetrySize
    <3> TAKE i \in 1..Len(wire')
    <3>1. wire'[i].seq < next_seq
      BY DEF FrameOK
    <3>2. wire'[i].seq \in Nat /\ next_seq \in Nat /\ RetrySize \in Nat
      BY <2>8, <1>w
    <3>3. wire'[i].seq < next_seq + RetrySize
      BY <3>1, <3>2
    <3>4. f.seq = next_seq
      BY <2>2
    <3> QED BY <3>3, <3>4
  <2>12. OrderInv'
    BY <2>1, <2>11 DEF OrderInv
  <2> QED BY <1>f, <2>6, <2>7, <2>10, <2>12 DEF LinkInv
<1>3. CASE StartWait
  <2>1. /\ UNCHANGED <<fdi_in, next_seq, retry_buffer>> /\ replay_active' = FALSE
        /\ tx_pc' = "wait" /\ cur' = <<>> /\ wake' = "no"
    BY <1>3 DEF StartWait
  <2>2. Seqs' = Seqs
    BY <2>1 DEF Seqs
  <2>3. TypeOK'
    BY <1>t, <1>u, <1>r, <2>1, <2>2 DEF TypeOK
  <2>4. RetryHoldsUndelivered'
    BY <1>t, <1>u, <2>1, <2>2 DEF RetryHoldsUndelivered
  <2>5. FlightInv' /\ OrderInv'
    BY <1>u, <2>1 DEF FlightInv, OrderInv, FrameOK
  <2> QED BY <1>f, <2>3, <2>4, <2>5 DEF LinkInv
<1> QED BY <1>1, <1>2, <1>3 DEF SenderLoop

\* sender leaves a wait with nothing newly on the wire: after training, on an event, on timeout.
LEMMA SenderWakesInv ==
    ASSUME LinkInv, NEW active \in BOOLEAN, NEW cursor \in Nat, NEW end \in Nat,
           SenderLoop(active, cursor, end),
           UNCHANGED <<fdi_out, wire, rxVars, fb>>
    PROVE  LinkInv'
<1>1. UNCHANGED <<fdi_out, rxVars, fb>> /\ wire' = wire
  OBVIOUS
<1>2. wire' \in Seq(Frame) /\ Len(wire') <= MaxWire
  BY <1>1 DEF LinkInv, TypeOK
<1>3. /\ \A i \in 1..Len(wire') : FrameOK(wire'[i], next_seq, expected_seq, retry_buffer)
      /\ \A i, j \in 1..Len(wire') : i < j => wire'[i].seq < wire'[j].seq + RetrySize
  BY <1>1 DEF LinkInv, FlightInv, OrderInv
<1> QED BY <1>1, <1>2, <1>3, SenderLoopInv

\* sender finds the PHY trained and enters its loop with nothing new on the wire.
LEMMA TrainedInv == ASSUME LinkInv, Trained PROVE LinkInv'
<1>1. replay_active \in BOOLEAN /\ replay_cursor \in Nat /\ replay_end \in Nat
  BY DEF LinkInv, TypeOK
<1> QED BY <1>1, SenderWakesInv DEF Trained

\* sender is woken by an event and goes round its loop.
LEMMA WokenInv == ASSUME LinkInv, Woken PROVE LinkInv'
<1>1. replay_active \in BOOLEAN /\ replay_cursor \in Nat /\ replay_end \in Nat
  BY DEF LinkInv, TypeOK
<1> QED BY <1>1, SenderWakesInv DEF Woken

\* sender's timed wait ends: the replay restarts at the oldest entry, which is in the window.
LEMMA ReplayTimeoutInv == ASSUME LinkInv, ReplayTimeout PROVE LinkInv'
<1>1. PICK b \in Least, e \in Greatest : SenderLoop(TRUE, b, e)
  BY DEF ReplayTimeout
<1>2. b \in Nat /\ e \in Nat
  BY DEF Least, Greatest, LinkInv, TypeOK
<1> QED BY <1>1, <1>2, SenderWakesInv DEF ReplayTimeout

\* A frame whose serialisation ended goes on the wire behind frames at most a window ahead.
LEMMA SerializedInv == ASSUME LinkInv, NEW ok \in BOOLEAN, Serialized(ok) PROVE LinkInv'
<1> DEFINE f == Transmit(cur[1], ok)
<1>1. /\ cur \in Seq(Frame) /\ Len(cur) = 1 /\ cur # <<>> /\ cur[1] \in Frame
      /\ wire \in Seq(Frame) /\ Len(wire) < MaxWire /\ MaxWire \in Nat
      /\ wire' = Append(wire, f)
  <2>1. tx_pc = "serialize" /\ Len(wire) < MaxWire /\ wire' = Append(wire, f)
    BY DEF Serialized, PhyChannel
  <2>2. cur \in Seq(Frame) /\ Len(cur) = 1 /\ wire \in Seq(Frame)
    BY <2>1 DEF LinkInv, TypeOK
  <2>3. cur # <<>> /\ cur[1] \in Frame
    BY <2>2
  <2> QED BY <2>1, <2>2, <2>3, LinkAssumption
<1>2. /\ f \in Frame /\ f.seq = cur[1].seq /\ f.seq8 = cur[1].seq8
      /\ (f.crc_ok => f.data = cur[1].data /\ cur[1].crc_ok)
  BY <1>1 DEF Transmit, Frame
<1>3. /\ FrameOK(f, next_seq, expected_seq, retry_buffer)
      /\ \A i \in 1..Len(wire) : wire[i].seq < f.seq + RetrySize
  BY <1>1, <1>2 DEF LinkInv, FlightInv, OrderInv, FrameOK
<1> HIDE DEF f
<1>4. /\ wire' \in Seq(Frame) /\ Len(wire') = Len(wire) + 1 /\ Len(wire') <= MaxWire
      /\ Len(wire) \in Nat
      /\ \A i \in 1..Len(wire) : wire'[i] = wire[i]
      /\ wire'[Len(wire) + 1] = f
  BY <1>1, <1>2
<1>5. \A i \in 1..Len(wire') : FrameOK(wire'[i], next_seq, expected_seq, retry_buffer)
  <2> TAKE i \in 1..Len(wire')
  <2>1. CASE i \in 1..Len(wire)
    BY <2>1, <1>4 DEF LinkInv, FlightInv
  <2>2. CASE i = Len(wire) + 1
    BY <2>2, <1>3, <1>4
  <2> QED BY <2>1, <2>2, <1>4
<1>6. \A i, j \in 1..Len(wire') : i < j => wire'[i].seq < wire'[j].seq + RetrySize
  <2> TAKE i, j \in 1..Len(wire')
  <2> HAVE i < j
  <2>1. i \in 1..Len(wire)
    BY <1>4
  <2>2. CASE j \in 1..Len(wire)
    BY <2>1, <2>2, <1>4 DEF LinkInv, OrderInv
  <2>3. CASE j = Len(wire) + 1
    BY <2>1, <2>3, <1>3, <1>4
  <2> QED BY <2>2, <2>3, <1>4
<1>7. UNCHANGED <<fdi_out, rxVars, fb>>
  BY DEF Serialized
<1>8. PICK active \in BOOLEAN, cursor \in Nat, end \in Nat : SenderLoop(active, cursor, end)
  <2>1. /\ replay_active \in BOOLEAN /\ replay_cursor \in Nat /\ replay_end \in Nat
        /\ next_seq \in Nat /\ cur[1].seq \in Nat
    BY <1>1 DEF LinkInv, TypeOK, Frame
  <2>2. CASE cur[1].replay
    <3>1. PICK c \in CursorAfter(cur[1].seq) :
             SenderLoop(replay_active /\ c <= replay_end, c, replay_end)
      BY <2>2 DEF Serialized
    <3>2. c \in Nat
      BY <2>1 DEF CursorAfter
    <3>3. (replay_active /\ c <= replay_end) \in BOOLEAN
      OBVIOUS
    <3> QED BY <2>1, <3>1, <3>2, <3>3
  <2>3. CASE ~cur[1].replay
    BY <2>1, <2>3 DEF Serialized
  <2> QED BY <2>2, <2>3
<1> QED BY <1>4, <1>5, <1>6, <1>7, <1>8, SenderLoopInv

\* feedback: an ACK frees only delivered entries, a NAK only moves the replay.
LEMMA FeedbackInv == ASSUME LinkInv, Feedback PROVE LinkInv'
<1>1. /\ UNCHANGED <<fdi_in, fdi_out, tx_pc, cur, next_seq, wire>>
      /\ UNCHANGED <<expected_seq, rx_state, frames_since_nak>>
      /\ fb # <<>> /\ fb' = Tail(fb) /\ (FeedbackAck \/ FeedbackNak)
  BY DEF Feedback, fdiVars, rxVars, FeedbackAck, FeedbackNak
<1>2. /\ TypeOK /\ RetryHoldsUndelivered /\ FbInv
      /\ fb \in Seq(FbMsg) /\ Len(fb) <= MaxFb /\ MaxFb \in Nat
  BY LinkAssumption DEF LinkInv, TypeOK
<1>3. /\ fb' \in Seq(FbMsg) /\ Len(fb') = Len(fb) - 1 /\ Len(fb') <= MaxFb /\ Len(fb) \in Nat
      /\ \A i \in 1..Len(fb') : fb'[i] = fb[i + 1] /\ i + 1 \in 1..Len(fb)
      /\ Head(fb) = fb[1] /\ fb[1] \in FbMsg /\ 1 \in 1..Len(fb)
  <2>1. fb # <<>> /\ fb' = Tail(fb) /\ fb \in Seq(FbMsg)
    BY <1>1, <1>2
  <2>2. /\ fb' \in Seq(FbMsg) /\ Len(fb') = Len(fb) - 1 /\ Len(fb) \in Nat
        /\ \A i \in 1..Len(fb') : fb'[i] = fb[i + 1] /\ i + 1 \in 1..Len(fb)
        /\ Head(fb) = fb[1] /\ fb[1] \in FbMsg /\ 1 \in 1..Len(fb)
    BY <2>1, TailFacts
  <2> QED BY <1>2, <2>2
<1>4. FbInv'
  BY <1>1, <1>2, <1>3 DEF FbInv
<1>5. wake' \in {"no", "data", "feedback"} /\ (wake' # "no" => tx_pc' = "wait")
  BY <1>1, <1>2 DEF Feedback, NotifyWake, TypeOK
<1>6. OrderInv'
  BY <1>1 DEF LinkInv, OrderInv
<1>w. /\ next_seq \in Nat /\ expected_seq \in Nat /\ RetrySize \in Nat
      /\ expected_seq <= next_seq
      /\ \A s \in Nat : s >= expected_seq /\ s < next_seq => s \in Seqs
  BY WindowFacts
<1>7. CASE FeedbackAck
  <2> DEFINE n == Head(fb).seq
  <2>1. /\ n \in Nat /\ n < expected_seq
        /\ retry_buffer' = [s \in Seqs \ Acked(n) |-> retry_buffer[s]]
        /\ UNCHANGED <<replay_active, replay_cursor, replay_end>>
    BY <1>2, <1>3, <1>7 DEF FeedbackAck, FbInv, FbMsg, replayVars
  <2> HIDE DEF n
  <2>2. Seqs' = {s \in Seqs : s > n}
    BY <1>2, <2>1 DEF Seqs, Acked, TypeOK
  <2>3. retry_buffer' \in [Seqs' -> Flits] /\ Seqs' \subseteq Nat
    <3>1. Seqs' = Seqs \ Acked(n)
      BY <2>1 DEF Seqs
    <3> QED BY <1>2, <2>1, <3>1 DEF TypeOK
  <2>4. TypeOK'
    BY <1>1, <1>2, <1>3, <1>5, <2>1, <2>3 DEF TypeOK
  <2>5. RetryHoldsUndelivered'
    <3>1. PICK b \in 0..expected_seq :
            /\ Seqs = b..(next_seq - 1)
            /\ expected_seq <= next_seq /\ next_seq <= b + RetrySize
      BY <1>2 DEF RetryHoldsUndelivered
    <3> DEFINE c == IF n >= b THEN n + 1 ELSE b
    <3>2. c \in 0..expected_seq /\ Seqs' = c..(next_seq - 1) /\ next_seq <= c + RetrySize
      BY <1>w, <2>1, <2>2, <3>1
    <3> HIDE DEF c
    <3> QED BY <1>1, <3>1, <3>2 DEF RetryHoldsUndelivered
  <2>6. \A f \in Frame : FrameOK(f, next_seq, expected_seq, retry_buffer)
                           => FrameOK(f, next_seq', expected_seq', retry_buffer')
    <3> SUFFICES ASSUME NEW f \in Frame, FrameOK(f, next_seq, expected_seq, retry_buffer)
                 PROVE  FrameOK(f, next_seq', expected_seq', retry_buffer')
      OBVIOUS
    <3>1. f.seq >= expected_seq => retry_buffer'[f.seq] = retry_buffer[f.seq]
      <4> SUFFICES ASSUME f.seq >= expected_seq PROVE retry_buffer'[f.seq] = retry_buffer[f.seq]
        OBVIOUS
      <4>1. f.seq \in Nat /\ f.seq < next_seq
        BY DEF Frame, FrameOK
      <4>2. f.seq \in Seqs \ Acked(n)
        BY <4>1, <1>w, <2>1 DEF Acked
      <4> QED BY <4>2, <2>1
    <3> QED BY <3>1, <1>1 DEF FrameOK
  <2>7. FlightInv'
    <3>1. \A i \in 1..Len(wire) : wire[i] \in Frame
      BY <1>2 DEF TypeOK
    <3>2. cur # <<>> => cur[1] \in Frame
      BY <1>2 DEF TypeOK
    <3> QED BY <1>1, <2>6, <3>1, <3>2 DEF LinkInv, FlightInv
  <2> QED BY <1>4, <1>6, <2>4, <2>5, <2>7 DEF LinkInv
<1>8. CASE FeedbackNak
  <2>1. UNCHANGED retry_buffer
    BY <1>8 DEF FeedbackNak
  <2>2. replay_active' \in BOOLEAN /\ replay_cursor' \in Nat /\ replay_end' \in Nat
    BY <1>2, <1>8 DEF FeedbackNak, replayVars, LowerBound, Greatest, TypeOK
  <2>3. Seqs' = Seqs
    BY <2>1 DEF Seqs
  <2>4. TypeOK'
    BY <1>1, <1>2, <1>3, <1>5, <2>1, <2>2, <2>3 DEF TypeOK
  <2>5. RetryHoldsUndelivered'
    BY <1>1, <1>2, <2>3 DEF RetryHoldsUndelivered
  <2>6. FlightInv'
    BY <1>1, <2>1 DEF LinkInv, FlightInv
  <2> QED BY <1>4, <1>6, <2>4, <2>5, <2>6 DEF LinkInv
<1> QED BY <1>1, <1>7, <1>8

\* What RxAdapter::run finds at the head of the wire.
LEMMA HeadClassified ==
    ASSUME LinkInv, wire # <<>>, Head(wire).crc_ok
    PROVE  /\ InOrder(Head(wire), expected_seq) <=> Head(wire).seq = expected_seq
           /\ Duplicate(Head(wire), expected_seq) <=> Head(wire).seq < expected_seq
<1>1. wire \in Seq(Frame)
  BY DEF LinkInv, TypeOK
<1>2. Head(wire) = wire[1] /\ wire[1] \in Frame /\ 1 \in 1..Len(wire)
  BY <1>1, TailFacts
<1>3. FrameOK(wire[1], next_seq, expected_seq, retry_buffer)
  BY <1>2 DEF LinkInv, FlightInv
<1> QED BY <1>2, <1>3, WindowFacts, FrameClassified

\* Appending one feedback message the receiver may send keeps FbInv and the type of fb.
LEMMA FbAppend ==
    ASSUME fb \in Seq(FbMsg), Len(fb) < MaxFb, NEW m \in FbMsg, fb' = Append(fb, m),
           expected_seq \in Nat, expected_seq' \in Nat, expected_seq <= expected_seq', FbInv,
           IF m.is_nak THEN m.seq <= expected_seq' ELSE m.seq < expected_seq'
    PROVE  fb' \in Seq(FbMsg) /\ Len(fb') <= MaxFb /\ FbInv'
<1>1. /\ fb' \in Seq(FbMsg) /\ Len(fb) \in Nat /\ Len(fb') = Len(fb) + 1
      /\ \A i \in 1..Len(fb) : fb'[i] = fb[i] /\ fb[i] \in FbMsg
      /\ fb'[Len(fb) + 1] = m
  OBVIOUS
<1>2. Len(fb') <= MaxFb
  BY <1>1, LinkAssumption
<1>3. ASSUME NEW i \in 1..Len(fb')
      PROVE  IF fb'[i].is_nak THEN fb'[i].seq <= expected_seq' ELSE fb'[i].seq < expected_seq'
  <2>1. CASE i \in 1..Len(fb)
    <3>1. fb'[i] = fb[i] /\ fb[i].seq \in Nat
      BY <2>1, <1>1 DEF FbMsg
    <3>2. IF fb[i].is_nak THEN fb[i].seq <= expected_seq ELSE fb[i].seq < expected_seq
      BY <2>1 DEF FbInv
    <3> QED BY <3>1, <3>2
  <2>2. CASE i = Len(fb) + 1
    BY <2>2, <1>1
  <2> QED BY <2>1, <2>2, <1>1
<1> QED BY <1>1, <1>2, <1>3 DEF FbInv

\* RxAdapter::run delivers only the expected frame, acknowledges only what it delivered,
\* and what stays in flight stays in the window.
LEMMA RxRunInv == ASSUME LinkInv, RxRun PROVE LinkInv'
<1> USE LinkAssumption
<1> DEFINE f == Head(wire)
<1>1. /\ wire # <<>> /\ Len(fb) < MaxFb /\ wire' = Tail(wire)
      /\ RxInOrder(f) \/ RxDuplicate(f) \/ RxError(f)
      /\ UNCHANGED <<fdi_in, tx_pc, cur, wake, next_seq, retry_buffer,
                     replay_active, replay_cursor, replay_end>>
  BY DEF RxRun, txVars, replayVars
<1>2. /\ TypeOK /\ RetryHoldsUndelivered /\ FlightInv /\ OrderInv /\ FbInv
      /\ wire \in Seq(Frame) /\ fb \in Seq(FbMsg) /\ Len(wire) <= MaxWire /\ Len(fb) <= MaxFb
      /\ fdi_out \in Seq(Flits) /\ retry_buffer \in [Seqs -> Flits]
      /\ frames_since_nak \in 0..(NakRepeat - 1)
  BY DEF LinkInv, TypeOK
<1>3. /\ wire' \in Seq(Frame) /\ Len(wire) \in Nat /\ Len(wire') = Len(wire) - 1
      /\ f = wire[1] /\ f \in Frame /\ 1 \in 1..Len(wire)
      /\ \A i \in 1..Len(wire') : wire'[i] = wire[i + 1] /\ i + 1 \in 1..Len(wire)
  BY <1>1, <1>2, TailFacts
<1> HIDE DEF f
<1>4. Len(wire') <= MaxWire
  BY <1>2, <1>3
<1>5. /\ f.seq \in Nat /\ f.crc_ok \in BOOLEAN /\ f.seq < next_seq
      /\ f.crc_ok /\ f.seq >= expected_seq => f.data = retry_buffer[f.seq]
  BY <1>2, <1>3 DEF FlightInv, FrameOK, Frame
<1>w. /\ next_seq \in Nat /\ expected_seq \in Nat /\ RetrySize \in Nat
      /\ expected_seq <= next_seq
      /\ \A s \in Nat : s >= expected_seq /\ s < next_seq => s \in Seqs
  BY WindowFacts
<1>6. Seqs' = Seqs
  BY <1>1 DEF Seqs
<1>7. OrderInv'
  <2>1. \A i, j \in 1..Len(wire') : i < j => wire'[i].seq < wire'[j].seq + RetrySize
    <3> TAKE i, j \in 1..Len(wire')
    <3>1. i + 1 \in 1..Len(wire) /\ j + 1 \in 1..Len(wire)
          /\ wire'[i] = wire[i + 1] /\ wire'[j] = wire[j + 1]
      BY <1>3
    <3>2. i < j => i + 1 < j + 1
      BY <1>3
    <3> QED BY <3>1, <3>2, <1>2 DEF OrderInv
  <2>2. \A i \in 1..Len(wire') : cur' # <<>> => wire'[i].seq < cur'[1].seq + RetrySize
    BY <1>1, <1>2, <1>3 DEF OrderInv
  <2> QED BY <2>1, <2>2 DEF OrderInv
<1>8. CASE RxInOrder(f)
  <2>1. /\ InOrder(f, expected_seq) /\ Len(fdi_out) < OutDepth
        /\ fdi_out' = Append(fdi_out, f.data)
        /\ fb' = Append(fb, [is_nak |-> FALSE, seq |-> expected_seq])
        /\ expected_seq' = expected_seq + 1
        /\ rx_state' = "NoRetry" /\ frames_since_nak' = 0
    BY <1>8 DEF RxInOrder, FeedbackPath
  <2>2. f.crc_ok /\ f.seq = expected_seq
    BY <1>1, <2>1, HeadClassified DEF InOrder, f
  <2>3. f.data \in Flits
    <3>1. f.seq \in Seqs /\ f.data = retry_buffer[f.seq]
      BY <1>5, <1>w, <2>2
    <3> QED BY <3>1, <1>2
  <2>4. fdi_out' \in Seq(Flits) /\ Len(fdi_out') <= OutDepth
    BY <1>2, <2>1, <2>3
  <2>5. fb' \in Seq(FbMsg) /\ Len(fb') <= MaxFb /\ FbInv'
    <3>1. [is_nak |-> FALSE, seq |-> expected_seq] \in FbMsg
      BY <1>w DEF FbMsg
    <3>2. expected_seq' \in Nat /\ expected_seq <= expected_seq' /\ expected_seq < expected_seq'
      BY <1>w, <2>1
    <3> QED BY <1>1, <1>2, <1>w, <2>1, <3>1, <3>2, FbAppend
  <2>6. TypeOK'
    <3>1. expected_seq' \in Nat /\ frames_since_nak' \in 0..(NakRepeat - 1)
      BY <1>w, <2>1
    <3> QED BY <1>1, <1>2, <1>3, <1>4, <1>6, <2>1, <2>4, <2>5, <3>1 DEF TypeOK
  <2>7. RetryHoldsUndelivered'
    <3>1. PICK b \in 0..expected_seq :
            /\ Seqs = b..(next_seq - 1)
            /\ expected_seq <= next_seq /\ next_seq <= b + RetrySize
      BY <1>2 DEF RetryHoldsUndelivered
    <3>2. b \in 0..expected_seq' /\ expected_seq' <= next_seq
      BY <1>5, <1>w, <2>1, <2>2
    <3> QED BY <1>1, <1>6, <3>1, <3>2 DEF RetryHoldsUndelivered
  <2>8. ASSUME NEW g \in Frame, FrameOK(g, next_seq, expected_seq, retry_buffer),
               f.seq < g.seq + RetrySize
        PROVE  FrameOK(g, next_seq', expected_seq', retry_buffer')
    <3>1. g.seq \in Nat
      BY DEF Frame
    <3> QED BY <1>1, <1>w, <2>1, <2>2, <2>8, <3>1 DEF FrameOK
  <2>9. FlightInv'
    <3>1. \A i \in 1..Len(wire') : FrameOK(wire'[i], next_seq', expected_seq', retry_buffer')
      <4> TAKE i \in 1..Len(wire')
      <4>1. /\ wire'[i] = wire[i + 1] /\ i + 1 \in 1..Len(wire) /\ 1 < i + 1
            /\ wire[i + 1] \in Frame
        BY <1>2, <1>3
      <4>2. /\ FrameOK(wire[i + 1], next_seq, expected_seq, retry_buffer)
            /\ f.seq < wire[i + 1].seq + RetrySize
        BY <1>2, <1>3, <4>1 DEF FlightInv, OrderInv
      <4> QED BY <4>1, <4>2, <2>8
    <3>2. cur' # <<>> => FrameOK(cur'[1], next_seq', expected_seq', retry_buffer')
      <4> SUFFICES ASSUME cur # <<>>
                   PROVE  FrameOK(cur[1], next_seq', expected_seq', retry_buffer')
        BY <1>1
      <4>1. cur[1] \in Frame
        BY <1>2 DEF TypeOK
      <4>2. /\ FrameOK(cur[1], next_seq, expected_seq, retry_buffer)
            /\ f.seq < cur[1].seq + RetrySize
        BY <1>2, <1>3 DEF FlightInv, OrderInv
      <4> QED BY <4>1, <4>2, <2>8
    <3> QED BY <3>1, <3>2 DEF FlightInv
  <2> QED BY <1>7, <2>5, <2>6, <2>7, <2>9 DEF LinkInv
<1>9. ASSUME UNCHANGED <<fdi_out, expected_seq>>,
             fb' \in Seq(FbMsg), Len(fb') <= MaxFb, FbInv',
             rx_state' \in {"NoRetry", "RetryInProgress"},
             frames_since_nak' \in 0..(NakRepeat - 1)
      PROVE  LinkInv'
  <2>1. TypeOK'
    BY <1>1, <1>2, <1>3, <1>4, <1>6, <1>9 DEF TypeOK
  <2>2. RetryHoldsUndelivered'
    BY <1>1, <1>2, <1>6, <1>9 DEF RetryHoldsUndelivered
  <2>3. FlightInv'
    BY <1>1, <1>2, <1>3, <1>9 DEF FlightInv
  <2> QED BY <1>7, <1>9, <2>1, <2>2, <2>3 DEF LinkInv
<1>10. CASE RxDuplicate(f)
  <2>1. /\ UNCHANGED <<fdi_out, expected_seq, rx_state, frames_since_nak>>
        /\ fb' = IF expected_seq > 0
                   THEN Append(fb, [is_nak |-> FALSE, seq |-> expected_seq - 1]) ELSE fb
    BY <1>10 DEF RxDuplicate, rxVars, LastDelivered, FeedbackPath
  <2>2. CASE expected_seq > 0
    <3>1. /\ [is_nak |-> FALSE, seq |-> expected_seq - 1] \in FbMsg
          /\ expected_seq - 1 < expected_seq' /\ expected_seq <= expected_seq'
      BY <1>w, <2>1, <2>2 DEF FbMsg
    <3>2. fb' = Append(fb, [is_nak |-> FALSE, seq |-> expected_seq - 1])
      BY <2>1, <2>2
    <3>3. fb' \in Seq(FbMsg) /\ Len(fb') <= MaxFb /\ FbInv'
      BY <1>1, <1>2, <1>w, <2>1, <3>1, <3>2, FbAppend
    <3> QED BY <1>2, <1>9, <2>1, <3>3 DEF TypeOK
  <2>3. CASE ~(expected_seq > 0)
    <3>1. fb' = fb
      BY <2>1, <2>3
    <3>2. FbInv'
      BY <1>2, <2>1, <3>1 DEF FbInv
    <3> QED BY <1>2, <1>9, <2>1, <3>1, <3>2 DEF TypeOK
  <2> QED BY <2>2, <2>3
<1>11. CASE RxError(f)
  <2> DEFINE send_nak == rx_state = "NoRetry" \/ frames_since_nak + 1 >= NakRepeat
  <2>1. /\ UNCHANGED <<fdi_out, expected_seq>> /\ rx_state' = "RetryInProgress"
        /\ fb' = IF send_nak THEN Append(fb, [is_nak |-> TRUE, seq |-> expected_seq]) ELSE fb
        /\ frames_since_nak' = IF send_nak THEN 0 ELSE frames_since_nak + 1
    BY <1>11 DEF RxError, SinceNak, FeedbackPath
  <2>2. frames_since_nak' \in 0..(NakRepeat - 1)
    BY <1>2, <2>1
  <2> HIDE DEF send_nak
  <2>3. CASE send_nak
    <3>1. /\ [is_nak |-> TRUE, seq |-> expected_seq] \in FbMsg
          /\ expected_seq <= expected_seq' /\ expected_seq' \in Nat
      BY <1>w, <2>1 DEF FbMsg
    <3>2. fb' = Append(fb, [is_nak |-> TRUE, seq |-> expected_seq])
      BY <2>1, <2>3
    <3>3. fb' \in Seq(FbMsg) /\ Len(fb') <= MaxFb /\ FbInv'
      BY <1>1, <1>2, <1>w, <3>1, <3>2, FbAppend
    <3> QED BY <1>9, <2>1, <2>2, <3>3
  <2>4. CASE ~send_nak
    <3>1. fb' = fb
      BY <2>1, <2>4
    <3>2. FbInv'
      BY <1>2, <2>1, <3>1 DEF FbInv
    <3> QED BY <1>2, <1>9, <2>1, <2>2, <3>1, <3>2 DEF TypeOK
  <2> QED BY <2>3, <2>4
<1> QED BY <1>1, <1>8, <1>10, <1>11

\* The FDI users touch only their own ends.
LEMMA UsersInv == ASSUME LinkInv, (\E flit \in Flits : Put(flit)) \/ Get PROVE LinkInv'
<1> USE LinkAssumption
<1>1. /\ UNCHANGED <<tx_pc, cur, next_seq, retry_buffer, replay_active, replay_cursor,
                     replay_end, wire, expected_seq, rx_state, frames_since_nak, fb>>
      /\ \/ \E flit \in Flits : Len(fdi_in) < InDepth /\ fdi_in' = Append(fdi_in, flit)
         \/ UNCHANGED fdi_in
      /\ UNCHANGED fdi_out \/ (fdi_out # <<>> /\ fdi_out' = Tail(fdi_out))
      /\ wake' = wake \/ (tx_pc = "wait" /\ wake' = "data")
  BY DEF Put, Get, replayVars, rxVars, txVars
<1>2. TypeOK
  BY DEF LinkInv
<1>3. fdi_in' \in Seq(Flits) /\ Len(fdi_in') <= InDepth
  <2>1. fdi_in \in Seq(Flits) /\ Len(fdi_in) <= InDepth /\ Len(fdi_in) \in Nat
    BY <1>2 DEF TypeOK
  <2>2. CASE UNCHANGED fdi_in
    BY <2>1, <2>2
  <2>3. CASE \E flit \in Flits : Len(fdi_in) < InDepth /\ fdi_in' = Append(fdi_in, flit)
    <3>1. PICK flit \in Flits : Len(fdi_in) < InDepth /\ fdi_in' = Append(fdi_in, flit)
      BY <2>3
    <3>2. fdi_in' \in Seq(Flits) /\ Len(fdi_in') = Len(fdi_in) + 1
      BY <2>1, <3>1
    <3> QED BY <2>1, <3>1, <3>2
  <2> QED BY <1>1, <2>2, <2>3
<1>4. fdi_out' \in Seq(Flits) /\ Len(fdi_out') <= OutDepth
  <2>1. CASE UNCHANGED fdi_out
    BY <1>2, <2>1 DEF TypeOK
  <2>2. CASE fdi_out # <<>> /\ fdi_out' = Tail(fdi_out)
    <3>1. fdi_out \in Seq(Flits) /\ Len(fdi_out) <= OutDepth
      BY <1>2 DEF TypeOK
    <3>2. fdi_out' \in Seq(Flits) /\ Len(fdi_out') = Len(fdi_out) - 1 /\ Len(fdi_out) \in Nat
      BY <2>2, <3>1, TailFacts
    <3> QED BY <3>1, <3>2
  <2> QED BY <1>1, <2>1, <2>2
<1>5. Seqs' = Seqs
  BY <1>1 DEF Seqs
<1>6. TypeOK'
  BY <1>1, <1>2, <1>3, <1>4, <1>5 DEF TypeOK
<1>7. RetryHoldsUndelivered'
  BY <1>1, <1>5 DEF LinkInv, RetryHoldsUndelivered
<1>8. FlightInv' /\ OrderInv' /\ FbInv'
  BY <1>1 DEF LinkInv, FlightInv, OrderInv, FbInv
<1> QED BY <1>6, <1>7, <1>8 DEF LinkInv

\* A stuttering step, such as any step of the other direction of the link, keeps LinkInv.
LEMMA StutterInv == ASSUME LinkInv, UNCHANGED vars PROVE LinkInv'
<1>1. UNCHANGED <<fdi_in, fdi_out, tx_pc, cur, wake, next_seq, retry_buffer, replay_active,
                  replay_cursor, replay_end, wire, expected_seq, rx_state, frames_since_nak, fb>>
  BY DEF vars, fdiVars, txVars, replayVars, rxVars
<1>2. Seqs' = Seqs
  BY <1>1 DEF Seqs
<1> QED BY <1>1, <1>2 DEF LinkInv, TypeOK, RetryHoldsUndelivered, FlightInv, OrderInv, FbInv

\* LinkInv is inductive: every thread of the link keeps it.
LEMMA NextLinkInv == LinkInv /\ [Next]_vars => LinkInv'
<1> SUFFICES ASSUME LinkInv, [Next]_vars PROVE LinkInv'
  OBVIOUS
<1>1. CASE Trained
  BY <1>1, TrainedInv
<1>2. CASE \E ok \in BOOLEAN : Serialized(ok)
  BY <1>2, SerializedInv
<1>3. CASE ReplayTimeout
  BY <1>3, ReplayTimeoutInv
<1>4. CASE Woken
  BY <1>4, WokenInv
<1>5. CASE Feedback
  BY <1>5, FeedbackInv
<1>6. CASE RxRun
  BY <1>6, RxRunInv
<1>7. CASE (\E flit \in Flits : Put(flit)) \/ Get
  BY <1>7, UsersInv
<1>8. CASE Quiescent
  BY <1>8, StutterInv DEF Quiescent
<1>9. CASE UNCHANGED vars
  BY <1>9, StutterInv
<1> QED BY <1>1, <1>2, <1>3, <1>4, <1>5, <1>6, <1>7, <1>8, <1>9 DEF Next

\* In every reachable state of one link direction TxAdapter, the frames and feedback in
\* flight and RxAdapter agree (LinkInv), for any window below half the sequence space.
THEOREM LinkInvariant == Spec => []LinkInv
<1>1. Init => LinkInv
  BY InitLinkInv
<1>2. LinkInv /\ [Next]_vars => LinkInv'
  BY NextLinkInv
<1> QED BY <1>1, <1>2, PTL DEF Spec

\* All variables of the link keep their types.
THEOREM LinkTypeCorrect == Spec => []TypeOK
<1>1. LinkInv => TypeOK
  BY DEF LinkInv
<1> QED BY <1>1, LinkInvariant, PTL

\* No ACK ever frees a flit that has not been delivered.
THEOREM RetrySafe == Spec => []RetryHoldsUndelivered
<1>1. LinkInv => RetryHoldsUndelivered
  BY DEF LinkInv
<1> QED BY <1>1, LinkInvariant, PTL

\* The comparison modulo SeqMod in RxAdapter::run is right for every frame that can reach it.
THEOREM SeqWindowSafe == Spec => []SeqClassifiedRight
<1>1. LinkInv => SeqClassifiedRight
  <2> SUFFICES ASSUME LinkInv, NEW i \in 1..Len(wire), wire[i].crc_ok
               PROVE  /\ InOrder(wire[i], expected_seq) <=> wire[i].seq = expected_seq
                      /\ Duplicate(wire[i], expected_seq) <=> wire[i].seq < expected_seq
    BY DEF SeqClassifiedRight
  <2>1. wire[i] \in Frame
    BY DEF LinkInv, TypeOK
  <2>2. FrameOK(wire[i], next_seq, expected_seq, retry_buffer)
    BY DEF LinkInv, FlightInv
  <2> QED BY <2>1, <2>2, WindowFacts, FrameClassified
<1> QED BY <1>1, LinkInvariant, PTL

-----------------------------------------------------------------------------
(* The link implements the FIFO of FdiChannel                              *)

\* The flits between the two ends, as a sequence.
UndeliveredIsSeq ==
    /\ Undelivered \in Seq(Flits)
    /\ next_seq - expected_seq \in Nat /\ Len(Undelivered) = next_seq - expected_seq
    /\ \A i \in 1..(next_seq - expected_seq) :
          Undelivered[i] = retry_buffer[expected_seq + i - 1]

\* LinkInv makes the undelivered part of the retry buffer a sequence of flits.
LEMMA UndeliveredSeq == LinkInv => UndeliveredIsSeq
<1> SUFFICES ASSUME LinkInv PROVE UndeliveredIsSeq
  OBVIOUS
<1>1. /\ next_seq \in Nat /\ expected_seq \in Nat /\ expected_seq <= next_seq
      /\ \A s \in Nat : s >= expected_seq /\ s < next_seq => s \in Seqs
  BY WindowFacts
<1>2. next_seq - expected_seq \in Nat
  BY <1>1
<1>3. \A i \in 1..(next_seq - expected_seq) : retry_buffer[expected_seq + i - 1] \in Flits
  <2> TAKE i \in 1..(next_seq - expected_seq)
  <2>1. expected_seq + i - 1 \in Seqs
    BY <1>1
  <2> QED BY <2>1 DEF LinkInv, TypeOK
<1> QED BY <1>2, <1>3 DEF Undelivered, UndeliveredIsSeq

\* sender's loop either accepts a flit or leaves the channel alone.
LEMMA SenderLoopRefines ==
    ASSUME LinkInv, LinkInv', NEW active, NEW cursor, NEW end,
           SenderLoop(active, cursor, end), UNCHANGED <<fdi_out, rxVars>>
    PROVE  Channel!Accept \/ UNCHANGED Channel!channelVars
<1>1. UNCHANGED <<fdi_out, expected_seq>>
  BY DEF rxVars
<1>2. CASE UNCHANGED <<fdi_in, next_seq, retry_buffer>>
  BY <1>1, <1>2 DEF Undelivered, Channel!channelVars
<1>3. CASE StartNew
  <2>1. /\ fdi_in # <<>> /\ Cardinality(Seqs) < RetrySize /\ fdi_in' = Tail(fdi_in)
        /\ next_seq' = next_seq + 1
        /\ retry_buffer' = [s \in Seqs \cup {next_seq} |->
                               IF s = next_seq THEN Head(fdi_in) ELSE retry_buffer[s]]
    BY <1>3 DEF StartNew, WindowOpen
  <2>w. /\ next_seq \in Nat /\ expected_seq \in Nat /\ expected_seq <= next_seq
        /\ \A s \in Nat : s >= expected_seq /\ s < next_seq => s \in Seqs
        /\ RetrySize \in Nat
    BY WindowFacts
  <2>2. Len(Undelivered) < RetrySize
    <3>1. PICK b \in 0..expected_seq :
            /\ Seqs = b..(next_seq - 1)
            /\ expected_seq <= next_seq /\ next_seq <= b + RetrySize
      BY DEF LinkInv, RetryHoldsUndelivered
    <3>2. b \in Int /\ next_seq - 1 \in Int /\ b <= next_seq
      BY <3>1, <2>w
    <3>3. Cardinality(b..(next_seq - 1)) = IF b > next_seq - 1 THEN 0 ELSE (next_seq - 1) - b + 1
      BY <3>2, FS_Interval
    <3>4. Len(Undelivered) = next_seq - expected_seq
      BY UndeliveredSeq DEF UndeliveredIsSeq
    <3> QED BY <2>1, <2>w, <3>1, <3>2, <3>3, <3>4
  <2>3. Undelivered' = Append(Undelivered, Head(fdi_in))
    <3> DEFINE n == next_seq - expected_seq
    <3>1. /\ n \in Nat /\ Undelivered \in Seq(Flits) /\ Len(Undelivered) = n
          /\ \A i \in 1..n : Undelivered[i] = retry_buffer[expected_seq + i - 1]
      BY UndeliveredSeq DEF UndeliveredIsSeq
    <3>2. /\ Undelivered' \in Seq(Flits) /\ Len(Undelivered') = n + 1
          /\ \A i \in 1..(n + 1) : Undelivered'[i] = retry_buffer'[expected_seq + i - 1]
      <4>1. /\ Undelivered' \in Seq(Flits)
            /\ Len(Undelivered') = next_seq' - expected_seq'
            /\ \A i \in 1..(next_seq' - expected_seq') :
                  Undelivered'[i] = retry_buffer'[expected_seq' + i - 1]
        <5>1. UndeliveredIsSeq'
          BY UndeliveredSeq, PTL
        <5> QED BY <5>1 DEF UndeliveredIsSeq
      <4>2. next_seq' - expected_seq' = n + 1
        BY <1>1, <2>1, <2>w
      <4> HIDE DEF n
      <4> QED BY <1>1, <4>1, <4>2
    <3>3. Head(fdi_in) \in Flits
      BY <2>1 DEF LinkInv, TypeOK
    <3>4. ASSUME NEW i \in 1..n PROVE Undelivered'[i] = Undelivered[i]
      <4>1. expected_seq + i - 1 \in Nat /\ expected_seq + i - 1 >= expected_seq
            /\ expected_seq + i - 1 < next_seq
        BY <2>w
      <4>2. expected_seq + i - 1 \in Seqs /\ expected_seq + i - 1 # next_seq
        BY <4>1, <2>w
      <4>3. retry_buffer'[expected_seq + i - 1] = retry_buffer[expected_seq + i - 1]
        BY <4>2, <2>1
      <4> HIDE DEF n
      <4> QED BY <3>1, <3>2, <4>3
    <3>5. Undelivered'[n + 1] = Head(fdi_in)
      <4>1. expected_seq + (n + 1) - 1 = next_seq
        BY <2>w
      <4>2. retry_buffer'[next_seq] = Head(fdi_in)
        BY <2>1
      <4> HIDE DEF n
      <4> QED BY <3>1, <3>2, <4>1, <4>2
    <3> HIDE DEF n
    <3> QED BY <3>1, <3>2, <3>3, <3>4, <3>5
  <2> QED BY <1>1, <2>1, <2>2, <2>3 DEF Channel!Accept
<1> QED BY <1>2, <1>3 DEF SenderLoop, StartReplay, StartWait

\* feedback never changes what is still to be delivered.
LEMMA FeedbackRefines ==
    ASSUME LinkInv, Feedback
    PROVE  UNCHANGED Channel!channelVars
<1>1. UNCHANGED <<fdi_in, fdi_out, next_seq, expected_seq>> /\ (FeedbackAck \/ FeedbackNak)
  BY DEF Feedback, fdiVars, rxVars
<1>2. CASE FeedbackNak
  BY <1>1, <1>2 DEF FeedbackNak, Undelivered, Channel!channelVars
<1>3. CASE FeedbackAck
  <2> DEFINE n == Head(fb).seq
  <2>1. fb # <<>> /\ ~Head(fb).is_nak /\ fb \in Seq(FbMsg) /\ FbInv
        /\ retry_buffer' = [s \in Seqs \ Acked(n) |-> retry_buffer[s]]
    BY <1>3 DEF FeedbackAck, LinkInv, TypeOK
  <2>2. Head(fb) = fb[1] /\ fb[1] \in FbMsg /\ 1 \in 1..Len(fb)
    BY <2>1, TailFacts
  <2>3. n \in Nat /\ n < expected_seq
    BY <2>1, <2>2 DEF FbInv, FbMsg
  <2>w. /\ next_seq \in Nat /\ expected_seq \in Nat /\ expected_seq <= next_seq
        /\ \A s \in Nat : s >= expected_seq /\ s < next_seq => s \in Seqs
    BY WindowFacts
  <2> HIDE DEF n
  <2>4. \A i \in 1..(next_seq - expected_seq) :
            retry_buffer'[expected_seq + i - 1] = retry_buffer[expected_seq + i - 1]
    <3> TAKE i \in 1..(next_seq - expected_seq)
    <3>1. expected_seq + i - 1 \in Seqs /\ expected_seq + i - 1 > n
      BY <2>3, <2>w
    <3>2. expected_seq + i - 1 \in Seqs \ Acked(n)
      BY <3>1, <2>3, <2>w DEF Acked
    <3> QED BY <3>2, <2>1
  <2>5. Undelivered' = Undelivered
    BY <1>1, <2>4 DEF Undelivered
  <2> QED BY <1>1, <2>5 DEF Channel!channelVars
<1> QED BY <1>1, <1>2, <1>3

\* RxAdapter hands out the head of the channel or nothing.
LEMMA RxRunRefines ==
    ASSUME LinkInv, LinkInv', RxRun
    PROVE  Channel!Deliver \/ UNCHANGED Channel!channelVars
<1> DEFINE f == Head(wire)
<1>1. /\ wire # <<>> /\ UNCHANGED <<fdi_in, next_seq, retry_buffer>>
      /\ RxInOrder(f) \/ RxDuplicate(f) \/ RxError(f)
  BY DEF RxRun, txVars
<1>2. CASE UNCHANGED <<fdi_out, expected_seq>>
  BY <1>1, <1>2 DEF Undelivered, Channel!channelVars
<1>3. CASE RxInOrder(f)
  <2>1. /\ InOrder(f, expected_seq) /\ Len(fdi_out) < OutDepth
        /\ fdi_out' = Append(fdi_out, f.data) /\ expected_seq' = expected_seq + 1
    BY <1>3 DEF RxInOrder
  <2>2. f.crc_ok /\ f.seq = expected_seq
    BY <1>1, <2>1, HeadClassified DEF InOrder
  <2>3. wire \in Seq(Frame)
    BY DEF LinkInv, TypeOK
  <2>4. f = wire[1] /\ 1 \in 1..Len(wire) /\ f \in Frame
    BY <1>1, <2>3, TailFacts
  <2>5. f.seq < next_seq /\ f.data = retry_buffer[expected_seq]
    <3>1. FrameOK(f, next_seq, expected_seq, retry_buffer)
      BY <2>4 DEF LinkInv, FlightInv
    <3>2. f.seq >= expected_seq
      BY <2>2, WindowFacts
    <3> QED BY <2>2, <3>1, <3>2 DEF FrameOK
  <2> HIDE DEF f
  <2> DEFINE n == next_seq - expected_seq
  <2>w. next_seq \in Nat /\ expected_seq \in Nat /\ n \in Nat /\ n > 0
    BY <2>2, <2>5, WindowFacts
  <2>6. /\ Undelivered \in Seq(Flits) /\ Len(Undelivered) = n
        /\ \A i \in 1..n : Undelivered[i] = retry_buffer[expected_seq + i - 1]
    BY UndeliveredSeq DEF UndeliveredIsSeq
  <2>7. Undelivered # <<>> /\ Head(Undelivered) = f.data
    <3>1. 1 \in 1..n /\ expected_seq + 1 - 1 = expected_seq
      BY <2>w
    <3>2. Undelivered[1] = retry_buffer[expected_seq]
      BY <2>6, <3>1
    <3> HIDE DEF n
    <3> QED BY <2>5, <2>6, <2>w, <3>2
  <2>8. Undelivered' = Tail(Undelivered)
    <3>1. /\ Undelivered' \in Seq(Flits) /\ Len(Undelivered') = n - 1
          /\ \A i \in 1..(n - 1) : Undelivered'[i] = retry_buffer[(expected_seq + 1) + i - 1]
      <4>1. /\ Undelivered' \in Seq(Flits)
            /\ Len(Undelivered') = next_seq' - expected_seq'
            /\ \A i \in 1..(next_seq' - expected_seq') :
                  Undelivered'[i] = retry_buffer'[expected_seq' + i - 1]
        <5>1. UndeliveredIsSeq'
          BY UndeliveredSeq, PTL
        <5> QED BY <5>1 DEF UndeliveredIsSeq
      <4>2. next_seq' - expected_seq' = n - 1
        BY <1>1, <2>1, <2>w
      <4> HIDE DEF n
      <4> QED BY <1>1, <2>1, <4>1, <4>2
    <3>2. /\ Tail(Undelivered) \in Seq(Flits) /\ Len(Tail(Undelivered)) = n - 1
          /\ \A i \in 1..(n - 1) : Tail(Undelivered)[i] = Undelivered[i + 1]
      BY <2>6, <2>7, TailFacts
    <3>3. ASSUME NEW i \in 1..(n - 1) PROVE Undelivered'[i] = Tail(Undelivered)[i]
      <4>1. i + 1 \in 1..n /\ (expected_seq + 1) + i - 1 = expected_seq + (i + 1) - 1
        BY <2>w
      <4> HIDE DEF n
      <4> QED BY <2>6, <3>1, <3>2, <4>1
    <3> HIDE DEF n
    <3> QED BY <2>w, <3>1, <3>2, <3>3
  <2> QED BY <1>1, <2>1, <2>7, <2>8 DEF Channel!Deliver
<1> QED BY <1>1, <1>2, <1>3 DEF RxDuplicate, RxError, rxVars

\* The initial link is the empty channel.
LEMMA InitRefines == Init => Channel!ChannelInit
<1> SUFFICES ASSUME Init PROVE Channel!ChannelInit
  OBVIOUS
<1>1. next_seq - expected_seq = 0 /\ fdi_in = <<>> /\ fdi_out = <<>>
  BY DEF Init
<1>2. Undelivered = <<>>
  BY <1>1 DEF Undelivered
<1> QED BY <1>1, <1>2 DEF Channel!ChannelInit

\* Every step of a thread of the link is a step of the channel or invisible to its users.
LEMMA NextRefines ==
    LinkInv /\ LinkInv' /\ [Next]_vars => [Channel!ChannelNext]_(Channel!channelVars)
<1> SUFFICES ASSUME LinkInv, LinkInv', [Next]_vars
             PROVE  Channel!ChannelNext \/ UNCHANGED Channel!channelVars
  OBVIOUS
<1>a. Channel!Accept \/ Channel!Deliver => Channel!ChannelNext
  BY DEF Channel!ChannelNext
<1>1. CASE Trained \/ Woken
  BY <1>1, <1>a, SenderLoopRefines DEF Trained, Woken
<1>2. CASE \E ok \in BOOLEAN : Serialized(ok)
  <2>1. PICK ok \in BOOLEAN : Serialized(ok)
    BY <1>2
  <2>2. UNCHANGED <<fdi_out, rxVars>>
    BY <2>1 DEF Serialized
  <2>3. CASE cur[1].replay
    <3>1. PICK c \in CursorAfter(cur[1].seq) :
             SenderLoop(replay_active /\ c <= replay_end, c, replay_end)
      BY <2>1, <2>3 DEF Serialized
    <3> QED BY <1>a, <2>2, <3>1, SenderLoopRefines
  <2>4. CASE ~cur[1].replay
    <3>1. SenderLoop(replay_active, replay_cursor, replay_end)
      BY <2>1, <2>4 DEF Serialized
    <3> QED BY <1>a, <2>2, <3>1, SenderLoopRefines
  <2> QED BY <2>3, <2>4
<1>3. CASE ReplayTimeout
  <2>1. PICK b \in Least, e \in Greatest : SenderLoop(TRUE, b, e)
    BY <1>3 DEF ReplayTimeout
  <2> QED BY <1>3, <1>a, <2>1, SenderLoopRefines DEF ReplayTimeout
<1>4. CASE Feedback
  BY <1>4, FeedbackRefines
<1>5. CASE RxRun
  BY <1>5, <1>a, RxRunRefines
<1>6. CASE \E flit \in Flits : Put(flit)
  <2>1. PICK flit \in Flits : Put(flit)
    BY <1>6
  <2>2. UNCHANGED <<fdi_out, next_seq, expected_seq, retry_buffer>>
        /\ Len(fdi_in) < InDepth /\ fdi_in' = Append(fdi_in, flit)
    BY <2>1 DEF Put, rxVars
  <2>3. Undelivered' = Undelivered
    BY <2>2 DEF Undelivered
  <2>4. Channel!Put(flit)
    BY <2>2, <2>3 DEF Channel!Put
  <2> QED BY <2>4 DEF Channel!ChannelNext
<1>7. CASE Get
  <2>1. UNCHANGED <<fdi_in, next_seq, expected_seq, retry_buffer>>
        /\ fdi_out # <<>> /\ fdi_out' = Tail(fdi_out)
    BY <1>7 DEF Get, txVars, rxVars
  <2>2. Undelivered' = Undelivered
    BY <2>1 DEF Undelivered
  <2>3. Channel!Get
    BY <2>1, <2>2 DEF Channel!Get
  <2> QED BY <2>3 DEF Channel!ChannelNext
<1>8. CASE Quiescent \/ UNCHANGED vars
  <2>1. UNCHANGED <<fdi_in, fdi_out, next_seq, expected_seq, retry_buffer>>
    BY <1>8 DEF Quiescent, vars, fdiVars, txVars, rxVars
  <2> QED BY <2>1 DEF Undelivered, Channel!channelVars
<1> QED BY <1>1, <1>2, <1>3, <1>4, <1>5, <1>6, <1>7, <1>8 DEF Next

\* One direction of UcieLink implements a FIFO channel: in whatever way frames are corrupted,
\* replayed and acknowledged, flits leave it exactly once, unaltered and in order.
THEOREM LinkImplementsChannel == Spec => ImplementsChannel
<1>1. Init => Channel!ChannelInit
  BY InitRefines
<1>2. LinkInv /\ LinkInv' /\ [Next]_vars => [Channel!ChannelNext]_(Channel!channelVars)
  BY NextRefines
<1> QED BY <1>1, <1>2, LinkInvariant, PTL DEF Spec, ImplementsChannel, Channel!ChannelSpec
=============================================================================
