----------------------------- MODULE UcieLink -----------------------------
(***************************************************************************)
(* One direction of UcieLink (src/ucie-model/src/ucie_link.h): TxAdapter   *)
(* (threads sender and feedback), PhyChannel, RxAdapter and FeedbackPath.  *)
(* UcieLink holds two such directions with no shared state but the stats.  *)
(*                                                                         *)
(* SystemC threads are cooperative, so an action is what one thread does   *)
(* between two waits.  sender waits in three places: training, while a     *)
(* frame is serialised (send_one), and when it has nothing to send.        *)
(* feedback runs in between; this is where the two interfere.              *)
(*                                                                         *)
(* Abstracted: bytes, statistics, tx_state_ (written, never read) and the  *)
(* clock.  CRC16 is taken to detect every corruption the PHY produces.     *)
(* The PHY threads add latency and never block on their own unbounded      *)
(* deque, so tx_to_phy, pending_ and phy_to_rx are one FIFO, wire; the     *)
(* feedback FIFOs are likewise one FIFO, fb.                               *)
(***************************************************************************)
EXTENDS Integers, Sequences, FiniteSets

CONSTANTS
    Flits,          \* FdiFlit values
    Garbled,        \* what is left of a flit whose frame the PHY corrupted
    SeqMod,         \* 256: sequence numbers a frame's seq8 byte tells apart
    RetrySize,      \* Config::retry_buffer_size
    NakRepeat,      \* Config::nak_repeat_frames
    InDepth,        \* depth of the FDI FIFO read by sender
    OutDepth,       \* depth of the FDI FIFO written by RxAdapter
    MaxFlits,       \* bound: flits the producer writes in one behaviour
    MaxWire,        \* bound: frames in PhyChannel (pending_ has no bound)
    MaxFb           \* bound: ACK/NAK messages in FeedbackPath

\* require_valid_config: the window is less than half the sequence space.
ASSUME LinkAssumption ==
    /\ Garbled \notin Flits
    /\ SeqMod \in Nat /\ SeqMod > 0
    /\ RetrySize \in Nat /\ RetrySize > 0 /\ 2 * RetrySize < SeqMod
    /\ NakRepeat \in Nat /\ NakRepeat > 0
    /\ InDepth \in Nat /\ OutDepth \in Nat
    /\ MaxFlits \in Nat /\ MaxWire \in Nat /\ MaxFb \in Nat

VARIABLES
    fdi_in, fdi_out,                           \* the public sc_fifos
    tx_pc, cur, wake,                          \* where sender is, the frame it serialises
    next_seq, retry_buffer,                    \* TxAdapter
    replay_active, replay_cursor, replay_end,
    wire,                                      \* PhyChannel
    expected_seq, rx_state, frames_since_nak,  \* RxAdapter
    fb                                         \* FeedbackPath

fdiVars == <<fdi_in, fdi_out>>
replayVars == <<replay_active, replay_cursor, replay_end>>
txVars == <<tx_pc, cur, wake, next_seq, retry_buffer, replayVars>>
rxVars == <<expected_seq, rx_state, frames_since_nak>>
vars == <<fdiVars, txVars, wire, rxVars, fb>>

Frame == [seq : Nat, seq8 : 0..(SeqMod - 1), data : Flits \cup {Garbled},
          replay : BOOLEAN, crc_ok : BOOLEAN]
FbMsg == [is_nak : BOOLEAN, seq : Nat]

Seqs == DOMAIN retry_buffer

\* std::map::lower_bound on the retry buffer: {} stands for end().
LowerBound(n) == {s \in Seqs : s >= n /\ \A t \in Seqs : t >= n => s <= t}

Greatest == {s \in Seqs : \A t \in Seqs : t <= s}
Least == {s \in Seqs : \A t \in Seqs : s <= t}

Init ==
    /\ fdi_in = <<>> /\ fdi_out = <<>>
    /\ tx_pc = "train" /\ cur = <<>> /\ wake = "no"
    /\ next_seq = 0 /\ retry_buffer = <<>>
    /\ replay_active = FALSE /\ replay_cursor = 0 /\ replay_end = 0
    /\ wire = <<>>
    /\ expected_seq = 0 /\ rx_state = "NoRetry" /\ frames_since_nak = 0
    /\ fb = <<>>

-----------------------------------------------------------------------------
(* TxAdapter::sender                                                       *)

\* build_flit puts the low byte of seq in the header and protects it by the CRC.
BuildFlit(seq, flit, replay) ==
    [seq |-> seq, seq8 |-> seq % SeqMod, data |-> flit, replay |-> replay, crc_ok |-> TRUE]

\* send_one up to its wait: the frame is built before serialisation starts.
StartSendOne(seq, flit, replay) ==
    /\ cur' = <<BuildFlit(seq, flit, replay)>>
    /\ tx_pc' = "serialize"
    /\ wake' = "no"

StartReplay(cursor, end) ==
    /\ \E s \in LowerBound(cursor) : s <= end /\ StartSendOne(s, retry_buffer[s], TRUE)
    /\ replay_active' = TRUE
    /\ UNCHANGED <<fdi_in, next_seq, retry_buffer>>

WindowIgnored == TRUE    \* fault: the window is not checked
WindowOpen == Cardinality(Seqs) < RetrySize

StartNew ==
    /\ fdi_in # <<>> /\ WindowOpen
    /\ fdi_in' = Tail(fdi_in)
    /\ next_seq' = next_seq + 1
    /\ retry_buffer' = [s \in Seqs \cup {next_seq} |->
                           IF s = next_seq THEN Head(fdi_in) ELSE retry_buffer[s]]
    /\ StartSendOne(next_seq, Head(fdi_in), FALSE)
    /\ replay_active' = FALSE

StartWait ==
    /\ fdi_in = <<>> \/ ~WindowOpen
    /\ tx_pc' = "wait" /\ cur' = <<>> /\ wake' = "no"
    /\ replay_active' = FALSE
    /\ UNCHANGED <<fdi_in, next_seq, retry_buffer>>

\* One round of sender's loop, from its top to the next wait, given the replay state there.
SenderLoop(active, cursor, end) ==
    LET replays == active /\ \E s \in LowerBound(cursor) : s <= end
    IN  /\ replay_cursor' = cursor /\ replay_end' = end
        /\ \/ replays /\ StartReplay(cursor, end)
           \/ ~replays /\ StartNew
           \/ ~replays /\ StartWait

Trained ==
    /\ tx_pc = "train"
    /\ SenderLoop(replay_active, replay_cursor, replay_end)
    /\ UNCHANGED <<fdi_out, wire, rxVars, fb>>

\* BehavioralPhy::transmit may flip bits of any frame.
Transmit(frame, ok) ==
    IF ok THEN frame ELSE [frame EXCEPT !.data = Garbled, !.crc_ok = FALSE]

\* PhyChannel's threads pass every frame on in order; they never drop one.
PhyChannel(frame, ok) == Append(wire, Transmit(frame, ok))

\* it->first + 1 after send_one returns.  If feedback erased the entry meanwhile, the
\* iterator dangles and the read yields anything; 0..next_seq covers what lower_bound
\* and replay_end_ can tell apart.
CursorAfter(seq) == IF seq \in Seqs THEN {seq + 1} ELSE 0..next_seq

Serialized(ok) ==
    /\ tx_pc = "serialize"
    /\ Len(wire) < MaxWire
    /\ wire' = PhyChannel(cur[1], ok)
    /\ \/ /\ cur[1].replay
          /\ \E c \in CursorAfter(cur[1].seq) :
                SenderLoop(replay_active /\ c <= replay_end, c, replay_end)
       \/ /\ ~cur[1].replay
          /\ SenderLoop(replay_active, replay_cursor, replay_end)
    /\ UNCHANGED <<fdi_out, rxVars, fb>>

TimerExpired == wake # "feedback"

\* The timed wait ended with no event for replay_timeout_ui_, or data arrived that late.
\* RxAdapter may be blocked by its consumer for any time and replay_timeout_ui_ leaves out
\* max_skew_ui, so the timer may race any frame or feedback message.
ReplayTimeout ==
    /\ tx_pc = "wait" /\ TimerExpired /\ ~replay_active
    /\ \E b \in Least, e \in Greatest : SenderLoop(TRUE, b, e)
    /\ UNCHANGED <<fdi_out, wire, rxVars, fb>>

\* wake_ev_ or data_written_event ended the wait before the timeout.
Woken ==
    /\ tx_pc = "wait" /\ wake # "no"
    /\ SenderLoop(replay_active, replay_cursor, replay_end)
    /\ UNCHANGED <<fdi_out, wire, rxVars, fb>>

-----------------------------------------------------------------------------
(* TxAdapter::feedback                                                     *)

NotifyWake == wake' = IF tx_pc = "wait" THEN "feedback" ELSE wake

\* ACK(n) is cumulative.
AckedBelow(n) == {s \in Seqs : s < n}        \* fault: it->first < fb.seq
Acked(n) == {s \in Seqs : s <= n}

FeedbackAck ==
    /\ fb # <<>> /\ ~Head(fb).is_nak
    /\ retry_buffer' = [s \in Seqs \ Acked(Head(fb).seq) |-> retry_buffer[s]]
    /\ UNCHANGED replayVars

FeedbackNak ==
    /\ fb # <<>> /\ Head(fb).is_nak
    /\ \/ /\ LowerBound(Head(fb).seq) = {}
          /\ UNCHANGED replayVars
       \/ /\ replay_cursor' \in LowerBound(Head(fb).seq)
          /\ replay_end' \in Greatest
          /\ replay_active' = TRUE
    /\ UNCHANGED retry_buffer

Feedback ==
    /\ FeedbackAck \/ FeedbackNak
    /\ fb' = Tail(fb)
    /\ NotifyWake
    /\ UNCHANGED <<fdiVars, tx_pc, cur, next_seq, wire, rxVars>>

-----------------------------------------------------------------------------
(* RxAdapter::run                                                          *)

\* (check.seq8 - expected8) & 0xFF
SeqDiff(frame, expected) == (frame.seq8 - (expected % SeqMod)) % SeqMod

InOrderNoCrc(frame, expected) == SeqDiff(frame, expected) = 0    \* fault
InOrder(frame, expected) == frame.crc_ok /\ SeqDiff(frame, expected) = 0

\* diff > 127
Duplicate(frame, expected) == frame.crc_ok /\ SeqDiff(frame, expected) >= SeqMod \div 2

\* FeedbackPath delays messages and keeps their order; it loses none.
FeedbackPath(msg) == Append(fb, msg)

RxInOrder(frame) ==
    /\ InOrder(frame, expected_seq)
    /\ Len(fdi_out) < OutDepth
    /\ fdi_out' = Append(fdi_out, frame.data)
    /\ fb' = FeedbackPath([is_nak |-> FALSE, seq |-> expected_seq])
    /\ expected_seq' = expected_seq + 1
    /\ rx_state' = "NoRetry"
    /\ frames_since_nak' = 0

NextWanted == expected_seq    \* fault: acknowledges a frame not yet received
LastDelivered == expected_seq - 1

RxDuplicate(frame) ==
    /\ Duplicate(frame, expected_seq)
    /\ fb' = IF expected_seq > 0
                THEN FeedbackPath([is_nak |-> FALSE, seq |-> LastDelivered]) ELSE fb
    /\ UNCHANGED <<fdi_out, rxVars>>

SinceNak(send_nak) == IF send_nak THEN 0 ELSE frames_since_nak + 1

RxError(frame) ==
    /\ ~InOrder(frame, expected_seq) /\ ~Duplicate(frame, expected_seq)
    /\ LET send_nak == rx_state = "NoRetry" \/ frames_since_nak + 1 >= NakRepeat
       IN  /\ fb' = IF send_nak THEN FeedbackPath([is_nak |-> TRUE, seq |-> expected_seq]) ELSE fb
           /\ frames_since_nak' = SinceNak(send_nak)
    /\ rx_state' = "RetryInProgress"
    /\ UNCHANGED <<fdi_out, expected_seq>>

RxRun ==
    /\ wire # <<>> /\ Len(fb) < MaxFb
    /\ RxInOrder(Head(wire)) \/ RxDuplicate(Head(wire)) \/ RxError(Head(wire))
    /\ wire' = Tail(wire)
    /\ UNCHANGED <<fdi_in, txVars>>

-----------------------------------------------------------------------------
(* The FDI users                                                           *)

Put(flit) ==
    /\ Len(fdi_in) < InDepth
    /\ next_seq + Len(fdi_in) < MaxFlits
    /\ fdi_in' = Append(fdi_in, flit)
    /\ wake' = IF tx_pc = "wait" /\ wake = "no" THEN "data" ELSE wake
    /\ UNCHANGED <<fdi_out, tx_pc, cur, next_seq, retry_buffer, replayVars, wire, rxVars, fb>>

Get ==
    /\ fdi_out # <<>>
    /\ fdi_out' = Tail(fdi_out)
    /\ UNCHANGED <<fdi_in, txVars, wire, rxVars, fb>>

\* Every flit the producer had is delivered and acknowledged: the link may rest.
Quiescent ==
    /\ next_seq = MaxFlits
    /\ Seqs = {} /\ fdi_in = <<>> /\ fdi_out = <<>> /\ wire = <<>> /\ fb = <<>>
    /\ tx_pc = "wait"
    /\ UNCHANGED vars

Next ==
    \/ Trained
    \/ \E ok \in BOOLEAN : Serialized(ok)
    \/ ReplayTimeout
    \/ Woken
    \/ Feedback
    \/ RxRun
    \/ \E flit \in Flits : Put(flit)
    \/ Get
    \/ Quiescent

Spec == Init /\ [][Next]_vars

\* Threads are scheduled whenever they can run, the consumer keeps reading, and a frame
\* that is sent again and again gets through: transmit corrupts each one independently.
Fairness ==
    /\ WF_vars(Trained) /\ WF_vars(ReplayTimeout) /\ WF_vars(Woken)
    /\ WF_vars(Feedback) /\ WF_vars(RxRun) /\ WF_vars(Get)
    /\ WF_vars(\E ok \in BOOLEAN : Serialized(ok))
    /\ \A n \in 0..(MaxFlits - 1) : SF_vars(cur # <<>> /\ cur[1].seq = n /\ Serialized(TRUE))

FairSpec == Spec /\ Fairness

-----------------------------------------------------------------------------
(* Properties                                                              *)

\* Every variable of one direction has its type; sender holds a frame exactly while it serialises.
TypeOK ==
    /\ fdi_in \in Seq(Flits) /\ Len(fdi_in) <= InDepth
    /\ fdi_out \in Seq(Flits) /\ Len(fdi_out) <= OutDepth
    /\ tx_pc \in {"train", "serialize", "wait"}
    /\ \/ tx_pc = "serialize" /\ cur \in Seq(Frame) /\ Len(cur) = 1
       \/ tx_pc # "serialize" /\ cur = <<>>
    /\ wake \in {"no", "data", "feedback"} /\ (wake # "no" => tx_pc = "wait")
    /\ next_seq \in Nat
    /\ Seqs \subseteq Nat /\ retry_buffer \in [Seqs -> Flits]
    /\ replay_active \in BOOLEAN /\ replay_cursor \in Nat /\ replay_end \in Nat
    /\ wire \in Seq(Frame) /\ Len(wire) <= MaxWire
    /\ expected_seq \in Nat /\ frames_since_nak \in 0..(NakRepeat - 1)
    /\ rx_state \in {"NoRetry", "RetryInProgress"}
    /\ fb \in Seq(FbMsg) /\ Len(fb) <= MaxFb

\* The eight-bit comparison of RxAdapter::run never mistakes an old frame for the expected
\* one, a new one for a duplicate, or the reverse, however far the counters have wrapped.
SeqClassifiedRight ==
    \A i \in 1..Len(wire) : wire[i].crc_ok =>
        /\ InOrder(wire[i], expected_seq) <=> wire[i].seq = expected_seq
        /\ Duplicate(wire[i], expected_seq) <=> wire[i].seq < expected_seq

\* An ACK never frees a flit that RxAdapter has not delivered: the retry buffer is an
\* interval of at most RetrySize sequence numbers that ends at next_seq_ - 1 and holds
\* everything from expected_seq_ on.
RetryHoldsUndelivered ==
    \E b \in 0..expected_seq :
        /\ Seqs = b..(next_seq - 1)
        /\ expected_seq <= next_seq /\ next_seq <= b + RetrySize

\* What the two FDI users see: the flits between the two ends are the retry buffer from
\* expected_seq_ on, and the link is the FIFO of FdiChannel.
Undelivered == [i \in 1..(next_seq - expected_seq) |-> retry_buffer[expected_seq + i - 1]]
Channel == INSTANCE FdiChannel WITH Window <- RetrySize, chan <- Undelivered

\* The link loses, duplicates, reorders and alters no flit whatever the PHY corrupts and
\* however feedback and sender interleave.
ImplementsChannel == Channel!ChannelSpec

\* Every accepted flit is delivered although any frame, ACK-triggered or timed-out replay
\* may be corrupted again, and a NAK's restart of the replay may be overwritten by sender.
DeliversAll == Channel!ChannelLive

\* Every retry buffer entry is eventually freed by a cumulative ACK.
RetryDrains == \A n \in 0..(MaxFlits - 1) : []<>(n \notin Seqs)

\* sender's step after a replayed frame, when a NAK moved the cursor back meanwhile, goes on
\* with the sequence number the NAK asked for (MODELING_AND_VERIFICATION.md, 4.5.4).
NakRestartsReplay ==
    [][(/\ tx_pc = "serialize" /\ cur[1].replay /\ cur' # cur
        /\ replay_active /\ replay_cursor \in Seqs /\ replay_cursor < cur[1].seq)
       => (cur' # <<>> /\ cur'[1].seq = replay_cursor)]_vars

-----------------------------------------------------------------------------
(* The inductive invariant behind the properties                           *)

\* A frame in flight: its header byte, its distance behind expected_seq_, its contents.
FrameOK(f, next, expected, buffer) ==
    /\ f.seq < next
    /\ f.seq8 = f.seq % SeqMod
    /\ expected <= f.seq + RetrySize
    /\ f.crc_ok /\ f.seq >= expected => f.data = buffer[f.seq]

FlightInv ==
    /\ \A i \in 1..Len(wire) : FrameOK(wire[i], next_seq, expected_seq, retry_buffer)
    /\ cur # <<>> => FrameOK(cur[1], next_seq, expected_seq, retry_buffer)

\* A frame sent later is less than a window older than any frame sent before it.
OrderInv ==
    /\ \A i, j \in 1..Len(wire) : i < j => wire[i].seq < wire[j].seq + RetrySize
    /\ \A i \in 1..Len(wire) : cur # <<>> => wire[i].seq < cur[1].seq + RetrySize

\* Only what has been delivered is acknowledged.
FbInv == \A i \in 1..Len(fb) : IF fb[i].is_nak THEN fb[i].seq <= expected_seq
                                              ELSE fb[i].seq < expected_seq

\* TxAdapter, the frames and messages in flight and RxAdapter agree on what is
\* acknowledged, delivered and still to come.
LinkInv == TypeOK /\ RetryHoldsUndelivered /\ FlightInv /\ OrderInv /\ FbInv
=============================================================================
