---------------------------- MODULE HetAxiMonitor --------------------------
(***************************************************************************)
(* HetAxiMonitor (src/gem5_new/gem5int/src/hettrace/het_axi_monitor.cc) on    *)
(* the path from the requesters to UnifiedMemory, and its trace writers        *)
(* (src/gem5_new/libhettrace/include/hettrace/writer.h).  A packet that        *)
(* passes is split into AXI bursts; the records of its request are written     *)
(* when the memory has taken it, those of its answer when the requester has.   *)
(* In atomic mode an answer's time is in the future when it is known: its       *)
(* records wait in pendingAtomicCompletions.                                 *)
(*                                                                         *)
(* The requesters' side of the ports is external: one packet that was refused  *)
(* waits for the retry, an answer may be refused and is asked for again.       *)
(***************************************************************************)
EXTENDS UnifiedMemory

CONSTANTS
    AxiDataBytes, PageBytes, MaxBeats,      \* of a beat, of a page that no burst crosses (4096), of a burst (256)
    IdCount,                                \* 2^axi_id_bits
    BufferSize,                             \* HETTRACE_BUFSZ
    Untraced,                               \* the bytes outside of the windows that are traced
    MaxRefusals                             \* a bound: answers refused

Sources == {"host", "npu"}

\* What the constants must be.
ASSUME TrafficAssumption ==
    /\ {Latency, RetryDelay, LastSend, MaxRefusals} \subseteq Nat
    /\ \A c \in Systems : \A p \in DOMAIN c.packets :
           {c.packets[p].addr, c.packets[p].size, c.packets[p].delay, c.packets[p].duration} \subseteq Nat

VARIABLES
    mode,               \* of the system: "atomic" or "timing"
    phase,              \* packet -> "unsent", "parked", "sent", "done"
    answers,            \* history: the packets in the order of their answers
    taken,              \* history: the packets in the order in which the memory took them
    respRetryEvent,     \* when the requester asks again for an answer
    refusals,
    mon,                \* the monitor: see MonInit
    writers,            \* source -> trace writer: see WriterInit
    writersStopped             \* "no", "closed" or "killed"
hetVars == <<system, now, memVars, mode, phase, answers, taken, respRetryEvent, refusals, mon, writers, writersStopped>>

PowersOfTwo == {1, 2, 4, 8, 16, 32, 64}

\* makeTraceState(): the AXI bursts of a packet.
BurstAt(address, remaining) ==
    LET beat == Max({b \in PowersOfTwo : b <= AxiDataBytes /\ b <= remaining /\ address % b = 0})
    IN  [addr |-> address, size |-> beat,
         beats |-> Min({remaining \div beat, MaxBeats, (PageBytes - (address % PageBytes)) \div beat})]

Bursts(p) ==
    LET size == packet(p).size
        from[done \in 0 .. size] ==
            IF done = size THEN <<>>
            ELSE LET burst == BurstAt(packet(p).addr + done, size - done)
                 IN  <<burst>> \o from[done + burst.beats * burst.size]
    IN  from[0]

\* The lanes of a beat whose bytes are enabled.
Strobe(p, beatAddr, size) ==
    {b % AxiDataBytes : b \in (beatAddr .. beatAddr + size - 1) \cap packet(p).enabled}

IsTracedPacket(p) == packet(p).size # 0 /\ packet(p).traced

-----------------------------------------------------------------------------
(* TraceWriter: filter, number and buffer a record; Flush at the capacity.    *)

WriterInit == [buffer |-> <<>>, file |-> <<>>, emitted |-> 0, filtered |-> 0, nonMonotonic |-> 0,
               lastTick |-> 0, nextTxn |-> 0, meta |-> -1]

Flush(w) == [w EXCEPT !.file = @ \o w.buffer, !.buffer = <<>>]

Push(w, record) ==
    IF record.addr \in Untraced THEN [w EXCEPT !.filtered = @ + 1]
    ELSE LET pushed == [w EXCEPT
                 !.nonMonotonic = IF w.emitted # 0 /\ record.tick < w.lastTick THEN @ + 1 ELSE @,
                 !.lastTick = record.tick,
                 !.emitted = @ + 1,
                 !.buffer = Append(@, record @@ [seq |-> w.emitted])]
         IN  IF Len(pushed.buffer) >= BufferSize THEN Flush(pushed) ELSE pushed

\* Close: the rest of the buffer, then the side-car file with the counters.
CloseWriter(w) == [Flush(w) EXCEPT !.meta = w.emitted]

Record(p, logged, tick, chan, addr, size, strobe) ==
    [pkt |-> p, tick |-> tick, chan |-> chan, addr |-> addr, size |-> size, strb |-> strobe,
     txn |-> logged.txn, id |-> logged.id]

BeatRecords(p, logged, tick, chan) ==
    [i \in 1 .. logged.beats |->
        LET addr == logged.addr + (i - 1) * logged.size
        IN  Record(p, logged, tick, chan, addr, logged.size,
                   IF chan = "W" THEN Strobe(p, addr, logged.size) ELSE {})]

\* BeginWrite: AW and every W.  BeginRead: AR alone.
BeginRecords(p, logged, tick) ==
    LET bytes == logged.beats * logged.size
    IN  IF packet(p).write
        THEN <<Record(p, logged, tick, "AW", logged.addr, bytes, {})>> \o BeatRecords(p, logged, tick, "W")
        ELSE <<Record(p, logged, tick, "AR", logged.addr, bytes, {})>>

\* CompleteWrite: B.  CompleteRead: every R.
CompleteRecords(p, logged, tick) ==
    IF packet(p).write THEN <<Record(p, logged, tick, "B", logged.addr, 0, {})>>
    ELSE BeatRecords(p, logged, tick, "R")

PushAll(w, p, tick, loggeds, Records(_, _, _)) ==
    FoldLeft(Push, w, FlattenSeq([i \in 1 .. Len(loggeds) |-> Records(p, loggeds[i], tick)]))

-----------------------------------------------------------------------------
(* The monitor and its writers as one value m: [mon, writers].                *)

MonInit == [active |-> TRUE, fatal |-> FALSE, attached |-> [p \in Packets |-> 0], logged |-> [p \in Packets |-> <<>>],
            liveIds |-> [s \in Sources |-> {}], nextIds |-> [s \in Sources |-> 0], pending |-> {}, sequence |-> 0]

\* The first ID from nextIds on that no packet of this source has; -1 if there is none.
FreeId(mon_, s) ==
    LET Tried(k) == (mon_.nextIds[s] + k) % IdCount
        free == {k \in 0 .. IdCount - 1 : Tried(k) \notin mon_.liveIds[s]}
    IN  IF free = {} THEN -1 ELSE Tried(Min(free))

\* emitBegin: an ID for the packet, a transaction for each of its bursts.
EmitBegin(m, p) ==
    LET s == packet(p).source
        id == IF system.unique THEN FreeId(m.mon, s) ELSE 0
        bursts == Bursts(p)
        loggeds == [i \in 1 .. Len(bursts) |-> bursts[i] @@ [txn |-> m.writers[s].nextTxn + i - 1, id |-> id]]
        numbered == [m.writers[s] EXCEPT !.nextTxn = @ + Len(bursts)]
    IN  IF id < 0 THEN [m EXCEPT !.mon.fatal = TRUE]
        ELSE [mon |-> [m.mon EXCEPT
                  !.logged[p] = loggeds,
                  !.liveIds[s] = IF system.unique THEN @ \cup {id} ELSE @,
                  !.nextIds[s] = IF system.unique THEN (id + 1) % IdCount ELSE @],
              writers |-> [m.writers EXCEPT ![s] = PushAll(numbered, p, now, loggeds, BeginRecords)]]

\* emitComplete: the records of the answer; the ID is free again.
EmitComplete(m, p, tick) ==
    LET s == packet(p).source
        loggeds == m.mon.logged[p]
    IN  [mon |-> [m.mon EXCEPT !.liveIds[s] = IF system.unique THEN @ \ {loggeds[1].id} ELSE @],
         writers |-> [m.writers EXCEPT ![s] = PushAll(@, p, tick, loggeds, CompleteRecords)]]

QueueAtomic(m, p, tick) ==
    [m EXCEPT !.mon.pending = @ \cup {[tick |-> tick, sequence |-> m.mon.sequence, pkt |-> p]},
              !.mon.sequence = @ + 1]

\* flushAtomicCompletions: in the order of their keys, those due by the tick through.
FlushAtomic(m, s, through) ==
    LET due == {c \in m.mon.pending : packet(c.pkt).source = s /\ c.tick <= through}
        Earlier(c, d) == c.tick < d.tick \/ (c.tick = d.tick /\ c.sequence < d.sequence)
        Emit(n, c) == EmitComplete([n EXCEPT !.mon.pending = @ \ {c}], c.pkt, c.tick)
    IN  FoldLeft(Emit, m, SetToSortSeq(due, Earlier))

\* No answer is due after this tick: it stands for the maximal Tick.
LastTick == now + Latency

Monitor == [mon |-> mon, writers |-> writers]
MonitorBecomes(m) == mon' = m.mon /\ writers' = m.writers

-----------------------------------------------------------------------------
HetInit ==
    /\ system \in Systems
    /\ now = 1
    /\ MemInit
    /\ mode = IF system.atomic THEN "atomic" ELSE "timing"
    /\ phase = [p \in Packets |-> "unsent"]
    /\ answers = <<>> /\ taken = <<>>
    /\ respRetryEvent = {} /\ refusals = 0
    /\ mon = MonInit
    /\ writers = [s \in Sources |-> WriterInit]
    /\ writersStopped = "no"

Running == writersStopped = "no" /\ ~mon.fatal

\* Fault: atomic answers that are due stay behind.
ObservedUnflushed(p) ==
    LET begun == EmitBegin(Monitor, p)
    IN  IF ~IsTracedPacket(p) THEN Monitor
        ELSE IF packet(p).reply THEN [begun EXCEPT !.mon.attached[p] = @ + 1]
        ELSE IF begun.mon.fatal THEN begun ELSE EmitComplete(begun, p, now)

\* recvTimingReq of the monitor once the memory has taken the packet: the records of the request,
\* and those of an answer that will never come.
Observed(p) ==
    LET flushed == FlushAtomic(Monitor, packet(p).source, now)
        begun == EmitBegin(flushed, p)
    IN  IF ~IsTracedPacket(p) THEN Monitor
        ELSE IF packet(p).reply THEN [begun EXCEPT !.mon.attached[p] = @ + 1]
        ELSE IF begun.mon.fatal THEN begun ELSE EmitComplete(begun, p, now)

Passed(p) ==
    /\ Take(p)
    /\ MonitorBecomes(Observed(p))
    /\ phase' = [phase EXCEPT ![p] = IF packet(p).reply THEN "sent" ELSE "done"]
    /\ taken' = Append(taken, p)

\* The sender state goes on the packet before the memory is asked, and off again when it refuses.
Refused(p) ==
    LET pushed == IF IsTracedPacket(p) /\ packet(p).reply THEN mon.attached[p] + 1 ELSE mon.attached[p]
        popped == IF IsTracedPacket(p) /\ packet(p).reply THEN pushed - 1 ELSE pushed
    IN  /\ Refuse
        /\ mon' = [mon EXCEPT !.attached[p] = popped]
        /\ phase' = [phase EXCEPT ![p] = "parked"]
        /\ UNCHANGED <<writers, taken>>

NoneParked == \A p \in Packets : phase[p] # "parked"

\* The request's way through monitor and memory.
Send(p) ==
    /\ Running /\ mode = "timing"
    /\ phase[p] = "unsent" /\ NoneParked
    /\ IF CanTake THEN Passed(p) /\ UNCHANGED retryReq ELSE Refused(p)
    /\ UNCHANGED <<system, now, mode, answers, respRetryEvent, refusals, writersStopped>>

\* release(): the flag is taken back before the retry is sent, as the packet comes again in that
\* very call, or later.
Release ==
    /\ Running /\ releaseEvent = {now}
    /\ retryReq' = FALSE
    /\ \/ \E p \in Packets : retryReq /\ phase[p] = "parked" /\ Passed(p)
       \/ /\ releaseEvent' = {}
          /\ phase' = [p \in Packets |-> IF retryReq /\ phase[p] = "parked" THEN "unsent" ELSE phase[p]]
          /\ UNCHANGED <<pages, packetQueue, dequeueEvent, retryResp, drainState, found, mon, writers, taken>>
    /\ UNCHANGED <<system, now, mode, answers, respRetryEvent, refusals, writersStopped>>

\* sendTimingResp through the monitor: its state comes off the packet, and goes back when the
\* requester refuses.
Answer(p) ==
    \/ /\ refusals < MaxRefusals
       /\ AnswerRefused
       /\ refusals' = refusals + 1
       /\ respRetryEvent' = {now + RetryDelay}
       /\ UNCHANGED <<mon, writers, phase, answers>>
    \/ /\ AnswerTaken
       /\ phase' = [phase EXCEPT ![p] = "done"]
       /\ answers' = Append(answers, p)
       /\ respRetryEvent' = {}
       /\ MonitorBecomes(
              IF mon.attached[p] = 0 THEN Monitor
              ELSE EmitComplete(FlushAtomic([Monitor EXCEPT !.mon.attached[p] = @ - 1], packet(p).source, now),
                                p, now))
       /\ UNCHANGED refusals

\* dequeue() by its event, and by recvRespRetry.
Dequeue ==
    /\ Running /\ dequeueEvent = {now}
    /\ Answer(packetQueue[1].pkt)
    /\ UNCHANGED <<system, now, mode, taken, writersStopped>>

RecvRespRetry ==
    /\ Running /\ respRetryEvent = {now}
    /\ Answer(packetQueue[1].pkt)
    /\ UNCHANGED <<system, now, mode, taken, writersStopped>>

\* recvAtomic: the memory answers with its latency, and the answer's records wait until then.
RecvAtomic(p) ==
    LET s == packet(p).source
        begun == EmitBegin(FlushAtomic(Monitor, s, now), p)
    IN  /\ Running /\ mode = "atomic"
        /\ phase[p] = "unsent"
        /\ Access(p)
        /\ phase' = [phase EXCEPT ![p] = "done"]
        /\ taken' = Append(taken, p)
        /\ MonitorBecomes(
               IF ~IsTracedPacket(p) THEN Monitor
               ELSE IF begun.mon.fatal THEN begun
               ELSE FlushAtomic(QueueAtomic(begun, p, now + Latency), s, now))
        /\ UNCHANGED <<system, now, releaseEvent, retryReq, packetQueue, dequeueEvent, retryResp, drainState,
                       mode, answers, respRetryEvent, refusals, writersStopped>>

\* The system leaves its fast-forward mode.
SwitchMode ==
    /\ Running /\ mode = "atomic" /\ mode' = "timing"
    /\ UNCHANGED <<system, now, memVars, phase, answers, taken, respRetryEvent, refusals, mon, writers, writersStopped>>

DrainMemory ==
    /\ Running /\ mode = "timing" /\ Drain
    /\ UNCHANGED <<system, now, mode, phase, answers, taken, respRetryEvent, refusals, mon, writers, writersStopped>>

\* closeTrace, at the exit: every completion there still is, then the files.
CloseTraces ==
    LET host == FlushAtomic(Monitor, "host", LastTick)
        all == FlushAtomic(host, "npu", LastTick)
    IN  /\ Running
        /\ mon' = [all.mon EXCEPT !.active = FALSE]
        /\ writers' = [s \in Sources |-> CloseWriter(all.writers[s])]
        /\ writersStopped' = "closed"
        /\ UNCHANGED <<system, now, memVars, mode, phase, answers, taken, respRetryEvent, refusals>>

\* The process is killed: what was in the buffers is lost.
Kill ==
    /\ writersStopped = "no"
    /\ writers' = [s \in Sources |-> [writers[s] EXCEPT !.buffer = <<>>]]
    /\ writersStopped' = "killed"
    /\ UNCHANGED <<system, now, memVars, mode, phase, answers, taken, respRetryEvent, refusals, mon>>

\* Time goes on to the next event, once every event of this time is done.
Scheduled == releaseEvent \cup dequeueEvent \cup respRetryEvent
HetTick ==
    LET next == Scheduled \cup IF now < LastSend /\ \E p \in Packets : phase[p] = "unsent" THEN {now + 1} ELSE {}
    IN  /\ Running
        /\ now \notin Scheduled /\ next # {}
        /\ now' = Min(next)
        /\ UNCHANGED <<system, memVars, mode, phase, answers, taken, respRetryEvent, refusals, mon, writers, writersStopped>>

\* What the event queue and the requesters do without an end of the process.
Progress == Release \/ Dequeue \/ RecvRespRetry \/ HetTick \/ SwitchMode \/ \E p \in Packets : Send(p) \/ RecvAtomic(p)

\* When it can: as ENABLED Progress, which is slow to evaluate.
CanProgress ==
    Running /\ (mode = "atomic" \/ Scheduled # {} \/ (NoneParked /\ \E p \in Packets : phase[p] = "unsent"))

HetNext == Progress \/ DrainMemory \/ CloseTraces \/ Kill

HetSpec == HetInit /\ [][HetNext]_hetVars

-----------------------------------------------------------------------------
HetTypeOK ==
    /\ now \in Nat /\ refusals \in 0 .. MaxRefusals
    /\ phase \in [Packets -> {"unsent", "parked", "sent", "done"}]
    /\ drainState \in {"Running", "Draining", "Drained"}
    /\ writersStopped \in {"no", "closed", "killed"}

\* What a packet's life has written so far, in file and buffer.
Written(s) == writers[s].file \o writers[s].buffer
RecordsOf(p, chans) == SelectSeq(Written(packet(p).source), LAMBDA r : r.pkt = p /\ r.chan \in chans)

Pending(p) == \E c \in mon.pending : c.pkt = p
InWindow(p) == BytesOf(p) \cap Untraced = {}
Begun(p) == p \in Range(taken) /\ mon.logged[p] # <<>>
Completed(p) == Begun(p) /\ phase[p] = "done" /\ ~Pending(p)

\* The bytes that a packet's records of a channel name, each of them once.
NamedBytes(p, chans) ==
    LET records == RecordsOf(p, chans) IN UNION {records[i].addr .. records[i].addr + records[i].size - 1 : i \in DOMAIN records}
NamedOnce(p, chans) == FoldLeft(LAMBDA n, r : n + r.size, 0, RecordsOf(p, chans)) = packet(p).size
LanesNamed(p) ==
    LET records == RecordsOf(p, {"W"})
    IN  UNION {{b \in records[i].addr .. records[i].addr + records[i].size - 1 : b % AxiDataBytes \in records[i].strb}
                  : i \in DOMAIN records}

\* A burst is one that AXI allows.
Legal(r) ==
    /\ (r.addr % PageBytes) + r.size <= PageBytes
    /\ r.size <= MaxBeats * AxiDataBytes

\* Until a process is killed, the trace is the traffic: a packet that the memory took has the
\* records of its request, bytes and strobes each named once by legal bursts, and those of its
\* answer once it is answered; one that was refused has none, however often it was tried; time never
\* goes back in a source's trace, atomic answers included; numbers have no gap; and IDs of packets
\* in flight differ.
TraceIsTraffic ==
    writersStopped # "killed" /\ ~mon.fatal =>
        /\ \A p \in Packets : (IsTracedPacket(p) /\ InWindow(p)) =>
              /\ p \notin Range(taken) => RecordsOf(p, {"AW", "W", "B", "AR", "R"}) = <<>>
              /\ Begun(p) => /\ NamedBytes(p, {"AW", "AR"}) = BytesOf(p) /\ NamedOnce(p, {"AW", "AR"})
                             /\ \A i \in DOMAIN RecordsOf(p, {"AW", "AR"}) : Legal(RecordsOf(p, {"AW", "AR"})[i])
              /\ Begun(p) /\ packet(p).write =>
                    NamedOnce(p, {"W"}) /\ LanesNamed(p) = packet(p).enabled
              /\ Len(RecordsOf(p, {"B"})) = IF Completed(p) /\ packet(p).write THEN Len(mon.logged[p]) ELSE 0
              /\ Completed(p) /\ ~packet(p).write => NamedBytes(p, {"R"}) = BytesOf(p) /\ NamedOnce(p, {"R"})
              /\ ~Completed(p) => RecordsOf(p, {"R"}) = <<>>
        /\ \A p \in Packets : p \in Range(taken) /\ IsTracedPacket(p) => mon.logged[p] # <<>>
        /\ \A s \in Sources : writers[s].nonMonotonic = 0
        /\ \A s \in Sources : \A i \in DOMAIN Written(s) : Written(s)[i].seq = i - 1
        /\ system.unique => \A p, q \in Packets :
              (p # q /\ Begun(p) /\ Begun(q) /\ packet(p).source = packet(q).source
                 /\ ~Completed(p) /\ ~Completed(q)) => mon.logged[p][1].id # mon.logged[q][1].id
        /\ \A p \in Packets : mon.attached[p] = IF IsTracedPacket(p) /\ phase[p] = "sent" THEN 1 ELSE 0
\* After a close nothing is missing, and the counters say so.
        /\ writersStopped = "closed" => /\ mon.pending = {}
                                 /\ \A s \in Sources : writers[s].buffer = <<>> /\ writers[s].meta = Len(writers[s].file)

\* A read finds what was written last before it was taken; answers to one address come in the order
\* of their requests, and none before its time; and while an answer waits, its event is scheduled or
\* the requester will ask.
AnswersRight ==
    /\ HetTypeOK
    /\ \A p \in Packets : p \in Range(taken) =>
          \A b \in BytesOf(p) :
              LET before == {i \in DOMAIN taken : taken[i] # p /\ packet(taken[i]).write
                                                    /\ b \in packet(taken[i]).enabled
                                                    /\ \E j \in DOMAIN taken : i < j /\ taken[j] = p}
              IN  found[p][b] = IF before = {} THEN 0 ELSE taken[Max(before)]
    /\ \A i, j \in DOMAIN answers : i < j /\ MatchAddr(answers[i], answers[j]) =>
          \E k, l \in DOMAIN taken : k < l /\ taken[k] = answers[i] /\ taken[l] = answers[j]
    /\ packetQueue # <<>> =>
          /\ (dequeueEvent # {}) # (respRetryEvent # {})
          /\ retryResp = (respRetryEvent # {})
          /\ dequeueEvent # {} => \A t \in dequeueEvent : t >= packetQueue[1].tick /\ t >= now
    /\ retryReq => releaseEvent # {} /\ \E p \in Packets : phase[p] = "parked"
    /\ drainState = "Draining" => packetQueue # <<>>

\* Every packet is taken and answered in the end, unless the process ends.
AllDone == mon.fatal \/ writersStopped # "no" \/ \A p \in Packets : phase[p] = "done"

=============================================================================
