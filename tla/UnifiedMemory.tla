---------------------------- MODULE UnifiedMemory --------------------------
(***************************************************************************)
(* UnifiedTimingMemory (src/gem5_new/gem5int/src/mem/unified_timing/          *)
(* unified_timing_memory.cc): a memory that takes one packet at a time,       *)
(* accesses its bytes when it takes the packet, and answers later.  Its two    *)
(* events, release and dequeue, and its two flags, that it owes the requester *)
(* a retry and that the requester owes it one, are what keeps it going.        *)
(*                                                                         *)
(* A definition whose name ends in one of the handlers' words is the part of   *)
(* an action that this memory does: HetAxiMonitor, in front of it, and the     *)
(* requester do the rest of it.  An event that is not scheduled is {}.         *)
(***************************************************************************)
EXTENDS Integers, FiniteSets, Sequences, SequencesExt

CONSTANTS
    Systems,        \* records: packets (see below), unique (the monitor's IDs), atomic (the first mode)
    Latency, RetryDelay,
    LastSend        \* requesters have new requests until then: a bound

VARIABLES
    system,            \* the configuration; it never changes
    now,
    pages,          \* byte -> the packet that wrote it last, 0 if none did
    releaseEvent, retryReq,
    packetQueue, dequeueEvent, retryResp,
    drainState,
    found           \* packet -> its bytes as its access found them
memVars == <<pages, releaseEvent, retryReq, packetQueue, dequeueEvent, retryResp, drainState, found>>

\* A packet: addr, size, the bytes enabled, write, reply (it needs a response), source, the time on
\* the bus before it, delay, and how long the memory is busy with it, duration.
Packets == DOMAIN system.packets
packet(p) == system.packets[p]
BytesOf(p) == packet(p).addr .. packet(p).addr + packet(p).size - 1
AllBytes == UNION {BytesOf(p) : p \in Packets}

MemInit ==
    /\ pages = [b \in AllBytes |-> 0]
    /\ found = [p \in Packets |-> <<>>]
    /\ packetQueue = <<>>
    /\ releaseEvent = {} /\ dequeueEvent = {}
    /\ retryReq = FALSE /\ retryResp = FALSE
    /\ drainState = "Running"

\* access(): a read takes the bytes as they are; a write sets those that are enabled.
Access(p) ==
    /\ found' = [found EXCEPT ![p] = [b \in BytesOf(p) |-> pages[b]]]
    /\ pages' = IF packet(p).write THEN [b \in AllBytes |-> IF b \in packet(p).enabled THEN p ELSE pages[b]]
                                   ELSE pages

MatchAddr(p, q) == packet(p).addr = packet(q).addr

\* Fault: it goes before every packet that is later.
InsertedByTime(entry) ==
    LET stops == {i \in 1 .. Len(packetQueue) : packetQueue[i].tick <= entry.tick}
        at == IF stops = {} THEN 1 ELSE 1 + Max(stops)
    IN  InsertAt(packetQueue, at, entry)

\* From the back, before every packet that is later and not to the same address.
Inserted(entry) ==
    LET Stops(i) == packetQueue[i].tick <= entry.tick \/ MatchAddr(packetQueue[i].pkt, entry.pkt)
        stops == {i \in 1 .. Len(packetQueue) : Stops(i)}
        at == IF stops = {} THEN 1 ELSE 1 + Max(stops)
    IN  InsertAt(packetQueue, at, entry)

CanTake == ~retryReq /\ releaseEvent = {}

\* The rest of recvTimingReq: the packet is taken.
Take(p) ==
    LET queue == Inserted([tick |-> now + packet(p).delay + Latency, pkt |-> p])
    IN  /\ releaseEvent' = IF packet(p).duration = 0 THEN {} ELSE {now + packet(p).duration}
        /\ Access(p)
        /\ IF packet(p).reply
           THEN /\ packetQueue' = queue
                /\ dequeueEvent' = IF ~retryResp /\ dequeueEvent = {} THEN {queue[1].tick} ELSE dequeueEvent
           ELSE UNCHANGED <<packetQueue, dequeueEvent>>
        /\ UNCHANGED <<retryResp, drainState>>

\* recvTimingReq refuses: it is busy, or already owes a retry.
Refuse == retryReq' = TRUE /\ UNCHANGED <<pages, releaseEvent, packetQueue, dequeueEvent, retryResp, drainState, found>>

\* dequeue(): the requester refuses the answer, ...
AnswerRefused ==
    /\ retryResp' = TRUE /\ dequeueEvent' = {}
    /\ UNCHANGED <<pages, releaseEvent, retryReq, packetQueue, drainState, found>>

\* Fault: nothing brings the next answer.
AnswerTakenAlone ==
    /\ retryResp' = FALSE
    /\ packetQueue' = Tail(packetQueue)
    /\ dequeueEvent' = {}
    /\ drainState' = IF Len(packetQueue) = 1 /\ drainState = "Draining" THEN "Drained" ELSE drainState
    /\ UNCHANGED <<pages, releaseEvent, retryReq, found>>

\* ... or takes it.
AnswerTaken ==
    /\ retryResp' = FALSE
    /\ packetQueue' = Tail(packetQueue)
    /\ dequeueEvent' = IF Len(packetQueue) = 1 THEN {}
                       ELSE {IF packetQueue[2].tick > now THEN packetQueue[2].tick ELSE now}
    /\ drainState' = IF Len(packetQueue) = 1 /\ drainState = "Draining" THEN "Drained" ELSE drainState
    /\ UNCHANGED <<pages, releaseEvent, retryReq, found>>

Drain ==
    /\ drainState = "Running"
    /\ drainState' = IF packetQueue = <<>> THEN "Drained" ELSE "Draining"
    /\ UNCHANGED <<pages, releaseEvent, retryReq, packetQueue, dequeueEvent, retryResp, found>>

=============================================================================
