----------------------------- MODULE AxiMaster -----------------------------
(***************************************************************************)
(* Master (src/gem5_axi/axi_master.cc): the AXI master that carries gem5    *)
(* packets.  tick runs once per clock edge and is the action Tick; it is a  *)
(* function of the master's state m and of what the slave's signals show at *)
(* the edge.  transport is called by gem5's TLM bridge between two edges:   *)
(* BeginReq and EndResp.                                                    *)
(*                                                                         *)
(* A packet is [n, write, bursts]; bursts are the beats of the AXI bursts   *)
(* that split makes of it (module AxiSplit), none for a packet that is not  *)
(* valid.  Data and byte lanes are not modelled; a beat is named by its     *)
(* packet, burst and place.  Counting down to 0 stands for waiting until    *)
(* cycle reaches awAfter, wAfter or the packet's arrival time.              *)
(*                                                                         *)
(* The environment is the bridge, which holds one packet back until END_REQ *)
(* and calls END_RESP once per BEGIN_RESP, and a slave that keeps AXI4 and  *)
(* is otherwise free: which channel it takes a beat from at an edge, which  *)
(* of the transactions it has in full it answers, and with what status.     *)
(***************************************************************************)
EXTENDS Integers, Sequences, FiniteSets

CONSTANTS
    Slots, MaxId,       \* slots, maxId
    IdSpace,            \* 2^16: nextId is a uint16_t
    Stalls,             \* the master delays its channels on purpose
    StallCycles,        \* 3
    PacketKinds,        \* [write, bursts] the bridge may ask for
    Delays,             \* clock edges until a packet's payload has arrived
    Statuses,           \* subset of BOOLEAN: may a beat or write fail
    MaxPackets          \* bound: packets begun

MasterAssumption ==
    /\ Slots \in Nat \ {0} /\ MaxId \in Nat /\ IdSpace \in Nat /\ StallCycles \in Nat
    /\ Slots <= MaxId /\ MaxId < IdSpace
    /\ Delays \subseteq Nat \ {0} /\ Stalls \in BOOLEAN /\ Statuses \subseteq BOOLEAN /\ MaxPackets \in Nat

VARIABLES
    m,          \* the master's state
    axi,        \* the signals it drives: what each channel shows, rready, bready
    slave,      \* environment: transactions taken and the responses it shows
    packets,    \* environment: the packets begun
    done        \* environment: the packets answered, with their status
vars == <<m, axi, slave, packets, done>>

Ids == 1..MaxId

Init ==
    /\ m = [pending |-> <<>>, active |-> <<>>, awq |-> <<>>, wq |-> <<>>, arq |-> <<>>,
            responses |-> <<>>, responding |-> <<>>, next_id |-> 1, ok |-> TRUE]
    /\ axi = [aw |-> <<>>, w |-> <<>>, ar |-> <<>>, rready |-> FALSE, bready |-> FALSE]
    /\ slave = [writes |-> <<>>, early |-> <<>>, reads |-> <<>>, b |-> <<>>, r |-> <<>>,
                served |-> {}, failed |-> {}]
    /\ packets = <<>> /\ done = {}

-----------------------------------------------------------------------------
(* enqueueSegment and finishSegment                                          *)

Wait(wanted) == IF Stalls /\ wanted THEN StallCycles ELSE 0

Rewound(t) == [t EXCEPT !.wbeat = 0, !.rbeat = 0]

\* Fault: a burst that jumps the queue.
AtFront(q, id) == <<id>> \o q
AtEnd(q, id) == Append(q, id)

\* Burst number t.segment of transaction id starts on its channels.
EnqueueSegment(s, id) ==
    LET write == s.active[id].write
    IN  [s EXCEPT
            !.active[id] = [Rewound(@) EXCEPT !.aw_after = Wait(id % 2 = 1),
                                              !.w_after = Wait(id % 2 = 0)],
            !.awq = IF write THEN AtEnd(@, id) ELSE @,
            !.wq = IF write THEN Append(@, id) ELSE @,
            !.arq = IF write THEN @ ELSE AtEnd(@, id)]

Finished(t) == t.segment + 1 = Len(t.bursts)

FinishSegment(s, id) ==
    IF Finished(s.active[id])
    THEN [s EXCEPT !.active[id].segment = @ + 1, !.responses = Append(@, id)]
    ELSE EnqueueSegment([s EXCEPT !.active[id].segment = @ + 1], id)

HasBurst(t) == t.segment < Len(t.bursts)
Beats(t) == t.bursts[t.segment + 1]

-----------------------------------------------------------------------------
(* tick, step by step.  ok turns FALSE where an assertion fails, active.at   *)
(* throws or bursts has no element t.segment.                                *)

Down(n) == IF n > 0 THEN n - 1 ELSE 0

Clock(s) ==
    [s EXCEPT !.active = [id \in DOMAIN s.active |->
                 [s.active[id] EXCEPT !.aw_after = Down(@), !.w_after = Down(@)]],
              !.pending = IF @ = <<>> THEN @ ELSE <<[@[1] EXCEPT !.delay = Down(@)]>>]

Popped(q) == IF q = <<>> THEN q ELSE Tail(q)

AwTaken(s, taken) == IF taken THEN [s EXCEPT !.ok = @ /\ s.awq # <<>>, !.awq = Popped(@)] ELSE s
ArTaken(s, taken) == IF taken THEN [s EXCEPT !.ok = @ /\ s.arq # <<>>, !.arq = Popped(@)] ELSE s

WTaken(s, taken) ==
    LET id == Head(s.wq)
        t == s.active[id]
    IN  CASE ~taken -> s
          [] taken /\ (s.wq = <<>> \/ Head(s.wq) \notin DOMAIN s.active) -> [s EXCEPT !.ok = FALSE]
          [] OTHER -> [s EXCEPT !.active[id].wbeat = @ + 1,
                                !.wq = IF t.wbeat + 1 = Beats(t) THEN Tail(@) ELSE @]

StatusAfter(status, fail) == IF fail THEN "error" ELSE status

RTaken(s, r) ==
    LET id == r[1].id
        t == s.active[id]
        u == [s EXCEPT !.active[id].status = StatusAfter(@, r[1].fail),
                       !.active[id].rbeat = @ + 1]
    IN  CASE r = <<>> -> s
          [] r # <<>> /\ (\/ r[1].id \notin DOMAIN s.active
                          \/ s.active[r[1].id].write
                          \/ ~HasBurst(s.active[r[1].id])
                          \/ r[1].last # (s.active[r[1].id].rbeat + 1 = Beats(s.active[r[1].id]))) ->
                [s EXCEPT !.ok = FALSE]
          [] OTHER -> IF t.rbeat + 1 = Beats(t) THEN FinishSegment(u, id) ELSE u

BTaken(s, b) ==
    CASE b = <<>> -> s
      [] b # <<>> /\ (b[1].id \notin DOMAIN s.active \/ ~s.active[b[1].id].write) ->
            [s EXCEPT !.ok = FALSE]
      [] OTHER -> FinishSegment([s EXCEPT !.active[b[1].id].status = StatusAfter(@, b[1].fail)],
                                b[1].id)

-----------------------------------------------------------------------------
(* admit                                                                     *)

NextId(s) == IF s.next_id \in Ids THEN s.next_id ELSE 1

\* The first free ID from nextId on; there is one because slots <= maxId.
FreeId(s) ==
    LET free == Ids \ DOMAIN s.active
    IN  CHOOSE id \in free :
            \A j \in free : (id - NextId(s)) % MaxId <= (j - NextId(s)) % MaxId

Txn(p) ==
    [n |-> p.n, write |-> p.write, bursts |-> p.bursts, segment |-> 0, wbeat |-> 0, rbeat |-> 0,
     aw_after |-> 0, w_after |-> 0, status |-> IF p.bursts # <<>> THEN "ok" ELSE "burst_error"]

Started(s, id) ==
    IF s.active[id].bursts # <<>> THEN EnqueueSegment(s, id)
    ELSE [s EXCEPT !.responses = Append(@, id)]

AdmitAs(s, id) ==
    Started([s EXCEPT !.pending = <<>>,
                      !.next_id = (id + 1) % IdSpace,
                      !.active = [i \in DOMAIN @ \cup {id} |->
                                     IF i = id THEN Txn(s.pending[1]) ELSE @[i]]],
            id)

HasSlot(s) == Cardinality(DOMAIN s.active) < Slots

Admit(s) ==
    IF s.pending = <<>> \/ ~HasSlot(s) \/ s.pending[1].delay > 0 THEN s
    ELSE AdmitAs(s, FreeId(s))

-----------------------------------------------------------------------------
(* drive and respond                                                         *)

\* What a channel shows of the burst at the front of its queue.
Beat(s, q, place) ==
    LET t == s.active[Head(q)]
    IN  <<[id |-> Head(q), n |-> t.n, segment |-> t.segment, beats |-> Beats(t), beat |-> place]>>

\* What drive finds at the front of a queue: an active transaction and a burst of it.
FrontSound(s, q) == q = <<>> \/ (Head(q) \in DOMAIN s.active /\ HasBurst(s.active[Head(q)]))
Sound(s) == s.ok /\ FrontSound(s, s.awq) /\ FrontSound(s, s.wq) /\ FrontSound(s, s.arq)

\* rready and bready follow a fixed pattern of cycle, which is abstracted.
Drive(s, rready, bready) ==
    [aw |-> IF s.awq = <<>> \/ s.active[Head(s.awq)].aw_after > 0 THEN <<>> ELSE Beat(s, s.awq, 1),
     w  |-> IF s.wq = <<>> \/ s.active[Head(s.wq)].w_after > 0 THEN <<>>
            ELSE Beat(s, s.wq, s.active[Head(s.wq)].wbeat + 1),
     ar |-> IF s.arq = <<>> THEN <<>> ELSE Beat(s, s.arq, 1),
     rready |-> rready, bready |-> bready]

Drop(f, id) == [i \in DOMAIN f \ {id} |-> f[i]]

Respond(s) ==
    IF s.responding # <<>> \/ s.responses = <<>> THEN s
    ELSE [s EXCEPT !.responding = <<s.active[Head(s.responses)].n>>, !.responses = Tail(@)]

-----------------------------------------------------------------------------
(* The slave.  It pairs write data with write addresses by order alone, as   *)
(* AXI4 has it, and may take data before its address.                        *)

Short(writes) == {i \in 1..Len(writes) : Len(writes[i].got) < writes[i].beats}
Least(n, k) == IF n <= k THEN n ELSE k

TakeAw(v, aw) ==
    IF aw = <<>> THEN v
    ELSE LET n == Least(aw[1].beats, Len(v.early))
         IN  [v EXCEPT !.writes = Append(@, [id |-> aw[1].id, n |-> aw[1].n,
                                             segment |-> aw[1].segment, beats |-> aw[1].beats,
                                             got |-> SubSeq(v.early, 1, n)]),
                       !.early = SubSeq(@, n + 1, Len(@))]

TakeW(v, w) ==
    LET data == <<w[1].n, w[1].segment, w[1].beat>>
        i == CHOOSE j \in Short(v.writes) : \A k \in Short(v.writes) : j <= k
    IN  CASE w = <<>> -> v
          [] w # <<>> /\ Short(v.writes) = {} -> [v EXCEPT !.early = Append(@, data)]
          [] OTHER -> [v EXCEPT !.writes[i].got = Append(@, data)]

TakeAr(v, ar) ==
    IF ar = <<>> THEN v
    ELSE [v EXCEPT !.reads = Append(@, [id |-> ar[1].id, n |-> ar[1].n, segment |-> ar[1].segment,
                                        beats |-> ar[1].beats, sent |-> 0])]

Elements(q) == {q[i] : i \in 1..Len(q)}

\* The master takes the responses r and b.
Taken(v, r, b) ==
    LET last == {x \in Elements(r) : x.last} \cup Elements(b)
    IN  [v EXCEPT !.r = IF r = <<>> THEN @ ELSE <<>>,
                  !.b = IF b = <<>> THEN @ ELSE <<>>,
                  !.served = @ \cup {<<x.n, x.segment>> : x \in last},
                  !.failed = @ \cup {x.n : x \in {y \in Elements(r) \cup Elements(b) : y.fail}}]

Without(q, i) == SubSeq(q, 1, i - 1) \o SubSeq(q, i + 1, Len(q))

\* The slave shows the response of a write it has in full.
ShowB(v, i, fail) ==
    LET x == v.writes[i]
    IN  [v EXCEPT !.b = <<[id |-> x.id, n |-> x.n, segment |-> x.segment, fail |-> fail]>>,
                  !.writes = Without(@, i)]

\* The slave shows the next beat of a read.
ShowR(v, i, fail) ==
    LET x == v.reads[i]
        last == x.sent + 1 = x.beats
    IN  [v EXCEPT !.r = <<[id |-> x.id, n |-> x.n, segment |-> x.segment, fail |-> fail,
                           last |-> last]>>,
                  !.reads = IF last THEN Without(@, i) ELSE [@ EXCEPT ![i].sent = x.sent + 1]]

\* The slave may show a response on a channel that shows none.
AfterB(v) ==
    {v} \cup {ShowB(v, i, fail) : i \in IF v.b = <<>> THEN (1..Len(v.writes)) \ Short(v.writes) ELSE {},
                                 fail \in Statuses}
AfterR(v) ==
    {v} \cup {ShowR(v, i, fail) : i \in IF v.r = <<>> THEN 1..Len(v.reads) ELSE {},
                                 fail \in Statuses}

-----------------------------------------------------------------------------
(* The steps                                                                 *)

\* What a channel carries at the edge.
Carried(shown, ready) == IF ready THEN shown ELSE <<>>

\* One clock edge: the slave's awready, wready and arready are aw, w and ar.
Tick(aw, w, ar) ==
    /\ m.ok
    /\ \E r \in {Carried(slave.r, axi.rready)}, b \in {Carried(slave.b, axi.bready)} :
          /\ \E s \in {Admit(BTaken(RTaken(WTaken(ArTaken(AwTaken(Clock(m), axi.aw # <<>> /\ aw),
                                                          axi.ar # <<>> /\ ar),
                                                  axi.w # <<>> /\ w), r), b))},
                rready \in IF Stalls THEN BOOLEAN ELSE {TRUE},
                bready \in IF Stalls THEN BOOLEAN ELSE {TRUE} :
                /\ m' = IF Sound(s) THEN Respond(s) ELSE [s EXCEPT !.ok = FALSE]
                /\ axi' = IF Sound(s) THEN Drive(s, rready, bready) ELSE axi
          /\ \E v \in AfterR(Taken(TakeAr(TakeW(TakeAw(slave, Carried(axi.aw, aw)), Carried(axi.w, w)),
                                         Carried(axi.ar, ar)), r, b)) :
                slave' \in AfterB(v)
    /\ UNCHANGED <<packets, done>>

\* BEGIN_REQ.
BeginReq(kind, delay) ==
    /\ m.ok /\ m.pending = <<>> /\ Len(packets) < MaxPackets
    /\ packets' = Append(packets, kind)
    /\ m' = [m EXCEPT !.pending = <<[n |-> Len(packets) + 1, write |-> kind.write,
                                    bursts |-> kind.bursts, delay |-> delay]>>]
    /\ UNCHANGED <<axi, slave, done>>

Freed(f, id) == Drop(f, id)

\* END_RESP.
EndResp ==
    /\ m.ok /\ m.responding # <<>>
    /\ \E id \in DOMAIN m.active :
          /\ m.active[id].n = m.responding[1]
          /\ m' = [m EXCEPT !.responding = <<>>, !.active = Freed(@, id)]
          /\ done' = done \cup {<<m.active[id].n, m.active[id].status>>}
    /\ UNCHANGED <<axi, slave, packets>>

\* Where a channel shows nothing, its ready does not matter.
AnyTick ==
    \E aw \in {FALSE, axi.aw # <<>>}, w \in {FALSE, axi.w # <<>>}, ar \in {FALSE, axi.ar # <<>>} :
        Tick(aw, w, ar)

Next ==
    \/ AnyTick
    \/ \E kind \in PacketKinds, delay \in Delays : BeginReq(kind, delay)
    \/ EndResp

Spec == Init /\ [][Next]_vars

Open(transactions, id) == \E i \in 1..Len(transactions) : transactions[i].id = id

\* The clock runs; the slave takes what is shown to it and answers what it has in full; the
\* bridge ends a response.
GoesAw == axi.aw # <<>> /\ \E w \in {FALSE, axi.w # <<>>}, ar \in {FALSE, axi.ar # <<>>} : Tick(TRUE, w, ar)
GoesW == axi.w # <<>> /\ \E aw \in {FALSE, axi.aw # <<>>}, ar \in {FALSE, axi.ar # <<>>} : Tick(aw, TRUE, ar)
GoesAr == axi.ar # <<>> /\ \E aw \in {FALSE, axi.aw # <<>>}, w \in {FALSE, axi.w # <<>>} : Tick(aw, w, TRUE)
ComesB(id) == Open(slave.writes, id) /\ AnyTick /\ \E x \in Elements(slave'.b) : x.id = id
ComesR(id) == Open(slave.reads, id) /\ AnyTick /\ \E x \in Elements(slave'.r) : x.id = id

Fairness ==
    /\ WF_vars(AnyTick) /\ WF_vars(GoesAw) /\ WF_vars(GoesW) /\ WF_vars(GoesAr)
    /\ \A id \in Ids : WF_vars(ComesB(id)) /\ WF_vars(ComesR(id))
    /\ WF_vars(EndResp)

FairSpec == Spec /\ Fairness

-----------------------------------------------------------------------------
\* At most slots packets are active, under IDs of the wire; a number follows its width; what
\* the queues name is active, and the packet being answered still has its slot.
TypeOK ==
    /\ Cardinality(DOMAIN m.active) <= Slots /\ DOMAIN m.active \subseteq Ids
    /\ m.next_id \in 0..(IdSpace - 1)
    /\ Elements(m.awq \o m.wq \o m.arq \o m.responses) \subseteq DOMAIN m.active
    /\ Elements(m.responding) \subseteq {m.active[id].n : id \in DOMAIN m.active}

\* No assertion of the master fails, no active.at throws and no burst is read past the last: a
\* handshake finds its burst at the front of a queue, a response its packet and RLAST the
\* burst's last beat, however the slave orders the channels.
NeverAsserts == m.ok

\* The slave, which pairs data with addresses by order alone, gives each write burst its own
\* beats in their order, also when data run ahead of addresses or addresses ahead of data.
BurstsPaired ==
    \A i \in 1..Len(slave.writes) : \A k \in 1..Len(slave.writes[i].got) :
        slave.writes[i].got[k] = <<slave.writes[i].n, slave.writes[i].segment, k>>

\* An ID in use is not given again, with IDs reused as soon as END_RESP frees them: every packet
\* begun waits, is active under one ID or is answered, and whatever the slave has open or is
\* answering under an ID is of the packet the master has under it, one transaction an ID.
IdsDistinct ==
    LET open == slave.writes \o slave.reads
        shown == slave.b \o slave.r
    IN  /\ \A n \in 1..Len(packets) :
              \/ \E p \in Elements(m.pending) \cup {m.active[id] : id \in DOMAIN m.active} : p.n = n
              \/ \E p \in done : p[1] = n
        /\ \A x \in Elements(open \o shown) :
              x.id \in DOMAIN m.active /\ m.active[x.id].n = x.n /\ m.active[x.id].segment = x.segment
        /\ \A i, j \in 1..Len(open) : i # j => open[i].id # open[j].id

\* A packet is answered once, after every burst of it has been served, with an error exactly
\* when a beat or burst of it failed; a packet that is not valid reaches no channel.
AnswersHonest ==
    /\ \A p, q \in done : p[1] = q[1] => p = q
    /\ \A p \in done :
          /\ \A id \in DOMAIN m.active : m.active[id].n # p[1]
          /\ \A seg \in 1..Len(packets[p[1]].bursts) : <<p[1], seg - 1>> \in slave.served
          /\ p[2] = CASE packets[p[1]].bursts = <<>> -> "burst_error"
                      [] p[1] \in slave.failed -> "error"
                      [] OTHER -> "ok"

\* Every packet begun is answered, with more packets than slots and answers in any order: again
\* and again none is left over (packets begun are bounded, so one starved for ever would show).
EveryPacketAnswered == []<>(\A n \in 1..Len(packets) : \E p \in done : p[1] = n)
============================================================================
