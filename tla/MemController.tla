--------------------------- MODULE MemController ---------------------------
(***************************************************************************)
(* One channel controller of mem_sim (src/mem_sim/src/controller/            *)
(* controller.cpp) with its request queues, scheduler, row policy, the DRAM  *)
(* banks behind it and its memory PHY (src/mem_sim/src/dram/mem_phy.cpp).    *)
(*                                                                         *)
(* A tick is the action Tick: a request may be dispatched, the PHY and the   *)
(* pending requests complete, maintenance arrives, at most one command goes  *)
(* out on each bus.  What only depends on how many cycles have passed is     *)
(* free: in a tick one PHY slot or one pending request may fall due, or some *)
(* commands' timing gates are open (a set of pairs <<bank, command>>).       *)
(*                                                                         *)
(* A byte of data is the sequence number of the write it came from, so the   *)
(* byte_sequence of a buffered write is its payload.  Line l of LineBytes    *)
(* bytes is in row l \div BankCount of bank l % BankCount, all in one rank.  *)
(* Not modelled: split activation and WCK (LPDDR), low power, edge pairing,  *)
(* ECC, expected payloads and statistics.                                    *)
(***************************************************************************)
EXTENDS Integers, Sequences, FiniteSets, FiniteSetsExt, SequencesExt

CONSTANTS
    Configs,            \* the configurations to consider, records of the fields below
    Bytes, LineBytes,
    ReadDepth, WriteDepth, PriorityDepth, PhyDepth,
    ResponseDepth,      \* response_queue_capacity
    MaxRequests         \* bound: requests accepted

VARIABLES
    cfg,        \* the configuration, fixed when the controller is built
    mc,         \* the controller, its banks, its PHY and the memory image
    truth,      \* what a byte may hold: the last write accepted, and any that may land on top of it
    answered    \* requests whose responses were taken
vars == <<cfg, mc, truth, answered>>

Kinds == cfg.kinds                      \* [write, addr, len, masked, mask]: what the frontend may submit
BankCount == cfg.banks
Behavioral == cfg.behavioral            \* the PHY's mode; Direct otherwise
DualBus == cfg.dual_bus                 \* dual_command_bus
FrFcfs == cfg.fr_fcfs                   \* the scheduler's kind; FCFS otherwise
RowPolicy == cfg.row_policy             \* "open", "closed" or "cap"
Cap == cfg.cap                          \* row_policy_cap
High == cfg.high                        \* write watermarks, in entries
Low == cfg.low
Maintenance == cfg.maintenance          \* [cmd, bank]: maintenance that may fall due
MaxMaintenance == cfg.max_maintenance   \* bound: maintenance requests

ASSUME ControllerAssumption ==
    /\ {LineBytes, ReadDepth, WriteDepth, PriorityDepth, PhyDepth, ResponseDepth} \subseteq Nat \ {0}
    /\ \A c \in Configs :
          /\ c.behavioral \in BOOLEAN /\ c.dual_bus \in BOOLEAN /\ c.fr_fcfs \in BOOLEAN
          /\ c.row_policy \in {"open", "closed", "cap"} /\ {c.cap, c.banks} \subseteq Nat \ {0}
          /\ \A k \in c.kinds : /\ k.addr \in Nat /\ k.addr .. (k.addr + k.len - 1) \subseteq Bytes
                                /\ k.mask \subseteq Bytes
          /\ c.maintenance \subseteq [cmd: {"REFPB", "REFAB"}, bank: 0 .. (c.banks - 1)]

Closed == -1
BankIds == 0 .. (BankCount - 1)
BankOf(a) == (a \div LineBytes) % BankCount
RowOf(a) == (a \div LineBytes) \div BankCount
Span(r) == r.addr .. (r.addr + r.len - 1)
Overlap(r, t) == Span(r) \cap Span(t) # {}

Init ==
    /\ cfg \in Configs
    /\ mc = [next |-> 1, read |-> <<>>, write |-> <<>>, active |-> <<>>, priority |-> <<>>,
             waiting |-> <<>>, scheduled |-> 0, buffered |-> <<>>, pending |-> <<>>, responses |-> <<>>,
             phy |-> [read |-> <<>>, write |-> <<>>, done |-> <<>>], image |-> [b \in Bytes |-> 0],
             row |-> [b \in BankIds |-> Closed], accesses |-> [b \in BankIds |-> 0],
             precharge |-> [b \in BankIds |-> FALSE], writing |-> FALSE]
    /\ truth = [b \in Bytes |-> {0}]
    /\ answered = {}

-----------------------------------------------------------------------------
(* enqueue                                                                   *)

\* The bytes of a buffered write a forwarded read can see.
Visible(s, a) == DOMAIN s.buffered[a].bytes \cap (a .. (a + s.buffered[a].len - 1))
HitsBufferedWrite(s, k) == \E a \in DOMAIN s.buffered : Visible(s, a) \cap Span(k) # {}

\* read_forward_payload: the newest buffered byte, or the image's.
ForwardPayload(s, k) ==
    [b \in Span(k) |->
        LET writers == {a \in DOMAIN s.buffered : b \in Visible(s, a)}
        IN  IF writers = {} THEN s.image[b] ELSE Max({s.buffered[a].bytes[b] : a \in writers})]

\* Requests that are not done, older than n (n = 0: all).
Unresolved(s, write, n) ==
    {r \in ToSet(s.read) \cup ToSet(s.active) \cup ToSet(s.pending) : r.write = write /\ (n = 0 \/ r.n < n)}
OverlappingRead(s, k, n) == \E r \in Unresolved(s, FALSE, n) : Overlap(r, k)

Request(k, n, bypass, data) ==
    [n |-> n, write |-> k.write, addr |-> k.addr, len |-> k.len, cmd |-> "none",
     bypass |-> bypass, data |-> data, want |-> IF k.write THEN <<>> ELSE [b \in Span(k) |-> truth[b]]]

NewBytes(k, n) == [b \in IF k.masked THEN k.mask ELSE Span(k) |-> n]
Put(f, a, v) == [x \in DOMAIN f \cup {a} |-> IF x = a THEN v ELSE f[x]]
Overlay(new, old) == [b \in DOMAIN new \cup DOMAIN old |-> IF b \in DOMAIN new THEN new[b] ELSE old[b]]

\* Fault: the merged write keeps what it had.
KeepOld(w, k, n) == [w EXCEPT !.bytes = Overlay(@, NewBytes(k, n))]
\* A write without a mask replaces the buffered one, a masked one is merged into it.
Coalesced(w, k, n) ==
    IF k.masked THEN [w EXCEPT !.bytes = Overlay(NewBytes(k, n), @)]
    ELSE [len |-> k.len, bytes |-> NewBytes(k, n)]

\* Writes wait and merge by start address, and those of different starts go out in either order: what
\* waits at another start may land on a write of k.  A byte an unmasked write does not replace, because
\* it is shorter than the one it takes the place of, may never be written.
WaitingElsewhere(s, k, b) ==
    {s.buffered[a].bytes[b] : a \in {x \in DOMAIN s.buffered \ {k.addr} : b \in Visible(s, x)}}
Underneath(s) == FoldLeft(LAMBDA image, w : Overlay(w.data, image), s.image, s.phy.write)
Admitted(s, k, n) ==
    [b \in Bytes |->
        CASE b \in DOMAIN NewBytes(k, n) -> {n} \cup WaitingElsewhere(s, k, b)
          [] b \notin DOMAIN NewBytes(k, n) /\ ~k.masked /\ k.addr \in DOMAIN s.buffered /\ b \in Visible(s, k.addr) ->
                truth[b] \cup {Underneath(s)[b]}
          [] OTHER -> truth[b]]

Enqueue(s, k) ==
    LET n == s.next
    IN  CASE ~k.write /\ HitsBufferedWrite(s, k) ->
                [s EXCEPT !.next = n + 1, !.pending = Append(@, Request(k, n, TRUE, ForwardPayload(s, k)))]
          [] ~k.write /\ ~HitsBufferedWrite(s, k) /\ Len(s.read) < ReadDepth ->
                [s EXCEPT !.next = n + 1, !.read = Append(@, Request(k, n, FALSE, <<>>))]
          [] k.write /\ k.addr \in DOMAIN s.buffered /\ ~OverlappingRead(s, k, 0) ->
                [s EXCEPT !.next = n + 1, !.pending = Append(@, Request(k, n, TRUE, <<>>)),
                          !.buffered[k.addr] = Coalesced(@, k, n)]
          [] k.write /\ k.addr \notin DOMAIN s.buffered /\ Len(s.write) < WriteDepth ->
                [s EXCEPT !.next = n + 1, !.write = Append(@, Request(k, n, FALSE, <<>>)),
                          !.buffered = Put(@, k.addr, [len |-> k.len, bytes |-> NewBytes(k, n)])]
          [] OTHER -> s

-----------------------------------------------------------------------------
(* The PHY finishes a slot; complete_pending                                 *)

Commit(image, bytes) == Overlay(bytes, image)
ReadImage(s, r) == [b \in Span(r) |-> s.image[b]]

\* MemPhy::tick and complete_slot: the first slot of a FIFO falls due.
PhyReads(s) ==
    IF s.phy.read = <<>> THEN s
    ELSE [s EXCEPT !.phy.read = Tail(@), !.phy.done = Put(@, Head(s.phy.read).n, ReadImage(s, Head(s.phy.read)))]
PhyWrites(s) ==
    IF s.phy.write = <<>> THEN s
    ELSE [s EXCEPT !.phy.write = Tail(@), !.phy.done = Put(@, Head(s.phy.write).n, <<>>),
                   !.image = Commit(@, Head(s.phy.write).data)]
PhyTick(s, reads, writes) ==
    LET r == IF reads THEN PhyReads(s) ELSE s
    IN  IF writes THEN PhyWrites(r) ELSE r

\* A request is complete: a bypass by the next tick, others when they are due.
Complete(s, r, due) == r.bypass \/ (r.n \in due /\ (Behavioral => r.n \in DOMAIN s.phy.done))

Result(s, r) ==
    CASE r.bypass \/ r.write -> r.data
      [] ~r.bypass /\ ~r.write -> IF Behavioral THEN s.phy.done[r.n] ELSE ReadImage(s, r)
MakeResponse(s, r) == [n |-> r.n, write |-> r.write, got |-> Result(s, r), want |-> r.want]

\* What a full response queue holds back stays pending.
Answerable(s, complete) == SubSeq(complete, 1, Min({Len(complete), ResponseDepth - Len(s.responses)}))

Answer(s, now) ==
    [s EXCEPT !.pending = SelectSeq(@, LAMBDA r : r \notin ToSet(now)),
              !.responses = @ \o [i \in 1..Len(now) |-> MakeResponse(s, now[i])],
              !.phy.done = [n \in DOMAIN @ \ {r.n : r \in ToSet(now)} |-> @[n]]]
CompletePending(s, due) == Answer(s, Answerable(s, SelectSeq(s.pending, LAMBDA r : Complete(s, r, due))))

-----------------------------------------------------------------------------
(* Maintenance and the row policy                                            *)

MaintenanceRequest(m) ==
    [n |-> 0, write |-> FALSE, addr |-> m.bank * LineBytes, len |-> 0, cmd |-> m.cmd,
     bypass |-> FALSE, data |-> <<>>, want |-> <<>>]
ScheduleMaintenance(s, ms) ==
    IF ms = <<>> \/ s.scheduled = MaxMaintenance THEN s
    ELSE [s EXCEPT !.scheduled = @ + 1, !.waiting = Append(@, MaintenanceRequest(Head(ms)))]

\* service_pending_maintenance
Moved(s) == Min({Len(s.waiting), PriorityDepth - Len(s.priority)})
ServiceMaintenance(s) ==
    [s EXCEPT !.priority = @ \o SubSeq(s.waiting, 1, Moved(s)), !.waiting = SubSeq(@, Moved(s) + 1, Len(@))]

Bank(r) == BankOf(r.addr)
ActiveOn(s, b) == \E i \in DOMAIN s.active : Bank(s.active[i]) = b

\* apply_row_policy_pre_schedule: an explicit precharge for a bank that had its share.
WornBanks(s, gates) ==
    SelectSeq([i \in 1..BankCount |-> i - 1],
              LAMBDA b : /\ ~ActiveOn(s, b) /\ ~s.precharge[b]
                         /\ s.accesses[b] >= Cap /\ s.row[b] # Closed /\ <<b, "PREPB">> \in gates)
Precharged(s, bs) ==
    [s EXCEPT !.priority = @ \o [i \in 1..Len(bs) |-> MaintenanceRequest([cmd |-> "PREPB", bank |-> bs[i]])],
              !.precharge = [b \in BankIds |-> @[b] \/ b \in ToSet(bs)]]
RowPolicyPre(s, gates) ==
    IF RowPolicy # "cap" THEN s
    ELSE Precharged(s, SubSeq(WornBanks(s, gates), 1,
                              Min({Len(WornBanks(s, gates)), PriorityDepth - Len(s.priority)})))

\* RowPolicyEngine::on_issue
RowPolicyIssue(s, b, cmd) ==
    CASE RowPolicy # "cap" \/ cmd \in {"ACT", "REFPB", "REFAB"} -> s
      [] RowPolicy = "cap" /\ cmd = "PREAB" ->
            [s EXCEPT !.accesses = [x \in BankIds |-> 0], !.precharge = [x \in BankIds |-> FALSE]]
      [] RowPolicy = "cap" /\ cmd \in {"PREPB", "RDA", "WRA"} ->
            [s EXCEPT !.accesses[b] = 0, !.precharge[b] = FALSE]
      [] RowPolicy = "cap" /\ cmd \in {"RD", "WR"} -> [s EXCEPT !.accesses[b] = @ + 1]

-----------------------------------------------------------------------------
(* The choice of a command                                                   *)

IsMaintenance(r) == r.cmd # "none"
DataCommands == {"RD", "WR", "RDA", "WRA"}
DataCommand(r) ==
    CASE r.write -> IF RowPolicy = "closed" THEN "WRA" ELSE "WR"
      [] ~r.write -> IF RowPolicy = "closed" THEN "RDA" ELSE "RD"
AnyRowOpen(s) == \E b \in BankIds : s.row[b] # Closed

NextCommand(s, r) ==
    IF IsMaintenance(r)
    THEN CASE r.cmd = "REFAB" -> IF AnyRowOpen(s) THEN "PREAB" ELSE "REFAB"
           [] r.cmd = "REFPB" -> IF s.row[Bank(r)] # Closed THEN "PREPB" ELSE "REFPB"
           [] OTHER -> r.cmd
    ELSE CASE s.row[Bank(r)] = Closed -> "ACT"
           [] s.row[Bank(r)] = RowOf(r.addr) -> DataCommand(r)
           [] s.row[Bank(r)] \notin {Closed, RowOf(r.addr)} -> "PREPB"

BusMatches(cmd, bus) == bus = "unified" \/ ((cmd \in DataCommands) <=> (bus = "column"))

\* Fault: only the bank's own requests matter.
ClosesNothing(s, r, cmd) == FALSE
WouldCloseActive(s, r, cmd) ==
    CASE cmd \in {"PREAB", "REFAB"} -> s.active # <<>>
      [] cmd \in {"PREPB", "REFPB"} -> ActiveOn(s, Bank(r))
      [] OTHER -> FALSE

\* Fault: a read does not wait for a write in flight.
NoWriteCheck(s, r, cmd, bus, kind) ==
    /\ ~(r.write /\ OverlappingRead(s, r, r.n))
    /\ BusMatches(cmd, bus)
    /\ kind = "active" \/ ~WouldCloseActive(s, r, cmd)
Eligible(s, r, cmd, bus, kind) ==
    /\ ~(Behavioral /\ ~r.write /\ ~IsMaintenance(r) /\ cmd \in DataCommands
         /\ \E w \in ToSet(s.pending) : w.write /\ Overlap(w, r))
    /\ ~(r.write /\ OverlappingRead(s, r, r.n))
    /\ BusMatches(cmd, bus)
    /\ kind = "active" \/ ~WouldCloseActive(s, r, cmd)

PhyAdmits(s, cmd) ==
    ~Behavioral \/ CASE cmd \in {"RD", "RDA"} -> Len(s.phy.read) < PhyDepth
                     [] cmd \in {"WR", "WRA"} -> Len(s.phy.write) < PhyDepth
                     [] OTHER -> TRUE

GateOpen(r, cmd, gates) == <<Bank(r), cmd>> \in gates

NoCandidate == [kind |-> "none", index |-> 0, cmd |-> "none"]

\* pick_best_ready_from and the scheduler: a set of at most one candidate of one queue.
Views(s, kind, bus, gates) ==
    {i \in DOMAIN s[kind] :
        LET r == s[kind][i]  cmd == NextCommand(s, s[kind][i])
        IN  Eligible(s, r, cmd, bus, kind) /\ (GateOpen(r, cmd, gates) => PhyAdmits(s, cmd))}
First(s, kind, is) == {i \in is : \A j \in is : s[kind][i].n <= s[kind][j].n}
Picked(s, kind, bus, gates) ==
    LET eligible == Views(s, kind, bus, gates)
        ready(i) == GateOpen(s[kind][i], NextCommand(s, s[kind][i]), gates)
        chosen == IF FrFcfs THEN First(s, kind, {i \in eligible : ready(i)})
                  ELSE {i \in First(s, kind, eligible) : ready(i)}
    IN  IF chosen = {} THEN NoCandidate
        ELSE LET i == Min(chosen) IN [kind |-> kind, index |-> i, cmd |-> NextCommand(s, s[kind][i])]

\* pick_priority_if first retires precharges of banks that are closed by now.
Satisfied(s, r) == r.cmd = "PREPB" /\ s.row[Bank(r)] = Closed
Retired(s) ==
    LET left == {i \in DOMAIN s.priority : ~Satisfied(s, s.priority[i])}
        first == IF left = {} THEN Len(s.priority) + 1 ELSE Min(left)
        gone == {Bank(s.priority[i]) : i \in 1..(first - 1)}
    IN  [s EXCEPT !.priority = SubSeq(@, first, Len(@)),
                  !.accesses = [b \in BankIds |-> IF RowPolicy = "cap" /\ b \in gone THEN 0 ELSE @[b]],
                  !.precharge = [b \in BankIds |-> @[b] /\ ~(RowPolicy = "cap" /\ b \in gone)]]
PickedPriority(s, bus, gates) ==
    IF s.priority # <<>> /\ 1 \in Views(s, "priority", bus, gates)
       /\ GateOpen(Head(s.priority), NextCommand(s, Head(s.priority)), gates)
    THEN [kind |-> "priority", index |-> 1, cmd |-> NextCommand(s, Head(s.priority))]
    ELSE NoCandidate

SetWriteMode(s) ==
    [s EXCEPT !.writing = IF @ THEN ~(Len(s.write) < Low /\ s.read # <<>>)
                          ELSE Len(s.write) > High \/ s.read = <<>>]

\* Fault: a write drain waits for the write queue alone.
DrainOnly(s, bus, gates) ==
    IF s.writing THEN Picked(s, "write", bus, gates) ELSE Picked(s, "read", bus, gates)
\* pick_rw_if: reads that queued writes wait for are served in a write drain too.
PickedRw(s, bus, gates) ==
    IF s.writing /\ ( \/ Picked(s, "write", bus, gates) # NoCandidate
                      \/ \A i \in DOMAIN s.write : ~OverlappingRead(s, s.write[i], s.write[i].n))
    THEN Picked(s, "write", bus, gates)
    ELSE Picked(s, "read", bus, gates)

-----------------------------------------------------------------------------
(* issue and retire_or_advance                                               *)

RowAfter(s, r, cmd) ==
    CASE cmd = "ACT" -> [s.row EXCEPT ![Bank(r)] = RowOf(r.addr)]
      [] cmd \in {"PREPB", "RDA", "WRA"} -> [s.row EXCEPT ![Bank(r)] = Closed]
      [] cmd = "PREAB" -> [b \in BankIds |-> Closed]
      [] OTHER -> s.row

Unbuffered(buffered, r) == IF r.write THEN [a \in DOMAIN buffered \ {r.addr} |-> buffered[a]] ELSE buffered
\* A data command: a write takes its payload out of the buffer only now.
DataIssued(s, r) ==
    LET slot == [r EXCEPT !.data = IF r.write THEN s.buffered[r.addr].bytes ELSE <<>>]
        t == [s EXCEPT !.pending = Append(@, slot),
                       !.buffered = Unbuffered(@, r)]
    IN  CASE Behavioral /\ r.write -> [t EXCEPT !.phy.write = Append(@, slot)]
          [] Behavioral /\ ~r.write -> [t EXCEPT !.phy.read = Append(@, slot)]
          [] ~Behavioral /\ r.write -> [t EXCEPT !.image = Commit(@, slot.data)]
          [] ~Behavioral /\ ~r.write -> t

Erased(s, c) == [s EXCEPT ![c.kind] = RemoveAt(@, c.index)]
Advanced(s, c, r) ==
    CASE c.cmd \in DataCommands -> DataIssued(Erased(s, c), r)
      [] IsMaintenance(r) /\ c.cmd = r.cmd -> Erased(s, c)
      [] c.cmd = "ACT" /\ c.kind # "active" /\ Len(s.active) < BankCount ->
            [Erased(s, c) EXCEPT !.active = Append(@, r)]
      [] OTHER -> s

Issue(s, c, r) ==
    Advanced([RowPolicyIssue(s, Bank(r), c.cmd) EXCEPT !.row = RowAfter(s, r, c.cmd)], c, r)

\* try_upgrade_row_policy_command
Upgraded(s, c, r, gates) ==
    LET auto == IF c.cmd = "RD" THEN "RDA" ELSE "WRA"
    IN  IF /\ RowPolicy = "cap" /\ c.cmd \in {"RD", "WR"}
           /\ s.accesses[Bank(r)] >= Cap /\ GateOpen(r, auto, gates)
        THEN [c EXCEPT !.cmd = auto] ELSE c
Send(s, c, gates) ==
    IF c = NoCandidate THEN s
    ELSE Issue(s, Upgraded(s, c, s[c.kind][c.index], gates), s[c.kind][c.index])

\* choose: the active requests, then maintenance, and reads and writes only without any.
ChooseRw(s, bus, gates) == Send(SetWriteMode(s), PickedRw(SetWriteMode(s), bus, gates), gates)
ChooseRest(s, bus, gates) ==
    CASE PickedPriority(s, bus, gates) # NoCandidate -> Send(s, PickedPriority(s, bus, gates), gates)
      [] PickedPriority(s, bus, gates) = NoCandidate /\ s.priority # <<>> -> s
      [] s.priority = <<>> -> ChooseRw(s, bus, gates)
Choose(s, bus, gates) ==
    IF bus # "row" /\ Picked(s, "active", bus, gates) # NoCandidate
    THEN Send(s, Picked(s, "active", bus, gates), gates)
    ELSE ChooseRest(Retired(s), bus, gates)

-----------------------------------------------------------------------------
(* A tick                                                                    *)

Dispatch(s, ks) == IF ks = {} \/ s.next > MaxRequests THEN s ELSE Enqueue(s, CHOOSE k \in ks : TRUE)

\* Up to the choice of a command, and the choice, once for each bus.
BeforeCommands(s, reads, writes, due, ms, gates) ==
    RowPolicyPre(ServiceMaintenance(ScheduleMaintenance(CompletePending(PhyTick(s, reads, writes), due), ms)), gates)
\* The data command of a tick has moved the row bus's gates of its bank into the future.
StillOpen(before, s, gates) ==
    {g \in gates : \A r \in ToSet(s.pending) \ ToSet(before.pending) : g[1] # Bank(r)}
RowCommand(before, s, gates) == Choose(s, "row", StillOpen(before, s, gates))
Commands(s, gates) ==
    IF DualBus THEN RowCommand(s, Choose(s, "column", gates), gates) ELSE Choose(s, "unified", gates)

\* ks: at most one request, ms: at most one maintenance command; due: pending requests that are due.
Tick(ks, reads, writes, due, ms, gates) ==
    \E s \in {Dispatch(mc, ks)} :
        /\ mc' = Commands(BeforeCommands(s, reads, writes, due, ms, gates), gates)
        /\ truth' = IF s.next # mc.next /\ \A k \in ks : k.write
                    THEN Admitted(mc, CHOOSE k \in ks : TRUE, mc.next)
                    ELSE truth
        /\ UNCHANGED <<cfg, answered>>

Submit == \E k \in Kinds : Tick({k}, FALSE, FALSE, {}, <<>>, {})
PhyDue == \E reads \in BOOLEAN : Tick({}, reads, ~reads, {}, <<>>, {})
RequestDue == \E r \in ToSet(mc.pending) : Tick({}, FALSE, FALSE, {r.n}, <<>>, {})
MaintenanceDue == \E m \in Maintenance : Tick({}, FALSE, FALSE, {}, <<m>>, {})

\* The gates that matter: those of the commands wanted next, and of their upgrades.
WantedCommands(s, r) ==
    LET cmd == NextCommand(s, r)
    IN  CASE cmd = "RD" /\ RowPolicy = "cap" -> {"RD", "RDA"}
          [] cmd = "WR" /\ RowPolicy = "cap" -> {"WR", "WRA"}
          [] OTHER -> {cmd}
Wanted(s) ==
    UNION {{Bank(r)} \X WantedCommands(s, r) :
           r \in ToSet(s.read) \cup ToSet(s.write) \cup ToSet(s.active) \cup ToSet(s.priority)}
    \cup {<<b, "PREPB">> : b \in {x \in BankIds : RowPolicy = "cap" /\ s.row[x] # Closed}}
CommandDue ==
    \E gates \in SUBSET Wanted(ServiceMaintenance(mc)) : Tick({}, FALSE, FALSE, {}, <<>>, gates)

\* MemorySystem::collect_responses pops a response.
TakeResponse ==
    /\ mc.responses # <<>>
    /\ mc' = [mc EXCEPT !.responses = Tail(@)]
    /\ answered' = answered \cup {Head(mc.responses).n}
    /\ UNCHANGED <<cfg, truth>>

\* Delays are finite: time and again nothing waits for a timing parameter any more.
AllGates == BankIds \X {"ACT", "PREPB", "PREAB", "RD", "WR", "RDA", "WRA", "REFPB", "REFAB"}
AllDue == {r.n : r \in ToSet(mc.pending)}
QuietTick == Tick({}, TRUE, TRUE, AllDue, <<>>, AllGates)

Next == Submit \/ PhyDue \/ RequestDue \/ MaintenanceDue \/ CommandDue \/ QuietTick \/ TakeResponse

Spec == Init /\ [][Next]_vars

\* Weak fairness of QuietTick, with its ENABLED written out.
Restless == Commands(BeforeCommands(mc, TRUE, TRUE, AllDue, <<>>, AllGates), AllGates) # mc
Fairness ==
    /\ []<>~Restless \/ []<><<QuietTick>>_vars
    /\ WF_vars(TakeResponse)
FairSpec == Spec /\ Fairness

-----------------------------------------------------------------------------
(* Properties                                                                *)

Requests(q) == \A i \in DOMAIN q : q[i].n \in 0..MaxRequests
\* The shape of the state; no queue exceeds its depth, a bank has one row open.
TypeOK ==
    /\ mc.next \in 1 .. (MaxRequests + 1) /\ answered \subseteq 1..MaxRequests
    /\ \A q \in {mc.read, mc.write, mc.active, mc.priority, mc.pending} : Requests(q)
    /\ Len(mc.read) <= ReadDepth /\ Len(mc.write) <= WriteDepth /\ Len(mc.priority) <= PriorityDepth
    /\ Len(mc.active) <= BankCount /\ Len(mc.responses) <= ResponseDepth
    /\ Len(mc.phy.read) <= PhyDepth /\ Len(mc.phy.write) <= PhyDepth
    /\ DOMAIN mc.buffered \subseteq Bytes
    /\ mc.row \in [BankIds -> Nat \cup {Closed}] /\ mc.accesses \in [BankIds -> Nat]
    /\ mc.precharge \in [BankIds -> BOOLEAN] /\ mc.writing \in BOOLEAN

RequestQueues == <<mc.read, mc.write, mc.active, mc.pending, mc.responses>>
PlacesOf(n) == {<<p, i>> : p \in DOMAIN RequestQueues, i \in 1..MaxRequests} \cap
         {x \in (1..5) \X (1..MaxRequests) : x[2] \in DOMAIN RequestQueues[x[1]] /\ RequestQueues[x[1]][x[2]].n = n}
\* Every accepted request is in exactly one place until its response was taken: none is lost,
\* answered twice or answered while a queue still holds it, whichever way it takes.
OnePlace ==
    \A n \in 1..MaxRequests :
        Cardinality(PlacesOf(n)) = IF n < mc.next /\ n \notin answered THEN 1 ELSE 0

\* What a read returns, from the DRAM or forwarded, is the memory as of its acceptance: all
\* writes accepted before it are in, none accepted after it.
ReadsSeeWrites ==
    \A i \in DOMAIN mc.responses :
        LET r == mc.responses[i] IN ~r.write => \A b \in DOMAIN r.want : r.got[b] \in r.want[b]

\* Once no write is buffered or in the PHY, the memory image holds the last write accepted to every
\* byte.  Where writes of different starts met in the buffer it holds one of them, and a byte dropped by
\* a shorter write over a longer one may keep what was there before.
Settled == mc.buffered = <<>> /\ mc.phy.write = <<>>
ImageSettles == Settled => \A b \in Bytes : mc.image[b] \in truth[b]

\* The claim of the code (controller.cpp:962, sequence_tests.cpp:3085) that a merge keeps the order of
\* the writes byte by byte: the last writer wins everywhere.
LastWriterWins == Settled => \A b \in Bytes : mc.image[b] = Max(truth[b])

\* Nobody closes the row, or opens another one, under a request that had it opened.
ActiveKeepsRow == \A i \in DOMAIN mc.active : mc.row[Bank(mc.active[i])] = RowOf(mc.active[i].addr)

\* A write that is queued has its payload in the buffer, and the buffer nothing else.
BufferMatchesQueue ==
    LET queued == SelectSeq(mc.write \o mc.active, LAMBDA r : r.write)
    IN  /\ DOMAIN mc.buffered = {r.addr : r \in ToSet(queued)}
        /\ Cardinality(DOMAIN mc.buffered) = Len(queued)

\* With finite delays and a frontend that takes responses, every accepted request is answered,
\* whatever maintenance comes between.  Requests are bounded, so one left waiting would show.
EveryRequestAnswered == []<>(answered = 1..(mc.next - 1))
\* And all maintenance is carried out.
MaintenanceServed == []<>(mc.waiting = <<>> /\ mc.priority = <<>>)

=============================================================================
