------------------------------ MODULE Frontend ------------------------------
(***************************************************************************)
(* mem_sim's frontend (src/mem_sim/src/frontend/traffic.cpp) and the loops   *)
(* that feed its requests to the memory (run and run_source of               *)
(* src/mem_sim/src/core/system.cpp, run of controller.cpp).  Streams pull    *)
(* from one another: synthetic traffic or a trace, whose burst lines stand   *)
(* for many requests; the control sequence before it; the split of requests  *)
(* into transactions after it.                                             *)
(*                                                                         *)
(* The memory system takes or refuses a transaction, completes what it took  *)
(* in any order, and holds a bounded number of responses (MemorySystem).     *)
(* One request has cfg.pieces transactions; addresses count requests, and    *)
(* an address stands for the pair of it and the explicit stack.  A payload   *)
(* is the pair of address and id that make_request_payload makes it from.    *)
(***************************************************************************)
EXTENDS Integers, Sequences, FiniteSetsExt, SequencesExt, TLC

CONSTANTS
    Configs         \* the configurations a behaviour may have: records of
        \* trace: the lines of the trace (below), or synthetic: the set of ids that the dice make writes;
        \* requests: options.requests; interval: inject_interval; pieces;
        \* control: the number of control requests (init_sequence); control_interval;
        \* feed: "source" or "vector"; drain: the responses are consumed; capacity: of the
        \* response queue; max_cycles
\* A trace line is [op, addr, len, cycle, check]: op is "W", "R", "BW", "BR" or "M"; len its requests
\* (1 but for bursts); cycle its inject cycle, or Unset; check "none", "last_write" or, of bursts,
\* "auto" (on an R line that is a pattern made from the read's own id).
Unset == -1
None == <<>>

FrontendAssumption ==
    \A c \in Configs :
        /\ {c.requests, c.interval, c.control, c.max_cycles, c.control_interval} \subseteq Nat
        /\ {c.pieces, c.capacity} \subseteq Nat \ {0}
        /\ c.feed \in {"source", "vector"} /\ c.drain \in BOOLEAN
        /\ \A i \in DOMAIN c.trace : c.trace[i].len > 0 /\ (c.trace[i].check = "auto" => c.trace[i].op = "BR")

VARIABLES
    cfg,        \* the configuration; it never changes
    stream,     \* the streams: line, done, burst, next_id, last_write_payloads; control_next; pending, next_transaction_id
    clk, phase, \* "inject", "drain", "finished" or "thrown"
    request,    \* pending_request; None
    source_done, last_inject_cycle,
    next,       \* of a vector: the transactions submitted
    accepted,   \* history: the transactions that enqueue took
    inside, held, \* transactions at work; completed ones whose responses the controllers hold
    remaining   \* remaining_frontend_requests_
vars == <<cfg, stream, clk, phase, request, source_done, last_inject_cycle, next, accepted, inside, held, remaining>>

Trace == cfg.trace
IsTrace == Trace # <<>>
IsWrite(op) == op \in {"W", "BW"}
NoBurst == [line |-> 0, next_line |-> 0]

-----------------------------------------------------------------------------
(* The streams.  Each takes the state of the streams and returns it with the *)
(* request, which is None at the end of the stream.                          *)

\* make_request_payload
Payload(addr, id) == <<addr, id>>
NoRequest(s) == [s |-> s, r |-> None, fails |-> FALSE]
Emitted(s, r) == [s |-> s, r |-> r, fails |-> FALSE]
Made(op, addr, id, cycle, payload, expected) ==
    [op |-> op, addr |-> addr, id |-> id, cycle |-> cycle, payload |-> payload, expected |-> expected]

\* SyntheticTrafficStream::next, stream pattern
SyntheticNext(s) ==
    IF s.next_id >= cfg.requests THEN NoRequest(s)
    ELSE LET op == IF s.next_id \in cfg.synthetic THEN "W" ELSE "R"
         IN  Emitted([s EXCEPT !.next_id = @ + 1],
                     Made(op, s.next_id, s.next_id, s.next_id * cfg.interval,
                          IF op = "W" THEN Payload(s.next_id, s.next_id) ELSE None, None))

limit_reached(s) == cfg.requests # 0 /\ s.next_id >= cfg.requests
Known(s, addr) == addr \in DOMAIN s.last_write_payloads
\* What a read is to return, as its check asks.
Expected(s, check, addr) ==
    CASE check = "none" -> None
      [] check = "last_write" -> s.last_write_payloads[addr]
      [] check = "auto" -> IF Known(s, addr) THEN s.last_write_payloads[addr] ELSE Payload(addr, 0)
\* last_write before any write to the address
Unwritten(s, line, addr) == line.check = "last_write" /\ ~Known(s, addr)
Remembered(s, op, addr, payload) ==
    IF IsWrite(op) THEN [s EXCEPT !.last_write_payloads = [x \in DOMAIN @ \cup {addr} |-> IF x = addr THEN payload ELSE @[x]]]
    ELSE s

\* One request of a line: a write's payload is made from its id, a burst's from the address alone.
Request(s, line, addr, cycle) ==
    LET payload == CASE line.op = "W" -> Payload(addr, s.next_id)
                     [] line.op = "BW" -> Payload(addr, 0)
                     [] OTHER -> None
    IN  IF Unwritten(s, line, addr) THEN [s |-> s, r |-> None, fails |-> TRUE]
        ELSE Emitted([Remembered(s, line.op, addr, payload) EXCEPT !.next_id = @ + 1],
                     Made(line.op, addr, s.next_id, cycle, payload, Expected(s, line.check, addr)))

BurstGoesOn(made, line) ==
    [made EXCEPT !.s.burst =
        IF @.next_line + 1 < line.len /\ ~limit_reached(made.s) THEN [@ EXCEPT !.next_line = @ + 1] ELSE NoBurst]
emit_burst(s) ==
    LET line == Trace[s.burst.line]
    IN  BurstGoesOn(Request(s, line, line.addr + s.burst.next_line, s.burst.cycle), line)

parse_trace_line(s) ==
    LET line == Trace[s.line + 1]
        cycle == IF line.cycle = Unset THEN s.next_id * cfg.interval ELSE line.cycle
        read == [s EXCEPT !.line = @ + 1]
    IN  IF line.op \in {"BW", "BR"} THEN emit_burst([read EXCEPT !.burst = [line |-> s.line + 1, next_line |-> 0, cycle |-> cycle]])
        ELSE Request(read, line, line.addr, cycle)

\* TraceTrafficStream::next
TraceNext(s) ==
    CASE limit_reached(s) -> NoRequest(s)
      [] ~limit_reached(s) /\ s.burst # NoBurst -> emit_burst(s)
      [] ~limit_reached(s) /\ s.burst = NoBurst /\ s.line < Len(Trace) -> parse_trace_line(s)
      [] OTHER -> NoRequest([s EXCEPT !.done = TRUE])

WorkloadNext(s) == IF IsTrace THEN TraceNext(s) ELSE SyntheticNext(s)
WorkloadLeft(s) ==
    CASE ~IsTrace -> {cfg.requests - s.next_id}
      [] IsTrace /\ (s.done \/ limit_reached(s)) -> {0}
      [] IsTrace /\ ~s.done /\ ~limit_reached(s) /\ cfg.requests # 0 -> {cfg.requests - s.next_id}
      [] OTHER -> {}

AtLeastOne(n) == IF n = 0 THEN 1 ELSE n
\* generate_control_sequence
Control == [i \in 1..cfg.control |-> Made("M", 0, i - 1, (i - 1) * AtLeastOne(cfg.control_interval), None, None)]
Shift == IF cfg.control = 0 THEN 0 ELSE (cfg.control + 1) * AtLeastOne(cfg.control_interval)
Shifted(r) == [r EXCEPT !.id = @ + cfg.control, !.cycle = @ + Shift]

\* ControlPrefixedTrafficStream::next
Behind(made) == IF made.r = None THEN made ELSE [made EXCEPT !.r = Shifted(@)]
PrefixedNext(s) ==
    IF s.control_next < cfg.control THEN Emitted([s EXCEPT !.control_next = @ + 1], Control[s.control_next + 1])
    ELSE Behind(WorkloadNext(s))

\* split_host_request: transaction i of the request carries piece i of its data.
Split(r) ==
    LET count == IF r.op = "M" THEN 1 ELSE cfg.pieces
    IN  [i \in 1..count |-> [r |-> r, host_request_id |-> r.id, index |-> i - 1, count |-> count]]

\* TransactionSplitTrafficStream::next, on the streams that make_traffic_stream and generate_traffic
\* build.
FromSource == cfg.feed = "source"
Pulled(s) == IF FromSource THEN PrefixedNext(s) ELSE WorkloadNext(s)
Piece(s, pieces) ==
    Emitted([s EXCEPT !.pending = Tail(pieces), !.next_transaction_id = @ + 1],
            [tx |-> s.next_transaction_id, of |-> Head(pieces), cycle |-> Head(pieces).r.cycle])
FirstPiece(pulled) == IF pulled.r = None THEN pulled ELSE Piece(pulled.s, Split(pulled.r))
SplitNext(s) == IF s.pending # <<>> THEN Piece(s, s.pending) ELSE FirstPiece(Pulled(s))

\* remaining_hint of the whole chain: none of a trace that is read to its end.
Hint(s) == {Len(s.pending) + (cfg.control - s.control_next + n) * cfg.pieces : n \in WorkloadLeft(s)}

-----------------------------------------------------------------------------
(* The vector: generate_traffic drains the streams, prepend_control_sequence *)
(* puts the control sequence in front, run sorts                             *)

StreamInit ==
    [line |-> 0, done |-> FALSE, burst |-> NoBurst, next_id |-> 0, last_write_payloads |-> <<>>,
     control_next |-> 0, pending |-> <<>>, next_transaction_id |-> 0]

\* A bound on the requests of a trace.
TraceLength == FoldLeft(LAMBDA n, line : n + line.len, 0, Trace)
Grown(before, made) == IF made.r = None THEN before ELSE [made EXCEPT !.r = Append(before.r, made.r)]
Generated ==
    LET upTo[n \in Nat] ==
            IF n = 0 THEN [NoRequest(StreamInit) EXCEPT !.r = <<>>]
            ELSE LET before == upTo[n - 1] IN Grown(before, SplitNext(before.s))
    IN  upTo[Max({cfg.requests, TraceLength}) * cfg.pieces].r
Prepended(q) ==
    [i \in DOMAIN Control |-> [tx |-> i - 1, of |-> Split(Control[i])[1], cycle |-> Control[i].cycle]]
        \o [i \in DOMAIN q |-> [q[i] EXCEPT !.tx = @ + cfg.control, !.cycle = @ + Shift]]
\* std::stable_sort by inject_cycle
Sorted(q) == SortSeq(q, LAMBDA x, y : x.cycle < y.cycle \/ (x.cycle = y.cycle /\ x.tx < y.tx))
Vector == Sorted(Prepended(Generated))

-----------------------------------------------------------------------------
(* The run loops                                                             *)

Init ==
    /\ cfg \in Configs
    /\ stream = StreamInit
    /\ clk = 0 /\ phase = IF cfg.max_cycles = 0 THEN "drain" ELSE "inject"
    /\ request = None /\ source_done = FALSE /\ last_inject_cycle = 0
    /\ next = 0 /\ accepted = <<>>
    /\ inside = 0 /\ held = 0
    /\ remaining = 0

\* source.next; what a stream throws ends the run.
Fetched(made) ==
    /\ stream' = made.s
    /\ source_done' = (made.r = None /\ ~made.fails)
    /\ request' = made.r
    /\ phase' = IF made.fails \/ (made.r # None /\ made.r.cycle < last_inject_cycle) THEN "thrown" ELSE phase
    /\ last_inject_cycle' = IF made.r = None THEN last_inject_cycle ELSE made.r.cycle
Fetch ==
    /\ phase = "inject" /\ FromSource /\ request = None /\ ~source_done
    /\ Fetched(SplitNext(stream))
    /\ UNCHANGED <<cfg, clk, next, accepted, inside, held, remaining>>

\* enqueue or try_submit takes it. What has no answer is not counted as inside.
Takes(r) ==
    /\ r.cycle <= clk
    /\ accepted' = Append(accepted, r)
    /\ inside' = IF r.of.r.op = "M" THEN inside ELSE inside + 1
    /\ UNCHANGED <<cfg, stream, clk, phase, source_done, last_inject_cycle, held, remaining>>
SubmitFromSource == phase = "inject" /\ FromSource /\ request # None /\ Takes(request) /\ request' = None /\ UNCHANGED next
SubmitFromVector ==
    /\ phase = "inject" /\ ~FromSource
    /\ LET requests == Vector IN next < Len(requests) /\ Takes(requests[next + 1])
    /\ next' = next + 1 /\ UNCHANGED request

\* The loop over requests ends: nothing is left, or the next one is not due or refused.
Breaks == FromSource => request # None \/ source_done

\* Something is left to do: requests, transactions, responses.
GoesOn(i, h) ==
    IF FromSource THEN ~source_done \/ request # None \/ i > 0 \/ (cfg.drain /\ h > 0)
    ELSE next < Len(Vector) \/ i > 0

\* The system ticks: some transactions complete, responses are collected as far as the queue has
\* room, and consumed.
Collected(n) == n - Min({n, cfg.capacity})
Step ==
    /\ phase = "inject" /\ Breaks
    /\ clk' = clk + 1
    /\ \E n \in 0..inside :
          /\ inside' = inside - n
          /\ held' = IF cfg.drain THEN Collected(held + n) ELSE 0
          /\ phase' = IF GoesOn(inside', held') /\ clk' < cfg.max_cycles THEN "inject" ELSE "drain"
    /\ UNCHANGED <<cfg, stream, request, source_done, last_inject_cycle, next, accepted, remaining>>

\* remaining_frontend
Remaining ==
    IF FromSource THEN (IF request = None THEN 0 ELSE 1)
                       + (IF source_done THEN 0 ELSE IF Hint(stream) = {} THEN 1 ELSE Max(Hint(stream)))
    ELSE Len(Vector) - next

\* After the loop: what the controllers hold is collected and consumed until there is no more.
Drain ==
    /\ phase = "drain"
    /\ held' = Collected(held)
    /\ IF held > 0 THEN UNCHANGED <<phase, remaining>> ELSE phase' = "finished" /\ remaining' = Remaining
    /\ UNCHANGED <<cfg, stream, clk, request, source_done, last_inject_cycle, next, accepted, inside>>

Next == Fetch \/ SubmitFromSource \/ SubmitFromVector \/ Step \/ Drain
Spec == Init /\ [][Next]_vars

-----------------------------------------------------------------------------
(* Properties                                                                *)

TypeOK ==
    /\ phase \in {"inject", "drain", "finished", "thrown"} /\ clk \in 0..cfg.max_cycles
    /\ inside \in Nat /\ held \in Nat /\ remaining \in Nat
    /\ request # None => FromSource /\ request.of.index \in 0..(cfg.pieces - 1)

\* What the trace asks for, counted line by line: each request with its number and the first number
\* of its line.
FirstOf(i) == FoldLeft(LAMBDA n, line : n + line.len, 0, SubSeq(Trace, 1, i - 1))
AsksOf(line, first) ==
    [k \in 1..line.len |-> [line |-> line, n |-> first + k - 1, first |-> first, addr |-> line.addr + k - 1]]
Limit(asks) == IF cfg.requests = 0 THEN asks ELSE SubSeq(asks, 1, Min({cfg.requests, Len(asks)}))
TraceAsks == Limit(FlattenSeq([i \in DOMAIN Trace |-> AsksOf(Trace[i], FirstOf(i))]))
WritesBefore(asks, a) == {i \in 1..a.n : IsWrite(asks[i].line.op) /\ asks[i].addr = a.addr}
Written(a) == Payload(a.addr, IF a.line.op = "W" THEN a.n ELSE 0)
ReadBack(asks, a, writes) == IF writes = {} THEN Payload(a.addr, 0) ELSE Written(asks[Max(writes)])
Asked(asks, a) ==
    Made(a.line.op, a.addr, a.n, IF a.line.cycle = Unset THEN a.first * cfg.interval ELSE a.line.cycle,
         IF IsWrite(a.line.op) THEN Written(a) ELSE None,
         IF a.line.check = "none" THEN None ELSE ReadBack(asks, a, WritesBefore(asks, a)))
AllAsked(asks) == [i \in DOMAIN asks |-> Asked(asks, asks[i])]
AllSynthetic ==
    [i \in 1..cfg.requests |->
        IF i - 1 \in cfg.synthetic THEN Made("W", i - 1, i - 1, (i - 1) * cfg.interval, Payload(i - 1, i - 1), None)
        ELSE Made("R", i - 1, i - 1, (i - 1) * cfg.interval, None, None)]
\* With the control sequence in front, one command after the other, and the workload after the last.
Gap == Max({1, cfg.control_interval})
Later(r, id) == [r EXCEPT !.id = id, !.cycle = IF cfg.control = 0 THEN @ ELSE @ + (cfg.control + 1) * Gap]
BehindControl(asked) ==
    [i \in 1..cfg.control |-> Made("M", 0, i - 1, (i - 1) * Gap, None, None)]
        \o [i \in DOMAIN asked |-> Later(asked[i], i - 1 + cfg.control)]
Pieces(r, count) == [k \in 1..count |-> [r |-> r, host_request_id |-> r.id, index |-> k - 1, count |-> count]]
InPieces(asked) == FlattenSeq([i \in DOMAIN asked |-> Pieces(asked[i], IF asked[i].op = "M" THEN 1 ELSE cfg.pieces)])
Workload == InPieces(BehindControl(IF IsTrace THEN AllAsked(TraceAsks) ELSE AllSynthetic))

\* What the memory is given: everything but the number of a vector's host request, which
\* prepend_control_sequence does not shift.
Shown(of, cycle) ==
    [op |-> of.r.op, addr |-> of.r.addr, payload |-> of.r.payload, expected |-> of.r.expected,
     index |-> of.index, count |-> of.count, cycle |-> cycle]
AskedFor(a, asked) ==
    /\ FromSource => a.of = asked
    /\ Shown(a.of, a.cycle) = Shown(asked, asked.r.cycle)
Fed(workload) ==
    \A i \in DOMAIN accepted :
        /\ accepted[i].tx < Len(workload) /\ AskedFor(accepted[i], workload[accepted[i].tx + 1])
        /\ FromSource => accepted[i].tx = i - 1
        /\ \A j \in 1..(i - 1) : accepted[j].tx # accepted[i].tx /\ accepted[j].cycle <= accepted[i].cycle
\* The requests reach the memory as trace and options ask: in their order, none left out, doubled
\* or torn, the limit and the control sequence kept, in one numbering, and each host request with
\* a number of its own; through streams as through the vector, but for its order.
FedAsAsked == Fed(Workload)

OutOfOrder(workload) == \E i, j \in DOMAIN workload : i < j /\ workload[i].r.cycle > workload[j].r.cycle
\* It asks for the last write of an address before there is one.
Rash(asks) == \E i \in DOMAIN asks : asks[i].line.check = "last_write" /\ WritesBefore(asks, asks[i]) = {}
Left(workload) == Len(workload) - Len(accepted)
\* A run that was cut short says so: nothing remains only if all was accepted, and of synthetic
\* traffic without control, or of a vector, what remains is exact. Completed responses are
\* consumed whatever ended the run; and only a trace out of order, or one that asks for the last
\* write where there is none, is thrown out.
EndsHonestly ==
    /\ phase = "finished" =>
          /\ held = 0 /\ (clk < cfg.max_cycles => inside = 0 /\ remaining = 0)
          /\ remaining = 0 => Left(Workload) = 0
          /\ ~FromSource \/ (~IsTrace /\ cfg.control = 0) => remaining = Left(Workload)
    /\ phase = "thrown" => OutOfOrder(Workload) \/ Rash(TraceAsks)

\* A read is checked against what the memory will hold when it is served after everything
\* accepted before it.
ExpectsLastWrite ==
    FromSource => \A i \in DOMAIN accepted :
        LET r == accepted[i].of.r
            writes == {j \in 1..(i - 1) : IsWrite(accepted[j].of.r.op) /\ accepted[j].of.r.addr = r.addr
                                              /\ accepted[j].of.index = accepted[i].of.index}
        IN  r.expected # None /\ writes # {} => r.expected = accepted[Max(writes)].of.r.payload
=============================================================================
