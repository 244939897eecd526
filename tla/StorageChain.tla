---------------------------- MODULE StorageChain ---------------------------
(***************************************************************************)
(* The RTL of the storage chain (src/gem5_new/storage_chain): the master that  *)
(* turns an XPU's commands into single-beat AXI transfers, the transparent      *)
(* boundary with its trace monitor and its ready/valid checker, and the memory   *)
(* of the test bench that stalls every channel.  A step is a clock edge: every   *)
(* register takes its next value from the registers and inputs before it.        *)
(*                                                                         *)
(* The XPU's side is the test bench's: a command is offered until it is taken,   *)
(* and the next one when it is answered, both as late as it likes.              *)
(***************************************************************************)
EXTENDS Integers, Sequences, FiniteSets, SequencesExt

CONSTANTS
    Commands,       \* those the XPUs may give: records [write, src, id, addr, data]
    MaxChainCommands, MaxResets, MaxIdle,    \* bounds; MaxIdle is of the cycles without a command or a taken answer
    None

SourceIds == {c.src : c \in Commands}
CommandIds == {c.id : c \in Commands}
WordAddresses == {c.addr : c \in Commands}
Words == {0} \cup {c.data : c \in Commands}
Responses == [write: BOOLEAN, id: CommandIds, data: Words]
Transfers == [src: SourceIds, id: CommandIds, addr: WordAddresses, txn: 0 .. MaxChainCommands]

\* None stands for what a register marks as not valid.
ChainAssumption ==
    /\ Commands \subseteq [write: BOOLEAN, src: SourceIds, id: CommandIds, addr: WordAddresses, data: Words]
    /\ None \notin Commands /\ None \notin WordAddresses /\ None \notin Responses /\ None \notin Transfers
    /\ {MaxChainCommands, MaxIdle} \subseteq Nat

VARIABLES
    cmd,            \* the command that is offered or under way, or None
    master,         \* xpu_axi_master: state, pending, awvalid, wvalid, arvalid, rsp
    memory,         \* the test bench's memory: see MemoryReset
    monitor,        \* axi_hettrace_monitor: see MonitorReset
    checker,        \* axi_subset_checker: channel -> the payload it holds against, or None
    fatal,          \* some $fatal was reached
    trace,          \* history: the records, in the order of the monitor
    answered,       \* history: [cmd, rsp] in the order of the answers
    words,          \* history: what the answered and answering writes left
    resets, idle
chainVars == <<cmd, master, memory, monitor, checker, fatal, trace, answered, words, resets, idle>>

Channels == {"AW", "W", "B", "AR", "R"}

MasterReset == [state |-> "IDLE", pending |-> None, awvalid |-> FALSE, wvalid |-> FALSE, arvalid |-> FALSE, rsp |-> None]
MemoryReset == [awready |-> FALSE, wready |-> FALSE, arready |-> FALSE, bvalid |-> FALSE, rvalid |-> FALSE,
                waddr |-> None, wid |-> None, bid |-> None, rpending |-> None, rdata |-> None, bdelay |-> 0, rdelay |-> 0,
                cycle |-> 0, cells |-> [a \in WordAddresses |-> 0]]
MonitorReset == [wactive |-> None, ractive |-> None, wbeat |-> 0, rbeat |-> 0, seq |-> [s \in SourceIds |-> 0], txn |-> [s \in SourceIds |-> 0]]

Reset ==
    /\ master' = MasterReset /\ memory' = MemoryReset /\ monitor' = MonitorReset
    /\ checker' = [c \in Channels |-> None]
    /\ cmd' = None /\ fatal' = FALSE /\ trace' = <<>> /\ answered' = <<>> /\ words' = [a \in WordAddresses |-> 0]
    /\ idle' = 0

ChainInit ==
    /\ master = MasterReset /\ memory = MemoryReset /\ monitor = MonitorReset
    /\ checker = [c \in Channels |-> None]
    /\ cmd = None /\ fatal = FALSE /\ trace = <<>> /\ answered = <<>> /\ words = [a \in WordAddresses |-> 0]
    /\ resets = 0 /\ idle = 0

\* The wires: valid, ready and payload of a channel on both sides of the boundary, which only connects.
Valid(c) ==
    CASE c = "AW" -> master.awvalid [] c = "W" -> master.wvalid [] c = "AR" -> master.arvalid
      [] c = "B" -> memory.bvalid [] c = "R" -> memory.rvalid
Ready(c) ==
    CASE c = "AW" -> memory.awready [] c = "W" -> memory.wready [] c = "AR" -> memory.arready
      [] c = "B" -> master.state = "WR_WAIT" /\ master.rsp = None
      [] c = "R" -> master.state = "RD_WAIT" /\ master.rsp = None
Payload(c) ==
    CASE c \in {"AW", "AR"} -> [id |-> master.pending.id, addr |-> master.pending.addr, user |-> master.pending.src]
      [] c = "W" -> [data |-> master.pending.data]
      [] c = "B" -> [id |-> memory.bid]
      [] c = "R" -> [id |-> memory.rpending.id, data |-> memory.rdata]
Fire(c) == Valid(c) /\ Ready(c)

-----------------------------------------------------------------------------
(* xpu_axi_master.                                                          *)

MasterNext(offered, rspReady) ==
    CASE master.state = "IDLE" /\ offered # None ->
           IF offered.write THEN [master EXCEPT !.state = "WR_SEND", !.pending = offered, !.awvalid = TRUE, !.wvalid = TRUE]
                            ELSE [master EXCEPT !.state = "RD_SEND", !.pending = offered, !.arvalid = TRUE]
      [] master.state = "WR_SEND" ->
           LET sent(c) == ~Valid(c) \/ Ready(c)
           IN  [master EXCEPT !.awvalid = @ /\ ~Fire("AW"), !.wvalid = @ /\ ~Fire("W"),
                              !.state = IF sent("AW") /\ sent("W") THEN "WR_WAIT" ELSE @]
      [] master.state = "WR_WAIT" /\ Fire("B") ->
           [master EXCEPT !.state = "RETURN", !.rsp = [write |-> TRUE, id |-> memory.bid, data |-> 0]]
      [] master.state = "RD_SEND" /\ Fire("AR") ->
           [master EXCEPT !.state = "RD_WAIT", !.arvalid = FALSE]
      [] master.state = "RD_WAIT" /\ Fire("R") ->
           [master EXCEPT !.state = "RETURN", !.rsp = [write |-> FALSE, id |-> memory.rpending.id, data |-> memory.rdata]]
      [] master.state = "RETURN" /\ rspReady ->
           [master EXCEPT !.state = "IDLE", !.rsp = None]
      [] OTHER -> master

MasterFatal ==
    \/ Fire("B") /\ memory.bid # master.pending.id
    \/ Fire("R") /\ memory.rpending.id # master.pending.id

-----------------------------------------------------------------------------
(* The test bench's memory: registered READYs, and B and R some cycles later. *)

\* Fault: W is taken before its AW.
WriteReadyAnyTime == ~memory.bvalid /\ memory.cycle % 2 = 1

WriteReady == memory.waddr # None /\ ~memory.bvalid /\ memory.cycle % 2 = 1

MemoryNext ==
    [awready |-> memory.waddr = None /\ ~memory.bvalid /\ memory.cycle # 0 /\ ~Fire("AW"),
     wready |-> WriteReady /\ ~Fire("W"),
     arready |-> memory.rpending = None /\ ~memory.rvalid /\ memory.cycle = 2 /\ ~Fire("AR"),
     bvalid |-> (memory.bvalid \/ memory.bdelay = 1) /\ ~Fire("B"),
     rvalid |-> (memory.rvalid \/ memory.rdelay = 1) /\ ~Fire("R"),
     waddr |-> IF Fire("W") THEN None ELSE IF Fire("AW") THEN Payload("AW").addr ELSE memory.waddr,
     wid |-> IF Fire("AW") THEN Payload("AW").id ELSE memory.wid,
     bid |-> IF Fire("W") THEN memory.wid ELSE memory.bid,
     rpending |-> IF Fire("R") THEN None ELSE IF Fire("AR") THEN Payload("AR") ELSE memory.rpending,
     rdata |-> IF memory.rdelay = 1 THEN memory.cells[memory.rpending.addr] ELSE memory.rdata,
     bdelay |-> IF memory.bdelay > 0 THEN memory.bdelay - 1 ELSE IF Fire("W") THEN 3 ELSE 0,
     rdelay |-> IF memory.rdelay > 0 THEN memory.rdelay - 1 ELSE IF Fire("AR") THEN 4 ELSE 0,
     cycle |-> (memory.cycle + 1) % 4,
     cells |-> IF Fire("W") THEN [memory.cells EXCEPT ![memory.waddr] = master.pending.data] ELSE memory.cells]

MemoryFatal ==
    \/ Fire("AW") /\ Payload("AW").user # cmd.src
    \/ Fire("AR") /\ Payload("AR").user # cmd.src
    \/ Fire("W") /\ memory.waddr = None

-----------------------------------------------------------------------------
(* axi_hettrace_monitor: at most one handshake a cycle, and a record of it.   *)

Fired == {c \in Channels : Fire(c)}
First == IF Fire("AW") THEN "AW" ELSE IF Fire("W") THEN "W" ELSE IF Fire("B") THEN "B" ELSE IF Fire("AR") THEN "AR" ELSE "R"

\* The transfer under way on the side of the channel; an address handshake starts it.
Transfer(c) ==
    IF c \in {"AW", "AR"} THEN [src |-> Payload(c).user, id |-> Payload(c).id, addr |-> Payload(c).addr,
                                txn |-> monitor.txn[Payload(c).user]]
    ELSE IF c \in {"W", "B"} THEN monitor.wactive ELSE monitor.ractive

MonitorRecord(c) ==
    LET t == Transfer(c)
    IN  [chan |-> c, src |-> t.src, id |-> t.id, addr |-> t.addr, txn |-> t.txn, seq |-> monitor.seq[t.src],
         last |-> c \in {"W", "B", "R"}]

MonitorNext ==
    IF Fired = {} THEN monitor
    ELSE LET c == First
             t == Transfer(c)
             numbered == [monitor EXCEPT !.seq[t.src] = @ + 1]
         IN  CASE c = "AW" -> [numbered EXCEPT !.wactive = t, !.wbeat = 0, !.txn[t.src] = @ + 1]
               [] c = "W" -> [numbered EXCEPT !.wbeat = @ + 1]
               [] c = "B" -> [numbered EXCEPT !.wactive = None]
               [] c = "AR" -> [numbered EXCEPT !.ractive = t, !.rbeat = 0, !.txn[t.src] = @ + 1]
               [] c = "R" -> [numbered EXCEPT !.ractive = None, !.rbeat = @ + 1]

\* Two handshakes at once, transfers that overlap, or a beat that belongs to none; WLAST and RLAST
\* are tied to 1, and lengths to 0.
MonitorFatal ==
    \/ Cardinality(Fired) > 1
    \/ Fire("AW") /\ monitor.wactive # None
    \/ Fire("W") /\ (monitor.wactive = None \/ monitor.wbeat # 0)
    \/ Fire("B") /\ (monitor.wactive = None \/ memory.bid # monitor.wactive.id)
    \/ Fire("AR") /\ monitor.ractive # None
    \/ Fire("R") /\ (monitor.ractive = None \/ memory.rpending.id # monitor.ractive.id \/ monitor.rbeat # 0)

-----------------------------------------------------------------------------
(* axi_subset_checker: what was valid and not ready is still there.           *)

CheckerFatal == \E c \in Channels : checker[c] # None /\ (~Valid(c) \/ Payload(c) # checker[c])
CheckerNext == [c \in Channels |-> IF Valid(c) /\ ~Ready(c) THEN Payload(c) ELSE None]

-----------------------------------------------------------------------------
\* A clock edge, with what the XPU's side drives at it.
Cycle(offered, rspReady) ==
    LET takes == master.state = "IDLE" /\ offered # None
        returns == master.state = "RETURN" /\ rspReady
    IN  /\ master' = MasterNext(IF master.state = "IDLE" THEN offered ELSE None, rspReady)
        /\ memory' = MemoryNext
        /\ checker' = CheckerNext
        /\ fatal' = (MasterFatal \/ MemoryFatal \/ MonitorFatal \/ CheckerFatal)
        /\ monitor' = IF MonitorFatal THEN monitor ELSE MonitorNext
        /\ trace' = IF Fired = {} \/ MonitorFatal THEN trace ELSE Append(trace, MonitorRecord(First))
        /\ cmd' = IF returns THEN None ELSE offered
        /\ answered' = IF returns THEN Append(answered, [cmd |-> cmd, rsp |-> master.rsp]) ELSE answered
        /\ words' = IF returns /\ cmd.write THEN [words EXCEPT ![cmd.addr] = cmd.data] ELSE words
        /\ takes \/ returns \/ idle < MaxIdle \/ (offered # None /\ master.state # "RETURN")
        /\ idle' = IF takes \/ returns THEN 0
                   ELSE IF offered = None \/ master.state = "RETURN" THEN idle + 1 ELSE idle

Clock ==
    /\ ~fatal
    /\ \E offered \in IF cmd # None THEN {cmd}
                      ELSE IF Len(answered) < MaxChainCommands THEN Commands \cup {None} ELSE {None} :
         \E rspReady \in BOOLEAN : Cycle(offered, rspReady)
    /\ UNCHANGED resets

\* rst_n low at a clock edge.
ResetCycle == resets < MaxResets /\ resets' = resets + 1 /\ Reset

ChainNext == Clock \/ ResetCycle

ChainSpec == ChainInit /\ [][ChainNext]_chainVars

-----------------------------------------------------------------------------
ChainTypeOK ==
    /\ master.state \in {"IDLE", "WR_SEND", "WR_WAIT", "RD_SEND", "RD_WAIT", "RETURN"}
    /\ cmd \in Commands \cup {None} /\ idle \in 0 .. MaxIdle
    /\ memory.bdelay \in 0 .. 3 /\ memory.rdelay \in 0 .. 4

\* The records a command has in the end, the n-th of its source, whose first record has number k.
Expected(c, n, k) ==
    LET chans == IF c.write THEN <<"AW", "W", "B">> ELSE <<"AR", "R">>
    IN  [i \in DOMAIN chans |->
            [chan |-> chans[i], src |-> c.src, id |-> c.id, addr |-> c.addr, txn |-> n, seq |-> k + i - 1,
             last |-> chans[i] \in {"W", "B", "R"}]]

Started == [i \in DOMAIN answered |-> answered[i].cmd] \o (IF cmd = None THEN <<>> ELSE <<cmd>>)
ExpectedOf(i) ==
    LET earlier == SelectSeq(SubSeq(Started, 1, i - 1), LAMBDA c : c.src = Started[i].src)
    IN  Expected(Started[i], Len(earlier), FoldLeft(LAMBDA n, c : n + IF c.write THEN 3 ELSE 2, 0, earlier))
ExpectedTrace == FlattenSeq([i \in 1 .. Len(Started) |-> ExpectedOf(i)])

\* No check in master, memory, monitor or checker ever stops the simulation.
NeverStops == ~fatal

\* An answer is that of its command, a read's with the word that was written there last.
AnswersExact ==
    /\ \A i \in DOMAIN answered : /\ answered[i].rsp.id = answered[i].cmd.id
                                  /\ answered[i].rsp.write = answered[i].cmd.write
    /\ master.state = "RETURN" /\ ~master.rsp.write => master.rsp.data = words[cmd.addr]

\* The trace has the handshakes of every command and nothing else, each source numbered without a gap.
TraceExact ==
    /\ IsPrefix(trace, ExpectedTrace)
    /\ cmd = None => trace = ExpectedTrace

BusTraceExact == NeverStops /\ AnswersExact /\ TraceExact

=============================================================================
