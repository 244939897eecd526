------------------------------ MODULE AxiProofs ------------------------------
(***************************************************************************)
(* The AXI masters.  Of gem5's: every burst that Master::split makes of any    *)
(* packet is one that the bridge accepts, and together they are the packet     *)
(* (TypeOK, ContractKept and EndToEnd are inductive together; the arithmetic    *)
(* of one round is the lemma RoundFits).  Of the RTL's: the storage chain        *)
(* reaches no $fatal and answers every command exactly.                        *)
(***************************************************************************)
EXTENDS AxiSplit, StorageChain, FiniteSetTheorems, TLAPS

-----------------------------------------------------------------------------
(* Master::split                                                             *)

\* The inner loop of split finds a beat: one byte is always usable.
LEMMA BeatUsable ==
    ASSUME TypeOK, offset < len
    PROVE  Beat \in Widths /\ Usable(Beat)
<1> DEFINE Best(b) == /\ b \in Widths /\ Usable(b)
                      /\ \A w \in Widths : Usable(w) => w <= b
<1>1. Usable(1)
  BY DEF TypeOK, Usable, Remaining
<1>2. \E b : Best(b)
  BY <1>1 DEF Widths, Usable
<1> QED
  BY <1>2 DEF Beat

\* A burst of width beat at an address that width divides has at least one beat, at most 256, and
\* ends neither past the packet nor past the page.
LEMMA RoundFits ==
    ASSUME TypeOK, NEW beat \in Widths, Usable(beat)
    PROVE  /\ Beats(beat) \in 1..MaxBeats
           /\ beat * Beats(beat) \in 1..Remaining
           /\ (addr % PageBytes) + beat * Beats(beat) <= PageBytes
<1>1. addr \in Nat /\ Remaining \in Nat
  BY DEF TypeOK, Remaining
<1>2. beat <= Remaining /\ addr % beat = 0
  BY DEF Usable
<1>3. CASE beat = 1
  BY <1>1, <1>2, <1>3 DEF Beats, Least2, ToPageEnd, PageBytes, MaxBeats
<1>4. CASE beat = 2
  BY <1>1, <1>2, <1>4 DEF Beats, Least2, ToPageEnd, PageBytes, MaxBeats
<1>5. CASE beat = 4
  BY <1>1, <1>2, <1>5 DEF Beats, Least2, ToPageEnd, PageBytes, MaxBeats
<1>6. CASE beat = 8
  BY <1>1, <1>2, <1>6 DEF Beats, Least2, ToPageEnd, PageBytes, MaxBeats
<1>7. CASE beat = 16
  BY <1>1, <1>2, <1>7 DEF Beats, Least2, ToPageEnd, PageBytes, MaxBeats
<1>8. CASE beat = 32
  BY <1>1, <1>2, <1>8 DEF Beats, Least2, ToPageEnd, PageBytes, MaxBeats
<1> QED
  BY <1>3, <1>4, <1>5, <1>6, <1>7, <1>8 DEF Widths

\* An empty list of bursts at the start of the packet satisfies the invariant.
LEMMA InitSplitInv == Init => SplitInv
<1> SUFFICES ASSUME Init PROVE SplitInv
  OBVIOUS
<1>1. base \in Nat /\ len \in Nat \ {0} /\ addr = base /\ offset = 0 /\ out = <<>>
  BY SplitAssumption DEF Init
<1> QED
  BY <1>1 DEF SplitInv, TypeOK, ContractKept, EndToEnd

\* What a round appends, and where it leaves the loop.
LEMMA RoundAppends ==
    ASSUME SplitInv, Round
    PROVE  \E b \in Burst :
              /\ out' = Append(out, b) /\ b.address = addr /\ b.offset = offset
              /\ addr' = addr + BurstSize(b) /\ offset' = offset + BurstSize(b)
              /\ BurstSize(b) \in 1..Remaining
              /\ b.address % b.bytes = 0 /\ (b.address % PageBytes) + BurstSize(b) <= PageBytes
<1>1. TypeOK /\ offset < len
  BY DEF SplitInv, Round
<1> DEFINE b == [address |-> addr, offset |-> offset, bytes |-> Beat, beats |-> Beats(Beat)]
<1>2. Beat \in Widths /\ Usable(Beat)
  BY <1>1, BeatUsable
<1>3. /\ Beats(Beat) \in 1..MaxBeats /\ Beat * Beats(Beat) \in 1..Remaining
      /\ (addr % PageBytes) + Beat * Beats(Beat) <= PageBytes
  BY <1>1, <1>2, RoundFits
<1>4. b \in Burst
  BY <1>1, <1>2, <1>3 DEF Burst, TypeOK
<1>5. BurstSize(b) = Beat * Beats(Beat)
  BY DEF BurstSize
<1>6. out' = Append(out, b) /\ addr' = addr + BurstSize(b) /\ offset' = offset + BurstSize(b)
  BY <1>5 DEF Round, OffsetAfter
<1>7. addr % Beat = 0
  BY <1>2 DEF Usable
<1> QED
  BY <1>3, <1>4, <1>5, <1>6, <1>7

\* A round keeps the invariant.
LEMMA RoundSplitInv == ASSUME SplitInv, Round PROVE SplitInv'
<1>1. PICK b \in Burst :
              /\ out' = Append(out, b) /\ b.address = addr /\ b.offset = offset
              /\ addr' = addr + BurstSize(b) /\ offset' = offset + BurstSize(b)
              /\ BurstSize(b) \in 1..Remaining
              /\ b.address % b.bytes = 0 /\ (b.address % PageBytes) + BurstSize(b) <= PageBytes
  BY RoundAppends
<1>2. /\ base' = base /\ len' = len
      /\ base \in Nat /\ len \in Nat \ {0} /\ addr \in Nat /\ offset \in 0..len
      /\ out \in Seq(Burst)
  BY DEF SplitInv, TypeOK, Round
<1>3. /\ out' \in Seq(Burst) /\ Len(out') = Len(out) + 1 /\ out'[Len(out) + 1] = b
      /\ \A i \in 1..Len(out) : out'[i] = out[i]
      /\ out' # <<>> /\ Len(out) \in Nat
  BY <1>1, <1>2
<1>4. TypeOK'
  BY <1>1, <1>2, <1>3 DEF TypeOK, Remaining
<1>5. ContractKept'
  BY <1>1, <1>3 DEF SplitInv, ContractKept, BurstSize
<1>6. EndToEnd'
  <2>1. addr' = base' + offset'
    BY <1>1, <1>2 DEF SplitInv, EndToEnd, BurstSize, Burst, Widths, MaxBeats
  <2>2. ASSUME NEW i \in 1..Len(out')
        PROVE  /\ out'[i].address = base' + out'[i].offset
               /\ out'[i].offset + BurstSize(out'[i])
                    = IF i = Len(out') THEN offset' ELSE out'[i + 1].offset
    <3>1. CASE i = Len(out) + 1
      BY <1>1, <1>2, <1>3, <3>1 DEF SplitInv, EndToEnd
    <3>2. CASE i = Len(out)
      BY <1>1, <1>2, <1>3, <3>2 DEF SplitInv, EndToEnd, BurstSize
    <3>3. CASE i \in 1..(Len(out) - 1)
      <4>1. i \in 1..Len(out) /\ i + 1 \in 1..Len(out) /\ i # Len(out) /\ i # Len(out')
        BY <1>3, <3>3
      <4> QED
        BY <1>2, <1>3, <4>1 DEF SplitInv, EndToEnd, BurstSize
    <3> QED
      BY <1>3, <3>1, <3>2, <3>3
  <2>3. out'[1].offset = 0
    <3>1. CASE out = <<>>
      BY <1>1, <1>3, <3>1 DEF SplitInv, EndToEnd
    <3>2. CASE out # <<>>
      <4>1. 1 \in 1..Len(out)
        BY <1>2, <3>2
      <4> QED
        BY <1>3, <3>2, <4>1 DEF SplitInv, EndToEnd
    <3> QED
      BY <3>1, <3>2
  <2> QED
    BY <1>3, <2>1, <2>2, <2>3 DEF EndToEnd, BurstSize
<1> QED
  BY <1>4, <1>5, <1>6 DEF SplitInv

\* The invariant holds throughout, for any packet.
THEOREM SplitCorrect == Spec => []SplitInv
<1>1. SplitInv /\ [Next]_vars => SplitInv'
  <2> SUFFICES ASSUME SplitInv, [Next]_vars PROVE SplitInv'
    OBVIOUS
  <2>1. CASE Round
    BY <2>1, RoundSplitInv
  <2>2. CASE UNCHANGED vars
    BY <2>2 DEF vars, SplitInv, TypeOK, ContractKept, EndToEnd
  <2> QED
    BY <2>1, <2>2 DEF Next, Return
<1> QED
  BY <1>1, InitSplitInv, PTL DEF Spec

\* No burst that Master sends is ever refused by axi_request_error.
THEOREM SplitKeepsContract == Spec => []ContractKept
  BY SplitCorrect, PTL DEF SplitInv

\* Every byte of a packet is carried exactly once, at its own address.
THEOREM SplitCoversPacket == Spec => []EndToEnd
  BY SplitCorrect, PTL DEF SplitInv

\* split always returns: each round advances, and never beyond the packet.
THEOREM SplitReturns == Spec => RoundsAdvance
<1>1. SplitInv /\ [Next]_vars => [offset < offset' /\ offset' <= len]_vars
  <2> SUFFICES ASSUME SplitInv, Round PROVE offset < offset' /\ offset' <= len
    BY DEF Next, Return
  <2>1. PICK b \in Burst : offset' = offset + BurstSize(b) /\ BurstSize(b) \in 1..Remaining
    BY RoundAppends
  <2> QED
    BY <2>1 DEF SplitInv, TypeOK, Remaining
<1> QED
  BY <1>1, SplitCorrect, PTL DEF Spec, RoundsAdvance

-----------------------------------------------------------------------------
(* The storage chain: the invariant                                          *)

States == {"IDLE", "WR_SEND", "WR_WAIT", "RD_SEND", "RD_WAIT", "RETURN"}

\* Every register has its type.
MasterTyped ==
    master \in [state: States, pending: Commands \cup {None}, awvalid: BOOLEAN, wvalid: BOOLEAN, arvalid: BOOLEAN,
                rsp: Responses \cup {None}]
MemoryTyped ==
    /\ memory.bvalid \in BOOLEAN /\ memory.rvalid \in BOOLEAN
    /\ memory.bdelay \in 0 .. 3 /\ memory.rdelay \in 0 .. 4
    /\ memory.cells \in [WordAddresses -> Words] /\ words \in [WordAddresses -> Words]
MonitorTyped ==
    monitor \in [wactive: Transfers \cup {None}, ractive: Transfers \cup {None}, wbeat: Nat, rbeat: Nat,
                 seq: [SourceIds -> Nat], txn: [SourceIds -> Nat]]
CommandTyped ==
    /\ cmd \in Commands \cup {None} /\ idle \in 0 .. MaxIdle
    /\ answered \in Seq([cmd: Commands, rsp: Responses])

\* The master works for the command that is offered, and its VALIDs say how far it is.
MasterSound ==
    /\ master.state = "IDLE" <=> cmd = None
    /\ cmd # None => master.pending = cmd /\ Len(answered) < MaxChainCommands
    /\ master.awvalid \/ master.wvalid <=> master.state = "WR_SEND"
    /\ master.awvalid => master.wvalid
    /\ master.arvalid <=> master.state = "RD_SEND"
    /\ master.rsp # None <=> master.state = "RETURN"
    /\ master.state \in {"WR_SEND", "WR_WAIT"} => cmd.write
    /\ master.state \in {"RD_SEND", "RD_WAIT"} => ~cmd.write
    /\ master.state = "RETURN" => master.rsp.id = cmd.id /\ master.rsp.write = cmd.write

\* The address of a write is taken, its data not yet.
DataAwaited == master.state = "WR_SEND" /\ ~master.awvalid

\* The write the memory and the monitor are at, by how far the master is: none, its address, its data
\* with the answer to come.
WriteSound ==
    /\ memory.wready => memory.waddr # None
    /\ memory.awready => memory.waddr = None
    /\ ~DataAwaited => memory.waddr = None
    /\ DataAwaited =>
          memory.waddr = cmd.addr /\ memory.wid = cmd.id /\ monitor.wactive # None /\ monitor.wactive.id = cmd.id
             /\ monitor.wactive.src = cmd.src /\ monitor.wbeat = 0
    /\ master.state = "WR_WAIT" =>
          memory.bid = cmd.id /\ (memory.bvalid <=> memory.bdelay = 0) /\ monitor.wactive # None
             /\ monitor.wactive.id = cmd.id /\ monitor.wactive.src = cmd.src
    /\ master.state # "WR_WAIT" => ~memory.bvalid /\ memory.bdelay = 0
    /\ ~(DataAwaited \/ master.state = "WR_WAIT") => monitor.wactive = None

\* The same of a read.
ReadSound ==
    /\ master.state = "RD_WAIT" =>
          /\ memory.rpending = [id |-> cmd.id, addr |-> cmd.addr, user |-> cmd.src]
          /\ memory.rvalid <=> memory.rdelay = 0
          /\ memory.rvalid => memory.rdata = words[cmd.addr]
          /\ monitor.ractive # None /\ monitor.ractive.id = cmd.id /\ monitor.ractive.src = cmd.src /\ monitor.rbeat = 0
    /\ master.state # "RD_WAIT" =>
          memory.rpending = None /\ ~memory.rvalid /\ memory.rdelay = 0 /\ monitor.ractive = None

\* A write is in its cell from its data's handshake on, and counts once it is answered.
Unanswered == master.state = "WR_WAIT" \/ (master.state = "RETURN" /\ cmd.write)
CellsSound == memory.cells = IF Unanswered THEN [words EXCEPT ![cmd.addr] = cmd.data] ELSE words

\* A command has one transfer, numbered when its address is taken.
AddressTaken == master.state \in {"WR_WAIT", "RD_WAIT", "RETURN"} \/ DataAwaited
TransfersCounted == \A s \in SourceIds : monitor.txn[s] <= Len(answered) + IF AddressTaken THEN 1 ELSE 0

\* What the checker holds a channel against is what is offered there.
CheckerSound == \A c \in Channels : checker[c] # None => Valid(c) /\ Payload(c) = checker[c]

ChainInv ==
    /\ MasterTyped /\ MemoryTyped /\ MonitorTyped /\ CommandTyped
    /\ MasterSound /\ WriteSound /\ ReadSound /\ CellsSound /\ TransfersCounted /\ CheckerSound
    /\ NeverStops /\ AnswersExact

-----------------------------------------------------------------------------
(* The wires                                                                 *)

LEMMA Wires ==
    /\ Valid("AW") = master.awvalid /\ Valid("W") = master.wvalid /\ Valid("AR") = master.arvalid
    /\ Valid("B") = memory.bvalid /\ Valid("R") = memory.rvalid
    /\ Ready("AW") = memory.awready /\ Ready("W") = memory.wready /\ Ready("AR") = memory.arready
    /\ Ready("B") = (master.state = "WR_WAIT" /\ master.rsp = None)
    /\ Ready("R") = (master.state = "RD_WAIT" /\ master.rsp = None)
  BY Zenon DEF Valid, Ready
LEMMA Loads ==
    /\ Payload("AW") = [id |-> master.pending.id, addr |-> master.pending.addr, user |-> master.pending.src]
    /\ Payload("AR") = [id |-> master.pending.id, addr |-> master.pending.addr, user |-> master.pending.src]
    /\ Payload("W") = [data |-> master.pending.data]
    /\ Payload("B") = [id |-> memory.bid]
    /\ Payload("R") = [id |-> memory.rpending.id, data |-> memory.rdata]
  BY DEF Payload

\* No more than one channel has a handshake at a clock edge, and each only in its turn.
Fires(k) == \A c \in Channels : Fire(c) <=> c = k
LEMMA Handshakes ==
    ASSUME ChainInv
    PROVE  \/ Fires("none")
           \/ Fires("AW") /\ master.state = "WR_SEND" /\ master.awvalid
           \/ Fires("W") /\ DataAwaited
           \/ Fires("B") /\ master.state = "WR_WAIT" /\ memory.bvalid
           \/ Fires("AR") /\ master.state = "RD_SEND"
           \/ Fires("R") /\ master.state = "RD_WAIT" /\ memory.rvalid
<1>1. Fire("AW") => master.state = "WR_SEND" /\ master.awvalid /\ memory.waddr = None
  BY Wires DEF ChainInv, MasterSound, WriteSound, Fire
<1>2. Fire("W") => DataAwaited /\ memory.waddr # None
  BY Wires DEF ChainInv, MasterSound, WriteSound, Fire, DataAwaited
<1>3. Fire("B") => master.state = "WR_WAIT" /\ memory.bvalid
  BY Wires DEF Fire
<1>4. Fire("AR") => master.state = "RD_SEND"
  BY Wires DEF ChainInv, MasterSound, Fire
<1>5. Fire("R") => master.state = "RD_WAIT" /\ memory.rvalid
  BY Wires DEF Fire
<1>6. QED
  BY <1>1, <1>2, <1>3, <1>4, <1>5 DEF Fires, Channels, DataAwaited

\* No check fails in a state of the invariant.
LEMMA NothingFatal ==
    ASSUME ChainAssumption, ChainInv
    PROVE  ~MasterFatal /\ ~MemoryFatal /\ ~MonitorFatal /\ ~CheckerFatal
<1>1. ~MasterFatal
  BY Wires DEF ChainInv, MasterSound, WriteSound, ReadSound, MasterFatal, Fire
<1>2. ~MemoryFatal
  BY Wires, Loads DEF ChainInv, MasterSound, WriteSound, MemoryFatal, Fire, DataAwaited
<1>3. ~CheckerFatal
  BY DEF ChainInv, CheckerSound, CheckerFatal
<1>4. Cardinality(Fired) = 0 \/ Cardinality(Fired) = 1
  <2>1. PICK k : Fires(k)
    BY Handshakes
  <2>2. Fired = {} \/ Fired = {k}
    BY <2>1 DEF Fired, Fires
  <2>3. Cardinality({}) = 0 /\ Cardinality({k}) = 1
    BY FS_EmptySet, FS_Singleton, Zenon
  <2>4. QED
    BY <2>2, <2>3
<1>5. ~(Cardinality(Fired) > 1)
  BY <1>4
<1>6. ~MonitorFatal
  BY <1>5, Wires DEF ChainInv, MasterSound, WriteSound, ReadSound, MonitorFatal, Fire, DataAwaited
<1>7. QED
  BY <1>1, <1>2, <1>3, <1>6

-----------------------------------------------------------------------------
(* A clock edge, by the handshake there is                                   *)

\* What memory, monitor and checker do at an edge at which channel k has its handshake.
Edge(k) ==
    /\ Fires(k) /\ memory' = MemoryNext /\ monitor' = MonitorNext /\ checker' = CheckerNext
    /\ fatal' = FALSE /\ idle' \in 0 .. MaxIdle

LEMMA MemoryAt ==
    ASSUME NEW k, Edge(k)
    PROVE  /\ memory'.bvalid \in BOOLEAN /\ memory'.rvalid \in BOOLEAN
           /\ memory'.awready => memory.waddr = None /\ k # "AW"
           /\ memory'.wready => memory.waddr # None /\ k # "W"
           /\ memory'.bvalid <=> ((memory.bvalid \/ memory.bdelay = 1) /\ k # "B")
           /\ memory'.rvalid <=> ((memory.rvalid \/ memory.rdelay = 1) /\ k # "R")
           /\ memory'.waddr = IF k = "W" THEN None ELSE IF k = "AW" THEN master.pending.addr ELSE memory.waddr
           /\ memory'.wid = IF k = "AW" THEN master.pending.id ELSE memory.wid
           /\ memory'.bid = IF k = "W" THEN memory.wid ELSE memory.bid
           /\ memory'.rpending =
                 IF k = "R" THEN None
                 ELSE IF k = "AR" THEN [id |-> master.pending.id, addr |-> master.pending.addr, user |-> master.pending.src]
                 ELSE memory.rpending
           /\ memory'.rdata = IF memory.rdelay = 1 THEN memory.cells[memory.rpending.addr] ELSE memory.rdata
           /\ memory'.bdelay = IF memory.bdelay > 0 THEN memory.bdelay - 1 ELSE IF k = "W" THEN 3 ELSE 0
           /\ memory'.rdelay = IF memory.rdelay > 0 THEN memory.rdelay - 1 ELSE IF k = "AR" THEN 4 ELSE 0
           /\ memory'.cells = IF k = "W" THEN [memory.cells EXCEPT ![memory.waddr] = master.pending.data] ELSE memory.cells
<1>1. /\ Fire("AW") <=> k = "AW"
      /\ Fire("W") <=> k = "W"
      /\ Fire("B") <=> k = "B"
      /\ Fire("AR") <=> k = "AR"
      /\ Fire("R") <=> k = "R"
  BY DEF Edge, Fires, Channels
<1>2. memory' = MemoryNext
  BY DEF Edge
<1>3. /\ Payload("AW").id = master.pending.id /\ Payload("AW").addr = master.pending.addr
      /\ Payload("AR") = [id |-> master.pending.id, addr |-> master.pending.addr, user |-> master.pending.src]
  BY Loads
<1>4. QED
  BY <1>1, <1>2, <1>3 DEF MemoryNext, WriteReady

LEMMA MonitorAt ==
    ASSUME NEW k, Edge(k), MonitorTyped
    PROVE  /\ k \notin {"AW", "B"} => monitor'.wactive = monitor.wactive
           /\ k \notin {"AR", "R"} => monitor'.ractive = monitor.ractive
           /\ k = "AW" => /\ monitor'.wbeat = 0
                          /\ monitor'.wactive = [src |-> master.pending.src, id |-> master.pending.id,
                                                 addr |-> master.pending.addr, txn |-> monitor.txn[master.pending.src]]
           /\ k = "B" => monitor'.wactive = None
           /\ k = "AR" => /\ monitor'.rbeat = 0
                          /\ monitor'.ractive = [src |-> master.pending.src, id |-> master.pending.id,
                                                 addr |-> master.pending.addr, txn |-> monitor.txn[master.pending.src]]
           /\ k = "R" => monitor'.ractive = None
           /\ k \notin {"AW", "W"} => monitor'.wbeat = monitor.wbeat
           /\ k = "W" => monitor'.wbeat = monitor.wbeat + 1
           /\ k \notin {"AR", "R"} => monitor'.rbeat = monitor.rbeat
           /\ k = "R" => monitor'.rbeat = monitor.rbeat + 1
           /\ k \notin {"AW", "AR"} => monitor'.txn = monitor.txn
           /\ k \in {"AW", "AR"} =>
                 monitor'.txn = [monitor.txn EXCEPT ![master.pending.src] = monitor.txn[master.pending.src] + 1]
           /\ k = "none" => monitor' = monitor
           /\ k \in {"AW", "AR"} =>
                 monitor'.seq = [monitor.seq EXCEPT ![master.pending.src] = monitor.seq[master.pending.src] + 1]
           /\ k \in {"W", "B"} =>
                 monitor'.seq = [monitor.seq EXCEPT ![monitor.wactive.src] = monitor.seq[monitor.wactive.src] + 1]
           /\ k = "R" =>
                 monitor'.seq = [monitor.seq EXCEPT ![monitor.ractive.src] = monitor.seq[monitor.ractive.src] + 1]
           /\ monitor' = [wactive |-> monitor'.wactive, ractive |-> monitor'.ractive, wbeat |-> monitor'.wbeat,
                          rbeat |-> monitor'.rbeat, seq |-> monitor'.seq, txn |-> monitor'.txn]
<1>1. /\ Fire("AW") <=> k = "AW"
      /\ Fire("W") <=> k = "W"
      /\ Fire("B") <=> k = "B"
      /\ Fire("AR") <=> k = "AR"
      /\ Fire("R") <=> k = "R"
  BY DEF Edge, Fires, Channels
<1>2. monitor' = MonitorNext
  BY DEF Edge
<1>3. k \in Channels => Fired # {} /\ First = k
  BY <1>1 DEF Fired, First, Channels
<1>4. k \notin Channels => Fired = {}
  BY <1>1 DEF Fired, Channels
<1>5. CASE k \notin Channels
  <2>1. monitor' = monitor
    BY <1>2, <1>4, <1>5 DEF MonitorNext
  <2>2. monitor = [wactive |-> monitor.wactive, ractive |-> monitor.ractive, wbeat |-> monitor.wbeat,
                   rbeat |-> monitor.rbeat, seq |-> monitor.seq, txn |-> monitor.txn]
    BY DEF MonitorTyped
  <2>3. k \notin {"AW", "W", "B", "AR", "R"}
    BY <1>5 DEF Channels
  <2>4. QED
    BY <2>1, <2>2, <2>3
<1>6. CASE k \in Channels
  <2>1. monitor' = LET c == k
                       t == Transfer(c)
                       numbered == [monitor EXCEPT !.seq[t.src] = @ + 1]
                   IN  CASE c = "AW" -> [numbered EXCEPT !.wactive = t, !.wbeat = 0, !.txn[t.src] = @ + 1]
                         [] c = "W" -> [numbered EXCEPT !.wbeat = @ + 1]
                         [] c = "B" -> [numbered EXCEPT !.wactive = None]
                         [] c = "AR" -> [numbered EXCEPT !.ractive = t, !.rbeat = 0, !.txn[t.src] = @ + 1]
                         [] c = "R" -> [numbered EXCEPT !.ractive = None, !.rbeat = @ + 1]
    BY <1>2, <1>3, <1>6 DEF MonitorNext
  <2>2. k \in {"AW", "AR"} => Transfer(k) = [src |-> master.pending.src, id |-> master.pending.id,
                                             addr |-> master.pending.addr, txn |-> monitor.txn[master.pending.src]]
    BY Loads DEF Transfer
  <2>3. (k \in {"W", "B"} => Transfer(k) = monitor.wactive) /\ (k = "R" => Transfer(k) = monitor.ractive)
    BY DEF Transfer
  <2>4. CASE k = "AW"
    <3> DEFINE s == master.pending.src
               u == [src |-> s, id |-> master.pending.id, addr |-> master.pending.addr, txn |-> monitor.txn[s]]
               v == [monitor EXCEPT !.seq[s] = @ + 1]
    <3>1. Transfer(k) = u /\ u.src = s
      BY <2>2, <2>4
    <3>2. monitor' = [v EXCEPT !.wactive = u, !.wbeat = 0, !.txn[s] = @ + 1]
      BY <2>1, <2>4, <3>1
    <3>3. v = [monitor EXCEPT !.seq = [monitor.seq EXCEPT ![s] = monitor.seq[s] + 1]]
      BY DEF MonitorTyped
    <3>4. v.txn = monitor.txn /\ DOMAIN v = DOMAIN monitor
      BY <3>3 DEF MonitorTyped
    <3>5. monitor' = [v EXCEPT !.wactive = u, !.wbeat = 0, !.txn = [monitor.txn EXCEPT ![s] = monitor.txn[s] + 1]]
      BY <3>2, <3>4
    <3> HIDE DEF s, u
    <3>6. QED
      BY <2>4, <3>3, <3>5 DEF MonitorTyped, s, u
  <2>5. CASE k = "W"
    BY <2>1, <2>3, <2>5 DEF MonitorTyped
  <2>6. CASE k = "B"
    BY <2>1, <2>3, <2>6 DEF MonitorTyped
  <2>7. CASE k = "AR"
    <3> DEFINE s == master.pending.src
               u == [src |-> s, id |-> master.pending.id, addr |-> master.pending.addr, txn |-> monitor.txn[s]]
               v == [monitor EXCEPT !.seq[s] = @ + 1]
    <3>1. Transfer(k) = u /\ u.src = s
      BY <2>2, <2>7
    <3>2. monitor' = [v EXCEPT !.ractive = u, !.rbeat = 0, !.txn[s] = @ + 1]
      BY <2>1, <2>7, <3>1
    <3>3. v = [monitor EXCEPT !.seq = [monitor.seq EXCEPT ![s] = monitor.seq[s] + 1]]
      BY DEF MonitorTyped
    <3>4. v.txn = monitor.txn /\ DOMAIN v = DOMAIN monitor
      BY <3>3 DEF MonitorTyped
    <3>5. monitor' = [v EXCEPT !.ractive = u, !.rbeat = 0, !.txn = [monitor.txn EXCEPT ![s] = monitor.txn[s] + 1]]
      BY <3>2, <3>4
    <3> HIDE DEF s, u
    <3>6. QED
      BY <2>7, <3>3, <3>5 DEF MonitorTyped, s, u
  <2>8. CASE k = "R"
    BY <2>1, <2>3, <2>8 DEF MonitorTyped
  <2>9. QED
    BY <1>6, <2>4, <2>5, <2>6, <2>7, <2>8 DEF Channels
<1>7. QED
  BY <1>5, <1>6

-----------------------------------------------------------------------------
(* A clock edge, by what the master does                                     *)

Unanswering == answered' = answered /\ words' = words
Offer(offered) ==
    /\ Edge("none") /\ Unanswering
    /\ master.state = "IDLE" /\ offered \in Commands /\ Len(answered) < MaxChainCommands
    /\ master' = [master EXCEPT !.state = IF offered.write THEN "WR_SEND" ELSE "RD_SEND", !.pending = offered,
                                !.awvalid = offered.write, !.wvalid = offered.write, !.arvalid = ~offered.write]
    /\ cmd' = offered
Stall == Edge("none") /\ Unanswering /\ master' = master /\ cmd' = cmd
WriteAddress ==
    /\ Edge("AW") /\ Unanswering /\ cmd' = cmd
    /\ master.state = "WR_SEND" /\ master.awvalid /\ master' = [master EXCEPT !.awvalid = FALSE]
WriteData ==
    /\ Edge("W") /\ Unanswering /\ cmd' = cmd
    /\ DataAwaited /\ master' = [master EXCEPT !.wvalid = FALSE, !.state = "WR_WAIT"]
WriteAnswer ==
    /\ Edge("B") /\ Unanswering /\ cmd' = cmd
    /\ master.state = "WR_WAIT" /\ memory.bvalid
    /\ master' = [master EXCEPT !.state = "RETURN", !.rsp = [write |-> TRUE, id |-> memory.bid, data |-> 0]]
ReadAddress ==
    /\ Edge("AR") /\ Unanswering /\ cmd' = cmd
    /\ master.state = "RD_SEND" /\ master' = [master EXCEPT !.state = "RD_WAIT", !.arvalid = FALSE]
ReadAnswer ==
    /\ Edge("R") /\ Unanswering /\ cmd' = cmd
    /\ master.state = "RD_WAIT" /\ memory.rvalid
    /\ master' = [master EXCEPT !.state = "RETURN",
                                !.rsp = [write |-> FALSE, id |-> memory.rpending.id, data |-> memory.rdata]]
AnswerTaken ==
    /\ Edge("none") /\ master.state = "RETURN" /\ master' = [master EXCEPT !.state = "IDLE", !.rsp = None]
    /\ cmd' = None /\ answered' = Append(answered, [cmd |-> cmd, rsp |-> master.rsp])
    /\ words' = IF cmd.write THEN [words EXCEPT ![cmd.addr] = cmd.data] ELSE words

LEMMA StepCases ==
    ASSUME ChainAssumption, ChainInv, Clock
    PROVE  \/ \E offered \in Commands : Offer(offered)
           \/ Stall \/ WriteAddress \/ WriteData \/ WriteAnswer \/ ReadAddress \/ ReadAnswer \/ AnswerTaken
<1>1. PICK offered \in IF cmd # None THEN {cmd}
                       ELSE IF Len(answered) < MaxChainCommands THEN Commands \cup {None} ELSE {None},
           rspReady \in BOOLEAN : Cycle(offered, rspReady)
  BY DEF Clock
<1>2. ~MasterFatal /\ ~MemoryFatal /\ ~MonitorFatal /\ ~CheckerFatal
  BY NothingFatal
<1>3. idle \in 0 .. MaxIdle /\ MaxIdle \in Nat
  BY DEF ChainInv, CommandTyped, ChainAssumption
<1>4. idle' \in 0 .. MaxIdle
  BY <1>1, <1>3 DEF Cycle
<1>5. /\ memory' = MemoryNext /\ monitor' = MonitorNext /\ checker' = CheckerNext /\ fatal' = FALSE
      /\ master' = MasterNext(IF master.state = "IDLE" THEN offered ELSE None, rspReady)
  BY <1>1, <1>2, Zenon DEF Cycle
<1>6. \A k : Fires(k) => Edge(k)
  BY <1>4, <1>5 DEF Edge
<1>7. /\ cmd' = IF master.state = "RETURN" /\ rspReady THEN None ELSE offered
      /\ answered' = IF master.state = "RETURN" /\ rspReady THEN Append(answered, [cmd |-> cmd, rsp |-> master.rsp]) ELSE answered
      /\ words' = IF master.state = "RETURN" /\ rspReady /\ cmd.write THEN [words EXCEPT ![cmd.addr] = cmd.data] ELSE words
  BY <1>1 DEF Cycle
<1>8. /\ master.state = "IDLE" <=> cmd = None
      /\ cmd # None => offered = cmd
      /\ cmd = None => offered = None \/ (offered \in Commands /\ Len(answered) < MaxChainCommands)
  BY <1>1 DEF ChainInv, MasterSound
<1>9. master.state \in States /\ MasterTyped /\ MasterSound /\ ReadSound /\ None \notin Commands
  BY DEF ChainInv, MasterTyped, ChainAssumption
<1>10. CASE master.state = "IDLE"
  <2>1. Edge("none")
    BY <1>6, <1>10, Handshakes DEF DataAwaited
  <2>2. Unanswering /\ cmd' = offered
    BY <1>7, <1>10 DEF Unanswering
  <2>3. CASE offered = None
    <3>1. master' = master
      BY <1>5, <1>10, <2>3 DEF MasterNext
    <3>2. QED
      BY <1>8, <1>10, <2>1, <2>2, <2>3, <3>1 DEF Stall
  <2>4. CASE offered # None
    <3>1. offered \in Commands /\ Len(answered) < MaxChainCommands /\ offered.write \in BOOLEAN
      BY <1>8, <1>10, <2>4 DEF ChainAssumption
    <3>2. master' = IF offered.write THEN [master EXCEPT !.state = "WR_SEND", !.pending = offered, !.awvalid = TRUE, !.wvalid = TRUE]
                    ELSE [master EXCEPT !.state = "RD_SEND", !.pending = offered, !.arvalid = TRUE]
      BY <1>5, <1>10, <2>4 DEF MasterNext
    <3>3. master.awvalid = FALSE /\ master.wvalid = FALSE /\ master.arvalid = FALSE
      BY <1>9, <1>10 DEF MasterTyped, MasterSound
    <3>4. master' = [master EXCEPT !.state = IF offered.write THEN "WR_SEND" ELSE "RD_SEND", !.pending = offered,
                                   !.awvalid = offered.write, !.wvalid = offered.write, !.arvalid = ~offered.write]
      BY <1>9, <3>1, <3>2, <3>3 DEF MasterTyped
    <3>5. QED
      BY <1>10, <2>1, <2>2, <3>1, <3>4 DEF Offer
  <2>5. QED
    BY <2>3, <2>4
<1>11. CASE master.state = "WR_SEND"
  <2>1. Unanswering /\ cmd' = cmd
    BY <1>7, <1>8, <1>11 DEF Unanswering
  <2>2. master' = [master EXCEPT !.awvalid = @ /\ ~Fire("AW"), !.wvalid = @ /\ ~Fire("W"),
                                 !.state = IF (~Valid("AW") \/ Ready("AW")) /\ (~Valid("W") \/ Ready("W")) THEN "WR_WAIT" ELSE @]
    BY <1>5, <1>11 DEF MasterNext
  <2>3. (~Valid("AW") \/ Ready("AW")) /\ (~Valid("W") \/ Ready("W")) <=> (~Valid("AW") \/ Fire("AW")) /\ (~Valid("W") \/ Fire("W"))
    BY DEF Fire
  <2>4. Valid("AW") = master.awvalid /\ Valid("W") = master.wvalid
    BY Wires
  <2>5. master.awvalid => master.wvalid
    BY <1>9 DEF MasterSound
  <2>6. master.awvalid \/ master.wvalid
    BY <1>9, <1>11 DEF MasterSound
  <2>7. \/ Edge("none") /\ ~Fire("AW") /\ ~Fire("W")
        \/ Edge("AW") /\ Fire("AW") /\ ~Fire("W") /\ master.awvalid
        \/ Edge("W") /\ ~Fire("AW") /\ Fire("W") /\ DataAwaited
    BY <1>6, <1>11, Handshakes DEF Fires, Channels, DataAwaited
  <2>8. CASE Edge("none") /\ ~Fire("AW") /\ ~Fire("W")
    <3>1. master' = master
      BY <1>9, <1>11, <2>2, <2>3, <2>4, <2>6, <2>8 DEF MasterTyped
    <3>2. QED
      BY <2>1, <2>8, <3>1 DEF Stall
  <2>9. CASE Edge("AW") /\ Fire("AW") /\ ~Fire("W") /\ master.awvalid
    <3>1. master' = [master EXCEPT !.awvalid = FALSE]
      BY <1>9, <1>11, <2>2, <2>3, <2>4, <2>5, <2>9 DEF MasterTyped
    <3>2. QED
      BY <1>11, <2>1, <2>9, <3>1 DEF WriteAddress
  <2>10. CASE Edge("W") /\ ~Fire("AW") /\ Fire("W") /\ DataAwaited
    <3>1. master' = [master EXCEPT !.wvalid = FALSE, !.state = "WR_WAIT"]
      BY <1>9, <1>11, <2>2, <2>3, <2>4, <2>10 DEF MasterTyped, DataAwaited
    <3>2. QED
      BY <2>1, <2>10, <3>1 DEF WriteData
  <2>11. QED
    BY <2>7, <2>8, <2>9, <2>10
<1>12. CASE master.state = "WR_WAIT"
  <2>1. Unanswering /\ cmd' = cmd
    BY <1>7, <1>8, <1>12 DEF Unanswering
  <2>2. (Edge("none") /\ ~Fire("B")) \/ (Edge("B") /\ Fire("B") /\ memory.bvalid)
    BY <1>6, <1>12, Handshakes DEF Fires, Channels, DataAwaited
  <2>3. master' = IF Fire("B") THEN [master EXCEPT !.state = "RETURN", !.rsp = [write |-> TRUE, id |-> memory.bid, data |-> 0]]
                  ELSE master
    BY <1>5, <1>12 DEF MasterNext
  <2>4. QED
    BY <1>12, <2>1, <2>2, <2>3 DEF Stall, WriteAnswer
<1>13. CASE master.state = "RD_SEND"
  <2>1. Unanswering /\ cmd' = cmd
    BY <1>7, <1>8, <1>13 DEF Unanswering
  <2>2. (Edge("none") /\ ~Fire("AR")) \/ (Edge("AR") /\ Fire("AR"))
    BY <1>6, <1>13, Handshakes DEF Fires, Channels, DataAwaited
  <2>3. master' = IF Fire("AR") THEN [master EXCEPT !.state = "RD_WAIT", !.arvalid = FALSE] ELSE master
    BY <1>5, <1>13 DEF MasterNext
  <2>4. QED
    BY <1>13, <2>1, <2>2, <2>3 DEF Stall, ReadAddress
<1>14. CASE master.state = "RD_WAIT"
  <2>1. Unanswering /\ cmd' = cmd
    BY <1>7, <1>8, <1>14 DEF Unanswering
  <2>2. (Edge("none") /\ ~Fire("R")) \/ (Edge("R") /\ Fire("R") /\ memory.rvalid)
    BY <1>6, <1>14, Handshakes DEF Fires, Channels, DataAwaited
  <2>3. master' = IF Fire("R") THEN [master EXCEPT !.state = "RETURN",
                                         !.rsp = [write |-> FALSE, id |-> memory.rpending.id, data |-> memory.rdata]]
                  ELSE master
    BY <1>5, <1>14 DEF MasterNext
  <2>4. QED
    BY <1>14, <2>1, <2>2, <2>3 DEF Stall, ReadAnswer
<1>15. CASE master.state = "RETURN"
  <2>1. Edge("none")
    BY <1>6, <1>15, Handshakes DEF DataAwaited
  <2>2. master' = IF rspReady THEN [master EXCEPT !.state = "IDLE", !.rsp = None] ELSE master
    BY <1>5, <1>15 DEF MasterNext
  <2>3. CASE rspReady
    BY <1>7, <1>15, <2>1, <2>2, <2>3 DEF AnswerTaken
  <2>4. CASE ~rspReady
    BY <1>7, <1>8, <1>15, <2>1, <2>2, <2>4 DEF Stall, Unanswering
  <2>5. QED
    BY <2>3, <2>4
<1>16. QED
  BY <1>9, <1>10, <1>11, <1>12, <1>13, <1>14, <1>15 DEF States

-----------------------------------------------------------------------------
(* What an edge leaves of the parts that all of them disturb                  *)

LEMMA CommandFacts ==
    ASSUME ChainAssumption, NEW c \in Commands
    PROVE  /\ c.write \in BOOLEAN /\ c.src \in SourceIds /\ c.id \in CommandIds /\ c.addr \in WordAddresses /\ c.data \in Words
           /\ c # None /\ c.addr # None
  BY DEF ChainAssumption

LEMMA CheckerAt ==
    ASSUME NEW k, Edge(k),
           Valid("AW") /\ ~Ready("AW") => Valid("AW")' /\ Payload("AW")' = Payload("AW"),
           Valid("W") /\ ~Ready("W") => Valid("W")' /\ Payload("W")' = Payload("W"),
           Valid("B") /\ ~Ready("B") => Valid("B")' /\ Payload("B")' = Payload("B"),
           Valid("AR") /\ ~Ready("AR") => Valid("AR")' /\ Payload("AR")' = Payload("AR"),
           Valid("R") /\ ~Ready("R") => Valid("R")' /\ Payload("R")' = Payload("R")
    PROVE  CheckerSound'
<1> SUFFICES ASSUME NEW c \in Channels, checker'[c] # None
             PROVE  Valid(c)' /\ Payload(c)' = checker'[c]
  BY DEF CheckerSound
<1>1. checker' = [d \in Channels |-> IF Valid(d) /\ ~Ready(d) THEN Payload(d) ELSE None]
  BY DEF Edge, CheckerNext
<1>2. Valid(c) /\ ~Ready(c) /\ checker'[c] = Payload(c)
  BY <1>1
<1>3. QED
  BY <1>2 DEF Channels

\* The monitor's registers keep their types, and its counters pace with the commands.
LEMMA MonitorKept ==
    ASSUME ChainAssumption, ChainInv, NEW k \in Channels \cup {"none"}, Edge(k),
           k \in {"AW", "AR"} => master.pending \in Commands /\ ~AddressTaken /\ Len(answered) < MaxChainCommands,
           k \in {"W", "B"} => monitor.wactive # None,
           k = "R" => monitor.ractive # None
    PROVE  MonitorTyped' /\ \A s \in SourceIds : monitor'.txn[s] <= monitor.txn[s] + IF k \in {"AW", "AR"} THEN 1 ELSE 0
<1> DEFINE s == master.pending.src
           t == [src |-> s, id |-> master.pending.id, addr |-> master.pending.addr, txn |-> monitor.txn[s]]
<1>1. /\ monitor.wactive \in Transfers \cup {None} /\ monitor.ractive \in Transfers \cup {None}
      /\ monitor.wbeat \in Nat /\ monitor.rbeat \in Nat
      /\ monitor.seq \in [SourceIds -> Nat] /\ monitor.txn \in [SourceIds -> Nat] /\ MonitorTyped
  BY DEF ChainInv, MonitorTyped
<1>2. Len(answered) \in Nat /\ MaxChainCommands \in Nat
  BY DEF ChainInv, CommandTyped, ChainAssumption
<1>3. k \in {"AW", "AR"} => s \in SourceIds /\ t \in Transfers
  <2> HAVE k \in {"AW", "AR"}
  <2>1. s \in SourceIds /\ master.pending.id \in CommandIds /\ master.pending.addr \in WordAddresses
    BY CommandFacts
  <2>2. monitor.txn[s] <= Len(answered)
    BY <2>1 DEF ChainInv, TransfersCounted
  <2>3. monitor.txn[s] \in 0 .. MaxChainCommands
    BY <1>1, <1>2, <2>1, <2>2
  <2>4. QED
    BY <2>1, <2>3 DEF Transfers
<1>4. /\ k \in {"W", "B"} => monitor.wactive.src \in SourceIds
      /\ k = "R" => monitor.ractive.src \in SourceIds
  BY <1>1 DEF Transfers
<1>5. monitor'.wactive \in Transfers \cup {None} /\ monitor'.ractive \in Transfers \cup {None}
  <2>1. k = "AW" => monitor'.wactive = t
    BY <1>1, MonitorAt
  <2>2. k = "AR" => monitor'.ractive = t
    BY <1>1, MonitorAt
  <2>3. /\ k \notin {"AW", "B"} => monitor'.wactive = monitor.wactive
        /\ k \notin {"AR", "R"} => monitor'.ractive = monitor.ractive
        /\ k = "B" => monitor'.wactive = None
        /\ k = "R" => monitor'.ractive = None
    BY <1>1, MonitorAt
  <2> HIDE DEF t
  <2>4. QED
    BY <1>1, <1>3, <2>1, <2>2, <2>3
<1>6. monitor'.wbeat \in Nat /\ monitor'.rbeat \in Nat
  <2>1. /\ k = "AW" => monitor'.wbeat = 0
        /\ k = "W" => monitor'.wbeat = monitor.wbeat + 1
        /\ k \notin {"AW", "W"} => monitor'.wbeat = monitor.wbeat
        /\ k = "AR" => monitor'.rbeat = 0
        /\ k = "R" => monitor'.rbeat = monitor.rbeat + 1
        /\ k \notin {"AR", "R"} => monitor'.rbeat = monitor.rbeat
    BY <1>1, MonitorAt
  <2>2. QED
    BY <1>1, <2>1
<1>7. /\ monitor'.txn \in [SourceIds -> Nat]
      /\ \A x \in SourceIds : monitor'.txn[x] <= monitor.txn[x] + IF k \in {"AW", "AR"} THEN 1 ELSE 0
  <2>1. /\ k \notin {"AW", "AR"} => monitor'.txn = monitor.txn
        /\ k \in {"AW", "AR"} => monitor'.txn = [monitor.txn EXCEPT ![s] = monitor.txn[s] + 1]
    BY <1>1, MonitorAt
  <2>2. CASE k \notin {"AW", "AR"}
    BY <1>1, <2>1, <2>2
  <2>3. CASE k \in {"AW", "AR"}
    <3>1. s \in SourceIds /\ monitor'.txn = [monitor.txn EXCEPT ![s] = monitor.txn[s] + 1]
      BY <1>3, <2>1, <2>3
    <3> HIDE DEF s
    <3>2. monitor'.txn \in [SourceIds -> Nat]
      BY <1>1, <3>1
    <3>3. ASSUME NEW x \in SourceIds
          PROVE  monitor'.txn[x] <= monitor.txn[x] + 1
      BY <1>1, <3>1
    <3>4. QED
      BY <2>3, <3>2, <3>3
  <2>4. QED
    BY <2>2, <2>3
<1>8. monitor'.seq \in [SourceIds -> Nat]
  <2>1. /\ k \in {"AW", "AR"} => monitor'.seq = [monitor.seq EXCEPT ![s] = monitor.seq[s] + 1]
        /\ k \in {"W", "B"} => monitor'.seq = [monitor.seq EXCEPT ![monitor.wactive.src] = monitor.seq[monitor.wactive.src] + 1]
        /\ k = "R" => monitor'.seq = [monitor.seq EXCEPT ![monitor.ractive.src] = monitor.seq[monitor.ractive.src] + 1]
        /\ k = "none" => monitor' = monitor
    BY <1>1, MonitorAt
  <2> HIDE DEF s
  <2>2. ASSUME NEW x \in SourceIds, monitor'.seq = [monitor.seq EXCEPT ![x] = monitor.seq[x] + 1]
        PROVE  monitor'.seq \in [SourceIds -> Nat]
    BY <1>1, <2>2
  <2>3. QED
    BY <1>1, <1>3, <1>4, <2>1, <2>2 DEF Channels
<1>9. monitor' = [wactive |-> monitor'.wactive, ractive |-> monitor'.ractive, wbeat |-> monitor'.wbeat,
                  rbeat |-> monitor'.rbeat, seq |-> monitor'.seq, txn |-> monitor'.txn]
  BY <1>1, MonitorAt
<1>10. MonitorTyped'
  BY <1>5, <1>6, <1>7, <1>8, <1>9 DEF MonitorTyped
<1>11. QED
  BY <1>7, <1>10

\* The delays run down, and end in a valid answer.
LEMMA DelaysRun ==
    ASSUME ChainInv, NEW k, Edge(k)
    PROVE  memory'.bvalid \in BOOLEAN /\ memory'.rvalid \in BOOLEAN /\ memory'.bdelay \in 0 .. 3 /\ memory'.rdelay \in 0 .. 4
<1>1. memory.bvalid \in BOOLEAN /\ memory.rvalid \in BOOLEAN /\ memory.bdelay \in 0 .. 3 /\ memory.rdelay \in 0 .. 4
  BY DEF ChainInv, MemoryTyped
<1>2. /\ memory'.bvalid <=> ((memory.bvalid \/ memory.bdelay = 1) /\ k # "B")
      /\ memory'.rvalid <=> ((memory.rvalid \/ memory.rdelay = 1) /\ k # "R")
      /\ memory'.bdelay = IF memory.bdelay > 0 THEN memory.bdelay - 1 ELSE IF k = "W" THEN 3 ELSE 0
      /\ memory'.rdelay = IF memory.rdelay > 0 THEN memory.rdelay - 1 ELSE IF k = "AR" THEN 4 ELSE 0
  BY MemoryAt
<1>3. memory'.bvalid \in BOOLEAN /\ memory'.rvalid \in BOOLEAN
  BY MemoryAt
<1>4. memory'.bdelay \in 0 .. 3 /\ memory'.rdelay \in 0 .. 4
  BY <1>1, <1>2
<1>5. QED
  BY <1>3, <1>4

LEMMA NextWires ==
    /\ Valid("AW")' = master'.awvalid /\ Valid("W")' = master'.wvalid /\ Valid("AR")' = master'.arvalid
    /\ Valid("B")' = memory'.bvalid /\ Valid("R")' = memory'.rvalid
    /\ Payload("AW")' = [id |-> master'.pending.id, addr |-> master'.pending.addr, user |-> master'.pending.src]
    /\ Payload("AR")' = [id |-> master'.pending.id, addr |-> master'.pending.addr, user |-> master'.pending.src]
    /\ Payload("W")' = [data |-> master'.pending.data]
    /\ Payload("B")' = [id |-> memory'.bid]
    /\ Payload("R")' = [id |-> memory'.rpending.id, data |-> memory'.rdata]
<1>1. /\ Valid("AW")' = master'.awvalid /\ Valid("W")' = master'.wvalid /\ Valid("AR")' = master'.arvalid
      /\ Valid("B")' = memory'.bvalid /\ Valid("R")' = memory'.rvalid
  BY Zenon DEF Valid
<1>2. QED
  BY <1>1 DEF Payload

\* What is offered and not taken stays, if the master does not withdraw its own.
LEMMA OffersStay ==
    ASSUME ChainInv, NEW k, Edge(k),
           master.awvalid /\ k # "AW" => master'.awvalid,
           master.wvalid /\ k # "W" => master'.wvalid,
           master.arvalid /\ k # "AR" => master'.arvalid,
           master.awvalid \/ master.wvalid \/ master.arvalid => master'.pending = master.pending
    PROVE  CheckerSound'
<1>1. /\ Fire("AW") <=> k = "AW"
      /\ Fire("W") <=> k = "W"
      /\ Fire("B") <=> k = "B"
      /\ Fire("AR") <=> k = "AR"
      /\ Fire("R") <=> k = "R"
  BY DEF Edge, Fires, Channels
<1>2. Valid("AW") /\ ~Ready("AW") => Valid("AW")' /\ Payload("AW")' = Payload("AW")
  BY <1>1, Wires, Loads, NextWires DEF Fire
<1>3. Valid("W") /\ ~Ready("W") => Valid("W")' /\ Payload("W")' = Payload("W")
  BY <1>1, Wires, Loads, NextWires DEF Fire
<1>4. Valid("AR") /\ ~Ready("AR") => Valid("AR")' /\ Payload("AR")' = Payload("AR")
  BY <1>1, Wires, Loads, NextWires DEF Fire
<1>5. ASSUME Valid("B"), ~Ready("B")
      PROVE  Valid("B")' /\ Payload("B")' = Payload("B")
  <2>1. memory.bvalid /\ master.state = "WR_WAIT"
    BY <1>5, Wires DEF ChainInv, WriteSound
  <2>2. k # "B" /\ k # "W"
    BY <1>1, <1>5, <2>1, Handshakes DEF Fire, DataAwaited, Fires, Channels
  <2>3. /\ memory'.bvalid <=> ((memory.bvalid \/ memory.bdelay = 1) /\ k # "B")
        /\ memory'.bid = IF k = "W" THEN memory.wid ELSE memory.bid
    BY MemoryAt
  <2>4. memory'.bvalid /\ memory'.bid = memory.bid
    BY <2>1, <2>2, <2>3
  <2>5. QED
    BY <2>4, Loads, NextWires
<1>6. ASSUME Valid("R"), ~Ready("R")
      PROVE  Valid("R")' /\ Payload("R")' = Payload("R")
  <2>1. memory.rvalid /\ master.state = "RD_WAIT" /\ memory.rdelay = 0
    BY <1>6, Wires DEF ChainInv, ReadSound
  <2>2. k # "R" /\ k # "AR"
    BY <1>1, <1>6, <2>1, Handshakes DEF Fire, DataAwaited, Fires, Channels
  <2>3. /\ memory'.rvalid <=> ((memory.rvalid \/ memory.rdelay = 1) /\ k # "R")
        /\ memory'.rdata = IF memory.rdelay = 1 THEN memory.cells[memory.rpending.addr] ELSE memory.rdata
        /\ k # "R" /\ k # "AR" => memory'.rpending = memory.rpending
    BY MemoryAt
  <2>4. memory'.rvalid
    BY <2>1, <2>2, <2>3
  <2>5. memory'.rdata = memory.rdata
    BY <2>1, <2>3
  <2>6. memory'.rpending = memory.rpending
    BY <2>2, <2>3
  <2>7. QED
    BY <2>4, <2>5, <2>6, Loads, NextWires
<1>7. QED
  BY <1>2, <1>3, <1>4, <1>5, <1>6, CheckerAt

-----------------------------------------------------------------------------
(* Every step keeps the invariant                                            *)

LEMMA StallKeeps ==
    ASSUME ChainAssumption, ChainInv, Stall
    PROVE  ChainInv'
<1>1. Edge("none") /\ master' = master /\ cmd' = cmd /\ answered' = answered /\ words' = words
  BY DEF Stall, Unanswering
<1>2. MasterTyped' /\ CommandTyped' /\ MasterSound' /\ AnswersExact' /\ NeverStops'
  BY <1>1 DEF ChainInv, MasterTyped, CommandTyped, MasterSound, AnswersExact, NeverStops, Edge
<1>3. /\ memory'.wready => memory.waddr # None
      /\ memory'.awready => memory.waddr = None
      /\ memory'.waddr = memory.waddr /\ memory'.wid = memory.wid /\ memory'.bid = memory.bid
      /\ memory'.rpending = memory.rpending /\ memory'.cells = memory.cells
      /\ memory'.bvalid <=> (memory.bvalid \/ memory.bdelay = 1)
      /\ memory'.rvalid <=> (memory.rvalid \/ memory.rdelay = 1)
      /\ memory'.rdata = IF memory.rdelay = 1 THEN memory.cells[memory.rpending.addr] ELSE memory.rdata
      /\ memory'.bdelay = IF memory.bdelay > 0 THEN memory.bdelay - 1 ELSE 0
      /\ memory'.rdelay = IF memory.rdelay > 0 THEN memory.rdelay - 1 ELSE 0
  BY <1>1, MemoryAt
<1>4. MemoryTyped /\ MonitorTyped /\ WriteSound /\ ReadSound /\ CellsSound /\ TransfersCounted
  BY DEF ChainInv
<1>5. MemoryTyped'
  BY <1>1, <1>3, <1>4, DelaysRun DEF MemoryTyped
<1>6. monitor' = monitor
  BY <1>1, <1>4, MonitorAt
<1>7. MonitorTyped' /\ TransfersCounted'
  BY <1>1, <1>4, <1>6 DEF MonitorTyped, TransfersCounted, AddressTaken, DataAwaited
<1>8. WriteSound'
  <2>1. ASSUME master.state = "WR_WAIT"
        PROVE  memory'.bvalid <=> memory'.bdelay = 0
    <3>1. (memory.bvalid <=> memory.bdelay = 0) /\ memory.bdelay \in 0 .. 3
      BY <1>4, <2>1 DEF WriteSound, MemoryTyped
    <3>2. CASE memory.bdelay = 0
      BY <1>3, <3>1, <3>2
    <3>3. CASE memory.bdelay = 1
      BY <1>3, <3>1, <3>3
    <3>4. CASE memory.bdelay > 1
      BY <1>3, <3>1, <3>4
    <3>5. QED
      BY <3>1, <3>2, <3>3, <3>4
  <2>2. master.state # "WR_WAIT" => ~memory'.bvalid /\ memory'.bdelay = 0
    BY <1>3, <1>4 DEF WriteSound, MemoryTyped
  <2>3. DataAwaited' <=> DataAwaited
    BY <1>1 DEF DataAwaited
  <2>4. QED
    BY <1>1, <1>3, <1>4, <1>6, <2>1, <2>2, <2>3 DEF WriteSound
<1>9. ReadSound'
  <2>1. ASSUME master.state = "RD_WAIT"
        PROVE  (memory'.rvalid <=> memory'.rdelay = 0) /\ (memory'.rvalid => memory'.rdata = words[cmd.addr])
    <3>1. memory.cells = words /\ memory.rpending.addr = cmd.addr
      BY <1>4, <2>1 DEF CellsSound, Unanswered, ReadSound
    <3>2. /\ memory.rvalid <=> memory.rdelay = 0
          /\ memory.rvalid => memory.rdata = words[cmd.addr]
          /\ memory.rdelay \in 0 .. 4
      BY <1>4, <2>1 DEF ReadSound, MemoryTyped
    <3>3. CASE memory.rdelay = 0
      BY <1>3, <3>2, <3>3
    <3>4. CASE memory.rdelay = 1
      BY <1>3, <3>1, <3>2, <3>4
    <3>5. CASE memory.rdelay > 1
      BY <1>3, <3>2, <3>5
    <3>6. QED
      BY <3>2, <3>3, <3>4, <3>5
  <2>2. master.state # "RD_WAIT" => ~memory'.rvalid /\ memory'.rdelay = 0
    BY <1>3, <1>4 DEF ReadSound, MemoryTyped
  <2>3. QED
    BY <1>1, <1>3, <1>4, <1>6, <2>1, <2>2 DEF ReadSound
<1>10. CellsSound'
  BY <1>1, <1>3, <1>4 DEF CellsSound, Unanswered
<1>11. CheckerSound'
  BY <1>1, OffersStay
<1>12. QED
  BY <1>2, <1>5, <1>7, <1>8, <1>9, <1>10, <1>11 DEF ChainInv

LEMMA OfferKeeps ==
    ASSUME ChainAssumption, ChainInv, NEW offered \in Commands, Offer(offered)
    PROVE  ChainInv'
<1>1. /\ Edge("none") /\ master.state = "IDLE" /\ cmd' = offered /\ answered' = answered /\ words' = words
      /\ Len(answered) < MaxChainCommands
      /\ master' = [master EXCEPT !.state = IF offered.write THEN "WR_SEND" ELSE "RD_SEND", !.pending = offered,
                                  !.awvalid = offered.write, !.wvalid = offered.write, !.arvalid = ~offered.write]
  BY DEF Offer, Unanswering
<1>2. offered.write \in BOOLEAN /\ offered # None /\ cmd = None /\ master.rsp = None
  BY <1>1, CommandFacts DEF ChainInv, MasterSound
<1>3. MasterTyped'
  BY <1>1, <1>2 DEF ChainInv, MasterTyped, States
<1>4. /\ master'.state = (IF offered.write THEN "WR_SEND" ELSE "RD_SEND") /\ master'.pending = offered
      /\ master'.awvalid <=> offered.write
      /\ master'.wvalid <=> offered.write
      /\ master'.arvalid <=> ~offered.write
      /\ master'.rsp = None
  BY <1>1, <1>2 DEF ChainInv, MasterTyped
<1>5. CommandTyped' /\ MasterSound' /\ AnswersExact' /\ NeverStops'
  <2>1. CommandTyped' /\ AnswersExact' /\ NeverStops'
    BY <1>1, <1>4 DEF ChainInv, CommandTyped, AnswersExact, NeverStops, Edge
  <2>2. CASE offered.write
    BY <1>1, <1>2, <1>4, <2>1, <2>2 DEF MasterSound
  <2>3. CASE ~offered.write
    BY <1>1, <1>2, <1>4, <2>1, <2>3 DEF MasterSound
  <2>4. QED
    BY <1>2, <2>1, <2>2, <2>3
<1>6. /\ memory'.awready => memory.waddr = None
      /\ memory'.wready => memory.waddr # None
      /\ memory'.waddr = memory.waddr /\ memory'.wid = memory.wid /\ memory'.bid = memory.bid
      /\ memory'.rpending = memory.rpending
      /\ memory'.cells = memory.cells
      /\ memory'.bvalid <=> (memory.bvalid \/ memory.bdelay = 1)
      /\ memory'.rvalid <=> (memory.rvalid \/ memory.rdelay = 1)
      /\ memory'.rdata = IF memory.rdelay = 1 THEN memory.cells[memory.rpending.addr] ELSE memory.rdata
      /\ memory'.bdelay = IF memory.bdelay > 0 THEN memory.bdelay - 1 ELSE 0
      /\ memory'.rdelay = IF memory.rdelay > 0 THEN memory.rdelay - 1 ELSE 0
  BY <1>1, MemoryAt
<1>7. MemoryTyped /\ MonitorTyped /\ WriteSound /\ ReadSound /\ CellsSound /\ TransfersCounted
  BY DEF ChainInv
<1>8. MemoryTyped'
  BY <1>1, <1>6, <1>7, DelaysRun DEF MemoryTyped
<1>9. monitor' = monitor /\ ~DataAwaited /\ ~DataAwaited'
  BY <1>1, <1>2, <1>4, <1>7, MonitorAt DEF DataAwaited
<1>10. MonitorTyped' /\ TransfersCounted'
  BY <1>1, <1>4, <1>7, <1>9 DEF MonitorTyped, TransfersCounted, AddressTaken
<1>11. WriteSound'
  <2>1. memory.waddr = None /\ ~memory.bvalid /\ memory.bdelay = 0 /\ monitor.wactive = None
    BY <1>1, <1>7, <1>9 DEF WriteSound
  <2>2. ~memory'.bvalid /\ memory'.bdelay = 0
    BY <1>6, <2>1
  <2>3. QED
    BY <1>4, <1>6, <1>9, <2>1, <2>2 DEF WriteSound
<1>12. ReadSound'
  <2>1. memory.rpending = None /\ ~memory.rvalid /\ memory.rdelay = 0 /\ monitor.ractive = None
    BY <1>1, <1>7 DEF ReadSound
  <2>2. ~memory'.rvalid /\ memory'.rdelay = 0
    BY <1>6, <2>1
  <2>3. QED
    BY <1>4, <1>6, <1>9, <2>1, <2>2 DEF ReadSound
<1>13. CellsSound'
  BY <1>1, <1>4, <1>6, <1>7 DEF CellsSound, Unanswered
<1>14. CheckerSound'
  BY <1>1, OffersStay DEF ChainInv, MasterSound
<1>15. QED
  BY <1>3, <1>5, <1>8, <1>10, <1>11, <1>12, <1>13, <1>14 DEF ChainInv

LEMMA WriteAddressKeeps ==
    ASSUME ChainAssumption, ChainInv, WriteAddress
    PROVE  ChainInv'
<1>1. /\ Edge("AW") /\ master.state = "WR_SEND" /\ master.awvalid /\ master' = [master EXCEPT !.awvalid = FALSE]
      /\ cmd' = cmd /\ answered' = answered /\ words' = words
  BY DEF WriteAddress, Unanswering
<1>2. cmd \in Commands /\ master.pending = cmd /\ master.wvalid /\ Len(answered) < MaxChainCommands /\ cmd.addr # None
  BY <1>1, CommandFacts DEF ChainInv, MasterSound, CommandTyped
<1>3. MasterTyped'
  BY <1>1 DEF ChainInv, MasterTyped
<1>4. /\ master'.state = "WR_SEND" /\ master'.pending = cmd /\ ~master'.awvalid /\ master'.wvalid
      /\ master'.arvalid = master.arvalid /\ master'.rsp = master.rsp
  BY <1>1, <1>2 DEF ChainInv, MasterTyped
<1>5. CommandTyped' /\ MasterSound' /\ AnswersExact' /\ NeverStops'
  BY <1>1, <1>2, <1>4 DEF ChainInv, CommandTyped, MasterSound, AnswersExact, NeverStops, Edge
<1>6. /\ ~memory'.awready
      /\ memory'.wready => memory.waddr # None
      /\ memory'.waddr = master.pending.addr /\ memory'.wid = master.pending.id /\ memory'.bid = memory.bid
      /\ memory'.rpending = memory.rpending
      /\ memory'.cells = memory.cells
      /\ memory'.bvalid <=> (memory.bvalid \/ memory.bdelay = 1)
      /\ memory'.rvalid <=> (memory.rvalid \/ memory.rdelay = 1)
      /\ memory'.rdata = IF memory.rdelay = 1 THEN memory.cells[memory.rpending.addr] ELSE memory.rdata
      /\ memory'.bdelay = IF memory.bdelay > 0 THEN memory.bdelay - 1 ELSE 0
      /\ memory'.rdelay = IF memory.rdelay > 0 THEN memory.rdelay - 1 ELSE 0
  BY <1>1, MemoryAt
<1>7. MemoryTyped /\ MonitorTyped /\ WriteSound /\ ReadSound /\ CellsSound /\ TransfersCounted
  BY DEF ChainInv
<1>8. MemoryTyped'
  BY <1>1, <1>6, <1>7, DelaysRun DEF MemoryTyped
<1>9. ~DataAwaited /\ DataAwaited' /\ ~AddressTaken /\ AddressTaken'
  BY <1>1, <1>4 DEF DataAwaited, AddressTaken
<1>10. MonitorTyped' /\ \A s \in SourceIds : monitor'.txn[s] <= monitor.txn[s] + 1
  BY <1>1, <1>2, <1>9, MonitorKept DEF Channels
<1>11. TransfersCounted'
  <2>1. ASSUME NEW s \in SourceIds
        PROVE  monitor'.txn[s] <= Len(answered) + 1
    <3>1. monitor.txn[s] \in Nat /\ monitor'.txn[s] \in Nat /\ Len(answered) \in Nat
      BY <1>7, <1>10 DEF MonitorTyped, ChainInv, CommandTyped
    <3>2. monitor.txn[s] <= Len(answered) + 0
      BY <1>7, <1>9 DEF TransfersCounted
    <3>3. QED
      BY <1>10, <3>1, <3>2
  <2>2. QED
    BY <1>1, <1>9, <2>1 DEF TransfersCounted
<1>12. /\ monitor'.wbeat = 0 /\ monitor'.ractive = monitor.ractive /\ monitor'.rbeat = monitor.rbeat
       /\ monitor'.wactive = [src |-> cmd.src, id |-> cmd.id, addr |-> cmd.addr, txn |-> monitor.txn[cmd.src]]
  BY <1>1, <1>2, <1>7, MonitorAt
<1>13. monitor'.wactive # None
  <2>1. cmd.src \in SourceIds /\ cmd.id \in CommandIds /\ cmd.addr \in WordAddresses
    BY <1>2, CommandFacts
  <2>2. monitor.txn[cmd.src] \in Nat /\ monitor.txn[cmd.src] <= Len(answered) + 0 /\ Len(answered) \in Nat
    BY <1>7, <1>9, <2>1 DEF TransfersCounted, MonitorTyped, ChainInv, CommandTyped
  <2>3. MaxChainCommands \in Nat /\ None \notin Transfers
    BY DEF ChainAssumption
  <2>4. monitor.txn[cmd.src] \in 0 .. MaxChainCommands
    BY <1>2, <2>2, <2>3
  <2>5. QED
    BY <1>12, <2>1, <2>3, <2>4 DEF Transfers
<1>14. WriteSound'
  <2>1. ~memory.bvalid /\ memory.bdelay = 0
    BY <1>1, <1>7 DEF WriteSound
  <2>2. ~memory'.bvalid /\ memory'.bdelay = 0
    BY <1>6, <2>1
  <2>3. memory'.waddr = cmd.addr /\ memory'.wid = cmd.id
    BY <1>2, <1>6
  <2>4. monitor'.wactive # None /\ monitor'.wactive.id = cmd.id /\ monitor'.wactive.src = cmd.src /\ monitor'.wbeat = 0
    BY <1>12, <1>13
  <2>5. ~memory'.awready /\ memory'.waddr # None
    BY <1>2, <1>6, <2>3
  <2>6. master'.state # "WR_WAIT"
    BY <1>4
  <2>7. QED
    BY <1>1, <1>9, <2>2, <2>3, <2>4, <2>5, <2>6, Zenon DEF WriteSound
<1>15. ReadSound'
  <2>1. memory.rpending = None /\ ~memory.rvalid /\ memory.rdelay = 0 /\ monitor.ractive = None
    BY <1>1, <1>7 DEF ReadSound
  <2>2. ~memory'.rvalid /\ memory'.rdelay = 0
    BY <1>6, <2>1
  <2>3. QED
    BY <1>4, <1>6, <1>12, <2>1, <2>2 DEF ReadSound
<1>16. CellsSound'
  BY <1>1, <1>4, <1>6, <1>7 DEF CellsSound, Unanswered
<1>17. CheckerSound'
  BY <1>1, <1>2, <1>4, OffersStay
<1>18. QED
  BY <1>3, <1>5, <1>8, <1>10, <1>11, <1>14, <1>15, <1>16, <1>17 DEF ChainInv

LEMMA WriteDataKeeps ==
    ASSUME ChainAssumption, ChainInv, WriteData
    PROVE  ChainInv'
<1>1. /\ Edge("W") /\ DataAwaited /\ master' = [master EXCEPT !.wvalid = FALSE, !.state = "WR_WAIT"]
      /\ cmd' = cmd /\ answered' = answered /\ words' = words /\ master.state = "WR_SEND" /\ ~master.awvalid
  BY DEF WriteData, Unanswering, DataAwaited
<1>2. cmd \in Commands /\ master.pending = cmd /\ cmd.write
  BY <1>1 DEF ChainInv, MasterSound, CommandTyped
<1>3. MasterTyped'
  BY <1>1 DEF ChainInv, MasterTyped, States
<1>4. /\ master'.state = "WR_WAIT" /\ master'.pending = cmd /\ ~master'.awvalid /\ ~master'.wvalid
      /\ master'.arvalid = master.arvalid /\ master'.rsp = master.rsp
  BY <1>1, <1>2 DEF ChainInv, MasterTyped
<1>5. CommandTyped' /\ MasterSound' /\ AnswersExact' /\ NeverStops'
  BY <1>1, <1>2, <1>4 DEF ChainInv, CommandTyped, MasterSound, AnswersExact, NeverStops, Edge
<1>6. /\ memory'.awready => memory.waddr = None
      /\ ~memory'.wready
      /\ memory'.waddr = None /\ memory'.wid = memory.wid /\ memory'.bid = memory.wid
      /\ memory'.rpending = memory.rpending
      /\ memory'.cells = [memory.cells EXCEPT ![memory.waddr] = master.pending.data]
      /\ memory'.bvalid <=> (memory.bvalid \/ memory.bdelay = 1)
      /\ memory'.rvalid <=> (memory.rvalid \/ memory.rdelay = 1)
      /\ memory'.rdata = IF memory.rdelay = 1 THEN memory.cells[memory.rpending.addr] ELSE memory.rdata
      /\ memory'.bdelay = IF memory.bdelay > 0 THEN memory.bdelay - 1 ELSE 3
      /\ memory'.rdelay = IF memory.rdelay > 0 THEN memory.rdelay - 1 ELSE 0
  BY <1>1, MemoryAt
<1>7. MemoryTyped /\ MonitorTyped /\ WriteSound /\ ReadSound /\ CellsSound /\ TransfersCounted
  BY DEF ChainInv
<1>8. memory.waddr = cmd.addr /\ memory.wid = cmd.id /\ monitor.wactive # None /\ monitor.wactive.id = cmd.id
         /\ monitor.wactive.src = cmd.src
  BY <1>1, <1>7 DEF WriteSound
<1>9. MemoryTyped' /\ CellsSound'
  <2>1. memory.cells = words /\ memory'.cells = [words EXCEPT ![cmd.addr] = cmd.data]
    BY <1>1, <1>2, <1>6, <1>7, <1>8 DEF CellsSound, Unanswered
  <2>2. cmd.data \in Words /\ words \in [WordAddresses -> Words]
    BY <1>2, <1>7, CommandFacts DEF MemoryTyped
  <2>3. memory'.cells \in [WordAddresses -> Words]
    BY <2>1, <2>2
  <2>4. QED
    BY <1>1, <1>4, <2>1, <2>2, <2>3, DelaysRun DEF MemoryTyped, CellsSound, Unanswered
<1>10. ~DataAwaited' /\ AddressTaken /\ AddressTaken'
  BY <1>1, <1>4 DEF DataAwaited, AddressTaken
<1>11. MonitorTyped'
  BY <1>1, <1>8, MonitorKept DEF Channels
<1>12. /\ monitor'.wactive = monitor.wactive /\ monitor'.ractive = monitor.ractive /\ monitor'.rbeat = monitor.rbeat
       /\ monitor'.txn = monitor.txn
  BY <1>1, <1>7, MonitorAt
<1>13. TransfersCounted'
  BY <1>1, <1>7, <1>10, <1>12 DEF TransfersCounted
<1>14. WriteSound'
  <2>1. ~memory.bvalid /\ memory.bdelay = 0
    BY <1>1, <1>7 DEF WriteSound
  <2>2. ~memory'.bvalid /\ memory'.bdelay = 3
    BY <1>6, <2>1
  <2>3. memory'.waddr = None /\ memory'.bid = cmd.id
    BY <1>6, <1>8
  <2>4. monitor'.wactive # None /\ monitor'.wactive.id = cmd.id /\ monitor'.wactive.src = cmd.src
    BY <1>8, <1>12
  <2>5. ~memory'.wready
    BY <1>6
  <2>6. ~(memory'.bdelay = 0)
    BY <2>2
  <2>7. QED
    BY <1>1, <1>4, <1>10, <2>2, <2>3, <2>4, <2>5, <2>6, Zenon DEF WriteSound
<1>15. ReadSound'
  <2>1. memory.rpending = None /\ ~memory.rvalid /\ memory.rdelay = 0 /\ monitor.ractive = None
    BY <1>1, <1>7 DEF ReadSound
  <2>2. ~memory'.rvalid /\ memory'.rdelay = 0
    BY <1>6, <2>1
  <2>3. QED
    BY <1>4, <1>6, <1>12, <2>1, <2>2 DEF ReadSound
<1>16. CheckerSound'
  BY <1>1, <1>2, <1>4, OffersStay
<1>17. QED
  BY <1>3, <1>5, <1>9, <1>11, <1>13, <1>14, <1>15, <1>16 DEF ChainInv

LEMMA WriteAnswerKeeps ==
    ASSUME ChainAssumption, ChainInv, WriteAnswer
    PROVE  ChainInv'
<1>1. /\ Edge("B") /\ master.state = "WR_WAIT" /\ memory.bvalid
      /\ master' = [master EXCEPT !.state = "RETURN", !.rsp = [write |-> TRUE, id |-> memory.bid, data |-> 0]]
      /\ cmd' = cmd /\ answered' = answered /\ words' = words
  BY DEF WriteAnswer, Unanswering
<1>2. MemoryTyped /\ MonitorTyped /\ WriteSound /\ ReadSound /\ CellsSound /\ TransfersCounted
  BY DEF ChainInv
<1>3. /\ cmd \in Commands /\ cmd.write /\ cmd.id \in CommandIds /\ master.pending = cmd
      /\ memory.bid = cmd.id /\ memory.bdelay = 0 /\ memory.waddr = None /\ monitor.wactive # None
  BY <1>1, <1>2, CommandFacts DEF ChainInv, MasterSound, CommandTyped, WriteSound, DataAwaited
<1> DEFINE answer == [write |-> TRUE, id |-> cmd.id, data |-> 0]
<1>4. answer \in Responses /\ answer # None /\ answer.id = cmd.id /\ answer.write = TRUE
  <2>1. 0 \in Words /\ None \notin Responses
    BY DEF Words, ChainAssumption
  <2>2. answer \in Responses
    BY <1>3, <2>1 DEF Responses
  <2>3. QED
    BY <2>1, <2>2
<1>5. /\ master'.state = "RETURN" /\ master'.pending = master.pending /\ master'.rsp = answer
      /\ master'.awvalid = master.awvalid /\ master'.wvalid = master.wvalid /\ master'.arvalid = master.arvalid
  BY <1>1, <1>3 DEF ChainInv, MasterTyped
<1>6. master' = [master EXCEPT !.state = "RETURN", !.rsp = answer]
  BY <1>1, <1>3
<1> HIDE DEF answer
<1>7. MasterTyped'
  BY <1>4, <1>6 DEF ChainInv, MasterTyped, States
<1>8. CommandTyped' /\ NeverStops'
  BY <1>1 DEF ChainInv, CommandTyped, NeverStops, Edge
<1>9. cmd.write = TRUE
  BY <1>3, CommandFacts
<1>10. MasterSound' /\ AnswersExact'
  BY <1>1, <1>3, <1>4, <1>5, <1>9 DEF ChainInv, MasterSound, AnswersExact
<1>11. /\ memory'.awready => memory.waddr = None
       /\ memory'.wready => memory.waddr # None
       /\ memory'.waddr = memory.waddr /\ memory'.wid = memory.wid /\ memory'.bid = memory.bid
       /\ memory'.rpending = memory.rpending
       /\ memory'.cells = memory.cells
       /\ ~memory'.bvalid
       /\ memory'.rvalid <=> (memory.rvalid \/ memory.rdelay = 1)
       /\ memory'.rdata = IF memory.rdelay = 1 THEN memory.cells[memory.rpending.addr] ELSE memory.rdata
       /\ memory'.bdelay = IF memory.bdelay > 0 THEN memory.bdelay - 1 ELSE 0
       /\ memory'.rdelay = IF memory.rdelay > 0 THEN memory.rdelay - 1 ELSE 0
  BY <1>1, MemoryAt
<1>12. MemoryTyped'
  BY <1>1, <1>2, <1>11, DelaysRun DEF MemoryTyped
<1>13. ~DataAwaited /\ ~DataAwaited' /\ AddressTaken /\ AddressTaken'
  BY <1>1, <1>5 DEF DataAwaited, AddressTaken
<1>14. MonitorTyped'
  BY <1>1, <1>3, MonitorKept DEF Channels
<1>15. /\ monitor'.wactive = None /\ monitor'.ractive = monitor.ractive /\ monitor'.rbeat = monitor.rbeat
       /\ monitor'.txn = monitor.txn
  BY <1>1, <1>2, MonitorAt
<1>16. TransfersCounted'
  BY <1>1, <1>2, <1>13, <1>15 DEF TransfersCounted
<1>17. WriteSound'
  <2>1. memory'.waddr = None /\ ~memory'.bvalid /\ memory'.bdelay = 0 /\ ~memory'.wready
    BY <1>3, <1>11
  <2>2. QED
    BY <1>5, <1>13, <1>15, <2>1 DEF WriteSound
<1>18. ReadSound'
  <2>1. memory.rpending = None /\ ~memory.rvalid /\ memory.rdelay = 0 /\ monitor.ractive = None
    BY <1>1, <1>2 DEF ReadSound
  <2>2. ~memory'.rvalid /\ memory'.rdelay = 0
    BY <1>11, <2>1
  <2>3. QED
    BY <1>5, <1>11, <1>15, <2>1, <2>2 DEF ReadSound
<1>19. CellsSound'
  BY <1>1, <1>2, <1>3, <1>5, <1>11 DEF CellsSound, Unanswered
<1>20. CheckerSound'
  BY <1>1, <1>5, OffersStay
<1>21. QED
  BY <1>7, <1>8, <1>10, <1>12, <1>14, <1>16, <1>17, <1>18, <1>19, <1>20 DEF ChainInv

LEMMA ReadAddressKeeps ==
    ASSUME ChainAssumption, ChainInv, ReadAddress
    PROVE  ChainInv'
<1>1. /\ Edge("AR") /\ master.state = "RD_SEND" /\ master' = [master EXCEPT !.state = "RD_WAIT", !.arvalid = FALSE]
      /\ cmd' = cmd /\ answered' = answered /\ words' = words
  BY DEF ReadAddress, Unanswering
<1>2. MemoryTyped /\ MonitorTyped /\ WriteSound /\ ReadSound /\ CellsSound /\ TransfersCounted
  BY DEF ChainInv
<1>3. cmd \in Commands /\ ~cmd.write /\ master.pending = cmd /\ Len(answered) < MaxChainCommands
  BY <1>1 DEF ChainInv, MasterSound, CommandTyped
<1>4. MasterTyped'
  BY <1>1 DEF ChainInv, MasterTyped, States
<1>5. /\ master'.state = "RD_WAIT" /\ master'.pending = cmd /\ ~master'.arvalid
      /\ master'.awvalid = master.awvalid /\ master'.wvalid = master.wvalid /\ master'.rsp = master.rsp
  BY <1>1, <1>3 DEF ChainInv, MasterTyped
<1>6. CommandTyped' /\ MasterSound' /\ AnswersExact' /\ NeverStops'
  BY <1>1, <1>3, <1>5 DEF ChainInv, CommandTyped, MasterSound, AnswersExact, NeverStops, Edge
<1>7. /\ memory'.awready => memory.waddr = None
      /\ memory'.wready => memory.waddr # None
      /\ memory'.waddr = memory.waddr /\ memory'.wid = memory.wid /\ memory'.bid = memory.bid
      /\ memory'.rpending = [id |-> master.pending.id, addr |-> master.pending.addr, user |-> master.pending.src]
      /\ memory'.cells = memory.cells
      /\ memory'.bvalid <=> (memory.bvalid \/ memory.bdelay = 1)
      /\ memory'.rvalid <=> (memory.rvalid \/ memory.rdelay = 1)
      /\ memory'.rdata = IF memory.rdelay = 1 THEN memory.cells[memory.rpending.addr] ELSE memory.rdata
      /\ memory'.bdelay = IF memory.bdelay > 0 THEN memory.bdelay - 1 ELSE 0
      /\ memory'.rdelay = IF memory.rdelay > 0 THEN memory.rdelay - 1 ELSE 4
  BY <1>1, MemoryAt
<1>8. MemoryTyped'
  BY <1>1, <1>2, <1>7, DelaysRun DEF MemoryTyped
<1>9. ~DataAwaited /\ ~DataAwaited' /\ ~AddressTaken /\ AddressTaken'
  BY <1>1, <1>5 DEF DataAwaited, AddressTaken
<1>10. MonitorTyped' /\ \A s \in SourceIds : monitor'.txn[s] <= monitor.txn[s] + 1
  BY <1>1, <1>3, <1>9, MonitorKept DEF Channels
<1>11. TransfersCounted'
  <2>1. ASSUME NEW s \in SourceIds
        PROVE  monitor'.txn[s] <= Len(answered) + 1
    <3>1. monitor.txn[s] \in Nat /\ monitor'.txn[s] \in Nat /\ Len(answered) \in Nat
      BY <1>2, <1>10 DEF MonitorTyped, ChainInv, CommandTyped
    <3>2. monitor.txn[s] <= Len(answered) + 0
      BY <1>2, <1>9 DEF TransfersCounted
    <3>3. QED
      BY <1>10, <3>1, <3>2
  <2>2. QED
    BY <1>1, <1>9, <2>1 DEF TransfersCounted
<1>12. /\ monitor'.rbeat = 0 /\ monitor'.wactive = monitor.wactive
       /\ monitor'.ractive = [src |-> cmd.src, id |-> cmd.id, addr |-> cmd.addr, txn |-> monitor.txn[cmd.src]]
  BY <1>1, <1>2, <1>3, MonitorAt
<1>13. monitor'.ractive # None
  <2>1. cmd.src \in SourceIds /\ cmd.id \in CommandIds /\ cmd.addr \in WordAddresses
    BY <1>3, CommandFacts
  <2>2. monitor.txn[cmd.src] \in Nat /\ monitor.txn[cmd.src] <= Len(answered) + 0 /\ Len(answered) \in Nat
    BY <1>2, <1>9, <2>1 DEF TransfersCounted, MonitorTyped, ChainInv, CommandTyped
  <2>3. MaxChainCommands \in Nat /\ None \notin Transfers
    BY DEF ChainAssumption
  <2>4. monitor.txn[cmd.src] \in 0 .. MaxChainCommands
    BY <1>3, <2>2, <2>3
  <2>5. QED
    BY <1>12, <2>1, <2>3, <2>4 DEF Transfers
<1>14. WriteSound'
  <2>1. memory.waddr = None /\ ~memory.bvalid /\ memory.bdelay = 0 /\ monitor.wactive = None
    BY <1>1, <1>2, <1>9 DEF WriteSound
  <2>2. memory'.waddr = None /\ ~memory'.bvalid /\ memory'.bdelay = 0 /\ ~memory'.wready
    BY <1>7, <2>1
  <2>3. QED
    BY <1>5, <1>9, <1>12, <2>1, <2>2 DEF WriteSound
<1>15. ReadSound'
  <2>1. ~memory.rvalid /\ memory.rdelay = 0
    BY <1>1, <1>2 DEF ReadSound
  <2>2. ~memory'.rvalid /\ memory'.rdelay = 4
    BY <1>7, <2>1
  <2>3. memory'.rpending = [id |-> cmd.id, addr |-> cmd.addr, user |-> cmd.src]
    BY <1>3, <1>7
  <2>4. monitor'.ractive.id = cmd.id /\ monitor'.ractive.src = cmd.src
    BY <1>12
  <2>5. ~(memory'.rdelay = 0)
    BY <2>2
  <2>6. QED
    BY <1>1, <1>5, <1>12, <1>13, <2>2, <2>3, <2>4, <2>5, Zenon DEF ReadSound
<1>16. CellsSound'
  BY <1>1, <1>2, <1>5, <1>7 DEF CellsSound, Unanswered
<1>17. CheckerSound'
  BY <1>1, <1>3, <1>5, OffersStay
<1>18. QED
  BY <1>4, <1>6, <1>8, <1>10, <1>11, <1>14, <1>15, <1>16, <1>17 DEF ChainInv

LEMMA ReadAnswerKeeps ==
    ASSUME ChainAssumption, ChainInv, ReadAnswer
    PROVE  ChainInv'
<1>1. /\ Edge("R") /\ master.state = "RD_WAIT" /\ memory.rvalid
      /\ master' = [master EXCEPT !.state = "RETURN",
                                  !.rsp = [write |-> FALSE, id |-> memory.rpending.id, data |-> memory.rdata]]
      /\ cmd' = cmd /\ answered' = answered /\ words' = words
  BY DEF ReadAnswer, Unanswering
<1>2. MemoryTyped /\ MonitorTyped /\ WriteSound /\ ReadSound /\ CellsSound /\ TransfersCounted
  BY DEF ChainInv
<1>3. /\ cmd \in Commands /\ cmd.id \in CommandIds /\ cmd.addr \in WordAddresses /\ master.pending = cmd
      /\ memory.rpending.id = cmd.id /\ memory.rdata = words[cmd.addr] /\ memory.rdelay = 0 /\ monitor.ractive # None
  BY <1>1, <1>2, CommandFacts DEF ChainInv, MasterSound, CommandTyped, ReadSound
<1>4. cmd.write = FALSE
  BY <1>1, <1>3, CommandFacts DEF ChainInv, MasterSound
<1> DEFINE answer == [write |-> FALSE, id |-> cmd.id, data |-> words[cmd.addr]]
<1>5. answer \in Responses /\ answer # None /\ answer.id = cmd.id /\ answer.write = FALSE /\ answer.data = words[cmd.addr]
  <2>1. words[cmd.addr] \in Words /\ None \notin Responses
    BY <1>2, <1>3 DEF MemoryTyped, ChainAssumption
  <2>2. answer \in Responses
    BY <1>3, <2>1 DEF Responses
  <2>3. QED
    BY <2>1, <2>2
<1>6. master' = [master EXCEPT !.state = "RETURN", !.rsp = answer]
  BY <1>1, <1>3
<1> HIDE DEF answer
<1>7. /\ master'.state = "RETURN" /\ master'.pending = master.pending /\ master'.rsp = answer
      /\ master'.awvalid = master.awvalid /\ master'.wvalid = master.wvalid /\ master'.arvalid = master.arvalid
  BY <1>6 DEF ChainInv, MasterTyped
<1>8. MasterTyped'
  BY <1>5, <1>6 DEF ChainInv, MasterTyped, States
<1>9. CommandTyped' /\ NeverStops'
  BY <1>1 DEF ChainInv, CommandTyped, NeverStops, Edge
<1>10. MasterSound' /\ AnswersExact'
  BY <1>1, <1>3, <1>4, <1>5, <1>7 DEF ChainInv, MasterSound, AnswersExact
<1>11. /\ memory'.awready => memory.waddr = None
       /\ memory'.wready => memory.waddr # None
       /\ memory'.waddr = memory.waddr /\ memory'.wid = memory.wid /\ memory'.bid = memory.bid
       /\ memory'.rpending = None
       /\ memory'.cells = memory.cells
       /\ memory'.bvalid <=> (memory.bvalid \/ memory.bdelay = 1)
       /\ ~memory'.rvalid
       /\ memory'.rdata = IF memory.rdelay = 1 THEN memory.cells[memory.rpending.addr] ELSE memory.rdata
       /\ memory'.bdelay = IF memory.bdelay > 0 THEN memory.bdelay - 1 ELSE 0
       /\ memory'.rdelay = IF memory.rdelay > 0 THEN memory.rdelay - 1 ELSE 0
  BY <1>1, MemoryAt
<1>12. MemoryTyped'
  BY <1>1, <1>2, <1>11, DelaysRun DEF MemoryTyped
<1>13. ~DataAwaited /\ ~DataAwaited' /\ AddressTaken /\ AddressTaken'
  BY <1>1, <1>7 DEF DataAwaited, AddressTaken
<1>14. MonitorTyped'
  BY <1>1, <1>3, MonitorKept DEF Channels
<1>15. monitor'.wactive = monitor.wactive /\ monitor'.ractive = None /\ monitor'.txn = monitor.txn
  BY <1>1, <1>2, MonitorAt
<1>16. TransfersCounted'
  BY <1>1, <1>2, <1>13, <1>15 DEF TransfersCounted
<1>17. WriteSound'
  <2>1. memory.waddr = None /\ ~memory.bvalid /\ memory.bdelay = 0 /\ monitor.wactive = None
    BY <1>1, <1>2, <1>13 DEF WriteSound
  <2>2. memory'.waddr = None /\ ~memory'.bvalid /\ memory'.bdelay = 0 /\ ~memory'.wready
    BY <1>11, <2>1
  <2>3. QED
    BY <1>7, <1>13, <1>15, <2>1, <2>2 DEF WriteSound
<1>18. ReadSound'
  <2>1. memory'.rpending = None /\ ~memory'.rvalid /\ memory'.rdelay = 0
    BY <1>3, <1>11
  <2>2. QED
    BY <1>7, <1>15, <2>1 DEF ReadSound
<1>19. CellsSound'
  BY <1>1, <1>2, <1>4, <1>7, <1>11 DEF CellsSound, Unanswered
<1>20. CheckerSound'
  BY <1>1, <1>7, OffersStay
<1>21. QED
  BY <1>8, <1>9, <1>10, <1>12, <1>14, <1>16, <1>17, <1>18, <1>19, <1>20 DEF ChainInv

LEMMA AnswerTakenKeeps ==
    ASSUME ChainAssumption, ChainInv, AnswerTaken
    PROVE  ChainInv'
<1>1. /\ Edge("none") /\ master.state = "RETURN" /\ master' = [master EXCEPT !.state = "IDLE", !.rsp = None]
      /\ cmd' = None /\ answered' = Append(answered, [cmd |-> cmd, rsp |-> master.rsp])
      /\ words' = IF cmd.write THEN [words EXCEPT ![cmd.addr] = cmd.data] ELSE words
  BY DEF AnswerTaken
<1>2. MemoryTyped /\ MonitorTyped /\ WriteSound /\ ReadSound /\ CellsSound /\ TransfersCounted
  BY DEF ChainInv
<1>3. /\ cmd \in Commands /\ master.rsp \in Responses
      /\ master.rsp.id = cmd.id /\ master.rsp.write = cmd.write
  BY <1>1 DEF ChainInv, MasterSound, CommandTyped, MasterTyped
<1>4. cmd.write \in BOOLEAN /\ cmd.addr \in WordAddresses /\ cmd.data \in Words /\ None \notin Commands
  BY <1>3, CommandFacts DEF ChainAssumption
<1>5. /\ master'.state = "IDLE" /\ master'.rsp = None /\ master'.pending = master.pending
      /\ master'.awvalid = master.awvalid /\ master'.wvalid = master.wvalid /\ master'.arvalid = master.arvalid
  BY <1>1 DEF ChainInv, MasterTyped
<1>6. MasterTyped'
  BY <1>1 DEF ChainInv, MasterTyped, States
<1>7. MasterSound' /\ NeverStops'
  BY <1>1, <1>5 DEF ChainInv, MasterSound, NeverStops, Edge
<1> DEFINE last == [cmd |-> cmd, rsp |-> master.rsp]
<1>8. last \in [cmd: Commands, rsp: Responses] /\ last.cmd = cmd /\ last.rsp = master.rsp
  BY <1>3
<1>9. answered \in Seq([cmd: Commands, rsp: Responses]) /\ answered' = Append(answered, last)
  BY <1>1 DEF ChainInv, CommandTyped
<1> HIDE DEF last
<1>10. /\ answered' \in Seq([cmd: Commands, rsp: Responses]) /\ Len(answered') = Len(answered) + 1
       /\ \A i \in DOMAIN answered' : (i \in DOMAIN answered /\ answered'[i] = answered[i]) \/ answered'[i] = last
  BY <1>8, <1>9
<1>11. CommandTyped'
  BY <1>1, <1>10 DEF ChainInv, CommandTyped, Edge
<1>12. AnswersExact'
  <2>1. ASSUME NEW i \in DOMAIN answered'
        PROVE  answered'[i].rsp.id = answered'[i].cmd.id /\ answered'[i].rsp.write = answered'[i].cmd.write
    <3>1. CASE i \in DOMAIN answered /\ answered'[i] = answered[i]
      BY <3>1 DEF ChainInv, AnswersExact
    <3>2. CASE answered'[i] = last
      BY <1>3, <1>8, <3>2
    <3>3. QED
      BY <1>10, <3>1, <3>2
  <2>2. QED
    BY <1>5, <2>1 DEF AnswersExact
<1>13. /\ memory'.awready => memory.waddr = None
       /\ memory'.wready => memory.waddr # None
       /\ memory'.waddr = memory.waddr /\ memory'.wid = memory.wid /\ memory'.bid = memory.bid
       /\ memory'.rpending = memory.rpending
       /\ memory'.cells = memory.cells
       /\ memory'.bvalid <=> (memory.bvalid \/ memory.bdelay = 1)
       /\ memory'.rvalid <=> (memory.rvalid \/ memory.rdelay = 1)
       /\ memory'.rdata = IF memory.rdelay = 1 THEN memory.cells[memory.rpending.addr] ELSE memory.rdata
       /\ memory'.bdelay = IF memory.bdelay > 0 THEN memory.bdelay - 1 ELSE 0
       /\ memory'.rdelay = IF memory.rdelay > 0 THEN memory.rdelay - 1 ELSE 0
  BY <1>1, MemoryAt
<1>14. memory'.cells = words' /\ words' \in [WordAddresses -> Words]
  BY <1>1, <1>2, <1>4, <1>13 DEF CellsSound, Unanswered, MemoryTyped
<1>15. MemoryTyped' /\ CellsSound'
  BY <1>1, <1>5, <1>14, DelaysRun DEF MemoryTyped, CellsSound, Unanswered
<1>16. ~DataAwaited /\ ~DataAwaited' /\ AddressTaken /\ ~AddressTaken'
  BY <1>1, <1>5 DEF DataAwaited, AddressTaken
<1>17. monitor' = monitor
  BY <1>1, <1>2, MonitorAt
<1>18. MonitorTyped'
  BY <1>2, <1>17 DEF MonitorTyped
<1>19. TransfersCounted'
  <2>1. ASSUME NEW s \in SourceIds
        PROVE  monitor.txn[s] <= Len(answered') + 0
    <3>1. monitor.txn[s] <= Len(answered) + 1
      BY <1>2, <1>16 DEF TransfersCounted
    <3>2. Len(answered) \in Nat
      BY <1>9
    <3>3. QED
      BY <1>10, <3>1, <3>2
  <2>2. QED
    BY <1>16, <1>17, <2>1 DEF TransfersCounted
<1>20. WriteSound'
  <2>1. memory.waddr = None /\ ~memory.bvalid /\ memory.bdelay = 0 /\ monitor.wactive = None
    BY <1>1, <1>2, <1>16 DEF WriteSound
  <2>2. memory'.waddr = None /\ ~memory'.bvalid /\ memory'.bdelay = 0 /\ ~memory'.wready
    BY <1>13, <2>1
  <2>3. QED
    BY <1>5, <1>16, <1>17, <2>1, <2>2 DEF WriteSound
<1>21. ReadSound'
  <2>1. memory.rpending = None /\ ~memory.rvalid /\ memory.rdelay = 0 /\ monitor.ractive = None
    BY <1>1, <1>2 DEF ReadSound
  <2>2. ~memory'.rvalid /\ memory'.rdelay = 0
    BY <1>13, <2>1
  <2>3. QED
    BY <1>5, <1>13, <1>17, <2>1, <2>2 DEF ReadSound
<1>22. CheckerSound'
  BY <1>1, <1>5, OffersStay
<1>23. QED
  BY <1>6, <1>7, <1>11, <1>12, <1>15, <1>18, <1>19, <1>20, <1>21, <1>22 DEF ChainInv

\* The registers and histories at reset.
AtReset ==
    /\ master = MasterReset /\ memory = MemoryReset /\ monitor = MonitorReset
    /\ checker = [c \in Channels |-> None]
    /\ cmd = None /\ fatal = FALSE /\ trace = <<>> /\ answered = <<>> /\ words = [a \in WordAddresses |-> 0]
    /\ idle = 0

LEMMA ResetIsSound ==
    ASSUME ChainAssumption, AtReset
    PROVE  ChainInv
<1>1. /\ master = MasterReset /\ memory = MemoryReset /\ monitor = MonitorReset
      /\ checker = [c \in Channels |-> None] /\ fatal = FALSE
      /\ cmd = None /\ answered = <<>> /\ words = [a \in WordAddresses |-> 0] /\ idle = 0
  BY DEF AtReset
<1>2. MasterTyped /\ CommandTyped
  BY <1>1 DEF MasterTyped, CommandTyped, MasterReset, States, ChainAssumption
<1>3. MemoryTyped /\ CellsSound
  BY <1>1 DEF MemoryTyped, CellsSound, MemoryReset, Words, Unanswered, MasterReset
<1>4. MonitorTyped /\ TransfersCounted
  BY <1>1 DEF MonitorTyped, MonitorReset, TransfersCounted, AddressTaken, DataAwaited, MasterReset
<1>5. MasterSound /\ WriteSound /\ ReadSound
  BY <1>1 DEF MasterSound, WriteSound, ReadSound, DataAwaited, MasterReset, MemoryReset, MonitorReset
<1>6. CheckerSound /\ NeverStops /\ AnswersExact
  BY <1>1 DEF CheckerSound, NeverStops, AnswersExact, MasterReset
<1>7. QED
  BY <1>2, <1>3, <1>4, <1>5, <1>6 DEF ChainInv

LEMMA ChainKeeps ==
    ASSUME ChainAssumption, ChainInv, [ChainNext]_chainVars
    PROVE  ChainInv'
<1>1. CASE Clock
  BY <1>1, StepCases, StallKeeps, OfferKeeps, WriteAddressKeeps, WriteDataKeeps, WriteAnswerKeeps, ReadAddressKeeps,
     ReadAnswerKeeps, AnswerTakenKeeps
<1>2. CASE ResetCycle
  <2>1. AtReset'
    BY <1>2 DEF ResetCycle, Reset, AtReset
  <2>2. QED
    BY <2>1, ResetIsSound, PTL
<1>3. CASE UNCHANGED chainVars
  BY <1>3 DEF chainVars, ChainInv, MasterTyped, MemoryTyped, MonitorTyped, CommandTyped, MasterSound, WriteSound, ReadSound,
              CellsSound, TransfersCounted, CheckerSound, NeverStops, AnswersExact, DataAwaited, Unanswered, AddressTaken,
              Valid, Payload
<1>4. QED
  BY <1>1, <1>2, <1>3 DEF ChainNext

LEMMA ChainInvariant ==
    ASSUME ChainAssumption
    PROVE  ChainSpec => []ChainInv
<1>1. ChainInit => ChainInv
  BY ResetIsSound DEF ChainInit, AtReset
<1>2. ChainInv /\ [ChainNext]_chainVars => ChainInv'
  BY ChainKeeps
<1>3. QED
  BY <1>1, <1>2, PTL DEF ChainSpec

\* No $fatal of the storage chain is ever reached: not the master's on an answer of another ID, the
\* memory's on data without an address, the monitor's on two handshakes at once, nor the checker's on a
\* withdrawn offer, for any commands, stalls and resets (xpu_axi_master, axi_hettrace_monitor).
THEOREM ChainNeverStops ==
    ASSUME ChainAssumption
    PROVE  ChainSpec => []NeverStops
<1>1. ChainInv => NeverStops
  BY DEF ChainInv
<1>2. QED
  BY <1>1, ChainInvariant, PTL

\* The XPU's answers carry the ID and kind of their command, and a read's the word written there last.
THEOREM ChainAnswersExact ==
    ASSUME ChainAssumption
    PROVE  ChainSpec => []AnswersExact
<1>1. ChainInv => AnswersExact
  BY DEF ChainInv
<1>2. QED
  BY <1>1, ChainInvariant, PTL

\* The registers keep their types: the delays of the test bench's memory run down from 3 and 4, and
\* the master is always in one of its states.
THEOREM ChainTypeCorrect ==
    ASSUME ChainAssumption
    PROVE  ChainSpec => []ChainTypeOK
<1>1. ChainInv => ChainTypeOK
  BY DEF ChainInv, MasterTyped, MemoryTyped, CommandTyped, ChainTypeOK, States
<1>2. QED
  BY <1>1, ChainInvariant, PTL
==============================================================================
