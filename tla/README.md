# TLA+ models of StorageStacked-Docker

The repository is one simulator made of several programs: CPU and accelerator models inside gem5
issue memory packets, which travel as AXI bursts over an AXI-over-UCIe (AoU) bridge and a UCIe
die-to-die link to a stacked-memory simulator. This directory holds TLA+ modules of its protocol
cores, the TLC configurations that check them, and TLAPS proofs. `PROJECT.json` is the index:
it maps every definition to the source lines it models and lists runs, hazards and theorems.

Contents: 1 the system, 2 the modules, 3 the runs, 4 fairness, 5 proofs, 6 findings,
7 what is left out and what could come next.

## 1. The system

```
 gem5 packet -> HetAxiMonitor -> TLM bridge -> AXI master -> Axi2Flit -> adapter -> UcieLink ->
   adapter -> AouTarget -> burst memory / MemSimBackend -> mem_sim (online ABI, system, controllers,
   behavioural PHY, memory image) -- and the answer back through the same parts
```

| Component | State | Operations | Talks to | Hard behaviours | What makes it correct |
|---|---|---|---|---|---|
| UCIe link: TxAdapter, RxAdapter, FeedbackPath (`ucie-model/src/ucie_link.h`) | 64-bit `next_seq_`, retry buffer, replay flag, cursor and end; `expected_seq_`, NAK state; feedback queue | send new, replay, timed wait; ACK, NAK; deliver, drop, report | FDI FIFOs, PHY | sender and feedback interleave at waits; any frame corrupted; time-out races answers; 8-bit sequence byte wraps | lossless FIFO; ACK frees only what was delivered; everything is delivered in the end |
| Behavioural PHY, PhyChannel (`ucie_phy.h`) | frames in flight, CDR lock, random state | transmit | Tx and Rx adapters | independent corruption | keeps frames in order |
| Link status and the session around it (`ucie_link.h`, `ucie_systemc_main`) | state, error, sinks' counts | train, watchdog, workload, verdict | all link threads | a link that never trains, failure and completion in one delta cycle | the verdict at the end is the one earned |
| Axi2Flit (`axi2flit/systemc/src/axi2flit.cpp`) | request, data and response FIFOs per resource plane, write route FIFO, order guards, shown responses | AW, W, AR, B, R handshakes | AXI master; packer; unpacker | W data without ID finds its plane by order; rotation over planes | bursts stay whole, responses in AXI order, guard counts exact |
| FlitPacker, FlitUnpacker, CreditManager | current flit, spilled message, staging slots, credit ledger; carried message, held flit | pack, spill, flush, dedicated grant; decode, route under back-pressure | adapter, channel threads | messages cut by flit ends; credits that need a flit to travel; encodings that cannot name every amount | credits conserved, no receive overrun, no credit deadlock |
| UcieAouAdapter | one flit each way | transfer | packer, unpacker, link | ready shown a cycle ahead | nothing dropped |
| AouTarget, SimpleBurstMemory | writes being assembled, reads, tickets, `outstanding_`, replies, spill | receive, collect, assemble, submit, transmit | link, memory FIFOs | data before its request; last reply cut by a flit end | beats belong to their burst, slots neither leaked nor freed twice |
| gem5 AXI master (`gem5_axi/axi_master.cc`) | active IDs, bursts, channel queues | transport, split, drive, respond | TLM bridge, Axi2Flit | ID reuse, back-pressure, last-response aggregation | each packet answered once |
| MemSimBackend (`gem5_axi/memsim_backend.cc`) and online ABI (`mem_sim/integration/online.cpp`) | bursts, children, live requests, completions | accept, submit with retry, step, pop, finish | AouTarget's memory port, mem_sim | refused submissions retried; children complete in any order | each child once, bursts in order, right bytes |
| mem_sim system and stacks (`src/core/system.cpp`, `stack_model.cpp`) | ingress queues, host requests, response queue | try_submit, dispatch, collect, aggregate | controllers | QoS reordering, full response queue | no loss, no starvation, reads see older writes |
| mem_sim controller (`src/controller/controller.cpp`) | read/write/priority/maintenance queues, buffered writes, row policy | admit, forward, coalesce, select, issue | DRAM state, PHY | FR-FCFS reordering; payload picked up at issue; PHY commits later | reads see the newest older write |
| Refresh and RFM managers (`src/controller/refresh.cpp`, `rfm.cpp`) | refresh credit, rotation, RAA counters, pending flags | tick, issue, retire | controller | catch-up, postponing, priority over requests | bounded refresh debt, flags exact |
| Command timing and DRAM state (`src/dram/executor.cpp`, `timing.cpp`), trace validation (`src/validation/validator.cpp`) | bank states, WCK windows, ready times | next command, legal?, execute; replay | controller, PHY | many spacing rules kept twice, by two programs | no illegal command; the replay agrees |
| Frontend: traffic, traces, run loops (`src/frontend/traffic.cpp`, `run_source` of `system.cpp`) | position in the trace, open burst, last-write map, pieces not yet handed over; clock, pending request | next of each stream; submit, step, drain | system | streams pull from one another; a refused request is kept; the clock's limit cuts a run short | requests arrive as asked, in order, none torn or doubled; a cut run says so |
| Address map and floor plan | none | decode, encode, stripe | system | mixed widths | a bijection |
| Memory image storage (`src/core/memory_backend.cpp`) and data path (`src/core/data.cpp`) | chunk cache, bitmaps, header; row buffers, versions, ECC shadow | load, store, evict, flush, open; activate, write, checkpoint | file system, controller | killed process, half-written state, errors injected | what a reopened file claims is true; a line is what was last written |
| Unified timing memory, HetAxiMonitor and trace writer, Vortex and CoralNPU devices, RTL chain (`gem5_new/`) | retry flags, sender states, coroutine flags, ID FIFOs, block buffers | gem5 timing protocol, DMA, PIO | gem5 | refused packets, wake-ups, out-of-order completions, a kill | every request answered; per-ID order; the trace is the traffic |
| Scripts, CLI, configuration files, statistics, docs | none relevant | offline | - | - | not modelled |

`PROJECT.json` lists the same parts with their status, and the hazards at the lines where they
bite. Parts of the program that only parse, format, plot or drive tests are not modelled.

## 2. Modules

| Module | Models |
|---|---|
| `FdiChannel` | abstract: what one link direction promises its two users, a bounded FIFO that keeps delivering |
| `UcieLink`, `UcieLinkProofs` | one direction of the link: both Tx threads, PHY, receiver, feedback path; its inductive invariant and refinement for all constants |
| `LinkSession` | the program around the link: workload, sinks, status thread, training watchdog, verdict |
| `CreditManager` | the credit ledger as operators on a record |
| `CreditLoop` | abstract: where the granules of one receive buffer are |
| `TransportProofs` | proofs about `CreditManager`, `CreditLoop` and `LinkSession` |
| `AouFlit` | messages, flits, cutting and reassembly (AouStreamDecoder), and the hand-over of flits at both ends of the link (UcieAouAdapter) |
| `FlitPacker`, `Axi2Flit` | the bridge, bottom up, each extending the one before; `FlitPacker` holds the unpacker too |
| `AouTarget` | the far end and its burst memory |
| `AouSystem` | the composition, its fairness and its properties |
| `AxiSplit`, `AxiProofs` | `Master::split`, a round of its loop per step; its correctness for all packets |
| `AxiMaster` | the AXI master with the TLM bridge on one side and a free AXI4 slave on the other |
| `BurstMemory` | abstract: what the memory behind the AoU target promises at its FIFOs |
| `MemSimBackend`, `BackendProofs` | the backend's round and the checks of the online interface, over a free mem_sim; that it implements `BurstMemory` |
| `MemController`, `MemControllerProofs` | one controller's queues, scheduler, row policy, data and PHY slots; what never closes a row |
| `MemorySystem` | ingress of system and stacks, dispatch, response queues, tags |
| `Frontend` | traffic streams, traces, control sequence, split into transactions; the loops that feed them in |
| `RefreshDebt` | the refresh manager |
| `RfmCounters` | the RFM manager and the maintenance queue |
| `MaintenanceProofs` | the refresh debt and the banks' retention; the flags and bounds of RFM |
| `CommandReplay`, `CommandTiming` | the commands, their rules and the validator's replay of a trace; the executor that produces one |
| `AddressMap` | decode, encode, stack striping, timing buckets, floor plan |
| `LineStore` | abstract: what a memory backend promises, a map that outlives the process |
| `ChunkStore` | chunk cache, files, failing writes, kills, reopening |
| `MemoryImage` | row buffers, versions, masked writes, checkpoints, SECDED shadow |
| `StorageProofs` | that `ChunkStore` implements `LineStore`; that the image is exact |
| `UnifiedMemory`, `HetAxiMonitor` | the unified timing memory; the monitor and trace writer in front of it |
| `CoralNpu` | the CoralNPU device's DMA bridge and start-up |
| `VortexDevice` | the Vortex device's events, coroutine and DMA queue |
| `DeviceProofs` | CoralNPU's order per ID; that Vortex loses no wake-up; reads and answers of the unified memory |
| `StorageChain`, `AxiProofs` | the RTL chain, a clock edge per step; that it never stops and answers exactly |
| `MCUcieLink`, `MCAouLive`, `MCAouSystem`, `MCGem5Axi`, `MCMemSim`, `MCStorage`, `MCHet` | constants for TLC, used by the `.cfg` files |

Definitions whose comment begins with "Fault:" (or ends in it) are plausible bugs of the
definition that follows them. `PROJECT.json` pairs each with a property of a run that must then
fail. They are used for nothing else.

An MC module that checks several systems extends or instantiates each and adds a variable `part` (or `cfg`,
where one system has several configurations). `part` is chosen at the start, says which of them
the behaviour runs, and never changes; the others stay in their initial state, so that they share
no state and the states of the parts add up rather than multiply.

### UcieLink and LinkSession

SystemC threads are cooperative, so an action is what a thread does between two waits.
`TxAdapter::sender` waits in three places: before training is over (`tx_pc = "train"`), while
`send_one` serialises a frame (`"serialize"`, with the frame, already built, in `cur`), and when
there is nothing to send (`"wait"`, with a time-out). `SenderLoop` is one round of its loop from
its top to the next wait; `Trained`, `Serialized`, `Woken` and `ReplayTimeout` are the ways into
it. `Feedback` is one message handled by `TxAdapter::feedback`, `RxRun` one frame handled by
`RxAdapter::run`, `Put` and `Get` are the FDI users.

What interferes: `feedback` may move the replay cursor, or erase the retry buffer entry whose
iterator `sender` keeps, while `send_one` waits. Reading through the erased iterator is undefined
behaviour; `CursorAfter` lets the read yield any value that can make a difference.

Sequence numbers are 64-bit counters in the code and plain numbers here, and the byte of a frame
is the number modulo `SeqMod` (256 in the code). CRC16 is taken to detect every corruption. The
clock is not modelled: the replay timer may run out whenever `sender` waits and has not been woken
by feedback, because the receiver may be blocked by its consumer for any time.

`LinkSession` has one action per process of `ucie_systemc_main` and of the link's bookkeeping:
the workload's source, the echo at the far end, the two sinks, `status_thread` and the watchdog,
over FIFOs of depth `Depth`, and keeps the kernel's delta cycle (`DeltaCycle`), since its question
is the order in which a failure, the last item and the end of the simulation are seen.

### The AoU chain

Here each thread's clock cycle is one action: `PackerCycle`, `UnpackerCycle`, `TargetCycle`,
`AdapterSend` and `AdapterReceive`, `MemoryServe`, and one action per AXI handshake. The code
clocks all threads on one edge; the model interleaves their cycles in any order, any number of
times. This covers the lock-step execution: every FIFO between two threads has one writer and one
reader, and what the one does in a cycle is seen by the other at the next edge, so the effect of
an edge is that of running the cycles one after another in some order. It covers more besides
(threads of different speed), so a property shown here does not depend on relative clock rates.

- `pk`, `unp`, `tgt` are the records of the three state machines. `PackCycle`, `Routed` and the
  five steps of `TargetNext` are functions of them, in the order of the code.
- A `ready` register of an AXI channel is computed from the FIFOs' space one cycle ahead; nobody
  else fills those FIFOs, so it is the guard of the handshake.
- A flit is a sequence of granules, a granule is a pair of its message and its position, and
  `start` is the MsgStart bitmap. `WellFormed`, `Fragments` and `Reassembled` decode only from the
  bitmap, so a continuation at the wrong place decodes into a `BrokenMessage` as it would in bytes.
- `tag` numbers transactions and stands for the user field and the payload: an answer or a beat
  with another transaction's tag is a mix-up.
- The link is a FIFO of `LinkDepth` flits per direction. That is what `FdiChannel` promises and
  what `UcieLink` is proved to implement, for each direction.
- The memory answers in the order of its requests, as `SimpleBurstMemory` does.

Not in the model: the link's state (the adapter's gating on Active), reset after the start (the
target ends with a fatal error on one), `flush_timeout_cycles_` other than its default 0, bit
fields, byte lanes and error statuses, and the fatal exits of the bridge for AXI requests outside
its contract: the master of the model keeps AXI4 (lengths, WLAST, write data in the order of write
addresses). The credit return FIFO (`cr`, 64 entries in the code) has no bound, since the
interleaved model does not limit how often a channel thread runs between two packer cycles.

### The AXI master

`Master::tick` is one SystemC method per clock edge, so it is one action, `Tick`: the composition
of its steps in the order of the code (`AwTaken`, `ArTaken`, `WTaken`, `RTaken`, `BTaken`, `Admit`,
`Drive`, `Respond`), applied to the master's state `m` and to what the channels carry. The signals
it drives are `axi`; a handshake happens at the edge after they were driven, as with the registered
signals of the code. `BeginReq` and `EndResp` are the two phases the TLM bridge calls between
edges. A call that gem5 makes from inside END_REQ has the same effect as one just after the tick,
because `admit` has already looked at `pending`.

`awAfter`, `wAfter` and `pendingAt` are counters that run down, `cycle` itself is not kept, and the
pattern of `rready` and `bready` is free when the master stalls on purpose. `ok` turns FALSE where
an `sc_assert` fails, `active.at` throws or a burst beyond the last is read. Packets are numbered;
their bursts are given by the numbers of their beats, as `AxiSplit` would make them, and `<<>>` for
a packet `admit` finds invalid.

The slave keeps AXI4 and no more: it takes each channel when it likes, pairs write data with write
addresses by order, also when data come first, answers what it has in full in any order, and fails
beats and bursts at will. Read beats of different IDs may interleave.

### The mem_sim backend

One round of `MemSimBackend::run` is the action `Run`: `Accept`, `Submit`, `Complete`, `ReturnOldest`, in
that order. mem_sim is free to refuse a submission, to complete any set of what it has accepted in a
round and to fail any of it. What is taken from it is that effects follow the order of acceptance:
`Stored` applies a write, and takes a read's bytes, when the piece is accepted. `MemorySystem` and
`MemController` examine that promise on the two sides of the stack. A byte of data is the number of
the burst that wrote it.

`BurstMemory` is the abstract memory. The refinement mapping computes what the abstract one has:
its image is mem_sim's image with the unsent parts of the held writes laid over it, the last of
them on top (`ImageBefore`), and what it owes to a read is what has come, what its live children carry and what
the image will show to the pieces not yet submitted (`Wanted`).

### The controller

`MemController` has an action `Submit` for a request, `TakeResponse`, and one, `Tick`, for the
controller's `tick`: the PHY and the pending reads complete, maintenance arrives, the write drain's
mode is chosen, at most one command goes out on each bus, in the order of the code. What only
depends on how many cycles have passed is free: which commands' timing gates are open, and whether
a PHY slot falls due. (`QuietTick` is a tick in which nothing new arrives; liveness asks for it.)
`CommandTiming` says when the gates open. A request is a range of bytes, and one that overlaps an
older one is held back until that is done; a write's payload is the number of the write, byte by
byte, and stays in the write buffer until its column command picks it up; the PHY's slot carries it
to the image later. `truth` is, for every byte, the writes it may end with: the last one accepted and
those the code may let land on top of it (`Admitted`). `cfg` selects PHY mode, command buses, banks, scheduler and row policy. Not in
the model: edge pairing, split activation and low power (`CommandTiming` has them), ECC, the arbiter
between pseudo channels.

### System, refresh and RFM

`MemorySystem` follows a host request from `try_submit` over the queues per stack and per channel
to the response queues and back. Controllers are bounded queues that answer in any order a
controller may. `truth` records what a read should see. `RefreshDebt` is the refresh manager's
`tick` with the number of cycles it is given (a controller skips idle time), and the commands it
asks for. `RfmCounters` counts activations per bank, raises the pending flag at the threshold and
puts one RFM into the queue; `Reopens` is true of the controllers that may activate a row again
for one request (see 6, `memctl_row_lost`).

### Frontend

`Frontend` has the streams as operators: each takes the state of all (`stream`) and returns it with
the next request, or `None` at its end. `SyntheticNext` and `TraceNext` are the sources (a burst
line stands for many requests and is resumed by `emit_burst`), `PrefixedNext` puts the control
sequence before them, `SplitNext` cuts host requests into transactions. `Vector` is the other way in:
everything generated beforehand and sorted by cycle. The actions are those of the loops: `Fetch`,
`SubmitFromSource`, `SubmitFromVector`, `Step` (a tick of the system, which completes any of what it
has), `Drain`. What the memory is asked for, counted from the trace line by line (`Workload`), is the
other side of the properties. Not in the model: random and mixed patterns of synthetic traffic,
which differ in addresses only; the syntax of trace lines; masks, and the payload forms that a
trace can spell out.

### Commands

`CommandReplay` names the commands and classifies them, and is the validator: it reads a
trace of commands, keeps rows and times of its own, and reports errors. `CommandTiming` is the
executor with the timing table: what command a request needs next, whether state and spacing allow
it, and what it changes. Its action `Tick` is one command clock: any legal command on each bus, which
`replay` then replays, and `faults` are the errors it found. Time is kept as distances to now, cut
off where no rule looks further back. A device is one record of parameters (`Specs`).

Not in the model: `low_power_mode` (automatic power-down), the PHY's FIFOs and its start-up, the
choice of the request (any request may be served; the active set merges identical requests), and
the validator's rule for the end of a trace.

### Memory image and storage

`ChunkStore` has the chunk cache (most recently used first), the chunk files, the two bitmaps and
the counters of the header. An action is a call: `Load`, `Store`, `StoreMapped`, `Flush`, `Clear`,
`Close`, `Reopen`; a call may fail after any of its writes (`EvictionFails`, `FlushFails`), and the
process may be killed between calls or in one (`Kill`, `KillInStore`). What is on disk is what the operating system was given: `pwrite` survives a kill of
the process, not of the machine, which the code does not claim to survive. `LineStore` is the map a
user sees; the refinement mapping reads each line through cache and files.

`MemoryImage` is `data.cpp`: rows in buffers, written lines versioned, the shadow of ECC words with
injected bit flips, preloading and checkpoints. `should` records what a line should hold. A masked
write that misses a flipped byte shadows the line anew, error included; `Correctable` excludes it
from the promise that reads are right (see 6).

### The extensions of gem5

`HetAxiMonitor` extends `UnifiedMemory`: the packet goes through the monitor's `recvTimingReq` into
the memory's in one action, as in the code, and a retry comes back through both. Time is discrete,
`now` the current tick, an event is the tick it is scheduled for; the writer's buffer, filter and
side-car follow `writer.h`. `CoralNpu` has the DMA bridge's beats per ID, the response order and the
start. `VortexDevice` has the two events (`cpTickEvent`, `vortexTickEvent`), the coroutine's flags and the
DMA queue; command processor and core, which are behind a C interface, are external: they issue any
accesses, and finish a command when its kernel is done. `StorageChain` steps all registers of
the RTL at the clock edge.

## 3. Runs

| Run | Question | Bounds | Result |
|---|---|---|---|
| `link_safety` | Is the link a lossless FIFO, and is the invariant of the proof one? | 2 flit values, 7 flits, window 2, `SeqMod` 6, NAK repeated every 2 frames, 3 frames and 2 feedback messages in flight | holds |
| `link_nak` | Does a NAK restart the replay where the documentation says? | 2 flits, NAK on every frame | violated, see 6 |
| `aou_safety` | Do bursts, credits, slots and guards stay exact when messages are cut, and apart between planes? | parts: 1 plane, 2 bursts of 2 beats, flits of 4 granules, 2 request slots, 3 data granules, a credit FIFO of 1; 2 planes, 2 one-beat bursts of one ID on either plane, flits of 6 granules | holds |
| `transport_live` | Does everything get through and home? | parts: `CreditLoop` with a buffer of 6; the chain with 1 plane, 2 one-beat bursts, flits of 3 granules, which cut write data behind its request, and the smallest FIFOs; the link with 3 flits, window 2 and 2 frames in flight; the session with 2 items | holds |
| `gem5_axi` | Is splitting right, the master sound, the backend an in-order memory, and everything answered? | parts: 14 addresses around a page end and at every alignment, 46 lengths up to 8200; 3 packets of 2 bursts or invalid, 2 slots, 2 IDs; 3 bursts of 6 kinds, 4 bytes in 2 granules, 2 slots, FIFOs of 1, a burst held for 1 round; smaller ones for liveness | holds |
| `mem_sim` | Does the controller serve all, with reads that see writes, and do maintenance, system, commands and addresses keep their promises? | parts: the controller with 3 requests and 1 maintenance, lines of 2 bytes, queues of 2, four configurations; 3 banks in 2 ranks, threshold 3; refresh in four organisations, at most 7 to 21 skipped cycles; 3 host requests over 2 stacks of 2 channels with queues of 1 and 2, of up to two lines; eight feeds of up to 8 transactions, at most 12 cycles; six devices with timings of 1 to 9 cycles; five address layouts of up to 64 cells | holds |
| `memctl_row_lost` | Is every request answered with closed pages? | the controller of `mem_sim`, closed page | violated, see 6 |
| `memctl_merged` | Does the last writer of each byte win when writes are merged? | the controller of `mem_sim`, three writes of which one is merged | violated, see 6 |
| `address_alias` | Has every address of the capacity its cell, in efficiency mode too? | one layout | violated, see 6 |
| `storage` | Is the file backend a map that outlives the process, and the image above it exact? | 3 lines in chunks of 1 or 2, a cache of 1 or 2, 1 or 2 failures; 2 rows, 1 or 2 columns and banks, every mask, 2 or 3 writes, an error in every second one | holds |
| `chunk_header` | Does the program accept the files it wrote? | one configuration of `storage` | violated, see 6 |
| `het` | Is the trace the traffic, are answers right, is no wake-up lost, is the bus exact? | parts: 3 packets of up to 3 beats, pages of 8 bytes, 2 IDs; 3 accesses of the NPU with 2 IDs; 3 commands of the GPU, 2 accesses; 3 commands of the RTL chain, 1 reset | holds |

What the properties say:

- `SeqClassifiedRight`: the comparison of sequence bytes classifies every frame in flight as its
  full number demands. `LinkInv`: the inductive invariant of the proof, `RetryHoldsUndelivered`
  among it: the retry buffer is an interval that contains all that is not delivered.
  `ImplementsChannel`: the step-by-step refinement of `FdiChannel`. `LinkDelivers`: every accepted
  flit is delivered and every retry entry freed. `SessionEndsHonestly`: the verdict is the one
  earned.
- `BurstsArrive`: no protocol check of a receiver fires and write data, which carry no ID, arrive
  with their own request. `NoCreditLost`: per plane and kind, the granules with the sender, in
  flight as grants, in flight or stored as messages, freed, and pending add up to the capacity.
  `CountersExact`: `outstanding_` and the order guard equal what they count. `OrderKept`: AXI order
  per ID as long as the guard saw no conflict. `ResponsesAlwaysFit`: a decoded response finds room,
  so one plane's unread responses do not block another's. `CreditsFlow`: every step of the chain is
  a step of `CreditLoop` or leaves it alone, for every plane and kind; `LoopInv` is its invariant.
  `RequestsAnsweredCreditsHome`: no deadlock through credits, and nothing of the window is left
  behind by amounts a credit field cannot name.
- `ContractKept`, `EndToEnd`: split's bursts are legal and cover the packet exactly. `MasterSound`:
  no assertion can fail, every write burst gets its own beats, an ID in use is not given again, one
  answer per packet, after its last burst, with an error exactly when there was one.
  `LedgersAgree`: the backend's children are what mem_sim has live. `ImplementsBurstMemory`: the
  refinement, with the data of reads and the statuses. `AllAnswered`: nothing waits for ever.
- `ReadsSeeWrites`: a read returns what the newest older write of each byte left. `NothingLost`: a
  request is in one place until its answer was taken, and once no write is on its way the image
  holds the last write to every byte, with two exceptions: where writes of different starts met in
  the buffer it may hold any of those that waited there together, and a byte of a waiting write that a
  shorter unmasked write replaces may keep what it had before. The same bytes are excepted in
  `ReadsSeeWrites`. `LastWriterWins`: the claim without these exceptions. `ActiveKeepsRow`: no
  command closes or replaces the row an active request has opened. `AllServed`: every request and all
  maintenance, in the end.
- `FlagsExact`, `ActsBounded`: an RFM flag is up while one RFM is queued, and no bank is activated
  more than the threshold allows. `MaintenanceKept`: the same per rank; no rank owes more refreshes
  than its limits allow, and no bank waits longer than a rotation and that debt. `SystemLedger`:
  tags, queues and answers agree; the frontend's requests arrive as trace and options ask, and a run
  that was cut short says so. `SystemReadsSeeWrites`: no read passes a write of its line on its
  way to a controller, and a trace's read is checked against the write before it; addresses and cells
  are one to one. `CommandsValid`: the trace of the
  executor replays without an error, on a state that stays the executor's own. `EverythingComes`:
  relief, repayment of debt, and an answer for every host request.
- `FilesAndCounters`: what a restarted store would find is each line as some flush or eviction left
  it. `KeepsPromise`: the refinement of `LineStore`. `ImageExact`: a line is what was last written
  to it, whatever rows did. `VersionsGrow`: a line's version never goes back.
- `TraceIsTraffic`: until a kill, the records are exactly the beats of the packets the memory took.
  `AnswersRight`: a read finds what was last written, and an answer that waits has an event or a
  requester that will ask. `NpuInOrder`: per ID, beats retire in the order of issue and none is
  lost. `WakesRight`: work that can go on has an event scheduled or an answer on its way.
  `BusExact`: the RTL monitor's trace is the handshakes. `AllComeBack`: everything is answered.

Why the bounds are enough. Link: seven flits wrap the sequence byte of six, so an old frame of an
earlier round can meet a new one with the same byte, and the window of two leaves exactly the
margin the code's configuration check demands (2 * window < SeqMod); the proof then covers all
values. AoU: flits, messages, FIFOs and windows are scaled down together so that their relations
stay: a message may be cut at every length, two requests fit a flit, the data window is smaller
than a burst and is not an amount a credit field can name (3), queues fill up and push back, and
requests can be short of credit while data is not. The part with two planes takes capacities that
fields can name so that the planes, not the encodings, make the states. Two transactions are enough
for every pairwise hazard (the mix-up of two bursts, reordering of two responses, a slot freed
twice); the guards, tickets and ledgers treat a third like the second. Three packets over two slots
and two IDs reuse an ID while its neighbour is still active, and `IdSpace` is one more than `MaxId`
so that `nextId` wraps as a `uint16_t` does when `maxId` is 65535. Three bursts over two slots make
the backend refuse one, and pieces that overlap within and across granules show every order of
submission in the bytes. Controller: three requests to one line make write, overlapping write (of
the same start or another one, as long or shorter, masked or not) and read, or a read between two
writes, which is what forwarding, merging and permits tell apart, and maintenance closes rows in
between. Commands: the timings are chosen so that each rule is, in some
device, the one that decides; the mutants of the constraint table show it. Storage: a cache of one
chunk makes every access to the other chunk an eviction; the proof covers all sizes.
`MaxTransactions`, `MaxFlits`, `MaxWire`, `MaxFb`, `MaxPackets`, `MaxBursts`, `MaxRequests`,
`MaxHosts`, `MaxQueue`, `MaxReopened`, `MaxAccesses`, `MaxCommands`, `MaxCpAccesses`, `MaxResets`,
`MaxIdle`, `MaxRefusals`, `LastSend`, `CounterWidth` and the fields `max_*` of configurations are
the only bounds that are not parameters of the code.

Deadlock checking is off where a system really may stop: when all requests are made and answered
(`mem_sim`, `het`). In the AoU configurations it is on: an idle chain keeps clocking, and its
idle cycles are stuttering steps; `Quiescent` in `UcieLink` marks the only state in which the link
may rest for ever, every flit delivered and acknowledged.

## 4. Fairness

- Link: every thread that can run runs (SystemC schedules a runnable process; the timed wait
  ends), and the consumer keeps reading. The PHY corrupts each frame independently, so a frame
  that is sent again and again gets through: strong fairness of an intact transmission, per
  sequence number. The producer need not send anything.
- AoU: every thread is clocked for ever. The cycles of packer, unpacker and target are functions
  of the state, so weak fairness is written with its ENABLED spelt out (`PackerIdle`, `TargetIdle`,
  `UnpackerIdle` say that a cycle would change nothing). The memory serves, the master sends the
  write data it owes and takes the responses it is shown; it need not issue requests.
- AXI master: the clock runs, the slave takes from a channel that keeps showing a beat and shows an
  answer to what it has in full (per ID), the bridge ends a response. The bridge of gem5 does so for
  every BEGIN_RESP; the slave is the AoU chain, whose own part of `transport_live` shows the same.
- mem_sim backend: the clock runs, a submission offered again and again is accepted, the oldest one
  accepted is completed, the AoU target reads its FIFO.
- Controller: it is ticked, and a tick in which nothing else happens issues what it can
  (`QuietTick`, with `Restless` for its ENABLED): a command that is due becomes legal at some time
  and stays so, since all spacing runs out. Responses are taken.
- RFM and refresh: the queue's head issues some time; the refresh manager's clock runs. System: it
  is ticked (`Moves` for ENABLED), the host keeps offering and takes its answers.
- gem5: the event queue goes on and requesters answer retries (`CanProgress`); a DMA completes; the
  devices' events are served; the clock of the RTL runs.

In the modules with several parts each conjunct is asked only of the behaviours that run its part.

## 5. Proofs

All proofs are checked by TLAPS to the last leaf, for every value of the constants that satisfies
the named assumptions.

`UcieLinkProofs` (from `LinkAssumption`: the window is less than half the sequence space, as
`require_valid_config` demands):

- `LinkInvariant`: `Spec => []LinkInv`; from it `LinkTypeCorrect`, `RetrySafe`
  (`RetryHoldsUndelivered`) and `SeqWindowSafe` (`SeqClassifiedRight`).
- `LinkImplementsChannel`: `Spec` implements `FdiChannel`'s safety part under the refinement that
  takes the channel's contents to be the retry buffer from `expected_seq_` on.

`RetryHoldsUndelivered` is not inductive: an ACK in flight could name anything. `LinkInv` adds
`FbInv` (what is acknowledged in flight has been delivered), `FlightInv` (a frame in flight is at
most a window behind the receiver, and an intact frame not yet delivered carries the flit the retry
buffer has) and `OrderInv` (frames sent later are less than a window older than frames sent
before). The last is what makes the byte comparison right: however many replays overlap, all
frames in flight and the receiver's number lie within two windows, fewer than `SeqMod`. Every
action has a lemma; sender's loop is proved once (`SenderLoopInv`) for all the ways into it.
The garbage cursor read through a dangling iterator does not hurt: `LowerBound` makes any cursor
an entry of the retry buffer, or nothing.

`TransportProofs` (from `LoopAssumption`: the capacity is at most the counter limit, 4095):
`CreditsAreConserved` and `BufferNeverOverrun`. The saturating additions of `CreditManager` are
inert in every state of the invariant (`SaturationInert`), which is why conservation is inductive.
About the operators, from no assumption: `GrantWithinPending` and `GrantsConserve` say that a grant
is between one and what is pending and is taken off it exactly, for every ledger and any set of
planes, so the granting half of `CreditLoop`'s `ReceiverCycle` is what `take_header_grant` and
`take_misc_grants` do; `LedgerKept` that the unsigned counters never wrap. The summing of a cycle's
updates (`AmountIn`, a fold) is beyond the prover and stays with TLC. `SessionHonest` (from
`SessionAssumption`) is about the end of a run: `StatusInv` follows the delta cycles from a watchdog
that fires, over `Failed` and the status thread, to `stop`, which takes effect at the end of its
own delta cycle and so never overtakes the report.

`AxiProofs`, `Master::split` (from `SplitAssumption`: addresses are numbers and lengths are not 0) proves the
invariant `SplitInv` and from it `SplitKeepsContract`, `SplitCoversPacket` and `SplitReturns`. The
argument that a burst stays in its page needs that 4096 is a multiple of every beat's width, and the
one that the loop advances that a width of one byte is always usable.

`AxiProofs`, storage chain (from `ChainAssumption`: the commands are well typed and `None` is none
of the values a register holds): `ChainNeverStops`, `ChainAnswersExact` and `ChainTypeCorrect`, for
any commands, stalls of the XPU and resets. The invariant (`ChainInv`) says what memory, monitor and
checker hold at each state of the master (`WriteSound`, `ReadSound`, `CheckerSound`); `StepCases` reduces
a clock edge to the one handshake it has, and each of the eight kinds of edge has a lemma. That no
edge has two handshakes rests on the memory of the test bench, which takes W only after AW. What
`BusExact` says of the trace itself, an expectation computed by folds, stays with TLC.

`BackendProofs` (from `BackendAssumption`): `LedgersAlwaysAgree` and `BackendIsMemory`, the refinement
of `BurstMemory`, for any window, granule, kinds of burst, slots, holding time, FIFO depths and
number of bursts. The invariant (`LedgerInv`) has `Paired` (the backend's children are what mem_sim
has live), `Sound` (a burst has as many children as it has pending, within what it has sent; an
error sends nothing), `Apart` (children of a burst carry disjoint parts; a refused number belongs to
one burst) and `Numbered`. The operators of a round act on a state that is not a state of the module
(between `Accept` and `ReturnOldest`), so each has two lemmas over such states: it keeps `Ledger`,
and it leaves the abstract memory alone (`SubmitSame`, `CompleteSame`) or takes, or answers, one
burst (`AcceptTakes`, `ReturnAnswers`). `SentHeld` is the heart of it: a piece goes out only of the
oldest burst that has something to send, so all older writes are in mem_sim's image when it does.
`RunCycles` puts the four together.

`MaintenanceProofs`, RFM (from `RfmAssumption`) proves `RfmInv` and from it `RfmTypeCorrect`,
`FlagsAreExact`, `ReliefIsQueued` and `ActivationsBounded`. `OneKind` (a policy queues only its own
kind of command) and an exact count of the RFMs queued for a flag make it inductive; a bank over
its threshold is not activated again because its relief stands in front of ordinary requests.

`MemControllerProofs` (from `ControllerAssumption`): `OpenPageKeepsRows`. With open page, for any
banks, queue depths, requests and maintenance, on one command bus or two and with either PHY,
nothing closes or replaces the row a request had opened before its data command. The invariant
(`ControllerInv`) says of every state, also of those in the middle of a tick, where the requests of
each queue come from (`QueuesSound`) and that the row an active request has opened is open while
no maintenance of its bank has been let in (`RowsSound`). The other policies are excluded by a
counterexample, see 6.

`StorageProofs` (from `ChunkStoreAssumption`): `StoreIsSound`, `FilesStayRecoverable` and
`StoreKeepsPromise`, the refinement of `LineStore`, for every cache, chunk and file size. The
invariant (`StoreInv`) has `CleanOnFile` (a clean chunk of the cache is what its file has),
`AbsentBlank` (a line without its presence bit reads as zero in every file), `MayBeFound` and
`FilesRecoverable` (a file holds what some eviction or flush gave it), and `Counted`. The steps that
evict are proved once, over the state in the middle of a call, for the failing and the successful
calls.

`StorageProofs`, the image (from `ImageAssumption`): `ImageIsExact` and `VersionsNeverGoBack`, for any
geometry, masks and number of writes. `ImageExact` is not inductive, for a row buffer may be dropped:
`ImageInv` adds that a clean one holds what the backend holds (`CleanAgrees`), that the current place
of a line, row buffer or backend, holds what was written under a version given out before
(`LinesRight`), and that a flip came after a shadow that corrects it (`ShadowsCover`).

`MaintenanceProofs`, refresh (from `RefreshAssumption`): `RefreshTypeCorrect`, `RetentionFollowsDebt` and
`DebtIsBounded`, for any organisation, interval, limits and time between two ticks. `AgeInv` says
that the deadlines a bank has waited for are at most its rank's credit, one, and the batches since
its own turn in the rotation (`BatchesSince`); it needs no bound on the debt and holds with any
number of ranks. `OwesInv` bounds the debt of a rank that has the manager for itself: what it owes
was postponed, but for what passed while the manager was not asked. With several ranks that postpone
the debt has no bound (see 6), with several that do not, `MaintenanceKept` checks it.

`DeviceProofs`, CoralNPU (from `NpuAssumption`): `AnswersInOrder`. `OrdersApart` (a transaction stands in
one ID's order queue, once) and `RetiresInOrder` make the answers' order inductive; `StartsOnce` the
start.

`DeviceProofs`, Vortex (from `VortexAssumption`): `NoWakeUpLost`. The invariant relates the
coroutine's flags to the events and the DMA queue: `OneAccess` (at most one access of the command
processor is under way, so its queue never grows), `RunsForCommand`, `AccessesOfKernel` and
`WakesKept`.

`DeviceProofs`, the unified memory (from `TrafficAssumption`): `ReadsAndAnswers`, for any packets,
latencies and refusals. `MemoryInv` says what each byte holds and that a packet is taken once,
`OrderInv` that the queue of answers is sorted by time and, for one address, by request, `WakeInv`
that while an answer waits there is one event for it or one requester that owes a retry.

What the prover cannot reach stays with TLC: liveness under fairness and everything that speaks of
ENABLED; what a recursive definition, a fold or a `SelectSeq` computes for every input. Only
model-checked for the second reason: `CreditsFlow` and the invariants of `AouSystem` (their state is
cut messages in sequences, over recursive decoders); `ReadsSeeWrites` and `NothingLost` of the
controller and `SystemLedger`, `SystemReadsSeeWrites` (queues filtered and folded); `TraceIsTraffic` and the trace of `BusExact` (an expected trace that is
a fold over the packets). Not attempted: `MasterSound` of the AXI master, `CommandsValid` (two tables of
spacing rules to compare rule by rule), and what `MaintenanceKept` says of several ranks.

## 6. Findings

`link_nak`: `MODELING_AND_VERIFICATION.md` (4.5.4) says that a NAK(n) which finds an unacknowledged
flit restarts the retransmission there. When the NAK is handled while `sender` is inside `send_one`
with a replayed frame, `sender` overwrites `replay_cursor_` on its return (`ucie_link.h:109`) and
the restart is lost. `LinkDelivers` shows that the flit is delivered all the same, after a further
NAK or the replay time-out: a matter of performance, not of correctness.

`memctl_row_lost`: with the closed-page policy, another request's row hit closes, by its
auto-precharge, the row an active request has opened (`controller.cpp:1494`). The active request
then needs ACT, which `choose` looks for on the column bus only: on a dual command bus it is never
served.

`memctl_merged`: a write to the start address of one that waits is merged into it, at its place in
the queue (`controller.cpp:233`), and a write is held back for older reads only (1177). A write of
another start that overlaps both and came between them is therefore issued after the merged entry
and puts its older bytes over the newest. The comment at 962-964 and the message at
`sequence_tests.cpp:3085` claim the order of the last writer, byte by byte; `byte_sequence` keeps it
for reads forwarded from the buffer, and the test reads only while the writes wait.
`NothingLost` says what remains true.

`chunk_header`: the header's counters are written by `flush()`, the bits by every `store()`. After a
kill and a preload the counter of written lines goes below 0 and the program refuses its own files
(`memory_backend.cpp:729`).

`address_alias`: in LPDDR efficiency mode two addresses of the capacity decode to one cell
(`addr_map.cpp:121`).

Observations made while modelling, which no run is about:

- Controller: a forwarded read misses a masked write still in the PHY (`controller.cpp:949`); a
  shorter unmasked write replaces a longer one that waits, whose other bytes are then never written
  (236), and a longer masked write is merged into a shorter one (241); with
  `write_low_watermark` 0 a drain starves reads (1274); PREab checks only `row.next_row` (1428);
  REFab and RFMab after PREab do not wait nRPab (1430).
- Commands: maintenance between ACT1 and ACT2 in direct mode can move `next_row` past `nAADMax`,
  which throws (1104); a direct PHY lets ACT issue during an explicit power-down; with
  `low_power_mode` self-refresh an explicit PDE makes PDX illegal for ever (2055); a command at the
  head of the priority queue that may not issue starves WCK_TRAIN behind it; the executor keeps the
  maximum of `wck_active_until` at WCK_SYNC (`executor.cpp:235`), the validator overwrites it
  (`validator.cpp:744`); LPDDR with closed pages and a lost row can send ACT2 to a closed bank, which
  throws; a shallow PHY command FIFO can block ACT2 at its deadline.
- System: strict QoS (`system.cpp:861`) and the round-robin mapper (366) let a read pass a write of
  its line, which `MemorySystem` leaves out of `ReadsSeeWrites` for those settings. With two ranks
  and postponing, the debt has no bound (`refresh.cpp:80`), and `pullin_limit` above 1 has no effect.
- Frontend: `remaining_hint` and `remaining_frontend` are neither exact nor the lower bound
  `request.hpp:110` promises (control requests are multiplied by the transactions per host,
  a stalled last trace line counts twice). `prepend_control_sequence` moves the ids of a generated
  vector but not its host request ids, so a control request and a workload request share one. A
  masked write of a trace is remembered for `last_write` with its unmasked payload.
- Image: a partial write re-shadows a line with an uncorrected flip (`data.cpp:1824`).
- AoU and AXI: `xpu_axi_master` raises AW and W together, so a slave ready for both trips the
  monitor's `$fatal`. Atomic mode holds a synthetic ID per packet until time passes, and running out
  of IDs is fatal.
- Devices: accesses of the CoralNPU's mailbox complete at once and bypass the per-ID order; in the
  Vortex bridge the command processor's DMA queue, `vortexStartPending` and `cpResumeNeeded` never
  hold anything for longer than a call (`OneAccess` proves it of the queue); its liveness relies on
  the library not deciding idle from a `vortex_busy` older than its last DMA.
- Trace writer: the `.meta.json` of an earlier run stays when a later run is killed.

## 7. What is left out, and what could come next

Left out: what only parses, formats or reports (CLI, configuration, statistics, floor plan files,
scripts); floating-point accounting of energy and temperature; bit and byte encodings (flit layout,
AXI byte lanes, ECC code words), which are taken by what they do; reset in mid-traffic, which the
code itself answers with a fatal error; automatic low-power residency. Parts behind interfaces of
other programs (gem5, Verilator, the GPU library, SystemC) are external and appear as free
environments that keep the interface's contract and no more.

Next, in this order: `IdsDistinct` of the AXI master, and with it `MasterSound`; `MaintenanceKept` for
several ranks that postpone nothing; `GuardExact` and `OutstandingExact` of the AoU chain;
`SystemLedger`; a proof of `NothingLost` from the queues' part of `ControllerInv` (needs that
`SelectSeq` keeps what passes its test, which is an induction over data).
