-------------------------------- MODULE MCHet -------------------------------
(***************************************************************************)
(* The extensions of gem5 (src/gem5_new): the monitor with its trace writers   *)
(* in front of the unified timing memory, the CoralNPU device, the Vortex       *)
(* device, and the RTL storage chain.  part, chosen at the start, says which    *)
(* of them a behaviour runs; the others stay as they are.                      *)
(***************************************************************************)
EXTENDS CoralNpu, VortexDevice, HetAxiMonitor, TLC

CONSTANT NoValue

VARIABLES
    part,
    cmd, master, memory, monitor, checker, fatal, trace, answered, words, resets, idle              \* StorageChain

chainState == <<cmd, master, memory, monitor, checker, fatal, trace, answered, words, resets, idle>>

P(addr, size, write, reply, source, delay, duration) ==
    [addr |-> addr, size |-> size, enabled |-> addr .. addr + size - 1, write |-> write, reply |-> reply,
     source |-> source, delay |-> delay, duration |-> duration, traced |-> TRUE]

\* Three packets that overlap, cross a page and lie outside of the windows, with answers that
\* overtake one another where they may.
Overlapping ==
    [unique |-> TRUE, atomic |-> FALSE,
     packets |-> <<P(2, 7, TRUE, TRUE, "host", 4, 1), P(2, 4, FALSE, TRUE, "host", 0, 1), P(16, 4, FALSE, TRUE, "host", 0, 2)>>]
\* Two sources, one of them not traced; a masked write that needs no answer; first in atomic mode.
TwoSources ==
    [unique |-> FALSE, atomic |-> TRUE,
     packets |-> <<P(2, 7, TRUE, TRUE, "host", 3, 1), [P(2, 4, FALSE, TRUE, "npu", 0, 1) EXCEPT !.traced = FALSE],
                   [P(6, 6, TRUE, FALSE, "npu", 0, 2) EXCEPT !.enabled = {6, 9}]>>]
\* Two IDs for three packets of one source.
FewIds ==
    [unique |-> TRUE, atomic |-> TRUE,
     packets |-> <<P(0, 4, TRUE, TRUE, "host", 3, 0), P(2, 4, FALSE, TRUE, "host", 0, 1), P(2, 2, TRUE, TRUE, "host", 0, 2)>>]
Traffics == {Overlapping, TwoSources, FewIds}
OutsideWindows == 16 .. 19

Gpu(standalone, timing, polls) == [standalone |-> standalone, timing |-> timing, polls |-> polls]
Gpus == {Gpu(TRUE, FALSE, FALSE), Gpu(FALSE, FALSE, FALSE), Gpu(FALSE, TRUE, FALSE), Gpu(FALSE, TRUE, TRUE)}

Write(src, id, addr, data) == [write |-> TRUE, src |-> src, id |-> id, addr |-> addr, data |-> data]
Read(src, id, addr) == [write |-> FALSE, src |-> src, id |-> id, addr |-> addr, data |-> 0]
Chain == INSTANCE StorageChain WITH
    Commands <- {Write(1, 5, 0, 1), Write(2, 6, 0, 2), Read(1, 6, 0), Read(2, 5, 1)},
    MaxChainCommands <- 3, MaxResets <- 1, MaxIdle <- 1, None <- NoValue

ASSUME ChainParameters == Chain!ChainAssumption

MCInit ==
    /\ part \in {"monitor", "npu", "gpu", "chain"}
    /\ HetInit /\ (part # "monitor" => system = Overlapping)
    /\ Init /\ (part # "npu" => kernel /\ autoStart /\ tap)
    /\ VortexInit /\ (part # "gpu" => cfg = Gpu(FALSE, FALSE, FALSE))
    /\ Chain!ChainInit

MCNext ==
    /\ UNCHANGED part
    /\ \/ part = "monitor" /\ HetNext /\ UNCHANGED <<vars, vortexVars, chainState>>
       \/ part = "npu" /\ Next /\ UNCHANGED <<hetVars, vortexVars, chainState>>
       \/ part = "gpu" /\ VortexNext /\ UNCHANGED <<hetVars, vars, chainState>>
       \/ part = "chain" /\ Chain!ChainNext /\ UNCHANGED <<hetVars, vars, vortexVars>>

\* The event queue and the requesters go on; a DMA completes some time; the GPU's events are served;
\* and the clock runs.
MCFairness ==
    /\ []<>~(part = "monitor" /\ CanProgress) \/ []<><<part = "monitor" /\ Progress>>_hetVars
    /\ WF_vars(part = "npu" /\ \E s \in DOMAIN txns : MemoryComplete(s))
    /\ WF_vortexVars(part = "gpu" /\ CpTick)
    /\ WF_vortexVars(part = "gpu" /\ DmaComplete)
    /\ WF_vortexVars(part = "gpu" /\ VortexTick)
    /\ WF_vortexVars(part = "gpu" /\ \E t \in coreDmas : CoreDmaComplete(t))
    /\ WF_chainState(part = "chain" /\ Chain!Clock)

MCSpec == MCInit /\ [][MCNext]_<<part, hetVars, vars, vortexVars, chainState>> /\ MCFairness

-----------------------------------------------------------------------------
(* NpuInOrder (CoralNpu), WakesRight (VortexDevice), TraceIsTraffic and        *)
(* AnswersRight (HetAxiMonitor) are properties of this run too.               *)

\* The chain's boundary passes and records every handshake of every command, in order (storage_chain/rtl).
BusExact == Chain!ChainTypeOK /\ Chain!BusTraceExact

\* Every packet is answered unless the process ends, every beat of the NPU retires, every doorbell of
\* the GPU is retired, and every command of an XPU is answered.
AllComeBack ==
    /\ part = "monitor" => <>[]AllDone
    /\ []<>(part = "npu" => txns = <<>>)
    /\ <>[](part = "gpu" => commands = 0)
    /\ []<>(part = "chain" => cmd = NoValue)
============================================================================
