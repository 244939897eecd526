------------------------------ MODULE CoralNpu -----------------------------
(***************************************************************************)
(* The CoralNPU device (src/gem5_new/gem5int/src/dev/coralnpu/               *)
(* coralnpu_dev.cc) and the library it loads (src/gem5_new/coralnpuint/       *)
(* coralnpu_gem5.cc).  The device steps the core once a clock, starts it with   *)
(* three register writes that each take several steps, and carries its AXI     *)
(* beats to gem5's memory, which completes them in any order: B and R go back   *)
(* in the order of issue, ID by ID.                                         *)
(*                                                                         *)
(* The core and its AXI wrapper are external: in a step a register write may    *)
(* get through, and a core that runs may make an access, halt, or wait for an   *)
(* interrupt.  Accesses outside of the DDR window go to the mailbox and are     *)
(* answered at once.                                                        *)
(***************************************************************************)
EXTENDS Integers, Sequences, FiniteSets, SequencesExt

CONSTANTS Ids, MaxAccesses      \* AXI IDs; a bound: accesses of a core

\* What the constants must be.
ASSUME NpuAssumption == MaxAccesses \in Nat

Kinds == {"read", "write"}

VARIABLES
    kernel, autoStart,          \* how the device is configured: a kernel is loaded, it starts by itself
    started, tickEvent,
    startStage, startWrite,     \* the register write under way: "none", "queued" or "done"
    registers,                  \* history: the start-up writes that got through, by stage
    core,                       \* "held", "running", "halted" or "wfi"
    txns,                       \* readTxns_ and writeTxns_: sequence -> [kind, id, done]
    orderById,                  \* kind -> ID -> sequences
    nextAxiSequence,
    issued, retired,            \* history: kind -> ID -> sequences
    mailbox,                    \* who wrote it last
    tap, emitted, emitted_cache,    \* the trace: open or not, its count, and that count after it was closed
    seen                        \* history: records of the accesses while the trace was open
vars == <<kernel, autoStart, started, tickEvent, startStage, startWrite, registers, core, txns, orderById,
          nextAxiSequence, issued, retired, mailbox, tap, emitted, emitted_cache, seen>>

Empty == [k \in Kinds |-> [i \in Ids |-> <<>>]]

\* The library's start(): from now on tick() makes the writes.  One-shot.
LoadAndStart ==
    IF started THEN UNCHANGED <<started, startStage, startWrite, tickEvent>>
    ELSE started' = TRUE /\ startStage' = 0 /\ startWrite' = "none" /\ tickEvent' = TRUE

Init ==
    /\ kernel \in BOOLEAN /\ autoStart \in BOOLEAN
    /\ started = (kernel /\ autoStart) /\ tickEvent = (kernel /\ autoStart)
    /\ startStage = IF kernel /\ autoStart THEN 0 ELSE 3
    /\ startWrite = "none" /\ registers = <<>> /\ core = "held"
    /\ txns = <<>> /\ orderById = Empty /\ nextAxiSequence = 1
    /\ issued = Empty /\ retired = Empty
    /\ mailbox = "none"
    /\ tap \in BOOLEAN /\ emitted = 0 /\ emitted_cache = 0 /\ seen = 0

\* A write of REG_CTRL with bit 0 set.
HostStart ==
    /\ IF kernel THEN LoadAndStart ELSE UNCHANGED <<started, startStage, startWrite, tickEvent>>
    /\ UNCHANGED <<kernel, autoStart, registers, core, txns, orderById, nextAxiSequence, issued, retired, mailbox,
                   tap, emitted, emitted_cache, seen>>

HostMailbox ==
    /\ mailbox' = "host"
    /\ UNCHANGED <<kernel, autoStart, started, tickEvent, startStage, startWrite, registers, core, txns, orderById,
                   nextAxiSequence, issued, retired, tap, emitted, emitted_cache, seen>>

\* OnRead, OnWrite: a record for a read, and one for each run of enabled bytes of a write.
RunsOf(k) == IF k = "read" THEN {1} ELSE {0, 1, 2}

\* issueRead, issueWrite: a DMA that completes some time later.  The tap has seen it first.
Issue(k, i, runs) ==
    /\ txns' = [q \in DOMAIN txns \cup {nextAxiSequence} |->
                   IF q = nextAxiSequence THEN [kind |-> k, id |-> i, done |-> FALSE] ELSE txns[q]]
    /\ orderById' = [orderById EXCEPT ![k][i] = Append(@, nextAxiSequence)]
    /\ issued' = [issued EXCEPT ![k][i] = Append(@, nextAxiSequence)]
    /\ nextAxiSequence' = nextAxiSequence + 1
    /\ emitted' = IF tap THEN emitted + runs ELSE emitted
    /\ seen' = IF tap THEN seen + runs ELSE seen
    /\ UNCHANGED mailbox

\* Not in the DDR window: the mailbox, and CompleteRead or CompleteWrite at once.
MailboxAccess(k) ==
    /\ mailbox' = IF k = "write" THEN "core" ELSE mailbox
    /\ UNCHANGED <<txns, orderById, issued, nextAxiSequence, emitted, seen>>

NoAccess == UNCHANGED <<txns, orderById, issued, nextAxiSequence, emitted, seen, mailbox>>

\* It is not ticked any more, and nothing wakes it.
Stopped == {"halted", "wfi"}

\* One step of the core (external), with the start-up write of this stage under way or not.
Step(stage, write) ==
    \/ /\ write = "queued" /\ startWrite' = "done"
       /\ registers' = Append(registers, stage)
       /\ core' = IF stage = 2 THEN "running" ELSE core
       /\ NoAccess
    \/ /\ startWrite' = write /\ UNCHANGED registers
       /\ \/ UNCHANGED core /\ NoAccess
          \/ core = "running" /\ core' \in Stopped /\ NoAccess
          \/ /\ core = "running" /\ nextAxiSequence <= MaxAccesses /\ UNCHANGED core
             /\ \E k \in Kinds : MailboxAccess(k) \/ \E i \in Ids, runs \in RunsOf(k) : Issue(k, i, runs)

\* tick(): the stages of the start, a step, and the next tick unless the core stands still.
Tick ==
    LET advanced == startStage < 3 /\ startWrite = "done"
        stage == IF advanced THEN startStage + 1 ELSE startStage
        left == IF advanced THEN "none" ELSE startWrite
        write == IF stage < 3 /\ left = "none" THEN "queued" ELSE left
    IN  /\ tickEvent
        /\ startStage' = stage
        /\ Step(stage, write)
        /\ tickEvent' = (stage < 3 \/ core' \notin Stopped)
        /\ UNCHANGED <<kernel, autoStart, started, retired, tap, emitted_cache>>

\* Fault: however old the beats before them are.
DoneSoFar(order, beats) == Len(SelectSeq(order, LAMBDA q : beats[q].done))

\* retireReadyReads and -Writes: how many at the front of the order are done.
ReadyToRetire(order, beats) ==
    LET waiting == {j \in DOMAIN order : ~beats[order[j]].done}
    IN  IF waiting = {} THEN Len(order) ELSE Min(waiting) - 1

\* readMemoryComplete, writeMemoryComplete, and then retireReadyReads or -Writes: those at the front
\* of the ID's order that are done.
MemoryComplete(s) ==
    LET k == txns[s].kind
        i == txns[s].id
        order == orderById[k][i]
        done == [txns EXCEPT ![s].done = TRUE]
        n == ReadyToRetire(order, done)
        out == Range(SubSeq(order, 1, n))
    IN  /\ s \in DOMAIN txns /\ ~txns[s].done
        /\ txns' = [q \in DOMAIN txns \ out |-> done[q]]
        /\ orderById' = [orderById EXCEPT ![k][i] = SubSeq(order, n + 1, Len(order))]
        /\ retired' = [retired EXCEPT ![k][i] = @ \o SubSeq(order, 1, n)]
        /\ UNCHANGED <<kernel, autoStart, started, tickEvent, startStage, startWrite, registers, core,
                       nextAxiSequence, issued, mailbox, tap, emitted, emitted_cache, seen>>

\* trace_close: the tap goes, its count stays.
CloseTrace ==
    /\ tap /\ tap' = FALSE
    /\ emitted_cache' = emitted /\ emitted' = 0
    /\ UNCHANGED <<kernel, autoStart, started, tickEvent, startStage, startWrite, registers, core, txns, orderById,
                   nextAxiSequence, issued, retired, mailbox, seen>>

Next == HostStart \/ HostMailbox \/ Tick \/ CloseTrace \/ \E s \in DOMAIN txns : MemoryComplete(s)

Spec == Init /\ [][Next]_vars

\* REG_STATUS.
Finished == startStage = 3 /\ core \in Stopped
TraceEmitted == IF tap THEN emitted ELSE emitted_cache

-----------------------------------------------------------------------------
TypeOK ==
    /\ startStage \in 0 .. 3 /\ startWrite \in {"none", "queued", "done"}
    /\ core \in {"held", "running"} \cup Stopped
    /\ nextAxiSequence \in 1 .. MaxAccesses + 1
    /\ DOMAIN txns \subseteq 1 .. MaxAccesses

\* The core has its answers in the order of its requests, ID by ID; every beat there still is waits
\* for the memory or for an older one that does; and the tables and the orders name the same beats.
RetiresInOrder ==
    /\ \A k \in Kinds, i \in Ids :
          /\ retired[k][i] \o orderById[k][i] = issued[k][i]
          /\ orderById[k][i] # <<>> => ~txns[orderById[k][i][1]].done
          /\ Range(orderById[k][i]) \subseteq DOMAIN txns
    /\ \A s \in DOMAIN txns : \E k \in Kinds, i \in Ids : s \in Range(orderById[k][i])

\* The core runs only after its address, its reset and its clock were written, in this order and
\* once; a kernel that was started is ticked until the host can see that it has finished, and no
\* longer; and the number of records is the same whether it is read before the close or after.
StartsOnce ==
    /\ registers \in {<<>>, <<0>>, <<0, 1>>, <<0, 1, 2>>}
    /\ core # "held" => registers = <<0, 1, 2>>
    /\ tickEvent = (started /\ ~Finished)
    /\ TraceEmitted = seen

\* The NPU's core has its answers in the order of its requests, ID by ID, though the memory completes
\* them in any order; its start-up writes get through in order and once, and it is ticked as long as
\* it runs.
NpuInOrder == TypeOK /\ RetiresInOrder /\ StartsOnce

=============================================================================
