---------------------------- MODULE VortexDevice ---------------------------
(***************************************************************************)
(* The VortexGPGPU device (src/gem5_new/gem5int/src/dev/vortex/              *)
(* vortex_gpgpu_dev.cc): the events that step the command processor (CP) and   *)
(* the core, and the bridge from their accesses to gem5's timing memory.  A     *)
(* CP tick runs as a coroutine: an access of the CP suspends it until its DMA   *)
(* is complete.  An access of the core has a token and completes when it does.  *)
(*                                                                         *)
(* The library with CP and core is external: the CP takes one command after     *)
(* the other, launches a kernel for it, and retires it when the core is no      *)
(* longer busy; on the way it may access memory.  What it must not do is to    *)
(* report that it is idle from a look at the core older than its last access.  *)
(***************************************************************************)
EXTENDS Integers, Sequences, FiniteSets

CONSTANTS
    Configs,            \* records: standalone, timing; polls: the CP is busy while it waits for the core
    MaxCommands, MaxCpAccesses, Tokens    \* bounds: commands, accesses of a CP tick; tokens of a kernel

ASSUME VortexAssumption ==
    /\ Configs \subseteq [standalone : BOOLEAN, timing : BOOLEAN, polls : BOOLEAN]
    /\ MaxCommands \in Nat /\ MaxCpAccesses \in Nat

VARIABLES
    cfg,                \* the configuration; it never changes
    cpTickEvent, vortexTickEvent,       \* scheduled
    coroutine,          \* "finished" or "suspended"
    accessesLeft,       \* of the CP tick that is under way (external)
    activeCpDma, cpDmaQueue, cpResumeNeeded,
    vortexStartPending,
    coreDmas, unused,   \* tokens in flight; those the kernel has not used yet (external)
    commands, launched, busy,       \* of the CP and the core (external)
    rung, retiredCommands,      \* history: commands
    stopped             \* exitSimLoop was called
vortexVars == <<cfg, cpTickEvent, vortexTickEvent, coroutine, accessesLeft, activeCpDma, cpDmaQueue, cpResumeNeeded,
          vortexStartPending, coreDmas, unused, commands, launched, busy, rung, retiredCommands, stopped>>

VortexInit ==
    /\ cfg \in Configs
    /\ cpTickEvent = FALSE /\ vortexTickEvent = cfg.standalone
    /\ coroutine = "finished" /\ accessesLeft = 0
    /\ activeCpDma = FALSE /\ cpDmaQueue = 0 /\ cpResumeNeeded = FALSE
    /\ vortexStartPending = FALSE
    /\ coreDmas = {} /\ unused = {}
    /\ commands = 0 /\ launched = FALSE /\ busy = cfg.standalone
    /\ rung = 0 /\ retiredCommands = 0 /\ stopped = FALSE

HasWork == commands > 0     \* cp_has_work (external)

\* Fault: even then.
WakesAlways(work) == work

\* maybeWakeCp: not while the CP waits for a DMA.
Wakes(work) == work /\ ~activeCpDma /\ cpDmaQueue = 0

\* A write of the CP's registers: a command is there.
Doorbell ==
    /\ ~stopped /\ ~cfg.standalone /\ rung < MaxCommands
    /\ commands' = commands + 1 /\ rung' = rung + 1
    /\ cpTickEvent' = (cpTickEvent \/ Wakes(TRUE))
    /\ UNCHANGED <<cfg, vortexTickEvent, coroutine, accessesLeft, activeCpDma, cpDmaQueue, cpResumeNeeded,
                   vortexStartPending, coreDmas, unused, launched, busy, retiredCommands, stopped>>

\* memoryRead, memoryWrite in a CP tick: the access is queued, started as no other is under way,
\* and the coroutine yields.
CpAccess(left) ==
    LET queued == cpDmaQueue + 1
    IN  /\ left > 0
        /\ activeCpDma' = TRUE
        /\ cpDmaQueue' = IF activeCpDma THEN queued ELSE queued - 1
        /\ coroutine' = "suspended" /\ accessesLeft' = left - 1
        /\ cpTickEvent' = FALSE
        /\ UNCHANGED <<cpResumeNeeded, vortexStartPending, vortexTickEvent, commands, launched, busy, unused, retiredCommands>>

\* The last part of a CP tick: it retires, launches or waits (external), onVortexStart if it
\* launches, and the next tick if it is still busy.
Retires == launched /\ ~busy
Launches == ~launched /\ HasWork
StillBusy == commands' > 0 /\ (cfg.polls \/ ~(launched' /\ busy'))
CpFinish(left) ==
    /\ left = 0
    /\ launched' = IF Retires THEN FALSE ELSE launched \/ Launches
    /\ commands' = IF Retires THEN commands - 1 ELSE commands
    /\ retiredCommands' = IF Retires THEN retiredCommands + 1 ELSE retiredCommands
    /\ busy' = (busy \/ Launches)
    /\ unused' = IF Launches /\ cfg.timing THEN Tokens ELSE unused
    /\ vortexStartPending' = ((vortexStartPending \/ Launches) /\ (activeCpDma \/ cpDmaQueue > 0))
    /\ vortexTickEvent' = (vortexTickEvent \/ (Launches /\ ~activeCpDma /\ cpDmaQueue = 0))
    /\ coroutine' = "finished" /\ accessesLeft' = 0
    /\ cpResumeNeeded' = FALSE
    /\ cpTickEvent' = StillBusy
    /\ UNCHANGED <<activeCpDma, cpDmaQueue>>

\* cpTick: a new coroutine, or the suspended one goes on.  Without timing memory it never yields.
CpTick ==
    /\ ~stopped /\ cpTickEvent
    /\ \E left \in IF coroutine = "suspended" THEN {accessesLeft}
                   ELSE IF cfg.timing /\ HasWork THEN 0 .. MaxCpAccesses ELSE {0} :
          CpAccess(left) \/ CpFinish(left)
    /\ UNCHANGED <<cfg, coreDmas, rung, stopped>>

\* dmaComplete: the next access, if one is queued; else startVortexIfReady and the CP goes on.
DmaComplete ==
    LET ready == cpDmaQueue = 0
        needed == cpResumeNeeded \/ coroutine = "suspended"
    IN  /\ ~stopped /\ activeCpDma
        /\ activeCpDma' = ~ready /\ cpDmaQueue' = IF ready THEN 0 ELSE cpDmaQueue - 1
        /\ vortexTickEvent' = (vortexTickEvent \/ (ready /\ vortexStartPending))
        /\ vortexStartPending' = (vortexStartPending /\ ~ready)
        /\ cpResumeNeeded' = (needed /\ ~ready)
        /\ cpTickEvent' = (cpTickEvent \/ (ready /\ needed /\ (coroutine = "suspended" \/ HasWork)))
        /\ UNCHANGED <<cfg, coroutine, accessesLeft, coreDmas, unused, commands, launched, busy, rung, retiredCommands, stopped>>

\* An access of the core, in timing memory: a DMA for its token.
issueCoreTiming(t) == t \notin coreDmas /\ unused' = unused \ {t} /\ coreDmas' = coreDmas \cup {t}

\* vortexTick: the core (external) makes an access, runs on, or is done when all of its accesses are;
\* then the CP is woken to retire the kernel.
VortexTick ==
    /\ ~stopped /\ vortexTickEvent
    /\ \/ /\ \E t \in unused : issueCoreTiming(t)
          /\ UNCHANGED <<busy, vortexTickEvent, cpTickEvent, stopped>>
       \/ /\ UNCHANGED <<unused, coreDmas, busy, vortexTickEvent, cpTickEvent, stopped>>
       \/ /\ coreDmas = {} /\ busy' = FALSE /\ unused' = {} /\ vortexTickEvent' = FALSE
          /\ IF cfg.standalone THEN stopped' = TRUE /\ UNCHANGED cpTickEvent
             ELSE cpTickEvent' = (cpTickEvent \/ Wakes(HasWork)) /\ UNCHANGED stopped
          /\ UNCHANGED coreDmas
    /\ UNCHANGED <<cfg, coroutine, accessesLeft, activeCpDma, cpDmaQueue, cpResumeNeeded, vortexStartPending,
                   commands, launched, rung, retiredCommands>>

\* coreDmaComplete, complete_core_memory: the token is free.
CoreDmaComplete(t) ==
    /\ ~stopped /\ t \in coreDmas /\ coreDmas' = coreDmas \ {t}
    /\ UNCHANGED <<cfg, cpTickEvent, vortexTickEvent, coroutine, accessesLeft, activeCpDma, cpDmaQueue, cpResumeNeeded,
                   vortexStartPending, unused, commands, launched, busy, rung, retiredCommands, stopped>>

VortexNext == Doorbell \/ CpTick \/ DmaComplete \/ VortexTick \/ \E t \in Tokens : CoreDmaComplete(t)

VortexSpec == VortexInit /\ [][VortexNext]_vortexVars

-----------------------------------------------------------------------------
\* The shape of the state.
VortexTypeOK ==
    /\ coroutine \in {"finished", "suspended"} /\ accessesLeft \in 0 .. MaxCpAccesses
    /\ cpDmaQueue \in Nat /\ commands \in 0 .. MaxCommands
    /\ coreDmas \subseteq Tokens /\ coreDmas \cap unused = {}

\* A suspended CP tick goes on when its access is complete, never before and not twice: it waits for
\* its DMA or for its event.  The core is ticked while and only while it is busy.  No wake-up is
\* lost: a command that is there has the CP at work, or waits for the core; and none is lost or
\* retired twice.
WakesKept ==
    /\ coroutine = "suspended" => (activeCpDma # cpTickEvent)
    /\ cpTickEvent => ~activeCpDma
    /\ activeCpDma => coroutine = "suspended"
    /\ stopped \/ vortexTickEvent = busy
    /\ HasWork => cpTickEvent \/ activeCpDma \/ (launched /\ busy)
    /\ rung = retiredCommands + commands

\* The device is well typed and none of its wake-ups is lost.
WakesRight == VortexTypeOK /\ WakesKept

=============================================================================
