---------------------------- MODULE CommandTiming ----------------------------
(***************************************************************************)
(* The commands of a mem_sim controller: what the next command of a request  *)
(* is, when bank state, timing and buses allow it, and what its execution    *)
(* changes (src/mem_sim/src/controller/controller.cpp, executor.cpp,         *)
(* timing.cpp and src/mem_sim/src/dram/state.cpp, mem_phy.cpp).  Which of    *)
(* the queued requests there are, and which the scheduler takes, is open:    *)
(* any request of the configuration may be served by any tick.              *)
(*                                                                         *)
(* dram is the controller's state in the form of the validator's, replay the *)
(* validator's after the commands issued so far. Beside them run the burst   *)
(* of every data command and each bank's recovery, as the device would       *)
(* measure them.                                                           *)
(***************************************************************************)
EXTENDS CommandReplay

VARIABLES
    dram,       \* BankState, TimingScopeState, the active buffer, the low-power flags, the PHY's state
    replay,     \* the validator's state
    device,     \* data beats on their way, recoveries under way, ACT1s that were held up
    faults      \* what any command so far violated

vars == <<spec, dram, replay, device, faults>>

\* A Request is [cmd, bank, row]: "read", "write" or the command a maintenance request is for.
Requests == Specs[spec].requests
Ordinary(r) == r.cmd \in {"read", "write"}

RowScope(b) == Bucket(Specs[spec].row_bus_scope, b)
ColumnScope(b) == Bucket(Specs[spec].column_bus_scope, b)
Group(b) == Bucket(BankGroup, b)
Behavioral == Specs[spec].behavioral        \* mem_phy_mode; direct otherwise

\* The tick before which nothing of gate x holds: x is open.
Open(d, gates) == \A x \in gates : Ticks(d.gate, x) = 0
RowPath(b) == {<<"next_row", RowScope(b)>>}
ActivatePath(b) == RowPath(b) \cup {<<"next_act", b>>, <<"next_act", RowScope(b)>>, <<"next_act", Group(b)>>}
ColumnPath(b) == {<<"next_any_col", b>>, <<"next_col", ColumnScope(b)>>, <<"next_col", Group(b)>>}
CasPath(b) == {<<"next_col", ColumnScope(b)>>, <<"next_cas", WckBucket(b)>>}

FawReady(d, b) == Len(d.recent_acts[ActivationBucket(b)]) < 4
WckReady(d, b) == ~Lpddr \/ AlwaysOn \/ WckAllows(d, b)
LowPower(d) == d.power_down \/ d.self_refresh       \* low_power_mode is off: no automatic residency

CommandInit ==
    /\ spec \in DOMAIN Specs
    /\ dram = [gate |-> <<>>, open |-> [b \in SpecBanks |-> NoRow], activating |-> <<>>, active |-> {},
               recent_acts |-> ReplayInit.recent_acts, pairing |-> NoPairing, rising |-> FALSE,
               visited |-> [x \in {Bucket(Rank, b) : b \in SpecBanks} |-> {}],
               bank_count |-> [x \in {Bucket(Rank, b) : b \in SpecBanks} |-> 0],
               power_down |-> FALSE, self_refresh |-> FALSE, wck_retrain |-> FALSE, phy |-> "ready"]
    /\ replay = ReplayInit
    /\ device = [owed |-> <<>>, beats |-> [x \in {Bucket(PseudoChannel, b) : b \in SpecBanks} |-> {}],
                 held |-> {}, resynced |-> {}]
    /\ faults = {}

-----------------------------------------------------------------------------
(* The next command of a request                                             *)

\* CAS waits until the WCK window it opens is sure to cover the data command.
WindowCovers(d, r) ==
    LET data == IF r.cmd = "read" THEN "RD" ELSE "WR"
        bank == Ticks(d.gate, <<IF r.cmd = "read" THEN "next_rd" ELSE "next_wr", r.bank>>)
        table == {Ticks(d.gate, <<data, Bucket(scope, r.bank)>>) : scope \in HoldScopes[spec][data]}
        ready == Delay(Max({1, Timing.nCAS, Timing.nWCK2CK}))
    IN  Max({bank, ready} \cup table) < Delay(Max({Timing.nWCKPST, Timing.nWCK2CK + 1}))

PairIdle(d, b) ==
    \A c \in {b, Partner(b)} : ~Busy(d, c) /\ Open(d, {<<"next_act", c>>})

\* next_command, as the set of it: empty while there is none.
NextCommand(d, r) ==
    LET b == r.bank
        syncing == Ticks(d.gate, <<"wck_ready_at", WckBucket(b)>>) > 0
                       /\ Ticks(d.gate, <<"wck_active_until", WckBucket(b)>>) > 0
        auto == Specs[spec].auto_precharge
    IN  IF ~Ordinary(r)
        THEN CASE r.cmd \in {"REFab", "RFMab"} /\ RankBusy(d, b) -> {"PREab"}
               [] r.cmd \in {"REFpb", "REFdb", "RFMpb"} /\ Busy(d, b) -> {"PREpb"}
               [] r.cmd = "REFdb" /\ ~Busy(d, b) /\ ~PairIdle(d, b) /\ RankBusy(d, b) -> {"PREab"}
               [] OTHER -> {r.cmd}
        ELSE CASE OpenedRow(d, b, r.row) /\ ~WckReady(d, b) ->
                    IF syncing \/ ~WindowCovers(d, r) THEN {}
                    ELSE {IF r.cmd = "read" THEN "CAS_RD" ELSE "CAS_WR"}
               [] OpenedRow(d, b, r.row) /\ WckReady(d, b) ->
                    {IF r.cmd = "read" THEN IF auto THEN "RDA" ELSE "RD" ELSE IF auto THEN "WRA" ELSE "WR"}
               [] b \notin DOMAIN d.activating /\ d.open[b] \notin {NoRow, r.row} -> {"PREpb"}
               [] b \in DOMAIN d.activating -> IF r \in d.active THEN {"ACT2"} ELSE {}
               [] OTHER -> {IF ~Lpddr THEN "ACT" ELSE IF r \in d.active THEN "ACT2" ELSE "ACT1"}

-----------------------------------------------------------------------------
(* Whether it may go out                                                     *)

StateOk(d, cmd, r) ==
    LET b == r.bank
        closed == ~Busy(d, b)
        opened == b \notin DOMAIN d.activating /\ d.open[b] # NoRow
        hit == OpenedRow(d, b, r.row)
    IN  CASE cmd = "ACT" -> ~Lpddr /\ closed
          [] cmd = "ACT1" -> Lpddr /\ closed
          [] cmd = "ACT2" -> Lpddr /\ b \in DOMAIN d.activating /\ r \in d.active
          [] cmd = "PREpb" -> opened
          [] cmd = "PREab" -> RankBusy(d, b)
          [] cmd \in CasCommands -> Lpddr /\ hit /\ ~d.wck_retrain
          [] cmd \in DataCommands -> hit /\ (Lpddr => WckReady(d, b) /\ ~d.wck_retrain)
          [] cmd \in {"REFpb", "REFdb", "RFMpb"} -> closed
          [] cmd \in {"REFab", "RFMab"} -> ~RankBusy(d, b)
          [] cmd \in {"MRW", "MRR", "PDE"} -> ~ChannelBusy(d) /\ ~LowPower(d)
          [] cmd = "WCK_SYNC" -> Lpddr /\ ~LowPower(d) /\ ~d.wck_retrain
          [] cmd \in {"WCK_TRAIN", "DVFS"} -> Lpddr /\ ~ChannelBusy(d) /\ ~LowPower(d)
          [] cmd = "PDX" -> LowPower(d) /\ ~d.self_refresh
          [] cmd = "SREFEN" -> ~ChannelBusy(d) /\ ~d.self_refresh
          [] cmd = "SREFEX" -> d.self_refresh
          [] cmd = "ECC_SCRUB" -> Specs[spec].ecc /\ ~ChannelBusy(d) /\ ~LowPower(d)
          [] cmd = "RAS_ERR" -> Specs[spec].ecc \/ Specs[spec].link_protection

ConstraintReady(d, cmd, b) ==
    /\ TableAllows(d, cmd, b)
    /\ DualBank /\ cmd = "REFdb" => Open(d, {<<"ready", Bucket(Rank, b)>>}) /\ b \notin d.visited[Bucket(Rank, b)]

TimingOk(d, cmd, r) ==
    LET b == r.bank IN
    /\ StateOk(d, cmd, r)
    /\ ConstraintReady(d, cmd, b)
    /\ CASE cmd \in Activates ->
                /\ cmd = "ACT1" => RankMates(b) \cap DOMAIN d.activating = {}
                /\ Open(d, ActivatePath(b)) /\ FawReady(d, b)
         [] cmd = "ACT2" -> d.activating[b].next_act2 = 0 /\ Open(d, RowPath(b))
         [] cmd = "PREpb" -> Open(d, RowPath(b) \cup {<<"next_pre", b>>})
         [] cmd \in CasCommands \cup {"WCK_SYNC"} -> Open(d, CasPath(b))
         [] cmd \in Reads -> Open(d, ColumnPath(b) \cup {<<"next_rd", b>>})
         [] cmd \in Writes -> Open(d, ColumnPath(b) \cup {<<"next_wr", b>>})
         [] cmd \in {"REFpb", "RFMpb"} ->
                Open(d, RowPath(b) \cup {<<"next_act", b>>}) /\ (cmd = "REFpb" => FawReady(d, b))
         [] cmd = "REFdb" -> PairIdle(d, b) /\ Open(d, RowPath(b)) /\ FawReady(d, b)
         [] OTHER -> Open(d, RowPath(b))

\* Queued requests close no bank that has an active one; all-bank commands no bank of its rank.
ClosesActive(d, cmd, b) ==
    LET closed == IF cmd \in AllBankCommands THEN RankMates(b) ELSE {b}
    IN  /\ cmd \in {"PREpb", "REFpb", "REFdb", "RFMpb", "PREab", "REFab", "RFMab"}
        /\ \E a \in d.active : a.bank \in closed

BusMatches(d, cmd, b, bus) ==
    \/ bus = "unified"
    \/ /\ BusAllows(cmd, bus)
       /\ Specs[spec].edges /\ ~d.rising
              => bus = "row" /\ cmd \in Precharges /\ (StrictPairing => PairingAllows(d.pairing, cmd, b))

PhyAccepts(d, cmd) ==
    Behavioral => CASE d.phy = "training" -> cmd = "WCK_TRAIN"
                    [] d.phy = "low_power" -> cmd \in {"PDX", "SREFEX"}
                    [] OTHER -> TRUE

\* What the bus may carry next: the commands of active requests and of queued ones.
Ready(d, bus) ==
    {c \in UNION {{[cmd |-> cmd, req |-> r, active |-> r \in d.active] : cmd \in NextCommand(d, r)} : r \in Requests} :
        /\ BusMatches(d, c.cmd, c.req.bank, bus)
        /\ ~c.active => ~ClosesActive(d, c.cmd, c.req.bank)
        /\ TimingOk(d, c.cmd, c.req)
        /\ PhyAccepts(d, c.cmd)}

\* Fault: an ACT2 at its deadline is a candidate like any other.
NoUrgency(d, ready) == {}

\* pick_urgent_act2: an ACT2 at its deadline goes before anything else.
Urgent(d, ready) == {c \in ready : c.cmd = "ACT2" /\ d.activating[c.req.bank].deadline = 0}
Missed(d) == \E b \in DOMAIN d.activating : d.activating[b].deadline < 0

-----------------------------------------------------------------------------
(* Its execution                                                             *)

GateAt(name, x, ticks) == <<name, x>> :> ticks
Never == [x \in {} |-> 0]

\* What CommandExecutor::issue writes into the gates: some are set, others only raised.
AssignedBy(cmd, b) ==
    LET row(ticks) == GateAt("next_row", RowScope(b), ticks)
        col(ticks) == GateAt("next_col", ColumnScope(b), ticks)
        cas(ticks) == GateAt("next_cas", WckBucket(b), ticks)
        ready(ticks) == GateAt("wck_ready_at", WckBucket(b), ticks)
        until(ticks) == GateAt("wck_active_until", WckBucket(b), ticks)
        pause(cycles) == Delay(Max({1, cycles}))
        spacing == GateAt("next_any_col", b, Delay(Timing.nCCDL)) @@ col(Delay(Timing.nCCDS))
                       @@ GateAt("next_col", Group(b), Delay(Timing.nCCDL))
    IN  CASE cmd \in Activates ->
                GateAt("next_rd", b, Delay(Timing.nRCDRD)) @@ GateAt("next_wr", b, Delay(Timing.nRCDWR))
                    @@ GateAt("next_pre", b, Delay(Timing.nRAS)) @@ GateAt("next_act", b, Delay(Timing.nRC)) @@ row(1)
                    @@ GateAt("next_act", RowScope(b), Delay(Timing.nRRDS)) @@ GateAt("next_act", Group(b), Delay(Timing.nRRDL))
          [] cmd = "PREpb" -> GateAt("next_act", b, Delay(Timing.nRP)) @@ row(1)
          [] cmd \in CasCommands ->
                col(1) @@ cas(1) @@ ready(pause(Timing.nWCK2CK))
                    @@ until(Delay(Max({Timing.nWCKPST, Timing.nWCK2CK + 1})))
          [] cmd \in Reads -> spacing @@ GateAt("next_rd", b, Delay(Timing.nCCDL))
          [] cmd \in Writes -> spacing @@ GateAt("next_wr", b, Delay(Timing.nCCDL))
          [] cmd \in {"REFpb", "REFdb"} -> GateAt("next_act", b, Delay(Timing.nRFCpb)) @@ row(1)
          [] cmd = "RFMpb" ->
                GateAt("next_act", b, Delay(IF Timing.nRFMpb > 0 THEN Timing.nRFMpb ELSE Timing.nRFCpb)) @@ row(1)
          [] cmd = "WCK_SYNC" -> col(1) @@ cas(pause(Timing.nWCKSYNC)) @@ ready(pause(Timing.nWCKSYNC))
          [] cmd = "WCK_TRAIN" ->
                row(pause(Timing.nWCKTRAIN)) @@ cas(pause(Timing.nWCKTRAIN)) @@ ready(pause(Timing.nWCKTRAIN))
                    @@ until(pause(Timing.nWCKTRAIN) + pause(Timing.nWCKPST))
          [] cmd = "DVFS" -> row(pause(Timing.nDVFS)) @@ col(pause(Timing.nDVFS)) @@ cas(pause(Timing.nDVFS))
          [] OTHER ->
                row(CASE cmd = "MRW" -> pause(Timing.nMRW) [] cmd = "MRR" -> pause(Timing.nMRR)
                      [] cmd = "PDX" -> pause(Timing.nPDEX) [] cmd = "SREFEX" -> pause(Timing.nSREFEX)
                      [] cmd = "ECC_SCRUB" -> pause(Timing.nECCSCRUB) [] cmd = "RAS_ERR" -> pause(Timing.nRASERR)
                      [] OTHER -> 1)

RaisedBy(cmd, b) ==
    LET pre_at == Delay(IF cmd \in Reads THEN Timing.nRTP ELSE Timing.nCWL + Timing.nBL + Timing.nWR)
        latency == IF cmd \in Reads THEN Timing.nCL ELSE Timing.nCWL
        rank(ticks) == [x \in {<<"next_act", c>> : c \in RankMates(b)} |-> ticks]
        sync == Delay(Max({Timing.nWCKPST, Timing.nWCKSYNC + 1}))
    IN  CASE cmd \in DataCommands ->
                GateAt("next_pre", b, pre_at)
                    @@ (IF cmd \in {"RDA", "WRA"} THEN GateAt("next_act", b, pre_at + Delay(Timing.nRP)) ELSE Never)
                    @@ (IF Lpddr THEN GateAt("wck_active_until", WckBucket(b), Delay(latency + Timing.nBL + Timing.nWCKPST))
                        ELSE Never)
          [] cmd = "REFdb" -> GateAt("next_act", Partner(b), Delay(Timing.nRFCpb))
          [] cmd = "PREab" -> rank(Delay(IF Timing.nRPab > 0 THEN Timing.nRPab ELSE Timing.nRP))
          [] cmd = "REFab" -> rank(Delay(Timing.nRFC))
          [] cmd = "RFMab" -> rank(Delay(IF Timing.nRFMab > 0 THEN Timing.nRFMab ELSE Timing.nRFC))
          [] cmd = "WCK_SYNC" -> GateAt("wck_active_until", WckBucket(b), sync)
          [] cmd = "RAS_ERR" -> GateAt("next_col", ColumnScope(b), Delay(Max({1, Timing.nLINKRETRY})))
          [] OTHER -> Never

\* Banks opened, activating and closed; the active buffer, which a request enters with its ACT
\* and leaves with its data command.
Executed(d, cmd, r) ==
    LET b == r.bank IN
    [d EXCEPT
        !.open = CASE cmd \in {"ACT", "ACT2"} -> [@ EXCEPT ![b] = r.row]
                   [] cmd \in {"PREpb", "RDA", "WRA"} -> [@ EXCEPT ![b] = NoRow]
                   [] cmd = "PREab" -> [c \in SpecBanks |-> IF c \in RankMates(b) THEN NoRow ELSE @[c]]
                   [] OTHER -> @,
        !.activating =
            CASE cmd = "ACT1" -> @ @@ (b :> [row |-> r.row, next_act2 |-> Delay(Max({1, Timing.nAADMin})),
                                             deadline |-> Delay(Max({Timing.nAADMin, Timing.nAADMax}))])
              [] cmd \in {"ACT2", "PREpb"} -> WithoutActivation(d, {b})
              [] cmd = "PREab" -> WithoutActivation(d, RankMates(b))
              [] OTHER -> @,
        !.recent_acts[ActivationBucket(b)] =
            IF cmd \in FawEvents THEN Append(@, Delay(Max({1, Timing.nFAW}))) ELSE @,
        !.active = CASE cmd \in Activates /\ Cardinality(@) < Cardinality(SpecBanks) -> @ \cup {r}
                     [] cmd \in DataCommands -> @ \ {r}
                     [] OTHER -> @,
        !.gate = HeldAfter(Raised(Assigned(@, AssignedBy(cmd, b)), RaisedBy(cmd, b)), cmd, b)]

\* The refresh sweep of dual-bank refresh: apply_constraints.
Swept(d, cmd, b) ==
    LET x == Bucket(Rank, b)
        pairs == Cardinality(RankMates(b)) \div 2
        count == (d.bank_count[x] + 1) % pairs
        short == IF Timing.nREFDB2REFDBS > 0 THEN Timing.nREFDB2REFDBS ELSE Timing.nRRDL
        long == IF Timing.nREFDB2REFDBL > 0 THEN Timing.nREFDB2REFDBL ELSE short
    IN  CASE cmd = "REFdb" /\ DualBank ->
                [d EXCEPT !.visited[x] = IF count = 0 THEN {} ELSE @ \cup {b, Partner(b)},
                          !.bank_count[x] = count,
                          !.gate = Assigned(@, GateAt("ready", x, Delay(IF count = 0 THEN long ELSE short)))]
          [] cmd = "REFab" /\ DualBank ->
                [d EXCEPT !.visited[x] = {}, !.bank_count[x] = 0,
                          !.gate = Assigned(@, GateAt("ready", x, Delay(Timing.nRFC)))]
          [] cmd = "SREFEX" /\ DualBank ->
                [d EXCEPT !.visited = [y \in DOMAIN @ |-> {}], !.bank_count = [y \in DOMAIN @ |-> 0],
                          !.gate = Assigned(@, [y \in {<<"ready", z>> : z \in DOMAIN d.visited} |-> 0])]
          [] OTHER -> d

\* Low power, WCK training and the state of the PHY; the rising edge a precharge may be paired with.
Controlled(d, cmd, b, bus) ==
    [d EXCEPT
        !.power_down = IF cmd \in {"PDE", "PDX"} THEN cmd = "PDE" ELSE @,
        !.self_refresh = IF cmd \in {"SREFEN", "SREFEX"} THEN cmd = "SREFEN" ELSE @,
        !.wck_retrain = CASE cmd = "DVFS" /\ Retrains -> TRUE [] cmd = "WCK_TRAIN" -> FALSE [] OTHER -> @,
        !.phy = CASE cmd \in {"PDE", "SREFEN"} -> "low_power"
                  [] cmd \in {"PDX", "SREFEX", "WCK_TRAIN"} -> "ready"
                  [] cmd = "DVFS" /\ Retrains -> "training"
                  [] OTHER -> @,
        !.pairing = IF Specs[spec].edges /\ bus = "row" /\ d.rising THEN PairingAfter(cmd, b) ELSE @]

-----------------------------------------------------------------------------
(* The device's own measure of the commands                                  *)

Burst(cmd) ==
    LET first == Delay(IF cmd \in Reads THEN Timing.nCL ELSE Timing.nCWL)
    IN  first..(first + Delay(Timing.nBL) - 1)

\* What a command violates: a row closed before its time, a bank used before it has recovered, two
\* bursts at a time on a pseudo channel, or anything the validator reports.
Violations(d, v, o, cmd, r, bus) ==
    LET b == r.bank
        recovers == Activates \cup {"REFpb", "REFdb", "RFMpb"}
        excused == IF WckBucket(b) \in o.resynced THEN {"wck"} ELSE {}
    IN  (Objections(v, cmd, b, r.row, bus, d.rising) \ excused)
            \cup {e \in {"closed early", "opened early", "data bus"} :
                    CASE e = "closed early" -> cmd = "PREpb" /\ Ticks(o.owed, <<"close", b>>) > 0
                      [] e = "opened early" -> cmd \in recovers /\ Ticks(o.owed, <<"open", b>>) > 0
                      [] e = "data bus" ->
                            cmd \in DataCommands /\ Burst(cmd) \cap o.beats[Bucket(PseudoChannel, b)] # {}}

\* What the bank owes after a command before it may close, and before it may open again.
OwedBy(cmd, b) ==
    LET recovery == Delay(CASE cmd \in Activates -> Timing.nRAS
                            [] cmd \in Reads -> Timing.nRTP
                            [] OTHER -> Timing.nCWL + Timing.nBL + Timing.nWR)
        closed(ticks) == [x \in {<<"open", c>> : c \in RankMates(b)} |-> ticks]
    IN  CASE cmd \in Activates -> GateAt("close", b, recovery) @@ GateAt("open", b, Delay(Timing.nRC))
          [] cmd \in {"RD", "WR"} -> GateAt("close", b, recovery)
          [] cmd \in {"RDA", "WRA"} -> GateAt("open", b, recovery + Delay(Timing.nRP))
          [] cmd = "PREpb" -> GateAt("open", b, Delay(Timing.nRP))
          [] cmd = "PREab" -> closed(Delay(Max({Timing.nRP, Timing.nRPab})))
          [] cmd = "REFpb" -> GateAt("open", b, Delay(Timing.nRFCpb))
          [] cmd = "REFdb" -> GateAt("open", b, Delay(Timing.nRFCpb)) @@ GateAt("open", Partner(b), Delay(Timing.nRFCpb))
          [] cmd \in {"REFab", "RFMab"} -> closed(Delay(IF cmd = "REFab" THEN Timing.nRFC ELSE Timing.nRFMab))
          [] OTHER -> Never

Measured(d, o, cmd, r) ==
    LET b == r.bank
        w == WckBucket(b)
        window == Ticks(d.gate, <<"wck_active_until", w>>)
    IN  [o EXCEPT
            !.owed = Raised(@, OwedBy(cmd, b)),
            !.beats[Bucket(PseudoChannel, b)] = IF cmd \in DataCommands THEN @ \cup Burst(cmd) ELSE @,
            !.held = CASE cmd \in {"RAS_ERR", "PDX", "SREFEX"} -> @ \cup DOMAIN d.activating
                       [] cmd = "ACT2" -> @ \ {b}
                       [] OTHER -> @,
            !.resynced = CASE cmd = "WCK_SYNC" /\ window > 0 -> @ \cup {w}
                           [] cmd \in CasCommands \cup {"WCK_TRAIN"} -> @ \ {w}
                           [] OTHER -> @]

-----------------------------------------------------------------------------

State == [dram |-> dram, replay |-> replay, device |-> device, faults |-> faults]

Issue(s, c, bus) ==
    LET cmd == c.cmd
        b == c.req.bank
        swept == Swept(Executed(s.dram, cmd, c.req), cmd, b)
    IN  [dram |-> Controlled(swept, cmd, b, bus),
         replay |-> Replayed(s.replay, cmd, b, c.req.row, bus, s.dram.rising),
         device |-> Measured(s.dram, s.device, cmd, c.req),
         faults |-> s.faults \cup Violations(s.dram, s.replay, s.device, cmd, c.req, bus)]

\* A command, or none, on a bus.
Served(s, bus) ==
    LET ready == Ready(s.dram, bus)
        urgent == Urgent(s.dram, ready)
    IN  IF bus # "column" /\ urgent # {} THEN {Issue(s, c, bus) : c \in urgent}
        ELSE {s} \cup {Issue(s, c, bus) : c \in ready}

Clocked ==
    [dram |-> [Aged(dram) EXCEPT !.rising = Specs[spec].edges => ~@],
     replay |-> Aged(replay),
     device |-> [device EXCEPT !.owed = OpenIn(@, 1), !.beats = [x \in DOMAIN @ |-> {n - 1 : n \in @[x] \ {0}}]],
     faults |-> faults]

\* Controller::tick. HBM has a column bus, on rising edges, and a row bus; LPDDR one for both. An
\* ACT2 that missed its deadline ends the run with an exception.
Tick ==
    /\ ~Missed(dram)
    /\ LET columns == IF Specs[spec].edges /\ ~Clocked.dram.rising THEN {Clocked} ELSE Served(Clocked, "column")
           after == CASE Missed(Clocked.dram) -> {Clocked}
                      [] ~Lpddr -> UNION {Served(s, "row") : s \in columns}
                      [] OTHER -> Served(Clocked, "unified")
       IN  \E s \in after :
              /\ dram' = s.dram /\ replay' = s.replay
              /\ device' = s.device /\ faults' = s.faults
    /\ UNCHANGED spec

-----------------------------------------------------------------------------
\* The validator accepts every command the controller issues, in any order the scheduler may take:
\* the one exception is a window of WCK that a WCK_SYNC inside it does not shorten (controller.cpp
\* timing_ok and issue, executor.cpp, against validator.cpp).
ReplayAccepts == faults \cap {"sweep", "bus", "edge", "state", "table", "faw", "wck"} = {}

\* No precharge or auto-precharge closes a row before its tRAS, read-to-precharge or write recovery is
\* over, and no ACT, per-bank refresh or RFM finds a bank that has not recovered (timing.cpp, executor.cpp).
RowsRecover == faults \cap {"closed early", "opened early"} = {}

\* The bursts of two data commands never meet on a pseudo channel's data bus (the tables of spec.cpp).
DataBusExclusive == "data bus" \notin faults

\* An ACT2 goes out by its deadline unless a command that holds the row bus for longer, which the
\* scheduler does not weigh against it, was let in after the ACT1 (controller.cpp pick_urgent_act2).
Act2InTime == \A b \in DOMAIN dram.activating : dram.activating[b].deadline < 0 => b \in device.held

\* The validator's copy of banks, activations, windows, flags and constraint table is the controller's.
ReplayAgrees ==
    /\ \A f \in {"open", "activating", "recent_acts", "power_down", "self_refresh", "wck_retrain"} :
            replay[f] = dram[f]
    /\ \A x \in DOMAIN replay.refreshed :
            replay.refreshed[x] = dram.visited[x]
                /\ Ticks(replay.gate, <<"refresh_next", x>>) = Ticks(dram.gate, <<"ready", x>>)

\* The PHY stands in low power exactly while the controller holds a low-power flag, and in training
\* while WCK has to be retrained (mem_phy.cpp accept_command, controller.cpp issue).
PhyAgrees ==
    /\ dram.phy = "low_power" <=> LowPower(dram)
    /\ dram.phy = "training" <=> dram.wck_retrain
=============================================================================
