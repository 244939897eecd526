---------------------------- MODULE CommandReplay ----------------------------
(***************************************************************************)
(* The DRAM commands of mem_sim and what may follow what, and when: the      *)
(* command classes (src/mem_sim/src/dram/semantics.cpp), the scopes of a     *)
(* bank's address and the tables of timing constraints of the HBM and LPDDR  *)
(* standards (src/mem_sim/src/dram/spec.cpp), which the controller's timing  *)
(* engine and the off-line validator both read.                             *)
(*                                                                         *)
(* And that validator (src/mem_sim/src/validation/validator.cpp): it replays *)
(* the commands a controller issued on its own copy of the bank, timing and  *)
(* control state and records an error for each that the state does not       *)
(* allow.  Replayed is one command.                                         *)
(*                                                                         *)
(* A bank is <<pseudo channel, SID, rank, bank group, bank>> in the one      *)
(* channel of a controller; the scope bucket it lies in is a prefix of that. *)
(* A cycle is kept as the ticks until it, so Aged is the passing of a tick.  *)
(***************************************************************************)
EXTENDS Integers, Sequences, FiniteSets, FiniteSetsExt, TLC

CONSTANT Specs      \* the DramSpecs to consider, by name: records of the fields below
VARIABLE spec       \* the name of the one in use

Lpddr == Specs[spec].lpddr                  \* lpddr_family; HBM otherwise. Split activation is LPDDR's
DualBank == Specs[spec].dual_bank           \* lpddr_dual_bank_refresh
StrictPairing == Specs[spec].pairing        \* hbm_strict_edge_pairing
AlwaysOn == Specs[spec].always_on           \* lpddr_wck_mode
Retrains == Specs[spec].retrains            \* lpddr_requires_wck_retrain_after_dvfs
Timing == Specs[spec].timing
SpecBanks == Specs[spec].banks

\* Clock cycles of the device in ticks of the controller (timing_delay).
Delay(n) == IF n <= 0 THEN 0 ELSE n * Specs[spec].tick_multiplier

-----------------------------------------------------------------------------
(* Classes of commands                                                       *)

Reads == {"RD", "RDA"}
Writes == {"WR", "WRA"}
DataCommands == Reads \cup Writes
CasCommands == {"CAS_RD", "CAS_WR"}
ColumnCommands == DataCommands \cup CasCommands \cup {"WCK_SYNC"}
Activates == {"ACT", "ACT1"}
ControlCommands == {"MRW", "MRR", "WCK_TRAIN", "DVFS", "PDE", "PDX", "SREFEN", "SREFEX", "ECC_SCRUB", "RAS_ERR"}
AllBankCommands == {"PREab", "REFab", "RFMab"} \cup ControlCommands
RowCommands == AllBankCommands \cup Activates \cup {"ACT2", "PREpb", "REFpb", "REFdb", "RFMpb"}

\* The other bank of a REFdb: the same bank of the adjacent bank group.
Partner(b) == [b EXCEPT ![4] = IF b[4] % 2 = 0 THEN b[4] + 1 ELSE b[4] - 1]

-----------------------------------------------------------------------------
(* Scopes                                                                    *)

Channel == 0
PseudoChannel == 1
Sid == 2
Rank == 3
BankGroup == 4
Bank == 5

Bucket(scope, b) == SubSeq(b, 1, scope)
RankMates(b) == {c \in SpecBanks : Bucket(Rank, c) = Bucket(Rank, b)}

\* The other buckets in the same next larger scope, among those of banks.
Siblings(scope, b, banks) ==
    {Bucket(scope, c) : c \in {d \in banks : Bucket(scope - 1, d) = Bucket(scope - 1, b)}} \ {Bucket(scope, b)}

-----------------------------------------------------------------------------
(* Timing constraints: after a command of before, one of after in the same   *)
(* bucket (or in a sibling of it) waits for latency                          *)

Gap(scope, before, after, latency) ==
    [scope |-> scope, before |-> before, after |-> after, latency |-> latency, sibling |-> FALSE]
SiblingGap(scope, before, after, latency) == [Gap(scope, before, after, latency) EXCEPT !.sibling = TRUE]

Precharges == {"PREpb", "PREab"}

HbmConstraints(t) ==
    LET nccdr == IF t.nCCDR > 0 THEN t.nCCDR ELSE t.nCCDS
        nrrefd == IF t.nRREFD > 0 THEN t.nRREFD ELSE t.nRFCpb
        modes == {"ACT", "RD", "WR", "MRW", "MRR"}
    IN  {Gap(PseudoChannel, Reads, Reads, t.nBL),
         Gap(PseudoChannel, Writes, Writes, t.nBL),
         Gap(PseudoChannel, Reads, Writes, t.nRTW),
         Gap(PseudoChannel, Writes, Reads, t.nCWL + t.nBL + t.nWTRS),
         Gap(PseudoChannel, {"ACT"}, {"ACT"}, t.nRRDS),
         Gap(Sid, Reads, Reads, t.nCCDS),
         SiblingGap(Sid, Reads, Reads, nccdr),
         Gap(Sid, Writes, Writes, t.nCCDS),
         Gap(BankGroup, Reads, Reads, t.nCCDL),
         Gap(BankGroup, Writes, Writes, t.nCCDL),
         Gap(BankGroup, Writes, Reads, t.nCWL + t.nBL + t.nWTRL),
         Gap(BankGroup, {"ACT"}, {"ACT"}, t.nRRDL),
         Gap(PseudoChannel, Precharges, Precharges, t.nPPD),
         Gap(Bank, {"ACT"}, {"ACT"}, t.nRC),
         Gap(Bank, {"ACT"}, Reads, t.nRCDRD),
         Gap(Bank, {"ACT"}, Writes, t.nRCDWR),
         Gap(Bank, {"ACT"}, {"PREpb"}, t.nRAS),
         Gap(Bank, {"PREpb"}, {"ACT"}, t.nRP),
         Gap(Bank, {"RD"}, {"PREpb"}, t.nRTP),
         Gap(Bank, {"WR"}, {"PREpb"}, t.nCWL + t.nBL + t.nWR),
         Gap(Bank, {"REFpb"}, {"ACT"}, t.nRFCpb),
         Gap(PseudoChannel, {"REFpb"}, {"ACT"}, nrrefd),
         Gap(PseudoChannel, {"REFab"}, {"ACT", "PREpb", "REFpb"}, t.nRFC),
         Gap(Bank, {"RFMpb"}, {"ACT"}, t.nRFMpb),
         Gap(PseudoChannel, {"RFMab"}, {"ACT", "PREpb", "RFMpb"}, t.nRFMab),
         Gap(Channel, {"MRW"}, modes, t.nMRW),
         Gap(Channel, {"MRR"}, modes, t.nMRR),
         Gap(Channel, {"ECC_SCRUB", "RAS_ERR"}, {"ACT", "REFpb", "RFMpb", "MRW", "MRR"},
             Max({t.nECCSCRUB, t.nRASERR})),
         Gap(Channel, {"RAS_ERR"}, {"RD", "WR"}, t.nLINKRETRY)}

LpddrConstraints(t) ==
    LET nrefdb2act == IF t.nREFDB2ACT > 0 THEN t.nREFDB2ACT ELSE IF t.nRREFD > 0 THEN t.nRREFD ELSE t.nRRDS
        nrfmpb == IF t.nRFMpb > 0 THEN t.nRFMpb ELSE t.nRFCpb
        nrfmab == IF t.nRFMab > 0 THEN t.nRFMab ELSE t.nRFC
        opening == {"ACT1"} \cup CasCommands
    IN  {Gap(Channel, Reads, Reads, t.nBL),
         Gap(Channel, Writes, Writes, t.nBL),
         Gap(Bank, {"CAS_RD"}, Reads, t.nCAS),
         Gap(Bank, {"CAS_WR"}, Writes, t.nCAS),
         Gap(Rank, Reads, Reads, t.nCCDS),
         Gap(Rank, Writes, Writes, t.nCCDS),
         Gap(Rank, Reads, Writes, t.nCL + t.nBL + 2 - t.nCWL),
         Gap(Rank, Writes, Reads, t.nCWL + t.nBL + t.nWTRS),
         Gap(Rank, {"ACT1"}, {"ACT1"}, t.nRRDS),
         Gap(BankGroup, Reads, Reads, t.nCCDL),
         Gap(BankGroup, Writes, Writes, t.nCCDL),
         Gap(BankGroup, Writes, Reads, t.nCWL + t.nBL + t.nWTRL),
         Gap(BankGroup, {"ACT1"}, {"ACT1"}, t.nRRDL),
         Gap(Channel, Precharges, Precharges, t.nPPD),
         Gap(Bank, {"ACT1"}, {"ACT1"}, t.nRC),
         Gap(Bank, {"ACT1"}, Reads, t.nRCDRD),
         Gap(Bank, {"ACT1"}, Writes, t.nRCDWR),
         Gap(Bank, {"ACT1"}, {"PREpb"}, t.nRAS),
         Gap(Bank, {"PREpb"}, {"ACT1", "REFdb"}, t.nRP),
         Gap(Rank, {"PREab"}, {"REFdb"}, t.nRPab),
         Gap(Bank, {"RD"}, {"PREpb"}, t.nRTP),
         Gap(Bank, {"WR"}, {"PREpb"}, t.nCWL + t.nBL + t.nWR),
         Gap(Bank, {"REFpb", "REFdb"}, {"ACT1"}, t.nRFCpb),
         Gap(Bank, {"RFMpb"}, {"ACT1"}, nrfmpb),
         Gap(PseudoChannel, {"REFdb", "RFMpb"}, {"ACT1"}, nrefdb2act),
         Gap(Bank, {"REFdb"}, {"REFdb"}, t.nRFCpb),
         Gap(Rank, {"REFdb"}, {"REFab"}, t.nRFCpb),
         Gap(Rank, {"REFab"}, {"REFdb", "REFab", "ACT1", "PREab"}, t.nRFC),
         Gap(PseudoChannel, {"RFMpb"}, {"RFMpb"}, t.nRRDL),
         Gap(Rank, {"RFMab"}, {"ACT1", "PREab", "RFMpb"}, nrfmab),
         Gap(Channel, {"MRW"}, opening \cup {"MRW", "MRR"}, t.nMRW),
         Gap(Channel, {"MRR"}, opening \cup {"MRW", "MRR"}, t.nMRR),
         Gap(PseudoChannel, {"WCK_SYNC"}, {"RD", "WR"}, t.nWCKSYNC),
         Gap(Channel, {"WCK_TRAIN"}, opening, t.nWCKTRAIN),
         Gap(Channel, {"DVFS"}, opening \cup {"MRW"}, t.nDVFS),
         Gap(Channel, {"PDE", "PDX"}, opening, t.nPDEX),
         Gap(Channel, {"SREFEN", "SREFEX"}, {"ACT1", "REFdb", "RFMpb"}, t.nSREFEX),
         Gap(Channel, {"ECC_SCRUB", "RAS_ERR"}, opening \cup {"REFdb", "RFMpb"}, Max({t.nECCSCRUB, t.nRASERR}))}

\* finalize_spec: the table of each spec.
Constraints ==
    [s \in DOMAIN Specs |->
        {c \in IF Specs[s].lpddr THEN LpddrConstraints(Specs[s].timing) ELSE HbmConstraints(Specs[s].timing) :
            c.latency > 0}]

\* What a command on a bank holds back: <<following command, bucket>> -> ticks. Of several
\* constraints the latest holds.
Holds ==
    [s \in DOMAIN Specs |->
        [cmd \in RowCommands \cup ColumnCommands, b \in Specs[s].banks |->
            LET held == UNION {{<<a, x, c.latency * Specs[s].tick_multiplier>> : a \in c.after,
                        x \in IF c.sibling THEN Siblings(c.scope, b, Specs[s].banks) ELSE {Bucket(c.scope, b)}} :
                            c \in {d \in Constraints[s] : cmd \in d.before}}
            IN  [x \in {<<h[1], h[2]>> : h \in held} |-> Max({h[3] : h \in {g \in held : <<g[1], g[2]>> = x}})]]]

\* The scopes in which something may hold a command back.
HoldScopes ==
    [s \in DOMAIN Specs |->
        [cmd \in RowCommands \cup ColumnCommands |-> {c.scope : c \in {d \in Constraints[s] : cmd \in d.after}}]]

-----------------------------------------------------------------------------
(* The replay                                                                *)

Sooner(n) == IF n > 0 THEN n - 1 ELSE 0

\* Gates are a partial function from what is gated to the ticks to go: an open gate is not in its domain.
Ticks(gate, x) == IF x \in DOMAIN gate THEN gate[x] ELSE 0
OpenIn(gate, n) == [x \in {y \in DOMAIN gate : gate[y] > n} |-> gate[x] - n]
Assigned(gate, new) ==
    LET all == [x \in DOMAIN gate \cup DOMAIN new |-> IF x \in DOMAIN new THEN new[x] ELSE gate[x]]
                  IN  OpenIn(all, 0)
Raised(gate, new) == Assigned(gate, [x \in DOMAIN new |-> Max({new[x], Ticks(gate, x)})])

NoRow == 0

\* The row command of the last rising edge and the ticks to the falling edge it is paired with.
NoPairing == [cmd |-> "NOP", bank |-> <<>>, falling |-> -1]
PairingAfter(cmd, b) == [cmd |-> cmd, bank |-> b, falling |-> IF cmd = "ACT" THEN 3 ELSE 1]

ReplayInit ==
    [open |-> [b \in SpecBanks |-> NoRow],          \* open_row
     activating |-> <<>>,                       \* bank -> [row, next_act2, deadline] after an ACT1
     gate |-> <<>>,                             \* next_command, wck_ready_at, wck_active_until, refresh_next
     recent_acts |-> [x \in {Bucket(Specs[spec].activation_scope, b) : b \in SpecBanks} |-> <<>>],
     power_down |-> FALSE, self_refresh |-> FALSE, wck_retrain |-> FALSE,
     pairing |-> NoPairing,
     refreshed |-> [x \in {Bucket(Rank, b) : b \in SpecBanks} |-> {}]]      \* with refresh_bank_count

Aged(v) ==
    [v EXCEPT
        !.gate = OpenIn(@, 1),
        !.activating = [b \in DOMAIN @ |-> [@[b] EXCEPT !.next_act2 = Sooner(@), !.deadline = @ - 1]],
        !.recent_acts = [x \in DOMAIN @ |-> SelectSeq([i \in DOMAIN @[x] |-> @[x][i] - 1], LAMBDA n : n > 0)],
        !.pairing = IF @.falling > 0 THEN [@ EXCEPT !.falling = @ - 1] ELSE NoPairing]

Busy(v, b) == b \in DOMAIN v.activating \/ v.open[b] # NoRow
OpenedRow(v, b, row) == b \notin DOMAIN v.activating /\ v.open[b] = row
ChannelBusy(v) == \E b \in SpecBanks : Busy(v, b)
RankBusy(v, b) == \E c \in RankMates(b) : Busy(v, c)
WithoutActivation(v, banks) == [b \in DOMAIN v.activating \ banks |-> v.activating[b]]

-----------------------------------------------------------------------------
(* What a command requires of the replayed state                             *)

StateLegal(v, cmd, b, row) ==
    CASE cmd = "ACT" -> ~Lpddr /\ ~Busy(v, b)
      [] cmd = "ACT1" -> /\ Lpddr /\ ~Busy(v, b)
                         /\ RankMates(b) \cap DOMAIN v.activating = {}
      [] cmd = "ACT2" -> /\ Lpddr /\ b \in DOMAIN v.activating
                         /\ LET a == v.activating[b] IN a.row = row /\ a.next_act2 = 0 /\ a.deadline >= 0
      [] cmd = "PREpb" -> b \notin DOMAIN v.activating /\ v.open[b] # NoRow
      [] cmd = "PREab" -> RankBusy(v, b)
      [] cmd \in CasCommands -> Lpddr /\ OpenedRow(v, b, row) /\ ~v.wck_retrain
      [] cmd \in DataCommands -> OpenedRow(v, b, row) /\ ~v.wck_retrain
      [] cmd \in {"REFpb", "RFMpb"} -> ~Busy(v, b)
      [] cmd = "REFdb" -> DualBank /\ ~Busy(v, b) /\ ~Busy(v, Partner(b))
      [] cmd \in {"REFab", "RFMab"} -> ~RankBusy(v, b)
      [] cmd \in {"MRW", "MRR", "PDE"} -> ~ChannelBusy(v) /\ ~v.power_down /\ ~v.self_refresh
      [] cmd = "WCK_SYNC" -> Lpddr /\ ~v.self_refresh /\ ~v.wck_retrain
      [] cmd = "WCK_TRAIN" -> Lpddr /\ ~ChannelBusy(v) /\ ~v.power_down /\ ~v.self_refresh
      [] cmd = "DVFS" -> Lpddr /\ ~ChannelBusy(v)
      [] cmd = "PDX" -> v.power_down
      [] cmd = "SREFEN" -> ~ChannelBusy(v) /\ ~v.self_refresh
      [] cmd = "SREFEX" -> v.self_refresh
      [] cmd = "ECC_SCRUB" -> Specs[spec].ecc /\ ~ChannelBusy(v)
      [] cmd = "RAS_ERR" -> Specs[spec].ecc \/ Specs[spec].link_protection

TableAllows(v, cmd, b) ==
    \A scope \in HoldScopes[spec][cmd] :
        /\ Ticks(v.gate, <<cmd, Bucket(scope, b)>>) = 0
        /\ cmd = "REFdb" /\ DualBank /\ scope = Bank => Ticks(v.gate, <<cmd, Partner(b)>>) = 0

\* REFdb keeps its interval and repeats no bank before the sweep of its rank is complete.
SweepAllows(v, b) ==
    /\ Ticks(v.gate, <<"refresh_next", Bucket(Rank, b)>>) = 0
    /\ v.refreshed[Bucket(Rank, b)] \cap {b, Partner(b)} = {}

FawEvents == Activates \cup {"REFpb", "REFdb"}
ActivationBucket(b) == Bucket(Specs[spec].activation_scope, b)
WckBucket(b) == Bucket(Specs[spec].wck_scope, b)

WckAllows(v, b) ==
    /\ Ticks(v.gate, <<"wck_ready_at", WckBucket(b)>>) = 0
    /\ Ticks(v.gate, <<"wck_active_until", WckBucket(b)>>) > 0

\* HBM: columns and all but precharges go out on rising edges, and a precharge on the falling edge
\* paired with a row command is of another bank, in the same pseudo channel.
BankKey(b) == <<b[2], b[4], b[5]>>
PairingAllows(p, cmd, b) ==
    p.falling = 0 /\ p.bank # <<>> /\ p.bank[1] = b[1]
        => p.cmd \notin AllBankCommands /\ cmd = "PREpb" /\ BankKey(b) # BankKey(p.bank)
EdgeAllows(v, cmd, b, rising) ==
    ~rising => cmd \in Precharges /\ (StrictPairing => PairingAllows(v.pairing, cmd, b))
BusAllows(cmd, bus) == cmd \in (IF bus = "row" THEN RowCommands ELSE ColumnCommands)

Objections(v, cmd, b, row, bus, rising) ==
    {e \in {"sweep", "bus", "edge", "state", "table", "faw", "wck"} :
        CASE e = "sweep" -> DualBank /\ cmd = "REFdb" /\ ~SweepAllows(v, b)
          [] e = "bus" -> ~Lpddr /\ ~BusAllows(cmd, bus)
          [] e = "edge" -> Specs[spec].edges /\ ~EdgeAllows(v, cmd, b, rising)
          [] e = "state" -> ~StateLegal(v, cmd, b, row)
          [] e = "table" -> ~TableAllows(v, cmd, b)
          [] e = "faw" -> cmd \in FawEvents /\ Len(v.recent_acts[ActivationBucket(b)]) >= 4
          [] e = "wck" -> Lpddr /\ ~AlwaysOn /\ cmd \in DataCommands /\ ~WckAllows(v, b)}

-----------------------------------------------------------------------------
(* The replay of a command                                                   *)

WithBanks(v, cmd, b, row) ==
    CASE cmd = "ACT" -> [v EXCEPT !.open[b] = row, !.activating = WithoutActivation(v, {b})]
      [] cmd = "ACT1" ->
            [v EXCEPT !.open[b] = NoRow,
                      !.activating = [c \in DOMAIN @ \cup {b} |->
                          IF c # b THEN @[c]
                          ELSE [row |-> row, next_act2 |-> Delay(Max({1, Timing.nAADMin})),
                                deadline |-> Delay(Max({Timing.nAADMin, Timing.nAADMax}))]]]
      [] cmd = "ACT2" -> [v EXCEPT !.open[b] = row, !.activating = WithoutActivation(v, {b})]
      [] cmd = "PREpb" -> [v EXCEPT !.open[b] = NoRow, !.activating = WithoutActivation(v, {b})]
      [] cmd = "PREab" -> [v EXCEPT !.open = [c \in SpecBanks |-> IF c \in RankMates(b) THEN NoRow ELSE @[c]],
                                    !.activating = WithoutActivation(v, RankMates(b))]
      [] cmd \in {"RDA", "WRA"} -> [v EXCEPT !.open[b] = NoRow]
      [] OTHER -> v

WithControl(v, cmd) ==
    CASE cmd = "WCK_TRAIN" -> [v EXCEPT !.wck_retrain = FALSE]
      [] cmd = "DVFS" -> [v EXCEPT !.wck_retrain = @ \/ Retrains]
      [] cmd \in {"PDE", "PDX"} -> [v EXCEPT !.power_down = cmd = "PDE"]
      [] cmd \in {"SREFEN", "SREFEX"} -> [v EXCEPT !.self_refresh = cmd = "SREFEN"]
      [] OTHER -> v

WithSweep(v, cmd, b) ==
    LET r == Bucket(Rank, b)
        swept == v.refreshed[r] \cup {b, Partner(b)}
        whole == swept = RankMates(b)
        short == IF Timing.nREFDB2REFDBS > 0 THEN Timing.nREFDB2REFDBS ELSE Timing.nRRDL
        gap == IF whole /\ Timing.nREFDB2REFDBL > 0 THEN Timing.nREFDB2REFDBL ELSE short
    IN  CASE ~DualBank -> v
          [] cmd = "REFdb" -> [v EXCEPT !.refreshed[r] = IF whole THEN {} ELSE swept,
                                        !.gate = Assigned(@, (<<"refresh_next", r>> :> Delay(gap)))]
          [] cmd = "REFab" -> [v EXCEPT !.refreshed[r] = {},
                                        !.gate = Assigned(@, (<<"refresh_next", r>> :> Delay(Timing.nRFC)))]
          [] cmd = "SREFEX" -> [v EXCEPT !.refreshed = [x \in DOMAIN @ |-> {}],
                                         !.gate = Assigned(@, [x \in {<<"refresh_next", y>> : y \in DOMAIN v.refreshed} |-> 0])]
          [] OTHER -> v

WithWck(v, cmd, b) ==
    LET ready == <<"wck_ready_at", WckBucket(b)>>
        until == <<"wck_active_until", WckBucket(b)>>
        sync == IF cmd = "WCK_SYNC" THEN Timing.nWCKSYNC ELSE Timing.nWCK2CK
        trained == Delay(Max({1, Timing.nWCKTRAIN}))
    IN  CASE ~Lpddr \/ AlwaysOn -> v
          [] cmd \in CasCommands \cup {"WCK_SYNC"} ->
                [v EXCEPT !.gate = Assigned(@, (ready :> Delay(Max({1, sync})) @@ until :> Delay(Max({Timing.nWCKPST, sync + 1}))))]
          [] cmd = "WCK_TRAIN" ->
                [v EXCEPT !.gate = Assigned(@, (ready :> trained @@ until :> trained + Delay(Max({1, Timing.nWCKPST}))))]
          [] cmd \in Reads -> [v EXCEPT !.gate = Raised(@, until :> Delay(Timing.nCL + Timing.nBL + Timing.nWCKPST))]
          [] cmd \in Writes -> [v EXCEPT !.gate = Raised(@, until :> Delay(Timing.nCWL + Timing.nBL + Timing.nWCKPST))]
          [] OTHER -> v

WithWindow(v, cmd, b) ==
    IF cmd \in FawEvents
    THEN [v EXCEPT !.recent_acts[ActivationBucket(b)] = Append(@, Delay(Max({1, Timing.nFAW})))]
    ELSE v

WithPairing(v, cmd, b, bus, rising) ==
    IF Specs[spec].edges /\ rising /\ bus = "row" /\ cmd \in RowCommands
    THEN [v EXCEPT !.pairing = PairingAfter(cmd, b)]
    ELSE v

\* apply_constraints and its copy: what cmd holds back from now on.
HeldAfter(gate, cmd, b) ==
    LET both == Raised(gate, Holds[spec][cmd, b])
        partner == Holds[spec][cmd, Partner(b)]
    IN  IF cmd = "REFdb" /\ DualBank
        THEN Raised(both, [x \in {y \in DOMAIN partner : Len(y[2]) = Bank} |-> partner[x]])
        ELSE both

Replayed(v, cmd, b, row, bus, rising) ==
    LET paired == WithPairing(WithSweep(v, cmd, b), cmd, b, bus, rising)
        stated == WithControl(WithBanks(paired, cmd, b, row), cmd)
    IN  [WithWck(WithWindow(stated, cmd, b), cmd, b) EXCEPT !.gate = HeldAfter(@, cmd, b)]
=============================================================================
