------------------------------ MODULE MCMemSim ------------------------------
(***************************************************************************)
(* The parts of mem_sim: the controllers' queues, the activation counters  *)
(* of RFM, the refresh ledger, the commands that go out to the DRAM, the   *)
(* system that feeds the controllers and collects their responses, the     *)
(* streams and loops that feed the system, and the address map.  part,     *)
(* chosen at the start, says which of them a behaviour runs; the others    *)
(* stay as they are.                                                       *)
(***************************************************************************)
EXTENDS MemController, RfmCounters, AddressMap

VARIABLES
    part,
    rank_count, rank_bank, rank_all, rank_queue,    \* RfmCounters, the all-bank policy
    manager, rank_states, rank_cursor, age,     \* RefreshDebt; manager is its configuration
    system, ms, offer, made, latest, taken,     \* MemorySystem; system is its configuration
    spec, dram, replay, device, faults,         \* CommandTiming
    feeding, stream, clk, phase, request, source_done, last_inject_cycle, submitted, accepted, inside, held, remaining
                                                \* Frontend

rankState == <<rank_count, rank_bank, rank_all, rank_queue>>
refreshState == <<manager, rank_states, rank_cursor, age>>
systemState == <<system, ms, offer, made, latest, taken>>
commandState == <<spec, dram, replay, device, faults>>
feedState ==
    <<feeding, stream, clk, phase, request, source_done, last_inject_cycle, submitted, accepted, inside, held, remaining>>

\* Requests to two or four lines of two bytes.
Access(write, addr, len) == [write |-> write, addr |-> addr, len |-> len, masked |-> FALSE, mask |-> {}]
Masked(addr, len, mask) == [write |-> TRUE, addr |-> addr, len |-> len, masked |-> TRUE, mask |-> mask]

\* Whole lines are written and a single byte is read; both lines are in one bank.  The
\* configuration for liveness, too.
Lines ==
    [kinds |-> {Access(TRUE, 0, 2), Access(TRUE, 2, 2), Access(FALSE, 1, 1)}, banks |-> 1,
     behavioral |-> TRUE, dual_bus |-> TRUE, fr_fcfs |-> TRUE, row_policy |-> "open", cap |-> 1,
     high |-> 1, low |-> 1, maintenance |-> {[cmd |-> "REFPB", bank |-> 0]}, max_maintenance |-> 1]
\* Four lines in two banks, accessed whole, with refresh of all banks.
TwoBanks ==
    [Lines EXCEPT !.banks = 2,
                  !.kinds = {Access(TRUE, 0, 2), Access(FALSE, 0, 2), Access(TRUE, 4, 2), Access(FALSE, 2, 2)},
                  !.maintenance = {[cmd |-> "REFAB", bank |-> 0]}]
\* A line is written whole and in part, and read, without PHY queues, in order of arrival.
Direct ==
    [Lines EXCEPT !.behavioral = FALSE, !.dual_bus = FALSE, !.fr_fcfs = FALSE, !.row_policy = "cap",
                  !.kinds = {Access(TRUE, 0, 2), Masked(0, 2, {0}), Masked(0, 2, {1}),
                             Access(FALSE, 0, 2)}]
\* Writes of different starts that overlap, one of them shorter than the other at its start, and reads.
Overlaps ==
    [Direct EXCEPT !.fr_fcfs = TRUE, !.row_policy = "open", !.maintenance = {}, !.max_maintenance = 0,
                   !.kinds = {Access(TRUE, 0, 2), Access(TRUE, 1, 1), Access(TRUE, 0, 1), Access(FALSE, 0, 1), Access(FALSE, 0, 2)}]
\* Two columns of one row, accessed on their own, with rows closed behind an access.
ClosedPage ==
    [Lines EXCEPT !.kinds = {Access(TRUE, 0, 1), Access(FALSE, 0, 1), Access(FALSE, 1, 1)},
                  !.row_policy = "closed", !.maintenance = {}, !.max_maintenance = 0]
\* A write merged into one that waits, while another one that overlaps both waits behind it.
Merged == [Overlaps EXCEPT !.kinds = {Access(TRUE, 0, 2), Access(TRUE, 1, 1), Masked(0, 2, {0, 1})}]
MCConfigs == {Lines, TwoBanks, Direct, Overlaps}
ClosedPageOnly == {ClosedPage}
MergedOnly == {Merged}

\* Three banks in two ranks; one RFM for each bank, or one for all banks of a rank.
TwoRanks == [b \in Banks |-> b % 2]
AllBanks == INSTANCE RfmCounters WITH
    Decrement <- 2, AllBank <- TRUE, Reopens <- TRUE,
    act_count_since_rfm <- rank_count, rfm_pending_bank <- rank_bank, rfm_pending_all_bank <- rank_all,
    queue <- rank_queue

\* One rank that may postpone two refreshes and pull in one, and miss two deadlines in low power.
OneRank ==
    [rank_count |-> 1, sid_count |-> 1, bank_groups |-> 2, banks_per_group |-> 1, all_bank |-> FALSE,
     dual_bank |-> FALSE, interval |-> 4, postpone_limit |-> 2, pullin_limit |-> 1, credit_limit |-> 0, max_skip |-> 9]
\* REFdb over two SIDs of four groups, with the credit limit below the limit for postponing.
DualBanks ==
    [OneRank EXCEPT !.sid_count = 2, !.bank_groups = 4, !.dual_bank = TRUE, !.postpone_limit = 3,
                    !.pullin_limit = 2, !.credit_limit = 2]
\* Two ranks that share the ticks and postpone nothing.
TwoSharing ==
    [OneRank EXCEPT !.rank_count = 2, !.sid_count = 2, !.bank_groups = 1, !.banks_per_group = 2, !.interval = 3,
                    !.postpone_limit = 0, !.max_skip = 7]
AllOfRank ==
    [OneRank EXCEPT !.rank_count = 2, !.bank_groups = 1, !.banks_per_group = 2, !.all_bank = TRUE, !.interval = 10,
                    !.postpone_limit = 0, !.max_skip = 21]
Refresh == INSTANCE RefreshDebt WITH
    cfg <- manager, Configs <- {OneRank, DualBanks, TwoSharing, AllOfRank}

Req(write, lines, qos) == [write |-> write, lines |-> lines, qos |-> qos]
\* Requests of one and of two lines, in different stacks or channels, and every queue nearly full.
Pairs ==
    [kinds |-> {Req(TRUE, <<0, 1>>, 0), Req(FALSE, <<1, 3>>, 0), Req(FALSE, <<0>>, 0)},
     mapper |-> "decoded", strict |-> FALSE, delivery |-> "both", ingress_depth |-> 2, dispatch_width |-> 1]
\* One line written and two read, in the transaction view: the configuration for liveness.
Transactions ==
    [Pairs EXCEPT !.kinds = {Req(TRUE, <<1>>, 0), Req(FALSE, <<1, 3>>, 0)}, !.delivery = "transaction",
                  !.ingress_depth = 1, !.dispatch_width = 2]
\* One line read and written with two classes, by strict priority and round robin.
Classes ==
    [Pairs EXCEPT !.kinds = {Req(TRUE, <<0>>, 0), Req(FALSE, <<0, 2>>, 1)}, !.mapper = "round_robin",
                  !.strict = TRUE, !.delivery = "host"]
System == INSTANCE MemorySystem WITH
    cfg <- system, truth <- latest,
    Configs <- {Pairs, Transactions, Classes}, Stacks <- {0, 1}, Channels <- {0, 1}, Lines <- 0..3,
    Tags <- {"t1", "t2"}, ControllerDepth <- 2, ControllerResponses <- 1, HostCapacity <- 1,
    TransactionCapacity <- 2, MaxHosts <- 3

Row(cmd, bank, row) == [cmd |-> cmd, bank |-> bank, row |-> row]
Of(cmds, bank) == {Row(cmd, bank, 0) : cmd \in cmds}

\* Timings of one to a few cycles; those not given are 1.
Cycles(given) ==
    LET names == {"nBL", "nCL", "nCWL", "nRCDRD", "nRCDWR", "nRP", "nRPab", "nRAS", "nRC", "nRTP", "nWR", "nCCDS", "nCCDL",
                  "nCCDR", "nRRDS", "nRRDL", "nFAW", "nAADMin", "nAADMax", "nWCK2CK", "nWCKPST", "nCAS", "nPPD",
                  "nWTRS", "nWTRL", "nRTW", "nRFC", "nRFCpb", "nRFMab", "nRFMpb", "nRREFD", "nREFDB2ACT",
                  "nREFDB2REFDBS", "nREFDB2REFDBL", "nMRW", "nMRR", "nWCKSYNC", "nWCKTRAIN", "nDVFS", "nPDEX",
                  "nSREFEX", "nECCSCRUB", "nRASERR", "nLINKRETRY"}
    IN  [n \in names |-> IF n \in DOMAIN given THEN given[n] ELSE 1]
Column == Cycles([nBL |-> 2, nCL |-> 3, nCWL |-> 2, nRCDRD |-> 2, nRP |-> 2, nRPab |-> 3, nRAS |-> 3, nRC |-> 5, nRTP |-> 2,
                  nWR |-> 2, nCCDS |-> 2, nCCDL |-> 3, nCCDR |-> 3, nRRDL |-> 2, nFAW |-> 5, nWTRL |-> 2, nRTW |-> 3])

\* HBM with strict edge pairing: two SIDs and two bank groups of one pseudo channel.
At(sid, group, bank) == <<0, sid, 0, group, bank>>
Edges ==
    [lpddr |-> FALSE, dual_bank |-> FALSE, pairing |-> TRUE, edges |-> TRUE, always_on |-> FALSE, retrains |-> FALSE,
     behavioral |-> TRUE, auto_precharge |-> FALSE, ecc |-> TRUE, link_protection |-> FALSE, tick_multiplier |-> 2,
     activation_scope |-> 1, wck_scope |-> 1, row_bus_scope |-> 1, column_bus_scope |-> 1, timing |-> Column,
     banks |-> {At(0, 0, 0), At(1, 0, 0), At(0, 1, 0)},
     requests |-> {Row("read", At(0, 0, 0), 1), Row("write", At(1, 0, 0), 1), Row("read", At(1, 0, 0), 2),
                   Row("write", At(0, 1, 0), 1)}]
\* Closed pages and every kind of maintenance.
AutoPrecharge ==
    [Edges EXCEPT !.auto_precharge = TRUE, !.edges = FALSE, !.pairing = FALSE, !.tick_multiplier = 1,
                  !.timing = [@ EXCEPT !.nRFCpb = 3, !.nRFC = 4, !.nRRDL = 1],
                  !.banks = {At(0, 0, 0), At(0, 1, 0)},
                  !.requests = {Row("read", At(0, 0, 0), 1), Row("write", At(0, 1, 0), 1), Row("read", At(0, 0, 0), 2)}
                                   \cup Of({"REFpb", "REFab", "RFMab"}, At(0, 0, 0)) \cup Of({"RFMpb"}, At(0, 1, 0))]
\* Rows so short that two banks fill the window of four activations.
ShortRows ==
    [AutoPrecharge EXCEPT !.timing = Cycles([nFAW |-> 9, nRC |-> 2, nRFCpb |-> 2]),
                          !.requests = {Row("read", At(0, 0, 0), 1), Row("write", At(0, 1, 0), 1)}
                                           \cup Of({"REFpb"}, At(0, 0, 0))]
\* HBM's control commands, which a direct PHY passes on at any time.
HbmControls ==
    [AutoPrecharge EXCEPT !.behavioral = FALSE, !.auto_precharge = FALSE,
                          !.timing = [@ EXCEPT !.nMRW = 2, !.nMRR = 2, !.nECCSCRUB = 2, !.nRASERR = 3, !.nLINKRETRY = 3],
                          !.requests = {Row("read", At(0, 0, 0), 1), Row("write", At(0, 1, 0), 1)}
                                           \cup Of({"MRW", "MRR", "ECC_SCRUB", "RAS_ERR"}, At(0, 0, 0))]
\* LPDDR: split activation, WCK windows opened by CAS, dual-bank refresh.
Split ==
    [Edges EXCEPT !.lpddr = TRUE, !.dual_bank = TRUE, !.pairing = FALSE, !.edges = FALSE, !.retrains = TRUE,
                  !.tick_multiplier = 1, !.banks = {At(0, g, n) : g \in {0, 1}, n \in {0, 1}},
                  !.timing = [@ EXCEPT !.nRCDRD = 4, !.nRCDWR = 4, !.nRAS = 4, !.nRC = 6, !.nAADMax = 3, !.nWCKPST = 3,
                                       !.nWCK2CK = 2, !.nCAS = 2, !.nRFCpb = 3, !.nRFC = 3, !.nREFDB2REFDBS = 2,
                                       !.nREFDB2REFDBL = 4, !.nRFMab = 2, !.nRASERR = 3, !.nLINKRETRY = 3, !.nDVFS = 2,
                                       !.nWCKTRAIN = 2, !.nSREFEX = 3, !.nPDEX = 2],
                  !.requests = {Row("read", At(0, 0, 0), 1), Row("write", At(0, 1, 0), 1), Row("read", At(0, 0, 0), 2),
                                Row("REFdb", At(0, 0, 0), 0), Row("REFdb", At(0, 0, 1), 0)}]
\* LPDDR's control commands behind the behavioural PHY.
Controls ==
    [Split EXCEPT !.banks = {At(0, 0, 0), At(0, 1, 0)},
                  !.requests = {Row("read", At(0, 0, 0), 1), Row("write", At(0, 1, 0), 1)}
                                   \cup Of({"DVFS", "WCK_TRAIN", "PDE", "PDX", "SREFEN", "SREFEX", "RAS_ERR",
                                           "WCK_SYNC"}, At(0, 0, 0))]
CommandSpecs ==
    [edges |-> Edges, auto |-> AutoPrecharge, short |-> ShortRows, hbm_controls |-> HbmControls, split |-> Split,
     controls |-> Controls]
Device == INSTANCE CommandTiming WITH Specs <- CommandSpecs

Radix(channels, pseudo_channels, sids, ranks, groups, banks, rows, columns) ==
    [channel |-> channels, pseudo_channel |-> pseudo_channels, sid |-> sids, rank |-> ranks, bank_group |-> groups,
     bank |-> banks, row |-> rows, column |-> columns]
\* One stack; dies that the SIDs do not divide.
OneStack ==
    [radix |-> Radix(2, 2, 2, 1, 2, 3, 2, 2), mapping |-> "Default", efficiency |-> FALSE, transaction_bytes |-> 1,
     stacks |-> 1, blocked |-> FALSE, interleave |-> 4, stack_height |-> 3, grid |-> 2, subarrays |-> 2, mats |-> 2]
\* Three stacks, in stripes and in blocks, and a channel of LPDDR with two sub-channels.
Stripes ==
    [OneStack EXCEPT !.radix = Radix(2, 1, 1, 2, 3, 1, 2, 2), !.mapping = "RoBaRaCoCh", !.transaction_bytes = 2,
                     !.stacks = 3]
Blocks ==
    [Stripes EXCEPT !.radix = Radix(1, 2, 2, 1, 2, 2, 3, 1), !.mapping = "ChRaBaRoCo", !.blocked = TRUE]
SubChannels ==
    [Stripes EXCEPT !.radix = Radix(1, 2, 1, 2, 2, 2, 2, 2), !.mapping = "RoCoRaBaCh", !.stacks = 1, !.stack_height = 1]
Efficient == [SubChannels EXCEPT !.efficiency = TRUE]
MCLayouts ==
    [one_stack |-> OneStack, stripes |-> Stripes, blocks |-> Blocks, sub_channels |-> SubChannels,
     efficient |-> Efficient]

Line(op, addr, len, cycle, check) == [op |-> op, addr |-> addr, len |-> len, cycle |-> cycle, check |-> check]
Unset == -1
\* Bursts of writes and of reads, and reads that check the last write, behind one control request.
Bursts ==
    [trace |-> <<Line("BW", 0, 3, Unset, "none"), Line("W", 1, 1, Unset, "none"), Line("M", 0, 1, Unset, "none"),
                 Line("BR", 0, 2, Unset, "auto"), Line("R", 2, 1, Unset, "last_write"), Line("R", 1, 1, Unset, "last_write")>>,
     synthetic |-> {}, requests |-> 0, interval |-> 1, pieces |-> 1, control |-> 1, control_interval |-> 2,
     feed |-> "source", drain |-> TRUE, capacity |-> 1, max_cycles |-> 12]
\* Only two of its requests, each of two transactions.
Limited == [Bursts EXCEPT !.requests = 2, !.pieces = 2, !.control = 0, !.max_cycles = 6]
\* Cycles given by the trace, and out of order; a check of a write that never was.
Timed ==
    [Bursts EXCEPT !.trace = <<Line("W", 0, 1, 3, "none"), Line("W", 0, 1, 1, "none"), Line("R", 0, 1, 4, "last_write")>>,
                   !.interval = 0, !.control = 0]
Early == [Timed EXCEPT !.trace = <<Line("R", 0, 1, Unset, "last_write")>>]
\* Synthetic traffic, its responses consumed or left alone.
Steady == [Bursts EXCEPT !.trace = <<>>, !.synthetic = {1}, !.requests = 3, !.pieces = 2, !.control = 0]
Unread == [Steady EXCEPT !.control = 1, !.drain = FALSE]
\* Drained into a vector first.
TimedVector == [Timed EXCEPT !.feed = "vector", !.drain = FALSE, !.control = 2]
BurstVector == [Bursts EXCEPT !.feed = "vector", !.drain = FALSE]
Feed == INSTANCE Frontend WITH
    cfg <- feeding, next <- submitted,
    Configs <- {Bursts, Limited, Timed, Early, Steady, Unread, TimedVector, BurstVector}

ASSUME MemSimParameters ==
    /\ Refresh!RefreshAssumption /\ System!SystemAssumption /\ Feed!FrontendAssumption

MCInit ==
    /\ part \in {"controller", "rfm bank", "rfm rank", "refresh", "system", "commands", "feed", "address"}
    /\ Init /\ (part # "controller" => cfg = CHOOSE c \in Configs : TRUE)
    /\ RfmInit /\ AllBanks!RfmInit
    /\ Refresh!Init /\ (part # "refresh" => manager = OneRank)
    /\ System!Init /\ (part # "system" => system = Pairs)
    /\ Device!CommandInit /\ (part # "commands" => spec = "edges")
    /\ Feed!Init /\ (part # "feed" => feeding = Limited)
    /\ MapInit /\ (part # "address" => layout = "one_stack")

MCNext ==
    /\ UNCHANGED part
    /\ \/ part = "controller" /\ Next
          /\ UNCHANGED <<rfmVars, rankState, refreshState, systemState, commandState, feedState, mapVars>>
       \/ part = "rfm bank" /\ RfmNext
          /\ UNCHANGED <<vars, rankState, refreshState, systemState, commandState, feedState, mapVars>>
       \/ part = "rfm rank" /\ AllBanks!RfmNext
          /\ UNCHANGED <<vars, rfmVars, refreshState, systemState, commandState, feedState, mapVars>>
       \/ part = "refresh" /\ Refresh!Next
          /\ UNCHANGED <<vars, rfmVars, rankState, systemState, commandState, feedState, mapVars>>
       \/ part = "system" /\ System!Next
          /\ UNCHANGED <<vars, rfmVars, rankState, refreshState, commandState, feedState, mapVars>>
       \/ part = "commands" /\ Device!Tick
          /\ UNCHANGED <<vars, rfmVars, rankState, refreshState, systemState, feedState, mapVars>>
       \/ part = "feed" /\ Feed!Next
          /\ UNCHANGED <<vars, rfmVars, rankState, refreshState, systemState, commandState, mapVars>>
       \/ part = "address" /\ MapNext
          /\ UNCHANGED <<vars, rfmVars, rankState, refreshState, systemState, commandState, feedState>>

\* The controller's clock runs and its responses are taken, banks are relieved as commands issue,
\* the refresh manager's clock runs (a tick is always possible and moves a deadline nearer), and the
\* system ticks, is offered what it has room for and has its answers taken.
Live == part = "system" /\ system = Transactions
LiveController == part = "controller" /\ cfg = Lines
MCFairness ==
    /\ []<>(LiveController => ~Restless) \/ []<><<LiveController /\ QuietTick>>_vars
    /\ WF_vars(LiveController /\ TakeResponse)
    /\ WF_rfmVars(part = "rfm bank" /\ IssueRfm)
    /\ []<>(part # "refresh") \/ []<><<Refresh!Next>>_refreshState
    /\ []<><<Live /\ System!Submit>>_systemState \/ []<>~(Live /\ System!Admits)
    /\ []<><<Live /\ System!FullTick>>_systemState \/ []<>~(Live /\ System!Moves)
    /\ WF_systemState(Live /\ System!PopTransaction)

MCSteps ==
    [][MCNext]_<<part, vars, rfmVars, rankState, refreshState, systemState, commandState, feedState, mapVars>>
MCSpec == MCInit /\ MCSteps /\ MCFairness

\* One part alone.
EfficientSpec == part = "address" /\ layout = "efficient" /\ MCInit /\ MCSteps
ControllerSpec == part = "controller" /\ MCInit /\ MCSteps /\ Fairness

-----------------------------------------------------------------------------
\* A request is in one place until its answer was taken, a queued write has its payload in the
\* buffer, and once no write is on its way the image holds the last write to every byte; where
\* writes of different starts met in the buffer it holds one of them, and a byte that a shorter write
\* dropped from the one it replaced (controller.cpp:236) may keep what it had before.
NothingLost ==
    TypeOK /\ OnePlace /\ BufferMatchesQueue /\ ImageSettles

\* Every accepted request is answered and all maintenance carried out, though writes wait for
\* reads, reads for a write drain and everything for the bank's maintenance.
AllServed == LiveController => EveryRequestAnswered /\ MaintenanceServed

\* With all-bank RFM, too, a flag is up exactly while one RFM is queued (rfm.cpp). No rank owes
\* more refreshes than its limits allow, nor does a bank wait longer for its refresh than a rotation
\* and that debt (refresh.cpp).
MaintenanceKept ==
    /\ part = "rfm rank" => AllBanks!RfmTypeOK /\ AllBanks!FlagsExact
    /\ part = "refresh" => Refresh!TypeOK /\ Refresh!DebtBounded /\ Refresh!RetentionKept

\* The registry of tags agrees with what is queued anywhere, no answer is lost, torn or doubled, and
\* no queue overflows into an exception (system.cpp). The system is fed what trace and options ask
\* for, and a run that ends says what it leaves undone (traffic.cpp, run_source).
SystemLedger ==
    /\ part = "system" =>
          /\ System!TypeOK /\ System!NeverFatal /\ System!LedgerExact
          /\ System!AnswersWhole /\ System!AnsweredOnce
    /\ part = "feed" => Feed!TypeOK /\ Feed!FedAsAsked /\ Feed!EndsHonestly

\* On its way through the queues of stack and channel no read passes a write of its line, and a
\* trace's reads are checked against the writes before them. Every
\* address has a cell of its own, in range, and the way back leads to it; every bank has its tile
\* (efficiency mode is the exception, see EveryAddressItsCell).
SystemReadsSeeWrites ==
    /\ part = "system" => System!ReadsSeeWrites
    /\ part = "feed" => Feed!ExpectsLastWrite
    /\ part = "address" =>
          /\ Reversible /\ TilesDistinct
          /\ ~Layouts[layout].efficiency => AddressesDistinct

\* addr_map.cpp:119: in LPDDR6 efficiency mode host commands reach both groups of bank arrays
\* through the primary sub-channel: the capacity stays the product of all dimensions, and every
\* address of it has a cell.
EveryAddressItsCell == AddressesDistinct

\* The trace of commands is one the validator replays without an error, on a state that stays the
\* controller's own, and one the rows, the data bus and the PHY can follow (controller.cpp,
\* executor.cpp, timing.cpp against validator.cpp). The buckets both keep times in are the scopes
\* they are named for.
CommandsValid ==
    /\ part = "commands" =>
          /\ Device!ReplayAccepts /\ Device!ReplayAgrees
          /\ Device!RowsRecover /\ Device!DataBusExclusive
          /\ Device!Act2InTime
          /\ Device!Behavioral => Device!PhyAgrees
    /\ part = "address" => ScopesNest

\* A bank at its threshold is relieved, a rank's debt is paid once ordinary work is over, and every
\* host request made is answered, through full queues.
EverythingComes ==
    /\ []<>( /\ part = "rfm bank" => \A b \in Banks : act_count_since_rfm[b] < Threshold
             /\ Live => System!EveryHostAnswered )
    /\ part = "refresh" => Refresh!DebtRepaid
============================================================================
