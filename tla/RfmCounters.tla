---------------------------- MODULE RfmCounters ----------------------------
(***************************************************************************)
(* mem_sim's RfmManager (src/mem_sim/src/controller/rfm.cpp): activation      *)
(* counts, pending flags, and the refresh-management (RFM) commands they      *)
(* call for, with what the controller does around them: a maintenance         *)
(* command waits in a queue, and ordinary requests activate a row only while  *)
(* the queue is empty (Controller::choose).                                  *)
(*                                                                         *)
(* queue is the priority queue followed by pending_maintenance_: both are     *)
(* FIFOs, the second is moved into the first in every tick, and the first is  *)
(* empty at the time of choice only if both are.  When a command may issue is *)
(* a free choice.                                                          *)
(***************************************************************************)
EXTENDS Integers, Sequences, FiniteSets

CONSTANTS
    Banks, Ranks,
    RankOf,         \* [Banks -> Ranks]
    Threshold,      \* rfm_act_threshold
    Decrement,      \* decrement_value(spec)
    AllBank,        \* rfm_policy = AllBank
    Reopens,        \* an active request may lose its row to an auto-precharge and activate it again
    MaxQueue,       \* bound: no other maintenance is queued beyond this
    MaxReopened     \* bound: an active request activates again only below this count

ASSUME RfmAssumption ==
    /\ RankOf \in [Banks -> Ranks]
    /\ Threshold \in Nat \ {0} /\ Decrement \in Nat \ {0} /\ MaxQueue \in Nat /\ MaxReopened \in Nat
    /\ AllBank \in BOOLEAN /\ Reopens \in BOOLEAN

VARIABLES
    act_count_since_rfm, rfm_pending_bank, rfm_pending_all_bank,
    queue           \* [cmd, bank]
rfmVars == <<act_count_since_rfm, rfm_pending_bank, rfm_pending_all_bank, queue>>

RfmCommands == [cmd : {"RFMPB", "RFMAB", "other"}, bank : Banks]

RfmInit ==
    /\ act_count_since_rfm = [b \in Banks |-> 0]
    /\ rfm_pending_bank = [b \in Banks |-> FALSE]
    /\ rfm_pending_all_bank = [r \in Ranks |-> FALSE]
    /\ queue = <<>>

\* The activation of bank b, which is being counted, calls for an RFM.
Calls(b) ==
    /\ act_count_since_rfm[b] + 1 >= Threshold
    /\ IF AllBank THEN ~rfm_pending_all_bank[RankOf[b]] ELSE ~rfm_pending_bank[b]

on_activate(b) ==
    /\ act_count_since_rfm' = [act_count_since_rfm EXCEPT ![b] = @ + 1]
    /\ \/ Calls(b) /\ AllBank
          /\ rfm_pending_all_bank' = [rfm_pending_all_bank EXCEPT ![RankOf[b]] = TRUE]
          /\ queue' = Append(queue, [cmd |-> "RFMAB", bank |-> b])
          /\ UNCHANGED rfm_pending_bank
       \/ Calls(b) /\ ~AllBank
          /\ rfm_pending_bank' = [rfm_pending_bank EXCEPT ![b] = TRUE]
          /\ queue' = Append(queue, [cmd |-> "RFMPB", bank |-> b])
          /\ UNCHANGED rfm_pending_all_bank
       \/ ~Calls(b) /\ UNCHANGED <<rfm_pending_bank, rfm_pending_all_bank, queue>>

\* Fault: ordinary requests do not wait for maintenance.
Unguarded == TRUE
OrdinaryMay == queue = <<>>

\* An ordinary request activates a row; an active one does so again.
Activate(b) == OrdinaryMay /\ on_activate(b)
Reactivate(b) == Reopens /\ queue # <<>> /\ act_count_since_rfm[b] < MaxReopened /\ on_activate(b)

\* Refresh and row policy queue commands of their own.
ScheduleOther(b) ==
    /\ Len(queue) < MaxQueue
    /\ queue' = Append(queue, [cmd |-> "other", bank |-> b])
    /\ UNCHANGED <<act_count_since_rfm, rfm_pending_bank, rfm_pending_all_bank>>

Less(n) == IF n > Decrement THEN n - Decrement ELSE 0
\* Fault: the bank's flag stays set.
FlagStays(b) ==
    /\ act_count_since_rfm' = [act_count_since_rfm EXCEPT ![b] = Less(@)]
    /\ UNCHANGED <<rfm_pending_bank, rfm_pending_all_bank>>
on_rfmpb(b) ==
    /\ act_count_since_rfm' = [act_count_since_rfm EXCEPT ![b] = Less(@)]
    /\ rfm_pending_bank' = [rfm_pending_bank EXCEPT ![b] = FALSE]
    /\ UNCHANGED rfm_pending_all_bank
\* Every bank of the rank.
on_rfmab(b) ==
    /\ act_count_since_rfm' =
           [x \in Banks |-> IF RankOf[x] = RankOf[b] THEN Less(act_count_since_rfm[x]) ELSE act_count_since_rfm[x]]
    /\ rfm_pending_bank' = [x \in Banks |-> rfm_pending_bank[x] /\ RankOf[x] # RankOf[b]]
    /\ rfm_pending_all_bank' = [rfm_pending_all_bank EXCEPT ![RankOf[b]] = FALSE]

\* The head of the queue is issued. Nobody overtakes it.
IssueRfm ==
    /\ queue # <<>>
    /\ queue' = Tail(queue)
    /\ \/ Head(queue).cmd = "RFMPB" /\ on_rfmpb(Head(queue).bank)
       \/ Head(queue).cmd = "RFMAB" /\ on_rfmab(Head(queue).bank)
       \/ Head(queue).cmd = "other" /\ UNCHANGED <<act_count_since_rfm, rfm_pending_bank, rfm_pending_all_bank>>

RfmNext ==
    \/ \E b \in Banks : Activate(b) \/ Reactivate(b) \/ ScheduleOther(b)
    \/ IssueRfm

RfmSpec == RfmInit /\ [][RfmNext]_rfmVars
RfmFairSpec == RfmSpec /\ WF_rfmVars(IssueRfm)

-----------------------------------------------------------------------------
(* Properties                                                                *)

RfmTypeOK ==
    /\ act_count_since_rfm \in [Banks -> Nat]
    /\ rfm_pending_bank \in [Banks -> BOOLEAN] /\ rfm_pending_all_bank \in [Ranks -> BOOLEAN]
    /\ queue \in Seq(RfmCommands)

\* A bank's (a rank's) flag is up exactly while an RFM for it is queued, and never two are.
Waiting(b) == {i \in DOMAIN queue : queue[i].cmd = "RFMPB" /\ queue[i].bank = b}
WaitingAll(r) == {i \in DOMAIN queue : queue[i].cmd = "RFMAB" /\ RankOf[queue[i].bank] = r}
FlagsExact ==
    /\ \A b \in Banks : rfm_pending_bank[b] <=> Waiting(b) # {}
    /\ \A r \in Ranks : rfm_pending_all_bank[r] <=> WaitingAll(r) # {}
    /\ \A b \in Banks : \A i, j \in Waiting(b) : i = j
    /\ \A r \in Ranks : \A i, j \in WaitingAll(r) : i = j

\* What RFM is for: no bank is activated more often than the threshold without relief, whatever
\* the decrement and whatever else is queued before the RFM.
ActsBounded == ~Reopens => \A b \in Banks : act_count_since_rfm[b] <= Threshold

\* A bank at its threshold has its RFM on the way; counts that ran past it may need a further
\* activation to ask.
ReliefQueued ==
    ~Reopens => \A b \in Banks :
        act_count_since_rfm[b] >= Threshold =>
            IF AllBank THEN rfm_pending_all_bank[RankOf[b]] ELSE rfm_pending_bank[b]

\* A bank that reached its threshold is relieved, however short the decrement.
Relieved == \A b \in Banks : act_count_since_rfm[b] >= Threshold ~> act_count_since_rfm[b] < Threshold
=============================================================================
