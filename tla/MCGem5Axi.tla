----------------------------- MODULE MCGem5Axi -----------------------------
(***************************************************************************)
(* The gem5 side of the AXI chain: AxiSplit, AxiMaster and MemSimBackend.  *)
(* part, chosen at the start, says which of them, and for the last two     *)
(* which instance, a behaviour runs; the others stay as they are.          *)
(***************************************************************************)
EXTENDS AxiSplit, MemSimBackend

VARIABLES
    part,
    m, axi, slave, packets, done                \* AxiMaster

masterState == <<m, axi, slave, packets, done>>

\* Around the end of a page, at every alignment, and some lengths beyond 256 beats.
MCAddresses == {0, 1, 2, 4, 16} \cup 4090..4098
MCLengths == 1..40 \cup {255, 256, 257, 600, 4096, 8200}

Write(bursts) == [write |-> TRUE, bursts |-> bursts]
Read(bursts) == [write |-> FALSE, bursts |-> bursts]

\* Packets of one and of two bursts, of one and of two beats, and one that is not valid; IDs
\* are fewer than packets and wrap.
Master == INSTANCE AxiMaster WITH
    Slots <- 2, MaxId <- 2, IdSpace <- 3, Stalls <- TRUE, StallCycles <- 1,
    PacketKinds <- {Write(<<2, 1>>), Read(<<2>>), Read(<<>>)},
    Delays <- {1}, Statuses <- {TRUE, FALSE}, MaxPackets <- 3
LiveMaster == INSTANCE AxiMaster WITH
    Slots <- 2, MaxId <- 3, IdSpace <- 4, Stalls <- FALSE, StallCycles <- 1,
    PacketKinds <- {Write(<<1, 1>>), Read(<<2>>)},
    Delays <- {1}, Statuses <- {FALSE}, MaxPackets <- 3

Kind(write, first, length) ==
    [write |-> write, addr |-> first, length |-> length, lock |-> FALSE, strobe |-> FALSE]

\* A write and a read of two pieces that overlap, a write of one piece between them, and bursts
\* in error: out of the window, exclusive, with a wrong strobe.
BurstKinds ==
    {Kind(TRUE, 1, 2), Kind(FALSE, 1, 2), Kind(TRUE, 2, 1), Kind(FALSE, 3, 2),
     [Kind(TRUE, 0, 2) EXCEPT !.lock = TRUE], [Kind(TRUE, 3, 2) EXCEPT !.strobe = TRUE]}
LiveBackend == INSTANCE MemSimBackend WITH Kinds <- {Kind(TRUE, 1, 2), Kind(FALSE, 3, 2)}

ASSUME Gem5Parameters ==
    Master!MasterAssumption /\ LiveMaster!MasterAssumption

MCInit ==
    /\ part \in {"split", "master", "master live", "backend", "backend live"}
    /\ Init /\ (part # "split" => base = 0 /\ len = 1)
    /\ Master!Init /\ BackendInit

MCNext ==
    /\ UNCHANGED part
    /\ \/ part = "split" /\ Next /\ UNCHANGED <<masterState, backendVars>>
       \/ part = "master" /\ Master!Next /\ UNCHANGED <<vars, backendVars>>
       \/ part = "master live" /\ LiveMaster!Next /\ UNCHANGED <<vars, backendVars>>
       \/ part = "backend" /\ BackendNext /\ UNCHANGED <<vars, masterState>>
       \/ part = "backend live" /\ LiveBackend!BackendNext /\ UNCHANGED <<vars, masterState>>

\* The fairness of AxiMaster and MemSimBackend, in the parts that are about liveness.
MasterLive == part = "master live"
BackendLive == part = "backend live"
MCFairness ==
    /\ WF_masterState(MasterLive /\ LiveMaster!AnyTick)
    /\ WF_masterState(MasterLive /\ LiveMaster!GoesAw)
    /\ WF_masterState(MasterLive /\ LiveMaster!GoesW)
    /\ WF_masterState(MasterLive /\ LiveMaster!GoesAr)
    /\ \A id \in LiveMaster!Ids : /\ WF_masterState(MasterLive /\ LiveMaster!ComesB(id))
                                  /\ WF_masterState(MasterLive /\ LiveMaster!ComesR(id))
    /\ WF_masterState(MasterLive /\ LiveMaster!EndResp)
    /\ WF_backendVars(BackendLive /\ LiveBackend!Run)
    /\ WF_backendVars(BackendLive /\ LiveBackend!Submitted)
    /\ WF_backendVars(BackendLive /\ LiveBackend!CompleteOldest)
    /\ WF_backendVars(BackendLive /\ LiveBackend!TakeResponse)

MCSpec == MCInit /\ [][MCNext]_<<part, vars, masterState, backendVars>> /\ MCFairness

-----------------------------------------------------------------------------
\* No assertion of the master fails, however the slave orders its channels. Data reach the slave
\* with the addresses of their own burst, no live ID is given again, and a packet is answered once,
\* when all of it is served, with the status it earned (axi_master.cc).
MasterSound ==
    part = "master" =>
        /\ Master!TypeOK /\ Master!NeverAsserts
        /\ Master!BurstsPaired /\ Master!IdsDistinct /\ Master!AnswersHonest

\* ContractKept and EndToEnd (AxiSplit), LedgersAgree and ImplementsBurstMemory (MemSimBackend)
\* are properties of this run too.

\* Every packet begun is answered, with more packets than slots and answers in any order; and every
\* burst issued: one that waits for a slot, whose pieces are refused, or that sends nothing, too.
AllAnswered ==
    /\ part = "master live" => LiveMaster!EveryPacketAnswered
    /\ part = "backend live" => LiveBackend!EveryBurstAnswered
============================================================================
