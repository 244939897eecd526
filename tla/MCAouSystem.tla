---------------------------- MODULE MCAouSystem ----------------------------
(***************************************************************************)
(* AouSystem on two instances; part, chosen at the start, says which one a *)
(* behaviour runs.  "bursts" has one resource plane, long messages and     *)
(* bursts of two beats; "planes" has two planes.                           *)
(***************************************************************************)
EXTENDS Naturals

VARIABLES
    part,
    out, down, up, rx, txq, cu, cr, pk, rxq, unp,
    route_fifo, route, active, next_resp, guard, violations, issued, wbeats, due,
    tgt, mem_req, mem_rsp

chain ==
    <<out, down, up, rx, txq, cu, cr, pk, rxq, unp, route_fifo, route, active, next_resp, guard,
      violations, issued, wbeats, due, tgt, mem_req, mem_rsp>>

CONSTANTS
    LinkDepth, PackMsgs, CreditReturnTimeout, UnpackMsgs, CreditFifoDepth, Ids, Strobes,
    RouteDepth, MaxTransactions, MaxOutstanding, MemDepth

TxDepth == [ReadReq |-> 1, WriteReq |-> 1, WriteData |-> 1]

\* The message lengths of the code (3, 3, 8, 7, 8, 1 and 2 granules of 48), scaled to a flit of
\* four granules so that most messages cross a flit boundary in some run.
Bursts == INSTANCE AouSystem WITH
    RpCount <- 1, FlitGranules <- 4, WdataGranules <- 3, RequestSlots <- 2,
    Granules <- [Misc |-> 2, WriteReq |-> 1, ReadReq |-> 1, WriteData |-> 3,
                 WriteDataFull |-> 2, ReadData |-> 3, WriteResp |-> 1],
    RxDepth <- [ReadData |-> 2, WriteResp |-> 1], QosValues <- {0}, BeatCounts <- {2}

\* The same with receive capacities that one credit field can name.
Planes == INSTANCE AouSystem WITH
    RpCount <- 2, CreditReturnTimeout <- 1, FlitGranules <- 6, WdataGranules <- 4, RequestSlots <- 1,
    Granules <- [Misc |-> 2, WriteReq |-> 1, ReadReq |-> 1, WriteData |-> 4,
                 WriteDataFull |-> 3, ReadData |-> 4, WriteResp |-> 1],
    RxDepth <- [ReadData |-> 1, WriteResp |-> 1], QosValues <- {0, 1}, BeatCounts <- {1}

ASSUME ChainParameters == Bursts!AouAssumption /\ Planes!AouAssumption

MCInit == \/ part = "bursts" /\ Bursts!Init
          \/ part = "planes" /\ Planes!Init
MCNext == \/ part = "bursts" /\ Bursts!Next /\ UNCHANGED part
          \/ part = "planes" /\ Planes!Next /\ UNCHANGED part
MCSpec == MCInit /\ [][MCNext]_<<part, chain>>

-----------------------------------------------------------------------------
\* No protocol check of the receivers ever fires, and write data, which find their request by
\* arrival order alone, arrive as the beats of that write, in order.
BurstsArrive ==
    /\ part = "bursts" => Bursts!TypeOK /\ Bursts!NeverFatal /\ Bursts!BurstsIntact
    /\ part = "planes" => Planes!NeverFatal /\ Planes!BurstsIntact

\* No credit of any plane and kind is lost or made up, through headers, CrdtGrants, messages
\* cut between flits and back-pressure.
NoCreditLost ==
    /\ part = "bursts" => Bursts!CreditsConserved
    /\ part = "planes" => Planes!CreditsConserved

\* outstanding_ of AouTarget and the order guard of Axi2Flit count exactly the transactions
\* under way: no slot leaks, none is freed twice, no binding is given up early.
CountersExact ==
    /\ part = "bursts" => Bursts!OutstandingExact /\ Bursts!GuardExact
    /\ part = "planes" => Planes!GuardExact

\* B and R beats come back in the order AXI4 asks for, unless RpOrderGuard counted a violation.
OrderKept ==
    /\ part = "bursts" => Bursts!ResponsesInOrder
    /\ part = "planes" => Planes!ResponsesInOrder

\* A decoded response finds room in its FIFO, so no plane's unread responses stop another's.
ResponsesAlwaysFit ==
    /\ part = "bursts" => Bursts!ResponsesFit
    /\ part = "planes" => Planes!ResponsesFit
============================================================================
