----------------------------- MODULE MCAouLive -----------------------------
(***************************************************************************)
(* The transport under fairness: the credit protocol (CreditLoop) and its  *)
(* use (AouSystem), one direction of the UCIe link, and the program around *)
(* the link (LinkSession).  part, chosen at the start, says which of them  *)
(* a behaviour runs; the others stay in their initial state.               *)
(***************************************************************************)
EXTENDS CreditLoop, LinkSession

VARIABLES
    part,
    out, down, up, rx, txq, cu, cr, pk, rxq, unp,
    route_fifo, route, active, next_resp, guard, violations, issued, wbeats, due,
    tgt, mem_req, mem_rsp,
    fdi_in, fdi_out, tx_pc, cur, wake, next_seq, retry_buffer, replay_active, replay_cursor,
    replay_end, wire, expected_seq, rx_state, frames_since_nak, fb

chain ==
    <<out, down, up, rx, txq, cu, cr, pk, rxq, unp, route_fifo, route, active, next_resp, guard,
      violations, issued, wbeats, due, tgt, mem_req, mem_rsp>>

link ==
    <<fdi_in, fdi_out, tx_pc, cur, wake, next_seq, retry_buffer, replay_active, replay_cursor,
      replay_end, wire, expected_seq, rx_state, frames_since_nak, fb>>

\* Flits so short that write data behind its request is cut, one transaction of one beat at a time in
\* each queue.
Chain == INSTANCE AouSystem WITH
    RpCount <- 1, FlitGranules <- 3,
    Granules <- [Misc |-> 2, WriteReq |-> 1, ReadReq |-> 1, WriteData |-> 3,
                 WriteDataFull |-> 2, ReadData |-> 2, WriteResp |-> 1],
    LinkDepth <- 1, PackMsgs <- 2, CreditReturnTimeout <- 2,
    RxDepth <- [ReadData |-> 1, WriteResp |-> 1], UnpackMsgs <- 2, CreditFifoDepth <- 2,
    Ids <- {1}, QosValues <- {0}, BeatCounts <- {1}, Strobes <- {TRUE},
    TxDepth <- [ReadReq |-> 1, WriteReq |-> 1, WriteData |-> 1],
    RouteDepth <- 1, MaxTransactions <- 2, RequestSlots <- 1, WdataGranules <- 2,
    MaxOutstanding <- 2, MemDepth <- 1

Link == INSTANCE UcieLink WITH
    Garbled <- "garbled", Flits <- {"flit"}, SeqMod <- 6, RetrySize <- 2, NakRepeat <- 2,
    InDepth <- 1, OutDepth <- 1, MaxFlits <- 3, MaxWire <- 2, MaxFb <- 2

ASSUME ChainParameters == Chain!AouAssumption
ASSUME SessionParameters == SessionAssumption

MCInit ==
    /\ part \in {"loop", "chain", "link", "session"}
    /\ Init /\ Chain!Init /\ Link!Init /\ SessionInit

MCNext ==
    /\ UNCHANGED part
    /\ \/ part = "loop" /\ Next /\ UNCHANGED <<chain, link, sessionVars>>
       \/ part = "chain" /\ Chain!Next /\ UNCHANGED <<vars, link, sessionVars>>
       \/ part = "link" /\ Link!Next /\ UNCHANGED <<vars, chain, sessionVars>>
       \/ part = "session" /\ SessionNext /\ UNCHANGED <<vars, chain, link>>

\* The fairness of AouSystem and of UcieLink, each asked of the behaviours that run it.
Chained(A) == part = "chain" /\ A
Linked(A) == part = "link" /\ A
Fairness ==
    /\ []<><<Chained(Chain!Pack)>>_chain \/ []<>(part # "chain" \/ Chain!PackerIdle)
    /\ []<><<Chained(Chain!Target)>>_chain \/ []<>(part # "chain" \/ Chain!TargetIdle)
    /\ []<><<Chained(Chain!Unpack)>>_chain \/ []<>(part # "chain" \/ Chain!UnpackerIdle)
    /\ WF_chain(Chained(Chain!Send)) /\ WF_chain(Chained(Chain!Receives))
    /\ WF_chain(Chained(Chain!Memory)) /\ WF_chain(Chained(Chain!WChannel))
    /\ \A k \in Chain!RxKinds : WF_chain(Chained(Chain!Channel(k)))
    /\ WF_link(Linked(Link!Trained)) /\ WF_link(Linked(Link!ReplayTimeout))
    /\ WF_link(Linked(Link!Woken)) /\ WF_link(Linked(Link!Feedback))
    /\ WF_link(Linked(Link!RxRun)) /\ WF_link(Linked(Link!Get))
    /\ WF_link(Linked(\E ok \in BOOLEAN : Link!Serialized(ok)))
    /\ \A n \in 0..2 :
           SF_link(Linked(cur # <<>> /\ cur[1].seq = n /\ Link!Serialized(TRUE)))

MCSpec == MCInit /\ [][MCNext]_<<part, vars, chain, link, sessionVars>> /\ Fairness

-----------------------------------------------------------------------------
\* Each plane and kind of both ends of the AoU chain behaves as CreditLoop says.
CreditsFlow == Chain!CreditsFlow

\* Every request the bridge accepts is answered: credits, spilled messages and the bounded FIFOs
\* of the two directions never wait for each other in a circle; and once the chain is idle the
\* whole capacity of both ends is with its sender again.
RequestsAnsweredCreditsHome ==
    part = "chain" => Chain!EveryRequestAnswered /\ Chain!AllCreditsReturned

\* Every accepted flit is delivered and every retry buffer entry is freed, although any
\* frame, also of a replay, may be corrupted again, and a NAK's restart of the replay may be
\* overwritten by sender.
LinkDelivers == part = "link" => Link!DeliversAll /\ Link!RetryDrains
============================================================================
