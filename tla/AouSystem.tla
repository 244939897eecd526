----------------------------- MODULE AouSystem -----------------------------
(***************************************************************************)
(* The AXI-over-UCIe chain: Axi2Flit with its packer and unpacker, the      *)
(* adapter and the link, AouTarget and its memory.  Every thread's clock    *)
(* cycle is one step; a cycle in which a thread finds nothing to do is a    *)
(* stuttering step.                                                         *)
(***************************************************************************)
EXTENDS Axi2Flit, AouTarget, FiniteSets

vars == <<bridgeVars, axiVars, masterVars, targetVars>>

Init == AdapterInit /\ PackerInit /\ UnpackerInit /\ Axi2FlitInit /\ TargetInit

Send == UNCHANGED <<packerVars, unpackerVars, axiVars, masterVars, targetVars>> /\ AdapterSend
Receives == UNCHANGED <<packerVars, unpackerVars, axiVars, masterVars, targetVars>> /\ AdapterReceive
Pack == UNCHANGED <<down, up, rx, unpackerVars, axiVars, masterVars, targetVars>> /\ PackerCycle
Unpack == UNCHANGED <<axiVars, masterVars, targetVars>> /\ UnpackerCycle
Target == UNCHANGED <<packerVars, unpackerVars, axiVars, masterVars>> /\ TargetCycle
Memory == UNCHANGED <<packerVars, unpackerVars, axiVars, masterVars>> /\ MemoryServe
AwChannel ==
    \E id \in Ids, qos \in QosValues, beats \in BeatCounts :
        UNCHANGED targetVars /\ AwHandshake(id, qos, beats)
ArChannel ==
    \E id \in Ids, qos \in QosValues, beats \in BeatCounts :
        UNCHANGED targetVars /\ ArHandshake(id, qos, beats)
WChannel == UNCHANGED targetVars /\ (WTakesRoute \/ \E full \in Strobes : WHandshake(full))
Channel(k) == UNCHANGED targetVars /\ (ResponseHandshake(k) \/ ResponseShown(k))

Next ==
    \/ Send \/ Receives \/ Pack \/ Unpack \/ Target \/ Memory
    \/ AwChannel \/ ArChannel \/ WChannel
    \/ \E k \in RxKinds : Channel(k)

\* Every thread keeps being clocked, and the master sends the data it owes and takes the
\* responses it is shown; it need not issue anything.  The first three conjuncts are weak
\* fairness with its ENABLED <<A>>_vars spelt out: these cycles are functions of the state, so
\* a step that changes something exists unless the thread is idle.
Fairness ==
    /\ []<>PackerIdle \/ []<><<Pack>>_vars
    /\ []<>TargetIdle \/ []<><<Target>>_vars
    /\ []<>UnpackerIdle \/ []<><<Unpack>>_vars
    /\ WF_vars(Send) /\ WF_vars(Receives) /\ WF_vars(Memory) /\ WF_vars(WChannel)
    /\ \A k \in RxKinds : WF_vars(Channel(k))

Spec == Init /\ [][Next]_vars
FairSpec == Spec /\ Fairness

-----------------------------------------------------------------------------
(* Where the granules of plane rp and kind k are.                            *)

OfCell(m, rp, k) == CreditKind(m.type) = k /\ m.rp = rp
GranulesOf(gs, rp, k) == Len(SelectSeq(gs, LAMBDA g : OfCell(g[1], rp, k)))
OnWire(flits, rp, k) == FoldLeft(LAMBDA n, f : n + GranulesOf(f.gran, rp, k), 0, flits)
Rest(spill, rp, k) ==
    IF spill # <<>> /\ OfCell(spill[1].msg, rp, k) THEN spill[1].msg.n - spill[1].done ELSE 0
Whole(msgs, rp, k) == DataGranules(SelectSeq(msgs, LAMBDA m : OfCell(m, rp, k)))

\* Grants carried by flits, in headers and in CrdtGrant messages.
GrantsIn(flits, rp, k) ==
    FoldLeft(LAMBDA n, f :
                n + f.credit[rp][k] +
                FoldLeft(LAMBDA a, g : IF g[1].type = "Misc" /\ g[2] = 0 THEN a + g[1].body[rp][k]
                                                                         ELSE a, 0, f.gran),
             0, flits)

AtTarget(rp, k) ==
    CASE k = "WriteReq" -> Len(tgt.writes[rp]) * Granules[k]
      [] k = "ReadReq" -> Len(tgt.reads[rp]) * Granules[k]
      [] k = "WriteData" -> DataGranules(tgt.data[rp])

Held(rp, k) ==
    IF k \in TxKinds
    THEN OnWire(<<pk.cur>> \o out \o down, rp, k) + Rest(pk.spill, rp, k)
         + GranulesOf(tgt.carry, rp, k) + AtTarget(rp, k)
    ELSE OnWire(up \o rx, rp, k) + Rest(tgt.spill, rp, k) + GranulesOf(unp.carry, rp, k)
         + Whole(unp.msgs \o rxq[k][rp] \o active[k], rp, k)

Granting(rp, k) ==
    IF k \in TxKinds THEN GrantsIn(up \o rx, rp, k) + AmountIn(unp.credits \o cu, rp, k)
                     ELSE GrantsIn(out \o down, rp, k)

Cell(rp, k) ==
    INSTANCE CreditLoop WITH
        Capacity <- IF k \in TxKinds THEN TargetCapacity[rp][k] ELSE BridgeCapacity[rp][k],
        CounterMax <- CreditCounterMax,
        tx <- IF k \in TxKinds THEN pk.credits.tx[rp][k] ELSE tgt.credits.tx[rp][k],
        granted <- Granting(rp, k),
        held <- Held(rp, k),
        freed <- AmountIn(cr, rp, k),
        pend <- IF k \in TxKinds THEN tgt.credits.pend[rp][k] ELSE pk.credits.pend[rp][k]

-----------------------------------------------------------------------------
\* The queues hold what they may hold and the counters are in range.
TypeOK ==
    /\ \A k \in TxKinds, rp \in RPs : Len(txq[k][rp]) <= TxDepth[k] /\ Len(pk.staged[k][rp]) <= 1
    /\ \A k \in RxKinds, rp \in RPs : Len(rxq[k][rp]) <= RxDepth[k]
    /\ Len(out) <= 1 /\ Len(rx) <= 1 /\ Len(down) <= LinkDepth /\ Len(up) <= LinkDepth
    /\ Len(cu) <= CreditFifoDepth /\ Len(mem_req) <= MemDepth /\ Len(mem_rsp) <= MemDepth
    /\ Len(pk.cur.gran) <= FlitGranules /\ pk.idle \in 0..CreditReturnTimeout
    /\ tgt.outstanding \in 0..MaxOutstanding

\* No protocol check of the receivers ever fires (FlitUnpacker/Protocol and the require calls of
\* AouTarget): every flit decodes, no cut message is mistaken for a new one or interleaved with
\* another, and no request or write data arrives that its receive space cannot take.
NeverFatal == unp.ok /\ tgt.ok

\* Each plane and kind of both ends behaves as CreditLoop says, so that credits are conserved
\* through headers, CrdtGrants, cut messages and back-pressure.
CreditsFlow ==
    /\ \A rp \in RPs, k \in Kinds : Cell(rp, k)!Init
    /\ [][\A rp \in RPs, k \in Kinds : UNCHANGED Cell(rp, k)!vars \/ Cell(rp, k)!Next]_vars

\* No credit of any plane and kind is lost or made up.
CreditsConserved == \A rp \in RPs, k \in Kinds : Cell(rp, k)!Conserved

\* assemble pairs write data with write requests by arrival order alone: every beat that reaches
\* a write's burst is that write's beat of that position.
BurstsIntact ==
    \A rp \in RPs : \A j \in 1..Len(tgt.writes[rp]) :
        LET w == tgt.writes[rp][j] IN \A i \in 1..Len(w.got) : w.got[i] = <<w.tag, i>>

\* A response shown on B or R is the next one AXI4 allows for its ID, as long as RpOrderGuard has
\* counted no violation of that direction.
ResponsesInOrder ==
    \A k \in RxKinds :
        active[k] # <<>> /\ violations[k] = 0 =>
            Beat(active[k][1]) = Head(due[k][Id(active[k][1])])

\* A decoded response always finds room in its FIFO, so that one plane's unread responses never
\* keep the unpacker from passing on another plane's responses and credits.
ResponsesFit ==
    \A k \in RxKinds, rp \in RPs :
        Len(rxq[k][rp]) + Len(SelectSeq(unp.msgs, LAMBDA m : m.type = k /\ m.rp = rp)) <= RxDepth[k]

Replies(queue) == FoldLeft(LAMBDA n, rp : n + Len(queue[rp - 1]), 0, [i \in 1..RpCount |-> i])

\* outstanding_ counts the transactions between submission and the last granule of the reply:
\* no slot is leaked, which would stop the target, and none is freed twice.
OutstandingExact ==
    /\ tgt.outstanding = Len(tgt.tickets) + Replies(tgt.read_replies) + Replies(tgt.write_replies)
                         + (IF tgt.spill # <<>> /\ tgt.spill[1].completes THEN 1 ELSE 0)
    /\ Len(tgt.tickets) = Len(mem_req) + Len(mem_rsp)

Tags(k, id) == {due[k][id][i][1] : i \in 1..Len(due[k][id])}

\* The order guard counts exactly the transactions the master still waits for, so that a binding
\* is neither given up early nor kept for ever.
GuardExact == \A k \in RxKinds, id \in Ids : guard[k][id].outstanding = Cardinality(Tags(k, id))

Waiting(tag) == \E k \in RxKinds, id \in Ids : tag \in Tags(k, id)

\* Every read and every write the bridge accepts is answered: credits, spilled messages and the
\* bounded FIFOs of the two directions never wait for each other in a circle.  Transactions are
\* bounded, so one that waits for ever would show.
EveryRequestAnswered == []<>(\A tag \in 1..MaxTransactions : ~Waiting(tag))

\* Once the chain is idle the whole capacity of both ends is with its sender again.
AllCreditsReturned == <>[](\A rp \in RPs, k \in Kinds : Cell(rp, k)!Settled)
============================================================================
