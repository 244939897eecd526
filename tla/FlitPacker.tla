----------------------------- MODULE FlitPacker -----------------------------
(***************************************************************************)
(* FlitPacker (src/axi2flit/systemc/src/flit_packer.cpp): one clock cycle   *)
(* of packing_thread is the action PackerCycle.  flush_timeout_cycles_ has  *)
(* its default, 0, so timeout_cnt_ never counts.                            *)
(*                                                                         *)
(* FlitUnpacker (src/axi2flit/systemc/src/flit_unpacker.cpp): one clock     *)
(* cycle of unpacking_thread is the action UnpackerCycle.  It feeds the     *)
(* packer's credit_update FIFO and the response FIFOs of each plane.        *)
(***************************************************************************)
EXTENDS AouFlit

CONSTANTS
    PackMsgs,               \* PACK_MSGS_PER_CYCLE
    CreditReturnTimeout,    \* CREDIT_RETURN_TIMEOUT_CYCLES
    RxDepth                 \* depth of the ReadData and WriteResp FIFOs of a plane

VARIABLES
    txq,    \* sig_rreq_fifo, sig_wreq_fifo, sig_wdata_fifo of each plane
    cu,     \* sig_credit_update_fifo: credits granted by the target
    cr,     \* sig_credit_return_fifo: receive space the AXI side has freed
    pk      \* the packer's own state
packerVars == <<txq, cu, cr, pk>>

TxPriority == <<"ReadReq", "WriteReq", "WriteData">>
TxKinds == Range(TxPriority)
RxKinds == {"ReadData", "WriteResp"}

\* Fault: a capacity that counts the response on the AXI channel as one more place.
CapacityWithRegister ==
    [rp \in RPs |-> [k \in Kinds |-> IF k \in RxKinds THEN (RxDepth[k] + 1) * Granules[k] ELSE 0]]

\* The bridge receives responses only.
BridgeCapacity ==
    [rp \in RPs |-> [k \in Kinds |-> IF k \in RxKinds THEN RxDepth[k] * Granules[k] ELSE 0]]

PackerInit ==
    /\ txq = [k \in TxKinds |-> [rp \in RPs |-> <<>>]]
    /\ cu = <<>> /\ cr = <<>>
    /\ pk = [staged |-> [k \in TxKinds |-> [rp \in RPs |-> <<>>]],
             cur |-> EmptyFlit, spill |-> <<>>, credits |-> NewCredits(BridgeCapacity),
             next_rp |-> 0, idle |-> CreditReturnTimeout - 1]

-----------------------------------------------------------------------------
(* pack_cycle works on w = [q, p, status]: the FIFOs, the packer, and why it *)
(* stopped ("exhausted" is the return value true).                           *)

\* The rest of a message cut by the end of the previous flit goes to G0 of an empty flit.
Resume(w) ==
    LET s == w.p.spill[1]
        done == s.done + Take(w.p.cur, s.msg, s.done)
    IN  CASE w.p.spill = <<>> -> w
          [] w.p.spill # <<>> /\ w.p.cur.gran # <<>> -> [w EXCEPT !.status = "stop"]
          [] OTHER ->
                [w EXCEPT !.p.cur = PackFragment(@, s.msg, s.done),
                          !.p.spill = IF done >= s.msg.n THEN <<>> ELSE <<[s EXCEPT !.done = done]>>,
                          !.status = IF done >= s.msg.n THEN @ ELSE "stop"]

Unstaged(w, k, rp) == w.p.staged[k][rp] = <<>> /\ w.q[k][rp] # <<>>

FillStagingSlots(w) ==
    [w EXCEPT
        !.p.staged = [k \in TxKinds |-> [rp \in RPs |->
                        IF Unstaged(w, k, rp) THEN <<Head(w.q[k][rp])>> ELSE @[k][rp]]],
        !.q = [k \in TxKinds |-> [rp \in RPs |->
                        IF Unstaged(w, k, rp) THEN Tail(@[k][rp]) ELSE @[k][rp]]]]

\* select_from: the planes whose staged message has credit for all of its granules.
Sendable(p, k) ==
    {rp \in RPs : p.staged[k][rp] # <<>> /\ CanConsume(p.credits, rp, k, p.staged[k][rp][1].n)}

\* select_candidate and consume_candidate.
PackCandidate(w) ==
    LET k == SelectSeq(TxPriority, LAMBDA kind : Sendable(w.p, kind) # {})[1]
        rp == FirstFrom(Sendable(w.p, k), w.p.next_rp, RpCount)
        msg == w.p.staged[k][rp][1]
        took == Take(w.p.cur, msg, 0)
    IN  [w EXCEPT !.p.credits = Consume(@, rp, k, msg.n),
                  !.p.cur = PackFragment(@, msg, 0),
                  !.p.spill = IF took < msg.n THEN <<[msg |-> msg, done |-> took]>> ELSE @,
                  !.p.staged[k][rp] = <<>>,
                  !.p.next_rp = (rp + 1) % RpCount]

\* One round of the loop of pack_cycle; a cut message leaves no room, so it also ends the loop.
PackRound(w) ==
    LET f == FillStagingSlots(w)
    IN  IF w.status # "packing" \/ RemainingGranules(w.p.cur) = 0 THEN w
        ELSE IF \A k \in TxKinds : Sendable(f.p, k) = {} THEN [f EXCEPT !.status = "exhausted"]
        ELSE PackCandidate(f)

PackCycle(p) ==
    FoldLeft(LAMBDA w, i : PackRound(w),
             Resume([q |-> txq, p |-> p, status |-> "packing"]), [i \in 1..PackMsgs |-> i])

-----------------------------------------------------------------------------
DrainCreditEvents(p) == [p EXCEPT !.credits = ReturnRxCredit(AddTxCredit(@, cu), cr)]

\* flush_flit, with the credits that ride in the header.
FlushFlit(p) ==
    [out |-> <<[p.cur EXCEPT !.credit = HeaderGrant(p.credits)]>>,
     pk  |-> [p EXCEPT !.cur = EmptyFlit, !.credits = AfterHeaderGrant(@),
                       !.idle = IF HasPendingReturns(p.credits) THEN 0 ELSE @]]

\* Fault: a packer that only ever grants in the headers of other flits.
NoDedicatedGrant(p) == [out |-> <<>>, pk |-> p]

\* A flit of its own for the credits, once nothing else has gone out for long enough.
SendDedicatedCreditGrant(p) ==
    IF p.idle + 1 >= CreditReturnTimeout
    THEN [out |-> <<PackFragment(EmptyFlit, AouMessage("Misc", 0, MiscGrants(p.credits)), 0)>>,
          pk  |-> [p EXCEPT !.credits = AfterMiscGrants(@), !.idle = 0]]
    ELSE [out |-> <<>>, pk |-> [p EXCEPT !.idle = @ + 1]]

\* A flit waits while the output register is taken, and a flit that more messages may still
\* join waits too.
SendFlit(p, complete) ==
    CASE out = <<>> /\ p.cur.gran # <<>> /\ complete -> FlushFlit(p)
      [] out = <<>> /\ p.cur.gran = <<>> /\ HasPendingReturns(p.credits) ->
            SendDedicatedCreditGrant(p)
      [] OTHER -> [out |-> out, pk |-> p]

\* What a clock cycle leaves behind.
AfterPacking(w, n) == [txq |-> w.q, pk |-> n.pk, out |-> n.out]
AfterCycle(w) ==
    AfterPacking(w, SendFlit(w.p, RemainingGranules(w.p.cur) = 0 \/ w.status = "exhausted"))
PackerNext == AfterCycle(PackCycle(DrainCreditEvents(pk)))

PackerCycle ==
    \E n \in {PackerNext} :
        txq' = n.txq /\ pk' = n.pk /\ out' = n.out /\ cu' = <<>> /\ cr' = <<>>

\* A cycle would change nothing.
PackerIdle == cu = <<>> /\ cr = <<>> /\ PackerNext = [txq |-> txq, pk |-> pk, out |-> out]

-----------------------------------------------------------------------------
(* The unpacker                                                              *)

CONSTANTS
    UnpackMsgs,         \* UNPACK_MSGS_PER_CYCLE
    CreditFifoDepth     \* depth of sig_credit_update_fifo

VARIABLES
    rxq,        \* sig_rdata_fifo and sig_wresp_fifo of each plane
    unp         \* the unpacker's own state; ok is FALSE once SC_REPORT_FATAL was raised
unpackerVars == <<rxq, unp>>

UnpackerInit ==
    /\ rxq = [k \in RxKinds |-> [rp \in RPs |-> <<>>]]
    /\ unp = [holding |-> FALSE, msgs |-> <<>>, credits |-> <<>>, carry |-> <<>>, ok |-> TRUE]

\* parse_holding_flit and dispatch_message.
Holding(u, f, msgs) ==
    [holding |-> TRUE,
     msgs    |-> SelectSeq(msgs, LAMBDA m : m.type \in RxKinds /\ m.rp \in RPs),
     credits |-> CreditUpdates(f.credit) \o GrantUpdates(msgs),
     carry   |-> CarryAfter(u.carry, f),
     ok      |-> TRUE]
Parsed(u, f) == Holding(u, f, DecodedMessages(u.carry, f))

-----------------------------------------------------------------------------
(* route_messages works on r = [u, cu, rxq].                                 *)

RouteCredits(r) ==
    LET n == Least2(Len(r.u.credits), CreditFifoDepth - Len(r.cu))
    IN  [r EXCEPT !.cu = @ \o SubSeq(r.u.credits, 1, n),
                  !.u.credits = SubSeq(@, n + 1, Len(@))]

\* A full response FIFO stops the routing: no later message overtakes.
RouteMessage(r) ==
    LET m == Head(r.u.msgs)
    IN  IF \/ r.u.credits # <<>> \/ r.u.msgs = <<>>
           \/ Len(r.rxq[m.type][m.rp]) >= RxDepth[m.type] THEN r
        ELSE [r EXCEPT !.rxq[m.type][m.rp] = Append(@, m), !.u.msgs = Tail(@)]

Routed(u) ==
    FoldLeft(LAMBDA r, i : RouteMessage(r),
             RouteCredits([u |-> u, cu |-> cu, rxq |-> rxq]), [i \in 1..UnpackMsgs |-> i])

\* Route, then give up the holding register once everything in it has been passed on.
RouteAndRelease(u) ==
    \E r \in {Routed(u)} :
        /\ rxq' = r.rxq /\ cu' = r.cu
        /\ unp' = [r.u EXCEPT !.holding = r.u.msgs # <<>> \/ r.u.credits # <<>>]

UnpackerCycle ==
    /\ unp.ok
    /\ \/ unp.holding /\ RouteAndRelease(unp) /\ UNCHANGED rx
       \/ /\ ~unp.holding /\ rx # <<>>
          /\ rx' = <<>>
          /\ IF WellFormed(unp.carry, rx[1])
             THEN RouteAndRelease(Parsed(unp, rx[1]))
             ELSE unp' = [unp EXCEPT !.ok = FALSE] /\ UNCHANGED <<rxq, cu>>
    /\ UNCHANGED <<txq, cr, pk, out, down, up>>

\* A cycle would change nothing.
UnpackerIdle ==
    \/ ~unp.ok
    \/ ~unp.holding /\ rx = <<>>
    \/ unp.holding /\ Routed(unp) = [u |-> unp, cu |-> cu, rxq |-> rxq]
=============================================================================
