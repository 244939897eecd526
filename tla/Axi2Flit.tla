------------------------------ MODULE Axi2Flit ------------------------------
(***************************************************************************)
(* Axi2Flit (src/axi2flit/systemc/src/axi2flit.cpp): the five AXI channel   *)
(* threads around FlitPacker and FlitUnpacker, and RpOrderGuard             *)
(* (rp_order_guard.h).  A handshake is one action.  A thread shows ready    *)
(* only while its FIFOs have space, and nobody else fills them, so the      *)
(* ready register of the code is the guard of the action.                   *)
(*                                                                         *)
(* The AXI master is the environment: it issues at most MaxTransactions     *)
(* bursts, sends the write beats in the order of its write addresses, and   *)
(* remembers in due the response beats each ID still expects, in the order  *)
(* AXI4 requires.  tag numbers its transactions.                            *)
(***************************************************************************)
EXTENDS FlitPacker

CONSTANTS
    Ids, QosValues, BeatCounts,     \* what the master may ask for
    Strobes,                        \* subset of BOOLEAN: may a beat be full / not be full
    TxDepth,                        \* TX_REQ_FIFO_DEPTH_PER_RP, TX_WDATA_FIFO_DEPTH_PER_RP
    RouteDepth,                     \* depth of sig_write_route_fifo
    MaxTransactions                 \* bound on the transactions issued

VARIABLES
    route_fifo,     \* sig_write_route_fifo: planes and lengths of the bursts whose data is due
    route,          \* w_channel_thread's route: <<>> or <<[rp, beats_remaining]>>
    active,         \* the response each of b_channel_thread and r_channel_thread shows
    next_resp,      \* next_rp of those two threads
    guard,          \* wr_order_guard_ (WriteResp) and rd_order_guard_ (ReadData) tables
    violations,     \* violations_ of the two guards
    issued,         \* environment: transactions issued
    wbeats,         \* environment: write beats the master has yet to send
    due             \* environment: response beats it expects, per direction and ID
axiVars == <<route_fifo, route, active, next_resp, guard, violations>>
masterVars == <<issued, wbeats, due>>
bridgeVars == <<linkVars, packerVars, unpackerVars>>

Axi2FlitInit ==
    /\ route_fifo = <<>> /\ route = <<>>
    /\ active = [k \in RxKinds |-> <<>>]
    /\ next_resp = [k \in RxKinds |-> 0]
    /\ guard = [k \in RxKinds |-> [id \in Ids |-> [rp |-> 0, outstanding |-> 0]]]
    /\ violations = [k \in RxKinds |-> 0]
    /\ issued = 0 /\ wbeats = <<>>
    /\ due = [k \in RxKinds |-> [id \in Ids |-> <<>>]]

MapQosToRp(qos) == qos % RpCount

HasSpace(k) == \A rp \in RPs : Len(txq[k][rp]) < TxDepth[k]

\* Fault: a guard that sees no conflict.
NoConflict(k, id, rp) == FALSE

\* RpOrderGuard.bind: a conflict is counted and leaves the binding as it was.
Conflict(k, id, rp) == guard[k][id].outstanding # 0 /\ guard[k][id].rp # rp
Bind(k, id, rp) ==
    /\ guard' = [guard EXCEPT ![k][id] =
                    [rp |-> IF Conflict(k, id, rp) THEN @.rp ELSE rp,
                     outstanding |-> @.outstanding + 1]]
    /\ violations' = [violations EXCEPT ![k] = IF Conflict(k, id, rp) THEN @ + 1 ELSE @]

\* RpOrderGuard.retire.
Retired(g, id) == [g EXCEPT ![id].outstanding = IF @ > 0 THEN @ - 1 ELSE @]

AwHandshake(id, qos, beats) ==
    LET rp == MapQosToRp(qos)
        tag == issued + 1
    IN  /\ issued < MaxTransactions
        /\ HasSpace("WriteReq") /\ Len(route_fifo) < RouteDepth
        /\ Bind("WriteResp", id, rp)
        /\ txq' = [txq EXCEPT !["WriteReq"][rp] =
                      Append(@, AouMessage("WriteReq", rp, <<id, tag, beats>>))]
        /\ route_fifo' = Append(route_fifo, [rp |-> rp, beats_remaining |-> beats])
        /\ issued' = tag
        /\ wbeats' = wbeats \o [i \in 1..beats |-> <<tag, i>>]
        /\ due' = [due EXCEPT !["WriteResp"][id] = Append(@, <<tag, 1>>)]
        /\ UNCHANGED <<route, active, next_resp, linkVars, cu, cr, pk, unpackerVars>>

ArHandshake(id, qos, beats) ==
    LET rp == MapQosToRp(qos)
        tag == issued + 1
    IN  /\ issued < MaxTransactions
        /\ HasSpace("ReadReq")
        /\ Bind("ReadData", id, rp)
        /\ txq' = [txq EXCEPT !["ReadReq"][rp] =
                      Append(@, AouMessage("ReadReq", rp, <<id, tag, beats>>))]
        /\ issued' = tag
        /\ due' = [due EXCEPT !["ReadData"][id] = @ \o [i \in 1..beats |-> <<tag, i>>]]
        /\ UNCHANGED <<wbeats, route_fifo, route, active, next_resp, linkVars, cu, cr, pk,
                       unpackerVars>>

\* The W thread takes the next burst's route as soon as it has none.
NextRoute(r) ==
    /\ route' = IF r = <<>> /\ route_fifo # <<>> THEN <<Head(route_fifo)>> ELSE r
    /\ route_fifo' = IF r = <<>> /\ route_fifo # <<>> THEN Tail(route_fifo) ELSE route_fifo

\* A beat whose strobes are all set goes as the shorter WriteDataFull.
WHandshake(full) ==
    LET rp == route[1].rp
        left == route[1].beats_remaining - 1
    IN  /\ route # <<>> /\ wbeats # <<>>
        /\ Len(txq["WriteData"][rp]) < TxDepth["WriteData"]
        /\ txq' = [txq EXCEPT !["WriteData"][rp] =
                Append(@, AouMessage(IF full THEN "WriteDataFull" ELSE "WriteData", rp, Head(wbeats)))]
        /\ wbeats' = Tail(wbeats)
        /\ NextRoute(IF left = 0 THEN <<>> ELSE <<[rp |-> rp, beats_remaining |-> left]>>)
        /\ UNCHANGED <<active, next_resp, guard, violations, issued, due, linkVars, cu, cr, pk,
                       unpackerVars>>

WTakesRoute ==
    /\ route = <<>> /\ route_fifo # <<>>
    /\ NextRoute(route)
    /\ UNCHANGED <<active, next_resp, guard, violations, masterVars, bridgeVars>>

-----------------------------------------------------------------------------
(* b_channel_thread is ResponseCycle("WriteResp"), r_channel_thread is       *)
(* ResponseCycle("ReadData").                                                *)

Id(msg) == msg.body[1]
Beat(msg) == <<msg.body[2], msg.body[3]>>
\* Fault: a transaction retired at every beat.
EveryBeat(msg) == TRUE
IsLast(msg) == msg.body[4]

\* The thread shows the next response, in rotation over the planes.
ShowNext(k) ==
    LET waiting == {rp \in RPs : rxq[k][rp] # <<>>}
        rp == FirstFrom(waiting, next_resp[k], RpCount)
    IN  IF waiting = {}
        THEN active' = [active EXCEPT ![k] = <<>>] /\ UNCHANGED <<rxq, next_resp>>
        ELSE /\ active' = [active EXCEPT ![k] = <<Head(rxq[k][rp])>>]
             /\ rxq' = [rxq EXCEPT ![k][rp] = Tail(@)]
             /\ next_resp' = [next_resp EXCEPT ![k] = (rp + 1) % RpCount]

\* The master takes the response: its receive space is handed back, and the last beat retires
\* the transaction.
ResponseHandshake(k) ==
    LET msg == active[k][1]
    IN  /\ active[k] # <<>>
        /\ cr' = Append(cr, [rp |-> msg.rp, kind |-> k, n |-> msg.n])
        /\ guard' = IF IsLast(msg) THEN [guard EXCEPT ![k] = Retired(@, Id(msg))] ELSE guard
        /\ due' = [due EXCEPT ![k][Id(msg)] = Tail(@)]
        /\ ShowNext(k)
        /\ UNCHANGED <<route_fifo, route, violations, issued, wbeats, linkVars, txq, cu, pk, unp>>

ResponseShown(k) ==
    /\ active[k] = <<>> /\ \E rp \in RPs : rxq[k][rp] # <<>>
    /\ ShowNext(k)
    /\ UNCHANGED <<route_fifo, route, guard, violations, masterVars, linkVars, packerVars, unp>>
============================================================================
