----------------------------- MODULE AouTarget -----------------------------
(***************************************************************************)
(* AouTarget (src/axi2flit/systemc/integration/aou_target.h) and the burst  *)
(* memory behind it (simple_burst_memory.h).  One clock cycle of run is the *)
(* action TargetCycle, the composition of its five steps                    *)
(*   receive, collect, assemble, submit, transmit                           *)
(* each of them a function of the target's state t.                         *)
(***************************************************************************)
EXTENDS AouFlit

CONSTANTS
    RequestSlots,       \* REQUEST_SLOTS
    WdataGranules,      \* WDATA_GRANULES
    MaxOutstanding,     \* MAX_OUTSTANDING
    MemDepth            \* depth of each of the two memory FIFOs

VARIABLES
    tgt,        \* the target's own state
    mem_req,    \* requests accepted by the memory's FIFO
    mem_rsp     \* responses of the memory
targetVars == <<tgt, mem_req, mem_rsp>>

\* capacity: what the target can receive.
TargetCapacity ==
    [rp \in RPs |-> [k \in Kinds |->
        CASE k \in {"WriteReq", "ReadReq"} -> RequestSlots * Granules[k]
          [] k = "WriteData" -> WdataGranules
          [] OTHER -> 0]]

PerPlane == [rp \in RPs |-> <<>>]

TargetInit ==
    /\ tgt = [credits |-> NewCredits(TargetCapacity), carry |-> <<>>,
              writes |-> PerPlane, reads |-> PerPlane, data |-> PerPlane,
              tickets |-> <<>>, outstanding |-> 0, next_submit |-> 0,
              write_replies |-> PerPlane, read_replies |-> PerPlane, next_reply |-> 0,
              spill |-> <<>>, ok |-> TRUE]
    /\ mem_req = <<>> /\ mem_rsp = <<>>

-----------------------------------------------------------------------------
(* receive.  Every throw of the code makes ok FALSE.                         *)

OfType(msgs, types, rp) == SelectSeq(msgs, LAMBDA m : m.type \in types /\ m.rp = rp)

\* A SimpleMemRequest; got holds the write beats assembled so far.
Request(m) ==
    [write |-> m.type = "WriteReq", rp |-> m.rp, id |-> m.body[1], tag |-> m.body[2],
     beats |-> m.body[3], got |-> <<>>]

Requests(msgs, type, rp) ==
    LET ms == OfType(msgs, {type}, rp) IN [i \in 1..Len(ms) |-> Request(ms[i])]

DataGranules(msgs) == FoldLeft(LAMBDA n, m : n + m.n, 0, msgs)

Received(t, f, msgs) ==
    [t EXCEPT
        !.carry = CarryAfter(@, f),
        !.credits = AddTxCredit(@, CreditUpdates(f.credit) \o GrantUpdates(msgs)),
        !.writes = [rp \in RPs |-> @[rp] \o Requests(msgs, "WriteReq", rp)],
        !.reads = [rp \in RPs |-> @[rp] \o Requests(msgs, "ReadReq", rp)],
        !.data = [rp \in RPs |-> @[rp] \o OfType(msgs, {"WriteData", "WriteDataFull"}, rp)],
        !.ok = \A i \in 1..Len(msgs) :
                  msgs[i].type \in {"Misc", "WriteReq", "ReadReq", "WriteData", "WriteDataFull"}]

FitsReceiveSpace(t) ==
    \A rp \in RPs : /\ Len(t.writes[rp]) <= RequestSlots /\ Len(t.reads[rp]) <= RequestSlots
                    /\ DataGranules(t.data[rp]) <= WdataGranules
Checked(t) == [t EXCEPT !.ok = @ /\ FitsReceiveSpace(t)]

Receive(t) ==
    IF down = <<>> THEN t
    ELSE IF ~WellFormed(t.carry, Head(down)) THEN [t EXCEPT !.ok = FALSE]
    ELSE Checked(Received(t, Head(down), DecodedMessages(t.carry, Head(down))))

-----------------------------------------------------------------------------
(* collect: the oldest ticket of the response's direction, plane and ID.     *)

Matching(t, rsp) ==
    {i \in 1..Len(t.tickets) :
        LET k == t.tickets[i] IN k.write = rsp.write /\ k.rp = rsp.rp /\ k.id = rsp.id}

Reply(rsp) == [id |-> rsp.id, tag |-> rsp.tag, beats |-> rsp.beats, beat |-> 0]

Collect(t) ==
    LET rsp == Head(mem_rsp)
        i == CHOOSE j \in Matching(t, rsp) : \A o \in Matching(t, rsp) : j <= o
    IN  IF ~t.ok \/ mem_rsp = <<>> THEN t
        ELSE IF Matching(t, rsp) = {} \/ (~rsp.write /\ t.tickets[i].beats # rsp.beats)
             THEN [t EXCEPT !.ok = FALSE]
        ELSE IF rsp.write
             THEN [t EXCEPT !.tickets = RemoveAt(@, i),
                            !.write_replies[rsp.rp] = Append(@, Reply(rsp))]
             ELSE [t EXCEPT !.tickets = RemoveAt(@, i),
                            !.read_replies[rsp.rp] = Append(@, Reply(rsp))]

-----------------------------------------------------------------------------
(* assemble: on each plane one beat goes to the oldest write still short of  *)
(* data, which frees the receive space of the beat.                          *)

Incomplete(t, rp) ==
    {i \in 1..Len(t.writes[rp]) : Len(t.writes[rp][i].got) # t.writes[rp][i].beats}

Assembling(t) == {rp \in RPs : Incomplete(t, rp) # {} /\ t.data[rp] # <<>>}

DataReturns(t) ==
    [i \in 1..RpCount |-> [rp |-> i - 1, kind |-> "WriteData",
                           n |-> IF i - 1 \in Assembling(t) THEN Head(t.data[i - 1]).n ELSE 0]]

\* Fault: an assembler that feeds the newest write.
NewestJob(t, rp) == CHOOSE i \in Incomplete(t, rp) : \A j \in Incomplete(t, rp) : i >= j

Job(t, rp) == CHOOSE i \in Incomplete(t, rp) : \A j \in Incomplete(t, rp) : i <= j

Assemble(t) ==
    [t EXCEPT
        !.writes = [rp \in RPs |->
            IF rp \in Assembling(t)
            THEN [@[rp] EXCEPT ![Job(t, rp)].got = Append(@, Head(t.data[rp]).body)] ELSE @[rp]],
        !.data = [rp \in RPs |-> IF rp \in Assembling(t) THEN Tail(@[rp]) ELSE @[rp]],
        !.credits = ReturnRxCredit(@, DataReturns(t))]

-----------------------------------------------------------------------------
(* submit works on s = [t, q], the target and the memory's request FIFO.     *)
(* Slot 2 * rp is plane rp's reads, slot 2 * rp + 1 its writes.              *)

Submittable(t) ==
    {slot \in 0..(2 * RpCount - 1) :
        LET rp == slot \div 2
        IN  IF slot % 2 = 0 THEN t.reads[rp] # <<>>
            ELSE t.writes[rp] # <<>> /\ Len(t.writes[rp][1].got) = t.writes[rp][1].beats}

Ticket(req) == [write |-> req.write, rp |-> req.rp, id |-> req.id, beats |-> req.beats]

Submit(t) ==
    LET slot == FirstFrom(Submittable(t), t.next_submit, 2 * RpCount)
        rp == slot \div 2
        wr == slot % 2 = 1
        kind == IF wr THEN "WriteReq" ELSE "ReadReq"
        req == IF wr THEN Head(t.writes[rp]) ELSE Head(t.reads[rp])
    IN  IF Submittable(t) = {} \/ t.outstanding = MaxOutstanding \/ Len(mem_req) >= MemDepth
        THEN [t |-> t, q |-> mem_req]
        ELSE [q |-> Append(mem_req, req),
              t |-> [t EXCEPT
                        !.tickets = Append(@, Ticket(req)), !.outstanding = @ + 1,
                        !.writes[rp] = IF wr THEN Tail(@) ELSE @,
                        !.reads[rp] = IF wr THEN @ ELSE Tail(@),
                        !.credits = ReturnRxCredit(@, <<[rp |-> rp, kind |-> kind,
                                                         n |-> Granules[kind]]>>),
                        !.next_submit = (slot + 1) % (2 * RpCount)]]

-----------------------------------------------------------------------------
(* transmit works on x = [t, f], the target and the flit it fills.           *)

Repliable(t, queue, kind) ==
    {rp \in RPs : queue[rp] # <<>> /\ CanConsume(t.credits, rp, kind, Granules[kind])}

\* A transaction's slot is freed once all of its last reply is in a flit.
OutstandingAfter(t, whole, completes) ==
    IF whole /\ completes THEN t.outstanding - 1 ELSE t.outstanding

\* pack_fragment of a message that next_message has just paid for; completes: it is the last of
\* its transaction.
PackReply(x, msg, completes) ==
    LET took == Take(x.f, msg, 0)
    IN  [f |-> PackFragment(x.f, msg, 0),
         t |-> [x.t EXCEPT
                  !.credits = Consume(@, msg.rp, msg.type, msg.n),
                  !.next_reply = (msg.rp + 1) % RpCount,
                  !.spill = IF took < msg.n
                            THEN <<[msg |-> msg, done |-> took, completes |-> completes]>> ELSE @,
                  !.outstanding = OutstandingAfter(x.t, took = msg.n, completes)]]

PackWriteResp(x, rp) ==
    LET r == Head(x.t.write_replies[rp])
    IN  PackReply([x EXCEPT !.t.write_replies[rp] = Tail(@)],
                  AouMessage("WriteResp", rp, <<r.id, r.tag, 1, TRUE>>), TRUE)

PackReadData(x, rp) ==
    LET r == Head(x.t.read_replies[rp])
        last == r.beat + 1 = r.beats
    IN  PackReply([x EXCEPT !.t.read_replies[rp] =
                        IF last THEN Tail(@) ELSE [@ EXCEPT ![1].beat = r.beat + 1]],
                  AouMessage("ReadData", rp, <<r.id, r.tag, r.beat + 1, last>>), last)

TransmitRound(x) ==
    LET wr == Repliable(x.t, x.t.write_replies, "WriteResp")
        rd == Repliable(x.t, x.t.read_replies, "ReadData")
    IN  CASE x.t.spill # <<>> \/ RemainingGranules(x.f) = 0 \/ wr \cup rd = {} -> x
          [] OTHER -> IF wr # {} THEN PackWriteResp(x, FirstFrom(wr, x.t.next_reply, RpCount))
                      ELSE PackReadData(x, FirstFrom(rd, x.t.next_reply, RpCount))

\* The rest of the reply cut by the end of the previous flit.
ResumeReply(t) ==
    LET s == t.spill[1]
        done == s.done + Take(EmptyFlit, s.msg, s.done)
    IN  IF t.spill = <<>> THEN [t |-> t, f |-> EmptyFlit]
        ELSE [f |-> PackFragment(EmptyFlit, s.msg, s.done),
              t |-> [t EXCEPT
                       !.spill = IF done = s.msg.n THEN <<>> ELSE <<[s EXCEPT !.done = done]>>,
                       !.outstanding = OutstandingAfter(t, done = s.msg.n, s.completes)]]

FillFlit(t) ==
    FoldLeft(LAMBDA x, i : TransmitRound(x), ResumeReply(t), [i \in 1..FlitGranules |-> i])

\* A flit is sent if it holds a reply or a grant.
SendReplies(x) ==
    [t    |-> [x.t EXCEPT !.credits = AfterHeaderGrant(@)],
     sent |-> SelectSeq(<<[x.f EXCEPT !.credit = HeaderGrant(x.t.credits)]>>,
                        LAMBDA flit : flit # EmptyFlit)]

Transmit(t) ==
    IF Len(up) >= LinkDepth THEN [t |-> t, sent |-> <<>>] ELSE SendReplies(FillFlit(t))

-----------------------------------------------------------------------------
Popped(queue) == IF queue = <<>> THEN queue ELSE Tail(queue)

AfterTransmit(x, q) ==
    [tgt |-> x.t, down |-> Popped(down), up |-> up \o x.sent, mem_req |-> q,
     mem_rsp |-> Popped(mem_rsp)]
AfterSubmit(s) == AfterTransmit(Transmit(s.t), s.q)

\* A cycle that throws ends the thread.
AfterCollect(c) ==
    IF c.ok THEN AfterSubmit(Submit(Assemble(c)))
    ELSE [tgt |-> c, down |-> Popped(down), up |-> up, mem_req |-> mem_req, mem_rsp |-> mem_rsp]

TargetNext == AfterCollect(Collect(Receive(tgt)))

TargetCycle ==
    /\ tgt.ok
    /\ \E n \in {TargetNext} : /\ tgt' = n.tgt /\ down' = n.down /\ up' = n.up
                               /\ mem_req' = n.mem_req /\ mem_rsp' = n.mem_rsp
    /\ UNCHANGED <<out, rx>>

\* A cycle would change nothing.
TargetIdle ==
    \/ ~tgt.ok
    \/ /\ down = <<>> /\ mem_rsp = <<>>
       /\ TargetNext = [tgt |-> tgt, down |-> down, up |-> up, mem_req |-> mem_req, mem_rsp |-> mem_rsp]

\* SimpleBurstMemory.run serves one request at a time and answers in order.
MemoryServe ==
    LET req == Head(mem_req)
    IN  /\ mem_req # <<>> /\ Len(mem_rsp) < MemDepth
        /\ mem_req' = Tail(mem_req)
        /\ mem_rsp' = Append(mem_rsp, [write |-> req.write, rp |-> req.rp, id |-> req.id,
                                       tag |-> req.tag, beats |-> req.beats])
        /\ UNCHANGED <<tgt, linkVars>>
============================================================================
