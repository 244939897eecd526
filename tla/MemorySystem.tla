---------------------------- MODULE MemorySystem ----------------------------
(***************************************************************************)
(* mem_sim's MemorySystem (src/mem_sim/src/core/system.cpp): the ingress     *)
(* queue of each stack, the dispatch to channel controllers, the collection  *)
(* of their responses under back-pressure and the assembly of host           *)
(* responses.  A host request is a sequence of transactions, each on a line. *)
(*                                                                         *)
(* A controller is what MemController shows of it: a bounded queue whose     *)
(* entries complete in any order that keeps the order of each line, and a    *)
(* bounded queue of responses.  A tick is one action: dispatch, completion   *)
(* of at most one transaction of each controller, collection.  The frontend  *)
(* submits the transactions of a request in order, retries what is refused,  *)
(* and uses a tag again after it took the answer.  Data is the number of the *)
(* transaction that wrote it; n is that number, h numbers host requests.     *)
(***************************************************************************)
EXTENDS Integers, Sequences, FiniteSets, FiniteSetsExt, SequencesExt

CONSTANTS
    Configs,                \* the configurations a behaviour may have: records of
        \* kinds: the requests [write, lines, qos] the frontend may make;
        \* mapper: "decoded" (or "xor": a function of the address too) or "round_robin";
        \* strict: the QoS policy, FCFS otherwise; delivery: "host", "transaction" or "both";
        \* ingress_depth, dispatch_width
    Stacks, Channels,       \* both counted from 0
    Lines, Tags,            \* host_request_id
    ControllerDepth, ControllerResponses, HostCapacity, TransactionCapacity,
    MaxHosts                \* bound: host requests made

\* What the constants must be.
SystemAssumption ==
    /\ {ControllerDepth, ControllerResponses, HostCapacity, TransactionCapacity} \subseteq Nat \ {0}
    /\ \A c \in Configs :
           /\ c.mapper \in {"decoded", "round_robin"} /\ c.strict \in BOOLEAN
           /\ c.delivery \in {"host", "transaction", "both"}
           /\ {c.ingress_depth, c.dispatch_width} \subseteq Nat \ {0}
           /\ \A k \in c.kinds : k.lines # <<>> /\ ToSet(k.lines) \subseteq Lines

VARIABLES
    cfg,        \* the configuration; it never changes
    ms,         \* ingress, cursor, accepted, queue, done, image; submissions, assemblies, hosts, txs
    offer,      \* what the frontend is about to submit; NoOffer
    made,       \* host requests made
    truth,      \* the lines as the accepted transactions order them
    taken       \* what the frontend took: host responses, or transactions in transaction mode
vars == <<cfg, ms, offer, made, truth, taken>>

NoOffer == [h |-> 0]
StackCount == Cardinality(Stacks)
ChannelCount == Cardinality(Channels)
Controllers == Stacks \X Channels
\* Controllers in the order of the vector: by stack, then by channel.
ControllerOrder == SetToSortSeq(Controllers, LAMBDA x, y : x[1] < y[1] \/ (x[1] = y[1] /\ x[2] < y[2]))
RetainsHosts == cfg.delivery \in {"host", "both"}
RetainsTransactions == cfg.delivery \in {"transaction", "both"}
NoTags == [t \in {} |-> 0]

Init ==
    /\ cfg \in Configs
    /\ ms = [ingress |-> [s \in Stacks |-> <<>>], cursor |-> [s \in Stacks |-> 0], accepted |-> 0,
             queue |-> [c \in Controllers |-> <<>>], done |-> [c \in Controllers |-> <<>>],
             image |-> [l \in Lines |-> 0], submissions |-> NoTags, assemblies |-> NoTags,
             hosts |-> <<>>, txs |-> <<>>, fatal |-> FALSE]
    /\ offer = NoOffer /\ made = 0
    /\ truth = [l \in Lines |-> 0]
    /\ taken = <<>>

-----------------------------------------------------------------------------
(* try_submit                                                                *)

StackOf(l) == l % StackCount
ChannelOf(m, l) ==
    CASE cfg.mapper = "decoded" -> (l \div StackCount) % ChannelCount
      [] cfg.mapper = "round_robin" -> m.cursor[StackOf(l)] % ChannelCount

\* What try_submit refuses with an exception.
Illegal(m, o) ==
    IF o.tag \notin DOMAIN m.submissions THEN o.index # 1
    ELSE LET host == m.submissions[o.tag]
         IN  host.count # Len(o.kind.lines) \/ host.write # o.kind.write \/ o.index \in host.accepted

HasRoom(m, l) == Len(m.ingress[StackOf(l)]) < cfg.ingress_depth
Line(o) == o.kind.lines[o.index]
Transaction(m, o) ==
    [h |-> o.h, tag |-> o.tag, index |-> o.index, count |-> Len(o.kind.lines), write |-> o.kind.write,
     line |-> Line(o), qos |-> o.kind.qos, n |-> m.accepted + 1, channel |-> ChannelOf(m, Line(o)),
     want |-> truth[Line(o)]]
PutTag(f, t, v) == [x \in DOMAIN f \cup {t} |-> IF x = t THEN v ELSE f[x]]
DropTag(f, t) == [x \in DOMAIN f \ {t} |-> f[x]]
\* record_submitted_transaction
Recorded(submissions, o) ==
    LET host == IF o.tag \in DOMAIN submissions THEN submissions[o.tag]
                ELSE [count |-> Len(o.kind.lines), write |-> o.kind.write, accepted |-> {}, completed |-> 0]
    IN  PutTag(submissions, o.tag, [host EXCEPT !.accepted = @ \cup {o.index}])
Enqueued(m, o) ==
    [m EXCEPT !.accepted = @ + 1, !.ingress[StackOf(Line(o))] = Append(@, Transaction(m, o)),
              !.cursor[StackOf(Line(o))] = @ + 1, !.submissions = Recorded(@, o)]
TrySubmit(m, o) ==
    CASE Illegal(m, o) -> [m EXCEPT !.fatal = TRUE]
      [] ~Illegal(m, o) /\ HasRoom(m, Line(o)) -> Enqueued(m, o)
      [] OTHER -> m

\* The frontend's calls between two ticks.
Live(t) == \E i \in DOMAIN ms.hosts : ms.hosts[i].tag = t
InUse(t) == t \in DOMAIN ms.submissions \/ Live(t) \/ \E i \in DOMAIN ms.txs : ms.txs[i].tag = t
Request(k, t) ==
    /\ offer = NoOffer /\ made < MaxHosts /\ ~InUse(t)
    /\ offer' = [h |-> made + 1, tag |-> t, index |-> 1, kind |-> k]
    /\ made' = made + 1
    /\ UNCHANGED <<cfg, ms, truth, taken>>
Submit ==
    /\ offer # NoOffer
    /\ ms' = TrySubmit(ms, offer)
    /\ ms' # ms
    /\ truth' = IF offer.kind.write THEN [truth EXCEPT ![Line(offer)] = ms'.accepted] ELSE truth
    /\ offer' = IF offer.index = Len(offer.kind.lines) THEN NoOffer ELSE [offer EXCEPT !.index = @ + 1]
    /\ UNCHANGED <<cfg, made, taken>>

-----------------------------------------------------------------------------
(* dispatch_stack_ingress                                                    *)

\* Fault: the class alone decides, and the last of the class wins.
LastOfClass(q) == Max({i \in DOMAIN q : \A j \in DOMAIN q : q[j].qos <= q[i].qos})
Selected(q) ==
    IF cfg.strict THEN Min({i \in DOMAIN q : \A j \in DOMAIN q : q[j].qos <= q[i].qos}) ELSE 1

\* One slot: a full controller stops its stack for this tick, the others go on.
DispatchOne(m, s) ==
    IF m.ingress[s] = <<>> THEN m
    ELSE LET i == Selected(m.ingress[s])  r == m.ingress[s][i]  c == <<s, r.channel>>
         IN  IF Len(m.queue[c]) >= ControllerDepth THEN m
             ELSE [m EXCEPT !.queue[c] = Append(@, r), !.ingress[s] = RemoveAt(@, i)]
DispatchStack(m, s) == FoldLeft(LAMBDA x, slot : DispatchOne(x, s), m, [i \in 1..cfg.dispatch_width |-> i])
Dispatch(m) == FoldLeft(DispatchStack, m, SetToSortSeq(Stacks, <))

-----------------------------------------------------------------------------
(* The controllers                                                           *)

\* An entry may complete when no older one of its line is left and its response has room.
Completable(m, c) ==
    IF Len(m.done[c]) >= ControllerResponses THEN {}
    ELSE {i \in DOMAIN m.queue[c] : \A j \in 1..(i - 1) : m.queue[c][j].line # m.queue[c][i].line}
Completed(m, c, i) ==
    LET r == m.queue[c][i]
    IN  [m EXCEPT !.queue[c] = RemoveAt(@, i),
                  !.image = IF r.write THEN [@ EXCEPT ![r.line] = r.n] ELSE @,
                  !.done[c] = Append(@, [h |-> r.h, tag |-> r.tag, index |-> r.index, count |-> r.count,
                                         write |-> r.write, want |-> r.want,
                                         got |-> IF r.write THEN 0 ELSE m.image[r.line]])]
\* Every controller completes its oldest transaction, if it can.
CompleteAll(m) ==
    FoldLeft(LAMBDA x, c : IF 1 \in Completable(x, c) THEN Completed(x, c, 1) ELSE x, m, ControllerOrder)

-----------------------------------------------------------------------------
(* collect_responses                                                         *)

Blocked(m) ==
    \/ RetainsTransactions /\ Len(m.txs) >= TransactionCapacity
    \/ RetainsHosts /\ Len(m.hosts) >= HostCapacity

\* Fault: the tag is free as soon as the last transaction is in.
FreeAtOnce(submissions, t) ==
    IF submissions[t].completed + 1 >= submissions[t].count
    THEN DropTag(submissions, t)
    ELSE [submissions EXCEPT ![t].completed = @ + 1]
\* record_completed_transaction: the tag is kept until the host response is popped.
Counted(submissions, t) ==
    IF submissions[t].completed + 1 >= submissions[t].count /\ ~RetainsHosts
    THEN DropTag(submissions, t)
    ELSE [submissions EXCEPT ![t].completed = @ + 1]

Publish(m, host) ==
    IF Len(m.hosts) >= HostCapacity THEN [m EXCEPT !.fatal = TRUE] ELSE [m EXCEPT !.hosts = Append(@, host)]
\* build_host_response
Host(parts, r) ==
    [h |-> r.h, tag |-> r.tag, status |-> IF \E i \in DOMAIN parts : parts[i].write # r.write THEN "invalid" ELSE "ok",
     parts |-> parts]
Invalid(r) == [h |-> r.h, tag |-> r.tag, status |-> "invalid", parts |-> <<r>>]

Missing == [h |-> 0, index |-> 0, count |-> 0, write |-> FALSE]
AssemblyDone(m, t) == [m EXCEPT !.assemblies = DropTag(@, t)]
AllParts(parts) == \A i \in DOMAIN parts : parts[i] # Missing
Aggregate(m, r) ==
    LET old == IF r.tag \in DOMAIN m.assemblies THEN m.assemblies[r.tag] ELSE [i \in 1..r.count |-> Missing]
        new == [old EXCEPT ![r.index] = r]
    IN  IF Len(old) # r.count \/ old[r.index] # Missing
        THEN AssemblyDone(Publish(m, Invalid(r)), r.tag)
        ELSE IF AllParts(new)
        THEN AssemblyDone(Publish([m EXCEPT !.assemblies = PutTag(@, r.tag, new)], Host(new, r)), r.tag)
        ELSE [m EXCEPT !.assemblies = PutTag(@, r.tag, new)]

CollectOne(m, c) ==
    IF m.done[c] = <<>> \/ Blocked(m) THEN m
    ELSE LET r == Head(m.done[c])
             popped == [m EXCEPT !.done[c] = Tail(@), !.submissions = Counted(@, r.tag),
                                 !.txs = IF RetainsTransactions THEN Append(@, r) ELSE @]
         IN  IF RetainsHosts THEN Aggregate(popped, r) ELSE popped
\* A full queue stops the collection of all controllers, not only of this one.
CollectController(m, c) == FoldLeft(LAMBDA x, slot : CollectOne(x, c), m, m.done[c])
Collect(m) == FoldLeft(CollectController, m, ControllerOrder)

-----------------------------------------------------------------------------
(* A tick, and what the frontend takes                                       *)

\* At most one controller completes, and perhaps out of turn.
Tick ==
    LET sent == Dispatch(ms)
    IN  /\ ms' \in {Collect(sent)} \cup
                    UNION {{Collect(Completed(sent, c, i)) : i \in Completable(sent, c)} : c \in Controllers}
        /\ ms' # ms
        /\ UNCHANGED <<cfg, offer, made, truth, taken>>
Ticked(m) == Collect(CompleteAll(Dispatch(m)))
FullTick == ms' = Ticked(ms) /\ UNCHANGED <<cfg, offer, made, truth, taken>>

Released(submissions, t) ==
    IF t \in DOMAIN submissions /\ submissions[t].completed >= submissions[t].count
    THEN DropTag(submissions, t) ELSE submissions
PopHost ==
    /\ ms.hosts # <<>>
    /\ ms' = [ms EXCEPT !.hosts = Tail(@), !.submissions = Released(@, Head(ms.hosts).tag)]
    /\ taken' = Append(taken, Head(ms.hosts))
    /\ UNCHANGED <<cfg, offer, made, truth>>
PopTransaction ==
    /\ ms.txs # <<>>
    /\ ms' = [ms EXCEPT !.txs = Tail(@)]
    /\ taken' = IF RetainsHosts THEN taken ELSE Append(taken, Head(ms.txs))
    /\ UNCHANGED <<cfg, offer, made, truth>>

Next ==
    \/ \E k \in cfg.kinds, t \in Tags : Request(k, t)
    \/ Submit \/ Tick \/ FullTick \/ PopHost \/ PopTransaction

Spec == Init /\ [][Next]_vars
\* Weak fairness; for Submit and FullTick with the enabling condition written out.
Moves == Ticked(ms) # ms
Admits == offer # NoOffer /\ TrySubmit(ms, offer) # ms
FairSpec ==
    /\ Spec
    /\ []<>~Admits \/ []<><<Submit>>_vars
    /\ []<>~Moves \/ []<><<FullTick>>_vars
    /\ WF_vars(PopHost) /\ WF_vars(PopTransaction)

-----------------------------------------------------------------------------
(* Properties                                                                *)

\* The shape of the state; no queue is longer than its depth.
TypeOK ==
    /\ made \in 0..MaxHosts /\ ms.accepted \in Nat /\ ms.fatal \in BOOLEAN
    /\ \A s \in Stacks : Len(ms.ingress[s]) <= cfg.ingress_depth
    /\ \A c \in Controllers : Len(ms.queue[c]) <= ControllerDepth /\ Len(ms.done[c]) <= ControllerResponses
    /\ Len(ms.hosts) <= HostCapacity /\ Len(ms.txs) <= TransactionCapacity
    /\ DOMAIN ms.submissions \subseteq Tags /\ DOMAIN ms.assemblies \subseteq Tags

\* A frontend that keeps to the protocol meets no exception: not for its tags, and never for a
\* host queue that fills up between the check and the response.
NeverFatal == ~ms.fatal

InFlight(t) ==
    {r \in UNION {ToSet(ms.ingress[s]) : s \in Stacks} \cup UNION {ToSet(ms.queue[c]) : c \in Controllers} : r.tag = t}
Uncollected(t) == {<<c, i>> \in Controllers \X (1..ControllerResponses) : i \in DOMAIN ms.done[c] /\ ms.done[c][i].tag = t}
\* The registry of try_submit is exact: of the accepted transactions of a tag those not counted as
\* completed are in a queue, each once. So a tag is
\* freed when, and only when, nothing of it is left and its answer, if it has one, was popped.
LedgerExact ==
    /\ \A t \in DOMAIN ms.submissions :
           LET host == ms.submissions[t]
           IN  Cardinality(host.accepted) = host.completed + Cardinality(InFlight(t)) + Cardinality(Uncollected(t))
    /\ RetainsHosts => \A i \in DOMAIN ms.hosts : ms.hosts[i].tag \in DOMAIN ms.submissions
    /\ \A t \in Tags \ DOMAIN ms.submissions : InFlight(t) = {} /\ Uncollected(t) = {} /\ t \notin DOMAIN ms.assemblies

\* A host response has all transactions of one request, in their order, whatever order they came in.
Whole(host) ==
    /\ host.status = "ok" /\ host.parts # <<>>
    /\ \A i \in DOMAIN host.parts : host.parts[i].h = host.h /\ host.parts[i].index = i /\ host.parts[i].count = Len(host.parts)
AnswersWhole == \A i \in DOMAIN ms.hosts : Whole(ms.hosts[i])

\* No host request is answered twice.
AnsweredOnce ==
    RetainsHosts =>
        LET all == taken \o ms.hosts IN \A i, j \in DOMAIN all : all[i].h = all[j].h => i = j

\* A read returns the line as the writes accepted before it left it, on its way through ingress
\* and channel queues.
Responses ==
    UNION {ToSet(ms.done[c]) : c \in Controllers} \cup ToSet(ms.txs) \cup UNION {ToSet(h.parts) : h \in ToSet(ms.hosts)}
ReadsSeeWrites == ~cfg.strict /\ cfg.mapper = "decoded" => \A r \in Responses : ~r.write => r.got = r.want

\* With a frontend that takes its responses, every host request made is, time and again, answered.
Answered(h) ==
    IF RetainsHosts THEN \E i \in DOMAIN taken : taken[i].h = h
    ELSE \E i \in DOMAIN taken : taken[i].h = h /\ Cardinality({j \in DOMAIN taken : taken[j].h = h}) = taken[i].count
EveryHostAnswered == \A h \in 1..made : Answered(h)

=============================================================================
