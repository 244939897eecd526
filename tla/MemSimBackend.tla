--------------------------- MODULE MemSimBackend ---------------------------
(***************************************************************************)
(* MemSimBackend (src/gem5_axi/memsim_backend.cc), which carries the bursts  *)
(* of the AoU target to mem_sim, and the checks of the online interface it   *)
(* calls (src/mem_sim/integration/online.cpp).  One round of run is the      *)
(* action Run: a burst is taken from the FIFO, a piece of one is submitted,  *)
(* mem_sim steps, its completions are merged, the oldest burst is returned.  *)
(*                                                                         *)
(* A byte of data is the number of the burst that wrote it, or 0.  The byte  *)
(* mask of a write and the data of a failed read are not modelled.           *)
(*                                                                         *)
(* mem_sim is the environment: it may refuse a submission, completes what it *)
(* has accepted in any order and with any status, and orders the effects of  *)
(* submissions as it accepted them.  The AoU target issues bursts and takes  *)
(* answers when it likes.                                                    *)
(***************************************************************************)
EXTENDS Integers, Sequences, FiniteSets, FiniteSetsExt

CONSTANTS
    Kinds,              \* [write, addr, length, lock, strobe]; strobe: a strobe beside its lanes
    Size,               \* size: bytes of the window, which begins at base = 0
    Granule,            \* ss_mem_transaction_bytes
    Slots,              \* slots
    Hold,               \* hold: rounds a finished burst is kept
    InDepth, OutDepth,  \* depths of the request and response FIFOs
    MaxBursts           \* bound: bursts issued

ASSUME BackendAssumption ==
    /\ Size \in Nat \ {0} /\ Granule \in Nat \ {0} /\ Slots \in Nat \ {0}
    /\ Hold \in Nat /\ InDepth \in Nat \ {0} /\ OutDepth \in Nat \ {0} /\ MaxBursts \in Nat
    /\ Kinds \subseteq [write: BOOLEAN, addr: Nat, length: Nat \ {0}, lock: BOOLEAN, strobe: BOOLEAN]

VARIABLES
    request, response,  \* the FIFOs to and from the AoU target
    be,                 \* the backend's state
    mem,                \* environment: mem_sim's contents and its live submissions
    issued              \* environment: bursts issued
backendVars == <<request, response, be, mem, issued>>

NotHeld == -1
Window == 0 .. (Size - 1)

BackendInit ==
    /\ request = <<>> /\ response = <<>> /\ issued = 0
    /\ be = [bursts |-> <<>>, children |-> <<>>, next_mem |-> 1, held |-> NotHeld, ok |-> TRUE]
    /\ mem = [image |-> [a \in Window |-> 0], live |-> <<>>]

-----------------------------------------------------------------------------
(* accept                                                                    *)

\* A wrong strobe is found last and hides the other errors.
Status(k) ==
    CASE k.write /\ k.strobe -> "slverr"
      [] ~(k.write /\ k.strobe) /\ k.addr + k.length > Size -> "decerr"
      [] ~(k.write /\ k.strobe) /\ k.addr + k.length <= Size -> IF k.lock THEN "slverr" ELSE "ok"

\* A burst in error has nothing to send.
BurstOf(r) ==
    [n |-> r.n, kind |-> r.kind, status |-> Status(r.kind), pending |-> 0, candidate |-> 0,
     sent |-> IF Status(r.kind) = "ok" THEN 0 ELSE r.kind.length,
     data |-> [o \in 0..(r.kind.length - 1) |-> 0]]

HasRoom(b) == Len(b.bursts) < Slots

Accept(s) ==
    IF s.request = <<>> \/ ~HasRoom(s.be) THEN s
    ELSE [s EXCEPT !.be.bursts = Append(@, BurstOf(Head(s.request))), !.request = Tail(@)]

-----------------------------------------------------------------------------
(* One piece of a burst is submitted                                         *)

Unsent(bursts) == {i \in 1..Len(bursts) : bursts[i].sent < bursts[i].kind.length}

\* Fault: the youngest burst first.
LastUnsent(bursts) == Max(Unsent(bursts))
FirstUnsent(bursts) == Min(Unsent(bursts))

Address(b) == b.kind.addr + b.sent
ToGranuleEnd(b) == Granule - (Address(b) % Granule)
Piece(b) == IF b.kind.length - b.sent < ToGranuleEnd(b) THEN b.kind.length - b.sent ELSE ToGranuleEnd(b)

CandidateAfter(id) == 0

\* ss_mem_submit finds nothing wrong.
Legal(m, b, id) ==
    /\ Address(b) + Piece(b) <= Size
    /\ Piece(b) <= Granule
    /\ Address(b) \div Granule = (Address(b) + Piece(b) - 1) \div Granule
    /\ id \notin DOMAIN m.live

\* mem_sim accepts the piece: a write changes its bytes, a read takes theirs.
Stored(m, b, id) ==
    [image |-> IF b.kind.write
               THEN [a \in Window |-> IF a - Address(b) \in 0..(Piece(b) - 1) THEN b.n ELSE m.image[a]]
               ELSE m.image,
     live |-> [c \in DOMAIN m.live \cup {id} |->
                  IF c # id THEN m.live[c]
                  ELSE [bytes |-> Piece(b),
                        data |-> [o \in 0..(Piece(b) - 1) |-> m.image[Address(b) + o]]]]]

\* What burst b is after it has offered its next piece as id.
AfterOffer(b, id, accepted) ==
    IF accepted THEN [b EXCEPT !.candidate = CandidateAfter(id), !.sent = @ + Piece(b), !.pending = @ + 1]
                ELSE [b EXCEPT !.candidate = id]

\* Burst i offers its next piece as id.
Offered(s, i, id, accepted) ==
    LET b == s.be.bursts[i]
    IN  [s EXCEPT
            !.be = [bursts |-> [@.bursts EXCEPT ![i] = AfterOffer(b, id, accepted)],
                    children |-> IF ~accepted THEN @.children
                                 ELSE [c \in DOMAIN @.children \cup {id} |->
                                          IF c # id THEN @.children[c]
                                          ELSE [n |-> b.n, offset |-> b.sent, bytes |-> Piece(b)]],
                    next_mem |-> IF b.candidate = 0 THEN @.next_mem + 1 ELSE @.next_mem,
                    held |-> @.held,
                    ok |-> @.ok /\ Legal(s.mem, b, id)],
            !.mem = IF accepted THEN Stored(@, b, id) ELSE @]

Submit(s, accepted) ==
    IF Unsent(s.be.bursts) = {} THEN s
    ELSE LET i == FirstUnsent(s.be.bursts)
             c == s.be.bursts[i].candidate
         IN  Offered(s, i, IF c = 0 THEN s.be.next_mem ELSE c, accepted)

-----------------------------------------------------------------------------
(* The completions ids, of which some fail                                   *)

\* What the completions mine do to their burst.
Merged(b, children, live, mine, failing) ==
    [b EXCEPT
        !.pending = @ - Cardinality(mine),
        !.status = IF mine \cap failing # {} THEN "slverr" ELSE @,
        !.data = [o \in DOMAIN @ |->
                     IF b.kind.write \/ ~ \E c \in mine : o - children[c].offset \in 0..(children[c].bytes - 1)
                     THEN @[o]
                     ELSE LET c == CHOOSE d \in mine : o - children[d].offset \in 0..(children[d].bytes - 1)
                          IN  live[c].data[o - children[c].offset]]]

Complete(s, ids, failing) ==
    LET known == ids \cap DOMAIN s.be.children
        of(b) == {c \in known : s.be.children[c].n = b.n}
    IN  [s EXCEPT
            !.be = [bursts |-> [i \in DOMAIN @.bursts |->
                                   Merged(@.bursts[i], s.be.children, s.mem.live, of(@.bursts[i]), failing)],
                    children |-> [c \in DOMAIN @.children \ ids |-> @.children[c]],
                    next_mem |-> @.next_mem,
                    held |-> @.held,
                    ok |-> @.ok /\ \A c \in ids : c \in known /\ s.mem.live[c].bytes = s.be.children[c].bytes],
            !.mem = [image |-> @.image, live |-> [c \in DOMAIN @.live \ ids |-> @.live[c]]]]

-----------------------------------------------------------------------------
(* The oldest burst is returned                                              *)

\* Fault: a burst is finished once all of it is submitted.
AllSent(b) == b.sent = b.kind.length
Finished(b) == b.sent = b.kind.length /\ b.pending = 0

\* Fault: the time of return is set anew in every round.
HeldAnew(held) == 0
\* Rounds since the oldest burst was found finished (0 in that round); Hold or more are alike.
HeldAfter(held) == IF held < Hold THEN held + 1 ELSE held

Answer(b) == [n |-> b.n, status |-> b.status,
              data |-> IF b.kind.write \/ b.status # "ok" THEN <<>> ELSE b.data]

ReturnOldest(s) ==
    IF s.be.bursts = <<>> \/ ~Finished(Head(s.be.bursts)) THEN s
    ELSE LET held == HeldAfter(s.be.held)
         IN  IF held >= Hold /\ Len(s.response) < OutDepth
             THEN [s EXCEPT !.response = Append(@, Answer(Head(s.be.bursts))),
                            !.be.bursts = Tail(@), !.be.held = NotHeld]
             ELSE [s EXCEPT !.be.held = held]

-----------------------------------------------------------------------------
Backend == [be |-> be, mem |-> mem, request |-> request, response |-> response]

\* One round, in which mem_sim takes the piece if accepted, and completes ids.
RunRound(accepted) ==
    \E s \in {Submit(Accept(Backend), accepted)} :
        \E ids \in SUBSET DOMAIN s.mem.live : \E failing \in SUBSET ids :
            \E t \in {ReturnOldest(Complete(s, ids, failing))} :
                be' = t.be /\ mem' = t.mem /\ request' = t.request /\ response' = t.response

Run == be.ok /\ (\E accepted \in BOOLEAN : RunRound(accepted)) /\ UNCHANGED issued

Issue(k) ==
    /\ issued < MaxBursts /\ Len(request) < InDepth
    /\ request' = Append(request, [n |-> issued + 1, kind |-> k])
    /\ issued' = issued + 1
    /\ UNCHANGED <<response, be, mem>>

TakeResponse ==
    /\ response # <<>> /\ response' = Tail(response)
    /\ UNCHANGED <<request, be, mem, issued>>

BackendNext ==
    \/ Run
    \/ \E k \in Kinds : Issue(k)
    \/ TakeResponse

BackendSpec == BackendInit /\ [][BackendNext]_backendVars

Oldest(ids) == {c \in ids : \A d \in ids : c <= d}

\* The clock runs, mem_sim does not refuse for ever and completes its oldest submission, and the
\* AoU target takes answers.
Submitted == Unsent(be.bursts) # {} /\ be.ok /\ RunRound(TRUE) /\ UNCHANGED issued
CompleteOldest ==
    DOMAIN mem.live # {} /\ Run /\ Oldest(DOMAIN mem.live) \cap DOMAIN mem.live' = {}

BackendFairness ==
    /\ WF_backendVars(Run) /\ WF_backendVars(Submitted)
    /\ WF_backendVars(CompleteOldest) /\ WF_backendVars(TakeResponse)

BackendFairSpec == BackendSpec /\ BackendFairness

-----------------------------------------------------------------------------
\* The backend owns as many bursts as it has slots, whatever mem_sim refuses, and a burst is
\* never held beyond its time.
BackendTypeOK ==
    /\ Len(be.bursts) <= Slots /\ be.held \in {NotHeld} \cup 0..Hold
    /\ Len(request) <= InDepth /\ Len(response) <= OutDepth
    /\ \A i \in 1..Len(be.bursts) : be.bursts[i].sent \in 0..be.bursts[i].kind.length

\* No call of the online interface fails and no completion is of an unknown child: no number is
\* used while it is live, no piece crosses a granule or the window, whatever was refused before.
NeverFatal == be.ok

\* The backend's children are exactly what mem_sim has live, each of a burst it still holds; the
\* children of a burst are disjoint parts of what the burst has sent, as many as it has pending.
LedgersMatch ==
    LET child(c) == be.children[c].offset .. (be.children[c].offset + be.children[c].bytes - 1)
        of(i) == {c \in DOMAIN be.children : be.children[c].n = be.bursts[i].n}
    IN  /\ DOMAIN be.children = DOMAIN mem.live
        /\ DOMAIN be.children = UNION {of(i) : i \in 1..Len(be.bursts)}
        /\ \A i \in 1..Len(be.bursts) :
              /\ Cardinality(of(i)) = be.bursts[i].pending
              /\ \A c \in of(i) : child(c) \subseteq 0..(be.bursts[i].sent - 1)
              /\ \A c, d \in of(i) : c # d => child(c) \cap child(d) = {}

\* No call of the online interface fails, and the backend's children are exactly what mem_sim
\* has live, disjoint parts of what their bursts have sent (memsim_backend.cc).
LedgersAgree == BackendTypeOK /\ NeverFatal /\ LedgersMatch

\* The image as it would be had the bursts before the i-th been sent in full: what a byte holds, or
\* the last of these bursts that has still to write it.
Unwritten(bursts, i, a) ==
    {j \in 1..(i - 1) : bursts[j].kind.write
                         /\ a - bursts[j].kind.addr \in bursts[j].sent..(bursts[j].kind.length - 1)}
ImageBefore(bursts, image, i) ==
    [a \in Window |-> IF Unwritten(bursts, i, a) = {} THEN image[a] ELSE bursts[Max(Unwritten(bursts, i, a))].n]

\* The children of burst n that carry its byte o.
Carrying(children, n, o) ==
    {c \in DOMAIN children : children[c].n = n /\ o - children[c].offset \in 0..(children[c].bytes - 1)}

\* What burst r must return, of the image before it: what has come, what is on its way, what is
\* still to be asked for.
Wanted(r, children, live, image) ==
    IF r.kind.write \/ Status(r.kind) # "ok" THEN <<>>
    ELSE [o \in 0..(r.kind.length - 1) |->
             IF o >= r.sent THEN image[r.kind.addr + o]
             ELSE IF Carrying(children, r.n, o) = {} THEN r.data[o]
             ELSE LET c == CHOOSE d \in Carrying(children, r.n, o) : TRUE
                  IN  live[c].data[o - children[c].offset]]

OrderedMemory == INSTANCE BurstMemory WITH
    Numbers <- 1..MaxBursts,
    held <- [i \in 1..Len(be.bursts) |->
                [n |-> be.bursts[i].n, served |-> Status(be.bursts[i].kind) = "ok",
                 data |-> Wanted(be.bursts[i], be.children, mem.live, ImageBefore(be.bursts, mem.image, i))]],
    image <- ImageBefore(be.bursts, mem.image, Len(be.bursts) + 1),
    response <- [i \in 1..Len(response) |-> [n |-> response[i].n, ok |-> response[i].status = "ok",
                                             data |-> response[i].data]]

\* The backend is a memory that takes bursts one after another and answers them in that order:
\* though pieces are refused, retried and completed in any order, a read returns the last
\* writes taken before it, whole, and an error is reported exactly where there is one.
ImplementsBurstMemory == OrderedMemory!MemorySpec

\* Every burst issued is answered: one that waits for a slot, whose pieces are refused, or that
\* sends nothing, too.  Bursts issued are bounded, so one starved for ever would show.
EveryBurstAnswered == []<>(request = <<>> /\ be.bursts = <<>>)
============================================================================
