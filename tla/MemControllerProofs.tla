------------------------ MODULE MemControllerProofs ------------------------
(***************************************************************************)
(* With open page, a request that had its row opened finds it open when its  *)
(* turn comes: ActiveKeepsRow, for any number of banks, any depths of the     *)
(* queues, any requests, and any maintenance.                                *)
(*                                                                         *)
(* The invariant Sound speaks of a controller in the middle of a tick as well   *)
(* as between two: every step of a tick is shown to keep it, and a tick is      *)
(* their composition.  It adds to ActiveKeepsRow that what is in the queues    *)
(* of data requests is data requests and what is in those of maintenance is     *)
(* maintenance, and that no queue exceeds its depth.                           *)
(***************************************************************************)
EXTENDS MemController, SequenceTheorems, WellFoundedInduction, TLAPS

Fields == {"next", "read", "write", "active", "priority", "waiting", "scheduled", "buffered", "pending",
           "responses", "phy", "image", "row", "accesses", "precharge", "writing"}

Queue(q) == q \in Seq(Range(q))
IsData(r) == r.cmd = "none" /\ r.addr \in Nat
IsCommand(r) == r.cmd \in {"PREPB", "REFPB", "REFAB"}
DataQueue(q) == Queue(q) /\ \A i \in 1 .. Len(q) : IsData(q[i])
CommandQueue(q) == Queue(q) /\ \A i \in 1 .. Len(q) : IsCommand(q[i])

QueuesSound(s) ==
    /\ DataQueue(s.read) /\ Len(s.read) <= ReadDepth
    /\ DataQueue(s.write) /\ Len(s.write) <= WriteDepth
    /\ DataQueue(s.active) /\ Len(s.active) <= BankCount
    /\ CommandQueue(s.priority) /\ Len(s.priority) <= PriorityDepth
    /\ CommandQueue(s.waiting)
RowsSound(s) ==
    /\ s.row \in [BankIds -> Nat \cup {Closed}]
    /\ \A i \in 1 .. Len(s.active) : s.row[Bank(s.active[i])] = RowOf(s.active[i].addr)
Sound(s) == DOMAIN s = Fields /\ QueuesSound(s) /\ RowsSound(s)

OpenPage == cfg \in Configs /\ cfg.row_policy = "open"
ControllerInv == cfg \in Configs /\ (RowPolicy = "open" => Sound(mc))

-----------------------------------------------------------------------------
(* Numbers and queues                                                        *)

LEMMA LeastOf ==
    ASSUME NEW T \in SUBSET Nat, T # {}
    PROVE  Min(T) \in T /\ \A y \in T : Min(T) <= y
<1>1. PICK x \in T : \A y \in T : ~(<<y, x>> \in OpToRel(<, Nat))
  BY NatLessThanWellFounded, WFMin
<1>2. ASSUME NEW y \in T PROVE x <= y
  <2>1. x \in Nat /\ y \in Nat
    OBVIOUS
  <2>2. y < x => <<y, x>> \in OpToRel(<, Nat)
    BY <2>1 DEF OpToRel
  <2>3. ~(y < x)
    BY <1>1, <2>2
  <2>4. QED
    BY <2>1, <2>3
<1>3. QED
  BY <1>2 DEF Min

LEMMA LeastOfTwo ==
    ASSUME NEW a \in Nat, NEW b \in Nat
    PROVE  Min({a, b}) \in Nat /\ Min({a, b}) <= a /\ Min({a, b}) <= b
<1>1. Min({a, b}) \in {a, b} /\ \A y \in {a, b} : Min({a, b}) <= y
  BY LeastOf
<1>2. QED
  BY <1>1

LEMMA AppendQueue ==
    ASSUME NEW q, Queue(q), NEW x
    PROVE  /\ Queue(Append(q, x)) /\ Len(q) \in Nat /\ Len(Append(q, x)) = Len(q) + 1
           /\ \A i \in 1 .. (Len(q) + 1) : Append(q, x)[i] = IF i <= Len(q) THEN q[i] ELSE x
<1> DEFINE S == Range(q) \cup {x}
<1>1. q \in Seq(S) /\ x \in S
  BY DEF Queue
<1> HIDE DEF S
<1>2. Append(q, x) \in Seq(S)
  BY <1>1
<1>3. Append(q, x) \in Seq(Range(Append(q, x)))
  BY <1>2, SeqOfRange
<1>4. QED
  BY <1>1, <1>3 DEF Queue

LEMMA ConcatQueue ==
    ASSUME NEW q, Queue(q), NEW t, Queue(t)
    PROVE  /\ Queue(q \o t) /\ Len(q) \in Nat /\ Len(t) \in Nat /\ Len(q \o t) = Len(q) + Len(t)
           /\ \A i \in 1 .. (Len(q) + Len(t)) : (q \o t)[i] = IF i <= Len(q) THEN q[i] ELSE t[i - Len(q)]
<1> DEFINE S == Range(q) \cup Range(t)
<1>1. q \in Seq(S) /\ t \in Seq(S)
  BY DEF Queue
<1> HIDE DEF S
<1>2. /\ q \o t \in Seq(S) /\ Len(q) \in Nat /\ Len(t) \in Nat /\ Len(q \o t) = Len(q) + Len(t)
      /\ \A i \in 1 .. (Len(q) + Len(t)) : (q \o t)[i] = IF i <= Len(q) THEN q[i] ELSE t[i - Len(q)]
  BY <1>1, ConcatProperties
<1>3. q \o t \in Seq(Range(q \o t))
  BY <1>2, SeqOfRange
<1>4. QED
  BY <1>2, <1>3 DEF Queue

LEMMA SubSeqQueue ==
    ASSUME NEW q, Queue(q), NEW a \in Nat \ {0}, NEW b \in Nat, b <= Len(q)
    PROVE  /\ Queue(SubSeq(q, a, b)) /\ Len(q) \in Nat
           /\ Len(SubSeq(q, a, b)) = IF a <= b THEN b - a + 1 ELSE 0
           /\ \A i \in 1 .. (b - a + 1) : SubSeq(q, a, b)[i] = q[a + i - 1] /\ a + i - 1 \in 1 .. Len(q)
<1> DEFINE S == Range(q)
<1>1. q \in Seq(S)
  BY DEF Queue
<1> HIDE DEF S
<1>2. Len(q) \in Nat /\ \A i \in 1 .. Len(q) : q[i] \in S
  BY <1>1
<1>3. \A i \in a .. b : q[i] \in S
  BY <1>2
<1>4. /\ SubSeq(q, a, b) \in Seq(S) /\ Len(SubSeq(q, a, b)) = IF a <= b THEN b - a + 1 ELSE 0
      /\ \A i \in 1 .. (b - a + 1) : SubSeq(q, a, b)[i] = q[a + i - 1]
  BY <1>3, SubSeqProperties
<1>5. SubSeq(q, a, b) \in Seq(Range(SubSeq(q, a, b)))
  BY <1>4, SeqOfRange
<1>6. QED
  BY <1>2, <1>4, <1>5 DEF Queue

LEMMA RemoveQueue ==
    ASSUME NEW q, Queue(q), NEW p \in 1 .. Len(q)
    PROVE  /\ Queue(RemoveAt(q, p)) /\ Len(q) \in Nat /\ Len(RemoveAt(q, p)) = Len(q) - 1
           /\ \A i \in 1 .. (Len(q) - 1) : RemoveAt(q, p)[i] = IF i < p THEN q[i] ELSE q[i + 1]
<1> DEFINE front == SubSeq(q, 1, p - 1)
           back == SubSeq(q, p + 1, Len(q))
<1>1. Len(q) \in Nat
  BY DEF Queue
<1>2. /\ Queue(front) /\ Len(front) = p - 1
      /\ \A i \in 1 .. (p - 1) : front[i] = q[i]
  <2>1. 1 \in Nat \ {0} /\ p - 1 \in Nat /\ p - 1 <= Len(q)
    BY <1>1
  <2>2. QED
    BY <1>1, <2>1, SubSeqQueue
<1>3. /\ Queue(back) /\ Len(back) = Len(q) - p
      /\ \A i \in 1 .. (Len(q) - p) : back[i] = q[p + i]
  <2>1. p + 1 \in Nat \ {0} /\ Len(q) <= Len(q)
    BY <1>1
  <2>2. QED
    BY <1>1, <2>1, SubSeqQueue
<1>4. RemoveAt(q, p) = front \o back
  BY DEF RemoveAt
<1> HIDE DEF front, back
<1>5. /\ Queue(front \o back) /\ Len(front \o back) = Len(front) + Len(back)
      /\ \A i \in 1 .. (Len(front) + Len(back)) :
             (front \o back)[i] = IF i <= Len(front) THEN front[i] ELSE back[i - Len(front)]
  BY <1>2, <1>3, ConcatQueue
<1>6. ASSUME NEW i \in 1 .. (Len(q) - 1) PROVE (front \o back)[i] = IF i < p THEN q[i] ELSE q[i + 1]
  <2>1. CASE i < p
    BY <1>1, <1>2, <1>3, <1>5, <2>1
  <2>2. CASE ~(i < p)
    <3>1. (front \o back)[i] = back[i - (p - 1)] /\ i - (p - 1) \in 1 .. (Len(q) - p)
      BY <1>1, <1>2, <1>3, <1>5, <2>2
    <3>2. p + (i - (p - 1)) = i + 1
      BY <1>1
    <3>3. QED
      BY <1>3, <2>2, <3>1, <3>2
  <2>3. QED
    BY <2>1, <2>2
<1>7. QED
  BY <1>1, <1>2, <1>3, <1>4, <1>5, <1>6

\* BankCount and rows of addresses.
LEMMA DivFacts ==
    ASSUME NEW a \in Nat, NEW b \in Nat \ {0}
    PROVE  a \div b \in Nat /\ a % b \in 0 .. (b - 1)
  OBVIOUS

LEMMA BankFacts ==
    ASSUME cfg \in Configs, NEW r, IsData(r)
    PROVE  Bank(r) \in BankIds /\ RowOf(r.addr) \in Nat /\ RowOf(r.addr) # Closed
<1>1. LineBytes \in Nat \ {0} /\ BankCount \in Nat \ {0} /\ r.addr \in Nat
  BY ControllerAssumption DEF BankCount, IsData
<1>2. r.addr \div LineBytes \in Nat
  BY <1>1, DivFacts
<1> DEFINE line == r.addr \div LineBytes
<1> HIDE DEF line
<1>3. line % BankCount \in 0 .. (BankCount - 1) /\ line \div BankCount \in Nat
  BY <1>1, <1>2, DivFacts DEF line
<1>4. QED
  BY <1>3 DEF Bank, BankOf, BankIds, RowOf, Closed, line

-----------------------------------------------------------------------------
(* The steps before a command is chosen                                      *)

\* What neither queues nor rows see.
Same(s, t) ==
    /\ DOMAIN t = DOMAIN s /\ t.row = s.row /\ t.read = s.read /\ t.write = s.write
    /\ t.active = s.active /\ t.priority = s.priority /\ t.waiting = s.waiting

LEMMA SameSound ==
    ASSUME NEW s, NEW t, Sound(s), Same(s, t)
    PROVE  Sound(t)
BY DEF Sound, Same, QueuesSound, RowsSound

LEMMA DataAppended ==
    ASSUME NEW q, DataQueue(q), NEW r, IsData(r)
    PROVE  DataQueue(Append(q, r)) /\ Len(q) \in Nat /\ Len(Append(q, r)) = Len(q) + 1
<1>1. Queue(q) /\ \A i \in 1 .. Len(q) : IsData(q[i])
  BY DEF DataQueue
<1>2. /\ Queue(Append(q, r)) /\ Len(q) \in Nat /\ Len(Append(q, r)) = Len(q) + 1
      /\ \A i \in 1 .. (Len(q) + 1) : Append(q, r)[i] = IF i <= Len(q) THEN q[i] ELSE r
  BY <1>1, AppendQueue
<1>3. QED
  BY <1>1, <1>2 DEF DataQueue

LEMMA EnqueueSound ==
    ASSUME OpenPage, NEW s, Sound(s), NEW k \in Kinds
    PROVE  Sound(Enqueue(s, k))
<1> DEFINE t == Enqueue(s, k)
           forwarded == Request(k, s.next, TRUE, ForwardPayload(s, k))
           read == Request(k, s.next, FALSE, <<>>)
           merged == Request(k, s.next, TRUE, <<>>)
<1>1. k.addr \in Nat
  BY ControllerAssumption DEF OpenPage, Kinds
<1>2. IsData(read)
  BY <1>1 DEF Request, IsData
<1>3. DOMAIN s = Fields /\ QueuesSound(s) /\ RowsSound(s)
  BY DEF Sound
<1>4. CASE t = [s EXCEPT !.next = s.next + 1, !.pending = Append(s.pending, forwarded)]
  <2>1. Same(s, t)
    BY <1>3, <1>4 DEF Same, Fields
  <2>2. QED
    BY <2>1, SameSound
<1>5. CASE Len(s.read) < ReadDepth /\ t = [s EXCEPT !.next = s.next + 1, !.read = Append(s.read, read)]
  <2>1. /\ DOMAIN t = Fields /\ t.read = Append(s.read, read) /\ t.row = s.row /\ t.write = s.write
        /\ t.active = s.active /\ t.priority = s.priority /\ t.waiting = s.waiting
    BY <1>3, <1>5 DEF Fields
  <2>2. DataQueue(t.read) /\ Len(t.read) <= ReadDepth
    <3>1. ReadDepth \in Nat
      BY ControllerAssumption
    <3>2. DataQueue(s.read)
      BY <1>3 DEF QueuesSound
    <3> HIDE DEF read, t
    <3>3. DataQueue(Append(s.read, read)) /\ Len(s.read) \in Nat /\ Len(Append(s.read, read)) = Len(s.read) + 1
      BY <1>2, <3>2, DataAppended
    <3>4. QED
      BY <1>5, <2>1, <3>1, <3>3
  <2> HIDE DEF t
  <2>3. QueuesSound(t)
    BY <1>3, <2>1, <2>2 DEF QueuesSound
  <2>4. RowsSound(t)
    BY <1>3, <2>1 DEF RowsSound
  <2>5. QED
    BY <2>1, <2>3, <2>4 DEF Sound, t
<1>6. CASE t = [s EXCEPT !.next = s.next + 1, !.pending = Append(s.pending, merged),
                         !.buffered[k.addr] = Coalesced(s.buffered[k.addr], k, s.next)]
  <2>1. Same(s, t)
    BY <1>3, <1>6 DEF Same, Fields
  <2>2. QED
    BY <2>1, SameSound
<1>7. CASE /\ Len(s.write) < WriteDepth
           /\ t = [s EXCEPT !.next = s.next + 1, !.write = Append(s.write, read),
                            !.buffered = Put(s.buffered, k.addr, [len |-> k.len, bytes |-> NewBytes(k, s.next)])]
  <2>1. /\ DOMAIN t = Fields /\ t.write = Append(s.write, read) /\ t.row = s.row /\ t.read = s.read
        /\ t.active = s.active /\ t.priority = s.priority /\ t.waiting = s.waiting
    BY <1>3, <1>7 DEF Fields
  <2>2. DataQueue(t.write) /\ Len(t.write) <= WriteDepth
    <3>1. WriteDepth \in Nat
      BY ControllerAssumption
    <3>2. DataQueue(s.write)
      BY <1>3 DEF QueuesSound
    <3> HIDE DEF read, t
    <3>3. DataQueue(Append(s.write, read)) /\ Len(s.write) \in Nat /\ Len(Append(s.write, read)) = Len(s.write) + 1
      BY <1>2, <3>2, DataAppended
    <3>4. QED
      BY <1>7, <2>1, <3>1, <3>3
  <2> HIDE DEF t
  <2>3. QueuesSound(t)
    BY <1>3, <2>1, <2>2 DEF QueuesSound
  <2>4. RowsSound(t)
    BY <1>3, <2>1 DEF RowsSound
  <2>5. QED
    BY <2>1, <2>3, <2>4 DEF Sound, t
<1>8. CASE t = s
  BY <1>8
<1>9. QED
  BY <1>4, <1>5, <1>6, <1>7, <1>8 DEF Enqueue

LEMMA PhyTickSound ==
    ASSUME NEW s, Sound(s), NEW reads, NEW writes
    PROVE  Sound(PhyTick(s, reads, writes))
<1>1. ASSUME NEW x, Sound(x) PROVE Same(x, PhyReads(x)) /\ Same(x, PhyWrites(x))
  BY <1>1 DEF Sound, Same, PhyReads, PhyWrites, Fields
<1>2. ASSUME NEW x, Sound(x) PROVE Sound(PhyReads(x)) /\ Sound(PhyWrites(x))
  BY <1>1, <1>2, SameSound
<1>3. QED
  BY <1>2 DEF PhyTick

LEMMA CompletePendingSound ==
    ASSUME NEW s, Sound(s), NEW due
    PROVE  Sound(CompletePending(s, due))
<1>1. ASSUME NEW now PROVE Same(s, Answer(s, now))
  BY DEF Sound, Same, Answer, Fields
<1>2. QED
  BY <1>1, SameSound DEF CompletePending

LEMMA ScheduleMaintenanceSound ==
    ASSUME OpenPage, NEW s, Sound(s), NEW ms, ms = <<>> \/ \E m \in Maintenance : ms = <<m>>
    PROVE  Sound(ScheduleMaintenance(s, ms))
<1>1. CASE ms = <<>> \/ s.scheduled = MaxMaintenance
  BY <1>1 DEF ScheduleMaintenance
<1>2. CASE ~(ms = <<>> \/ s.scheduled = MaxMaintenance)
  <2>1. PICK m \in Maintenance : ms = <<m>>
    BY <1>2
  <2> DEFINE r == MaintenanceRequest(m)
             t == ScheduleMaintenance(s, ms)
  <2>2. m.cmd \in {"REFPB", "REFAB"}
    BY <2>1, ControllerAssumption DEF OpenPage, Maintenance
  <2>3. IsCommand(r)
    BY <2>2 DEF IsCommand, MaintenanceRequest
  <2>4. t = [s EXCEPT !.scheduled = s.scheduled + 1, !.waiting = Append(s.waiting, r)]
    BY <1>2, <2>1 DEF ScheduleMaintenance
  <2>5. DOMAIN s = Fields /\ QueuesSound(s) /\ RowsSound(s)
    BY DEF Sound
  <2> HIDE DEF r, t
  <2>6. /\ DOMAIN t = Fields /\ t.waiting = Append(s.waiting, r) /\ t.row = s.row /\ t.read = s.read
        /\ t.write = s.write /\ t.active = s.active /\ t.priority = s.priority
    BY <2>4, <2>5 DEF Fields
  <2>7. CommandQueue(Append(s.waiting, r))
    <3>1. Queue(s.waiting) /\ \A i \in 1 .. Len(s.waiting) : IsCommand(s.waiting[i])
      BY <2>5 DEF QueuesSound, CommandQueue
    <3>2. /\ Queue(Append(s.waiting, r)) /\ Len(s.waiting) \in Nat /\ Len(Append(s.waiting, r)) = Len(s.waiting) + 1
          /\ \A i \in 1 .. (Len(s.waiting) + 1) :
                Append(s.waiting, r)[i] = IF i <= Len(s.waiting) THEN s.waiting[i] ELSE r
      BY <3>1, AppendQueue
    <3>3. QED
      BY <2>3, <3>1, <3>2 DEF CommandQueue
  <2>8. QueuesSound(t)
    BY <2>5, <2>6, <2>7 DEF QueuesSound
  <2>9. RowsSound(t)
    BY <2>5, <2>6 DEF RowsSound
  <2>10. QED
    BY <2>6, <2>8, <2>9 DEF Sound, t
<1>3. QED
  BY <1>1, <1>2

\* A queue of maintenance that is cut, or that another one follows.
LEMMA CommandsCut ==
    ASSUME NEW q, CommandQueue(q), NEW a \in Nat \ {0}, NEW b \in Nat, b <= Len(q)
    PROVE  /\ CommandQueue(SubSeq(q, a, b)) /\ Len(q) \in Nat
           /\ Len(SubSeq(q, a, b)) = IF a <= b THEN b - a + 1 ELSE 0
<1>1. Queue(q) /\ \A i \in 1 .. Len(q) : IsCommand(q[i])
  BY DEF CommandQueue
<1> DEFINE t == SubSeq(q, a, b)
<1>2. /\ Queue(t) /\ Len(q) \in Nat
      /\ Len(t) = IF a <= b THEN b - a + 1 ELSE 0
      /\ \A i \in 1 .. (b - a + 1) : t[i] = q[a + i - 1] /\ a + i - 1 \in 1 .. Len(q)
  BY <1>1, SubSeqQueue
<1> HIDE DEF t
<1>3. \A i \in 1 .. Len(t) : i \in 1 .. (b - a + 1)
  BY <1>2
<1>4. \A i \in 1 .. Len(t) : IsCommand(t[i])
  BY <1>1, <1>2, <1>3
<1>5. CommandQueue(t)
  BY <1>2, <1>4 DEF CommandQueue
<1>6. QED
  BY <1>2, <1>5 DEF t

LEMMA CommandsJoined ==
    ASSUME NEW q, CommandQueue(q), NEW t, CommandQueue(t)
    PROVE  /\ CommandQueue(q \o t) /\ Len(q) \in Nat /\ Len(t) \in Nat /\ Len(q \o t) = Len(q) + Len(t)
<1>1. /\ Queue(q) /\ \A i \in 1 .. Len(q) : IsCommand(q[i])
      /\ Queue(t) /\ \A i \in 1 .. Len(t) : IsCommand(t[i])
  BY DEF CommandQueue
<1>2. /\ Queue(q \o t) /\ Len(q) \in Nat /\ Len(t) \in Nat /\ Len(q \o t) = Len(q) + Len(t)
      /\ \A i \in 1 .. (Len(q) + Len(t)) : (q \o t)[i] = IF i <= Len(q) THEN q[i] ELSE t[i - Len(q)]
  BY <1>1, ConcatQueue
<1>3. ASSUME NEW i \in 1 .. (Len(q) + Len(t)) PROVE IsCommand((q \o t)[i])
  <2>1. CASE i <= Len(q)
    <3>1. i \in 1 .. Len(q)
      BY <1>2, <2>1
    <3>2. QED
      BY <1>1, <1>2, <2>1, <3>1
  <2>2. CASE ~(i <= Len(q))
    <3>1. i - Len(q) \in 1 .. Len(t)
      BY <1>2, <2>2
    <3>2. QED
      BY <1>1, <1>2, <2>2, <3>1
  <2>3. QED
    BY <2>1, <2>2
<1>4. QED
  BY <1>2, <1>3 DEF CommandQueue

LEMMA ServiceMaintenanceSound ==
    ASSUME NEW s, Sound(s)
    PROVE  Sound(ServiceMaintenance(s))
<1> DEFINE n == Moved(s)
           t == ServiceMaintenance(s)
           priority == s.priority \o SubSeq(s.waiting, 1, n)
           waiting == SubSeq(s.waiting, n + 1, Len(s.waiting))
<1>1. DOMAIN s = Fields /\ QueuesSound(s) /\ RowsSound(s)
  BY DEF Sound
<1>2. CommandQueue(s.priority) /\ CommandQueue(s.waiting) /\ Len(s.priority) <= PriorityDepth
  BY <1>1 DEF QueuesSound
<1>3. Len(s.waiting) \in Nat /\ Len(s.priority) \in Nat /\ PriorityDepth - Len(s.priority) \in Nat
  BY <1>2, ControllerAssumption DEF CommandQueue, Queue
<1>4. n \in Nat /\ n <= Len(s.waiting) /\ n <= PriorityDepth - Len(s.priority)
  BY <1>3, LeastOfTwo DEF Moved
<1>5. t = [s EXCEPT !.priority = priority, !.waiting = waiting]
  BY DEF ServiceMaintenance
<1> HIDE DEF n, t
<1>6. /\ CommandQueue(SubSeq(s.waiting, 1, n)) /\ Len(SubSeq(s.waiting, 1, n)) = n
  <2>1. 1 \in Nat \ {0}
    OBVIOUS
  <2>2. /\ CommandQueue(SubSeq(s.waiting, 1, n))
        /\ Len(SubSeq(s.waiting, 1, n)) = IF 1 <= n THEN n - 1 + 1 ELSE 0
    BY <1>2, <1>4, <2>1, CommandsCut
  <2>3. QED
    BY <1>4, <2>2
<1>7. CommandQueue(priority) /\ Len(priority) <= PriorityDepth
  <2> DEFINE moved == SubSeq(s.waiting, 1, n)
  <2>1. CommandQueue(moved) /\ Len(moved) = n
    BY <1>6
  <2> HIDE DEF moved
  <2>2. CommandQueue(s.priority \o moved) /\ Len(s.priority \o moved) = Len(s.priority) + n
    BY <1>2, <2>1, CommandsJoined
  <2>3. PriorityDepth \in Nat
    BY ControllerAssumption
  <2>4. CommandQueue(s.priority \o moved) /\ Len(s.priority \o moved) <= PriorityDepth
    BY <1>3, <1>4, <2>2, <2>3
  <2>5. QED
    BY <2>4 DEF moved
<1>8. CommandQueue(waiting)
  <2>1. n + 1 \in Nat \ {0} /\ Len(s.waiting) <= Len(s.waiting)
    BY <1>3, <1>4
  <2>2. QED
    BY <1>2, <1>3, <2>1, CommandsCut
<1> HIDE DEF priority, waiting
<1>9. /\ DOMAIN t = Fields /\ t.priority = priority /\ t.waiting = waiting /\ t.row = s.row
      /\ t.read = s.read /\ t.write = s.write /\ t.active = s.active
  BY <1>1, <1>5 DEF Fields
<1>10. QueuesSound(t)
  BY <1>1, <1>7, <1>8, <1>9 DEF QueuesSound
<1>11. RowsSound(t)
  BY <1>1, <1>9 DEF RowsSound
<1>12. QED
  BY <1>9, <1>10, <1>11 DEF Sound, t

LEMMA RetiredSound ==
    ASSUME NEW s, Sound(s)
    PROVE  Sound(Retired(s))
<1> DEFINE left == {i \in DOMAIN s.priority : ~Satisfied(s, s.priority[i])}
           first == IF left = {} THEN Len(s.priority) + 1 ELSE Min(left)
           t == Retired(s)
           priority == SubSeq(s.priority, first, Len(s.priority))
<1>1. DOMAIN s = Fields /\ QueuesSound(s) /\ RowsSound(s)
  BY DEF Sound
<1>2. CommandQueue(s.priority) /\ Len(s.priority) <= PriorityDepth
  BY <1>1 DEF QueuesSound
<1>3. Len(s.priority) \in Nat /\ DOMAIN s.priority = 1 .. Len(s.priority)
  BY <1>2 DEF CommandQueue, Queue
<1>4. left \in SUBSET (1 .. Len(s.priority))
  BY <1>3
<1>5. DOMAIN t = Fields /\ t.priority = priority /\ t.row = s.row /\ t.read = s.read
      /\ t.write = s.write /\ t.active = s.active /\ t.waiting = s.waiting
  BY <1>1 DEF Retired, Fields
<1> HIDE DEF t, left
<1>10. first \in 1 .. (Len(s.priority) + 1)
  <2>1. CASE left = {}
    BY <1>3, <2>1
  <2>2. CASE left # {}
    <3>1. left \in SUBSET Nat
      BY <1>3, <1>4
    <3>2. Min(left) \in left
      BY <2>2, <3>1, LeastOf
    <3>3. first = Min(left)
      BY <2>2
    <3>4. Min(left) \in 1 .. Len(s.priority)
      BY <1>4, <3>2
    <3>5. first \in 1 .. Len(s.priority)
      BY <3>3, <3>4
    <3> HIDE DEF first
    <3>6. QED
      BY <1>3, <3>5
  <2>3. QED
    BY <2>1, <2>2
<1> HIDE DEF first
<1>6. CommandQueue(priority) /\ Len(priority) <= PriorityDepth
  <2>1. first \in Nat \ {0} /\ Len(s.priority) <= Len(s.priority)
    BY <1>3, <1>10
  <2>2. /\ CommandQueue(priority)
        /\ Len(priority) = IF first <= Len(s.priority) THEN Len(s.priority) - first + 1 ELSE 0
    BY <1>2, <1>3, <2>1, CommandsCut
  <2>3. PriorityDepth \in Nat
    BY ControllerAssumption
  <2> HIDE DEF priority
  <2>4. QED
    BY <1>2, <1>3, <1>10, <2>2, <2>3
<1>7. QueuesSound(t)
  BY <1>1, <1>5, <1>6 DEF QueuesSound
<1>8. RowsSound(t)
  BY <1>1, <1>5 DEF RowsSound
<1>9. QED
  BY <1>5, <1>7, <1>8 DEF Sound, t

-----------------------------------------------------------------------------
(* The choice of a command                                                   *)

\* A candidate of a queue: a request in it, its next command, eligible.
Candidate(s, c, bus) ==
    /\ c.kind \in {"active", "read", "write", "priority"}
    /\ c.index \in 1 .. Len(s[c.kind])
    /\ c.cmd = NextCommand(s, s[c.kind][c.index])
    /\ Eligible(s, s[c.kind][c.index], c.cmd, bus, c.kind)

LEMMA QueueOf ==
    ASSUME NEW s, Sound(s)
    PROVE  /\ \A kind \in {"active", "read", "write"} : DataQueue(s[kind])
           /\ \A kind \in {"active", "read", "write", "priority"} : Len(s[kind]) \in Nat /\ DOMAIN s[kind] = 1 .. Len(s[kind])
<1>1. QueuesSound(s)
  BY DEF Sound
<1>2. /\ DataQueue(s.read) /\ DataQueue(s.write) /\ DataQueue(s.active) /\ CommandQueue(s.priority)
  BY <1>1 DEF QueuesSound
<1>3. \A kind \in {"active", "read", "write"} : DataQueue(s[kind])
  BY <1>2
<1>4. ASSUME NEW kind \in {"active", "read", "write", "priority"} PROVE Queue(s[kind])
  BY <1>2 DEF DataQueue, CommandQueue
<1>5. ASSUME NEW q, Queue(q) PROVE Len(q) \in Nat /\ DOMAIN q = 1 .. Len(q)
  BY <1>5 DEF Queue
<1>6. QED
  BY <1>3, <1>4, <1>5

LEMMA PickedFacts ==
    ASSUME NEW s, Sound(s), NEW kind \in {"active", "read", "write"}, NEW bus, NEW gates,
           Picked(s, kind, bus, gates) # NoCandidate
    PROVE  Candidate(s, Picked(s, kind, bus, gates), bus)
<1> DEFINE eligible == Views(s, kind, bus, gates)
           ready(i) == GateOpen(s[kind][i], NextCommand(s, s[kind][i]), gates)
           chosen == IF FrFcfs THEN First(s, kind, {i \in eligible : ready(i)})
                     ELSE {i \in First(s, kind, eligible) : ready(i)}
           c == Picked(s, kind, bus, gates)
<1>1. Len(s[kind]) \in Nat /\ DOMAIN s[kind] = 1 .. Len(s[kind])
  BY QueueOf
<1>2. ASSUME NEW i \in chosen PROVE i \in eligible
  BY <1>2 DEF First
<1>3. ASSUME NEW i \in eligible
      PROVE  i \in 1 .. Len(s[kind]) /\ Eligible(s, s[kind][i], NextCommand(s, s[kind][i]), bus, kind)
  BY <1>1, <1>3 DEF Views
<1>4. c = IF chosen = {} THEN NoCandidate
          ELSE [kind |-> kind, index |-> Min(chosen), cmd |-> NextCommand(s, s[kind][Min(chosen)])]
  BY DEF Picked
<1> HIDE DEF eligible, ready, chosen, c
<1>5. chosen # {}
  BY <1>4 DEF c
<1>6. chosen \in SUBSET Nat
  BY <1>1, <1>2, <1>3
<1>7. Min(chosen) \in chosen
  BY <1>5, <1>6, LeastOf
<1> DEFINE least == Min(chosen)
<1>8. least \in 1 .. Len(s[kind]) /\ Eligible(s, s[kind][least], NextCommand(s, s[kind][least]), bus, kind)
  BY <1>2, <1>3, <1>7
<1> HIDE DEF least
<1>9. c = [kind |-> kind, index |-> least, cmd |-> NextCommand(s, s[kind][least])]
  BY <1>4, <1>5 DEF least
<1>10. Candidate(s, c, bus)
  BY <1>8, <1>9 DEF Candidate
<1>11. QED
  BY <1>10 DEF c

LEMMA PickedPriorityFacts ==
    ASSUME NEW s, Sound(s), NEW bus, NEW gates, PickedPriority(s, bus, gates) # NoCandidate
    PROVE  Candidate(s, PickedPriority(s, bus, gates), bus)
<1> DEFINE c == PickedPriority(s, bus, gates)
<1>1. /\ 1 \in Views(s, "priority", bus, gates)
      /\ c = [kind |-> "priority", index |-> 1, cmd |-> NextCommand(s, Head(s.priority))]
      /\ s.priority # <<>>
  BY DEF PickedPriority
<1>2. Len(s["priority"]) \in Nat /\ DOMAIN s["priority"] = 1 .. Len(s["priority"])
  BY QueueOf
<1>3. Head(s.priority) = s["priority"][1]
  OBVIOUS
<1> HIDE DEF c
<1>4. 1 \in 1 .. Len(s["priority"]) /\ Eligible(s, s["priority"][1], NextCommand(s, s["priority"][1]), bus, "priority")
  BY <1>1, <1>2 DEF Views
<1>5. Candidate(s, c, bus)
  BY <1>1, <1>3, <1>4 DEF Candidate
<1>6. QED
  BY <1>5 DEF c

\* What a request wants next.
LEMMA NextCommandFacts ==
    ASSUME OpenPage, NEW s, NEW r
    PROVE  /\ IsData(r) => /\ s.row[Bank(r)] = Closed => NextCommand(s, r) = "ACT"
                           /\ s.row[Bank(r)] # Closed /\ s.row[Bank(r)] = RowOf(r.addr)
                                 => NextCommand(s, r) \in {"RD", "WR"}
                           /\ s.row[Bank(r)] # Closed /\ s.row[Bank(r)] # RowOf(r.addr)
                                 => NextCommand(s, r) = "PREPB"
           /\ IsCommand(r) => NextCommand(s, r) \in {"PREPB", "PREAB", "REFPB", "REFAB"}
<1>1. RowPolicy = "open"
  BY DEF OpenPage, RowPolicy
<1>2. DataCommand(r) \in {"RD", "WR"}
  BY <1>1 DEF DataCommand
<1>3. ASSUME IsData(r)
      PROVE  /\ s.row[Bank(r)] = Closed => NextCommand(s, r) = "ACT"
             /\ s.row[Bank(r)] # Closed /\ s.row[Bank(r)] = RowOf(r.addr) => NextCommand(s, r) = DataCommand(r)
             /\ s.row[Bank(r)] # Closed /\ s.row[Bank(r)] # RowOf(r.addr) => NextCommand(s, r) = "PREPB"
  <2> DEFINE open == s.row[Bank(r)]
             wanted == RowOf(r.addr)
  <2>1. NextCommand(s, r) = CASE open = Closed -> "ACT"
                              [] open = wanted -> DataCommand(r)
                              [] open \notin {Closed, wanted} -> "PREPB"
    BY <1>3 DEF NextCommand, IsMaintenance, IsData
  <2>6. wanted # Closed
    BY <1>3, BankFacts DEF OpenPage
  <2> HIDE DEF open, wanted
  <2>2. open = Closed => NextCommand(s, r) = "ACT"
    BY <2>1, <2>6
  <2>3. open # Closed /\ open = wanted => NextCommand(s, r) = DataCommand(r)
    BY <2>1
  <2>4. open # Closed /\ open # wanted => NextCommand(s, r) = "PREPB"
    BY <2>1
  <2>5. QED
    BY <2>2, <2>3, <2>4 DEF open, wanted
<1>4. ASSUME IsCommand(r) PROVE NextCommand(s, r) \in {"PREPB", "PREAB", "REFPB", "REFAB"}
  BY <1>4 DEF NextCommand, IsMaintenance, IsCommand
<1>5. QED
  BY <1>2, <1>3, <1>4

-----------------------------------------------------------------------------
(* Issue                                                                     *)

\* The row a command leaves suits every request that had its row opened: a row is opened only in a
\* bank that none of them is in, and closed only in such a bank.
LEMMA RowAfterKeeps ==
    ASSUME OpenPage, NEW s, Sound(s), NEW c, NEW bus, Candidate(s, c, bus)
    PROVE  LET r == s[c.kind][c.index]
               row == RowAfter(s, r, c.cmd)
           IN  /\ row \in [BankIds -> Nat \cup {Closed}]
               /\ \A i \in 1 .. Len(s.active) : row[Bank(s.active[i])] = RowOf(s.active[i].addr)
               /\ c.kind # "priority" => IsData(r)
               /\ c.kind # "active" /\ c.cmd = "ACT" => IsData(r) /\ row[Bank(r)] = RowOf(r.addr)
               /\ c.cmd \notin {"RDA", "WRA"}
               /\ c.kind = "priority" => c.cmd \notin DataCommands
<1> DEFINE r == s[c.kind][c.index]
           row == RowAfter(s, r, c.cmd)
<1>1. /\ c.kind \in {"active", "read", "write", "priority"} /\ c.index \in 1 .. Len(s[c.kind])
      /\ c.cmd = NextCommand(s, r) /\ Eligible(s, r, c.cmd, bus, c.kind)
  BY DEF Candidate
<1>2. QueuesSound(s) /\ RowsSound(s)
  BY DEF Sound
<1>3. /\ s.row \in [BankIds -> Nat \cup {Closed}]
      /\ \A i \in 1 .. Len(s.active) : s.row[Bank(s.active[i])] = RowOf(s.active[i].addr)
  BY <1>2 DEF RowsSound
<1>4. ASSUME NEW i \in 1 .. Len(s.active)
      PROVE  /\ IsData(s.active[i]) /\ Bank(s.active[i]) \in BankIds
             /\ RowOf(s.active[i].addr) \in Nat /\ RowOf(s.active[i].addr) # Closed
  <2>1. IsData(s.active[i])
    BY <1>2 DEF QueuesSound, DataQueue
  <2>2. QED
    BY <2>1, BankFacts DEF OpenPage
<1>5. c.kind # "priority" => IsData(r)
  BY <1>1, QueueOf DEF DataQueue
<1>6. c.kind = "priority" => IsCommand(r)
  BY <1>1, <1>2 DEF QueuesSound, CommandQueue
<1>7. c.kind = "active" => s.row[Bank(r)] = RowOf(r.addr)
  BY <1>1, <1>3
<1>8. c.kind \in {"read", "write", "priority"} => ~WouldCloseActive(s, r, c.cmd)
  BY <1>1 DEF Eligible
<1>9. DOMAIN s.active = 1 .. Len(s.active)
  BY <1>2 DEF QueuesSound, DataQueue, Queue
<1> HIDE DEF r
<1>10. /\ c.kind = "active" => c.cmd \in {"RD", "WR"}
       /\ c.kind \in {"read", "write"} => c.cmd \in {"ACT", "RD", "WR", "PREPB"}
       /\ c.kind \in {"read", "write"} /\ c.cmd = "ACT" => s.row[Bank(r)] = Closed
       /\ c.kind = "priority" => c.cmd \in {"PREPB", "PREAB", "REFPB", "REFAB"}
  <2>1. CASE c.kind = "active"
    <3>1. IsData(r) /\ s.row[Bank(r)] = RowOf(r.addr) /\ RowOf(r.addr) # Closed
      BY <1>5, <1>7, <2>1, BankFacts DEF OpenPage
    <3>2. QED
      BY <1>1, <2>1, <3>1, NextCommandFacts
  <2>2. CASE c.kind \in {"read", "write"}
    <3>1. IsData(r)
      BY <1>5, <2>2
    <3>2. NextCommand(s, r) \in {"ACT", "RD", "WR", "PREPB"} /\ (NextCommand(s, r) = "ACT" => s.row[Bank(r)] = Closed)
      BY <3>1, NextCommandFacts
    <3>3. QED
      BY <1>1, <2>2, <3>2
  <2>3. CASE c.kind = "priority"
    BY <1>1, <1>6, <2>3, NextCommandFacts
  <2>4. QED
    BY <1>1, <2>1, <2>2, <2>3
<1>17. c.kind = "priority" => c.cmd \notin DataCommands
  BY <1>10 DEF DataCommands
<1>11. CASE c.cmd \in {"RD", "WR", "REFPB", "REFAB"}
  <2>1. row = s.row
    BY <1>11 DEF RowAfter
  <2>2. QED
    BY <1>17, <1>3, <1>5, <1>11, <2>1 DEF r
<1>12. CASE c.cmd = "ACT"
  <2>1. c.kind \in {"read", "write"} /\ IsData(r) /\ s.row[Bank(r)] = Closed
    BY <1>1, <1>5, <1>10, <1>12
  <2>2. Bank(r) \in BankIds /\ RowOf(r.addr) \in Nat
    BY <2>1, BankFacts DEF OpenPage
  <2>3. row = [s.row EXCEPT ![Bank(r)] = RowOf(r.addr)]
    BY <1>12 DEF RowAfter
  <2>4. row \in [BankIds -> Nat \cup {Closed}] /\ row[Bank(r)] = RowOf(r.addr)
        /\ \A b \in BankIds : b # Bank(r) => row[b] = s.row[b]
    BY <1>3, <2>2, <2>3
  <2>5. \A i \in 1 .. Len(s.active) : Bank(s.active[i]) # Bank(r)
    BY <1>3, <1>4, <2>1
  <2>6. \A i \in 1 .. Len(s.active) : row[Bank(s.active[i])] = RowOf(s.active[i].addr)
    BY <1>3, <1>4, <2>4, <2>5
  <2> HIDE DEF row
  <2>7. QED
    BY <1>17, <1>12, <2>1, <2>4, <2>6 DEF r, row
<1>13. CASE c.cmd = "PREPB"
  <2>1. ~ActiveOn(s, Bank(r))
    <3>1. c.kind # "active"
      BY <1>10, <1>13
    <3>2. QED
      BY <1>1, <1>8, <1>13, <3>1 DEF WouldCloseActive
  <2>2. \A i \in 1 .. Len(s.active) : Bank(s.active[i]) # Bank(r)
    BY <1>9, <2>1 DEF ActiveOn
  <2>3. row = [s.row EXCEPT ![Bank(r)] = Closed]
    BY <1>13 DEF RowAfter
  <2>4. row \in [BankIds -> Nat \cup {Closed}] /\ \A b \in BankIds : b # Bank(r) => row[b] = s.row[b]
    BY <1>3, <2>3
  <2>5. \A i \in 1 .. Len(s.active) : row[Bank(s.active[i])] = RowOf(s.active[i].addr)
    BY <1>3, <1>4, <2>2, <2>4
  <2> HIDE DEF row
  <2>6. QED
    BY <1>17, <1>5, <1>13, <2>4, <2>5 DEF r, row
<1>14. CASE c.cmd = "PREAB"
  <2>1. s.active = <<>>
    <3>1. c.kind \in {"read", "write", "priority"}
      BY <1>1, <1>10, <1>14
    <3>2. QED
      BY <1>8, <1>14, <3>1 DEF WouldCloseActive
  <2>2. 1 .. Len(s.active) = {}
    BY <2>1
  <2>3. row = [b \in BankIds |-> Closed]
    BY <1>14 DEF RowAfter
  <2>4. row \in [BankIds -> Nat \cup {Closed}]
    BY <2>3
  <2> HIDE DEF row
  <2>5. QED
    BY <1>17, <1>5, <1>14, <2>2, <2>4 DEF r, row
<1>15. c.cmd \in {"RD", "WR", "REFPB", "REFAB", "ACT", "PREPB", "PREAB"}
  BY <1>1, <1>10
<1>16. QED
  BY <1>11, <1>12, <1>13, <1>14, <1>15

LEMMA DataRemoved ==
    ASSUME NEW q, DataQueue(q), NEW p \in 1 .. Len(q)
    PROVE  /\ DataQueue(RemoveAt(q, p)) /\ Len(q) \in Nat /\ Len(RemoveAt(q, p)) = Len(q) - 1
           /\ \A i \in 1 .. (Len(q) - 1) : \E j \in 1 .. Len(q) : RemoveAt(q, p)[i] = q[j]
<1>1. Queue(q) /\ \A i \in 1 .. Len(q) : IsData(q[i])
  BY DEF DataQueue
<1>2. /\ Queue(RemoveAt(q, p)) /\ Len(q) \in Nat /\ Len(RemoveAt(q, p)) = Len(q) - 1
      /\ \A i \in 1 .. (Len(q) - 1) : RemoveAt(q, p)[i] = IF i < p THEN q[i] ELSE q[i + 1]
  BY <1>1, RemoveQueue
<1>3. ASSUME NEW i \in 1 .. (Len(q) - 1) PROVE \E j \in 1 .. Len(q) : RemoveAt(q, p)[i] = q[j]
  <2>1. i \in 1 .. Len(q) /\ i + 1 \in 1 .. Len(q)
    BY <1>2
  <2>2. QED
    BY <1>2, <2>1
<1>4. \A i \in 1 .. (Len(q) - 1) : IsData(RemoveAt(q, p)[i])
  BY <1>1, <1>3
<1>5. QED
  BY <1>2, <1>3, <1>4 DEF DataQueue

LEMMA CommandRemoved ==
    ASSUME NEW q, CommandQueue(q), NEW p \in 1 .. Len(q)
    PROVE  CommandQueue(RemoveAt(q, p)) /\ Len(q) \in Nat /\ Len(RemoveAt(q, p)) = Len(q) - 1
<1>1. Queue(q) /\ \A i \in 1 .. Len(q) : IsCommand(q[i])
  BY DEF CommandQueue
<1>2. /\ Queue(RemoveAt(q, p)) /\ Len(q) \in Nat /\ Len(RemoveAt(q, p)) = Len(q) - 1
      /\ \A i \in 1 .. (Len(q) - 1) : RemoveAt(q, p)[i] = IF i < p THEN q[i] ELSE q[i + 1]
  BY <1>1, RemoveQueue
<1>3. ASSUME NEW i \in 1 .. (Len(q) - 1) PROVE IsCommand(RemoveAt(q, p)[i])
  <2>1. i \in 1 .. Len(q) /\ i + 1 \in 1 .. Len(q)
    BY <1>2
  <2>2. QED
    BY <1>1, <1>2, <2>1
<1>4. QED
  BY <1>2, <1>3 DEF CommandQueue

LEMMA ErasedSound ==
    ASSUME OpenPage, NEW s, Sound(s), NEW c, c.kind \in {"active", "read", "write", "priority"},
           c.index \in 1 .. Len(s[c.kind])
    PROVE  /\ Sound(Erased(s, c)) /\ Erased(s, c).row = s.row
           /\ c.kind # "active" => Erased(s, c).active = s.active
<1> DEFINE t == Erased(s, c)
           short == RemoveAt(s[c.kind], c.index)
<1>1. DOMAIN s = Fields /\ QueuesSound(s) /\ RowsSound(s)
  BY DEF Sound
<1>2. t = [s EXCEPT ![c.kind] = short]
  BY DEF Erased
<1> HIDE DEF t, short
<1>3. /\ DOMAIN t = Fields /\ t.row = s.row /\ t.waiting = s.waiting /\ t[c.kind] = short
      /\ \A kind \in {"active", "read", "write", "priority"} : kind # c.kind => t[kind] = s[kind]
  BY <1>1, <1>2 DEF Fields
<1>4. /\ ReadDepth \in Nat /\ WriteDepth \in Nat /\ PriorityDepth \in Nat /\ BankCount \in Nat
  BY ControllerAssumption DEF OpenPage, BankCount
<1>5. CASE c.kind = "read"
  <2>1. DataQueue(short) /\ Len(short) <= ReadDepth
    <3>1. DataQueue(s.read) /\ Len(s.read) <= ReadDepth
      BY <1>1 DEF QueuesSound
    <3>2. DataQueue(short) /\ Len(s.read) \in Nat /\ Len(short) = Len(s.read) - 1
      BY <1>5, <3>1, DataRemoved DEF short
    <3>3. QED
      BY <1>4, <3>1, <3>2
  <2>2. t.read = short /\ t.write = s.write /\ t.active = s.active /\ t.priority = s.priority
    BY <1>3, <1>5
  <2>3. QueuesSound(t) /\ RowsSound(t)
    BY <1>1, <1>3, <2>1, <2>2 DEF QueuesSound, RowsSound
  <2>4. QED
    BY <1>3, <2>2, <2>3 DEF Sound, t
<1>6. CASE c.kind = "write"
  <2>1. DataQueue(short) /\ Len(short) <= WriteDepth
    <3>1. DataQueue(s.write) /\ Len(s.write) <= WriteDepth
      BY <1>1 DEF QueuesSound
    <3>2. DataQueue(short) /\ Len(s.write) \in Nat /\ Len(short) = Len(s.write) - 1
      BY <1>6, <3>1, DataRemoved DEF short
    <3>3. QED
      BY <1>4, <3>1, <3>2
  <2>2. t.write = short /\ t.read = s.read /\ t.active = s.active /\ t.priority = s.priority
    BY <1>3, <1>6
  <2>3. QueuesSound(t) /\ RowsSound(t)
    BY <1>1, <1>3, <2>1, <2>2 DEF QueuesSound, RowsSound
  <2>4. QED
    BY <1>3, <2>2, <2>3 DEF Sound, t
<1>7. CASE c.kind = "priority"
  <2>1. CommandQueue(short) /\ Len(short) <= PriorityDepth
    <3>1. CommandQueue(s.priority) /\ Len(s.priority) <= PriorityDepth
      BY <1>1 DEF QueuesSound
    <3>2. CommandQueue(short) /\ Len(s.priority) \in Nat /\ Len(short) = Len(s.priority) - 1
      BY <1>7, <3>1, CommandRemoved DEF short
    <3>3. QED
      BY <1>4, <3>1, <3>2
  <2>2. t.priority = short /\ t.read = s.read /\ t.write = s.write /\ t.active = s.active
    BY <1>3, <1>7
  <2>3. QueuesSound(t) /\ RowsSound(t)
    BY <1>1, <1>3, <2>1, <2>2 DEF QueuesSound, RowsSound
  <2>4. QED
    BY <1>3, <2>2, <2>3 DEF Sound, t
<1>8. CASE c.kind = "active"
  <2>1. DataQueue(s.active) /\ Len(s.active) <= BankCount
    BY <1>1 DEF QueuesSound
  <2>2. /\ DataQueue(short) /\ Len(s.active) \in Nat /\ Len(short) = Len(s.active) - 1
        /\ \A i \in 1 .. (Len(s.active) - 1) : \E j \in 1 .. Len(s.active) : short[i] = s.active[j]
    <3> DEFINE p == c.index
               q == s.active
    <3>1. p \in 1 .. Len(q) /\ DataQueue(q) /\ short = RemoveAt(q, p)
      BY <1>8, <2>1 DEF short
    <3> HIDE DEF p, q
    <3>2. /\ DataQueue(short) /\ Len(q) \in Nat /\ Len(short) = Len(q) - 1
          /\ \A i \in 1 .. (Len(q) - 1) : \E j \in 1 .. Len(q) : short[i] = q[j]
      BY <3>1, DataRemoved
    <3>3. QED
      BY <3>2 DEF q
  <2>3. t.active = short /\ t.read = s.read /\ t.write = s.write /\ t.priority = s.priority
    BY <1>3, <1>8
  <2>4. Len(short) <= BankCount
    BY <1>4, <2>1, <2>2
  <2>5. QueuesSound(t)
    BY <1>1, <1>3, <2>2, <2>3, <2>4 DEF QueuesSound
  <2>6. RowsSound(t)
    BY SMTT(30), <1>1, <1>3, <2>2, <2>3 DEF RowsSound
  <2>7. QED
    BY <1>3, <1>8, <2>5, <2>6 DEF Sound, t
<1>9. QED
  BY <1>5, <1>6, <1>7, <1>8

LEMMA IssueSound ==
    ASSUME OpenPage, NEW s, Sound(s), NEW c, NEW bus, Candidate(s, c, bus)
    PROVE  Sound(Issue(s, c, s[c.kind][c.index]))
<1> DEFINE r == s[c.kind][c.index]
           row == RowAfter(s, r, c.cmd)
           u == [s EXCEPT !.row = row]
           e == Erased(u, c)
<1>1. DOMAIN s = Fields /\ QueuesSound(s) /\ RowsSound(s)
  BY DEF Sound
<1>2. /\ row \in [BankIds -> Nat \cup {Closed}]
      /\ \A i \in 1 .. Len(s.active) : row[Bank(s.active[i])] = RowOf(s.active[i].addr)
      /\ c.kind # "active" /\ c.cmd = "ACT" => IsData(r) /\ row[Bank(r)] = RowOf(r.addr)
  BY RowAfterKeeps
<1>3. RowPolicyIssue(s, Bank(r), c.cmd) = s
  BY DEF OpenPage, RowPolicy, RowPolicyIssue
<1>4. Issue(s, c, r) = Advanced(u, c, r)
  BY <1>3 DEF Issue
<1>5. c.kind \in {"active", "read", "write", "priority"} /\ c.index \in 1 .. Len(s[c.kind])
  BY DEF Candidate
<1> HIDE DEF r, row
<1>6. /\ DOMAIN u = Fields /\ u.row = row /\ u.read = s.read /\ u.write = s.write /\ u.active = s.active
      /\ u.priority = s.priority /\ u.waiting = s.waiting
  BY <1>1 DEF Fields
<1>7. c.index \in 1 .. Len(u[c.kind])
  BY <1>5, <1>6
<1> HIDE DEF u
<1>8. Sound(u)
  <2>1. QueuesSound(u)
    BY <1>1, <1>6 DEF QueuesSound
  <2>2. RowsSound(u)
    BY <1>2, <1>6 DEF RowsSound
  <2>3. QED
    BY <1>6, <2>1, <2>2 DEF Sound
<1>9. Sound(e) /\ e.row = row /\ (c.kind # "active" => e.active = u.active)
  BY <1>5, <1>6, <1>7, <1>8, ErasedSound
<1> HIDE DEF e
<1>10. DOMAIN e = Fields
  BY <1>9 DEF Sound
<1>11. Sound(DataIssued(e, r))
  <2>1. Same(e, DataIssued(e, r))
    BY <1>10 DEF Same, DataIssued, Fields
  <2>2. QED
    BY <1>9, <2>1, SameSound
<1>12. ASSUME c.cmd = "ACT", c.kind # "active", Len(u.active) < BankCount
       PROVE  Sound([e EXCEPT !.active = Append(e.active, r)])
  <2> DEFINE t == [e EXCEPT !.active = Append(e.active, r)]
  <2>1. QueuesSound(e) /\ RowsSound(e)
    BY <1>9 DEF Sound
  <2>2. /\ DOMAIN t = Fields /\ t.active = Append(e.active, r) /\ t.row = e.row /\ t.read = e.read
        /\ t.write = e.write /\ t.priority = e.priority /\ t.waiting = e.waiting
    BY <1>10 DEF Fields
  <2> HIDE DEF t
  <2>3. IsData(r) /\ e.row[Bank(r)] = RowOf(r.addr) /\ Len(e.active) < BankCount
    BY <1>2, <1>9, <1>12
  <2>4. DataQueue(e.active) /\ Len(e.active) <= BankCount
    BY <2>1 DEF QueuesSound
  <2>5. DataQueue(t.active) /\ Len(e.active) \in Nat /\ Len(t.active) = Len(e.active) + 1
    BY <2>2, <2>3, <2>4, DataAppended
  <2>6. \A i \in 1 .. (Len(e.active) + 1) : t.active[i] = IF i <= Len(e.active) THEN e.active[i] ELSE r
    BY <2>2, <2>4, AppendQueue DEF DataQueue
  <2>7. BankCount \in Nat
    BY ControllerAssumption DEF OpenPage, BankCount
  <2>8. Len(t.active) <= BankCount
    BY <2>3, <2>5, <2>7
  <2>9. QueuesSound(t)
    BY <2>1, <2>2, <2>5, <2>8 DEF QueuesSound
  <2>10. ASSUME NEW i \in 1 .. Len(t.active) PROVE t.row[Bank(t.active[i])] = RowOf(t.active[i].addr)
    <3>1. CASE i <= Len(e.active)
      <4>1. i \in 1 .. Len(e.active) /\ t.active[i] = e.active[i]
        BY <2>5, <2>6, <3>1
      <4>2. QED
        BY <2>1, <2>2, <4>1 DEF RowsSound
    <3>2. CASE ~(i <= Len(e.active))
      <4>1. t.active[i] = r
        BY <2>5, <2>6, <3>2
      <4>2. QED
        BY <2>2, <2>3, <4>1
    <3>3. QED
      BY <3>1, <3>2
  <2>11. RowsSound(t)
    BY <2>1, <2>2, <2>10 DEF RowsSound
  <2>12. QED
    BY <2>2, <2>9, <2>11 DEF Sound, t
<1>13. Sound(Advanced(u, c, r))
  <2> DEFINE a == Advanced(u, c, r)
  <2>1. CASE c.cmd \in DataCommands
    <3>1. c.kind # "priority" => IsData(r)
      BY RowAfterKeeps DEF r
    <3>2. c.kind = "priority" => c.cmd \notin DataCommands
      BY RowAfterKeeps
    <3>3. ~IsMaintenance(r)
      BY <2>1, <3>1, <3>2 DEF IsMaintenance, IsData
    <3>4. a = DataIssued(e, r)
      BY <2>1, <3>3 DEF Advanced, DataCommands, e
    <3>5. QED
      BY <1>11, <3>4
  <2>2. CASE c.cmd \notin DataCommands
    <3>1. a \in {e, u} \/ (/\ c.cmd = "ACT" /\ c.kind # "active" /\ Len(u.active) < BankCount
                           /\ a = [e EXCEPT !.active = Append(e.active, r)])
      BY <2>2 DEF Advanced, e
    <3>2. QED
      BY <1>8, <1>9, <1>12, <3>1
  <2>3. QED
    BY <2>1, <2>2
<1>14. QED
  BY <1>4, <1>13 DEF r

LEMMA SendSound ==
    ASSUME OpenPage, NEW s, Sound(s), NEW c, NEW bus, NEW gates, c = NoCandidate \/ Candidate(s, c, bus)
    PROVE  Sound(Send(s, c, gates))
<1>1. CASE c = NoCandidate
  BY <1>1 DEF Send
<1>2. CASE c # NoCandidate
  <2>1. Candidate(s, c, bus)
    BY <1>2
  <2>2. Upgraded(s, c, s[c.kind][c.index], gates) = c
    BY DEF OpenPage, RowPolicy, Upgraded
  <2>3. Send(s, c, gates) = Issue(s, c, s[c.kind][c.index])
    BY <1>2, <2>2 DEF Send
  <2>4. QED
    BY <2>1, <2>3, IssueSound
<1>3. QED
  BY <1>1, <1>2

LEMMA ChooseSound ==
    ASSUME OpenPage, NEW s, Sound(s), NEW bus, NEW gates
    PROVE  Sound(Choose(s, bus, gates))
<1>1. ASSUME NEW t, Sound(t) PROVE Sound(ChooseRw(t, bus, gates))
  <2> DEFINE u == SetWriteMode(t)
             c == PickedRw(u, bus, gates)
  <2>1. Same(t, u)
    BY <1>1 DEF Sound, Same, SetWriteMode, Fields
  <2>2. Sound(u)
    BY <1>1, <2>1, SameSound
  <2> HIDE DEF u
  <2>3. c = Picked(u, "write", bus, gates) \/ c = Picked(u, "read", bus, gates)
    BY DEF PickedRw
  <2>4. c = NoCandidate \/ Candidate(u, c, bus)
    BY <2>2, <2>3, PickedFacts
  <2> HIDE DEF c
  <2>5. Sound(Send(u, c, gates))
    BY <2>2, <2>4, SendSound
  <2>6. QED
    BY <2>5 DEF ChooseRw, u, c
<1>2. ASSUME NEW t, Sound(t) PROVE Sound(ChooseRest(t, bus, gates))
  <2>1. CASE PickedPriority(t, bus, gates) # NoCandidate
    <3> DEFINE c == PickedPriority(t, bus, gates)
    <3>1. t.priority # <<>>
      BY <2>1 DEF PickedPriority
    <3>2. Candidate(t, c, bus)
      BY <1>2, <2>1, PickedPriorityFacts
    <3>3. ChooseRest(t, bus, gates) = Send(t, c, gates)
      BY <2>1, <3>1 DEF ChooseRest
    <3> HIDE DEF c
    <3>4. QED
      BY <1>2, <3>2, <3>3, SendSound
  <2>2. CASE PickedPriority(t, bus, gates) = NoCandidate /\ t.priority # <<>>
    BY <1>2, <2>2 DEF ChooseRest
  <2>3. CASE PickedPriority(t, bus, gates) = NoCandidate /\ t.priority = <<>>
    BY <1>1, <1>2, <2>3 DEF ChooseRest
  <2>4. QED
    BY <2>1, <2>2, <2>3
<1>3. CASE bus # "row" /\ Picked(s, "active", bus, gates) # NoCandidate
  <2> DEFINE c == Picked(s, "active", bus, gates)
  <2>1. Candidate(s, c, bus)
    BY <1>3, PickedFacts
  <2> HIDE DEF c
  <2>2. Sound(Send(s, c, gates))
    BY <2>1, SendSound
  <2>3. QED
    BY <1>3, <2>2 DEF Choose, c
<1>4. CASE ~(bus # "row" /\ Picked(s, "active", bus, gates) # NoCandidate)
  <2>1. Sound(Retired(s))
    BY RetiredSound
  <2>2. Sound(ChooseRest(Retired(s), bus, gates))
    BY <1>2, <2>1
  <2>3. QED
    BY <1>4, <2>2 DEF Choose
<1>5. QED
  BY <1>3, <1>4

-----------------------------------------------------------------------------
(* A tick                                                                    *)

LEMMA TickSound ==
    ASSUME OpenPage, Sound(mc), NEW ks \in SUBSET Kinds, NEW reads, NEW writes, NEW due, NEW ms, NEW gates,
           ms = <<>> \/ \E m \in Maintenance : ms = <<m>>, Tick(ks, reads, writes, due, ms, gates)
    PROVE  Sound(mc') /\ cfg' = cfg
<1> DEFINE d == Dispatch(mc, ks)
           p == CompletePending(PhyTick(d, reads, writes), due)
           m == ServiceMaintenance(ScheduleMaintenance(p, ms))
<1>1. Sound(d)
  <2>1. CASE ks = {} \/ mc.next > MaxRequests
    BY <2>1 DEF Dispatch
  <2>2. CASE ~(ks = {} \/ mc.next > MaxRequests)
    <3> DEFINE k == CHOOSE x \in ks : TRUE
    <3>1. k \in Kinds
      BY <2>2
    <3>2. d = Enqueue(mc, k)
      BY <2>2 DEF Dispatch
    <3> HIDE DEF k, d
    <3>3. QED
      BY <3>1, <3>2, EnqueueSound
  <2>3. QED
    BY <2>1, <2>2
<1> HIDE DEF d
<1>2. Sound(p)
  BY <1>1, PhyTickSound, CompletePendingSound
<1> HIDE DEF p
<1>3. Sound(ScheduleMaintenance(p, ms))
  BY <1>2, ScheduleMaintenanceSound
<1>4. Sound(m)
  BY <1>3, ServiceMaintenanceSound
<1> HIDE DEF m
<1>5. BeforeCommands(d, reads, writes, due, ms, gates) = m
  BY DEF BeforeCommands, RowPolicyPre, OpenPage, RowPolicy, m, p
<1>6. Sound(Commands(m, gates))
  <2>1. CASE DualBus
    <3> DEFINE column == Choose(m, "column", gates)
    <3>1. Sound(column)
      BY <1>4, ChooseSound
    <3> HIDE DEF column
    <3>2. Sound(RowCommand(column, column, gates)) /\ \A x : Sound(RowCommand(x, column, gates))
      BY <3>1, ChooseSound DEF RowCommand
    <3>3. QED
      BY <2>1, <3>2 DEF Commands, column
  <2>2. CASE ~DualBus
    BY <1>4, <2>2, ChooseSound DEF Commands
  <2>3. QED
    BY <2>1, <2>2
<1>7. mc' = Commands(BeforeCommands(d, reads, writes, due, ms, gates), gates) /\ cfg' = cfg
  BY DEF Tick, d
<1>8. QED
  BY <1>5, <1>6, <1>7

LEMMA InitSound ==
    ASSUME Init
    PROVE  ControllerInv
<1>1. cfg \in Configs
  BY DEF Init
<1>2. ReadDepth \in Nat /\ WriteDepth \in Nat /\ PriorityDepth \in Nat /\ BankCount \in Nat
  BY <1>1, ControllerAssumption DEF BankCount
<1>3. DataQueue(<<>>) /\ CommandQueue(<<>>) /\ Len(<<>>) = 0
  <2>1. <<>> \in Seq(Range(<<>>))
    OBVIOUS
  <2>2. QED
    BY <2>1 DEF DataQueue, CommandQueue, Queue
<1>4. /\ DOMAIN mc = Fields /\ mc.read = <<>> /\ mc.write = <<>> /\ mc.active = <<>> /\ mc.priority = <<>>
      /\ mc.waiting = <<>> /\ mc.row = [b \in BankIds |-> Closed]
  BY DEF Init, Fields
<1>5. QueuesSound(mc)
  BY <1>2, <1>3, <1>4 DEF QueuesSound
<1>6. RowsSound(mc)
  BY <1>3, <1>4 DEF RowsSound
<1>7. QED
  BY <1>1, <1>4, <1>5, <1>6 DEF ControllerInv, Sound

LEMMA NextSound ==
    ASSUME ControllerInv, [Next]_vars
    PROVE  ControllerInv'
<1>1. cfg' = cfg
  BY DEF vars, Next, Submit, PhyDue, RequestDue, MaintenanceDue, CommandDue, QuietTick, TakeResponse, Tick
<1>2. SUFFICES ASSUME cfg.row_policy = "open" PROVE Sound(mc')
  <2>1. Sound(mc') => Sound(mc)'
    BY <1>1 DEF Sound, QueuesSound, RowsSound, DataQueue, CommandQueue, Queue, IsData, IsCommand,
                BankCount, BankIds, Bank, BankOf, RowOf
  <2>2. QED
    BY <1>1, <2>1 DEF ControllerInv, RowPolicy
<1>3. OpenPage /\ Sound(mc)
  BY <1>2 DEF OpenPage, ControllerInv, RowPolicy
<1>4. ASSUME Submit PROVE Sound(mc')
  <2>1. PICK k \in Kinds : Tick({k}, FALSE, FALSE, {}, <<>>, {})
    BY <1>4 DEF Submit
  <2>2. {k} \in SUBSET Kinds
    OBVIOUS
  <2>3. QED
    BY <1>3, <2>1, <2>2, TickSound
<1>5. ASSUME PhyDue PROVE Sound(mc')
  <2>1. PICK reads \in BOOLEAN : Tick({}, reads, ~reads, {}, <<>>, {})
    BY <1>5 DEF PhyDue
  <2>2. QED
    BY <1>3, <2>1, TickSound
<1>6. ASSUME RequestDue PROVE Sound(mc')
  <2>1. PICK r \in ToSet(mc.pending) : Tick({}, FALSE, FALSE, {r.n}, <<>>, {})
    BY <1>6 DEF RequestDue
  <2>2. QED
    BY <1>3, <2>1, TickSound
<1>7. ASSUME MaintenanceDue PROVE Sound(mc')
  <2>1. PICK m \in Maintenance : Tick({}, FALSE, FALSE, {}, <<m>>, {})
    BY <1>7 DEF MaintenanceDue
  <2>2. QED
    BY <1>3, <2>1, TickSound
<1>8. ASSUME CommandDue PROVE Sound(mc')
  <2>1. PICK gates \in SUBSET Wanted(ServiceMaintenance(mc)) : Tick({}, FALSE, FALSE, {}, <<>>, gates)
    BY <1>8 DEF CommandDue
  <2>2. QED
    BY <1>3, <2>1, TickSound
<1>9. ASSUME QuietTick PROVE Sound(mc')
  BY <1>3, <1>9, TickSound DEF QuietTick
<1>10. ASSUME TakeResponse PROVE Sound(mc')
  <2>1. Same(mc, mc')
    BY <1>3, <1>10 DEF TakeResponse, Same, Sound, Fields
  <2>2. QED
    BY <1>3, <2>1, SameSound
<1>11. ASSUME UNCHANGED vars PROVE Sound(mc')
  BY <1>3, <1>11 DEF vars
<1>12. QED
  BY <1>4, <1>5, <1>6, <1>7, <1>8, <1>9, <1>10, <1>11 DEF Next

\* With the open page policy, from its activation to its data command a request keeps the row it
\* had opened: neither maintenance nor another request's precharge or activation comes between,
\* on one command bus or two, whatever the queues, the scheduler and the PHY's mode.
THEOREM OpenPageKeepsRows == Spec => [](RowPolicy = "open" => ActiveKeepsRow)
<1>1. Init => ControllerInv
  BY InitSound
<1>2. ControllerInv /\ [Next]_vars => ControllerInv'
  BY NextSound
<1>3. ControllerInv => (RowPolicy = "open" => ActiveKeepsRow)
  <2>1. SUFFICES ASSUME ControllerInv, RowPolicy = "open" PROVE ActiveKeepsRow
    OBVIOUS
  <2>2. RowsSound(mc) /\ QueuesSound(mc)
    BY <2>1 DEF ControllerInv, Sound
  <2>3. DOMAIN mc.active = 1 .. Len(mc.active)
    BY <2>2 DEF QueuesSound, DataQueue, Queue
  <2>4. QED
    BY <2>2, <2>3 DEF RowsSound, ActiveKeepsRow
<1>4. QED
  BY <1>1, <1>2, <1>3, PTL DEF Spec
=============================================================================
