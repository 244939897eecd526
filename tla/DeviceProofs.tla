---------------------------- MODULE DeviceProofs ---------------------------
(***************************************************************************)
(* The accelerator devices, for any number of commands, accesses, IDs and       *)
(* tokens, and the unified timing memory behind the monitor, for any packets.   *)
(*                                                                         *)
(* CoralNPU: the core gets its answers in the order of its requests, and is    *)
(* started once (NpuInOrder).  NpuInv adds what the device relies on without    *)
(* saying so.  A sequence number is in one order only, that of its own kind and *)
(* ID, and there once (OrdersApart), so that retiring the front of one order     *)
(* cannot touch another's beats; and the start-up writes that got through tell   *)
(* at which stage the start is (Started).                                     *)
(*                                                                         *)
(* Vortex: no wake-up is lost (WakesRight).  VortexInv adds that the CP yields   *)
(* at each access, so that a second one never finds the first under way (its     *)
(* queue stays empty, and with it the flags that wait for the queue to drain);   *)
(* that a kernel is one of a command that is there; and that the core has        *)
(* accesses only between its launch and its end.                              *)
(*                                                                         *)
(* The memory: a read finds what was last written, answers to one address keep  *)
(* the order of their requests, and something always brings the next one        *)
(* (AnswersRight).  HetInv adds what each byte holds, that a packet is taken     *)
(* once (MemoryInv), that the queue has the order which the answers will have     *)
(* (OrderInv), and that exactly one event or retry is there for it (WakeInv).    *)
(***************************************************************************)
EXTENDS CoralNpu, VortexDevice, HetAxiMonitor, SequenceTheorems, WellFoundedInduction, TLAPS

-----------------------------------------------------------------------------
(* CoralNPU                                                                  *)

\* A table of orders: kind -> ID -> sequence numbers.
Orders == [Kinds -> [Ids -> Seq(Nat)]]

BeatsTyped ==
    /\ nextAxiSequence \in 1 .. MaxAccesses + 1 /\ DOMAIN txns \subseteq 1 .. MaxAccesses
    /\ orderById \in Orders /\ issued \in Orders /\ retired \in Orders

\* A beat is in the order of its kind and ID, once, and has a number that was given.
OrdersApart ==
    /\ \A s \in DOMAIN txns : txns[s] \in [kind: Kinds, id: Ids, done: BOOLEAN]
    /\ \A k \in Kinds, i \in Ids : \A j \in 1 .. Len(orderById[k][i]) :
          LET s == orderById[k][i][j]
          IN  s \in DOMAIN txns /\ txns[s].kind = k /\ txns[s].id = i /\ s < nextAxiSequence
    /\ \A k \in Kinds, i \in Ids : IsInjective(orderById[k][i])

BeatsInv == BeatsTyped /\ OrdersApart /\ RetiresInOrder

StartTyped ==
    /\ startStage \in 0 .. 3 /\ startWrite \in {"none", "queued", "done"}
    /\ core \in {"held", "running"} \cup Stopped
    /\ started \in BOOLEAN /\ tickEvent \in BOOLEAN /\ tap \in BOOLEAN
    /\ emitted \in Nat /\ emitted_cache \in Nat /\ seen \in Nat

\* How far the start is, by the writes that got through.
Through(n) == CASE n = 0 -> <<>> [] n = 1 -> <<0>> [] n = 2 -> <<0, 1>> [] n = 3 -> <<0, 1, 2>>
Started ==
    /\ ~started => startStage = 3 /\ startWrite = "none" /\ registers = <<>> /\ core = "held"
    /\ started => registers = Through(IF startWrite = "done" THEN startStage + 1 ELSE startStage)
    /\ startStage = 3 => startWrite = "none"
    /\ core # "held" <=> registers = <<0, 1, 2>>

StartInv == StartTyped /\ Started /\ StartsOnce

NpuInv == BeatsInv /\ StartInv

-----------------------------------------------------------------------------
(* Sequences                                                                 *)

LEMMA AppendToConcat ==
    ASSUME NEW S, NEW a \in Seq(S), NEW b \in Seq(S), NEW x \in S
    PROVE  a \o Append(b, x) = Append(a \o b, x)
<1>1. Append(b, x) = b \o <<x>> /\ <<x>> \in Seq(S)
  BY AppendIsConcat
<1>2. a \o b \in Seq(S)
  BY ConcatProperties
<1>3. Append(a \o b, x) = (a \o b) \o <<x>>
  BY <1>2, AppendIsConcat
<1>4. QED
  BY <1>1, <1>3, ConcatAssociative

LEMMA FrontAndBack ==
    ASSUME NEW S, NEW b \in Seq(S), NEW n \in 0 .. Len(b)
    PROVE  SubSeq(b, 1, n) \o SubSeq(b, n + 1, Len(b)) = b
<1>1. Len(b) \in Nat /\ 1 \in 1 .. (Len(b) + 1) /\ n \in (1 - 1) .. Len(b) /\ Len(b) \in n .. Len(b)
  OBVIOUS
<1>2. SubSeq(b, 1, n) \o SubSeq(b, n + 1, Len(b)) = SubSeq(b, 1, Len(b))
  BY <1>1, ConcatAdjacentSubSeq
<1>3. QED
  BY <1>2, SubSeqFull

LEMMA LeastOf ==
    ASSUME NEW T \in SUBSET Nat, T # {}
    PROVE  Min(T) \in T /\ \A y \in T : Min(T) <= y
<1>1. PICK x \in T : \A y \in T : ~(<<y, x>> \in OpToRel(<, Nat))
  BY NatLessThanWellFounded, WFMin
<1>2. ASSUME NEW y \in T PROVE x <= y
  <2>1. x \in Nat /\ y \in Nat
    OBVIOUS
  <2>2. y < x => <<y, x>> \in OpToRel(<, Nat)
    BY <2>1 DEF OpToRel
  <2>3. ~(y < x)
    BY <1>1, <2>2
  <2>4. QED
    BY <2>1, <2>3
<1>3. QED
  BY <1>2 DEF Min

\* The beats at the front that are done, all of them.
LEMMA ReadyFacts ==
    ASSUME NEW order \in Seq(Nat), NEW beats
    PROVE  LET n == ReadyToRetire(order, beats)
           IN  /\ n \in 0 .. Len(order)
               /\ \A j \in 1 .. n : beats[order[j]].done
               /\ n < Len(order) => ~beats[order[n + 1]].done
<1> DEFINE waiting == {j \in DOMAIN order : ~beats[order[j]].done}
           n == ReadyToRetire(order, beats)
<1>1. Len(order) \in Nat /\ DOMAIN order = 1 .. Len(order)
  OBVIOUS
<1>2. n = IF waiting = {} THEN Len(order) ELSE Min(waiting) - 1
  BY DEF ReadyToRetire
<1>3. \A j \in 1 .. Len(order) : j \in waiting <=> ~beats[order[j]].done
  BY <1>1
<1>4. waiting \in SUBSET (1 .. Len(order))
  BY <1>1
<1> HIDE DEF waiting, n
<1>5. CASE waiting = {}
  BY <1>1, <1>2, <1>3, <1>5 DEF n
<1>6. CASE waiting # {}
  <2>1. Min(waiting) \in waiting /\ \A y \in waiting : Min(waiting) <= y
    BY <1>4, <1>6, LeastOf
  <2> DEFINE least == Min(waiting)
  <2>2. least \in 1 .. Len(order) /\ n = least - 1 /\ ~beats[order[least]].done
    BY <1>2, <1>3, <1>4, <1>6, <2>1
  <2>3. \A j \in 1 .. n : j \notin waiting
    BY <1>1, <2>1, <2>2
  <2> HIDE DEF least
  <2>4. n \in 0 .. Len(order) /\ n + 1 = least
    BY <1>1, <2>2
  <2>5. \A j \in 1 .. n : beats[order[j]].done
    BY <1>1, <1>3, <2>3, <2>4
  <2>6. QED
    BY <2>2, <2>4, <2>5 DEF n
<1>7. QED
  BY <1>5, <1>6

-----------------------------------------------------------------------------
(* The beats                                                                 *)

LEMMA BeatsSame ==
    ASSUME BeatsInv, UNCHANGED <<txns, orderById, issued, retired, nextAxiSequence>>
    PROVE  BeatsInv'
<1>1. BeatsTyped /\ OrdersApart /\ RetiresInOrder
  BY DEF BeatsInv
<1>2. txns' = txns /\ orderById' = orderById /\ issued' = issued /\ retired' = retired /\ nextAxiSequence' = nextAxiSequence
  OBVIOUS
<1>3. BeatsTyped'
  BY <1>1, <1>2 DEF BeatsTyped, Orders
<1>4. OrdersApart'
  BY <1>1, <1>2 DEF OrdersApart
<1>5. RetiresInOrder'
  <2>1. \A k \in Kinds, i \in Ids :
          /\ retired'[k][i] \o orderById'[k][i] = issued'[k][i]
          /\ orderById'[k][i] # <<>> => ~txns'[orderById'[k][i][1]].done
          /\ Range(orderById'[k][i]) \subseteq DOMAIN txns'
    BY <1>1, <1>2 DEF RetiresInOrder
  <2>2. \A s \in DOMAIN txns' : \E k \in Kinds, i \in Ids : s \in Range(orderById'[k][i])
    BY <1>1, <1>2 DEF RetiresInOrder
  <2>3. QED
    BY <2>1, <2>2 DEF RetiresInOrder
<1>6. QED
  BY <1>3, <1>4, <1>5 DEF BeatsInv

\* A beat is in the order of its own kind and ID.
LEMMA OwnOrder ==
    ASSUME BeatsInv, NEW s \in DOMAIN txns
    PROVE  /\ s \in Nat /\ s < nextAxiSequence /\ txns[s].kind \in Kinds /\ txns[s].id \in Ids
           /\ \E j \in 1 .. Len(orderById[txns[s].kind][txns[s].id]) : orderById[txns[s].kind][txns[s].id][j] = s
<1>1. BeatsTyped /\ OrdersApart /\ RetiresInOrder
  BY DEF BeatsInv
<1>2. PICK k \in Kinds, i \in Ids : s \in Range(orderById[k][i])
  BY <1>1 DEF RetiresInOrder
<1>3. orderById[k][i] \in Seq(Nat)
  BY <1>1 DEF BeatsTyped, Orders
<1>4. PICK j \in 1 .. Len(orderById[k][i]) : orderById[k][i][j] = s
  BY <1>2, <1>3 DEF Range
<1>5. txns[s].kind = k /\ txns[s].id = i /\ s < nextAxiSequence
  BY <1>1, <1>4 DEF OrdersApart
<1>6. s \in Nat
  BY <1>3, <1>4
<1>7. QED
  BY <1>4, <1>5, <1>6

LEMMA IssueKeeps ==
    ASSUME BeatsInv, NEW k \in Kinds, NEW i \in Ids, NEW runs, Issue(k, i, runs),
           nextAxiSequence <= MaxAccesses, retired' = retired
    PROVE  BeatsInv'
<1> DEFINE q == nextAxiSequence
           order == orderById[k][i]
           beat == [kind |-> k, id |-> i, done |-> FALSE]
<1>1. BeatsTyped /\ OrdersApart /\ RetiresInOrder
  BY DEF BeatsInv
<1>2. /\ orderById' = [orderById EXCEPT ![k][i] = Append(order, q)]
      /\ issued' = [issued EXCEPT ![k][i] = Append(issued[k][i], q)]
      /\ nextAxiSequence' = q + 1
  BY DEF Issue
<1>3. q \in Nat /\ q \in 1 .. MaxAccesses /\ q \notin DOMAIN txns
  BY <1>1, OwnOrder, NpuAssumption DEF BeatsTyped
<1>4. /\ DOMAIN txns' = DOMAIN txns \cup {q} /\ txns'[q] = beat
      /\ \A s \in DOMAIN txns : txns'[s] = txns[s]
  <2>1. txns' = [z \in DOMAIN txns \cup {q} |-> IF z = q THEN beat ELSE txns[z]]
    BY DEF Issue
  <2>2. QED
    BY <1>3, <2>1
<1>5. order \in Seq(Nat) /\ issued[k][i] \in Seq(Nat) /\ retired[k][i] \in Seq(Nat)
  BY <1>1 DEF BeatsTyped, Orders
<1>6. /\ orderById' \in Orders /\ issued' \in Orders
      /\ orderById'[k][i] = Append(order, q) /\ issued'[k][i] = Append(issued[k][i], q)
      /\ \A l \in Kinds, h \in Ids : l # k \/ h # i =>
            orderById'[l][h] = orderById[l][h] /\ issued'[l][h] = issued[l][h]
  <2>1. Append(order, q) \in Seq(Nat) /\ Append(issued[k][i], q) \in Seq(Nat)
    BY <1>3, <1>5
  <2>2. orderById \in Orders /\ issued \in Orders
    BY <1>1 DEF BeatsTyped
  <2>3. /\ orderById' \in Orders /\ orderById'[k][i] = Append(order, q)
        /\ \A l \in Kinds, h \in Ids : l # k \/ h # i => orderById'[l][h] = orderById[l][h]
    BY <1>2, <2>1, <2>2 DEF Orders
  <2>4. /\ issued' \in Orders /\ issued'[k][i] = Append(issued[k][i], q)
        /\ \A l \in Kinds, h \in Ids : l # k \/ h # i => issued'[l][h] = issued[l][h]
    BY <1>2, <2>1, <2>2 DEF Orders
  <2>5. QED
    BY <2>3, <2>4
<1>7. /\ Len(Append(order, q)) = Len(order) + 1 /\ Append(order, q)[Len(order) + 1] = q
      /\ \A j \in 1 .. Len(order) : Append(order, q)[j] = order[j]
  BY <1>3, <1>5
<1> HIDE DEF q, order
<1>8. BeatsTyped'
  <2>1. nextAxiSequence' \in 1 .. MaxAccesses + 1 /\ DOMAIN txns' \subseteq 1 .. MaxAccesses
    BY <1>1, <1>2, <1>3, <1>4, NpuAssumption DEF BeatsTyped
  <2>2. retired' \in Orders
    BY <1>1 DEF BeatsTyped
  <2>3. QED
    BY <1>6, <2>1, <2>2 DEF BeatsTyped
<1>9. \A j \in 1 .. Len(order) : order[j] \in DOMAIN txns
  BY <1>1 DEF OrdersApart, order
<1>10. OrdersApart'
  <2>1. \A s \in DOMAIN txns' : txns'[s] \in [kind: Kinds, id: Ids, done: BOOLEAN]
    <3>1. beat \in [kind: Kinds, id: Ids, done: BOOLEAN]
      OBVIOUS
    <3> HIDE DEF beat
    <3>2. QED
      BY <1>1, <1>4, <3>1 DEF OrdersApart
  <2>2. ASSUME NEW l \in Kinds, NEW h \in Ids, NEW j \in 1 .. Len(orderById'[l][h])
        PROVE  LET s == orderById'[l][h][j]
               IN  s \in DOMAIN txns' /\ txns'[s].kind = l /\ txns'[s].id = h /\ s < nextAxiSequence'
    <3>1. CASE l # k \/ h # i
      <4>1. orderById'[l][h] = orderById[l][h]
        BY <1>6, <3>1
      <4> DEFINE s == orderById[l][h][j]
      <4>2. s \in DOMAIN txns /\ txns[s].kind = l /\ txns[s].id = h /\ s < nextAxiSequence
        BY <1>1, <2>2, <4>1 DEF OrdersApart
      <4>3. s \in Nat /\ q = nextAxiSequence
        BY <4>2, OwnOrder DEF q
      <4> HIDE DEF s
      <4>4. s \in DOMAIN txns' /\ txns'[s] = txns[s] /\ s < nextAxiSequence'
        BY <1>2, <1>3, <1>4, <4>2, <4>3
      <4>5. QED
        BY <4>1, <4>2, <4>4 DEF s
    <3>2. CASE l = k /\ h = i /\ j = Len(order) + 1
      BY <1>2, <1>3, <1>4, <1>6, <1>7, <3>2
    <3>3. CASE l = k /\ h = i /\ j # Len(order) + 1
      <4>1. j \in 1 .. Len(order) /\ orderById'[l][h][j] = order[j]
        <5>1. orderById'[l][h] = Append(order, q)
          BY <1>6, <3>3
        <5>2. j \in 1 .. (Len(order) + 1)
          BY <1>7, <2>2, <5>1
        <5>3. j \in 1 .. Len(order)
          BY <1>5, <3>3, <5>2
        <5>4. QED
          BY <1>7, <5>1, <5>3
      <4>2. order[j] \in DOMAIN txns /\ txns[order[j]].kind = k /\ txns[order[j]].id = i
        BY <1>1, <4>1 DEF OrdersApart, order
      <4>3. order[j] \in Nat /\ order[j] < q
        BY <4>2, OwnOrder DEF q
      <4>4. QED
        BY <1>2, <1>3, <1>4, <3>3, <4>1, <4>2, <4>3
    <3>4. QED
      BY <3>1, <3>2, <3>3
  <2>3. ASSUME NEW l \in Kinds, NEW h \in Ids PROVE IsInjective(orderById'[l][h])
    <3>1. CASE l # k \/ h # i
      BY <1>1, <1>6, <3>1 DEF OrdersApart
    <3>2. CASE l = k /\ h = i
      <4>1. IsInjective(order)
        BY <1>1 DEF OrdersApart, order
      <4>2. IsInjective(Append(order, q))
        BY <1>3, <1>5, <1>7, <1>9, <4>1 DEF IsInjective
      <4>3. QED
        BY <1>6, <3>2, <4>2
    <3>3. QED
      BY <3>1, <3>2
  <2>4. QED
    BY <2>1, <2>2, <2>3 DEF OrdersApart
<1>11. RetiresInOrder'
  <2>1. ASSUME NEW l \in Kinds, NEW h \in Ids
        PROVE  /\ retired'[l][h] \o orderById'[l][h] = issued'[l][h]
               /\ orderById'[l][h] # <<>> => ~txns'[orderById'[l][h][1]].done
    <3>1. CASE l # k \/ h # i
      <4>1. orderById[l][h] \in Seq(Nat)
        BY <1>1 DEF BeatsTyped, Orders
      <4>2. orderById[l][h] # <<>> => 1 \in 1 .. Len(orderById[l][h])
        BY <4>1
      <4>3. orderById[l][h] # <<>> => orderById[l][h][1] \in DOMAIN txns
        BY <1>1, <4>2 DEF OrdersApart
      <4>4. /\ retired[l][h] \o orderById[l][h] = issued[l][h]
            /\ orderById[l][h] # <<>> => ~txns[orderById[l][h][1]].done
        BY <1>1 DEF RetiresInOrder
      <4>5. orderById'[l][h] = orderById[l][h] /\ issued'[l][h] = issued[l][h]
        BY <1>6, <3>1
      <4>6. QED
        BY <1>4, <4>3, <4>4, <4>5
    <3>2. CASE l = k /\ h = i
      <4>1. retired[k][i] \o order = issued[k][i]
        BY <1>1 DEF RetiresInOrder, order
      <4>2. retired[k][i] \o Append(order, q) = Append(issued[k][i], q)
        <5> DEFINE before == retired[k][i]
        <5>1. before \in Seq(Nat) /\ order \in Seq(Nat) /\ q \in Nat
          BY <1>3, <1>5
        <5> HIDE DEF before
        <5>2. before \o Append(order, q) = Append(before \o order, q)
          BY <5>1, AppendToConcat
        <5>3. QED
          BY <4>1, <5>2 DEF before
      <4>3. ~txns'[Append(order, q)[1]].done
        <5>1. CASE order = <<>>
          BY <1>4, <1>7, <5>1
        <5>2. CASE order # <<>>
          <6>1. 1 \in 1 .. Len(order) /\ Append(order, q)[1] = order[1]
            BY <1>5, <1>7, <5>2
          <6>2. ~txns[order[1]].done
            BY <1>1, <5>2 DEF RetiresInOrder, order
          <6>3. QED
            BY <1>4, <1>9, <6>1, <6>2
        <5>3. QED
          BY <5>1, <5>2
      <4>4. QED
        BY <1>6, <3>2, <4>2, <4>3
    <3>3. QED
      BY <3>1, <3>2
  <2>2. ASSUME NEW s PROVE s \in DOMAIN txns' <=> \E l \in Kinds, h \in Ids : s \in Range(orderById'[l][h])
    <3>1. s \in DOMAIN txns <=> \E l \in Kinds, h \in Ids : s \in Range(orderById[l][h])
      BY <1>1 DEF RetiresInOrder
    <3>2. s \in Range(Append(order, q)) <=> s \in Range(order) \/ s = q
      <4>1. DOMAIN order = 1 .. Len(order) /\ DOMAIN Append(order, q) = 1 .. (Len(order) + 1) /\ Len(order) \in Nat
        BY <1>3, <1>5
      <4>2. ASSUME s \in Range(Append(order, q)) PROVE s \in Range(order) \/ s = q
        BY <1>7, <4>1, <4>2 DEF Range
      <4>3. ASSUME s \in Range(order) PROVE s \in Range(Append(order, q))
        BY <1>7, <4>1, <4>3 DEF Range
      <4>4. q \in Range(Append(order, q))
        BY <1>7, <4>1 DEF Range
      <4>5. QED
        BY <4>2, <4>3, <4>4
    <3>3. ASSUME s \in DOMAIN txns' PROVE \E l \in Kinds, h \in Ids : s \in Range(orderById'[l][h])
      BY <1>4, <1>6, <3>1, <3>2, <3>3 DEF order
    <3>4. ASSUME NEW l \in Kinds, NEW h \in Ids, s \in Range(orderById'[l][h]) PROVE s \in DOMAIN txns'
      BY <1>4, <1>6, <3>1, <3>2, <3>4 DEF order
    <3>5. QED
      BY <3>3, <3>4
  <2>3. /\ \A s \in DOMAIN txns' : \E l \in Kinds, h \in Ids : s \in Range(orderById'[l][h])
        /\ \A l \in Kinds, h \in Ids : Range(orderById'[l][h]) \subseteq DOMAIN txns'
    BY <2>2
  <2>4. QED
    BY <2>1, <2>3 DEF RetiresInOrder
<1>12. QED
  BY <1>8, <1>10, <1>11 DEF BeatsInv

LEMMA MemoryCompleteKeeps ==
    ASSUME BeatsInv, NEW s \in DOMAIN txns, MemoryComplete(s)
    PROVE  BeatsInv'
<1> DEFINE k == txns[s].kind
           i == txns[s].id
           order == orderById[k][i]
           done == [txns EXCEPT ![s].done = TRUE]
           n == ReadyToRetire(order, done)
           front == SubSeq(order, 1, n)
           back == SubSeq(order, n + 1, Len(order))
           out == Range(front)
           before == retired[k][i]
<1>1. BeatsTyped /\ OrdersApart /\ RetiresInOrder
  BY DEF BeatsInv
<1>2. /\ txns' = [q \in DOMAIN txns \ out |-> done[q]]
      /\ orderById' = [orderById EXCEPT ![k][i] = back]
      /\ retired' = [retired EXCEPT ![k][i] = before \o front]
      /\ issued' = issued /\ nextAxiSequence' = nextAxiSequence
  BY DEF MemoryComplete
<1>3. k \in Kinds /\ i \in Ids
  BY OwnOrder
<1>4. /\ \A q \in DOMAIN txns : done[q].kind = txns[q].kind /\ done[q].id = txns[q].id
      /\ \A q \in DOMAIN txns : done[q] \in [kind: Kinds, id: Ids, done: BOOLEAN]
      /\ \A q \in DOMAIN txns : q # s => done[q] = txns[q]
  <2> DEFINE beat == [txns[s] EXCEPT !.done = TRUE]
  <2>1. \A q \in DOMAIN txns : done[q] = IF q = s THEN beat ELSE txns[q]
    OBVIOUS
  <2>2. \A q \in DOMAIN txns : txns[q] \in [kind: Kinds, id: Ids, done: BOOLEAN]
    BY <1>1 DEF OrdersApart
  <2>3. beat \in [kind: Kinds, id: Ids, done: BOOLEAN] /\ beat.kind = txns[s].kind /\ beat.id = txns[s].id
    BY <2>2
  <2> HIDE DEF beat, done
  <2>4. QED
    BY <2>1, <2>2, <2>3
<1>5. order \in Seq(Nat) /\ before \in Seq(Nat) /\ Len(order) \in Nat
  BY <1>1, <1>3 DEF BeatsTyped, Orders
<1> HIDE DEF k, i, order, before, done, n
<1>6. /\ n \in Nat /\ n <= Len(order)
      /\ n < Len(order) => ~done[order[n + 1]].done
  BY <1>5, ReadyFacts DEF n
<1>7. /\ front \in Seq(Nat) /\ Len(front) = n /\ \A j \in 1 .. n : front[j] = order[j]
      /\ back \in Seq(Nat) /\ Len(back) = Len(order) - n
      /\ \A j \in 1 .. (Len(order) - n) : back[j] = order[n + j]
      /\ (before \o front) \o back = before \o order
  <2>1. n \in 0 .. Len(order)
    BY <1>5, <1>6
  <2>2. front \in Seq(Nat) /\ Len(front) = n /\ \A j \in 1 .. n : front[j] = order[j]
    BY <1>5, <2>1
  <2>3. /\ back \in Seq(Nat) /\ Len(back) = Len(order) - n
        /\ \A j \in 1 .. (Len(order) - n) : back[j] = order[n + j]
    <3>1. back \in Seq(Nat) /\ Len(back) = Len(order) - n
      BY <1>5, <2>1
    <3>2. ASSUME NEW j \in 1 .. (Len(order) - n) PROVE back[j] = order[n + j]
      <4>1. j \in Nat /\ 1 <= j /\ j <= Len(order) - n /\ n + 1 + j - 1 = n + j
        BY <1>5, <2>1
      <4>2. QED
        BY <1>5, <2>1, <4>1
    <3>3. QED
      BY <3>1, <3>2
  <2>4. front \o back = order
    BY <1>5, <2>1, FrontAndBack
  <2> HIDE DEF front, back
  <2>5. (before \o front) \o back = before \o (front \o back)
    <3>1. before \in Seq(Nat) /\ front \in Seq(Nat) /\ back \in Seq(Nat)
      BY <1>5, <2>2, <2>3
    <3>2. QED
      BY <3>1, ConcatAssociative
  <2>6. QED
    BY <2>2, <2>3, <2>4, <2>5
<1>8. before \o front \in Seq(Nat)
  BY <1>5, <1>7, ConcatProperties
<1> HIDE DEF front, back
<1>9. /\ orderById' \in Orders /\ orderById'[k][i] = back
      /\ \A l \in Kinds, h \in Ids : l # k \/ h # i => orderById'[l][h] = orderById[l][h]
  <2>1. orderById \in Orders
    BY <1>1 DEF BeatsTyped
  <2>2. QED
    BY <1>2, <1>3, <1>7, <2>1 DEF Orders
<1>10. /\ retired' \in Orders /\ retired'[k][i] = before \o front
       /\ \A l \in Kinds, h \in Ids : l # k \/ h # i => retired'[l][h] = retired[l][h]
  <2>1. retired \in Orders
    BY <1>1 DEF BeatsTyped
  <2>2. QED
    BY <1>2, <1>3, <1>8, <2>1 DEF Orders
<1>11. \A q : q \in out <=> \E j \in 1 .. n : order[j] = q
  <2>1. DOMAIN front = 1 .. n
    BY <1>7
  <2>2. QED
    BY ZenonT(60), <1>7, <2>1 DEF Range
<1> HIDE DEF out
<1>12. \A j \in 1 .. Len(order) : order[j] \in DOMAIN txns /\ txns[order[j]].kind = k /\ txns[order[j]].id = i
  BY <1>1, <1>3 DEF OrdersApart, order
<1>13. \A q \in out : q \in DOMAIN txns /\ txns[q].kind = k /\ txns[q].id = i
  BY SMTT(30), <1>5, <1>6, <1>11, <1>12
<1>14. ASSUME NEW j \in 1 .. (Len(order) - n) PROVE order[n + j] \in DOMAIN txns /\ order[n + j] \notin out
  <2>0. n + j \in 1 .. Len(order)
    BY <1>5, <1>6
  <2>1. SUFFICES ASSUME order[n + j] \in out PROVE FALSE
    BY <1>12, <2>0
  <2>2. PICK m \in 1 .. n : order[m] = order[n + j]
    BY <1>11, <2>1
  <2>3. IsInjective(order)
    BY <1>1, <1>3 DEF OrdersApart, order
  <2>4. m \in DOMAIN order /\ n + j \in DOMAIN order /\ m # n + j
    BY SMTT(30), <1>5, <1>6, <2>0
  <2>5. QED
    BY <2>2, <2>3, <2>4 DEF IsInjective
<1>15. /\ DOMAIN txns' = DOMAIN txns \ out
       /\ \A q \in DOMAIN txns' : txns'[q] = done[q]
  BY <1>2
<1>16. BeatsTyped'
  <2>1. nextAxiSequence' \in 1 .. MaxAccesses + 1 /\ DOMAIN txns' \subseteq 1 .. MaxAccesses /\ issued' \in Orders
    BY <1>1, <1>2, <1>15 DEF BeatsTyped
  <2>2. QED
    BY <1>9, <1>10, <2>1 DEF BeatsTyped
\* A beat of another order stays as it is.
<1>17. ASSUME NEW l \in Kinds, NEW h \in Ids, l # k \/ h # i, NEW j \in 1 .. Len(orderById[l][h])
       PROVE  LET q == orderById[l][h][j]
              IN  /\ q \in DOMAIN txns' /\ txns'[q] = txns[q]
                  /\ txns[q].kind = l /\ txns[q].id = h /\ q < nextAxiSequence
  <2> DEFINE q == orderById[l][h][j]
  <2>1. q \in DOMAIN txns /\ txns[q].kind = l /\ txns[q].id = h /\ q < nextAxiSequence
    BY <1>1 DEF OrdersApart
  <2>2. q # s
    BY <1>17, <2>1 DEF k, i
  <2>3. q \notin out
    BY <1>13, <1>17, <2>1
  <2>4. QED
    BY <1>4, <1>15, <2>1, <2>2, <2>3
<1>18. ASSUME NEW j \in 1 .. Len(back)
       PROVE  /\ back[j] \in DOMAIN txns' /\ txns'[back[j]] = done[back[j]]
              /\ txns'[back[j]].kind = k /\ txns'[back[j]].id = i /\ back[j] < nextAxiSequence
  <2>0. j \in 1 .. (Len(order) - n)
    BY <1>7
  <2>1. j \in 1 .. (Len(order) - n) /\ back[j] = order[n + j] /\ n + j \in 1 .. Len(order)
    <3>1. back[j] = order[n + j]
      BY <1>7, <2>0
    <3>2. Len(order) \in Nat /\ n \in Nat
      BY <1>5, <1>6
    <3>3. n + j \in 1 .. Len(order)
      BY <2>0, <3>2
    <3>4. QED
      BY <2>0, <3>1, <3>3
  <2>2. back[j] \in DOMAIN txns' /\ txns'[back[j]] = done[back[j]]
    BY <1>14, <1>15, <2>1
  <2>3. back[j] \in DOMAIN txns
    BY <1>15, <2>2
  <2>4. back[j] < nextAxiSequence
    BY <2>3, OwnOrder
  <2>5. QED
    BY <1>4, <1>12, <2>1, <2>2, <2>3, <2>4
<1>19. OrdersApart'
  <2>1. \A q \in DOMAIN txns' : txns'[q] \in [kind: Kinds, id: Ids, done: BOOLEAN]
    BY <1>4, <1>15
  <2>2. ASSUME NEW l \in Kinds, NEW h \in Ids, NEW j \in 1 .. Len(orderById'[l][h])
        PROVE  LET q == orderById'[l][h][j]
               IN  q \in DOMAIN txns' /\ txns'[q].kind = l /\ txns'[q].id = h /\ q < nextAxiSequence'
    <3>1. CASE l # k \/ h # i
      <4>1. orderById'[l][h] = orderById[l][h]
        BY <1>9, <3>1
      <4>2. j \in 1 .. Len(orderById[l][h])
        BY <2>2, <4>1
      <4> DEFINE q == orderById[l][h][j]
      <4>3. /\ q \in DOMAIN txns' /\ txns'[q] = txns[q]
            /\ txns[q].kind = l /\ txns[q].id = h /\ q < nextAxiSequence
        BY <1>17, <3>1, <4>2
      <4> HIDE DEF q
      <4>4. orderById'[l][h][j] = q
        BY <4>1 DEF q
      <4>5. QED
        BY <1>2, <4>3, <4>4
    <3>2. CASE l = k /\ h = i
      <4>1. orderById'[l][h] = back
        BY <1>9, <3>2
      <4>2. j \in 1 .. Len(back)
        BY <2>2, <4>1
      <4>3. /\ back[j] \in DOMAIN txns' /\ txns'[back[j]].kind = k /\ txns'[back[j]].id = i
            /\ back[j] < nextAxiSequence
        BY <1>18, <4>2
      <4>4. QED
        BY <1>2, <3>2, <4>1, <4>3
    <3>3. QED
      BY <3>1, <3>2
  <2>3. ASSUME NEW l \in Kinds, NEW h \in Ids PROVE IsInjective(orderById'[l][h])
    <3>1. CASE l # k \/ h # i
      BY <1>1, <1>9, <3>1 DEF OrdersApart
    <3>2. CASE l = k /\ h = i
      <4>1. IsInjective(order)
        BY <1>1, <1>3 DEF OrdersApart, order
      <4>2. ASSUME NEW a \in DOMAIN back, NEW b \in DOMAIN back, back[a] = back[b] PROVE a = b
        <5>0. DOMAIN order = 1 .. Len(order) /\ DOMAIN back = 1 .. (Len(order) - n)
          BY <1>5, <1>7
        <5>1. /\ a \in 1 .. (Len(order) - n) /\ b \in 1 .. (Len(order) - n)
              /\ n + a \in DOMAIN order /\ n + b \in DOMAIN order
          BY <1>5, <1>6, <5>0
        <5>2. order[n + a] = order[n + b]
          BY <1>7, <4>2, <5>1
        <5>3. n + a = n + b
          BY <4>1, <5>1, <5>2 DEF IsInjective
        <5>4. QED
          BY <1>6, <5>1, <5>3
      <4>3. QED
        BY <1>9, <3>2, <4>2 DEF IsInjective
    <3>3. QED
      BY <3>1, <3>2
  <2>4. QED
    BY <2>1, <2>2, <2>3 DEF OrdersApart
<1>20. RetiresInOrder'
  <2>1. ASSUME NEW l \in Kinds, NEW h \in Ids
        PROVE  /\ retired'[l][h] \o orderById'[l][h] = issued'[l][h]
               /\ orderById'[l][h] # <<>> => ~txns'[orderById'[l][h][1]].done
    <3>1. CASE l # k \/ h # i
      <4>1. orderById'[l][h] = orderById[l][h] /\ retired'[l][h] = retired[l][h]
        BY <1>9, <1>10, <3>1
      <4>2. /\ retired[l][h] \o orderById[l][h] = issued[l][h]
            /\ orderById[l][h] # <<>> => ~txns[orderById[l][h][1]].done
        BY <1>1 DEF RetiresInOrder
      <4>3. orderById[l][h] \in Seq(Nat)
        BY <1>1 DEF BeatsTyped, Orders
      <4>4. orderById[l][h] # <<>> => 1 \in 1 .. Len(orderById[l][h])
        BY <4>3
      <4>5. orderById[l][h] # <<>> => txns'[orderById[l][h][1]] = txns[orderById[l][h][1]]
        BY <1>17, <3>1, <4>4
      <4>6. QED
        BY <1>2, <4>1, <4>2, <4>5
    <3>2. CASE l = k /\ h = i
      <4>1. before \o order = issued[k][i]
        BY <1>1, <1>3 DEF RetiresInOrder, order, before
      <4>2. retired'[l][h] \o orderById'[l][h] = issued'[l][h]
        BY <1>2, <1>7, <1>9, <1>10, <3>2, <4>1
      <4>3. ASSUME back # <<>> PROVE ~txns'[back[1]].done
        <5>1. 1 \in 1 .. Len(back) /\ n < Len(order) /\ 1 \in 1 .. (Len(order) - n)
          BY <1>5, <1>6, <1>7, <4>3
        <5>2. back[1] = order[n + 1] /\ txns'[back[1]] = done[back[1]]
          BY <1>7, <1>18, <5>1
        <5>3. QED
          BY <1>6, <5>1, <5>2
      <4>4. QED
        BY <1>9, <3>2, <4>2, <4>3
    <3>3. QED
      BY <3>1, <3>2
  <2>2. ASSUME NEW l \in Kinds, NEW h \in Ids PROVE Range(orderById'[l][h]) \subseteq DOMAIN txns'
    <3>1. DOMAIN orderById'[l][h] = 1 .. Len(orderById'[l][h])
      <4>1. orderById'[l][h] \in Seq(Nat)
        BY <1>9 DEF Orders
      <4>2. QED
        BY <4>1
    <3>2. \A j \in DOMAIN orderById'[l][h] : orderById'[l][h][j] \in DOMAIN txns'
      BY <1>19, <3>1 DEF OrdersApart
    <3>3. QED
      BY <3>2 DEF Range
  <2>3. ASSUME NEW q \in DOMAIN txns' PROVE \E l \in Kinds, h \in Ids : q \in Range(orderById'[l][h])
    <3>1. q \in DOMAIN txns /\ q \notin out
      BY <1>15
    <3> DEFINE l == txns[q].kind
               h == txns[q].id
    <3>2. l \in Kinds /\ h \in Ids /\ \E j \in 1 .. Len(orderById[l][h]) : orderById[l][h][j] = q
      BY <3>1, OwnOrder
    <3> HIDE DEF l, h
    <3>3. PICK j \in 1 .. Len(orderById[l][h]) : orderById[l][h][j] = q
      BY <3>2
    <3>4. orderById[l][h] \in Seq(Nat)
      BY <1>1, <3>2 DEF BeatsTyped, Orders
    <3>5. CASE l # k \/ h # i
      <4>1. orderById'[l][h] = orderById[l][h] /\ j \in DOMAIN orderById[l][h]
        BY <1>9, <3>2, <3>4, <3>5
      <4>2. QED
        BY <3>2, <3>3, <4>1 DEF Range
    <3>6. CASE l = k /\ h = i
      <4>1. j \in 1 .. Len(order) /\ order[j] = q
        BY <3>3, <3>6 DEF order
      <4>2. j - n \in 1 .. (Len(order) - n)
        BY <1>5, <1>6, <1>11, <3>1, <4>1
      <4>3. j - n \in DOMAIN back /\ back[j - n] = q
        BY <1>5, <1>6, <1>7, <4>1, <4>2
      <4>4. q \in Range(back)
        BY <4>3 DEF Range
      <4>5. QED
        BY <1>3, <1>9, <4>4
    <3>7. QED
      BY <3>5, <3>6
  <2>4. QED
    BY <2>1, <2>2, <2>3 DEF RetiresInOrder
<1>21. QED
  BY <1>16, <1>19, <1>20 DEF BeatsInv

\* Whatever the core does in a step, the beats stay in order.
LEMMA StepKeeps ==
    ASSUME BeatsInv, NEW stage, NEW write, Step(stage, write), retired' = retired
    PROVE  BeatsInv'
<1>1. CASE UNCHANGED <<txns, orderById, issued, nextAxiSequence>>
  BY <1>1, BeatsSame
<1>2. CASE nextAxiSequence <= MaxAccesses /\ \E k \in Kinds, i \in Ids, runs \in 0 .. 2 : Issue(k, i, runs)
  BY <1>2, IssueKeeps
<1>3. \A k \in Kinds : RunsOf(k) \subseteq 0 .. 2
  BY DEF RunsOf
<1>4. QED
  BY <1>1, <1>2, <1>3 DEF Step, NoAccess, MailboxAccess

-----------------------------------------------------------------------------
(* The start                                                                 *)

LEMMA ThroughFacts ==
    /\ Through(0) = <<>> /\ Through(1) = <<0>> /\ Through(2) = <<0, 1>> /\ Through(3) = <<0, 1, 2>>
    /\ \A n \in 0 .. 2 : Append(Through(n), n) = Through(n + 1) /\ Through(n) # <<0, 1, 2>>
    /\ \A n \in 0 .. 3 : Through(n) \in {<<>>, <<0>>, <<0, 1>>, <<0, 1, 2>>}
    /\ \A n \in 0 .. 3 : Through(n) = <<0, 1, 2>> => n = 3
<1>1. Through(0) = <<>>
  BY DEF Through
<1>2. Through(1) = <<0>>
  BY DEF Through
<1>3. Through(2) = <<0, 1>>
  BY DEF Through
<1>4. Through(3) = <<0, 1, 2>>
  BY DEF Through
<1>5. /\ Append(<<>>, 0) = <<0>> /\ Append(<<0>>, 1) = <<0, 1>> /\ Append(<<0, 1>>, 2) = <<0, 1, 2>>
      /\ <<>> # <<0, 1, 2>> /\ <<0>> # <<0, 1, 2>> /\ <<0, 1>> # <<0, 1, 2>>
  <2>1. Append(<<>>, 0) = <<0>>
    OBVIOUS
  <2>2. Append(<<0>>, 1) = <<0, 1>>
    <3>1. <<0>> \in Seq(Nat) /\ <<0, 1>> \in Seq(Nat) /\ Len(<<0>>) = 1 /\ <<0>>[1] = 0
      OBVIOUS
    <3>2. /\ Append(<<0>>, 1) \in Seq(Nat) /\ Len(Append(<<0>>, 1)) = 2
          /\ Append(<<0>>, 1)[1] = 0 /\ Append(<<0>>, 1)[2] = 1
      BY <3>1, AppendProperties
    <3>3. Len(<<0, 1>>) = 2 /\ <<0, 1>>[1] = 0 /\ <<0, 1>>[2] = 1
      OBVIOUS
    <3> DEFINE s == Append(<<0>>, 1)
               t == <<0, 1>>
    <3>4. s \in Seq(Nat) /\ t \in Seq(Nat) /\ Len(s) = Len(t)
      BY <3>1, <3>2, <3>3
    <3>5. \A j \in 1 .. Len(s) : s[j] = t[j]
      BY <3>2, <3>3
    <3> HIDE DEF s, t
    <3>6. s = t
      BY <3>4, <3>5, SeqEqual
    <3>7. QED
      BY <3>6 DEF s, t
  <2>3. Append(<<0, 1>>, 2) = <<0, 1, 2>>
    <3>1. /\ <<0, 1>> \in Seq(Nat) /\ <<0, 1, 2>> \in Seq(Nat) /\ Len(<<0, 1>>) = 2
          /\ <<0, 1>>[1] = 0 /\ <<0, 1>>[2] = 1
      OBVIOUS
    <3>2. /\ Append(<<0, 1>>, 2) \in Seq(Nat) /\ Len(Append(<<0, 1>>, 2)) = 3
          /\ Append(<<0, 1>>, 2)[1] = 0 /\ Append(<<0, 1>>, 2)[2] = 1 /\ Append(<<0, 1>>, 2)[3] = 2
      BY <3>1, AppendProperties
    <3>3. Len(<<0, 1, 2>>) = 3 /\ <<0, 1, 2>>[1] = 0 /\ <<0, 1, 2>>[2] = 1 /\ <<0, 1, 2>>[3] = 2
      OBVIOUS
    <3> DEFINE s == Append(<<0, 1>>, 2)
               t == <<0, 1, 2>>
    <3>4. s \in Seq(Nat) /\ t \in Seq(Nat) /\ Len(s) = Len(t)
      BY <3>1, <3>2, <3>3
    <3>5. \A j \in 1 .. Len(s) : s[j] = t[j]
      BY <3>2, <3>3
    <3> HIDE DEF s, t
    <3>6. s = t
      BY <3>4, <3>5, SeqEqual
    <3>7. QED
      BY <3>6 DEF s, t
  <2>4. Len(<<>>) = 0 /\ Len(<<0>>) = 1 /\ Len(<<0, 1>>) = 2 /\ Len(<<0, 1, 2>>) = 3
    OBVIOUS
  <2>5. <<>> # <<0, 1, 2>>
    BY <2>4
  <2>6. <<0>> # <<0, 1, 2>>
    BY <2>4
  <2>7. <<0, 1>> # <<0, 1, 2>>
    BY <2>4
  <2>8. QED
    BY <2>1, <2>2, <2>3, <2>5, <2>6, <2>7
<1>6. ASSUME NEW n \in 0 .. 2 PROVE Append(Through(n), n) = Through(n + 1) /\ Through(n) # <<0, 1, 2>>
  <2>1. n = 0 \/ n = 1 \/ n = 2
    OBVIOUS
  <2>2. CASE n = 0
    BY <1>1, <1>2, <1>5, <2>2
  <2>3. CASE n = 1
    <3>1. n + 1 = 2
      BY <2>3
    <3>2. QED
      BY <1>2, <1>3, <1>5, <2>3, <3>1, Zenon
  <2>4. CASE n = 2
    <3>1. n + 1 = 3
      BY <2>4
    <3>2. QED
      BY <1>3, <1>4, <1>5, <2>4, <3>1, Zenon
  <2>5. QED
    BY <2>1, <2>2, <2>3, <2>4
<1>7. ASSUME NEW n \in 0 .. 3
      PROVE  Through(n) \in {<<>>, <<0>>, <<0, 1>>, <<0, 1, 2>>} /\ (Through(n) = <<0, 1, 2>> => n = 3)
  <2>1. n = 0 \/ n = 1 \/ n = 2 \/ n = 3
    OBVIOUS
  <2>2. QED
    BY <1>1, <1>2, <1>3, <1>4, <1>5, <2>1
<1>8. QED
  BY <1>1, <1>2, <1>3, <1>4, <1>6, <1>7

\* What a step may change of the start and of the trace.
LEMMA StepFacts ==
    ASSUME StartTyped, NEW stage, NEW write, Step(stage, write), tap' = tap
    PROVE  /\ \/ /\ write = "queued" /\ startWrite' = "done" /\ registers' = Append(registers, stage)
                 /\ core' = IF stage = 2 THEN "running" ELSE core
              \/ /\ startWrite' = write /\ registers' = registers
                 /\ core' = core \/ (core = "running" /\ core' \in Stopped)
           /\ emitted' \in Nat /\ seen' \in Nat
           /\ tap /\ emitted = seen => emitted' = seen'
           /\ ~tap => seen' = seen
<1>1. emitted \in Nat /\ seen \in Nat /\ tap \in BOOLEAN
  BY DEF StartTyped
<1>2. /\ emitted' \in Nat /\ seen' \in Nat
      /\ tap /\ emitted = seen => emitted' = seen'
      /\ ~tap => seen' = seen
  <2>1. CASE UNCHANGED <<emitted, seen>>
    BY <1>1, <2>1
  <2>2. CASE \E k \in Kinds, i \in Ids, runs \in 0 .. 2 : Issue(k, i, runs)
    BY <1>1, <2>2 DEF Issue
  <2>3. \A k \in Kinds : RunsOf(k) \subseteq 0 .. 2
    BY DEF RunsOf
  <2>4. QED
    BY <2>1, <2>2, <2>3 DEF Step, NoAccess, MailboxAccess
<1>3. QED
  BY <1>2 DEF Step

\* A step of the clock: the stage, the write under way, and the step of the core.
LEMMA TickKeeps ==
    ASSUME StartInv, Tick
    PROVE  StartInv'
<1> DEFINE advanced == startStage < 3 /\ startWrite = "done"
           stage == IF advanced THEN startStage + 1 ELSE startStage
           left == IF advanced THEN "none" ELSE startWrite
           write == IF stage < 3 /\ left = "none" THEN "queued" ELSE left
<1>1. StartTyped /\ Started /\ StartsOnce
  BY DEF StartInv
<1>2. /\ startStage' = stage /\ Step(stage, write)
      /\ tickEvent' = (stage < 3 \/ core' \notin Stopped)
      /\ started' = started /\ tap' = tap /\ emitted_cache' = emitted_cache
  BY DEF Tick
<1>3. tickEvent
  BY DEF Tick
<1>4. started /\ started' /\ ~Finished
  BY <1>1, <1>2, <1>3, Zenon DEF StartsOnce
\* The writes that got through so far are those of the stages before, and of this one if it is done.
<1>5. /\ stage \in 0 .. 3 /\ write \in {"none", "queued", "done"}
      /\ stage = 3 => write = "none"
      /\ registers = Through(IF write = "done" THEN stage + 1 ELSE stage)
  <2>1. /\ startStage \in 0 .. 3 /\ startWrite \in {"none", "queued", "done"}
        /\ startStage = 3 => startWrite = "none"
        /\ registers = Through(IF startWrite = "done" THEN startStage + 1 ELSE startStage)
    BY <1>1, <1>4 DEF StartTyped, Started
  <2>2. CASE advanced
    <3>1. stage = startStage + 1 /\ stage \in 1 .. 3 /\ write = IF stage < 3 THEN "queued" ELSE "none"
      BY <2>1, <2>2
    <3>2. registers = Through(stage)
      BY <2>1, <2>2, <3>1
    <3> HIDE DEF stage, write
    <3>3. QED
      BY <3>1, <3>2
  <2>3. CASE ~advanced
    <3>1. stage = startStage /\ write = IF stage < 3 /\ startWrite = "none" THEN "queued" ELSE startWrite
      BY <2>3
    <3> HIDE DEF stage, write
    <3>2. QED
      BY <2>1, <3>1
  <2>4. QED
    BY <2>2, <2>3
<1> HIDE DEF stage, write
<1>6. /\ \/ /\ write = "queued" /\ startWrite' = "done" /\ registers' = Append(registers, stage)
            /\ core' = IF stage = 2 THEN "running" ELSE core
         \/ /\ startWrite' = write /\ registers' = registers
            /\ core' = core \/ (core = "running" /\ core' \in Stopped)
      /\ emitted' \in Nat /\ seen' \in Nat
      /\ tap /\ emitted = seen => emitted' = seen'
      /\ ~tap => seen' = seen
  BY <1>1, <1>2, StepFacts
<1>7. core \in {"held", "running"} \cup Stopped /\ (core # "held" <=> registers = <<0, 1, 2>>)
  BY <1>1 DEF StartTyped, Started
<1>8. /\ startWrite' \in {"none", "queued", "done"}
      /\ registers' = Through(IF startWrite' = "done" THEN startStage' + 1 ELSE startStage')
      /\ startStage' \in 0 .. 3
      /\ startStage' = 3 => startWrite' = "none"
  <2>1. CASE write = "queued" /\ startWrite' = "done" /\ registers' = Append(registers, stage)
    <3>1. stage \in 0 .. 2 /\ registers = Through(stage)
      BY <1>5, <2>1
    <3>2. QED
      BY <1>2, <2>1, <3>1, ThroughFacts
  <2>2. CASE startWrite' = write /\ registers' = registers
    BY <1>2, <1>5, <2>2
  <2>3. QED
    BY <1>6, <2>1, <2>2
<1>9. /\ core' \in {"held", "running"} \cup Stopped
      /\ core' # "held" <=> registers' = <<0, 1, 2>>
  <2>1. CASE /\ write = "queued" /\ registers' = Append(registers, stage)
             /\ core' = IF stage = 2 THEN "running" ELSE core
    <3>1. stage \in 0 .. 2 /\ registers = Through(stage)
      BY <1>5, <2>1
    <3>2. registers # <<0, 1, 2>> /\ registers' = Through(stage + 1)
      BY <2>1, <3>1, ThroughFacts
    <3>3. core = "held"
      BY <1>7, <3>2
    <3>4. registers' = <<0, 1, 2>> <=> stage = 2
      BY <3>1, <3>2, ThroughFacts
    <3>5. QED
      BY <2>1, <3>3, <3>4
  <2>2. CASE registers' = registers /\ (core' = core \/ (core = "running" /\ core' \in Stopped))
    BY <1>7, <2>2 DEF Stopped
  <2>3. QED
    BY <1>6, <2>1, <2>2
<1>10. StartTyped'
  <2>1. tickEvent' \in BOOLEAN /\ started' \in BOOLEAN /\ tap' \in BOOLEAN /\ emitted_cache' \in Nat
    BY <1>1, <1>2, Zenon DEF StartTyped
  <2>2. QED
    BY <1>6, <1>8, <1>9, <2>1 DEF StartTyped
<1>11. Started'
  BY <1>4, <1>8, <1>9 DEF Started
<1>12. StartsOnce'
  <2>1. registers' \in {<<>>, <<0>>, <<0, 1>>, <<0, 1, 2>>}
    <3>1. startWrite' = "done" => startStage' \in 0 .. 2
      BY <1>8
    <3>2. startWrite' = "done" => startStage' + 1 \in 0 .. 3
      BY <3>1
    <3>3. QED
      BY <1>8, <3>2, ThroughFacts
  <2>2. core' # "held" => registers' = <<0, 1, 2>>
    BY <1>9
  <2>3. tickEvent' = (started' /\ ~Finished')
    <3>1. stage < 3 <=> ~(stage = 3)
      BY <1>5
    <3>2. QED
      BY <1>2, <1>4, <3>1, Zenon DEF Finished
  <2>4. TraceEmitted' = seen'
    BY <1>1, <1>2, <1>6 DEF StartsOnce, TraceEmitted, StartTyped
  <2>5. QED
    BY <2>1, <2>2, <2>3, <2>4 DEF StartsOnce
<1>13. QED
  BY <1>10, <1>11, <1>12 DEF StartInv

LEMMA StartSame ==
    ASSUME StartInv,
           UNCHANGED <<started, tickEvent, startStage, startWrite, registers, core, tap, emitted, emitted_cache, seen>>
    PROVE  StartInv'
<1>1. StartTyped'
  BY DEF StartInv, StartTyped
<1>2. Started'
  BY DEF StartInv, Started
<1>3. StartsOnce'
  <2>1. Finished' = Finished
    BY Zenon DEF Finished
  <2>2. TraceEmitted' = TraceEmitted
    BY DEF TraceEmitted
  <2>3. /\ registers' = registers /\ core' = core /\ tickEvent' = tickEvent
        /\ started' = started /\ seen' = seen
    OBVIOUS
  <2>4. StartsOnce
    BY DEF StartInv
  <2>5. tickEvent = (started /\ ~Finished)
    BY <2>4, Zenon DEF StartsOnce
  <2>6. tickEvent' = (started' /\ ~Finished')
    <3>1. (started' /\ ~Finished') = (started /\ ~Finished)
      BY <2>1, <2>3
    <3>2. QED
      BY <2>3, <2>5, <3>1
  <2>7. /\ registers' \in {<<>>, <<0>>, <<0, 1>>, <<0, 1, 2>>}
        /\ core' # "held" => registers' = <<0, 1, 2>>
        /\ TraceEmitted' = seen'
    BY <2>2, <2>3, <2>4 DEF StartsOnce
  <2>8. QED
    BY <2>6, <2>7, Zenon DEF StartsOnce
<1>4. QED
  BY <1>1, <1>2, <1>3 DEF StartInv

LEMMA HostStartKeeps ==
    ASSUME StartInv, HostStart
    PROVE  StartInv'
<1>1. StartTyped /\ Started /\ StartsOnce
  BY DEF StartInv
<1>2. UNCHANGED <<registers, core, tap, emitted, emitted_cache, seen>>
  BY DEF HostStart
<1>3. CASE UNCHANGED <<started, startStage, startWrite, tickEvent>>
  BY <1>2, <1>3, StartSame
<1>4. CASE ~started /\ started' = TRUE /\ startStage' = 0 /\ startWrite' = "none" /\ tickEvent' = TRUE
  <2>1. registers = <<>> /\ core = "held"
    BY <1>1, <1>4 DEF Started
  <2>2. StartTyped'
    BY <1>1, <1>2, <1>4 DEF StartTyped
  <2>3. Started'
    <3>1. <<>> # <<0, 1, 2>>
      BY ThroughFacts
    <3>2. QED
      BY <1>2, <1>4, <2>1, <3>1, ThroughFacts DEF Started
  <2>4. StartsOnce'
    <3>1. ~Finished' /\ TraceEmitted' = TraceEmitted
      BY <1>2, <1>4 DEF Finished, TraceEmitted
    <3>2. TraceEmitted = seen
      BY <1>1 DEF StartsOnce
    <3>3. tickEvent' = (started' /\ ~Finished')
      BY <1>4, <3>1, Zenon
    <3>4. registers' = <<>> /\ core' = "held" /\ TraceEmitted' = seen'
      BY <1>2, <2>1, <3>1, <3>2
    <3>5. registers' \in {<<>>, <<0>>, <<0, 1>>, <<0, 1, 2>>} /\ (core' # "held" => registers' = <<0, 1, 2>>)
      BY <3>4
    <3>6. QED
      BY <3>3, <3>4, <3>5, Zenon DEF StartsOnce
  <2>5. QED
    BY <2>2, <2>3, <2>4 DEF StartInv
<1>5. QED
  BY <1>3, <1>4 DEF HostStart, LoadAndStart

LEMMA CloseTraceKeeps ==
    ASSUME StartInv, CloseTrace
    PROVE  StartInv'
<1>1. StartTyped /\ Started /\ StartsOnce
  BY DEF StartInv
<1>2. /\ UNCHANGED <<started, tickEvent, startStage, startWrite, registers, core, seen>>
      /\ tap /\ tap' = FALSE /\ emitted_cache' = emitted /\ emitted' = 0
  BY DEF CloseTrace
<1>3. StartTyped'
  BY <1>1, <1>2 DEF StartTyped
<1>4. Started'
  BY <1>1, <1>2 DEF Started
<1>5. StartsOnce'
  <2>1. Finished' = Finished
    BY <1>2 DEF Finished
  <2>2. TraceEmitted = emitted /\ TraceEmitted' = emitted
    BY <1>2 DEF TraceEmitted
  <2>3. QED
    BY <1>1, <1>2, <2>1, <2>2, Zenon DEF StartsOnce
<1>6. QED
  BY <1>3, <1>4, <1>5 DEF StartInv

-----------------------------------------------------------------------------
LEMMA InitEstablishes ==
    ASSUME Init
    PROVE  NpuInv
<1>1. BeatsInv
  <2>1. txns = <<>> /\ orderById = Empty /\ nextAxiSequence = 1 /\ issued = Empty /\ retired = Empty
    BY DEF Init
  <2>2. DOMAIN txns = {}
    BY <2>1
  <2>3. Empty \in Orders /\ \A k \in Kinds, i \in Ids : Empty[k][i] = <<>>
    BY DEF Empty, Orders
  <2>4. BeatsTyped
    BY <2>1, <2>2, <2>3, NpuAssumption DEF BeatsTyped
  <2>5. IsInjective(<<>>) /\ Range(<<>>) = {} /\ <<>> \o <<>> = <<>> /\ 1 .. Len(<<>>) = {}
    BY DEF IsInjective, Range
  <2>6. OrdersApart
    BY <2>1, <2>2, <2>3, <2>5 DEF OrdersApart
  <2>7. RetiresInOrder
    BY <2>1, <2>2, <2>3, <2>5 DEF RetiresInOrder
  <2>8. QED
    BY <2>4, <2>6, <2>7 DEF BeatsInv
<1>2. StartInv
  <2>1. /\ registers = <<>> /\ core = "held" /\ startWrite = "none"
        /\ tap \in BOOLEAN /\ emitted = 0 /\ emitted_cache = 0 /\ seen = 0
        /\ startStage \in {0, 3}
    BY DEF Init
  <2>2. started \in BOOLEAN /\ tickEvent = started /\ startStage = (IF started THEN 0 ELSE 3)
    BY Zenon DEF Init
  <2>3. StartTyped
    BY <2>1, <2>2 DEF StartTyped
  <2>4. <<>> # <<0, 1, 2>> /\ Through(0) = <<>>
    BY ThroughFacts
  <2>5. Started
    BY <2>1, <2>2, <2>4 DEF Started
  <2>6. ~Finished /\ TraceEmitted = seen
    BY <2>1 DEF Finished, TraceEmitted, Stopped
  <2>7. StartsOnce
    BY <2>1, <2>2, <2>6, Zenon DEF StartsOnce
  <2>8. QED
    BY <2>3, <2>5, <2>7 DEF StartInv
<1>3. QED
  BY <1>1, <1>2 DEF NpuInv

LEMMA NextKeeps ==
    ASSUME NpuInv, [Next]_vars
    PROVE  NpuInv'
<1>1. BeatsInv /\ StartInv
  BY DEF NpuInv
<1>2. CASE HostStart
  <2>1. BeatsInv'
    BY <1>1, <1>2, BeatsSame DEF HostStart
  <2>2. QED
    BY <1>1, <1>2, <2>1, HostStartKeeps DEF NpuInv
<1>3. CASE HostMailbox
  <2>1. BeatsInv'
    BY <1>1, <1>3, BeatsSame DEF HostMailbox
  <2>2. StartInv'
    BY <1>1, <1>3, StartSame DEF HostMailbox
  <2>3. QED
    BY <2>1, <2>2 DEF NpuInv
<1>4. CASE Tick
  <2>1. BeatsInv'
    BY <1>1, <1>4, StepKeeps DEF Tick
  <2>2. QED
    BY <1>1, <1>4, <2>1, TickKeeps DEF NpuInv
<1>5. CASE CloseTrace
  <2>1. BeatsInv'
    BY <1>1, <1>5, BeatsSame DEF CloseTrace
  <2>2. QED
    BY <1>1, <1>5, <2>1, CloseTraceKeeps DEF NpuInv
<1>6. ASSUME NEW s \in DOMAIN txns, MemoryComplete(s) PROVE NpuInv'
  <2>1. BeatsInv'
    BY <1>1, <1>6, MemoryCompleteKeeps
  <2>2. StartInv'
    BY <1>1, <1>6, StartSame DEF MemoryComplete
  <2>3. QED
    BY <2>1, <2>2 DEF NpuInv
<1>7. CASE UNCHANGED vars
  <2>1. BeatsInv'
    BY <1>1, <1>7, BeatsSame DEF vars
  <2>2. StartInv'
    BY <1>1, <1>7, StartSame DEF vars
  <2>3. QED
    BY <2>1, <2>2 DEF NpuInv
<1>8. QED
  BY <1>2, <1>3, <1>4, <1>5, <1>6, <1>7 DEF Next

\* The core has its answers in the order of its requests, ID by ID, however the memory completes them
\* and whatever the IDs: no beat retires before an older one of its ID, and none is lost.  And the core is
\* started by its three writes, in order and once.
THEOREM AnswersInOrder == Spec => []NpuInOrder
<1>1. Init => NpuInv
  BY InitEstablishes
<1>2. NpuInv /\ [Next]_vars => NpuInv'
  BY NextKeeps
<1>3. NpuInv => NpuInOrder
  BY DEF NpuInv, NpuInOrder, BeatsInv, BeatsTyped, StartInv, StartTyped, TypeOK
<1>4. QED
  BY <1>1, <1>2, <1>3, PTL DEF Spec

-----------------------------------------------------------------------------
(* Vortex                                                                    *)

\* One access at a time: what waits for a queue of them never waits.
OneAccess == cpDmaQueue = 0 /\ vortexStartPending = FALSE /\ cpResumeNeeded = FALSE

\* The core runs for a command, or alone.
RunsForCommand ==
    /\ launched => commands > 0
    /\ busy => launched \/ cfg.standalone
    /\ cfg.standalone => ~launched /\ commands = 0

\* The accesses of a kernel are made while it runs.
AccessesOfKernel == ~launched \/ ~busy => coreDmas = {} /\ unused = {}

Flags ==
    /\ cfg.standalone \in BOOLEAN /\ cfg.polls \in BOOLEAN
    /\ cpTickEvent \in BOOLEAN /\ vortexTickEvent \in BOOLEAN /\ activeCpDma \in BOOLEAN
    /\ launched \in BOOLEAN /\ busy \in BOOLEAN /\ stopped \in BOOLEAN
    /\ rung \in 0 .. MaxCommands /\ retiredCommands \in Nat /\ unused \subseteq Tokens

VortexInv == VortexTypeOK /\ Flags /\ OneAccess /\ RunsForCommand /\ AccessesOfKernel /\ WakesKept

LEMMA InitVortexInv == VortexInit => VortexInv
<1> SUFFICES ASSUME VortexInit PROVE VortexInv
  OBVIOUS
<1>1. cfg.standalone \in BOOLEAN /\ cfg.polls \in BOOLEAN
  BY VortexAssumption DEF VortexInit
<1>2. VortexTypeOK /\ OneAccess /\ AccessesOfKernel
  BY VortexAssumption DEF VortexInit, VortexTypeOK, OneAccess, AccessesOfKernel
<1>3. Flags
  <2>1. vortexTickEvent \in BOOLEAN /\ busy \in BOOLEAN
    BY <1>1, Zenon DEF VortexInit
  <2>2. cpTickEvent \in BOOLEAN /\ activeCpDma \in BOOLEAN /\ launched \in BOOLEAN /\ stopped \in BOOLEAN
    BY Zenon DEF VortexInit
  <2>3. rung \in 0 .. MaxCommands /\ retiredCommands \in Nat /\ unused \subseteq Tokens
    BY VortexAssumption DEF VortexInit
  <2>4. QED
    BY <1>1, <2>1, <2>2, <2>3 DEF Flags
<1>4. RunsForCommand /\ WakesKept
  BY <1>1 DEF VortexInit, RunsForCommand, WakesKept, HasWork
<1>5. QED
  BY <1>2, <1>3, <1>4 DEF VortexInv

\* A doorbell wakes the CP, unless it waits for a DMA: that will wake it.
LEMMA DoorbellKeeps == ASSUME VortexInv, Doorbell PROVE VortexInv'
<1> USE DEF VortexInv, Doorbell
<1>1. cpTickEvent' \in BOOLEAN /\ (cpTickEvent' <=> cpTickEvent \/ (~activeCpDma /\ cpDmaQueue = 0))
  BY Zenon DEF Flags, Wakes
<1>2. VortexTypeOK' /\ OneAccess' /\ RunsForCommand' /\ AccessesOfKernel'
  BY VortexAssumption DEF VortexTypeOK, Flags, OneAccess, RunsForCommand, AccessesOfKernel, WakesKept
<1>3. Flags'
  BY <1>1, VortexAssumption DEF VortexTypeOK, Flags, OneAccess
<1>4. WakesKept'
  <2>1. coroutine = "suspended" => (activeCpDma # cpTickEvent')
    BY <1>1 DEF Flags, OneAccess, WakesKept
  <2>2. cpTickEvent' => ~activeCpDma
    BY <1>1 DEF WakesKept
  <2>3. cpTickEvent' \/ activeCpDma
    BY <1>1 DEF OneAccess
  <2>4. rung' = retiredCommands + commands'
    BY DEF VortexTypeOK, Flags, WakesKept
  <2>5. QED
    BY <2>1, <2>2, <2>3, <2>4 DEF WakesKept
<1>5. QED
  BY <1>2, <1>3, <1>4

\* With its access complete the CP is no longer waiting: its event takes over.
LEMMA DmaCompleteKeeps == ASSUME VortexInv, DmaComplete PROVE VortexInv'
<1> USE DEF VortexInv, DmaComplete
<1>1. /\ activeCpDma' = FALSE /\ cpDmaQueue' = 0 /\ vortexStartPending' = FALSE /\ cpResumeNeeded' = FALSE
      /\ vortexTickEvent' = vortexTickEvent /\ cpTickEvent' = TRUE
  <2>1. cpDmaQueue = 0 /\ vortexStartPending = FALSE /\ coroutine = "suspended"
    BY DEF OneAccess, WakesKept
  <2>2. vortexTickEvent' = vortexTickEvent
    BY <2>1, Zenon DEF Flags
  <2>3. cpTickEvent' = TRUE
    BY <2>1, Zenon
  <2>4. QED
    BY <2>1, <2>2, <2>3, Zenon
<1>2. VortexTypeOK' /\ OneAccess' /\ RunsForCommand' /\ AccessesOfKernel'
  BY <1>1, VortexAssumption DEF VortexTypeOK, Flags, OneAccess, RunsForCommand, AccessesOfKernel
<1>3. Flags'
  BY <1>1, VortexAssumption DEF VortexTypeOK, Flags, OneAccess
<1>4. WakesKept'
  BY <1>1 DEF VortexTypeOK, Flags, OneAccess, RunsForCommand, WakesKept, HasWork
<1>5. QED
  BY <1>2, <1>3, <1>4

LEMMA CoreDmaCompleteKeeps ==
    ASSUME VortexInv, NEW t \in Tokens, CoreDmaComplete(t) PROVE VortexInv'
  BY VortexAssumption DEF CoreDmaComplete, VortexInv, VortexTypeOK, Flags, OneAccess, RunsForCommand,
         AccessesOfKernel, WakesKept, HasWork

\* An access suspends the CP; otherwise the tick retires the kernel, launches one, or waits for it.
LEMMA CpTickKeeps == ASSUME VortexInv, CpTick PROVE VortexInv'
<1>1. PICK left \in 0 .. MaxCpAccesses : CpAccess(left) \/ CpFinish(left)
  BY VortexAssumption DEF CpTick, VortexInv, VortexTypeOK
<1>2. activeCpDma = FALSE /\ cpDmaQueue = 0
  BY DEF CpTick, VortexInv, Flags, OneAccess, WakesKept
<1>3. CASE CpAccess(left)
  <2> USE <1>2, <1>3 DEF CpTick, CpAccess, VortexInv
  <2>1. activeCpDma' = TRUE /\ cpDmaQueue' = 0 /\ cpTickEvent' = FALSE /\ accessesLeft' \in 0 .. MaxCpAccesses
    BY VortexAssumption
  <2>2. VortexTypeOK' /\ Flags' /\ OneAccess' /\ RunsForCommand' /\ AccessesOfKernel'
    BY <2>1 DEF VortexTypeOK, Flags, OneAccess, RunsForCommand, AccessesOfKernel
  <2>3. WakesKept'
    BY <2>1 DEF Flags, WakesKept, HasWork
  <2>4. QED
    BY <2>2, <2>3
<1>4. CASE CpFinish(left)
  <2> USE <1>2, <1>4 DEF CpTick, CpFinish, VortexInv
  <2>1. /\ cpTickEvent' \in BOOLEAN
        /\ cpTickEvent' <=> (commands' > 0 /\ (cfg.polls \/ ~(launched' /\ busy')))
    BY Zenon DEF StillBusy
  <2>2. vortexTickEvent' \in BOOLEAN /\ (vortexTickEvent' <=> vortexTickEvent \/ Launches)
    BY Zenon DEF Flags
  <2>3. busy' \in BOOLEAN /\ (busy' <=> busy \/ Launches)
    BY Zenon DEF Flags
  <2>4. launched' \in BOOLEAN /\ (launched' <=> ~Retires /\ (launched \/ Launches))
    BY Zenon DEF Flags
  <2>5. vortexStartPending' = FALSE
    <3>1. ~(activeCpDma \/ cpDmaQueue > 0)
      OBVIOUS
    <3>2. QED
      BY <3>1, Zenon DEF OneAccess
  <2>6. /\ cpTickEvent' \in BOOLEAN /\ vortexTickEvent' \in BOOLEAN /\ launched' \in BOOLEAN /\ busy' \in BOOLEAN
        /\ cpTickEvent' <=> (commands' > 0 /\ (cfg.polls \/ ~(launched' /\ busy')))
        /\ vortexTickEvent' <=> vortexTickEvent \/ Launches
        /\ busy' <=> busy \/ Launches
        /\ launched' <=> ~Retires /\ (launched \/ Launches)
        /\ vortexStartPending' = FALSE
    BY <2>1, <2>2, <2>3, <2>4, <2>5
  <2>7. Retires \in BOOLEAN /\ Launches \in BOOLEAN /\ (Retires => ~Launches)
    BY DEF Retires, Launches
  <2>8. VortexTypeOK' /\ OneAccess'
    BY <2>6, <2>7, VortexAssumption DEF VortexTypeOK, Flags, OneAccess, RunsForCommand, AccessesOfKernel, Retires, Launches, HasWork
  <2>9. Flags'
    <3>1. rung' \in 0 .. MaxCommands /\ retiredCommands' \in Nat /\ unused' \subseteq Tokens
      BY DEF Flags
    <3>2. QED
      BY <2>6, <3>1, Zenon DEF Flags
  <2>10. RunsForCommand' /\ AccessesOfKernel'
    BY <2>6, <2>7 DEF VortexTypeOK, Flags, RunsForCommand, AccessesOfKernel, Retires, Launches, HasWork
  <2>11. WakesKept'
    BY <2>6, <2>7 DEF VortexTypeOK, Flags, RunsForCommand, WakesKept, Retires, Launches, HasWork
  <2>12. QED
    BY <2>8, <2>9, <2>10, <2>11
<1>5. QED
  BY <1>1, <1>3, <1>4

\* The end of a kernel: the CP is woken to retire it, or has an access that will.
LEMMA VortexTickKeeps == ASSUME VortexInv, VortexTick PROVE VortexInv'
<1> USE DEF VortexInv
<1>1. CASE (\E t \in unused : issueCoreTiming(t)) /\ UNCHANGED <<busy, vortexTickEvent, cpTickEvent, stopped>>
  <2>1. PICK t \in unused : issueCoreTiming(t)
    BY <1>1
  <2>2. VortexTypeOK' /\ AccessesOfKernel'
    BY <1>1, <2>1 DEF VortexTick, issueCoreTiming, VortexTypeOK, Flags, AccessesOfKernel
  <2>3. Flags' /\ OneAccess' /\ RunsForCommand'
    BY <1>1, <2>1 DEF VortexTick, issueCoreTiming, Flags, OneAccess, RunsForCommand
  <2>4. WakesKept'
    BY <1>1 DEF VortexTick, WakesKept, HasWork
  <2>5. QED
    BY <2>2, <2>3, <2>4
<1>2. CASE UNCHANGED <<unused, coreDmas, busy, vortexTickEvent, cpTickEvent, stopped>>
  BY <1>2 DEF VortexTick, VortexTypeOK, Flags, OneAccess, RunsForCommand, AccessesOfKernel, WakesKept, HasWork
<1>3. CASE /\ coreDmas = {} /\ busy' = FALSE /\ unused' = {} /\ vortexTickEvent' = FALSE
           /\ IF cfg.standalone THEN stopped' = TRUE /\ UNCHANGED cpTickEvent
              ELSE cpTickEvent' = (cpTickEvent \/ Wakes(HasWork)) /\ UNCHANGED stopped
           /\ UNCHANGED coreDmas
  <2>1. /\ stopped' \in BOOLEAN /\ cpTickEvent' \in BOOLEAN
        /\ cpTickEvent' <=> cpTickEvent \/ (~cfg.standalone /\ HasWork /\ ~activeCpDma /\ cpDmaQueue = 0)
    BY <1>3, Zenon DEF Flags, Wakes
  <2>2. VortexTypeOK' /\ OneAccess' /\ RunsForCommand' /\ AccessesOfKernel'
    BY <1>3 DEF VortexTick, VortexTypeOK, OneAccess, RunsForCommand, AccessesOfKernel
  <2>3. Flags'
    BY <1>3, <2>1 DEF VortexTick, Flags
  <2>4. WakesKept'
    BY <1>3, <2>1 DEF VortexTick, Flags, HasWork, VortexTypeOK, WakesKept, OneAccess, RunsForCommand
  <2>5. QED
    BY <2>2, <2>3, <2>4
<1>4. QED
  BY <1>1, <1>2, <1>3 DEF VortexTick

\* No wake-up is lost: a command that is there has the CP at work or waits for the core, a CP tick
\* goes on exactly when its access is complete, and the core is ticked exactly while it is busy.
THEOREM NoWakeUpLost == VortexSpec => []WakesRight
<1>1. VortexInit => VortexInv
  BY InitVortexInv
<1>2. VortexInv /\ [VortexNext]_vortexVars => VortexInv'
  <2> SUFFICES ASSUME VortexInv, [VortexNext]_vortexVars PROVE VortexInv'
    OBVIOUS
  <2>1. CASE VortexNext
    BY <2>1, DoorbellKeeps, CpTickKeeps, DmaCompleteKeeps, VortexTickKeeps, CoreDmaCompleteKeeps DEF VortexNext
  <2>2. CASE UNCHANGED vortexVars
    BY <2>2 DEF vortexVars, VortexInv, VortexTypeOK, Flags, OneAccess, RunsForCommand, AccessesOfKernel, WakesKept, HasWork
  <2>3. QED
    BY <2>1, <2>2
<1>3. VortexInv => WakesRight
  BY DEF VortexInv, WakesRight
<1>4. QED
  BY <1>1, <1>2, <1>3, PTL DEF VortexSpec

-----------------------------------------------------------------------------
(* The unified timing memory behind the monitor                              *)

\* What a byte holds is the last write taken; each packet is taken once, ...
WritersOf(b) == {i \in DOMAIN taken : packet(taken[i]).write /\ b \in packet(taken[i]).enabled}
WritersBefore(p, b) ==
    {i \in DOMAIN taken : taken[i] # p /\ packet(taken[i]).write /\ b \in packet(taken[i]).enabled
                            /\ \E j \in DOMAIN taken : i < j /\ taken[j] = p}
LastOf(S) == IF S = {} THEN 0 ELSE taken[Max(S)]
MemoryInv ==
    /\ taken \in Seq(Packets) /\ phase \in [Packets -> {"unsent", "parked", "sent", "done"}]
    /\ \A i, j \in DOMAIN taken : taken[i] = taken[j] => i = j
    /\ \A i \in DOMAIN taken : phase[taken[i]] \in {"sent", "done"}
    /\ DOMAIN pages = AllBytes /\ DOMAIN found = Packets
    /\ \A b \in AllBytes : pages[b] = LastOf(WritersOf(b))
    /\ \A i \in DOMAIN taken : \A b \in BytesOf(taken[i]) : found[taken[i]][b] = LastOf(WritersBefore(taken[i], b))

\* ... answers and waiting answers to one address are in the order of their requests, ...
Given(p) == \E k \in DOMAIN taken : taken[k] = p
Before(p, q) == \E k, l \in DOMAIN taken : k < l /\ taken[k] = p /\ taken[l] = q
Waiting == [tick: Nat, pkt: Packets]
OrderInv ==
    /\ packetQueue \in Seq(Waiting) /\ answers \in Seq(Packets)
    /\ \A i \in DOMAIN packetQueue : Given(packetQueue[i].pkt)
    /\ \A i \in DOMAIN answers : Given(answers[i])
    /\ \A i, j \in DOMAIN packetQueue :
           i < j /\ MatchAddr(packetQueue[i].pkt, packetQueue[j].pkt) => Before(packetQueue[i].pkt, packetQueue[j].pkt)
    /\ \A i \in DOMAIN answers, j \in DOMAIN packetQueue :
           MatchAddr(answers[i], packetQueue[j].pkt) => Before(answers[i], packetQueue[j].pkt)
    /\ \A i, j \in DOMAIN answers : i < j /\ MatchAddr(answers[i], answers[j]) => Before(answers[i], answers[j])

\* ... and exactly one event or retry brings the next answer, none when there is none.
WakeInv ==
    /\ now \in Nat /\ refusals \in 0 .. MaxRefusals
    /\ drainState \in {"Running", "Draining", "Drained"} /\ writersStopped \in {"no", "closed", "killed"}
    /\ retryReq \in BOOLEAN /\ retryResp \in BOOLEAN
    /\ releaseEvent \in SUBSET Nat /\ dequeueEvent \in SUBSET Nat /\ respRetryEvent \in SUBSET Nat
    /\ packetQueue = <<>> => dequeueEvent = {} /\ respRetryEvent = {} /\ ~retryResp
    /\ packetQueue # <<>> => (dequeueEvent = {} <=> respRetryEvent # {}) /\ (retryResp <=> respRetryEvent # {})
    /\ \A t \in dequeueEvent : t >= packetQueue[1].tick /\ t >= now
    /\ retryReq => releaseEvent # {} /\ \E p \in Packets : phase[p] = "parked"
    /\ drainState = "Draining" => packetQueue # <<>>

HetInv == system \in Systems /\ MemoryInv /\ OrderInv /\ WakeInv

-----------------------------------------------------------------------------
\* The greatest of some numbers up to n is the least when counted down from n.
LEMMA GreatestOf ==
    ASSUME NEW n \in Nat, NEW T \in SUBSET (1 .. n), T # {}
    PROVE  Max(T) \in T /\ \A y \in T : y <= Max(T)
<1> DEFINE D == {n - i : i \in T}
<1>1. D \in SUBSET Nat /\ D # {}
  <2>1. \A i \in T : n - i \in Nat
    <3> SUFFICES ASSUME NEW i \in T PROVE n - i \in Nat
      OBVIOUS
    <3>1. i \in 1 .. n
      OBVIOUS
    <3>2. QED
      BY <3>1
  <2>2. QED
    BY <2>1
<1>2. Min(D) \in D /\ \A y \in D : Min(D) <= y
  <2> HIDE DEF D
  <2> QED
    BY <1>1, LeastOf
<1>3. PICK x \in T : Min(D) = n - x
  BY <1>2
<1>4. ASSUME NEW y \in T PROVE y <= x
  <2>1. n - y \in D
    OBVIOUS
  <2>2. n - x <= n - y
    BY <1>2, <1>3, <2>1
  <2>3. x \in Nat /\ y \in Nat
    OBVIOUS
  <2>4. QED
    BY <2>2, <2>3
<1>5. QED
  BY <1>4 DEF Max

\* t is s with e put in at p.
SplicedAt(t, s, p, e) ==
    /\ Len(t) = Len(s) + 1
    /\ \A i \in 1 .. (Len(s) + 1) : t[i] = IF i < p THEN s[i] ELSE IF i = p THEN e ELSE s[i - 1]

LEMMA InsertFacts ==
    ASSUME NEW S, NEW s \in Seq(S), NEW e \in S, NEW p \in 1 .. (Len(s) + 1)
    PROVE  InsertAt(s, p, e) \in Seq(S) /\ SplicedAt(InsertAt(s, p, e), s, p, e)
<1> DEFINE front == SubSeq(s, 1, p - 1)
           back == SubSeq(s, p, Len(s))
<1>1. front \in Seq(S) /\ Len(front) = p - 1 /\ \A i \in 1 .. (p - 1) : front[i] = s[i]
  OBVIOUS
<1>2. back \in Seq(S) /\ Len(back) = Len(s) - p + 1 /\ \A i \in 1 .. (Len(s) - p + 1) : back[i] = s[p + i - 1]
  OBVIOUS
<1>3. <<e>> \in Seq(S) /\ Len(<<e>>) = 1 /\ <<e>>[1] = e
  OBVIOUS
<1>4. InsertAt(s, p, e) = front \o <<e>> \o back
  BY DEF InsertAt
<1> DEFINE left == front \o <<e>>
<1>5. left \in Seq(S) /\ Len(left) = p /\ \A i \in 1 .. p : left[i] = IF i < p THEN s[i] ELSE e
  BY <1>1, <1>3
<1> HIDE DEF front, back, left
<1>6. /\ left \o back \in Seq(S) /\ Len(left \o back) = Len(left) + Len(back)
      /\ \A i \in 1 .. (Len(left) + Len(back)) : (left \o back)[i] = IF i <= Len(left) THEN left[i] ELSE back[i - Len(left)]
  BY <1>2, <1>5, ConcatProperties
<1>7. Len(s) \in Nat /\ Len(left) + Len(back) = Len(s) + 1
  BY <1>2, <1>5
<1>8. ASSUME NEW i \in 1 .. (Len(s) + 1)
      PROVE  (left \o back)[i] = IF i < p THEN s[i] ELSE IF i = p THEN e ELSE s[i - 1]
  <2>1. CASE i <= p
    BY <1>5, <1>6, <1>7, <2>1
  <2>2. CASE i > p
    <3>1. (left \o back)[i] = back[i - p] /\ i - p \in 1 .. (Len(s) - p + 1)
      BY <1>5, <1>6, <1>7, <2>2
    <3>2. back[i - p] = s[p + (i - p) - 1] /\ p + (i - p) - 1 = i - 1
      BY <1>2, <1>7, <3>1
    <3> QED
      BY <2>2, <3>1, <3>2
  <2> QED
    BY <1>7, <2>1, <2>2
<1>9. InsertAt(s, p, e) = left \o back
  BY <1>4 DEF left
<1>10. (left \o back) \in Seq(S) /\ SplicedAt(left \o back, s, p, e)
  BY <1>6, <1>7, <1>8 DEF SplicedAt
<1>11. QED
  BY <1>9, <1>10

-----------------------------------------------------------------------------
(* A packet is taken: the bytes.                                             *)

\* The configuration stays, and with it everything about packets.
LEMMA TrafficSame ==
    ASSUME system' = system
    PROVE  /\ Packets' = Packets /\ AllBytes' = AllBytes
           /\ \A p : packet(p)' = packet(p) /\ BytesOf(p)' = BytesOf(p)
BY DEF Packets, AllBytes, packet, BytesOf

\* A step that takes no packet, and accesses no byte.
LEMMA QuietMemory ==
    ASSUME MemoryInv, UNCHANGED <<system, taken, pages, found>>,
           phase' \in [Packets -> {"unsent", "parked", "sent", "done"}],
           \A q \in Packets : phase[q] \in {"sent", "done"} => phase'[q] \in {"sent", "done"}
    PROVE  MemoryInv'
<1>1. /\ Packets' = Packets /\ AllBytes' = AllBytes
      /\ \A p : packet(p)' = packet(p) /\ BytesOf(p)' = BytesOf(p)
  BY TrafficSame
<1>2. \A b : WritersOf(b)' = WritersOf(b)
  BY <1>1 DEF WritersOf
<1>3. \A p, b : WritersBefore(p, b)' = WritersBefore(p, b)
  BY <1>1 DEF WritersBefore
<1>4. \A S : LastOf(S)' = LastOf(S)
  BY DEF LastOf
<1>5. (taken \in Seq(Packets))' /\ (phase \in [Packets -> {"unsent", "parked", "sent", "done"}])'
  BY <1>1 DEF MemoryInv
<1>6. (\A i, j \in DOMAIN taken : taken[i] = taken[j] => i = j)'
  BY DEF MemoryInv
<1>7. (\A i \in DOMAIN taken : phase[taken[i]] \in {"sent", "done"})'
  BY DEF MemoryInv
<1>8. (DOMAIN pages = AllBytes /\ DOMAIN found = Packets)'
  BY <1>1 DEF MemoryInv
<1>9. (\A b \in AllBytes : pages[b] = LastOf(WritersOf(b)))'
  BY <1>1, <1>2, <1>4 DEF MemoryInv
<1>10. (\A i \in DOMAIN taken : \A b \in BytesOf(taken[i]) : found[taken[i]][b] = LastOf(WritersBefore(taken[i], b)))'
  BY <1>1, <1>3, <1>4 DEF MemoryInv
<1>11. QED
  BY <1>5, <1>6, <1>7, <1>8, <1>9, <1>10, Zenon DEF MemoryInv

\* A packet that was not taken yet is: it finds what is there, and a write is now the last one.
LEMMA TakenMemory ==
    ASSUME MemoryInv, system' = system, NEW p \in Packets, phase[p] \in {"unsent", "parked"},
           Access(p), taken' = Append(taken, p),
           NEW f \in {"sent", "done"}, phase' = [phase EXCEPT ![p] = f]
    PROVE  MemoryInv'
<1> PICK n : n = Len(taken)
  OBVIOUS
<1>1. /\ Packets' = Packets /\ AllBytes' = AllBytes
      /\ \A q : packet(q)' = packet(q) /\ BytesOf(q)' = BytesOf(q)
  BY TrafficSame
<1>2. taken \in Seq(Packets) /\ n \in Nat /\ DOMAIN taken = 1 .. n
  BY DEF MemoryInv
<1>3. /\ taken' \in Seq(Packets) /\ DOMAIN taken' = 1 .. (n + 1) /\ taken'[n + 1] = p
      /\ \A i \in 1 .. n : taken'[i] = taken[i]
  BY <1>2
<1>4. \A i \in 1 .. n : taken[i] # p /\ taken[i] \in Packets
  BY <1>2 DEF MemoryInv
<1>5. (taken \in Seq(Packets))' /\ (phase \in [Packets -> {"unsent", "parked", "sent", "done"}])'
  BY <1>1, <1>3 DEF MemoryInv
<1>6. (\A i, j \in DOMAIN taken : taken[i] = taken[j] => i = j)'
  <2> SUFFICES ASSUME NEW i \in 1 .. (n + 1), NEW j \in 1 .. (n + 1), taken'[i] = taken'[j] PROVE i = j
    BY <1>3
  <2>1. CASE i = n + 1 \/ j = n + 1
    BY <1>2, <1>3, <1>4, <2>1
  <2>2. CASE i # n + 1 /\ j # n + 1
    <3>1. i \in 1 .. n /\ j \in 1 .. n
      BY <1>2, <2>2
    <3>2. QED
      BY <1>2, <1>3, <3>1 DEF MemoryInv
  <2>3. QED
    BY <2>1, <2>2
<1>7. (\A i \in DOMAIN taken : phase[taken[i]] \in {"sent", "done"})'
  <2> SUFFICES ASSUME NEW i \in 1 .. (n + 1) PROVE phase'[taken'[i]] \in {"sent", "done"}
    BY <1>3
  <2>1. CASE i = n + 1
    BY <1>3, <2>1 DEF MemoryInv
  <2>2. CASE i # n + 1
    <3>1. i \in 1 .. n
      BY <1>2, <2>2
    <3>2. phase[taken[i]] \in {"sent", "done"} /\ phase'[taken[i]] = phase[taken[i]]
      BY <1>2, <1>4, <3>1 DEF MemoryInv
    <3>3. QED
      BY <1>3, <3>1, <3>2
  <2>3. QED
    BY <2>1, <2>2
<1>8. (DOMAIN pages = AllBytes /\ DOMAIN found = Packets)'
  BY <1>1 DEF MemoryInv, Access
<1>9. ASSUME NEW b \in AllBytes PROVE pages'[b] = LastOf(WritersOf(b))'
  <2>1. CASE packet(p).write /\ b \in packet(p).enabled
    <3>1. pages'[b] = p
      BY <2>1 DEF Access
    <3>2. WritersOf(b)' \subseteq 1 .. (n + 1) /\ n + 1 \in WritersOf(b)'
      BY <1>1, <1>2, <1>3, <2>1 DEF WritersOf
    <3> PICK W : W = WritersOf(b)'
      OBVIOUS
    <3>3. W \in SUBSET (1 .. (n + 1)) /\ n + 1 \in W
      BY <3>2
    <3>4. Max(W) \in W /\ \A y \in W : y <= Max(W)
      <4>1. n + 1 \in Nat /\ W # {}
        BY <1>2, <3>3
      <4>2. QED
        BY <3>3, <4>1, GreatestOf
    <3>5. Max(W) = n + 1
      <4>1. Max(W) \in 1 .. (n + 1) /\ n + 1 <= Max(W)
        BY <3>3, <3>4
      <4>2. QED
        BY <1>2, <4>1
    <3>6. W # {} /\ LastOf(WritersOf(b))' = IF W = {} THEN 0 ELSE taken'[Max(W)]
      BY <3>3 DEF LastOf
    <3>7. QED
      BY <1>3, <3>1, <3>5, <3>6
  <2>2. CASE ~(packet(p).write /\ b \in packet(p).enabled)
    <3>1. pages'[b] = pages[b]
      BY <2>2 DEF Access
    <3>2. WritersOf(b)' = WritersOf(b)
      <4>1. ASSUME NEW i PROVE i \in WritersOf(b)' <=> i \in WritersOf(b)
        <5>1. CASE i = n + 1
          BY <1>1, <1>2, <1>3, <2>2, <5>1 DEF WritersOf
        <5>2. CASE i \in 1 .. n
          BY <1>1, <1>2, <1>3, <5>2 DEF WritersOf
        <5>3. CASE i \notin 1 .. (n + 1)
          BY <1>2, <1>3, <5>3 DEF WritersOf
        <5>4. QED
          BY <1>2, <5>1, <5>2, <5>3
      <4>2. QED
        BY <4>1
    <3>3. LastOf(WritersOf(b))' = LastOf(WritersOf(b))
      <4> PICK W : W = WritersOf(b)
        OBVIOUS
      <4>1. W \in SUBSET (1 .. n)
        BY <1>2 DEF WritersOf
      <4>2. LastOf(WritersOf(b)) = (IF W = {} THEN 0 ELSE taken[Max(W)])
        BY DEF LastOf
      <4>3. LastOf(WritersOf(b))' = (IF W = {} THEN 0 ELSE taken'[Max(W)])
        BY <3>2 DEF LastOf
      <4>4. W # {} => Max(W) \in 1 .. n
        BY <1>2, <4>1, GreatestOf
      <4>5. W # {} => taken'[Max(W)] = taken[Max(W)]
        BY <1>3, <4>4
      <4>6. CASE W = {}
        BY <4>2, <4>3, <4>6
      <4>7. CASE W # {}
        BY <4>2, <4>3, <4>5, <4>7
      <4>8. QED
        BY <4>6, <4>7
    <3>4. QED
      BY <3>1, <3>3 DEF MemoryInv
  <2>3. QED
    BY <2>1, <2>2
<1>10. ASSUME NEW i \in 1 .. (n + 1), NEW q, q = taken'[i], NEW b \in BytesOf(q)
       PROVE  found'[q][b] = LastOf(WritersBefore(q, b))'
  <2> PICK W : W = IF i = n + 1 THEN WritersOf(b) ELSE WritersBefore(q, b)
    OBVIOUS
  <2>1. WritersBefore(q, b)' = W /\ W \in SUBSET (1 .. n)
    <3>1. CASE i = n + 1
      <4>1. q = p
        BY <1>3, <1>10, <3>1
      <4>2. WritersBefore(p, b)' = {k \in 1 .. (n + 1) : taken'[k] # p /\ packet(taken'[k]).write
                                       /\ b \in packet(taken'[k]).enabled
                                       /\ \E l \in 1 .. (n + 1) : k < l /\ taken'[l] = p}
        BY <1>1, <1>3 DEF WritersBefore
      <4>3. ASSUME NEW k PROVE k \in WritersBefore(p, b)' <=> k \in WritersOf(b)
        <5>1. CASE k \in 1 .. n
          <6>1. k < n + 1 /\ taken'[n + 1] = p /\ n + 1 \in 1 .. (n + 1) /\ k \in 1 .. (n + 1)
            BY <1>2, <1>3, <5>1
          <6>2. taken'[k] = taken[k] /\ taken[k] # p
            BY <1>3, <1>4, <5>1
          <6>3. QED
            BY <1>2, <4>2, <5>1, <6>1, <6>2 DEF WritersOf
        <5>2. CASE k \notin 1 .. n
          <6>1. k \notin WritersOf(b)
            BY <1>2, <5>2 DEF WritersOf
          <6>2. k \in 1 .. (n + 1) => taken'[k] = p
            BY <1>2, <1>3, <5>2
          <6>3. QED
            BY <4>2, <6>1, <6>2
        <5>3. QED
          BY <5>1, <5>2
      <4>4. WritersBefore(p, b)' = WritersOf(b)
        BY <4>3
      <4>5. WritersOf(b) \in SUBSET (1 .. n)
        BY <1>2 DEF WritersOf
      <4>6. QED
        BY <3>1, <4>1, <4>4, <4>5
    <3>2. CASE i # n + 1
      <4>1. i \in 1 .. n
        BY <1>2, <3>2
      <4>2. q = taken[i] /\ q # p
        BY <1>3, <1>4, <1>10, <4>1
      <4>3. WritersBefore(q, b)' = {k \in 1 .. (n + 1) : taken'[k] # q /\ packet(taken'[k]).write
                                       /\ b \in packet(taken'[k]).enabled
                                       /\ \E l \in 1 .. (n + 1) : k < l /\ taken'[l] = q}
        BY <1>1, <1>3 DEF WritersBefore
      <4>4. ASSUME NEW k PROVE k \in WritersBefore(q, b)' <=> k \in WritersBefore(q, b)
        <5>1. (\E l \in 1 .. (n + 1) : k < l /\ taken'[l] = q) <=> (\E l \in 1 .. n : k < l /\ taken[l] = q)
          <6>1. \A l \in 1 .. n : l \in 1 .. (n + 1) /\ taken'[l] = taken[l]
            BY <1>2, <1>3
          <6>2. \A l \in 1 .. (n + 1) : taken'[l] = q => l \in 1 .. n
            BY <1>2, <1>3, <4>2
          <6>3. ASSUME NEW l \in 1 .. (n + 1), k < l, taken'[l] = q PROVE \E m \in 1 .. n : k < m /\ taken[m] = q
            BY <6>1, <6>2, <6>3
          <6>4. ASSUME NEW l \in 1 .. n, k < l, taken[l] = q PROVE \E m \in 1 .. (n + 1) : k < m /\ taken'[m] = q
            BY <6>1, <6>4
          <6>5. QED
            BY <6>3, <6>4, Zenon
        <5>2. CASE k \in 1 .. n
          <6> DEFINE Writes(r) == packet(r).write /\ b \in packet(r).enabled
          <6>1. k \in WritersBefore(q, b) <=> (taken[k] # q /\ Writes(taken[k]) /\ \E l \in 1 .. n : k < l /\ taken[l] = q)
            BY <1>2, <5>2 DEF WritersBefore
          <6>2. taken'[k] = taken[k] /\ k \in 1 .. (n + 1)
            BY <1>2, <1>3, <5>2
          <6>3. k \in WritersBefore(q, b)' <=> (taken'[k] # q /\ Writes(taken'[k]) /\ \E l \in 1 .. (n + 1) : k < l /\ taken'[l] = q)
            BY <4>3, <6>2
          <6> HIDE DEF Writes
          <6>4. QED
            BY <5>1, <6>1, <6>2, <6>3
        <5>3. CASE k \notin 1 .. n
          <6>1. k \notin WritersBefore(q, b)
            BY <1>2, <5>3 DEF WritersBefore
          <6>2. ~(k \in 1 .. (n + 1) /\ \E l \in 1 .. (n + 1) : k < l /\ taken'[l] = q)
            <7> SUFFICES ASSUME k \in 1 .. (n + 1), NEW l \in 1 .. (n + 1), k < l PROVE FALSE
              OBVIOUS
            <7> QED
              BY <1>2, <5>3
          <6>3. QED
            BY <4>3, <6>1, <6>2
        <5>4. QED
          BY <5>2, <5>3
      <4>5. WritersBefore(q, b)' = WritersBefore(q, b)
        BY <4>4
      <4>6. WritersBefore(q, b) \in SUBSET (1 .. n)
        BY <1>2 DEF WritersBefore
      <4>7. QED
        BY <3>2, <4>5, <4>6
    <3>3. QED
      BY <3>1, <3>2
  <2>2. found'[q][b] = LastOf(W)
    <3>1. CASE i = n + 1
      <4>1. q = p /\ b \in BytesOf(p)
        BY <1>3, <1>10, <3>1
      <4>2. b \in AllBytes
        BY <4>1 DEF AllBytes
      <4>3. found'[p][b] = pages[b]
        BY <4>1 DEF Access, MemoryInv
      <4>4. pages[b] = LastOf(WritersOf(b))
        BY <4>2 DEF MemoryInv
      <4>5. QED
        BY <3>1, <4>1, <4>3, <4>4
    <3>2. CASE i # n + 1
      <4>1. i \in 1 .. n
        BY <1>2, <3>2
      <4>2. q = taken[i] /\ q # p /\ q \in Packets /\ b \in BytesOf(q)
        BY <1>3, <1>4, <1>10, <4>1
      <4>3. found'[q] = found[q]
        BY <4>2 DEF Access, MemoryInv
      <4>4. found[q][b] = LastOf(WritersBefore(q, b))
        BY <1>2, <4>1, <4>2 DEF MemoryInv
      <4>5. QED
        BY <3>2, <4>3, <4>4
    <3>3. QED
      BY <3>1, <3>2
  <2>3. LastOf(WritersBefore(q, b))' = (IF WritersBefore(q, b)' = {} THEN 0 ELSE taken'[Max(WritersBefore(q, b)')])
    BY DEF LastOf
  <2>4. W # {} => Max(W) \in 1 .. n
    BY <1>2, <2>1, GreatestOf
  <2>5. QED
    BY <1>3, <2>1, <2>2, <2>3, <2>4 DEF LastOf
<1>11. (\A b \in AllBytes : pages[b] = LastOf(WritersOf(b)))'
  BY <1>1, <1>9
<1>12. (\A i \in DOMAIN taken : \A b \in BytesOf(taken[i]) : found[taken[i]][b] = LastOf(WritersBefore(taken[i], b)))'
  <2> SUFFICES ASSUME NEW i \in 1 .. (n + 1), NEW b \in BytesOf(taken[i])'
               PROVE  (found[taken[i]][b] = LastOf(WritersBefore(taken[i], b)))'
    BY <1>3
  <2> PICK q : q = taken'[i]
    OBVIOUS
  <2>1. b \in BytesOf(q)
    BY <1>1 DEF BytesOf, packet
  <2>2. found'[q][b] = LastOf(WritersBefore(q, b))'
    BY <1>10, <2>1
  <2>3. WritersBefore(taken[i], b)' = WritersBefore(q, b)'
    BY DEF WritersBefore
  <2>4. QED
    BY <2>2, <2>3 DEF LastOf
<1>13. QED
  BY <1>5, <1>6, <1>7, <1>8, <1>11, <1>12, Zenon DEF MemoryInv

-----------------------------------------------------------------------------
(* A packet is taken: the answers.                                           *)

LEMMA GivenAndBefore ==
    ASSUME taken \in Seq(Packets), NEW p \in Packets, taken' = Append(taken, p)
    PROVE  /\ Given(p)'
           /\ \A q : Given(q) => Given(q)' /\ Before(q, p)'
           /\ \A q, r : Before(q, r) => Before(q, r)'
<1> PICK n : n = Len(taken)
  OBVIOUS
<1>1. n \in Nat /\ DOMAIN taken = 1 .. n
  OBVIOUS
<1>2. DOMAIN taken' = 1 .. (n + 1) /\ taken'[n + 1] = p /\ \A i \in 1 .. n : taken'[i] = taken[i]
  OBVIOUS
<1>3. Given(p)'
  BY <1>1, <1>2 DEF Given
<1>4. ASSUME NEW q, Given(q) PROVE Given(q)' /\ Before(q, p)'
  <2>1. PICK k \in 1 .. n : taken[k] = q
    BY <1>1, <1>4 DEF Given
  <2>2. k \in 1 .. (n + 1) /\ n + 1 \in 1 .. (n + 1) /\ k < n + 1 /\ taken'[k] = q
    BY <1>1, <1>2, <2>1
  <2>3. QED
    BY <1>2, <2>2 DEF Given, Before
<1>5. ASSUME NEW q, NEW r, Before(q, r) PROVE Before(q, r)'
  <2>1. PICK k \in 1 .. n, l \in 1 .. n : k < l /\ taken[k] = q /\ taken[l] = r
    BY <1>1, <1>5 DEF Before
  <2>2. k \in 1 .. (n + 1) /\ l \in 1 .. (n + 1) /\ taken'[k] = q /\ taken'[l] = r
    BY <1>1, <1>2, <2>1
  <2>3. QED
    BY <1>2, <2>1, <2>2 DEF Before
<1>6. QED
  BY <1>3, <1>4, <1>5, Zenon

\* A step that leaves the answers and those that wait: only more packets are taken.
LEMMA SameOrder ==
    ASSUME OrderInv, UNCHANGED <<system, packetQueue, answers>>, taken \in Seq(Packets),
           taken' = taken \/ \E p \in Packets : taken' = Append(taken, p)
    PROVE  OrderInv'
<1>1. /\ Packets' = Packets /\ Waiting' = Waiting
      /\ \A p, q : MatchAddr(p, q)' <=> MatchAddr(p, q)
  BY DEF Packets, packet, Waiting, MatchAddr
<1>2. \A q : Given(q) => Given(q)'
  BY GivenAndBefore DEF Given
<1>3. \A q, r : Before(q, r) => Before(q, r)'
  BY GivenAndBefore DEF Before
<1>4. (packetQueue \in Seq(Waiting) /\ answers \in Seq(Packets))'
  BY <1>1 DEF OrderInv
<1>5. (\A i \in DOMAIN packetQueue : Given(packetQueue[i].pkt))' /\ (\A i \in DOMAIN answers : Given(answers[i]))'
  BY <1>2 DEF OrderInv
<1>6. (\A i, j \in DOMAIN packetQueue :
           i < j /\ MatchAddr(packetQueue[i].pkt, packetQueue[j].pkt) => Before(packetQueue[i].pkt, packetQueue[j].pkt))'
  BY <1>1, <1>3 DEF OrderInv
<1>7. (\A i \in DOMAIN answers, j \in DOMAIN packetQueue :
           MatchAddr(answers[i], packetQueue[j].pkt) => Before(answers[i], packetQueue[j].pkt))'
  BY <1>1, <1>3 DEF OrderInv
<1>8. (\A i, j \in DOMAIN answers : i < j /\ MatchAddr(answers[i], answers[j]) => Before(answers[i], answers[j]))'
  BY <1>1, <1>3 DEF OrderInv
<1>9. QED
  BY <1>4, <1>5, <1>6, <1>7, <1>8, Zenon DEF OrderInv

\* An answer is put before none that is due earlier, and none to its own address.
LEMMA InsertedWhere ==
    ASSUME packetQueue \in Seq(Waiting), NEW e \in Waiting
    PROVE  \E at \in 1 .. (Len(packetQueue) + 1) :
              /\ Inserted(e) = InsertAt(packetQueue, at, e)
              /\ \A i \in 1 .. Len(packetQueue) :
                    i >= at => packetQueue[i].tick > e.tick /\ ~MatchAddr(packetQueue[i].pkt, e.pkt)
<1> PICK n : n = Len(packetQueue)
  OBVIOUS
<1> DEFINE Stops(i) == packetQueue[i].tick <= e.tick \/ MatchAddr(packetQueue[i].pkt, e.pkt)
<1> PICK stops : stops = {i \in 1 .. n : Stops(i)}
  OBVIOUS
<1> PICK at : at = IF stops = {} THEN 1 ELSE 1 + Max(stops)
  OBVIOUS
<1>1. n \in Nat /\ stops \in SUBSET (1 .. n)
  OBVIOUS
<1>2. Inserted(e) = InsertAt(packetQueue, at, e)
  BY DEF Inserted
<1>3. at \in 1 .. (n + 1) /\ \A i \in stops : i < at
  <2>1. CASE stops = {}
    BY <1>1, <2>1
  <2>2. CASE stops # {}
    <3>1. Max(stops) \in stops /\ \A i \in stops : i <= Max(stops)
      BY <1>1, <2>2, GreatestOf
    <3>2. Max(stops) \in 1 .. n
      BY <1>1, <3>1
    <3>3. at = 1 + Max(stops)
      BY <2>2
    <3>4. at \in 1 .. (n + 1)
      BY <1>1, <3>2, <3>3
    <3>5. ASSUME NEW i \in stops PROVE i < at
      <4>1. i \in 1 .. n /\ i <= Max(stops)
        BY <1>1, <3>1
      <4>2. QED
        BY <3>2, <3>3, <4>1
    <3>6. QED
      BY <3>4, <3>5
  <2>3. QED
    BY <2>1, <2>2
<1>4. ASSUME NEW i \in 1 .. n, i >= at
      PROVE  packetQueue[i].tick > e.tick /\ ~MatchAddr(packetQueue[i].pkt, e.pkt)
  <2>1. i \notin stops
    BY <1>1, <1>3, <1>4
  <2>2. ~Stops(i)
    BY <2>1
  <2>3. packetQueue[i] \in Waiting
    OBVIOUS
  <2>4. packetQueue[i].tick \in Nat /\ e.tick \in Nat
    BY <2>3 DEF Waiting
  <2>5. QED
    BY <2>2, <2>4
<1>5. QED
  BY <1>2, <1>3, <1>4

\* An answer that waits is put in its place.
LEMMA InsertedOrder ==
    ASSUME OrderInv, UNCHANGED <<system, answers>>, taken \in Seq(Packets),
           NEW p \in Packets, taken' = Append(taken, p),
           NEW e \in Waiting, e.pkt = p, packetQueue' = Inserted(e)
    PROVE  OrderInv'
<1> PICK n : n = Len(packetQueue)
  OBVIOUS
<1>1. /\ Packets' = Packets /\ Waiting' = Waiting
      /\ \A q, r : MatchAddr(q, r)' <=> MatchAddr(q, r)
      /\ \A q, r : MatchAddr(q, r) <=> MatchAddr(r, q)
  BY DEF Packets, packet, Waiting, MatchAddr
<1>2. packetQueue \in Seq(Waiting) /\ n \in Nat /\ DOMAIN packetQueue = 1 .. n
  BY DEF OrderInv
<1>3. PICK at \in 1 .. (n + 1) :
          /\ packetQueue' = InsertAt(packetQueue, at, e)
          /\ \A i \in 1 .. n : i >= at => ~MatchAddr(packetQueue[i].pkt, p)
  BY <1>2, InsertedWhere
<1>4. /\ packetQueue' \in Seq(Waiting) /\ Len(packetQueue') = n + 1
      /\ \A i \in 1 .. (n + 1) :
             packetQueue'[i] = IF i < at THEN packetQueue[i] ELSE IF i = at THEN e ELSE packetQueue[i - 1]
  <2> PICK s : s = packetQueue
    OBVIOUS
  <2> PICK W : W = Waiting
    OBVIOUS
  <2>1. s \in Seq(W) /\ e \in W /\ at \in 1 .. (Len(s) + 1)
    BY <1>2
  <2>2. InsertAt(s, at, e) \in Seq(W) /\ SplicedAt(InsertAt(s, at, e), s, at, e)
    BY <2>1, InsertFacts
  <2>3. QED
    BY <1>3, <2>2 DEF SplicedAt
<1>5. DOMAIN packetQueue' = 1 .. (n + 1)
  BY <1>4
<1>6. Given(p)' /\ (\A q : Given(q) => Given(q)' /\ Before(q, p)') /\ \A q, r : Before(q, r) => Before(q, r)'
  BY GivenAndBefore
\* Where an entry of the new queue was, if it is not the new one.
<1> DEFINE Was(i) == IF i < at THEN i ELSE i - 1
<1>7. ASSUME NEW i \in 1 .. (n + 1), i # at
      PROVE  Was(i) \in 1 .. n /\ packetQueue'[i] = packetQueue[Was(i)] /\ (i > at => Was(i) >= at)
  BY <1>2, <1>4, <1>7
<1>8. packetQueue'[at].pkt = p
  BY <1>4
<1>9. ASSUME NEW i \in 1 .. (n + 1), NEW j \in 1 .. (n + 1), i < j, i # at, j # at
      PROVE  Was(i) < Was(j)
  BY <1>2, <1>9
<1> HIDE DEF Was
<1>10. (packetQueue \in Seq(Waiting) /\ answers \in Seq(Packets))'
  BY <1>1, <1>4 DEF OrderInv
<1>11. (\A i \in DOMAIN packetQueue : Given(packetQueue[i].pkt))'
  <2> SUFFICES ASSUME NEW i \in 1 .. (n + 1) PROVE Given(packetQueue[i].pkt)'
    BY <1>5
  <2>1. CASE i = at
    <3>1. Given(packetQueue[i].pkt)' <=> \E k \in DOMAIN taken' : taken'[k] = packetQueue'[i].pkt
      BY DEF Given
    <3>2. QED
      BY <1>6, <1>8, <2>1, <3>1 DEF Given
  <2>2. CASE i # at
    <3>1. Given(packetQueue[Was(i)].pkt)
      BY <1>2, <1>7, <2>2 DEF OrderInv
    <3>2. PICK q : q = packetQueue[Was(i)].pkt
      OBVIOUS
    <3>3. Given(q)' /\ packetQueue'[i].pkt = q
      BY <1>6, <1>7, <2>2, <3>1, <3>2
    <3>4. QED
      BY <3>3 DEF Given
  <2>3. QED
    BY <2>1, <2>2
<1>12. (\A i \in DOMAIN answers : Given(answers[i]))'
  BY <1>6 DEF OrderInv
<1>13. ASSUME NEW i \in 1 .. (n + 1), NEW j \in 1 .. (n + 1), NEW q, NEW r,
              q = packetQueue'[i].pkt, r = packetQueue'[j].pkt, i < j, MatchAddr(q, r)
       PROVE  Before(q, r)'
  <2>1. CASE i = at
    <3>1. q = p /\ j # at /\ j > at
      BY <1>8, <1>13, <2>1
    <3>2. Was(j) \in 1 .. n /\ Was(j) >= at /\ r = packetQueue[Was(j)].pkt
      BY <1>7, <1>13, <3>1
    <3>3. ~MatchAddr(r, p)
      BY <1>3, <3>2
    <3>4. QED
      BY <1>1, <1>13, <3>1, <3>3
  <2>2. CASE j = at
    <3>1. r = p /\ i # at
      BY <1>8, <1>13, <2>2
    <3>2. Was(i) \in 1 .. n /\ q = packetQueue[Was(i)].pkt
      BY <1>7, <1>13, <3>1
    <3>3. Given(q)
      BY <1>2, <3>2 DEF OrderInv
    <3>4. QED
      BY <1>6, <3>1, <3>3
  <2>3. CASE i # at /\ j # at
    <3>1. /\ Was(i) \in 1 .. n /\ q = packetQueue[Was(i)].pkt
          /\ Was(j) \in 1 .. n /\ r = packetQueue[Was(j)].pkt
      BY <1>7, <1>13, <2>3
    <3>2. Was(i) < Was(j)
      BY <1>9, <1>13, <2>3
    <3>3. Before(q, r)
      BY <1>2, <1>13, <3>1, <3>2 DEF OrderInv
    <3>4. QED
      BY <1>6, <3>3
  <2>4. QED
    BY <2>1, <2>2, <2>3
<1>14. (\A i, j \in DOMAIN packetQueue :
           i < j /\ MatchAddr(packetQueue[i].pkt, packetQueue[j].pkt) => Before(packetQueue[i].pkt, packetQueue[j].pkt))'
  <2> SUFFICES ASSUME NEW i \in 1 .. (n + 1), NEW j \in 1 .. (n + 1), i < j,
                      MatchAddr(packetQueue[i].pkt, packetQueue[j].pkt)'
               PROVE  Before(packetQueue[i].pkt, packetQueue[j].pkt)'
    BY <1>5
  <2>1. PICK q, r : q = packetQueue'[i].pkt /\ r = packetQueue'[j].pkt
    OBVIOUS
  <2>2. MatchAddr(q, r)
    BY <2>1, TrafficSame DEF MatchAddr
  <2>3. Before(q, r)'
    BY <1>13, <2>1, <2>2
  <2>4. QED
    BY <2>1, <2>3 DEF Before
<1>15. ASSUME NEW i \in DOMAIN answers, NEW j \in 1 .. (n + 1), NEW q, NEW r,
              q = answers[i], r = packetQueue'[j].pkt, MatchAddr(q, r)
       PROVE  Before(q, r)'
  <2>1. CASE j = at
    <3>1. Given(q) /\ r = p
      BY <1>8, <1>15, <2>1 DEF OrderInv
    <3>2. QED
      BY <1>6, <3>1
  <2>2. CASE j # at
    <3>1. Was(j) \in 1 .. n /\ r = packetQueue[Was(j)].pkt
      BY <1>7, <1>15, <2>2
    <3>2. Before(q, r)
      BY <1>2, <1>15, <3>1 DEF OrderInv
    <3>3. QED
      BY <1>6, <3>2
  <2>3. QED
    BY <2>1, <2>2
<1>16. (\A i \in DOMAIN answers, j \in DOMAIN packetQueue :
           MatchAddr(answers[i], packetQueue[j].pkt) => Before(answers[i], packetQueue[j].pkt))'
  <2> SUFFICES ASSUME NEW i \in DOMAIN answers, NEW j \in 1 .. (n + 1), MatchAddr(answers[i], packetQueue[j].pkt)'
               PROVE  Before(answers[i], packetQueue[j].pkt)'
    BY <1>5
  <2>1. PICK q, r : q = answers[i] /\ r = packetQueue'[j].pkt
    OBVIOUS
  <2>2. MatchAddr(q, r)
    BY <2>1, TrafficSame DEF MatchAddr
  <2>3. Before(q, r)'
    BY <1>15, <2>1, <2>2
  <2>4. QED
    BY <2>1, <2>3 DEF Before
<1>17. (\A i, j \in DOMAIN answers : i < j /\ MatchAddr(answers[i], answers[j]) => Before(answers[i], answers[j]))'
  BY <1>1, <1>6 DEF OrderInv
<1>18. QED
  BY <1>10, <1>11, <1>12, <1>14, <1>16, <1>17, Zenon DEF OrderInv

\* The first of the answers that wait is given.
LEMMA AnsweredOrder ==
    ASSUME OrderInv, UNCHANGED <<system, taken>>, packetQueue # <<>>,
           packetQueue' = Tail(packetQueue), answers' = Append(answers, packetQueue[1].pkt)
    PROVE  OrderInv'
<1> PICK n : n = Len(packetQueue)
  OBVIOUS
<1> PICK m : m = Len(answers)
  OBVIOUS
<1> PICK p : p = packetQueue[1].pkt
  OBVIOUS
<1>1. /\ Packets' = Packets /\ Waiting' = Waiting
      /\ \A q, r : MatchAddr(q, r)' <=> MatchAddr(q, r)
  BY DEF Packets, packet, Waiting, MatchAddr
<1>2. /\ packetQueue \in Seq(Waiting) /\ n \in Nat \ {0} /\ DOMAIN packetQueue = 1 .. n
      /\ answers \in Seq(Packets) /\ m \in Nat /\ DOMAIN answers = 1 .. m
  BY DEF OrderInv
<1>3. p \in Packets
  <2>1. packetQueue[1] \in Waiting
    BY <1>2
  <2>2. QED
    BY <2>1 DEF Waiting
<1>4. /\ packetQueue' \in Seq(Waiting) /\ DOMAIN packetQueue' = 1 .. (n - 1)
      /\ \A i \in 1 .. (n - 1) : i + 1 \in 1 .. n /\ packetQueue'[i] = packetQueue[i + 1]
  BY <1>2
<1>5. /\ answers' \in Seq(Packets) /\ DOMAIN answers' = 1 .. (m + 1) /\ answers'[m + 1] = p
      /\ \A i \in 1 .. m : answers'[i] = answers[i]
  BY <1>2, <1>3
<1>6. \A q, r : (Given(q)' <=> Given(q)) /\ (Before(q, r)' <=> Before(q, r))
  BY DEF Given, Before
<1>7. Given(p) /\ (\A i \in 1 .. n : Given(packetQueue[i].pkt)) /\ \A i \in 1 .. m : Given(answers[i])
  <2>1. (\A i \in 1 .. n : Given(packetQueue[i].pkt)) /\ \A i \in 1 .. m : Given(answers[i])
    BY <1>2 DEF OrderInv
  <2>2. 1 \in 1 .. n
    BY <1>2
  <2>3. QED
    BY <2>1, <2>2
<1>8. (packetQueue \in Seq(Waiting) /\ answers \in Seq(Packets))'
  BY <1>1, <1>4, <1>5
<1>9. (\A i \in DOMAIN packetQueue : Given(packetQueue[i].pkt))'
  <2>1. \A i \in DOMAIN packetQueue' : Given(packetQueue'[i].pkt)
    BY <1>4, <1>7
  <2>2. QED
    BY <2>1 DEF Given
<1>10. (\A i \in DOMAIN answers : Given(answers[i]))'
  <2>1. ASSUME NEW i \in 1 .. (m + 1) PROVE Given(answers'[i])
    <3>1. CASE i = m + 1
      BY <1>5, <1>7, <3>1
    <3>2. CASE i # m + 1
      <4>1. i \in 1 .. m
        BY <1>2, <3>2
      <4>2. QED
        BY <1>5, <1>7, <4>1
    <3>3. QED
      BY <3>1, <3>2
  <2>2. QED
    BY <1>5, <2>1 DEF Given
<1>11. (\A i, j \in DOMAIN packetQueue :
           i < j /\ MatchAddr(packetQueue[i].pkt, packetQueue[j].pkt) => Before(packetQueue[i].pkt, packetQueue[j].pkt))'
  <2>1. ASSUME NEW i \in 1 .. (n - 1), NEW j \in 1 .. (n - 1), i < j, NEW q, NEW r,
               q = packetQueue'[i].pkt, r = packetQueue'[j].pkt, MatchAddr(q, r)
        PROVE  Before(q, r)
    <3>1. i + 1 \in 1 .. n /\ j + 1 \in 1 .. n /\ i + 1 < j + 1
      BY <1>2, <2>1
    <3>2. q = packetQueue[i + 1].pkt /\ r = packetQueue[j + 1].pkt
      BY <1>4, <2>1
    <3>3. QED
      BY <1>2, <2>1, <3>1, <3>2 DEF OrderInv
  <2>2. \A i, j \in DOMAIN packetQueue' : i < j /\ MatchAddr(packetQueue'[i].pkt, packetQueue'[j].pkt)
                                          => Before(packetQueue'[i].pkt, packetQueue'[j].pkt)
    BY <1>4, <2>1
  <2>3. QED
    BY <1>1, <1>6, <2>2 DEF MatchAddr, packet, Before
<1>12. (\A i \in DOMAIN answers, j \in DOMAIN packetQueue :
           MatchAddr(answers[i], packetQueue[j].pkt) => Before(answers[i], packetQueue[j].pkt))'
  <2>1. ASSUME NEW i \in 1 .. (m + 1), NEW j \in 1 .. (n - 1), NEW q, NEW r,
               q = answers'[i], r = packetQueue'[j].pkt, MatchAddr(q, r)
        PROVE  Before(q, r)
    <3>1. j + 1 \in 1 .. n /\ r = packetQueue[j + 1].pkt /\ 1 < j + 1 /\ 1 \in 1 .. n
      BY <1>2, <1>4, <2>1
    <3>2. CASE i = m + 1
      <4>1. q = packetQueue[1].pkt
        BY <1>5, <2>1, <3>2
      <4>2. QED
        BY <1>2, <2>1, <3>1, <4>1 DEF OrderInv
    <3>3. CASE i # m + 1
      <4>1. i \in 1 .. m /\ q = answers[i]
        BY <1>2, <1>5, <2>1, <3>3
      <4>2. QED
        BY <1>2, <2>1, <3>1, <4>1 DEF OrderInv
    <3>4. QED
      BY <3>2, <3>3
  <2>2. \A i \in DOMAIN answers', j \in DOMAIN packetQueue' :
            MatchAddr(answers'[i], packetQueue'[j].pkt) => Before(answers'[i], packetQueue'[j].pkt)
    BY <1>4, <1>5, <2>1
  <2>3. QED
    BY <1>1, <1>6, <2>2 DEF MatchAddr, packet, Before
<1>13. (\A i, j \in DOMAIN answers : i < j /\ MatchAddr(answers[i], answers[j]) => Before(answers[i], answers[j]))'
  <2>1. ASSUME NEW i \in 1 .. (m + 1), NEW j \in 1 .. (m + 1), i < j, NEW q, NEW r,
               q = answers'[i], r = answers'[j], MatchAddr(q, r)
        PROVE  Before(q, r)
    <3>1. i \in 1 .. m /\ q = answers[i]
      BY <1>2, <1>5, <2>1
    <3>2. CASE j = m + 1
      <4>1. r = packetQueue[1].pkt /\ 1 \in 1 .. n
        BY <1>2, <1>5, <2>1, <3>2
      <4>2. QED
        BY <1>2, <2>1, <3>1, <4>1 DEF OrderInv
    <3>3. CASE j # m + 1
      <4>1. j \in 1 .. m
        BY <1>2, <2>1, <3>3
      <4>2. r = answers[j]
        BY <1>5, <2>1, <4>1
      <4>3. QED
        BY <1>2, <2>1, <3>1, <4>1, <4>2 DEF OrderInv
    <3>4. QED
      BY <3>2, <3>3
  <2>2. \A i, j \in DOMAIN answers' : i < j /\ MatchAddr(answers'[i], answers'[j]) => Before(answers'[i], answers'[j])
    BY <1>5, <2>1
  <2>3. QED
    BY <1>1, <1>6, <2>2 DEF MatchAddr, packet, Before
<1>14. QED
  BY <1>8, <1>9, <1>10, <1>11, <1>12, <1>13, Zenon DEF OrderInv

-----------------------------------------------------------------------------
(* The steps.                                                               *)

LEMMA PacketNumbers ==
    ASSUME system \in Systems, NEW p \in Packets
    PROVE  /\ packet(p).delay \in Nat /\ packet(p).duration \in Nat
           /\ Latency \in Nat /\ RetryDelay \in Nat /\ LastSend \in Nat /\ MaxRefusals \in Nat
BY TrafficAssumption DEF Packets, packet

\* The memory takes a packet that waits or comes: at its place in the queue its answer is due, and
\* its event is scheduled, when nothing else brings the next one.
LEMMA PassedKeeps ==
    ASSUME HetInv, NEW p \in Packets, phase[p] \in {"unsent", "parked"}, Passed(p), retryReq' = FALSE,
           UNCHANGED <<system, now, answers, respRetryEvent, refusals, writersStopped>>
    PROVE  HetInv'
<1> PICK e : e = [tick |-> now + packet(p).delay + Latency, pkt |-> p]
  OBVIOUS
<1>1. /\ Access(p) /\ taken' = Append(taken, p)
      /\ releaseEvent' = IF packet(p).duration = 0 THEN {} ELSE {now + packet(p).duration}
      /\ UNCHANGED <<retryResp, drainState>>
  BY DEF Passed, Take
<1>2. /\ now \in Nat /\ packet(p).delay \in Nat /\ packet(p).duration \in Nat /\ Latency \in Nat
      /\ system \in Systems /\ taken \in Seq(Packets) /\ packetQueue \in Seq(Waiting)
  BY PacketNumbers DEF HetInv, WakeInv, MemoryInv, OrderInv
<1>3. e \in Waiting /\ e.pkt = p /\ e.tick >= now
  BY <1>2 DEF Waiting
<1>4. MemoryInv'
  <2> PICK f : f = IF packet(p).reply THEN "sent" ELSE "done"
    OBVIOUS
  <2>1. f \in {"sent", "done"} /\ phase' = [phase EXCEPT ![p] = f]
    BY DEF Passed
  <2>2. QED
    BY <1>1, <2>1, TakenMemory DEF HetInv
<1>5. releaseEvent' \in SUBSET Nat
  BY <1>1, <1>2
<1>6. CASE packet(p).reply
  <2>1. /\ packetQueue' = Inserted(e)
        /\ dequeueEvent' = IF ~retryResp /\ dequeueEvent = {} THEN {packetQueue'[1].tick} ELSE dequeueEvent
    BY <1>6 DEF Passed, Take
  <2>2. OrderInv'
    BY <1>1, <1>2, <1>3, <2>1, InsertedOrder DEF HetInv
  <2> PICK n : n = Len(packetQueue)
    OBVIOUS
  <2>3. PICK at \in 1 .. (n + 1) :
            /\ packetQueue' = InsertAt(packetQueue, at, e)
            /\ \A i \in 1 .. n : i >= at => packetQueue[i].tick > e.tick
    BY <1>2, <1>3, <2>1, InsertedWhere
  <2>4. packetQueue' \in Seq(Waiting) /\ SplicedAt(packetQueue', packetQueue, at, e)
    <3> PICK s : s = packetQueue
      OBVIOUS
    <3> PICK W : W = Waiting
      OBVIOUS
    <3>1. s \in Seq(W) /\ e \in W /\ at \in 1 .. (Len(s) + 1)
      BY <1>2, <1>3
    <3>2. InsertAt(s, at, e) \in Seq(W) /\ SplicedAt(InsertAt(s, at, e), s, at, e)
      BY <3>1, InsertFacts
    <3>3. QED
      BY <2>3, <3>2
  <2>5. n \in Nat /\ packetQueue' # <<>> /\ packetQueue'[1] = IF at = 1 THEN e ELSE packetQueue[1]
    BY <1>2, <2>4 DEF SplicedAt
  <2>6. packetQueue'[1].tick \in Nat
    <3>1. packetQueue'[1] \in Waiting
      BY <2>4, <2>5
    <3>2. QED
      BY <3>1 DEF Waiting
  <2>7. CASE ~retryResp /\ dequeueEvent = {}
    <3>1. packetQueue = <<>>
      BY <2>7 DEF HetInv, WakeInv
    <3>2. respRetryEvent = {} /\ n = 0 /\ at = 1
      BY <2>3, <3>1 DEF HetInv, WakeInv
    <3>3. dequeueEvent' = {e.tick} /\ packetQueue'[1] = e
      BY <2>1, <2>5, <2>7, <3>2
    <3>4. e.tick \in Nat
      BY <1>3 DEF Waiting
    <3>5. WakeInv'
      <4>1. (packetQueue = <<>> => dequeueEvent = {} /\ respRetryEvent = {} /\ ~retryResp)'
        BY <2>5
      <4>2. (packetQueue # <<>> => (dequeueEvent = {} <=> respRetryEvent # {}) /\ (retryResp <=> respRetryEvent # {}))'
        BY <1>1, <2>7, <3>2, <3>3
      <4>3. (\A t \in dequeueEvent : t >= packetQueue[1].tick /\ t >= now)'
        BY <1>3, <3>3, <3>4
      <4>4. dequeueEvent' \in SUBSET Nat
        BY <3>3, <3>4
      <4>5. QED
        BY <1>1, <1>5, <2>5, <4>1, <4>2, <4>3, <4>4 DEF HetInv, WakeInv
    <3>6. QED
      BY <1>4, <2>2, <3>5 DEF HetInv
  <2>8. CASE ~(~retryResp /\ dequeueEvent = {})
    <3>1. packetQueue # <<>>
      BY <2>8 DEF HetInv, WakeInv
    <3>2. dequeueEvent' = dequeueEvent /\ 1 \in 1 .. n
      BY <1>2, <2>1, <2>8, <3>1
    <3>3. packetQueue'[1].tick <= packetQueue[1].tick
      <4>1. CASE at = 1
        <5>1. packetQueue[1].tick > e.tick /\ packetQueue'[1] = e
          BY <2>3, <2>5, <3>2, <4>1
        <5>2. packetQueue[1] \in Waiting
          BY <1>2, <3>1
        <5>3. packetQueue[1].tick \in Nat
          BY <5>2 DEF Waiting
        <5>4. QED
          BY <2>6, <5>1, <5>3
      <4>2. CASE at # 1
        BY <2>5, <2>6, <4>2
      <4>3. QED
        BY <4>1, <4>2
    <3>4. packetQueue[1].tick \in Nat
      <4>1. packetQueue[1] \in Waiting
        BY <1>2, <3>1
      <4>2. QED
        BY <4>1 DEF Waiting
    <3>5. dequeueEvent \in SUBSET Nat /\ \A t \in dequeueEvent : t >= packetQueue[1].tick /\ t >= now
      BY DEF HetInv, WakeInv
    <3>6. \A t \in dequeueEvent' : t >= packetQueue'[1].tick /\ t >= now'
      BY <1>2, <2>6, <3>2, <3>3, <3>4, <3>5
    <3>7. WakeInv'
      BY <1>1, <1>5, <2>5, <3>1, <3>2, <3>6 DEF HetInv, WakeInv
    <3>8. QED
      BY <1>4, <2>2, <3>7 DEF HetInv
  <2>9. QED
    BY <2>7, <2>8
<1>7. CASE ~packet(p).reply
  <2>1. UNCHANGED <<packetQueue, dequeueEvent>>
    BY <1>7 DEF Passed, Take
  <2>2. OrderInv'
    BY <1>1, <1>2, <2>1, SameOrder DEF HetInv
  <2>3. WakeInv'
    BY <1>1, <1>5, <2>1 DEF HetInv, WakeInv
  <2>4. QED
    BY <1>4, <2>2, <2>3 DEF HetInv
<1>8. QED
  BY <1>6, <1>7

\* A step at the memory's ports that takes nothing and gives nothing.
LEMMA WaitingKeeps ==
    ASSUME HetInv, UNCHANGED <<system, taken, pages, found, packetQueue, answers>>,
           phase' \in [Packets -> {"unsent", "parked", "sent", "done"}],
           \A q \in Packets : phase[q] \in {"sent", "done"} => phase'[q] \in {"sent", "done"},
           WakeInv'
    PROVE  HetInv'
<1>1. MemoryInv'
  BY QuietMemory DEF HetInv
<1>2. OrderInv'
  BY SameOrder DEF HetInv, MemoryInv
<1>3. QED
  BY <1>1, <1>2 DEF HetInv

LEMMA SendKeeps == ASSUME HetInv, NEW p \in Packets, Send(p) PROVE HetInv'
<1>1. CASE CanTake
  <2>1. Passed(p) /\ retryReq' = FALSE
    BY <1>1 DEF Send, CanTake, HetInv, WakeInv
  <2>2. QED
    BY <2>1, PassedKeeps DEF Send
<1>2. CASE ~CanTake
  <2>1. /\ Refused(p) /\ phase[p] = "unsent" /\ phase' = [phase EXCEPT ![p] = "parked"]
        /\ UNCHANGED <<system, now, answers, respRetryEvent, refusals, writersStopped, taken>>
        /\ UNCHANGED <<pages, releaseEvent, packetQueue, dequeueEvent, retryResp, drainState, found>> /\ retryReq' = TRUE
    BY <1>2 DEF Send, Refused, Refuse
  <2>2. phase \in [Packets -> {"unsent", "parked", "sent", "done"}]
    BY DEF HetInv, MemoryInv
  <2>3. /\ phase' \in [Packets -> {"unsent", "parked", "sent", "done"}] /\ phase'[p] = "parked"
        /\ \A q \in Packets : phase[q] \in {"sent", "done"} => phase'[q] \in {"sent", "done"}
    BY <2>1, <2>2
  <2>4. releaseEvent # {}
    BY <1>2 DEF CanTake, HetInv, WakeInv
  <2>5. (\E q \in Packets : phase[q] = "parked")'
    BY <2>1, <2>3 DEF Packets
  <2>6. WakeInv'
    BY <2>1, <2>4, <2>5 DEF HetInv, WakeInv
  <2>7. QED
    BY <2>1, <2>3, <2>6, WaitingKeeps
<1>3. QED
  BY <1>1, <1>2

LEMMA ReleaseKeeps == ASSUME HetInv, Release PROVE HetInv'
<1>1. CASE \E p \in Packets : retryReq /\ phase[p] = "parked" /\ Passed(p)
  <2>1. PICK p \in Packets : retryReq /\ phase[p] = "parked" /\ Passed(p)
    BY <1>1
  <2>2. QED
    BY <2>1, PassedKeeps DEF Release
<1>2. CASE /\ releaseEvent' = {}
           /\ phase' = [p \in Packets |-> IF retryReq /\ phase[p] = "parked" THEN "unsent" ELSE phase[p]]
           /\ UNCHANGED <<pages, packetQueue, dequeueEvent, retryResp, drainState, found, mon, writers, taken>>
  <2>1. /\ phase' \in [Packets -> {"unsent", "parked", "sent", "done"}]
        /\ \A q \in Packets : phase[q] \in {"sent", "done"} => phase'[q] \in {"sent", "done"}
    BY <1>2 DEF HetInv, MemoryInv
  <2>2. retryReq' = FALSE /\ UNCHANGED <<system, now, answers, respRetryEvent, refusals, writersStopped>>
    BY DEF Release
  <2>3. WakeInv'
    BY <1>2, <2>2 DEF HetInv, WakeInv
  <2>4. QED
    BY <1>2, <2>1, <2>2, <2>3, WaitingKeeps
<1>3. QED
  BY <1>1, <1>2 DEF Release

\* The answer that is first goes, or is refused and is asked for again.
LEMMA AnswerKeeps ==
    ASSUME HetInv, packetQueue # <<>>, Answer(packetQueue[1].pkt), UNCHANGED <<system, now, taken, writersStopped>>
    PROVE  HetInv'
<1> PICK p : p = packetQueue[1].pkt
  OBVIOUS
<1>1. /\ now \in Nat /\ RetryDelay \in Nat /\ MaxRefusals \in Nat /\ refusals \in 0 .. MaxRefusals
      /\ phase \in [Packets -> {"unsent", "parked", "sent", "done"}] /\ packetQueue \in Seq(Waiting)
  BY TrafficAssumption DEF HetInv, WakeInv, MemoryInv, OrderInv
<1>2. CASE /\ refusals < MaxRefusals /\ AnswerRefused /\ refusals' = refusals + 1
           /\ respRetryEvent' = {now + RetryDelay} /\ UNCHANGED <<mon, writers, phase, answers>>
  <2>1. respRetryEvent' \in SUBSET Nat /\ respRetryEvent' # {} /\ refusals' \in 0 .. MaxRefusals
    BY <1>1, <1>2
  <2>2. (\E q \in Packets : phase[q] = "parked")' <=> \E q \in Packets : phase[q] = "parked"
    BY <1>2 DEF Packets
  <2>3. WakeInv'
    BY <1>2, <2>1, <2>2 DEF AnswerRefused, HetInv, WakeInv
  <2>4. QED
    BY <1>1, <1>2, <2>3, WaitingKeeps, TrafficSame DEF AnswerRefused
<1>3. CASE /\ AnswerTaken /\ phase' = [phase EXCEPT ![p] = "done"] /\ answers' = Append(answers, p)
           /\ respRetryEvent' = {} /\ UNCHANGED refusals
  <2> PICK n : n = Len(packetQueue)
    OBVIOUS
  <2>1. n \in Nat \ {0} /\ 1 \in DOMAIN packetQueue
    BY <1>1
  <2>2. packetQueue' = Tail(packetQueue) /\ UNCHANGED <<pages, releaseEvent, retryReq, found>> /\ retryResp' = FALSE
    BY <1>3 DEF AnswerTaken
  <2>3. phase[p] \in {"sent", "done"}
    BY <2>1 DEF HetInv, OrderInv, MemoryInv, Given
  <2>4. /\ phase' \in [Packets -> {"unsent", "parked", "sent", "done"}]
        /\ \A q \in Packets : phase[q] \in {"sent", "done"} => phase'[q] \in {"sent", "done"}
        /\ \A q \in Packets : phase[q] = "parked" => phase'[q] = "parked"
    BY <1>1, <1>3, <2>3
  <2>5. MemoryInv'
    BY <2>2, <2>4, QuietMemory, TrafficSame DEF HetInv
  <2>6. OrderInv'
    BY <1>3, <2>2, AnsweredOrder DEF HetInv
  <2>7. retryReq' => releaseEvent' # {} /\ (\E q \in Packets : phase[q] = "parked")'
    BY <2>2, <2>4 DEF HetInv, WakeInv, Packets
  <2>8. CASE n = 1
    <3>1. packetQueue' = <<>> /\ dequeueEvent' = {}
      <4>1. packetQueue' \in Seq(Waiting) /\ DOMAIN packetQueue' = 1 .. (n - 1)
        BY <1>1, <2>1, <2>2
      <4>2. packetQueue' = <<>>
        BY <2>8, <4>1
      <4>3. QED
        BY <1>3, <2>8, <4>2 DEF AnswerTaken
    <3>2. drainState' \in {"Running", "Draining", "Drained"} /\ drainState' # "Draining"
      BY <1>3, <2>8 DEF AnswerTaken, HetInv, WakeInv
    <3>3. WakeInv'
      BY <1>3, <2>2, <2>7, <3>1, <3>2 DEF HetInv, WakeInv
    <3>4. QED
      BY <2>5, <2>6, <3>3 DEF HetInv
  <2>9. CASE n # 1
    <3>1. 2 \in 1 .. n /\ packetQueue' # <<>> /\ packetQueue'[1] = packetQueue[2]
      <4>1. DOMAIN packetQueue' = 1 .. (n - 1) /\ \A i \in 1 .. (n - 1) : packetQueue'[i] = packetQueue[i + 1]
        BY <1>1, <2>1, <2>2
      <4>2. 2 \in 1 .. n /\ 1 \in 1 .. (n - 1) /\ 1 + 1 = 2
        BY <2>1, <2>9
      <4>3. QED
        BY <4>1, <4>2
    <3> PICK due : due = packetQueue[2].tick
      OBVIOUS
    <3>2. due \in Nat
      <4>1. packetQueue[2] \in Waiting
        BY <1>1, <3>1
      <4>2. QED
        BY <4>1 DEF Waiting
    <3> PICK next : next = IF due > now THEN due ELSE now
      OBVIOUS
    <3>3. dequeueEvent' = {next} /\ drainState' = drainState
      BY <1>3, <2>9 DEF AnswerTaken
    <3>4. next \in Nat /\ next >= due /\ next >= now
      BY <1>1, <3>2
    <3>5. (\A t \in dequeueEvent : t >= packetQueue[1].tick /\ t >= now)'
      BY <3>1, <3>3, <3>4
    <3>6. dequeueEvent' \in SUBSET Nat /\ dequeueEvent' # {}
      BY <3>3, <3>4
    <3>7. WakeInv'
      BY <1>3, <2>2, <2>7, <3>1, <3>3, <3>5, <3>6 DEF HetInv, WakeInv
    <3>8. QED
      BY <2>5, <2>6, <3>7 DEF HetInv
  <2>10. QED
    BY <2>8, <2>9
<1>4. QED
  BY <1>2, <1>3 DEF Answer

LEMMA RecvAtomicKeeps == ASSUME HetInv, NEW p \in Packets, RecvAtomic(p) PROVE HetInv'
<1>1. /\ phase[p] = "unsent" /\ Access(p) /\ phase' = [phase EXCEPT ![p] = "done"] /\ taken' = Append(taken, p)
      /\ UNCHANGED <<system, now, releaseEvent, retryReq, packetQueue, dequeueEvent, retryResp, drainState,
                       answers, respRetryEvent, refusals, writersStopped>>
  BY DEF RecvAtomic
<1>2. MemoryInv'
  BY <1>1, TakenMemory DEF HetInv
<1>3. OrderInv'
  BY <1>1, SameOrder DEF HetInv, MemoryInv
<1>4. retryReq' => (\E q \in Packets : phase[q] = "parked")'
  <2> SUFFICES ASSUME retryReq PROVE (\E q \in Packets : phase[q] = "parked")'
    BY <1>1
  <2>1. PICK q \in Packets : phase[q] = "parked"
    BY DEF HetInv, WakeInv
  <2>2. phase'[q] = "parked"
    BY <1>1, <2>1 DEF HetInv, MemoryInv
  <2>3. QED
    BY <1>1, <2>2 DEF Packets
<1>5. WakeInv'
  BY <1>1, <1>4 DEF HetInv, WakeInv
<1>6. QED
  BY <1>1, <1>2, <1>3, <1>5 DEF HetInv

\* Time does not pass an event.
LEMMA HetTickKeeps == ASSUME HetInv, HetTick PROVE HetInv'
<1> PICK next : next = Scheduled \cup IF now < LastSend /\ \E p \in Packets : phase[p] = "unsent" THEN {now + 1} ELSE {}
  OBVIOUS
<1>1. /\ next # {} /\ now' = Min(next)
      /\ UNCHANGED <<system, memVars, phase, answers, taken, respRetryEvent, refusals, writersStopped>>
  BY DEF HetTick
<1>2. next \in SUBSET Nat /\ dequeueEvent \subseteq next
  BY DEF Scheduled, HetInv, WakeInv
<1>3. now' \in Nat /\ \A t \in dequeueEvent : t >= now'
  <2>1. Min(next) \in next /\ \A t \in next : Min(next) <= t
    BY <1>1, <1>2, LeastOf
  <2>2. QED
    BY <1>1, <1>2, <2>1
<1>4. (\E q \in Packets : phase[q] = "parked")' <=> \E q \in Packets : phase[q] = "parked"
  BY <1>1 DEF Packets
<1>5. WakeInv'
  BY <1>1, <1>3, <1>4 DEF memVars, HetInv, WakeInv
<1>6. phase' \in [Packets -> {"unsent", "parked", "sent", "done"}]
  BY <1>1 DEF HetInv, MemoryInv
<1>7. QED
  BY <1>1, <1>5, <1>6, WaitingKeeps DEF memVars

\* What the trace's end, the mode and a drain change is nothing of the memory's traffic.
LEMMA ApartKeeps ==
    ASSUME HetInv, UNCHANGED <<system, now, pages, releaseEvent, retryReq, packetQueue, dequeueEvent, retryResp, found,
                               phase, answers, taken, respRetryEvent, refusals>>,
           drainState' \in {"Running", "Draining", "Drained"}, drainState' = "Draining" => packetQueue # <<>>,
           writersStopped' \in {"no", "closed", "killed"}
    PROVE  HetInv'
<1>1. (\E q \in Packets : phase[q] = "parked")' <=> \E q \in Packets : phase[q] = "parked"
  BY DEF Packets
<1>2. WakeInv'
  BY <1>1 DEF HetInv, WakeInv
<1>3. phase' \in [Packets -> {"unsent", "parked", "sent", "done"}]
  BY DEF HetInv, MemoryInv
<1>4. QED
  BY <1>2, <1>3, WaitingKeeps

LEMMA HetInitEstablishes == ASSUME HetInit PROVE HetInv
<1>1. /\ system \in Systems /\ now = 1 /\ answers = <<>> /\ taken = <<>> /\ packetQueue = <<>>
      /\ phase = [p \in Packets |-> "unsent"] /\ pages = [b \in AllBytes |-> 0] /\ found = [p \in Packets |-> <<>>]
      /\ respRetryEvent = {} /\ releaseEvent = {} /\ dequeueEvent = {} /\ refusals = 0
      /\ retryReq = FALSE /\ retryResp = FALSE /\ drainState = "Running" /\ writersStopped = "no"
  BY DEF HetInit, MemInit
<1>2. \A b : WritersOf(b) = {}
  BY <1>1 DEF WritersOf
<1>3. MemoryInv
  BY <1>1, <1>2 DEF MemoryInv, LastOf
<1>4. OrderInv
  BY <1>1 DEF OrderInv
<1>5. WakeInv
  <2>1. MaxRefusals \in Nat
    BY TrafficAssumption
  <2>2. refusals \in 0 .. MaxRefusals
    BY <1>1, <2>1
  <2>3. QED
    BY <1>1, <2>2 DEF WakeInv
<1>6. QED
  BY <1>1, <1>3, <1>4, <1>5 DEF HetInv

LEMMA HetNextKeeps == ASSUME HetInv, HetNext PROVE HetInv'
<1>1. CASE Release
  BY <1>1, ReleaseKeeps
<1>2. CASE Dequeue \/ RecvRespRetry
  <2>1. packetQueue # <<>> /\ Answer(packetQueue[1].pkt) /\ UNCHANGED <<system, now, taken, writersStopped>>
    BY <1>2 DEF Dequeue, RecvRespRetry, HetInv, WakeInv
  <2>2. QED
    BY <2>1, AnswerKeeps
<1>3. CASE HetTick
  BY <1>3, HetTickKeeps
<1>4. CASE SwitchMode \/ CloseTraces \/ Kill
  <2>1. /\ UNCHANGED <<system, now, memVars, phase, answers, taken, respRetryEvent, refusals>>
        /\ writersStopped' \in {writersStopped, "closed", "killed"}
    BY <1>4 DEF SwitchMode, CloseTraces, Kill
  <2>2. QED
    BY <2>1, ApartKeeps DEF memVars, HetInv, WakeInv
<1>5. CASE DrainMemory
  <2>1. /\ UNCHANGED <<system, now, pages, releaseEvent, retryReq, packetQueue, dequeueEvent, retryResp, found,
                      phase, answers, taken, respRetryEvent, refusals, writersStopped>>
        /\ drainState' = IF packetQueue = <<>> THEN "Drained" ELSE "Draining"
    BY <1>5 DEF DrainMemory, Drain
  <2>2. QED
    BY <2>1, ApartKeeps DEF HetInv, WakeInv
<1>6. CASE \E p \in Packets : Send(p) \/ RecvAtomic(p)
  BY <1>6, SendKeeps, RecvAtomicKeeps
<1>7. QED
  BY <1>1, <1>2, <1>3, <1>4, <1>5, <1>6 DEF HetNext, Progress

LEMMA HetInvIsEnough == ASSUME HetInv PROVE AnswersRight
<1>1. HetTypeOK
  BY DEF HetInv, WakeInv, MemoryInv, HetTypeOK
<1>2. ASSUME NEW p \in Packets, p \in Range(taken), NEW b \in BytesOf(p)
      PROVE  found[p][b] = LastOf(WritersBefore(p, b))
  BY <1>2 DEF Range, HetInv, MemoryInv
<1>3. \A i, j \in DOMAIN answers : i < j /\ MatchAddr(answers[i], answers[j]) =>
          \E k, l \in DOMAIN taken : k < l /\ taken[k] = answers[i] /\ taken[l] = answers[j]
  BY DEF HetInv, OrderInv, Before
<1>4. packetQueue # <<>> =>
          /\ (dequeueEvent # {}) # (respRetryEvent # {})
          /\ retryResp = (respRetryEvent # {})
          /\ dequeueEvent # {} => \A t \in dequeueEvent : t >= packetQueue[1].tick /\ t >= now
  BY DEF HetInv, WakeInv
<1>5. /\ retryReq => releaseEvent # {} /\ \E p \in Packets : phase[p] = "parked"
      /\ drainState = "Draining" => packetQueue # <<>>
  BY DEF HetInv, WakeInv
<1>6. QED
  BY <1>1, <1>2, <1>3, <1>4, <1>5 DEF AnswersRight, LastOf, WritersBefore

\* A read finds what was last written before the memory took it, answers to one address come in the
\* order of their requests, and an answer that waits has exactly one event or retry that brings it:
\* for any packets, latencies and refusals, and whenever the mode changes or the process ends.
THEOREM ReadsAndAnswers == HetSpec => []AnswersRight
<1>1. HetInit => HetInv
  BY HetInitEstablishes
<1>2. HetInv /\ [HetNext]_hetVars => HetInv'
  <2> SUFFICES ASSUME HetInv, [HetNext]_hetVars PROVE HetInv'
    OBVIOUS
  <2>1. CASE HetNext
    BY <2>1, HetNextKeeps
  <2>2. CASE UNCHANGED hetVars
    BY <2>2, ApartKeeps DEF hetVars, memVars, HetInv, WakeInv
  <2>3. QED
    BY <2>1, <2>2
<1>3. HetInv => AnswersRight
  BY HetInvIsEnough
<1>4. QED
  BY <1>1, <1>2, <1>3, PTL DEF HetSpec

=============================================================================
