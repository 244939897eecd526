--------------------------- MODULE BackendProofs ---------------------------
(***************************************************************************)
(* The mem_sim backend, for any window, granule, kinds of burst, number of    *)
(* slots, time a burst is held, FIFO depths and number of bursts.             *)
(*                                                                         *)
(* LedgerInv: the ledgers of the backend and of mem_sim agree.  A burst has   *)
(* as many children as it has pending, and they carry disjoint parts of what   *)
(* it has sent.  The numbers of children are below next_mem, and a number that *)
(* was refused is kept by its burst alone.  Those of bursts are distinct, and  *)
(* what waits in the FIFO is younger than what is held.                       *)
(*                                                                         *)
(* With it every step of a round is a step of BurstMemory or none: a request  *)
(* taken changes the image and what is held by what the request says, whatever *)
(* is still to be sent; sending and merging change neither, for an older burst *)
(* is sent in full before a younger one; only the oldest burst is answered,    *)
(* with what it wants.                                                       *)
(***************************************************************************)
EXTENDS MemSimBackend, FiniteSetTheorems, SequenceTheorems, WellFoundedInduction, TLAPS

-----------------------------------------------------------------------------
(* The ledgers                                                               *)

Statuses == {"ok", "slverr", "decerr"}
Data == UNION {[0 .. (k.length - 1) -> Nat] : k \in Kinds}
HeldBursts == [n: Nat, kind: Kinds, status: Statuses, pending: Nat, candidate: Nat, sent: Nat, data: Data]
Requests == [n: Nat, kind: Kinds]
Answers == [n: Nat, status: Statuses, data: Data \cup {<<>>}]

Shape(s) ==
    /\ s \in [be: {s.be}, mem: {s.mem}, request: {s.request}, response: {s.response}]
    /\ s.be \in [bursts: {s.be.bursts}, children: {s.be.children}, next_mem: {s.be.next_mem}, held: {s.be.held}, ok: BOOLEAN]
    /\ s.mem \in [image: {s.mem.image}, live: {s.mem.live}]

Of(ch, n) == {c \in DOMAIN ch : ch[c].n = n}
From(ch, c) == ch[c].offset
To(ch, c) == ch[c].offset + ch[c].bytes

Typed(s) ==
    /\ Shape(s) /\ s.be.ok
    /\ s.be.bursts \in Seq(HeldBursts) /\ Len(s.be.bursts) <= Slots
    /\ s.be.next_mem \in Nat \ {0} /\ s.be.held \in {NotHeld} \cup 0 .. Hold
    /\ s.request \in Seq(Requests) /\ Len(s.request) <= InDepth
    /\ s.response \in Seq(Answers) /\ Len(s.response) <= OutDepth
    /\ s.mem.image \in [Window -> Nat]

\* A child c of the backend is live in mem_sim with as many bytes.
Child(x, l) ==
    /\ x \in [n: Nat, offset: Nat, bytes: Nat \ {0}] /\ l.bytes = x.bytes
    /\ \A o \in 0 .. (x.bytes - 1) : l.data[o] \in Nat

\* Every child is live in mem_sim, and one of a burst that is held.
Paired(bs, ch, nm, lv) ==
    /\ IsFiniteSet(DOMAIN ch) /\ DOMAIN ch \subseteq 1 .. (nm - 1) /\ DOMAIN lv = DOMAIN ch
    /\ \A c \in DOMAIN ch : Child(ch[c], lv[c])
    /\ \A c \in DOMAIN ch : \E i \in DOMAIN bs : bs[i].n = ch[c].n

\* A burst's children lie in what it has sent, as many as it has pending; and an error sends nothing.
Sound(b, ch, nm) ==
    /\ b.sent <= b.kind.length /\ (b.sent < b.kind.length => Status(b.kind) = "ok")
    /\ Status(b.kind) # "ok" => b.status # "ok"
    /\ b.data \in [0 .. (b.kind.length - 1) -> Nat]
    /\ b.candidate # 0 => b.candidate < nm /\ b.candidate \notin DOMAIN ch
    /\ Cardinality(Of(ch, b.n)) = b.pending
    /\ \A c \in Of(ch, b.n) : To(ch, c) <= b.sent
AllSound(bs, ch, nm) == \A i \in DOMAIN bs : Sound(bs[i], ch, nm)

\* The parts two children of a burst carry; the numbers of two bursts.
Disjoint(ch, c, d) == c # d /\ ch[c].n = ch[d].n => To(ch, c) <= From(ch, d) \/ To(ch, d) <= From(ch, c)
Distinct(b, e) == b.n # e.n /\ (b.candidate = 0 \/ b.candidate # e.candidate)
Apart(bs, ch) ==
    /\ \A c, d \in DOMAIN ch : Disjoint(ch, c, d)
    /\ \A i, j \in DOMAIN bs : i # j => Distinct(bs[i], bs[j])

\* The numbers of bursts, of those that wait after those that are held.
Numbered(bs, rq, m) ==
    /\ \A i \in DOMAIN bs : bs[i].n \in 1 .. m
    /\ \A j \in DOMAIN rq : rq[j].n \in 1 .. m
    /\ \A i \in DOMAIN bs, j \in DOMAIN rq : bs[i].n < rq[j].n
    /\ \A i, j \in DOMAIN rq : i < j => rq[i].n < rq[j].n

Books(bs, ch, nm, lv) ==
    /\ bs \in Seq(HeldBursts) /\ nm \in Nat \ {0}
    /\ Paired(bs, ch, nm, lv) /\ AllSound(bs, ch, nm) /\ Apart(bs, ch)

Ledger(s, m) ==
    /\ Typed(s) /\ Books(s.be.bursts, s.be.children, s.be.next_mem, s.mem.live)
    /\ Numbered(s.be.bursts, s.request, m)

LEMMA AcceptIs ==
    ASSUME NEW s, Shape(s), s.request # <<>>, HasRoom(s.be)
    PROVE  /\ Shape(Accept(s))
           /\ Accept(s).be.bursts = Append(s.be.bursts, BurstOf(Head(s.request)))
           /\ Accept(s).be.children = s.be.children /\ Accept(s).be.next_mem = s.be.next_mem
           /\ Accept(s).be.held = s.be.held /\ Accept(s).be.ok = s.be.ok
           /\ Accept(s).mem = s.mem /\ Accept(s).request = Tail(s.request) /\ Accept(s).response = s.response
BY DEF Accept, Shape

\* The number burst i offers its next piece under, and the next number unused then.
NextId(s, i) == IF s.be.bursts[i].candidate = 0 THEN s.be.next_mem ELSE s.be.bursts[i].candidate
NextMem(s, i) == IF s.be.bursts[i].candidate = 0 THEN s.be.next_mem + 1 ELSE s.be.next_mem

LEMMA RefusedIs ==
    ASSUME NEW s, Shape(s), NEW i \in DOMAIN s.be.bursts
    PROVE  LET t == Offered(s, i, NextId(s, i), FALSE) IN
           /\ Shape(t)
           /\ t.be.bursts = [s.be.bursts EXCEPT ![i] = AfterOffer(s.be.bursts[i], NextId(s, i), FALSE)]
           /\ t.be.children = s.be.children /\ t.be.next_mem = NextMem(s, i) /\ t.be.held = s.be.held
           /\ (t.be.ok <=> s.be.ok /\ Legal(s.mem, s.be.bursts[i], NextId(s, i)))
           /\ t.mem = s.mem /\ t.request = s.request /\ t.response = s.response
BY DEF Offered, Shape, NextMem

LEMMA SubmittedIs ==
    ASSUME NEW s, Shape(s), NEW i \in DOMAIN s.be.bursts
    PROVE  LET t == Offered(s, i, NextId(s, i), TRUE)
               b == s.be.bursts[i]
               id == NextId(s, i)
           IN  /\ Shape(t)
               /\ t.be.bursts = [s.be.bursts EXCEPT ![i] = AfterOffer(b, id, TRUE)]
               /\ t.be.children = [c \in DOMAIN s.be.children \cup {id} |->
                                      IF c # id THEN s.be.children[c]
                                      ELSE [n |-> b.n, offset |-> b.sent, bytes |-> Piece(b)]]
               /\ t.be.next_mem = NextMem(s, i) /\ t.be.held = s.be.held
               /\ (t.be.ok <=> s.be.ok /\ Legal(s.mem, b, id))
               /\ t.mem = Stored(s.mem, b, id) /\ t.request = s.request /\ t.response = s.response
BY DEF Offered, Shape, NextMem, Stored

\* What the completions ids make of the state.
CompletedTo(s, t, ids, failing) ==
    /\ Shape(t)
    /\ t.be.bursts = [i \in DOMAIN s.be.bursts |-> t.be.bursts[i]]
    /\ \A i \in DOMAIN s.be.bursts :
          t.be.bursts[i] = Merged(s.be.bursts[i], s.be.children, s.mem.live,
                                  Of(s.be.children, s.be.bursts[i].n) \cap ids, failing)
    /\ t.be.children = [c \in DOMAIN s.be.children \ ids |-> s.be.children[c]]
    /\ t.be.next_mem = s.be.next_mem /\ t.be.held = s.be.held
    /\ t.be.ok <=> s.be.ok /\ \A c \in ids : s.mem.live[c].bytes = s.be.children[c].bytes
    /\ t.mem.image = s.mem.image
    /\ t.mem.live = [c \in DOMAIN s.mem.live \ ids |-> s.mem.live[c]]
    /\ t.request = s.request /\ t.response = s.response

LEMMA CompleteIs ==
    ASSUME NEW s, Shape(s), NEW ids \in SUBSET DOMAIN s.be.children, NEW failing
    PROVE  CompletedTo(s, Complete(s, ids, failing), ids, failing)
<1> DEFINE of(b) == {c \in ids \cap DOMAIN s.be.children : s.be.children[c].n = b.n}
           t == Complete(s, ids, failing)
           cs == [i \in DOMAIN s.be.bursts |->
                     Merged(s.be.bursts[i], s.be.children, s.mem.live, of(s.be.bursts[i]), failing)]
<1>1. \A b : of(b) = Of(s.be.children, b.n) \cap ids
  BY DEF Of
<1>2. /\ Shape(t) /\ t.be.bursts = cs
      /\ t.be.children = [c \in DOMAIN s.be.children \ ids |-> s.be.children[c]]
      /\ t.be.next_mem = s.be.next_mem /\ t.be.held = s.be.held
      /\ (t.be.ok <=> s.be.ok /\ \A c \in ids : c \in ids \cap DOMAIN s.be.children
                                                /\ s.mem.live[c].bytes = s.be.children[c].bytes)
      /\ t.mem.image = s.mem.image
      /\ t.mem.live = [c \in DOMAIN s.mem.live \ ids |-> s.mem.live[c]]
      /\ t.request = s.request /\ t.response = s.response
  BY DEF Complete, Shape
<1>3. \A c \in ids : c \in DOMAIN s.be.children
  OBVIOUS
<1> HIDE DEF t, of
<1>4. /\ cs = [i \in DOMAIN s.be.bursts |-> cs[i]]
      /\ \A i \in DOMAIN s.be.bursts :
            cs[i] = Merged(s.be.bursts[i], s.be.children, s.mem.live,
                           Of(s.be.children, s.be.bursts[i].n) \cap ids, failing)
  BY <1>1
<1> HIDE DEF cs
<1>5. QED
  BY <1>2, <1>3, <1>4, Zenon DEF CompletedTo, t

LEMMA ReturnedIs ==
    ASSUME NEW s, Shape(s), s.be.bursts # <<>>, Finished(Head(s.be.bursts)),
           HeldAfter(s.be.held) >= Hold, Len(s.response) < OutDepth
    PROVE  LET t == ReturnOldest(s)
           IN  /\ Shape(t)
               /\ t.be.bursts = Tail(s.be.bursts) /\ t.be.children = s.be.children
               /\ t.be.next_mem = s.be.next_mem /\ t.be.held = NotHeld /\ (t.be.ok <=> s.be.ok)
               /\ t.mem = s.mem /\ t.request = s.request
               /\ t.response = Append(s.response, Answer(Head(s.be.bursts)))
BY DEF ReturnOldest, Shape

LEMMA HeldIs ==
    ASSUME NEW s, Shape(s), s.be.bursts # <<>>, Finished(Head(s.be.bursts)),
           ~(HeldAfter(s.be.held) >= Hold /\ Len(s.response) < OutDepth)
    PROVE  LET t == ReturnOldest(s)
           IN  /\ Shape(t)
               /\ t.be.bursts = s.be.bursts /\ t.be.children = s.be.children
               /\ t.be.next_mem = s.be.next_mem /\ t.be.held = HeldAfter(s.be.held) /\ (t.be.ok <=> s.be.ok)
               /\ t.mem = s.mem /\ t.request = s.request /\ t.response = s.response
BY DEF ReturnOldest, Shape

LEMMA SameGranule ==
    ASSUME NEW a \in Nat, NEW g \in Nat \ {0}, NEW p \in Nat \ {0}, p <= g - (a % g)
    PROVE  a \div g = (a + p - 1) \div g
<1> DEFINE x == a + p - 1
           q == a \div g
           r == x \div g
<1>1. x \in Nat /\ q \in Int /\ r \in Int
  OBVIOUS
<1>2. a = g * q + (a % g) /\ a % g \in 0 .. (g - 1)
  OBVIOUS
<1>3. x = g * r + (x % g) /\ x % g \in 0 .. (g - 1)
  BY <1>1
<1>4. g * q <= x /\ x < g * q + g
  BY <1>1, <1>2
<1>5. g * r <= x /\ x < g * r + g
  BY <1>1, <1>3
<1> HIDE DEF q, r, x
<1>6. g * q < g * (r + 1) /\ g * r < g * (q + 1)
  BY <1>1, <1>4, <1>5
<1>7. q < r + 1 /\ r < q + 1
  BY <1>1, <1>6
<1>8. q = r
  BY <1>1, <1>7
<1>9. QED
  BY <1>8 DEF q, r, x

LEMMA KindFacts ==
    ASSUME NEW k \in Kinds
    PROVE  /\ k.addr \in Nat /\ k.length \in Nat \ {0} /\ Status(k) \in Statuses
           /\ Status(k) = "ok" => k.addr + k.length <= Size
BY BackendAssumption DEF Status, Statuses

LEMMA PieceFacts ==
    ASSUME NEW b \in HeldBursts, b.sent < b.kind.length
    PROVE  /\ Piece(b) \in Nat \ {0} /\ b.sent + Piece(b) <= b.kind.length
           /\ Piece(b) <= Granule /\ Address(b) \in Nat /\ Address(b) = b.kind.addr + b.sent
           /\ Address(b) \div Granule = (Address(b) + Piece(b) - 1) \div Granule
<1>1. b.kind.addr \in Nat /\ b.kind.length \in Nat \ {0} /\ b.sent \in Nat /\ Granule \in Nat \ {0}
  BY KindFacts, BackendAssumption DEF HeldBursts
<1> PICK a : a = Address(b)
  OBVIOUS
<1>2. a \in Nat /\ a = b.kind.addr + b.sent
  BY <1>1 DEF Address
<1>3. a % Granule \in 0 .. (Granule - 1)
  BY <1>1, <1>2
<1> PICK e : e = ToGranuleEnd(b)
  OBVIOUS
<1>4. e = Granule - (a % Granule) /\ e \in Nat \ {0} /\ e <= Granule
  BY <1>1, <1>3 DEF ToGranuleEnd
<1> PICK p : p = Piece(b)
  OBVIOUS
<1>5. p \in Nat \ {0} /\ p <= e /\ b.sent + p <= b.kind.length
  BY <1>1, <1>4 DEF Piece
<1>6. a \div Granule = (a + p - 1) \div Granule
  BY <1>1, <1>2, <1>4, <1>5, SameGranule
<1>7. QED
  BY <1>1, <1>2, <1>4, <1>5, <1>6

LEMMA BurstFacts ==
    ASSUME NEW q \in Requests
    PROVE  LET b == BurstOf(q)
           IN  /\ b \in HeldBursts /\ b.n = q.n /\ b.kind = q.kind /\ b.candidate = 0 /\ b.pending = 0
               /\ b.status = Status(q.kind) /\ b.data \in [0 .. (q.kind.length - 1) -> Nat]
               /\ b.sent = IF Status(q.kind) = "ok" THEN 0 ELSE q.kind.length
<1> PICK k, n : k = q.kind /\ n = q.n
  OBVIOUS
<1>1. k \in Kinds /\ n \in Nat /\ k.length \in Nat /\ Status(k) \in Statuses
  BY KindFacts DEF Requests
<1> PICK d : d = [o \in 0 .. (k.length - 1) |-> 0]
  OBVIOUS
<1>2. d \in [0 .. (k.length - 1) -> Nat]
  OBVIOUS
<1>3. d \in Data
  BY <1>1, <1>2 DEF Data
<1> PICK sent : sent = IF Status(k) = "ok" THEN 0 ELSE k.length
  OBVIOUS
<1>4. BurstOf(q) = [n |-> n, kind |-> k, status |-> Status(k), pending |-> 0, candidate |-> 0, sent |-> sent, data |-> d]
  BY DEF BurstOf
<1>5. sent \in Nat
  BY <1>1
<1>6. QED
  BY <1>1, <1>2, <1>3, <1>4, <1>5 DEF HeldBursts

LEMMA LeastOf ==
    ASSUME NEW T \in SUBSET Nat, T # {}
    PROVE  Min(T) \in T /\ \A y \in T : Min(T) <= y
<1>1. PICK x \in T : \A y \in T : ~(<<y, x>> \in OpToRel(<, Nat))
  BY NatLessThanWellFounded, WFMin
<1>2. ASSUME NEW y \in T PROVE x <= y
  <2>1. x \in Nat /\ y \in Nat
    OBVIOUS
  <2>2. y < x => <<y, x>> \in OpToRel(<, Nat)
    BY <2>1 DEF OpToRel
  <2>3. ~(y < x)
    BY <1>1, <2>2
  <2>4. QED
    BY <2>1, <2>3
<1>3. QED
  BY <1>2 DEF Min

-----------------------------------------------------------------------------
(* The books are kept                                                        *)

LEMMA BurstAt ==
    ASSUME NEW bs, NEW ch, NEW nm, NEW lv, Books(bs, ch, nm, lv), NEW j \in DOMAIN bs
    PROVE  /\ bs[j] \in HeldBursts /\ Sound(bs[j], ch, nm)
           /\ bs[j].candidate \in Nat /\ bs[j].n \in Nat /\ bs[j].sent \in Nat /\ bs[j].pending \in Nat
<1>1. bs \in Seq(HeldBursts) /\ Sound(bs[j], ch, nm)
  BY DEF Books, AllSound
<1> PICK x : x = bs[j]
  OBVIOUS
<1>2. x \in HeldBursts
  BY <1>1
<1>3. x.candidate \in Nat /\ x.n \in Nat /\ x.sent \in Nat /\ x.pending \in Nat
  BY <1>2 DEF HeldBursts
<1>4. QED
  BY <1>1, <1>2, <1>3

LEMMA AppendBooks ==
    ASSUME NEW bs, NEW ch, NEW nm, NEW lv, Books(bs, ch, nm, lv),
           NEW b \in HeldBursts, Sound(b, ch, nm), b.candidate = 0,
           \A i \in DOMAIN bs : bs[i].n # b.n
    PROVE  Books(Append(bs, b), ch, nm, lv)
<1> PICK n : n = Len(bs)
  OBVIOUS
<1> PICK cs : cs = Append(bs, b)
  OBVIOUS
<1>1. bs \in Seq(HeldBursts) /\ n \in Nat /\ DOMAIN bs = 1 .. n
  BY DEF Books
<1>2. /\ cs \in Seq(HeldBursts) /\ DOMAIN cs = 1 .. (n + 1) /\ cs[n + 1] = b
      /\ \A i \in 1 .. n : i \in 1 .. (n + 1) /\ cs[i] = bs[i]
  BY <1>1
<1>3. \A i \in 1 .. (n + 1) : i = n + 1 \/ i \in 1 .. n
  BY <1>1
<1>4. Paired(cs, ch, nm, lv)
  BY <1>1, <1>2 DEF Books, Paired
<1>5. AllSound(cs, ch, nm)
  BY <1>1, <1>2, <1>3 DEF Books, AllSound
<1>6. ASSUME NEW i \in 1 .. (n + 1), NEW j \in 1 .. (n + 1), i # j PROVE Distinct(cs[i], cs[j])
  <2>1. CASE i = n + 1
    <3>1. j \in 1 .. n
      BY <1>3, <1>6, <2>1
    <3>2. cs[i] = b /\ cs[j] = bs[j] /\ bs[j].n # b.n
      BY <1>1, <1>2, <2>1, <3>1
    <3>3. QED
      BY <3>2 DEF Distinct
  <2>2. CASE j = n + 1
    <3>1. i \in 1 .. n
      BY <1>3, <1>6, <2>2
    <3>2. cs[j] = b /\ cs[i] = bs[i] /\ bs[i].n # b.n
      BY <1>1, <1>2, <2>2, <3>1
    <3>3. QED
      BY <3>2 DEF Distinct
  <2>3. CASE i # n + 1 /\ j # n + 1
    <3>1. i \in 1 .. n /\ j \in 1 .. n
      BY <1>3, <2>3
    <3>2. Distinct(bs[i], bs[j])
      BY <1>1, <1>6, <3>1 DEF Books, Apart
    <3>3. QED
      BY <1>2, <3>1, <3>2
  <2>4. QED
    BY <2>1, <2>2, <2>3
<1>7. Apart(cs, ch)
  BY <1>2, <1>6 DEF Books, Apart
<1>8. QED
  BY <1>2, <1>4, <1>5, <1>7 DEF Books

\* Burst i takes the number of the piece that was refused.
LEMMA RefusedBooks ==
    ASSUME NEW bs, NEW ch, NEW nm, NEW lv, Books(bs, ch, nm, lv), NEW i \in DOMAIN bs,
           NEW next \in Nat \ {0}, nm <= next, NEW id \in Nat \ {0}, id < next, id \notin DOMAIN ch,
           \A j \in DOMAIN bs : j # i => bs[j].candidate # id
    PROVE  Books([bs EXCEPT ![i] = [@ EXCEPT !.candidate = id]], ch, next, lv)
<1> PICK n : n = Len(bs)
  OBVIOUS
<1> PICK e : e = [bs[i] EXCEPT !.candidate = id]
  OBVIOUS
<1> PICK cs : cs = [bs EXCEPT ![i] = e]
  OBVIOUS
<1>1. bs \in Seq(HeldBursts) /\ n \in Nat /\ DOMAIN bs = 1 .. n /\ nm \in Nat \ {0}
  BY DEF Books
<1>2. bs[i] \in HeldBursts
  BY <1>1
<1>3. /\ e \in HeldBursts /\ e.n = bs[i].n /\ e.kind = bs[i].kind /\ e.sent = bs[i].sent /\ e.pending = bs[i].pending
      /\ e.status = bs[i].status /\ e.data = bs[i].data /\ e.candidate = id
  BY <1>2 DEF HeldBursts
<1>4. /\ cs \in Seq(HeldBursts) /\ DOMAIN cs = 1 .. n /\ cs[i] = e
      /\ \A j \in 1 .. n : j # i => cs[j] = bs[j]
  BY <1>1, <1>3, ExceptSeq
<1>5. \A j \in 1 .. n : cs[j].n = bs[j].n
  BY <1>3, <1>4
<1>6. Paired(cs, ch, next, lv)
  <2>1. DOMAIN ch \subseteq 1 .. (next - 1)
    BY <1>1 DEF Books, Paired
  <2>2. \A c \in DOMAIN ch : \E j \in DOMAIN cs : cs[j].n = ch[c].n
    BY <1>1, <1>4, <1>5 DEF Books, Paired
  <2>3. QED
    BY <2>1, <2>2 DEF Books, Paired
<1>7. ASSUME NEW j \in 1 .. n PROVE Sound(cs[j], ch, next)
  <2>1. Sound(bs[j], ch, nm) /\ bs[j] \in HeldBursts /\ bs[j].candidate \in Nat
    BY <1>1, BurstAt
  <2>2. Sound(bs[j], ch, next)
    <3> PICK x : x = bs[j]
      OBVIOUS
    <3>1. x.candidate # 0 => x.candidate < next /\ x.candidate \notin DOMAIN ch
      BY <1>1, <2>1 DEF Sound
    <3>2. Sound(x, ch, next)
      BY <2>1, <3>1 DEF Sound
    <3>3. QED
      BY <3>2
  <2>3. CASE j = i
    <3>1. Sound(e, ch, next)
      BY <1>3, <2>2, <2>3 DEF Sound
    <3>2. QED
      BY <1>4, <2>3, <3>1
  <2>4. CASE j # i
    BY <1>4, <2>2, <2>4
  <2>5. QED
    BY <2>3, <2>4
<1>8. ASSUME NEW j \in 1 .. n, NEW k \in 1 .. n, j # k PROVE Distinct(cs[j], cs[k])
  <2>1. Distinct(bs[j], bs[k])
    BY <1>1, <1>8 DEF Books, Apart
  <2>2. CASE j = i
    BY <1>1, <1>3, <1>4, <1>8, <2>1, <2>2 DEF Distinct
  <2>3. CASE k = i
    BY <1>1, <1>3, <1>4, <1>8, <2>1, <2>3 DEF Distinct
  <2>4. CASE j # i /\ k # i
    BY <1>4, <2>1, <2>4
  <2>5. QED
    BY <2>2, <2>3, <2>4
<1>9. AllSound(cs, ch, next) /\ Apart(cs, ch)
  BY <1>4, <1>7, <1>8 DEF Books, AllSound, Apart
<1>10. QED
  BY <1>4, <1>6, <1>9 DEF Books

\* The online interface finds nothing wrong with the piece, and its number is nobody else's.
LEMMA OfferIsLegal ==
    ASSUME NEW s, NEW m \in Nat, Ledger(s, m), NEW i \in DOMAIN s.be.bursts,
           s.be.bursts[i].sent < s.be.bursts[i].kind.length
    PROVE  /\ Legal(s.mem, s.be.bursts[i], NextId(s, i))
           /\ NextId(s, i) \in Nat \ {0} /\ NextId(s, i) \notin DOMAIN s.be.children
           /\ NextId(s, i) < NextMem(s, i) /\ NextMem(s, i) \in Nat \ {0} /\ s.be.next_mem <= NextMem(s, i)
           /\ \A j \in DOMAIN s.be.bursts : j # i => s.be.bursts[j].candidate # NextId(s, i)
<1> PICK b : b = s.be.bursts[i]
  OBVIOUS
<1> PICK id : id = NextId(s, i)
  OBVIOUS
<1>1. s.be.bursts \in Seq(HeldBursts) /\ s.be.next_mem \in Nat \ {0} /\ s.be.ok
  BY DEF Ledger, Typed
<1>2. b \in HeldBursts /\ b.sent < b.kind.length
  BY <1>1
<1>3. id = IF b.candidate = 0 THEN s.be.next_mem ELSE b.candidate
  BY DEF NextId
<1>4. Sound(b, s.be.children, s.be.next_mem) /\ b.candidate \in Nat
  BY <1>2 DEF Ledger, Books, AllSound, HeldBursts
<1>5. DOMAIN s.be.children \subseteq 1 .. (s.be.next_mem - 1) /\ DOMAIN s.mem.live = DOMAIN s.be.children
  BY DEF Ledger, Books, Paired
<1>6. /\ id \in Nat \ {0} /\ id \notin DOMAIN s.be.children
      /\ id < NextMem(s, i) /\ NextMem(s, i) \in Nat \ {0} /\ s.be.next_mem <= NextMem(s, i)
  BY <1>1, <1>3, <1>4, <1>5 DEF Sound, NextMem
<1>7. ASSUME NEW j \in DOMAIN s.be.bursts, j # i PROVE s.be.bursts[j].candidate # id
  <2> PICK x : x = s.be.bursts[j]
    OBVIOUS
  <2>1. x \in HeldBursts
    BY <1>1
  <2>2. Sound(x, s.be.children, s.be.next_mem) /\ x.candidate \in Nat
    BY <2>1 DEF Ledger, Books, AllSound, HeldBursts
  <2>3. b.candidate = 0 \/ b.candidate # x.candidate
    BY <1>7 DEF Ledger, Books, Apart, Distinct
  <2>4. QED
    BY <1>1, <1>3, <2>2, <2>3 DEF Sound
<1>8. Status(b.kind) = "ok"
  BY <1>2, <1>4 DEF Sound
<1>9. b.kind.addr \in Nat /\ b.kind.length \in Nat /\ b.kind.addr + b.kind.length <= Size /\ b.sent \in Nat
  BY <1>2, <1>8, KindFacts DEF HeldBursts
<1>10. /\ Piece(b) \in Nat \ {0} /\ b.sent + Piece(b) <= b.kind.length
       /\ Piece(b) <= Granule /\ Address(b) \in Nat /\ Address(b) = b.kind.addr + b.sent
       /\ Address(b) \div Granule = (Address(b) + Piece(b) - 1) \div Granule
  BY <1>2, PieceFacts
<1>11. Address(b) + Piece(b) <= Size
  BY <1>9, <1>10, BackendAssumption
<1>12. Legal(s.mem, b, id)
  BY <1>5, <1>6, <1>10, <1>11 DEF Legal
<1>13. QED
  BY <1>6, <1>7, <1>12

\* Burst i, now e, has sent its next p bytes under the number id: ch2 and lv2 have the child.
Sends(bs, ch, nm, lv, i, id, next, p, e, ch2, lv2) ==
    /\ i \in DOMAIN bs /\ p \in Nat \ {0} /\ bs[i].sent + p <= bs[i].kind.length /\ bs[i].sent < bs[i].kind.length
    /\ next \in Nat \ {0} /\ nm <= next /\ id \in Nat \ {0} /\ id < next /\ id \notin DOMAIN ch
    /\ \A j \in DOMAIN bs : j # i => bs[j].candidate # id
    /\ e \in HeldBursts /\ e.n = bs[i].n /\ e.kind = bs[i].kind /\ e.sent = bs[i].sent + p
    /\ e.pending = bs[i].pending + 1 /\ e.status = bs[i].status /\ e.data = bs[i].data /\ e.candidate = 0
    /\ DOMAIN ch2 = DOMAIN ch \cup {id} /\ \A c \in DOMAIN ch : ch2[c] = ch[c]
    /\ ch2[id] = [n |-> bs[i].n, offset |-> bs[i].sent, bytes |-> p]
    /\ DOMAIN lv2 = DOMAIN ch \cup {id} /\ \A c \in DOMAIN ch : lv2[c] = lv[c]
    /\ Child(ch2[id], lv2[id])

LEMMA SentBooks ==
    ASSUME NEW bs, NEW ch, NEW nm, NEW lv, Books(bs, ch, nm, lv),
           NEW i, NEW id, NEW next, NEW p, NEW e, NEW ch2, NEW lv2,
           Sends(bs, ch, nm, lv, i, id, next, p, e, ch2, lv2)
    PROVE  Books([bs EXCEPT ![i] = e], ch2, next, lv2)
<1> PICK cs : cs = [bs EXCEPT ![i] = e]
  OBVIOUS
<1>0. /\ i \in DOMAIN bs /\ p \in Nat \ {0} /\ bs[i].sent + p <= bs[i].kind.length /\ bs[i].sent < bs[i].kind.length
      /\ next \in Nat \ {0} /\ nm <= next /\ id \in Nat \ {0} /\ id < next /\ id \notin DOMAIN ch
      /\ \A j \in DOMAIN bs : j # i => bs[j].candidate # id
  BY DEF Sends
<1>16. DOMAIN lv2 = DOMAIN ch \cup {id} /\ (\A c \in DOMAIN ch : lv2[c] = lv[c]) /\ Child(ch2[id], lv2[id])
  BY DEF Sends
<1> PICK n : n = Len(bs)
  OBVIOUS
<1> PICK b : b = bs[i]
  OBVIOUS
<1>1. bs \in Seq(HeldBursts) /\ n \in Nat /\ DOMAIN bs = 1 .. n /\ nm \in Nat \ {0} /\ i \in 1 .. n
  BY <1>0 DEF Books
<1>2. b \in HeldBursts
  BY <1>1
<1>3. /\ e \in HeldBursts /\ e.n = b.n /\ e.kind = b.kind /\ e.sent = b.sent + p /\ e.pending = b.pending + 1
      /\ e.status = b.status /\ e.data = b.data /\ e.candidate = 0
  BY DEF Sends
<1>4. /\ cs \in Seq(HeldBursts) /\ DOMAIN cs = 1 .. n /\ cs[i] = e
      /\ \A j \in 1 .. n : j # i => cs[j] = bs[j]
  BY <1>1, <1>3, ExceptSeq
<1>5. \A j \in 1 .. n : cs[j].n = bs[j].n
  BY <1>3, <1>4
<1>6. /\ DOMAIN ch2 = DOMAIN ch \cup {id}
      /\ \A c \in DOMAIN ch : ch2[c] = ch[c]
      /\ ch2[id] = [n |-> b.n, offset |-> b.sent, bytes |-> p]
  BY DEF Sends
<1>7. Paired(cs, ch2, next, lv2)
  <2>1. DOMAIN ch2 \subseteq 1 .. (next - 1)
    BY <1>0, <1>1, <1>6 DEF Books, Paired
  <2>2. IsFiniteSet(DOMAIN ch2)
    BY <1>6, FS_AddElement DEF Books, Paired
  <2>3. ASSUME NEW c \in DOMAIN ch2 PROVE Child(ch2[c], lv2[c]) /\ \E j \in 1 .. n : cs[j].n = ch2[c].n
    <3>1. CASE c = id
      BY <1>0, <1>1, <1>4, <1>3, <1>6, <1>16, <3>1
    <3>2. CASE c # id
      <4>1. c \in DOMAIN ch /\ ch2[c] = ch[c] /\ lv2[c] = lv[c]
        BY <1>6, <1>16, <3>2
      <4>2. Child(ch[c], lv[c]) /\ \E j \in 1 .. n : bs[j].n = ch[c].n
        BY <1>1, <4>1 DEF Books, Paired
      <4>3. QED
        BY <1>5, <4>1, <4>2
    <3>3. QED
      BY <3>1, <3>2
  <2>4. \A c \in DOMAIN ch2 : Child(ch2[c], lv2[c])
    BY <2>3
  <2>5. \A c \in DOMAIN ch2 : \E j \in DOMAIN cs : cs[j].n = ch2[c].n
    BY <1>4, <2>3
  <2>6. DOMAIN lv2 = DOMAIN ch2
    BY <1>6, <1>16
  <2>7. QED
    BY <2>1, <2>2, <2>4, <2>5, <2>6 DEF Paired
<1>8. /\ Sound(b, ch, nm)
      /\ \A c \in DOMAIN ch : ch[c].n = b.n => To(ch, c) <= b.sent
      /\ IsFiniteSet(DOMAIN ch)
  BY <1>1 DEF Books, AllSound, Sound, Paired, Of
<1>9. \A c \in DOMAIN ch : From(ch2, c) = From(ch, c) /\ To(ch2, c) = To(ch, c)
  BY <1>6 DEF From, To
<1>10. From(ch2, id) = b.sent /\ To(ch2, id) = b.sent + p /\ ch2[id].n = b.n
  BY <1>6 DEF From, To
<1>11. ASSUME NEW j \in 1 .. n PROVE Sound(cs[j], ch2, next)
  <2> PICK x : x = bs[j]
    OBVIOUS
  <2>1. Sound(x, ch, nm) /\ x \in HeldBursts /\ x.candidate \in Nat
    BY <1>1, BurstAt
  <2>2. CASE j = i
    <3>1. x = b /\ cs[j] = e
      BY <1>4, <2>2
    <3>2. Of(ch2, b.n) = Of(ch, b.n) \cup {id}
      BY <1>6 DEF Of
    <3>3. IsFiniteSet(Of(ch, b.n))
      BY <1>8, FS_Subset DEF Of
    <3>4. id \notin Of(ch, b.n)
      BY <1>0 DEF Of
    <3>5. Cardinality(Of(ch2, b.n)) = b.pending + 1
      <4> PICK S : S = Of(ch, b.n)
        OBVIOUS
      <4>1. IsFiniteSet(S) /\ id \notin S /\ Of(ch2, b.n) = S \cup {id}
        BY <3>2, <3>3, <3>4
      <4>2. Cardinality(S) = b.pending
        BY <1>8 DEF Sound
      <4>3. Cardinality(S \cup {id}) = IF id \in S THEN Cardinality(S) ELSE Cardinality(S) + 1
        BY <4>1, FS_AddElement
      <4>4. QED
        BY <4>1, <4>2, <4>3
    <3>6. \A c \in Of(ch2, b.n) : To(ch2, c) <= b.sent + p
      <4> SUFFICES ASSUME NEW c \in Of(ch2, b.n) PROVE To(ch2, c) <= b.sent + p
        OBVIOUS
      <4>1. CASE c = id
        BY <1>0, <1>2, <1>10, <4>1 DEF HeldBursts
      <4>2. CASE c # id
        <5>1. c \in DOMAIN ch /\ ch[c].n = b.n
          BY <1>6, <4>2 DEF Of
        <5>2. To(ch, c) <= b.sent /\ To(ch2, c) = To(ch, c) /\ ch[c] \in [n: Nat, offset: Nat, bytes: Nat \ {0}]
          BY <1>8, <1>9, <5>1 DEF Books, Paired, Child
        <5>3. To(ch, c) \in Nat /\ b.sent \in Nat
          BY <1>2, <5>2 DEF To, HeldBursts
        <5>4. QED
          BY <1>0, <5>2, <5>3
      <4>3. QED
        BY <4>1, <4>2
    <3>7. Status(b.kind) = "ok"
      BY <1>0, <1>8 DEF Sound
    <3>8. b.data \in [0 .. (b.kind.length - 1) -> Nat]
      BY <1>8 DEF Sound
    <3>9. Sound(e, ch2, next)
      BY <1>0, <1>3, <3>5, <3>6, <3>7, <3>8 DEF Sound
    <3>10. QED
      BY <3>1, <3>9
  <2>3. CASE j # i
    <3>1. cs[j] = x /\ x.n # b.n
      BY <1>1, <1>4, <2>3 DEF Books, Apart, Distinct
    <3>2. Of(ch2, x.n) = Of(ch, x.n)
      BY <1>6, <3>1 DEF Of
    <3>3. \A c \in Of(ch2, x.n) : To(ch2, c) <= x.sent
      BY <1>9, <2>1, <3>2 DEF Sound, Of
    <3>4. x.candidate # 0 => x.candidate < next /\ x.candidate \notin DOMAIN ch2
      <4>1. x.candidate # id
        BY <1>0, <1>1, <2>3
      <4>2. x.candidate # 0 => x.candidate < nm /\ x.candidate \notin DOMAIN ch
        BY <2>1 DEF Sound
      <4>3. QED
        BY <1>0, <1>1, <1>6, <2>1, <4>1, <4>2
    <3>5. Sound(x, ch2, next)
      BY <2>1, <3>2, <3>3, <3>4 DEF Sound
    <3>6. QED
      BY <3>1, <3>5
  <2>4. QED
    BY <2>2, <2>3
<1>12. ASSUME NEW j \in 1 .. n, NEW k \in 1 .. n, j # k PROVE Distinct(cs[j], cs[k])
  <2>1. Distinct(bs[j], bs[k])
    BY <1>1, <1>12 DEF Books, Apart
  <2>2. bs[j].candidate \in Nat
    BY <1>1, BurstAt
  <2>3. CASE j = i
    BY <1>0, <1>3, <1>4, <1>12, <2>1, <2>3 DEF Distinct
  <2>4. CASE k = i
    BY <1>0, <1>3, <1>4, <1>12, <2>1, <2>2, <2>4 DEF Distinct
  <2>5. CASE j # i /\ k # i
    BY <1>4, <2>1, <2>5
  <2>6. QED
    BY <2>3, <2>4, <2>5
<1>13. ASSUME NEW c \in DOMAIN ch2, NEW d \in DOMAIN ch2 PROVE Disjoint(ch2, c, d)
  <2>1. CASE c = id /\ d # id
    <3>1. d \in DOMAIN ch
      BY <1>6, <2>1
    <3>2. ch[d].n = b.n => To(ch, d) <= b.sent
      BY <1>8, <3>1
    <3>3. ch2[d].n = ch[d].n /\ To(ch2, d) = To(ch, d) /\ From(ch2, c) = b.sent /\ ch2[c].n = b.n
      BY <1>6, <1>9, <1>10, <2>1, <3>1
    <3>4. QED
      BY <3>2, <3>3 DEF Disjoint
  <2>2. CASE c # id /\ d = id
    <3>1. c \in DOMAIN ch
      BY <1>6, <2>2
    <3>2. ch[c].n = b.n => To(ch, c) <= b.sent
      BY <1>8, <3>1
    <3>3. ch2[c].n = ch[c].n /\ To(ch2, c) = To(ch, c) /\ From(ch2, d) = b.sent /\ ch2[d].n = b.n
      BY <1>6, <1>9, <1>10, <2>2, <3>1
    <3>4. QED
      BY <3>2, <3>3 DEF Disjoint
  <2>3. CASE c # id /\ d # id
    <3>1. c \in DOMAIN ch /\ d \in DOMAIN ch
      BY <1>6, <2>3
    <3>2. Disjoint(ch, c, d)
      BY <3>1 DEF Books, Apart
    <3>3. QED
      BY <1>6, <1>9, <3>1, <3>2 DEF Disjoint
  <2>4. CASE c = d
    BY <2>4 DEF Disjoint
  <2>5. QED
    BY <2>1, <2>2, <2>3, <2>4
<1>14. AllSound(cs, ch2, next) /\ Apart(cs, ch2)
  BY <1>4, <1>11, <1>12, <1>13 DEF AllSound, Apart
<1>15. Books(cs, ch2, next, lv2)
  BY <1>0, <1>4, <1>7, <1>14 DEF Books
<1>17. QED
  BY <1>15

\* What the completions ids make of burst b.
MergedAs(b, e, mine) ==
    /\ e \in HeldBursts
    /\ e.n = b.n /\ e.kind = b.kind /\ e.sent = b.sent /\ e.candidate = b.candidate
    /\ e.pending = b.pending - Cardinality(mine)
    /\ e.status = b.status \/ e.status = "slverr"
    /\ e.data \in [0 .. (b.kind.length - 1) -> Nat]
MergedInto(b, e, ch, ids) == MergedAs(b, e, Of(ch, b.n) \cap ids)
Mine(b, ch, lv, mine) ==
    /\ b \in HeldBursts /\ b.data \in [0 .. (b.kind.length - 1) -> Nat]
    /\ \A c \in mine : Child(ch[c], lv[c])
    /\ Cardinality(mine) \in Nat /\ Cardinality(mine) <= b.pending

Drops(ch, ids, ch2) ==
    DOMAIN ch2 = DOMAIN ch \ ids /\ \A c \in DOMAIN ch \ ids : ch2[c] = ch[c]

\* The completions of ids have been taken.
LEMMA CompletedBooks ==
    ASSUME NEW bs, NEW ch, NEW nm, NEW lv, Books(bs, ch, nm, lv), NEW ids \in SUBSET DOMAIN ch,
           NEW cs \in Seq(HeldBursts), Len(cs) = Len(bs), \A j \in DOMAIN bs : MergedInto(bs[j], cs[j], ch, ids),
           NEW ch2, Drops(ch, ids, ch2), NEW lv2, Drops(lv, ids, lv2)
    PROVE  Books(cs, ch2, nm, lv2)
<1> PICK n : n = Len(bs)
  OBVIOUS
<1>1. bs \in Seq(HeldBursts) /\ n \in Nat /\ DOMAIN bs = 1 .. n /\ DOMAIN cs = 1 .. n /\ nm \in Nat \ {0}
  BY DEF Books
<1>2. /\ DOMAIN ch2 = DOMAIN ch \ ids /\ DOMAIN lv2 = DOMAIN ch2
      /\ \A c \in DOMAIN ch2 : c \in DOMAIN ch /\ ch2[c] = ch[c] /\ lv2[c] = lv[c]
  BY DEF Drops, Books, Paired
<1>3. IsFiniteSet(DOMAIN ch) /\ DOMAIN ch \subseteq 1 .. (nm - 1)
  BY DEF Books, Paired
<1>4. Paired(cs, ch2, nm, lv2)
  <2>1. IsFiniteSet(DOMAIN ch2) /\ DOMAIN ch2 \subseteq 1 .. (nm - 1)
    BY <1>2, <1>3, FS_Subset
  <2>2. ASSUME NEW c \in DOMAIN ch2 PROVE Child(ch2[c], lv2[c])
    BY <1>2 DEF Books, Paired
  <2>3. ASSUME NEW c \in DOMAIN ch2 PROVE \E j \in DOMAIN cs : cs[j].n = ch2[c].n
    <3>1. PICK j \in 1 .. n : bs[j].n = ch[c].n
      BY <1>1, <1>2 DEF Books, Paired
    <3>2. cs[j].n = bs[j].n
      BY <1>1 DEF MergedInto, MergedAs
    <3>3. QED
      BY <1>1, <1>2, <3>1, <3>2
  <2>4. QED
    BY <1>2, <2>1, <2>2, <2>3 DEF Paired
<1>5. \A c \in DOMAIN ch2 : From(ch2, c) = From(ch, c) /\ To(ch2, c) = To(ch, c)
  BY <1>2 DEF From, To
<1>6. ASSUME NEW j \in 1 .. n PROVE Sound(cs[j], ch2, nm)
  <2> PICK x, y, k : x = bs[j] /\ y = cs[j] /\ k = bs[j].n
    OBVIOUS
  <2>1. Sound(x, ch, nm) /\ x \in HeldBursts
    BY <1>1, BurstAt
  <2>2. /\ y.n = k /\ x.n = k /\ y.kind = x.kind /\ y.sent = x.sent /\ y.candidate = x.candidate
        /\ y.pending = x.pending - Cardinality(Of(ch, k) \cap ids)
        /\ y.status = x.status \/ y.status = "slverr"
        /\ y.data \in [0 .. (x.kind.length - 1) -> Nat]
    BY <1>1 DEF MergedInto, MergedAs
  <2>3. Of(ch2, k) = Of(ch, k) \ ids
    BY <1>2 DEF Of
  <2>4. IsFiniteSet(Of(ch, k))
    BY <1>3, FS_Subset DEF Of
  <2>5. Cardinality(Of(ch2, k)) = Cardinality(Of(ch, k)) - Cardinality(Of(ch, k) \cap ids)
    <3> PICK S : S = Of(ch, k)
      OBVIOUS
    <3>1. IsFiniteSet(S) /\ Of(ch2, k) = S \ ids
      BY <2>3, <2>4
    <3>2. Cardinality(S \ ids) = Cardinality(S) - Cardinality(S \cap ids)
      BY <3>1, FS_Difference
    <3>3. QED
      BY <3>1, <3>2
  <2>6. Cardinality(Of(ch, k)) = x.pending
    BY <2>1, <2>2 DEF Sound
  <2>7. \A c \in Of(ch2, k) : To(ch2, c) <= x.sent
    BY <1>5, <2>1, <2>2, <2>3 DEF Sound, Of
  <2>8. x.candidate # 0 => x.candidate < nm /\ x.candidate \notin DOMAIN ch2
    BY <1>2, <2>1 DEF Sound
  <2>9. Cardinality(Of(ch2, y.n)) = y.pending /\ \A c \in Of(ch2, y.n) : To(ch2, c) <= y.sent
    BY <2>2, <2>5, <2>6, <2>7
  <2>10. Sound(y, ch2, nm)
    BY <2>1, <2>2, <2>8, <2>9 DEF Sound
  <2>11. QED
    BY <2>10
<1>7. ASSUME NEW c \in DOMAIN ch2, NEW d \in DOMAIN ch2 PROVE Disjoint(ch2, c, d)
  <2>1. Disjoint(ch, c, d)
    BY <1>2 DEF Books, Apart
  <2>2. QED
    BY <1>2, <1>5, <2>1 DEF Disjoint
<1>8. ASSUME NEW j \in 1 .. n, NEW k \in 1 .. n, j # k PROVE Distinct(cs[j], cs[k])
  <2>1. Distinct(bs[j], bs[k])
    BY <1>1, <1>8 DEF Books, Apart
  <2>2. QED
    BY <1>1, <2>1 DEF Distinct, MergedInto, MergedAs
<1>9. AllSound(cs, ch2, nm) /\ Apart(cs, ch2)
  BY <1>1, <1>6, <1>7, <1>8 DEF AllSound, Apart
<1>10. QED
  BY <1>1, <1>4, <1>9 DEF Books

\* The oldest burst, which has no child left, is gone.
LEMMA ReturnedBooks ==
    ASSUME NEW bs, NEW ch, NEW nm, NEW lv, Books(bs, ch, nm, lv), bs # <<>>, Head(bs).pending = 0
    PROVE  Books(Tail(bs), ch, nm, lv)
<1> PICK n : n = Len(bs)
  OBVIOUS
<1> PICK cs : cs = Tail(bs)
  OBVIOUS
<1>1. bs \in Seq(HeldBursts) /\ n \in Nat \ {0} /\ DOMAIN bs = 1 .. n /\ Head(bs) = bs[1] /\ 1 \in 1 .. n
  BY DEF Books
<1>2. /\ cs \in Seq(HeldBursts) /\ DOMAIN cs = 1 .. (n - 1)
      /\ \A j \in 1 .. (n - 1) : j + 1 \in 1 .. n /\ cs[j] = bs[j + 1]
  BY <1>1
<1>3. IsFiniteSet(DOMAIN ch) /\ Cardinality(Of(ch, bs[1].n)) = 0
  BY <1>1 DEF Books, AllSound, Sound, Paired
<1>4. Of(ch, bs[1].n) = {}
  BY <1>3, FS_Subset, FS_EmptySet DEF Of
<1>5. ASSUME NEW c \in DOMAIN ch PROVE \E j \in DOMAIN cs : cs[j].n = ch[c].n
  <2>1. PICK i \in 1 .. n : bs[i].n = ch[c].n
    BY <1>1 DEF Books, Paired
  <2>2. i # 1
    BY <1>4, <2>1 DEF Of
  <2>3. i - 1 \in 1 .. (n - 1) /\ (i - 1) + 1 = i
    BY <1>1, <2>2
  <2>4. cs[i - 1] = bs[i]
    BY <1>2, <2>3
  <2>5. QED
    BY <1>2, <2>1, <2>3, <2>4
<1>6. Paired(cs, ch, nm, lv)
  BY <1>5 DEF Books, Paired
<1>7. AllSound(cs, ch, nm)
  BY <1>1, <1>2 DEF Books, AllSound
<1>8. ASSUME NEW j \in 1 .. (n - 1), NEW k \in 1 .. (n - 1), j # k PROVE Distinct(cs[j], cs[k])
  <2>1. j + 1 \in 1 .. n /\ k + 1 \in 1 .. n /\ j + 1 # k + 1 /\ cs[j] = bs[j + 1] /\ cs[k] = bs[k + 1]
    BY <1>2, <1>8
  <2>2. Distinct(bs[j + 1], bs[k + 1])
    BY <1>1, <2>1 DEF Books, Apart
  <2>3. QED
    BY <2>1, <2>2
<1>9. Apart(cs, ch)
  BY <1>2, <1>8 DEF Books, Apart
<1>10. QED
  BY <1>1, <1>2, <1>6, <1>7, <1>9 DEF Books

-----------------------------------------------------------------------------
(* A round                                                                   *)

LEMMA AcceptKeeps ==
    ASSUME NEW s, NEW m \in Nat, Ledger(s, m)
    PROVE  Ledger(Accept(s), m)
<1>1. CASE s.request = <<>> \/ ~HasRoom(s.be)
  BY <1>1 DEF Accept
<1>2. CASE s.request # <<>> /\ HasRoom(s.be)
  <2> PICK t, q, b, bs, ch, nm, lv, rq, rq2 :
         /\ t = Accept(s) /\ q = Head(s.request) /\ b = BurstOf(Head(s.request)) /\ bs = s.be.bursts
         /\ ch = s.be.children /\ nm = s.be.next_mem /\ lv = s.mem.live /\ rq = s.request /\ rq2 = Tail(s.request)
    OBVIOUS
  <2>1. Typed(s) /\ Books(bs, ch, nm, lv) /\ Numbered(bs, rq, m)
    BY DEF Ledger
  <2>2. /\ Shape(t) /\ t.be.bursts = Append(bs, b)
        /\ t.be.children = ch /\ t.be.next_mem = nm
        /\ t.be.held = s.be.held /\ t.be.ok = s.be.ok
        /\ t.mem = s.mem /\ t.request = rq2 /\ t.response = s.response
    BY <1>2, <2>1, AcceptIs DEF Typed
  <2>3. rq \in Seq(Requests) /\ rq # <<>> /\ bs \in Seq(HeldBursts) /\ Len(bs) < Slots
    BY <1>2, <2>1 DEF Typed, HasRoom
  <2>4. q \in Requests /\ q = rq[1]
    BY <2>3
  <2>5. /\ rq2 \in Seq(Requests) /\ Len(rq2) = Len(rq) - 1 /\ Len(rq) \in Nat /\ 1 \in DOMAIN rq
        /\ \A j \in DOMAIN rq2 : j + 1 \in DOMAIN rq /\ rq2[j] = rq[j + 1] /\ 1 < j + 1
        /\ \A j, k \in DOMAIN rq2 : j < k => j + 1 < k + 1
    BY <2>3
  <2>6. /\ b \in HeldBursts /\ b.n = q.n /\ b.kind = q.kind /\ b.candidate = 0 /\ b.pending = 0
        /\ b.status = Status(q.kind) /\ b.data \in [0 .. (q.kind.length - 1) -> Nat]
        /\ b.sent = IF Status(q.kind) = "ok" THEN 0 ELSE q.kind.length
    BY <2>4, BurstFacts
  <2>7. b.n \in Nat /\ b.n \in 1 .. m
    BY <2>1, <2>4, <2>5, <2>6 DEF Numbered, Requests
  <2>8. ASSUME NEW i \in DOMAIN bs PROVE bs[i].n < b.n /\ bs[i].n \in Nat
    BY <2>1, <2>4, <2>5, <2>6, BurstAt DEF Numbered
  <2>9. \A i \in DOMAIN bs : bs[i].n # b.n
    BY <2>7, <2>8
  <2>10. Sound(b, ch, nm)
    <3>1. Of(ch, b.n) = {}
      BY <2>1, <2>9 DEF Of, Books, Paired
    <3>2. Cardinality(Of(ch, b.n)) = 0 /\ \A c \in Of(ch, b.n) : To(ch, c) <= b.sent
      BY <3>1, FS_EmptySet
    <3>3. b.kind.length \in Nat
      BY <2>4, <2>6, KindFacts DEF Requests
    <3>4. /\ b.sent <= b.kind.length /\ (b.sent < b.kind.length => Status(b.kind) = "ok")
          /\ Status(b.kind) # "ok" => b.status # "ok"
      BY <2>6, <3>3
    <3>5. QED
      BY <2>6, <3>2, <3>4 DEF Sound
  <2>11. Books(Append(bs, b), ch, nm, lv)
    BY <2>1, <2>6, <2>9, <2>10, AppendBooks
  <2>12. Numbered(Append(bs, b), rq2, m)
    <3> PICK cs, n : cs = Append(bs, b) /\ n = Len(bs)
      OBVIOUS
    <3>1. n \in Nat /\ DOMAIN bs = 1 .. n /\ DOMAIN cs = 1 .. (n + 1) /\ cs[n + 1] = b
      BY <2>3, <2>6
    <3>2. \A i \in 1 .. n : cs[i] = bs[i]
      BY <2>3, <3>1
    <3>3. ASSUME NEW j \in DOMAIN rq2 PROVE rq2[j].n \in 1 .. m /\ b.n < rq2[j].n
      BY <2>1, <2>4, <2>5, <2>6 DEF Numbered
    <3>4. ASSUME NEW i \in 1 .. (n + 1) PROVE cs[i].n \in 1 .. m /\ \A j \in DOMAIN rq2 : cs[i].n < rq2[j].n
      <4>1. CASE i = n + 1
        BY <2>7, <3>1, <3>3, <4>1
      <4>2. CASE i # n + 1
        <5>1. i \in 1 .. n
          BY <3>1, <4>2
        <5>4. cs[i] = bs[i]
          BY <3>2, <5>1
        <5>2. bs[i].n \in 1 .. m /\ \A j \in DOMAIN rq : bs[i].n < rq[j].n
          BY <2>1, <3>1, <5>1 DEF Numbered
        <5>3. QED
          BY <2>5, <5>2, <5>4
      <4>3. QED
        BY <4>1, <4>2
    <3>5. \A i, j \in DOMAIN rq2 : i < j => rq2[i].n < rq2[j].n
      BY <2>1, <2>5 DEF Numbered
    <3>6. QED
      BY <3>1, <3>3, <3>4, <3>5 DEF Numbered
  <2>13. Len(Append(bs, b)) <= Slots /\ Append(bs, b) \in Seq(HeldBursts)
    BY <2>3, <2>6, BackendAssumption
  <2>14. Len(rq2) <= InDepth
    BY <2>1, <2>5, BackendAssumption DEF Typed
  <2>15. Typed(t)
    BY <2>1, <2>2, <2>5, <2>13, <2>14 DEF Typed
  <2>16. QED
    BY <2>2, <2>11, <2>12, <2>15 DEF Ledger
<1>3. QED
  BY <1>1, <1>2

\* Books that keep the numbers of the bursts keep their order.
LEMMA SameNumbers ==
    ASSUME NEW bs, NEW cs, NEW rq, NEW m, Numbered(bs, rq, m), DOMAIN cs = DOMAIN bs,
           \A i \in DOMAIN bs : cs[i].n = bs[i].n
    PROVE  Numbered(cs, rq, m)
BY DEF Numbered

LEMMA RefusedKeeps ==
    ASSUME NEW s, NEW m \in Nat, Ledger(s, m), NEW i \in DOMAIN s.be.bursts,
           s.be.bursts[i].sent < s.be.bursts[i].kind.length
    PROVE  Ledger(Offered(s, i, NextId(s, i), FALSE), m)
<1> PICK t, b, e, id, next, bs, cs, ch, nm, lv, rq :
       /\ t = Offered(s, i, NextId(s, i), FALSE) /\ b = s.be.bursts[i]
       /\ e = [s.be.bursts[i] EXCEPT !.candidate = NextId(s, i)]
       /\ id = NextId(s, i) /\ next = NextMem(s, i) /\ bs = s.be.bursts
       /\ cs = [s.be.bursts EXCEPT ![i] = [s.be.bursts[i] EXCEPT !.candidate = NextId(s, i)]]
       /\ ch = s.be.children /\ nm = s.be.next_mem /\ lv = s.mem.live /\ rq = s.request
  OBVIOUS
<1>1. Typed(s) /\ Books(bs, ch, nm, lv) /\ Numbered(bs, rq, m)
  BY DEF Ledger
<1>2. /\ Legal(s.mem, b, id)
      /\ id \in Nat \ {0} /\ id \notin DOMAIN ch
      /\ id < next /\ next \in Nat \ {0} /\ nm <= next
      /\ \A j \in DOMAIN bs : j # i => bs[j].candidate # id
  BY OfferIsLegal
<1>3. AfterOffer(b, id, FALSE) = e
  BY DEF AfterOffer
<1>4. /\ Shape(t) /\ t.be.bursts = [bs EXCEPT ![i] = AfterOffer(b, id, FALSE)]
      /\ t.be.children = ch /\ t.be.next_mem = next /\ t.be.held = s.be.held
      /\ (t.be.ok <=> s.be.ok /\ Legal(s.mem, b, id))
      /\ t.mem = s.mem /\ t.request = s.request /\ t.response = s.response
  <2>1. Shape(s)
    BY <1>1 DEF Typed
  <2>2. /\ Shape(t)
        /\ t.be.bursts = [s.be.bursts EXCEPT ![i] = AfterOffer(s.be.bursts[i], NextId(s, i), FALSE)]
        /\ t.be.children = s.be.children /\ t.be.next_mem = NextMem(s, i) /\ t.be.held = s.be.held
        /\ (t.be.ok <=> s.be.ok /\ Legal(s.mem, s.be.bursts[i], NextId(s, i)))
        /\ t.mem = s.mem /\ t.request = s.request /\ t.response = s.response
    BY <2>1, RefusedIs
  <2>3. QED
    BY <2>2, Zenon
<1>5. t.be.bursts = cs /\ t.be.ok
  BY <1>1, <1>2, <1>3, <1>4 DEF Typed
<1>6. Books(cs, ch, next, lv)
  BY <1>1, <1>2, RefusedBooks
<1>7. bs \in Seq(HeldBursts) /\ cs \in Seq(HeldBursts)
  BY <1>1, <1>6 DEF Books
<1>8. DOMAIN cs = DOMAIN bs
  OBVIOUS
<1>9. Len(cs) = Len(bs)
  BY <1>7, <1>8
<1>10. b \in HeldBursts
  BY <1>7
<1>11. e.n = b.n
  BY <1>10 DEF HeldBursts
<1>12. \A j \in DOMAIN bs : cs[j].n = bs[j].n
  BY <1>11
<1>13. Numbered(cs, rq, m)
  BY <1>1, <1>8, <1>12, SameNumbers
<1>14. Typed(t)
  BY <1>1, <1>2, <1>4, <1>5, <1>7, <1>9 DEF Typed
<1>15. QED
  BY <1>4, <1>5, <1>6, <1>13, <1>14 DEF Ledger

LEMMA InWindow ==
    ASSUME NEW a \in Nat, NEW p \in Nat, a + p <= Size, NEW o \in 0 .. (p - 1)
    PROVE  a + o \in Window
BY BackendAssumption DEF Window

\* Burst i has sent its next piece.
SentTo(s, t, i) ==
    /\ t.be.bursts = [s.be.bursts EXCEPT ![i] = AfterOffer(s.be.bursts[i], NextId(s, i), TRUE)]
    /\ Sends(s.be.bursts, s.be.children, s.be.next_mem, s.mem.live, i, NextId(s, i), NextMem(s, i),
             Piece(s.be.bursts[i]), AfterOffer(s.be.bursts[i], NextId(s, i), TRUE), t.be.children, t.mem.live)
    /\ t.mem = Stored(s.mem, s.be.bursts[i], NextId(s, i))
    /\ t.request = s.request /\ t.response = s.response

LEMMA SubmittedKeeps ==
    ASSUME NEW s, NEW m \in Nat, Ledger(s, m), NEW i \in DOMAIN s.be.bursts,
           s.be.bursts[i].sent < s.be.bursts[i].kind.length
    PROVE  /\ Ledger(Offered(s, i, NextId(s, i), TRUE), m)
           /\ SentTo(s, Offered(s, i, NextId(s, i), TRUE), i)
<1> PICK t, b, e, id, next, bs, cs, ch, nm, lv, rq, p, ch2, lv2 :
       /\ t = Offered(s, i, NextId(s, i), TRUE) /\ b = s.be.bursts[i]
       /\ e = AfterOffer(s.be.bursts[i], NextId(s, i), TRUE)
       /\ id = NextId(s, i) /\ next = NextMem(s, i) /\ bs = s.be.bursts
       /\ cs = [s.be.bursts EXCEPT ![i] = AfterOffer(s.be.bursts[i], NextId(s, i), TRUE)]
       /\ ch = s.be.children /\ nm = s.be.next_mem /\ lv = s.mem.live /\ rq = s.request
       /\ p = Piece(s.be.bursts[i])
       /\ ch2 = [c \in DOMAIN s.be.children \cup {NextId(s, i)} |->
                    IF c # NextId(s, i) THEN s.be.children[c]
                    ELSE [n |-> s.be.bursts[i].n, offset |-> s.be.bursts[i].sent, bytes |-> Piece(s.be.bursts[i])]]
       /\ lv2 = Stored(s.mem, s.be.bursts[i], NextId(s, i)).live
  OBVIOUS
<1>1. Typed(s) /\ Books(bs, ch, nm, lv) /\ Numbered(bs, rq, m)
  BY DEF Ledger
<1>2. /\ Legal(s.mem, b, id)
      /\ id \in Nat \ {0} /\ id \notin DOMAIN ch
      /\ id < next /\ next \in Nat \ {0} /\ nm <= next
      /\ \A j \in DOMAIN bs : j # i => bs[j].candidate # id
  BY OfferIsLegal
<1>3. /\ Shape(t) /\ t.be.bursts = cs /\ t.be.children = ch2 /\ t.be.next_mem = next /\ t.be.held = s.be.held
      /\ (t.be.ok <=> s.be.ok /\ Legal(s.mem, b, id))
      /\ t.mem = Stored(s.mem, b, id) /\ t.request = s.request /\ t.response = s.response
  <2>1. Shape(s)
    BY <1>1 DEF Typed
  <2>2. QED
    BY <2>1, SubmittedIs
<1>4. b \in HeldBursts /\ b.sent < b.kind.length /\ Sound(b, ch, nm) /\ b.sent \in Nat /\ b.pending \in Nat /\ b.n \in Nat
  BY <1>1, BurstAt
<1>5. p \in Nat \ {0} /\ b.sent + p <= b.kind.length /\ Address(b) \in Nat /\ Address(b) = b.kind.addr + b.sent
  BY <1>4, PieceFacts
<1>6. /\ e \in HeldBursts /\ e.n = b.n /\ e.kind = b.kind /\ e.sent = b.sent + p /\ e.pending = b.pending + 1
      /\ e.status = b.status /\ e.data = b.data /\ e.candidate = 0
  <2> PICK x, y, z, w, v : x = [b EXCEPT !.candidate = 0] /\ w = b.sent + p /\ v = b.pending + 1
                          /\ y = [x EXCEPT !.sent = w] /\ z = [y EXCEPT !.pending = v]
    OBVIOUS
  <2>1. w \in Nat /\ v \in Nat
    BY <1>4, <1>5
  <2>2. /\ x \in HeldBursts /\ x.n = b.n /\ x.kind = b.kind /\ x.sent = b.sent /\ x.pending = b.pending
        /\ x.status = b.status /\ x.data = b.data /\ x.candidate = 0
    BY <1>4 DEF HeldBursts
  <2>3. /\ y \in HeldBursts /\ y.n = x.n /\ y.kind = x.kind /\ y.sent = w /\ y.pending = x.pending
        /\ y.status = x.status /\ y.data = x.data /\ y.candidate = x.candidate
    BY <2>1, <2>2 DEF HeldBursts
  <2>4. /\ z \in HeldBursts /\ z.n = y.n /\ z.kind = y.kind /\ z.sent = y.sent /\ z.pending = v
        /\ z.status = y.status /\ z.data = y.data /\ z.candidate = y.candidate
    BY ZenonT(60), <2>1, <2>3 DEF HeldBursts
  <2>5. e = z
    BY Zenon DEF AfterOffer, CandidateAfter
  <2>6. QED
    BY ZenonT(60), <2>2, <2>3, <2>4, <2>5
<1>7. s.mem.image \in [Window -> Nat] /\ Address(b) + p <= Size /\ Size \in Nat
  BY <1>1, <1>2, BackendAssumption DEF Typed, Legal
<1>8. /\ t.mem.live = lv2 /\ t.mem.image \in [Window -> Nat]
      /\ DOMAIN lv2 = DOMAIN ch \cup {id} /\ \A c \in DOMAIN ch : lv2[c] = lv[c]
      /\ lv2[id] = [bytes |-> p, data |-> [o \in 0 .. (p - 1) |-> s.mem.image[Address(b) + o]]]
  <2>1. DOMAIN lv = DOMAIN ch
    BY <1>1 DEF Books, Paired
  <2>2. lv2 = [c \in DOMAIN lv \cup {id} |->
                  IF c # id THEN lv[c]
                  ELSE [bytes |-> p, data |-> [o \in 0 .. (p - 1) |-> s.mem.image[Address(b) + o]]]]
    BY DEF Stored
  <2>3. DOMAIN lv2 = DOMAIN lv \cup {id} /\ \A c \in DOMAIN lv \cup {id} :
           lv2[c] = IF c # id THEN lv[c]
                    ELSE [bytes |-> p, data |-> [o \in 0 .. (p - 1) |-> s.mem.image[Address(b) + o]]]
    BY <2>2
  <2>4. t.mem.image = IF b.kind.write
                      THEN [a \in Window |-> IF a - Address(b) \in 0..(Piece(b) - 1) THEN b.n ELSE s.mem.image[a]]
                      ELSE s.mem.image
    <3>1. Stored(s.mem, b, id).image =
             IF b.kind.write
             THEN [a \in Window |-> IF a - Address(b) \in 0..(Piece(b) - 1) THEN b.n ELSE s.mem.image[a]]
             ELSE s.mem.image
      BY DEF Stored
    <3>2. QED
      BY <1>3, <3>1, Zenon
  <2>5. t.mem.image \in [Window -> Nat]
    BY <1>4, <1>7, <2>4
  <2>6. t.mem.live = lv2
    BY <1>3
  <2>7. QED
    BY <1>2, <2>1, <2>3, <2>5, <2>6
<1>11. ch2 = [c \in DOMAIN ch \cup {id} |-> IF c # id THEN ch[c]
                                           ELSE [n |-> bs[i].n, offset |-> bs[i].sent, bytes |-> p]]
  BY Zenon
<1>9. Child(ch2[id], lv2[id])
  <2>1. ch2[id] = [n |-> b.n, offset |-> b.sent, bytes |-> p]
    BY <1>11
  <2> PICK im, a : im = s.mem.image /\ a = Address(b)
    OBVIOUS
  <2>2. im \in [Window -> Nat] /\ a \in Nat /\ a + p <= Size /\ p \in Nat /\ Size \in Nat
    BY <1>5, <1>7
  <2>3. ASSUME NEW o \in 0 .. (p - 1) PROVE im[a + o] \in Nat
    <3>1. a + o \in Window
      BY <2>2, InWindow
    <3>2. QED
      BY <2>2, <3>1
  <2>4. lv2[id].bytes = p /\ \A o \in 0 .. (p - 1) : lv2[id].data[o] \in Nat
    <3> PICK read : read = [o \in 0 .. (p - 1) |-> im[a + o]]
      OBVIOUS
    <3>1. lv2[id] = [bytes |-> p, data |-> read]
      BY Zenon, <1>8
    <3>2. \A o \in 0 .. (p - 1) : read[o] \in Nat
      BY <2>3
    <3>3. lv2[id].bytes = p /\ lv2[id].data = read
      BY <3>1
    <3>4. QED
      BY <3>2, <3>3
  <2>5. ch2[id] \in [n: Nat, offset: Nat, bytes: Nat \ {0}] /\ ch2[id].bytes = p
    BY <1>4, <1>5, <2>1
  <2>6. QED
    BY <2>4, <2>5 DEF Child
<1>10. cs = [bs EXCEPT ![i] = e] /\ b = bs[i]
  OBVIOUS
<1>19. Sends(bs, ch, nm, lv, i, id, next, p, e, ch2, lv2)
  <2>1. /\ bs[i].sent + p <= bs[i].kind.length /\ bs[i].sent < bs[i].kind.length
        /\ e \in HeldBursts /\ e.n = bs[i].n /\ e.kind = bs[i].kind /\ e.sent = bs[i].sent + p
        /\ e.pending = bs[i].pending + 1 /\ e.status = bs[i].status /\ e.data = bs[i].data /\ e.candidate = 0
    BY <1>4, <1>5, <1>6
  <2>2. DOMAIN lv2 = DOMAIN ch \cup {id} /\ \A c \in DOMAIN ch : lv2[c] = lv[c]
    BY <1>8
  <2>3. Books(bs, ch, nm, lv) /\ i \in DOMAIN bs /\ p \in Nat \ {0}
    BY <1>1, <1>5
  <2>4. /\ DOMAIN ch2 = DOMAIN ch \cup {id} /\ \A c \in DOMAIN ch : ch2[c] = ch[c]
        /\ ch2[id] = [n |-> bs[i].n, offset |-> bs[i].sent, bytes |-> p]
    BY <1>2, <1>11
  <2>5. QED
    BY <1>2, <1>9, <2>1, <2>2, <2>3, <2>4 DEF Sends
<1>12. Books(cs, ch2, next, lv2)
  <2>1. Books([bs EXCEPT ![i] = e], ch2, next, lv2)
    BY <1>1, <1>19, SentBooks
  <2>2. QED
    BY <1>10, <2>1
<1>13. bs \in Seq(HeldBursts) /\ cs \in Seq(HeldBursts) /\ DOMAIN cs = DOMAIN bs
  BY <1>1, <1>10, <1>12 DEF Books
<1>14. Len(cs) = Len(bs)
  BY <1>13
<1>15. \A j \in DOMAIN bs : cs[j].n = bs[j].n
  BY <1>6, <1>10
<1>16. Numbered(cs, rq, m)
  BY <1>1, <1>13, <1>15, SameNumbers
<1>17. Typed(t)
  BY <1>1, <1>2, <1>3, <1>8, <1>13, <1>14 DEF Typed
<1>18. Ledger(t, m)
  BY <1>3, <1>8, <1>12, <1>16, <1>17 DEF Ledger
<1>20. SentTo(s, t, i)
  BY <1>3, <1>8, <1>19 DEF SentTo
<1>21. QED
  BY <1>18, <1>20

LEMMA SubmitKeeps ==
    ASSUME NEW s, NEW m \in Nat, Ledger(s, m), NEW accepted \in BOOLEAN
    PROVE  Ledger(Submit(s, accepted), m)
<1>1. CASE Unsent(s.be.bursts) = {}
  BY <1>1 DEF Submit
<1>2. CASE Unsent(s.be.bursts) # {}
  <2> PICK i : i = FirstUnsent(s.be.bursts)
    OBVIOUS
  <2>1. s.be.bursts \in Seq(HeldBursts)
    BY DEF Ledger, Typed
  <2>2. Unsent(s.be.bursts) \in SUBSET Nat
    BY <2>1 DEF Unsent
  <2>3. i \in Unsent(s.be.bursts)
    BY <1>2, <2>2, LeastOf DEF FirstUnsent
  <2>4. i \in DOMAIN s.be.bursts /\ s.be.bursts[i].sent < s.be.bursts[i].kind.length
    BY <2>1, <2>3 DEF Unsent
  <2>5. Submit(s, accepted) = Offered(s, i, NextId(s, i), accepted)
    BY <1>2 DEF Submit, NextId
  <2>6. QED
    BY <2>4, <2>5, RefusedKeeps, SubmittedKeeps
<1>3. QED
  BY <1>1, <1>2

LEMMA MergedFacts ==
    ASSUME NEW b, NEW ch, NEW lv, NEW mine, NEW failing, Mine(b, ch, lv, mine)
    PROVE  MergedAs(b, Merged(b, ch, lv, mine, failing), mine)
<1> DEFINE Covers(c, o) == o - ch[c].offset \in 0..(ch[c].bytes - 1)
           Byte(o) == IF b.kind.write \/ ~ \E c \in mine : Covers(c, o) THEN b.data[o]
                      ELSE LET c == CHOOSE d \in mine : Covers(d, o) IN lv[c].data[o - ch[c].offset]
<1> PICK w, st, d, x, y, z, e :
       /\ w = b.pending - Cardinality(mine) /\ st = IF mine \cap failing # {} THEN "slverr" ELSE b.status
       /\ d = [o \in DOMAIN b.data |-> Byte(o)]
       /\ x = [b EXCEPT !.pending = w] /\ y = [x EXCEPT !.status = st] /\ z = [y EXCEPT !.data = d]
       /\ e = Merged(b, ch, lv, mine, failing)
  OBVIOUS
<1>1. b.kind \in Kinds /\ b.pending \in Nat /\ b.status \in Statuses
  BY DEF HeldBursts, Mine
<1>0. /\ b \in HeldBursts /\ b.data \in [0 .. (b.kind.length - 1) -> Nat]
      /\ \A c \in mine : Child(ch[c], lv[c])
      /\ Cardinality(mine) \in Nat /\ Cardinality(mine) <= b.pending
  BY DEF Mine
<1>2. ASSUME NEW o \in DOMAIN b.data PROVE Byte(o) \in Nat
  <2>1. CASE b.kind.write \/ ~ \E c \in mine : Covers(c, o)
    BY <1>0, <2>1
  <2>2. CASE ~(b.kind.write \/ ~ \E c \in mine : Covers(c, o))
    <3> PICK c : c = CHOOSE f \in mine : Covers(f, o)
      OBVIOUS
    <3>1. c \in mine /\ Covers(c, o)
      BY <2>2
    <3>2. Child(ch[c], lv[c])
      BY <1>0, <3>1
    <3>3. lv[c].data[o - ch[c].offset] \in Nat
      BY <3>1, <3>2 DEF Child
    <3>4. QED
      BY <2>2, <3>3
  <2>3. QED
    BY <2>1, <2>2
<1>3. d \in [0 .. (b.kind.length - 1) -> Nat]
  <2> HIDE DEF Byte
  <2> QED
    BY <1>0, <1>2
<1> HIDE DEF Byte
<1>4. w \in Nat /\ st \in Statuses /\ d \in Data /\ (st = b.status \/ st = "slverr")
  BY <1>0, <1>1, <1>3 DEF Data, Statuses
<1>5. /\ x \in HeldBursts /\ x.n = b.n /\ x.kind = b.kind /\ x.sent = b.sent /\ x.pending = w
      /\ x.status = b.status /\ x.data = b.data /\ x.candidate = b.candidate
  BY <1>0, <1>4 DEF HeldBursts
<1>6. /\ y \in HeldBursts /\ y.n = x.n /\ y.kind = x.kind /\ y.sent = x.sent /\ y.pending = x.pending
      /\ y.status = st /\ y.data = x.data /\ y.candidate = x.candidate
  BY <1>4, <1>5 DEF HeldBursts
<1>7. /\ z \in HeldBursts /\ z.n = y.n /\ z.kind = y.kind /\ z.sent = y.sent /\ z.pending = y.pending
      /\ z.status = y.status /\ z.data = d /\ z.candidate = y.candidate
  BY <1>4, <1>6 DEF HeldBursts
<1>8. e = z
  BY Zenon DEF Merged, Byte
<1>9. MergedAs(b, z, mine)
  BY <1>3, <1>4, <1>5, <1>6, <1>7 DEF MergedAs
<1>10. QED
  BY <1>8, <1>9

\* Burst b is e after the completions of ids, of which the children ch are ch2 after.
Completes(b, e, ch, ch2, lv, lv2, ids, failing) ==
    /\ b \in HeldBursts /\ b.data \in [0 .. (b.kind.length - 1) -> Nat]
    /\ e.n = b.n /\ e.kind = b.kind /\ e.sent = b.sent
    /\ e = Merged(b, ch, lv, Of(ch, b.n) \cap ids, failing)
    /\ Drops(ch, ids, ch2) /\ Drops(lv, ids, lv2) /\ DOMAIN lv = DOMAIN ch

\* The completions of ids have been merged.
MergedTo(s, t, ids, failing) ==
    /\ Len(t.be.bursts) = Len(s.be.bursts)
    /\ \A j \in DOMAIN s.be.bursts : Completes(s.be.bursts[j], t.be.bursts[j], s.be.children, t.be.children,
                                               s.mem.live, t.mem.live, ids, failing)
    /\ t.mem.image = s.mem.image /\ t.request = s.request /\ t.response = s.response

LEMMA CompleteKeeps ==
    ASSUME NEW s, NEW m \in Nat, Ledger(s, m), NEW ids \in SUBSET DOMAIN s.mem.live, NEW failing
    PROVE  Ledger(Complete(s, ids, failing), m) /\ MergedTo(s, Complete(s, ids, failing), ids, failing)
<1> PICK t, bs, cs, ch, nm, lv, rq, ch2, lv2, n :
       /\ t = Complete(s, ids, failing) /\ bs = s.be.bursts /\ cs = t.be.bursts
       /\ ch = s.be.children /\ nm = s.be.next_mem /\ lv = s.mem.live /\ rq = s.request
       /\ ch2 = t.be.children /\ lv2 = t.mem.live /\ n = Len(s.be.bursts)
  OBVIOUS
<1>1. Typed(s) /\ Books(bs, ch, nm, lv) /\ Numbered(bs, rq, m)
  BY DEF Ledger
<1>2. Shape(s)
  BY <1>1 DEF Typed
<1>3. ids \in SUBSET DOMAIN ch /\ DOMAIN lv = DOMAIN ch /\ IsFiniteSet(DOMAIN ch)
  BY <1>1 DEF Books, Paired
<1>4. /\ Shape(t) /\ cs = [i \in DOMAIN bs |-> cs[i]]
      /\ \A i \in DOMAIN bs : cs[i] = Merged(bs[i], ch, lv, Of(ch, bs[i].n) \cap ids, failing)
      /\ ch2 = [c \in DOMAIN ch \ ids |-> ch[c]]
      /\ t.be.next_mem = nm /\ t.be.held = s.be.held
      /\ (t.be.ok <=> s.be.ok /\ \A c \in ids : lv[c].bytes = ch[c].bytes)
      /\ t.mem.image = s.mem.image /\ lv2 = [c \in DOMAIN ch \ ids |-> lv[c]]
      /\ t.request = s.request /\ t.response = s.response
  <2>1. CompletedTo(s, t, ids, failing)
    BY <1>2, <1>3, CompleteIs
  <2>2. QED
    BY <1>3, <2>1 DEF CompletedTo
<1>5. \A c \in DOMAIN ch : Child(ch[c], lv[c])
  BY <1>1 DEF Books, Paired
<1>6. t.be.ok
  BY <1>1, <1>3, <1>4, <1>5 DEF Typed, Child
<1>7. bs \in Seq(HeldBursts) /\ n \in Nat /\ DOMAIN bs = 1 .. n /\ DOMAIN cs = 1 .. n
  BY <1>1, <1>4 DEF Books
<1>8. ASSUME NEW i \in 1 .. n PROVE MergedInto(bs[i], cs[i], ch, ids)
  <2> PICK b, S, M : b = bs[i] /\ S = Of(ch, bs[i].n) /\ M = Of(ch, bs[i].n) \cap ids
    OBVIOUS
  <2>1. b \in HeldBursts /\ Sound(b, ch, nm) /\ b.pending \in Nat
    BY <1>1, <1>7, BurstAt
  <2>2. IsFiniteSet(S) /\ Cardinality(S) = b.pending
    BY <1>3, <2>1, FS_Subset DEF Of, Sound
  <2>3. Cardinality(M) \in Nat /\ Cardinality(M) <= b.pending
    <3>1. M \in SUBSET S
      OBVIOUS
    <3>2. IsFiniteSet(M) /\ Cardinality(M) <= Cardinality(S)
      BY <2>2, <3>1, FS_Subset
    <3>3. QED
      BY <2>2, <3>2, FS_CardinalityType
  <2>4. Mine(b, ch, lv, M)
    BY <1>3, <1>5, <2>1, <2>3 DEF Mine, Sound
  <2>5. cs[i] = Merged(b, ch, lv, M, failing)
    BY <1>4, <1>7
  <2>6. MergedAs(b, cs[i], M)
    BY <2>4, <2>5, MergedFacts
  <2>7. QED
    BY <2>6 DEF MergedInto
<1>9. cs \in Seq(HeldBursts) /\ Len(cs) = Len(bs)
  <2>1. cs \in [1 .. n -> HeldBursts]
    <3>1. \A i \in 1 .. n : cs[i] \in HeldBursts
      BY <1>8 DEF MergedInto, MergedAs
    <3>2. cs = [i \in 1 .. n |-> cs[i]]
      BY <1>4, <1>7
    <3>3. QED
      BY <3>1, <3>2
  <2>2. QED
    BY <1>7, <2>1
<1>10. Books(cs, ch2, nm, lv2)
  <2>1. \A j \in DOMAIN bs : MergedInto(bs[j], cs[j], ch, ids)
    BY <1>7, <1>8
  <2>2. Drops(ch, ids, ch2) /\ Drops(lv, ids, lv2)
    BY <1>3, <1>4 DEF Drops
  <2>3. QED
    BY <1>1, <1>3, <1>9, <2>1, <2>2, CompletedBooks
<1>11. Numbered(cs, rq, m)
  <2>1. \A j \in DOMAIN bs : cs[j].n = bs[j].n
    BY <1>7, <1>8 DEF MergedInto, MergedAs
  <2>2. QED
    BY <1>1, <1>7, <2>1, SameNumbers
<1>12. Typed(t)
  BY <1>1, <1>4, <1>6, <1>9, <1>10 DEF Typed, Books
<1>13. Ledger(t, m)
  BY <1>4, <1>10, <1>11, <1>12 DEF Ledger
<1>14. Drops(ch, ids, ch2) /\ Drops(lv, ids, lv2)
  BY <1>3, <1>4 DEF Drops
<1>15. ASSUME NEW j \in 1 .. n PROVE Completes(bs[j], cs[j], ch, ch2, lv, lv2, ids, failing)
  <2> PICK b, e, M : b = bs[j] /\ e = cs[j] /\ M = Of(ch, bs[j].n) \cap ids
    OBVIOUS
  <2>1. b \in HeldBursts /\ b.data \in [0 .. (b.kind.length - 1) -> Nat]
    BY <1>1, <1>7, BurstAt DEF Sound
  <2>2. e = Merged(b, ch, lv, M, failing)
    BY <1>4, <1>7
  <2>3. MergedAs(b, e, M)
    BY <1>8 DEF MergedInto
  <2>4. e.n = b.n /\ e.kind = b.kind /\ e.sent = b.sent
    BY <2>3 DEF MergedAs
  <2>5. Completes(b, e, ch, ch2, lv, lv2, ids, failing)
    BY <1>3, <1>14, <2>1, <2>2, <2>4 DEF Completes
  <2>6. QED
    BY <2>5
<1>16. MergedTo(s, t, ids, failing)
  BY <1>4, <1>7, <1>9, <1>15 DEF MergedTo
<1>17. QED
  BY <1>13, <1>16

LEMMA AnswerFacts ==
    ASSUME NEW b \in HeldBursts
    PROVE  Answer(b) \in Answers
BY DEF Answer, Answers, HeldBursts, Statuses, Data

LEMMA ReturnKeeps ==
    ASSUME NEW s, NEW m \in Nat, Ledger(s, m)
    PROVE  Ledger(ReturnOldest(s), m)
<1> PICK t, bs, ch, nm, lv, rq, held :
       /\ t = ReturnOldest(s) /\ bs = s.be.bursts /\ ch = s.be.children /\ nm = s.be.next_mem
       /\ lv = s.mem.live /\ rq = s.request /\ held = HeldAfter(s.be.held)
  OBVIOUS
<1>1. Typed(s) /\ Books(bs, ch, nm, lv) /\ Numbered(bs, rq, m)
  BY DEF Ledger
<1>2. Shape(s)
  BY <1>1 DEF Typed
<1>3. held \in 0 .. Hold
  BY <1>1, BackendAssumption DEF Typed, HeldAfter, NotHeld
<1>4. CASE bs = <<>> \/ ~Finished(Head(bs))
  BY <1>4 DEF ReturnOldest
<1>5. CASE bs # <<>> /\ Finished(Head(bs)) /\ ~(held >= Hold /\ Len(s.response) < OutDepth)
  <2>1. /\ Shape(t) /\ t.be.bursts = bs /\ t.be.children = ch
        /\ t.be.next_mem = nm /\ t.be.held = held /\ (t.be.ok <=> s.be.ok)
        /\ t.mem = s.mem /\ t.request = rq /\ t.response = s.response
    BY <1>2, <1>5, HeldIs
  <2>2. Typed(t)
    BY <1>1, <1>3, <2>1 DEF Typed
  <2>3. QED
    BY <1>1, <2>1, <2>2 DEF Ledger
<1>6. CASE bs # <<>> /\ Finished(Head(bs)) /\ held >= Hold /\ Len(s.response) < OutDepth
  <2> PICK cs, a : cs = Tail(bs) /\ a = Append(s.response, Answer(Head(bs)))
    OBVIOUS
  <2>1. /\ Shape(t) /\ t.be.bursts = cs /\ t.be.children = ch
        /\ t.be.next_mem = nm /\ t.be.held = NotHeld /\ (t.be.ok <=> s.be.ok)
        /\ t.mem = s.mem /\ t.request = rq /\ t.response = a
    BY <1>2, <1>6, ReturnedIs
  <2>2. Books(cs, ch, nm, lv)
    BY <1>1, <1>6, ReturnedBooks DEF Finished
  <2>3. bs \in Seq(HeldBursts) /\ Len(bs) <= Slots /\ s.response \in Seq(Answers)
    BY <1>1 DEF Typed
  <2>4. Head(bs) \in HeldBursts /\ Len(bs) \in Nat /\ Len(cs) = Len(bs) - 1 /\ cs \in Seq(HeldBursts)
    BY <1>6, <2>3
  <2>5. a \in Seq(Answers) /\ Len(a) <= OutDepth
    <3>1. Answer(Head(bs)) \in Answers
      BY <2>4, AnswerFacts
    <3>2. QED
      BY <1>6, <2>3, <3>1, BackendAssumption
  <2>6. Len(cs) <= Slots
    BY <2>3, <2>4, BackendAssumption
  <2>7. Typed(t)
    BY <1>1, <2>1, <2>4, <2>5, <2>6 DEF Typed
  <2>8. Numbered(cs, rq, m)
    <3>1. \A i \in DOMAIN cs : i + 1 \in DOMAIN bs /\ cs[i] = bs[i + 1]
      BY <1>6, <2>3
    <3>2. QED
      BY <1>1, <3>1 DEF Numbered
  <2>9. QED
    BY <2>1, <2>2, <2>7, <2>8 DEF Ledger
<1>7. QED
  BY <1>4, <1>5, <1>6

-----------------------------------------------------------------------------
(* The backend                                                               *)

LedgerInv == issued \in Nat /\ Ledger(Backend, issued)

LEMMA BackendFields ==
    /\ Shape(Backend) <=> be \in [bursts: {be.bursts}, children: {be.children}, next_mem: {be.next_mem},
                                  held: {be.held}, ok: BOOLEAN]
                          /\ mem \in [image: {mem.image}, live: {mem.live}]
    /\ Backend.be = be /\ Backend.mem = mem /\ Backend.request = request /\ Backend.response = response
BY DEF Backend, Shape

LEMMA BackendInitLedger == ASSUME BackendInit PROVE LedgerInv
<1>1. /\ request = <<>> /\ response = <<>> /\ issued = 0
      /\ be = [bursts |-> <<>>, children |-> <<>>, next_mem |-> 1, held |-> NotHeld, ok |-> TRUE]
      /\ mem = [image |-> [a \in Window |-> 0], live |-> <<>>]
  BY DEF BackendInit
<1>2. /\ be.bursts = <<>> /\ be.children = <<>> /\ be.next_mem = 1 /\ be.held = NotHeld /\ be.ok
      /\ mem.live = <<>> /\ mem.image \in [Window -> Nat]
  BY <1>1
<1>3. Shape(Backend)
  BY <1>1, BackendFields
<1>4. Typed(Backend)
  BY <1>1, <1>2, <1>3, BackendFields, BackendAssumption DEF Typed
<1>5. Books(<<>>, <<>>, 1, <<>>)
  BY FS_EmptySet DEF Books, Paired, AllSound, Apart
<1>6. Numbered(<<>>, <<>>, 0)
  BY DEF Numbered
<1>7. QED
  BY <1>1, <1>2, <1>4, <1>5, <1>6, BackendFields DEF LedgerInv, Ledger

LEMMA RunKeeps == ASSUME LedgerInv, Run PROVE LedgerInv'
<1>1. PICK accepted \in BOOLEAN : RunRound(accepted)
  BY DEF Run
<1> PICK s0 : s0 = Backend
  OBVIOUS
<1> PICK m : m = issued
  OBVIOUS
<1>2. m \in Nat /\ Ledger(s0, m)
  BY DEF LedgerInv
<1>3. PICK s \in {Submit(Accept(s0), accepted)} :
         \E ids \in SUBSET DOMAIN s.mem.live : \E failing \in SUBSET ids :
            \E t \in {ReturnOldest(Complete(s, ids, failing))} :
                be' = t.be /\ mem' = t.mem /\ request' = t.request /\ response' = t.response
  BY <1>1, Zenon DEF RunRound
<1>4. Ledger(s, m)
  <2>1. Ledger(Accept(s0), m)
    BY <1>2, AcceptKeeps
  <2>2. Ledger(Submit(Accept(s0), accepted), m)
    BY <1>2, <2>1, SubmitKeeps
  <2>3. QED
    BY <2>2
<1>11. PICK ids \in SUBSET DOMAIN s.mem.live :
          \E failing \in SUBSET ids : \E t \in {ReturnOldest(Complete(s, ids, failing))} :
             be' = t.be /\ mem' = t.mem /\ request' = t.request /\ response' = t.response
  BY <1>3, Zenon
<1>12. PICK failing \in SUBSET ids :
          \E t \in {ReturnOldest(Complete(s, ids, failing))} :
             be' = t.be /\ mem' = t.mem /\ request' = t.request /\ response' = t.response
  BY <1>11, Zenon
<1>5. PICK t \in {ReturnOldest(Complete(s, ids, failing))} :
         be' = t.be /\ mem' = t.mem /\ request' = t.request /\ response' = t.response
  BY <1>12, Zenon
<1>6. Ledger(t, m)
  BY <1>2, <1>4, CompleteKeeps, ReturnKeeps
<1>7. t \in [be: {t.be}, mem: {t.mem}, request: {t.request}, response: {t.response}]
  BY <1>6 DEF Ledger, Typed, Shape
<1>8. t = [be |-> t.be, mem |-> t.mem, request |-> t.request, response |-> t.response]
  BY <1>7
<1>9. Backend' = t
  BY <1>5, <1>8 DEF Backend
<1>10. issued' = m
  BY DEF Run
<1>13. QED
  BY <1>2, <1>6, <1>9, <1>10 DEF LedgerInv

LEMMA IssueKeeps == ASSUME LedgerInv, NEW k \in Kinds, Issue(k) PROVE LedgerInv'
<1> PICK s, t, m, r, q, n : /\ s = Backend /\ m = issued /\ r = request /\ n = Len(request)
                            /\ q = [n |-> issued + 1, kind |-> k] /\ t = [Backend EXCEPT !.request = Append(request, q)]
  OBVIOUS
<1>1. /\ Typed(s) /\ Books(s.be.bursts, s.be.children, s.be.next_mem, s.mem.live)
      /\ Numbered(s.be.bursts, r, m) /\ m \in Nat
  BY BackendFields DEF LedgerInv, Ledger
<1>2. r \in Seq(Requests) /\ n \in Nat /\ n < InDepth /\ r = s.request
  BY <1>1, BackendFields DEF Typed, Issue
<1>3. q \in Requests
  BY <1>1 DEF Requests
<1>4. t = [be |-> s.be, mem |-> s.mem, request |-> Append(r, q), response |-> s.response]
  BY BackendFields DEF Backend
<1>5. be' = s.be /\ mem' = s.mem /\ response' = s.response /\ request' = Append(r, q) /\ issued' = m + 1
  BY BackendFields DEF Issue
<1>6. Backend' = t
  BY <1>4, <1>5 DEF Backend
<1>7. t.be = s.be /\ t.mem = s.mem /\ t.response = s.response /\ t.request = Append(r, q)
  BY <1>4
<1>8. /\ Append(r, q) \in Seq(Requests) /\ Len(Append(r, q)) = n + 1
      /\ \A j \in 1 .. n : Append(r, q)[j] = r[j]
      /\ Append(r, q)[n + 1] = q /\ DOMAIN Append(r, q) = 1 .. (n + 1) /\ DOMAIN r = 1 .. n
  BY <1>2, <1>3
<1>9. Len(Append(r, q)) <= InDepth
  BY <1>2, <1>8, BackendAssumption
<1>10. Shape(t)
  <2>1. s.be = be /\ s.mem = mem /\ Shape(s)
    BY <1>1, BackendFields DEF Typed
  <2>2. QED
    BY <1>4, <2>1 DEF Shape
<1>11. Typed(t)
  BY <1>1, <1>7, <1>8, <1>9, <1>10 DEF Typed
<1>12. Numbered(s.be.bursts, Append(r, q), m + 1)
  <2> PICK bs, w : bs = s.be.bursts /\ w = Append(r, q)
    OBVIOUS
  <2>1. Numbered(bs, r, m)
    BY <1>1
  <2>2. \A i \in DOMAIN bs : bs[i].n \in 1 .. m
    BY <2>1 DEF Numbered
  <2>3. ASSUME NEW j \in 1 .. (n + 1)
        PROVE  \/ j = n + 1 /\ w[j].n = m + 1
               \/ j \in 1 .. n /\ w[j] = r[j] /\ w[j].n \in 1 .. m
    <3>1. CASE j = n + 1
      <4>1. w[j] = q
        BY <1>8, <3>1
      <4>2. q = [n |-> issued + 1, kind |-> k] /\ m = issued
        OBVIOUS
      <4>3. q.n = m + 1
        BY <4>2
      <4>4. w[j].n = m + 1
        BY <4>1, <4>3, Zenon
      <4>5. QED
        BY <3>1, <4>4, Zenon
    <3>2. CASE j # n + 1
      <4>1. j \in 1 .. n
        BY <1>2, <3>2
      <4>2. w[j] = r[j] /\ r[j].n \in 1 .. m
        BY <1>8, <2>1, <4>1 DEF Numbered
      <4>3. QED
        BY <4>1, <4>2
    <3>3. QED
      BY <3>1, <3>2
  <2>4. ASSUME NEW i \in DOMAIN bs, NEW j \in 1 .. (n + 1) PROVE bs[i].n < w[j].n
    <3>1. CASE j = n + 1 /\ w[j].n = m + 1
      BY <1>1, <2>2, <3>1
    <3>2. CASE j \in 1 .. n /\ w[j] = r[j]
      BY <1>8, <2>1, <3>2 DEF Numbered
    <3>3. QED
      BY <2>3, <3>1, <3>2
  <2>5. ASSUME NEW i \in 1 .. (n + 1), NEW j \in 1 .. (n + 1), i < j PROVE w[i].n < w[j].n
    <3>1. i \in 1 .. n /\ w[i] = r[i] /\ w[i].n \in 1 .. m
      BY <1>2, <2>3, <2>5
    <3>2. CASE j = n + 1 /\ w[j].n = m + 1
      BY <1>1, <3>1, <3>2
    <3>3. CASE j \in 1 .. n /\ w[j] = r[j]
      BY <1>8, <2>1, <2>5, <3>1, <3>3 DEF Numbered
    <3>4. QED
      BY <2>3, <3>2, <3>3
  <2>6. ASSUME NEW j \in 1 .. (n + 1) PROVE w[j].n \in 1 .. (m + 1)
    BY <1>1, <2>3
  <2>7. \A i \in DOMAIN bs : bs[i].n \in 1 .. (m + 1)
    BY <1>1, <2>2
  <2>8. DOMAIN w = 1 .. (n + 1)
    BY <1>8
  <2>9. Numbered(bs, w, m + 1)
    BY <2>4, <2>5, <2>6, <2>7, <2>8 DEF Numbered
  <2>10. QED
    BY <2>9
<1>13. Ledger(t, m + 1)
  BY <1>1, <1>7, <1>11, <1>12 DEF Ledger
<1>14. QED
  BY <1>1, <1>5, <1>6, <1>13 DEF LedgerInv

LEMMA TakeKeeps == ASSUME LedgerInv, TakeResponse PROVE LedgerInv'
<1> PICK s, t, r : s = Backend /\ r = response /\ t = [Backend EXCEPT !.response = Tail(response)]
  OBVIOUS
<1>1. Ledger(s, issued) /\ Typed(s)
  BY DEF LedgerInv, Ledger
<1>2. r \in Seq(Answers) /\ r # <<>> /\ Len(r) <= OutDepth /\ r = s.response
  BY <1>1, BackendFields DEF Typed, TakeResponse
<1>3. Tail(r) \in Seq(Answers) /\ Len(Tail(r)) <= OutDepth
  BY <1>2, BackendAssumption
<1>4. t = [be |-> s.be, mem |-> s.mem, request |-> s.request, response |-> Tail(r)]
  BY BackendFields DEF Backend
<1>5. be' = s.be /\ mem' = s.mem /\ response' = Tail(r) /\ request' = s.request /\ issued' = issued
  BY BackendFields DEF TakeResponse
<1>6. Backend' = t
  BY <1>4, <1>5 DEF Backend
<1>7. t.be = s.be /\ t.mem = s.mem /\ t.response = Tail(r) /\ t.request = s.request
  BY <1>4
<1>8. Shape(t)
  BY <1>1, <1>4 DEF Typed, Shape
<1>9. Typed(t)
  BY <1>1, <1>3, <1>7, <1>8 DEF Typed
<1>10. Ledger(t, issued)
  BY <1>1, <1>7, <1>9 DEF Ledger
<1>11. QED
  BY <1>5, <1>6, <1>10 DEF LedgerInv

LEMMA BackendNextLedger == ASSUME LedgerInv, [BackendNext]_backendVars PROVE LedgerInv'
<1>1. CASE UNCHANGED backendVars
  BY <1>1 DEF backendVars, LedgerInv, Backend
<1>2. CASE BackendNext
  BY <1>2, RunKeeps, IssueKeeps, TakeKeeps DEF BackendNext
<1>3. QED
  BY <1>1, <1>2

LEMMA LedgerIsEnough == ASSUME LedgerInv PROVE LedgersAgree
<1> DEFINE bs == be.bursts
           ch == be.children
           nm == be.next_mem
           lv == mem.live
<1>1. Typed(Backend) /\ Books(bs, ch, nm, lv)
  BY BackendFields DEF LedgerInv, Ledger
<1>2. /\ bs \in Seq(HeldBursts) /\ Len(bs) <= Slots /\ be.ok /\ be.held \in {NotHeld} \cup 0 .. Hold
      /\ Len(request) <= InDepth /\ Len(response) <= OutDepth
  BY <1>1, BackendFields DEF Typed
<1>3. DOMAIN bs = 1 .. Len(bs)
  BY <1>2
<1>4. ASSUME NEW i \in 1 .. Len(bs) PROVE bs[i].sent \in 0 .. bs[i].kind.length
  <2> PICK b : b = bs[i]
    OBVIOUS
  <2>1. b \in HeldBursts /\ Sound(b, ch, nm) /\ b.sent \in Nat
    BY <1>1, <1>3, BurstAt
  <2>2. b.kind.length \in Nat
    BY <2>1, KindFacts DEF HeldBursts
  <2>3. QED
    BY <2>1, <2>2 DEF Sound
<1>5. BackendTypeOK
  BY <1>2, <1>4 DEF BackendTypeOK
<1> DEFINE child(c) == ch[c].offset .. (ch[c].offset + ch[c].bytes - 1)
           of(i) == {c \in DOMAIN ch : ch[c].n = bs[i].n}
<1>6. \A i : of(i) = Of(ch, bs[i].n)
  BY DEF Of
<1>7. DOMAIN ch = DOMAIN lv
  BY <1>1 DEF Books, Paired
<1>8. DOMAIN ch = UNION {of(i) : i \in 1 .. Len(bs)}
  BY <1>1, <1>3 DEF Books, Paired
<1>9. \A c \in DOMAIN ch : ch[c].offset \in Nat /\ ch[c].bytes \in Nat \ {0}
  BY <1>1 DEF Books, Paired, Child
<1>10. ASSUME NEW i \in 1 .. Len(bs)
       PROVE  /\ Cardinality(of(i)) = bs[i].pending
              /\ \A c \in of(i) : child(c) \subseteq 0 .. (bs[i].sent - 1)
              /\ \A c, d \in of(i) : c # d => child(c) \cap child(d) = {}
  <2> PICK b : b = bs[i]
    OBVIOUS
  <2>1. Sound(b, ch, nm) /\ b.sent \in Nat
    BY <1>1, <1>3, BurstAt
  <2>2. Cardinality(of(i)) = b.pending
    BY <1>6, <2>1 DEF Sound
  <2>3. ASSUME NEW c \in of(i) PROVE child(c) \subseteq 0 .. (b.sent - 1)
    <3>1. To(ch, c) <= b.sent
      BY <2>1, <2>3 DEF Sound, Of
    <3>2. QED
      BY <1>9, <2>1, <2>3, <3>1 DEF To
  <2>4. ASSUME NEW c \in of(i), NEW d \in of(i), c # d PROVE child(c) \cap child(d) = {}
    <3>1. Disjoint(ch, c, d)
      BY <1>1 DEF Books, Apart
    <3>2. To(ch, c) <= From(ch, d) \/ To(ch, d) <= From(ch, c)
      BY <2>4, <3>1 DEF Disjoint
    <3>3. QED
      BY <1>9, <2>4, <3>2 DEF To, From
  <2>5. QED
    BY <2>2, <2>3, <2>4
<1>11. LedgersMatch
  <2> HIDE DEF child, of
  <2>1. /\ DOMAIN ch = DOMAIN lv
        /\ DOMAIN ch = UNION {of(i) : i \in 1 .. Len(bs)}
        /\ \A i \in 1 .. Len(bs) :
              /\ Cardinality(of(i)) = bs[i].pending
              /\ \A c \in of(i) : child(c) \subseteq 0 .. (bs[i].sent - 1)
              /\ \A c, d \in of(i) : c # d => child(c) \cap child(d) = {}
    BY <1>7, <1>8, <1>10
  <2>2. QED
    BY <2>1, Zenon DEF LedgersMatch, child, of
<1>12. QED
  BY <1>2, <1>5, <1>11 DEF LedgersAgree, NeverFatal

\* No call of the online interface fails whatever mem_sim refuses, and the backend's children are
\* exactly what mem_sim has live, each a part of a burst still held (memsim_backend.cc:56-107).
THEOREM LedgersAlwaysAgree == BackendSpec => []LedgersAgree
<1>1. BackendInit => LedgerInv
  BY BackendInitLedger
<1>2. LedgerInv /\ [BackendNext]_backendVars => LedgerInv'
  BY BackendNextLedger
<1>3. LedgerInv => LedgersAgree
  BY LedgerIsEnough
<1>4. QED
  BY <1>1, <1>2, <1>3, PTL DEF BackendSpec

-----------------------------------------------------------------------------
(* The memory promised                                                       *)

HeldOf(bs, ch, lv, im) ==
    [i \in 1 .. Len(bs) |->
        [n |-> bs[i].n, served |-> Status(bs[i].kind) = "ok", data |-> Wanted(bs[i], ch, lv, ImageBefore(bs, im, i))]]
ImageOf(bs, im) == ImageBefore(bs, im, Len(bs) + 1)

LEMMA ServedIs ==
    ASSUME NEW k \in Kinds
    PROVE  OrderedMemory!Served(k) <=> Status(k) = "ok"
<1>1. /\ k.addr \in Nat /\ k.length \in Nat \ {0} /\ Size \in Nat \ {0}
      /\ k.write \in BOOLEAN /\ k.lock \in BOOLEAN /\ k.strobe \in BOOLEAN
  BY BackendAssumption
<1>2. OrderedMemory!Bytes(k) \subseteq 0 .. (Size - 1) <=> k.addr + k.length <= Size
  <2>1. ASSUME OrderedMemory!Bytes(k) \subseteq 0 .. (Size - 1) PROVE k.addr + k.length <= Size
    <3>1. k.addr + k.length - 1 \in OrderedMemory!Bytes(k)
      BY <1>1 DEF OrderedMemory!Bytes
    <3>2. k.addr + k.length - 1 \in 0 .. (Size - 1)
      BY <2>1, <3>1
    <3>3. QED
      BY <1>1, <3>2
  <2>2. ASSUME k.addr + k.length <= Size PROVE OrderedMemory!Bytes(k) \subseteq 0 .. (Size - 1)
    BY <1>1, <2>2 DEF OrderedMemory!Bytes
  <2>3. QED
    BY <2>1, <2>2
<1>3. QED
  BY <1>1, <1>2 DEF OrderedMemory!Served, Status

-----------------------------------------------------------------------------
(* The image before a burst                                                  *)

LEMMA MaxIs ==
    ASSUME NEW T \in SUBSET Int, NEW x \in T, \A y \in T : y <= x
    PROVE  Max(T) = x
<1>1. \A z \in T : (\A y \in T : y <= z) => z = x
  OBVIOUS
<1>2. QED
  BY <1>1 DEF Max

LEMMA GreatestOf ==
    ASSUME NEW n \in Nat, NEW T \in SUBSET (1 .. n), T # {}
    PROVE  Max(T) \in T /\ \A y \in T : y <= Max(T)
<1> DEFINE D == {n - y : y \in T}
<1>1. D \in SUBSET Nat /\ D # {}
  OBVIOUS
<1>2. Min(D) \in D /\ \A y \in D : Min(D) <= y
  BY <1>1, LeastOf
<1>3. PICK x \in T : Min(D) = n - x
  BY <1>2
<1>4. ASSUME NEW y \in T PROVE y <= x
  <2>1. n - y \in D /\ n - x <= n - y
    BY <1>2, <1>3
  <2>2. x \in Int /\ y \in Int
    OBVIOUS
  <2>3. QED
    BY <2>1, <2>2
<1>5. T \in SUBSET Int
  OBVIOUS
<1>6. Max(T) = x
  BY <1>4, <1>5, MaxIs
<1>7. QED
  BY <1>4, <1>6

\* Writes whole byte a is still to come.
Awaits(r, a) == r.kind.write /\ a - r.kind.addr \in r.sent .. (r.kind.length - 1)

LEMMA UnwrittenIs ==
    ASSUME NEW bs, NEW i, NEW a
    PROVE  Unwritten(bs, i, a) = {j \in 1 .. (i - 1) : Awaits(bs[j], a)}
BY DEF Unwritten, Awaits

\* A byte of the image before burst i: the last of the bursts before it that awaits it, or none.
LEMMA ImageByte ==
    ASSUME NEW bs, NEW im, NEW i \in Nat, NEW a \in Window
    PROVE  /\ (\A j \in 1 .. (i - 1) : ~Awaits(bs[j], a)) => ImageBefore(bs, im, i)[a] = im[a]
           /\ \A k \in 1 .. (i - 1) : Awaits(bs[k], a) /\ (\A j \in (k + 1) .. (i - 1) : ~Awaits(bs[j], a))
                                      => ImageBefore(bs, im, i)[a] = bs[k].n
<1> DEFINE T == {j \in 1 .. (i - 1) : Awaits(bs[j], a)}
<1>1. ImageBefore(bs, im, i)[a] = IF T = {} THEN im[a] ELSE bs[Max(T)].n
  BY UnwrittenIs DEF ImageBefore
<1>2. ASSUME \A j \in 1 .. (i - 1) : ~Awaits(bs[j], a) PROVE ImageBefore(bs, im, i)[a] = im[a]
  <2>1. T = {}
    BY <1>2
  <2>2. QED
    BY <1>1, <2>1
<1>3. ASSUME NEW k \in 1 .. (i - 1), Awaits(bs[k], a), \A j \in (k + 1) .. (i - 1) : ~Awaits(bs[j], a)
      PROVE  ImageBefore(bs, im, i)[a] = bs[k].n
  <2>1. k \in T /\ T \in SUBSET Int
    BY <1>3
  <2>2. ASSUME NEW y \in T PROVE y <= k
    <3>1. y \in 1 .. (i - 1) /\ Awaits(bs[y], a)
      OBVIOUS
    <3>2. ~(y \in (k + 1) .. (i - 1))
      BY <1>3, <3>1
    <3>3. QED
      BY <3>1, <3>2
  <2>3. Max(T) = k
    BY <2>1, <2>2, MaxIs
  <2>4. T # {}
    BY <2>1
  <2>5. QED
    BY <1>1, <2>3, <2>4
<1>4. QED
  BY <1>2, <1>3

LEMMA ImageNone ==
    ASSUME NEW bs, NEW im, NEW i \in Nat, NEW a \in Window, \A j \in 1 .. (i - 1) : ~Awaits(bs[j], a)
    PROVE  ImageBefore(bs, im, i)[a] = im[a]
BY ImageByte

LEMMA ImageLast ==
    ASSUME NEW bs, NEW im, NEW i \in Nat, NEW a \in Window, NEW k \in 1 .. (i - 1), Awaits(bs[k], a),
           \A j \in (k + 1) .. (i - 1) : ~Awaits(bs[j], a)
    PROVE  ImageBefore(bs, im, i)[a] = bs[k].n
BY ImageByte

\* Either nobody awaits the byte or there is a last who does.
LEMMA LastAwaits ==
    ASSUME NEW bs, NEW i \in Nat \ {0}, NEW a
    PROVE  \/ \A j \in 1 .. (i - 1) : ~Awaits(bs[j], a)
           \/ \E k \in 1 .. (i - 1) : Awaits(bs[k], a) /\ \A j \in (k + 1) .. (i - 1) : ~Awaits(bs[j], a)
<1> DEFINE T == {j \in 1 .. (i - 1) : Awaits(bs[j], a)}
<1>1. CASE T = {}
  BY <1>1
<1>2. CASE T # {}
  <2> PICK n, k : n = i - 1 /\ k = Max(T)
    OBVIOUS
  <2>1. n \in Nat /\ T \in SUBSET (1 .. n)
    OBVIOUS
  <2>2. k \in T /\ \A y \in T : y <= k
    BY <1>2, <2>1, GreatestOf
  <2>3. ASSUME NEW j \in (k + 1) .. (i - 1) PROVE ~Awaits(bs[j], a)
    <3>1. k \in Int /\ 1 <= k
      BY <2>2
    <3>2. j \in 1 .. (i - 1) /\ ~(j <= k)
      BY <3>1
    <3>3. QED
      BY <2>2, <3>2
  <2>4. QED
    BY <2>2, <2>3
<1>3. QED
  BY <1>1, <1>2

\* Two images are the same if the same byte or the same last burst gives each byte.
LEMMA SameImage ==
    ASSUME NEW bs, NEW cs, NEW im, NEW i \in Nat \ {0},
           \A j \in 1 .. (i - 1) : cs[j].n = bs[j].n /\ \A a \in Window : Awaits(cs[j], a) <=> Awaits(bs[j], a)
    PROVE  ImageBefore(cs, im, i) = ImageBefore(bs, im, i)
<1>1. ASSUME NEW a \in Window PROVE ImageBefore(cs, im, i)[a] = ImageBefore(bs, im, i)[a]
  <2>1. CASE \A j \in 1 .. (i - 1) : ~Awaits(bs[j], a)
    BY <2>1, ImageByte
  <2>2. ASSUME NEW k \in 1 .. (i - 1), Awaits(bs[k], a), \A j \in (k + 1) .. (i - 1) : ~Awaits(bs[j], a)
        PROVE  ImageBefore(cs, im, i)[a] = ImageBefore(bs, im, i)[a]
    <3>1. Awaits(cs[k], a) /\ cs[k].n = bs[k].n
      BY <2>2
    <3>2. \A j \in (k + 1) .. (i - 1) : ~Awaits(cs[j], a)
      BY <2>2
    <3>3. ImageBefore(cs, im, i)[a] = cs[k].n
      BY <3>1, <3>2, ImageByte
    <3>4. ImageBefore(bs, im, i)[a] = bs[k].n
      BY <2>2, ImageByte
    <3>5. QED
      BY <3>1, <3>3, <3>4
  <2>3. QED
    BY <2>1, <2>2, LastAwaits
<1>2. QED
  BY <1>1 DEF ImageBefore

\* After n bursts r has been taken: bs is now cs; the images before the bursts.
Grown(bs, cs, r, n) == (\A j \in 1 .. n : cs[j] = bs[j]) /\ cs[n + 1] = r
GrownImages(bs, cs, r, n, im) ==
    /\ \A i \in 1 .. (n + 1) : ImageBefore(cs, im, i) = ImageBefore(bs, im, i)
    /\ ImageBefore(cs, im, n + 2) =
          [a \in Window |-> IF Awaits(r, a) THEN r.n ELSE ImageBefore(bs, im, n + 1)[a]]

LEMMA AppendedImage ==
    ASSUME NEW bs, NEW r, NEW im, NEW n \in Nat, NEW cs, Grown(bs, cs, r, n)
    PROVE  GrownImages(bs, cs, r, n, im)
<1>0. (\A j \in 1 .. n : cs[j] = bs[j]) /\ cs[n + 1] = r
  BY DEF Grown
<1>1. ASSUME NEW i \in 1 .. (n + 1) PROVE ImageBefore(cs, im, i) = ImageBefore(bs, im, i)
  <2>1. i \in Nat \ {0} /\ \A j \in 1 .. (i - 1) : cs[j] = bs[j]
    BY <1>0
  <2>2. \A j \in 1 .. (i - 1) : cs[j].n = bs[j].n /\ \A a \in Window : Awaits(cs[j], a) <=> Awaits(bs[j], a)
    BY <2>1
  <2>3. QED
    BY <2>1, <2>2, SameImage
<1> PICK l, u : l = n + 1 /\ u = n + 2
  OBVIOUS
<1>2. /\ l \in Nat \ {0} /\ u \in Nat \ {0} /\ l \in 1 .. (u - 1) /\ l - 1 = n
      /\ \A j \in 1 .. (u - 1) : j = l \/ j \in 1 .. n
      /\ \A j \in (l + 1) .. (u - 1) : FALSE
      /\ cs[l] = r
  BY <1>0
<1>3. ASSUME NEW a \in Window
      PROVE  ImageBefore(cs, im, u)[a] = IF Awaits(r, a) THEN r.n ELSE ImageBefore(bs, im, l)[a]
  <2>1. CASE Awaits(r, a)
    <3>1. Awaits(cs[l], a) /\ \A j \in (l + 1) .. (u - 1) : ~Awaits(cs[j], a)
      BY <1>2, <2>1
    <3>2. ImageBefore(cs, im, u)[a] = cs[l].n
      BY <1>2, <3>1, ImageLast
    <3>3. QED
      BY <1>2, <2>1, <3>2
  <2>2. CASE ~Awaits(r, a)
    <3>1. ASSUME \A j \in 1 .. (l - 1) : ~Awaits(bs[j], a)
          PROVE  ImageBefore(cs, im, u)[a] = ImageBefore(bs, im, l)[a]
      <4>1. ASSUME NEW j \in 1 .. (u - 1) PROVE ~Awaits(cs[j], a)
        BY <1>0, <1>2, <2>2, <3>1
      <4>2. ImageBefore(cs, im, u)[a] = im[a]
        BY <1>2, <4>1, ImageNone
      <4>3. ImageBefore(bs, im, l)[a] = im[a]
        BY <1>2, <3>1, ImageNone
      <4>4. QED
        BY <4>2, <4>3
    <3>2. ASSUME NEW k \in 1 .. (l - 1), Awaits(bs[k], a), \A j \in (k + 1) .. (l - 1) : ~Awaits(bs[j], a)
          PROVE  ImageBefore(cs, im, u)[a] = ImageBefore(bs, im, l)[a]
      <4>1. k \in 1 .. (u - 1) /\ cs[k] = bs[k] /\ Awaits(cs[k], a)
        BY <1>0, <1>2, <3>2
      <4>2. ASSUME NEW j \in (k + 1) .. (u - 1) PROVE ~Awaits(cs[j], a)
        <5>1. CASE j = l
          BY <1>2, <2>2, <5>1
        <5>2. CASE j # l
          <6>1. j \in 1 .. n /\ j \in (k + 1) .. (l - 1)
            BY <1>2, <5>2
          <6>2. QED
            BY <1>0, <3>2, <6>1
        <5>3. QED
          BY <5>1, <5>2
      <4>3. ImageBefore(cs, im, u)[a] = cs[k].n
        BY <1>2, <4>1, <4>2, ImageLast
      <4>4. ImageBefore(bs, im, l)[a] = bs[k].n
        BY <1>2, <3>2, ImageLast
      <4>5. QED
        BY <4>1, <4>3, <4>4
    <3>3. \/ \A j \in 1 .. (l - 1) : ~Awaits(bs[j], a)
          \/ \E k \in 1 .. (l - 1) : Awaits(bs[k], a) /\ \A j \in (k + 1) .. (l - 1) : ~Awaits(bs[j], a)
      BY <1>2, LastAwaits
    <3>4. ImageBefore(cs, im, u)[a] = ImageBefore(bs, im, l)[a]
      BY <3>1, <3>2, <3>3, Zenon
    <3>5. QED
      BY <2>2, <3>4
  <2>3. QED
    BY <2>1, <2>2
<1>4. ImageBefore(cs, im, u) =
         [a \in Window |-> IF Awaits(r, a) THEN r.n ELSE ImageBefore(bs, im, l)[a]]
  BY <1>3 DEF ImageBefore
<1>5. ImageBefore(cs, im, n + 2) =
         [a \in Window |-> IF Awaits(r, a) THEN r.n ELSE ImageBefore(bs, im, n + 1)[a]]
  BY <1>4, Zenon
<1>6. QED
  BY <1>1, <1>5 DEF GrownImages

\* A first burst that is sent in full is in no image.
LEMMA TailImage ==
    ASSUME NEW bs, \A a \in Window : ~Awaits(bs[1], a), NEW i \in Nat \ {0},
           NEW im, NEW cs, \A j \in 1 .. (i - 1) : cs[j] = bs[j + 1]
    PROVE  ImageBefore(cs, im, i) = ImageBefore(bs, im, i + 1)
<1> PICK u : u = i + 1
  OBVIOUS
<1>1. /\ u \in Nat \ {0}
      /\ \A j \in 1 .. (i - 1) : cs[j] = bs[j + 1] /\ j + 1 \in 1 .. (u - 1)
      /\ \A j \in 1 .. (u - 1) : j = 1 \/ (j - 1 \in 1 .. (i - 1) /\ cs[j - 1] = bs[j])
  <2>1. ASSUME NEW j \in 1 .. (u - 1), j # 1 PROVE j - 1 \in 1 .. (i - 1) /\ cs[j - 1] = bs[j]
    <3>1. j - 1 \in 1 .. (i - 1) /\ (j - 1) + 1 = j
      BY <2>1
    <3>2. cs[j - 1] = bs[(j - 1) + 1]
      BY <3>1
    <3>3. QED
      BY <3>1, <3>2
  <2>2. QED
    BY <2>1
<1>2. ASSUME NEW a \in Window PROVE ImageBefore(cs, im, i)[a] = ImageBefore(bs, im, u)[a]
  <2>1. ~Awaits(bs[1], a)
    OBVIOUS
  <2>2. ASSUME \A j \in 1 .. (i - 1) : ~Awaits(cs[j], a)
        PROVE  ImageBefore(cs, im, i)[a] = ImageBefore(bs, im, u)[a]
    <3>1. ASSUME NEW j \in 1 .. (u - 1) PROVE ~Awaits(bs[j], a)
      <4>1. CASE j = 1
        BY <2>1, <4>1
      <4>2. CASE j - 1 \in 1 .. (i - 1) /\ cs[j - 1] = bs[j]
        <5>1. ~Awaits(cs[j - 1], a)
          BY <2>2, <4>2
        <5>2. QED
          BY <4>2, <5>1
      <4>3. QED
        BY <1>1, <4>1, <4>2
    <3>2. ImageBefore(cs, im, i)[a] = im[a]
      BY <2>2, ImageNone
    <3>3. ImageBefore(bs, im, u)[a] = im[a]
      BY <1>1, <3>1, ImageNone
    <3>4. QED
      BY <3>2, <3>3
  <2>3. ASSUME NEW k \in 1 .. (i - 1), Awaits(cs[k], a), \A j \in (k + 1) .. (i - 1) : ~Awaits(cs[j], a)
        PROVE  ImageBefore(cs, im, i)[a] = ImageBefore(bs, im, u)[a]
    <3> PICK l : l = k + 1
      OBVIOUS
    <3>1. l \in 1 .. (u - 1) /\ cs[k] = bs[l] /\ Awaits(bs[l], a)
      BY <1>1, <2>3
    <3>2. ASSUME NEW j \in (l + 1) .. (u - 1) PROVE ~Awaits(bs[j], a)
      <4>1. j \in 1 .. (u - 1) /\ j # 1
        BY <3>1
      <4>2. cs[j - 1] = bs[j]
        BY <1>1, <4>1
      <4>3. j - 1 \in (k + 1) .. (i - 1)
        BY <1>1
      <4>4. ~Awaits(cs[j - 1], a)
        BY <2>3, <4>3
      <4>5. QED
        BY <4>2, <4>4
    <3>3. ImageBefore(cs, im, i)[a] = cs[k].n
      BY <2>3, ImageLast
    <3>4. ImageBefore(bs, im, u)[a] = bs[l].n
      BY <1>1, <3>1, <3>2, ImageLast
    <3>5. QED
      BY <3>1, <3>3, <3>4
  <2>4. QED
    BY <2>2, <2>3, LastAwaits
<1>3. QED
  BY <1>2 DEF ImageBefore

\* Burst i, first of the n that have something to send, has sent a piece: bs is now cs, im is im2.
Progress(bs, cs, im, im2, n, i) ==
    /\ \A j \in 1 .. (i - 1) : \A a \in Window : ~Awaits(bs[j], a)
    /\ \A j \in 1 .. n : j # i => cs[j] = bs[j]
    /\ cs[i].n = bs[i].n
    /\ \A a \in Window : \/ im2[a] = bs[i].n /\ Awaits(bs[i], a) /\ ~Awaits(cs[i], a)
                         \/ im2[a] = im[a] /\ (Awaits(bs[i], a) <=> Awaits(cs[i], a))

LEMMA WrittenImage ==
    ASSUME NEW bs, NEW cs, NEW im, NEW im2, NEW n \in Nat, NEW i \in 1 .. n, NEW k \in (i + 1) .. (n + 1),
           Progress(bs, cs, im, im2, n, i)
    PROVE  ImageBefore(cs, im2, k) = ImageBefore(bs, im, k)
<1>0. /\ \A j \in 1 .. (i - 1) : \A a \in Window : ~Awaits(bs[j], a)
      /\ \A j \in 1 .. n : j # i => cs[j] = bs[j]
      /\ cs[i].n = bs[i].n
      /\ \A a \in Window : \/ im2[a] = bs[i].n /\ Awaits(bs[i], a) /\ ~Awaits(cs[i], a)
                           \/ im2[a] = im[a] /\ (Awaits(bs[i], a) <=> Awaits(cs[i], a))
  BY DEF Progress
<1>1. k \in Nat \ {0} /\ i \in 1 .. (k - 1) /\ \A j \in 1 .. (k - 1) : j \in 1 .. n
  OBVIOUS
<1>2. ASSUME NEW a \in Window PROVE ImageBefore(cs, im2, k)[a] = ImageBefore(bs, im, k)[a]
  <2>1. ASSUME \A j \in 1 .. (k - 1) : ~Awaits(cs[j], a)
        PROVE  ImageBefore(cs, im2, k)[a] = ImageBefore(bs, im, k)[a]
    <3>1. ImageBefore(cs, im2, k)[a] = im2[a]
      BY <1>1, <2>1, ImageByte
    <3>2. \A j \in 1 .. (k - 1) : j # i => ~Awaits(bs[j], a)
      BY <1>0, <1>1, <2>1
    <3>3. CASE im2[a] = bs[i].n /\ Awaits(bs[i], a)
      <4>1. \A j \in (i + 1) .. (k - 1) : ~Awaits(bs[j], a)
        BY <1>1, <3>2
      <4>2. QED
        BY <1>1, <3>1, <3>3, <4>1, ImageByte
    <3>4. CASE im2[a] = im[a] /\ (Awaits(bs[i], a) <=> Awaits(cs[i], a))
      <4>1. \A j \in 1 .. (k - 1) : ~Awaits(bs[j], a)
        BY <1>1, <2>1, <3>2, <3>4
      <4>2. QED
        BY <1>1, <3>1, <3>4, <4>1, ImageByte
    <3>5. QED
      BY <1>0, <3>3, <3>4
  <2>2. ASSUME NEW l \in 1 .. (k - 1), Awaits(cs[l], a), \A j \in (l + 1) .. (k - 1) : ~Awaits(cs[j], a)
        PROVE  ImageBefore(cs, im2, k)[a] = ImageBefore(bs, im, k)[a]
    <3>1. i <= l
      <4>1. CASE l < i
        <5>1. l \in 1 .. (i - 1) /\ l # i /\ l \in 1 .. n
          BY <1>1, <4>1
        <5>2. QED
          BY <1>0, <2>2, <5>1
      <4>2. QED
        BY <4>1
    <3>2. Awaits(bs[l], a) /\ cs[l].n = bs[l].n
      <4>1. CASE l = i
        BY <1>0, <2>2, <4>1
      <4>2. CASE l # i
        BY <1>0, <1>1, <2>2, <4>2
      <4>3. QED
        BY <4>1, <4>2
    <3>3. \A j \in (l + 1) .. (k - 1) : ~Awaits(bs[j], a)
      <4> SUFFICES ASSUME NEW j \in (l + 1) .. (k - 1) PROVE ~Awaits(bs[j], a)
        OBVIOUS
      <4>1. j # i /\ j \in 1 .. n
        BY <1>1, <3>1
      <4>2. QED
        BY <1>0, <2>2, <4>1
    <3>4. ImageBefore(cs, im2, k)[a] = cs[l].n
      BY <1>1, <2>2, ImageByte
    <3>5. ImageBefore(bs, im, k)[a] = bs[l].n
      BY <1>1, <3>2, <3>3, ImageByte
    <3>6. QED
      BY <3>2, <3>4, <3>5
  <2>3. QED
    BY <1>1, <2>1, <2>2, LastAwaits
<1>3. QED
  BY <1>2 DEF ImageBefore

NoneAwaits(bs, i) == \A j \in 1 .. (i - 1) : \A a \in Window : ~Awaits(bs[j], a)

\* Before a burst all of whose predecessors are sent in full, the image is what mem_sim holds.
LEMMA SentImage ==
    ASSUME NEW bs, NEW im \in [Window -> Nat], NEW i \in Nat, NoneAwaits(bs, i)
    PROVE  ImageBefore(bs, im, i) = im
<1>1. \A a \in Window : ImageBefore(bs, im, i)[a] = im[a]
  BY ImageByte DEF NoneAwaits
<1>2. QED
  BY <1>1 DEF ImageBefore

-----------------------------------------------------------------------------
(* What a burst must return                                                  *)

\* Byte o of what read r must return.
WantedByte(r, ch, lv, im, o) ==
    IF o >= r.sent THEN im[r.kind.addr + o]
    ELSE IF Carrying(ch, r.n, o) = {} THEN r.data[o]
    ELSE LET c == CHOOSE d \in Carrying(ch, r.n, o) : TRUE IN lv[c].data[o - ch[c].offset]
Returns(k) == ~(k.write \/ Status(k) # "ok")

LEMMA WantedIs ==
    ASSUME NEW r, NEW ch, NEW lv, NEW im
    PROVE  Wanted(r, ch, lv, im) =
              IF Returns(r.kind) THEN [o \in 0 .. (r.kind.length - 1) |-> WantedByte(r, ch, lv, im, o)] ELSE <<>>
BY Zenon DEF Wanted, WantedByte, Returns

LEMMA SameWanted ==
    ASSUME NEW r, NEW e, NEW ch, NEW ch2, NEW lv, NEW lv2, NEW im, NEW im2, e.kind = r.kind,
           Returns(r.kind) => \A o \in 0 .. (r.kind.length - 1) :
                                 WantedByte(e, ch2, lv2, im2, o) = WantedByte(r, ch, lv, im, o)
    PROVE  Wanted(e, ch2, lv2, im2) = Wanted(r, ch, lv, im)
<1>1. CASE Returns(r.kind)
  <2> PICK k : k = r.kind
    OBVIOUS
  <2>1. /\ Wanted(e, ch2, lv2, im2) = [o \in 0 .. (k.length - 1) |-> WantedByte(e, ch2, lv2, im2, o)]
        /\ Wanted(r, ch, lv, im) = [o \in 0 .. (k.length - 1) |-> WantedByte(r, ch, lv, im, o)]
    BY <1>1, WantedIs
  <2>2. \A o \in 0 .. (k.length - 1) : WantedByte(e, ch2, lv2, im2, o) = WantedByte(r, ch, lv, im, o)
    BY <1>1
  <2>3. QED
    BY <2>1, <2>2
<1>2. CASE ~Returns(r.kind)
  <2>1. Wanted(e, ch2, lv2, im2) = <<>> /\ Wanted(r, ch, lv, im) = <<>>
    BY <1>2, WantedIs
  <2>2. QED
    BY <2>1
<1>3. QED
  BY <1>1, <1>2

\* What is still to be asked for, what has come, and what is on its way.
LEMMA AskedByte ==
    ASSUME NEW r, NEW ch, NEW lv, NEW im, NEW o, o >= r.sent
    PROVE  WantedByte(r, ch, lv, im, o) = im[r.kind.addr + o]
BY DEF WantedByte

LEMMA ComeByte ==
    ASSUME NEW r, NEW ch, NEW lv, NEW im, NEW o, ~(o >= r.sent), Carrying(ch, r.n, o) = {}
    PROVE  WantedByte(r, ch, lv, im, o) = r.data[o]
BY DEF WantedByte

LEMMA CarriedByte ==
    ASSUME NEW r, NEW ch, NEW lv, NEW im, NEW o, ~(o >= r.sent), NEW c, Carrying(ch, r.n, o) = {c}
    PROVE  WantedByte(r, ch, lv, im, o) = lv[c].data[o - ch[c].offset]
BY DEF WantedByte

\* Child c carries byte o of burst n.
Carries(ch, n, o, c) == c \in DOMAIN ch /\ ch[c].n = n /\ From(ch, c) <= o /\ o < To(ch, c)

LEMMA CarriersAre ==
    ASSUME NEW ch, NEW n, NEW o \in Int, \A c \in DOMAIN ch : ch[c].offset \in Nat /\ ch[c].bytes \in Nat
    PROVE  \A c : c \in Carrying(ch, n, o) <=> Carries(ch, n, o, c)
BY DEF Carrying, Carries, From, To

\* A byte of a burst is carried by one child or by none.
LEMMA CarriedOnce ==
    ASSUME NEW bs, NEW ch, NEW nm, NEW lv, Books(bs, ch, nm, lv), NEW n, NEW o \in Int
    PROVE  Carrying(ch, n, o) = {} \/ \E c \in DOMAIN ch : Carrying(ch, n, o) = {c}
<1>1. \A c \in DOMAIN ch : ch[c].offset \in Nat /\ ch[c].bytes \in Nat
  BY DEF Books, Paired, Child
<1>2. \A c : c \in Carrying(ch, n, o) <=> Carries(ch, n, o, c)
  BY <1>1, CarriersAre
<1>3. ASSUME NEW c, NEW d, Carries(ch, n, o, c), Carries(ch, n, o, d) PROVE c = d
  <2>1. Disjoint(ch, c, d)
    BY <1>3 DEF Books, Apart, Carries
  <2>2. From(ch, c) \in Nat /\ To(ch, c) \in Nat /\ From(ch, d) \in Nat /\ To(ch, d) \in Nat
    BY <1>1, <1>3 DEF Carries, From, To
  <2>3. QED
    BY <1>3, <2>1, <2>2 DEF Carries, Disjoint
<1>4. ASSUME NEW c \in Carrying(ch, n, o) PROVE c \in DOMAIN ch /\ Carrying(ch, n, o) = {c}
  BY <1>2, <1>3 DEF Carries
<1>5. QED
  BY <1>4

AllWant(bs, cs, ch, ch2, lv, lv2, im, im2) ==
    /\ Len(cs) = Len(bs)
    /\ \A j \in 1 .. Len(bs) :
          /\ cs[j].n = bs[j].n /\ cs[j].kind = bs[j].kind
          /\ Wanted(cs[j], ch2, lv2, ImageBefore(cs, im2, j)) = Wanted(bs[j], ch, lv, ImageBefore(bs, im, j))

LEMMA SameHeld ==
    ASSUME NEW bs, NEW cs, NEW ch, NEW ch2, NEW lv, NEW lv2, NEW im, NEW im2,
           AllWant(bs, cs, ch, ch2, lv, lv2, im, im2)
    PROVE  HeldOf(cs, ch2, lv2, im2) = HeldOf(bs, ch, lv, im)
BY DEF HeldOf, AllWant

\* The fields of a burst that the refinement looks at.
Alike(e, b) == e.n = b.n /\ e.kind = b.kind /\ e.sent = b.sent /\ e.data = b.data

\* The image looks at the number, the place and the progress of a burst.
LEMMA AlikeImage ==
    ASSUME NEW n \in Nat, NEW bs, NEW cs, NEW im,
           \A j \in 1 .. n : cs[j].n = bs[j].n /\ cs[j].kind = bs[j].kind /\ cs[j].sent = bs[j].sent
    PROVE  \A i \in 1 .. (n + 1) : ImageBefore(cs, im, i) = ImageBefore(bs, im, i)
<1> SUFFICES ASSUME NEW i \in 1 .. (n + 1) PROVE ImageBefore(cs, im, i) = ImageBefore(bs, im, i)
  OBVIOUS
<1>1. i \in Nat \ {0} /\ \A j \in 1 .. (i - 1) : j \in 1 .. n
  OBVIOUS
<1>2. \A j \in 1 .. (i - 1) : cs[j].n = bs[j].n /\ \A a \in Window : Awaits(cs[j], a) <=> Awaits(bs[j], a)
  BY <1>1 DEF Awaits
<1>3. QED
  BY <1>1, <1>2, SameImage

\* What is held and what is written stay the same.
SameView(bs, ch, lv, im, cs, ch2, lv2, im2) ==
    HeldOf(cs, ch2, lv2, im2) = HeldOf(bs, ch, lv, im) /\ ImageOf(cs, im2) = ImageOf(bs, im)

\* An offer that is refused changes nothing.
LEMMA AlikeHeld ==
    ASSUME NEW n \in Nat, NEW bs, NEW cs, NEW ch, NEW lv, NEW im, Len(bs) = n, Len(cs) = n,
           \A j \in 1 .. n : Alike(cs[j], bs[j])
    PROVE  SameView(bs, ch, lv, im, cs, ch, lv, im)
<1>1. \A i \in 1 .. (n + 1) : ImageBefore(cs, im, i) = ImageBefore(bs, im, i)
  BY AlikeImage DEF Alike
<1>2. ASSUME NEW j \in 1 .. n
      PROVE  Wanted(cs[j], ch, lv, ImageBefore(cs, im, j)) = Wanted(bs[j], ch, lv, ImageBefore(bs, im, j))
  <2> PICK a, b, x : a = cs[j] /\ b = bs[j] /\ x = ImageBefore(bs, im, j)
    OBVIOUS
  <2>1. ImageBefore(cs, im, j) = x
    BY <1>1
  <2>2. a.n = b.n /\ a.kind = b.kind /\ a.sent = b.sent /\ a.data = b.data
    BY DEF Alike
  <2>3. \A o : WantedByte(a, ch, lv, x, o) = WantedByte(b, ch, lv, x, o)
    BY <2>2 DEF WantedByte
  <2>4. Wanted(a, ch, lv, x) = Wanted(b, ch, lv, x)
    BY <2>2, <2>3, SameWanted
  <2>5. QED
    BY <2>1, <2>4
<1>3. ImageOf(cs, im) = ImageOf(bs, im)
  BY <1>1 DEF ImageOf
<1>4. \A j \in 1 .. n : cs[j].n = bs[j].n /\ cs[j].kind = bs[j].kind
  BY DEF Alike
<1>5. AllWant(bs, cs, ch, ch, lv, lv, im, im)
  BY <1>2, <1>4 DEF AllWant
<1>6. QED
  BY <1>3, <1>5, SameHeld DEF SameView

\* mem_sim takes the next p bytes of b: it writes them to im, which becomes im2, or reads them into data.
Transfers(b, p, im, im2, data) ==
    /\ im2 = IF b.kind.write
             THEN [a \in Window |-> IF a - (b.kind.addr + b.sent) \in 0 .. (p - 1) THEN b.n ELSE im[a]]
             ELSE im
    /\ data = [o \in 0 .. (p - 1) |-> im[b.kind.addr + b.sent + o]]

\* The children that carry a byte of another burst stay what they are.
LEMMA OtherWanted ==
    ASSUME NEW bs, NEW ch, NEW nm, NEW lv, Books(bs, ch, nm, lv),
           NEW i, NEW id, NEW next, NEW p, NEW e, NEW ch2, NEW lv2,
           Sends(bs, ch, nm, lv, i, id, next, p, e, ch2, lv2),
           NEW r \in HeldBursts, r.n # bs[i].n, NEW im
    PROVE  Wanted(r, ch2, lv2, im) = Wanted(r, ch, lv, im)
<1>1. /\ DOMAIN ch2 = DOMAIN ch \cup {id} /\ \A c \in DOMAIN ch : ch2[c] = ch[c] /\ lv2[c] = lv[c]
      /\ ch2[id].n = bs[i].n /\ id \notin DOMAIN ch
  BY DEF Sends
<1>2. ASSUME NEW o PROVE Carrying(ch2, r.n, o) = Carrying(ch, r.n, o)
  BY <1>1 DEF Carrying
<1>3. \A o : \A c \in Carrying(ch, r.n, o) : c \in DOMAIN ch
  BY DEF Carrying
<1>4. ASSUME NEW o \in Int PROVE WantedByte(r, ch2, lv2, im, o) = WantedByte(r, ch, lv, im, o)
  <2>1. CASE o >= r.sent
    BY <2>1, AskedByte
  <2>2. CASE ~(o >= r.sent) /\ Carrying(ch, r.n, o) = {}
    BY <1>2, <2>2, ComeByte
  <2>3. ASSUME ~(o >= r.sent), NEW c \in DOMAIN ch, Carrying(ch, r.n, o) = {c}
        PROVE  WantedByte(r, ch2, lv2, im, o) = WantedByte(r, ch, lv, im, o)
    <3>1. WantedByte(r, ch2, lv2, im, o) = lv2[c].data[o - ch2[c].offset]
      BY <1>2, <2>3, CarriedByte
    <3>2. WantedByte(r, ch, lv, im, o) = lv[c].data[o - ch[c].offset]
      BY <2>3, CarriedByte
    <3>3. QED
      BY <1>1, <2>3, <3>1, <3>2
  <2>4. QED
    BY <2>1, <2>2, <2>3, CarriedOnce
<1>5. QED
  BY <1>4, SameWanted

\* Burst i, a read, sends its next piece.
Reads(bs, ch, nm, lv, i, id, next, p, e, ch2, lv2, im, im2) ==
    /\ Books(bs, ch, nm, lv) /\ Sends(bs, ch, nm, lv, i, id, next, p, e, ch2, lv2)
    /\ Transfers(bs[i], p, im, im2, lv2[id].data) /\ ~bs[i].kind.write

\* A read that sends its next piece still wants the bytes mem_sim holds.
LEMMA SenderWanted ==
    ASSUME NEW bs, NEW ch, NEW nm, NEW lv, NEW i, NEW id, NEW next, NEW p, NEW e, NEW ch2, NEW lv2, NEW im, NEW im2,
           Reads(bs, ch, nm, lv, i, id, next, p, e, ch2, lv2, im, im2)
    PROVE  Wanted(e, ch2, lv2, im) = Wanted(bs[i], ch, lv, im)
<1> PICK b : b = bs[i]
  OBVIOUS
<1>0. Books(bs, ch, nm, lv) /\ i \in DOMAIN bs /\ bs[i] \in HeldBursts /\ Sound(bs[i], ch, nm)
  BY BurstAt DEF Reads, Sends
<1>1. b \in HeldBursts /\ b.kind \in Kinds /\ b.n \in Nat /\ b.sent \in Nat
  BY <1>0 DEF HeldBursts
<1>2. b.kind.length \in Nat /\ b.kind.addr \in Nat /\ p \in Nat \ {0}
  BY <1>1, KindFacts DEF Reads, Sends
<1>3. e.n = b.n /\ e.kind = b.kind /\ e.sent = b.sent + p /\ e.data = b.data
  BY DEF Reads, Sends
<1>4. /\ DOMAIN ch2 = DOMAIN ch \cup {id} /\ \A c \in DOMAIN ch : ch2[c] = ch[c] /\ lv2[c] = lv[c]
      /\ ch2[id] = [n |-> b.n, offset |-> b.sent, bytes |-> p] /\ id \notin DOMAIN ch
  BY DEF Reads, Sends
<1>5. lv2[id].data = [o \in 0 .. (p - 1) |-> im[b.kind.addr + b.sent + o]]
  BY DEF Reads, Transfers
<1>6. \A c \in DOMAIN ch : ch[c].offset \in Nat /\ ch[c].bytes \in Nat
  BY <1>0 DEF Books, Paired, Child
<1>7. \A c \in DOMAIN ch2 : ch2[c].offset \in Nat /\ ch2[c].bytes \in Nat
  BY <1>1, <1>2, <1>4, <1>6
<1>8. \A c \in Of(ch, b.n) : To(ch, c) <= b.sent
  BY <1>0 DEF Sound
<1>9. ASSUME NEW o \in Int, ~(o >= b.sent) PROVE Carrying(ch2, b.n, o) = Carrying(ch, b.n, o)
  <2>1. \A c : c \in Carrying(ch2, b.n, o) <=> Carries(ch2, b.n, o, c)
    BY <1>7, CarriersAre
  <2>2. \A c : c \in Carrying(ch, b.n, o) <=> Carries(ch, b.n, o, c)
    BY <1>6, CarriersAre
  <2>3. ~Carries(ch2, b.n, o, id)
    BY <1>1, <1>2, <1>4, <1>9 DEF Carries, From
  <2>4. \A c \in DOMAIN ch : Carries(ch2, b.n, o, c) <=> Carries(ch, b.n, o, c)
    BY <1>4 DEF Carries, From, To
  <2>5. \A c : Carries(ch2, b.n, o, c) <=> Carries(ch, b.n, o, c)
    BY <1>4, <2>3, <2>4 DEF Carries
  <2>6. \A c : c \in Carrying(ch2, b.n, o) <=> c \in Carrying(ch, b.n, o)
    BY <2>1, <2>2, <2>5
  <2>7. QED
    BY <2>6 DEF Carrying
<1>10. ASSUME NEW o \in Int, o >= b.sent, ~(o >= b.sent + p) PROVE Carrying(ch2, b.n, o) = {id}
  <2>1. \A c : c \in Carrying(ch2, b.n, o) <=> Carries(ch2, b.n, o, c)
    BY <1>7, CarriersAre
  <2>2. Carries(ch2, b.n, o, id)
    BY <1>1, <1>2, <1>4, <1>10 DEF Carries, From, To
  <2>3. ASSUME NEW c \in DOMAIN ch PROVE ~Carries(ch2, b.n, o, c)
    <3>1. CASE ch[c].n = b.n
      <4>1. To(ch, c) <= b.sent /\ To(ch, c) \in Nat
        BY <1>6, <1>8, <3>1 DEF Of, To
      <4>2. To(ch2, c) = To(ch, c)
        BY <1>4 DEF To
      <4>3. QED
        BY <1>1, <1>10, <4>1, <4>2 DEF Carries
    <3>2. CASE ch[c].n # b.n
      BY <1>4, <3>2 DEF Carries
    <3>3. QED
      BY <3>1, <3>2
  <2>4. \A c : c \in Carrying(ch2, b.n, o) <=> c = id
    BY <1>4, <2>1, <2>2, <2>3 DEF Carries
  <2>5. QED
    BY <2>4
<1>11. ASSUME NEW o \in Int PROVE WantedByte(e, ch2, lv2, im, o) = WantedByte(b, ch, lv, im, o)
  <2>1. CASE o >= b.sent + p
    <3>1. o >= e.sent /\ o >= b.sent
      BY <1>1, <1>2, <1>3, <2>1
    <3>2. QED
      BY <1>3, <3>1, AskedByte
  <2>2. CASE o >= b.sent /\ ~(o >= b.sent + p)
    <3>1. ~(o >= e.sent) /\ Carrying(ch2, e.n, o) = {id}
      BY <1>3, <1>10, <2>2
    <3>2. WantedByte(e, ch2, lv2, im, o) = lv2[id].data[o - ch2[id].offset]
      BY <3>1, CarriedByte
    <3>3. ch2[id].offset = b.sent
      BY <1>4
    <3>4. o - b.sent \in 0 .. (p - 1) /\ b.kind.addr + b.sent + (o - b.sent) = b.kind.addr + o
      BY <1>1, <1>2, <2>2
    <3>5. lv2[id].data[o - b.sent] = im[b.kind.addr + o]
      BY <1>5, <3>4
    <3>6. WantedByte(b, ch, lv, im, o) = im[b.kind.addr + o]
      BY <2>2, AskedByte
    <3>7. QED
      BY <3>2, <3>3, <3>5, <3>6
  <2>3. ASSUME ~(o >= b.sent), Carrying(ch, b.n, o) = {}
        PROVE  WantedByte(e, ch2, lv2, im, o) = WantedByte(b, ch, lv, im, o)
    <3>1. ~(o >= e.sent) /\ Carrying(ch2, e.n, o) = {}
      BY <1>1, <1>2, <1>3, <1>9, <2>3
    <3>2. QED
      BY <1>3, <2>3, <3>1, ComeByte
  <2>4. ASSUME ~(o >= b.sent), NEW c \in DOMAIN ch, Carrying(ch, b.n, o) = {c}
        PROVE  WantedByte(e, ch2, lv2, im, o) = WantedByte(b, ch, lv, im, o)
    <3>1. ~(o >= e.sent) /\ Carrying(ch2, e.n, o) = {c}
      BY <1>1, <1>2, <1>3, <1>9, <2>4
    <3>2. WantedByte(e, ch2, lv2, im, o) = lv2[c].data[o - ch2[c].offset]
      BY <3>1, CarriedByte
    <3>3. WantedByte(b, ch, lv, im, o) = lv[c].data[o - ch[c].offset]
      BY <2>4, CarriedByte
    <3>4. QED
      BY <1>4, <3>2, <3>3
  <2>5. Carrying(ch, b.n, o) = {} \/ \E c \in DOMAIN ch : Carrying(ch, b.n, o) = {c}
    BY <1>0, CarriedOnce
  <2>6. QED
    BY <1>1, <1>2, <2>1, <2>2, <2>3, <2>4, <2>5
<1>12. QED
  BY <1>3, <1>11, SameWanted

\* A burst that is sent in full wants nothing of the image.
LEMMA FullWanted ==
    ASSUME NEW r \in HeldBursts, ~(r.sent < r.kind.length), NEW ch, NEW lv, NEW im, NEW im2
    PROVE  Wanted(r, ch, lv, im2) = Wanted(r, ch, lv, im)
<1>1. r.kind \in Kinds /\ r.sent \in Nat /\ r.kind.length \in Nat
  BY KindFacts DEF HeldBursts
<1>2. ASSUME NEW o \in 0 .. (r.kind.length - 1) PROVE WantedByte(r, ch, lv, im2, o) = WantedByte(r, ch, lv, im, o)
  <2>1. ~(o >= r.sent)
    BY <1>1
  <2>2. QED
    BY <2>1 DEF WantedByte
<1>3. QED
  BY <1>2, SameWanted

LEMMA FullAwaits ==
    ASSUME NEW r \in HeldBursts, ~(r.sent < r.kind.length), NEW a \in Window
    PROVE  ~Awaits(r, a)
<1>1. r.kind \in Kinds /\ r.sent \in Nat /\ r.kind.length \in Nat
  BY KindFacts DEF HeldBursts
<1>2. r.sent .. (r.kind.length - 1) = {}
  BY <1>1
<1>3. QED
  BY <1>2 DEF Awaits

\* The bytes a piece writes are those its burst awaits no more.
LEMMA PieceAwaits ==
    ASSUME NEW b \in HeldBursts, NEW e, NEW p \in Nat \ {0}, b.sent + p <= b.kind.length,
           e.n = b.n, e.kind = b.kind, e.sent = b.sent + p,
           NEW im, NEW im2, NEW data, Transfers(b, p, im, im2, data), NEW a \in Window
    PROVE  \/ im2[a] = b.n /\ Awaits(b, a) /\ ~Awaits(e, a)
           \/ im2[a] = im[a] /\ (Awaits(b, a) <=> Awaits(e, a))
<1>1. b.kind \in Kinds /\ b.sent \in Nat /\ b.kind.length \in Nat /\ b.kind.addr \in Nat
  BY KindFacts DEF HeldBursts
<1>2. a \in Int
  BY BackendAssumption DEF Window
<1>3. CASE ~b.kind.write
  BY <1>3 DEF Awaits, Transfers
<1>4. CASE b.kind.write
  <2> PICK l, f, q : l = b.sent /\ f = b.kind.addr /\ q = b.kind.length
    OBVIOUS
  <2>1. im2[a] = IF a - (f + l) \in 0 .. (p - 1) THEN b.n ELSE im[a]
    BY <1>4 DEF Transfers
  <2>2. Awaits(b, a) <=> a - f \in l .. (q - 1)
    BY <1>4 DEF Awaits
  <2>3. Awaits(e, a) <=> a - f \in (l + p) .. (q - 1)
    BY <1>4 DEF Awaits
  <2>4. CASE a - (f + l) \in 0 .. (p - 1)
    <3>1. a - f \in l .. (q - 1) /\ ~(a - f \in (l + p) .. (q - 1))
      BY <1>1, <1>2, <2>4
    <3>2. QED
      BY <2>1, <2>2, <2>3, <2>4, <3>1
  <2>5. CASE ~(a - (f + l) \in 0 .. (p - 1))
    <3>1. a - f \in l .. (q - 1) <=> a - f \in (l + p) .. (q - 1)
      BY <1>1, <1>2, <2>5
    <3>2. QED
      BY <2>1, <2>2, <2>3, <2>5, <3>1
  <2>6. QED
    BY <2>4, <2>5
<1>5. QED
  BY <1>3, <1>4

\* The oldest burst with something to send sends a piece.
Sending(bs, ch, nm, lv, im, i, id, next, p, e, cs, ch2, lv2, im2) ==
    /\ Books(bs, ch, nm, lv) /\ Sends(bs, ch, nm, lv, i, id, next, p, e, ch2, lv2)
    /\ \A j \in 1 .. (i - 1) : ~(bs[j].sent < bs[j].kind.length)
    /\ im \in [Window -> Nat] /\ im2 \in [Window -> Nat] /\ Transfers(bs[i], p, im, im2, lv2[id].data)
    /\ cs = [bs EXCEPT ![i] = e]

\* What is wanted stays the same.
LEMMA SentHeld ==
    ASSUME NEW bs, NEW ch, NEW nm, NEW lv, NEW im, NEW i, NEW id, NEW next, NEW p, NEW e,
           NEW cs, NEW ch2, NEW lv2, NEW im2,
           Sending(bs, ch, nm, lv, im, i, id, next, p, e, cs, ch2, lv2, im2)
    PROVE  SameView(bs, ch, lv, im, cs, ch2, lv2, im2)
<1>0. /\ Books(bs, ch, nm, lv) /\ Sends(bs, ch, nm, lv, i, id, next, p, e, ch2, lv2)
      /\ \A j \in 1 .. (i - 1) : ~(bs[j].sent < bs[j].kind.length)
      /\ im \in [Window -> Nat] /\ im2 \in [Window -> Nat] /\ Transfers(bs[i], p, im, im2, lv2[id].data)
      /\ cs = [bs EXCEPT ![i] = e]
  BY DEF Sending
<1> PICK n, b : n = Len(bs) /\ b = bs[i]
  OBVIOUS
<1>1. bs \in Seq(HeldBursts) /\ n \in Nat /\ DOMAIN bs = 1 .. n /\ i \in 1 .. n
  BY <1>0, <1>0 DEF Books, Sends
<1>2. /\ e \in HeldBursts /\ e.n = b.n /\ e.kind = b.kind /\ e.sent = b.sent + p /\ e.data = b.data
      /\ p \in Nat \ {0} /\ b.sent + p <= b.kind.length
  BY <1>0, <1>0 DEF Sends
<1>3. Len(cs) = n /\ DOMAIN cs = 1 .. n /\ cs[i] = e /\ \A j \in 1 .. n : j # i => cs[j] = bs[j]
  BY <1>0, <1>1, <1>2
<1>4. \A j \in 1 .. n : bs[j] \in HeldBursts
  BY <1>0, <1>1
<1>5. \A j \in 1 .. (i - 1) : j \in 1 .. n /\ j # i
  BY <1>0, <1>1
<1>6. \A j \in 1 .. (i - 1) : \A a \in Window : ~Awaits(bs[j], a)
  BY <1>0, <1>4, <1>5, FullAwaits
<1>7. \A j \in 1 .. (i - 1) : \A a \in Window : ~Awaits(cs[j], a)
  BY <1>0, <1>3, <1>5, <1>6
<1>8. \A a \in Window : \/ im2[a] = bs[i].n /\ Awaits(bs[i], a) /\ ~Awaits(cs[i], a)
                        \/ im2[a] = im[a] /\ (Awaits(bs[i], a) <=> Awaits(cs[i], a))
  <2>1. b \in HeldBursts /\ cs[i] = e /\ b = bs[i]
    BY <1>1, <1>3, <1>4
  <2>2. Transfers(b, p, im, im2, lv2[id].data)
    BY <1>0
  <2>3. ASSUME NEW a \in Window
        PROVE  \/ im2[a] = b.n /\ Awaits(b, a) /\ ~Awaits(e, a)
               \/ im2[a] = im[a] /\ (Awaits(b, a) <=> Awaits(e, a))
    BY <1>2, <2>1, <2>2, PieceAwaits
  <2>4. QED
    BY <2>1, <2>3
<1>9. ASSUME NEW k \in (i + 1) .. (n + 1) PROVE ImageBefore(cs, im2, k) = ImageBefore(bs, im, k)
  <2>1. Progress(bs, cs, im, im2, n, i)
    BY <1>1, <1>2, <1>3, <1>6, <1>8 DEF Progress
  <2>2. QED
    BY <1>1, <2>1, WrittenImage
<1>10. ImageOf(cs, im2) = ImageOf(bs, im)
  <2>1. n + 1 \in (i + 1) .. (n + 1)
    BY <1>1
  <2>2. QED
    BY <1>3, <1>9, <2>1 DEF ImageOf
<1>11. ASSUME NEW j \in 1 .. n
       PROVE  Wanted(cs[j], ch2, lv2, ImageBefore(cs, im2, j)) = Wanted(bs[j], ch, lv, ImageBefore(bs, im, j))
  <2> PICK x, y : x = ImageBefore(cs, im2, j) /\ y = ImageBefore(bs, im, j)
    OBVIOUS
  <2>1. ASSUME j # i, bs[j].n # b.n PROVE cs[j] = bs[j] /\ Wanted(bs[j], ch2, lv2, x) = Wanted(bs[j], ch, lv, x)
    BY <1>0, <1>3, <1>4, <2>1, OtherWanted
  <2>2. j # i => bs[j].n # b.n
    BY <1>0, <1>1 DEF Books, Apart, Distinct
  <2>3. CASE j < i
    <3>1. j \in 1 .. (i - 1) /\ j # i
      BY <1>1, <2>3
    <3>2. Wanted(bs[j], ch, lv, x) = Wanted(bs[j], ch, lv, y)
      BY <1>0, <1>4, <3>1, FullWanted
    <3>3. QED
      BY <2>1, <2>2, <3>1, <3>2
  <2>4. CASE j = i
    <3>1. CASE b.kind.write
      <4>1. ~Returns(b.kind) /\ cs[j] = e /\ bs[j] = b
        BY <1>3, <2>4, <3>1 DEF Returns
      <4>2. QED
        BY <1>2, <4>1, SameWanted
    <3>2. CASE ~b.kind.write
      <4>1. im2 = im
        BY <1>0, <3>2 DEF Transfers
      <4>2. x = im /\ y = im
        <5>1. ImageBefore(cs, im, i) = im /\ ImageBefore(bs, im, i) = im
          <6>1. NoneAwaits(cs, i) /\ NoneAwaits(bs, i) /\ i \in Nat
            BY <1>1, <1>6, <1>7 DEF NoneAwaits
          <6>2. ImageBefore(bs, im, i) = im
            BY <1>0, <6>1, SentImage
          <6>3. im2 \in [Window -> Nat] /\ ImageBefore(cs, im2, i) = im2
            BY <1>0, <6>1, SentImage
          <6>4. QED
            BY <4>1, <6>2, <6>3
        <5>2. QED
          BY <2>4, <4>1, <5>1
      <4>4. Wanted(e, ch2, lv2, im) = Wanted(b, ch, lv, im)
        <5>1. Reads(bs, ch, nm, lv, i, id, next, p, e, ch2, lv2, im, im2)
          BY <1>0, <3>2 DEF Reads
        <5>2. Wanted(e, ch2, lv2, im) = Wanted(bs[i], ch, lv, im)
          BY <5>1, SenderWanted
        <5>3. QED
          BY <5>2
      <4>5. QED
        BY <1>3, <2>4, <4>2, <4>4
    <3>3. QED
      BY <3>1, <3>2
  <2>5. CASE j > i
    <3>1. j \in (i + 1) .. (n + 1) /\ j # i
      BY <1>1, <2>5
    <3>2. x = y
      BY <1>9, <3>1
    <3>3. QED
      BY <2>1, <2>2, <3>1, <3>2
  <2>6. QED
    BY <1>1, <2>3, <2>4, <2>5
<1>12. \A j \in 1 .. n : cs[j].n = bs[j].n /\ cs[j].kind = bs[j].kind
  BY <1>2, <1>3
<1>13. HeldOf(cs, ch2, lv2, im2) = HeldOf(bs, ch, lv, im)
  <2>1. AllWant(bs, cs, ch, ch2, lv, lv2, im, im2)
    BY <1>3, <1>11, <1>12 DEF AllWant
  <2>2. QED
    BY <2>1, SameHeld
<1>14. QED
  BY <1>10, <1>13 DEF SameView

-----------------------------------------------------------------------------
(* Completions are merged                                                    *)

Covers(ch, c, o) == o - ch[c].offset \in 0 .. (ch[c].bytes - 1)

\* Byte o of a read when the completions mine have come.
MergedByte(b, ch, lv, mine, o) ==
    IF ~ \E c \in mine : Covers(ch, c, o) THEN b.data[o]
    ELSE LET c == CHOOSE d \in mine : Covers(ch, d, o) IN lv[c].data[o - ch[c].offset]

LEMMA MergedData ==
    ASSUME NEW b \in HeldBursts, NEW ch, NEW lv, NEW mine, NEW failing, NEW o \in DOMAIN b.data, ~b.kind.write
    PROVE  Merged(b, ch, lv, mine, failing).data[o] = MergedByte(b, ch, lv, mine, o)
<1> DEFINE Byte(u) == IF b.kind.write \/ ~ \E c \in mine : Covers(ch, c, u) THEN b.data[u]
                      ELSE LET c == CHOOSE d \in mine : Covers(ch, d, u) IN lv[c].data[u - ch[c].offset]
<1> PICK w, st, d, x, y, z, e :
       /\ w = b.pending - Cardinality(mine) /\ st = IF mine \cap failing # {} THEN "slverr" ELSE b.status
       /\ d = [u \in DOMAIN b.data |-> Byte(u)]
       /\ x = [b EXCEPT !.pending = w] /\ y = [x EXCEPT !.status = st] /\ z = [y EXCEPT !.data = d]
       /\ e = Merged(b, ch, lv, mine, failing)
  OBVIOUS
<1>1. Byte(o) = MergedByte(b, ch, lv, mine, o)
  BY DEF MergedByte
<1> HIDE DEF Byte
<1>2. d[o] = Byte(o)
  OBVIOUS
<1>3. DOMAIN b = DOMAIN x /\ DOMAIN x = DOMAIN y /\ "data" \in DOMAIN b
  BY DEF HeldBursts
<1>4. z.data = d
  BY <1>3
<1>5. e = z
  BY Zenon DEF Merged, Byte, Covers
<1>6. QED
  BY <1>1, <1>2, <1>4, <1>5, Zenon

LEMMA KeptByte ==
    ASSUME NEW b \in HeldBursts, NEW ch, NEW lv, NEW mine, NEW failing, NEW o \in DOMAIN b.data, ~b.kind.write,
           \A c \in mine : ~Covers(ch, c, o)
    PROVE  Merged(b, ch, lv, mine, failing).data[o] = b.data[o]
<1>1. MergedByte(b, ch, lv, mine, o) = b.data[o]
  BY DEF MergedByte
<1>2. QED
  BY <1>1, MergedData

LEMMA GainedByte ==
    ASSUME NEW b \in HeldBursts, NEW ch, NEW lv, NEW mine, NEW failing, NEW o \in DOMAIN b.data, ~b.kind.write,
           NEW c \in mine, Covers(ch, c, o), \A d \in mine : Covers(ch, d, o) => d = c
    PROVE  Merged(b, ch, lv, mine, failing).data[o] = lv[c].data[o - ch[c].offset]
<1>1. MergedByte(b, ch, lv, mine, o) = lv[c].data[o - ch[c].offset]
  BY DEF MergedByte
<1>2. QED
  BY <1>1, MergedData

LEMMA CompletedWanted ==
    ASSUME NEW bs, NEW ch, NEW nm, NEW lv, Books(bs, ch, nm, lv),
           NEW b, NEW e, NEW ch2, NEW lv2, NEW ids, NEW failing, NEW im,
           Completes(b, e, ch, ch2, lv, lv2, ids, failing)
    PROVE  Wanted(e, ch2, lv2, im) = Wanted(b, ch, lv, im)
<1> PICK mine, n : mine = Of(ch, b.n) \cap ids /\ n = b.n
  OBVIOUS
<1>1. /\ b \in HeldBursts /\ DOMAIN b.data = 0 .. (b.kind.length - 1) /\ e = Merged(b, ch, lv, mine, failing)
      /\ e.n = n /\ e.kind = b.kind /\ e.sent = b.sent
      /\ DOMAIN ch2 = DOMAIN ch \ ids /\ \A c \in DOMAIN ch \ ids : ch2[c] = ch[c] /\ lv2[c] = lv[c]
  BY DEF Completes, Drops
<1>2. \A o : Carrying(ch2, n, o) = Carrying(ch, n, o) \ ids
  BY <1>1 DEF Carrying
<1>3. \A c, o : c \in mine /\ Covers(ch, c, o) <=> c \in ids /\ c \in Carrying(ch, n, o)
  BY DEF Of, Carrying, Covers
<1>4. ASSUME NEW o \in 0 .. (b.kind.length - 1), ~b.kind.write
      PROVE  WantedByte(e, ch2, lv2, im, o) = WantedByte(b, ch, lv, im, o)
  <2>1. CASE o >= b.sent
    BY <1>1, <2>1, AskedByte
  <2>2. ASSUME ~(o >= b.sent), Carrying(ch, n, o) = {}
        PROVE  WantedByte(e, ch2, lv2, im, o) = WantedByte(b, ch, lv, im, o)
    <3>1. \A c \in mine : ~Covers(ch, c, o)
      BY <1>3, <2>2
    <3>2. e.data[o] = b.data[o]
      <4>1. o \in DOMAIN b.data
        BY <1>1
      <4>2. Merged(b, ch, lv, mine, failing).data[o] = b.data[o]
        <5>1. b \in HeldBursts
          BY <1>1
        <5>2. ~b.kind.write
          BY <1>4
        <5>3. QED
          BY <3>1, <4>1, <5>1, <5>2, KeptByte
      <4>3. QED
        BY <1>1, <4>2
    <3>3. Carrying(ch2, e.n, o) = {} /\ ~(o >= e.sent)
      BY <1>1, <1>2, <2>2
    <3>4. WantedByte(e, ch2, lv2, im, o) = e.data[o]
      BY <3>3, ComeByte
    <3>5. WantedByte(b, ch, lv, im, o) = b.data[o]
      BY <2>2, ComeByte
    <3>6. QED
      BY <3>2, <3>4, <3>5
  <2>3. ASSUME ~(o >= b.sent), NEW c \in DOMAIN ch, Carrying(ch, n, o) = {c}
        PROVE  WantedByte(e, ch2, lv2, im, o) = WantedByte(b, ch, lv, im, o)
    <3>1. WantedByte(b, ch, lv, im, o) = lv[c].data[o - ch[c].offset]
      BY <2>3, CarriedByte
    <3>2. CASE c \in ids
      <4>1. c \in mine /\ Covers(ch, c, o)
        BY <1>3, <2>3, <3>2
      <4>2. \A d \in mine : Covers(ch, d, o) => d = c
        BY <1>3, <2>3
      <4>3. e.data[o] = lv[c].data[o - ch[c].offset]
        <5>1. o \in DOMAIN b.data
          BY <1>1
        <5>2. Merged(b, ch, lv, mine, failing).data[o] = lv[c].data[o - ch[c].offset]
          <6>1. b \in HeldBursts
            BY <1>1
          <6>2. ~b.kind.write
            BY <1>4
          <6>3. QED
            BY <4>1, <4>2, <5>1, <6>1, <6>2, GainedByte
        <5>3. QED
          BY <1>1, <5>2
      <4>4. Carrying(ch2, e.n, o) = {} /\ ~(o >= e.sent)
        BY <1>1, <1>2, <2>3, <3>2
      <4>5. WantedByte(e, ch2, lv2, im, o) = e.data[o]
        BY <4>4, ComeByte
      <4>6. QED
        BY <3>1, <4>3, <4>5
    <3>3. CASE c \notin ids
      <4>1. Carrying(ch2, e.n, o) = {c} /\ ~(o >= e.sent)
        BY <1>1, <1>2, <2>3, <3>3
      <4>2. WantedByte(e, ch2, lv2, im, o) = lv2[c].data[o - ch2[c].offset]
        BY <4>1, CarriedByte
      <4>3. QED
        BY <1>1, <2>3, <3>1, <3>3, <4>2
    <3>4. QED
      BY <3>2, <3>3
  <2>4. Carrying(ch, n, o) = {} \/ \E c \in DOMAIN ch : Carrying(ch, n, o) = {c}
    BY CarriedOnce
  <2>5. QED
    BY <2>1, <2>2, <2>3, <2>4
<1>5. Returns(b.kind) => \A o \in 0 .. (b.kind.length - 1) :
                             WantedByte(e, ch2, lv2, im, o) = WantedByte(b, ch, lv, im, o)
  BY <1>4 DEF Returns
<1>6. QED
  <2>1. e.kind = b.kind
    BY <1>1
  <2>2. QED
    BY <1>5, <2>1, SameWanted

LEMMA CompletedHeld ==
    ASSUME NEW n \in Nat, NEW bs, NEW ch, NEW nm, NEW lv, Books(bs, ch, nm, lv), NEW cs, Len(bs) = n, Len(cs) = n,
           NEW ch2, NEW lv2, NEW ids, NEW failing, NEW im,
           \A j \in 1 .. n : Completes(bs[j], cs[j], ch, ch2, lv, lv2, ids, failing)
    PROVE  SameView(bs, ch, lv, im, cs, ch2, lv2, im)
<1>1. \A j \in 1 .. n : cs[j].n = bs[j].n /\ cs[j].kind = bs[j].kind /\ cs[j].sent = bs[j].sent
  BY DEF Completes
<1>2. \A i \in 1 .. (n + 1) : ImageBefore(cs, im, i) = ImageBefore(bs, im, i)
  BY <1>1, AlikeImage
<1>3. ASSUME NEW j \in 1 .. n
      PROVE  Wanted(cs[j], ch2, lv2, ImageBefore(cs, im, j)) = Wanted(bs[j], ch, lv, ImageBefore(bs, im, j))
  <2> PICK a, b, x : a = cs[j] /\ b = bs[j] /\ x = ImageBefore(bs, im, j)
    OBVIOUS
  <2>1. ImageBefore(cs, im, j) = x
    BY <1>2
  <2>2. Completes(b, a, ch, ch2, lv, lv2, ids, failing)
    OBVIOUS
  <2>3. Wanted(a, ch2, lv2, x) = Wanted(b, ch, lv, x)
    BY <2>2, CompletedWanted
  <2>4. QED
    BY <2>1, <2>3
<1>4. AllWant(bs, cs, ch, ch2, lv, lv2, im, im)
  BY <1>1, <1>3 DEF AllWant
<1>5. ImageOf(cs, im) = ImageOf(bs, im)
  BY <1>2 DEF ImageOf
<1>6. QED
  BY <1>4, <1>5, SameHeld DEF SameView

-----------------------------------------------------------------------------
(* A burst is taken, and one is answered                                     *)

\* What is held of a request that is taken when im holds what has been written.
Taken(q, im) ==
    [n |-> q.n, served |-> Status(q.kind) = "ok",
     data |-> IF Returns(q.kind) THEN [o \in 0 .. (q.kind.length - 1) |-> im[q.kind.addr + o]] ELSE <<>>]
WrittenBy(q, im) ==
    [a \in Window |-> IF /\ q.kind.write /\ Status(q.kind) = "ok"
                         /\ a \in q.kind.addr .. (q.kind.addr + q.kind.length - 1)
                      THEN q.n ELSE im[a]]

LEMMA TakenWanted ==
    ASSUME NEW q \in Requests, NEW ch, NEW lv, NEW im
    PROVE  Wanted(BurstOf(q), ch, lv, im) = Taken(q, im).data
<1> PICK b, k : b = BurstOf(q) /\ k = q.kind
  OBVIOUS
<1>1. k \in Kinds
  BY DEF Requests
<1>2. b.kind = k /\ b.sent = IF Status(k) = "ok" THEN 0 ELSE k.length
  BY BurstFacts
<1>3. CASE Returns(k)
  <2>1. b.sent = 0
    BY <1>2, <1>3 DEF Returns
  <2>2. ASSUME NEW o \in 0 .. (k.length - 1) PROVE WantedByte(b, ch, lv, im, o) = im[k.addr + o]
    <3>1. o >= b.sent
      BY <2>1
    <3>2. QED
      BY <1>2, <3>1, AskedByte
  <2>3. Wanted(b, ch, lv, im) = [o \in 0 .. (k.length - 1) |-> WantedByte(b, ch, lv, im, o)]
    BY <1>2, <1>3, WantedIs
  <2>4. Taken(q, im).data = [o \in 0 .. (k.length - 1) |-> im[k.addr + o]]
    BY <1>3 DEF Taken
  <2>5. QED
    BY <2>2, <2>3, <2>4
<1>4. CASE ~Returns(k)
  <2>1. Wanted(b, ch, lv, im) = <<>>
    BY <1>2, <1>4, WantedIs
  <2>2. Taken(q, im).data = <<>>
    BY <1>4 DEF Taken
  <2>3. QED
    BY <2>1, <2>2
<1>5. QED
  BY <1>3, <1>4

LEMMA TakenAwaits ==
    ASSUME NEW q \in Requests, NEW a \in Window
    PROVE  Awaits(BurstOf(q), a) <=> /\ q.kind.write /\ Status(q.kind) = "ok"
                                     /\ a \in q.kind.addr .. (q.kind.addr + q.kind.length - 1)
<1> PICK b, k : b = BurstOf(q) /\ k = q.kind
  OBVIOUS
<1>1. k \in Kinds /\ k.addr \in Nat /\ k.length \in Nat /\ a \in Int
  BY KindFacts, BackendAssumption DEF Requests, Window
<1>2. b.kind = k /\ b.sent = IF Status(k) = "ok" THEN 0 ELSE k.length
  BY BurstFacts
<1>3. Awaits(b, a) <=> k.write /\ a - k.addr \in b.sent .. (k.length - 1)
  BY <1>2 DEF Awaits
<1>4. CASE Status(k) = "ok"
  <2>1. b.sent = 0
    BY <1>2, <1>4
  <2>2. a - k.addr \in 0 .. (k.length - 1) <=> a \in k.addr .. (k.addr + k.length - 1)
    BY <1>1
  <2>3. QED
    BY <1>3, <1>4, <2>1, <2>2
<1>5. CASE Status(k) # "ok"
  <2>1. b.sent = k.length
    BY <1>2, <1>5
  <2>2. b.sent .. (k.length - 1) = {}
    BY <1>1, <2>1
  <2>3. QED
    BY <1>3, <1>5, <2>2
<1>6. QED
  BY <1>4, <1>5

LEMMA AppendIs ==
    ASSUME NEW S, NEW g \in Seq(S), NEW x
    PROVE  Append(g, x) = [j \in 1 .. (Len(g) + 1) |-> IF j = Len(g) + 1 THEN x ELSE g[j]]
<1> PICK T, n, t : T = S \cup {x} /\ n = Len(g) /\ t = [j \in 1 .. (Len(g) + 1) |-> IF j = Len(g) + 1 THEN x ELSE g[j]]
  OBVIOUS
<1>1. g \in Seq(T) /\ x \in T /\ n \in Nat
  OBVIOUS
<1>2. /\ Append(g, x) \in Seq(T) /\ Len(Append(g, x)) = n + 1 /\ Append(g, x)[n + 1] = x
      /\ \A j \in 1 .. n : Append(g, x)[j] = g[j]
  BY <1>1
<1>3. \A j \in 1 .. (n + 1) : Append(g, x)[j] = t[j]
  BY <1>1, <1>2
<1>4. t \in Seq(T) /\ Len(t) = n + 1
  <2>1. t \in [1 .. (n + 1) -> T]
    BY <1>1
  <2>2. QED
    BY <1>1, <2>1
<1>5. Append(g, x) = t
  BY <1>2, <1>3, <1>4, SeqEqual
<1>6. QED
  BY <1>5

TakenView(bs, ch, lv, im, q, cs) ==
    /\ HeldOf(cs, ch, lv, im) = Append(HeldOf(bs, ch, lv, im), Taken(q, ImageOf(bs, im)))
    /\ ImageOf(cs, im) = WrittenBy(q, ImageOf(bs, im))

LEMMA TakenHeld ==
    ASSUME NEW bs \in Seq(HeldBursts), NEW ch, NEW lv, NEW im, NEW q \in Requests, NEW cs, cs = Append(bs, BurstOf(q))
    PROVE  TakenView(bs, ch, lv, im, q, cs)
<1> PICK n, b, x : n = Len(bs) /\ b = BurstOf(q) /\ x = ImageOf(bs, im)
  OBVIOUS
<1>1. b \in HeldBursts /\ b.n = q.n /\ b.kind = q.kind
  BY BurstFacts
<1>2. /\ n \in Nat /\ Len(cs) = n + 1 /\ cs[n + 1] = b
      /\ \A j \in 1 .. n : cs[j] = bs[j]
  BY <1>1
<1>3. /\ \A i \in 1 .. (n + 1) : ImageBefore(cs, im, i) = ImageBefore(bs, im, i)
      /\ ImageBefore(cs, im, n + 2) =
            [a \in Window |-> IF Awaits(b, a) THEN b.n ELSE ImageBefore(bs, im, n + 1)[a]]
  <2>1. GrownImages(bs, cs, b, n, im)
    BY <1>2, AppendedImage DEF Grown
  <2>2. QED
    BY <2>1 DEF GrownImages
<1>4. ImageOf(cs, im) = WrittenBy(q, x)
  <2>1. (n + 1) + 1 = n + 2 /\ ImageOf(cs, im) = ImageBefore(cs, im, n + 2) /\ x = ImageBefore(bs, im, n + 1)
    BY <1>2 DEF ImageOf
  <2>2. ImageOf(cs, im) = [a \in Window |-> IF Awaits(b, a) THEN b.n ELSE x[a]]
    BY <1>3, <2>1
  <2>3. QED
    BY <1>1, <2>2, TakenAwaits DEF WrittenBy
<1>5. HeldOf(cs, ch, lv, im) = Append(HeldOf(bs, ch, lv, im), Taken(q, x))
  <2> DEFINE entry(r, j) == [n |-> r.n, served |-> Status(r.kind) = "ok",
                             data |-> Wanted(r, ch, lv, ImageBefore(bs, im, j))]
  <2>1. HeldOf(cs, ch, lv, im) = [j \in 1 .. (n + 1) |-> entry(cs[j], j)]
    BY <1>2, <1>3 DEF HeldOf
  <2>2. HeldOf(bs, ch, lv, im) = [j \in 1 .. n |-> entry(bs[j], j)]
    BY DEF HeldOf
  <2>3. entry(b, n + 1) = Taken(q, x)
    <3>1. Wanted(b, ch, lv, x) = Taken(q, x).data
      BY TakenWanted
    <3>2. x = ImageBefore(bs, im, n + 1)
      BY DEF ImageOf
    <3>3. Taken(q, x).n = q.n /\ (Taken(q, x).served <=> Status(q.kind) = "ok")
          /\ Taken(q, x) = [n |-> q.n, served |-> Status(q.kind) = "ok", data |-> Taken(q, x).data]
      BY DEF Taken
    <3>4. QED
      BY <1>1, <3>1, <3>2, <3>3
  <2> PICK f, g : f = HeldOf(cs, ch, lv, im) /\ g = HeldOf(bs, ch, lv, im)
    OBVIOUS
  <2> HIDE DEF entry
  <2> PICK S : S = {entry(bs[j], j) : j \in 1 .. n}
    OBVIOUS
  <2>4. Len(g) = n /\ DOMAIN g = 1 .. n /\ g \in Seq(S)
    <3>1. g \in [1 .. n -> S]
      BY <2>2
    <3>2. QED
      BY <1>2, <3>1
  <2>5. Append(g, Taken(q, x)) = [j \in 1 .. (n + 1) |-> IF j = n + 1 THEN Taken(q, x) ELSE g[j]]
    <3>1. g \in Seq(S) /\ n = Len(g)
      BY <2>4
    <3>2. Append(g, Taken(q, x)) = [j \in 1 .. (Len(g) + 1) |-> IF j = Len(g) + 1 THEN Taken(q, x) ELSE g[j]]
      BY <3>1, AppendIs
    <3>3. QED
      BY <3>1, <3>2
  <2>6. ASSUME NEW j \in 1 .. (n + 1) PROVE f[j] = IF j = n + 1 THEN Taken(q, x) ELSE g[j]
    <3>1. f[j] = entry(cs[j], j)
      BY <2>1
    <3>2. CASE j = n + 1
      BY <1>2, <2>3, <3>1, <3>2
    <3>3. CASE j # n + 1
      <4>1. j \in 1 .. n
        BY <1>2, <3>3
      <4>2. g[j] = entry(bs[j], j)
        BY <2>2, <4>1
      <4>3. QED
        BY <1>2, <3>1, <3>3, <4>1, <4>2
    <3>4. QED
      BY <3>2, <3>3
  <2>7. f = [j \in 1 .. (n + 1) |-> f[j]]
    BY <2>1
  <2>8. QED
    BY <2>5, <2>6, <2>7
<1>6. QED
  BY <1>4, <1>5 DEF TakenView

LEMMA TailIs ==
    ASSUME NEW S, NEW g \in Seq(S), g # <<>>
    PROVE  Tail(g) = [j \in 1 .. (Len(g) - 1) |-> g[j + 1]]
<1> PICK n, t : n = Len(g) /\ t = [j \in 1 .. (Len(g) - 1) |-> g[j + 1]]
  OBVIOUS
<1>1. n \in Nat \ {0} /\ \A j \in 1 .. (n - 1) : j + 1 \in 1 .. n
  OBVIOUS
<1>2. /\ Tail(g) \in Seq(S) /\ Len(Tail(g)) = n - 1
      /\ \A j \in 1 .. (n - 1) : Tail(g)[j] = g[j + 1]
  BY <1>1
<1>3. t \in Seq(S) /\ Len(t) = n - 1
  <2>1. t \in [1 .. (n - 1) -> S]
    BY <1>1
  <2>2. n - 1 \in Nat
    BY <1>1
  <2>3. QED
    BY <2>1, <2>2
<1>4. \A j \in 1 .. (n - 1) : Tail(g)[j] = t[j]
  BY <1>2
<1>5. Tail(g) = t
  BY <1>2, <1>3, <1>4, SeqEqual
<1>6. QED
  BY <1>5

\* An answer as the memory gives it.
AnswerOf(a) == [n |-> a.n, ok |-> a.status = "ok", data |-> a.data]
ResponseOf(rs) == [i \in 1 .. Len(rs) |-> AnswerOf(rs[i])]

\* A burst none of whose children is left wants what has come.
LEMMA FinishedWanted ==
    ASSUME NEW b \in HeldBursts, NEW ch, NEW nm, Sound(b, ch, nm), IsFiniteSet(DOMAIN ch), Finished(b), NEW lv, NEW im
    PROVE  Wanted(b, ch, lv, im) = IF Returns(b.kind) THEN b.data ELSE <<>>
<1>1. /\ b.sent = b.kind.length /\ b.pending = 0 /\ Cardinality(Of(ch, b.n)) = b.pending
      /\ b.data \in [0 .. (b.kind.length - 1) -> Nat] /\ b.kind.length \in Nat
  BY KindFacts DEF Sound, Finished, HeldBursts
<1>2. Of(ch, b.n) = {}
  <2>1. IsFiniteSet(Of(ch, b.n))
    BY FS_Subset DEF Of
  <2>2. QED
    BY <1>1, <2>1, FS_EmptySet
<1>3. ASSUME NEW o \in 0 .. (b.kind.length - 1) PROVE WantedByte(b, ch, lv, im, o) = b.data[o]
  <2>1. Carrying(ch, b.n, o) = {}
    BY <1>2 DEF Carrying, Of
  <2>2. ~(o >= b.sent)
    BY <1>1
  <2>3. QED
    BY <2>1, <2>2, ComeByte
<1>4. [o \in 0 .. (b.kind.length - 1) |-> WantedByte(b, ch, lv, im, o)] = b.data
  BY <1>1, <1>3
<1>5. QED
  BY <1>4, WantedIs

LEMMA EntryIs ==
    ASSUME NEW n, NEW s \in BOOLEAN, NEW d, NEW r, r = [n |-> n, served |-> s, data |-> d]
    PROVE  r.n = n /\ r.served = s /\ r.data = d
OBVIOUS

ReturnedView(bs, ch, lv, im, cs, h) ==
    /\ h # <<>> /\ HeldOf(cs, ch, lv, im) = Tail(h) /\ ImageOf(cs, im) = ImageOf(bs, im)
    /\ \E ok \in {FALSE, Head(h).served} : AnswerOf(Answer(Head(bs))) = OrderedMemory!Answer(Head(h), ok)

LEMMA ReturnedHeld ==
    ASSUME NEW bs, NEW ch, NEW nm, NEW lv, Books(bs, ch, nm, lv), bs # <<>>, Finished(Head(bs)),
           NEW im, NEW cs, cs = Tail(bs), NEW h, h = HeldOf(bs, ch, lv, im)
    PROVE  ReturnedView(bs, ch, lv, im, cs, h)
<1> PICK n, b : n = Len(bs) /\ b = Head(bs)
  OBVIOUS
<1>1. bs \in Seq(HeldBursts) /\ n \in Nat \ {0} /\ DOMAIN bs = 1 .. n /\ b = bs[1] /\ 1 \in 1 .. n
  BY DEF Books
<1>2. b \in HeldBursts /\ Sound(b, ch, nm) /\ IsFiniteSet(DOMAIN ch)
  BY <1>1, BurstAt DEF Books, Paired
<1>3. /\ b.sent = b.kind.length /\ b.kind.length \in Nat
      /\ Len(cs) = n - 1 /\ \A j \in 1 .. (n - 1) : cs[j] = bs[j + 1] /\ j + 1 \in 1 .. n
  BY <1>1, <1>2, KindFacts DEF Finished, HeldBursts
<1>4. \A a \in Window : ~Awaits(bs[1], a)
  BY <1>1, <1>2, <1>3, FullAwaits
<1>5. ASSUME NEW i \in 1 .. n PROVE ImageBefore(cs, im, i) = ImageBefore(bs, im, i + 1)
  <2>1. i \in Nat \ {0} /\ \A j \in 1 .. (i - 1) : j \in 1 .. (n - 1)
    BY <1>1
  <2>2. \A j \in 1 .. (i - 1) : cs[j] = bs[j + 1]
    BY <1>3, <2>1
  <2>3. QED
    BY <1>4, <2>1, <2>2, TailImage
<1>6. ImageOf(cs, im) = ImageOf(bs, im)
  <2>1. n \in 1 .. n /\ (n - 1) + 1 = n
    BY <1>1
  <2>2. ImageBefore(cs, im, n) = ImageBefore(bs, im, n + 1)
    BY <1>5, <2>1
  <2>3. QED
    BY <1>3, <2>1, <2>2 DEF ImageOf
<1> DEFINE entry(r, x) == [n |-> r.n, served |-> Status(r.kind) = "ok", data |-> Wanted(r, ch, lv, x)]
<1>7. h = [j \in 1 .. n |-> entry(bs[j], ImageBefore(bs, im, j))]
  BY DEF HeldOf
<1>8. HeldOf(cs, ch, lv, im) = [j \in 1 .. (n - 1) |-> entry(cs[j], ImageBefore(cs, im, j))]
  BY <1>3 DEF HeldOf
<1>9. h[1] = entry(b, ImageBefore(bs, im, 1))
  BY <1>1, <1>7
<1> PICK st : st = (Status(b.kind) = "ok")
  OBVIOUS
<1>10. h[1].n = b.n /\ h[1].served = st /\ h[1].data = Wanted(b, ch, lv, ImageBefore(bs, im, 1)) /\ st \in BOOLEAN
  <2> PICK r, d : r = h[1] /\ d = Wanted(b, ch, lv, ImageBefore(bs, im, 1))
    OBVIOUS
  <2>1. st \in BOOLEAN /\ r = [n |-> b.n, served |-> st, data |-> d]
    BY <1>9
  <2>2. QED
    BY <2>1, EntryIs
<1> HIDE DEF entry
<1> PICK S : S = {entry(bs[j], ImageBefore(bs, im, j)) : j \in 1 .. n}
  OBVIOUS
<1>11. h \in Seq(S) /\ Len(h) = n /\ h # <<>> /\ Head(h) = h[1]
  <2>1. h \in [1 .. n -> S]
    BY <1>7
  <2>2. QED
    BY <1>1, <2>1
<1>12. HeldOf(cs, ch, lv, im) = Tail(h)
  <2>1. Tail(h) = [j \in 1 .. (n - 1) |-> h[j + 1]]
    <3>1. Tail(h) = [j \in 1 .. (Len(h) - 1) |-> h[j + 1]]
      BY <1>11, TailIs
    <3>2. QED
      BY <1>11, <3>1
  <2>2. ASSUME NEW j \in 1 .. (n - 1) PROVE entry(cs[j], ImageBefore(cs, im, j)) = h[j + 1]
    <3>1. j + 1 \in 1 .. n /\ j \in 1 .. n
      BY <1>1
    <3>2. h[j + 1] = entry(bs[j + 1], ImageBefore(bs, im, j + 1))
      BY <1>7, <3>1
    <3>3. cs[j] = bs[j + 1] /\ ImageBefore(cs, im, j) = ImageBefore(bs, im, j + 1)
      BY <1>3, <1>5, <3>1
    <3>4. QED
      BY <3>2, <3>3
  <2>3. QED
    BY <1>8, <2>1, <2>2
<1>13. \E ok \in {FALSE, Head(h).served} : AnswerOf(Answer(b)) = OrderedMemory!Answer(Head(h), ok)
  <2> PICK g, ok : g = Head(h) /\ ok = (b.status = "ok")
    OBVIOUS
  <2>1. g.data = IF Returns(b.kind) THEN b.data ELSE <<>>
    BY <1>2, <1>10, <1>11, FinishedWanted
  <2>2. g.n = b.n /\ g.served = st /\ (ok => Status(b.kind) = "ok") /\ (ok => st)
    BY <1>2, <1>10, <1>11 DEF Sound
  <2>3. (IF ok THEN g.data ELSE <<>>) = IF b.kind.write \/ b.status # "ok" THEN <<>> ELSE b.data
    BY <2>1, <2>2 DEF Returns
  <2>4. AnswerOf(Answer(b)) = [n |-> b.n, ok |-> ok, data |-> IF b.kind.write \/ b.status # "ok" THEN <<>> ELSE b.data]
    BY DEF AnswerOf, Answer
  <2>5. OrderedMemory!Answer(g, ok) = [n |-> g.n, ok |-> ok, data |-> IF ok THEN g.data ELSE <<>>]
    BY DEF OrderedMemory!Answer
  <2>6. AnswerOf(Answer(b)) = OrderedMemory!Answer(g, ok)
    BY <2>2, <2>3, <2>4, <2>5
  <2>7. ok \in {FALSE, g.served}
    <3>1. g.served \in BOOLEAN
      BY <1>10, <2>2
    <3>2. CASE ok
      <4>1. g.served = TRUE /\ ok = TRUE
        BY <2>2, <3>1, <3>2
      <4>2. QED
        BY <4>1
    <3>3. CASE ~ok
      <4>1. ok = FALSE
        BY <3>3
      <4>2. QED
        BY <4>1
    <3>4. QED
      BY <3>2, <3>3
  <2>8. QED
    BY <2>6, <2>7
<1>14. QED
  BY <1>6, <1>11, <1>12, <1>13 DEF ReturnedView

-----------------------------------------------------------------------------
(* A round                                                                   *)

HeldIn(s) == HeldOf(s.be.bursts, s.be.children, s.mem.live, s.mem.image)
ImageIn(s) == ImageOf(s.be.bursts, s.mem.image)
Same(s, t) ==
    HeldIn(t) = HeldIn(s) /\ ImageIn(t) = ImageIn(s) /\ t.request = s.request /\ t.response = s.response

LEMMA SameLen ==
    ASSUME NEW S, NEW f \in Seq(S), NEW g \in Seq(S), DOMAIN g = DOMAIN f
    PROVE  Len(g) = Len(f)
OBVIOUS

LEMMA RefusedSame ==
    ASSUME NEW s, NEW m \in Nat, Ledger(s, m), NEW i \in DOMAIN s.be.bursts,
           s.be.bursts[i].sent < s.be.bursts[i].kind.length
    PROVE  Same(s, Offered(s, i, NextId(s, i), FALSE))
<1> PICK t, bs, cs, b, e, id, n : /\ t = Offered(s, i, NextId(s, i), FALSE) /\ bs = s.be.bursts /\ cs = t.be.bursts
                                  /\ b = s.be.bursts[i] /\ id = NextId(s, i)
                                  /\ e = [s.be.bursts[i] EXCEPT !.candidate = NextId(s, i)] /\ n = Len(s.be.bursts)
  OBVIOUS
<1>1. Shape(s) /\ bs \in Seq(HeldBursts) /\ n \in Nat /\ DOMAIN bs = 1 .. n /\ b \in HeldBursts
  BY DEF Ledger, Typed
<1>2. /\ cs = [bs EXCEPT ![i] = AfterOffer(b, id, FALSE)]
      /\ t.be.children = s.be.children /\ t.mem = s.mem /\ t.request = s.request /\ t.response = s.response
  BY ZenonT(60), <1>1, RefusedIs
<1>3. cs = [bs EXCEPT ![i] = e]
  BY <1>2 DEF AfterOffer
<1>4. Len(cs) = n
  <2>1. Ledger(t, m)
    BY RefusedKeeps
  <2>2. cs \in Seq(HeldBursts)
    BY <2>1 DEF Ledger, Typed
  <2>3. DOMAIN cs = DOMAIN bs
    BY <1>3
  <2>4. Len(cs) = Len(bs)
    BY <1>1, <2>2, <2>3, SameLen, Zenon
  <2>5. QED
    BY <2>4
<1>5. e.n = b.n /\ e.kind = b.kind /\ e.sent = b.sent /\ e.data = b.data
  BY <1>1 DEF HeldBursts
<1>6. ASSUME NEW j \in 1 .. n PROVE Alike(cs[j], bs[j])
  <2>1. cs[j] = IF j = i THEN e ELSE bs[j]
    BY <1>1, <1>3
  <2>2. QED
    BY <1>5, <2>1 DEF Alike
<1> PICK ch, lv, im : ch = s.be.children /\ lv = s.mem.live /\ im = s.mem.image
  OBVIOUS
<1>7. SameView(bs, ch, lv, im, cs, ch, lv, im)
  <2>1. Len(bs) = n /\ Len(cs) = n /\ n \in Nat
    BY <1>1, <1>4
  <2>2. QED
    BY <1>6, <2>1, AlikeHeld
<1>8. QED
  BY <1>2, <1>7 DEF Same, HeldIn, ImageIn, SameView

LEMMA StoredIs ==
    ASSUME NEW m, NEW b, NEW id, NEW d, d = [o \in 0..(Piece(b) - 1) |-> m.image[Address(b) + o]]
    PROVE  Stored(m, b, id).live[id].data = d
<1> PICK e : e = [bytes |-> Piece(b), data |-> d]
  OBVIOUS
<1>1. e.data = d
  OBVIOUS
<1>2. Stored(m, b, id).live = [c \in DOMAIN m.live \cup {id} |-> IF c # id THEN m.live[c] ELSE e]
  BY DEF Stored
<1>3. Stored(m, b, id).live[id] = e
  BY <1>2
<1>4. QED
  BY <1>1, <1>3

LEMMA StoredTransfers ==
    ASSUME NEW m, NEW b, NEW id
    PROVE  Transfers(b, Piece(b), m.image, Stored(m, b, id).image, Stored(m, b, id).live[id].data)
<1>1. Stored(m, b, id).live[id].data = [o \in 0..(Piece(b) - 1) |-> m.image[Address(b) + o]]
  BY StoredIs
<1>2. Stored(m, b, id).image =
         IF b.kind.write THEN [a \in Window |-> IF a - Address(b) \in 0..(Piece(b) - 1) THEN b.n ELSE m.image[a]]
         ELSE m.image
  BY DEF Stored
<1>3. QED
  BY <1>1, <1>2, Zenon DEF Transfers, Address

LEMMA SentSame ==
    ASSUME NEW s, NEW m \in Nat, Ledger(s, m), NEW i \in DOMAIN s.be.bursts,
           s.be.bursts[i].sent < s.be.bursts[i].kind.length,
           \A j \in 1 .. (i - 1) : ~(s.be.bursts[j].sent < s.be.bursts[j].kind.length)
    PROVE  Same(s, Offered(s, i, NextId(s, i), TRUE))
<1> PICK t, bs, ch, nm, lv, im, b, p, e, id, next, cs, ch2, lv2, im2 :
       /\ t = Offered(s, i, NextId(s, i), TRUE) /\ bs = s.be.bursts /\ ch = s.be.children /\ nm = s.be.next_mem
       /\ lv = s.mem.live /\ im = s.mem.image /\ b = s.be.bursts[i] /\ p = Piece(s.be.bursts[i])
       /\ e = AfterOffer(s.be.bursts[i], NextId(s, i), TRUE) /\ id = NextId(s, i) /\ next = NextMem(s, i)
       /\ cs = t.be.bursts /\ ch2 = t.be.children /\ lv2 = t.mem.live /\ im2 = t.mem.image
  OBVIOUS
<1>1. Ledger(t, m) /\ SentTo(s, t, i)
  BY SubmittedKeeps
<1>2. Books(bs, ch, nm, lv) /\ im \in [Window -> Nat] /\ im2 \in [Window -> Nat]
  BY <1>1 DEF Ledger, Typed
<1>3. /\ cs = [bs EXCEPT ![i] = e]
      /\ Sends(bs, ch, nm, lv, i, id, next, p, e, ch2, lv2)
      /\ t.mem = Stored(s.mem, b, id) /\ t.request = s.request /\ t.response = s.response
  BY <1>1 DEF SentTo
<1>4. Transfers(b, p, im, im2, lv2[id].data)
  <2>1. Transfers(b, Piece(b), s.mem.image, Stored(s.mem, b, id).image, Stored(s.mem, b, id).live[id].data)
    BY StoredTransfers
  <2>2. QED
    BY <1>3, <2>1
<1>5. Transfers(bs[i], p, im, im2, lv2[id].data) /\ \A j \in 1 .. (i - 1) : ~(bs[j].sent < bs[j].kind.length)
  BY <1>4
<1>6. SameView(bs, ch, lv, im, cs, ch2, lv2, im2)
  <2>1. Sending(bs, ch, nm, lv, im, i, id, next, p, e, cs, ch2, lv2, im2)
    BY <1>2, <1>3, <1>5 DEF Sending
  <2>2. QED
    BY <2>1, SentHeld
<1>7. QED
  BY <1>3, <1>6 DEF Same, HeldIn, ImageIn, SameView

LEMMA SubmitSame ==
    ASSUME NEW s, NEW m \in Nat, Ledger(s, m), NEW accepted \in BOOLEAN
    PROVE  Same(s, Submit(s, accepted))
<1>1. CASE Unsent(s.be.bursts) = {}
  BY <1>1 DEF Submit, Same
<1>2. CASE Unsent(s.be.bursts) # {}
  <2> PICK i : i = FirstUnsent(s.be.bursts)
    OBVIOUS
  <2>1. s.be.bursts \in Seq(HeldBursts)
    BY DEF Ledger, Typed
  <2>2. Unsent(s.be.bursts) \in SUBSET Nat
    BY <2>1 DEF Unsent
  <2>3. i \in Unsent(s.be.bursts) /\ \A j \in Unsent(s.be.bursts) : i <= j
    BY <1>2, <2>2, LeastOf DEF FirstUnsent
  <2>4. i \in DOMAIN s.be.bursts /\ s.be.bursts[i].sent < s.be.bursts[i].kind.length
    BY <2>1, <2>3 DEF Unsent
  <2>5. ASSUME NEW j \in 1 .. (i - 1) PROVE ~(s.be.bursts[j].sent < s.be.bursts[j].kind.length)
    <3>1. i \in 1 .. Len(s.be.bursts) /\ Len(s.be.bursts) \in Nat
      BY <2>1, <2>4
    <3>2. j \in 1 .. Len(s.be.bursts) /\ ~(i <= j)
      BY <3>1
    <3>3. j \notin Unsent(s.be.bursts)
      BY <2>3, <3>2
    <3>4. QED
      BY <3>2, <3>3 DEF Unsent
  <2>6. Submit(s, accepted) = Offered(s, i, NextId(s, i), accepted)
    BY <1>2 DEF Submit, NextId
  <2>7. CASE accepted
    BY <2>4, <2>5, <2>6, <2>7, SentSame
  <2>8. CASE ~accepted
    BY <2>4, <2>6, <2>8, RefusedSame
  <2>9. QED
    BY <2>7, <2>8
<1>3. QED
  BY <1>1, <1>2

LEMMA CompleteSame ==
    ASSUME NEW s, NEW m \in Nat, Ledger(s, m), NEW ids \in SUBSET DOMAIN s.mem.live, NEW failing
    PROVE  Same(s, Complete(s, ids, failing))
<1> PICK t, bs, ch, nm, lv, im, cs, ch2, lv2, n :
       /\ t = Complete(s, ids, failing) /\ bs = s.be.bursts /\ ch = s.be.children /\ nm = s.be.next_mem
       /\ lv = s.mem.live /\ im = s.mem.image
       /\ cs = t.be.bursts /\ ch2 = t.be.children /\ lv2 = t.mem.live /\ n = Len(s.be.bursts)
  OBVIOUS
<1>1. Books(bs, ch, nm, lv) /\ n \in Nat /\ DOMAIN bs = 1 .. n /\ Len(bs) = n
  BY DEF Ledger, Books
<1>2. MergedTo(s, t, ids, failing)
  BY CompleteKeeps
<1>3. /\ Len(cs) = n /\ t.mem.image = im /\ t.request = s.request /\ t.response = s.response
      /\ \A j \in 1 .. n : Completes(bs[j], cs[j], ch, ch2, lv, lv2, ids, failing)
  BY <1>1, <1>2 DEF MergedTo
<1>4. SameView(bs, ch, lv, im, cs, ch2, lv2, im)
  BY <1>1, <1>3, CompletedHeld
<1>5. QED
  BY <1>3, <1>4 DEF Same, HeldIn, ImageIn, SameView

\* A request has been taken.
Takes(s, t) ==
    /\ s.request # <<>> /\ Len(HeldIn(s)) < Slots
    /\ HeldIn(t) = Append(HeldIn(s), Taken(Head(s.request), ImageIn(s)))
    /\ ImageIn(t) = WrittenBy(Head(s.request), ImageIn(s))
    /\ t.request = Tail(s.request) /\ t.response = s.response

LEMMA AcceptTakes ==
    ASSUME NEW s, NEW m \in Nat, Ledger(s, m)
    PROVE  Same(s, Accept(s)) \/ Takes(s, Accept(s))
<1>1. CASE s.request = <<>> \/ ~HasRoom(s.be)
  BY <1>1 DEF Accept, Same
<1>2. CASE s.request # <<>> /\ HasRoom(s.be)
  <2> PICK t, bs, ch, lv, im, q, cs : /\ t = Accept(s) /\ bs = s.be.bursts /\ ch = s.be.children /\ lv = s.mem.live
                                      /\ im = s.mem.image /\ q = Head(s.request)
                                      /\ cs = Append(s.be.bursts, BurstOf(Head(s.request)))
    OBVIOUS
  <2>1. Shape(s) /\ bs \in Seq(HeldBursts) /\ s.request \in Seq(Requests)
    BY DEF Ledger, Typed
  <2>2. q \in Requests
    BY <1>2, <2>1
  <2>3. /\ t.be.bursts = cs /\ t.be.children = ch /\ t.mem = s.mem
        /\ t.request = Tail(s.request) /\ t.response = s.response
    BY <1>2, <2>1, AcceptIs
  <2>4. TakenView(bs, ch, lv, im, q, cs)
    BY <2>1, <2>2, TakenHeld
  <2>5. Len(HeldIn(s)) = Len(bs) /\ Len(bs) < Slots
    BY <1>2, <2>1 DEF HeldIn, HeldOf, HasRoom
  <2>6. QED
    BY <1>2, <2>3, <2>4, <2>5 DEF Takes, HeldIn, ImageIn, TakenView
<1>3. QED
  BY <1>1, <1>2

\* The oldest burst has been answered.
AnswersOldest(s, t) ==
    /\ HeldIn(s) # <<>> /\ Len(s.response) < OutDepth
    /\ HeldIn(t) = Tail(HeldIn(s)) /\ ImageIn(t) = ImageIn(s) /\ t.request = s.request
    /\ \E a \in Answers : /\ t.response = Append(s.response, a)
                          /\ \E ok \in {FALSE, Head(HeldIn(s)).served} :
                                AnswerOf(a) = OrderedMemory!Answer(Head(HeldIn(s)), ok)

LEMMA ReturnAnswers ==
    ASSUME NEW s, NEW m \in Nat, Ledger(s, m)
    PROVE  Same(s, ReturnOldest(s)) \/ AnswersOldest(s, ReturnOldest(s))
<1> PICK t, bs, ch, nm, lv, im, h : /\ t = ReturnOldest(s) /\ bs = s.be.bursts /\ ch = s.be.children /\ nm = s.be.next_mem
                                    /\ lv = s.mem.live /\ im = s.mem.image /\ h = HeldIn(s)
  OBVIOUS
<1>1. Shape(s) /\ Books(bs, ch, nm, lv) /\ bs \in Seq(HeldBursts)
  BY DEF Ledger, Typed
<1>2. CASE bs = <<>> \/ ~Finished(Head(bs))
  BY <1>2 DEF ReturnOldest, Same
<1>3. CASE bs # <<>> /\ Finished(Head(bs)) /\ ~(HeldAfter(s.be.held) >= Hold /\ Len(s.response) < OutDepth)
  <2>1. t.be.bursts = bs /\ t.be.children = ch /\ t.mem = s.mem /\ t.request = s.request /\ t.response = s.response
    BY <1>1, <1>3, HeldIs
  <2>2. QED
    BY <2>1 DEF Same, HeldIn, ImageIn
<1>4. CASE bs # <<>> /\ Finished(Head(bs)) /\ HeldAfter(s.be.held) >= Hold /\ Len(s.response) < OutDepth
  <2> PICK cs, a : cs = Tail(bs) /\ a = Answer(Head(bs))
    OBVIOUS
  <2>1. /\ t.be.bursts = cs /\ t.be.children = ch /\ t.mem = s.mem /\ t.request = s.request
        /\ t.response = Append(s.response, a)
    BY <1>1, <1>4, ReturnedIs
  <2>2. h = HeldOf(bs, ch, lv, im)
    BY DEF HeldIn
  <2>7. ReturnedView(bs, ch, lv, im, cs, h)
    BY <1>1, <1>4, <2>2, ReturnedHeld
  <2>3. /\ h # <<>> /\ HeldOf(cs, ch, lv, im) = Tail(h) /\ ImageOf(cs, im) = ImageOf(bs, im)
        /\ \E ok \in {FALSE, Head(h).served} : AnswerOf(a) = OrderedMemory!Answer(Head(h), ok)
    BY <2>7 DEF ReturnedView
  <2>4. HeldIn(t) = Tail(h) /\ ImageIn(t) = ImageIn(s)
    BY <2>1, <2>3 DEF HeldIn, ImageIn
  <2>5. a \in Answers
    BY <1>1, <1>4, AnswerFacts
  <2>6. QED
    BY <1>4, <2>1, <2>3, <2>4, <2>5, Zenon DEF AnswersOldest
<1>5. QED
  BY <1>2, <1>3, <1>4

-----------------------------------------------------------------------------
(* The memory promised, of what the backend holds                            *)

HeldNow == HeldIn(Backend)
ImageNow == ImageIn(Backend)
ResponseNow == ResponseOf(response)

LEMMA MemoryIs ==
    /\ HeldNow = [i \in 1..Len(be.bursts) |->
                     [n |-> be.bursts[i].n, served |-> Status(be.bursts[i].kind) = "ok",
                      data |-> Wanted(be.bursts[i], be.children, mem.live, ImageBefore(be.bursts, mem.image, i))]]
    /\ ImageNow = ImageBefore(be.bursts, mem.image, Len(be.bursts) + 1)
    /\ ResponseNow = [i \in 1..Len(response) |-> [n |-> response[i].n, ok |-> response[i].status = "ok",
                                                  data |-> response[i].data]]
BY BackendFields, Zenon DEF HeldNow, HeldIn, HeldOf, ImageNow, ImageIn, ImageOf, ResponseNow, ResponseOf, AnswerOf

\* What a request becomes, in the words of the memory.
LEMMA EntryTaken ==
    ASSUME NEW q \in Requests
    PROVE  [n |-> q.n, served |-> OrderedMemory!Served(q.kind), data |-> OrderedMemory!Reading(q.kind)]
              = Taken(q, ImageNow)
<1> PICK k, im : k = q.kind /\ im = ImageNow
  OBVIOUS
<1>1. k \in Kinds
  BY DEF Requests
<1>2. OrderedMemory!Served(k) <=> Status(k) = "ok"
  BY <1>1, ServedIs
<1>3. OrderedMemory!Reading(k) =
         IF OrderedMemory!Served(k) /\ ~k.write THEN [o \in 0..(k.length - 1) |-> im[k.addr + o]] ELSE <<>>
  BY MemoryIs DEF OrderedMemory!Reading
<1>4. OrderedMemory!Reading(k) = IF Returns(k) THEN [o \in 0..(k.length - 1) |-> im[k.addr + o]] ELSE <<>>
  BY <1>2, <1>3 DEF Returns
<1>5. OrderedMemory!Served(k) = (Status(k) = "ok")
  BY <1>2, Zenon DEF OrderedMemory!Served
<1>6. QED
  BY <1>4, <1>5, Zenon DEF Taken

LEMMA HeldWithIs ==
    ASSUME request # <<>> => Head(request) \in Requests
    PROVE  /\ OrderedMemory!HeldWith(0) = HeldNow
           /\ request # <<>> => OrderedMemory!HeldWith(1) = Append(HeldNow, Taken(Head(request), ImageNow))
<1>1. OrderedMemory!HeldWith(0) = HeldNow
  BY MemoryIs DEF OrderedMemory!HeldWith
<1>2. ASSUME request # <<>> PROVE OrderedMemory!HeldWith(1) = Append(HeldNow, Taken(Head(request), ImageNow))
  <2> PICK q, x, y : q = Head(request) /\ x = [n |-> q.n, served |-> OrderedMemory!Served(q.kind), data |-> OrderedMemory!Reading(q.kind)]
                     /\ y = Taken(q, ImageNow)
    OBVIOUS
  <2>1. x = y
    BY <1>2, EntryTaken
  <2>2. OrderedMemory!HeldWith(1) = Append(HeldNow, x)
    BY MemoryIs DEF OrderedMemory!HeldWith
  <2>3. QED
    BY <2>1, <2>2
<1>3. QED
  BY <1>1, <1>2

LEMMA ImageWithIs ==
    ASSUME request # <<>> => Head(request) \in Requests
    PROVE  /\ OrderedMemory!ImageWith(0) = ImageNow
           /\ request # <<>> => OrderedMemory!ImageWith(1) = WrittenBy(Head(request), ImageNow)
<1>1. OrderedMemory!ImageWith(0) = ImageNow
  BY MemoryIs DEF OrderedMemory!ImageWith
<1>2. ASSUME request # <<>> PROVE OrderedMemory!ImageWith(1) = WrittenBy(Head(request), ImageNow)
  <2> PICK q, k, im : q = Head(request) /\ k = Head(request).kind /\ im = ImageNow
    OBVIOUS
  <2>1. k \in Kinds
    BY <1>2 DEF Requests
  <2>2. OrderedMemory!Served(k) <=> Status(k) = "ok"
    BY <2>1, ServedIs
  <2>3. OrderedMemory!ImageWith(1) =
           IF ~k.write \/ ~OrderedMemory!Served(k) THEN im
           ELSE [a \in Window |-> IF a \in k.addr .. (k.addr + k.length - 1) THEN q.n ELSE im[a]]
    BY MemoryIs DEF OrderedMemory!ImageWith, OrderedMemory!Bytes, Window
  <2>4. im = [a \in Window |-> im[a]]
    BY DEF ImageNow, ImageIn, ImageOf, ImageBefore
  <2>5. CASE k.write /\ Status(k) = "ok"
    BY <2>2, <2>3, <2>5 DEF WrittenBy
  <2>6. CASE ~(k.write /\ Status(k) = "ok")
    <3>1. OrderedMemory!ImageWith(1) = im
      BY <2>2, <2>3, <2>6
    <3>2. WrittenBy(q, im) = [a \in Window |-> im[a]]
      BY <2>6 DEF WrittenBy
    <3>3. QED
      BY <2>4, <3>1, <3>2
  <2>7. QED
    BY <2>5, <2>6
<1>3. QED
  BY <1>1, <1>2

LEMMA MemoryIsNext ==
    /\ HeldNow' = [i \in 1..Len(be'.bursts) |->
                     [n |-> be'.bursts[i].n, served |-> Status(be'.bursts[i].kind) = "ok",
                      data |-> Wanted(be'.bursts[i], be'.children, mem'.live, ImageBefore(be'.bursts, mem'.image, i))]]
    /\ ImageNow' = ImageBefore(be'.bursts, mem'.image, Len(be'.bursts) + 1)
    /\ ResponseNow' = [i \in 1..Len(response') |-> [n |-> response'[i].n, ok |-> response'[i].status = "ok",
                                                  data |-> response'[i].data]]
<1>1. Backend'.be = be' /\ Backend'.mem = mem' /\ Backend'.request = request' /\ Backend'.response = response'
  BY DEF Backend
<1>2. QED
  BY <1>1, Zenon DEF HeldNow, HeldIn, HeldOf, ImageNow, ImageIn, ImageOf, ResponseNow, ResponseOf, AnswerOf

LEMMA CycleIs ==
    ASSUME NEW taken \in {0, 1}, taken = 1 => request # <<>> /\ Len(HeldNow) < Slots,
           request' = IF taken = 1 THEN Tail(request) ELSE request,
           ImageNow' = OrderedMemory!ImageWith(taken),
           \/ HeldNow' = OrderedMemory!HeldWith(taken) /\ ResponseNow' = ResponseNow
           \/ /\ OrderedMemory!HeldWith(taken) # <<>> /\ Len(ResponseNow) < OutDepth
              /\ HeldNow' = Tail(OrderedMemory!HeldWith(taken))
              /\ \E ok \in {FALSE, Head(OrderedMemory!HeldWith(taken)).served} :
                    ResponseNow' = Append(ResponseNow, OrderedMemory!Answer(Head(OrderedMemory!HeldWith(taken)), ok))
    PROVE  OrderedMemory!Cycle
<1> PICK h, w, im : h = HeldNow /\ w = OrderedMemory!HeldWith(taken) /\ im = OrderedMemory!ImageWith(taken)
  OBVIOUS
<1>1. taken = 1 => request # <<>> /\ Len([i \in 1..Len(be.bursts) |->
                [n |-> be.bursts[i].n, served |-> Status(be.bursts[i].kind) = "ok",
                 data |-> Wanted(be.bursts[i], be.children, mem.live, ImageBefore(be.bursts, mem.image, i))]]) < Slots
  BY MemoryIs, Zenon
<1>2. (ImageBefore(be.bursts, mem.image, Len(be.bursts) + 1))' = OrderedMemory!ImageWith(taken)
  BY MemoryIsNext, Zenon
<1>3. CASE HeldNow' = w /\ ResponseNow' = ResponseNow
  BY <1>1, <1>2, <1>3, MemoryIs, MemoryIsNext, Zenon DEF OrderedMemory!Cycle
<1>4. CASE /\ w # <<>> /\ Len(ResponseNow) < OutDepth
           /\ HeldNow' = Tail(w)
           /\ \E ok \in {FALSE, Head(w).served} :
                 ResponseNow' = Append(ResponseNow, OrderedMemory!Answer(Head(w), ok))
  BY <1>1, <1>2, <1>4, MemoryIs, MemoryIsNext, Zenon DEF OrderedMemory!Cycle
<1>5. QED
  BY <1>3, <1>4

\* The answers waiting, one longer and one shorter.
LEMMA ResponseSeq ==
    ASSUME NEW rs \in Seq(Answers)
    PROVE  /\ ResponseOf(rs) \in Seq({AnswerOf(x) : x \in Answers})
           /\ Len(ResponseOf(rs)) = Len(rs)
<1> PICK n, g : n = Len(rs) /\ g = ResponseOf(rs)
  OBVIOUS
<1>1. n \in Nat /\ \A i \in 1 .. n : rs[i] \in Answers
  OBVIOUS
<1>2. g = [i \in 1 .. n |-> AnswerOf(rs[i])]
  BY DEF ResponseOf
<1>3. g \in [1 .. n -> {AnswerOf(x) : x \in Answers}]
  BY <1>1, <1>2
<1>4. g \in Seq({AnswerOf(x) : x \in Answers}) /\ Len(g) = n
  BY <1>1, <1>3
<1>5. QED
  BY <1>4

LEMMA ResponseLonger ==
    ASSUME NEW rs \in Seq(Answers), NEW a \in Answers
    PROVE  ResponseOf(Append(rs, a)) = Append(ResponseOf(rs), AnswerOf(a))
<1> PICK n, w, g, x : n = Len(rs) /\ w = Append(rs, a) /\ g = ResponseOf(rs) /\ x = AnswerOf(a)
  OBVIOUS
<1>1. n \in Nat /\ Len(w) = n + 1 /\ w[n + 1] = a /\ \A j \in 1 .. n : w[j] = rs[j]
  OBVIOUS
<1>2. g \in Seq({AnswerOf(y) : y \in Answers}) /\ Len(g) = n
  BY ResponseSeq
<1>3. \A j \in 1 .. n : g[j] = AnswerOf(rs[j])
  BY DEF ResponseOf
<1>4. Append(g, x) = [j \in 1 .. (n + 1) |-> IF j = n + 1 THEN x ELSE g[j]]
  BY <1>2, AppendIs
<1>5. ResponseOf(w) = [j \in 1 .. (n + 1) |-> AnswerOf(w[j])]
  BY <1>1 DEF ResponseOf
<1>6. \A j \in 1 .. (n + 1) : AnswerOf(w[j]) = IF j = n + 1 THEN x ELSE g[j]
  <2>1. \A j \in 1 .. (n + 1) : j = n + 1 \/ j \in 1 .. n
    BY <1>1
  <2>2. ASSUME NEW j \in 1 .. n PROVE AnswerOf(w[j]) = g[j] /\ j # n + 1
    BY <1>1, <1>3
  <2>3. AnswerOf(w[n + 1]) = x
    BY <1>1
  <2>4. QED
    BY <2>1, <2>2, <2>3, Zenon
<1>7. QED
  BY <1>4, <1>5, <1>6, Zenon

LEMMA ResponseShorter ==
    ASSUME NEW rs \in Seq(Answers), rs # <<>>
    PROVE  ResponseOf(rs) # <<>> /\ ResponseOf(Tail(rs)) = Tail(ResponseOf(rs))
<1> PICK n, w, g : n = Len(rs) /\ w = Tail(rs) /\ g = ResponseOf(rs)
  OBVIOUS
<1>1. n \in Nat \ {0} /\ Len(w) = n - 1 /\ \A j \in 1 .. (n - 1) : w[j] = rs[j + 1] /\ j + 1 \in 1 .. n
  OBVIOUS
<1>2. g \in Seq({AnswerOf(y) : y \in Answers}) /\ Len(g) = n
  BY ResponseSeq
<1>3. \A j \in 1 .. n : g[j] = AnswerOf(rs[j])
  BY DEF ResponseOf
<1>4. g # <<>>
  BY <1>1, <1>2
<1>5. Tail(g) = [j \in 1 .. (n - 1) |-> g[j + 1]]
  BY <1>2, <1>4, TailIs
<1>6. ResponseOf(w) = [j \in 1 .. (n - 1) |-> AnswerOf(w[j])]
  BY <1>1 DEF ResponseOf
<1>7. \A j \in 1 .. (n - 1) : AnswerOf(w[j]) = g[j + 1]
  BY <1>1, <1>3
<1>8. QED
  BY <1>4, <1>5, <1>6, <1>7, Zenon

-----------------------------------------------------------------------------
(* The steps of the backend are steps of the memory promised                 *)

LEMMA NowIs ==
    /\ HeldNow = HeldIn(Backend) /\ ImageNow = ImageIn(Backend) /\ ResponseNow = ResponseOf(Backend.response)
    /\ Backend.request = request /\ Backend.response = response
BY DEF HeldNow, ImageNow, ResponseNow, Backend

\* Taking a request is what the memory does with none or one.
LEMMA AcceptIsWith ==
    ASSUME LedgerInv, NEW s, s = Accept(Backend)
    PROVE  \E taken \in {0, 1} :
              /\ taken = 1 => request # <<>> /\ Len(HeldNow) < Slots
              /\ s.request = IF taken = 1 THEN Tail(request) ELSE request
              /\ s.response = response
              /\ ImageIn(s) = OrderedMemory!ImageWith(taken)
              /\ HeldIn(s) = OrderedMemory!HeldWith(taken)
<1>1. issued \in Nat /\ Ledger(Backend, issued)
  BY DEF LedgerInv
<1>2. request \in Seq(Requests)
  BY <1>1, NowIs DEF Ledger, Typed
<1>3. request # <<>> => Head(request) \in Requests
  BY <1>2
<1>4. Same(Backend, s) \/ Takes(Backend, s)
  BY <1>1, AcceptTakes
<1>5. CASE Same(Backend, s)
  <2>1. /\ s.request = request /\ s.response = response
        /\ ImageIn(s) = OrderedMemory!ImageWith(0) /\ HeldIn(s) = OrderedMemory!HeldWith(0)
    BY <1>3, <1>5, HeldWithIs, ImageWithIs, NowIs DEF Same
  <2>2. QED
    BY <2>1
<1>6. CASE Takes(Backend, s)
  <2>1. request # <<>> /\ Len(HeldNow) < Slots
    BY <1>6, NowIs DEF Takes
  <2>2. s.request = Tail(request) /\ s.response = response
    BY <1>6, NowIs DEF Takes
  <2>3. ImageIn(s) = OrderedMemory!ImageWith(1)
    BY <1>3, <1>6, <2>1, ImageWithIs, NowIs DEF Takes
  <2>4. HeldIn(s) = OrderedMemory!HeldWith(1)
    BY <1>3, <1>6, <2>1, HeldWithIs, NowIs DEF Takes
  <2>5. QED
    BY <2>1, <2>2, <2>3, <2>4
<1>7. QED
  BY <1>4, <1>5, <1>6

LEMMA RunCycles == ASSUME LedgerInv, Run PROVE OrderedMemory!Cycle
<1>1. PICK accepted \in BOOLEAN : RunRound(accepted)
  BY DEF Run
<1> PICK m, a : m = issued /\ a = Accept(Backend)
  OBVIOUS
<1>2. m \in Nat /\ Ledger(Backend, m)
  BY DEF LedgerInv
<1>3. PICK s \in {Submit(Accept(Backend), accepted)} :
         \E ids \in SUBSET DOMAIN s.mem.live : \E failing \in SUBSET ids :
            \E t \in {ReturnOldest(Complete(s, ids, failing))} :
                be' = t.be /\ mem' = t.mem /\ request' = t.request /\ response' = t.response
  BY <1>1, Zenon DEF RunRound
<1>4. PICK ids \in SUBSET DOMAIN s.mem.live :
          \E failing \in SUBSET ids : \E t \in {ReturnOldest(Complete(s, ids, failing))} :
             be' = t.be /\ mem' = t.mem /\ request' = t.request /\ response' = t.response
  BY <1>3, Zenon
<1>5. PICK failing \in SUBSET ids :
          \E t \in {ReturnOldest(Complete(s, ids, failing))} :
             be' = t.be /\ mem' = t.mem /\ request' = t.request /\ response' = t.response
  BY <1>4, Zenon
<1>6. PICK t \in {ReturnOldest(Complete(s, ids, failing))} :
         be' = t.be /\ mem' = t.mem /\ request' = t.request /\ response' = t.response
  BY <1>5, Zenon
<1> PICK c : c = Complete(s, ids, failing)
  OBVIOUS
<1>7. s = Submit(a, accepted) /\ t = ReturnOldest(c)
  OBVIOUS
<1>8. Ledger(a, m)
  BY <1>2, AcceptKeeps
<1>9. Ledger(s, m) /\ Same(a, s)
  BY <1>2, <1>7, <1>8, SubmitKeeps, SubmitSame
<1>10. Ledger(c, m) /\ Same(s, c)
  BY <1>2, <1>9, CompleteKeeps, CompleteSame
<1>11. Same(c, t) \/ AnswersOldest(c, t)
  BY <1>2, <1>7, <1>10, ReturnAnswers
<1>12. Same(a, c)
  BY <1>9, <1>10, Zenon DEF Same
<1>13. PICK taken \in {0, 1} :
          /\ taken = 1 => request # <<>> /\ Len(HeldNow) < Slots
          /\ a.request = IF taken = 1 THEN Tail(request) ELSE request
          /\ a.response = response
          /\ ImageIn(a) = OrderedMemory!ImageWith(taken)
          /\ HeldIn(a) = OrderedMemory!HeldWith(taken)
  BY AcceptIsWith
<1>14. HeldNow' = HeldIn(t) /\ ImageNow' = ImageIn(t) /\ ResponseNow' = ResponseOf(t.response)
  <2>1. HeldNow' = HeldOf(be'.bursts, be'.children, mem'.live, mem'.image)
        /\ ImageNow' = ImageOf(be'.bursts, mem'.image)
    BY DEF HeldNow, ImageNow, HeldIn, ImageIn, Backend
  <2>2. ResponseNow' = ResponseOf(response')
    BY DEF ResponseNow
  <2>3. QED
    BY <1>6, <2>1, <2>2, Zenon DEF HeldIn, ImageIn
<1>15. response \in Seq(Answers) /\ Len(ResponseNow) = Len(response)
  BY <1>2, NowIs, ResponseSeq DEF Ledger, Typed
<1> PICK h, im : h = OrderedMemory!HeldWith(taken) /\ im = OrderedMemory!ImageWith(taken)
  OBVIOUS
<1>16. request' = IF taken = 1 THEN Tail(request) ELSE request
  BY <1>6, <1>11, <1>12, <1>13 DEF Same, AnswersOldest
<1>17. ImageNow' = im
  BY <1>11, <1>12, <1>13, <1>14 DEF Same, AnswersOldest
<1>18. CASE Same(c, t)
  <2>1. HeldNow' = h
    BY <1>12, <1>13, <1>14, <1>18 DEF Same
  <2>2. ResponseNow' = ResponseNow
    BY <1>12, <1>13, <1>14, <1>18 DEF Same, ResponseNow
  <2>3. QED
    BY <1>13, <1>16, <1>17, <2>1, <2>2, CycleIs, Zenon
<1>19. CASE AnswersOldest(c, t)
  <2>1. HeldIn(c) = h /\ c.response = response
    BY <1>12, <1>13 DEF Same
  <2>2. h # <<>> /\ Len(ResponseNow) < OutDepth /\ HeldNow' = Tail(h)
    BY <1>14, <1>15, <1>19, <2>1 DEF AnswersOldest
  <2>3. PICK x \in Answers : /\ t.response = Append(response, x)
                             /\ \E ok \in {FALSE, Head(h).served} : AnswerOf(x) = OrderedMemory!Answer(Head(h), ok)
    BY <1>19, <2>1, Zenon DEF AnswersOldest
  <2>4. ResponseNow' = Append(ResponseNow, AnswerOf(x))
    BY <1>14, <1>15, <2>3, ResponseLonger DEF ResponseNow
  <2>5. \E ok \in {FALSE, Head(h).served} : ResponseNow' = Append(ResponseNow, OrderedMemory!Answer(Head(h), ok))
    BY <2>3, <2>4, Zenon
  <2>6. QED
    BY <1>13, <1>16, <1>17, <2>2, <2>5, CycleIs, Zenon
<1>20. QED
  BY <1>11, <1>18, <1>19

LEMMA ViewsKept ==
    /\ be' = be /\ mem' = mem => HeldNow' = HeldNow /\ ImageNow' = ImageNow
    /\ response' = response => ResponseNow' = ResponseNow
<1>1. ASSUME be' = be, mem' = mem PROVE HeldNow' = HeldNow /\ ImageNow' = ImageNow
  BY <1>1, MemoryIs, MemoryIsNext, Zenon
<1>2. ASSUME response' = response PROVE ResponseNow' = ResponseNow
  BY <1>2, MemoryIs, MemoryIsNext, Zenon
<1>3. QED
  BY <1>1, <1>2

LEMMA IssueIs ==
    ASSUME LedgerInv, NEW k \in Kinds, Issue(k)
    PROVE  \E n \in 1 .. MaxBursts : OrderedMemory!Issue(k, n)
<1>1. issued \in Nat /\ issued < MaxBursts /\ MaxBursts \in Nat
  BY BackendAssumption DEF LedgerInv, Issue
<1>2. issued + 1 \in 1 .. MaxBursts
  BY <1>1
<1>3. /\ Len(request) < InDepth /\ request' = Append(request, [n |-> issued + 1, kind |-> k])
      /\ be' = be /\ mem' = mem /\ response' = response
  BY DEF Issue
<1>4. HeldNow' = HeldNow /\ ImageNow' = ImageNow /\ ResponseNow' = ResponseNow
  BY <1>3, ViewsKept, Zenon
<1>5. OrderedMemory!Issue(k, issued + 1)
  BY <1>3, <1>4, MemoryIs, MemoryIsNext, Zenon DEF OrderedMemory!Issue
<1>6. QED
  BY <1>2, <1>5, Zenon

LEMMA TakeIs == ASSUME LedgerInv, TakeResponse PROVE OrderedMemory!TakeResponse
<1>1. response \in Seq(Answers)
  BY NowIs DEF LedgerInv, Ledger, Typed
<1>2. response # <<>> /\ response' = Tail(response) /\ request' = request /\ be' = be /\ mem' = mem
  BY DEF TakeResponse
<1>3. ResponseNow # <<>> /\ ResponseNow' = Tail(ResponseNow)
  BY <1>1, <1>2, ResponseShorter DEF ResponseNow
<1>4. HeldNow' = HeldNow /\ ImageNow' = ImageNow
  BY <1>2, ViewsKept, Zenon
<1>5. QED
  BY <1>2, <1>3, <1>4, MemoryIs, MemoryIsNext, Zenon DEF OrderedMemory!TakeResponse

LEMMA InitIs == ASSUME BackendInit PROVE OrderedMemory!MemoryInit
<1>1. /\ request = <<>> /\ response = <<>> /\ be.bursts = <<>>
      /\ mem.image = [a \in Window |-> 0]
  BY DEF BackendInit
<1>2. HeldNow = <<>>
  BY <1>1 DEF HeldNow, HeldIn, HeldOf, Backend
<1>3. ResponseNow = <<>>
  BY <1>1 DEF ResponseNow, ResponseOf
<1>4. \A a \in Window : Unwritten(<<>>, 1, a) = {} /\ mem.image[a] = 0
  BY <1>1 DEF Unwritten
<1>5. ImageBefore(<<>>, mem.image, 1) = [a \in Window |-> 0]
  BY <1>4 DEF ImageBefore
<1>6. ImageNow = [a \in 0 .. (Size - 1) |-> 0]
  BY <1>1, <1>5 DEF ImageNow, ImageIn, ImageOf, Backend, Window
<1>7. QED
  BY <1>1, <1>2, <1>3, <1>6, MemoryIs, Zenon DEF OrderedMemory!MemoryInit

LEMMA BackendStepIs ==
    ASSUME LedgerInv, [BackendNext]_backendVars
    PROVE  [OrderedMemory!MemoryNext]_(OrderedMemory!memoryVars)
<1>1. CASE UNCHANGED backendVars
  <2>1. be' = be /\ mem' = mem /\ request' = request /\ response' = response
    BY <1>1 DEF backendVars
  <2>2. HeldNow' = HeldNow /\ ImageNow' = ImageNow /\ ResponseNow' = ResponseNow
    BY <2>1, ViewsKept, Zenon
  <2>3. QED
    BY <2>1, <2>2, MemoryIs, MemoryIsNext, Zenon DEF OrderedMemory!memoryVars
<1>2. CASE Run
  BY <1>2, RunCycles, Zenon DEF OrderedMemory!MemoryNext
<1>3. CASE \E k \in Kinds : Issue(k)
  BY <1>3, IssueIs, Zenon DEF OrderedMemory!MemoryNext
<1>4. CASE TakeResponse
  BY <1>4, TakeIs, Zenon DEF OrderedMemory!MemoryNext
<1>5. QED
  BY <1>1, <1>2, <1>3, <1>4 DEF BackendNext

\* The backend that splits bursts at granules, retries what mem_sim refuses and merges what
\* completes in any order (memsim_backend.cc) is a memory that takes bursts one after another
\* and answers them in that order, for every window, granule, number of slots and FIFO depth.
THEOREM BackendIsMemory == BackendSpec => ImplementsBurstMemory
<1>1. BackendInit => LedgerInv
  BY BackendInitLedger
<1>2. LedgerInv /\ [BackendNext]_backendVars => LedgerInv'
  BY BackendNextLedger
<1>3. BackendInit => OrderedMemory!MemoryInit
  BY InitIs
<1>4. LedgerInv /\ [BackendNext]_backendVars => [OrderedMemory!MemoryNext]_(OrderedMemory!memoryVars)
  BY BackendStepIs
<1>5. QED
  BY <1>1, <1>2, <1>3, <1>4, PTL DEF BackendSpec, ImplementsBurstMemory, OrderedMemory!MemorySpec
============================================================================
