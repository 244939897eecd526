--------------------------- MODULE StorageProofs ---------------------------
(***************************************************************************)
(* What mem_sim stores is found again, for every configuration: of the        *)
(* file-backed memory backend and of the memory image that uses one.          *)
(*                                                                         *)
(* ChunkStore implements LineStore, and FilesAndCounters is an invariant, for *)
(* every number of lines, chunk size, cache limit and number of faults.  The   *)
(* inductive invariant StoreInv says of each line how its four places         *)
(* agree: the cache, the files, the bits and what a new process may find.  A   *)
(* clean chunk is what the files hold; a line that is not present is blank     *)
(* wherever it is; and what may be found of a line is closed under pairing     *)
(* one content's payload with another's metadata, which is what a torn write   *)
(* of a chunk does to every line in it, also to those never stored to.         *)
(*                                                                         *)
(* MemoryImage's lines are exact for every geometry, number of writes and      *)
(* byte masks.  Its inductive invariant ImageInv says that a clean row buffer  *)
(* holds what the backend holds, so that it may be dropped; that the current   *)
(* place of each line holds what was written and a version already given out;  *)
(* and that a flipped bit came after a shadow that can correct it.             *)
(***************************************************************************)
EXTENDS ChunkStore, MemoryImage, FiniteSetTheorems, SequenceTheorems, TLAPS

Blank == [data |-> Zero, version |-> 0]
CachedChunks == UNION {[lines : [LinesIn(c) -> Content], dirty : BOOLEAN] : c \in Chunks}

\* The state has the shape its declarations say.
Shape ==
    /\ cfg \in Configs /\ up \in BOOLEAN /\ stale \in BOOLEAN
    /\ data_ \in [Lines -> Payloads \cup {Zero}] /\ meta_ \in [Lines -> Versions]
    /\ presence \subseteq Lines /\ written \subseteq presence
    /\ may \in [Lines -> SUBSET (Content \cup {Absent})]

\* recent orders the cached chunks; a store that is down, or mapped, has none.
CacheShape ==
    /\ DOMAIN cache \subseteq Chunks
    /\ \A c \in DOMAIN cache : cache[c] \in [lines : [LinesIn(c) -> Content], dirty : BOOLEAN]
    /\ recent \in Seq(Chunks) /\ ToSet(recent) = DOMAIN cache /\ IsInjective(recent)
    /\ Len(recent) <= cfg.cache_limit
    /\ cfg.mapped \/ ~up => DOMAIN cache = {}

IsCached(l) == ChunkOf(l) \in DOMAIN cache
InCache(l) == cache[ChunkOf(l)].lines[l]

\* A clean chunk is what the files hold.
CleanOnFile == \A l \in Lines : IsCached(l) /\ ~cache[ChunkOf(l)].dirty => InCache(l) = OnFile(l)

\* A line that is not present is blank in its file and in its chunk.
AbsentBlank ==
    ~cfg.mapped => \A l \in Lines \ presence : OnFile(l) = Blank /\ (IsCached(l) => InCache(l) = Blank)

\* m has every pairing of the payload and the metadata of two of its contents.
Paired(m) == \A x, y \in m \ {Absent} : [data |-> x.data, version |-> y.version] \in m

\* What load answers and what the files hold may be found.
MayBeFound == \A l \in Lines : Visible[l] \in may[l] /\ Paired(may[l])

\* The counters, of the process or at the head of the file, are those of the bits.
Counted ==
    /\ CountersExact
    /\ ~up /\ ~stale => header = [allocated |-> Cardinality(presence), written |-> Cardinality(written)]

StoreInv == Shape /\ CacheShape /\ CleanOnFile /\ AbsentBlank /\ MayBeFound /\ FilesRecoverable /\ Counted

-----------------------------------------------------------------------------
(* Lines, chunks and the pairs of a set                                      *)

LEMMA ChunkFacts ==
    /\ \A l \in Lines : ChunkOf(l) \in Chunks /\ l \in LinesIn(ChunkOf(l))
    /\ \A c : LinesIn(c) \subseteq Lines
    /\ \A c, l : l \in LinesIn(c) => ChunkOf(l) = c
  BY DEF Chunks, LinesIn

\* A content is its payload and its metadata; no content is Absent.
LEMMA ContentFacts ==
    /\ Absent \notin Content
    /\ \A x \in Content : x.data \in Payloads \cup {Zero} /\ x.version \in Versions
                         /\ x = [data |-> x.data, version |-> x.version]
    /\ Blank \in Content /\ Blank.data = Zero /\ Blank.version = 0
  BY ChunkStoreAssumption DEF Content, Versions, Blank

LEMMA OnFileContent == ASSUME Shape PROVE \A l \in Lines : OnFile(l) \in Content
  BY DEF Shape, OnFile, Content

\* Absent, a content, or one of the cache: what load answers is of the right kind.
LEMMA VisibleContent ==
    ASSUME Shape, CacheShape
    PROVE  /\ \A l \in Lines : Visible[l] \in Content \cup {Absent}
           /\ \A l \in Lines : Visible[l] = Absent <=> l \notin presence
           /\ \A l \in Lines : IsCached(l) => InCache(l) \in Content
<1>1. \A l \in Lines : IsCached(l) => InCache(l) \in Content
  BY ChunkFacts DEF CacheShape, IsCached, InCache
<1>2. \A l \in Lines : Visible[l] = IF l \notin presence THEN Absent ELSE IF IsCached(l) THEN InCache(l) ELSE OnFile(l)
  BY DEF Visible, IsCached, InCache
<1>3. QED
  BY <1>1, <1>2, OnFileContent, ContentFacts

\* The files once the dirty ones of the cached chunks D had their payloads written, those of M their
\* metadata too: a line in M is as in the cache, one outside of D as it was, and any other is a
\* pairing of both, which may be found.
LEMMA WriteBack ==
    ASSUME StoreInv, NEW D \in SUBSET DOMAIN cache, NEW M \in SUBSET D,
           data_' = DataWith(D), meta_' = MetaWith(M)
    PROVE  /\ data_' \in [Lines -> Payloads \cup {Zero}] /\ meta_' \in [Lines -> Versions]
           /\ \A l \in Lines : ChunkOf(l) \in M => OnFile(l)' = InCache(l)
           /\ \A l \in Lines : ChunkOf(l) \notin D => OnFile(l)' = OnFile(l)
           /\ \A l \in presence : OnFile(l)' \in may[l]
           /\ ~cfg.mapped => \A l \in Lines \ presence : OnFile(l)' = Blank
<1>1. Shape /\ CacheShape /\ CleanOnFile /\ AbsentBlank
  BY DEF StoreInv
<1>2. \A l \in Lines : IsCached(l) => InCache(l) \in Content
  BY <1>1, VisibleContent
<1>3. \A l \in Lines : OnFile(l) \in Content
  BY <1>1, OnFileContent
<1>4. \A l \in Lines : /\ OnFile(l)' = [data |-> data_'[l], version |-> meta_'[l]]
                      /\ OnFile(l) = [data |-> data_[l], version |-> meta_[l]]
  BY DEF OnFile
<1>5. ASSUME NEW l \in Lines, ChunkOf(l) \notin D
      PROVE  data_'[l] = data_[l] /\ meta_'[l] = meta_[l]
  BY <1>5 DEF DataWith, MetaWith
<1>6. ASSUME NEW l \in Lines, ChunkOf(l) \in D
      PROVE  /\ IsCached(l)
             /\ data_'[l] = InCache(l).data
             /\ meta_'[l] = IF ChunkOf(l) \in M THEN InCache(l).version ELSE meta_[l]
  <2>1. IsCached(l)
    BY <1>6 DEF IsCached
  <2>2. data_'[l] = IF cache[ChunkOf(l)].dirty THEN InCache(l).data ELSE data_[l]
    BY <1>6 DEF DataWith, InCache
  <2>3. meta_'[l] = IF ChunkOf(l) \in M /\ cache[ChunkOf(l)].dirty THEN InCache(l).version ELSE meta_[l]
    BY DEF MetaWith, InCache
  <2>4. ~cache[ChunkOf(l)].dirty => InCache(l).data = data_[l] /\ InCache(l).version = meta_[l]
    BY <1>1, <1>4, <2>1 DEF CleanOnFile
  <2>5. QED
    BY <2>1, <2>2, <2>3, <2>4
<1>7. \A l \in Lines : ChunkOf(l) \in M => OnFile(l)' = InCache(l)
  BY <1>2, <1>4, <1>6, ContentFacts
<1>8. \A l \in Lines : ChunkOf(l) \notin D => OnFile(l)' = OnFile(l)
  BY <1>4, <1>5
<1>9. ASSUME NEW l \in presence PROVE OnFile(l)' \in may[l]
  <2>1. l \in Lines
    BY <1>1 DEF Shape
  <2>2. OnFile(l) \in may[l]
    BY <2>1 DEF StoreInv, FilesRecoverable
  <2>3. CASE ChunkOf(l) \in D
    <3>1. InCache(l) \in may[l]
      BY <1>6, <2>1, <2>3 DEF StoreInv, MayBeFound, Visible, IsCached, InCache
    <3>2. Paired(may[l])
      BY <2>1 DEF StoreInv, MayBeFound
    <3>3. InCache(l) \in Content /\ OnFile(l) \in Content
      BY <1>2, <1>3, <1>6, <2>1, <2>3
    <3>4. OnFile(l)' = InCache(l) \/ OnFile(l)' = [data |-> InCache(l).data, version |-> OnFile(l).version]
      BY <1>4, <1>6, <1>7, <2>1, <2>3
    <3>5. QED
      BY <2>2, <3>1, <3>2, <3>3, <3>4, ContentFacts DEF Paired
  <2>4. QED
    BY <1>8, <2>1, <2>2, <2>3
<1>10. ASSUME ~cfg.mapped, NEW l \in Lines \ presence PROVE OnFile(l)' = Blank
  <2>1. OnFile(l) = Blank /\ (IsCached(l) => InCache(l) = Blank)
    BY <1>1, <1>10 DEF AbsentBlank
  <2>2. data_'[l] = Zero /\ meta_'[l] = 0
    BY <1>4, <1>5, <1>6, <2>1, ContentFacts
  <2>3. QED
    BY <1>4, <2>2 DEF Blank
<1>11. data_' \in [Lines -> Payloads \cup {Zero}] /\ meta_' \in [Lines -> Versions]
  <2>1. \A l \in Lines : data_'[l] \in Payloads \cup {Zero} /\ meta_'[l] \in Versions
    BY <1>2, <1>3, <1>4, <1>5, <1>6, ContentFacts
  <2>2. QED
    BY <2>1 DEF DataWith, MetaWith
<1>12. QED
  BY <1>7, <1>8, <1>9, <1>10, <1>11

-----------------------------------------------------------------------------
(* The chunk that comes and the one that goes                                *)

\* What load finds of a line that is present.
Held(l) == IF IsCached(l) THEN InCache(l) ELSE OnFile(l)

LEMMA VisibleIsHeld ==
    \A l \in Lines : Visible[l] = IF l \in presence THEN Held(l) ELSE Absent
  BY DEF Visible, Held, IsCached, InCache

LEMMA RemoveAtFacts ==
    ASSUME NEW S, NEW s \in Seq(S), NEW p \in 1 .. Len(s)
    PROVE  /\ RemoveAt(s, p) \in Seq(S) /\ Len(RemoveAt(s, p)) = Len(s) - 1
           /\ \A i \in 1 .. (Len(s) - 1) : RemoveAt(s, p)[i] = IF i < p THEN s[i] ELSE s[i + 1]
<1> DEFINE front == SubSeq(s, 1, p - 1)
           back == SubSeq(s, p + 1, Len(s))
<1>1. /\ front \in Seq(S) /\ Len(front) = p - 1
      /\ \A i \in 1 .. (p - 1) : front[i] = s[i]
  OBVIOUS
<1>2. /\ back \in Seq(S) /\ Len(back) = Len(s) - p
      /\ \A i \in 1 .. (Len(s) - p) : back[i] = s[p + i]
  OBVIOUS
<1>3. RemoveAt(s, p) = front \o back
  BY DEF RemoveAt
<1> HIDE DEF front, back
<1>4. /\ front \o back \in Seq(S) /\ Len(front \o back) = Len(front) + Len(back)
      /\ \A i \in 1 .. (Len(front) + Len(back)) :
             (front \o back)[i] = IF i <= Len(front) THEN front[i] ELSE back[i - Len(front)]
  BY <1>1, <1>2, ConcatProperties
<1>5. Len(s) \in Nat
  OBVIOUS
<1>6. ASSUME NEW i \in 1 .. (Len(s) - 1) PROVE (front \o back)[i] = IF i < p THEN s[i] ELSE s[i + 1]
  <2>1. CASE i < p
    BY <1>1, <1>2, <1>4, <1>5, <2>1
  <2>2. CASE ~(i < p)
    <3>1. (front \o back)[i] = back[i - (p - 1)] /\ i - (p - 1) \in 1 .. (Len(s) - p)
      BY <1>1, <1>2, <1>4, <1>5, <2>2
    <3>2. p + (i - (p - 1)) = i + 1
      BY <1>5
    <3>3. QED
      BY <1>2, <2>2, <3>1, <3>2
  <2>3. QED
    BY <2>1, <2>2
<1>7. Len(front \o back) = Len(s) - 1
  BY <1>1, <1>2, <1>4, <1>5
<1>8. QED
  BY <1>3, <1>4, <1>6, <1>7, Zenon

LEMMA AppendFacts ==
    ASSUME NEW S, NEW s \in Seq(S), NEW x \in S, IsInjective(s), x \notin ToSet(s)
    PROVE  /\ Append(s, x) \in Seq(S) /\ Len(Append(s, x)) = Len(s) + 1
           /\ ToSet(Append(s, x)) = ToSet(s) \cup {x} /\ IsInjective(Append(s, x))
<1>1. /\ Append(s, x) \in Seq(S) /\ Len(Append(s, x)) = Len(s) + 1
      /\ \A i \in 1 .. Len(s) : Append(s, x)[i] = s[i]
      /\ Append(s, x)[Len(s) + 1] = x
  OBVIOUS
<1>2. IsInjective(Append(s, x))
  BY <1>1 DEF IsInjective, ToSet
<1>3. ToSet(Append(s, x)) = ToSet(s) \cup {x}
  <2>1. \A y \in ToSet(s) \cup {x} : y \in ToSet(Append(s, x))
    BY <1>1 DEF ToSet
  <2>2. \A y \in ToSet(Append(s, x)) : y \in ToSet(s) \cup {x}
    BY <1>1 DEF ToSet
  <2>3. QED
    BY <2>1, <2>2
<1>4. QED
  BY <1>1, <1>2, <1>3

LEMMA VictimFacts ==
    ASSUME StoreInv, NEW c \in Chunks
    PROVE  /\ Victim(c) \subseteq DOMAIN cache /\ c \notin Victim(c)
           /\ c \in DOMAIN cache => Victim(c) = {}
           /\ Victim(c) # {} => recent # <<>> /\ Victim(c) = {Head(recent)} /\ c \notin DOMAIN cache
           /\ Victim(c) = {} => c \in DOMAIN cache \/ Len(recent) < cfg.cache_limit
<1>1. cfg.cache_limit \in Nat \ {0}
  BY ChunkStoreAssumption DEF StoreInv, Shape
<1>2. recent \in Seq(Chunks) /\ ToSet(recent) = DOMAIN cache /\ Len(recent) <= cfg.cache_limit
  BY DEF StoreInv, CacheShape
<1>3. CASE c \in DOMAIN cache
  BY <1>3 DEF Victim
<1>4. CASE c \notin DOMAIN cache /\ Len(recent) < cfg.cache_limit
  BY <1>4 DEF Victim
<1>5. CASE c \notin DOMAIN cache /\ ~(Len(recent) < cfg.cache_limit)
  <2>1. Victim(c) = {Head(recent)}
    BY <1>5 DEF Victim
  <2>2. recent # <<>> /\ Head(recent) = recent[1] /\ 1 \in DOMAIN recent
    BY <1>1, <1>2, <1>5
  <2>3. Head(recent) \in DOMAIN cache
    BY <1>2, <2>2 DEF ToSet
  <2>4. QED
    BY <1>5, <2>1, <2>2, <2>3
<1>6. QED
  BY <1>3, <1>4, <1>5

\* recent still orders the cached chunks, c last.
LEMMA TouchedFacts ==
    ASSUME StoreInv, NEW c \in Chunks
    PROVE  /\ Touched(c) \in Seq(Chunks) /\ Len(Touched(c)) <= cfg.cache_limit
           /\ ToSet(Touched(c)) = (DOMAIN cache \ Victim(c)) \cup {c} /\ IsInjective(Touched(c))
<1>1. cfg.cache_limit \in Nat \ {0}
  BY ChunkStoreAssumption DEF StoreInv, Shape
<1>2. recent \in Seq(Chunks) /\ ToSet(recent) = DOMAIN cache /\ Len(recent) <= cfg.cache_limit /\ IsInjective(recent)
  BY DEF StoreInv, CacheShape
<1>3. SUFFICES ASSUME NEW others \in Seq(Chunks), Touched(c) = Append(others, c), IsInjective(others),
                      ToSet(others) = (DOMAIN cache \ Victim(c)) \ {c}, Len(others) < cfg.cache_limit
               PROVE  /\ Touched(c) \in Seq(Chunks) /\ Len(Touched(c)) <= cfg.cache_limit
                      /\ ToSet(Touched(c)) = (DOMAIN cache \ Victim(c)) \cup {c} /\ IsInjective(Touched(c))
  <2>1. CASE c \in DOMAIN cache
    <3> DEFINE place == CHOOSE i \in DOMAIN recent : recent[i] = c
    <3>1. place \in 1 .. Len(recent) /\ recent[place] = c
      BY <1>2, <2>1 DEF ToSet
    <3>2. Touched(c) = Append(RemoveAt(recent, place), c)
      BY <2>1, VictimFacts DEF Touched
    <3>3. /\ RemoveAt(recent, place) \in Seq(Chunks) /\ Len(RemoveAt(recent, place)) = Len(recent) - 1
          /\ \A i \in 1 .. (Len(recent) - 1) : RemoveAt(recent, place)[i] = IF i < place THEN recent[i] ELSE recent[i + 1]
      BY <1>2, <3>1, RemoveAtFacts
    <3> HIDE DEF place
    <3>4. IsInjective(RemoveAt(recent, place))
      <4>1. ASSUME NEW i \in 1 .. (Len(recent) - 1), NEW j \in 1 .. (Len(recent) - 1), i # j
            PROVE  RemoveAt(recent, place)[i] # RemoveAt(recent, place)[j]
        <5> DEFINE Old(k) == IF k < place THEN k ELSE k + 1
        <5>1. Old(i) \in DOMAIN recent /\ Old(j) \in DOMAIN recent /\ Old(i) # Old(j)
          BY <1>2, <3>1, <4>1
        <5>2. RemoveAt(recent, place)[i] = recent[Old(i)] /\ RemoveAt(recent, place)[j] = recent[Old(j)]
          BY <3>3
        <5>3. QED
          BY <1>2, <5>1, <5>2 DEF IsInjective
      <4>2. DOMAIN RemoveAt(recent, place) = 1 .. (Len(recent) - 1)
        BY <3>3
      <4>3. QED
        BY <4>1, <4>2 DEF IsInjective
    <3>5. ToSet(RemoveAt(recent, place)) = DOMAIN cache \ {c}
      <4>1. ASSUME NEW i \in 1 .. (Len(recent) - 1)
            PROVE  RemoveAt(recent, place)[i] \in DOMAIN cache \ {c}
        BY <1>2, <3>1, <3>3 DEF IsInjective, ToSet
      <4>2. ASSUME NEW x \in DOMAIN cache \ {c} PROVE x \in ToSet(RemoveAt(recent, place))
        <5>1. PICK j \in 1 .. Len(recent) : recent[j] = x
          BY <1>2 DEF ToSet
        <5>2. j # place
          BY <3>1, <5>1
        <5>3. CASE j < place
          BY <3>1, <3>3, <5>1, <5>3 DEF ToSet
        <5>4. CASE j > place
          <6>1. j - 1 \in 1 .. (Len(recent) - 1) /\ RemoveAt(recent, place)[j - 1] = recent[j]
            BY <1>2, <3>1, <3>3, <5>4
          <6>2. QED
            BY <3>3, <5>1, <6>1 DEF ToSet
        <5>5. QED
          BY <3>1, <5>2, <5>3, <5>4
      <4>3. QED
        BY <3>3, <4>1, <4>2 DEF ToSet
    <3>6. Victim(c) = {} /\ Len(recent) - 1 < cfg.cache_limit
      BY <1>1, <1>2, <2>1, VictimFacts
    <3>7. QED
      BY <1>3, <3>2, <3>3, <3>4, <3>5, <3>6
  <2>2. CASE Victim(c) # {}
    <3>1. Touched(c) = Append(Tail(recent), c)
      BY <2>2, VictimFacts DEF Touched
    <3>2. recent # <<>> /\ Victim(c) = {Head(recent)} /\ c \notin DOMAIN cache
      BY <2>2, VictimFacts
    <3>3. /\ Tail(recent) \in Seq(Chunks) /\ Len(Tail(recent)) = Len(recent) - 1 /\ Head(recent) = recent[1]
          /\ \A i \in 1 .. (Len(recent) - 1) : Tail(recent)[i] = recent[i + 1]
      BY <1>2, <3>2
    <3>4. IsInjective(Tail(recent))
      BY <1>2, <3>2, <3>3 DEF IsInjective
    <3>5. ToSet(Tail(recent)) = DOMAIN cache \ {Head(recent)}
      <4>1. ASSUME NEW i \in 1 .. (Len(recent) - 1) PROVE Tail(recent)[i] \in DOMAIN cache \ {Head(recent)}
        BY <1>2, <3>2, <3>3 DEF IsInjective, ToSet
      <4>2. ASSUME NEW x \in DOMAIN cache \ {Head(recent)} PROVE x \in ToSet(Tail(recent))
        <5>1. PICK j \in 1 .. Len(recent) : recent[j] = x
          BY <1>2 DEF ToSet
        <5>2. j # 1
          BY <3>2, <3>3, <5>1
        <5>3. j - 1 \in 1 .. (Len(recent) - 1) /\ j = (j - 1) + 1
          BY <1>2, <5>1, <5>2
        <5>4. Tail(recent)[j - 1] = recent[(j - 1) + 1]
          BY <3>3, <5>3, Zenon
        <5>5. Tail(recent)[j - 1] = x /\ j - 1 \in DOMAIN Tail(recent)
          BY <1>2, <3>3, <5>1, <5>3, <5>4
        <5>6. QED
          BY <5>5, Zenon DEF ToSet
      <4>3. QED
        BY <3>3, <4>1, <4>2 DEF ToSet
    <3>6. Len(recent) - 1 < cfg.cache_limit
      BY <1>1, <1>2
    <3>7. QED
      BY <1>3, <3>1, <3>2, <3>3, <3>4, <3>5, <3>6, Zenon
  <2>3. CASE c \notin DOMAIN cache /\ Victim(c) = {}
    <3>1. Touched(c) = Append(recent, c) /\ Len(recent) < cfg.cache_limit
      BY <2>3, VictimFacts DEF Touched
    <3>2. QED
      BY <1>2, <1>3, <2>3, <3>1
  <2>4. QED
    BY <2>1, <2>2, <2>3
<1>4. c \notin ToSet(others)
  BY <1>3
<1>5. QED
  BY <1>1, <1>3, <1>4, VictimFacts, AppendFacts

\* A cache with chunk c brought in holds what load finds, as do the files of the others.
LEMMA FetchedFacts ==
    ASSUME StoreInv, NEW c \in Chunks, WriteVictim(c)
    PROVE  /\ DOMAIN Fetched(c) = (DOMAIN cache \ Victim(c)) \cup {c}
           /\ \A k \in DOMAIN Fetched(c) : Fetched(c)[k] \in [lines : [LinesIn(k) -> Content], dirty : BOOLEAN]
           /\ \A l \in Lines : ChunkOf(l) \in DOMAIN Fetched(c) => Fetched(c)[ChunkOf(l)].lines[l] = Held(l)
           /\ \A l \in Lines : ChunkOf(l) \in DOMAIN Fetched(c) /\ ~Fetched(c)[ChunkOf(l)].dirty
                                  => Fetched(c)[ChunkOf(l)].lines[l] = OnFile(l)'
           /\ \A l \in Lines : ChunkOf(l) \notin DOMAIN Fetched(c) => OnFile(l)' = Held(l)
<1> DEFINE kept == DOMAIN cache \ Victim(c)
<1>1. Shape /\ CacheShape /\ CleanOnFile
  BY DEF StoreInv
<1>2. Victim(c) \subseteq DOMAIN cache /\ c \notin Victim(c) /\ (c \in DOMAIN cache => Victim(c) = {})
  BY VictimFacts
<1>3. /\ \A l \in Lines : ChunkOf(l) \in Victim(c) => OnFile(l)' = InCache(l)
      /\ \A l \in Lines : ChunkOf(l) \notin Victim(c) => OnFile(l)' = OnFile(l)
  BY <1>2, WriteBack DEF WriteVictim
<1>4. Fetched(c) = [k \in kept \cup {c} |-> IF k \in kept THEN cache[k] ELSE FromFile(c)]
  BY DEF Fetched
<1>5. FromFile(c) \in [lines : [LinesIn(c) -> Content], dirty : BOOLEAN] /\ FromFile(c).dirty = FALSE
      /\ \A l \in LinesIn(c) : FromFile(c).lines[l] = OnFile(l)
  BY <1>1, OnFileContent, ChunkFacts DEF FromFile
<1>6. \A k \in kept : Fetched(c)[k] = cache[k]
  BY <1>4
<1>7. c \notin kept => Fetched(c)[c] = FromFile(c) /\ c \notin DOMAIN cache
  BY <1>2, <1>4
<1>8. DOMAIN Fetched(c) = kept \cup {c}
  BY <1>4
<1> HIDE DEF kept
<1>9. kept \subseteq DOMAIN cache /\ \A k \in DOMAIN cache \ kept : k \in Victim(c)
  BY DEF kept
<1>10. ASSUME NEW k \in DOMAIN Fetched(c)
       PROVE  Fetched(c)[k] \in [lines : [LinesIn(k) -> Content], dirty : BOOLEAN]
  BY <1>1, <1>5, <1>6, <1>7, <1>8, <1>9 DEF CacheShape
<1>11. ASSUME NEW l \in Lines, ChunkOf(l) \in DOMAIN Fetched(c)
       PROVE  /\ Fetched(c)[ChunkOf(l)].lines[l] = Held(l)
              /\ ~Fetched(c)[ChunkOf(l)].dirty => Held(l) = OnFile(l)'
  <2>1. CASE ChunkOf(l) \in kept
    <3>1. IsCached(l) /\ Fetched(c)[ChunkOf(l)] = cache[ChunkOf(l)] /\ Held(l) = InCache(l)
      BY <1>6, <1>9, <2>1 DEF IsCached, Held
    <3>2. ChunkOf(l) \notin Victim(c)
      BY <2>1 DEF kept
    <3>3. QED
      BY <1>1, <1>3, <3>1, <3>2 DEF CleanOnFile, InCache
  <2>2. CASE ChunkOf(l) \notin kept
    <3>1. ChunkOf(l) = c /\ l \in LinesIn(c)
      BY <1>8, <1>11, <2>2, ChunkFacts
    <3>2. ~IsCached(l) /\ Fetched(c)[ChunkOf(l)] = FromFile(c) /\ Held(l) = OnFile(l)
      BY <1>7, <2>2, <3>1 DEF IsCached, Held
    <3>3. QED
      BY <1>2, <1>3, <1>5, <3>1, <3>2
  <2>3. QED
    BY <2>1, <2>2
<1>12. ASSUME NEW l \in Lines, ChunkOf(l) \notin DOMAIN Fetched(c) PROVE OnFile(l)' = Held(l)
  <2>1. ChunkOf(l) \notin kept
    BY <1>8, <1>12
  <2>2. CASE IsCached(l)
    <3>1. ChunkOf(l) \in Victim(c)
      BY <1>9, <2>1, <2>2 DEF IsCached
    <3>2. QED
      BY <1>3, <2>2, <3>1 DEF Held
  <2>3. CASE ~IsCached(l)
    <3>1. ChunkOf(l) \notin Victim(c)
      BY <1>2, <2>3 DEF IsCached
    <3>2. QED
      BY <1>3, <2>3, <3>1 DEF Held
  <2>4. QED
    BY <2>2, <2>3
<1>13. QED
  BY <1>8, <1>10, <1>11, <1>12 DEF kept

-----------------------------------------------------------------------------
(* What may be found                                                         *)

\* Once v is stored, any pairing of v and of what might have been found before may be found.
LEMMA MixedFacts ==
    ASSUME NEW m \in SUBSET (Content \cup {Absent}), NEW v \in Content
    PROVE  /\ Promise!Mixed(m, v) \subseteq Content /\ Paired(Promise!Mixed(m, v))
           /\ v \in Promise!Mixed(m, v)
           /\ m \ {Absent} \subseteq Promise!Mixed(m, v)
           /\ Absent \in m => Blank \in Promise!Mixed(m, v)
           /\ \A x \in m \ {Absent} : [data |-> v.data, version |-> x.version] \in Promise!Mixed(m, v)
<1> DEFINE found == {IF x = Absent THEN Blank ELSE x : x \in m} \cup {v}
<1>1. Promise!Mixed(m, v) = {[data |-> x.data, version |-> y.version] : x \in found, y \in found}
  BY DEF Promise!Mixed, Promise!Blank, Blank
<1>2. found \subseteq Content /\ v \in found /\ m \ {Absent} \subseteq found /\ (Absent \in m => Blank \in found)
  BY ContentFacts
<1> HIDE DEF found
<1>3. ASSUME NEW z
      PROVE  z \in Promise!Mixed(m, v) <=> \E x, y \in found : z = [data |-> x.data, version |-> y.version]
  BY <1>1
<1>4. \A x, y \in found : [data |-> x.data, version |-> y.version] \in Promise!Mixed(m, v)
  BY <1>3
<1>5. \A x \in found : x \in Promise!Mixed(m, v)
  BY <1>2, <1>4, ContentFacts
<1>6. Promise!Mixed(m, v) \subseteq Content
  BY <1>2, <1>3, ContentFacts DEF Content
<1>7. Paired(Promise!Mixed(m, v))
  <2> SUFFICES ASSUME NEW x \in Promise!Mixed(m, v), NEW y \in Promise!Mixed(m, v)
               PROVE  [data |-> x.data, version |-> y.version] \in Promise!Mixed(m, v)
    BY DEF Paired
  <2>1. PICK a \in found : x.data = a.data
    BY <1>3
  <2>2. PICK b \in found : y.version = b.version
    BY <1>3
  <2>3. QED
    BY <1>4, <2>1, <2>2
<1>8. QED
  BY <1>2, <1>4, <1>5, <1>6, <1>7

-----------------------------------------------------------------------------
(* The counters                                                              *)

LEMMA FiniteBits ==
    ASSUME Shape
    PROVE  /\ IsFiniteSet(presence) /\ IsFiniteSet(written)
           /\ Cardinality(presence) \in 0 .. LineCount /\ Cardinality(written) \in 0 .. LineCount
<1>1. IsFiniteSet(Lines) /\ Cardinality(Lines) = LineCount
  BY ChunkStoreAssumption, FS_Interval DEF Lines
<1>2. presence \subseteq Lines /\ written \subseteq Lines
  BY DEF Shape
<1>3. IsFiniteSet(presence) /\ Cardinality(presence) <= LineCount
  BY <1>1, <1>2, FS_Subset
<1>4. IsFiniteSet(written) /\ Cardinality(written) <= LineCount
  BY <1>1, <1>2, FS_Subset
<1>5. QED
  BY <1>3, <1>4, FS_CardinalityType

LEMMA WrapOnce ==
    ASSUME NEW w \in Nat \ {0}, NEW k \in 0 .. (w - 1)
    PROVE  k % w = k /\ (k + w) % w = k
  OBVIOUS

\* The counters follow the bits, and never wrap.
LEMMA MarkCounts ==
    ASSUME StoreInv, up, NEW l \in Lines, NEW v \in Content, Mark(l, v)
    PROVE  Counted'
<1>1. Shape /\ Counted
  BY DEF StoreInv
<1>2. /\ IsFiniteSet(presence) /\ IsFiniteSet(written)
      /\ Cardinality(presence) \in 0 .. LineCount /\ Cardinality(written) \in 0 .. LineCount
  BY <1>1, FiniteBits
<1>3. CounterWidth \in Nat \ {0} /\ CounterWidth > 2 * LineCount /\ LineCount \in Nat \ {0}
  BY ChunkStoreAssumption
<1>4. v.version = 0 \/ v.version = 1
  BY ContentFacts DEF Versions
<1>5. Cardinality(presence \cup {l}) = IF l \in presence THEN Cardinality(presence) ELSE Cardinality(presence) + 1
  BY <1>2, FS_AddElement
<1>6. Cardinality(written \cup {l}) = IF l \in written THEN Cardinality(written) ELSE Cardinality(written) + 1
  BY <1>2, FS_AddElement
<1>7. Cardinality(written \ {l}) = IF l \in written THEN Cardinality(written) - 1 ELSE Cardinality(written)
  BY <1>2, FS_RemoveElement
<1>8. up' = up /\ stale' = stale
  BY DEF Mark
<1>9. SUFFICES ASSUME ~stale
      PROVE  allocated_lines' = Cardinality(presence') /\ unique_written_lines' = Cardinality(written')
  BY <1>8 DEF Counted, CountersExact
<1>10. allocated_lines = Cardinality(presence) /\ unique_written_lines = Cardinality(written)
  BY <1>1, <1>9 DEF Counted, CountersExact
<1>11. allocated_lines' = Cardinality(presence')
  BY <1>5, <1>10 DEF Mark
<1>12. unique_written_lines' = Cardinality(written')
  <2> DEFINE n == Cardinality(written)
  <2>1. n \in 0 .. LineCount /\ unique_written_lines = n
    BY <1>2, <1>10
  <2>2. l \in written => n > 0
    BY <1>2, FS_EmptySet
  <2> HIDE DEF n
  <2>3. CASE v.version = 1 /\ l \notin written
    <3>1. unique_written_lines' = (n + 1) % CounterWidth
      BY <2>1, <2>3 DEF Mark, WrittenCount
    <3>2. n + 1 \in 0 .. (CounterWidth - 1)
      BY <1>3, <2>1
    <3>5. (n + 1) % CounterWidth = n + 1
      BY <1>3, <3>2, WrapOnce
    <3>3. Cardinality(written') = n + 1
      BY <1>6, <2>3 DEF Mark, n
    <3>4. QED
      BY <3>1, <3>5, <3>3
  <2>4. CASE v.version = 0 /\ l \in written
    <3>1. unique_written_lines' = ((n - 1) + CounterWidth) % CounterWidth
      BY <1>3, <2>1, <2>4 DEF Mark, WrittenCount
    <3>2. n - 1 \in 0 .. (CounterWidth - 1)
      BY <1>3, <2>1, <2>2, <2>4
    <3>5. ((n - 1) + CounterWidth) % CounterWidth = n - 1
      BY <1>3, <3>2, WrapOnce
    <3>3. Cardinality(written') = n - 1
      BY <1>7, <2>4 DEF Mark, n
    <3>4. QED
      BY <3>1, <3>5, <3>3
  <2>5. CASE (v.version = 1 /\ l \in written) \/ (v.version = 0 /\ l \notin written)
    <3>1. unique_written_lines' = n % CounterWidth
      BY <2>1, <2>5 DEF Mark, WrittenCount
    <3>2. n \in 0 .. (CounterWidth - 1)
      BY <1>3, <2>1
    <3>5. n % CounterWidth = n
      BY <1>3, <3>2, WrapOnce
    <3>3. Cardinality(written') = n
      BY <1>6, <1>7, <2>5 DEF Mark, n
    <3>4. QED
      BY <3>1, <3>5, <3>3
  <2>6. QED
    BY <1>4, <2>3, <2>4, <2>5
<1>13. QED
  BY <1>11, <1>12

-----------------------------------------------------------------------------
(* Each step keeps the invariant, and is one of LineStore or does not show   *)

LEMMA SameChunks ==
    ASSUME cfg' = cfg
    PROVE  /\ Chunks' = Chunks /\ \A c : LinesIn(c)' = LinesIn(c)
           /\ \A k : ChunkOf(k)' = ChunkOf(k)
  BY DEF Chunks, LinesIn, ChunkOf

LEMMA VisibleNext == \A k \in Lines : Visible'[k] = IF k \in presence' THEN Held(k)' ELSE Absent
  BY DEF Visible, Held, IsCached, InCache

LEMMA VisibleDomain ==
    /\ DOMAIN Visible = Lines /\ DOMAIN Visible' = Lines
    /\ (\A k \in Lines : Visible'[k] = Visible[k]) => Visible' = Visible
<1>1. Visible = [k \in Lines |-> Visible[k]] /\ Visible' = [k \in Lines |-> Visible'[k]]
  BY DEF Visible
<1>2. QED
  BY <1>1

\* A chunk that came is cached, and the order of the chunks is still that of their use.
LEMMA CameShape ==
    ASSUME StoreInv, NEW c \in Chunks, cfg' = cfg, ~cfg.mapped, up', recent' = Touched(c),
           DOMAIN cache' = (DOMAIN cache \ Victim(c)) \cup {c},
           \A k \in DOMAIN cache' : cache'[k] \in [lines : [LinesIn(k) -> Content], dirty : BOOLEAN]
    PROVE  CacheShape'
<1>1. DOMAIN cache \subseteq Chunks
  BY DEF StoreInv, CacheShape
<1>2. DOMAIN cache' \subseteq Chunks'
  BY <1>1, SameChunks
<1>3. /\ recent' \in Seq(Chunks') /\ ToSet(recent') = DOMAIN cache' /\ IsInjective(recent')
      /\ Len(recent') <= cfg'.cache_limit
  BY TouchedFacts, SameChunks
<1>4. \A k \in DOMAIN cache' : cache'[k] \in [lines : [LinesIn(k)' -> Content], dirty : BOOLEAN]
  BY SameChunks
<1>5. QED
  BY <1>2, <1>3, <1>4 DEF CacheShape, Content, Versions

LEMMA LoadStep ==
    ASSUME StoreInv, NEW l \in Lines, Load(l)
    PROVE  StoreInv' /\ Visible' = Visible /\ may' = may
<1> DEFINE c == ChunkOf(l)
<1>1. Shape /\ CacheShape /\ AbsentBlank /\ MayBeFound /\ FilesRecoverable /\ Counted
  BY DEF StoreInv
<1>2. c \in Chunks
  BY ChunkFacts
<1>3. /\ WriteVictim(c) /\ cache' = Fetched(c) /\ recent' = Touched(c) /\ ~cfg.mapped /\ up
      /\ cfg' = cfg /\ header' = header /\ presence' = presence /\ written' = written
      /\ allocated_lines' = allocated_lines /\ unique_written_lines' = unique_written_lines
      /\ up' = up /\ may' = may /\ stale' = stale
  BY DEF Load
<1> HIDE DEF c
<1>4. /\ DOMAIN cache' = (DOMAIN cache \ Victim(c)) \cup {c}
      /\ \A k \in DOMAIN cache' : cache'[k] \in [lines : [LinesIn(k) -> Content], dirty : BOOLEAN]
      /\ \A k \in Lines : ChunkOf(k) \in DOMAIN cache' => cache'[ChunkOf(k)].lines[k] = Held(k)
      /\ \A k \in Lines : ChunkOf(k) \in DOMAIN cache' /\ ~cache'[ChunkOf(k)].dirty
                            => cache'[ChunkOf(k)].lines[k] = OnFile(k)'
      /\ \A k \in Lines : ChunkOf(k) \notin DOMAIN cache' => OnFile(k)' = Held(k)
  BY <1>2, <1>3, FetchedFacts
<1>5. /\ data_' \in [Lines -> Payloads \cup {Zero}] /\ meta_' \in [Lines -> Versions]
      /\ \A k \in presence : OnFile(k)' \in may[k]
      /\ \A k \in Lines \ presence : OnFile(k)' = Blank
  BY <1>2, <1>3, VictimFacts, WriteBack DEF WriteVictim
<1>6. Shape'
  BY <1>1, <1>3, <1>5 DEF Shape, Content, Versions
<1>7. CacheShape'
  BY <1>2, <1>3, <1>4, CameShape
<1>8. \A k \in Lines : Held(k)' = Held(k)
  BY <1>3, <1>4, SameChunks DEF Held, IsCached, InCache
<1>9. CleanOnFile'
  BY <1>3, <1>4, SameChunks DEF CleanOnFile, IsCached, InCache
<1>10. AbsentBlank'
  <2>1. \A k \in Lines \ presence : Held(k) = Blank
    BY <1>1, <1>3 DEF AbsentBlank, Held
  <2>2. QED
    BY <1>3, <1>4, <1>5, <2>1, SameChunks DEF AbsentBlank, IsCached, InCache
<1>11. Visible' = Visible
  BY <1>3, <1>8, VisibleIsHeld, VisibleNext, VisibleDomain
<1>12. MayBeFound'
  BY <1>1, <1>3, <1>11 DEF MayBeFound
<1>13. FilesRecoverable'
  BY <1>1, <1>3, <1>5 DEF FilesRecoverable, Shape
<1>14. Counted'
  BY <1>1, <1>3 DEF Counted, CountersExact
<1>15. QED
  BY <1>3, <1>6, <1>7, <1>9, <1>10, <1>11, <1>12, <1>13, <1>14 DEF StoreInv

\* What both kinds of store do to the bits, and to what may be found.
LEMMA MarkFacts ==
    ASSUME StoreInv, up, NEW l \in Lines, NEW v \in Content, Mark(l, v)
    PROVE  /\ cfg' = cfg /\ up' = up /\ stale' = stale /\ header' = header
           /\ presence' = presence \cup {l} /\ presence' \subseteq Lines /\ written' \subseteq presence'
           /\ may' = [may EXCEPT ![l] = Promise!Mixed(may[l], v)]
           /\ may' \in [Lines -> SUBSET (Content \cup {Absent})]
           /\ \A k \in Lines : Paired(may'[k])
           /\ \A k \in Lines \ {l} : may'[k] = may[k]
           /\ v \in may'[l] /\ \A x \in may[l] : x \in Content => x \in may'[l]
           /\ Absent \in may[l] => Blank \in may'[l]
           /\ \A x \in may[l] : x \in Content => [data |-> v.data, version |-> x.version] \in may'[l]
<1>1. Shape /\ MayBeFound
  BY DEF StoreInv
<1>2. may[l] \in SUBSET (Content \cup {Absent})
  BY <1>1 DEF Shape
<1>3. may' = [may EXCEPT ![l] = Promise!Mixed(may[l], v)] /\ may'[l] = Promise!Mixed(may[l], v)
  BY <1>1 DEF Mark, Shape
<1>4. /\ may'[l] \subseteq Content /\ Paired(may'[l]) /\ v \in may'[l] /\ may[l] \ {Absent} \subseteq may'[l]
      /\ Absent \in may[l] => Blank \in may'[l]
      /\ \A x \in may[l] \ {Absent} : [data |-> v.data, version |-> x.version] \in may'[l]
  <2> DEFINE mixed == Promise!Mixed(may[l], v)
  <2>1. /\ mixed \subseteq Content /\ Paired(mixed) /\ v \in mixed /\ may[l] \ {Absent} \subseteq mixed
        /\ Absent \in may[l] => Blank \in mixed
        /\ \A x \in may[l] \ {Absent} : [data |-> v.data, version |-> x.version] \in mixed
    BY <1>2, MixedFacts
  <2>2. may'[l] = mixed
    BY <1>3
  <2> HIDE DEF mixed
  <2>3. QED
    BY <2>1, <2>2
<1>5. \A k \in Lines \ {l} : may'[k] = may[k]
  BY <1>1, <1>3 DEF Shape
<1>6. may' \in [Lines -> SUBSET (Content \cup {Absent})]
  BY <1>1, <1>3, <1>4 DEF Shape
<1>7. \A k \in Lines : Paired(may'[k])
  BY <1>1, <1>4, <1>5 DEF MayBeFound
<1>8. presence' = presence \cup {l} /\ presence' \subseteq Lines /\ written' \subseteq presence'
  BY <1>1 DEF Mark, Shape
<1>9. QED
  BY <1>3, <1>4, <1>5, <1>6, <1>7, <1>8, ContentFacts DEF Mark

LEMMA StoreStep ==
    ASSUME StoreInv, NEW l \in Lines, NEW v \in Content, Store(l, v)
    PROVE  StoreInv' /\ Promise!Store(l, v)
<1> DEFINE c == ChunkOf(l)
<1>1. Shape /\ CacheShape /\ AbsentBlank /\ MayBeFound /\ FilesRecoverable
  BY DEF StoreInv
<1>2. c \in Chunks /\ l \in LinesIn(c)
  BY ChunkFacts
<1>3. WriteVictim(c) /\ cache' = Changed(c, l, v) /\ recent' = Touched(c) /\ ~cfg.mapped /\ up /\ Mark(l, v)
  BY DEF Store
<1>4. /\ cfg' = cfg /\ up' = up /\ stale' = stale
      /\ presence' = presence \cup {l} /\ presence' \subseteq Lines /\ written' \subseteq presence'
      /\ may' = [may EXCEPT ![l] = Promise!Mixed(may[l], v)]
      /\ may' \in [Lines -> SUBSET (Content \cup {Absent})]
      /\ \A k \in Lines : Paired(may'[k])
      /\ \A k \in Lines \ {l} : may'[k] = may[k]
      /\ v \in may'[l] /\ \A x \in may[l] : x \in Content => x \in may'[l]
      /\ Absent \in may[l] => Blank \in may'[l]
  BY <1>3, MarkFacts
<1>5. c = ChunkOf(l)
  OBVIOUS
<1> HIDE DEF c
<1>6. /\ DOMAIN Fetched(c) = (DOMAIN cache \ Victim(c)) \cup {c}
      /\ \A k \in DOMAIN Fetched(c) : Fetched(c)[k] \in [lines : [LinesIn(k) -> Content], dirty : BOOLEAN]
      /\ \A k \in Lines : ChunkOf(k) \in DOMAIN Fetched(c) => Fetched(c)[ChunkOf(k)].lines[k] = Held(k)
      /\ \A k \in Lines : ChunkOf(k) \in DOMAIN Fetched(c) /\ ~Fetched(c)[ChunkOf(k)].dirty
                            => Fetched(c)[ChunkOf(k)].lines[k] = OnFile(k)'
      /\ \A k \in Lines : ChunkOf(k) \notin DOMAIN Fetched(c) => OnFile(k)' = Held(k)
  BY <1>2, <1>3, FetchedFacts
<1>7. /\ data_' \in [Lines -> Payloads \cup {Zero}] /\ meta_' \in [Lines -> Versions]
      /\ \A k \in presence : OnFile(k)' \in may[k]
      /\ \A k \in Lines \ presence : OnFile(k)' = Blank
  BY <1>2, <1>3, VictimFacts, WriteBack DEF WriteVictim
<1>8. /\ cache'[c] = [lines |-> [Fetched(c)[c].lines EXCEPT ![l] = v], dirty |-> TRUE]
      /\ \A k \in DOMAIN Fetched(c) \ {c} : cache'[k] = Fetched(c)[k]
      /\ DOMAIN cache' = DOMAIN Fetched(c)
  BY <1>3, <1>6 DEF Changed
<1>9. /\ cache'[c] \in [lines : [LinesIn(c) -> Content], dirty : BOOLEAN] /\ cache'[c].dirty = TRUE
      /\ cache'[c].lines[l] = v /\ \A k \in LinesIn(c) \ {l} : cache'[c].lines[k] = Fetched(c)[c].lines[k]
  BY <1>2, <1>6, <1>8
<1>10. Shape'
  BY <1>1, <1>4, <1>7 DEF Shape, Content, Versions
<1>11. CacheShape'
  <2>1. \A k \in DOMAIN cache' : cache'[k] \in [lines : [LinesIn(k) -> Content], dirty : BOOLEAN]
    BY <1>6, <1>8, <1>9
  <2>2. QED
    BY <1>2, <1>3, <1>4, <1>6, <1>8, <2>1, CameShape
<1>12. \A k \in Lines : ChunkOf(k) \in DOMAIN cache' => cache'[ChunkOf(k)].lines[k] = IF k = l THEN v ELSE Held(k)
  BY <1>2, <1>5, <1>6, <1>8, <1>9, ChunkFacts
<1>13. \A k \in Lines : Held(k)' = IF k = l THEN v ELSE Held(k)
  BY <1>4, <1>5, <1>6, <1>8, <1>12, SameChunks DEF Held, IsCached, InCache
<1>14. CleanOnFile'
  <2>1. \A k \in Lines : ChunkOf(k) \in DOMAIN cache' /\ ~cache'[ChunkOf(k)].dirty
                            => cache'[ChunkOf(k)].lines[k] = OnFile(k)'
    BY <1>6, <1>8, <1>9
  <2>2. QED
    BY <1>4, <2>1, SameChunks DEF CleanOnFile, IsCached, InCache
<1>15. AbsentBlank'
  <2>1. \A k \in Lines \ presence : Held(k) = Blank
    BY <1>1, <1>3 DEF AbsentBlank, Held
  <2>2. QED
    BY <1>4, <1>7, <1>12, <2>1, SameChunks DEF AbsentBlank, IsCached, InCache
<1>16. Visible' = [Visible EXCEPT ![l] = v]
  <2>1. \A k \in Lines : Visible'[k] = IF k = l THEN v ELSE Visible[k]
    BY <1>4, <1>13, VisibleIsHeld, VisibleNext
  <2>2. Visible = [k \in Lines |-> Visible[k]] /\ Visible' = [k \in Lines |-> Visible'[k]]
    BY DEF Visible
  <2>3. QED
    BY <2>1, <2>2
<1>17. MayBeFound'
  <2>1. \A k \in Lines : Visible'[k] \in may'[k]
    BY <1>1, <1>4, <1>16, VisibleDomain DEF MayBeFound
  <2>2. QED
    BY <1>4, <2>1 DEF MayBeFound, Paired
<1>18. FilesRecoverable'
  <2>1. ASSUME NEW k \in Lines PROVE (IF k \in presence' THEN OnFile(k)' ELSE Absent) \in may'[k]
    <3>1. CASE k # l
      BY <1>1, <1>4, <1>7, <3>1 DEF FilesRecoverable
    <3>2. CASE k = l /\ l \in presence
      <4>1. OnFile(k)' \in Content
        BY <1>7 DEF OnFile, Content
      <4>2. QED
        BY <1>4, <1>7, <3>2, <4>1
    <3>3. CASE k = l /\ l \notin presence
      <4>1. Absent \in may[l]
        BY <1>1, <3>3 DEF FilesRecoverable
      <4>2. QED
        BY <1>4, <1>7, <3>3, <4>1
    <3>4. QED
      BY <3>1, <3>2, <3>3
  <2>2. QED
    BY <2>1 DEF FilesRecoverable
<1>19. Counted'
  BY <1>3, MarkCounts
<1>20. QED
  BY <1>4, <1>10, <1>11, <1>14, <1>15, <1>16, <1>17, <1>18, <1>19 DEF StoreInv, Promise!Store

LEMMA StoreMappedStep ==
    ASSUME StoreInv, NEW l \in Lines, NEW v \in Content, StoreMapped(l, v)
    PROVE  StoreInv' /\ Promise!Store(l, v)
<1>1. Shape /\ CacheShape /\ MayBeFound /\ FilesRecoverable
  BY DEF StoreInv
<1>2. /\ cfg.mapped /\ up /\ Mark(l, v) /\ cache' = cache /\ recent' = recent
      /\ data_' = [data_ EXCEPT ![l] = v.data] /\ meta_' = [meta_ EXCEPT ![l] = v.version]
  BY DEF StoreMapped
<1>3. /\ cfg' = cfg /\ up' = up /\ stale' = stale
      /\ presence' = presence \cup {l} /\ presence' \subseteq Lines /\ written' \subseteq presence'
      /\ may' = [may EXCEPT ![l] = Promise!Mixed(may[l], v)]
      /\ may' \in [Lines -> SUBSET (Content \cup {Absent})]
      /\ \A k \in Lines : Paired(may'[k])
      /\ \A k \in Lines \ {l} : may'[k] = may[k]
      /\ v \in may'[l]
  BY <1>2, MarkFacts
<1>4. DOMAIN cache = {}
  BY <1>1, <1>2 DEF CacheShape
<1>5. data_' \in [Lines -> Payloads \cup {Zero}] /\ meta_' \in [Lines -> Versions]
  BY <1>1, <1>2, ContentFacts DEF Shape
<1>6. \A k \in Lines : OnFile(k)' = IF k = l THEN v ELSE OnFile(k)
  BY <1>1, <1>2, ContentFacts DEF Shape, OnFile
<1>7. Shape'
  BY <1>1, <1>3, <1>5 DEF Shape, Content, Versions
<1>8. CacheShape'
  BY <1>1, <1>2, <1>3, <1>4, SameChunks DEF CacheShape
<1>9. \A k \in Lines : Held(k) = OnFile(k) /\ Held(k)' = OnFile(k)' /\ ~IsCached(k) /\ ~IsCached(k)'
  BY <1>2, <1>4 DEF Held, IsCached
<1>10. Visible' = [Visible EXCEPT ![l] = v]
  <2>1. \A k \in Lines : Visible'[k] = IF k = l THEN v ELSE Visible[k]
    BY <1>3, <1>6, <1>9, VisibleIsHeld, VisibleNext
  <2>2. Visible = [k \in Lines |-> Visible[k]] /\ Visible' = [k \in Lines |-> Visible'[k]]
    BY DEF Visible
  <2>3. QED
    BY <2>1, <2>2
<1>11. MayBeFound'
  <2>1. \A k \in Lines : Visible'[k] \in may'[k]
    BY <1>1, <1>3, <1>10, VisibleDomain DEF MayBeFound
  <2>2. QED
    BY <1>3, <2>1 DEF MayBeFound, Paired
<1>12. FilesRecoverable'
  BY <1>1, <1>3, <1>6 DEF FilesRecoverable
<1>13. CleanOnFile' /\ AbsentBlank'
  BY <1>2, <1>3, <1>9 DEF CleanOnFile, AbsentBlank
<1>14. Counted'
  BY <1>2, MarkCounts
<1>15. QED
  BY <1>3, <1>7, <1>8, <1>10, <1>11, <1>12, <1>13, <1>14 DEF StoreInv, Promise!Store

\* Chunks are written back and stay cached: those in C whole, those in D and not in C without metadata.
LEMMA WrittenBack ==
    ASSUME StoreInv, NEW D \in SUBSET DOMAIN cache, NEW C \in SUBSET D, \A c \in D \ C : cache[c].dirty,
           data_' = DataWith(D), meta_' = MetaWith(C), cfg' = cfg, up' = up, presence' = presence, recent' = recent,
           DOMAIN cache' = DOMAIN cache,
           \A c \in DOMAIN cache : cache'[c] = IF c \in C THEN [cache[c] EXCEPT !.dirty = FALSE] ELSE cache[c]
    PROVE  CacheShape' /\ CleanOnFile' /\ AbsentBlank' /\ Visible' = Visible
<1>1. Shape /\ CacheShape /\ CleanOnFile /\ AbsentBlank
  BY DEF StoreInv
<1>2. /\ \A l \in Lines : ChunkOf(l) \in C => OnFile(l)' = InCache(l)
      /\ \A l \in Lines : ChunkOf(l) \notin D => OnFile(l)' = OnFile(l)
      /\ ~cfg.mapped => \A l \in Lines \ presence : OnFile(l)' = Blank
  BY WriteBack
<1>3. ASSUME NEW c \in DOMAIN cache
      PROVE  /\ cache'[c] \in [lines : [LinesIn(c) -> Content], dirty : BOOLEAN]
             /\ cache'[c].lines = cache[c].lines
             /\ ~cache'[c].dirty => c \in C \/ (c \notin D /\ ~cache[c].dirty)
  BY <1>1 DEF CacheShape
<1>10. \A l : ChunkOf(l)' = ChunkOf(l)
  BY SameChunks
<1>4. CacheShape'
  <2>1. ASSUME NEW c \in DOMAIN cache' PROVE cache'[c] \in [lines : [LinesIn(c)' -> Content], dirty : BOOLEAN]
    <3>1. LinesIn(c)' = LinesIn(c) /\ c \in DOMAIN cache
      BY <2>1, SameChunks
    <3>2. QED
      BY <1>3, <3>1
  <2>2. /\ DOMAIN cache' \subseteq Chunks' /\ recent' \in Seq(Chunks') /\ ToSet(recent') = DOMAIN cache'
        /\ IsInjective(recent') /\ Len(recent') <= cfg'.cache_limit
        /\ (cfg'.mapped \/ ~up' => DOMAIN cache' = {})
    BY <1>1, SameChunks DEF CacheShape
  <2>3. QED
    BY <2>1, <2>2 DEF CacheShape, Content, Versions
<1>5. ASSUME NEW l \in Lines
      PROVE  /\ IsCached(l)' <=> IsCached(l)
             /\ IsCached(l) => InCache(l)' = InCache(l)
  <2>1. IsCached(l)' <=> IsCached(l)
    BY <1>10 DEF IsCached
  <2>2. ASSUME IsCached(l) PROVE InCache(l)' = InCache(l)
    BY <1>3, <1>10, <2>2 DEF IsCached, InCache
  <2>3. QED
    BY <2>1, <2>2
<1>6. CleanOnFile'
  <2>1. ASSUME NEW l \in Lines, IsCached(l), ~cache'[ChunkOf(l)].dirty PROVE InCache(l) = OnFile(l)'
    BY <1>1, <1>2, <1>3, <2>1 DEF CleanOnFile, IsCached
  <2>2. QED
    BY <1>5, <1>10, <2>1 DEF CleanOnFile
<1>7. AbsentBlank'
  BY <1>1, <1>2, <1>5 DEF AbsentBlank
<1>8. Visible' = Visible
  <2>1. \A l \in Lines : Held(l)' = Held(l)
    BY <1>2, <1>5 DEF Held, IsCached
  <2>2. QED
    BY <2>1, VisibleIsHeld, VisibleNext, VisibleDomain
<1>9. QED
  BY <1>4, <1>6, <1>7, <1>8

\* Every chunk is written: the files are what load finds, and only that may be found.
LEMMA WriteAllFacts ==
    ASSUME StoreInv, WriteAll
    PROVE  /\ data_' \in [Lines -> Payloads \cup {Zero}] /\ meta_' \in [Lines -> Versions]
           /\ \A l \in Lines : OnFile(l)' = Held(l)
           /\ may' = [l \in Lines |-> {Visible[l]}] /\ may' \in [Lines -> SUBSET (Content \cup {Absent})]
           /\ \A l \in Lines : may'[l] = {Visible[l]} /\ Paired(may'[l])
           /\ header' = [allocated |-> allocated_lines, written |-> unique_written_lines]
<1>1. Shape /\ CacheShape
  BY DEF StoreInv
<1>2. data_' = DataWith(DOMAIN cache) /\ meta_' = MetaWith(DOMAIN cache)
  BY DEF WriteAll, FlushedChunks
<1>3. /\ data_' \in [Lines -> Payloads \cup {Zero}] /\ meta_' \in [Lines -> Versions]
      /\ \A l \in Lines : ChunkOf(l) \in DOMAIN cache => OnFile(l)' = InCache(l)
      /\ \A l \in Lines : ChunkOf(l) \notin DOMAIN cache => OnFile(l)' = OnFile(l)
  BY <1>2, WriteBack
<1>4. \A l \in Lines : OnFile(l)' = Held(l)
  BY <1>3 DEF Held, IsCached
<1>5. /\ may' = [l \in Lines |-> {Visible[l]}]
      /\ header' = [allocated |-> allocated_lines, written |-> unique_written_lines]
  BY DEF WriteAll
<1>6. \A l \in Lines : Visible[l] \in Content \cup {Absent}
  BY <1>1, VisibleContent
<1>7. \A l \in Lines : may'[l] = {Visible[l]}
  BY <1>5
<1>8. \A l \in Lines : Paired(may'[l])
  BY <1>6, <1>7, ContentFacts DEF Paired
<1>9. QED
  BY <1>3, <1>4, <1>5, <1>6, <1>7, <1>8

LEMMA FlushStep ==
    ASSUME StoreInv, Flush
    PROVE  StoreInv' /\ Promise!Flush
<1>1. Shape /\ Counted
  BY DEF StoreInv
<1>2. /\ WriteAll /\ up /\ cache' = Clean(DOMAIN cache) /\ cfg' = cfg /\ up' = up /\ presence' = presence
      /\ written' = written /\ recent' = recent /\ stale' = stale
      /\ allocated_lines' = allocated_lines /\ unique_written_lines' = unique_written_lines
  BY DEF Flush, FlushedChunks
<1>3. data_' = DataWith(DOMAIN cache) /\ meta_' = MetaWith(DOMAIN cache)
  BY <1>2 DEF WriteAll, FlushedChunks
<1>4. /\ DOMAIN cache' = DOMAIN cache
      /\ \A c \in DOMAIN cache : cache'[c] = [cache[c] EXCEPT !.dirty = FALSE]
  BY <1>2 DEF Clean
<1>5. CacheShape' /\ CleanOnFile' /\ AbsentBlank' /\ Visible' = Visible
  BY <1>2, <1>3, <1>4, WrittenBack
<1>6. /\ data_' \in [Lines -> Payloads \cup {Zero}] /\ meta_' \in [Lines -> Versions]
      /\ \A l \in Lines : OnFile(l)' = Held(l)
      /\ may' = [l \in Lines |-> {Visible[l]}] /\ may' \in [Lines -> SUBSET (Content \cup {Absent})]
      /\ \A l \in Lines : may'[l] = {Visible[l]} /\ Paired(may'[l])
  BY <1>2, WriteAllFacts
<1>7. Shape'
  BY <1>1, <1>2, <1>6 DEF Shape, Content, Versions
<1>8. MayBeFound'
  BY <1>5, <1>6 DEF MayBeFound, Paired
<1>9. FilesRecoverable'
  BY <1>2, <1>6, VisibleIsHeld DEF FilesRecoverable
<1>10. Counted'
  BY <1>1, <1>2 DEF Counted, CountersExact
<1>11. QED
  BY <1>5, <1>6, <1>7, <1>8, <1>9, <1>10 DEF StoreInv, Promise!Flush

\* A cache that is gone.
LEMMA CacheGone ==
    ASSUME Shape, cfg' = cfg, cache' = <<>>, recent' = <<>>
    PROVE  CacheShape' /\ \A k \in Lines : ~IsCached(k)' /\ Held(k)' = OnFile(k)'
<1>1. DOMAIN cache' = {} /\ recent' \in Seq(Chunks') /\ ToSet(recent') = {} /\ IsInjective(recent') /\ Len(recent') = 0
  BY DEF ToSet, IsInjective
<1>2. cfg'.cache_limit \in Nat
  BY ChunkStoreAssumption DEF Shape
<1>3. CacheShape'
  BY <1>1, <1>2 DEF CacheShape
<1>4. QED
  BY <1>1, <1>3 DEF IsCached, Held

LEMMA CloseStep ==
    ASSUME StoreInv, Close
    PROVE  StoreInv' /\ Promise!Flush
<1>1. Shape /\ AbsentBlank /\ Counted
  BY DEF StoreInv
<1>2. /\ WriteAll /\ up /\ cache' = <<>> /\ cfg' = cfg /\ ~up' /\ up' \in BOOLEAN /\ presence' = presence
      /\ written' = written /\ recent' = <<>> /\ stale' = stale
      /\ allocated_lines' = allocated_lines /\ unique_written_lines' = unique_written_lines
  BY DEF Close
<1>3. /\ data_' \in [Lines -> Payloads \cup {Zero}] /\ meta_' \in [Lines -> Versions]
      /\ \A l \in Lines : OnFile(l)' = Held(l)
      /\ may' = [l \in Lines |-> {Visible[l]}] /\ may' \in [Lines -> SUBSET (Content \cup {Absent})]
      /\ \A l \in Lines : may'[l] = {Visible[l]} /\ Paired(may'[l])
      /\ header' = [allocated |-> allocated_lines, written |-> unique_written_lines]
  BY <1>2, WriteAllFacts
<1>4. CacheShape' /\ \A k \in Lines : ~IsCached(k)' /\ Held(k)' = OnFile(k)'
  BY <1>1, <1>2, CacheGone
<1>5. Visible' = Visible
  BY <1>2, <1>3, <1>4, VisibleIsHeld, VisibleNext, VisibleDomain
<1>6. Shape'
  BY <1>1, <1>2, <1>3 DEF Shape, Content, Versions
<1>7. CleanOnFile' /\ AbsentBlank'
  BY <1>1, <1>2, <1>3, <1>4 DEF CleanOnFile, AbsentBlank, Held
<1>8. MayBeFound'
  BY <1>3, <1>5 DEF MayBeFound, Paired
<1>9. FilesRecoverable'
  BY <1>2, <1>3, VisibleIsHeld DEF FilesRecoverable
<1>10. Counted'
  BY <1>1, <1>2, <1>3 DEF Counted, CountersExact
<1>11. QED
  BY <1>3, <1>4, <1>5, <1>6, <1>7, <1>8, <1>9, <1>10 DEF StoreInv, Promise!Flush

LEMMA ClearStep ==
    ASSUME StoreInv, Clear
    PROVE  StoreInv' /\ Promise!Clear
<1>1. Shape
  BY DEF StoreInv
<1>2. /\ up /\ cache' = <<>> /\ recent' = <<>> /\ allocated_lines' = 0 /\ unique_written_lines' = 0
      /\ data_' = [l \in Lines |-> Zero] /\ meta_' = [l \in Lines |-> 0] /\ presence' = {} /\ written' = {}
      /\ may' = [l \in Lines |-> {Absent}] /\ stale' = FALSE /\ cfg' = cfg /\ up' = up
  BY DEF Clear
<1>3. CacheShape' /\ \A k \in Lines : ~IsCached(k)' /\ Held(k)' = OnFile(k)'
  BY <1>1, <1>2, CacheGone
<1>4. Shape'
  BY <1>1, <1>2 DEF Shape, Versions
<1>5. \A k \in Lines : OnFile(k)' = Blank
  BY <1>2 DEF OnFile, Blank
<1>6. CleanOnFile' /\ AbsentBlank'
  BY <1>3, <1>5 DEF CleanOnFile, AbsentBlank
<1>7. Visible' = [l \in Lines |-> Absent]
  BY <1>2 DEF Visible
<1>8. MayBeFound' /\ FilesRecoverable'
  BY <1>2, <1>7 DEF MayBeFound, FilesRecoverable, Paired
<1>9. Counted'
  BY <1>2, FS_EmptySet DEF Counted, CountersExact
<1>10. QED
  BY <1>2, <1>3, <1>4, <1>6, <1>7, <1>8, <1>9 DEF StoreInv, Promise!Clear

LEMMA ReopenStep ==
    ASSUME StoreInv, Reopen
    PROVE  StoreInv' /\ Visible' = Visible /\ may' = may
<1>1. Shape /\ CacheShape /\ CleanOnFile /\ AbsentBlank /\ MayBeFound /\ FilesRecoverable /\ Counted
  BY DEF StoreInv
<1>2. /\ ~up /\ up' /\ up' \in BOOLEAN /\ allocated_lines' = header.allocated /\ unique_written_lines' = header.written
      /\ cfg' = cfg /\ data_' = data_ /\ meta_' = meta_ /\ header' = header /\ presence' = presence
      /\ written' = written /\ cache' = cache /\ recent' = recent /\ may' = may /\ stale' = stale
  BY DEF Reopen, files
<1>3. DOMAIN cache = {}
  BY <1>1, <1>2 DEF CacheShape
<1>4. Shape'
  BY <1>1, <1>2 DEF Shape, Content, Versions
<1>5. CacheShape'
  BY <1>1, <1>2, <1>3, SameChunks DEF CacheShape
<1>6. \A k \in Lines : OnFile(k)' = OnFile(k) /\ ~IsCached(k) /\ ~IsCached(k)'
  BY <1>2, <1>3 DEF OnFile, IsCached
<1>7. CleanOnFile' /\ AbsentBlank'
  BY <1>1, <1>2, <1>6 DEF CleanOnFile, AbsentBlank
<1>8. Visible' = Visible
  BY <1>2, <1>6, VisibleIsHeld, VisibleNext, VisibleDomain DEF Held
<1>9. MayBeFound' /\ FilesRecoverable'
  BY <1>1, <1>2, <1>6, <1>8 DEF MayBeFound, FilesRecoverable
<1>10. Counted'
  BY <1>1, <1>2 DEF Counted, CountersExact
<1>11. QED
  BY <1>2, <1>4, <1>5, <1>7, <1>8, <1>9, <1>10 DEF StoreInv

\* A call that fails while it writes chunk t back, those in C being written.
LEMMA TornStep ==
    ASSUME StoreInv, NEW t \in DOMAIN cache, NEW C \in SUBSET DOMAIN cache, t \notin C, cache[t].dirty, Torn(C, t),
           cfg' = cfg, up' = up, presence' = presence, written' = written, recent' = recent, may' = may, stale' = stale,
           allocated_lines' = allocated_lines, unique_written_lines' = unique_written_lines, header' = header,
           DOMAIN cache' = DOMAIN cache,
           \A c \in DOMAIN cache : cache'[c] = IF c \in C THEN [cache[c] EXCEPT !.dirty = FALSE] ELSE cache[c]
    PROVE  StoreInv' /\ Visible' = Visible /\ may' = may
<1> DEFINE D == C \cup {t}
<1>1. Shape /\ MayBeFound /\ FilesRecoverable /\ Counted
  BY DEF StoreInv
<1>2. data_' = DataWith(D) /\ meta_' = MetaWith(C)
  BY DEF Torn
<1>3. D \in SUBSET DOMAIN cache /\ C \in SUBSET D /\ \A c \in D \ C : cache[c].dirty
  OBVIOUS
<1> HIDE DEF D
<1>4. CacheShape' /\ CleanOnFile' /\ AbsentBlank' /\ Visible' = Visible
  BY <1>2, <1>3, WrittenBack
<1>5. /\ data_' \in [Lines -> Payloads \cup {Zero}] /\ meta_' \in [Lines -> Versions]
      /\ \A l \in presence : OnFile(l)' \in may[l]
  BY <1>2, <1>3, WriteBack
<1>6. Shape'
  BY <1>1, <1>5 DEF Shape, Content, Versions
<1>7. MayBeFound'
  BY <1>1, <1>4 DEF MayBeFound
<1>8. FilesRecoverable'
  BY <1>1, <1>5 DEF FilesRecoverable
<1>9. Counted'
  BY <1>1 DEF Counted, CountersExact
<1>10. QED
  BY <1>4, <1>6, <1>7, <1>8, <1>9 DEF StoreInv

LEMMA EvictionFailsStep ==
    ASSUME StoreInv, NEW l \in Lines, EvictionFails(l)
    PROVE  StoreInv' /\ Visible' = Visible /\ may' = may
<1>1. PICK t \in Victim(ChunkOf(l)) : cache[t].dirty /\ Torn({}, t)
  BY DEF EvictionFails
<1>2. t \in DOMAIN cache
  BY ChunkFacts, VictimFacts
<1>3. /\ cfg' = cfg /\ up' = up /\ presence' = presence /\ written' = written /\ recent' = recent /\ may' = may
      /\ stale' = stale /\ allocated_lines' = allocated_lines /\ unique_written_lines' = unique_written_lines
      /\ header' = header /\ cache' = cache
  BY DEF EvictionFails
<1>4. {} \in SUBSET DOMAIN cache /\ t \notin {}
  OBVIOUS
<1>5. QED
  BY <1>1, <1>2, <1>3, <1>4, TornStep

LEMMA FlushFailsStep ==
    ASSUME StoreInv, FlushFails
    PROVE  StoreInv' /\ Visible' = Visible /\ may' = may
<1>1. PICK t \in DOMAIN cache, C \in SUBSET DOMAIN cache :
          t \notin C /\ cache[t].dirty /\ Torn(C, t) /\ cache' = Clean(C)
  BY DEF FlushFails
<1>2. /\ cfg' = cfg /\ up' = up /\ presence' = presence /\ written' = written /\ recent' = recent /\ may' = may
      /\ stale' = stale /\ allocated_lines' = allocated_lines /\ unique_written_lines' = unique_written_lines
      /\ header' = header
  BY DEF FlushFails
<1>3. /\ DOMAIN cache' = DOMAIN cache
      /\ \A c \in DOMAIN cache : cache'[c] = IF c \in C THEN [cache[c] EXCEPT !.dirty = FALSE] ELSE cache[c]
  BY <1>1 DEF Clean
<1>4. QED
  BY <1>1, <1>2, <1>3, TornStep

\* The process is gone, without its cache; what the files hold of a line may be found.
LEMMA Killed ==
    ASSUME StoreInv, up, cfg' = cfg, ~up', up' \in BOOLEAN, CacheShape', \A k \in Lines : ~IsCached(k)',
           presence' = presence, written' = written, header' = header,
           stale' \in BOOLEAN, ~stale' => ~stale /\ header = [allocated |-> allocated_lines, written |-> unique_written_lines],
           data_' \in [Lines -> Payloads \cup {Zero}], meta_' \in [Lines -> Versions],
           may' \in [Lines -> SUBSET (Content \cup {Absent})], \A l \in Lines : Paired(may'[l]) /\ may[l] \subseteq may'[l],
           \A l \in presence : OnFile(l)' \in may'[l],
           ~cfg.mapped => \A l \in Lines \ presence : OnFile(l)' = Blank
    PROVE  /\ StoreInv'
           /\ Visible' \in [Lines -> Promise!Content \cup {Absent}] /\ \A l \in Lines : Visible'[l] \in may'[l]
<1>1. Shape /\ FilesRecoverable /\ Counted
  BY DEF StoreInv
<1>2. Shape'
  BY <1>1 DEF Shape, Content, Versions
<1>3. \A l \in Lines : Visible'[l] = IF l \in presence THEN OnFile(l)' ELSE Absent
  BY VisibleNext DEF Held
<1>4. \A l \in Lines \ presence : Absent \in may'[l]
  BY <1>1 DEF FilesRecoverable
<1>5. \A l \in Lines : Visible'[l] \in may'[l]
  BY <1>3, <1>4
<1>6. \A l \in Lines : OnFile(l)' \in Content
  BY DEF OnFile, Content
<1>7. Visible' \in [Lines -> Promise!Content \cup {Absent}]
  <2>1. Visible' = [l \in Lines |-> Visible'[l]]
    BY DEF Visible
  <2>2. Promise!Content = Content
    BY DEF Promise!Content, Content
  <2>3. QED
    BY <1>3, <1>6, <2>1, <2>2
<1>8. MayBeFound' /\ FilesRecoverable'
  BY <1>3, <1>4, <1>5 DEF MayBeFound, FilesRecoverable, Paired
<1>9. CleanOnFile' /\ AbsentBlank'
  BY DEF CleanOnFile, AbsentBlank
<1>10. Counted'
  BY <1>1 DEF Counted, CountersExact
<1>11. QED
  BY <1>2, <1>5, <1>7, <1>8, <1>9, <1>10 DEF StoreInv

LEMMA StaleFact ==
    ASSUME stale \in BOOLEAN,
           stale' = (stale \/ header # [allocated |-> allocated_lines, written |-> unique_written_lines])
    PROVE  stale' \in BOOLEAN /\ (~stale' => ~stale /\ header = [allocated |-> allocated_lines, written |-> unique_written_lines])
<1> DEFINE current == [allocated |-> allocated_lines, written |-> unique_written_lines]
<1>1. stale' = (stale \/ header # current)
  OBVIOUS
<1> HIDE DEF current
<1>2. stale' \in BOOLEAN /\ (~stale' => ~stale /\ header = current)
  BY <1>1, Zenon
<1>3. QED
  BY <1>2 DEF current

LEMMA KillStep ==
    ASSUME StoreInv, Kill
    PROVE  StoreInv' /\ Promise!Kill
<1>1. Shape /\ MayBeFound /\ FilesRecoverable /\ AbsentBlank
  BY DEF StoreInv
<1>2. /\ up /\ cache' = <<>> /\ recent' = <<>> /\ cfg' = cfg /\ ~up' /\ up' \in BOOLEAN /\ presence' = presence
      /\ written' = written /\ header' = header /\ may' = may
      /\ stale' = (stale \/ header # [allocated |-> allocated_lines, written |-> unique_written_lines])
  BY DEF Kill
<1>3. stale' \in BOOLEAN /\ (~stale' => ~stale /\ header = [allocated |-> allocated_lines, written |-> unique_written_lines])
  BY <1>1, <1>2, StaleFact DEF Shape
<1>4. /\ data_' \in [Lines -> Payloads \cup {Zero}] /\ meta_' \in [Lines -> Versions]
      /\ \A l \in presence : OnFile(l)' \in may[l]
      /\ ~cfg.mapped => \A l \in Lines \ presence : OnFile(l)' = Blank
  <2>1. CASE UNCHANGED files
    <3>1. data_' = data_ /\ meta_' = meta_
      BY <2>1 DEF files
    <3>2. \A l \in Lines : OnFile(l)' = OnFile(l)
      BY <3>1 DEF OnFile
    <3>3. QED
      BY <1>1, <3>1, <3>2 DEF Shape, AbsentBlank, FilesRecoverable
  <2>2. CASE \E t \in DOMAIN cache, C \in SUBSET DOMAIN cache : t \notin C /\ cache[t].dirty /\ Torn(C, t)
    <3>1. PICK t \in DOMAIN cache, C \in SUBSET DOMAIN cache : Torn(C, t)
      BY <2>2
    <3> DEFINE D == C \cup {t}
    <3>2. data_' = DataWith(D) /\ meta_' = MetaWith(C) /\ D \in SUBSET DOMAIN cache /\ C \in SUBSET D
      BY <3>1 DEF Torn
    <3> HIDE DEF D
    <3>3. QED
      BY <3>2, WriteBack
  <2>3. QED
    BY <2>1, <2>2 DEF Kill
<1>5. CacheShape' /\ \A k \in Lines : ~IsCached(k)'
  BY <1>1, <1>2, CacheGone
<1>6. may' \in [Lines -> SUBSET (Content \cup {Absent})] /\ \A l \in Lines : Paired(may'[l]) /\ may[l] \subseteq may'[l]
  BY <1>1, <1>2 DEF Shape, MayBeFound
<1>7. /\ StoreInv'
      /\ Visible' \in [Lines -> Promise!Content \cup {Absent}] /\ \A l \in Lines : Visible'[l] \in may'[l]
  BY <1>2, <1>3, <1>4, <1>5, <1>6, Killed
<1>8. QED
  BY <1>2, <1>7 DEF Promise!Kill

LEMMA KillInStoreStep ==
    ASSUME StoreInv, NEW l \in Lines, NEW v \in Content, KillInStore(l, v)
    PROVE  StoreInv' /\ Promise!KillInStore(l, v)
<1> DEFINE mixed == Promise!Mixed(may[l], v)
<1>1. Shape /\ CacheShape /\ MayBeFound /\ FilesRecoverable
  BY DEF StoreInv
<1>2. /\ cfg.mapped /\ up /\ cache' = cache /\ recent' = recent /\ cfg' = cfg /\ ~up' /\ up' \in BOOLEAN
      /\ presence' = presence /\ written' = written /\ header' = header
      /\ may' = [may EXCEPT ![l] = may[l] \cup mixed]
      /\ data_' = [data_ EXCEPT ![l] = v.data]
      /\ stale' = (stale \/ header # [allocated |-> allocated_lines, written |-> unique_written_lines])
  BY DEF KillInStore
<1>3. meta_' = meta_ \/ meta_' = [meta_ EXCEPT ![l] = v.version]
  BY DEF KillInStore
<1>4. stale' \in BOOLEAN /\ (~stale' => ~stale /\ header = [allocated |-> allocated_lines, written |-> unique_written_lines])
  BY <1>1, <1>2, StaleFact DEF Shape
<1>5. may[l] \in SUBSET (Content \cup {Absent})
  BY <1>1 DEF Shape
<1>6. /\ mixed \subseteq Content /\ Paired(mixed) /\ v \in mixed /\ may[l] \ {Absent} \subseteq mixed
      /\ \A x \in may[l] \ {Absent} : [data |-> v.data, version |-> x.version] \in mixed
  BY <1>5, MixedFacts
<1> HIDE DEF mixed
<1>7. may'[l] = may[l] \cup mixed /\ \A k \in Lines \ {l} : may'[k] = may[k]
  BY <1>1, <1>2 DEF Shape
<1>8. /\ may' \in [Lines -> SUBSET (Content \cup {Absent})] /\ \A k \in Lines : may[k] \subseteq may'[k]
  BY <1>1, <1>2, <1>5, <1>6 DEF Shape
<1>9. ASSUME NEW k \in Lines PROVE Paired(may'[k])
  <2>1. CASE k = l
    <3>1. may'[k] \ {Absent} = mixed
      BY <1>6, <1>7, <2>1, ContentFacts
    <3>2. \A x, y \in mixed : [data |-> x.data, version |-> y.version] \in mixed
      BY <1>6, ContentFacts DEF Paired
    <3>3. QED
      BY <3>1, <3>2 DEF Paired
  <2>2. CASE k # l
    BY <1>1, <1>7, <2>2 DEF MayBeFound
  <2>3. QED
    BY <2>1, <2>2
<1>10. data_' \in [Lines -> Payloads \cup {Zero}] /\ meta_' \in [Lines -> Versions]
  BY <1>1, <1>2, <1>3, ContentFacts DEF Shape
<1>11. ASSUME NEW k \in presence PROVE OnFile(k)' \in may'[k]
  <2>1. k \in Lines /\ OnFile(k) \in may[k]
    BY <1>1 DEF Shape, FilesRecoverable
  <2>2. CASE k # l
    <3>1. OnFile(k)' = OnFile(k)
      BY <1>1, <1>2, <1>3, <2>1, <2>2 DEF Shape, OnFile
    <3>2. QED
      BY <1>7, <2>1, <2>2, <3>1
  <2>3. CASE k = l
    <3>1. OnFile(l) \in Content /\ OnFile(l).version = meta_[l]
      BY <1>1, OnFileContent DEF OnFile
    <3>2. OnFile(l)' = v \/ OnFile(l)' = [data |-> v.data, version |-> OnFile(l).version]
      BY <1>1, <1>2, <1>3, <3>1, ContentFacts DEF Shape, OnFile
    <3>3. QED
      BY <1>6, <1>7, <2>1, <2>3, <3>1, <3>2, ContentFacts
  <2>4. QED
    BY <2>2, <2>3
<1>12. DOMAIN cache = {}
  BY <1>1, <1>2 DEF CacheShape
<1>13. CacheShape' /\ \A k \in Lines : ~IsCached(k)'
  BY <1>1, <1>2, <1>12, SameChunks DEF CacheShape, IsCached
<1>14. /\ StoreInv'
       /\ Visible' \in [Lines -> Promise!Content \cup {Absent}] /\ \A k \in Lines : Visible'[k] \in may'[k]
  BY <1>2, <1>4, <1>8, <1>9, <1>10, <1>11, <1>13, Killed
<1>15. QED
  BY <1>2, <1>14 DEF Promise!KillInStore, mixed

-----------------------------------------------------------------------------
(* The theorems                                                              *)

LEMMA StoreInit == Init => StoreInv /\ Promise!Init
<1> SUFFICES ASSUME Init PROVE StoreInv /\ Promise!Init
  OBVIOUS
<1>1. /\ cfg \in Configs /\ data_ = [l \in Lines |-> Zero] /\ meta_ = [l \in Lines |-> 0]
      /\ presence = {} /\ written = {} /\ cache = <<>> /\ recent = <<>>
      /\ allocated_lines = 0 /\ unique_written_lines = 0 /\ may = [l \in Lines |-> {Absent}]
  BY DEF Init
<1>2. up \in BOOLEAN /\ up /\ stale \in BOOLEAN /\ ~stale
  BY Zenon DEF Init
<1>3. Shape
  BY <1>1, <1>2 DEF Shape, Versions
<1>4. CacheShape
  <2>1. DOMAIN cache = {} /\ recent \in Seq(Chunks) /\ ToSet(recent) = {} /\ IsInjective(recent) /\ Len(recent) = 0
    BY <1>1 DEF ToSet, IsInjective
  <2>2. cfg.cache_limit \in Nat
    BY <1>1, ChunkStoreAssumption
  <2>3. QED
    BY <2>1, <2>2 DEF CacheShape
<1>5. \A l \in Lines : OnFile(l) = Blank /\ ~IsCached(l)
  BY <1>1 DEF OnFile, Blank, IsCached
<1>6. CleanOnFile /\ AbsentBlank
  BY <1>5 DEF CleanOnFile, AbsentBlank
<1>7. Visible = [l \in Lines |-> Absent]
  BY <1>1 DEF Visible
<1>8. MayBeFound /\ FilesRecoverable
  BY <1>1, <1>7 DEF MayBeFound, FilesRecoverable, Paired
<1>9. Counted
  BY <1>1, <1>2, FS_EmptySet DEF Counted, CountersExact
<1>10. QED
  BY <1>1, <1>3, <1>4, <1>6, <1>7, <1>8, <1>9 DEF StoreInv, Promise!Init

LEMMA StoreNext ==
    ASSUME StoreInv, [Next]_vars
    PROVE  StoreInv' /\ [Promise!Next]_(Promise!vars)
<1>1. ASSUME NEW l \in Lines, NEW v \in Content, Promise!Store(l, v) \/ Promise!KillInStore(l, v) PROVE Promise!Next
  <2>1. Promise!Content = Content
    BY DEF Promise!Content, Content
  <2>2. QED
    BY <1>1, <2>1 DEF Promise!Next
<1>2. Promise!Flush \/ Promise!Clear \/ Promise!Kill => Promise!Next
  BY DEF Promise!Next
<1>3. Used \subseteq Lines
  BY ChunkStoreAssumption DEF StoreInv, Shape, Used, Lines
<1>4. Storable \subseteq Content
  BY DEF Storable, Content
<1>5. SUFFICES (StoreInv' /\ Promise!Next) \/ (StoreInv' /\ Visible' = Visible /\ may' = may)
  BY DEF Promise!vars
<1>6. CASE \E l \in Used : Load(l) \/ EvictionFails(l)
  BY <1>3, <1>6, LoadStep, EvictionFailsStep
<1>7. CASE \E l \in Used, v \in Storable : Store(l, v) \/ StoreMapped(l, v) \/ KillInStore(l, v)
  <2>1. PICK l \in Lines, v \in Content : Store(l, v) \/ StoreMapped(l, v) \/ KillInStore(l, v)
    BY <1>3, <1>4, <1>7
  <2>2. QED
    BY <1>1, <2>1, StoreStep, StoreMappedStep, KillInStoreStep
<1>8. CASE Flush \/ Clear \/ Close \/ Kill
  BY <1>2, <1>8, FlushStep, ClearStep, CloseStep, KillStep
<1>9. CASE Reopen \/ FlushFails
  BY <1>9, ReopenStep, FlushFailsStep
<1>10. CASE UNCHANGED vars
  <2>1. /\ cfg' = cfg /\ data_' = data_ /\ meta_' = meta_ /\ header' = header /\ presence' = presence
        /\ written' = written /\ cache' = cache /\ recent' = recent /\ allocated_lines' = allocated_lines
        /\ unique_written_lines' = unique_written_lines /\ up' = up /\ may' = may /\ stale' = stale
    BY <1>10 DEF vars
  <2>2. Shape' /\ CacheShape' /\ FilesRecoverable' /\ Counted'
    BY <2>1, SameChunks
       DEF StoreInv, Shape, CacheShape, FilesRecoverable, Counted, CountersExact, Content, Versions, OnFile
  <2>3. /\ \A l \in Lines : OnFile(l)' = OnFile(l) /\ (IsCached(l)' <=> IsCached(l)) /\ InCache(l)' = InCache(l)
        /\ \A l \in Lines : cache'[ChunkOf(l)'] = cache[ChunkOf(l)]
    BY <2>1, SameChunks DEF OnFile, IsCached, InCache
  <2>4. CleanOnFile' /\ AbsentBlank'
    BY <2>1, <2>3 DEF StoreInv, CleanOnFile, AbsentBlank
  <2>5. Visible' = Visible
    BY <2>1, <2>3, VisibleIsHeld, VisibleNext, VisibleDomain DEF Held
  <2>6. MayBeFound'
    BY <2>1, <2>5 DEF StoreInv, MayBeFound
  <2>7. QED
    BY <2>1, <2>2, <2>4, <2>5, <2>6 DEF StoreInv
<1>11. CASE Refused
  BY <1>10, <1>11 DEF Refused
<1>12. QED
  BY <1>6, <1>7, <1>8, <1>9, <1>10, <1>11 DEF Next

\* What load answers, what the files hold and what may be found of a line always agree.
THEOREM StoreIsSound == Spec => []StoreInv
<1>1. Init => StoreInv
  BY StoreInit
<1>2. StoreInv /\ [Next]_vars => StoreInv'
  BY StoreNext
<1>3. QED
  BY <1>1, <1>2, PTL DEF Spec

\* At any moment the files hold of every line what the last flush left or something stored since, and
\* the counters of present and written lines agree with the bits of the mappings unless a kill came
\* between them and the header: after any calls, evictions, failures, kills and reopenings.
THEOREM FilesStayRecoverable == Spec => []FilesAndCounters
<1>1. StoreInv => FilesAndCounters
  <2> SUFFICES ASSUME StoreInv PROVE FilesAndCounters
    OBVIOUS
  <2>1. Shape /\ CacheShape /\ FilesRecoverable /\ CountersExact
    BY DEF StoreInv, Counted
  <2>2. \A l \in Lines : OnFile(l) \in Content
    BY <2>1, OnFileContent
  <2>3. 0 \in Lines
    BY ChunkStoreAssumption DEF Lines
  <2>4. TypeOK
    BY <2>1, <2>2, <2>3 DEF TypeOK, Shape, CacheShape
  <2>5. QED
    BY <2>1, <2>4 DEF FilesAndCounters
<1>2. QED
  BY <1>1, StoreIsSound, PTL

\* The backend implements the map that outlives the process: what a cache, its evictions, failed calls,
\* closing and reopening do never shows, and a kill loses at most what was stored since the last flush.
THEOREM StoreKeepsPromise == Spec => KeepsPromise
<1>1. Init => Promise!Init
  BY StoreInit
<1>2. StoreInv /\ [Next]_vars => [Promise!Next]_(Promise!vars)
  BY StoreNext
<1>3. QED
  BY <1>1, <1>2, StoreIsSound, PTL DEF Spec, KeepsPromise, Promise!Spec

-----------------------------------------------------------------------------
(* The memory image                                                          *)

\* A row buffer; only an open one is dirty.
RowBuffer == [open: BOOLEAN, row: Rows \cup {None}, dirty: BOOLEAN, columns: UNION {[C -> Block] : C \in SUBSET image.columns}]
ImageShape ==
    /\ image \in ImageConfigs
    /\ backend \in [ImageLines -> Block \cup {None}]
    /\ row_buffers \in [Banks -> RowBuffer]
    /\ \A b \in Banks : row_buffers[b].dirty => row_buffers[b].open
    /\ next_version \in 1..(image.max_writes + 1)
    /\ should \in [ImageLines -> [Bytes -> Values \cup {None}]]
    /\ wrong \in BOOLEAN

\* Two blocks that hold the same, whatever their flips and shadows.
Same(x, y) == x.bytes = y.bytes /\ x.init = y.init /\ x.version = y.version

\* The column that a row buffer holds of a line.
InRow(l) == row_buffers[Bank(l)].columns[Column(l)]
\* What a clean row buffer holds is what the backend holds.
CleanAgrees == \A l \in ImageLines : Cached(l) /\ ~row_buffers[Bank(l)].dirty => Same(InRow(l), InBackend(l))

\* A block holds what was written to line l.
AsWritten(l, blk) ==
    /\ \A b \in Bytes : blk.bytes[b] = IF should[l][b] = None THEN Default ELSE should[l][b]
    /\ blk.init = {b \in Bytes : should[l][b] # None}
LinesRight == \A l \in ImageLines : AsWritten(l, Current(l)) /\ Current(l).version < next_version

\* A flip came after the shadow, which can correct it.
Covered(blk) ==
    IF blk.flip THEN blk.ecc = "clean" /\ CorrectSingleBit /\ image.ecc_shadow /\ image.ecc_inject_period > 0
    ELSE blk.ecc \in {"none", "clean"}
ShadowsCover ==
    Correctable =>
        /\ \A l \in ImageLines : backend[l] # None => Covered(backend[l])
        /\ \A l \in ImageLines : Cached(l) => Covered(InRow(l))
        /\ ~wrong

ImageInv == ImageShape /\ CleanAgrees /\ LinesRight /\ VersionsDistinct /\ ShadowsCover

-----------------------------------------------------------------------------
(* Lines and blocks                                                          *)

LEMMA LineParts ==
    /\ \A l \in ImageLines : Bank(l) \in Banks /\ Row(l) \in Rows /\ Column(l) \in image.columns
    /\ \A k, l \in ImageLines : Bank(k) = Bank(l) /\ Row(k) = Row(l) /\ Column(k) = Column(l) => k = l
  BY DEF ImageLines, Bank, Row, Column

LEMMA NoneNoBlock ==
    ASSUME ImageAssumption, image \in ImageConfigs
    PROVE  None \notin Block /\ NewLine \in Block /\ ~NewLine.flip /\ NewLine.ecc = "none" /\ NewLine.version = 0
  BY DEF ImageAssumption, Block, NewLine, Bytes

LEMMA BlockFields ==
    ASSUME NEW blk \in Block
    PROVE  /\ blk.bytes \in [Bytes -> Values] /\ blk.init \in SUBSET Bytes /\ blk.version \in Nat
           /\ blk.flip \in BOOLEAN /\ blk.ecc \in {"none", "clean", "flipped"}
  BY DEF Block

\* Errors, shadows and corrections change no byte that was written.
LEMMA FlippedSame ==
    ASSUME NEW blk \in Block
    PROVE  Flipped(blk) \in Block /\ Same(Flipped(blk), blk) /\ (Flipped(blk).flip <=> ~blk.flip) /\ Flipped(blk).ecc = blk.ecc
  BY DEF Block, Flipped, Same

LEMMA ShadowedSame ==
    ASSUME NEW blk \in Block
    PROVE  /\ Shadowed(blk) \in Block /\ Same(Shadowed(blk), blk) /\ (Shadowed(blk).flip <=> blk.flip)
           /\ Shadowed(blk).ecc = IF image.ecc_shadow THEN IF blk.flip THEN "flipped" ELSE "clean" ELSE "none"
  BY DEF Block, Shadowed, Same

LEMMA InjectedSame ==
    ASSUME NEW blk \in Block
    PROVE  /\ Injected(blk) \in Block /\ Same(Injected(blk), blk) /\ Injected(blk).ecc = blk.ecc
           /\ (Injected(blk).flip <=> blk.flip) \/ (image.ecc_shadow /\ image.ecc_inject_period > 0)
<1>1. CASE Injected(blk) = blk
  BY <1>1 DEF Same
<1>2. CASE Injected(blk) = Flipped(blk) /\ image.ecc_shadow /\ image.ecc_inject_period > 0
  BY <1>2, FlippedSame
<1> QED
  BY <1>1, <1>2 DEF Injected

LEMMA CheckedSame ==
    ASSUME NEW blk \in Block
    PROVE  /\ Checked(blk) \in Block /\ Same(Checked(blk), blk)
           /\ Covered(blk) => ~Checked(blk).flip /\ Covered(Checked(blk))
<1>1. CASE blk.ecc = "none" \/ Agrees(blk) \/ ~CorrectSingleBit
  <2>1. Checked(blk) = blk
    BY <1>1 DEF Checked
  <2> QED
    BY <1>1, <2>1 DEF Same, Covered, Agrees
<1>2. CASE ~(blk.ecc = "none" \/ Agrees(blk) \/ ~CorrectSingleBit)
  <2>1. Checked(blk) = Shadowed(Flipped(blk))
    BY <1>2 DEF Checked
  <2>2. Checked(blk) \in Block /\ Same(Checked(blk), blk) /\ (Checked(blk).flip <=> ~blk.flip)
    BY <2>1, FlippedSame, ShadowedSame DEF Same
  <2>3. Covered(blk) => blk.flip
    BY <1>2 DEF Covered, Agrees
  <2>4. blk.flip => Checked(blk).ecc \in {"none", "clean"}
    BY <2>1, FlippedSame, ShadowedSame
  <2> QED
    BY <2>2, <2>3, <2>4 DEF Covered
<1> QED
  BY <1>1, <1>2

\* What a line holds is a block.
LEMMA CurrentBlock ==
    ASSUME ImageAssumption, ImageShape, NEW l \in ImageLines
    PROVE  /\ backend[l] # None => backend[l] \in Block
           /\ InBackend(l) \in Block
           /\ Cached(l) => InRow(l) \in Block /\ Current(l) = InRow(l)
           /\ ~Cached(l) => Current(l) = InBackend(l)
           /\ Current(l) \in Block
<1>1. backend[l] # None => backend[l] \in Block
  BY DEF ImageShape
<1>2. InBackend(l) \in Block
  BY <1>1, NoneNoBlock DEF InBackend, ImageShape
<1>3. Cached(l) => InRow(l) \in Block
  <2>1. row_buffers[Bank(l)] \in RowBuffer
    BY LineParts DEF ImageShape
  <2>2. PICK C \in SUBSET image.columns : row_buffers[Bank(l)].columns \in [C -> Block]
    BY <2>1 DEF RowBuffer
  <2> QED
    BY <2>2 DEF Cached, InRow
<1> QED
  BY <1>1, <1>2, <1>3 DEF Current, InRow

-----------------------------------------------------------------------------
(* Rows                                                                      *)

LEMMA WithRowAt ==
    ASSUME ImageAssumption, ImageShape, NEW b \in Banks
    PROVE  /\ WithRow(backend, b) \in [ImageLines -> Block \cup {None}]
           /\ \A l \in ImageLines :
                  WithRow(backend, b)[l] = IF Bank(l) = b /\ Cached(l) /\ row_buffers[b].dirty THEN InRow(l) ELSE backend[l]
<1>1. CASE row_buffers[b].open /\ row_buffers[b].dirty
  <2>1. WithRow(backend, b) =
          [l \in ImageLines |-> IF Bank(l) = b /\ Row(l) = row_buffers[b].row /\ Column(l) \in DOMAIN row_buffers[b].columns
                                THEN row_buffers[b].columns[Column(l)] ELSE backend[l]]
    BY <1>1 DEF WithRow
  <2>2. ASSUME NEW l \in ImageLines
        PROVE  WithRow(backend, b)[l] = IF Bank(l) = b /\ Cached(l) /\ row_buffers[b].dirty THEN InRow(l) ELSE backend[l]
    BY <1>1, <2>1 DEF Cached, Hit, InRow
  <2>3. \A l \in ImageLines : WithRow(backend, b)[l] \in Block \cup {None}
    <3> TAKE l \in ImageLines
    <3>1. backend[l] \in Block \cup {None}
      BY DEF ImageShape
    <3> QED
      BY <2>2, <3>1, CurrentBlock
  <2>4. WithRow(backend, b) \in [ImageLines -> Block \cup {None}]
    BY <2>1, <2>3
  <2> QED
    BY <2>2, <2>4
<1>2. CASE ~(row_buffers[b].open /\ row_buffers[b].dirty)
  <2>1. WithRow(backend, b) = backend /\ ~row_buffers[b].dirty
    BY <1>2 DEF WithRow, ImageShape
  <2> QED
    BY <2>1 DEF ImageShape
<1> QED
  BY <1>1, <1>2

\* In a step a bank's row is closed or replaced, left alone, or checkpointed.
Closes(b) == row_buffers'[b].columns = <<>> /\ ~row_buffers'[b].dirty /\ \A l \in ImageLines : Bank(l) = b => backend'[l] = WithRow(backend, b)[l]
Leaves(b) == row_buffers'[b] = row_buffers[b] /\ \A l \in ImageLines : Bank(l) = b => backend'[l] = backend[l]
Flushes(b) ==
    /\ row_buffers'[b] = [row_buffers[b] EXCEPT !.dirty = FALSE]
    /\ \A l \in ImageLines : Bank(l) = b => backend'[l] = WithRow(backend, b)[l]
RowSteps == image' = image /\ \A b \in Banks : Closes(b) \/ Leaves(b) \/ Flushes(b)

\* None of these shows in a line.
LEMMA RowStepsSame ==
    ASSUME ImageAssumption, ImageShape, CleanAgrees, RowSteps, NEW l \in ImageLines
    PROVE  /\ Same(Current(l)', Current(l))
           /\ Cached(l)' /\ ~row_buffers'[Bank(l)].dirty => Same(InRow(l)', InBackend(l)')
           /\ backend'[l] \in {backend[l], IF Cached(l) THEN InRow(l) ELSE backend[l]}
           /\ Cached(l)' => Cached(l) /\ InRow(l)' = InRow(l)
<1> DEFINE b == Bank(l)
<1>0. b \in Banks
  BY LineParts
<1>1. /\ WithRow(backend, b)[l] = IF Cached(l) /\ row_buffers[b].dirty THEN InRow(l) ELSE backend[l]
      /\ Cached(l) => Current(l) = InRow(l) /\ InRow(l) \in Block
      /\ ~Cached(l) => Current(l) = InBackend(l)
      /\ Cached(l) /\ ~row_buffers[b].dirty => Same(InRow(l), InBackend(l))
      /\ None \notin Block
  BY <1>0, WithRowAt, CurrentBlock, NoneNoBlock DEF CleanAgrees, ImageShape
<1>2. NewLine' = NewLine
  BY DEF RowSteps, NewLine, Bytes
<1>3. CASE Closes(b)
  <2>1. ~Cached(l)' /\ backend'[l] = WithRow(backend, b)[l]
    BY <1>3 DEF Closes, Cached
  <2>2. Current(l)' = InBackend(l)' /\ InBackend(l)' = IF backend'[l] = None THEN NewLine ELSE backend'[l]
    BY <1>2, <2>1 DEF Current, InBackend
  <2> QED
    BY <1>1, <2>1, <2>2 DEF Same, InBackend
<1>4. CASE Leaves(b)
  <2>1. row_buffers'[b] = row_buffers[b] /\ backend'[l] = backend[l]
    BY <1>4 DEF Leaves
  <2>2. (Cached(l)' <=> Cached(l)) /\ InRow(l)' = InRow(l) /\ InBackend(l)' = InBackend(l)
    BY <1>2, <2>1 DEF Cached, Hit, InRow, InBackend
  <2>3. Current(l)' = Current(l)
    BY <2>1, <2>2 DEF Current, InRow
  <2> QED
    BY <1>1, <2>1, <2>2, <2>3 DEF Same
<1>5. CASE Flushes(b)
  <2>1. row_buffers[b] \in RowBuffer
    BY <1>0 DEF ImageShape
  <2>2. /\ row_buffers'[b].columns = row_buffers[b].columns /\ row_buffers'[b].row = row_buffers[b].row
        /\ (row_buffers'[b].open <=> row_buffers[b].open) /\ backend'[l] = WithRow(backend, b)[l]
    BY <1>5, <2>1 DEF Flushes, RowBuffer
  <2>3. (Cached(l)' <=> Cached(l)) /\ InRow(l)' = InRow(l)
    BY <2>2 DEF Cached, Hit, InRow
  <2>4. InBackend(l)' = IF backend'[l] = None THEN NewLine ELSE backend'[l]
    BY <1>2 DEF InBackend
  <2>5. Current(l)' = IF Cached(l) THEN InRow(l) ELSE InBackend(l)'
    BY <2>3 DEF Current, InRow
  <2>6. CASE Cached(l) /\ row_buffers[b].dirty
    BY <1>1, <2>2, <2>3, <2>4, <2>5, <2>6 DEF Same
  <2>7. CASE ~(Cached(l) /\ row_buffers[b].dirty)
    <3>1. backend'[l] = backend[l] /\ InBackend(l)' = InBackend(l)
      BY <1>1, <2>2, <2>4, <2>7 DEF InBackend
    <3> QED
      BY <1>1, <2>3, <2>5, <2>7, <3>1 DEF Same
  <2> QED
    BY <2>6, <2>7
<1> QED
  BY <1>0, <1>3, <1>4, <1>5 DEF RowSteps

-----------------------------------------------------------------------------
(* A column and a line                                                       *)

LEMMA PutAt ==
    ASSUME ImageAssumption, ImageShape, image' = image, NEW l \in ImageLines, NEW blk, NEW d \in BOOLEAN,
           Hit(l), row_buffers' = WithColumn(l, blk, d)
    PROVE  /\ Cached(l)' /\ InRow(l)' = blk /\ (row_buffers'[Bank(l)].dirty <=> row_buffers[Bank(l)].dirty \/ d)
           /\ \A k \in ImageLines \ {l} : /\ Cached(k)' <=> Cached(k)
                                          /\ Cached(k) => InRow(k)' = InRow(k)
           /\ \A b \in Banks : row_buffers'[b].dirty => row_buffers'[b].open /\ (row_buffers[b].dirty \/ (b = Bank(l) /\ d))
           /\ blk \in Block => row_buffers' \in [Banks -> RowBuffer]
<1> DEFINE b == Bank(l)
           rb == row_buffers[b]
           new == [open |-> rb.open, row |-> rb.row, dirty |-> rb.dirty \/ d, columns |-> PutColumn(rb.columns, Column(l), blk)]
<1>0. b \in Banks /\ Column(l) \in image.columns
  BY LineParts
<1>1. rb \in RowBuffer /\ rb.open /\ rb.row = Row(l)
  BY <1>0 DEF ImageShape, Hit
<1>2. row_buffers' = [row_buffers EXCEPT ![b] = new]
  BY Zenon DEF WithColumn
<1>3. row_buffers'[b] = new /\ \A c \in Banks \ {b} : row_buffers'[c] = row_buffers[c]
  BY <1>0, <1>2 DEF ImageShape
<1>4. /\ DOMAIN new.columns = DOMAIN rb.columns \cup {Column(l)} /\ new.columns[Column(l)] = blk
      /\ \A c \in DOMAIN rb.columns \ {Column(l)} : new.columns[c] = rb.columns[c]
  BY DEF PutColumn
<1> HIDE DEF new
<1>5. new.open = rb.open /\ new.row = rb.row /\ (new.dirty <=> rb.dirty \/ d)
  BY <1>1 DEF new, RowBuffer
<1>6. Cached(l)' /\ InRow(l)' = blk
  BY <1>1, <1>3, <1>4, <1>5 DEF Cached, Hit, InRow
<1>7. ASSUME NEW k \in ImageLines \ {l}
      PROVE  (Cached(k)' <=> Cached(k)) /\ (Cached(k) => InRow(k)' = InRow(k))
  <2>1. CASE Bank(k) = b /\ Row(k) = Row(l)
    <3>1. Column(k) # Column(l)
      BY <1>7, <2>1, LineParts
    <3>2. row_buffers'[Bank(k)] = new /\ row_buffers[Bank(k)] = rb
      BY <1>3, <2>1
    <3>3. (Hit(k)' <=> Hit(k)) /\ (Column(k) \in DOMAIN new.columns <=> Column(k) \in DOMAIN rb.columns)
      BY <1>4, <1>5, <3>1, <3>2 DEF Hit
    <3>4. Column(k) \in DOMAIN rb.columns => new.columns[Column(k)] = rb.columns[Column(k)]
      BY <1>4, <3>1
    <3> QED
      BY <3>2, <3>3, <3>4 DEF Cached, InRow
  <2>2. CASE Bank(k) = b /\ Row(k) # Row(l)
    BY <1>1, <1>3, <1>5, <2>2 DEF Cached, Hit
  <2>3. CASE Bank(k) # b
    <3>1. row_buffers'[Bank(k)] = row_buffers[Bank(k)]
      BY <1>3, <2>3, LineParts
    <3> QED
      BY <3>1 DEF Cached, Hit, InRow
  <2> QED
    BY <2>1, <2>2, <2>3
<1>8. \A c \in Banks : row_buffers'[c].dirty => row_buffers'[c].open /\ (row_buffers[c].dirty \/ (c = b /\ d))
  BY <1>1, <1>3, <1>5 DEF ImageShape
<1>9. ASSUME blk \in Block
      PROVE  row_buffers' \in [Banks -> RowBuffer]
  <2>1. PICK C \in SUBSET image.columns : rb.columns \in [C -> Block]
    BY <1>1 DEF RowBuffer
  <2>2. new.columns \in [C \cup {Column(l)} -> Block]
    BY <1>9, <2>1 DEF new, PutColumn
  <2>3. C \cup {Column(l)} \in SUBSET image.columns
    BY <1>0
  <2>4. new \in RowBuffer
    <3> DEFINE AllColumns == UNION {[D -> Block] : D \in SUBSET image.columns}
    <3>1. new.columns \in AllColumns
      BY <2>2, <2>3
    <3>2. new = [open |-> rb.open, row |-> rb.row, dirty |-> rb.dirty \/ d, columns |-> new.columns]
      BY DEF new
    <3>3. rb.open \in BOOLEAN /\ rb.row \in Rows \cup {None} /\ (rb.dirty \/ d) \in BOOLEAN
      BY <1>1 DEF RowBuffer
    <3> HIDE DEF AllColumns
    <3>4. [open |-> rb.open, row |-> rb.row, dirty |-> rb.dirty \/ d, columns |-> new.columns]
             \in [open: BOOLEAN, row: Rows \cup {None}, dirty: BOOLEAN, columns: AllColumns]
      BY <3>1, <3>3
    <3> QED
      BY <3>2, <3>4 DEF RowBuffer, AllColumns
  <2>5. [row_buffers EXCEPT ![b] = new] \in [Banks -> RowBuffer]
    BY <2>4 DEF ImageShape
  <2>6. RowBuffer' = RowBuffer /\ Banks' = Banks
    BY DEF RowBuffer, Banks, Block, Bytes
  <2> QED
    BY <1>2, <2>5
<1> QED
  BY <1>3, <1>5, <1>6, <1>7, <1>8, <1>9

\* In a step line l becomes blk, in its row buffer or in the backend, and no other line changes.
Puts(l, blk, d) ==
    \/ /\ Hit(l) /\ row_buffers' = WithColumn(l, blk, d)
       /\ backend' \in {backend, [backend EXCEPT ![l] = InBackend(l)]}
    \/ ~Hit(l) /\ row_buffers' = row_buffers /\ backend' = [backend EXCEPT ![l] = blk]

LEMMA PutsLine ==
    ASSUME ImageAssumption, ImageShape, CleanAgrees, image' = image, NEW l \in ImageLines, NEW blk \in Block, NEW d \in BOOLEAN,
           d \/ Same(blk, Current(l)), Puts(l, blk, d)
    PROVE  /\ backend' \in [ImageLines -> Block \cup {None}] /\ row_buffers' \in [Banks -> RowBuffer]
           /\ \A b \in Banks : row_buffers'[b].dirty => row_buffers'[b].open
           /\ Current(l)' = blk
           /\ \A k \in ImageLines \ {l} : Current(k)' = Current(k)
           /\ CleanAgrees'
           /\ \A k \in ImageLines : backend'[k] \in {backend[k], NewLine} \/ (k = l /\ backend'[k] = blk)
           /\ \A k \in ImageLines : Cached(k)' => (Cached(k) /\ InRow(k)' = InRow(k)) \/ (k = l /\ InRow(k)' = blk)
<1>0. NewLine' = NewLine /\ None \notin Block /\ NewLine \in Block /\ ImageLines' = ImageLines
  BY NoneNoBlock DEF ImageShape, NewLine, Bytes, ImageLines, Banks
<1>1. InBackend(l) \in Block /\ Bank(l) \in Banks
  BY CurrentBlock, LineParts
<1>2. CASE Hit(l) /\ row_buffers' = WithColumn(l, blk, d) /\ backend' \in {backend, [backend EXCEPT ![l] = InBackend(l)]}
  <2>1. /\ Cached(l)' /\ InRow(l)' = blk /\ (row_buffers'[Bank(l)].dirty <=> row_buffers[Bank(l)].dirty \/ d)
        /\ \A k \in ImageLines \ {l} : (Cached(k)' <=> Cached(k)) /\ (Cached(k) => InRow(k)' = InRow(k))
        /\ \A b \in Banks : row_buffers'[b].dirty => row_buffers'[b].open /\ (row_buffers[b].dirty \/ (b = Bank(l) /\ d))
        /\ row_buffers' \in [Banks -> RowBuffer]
    BY <1>2, PutAt
  <2>2. backend' \in [ImageLines -> Block \cup {None}] /\ \A k \in ImageLines \ {l} : backend'[k] = backend[k]
    BY <1>1, <1>2 DEF ImageShape
  <2>3. backend'[l] \in {backend[l], InBackend(l)}
    BY <1>2 DEF ImageShape
  <2>4. \A k \in ImageLines : InBackend(k)' = InBackend(k)
    BY <1>0, <1>1, <2>2, <2>3 DEF InBackend
  <2>5. \A k \in ImageLines \ {l} : Current(k)' = Current(k)
    BY <2>1, <2>4 DEF Current, InRow
  <2>6. Current(l)' = blk
    BY <2>1 DEF Current, InRow
  <2>7. CleanAgrees'
    <3> SUFFICES ASSUME NEW k \in ImageLines, Cached(k)', ~row_buffers'[Bank(k)].dirty
                 PROVE  Same(InRow(k)', InBackend(k)')
      BY <1>0 DEF CleanAgrees
    <3>1. CASE k = l
      <4>1. ~d /\ ~row_buffers[Bank(l)].dirty
        BY <2>1, <3>1
      <4>2. Same(Current(l), InBackend(l))
        BY <4>1, CurrentBlock DEF CleanAgrees, Same
      <4> QED
        BY <2>1, <2>4, <3>1, <4>1, <4>2 DEF Same
    <3>2. CASE k # l
      <4>1. Cached(k) /\ InRow(k)' = InRow(k) /\ InBackend(k)' = InBackend(k)
        BY <2>1, <2>4, <3>2
      <4>2. ~row_buffers[Bank(k)].dirty
        <5>1. CASE Bank(k) = Bank(l)
          BY <2>1, <5>1
        <5>2. CASE Bank(k) # Bank(l)
          BY <1>1, <1>2, <5>2, LineParts DEF WithColumn, ImageShape
        <5> QED
          BY <5>1, <5>2
      <4> QED
        BY <4>1, <4>2 DEF CleanAgrees
    <3> QED
      BY <3>1, <3>2
  <2> QED
    BY <2>1, <2>2, <2>3, <2>5, <2>6, <2>7 DEF InBackend
<1>3. CASE ~Hit(l) /\ row_buffers' = row_buffers /\ backend' = [backend EXCEPT ![l] = blk]
  <2>1. backend' \in [ImageLines -> Block \cup {None}] /\ backend'[l] = blk /\ \A k \in ImageLines \ {l} : backend'[k] = backend[k]
    BY <1>3 DEF ImageShape
  <2>2. \A k \in ImageLines : (Cached(k)' <=> Cached(k)) /\ (Hit(k)' <=> Hit(k)) /\ InRow(k)' = InRow(k)
    BY <1>3 DEF Cached, Hit, InRow
  <2>3. \A k \in ImageLines \ {l} : InBackend(k)' = InBackend(k)
    BY <1>0, <2>1 DEF InBackend
  <2>4. \A k \in ImageLines \ {l} : Current(k)' = Current(k)
    BY <2>2, <2>3 DEF Current, InRow
  <2>5. ~Cached(l) /\ ~Cached(l)' /\ Current(l)' = blk
    BY <1>0, <1>3, <2>1, <2>2 DEF Current, Cached, InBackend
  <2>6. CleanAgrees'
    <3> SUFFICES ASSUME NEW k \in ImageLines, Cached(k)', ~row_buffers'[Bank(k)].dirty
                 PROVE  Same(InRow(k)', InBackend(k)')
      BY <1>0 DEF CleanAgrees
    <3>1. k # l /\ Cached(k) /\ ~row_buffers[Bank(k)].dirty
      BY <1>3, <2>2, <2>5
    <3> QED
      BY <2>2, <2>3, <3>1 DEF CleanAgrees
  <2> QED
    BY <1>3, <2>1, <2>2, <2>4, <2>5, <2>6 DEF ImageShape
<1> QED
  BY <1>2, <1>3 DEF Puts

-----------------------------------------------------------------------------
(* What is written, and versions                                             *)

\* Blocks that hold the same are right together.
LEMMA AsWrittenSame ==
    ASSUME NEW l, NEW x, NEW y, Same(x, y), AsWritten(l, x)
    PROVE  AsWritten(l, y)
  BY DEF Same, AsWritten

NotBack == \A l \in ImageLines : Current(l)'.version >= Current(l).version

LEMMA QuietStep ==
    ASSUME ImageAssumption, ImageShape, LinesRight, VersionsDistinct, UNCHANGED <<image, next_version, should>>,
           \A l \in ImageLines : Same(Current(l)', Current(l))
    PROVE  LinesRight' /\ VersionsDistinct' /\ NotBack
<1>0. ImageLines' = ImageLines /\ Bytes' = Bytes
  BY DEF ImageLines, Banks, Bytes
<1>1. \A l \in ImageLines : Current(l)'.version = Current(l).version /\ Current(l).version \in Nat
  BY CurrentBlock, BlockFields DEF Same
<1>2. LinesRight'
  <2> SUFFICES ASSUME NEW l \in ImageLines
               PROVE  AsWritten(l, Current(l))' /\ Current(l)'.version < next_version'
    BY <1>0 DEF LinesRight
  <2>1. AsWritten(l, Current(l)) /\ Current(l).version < next_version
    BY DEF LinesRight
  <2>2. Same(Current(l)', Current(l))
    OBVIOUS
  <2> QED
    BY <1>0, <1>1, <2>1, <2>2 DEF AsWritten, Same
<1>3. VersionsDistinct'
  BY <1>0, <1>1 DEF VersionsDistinct
<1>4. NotBack
  BY <1>1 DEF NotBack
<1> QED
  BY <1>2, <1>3, <1>4

-----------------------------------------------------------------------------
(* The steps                                                                 *)

\* A step that only opens, closes or checkpoints rows.
LEMMA RowsKeep ==
    ASSUME ImageAssumption, ImageInv, RowSteps, row_buffers' \in [Banks -> RowBuffer],
           backend' \in [ImageLines -> Block \cup {None}], UNCHANGED <<next_version, should>>,
           wrong' \in BOOLEAN, Correctable => ~wrong'
    PROVE  ImageInv' /\ NotBack
<1> USE DEF ImageInv
<1>0. /\ image' = image /\ ImageLines' = ImageLines /\ Banks' = Banks /\ Block' = Block /\ RowBuffer' = RowBuffer
      /\ Bytes' = Bytes /\ (Correctable' <=> Correctable)
  BY DEF RowSteps, ImageLines, Banks, Block, RowBuffer, Bytes, Correctable
<1>1. \A l \in ImageLines :
          /\ Same(Current(l)', Current(l))
          /\ Cached(l)' /\ ~row_buffers'[Bank(l)].dirty => Same(InRow(l)', InBackend(l)')
          /\ backend'[l] \in {backend[l], IF Cached(l) THEN InRow(l) ELSE backend[l]}
          /\ Cached(l)' => Cached(l) /\ InRow(l)' = InRow(l)
  BY RowStepsSame
<1>2. \A b \in Banks : row_buffers'[b].dirty => row_buffers'[b].open
  <2> SUFFICES ASSUME NEW b \in Banks, row_buffers'[b].dirty PROVE row_buffers'[b].open
    OBVIOUS
  <2>1. row_buffers[b] \in RowBuffer /\ (row_buffers[b].dirty => row_buffers[b].open)
    BY DEF ImageShape
  <2>2. CASE Closes(b)
    BY <2>2 DEF Closes
  <2>3. CASE Leaves(b)
    BY <2>1, <2>3 DEF Leaves
  <2>4. CASE Flushes(b)
    BY <2>1, <2>4 DEF Flushes, RowBuffer
  <2> QED
    BY <2>2, <2>3, <2>4 DEF RowSteps
<1>3. ImageShape'
  BY <1>0, <1>2 DEF ImageShape
<1>4. CleanAgrees'
  BY <1>0, <1>1 DEF CleanAgrees
<1>5. LinesRight' /\ VersionsDistinct' /\ NotBack
  BY <1>0, <1>1, QuietStep
<1>6. ShadowsCover'
  BY <1>0, <1>1 DEF ShadowsCover, Covered
<1> QED
  BY <1>3, <1>4, <1>5, <1>6

\* A step that puts one block into a line.
LEMMA PutsKeep ==
    ASSUME ImageAssumption, ImageInv, image' = image, NEW l \in ImageLines, NEW blk \in Block, NEW d \in BOOLEAN,
           d \/ Same(blk, Current(l)), Puts(l, blk, d),
           next_version' \in 1..(image.max_writes + 1), next_version' >= next_version,
           should' \in [ImageLines -> [Bytes -> Values \cup {None}]], \A k \in ImageLines \ {l} : should'[k] = should[k],
           AsWritten(l, blk)', blk.version < next_version', blk.version >= Current(l).version,
           blk.version \in {Current(l).version, next_version} \/ (blk.version = 0 /\ Current(l).version = 0),
           wrong' \in BOOLEAN, Correctable => Covered(blk) /\ ~wrong'
    PROVE  ImageInv' /\ NotBack
<1> USE DEF ImageInv
<1>0. /\ ImageLines' = ImageLines /\ Banks' = Banks /\ Block' = Block /\ RowBuffer' = RowBuffer
      /\ Bytes' = Bytes /\ (Correctable' <=> Correctable) /\ image \in ImageConfigs
  BY DEF ImageLines, Banks, Block, RowBuffer, Bytes, Correctable, ImageShape
<1>1. /\ backend' \in [ImageLines -> Block \cup {None}] /\ row_buffers' \in [Banks -> RowBuffer]
      /\ \A b \in Banks : row_buffers'[b].dirty => row_buffers'[b].open
      /\ Current(l)' = blk
      /\ \A k \in ImageLines \ {l} : Current(k)' = Current(k)
      /\ CleanAgrees'
      /\ \A k \in ImageLines : backend'[k] \in {backend[k], NewLine} \/ (k = l /\ backend'[k] = blk)
      /\ \A k \in ImageLines : Cached(k)' => (Cached(k) /\ InRow(k)' = InRow(k)) \/ (k = l /\ InRow(k)' = blk)
  BY PutsLine
<1>2. ImageShape'
  BY <1>0, <1>1 DEF ImageShape
<1>3. LinesRight'
  <2> SUFFICES ASSUME NEW k \in ImageLines
               PROVE  AsWritten(k, Current(k))' /\ Current(k)'.version < next_version'
    BY <1>0 DEF LinesRight
  <2>1. CASE k = l
    <3>1. AsWritten(k, Current(k))'
      BY <1>0, <1>1, <2>1 DEF AsWritten
    <3> QED
      BY <1>1, <2>1, <3>1
  <2>2. CASE k # l
    <3>1. Current(k)' = Current(k) /\ should'[k] = should[k]
      BY <1>1, <2>2
    <3>2. AsWritten(k, Current(k)) /\ Current(k).version < next_version
      BY DEF LinesRight
    <3>3. Current(k).version \in Nat /\ next_version \in Nat /\ next_version' \in Nat
      BY CurrentBlock, BlockFields DEF ImageShape
    <3>4. AsWritten(k, Current(k))'
      BY <1>0, <3>1, <3>2 DEF AsWritten
    <3> QED
      BY <3>1, <3>2, <3>3, <3>4
  <2> QED
    BY <2>1, <2>2
<1>4. VersionsDistinct'
  <2>1. \A k \in ImageLines : Current(k).version < next_version /\ Current(k).version \in Nat
    BY CurrentBlock, BlockFields DEF LinesRight
  <2>2. next_version \in Nat
    BY DEF ImageShape
  <2> SUFFICES ASSUME NEW j \in ImageLines, NEW k \in ImageLines, j # k, Current(j)'.version > 0
               PROVE  Current(j)'.version # Current(k)'.version
    BY <1>0 DEF VersionsDistinct
  <2>3. CASE j # l /\ k # l
    BY <1>1, <2>3 DEF VersionsDistinct
  <2>4. CASE j = l
    <3>1. Current(k)' = Current(k)
      BY <1>1, <2>4
    <3> QED
      BY <1>1, <2>1, <2>2, <2>4, <3>1 DEF VersionsDistinct
  <2>5. CASE k = l
    <3>1. Current(j)' = Current(j)
      BY <1>1, <2>5
    <3> QED
      BY <1>1, <2>1, <2>2, <2>5, <3>1 DEF VersionsDistinct
  <2> QED
    BY <2>3, <2>4, <2>5
<1>5. NotBack
  <2>1. \A k \in ImageLines : Current(k).version \in Nat
    BY CurrentBlock, BlockFields
  <2> QED
    BY <1>1, <2>1 DEF NotBack
<1>6. ShadowsCover'
  <2>1. Covered(NewLine)
    BY <1>0, NoneNoBlock DEF Covered
  <2>2. \A x : Covered(x)' <=> Covered(x)
    BY DEF Covered
  <2> SUFFICES ASSUME Correctable
               PROVE  /\ \A k \in ImageLines : backend'[k] # None => Covered(backend'[k])
                      /\ \A k \in ImageLines : Cached(k)' => Covered(InRow(k)')
                      /\ ~wrong'
    BY <1>0 DEF ShadowsCover, Covered
  <2> QED
    BY <1>0, <1>1, <2>1 DEF ShadowsCover
<1> QED
  BY <1>1, <1>2, <1>3, <1>4, <1>5, <1>6

LEMMA ClosedRow ==
    /\ Closed \in RowBuffer /\ ~Closed.dirty /\ ~Closed.open /\ Closed.columns = <<>>
    /\ \A r \in Rows : /\ [Closed EXCEPT !.open = TRUE, !.row = r] \in RowBuffer
                       /\ ~[Closed EXCEPT !.open = TRUE, !.row = r].dirty
                       /\ [Closed EXCEPT !.open = TRUE, !.row = r].columns = <<>>
<1>1. <<>> \in [{} -> Block]
  OBVIOUS
<1>2. <<>> \in UNION {[C -> Block] : C \in SUBSET image.columns}
  BY <1>1
<1> QED
  BY <1>2 DEF Closed, RowBuffer

LEMMA LeavesAll ==
    ASSUME UNCHANGED <<image, backend, row_buffers>>
    PROVE  RowSteps
  BY DEF RowSteps, Leaves

LEMMA ActivateKeeps ==
    ASSUME ImageAssumption, ImageInv, NEW b \in Banks, NEW r \in Rows, Activate(b, r)
    PROVE  ImageInv' /\ NotBack
<1>0. ImageShape /\ UNCHANGED <<image, next_version, should, wrong>> /\ wrong \in BOOLEAN /\ (Correctable => ~wrong)
  BY DEF ImageInv, Activate, ImageShape, ShadowsCover
<1>1. CASE UNCHANGED <<backend, row_buffers>>
  BY <1>0, <1>1, LeavesAll, RowsKeep DEF ImageShape
<1>2. CASE backend' = WithRow(backend, b) /\ row_buffers' = [row_buffers EXCEPT ![b] = [Closed EXCEPT !.open = TRUE, !.row = r]]
  <2>1. /\ backend' \in [ImageLines -> Block \cup {None}]
        /\ \A l \in ImageLines : Bank(l) # b => backend'[l] = backend[l]
    BY <1>0, <1>2, WithRowAt
  <2>2. row_buffers' \in [Banks -> RowBuffer] /\ Closes(b)
    BY <1>0, <1>2, ClosedRow DEF ImageShape, Closes
  <2>3. \A c \in Banks \ {b} : Leaves(c)
    BY <1>0, <1>2, <2>1 DEF ImageShape, Leaves
  <2> QED
    BY <1>0, <2>1, <2>2, <2>3, RowsKeep DEF RowSteps
<1> QED
  BY <1>1, <1>2 DEF Activate, activate_row

LEMMA PrechargeKeeps ==
    ASSUME ImageAssumption, ImageInv, NEW b \in Banks, Precharge(b)
    PROVE  ImageInv' /\ NotBack
<1>0. /\ ImageShape /\ UNCHANGED <<image, next_version, should, wrong>> /\ wrong \in BOOLEAN /\ (Correctable => ~wrong)
      /\ backend' = WithRow(backend, b) /\ row_buffers' = [row_buffers EXCEPT ![b] = Closed]
  BY DEF ImageInv, Precharge, precharge_bank, ImageShape, ShadowsCover
<1>1. /\ backend' \in [ImageLines -> Block \cup {None}]
      /\ \A l \in ImageLines : Bank(l) # b => backend'[l] = backend[l]
  BY <1>0, WithRowAt
<1>2. row_buffers' \in [Banks -> RowBuffer] /\ Closes(b)
  BY <1>0, ClosedRow DEF ImageShape, Closes
<1>3. \A c \in Banks \ {b} : Leaves(c)
  BY <1>0, <1>1 DEF ImageShape, Leaves
<1> QED
  BY <1>0, <1>1, <1>2, <1>3, RowsKeep DEF RowSteps

LEMMA AllStoredAt ==
    ASSUME ImageAssumption, ImageShape
    PROVE  /\ AllStored \in [ImageLines -> Block \cup {None}]
           /\ \A l \in ImageLines : AllStored[l] = WithRow(backend, Bank(l))[l]
<1>1. \A l \in ImageLines : WithRow(backend, Bank(l))[l] \in Block \cup {None}
  BY LineParts, WithRowAt
<1> QED
  BY <1>1 DEF AllStored

LEMMA PrechargeAllKeeps ==
    ASSUME ImageAssumption, ImageInv, PrechargeAll
    PROVE  ImageInv' /\ NotBack
<1>0. /\ ImageShape /\ UNCHANGED <<image, next_version, should, wrong>> /\ wrong \in BOOLEAN /\ (Correctable => ~wrong)
      /\ backend' = AllStored /\ row_buffers' = [b \in Banks |-> Closed]
  BY DEF ImageInv, PrechargeAll, ImageShape, ShadowsCover
<1>1. backend' \in [ImageLines -> Block \cup {None}] /\ row_buffers' \in [Banks -> RowBuffer]
  BY <1>0, AllStoredAt, ClosedRow
<1>2. \A b \in Banks : Closes(b)
  BY <1>0, AllStoredAt, ClosedRow DEF Closes
<1> QED
  BY <1>0, <1>1, <1>2, RowsKeep DEF RowSteps

LEMMA FlushKeeps ==
    ASSUME ImageAssumption, ImageInv, flush_dirty_row_buffers
    PROVE  ImageInv' /\ NotBack
<1>0. /\ ImageShape /\ UNCHANGED <<image, next_version, should, wrong>> /\ wrong \in BOOLEAN /\ (Correctable => ~wrong)
      /\ backend' = AllStored /\ row_buffers' = [b \in Banks |-> [row_buffers[b] EXCEPT !.dirty = FALSE]]
  BY DEF ImageInv, flush_dirty_row_buffers, Stored, ImageShape, ShadowsCover
<1>1. \A b \in Banks : [row_buffers[b] EXCEPT !.dirty = FALSE] \in RowBuffer
  <2> DEFINE AllColumns == UNION {[C -> Block] : C \in SUBSET image.columns}
  <2>1. RowBuffer = [open: BOOLEAN, row: Rows \cup {None}, dirty: BOOLEAN, columns: AllColumns]
    BY DEF RowBuffer
  <2>2. \A b \in Banks : row_buffers[b] \in RowBuffer
    BY <1>0 DEF ImageShape
  <2> HIDE DEF AllColumns
  <2> QED
    BY <2>1, <2>2
<1>2. backend' \in [ImageLines -> Block \cup {None}] /\ row_buffers' \in [Banks -> RowBuffer]
  <2>1. backend' \in [ImageLines -> Block \cup {None}]
    BY <1>0, AllStoredAt
  <2>2. [b \in Banks |-> [row_buffers[b] EXCEPT !.dirty = FALSE]] \in [Banks -> RowBuffer]
    BY <1>1, Zenon
  <2> QED
    BY <1>0, <2>1, <2>2
<1>3. \A b \in Banks : Flushes(b)
  BY <1>0, AllStoredAt DEF Flushes
<1> QED
  BY <1>0, <1>2, <1>3, RowsKeep DEF RowSteps

\* What a line holds is covered by its shadow, where errors can be corrected at all.
LEMMA CurrentCovered ==
    ASSUME ImageAssumption, ImageInv, Correctable, NEW l \in ImageLines
    PROVE  Covered(Current(l)) /\ Covered(InBackend(l)) /\ ~wrong
<1>1. ImageShape /\ image \in ImageConfigs
  BY DEF ImageInv, ImageShape
<1>2. Covered(NewLine)
  BY <1>1, NoneNoBlock DEF Covered
<1> QED
  BY <1>1, <1>2, CurrentBlock DEF ImageInv, ShadowsCover, InBackend

LEMMA WrittenSame ==
    ASSUME NEW l \in ImageLines, NEW blk, AsWritten(l, blk), UNCHANGED <<image, should>>
    PROVE  AsWritten(l, blk)'
  BY DEF AsWritten, Bytes

LEMMA ReadKeeps ==
    ASSUME ImageAssumption, ImageInv, NEW l \in ImageLines, Read(l)
    PROVE  ImageInv' /\ NotBack
<1>0. /\ ImageShape /\ UNCHANGED <<image, next_version, should>> /\ CleanAgrees /\ wrong \in BOOLEAN
      /\ AsWritten(l, Current(l)) /\ Current(l).version < next_version
  BY DEF ImageInv, Read, ImageShape, LinesRight
<1>1. /\ Current(l) \in Block /\ Checked(Current(l)) \in Block /\ Same(Checked(Current(l)), Current(l))
      /\ Covered(Current(l)) => ~Checked(Current(l)).flip /\ Covered(Checked(Current(l)))
  BY <1>0, CurrentBlock, CheckedSame
<1>2. PICK blk \in Block : blk = Checked(Current(l))
  BY <1>1
<1>3. /\ wrong' = (wrong \/ ~Right(l, blk)) /\ wrong' \in BOOLEAN
      /\ \/ Hit(l) /\ row_buffers' = WithColumn(l, blk, FALSE) /\ UNCHANGED backend
         \/ ~Hit(l) /\ row_buffers' = row_buffers
            /\ backend' = IF backend[l] # None /\ blk # backend[l] THEN [backend EXCEPT ![l] = blk] ELSE backend
  BY <1>0, <1>2 DEF Read
<1>4. AsWritten(l, blk) /\ Same(blk, Current(l))
  BY <1>0, <1>1, <1>2 DEF AsWritten, Same
<1>5. Correctable => Covered(blk) /\ ~wrong'
  <2> SUFFICES ASSUME Correctable PROVE Covered(blk) /\ ~wrong'
    OBVIOUS
  <2>1. Covered(Current(l)) /\ ~wrong
    BY CurrentCovered
  <2>2. Right(l, blk)
    BY <1>1, <1>2, <1>4, <2>1 DEF Right, AsWritten
  <2> QED
    BY <1>1, <1>2, <1>3, <2>1, <2>2
<1>6. CASE Puts(l, blk, FALSE)
  <2>1. AsWritten(l, blk)'
    BY <1>0, <1>4, WrittenSame
  <2>2. /\ blk.version = Current(l).version /\ Current(l).version \in Nat
        /\ blk.version < next_version' /\ blk.version >= Current(l).version
    BY <1>0, <1>1, <1>4, BlockFields DEF Same
  <2>3. /\ next_version' \in 1..(image.max_writes + 1) /\ next_version' >= next_version
        /\ should' \in [ImageLines -> [Bytes -> Values \cup {None}]]
        /\ \A k \in ImageLines \ {l} : should'[k] = should[k]
    BY <1>0 DEF ImageShape
  <2>4. FALSE \in BOOLEAN
    OBVIOUS
  <2> QED
    BY <1>0, <1>3, <1>4, <1>5, <1>6, <2>1, <2>2, <2>3, <2>4, PutsKeep
<1>7. CASE UNCHANGED <<backend, row_buffers>>
  <2>1. row_buffers' \in [Banks -> RowBuffer] /\ backend' \in [ImageLines -> Block \cup {None}]
    BY <1>0, <1>7 DEF ImageShape
  <2> QED
    BY <1>0, <1>3, <1>5, <1>7, <2>1, LeavesAll, RowsKeep
<1> QED
  <2>1. CASE Hit(l)
    BY <1>3, <1>6, <2>1 DEF Puts
  <2>2. CASE ~Hit(l) /\ backend[l] # None
    <3>1. row_buffers' = row_buffers /\ backend' = [backend EXCEPT ![l] = blk]
      BY <1>0, <1>3, <2>2 DEF ImageShape
    <3> QED
      BY <1>6, <2>2, <3>1 DEF Puts
  <2>3. CASE ~Hit(l) /\ backend[l] = None
    BY <1>3, <1>7, <2>3
  <2> QED
    BY <2>1, <2>2, <2>3

\* A write gives the line the next version and the bytes of its mask.
LEMMA MergedLine ==
    ASSUME ImageAssumption, ImageShape, NEW l \in ImageLines, NEW blk \in Block, AsWritten(l, blk),
           NEW v \in Values, NEW mask \in SUBSET Bytes, UNCHANGED image, NEW m, m = Merged(blk, v, mask),
           should' = [should EXCEPT ![l] = [b \in Bytes |-> IF b \in mask THEN v ELSE @[b]]]
    PROVE  /\ m \in Block /\ m.version = next_version /\ m.ecc = blk.ecc /\ (m.flip <=> blk.flip /\ 0 \notin mask)
           /\ AsWritten(l, m)'
           /\ should' \in [ImageLines -> [Bytes -> Values \cup {None}]]
           /\ \A k \in ImageLines \ {l} : should'[k] = should[k]
<1> DEFINE bytes == [b \in Bytes |-> IF b \in mask THEN v ELSE blk.bytes[b]]
<1>1. /\ blk.bytes \in [Bytes -> Values] /\ blk.init \in SUBSET Bytes /\ blk.version \in Nat
      /\ blk.flip \in BOOLEAN /\ blk.ecc \in {"none", "clean", "flipped"}
  BY BlockFields
<1>2. next_version \in Nat
  BY DEF ImageShape, ImageAssumption
<1>3. bytes \in [Bytes -> Values] /\ blk.init \cup mask \in SUBSET Bytes /\ (blk.flip /\ 0 \notin mask) \in BOOLEAN
  BY <1>1
<1>4. m = [bytes |-> bytes, init |-> blk.init \cup mask, version |-> next_version, flip |-> blk.flip /\ 0 \notin mask, ecc |-> blk.ecc]
  BY DEF Merged, Block
<1>5. m \in Block /\ m.version = next_version /\ m.ecc = blk.ecc /\ m.bytes = bytes /\ m.init = blk.init \cup mask
  <2> HIDE DEF bytes
  <2> QED
    BY <1>1, <1>2, <1>3, <1>4 DEF Block
<1>6. m.flip <=> blk.flip /\ 0 \notin mask
  <2> DEFINE flip == blk.flip /\ 0 \notin mask
  <2>1. m.flip = flip
    <3> HIDE DEF bytes, flip
    <3>1. m = [bytes |-> bytes, init |-> blk.init \cup mask, version |-> next_version, flip |-> flip, ecc |-> blk.ecc]
      BY <1>4 DEF flip
    <3> QED
      BY <3>1
  <2> QED
    BY <2>1, Zenon
<1>7. /\ \A b \in Bytes : should'[l][b] = IF b \in mask THEN v ELSE should[l][b]
      /\ should' \in [ImageLines -> [Bytes -> Values \cup {None}]]
      /\ \A k \in ImageLines \ {l} : should'[k] = should[k]
  BY DEF ImageShape
<1>8. AsWritten(l, m)'
    <2>1. v # None
    BY DEF ImageAssumption
  <2>2. \A b \in Bytes : m.bytes[b] = IF should'[l][b] = None THEN Default ELSE should'[l][b]
    BY <1>5, <1>7, <2>1 DEF AsWritten
  <2>3. m.init = {b \in Bytes : should'[l][b] # None}
    BY <1>5, <1>7, <2>1 DEF AsWritten
  <2>4. Bytes' = Bytes
    BY DEF Bytes
  <2> QED
    BY <2>2, <2>3, <2>4 DEF AsWritten
<1> QED
  BY <1>5, <1>6, <1>7, <1>8

\* What a configuration is.
LEMMA ImageFacts ==
    ASSUME ImageAssumption, ImageShape
    PROVE  /\ image.max_writes \in Nat /\ image.ecc_inject_period \in Nat /\ image.ecc_shadow \in BOOLEAN
           /\ image.masks \subseteq SUBSET Bytes /\ next_version \in 1..(image.max_writes + 1)
           /\ CorrectSingleBit \in BOOLEAN /\ Default \in Values /\ None \notin Values
  BY DEF ImageAssumption, ImageShape, Bytes

LEMMA WriteKeeps ==
    ASSUME ImageAssumption, ImageInv, NEW l \in ImageLines, NEW v \in Values, NEW mask \in image.masks, Write(l, v, mask)
    PROVE  ImageInv' /\ NotBack
<1>0. /\ ImageShape /\ CleanAgrees /\ UNCHANGED <<image, wrong>> /\ wrong \in BOOLEAN
      /\ AsWritten(l, Current(l)) /\ Current(l).version < next_version
      /\ next_version <= image.max_writes /\ next_version' = next_version + 1
      /\ should' = [should EXCEPT ![l] = [b \in Bytes |-> IF b \in mask THEN v ELSE @[b]]]
  BY DEF ImageInv, Write, ImageShape, LinesRight
<1>1. Current(l) \in Block /\ mask \in SUBSET Bytes
  BY <1>0, CurrentBlock, ImageFacts
<1>2. PICK m : m = Merged(Current(l), v, mask)
  OBVIOUS
<1>3. /\ m \in Block /\ m.version = next_version /\ (m.flip <=> Current(l).flip /\ 0 \notin mask)
      /\ AsWritten(l, m)'
      /\ should' \in [ImageLines -> [Bytes -> Values \cup {None}]]
      /\ \A k \in ImageLines \ {l} : should'[k] = should[k]
  BY <1>0, <1>1, <1>2, MergedLine
<1>4. PICK sh : sh = Shadowed(m)
  OBVIOUS
<1>5. /\ sh \in Block /\ Same(sh, m) /\ (sh.flip <=> m.flip)
      /\ sh.ecc = IF image.ecc_shadow THEN IF m.flip THEN "flipped" ELSE "clean" ELSE "none"
  BY <1>3, <1>4, ShadowedSame
<1>6. PICK blk : blk = Injected(sh)
  OBVIOUS
<1>7. /\ blk \in Block /\ Same(blk, sh) /\ blk.ecc = sh.ecc
      /\ (blk.flip <=> sh.flip) \/ (image.ecc_shadow /\ image.ecc_inject_period > 0)
  BY <1>5, <1>6, InjectedSame
<1>8. AsWritten(l, blk)' /\ blk.version = next_version
  BY <1>3, <1>5, <1>7 DEF AsWritten, Same
<1>9. Correctable => Covered(blk) /\ ~wrong'
  <2> SUFFICES ASSUME Correctable PROVE Covered(blk) /\ ~wrong'
    OBVIOUS
  <2>1. Covered(Current(l)) /\ ~wrong
    BY CurrentCovered
  <2>2. ~m.flip
    BY <1>3, <2>1 DEF Covered, Correctable
  <2>3. sh.ecc = IF image.ecc_shadow THEN "clean" ELSE "none"
    BY <1>5, <2>2
  <2>4. Covered(blk)
    BY <1>5, <1>7, <2>2, <2>3 DEF Covered, Correctable
  <2> QED
    BY <1>0, <2>1, <2>4
<1>10. Puts(l, blk, TRUE)
  BY <1>2, <1>4, <1>6 DEF Write, Puts
<1>11. /\ next_version' \in 1..(image.max_writes + 1) /\ next_version' >= next_version
       /\ blk.version < next_version' /\ blk.version >= Current(l).version
  BY <1>0, <1>1, <1>8, ImageFacts, BlockFields
<1>12. TRUE \in BOOLEAN /\ wrong' \in BOOLEAN
  BY <1>0
<1> QED
  BY <1>0, <1>3, <1>7, <1>8, <1>9, <1>10, <1>11, <1>12, PutsKeep

LEMMA WriteNothingKeeps ==
    ASSUME ImageAssumption, ImageInv, NEW l \in ImageLines, WriteNothing(l)
    PROVE  ImageInv' /\ NotBack
<1>0. /\ ImageShape /\ CleanAgrees /\ UNCHANGED <<image, next_version, should, wrong>> /\ wrong \in BOOLEAN
      /\ AsWritten(l, Current(l)) /\ Current(l).version < next_version /\ {} \in image.masks
  BY DEF ImageInv, WriteNothing, ImageShape, LinesRight
<1>1. Current(l) \in Block
  BY <1>0, CurrentBlock
<1>2. PICK sh : sh = Shadowed(Current(l))
  OBVIOUS
<1>3. /\ sh \in Block /\ Same(sh, Current(l)) /\ (sh.flip <=> Current(l).flip)
      /\ sh.ecc = IF image.ecc_shadow THEN IF Current(l).flip THEN "flipped" ELSE "clean" ELSE "none"
  BY <1>1, <1>2, ShadowedSame
<1>4. PICK blk : blk = Injected(sh)
  OBVIOUS
<1>5. /\ blk \in Block /\ Same(blk, sh) /\ blk.ecc = sh.ecc
      /\ (blk.flip <=> sh.flip) \/ (image.ecc_shadow /\ image.ecc_inject_period > 0)
  BY <1>3, <1>4, InjectedSame
<1>6. AsWritten(l, blk) /\ Same(blk, Current(l)) /\ blk.version = Current(l).version
  BY <1>0, <1>3, <1>5 DEF AsWritten, Same
<1>7. Correctable => Covered(blk) /\ ~wrong'
  <2> SUFFICES ASSUME Correctable PROVE Covered(blk) /\ ~wrong'
    OBVIOUS
  <2>1. Covered(Current(l)) /\ ~wrong
    BY CurrentCovered
  <2>2. ~(image.ecc_shadow /\ image.ecc_inject_period > 0)
    BY <1>0 DEF Correctable
  <2>3. ~Current(l).flip
    BY <2>1, <2>2 DEF Covered
  <2>4. Covered(blk)
    BY <1>3, <1>5, <2>2, <2>3 DEF Covered
  <2> QED
    BY <1>0, <2>1, <2>4
<1>8. Puts(l, blk, FALSE)
  BY <1>2, <1>4 DEF WriteNothing, Puts
<1>9. /\ next_version' \in 1..(image.max_writes + 1) /\ next_version' >= next_version
      /\ blk.version < next_version' /\ blk.version >= Current(l).version
      /\ should' \in [ImageLines -> [Bytes -> Values \cup {None}]]
      /\ \A k \in ImageLines \ {l} : should'[k] = should[k]
  BY <1>0, <1>1, <1>6, ImageFacts, BlockFields DEF ImageShape
<1>10. FALSE \in BOOLEAN /\ wrong' \in BOOLEAN /\ AsWritten(l, blk)'
  BY <1>0, <1>6, WrittenSame
<1> QED
  BY <1>0, <1>5, <1>6, <1>7, <1>8, <1>9, <1>10, PutsKeep

LEMMA PreloadKeeps ==
    ASSUME ImageAssumption, ImageInv, NEW l \in ImageLines, NEW v \in Values, NEW mask \in image.masks, Preload(l, v, mask)
    PROVE  ImageInv' /\ NotBack
<1>0. /\ ImageShape /\ CleanAgrees /\ UNCHANGED <<image, row_buffers, next_version, wrong>> /\ wrong \in BOOLEAN
      /\ AsWritten(l, Current(l)) /\ Current(l).version < next_version
      /\ next_version = 1 /\ \A b \in Banks : ~row_buffers[b].open
      /\ should' = [should EXCEPT ![l] = [b \in Bytes |-> IF b \in mask THEN v ELSE @[b]]]
  BY DEF ImageInv, Preload, ImageShape, LinesRight
<1>1. ~Hit(l) /\ ~Cached(l)
  BY <1>0, LineParts DEF Hit, Cached
<1>2. /\ Current(l) = InBackend(l) /\ Current(l) \in Block /\ Current(l).version = 0
      /\ mask \in SUBSET Bytes
  BY <1>0, <1>1, CurrentBlock, ImageFacts, BlockFields
<1>3. PICK m : m = Merged(Current(l), v, mask)
  OBVIOUS
<1>4. /\ m \in Block /\ (m.flip <=> Current(l).flip /\ 0 \notin mask)
      /\ AsWritten(l, m)'
      /\ should' \in [ImageLines -> [Bytes -> Values \cup {None}]]
      /\ \A k \in ImageLines \ {l} : should'[k] = should[k]
  BY <1>0, <1>2, <1>3, MergedLine
<1>5. PICK z : z = [m EXCEPT !.version = 0]
  OBVIOUS
<1>6. z \in Block /\ z.bytes = m.bytes /\ z.init = m.init /\ z.version = 0 /\ (z.flip <=> m.flip)
  BY <1>4, <1>5 DEF Block
<1>7. PICK blk : blk = Shadowed(z)
  OBVIOUS
<1>8. /\ blk \in Block /\ Same(blk, z) /\ (blk.flip <=> z.flip)
      /\ blk.ecc = IF image.ecc_shadow THEN IF z.flip THEN "flipped" ELSE "clean" ELSE "none"
  BY <1>6, <1>7, ShadowedSame
<1>9. AsWritten(l, blk)' /\ blk.version = 0
  BY <1>4, <1>6, <1>8 DEF AsWritten, Same
<1>10. Correctable => Covered(blk) /\ ~wrong'
  <2> SUFFICES ASSUME Correctable PROVE Covered(blk) /\ ~wrong'
    OBVIOUS
  <2>1. Covered(Current(l)) /\ ~wrong
    BY CurrentCovered
  <2>2. ~m.flip
    BY <1>4, <2>1 DEF Covered, Correctable
  <2>3. Covered(blk)
    BY <1>6, <1>8, <2>2 DEF Covered
  <2> QED
    BY <1>0, <2>1, <2>3
<1>11. Puts(l, blk, TRUE)
  BY <1>0, <1>1, <1>2, <1>3, <1>5, <1>7 DEF Preload, Puts
<1>12. /\ next_version' \in 1..(image.max_writes + 1) /\ next_version' >= next_version
       /\ blk.version < next_version' /\ blk.version >= Current(l).version
  BY <1>0, <1>2, <1>9, ImageFacts
<1>13. TRUE \in BOOLEAN /\ wrong' \in BOOLEAN
  BY <1>0
<1> QED
  BY <1>0, <1>2, <1>4, <1>8, <1>9, <1>10, <1>11, <1>12, <1>13, PutsKeep

\* With every row closed a line is what the backend holds.
LEMMA ClosedCurrent ==
    ASSUME \A b \in Banks : ~row_buffers[b].open, NEW l \in ImageLines
    PROVE  ~Cached(l) /\ Current(l) = InBackend(l)
  BY LineParts DEF Cached, Hit, Current

LEMMA BlankLine ==
    ASSUME ImageAssumption, image \in ImageConfigs, NEW l \in ImageLines, should[l] = [b \in Bytes |-> None]
    PROVE  AsWritten(l, NewLine)
  BY DEF AsWritten, NewLine

LEMMA LoadBinaryKeeps ==
    ASSUME ImageAssumption, ImageInv, NEW l \in ImageLines, NEW v \in Values, LoadBinary(l, v)
    PROVE  ImageInv' /\ NotBack
<1>0. /\ ImageShape /\ UNCHANGED <<image, next_version, wrong>> /\ wrong \in BOOLEAN /\ (Correctable => ~wrong)
      /\ next_version = 1 /\ LinesRight /\ image \in ImageConfigs
      /\ row_buffers' = [b \in Banks |-> Closed]
      /\ should' = [k \in ImageLines |-> [b \in Bytes |-> IF k = l THEN v ELSE None]]
  BY DEF ImageInv, LoadBinary, ImageShape, ShadowsCover
<1>1. PICK z : z = [NewLine EXCEPT !.bytes = [b \in Bytes |-> v], !.init = Bytes]
  OBVIOUS
<1>2. z \in Block /\ z.bytes = [b \in Bytes |-> v] /\ z.init = Bytes /\ z.version = 0 /\ ~z.flip
  BY <1>1 DEF NewLine, Block
<1>3. PICK blk : blk = Shadowed(z)
  OBVIOUS
<1>4. /\ blk \in Block /\ Same(blk, z) /\ ~blk.flip /\ blk.ecc \in {"none", "clean"}
      /\ NewLine \in Block /\ None \notin Block /\ NewLine.version = 0 /\ ~NewLine.flip /\ NewLine.ecc = "none"
  BY <1>0, <1>2, <1>3, ShadowedSame, NoneNoBlock
<1>5. backend' = [k \in ImageLines |-> IF k = l THEN blk ELSE None]
  BY <1>1, <1>3 DEF LoadBinary
<1>6. /\ ImageLines' = ImageLines /\ Banks' = Banks /\ Block' = Block /\ RowBuffer' = RowBuffer
      /\ Bytes' = Bytes /\ (Correctable' <=> Correctable) /\ NewLine' = NewLine
  BY <1>0 DEF ImageLines, Banks, Block, RowBuffer, Bytes, Correctable, NewLine
<1>7. /\ \A b \in Banks : ~row_buffers'[b].open /\ ~row_buffers'[b].dirty
      /\ row_buffers' \in [Banks -> RowBuffer]
  BY <1>0, ClosedRow
<1>8. \A k \in ImageLines : ~Cached(k)' /\ Current(k)' = InBackend(k)'
  <2> TAKE k \in ImageLines
  <2>1. Bank(k) \in Banks
    BY LineParts
  <2> QED
    BY <1>7, <2>1 DEF Cached, Hit, Current
<1>9. \A k \in ImageLines : Current(k)' = IF k = l THEN blk ELSE NewLine
  BY <1>4, <1>5, <1>6, <1>8 DEF InBackend
<1>10. blk.version = 0 /\ \A k \in ImageLines : Current(k)'.version = 0
  BY <1>2, <1>4, <1>9 DEF Same
<1>11. ImageShape'
  <2>1. backend' \in [ImageLines -> Block \cup {None}]
    BY <1>4, <1>5
  <2>2. should' \in [ImageLines -> [Bytes -> Values \cup {None}]]
    BY <1>0
  <2> QED
    BY <1>0, <1>6, <1>7, <2>1, <2>2 DEF ImageShape
<1>12. CleanAgrees'
  BY <1>6, <1>8 DEF CleanAgrees
<1>13. LinesRight'
  <2> SUFFICES ASSUME NEW k \in ImageLines
               PROVE  AsWritten(k, Current(k))' /\ Current(k)'.version < next_version'
    BY <1>6 DEF LinesRight
  <2>1. v # None
    BY DEF ImageAssumption
  <2>2. CASE k = l
    <3>1. Current(k)' = blk /\ blk.bytes = [b \in Bytes |-> v] /\ blk.init = Bytes
      BY <1>2, <1>4, <1>9, <2>2 DEF Same
    <3>2. AsWritten(k, Current(k))'
      BY <1>0, <1>6, <2>1, <2>2, <3>1 DEF AsWritten
    <3> QED
      BY <1>0, <1>10, <3>2
  <2>3. CASE k # l
    <3>1. Current(k)' = NewLine /\ NewLine.bytes = [b \in Bytes |-> Default] /\ NewLine.init = {}
      BY <1>9, <2>3 DEF NewLine
    <3>2. AsWritten(k, Current(k))'
      BY <1>0, <1>6, <2>3, <3>1 DEF AsWritten
    <3> QED
      BY <1>0, <1>10, <3>2
  <2> QED
    BY <2>2, <2>3
<1>14. VersionsDistinct'
  BY <1>6, <1>10 DEF VersionsDistinct
<1>15. NotBack
  <2>1. \A k \in ImageLines : Current(k).version \in Nat /\ Current(k).version < 1
    BY <1>0, CurrentBlock, BlockFields DEF LinesRight
  <2> QED
    BY <1>10, <2>1 DEF NotBack
<1>16. ShadowsCover'
  <2>1. Covered(blk)'
    BY <1>4 DEF Covered
  <2> QED
    BY <1>0, <1>5, <1>6, <1>8, <2>1 DEF ShadowsCover
<1> QED
  BY <1>11, <1>12, <1>13, <1>14, <1>15, <1>16 DEF ImageInv

-----------------------------------------------------------------------------
(* The theorems                                                              *)

LEMMA ImageInvInit ==
    ASSUME ImageAssumption, ImageInit
    PROVE  ImageInv
<1>0. image \in ImageConfigs /\ next_version = 1 /\ wrong = FALSE
  BY DEF ImageInit
<1>1. NewLine \in Block /\ NewLine.version = 0
  BY <1>0, NoneNoBlock
<1>2. /\ \A b \in Banks : ~row_buffers[b].open /\ ~row_buffers[b].dirty
      /\ row_buffers \in [Banks -> RowBuffer]
  BY ClosedRow DEF ImageInit
<1>3. \A l \in ImageLines : ~Cached(l) /\ Current(l) = NewLine /\ AsWritten(l, NewLine)
  <2> TAKE l \in ImageLines
  <2>1. backend[l] = None /\ should[l] = [b \in Bytes |-> None]
    BY DEF ImageInit
  <2> QED
    BY <1>0, <1>2, <2>1, BlankLine, ClosedCurrent DEF InBackend
<1>4. ImageShape
  <2>1. image.max_writes \in Nat
    BY <1>0 DEF ImageAssumption
  <2>2. next_version \in 1..(image.max_writes + 1)
    BY <1>0, <2>1
  <2>3. backend \in [ImageLines -> Block \cup {None}] /\ should \in [ImageLines -> [Bytes -> Values \cup {None}]]
    BY DEF ImageInit
  <2> QED
    BY <1>0, <1>2, <2>2, <2>3 DEF ImageShape
<1>5. CleanAgrees /\ LinesRight /\ VersionsDistinct
  BY <1>0, <1>1, <1>3 DEF CleanAgrees, LinesRight, VersionsDistinct
<1>6. ShadowsCover
  BY <1>0, <1>3 DEF ShadowsCover, ImageInit
<1> QED
  BY <1>4, <1>5, <1>6 DEF ImageInv

LEMMA ImageInvNext ==
    ASSUME ImageAssumption, ImageInv, [ImageNext]_imageVars
    PROVE  ImageInv' /\ NotBack
<1>1. CASE UNCHANGED imageVars
  <2>1. UNCHANGED <<image, backend, row_buffers, next_version, should, wrong>>
    BY <1>1 DEF imageVars
  <2>2. /\ row_buffers' \in [Banks -> RowBuffer] /\ backend' \in [ImageLines -> Block \cup {None}]
        /\ wrong' \in BOOLEAN /\ (Correctable => ~wrong')
    BY <2>1 DEF ImageInv, ImageShape, ShadowsCover
  <2> QED
    BY <2>1, <2>2, LeavesAll, RowsKeep
<1>2. ASSUME NEW b \in Banks, Precharge(b) \/ \E r \in Rows : Activate(b, r)
      PROVE  ImageInv' /\ NotBack
  BY <1>2, PrechargeKeeps, ActivateKeeps
<1>3. CASE PrechargeAll \/ flush_dirty_row_buffers
  BY <1>3, PrechargeAllKeeps, FlushKeeps
<1>4. ASSUME NEW l \in ImageLines, Read(l) \/ WriteNothing(l)
      PROVE  ImageInv' /\ NotBack
  BY <1>4, ReadKeeps, WriteNothingKeeps
<1>5. ASSUME NEW l \in ImageLines, NEW v \in Values, LoadBinary(l, v)
      PROVE  ImageInv' /\ NotBack
  BY <1>5, LoadBinaryKeeps
<1>6. ASSUME NEW l \in ImageLines, NEW v \in Values, NEW mask \in image.masks \ {{}}, Write(l, v, mask) \/ Preload(l, v, mask)
      PROVE  ImageInv' /\ NotBack
  <2>1. mask \in image.masks
    OBVIOUS
  <2> QED
    BY <1>6, <2>1, WriteKeeps, PreloadKeeps
<1> QED
  BY <1>1, <1>2, <1>3, <1>4, <1>5, <1>6 DEF ImageNext

LEMMA ImageInvExact ==
    ASSUME ImageAssumption, ImageInv
    PROVE  ImageExact
<1> USE DEF ImageInv
<1>1. ImageTypeOK
  BY CurrentBlock DEF ImageTypeOK, ImageShape
<1>2. ASSUME NEW l \in ImageLines, NEW blk \in Block, AsWritten(l, blk)
      PROVE  Right(l, [blk EXCEPT !.flip = FALSE])
  <2>1. PICK x : x = [blk EXCEPT !.flip = FALSE]
    OBVIOUS
  <2>2. ~x.flip /\ x.bytes = blk.bytes /\ x.init = blk.init
    BY <2>1 DEF Block
  <2>3. Right(l, x)
    BY <1>2, <2>2 DEF Right, AsWritten
  <2> QED
    BY <2>1, <2>3
<1>3. ViewExact
  BY <1>2, CurrentBlock DEF ViewExact, LinesRight
<1>4. CheckpointComplete
  <2> SUFFICES ASSUME NEW l \in ImageLines, ~row_buffers[Bank(l)].dirty, backend[l] # None
               PROVE  Right(l, [backend[l] EXCEPT !.flip = FALSE])
    BY DEF CheckpointComplete
  <2>1. backend[l] \in Block /\ InBackend(l) = backend[l] /\ AsWritten(l, Current(l))
    BY CurrentBlock DEF InBackend, LinesRight
  <2>2. Same(Current(l), backend[l])
    BY <2>1, CurrentBlock DEF CleanAgrees, Same
  <2>3. AsWritten(l, backend[l])
    BY <2>1, <2>2, AsWrittenSame
  <2> QED
    BY <1>2, <2>1, <2>3
<1>5. ReadsRight
  BY DEF ReadsRight, ShadowsCover
<1> QED
  BY <1>1, <1>3, <1>4, <1>5 DEF ImageExact

THEOREM ImageIsExact ==
    ASSUME ImageAssumption
    PROVE  ImageSpec => []ImageExact
<1>1. ImageInit => ImageInv
  BY ImageInvInit
<1>2. ImageInv /\ [ImageNext]_imageVars => ImageInv'
  BY ImageInvNext
<1>3. ImageInv => ImageExact
  BY ImageInvExact
<1> QED
  BY <1>1, <1>2, <1>3, PTL DEF ImageSpec

THEOREM VersionsNeverGoBack ==
    ASSUME ImageAssumption
    PROVE  ImageSpec => VersionsGrow
<1>1. ImageInit => ImageInv
  BY ImageInvInit
<1>2. ImageInv /\ [ImageNext]_imageVars => ImageInv'
  BY ImageInvNext
<1>3. ImageInv /\ [ImageNext]_imageVars => [\A l \in ImageLines : Current(l)'.version >= Current(l).version]_imageVars
  BY ImageInvNext DEF NotBack
<1> QED
  BY <1>1, <1>2, <1>3, PTL DEF ImageSpec, VersionsGrow
=============================================================================
