----------------------------- MODULE ChunkStore ----------------------------
(***************************************************************************)
(* mem_sim's ChunkFileMemoryBackend (src/mem_sim/src/core/memory_backend.cpp):*)
(* lines in files, behind a write-back cache of chunks with LRU replacement,  *)
(* and the presence and written bits in a shared mapping; or, if Mapped, its  *)
(* MmapSparseMemoryBackend, where all of the files are mappings.             *)
(*                                                                         *)
(* A call is an action.  A call may fail: pwrite throws after it wrote the    *)
(* payload of a chunk and not its metadata.  The process may be closed, or    *)
(* killed in or between calls; what was written to a file or a mapping is     *)
(* then still there, as the machine itself stays up.                         *)
(***************************************************************************)
EXTENDS Integers, FiniteSets, Sequences, SequencesExt

CONSTANTS
    Configs,                    \* the configurations a behaviour may have: records of mapped,
                                \* lines_per_chunk, cache_limit, and two bounds: the lines that are used, from
                                \* the first on, and max_faults, of kills and failed calls
    LineCount,
    Payloads, Zero, Absent,     \* a line's bytes, those of a hole in a file, and no line
    CounterWidth                \* counters wrap (2^64)

\* What the constants must be.
ASSUME ChunkStoreAssumption ==
    /\ LineCount \in Nat \ {0} /\ CounterWidth \in Nat /\ CounterWidth > 2 * LineCount /\ Zero \notin Payloads
    /\ Absent \notin [data: Payloads \cup {Zero}, version: {0, 1}]
    /\ \A c \in Configs : /\ c.mapped \in BOOLEAN /\ c.max_faults \in Nat
                           /\ {c.lines_per_chunk, c.cache_limit, c.used} \subseteq Nat \ {0}
                           /\ c.used <= LineCount

VARIABLES
    cfg,                        \* the configuration; it never changes
    data_, meta_,               \* the files: payload (with its init map), and version of each line
    header,                     \* the counters at the head of the metadata file
    presence, written,          \* the mapped bits
    cache, recent,              \* chunk -> [lines, dirty], and the cached chunks, least recent first
    allocated_lines, unique_written_lines,
    up,                         \* the process runs
    may,                        \* history: see LineStore
    faults, stale               \* how many faults were; whether the counters survived one
vars == <<cfg, data_, meta_, header, presence, written, cache, recent, allocated_lines, unique_written_lines, up, may,
          faults, stale>>
files == <<data_, meta_>>

Lines == 0..(LineCount - 1)
Used == 0..(cfg.used - 1)
Versions == {0, 1}              \* a line that was only preloaded, and one that was written
Content == [data: Payloads \cup {Zero}, version: Versions]
Storable == [data: Payloads, version: Versions]
ChunkOf(l) == l \div cfg.lines_per_chunk
Chunks == {ChunkOf(l) : l \in Lines}
LinesIn(c) == {l \in Lines : ChunkOf(l) = c}

OnFile(l) == [data |-> data_[l], version |-> meta_[l]]
\* What load answers.
Visible == [l \in Lines |-> IF l \notin presence THEN Absent
                            ELSE IF ChunkOf(l) \in DOMAIN cache THEN cache[ChunkOf(l)].lines[l] ELSE OnFile(l)]

Init ==
    /\ cfg \in Configs
    /\ data_ = [l \in Lines |-> Zero] /\ meta_ = [l \in Lines |-> 0]
    /\ header = [allocated |-> 0, written |-> 0]
    /\ presence = {} /\ written = {}
    /\ cache = <<>> /\ recent = <<>>
    /\ allocated_lines = 0 /\ unique_written_lines = 0
    /\ up = TRUE
    /\ may = [l \in Lines |-> {Absent}]
    /\ faults = 0 /\ stale = FALSE

Promise == INSTANCE LineStore WITH mem <- Visible

-----------------------------------------------------------------------------
(* The cache                                                                 *)

\* The files once the dirty chunks in C are written.
DataWith(C) == [l \in Lines |-> IF ChunkOf(l) \in C /\ cache[ChunkOf(l)].dirty THEN cache[ChunkOf(l)].lines[l].data
                                ELSE data_[l]]
MetaWith(C) == [l \in Lines |-> IF ChunkOf(l) \in C /\ cache[ChunkOf(l)].dirty THEN cache[ChunkOf(l)].lines[l].version
                                ELSE meta_[l]]

\* The chunk that must go before c can come.
Victim(c) == IF c \in DOMAIN cache \/ Len(recent) < cfg.cache_limit THEN {} ELSE {Head(recent)}
FromFile(c) == [lines |-> [l \in LinesIn(c) |-> OnFile(l)], dirty |-> FALSE]
\* Fault: a dirty victim is forgotten.
Forgotten(c) == UNCHANGED files
WriteVictim(c) == data_' = DataWith(Victim(c)) /\ meta_' = MetaWith(Victim(c))
\* The cache, with chunk c brought in and used.
Fetched(c) ==
    LET kept == DOMAIN cache \ Victim(c)
    IN  [k \in kept \cup {c} |-> IF k \in kept THEN cache[k] ELSE FromFile(c)]
\* The cached chunks by their last use: c is the last one now.
Touched(c) ==
    LET place == CHOOSE i \in DOMAIN recent : recent[i] = c
        others == CASE c \in DOMAIN cache -> RemoveAt(recent, place)
                    [] Victim(c) # {} -> Tail(recent)
                    [] c \notin DOMAIN cache /\ Victim(c) = {} -> recent
    IN  Append(others, c)

-----------------------------------------------------------------------------
(* Calls                                                                     *)

Load(l) ==
    /\ ~cfg.mapped /\ up /\ l \in presence
    /\ WriteVictim(ChunkOf(l))
    /\ cache' = Fetched(ChunkOf(l)) /\ recent' = Touched(ChunkOf(l))
    /\ UNCHANGED <<cfg, header, presence, written, allocated_lines, unique_written_lines, up, may, faults, stale>>

Changed(c, l, v) == [Fetched(c) EXCEPT ![c] = [lines |-> [@.lines EXCEPT ![l] = v], dirty |-> TRUE]]
WrittenCount(l, v) ==
    (unique_written_lines + (IF v.version > 0 /\ l \notin written THEN 1 ELSE 0)
                          + (IF v.version = 0 /\ l \in written THEN CounterWidth - 1 ELSE 0)) % CounterWidth
\* What both kinds of store do to the bits and the counters.
Mark(l, v) ==
    /\ presence' = presence \cup {l}
    /\ allocated_lines' = IF l \in presence THEN allocated_lines ELSE allocated_lines + 1
    /\ written' = IF v.version > 0 THEN written \cup {l} ELSE written \ {l}
    /\ unique_written_lines' = WrittenCount(l, v)
    /\ may' = [may EXCEPT ![l] = Promise!Mixed(@, v)]
    /\ UNCHANGED <<cfg, header, up, faults, stale>>
Store(l, v) ==
    /\ ~cfg.mapped /\ up
    /\ WriteVictim(ChunkOf(l))
    /\ cache' = Changed(ChunkOf(l), l, v) /\ recent' = Touched(ChunkOf(l))
    /\ Mark(l, v)
StoreMapped(l, v) ==
    /\ cfg.mapped /\ up
    /\ data_' = [data_ EXCEPT ![l] = v.data] /\ meta_' = [meta_ EXCEPT ![l] = v.version]
    /\ UNCHANGED <<cache, recent>>
    /\ Mark(l, v)

Clean(C) == [c \in DOMAIN cache |-> IF c \in C THEN [cache[c] EXCEPT !.dirty = FALSE] ELSE cache[c]]
\* Fault: only the least recent chunk is written, or none.
OldestOnly == {c \in DOMAIN cache : c = Head(recent)}
NoneFlushed == {}
FlushedChunks == DOMAIN cache
WriteAll ==
    /\ data_' = DataWith(FlushedChunks) /\ meta_' = MetaWith(FlushedChunks)
    /\ header' = [allocated |-> allocated_lines, written |-> unique_written_lines]
    /\ may' = [l \in Lines |-> {Visible[l]}]
Flush ==
    /\ up /\ WriteAll
    /\ cache' = Clean(FlushedChunks)
    /\ UNCHANGED <<cfg, presence, written, recent, allocated_lines, unique_written_lines, up, faults, stale>>

Clear ==
    /\ up
    /\ cache' = <<>> /\ recent' = <<>>
    /\ allocated_lines' = 0 /\ unique_written_lines' = 0
    /\ data_' = [l \in Lines |-> Zero] /\ meta_' = [l \in Lines |-> 0]
    /\ presence' = {} /\ written' = {}
    /\ header' = [allocated |-> 0, written |-> 0]
    /\ may' = [l \in Lines |-> {Absent}]
    /\ stale' = FALSE
    /\ UNCHANGED <<cfg, up, faults>>

\* The destructor flushes; the process is gone.
Close ==
    /\ up /\ WriteAll
    /\ up' = FALSE /\ cache' = <<>> /\ recent' = <<>>
    /\ UNCHANGED <<cfg, presence, written, allocated_lines, unique_written_lines, faults, stale>>

\* validate_header_counters
HeaderValid == header.allocated <= LineCount /\ header.written <= header.allocated
\* The constructor, on files that exist.
Reopen ==
    /\ ~up /\ HeaderValid
    /\ up' = TRUE
    /\ allocated_lines' = header.allocated /\ unique_written_lines' = header.written
    /\ UNCHANGED <<cfg, files, header, presence, written, cache, recent, may, faults, stale>>

\* It throws on the others.
Refused == ~up /\ ~HeaderValid /\ UNCHANGED vars

-----------------------------------------------------------------------------
(* Faults                                                                    *)

\* A call that must write chunks fails: those in C were written, of t only the payload was.
Torn(C, t) == data_' = DataWith(C \cup {t}) /\ meta_' = MetaWith(C)
\* An eviction fails, and with it the load or store that needed it.
EvictionFails(l) ==
    /\ up /\ faults < cfg.max_faults
    /\ \E t \in Victim(ChunkOf(l)) : cache[t].dirty /\ Torn({}, t)
    /\ faults' = faults + 1
    /\ UNCHANGED <<cfg, header, presence, written, cache, recent, allocated_lines, unique_written_lines, up, may, stale>>
\* A flush fails at its chunk t.
FlushFails ==
    /\ up /\ faults < cfg.max_faults
    /\ \E t \in DOMAIN cache, C \in SUBSET DOMAIN cache :
           /\ t \notin C /\ cache[t].dirty
           /\ Torn(C, t)
           /\ cache' = Clean(C)
    /\ faults' = faults + 1
    /\ UNCHANGED <<cfg, header, presence, written, recent, allocated_lines, unique_written_lines, up, may, stale>>
\* The process dies between two calls, or in one that was writing.
Kill ==
    /\ up /\ faults < cfg.max_faults
    /\ \/ UNCHANGED files
       \/ \E t \in DOMAIN cache, C \in SUBSET DOMAIN cache : t \notin C /\ cache[t].dirty /\ Torn(C, t)
    /\ up' = FALSE /\ cache' = <<>> /\ recent' = <<>>
    /\ faults' = faults + 1
    /\ stale' = (stale \/ header # [allocated |-> allocated_lines, written |-> unique_written_lines])
    /\ UNCHANGED <<cfg, header, presence, written, allocated_lines, unique_written_lines, may>>

\* It dies in a store, which had copied the payload into the mapping and not all of the rest.
KillInStore(l, v) ==
    /\ cfg.mapped /\ up /\ faults < cfg.max_faults
    /\ data_' = [data_ EXCEPT ![l] = v.data]
    /\ meta_' \in {meta_, [meta_ EXCEPT ![l] = v.version]}
    /\ may' = [may EXCEPT ![l] = @ \cup Promise!Mixed(@, v)]
    /\ up' = FALSE
    /\ faults' = faults + 1
    /\ stale' = (stale \/ header # [allocated |-> allocated_lines, written |-> unique_written_lines])
    /\ UNCHANGED <<cfg, header, presence, written, cache, recent, allocated_lines, unique_written_lines>>

Next ==
    \/ \E l \in Used : Load(l) \/ EvictionFails(l)
    \/ \E l \in Used, v \in Storable : Store(l, v) \/ StoreMapped(l, v) \/ KillInStore(l, v)
    \/ Flush \/ Clear \/ Close \/ Reopen \/ Refused \/ FlushFails \/ Kill
Spec == Init /\ [][Next]_vars

-----------------------------------------------------------------------------
(* Properties                                                                *)

TypeOK ==
    /\ OnFile(0) \in Content /\ \A l \in Lines : OnFile(l) \in Content
    /\ written \subseteq presence /\ presence \subseteq Lines
    /\ Len(recent) <= cfg.cache_limit /\ ToSet(recent) = DOMAIN cache /\ IsInjective(recent)
    /\ \A c \in DOMAIN cache : cache[c].lines \in [LinesIn(c) -> Content]

\* The cache, evictions, failed calls, closing and reopening do not show: the backend is a map that
\* keeps the last content stored, and a kill loses at most what was stored since the last flush.
KeepsPromise == Promise!Spec

\* At any moment the files hold, of every line, what the last flush left or something stored since;
\* a line in a chunk that was written back half is whole if it was not stored to.
FilesRecoverable == \A l \in Lines : (IF l \in presence THEN OnFile(l) ELSE Absent) \in may[l]

\* Counters agree with the bits unless a kill came between them and the header.
CountersExact ==
    up /\ ~stale => allocated_lines = Cardinality(presence) /\ unique_written_lines = Cardinality(written)

\* The files can be recovered at any moment, and the counters agree with the bits of the mappings.
FilesAndCounters == TypeOK /\ FilesRecoverable /\ CountersExact

\* What the constructor demands of files the program itself wrote.
HeaderAccepted == HeaderValid
=============================================================================
