----------------------------- MODULE MCStorage -----------------------------
(***************************************************************************)
(* mem_sim's memory image: MemoryImage over a backend that is a map, and     *)
(* ChunkStore, the backend that is a map in files.  part, chosen at the       *)
(* start, says which of them a behaviour runs; the other stays as it is.      *)
(* ImageExact and VersionsGrow are properties of MemoryImage, the others of   *)
(* ChunkStore.                                                               *)
(***************************************************************************)
EXTENDS ChunkStore, MemoryImage

VARIABLE part

\* Two chunks of which one fits the cache, two that both do, and mappings.
Chunked == [mapped |-> FALSE, lines_per_chunk |-> 2, cache_limit |-> 1, used |-> 3, max_faults |-> 1]
BothCached == [mapped |-> FALSE, lines_per_chunk |-> 1, cache_limit |-> 2, used |-> 2, max_faults |-> 1]
MappedFiles == [mapped |-> TRUE, lines_per_chunk |-> 1, cache_limit |-> 2, used |-> 2, max_faults |-> 2]
StoreConfigs == {Chunked, BothCached, MappedFiles}
OnlyChunked == {Chunked}

\* Two rows of two columns in a bank; two rows in each of two banks; lines of two bytes with every
\* mask; and with an error injected into every second write.
TwoColumns ==
    [banks |-> {1}, columns |-> {1, 2}, line_bytes |-> 1, ecc_shadow |-> FALSE, ecc_inject_period |-> 0,
     masks |-> {{}, {0}}, max_writes |-> 2]
TwoBanks == [TwoColumns EXCEPT !.banks = {1, 2}, !.columns = {1}, !.masks = {{0}}]
Masked == [TwoColumns EXCEPT !.columns = {1}, !.line_bytes = 2, !.masks = SUBSET {0, 1}, !.max_writes = 3]
Injecting == [Masked EXCEPT !.ecc_shadow = TRUE, !.ecc_inject_period = 2, !.masks = {{0, 1}}]

MCImages == {TwoColumns, TwoBanks, Masked, Injecting}
TwoRows == {1, 2}

ASSUME StorageParameters == Promise!LineStoreAssumption /\ ImageAssumption

MCInit ==
    /\ part \in {"image", "store"}
    /\ Init /\ (part # "store" => cfg = Chunked)
    /\ ImageInit /\ (part # "image" => image = TwoColumns)

MCNext ==
    /\ UNCHANGED part
    /\ \/ part = "store" /\ Next /\ UNCHANGED imageVars
       \/ part = "image" /\ ImageNext /\ UNCHANGED vars

MCSpec == MCInit /\ [][MCNext]_<<part, vars, imageVars>>
============================================================================
