---------------------------- MODULE MemoryImage ----------------------------
(***************************************************************************)
(* mem_sim's MemoryImage (src/mem_sim/src/core/data.cpp) on top of a backend: *)
(* the row buffers that ACT opens and PRE, REF and auto-precharge close, read *)
(* and masked write of one line, the checkpoint of dirty rows, the preloading *)
(* of an image, and the SECDED shadow with its injected errors.               *)
(*                                                                         *)
(* Commands reach the image when the controller or the stack model issues or  *)
(* completes them, so any order is possible: a write may find its row closed  *)
(* again, an auto-precharge may close the row that another activation opened. *)
(*                                                                         *)
(* A byte is a value; an injected error flips bit 0 of the line's first byte.  *)
(* The shadow is as good as the line was when it was computed.               *)
(***************************************************************************)
EXTENDS Integers

CONSTANTS
    ImageConfigs,   \* the configurations a behaviour may have: records of banks, columns, line_bytes,
                    \* ecc_shadow, ecc_inject_period (0: none), the byte masks that writes have, and
                    \* max_writes, a bound on the writes of a run
    Rows, None,
    Values, Default,            \* what a byte holds, and holds at first
    CorrectSingleBit            \* ecc_correct_single_bit

\* What the constants must be.
ImageAssumption ==
    /\ CorrectSingleBit \in BOOLEAN /\ Default \in Values /\ None \notin Values
    /\ \A c \in ImageConfigs :
           /\ c.line_bytes \in Nat \ {0} /\ {c.ecc_inject_period, c.max_writes} \subseteq Nat
           /\ c.ecc_shadow \in BOOLEAN
           /\ c.masks \subseteq SUBSET (0..(c.line_bytes - 1))
           /\ None \notin [bytes: [0..(c.line_bytes - 1) -> Values], init: SUBSET (0..(c.line_bytes - 1)), version: Nat,
                            flip: BOOLEAN, ecc: {"none", "clean", "flipped"}]

VARIABLES
    image,              \* the configuration; it never changes
    backend,            \* line -> block or None
    row_buffers,        \* bank -> [open, row, dirty, columns]
    next_version,
    should,             \* history: line -> byte -> what a read should answer, None where nothing was written
    wrong               \* history: a read returned something else
imageVars == <<image, backend, row_buffers, next_version, should, wrong>>

Banks == image.banks
ImageLines == Banks \X Rows \X image.columns
Bytes == 0..(image.line_bytes - 1)
Bank(l) == l[1]
Row(l) == l[2]
Column(l) == l[3]

\* ecc: none, or whether the line carried a flip when its shadow was computed.
Block == [bytes: [Bytes -> Values], init: SUBSET Bytes, version: Nat, flip: BOOLEAN, ecc: {"none", "clean", "flipped"}]
\* make_line
NewLine == [bytes |-> [b \in Bytes |-> Default], init |-> {}, version |-> 0, flip |-> FALSE, ecc |-> "none"]
Closed == [open |-> FALSE, row |-> None, dirty |-> FALSE, columns |-> <<>>]

ImageInit ==
    /\ image \in ImageConfigs
    /\ backend = [l \in ImageLines |-> None]
    /\ row_buffers = [b \in Banks |-> Closed]
    /\ next_version = 1
    /\ should = [l \in ImageLines |-> [b \in Bytes |-> None]]
    /\ wrong = FALSE

-----------------------------------------------------------------------------
(* Rows                                                                      *)

\* Fault: one column of the row is written back.
OneColumn(be, b) ==
    LET rb == row_buffers[b]
    IN  IF rb.open /\ rb.dirty /\ DOMAIN rb.columns # {}
        THEN LET c == CHOOSE c \in DOMAIN rb.columns : TRUE
             IN  [be EXCEPT ![<<b, rb.row, c>>] = rb.columns[c]]
        ELSE be
\* The backend with the cached columns of a bank's dirty row stored.
WithRow(be, b) ==
    LET rb == row_buffers[b]
    IN  IF rb.open /\ rb.dirty
        THEN [l \in ImageLines |-> IF Bank(l) = b /\ Row(l) = rb.row /\ Column(l) \in DOMAIN rb.columns
                              THEN rb.columns[Column(l)] ELSE be[l]]
        ELSE be

activate_row(b, r) ==
    IF row_buffers[b].open /\ row_buffers[b].row = r
    THEN UNCHANGED <<backend, row_buffers>>
    ELSE /\ backend' = WithRow(backend, b)
         /\ row_buffers' = [row_buffers EXCEPT ![b] = [Closed EXCEPT !.open = TRUE, !.row = r]]
precharge_bank(b) ==
    /\ backend' = WithRow(backend, b)
    /\ row_buffers' = [row_buffers EXCEPT ![b] = Closed]

\* Open dirty rows; banks of one rank are distinct, so the order of their writebacks does not show.
AllStored == [l \in ImageLines |-> WithRow(backend, Bank(l))[l]]

Activate(b, r) == activate_row(b, r) /\ UNCHANGED <<image, next_version, should, wrong>>
Precharge(b) == row_buffers[b].open /\ precharge_bank(b) /\ UNCHANGED <<image, next_version, should, wrong>>
\* PREab, REFab, RFMab and self refresh; every bank is of the rank.
PrechargeAll ==
    /\ backend' = AllStored
    /\ row_buffers' = [b \in Banks |-> Closed]
    /\ UNCHANGED <<image, next_version, should, wrong>>
Stored == AllStored
flush_dirty_row_buffers ==
    /\ backend' = Stored
    /\ row_buffers' = [b \in Banks |-> [row_buffers[b] EXCEPT !.dirty = FALSE]]
    /\ UNCHANGED <<image, next_version, should, wrong>>

-----------------------------------------------------------------------------
(* Lines                                                                     *)

Hit(l) == row_buffers[Bank(l)].open /\ row_buffers[Bank(l)].row = Row(l)
InBackend(l) == IF backend[l] = None THEN NewLine ELSE backend[l]
Cached(l) == Hit(l) /\ Column(l) \in DOMAIN row_buffers[Bank(l)].columns
\* row_buffer_block: the line in the row buffer, fetched when it is first used.
Current(l) == IF Cached(l) THEN row_buffers[Bank(l)].columns[Column(l)] ELSE InBackend(l)
PutColumn(columns, c, blk) == [x \in DOMAIN columns \cup {c} |-> IF x = c THEN blk ELSE columns[x]]
WithColumn(l, blk, dirty) ==
    LET rb == row_buffers[Bank(l)]
    IN  [row_buffers EXCEPT ![Bank(l)] = [open |-> rb.open, row |-> rb.row, dirty |-> rb.dirty \/ dirty,
                                          columns |-> PutColumn(rb.columns, Column(l), blk)]]

Flipped(blk) == [blk EXCEPT !.flip = ~@]
\* refresh_ecc_shadow
Shadowed(blk) == [blk EXCEPT !.ecc = IF image.ecc_shadow THEN IF blk.flip THEN "flipped" ELSE "clean" ELSE "none"]
Agrees(blk) == blk.ecc = IF blk.flip THEN "flipped" ELSE "clean"
\* Fault: a bit that is wrong is left.
NotCorrected(blk) == blk
\* check_ecc_shadow: one bit differs from what the shadow covers, or none does.
Checked(blk) ==
    IF blk.ecc = "none" \/ Agrees(blk) \/ ~CorrectSingleBit THEN blk ELSE Shadowed(Flipped(blk))
\* maybe_inject_ecc_error
Injected(blk) ==
    IF image.ecc_shadow /\ image.ecc_inject_period > 0 /\ blk.version > 0 /\ blk.version % image.ecc_inject_period = 0
    THEN Flipped(blk) ELSE blk

Merged(blk, v, mask) ==
    [blk EXCEPT !.bytes = [b \in Bytes |-> IF b \in mask THEN v ELSE blk.bytes[b]], !.init = @ \cup mask,
                !.version = next_version, !.flip = @ /\ 0 \notin mask]

Right(l, blk) ==
    /\ \A b \in Bytes : blk.bytes[b] = IF should[l][b] = None THEN Default ELSE should[l][b]
    /\ blk.init = {b \in Bytes : should[l][b] # None}
    /\ ~blk.flip

Read(l) ==
    LET blk == Checked(Current(l))
    IN  /\ IF Hit(l)
           THEN row_buffers' = WithColumn(l, blk, FALSE) /\ UNCHANGED backend
           ELSE /\ backend' = IF backend[l] # None /\ blk # backend[l] THEN [backend EXCEPT ![l] = blk] ELSE backend
                /\ UNCHANGED row_buffers
        /\ wrong' = (wrong \/ ~Right(l, blk))
        /\ UNCHANGED <<image, next_version, should>>

Write(l, v, mask) ==
    LET blk == Injected(Shadowed(Merged(Current(l), v, mask)))
    IN  /\ next_version <= image.max_writes
        /\ IF Hit(l)
           THEN /\ row_buffers' = WithColumn(l, blk, TRUE)
                /\ backend' = [backend EXCEPT ![l] = InBackend(l)]
           ELSE backend' = [backend EXCEPT ![l] = blk] /\ UNCHANGED row_buffers
        /\ next_version' = next_version + 1
        /\ should' = [should EXCEPT ![l] = [b \in Bytes |-> IF b \in mask THEN v ELSE @[b]]]
        /\ UNCHANGED <<image, wrong>>
\* A write whose mask is empty still shadows the line again; the row is not dirty for it.
WriteNothing(l) ==
    LET blk == Injected(Shadowed(Current(l)))
    IN  /\ {} \in image.masks
        /\ IF Hit(l)
           THEN row_buffers' = WithColumn(l, blk, FALSE) /\ backend' = [backend EXCEPT ![l] = InBackend(l)]
           ELSE backend' = [backend EXCEPT ![l] = blk] /\ UNCHANGED row_buffers
        /\ UNCHANGED <<image, next_version, should, wrong>>

\* load_text, before the run: the named lines are preloaded, version 0.
Preload(l, v, mask) ==
    /\ next_version = 1 /\ \A b \in Banks : ~row_buffers[b].open
    /\ backend' = [backend EXCEPT ![l] = Shadowed([Merged(InBackend(l), v, mask) EXCEPT !.version = 0])]
    /\ should' = [should EXCEPT ![l] = [b \in Bytes |-> IF b \in mask THEN v ELSE @[b]]]
    /\ UNCHANGED <<image, row_buffers, next_version, wrong>>

\* load_binary replaces everything; here by one line.
LoadBinary(l, v) ==
    /\ next_version = 1
    /\ backend' = [k \in ImageLines |-> IF k = l THEN Shadowed([NewLine EXCEPT !.bytes = [b \in Bytes |-> v], !.init = Bytes])
                                   ELSE None]
    /\ row_buffers' = [b \in Banks |-> Closed]
    /\ should' = [k \in ImageLines |-> [b \in Bytes |-> IF k = l THEN v ELSE None]]
    /\ UNCHANGED <<image, next_version, wrong>>

ImageNext ==
    \/ \E b \in Banks : Precharge(b) \/ \E r \in Rows : Activate(b, r)
    \/ PrechargeAll \/ flush_dirty_row_buffers
    \/ \E l \in ImageLines : Read(l) \/ WriteNothing(l)
    \/ \E l \in ImageLines, v \in Values : LoadBinary(l, v)
    \/ \E l \in ImageLines, v \in Values, mask \in image.masks \ {{}} : Write(l, v, mask) \/ Preload(l, v, mask)
ImageSpec == ImageInit /\ [][ImageNext]_imageVars

-----------------------------------------------------------------------------
(* Properties                                                                *)

ImageTypeOK ==
    /\ \A l \in ImageLines : backend[l] # None => backend[l] \in Block
    /\ \A b \in Banks : row_buffers[b].dirty => row_buffers[b].open
    /\ next_version \in 1..(image.max_writes + 1)

\* Whatever rows are opened, closed, replaced or checkpointed, a line is what was last written to it,
\* byte by byte, with the bytes never written marked so.
ViewExact == \A l \in ImageLines : Right(l, [Current(l) EXCEPT !.flip = FALSE])
\* The shadow covers what was written when it is computed after the last error was overwritten, that
\* is when every write covers the byte that errors are injected into.
Correctable ==
    image.ecc_shadow /\ image.ecc_inject_period > 0 => CorrectSingleBit /\ \A mask \in image.masks : 0 \in mask
\* Then no read ever returned anything else: each error that was injected is corrected before it is seen.
ReadsRight == Correctable => ~wrong
\* After a checkpoint or a precharge the backend alone holds everything: what a dump or a golden
\* comparison, which do not look into row buffers, will find.
CheckpointComplete ==
    \A l \in ImageLines : ~row_buffers[Bank(l)].dirty /\ backend[l] # None => Right(l, [backend[l] EXCEPT !.flip = FALSE])
\* The version of a line only grows, also when a row is dropped, and no two lines carry the same one.
VersionsGrow == [][\A l \in ImageLines : Current(l)'.version >= Current(l).version]_imageVars
VersionsDistinct ==
    \A k, l \in ImageLines : k # l /\ Current(k).version > 0 => Current(k).version # Current(l).version

\* Rows opened, closed, replaced and checkpointed do not show: a line is what was last written to
\* it, the backend alone holds it once its row was stored, and each injected error is corrected
\* before a read returns it (data.cpp).
ImageExact == ImageTypeOK /\ ViewExact /\ CheckpointComplete /\ VersionsDistinct /\ ReadsRight
=============================================================================
