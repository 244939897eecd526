----------------------------- MODULE AddressMap -----------------------------
(***************************************************************************)
(* Where mem_sim puts a byte: the stack (StackAddressMapper), the cell of   *)
(* the stack (AddressMapper), the bank's number and its timing buckets      *)
(* (flat_bank, scope_index), and its place on the floor plan                *)
(* (MemoryImage::physical_address).                                        *)
(*                                                                         *)
(* A layout is a record of the configuration; its "radix" gives the size of *)
(* each dimension.  A behaviour picks one address of one layout.            *)
(***************************************************************************)
EXTENDS Integers, Sequences, SequencesExt

CONSTANT Layouts    \* the configurations by name

VARIABLES
    layout,         \* the name of the configuration
    at              \* the system address

mapVars == <<layout, at>>

-----------------------------------------------------------------------------
(* Stacks.                                                                  *)

BankDims == <<"channel", "pseudo_channel", "sid", "rank", "bank_group", "bank">>
Dims == BankDims \o <<"row", "column">>

Product(o, dims) == FoldLeft(LAMBDA n, d : n * o.radix[d], 1, dims)
Capacity(o) == Product(o, Dims) * o.transaction_bytes
SystemBytes(o) == Capacity(o) * o.stacks

StackDecode(o, address) ==
    LET stripe == address \div o.interleave
    IN  CASE o.stacks = 1 -> [stack |-> 0, local |-> address]
          [] o.stacks > 1 /\ o.blocked ->
               [stack |-> address \div Capacity(o), local |-> address % Capacity(o)]
          [] OTHER -> [stack |-> stripe % o.stacks,
                       local |-> (stripe \div o.stacks) * o.interleave + (address % o.interleave)]

StackEncode(o, stack, local) ==
    CASE o.stacks = 1 -> local
      [] o.stacks > 1 /\ o.blocked -> stack * Capacity(o) + local
      [] OTHER -> ((local \div o.interleave) * o.stacks + stack) * o.interleave
                    + (local % o.interleave)

-----------------------------------------------------------------------------
(* The cell of a transaction: a number in mixed radix.                      *)

\* take_bank_composite
BankComposite == <<"bank", "bank_group", "pseudo_channel", "sid">>

\* The dimensions in the order decode takes them, the lowest digit first.
Taken(kind) ==
    CASE kind = "Default" -> <<"column">> \o BankComposite \o <<"rank", "channel", "row">>
      [] kind = "RoBaRaCoCh" -> <<"channel", "column", "rank">> \o BankComposite \o <<"row">>
      [] kind = "ChRaBaRoCo" -> <<"column", "row">> \o BankComposite \o <<"rank", "channel">>
      [] kind = "RoCoRaBaCh" -> <<"channel">> \o BankComposite \o <<"rank", "column", "row">>

\* take_mod for dimension d, after those before it have had their share of line.
Digit(o, line, d) ==
    LET order == Taken(o.mapping)
        below == SubSeq(order, 1, CHOOSE i \in 1..Len(order) : order[i] = d)
    IN  (line \div Product(o, SubSeq(below, 1, Len(below) - 1))) % o.radix[d]

\* apply_lpddr_efficiency
Primary(o, d, digit) == IF o.efficiency /\ d = "pseudo_channel" THEN 0 ELSE digit

Decode(o, address) ==
    LET line == address \div o.transaction_bytes
    IN  [d \in ToSet(Dims) |-> Primary(o, d, Digit(o, line, d))]

InOrganization(o, decoded) == \A d \in ToSet(Dims) : decoded[d] \in 0..(o.radix[d] - 1)

-----------------------------------------------------------------------------
(* Numbers of banks and of timing buckets; scope n is the first n of        *)
(* BankDims.                                                                *)

ScopeCount(o, n) == Product(o, SubSeq(BankDims, 1, n))
ScopeIndex(o, n, decoded) ==
    FoldLeft(LAMBDA x, d : x * o.radix[d] + decoded[d], 0, SubSeq(BankDims, 1, n))

SiblingRange(o, n, decoded) ==
    LET begin == IF n = 1 THEN 0 ELSE ScopeIndex(o, n - 1, decoded) * o.radix[BankDims[n]]
        end == begin + o.radix[BankDims[n]]
    IN  {i \in begin..(end - 1) : i < ScopeCount(o, n)}

FlatBank(o, decoded) == ScopeIndex(o, Len(BankDims), decoded)

\* decoded_from_flat_bank: digits from the bank up, the channel is what remains.
FromFlatBank(o, flat) ==
    [d \in ToSet(BankDims) |->
        LET i == CHOOSE j \in 1..Len(BankDims) : BankDims[j] = d
            rest == flat \div Product(o, SubSeq(BankDims, i + 1, Len(BankDims)))
        IN  IF i = 1 THEN rest ELSE rest % o.radix[d]]

-----------------------------------------------------------------------------
(* The floor plan.                                                          *)

CeilDiv(n, k) == (n + k - 1) \div k
CeilSqrt(n) == CHOOSE r \in 1..n : r * r >= n /\ (r = 1 \/ (r - 1) * (r - 1) < n)
Scaled(value, span, buckets) == (value * buckets) \div span

Physical(o, decoded) ==
    LET r == o.radix
        banks == r["bank_group"] * r["bank"]
        bank_index == decoded["bank_group"] * r["bank"] + decoded["bank"]
        layers_per_sid == CeilDiv(o.stack_height, r["sid"])
        layer == (decoded["sid"] * layers_per_sid + (bank_index % layers_per_sid))
                     % o.stack_height
        cols == CeilSqrt(banks)
        slice_rows == CeilDiv(banks, cols)
        slice == (decoded["rank"] * r["sid"] + decoded["sid"]) * r["pseudo_channel"]
                     + decoded["pseudo_channel"]
        rows == slice_rows * r["pseudo_channel"] * r["sid"] * r["rank"]
        tile_x == bank_index % cols
        tile_y == slice * slice_rows + bank_index \div cols
        grid_x == Scaled(decoded["row"], r["row"], o.grid)
        grid_y == Scaled(decoded["column"], r["column"], o.grid)
        subarray_rows == CeilDiv(r["row"], o.subarrays)
        row_in_subarray == decoded["row"] % subarray_rows
    IN  [layer |-> layer, cols |-> cols, rows |-> rows, x |-> tile_x, y |-> tile_y,
         id |-> (layer * rows + tile_y) * cols + tile_x,
         thermal_x |-> tile_x * o.grid + grid_x, thermal_y |-> tile_y * o.grid + grid_y,
         subarray |-> Scaled(decoded["row"], r["row"], o.subarrays),
         mat_x |-> Scaled(row_in_subarray, subarray_rows, o.mats),
         mat_y |-> Scaled(decoded["column"], r["column"], o.mats)]

-----------------------------------------------------------------------------
MapInit == layout \in DOMAIN Layouts /\ at = 0
MapNext == at = 0 /\ at' \in 1..(SystemBytes(Layouts[layout]) - 1) /\ UNCHANGED layout
MapSpec == MapInit /\ [][MapNext]_mapVars

-----------------------------------------------------------------------------
(* Properties                                                               *)

Place(o, address) ==
    LET routed == StackDecode(o, address)
    IN  [stack |-> routed.stack, local |-> routed.local,
         cell |-> Decode(o, routed.local), byte |-> routed.local % o.transaction_bytes]

Places ==
    [l \in DOMAIN Layouts |->
        [a \in 0..(SystemBytes(Layouts[l]) - 1) |-> Place(Layouts[l], a)]]
Tiles ==
    [l \in DOMAIN Layouts |->
        [a \in DOMAIN Places[l] |-> Physical(Layouts[l], Places[l][a].cell)]]

Buckets ==
    [l \in DOMAIN Layouts |->
        [a \in DOMAIN Places[l] |-> [n \in 1..Len(BankDims) |-> ScopeIndex(Layouts[l], n, Places[l][a].cell)]]]

SameBank(c, d, n) == \A i \in 1..n : c[BankDims[i]] = d[BankDims[i]]

\* Every two addresses of the capacity are two bytes of the memory: same stack, cell and offset
\* in the transaction never meet (StackAddressMapper and AddressMapper::decode).
AddressesDistinct ==
    LET here == Places[layout][at]
    IN  \A a \in 0..(at - 1) :
            LET there == Places[layout][a]
            IN  ~(here.stack = there.stack /\ here.cell = there.cell /\ here.byte = there.byte)

\* The system's address comes back from the stack's, and the bank from its number.
Reversible ==
    LET o == Layouts[layout]  here == Places[layout][at]  flat == FlatBank(o, here.cell)
    IN  /\ StackEncode(o, here.stack, here.local) = at
        /\ here.local < Capacity(o) /\ here.stack < o.stacks
        /\ InOrganization(o, here.cell)
        /\ flat < ScopeCount(o, Len(BankDims))
        /\ SameBank(FromFlatBank(o, flat), here.cell, Len(BankDims))

\* The buckets of TimingEngine and of the validator are the ones their names say: two commands
\* share a bucket of a scope exactly when they agree on its dimensions, and siblings are the
\* buckets of one parent.
ScopesNest ==
    LET o == Layouts[layout]  c == Places[layout][at].cell
    IN  \A n \in 1..Len(BankDims) :
            LET mine == ScopeIndex(o, n, c)  siblings == SiblingRange(o, n, c)
            IN  \A a \in 0..(at - 1) :
                    LET d == Places[layout][a].cell  theirs == Buckets[layout][a][n]
                    IN  /\ (mine = theirs) = SameBank(c, d, n)
                        /\ (theirs \in siblings) = SameBank(c, d, n - 1)

\* On the floor plan the banks of one channel have tiles of their own, inside it.
TilesDistinct ==
    LET o == Layouts[layout]  c == Places[layout][at].cell  p == Tiles[layout][at]
    IN  /\ p.x < p.cols /\ p.y < p.rows /\ p.layer < o.stack_height
        /\ p.thermal_x < p.cols * o.grid /\ p.thermal_y < p.rows * o.grid
        /\ p.subarray < o.subarrays /\ p.mat_x < o.mats /\ p.mat_y < o.mats
        /\ \A a \in 0..(at - 1) :
              LET d == Places[layout][a].cell
              IN  c["channel"] = d["channel"]
                    => (p.id = Tiles[layout][a].id) = SameBank(c, d, Len(BankDims))
============================================================================
