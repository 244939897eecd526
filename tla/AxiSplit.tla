------------------------------ MODULE AxiSplit ------------------------------
(***************************************************************************)
(* Master::split (src/gem5_axi/axi_master.cc): the loop that cuts a gem5    *)
(* packet into AXI bursts, one round of it per step.  What it must produce  *)
(* is what the bridge and the memory backend insist on                      *)
(* (src/axi2flit/systemc/include/axi_contract.h).                           *)
(***************************************************************************)
EXTENDS Integers, Sequences

CONSTANTS
    Addresses,      \* packet addresses
    Lengths         \* packet lengths in bytes

\* admit calls split only for packets that are not empty.
ASSUME SplitAssumption == Addresses \subseteq Nat /\ Lengths \subseteq Nat \ {0}

VARIABLES
    base, len,      \* the packet
    addr, offset,   \* where the rest of it starts
    out             \* the bursts found so far
vars == <<base, len, addr, offset, out>>

PageBytes == 4096
MaxBeats == 256
Widths == {1, 2, 4, 8, 16, 32}      \* 1 << AxSIZE, up to DataBytes

Burst == [address : Nat, offset : Nat, bytes : Widths, beats : 1..MaxBeats]

Remaining == len - offset

Usable(w) == w <= Remaining /\ addr % w = 0
Beat == CHOOSE b \in Widths : Usable(b) /\ \A w \in Widths : Usable(w) => w <= b

Least2(m, n) == IF m <= n THEN m ELSE n

\* Fault: no limit at the end of the page.
NoPage == PageBytes
ToPageEnd == PageBytes - (addr % PageBytes)

Beats(beat) == Least2(Least2(Remaining \div beat, MaxBeats), ToPageEnd \div beat)

Init ==
    /\ base \in Addresses /\ len \in Lengths
    /\ addr = base /\ offset = 0 /\ out = <<>>

\* Fault: an offset that forgets the width of a beat.
OffsetByBeats(beat) == offset + Beats(beat)
OffsetAfter(beat) == offset + beat * Beats(beat)

Round ==
    /\ offset < len
    /\ out' = Append(out, [address |-> addr, offset |-> offset, bytes |-> Beat,
                           beats |-> Beats(Beat)])
    /\ addr' = addr + Beat * Beats(Beat)
    /\ offset' = OffsetAfter(Beat)
    /\ UNCHANGED <<base, len>>

\* split returns.
Return == offset = len /\ UNCHANGED vars

Next == Round \/ Return

Spec == Init /\ [][Next]_vars

-----------------------------------------------------------------------------
BurstSize(b) == b.bytes * b.beats

\* The loop's variables have their types.
TypeOK ==
    /\ base \in Nat /\ len \in Nat \ {0} /\ addr \in Nat /\ offset \in 0..len
    /\ out \in Seq(Burst)

\* axi_request_error finds nothing wrong with any burst: aligned to its beat, within a page.
ContractKept ==
    \A i \in 1..Len(out) : /\ out[i].address % out[i].bytes = 0
                           /\ (out[i].address % PageBytes) + BurstSize(out[i]) <= PageBytes

\* The bursts lie end to end: every byte of the packet up to offset is in exactly one burst, at
\* the address it has in the packet.
EndToEnd ==
    /\ addr = base + offset
    /\ \A i \in 1..Len(out) :
          /\ out[i].address = base + out[i].offset
          /\ out[i].offset + BurstSize(out[i]) = IF i = Len(out) THEN offset ELSE out[i + 1].offset
    /\ (IF out = <<>> THEN offset ELSE out[1].offset) = 0

\* The bursts found so far are right, and so is the place where the loop goes on.
SplitInv == TypeOK /\ ContractKept /\ EndToEnd

\* The loop ends within len rounds: no round is empty, wherever the packet meets the end of a
\* page, and none goes past the packet.
RoundsAdvance == [][offset < offset' /\ offset' <= len]_vars
=============================================================================
