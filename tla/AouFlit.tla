------------------------------ MODULE AouFlit ------------------------------
(***************************************************************************)
(* AouMessage, AouFlit and AouStreamDecoder                                *)
(* (src/axi2flit/systemc/include/aou_types.h, aou_stream_decoder.h).       *)
(*                                                                         *)
(* A flit's payload is a sequence of granules; granule k of message m is   *)
(* <<m, k>>.  start is the MsgStart bitmap, the only thing that tells the  *)
(* receiver a new message from the rest of a message cut by the end of the *)
(* previous flit.  credit is the header's MsgCredit field.                 *)
(*                                                                         *)
(* UcieAouAdapter (integration/ucie_aou_adapter.h) carries the flits over  *)
(* the two directions of the link, which is the lossless FIFO that module  *)
(* FdiChannel specifies and UcieLink implements; its delay is the time     *)
(* other threads may run before a flit is taken.                           *)
(***************************************************************************)
EXTENDS CreditManager

CONSTANTS
    FlitGranules,   \* GRANULE_COUNT
    Granules,       \* granules of a message of each type
    LinkDepth       \* flits one direction holds, its FDI FIFOs included

MsgTypes == {"Misc", "WriteReq", "ReadReq", "WriteData", "ReadData", "WriteResp", "WriteDataFull"}

AouAssumption ==
    /\ RpCount \in 1..4
    /\ FlitGranules \in Nat /\ Granules \in [MsgTypes -> 1..FlitGranules]

\* body: the grants of a CrdtGrant; <<id, tag, beats>> of a request, <<tag, beat>> of write
\* data, <<id, tag, beat, last>> of a response.  tag is the AXI user field, which the
\* endpoints carry through unchanged and which tells transactions apart.
AouMessage(type, rp, body) == [type |-> type, rp |-> rp, n |-> Granules[type], body |-> body]

\* What a decoder makes of bytes that are not one whole message.
BrokenMessage == [type |-> "Reserved", rp |-> 0, n |-> 0, body |-> <<>>]

CreditKind(type) == IF type = "WriteDataFull" THEN "WriteData" ELSE type

EmptyFlit == [gran |-> <<>>, start |-> {}, credit |-> NoGrants]

RemainingGranules(f) == FlitGranules - Len(f.gran)

\* Granules of msg from offset on that pack_fragment can put in f.
Take(f, msg, offset) == Least2(msg.n - offset, RemainingGranules(f))

PackFragment(f, msg, offset) ==
    [f EXCEPT !.gran = @ \o [i \in 1..Take(f, msg, offset) |-> <<msg, offset + i - 1>>],
              !.start = IF offset = 0 THEN @ \cup {Len(f.gran) + 1} ELSE @]

-----------------------------------------------------------------------------
(* AouStreamDecoder: carry holds the granules of a message still incomplete *)

GranuleAt(f, i) == IF i <= Len(f.gran) THEN f.gran[i] ELSE <<BrokenMessage, 0>>
PayloadFrom(f, i, n) == [j \in 1..n |-> GranuleAt(f, i + j - 1)]

\* message_granules_from_header, of the first granule.
Total(granules) == granules[1][1].n

Reassembled(granules) ==
    IF \A i \in 1..Len(granules) : granules[i] = <<granules[1][1], i - 1>>
       THEN granules[1][1] ELSE BrokenMessage

\* Granules at G0 that continue the message in carry.
Continued(carry, f) ==
    IF carry = <<>> THEN 0 ELSE Least2(Total(carry) - Len(carry), FlitGranules)

\* parse throws unless MsgStart marks no granule of the continuation and none inside a message.
WellFormed(carry, f) ==
    /\ f.start \cap 1..Continued(carry, f) = {}
    /\ \A i \in f.start : /\ Total(PayloadFrom(f, i, 1)) > 0
                          /\ f.start \cap (i + 1)..(i + Total(PayloadFrom(f, i, 1)) - 1) = {}

\* The message that MsgStart marks at granule i, as far as f holds it.
FragmentAt(f, i) == PayloadFrom(f, i, Least2(Total(PayloadFrom(f, i, 1)), FlitGranules - i + 1))

Fragments(carry, f) ==
    (IF carry = <<>> THEN <<>> ELSE <<carry \o PayloadFrom(f, 1, Continued(carry, f))>>)
    \o FoldLeft(LAMBDA gs, i : IF i \in f.start THEN Append(gs, FragmentAt(f, i)) ELSE gs,
                <<>>, [i \in 1..FlitGranules |-> i])

IsWhole(granules) == Len(granules) = Total(granules)

\* consume: the messages that f completes, in order, and what is left to be continued.
DecodedMessages(carry, f) ==
    FoldLeft(LAMBDA msgs, g : IF IsWhole(g) THEN Append(msgs, Reassembled(g)) ELSE msgs,
             <<>>, Fragments(carry, f))

CarryAfter(carry, f) ==
    FoldLeft(LAMBDA c, g : IF IsWhole(g) THEN <<>> ELSE g, <<>>, Fragments(carry, f))

\* decode_crdt_grant_message: the credit updates of the CrdtGrants among msgs.
GrantUpdates(msgs) ==
    FoldLeft(LAMBDA us, m : IF m.type = "Misc" THEN us \o CreditUpdates(m.body) ELSE us, <<>>, msgs)

-----------------------------------------------------------------------------
(* The adapter                                                               *)

VARIABLES
    out,    \* FlitPacker's output register, the adapter's tx: <<>> or <<flit>>
    down,   \* flits on their way to the target
    up,     \* flits on their way to the bridge
    rx      \* the flit held for the unpacker: <<>> or <<flit>>
linkVars == <<out, down, up, rx>>

AdapterInit == out = <<>> /\ down = <<>> /\ up = <<>> /\ rx = <<>>

\* ready is shown only while fifo_tx has space, and the packer drops its output register at the
\* clock edge that takes it.
AdapterSend ==
    /\ out # <<>> /\ Len(down) < LinkDepth
    /\ down' = down \o out
    /\ out' = <<>>
    /\ UNCHANGED <<up, rx>>

AdapterReceive ==
    /\ rx = <<>> /\ up # <<>>
    /\ rx' = <<Head(up)>>
    /\ up' = Tail(up)
    /\ UNCHANGED <<out, down>>
=============================================================================
