---------------------------- MODULE FdiChannel ----------------------------
(***************************************************************************)
(* What one direction of UcieLink promises to the two FDI users            *)
(* (src/ucie-model/src/ucie_link.h, the comment on the public boundary):   *)
(* a FIFO that holds at most Window flits between the bounded FDI FIFOs.   *)
(* Nothing is lost, duplicated, reordered or altered, whatever the PHY     *)
(* does, and an accepted flit is eventually handed out.                    *)
(***************************************************************************)
EXTENDS Naturals, Sequences

CONSTANTS
    Flits,      \* the FdiFlit values (payload and its metadata)
    Window,     \* flits the channel may hold
    InDepth,    \* depth of the FDI FIFO the producer writes
    OutDepth    \* depth of the FDI FIFO the consumer reads

VARIABLES fdi_in, fdi_out, chan

channelVars == <<fdi_in, fdi_out, chan>>

ChannelInit ==
    /\ fdi_in = <<>>
    /\ fdi_out = <<>>
    /\ chan = <<>>

Put(flit) ==
    /\ Len(fdi_in) < InDepth
    /\ fdi_in' = Append(fdi_in, flit)
    /\ UNCHANGED <<fdi_out, chan>>

Accept ==
    /\ fdi_in # <<>>
    /\ Len(chan) < Window
    /\ fdi_in' = Tail(fdi_in)
    /\ chan' = Append(chan, Head(fdi_in))
    /\ UNCHANGED fdi_out

Deliver ==
    /\ chan # <<>>
    /\ Len(fdi_out) < OutDepth
    /\ chan' = Tail(chan)
    /\ fdi_out' = Append(fdi_out, Head(chan))
    /\ UNCHANGED fdi_in

Get ==
    /\ fdi_out # <<>>
    /\ fdi_out' = Tail(fdi_out)
    /\ UNCHANGED <<fdi_in, chan>>

ChannelNext ==
    \/ \E flit \in Flits : Put(flit)
    \/ Accept
    \/ Deliver
    \/ Get

ChannelSpec == ChannelInit /\ [][ChannelNext]_channelVars

\* The channel never stops delivering while it holds a flit and the consumer reads.
ChannelLive == WF_channelVars(Deliver)

ChannelFairSpec == ChannelSpec /\ ChannelLive
============================================================================
