---------------------------- MODULE BurstMemory ----------------------------
(***************************************************************************)
(* What the memory behind the AoU target promises at its two FIFOs          *)
(* (src/axi2flit/systemc/include/simple_mem_if.h): bursts take effect in     *)
(* the order in which they are taken and are answered in that order, once    *)
(* each.  A read returns the bytes of the last writes taken before it.  A    *)
(* burst outside the window, or of a kind that is not served, is answered    *)
(* with an error and has no effect; any other may fail in the device.        *)
(***************************************************************************)
EXTENDS Integers, Sequences

CONSTANTS
    Kinds,              \* [write, addr, length, lock, strobe]
    Numbers,            \* the numbers of the bursts
    Size,               \* bytes of the window
    Slots,              \* bursts held
    InDepth, OutDepth   \* depths of the FIFOs

VARIABLES
    request,    \* bursts waiting, numbered
    held,       \* bursts taken, with what a read must return
    image,      \* the number of the last write to each byte
    response    \* answers waiting
memoryVars == <<request, held, image, response>>

Bytes(k) == k.addr .. (k.addr + k.length - 1)
Served(k) == Bytes(k) \subseteq 0..(Size - 1) /\ ~k.lock /\ ~(k.write /\ k.strobe)

MemoryInit ==
    /\ request = <<>> /\ held = <<>> /\ response = <<>>
    /\ image = [a \in 0..(Size - 1) |-> 0]

Reading(k) == IF Served(k) /\ ~k.write THEN [o \in 0..(k.length - 1) |-> image[k.addr + o]] ELSE <<>>

Issue(k, n) ==
    /\ Len(request) < InDepth
    /\ request' = Append(request, [n |-> n, kind |-> k])
    /\ UNCHANGED <<held, image, response>>

\* What is held once the first taken (0 or 1) requests are, and the effect of these.
HeldWith(taken) ==
    IF taken = 0 THEN held
    ELSE Append(held, [n |-> Head(request).n, served |-> Served(Head(request).kind),
                       data |-> Reading(Head(request).kind)])
ImageWith(taken) ==
    LET k == Head(request).kind
    IN  IF taken = 0 \/ ~k.write \/ ~Served(k) THEN image
        ELSE [a \in 0..(Size - 1) |-> IF a \in Bytes(k) THEN Head(request).n ELSE image[a]]

Answer(h, ok) == [n |-> h.n, ok |-> ok, data |-> IF ok THEN h.data ELSE <<>>]

\* A burst is taken, the oldest one is answered, or both.
Cycle ==
    \E taken \in {0, 1} :
        /\ taken = 1 => request # <<>> /\ Len(held) < Slots
        /\ request' = IF taken = 1 THEN Tail(request) ELSE request
        /\ image' = ImageWith(taken)
        /\ \/ held' = HeldWith(taken) /\ UNCHANGED response
           \/ /\ HeldWith(taken) # <<>> /\ Len(response) < OutDepth
              /\ held' = Tail(HeldWith(taken))
              /\ \E ok \in {FALSE, Head(HeldWith(taken)).served} :
                    response' = Append(response, Answer(Head(HeldWith(taken)), ok))

TakeResponse ==
    /\ response # <<>> /\ response' = Tail(response)
    /\ UNCHANGED <<request, held, image>>

MemoryNext ==
    \/ \E k \in Kinds, n \in Numbers : Issue(k, n)
    \/ Cycle
    \/ TakeResponse

MemorySpec == MemoryInit /\ [][MemoryNext]_memoryVars
============================================================================
