----------------------------- MODULE CreditLoop -----------------------------
(***************************************************************************)
(* What the two CreditManagers at the ends of a link promise about one      *)
(* resource plane and one message kind: where the granules of the           *)
(* receiver's buffer are.  A step is a clock cycle of one end and may do    *)
(* any amount of each operation.                                           *)
(***************************************************************************)
EXTENDS Integers

CONSTANTS
    Capacity,       \* rx_capacity of the receiving end
    CounterMax      \* CREDIT_COUNTER_MAX

\* The largest capacity configured in the code is far below the counter's limit.
ASSUME LoopAssumption == Capacity \in Nat /\ CounterMax \in Nat /\ Capacity <= CounterMax

VARIABLES
    tx,         \* the sender's tx_available
    granted,    \* grants on their way to the sender
    held,       \* granules the sender has used: on the wire or in the receiver's buffer
    freed,      \* freed by the receiver's user, not yet seen by its CreditManager
    pend        \* the receiver's rx_pending_return
vars == <<tx, granted, held, freed, pend>>

AtMost(limit, n) == IF n <= limit THEN n ELSE limit

\* publish_initial_capacity on one side, nothing granted on the other.
Init == tx = 0 /\ granted = 0 /\ held = 0 /\ freed = 0 /\ pend = Capacity

\* add_tx_credit of a granules, then consume of u.
SenderCycle(a, u) ==
    /\ u <= AtMost(CounterMax, tx + a)
    /\ tx' = AtMost(CounterMax, tx + a) - u
    /\ granted' = granted - a
    /\ held' = held + u
    /\ UNCHANGED <<freed, pend>>

\* Fault: a receiver that publishes its capacity again with every return.
RepublishingReceiver(n, r, g) ==
    /\ g <= AtMost(Capacity, pend + r)
    /\ held' = held - n
    /\ freed' = freed + n - r
    /\ pend' = IF r > 0 THEN Capacity ELSE pend - g
    /\ granted' = granted + g
    /\ tx' = tx

\* n granules are freed, return_rx_credit of r, then a grant of g.
ReceiverCycle(n, r, g) ==
    /\ g <= AtMost(Capacity, pend + r)
    /\ held' = held - n
    /\ freed' = freed + n - r
    /\ pend' = AtMost(Capacity, pend + r) - g
    /\ granted' = granted + g
    /\ tx' = tx

Next ==
    \/ \E a \in 0..granted : \E u \in 0..(tx + a) : SenderCycle(a, u)
    \/ \E n \in 0..held : \E r \in 0..(freed + n) : \E g \in 0..(pend + r) : ReceiverCycle(n, r, g)

Spec == Init /\ [][Next]_vars

-----------------------------------------------------------------------------
\* Every quantity is a number of granules.
TypeOK == tx \in Nat /\ granted \in Nat /\ held \in Nat /\ freed \in Nat /\ pend \in Nat

\* Every granule of the receiver's buffer is in exactly one place: no credit is lost, which
\* would stall the sender, and none is made up, which would overrun the buffer.
Conserved == tx + granted + held + freed + pend = Capacity

\* What has been sent and not yet freed fits the receiver's buffer, whatever is in flight.
NoOverrun == held + freed <= Capacity

\* The sender has the whole buffer at its disposal.
Settled == tx = Capacity

LoopInv == TypeOK /\ Conserved
============================================================================
