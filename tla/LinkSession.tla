---------------------------- MODULE LinkSession ----------------------------
(***************************************************************************)
(* The stand-alone program around UcieLink (ucie_systemc_main.cpp): the    *)
(* processes FdiSource, MemoryResponder, FdiSink and Watchdog, and         *)
(* UcieLink::status_thread, which reports the state of the link.  Each     *)
(* direction of the link is the FIFO that UcieLink is shown to implement.  *)
(*                                                                         *)
(* The kernel's delta cycle is kept, since "Failed is observable before    *)
(* the testbench stops" depends on it: ready holds the processes that run  *)
(* in this delta cycle, in any order; when it is empty the written signal  *)
(* takes effect, and either the kernel stops, or the notified processes    *)
(* run next, or time moves on to an instant at which any of the waiting    *)
(* processes may be due.                                                   *)
(***************************************************************************)
EXTENDS Naturals, Sequences

CONSTANTS
    Items,      \* workload_.size()
    Depth       \* flits one direction of the link and its FIFOs hold

SessionAssumption == Items \in Nat \ {0} /\ Depth \in Nat \ {0}

VARIABLES
    sent, fwd,                       \* FdiSource; the forward direction
    pending, next_request,           \* MemoryResponder
    rev, next_response, errors,      \* the reverse direction; FdiSink; integrity_errors
    impaired,                        \* cdr_lock_loss_count or deskew_failures is not zero
    link_state, written,             \* the signal and the value written to it
    status, watchdog,                \* where the two threads wait
    fired, failed, stop,             \* stats.watchdog_fired, failed_, sc_stop was called
    ready, notified, halted          \* the kernel

trafficVars == <<sent, fwd, pending, next_request, rev, next_response, errors>>
statusVars == <<link_state, written, status>>
watchdogVars == <<watchdog, fired, failed>>
kernelVars == <<ready, notified, halted>>
sessionVars == <<trafficVars, impaired, statusVars, watchdogVars, stop, kernelVars>>

Processes == {"source", "ingress", "egress", "sink", "status", "watchdog"}

SessionInit ==
    /\ sent = 0 /\ fwd = <<>> /\ pending = <<>> /\ next_request = 0
    /\ rev = <<>> /\ next_response = 0 /\ errors = 0
    /\ impaired = FALSE
    /\ link_state = "Reset" /\ written = "Training"
    /\ status = "training" /\ watchdog = "armed"
    /\ fired = FALSE /\ failed = FALSE /\ stop = FALSE
    /\ ready = {} /\ notified = {} /\ halted = FALSE

Running(p) == p \in ready /\ ready' = ready \ {p}

\* FdiSource::run after training: one item, when the FIFO has room.
FdiSource ==
    /\ Running("source")
    /\ sent' = sent + 1 /\ fwd' = Append(fwd, sent)
    /\ UNCHANGED <<pending, next_request, rev, next_response, errors, impaired, statusVars,
                   watchdogVars, stop, notified, halted>>

\* MemoryResponder::ingress checks the request against the workload and echoes it.
Ingress ==
    /\ Running("ingress")
    /\ fwd' = Tail(fwd)
    /\ errors' = IF Head(fwd) = next_request /\ next_request < Items THEN errors ELSE errors + 1
    /\ next_request' = next_request + 1
    /\ pending' = Append(pending, Head(fwd))
    /\ UNCHANGED <<sent, rev, next_response, impaired, statusVars, watchdogVars, stop,
                   notified, halted>>

Egress ==
    /\ Running("egress")
    /\ pending' = Tail(pending) /\ rev' = Append(rev, Head(pending))
    /\ UNCHANGED <<sent, fwd, next_request, next_response, errors, impaired, statusVars,
                   watchdogVars, stop, notified, halted>>

\* FdiSink::run stops the kernel with the last response.
FdiSink ==
    /\ Running("sink")
    /\ rev' = Tail(rev)
    /\ errors' = IF Head(rev) = next_response /\ next_response < Items THEN errors ELSE errors + 1
    /\ next_response' = next_response + 1
    /\ stop' = (stop \/ next_response + 1 >= Items)
    /\ UNCHANGED <<sent, fwd, pending, next_request, impaired, statusVars, watchdogVars,
                   notified, halted>>

\* UcieLink::fail: the flag, and a delta notification of the status thread.
NoNotify == {}                    \* fault: the flag is set and nobody is woken
Fail == IF status \in {"training", "active"} THEN {"status"} ELSE {}

\* Watchdog::run when max_time_ui is over, and one delta cycle later.
WatchdogFires ==
    /\ Running("watchdog") /\ watchdog = "armed"
    /\ fired' = TRUE /\ failed' = TRUE
    /\ notified' = notified \cup Fail \cup {"watchdog"}
    /\ watchdog' = "stopping"
    /\ UNCHANGED <<trafficVars, impaired, statusVars, stop, halted>>

WatchdogStops ==
    /\ Running("watchdog") /\ watchdog = "stopping"
    /\ stop' = TRUE /\ watchdog' = "done"
    /\ UNCHANGED <<trafficVars, impaired, statusVars, fired, failed, notified, halted>>

\* status_thread after the wait for training, and after each wait for one flit time.
StatusThread ==
    /\ Running("status")
    /\ \/ /\ failed \/ (status = "active" /\ fired)
          /\ written' = "Failed" /\ status' = "done"
       \/ /\ status = "training" /\ ~failed
          /\ written' = "Active" /\ status' = "active"
       \/ /\ status = "active" /\ ~failed /\ ~fired
          /\ written' = IF impaired THEN "Degraded" ELSE written
          /\ status' = "active"
    /\ UNCHANGED <<trafficVars, impaired, link_state, watchdogVars, stop, notified, halted>>

\* What may be due at the next instant: timed waits, and FIFOs that can move.
Due ==
    {p \in Processes :
        \/ p = "source" /\ status # "training" /\ sent < Items /\ Len(fwd) < Depth
        \/ p = "ingress" /\ fwd # <<>>
        \/ p = "egress" /\ pending # <<>> /\ Len(rev) < Depth
        \/ p = "sink" /\ rev # <<>> /\ next_response < Items
        \/ p = "status" /\ status \in {"training", "active"}
        \/ p = "watchdog" /\ watchdog = "armed"}

\* The end of a delta cycle: signals are updated, then a stop takes effect.
DeltaCycle ==
    /\ ready = {} /\ ~halted
    /\ link_state' = written
    /\ \/ /\ stop
          /\ halted' = TRUE /\ UNCHANGED <<ready, notified, impaired>>
       \/ /\ ~stop /\ notified # {}
          /\ ready' = notified /\ notified' = {}
          /\ UNCHANGED <<halted, impaired>>
       \/ /\ ~stop /\ notified = {}
          /\ ready' \in SUBSET Due \ {{}}
          /\ impaired' \in {impaired, TRUE}
          /\ UNCHANGED <<halted, notified>>
    /\ UNCHANGED <<trafficVars, written, status, watchdogVars, stop>>

Halted == halted /\ UNCHANGED sessionVars

SessionNext ==
    \/ FdiSource \/ Ingress \/ Egress \/ FdiSink
    \/ WatchdogFires \/ WatchdogStops \/ StatusThread
    \/ DeltaCycle \/ Halted

SessionSpec == SessionInit /\ [][SessionNext]_sessionVars

-----------------------------------------------------------------------------
\* A run that ends before every response came back ends with a visible Failed, however the
\* watchdog, the end of training and the status thread fall into one instant; and a run that
\* reports Failed was ended by the watchdog, not by the sink.
FailedObservable ==
    halted => /\ next_response < Items => link_state = "Failed"
              /\ link_state = "Failed" => fired

\* Echoes come back once each, in the order of the workload: FdiSink and MemoryResponder, which
\* compare with the next item only, count no integrity error.
EchoesMatch == errors = 0 /\ next_response + Len(rev) + Len(pending) = next_request

\* The end of the program shows Failed exactly when the watchdog cut it short (status_thread,
\* Watchdog::run and FdiSink::run meeting in one delta cycle), and echoes match the workload.
SessionEndsHonestly == FailedObservable /\ EchoesMatch
============================================================================
