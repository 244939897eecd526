----------------------------- MODULE LineStore -----------------------------
(***************************************************************************)
(* What mem_sim's memory image asks of a file-backed MemoryBackend            *)
(* (src/mem_sim/include/hbm_sim/core/memory_backend.hpp): a map from lines to  *)
(* their content that outlives the process.                                  *)
(*                                                                         *)
(* mem is what load() answers.  may[l] is what a new process may find for     *)
(* line l if this one were killed now: what the last flush left and what was  *)
(* stored since.  The payload and the metadata of a line are files of their   *)
(* own, so a kill may pair one store's payload with another's metadata, and   *)
(* may leave a line that is present and blank.                              *)
(***************************************************************************)
EXTENDS Naturals

CONSTANTS Lines, Payloads, Versions, Zero, Absent

\* What the constants must be.
LineStoreAssumption == Zero \notin Payloads /\ 0 \in Versions

VARIABLES mem, may
vars == <<mem, may>>

Content == [data: Payloads \cup {Zero}, version: Versions]
Blank == [data |-> Zero, version |-> 0]

Init ==
    /\ mem = [l \in Lines |-> Absent]
    /\ may = [l \in Lines |-> {Absent}]

\* Every pairing of a payload and metadata that a kill may leave of line l once v is on its way.
Mixed(m, v) ==
    LET found == {IF x = Absent THEN Blank ELSE x : x \in m} \cup {v}
    IN  {[data |-> x.data, version |-> y.version] : x \in found, y \in found}

Store(l, v) ==
    /\ mem' = [mem EXCEPT ![l] = v]
    /\ may' = [may EXCEPT ![l] = Mixed(@, v)]
Flush ==
    /\ may' = [l \in Lines |-> {mem[l]}]
    /\ UNCHANGED mem
Clear ==
    /\ mem' = [l \in Lines |-> Absent]
    /\ may' = [l \in Lines |-> {Absent}]
\* The process dies; the next one takes what it finds.
Kill ==
    /\ mem' \in [Lines -> Content \cup {Absent}]
    /\ \A l \in Lines : mem'[l] \in may[l]
    /\ UNCHANGED may
\* It dies while v is being stored.
KillInStore(l, v) ==
    /\ may' = [may EXCEPT ![l] = @ \cup Mixed(@, v)]
    /\ mem' \in [Lines -> Content \cup {Absent}]
    /\ \A k \in Lines : mem'[k] \in may'[k]

Next == (\E l \in Lines, v \in Content : Store(l, v) \/ KillInStore(l, v)) \/ Flush \/ Clear \/ Kill
Spec == Init /\ [][Next]_vars
=============================================================================
