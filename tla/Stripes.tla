------------------------------ MODULE Stripes ------------------------------
(***************************************************************************)
(* Occupancy of the dual-core STM32 port (stm32/src/                       *)
(* turmite_stm32_shared.c): a hardware semaphore guards a stripe of many   *)
(* cells, a core holds it around the load and the store of a byte, and     *)
(* diagnostic loads take none.  The semaphores tell cores apart and not    *)
(* tasks, so there is one caller per core.  claim, replace and release     *)
(* differ only in the byte they expect and the byte they put in its place. *)
(***************************************************************************)
CONSTANTS Cores, Cells,
          Owners,       \* ants, as the values of a byte
          Empty,        \* TURMITE_OCCUPANCY_EMPTY
          StripeOf(_)   \* stripe_for_cell

Ids == Owners \cup {Empty}
Stripes == {StripeOf(x) : x \in Cells}
Nobody == CHOOSE n : n \notin Cores

VARIABLES bytes, holder,
          pc, request,   \* what a core is doing, for which call
          seen           \* the resident it found

vars == <<bytes, holder, pc, request, seen>>

(* claim and replace refuse an empty new owner, release an empty old one.  *)
Swaps == {r \in [cell : Cells, kind : {"swap"}, expected : Ids, new : Ids] :
            r.new # Empty \/ r.expected # Empty}
Loads == [cell : Cells, kind : {"load"}, expected : {Empty}, new : {Empty}]
Requests == Swaps \cup Loads

Stripe(c) == StripeOf(request[c].cell)
Goto(c, label) == pc' = [pc EXCEPT ![c] = label]

Init ==
    /\ bytes = [x \in Cells |-> Empty] /\ holder = [s \in Stripes |-> Nobody]
    /\ pc = [c \in Cores |-> "idle"]
    /\ request \in [Cores -> Requests] /\ seen = [c \in Cores |-> Empty]

Call(c) ==
    /\ pc[c] = "idle"
    /\ \E r \in Requests :
         /\ request' = [request EXCEPT ![c] = r]
         /\ Goto(c, IF r.kind = "swap" THEN "lock" ELSE "load")
    /\ UNCHANGED <<bytes, holder, seen>>

(* stripe_lock: a taken semaphore is tried again after a yield.            *)
Lock(c) ==
    /\ pc[c] = "lock" /\ holder[Stripe(c)] = Nobody
    /\ holder' = [holder EXCEPT ![Stripe(c)] = c]
    /\ Goto(c, "find")
    /\ UNCHANGED <<bytes, request, seen>>

Find(c) ==
    /\ pc[c] = "find" /\ seen' = [seen EXCEPT ![c] = bytes[request[c].cell]]
    /\ Goto(c, "put")
    /\ UNCHANGED <<bytes, holder, request>>

Put(c) ==
    /\ pc[c] = "put"
    /\ bytes' = IF seen[c] = request[c].expected
                THEN [bytes EXCEPT ![request[c].cell] = request[c].new] ELSE bytes
    /\ Goto(c, "unlock")
    /\ UNCHANGED <<holder, request, seen>>

Unlock(c) ==
    /\ pc[c] = "unlock" /\ holder' = [holder EXCEPT ![Stripe(c)] = Nobody]
    /\ Goto(c, "done")
    /\ UNCHANGED <<bytes, request, seen>>

(* turmite_stm32_occupancy_load *)
Load(c) ==
    /\ pc[c] = "load" /\ seen' = [seen EXCEPT ![c] = bytes[request[c].cell]]
    /\ Goto(c, "done")
    /\ UNCHANGED <<bytes, holder, request>>

Return(c) ==
    /\ pc[c] = "done" /\ Goto(c, "idle")
    /\ UNCHANGED <<bytes, holder, request, seen>>

Next == \E c \in Cores : Call(c) \/ Lock(c) \/ Find(c) \/ Put(c) \/ Unlock(c) \/ Load(c) \/ Return(c)
Spec == Init /\ [][Next]_vars

-----------------------------------------------------------------------------
StripesTypeOK ==
    /\ bytes \in [Cells -> Ids] /\ holder \in [Stripes -> Cores \cup {Nobody}]
    /\ pc \in [Cores -> {"idle", "lock", "find", "put", "unlock", "load", "done"}]
    /\ request \in [Cores -> Requests] /\ seen \in [Cores -> Ids]

(* Only swaps reach for the semaphore, loads go past it.                   *)
ByKind == \A c \in Cores :
    /\ pc[c] \in {"lock", "find", "put", "unlock"} => request[c].kind = "swap"
    /\ pc[c] = "load" => request[c].kind = "load"

(* A core between lock and unlock holds the semaphore of its cell, however *)
(* cells share semaphores.                                                 *)
Holding == \A c \in Cores : pc[c] \in {"find", "put", "unlock"} => holder[Stripe(c)] = c

(* What a core found is still there when it decides to swap.               *)
StillThere == \A c \in Cores : pc[c] = "put" => seen[c] = bytes[request[c].cell]

(* The bytes are atomic: every call takes effect at its Put or its Load.   *)
Answered(c) == pc[c] \in {"unlock", "done"}
Atomic == INSTANCE AtomicBytes WITH
    phase <- [c \in Cores |-> IF pc[c] = "idle" THEN "idle"
                              ELSE IF Answered(c) THEN "answered" ELSE "asked"],
    reply <- [c \in Cores |-> IF Answered(c) THEN seen[c] ELSE Empty]
AtomicSpec == Atomic!Spec

=============================================================================
