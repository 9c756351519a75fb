---------------------------- MODULE AtomicBytes ----------------------------
(***************************************************************************)
(* What shared occupancy bytes promise (turmite_stm32_shared.h): a call    *)
(* that changes a byte compares and swaps it in one step, somewhere        *)
(* between the moment it is asked for and the moment it returns, and       *)
(* replies with the resident it found.                                     *)
(***************************************************************************)
CONSTANTS Cores, Cells, Empty,
          Requests  \* records of cell, kind, expected, new

VARIABLES bytes, phase, request, reply

vars == <<bytes, phase, request, reply>>

Init ==
    /\ bytes = [x \in Cells |-> Empty]
    /\ phase = [c \in Cores |-> "idle"]
    /\ request \in [Cores -> Requests]
    /\ reply = [c \in Cores |-> Empty]

Ask(c) ==
    /\ phase[c] = "idle" /\ phase' = [phase EXCEPT ![c] = "asked"]
    /\ \E r \in Requests : request' = [request EXCEPT ![c] = r]
    /\ UNCHANGED <<bytes, reply>>

Do(c) ==
    LET r == request[c] IN
    /\ phase[c] = "asked" /\ phase' = [phase EXCEPT ![c] = "answered"]
    /\ reply' = [reply EXCEPT ![c] = bytes[r.cell]]
    /\ bytes' = IF r.kind = "swap" /\ bytes[r.cell] = r.expected
                THEN [bytes EXCEPT ![r.cell] = r.new] ELSE bytes
    /\ UNCHANGED request

Return(c) ==
    /\ phase[c] = "answered" /\ phase' = [phase EXCEPT ![c] = "idle"]
    /\ reply' = [reply EXCEPT ![c] = Empty]
    /\ UNCHANGED <<bytes, request>>

Next == \E c \in Cores : Ask(c) \/ Do(c) \/ Return(c)
Spec == Init /\ [][Next]_vars

=============================================================================
