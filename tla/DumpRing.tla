------------------------------ MODULE DumpRing ------------------------------
(***************************************************************************)
(* The rolling debug capture of a universe (dump.c): its controller copies *)
(* the live tape, cell by cell, into a ring of pages while the workers go  *)
(* on writing, and exports the ring oldest page first.                     *)
(*                                                                         *)
(* A page is its tape and its changed_cells; the other metadata of a slot  *)
(* are written with them.  The clock is abstract: the capture is due or    *)
(* not.  The controller's use of the operations is that of run_universe.   *)
(***************************************************************************)
EXTENDS Integers, Sequences, FiniteSets

CONSTANTS CellCount,     \* cells of the tape
          Colors,        \* color indices, 0 is the background
          PageCapacity   \* pages of the ring

(* dump_pages_value_valid admits 1, 3, 7, ..., 1023.                       *)
PageValues == {p \in 1..1023 : \E k \in 1..10 : p + 1 = 2^k}
ASSUME RingAssumption ==
    CellCount \in Nat \ {0} /\ 0 \in Colors /\ PageCapacity \in PageValues

Cells == 0 .. CellCount - 1
Slots == 0 .. PageCapacity - 1
Tapes == [Cells -> Colors]
Difference(a, b) == Cardinality({c \in Cells : a[c] # b[c]})

VARIABLES
    tape,        \* world->data
    page,        \* world_pages, one tape per slot
    changed,     \* page_meta[].changed_cells
    count, next, \* page_count, next_page
    due,         \* now >= next_capture_at
    scan,        \* the next cell of the capture, or CellCount when none runs
    phase,       \* run_universe: start, running, suspended, captured, exported
    debug,       \* debug_dump
    latest,      \* history: the last tape captured in this life, if any
    output       \* pages written by dump_write

ring == <<page, changed, count, next>>
vars == <<tape, ring, due, scan, phase, debug, latest, output>>

Init ==
    /\ tape \in Tapes /\ page = [s \in Slots |-> [c \in Cells |-> 0]] /\ changed = [s \in Slots |-> 0]
    /\ count = 0 /\ next = 0 /\ due = TRUE /\ scan = CellCount
    /\ phase = "start" /\ debug = FALSE /\ latest = <<>> /\ output = <<>>

-----------------------------------------------------------------------------
(* The slot before s in the ring.  The faulty variant does not wrap.       *)
PreviousUnwrapped(s) == IF s = 0 THEN 0 ELSE s - 1
Previous(s) == (s + PageCapacity - 1) % PageCapacity

(* chronological_slot.  The faulty variant is right until the ring wraps.  *)
FromZero(ordinal) == ordinal % PageCapacity
Chronological(ordinal) == ((IF count = PageCapacity THEN next ELSE 0) + ordinal) % PageCapacity

(* One page more, up to the capacity.                                      *)
Counted == IF count < PageCapacity THEN count + 1 ELSE count

(* dump_capture_now at the start of a life and after suspension, and       *)
(* dump_capture_maybe at every turn of the control loop.                   *)
Begin ==
    /\ scan = CellCount /\ scan' = 0
    /\ \/ phase = "start" /\ phase' = "running"
       \/ phase = "running" /\ due /\ UNCHANGED phase
       \/ phase = "suspended" /\ debug /\ phase' = "captured"
    /\ UNCHANGED <<tape, ring, due, debug, latest, output>>

CopyCell ==
    /\ scan < CellCount - 1
    /\ page' = [page EXCEPT ![next][scan] = tape[scan]]
    /\ scan' = scan + 1
    /\ UNCHANGED <<tape, changed, count, next, due, phase, debug, latest, output>>

(* The last cell, then the comparison with the previous slot as it is now. *)
Finish ==
    LET copy == [page[next] EXCEPT ![scan] = tape[scan]]
        pages == [page EXCEPT ![next] = copy] IN
    /\ scan = CellCount - 1 /\ scan' = CellCount
    /\ page' = pages
    /\ changed' = [changed EXCEPT ![next] = IF count = 0 THEN 0 ELSE Difference(copy, pages[Previous(next)])]
    /\ next' = (next + 1) % PageCapacity
    /\ count' = Counted
    /\ due' = FALSE
    /\ latest' = <<copy>>
    /\ UNCHANGED <<tape, phase, debug, output>>

(* dump_write, by which time no lease is out.                              *)
Export ==
    /\ phase = "captured" /\ scan = CellCount /\ phase' = "exported"
    /\ output' = [k \in 1..count |-> page[Chronological(k - 1)]]
    /\ UNCHANGED <<tape, ring, due, scan, debug, latest>>

-----------------------------------------------------------------------------
(* The rest of the universe, as far as the capture can tell.               *)

(* A worker stores a cell while the universe is in the pool.               *)
Write ==
    /\ phase \in {"start", "running"}
    /\ \E c \in Cells, v \in Colors : tape' = [tape EXCEPT ![c] = v]
    /\ UNCHANGED <<ring, due, scan, phase, debug, latest, output>>

Tick ==
    /\ ~due /\ due' = TRUE
    /\ UNCHANGED <<tape, ring, scan, phase, debug, latest, output>>

(* The control loop ends: a debug quit, a restart or a plain quit.         *)
Stop ==
    /\ phase = "running" /\ scan = CellCount /\ phase' = "suspended"
    /\ debug' \in BOOLEAN
    /\ UNCHANGED <<tape, ring, due, scan, latest, output>>

(* A restart reseeds the tape and then resets the capture.  The faulty     *)
(* variant forgets to reset the page count.                                *)
CountKept == count
CountReset == 0

Restart ==
    /\ phase = "suspended" /\ ~debug /\ scan = CellCount /\ phase' = "start"
    /\ tape' \in Tapes
    /\ count' = CountReset /\ next' = 0 /\ due' = TRUE /\ latest' = <<>>
    /\ UNCHANGED <<page, changed, scan, debug, output>>

Over == phase = "exported" /\ UNCHANGED vars

-----------------------------------------------------------------------------
Next == Begin \/ CopyCell \/ Finish \/ Export \/ Write \/ Tick \/ Stop \/ Restart \/ Over

Spec == Init /\ [][Next]_vars

-----------------------------------------------------------------------------
(* The exported last page, which becomes universe.png, is the final tape,  *)
(* and the export holds the whole window.                                  *)
FinalPageIsFinal ==
    phase = "exported" => output # <<>> /\ Len(output) = count /\ output[Len(output)] = tape

(* The ring, read in chronological order, is the abstract window: a page   *)
(* being copied is not in it, and it evicts the oldest one of a full ring. *)
(* Not so in a ring of one page, whose page is overwritten before it is    *)
(* compared (a limitation that docs/DEBUGGING.md names).                   *)
Evicted == IF scan < CellCount /\ count = PageCapacity THEN 1 ELSE 0
Page(ordinal) == [tape |-> page[Chronological(ordinal)], changed |-> changed[Chronological(ordinal)]]
Window == INSTANCE PageWindow WITH
    window <- [k \in 1 .. count - Evicted |-> Page(k - 1 + Evicted)],
    latest <- latest
WindowSpec == Window!Spec

=============================================================================
