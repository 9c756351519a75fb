--------------------------- MODULE DumpRingProofs ---------------------------
(***************************************************************************)
(* What the run of DumpRing checks on three pages of two cells, proved for *)
(* every tape, every palette and every capacity the program accepts.       *)
(***************************************************************************)
EXTENDS DumpRing, FiniteSetTheorems, SequenceTheorems, TLAPS

(* The slot of a page, by its place in a ring of n pages that ends at x.   *)
SlotOf(n, x, ordinal) == ((IF n = PageCapacity THEN x ELSE 0) + ordinal) % PageCapacity

RingTypeOK ==
    /\ tape \in Tapes /\ page \in [Slots -> Tapes] /\ changed \in [Slots -> Nat]
    /\ count \in 0..PageCapacity /\ next \in Slots
    /\ scan \in 0..CellCount
    /\ phase \in {"start", "running", "suspended", "captured", "exported"}

(* Until the ring is full its pages lie at its beginning.  A scan runs     *)
(* only in the loop and in the last capture, and what was captured last    *)
(* lies before the slot that is written next, while there is another one.  *)
RingInv ==
    /\ count < PageCapacity => next = count
    /\ scan < CellCount => phase \in {"running", "captured"}
    /\ count = 0 => latest = <<>>
    /\ count > 0 /\ (PageCapacity > 1 \/ scan = CellCount) => latest = <<page[Previous(next)]>>

(* The last capture runs at rest: what it has copied is the final tape.    *)
LastInv ==
    /\ phase = "captured" /\ scan < CellCount => \A c \in Cells : c < scan => page[next][c] = tape[c]
    /\ phase = "captured" /\ scan = CellCount => count > 0 /\ page[Previous(next)] = tape
    /\ FinalPageIsFinal

CaptureInv == RingTypeOK /\ RingInv /\ LastInv

-----------------------------------------------------------------------------
(* The ring.                                                               *)

(* A ring has at least one page, and a tape at least one cell.             *)
LEMMA RingSizes ==
    /\ PageCapacity \in Nat \ {0} /\ CellCount \in Nat \ {0}
    /\ Slots = 0 .. PageCapacity - 1 /\ Cells = 0 .. CellCount - 1
    BY RingAssumption DEF PageValues, Slots, Cells

(* A distance of at most one turn wraps at most once.                      *)
LEMMA WrapsOnce ==
    ASSUME NEW x \in 0..(2 * PageCapacity - 1)
    PROVE  /\ x % PageCapacity = IF x < PageCapacity THEN x ELSE x - PageCapacity
           /\ x % PageCapacity \in Slots
    <1>1. PageCapacity \in Nat \ {0}
        BY RingSizes
    <1>2. x < PageCapacity => x % PageCapacity = x
        BY <1>1
    <1>3. x >= PageCapacity => x % PageCapacity = x - PageCapacity
        BY <1>1
    <1>4. QED
        BY <1>1, <1>2, <1>3 DEF Slots

(* The previous slot is one of the ring, the one from which the next one   *)
(* is reached, and another one unless the ring has a single page.          *)
LEMMA PreviousSlot ==
    ASSUME NEW s \in Slots
    PROVE  /\ Previous(s) \in Slots /\ (s + 1) % PageCapacity \in Slots
           /\ Previous((s + 1) % PageCapacity) = s
           /\ PageCapacity > 1 => Previous(s) # s
           /\ Previous(s) = IF s = 0 THEN PageCapacity - 1 ELSE s - 1
    <1> DEFINE N == PageCapacity
    <1>1. N \in Nat \ {0} /\ s \in 0..(N - 1)
        BY RingSizes
    <1>2. Previous(s) = (IF s = 0 THEN N - 1 ELSE s - 1) /\ Previous(s) \in Slots
        <2>1. PICK x \in 0..(2 * N - 1) : x = s + N - 1
            BY <1>1
        <2>2. QED
            BY <1>1, <2>1, WrapsOnce DEF Previous
    <1>3. PICK t \in Slots : t = (s + 1) % N /\ t = IF s + 1 < N THEN s + 1 ELSE s + 1 - N
        BY <1>1, WrapsOnce
    <1>4. Previous(t) = s
        <2>1. PICK x \in 0..(2 * N - 1) : x = t + N - 1
            BY <1>1, <1>3, RingSizes
        <2>2. x % N = IF x < N THEN x ELSE x - N
            BY <2>1, WrapsOnce
        <2>3. Previous(t) = x % N
            BY <2>1 DEF Previous
        <2>4. QED
            BY <1>1, <1>3, <2>1, <2>2, <2>3
    <1>5. QED
        BY <1>1, <1>2, <1>3, <1>4

(* The newest page of a ring lies before the slot that is written next.    *)
LEMMA NewestSlot ==
    ASSUME NEW n \in 1..PageCapacity, NEW x \in Slots, n < PageCapacity => x = n
    PROVE  SlotOf(n, x, n - 1) = Previous(x)
    <1> DEFINE N == PageCapacity
    <1>1. N \in Nat \ {0} /\ x \in 0..(N - 1)
        BY RingSizes
    <1>2. Previous(x) = IF x = 0 THEN N - 1 ELSE x - 1
        BY PreviousSlot
    <1>3. CASE n = N
        <2>1. PICK y \in 0..(2 * N - 1) : y = x + (n - 1)
            BY <1>1, <1>3
        <2>2. y % N = IF y < N THEN y ELSE y - N
            BY WrapsOnce
        <2>3. SlotOf(n, x, n - 1) = y % N
            BY <1>3, <2>1 DEF SlotOf
        <2>4. QED
            BY <1>1, <1>2, <1>3, <2>1, <2>2, <2>3
    <1>4. CASE n # N
        <2>1. PICK y \in 0..(2 * N - 1) : y = 0 + (n - 1) /\ y < N /\ y = x - 1
            BY <1>1, <1>4
        <2>2. y % N = y
            BY <2>1, WrapsOnce
        <2>3. SlotOf(n, x, n - 1) = y % N
            BY <1>4, <2>1 DEF SlotOf
        <2>4. QED
            BY <1>1, <1>2, <1>4, <2>1, <2>2, <2>3
    <1>5. QED
        BY <1>3, <1>4

(* The cells in which two tapes differ are finitely many.                  *)
LEMMA DifferenceIsNat ==
    ASSUME NEW a, NEW b
    PROVE  Difference(a, b) \in Nat
    <1>1. IsFiniteSet(Cells)
        BY RingSizes, FS_Interval
    <1>2. IsFiniteSet({c \in Cells : a[c] # b[c]})
        BY <1>1, FS_Subset
    <1>3. QED
        BY <1>2, FS_CardinalityType DEF Difference

-----------------------------------------------------------------------------
(* The invariant.                                                          *)

(* The first state. *)
LEMMA CaptureInit == Init => CaptureInv
    <1> SUFFICES ASSUME Init PROVE CaptureInv
        OBVIOUS
    <1>1. RingTypeOK
        <2>1. 0 \in Slots /\ 0 \in Colors /\ CellCount \in 0..CellCount /\ 0 \in 0..PageCapacity
            BY RingSizes, RingAssumption DEF Slots
        <2>2. [c \in Cells |-> 0] \in Tapes
            BY <2>1 DEF Tapes
        <2>3. page \in [Slots -> Tapes] /\ changed \in [Slots -> Nat]
            BY <2>2 DEF Init
        <2>4. QED
            BY <2>1, <2>3 DEF Init, RingTypeOK
    <1>2. RingInv /\ LastInv
        BY RingSizes DEF Init, RingInv, LastInv, FinalPageIsFinal
    <1>3. QED
        BY <1>1, <1>2 DEF CaptureInv

(* A capture copies one cell more. *)
LEMMA CopyCellStep ==
    ASSUME CaptureInv, CopyCell
    PROVE  CaptureInv'
    <1> USE DEF CopyCell, RingTypeOK
    <1>1. RingTypeOK /\ RingInv /\ LastInv
        BY DEF CaptureInv
    <1>2. scan \in Cells /\ scan + 1 < CellCount /\ scan + 1 \in 0..CellCount
        BY <1>1, RingSizes
    <1>3. /\ page' \in [Slots -> Tapes]
          /\ \A s \in Slots : s # next => page'[s] = page[s]
          /\ \A c \in Cells : page'[next][c] = IF c = scan THEN tape[c] ELSE page[next][c]
        BY <1>1, <1>2 DEF Tapes
    <1>4. RingTypeOK'
        BY <1>1, <1>2, <1>3
    <1>5. RingInv'
        <2>1. Previous(next) \in Slots /\ (PageCapacity > 1 => Previous(next) # next)
            BY <1>1, PreviousSlot
        <2>2. PageCapacity > 1 => page'[Previous(next)] = page[Previous(next)]
            BY <1>3, <2>1
        <2>3. scan' # CellCount /\ UNCHANGED <<count, next, phase, latest>>
            BY <1>1, <1>2, RingSizes
        <2>4. scan < CellCount
            BY <1>1, <1>2, RingSizes
        <2>5. QED
            BY <1>1, <2>2, <2>3, <2>4 DEF RingInv, Previous
    <1>6. LastInv'
        <2>1. ASSUME phase = "captured", NEW c \in Cells, c < scan + 1 PROVE page'[next][c] = tape[c]
            <3>1. c = scan \/ c < scan
                BY <1>1, <2>1, RingSizes
            <3>2. QED
                BY <1>1, <1>2, <1>3, <2>1, <3>1, RingSizes DEF LastInv
        <2>2. phase # "exported"
            BY <1>1, <1>2, RingSizes DEF RingInv
        <2>3. QED
            BY <1>1, <1>2, <2>1, <2>2 DEF LastInv, FinalPageIsFinal
    <1>7. QED
        BY <1>4, <1>5, <1>6 DEF CaptureInv

(* What the end of a capture writes, and where. *)
Copy == [page[next] EXCEPT ![scan] = tape[scan]]

(* The effect of the last cell on each part of the ring. *)
LEMMA Finished ==
    ASSUME RingTypeOK, Finish
    PROVE  /\ Copy \in Tapes /\ latest' = <<Copy>> /\ scan = CellCount - 1 /\ scan' = CellCount
           /\ page' \in [Slots -> Tapes] /\ page'[next] = Copy
           /\ \A s \in Slots : s # next => page'[s] = page[s] /\ changed'[s] = changed[s]
           /\ changed' \in [Slots -> Nat]
           /\ changed'[next] = IF count = 0 THEN 0 ELSE Difference(Copy, page'[Previous(next)])
           /\ next' = (next + 1) % PageCapacity /\ next' \in Slots /\ Previous(next') = next
           /\ count' = Counted /\ count' \in 1..PageCapacity
           /\ (count' < PageCapacity => count < PageCapacity)
           /\ UNCHANGED <<tape, phase, debug, output>>
    <1> USE DEF RingTypeOK
    <1>1. scan \in Cells /\ next \in Slots
        BY RingSizes DEF Finish
    <1>2. Copy \in Tapes
        BY <1>1 DEF Copy, Tapes
    <1>3. /\ page' = [page EXCEPT ![next] = Copy] /\ latest' = <<Copy>>
          /\ changed' = [changed EXCEPT ![next] = IF count = 0 THEN 0 ELSE Difference(Copy, page'[Previous(next)])]
        BY DEF Finish, Copy
    <1>4. Difference(Copy, page'[Previous(next)]) \in Nat
        BY DifferenceIsNat
    <1>5. next' = (next + 1) % PageCapacity /\ next' \in Slots /\ Previous(next') = next
        <2>1. next' = (next + 1) % PageCapacity
            BY DEF Finish
        <2>2. QED
            BY <1>1, <2>1, PreviousSlot DEF Previous
    <1>6. count' = Counted /\ count' \in 1..PageCapacity /\ (count' < PageCapacity => count < PageCapacity)
        BY RingSizes DEF Finish, Counted
    <1>7. /\ page' \in [Slots -> Tapes] /\ page'[next] = Copy
          /\ \A s \in Slots : s # next => page'[s] = page[s]
        BY <1>1, <1>2, <1>3
    <1>8. /\ changed' \in [Slots -> Nat]
          /\ changed'[next] = IF count = 0 THEN 0 ELSE Difference(Copy, page'[Previous(next)])
          /\ \A s \in Slots : s # next => changed'[s] = changed[s]
        BY <1>1, <1>3, <1>4
    <1>9. scan = CellCount - 1 /\ scan' = CellCount /\ UNCHANGED <<tape, phase, debug, output>>
        BY DEF Finish
    <1>10. QED
        BY <1>2, <1>3, <1>5, <1>6, <1>7, <1>8, <1>9

(* A capture ends. *)
LEMMA FinishStep ==
    ASSUME CaptureInv, Finish
    PROVE  CaptureInv'
    <1>1. RingTypeOK /\ RingInv /\ LastInv
        BY DEF CaptureInv
    <1>2. RingTypeOK'
        <2>1. CellCount \in 0..CellCount /\ \A n \in 1..PageCapacity : n \in 0..PageCapacity
            BY RingSizes
        <2>2. QED
            BY <1>1, <2>1, Finished DEF RingTypeOK
    <1>3. RingInv'
        <2>1. count' < PageCapacity => next' = count'
            <3>1. SUFFICES ASSUME count' < PageCapacity PROVE next' = count'
                OBVIOUS
            <3>2. next = count /\ count' = count + 1 /\ next' = (next + 1) % PageCapacity /\ count \in Nat
                BY <1>1, <3>1, Finished, RingSizes DEF RingInv, Counted, RingTypeOK
            <3>3. PICK y \in 0..(2 * PageCapacity - 1) : y = next + 1 /\ y < PageCapacity
                BY <3>1, <3>2, RingSizes
            <3>4. QED
                BY <3>2, <3>3, WrapsOnce
        <2>2. scan' = CellCount /\ count' > 0 /\ latest' = <<page'[Previous(next')]>>
            BY <1>1, Finished, RingSizes
        <2>3. QED
            BY <2>1, <2>2, RingSizes DEF RingInv, Previous
    <1>4. LastInv'
        <2>1. ASSUME phase = "captured" PROVE page'[Previous(next')] = tape
            <3>1. Copy \in Tapes /\ tape \in Tapes /\ scan = CellCount - 1 /\ page[next] \in Tapes
                BY <1>1, Finished DEF RingTypeOK
            <3>2. ASSUME NEW c \in Cells PROVE Copy[c] = tape[c]
                <4>1. c = scan \/ c < scan
                    BY <3>1, RingSizes
                <4>2. QED
                    BY <1>1, <2>1, <3>1, <4>1, RingSizes DEF LastInv, Copy, Tapes
            <3>3. Copy = tape
                BY <3>1, <3>2 DEF Tapes
            <3>4. QED
                BY <1>1, <3>3, Finished
        <2>2. phase # "exported" /\ phase' = phase /\ tape' = tape /\ scan' = CellCount /\ count' > 0
            BY <1>1, Finished, RingSizes DEF RingInv
        <2>3. QED
            BY <2>1, <2>2, RingSizes DEF LastInv, FinalPageIsFinal, Previous
    <1>5. QED
        BY <1>2, <1>3, <1>4 DEF CaptureInv

(* The export ends with the page that was captured last. *)
LEMMA ExportStep ==
    ASSUME CaptureInv, Export
    PROVE  CaptureInv'
    <1>1. RingTypeOK /\ RingInv /\ LastInv
        BY DEF CaptureInv
    <1>2. phase = "captured" /\ scan = CellCount /\ phase' = "exported"
          /\ UNCHANGED <<tape, ring, due, scan, debug, latest>>
          /\ output' = [k \in 1..count |-> page[Chronological(k - 1)]]
        BY DEF Export
    <1>3. count \in 1..PageCapacity /\ next \in Slots /\ (count < PageCapacity => next = count)
          /\ page[Previous(next)] = tape
        BY <1>1, <1>2, RingSizes DEF RingInv, LastInv, RingTypeOK
    <1>4. output'[count] = tape
        <2>1. Chronological(count - 1) = Previous(next)
            BY <1>3, NewestSlot DEF Chronological, SlotOf
        <2>2. count \in 1..count
            BY <1>3
        <2>3. QED
            BY <1>2, <1>3, <2>1, <2>2
    <1>5. Len(output') = count /\ output' # <<>>
        <2>1. output' \in Seq({page[Chronological(k - 1)] : k \in 1..count})
            <3>1. output' \in [1..count -> {page[Chronological(k - 1)] : k \in 1..count}]
                BY <1>2
            <3>2. count \in Nat
                BY <1>3
            <3>3. QED
                BY <3>1, <3>2, SeqDef
        <2>2. DOMAIN output' = 1..count
            BY <1>2
        <2>3. DOMAIN output' = 1..Len(output') /\ Len(output') \in Nat
            BY <2>1, LenProperties
        <2>4. Len(output') = count
            BY <1>3, <2>2, <2>3
        <2>5. Len(<<>>) = 0
            OBVIOUS
        <2>6. QED
            BY <1>3, <2>4, <2>5
    <1>6. RingTypeOK'
        BY <1>1, <1>2 DEF RingTypeOK, ring
    <1>7. RingInv'
        BY <1>1, <1>2 DEF RingInv, ring, RingTypeOK, Previous
    <1>8. FinalPageIsFinal'
        BY <1>2, <1>4, <1>5 DEF FinalPageIsFinal, ring
    <1>9. QED
        BY <1>2, <1>6, <1>7, <1>8 DEF CaptureInv, LastInv

(* A capture begins: at the start, when it is due, and at rest. *)
LEMMA BeginStep ==
    ASSUME CaptureInv, Begin
    PROVE  CaptureInv'
    <1>1. RingTypeOK /\ RingInv /\ LastInv
        BY DEF CaptureInv
    <1>2. scan = CellCount /\ scan' = 0 /\ phase' \in {"running", "captured"} /\ phase # "exported"
          /\ UNCHANGED <<tape, page, changed, count, next, due, debug, latest, output>>
        BY DEF Begin, ring
    <1>3. RingTypeOK'
        BY <1>1, <1>2, RingSizes DEF RingTypeOK
    <1>4. RingInv'
        BY <1>1, <1>2, RingSizes DEF RingInv, Previous
    <1>5. LastInv'
        BY <1>1, <1>2, RingSizes DEF LastInv, FinalPageIsFinal, Cells
    <1>6. QED
        BY <1>3, <1>4, <1>5 DEF CaptureInv

(* Workers write only while no last capture runs; time passes; a life ends *)
(* and the next one begins with an empty ring. *)
LEMMA LifeStep ==
    ASSUME CaptureInv, Write \/ Tick \/ Stop \/ Restart \/ UNCHANGED vars
    PROVE  CaptureInv'
    <1>1. RingTypeOK /\ RingInv /\ LastInv
        BY DEF CaptureInv
    <1>2. ASSUME Write PROVE CaptureInv'
        <2>1. tape' \in Tapes /\ UNCHANGED <<page, changed, count, next, scan, phase, latest, output>>
              /\ phase \in {"start", "running"}
            BY <1>1, <1>2 DEF Write, ring, RingTypeOK, Tapes
        <2>2. QED
            BY <1>1, <2>1 DEF CaptureInv, RingTypeOK, RingInv, LastInv, FinalPageIsFinal, Previous
    <1>3. ASSUME Tick \/ UNCHANGED vars PROVE CaptureInv'
        <2>1. UNCHANGED <<tape, page, changed, count, next, scan, phase, latest, output>>
            BY <1>3 DEF Tick, ring, vars
        <2>2. QED
            BY <1>1, <2>1 DEF CaptureInv, RingTypeOK, RingInv, LastInv, FinalPageIsFinal, Previous
    <1>4. ASSUME Stop PROVE CaptureInv'
        <2>1. UNCHANGED <<tape, page, changed, count, next, scan, latest, output>> /\ phase' = "suspended"
              /\ scan = CellCount
            BY <1>4 DEF Stop, ring
        <2>2. QED
            BY <1>1, <2>1, RingSizes DEF CaptureInv, RingTypeOK, RingInv, LastInv, FinalPageIsFinal, Previous
    <1>5. ASSUME Restart PROVE CaptureInv'
        <2>1. UNCHANGED <<page, changed, scan, output>> /\ phase' = "start" /\ scan = CellCount
              /\ tape' \in Tapes /\ count' = 0 /\ next' = 0 /\ latest' = <<>>
            BY <1>5 DEF Restart, CountReset
        <2>2. 0 \in Slots
            BY RingSizes
        <2>3. QED
            BY <1>1, <2>1, <2>2, RingSizes DEF CaptureInv, RingTypeOK, RingInv, LastInv, FinalPageIsFinal
    <1>6. QED
        BY <1>2, <1>3, <1>4, <1>5

(* The invariant is inductive. *)
THEOREM CaptureInvariant == Spec => []CaptureInv
    <1>1. ASSUME CaptureInv, [Next]_vars PROVE CaptureInv'
        BY <1>1, BeginStep, CopyCellStep, FinishStep, ExportStep, LifeStep DEF Next, Over
    <1>2. QED
        BY <1>1, CaptureInit, PTL DEF Spec

(* The picture of a debug quit is the final tape, and the export holds the *)
(* whole window, whatever the workers wrote while pages were copied.       *)
THEOREM LastPageIsFinal == Spec => []FinalPageIsFinal
    BY CaptureInvariant, PTL DEF CaptureInv, LastInv

-----------------------------------------------------------------------------
(* The ring implements the window.                                         *)

Item == [tape : Tapes, changed : Nat]
At(p, d, s) == [tape |-> p[s], changed |-> d[s]]
Shown == [k \in 1 .. count - Evicted |-> Page(k - 1 + Evicted)]

(* The slots of a ring. *)
LEMMA SlotValue ==
    ASSUME NEW n \in 0..PageCapacity, NEW x \in Slots, NEW ordinal \in 0..PageCapacity
    PROVE  /\ SlotOf(n, x, ordinal) \in Slots
           /\ n = PageCapacity => SlotOf(n, x, ordinal) = IF x + ordinal < PageCapacity THEN x + ordinal
                                                          ELSE x + ordinal - PageCapacity
           /\ n < PageCapacity /\ ordinal < PageCapacity => SlotOf(n, x, ordinal) = ordinal
    <1>1. CASE n = PageCapacity
        <2>1. PICK y \in 0..(2 * PageCapacity - 1) : y = x + ordinal
            BY RingSizes
        <2>2. SlotOf(n, x, ordinal) = y % PageCapacity
            BY <1>1, <2>1 DEF SlotOf
        <2>3. y % PageCapacity \in Slots /\ y % PageCapacity = IF y < PageCapacity THEN y ELSE y - PageCapacity
            BY WrapsOnce
        <2>4. ~(n < PageCapacity)
            BY <1>1, RingSizes
        <2>5. PICK z \in Slots : z = SlotOf(n, x, ordinal) /\ z = IF y < PageCapacity THEN y ELSE y - PageCapacity
            BY <2>2, <2>3
        <2>6. QED
            BY <2>1, <2>4, <2>5
    <1>2. CASE n # PageCapacity
        <2>1. PICK y \in 0..(2 * PageCapacity - 1) : y = ordinal /\ y = 0 + ordinal
            BY RingSizes
        <2>2. SlotOf(n, x, ordinal) = y % PageCapacity
            BY <1>2, <2>1 DEF SlotOf
        <2>3. QED
            BY <1>2, <2>1, <2>2, WrapsOnce, RingSizes
    <1>3. QED
        BY <1>1, <1>2

(* What the ring shows: its pages in chronological order, without the one  *)
(* that is being overwritten.                                              *)
Shows(w, p, d, n, x, e) ==
    /\ w \in Seq(Item) /\ Len(w) = n - e
    /\ \A k \in 1..(n - e) : w[k] = At(p, d, SlotOf(n, x, k - 1 + e))

(* A window of that length over well typed pages is such a sequence. *)
LEMMA WindowShows ==
    ASSUME NEW p \in [Slots -> Tapes], NEW d \in [Slots -> Nat], NEW n \in 0..PageCapacity,
           NEW x \in Slots, NEW e \in 0..1, e <= n
    PROVE  Shows([k \in 1..(n - e) |-> At(p, d, SlotOf(n, x, k - 1 + e))], p, d, n, x, e)
    <1> DEFINE w == [k \in 1..(n - e) |-> At(p, d, SlotOf(n, x, k - 1 + e))]
    <1>1. n - e \in Nat
        BY RingSizes
    <1>2. \A k \in 1..(n - e) : At(p, d, SlotOf(n, x, k - 1 + e)) \in Item
        <2>1. SUFFICES ASSUME NEW k \in 1..(n - e) PROVE At(p, d, SlotOf(n, x, k - 1 + e)) \in Item
            OBVIOUS
        <2>2. k - 1 + e \in 0..PageCapacity
            BY RingSizes
        <2>3. SlotOf(n, x, k - 1 + e) \in Slots
            BY <2>2, SlotValue
        <2>4. QED
            BY <2>3 DEF At, Item
    <1>3. w \in [1..(n - e) -> Item] /\ DOMAIN w = 1..(n - e)
        BY <1>2
    <1>4. \A k \in 1..(n - e) : w[k] = At(p, d, SlotOf(n, x, k - 1 + e))
        OBVIOUS
    <1> HIDE DEF w
    <1>5. w \in Seq(Item)
        BY <1>1, <1>3, SeqDef
    <1>6. DOMAIN w = 1..Len(w) /\ Len(w) \in Nat
        BY <1>5, LenProperties
    <1>7. Len(w) = n - e
        BY <1>1, <1>3, <1>6
    <1>8. QED
        BY <1>4, <1>5, <1>7 DEF Shows, w

(* The window of a state shows its pages. *)
LEMMA ShownBefore ==
    ASSUME RingTypeOK
    PROVE  Shows(Shown, page, changed, count, next, Evicted) /\ Evicted \in 0..1 /\ Evicted <= count
    <1>1. Evicted \in 0..1 /\ Evicted <= count
        BY RingSizes DEF Evicted, RingTypeOK
    <1>2. Shown = [k \in 1..(count - Evicted) |-> At(page, changed, SlotOf(count, next, k - 1 + Evicted))]
        BY DEF Shown, Page, Chronological, SlotOf, At
    <1>3. QED
        BY <1>1, <1>2, WindowShows DEF RingTypeOK

(* The same of the next state. *)
LEMMA ShownAfter ==
    ASSUME RingTypeOK'
    PROVE  Shows(Shown', page', changed', count', next', Evicted') /\ Evicted' \in 0..1 /\ Evicted' <= count'
    <1>1. Evicted' \in 0..1 /\ Evicted' <= count'
        BY RingSizes DEF Evicted, RingTypeOK
    <1>2. Shown' = [k \in 1..(count' - Evicted') |-> At(page', changed', SlotOf(count', next', k - 1 + Evicted'))]
        BY DEF Shown, Page, Chronological, SlotOf, At
    <1>3. QED
        BY <1>1, <1>2, WindowShows DEF RingTypeOK

(* The window has the actions of the abstract one. *)
LEMMA WindowActions ==
    /\ Window!Init <=> Shown = <<>> /\ latest = <<>>
    /\ Window!Evict <=> Len(Shown) = PageCapacity /\ Shown' = Tail(Shown) /\ UNCHANGED latest
    /\ Window!Forget <=> Shown' = <<>> /\ latest' = <<>>
    /\ UNCHANGED Window!vars <=> Shown' = Shown /\ latest' = latest
    BY DEF Window!Init, Window!Evict, Window!Forget, Window!vars, Shown

(* While a page is copied, its slot is not in the window. *)
LEMMA CopiedIsOutside ==
    ASSUME RingTypeOK, RingInv, scan < CellCount, NEW k \in 1..(count - Evicted)
    PROVE  SlotOf(count, next, k - 1 + Evicted) \in Slots \ {next}
    <1>1. next \in 0 .. PageCapacity - 1 /\ PageCapacity \in Nat \ {0} /\ count \in 0..PageCapacity
        BY RingSizes DEF RingTypeOK
    <1>2. CASE count = PageCapacity
        <2>1. Evicted = 1
            BY <1>2 DEF Evicted
        <2>2. k \in 0..PageCapacity /\ 0 < k /\ k < PageCapacity /\ k - 1 + Evicted = k
            BY <1>1, <1>2, <2>1
        <2>3. SlotOf(count, next, k) = (IF next + k < PageCapacity THEN next + k ELSE next + k - PageCapacity)
              /\ SlotOf(count, next, k) \in Slots
            BY <1>1, <1>2, <2>2, SlotValue, RingSizes
        <2>4. QED
            BY <1>1, <2>2, <2>3
    <1>3. CASE count < PageCapacity
        <2>1. Evicted = 0 /\ next = count
            BY <1>1, <1>3 DEF Evicted, RingInv
        <2>2. k - 1 \in 0..PageCapacity /\ k - 1 < count /\ k - 1 + Evicted = k - 1
            BY <1>1, <1>3, <2>1
        <2>3. SlotOf(count, next, k - 1) = k - 1 /\ SlotOf(count, next, k - 1) \in Slots
            BY <1>1, <1>3, <2>2, SlotValue, RingSizes
        <2>4. QED
            BY <1>1, <2>1, <2>2, <2>3
    <1>4. QED
        BY <1>1, <1>2, <1>3

(* A capture that begins in a full ring evicts the oldest page. *)
LEMMA BeginEvicts ==
    ASSUME CaptureInv, CaptureInv', Begin
    PROVE  Window!Evict \/ UNCHANGED Window!vars
    <1>1. RingTypeOK /\ RingTypeOK'
        BY DEF CaptureInv
    <1>2. scan = CellCount /\ scan' = 0 /\ UNCHANGED <<page, changed, count, next, latest>>
        BY DEF Begin, ring
    <1>3. next \in 0 .. PageCapacity - 1 /\ PageCapacity \in Nat \ {0} /\ count \in 0..PageCapacity
        BY <1>1, RingSizes DEF RingTypeOK
    <1>4. CASE count < PageCapacity
        <2>1. Evicted' = Evicted
            BY <1>2, <1>3, <1>4 DEF Evicted
        <2>2. Shown' = Shown
            BY <1>2, <2>1 DEF Shown, Page, Chronological
        <2>3. QED
            BY <1>2, <2>2, WindowActions
    <1>5. CASE count = PageCapacity
        <2>1. Evicted = 0 /\ Evicted' = 1
            BY <1>2, <1>5, RingSizes DEF Evicted
        <2>2. PICK w, v : /\ w = Shown /\ v = Shown'
                          /\ Shows(w, page, changed, count, next, 0) /\ Shows(v, page, changed, count, next, 1)
            BY <1>1, <1>2, <2>1, ShownBefore, ShownAfter
        <2>3. /\ w \in Seq(Item) /\ Len(w) = count /\ w # <<>> /\ v \in Seq(Item) /\ Len(v) = count - 1
              /\ \A k \in 1..count : w[k] = At(page, changed, SlotOf(count, next, k - 1 + 0))
              /\ \A k \in 1..(count - 1) : v[k] = At(page, changed, SlotOf(count, next, k - 1 + 1))
            BY <1>3, <1>5, <2>2 DEF Shows
        <2>4. /\ Tail(w) \in Seq(Item) /\ Len(Tail(w)) = count - 1
              /\ \A k \in 1..(count - 1) : Tail(w)[k] = w[k + 1]
            BY <1>3, <2>3, HeadTailProperties
        <2>5. ASSUME NEW k \in 1..(count - 1) PROVE v[k] = Tail(w)[k]
            <3>1. k + 1 \in 1..count /\ (k + 1) - 1 + 0 = k - 1 + 1
                BY <1>3
            <3>2. QED
                BY <2>3, <2>4, <3>1
        <2>6. v = Tail(w)
            BY <2>3, <2>4, <2>5, SeqEqual
        <2>7. QED
            BY <1>2, <1>5, <2>2, <2>3, <2>6, WindowActions
    <1>6. QED
        BY <1>3, <1>4, <1>5

(* The copy of a cell cannot be seen in the window. *)
LEMMA CopyIsUnseen ==
    ASSUME CaptureInv, CaptureInv', CopyCell
    PROVE  UNCHANGED Window!vars
    <1>1. RingTypeOK /\ RingTypeOK' /\ RingInv
        BY DEF CaptureInv
    <1>2. scan < CellCount /\ scan' < CellCount /\ UNCHANGED <<changed, count, next, latest>>
        BY <1>1, RingSizes DEF CopyCell, RingTypeOK
    <1>3. \A s \in Slots : s # next => page'[s] = page[s]
        BY <1>1 DEF CopyCell, RingTypeOK
    <1>4. Evicted' = Evicted
        BY <1>2 DEF Evicted
    <1>5. PICK w, v, e : /\ w = Shown /\ v = Shown' /\ e = Evicted
                         /\ Shows(w, page, changed, count, next, e) /\ Shows(v, page', changed, count, next, e)
        BY <1>1, <1>2, <1>4, ShownBefore, ShownAfter
    <1>6. ASSUME NEW k \in 1..(count - e) PROVE v[k] = w[k]
        <2>1. SlotOf(count, next, k - 1 + e) \in Slots \ {next}
            BY <1>1, <1>2, <1>5, CopiedIsOutside
        <2>2. QED
            BY <1>3, <1>5, <2>1 DEF Shows, At
    <1>7. v = w
        BY <1>5, <1>6, SeqEqual DEF Shows
    <1>8. QED
        BY <1>2, <1>5, <1>7, WindowActions

(* A capture that ends adds its page to the window, and counts the cells   *)
(* by which it differs from the page captured immediately before.          *)
LEMMA FinishCaptures ==
    ASSUME PageCapacity > 1, CaptureInv, CaptureInv', Finish
    PROVE  Window!Capture
    <1>1. RingTypeOK /\ RingTypeOK' /\ RingInv
        BY DEF CaptureInv
    <1>2. /\ next \in 0 .. PageCapacity - 1 /\ next \in Slots
          /\ PageCapacity \in Nat \ {0} /\ count \in 0..PageCapacity
        BY <1>1, RingSizes DEF RingTypeOK
    <1>3. /\ Copy \in Tapes /\ latest' = <<Copy>> /\ scan < CellCount /\ scan' = CellCount
          /\ page' \in [Slots -> Tapes] /\ page'[next] = Copy
          /\ \A s \in Slots : s # next => page'[s] = page[s] /\ changed'[s] = changed[s]
          /\ changed'[next] = IF count = 0 THEN 0 ELSE Difference(Copy, page'[Previous(next)])
          /\ next' = (next + 1) % PageCapacity /\ count' = Counted
        BY <1>1, Finished, RingSizes
    <1>4. Evicted' = 0 /\ Evicted = IF count = PageCapacity THEN 1 ELSE 0
        BY <1>3, RingSizes DEF Evicted
    <1>5. PICK w, v, e, n, x : /\ w = Shown /\ v = Shown' /\ e = Evicted /\ n = count' /\ x = next'
                               /\ Shows(w, page, changed, count, next, e) /\ Shows(v, page', changed', n, x, 0)
        BY <1>1, <1>4, ShownBefore, ShownAfter
    <1>6. n = count - e + 1 /\ count - e \in 0..(PageCapacity - 1)
        BY <1>2, <1>3, <1>4, <1>5 DEF Counted
    <1>7. x \in Slots /\ x = IF next + 1 < PageCapacity THEN next + 1 ELSE next + 1 - PageCapacity
        BY <1>2, <1>3, <1>5, WrapsOnce
    (* The page of a slot keeps its place, behind the evicted one. *)
    <1>8. ASSUME NEW k \in 1..n
          PROVE  k - 1 \in 0..PageCapacity /\ k - 1 + e \in 0..PageCapacity
                 /\ SlotOf(n, x, k - 1) = IF k = n THEN next ELSE SlotOf(count, next, k - 1 + e)
        <2>1. /\ k - 1 \in 0..PageCapacity /\ k - 1 + e \in 0..PageCapacity
              /\ k - 1 < PageCapacity /\ n \in 0..PageCapacity
            BY <1>2, <1>4, <1>5, <1>6
        <2>2. CASE count = PageCapacity
            <3>1. e = 1 /\ n = PageCapacity /\ k - 1 + e = k
                BY <1>2, <1>4, <1>5, <1>6, <2>2
            <3>2. SlotOf(n, x, k - 1) = IF x + (k - 1) < PageCapacity THEN x + (k - 1)
                                        ELSE x + (k - 1) - PageCapacity
                BY <1>7, <2>1, <3>1, SlotValue
            <3>3. SlotOf(count, next, k) = IF next + k < PageCapacity THEN next + k ELSE next + k - PageCapacity
                BY <1>2, <2>1, <2>2, <3>1, SlotValue
            <3>4. SlotOf(n, x, k - 1) = IF next + k < PageCapacity THEN next + k ELSE next + k - PageCapacity
                BY <1>2, <1>7, <2>1, <3>1, <3>2
            <3>5. k = n => SlotOf(n, x, k - 1) = next
                BY <1>2, <3>1, <3>4
            <3>6. QED
                BY <2>1, <3>1, <3>3, <3>4, <3>5
        <2>3. CASE count < PageCapacity
            <3>1. e = 0 /\ n = count + 1 /\ k - 1 + e = k - 1 /\ next = count
                BY <1>1, <1>2, <1>4, <1>5, <1>6, <2>3 DEF RingInv
            <3>2. SlotOf(count, next, k - 1) = k - 1
                BY <1>2, <2>1, <2>3, SlotValue
            <3>3. SlotOf(n, x, k - 1) = k - 1
                <4>1. CASE n < PageCapacity
                    BY <1>7, <2>1, <4>1, SlotValue
                <4>2. CASE n = PageCapacity
                    <5>1. x = 0
                        BY <1>2, <1>7, <3>1, <4>2
                    <5>2. SlotOf(n, x, k - 1) = IF x + (k - 1) < PageCapacity THEN x + (k - 1)
                                                ELSE x + (k - 1) - PageCapacity
                        BY <1>7, <2>1, <4>2, SlotValue
                    <5>3. QED
                        BY <2>1, <5>1, <5>2
                <4>3. QED
                    BY <1>2, <2>1, <4>1, <4>2
            <3>4. k = n => k - 1 = next
                BY <1>2, <3>1
            <3>5. QED
                BY <2>1, <3>1, <3>2, <3>3, <3>4
        <2>4. QED
            BY <1>2, <2>2, <2>3
    (* The new page and what it says of the one before it. *)
    <1>9. changed'[next] = Window!Changed(Copy)
        <2>1. CASE count = 0
            BY <1>1, <1>3, <2>1 DEF RingInv, Window!Changed
        <2>2. CASE count # 0
            <3>1. latest = <<page[Previous(next)]>> /\ latest # <<>> /\ latest[1] = page[Previous(next)]
                BY <1>1, <1>2, <2>2 DEF RingInv
            <3>2. Previous(next) \in Slots /\ Previous(next) # next
                BY <1>2, PreviousSlot
            <3>3. changed'[next] = Difference(Copy, page[Previous(next)])
                BY <1>3, <2>2, <3>2
            <3>4. \A a, b : Difference(a, b) = Window!Difference(b, a)
                <4>1. TAKE a, b
                <4>2. {c \in Cells : a[c] # b[c]} = {c \in Cells : b[c] # a[c]}
                    OBVIOUS
                <4>3. QED
                    BY <4>2, Zenon DEF Difference, Window!Difference, Cardinality, Window!Cardinality
            <3>5. QED
                BY <3>1, <3>3, <3>4 DEF Window!Changed
        <2>3. QED
            BY <2>1, <2>2
    <1>10. PICK t \in Tapes, i \in Item : t = Copy /\ i = [tape |-> t, changed |-> Window!Changed(t)]
                                          /\ i = At(page', changed', next)
        <2>1. At(page', changed', next) \in Item
            BY <1>1, <1>2 DEF At, Item, RingTypeOK
        <2>2. QED
            BY <1>3, <1>9, <2>1 DEF At
    <1>11. /\ w \in Seq(Item) /\ Len(w) = n - 1
           /\ \A k \in 1..(n - 1) : w[k] = At(page, changed, SlotOf(count, next, k - 1 + e))
           /\ v \in Seq(Item) /\ Len(v) = n /\ \A k \in 1..n : v[k] = At(page', changed', SlotOf(n, x, k - 1))
        <2>1. n - 0 = n /\ n - 1 = count - e /\ \A k \in 1..n : k - 1 + 0 = k - 1
            BY <1>2, <1>6
        <2>2. QED
            BY <1>5, <2>1 DEF Shows
    <1>12. /\ Append(w, i) \in Seq(Item) /\ Len(Append(w, i)) = n
           /\ \A k \in 1..(n - 1) : Append(w, i)[k] = w[k]
           /\ Append(w, i)[n] = i
        <2>1. (n - 1) + 1 = n
            BY <1>6, <1>2
        <2>2. QED
            BY <1>11, <2>1, AppendProperties
    <1>13. ASSUME NEW k \in 1..n PROVE v[k] = Append(w, i)[k]
        <2>1. CASE k = n
            BY <1>8, <1>10, <1>11, <1>12, <2>1
        <2>2. CASE k # n
            <3>1. k \in 1..(n - 1) /\ k \in 1..(count - e)
                BY <1>2, <1>6, <2>2
            <3>2. SlotOf(count, next, k - 1 + e) \in Slots \ {next}
                BY <1>1, <1>3, <1>5, <3>1, CopiedIsOutside
            <3>3. SlotOf(n, x, k - 1) = SlotOf(count, next, k - 1 + e)
                BY <1>8, <2>2
            <3>4. QED
                BY <1>3, <1>11, <1>12, <3>1, <3>2, <3>3 DEF At
        <2>3. QED
            BY <2>1, <2>2
    <1>14. v = Append(w, i)
        BY <1>11, <1>12, <1>13, SeqEqual
    <1>15. /\ Len(Shown) < PageCapacity /\ latest' = <<t>>
           /\ Shown' = Append(Shown, [tape |-> t, changed |-> Window!Changed(t)])
        BY <1>2, <1>3, <1>5, <1>6, <1>10, <1>11, <1>14
    <1>16. t \in Window!Tapes
        BY DEF Tapes, Window!Tapes
    <1>17. QED
        BY <1>15, <1>16 DEF Window!Capture, Shown

(* A step that touches neither the pages nor the scan cannot be seen. *)
LEMMA RestIsUnseen ==
    ASSUME CaptureInv, Export \/ Write \/ Tick \/ Stop \/ UNCHANGED vars
    PROVE  UNCHANGED Window!vars
    <1>1. UNCHANGED <<page, changed, count, next, scan, latest>>
        BY DEF Export, Write, Tick, Stop, vars, ring
    <1>2. Shown' = Shown
        BY <1>1 DEF Shown, Page, Chronological, Evicted
    <1>3. QED
        BY <1>1, <1>2, WindowActions

(* A new life forgets the pages of the one before. *)
LEMMA RestartForgets ==
    ASSUME CaptureInv', Restart
    PROVE  Window!Forget
    <1>1. count' = 0 /\ latest' = <<>> /\ Evicted' = 0
        BY RingSizes DEF Restart, CountReset, Evicted
    <1>2. PICK v : v = Shown' /\ v \in Seq(Item) /\ Len(v) = 0
        <2>1. Shown' \in Seq(Item) /\ Len(Shown') = count' - Evicted'
            BY ShownAfter DEF CaptureInv, Shows
        <2>2. count' - Evicted' = 0
            BY <1>1
        <2>3. QED
            BY <2>1, <2>2
    <1>3. Shown' = <<>>
        BY <1>2, EmptySeq
    <1>4. QED
        BY <1>1, <1>3, WindowActions

(* The ring of pages is the window that the documentation promises: with   *)
(* more than one page, the ring never shows a page half copied, never      *)
(* loses or repeats one, and counts changes from the page before.          *)
THEOREM RingIsWindow ==
    ASSUME PageCapacity > 1
    PROVE  Spec => WindowSpec
    <1>1. Init => Window!Init
        <2> SUFFICES ASSUME Init PROVE Window!Init
            OBVIOUS
        <2>1. count = 0 /\ latest = <<>> /\ Evicted = 0
            BY RingSizes DEF Init, Evicted
        <2>2. Shown \in Seq(Item) /\ Len(Shown) = 0
            BY <2>1, CaptureInit, ShownBefore DEF CaptureInv, Shows
        <2>3. QED
            BY <2>1, <2>2, EmptySeq, WindowActions
    <1>2. ASSUME CaptureInv, CaptureInv', [Next]_vars PROVE Window!Next \/ UNCHANGED Window!vars
        BY <1>2, BeginEvicts, CopyIsUnseen, FinishCaptures, RestIsUnseen, RestartForgets
           DEF Next, Over, Window!Next
    <1>3. CaptureInv /\ CaptureInv' /\ [Next]_vars => [Window!Next]_(Window!vars)
        BY <1>2
    <1>4. QED
        BY <1>1, <1>3, CaptureInvariant, PTL DEF Spec, WindowSpec, Window!Spec

=============================================================================
