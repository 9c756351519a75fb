--------------------------- MODULE UniverseProofs ---------------------------
(***************************************************************************)
(* What the run of Universe checks on a queue of two keys, proved for      *)
(* every finite number of workers, every queue, population and set of      *)
(* keys, and any number of keys, lifetimes and lives.                      *)
(***************************************************************************)
EXTENDS Universe, FiniteSetTheorems, SequenceTheorems, TLAPS

(* The places of the control loop, and those where it leaves the pool.     *)
Turning == {"loop", "apply", "check", "draw", "poll"}
Leaves == {"suspend", "expired"}

(* The universe is in the pool throughout the loop, and workers are in it  *)
(* only until the suspension that ends the loop has returned.              *)
MemberInv ==
    /\ ctl \in Turning => open
    /\ open \/ users # {} => ctl \in Turning \cup Leaves

(* A life starts with the scheduler running, and not paused on the screen. *)
ModeInv ==
    /\ ModesAgree
    /\ ctl = "reseed" => ~paused
    /\ ctl = "start" => ~draining /\ ~held /\ ~paused

(* A universe that debugs is on its way to the export, not to a new life.  *)
FinalInv ==
    /\ ctl \in {"expired", "again", "reseed", "start"} => ~debug
    /\ debug => ~restart
    /\ ctl \in {"final", "export"} => debug

(* How far the export has got says what has been written.                  *)
ExportInv ==
    /\ exports # 0 => exports = 1 /\ ctl \in {"ending", "finished", "over"} /\ debug /\ page
    /\ debug /\ ctl \in {"export", "ending", "finished", "over"} => frame \/ failed
    /\ debug /\ ctl \in {"ending", "finished", "over"} => exports = 1 \/ failed

(* The controller says that it is done when it is, and main waits for it.  *)
DoneInv == (done <=> ctl = "over") /\ (main = "freed" => done)

LifeInv == UniverseTypeOK /\ MemberInv /\ ModeInv /\ FinalInv /\ ExportInv /\ DoneInv

-----------------------------------------------------------------------------
(* The types, one kind at a time.                                          *)
Flags ==
    /\ headless \in BOOLEAN /\ quit \in BOOLEAN /\ done \in BOOLEAN /\ failed \in BOOLEAN
    /\ restart \in BOOLEAN /\ debug \in BOOLEAN /\ paused \in BOOLEAN
    /\ draining \in BOOLEAN /\ held \in BOOLEAN /\ open \in BOOLEAN
    /\ frame \in BOOLEAN /\ page \in BOOLEAN
Places ==
    /\ main \in {"running", "freed"}
    /\ ctl \in Turning \cup Leaves \cup {"start", "final", "export", "ending", "again", "reseed",
                                         "finished", "over"}
Numbers ==
    /\ read \in 0 .. QueueSize - 1 /\ pending \in 0..QueueSize
    /\ live \in 0..MaxLive /\ exports \in Nat /\ users \subseteq Workers

(* The parts are the whole.                                                *)
LEMMA Types == UniverseTypeOK <=> Flags /\ Places /\ Numbers
    BY DEF UniverseTypeOK, Flags, Places, Numbers, Turning, Leaves

(* The modes of the controller are those of the scheduler.                 *)
InStep == paused = held /\ draining = debug /\ ~(paused /\ debug)

(* The start of a drain changes them alike. *)
LEMMA DrainInStep ==
    ASSUME Flags, InStep, BeginDebugDrain
    PROVE  InStep'
    <1>1. CASE debug
        BY <1>1 DEF BeginDebugDrain, InStep
    <1>2. CASE ~debug
        <2>1. debug' = TRUE /\ paused' = FALSE /\ draining' = TRUE /\ held' = FALSE
            BY <1>2 DEF BeginDebugDrain
        <2>2. QED
            BY <2>1 DEF InStep
    <1>3. QED
        BY <1>1, <1>2

(* And so does any key. *)
LEMMA KeyInStep ==
    ASSUME NEW k, Flags, InStep, HandleKey(k)
    PROVE  InStep'
    <1>1. CASE BeginDebugDrain
        BY <1>1, DrainInStep
    <1>2. CASE /\ ~debug /\ paused' = ~paused /\ held' = (~paused /\ ~draining)
               /\ UNCHANGED <<debug, draining>>
        <2>1. ~draining
            BY <1>2, Zenon DEF InStep
        <2>2. paused' = held'
            BY <1>2, <2>1, Zenon
        <2>3. ~debug' /\ ~draining'
            BY <1>2, <2>1
        <2>4. QED
            BY <1>2, <2>2, <2>3, Zenon DEF InStep
    <1>3. CASE UNCHANGED <<paused, held, debug, draining>>
        BY <1>3 DEF InStep
    <1>4. QED
        BY <1>1, <1>2, <1>3 DEF HandleKey, Listens, sched

(* Every step keeps Flags. *)
LEMMA FlagsStep ==
    ASSUME Flags, [Next]_vars
    PROVE  Flags'
    <1> USE DEF Flags, queue, life, sched, pool, capture, Goto
    <1>1. ASSUME NEW k \in Keys, Press(k) PROVE Flags'
        BY <1>1 DEF Press, Room, WriteAt
    <1>2. ASSUME Close PROVE Flags'
        BY <1>2 DEF Close
    <1>3. ASSUME Free PROVE Flags'
        BY <1>3 DEF Free, Freeable
    <1>4. ASSUME Start PROVE Flags'
        BY <1>4 DEF Start
    <1>5. ASSUME Loop PROVE Flags'
        BY <1>5 DEF Loop, Leaving
    <1>6. ASSUME Apply PROVE Flags'
        BY <1>6 DEF Apply, HandleKey, BeginDebugDrain, RestartDropped, Listens
    <1>7. ASSUME Input PROVE Flags'
        BY <1>7 DEF Input, BeginDebugDrain, RestartDropped
    <1>8. ASSUME Check PROVE Flags'
        BY <1>8 DEF Check, Leaving
    <1>9. ASSUME Draw PROVE Flags'
        BY <1>9 DEF Draw, Drawn
    <1>10. ASSUME PollDrain PROVE Flags'
        BY <1>10 DEF PollDrain, DrainComplete
    <1>11. ASSUME Suspend PROVE Flags'
        BY <1>11 DEF Suspend
    <1>12. ASSUME Suspended PROVE Flags'
        BY <1>12 DEF Suspended, Quiescent
    <1>13. ASSUME FinalFrame PROVE Flags'
        BY <1>13 DEF FinalFrame, Drawn
    <1>14. ASSUME Export PROVE Flags'
        BY <1>14 DEF Export
    <1>15. ASSUME Decide PROVE Flags'
        BY <1>15 DEF Decide
    <1>16. ASSUME Again PROVE Flags'
        BY <1>16 DEF Again, QuitKept
    <1>17. ASSUME Reseed PROVE Flags'
        BY <1>17 DEF Reseed
    <1>18. ASSUME Finish PROVE Flags'
        BY <1>18 DEF Finish
    <1>19. ASSUME NEW w \in Workers, Lease(w) PROVE Flags'
        BY <1>19 DEF Lease
    <1>20. ASSUME NEW w \in Workers, Return(w) PROVE Flags'
        BY <1>20 DEF Return
    <1>21. ASSUME Retire PROVE Flags'
        BY <1>21 DEF Retire
    <1>22. ASSUME UNCHANGED vars PROVE Flags'
        BY <1>22 DEF vars
    <1> QED
        BY <1>1, <1>2, <1>3, <1>4, <1>5, <1>6, <1>7, <1>8, <1>9, <1>10, <1>11, <1>12, <1>13, <1>14,
           <1>15, <1>16, <1>17, <1>18, <1>19, <1>20, <1>21, <1>22 DEF Next, Control, Freed

(* Every step keeps Places. *)
LEMMA PlacesStep ==
    ASSUME Places, [Next]_vars
    PROVE  Places'
    <1> USE DEF Places, Turning, Leaves, queue, life, sched, pool, capture, Goto
    <1>1. ASSUME NEW k \in Keys, Press(k) PROVE Places'
        BY <1>1 DEF Press, Room, WriteAt
    <1>2. ASSUME Close PROVE Places'
        BY <1>2 DEF Close
    <1>3. ASSUME Free PROVE Places'
        BY <1>3 DEF Free, Freeable
    <1>4. ASSUME Start PROVE Places'
        BY <1>4 DEF Start
    <1>5. ASSUME Loop PROVE Places'
        BY <1>5 DEF Loop, Leaving
    <1>6. ASSUME Apply PROVE Places'
        BY <1>6 DEF Apply, HandleKey, BeginDebugDrain, RestartDropped, Listens
    <1>7. ASSUME Input PROVE Places'
        BY <1>7 DEF Input, BeginDebugDrain, RestartDropped
    <1>8. ASSUME Check PROVE Places'
        BY <1>8 DEF Check, Leaving
    <1>9. ASSUME Draw PROVE Places'
        BY <1>9 DEF Draw, Drawn
    <1>10. ASSUME PollDrain PROVE Places'
        BY <1>10 DEF PollDrain, DrainComplete
    <1>11. ASSUME Suspend PROVE Places'
        BY <1>11 DEF Suspend
    <1>12. ASSUME Suspended PROVE Places'
        BY <1>12 DEF Suspended, Quiescent
    <1>13. ASSUME FinalFrame PROVE Places'
        BY <1>13 DEF FinalFrame, Drawn
    <1>14. ASSUME Export PROVE Places'
        BY <1>14 DEF Export
    <1>15. ASSUME Decide PROVE Places'
        BY <1>15 DEF Decide
    <1>16. ASSUME Again PROVE Places'
        BY <1>16 DEF Again, QuitKept
    <1>17. ASSUME Reseed PROVE Places'
        BY <1>17 DEF Reseed
    <1>18. ASSUME Finish PROVE Places'
        BY <1>18 DEF Finish
    <1>19. ASSUME NEW w \in Workers, Lease(w) PROVE Places'
        BY <1>19 DEF Lease
    <1>20. ASSUME NEW w \in Workers, Return(w) PROVE Places'
        BY <1>20 DEF Return
    <1>21. ASSUME Retire PROVE Places'
        BY <1>21 DEF Retire
    <1>22. ASSUME UNCHANGED vars PROVE Places'
        BY <1>22 DEF vars
    <1> QED
        BY <1>1, <1>2, <1>3, <1>4, <1>5, <1>6, <1>7, <1>8, <1>9, <1>10, <1>11, <1>12, <1>13, <1>14,
           <1>15, <1>16, <1>17, <1>18, <1>19, <1>20, <1>21, <1>22 DEF Next, Control, Freed

(* Every step keeps Numbers. *)
LEMMA NumbersStep ==
    ASSUME Numbers, [Next]_vars
    PROVE  Numbers'
    <1> USE DEF Numbers, queue, life, sched, pool, capture, Goto
    <1>1. ASSUME NEW k \in Keys, Press(k) PROVE Numbers'
        BY <1>1, UniverseAssumption DEF Press, Room
    <1>2. ASSUME Close PROVE Numbers'
        BY <1>2 DEF Close
    <1>3. ASSUME Free PROVE Numbers'
        BY <1>3 DEF Free, Freeable
    <1>4. ASSUME Start PROVE Numbers'
        BY <1>4 DEF Start
    <1>5. ASSUME Loop PROVE Numbers'
        BY <1>5 DEF Loop, Leaving
    <1>6. ASSUME Apply PROVE Numbers'
        <2>1. (read + 1) % QueueSize \in 0 .. QueueSize - 1
            BY UniverseAssumption
        <2>2. live' \in 0..MaxLive
            BY <1>6, UniverseAssumption DEF Apply, HandleKey
        <2>3. QED
            BY <1>6, <2>1, <2>2, UniverseAssumption DEF Apply
    <1>7. ASSUME Input PROVE Numbers'
        BY <1>7 DEF Input, BeginDebugDrain, RestartDropped
    <1>8. ASSUME Check PROVE Numbers'
        BY <1>8 DEF Check, Leaving
    <1>9. ASSUME Draw PROVE Numbers'
        BY <1>9 DEF Draw, Drawn
    <1>10. ASSUME PollDrain PROVE Numbers'
        BY <1>10 DEF PollDrain, DrainComplete
    <1>11. ASSUME Suspend PROVE Numbers'
        BY <1>11 DEF Suspend
    <1>12. ASSUME Suspended PROVE Numbers'
        BY <1>12 DEF Suspended, Quiescent
    <1>13. ASSUME FinalFrame PROVE Numbers'
        BY <1>13 DEF FinalFrame, Drawn
    <1>14. ASSUME Export PROVE Numbers'
        BY <1>14 DEF Export
    <1>15. ASSUME Decide PROVE Numbers'
        BY <1>15 DEF Decide
    <1>16. ASSUME Again PROVE Numbers'
        BY <1>16 DEF Again, QuitKept
    <1>17. ASSUME Reseed PROVE Numbers'
        BY <1>17, UniverseAssumption DEF Reseed
    <1>18. ASSUME Finish PROVE Numbers'
        BY <1>18 DEF Finish
    <1>19. ASSUME NEW w \in Workers, Lease(w) PROVE Numbers'
        BY <1>19 DEF Lease
    <1>20. ASSUME NEW w \in Workers, Return(w) PROVE Numbers'
        BY <1>20 DEF Return
    <1>21. ASSUME Retire PROVE Numbers'
        <2>1. Cardinality(users) \in Nat
            BY UniverseAssumption, FS_Subset, FS_CardinalityType
        <2>2. QED
            BY <1>21, <2>1, UniverseAssumption DEF Retire
    <1>22. ASSUME UNCHANGED vars PROVE Numbers'
        BY <1>22 DEF vars
    <1> QED
        BY <1>1, <1>2, <1>3, <1>4, <1>5, <1>6, <1>7, <1>8, <1>9, <1>10, <1>11, <1>12, <1>13, <1>14,
           <1>15, <1>16, <1>17, <1>18, <1>19, <1>20, <1>21, <1>22 DEF Next, Control, Freed

(* Every step keeps MemberInv. *)
LEMMA MemberStep ==
    ASSUME Places, MemberInv, [Next]_vars
    PROVE  MemberInv'
    <1> USE DEF MemberInv, Turning, Leaves, queue, life, sched, pool, capture, Goto
    <1>1. ASSUME NEW k \in Keys, Press(k) PROVE MemberInv'
        BY <1>1 DEF Press, Room, WriteAt
    <1>2. ASSUME Close PROVE MemberInv'
        BY <1>2 DEF Close
    <1>3. ASSUME Free PROVE MemberInv'
        BY <1>3 DEF Free, Freeable
    <1>4. ASSUME Start PROVE MemberInv'
        BY <1>4 DEF Start
    <1>5. ASSUME Loop PROVE MemberInv'
        BY <1>5 DEF Loop, Leaving
    <1>6. ASSUME Apply PROVE MemberInv'
        BY <1>6 DEF Apply, HandleKey, BeginDebugDrain, RestartDropped, Listens
    <1>7. ASSUME Input PROVE MemberInv'
        BY <1>7 DEF Input, BeginDebugDrain, RestartDropped
    <1>8. ASSUME Check PROVE MemberInv'
        BY <1>8 DEF Check, Leaving
    <1>9. ASSUME Draw PROVE MemberInv'
        BY <1>9 DEF Draw, Drawn
    <1>10. ASSUME PollDrain PROVE MemberInv'
        BY <1>10 DEF PollDrain, DrainComplete
    <1>11. ASSUME Suspend PROVE MemberInv'
        BY <1>11 DEF Suspend
    <1>12. ASSUME Suspended PROVE MemberInv'
        BY <1>12 DEF Suspended, Quiescent
    <1>13. ASSUME FinalFrame PROVE MemberInv'
        BY <1>13 DEF FinalFrame, Drawn
    <1>14. ASSUME Export PROVE MemberInv'
        BY <1>14 DEF Export
    <1>15. ASSUME Decide PROVE MemberInv'
        BY <1>15 DEF Decide
    <1>16. ASSUME Again PROVE MemberInv'
        BY <1>16 DEF Again, QuitKept
    <1>17. ASSUME Reseed PROVE MemberInv'
        BY <1>17 DEF Reseed
    <1>18. ASSUME Finish PROVE MemberInv'
        BY <1>18 DEF Finish
    <1>19. ASSUME NEW w \in Workers, Lease(w) PROVE MemberInv'
        BY <1>19 DEF Lease
    <1>20. ASSUME NEW w \in Workers, Return(w) PROVE MemberInv'
        BY <1>20 DEF Return
    <1>21. ASSUME Retire PROVE MemberInv'
        BY <1>21 DEF Retire
    <1>22. ASSUME UNCHANGED vars PROVE MemberInv'
        BY <1>22 DEF vars
    <1> QED
        BY <1>1, <1>2, <1>3, <1>4, <1>5, <1>6, <1>7, <1>8, <1>9, <1>10, <1>11, <1>12, <1>13, <1>14,
           <1>15, <1>16, <1>17, <1>18, <1>19, <1>20, <1>21, <1>22 DEF Next, Control, Freed

(* Every step keeps ModeInv. *)
LEMMA ModeStep ==
    ASSUME Flags, FinalInv, ModeInv, [Next]_vars
    PROVE  ModeInv'
    <1> USE DEF ModeInv, ModesAgree, FinalInv, queue, life, sched, pool, capture, Goto
    <1>1. ASSUME NEW k \in Keys, Press(k) PROVE ModeInv'
        BY <1>1 DEF Press, Room, WriteAt
    <1>2. ASSUME Close PROVE ModeInv'
        BY <1>2 DEF Close
    <1>3. ASSUME Free PROVE ModeInv'
        BY <1>3 DEF Free, Freeable
    <1>4. ASSUME Start PROVE ModeInv'
        <2>1. ~debug /\ ~draining /\ ~held /\ ~paused
            BY <1>4 DEF Start
        <2>2. paused = held /\ draining = debug
            BY <2>1, Zenon DEF Flags
        <2>3. QED
            BY <1>4, <2>1, <2>2 DEF Start
    <1>5. ASSUME Loop PROVE ModeInv'
        BY <1>5 DEF Loop, Leaving
    <1>6. ASSUME Apply PROVE ModeInv'
        <2>1. InStep
            BY <1>6 DEF Apply, InStep
        <2>2. InStep'
            BY <1>6, <2>1, KeyInStep DEF Apply
        <2>3. ctl' = "apply"
            BY <1>6 DEF Apply
        <2>4. QED
            BY <2>2, <2>3 DEF InStep
    <1>7. ASSUME Input PROVE ModeInv'
        <2>1. InStep
            BY <1>7 DEF Input, InStep
        <2>2. InStep'
            BY <1>7, <2>1, DrainInStep DEF Input, InStep
        <2>3. ctl' = "check"
            BY <1>7 DEF Input
        <2>4. QED
            BY <2>2, <2>3 DEF InStep
    <1>8. ASSUME Check PROVE ModeInv'
        BY <1>8 DEF Check, Leaving
    <1>9. ASSUME Draw PROVE ModeInv'
        BY <1>9 DEF Draw, Drawn
    <1>10. ASSUME PollDrain PROVE ModeInv'
        BY <1>10 DEF PollDrain, DrainComplete
    <1>11. ASSUME Suspend PROVE ModeInv'
        BY <1>11 DEF Suspend
    <1>12. ASSUME Suspended PROVE ModeInv'
        BY <1>12 DEF Suspended, Quiescent
    <1>13. ASSUME FinalFrame PROVE ModeInv'
        BY <1>13 DEF FinalFrame, Drawn
    <1>14. ASSUME Export PROVE ModeInv'
        BY <1>14 DEF Export
    <1>15. ASSUME Decide PROVE ModeInv'
        BY <1>15 DEF Decide
    <1>16. ASSUME Again PROVE ModeInv'
        BY <1>16 DEF Again, QuitKept
    <1>17. ASSUME Reseed PROVE ModeInv'
        BY <1>17 DEF Reseed
    <1>18. ASSUME Finish PROVE ModeInv'
        BY <1>18 DEF Finish
    <1>19. ASSUME NEW w \in Workers, Lease(w) PROVE ModeInv'
        BY <1>19 DEF Lease
    <1>20. ASSUME NEW w \in Workers, Return(w) PROVE ModeInv'
        BY <1>20 DEF Return
    <1>21. ASSUME Retire PROVE ModeInv'
        BY <1>21 DEF Retire
    <1>22. ASSUME UNCHANGED vars PROVE ModeInv'
        BY <1>22 DEF vars
    <1> QED
        BY <1>1, <1>2, <1>3, <1>4, <1>5, <1>6, <1>7, <1>8, <1>9, <1>10, <1>11, <1>12, <1>13, <1>14,
           <1>15, <1>16, <1>17, <1>18, <1>19, <1>20, <1>21, <1>22 DEF Next, Control, Freed

(* Every step keeps FinalInv. *)
LEMMA FinalStep ==
    ASSUME Flags, FinalInv, [Next]_vars
    PROVE  FinalInv'
    <1> USE DEF FinalInv, queue, life, sched, pool, capture, Goto
    <1>1. ASSUME NEW k \in Keys, Press(k) PROVE FinalInv'
        BY <1>1 DEF Press, Room, WriteAt
    <1>2. ASSUME Close PROVE FinalInv'
        BY <1>2 DEF Close
    <1>3. ASSUME Free PROVE FinalInv'
        BY <1>3 DEF Free, Freeable
    <1>4. ASSUME Start PROVE FinalInv'
        BY <1>4 DEF Start
    <1>5. ASSUME Loop PROVE FinalInv'
        BY <1>5 DEF Loop, Leaving
    <1>6. ASSUME Apply PROVE FinalInv'
        BY <1>6 DEF Apply, HandleKey, BeginDebugDrain, RestartDropped, Listens
    <1>7. ASSUME Input PROVE FinalInv'
        BY <1>7 DEF Input, BeginDebugDrain, RestartDropped
    <1>8. ASSUME Check PROVE FinalInv'
        BY <1>8 DEF Check, Leaving
    <1>9. ASSUME Draw PROVE FinalInv'
        BY <1>9 DEF Draw, Drawn
    <1>10. ASSUME PollDrain PROVE FinalInv'
        BY <1>10 DEF PollDrain, DrainComplete
    <1>11. ASSUME Suspend PROVE FinalInv'
        BY <1>11 DEF Suspend
    <1>12. ASSUME Suspended PROVE FinalInv'
        BY <1>12 DEF Suspended, Quiescent
    <1>13. ASSUME FinalFrame PROVE FinalInv'
        BY <1>13 DEF FinalFrame, Drawn
    <1>14. ASSUME Export PROVE FinalInv'
        BY <1>14 DEF Export
    <1>15. ASSUME Decide PROVE FinalInv'
        BY <1>15 DEF Decide
    <1>16. ASSUME Again PROVE FinalInv'
        BY <1>16 DEF Again, QuitKept
    <1>17. ASSUME Reseed PROVE FinalInv'
        BY <1>17 DEF Reseed
    <1>18. ASSUME Finish PROVE FinalInv'
        BY <1>18 DEF Finish
    <1>19. ASSUME NEW w \in Workers, Lease(w) PROVE FinalInv'
        BY <1>19 DEF Lease
    <1>20. ASSUME NEW w \in Workers, Return(w) PROVE FinalInv'
        BY <1>20 DEF Return
    <1>21. ASSUME Retire PROVE FinalInv'
        BY <1>21 DEF Retire
    <1>22. ASSUME UNCHANGED vars PROVE FinalInv'
        BY <1>22 DEF vars
    <1> QED
        BY <1>1, <1>2, <1>3, <1>4, <1>5, <1>6, <1>7, <1>8, <1>9, <1>10, <1>11, <1>12, <1>13, <1>14,
           <1>15, <1>16, <1>17, <1>18, <1>19, <1>20, <1>21, <1>22 DEF Next, Control, Freed

(* Every step keeps ExportInv. *)
LEMMA ExportStep ==
    ASSUME Flags, Numbers, MemberInv, FinalInv, ExportInv, [Next]_vars
    PROVE  ExportInv'
    <1> USE DEF ExportInv, FinalInv, MemberInv, Turning, Leaves, queue, life, sched, pool, capture, Goto
    <1>1. ASSUME NEW k \in Keys, Press(k) PROVE ExportInv'
        BY <1>1 DEF Press, Room, WriteAt
    <1>2. ASSUME Close PROVE ExportInv'
        BY <1>2 DEF Close
    <1>3. ASSUME Free PROVE ExportInv'
        BY <1>3 DEF Free, Freeable
    <1>4. ASSUME Start PROVE ExportInv'
        BY <1>4 DEF Start
    <1>5. ASSUME Loop PROVE ExportInv'
        BY <1>5 DEF Loop, Leaving
    <1>6. ASSUME Apply PROVE ExportInv'
        BY <1>6 DEF Apply, HandleKey, BeginDebugDrain, RestartDropped, Listens
    <1>7. ASSUME Input PROVE ExportInv'
        BY <1>7 DEF Input, BeginDebugDrain, RestartDropped
    <1>8. ASSUME Check PROVE ExportInv'
        BY <1>8 DEF Check, Leaving
    <1>9. ASSUME Draw PROVE ExportInv'
        BY <1>9 DEF Draw, Drawn
    <1>10. ASSUME PollDrain PROVE ExportInv'
        BY <1>10 DEF PollDrain, DrainComplete
    <1>11. ASSUME Suspend PROVE ExportInv'
        BY <1>11 DEF Suspend
    <1>12. ASSUME Suspended PROVE ExportInv'
        BY <1>12 DEF Suspended, Quiescent
    <1>13. ASSUME FinalFrame PROVE ExportInv'
        BY <1>13 DEF FinalFrame, Drawn
    <1>14. ASSUME Export PROVE ExportInv'
        BY <1>14 DEF Export
    <1>15. ASSUME Decide PROVE ExportInv'
        BY <1>15 DEF Decide
    <1>16. ASSUME Again PROVE ExportInv'
        BY <1>16 DEF Again, QuitKept
    <1>17. ASSUME Reseed PROVE ExportInv'
        BY <1>17 DEF Reseed
    <1>18. ASSUME Finish PROVE ExportInv'
        BY <1>18 DEF Finish
    <1>19. ASSUME NEW w \in Workers, Lease(w) PROVE ExportInv'
        BY <1>19 DEF Lease
    <1>20. ASSUME NEW w \in Workers, Return(w) PROVE ExportInv'
        BY <1>20 DEF Return
    <1>21. ASSUME Retire PROVE ExportInv'
        BY <1>21 DEF Retire
    <1>22. ASSUME UNCHANGED vars PROVE ExportInv'
        BY <1>22 DEF vars
    <1> QED
        BY <1>1, <1>2, <1>3, <1>4, <1>5, <1>6, <1>7, <1>8, <1>9, <1>10, <1>11, <1>12, <1>13, <1>14,
           <1>15, <1>16, <1>17, <1>18, <1>19, <1>20, <1>21, <1>22 DEF Next, Control, Freed

(* Every step keeps DoneInv. *)
LEMMA DoneStep ==
    ASSUME Flags, DoneInv, [Next]_vars
    PROVE  DoneInv'
    <1> USE DEF DoneInv, queue, life, sched, pool, capture, Goto
    <1>1. ASSUME NEW k \in Keys, Press(k) PROVE DoneInv'
        BY <1>1 DEF Press, Room, WriteAt
    <1>2. ASSUME Close PROVE DoneInv'
        BY <1>2 DEF Close
    <1>3. ASSUME Free PROVE DoneInv'
        BY <1>3 DEF Free, Freeable
    <1>4. ASSUME Start PROVE DoneInv'
        BY <1>4 DEF Start
    <1>5. ASSUME Loop PROVE DoneInv'
        BY <1>5 DEF Loop, Leaving
    <1>6. ASSUME Apply PROVE DoneInv'
        BY <1>6 DEF Apply, HandleKey, BeginDebugDrain, RestartDropped, Listens
    <1>7. ASSUME Input PROVE DoneInv'
        BY <1>7 DEF Input, BeginDebugDrain, RestartDropped
    <1>8. ASSUME Check PROVE DoneInv'
        BY <1>8 DEF Check, Leaving
    <1>9. ASSUME Draw PROVE DoneInv'
        BY <1>9 DEF Draw, Drawn
    <1>10. ASSUME PollDrain PROVE DoneInv'
        BY <1>10 DEF PollDrain, DrainComplete
    <1>11. ASSUME Suspend PROVE DoneInv'
        BY <1>11 DEF Suspend
    <1>12. ASSUME Suspended PROVE DoneInv'
        BY <1>12 DEF Suspended, Quiescent
    <1>13. ASSUME FinalFrame PROVE DoneInv'
        BY <1>13 DEF FinalFrame, Drawn
    <1>14. ASSUME Export PROVE DoneInv'
        BY <1>14 DEF Export
    <1>15. ASSUME Decide PROVE DoneInv'
        BY <1>15 DEF Decide
    <1>16. ASSUME Again PROVE DoneInv'
        BY <1>16 DEF Again, QuitKept
    <1>17. ASSUME Reseed PROVE DoneInv'
        BY <1>17 DEF Reseed
    <1>18. ASSUME Finish PROVE DoneInv'
        BY <1>18 DEF Finish
    <1>19. ASSUME NEW w \in Workers, Lease(w) PROVE DoneInv'
        BY <1>19 DEF Lease
    <1>20. ASSUME NEW w \in Workers, Return(w) PROVE DoneInv'
        BY <1>20 DEF Return
    <1>21. ASSUME Retire PROVE DoneInv'
        BY <1>21 DEF Retire
    <1>22. ASSUME UNCHANGED vars PROVE DoneInv'
        BY <1>22 DEF vars
    <1> QED
        BY <1>1, <1>2, <1>3, <1>4, <1>5, <1>6, <1>7, <1>8, <1>9, <1>10, <1>11, <1>12, <1>13, <1>14,
           <1>15, <1>16, <1>17, <1>18, <1>19, <1>20, <1>21, <1>22 DEF Next, Control, Freed

-----------------------------------------------------------------------------
(* The ring of keys.                                                       *)

Names == Keys \cup {""}
KeysInv ==
    /\ commands \in [0 .. QueueSize - 1 -> Names]
    /\ sent \in Seq(Names) /\ applied \in Seq(Names)
    /\ KeysInOrder

(* A distance below the size of the queue wraps at most once.              *)
LEMMA WrapsOnce ==
    ASSUME NEW r \in 0 .. QueueSize - 1, NEW d \in 0..QueueSize
    PROVE  (r + d) % QueueSize = IF r + d < QueueSize THEN r + d ELSE r + d - QueueSize
    <1>1. QueueSize \in Nat \ {0}
        BY UniverseAssumption
    <1>2. PICK x \in 0..(2 * QueueSize - 1) : x = r + d
        BY <1>1
    <1>3. x < QueueSize => x % QueueSize = x
        BY <1>1
    <1>4. x >= QueueSize => x % QueueSize = x - QueueSize
        BY <1>1
    <1>5. QED
        BY <1>1, <1>2, <1>3, <1>4

(* The keys that wait: n of them, from cell r on. *)
Ring(c, r, n) == [k \in 1..n |-> c[(r + k - 1) % QueueSize]]

(* They are a sequence of keys as long as the count says. *)
LEMMA RingIsSeq ==
    ASSUME NEW c \in [0 .. QueueSize - 1 -> Names], NEW r \in 0 .. QueueSize - 1, NEW n \in 0..QueueSize
    PROVE  /\ Ring(c, r, n) \in Seq(Names) /\ Len(Ring(c, r, n)) = n
           /\ \A k \in 1..n : Ring(c, r, n)[k] = c[(r + (k - 1)) % QueueSize]
    <1> DEFINE q == Ring(c, r, n)
    <1>1. \A k \in 1..n : (r + k - 1) % QueueSize \in 0 .. QueueSize - 1
        <2>1. SUFFICES ASSUME NEW k \in 1..n
                       PROVE  (r + k - 1) % QueueSize \in 0 .. QueueSize - 1
            OBVIOUS
        <2>2. PICK x \in Int : x = r + k - 1
            OBVIOUS
        <2>3. QED
            BY <2>2, UniverseAssumption
    <1>2. q \in [1..n -> Names]
        BY <1>1 DEF Ring
    <1>3. n \in Nat
        BY UniverseAssumption
    <1>4. \A k \in 1..n : q[k] = c[(r + (k - 1)) % QueueSize]
        <2>1. \A k \in 1..n : r + k - 1 = r + (k - 1)
            OBVIOUS
        <2>2. QED
            BY <2>1 DEF Ring
    <1> HIDE DEF q
    <1>5. q \in Seq(Names)
        BY <1>2, <1>3, SeqDef
    <1>6. DOMAIN q = 1..n /\ DOMAIN q = 1..Len(q) /\ Len(q) \in Nat
        BY <1>2, <1>5, LenProperties
    <1>7. Len(q) = n
        BY <1>3, <1>6
    <1>8. QED
        BY <1>4, <1>5, <1>7 DEF q

(* A key written to the first free cell is the last of those that wait.    *)
LEMMA RingGrows ==
    ASSUME NEW c \in [0 .. QueueSize - 1 -> Names], NEW r \in 0 .. QueueSize - 1, NEW n \in 0..QueueSize,
           n < QueueSize, NEW k \in Names
    PROVE  Ring([c EXCEPT ![(r + n) % QueueSize] = k], r, n + 1) = Append(Ring(c, r, n), k)
    <1> DEFINE q == Ring(c, r, n)
               d == [c EXCEPT ![(r + n) % QueueSize] = k]
               p == Ring(d, r, n + 1)
               Cell(i) == (r + i) % QueueSize
    <1>1. QueueSize \in Nat \ {0} /\ n \in Nat /\ n + 1 \in 0..QueueSize
        BY UniverseAssumption
    <1>2. \A i \in 0..n : Cell(i) \in 0 .. QueueSize - 1 /\ (i # n => Cell(i) # Cell(n))
        <2>1. SUFFICES ASSUME NEW i \in 0..n
                       PROVE  Cell(i) \in 0 .. QueueSize - 1 /\ (i # n => Cell(i) # Cell(n))
            OBVIOUS
        <2>2. Cell(i) = IF r + i < QueueSize THEN r + i ELSE r + i - QueueSize
            BY <1>1, WrapsOnce
        <2>3. Cell(n) = IF r + n < QueueSize THEN r + n ELSE r + n - QueueSize
            BY WrapsOnce
        <2> HIDE DEF Cell
        <2>4. QED
            BY <1>1, <2>2, <2>3
    <1>3. d \in [0 .. QueueSize - 1 -> Names] /\ d[Cell(n)] = k
          /\ \A i \in 0..n : i # n => d[Cell(i)] = c[Cell(i)]
        BY <1>1, <1>2
    <1>4. q \in Seq(Names) /\ Len(q) = n /\ \A i \in 1..n : q[i] = c[Cell(i - 1)]
        BY RingIsSeq
    <1>5. p \in Seq(Names) /\ Len(p) = n + 1 /\ \A i \in 1..(n + 1) : p[i] = d[Cell(i - 1)]
        <2> HIDE DEF d
        <2>1. QED
            BY <1>1, <1>3, RingIsSeq
    <1>6. /\ Append(q, k) \in Seq(Names) /\ Len(Append(q, k)) = n + 1
          /\ \A i \in 1..n : Append(q, k)[i] = q[i]
          /\ Append(q, k)[n + 1] = k
        BY <1>4, AppendProperties
    <1> HIDE DEF q, d, p, Cell
    <1>7. ASSUME NEW i \in 1..(n + 1) PROVE p[i] = Append(q, k)[i]
        <2>1. p[i] = d[Cell(i - 1)]
            BY <1>5
        <2>2. CASE i = n + 1
            <3>1. i - 1 = n
                BY <1>1, <2>2
            <3>2. QED
                BY <1>3, <1>6, <2>1, <2>2, <3>1
        <2>3. CASE i # n + 1
            <3>1. i \in 1..n /\ i - 1 \in 0..n /\ i - 1 # n
                BY <1>1, <2>3
            <3>2. QED
                BY <1>3, <1>4, <1>6, <2>1, <3>1
        <2>4. QED
            BY <2>2, <2>3
    <1>8. p = Append(q, k)
        BY <1>5, <1>6, <1>7, SeqEqual
    <1>9. QED
        BY <1>8 DEF p, q, d

(* Without the key in the first cell, the next cell is the first.          *)
LEMMA RingShrinks ==
    ASSUME NEW c \in [0 .. QueueSize - 1 -> Names], NEW r \in 0 .. QueueSize - 1, NEW n \in 1..QueueSize
    PROVE  Ring(c, r, n) = <<c[r]>> \o Ring(c, (r + 1) % QueueSize, n - 1)
    <1> DEFINE q == Ring(c, r, n)
               s == (r + 1) % QueueSize
               p == Ring(c, s, n - 1)
    <1>1. QueueSize \in Nat \ {0} /\ n \in Nat /\ n \in 0..QueueSize
          /\ n - 1 \in 0..QueueSize /\ 1 \in 0..QueueSize
        BY UniverseAssumption
    <1>2. s = (IF r + 1 < QueueSize THEN r + 1 ELSE r + 1 - QueueSize) /\ s \in 0 .. QueueSize - 1
        <2>1. s = IF r + 1 < QueueSize THEN r + 1 ELSE r + 1 - QueueSize
            BY <1>1, WrapsOnce
        <2> HIDE DEF s
        <2>2. QED
            BY <1>1, <2>1
    <1> HIDE DEF s
    <1>3. q \in Seq(Names) /\ Len(q) = n /\ \A i \in 1..n : q[i] = c[(r + (i - 1)) % QueueSize]
        BY <1>1, RingIsSeq
    <1>4. p \in Seq(Names) /\ Len(p) = n - 1 /\ \A i \in 1..(n - 1) : p[i] = c[(s + (i - 1)) % QueueSize]
        BY <1>1, <1>2, RingIsSeq
    <1> HIDE DEF q, p
    <1>5. <<c[r]>> \in Seq(Names) /\ Len(<<c[r]>>) = 1 /\ <<c[r]>>[1] = c[r]
        OBVIOUS
    <1>6. /\ <<c[r]>> \o p \in Seq(Names) /\ Len(<<c[r]>> \o p) = n
          /\ \A i \in 1..n : (<<c[r]>> \o p)[i] = IF i <= 1 THEN c[r] ELSE p[i - 1]
        <2>1. 1 + (n - 1) = n
            BY <1>1
        <2>2. PICK one \in Seq(Names) : one = <<c[r]>> /\ Len(one) = 1 /\ one[1] = c[r]
            BY <1>5
        <2>3. /\ one \o p \in Seq(Names) /\ Len(one \o p) = n
              /\ \A i \in 1..n : (one \o p)[i] = IF i <= 1 THEN one[i] ELSE p[i - 1]
            BY <1>4, <2>1, <2>2, ConcatProperties
        <2>4. \A i \in 1..n : i <= 1 => i = 1
            OBVIOUS
        <2>5. QED
            BY <2>2, <2>3, <2>4
    <1>7. ASSUME NEW i \in 1..n PROVE q[i] = (<<c[r]>> \o p)[i]
        <2>1. q[i] = c[(r + (i - 1)) % QueueSize]
            BY <1>3
        <2>2. CASE i = 1
            <3>1. i - 1 = 0 /\ 0 \in 0..QueueSize /\ r + 0 < QueueSize /\ r + 0 = r
                BY <1>1, <2>2
            <3>2. (r + 0) % QueueSize = r
                BY <3>1, WrapsOnce
            <3>3. QED
                BY <1>6, <2>1, <2>2, <3>1, <3>2
        <2>3. CASE i # 1
            <3>1. i - 1 \in 1..(n - 1) /\ i - 1 \in 0..QueueSize /\ (i - 1) - 1 \in 0..QueueSize /\ ~(i <= 1)
                BY <1>1, <2>3
            <3>2. (r + (i - 1)) % QueueSize = IF r + (i - 1) < QueueSize THEN r + (i - 1)
                                              ELSE r + (i - 1) - QueueSize
                BY <3>1, WrapsOnce
            <3>3. (s + ((i - 1) - 1)) % QueueSize = IF s + ((i - 1) - 1) < QueueSize THEN s + ((i - 1) - 1)
                                                    ELSE s + ((i - 1) - 1) - QueueSize
                BY <1>2, <3>1, WrapsOnce
            <3>4. PICK j \in 1..n : j = i - 1 /\ j < QueueSize
                BY <1>1, <3>1
            <3>5. (r + (i - 1)) % QueueSize = (s + ((i - 1) - 1)) % QueueSize
                <4>1. CASE r + 1 < QueueSize
                    <5>1. s + ((i - 1) - 1) = r + (i - 1)
                        BY <1>2, <4>1
                    <5>2. QED
                        BY <5>1
                <4>2. CASE ~(r + 1 < QueueSize)
                    <5>1. s = 0 /\ r = QueueSize - 1
                        BY <1>1, <1>2, <4>2
                    <5>2. ~(r + (i - 1) < QueueSize) /\ r + (i - 1) - QueueSize = (i - 1) - 1
                          /\ s + ((i - 1) - 1) = (i - 1) - 1 /\ (i - 1) - 1 < QueueSize
                        BY <1>1, <3>1, <3>4, <5>1
                    <5>3. QED
                        BY <3>2, <3>3, <5>2
                <4>3. QED
                    BY <4>1, <4>2
            <3>6. QED
                BY <1>4, <1>6, <2>1, <3>1, <3>5
        <2>4. QED
            BY <2>2, <2>3
    <1>8. q = <<c[r]>> \o p
        BY <1>3, <1>6, <1>7, SeqEqual
    <1>9. QED
        BY <1>8 DEF p, q, s

(* Main puts a key behind those that wait, in the first free cell.         *)
LEMMA PressAppends ==
    ASSUME Numbers, KeysInv, NEW k \in Keys, Press(k)
    PROVE  KeysInv'
    <1>1. /\ WriteAt \in 0 .. QueueSize - 1 /\ k \in Names
          /\ pending' = pending + 1 /\ read' = read /\ pending < QueueSize
          /\ commands' = [commands EXCEPT ![WriteAt] = k]
          /\ sent' = Append(sent, k) /\ applied' = applied
        <2>1. WriteAt \in 0 .. QueueSize - 1
            <3>1. PICK x \in Int : x = read + pending
                BY UniverseAssumption DEF Numbers
            <3>2. QED
                BY <3>1, UniverseAssumption DEF WriteAt
        <2>2. QED
            BY <2>1 DEF Press, Room, Names
    <1>2. commands' \in [0 .. QueueSize - 1 -> Names]
        BY <1>1 DEF KeysInv
    <1>3. PICK q \in Seq(Names) : q = Queued /\ sent = applied \o q
        BY RingIsSeq DEF KeysInv, KeysInOrder, Queued, Ring, Numbers
    <1>4. Queued' = Append(q, k)
        <2>1. Queued = Ring(commands, read, pending) /\ Queued' = Ring(commands', read', pending')
            BY DEF Queued, Ring
        <2>2. QED
            BY <1>1, <1>3, <2>1, RingGrows DEF KeysInv, Numbers, WriteAt
    <1>5. Append(applied \o q, k) = applied \o Append(q, k)
        <2>1. applied \in Seq(Names) /\ applied \o q \in Seq(Names) /\ <<k>> \in Seq(Names)
            BY <1>1, ConcatProperties DEF KeysInv
        <2>2. Append(applied \o q, k) = (applied \o q) \o <<k>> /\ Append(q, k) = q \o <<k>>
            BY <1>1, <2>1, AppendIsConcat
        <2>3. QED
            BY <2>1, <2>2, ConcatAssociative
    <1>6. sent' \in Seq(Names) /\ applied' \in Seq(Names)
        BY <1>1, AppendProperties DEF KeysInv
    <1>7. QED
        BY <1>1, <1>2, <1>3, <1>4, <1>5, <1>6 DEF KeysInv, KeysInOrder

(* The controller takes the key that has waited longest.                   *)
LEMMA ApplyTakes ==
    ASSUME Numbers, KeysInv, Apply
    PROVE  KeysInv'
    <1>1. PICK c \in Names : /\ c = commands[read] /\ applied' = Append(applied, c)
        BY DEF Apply, KeysInv, Numbers
    <1>2. /\ pending \in 1..QueueSize
          /\ pending' = pending - 1 /\ read' = (read + 1) % QueueSize
          /\ commands' = commands /\ sent' = sent
        BY UniverseAssumption DEF Apply, Numbers
    <1>3. PICK q \in Seq(Names) : q = Queued'
        <2>1. Queued' = Ring(commands, (read + 1) % QueueSize, pending - 1)
            BY <1>2 DEF Queued, Ring
        <2>2. (read + 1) % QueueSize \in 0 .. QueueSize - 1 /\ pending - 1 \in 0..QueueSize
            BY <1>2, UniverseAssumption DEF Numbers
        <2>3. QED
            BY <2>1, <2>2, RingIsSeq DEF KeysInv
    <1>4. Queued = <<c>> \o q
        <2>1. Queued' = Ring(commands, (read + 1) % QueueSize, pending - 1)
            BY <1>2 DEF Queued, Ring
        <2>2. Queued = Ring(commands, read, pending)
            BY DEF Queued, Ring
        <2>3. QED
            BY <1>1, <1>2, <1>3, <2>1, <2>2, RingShrinks DEF KeysInv, Numbers
    <1>5. applied \o (<<c>> \o q) = Append(applied, c) \o q
        <2>1. applied \in Seq(Names) /\ <<c>> \in Seq(Names)
            BY DEF KeysInv
        <2>2. Append(applied, c) = applied \o <<c>>
            BY <2>1, AppendIsConcat
        <2>3. QED
            BY <2>1, <2>2, ConcatAssociative
    <1>6. sent' \in Seq(Names) /\ applied' \in Seq(Names)
        BY <1>1, <1>2, AppendProperties DEF KeysInv
    <1>7. QED
        BY <1>1, <1>2, <1>3, <1>4, <1>5, <1>6 DEF KeysInv, KeysInOrder

(* Nobody else touches the ring.                                           *)
LEMMA KeysStep ==
    ASSUME Numbers, KeysInv, [Next]_vars
    PROVE  KeysInv'
    <1>1. ASSUME UNCHANGED queue PROVE KeysInv'
        BY <1>1 DEF queue, KeysInv, KeysInOrder, Queued
    <1>2. ASSUME Control, ~Apply PROVE UNCHANGED queue
        BY <1>2 DEF Control, Start, Loop, Input, Check, Draw, PollDrain, Suspend, Suspended, FinalFrame,
                    Export, Decide, Again, Reseed, Finish
    <1>3. ASSUME NEW w \in Workers, Lease(w) \/ Return(w) PROVE UNCHANGED queue
        BY <1>3 DEF Lease, Return
    <1>4. ASSUME Close \/ Free \/ Retire \/ UNCHANGED vars PROVE UNCHANGED queue
        BY <1>4 DEF Close, Free, Retire, vars
    <1>5. QED
        BY <1>1, <1>2, <1>3, <1>4, PressAppends, ApplyTakes DEF Next, Freed

-----------------------------------------------------------------------------
(* The theorems.                                                           *)

UniverseInv == LifeInv /\ KeysInv

(* The first state.                                                        *)
LEMMA UniverseInit == Init => UniverseInv
    <1> SUFFICES ASSUME Init PROVE UniverseInv
        OBVIOUS
    <1>1. Flags
        <2>1. headless \in BOOLEAN
            BY UniverseAssumption DEF Init
        <2>2. QED
            BY <2>1 DEF Init, Flags
    <1>2. Places
        BY DEF Init, Places
    <1>3. Numbers
        <2>1. QueueSize \in Nat \ {0} /\ MaxLive \in Nat /\ InitialAnts \in 0..MaxLive
            BY UniverseAssumption
        <2>2. read = 0 /\ pending = 0 /\ live = InitialAnts /\ exports = 0 /\ users = {}
            BY DEF Init
        <2>3. QED
            BY <2>1, <2>2 DEF Numbers
    <1>4. MemberInv /\ FinalInv /\ ExportInv
        BY DEF Init, MemberInv, FinalInv, ExportInv, Turning, Leaves
    <1>5. ModeInv /\ DoneInv
        BY DEF Init, ModeInv, ModesAgree, DoneInv
    <1>6. KeysInv
        <2>1. commands \in [0 .. QueueSize - 1 -> Names]
            BY DEF Init, Names
        <2>2. sent \in Seq(Names) /\ applied \in Seq(Names)
            BY EmptySeq DEF Init
        <2>3. Queued = <<>>
            <3>1. Queued = Ring(commands, read, 0)
                BY DEF Init, Queued, Ring
            <3>2. Ring(commands, read, 0) \in Seq(Names) /\ Len(Ring(commands, read, 0)) = 0
                <4>1. read \in 0 .. QueueSize - 1 /\ 0 \in 0..QueueSize
                    BY <1>3, UniverseAssumption DEF Numbers
                <4>2. QED
                    BY <2>1, <4>1, RingIsSeq
            <3>3. QED
                BY <3>1, <3>2, EmptySeq
        <2>4. <<>> \o <<>> = <<>>
            BY ConcatEmptySeq, EmptySeq
        <2>5. QED
            BY <2>1, <2>2, <2>3, <2>4 DEF Init, KeysInv, KeysInOrder
    <1>7. QED
        BY <1>1, <1>2, <1>3, <1>4, <1>5, <1>6, Types DEF UniverseInv, LifeInv

(* The invariant is inductive, and so holds in every life of the universe. *)
THEOREM UniverseInvariant == Spec => []UniverseInv
    <1>1. ASSUME UniverseInv, [Next]_vars PROVE UniverseInv'
        <2>1. Flags /\ Places /\ Numbers /\ MemberInv /\ ModeInv /\ FinalInv /\ ExportInv /\ DoneInv /\ KeysInv
            BY <1>1, Types DEF UniverseInv, LifeInv
        <2>2. Flags' /\ Places' /\ Numbers' /\ MemberInv'
            BY <1>1, <2>1, FlagsStep, PlacesStep, NumbersStep, MemberStep
        <2>3. ModeInv' /\ FinalInv' /\ ExportInv' /\ DoneInv' /\ KeysInv'
            BY <1>1, <2>1, ModeStep, FinalStep, ExportStep, DoneStep, KeysStep
        <2>4. UniverseTypeOK'
            BY <2>2 DEF UniverseTypeOK, Flags, Places, Numbers, Turning, Leaves
        <2>5. QED
            BY <2>2, <2>3, <2>4 DEF UniverseInv, LifeInv
    <1>2. QED
        BY <1>1, UniverseInit, PTL DEF Spec

(* Every variable of a universe keeps its type. *)
THEOREM UniverseTypeCorrect == Spec => []UniverseTypeOK
    BY UniverseInvariant, PTL DEF UniverseInv, LifeInv

(* The keys that main accepted are handled in their order, none lost and   *)
(* none twice, whatever the size of the queue and however often the        *)
(* universe starts again.                                                  *)
THEOREM KeysStayInOrder == Spec => []KeysInOrder
    BY UniverseInvariant, PTL DEF UniverseInv, KeysInv

(* What the controller shows is what the scheduler does.                   *)
THEOREM ModesStayTogether == Spec => []ModesAgree
    BY UniverseInvariant, PTL DEF UniverseInv, LifeInv, ModeInv

(* A debug quit exports at most once, with nobody in the universe, and the *)
(* last frame and page are the final tape.                                 *)
THEOREM ExportsAtRest == Spec => []ExportAtRest
    <1>1. UniverseInv => ExportAtRest
        <2> SUFFICES ASSUME UniverseInv PROVE ExportAtRest
            OBVIOUS
        <2>1. Flags /\ Numbers /\ MemberInv /\ ExportInv
            BY Types DEF UniverseInv, LifeInv
        <2>2. exports <= 1
            BY <2>1 DEF ExportInv, Numbers
        <2>3. ASSUME exports = 1
              PROVE  debug /\ ~open /\ users = {} /\ page /\ (frame \/ failed)
            BY <2>1, <2>3 DEF ExportInv, MemberInv, Turning, Leaves
        <2>4. ASSUME ctl = "over", debug PROVE exports = 1 \/ failed
            BY <2>1, <2>4 DEF ExportInv
        <2>5. QED
            BY <2>2, <2>3, <2>4 DEF ExportAtRest
    <1>2. QED
        BY <1>1, UniverseInvariant, PTL

(* Main never frees what a controller or a worker still uses.              *)
THEOREM FreedIsUnused == Spec => []FreedUnused
    <1>1. UniverseInv => FreedUnused
        BY DEF UniverseInv, LifeInv, DoneInv, MemberInv, FreedUnused, Turning, Leaves
    <1>2. QED
        BY <1>1, UniverseInvariant, PTL

(* A debug quit is final: a restart asked for before it is taken back, one *)
(* asked for after it is not heard, and its universe gets no new life.     *)
THEOREM DebugQuitIsFinal == Spec => DrainIsFinal
    <1>1. UniverseInv /\ [Next]_vars => [debug => debug' /\ lives' = lives]_vars
        <2> SUFFICES ASSUME UniverseInv, Next, debug PROVE debug' /\ lives' = lives
            OBVIOUS
        <2>1. FinalInv
            BY DEF UniverseInv, LifeInv
        <2>2. ASSUME NEW k \in Keys, Press(k) PROVE UNCHANGED <<debug, lives>>
            BY <2>2 DEF Press, life
        <2>3. ASSUME Close \/ Free \/ Retire \/ Freed PROVE UNCHANGED <<debug, lives>>
            BY <2>3 DEF Close, Free, Retire, Freed, life, vars
        <2>4. ASSUME NEW w \in Workers, Lease(w) \/ Return(w) PROVE UNCHANGED <<debug, lives>>
            BY <2>4 DEF Lease, Return, life
        <2>5. ASSUME Apply PROVE debug' /\ lives' = lives
            BY <2>5 DEF Apply, HandleKey, BeginDebugDrain, Listens
        <2>6. ASSUME Input PROVE debug' /\ lives' = lives
            BY <2>6 DEF Input, BeginDebugDrain
        <2>7. ASSUME Control, ~Apply, ~Input PROVE UNCHANGED <<debug, lives>>
            BY <2>1, <2>7 DEF FinalInv, Control, Start, Loop, Check, Draw, PollDrain, Suspend, Suspended,
                              FinalFrame, Export, Decide, Again, Reseed, Finish, life
        <2>8. QED
            BY <2>2, <2>3, <2>4, <2>5, <2>6, <2>7 DEF Next
    <1>2. QED
        BY <1>1, UniverseInvariant, PTL DEF Spec, DrainIsFinal

-----------------------------------------------------------------------------
(* The universe as a client of the pool.                                   *)

(* What the contract sees changes only with the slot and its users.        *)
LEMMA Unseen ==
    ASSUME Phase' = Phase, users' = users
    PROVE  UNCHANGED Contract!vars
    BY DEF Contract!vars

(* Every step is one of the contract, or out of its sight.                 *)
LEMMA ContractStep ==
    ASSUME Flags, Places, MemberInv, ModeInv, [Next]_vars
    PROVE  Contract!Next \/ UNCHANGED Contract!vars
    <1>1. ASSUME Start PROVE Contract!Open(1)
        <2>1. Phase = "off" /\ Phase' = "open" /\ users' = users
            BY <1>1 DEF Start, MemberInv, Phase, Turning, Leaves
        <2>2. QED
            BY <2>1 DEF Contract!Open
    <1>2. ASSUME Suspend PROVE Contract!Close(1)
        <2>1. Phase = "open" /\ Phase' = "closing" /\ users' = users
            BY <1>2 DEF Suspend, Phase
        <2>2. QED
            BY <2>1 DEF Contract!Close
    <1>3. ASSUME Suspended PROVE Contract!Free(1)
        <2>1. Phase = "closing" /\ Phase' = "off" /\ users' = users /\ users = {}
            BY <1>3 DEF Suspended, Phase, Quiescent, Goto, pool
        <2>2. QED
            BY <2>1 DEF Contract!Free
    <1>4. ASSUME NEW w \in Workers, Lease(w) PROVE Contract!Use(w, 1)
        <2>1. Phase = "open" /\ Phase' = "open" /\ w \notin users /\ users' = users \cup {w}
            BY <1>4 DEF Lease, Phase
        <2>2. QED
            BY <2>1 DEF Contract!Use
    <1>5. ASSUME NEW w \in Workers, Return(w) PROVE Contract!Leave(w, 1)
        <2>1. Phase' = Phase /\ w \in users /\ users' = users \ {w}
            BY <1>5 DEF Return, Phase
        <2>2. QED
            BY <2>1 DEF Contract!Leave
    <1>6. ASSUME Loop \/ Check \/ PollDrain \/ Draw \/ Apply \/ Input PROVE UNCHANGED Contract!vars
        <2>1. open /\ open' /\ users' = users
            BY <1>6 DEF Loop, Check, PollDrain, Draw, Apply, Input, MemberInv, Turning, pool
        <2>2. QED
            BY <2>1, Unseen DEF Phase
    <1>7. ASSUME FinalFrame \/ Export \/ Decide \/ Again \/ Reseed \/ Finish PROVE UNCHANGED Contract!vars
        <2>1. open' = open /\ users' = users /\ ctl \notin Leaves /\ ctl' \notin Leaves
            BY <1>7 DEF FinalFrame, Export, Decide, Again, Reseed, Finish, Leaves, Goto, pool
        <2>2. QED
            BY <2>1, Unseen DEF Phase, Leaves
    <1>8. ASSUME NEW k \in Keys, Press(k) PROVE UNCHANGED Contract!vars
        BY <1>8, Unseen DEF Press, Phase, pool
    <1>9. ASSUME Close \/ Free \/ Retire \/ Freed \/ UNCHANGED vars PROVE UNCHANGED Contract!vars
        BY <1>9, Unseen DEF Close, Free, Retire, Freed, vars, Phase, pool
    <1>10. QED
        BY <1>1, <1>2, <1>3, <1>4, <1>5, <1>6, <1>7, <1>8, <1>9 DEF Next, Control, Contract!Next

(* The universe uses the pool as the pool's header asks of its owner, and  *)
(* gets what it promises.                                                  *)
THEOREM UniverseKeepsContract == Spec => ContractUsed
    <1>1. Init => Contract!Init
        BY DEF Init, Contract!Init, Phase
    <1>2. UniverseInv /\ [Next]_vars => [Contract!Next]_(Contract!vars)
        BY ContractStep, Types DEF UniverseInv, LifeInv
    <1>3. QED
        BY <1>1, <1>2, UniverseInvariant, PTL DEF Spec, ContractUsed, Contract!Spec

=============================================================================
