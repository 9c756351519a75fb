---------------------------- MODULE PortsProofs ----------------------------
(***************************************************************************)
(* Proofs about the two ports of the program: AndroidSaver, for every      *)
(* number of workers and ants, and Stripes (the STM32 port), for every     *)
(* number of cores, cells and semaphores and every assignment of cells to  *)
(* semaphores.                                                             *)
(*                                                                         *)
(* The names of AndroidSaver are used as they are, those of Stripes behind *)
(* the prefix Stm32.                                                       *)
(***************************************************************************)
EXTENDS AndroidSaver, FiniteSetTheorems, TLAPS

-----------------------------------------------------------------------------
(* The Android saver.                                                      *)
(*                                                                         *)
(* The properties speak about the moments between callbacks, and about an  *)
(* engine that is gone.  What leads there is where the callback and the    *)
(* frame thread are: ThreadInv, EngineInv.  Every ant of an engine is in   *)
(* its cell, away, marked or leased, which AntsInv counts; a scan that     *)
(* nobody disturbs has seen each of them, which ScanInv says.              *)

(* A thread runs exactly from its start to its join; between callbacks     *)
(* there is one only if the saver is on, and nothing changes the surface   *)
(* while there is one.                                                     *)
ThreadInv ==
    /\ thread <=> loop # "none"
    /\ ui \in {"interrupt", "join"} => thread
    /\ ui = "after" => ~thread
    /\ ui = "idle" /\ thread => active /\ surface
    /\ loop = "draw" => surface

(* Where the frame thread has an engine; and who is in one was created.    *)
EngineInv ==
    /\ loop \in {"none", "exited", "create"} => ~engine
    /\ loop \in {"frame", "draw", "sleep", "destroy", "joining"} => engine
    /\ ~engine => started = {}
    /\ \A w \in Workers \ started : pc[w] \in {"none", "exited"}

Executing == {w \in Workers : pc[w] = "run"}

(* Ants are neither lost nor made. *)
AntsInv ==
    /\ fit + away + marked + Cardinality(Executing) <= AntCount
    /\ engine => fit + away + marked + Cardinality(Executing) = AntCount

(* Only running workers mark ants, so in a scan during which none runs no  *)
(* ant is marked, and those that are away have set the deadline.           *)
ScanInv ==
    \A w \in Workers : pc[w] \in {"select", "deadline"} =>
      /\ ~stopping
      /\ Executing = {} => marked = 0 /\ (away > 0 => timed[w])

(* SaverTypeOK without the bounds on the ants, which AntsInv gives. *)
Typed ==
    /\ active \in BOOLEAN /\ surface \in BOOLEAN /\ thread \in BOOLEAN /\ stopFrames \in BOOLEAN
    /\ interrupted \in BOOLEAN
    /\ ui \in {"idle", "stop", "interrupt", "join", "after"}
    /\ task \in {"none", "setRunning", "surfaceChanged", "surfaceDestroyed", "detached"}
    /\ loop \in {"none", "test", "create", "frame", "draw", "sleep", "finally", "destroy", "joining", "exited"}
    /\ then \in {"create", "finally", "exited"}
    /\ engine \in BOOLEAN /\ started \subseteq Workers /\ stopping \in BOOLEAN
    /\ fit \in Nat /\ away \in Nat /\ marked \in Nat
    /\ pc \in [Workers -> {"none", "top", "select", "deadline", "run", "asleep", "exited"}]
    /\ timed \in [Workers -> BOOLEAN]

SaverInv == Typed /\ ThreadInv /\ EngineInv /\ AntsInv /\ ScanInv /\ SleepersCovered

(* Sets of workers are finite, and change by one when a worker comes or goes. *)
LEMMA NobodyExecutes == Cardinality({}) = 0 /\ AntCount \in Nat
    BY FS_EmptySet, SaverAssumption

(* Any of the workers can be counted. *)
LEMMA SomeExecute ==
    ASSUME NEW S \in SUBSET Workers
    PROVE  IsFiniteSet(S) /\ Cardinality(S) \in Nat
    BY FS_Subset, FS_CardinalityType, SaverAssumption

(* One more. *)
LEMMA OneMoreExecutes ==
    ASSUME NEW S \in SUBSET Workers, NEW w \in Workers \ S
    PROVE  Cardinality(S) \in Nat /\ Cardinality(S \cup {w}) = Cardinality(S) + 1
    BY SomeExecute, FS_AddElement

(* One less. *)
LEMMA OneLessExecutes ==
    ASSUME NEW S \in SUBSET Workers, NEW w \in S
    PROVE  Cardinality(S) \in Nat /\ Cardinality(S \ {w}) = Cardinality(S) - 1
    BY SomeExecute, FS_RemoveElement

(* At first there is no thread, no engine and nobody in one. *)
LEMMA SaverInit == Init => SaverInv
    <1> SUFFICES ASSUME Init PROVE SaverInv
        OBVIOUS
    <1>1. Typed /\ ThreadInv /\ EngineInv /\ ScanInv /\ SleepersCovered
        BY DEF Init, Typed, ThreadInv, EngineInv, ScanInv, SleepersCovered
    <1>2. Executing = {} /\ fit = 0 /\ away = 0 /\ marked = 0 /\ engine = FALSE
        BY DEF Init, Executing
    <1>3. AntsInv
        BY <1>2, NobodyExecutes DEF AntsInv
    <1>4. QED
        BY <1>1, <1>3 DEF SaverInv

(* Types are preserved. *)
LEMMA NextTypes ==
    ASSUME Typed, [Next]_vars
    PROVE  Typed'
    <1> USE DEF view, frame, ants, pool, Typed
    <1>1. ASSUME SetRunning PROVE Typed'
        <2> USE <1>1 DEF SetRunning, StartFrames, Starts
        <2>1. CASE surface /\ ~thread
            BY <2>1
        <2>2. CASE ~(surface /\ ~thread)
            BY <2>2
        <2>3. QED
            BY <2>1, <2>2
    <1>2. ASSUME Callback PROVE Typed'
        BY <1>2 DEF Callback
    <1>3. ASSUME StopFlag PROVE Typed'
        BY <1>3 DEF StopFlag
    <1>4. ASSUME Interrupt PROVE Typed'
        BY <1>4 DEF Interrupt
    <1>5. ASSUME JoinFrames PROVE Typed'
        BY <1>5 DEF JoinFrames, Joined
    <1>6. ASSUME After PROVE Typed'
        <2> USE <1>6 DEF After
        <2>1. CASE task = "surfaceChanged"
            <3>1. surface' \in BOOLEAN /\ StartFrames(active, surface', thread)
                BY <2>1
            <3>2. CASE active /\ surface' /\ ~thread
                BY <3>1, <3>2 DEF StartFrames, Starts
            <3>3. CASE ~(active /\ surface' /\ ~thread)
                BY <3>1, <3>3 DEF StartFrames, Starts
            <3>4. QED
                BY <3>2, <3>3
        <2>2. CASE task # "surfaceChanged"
            <3>1. surface' \in BOOLEAN /\ UNCHANGED <<thread, stopFrames, interrupted, loop>>
                BY <2>2
            <3>2. ui' = "idle" /\ task' = "none" /\ UNCHANGED <<active, then, engine, started, stopping, ants, pool>>
                OBVIOUS
            <3>3. QED
                BY <3>1, <3>2
        <2>3. QED
            BY <2>1, <2>2
    <1>7. ASSUME Test PROVE Typed'
        BY <1>7 DEF Test, Goto
    <1>8. ASSUME Create PROVE Typed'
        <2> USE <1>8, SaverAssumption DEF Create, Goto
        <2>1. CASE loop' = "finally"
            BY <2>1
        <2>2. CASE loop' # "finally"
            <3>1. /\ started' \subseteq Workers /\ loop' \in {"frame", "destroy"}
                  /\ then' \in {"create", "finally", "exited"}
                BY <2>2
            <3>2. engine' = TRUE /\ stopping' = FALSE /\ fit' \in Nat /\ away' \in Nat /\ marked' \in Nat
                BY <2>2
            <3>3. /\ pc' \in [Workers -> {"none", "top", "select", "deadline", "run", "asleep", "exited"}]
                  /\ timed' \in [Workers -> BOOLEAN]
                BY <2>2
            <3>4. UNCHANGED <<view, interrupted>>
                OBVIOUS
            <3>5. QED
                BY <3>1, <3>2, <3>3, <3>4
        <2>3. QED
            BY <2>1, <2>2
    <1>9. ASSUME Frame PROVE Typed'
        BY <1>9 DEF Frame, Goto
    <1>10. ASSUME Draw PROVE Typed'
        BY <1>10 DEF Draw
    <1>11. ASSUME Sleep PROVE Typed'
        BY <1>11 DEF Sleep, Goto
    <1>12. ASSUME Finally PROVE Typed'
        BY <1>12 DEF Finally, Goto
    <1>13. ASSUME DestroyStop PROVE Typed'
        BY <1>13 DEF DestroyStop, Goto, StopNotifies, Awake
    <1>14. ASSUME DestroyFree PROVE Typed'
        <2>1. loop' \in {"create", "finally", "exited"} /\ engine' = FALSE /\ started' = {}
            BY <1>14 DEF DestroyFree, Goto
        <2>2. UNCHANGED <<view, interrupted, then, stopping, ants, pool>>
            BY <1>14 DEF DestroyFree
        <2>3. loop' \in {"none", "test", "create", "frame", "draw", "sleep", "finally", "destroy", "joining", "exited"}
            BY <2>1
        <2>4. engine' \in BOOLEAN /\ started' \subseteq Workers
            BY <2>1
        <2>5. QED
            BY <2>2, <2>3, <2>4
    <1>15. ASSUME NEW w \in Workers, Recover(w) PROVE Typed'
        <2> USE <1>15 DEF Recover, Deadline
        <2>1. CASE stopping
            BY <2>1
        <2>2. CASE ~stopping
            <3>1. PICK back \in 0 .. away + marked : fit' = fit + back /\ away' = (away + marked) - back
                BY <2>2
            <3>2. fit' \in Nat /\ away' \in Nat /\ marked' \in Nat
                BY <2>2, <3>1
            <3>3. pc' \in [Workers -> {"none", "top", "select", "deadline", "run", "asleep", "exited"}] /\ timed' \in [Workers -> BOOLEAN]
                <4>1. (away' > 0) \in BOOLEAN
                    OBVIOUS
                <4>2. pc' = [pc EXCEPT ![w] = "select"] /\ timed' = [timed EXCEPT ![w] = (away' > 0)]
                    BY <2>2
                <4>3. QED
                    BY <4>1, <4>2
            <3>4. UNCHANGED <<view, interrupted, frame, engine, started, stopping>>
                OBVIOUS
            <3>5. QED
                BY <3>2, <3>3, <3>4
        <2>3. QED
            BY <2>1, <2>2
    <1>16. ASSUME NEW w \in Workers, Select(w) PROVE Typed'
        BY <1>16 DEF Select
    <1>17. ASSUME NEW w \in Workers, Rest(w) PROVE Typed'
        <2>1. Deadline(fit) \in BOOLEAN /\ timed[w] \in BOOLEAN
            BY DEF Deadline
        <2>2. (timed[w] \/ Deadline(fit)) \in BOOLEAN
            BY <2>1
        <2>3. timed' = [timed EXCEPT ![w] = (timed[w] \/ Deadline(fit))] /\ pc' = [pc EXCEPT ![w] = "asleep"]
            BY <1>17 DEF Rest
        <2>4. timed' \in [Workers -> BOOLEAN]
            BY <2>2, <2>3
        <2>5. pc' \in [Workers -> {"none", "top", "select", "deadline", "run", "asleep", "exited"}]
            BY <2>3
        <2>6. QED
            BY <1>17, <2>4, <2>5 DEF Rest
    <1>18. ASSUME NEW w \in Workers, Collide(w) PROVE Typed'
        BY <1>18 DEF Collide
    <1>19. ASSUME NEW w \in Workers, Release(w) PROVE Typed'
        BY <1>19 DEF Release, ReleaseNotifies, Awake
    <1>20. ASSUME NEW w \in Workers, TimeOut(w) PROVE Typed'
        BY <1>20 DEF TimeOut
    <1>21. ASSUME NEW w \in Workers, Spurious(w) PROVE Typed'
        BY <1>21 DEF Spurious
    <1>22. ASSUME UNCHANGED vars PROVE Typed'
        BY <1>22 DEF vars
    <1>23. QED
        BY <1>1, <1>2, <1>3, <1>4, <1>5, <1>6, <1>7, <1>8, <1>9, <1>10,
           <1>11, <1>12, <1>13, <1>14, <1>15, <1>16, <1>17, <1>18, <1>19, <1>20, <1>21, <1>22
        DEF Next, View, Loop, Scan, Run

(* The view and the frame thread keep together. *)
LEMMA NextThread ==
    ASSUME Typed, ThreadInv, [Next]_vars
    PROVE  ThreadInv'
    <1> USE DEF view, frame, ants, pool, Typed, ThreadInv
    <1>1. ASSUME SetRunning PROVE ThreadInv'
        BY <1>1 DEF SetRunning, StartFrames, Starts
    <1>2. ASSUME Callback PROVE ThreadInv'
        BY <1>2 DEF Callback
    <1>3. ASSUME StopFlag PROVE ThreadInv'
        BY <1>3 DEF StopFlag
    <1>4. ASSUME Interrupt PROVE ThreadInv'
        BY <1>4 DEF Interrupt
    <1>5. ASSUME JoinFrames PROVE ThreadInv'
        BY <1>5 DEF JoinFrames, Joined
    <1>6. ASSUME After PROVE ThreadInv'
        BY <1>6 DEF After, StartFrames, Starts
    <1>7. ASSUME Test PROVE ThreadInv'
        BY <1>7 DEF Test, Goto
    <1>8. ASSUME Create PROVE ThreadInv'
        BY <1>8 DEF Create, Goto
    <1>9. ASSUME Frame PROVE ThreadInv'
        BY <1>9 DEF Frame, Goto
    <1>10. ASSUME Draw PROVE ThreadInv'
        BY <1>10 DEF Draw
    <1>11. ASSUME Sleep PROVE ThreadInv'
        BY <1>11 DEF Sleep, Goto
    <1>12. ASSUME Finally PROVE ThreadInv'
        BY <1>12 DEF Finally, Goto
    <1>13. ASSUME DestroyStop PROVE ThreadInv'
        BY <1>13 DEF DestroyStop, Goto, StopNotifies, Awake
    <1>14. ASSUME DestroyFree PROVE ThreadInv'
        BY <1>14 DEF DestroyFree, Goto, AllJoined
    <1>15. ASSUME NEW w \in Workers, Recover(w) PROVE ThreadInv'
        BY <1>15 DEF Recover, Deadline
    <1>16. ASSUME NEW w \in Workers, Select(w) PROVE ThreadInv'
        BY <1>16 DEF Select
    <1>17. ASSUME NEW w \in Workers, Rest(w) PROVE ThreadInv'
        BY <1>17 DEF Rest, Deadline
    <1>18. ASSUME NEW w \in Workers, Collide(w) PROVE ThreadInv'
        BY <1>18 DEF Collide
    <1>19. ASSUME NEW w \in Workers, Release(w) PROVE ThreadInv'
        BY <1>19 DEF Release, ReleaseNotifies, Awake
    <1>20. ASSUME NEW w \in Workers, TimeOut(w) PROVE ThreadInv'
        BY <1>20 DEF TimeOut
    <1>21. ASSUME NEW w \in Workers, Spurious(w) PROVE ThreadInv'
        BY <1>21 DEF Spurious
    <1>22. ASSUME UNCHANGED vars PROVE ThreadInv'
        BY <1>22 DEF vars
    <1>23. QED
        BY <1>1, <1>2, <1>3, <1>4, <1>5, <1>6, <1>7, <1>8, <1>9, <1>10,
           <1>11, <1>12, <1>13, <1>14, <1>15, <1>16, <1>17, <1>18, <1>19, <1>20, <1>21, <1>22
        DEF Next, View, Loop, Scan, Run

(* The engine is made and freed where the frame thread says. *)
LEMMA NextEngine ==
    ASSUME Typed, EngineInv, [Next]_vars
    PROVE  EngineInv'
    <1> USE DEF view, frame, ants, pool, Typed, EngineInv
    <1>1. ASSUME SetRunning PROVE EngineInv'
        BY <1>1 DEF SetRunning, StartFrames, Starts
    <1>2. ASSUME Callback PROVE EngineInv'
        BY <1>2 DEF Callback
    <1>3. ASSUME StopFlag PROVE EngineInv'
        BY <1>3 DEF StopFlag
    <1>4. ASSUME Interrupt PROVE EngineInv'
        BY <1>4 DEF Interrupt
    <1>5. ASSUME JoinFrames PROVE EngineInv'
        BY <1>5 DEF JoinFrames, Joined
    <1>6. ASSUME After PROVE EngineInv'
        BY <1>6 DEF After, StartFrames, Starts
    <1>7. ASSUME Test PROVE EngineInv'
        BY <1>7 DEF Test, Goto
    <1>8. ASSUME Create PROVE EngineInv'
        BY <1>8 DEF Create, Goto
    <1>9. ASSUME Frame PROVE EngineInv'
        BY <1>9 DEF Frame, Goto
    <1>10. ASSUME Draw PROVE EngineInv'
        BY <1>10 DEF Draw
    <1>11. ASSUME Sleep PROVE EngineInv'
        BY <1>11 DEF Sleep, Goto
    <1>12. ASSUME Finally PROVE EngineInv'
        BY <1>12 DEF Finally, Goto
    <1>13. ASSUME DestroyStop PROVE EngineInv'
        BY <1>13 DEF DestroyStop, Goto, StopNotifies, Awake
    <1>14. ASSUME DestroyFree PROVE EngineInv'
        BY <1>14 DEF DestroyFree, Goto, AllJoined
    <1>15. ASSUME NEW w \in Workers, Recover(w) PROVE EngineInv'
        BY <1>15 DEF Recover, Deadline
    <1>16. ASSUME NEW w \in Workers, Select(w) PROVE EngineInv'
        BY <1>16 DEF Select
    <1>17. ASSUME NEW w \in Workers, Rest(w) PROVE EngineInv'
        BY <1>17 DEF Rest, Deadline
    <1>18. ASSUME NEW w \in Workers, Collide(w) PROVE EngineInv'
        BY <1>18 DEF Collide
    <1>19. ASSUME NEW w \in Workers, Release(w) PROVE EngineInv'
        BY <1>19 DEF Release, ReleaseNotifies, Awake
    <1>20. ASSUME NEW w \in Workers, TimeOut(w) PROVE EngineInv'
        BY <1>20 DEF TimeOut
    <1>21. ASSUME NEW w \in Workers, Spurious(w) PROVE EngineInv'
        BY <1>21 DEF Spurious
    <1>22. ASSUME UNCHANGED vars PROVE EngineInv'
        BY <1>22 DEF vars
    <1>23. QED
        BY <1>1, <1>2, <1>3, <1>4, <1>5, <1>6, <1>7, <1>8, <1>9, <1>10,
           <1>11, <1>12, <1>13, <1>14, <1>15, <1>16, <1>17, <1>18, <1>19, <1>20, <1>21, <1>22
        DEF Next, View, Loop, Scan, Run

(* Nobody who could hide an ant from a scan comes or goes during it. *)
LEMMA NextScan ==
    ASSUME Typed, ScanInv, [Next]_vars
    PROVE  ScanInv'
    <1> USE DEF view, frame, ants, pool, Typed, ScanInv, Executing
    <1>1. ASSUME SetRunning PROVE ScanInv'
        BY <1>1 DEF SetRunning, StartFrames, Starts
    <1>2. ASSUME Callback PROVE ScanInv'
        BY <1>2 DEF Callback
    <1>3. ASSUME StopFlag PROVE ScanInv'
        BY <1>3 DEF StopFlag
    <1>4. ASSUME Interrupt PROVE ScanInv'
        BY <1>4 DEF Interrupt
    <1>5. ASSUME JoinFrames PROVE ScanInv'
        BY <1>5 DEF JoinFrames, Joined
    <1>6. ASSUME After PROVE ScanInv'
        BY <1>6 DEF After, StartFrames, Starts
    <1>7. ASSUME Test PROVE ScanInv'
        BY <1>7 DEF Test, Goto
    <1>8. ASSUME Create PROVE ScanInv'
        BY <1>8 DEF Create, Goto
    <1>9. ASSUME Frame PROVE ScanInv'
        BY <1>9 DEF Frame, Goto
    <1>10. ASSUME Draw PROVE ScanInv'
        BY <1>10 DEF Draw
    <1>11. ASSUME Sleep PROVE ScanInv'
        BY <1>11 DEF Sleep, Goto
    <1>12. ASSUME Finally PROVE ScanInv'
        BY <1>12 DEF Finally, Goto
    <1>13. ASSUME DestroyStop PROVE ScanInv'
        BY <1>13 DEF DestroyStop, Goto, StopNotifies, Awake, Locked
    <1>14. ASSUME DestroyFree PROVE ScanInv'
        BY <1>14 DEF DestroyFree, Goto, AllJoined
    <1>15. ASSUME NEW w \in Workers, Recover(w) PROVE ScanInv'
        <2> USE <1>15 DEF Recover, Deadline
        <2>1. CASE stopping
            BY <2>1
        <2>2. CASE ~stopping
            <3>1. \A v \in Workers : pc[v] \notin {"select", "deadline"}
                BY DEF Locked
            <3>2. /\ pc' = [pc EXCEPT ![w] = "select"] /\ timed' = [timed EXCEPT ![w] = (away' > 0)]
                  /\ marked' = 0 /\ stopping' = FALSE
                BY <2>2
            <3>3. \A v \in Workers \ {w} : pc'[v] \notin {"select", "deadline"}
                BY <3>1, <3>2
            <3>4. away' > 0 => timed'[w]
                BY <3>2
            <3>5. QED
                BY <3>2, <3>3, <3>4
        <2>3. QED
            BY <2>1, <2>2
    <1>16. ASSUME NEW w \in Workers, Select(w) PROVE ScanInv'
        BY <1>16 DEF Select
    <1>17. ASSUME NEW w \in Workers, Rest(w) PROVE ScanInv'
        BY <1>17 DEF Rest, Deadline
    <1>18. ASSUME NEW w \in Workers, Collide(w) PROVE ScanInv'
        BY <1>18 DEF Collide
    <1>19. ASSUME NEW w \in Workers, Release(w) PROVE ScanInv'
        BY <1>19 DEF Release, ReleaseNotifies, Awake, Locked
    <1>20. ASSUME NEW w \in Workers, TimeOut(w) PROVE ScanInv'
        BY <1>20 DEF TimeOut
    <1>21. ASSUME NEW w \in Workers, Spurious(w) PROVE ScanInv'
        BY <1>21 DEF Spurious
    <1>22. ASSUME UNCHANGED vars PROVE ScanInv'
        BY <1>22 DEF vars
    <1>23. QED
        BY <1>1, <1>2, <1>3, <1>4, <1>5, <1>6, <1>7, <1>8, <1>9, <1>10,
           <1>11, <1>12, <1>13, <1>14, <1>15, <1>16, <1>17, <1>18, <1>19, <1>20, <1>21, <1>22
        DEF Next, View, Loop, Scan, Run

(* Whoever brings an ant back wakes the sleepers, and a scan that nobody   *)
(* disturbed finds a deadline or an ant.                                   *)
LEMMA NextSleepers ==
    ASSUME Typed, EngineInv, AntsInv, ScanInv, SleepersCovered, [Next]_vars
    PROVE  SleepersCovered'
    <1> USE DEF view, frame, ants, pool, Typed, SleepersCovered
    <1>1. ASSUME SetRunning PROVE SleepersCovered'
        BY <1>1 DEF SetRunning, StartFrames, Starts
    <1>2. ASSUME Callback PROVE SleepersCovered'
        BY <1>2 DEF Callback
    <1>3. ASSUME StopFlag PROVE SleepersCovered'
        BY <1>3 DEF StopFlag
    <1>4. ASSUME Interrupt PROVE SleepersCovered'
        BY <1>4 DEF Interrupt
    <1>5. ASSUME JoinFrames PROVE SleepersCovered'
        BY <1>5 DEF JoinFrames, Joined
    <1>6. ASSUME After PROVE SleepersCovered'
        BY <1>6 DEF After, StartFrames, Starts
    <1>7. ASSUME Test PROVE SleepersCovered'
        BY <1>7 DEF Test, Goto
    <1>8. ASSUME Create PROVE SleepersCovered'
        BY <1>8 DEF Create, Goto
    <1>9. ASSUME Frame PROVE SleepersCovered'
        BY <1>9 DEF Frame, Goto
    <1>10. ASSUME Draw PROVE SleepersCovered'
        BY <1>10 DEF Draw
    <1>11. ASSUME Sleep PROVE SleepersCovered'
        BY <1>11 DEF Sleep, Goto
    <1>12. ASSUME Finally PROVE SleepersCovered'
        BY <1>12 DEF Finally, Goto
    <1>13. ASSUME DestroyStop PROVE SleepersCovered'
        BY <1>13 DEF DestroyStop, Goto, StopNotifies, Awake
    <1>14. ASSUME DestroyFree PROVE SleepersCovered'
        BY <1>14 DEF DestroyFree, Goto, AllJoined
    <1>15. ASSUME NEW w \in Workers, Recover(w) PROVE SleepersCovered'
        <2>1. \A v \in Workers : pc[v] = "run" => pc'[v] = "run"
            BY <1>15 DEF Recover
        <2>2. \A v \in Workers : pc'[v] = "asleep" => pc[v] = "asleep" /\ timed'[v] = timed[v]
            BY <1>15 DEF Recover
        <2>3. UNCHANGED stopping
            BY <1>15 DEF Recover
        <2>4. QED
            BY <2>1, <2>2, <2>3
    <1>16. ASSUME NEW w \in Workers, Select(w) PROVE SleepersCovered'
        BY <1>16 DEF Select
    <1>17. ASSUME NEW w \in Workers, Rest(w) PROVE SleepersCovered'
        <2>1. /\ pc[w] = "deadline" /\ pc' = [pc EXCEPT ![w] = "asleep"] /\ UNCHANGED stopping
              /\ timed' = [timed EXCEPT ![w] = (timed[w] \/ Deadline(fit))]
            BY <1>17 DEF Rest
        <2>2. ~stopping /\ engine
            BY <2>1 DEF ScanInv, EngineInv
        <2>3. ~timed'[w] => \E v \in Workers : pc[v] = "run"
            <3> SUFFICES ASSUME ~timed'[w], Executing = {} PROVE FALSE
                BY DEF Executing
            <3>1. timed'[w] <=> timed[w] \/ Deadline(fit)
                BY <2>1
            <3>2. ~timed[w] /\ fit = 0
                BY <3>1 DEF Deadline
            <3>3. marked = 0 /\ away = 0
                BY <2>1, <3>2 DEF ScanInv
            <3>4. QED
                BY <2>2, <3>2, <3>3, NobodyExecutes, SaverAssumption DEF AntsInv
        <2>4. \A v \in Workers : pc[v] = "run" => pc'[v] = "run"
            BY <2>1
        <2>5. QED
            BY <2>1, <2>2, <2>3, <2>4
    <1>18. ASSUME NEW w \in Workers, Collide(w) PROVE SleepersCovered'
        BY <1>18 DEF Collide
    <1>19. ASSUME NEW w \in Workers, Release(w) PROVE SleepersCovered'
        BY <1>19 DEF Release, ReleaseNotifies, Awake
    <1>20. ASSUME NEW w \in Workers, TimeOut(w) PROVE SleepersCovered'
        BY <1>20 DEF TimeOut
    <1>21. ASSUME NEW w \in Workers, Spurious(w) PROVE SleepersCovered'
        BY <1>21 DEF Spurious
    <1>22. ASSUME UNCHANGED vars PROVE SleepersCovered'
        BY <1>22 DEF vars
    <1>23. QED
        BY <1>1, <1>2, <1>3, <1>4, <1>5, <1>6, <1>7, <1>8, <1>9, <1>10,
           <1>11, <1>12, <1>13, <1>14, <1>15, <1>16, <1>17, <1>18, <1>19, <1>20, <1>21, <1>22
        DEF Next, View, Loop, Scan, Run

(* A lease takes one ant and its return brings one back. *)
LEMMA NextAnts ==
    ASSUME Typed, AntsInv, EngineInv, [Next]_vars
    PROVE  AntsInv'
    <1> USE DEF view, frame, ants, pool, Typed, AntsInv, EngineInv, Executing
    <1>1. ASSUME SetRunning PROVE AntsInv'
        BY <1>1 DEF SetRunning, StartFrames, Starts
    <1>2. ASSUME Callback PROVE AntsInv'
        BY <1>2 DEF Callback
    <1>3. ASSUME StopFlag PROVE AntsInv'
        BY <1>3 DEF StopFlag
    <1>4. ASSUME Interrupt PROVE AntsInv'
        BY <1>4 DEF Interrupt
    <1>5. ASSUME JoinFrames PROVE AntsInv'
        BY <1>5 DEF JoinFrames, Joined
    <1>6. ASSUME After PROVE AntsInv'
        BY <1>6 DEF After, StartFrames, Starts
    <1>7. ASSUME Test PROVE AntsInv'
        BY <1>7 DEF Test, Goto
    <1>8. ASSUME Create PROVE AntsInv'
        <2> USE <1>8 DEF Create, Goto
        <2>1. CASE loop' = "finally"
            <3>1. UNCHANGED <<engine, ants, pool>>
                BY <2>1
            <3>2. QED
                BY <3>1
        <2>2. CASE loop' # "finally"
            <3>1. Executing' = {}
                BY <2>2
            <3>2. fit' = AntCount /\ away' = 0 /\ marked' = 0
                BY <2>2
            <3>3. QED
                BY <3>1, <3>2, NobodyExecutes
        <2>3. QED
            BY <2>1, <2>2
    <1>9. ASSUME Frame PROVE AntsInv'
        BY <1>9 DEF Frame, Goto
    <1>10. ASSUME Draw PROVE AntsInv'
        BY <1>10 DEF Draw
    <1>11. ASSUME Sleep PROVE AntsInv'
        BY <1>11 DEF Sleep, Goto
    <1>12. ASSUME Finally PROVE AntsInv'
        BY <1>12 DEF Finally, Goto
    <1>13. ASSUME DestroyStop PROVE AntsInv'
        BY <1>13 DEF DestroyStop, Goto, StopNotifies, Awake
    <1>14. ASSUME DestroyFree PROVE AntsInv'
        BY <1>14 DEF DestroyFree, Goto, AllJoined
    <1>15. ASSUME NEW w \in Workers, Recover(w) PROVE AntsInv'
        <2>1. fit' + away' + marked' = fit + away + marked
            <3>1. CASE stopping
                BY <1>15, <3>1 DEF Recover
            <3>2. CASE ~stopping
                <4>1. PICK back \in 0 .. away + marked : fit' = fit + back /\ away' = (away + marked) - back
                    BY <1>15, <3>2 DEF Recover
                <4>2. marked' = 0
                    BY <1>15, <3>2 DEF Recover
                <4>3. QED
                    BY <4>1, <4>2
            <3>3. QED
                BY <3>1, <3>2
        <2>2. Executing' = Executing /\ engine' = engine
            BY <1>15 DEF Recover
        <2>3. QED
            BY <2>1, <2>2
    <1>16. ASSUME NEW w \in Workers, Select(w) PROVE AntsInv'
        <2> USE <1>16 DEF Select
        <2>1. CASE fit > 0 /\ fit' = fit - 1 /\ pc' = [pc EXCEPT ![w] = "run"]
            <3>1. Executing' = Executing \cup {w} /\ w \notin Executing
                BY <2>1
            <3>2. Cardinality(Executing) \in Nat /\ Cardinality(Executing') = Cardinality(Executing) + 1
                BY <3>1, OneMoreExecutes
            <3>3. UNCHANGED <<away, marked, engine>>
                OBVIOUS
            <3>4. QED
                BY <2>1, <3>2, <3>3
        <2>2. CASE pc' = [pc EXCEPT ![w] = "deadline"] /\ UNCHANGED fit
            BY <2>2
        <2>3. QED
            BY <2>1, <2>2
    <1>17. ASSUME NEW w \in Workers, Rest(w) PROVE AntsInv'
        <2>1. Executing' = Executing /\ UNCHANGED <<ants, engine>>
            BY <1>17 DEF Rest
        <2>2. QED
            BY <2>1
    <1>18. ASSUME NEW w \in Workers, Collide(w) PROVE AntsInv'
        <2>1. Executing' = Executing /\ engine' = engine
            BY <1>18 DEF Collide
        <2>2. fit' + away' + marked' = fit + away + marked
            BY <1>18 DEF Collide
        <2>3. QED
            BY <2>1, <2>2
    <1>19. ASSUME NEW w \in Workers, Release(w) PROVE AntsInv'
        <2>1. pc[w] = "run" /\ Executing' = Executing \ {w}
            BY <1>19 DEF Release, ReleaseNotifies, Awake
        <2>2. fit' + away' + marked' = fit + away + marked + 1
            BY <1>19 DEF Release
        <2>3. Cardinality(Executing) \in Nat /\ Cardinality(Executing') = Cardinality(Executing) - 1
            BY <2>1, OneLessExecutes
        <2>4. QED
            BY <1>19, <2>2, <2>3 DEF Release
    <1>20. ASSUME NEW w \in Workers, TimeOut(w) PROVE AntsInv'
        BY <1>20 DEF TimeOut
    <1>21. ASSUME NEW w \in Workers, Spurious(w) PROVE AntsInv'
        BY <1>21 DEF Spurious
    <1>22. ASSUME UNCHANGED vars PROVE AntsInv'
        BY <1>22 DEF vars
    <1>23. QED
        BY <1>1, <1>2, <1>3, <1>4, <1>5, <1>6, <1>7, <1>8, <1>9, <1>10,
           <1>11, <1>12, <1>13, <1>14, <1>15, <1>16, <1>17, <1>18, <1>19, <1>20, <1>21, <1>22
        DEF Next, View, Loop, Scan, Run

(* The invariant is inductive. *)
LEMMA SaverNext == SaverInv /\ [Next]_vars => SaverInv'
    BY NextTypes, NextThread, NextEngine, NextAnts, NextScan, NextSleepers DEF SaverInv

(* It holds of the specification. *)
LEMMA SaverInductive == Spec => []SaverInv
    BY SaverInit, SaverNext, PTL DEF Spec

(* Every variable keeps its type; an engine never has more ants than it    *)
(* was made with.                                                          *)
THEOREM SaverTypeCorrect == Spec => []SaverTypeOK
    <1>1. SaverInv => SaverTypeOK
        <2> SUFFICES ASSUME SaverInv PROVE SaverTypeOK
            OBVIOUS
        <2>1. Typed /\ AntsInv
            BY DEF SaverInv
        <2>2. Cardinality(Executing) \in Nat /\ AntCount \in Nat
            BY SomeExecute, SaverAssumption DEF Executing
        <2>3. fit \in 0..AntCount /\ away \in 0..AntCount /\ marked \in 0..AntCount
            BY <2>1, <2>2 DEF Typed, AntsInv
        <2>4. QED
            BY <2>1, <2>3 DEF Typed, SaverTypeOK
    <1>2. QED
        BY <1>1, SaverInductive, PTL

(* Between callbacks a saver that is not running or has no surface has no  *)
(* frame thread, and no frame is drawn without a surface, whatever the     *)
(* order of the callbacks and wherever they meet the frame thread          *)
(* (startFrames, stopFrames, renderLoop).                                  *)
THEOREM OffIsOff == Spec => []OffMeansOff
    <1>1. SaverInv => OffMeansOff
        BY DEF SaverInv, Typed, ThreadInv, OffMeansOff
    <1>2. QED
        BY <1>1, SaverInductive, PTL

(* When an engine is freed no worker is in it, also when only some of its  *)
(* workers could be created, and no engine outlives the frame thread that  *)
(* made it (android_engine_create, android_engine_destroy).                *)
THEOREM FreedEngineUnused == Spec => []EngineFreedUnused
    <1>1. SaverInv => EngineFreedUnused
        BY DEF SaverInv, EngineInv, EngineFreedUnused
    <1>2. QED
        BY <1>1, SaverInductive, PTL

(* Nobody sleeps through a stop; and whoever sleeps without a deadline     *)
(* (the untimed wait of scheduler_acquire) will be woken by the return of  *)
(* a lease, also when collisions hid ants from the loops of its scan       *)
(* (candidate_locked, mark_collision_loser, notify_locked).                *)
THEOREM SleepersAreCovered == Spec => []SleepersCovered
    <1>1. SaverInv => SleepersCovered
        BY DEF SaverInv
    <1>2. QED
        BY <1>1, SaverInductive, PTL

-----------------------------------------------------------------------------
(* The STM32 port.                                                         *)
(*                                                                         *)
(* Whoever is between lock and unlock holds the semaphore of its cell      *)
(* (Holding); two cores that hold the same semaphore are the same core, so *)
(* nobody else writes a cell between the look at it and the decision to    *)
(* replace it (StillThere); so the swap compares with the byte as it is.   *)

CONSTANTS Cores, Cells, Owners, Empty, StripeOf(_)
VARIABLES bytes, holder, place, request, seen

Stm32 == INSTANCE Stripes WITH pc <- place

StripesInv == Stm32!StripesTypeOK /\ Stm32!ByKind /\ Stm32!Holding /\ Stm32!StillThere

(* A request names a cell and bytes. *)
LEMMA RequestParts ==
    ASSUME NEW r \in Stm32!Requests
    PROVE  /\ r.cell \in Cells /\ StripeOf(r.cell) \in Stm32!Stripes
           /\ r.kind \in {"swap", "load"} /\ r.expected \in Stm32!Ids /\ r.new \in Stm32!Ids
    BY DEF Stm32!Requests, Stm32!Swaps, Stm32!Loads, Stm32!Ids, Stm32!Stripes

(* No core is Nobody. *)
LEMMA NobodyIsNoCore == Stm32!Nobody \notin Cores
    BY NoSetContainsEverything DEF Stm32!Nobody

(* The initial state is typed, and nobody is under way. *)
LEMMA StripesInitInv == Stm32!Init => StripesInv
    BY DEF Stm32!Ids, Stm32!Init, StripesInv, Stm32!StripesTypeOK, Stm32!ByKind, Stm32!Holding, Stm32!StillThere

(* Types are preserved. *)
LEMMA StripesNextType == Stm32!StripesTypeOK /\ [Stm32!Next]_(Stm32!vars) => Stm32!StripesTypeOK'
    <1> SUFFICES ASSUME Stm32!StripesTypeOK, [Stm32!Next]_(Stm32!vars) PROVE Stm32!StripesTypeOK'
        OBVIOUS
    <1> USE RequestParts DEF Stm32!StripesTypeOK
    <1>1. ASSUME NEW c \in Cores, Stm32!Call(c) PROVE Stm32!StripesTypeOK'
        BY <1>1 DEF Stm32!Call, Stm32!Goto
    <1>2. ASSUME NEW c \in Cores, Stm32!Lock(c) PROVE Stm32!StripesTypeOK'
        BY <1>2 DEF Stm32!Lock, Stm32!Goto
    <1>3. ASSUME NEW c \in Cores, Stm32!Find(c) PROVE Stm32!StripesTypeOK'
        BY <1>3, RequestParts DEF Stm32!Find, Stm32!Goto
    <1>4. ASSUME NEW c \in Cores, Stm32!Put(c) PROVE Stm32!StripesTypeOK'
        BY <1>4, RequestParts DEF Stm32!Put, Stm32!Goto
    <1>5. ASSUME NEW c \in Cores, Stm32!Unlock(c) PROVE Stm32!StripesTypeOK'
        BY <1>5 DEF Stm32!Unlock, Stm32!Goto
    <1>6. ASSUME NEW c \in Cores, Stm32!Load(c) PROVE Stm32!StripesTypeOK'
        BY <1>6, RequestParts DEF Stm32!Load, Stm32!Goto
    <1>7. ASSUME NEW c \in Cores, Stm32!Return(c) PROVE Stm32!StripesTypeOK'
        BY <1>7 DEF Stm32!Return, Stm32!Goto
    <1>8. CASE UNCHANGED Stm32!vars
        BY <1>8 DEF Stm32!vars
    <1>9. QED
        BY <1>1, <1>2, <1>3, <1>4, <1>5, <1>6, <1>7, <1>8 DEF Stm32!Next

(* The kind of a call decides its path. *)
LEMMA StripesNextByKind == StripesInv /\ [Stm32!Next]_(Stm32!vars) => Stm32!ByKind'
    <1> USE DEF StripesInv, Stm32!StripesTypeOK, Stm32!ByKind, Stm32!Goto
    <1> SUFFICES ASSUME StripesInv, Stm32!Next PROVE Stm32!ByKind'
        BY DEF Stm32!vars
    <1>1. ASSUME NEW c \in Cores, Stm32!Call(c) PROVE Stm32!ByKind'
        BY <1>1, RequestParts DEF Stm32!Call
    <1>2. ASSUME NEW c \in Cores, Stm32!Lock(c) \/ Stm32!Find(c) \/ Stm32!Put(c)
                              \/ Stm32!Unlock(c) \/ Stm32!Load(c) \/ Stm32!Return(c)
          PROVE  Stm32!ByKind'
        BY <1>2 DEF Stm32!Lock, Stm32!Find, Stm32!Put, Stm32!Unlock, Stm32!Load, Stm32!Return
    <1>3. QED
        BY <1>1, <1>2 DEF Stm32!Next

(* Semaphores are taken free and given back by their holder only. *)
LEMMA StripesNextHolding == StripesInv /\ [Stm32!Next]_(Stm32!vars) => Stm32!Holding'
    <1> SUFFICES ASSUME StripesInv, [Stm32!Next]_(Stm32!vars) PROVE Stm32!Holding'
        OBVIOUS
    <1> USE NobodyIsNoCore, RequestParts DEF StripesInv, Stm32!StripesTypeOK, Stm32!Holding, Stm32!Stripe
    <1>1. ASSUME NEW c \in Cores, Stm32!Call(c) PROVE Stm32!Holding'
        BY <1>1 DEF Stm32!Call, Stm32!Goto
    <1>2. ASSUME NEW c \in Cores, Stm32!Lock(c) PROVE Stm32!Holding'
        BY <1>2, RequestParts DEF Stm32!Lock, Stm32!Goto
    <1>3. ASSUME NEW c \in Cores, Stm32!Find(c) PROVE Stm32!Holding'
        BY <1>3 DEF Stm32!Find, Stm32!Goto
    <1>4. ASSUME NEW c \in Cores, Stm32!Put(c) PROVE Stm32!Holding'
        BY <1>4 DEF Stm32!Put, Stm32!Goto
    <1>5. ASSUME NEW c \in Cores, Stm32!Unlock(c) PROVE Stm32!Holding'
        BY <1>5, RequestParts DEF Stm32!Unlock, Stm32!Goto
    <1>6. ASSUME NEW c \in Cores, Stm32!Load(c) PROVE Stm32!Holding'
        BY <1>6 DEF Stm32!Load, Stm32!Goto
    <1>7. ASSUME NEW c \in Cores, Stm32!Return(c) PROVE Stm32!Holding'
        BY <1>7 DEF Stm32!Return, Stm32!Goto
    <1>8. CASE UNCHANGED Stm32!vars
        BY <1>8 DEF Stm32!vars
    <1>9. QED
        BY <1>1, <1>2, <1>3, <1>4, <1>5, <1>6, <1>7, <1>8 DEF Stm32!Next

(* A cell under inspection is written by nobody else. *)
LEMMA StripesNextStillThere == StripesInv /\ [Stm32!Next]_(Stm32!vars) => Stm32!StillThere'
    <1> SUFFICES ASSUME StripesInv, [Stm32!Next]_(Stm32!vars) PROVE Stm32!StillThere'
        OBVIOUS
    <1> USE RequestParts DEF StripesInv, Stm32!StripesTypeOK, Stm32!StillThere
    <1>1. ASSUME NEW c \in Cores, Stm32!Call(c) PROVE Stm32!StillThere'
        BY <1>1 DEF Stm32!Call, Stm32!Goto
    <1>2. ASSUME NEW c \in Cores, Stm32!Lock(c) PROVE Stm32!StillThere'
        BY <1>2 DEF Stm32!Lock, Stm32!Goto
    <1>3. ASSUME NEW c \in Cores, Stm32!Find(c) PROVE Stm32!StillThere'
        BY <1>3 DEF Stm32!Find, Stm32!Goto
    <1>4. ASSUME NEW c \in Cores, Stm32!Put(c) PROVE Stm32!StillThere'
        <2>1. ASSUME NEW d \in Cores, d # c, place[d] = "put"
              PROVE  request[d].cell # request[c].cell
            BY <1>4, <2>1 DEF Stm32!Put, Stm32!Holding, Stm32!Stripe
        <2>2. QED
            BY <1>4, <2>1, RequestParts DEF Stm32!Put, Stm32!Goto
    <1>5. ASSUME NEW c \in Cores, Stm32!Unlock(c) PROVE Stm32!StillThere'
        BY <1>5 DEF Stm32!Unlock, Stm32!Goto
    <1>6. ASSUME NEW c \in Cores, Stm32!Load(c) PROVE Stm32!StillThere'
        BY <1>6 DEF Stm32!Load, Stm32!Goto
    <1>7. ASSUME NEW c \in Cores, Stm32!Return(c) PROVE Stm32!StillThere'
        BY <1>7 DEF Stm32!Return, Stm32!Goto
    <1>8. CASE UNCHANGED Stm32!vars
        BY <1>8 DEF Stm32!vars
    <1>9. QED
        BY <1>1, <1>2, <1>3, <1>4, <1>5, <1>6, <1>7, <1>8 DEF Stm32!Next

(* The invariant is inductive. *)
LEMMA StripesNextInv == StripesInv /\ [Stm32!Next]_(Stm32!vars) => StripesInv'
    BY StripesNextType, StripesNextByKind, StripesNextHolding, StripesNextStillThere DEF StripesInv

(* Mutual exclusion per semaphore, and what it gives: the byte a core      *)
(* found is still there when the core decides about the swap.              *)
THEOREM StripesSafe == Stm32!Spec => [](Stm32!StripesTypeOK /\ Stm32!Holding /\ Stm32!StillThere)
    <1>1. Stm32!Spec => []StripesInv
        BY StripesInitInv, StripesNextInv, PTL DEF Stm32!Spec
    <1>2. StripesInv => Stm32!StripesTypeOK /\ Stm32!Holding /\ Stm32!StillThere
        BY DEF StripesInv
    <1>3. QED
        BY <1>1, <1>2, PTL

(* Every step is a step of atomic bytes, or none. *)
LEMMA StepRefines == StripesInv /\ [Stm32!Next]_(Stm32!vars) => [Stm32!Atomic!Next]_(Stm32!Atomic!vars)
    <1> SUFFICES ASSUME StripesInv, [Stm32!Next]_(Stm32!vars) PROVE [Stm32!Atomic!Next]_(Stm32!Atomic!vars)
        OBVIOUS
    <1> USE DEF StripesInv, Stm32!StripesTypeOK, Stm32!ByKind, Stm32!Atomic!vars, Stm32!Answered
    <1>1. ASSUME NEW c \in Cores, Stm32!Call(c) PROVE Stm32!Atomic!Ask(c)
        BY <1>1 DEF Stm32!Call, Stm32!Goto, Stm32!Atomic!Ask
    <1>2. ASSUME NEW c \in Cores, Stm32!Lock(c) PROVE UNCHANGED Stm32!Atomic!vars
        BY <1>2 DEF Stm32!Lock, Stm32!Goto
    <1>3. ASSUME NEW c \in Cores, Stm32!Find(c) PROVE UNCHANGED Stm32!Atomic!vars
        BY <1>3 DEF Stm32!Find, Stm32!Goto
    <1>4. ASSUME NEW c \in Cores, Stm32!Put(c) PROVE Stm32!Atomic!Do(c)
        <2>1. request[c].kind = "swap" /\ seen[c] = bytes[request[c].cell]
            BY <1>4 DEF Stm32!Put, Stm32!StillThere
        <2>2. place[c] = "put" /\ place' = [place EXCEPT ![c] = "unlock"] /\ UNCHANGED <<request, seen>>
            BY <1>4 DEF Stm32!Put, Stm32!Goto
        <2>3. bytes' = IF request[c].kind = "swap" /\ bytes[request[c].cell] = request[c].expected
                       THEN [bytes EXCEPT ![request[c].cell] = request[c].new] ELSE bytes
            BY <1>4, <2>1 DEF Stm32!Put
        <2>4. QED
            BY <2>1, <2>2, <2>3 DEF Stm32!Atomic!Do
    <1>5. ASSUME NEW c \in Cores, Stm32!Unlock(c) PROVE UNCHANGED Stm32!Atomic!vars
        BY <1>5 DEF Stm32!Unlock, Stm32!Goto
    <1>6. ASSUME NEW c \in Cores, Stm32!Load(c) PROVE Stm32!Atomic!Do(c)
        BY <1>6 DEF Stm32!Load, Stm32!Goto, Stm32!Atomic!Do
    <1>7. ASSUME NEW c \in Cores, Stm32!Return(c) PROVE Stm32!Atomic!Return(c)
        BY <1>7 DEF Stm32!Return, Stm32!Goto, Stm32!Atomic!Return
    <1>8. CASE UNCHANGED Stm32!vars
        BY <1>8 DEF Stm32!vars
    <1>9. QED
        BY <1>1, <1>2, <1>3, <1>4, <1>5, <1>6, <1>7, <1>8 DEF Stm32!Next, Stm32!Atomic!Next

(* Striped locks implement bytes that are compared and swapped atomically, *)
(* with unlocked loads beside them.                                        *)
THEOREM StripesRefine == Stm32!Spec => Stm32!AtomicSpec
    <1>1. Stm32!Init => Stm32!Atomic!Init
        BY DEF Stm32!Init, Stm32!Atomic!Init, Stm32!Answered
    <1>2. Stm32!Spec => []StripesInv
        BY StripesInitInv, StripesNextInv, PTL DEF Stm32!Spec
    <1>3. QED
        BY <1>1, <1>2, StepRefines, PTL DEF Stm32!Spec, Stm32!AtomicSpec, Stm32!Atomic!Spec

=============================================================================
