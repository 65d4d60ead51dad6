----------------------- MODULE KernelLifecycleProofs -----------------------
(***************************************************************************)
(* Proofs about KernelLifecycle: type correctness, the lock, that one      *)
(* kernel is at work, and that children of type A are waited for.          *)
(***************************************************************************)
EXTENDS KernelLifecycle, TLAPS

\* A kernel has the port from bind until main returns.
PortInv == \A k \in Kernels : main[k] \in {"bound", "joining"} \cup Serving => port = k

\* Its loops run only between their start and joinAll.
LoopInv == \A k \in Kernels : AtWork(k) => main[k] \in {"waiting", "stopping", "stuck", "joining"}

RowInv == \A k \in Kernels : ktask[k] = "loop" => row # "stop"

\* What is left of a pass is of its kind and in the map.
PassInv == \A k \in Kernels : sup[k] \in Passes => left[k] \subseteq handles[k] \cap Of(sup[k])

\* A row that names the process of a task, and a task that was told, have a process.
ChildInv ==
    \A t \in Tasks : (pid[t] = "child" => child[t]) /\ (told[t] # None => child[t])

\* The kernel will not pass this process by before it has ended.
Awaited(k, t) ==
    /\ t \in handles[k]
    /\ pid[t] = "child"
    /\ \/ t \in Bol /\ sup[k] = "tellBol"
       \/ t = Cloudagent /\ sup[k] = "tellAgent"
       \/ t \in left[k] /\ sup[k] \in {"waitBol", "waitAgent"}

ToldInv ==
    MissingReturn = {FALSE} =>
        \A t \in Tasks \ Hla :
            told[t] # None => main[told[t]] = "crashed" \/ Awaited(told[t], t)

------------------------------------------------------------------------------
(* Types *)

\* What the bounds count stays within them.
LEMMA Counters ==
    ASSUME TypeOK
    PROVE  /\ Fault => faults' \in 0..MaxFaults
           /\ units < MaxUnits => units + 1 \in 0..MaxUnits
           /\ faults + unlocks < MaxFaults => unlocks + 1 \in 0..MaxFaults
BY KernelAssumption DEF KernelAssumption, TypeOK, Fault

(***************************************************************************)
(* Tables, threads, children and what the bounds count keep their types,   *)
(* for any tasks and whatever a missing return gives (all of the module).  *)
(***************************************************************************)
THEOREM KernelTypes == Spec => []TypeOK
<1>1. Init => TypeOK
  <2>1. 0 \in 0..MaxFaults /\ 0 \in 0..MaxUnits
      BY KernelAssumption DEF KernelAssumption
  <2>2. ASSUME Init PROVE lock \in BOOLEAN /\ port \in Kernels \cup {None} /\ row \in {"stop", "running"}
      BY <2>2 DEF Init
  <2>3. ASSUME Init PROVE /\ main \in [Kernels -> {"off", "locked", "bound", "joining", "ending",
                                                   "ended", "crashed"} \cup Serving]
                           /\ first \in [Kernels -> BOOLEAN] /\ asked \in [Kernels -> BOOLEAN]
                           /\ sup \in [Kernels -> {"none", "init", "loop", "done"} \cup Passes]
                           /\ ktask \in [Kernels -> {"none", "start", "loop", "done"}]
      BY <2>3 DEF Init
  <2>4. ASSUME Init PROVE /\ handles \in [Kernels -> SUBSET Tasks]
                           /\ left \in [Kernels -> SUBSET Tasks]
      BY <2>4 DEF Init
  <2>5. ASSUME Init PROVE /\ pid \in [Tasks -> {"none", "stale", "child"}] /\ child \in [Tasks -> BOOLEAN]
                           /\ told \in [Tasks -> Kernels \cup {None}]
      BY <2>5 DEF Init
  <2> QED
      BY <2>1, <2>2, <2>3, <2>4, <2>5 DEF Init, TypeOK
<1>2. ASSUME TypeOK, [Next]_vars PROVE TypeOK'
  <2> USE <1>2, Counters DEF TypeOK, Passes, Serving
  <2>1. ASSUME NEW k \in Kernels, Start(k) PROVE TypeOK'
      BY <2>1 DEF Start, CheckSingleton, LockAfter, Goto, lockVars, mainVars, supVars, childVars
  <2>2. ASSUME NEW k \in Kernels, Bind(k) PROVE TypeOK'
      BY <2>2 DEF Bind, PortFree, Goto, lockVars, mainVars, supVars, childVars
  <2>3. ASSUME NEW k \in Kernels, Serve(k) PROVE TypeOK'
      BY <2>3 DEF Serve, Goto, PortAfter, lockVars, mainVars, supVars, childVars
  <2>4. ASSUME NEW k \in Kernels, StartTasks(k) PROVE TypeOK'
      BY <2>4 DEF StartTasks, Goto, PortAfter, lockVars, mainVars, supVars, childVars
  <2>5. ASSUME NEW k \in Kernels, Stop(k) PROVE TypeOK'
      BY <2>5 DEF Stop, Goto, PortAfter, lockVars, mainVars, supVars, childVars
  <2>6. ASSUME NEW k \in Kernels, Join(k) PROVE TypeOK'
      BY <2>6 DEF Join, Goto, Joined, PortAfter, lockVars, mainVars, supVars, childVars
  <2>7. ASSUME NEW k \in Kernels, Uninitialize(k) PROVE TypeOK'
      BY <2>7 DEF Uninitialize, Goto, LockAfter, lockVars, mainVars, supVars, childVars
  <2>8. ASSUME NEW k \in Kernels, Terminate(k) PROVE TypeOK'
      BY <2>8 DEF Terminate, Ask, lockVars, mainVars, supVars, childVars
  <2>9. ASSUME NEW k \in Kernels, Crash(k) PROVE TypeOK'
      BY <2>9 DEF Crash, Goto, lockVars, mainVars, supVars, childVars
  <2>10. ASSUME NEW k \in Kernels, KernelTask(k) PROVE TypeOK'
    <3>1. faults' \in 0..MaxFaults
        BY <2>10 DEF KernelTask
    <3>2. row' \in {"stop", "running"}
        BY <2>10 DEF KernelTask
    <3>3. asked' \in [Kernels -> BOOLEAN]
        BY <2>10 DEF KernelTask, Ask
    <3>4. ktask' \in [Kernels -> {"none", "start", "loop", "done"}]
        BY <2>10 DEF KernelTask
    <3> QED
        BY <2>10, <3>1, <3>2, <3>3, <3>4
           DEF KernelTask, lockVars, supVars, childVars
  <2>11. ASSUME NEW k \in Kernels, Leave(k) PROVE TypeOK'
      BY <2>11 DEF Leave, BeginPass, lockVars, mainVars, supVars, childVars
  <2>12. ASSUME NEW k \in Kernels, EndPass(k) PROVE TypeOK'
    <3>1. faults' \in 0..MaxFaults /\ status' \in {"normal", "offline"}
        BY <2>12 DEF EndPass
    <3>2. asked' \in [Kernels -> BOOLEAN] /\ handles' \in [Kernels -> SUBSET Tasks]
        BY <2>12 DEF EndPass, Ask
    <3>3. left' \in [Kernels -> SUBSET Tasks]
        BY <2>12 DEF EndPass, BeginPass
    <3>4. sup' \in [Kernels -> {"none", "init", "loop", "done"} \cup Passes]
        BY <2>12 DEF EndPass, BeginPass, After
    <3> QED
        BY <2>12, <3>1, <3>2, <3>3, <3>4
           DEF EndPass, lockVars, childVars
  <2>13. ASSUME NEW k \in Kernels, NEW t \in Tasks, Add(k, t) PROVE TypeOK'
      BY <2>13 DEF Add, Working, Cancelled, lockVars, mainVars, supVars, childVars
  <2>14. ASSUME NEW k \in Kernels, NEW t \in Tasks, Relaunch(k, t) PROVE TypeOK'
      BY <2>14 DEF Relaunch, Working, Cancelled, lockVars, mainVars, supVars, childVars
  <2>15. ASSUME NEW k \in Kernels, NEW t \in Tasks, Drop(k, t) PROVE TypeOK'
      BY <2>15 DEF Drop, Working, Cancelled, lockVars, mainVars, supVars, childVars
  <2>16. ASSUME NEW k \in Kernels, NEW t \in Tasks, Tell(k, t) PROVE TypeOK'
      BY <2>16 DEF Tell, lockVars, mainVars, supVars, childVars
  <2>17. ASSUME NEW k \in Kernels, NEW t \in Tasks, Seen(k, t) PROVE TypeOK'
      BY <2>17 DEF Seen, HasStopped, GivesUp, lockVars, mainVars, supVars, childVars
  <2>18. ASSUME Unlock PROVE TypeOK'
      BY <2>18 DEF Unlock, lockVars, mainVars, supVars, childVars
  <2>19. ASSUME SetBolStatus PROVE TypeOK'
      BY <2>19 DEF SetBolStatus, lockVars, mainVars, supVars, childVars
  <2>20. ASSUME NEW t \in Tasks, HeartBeat(t) PROVE TypeOK'
      BY <2>20 DEF HeartBeat, lockVars, mainVars, supVars, childVars
  <2>21. ASSUME NEW t \in Tasks, Die(t) PROVE TypeOK'
      BY <2>21 DEF Die, lockVars, mainVars, supVars, childVars
  <2>22. ASSUME UNCHANGED vars PROVE TypeOK'
      BY <2>22 DEF vars, lockVars, mainVars, supVars, childVars
  <2>23. ASSUME NEW k \in Kernels, ServerStopped(k) PROVE TypeOK'
      BY <2>23 DEF ServerStopped, Goto, PortAfter, lockVars, mainVars, supVars, childVars
  <2> QED
      BY <1>2, <2>1, <2>2, <2>3, <2>4, <2>5, <2>6, <2>7, <2>8, <2>9, <2>10, <2>11, <2>12, <2>13, <2>14, <2>15, <2>16, <2>17, <2>18, <2>19, <2>20, <2>21, <2>22, <2>23 DEF Next, MainThread, Unit, TerminateAllChild
<1> QED
    BY <1>1, <1>2, PTL DEF Spec

------------------------------------------------------------------------------
(* The lock *)

\* A kernel that has not started has made no lock.
FirstInv == \A k \in Kernels : main[k] = "off" => ~first[k]

LEMMA LockSame ==
    ASSUME LockKept, FirstInv, UNCHANGED <<lock, unlocks, first, main>>
    PROVE  LockKept' /\ FirstInv'
BY DEF LockKept, FirstInv, Runs

(***************************************************************************)
(* Until an operator removes a lock, one kernel at most has passed the     *)
(* check and not ended, and its lock is there, for any number of starts    *)
(* and crashes (checkSinglton, uninitialize).                              *)
(***************************************************************************)
THEOREM LockIsKept == Spec => []LockKept
<1>1. Init => LockKept /\ FirstInv
    BY DEF Init, LockKept, FirstInv, Runs
<1>2. ASSUME TypeOK, LockKept, FirstInv, [Next]_vars PROVE LockKept' /\ FirstInv'
  <2>1. ASSUME NEW k \in Kernels, Start(k) PROVE LockKept' /\ FirstInv'
      BY <1>2, <2>1 DEF Start, CheckSingleton, LockAfter, Goto, TypeOK, LockKept, FirstInv, Runs, lockVars
  <2>2. ASSUME NEW k \in Kernels, Bind(k) PROVE LockKept' /\ FirstInv'
      BY <1>2, <2>2 DEF Bind, Goto, TypeOK, LockKept, FirstInv, Runs, lockVars
  <2>3. ASSUME NEW k \in Kernels, Serve(k) PROVE LockKept' /\ FirstInv'
      BY <1>2, <2>3 DEF Serve, Goto, TypeOK, LockKept, FirstInv, Runs, lockVars
  <2>4. ASSUME NEW k \in Kernels, StartTasks(k) PROVE LockKept' /\ FirstInv'
      BY <1>2, <2>4 DEF StartTasks, Goto, TypeOK, LockKept, FirstInv, Runs, lockVars
  <2>5. ASSUME NEW k \in Kernels, Stop(k) PROVE LockKept' /\ FirstInv'
      BY <1>2, <2>5 DEF Stop, Goto, TypeOK, LockKept, FirstInv, Runs, lockVars
  <2>6. ASSUME NEW k \in Kernels, Join(k) PROVE LockKept' /\ FirstInv'
      BY <1>2, <2>6 DEF Join, Goto, TypeOK, LockKept, FirstInv, Runs, lockVars
  <2>7. ASSUME NEW k \in Kernels, Uninitialize(k) PROVE LockKept' /\ FirstInv'
      BY <1>2, <2>7 DEF Uninitialize, LockAfter, Goto, TypeOK, LockKept, FirstInv, Runs, lockVars
  <2>8. ASSUME NEW k \in Kernels, Terminate(k) PROVE LockKept' /\ FirstInv'
      BY <1>2, <2>8, LockSame DEF Terminate, lockVars
  <2>9. ASSUME NEW k \in Kernels, Crash(k) PROVE LockKept' /\ FirstInv'
      BY <1>2, <2>9 DEF Crash, Goto, TypeOK, LockKept, FirstInv, Runs, lockVars
  <2>10. ASSUME NEW k \in Kernels, KernelTask(k) PROVE LockKept' /\ FirstInv'
      BY <1>2, <2>10, LockSame DEF KernelTask, lockVars
  <2>11. ASSUME NEW k \in Kernels, Leave(k) PROVE LockKept' /\ FirstInv'
      BY <1>2, <2>11, LockSame DEF Leave, lockVars, mainVars
  <2>12. ASSUME NEW k \in Kernels, EndPass(k) PROVE LockKept' /\ FirstInv'
      BY <1>2, <2>12, LockSame DEF EndPass, lockVars
  <2>13. ASSUME NEW k \in Kernels, NEW t \in Tasks, Add(k, t) PROVE LockKept' /\ FirstInv'
      BY <1>2, <2>13, LockSame DEF Add, lockVars, mainVars
  <2>14. ASSUME NEW k \in Kernels, NEW t \in Tasks, Relaunch(k, t) PROVE LockKept' /\ FirstInv'
      BY <1>2, <2>14, LockSame DEF Relaunch, lockVars, mainVars
  <2>15. ASSUME NEW k \in Kernels, NEW t \in Tasks, Drop(k, t) PROVE LockKept' /\ FirstInv'
      BY <1>2, <2>15, LockSame DEF Drop, lockVars, mainVars
  <2>16. ASSUME NEW k \in Kernels, NEW t \in Tasks, Tell(k, t) PROVE LockKept' /\ FirstInv'
      BY <1>2, <2>16, LockSame DEF Tell, lockVars, mainVars
  <2>17. ASSUME NEW k \in Kernels, NEW t \in Tasks, Seen(k, t) PROVE LockKept' /\ FirstInv'
      BY <1>2, <2>17, LockSame DEF Seen, lockVars, mainVars
  <2>18. ASSUME Unlock PROVE LockKept' /\ FirstInv'
      BY <1>2, <2>18 DEF Unlock, TypeOK, LockKept, FirstInv, mainVars
  <2>19. ASSUME SetBolStatus PROVE LockKept' /\ FirstInv'
      BY <1>2, <2>19, LockSame DEF SetBolStatus, lockVars, mainVars
  <2>20. ASSUME NEW t \in Tasks, HeartBeat(t) PROVE LockKept' /\ FirstInv'
      BY <1>2, <2>20, LockSame DEF HeartBeat, lockVars, mainVars
  <2>21. ASSUME NEW t \in Tasks, Die(t) PROVE LockKept' /\ FirstInv'
      BY <1>2, <2>21, LockSame DEF Die, lockVars, mainVars
  <2>22. ASSUME UNCHANGED vars PROVE LockKept' /\ FirstInv'
      BY <1>2, <2>22, LockSame DEF vars, lockVars, mainVars
  <2>23. ASSUME NEW k \in Kernels, ServerStopped(k) PROVE LockKept' /\ FirstInv'
      BY <1>2, <2>23 DEF ServerStopped, Goto, TypeOK, LockKept, FirstInv, Runs, lockVars
  <2> QED
      BY <1>2, <2>1, <2>2, <2>3, <2>4, <2>5, <2>6, <2>7, <2>8, <2>9, <2>10,
         <2>11, <2>12, <2>13, <2>14, <2>15, <2>16, <2>17, <2>18, <2>19, <2>20,
         <2>21, <2>22, <2>23
         DEF Next, MainThread, Unit, TerminateAllChild
<1> QED
    BY <1>1, <1>2, KernelTypes, PTL DEF Spec

------------------------------------------------------------------------------
(* One kernel at work *)

LEMMA WorkSame ==
    ASSUME PortInv, LoopInv, RowInv, UNCHANGED <<port, main, sup, ktask, row>>
    PROVE  PortInv' /\ LoopInv' /\ RowInv'
BY DEF PortInv, LoopInv, RowInv, AtWork

\* The port makes it one.
LEMMA WorkImpliesOne == PortInv /\ LoopInv /\ RowInv => OneAtWork
BY DEF PortInv, LoopInv, RowInv, OneAtWork, Serving

LEMMA WorkInvariant == Spec => [](PortInv /\ LoopInv /\ RowInv)
<1>1. Init => PortInv /\ LoopInv /\ RowInv
    BY DEF Init, PortInv, LoopInv, RowInv, AtWork, Serving
<1>2. ASSUME TypeOK, PortInv, LoopInv, RowInv, [Next]_vars
      PROVE  PortInv' /\ LoopInv' /\ RowInv'
  <2>1. ASSUME NEW k \in Kernels, Start(k) PROVE PortInv' /\ LoopInv' /\ RowInv'
      BY <1>2, <2>1 DEF Start, Goto, TypeOK, PortInv, LoopInv, RowInv, AtWork, Serving, supVars
  <2>2. ASSUME NEW k \in Kernels, Bind(k) PROVE PortInv' /\ LoopInv' /\ RowInv'
      BY <1>2, <2>2, KernelAssumption
         DEF KernelAssumption, Bind, PortFree, Goto, TypeOK, PortInv, LoopInv, RowInv, AtWork, Serving, supVars
  <2>3. ASSUME NEW k \in Kernels, Serve(k) PROVE PortInv' /\ LoopInv' /\ RowInv'
      BY <1>2, <2>3 DEF Serve, PortAfter, Goto, TypeOK, PortInv, LoopInv, RowInv, AtWork, Serving, supVars
  <2>4. ASSUME NEW k \in Kernels, StartTasks(k) PROVE PortInv' /\ LoopInv' /\ RowInv'
      BY <1>2, <2>4 DEF StartTasks, PortAfter, Goto, TypeOK, PortInv, LoopInv, RowInv, AtWork, Serving, supVars
  <2>5. ASSUME NEW k \in Kernels, Stop(k) PROVE PortInv' /\ LoopInv' /\ RowInv'
      BY <1>2, <2>5 DEF Stop, PortAfter, Goto, TypeOK, PortInv, LoopInv, RowInv, AtWork, Serving, supVars
  <2>6. ASSUME NEW k \in Kernels, Join(k) PROVE PortInv' /\ LoopInv' /\ RowInv'
      BY <1>2, <2>6 DEF Join, Joined, PortAfter, Goto, TypeOK, PortInv, LoopInv, RowInv, AtWork, Serving, supVars
  <2>7. ASSUME NEW k \in Kernels, Uninitialize(k) PROVE PortInv' /\ LoopInv' /\ RowInv'
      BY <1>2, <2>7 DEF Uninitialize, Goto, TypeOK, PortInv, LoopInv, RowInv, AtWork, Serving, supVars
  <2>8. ASSUME NEW k \in Kernels, Terminate(k) PROVE PortInv' /\ LoopInv' /\ RowInv'
      BY <1>2, <2>8, WorkSame DEF Terminate, mainVars, supVars
  <2>9. ASSUME NEW k \in Kernels, Crash(k) PROVE PortInv' /\ LoopInv' /\ RowInv'
      BY <1>2, <2>9 DEF Crash, Goto, TypeOK, PortInv, LoopInv, RowInv, AtWork, Serving, supVars
  <2>10. ASSUME NEW k \in Kernels, KernelTask(k) PROVE PortInv' /\ LoopInv' /\ RowInv'
      BY <1>2, <2>10, WorkImpliesOne DEF KernelTask, OneAtWork, Cancelled, TypeOK, PortInv, LoopInv, RowInv, AtWork, Serving, supVars
  <2>11. ASSUME NEW k \in Kernels, Leave(k) PROVE PortInv' /\ LoopInv' /\ RowInv'
      BY <1>2, <2>11 DEF Leave, BeginPass, Passes, TypeOK, PortInv, LoopInv, RowInv, AtWork, Serving, mainVars
  <2>12. ASSUME NEW k \in Kernels, EndPass(k) PROVE PortInv' /\ LoopInv' /\ RowInv'
      BY <1>2, <2>12 DEF EndPass, BeginPass, After, Passes, TypeOK, PortInv, LoopInv, RowInv, AtWork, Serving, mainVars
  <2>13. ASSUME NEW k \in Kernels, NEW t \in Tasks, Add(k, t) PROVE PortInv' /\ LoopInv' /\ RowInv'
      BY <1>2, <2>13, WorkSame DEF Add, mainVars, supVars
  <2>14. ASSUME NEW k \in Kernels, NEW t \in Tasks, Relaunch(k, t) PROVE PortInv' /\ LoopInv' /\ RowInv'
      BY <1>2, <2>14, WorkSame DEF Relaunch, mainVars, supVars
  <2>15. ASSUME NEW k \in Kernels, NEW t \in Tasks, Drop(k, t) PROVE PortInv' /\ LoopInv' /\ RowInv'
      BY <1>2, <2>15, WorkSame DEF Drop, mainVars, supVars
  <2>16. ASSUME NEW k \in Kernels, NEW t \in Tasks, Tell(k, t) PROVE PortInv' /\ LoopInv' /\ RowInv'
      BY <1>2, <2>16, WorkSame DEF Tell, mainVars, supVars
  <2>17. ASSUME NEW k \in Kernels, NEW t \in Tasks, Seen(k, t) PROVE PortInv' /\ LoopInv' /\ RowInv'
      BY <1>2, <2>17, WorkSame DEF Seen, mainVars, supVars
  <2>18. ASSUME Unlock PROVE PortInv' /\ LoopInv' /\ RowInv'
      BY <1>2, <2>18, WorkSame DEF Unlock, mainVars, supVars
  <2>19. ASSUME SetBolStatus PROVE PortInv' /\ LoopInv' /\ RowInv'
      BY <1>2, <2>19, WorkSame DEF SetBolStatus, mainVars, supVars
  <2>20. ASSUME NEW t \in Tasks, HeartBeat(t) PROVE PortInv' /\ LoopInv' /\ RowInv'
      BY <1>2, <2>20, WorkSame DEF HeartBeat, mainVars, supVars
  <2>21. ASSUME NEW t \in Tasks, Die(t) PROVE PortInv' /\ LoopInv' /\ RowInv'
      BY <1>2, <2>21, WorkSame DEF Die, mainVars, supVars
  <2>22. ASSUME UNCHANGED vars PROVE PortInv' /\ LoopInv' /\ RowInv'
      BY <1>2, <2>22, WorkSame DEF vars, mainVars, supVars
  <2>23. ASSUME NEW k \in Kernels, ServerStopped(k) PROVE PortInv' /\ LoopInv' /\ RowInv'
      BY <1>2, <2>23 DEF ServerStopped, PortAfter, Goto, TypeOK, PortInv, LoopInv, RowInv, AtWork, Serving, supVars
  <2> QED
      BY <1>2, <2>1, <2>2, <2>3, <2>4, <2>5, <2>6, <2>7, <2>8, <2>9, <2>10,
         <2>11, <2>12, <2>13, <2>14, <2>15, <2>16, <2>17, <2>18, <2>19, <2>20,
         <2>21, <2>22, <2>23
         DEF Next, MainThread, Unit, TerminateAllChild
<1> QED
    BY <1>1, <1>2, KernelTypes, PTL DEF Spec

(***************************************************************************)
(* The loops of two kernels are never at work together, even when locks    *)
(* are removed under running kernels, because the port is given up only    *)
(* after joinAll; and a running kernel's row is not that of a stopped one. *)
(***************************************************************************)
THEOREM OneKernelAtWork == Spec => []OneAtWork
BY WorkInvariant, WorkImpliesOne, PTL

------------------------------------------------------------------------------
(* Waiting for children *)

LEMMA PassSame ==
    ASSUME PassInv, UNCHANGED supVars
    PROVE  PassInv'
BY DEF PassInv, supVars

LEMMA PassInvariant == Spec => []PassInv
<1>1. Init => PassInv
    BY DEF Init, PassInv, Passes
<1>2. ASSUME TypeOK, PassInv, [Next]_vars PROVE PassInv'
  <2>1. ASSUME NEW k \in Kernels, Start(k) PROVE PassInv'
      BY <1>2, <2>1, PassSame DEF Start
  <2>2. ASSUME NEW k \in Kernels, Bind(k) PROVE PassInv'
      BY <1>2, <2>2, PassSame DEF Bind
  <2>3. ASSUME NEW k \in Kernels, Serve(k) PROVE PassInv'
      BY <1>2, <2>3, PassSame DEF Serve
  <2>4. ASSUME NEW k \in Kernels, StartTasks(k) PROVE PassInv'
      BY <1>2, <2>4 DEF StartTasks, TypeOK, PassInv, Passes
  <2>5. ASSUME NEW k \in Kernels, Stop(k) PROVE PassInv'
      BY <1>2, <2>5, PassSame DEF Stop
  <2>6. ASSUME NEW k \in Kernels, Join(k) PROVE PassInv'
      BY <1>2, <2>6, PassSame DEF Join
  <2>7. ASSUME NEW k \in Kernels, Uninitialize(k) PROVE PassInv'
      BY <1>2, <2>7, PassSame DEF Uninitialize
  <2>8. ASSUME NEW k \in Kernels, Terminate(k) PROVE PassInv'
      BY <1>2, <2>8, PassSame DEF Terminate
  <2>9. ASSUME NEW k \in Kernels, Crash(k) PROVE PassInv'
      BY <1>2, <2>9 DEF Crash, TypeOK, PassInv, Passes
  <2>10. ASSUME NEW k \in Kernels, KernelTask(k) PROVE PassInv'
      BY <1>2, <2>10, PassSame DEF KernelTask
  <2>11. ASSUME NEW k \in Kernels, Leave(k) PROVE PassInv'
      BY <1>2, <2>11 DEF Leave, BeginPass, TypeOK, PassInv, Passes
  <2>12. ASSUME NEW k \in Kernels, EndPass(k) PROVE PassInv'
      BY <1>2, <2>12 DEF EndPass, BeginPass, TypeOK, PassInv, Passes
  <2>13. ASSUME NEW k \in Kernels, NEW t \in Tasks, Add(k, t) PROVE PassInv'
      BY <1>2, <2>13 DEF Add, Working, TypeOK, PassInv, Passes
  <2>14. ASSUME NEW k \in Kernels, NEW t \in Tasks, Relaunch(k, t) PROVE PassInv'
      BY <1>2, <2>14, PassSame DEF Relaunch
  <2>15. ASSUME NEW k \in Kernels, NEW t \in Tasks, Drop(k, t) PROVE PassInv'
      BY <1>2, <2>15 DEF Drop, Working, TypeOK, PassInv, Passes
  <2>16. ASSUME NEW k \in Kernels, NEW t \in Tasks, Tell(k, t) PROVE PassInv'
      BY <1>2, <2>16 DEF Tell, TypeOK, PassInv, Passes
  <2>17. ASSUME NEW k \in Kernels, NEW t \in Tasks, Seen(k, t) PROVE PassInv'
      BY <1>2, <2>17 DEF Seen, TypeOK, PassInv, Passes
  <2>18. ASSUME Unlock PROVE PassInv'
      BY <1>2, <2>18, PassSame DEF Unlock
  <2>19. ASSUME SetBolStatus PROVE PassInv'
      BY <1>2, <2>19, PassSame DEF SetBolStatus
  <2>20. ASSUME NEW t \in Tasks, HeartBeat(t) PROVE PassInv'
      BY <1>2, <2>20, PassSame DEF HeartBeat
  <2>21. ASSUME NEW t \in Tasks, Die(t) PROVE PassInv'
      BY <1>2, <2>21, PassSame DEF Die
  <2>22. ASSUME UNCHANGED vars PROVE PassInv'
      BY <1>2, <2>22, PassSame DEF vars
  <2>23. ASSUME NEW k \in Kernels, ServerStopped(k) PROVE PassInv'
      BY <1>2, <2>23, PassSame DEF ServerStopped
  <2> QED
      BY <1>2, <2>1, <2>2, <2>3, <2>4, <2>5, <2>6, <2>7, <2>8, <2>9, <2>10,
         <2>11, <2>12, <2>13, <2>14, <2>15, <2>16, <2>17, <2>18, <2>19, <2>20,
         <2>21, <2>22, <2>23
         DEF Next, MainThread, Unit, TerminateAllChild
<1> QED
    BY <1>1, <1>2, KernelTypes, PTL DEF Spec

LEMMA ChildSame ==
    ASSUME ChildInv, UNCHANGED childVars
    PROVE  ChildInv'
BY DEF ChildInv, childVars

LEMMA ChildInvariant == Spec => []ChildInv
<1>1. Init => ChildInv
    BY DEF Init, ChildInv
<1>2. ASSUME TypeOK, ChildInv, [Next]_vars PROVE ChildInv'
  <2>1. ASSUME NEW k \in Kernels, Start(k) PROVE ChildInv'
      BY <1>2, <2>1, ChildSame DEF Start
  <2>2. ASSUME NEW k \in Kernels, Bind(k) PROVE ChildInv'
      BY <1>2, <2>2, ChildSame DEF Bind
  <2>3. ASSUME NEW k \in Kernels, Serve(k) PROVE ChildInv'
      BY <1>2, <2>3, ChildSame DEF Serve
  <2>4. ASSUME NEW k \in Kernels, StartTasks(k) PROVE ChildInv'
      BY <1>2, <2>4, ChildSame DEF StartTasks
  <2>5. ASSUME NEW k \in Kernels, Stop(k) PROVE ChildInv'
      BY <1>2, <2>5, ChildSame DEF Stop
  <2>6. ASSUME NEW k \in Kernels, Join(k) PROVE ChildInv'
      BY <1>2, <2>6, ChildSame DEF Join
  <2>7. ASSUME NEW k \in Kernels, Uninitialize(k) PROVE ChildInv'
      BY <1>2, <2>7, ChildSame DEF Uninitialize
  <2>8. ASSUME NEW k \in Kernels, Terminate(k) PROVE ChildInv'
      BY <1>2, <2>8, ChildSame DEF Terminate
  <2>9. ASSUME NEW k \in Kernels, Crash(k) PROVE ChildInv'
      BY <1>2, <2>9, ChildSame DEF Crash
  <2>10. ASSUME NEW k \in Kernels, KernelTask(k) PROVE ChildInv'
      BY <1>2, <2>10, ChildSame DEF KernelTask
  <2>11. ASSUME NEW k \in Kernels, Leave(k) PROVE ChildInv'
      BY <1>2, <2>11, ChildSame DEF Leave
  <2>12. ASSUME NEW k \in Kernels, EndPass(k) PROVE ChildInv'
      BY <1>2, <2>12, ChildSame DEF EndPass
  <2>13. ASSUME NEW k \in Kernels, NEW t \in Tasks, Add(k, t) PROVE ChildInv'
      BY <1>2, <2>13 DEF Add, TypeOK, ChildInv
  <2>14. ASSUME NEW k \in Kernels, NEW t \in Tasks, Relaunch(k, t) PROVE ChildInv'
      BY <1>2, <2>14 DEF Relaunch, TypeOK, ChildInv
  <2>15. ASSUME NEW k \in Kernels, NEW t \in Tasks, Drop(k, t) PROVE ChildInv'
      BY <1>2, <2>15 DEF Drop, TypeOK, ChildInv
  <2>16. ASSUME NEW k \in Kernels, NEW t \in Tasks, Tell(k, t) PROVE ChildInv'
      BY <1>2, <2>16 DEF Tell, TypeOK, ChildInv
  <2>17. ASSUME NEW k \in Kernels, NEW t \in Tasks, Seen(k, t) PROVE ChildInv'
      BY <1>2, <2>17, ChildSame DEF Seen
  <2>18. ASSUME Unlock PROVE ChildInv'
      BY <1>2, <2>18, ChildSame DEF Unlock
  <2>19. ASSUME SetBolStatus PROVE ChildInv'
      BY <1>2, <2>19, ChildSame DEF SetBolStatus
  <2>20. ASSUME NEW t \in Tasks, HeartBeat(t) PROVE ChildInv'
      BY <1>2, <2>20 DEF HeartBeat, TypeOK, ChildInv
  <2>21. ASSUME NEW t \in Tasks, Die(t) PROVE ChildInv'
      BY <1>2, <2>21 DEF Die, TypeOK, ChildInv
  <2>22. ASSUME UNCHANGED vars PROVE ChildInv'
      BY <1>2, <2>22, ChildSame DEF vars
  <2>23. ASSUME NEW k \in Kernels, ServerStopped(k) PROVE ChildInv'
      BY <1>2, <2>23, ChildSame DEF ServerStopped
  <2> QED
      BY <1>2, <2>1, <2>2, <2>3, <2>4, <2>5, <2>6, <2>7, <2>8, <2>9, <2>10,
         <2>11, <2>12, <2>13, <2>14, <2>15, <2>16, <2>17, <2>18, <2>19, <2>20,
         <2>21, <2>22, <2>23
         DEF Next, MainThread, Unit, TerminateAllChild
<1> QED
    BY <1>1, <1>2, KernelTypes, PTL DEF Spec

\* While a kernel waits for a process, no other thread of the supervisor is at work.
LEMMA AwaitedByOne ==
    ASSUME OneAtWork, NEW j \in Kernels, NEW k \in Kernels, NEW t \in Tasks,
           Awaited(k, t), sup[j] \in {"init", "loop"} \cup Passes
    PROVE  j = k
BY DEF OneAtWork, AtWork, Awaited, Passes

LEMMA ToldSame ==
    ASSUME TypeOK, ToldInv, UNCHANGED <<supVars, childVars>>,
           \A k \in Kernels : main[k] = "crashed" => main'[k] = "crashed"
    PROVE  ToldInv'
BY DEF ToldInv, Awaited, TypeOK, supVars, childVars

LEMMA ToldInvariant == Spec => []ToldInv
<1>1. Init => ToldInv
    BY DEF Init, ToldInv
<1>2. ASSUME TypeOK, LoopInv, OneAtWork, PassInv, ChildInv, ToldInv, [Next]_vars
      PROVE  ToldInv'
  <2>1. ASSUME NEW k \in Kernels, Start(k) PROVE ToldInv'
      BY <1>2, <2>1, ToldSame DEF Start, Goto, TypeOK
  <2>2. ASSUME NEW k \in Kernels, Bind(k) PROVE ToldInv'
      BY <1>2, <2>2, ToldSame DEF Bind, Goto, TypeOK
  <2>3. ASSUME NEW k \in Kernels, Serve(k) PROVE ToldInv'
      BY <1>2, <2>3, ToldSame DEF Serve, Goto, TypeOK
  <2>4. ASSUME NEW k \in Kernels, StartTasks(k) PROVE ToldInv'
      BY <1>2, <2>4 DEF StartTasks, Goto, LoopInv, AtWork, childVars, TypeOK, ToldInv, Awaited
  <2>5. ASSUME NEW k \in Kernels, Stop(k) PROVE ToldInv'
      BY <1>2, <2>5, ToldSame DEF Stop, Goto, TypeOK
  <2>6. ASSUME NEW k \in Kernels, Join(k) PROVE ToldInv'
      BY <1>2, <2>6, ToldSame DEF Join, Goto, TypeOK
  <2>7. ASSUME NEW k \in Kernels, Uninitialize(k) PROVE ToldInv'
      BY <1>2, <2>7, ToldSame DEF Uninitialize, Goto, TypeOK
  <2>8. ASSUME NEW k \in Kernels, Terminate(k) PROVE ToldInv'
      BY <1>2, <2>8, ToldSame DEF Terminate, TypeOK
  <2>9. ASSUME NEW k \in Kernels, Crash(k) PROVE ToldInv'
      BY <1>2, <2>9 DEF Crash, Goto, childVars, TypeOK, ToldInv, Awaited
  <2>10. ASSUME NEW k \in Kernels, KernelTask(k) PROVE ToldInv'
      BY <1>2, <2>10, ToldSame DEF KernelTask, TypeOK
  <2>11. ASSUME NEW k \in Kernels, Leave(k) PROVE ToldInv'
      BY <1>2, <2>11 DEF Leave, BeginPass, childVars, mainVars, TypeOK, ToldInv, Awaited
  <2>12. ASSUME NEW k \in Kernels, EndPass(k) PROVE ToldInv'
    <3> SUFFICES ASSUME MissingReturn = {FALSE}, NEW t \in Tasks \ Hla, told[t] # None,
                        main[told[t]] # "crashed"
                 PROVE  Awaited(told[t], t)'
        BY <2>12 DEF EndPass, childVars, ToldInv
    <3> DEFINE j == told[t]
    <3>1. j \in Kernels /\ j' = j /\ Awaited(j, t)
        BY <1>2, <2>12 DEF EndPass, childVars, TypeOK, ToldInv
    <3>2. pid' = pid /\ left[k] = {} /\ sup[k] \in Passes
        BY <2>12 DEF EndPass, childVars
    <3>3. CASE j # k
        <4>1. sup'[j] = sup[j] /\ left'[j] = left[j] /\ handles'[j] = handles[j]
            BY <1>2, <2>12, <3>1, <3>3 DEF EndPass, BeginPass, TypeOK
        <4> QED
            BY <3>1, <3>2, <4>1 DEF Awaited
    <3>4. CASE j = k /\ sup[k] = "tellBol"
        <4>1. sup'[k] = "waitBol" /\ left'[k] = handles[k] \cap Bol /\ handles' = handles
            BY <1>2, <2>12, <3>4 DEF EndPass, BeginPass, After, Of, TypeOK
        <4> QED
            BY <3>1, <3>2, <3>4, <4>1 DEF Awaited
    <3>5. CASE j = k /\ sup[k] = "tellAgent"
        <4>1. sup'[k] = "waitAgent" /\ left'[k] = handles[k] \cap {Cloudagent} /\ handles' = handles
            BY <1>2, <2>12, <3>5 DEF EndPass, BeginPass, After, Of, TypeOK
        <4> QED
            BY <3>1, <3>2, <3>5, <4>1 DEF Awaited
    <3> QED
        BY <3>1, <3>2, <3>3, <3>4, <3>5 DEF Awaited
  <2>13. ASSUME NEW k \in Kernels, NEW t \in Tasks, Add(k, t) PROVE ToldInv'
      BY <1>2, <2>13, AwaitedByOne, KernelAssumption DEF Add, Working, mainVars, TypeOK, ToldInv, Awaited
  <2>14. ASSUME NEW k \in Kernels, NEW t \in Tasks, Relaunch(k, t) PROVE ToldInv'
      BY <1>2, <2>14 DEF Relaunch, Working, mainVars, supVars, ChildInv, TypeOK, ToldInv, Awaited
  <2>15. ASSUME NEW k \in Kernels, NEW t \in Tasks, Drop(k, t) PROVE ToldInv'
      BY <1>2, <2>15, AwaitedByOne DEF Drop, Working, mainVars, TypeOK, ToldInv, Awaited
  <2>16. ASSUME NEW k \in Kernels, NEW t \in Tasks, Tell(k, t) PROVE ToldInv'
      BY <1>2, <2>16, KernelAssumption DEF Tell, PassInv, Passes, Of, mainVars, TypeOK, ToldInv, Awaited
  <2>17. ASSUME NEW k \in Kernels, NEW t \in Tasks, Seen(k, t) PROVE ToldInv'
      BY <1>2, <2>17 DEF Seen, HasStopped, GivesUp, mainVars, childVars, TypeOK, ToldInv, Awaited
  <2>18. ASSUME Unlock PROVE ToldInv'
      BY <1>2, <2>18, ToldSame DEF Unlock, mainVars
  <2>19. ASSUME SetBolStatus PROVE ToldInv'
      BY <1>2, <2>19, ToldSame DEF SetBolStatus, mainVars
  <2>20. ASSUME NEW t \in Tasks, HeartBeat(t) PROVE ToldInv'
      BY <1>2, <2>20 DEF HeartBeat, mainVars, supVars, TypeOK, ToldInv, Awaited
  <2>21. ASSUME NEW t \in Tasks, Die(t) PROVE ToldInv'
      BY <1>2, <2>21 DEF Die, mainVars, supVars, TypeOK, ToldInv, Awaited
  <2>22. ASSUME UNCHANGED vars PROVE ToldInv'
      BY <1>2, <2>22, ToldSame DEF vars, mainVars
  <2>23. ASSUME NEW k \in Kernels, ServerStopped(k) PROVE ToldInv'
      BY <1>2, <2>23, ToldSame DEF ServerStopped, Goto, TypeOK
  <2> QED
      BY <1>2, <2>1, <2>2, <2>3, <2>4, <2>5, <2>6, <2>7, <2>8, <2>9, <2>10,
         <2>11, <2>12, <2>13, <2>14, <2>15, <2>16, <2>17, <2>18, <2>19, <2>20,
         <2>21, <2>22, <2>23
         DEF Next, MainThread, Unit, TerminateAllChild
<1> QED
    BY <1>1, <1>2, KernelTypes, WorkInvariant, OneKernelAtWork, PassInvariant,
       ChildInvariant, PTL DEF Spec

(***************************************************************************)
(* In a build where a missing return is false, a process of type A that was*)
(* told to end has ended before cloudagent is told, and cloudagent before  *)
(* its kernel ends, for any number of tasks, kernels, crashes and failures *)
(* (terminateAllChild).                                                    *)
(***************************************************************************)
THEOREM BolIsWaitedFor == Spec => []BolWaitedFor
<1>1. ASSUME TypeOK, PassInv, ToldInv PROVE BolWaitedFor
    BY <1>1, KernelAssumption
       DEF KernelAssumption, TypeOK, PassInv, ToldInv, Awaited, BolWaitedFor, Of, Passes, Tasks
<1> QED
    BY <1>1, KernelTypes, PassInvariant, ToldInvariant, PTL
==============================================================================
