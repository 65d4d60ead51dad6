-------------------------- MODULE KernelLifecycle --------------------------
(***************************************************************************)
(* The life of BOLKernel: a named lock and the port of its server see to it*)
(* that one kernel runs, its main thread starts and stops the server and   *)
(* the task loops, and the loop that keeps the children stops them before  *)
(* it ends (KernelGuard, BolServiceServer, KernelTaskLoop,                 *)
(* RegularProcessTaskLoop::terminateAllChild).                             *)
(*                                                                         *)
(* A kernel is one run of the program and may crash at any time; operators *)
(* start the next and remove a lock that was left.  Its children survive   *)
(* it.  What the loop does with its children in a unit is the matter of    *)
(* ProcessSupervisor, and the inside of the server of RequestPipeline.     *)
(* kernel.isJudgeSingle is set: a task has one process at most.  The       *)
(* program definition of a task that has a handle does not disappear.      *)
(***************************************************************************)
EXTENDS Integers, FiniteSets

CONSTANTS
    MaxKernels, \* bound: runs of the program
    Hla, Bol,   \* the tasks, of programs that are not of type A and that are
    Cloudagent, \* the task with the bpcb id of cloudagent, of type A as well
    MissingReturn, \* what IsProcessHasStoped may give where it returns nothing
    MaxUnits,   \* bound: tasks added, launched again and dropped
    MaxFaults,  \* bound: statements that fail and locks that operators remove
    None

\* The runs of the program, in the order of their starts.
Kernels == 1..MaxKernels

Tasks == Hla \cup Bol \cup {Cloudagent}

ASSUME KernelAssumption ==
    /\ Hla \cap Bol = {} /\ Cloudagent \notin Hla \cup Bol
    /\ MissingReturn \subseteq BOOLEAN
    /\ MaxKernels \in Nat /\ MaxUnits \in Nat /\ MaxFaults \in Nat
    /\ None \notin Kernels

VARIABLES
    lock,     \* whether the named mutex exists
    unlocks,  \* the locks operators have removed
    port,     \* the kernel that has bound the port, or None
    main,     \* where the main thread of each kernel is
    first,    \* fistRunner: the kernel made the lock
    asked,    \* a termination request has been sent to the kernel
    sup,      \* where the thread of RegularProcessTaskLoop is
    handles,  \* mapProcessHandle: its tasks
    left,     \* what is left of the pass of terminateAllChild
    ktask,    \* where the thread of KernelTaskLoop is
    row,      \* the kernel's status in MetaBpcbInfo: stopped, or ready or running
    status,   \* MetaBolInfo
    pid,      \* the row of a task: there is none, it names the process,
              \* or it is stale: its pid is 0 or that of a process that is gone
    child,    \* whether the task has a process
    told,     \* history: the kernel that told this process to end when it stopped itself
    units,    \* the steps of the loop's units so far
    faults    \* statements that have failed

lockVars == <<lock, unlocks, first>>
mainVars == <<port, main, asked>>
supVars == <<sup, handles, left>>
childVars == <<pid, child, told>>
vars == <<lockVars, mainVars, supVars, childVars, ktask, row, status, units, faults>>

\* The passes of terminateAllChild.
Passes == {"tellHla", "waitHla", "tellBol", "waitBol", "tellAgent", "waitAgent"}

\* While server.stop runs its threads may still be at a request.
Serving == {"serving", "waiting", "stopping", "stuck"}

TypeOK ==
    /\ lock \in BOOLEAN /\ unlocks \in 0..MaxFaults
    /\ port \in Kernels \cup {None}
    /\ main \in [Kernels -> {"off", "locked", "bound", "joining", "ending", "ended", "crashed"}
                              \cup Serving]
    /\ first \in [Kernels -> BOOLEAN]
    /\ asked \in [Kernels -> BOOLEAN]
    /\ sup \in [Kernels -> {"none", "init", "loop", "done"} \cup Passes]
    /\ handles \in [Kernels -> SUBSET Tasks]
    /\ left \in [Kernels -> SUBSET Tasks]
    /\ ktask \in [Kernels -> {"none", "start", "loop", "done"}]
    /\ row \in {"stop", "running"}
    /\ status \in {"normal", "offline"}
    /\ pid \in [Tasks -> {"none", "stale", "child"}]
    /\ child \in [Tasks -> BOOLEAN]
    /\ told \in [Tasks -> Kernels \cup {None}]
    /\ units \in 0..MaxUnits
    /\ faults \in 0..MaxFaults

Fault == faults + unlocks < MaxFaults /\ faults' = faults + 1

------------------------------------------------------------------------------
(* The main thread *)

Goto(k, where) == main' = [main EXCEPT ![k] = where]

\* named_mutex with create_only: it fails when a mutex of this name exists.
CheckSingleton == ~lock

\* Mutant: whoever ends removes the lock.
RemoveLock(k) == FALSE

LockAfter(k) == lock /\ ~first[k]

(***************************************************************************)
(* A kernel that finds the lock made ends at once: main returns and        *)
(* uninitialize leaves a lock alone that is not the kernel's.              *)
(***************************************************************************)
Start(k) ==
    /\ main[k] = "off"
    /\ k > 1 => main[k - 1] # "off"
    /\ \/ /\ CheckSingleton
          /\ lock' = TRUE
          /\ first' = [first EXCEPT ![k] = TRUE]
          /\ Goto(k, "locked")
       \/ /\ ~CheckSingleton
          /\ lock' = LockAfter(k)
          /\ first' = first
          /\ Goto(k, "ended")
    /\ UNCHANGED <<unlocks, port, asked, supVars, childVars, ktask, row, status, units, faults>>

\* BOLKernel -u, whatever runs.
Unlock ==
    /\ faults + unlocks < MaxFaults  \* bound
    /\ unlocks' = unlocks + 1
    /\ lock' = FALSE
    /\ UNCHANGED <<first, mainVars, supVars, childVars, ktask, row, status, units, faults>>

PortFree(k) == port = None

\* A kernel that finds the port taken tries again every second.
Bind(k) ==
    /\ main[k] = "locked"
    /\ PortFree(k)
    /\ port' = k
    /\ Goto(k, "bound")
    /\ UNCHANGED <<lockVars, asked, supVars, childVars, ktask, row, status, units, faults>>

\* The socket is closed by the destructor of the server, when main returns.
PortAfter(k, where) == IF port = k /\ where = "ending" THEN None ELSE port

(***************************************************************************)
(* The rest of server.start, SetBolStatus and the start of the three loops.*)
(* A failure of one of the first two ends the kernel; that the destructor  *)
(* of the server then meets a running io thread may crash it as well.      *)
(***************************************************************************)
Serve(k) ==
    /\ main[k] = "bound"
    /\ \/ Goto(k, "serving") /\ port' = port /\ UNCHANGED faults
       \/ Fault /\ Goto(k, "ending") /\ port' = PortAfter(k, "ending")
    /\ UNCHANGED <<lockVars, asked, supVars, childVars, ktask, row, status, units>>

StartTasks(k) ==
    /\ main[k] = "serving"
    /\ \/ /\ status' = "normal"
          /\ Goto(k, "waiting")
          /\ sup' = [sup EXCEPT ![k] = "init"]
          /\ ktask' = [ktask EXCEPT ![k] = "start"]
          /\ UNCHANGED <<port, faults>>
       \/ /\ Fault
          /\ Goto(k, "ending")
          /\ port' = PortAfter(k, "ending")
          /\ UNCHANGED <<status, sup, ktask>>
    /\ UNCHANGED <<lockVars, asked, handles, left, childVars, row, units>>

\* Process::requestTermination: waitForTerminationRequest takes the first.
Ask(k) == asked' = [asked EXCEPT ![k] = main[k] = "waiting"]

\* Process::requestTermination by an operator.
Terminate(k) ==
    /\ main[k] = "waiting"
    /\ Ask(k)
    /\ UNCHANGED <<lockVars, port, main, supVars, childVars, ktask, row, status, units, faults>>

\* server.stop begins; the loops are not cancelled before it returns.
Stop(k) ==
    /\ main[k] = "waiting"
    /\ asked[k]
    /\ asked' = [asked EXCEPT ![k] = FALSE]
    /\ Goto(k, "stopping")
    /\ UNCHANGED <<lockVars, port, supVars, childVars, ktask, row, status, units, faults>>

(***************************************************************************)
(* server.stop has joined the threads of the server, and tm.cancelAll      *)
(* follows; or it waits for ever for a thread that sleeps (StopCompletes in*)
(* RequestPipeline says which).                                            *)
(***************************************************************************)
ServerStopped(k) ==
    /\ main[k] = "stopping"
    /\ \/ Goto(k, "joining") /\ port' = PortAfter(k, "joining")
       \/ Goto(k, "stuck") /\ port' = port
    /\ UNCHANGED <<lockVars, asked, supVars, childVars, ktask, row, status, units, faults>>

Cancelled(k) == main[k] = "joining"

\* Mutant: only KernelTaskLoop is joined.
JoinsOne(k) == ktask[k] = "done"

Joined(k) == sup[k] = "done" /\ ktask[k] = "done"

Join(k) ==
    /\ main[k] = "joining"
    /\ Joined(k)
    /\ Goto(k, "ending")
    /\ port' = PortAfter(k, "ending")
    /\ UNCHANGED <<lockVars, asked, supVars, childVars, ktask, row, status, units, faults>>

Uninitialize(k) ==
    /\ main[k] = "ending"
    /\ lock' = LockAfter(k)
    /\ Goto(k, "ended")
    /\ UNCHANGED <<unlocks, first, port, asked, supVars, childVars, ktask, row, status, units, faults>>

Crash(k) ==
    /\ main[k] \notin {"off", "ended", "crashed"}
    /\ Goto(k, "crashed")
    /\ port' = IF port = k THEN None ELSE port
    /\ sup' = [sup EXCEPT ![k] = "none"]
    /\ ktask' = [ktask EXCEPT ![k] = "none"]
    /\ asked' = [asked EXCEPT ![k] = FALSE]
    /\ handles' = [handles EXCEPT ![k] = {}]
    /\ left' = [left EXCEPT ![k] = {}]
    /\ UNCHANGED <<lockVars, childVars, row, status, units, faults>>

------------------------------------------------------------------------------
(* KernelTaskLoop *)

KernelTask(k) ==
    /\ \/ /\ ktask[k] = "start"
          /\ \/ /\ row' = "running"
                /\ ktask' = [ktask EXCEPT ![k] = "loop"]
                /\ UNCHANGED <<asked, faults>>
             \/ /\ Fault
                /\ Ask(k)
                /\ ktask' = [ktask EXCEPT ![k] = "done"]
                /\ row' = row
       \/ /\ ktask[k] = "loop"
          /\ ~Cancelled(k)
          /\ row' = "running"
          /\ UNCHANGED <<asked, ktask, faults>>
       \/ /\ ktask[k] = "loop"
          /\ Cancelled(k)
          /\ ktask' = [ktask EXCEPT ![k] = "done"]
          /\ \/ row' = "stop" /\ UNCHANGED faults
             \/ Fault /\ row' = row
          /\ UNCHANGED asked
    /\ UNCHANGED <<lockVars, port, main, supVars, childVars, status, units>>

------------------------------------------------------------------------------
(* RegularProcessTaskLoop *)

Working(k) == units < MaxUnits /\ (sup[k] = "init" \/ (sup[k] = "loop" /\ ~Cancelled(k)))

(***************************************************************************)
(* getOneChildInfo and launchOneChild: the row is inserted without a pid,  *)
(* and a process is launched unless one is there or the launch fails.      *)
(***************************************************************************)
Add(k, t) ==
    /\ Working(k)
    /\ sup[k] = "init" => t \notin Hla
    /\ t \notin handles[k]
    /\ handles' = [handles EXCEPT ![k] = @ \cup {t}]
    /\ pid' = [pid EXCEPT ![t] = "stale"]
    /\ \/ child' = [child EXCEPT ![t] = TRUE] /\ UNCHANGED faults
       \/ Fault /\ child' = child
    /\ units' = units + 1
    /\ UNCHANGED <<lockVars, mainVars, sup, left, told, ktask, row, status>>

\* The row keeps the pid of the last process until this one reports.
Relaunch(k, t) ==
    /\ Working(k)
    /\ sup[k] = "loop"
    /\ t \in handles[k]
    /\ ~child[t]
    /\ child' = [child EXCEPT ![t] = TRUE]
    /\ units' = units + 1
    /\ UNCHANGED <<lockVars, mainVars, supVars, pid, told, ktask, row, status, faults>>

\* A task that is in the table no more loses its handle and its row, not its process.
Drop(k, t) ==
    /\ Working(k)
    /\ sup[k] = "loop"
    /\ t \in handles[k]
    /\ handles' = [handles EXCEPT ![k] = @ \ {t}]
    /\ pid' = [pid EXCEPT ![t] = "none"]
    /\ units' = units + 1
    /\ UNCHANGED <<lockVars, mainVars, sup, left, child, told, ktask, row, status, faults>>

Of(pass) ==
    CASE pass \in {"tellHla", "waitHla"} -> Hla
      [] pass \in {"tellBol", "waitBol"} -> Bol
      [] OTHER -> {Cloudagent}

\* Mutant: the status is set in a pass of its own.
AfterOffline(pass) ==
    CASE pass = "tellHla"   -> "waitHla"
      [] pass = "waitHla"   -> "tellBol"
      [] pass = "tellBol"   -> "waitBol"
      [] pass = "waitBol"   -> "offline"
      [] pass = "tellAgent" -> "waitAgent"

After(pass) ==
    CASE pass = "tellHla"   -> "waitHla"
      [] pass = "waitHla"   -> "tellBol"
      [] pass = "tellBol"   -> "waitBol"
      [] pass = "waitBol"   -> "tellAgent"
      [] pass = "tellAgent" -> "waitAgent"

BeginPass(k, pass) ==
    /\ sup' = [sup EXCEPT ![k] = pass]
    /\ left' = [left EXCEPT ![k] = handles[k] \cap Of(pass)]

\* init is done, or fails; the loop is cancelled, or the status is offline.
Leave(k) ==
    /\ \/ /\ sup[k] = "init"
          /\ \/ sup' = [sup EXCEPT ![k] = "loop"] /\ UNCHANGED <<left, faults>>
             \/ Fault /\ BeginPass(k, "tellHla")
       \/ /\ sup[k] = "loop"
          /\ Cancelled(k) \/ status = "offline"
          /\ BeginPass(k, "tellHla")
          /\ UNCHANGED faults
    /\ UNCHANGED <<lockVars, mainVars, handles, childVars, ktask, row, status, units>>

\* terminateOneChild: nothing comes of it unless the row names a process that is there.
Tell(k, t) ==
    /\ sup[k] \in {"tellHla", "tellBol", "tellAgent"}
    /\ t \in left[k]
    /\ left' = [left EXCEPT ![k] = @ \ {t}]
    /\ \/ /\ told' = IF pid[t] = "child" THEN [told EXCEPT ![t] = k] ELSE told
          /\ UNCHANGED faults
       \/ Fault /\ told' = told
    /\ UNCHANGED <<lockVars, mainVars, sup, handles, pid, child, ktask, row, status, units>>

\* IsProcessHasStoped.
HasStopped(t) == pid[t] = "stale" \/ (pid[t] = "child" /\ TRUE \in MissingReturn)

\* Mutant: every process is waited for as long as an hla process.
GivesUpAny(t) == TRUE

\* Mutant: there is no limit for hla processes either.
GivesUpNever(t) == FALSE

\* An hla process is asked 60 times, any other until it has stopped.
GivesUp(t) == t \in Hla

Seen(k, t) ==
    /\ sup[k] \in {"waitHla", "waitBol", "waitAgent"}
    /\ t \in left[k]
    /\ HasStopped(t) \/ GivesUp(t)
    /\ left' = [left EXCEPT ![k] = @ \ {t}]
    /\ UNCHANGED <<lockVars, mainVars, sup, handles, childVars, ktask, row, status, units, faults>>

(***************************************************************************)
(* Between the passes; the status is set before cloudagent is told.  After *)
(* the last one the kernel is asked to terminate, unless it was already.   *)
(***************************************************************************)
EndPass(k) ==
    /\ sup[k] \in Passes
    /\ left[k] = {}
    /\ \/ /\ sup[k] # "waitAgent"
          /\ BeginPass(k, After(sup[k]))
          /\ UNCHANGED <<handles, asked>>
       \/ /\ sup[k] = "waitAgent"
          /\ sup' = [sup EXCEPT ![k] = "done"]
          /\ left' = left
          /\ handles' = [handles EXCEPT ![k] = {}]
          /\ Ask(k)
    /\ \/ status' = (IF sup[k] = "waitBol" THEN "offline" ELSE status) /\ UNCHANGED faults
       \/ sup[k] = "waitBol" /\ Fault /\ status' = status
    /\ UNCHANGED <<lockVars, port, main, childVars, ktask, row, units>>

------------------------------------------------------------------------------
(* Clients and children *)

SetBolStatus ==
    /\ \E k \in Kernels : main[k] \in Serving
    /\ status' \in {"normal", "offline"}
    /\ UNCHANGED <<lockVars, mainVars, supVars, childVars, ktask, row, units, faults>>

HeartBeat(t) ==
    /\ child[t]
    /\ pid[t] # "none"
    /\ \E k \in Kernels : main[k] \in Serving
    /\ pid' = [pid EXCEPT ![t] = "child"]
    /\ UNCHANGED <<lockVars, mainVars, supVars, child, told, ktask, row, status, units, faults>>

Die(t) ==
    /\ child[t]
    /\ child' = [child EXCEPT ![t] = FALSE]
    /\ told' = [told EXCEPT ![t] = None]
    /\ pid' = [pid EXCEPT ![t] = IF @ = "child" THEN "stale" ELSE @]
    /\ UNCHANGED <<lockVars, mainVars, supVars, ktask, row, status, units, faults>>

------------------------------------------------------------------------------
(* The specification *)

Init ==
    /\ lock = FALSE /\ unlocks = 0
    /\ port = None
    /\ main = [k \in Kernels |-> "off"]
    /\ first = [k \in Kernels |-> FALSE]
    /\ asked = [k \in Kernels |-> FALSE]
    /\ sup = [k \in Kernels |-> "none"]
    /\ handles = [k \in Kernels |-> {}]
    /\ left = [k \in Kernels |-> {}]
    /\ ktask = [k \in Kernels |-> "none"]
    /\ row = "stop"
    /\ status = "normal"
    /\ pid = [t \in Tasks |-> "none"]
    /\ child = [t \in Tasks |-> FALSE]
    /\ told = [t \in Tasks |-> None]
    /\ units = 0
    /\ faults = 0

MainThread(k) ==
    \/ Start(k) \/ Bind(k) \/ Serve(k) \/ StartTasks(k)
    \/ Stop(k) \/ ServerStopped(k) \/ Join(k) \/ Uninitialize(k)

Unit(k) == \E t \in Tasks : Add(k, t) \/ Relaunch(k, t) \/ Drop(k, t)

TerminateAllChild(k) == EndPass(k) \/ \E t \in Tasks : Tell(k, t) \/ Seen(k, t)

Next ==
    \/ \E k \in Kernels :
          \/ MainThread(k) \/ Terminate(k) \/ Crash(k)
          \/ KernelTask(k)
          \/ Unit(k) \/ Leave(k) \/ TerminateAllChild(k)
    \/ Unlock \/ SetBolStatus
    \/ \E t \in Tasks : HeartBeat(t) \/ Die(t)

(***************************************************************************)
(* The threads of a kernel run on, and a process of type A that was told to*)
(* end does so.                                                            *)
(***************************************************************************)
Fairness ==
    /\ \A k \in Kernels :
          /\ WF_vars(Stop(k) \/ ServerStopped(k) \/ Join(k) \/ Uninitialize(k))
          /\ WF_vars(KernelTask(k))
          /\ WF_vars(Leave(k)) /\ WF_vars(TerminateAllChild(k))
    /\ \A t \in Tasks \ Hla : WF_vars(told[t] # None /\ Die(t))

Spec == Init /\ [][Next]_vars
FairSpec == Spec /\ Fairness

------------------------------------------------------------------------------
(* Properties *)

(***************************************************************************)
(* Until an operator removes a lock, a kernel that has passed the check and*)
(* has not ended holds it, alone, whatever other starts were refused and   *)
(* whichever kernel crashed (checkSinglton, uninitialize).                 *)
(***************************************************************************)
Runs(k) == first[k] /\ main[k] \notin {"off", "ended", "crashed"}

LockKept ==
    unlocks = 0 =>
        /\ \A k \in Kernels : Runs(k) => lock
        /\ \A j, k \in Kernels : Runs(j) /\ Runs(k) => j = k

(***************************************************************************)
(* Even when a lock was removed under a running kernel, the loops of two   *)
(* kernels are never at work together, and the row does not call the one   *)
(* whose loop runs stopped: the port is kept until the loops are joined    *)
(* (BolServiceServer::start, the destructor of the server in main).        *)
(***************************************************************************)
AtWork(k) == sup[k] \notin {"none", "done"} \/ ktask[k] \notin {"none", "done"}

OneAtWork ==
    /\ \A j, k \in Kernels : AtWork(j) /\ AtWork(k) => j = k
    /\ \A k \in Kernels : ktask[k] = "loop" => row # "stop"

(***************************************************************************)
(* RegularProcessTaskLoop.cpp:2766, in a build where a missing return is   *)
(* false: a process of type A that was told to end has ended before        *)
(* cloudagent is told, and cloudagent before the kernel ends, unless the   *)
(* kernel crashes.                                                         *)
(***************************************************************************)
BolWaitedFor ==
    MissingReturn = {FALSE} =>
        \A t \in Tasks \ Hla : child[t] /\ told[t] # None =>
            \/ main[told[t]] = "crashed"
            \/ t \in Bol /\ sup[told[t]] \in {"tellBol", "waitBol"}
            \/ t = Cloudagent /\ sup[told[t]] \in {"tellAgent", "waitAgent"}

\* A process is waited for that was not told to end.
WaitsInVain(k) ==
    /\ sup[k] \in {"waitBol", "waitAgent"}
    /\ \E t \in left[k] : pid[t] = "child" /\ told[t] # k

(***************************************************************************)
(* A kernel that is asked to end, or whose loop has begun to stop the      *)
(* children, ends, although it waits for processes without a bound.  When  *)
(* server.stop never returns, its loop is through with the children all    *)
(* the same.  Only a process that reported after it was passed by, or whose*)
(* row could not be read, may keep them (terminateAllChild, main).         *)
(***************************************************************************)
ShutdownEnds ==
    \A k \in Kernels :
        (main[k] = "waiting" /\ asked[k]) \/ sup[k] \in Passes
            ~> \/ main[k] \in {"ended", "crashed"}
               \/ main[k] = "stuck" /\ sup[k] \notin Passes
               \/ WaitsInVain(k)

==============================================================================
