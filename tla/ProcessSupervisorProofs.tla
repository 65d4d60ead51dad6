----------------------- MODULE ProcessSupervisorProofs -----------------------
(***************************************************************************)
(* Theorems about ProcessSupervisor, for any tasks, any number of pids and *)
(* any values of IsValid and IsNoMonitor.                                  *)
(***************************************************************************)
EXTENDS ProcessSupervisor, FiniteSetTheorems, TLAPS

(***************************************************************************)
(* A child that is launched gets a pid of its task.                        *)
(***************************************************************************)
LEMMA FreePid ==
    ASSUME NEW free \in SUBSET Pids, free # {}
    PROVE  (CHOOSE p \in free : TRUE) \in free
OBVIOUS

(***************************************************************************)
(* What terminateOneChild's callers do with its result keeps the map, the  *)
(* rows and the thread's place of their types.                             *)
(***************************************************************************)
LEMMA TerminatedType ==
    ASSUME TypeOK,
           NEW in \in Loops, NEW t \in Tasks \cup {None},
           NEW stopped \in BOOLEAN,
           Terminated(in, t, stopped)
    PROVE  /\ bpcb' \in [Tasks -> Bpcb \cup {None}]
           /\ handle' \in [Tasks -> Task \cup {None}]
           /\ todo' \in [Loops -> SUBSET Tasks]
           /\ pc' \in Where
           /\ loop' \in Loops
           /\ cur' \in Tasks \cup {None}
           /\ target' \in 0 .. MaxPid
<1>1. in \in Where /\ "launch" \in Where
    BY DEF Where
<1>2. 0 \in 0 .. MaxPid
    BY SupervisorAssumption DEF SupervisorAssumption
<1>3. todo' \in [Loops -> SUBSET Tasks]
    BY <1>1 DEF TypeOK, Terminated
<1>4. /\ bpcb' \in [Tasks -> Bpcb \cup {None}]
      /\ handle' \in [Tasks -> Task \cup {None}]
    <2>1. CASE in = "remove" /\ Unregister(t)
        BY <2>1 DEF TypeOK, Unregister, Forget
    <2>2. CASE in # "remove" /\ UNCHANGED <<handle, bpcb>>
        BY <2>2 DEF TypeOK
    <2> QED
        BY <2>1, <2>2 DEF Terminated
<1> QED
    BY <1>1, <1>2, <1>3, <1>4 DEF Terminated

(***************************************************************************)
(* So does the part of terminateOneChild before its sleep, which signals   *)
(* at most one process.                                                    *)
(***************************************************************************)
LEMMA TerminateOneChildType ==
    ASSUME TypeOK,
           NEW in \in {"change", "remove", "check"}, NEW t \in Tasks,
           TerminateOneChild(in, t)
    PROVE  /\ proc' \in [Tasks -> [Pids -> {"none", "up", "stopping"}]]
           /\ bpcb' \in [Tasks -> Bpcb \cup {None}]
           /\ handle' \in [Tasks -> Task \cup {None}]
           /\ todo' \in [Loops -> SUBSET Tasks]
           /\ pc' \in Where
           /\ loop' \in Loops
           /\ cur' \in Tasks \cup {None}
           /\ target' \in 0 .. MaxPid
<1>0. in \in Loops
    BY DEF Loops
<1> DEFINE known == handle[t] # None /\ bpcb[t] # None
           pid   == IF known THEN bpcb[t].pid ELSE 0
<1>1. CASE pid = 0 /\ Terminated(in, t, FALSE) /\ UNCHANGED proc
    BY <1>0, <1>1, TerminatedType DEF TypeOK
<1>2. CASE Terminated(in, t, TRUE) /\ UNCHANGED proc
    BY <1>0, <1>2, TerminatedType DEF TypeOK
<1>3. CASE /\ pid \in Live(t)
           /\ proc' = [proc EXCEPT ![t][pid] = Signal(in, t)]
           /\ pc' = "sleep"
           /\ loop' = in
           /\ cur' = t
           /\ target' = pid
           /\ UNCHANGED <<handle, bpcb, todo>>
    <2>1. pid \in Pids
        BY <1>3 DEF Live
    <2>2. Signal(in, t) \in {"none", "up", "stopping"}
        BY DEF Signal
    <2>3. proc' \in [Tasks -> [Pids -> {"none", "up", "stopping"}]]
        <3> HIDE DEF pid
        <3> QED
            BY <1>3, <2>1, <2>2 DEF TypeOK
    <2>4. pid \in 0 .. MaxPid
        BY <2>1, SupervisorAssumption DEF SupervisorAssumption, Pids
    <2>5. pc' \in Where /\ loop' \in Loops
        BY <1>3 DEF Where, Loops
    <2> QED
        BY <1>3, <2>3, <2>4, <2>5 DEF TypeOK
<1> QED
    BY <1>1, <1>2, <1>3 DEF TerminateOneChild

LEMMA InitTypeOK == Init => TypeOK
<1> SUFFICES ASSUME Init PROVE TypeOK
    OBVIOUS
<1>1. 0 \in 0 .. MaxPid
    BY SupervisorAssumption DEF SupervisorAssumption
<1> QED
    BY <1>1 DEF Init, TypeOK, Where, Loops

LEMMA EnvironmentTypeOK == TypeOK /\ Environment => TypeOK'
<1> SUFFICES ASSUME TypeOK, NEW t \in Tasks,
                    \/ EditTask(t)
                    \/ Expire(t)
                    \/ \E p \in Pids : HeartBeat(t, p) \/ Die(t, p)
             PROVE  TypeOK'
    BY DEF Environment
<1>1. CASE EditTask(t)
    BY <1>1 DEF TypeOK, EditTask, unitVars, whereVars
<1>2. CASE Expire(t)
    <2>1. [bpcb[t] EXCEPT !.late = TRUE] \in Bpcb
        BY <1>2 DEF TypeOK, Expire, Bpcb
    <2>2. bpcb' \in [Tasks -> Bpcb \cup {None}]
        BY <1>2, <2>1 DEF TypeOK, Expire
    <2> QED
        BY <1>2, <2>2 DEF TypeOK, Expire, envVars, unitVars, whereVars
<1>3. ASSUME NEW p \in Pids, HeartBeat(t, p)
      PROVE  TypeOK'
    <2>1. [pid |-> p, late |-> FALSE] \in Bpcb
        BY SupervisorAssumption DEF SupervisorAssumption, Pids, Bpcb
    <2> QED
        BY <1>3, <2>1 DEF TypeOK, HeartBeat, envVars, unitVars, whereVars
<1>4. ASSUME NEW p \in Pids, Die(t, p)
      PROVE  TypeOK'
    BY <1>4 DEF TypeOK, Die, envVars, unitVars, whereVars
<1> QED
    BY <1>1, <1>2, <1>3, <1>4

(***************************************************************************)
(* A launch starts nothing, or one process of the task the thread is at,   *)
(* which it has found able to be launched.                                 *)
(***************************************************************************)
Unstarted == UNCHANGED <<bpcb, proc, unasked>>

StillUnasked(p) == (unasked[cur] \cap Live(cur)) \ {p}

Started(p) ==
    /\ cur \in Tasks
    /\ CanLaunch(cur)
    /\ bpcb' = [bpcb EXCEPT ![cur].late = FALSE]
    /\ proc' = [proc EXCEPT ![cur][p] = "up"]
    /\ \/ JudgeSingle /\ ~AlreadyRuns(cur) /\ unasked' = [unasked EXCEPT ![cur] = StillUnasked(p)]
       \/ unasked' = [unasked EXCEPT ![cur] = StillUnasked(p) \cup {p}]

LEMMA LaunchCases ==
    ASSUME TypeOK, LaunchOneChild
    PROVE  Unstarted \/ \E p \in Pids : Started(p)
<1> DEFINE free == Pids \ (Live(cur) \cup {bpcb[cur].pid})
           pid  == CHOOSE p \in free : TRUE
           kept == StillUnasked(pid)
<1>1. CASE /\ CanLaunch(cur)
           /\ bpcb' = [bpcb EXCEPT ![cur].late = FALSE]
           /\ free # {}
           /\ proc' = [proc EXCEPT ![cur][pid] = "up"]
           /\ \/ /\ JudgeSingle /\ ~AlreadyRuns(cur)
                 /\ unasked' = [unasked EXCEPT ![cur] = kept]
              \/ /\ ~JudgeSingle \/ JudgeMayFail
                 /\ unasked' = [unasked EXCEPT ![cur] = kept \cup {pid}]
    <2>1. pid \in Pids
        BY <1>1, FreePid
    <2>2. CASE cur \in Tasks
        <3> HIDE DEF pid
        <3> QED
            BY <1>1, <2>1, <2>2 DEF Started
    <2>3. CASE cur \notin Tasks
        <3> HIDE DEF pid, kept
        <3>1. bpcb' = bpcb /\ proc' = proc
            BY <1>1, <2>3 DEF TypeOK
        <3>2. unasked' = unasked
            BY <1>1, <2>3 DEF TypeOK
        <3> QED
            BY <3>1, <3>2 DEF Unstarted
    <2> QED
        BY <2>2, <2>3
<1>2. CASE UNCHANGED <<bpcb, proc, unasked>>
    BY <1>2 DEF Unstarted
<1> QED
    BY <1>1, <1>2, Zenon DEF LaunchOneChild, StillUnasked

LEMMA LaunchTypeOK == TypeOK /\ LaunchOneChild => TypeOK'
<1> SUFFICES ASSUME TypeOK, LaunchOneChild PROVE TypeOK'
    OBVIOUS
<1>1. loop \in Where
    BY DEF TypeOK, Where
<1>2. CASE Unstarted
    BY <1>1, <1>2 DEF TypeOK, LaunchOneChild, Unstarted, unitVars
<1>3. ASSUME NEW p \in Pids, Started(p)
      PROVE  TypeOK'
    <2>1. proc' \in [Tasks -> [Pids -> {"none", "up", "stopping"}]]
        BY <1>3 DEF TypeOK, Started
    <2>2. [bpcb[cur] EXCEPT !.late = FALSE] \in Bpcb
        BY <1>3 DEF TypeOK, Started, CanLaunch, Bpcb
    <2>3. bpcb' \in [Tasks -> Bpcb \cup {None}]
        BY <1>3, <2>2 DEF TypeOK, Started
    <2>4. unasked' \in [Tasks -> SUBSET Pids]
        BY <1>3 DEF TypeOK, Started, StillUnasked
    <2> QED
        BY <1>1, <2>1, <2>3, <2>4 DEF TypeOK, LaunchOneChild, unitVars
<1> QED
    BY <1>2, <1>3, LaunchCases

(***************************************************************************)
(* Every step of the thread keeps the types.                               *)
(***************************************************************************)
LEMMA SupervisorTypeOK == TypeOK /\ Supervisor => TypeOK'
<1> SUFFICES ASSUME TypeOK, Supervisor PROVE TypeOK'
    OBVIOUS
<1> USE DEF envVars, unitVars, whereVars
<1>1. CASE WaitForTasks
    BY <1>1 DEF TypeOK, WaitForTasks
<1>2. CASE FirstTasks
    BY <1>2 DEF TypeOK, FirstTasks, Listed, Where, Loops
<1>3. CASE FirstDone
    BY <1>3 DEF TypeOK, FirstDone, LoopDone, Where
<1>4. CASE RegularProcessRefresh
    BY <1>4 DEF TypeOK, RegularProcessRefresh, Listed, Where, Loops
<1>5. CASE ChangesDone
    BY <1>5 DEF TypeOK, ChangesDone, Where, Loops
<1>6. CASE AddsDone
    BY <1>6 DEF TypeOK, AddsDone, LoopDone, Where, Loops
<1>7. CASE RemovesDone
    BY <1>7 DEF TypeOK, RemovesDone, LoopDone, Where
<1>8. CASE ReadAllBpcb
    BY <1>8 DEF TypeOK, ReadAllBpcb, Where, Loops
<1>9. CASE UnitDone
    BY <1>9 DEF TypeOK, UnitDone, LoopDone, Where
<1>10. CASE LaunchOneChild
    BY <1>10, LaunchTypeOK
<1>11. CASE TerminateEnds
    <2>1. /\ loop \in Loops
          /\ cur \in Tasks \cup {None}
          /\ (target \notin Live(cur)) \in BOOLEAN
        BY DEF TypeOK
    <2> QED
        BY <1>11, <2>1, TerminatedType DEF TypeOK, TerminateEnds
<1>12. ASSUME NEW t \in Tasks, ChangeTask(t) PROVE TypeOK'
    <2>1. CASE TerminateOneChild("change", t)
        BY <1>12, <2>1, TerminateOneChildType DEF TypeOK, ChangeTask
    <2>2. CASE ~TerminateOneChild("change", t)
        BY <1>12, <2>2 DEF TypeOK, ChangeTask, Where, Loops
    <2> QED
        BY <2>1, <2>2
<1>13. ASSUME NEW t \in Tasks, RemoveTask(t) PROVE TypeOK'
    BY <1>13, TerminateOneChildType DEF TypeOK, RemoveTask
<1>14. ASSUME NEW t \in Tasks, CheckTask(t) PROVE TypeOK'
    BY <1>14, TerminateOneChildType DEF TypeOK, CheckTask
<1>15. ASSUME NEW t \in Tasks, NEW in \in {"first", "add"}, AddTask(in, t)
       PROVE  TypeOK'
    <2>1. NewRow \in Bpcb
        BY SupervisorAssumption DEF SupervisorAssumption, NewRow, Bpcb
    <2> QED
        BY <1>15, <2>1 DEF TypeOK, AddTask, Where, Loops
<1> QED
    BY <1>1, <1>2, <1>3, <1>4, <1>5, <1>6, <1>7, <1>8, <1>9, <1>10, <1>11,
       <1>12, <1>13, <1>14, <1>15 DEF Supervisor

(***************************************************************************)
(* The tables, the map, the processes and the thread's place always have   *)
(* their types.                                                            *)
(***************************************************************************)
THEOREM SupervisorTypes == Spec => []TypeOK
<1>1. Init => TypeOK
    BY InitTypeOK
<1>2. TypeOK /\ [Next]_vars => TypeOK'
    <2>1. TypeOK /\ UNCHANGED vars => TypeOK'
        BY DEF TypeOK, vars, envVars, unitVars, whereVars
    <2> QED
        BY <2>1, EnvironmentTypeOK, SupervisorTypeOK DEF Next
<1> QED
    BY <1>1, <1>2, PTL DEF Spec

------------------------------------------------------------------------------
(* At most one instance *)

(***************************************************************************)
(* The steps other than a launch start no process.                         *)
(***************************************************************************)
NoneStarted == \A t \in Tasks : Live(t)' \subseteq Live(t)

LEMMA TerminateStartsNone ==
    ASSUME TypeOK, NEW in \in Loops, NEW t \in Tasks, TerminateOneChild(in, t)
    PROVE  NoneStarted
<1> DEFINE known == handle[t] # None /\ bpcb[t] # None
           pid   == IF known THEN bpcb[t].pid ELSE 0
<1>1. CASE UNCHANGED proc
    BY <1>1 DEF NoneStarted, Live
<1>2. CASE /\ pid \in Live(t)
           /\ proc' = [proc EXCEPT ![t][pid] = Signal(in, t)]
    <2> HIDE DEF pid
    <2> QED
        BY <1>2 DEF TypeOK, NoneStarted, Live
<1> QED
    BY <1>1, <1>2 DEF TerminateOneChild

LEMMA EnvironmentStartsNone ==
    ASSUME TypeOK, Environment
    PROVE  NoneStarted
<1> SUFFICES ASSUME NEW t \in Tasks,
                    \/ EditTask(t)
                    \/ Expire(t)
                    \/ \E p \in Pids : HeartBeat(t, p) \/ Die(t, p)
             PROVE  NoneStarted
    BY DEF Environment
<1>1. CASE EditTask(t) \/ Expire(t)
    BY <1>1 DEF EditTask, Expire, NoneStarted, Live
<1>2. ASSUME NEW p \in Pids, HeartBeat(t, p) PROVE NoneStarted
    BY <1>2 DEF HeartBeat, NoneStarted, Live
<1>3. ASSUME NEW p \in Pids, Die(t, p) PROVE NoneStarted
    BY <1>3 DEF TypeOK, Die, NoneStarted, Live
<1> QED
    BY <1>1, <1>2, <1>3

LEMMA OnlyLaunchStarts ==
    ASSUME TypeOK, [Next]_vars, ~LaunchOneChild
    PROVE  NoneStarted
<1>1. CASE UNCHANGED vars
    BY <1>1 DEF vars, NoneStarted, Live
<1>2. CASE Environment
    BY <1>2, EnvironmentStartsNone
<1>3. CASE Supervisor
    <2>1. CASE \E t \in Tasks : ChangeTask(t) \/ RemoveTask(t) \/ CheckTask(t)
        <3>1. PICK t \in Tasks : ChangeTask(t) \/ RemoveTask(t) \/ CheckTask(t)
            BY <2>1
        <3>2. CASE UNCHANGED proc
            BY <3>2 DEF NoneStarted, Live
        <3>3. {"change", "remove", "check"} \subseteq Loops
            BY DEF Loops
        <3>4. CASE \E in \in Loops : TerminateOneChild(in, t)
            BY <3>4, TerminateStartsNone
        <3> QED
            BY <3>1, <3>2, <3>3, <3>4 DEF ChangeTask, RemoveTask, CheckTask
    <2>2. CASE \E t \in Tasks, in \in {"first", "add"} : AddTask(in, t)
        BY <2>2 DEF AddTask, NoneStarted, Live
    <2>3. CASE \/ WaitForTasks \/ FirstTasks \/ FirstDone
               \/ RegularProcessRefresh \/ ChangesDone \/ AddsDone \/ RemovesDone
               \/ ReadAllBpcb \/ UnitDone \/ TerminateEnds
        <3>1. UNCHANGED proc
            BY <2>3 DEF WaitForTasks, FirstTasks, FirstDone, LoopDone,
                        RegularProcessRefresh, ChangesDone, AddsDone,
                        RemovesDone, ReadAllBpcb, UnitDone, TerminateEnds
        <3> QED
            BY <3>1 DEF NoneStarted, Live
    <2> QED
        BY <1>3, <2>1, <2>2, <2>3 DEF Supervisor
<1> QED
    BY <1>1, <1>2, <1>3 DEF Next

(***************************************************************************)
(* Of the processes of a task no two were launched after an answer of ps,  *)
(* without reference to a cardinality.                                     *)
(***************************************************************************)
SingleInstance == \A t \in Tasks : \A p, q \in Live(t) \ unasked[t] : p = q

LEMMA SingleIsAtMostOne == SingleInstance => AtMostOneInstance
<1> SUFFICES ASSUME SingleInstance, NEW t \in Tasks
             PROVE  Cardinality(Live(t) \ unasked[t]) <= 1
    BY DEF AtMostOneInstance
<1>1. CASE Live(t) \ unasked[t] = {}
    BY <1>1, FS_EmptySet
<1>2. ASSUME NEW p \in Live(t) \ unasked[t]
      PROVE  Cardinality(Live(t) \ unasked[t]) <= 1
    <2>1. Live(t) \ unasked[t] = {p}
        BY <1>2 DEF SingleInstance
    <2>2. Cardinality({p}) = 1
        BY FS_Singleton
    <2> QED
        BY <2>1, <2>2
<1> QED
    BY <1>1, <1>2

LEMMA LaunchKeepsSingle ==
    ASSUME TypeOK, SingleInstance, NEW n \in Pids, Started(n)
    PROVE  SingleInstance'
<1> DEFINE Asked(t) == Live(t) \ unasked[t]
<1> SUFFICES ASSUME NEW t \in Tasks, NEW p \in Pids, NEW q \in Pids,
                    p \in Asked(t)', q \in Asked(t)'
             PROVE  p = q
    BY DEF SingleInstance, Live
<1>1. \A x, y \in Asked(t) : x = y
    BY DEF SingleInstance
<1>2. CASE t # cur
    <2>1. Asked(t)' = Asked(t)
        BY <1>2 DEF Started, TypeOK, Live
    <2> QED
        BY <1>1, <2>1
<1>3. CASE t = cur
    <2>1. Live(t)' = Live(t) \cup {n}
        BY <1>3 DEF Started, TypeOK, Live
    <2>2. CASE JudgeSingle /\ ~AlreadyRuns(t)
        <3>1. Live(t) = {}
            BY <2>2, SupervisorAssumption DEF SupervisorAssumption, AlreadyRuns
        <3> QED
            BY <2>1, <3>1
    <2>3. CASE unasked' = [unasked EXCEPT ![cur] = StillUnasked(n) \cup {n}]
        <3>1. unasked'[t] = ((unasked[t] \cap Live(t)) \ {n}) \cup {n}
            BY <1>3, <2>3 DEF TypeOK, Started, StillUnasked
        <3>2. p \in Asked(t) /\ q \in Asked(t)
            BY <2>1, <3>1
        <3> QED
            BY <1>1, <3>2
    <2> QED
        BY <1>3, <2>2, <2>3 DEF Started
<1> QED
    BY <1>2, <1>3

(***************************************************************************)
(* A launch starts processes of the task the thread is at only.            *)
(***************************************************************************)
LEMMA LaunchStartsOne ==
    ASSUME TypeOK, LaunchOneChild, NEW t \in Tasks
    PROVE  \/ Live(t)' \subseteq Live(t)
           \/ t = cur /\ CanLaunch(cur)
<1>1. CASE Unstarted
    BY <1>1 DEF Unstarted, Live
<1>2. ASSUME NEW p \in Pids, Started(p)
      PROVE  \/ Live(t)' \subseteq Live(t)
             \/ t = cur /\ CanLaunch(cur)
    BY <1>2 DEF Started, TypeOK, Live
<1> QED
    BY <1>1, <1>2, LaunchCases

LEMMA OnlyLaunchAsks ==
    ASSUME [Next]_vars, ~LaunchOneChild
    PROVE  UNCHANGED unasked
<1> USE DEF envVars
<1>1. CASE UNCHANGED vars
    BY <1>1 DEF vars
<1>2. CASE Environment
    BY <1>2 DEF Environment, EditTask, Expire, HeartBeat, Die
<1>3. CASE Supervisor
    BY <1>3 DEF Supervisor, WaitForTasks, FirstTasks, FirstDone, LoopDone,
                RegularProcessRefresh, ChangesDone, AddsDone, RemovesDone,
                ReadAllBpcb, UnitDone, TerminateEnds, ChangeTask, RemoveTask,
                CheckTask, AddTask
<1> QED
    BY <1>1, <1>2, <1>3 DEF Next

(***************************************************************************)
(* No task ever has two processes that were launched after ps had answered,*)
(* whatever its row in MetaBpcbInfo says, whatever the clients do to the   *)
(* table and however often the search fails in between.                    *)
(***************************************************************************)
THEOREM SingleProcess == Spec => []AtMostOneInstance
<1>1. Init => SingleInstance
    BY DEF Init, SingleInstance, Live
<1>2. TypeOK /\ SingleInstance /\ [Next]_vars => SingleInstance'
    <2> SUFFICES ASSUME TypeOK, SingleInstance, [Next]_vars
                 PROVE  SingleInstance'
        OBVIOUS
    <2>1. CASE LaunchOneChild
        <3>1. CASE Unstarted
            BY <3>1 DEF Unstarted, SingleInstance, Live
        <3> QED
            BY <2>1, <3>1, LaunchCases, LaunchKeepsSingle
    <2>2. CASE ~LaunchOneChild
        BY <2>2, OnlyLaunchStarts, OnlyLaunchAsks DEF NoneStarted, SingleInstance
    <2> QED
        BY <2>1, <2>2
<1> QED
    BY <1>1, <1>2, SupervisorTypes, SingleIsAtMostOne, PTL DEF Spec

------------------------------------------------------------------------------
(* Unknown programs *)

(***************************************************************************)
(* UnknownNeverRegistered is not inductive: it needs that the thread has in*)
(* hand only tasks whose programs it has looked up.  The new tasks are the *)
(* exception, until the changed ones are done.                             *)
(***************************************************************************)
Changing == pc = "change" \/ (pc \in {"launch", "sleep"} /\ loop = "change")

LookedUp ==
    /\ UnknownNeverRegistered
    /\ todo["first"] \subseteq Defined
    /\ todo["change"] \subseteq Defined
    /\ todo["check"] \subseteq Defined
    /\ Changing \/ todo["add"] \subseteq Defined
    /\ pc \in {"launch", "sleep"} => cur \in Defined

(***************************************************************************)
(* Handling the result of terminateOneChild registers nothing, and only a  *)
(* task already in hand is launched again.                                 *)
(***************************************************************************)
LEMMA TerminatedLookedUp ==
    ASSUME TypeOK, LookedUp, TypeOK', NEW in \in Loops,
           NEW t \in Tasks, NEW stopped \in BOOLEAN,
           Terminated(in, t, stopped), UNCHANGED proc,
           in = "change" <=> Changing,
           stopped => t \in Defined
    PROVE  LookedUp'
<1>1. /\ \A s \in Tasks : handle[s] = None => handle'[s] = None
      /\ \A s \in Tasks : bpcb[s] = None => bpcb'[s] = None
    <2>1. CASE in = "remove" /\ Unregister(t)
        BY <2>1 DEF TypeOK, Unregister, Forget
    <2>2. CASE in # "remove" /\ UNCHANGED <<handle, bpcb>>
        BY <2>2
    <2> QED
        BY <2>1, <2>2 DEF Terminated
<1>2. UnknownNeverRegistered'
    BY <1>1 DEF LookedUp, UnknownNeverRegistered, Live
<1>3. \A l \in Loops : todo'[l] \subseteq todo[l]
    BY DEF TypeOK, Terminated
<1>4. {"first", "change", "add", "check"} \subseteq Loops
    BY DEF Loops
<1>5. pc' \in {"launch", "sleep"} => cur' \in Defined
    BY DEF Loops, Terminated, Relaunch
<1>6. Changing' <=> in = "change"
    BY DEF Loops, Terminated, Relaunch, Changing
<1> QED
    BY <1>2, <1>3, <1>4, <1>5, <1>6 DEF LookedUp

(***************************************************************************)
(* terminateOneChild signals a process, or finds it gone, only of a task   *)
(* that has a handle.                                                      *)
(***************************************************************************)
LEMMA TerminateLookedUp ==
    ASSUME TypeOK, LookedUp, TypeOK', NEW in \in {"change", "remove", "check"},
           NEW t \in Tasks, TerminateOneChild(in, t), pc = in
    PROVE  LookedUp'
<1> DEFINE known == handle[t] # None /\ bpcb[t] # None
           pid   == IF known THEN bpcb[t].pid ELSE 0
<1>1. pid \in Pids => t \in Defined
    BY DEF Pids, LookedUp, UnknownNeverRegistered
<1>2. in \in Loops /\ (in = "change" <=> Changing)
    BY DEF Loops, Changing
<1>3. CASE pid = 0 /\ Terminated(in, t, FALSE) /\ UNCHANGED proc
    BY <1>2, <1>3, TerminatedLookedUp
<1>4. CASE pid \in Pids \ Live(t) /\ Terminated(in, t, TRUE) /\ UNCHANGED proc
    BY <1>1, <1>2, <1>4, TerminatedLookedUp
<1>5. CASE /\ pid \in Live(t)
           /\ proc' = [proc EXCEPT ![t][pid] = Signal(in, t)]
           /\ pc' = "sleep"
           /\ loop' = in
           /\ cur' = t
           /\ UNCHANGED <<handle, bpcb, todo>>
    <2>1. t \in Defined
        BY <1>1, <1>5 DEF Live
    <2>2. \A s \in Tasks : Live(s)' \subseteq Live(s)
        <3> HIDE DEF pid
        <3> QED
            BY <1>5 DEF TypeOK, Live
    <2>3. UnknownNeverRegistered'
        BY <1>5, <2>2 DEF LookedUp, UnknownNeverRegistered
    <2>4. Changing' <=> Changing
        BY <1>2, <1>5 DEF Changing
    <2> QED
        BY <1>5, <2>1, <2>3, <2>4 DEF LookedUp
<1> QED
    BY <1>3, <1>4, <1>5 DEF TerminateOneChild

(***************************************************************************)
(* Children and time touch only rows that are there.                       *)
(***************************************************************************)
LEMMA EnvironmentLookedUp ==
    ASSUME TypeOK, LookedUp, Environment
    PROVE  LookedUp'
<1> PICK t \in Tasks : \/ EditTask(t)
                       \/ Expire(t)
                       \/ \E p \in Pids : HeartBeat(t, p) \/ Die(t, p)
    BY DEF Environment
<1>1. UNCHANGED <<handle, todo, pc, loop, cur>>
    BY DEF EditTask, Expire, HeartBeat, Die, unitVars, whereVars
<1>2. \A s \in Tasks : Live(s)' \subseteq Live(s)
    BY EnvironmentStartsNone DEF NoneStarted
<1>3. \A s \in Tasks : bpcb[s] = None => bpcb'[s] = None
    <2>1. CASE UNCHANGED bpcb
        BY <2>1
    <2>2. CASE bpcb[t] # None /\ \E row : bpcb' = [bpcb EXCEPT ![t] = row]
        BY <2>2 DEF TypeOK
    <2>3. CASE Expire(t)
        BY <2>2, <2>3 DEF Expire
    <2>4. CASE \E p \in Pids : HeartBeat(t, p)
        BY <2>2, <2>4 DEF HeartBeat
    <2> QED
        BY <2>1, <2>3, <2>4 DEF EditTask, Die
<1>4. UnknownNeverRegistered'
    BY <1>1, <1>2, <1>3 DEF LookedUp, UnknownNeverRegistered
<1>5. Changing' <=> Changing
    BY <1>1 DEF Changing
<1> QED
    BY <1>1, <1>4, <1>5 DEF LookedUp

LEMMA LaunchLookedUp ==
    ASSUME TypeOK, LookedUp, LaunchOneChild
    PROVE  LookedUp'
<1>1. cur \in Defined /\ cur \in Tasks
    BY SupervisorAssumption DEF SupervisorAssumption, LaunchOneChild, LookedUp
<1>2. \A s \in Tasks : s # cur => Live(s)' \subseteq Live(s)
    BY LaunchStartsOne
<1>3. \A s \in Tasks : s # cur => bpcb'[s] = bpcb[s]
    BY <1>1 DEF TypeOK, LaunchOneChild
<1>4. UNCHANGED <<handle, todo>> /\ pc' = loop /\ loop' = loop
    BY DEF LaunchOneChild, unitVars
<1>5. UnknownNeverRegistered'
    BY <1>1, <1>2, <1>3, <1>4 DEF LookedUp, UnknownNeverRegistered
<1>6. Changing' <=> Changing
    BY <1>4 DEF Changing, LaunchOneChild, TypeOK, Loops
<1>7. pc' \notin {"launch", "sleep"}
    BY <1>4 DEF TypeOK, Loops
<1> QED
    BY <1>4, <1>5, <1>6, <1>7 DEF LookedUp

LEMMA SupervisorLookedUp ==
    ASSUME TypeOK, LookedUp, Supervisor, TypeOK'
    PROVE  LookedUp'
<1> USE DEF envVars, unitVars
<1>1. ASSUME UNCHANGED <<bpcb, proc, handle>> PROVE UnknownNeverRegistered'
    BY <1>1 DEF LookedUp, UnknownNeverRegistered, Live
<1>2. CASE WaitForTasks
    BY <1>1, <1>2 DEF WaitForTasks, whereVars, LookedUp, Changing
<1>3. CASE FirstTasks
    <2>1. Listed(last) \subseteq Defined
        BY <1>3 DEF FirstTasks, ProgramsKnown
    <2> QED
        BY <1>1, <1>3, <2>1 DEF TypeOK, FirstTasks, LookedUp, Changing, Loops
<1>4. CASE FirstDone
    BY <1>1, <1>4 DEF FirstDone, LoopDone, LookedUp, Changing
<1>5. CASE RegularProcessRefresh
    <2>1. \A t \in Tasks : handle[t] = None => handle'[t] = None
        BY <1>5 DEF RegularProcessRefresh, HasHandle
    <2>2. UnknownNeverRegistered'
        BY <1>5, <2>1 DEF RegularProcessRefresh, LookedUp,
                          UnknownNeverRegistered, Live
    <2>3. todo'["change"] \subseteq Defined
        BY <1>5 DEF TypeOK, RegularProcessRefresh, HasHandle, LookedUp,
                    UnknownNeverRegistered, Loops, Listed
    <2>4. /\ todo'["first"] = todo["first"]
          /\ todo'["check"] = todo["check"]
        BY <1>5 DEF TypeOK, RegularProcessRefresh, Loops
    <2> QED
        BY <1>5, <2>2, <2>3, <2>4 DEF RegularProcessRefresh, LookedUp, Changing
<1>6. CASE ChangesDone
    BY <1>1, <1>6 DEF TypeOK, ChangesDone, ProgramsKnown, LookedUp, Changing,
                      Loops
<1>7. CASE AddsDone
    BY <1>1, <1>7 DEF AddsDone, LoopDone, LookedUp, Changing
<1>8. CASE RemovesDone
    BY <1>1, <1>8 DEF RemovesDone, LoopDone, LookedUp, Changing
<1>9. CASE ReadAllBpcb
    BY <1>1, <1>9 DEF TypeOK, ReadAllBpcb, NeedsRestart, HasHandle, LookedUp,
                      UnknownNeverRegistered, Changing, Loops
<1>10. CASE UnitDone
    BY <1>1, <1>10 DEF UnitDone, LoopDone, LookedUp, Changing
<1>11. CASE LaunchOneChild
    BY <1>11, LaunchLookedUp
<1>12. CASE TerminateEnds
    <2>1. cur \in Defined /\ cur \in Tasks
        BY <1>12, SupervisorAssumption
           DEF SupervisorAssumption, TerminateEnds, LookedUp
    <2>2. Terminated(loop, cur, target \notin Live(cur)) /\ UNCHANGED proc
        BY <1>12 DEF TerminateEnds
    <2>3. loop = "change" <=> Changing
        BY <1>12 DEF TerminateEnds, Changing
    <2> QED
        BY <2>1, <2>2, <2>3, TerminatedLookedUp DEF TypeOK
<1>13. ASSUME NEW t \in Tasks, ChangeTask(t) PROVE LookedUp'
    <2>1. CASE TerminateOneChild("change", t)
        BY <1>13, <2>1, TerminateLookedUp DEF ChangeTask
    <2>2. CASE ~TerminateOneChild("change", t)
        BY <1>1, <1>13, <2>2 DEF TypeOK, ChangeTask, LookedUp, Changing, Loops
    <2> QED
        BY <2>1, <2>2
<1>14. ASSUME NEW t \in Tasks, RemoveTask(t) PROVE LookedUp'
    BY <1>14, TerminateLookedUp DEF RemoveTask
<1>15. ASSUME NEW t \in Tasks, CheckTask(t) PROVE LookedUp'
    BY <1>15, TerminateLookedUp DEF CheckTask
<1>16. ASSUME NEW t \in Tasks, NEW in \in {"first", "add"}, AddTask(in, t)
       PROVE  LookedUp'
    <2>1. t \in Defined
        BY <1>16 DEF AddTask, LookedUp, Changing
    <2>2. \A s \in Tasks : s # t => handle'[s] = handle[s] /\ bpcb'[s] = bpcb[s]
        BY <1>16 DEF TypeOK, AddTask
    <2>3. UnknownNeverRegistered'
        BY <1>16, <2>1, <2>2 DEF AddTask, LookedUp, UnknownNeverRegistered, Live
    <2>4. \A l \in Loops : todo'[l] \subseteq todo[l]
        BY <1>16 DEF TypeOK, AddTask, Loops
    <2>5. {"first", "change", "add", "check"} \subseteq Loops
        BY DEF Loops
    <2>6. ~Changing /\ ~Changing'
        BY <1>16 DEF AddTask, Changing
    <2>7. pc' \in {"launch", "sleep"} => cur' \in Defined
        BY <1>16, <2>1 DEF AddTask
    <2> QED
        BY <2>3, <2>4, <2>5, <2>6, <2>7 DEF LookedUp
<1> QED
    BY <1>2, <1>3, <1>4, <1>5, <1>6, <1>7, <1>8, <1>9, <1>10, <1>11, <1>12,
       <1>13, <1>14, <1>15, <1>16 DEF Supervisor

(***************************************************************************)
(* A task of an unknown program is never registered or launched: the       *)
(* exception that ends the unit leaves nothing behind that a later unit    *)
(* would take for a task it has looked up.                                 *)
(***************************************************************************)
THEOREM UnknownNotRegistered == Spec => []UnknownNeverRegistered
<1>1. Init => LookedUp
    BY SupervisorAssumption
       DEF SupervisorAssumption, Init, LookedUp, UnknownNeverRegistered, Live,
           Changing, Loops
<1>2. TypeOK /\ LookedUp /\ [Next]_vars /\ TypeOK' => LookedUp'
    <2>1. LookedUp /\ UNCHANGED vars => LookedUp'
        BY DEF LookedUp, UnknownNeverRegistered, Live, Changing,
               vars, envVars, unitVars, whereVars
    <2> QED
        BY <2>1, EnvironmentLookedUp, SupervisorLookedUp DEF Next
<1>3. LookedUp => UnknownNeverRegistered
    BY DEF LookedUp
<1> QED
    BY <1>1, <1>2, <1>3, SupervisorTypes, PTL DEF Spec

------------------------------------------------------------------------------
(* Agreement of the records *)

(***************************************************************************)
(* The three records the supervisor keeps of a task - the list read last,  *)
(* the map of handles, the row in MetaBpcbInfo - agree, for any tasks, if  *)
(* every program is known and no registration fails.  Without these two    *)
(* conditions they do not.                                                 *)
(***************************************************************************)

\* The part of the unit the thread is in, also while it sleeps or launches.
Phase == IF pc \in {"launch", "sleep"} THEN loop ELSE pc

(***************************************************************************)
(* How the records of one task lie apart in each part of the unit: a loop  *)
(* still holds exactly the tasks for which they differ.                    *)
(***************************************************************************)
TaskAgrees(t) ==
    /\ bpcb[t] # None <=> handle[t] # None
    /\ handle[t] # None /\ last[t] # None => handle[t] = last[t]
    /\ Phase = "wait" => handle[t] = None
    /\ Phase = "first" =>
          /\ t \in todo["first"] <=> last[t] # None /\ handle[t] = None
          /\ handle[t] # None => last[t] # None
    /\ Phase \in {"change", "add", "remove"} =>
          /\ t \in todo["add"] <=> last[t] # None /\ handle[t] = None
          /\ t \in todo["remove"] <=> last[t] = None /\ handle[t] # None
    /\ Phase = "change" /\ t \in todo["change"] => last[t] # None
    /\ Phase = "remove" => t \notin todo["add"]
    /\ Phase \in {"refresh", "snapshot", "check"} => handle[t] = last[t]

\* The task the thread has in hand is the one its loop is at.
HandInv ==
    /\ pc = "launch" =>
          /\ cur \in Tasks
          /\ loop \in {"first", "change", "add", "check"}
          /\ loop # "check" => last[cur] # None
    /\ pc = "sleep" =>
          /\ cur \in Tasks
          /\ loop \in {"change", "remove", "check"}
          /\ loop = "remove" => cur \in todo["remove"]

AgreeInv == TypeOK /\ HandInv /\ \A t \in Tasks : TaskAgrees(t)

(***************************************************************************)
(* After terminateOneChild a removed task has lost its handle and its row, *)
(* its own because it was registered, and no other task has lost any.      *)
(***************************************************************************)
LEMMA TerminatedAgrees ==
    ASSUME AgreeInv, NEW in \in {"change", "remove", "check"},
           NEW t \in Tasks, NEW stopped \in BOOLEAN,
           Phase = in, in = "remove" => t \in todo["remove"],
           Terminated(in, t, stopped), UNCHANGED last
    PROVE  HandInv' /\ \A s \in Tasks : TaskAgrees(s)'
<1>1. in \in Loops
    BY DEF Loops
<1>2. /\ pc' = IF in = "check" /\ stopped THEN "launch" ELSE in
      /\ loop' = in
      /\ cur' = t
      /\ Phase' = in
    BY DEF Terminated, Relaunch, Phase
<1>3. HandInv'
    BY <1>2 DEF HandInv
<1>4. ASSUME NEW s \in Tasks PROVE TaskAgrees(s)'
    <2>1. TaskAgrees(s)
        BY DEF AgreeInv
    <2>2. /\ todo'[in] = todo[in] \ {t}
          /\ \A l \in Loops : l # in => todo'[l] = todo[l]
        BY <1>1 DEF AgreeInv, TypeOK, Terminated
    <2>3. {"first", "change", "add", "remove", "check"} = Loops
        BY DEF Loops
    <2>4. CASE in # "remove"
        <3>1. UNCHANGED <<handle, bpcb>>
            BY <2>4 DEF Terminated
        <3> QED
            BY <1>2, <2>1, <2>2, <2>3, <2>4, <3>1 DEF TaskAgrees
    <2>5. CASE in = "remove"
        <3>1. handle[t] # None
            BY <2>5 DEF AgreeInv, TaskAgrees
        <3>2. handle'[s] = IF s = t THEN None ELSE handle[s]
            BY <2>5 DEF Terminated, Unregister, Forget, AgreeInv, TypeOK
        <3>3. bpcb'[s] = IF s = t THEN None ELSE bpcb[s]
            BY <2>5, <3>1 DEF Terminated, Unregister
        <3> QED
            BY <1>2, <2>1, <2>2, <2>3, <2>5, <3>1, <3>2, <3>3 DEF TaskAgrees
    <2> QED
        BY <2>4, <2>5
<1> QED
    BY <1>3, <1>4

LEMMA TerminateAgrees ==
    ASSUME AgreeInv, NEW in \in {"change", "remove", "check"}, NEW t \in Tasks,
           pc = in, t \in todo[in], TerminateOneChild(in, t), UNCHANGED last
    PROVE  HandInv' /\ \A s \in Tasks : TaskAgrees(s)'
<1>1. Phase = in
    BY DEF Phase
<1>2. CASE \E stopped \in BOOLEAN : Terminated(in, t, stopped)
    BY <1>1, <1>2, TerminatedAgrees
<1>3. CASE /\ pc' = "sleep"
           /\ loop' = in
           /\ cur' = t
           /\ UNCHANGED <<handle, bpcb, todo>>
    <2>1. Phase' = in
        BY <1>3 DEF Phase
    <2>2. HandInv'
        BY <1>3 DEF HandInv
    <2>3. ASSUME NEW s \in Tasks PROVE TaskAgrees(s)'
        <3>1. TaskAgrees(s)
            BY DEF AgreeInv
        <3> QED
            BY <1>1, <1>3, <2>1, <3>1 DEF TaskAgrees
    <2> QED
        BY <2>2, <2>3
<1> QED
    BY <1>2, <1>3 DEF TerminateOneChild

(***************************************************************************)
(* Clients, children and time change no record but the contents of a row.  *)
(***************************************************************************)
LEMMA EnvironmentAgrees ==
    ASSUME AgreeInv, Environment
    PROVE  HandInv' /\ \A s \in Tasks : TaskAgrees(s)'
<1> PICK t \in Tasks : \/ EditTask(t)
                       \/ Expire(t)
                       \/ \E p \in Pids : HeartBeat(t, p) \/ Die(t, p)
    BY DEF Environment
<1>1. UNCHANGED <<last, handle, todo, pc, loop, cur>>
    BY DEF EditTask, Expire, HeartBeat, Die, unitVars, whereVars
<1>2. \A s \in Tasks : bpcb'[s] = None <=> bpcb[s] = None
    <2>1. CASE UNCHANGED bpcb
        BY <2>1
    <2>2. CASE Expire(t)
        <3>1. [bpcb[t] EXCEPT !.late = TRUE] \in Bpcb
            BY <2>2 DEF AgreeInv, TypeOK, Expire, Bpcb
        <3> QED
            BY <2>2, <3>1, SupervisorAssumption
               DEF SupervisorAssumption, AgreeInv, TypeOK, Expire
    <2>3. ASSUME NEW p \in Pids, HeartBeat(t, p)
          PROVE  \A s \in Tasks : bpcb'[s] = None <=> bpcb[s] = None
        <3>1. [pid |-> p, late |-> FALSE] \in Bpcb
            BY SupervisorAssumption DEF SupervisorAssumption, Pids, Bpcb
        <3> QED
            BY <2>3, <3>1, SupervisorAssumption
               DEF SupervisorAssumption, AgreeInv, TypeOK, HeartBeat
    <2> QED
        BY <2>1, <2>2, <2>3 DEF EditTask, Die
<1>3. Phase' = Phase
    BY <1>1 DEF Phase
<1>4. ASSUME NEW s \in Tasks PROVE TaskAgrees(s)'
    <2>1. TaskAgrees(s)
        BY DEF AgreeInv
    <2> QED
        BY <1>1, <1>2, <1>3, <2>1 DEF TaskAgrees
<1>5. HandInv'
    BY <1>1 DEF AgreeInv, HandInv
<1> QED
    BY <1>4, <1>5

LEMMA LaunchAgrees ==
    ASSUME AgreeInv, LaunchOneChild
    PROVE  HandInv' /\ \A s \in Tasks : TaskAgrees(s)'
<1>1. /\ UNCHANGED <<last, handle, todo, loop, cur>>
      /\ pc' = loop
      /\ pc' \notin {"launch", "sleep"}
    BY DEF LaunchOneChild, unitVars, AgreeInv, TypeOK, Loops
<1>2. Phase' = Phase
    BY <1>1 DEF LaunchOneChild, Phase
<1>3. ASSUME NEW s \in Tasks PROVE bpcb'[s] = None <=> bpcb[s] = None
    <2>1. CASE CanLaunch(cur) /\ bpcb' = [bpcb EXCEPT ![cur].late = FALSE]
        <3>1. cur \in Tasks /\ bpcb[cur] \in Bpcb
            BY <2>1 DEF AgreeInv, HandInv, TypeOK, LaunchOneChild, CanLaunch
        <3>2. [bpcb[cur] EXCEPT !.late = FALSE] \in Bpcb
            BY <3>1 DEF Bpcb
        <3> QED
            BY <2>1, <3>1, <3>2, SupervisorAssumption
               DEF SupervisorAssumption, AgreeInv, TypeOK
    <2>2. CASE UNCHANGED bpcb
        BY <2>2
    <2> QED
        BY <2>1, <2>2 DEF LaunchOneChild
<1>4. ASSUME NEW s \in Tasks PROVE TaskAgrees(s)'
    <2>1. TaskAgrees(s)
        BY DEF AgreeInv
    <2> QED
        BY <1>1, <1>2, <1>3, <2>1 DEF TaskAgrees
<1>5. HandInv'
    BY <1>1 DEF HandInv
<1> QED
    BY <1>4, <1>5

(***************************************************************************)
(* The comparison of the table with the list read last, which agreed with  *)
(* the map, splits the tasks into matched, new and removed ones.           *)
(***************************************************************************)
LEMMA RefreshAgrees ==
    ASSUME AgreeInv, RegularProcessRefresh
    PROVE  HandInv' /\ \A s \in Tasks : TaskAgrees(s)'
<1> DEFINE matched == {t \in Listed(last) \cap Listed(table) : HasHandle(t)}
<1>1. pc' = "change" /\ Phase = "refresh" /\ Phase' = "change"
    BY DEF RegularProcessRefresh, Phase
<1>2. HandInv'
    BY <1>1 DEF HandInv
<1>3. ASSUME NEW s \in Tasks PROVE TaskAgrees(s)'
    <2>1. /\ handle[s] = last[s]
          /\ bpcb[s] # None <=> handle[s] # None
        BY <1>1 DEF AgreeInv, TaskAgrees
    <2>2. s \in matched <=> last[s] # None /\ table[s] # None
        BY <2>1 DEF Listed, HasHandle
    <2>3. /\ last'[s] = table[s]
          /\ bpcb'[s] = bpcb[s]
          /\ handle'[s] = IF s \in matched THEN table[s] ELSE handle[s]
        BY DEF RegularProcessRefresh
    <2>4. /\ s \in todo'["change"] => s \in matched
          /\ s \in todo'["add"] <=> table[s] # None /\ s \notin matched
          /\ s \in todo'["remove"] <=> last[s] # None /\ s \notin matched
        <3>1. {"change", "add", "remove"} \subseteq Loops
            BY DEF Loops
        <3>2. /\ todo'["change"] \subseteq matched
              /\ todo'["add"] = Listed(table) \ matched
              /\ todo'["remove"] = Listed(last) \ matched
            BY <3>1 DEF RegularProcessRefresh, AgreeInv, TypeOK
        <3> QED
            BY <3>2 DEF Listed
    <2> HIDE DEF matched
    <2> QED
        BY <1>1, <2>1, <2>2, <2>3, <2>4 DEF TaskAgrees
<1> QED
    BY <1>2, <1>3

LEMMA AddAgrees ==
    ASSUME AgreeInv, ~RegisterMayFail,
           NEW t \in Tasks, NEW in \in {"first", "add"}, AddTask(in, t)
    PROVE  HandInv' /\ \A s \in Tasks : TaskAgrees(s)'
<1>1. in \in Loops /\ Phase = in
    BY DEF AddTask, Loops, Phase
<1>2. t \in todo[in] /\ TaskAgrees(t)
    BY DEF AddTask, AgreeInv
<1>3. handle[t] = None /\ last[t] # None
    BY <1>1, <1>2 DEF TaskAgrees
<1>4. /\ bpcb' = [bpcb EXCEPT ![t] = NewRow]
      /\ handle' = [handle EXCEPT ![t] = last[t]]
      /\ pc' \in {in, "launch"}
      /\ loop' = in
      /\ cur' = t
      /\ last' = last
    BY <1>3 DEF AddTask, HasHandle
<1>5. NewRow # None
    <2>1. NewRow \in Bpcb
        BY SupervisorAssumption DEF SupervisorAssumption, NewRow, Bpcb
    <2> QED
        BY <2>1, SupervisorAssumption DEF SupervisorAssumption
<1>6. Phase' = in
    BY <1>4 DEF Phase
<1>7. HandInv'
    BY <1>3, <1>4 DEF HandInv
<1>8. ASSUME NEW s \in Tasks PROVE TaskAgrees(s)'
    <2>1. TaskAgrees(s)
        BY DEF AgreeInv
    <2>2. /\ todo'[in] = todo[in] \ {t}
          /\ \A l \in Loops : l # in => todo'[l] = todo[l]
        BY <1>1 DEF AgreeInv, TypeOK, AddTask
    <2>3. {"first", "change", "add", "remove", "check"} = Loops
        BY DEF Loops
    <2>4. /\ handle'[s] = IF s = t THEN last[t] ELSE handle[s]
          /\ bpcb'[s] = IF s = t THEN NewRow ELSE bpcb[s]
        BY <1>4 DEF AgreeInv, TypeOK
    <2> QED
        BY <1>1, <1>3, <1>4, <1>5, <1>6, <2>1, <2>2, <2>3, <2>4 DEF TaskAgrees
<1> QED
    BY <1>7, <1>8

LEMMA SupervisorAgrees ==
    ASSUME AgreeInv, Supervisor, ~RegisterMayFail, Defined = Tasks
    PROVE  HandInv' /\ \A s \in Tasks : TaskAgrees(s)'
<1> USE DEF envVars, unitVars
<1>0. ASSUME UNCHANGED <<bpcb, last, handle>>, pc \notin {"launch", "sleep"},
             pc' \notin {"launch", "sleep"},
             \A s \in Tasks : TaskAgrees(s) => TaskAgrees(s)'
      PROVE  HandInv' /\ \A s \in Tasks : TaskAgrees(s)'
    BY <1>0 DEF AgreeInv, HandInv
<1>1. CASE WaitForTasks
    BY <1>1 DEF WaitForTasks, whereVars, AgreeInv, HandInv, TaskAgrees, Phase
<1>2. CASE FirstTasks
    BY <1>2 DEF FirstTasks, AgreeInv, TypeOK, HandInv, TaskAgrees, Phase, Loops,
                Listed
<1>3. CASE FirstDone
    BY <1>3 DEF FirstDone, LoopDone, AgreeInv, HandInv, TaskAgrees, Phase
<1>4. CASE RegularProcessRefresh
    BY <1>4, RefreshAgrees
<1>5. CASE ChangesDone
    <2>1. ProgramsKnown(todo["add"])
        BY DEF ProgramsKnown, AgreeInv, TypeOK, Loops
    <2> QED
        BY <1>5, <2>1 DEF ChangesDone, AgreeInv, HandInv, TaskAgrees, Phase
<1>6. CASE AddsDone
    BY <1>6 DEF AddsDone, LoopDone, AgreeInv, HandInv, TaskAgrees, Phase
<1>7. CASE RemovesDone
    BY <1>7 DEF RemovesDone, LoopDone, AgreeInv, HandInv, TaskAgrees, Phase
<1>8. CASE ReadAllBpcb
    BY <1>8 DEF ReadAllBpcb, AgreeInv, HandInv, TaskAgrees, Phase
<1>9. CASE UnitDone
    BY <1>9 DEF UnitDone, LoopDone, AgreeInv, HandInv, TaskAgrees, Phase
<1>10. CASE LaunchOneChild
    BY <1>10, LaunchAgrees
<1>11. CASE TerminateEnds
    <2>1. /\ cur \in Tasks
          /\ loop \in {"change", "remove", "check"}
          /\ loop = "remove" => cur \in todo["remove"]
          /\ Phase = loop
        BY <1>11 DEF TerminateEnds, AgreeInv, HandInv, Phase
    <2>2. /\ Terminated(loop, cur, target \notin Live(cur))
          /\ UNCHANGED last
        BY <1>11 DEF TerminateEnds
    <2>3. (target \notin Live(cur)) \in BOOLEAN
        OBVIOUS
    <2> QED
        BY <2>1, <2>2, <2>3, TerminatedAgrees
<1>12. ASSUME NEW t \in Tasks, ChangeTask(t)
       PROVE  HandInv' /\ \A s \in Tasks : TaskAgrees(s)'
    <2>1. CASE TerminateOneChild("change", t)
        BY <1>12, <2>1, TerminateAgrees DEF ChangeTask
    <2>2. CASE ~TerminateOneChild("change", t)
        <3>1. /\ todo' = [todo EXCEPT !["change"] = @ \ {t}]
              /\ pc = "change" /\ pc' = "launch" /\ loop' = "change"
              /\ cur' = t
              /\ t \in todo["change"]
              /\ UNCHANGED <<bpcb, handle, last>>
            BY <1>12, <2>2 DEF ChangeTask
        <3>2. Phase = "change" /\ Phase' = "change"
            BY <3>1 DEF Phase
        <3>3. HandInv'
            BY <3>1, <3>2 DEF AgreeInv, TaskAgrees, HandInv
        <3>4. ASSUME NEW s \in Tasks PROVE TaskAgrees(s)'
            <4>1. TaskAgrees(s)
                BY DEF AgreeInv
            <4>2. /\ todo'["add"] = todo["add"]
                  /\ todo'["remove"] = todo["remove"]
                  /\ todo'["change"] \subseteq todo["change"]
                BY <3>1 DEF AgreeInv, TypeOK, Loops
            <4> QED
                BY <3>1, <3>2, <4>1, <4>2 DEF TaskAgrees
        <3> QED
            BY <3>3, <3>4
    <2> QED
        BY <2>1, <2>2
<1>13. ASSUME NEW t \in Tasks, RemoveTask(t)
       PROVE  HandInv' /\ \A s \in Tasks : TaskAgrees(s)'
    BY <1>13, TerminateAgrees DEF RemoveTask
<1>14. ASSUME NEW t \in Tasks, CheckTask(t)
       PROVE  HandInv' /\ \A s \in Tasks : TaskAgrees(s)'
    BY <1>14, TerminateAgrees DEF CheckTask
<1>15. ASSUME NEW t \in Tasks, NEW in \in {"first", "add"}, AddTask(in, t)
       PROVE  HandInv' /\ \A s \in Tasks : TaskAgrees(s)'
    BY <1>15, AddAgrees
<1> QED
    BY <1>1, <1>2, <1>3, <1>4, <1>5, <1>6, <1>7, <1>8, <1>9, <1>10, <1>11,
       <1>12, <1>13, <1>14, <1>15 DEF Supervisor

LEMMA AgreeStep ==
    ASSUME ~RegisterMayFail, Defined = Tasks, AgreeInv, [Next]_vars
    PROVE  AgreeInv'
<1>1. TypeOK'
    <2>1. TypeOK /\ UNCHANGED vars => TypeOK'
        BY DEF TypeOK, vars, envVars, unitVars, whereVars
    <2> QED
        BY <2>1, EnvironmentTypeOK, SupervisorTypeOK DEF AgreeInv, Next
<1>2. CASE UNCHANGED vars
    <2>1. UNCHANGED <<bpcb, last, handle, todo, pc, loop, cur>>
        BY <1>2 DEF vars, unitVars, whereVars
    <2> QED
        BY <1>1, <2>1 DEF AgreeInv, HandInv, TaskAgrees, Phase
<1> QED
    BY <1>1, <1>2, EnvironmentAgrees, SupervisorAgrees DEF AgreeInv, Next

LEMMA AgreeInit == Init => AgreeInv
BY InitTypeOK DEF Init, AgreeInv, HandInv, TaskAgrees, Phase

(***************************************************************************)
(* Without failing registrations and unknown programs the list, the map and*)
(* MetaBpcbInfo agree whenever the heartbeats are checked, whatever clients*)
(* did to the table and children did while the unit ran.                   *)
(***************************************************************************)
THEOREM RecordsAgree ==
    ASSUME ~RegisterMayFail, Defined = Tasks
    PROVE  Spec => []MapAgrees
<1>1. AgreeInv => MapAgrees
    <2> SUFFICES ASSUME AgreeInv, Checking
                 PROVE  /\ handle = last
                        /\ \A t \in Tasks : bpcb[t] # None <=> handle[t] # None
        BY DEF MapAgrees
    <2>1. Phase \in {"snapshot", "check"}
        BY DEF Checking, Phase
    <2>2. \A t \in Tasks : handle[t] = last[t]
        BY <2>1 DEF AgreeInv, TaskAgrees
    <2> QED
        BY <2>2 DEF AgreeInv, TypeOK, TaskAgrees
<1> QED
    BY <1>1, AgreeInit, AgreeStep, PTL DEF Spec

(***************************************************************************)
(* A step that leaves a task with more processes launched one.             *)
(***************************************************************************)
LEMMA MoreIsLaunched ==
    ASSUME TypeOK, [Next]_vars, NEW t \in Tasks,
           Cardinality(Live(t)') > Cardinality(Live(t))
    PROVE  LaunchOneChild /\ t = cur /\ CanLaunch(cur)
<1>1. IsFiniteSet(Live(t)) /\ Cardinality(Live(t)) \in Nat
    <2>1. IsFiniteSet(Pids)
        BY SupervisorAssumption, FS_Interval DEF SupervisorAssumption, Pids
    <2> QED
        BY <2>1, FS_Subset, FS_CardinalityType DEF Live
<1>2. ~(Live(t)' \subseteq Live(t))
    <2> SUFFICES ASSUME Live(t)' \subseteq Live(t) PROVE FALSE
        OBVIOUS
    <2>1. /\ Cardinality(Live(t)') <= Cardinality(Live(t))
          /\ IsFiniteSet(Live(t)')
        BY <1>1, FS_Subset
    <2>2. Cardinality(Live(t)') \in Nat
        BY <2>1, FS_CardinalityType
    <2> QED
        BY <1>1, <2>1, <2>2
<1>3. LaunchOneChild
    BY <1>2, OnlyLaunchStarts DEF NoneStarted
<1> QED
    BY <1>2, <1>3, LaunchStartsOne

(***************************************************************************)
(* Under the same conditions no process is launched for a task that, in the*)
(* list the unit works from, is stopped or is not there.                   *)
(***************************************************************************)
THEOREM StoppedNotLaunched ==
    ASSUME ~RegisterMayFail, Defined = Tasks
    PROVE  Spec => NeverLaunchStopped
<1> DEFINE Kept == \A t \in Tasks : Cardinality(Live(t)') > Cardinality(Live(t)) =>
                       last[t] # None /\ last[t].valid = CONTROL_START
<1>1. AgreeInv /\ [Next]_vars => Kept
    <2> SUFFICES ASSUME AgreeInv, [Next]_vars, NEW t \in Tasks,
                        Cardinality(Live(t)') > Cardinality(Live(t))
                 PROVE  last[t] # None /\ last[t].valid = CONTROL_START
        OBVIOUS
    <2>1. pc = "launch" /\ t = cur /\ CanLaunch(cur)
        BY MoreIsLaunched DEF AgreeInv, LaunchOneChild
    <2>2. handle[t] # None /\ handle[t].valid = CONTROL_START
        BY <2>1 DEF CanLaunch, Startable, AgreeInv, TaskAgrees
    <2>3. last[t] # None
        <3>1. CASE loop # "check"
            BY <2>1, <3>1 DEF AgreeInv, HandInv
        <3>2. CASE loop = "check"
            BY <2>1, <2>2, <3>2 DEF AgreeInv, TaskAgrees, Phase
        <3> QED
            BY <3>1, <3>2
    <2> QED
        BY <2>2, <2>3 DEF AgreeInv, TaskAgrees
<1> QED
    BY <1>1, AgreeInit, AgreeStep, PTL DEF Spec, NeverLaunchStopped

==============================================================================
