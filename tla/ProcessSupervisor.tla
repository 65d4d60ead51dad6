-------------------------- MODULE ProcessSupervisor --------------------------
(***************************************************************************)
(* RegularProcessTaskLoop: the thread that keeps the child processes of    *)
(* the table MetaRegularProcessTask running.                               *)
(*                                                                         *)
(* Once a unit (about every 3 s) it compares the table with what it read   *)
(* last, launches and terminates children accordingly, and then checks the *)
(* heartbeats the children wrote into their rows of MetaBpcbInfo.  The     *)
(* clients edit the table, the children report through the work threads    *)
(* and die, and time passes, all of it between any two steps of the thread.*)
(*                                                                         *)
(* A task stands for its row, its primary key and its bpcb id (the row's   *)
(* ID).  No BOL processes are configured to start before the first task    *)
(* arrives, the program of a known task has a binary, queries succeed, and *)
(* the operating system does not reuse a pid that a row still holds.       *)
(***************************************************************************)
EXTENDS Integers, FiniteSets

CONSTANTS
    Tasks,            \* the tasks that may be in the table
    Defined,          \* those whose program is in the program table
    MaxPid,           \* bound: pids of one task
    Controls,         \* values of IsValid in the table
    Monitors,         \* values of IsNoMonitor in the table
    JudgeSingle,      \* kernel.isJudgeSingle
    Matching,         \* [Tasks -> ...] the tasks whose processes grep finds
    JudgeMayFail,     \* whether popen may fail, or its output end too early
    RegisterMayFail,  \* whether the insert into MetaBpcbInfo may fail
    UpdateFile,       \* whether the update file exists at start-up
    None              \* no row, no handle, no task

CONTROL_TERMINATE == 0
CONTROL_START     == 1
CONTROL_KILL      == 2

Pids == 1 .. MaxPid

Task == [valid : Controls, monitor : Monitors]

Bpcb == [pid : 0 .. MaxPid, late : BOOLEAN]

ASSUME SupervisorAssumption ==
    /\ Defined \subseteq Tasks
    /\ MaxPid \in Nat
    /\ Controls \subseteq {CONTROL_TERMINATE, CONTROL_START, CONTROL_KILL}
    /\ Monitors \subseteq 0 .. 2
    /\ JudgeSingle \in BOOLEAN
    /\ Matching \in [Tasks -> SUBSET Tasks]
    /\ \A t \in Tasks : t \in Matching[t]
    /\ JudgeMayFail \in BOOLEAN
    /\ RegisterMayFail \in BOOLEAN
    /\ UpdateFile \in BOOLEAN
    /\ None \notin Task \cup Bpcb \cup Tasks

VARIABLES
    table,   \* [Tasks -> Task or None] MetaRegularProcessTask
    bpcb,    \* [Tasks -> Bpcb or None] MetaBpcbInfo: SysPID, heartbeat too old
    proc,    \* [Tasks -> [Pids -> ...]] the processes of each task
    last,    \* [Tasks -> Task or None] m_vecRegularTaskLast
    handle,  \* [Tasks -> Task or None] mapProcessHandle
    todo,    \* [Loops -> SUBSET Tasks] what is left of each loop of the unit
    pc,      \* where the thread is
    loop,    \* the loop it is in while it terminates or launches
    cur,     \* the task it terminates or launches
    target,  \* the pid it has signalled, 0 when it waits for none
    unasked  \* [Tasks -> SUBSET Pids] history: launched without an answer of ps

envVars == <<table, unasked>>
unitVars == <<last, handle, todo>>
whereVars == <<pc, loop, cur, target>>
vars == <<envVars, bpcb, proc, unitVars, whereVars>>

Loops == {"first", "change", "add", "remove", "check"}
Where == {"wait", "refresh", "snapshot", "launch", "sleep"} \cup Loops

Listed(f) == {t \in Tasks : f[t] # None}

Live(t) == {p \in Pids : proc[t][p] # "none"}

------------------------------------------------------------------------------
(* The clients, the children and time *)

(***************************************************************************)
(* A client adds, updates or deletes a row (ResponseOp).                   *)
(***************************************************************************)
EditTask(t) ==
    /\ \E row \in Task \cup {None} : table' = [table EXCEPT ![t] = row]
    /\ UNCHANGED <<unasked, bpcb, proc, unitVars, whereVars>>

(***************************************************************************)
(* ResponseOp::heartBeat of a live child: its row, if there is one, gets   *)
(* its pid and the present time.                                           *)
(***************************************************************************)
HeartBeat(t, p) ==
    /\ p \in Live(t)
    /\ bpcb[t] # None
    /\ bpcb' = [bpcb EXCEPT ![t] = [pid |-> p, late |-> FALSE]]
    /\ UNCHANGED <<envVars, proc, unitVars, whereVars>>

Die(t, p) ==
    /\ p \in Live(t)
    /\ proc' = [proc EXCEPT ![t][p] = "none"]
    /\ UNCHANGED <<envVars, bpcb, unitVars, whereVars>>

Expire(t) ==
    /\ bpcb[t] # None
    /\ bpcb' = [bpcb EXCEPT ![t].late = TRUE]
    /\ UNCHANGED <<envVars, proc, unitVars, whereVars>>

------------------------------------------------------------------------------
(* launchOneChild and terminateOneChild *)

\* Mutant: the processes are not searched for one of this bpcb id.
NeverRuns(t) == FALSE

(***************************************************************************)
(* What ps and grep find: the pattern DBpcbID=1 has no end, and matches the*)
(* processes of 10 to 19 of the same program as well.                      *)
(***************************************************************************)
AlreadyRuns(t) == \E s \in Matching[t] : Live(s) # {}

\* Mutant: the task's IsValid is not looked at.
AnyControl(valid) == TRUE

Startable(valid) == valid = CONTROL_START

\* Mutant: only a child that never reported is launched.
PidUnset(t) == bpcb[t].pid = 0

PidGone(t) == bpcb[t].pid \notin Live(t)

\* The task is to be started, and the pid in its row is 0 or dead.
CanLaunch(t) ==
    /\ Startable(handle[t].valid)
    /\ bpcb[t] # None
    /\ PidGone(t)

(***************************************************************************)
(* launchOneChild.  With kernel.isJudgeSingle the answer of ps decides, and*)
(* without an answer the child is launched all the same.  The heartbeat in *)
(* the row becomes the present time, its pid is left until the child       *)
(* reports.  A launch that fails is one of a child that dies at once.      *)
(***************************************************************************)
LaunchOneChild ==
    /\ pc = "launch"
    /\ \/ /\ CanLaunch(cur)
          /\ bpcb' = [bpcb EXCEPT ![cur].late = FALSE]
          /\ LET free == Pids \ (Live(cur) \cup {bpcb[cur].pid})
                 pid  == CHOOSE p \in free : TRUE
                 kept == (unasked[cur] \cap Live(cur)) \ {pid}
             IN  /\ free # {}  \* bound
                 /\ proc' = [proc EXCEPT ![cur][pid] = "up"]
                 /\ \/ /\ JudgeSingle /\ ~AlreadyRuns(cur)
                       /\ unasked' = [unasked EXCEPT ![cur] = kept]
                    \/ /\ ~JudgeSingle \/ JudgeMayFail
                       /\ unasked' = [unasked EXCEPT ![cur] = kept \cup {pid}]
       \/ /\ ~CanLaunch(cur) \/ (JudgeSingle /\ AlreadyRuns(cur))
          /\ UNCHANGED <<bpcb, proc, unasked>>
    /\ pc' = loop
    /\ UNCHANGED <<table, unitVars, loop, cur, target>>

\* Mutant: the row is deleted, the handle stays in the map.
KeepHandle(t) == handle

Forget(t) == [handle EXCEPT ![t] = None]

(***************************************************************************)
(* A removed task: the row is deleted and the handle erased, whatever      *)
(* became of the process.  A task that was never registered has no handle: *)
(* the bpcb id is then read past the end of the map, and the row of any    *)
(* task, or none, goes.                                                    *)
(***************************************************************************)
Unregister(t) ==
    /\ handle' = Forget(t)
    /\ \E victim \in IF handle[t] # None THEN {t} ELSE Tasks \cup {None} :
          bpcb' = [s \in Tasks |-> IF s = victim THEN None ELSE bpcb[s]]

Relaunch(in, stopped) == in = "check" /\ stopped

(***************************************************************************)
(* What the thread does with the result of terminateOneChild, depending on *)
(* the loop it is in: only the check launches the child again.             *)
(***************************************************************************)
Terminated(in, t, stopped) ==
    /\ todo' = [todo EXCEPT ![in] = @ \ {t}]
    /\ \/ in = "remove" /\ Unregister(t)
       \/ in # "remove" /\ UNCHANGED <<handle, bpcb>>
    /\ pc' = IF Relaunch(in, stopped) THEN "launch" ELSE in
    /\ loop' = in
    /\ cur' = t
    /\ target' = 0

\* The signal is SIGTERM unless the table says that the task be killed.
Signal(in, t) ==
    IF in = "change" /\ handle[t].valid = CONTROL_KILL THEN "none" ELSE "stopping"

(***************************************************************************)
(* terminateOneChild, up to its sleep: nothing is signalled when there is  *)
(* no handle, no row, no pid in the row, or no process with that pid.  Only*)
(* in the last case the child counts as stopped.                           *)
(***************************************************************************)
TerminateOneChild(in, t) ==
    LET known == handle[t] # None /\ bpcb[t] # None
        pid   == IF known THEN bpcb[t].pid ELSE 0
    IN \/ /\ pid = 0
          /\ Terminated(in, t, FALSE)
          /\ UNCHANGED proc
       \/ /\ pid \in Pids \ Live(t)
          /\ Terminated(in, t, TRUE)
          /\ UNCHANGED proc
       \/ /\ pid \in Live(t)
          /\ proc' = [proc EXCEPT ![t][pid] = Signal(in, t)]
          /\ pc' = "sleep"
          /\ loop' = in
          /\ cur' = t
          /\ target' = pid
          /\ UNCHANGED <<handle, bpcb, todo>>

(***************************************************************************)
(* After the two seconds: is the process that was signalled still there?   *)
(***************************************************************************)
TerminateEnds ==
    /\ pc = "sleep"
    /\ Terminated(loop, cur, target \notin Live(cur))
    /\ UNCHANGED <<envVars, proc, last>>

------------------------------------------------------------------------------
(* handleOneUnit, before the first tasks are there: waitForRegularTask *)

WaitForTasks ==
    /\ pc = "wait"
    /\ Listed(last) = {}
    /\ last' = table
    /\ UNCHANGED <<envVars, bpcb, proc, handle, todo, whereVars>>

\* Mutant: the programs are not looked up before the tasks are handled.
NoLookup(new) == TRUE

ProgramsKnown(new) == new \subseteq Defined

(***************************************************************************)
(* The first tasks are registered and launched as new ones are.  A task    *)
(* whose program is unknown makes the unit end with an exception before    *)
(* anything is done, and the next unit starts from the same list.          *)
(***************************************************************************)
FirstTasks ==
    /\ pc = "wait"
    /\ Listed(last) # {}
    /\ ProgramsKnown(Listed(last))
    /\ todo' = [todo EXCEPT !["first"] = Listed(last)]
    /\ pc' = "first"
    /\ UNCHANGED <<envVars, bpcb, proc, last, handle, loop, cur, target>>

------------------------------------------------------------------------------
(* regularProcessRefresh *)

HasHandle(t) == handle[t] # None

(***************************************************************************)
(* The table is read and compared with what was read last.  A task in both *)
(* that has a handle is matched: its handle takes over the new values, and *)
(* it is in the first loop if IsValid changed.  All other tasks count as   *)
(* new, as removed, or, without a handle, as both.                         *)
(***************************************************************************)
RegularProcessRefresh ==
    /\ pc = "refresh"
    /\ last' = table
    /\ LET matched == {t \in Listed(last) \cap Listed(table) : HasHandle(t)} IN
        /\ handle' = [t \in Tasks |-> IF t \in matched THEN table[t] ELSE handle[t]]
        /\ todo' = [todo EXCEPT
                      !["change"] = {t \in matched : table[t].valid # last[t].valid},
                      !["add"]    = Listed(table) \ matched,
                      !["remove"] = Listed(last) \ matched]
    /\ pc' = "change"
    /\ UNCHANGED <<envVars, bpcb, proc, loop, cur, target>>

ChangeTask(t) ==
    /\ pc = "change"
    /\ t \in todo["change"]
    /\ \/ /\ handle[t].valid = CONTROL_START
          /\ todo' = [todo EXCEPT !["change"] = @ \ {t}]
          /\ pc' = "launch"
          /\ loop' = "change"
          /\ cur' = t
          /\ UNCHANGED <<bpcb, proc, handle, target>>
       \/ /\ handle[t].valid # CONTROL_START
          /\ TerminateOneChild("change", t)
    /\ UNCHANGED <<envVars, last>>

(***************************************************************************)
(* The priorities of the new tasks are looked up first: an unknown program *)
(* ends the whole unit with an exception.                                  *)
(***************************************************************************)
ChangesDone ==
    /\ pc = "change"
    /\ todo["change"] = {}
    /\ \/ /\ ProgramsKnown(todo["add"])
          /\ pc' = "add"
          /\ UNCHANGED todo
       \/ /\ ~ProgramsKnown(todo["add"])
          /\ pc' = "refresh"
          /\ todo' = [in \in Loops |-> {}]
    /\ UNCHANGED <<envVars, bpcb, proc, last, handle, loop, cur, target>>

\* Mutant: -1 stands for "no pid yet".
InvalidRow == [pid |-> -1, late |-> FALSE]

NewRow == [pid |-> 0, late |-> FALSE]

(***************************************************************************)
(* getOneChildInfo registers the task, in MetaBpcbInfo and in the map; then*)
(* it is launched, except at start-up while the update file exists.  When  *)
(* the insert fails, or there is a handle already, the task is skipped.    *)
(***************************************************************************)
AddTask(in, t) ==
    /\ pc = in
    /\ t \in todo[in]
    /\ todo' = [todo EXCEPT ![in] = @ \ {t}]
    /\ \/ /\ ~HasHandle(t)
          /\ bpcb' = [bpcb EXCEPT ![t] = NewRow]
          /\ handle' = [handle EXCEPT ![t] = last[t]]
          /\ pc' = IF in = "first" /\ UpdateFile THEN "first" ELSE "launch"
          /\ loop' = in
          /\ cur' = t
       \/ /\ HasHandle(t) \/ RegisterMayFail
          /\ UNCHANGED <<bpcb, handle, pc, loop, cur>>
    /\ UNCHANGED <<envVars, proc, last, target>>

LoopDone(in, next) ==
    /\ pc = in
    /\ todo[in] = {}
    /\ pc' = next
    /\ UNCHANGED <<envVars, bpcb, proc, unitVars, loop, cur, target>>

FirstDone == LoopDone("first", "refresh")

AddsDone == LoopDone("add", "remove")

RemoveTask(t) ==
    /\ pc = "remove"
    /\ t \in todo["remove"]
    /\ TerminateOneChild("remove", t)
    /\ UNCHANGED <<envVars, last>>

RemovesDone == LoopDone("remove", "snapshot")

------------------------------------------------------------------------------
(* checkProcess *)

(***************************************************************************)
(* All rows are read at once.  A child to be relaunched is one that has a  *)
(* handle and a row, is to run, is monitored, and whose heartbeat was too  *)
(* old in that reading.                                                    *)
(***************************************************************************)
NeedsRestart(t) ==
    /\ HasHandle(t)
    /\ bpcb[t] # None
    /\ handle[t].valid = CONTROL_START
    /\ handle[t].monitor = 0
    /\ bpcb[t].late

ReadAllBpcb ==
    /\ pc = "snapshot"
    /\ todo' = [todo EXCEPT !["check"] = {t \in Tasks : NeedsRestart(t)}]
    /\ pc' = "check"
    /\ UNCHANGED <<envVars, bpcb, proc, last, handle, loop, cur, target>>

CheckTask(t) ==
    /\ pc = "check"
    /\ t \in todo["check"]
    /\ TerminateOneChild("check", t)
    /\ UNCHANGED <<envVars, last>>

\* The time tasks, the kernel's own row and a sleep of 3 s end the unit.
UnitDone == LoopDone("check", "refresh")

------------------------------------------------------------------------------
Init ==
    /\ table \in [Tasks -> {None}]
    /\ bpcb = [t \in Tasks |-> None]
    /\ proc = [t \in Tasks |-> [p \in Pids |-> "none"]]
    /\ last = [t \in Tasks |-> None]
    /\ handle = [t \in Tasks |-> None]
    /\ todo = [in \in Loops |-> {}]
    /\ pc = "wait"
    /\ loop = "check"
    /\ cur = None
    /\ target = 0
    /\ unasked = [t \in Tasks |-> {}]

Environment ==
    \E t \in Tasks :
        \/ EditTask(t)
        \/ Expire(t)
        \/ \E p \in Pids : HeartBeat(t, p) \/ Die(t, p)

Supervisor ==
    \/ WaitForTasks \/ FirstTasks \/ FirstDone
    \/ RegularProcessRefresh \/ ChangesDone \/ AddsDone \/ RemovesDone
    \/ ReadAllBpcb \/ UnitDone
    \/ LaunchOneChild \/ TerminateEnds
    \/ \E t \in Tasks : \/ ChangeTask(t) \/ RemoveTask(t) \/ CheckTask(t)
                        \/ \E in \in {"first", "add"} : AddTask(in, t)

Next == Environment \/ Supervisor

Spec == Init /\ [][Next]_vars

------------------------------------------------------------------------------
(* Type invariant *)

TypeOK ==
    /\ table \in [Tasks -> Task \cup {None}]
    /\ bpcb \in [Tasks -> Bpcb \cup {None}]
    /\ proc \in [Tasks -> [Pids -> {"none", "up", "stopping"}]]
    /\ last \in [Tasks -> Task \cup {None}]
    /\ handle \in [Tasks -> Task \cup {None}]
    /\ todo \in [Loops -> SUBSET Tasks]
    /\ pc \in Where
    /\ loop \in Loops
    /\ cur \in Tasks \cup {None}
    /\ target \in 0 .. MaxPid
    /\ unasked \in [Tasks -> SUBSET Pids]

------------------------------------------------------------------------------
(* Safety *)

(***************************************************************************)
(* While the heartbeats are checked, the map, MetaBpcbInfo and the list of *)
(* tasks read last agree: a task has a handle exactly when it is listed,   *)
(* with the listed values, and then it has a row.  (Four places write them:*)
(* waitForRegularTask and the three loops of regularProcessRefresh.)       *)
(***************************************************************************)
Checking == pc \in {"snapshot", "check"} \/ (pc \in {"launch", "sleep"} /\ loop = "check")

MapAgrees ==
    Checking => /\ handle = last
                /\ \A t \in Tasks : bpcb[t] # None <=> handle[t] # None

(***************************************************************************)
(* Of the processes a task has, one at most was launched after ps had      *)
(* answered, whatever stale pid its row holds, and whether it was removed  *)
(* and added meanwhile: a second process takes a search that failed, or a  *)
(* kernel without kernel.isJudgeSingle (launchOneChild).                   *)
(***************************************************************************)
AtMostOneInstance == \A t \in Tasks : Cardinality(Live(t) \ unasked[t]) <= 1

(***************************************************************************)
(* A task whose program is unknown is never registered or launched, at     *)
(* start-up or later, whatever else the table holds.                       *)
(***************************************************************************)
UnknownNeverRegistered ==
    \A t \in Tasks \ Defined : handle[t] = None /\ bpcb[t] = None /\ Live(t) = {}

(***************************************************************************)
(* No process is launched for a task that is listed as stopped or is not   *)
(* listed any more.                                                        *)
(***************************************************************************)
NeverLaunchStopped ==
    [][\A t \in Tasks : Cardinality(Live(t)') > Cardinality(Live(t)) =>
          last[t] # None /\ last[t].valid = CONTROL_START]_vars

(***************************************************************************)
(* RegularProcessTaskLoop.cpp:1211, "check bpcb item, if child is alive, do*)
(* nothing": a task that is to run is signalled only when its heartbeat is *)
(* too old.                                                                *)
(***************************************************************************)
AliveChildLeftAlone ==
    [][\A t \in Tasks, p \in Pids :
          /\ proc[t][p] = "up"
          /\ proc'[t][p] = "stopping"
          /\ last[t] # None
          /\ last[t].valid = CONTROL_START
          => bpcb[t].late]_vars

------------------------------------------------------------------------------
(* Fairness and liveness *)

(***************************************************************************)
(* The thread runs: none of its steps waits for anybody.  Time passes: a   *)
(* heartbeat nobody renews becomes too old.  Nothing makes a child report, *)
(* die or obey a signal, or a client edit the table.                       *)
(***************************************************************************)
Fairness ==
    /\ WF_vars(Supervisor)
    /\ \A t \in Tasks : WF_vars(Live(t) = {} /\ Expire(t))

FairSpec == Spec /\ Fairness

Wanted(t) ==
    table[t] # None /\ table[t].valid = CONTROL_START /\ table[t].monitor = 0

(***************************************************************************)
(* A monitored task whose child has reported and has died gets a new child,*)
(* unless the table no longer asks for one, and as long as ps does not find*)
(* the process of another task in its place (checkProcess, launchOneChild).*)
(* A child that died before its first report (pid 0) is never launched     *)
(* again: terminateOneChild fails.                                         *)
(***************************************************************************)
Supervised(t) == handle[t] # None /\ bpcb[t] # None

Dead(t) == bpcb[t].pid # 0 /\ Live(t) = {}

DeadChildRelaunched ==
    \A t \in Tasks :
        (Wanted(t) /\ Supervised(t) /\ Dead(t) /\ ~(JudgeSingle /\ AlreadyRuns(t)))
            ~> (\/ Live(t) # {}
                \/ ~Wanted(t)
                \/ JudgeSingle /\ AlreadyRuns(t))

(***************************************************************************)
(* The map follows the table: a task that stays in the table is supervised *)
(* sooner or later, and one that stays out of it is not.                   *)
(***************************************************************************)
MapFollowsTable ==
    \A t \in Tasks :
        /\ table[t] # None ~> (handle[t] # None \/ table[t] = None)
        /\ table[t] = None ~> (handle[t] = None \/ table[t] # None)

==============================================================================
