---------------------------- MODULE CronSchedule ----------------------------
(***************************************************************************)
(* Cron tasks: RegularProcessTaskLoop::processTimeTask, run once in every  *)
(* unit of the supervisor thread.                                          *)
(*                                                                         *)
(* A pass reads the clock and all rows of MetaBolCrontab once and then goes*)
(* through the rows, while clients edit the table.  A task of type 0 has a *)
(* period and is launched when its next run is due; any other has a field  *)
(* for each unit of the calendar and is launched in the minutes they name, *)
(* once each, which a flag beside the table is to see to.                  *)
(***************************************************************************)
EXTENDS CronCalendar

CONSTANTS
    None,
    Ids,            \* the IDs of cron tasks
    RowsOf,         \* the rows a client may write for an ID
    FirstRuns,      \* how far ahead a client may set NextExecuteTime
    Layouts,        \* what lies behind cl_Mons[12] in memory, see Fields
    ZoneShift,      \* how far the clock's fields are from local time
    MaxGap,         \* bound: ticks from one pass to the next
    Start, End,     \* bounds of time
    MaxEdits        \* bound: edits of the table

ScheduleType == [type : {1}, valid : BOOLEAN, known : BOOLEAN,
                 fields : [Units -> Seq(ItemType)]]
IntervalType == [type : {0}, valid : BOOLEAN, known : BOOLEAN, period : PeriodType]

ASSUME CronAssumption ==
    /\ \A id \in Ids : \A row \in RowsOf[id] : row \in ScheduleType \/ row \in IntervalType
    /\ FirstRuns \subseteq Positive
    /\ Layouts \subseteq Units \cup {"clear", "set"}
    /\ {MaxGap, Start, End, MaxEdits} \subseteq Nat /\ Start > TicksPerMinute
    /\ ZoneShift \in Int /\ ZoneShift =< Start
    /\ None \notin BOOLEAN /\ None \notin Nat
    /\ \A id \in Ids : None \notin RowsOf[id]

VARIABLES
    now,        \* the clock
    table,      \* MetaBolCrontab: the row of each task
    next,       \* its column NextExecuteTime, 0 when unset
    handle,     \* m_CronmapProcessHandle: _isExecuted of each task, or None
    bpcb,       \* MetaBpcbInfo: ThisTimeStartTime of each task, 0 when unset, or None
    compare,    \* comparenow: the clock when the last pass began
    todo,       \* the tasks this pass has still to go through, as it read them
    layout,     \* what the build put behind cl_Mons
    edits,      \* edits so far
    calm        \* history: for how long nothing has disturbed a task, see Settle

vars == <<now, table, next, handle, bpcb, compare, todo, layout, edits, calm>>

AllRows == UNION {RowsOf[id] : id \in Ids}

Copy == [id : Ids, row : AllRows, next : Nat]

TypeOK ==
    /\ now \in Nat
    /\ table \in [Ids -> AllRows \cup {None}]
    /\ next \in [Ids -> Nat]
    /\ handle \in [Ids -> BOOLEAN \cup {None}]
    /\ bpcb \in [Ids -> Nat \cup {None}]
    /\ compare \in Nat
    /\ todo \in SUBSET Copy
    /\ layout \in Layouts
    /\ edits \in Nat
    /\ calm \in [Ids -> {"no", "soon", "yes", "failed"}]

------------------------------------------------------------------------------
(* Clients and the clock *)

(***************************************************************************)
(* The history of a task: it is calm from the first minute after its row   *)
(* was written with nothing left of an earlier one, be it in the tables or *)
(* in a pass, until the row is edited.  A launch or an update that fails   *)
(* and a pass that is given up are remembered.                             *)
(***************************************************************************)
Disturb(ids) ==
    calm' = [id \in Ids |-> IF id \in ids /\ calm[id] # "no" THEN "failed" ELSE calm[id]]

Settle == calm' = [id \in Ids |-> IF calm[id] = "soon" THEN "yes" ELSE calm[id]]

Write(id) ==
    /\ edits < MaxEdits
    /\ edits' = edits + 1
    /\ \E row \in RowsOf[id] \ {table[id]} :
          /\ table' = [table EXCEPT ![id] = row]
          /\ \/ next' = next
             \/ /\ row.type = 0
                /\ \E first \in FirstRuns : next' = [next EXCEPT ![id] = now + first]
    /\ calm' = [calm EXCEPT ![id] =
                   IF /\ table[id] = None /\ handle[id] = None /\ bpcb[id] = None
                      /\ \A copy \in todo : copy.id # id
                   THEN "soon" ELSE "no"]
    /\ UNCHANGED <<now, handle, bpcb, compare, todo, layout>>

Remove(id) ==
    /\ edits < MaxEdits
    /\ edits' = edits + 1
    /\ table[id] # None
    /\ table' = [table EXCEPT ![id] = None]
    /\ next' = [next EXCEPT ![id] = 0]
    /\ calm' = [calm EXCEPT ![id] = "no"]
    /\ UNCHANGED <<now, handle, bpcb, compare, todo, layout>>

\* The thread comes back to its next pass in time.
Tick ==
    /\ todo = {}
    /\ now < End
    /\ now - compare < MaxGap
    /\ now' = now + 1
    /\ IF Minute(now') # Minute(now) THEN Settle ELSE calm' = calm
    /\ UNCHANGED <<table, next, handle, bpcb, compare, todo, layout, edits>>

------------------------------------------------------------------------------
(* A pass *)

(***************************************************************************)
(* The queries succeed.  DeleteOldBpcbInfo takes the tasks that are in the *)
(* table no more off MetaBpcbInfo and the map.                             *)
(***************************************************************************)
BeginPass ==
    /\ todo = {}
    /\ now # compare
    /\ compare' = now
    /\ LET listed == {id \in Ids : table[id] # None}
           old == {id \in Ids \ listed : bpcb[id] # None}
       IN  /\ todo' = {[id |-> id, row |-> table[id], next |-> next[id]] : id \in listed}
           /\ handle' = [id \in Ids |-> IF id \in old THEN None ELSE handle[id]]
           /\ bpcb' = [id \in Ids |-> IF id \in old THEN None ELSE bpcb[id]]
    /\ UNCHANGED <<now, table, next, layout, edits, calm>>

\* getOneCronChildInfo: a task without a handle gets one and a row of MetaBpcbInfo.
Handles(id) == [handle EXCEPT ![id] = IF @ = None THEN FALSE ELSE @]
Bpcbs(id) == [bpcb EXCEPT ![id] = IF handle[id] = None THEN 0 ELSE @]

\* What ParseField marks of each unit of a row.
Marks ==
    [row \in {r \in AllRows : r.type # 0} |->
        [u \in Units |-> ParseField(Modulo[u], row.fields[u])]]

(***************************************************************************)
(* The fields of processTimeTask.  cl_Mons has 12 elements and is used with*)
(* indexes up to 12: the last month is the first element of the array that *)
(* lies behind it in memory, or a byte of padding that is clear or set.    *)
(***************************************************************************)
Fields(row, u, v) ==
    LET marks == Marks[row]
        overrun == Months \in marks["month"]
    IN  IF u = "month" /\ v = Months
        THEN overrun \/ layout = "set" \/ (layout \in Units /\ 0 \in marks[layout])
        ELSE v \in marks[u] \/ (u = layout /\ v = 0 /\ overrun)

\* The checks before the minute's, and the minute's.
HourMatches(row) == \A u \in Units \ {"minute"} : Fields(row, u, At(compare)[u])
MinuteMatches(row) == Fields(row, "minute", At(compare)["minute"])

\* Mutant: the flag is never reset.
ResetsNever(copy) == FALSE

\* The flag is reset in a minute that is not named, of an hour that is.
Resets(copy) ==
    /\ copy.row.type # 0
    /\ HourMatches(copy.row)
    /\ ~MinuteMatches(copy.row)

\* Mutant: the flag is not asked.
DueAgain(copy) ==
    /\ copy.row.valid
    /\ IF copy.row.type = 0 THEN copy.next =< compare
       ELSE HourMatches(copy.row) /\ MinuteMatches(copy.row)

\* The row is valid and nothing keeps it from being launched in this pass.
Due(copy) ==
    /\ copy.row.valid
    /\ IF copy.row.type = 0 THEN copy.next =< compare
       ELSE /\ HourMatches(copy.row) /\ MinuteMatches(copy.row)
            /\ handle[copy.id] # TRUE

\* What becomes of an interval task that is due.
NoPeriod(row) == row.period.months = 0 /\ row.period.ticks = 0

Found(copy) ==
    Advance(IF copy.next = 0 THEN compare ELSE copy.next - ZoneShift, copy.row.period, compare)

\* One turn found the next run, and this one is not more than a minute late.
Timely(copy) == Found(copy).cycles = 1 /\ compare - copy.next =< TicksPerMinute

\* Mutant: the next run is not written.
NextAfterKept(copy) == next

\* Mutant: what the loop had when it threw is written.
NextAfterThrow(copy) ==
    IF table[copy.id] # None THEN [next EXCEPT ![copy.id] = Found(copy).next] ELSE next

\* UpdateCronNextExeTime, before the launch; the row may be gone meanwhile.
NextAfter(copy) ==
    IF Found(copy).next # Invalid /\ table[copy.id] # None
    THEN [next EXCEPT ![copy.id] = Found(copy).next]
    ELSE next

Done(copy) == todo' = todo \ {copy}

Skip(copy) ==
    /\ ~Due(copy)
    /\ handle' = IF copy.row.valid /\ Resets(copy) THEN [handle EXCEPT ![copy.id] = FALSE]
                                                   ELSE Handles(copy.id)
    /\ bpcb' = Bpcbs(copy.id)
    /\ Done(copy)
    /\ UNCHANGED <<now, table, next, compare, layout, edits, calm>>

(***************************************************************************)
(* A task whose program has no row: GetProgramDefbyId returns true and     *)
(* getFieldValue throws out of the pass, past all tasks that are left.     *)
(***************************************************************************)
GiveUp(copy) ==
    /\ Due(copy)
    /\ ~copy.row.known
    /\ todo' = {}
    /\ handle' = Handles(copy.id)
    /\ bpcb' = Bpcbs(copy.id)
    /\ Disturb(Ids)
    /\ UNCHANGED <<now, table, next, compare, layout, edits>>

\* A failing update is logged, and the next run stays as it was.
Reschedule(copy, written) == next' = IF written THEN NextAfter(copy) ELSE next

Trouble(copy, ok) == IF ok THEN calm' = calm ELSE Disturb({copy.id})

Postpone(copy) ==
    /\ Due(copy)
    /\ copy.row.known
    /\ copy.row.type = 0
    /\ \/ NoPeriod(copy.row) /\ UNCHANGED <<next, calm>>
       \/ /\ ~NoPeriod(copy.row) /\ ~Timely(copy)
          /\ \E written \in BOOLEAN : Reschedule(copy, written) /\ Trouble(copy, written)
    /\ handle' = Handles(copy.id)
    /\ bpcb' = Bpcbs(copy.id)
    /\ Done(copy)
    /\ UNCHANGED <<now, table, compare, layout, edits>>

\* Launching fails with an exception that is caught, or sets the flag and the time.
Launch(copy) ==
    /\ Due(copy)
    /\ copy.row.known
    /\ copy.row.type = 0 => ~NoPeriod(copy.row) /\ Timely(copy)
    /\ \E written, launched \in BOOLEAN :
          /\ IF copy.row.type = 0 THEN Reschedule(copy, written) ELSE written /\ next' = next
          /\ handle' = IF launched THEN [handle EXCEPT ![copy.id] = TRUE] ELSE Handles(copy.id)
          /\ bpcb' = IF launched THEN [bpcb EXCEPT ![copy.id] = compare] ELSE Bpcbs(copy.id)
          /\ Trouble(copy, written /\ launched)
    /\ Done(copy)
    /\ UNCHANGED <<now, table, compare, layout, edits>>

------------------------------------------------------------------------------
(* The specification *)

Init ==
    /\ now = Start
    /\ table = [id \in Ids |-> None]
    /\ next = [id \in Ids |-> 0]
    /\ handle = [id \in Ids |-> None]
    /\ bpcb = [id \in Ids |-> None]
    /\ compare = Start
    /\ todo = {}
    /\ layout \in Layouts
    /\ edits = 0
    /\ calm = [id \in Ids |-> "no"]

Pass ==
    \/ BeginPass
    \/ \E copy \in todo : Skip(copy) \/ GiveUp(copy) \/ Postpone(copy) \/ Launch(copy)

Next ==
    \/ \E id \in Ids : Write(id) \/ Remove(id)
    \/ Tick
    \/ Pass

Spec == Init /\ [][Next]_vars

------------------------------------------------------------------------------
(* Schedules *)

\* What the fields of a row are meant to say of a moment.
Names(row, t) ==
    \A u \in Units : At(t)[u] \in Named(Modulo[u], row.fields[u])

\* The fields are well-formed, and the byte behind cl_Mons does no harm.
Sane(row) ==
    /\ \A u \in Units : WellFormed(Modulo[u], row.fields[u])
    /\ \/ layout = "clear"
       \/ layout = "set" /\ Months \in Named(Modulo["month"], row.fields["month"])

\* No two minutes in succession are named, nor the last and the first of an hour.
Spaced(row) ==
    LET minutes == Named(MinutesPerHour, row.fields["minute"])
    IN  \A m \in minutes : (m + 1) % MinutesPerHour \notin minutes

Active(id, type) ==
    table[id] # None /\ table[id].type = type /\ table[id].valid /\ table[id].known

RanThisMinute(id) == bpcb[id] # None /\ bpcb[id] # 0 /\ Minute(bpcb[id]) = Minute(now)

MinuteEnds == Minute(now') # Minute(now)

(***************************************************************************)
(* When there is a pass in every minute, a task that nothing disturbs is   *)
(* launched in every minute its fields name, provided they name no two in  *)
(* succession: the flag of the last run has been reset by then, over hours,*)
(* days and months that are not named as well (processTimeTask).           *)
(***************************************************************************)
NamedMinutesRun ==
    [][MinuteEnds /\ MaxGap =< TicksPerMinute =>
              \A id \in Ids :
                  /\ calm[id] = "yes" /\ Active(id, 1)
                  /\ Sane(table[id]) /\ Spaced(table[id])
                  /\ Names(table[id], now)
                  => RanThisMinute(id)]_vars

(***************************************************************************)
(* RegularProcessTaskLoop.cpp:408, "reset in the next minute": the same of *)
(* any well-formed fields.                                                 *)
(***************************************************************************)
EveryNamedMinuteRuns ==
    [][MinuteEnds /\ MaxGap =< TicksPerMinute =>
              \A id \in Ids :
                  /\ calm[id] = "yes" /\ Active(id, 1)
                  /\ Sane(table[id])
                  /\ Names(table[id], now)
                  => RanThisMinute(id)]_vars

Launched(id) == bpcb'[id] # bpcb[id] /\ bpcb'[id] \notin {None, 0}

(***************************************************************************)
(* As long as its row is the one that was first written, a task runs in the*)
(* minutes its fields name only, whatever ranges, steps and lists they are *)
(* made of, and once in each, even if launches failed or passes were given *)
(* up before (ParseField, _isExecuted).                                    *)
(***************************************************************************)
RunsAsNamed ==
    [][\A id \in Ids :
          /\ Launched(id)
          /\ calm[id] # "no" /\ Active(id, 1) /\ Sane(table[id])
          => Names(table[id], now) /\ ~RanThisMinute(id)]_vars

------------------------------------------------------------------------------
(* Intervals *)

\* The period is of a fixed length.
Regular(id) ==
    /\ Active(id, 0)
    /\ table[id].period.months = 0
    /\ table[id].period.ticks > 0

Calm(id) == calm[id] \in {"soon", "yes"}
Undisturbed(id) == Calm(id) /\ Calm(id)'

(***************************************************************************)
(* When a pass is done with a task of a fixed period, the next run is later*)
(* than the pass, whether the task was launched, late or met for the first *)
(* time (RegularProcessTaskLoop.cpp:636).                                  *)
(***************************************************************************)
NextAhead ==
    [][\A copy \in todo \ todo' :
          Regular(copy.id) /\ Undisturbed(copy.id) => next'[copy.id] > compare]_vars

(***************************************************************************)
(* When passes are more frequent than runs and than minutes, every due time*)
(* gets exactly one launch: NextExecuteTime moves on if and only if the    *)
(* task is launched.                                                       *)
(***************************************************************************)
DueRunsOnce ==
    [][\A id \in Ids :
          /\ MaxGap =< TicksPerMinute /\ ZoneShift = 0
          /\ Regular(id) /\ Undisturbed(id) /\ table[id].period.ticks > MaxGap
          => (Launched(id) <=> next[id] # 0 /\ next'[id] # next[id])]_vars

==============================================================================
