---------------------------- MODULE DBTransaction ----------------------------
(***************************************************************************)
(* DataAPI and SQLiteDB: the calls of the work threads and of the loops on *)
(* one table, over the connection they all share.                          *)
(*                                                                         *)
(* A call locks the connection's recursive mutex (giving up after 5 s),    *)
(* begins a transaction, executes its statements, commits or rolls back,   *)
(* and unlocks.  SQLite (external) has at most one transaction; a "begin"  *)
(* inside a transaction and a "commit" outside fail, which nobody looks    *)
(* at.  A condition names rows by key, and keys are unique.                *)
(*                                                                         *)
(* A behaviour starts after the main thread's first call has opened the    *)
(* connection.  DataAPI::create, which nothing calls, is left out.         *)
(***************************************************************************)
EXTENDS Integers, FiniteSets

CONSTANTS
    Threads,
    Keys, Vals,      \* the rows of the table: a key and a value
    Calls,           \* the calls the threads make
    MaxDepth,        \* bound: how often the mutex is held by a thread
    MayThrow,        \* whether a call's code may throw inside a transaction
    CommitMayFail,   \* whether SQLite may refuse a commit
    None, Pending

Kinds == {"query", "erase", "update", "add", "replace"}

Call == [kind : Kinds, keys : SUBSET Keys, val : Vals]

ASSUME DBAssumption ==
    /\ Calls \subseteq Call
    /\ MaxDepth \in Nat \ {0}
    /\ MayThrow \in BOOLEAN
    /\ CommitMayFail \in BOOLEAN
    /\ IsFiniteSet(Keys)
    /\ None \notin Vals \cup Threads
    /\ Pending \notin [status : Int, rows : SUBSET (Keys \X Vals)]

VARIABLES
    rows,       \* [Keys -> Vals or None] the table
    saved,      \* the table when the transaction began
    open,       \* whether there is a transaction
    affected,   \* _affectRow
    owner,      \* the thread that holds _mtx, or None
    depth,      \* how often it does
    pc,         \* [Threads -> where its call is]
    call,       \* [Threads -> Calls] its call
    left,       \* [Threads -> SUBSET Keys] rows still to be inserted or read
    status,     \* [Threads -> Int] what its call returns
    read        \* [Threads -> SUBSET (Keys \X Vals)] selectedResult

connVars == <<rows, saved, open, affected>>
lockVars == <<owner, depth>>
callVars == <<call, left, status, read>>
vars == <<connVars, lockVars, pc, callVars>>

Where == {"idle", "getDB", "lock", "begin", "execute", "insert", "select",
          "next", "affectRow", "commit", "rollback", "unlock"}

Goto(t, where) == pc' = [pc EXCEPT ![t] = where]

Return(t, n) == status' = [status EXCEPT ![t] = n]

------------------------------------------------------------------------------
(* The start of a call *)

Enter(t) ==
    /\ pc[t] = "idle"
    /\ \E c \in Calls : /\ call' = [call EXCEPT ![t] = c]
                        /\ left' = [left EXCEPT ![t] = c.keys]
    /\ read' = [read EXCEPT ![t] = {}]
    /\ Goto(t, "getDB")
    /\ UNCHANGED <<connVars, lockVars, status>>

(***************************************************************************)
(* No database, no fields or no new values: the call returns at once.      *)
(***************************************************************************)
GetDB(t) ==
    /\ pc[t] = "getDB"
    /\ \/ /\ Goto(t, "idle")
          /\ Return(t, -1)
       \/ /\ Goto(t, "lock")
          /\ UNCHANGED status
    /\ UNCHANGED <<connVars, lockVars, call, left, read>>

\* Mutant: the result of tryLock is not looked at.
LockAnyhow(t) == TRUE

MayLock(t) == owner \in {None, t}

(***************************************************************************)
(* beginTransaction: _mtx.tryLock(5000), then "begin transaction".         *)
(***************************************************************************)
TryLock(t) ==
    /\ pc[t] = "lock"
    /\ MayLock(t)
    /\ owner' = t
    /\ depth' = depth + 1
    /\ Goto(t, "begin")
    /\ UNCHANGED <<connVars, callVars>>

\* Mutant: lock() in place of tryLock(5000).
NeverGivesUp(t) == FALSE

GivesUp(t) == owner \notin {None, t}

LockTimeout(t) ==
    /\ pc[t] = "lock"
    /\ GivesUp(t)
    /\ Return(t, -1)
    /\ Goto(t, "idle")
    /\ UNCHANGED <<connVars, lockVars, call, left, read>>

FirstStatement(kind) ==
    CASE kind = "query" -> "select"
      [] kind = "add"   -> "insert"
      [] OTHER          -> "execute"

BeginTransaction(t) ==
    /\ pc[t] = "begin"
    /\ open' = TRUE
    /\ saved' = IF open THEN saved ELSE rows
    /\ Goto(t, FirstStatement(call[t].kind))
    /\ UNCHANGED <<rows, affected, lockVars, callVars>>

------------------------------------------------------------------------------
(* The statements *)

Fails(t) == Goto(t, "rollback") /\ UNCHANGED <<connVars, callVars>>

(***************************************************************************)
(* The table after the statement of an erase or an update, or after the    *)
(* clearing statement of a replace.                                        *)
(***************************************************************************)
After(c) ==
    [k \in Keys |->
        IF c.kind = "replace" THEN None
        ELSE IF rows[k] = None \/ k \notin c.keys THEN rows[k]
        ELSE IF c.kind = "erase" THEN None ELSE c.val]

Matched(c) ==
    {k \in Keys : rows[k] # None /\ (k \in c.keys \/ c.kind = "replace")}

Execute(t) ==
    /\ pc[t] = "execute"
    /\ \/ Fails(t)
       \/ /\ rows' = After(call[t])
          /\ affected' = Cardinality(Matched(call[t]))
          /\ Goto(t, IF call[t].kind = "replace" THEN "insert" ELSE "affectRow")
          /\ UNCHANGED <<saved, open, callVars>>
    /\ UNCHANGED lockVars

(***************************************************************************)
(* The insert loop of add and replace, one record at a time.               *)
(***************************************************************************)
Insert(t) ==
    /\ pc[t] = "insert"
    /\ \/ /\ left[t] = {}
          /\ Return(t, 0)
          /\ Goto(t, "commit")
          /\ UNCHANGED <<connVars, call, left, read>>
       \/ /\ left[t] # {}
          /\ Fails(t)
       \/ \E k \in left[t] :
            /\ rows[k] = None
            /\ rows' = [rows EXCEPT ![k] = call[t].val]
            /\ affected' = 1
            /\ left' = [left EXCEPT ![t] = @ \ {k}]
            /\ UNCHANGED <<pc, saved, open, call, status, read>>
    /\ UNCHANGED lockVars

Select(t) ==
    /\ pc[t] = "select"
    /\ \/ Fails(t)
       \/ /\ Goto(t, "next")
          /\ UNCHANGED <<connVars, callVars>>
    /\ UNCHANGED lockVars

(***************************************************************************)
(* while (pDB->next()): the statement walks the table as it is now.        *)
(***************************************************************************)
NextRow(t) ==
    /\ pc[t] = "next"
    /\ \/ /\ left[t] = {}
          /\ Return(t, 0)
          /\ Goto(t, "commit")
          /\ UNCHANGED <<left, read>>
       \/ \E k \in left[t] :
            /\ left' = [left EXCEPT ![t] = @ \ {k}]
            /\ read' = [read EXCEPT ![t] =
                          @ \cup {r \in {<<k, rows[k]>>} : r[2] # None}]
            /\ UNCHANGED <<pc, status>>
    /\ UNCHANGED <<connVars, lockVars, call>>

AffectRow(t) ==
    /\ pc[t] = "affectRow"
    /\ Return(t, affected)
    /\ Goto(t, "commit")
    /\ UNCHANGED <<connVars, lockVars, call, left, read>>

------------------------------------------------------------------------------
(* The end of a call *)

CommitTransaction(t) ==
    /\ pc[t] = "commit"
    /\ \/ open' = FALSE
       \/ CommitMayFail /\ UNCHANGED open
    /\ Goto(t, "unlock")
    /\ UNCHANGED <<rows, saved, affected, lockVars, callVars>>

\* Mutant: a failed call commits what it has done so far.
Kept == rows

Restored == saved

\* Mutant: a failed call returns with the mutex locked.
ReturnLocked == "idle"

AfterRollback == "unlock"

RollbackTransaction(t) ==
    /\ pc[t] = "rollback"
    /\ rows' = IF open THEN Restored ELSE rows
    /\ open' = FALSE
    /\ Return(t, -1)
    /\ Goto(t, AfterRollback)
    /\ UNCHANGED <<saved, affected, lockVars, call, left, read>>

\* Mutant: the count of the recursive mutex is not decremented.
SameDepth == depth

LessDepth == depth - 1

Unlock(t) ==
    /\ pc[t] = "unlock"
    /\ depth' = LessDepth
    /\ owner' = IF depth = 1 THEN None ELSE owner
    /\ Goto(t, "idle")
    /\ UNCHANGED <<connVars, callVars>>

(***************************************************************************)
(* An exception between begin and commit is caught at the end of the call, *)
(* which returns -1: no rollback, no unlock.                               *)
(***************************************************************************)
Throw(t) ==
    /\ MayThrow
    /\ pc[t] \in {"execute", "insert", "select", "next", "affectRow"}
    /\ depth < MaxDepth  \* bound
    /\ Return(t, -1)
    /\ Goto(t, "idle")
    /\ UNCHANGED <<connVars, lockVars, call, left, read>>

------------------------------------------------------------------------------
Init ==
    /\ rows \in [Keys -> Vals \cup {None}]
    /\ saved = rows
    /\ open = FALSE
    /\ affected = 0
    /\ owner = None
    /\ depth = 0
    /\ pc = [t \in Threads |-> "idle"]
    /\ call \in [Threads -> Calls]
    /\ left = [t \in Threads |-> {}]
    /\ status = [t \in Threads |-> -1]
    /\ read = [t \in Threads |-> {}]

Step(t) ==
    \/ GetDB(t) \/ TryLock(t) \/ LockTimeout(t) \/ BeginTransaction(t)
    \/ Execute(t) \/ Insert(t) \/ Select(t) \/ NextRow(t) \/ AffectRow(t)
    \/ CommitTransaction(t) \/ RollbackTransaction(t) \/ Unlock(t)
    \/ Throw(t)

Next == \E t \in Threads : Enter(t) \/ Step(t)

Spec == Init /\ [][Next]_vars

------------------------------------------------------------------------------
(* Type invariant *)

TypeOK ==
    /\ rows \in [Keys -> Vals \cup {None}]
    /\ saved \in [Keys -> Vals \cup {None}]
    /\ open \in BOOLEAN
    /\ affected \in 0 .. Cardinality(Keys)
    /\ owner \in Threads \cup {None}
    /\ depth \in 0 .. MaxDepth
    /\ pc \in [Threads -> Where]
    /\ call \in [Threads -> Calls]
    /\ left \in [Threads -> SUBSET Keys]
    /\ status \in [Threads -> -1 .. Cardinality(Keys)]
    /\ read \in [Threads -> SUBSET (Keys \X Vals)]

------------------------------------------------------------------------------
(* Safety *)

Inside(t) == pc[t] \notin {"idle", "getDB", "lock"}

(***************************************************************************)
(* A thread between beginTransaction and the end of commitTransaction or   *)
(* rollbackTransaction holds the mutex, so that no other thread's          *)
(* statements get into its transaction, whatever exceptions and failed     *)
(* commits there have been before.                                         *)
(***************************************************************************)
Exclusive == \A t \in Threads : Inside(t) => owner = t /\ depth > 0

(***************************************************************************)
(* Every way out of a call, unless it is an exception, leaves the          *)
(* connection as it was found: a mutex is held only inside of a call, once,*)
(* and a transaction is open only from its begin to its commit or rollback.*)
(***************************************************************************)
FreeWhenOutside ==
    /\ depth = IF owner = None THEN 0 ELSE 1
    /\ owner # None => Inside(owner)
    /\ open <=> \E t \in Threads : Inside(t) /\ pc[t] \notin {"begin", "unlock"}

------------------------------------------------------------------------------
(* Liveness *)

(***************************************************************************)
(* The threads run, which is all a call needs: the mutex is waited for no  *)
(* longer than 5 s.                                                        *)
(***************************************************************************)
Fairness == \A t \in Threads : WF_vars(Step(t))

FairSpec == Spec /\ Fairness

(***************************************************************************)
(* Every call returns, even when another thread has left the mutex locked. *)
(***************************************************************************)
CallReturns == \A t \in Threads : pc[t] = "getDB" ~> pc[t] = "idle"

------------------------------------------------------------------------------
(* Refinement *)

(***************************************************************************)
(* The table the callers see is the one of the last commit; a call has its *)
(* outcome from its commit or rollback on, or when it returns.             *)
(***************************************************************************)
Committed == IF open THEN saved ELSE rows

Outcome ==
    [t \in Threads |-> IF pc[t] \in {"idle", "unlock"}
                       THEN [status |-> status[t], rows |-> read[t]]
                       ELSE Pending]

Service == INSTANCE DataService WITH
    table <- Committed,
    asked <- call,
    out   <- Outcome

(***************************************************************************)
(* The calls are atomic: as long as nothing throws and no commit fails,    *)
(* each takes effect as a whole at one instant, with the rows and the      *)
(* count of that instant, or not at all.                                   *)
(***************************************************************************)
CallsAreAtomic == Service!Spec
==============================================================================
