------------------------- MODULE DBTransactionProofs -------------------------
(***************************************************************************)
(* Theorems about DBTransaction, for any threads, rows and calls.          *)
(***************************************************************************)
EXTENDS DBTransaction, FiniteSetTheorems, TLAPS

(***************************************************************************)
(* What Exclusive needs: the mutex is held at least once by its owner.     *)
(***************************************************************************)
LockInv ==
    /\ pc \in [Threads -> Where]
    /\ owner \in Threads \cup {None}
    /\ depth \in Nat
    /\ Exclusive

(***************************************************************************)
(* The steps of a thread inside a transaction leave the mutex alone and go *)
(* on inside of it.                                                        *)
(***************************************************************************)
Working(t) ==
    \/ BeginTransaction(t) \/ Execute(t) \/ Insert(t) \/ Select(t)
    \/ NextRow(t) \/ AffectRow(t) \/ CommitTransaction(t)
    \/ RollbackTransaction(t)

InsidePlaces == Where \ {"idle", "getDB", "lock"}

LEMMA WorkingStaysInside ==
    ASSUME LockInv, NEW t \in Threads, Working(t)
    PROVE  /\ Inside(t)
           /\ UNCHANGED <<owner, depth>>
           /\ \E w \in InsidePlaces : pc' = [pc EXCEPT ![t] = w]
<1> USE DEF LockInv, InsidePlaces, Where, Inside, Goto, lockVars, connVars, callVars
<1>1. CASE BeginTransaction(t)
    BY <1>1 DEF BeginTransaction, FirstStatement
<1>2. CASE Execute(t)
    BY <1>2 DEF Execute, Fails
<1>3. CASE Insert(t)
    BY <1>3 DEF Insert, Fails
<1>4. CASE Select(t)
    BY <1>4 DEF Select, Fails
<1>5. CASE NextRow(t)
    BY <1>5 DEF NextRow
<1>6. CASE AffectRow(t)
    BY <1>6 DEF AffectRow
<1>7. CASE CommitTransaction(t)
    BY <1>7 DEF CommitTransaction
<1>8. CASE RollbackTransaction(t)
    BY <1>8 DEF RollbackTransaction, AfterRollback
<1> QED
    BY <1>1, <1>2, <1>3, <1>4, <1>5, <1>6, <1>7, <1>8 DEF Working

LEMMA LockInvStep == LockInv /\ [Next]_vars => LockInv'
<1> SUFFICES ASSUME LockInv, [Next]_vars PROVE LockInv'
    OBVIOUS
<1> USE DEF LockInv, Exclusive, Inside, Goto, lockVars
<1>1. CASE UNCHANGED vars
    BY <1>1 DEF vars
<1>2. ASSUME NEW t \in Threads, Enter(t) \/ GetDB(t) \/ LockTimeout(t)
      PROVE  LockInv'
    BY <1>2 DEF Enter, GetDB, LockTimeout, Where
<1>3. ASSUME NEW t \in Threads, TryLock(t) PROVE LockInv'
    BY <1>3, DBAssumption DEF DBAssumption, TryLock, MayLock, Where
<1>4. ASSUME NEW t \in Threads, Working(t) PROVE LockInv'
    BY <1>4, WorkingStaysInside DEF InsidePlaces, Where
<1>5. ASSUME NEW t \in Threads, Unlock(t) PROVE LockInv'
    BY <1>5 DEF Unlock, LessDepth, Where
<1>6. ASSUME NEW t \in Threads, Throw(t) PROVE LockInv'
    BY <1>6 DEF Throw, Where
<1> QED
    BY <1>1, <1>2, <1>3, <1>4, <1>5, <1>6 DEF Next, Step, Working

(***************************************************************************)
(* No thread is ever inside the transaction of another: not after an       *)
(* exception has left the mutex locked, nor after a commit was refused.    *)
(***************************************************************************)
THEOREM TransactionsExclusive == Spec => []Exclusive
<1>1. Init => LockInv
    BY DEF Init, LockInv, Exclusive, Inside, Where
<1>2. LockInv => Exclusive
    BY DEF LockInv
<1> QED
    BY <1>1, <1>2, LockInvStep, PTL DEF Spec

------------------------------------------------------------------------------
(* What is left behind *)

InTransaction(t) == Inside(t) /\ pc[t] \notin {"begin", "unlock"}

(***************************************************************************)
(* FreeWhenOutside, with the transaction attributed to the mutex's owner.  *)
(***************************************************************************)
FreeInv ==
    /\ LockInv
    /\ open \in BOOLEAN
    /\ depth = IF owner = None THEN 0 ELSE 1
    /\ owner # None => Inside(owner)
    /\ open <=> owner # None /\ InTransaction(owner)

LEMMA FreeInvImplies == FreeInv => FreeWhenOutside
<1> SUFFICES ASSUME FreeInv PROVE FreeWhenOutside
    OBVIOUS
<1>1. \A t \in Threads : InTransaction(t) => t = owner /\ owner # None
    BY DBAssumption
       DEF DBAssumption, FreeInv, LockInv, Exclusive, InTransaction
<1> QED
    BY <1>1 DEF FreeInv, LockInv, FreeWhenOutside, InTransaction

(***************************************************************************)
(* The statements of a call keep the transaction open and go on in it.     *)
(***************************************************************************)
LEMMA StatementStaysOpen ==
    ASSUME FreeInv, NEW t \in Threads,
           \/ Execute(t) \/ Insert(t) \/ Select(t) \/ NextRow(t) \/ AffectRow(t)
    PROVE  /\ InTransaction(t)
           /\ UNCHANGED <<owner, depth, open>>
           /\ \E w \in InsidePlaces \ {"begin", "unlock"} :
                  pc' = [pc EXCEPT ![t] = w]
<1> USE DEF FreeInv, LockInv, InTransaction, Inside, InsidePlaces, Where, Goto,
            lockVars, connVars, callVars
<1>1. CASE Execute(t)
    BY <1>1 DEF Execute, Fails
<1>2. CASE Insert(t)
    BY <1>2 DEF Insert, Fails
<1>3. CASE Select(t)
    BY <1>3 DEF Select, Fails
<1>4. CASE NextRow(t)
    BY <1>4 DEF NextRow
<1>5. CASE AffectRow(t)
    BY <1>5 DEF AffectRow
<1> QED
    BY <1>1, <1>2, <1>3, <1>4, <1>5

LEMMA FreeInvStep ==
    ASSUME ~MayThrow, ~CommitMayFail, FreeInv, [Next]_vars
    PROVE  FreeInv'
<1>0. LockInv'
    BY LockInvStep DEF FreeInv
<1> USE <1>0 DEF FreeInv, InTransaction, Inside, Goto, lockVars
<1>1. CASE UNCHANGED vars
    BY <1>1 DEF vars, connVars
<1>2. ASSUME NEW t \in Threads, Enter(t) \/ GetDB(t) \/ LockTimeout(t)
      PROVE  FreeInv'
    <2>1. owner # t
        BY <1>2, DBAssumption DEF DBAssumption, Enter, GetDB, LockTimeout
    <2>2. UNCHANGED <<owner, depth, open>>
        BY <1>2 DEF Enter, GetDB, LockTimeout, connVars
    <2>3. owner # None => pc'[owner] = pc[owner]
        BY <1>2, <2>1 DEF LockInv, Enter, GetDB, LockTimeout
    <2> QED
        BY <2>2, <2>3
<1>3. ASSUME NEW t \in Threads, TryLock(t) PROVE FreeInv'
    <2>1. owner = None
        BY <1>3, DBAssumption DEF DBAssumption, TryLock, MayLock
    <2>2. /\ owner' = t /\ t # None
          /\ depth' = 1
          /\ pc'[t] = "begin"
          /\ open' = open
        BY <1>3, <2>1, DBAssumption
           DEF DBAssumption, TryLock, LockInv, connVars
    <2> QED
        BY <2>1, <2>2
<1>4. ASSUME NEW t \in Threads, t = owner, t # None, open' = TRUE,
             UNCHANGED <<owner, depth>>, pc'[t] \in InsidePlaces \ {"begin", "unlock"}
      PROVE  FreeInv'
    BY <1>4 DEF InsidePlaces
<1>5. ASSUME NEW t \in Threads, Working(t)
      PROVE  /\ t = owner /\ t # None
             /\ UNCHANGED <<owner, depth>>
    BY <1>5, WorkingStaysInside, DBAssumption
       DEF DBAssumption, LockInv, Exclusive
<1>6. ASSUME NEW t \in Threads, BeginTransaction(t) PROVE FreeInv'
    <2>1. open' = TRUE
        BY <1>6 DEF BeginTransaction
    <2>2. pc'[t] \in InsidePlaces \ {"begin", "unlock"}
        BY <1>6 DEF LockInv, BeginTransaction, FirstStatement, InsidePlaces, Where
    <2> QED
        BY <1>4, <1>5, <1>6, <2>1, <2>2 DEF Working
<1>7. ASSUME NEW t \in Threads,
             \/ Execute(t) \/ Insert(t) \/ Select(t) \/ NextRow(t) \/ AffectRow(t)
      PROVE  FreeInv'
    <2>1. t = owner /\ t # None
        BY <1>5, <1>7 DEF Working
    <2>2. /\ open' = TRUE
          /\ UNCHANGED <<owner, depth>>
          /\ pc'[t] \in InsidePlaces \ {"begin", "unlock"}
        BY <1>7, <2>1, StatementStaysOpen DEF LockInv
    <2> QED
        BY <1>4, <2>1, <2>2
<1>8. ASSUME NEW t \in Threads, CommitTransaction(t) \/ RollbackTransaction(t)
      PROVE  FreeInv'
    <2>1. t = owner /\ t # None /\ UNCHANGED <<owner, depth>>
        BY <1>5, <1>8 DEF Working
    <2>2. open' = FALSE /\ pc'[t] = "unlock"
        BY <1>8 DEF LockInv, CommitTransaction, RollbackTransaction, AfterRollback
    <2> QED
        BY <2>1, <2>2
<1>9. ASSUME NEW t \in Threads, Unlock(t) PROVE FreeInv'
    <2>1. t = owner /\ t # None
        BY <1>9, DBAssumption DEF DBAssumption, LockInv, Exclusive, Unlock
    <2>2. owner' = None /\ depth' = 0 /\ open' = FALSE
        BY <1>9, <2>1 DEF LockInv, Unlock, LessDepth, connVars
    <2> QED
        BY <2>2
<1>10. \A t \in Threads : ~Throw(t)
    BY DEF Throw
<1> QED
    BY <1>1, <1>2, <1>3, <1>6, <1>7, <1>8, <1>9, <1>10 DEF Next, Step

LEMMA FreeInvInit == Init => FreeInv
<1> SUFFICES ASSUME Init PROVE FreeInv
    OBVIOUS
<1>1. owner = None /\ depth = 0 /\ open = FALSE
    BY DEF Init
<1>2. \A t \in Threads : pc[t] = "idle"
    BY DEF Init
<1>3. LockInv
    <2>1. pc \in [Threads -> Where]
        BY DEF Init, Where
    <2> QED
        BY <1>1, <1>2, <2>1 DEF LockInv, Exclusive, Inside
<1> QED
    BY <1>1, <1>2, <1>3 DEF FreeInv, InTransaction

(***************************************************************************)
(* Without exceptions and refused commits, every way through a call leaves *)
(* the mutex free and no transaction open.                                 *)
(***************************************************************************)
THEOREM CallsLeaveNothingBehind ==
    ASSUME ~MayThrow, ~CommitMayFail
    PROVE  Spec => []FreeWhenOutside
<1>1. FreeInv /\ [Next]_vars => FreeInv'
    BY FreeInvStep
<1> QED
    BY <1>1, FreeInvInit, FreeInvImplies, PTL DEF Spec
------------------------------------------------------------------------------
(* Types *)

(***************************************************************************)
(* The bound on the depth needs to know that only an exception leaves the  *)
(* mutex locked, and that it does so below the bound.                      *)
(***************************************************************************)
TypeInv ==
    /\ TypeOK
    /\ Exclusive
    /\ owner = None => depth = 0
    /\ \A t \in Threads : owner = t /\ ~Inside(t) => depth < MaxDepth

LEMMA TypeInvLock == TypeInv => LockInv
BY DBAssumption DEF TypeInv, TypeOK, LockInv, DBAssumption

(***************************************************************************)
(* A count of rows is at most the number of rows there are.                *)
(***************************************************************************)
LEMMA CountsBounded ==
    /\ Cardinality(Keys) \in Nat
    /\ \A S : S \subseteq Keys => Cardinality(S) \in 0 .. Cardinality(Keys)
    /\ Keys # {} => 1 \in 0 .. Cardinality(Keys)
<1>1. IsFiniteSet(Keys)
    BY DBAssumption DEF DBAssumption
<1>2. Cardinality(Keys) \in Nat
    BY <1>1, FS_CardinalityType
<1>3. ASSUME NEW S, S \subseteq Keys PROVE Cardinality(S) \in 0 .. Cardinality(Keys)
    <2>1. IsFiniteSet(S) /\ Cardinality(S) <= Cardinality(Keys)
        BY <1>1, <1>3, FS_Subset
    <2>2. Cardinality(S) \in Nat
        BY <2>1, FS_CardinalityType
    <2> QED
        BY <1>2, <2>1, <2>2
<1>4. Keys # {} => Cardinality(Keys) # 0
    BY <1>1, FS_EmptySet
<1> QED
    BY <1>2, <1>3, <1>4

LEMMA TypeInvStep == TypeInv /\ [Next]_vars => TypeInv'
<1> SUFFICES ASSUME TypeInv, [Next]_vars PROVE TypeInv'
    OBVIOUS
<1>0. LockInv /\ LockInv'
    BY TypeInvLock, LockInvStep
<1>a. \A c \in Calls : c.keys \subseteq Keys /\ c.val \in Vals
    BY DBAssumption DEF DBAssumption, Call
<1>b. MaxDepth \in Nat \ {0} /\ None \notin Threads
    BY DBAssumption DEF DBAssumption
<1>c. Exclusive'
    BY <1>0 DEF LockInv
<1> USE <1>c, CountsBounded
    DEF TypeInv, TypeOK, Inside, Goto, Return, lockVars, connVars, callVars
<1>1. CASE UNCHANGED vars
    BY <1>1 DEF vars, Exclusive
<1>2. ASSUME NEW t \in Threads, Enter(t) PROVE TypeInv'
    BY <1>2, <1>a DEF Enter, Where
<1>3. ASSUME NEW t \in Threads, GetDB(t) \/ LockTimeout(t) PROVE TypeInv'
    BY <1>3 DEF GetDB, LockTimeout, Where
<1>4. ASSUME NEW t \in Threads, TryLock(t) PROVE TypeInv'
    BY <1>4, <1>b DEF TryLock, MayLock, Where
<1>5. ASSUME NEW t \in Threads, Working(t) PROVE TypeInv'
    <2>1. /\ Inside(t)
          /\ UNCHANGED <<owner, depth>>
          /\ \E w \in InsidePlaces : pc' = [pc EXCEPT ![t] = w]
        BY <1>0, <1>5, WorkingStaysInside
    <2>2. /\ pc' \in [Threads -> Where]
          /\ \A s \in Threads : owner' = s /\ ~Inside(s)' => depth' < MaxDepth
        BY <2>1 DEF InsidePlaces, Where
    <2>3. /\ rows' \in [Keys -> Vals \cup {None}]
          /\ saved' \in [Keys -> Vals \cup {None}]
          /\ open' \in BOOLEAN
          /\ affected' \in 0 .. Cardinality(Keys)
          /\ call' \in [Threads -> Calls]
          /\ left' \in [Threads -> SUBSET Keys]
          /\ status' \in [Threads -> -1 .. Cardinality(Keys)]
          /\ read' \in [Threads -> SUBSET (Keys \X Vals)]
        <3>1. CASE BeginTransaction(t)
            BY <3>1 DEF BeginTransaction
        <3>2. CASE Execute(t)
            <4>1. CASE Fails(t)
                BY <4>1 DEF Fails
            <4>2. CASE rows' = After(call[t]) /\ affected' = Cardinality(Matched(call[t]))
                         /\ UNCHANGED <<saved, open, callVars>>
                <5>1. After(call[t]) \in [Keys -> Vals \cup {None}]
                    BY <1>a DEF After
                <5>2. Matched(call[t]) \subseteq Keys
                    BY DEF Matched
                <5> QED
                    BY <4>2, <5>1, <5>2
            <4>3. \/ Fails(t)
                  \/ /\ rows' = After(call[t])
                     /\ affected' = Cardinality(Matched(call[t]))
                     /\ UNCHANGED <<saved, open, callVars>>
                BY <3>2 DEF Execute
            <4> QED
                BY <4>1, <4>2, <4>3
        <3>3. CASE Insert(t)
            BY <3>3, <1>a DEF Insert, Fails
        <3>4. CASE Select(t)
            BY <3>4 DEF Select, Fails
        <3>5. CASE NextRow(t)
            <4>1. ASSUME NEW k \in left[t],
                         left' = [left EXCEPT ![t] = @ \ {k}],
                         read' = [read EXCEPT ![t] =
                                    @ \cup {r \in {<<k, rows[k]>>} : r[2] # None}],
                         UNCHANGED <<pc, status>>
                  PROVE  /\ left' \in [Threads -> SUBSET Keys]
                         /\ read' \in [Threads -> SUBSET (Keys \X Vals)]
                <5>1. {r \in {<<k, rows[k]>>} : r[2] # None} \subseteq Keys \X Vals
                    OBVIOUS
                <5> QED
                    BY <4>1, <5>1
            <4> QED
                BY <3>5, <4>1 DEF NextRow
        <3>6. CASE AffectRow(t)
            BY <3>6 DEF AffectRow
        <3>7. CASE CommitTransaction(t)
            BY <3>7 DEF CommitTransaction
        <3>8. CASE RollbackTransaction(t)
            <4>1. rows' \in [Keys -> Vals \cup {None}] /\ open' \in BOOLEAN
                BY <3>8 DEF RollbackTransaction, Restored
            <4>2. status' \in [Threads -> -1 .. Cardinality(Keys)]
                BY <3>8 DEF RollbackTransaction
            <4>3. UNCHANGED <<saved, affected, call, left, read>>
                BY <3>8 DEF RollbackTransaction
            <4> QED
                BY <4>1, <4>2, <4>3
        <3> QED
            BY <1>5, <3>1, <3>2, <3>3, <3>4, <3>5, <3>6, <3>7, <3>8 DEF Working
    <2> QED
        BY <2>1, <2>2, <2>3 DEF LockInv
<1>6. ASSUME NEW t \in Threads, Unlock(t) PROVE TypeInv'
    <2>1. owner = t /\ depth > 0
        BY <1>6 DEF Unlock, Exclusive
    <2> QED
        BY <1>6, <1>b, <2>1 DEF Unlock, LessDepth, Where
<1>7. ASSUME NEW t \in Threads, Throw(t) PROVE TypeInv'
    BY <1>7 DEF Throw, Where
<1> QED
    BY <1>1, <1>2, <1>3, <1>4, <1>5, <1>6, <1>7 DEF Next, Step, Working

LEMMA TypeInvInit == Init => TypeInv
<1> SUFFICES ASSUME Init PROVE TypeInv
    OBVIOUS
<1>1. Cardinality(Keys) \in Nat /\ MaxDepth \in Nat \ {0}
    BY DBAssumption, CountsBounded DEF DBAssumption
<1>2. TypeOK
    <2>1. /\ affected \in 0 .. Cardinality(Keys)
          /\ depth \in 0 .. MaxDepth
          /\ status \in [Threads -> -1 .. Cardinality(Keys)]
        BY <1>1 DEF Init
    <2>2. /\ rows \in [Keys -> Vals \cup {None}]
          /\ saved \in [Keys -> Vals \cup {None}]
          /\ open \in BOOLEAN
          /\ owner \in Threads \cup {None}
          /\ pc \in [Threads -> Where]
          /\ call \in [Threads -> Calls]
        BY DEF Init, Where
    <2>3. /\ left \in [Threads -> SUBSET Keys]
          /\ read \in [Threads -> SUBSET (Keys \X Vals)]
        BY DEF Init
    <2> QED
        BY <2>1, <2>2, <2>3 DEF TypeOK
<1>3. Exclusive
    BY DEF Init, Exclusive, Inside
<1> QED
    BY <1>1, <1>2, <1>3 DEF Init, TypeInv

(***************************************************************************)
(* Tables, counts and the depth of the mutex keep their types and bounds,  *)
(* with exceptions and refused commits.                                    *)
(***************************************************************************)
THEOREM CallTypes == Spec => []TypeOK
<1>1. TypeInv => TypeOK
    BY DEF TypeInv
<1> QED
    BY <1>1, TypeInvInit, TypeInvStep, PTL DEF Spec

------------------------------------------------------------------------------
(* Refinement *)

(***************************************************************************)
(* DBTransaction implements DataService: as long as nothing throws and no  *)
(* commit is refused, every call is atomic, for any threads, rows and      *)
(* calls.                                                                  *)
(***************************************************************************)

(***************************************************************************)
(* The rows of ks that the table had when the transaction began, and the   *)
(* tables the operations make of it.                                       *)
(***************************************************************************)
Were(ks) == {k \in ks : saved[k] # None}

Erased(ks) == [k \in Keys |-> IF k \in ks THEN None ELSE saved[k]]

Updated(ks, v) == [k \in Keys |-> IF k \in Were(ks) THEN v ELSE saved[k]]

(***************************************************************************)
(* The table when the rows of done, among those of an add or a replace,    *)
(* have been inserted.                                                     *)
(***************************************************************************)
Inserted(c, done) ==
    [k \in Keys |-> IF k \in done THEN c.val
                    ELSE IF c.kind = "replace" THEN None ELSE saved[k]]

Selected(done) == {<<k, saved[k]>> : k \in Were(done)}

(***************************************************************************)
(* What a call has done so far, seen from where it is.                     *)
(***************************************************************************)
Asked(t) ==
    pc[t] \in {"getDB", "lock", "begin"} =>
        left[t] = call[t].keys /\ read[t] = {}

Executing(t) ==
    pc[t] = "execute" =>
        /\ call[t].kind \in {"erase", "update", "replace"}
        /\ rows = saved
        /\ left[t] = call[t].keys
        /\ read[t] = {}

Inserting(t) ==
    pc[t] = "insert" =>
        /\ call[t].kind \in {"add", "replace"}
        /\ rows = Inserted(call[t], call[t].keys \ left[t])
        /\ call[t].kind = "add" => Were(call[t].keys \ left[t]) = {}
        /\ left[t] \subseteq call[t].keys
        /\ read[t] = {}

Selecting(t) ==
    pc[t] = "select" =>
        /\ call[t].kind = "query"
        /\ rows = saved
        /\ left[t] = call[t].keys
        /\ read[t] = {}

Reading(t) ==
    pc[t] = "next" =>
        /\ call[t].kind = "query"
        /\ rows = saved
        /\ left[t] \subseteq call[t].keys
        /\ read[t] = Selected(call[t].keys \ left[t])

Counting(t) ==
    pc[t] = "affectRow" =>
        /\ \/ call[t].kind = "erase" /\ rows = Erased(call[t].keys)
           \/ call[t].kind = "update" /\ rows = Updated(call[t].keys, call[t].val)
        /\ affected = Cardinality(Were(call[t].keys))
        /\ read[t] = {}

Committing(t) ==
    LET c == call[t] IN
    pc[t] = "commit" =>
        \/ /\ c.kind = "query"
           /\ rows = saved
           /\ status[t] = 0
           /\ read[t] = Selected(c.keys)
        \/ /\ \/ c.kind = "erase" /\ rows = Erased(c.keys)
              \/ c.kind = "update" /\ rows = Updated(c.keys, c.val)
           /\ status[t] = Cardinality(Were(c.keys))
           /\ read[t] = {}
        \/ /\ c.kind \in {"add", "replace"}
           /\ rows = Inserted(c, c.keys)
           /\ c.kind = "add" => Were(c.keys) = {}
           /\ status[t] = 0
           /\ read[t] = {}

RollingBack(t) == pc[t] = "rollback" => read[t] = {}

Progress(t) ==
    /\ Asked(t)
    /\ Executing(t)
    /\ Inserting(t)
    /\ Selecting(t)
    /\ Reading(t)
    /\ Counting(t)
    /\ Committing(t)
    /\ RollingBack(t)

WorkInv ==
    /\ TypeInv
    /\ FreeInv
    /\ \A t \in Threads : Progress(t)

LEMMA CallsTyped ==
    ASSUME TypeOK, NEW t \in Threads
    PROVE  /\ call[t].kind \in Kinds
           /\ call[t].keys \subseteq Keys
           /\ call[t].val \in Vals
BY DBAssumption DEF DBAssumption, TypeOK, Call

(***************************************************************************)
(* A step of one thread leaves the progress of every other as it is: only  *)
(* the thread inside changes the table, and nobody else speaks of it.      *)
(***************************************************************************)
LEMMA OthersKeepProgress ==
    ASSUME WorkInv, NEW t \in Threads, NEW s \in Threads, s # t,
           pc'[s] = pc[s], call'[s] = call[s], left'[s] = left[s],
           status'[s] = status[s], read'[s] = read[s],
           Inside(t) \/ UNCHANGED <<rows, saved, affected>>
    PROVE  Progress(s)'
<1>1. Progress(s)
    BY DEF WorkInv
<1> USE DEF Progress, Asked, Executing, Inserting, Selecting, Reading, Counting,
            Committing, RollingBack
<1>2. CASE UNCHANGED <<rows, saved, affected>>
    BY <1>1, <1>2 DEF Were, Erased, Updated, Inserted, Selected
<1>3. CASE Inside(t)
    <2>1. pc[s] \in {"idle", "getDB", "lock"}
        BY <1>3 DEF WorkInv, TypeInv, Exclusive, Inside
    <2> QED
        BY <1>1, <2>1
<1> QED
    BY <1>2, <1>3

(***************************************************************************)
(* The steps of a call, one place after the other.                         *)
(***************************************************************************)
LEMMA OwnProgress ==
    ASSUME WorkInv, NEW t \in Threads, Enter(t) \/ Step(t), ~MayThrow
    PROVE  Progress(t)'
<1> DEFINE c == call[t]
<1>0. /\ Progress(t)
      /\ TypeOK
      /\ c.kind \in Kinds /\ c.keys \subseteq Keys /\ c.val \in Vals
      /\ pc[t] \in Where
      /\ rows \in [Keys -> Vals \cup {None}]
      /\ saved \in [Keys -> Vals \cup {None}]
    BY CallsTyped DEF WorkInv, TypeInv, TypeOK
<1>a. \A w, u : pc' = [pc EXCEPT ![t] = w] => pc'[t] = w
    BY <1>0 DEF TypeOK
<1> USE <1>0, <1>a
    DEF Progress, Asked, Executing, Inserting, Selecting, Reading, Counting, Committing,
        RollingBack, Goto, Return, TypeOK, connVars, lockVars, callVars
<1>1. CASE Enter(t)
    <2>1. pc'[t] = "getDB" /\ read'[t] = {}
        BY <1>1 DEF Enter
    <2>2. left'[t] = call'[t].keys
        BY <1>1 DEF Enter
    <2> QED
        BY <2>1, <2>2
<1>2. CASE GetDB(t) \/ LockTimeout(t) \/ TryLock(t)
    <2>1. pc[t] \in {"getDB", "lock"} /\ pc'[t] \in {"idle", "lock", "begin"}
        BY <1>2 DEF GetDB, LockTimeout, TryLock
    <2>2. UNCHANGED <<call, left, read>>
        BY <1>2 DEF GetDB, LockTimeout, TryLock
    <2> QED
        BY <2>1, <2>2
<1>3. CASE BeginTransaction(t)
    <2>1. ~open /\ rows' = rows /\ saved' = rows /\ UNCHANGED callVars
        BY <1>3, DBAssumption
           DEF BeginTransaction, WorkInv, FreeInv, InTransaction, LockInv,
               Exclusive, Inside, DBAssumption
    <2>2. pc'[t] = FirstStatement(c.kind)
        BY <1>3 DEF BeginTransaction
    <2>3. left'[t] = call'[t].keys /\ read'[t] = {} /\ call'[t] = c
        BY <1>3, <2>1 DEF BeginTransaction
    <2>4. CASE c.kind = "query"
        BY <2>1, <2>2, <2>3, <2>4 DEF FirstStatement
    <2>5. CASE c.kind = "add"
        <3>1. Inserted(call[t], call[t].keys \ left[t])' = saved'
            BY <2>1, <2>3, <2>5 DEF Inserted
        <3>2. Were(call[t].keys \ left[t])' = {}
            BY <2>3 DEF Were
        <3> QED
            BY <2>1, <2>2, <2>3, <2>5, <3>1, <3>2 DEF FirstStatement
    <2>6. CASE c.kind \in {"erase", "update", "replace"}
        BY <2>1, <2>2, <2>3, <2>6 DEF FirstStatement
    <2> QED
        BY <2>4, <2>5, <2>6 DEF Kinds
<1>4. CASE Execute(t)
    <2>1. CASE Fails(t)
        BY <1>4, <2>1 DEF Fails, Execute
    <2>2. CASE /\ rows' = After(c)
               /\ affected' = Cardinality(Matched(c))
               /\ pc' = [pc EXCEPT ![t] = IF c.kind = "replace" THEN "insert"
                                          ELSE "affectRow"]
               /\ UNCHANGED <<saved, open, callVars>>
        <3>1. /\ rows = saved /\ left[t] = c.keys /\ read[t] = {}
              /\ c.kind \in {"erase", "update", "replace"}
            BY <1>4 DEF Execute
        <3>2. CASE c.kind = "replace"
            <4>1. rows' = Inserted(call[t], call[t].keys \ left[t])'
                BY <2>2, <3>1, <3>2 DEF After, Inserted
            <4> QED
                BY <2>2, <3>1, <3>2, <4>1
        <3>3. CASE c.kind \in {"erase", "update"}
            <4>1. Matched(c) = Were(call[t].keys)'
                BY <2>2, <3>1, <3>3 DEF Matched, Were
            <4>2. c.kind = "erase" => rows' = Erased(call[t].keys)'
                BY <2>2, <3>1 DEF After, Erased
            <4>3. c.kind = "update" => rows' = Updated(call[t].keys, call[t].val)'
                BY <2>2, <3>1 DEF After, Updated, Were
            <4> QED
                BY <2>2, <3>1, <3>3, <4>1, <4>2, <4>3
        <3> QED
            BY <3>1, <3>2, <3>3
    <2> QED
        BY <1>4, <2>1, <2>2 DEF Execute
<1>5. CASE Insert(t)
    <2>0. /\ c.kind \in {"add", "replace"}
          /\ rows = Inserted(c, c.keys \ left[t])
          /\ c.kind = "add" => Were(c.keys \ left[t]) = {}
          /\ left[t] \subseteq c.keys
          /\ read[t] = {}
        BY <1>5 DEF Insert
    <2>1. CASE /\ left[t] = {}
               /\ status' = [status EXCEPT ![t] = 0]
               /\ pc' = [pc EXCEPT ![t] = "commit"]
               /\ UNCHANGED <<connVars, call, left, read>>
        <3>1. c.keys \ left[t] = c.keys
            BY <2>1
        <3>2. /\ Inserted(call[t], call[t].keys)' = Inserted(c, c.keys)
              /\ Were(call[t].keys)' = Were(c.keys)
            BY <2>1 DEF Inserted, Were
        <3> QED
            BY <2>0, <2>1, <3>1, <3>2
    <2>2. CASE Fails(t)
        BY <2>0, <2>2 DEF Fails
    <2>3. ASSUME NEW k \in left[t], rows[k] = None,
                 rows' = [rows EXCEPT ![k] = c.val],
                 left' = [left EXCEPT ![t] = @ \ {k}],
                 UNCHANGED <<pc, saved, open, call, status, read>>
          PROVE  Progress(t)'
        <3>1. c.keys \ left'[t] = (c.keys \ left[t]) \cup {k} /\ k \in Keys
            BY <2>0, <2>3
        <3>2. rows' = Inserted(call[t], call[t].keys \ left[t])'
            BY <2>0, <2>3, <3>1 DEF Inserted
        <3>3. c.kind = "add" => saved[k] = None
            BY <2>0, <2>3, <3>1 DEF Inserted
        <3>4. c.kind = "add" => Were(call[t].keys \ left[t])' = {}
            BY <2>0, <2>3, <3>1, <3>3 DEF Were
        <3>5. pc'[t] = "insert" /\ left'[t] \subseteq c.keys
            BY <1>5, <2>0, <2>3 DEF Insert
        <3> QED
            BY <2>0, <2>3, <3>2, <3>4, <3>5
    <2> QED
        BY <1>5, <2>1, <2>2, <2>3 DEF Insert
<1>6. CASE Select(t)
    <2>1. CASE Fails(t)
        BY <1>6, <2>1 DEF Select, Fails
    <2>2. CASE pc' = [pc EXCEPT ![t] = "next"] /\ UNCHANGED <<connVars, callVars>>
        <3>1. Selected(call[t].keys \ left[t])' = {}
            BY <1>6, <2>2 DEF Select, Selected, Were
        <3> QED
            BY <1>6, <2>2, <3>1 DEF Select
    <2> QED
        BY <1>6, <2>1, <2>2 DEF Select
<1>7. CASE NextRow(t)
    <2>0. /\ c.kind = "query"
          /\ rows = saved
          /\ left[t] \subseteq c.keys
          /\ read[t] = Selected(c.keys \ left[t])
        BY <1>7 DEF NextRow
    <2>1. CASE /\ left[t] = {}
               /\ status' = [status EXCEPT ![t] = 0]
               /\ pc' = [pc EXCEPT ![t] = "commit"]
               /\ UNCHANGED <<connVars, call, left, read>>
        <3>1. Selected(call[t].keys)' = Selected(c.keys \ left[t])
            BY <2>1 DEF Selected, Were
        <3> QED
            BY <2>0, <2>1, <3>1
    <2>2. ASSUME NEW k \in left[t],
                 left' = [left EXCEPT ![t] = @ \ {k}],
                 read' = [read EXCEPT ![t] =
                            @ \cup {r \in {<<k, rows[k]>>} : r[2] # None}],
                 UNCHANGED <<pc, connVars, call, status>>
          PROVE  Progress(t)'
        <3>1. c.keys \ left'[t] = (c.keys \ left[t]) \cup {k} /\ k \in Keys
            BY <2>0, <2>2
        <3>2. read'[t] = Selected(c.keys \ left[t])
                           \cup {r \in {<<k, saved[k]>>} : r[2] # None}
            BY <2>0, <2>2
        <3>3. read'[t] = Selected(call[t].keys \ left[t])'
            BY <2>2, <3>1, <3>2 DEF Selected, Were
        <3>4. pc'[t] = "next" /\ left'[t] \subseteq c.keys /\ call'[t] = c
              /\ rows' = saved'
            BY <1>7, <2>0, <2>2 DEF NextRow
        <3> QED
            BY <2>0, <3>3, <3>4
    <2> QED
        BY <1>7, <2>1, <2>2 DEF NextRow
<1>8. CASE AffectRow(t)
    <2>1. /\ \/ c.kind = "erase" /\ rows = Erased(c.keys)
             \/ c.kind = "update" /\ rows = Updated(c.keys, c.val)
          /\ affected = Cardinality(Were(c.keys))
          /\ read[t] = {}
        BY <1>8 DEF AffectRow
    <2>2. /\ Erased(call[t].keys)' = Erased(c.keys)
          /\ Updated(call[t].keys, call[t].val)' = Updated(c.keys, c.val)
          /\ Were(call[t].keys)' = Were(c.keys)
        BY <1>8 DEF AffectRow, Erased, Updated, Were
    <2>3. /\ pc'[t] = "commit" /\ status'[t] = affected
          /\ UNCHANGED <<rows, call, read>>
        BY <1>8 DEF AffectRow
    <2> QED
        BY <2>1, <2>2, <2>3
<1>9. CASE CommitTransaction(t) \/ RollbackTransaction(t) \/ Unlock(t)
    <2>1. pc'[t] \in {"unlock", "idle"}
        BY <1>9 DEF CommitTransaction, RollbackTransaction, Unlock, AfterRollback
    <2> QED
        BY <2>1
<1>10. ~Throw(t)
    BY DEF Throw
<1> QED
    BY <1>1, <1>2, <1>3, <1>4, <1>5, <1>6, <1>7, <1>8, <1>9, <1>10 DEF Step

LEMMA WorkInvStep ==
    ASSUME ~MayThrow, ~CommitMayFail, WorkInv, [Next]_vars
    PROVE  WorkInv'
<1>1. TypeInv' /\ FreeInv'
    <2>1. TypeInv'
        BY TypeInvStep DEF WorkInv
    <2>2. FreeInv'
        BY FreeInvStep DEF WorkInv
    <2> QED
        BY <2>1, <2>2
<1>2. CASE UNCHANGED vars
    <2>1. ASSUME NEW t \in Threads PROVE Progress(t)'
        <3>1. Progress(t)
            BY DEF WorkInv
        <3>2. UNCHANGED <<rows, saved, affected, pc, call, left, status, read>>
            BY <1>2 DEF vars, connVars, callVars
        <3> QED
            BY <3>1, <3>2
               DEF Progress, Asked, Executing, Inserting, Selecting, Reading,
                   Counting, Committing, RollingBack, Were, Erased, Updated,
                   Inserted, Selected
    <2> QED
        BY <1>1, <2>1 DEF WorkInv
<1>3. ASSUME NEW t \in Threads, Enter(t) \/ Step(t) PROVE WorkInv'
    <2>1. \A s \in Threads \ {t} :
              /\ pc'[s] = pc[s] /\ call'[s] = call[s] /\ left'[s] = left[s]
              /\ status'[s] = status[s] /\ read'[s] = read[s]
        <3> USE <1>3 DEF WorkInv, TypeInv, TypeOK, Goto, Return, callVars
        <3>1. CASE Enter(t)
            BY <3>1 DEF Enter
        <3>2. CASE GetDB(t) \/ LockTimeout(t) \/ TryLock(t) \/ BeginTransaction(t)
            BY <3>2 DEF GetDB, LockTimeout, TryLock, BeginTransaction
        <3>3. CASE Execute(t) \/ Insert(t) \/ Select(t)
            BY <3>3 DEF Execute, Insert, Select, Fails
        <3>4. CASE NextRow(t) \/ AffectRow(t)
            BY <3>4 DEF NextRow, AffectRow
        <3>5. CASE CommitTransaction(t) \/ RollbackTransaction(t) \/ Unlock(t)
                    \/ Throw(t)
            BY <3>5 DEF CommitTransaction, RollbackTransaction, Unlock, Throw
        <3> QED
            BY <3>1, <3>2, <3>3, <3>4, <3>5 DEF Step
    <2>2. Inside(t) \/ UNCHANGED <<rows, saved, affected>>
        BY <1>3 DEF Step, Enter, GetDB, LockTimeout, TryLock, BeginTransaction,
                    Execute, Insert, Select, NextRow, AffectRow, Unlock, Throw,
                    CommitTransaction, RollbackTransaction, Inside, connVars
    <2>3. \A s \in Threads \ {t} : Progress(s)'
        BY <2>1, <2>2, OthersKeepProgress
    <2>4. Progress(t)'
        BY <1>3, OwnProgress
    <2> QED
        BY <1>1, <2>3, <2>4 DEF WorkInv
<1> QED
    BY <1>2, <1>3 DEF Next

LEMMA WorkInvInit == Init => WorkInv
<1> SUFFICES ASSUME Init PROVE WorkInv
    OBVIOUS
<1>1. TypeInv
    BY TypeInvInit
<1>2. FreeInv
    BY FreeInvInit
<1>3. \A t \in Threads : pc[t] = "idle"
    BY DEF Init
<1>4. \A t \in Threads : Progress(t)
    BY <1>3 DEF Progress, Asked, Executing, Inserting, Selecting, Reading,
                Counting, Committing, RollingBack
<1> QED
    BY <1>1, <1>2, <1>4 DEF WorkInv

------------------------------------------------------------------------------
(* The refinement *)

(***************************************************************************)
(* Where a step leads tells what becomes of the outcome of its call.       *)
(***************************************************************************)
LEMMA OutcomePends ==
    ASSUME TypeOK, NEW t \in Threads, NEW w \in Where \ {"idle", "unlock"},
           pc[t] \notin {"idle", "unlock"}, pc' = [pc EXCEPT ![t] = w],
           \A s \in Threads \ {t} : status'[s] = status[s] /\ read'[s] = read[s]
    PROVE  Outcome' = Outcome
BY DEF Outcome, TypeOK

LEMMA OutcomeSettles ==
    ASSUME TypeOK, NEW t \in Threads, NEW w \in {"idle", "unlock"},
           pc' = [pc EXCEPT ![t] = w],
           \A s \in Threads \ {t} : status'[s] = status[s] /\ read'[s] = read[s]
    PROVE  Outcome' = [Outcome EXCEPT ![t] =
                         [status |-> status'[t], rows |-> read'[t]]]
BY DEF Outcome, TypeOK

LEMMA SettledIsNotPending ==
    ASSUME TypeOK, NEW t \in Threads
    PROVE  /\ pc[t] \in {"idle", "unlock"} => Outcome[t] # Pending
           /\ pc[t] \notin {"idle", "unlock"} => Outcome[t] = Pending
<1>1. [status |-> status[t], rows |-> read[t]]
          \in [status : Int, rows : SUBSET (Keys \X Vals)]
    <2>1. Cardinality(Keys) \in Nat
        BY CountsBounded
    <2>2. status[t] \in Int /\ read[t] \in SUBSET (Keys \X Vals)
        BY <2>1 DEF TypeOK
    <2> QED
        BY <2>2
<1> QED
    BY <1>1, DBAssumption DEF Outcome, DBAssumption

(***************************************************************************)
(* A transaction is open where the thread inside has begun it.             *)
(***************************************************************************)
LEMMA OpenInside ==
    ASSUME WorkInv, NEW t \in Threads, Inside(t)
    PROVE  open <=> pc[t] \notin {"begin", "unlock"}
BY DBAssumption
   DEF DBAssumption, WorkInv, FreeInv, LockInv, Exclusive, InTransaction

LEMMA SameCardinality == \A S : Service!Cardinality(S) = Cardinality(S)
BY Zenon DEF Service!Cardinality, Cardinality

LEMMA CommitIsOneStep ==
    ASSUME WorkInv, NEW t \in Threads, CommitTransaction(t), ~CommitMayFail
    PROVE  Service!Execute(t)
<1> DEFINE c == call[t]
<1>1. /\ Outcome[t] = Pending
      /\ Outcome' = [Outcome EXCEPT ![t] = [status |-> status[t], rows |-> read[t]]]
      /\ Committed = saved /\ Committed' = rows
      /\ call' = call
    <2>1. pc[t] = "commit" /\ pc' = [pc EXCEPT ![t] = "unlock"]
        BY DEF CommitTransaction, Goto
    <2>2. TypeOK
        BY DEF WorkInv, TypeInv
    <2>3. Outcome[t] = Pending
        BY <2>1, <2>2, SettledIsNotPending
    <2>4. UNCHANGED <<rows, status, read, call>> /\ open' = FALSE
        BY DEF CommitTransaction, callVars
    <2>5. Outcome' = [Outcome EXCEPT ![t] = [status |-> status'[t], rows |-> read'[t]]]
        BY <2>1, <2>2, <2>4, OutcomeSettles
    <2>6. open
        BY <2>1, OpenInside DEF Inside
    <2> QED
        BY <2>3, <2>4, <2>5, <2>6 DEF Committed
<1>2. /\ Committing(t) /\ pc[t] = "commit"
      /\ c.keys \subseteq Keys
      /\ saved \in [Keys -> Vals \cup {None}]
      /\ rows \in [Keys -> Vals \cup {None}]
    BY CallsTyped DEF WorkInv, Progress, CommitTransaction, TypeInv, TypeOK
<1>3. Service!Present(c.keys) = Were(c.keys)
    BY <1>1 DEF Service!Present, Were
<1>c. ASSUME status[t] = Cardinality(Were(c.keys)), read[t] = {}
      PROVE  Outcome' = [Outcome EXCEPT ![t] =
                 Service!Done(Service!Cardinality(Service!Present(c.keys)), {})]
    BY <1>1, <1>3, <1>c, SameCardinality DEF Service!Done
<1> USE DEF Service!Execute, Service!Succeed
<1>4. ASSUME c.kind = "query", rows = saved, status[t] = 0,
             read[t] = Selected(c.keys)
      PROVE  Service!Execute(t)
    <2>1. {<<k, Committed[k]>> : k \in Service!Present(c.keys)} = read[t]
        BY <1>1, <1>3, <1>4 DEF Selected
    <2>2. Committed' = [k \in DOMAIN Committed |-> Committed[k]]
        BY <1>1, <1>2, <1>4
    <2> QED
        BY <1>1, <1>4, <2>1, <2>2 DEF Service!Query, Service!Done
<1>5. ASSUME c.kind = "erase", rows = Erased(c.keys),
             status[t] = Cardinality(Were(c.keys)), read[t] = {}
      PROVE  Service!Execute(t)
    <2>1. Committed' = [k \in DOMAIN Committed |->
              [j \in Keys |-> IF j \in c.keys THEN None ELSE Committed[j]][k]]
        BY <1>1, <1>2, <1>5 DEF Erased
    <2> QED
        BY <1>1, <1>5, <1>c, <2>1 DEF Service!Erase
<1>6. ASSUME c.kind = "update", rows = Updated(c.keys, c.val),
             status[t] = Cardinality(Were(c.keys)), read[t] = {}
      PROVE  Service!Execute(t)
    <2>1. Committed' = [k \in DOMAIN Committed |->
              [j \in Keys |-> IF j \in Service!Present(c.keys) THEN c.val
                              ELSE Committed[j]][k]]
        BY <1>1, <1>2, <1>3, <1>6 DEF Updated
    <2> QED
        BY <1>1, <1>6, <1>c, <2>1 DEF Service!Update
<1>7. ASSUME c.kind = "add", rows = Inserted(c, c.keys), Were(c.keys) = {},
             status[t] = 0, read[t] = {}
      PROVE  Service!Execute(t)
    <2>1. Committed' = [k \in DOMAIN Committed |->
              [j \in Keys |-> IF j \in c.keys THEN c.val ELSE Committed[j]][k]]
        BY <1>1, <1>2, <1>7 DEF Inserted
    <2> QED
        BY <1>1, <1>3, <1>7, <2>1 DEF Service!Add, Service!Done
<1>8. ASSUME c.kind = "replace", rows = Inserted(c, c.keys),
             status[t] = 0, read[t] = {}
      PROVE  Service!Execute(t)
    <2>1. Committed' = [k \in DOMAIN Committed |->
              [j \in Keys |-> IF j \in c.keys THEN c.val ELSE None][k]]
        BY <1>1, <1>2, <1>8 DEF Inserted
    <2> QED
        BY <1>1, <1>8, <2>1 DEF Service!Replace, Service!Done
<1> QED
    BY <1>2, <1>4, <1>5, <1>6, <1>7, <1>8 DEF Committing

(***************************************************************************)
(* Every step of a thread is one of the service, or none.                  *)
(***************************************************************************)
LEMMA StepRefines ==
    ASSUME ~MayThrow, ~CommitMayFail, WorkInv, [Next]_vars
    PROVE  [Service!Next]_(Service!svars)
<1>0. TypeOK
    BY DEF WorkInv, TypeInv
<1> DEFINE Stutter == UNCHANGED <<Committed, call, Outcome>>
<1> USE DEF Goto, Return, connVars, lockVars, callVars
<1>1. CASE UNCHANGED vars
    <2>1. Stutter
        BY <1>1 DEF vars, Committed, Outcome
    <2> QED
        BY <2>1 DEF Service!svars
<1>2. ASSUME NEW t \in Threads, Enter(t) PROVE Service!Next
    <2>1. PICK c \in Calls : call' = [call EXCEPT ![t] = c]
        BY <1>2 DEF Enter
    <2>2. Outcome[t] # Pending
        BY <1>0, <1>2, SettledIsNotPending DEF Enter
    <2>3. Outcome' = [Outcome EXCEPT ![t] = Pending]
        BY <1>0, <1>2 DEF Enter, Outcome, TypeOK
    <2>4. Committed' = Committed
        BY <1>2 DEF Enter, Committed
    <2> QED
        BY <2>1, <2>2, <2>3, <2>4 DEF Service!Next, Service!Invoke
<1>3. ASSUME NEW t \in Threads, pc[t] \notin {"idle", "unlock"},
             NEW w \in {"idle", "unlock"}, pc' = [pc EXCEPT ![t] = w],
             status' = [status EXCEPT ![t] = -1], read[t] = {},
             UNCHANGED <<call, read, Committed>>
      PROVE  Service!Next
    <2>1. Outcome[t] = Pending
        BY <1>0, <1>3, SettledIsNotPending
    <2>2. /\ status'[t] = -1 /\ read'[t] = {}
          /\ \A s \in Threads \ {t} : status'[s] = status[s] /\ read'[s] = read[s]
        BY <1>0, <1>3 DEF TypeOK
    <2>3. Outcome' = [Outcome EXCEPT ![t] = [status |-> -1, rows |-> {}]]
        BY <1>0, <1>3, <2>2, OutcomeSettles
    <2> QED
        BY <1>3, <2>1, <2>3 DEF Service!Next, Service!Fail, Service!Failed, Service!Done
<1>4. ASSUME NEW t \in Threads, pc[t] \notin {"idle", "unlock"},
             NEW w \in Where \ {"idle", "unlock"}, pc' = [pc EXCEPT ![t] = w],
             \A s \in Threads \ {t} : status'[s] = status[s] /\ read'[s] = read[s],
             UNCHANGED <<call, Committed>>
      PROVE  Stutter
    BY <1>0, <1>4, OutcomePends
<1>5. ASSUME NEW t \in Threads, GetDB(t) \/ LockTimeout(t)
      PROVE  Service!Next \/ Stutter
    <2>1. read[t] = {} /\ pc[t] \in {"getDB", "lock"}
        BY <1>5 DEF GetDB, LockTimeout, WorkInv, Progress, Asked
    <2>2. UNCHANGED <<call, read, Committed>>
        BY <1>5 DEF GetDB, LockTimeout, Committed
    <2>3. \/ /\ pc' = [pc EXCEPT ![t] = "idle"]
             /\ status' = [status EXCEPT ![t] = -1]
          \/ pc' = [pc EXCEPT ![t] = "lock"] /\ UNCHANGED status
        BY <1>5 DEF GetDB, LockTimeout
    <2> QED
        BY <1>3, <1>4, <2>1, <2>2, <2>3 DEF Where
<1>6. ASSUME NEW t \in Threads, TryLock(t) PROVE Stutter
    <2>1. pc[t] = "lock" /\ pc' = [pc EXCEPT ![t] = "begin"]
        BY <1>6 DEF TryLock
    <2>2. UNCHANGED <<call, status, read, Committed>>
        BY <1>6 DEF TryLock, Committed
    <2> QED
        BY <1>4, <2>1, <2>2 DEF Where
<1>7. ASSUME NEW t \in Threads, BeginTransaction(t) PROVE Stutter
    <2>1. ~open
        BY <1>7, OpenInside DEF BeginTransaction, Inside
    <2>2. Committed' = Committed
        BY <1>7, <2>1 DEF BeginTransaction, Committed
    <2>3. PICK w \in {"select", "insert", "execute"} : pc' = [pc EXCEPT ![t] = w]
        BY <1>7 DEF BeginTransaction, FirstStatement
    <2>4. pc[t] = "begin" /\ UNCHANGED <<call, status, read>>
        BY <1>7 DEF BeginTransaction
    <2> QED
        BY <1>4, <2>2, <2>3, <2>4 DEF Where
<1>8. ASSUME NEW t \in Threads,
             Execute(t) \/ Insert(t) \/ Select(t) \/ NextRow(t) \/ AffectRow(t)
      PROVE  Stutter
    <2>1. /\ Inside(t) /\ pc[t] \notin {"begin", "unlock"}
          /\ open' = open
          /\ \E w \in InsidePlaces \ {"begin", "unlock"} : pc' = [pc EXCEPT ![t] = w]
        BY <1>8, StatementStaysOpen DEF WorkInv, InTransaction
    <2>2. open
        BY <2>1, OpenInside
    <2>3. UNCHANGED <<saved, call>>
        BY <1>8 DEF Execute, Insert, Select, NextRow, AffectRow, Fails
    <2>4. \A s \in Threads \ {t} : status'[s] = status[s] /\ read'[s] = read[s]
        BY <1>0, <1>8
           DEF TypeOK, Execute, Insert, Select, NextRow, AffectRow, Fails
    <2> QED
        BY <1>4, <2>1, <2>2, <2>3, <2>4 DEF Inside, InsidePlaces, Committed
<1>9. ASSUME NEW t \in Threads, RollbackTransaction(t) PROVE Service!Next
    <2>1. pc[t] = "rollback" /\ read[t] = {}
        BY <1>9 DEF RollbackTransaction, WorkInv, Progress, RollingBack
    <2>2. open
        BY <2>1, OpenInside DEF Inside
    <2>3. Committed' = Committed
        BY <1>9, <2>2 DEF RollbackTransaction, Restored, Committed
    <2>4. /\ pc' = [pc EXCEPT ![t] = "unlock"]
          /\ status' = [status EXCEPT ![t] = -1]
          /\ UNCHANGED <<call, read>>
        BY <1>9 DEF RollbackTransaction, AfterRollback
    <2> QED
        BY <1>3, <2>1, <2>3, <2>4
<1>10. ASSUME NEW t \in Threads, CommitTransaction(t) PROVE Service!Next
    BY <1>10, CommitIsOneStep DEF Service!Next
<1>11. ASSUME NEW t \in Threads, Unlock(t) PROVE Stutter
    <2>1. Outcome' = Outcome
        BY <1>0, <1>11 DEF Unlock, Outcome, TypeOK
    <2> QED
        BY <1>11, <2>1 DEF Unlock, Committed
<1> QED
    BY <1>1, <1>2, <1>5, <1>6, <1>7, <1>8, <1>9, <1>10, <1>11
       DEF Next, Step, Throw, Service!svars

(***************************************************************************)
(* Calls are atomic: without exceptions and refused commits, whatever the  *)
(* threads call and whichever statements fail, each call happens as a      *)
(* whole at one instant or not at all, and returns the rows and the count  *)
(* of that instant.                                                        *)
(***************************************************************************)
THEOREM CallsImplementService ==
    ASSUME ~MayThrow, ~CommitMayFail
    PROVE  Spec => CallsAreAtomic
<1>1. Init => Service!Init
    BY DEF Init, Service!Init, Service!Failed, Service!Done, Outcome
<1>2. WorkInv /\ [Next]_vars => WorkInv'
    BY WorkInvStep
<1>3. WorkInv /\ [Next]_vars => [Service!Next]_(Service!svars)
    BY StepRefines
<1> QED
    BY <1>1, <1>2, <1>3, WorkInvInit, PTL DEF Spec, CallsAreAtomic, Service!Spec
==============================================================================
