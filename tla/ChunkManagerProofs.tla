------------------------- MODULE ChunkManagerProofs -------------------------
(***************************************************************************)
(* Theorems about ChunkManager, for any names, rows and failures.          *)
(***************************************************************************)
EXTENDS ChunkManager, Induction

USE DEF Regions, Ops

------------------------------------------------------------------------------
(* Types *)

\* The work a comparison asks for is well-formed: amounts are not negative.
LEMMA WorkType ==
    ASSUME NEW old \in [Names -> Row \cup {None}], NEW new \in [Names -> Row \cup {None}]
    PROVE  Work(old, new) \in SUBSET Item
<1> SUFFICES ASSUME NEW item \in Work(old, new)
             PROVE  item \in Item
    OBVIOUS
<1>1. CASE \E n \in Names : Grows(old[n], new[n])
              /\ item = WorkItem("grow", n, new[n], new[n].bytes - old[n].bytes)
    <2>1. PICK n \in Names : Grows(old[n], new[n])
              /\ item = WorkItem("grow", n, new[n], new[n].bytes - old[n].bytes)
        BY <1>1
    <2>2. old[n] # None /\ new[n] # None /\ new[n].bytes > old[n].bytes
        BY <2>1 DEF Grows, Same
    <2>3. old[n] \in Row /\ new[n] \in Row
        BY <2>2
    <2>4. new[n].bytes - old[n].bytes \in Nat
        BY <2>2, <2>3 DEF Row
    <2> QED
        BY <2>1, <2>3, <2>4 DEF WorkItem, Item
<1>2. CASE \E n \in Names : Shrinks(old[n], new[n])
              /\ item = WorkItem("shrink", n, new[n], old[n].bytes - new[n].bytes)
    <2>1. PICK n \in Names : Shrinks(old[n], new[n])
              /\ item = WorkItem("shrink", n, new[n], old[n].bytes - new[n].bytes)
        BY <1>2
    <2>2. old[n] # None /\ new[n] # None /\ new[n].bytes < old[n].bytes
        BY <2>1 DEF Shrinks, Same
    <2>3. old[n] \in Row /\ new[n] \in Row
        BY <2>2
    <2>4. old[n].bytes - new[n].bytes \in Nat
        BY <2>2, <2>3 DEF Row
    <2> QED
        BY <2>1, <2>3, <2>4 DEF WorkItem, Item
<1>3. CASE \E n \in Names : Creates(old[n], new[n])
              /\ item = WorkItem("create", n, new[n], new[n].bytes)
    <2>1. PICK n \in Names : Creates(old[n], new[n])
              /\ item = WorkItem("create", n, new[n], new[n].bytes)
        BY <1>3
    <2>2. new[n] \in Row /\ new[n].bytes \in Nat
        BY <2>1 DEF Creates, Row
    <2> QED
        BY <2>1, <2>2 DEF WorkItem, Item
<1>4. CASE \E n \in Names : Deletes(old[n], new[n])
              /\ item = WorkItem("delete", n, old[n], old[n].bytes)
    <2>1. PICK n \in Names : Deletes(old[n], new[n])
              /\ item = WorkItem("delete", n, old[n], old[n].bytes)
        BY <1>4
    <2>2. old[n] \in Row /\ old[n].bytes \in Nat
        BY <2>1 DEF Deletes, Row
    <2> QED
        BY <2>1, <2>2 DEF WorkItem, Item
<1> QED
    BY <1>1, <1>2, <1>3, <1>4 DEF Work

LEMMA InitType == Init => TypeOK
BY ChunkAssumption DEF Init, TypeOK, NoRows

\* What an operation may leave of a segment: never less than nothing.
LEMMA OutcomeType ==
    ASSUME TypeOK, NEW item \in todo, NEW s \in Outcome(item)
    PROVE  s \in Nat
<1>1. item \in Item /\ segs[Segment(item.name, item.row)] \in Nat
    BY DEF TypeOK, Item, Segment, Row
<1>2. item.by \in Nat /\ item.row.bytes \in Nat /\ item.op \in Ops
    BY <1>1 DEF Item, Row
<1> QED
    BY <1>1, <1>2 DEF Outcome

LEMMA DoType == ASSUME TypeOK, NEW item \in todo, Do(item) PROVE TypeOK'
<1>1. item \in Item /\ item.by \in Nat
    BY DEF TypeOK, Item
<1>2. PICK s \in Outcome(item) : segs' = [segs EXCEPT ![Segment(item.name, item.row)] = s]
    BY DEF Do
<1>3. s \in Nat
    BY OutcomeType
<1>4. segs' \in [Names \X BOOLEAN -> Nat]
    BY <1>2, <1>3 DEF TypeOK
<1>5. used' \in [Regions -> Int]
    <2>1. Delta(item) \in Int
        BY <1>1 DEF Delta
    <2>2. used \in [Regions -> Int]
        BY DEF TypeOK
    <2>3. CASE used' = used
        BY <2>2, <2>3
    <2>4. CASE used' = [used EXCEPT ![item.row.region] = @ + Delta(item)]
        <3>1. \A r \in Regions : used[r] + Delta(item) \in Int
            BY <2>1, <2>2
        <3> QED
            BY <2>2, <2>4, <3>1
    <2> QED
        BY <2>3, <2>4 DEF Do
<1> QED
    BY <1>4, <1>5 DEF Do, TypeOK

\* An operation that fails changes one segment at most, and leaves some of it.
LEMMA FailSegment ==
    ASSUME TypeOK, NEW item \in todo, Fail(item)
    PROVE  /\ segs' \in [Names \X BOOLEAN -> Nat]
           /\ segs' = segs \/ (item.op = "shrink" /\ item.op \in MayFail[item.name])
           /\ \A seg \in Names \X BOOLEAN : seg[1] # item.name => segs'[seg] = segs[seg]
           /\ \A seg \in Names \X BOOLEAN : segs[seg] > 0 => segs'[seg] > 0
<1> DEFINE own == Segment(item.name, item.row)
<1>1. own \in Names \X BOOLEAN /\ own[1] = item.name /\ segs[own] \in Nat
    BY DEF TypeOK, Item, Row, Segment
<1>2. CASE segs' = segs
    BY <1>2 DEF TypeOK
<1>3. CASE /\ item.op = "shrink" /\ item.op \in MayFail[item.name]
           /\ \E s \in 1..segs[own] : segs' = [segs EXCEPT ![own] = s]
    <2>1. PICK s \in 1..segs[own] : segs' = [segs EXCEPT ![own] = s]
        BY <1>3
    <2>2. s \in Nat /\ s > 0
        BY <1>1
    <2> HIDE DEF own
    <2>3. segs' \in [Names \X BOOLEAN -> Nat]
        BY <2>1, <2>2 DEF TypeOK
    <2>4. \A seg \in Names \X BOOLEAN : segs'[seg] = IF seg = own THEN s ELSE segs[seg]
        BY <1>1, <2>1 DEF TypeOK
    <2> QED
        BY <1>1, <1>3, <2>2, <2>3, <2>4
<1> QED
    BY <1>2, <1>3 DEF Fail

\* The accounts a loop begins with are numbers.
LEMMA ResetType == TypeOK /\ ResetAccounts => (used' \in [Regions -> Int] /\ base' = used')
BY DEF TypeOK, ResetAccounts

\* Every step keeps the types.
LEMMA NextType == TypeOK /\ [Next]_vars => TypeOK'
<1> SUFFICES ASSUME TypeOK, [Next]_vars
             PROVE  TypeOK'
    OBVIOUS
<1> USE ChunkAssumption
<1>1. ASSUME NEW n \in Names, EditChunk(n) PROVE TypeOK'
    <2>1. chunks' \in [Names -> Row \cup {None}]
        BY <1>1 DEF EditChunk, TypeOK
    <2> QED
        BY <1>1, <2>1 DEF EditChunk, TypeOK
<1>2. CASE KeepWaiting
    BY <1>2 DEF KeepWaiting, TypeOK
<1>3. CASE WaitForChunkInfo
    BY <1>3, ResetType DEF WaitForChunkInfo, TypeOK, NoRows
<1>4. CASE ChunkInfoRefresh
    <2>1. todo' \in SUBSET Item
        BY <1>4, WorkType DEF ChunkInfoRefresh, TypeOK
    <2> QED
        BY <1>4, <2>1 DEF ChunkInfoRefresh, TypeOK
<1>5. ASSUME NEW item \in todo, Do(item) PROVE TypeOK'
    BY <1>5, DoType
<1>6. ASSUME NEW item \in todo, Fail(item) PROVE TypeOK'
    BY <1>6, FailSegment DEF Fail, TypeOK
<1>7. CASE Restart
    BY <1>7 DEF Restart, TypeOK, NoRows
<1>8. CASE UNCHANGED vars
    BY <1>8 DEF vars, TypeOK
<1> QED
    BY <1>1, <1>2, <1>3, <1>4, <1>5, <1>6, <1>7, <1>8 DEF Next, Loop

(***************************************************************************)
(* Tables, segments, accounts and the work of a refresh keep their types,  *)
(* whatever rows clients write and whichever operations fail.              *)
(***************************************************************************)
THEOREM ChunkTypes == Spec => []TypeOK
<1>1. TypeOK /\ [Next]_vars => TypeOK'
    BY NextType
<1> QED
    BY InitType, <1>1, PTL DEF Spec

------------------------------------------------------------------------------
(* Data *)

\* Tables hold rows a client may write.
FromTable ==
    \A n \in Names :
        chunks[n] \in RowsOf[n] \cup {None} /\ list[n] \in RowsOf[n] \cup {None}

\* What a refresh is going to delete is listed no more and was never control's.
DeletionsJust ==
    \A item \in todo :
        item.op = "delete" =>
            /\ item.row \in RowsOf[item.name]
            /\ item.row.region # "control"
            /\ Steady(item.name) => list[item.name] = None

DataInv == TypeOK /\ FromTable /\ DeletionsJust

\* The deletions a comparison asks for are just, when the new rows become the list.
LEMMA WorkDeletions ==
    ASSUME FromTable, NEW item \in Work(list, chunks), item.op = "delete"
    PROVE  /\ item.row \in RowsOf[item.name]
           /\ item.row.region # "control"
           /\ Steady(item.name) => chunks[item.name] = None
<1>1. PICK n \in Names : /\ Deletes(list[n], chunks[n])
                         /\ item = WorkItem("delete", n, list[n], list[n].bytes)
    BY DEF Work, WorkItem
<1>2. item.name = n /\ item.row = list[n]
    BY <1>1 DEF WorkItem
<1>3. list[n] \in RowsOf[n] /\ list[n].region # "control"
    BY <1>1 DEF Deletes, FromTable
<1>4. ASSUME Steady(n) PROVE chunks[n] = None
    <2>1. SUFFICES ASSUME chunks[n] # None
                   PROVE  FALSE
        OBVIOUS
    <2>2. chunks[n] \in RowsOf[n]
        BY <2>1 DEF FromTable
    <2>3. list[n].region = chunks[n].region
        BY <1>3, <1>4, <2>2 DEF Steady
    <2> QED
        BY <1>1, <2>1, <2>3 DEF Deletes, Same
<1> QED
    BY <1>2, <1>3, <1>4

LEMMA InitData == Init => DataInv
BY InitType DEF Init, DataInv, FromTable, DeletionsJust, NoRows

LEMMA NextData == DataInv /\ [Next]_vars => DataInv'
<1> SUFFICES ASSUME DataInv, [Next]_vars
             PROVE  FromTable' /\ DeletionsJust'
    BY NextType DEF DataInv
<1> USE DEF DataInv
<1>1. ASSUME NEW n \in Names, EditChunk(n) PROVE FromTable' /\ DeletionsJust'
    <2>1. PICK row \in RowsOf[n] \cup {None} : chunks' = [chunks EXCEPT ![n] = row]
        BY <1>1 DEF EditChunk
    <2>2. list' = list /\ todo' = todo
        BY <1>1 DEF EditChunk
    <2>3. FromTable'
        BY <2>1, <2>2 DEF FromTable, TypeOK
    <2> QED
        BY <2>2, <2>3 DEF DeletionsJust, Steady
<1>2. CASE KeepWaiting
    BY <1>2 DEF KeepWaiting, FromTable, DeletionsJust, Steady
<1>3. CASE WaitForChunkInfo
    BY <1>3 DEF WaitForChunkInfo, FromTable, DeletionsJust, NoRows, Steady, TypeOK, Item
<1>4. CASE ChunkInfoRefresh
    <2>1. list' = chunks /\ chunks' = chunks /\ todo' = Work(list, chunks)
        BY <1>4 DEF ChunkInfoRefresh
    <2>2. FromTable'
        BY <2>1 DEF FromTable
    <2>3. DeletionsJust'
        BY <2>1, WorkDeletions DEF DeletionsJust, Steady
    <2> QED
        BY <2>2, <2>3
<1>5. ASSUME NEW item \in todo, Do(item) \/ Fail(item) PROVE FromTable' /\ DeletionsJust'
    <2>1. chunks' = chunks /\ list' = list /\ todo' \subseteq todo
        BY <1>5 DEF Do, Fail
    <2> QED
        BY <2>1 DEF FromTable, DeletionsJust, Steady
<1>6. CASE Restart
    BY <1>6 DEF Restart, FromTable, DeletionsJust, NoRows
<1>7. CASE UNCHANGED vars
    BY <1>7 DEF vars, FromTable, DeletionsJust, Steady
<1> QED
    BY <1>1, <1>2, <1>3, <1>4, <1>5, <1>6, <1>7 DEF Next, Loop

\* Only a deletion leaves nothing of a segment, and only of its own.
LEMMA OnlyDeleteDestroys ==
    ASSUME TypeOK, NEW item \in todo, Do(item), NEW n \in Names, NEW m \in BOOLEAN,
           segs[<<n, m>>] > 0, segs'[<<n, m>>] = 0
    PROVE  item.op = "delete" /\ item.name = n
<1>1. /\ item \in Item /\ item.by \in Nat /\ item.op \in Ops /\ item.row.bytes \in Nat
      /\ item.name \in Names /\ item.row.mapped \in BOOLEAN
    BY DEF TypeOK, Item, Row
<1>2. DEFINE seg == Segment(item.name, item.row)
<1>3. seg = <<item.name, item.row.mapped>> /\ segs[seg] \in Nat
    BY <1>1 DEF Segment, TypeOK
<1>4. PICK s \in Outcome(item) : segs' = [segs EXCEPT ![seg] = s]
    BY DEF Do
<1>5. <<n, m>> = seg
    BY <1>4 DEF TypeOK
<1>6. item.name = n
    BY <1>3, <1>5
<1>7. s = 0 /\ segs[seg] > 0
    BY <1>3, <1>4, <1>5 DEF TypeOK
<1>8. item.op = "delete"
    BY <1>1, <1>3, <1>7 DEF Outcome
<1> QED
    BY <1>6, <1>8

(***************************************************************************)
(* For any rows clients write, any operations that fail and any number of  *)
(* restarts, the memory of a chunk that stays in its region is not         *)
(* destroyed while it is listed, nor ever in the control region            *)
(* (chunkInfoRefresh, doDeleteSegment).                                    *)
(***************************************************************************)
THEOREM ListedDataKept == Spec => DataKept
<1> DEFINE Kept == \A n \in Names, m \in BOOLEAN :
              /\ Steady(n)
              /\ segs[<<n, m>>] > 0
              /\ segs'[<<n, m>>] = 0
              => list[n] = None /\ \A row \in RowsOf[n] : row.region # "control"
<1>1. DataInv /\ [Next]_vars => [Kept]_vars
    <2> SUFFICES ASSUME DataInv, [Next]_vars, NEW n \in Names, NEW m \in BOOLEAN,
                        Steady(n), segs[<<n, m>>] > 0, segs'[<<n, m>>] = 0
                 PROVE  list[n] = None /\ \A row \in RowsOf[n] : row.region # "control"
        OBVIOUS
    <2>1. segs' # segs
        OBVIOUS
    <2>2. PICK item \in todo : Do(item)
        <3>1. ASSUME NEW item \in todo, Fail(item) PROVE FALSE
            <4>1. <<n, m>> \in Names \X BOOLEAN
                OBVIOUS
            <4>2. segs'[<<n, m>>] > 0
                BY <3>1, <4>1, FailSegment DEF DataInv
            <4> QED
                BY <4>2
        <3> QED
            BY <2>1, <3>1 DEF Next, Loop, EditChunk, KeepWaiting, WaitForChunkInfo,
                              ChunkInfoRefresh, Restart, vars
    <2>3. item.op = "delete" /\ item.name = n
        BY <2>2, OnlyDeleteDestroys DEF DataInv
    <2>4. /\ item.row \in RowsOf[n]
          /\ item.row.region # "control"
          /\ list[n] = None
        BY <2>3 DEF DataInv, DeletionsJust
    <2> QED
        BY <2>4 DEF Steady
<1>2. Spec => []DataInv
    BY InitData, NextData, PTL DEF Spec
<1>3. Spec => [][Kept]_vars
    BY <1>1, <1>2, PTL DEF Spec
<1> QED
    BY <1>3 DEF DataKept

------------------------------------------------------------------------------
(* Sums *)

\* What the rows of a list add up to, for some of its names.
Bytes(l, S) == MapThenSumSet(LAMBDA n : l[n].bytes, S)

(***************************************************************************)
(* The fold that adds up bytes computes their total: two functions with    *)
(* the same equation agree on a smallest set on which they would not.      *)
(***************************************************************************)
LEMMA BytesTotal ==
    ASSUME NEW l, NEW S, IsFiniteSet(S), NEW f,
           \A n \in S : l[n].bytes = f[n] /\ f[n] \in Nat
    PROVE  Bytes(l, S) = Total(S, f)
<1> DEFINE Pick(s) == CHOOSE x \in s : TRUE
           Sum(g, s) == IF s = {} THEN 0 ELSE l[Pick(s)].bytes + g[s \ {Pick(s)}]
           totals == [s \in SUBSET S |-> Total(s, f)]
<1>1. \A s \in SUBSET S : s # {} => Pick(s) \in s
    OBVIOUS
<1>2. \A s \in SUBSET S : IsFiniteSet(UnitsOf(s, f))
    BY FS_Subset, UnitsFinite
<1> HIDE DEF Pick
<1>3. totals = [s \in SUBSET S |-> Sum(totals, s)]
    <2> SUFFICES ASSUME NEW s \in SUBSET S
                 PROVE  totals[s] = Sum(totals, s)
        OBVIOUS
    <2>1. CASE s = {}
        <3>1. Total(s, f) = 0
            BY <2>1, TotalZero
        <3> QED
            BY <2>1, <3>1
    <2>2. CASE s # {}
        <3>1. Pick(s) \in s /\ s \ {Pick(s)} \in SUBSET S
            BY <1>1, <2>2
        <3>2. Total(s, f) = Total(s \ {Pick(s)}, f) + f[Pick(s)]
            BY <1>2, <3>1, TotalSplit
        <3>3. Total(s \ {Pick(s)}, f) \in Nat
            BY <1>2, <3>1, FS_CardinalityType DEF Total
        <3> QED
            BY <2>2, <3>1, <3>2, <3>3
    <2> QED
        BY <2>1, <2>2
<1>4. \E g : g = [s \in SUBSET S |-> Sum(g, s)] /\ Bytes(l, S) = g[S]
    BY <1>3 DEF Bytes, MapThenSumSet, MapThenFoldSet, Pick
<1>5. PICK g : g = [s \in SUBSET S |-> Sum(g, s)] /\ Bytes(l, S) = g[S]
    BY <1>4
<1> DEFINE Sizes == {Cardinality(s) : s \in {t \in SUBSET S : g[t] # totals[t]}}
<1>6. Sizes = {}
    <2>1. SUFFICES ASSUME Sizes # {}
                   PROVE  FALSE
        OBVIOUS
    <2>2. Sizes \in SUBSET Nat
        BY FS_Subset, FS_CardinalityType
    <2>3. PICK m \in Sizes : \A k \in Sizes : m =< k
        BY <2>1, <2>2, LeastNumber
    <2>4. PICK s \in SUBSET S : g[s] # totals[s] /\ m = Cardinality(s)
        BY <2>3
    <2>5. g[s] = Sum(g, s) /\ totals[s] = Sum(totals, s)
        <3> HIDE DEF Sum, totals
        <3> QED
            BY <1>3, <1>5
    <2>6. s # {}
        BY <2>4, <2>5
    <2>7. Pick(s) \in s /\ s \ {Pick(s)} \in SUBSET S
        BY <1>1, <2>6
    <2>8. g[s \ {Pick(s)}] # totals[s \ {Pick(s)}]
        BY <2>4, <2>5, <2>6
    <2>9. Cardinality(s \ {Pick(s)}) = m - 1
        BY <2>4, <2>7, FS_Subset, FS_RemoveElement
    <2>10. m - 1 \in Sizes
        BY <2>7, <2>8, <2>9
    <2>11. m \in Nat /\ m =< m - 1
        <3> HIDE DEF Sizes
        <3> QED
            BY <2>2, <2>3, <2>10
    <2> QED
        BY <2>11
<1>7. g[S] = totals[S]
    BY <1>6
<1> QED
    BY <1>5, <1>7

------------------------------------------------------------------------------
(* The work of a refresh *)

\* The bytes of the chunk when the operation is done, and before.
Goal(item) == IF item.op = "delete" THEN 0 ELSE item.row.bytes
Before(item) == Goal(item) - Delta(item)

\* What is left of the refresh has to do with this name.
Pending(n) == \E item \in todo : item.name = n

Waits == pc = "wait" => todo = {} /\ list = NoRows

\* There is one operation for a chunk that stays where it is.
OneEach == \A i, j \in todo : i.name = j.name /\ Steady(i.name) => i = j

\* An operation belongs to a row that was or is listed.
Fits(item, l) ==
    /\ item.row \in RowsOf[item.name]
    /\ Before(item) \in Nat
    /\ item.op = "create" => Before(item) = 0
    /\ Steady(item.name) => l[item.name] = (IF item.op = "delete" THEN None ELSE item.row)

WorkInv == DataInv /\ Waits /\ OneEach /\ \A item \in todo : Fits(item, list)

\* How an operation a comparison asks for came about.
LEMMA WorkOrigin ==
    ASSUME NEW old, NEW new, NEW item \in Work(old, new)
    PROVE  \E n \in Names :
              \/ Grows(old[n], new[n]) /\ item = WorkItem("grow", n, new[n], new[n].bytes - old[n].bytes)
              \/ Shrinks(old[n], new[n]) /\ item = WorkItem("shrink", n, new[n], old[n].bytes - new[n].bytes)
              \/ Creates(old[n], new[n]) /\ item = WorkItem("create", n, new[n], new[n].bytes)
              \/ Deletes(old[n], new[n]) /\ item = WorkItem("delete", n, old[n], old[n].bytes)
BY DEF Work

\* What an operation is for: the row before, the row after and the bytes before.
LEMMA WorkMeans ==
    ASSUME TypeOK, FromTable, NEW item \in Work(list, chunks)
    PROVE  /\ item.name \in Names
           /\ Fits(item, chunks)
           /\ item.op \in {"grow", "shrink"} =>
                 /\ Same(list[item.name], chunks[item.name])
                 /\ Before(item) = list[item.name].bytes
           /\ item.op = "grow" => list[item.name].bytes < chunks[item.name].bytes
           /\ item.op = "shrink" => list[item.name].bytes > chunks[item.name].bytes
           /\ item.op = "create" => Creates(list[item.name], chunks[item.name])
           /\ item.op = "delete" =>
                 /\ Deletes(list[item.name], chunks[item.name])
                 /\ item.row = list[item.name]
                 /\ Before(item) = list[item.name].bytes
<1>1. PICK n \in Names :
              \/ Grows(list[n], chunks[n]) /\ item = WorkItem("grow", n, chunks[n], chunks[n].bytes - list[n].bytes)
              \/ Shrinks(list[n], chunks[n]) /\ item = WorkItem("shrink", n, chunks[n], list[n].bytes - chunks[n].bytes)
              \/ Creates(list[n], chunks[n]) /\ item = WorkItem("create", n, chunks[n], chunks[n].bytes)
              \/ Deletes(list[n], chunks[n]) /\ item = WorkItem("delete", n, list[n], list[n].bytes)
    BY WorkOrigin
<1>2. /\ list[n] # None => list[n] \in RowsOf[n] /\ list[n].bytes \in Nat
      /\ chunks[n] # None => chunks[n] \in RowsOf[n] /\ chunks[n].bytes \in Nat
    BY DEF FromTable, TypeOK, Row
<1>3. CASE Grows(list[n], chunks[n])
           /\ item = WorkItem("grow", n, chunks[n], chunks[n].bytes - list[n].bytes)
    BY <1>2, <1>3 DEF Grows, Same, WorkItem, Fits, Before, Goal, Delta
<1>4. CASE Shrinks(list[n], chunks[n])
           /\ item = WorkItem("shrink", n, chunks[n], list[n].bytes - chunks[n].bytes)
    BY <1>2, <1>4 DEF Shrinks, Same, WorkItem, Fits, Before, Goal, Delta
<1>5. CASE Creates(list[n], chunks[n])
           /\ item = WorkItem("create", n, chunks[n], chunks[n].bytes)
    BY <1>2, <1>5 DEF Creates, WorkItem, Fits, Before, Goal, Delta
<1>6. CASE Deletes(list[n], chunks[n])
           /\ item = WorkItem("delete", n, list[n], list[n].bytes)
    <2>1. Steady(n) => chunks[n] = None
        BY <1>2, <1>6 DEF Deletes, Same, Steady
    <2> QED
        BY <1>2, <1>6, <2>1 DEF Deletes, WorkItem, Fits, Before, Goal, Delta
<1> QED
    BY <1>1, <1>3, <1>4, <1>5, <1>6

\* A comparison asks for one operation of a chunk that stays where it is.
LEMMA WorkOnce ==
    ASSUME TypeOK, FromTable, NEW i \in Work(list, chunks), NEW j \in Work(list, chunks),
           i.name = j.name, Steady(i.name)
    PROVE  i = j
<1> DEFINE n == i.name
           old == list[n]
           new == chunks[n]
<1>1. n \in Names
    BY WorkMeans
<1>2. /\ old # None => old \in RowsOf[n] /\ old.bytes \in Nat
      /\ new # None => new \in RowsOf[n] /\ new.bytes \in Nat
    BY <1>1 DEF FromTable, TypeOK, Row
<1>3. old # None /\ new # None => Same(old, new)
    BY <1>2 DEF Steady, Same
<1> QED
    BY <1>1, <1>2, <1>3, WorkOrigin DEF Grows, Shrinks, Creates, Deletes, Same, WorkItem

LEMMA InitWork == Init => WorkInv
BY InitData DEF Init, WorkInv, Waits, OneEach

LEMMA NextWork == WorkInv /\ [Next]_vars => WorkInv'
<1> SUFFICES ASSUME WorkInv, [Next]_vars
             PROVE  Waits' /\ OneEach' /\ \A item \in todo' : Fits(item, list')
    BY NextData DEF WorkInv, Fits, Steady, Before, Goal, Delta
<1> USE DEF WorkInv
<1>1. ASSUME list' = list, todo' \subseteq todo, pc' = pc
      PROVE  Waits' /\ OneEach' /\ \A item \in todo' : Fits(item, list')
    BY <1>1 DEF Waits, OneEach, Steady
<1>2. CASE \E n \in Names : EditChunk(n)
    BY <1>1, <1>2 DEF EditChunk
<1>3. CASE KeepWaiting
    BY <1>1, <1>3 DEF KeepWaiting
<1>4. CASE WaitForChunkInfo
    BY <1>4 DEF WaitForChunkInfo, Waits, OneEach
<1>5. CASE ChunkInfoRefresh
    <2>1. list' = chunks /\ todo' = Work(list, chunks) /\ pc' = "run"
        BY <1>5 DEF ChunkInfoRefresh
    <2>2. \A item \in todo' : Fits(item, list')
        BY <2>1, WorkMeans DEF DataInv
    <2>3. OneEach'
        BY <2>1, WorkOnce DEF OneEach, DataInv, Steady
    <2> QED
        BY <2>1, <2>2, <2>3 DEF Waits
<1>6. CASE \E item \in todo : Do(item) \/ Fail(item)
    BY <1>1, <1>6 DEF Do, Fail
<1>7. CASE Restart
    BY <1>7 DEF Restart, Waits, OneEach
<1>8. CASE UNCHANGED vars
    BY <1>1, <1>8 DEF vars
<1> QED
    BY <1>2, <1>3, <1>4, <1>5, <1>6, <1>7, <1>8 DEF Next, Loop

------------------------------------------------------------------------------
(* Sizes *)

\* What a segment of this name has, as long as the kernel has not been killed.
SizeRight(n, seg) ==
    /\ ~Pending(n) /\ list[n] = None => segs[seg] = 0
    /\ ~Pending(n) /\ list[n] # None /\ segs[seg] > 0 => segs[seg] >= list[n].bytes
    /\ \A item \in todo :
          item.name = n =>
             /\ segs[seg] > 0 => segs[seg] >= Before(item)
             /\ item.op = "create" => segs[seg] = 0

\* The name of a chunk outside the control region that only changes its size.
Plain(n, row) == Steady(n) /\ Elastic(n) /\ row \in RowsOf[n] /\ row.region # "control"

SizesRight ==
    restarts = 0 =>
        \A n \in Names, row \in Row : Plain(n, row) => SizeRight(n, Segment(n, row))

SizeInv == WorkInv /\ SizesRight

\* Any row of such a chunk is of the same segment.
LEMMA PlainSegment ==
    ASSUME NEW n \in Names, NEW row, NEW other, Plain(n, row), other \in RowsOf[n]
    PROVE  Segment(n, other) = Segment(n, row) /\ Plain(n, other)
BY DEF Plain, Steady, Segment

\* What is not worked on has the row it had, or one of the same size.
LEMMA NoWork ==
    ASSUME TypeOK, FromTable, NEW n \in Names, NEW row, Plain(n, row),
           \A item \in Work(list, chunks) : item.name # n
    PROVE  /\ list[n] = None <=> chunks[n] = None
           /\ list[n] # None => list[n].bytes = chunks[n].bytes
<1> DEFINE old == list[n]
           new == chunks[n]
<1>1. /\ ~Grows(old, new)
      /\ ~Shrinks(old, new)
      /\ ~Creates(old, new)
      /\ ~Deletes(old, new)
    <2>1. /\ Grows(old, new) => WorkItem("grow", n, new, new.bytes - old.bytes) \in Work(list, chunks)
          /\ Shrinks(old, new) => WorkItem("shrink", n, new, old.bytes - new.bytes) \in Work(list, chunks)
          /\ Creates(old, new) => WorkItem("create", n, new, new.bytes) \in Work(list, chunks)
          /\ Deletes(old, new) => WorkItem("delete", n, old, old.bytes) \in Work(list, chunks)
        BY DEF Work
    <2>2. \A op, row1, by : WorkItem(op, n, row1, by).name = n
        BY DEF WorkItem
    <2> QED
        BY <2>1, <2>2
<1>2. /\ old # None => old \in RowsOf[n] /\ old.bytes \in Nat /\ old.region # "control"
      /\ new # None => new \in RowsOf[n] /\ new.bytes \in Nat /\ new.region # "control"
    BY PlainSegment DEF FromTable, TypeOK, Row, Plain
<1>3. new # None => new.grow /\ new.shrink /\ new.bytes > 0
    BY <1>2 DEF Plain, Elastic
<1>4. old # None /\ new # None => Same(old, new)
    BY <1>2 DEF Plain, Steady, Same
<1>5. old = None <=> new = None
    BY <1>1, <1>2, <1>4 DEF Creates, Deletes, Same
<1>6. ASSUME old # None PROVE old.bytes = new.bytes
    <2>1. new # None /\ Same(old, new)
        BY <1>4, <1>5, <1>6
    <2>2. ~(new.bytes > old.bytes) /\ ~(new.bytes < old.bytes)
        BY <1>1, <1>2, <1>3, <2>1 DEF Grows, Shrinks
    <2> QED
        BY <1>2, <1>6, <2>1, <2>2
<1> QED
    BY <1>5, <1>6

LEMMA InitSizes == Init => SizeInv
<1> SUFFICES ASSUME Init, NEW n \in Names, NEW row \in Row
             PROVE  SizeRight(n, Segment(n, row))
    BY InitWork DEF SizeInv, SizesRight
<1>1. Segment(n, row) \in Names \X BOOLEAN
    BY DEF Segment, Row
<1> QED
    BY <1>1 DEF Init, NoRows, SizeRight

\* A comparison leaves a segment that was right for the old rows right for the work.
LEMMA RefreshSize ==
    ASSUME WorkInv, ChunkInfoRefresh, NEW n \in Names, NEW row \in Row, Plain(n, row),
           SizeRight(n, Segment(n, row))
    PROVE  SizeRight(n, Segment(n, row))'
<1> DEFINE seg == Segment(n, row)
<1>1. todo = {} /\ todo' = Work(list, chunks) /\ list' = chunks /\ segs' = segs
    BY DEF ChunkInfoRefresh
<1>2. /\ list[n] = None => segs[seg] = 0
      /\ list[n] # None /\ segs[seg] > 0 => segs[seg] >= list[n].bytes
    BY <1>1 DEF SizeRight, Pending
<1>3. ASSUME NEW item \in Work(list, chunks), item.name = n
      PROVE  /\ segs[seg] > 0 => segs[seg] >= Before(item)
             /\ item.op = "create" => segs[seg] = 0
    <2>1. item.op \in Ops
        BY <1>3, WorkType DEF WorkInv, DataInv, TypeOK, Item
    <2>2. CASE item.op \in {"grow", "shrink"}
        <3>1. list[n] # None /\ Before(item) = list[n].bytes
            BY <1>3, <2>2, WorkMeans DEF WorkInv, DataInv, Same
        <3> QED
            BY <1>2, <2>2, <3>1
    <2>3. CASE item.op = "create"
        <3>1. Creates(list[n], chunks[n])
            BY <1>3, <2>3, WorkMeans DEF WorkInv, DataInv
        <3>2. list[n] = None
            BY <3>1 DEF Creates, Same, WorkInv, DataInv, FromTable, Plain, Steady
        <3>3. Segment(n, row) \in Names \X BOOLEAN
            BY DEF Segment, Row
        <3> QED
            BY <1>2, <3>2, <3>3
    <2>4. CASE item.op = "delete"
        <3>1. Deletes(list[n], chunks[n]) /\ Before(item) = list[n].bytes
            BY <1>3, <2>4, WorkMeans DEF WorkInv, DataInv
        <3> QED
            BY <1>2, <2>4, <3>1 DEF Deletes
    <2> QED
        BY <2>1, <2>2, <2>3, <2>4
<1>4. ASSUME \A item \in Work(list, chunks) : item.name # n
      PROVE  /\ chunks[n] = None => segs[seg] = 0
             /\ chunks[n] # None /\ segs[seg] > 0 => segs[seg] >= chunks[n].bytes
    BY <1>2, <1>4, NoWork DEF WorkInv, DataInv
<1> QED
    BY <1>1, <1>3, <1>4 DEF SizeRight, Pending, Before, Goal, Delta

\* An operation leaves enough of its segment.
LEMMA DoSize ==
    ASSUME WorkInv, NEW item \in todo, Do(item),
           NEW n \in Names, NEW row \in Row, Plain(n, row), SizeRight(n, Segment(n, row))
    PROVE  SizeRight(n, Segment(n, row))'
<1> DEFINE seg == Segment(n, row)
<1> USE DEF WorkInv, DataInv
<1>1. todo' = todo \ {item} /\ list' = list /\ restarts' = restarts
    BY DEF Do
<1>2. /\ item \in Item /\ item.by \in Nat /\ item.op \in Ops /\ item.row.bytes \in Nat
      /\ item.name \in Names /\ item.row \in Row
    BY DEF TypeOK, Item, Row
<1>3. seg \in Names \X BOOLEAN /\ Segment(item.name, item.row) \in Names \X BOOLEAN
    BY <1>2 DEF Segment, Row
<1>4. PICK s \in Outcome(item) : segs' = [segs EXCEPT ![Segment(item.name, item.row)] = s]
    BY DEF Do
<1>5. CASE item.name = n
    <2>1. Segment(item.name, item.row) = seg
        BY <1>5, PlainSegment DEF Fits
    <2>2. segs'[seg] = s /\ segs[seg] \in Nat
        BY <1>3, <1>4, <2>1 DEF TypeOK
    <2>3. ~Pending(n)'
        BY <1>1, <1>5 DEF Pending, OneEach, Plain
    <2>4. list[n] = (IF item.op = "delete" THEN None ELSE item.row)
        BY <1>5 DEF Fits, Plain
    <2>5. item.op = "delete" => s = 0
        BY DEF Outcome
    <2>6. item.op # "delete" => s >= item.row.bytes
        <3>1. item.op # "create" => segs[seg] > 0 /\ segs[seg] >= Before(item)
            BY <1>5, <2>1 DEF Do, CanSucceed, SizeRight
        <3>2. item.op = "create" => segs[seg] = 0
            BY <1>5 DEF SizeRight
        <3>3. Before(item) = Goal(item) - Delta(item)
            BY DEF Before
        <3> QED
            BY <1>2, <2>1, <2>2, <3>1, <3>2, <3>3 DEF Outcome, Goal, Delta
    <2>7. list[n] # None => list[n].bytes = item.row.bytes /\ item.op # "delete"
        BY <2>4
    <2>8. list[n] = None => item.op = "delete"
        BY <1>2, <1>5, <2>4, ChunkAssumption DEF Fits
    <2>9. \A other \in todo' : other.name # n
        BY <2>3 DEF Pending
    <2> QED
        BY <1>1, <2>2, <2>3, <2>5, <2>6, <2>7, <2>8, <2>9 DEF SizeRight
<1>6. CASE item.name # n
    <2>1. Segment(item.name, item.row) # seg
        BY <1>6 DEF Segment
    <2>2. segs'[seg] = segs[seg]
        BY <1>3, <1>4, <2>1 DEF TypeOK
    <2>3. Pending(n)' <=> Pending(n)
        BY <1>1, <1>6 DEF Pending
    <2> QED
        BY <1>1, <2>2, <2>3 DEF SizeRight, Before, Goal, Delta
<1> QED
    BY <1>5, <1>6

\* An operation that cannot be done has no segment to leave too small.
LEMMA FailNothing ==
    ASSUME WorkInv, NEW item \in todo, Fail(item),
           NEW row \in Row, Plain(item.name, row), restarts = 0,
           SizeRight(item.name, Segment(item.name, row))
    PROVE  segs[Segment(item.name, row)] = 0
<1>1. item.name \in Names /\ item.row \in RowsOf[item.name] /\ item.op \in Ops
    BY DEF WorkInv, DataInv, TypeOK, Item, Fits
<1>2. Segment(item.name, item.row) = Segment(item.name, row)
    BY <1>1, PlainSegment
<1>3. segs[Segment(item.name, row)] \in Nat
    BY <1>1 DEF WorkInv, DataInv, TypeOK, Segment, Row
<1>4. CASE item.op = "create"
    BY <1>4 DEF SizeRight
<1>5. CASE item.op # "create"
    <2>1. item.op \notin MayFail[item.name]
        BY <1>1, <1>5 DEF Plain, Elastic
    <2> QED
        BY <1>2, <1>3, <1>5, <2>1 DEF Fail, CanSucceed
<1> QED
    BY <1>4, <1>5

LEMMA NextSizes == SizeInv /\ [Next]_vars => SizeInv'
<1> SUFFICES ASSUME SizeInv, [Next]_vars, restarts' = 0,
                    NEW n \in Names, NEW row \in Row, Plain(n, row)'
             PROVE  SizeRight(n, Segment(n, row))'
    BY NextWork DEF SizeInv, SizesRight
<1> DEFINE seg == Segment(n, row)
<1>1. CASE Restart
    BY <1>1 DEF Restart, SizeInv, WorkInv, DataInv, TypeOK
<1> SUFFICES ASSUME ~Restart
             PROVE  SizeRight(n, seg)'
    BY <1>1
<1>2. restarts' = restarts
    BY DEF Next, Loop, EditChunk, KeepWaiting, WaitForChunkInfo, ChunkInfoRefresh, Do, Fail, vars
<1>3. Plain(n, row) /\ restarts = 0
    BY <1>2 DEF Plain, Elastic, Steady
<1>4. SizeRight(n, seg)
    BY <1>3 DEF SizeInv, SizesRight
<1>5. ASSUME segs' = segs, list' = list, todo' = todo
      PROVE  SizeRight(n, seg)'
    BY <1>4, <1>5 DEF SizeRight, Pending, Before, Goal, Delta
<1>6. CASE \E m \in Names : EditChunk(m)
    BY <1>5, <1>6 DEF EditChunk
<1>7. CASE KeepWaiting
    BY <1>5, <1>7 DEF KeepWaiting
<1>8. CASE WaitForChunkInfo
    BY <1>5, <1>8 DEF WaitForChunkInfo, SizeInv, WorkInv, Waits
<1>9. CASE ChunkInfoRefresh
    BY <1>3, <1>4, <1>9, RefreshSize DEF SizeInv
<1>10. ASSUME NEW item \in todo, Do(item) PROVE SizeRight(n, seg)'
    BY <1>3, <1>4, <1>10, DoSize DEF SizeInv
<1>11. ASSUME NEW item \in todo, Fail(item) PROVE SizeRight(n, seg)'
    <2>1. list' = list /\ todo' = todo \ {item}
        BY <1>11 DEF Fail
    <2>2. CASE item.name = n
        <3>1. segs[seg] = 0
            BY <1>3, <1>4, <1>11, <2>2, FailNothing DEF SizeInv
        <3>2. segs' = segs
            BY <1>3, <1>11, <2>2, FailSegment DEF SizeInv, WorkInv, DataInv, Plain, Elastic
        <3> QED
            BY <2>1, <3>1, <3>2 DEF SizeRight
    <2>3. CASE item.name # n
        <3>1. Pending(n)' <=> Pending(n)
            BY <2>1, <2>3 DEF Pending
        <3>2. seg \in Names \X BOOLEAN /\ seg[1] = n
            BY DEF Segment, Row
        <3>3. segs'[seg] = segs[seg]
            <4> HIDE DEF seg
            <4> QED
                BY <1>11, <2>3, <3>2, FailSegment DEF SizeInv, WorkInv, DataInv
        <3> QED
            BY <1>4, <2>1, <3>1, <3>3 DEF SizeRight, Before, Goal, Delta
    <2> QED
        BY <2>2, <2>3
<1>12. CASE UNCHANGED vars
    BY <1>5, <1>12 DEF vars
<1> QED
    BY <1>6, <1>7, <1>8, <1>9, <1>10, <1>11, <1>12 DEF Next, Loop

(***************************************************************************)
(* For any names, rows and failures, a segment has the bytes its row asks  *)
(* for after every refresh, as long as the kernel has not been killed: what*)
(* a growth starts from and what shrink_to_fit leaves are never too small  *)
(* (doGrowSegment, doShrinkSegment, doCreateSegment).                      *)
(***************************************************************************)
THEOREM SegmentsLargeEnough == Spec => []LargeEnough
<1>1. SizeInv => LargeEnough
    <2> SUFFICES ASSUME SizeInv, NEW n \in Names, Settled, restarts = 0,
                        Steady(n), Elastic(n), Listed(n), Exists(n), list[n].region # "control"
                 PROVE  segs[Segment(n, list[n])] >= list[n].bytes
        BY DEF LargeEnough
    <2>1. list[n] \in RowsOf[n] /\ list[n] \in Row
        BY DEF Listed, SizeInv, WorkInv, DataInv, FromTable, TypeOK
    <2>2. SizeRight(n, Segment(n, list[n]))
        BY <2>1 DEF SizeInv, SizesRight, Plain
    <2> QED
        BY <2>2 DEF SizeRight, Settled, Pending, Listed, Exists
<1>2. Spec => []SizeInv
    BY InitSizes, NextSizes, PTL DEF Spec
<1> QED
    BY <1>1, <1>2, PTL

------------------------------------------------------------------------------
(* Accounts *)

Members(r) == {n \in Names : \E row \in RowsOf[n] : row.region = r}

\* The rows and the failures of the chunks of a region are such that its account can be right.
Clean(r) == \A n \in Members(r) : Steady(n) /\ Elastic(n)

\* What the account of a region holds for a name, during a refresh as well.
BookRight(r, n, amount) ==
    /\ n \notin Members(r) => amount = 0
    /\ n \in Members(r) /\ ~Pending(n) =>
          amount = IF Listed(n) /\ Exists(n) THEN list[n].bytes ELSE 0
    /\ n \in Members(r) =>
          \A item \in todo :
              item.name = n =>
                  amount = IF segs[Segment(n, item.row)] > 0 THEN Before(item) ELSE 0

Books(r, f) == \A n \in Names : BookRight(r, n, f[n])

AccountsRight ==
    pc = "run" =>
        \A r \in {"temp", "data"} :
            Clean(r) => \E f \in [Names -> Nat] : Books(r, f) /\ used[r] = base[r] + Total(Names, f)

AccountInv == SizeInv /\ AccountsRight

\* The rows of a member of a clean region are all of it, and of one segment.
LEMMA MemberPlain ==
    ASSUME NEW r \in {"temp", "data"}, Clean(r), NEW n \in Members(r), NEW row \in RowsOf[n]
    PROVE  row.region = r /\ Plain(n, row) /\ n \in Names
BY DEF Members, Clean, Plain, Steady

\* A comparison books nothing.
LEMMA RefreshBooks ==
    ASSUME WorkInv, ChunkInfoRefresh, NEW r \in {"temp", "data"}, Clean(r),
           NEW f \in [Names -> Nat], Books(r, f)
    PROVE  Books(r, f)'
<1> USE DEF WorkInv, DataInv
<1>1. todo = {} /\ todo' = Work(list, chunks) /\ list' = chunks /\ segs' = segs
    BY DEF ChunkInfoRefresh
<1>2. ASSUME NEW n \in Names, n \in Members(r)
      PROVE  f[n] = IF list[n] # None /\ segs[Segment(n, list[n])] > 0 THEN list[n].bytes ELSE 0
    BY <1>1, <1>2 DEF Books, BookRight, Pending, Listed, Exists
<1>3. ASSUME NEW n \in Names, n \in Members(r), NEW item \in Work(list, chunks), item.name = n
      PROVE  f[n] = IF segs[Segment(n, item.row)] > 0 THEN Before(item) ELSE 0
    <2>1. item.op \in Ops /\ item.row \in RowsOf[n]
        BY <1>3, WorkType, WorkMeans DEF TypeOK, Item, Fits
    <2>2. CASE item.op = "create"
        <3>1. Creates(list[n], chunks[n]) /\ Before(item) = 0
            BY <1>3, <2>2, WorkMeans DEF Fits
        <3>2. list[n] = None
            BY <1>3, <3>1 DEF Creates, Same, FromTable, Clean, Steady
        <3> QED
            BY <1>2, <1>3, <3>1, <3>2
    <2>3. CASE item.op # "create"
        <3>1. list[n] # None /\ Before(item) = list[n].bytes
            BY <1>3, <2>1, <2>3, WorkMeans DEF Same, Deletes
        <3>2. Segment(n, list[n]) = Segment(n, item.row)
            BY <1>3, <2>1, <3>1, MemberPlain, PlainSegment DEF FromTable
        <3> QED
            BY <1>2, <1>3, <3>1, <3>2
    <2> QED
        BY <2>2, <2>3
<1>4. ASSUME NEW n \in Names, n \in Members(r), \A item \in Work(list, chunks) : item.name # n
      PROVE  f[n] = IF chunks[n] # None /\ segs[Segment(n, chunks[n])] > 0 THEN chunks[n].bytes ELSE 0
    <2>1. PICK row \in RowsOf[n] : row.region = r
        BY <1>4 DEF Members
    <2>2. Plain(n, row)
        BY <1>4, MemberPlain
    <2>3. /\ list[n] = None <=> chunks[n] = None
          /\ list[n] # None => list[n].bytes = chunks[n].bytes
        BY <1>4, <2>2, NoWork
    <2>4. list[n] # None => Segment(n, list[n]) = Segment(n, chunks[n])
        BY <2>2, <2>3, PlainSegment DEF FromTable
    <2> QED
        BY <1>2, <1>4, <2>3, <2>4
<1>5. ASSUME NEW n \in Names, n \notin Members(r) PROVE f[n] = 0
    BY <1>5 DEF Books, BookRight
<1> QED
    BY <1>1, <1>3, <1>4, <1>5 DEF Books, BookRight, Pending, Listed, Exists, Members, Before, Goal, Delta

\* An operation touches the work and the segment of its own name only.
LEMMA OtherUntouched ==
    ASSUME TypeOK, NEW item \in todo, todo' = todo \ {item}, list' = list,
           \A seg \in Names \X BOOLEAN :
              seg[1] # item.name => segs'[seg] = segs[seg],
           NEW n \in Names, n # item.name
    PROVE  /\ Pending(n)' <=> Pending(n)
           /\ Listed(n)' <=> Listed(n)
           /\ Listed(n) => (Exists(n)' <=> Exists(n))
           /\ \A row \in Row : segs'[Segment(n, row)] = segs[Segment(n, row)]
<1>1. \A row \in Row : segs'[Segment(n, row)] = segs[Segment(n, row)]
    <2> SUFFICES ASSUME NEW row \in Row
                 PROVE  segs'[Segment(n, row)] = segs[Segment(n, row)]
        OBVIOUS
    <2>1. Segment(n, row) \in Names \X BOOLEAN /\ Segment(n, row)[1] = n
        BY DEF Segment, Row
    <2> QED
        BY <2>1
<1>2. Pending(n)' <=> Pending(n)
    BY DEF Pending
<1>3. Listed(n) => list[n] \in Row
    BY DEF Listed, TypeOK
<1> QED
    BY <1>1, <1>2, <1>3 DEF Listed, Exists

\* What is booked for the other names stays right.
LEMMA OtherRight ==
    ASSUME TypeOK, NEW item \in todo, todo' = todo \ {item}, list' = list,
           \A seg \in Names \X BOOLEAN :
              seg[1] # item.name => segs'[seg] = segs[seg],
           NEW r \in {"temp", "data"}, NEW n \in Names, n # item.name,
           NEW amount, BookRight(r, n, amount)
    PROVE  BookRight(r, n, amount)'
<1>1. /\ Pending(n)' <=> Pending(n)
      /\ Listed(n)' <=> Listed(n)
      /\ Listed(n) => (Exists(n)' <=> Exists(n))
      /\ \A row \in Row : segs'[Segment(n, row)] = segs[Segment(n, row)]
    BY OtherUntouched
<1>2. \A other \in todo' : other \in todo /\ other.row \in Row
    BY DEF TypeOK, Item
<1> QED
    BY <1>1, <1>2 DEF BookRight, Members, Before, Goal, Delta

\* An operation changes one segment.
LEMMA OneSegment ==
    ASSUME TypeOK, NEW item \in todo, Do(item)
    PROVE  \A seg \in Names \X BOOLEAN : seg[1] # item.name => segs'[seg] = segs[seg]
<1>1. PICK s \in Outcome(item) : segs' = [segs EXCEPT ![Segment(item.name, item.row)] = s]
    BY DEF Do
<1>2. Segment(item.name, item.row)[1] = item.name
    BY DEF Segment
<1> QED
    BY <1>1, <1>2 DEF TypeOK

\* An operation on a chunk of a clean region books what it changes.
LEMMA DoBooks ==
    ASSUME WorkInv, NEW item \in todo, Do(item), NEW r \in {"temp", "data"}, Clean(r),
           NEW f \in [Names -> Nat], Books(r, f), item.name \in Members(r)
    PROVE  /\ f[item.name] = Before(item)
           /\ Books(r, [f EXCEPT ![item.name] = Goal(item)])'
<1> USE DEF WorkInv, DataInv
<1> DEFINE n == item.name
           seg == Segment(n, item.row)
           g == [f EXCEPT ![n] = Goal(item)]
<1>1. /\ item.op \in Ops /\ item.row \in RowsOf[n] /\ item.row \in Row /\ n \in Names
      /\ item.row.bytes \in Nat /\ item.by \in Nat /\ Before(item) \in Nat
    BY DEF TypeOK, Item, Row, Fits
<1>2. todo' = todo \ {item} /\ list' = list
    BY DEF Do
<1>3. Plain(n, item.row)
    BY <1>1, MemberPlain
<1>4. f[n] = IF segs[seg] > 0 THEN Before(item) ELSE 0
    BY <1>1 DEF Books, BookRight
<1>5. item.op = "create" => Before(item) = 0
    BY DEF Fits
<1>6. f[n] = Before(item)
    <2>1. CASE item.op = "create"
        BY <1>4, <1>5, <2>1
    <2>2. CASE item.op # "create"
        BY <1>4, <2>2 DEF Do, CanSucceed
    <2> QED
        BY <2>1, <2>2
<1>7. Goal(item) \in Nat
    BY <1>1 DEF Goal
<1>8. PICK s \in Outcome(item) : segs' = [segs EXCEPT ![seg] = s]
    BY DEF Do
<1>9. seg \in Names \X BOOLEAN /\ segs[seg] \in Nat
    BY <1>1 DEF Segment, Row, TypeOK
<1>10. segs'[seg] = s
    BY <1>8, <1>9 DEF TypeOK
<1>11. ~Pending(n)'
    BY <1>2, <1>3 DEF Pending, OneEach, Plain
<1>12. list[n] = (IF item.op = "delete" THEN None ELSE item.row)
    BY <1>3 DEF Fits, Plain
<1>13. item.row # None
    BY <1>1, ChunkAssumption
<1>14. item.op # "delete" => s > 0
    BY <1>1, <1>3, <1>9 DEF Outcome, Do, CanSucceed, Plain, Elastic
<1>15. Goal(item) = IF Listed(n)' /\ Exists(n)' THEN list'[n].bytes ELSE 0
    BY <1>2, <1>10, <1>12, <1>13, <1>14 DEF Listed, Exists, Goal
<1>16. g \in [Names -> Nat] /\ g[n] = Goal(item) /\ \A m \in Names : m # n => g[m] = f[m]
    BY <1>1, <1>7
<1> HIDE DEF g
<1>17. \A other \in todo' : other.name # n
    BY <1>11 DEF Pending
<1>18. ASSUME NEW m \in Names, m # n PROVE BookRight(r, m, g[m])'
    BY <1>2, <1>16, <1>18, OneSegment, OtherRight DEF Books
<1>19. BookRight(r, n, g[n])'
    BY <1>15, <1>16, <1>17 DEF BookRight, Members
<1>20. Books(r, g)'
    BY <1>18, <1>19 DEF Books
<1> QED
    BY <1>6, <1>20 DEF g

\* An operation that fails on a chunk of a clean region leaves nothing to book.
LEMMA FailBooks ==
    ASSUME SizeInv, NEW item \in todo, Fail(item), NEW r \in {"temp", "data"}, Clean(r),
           NEW f \in [Names -> Nat], Books(r, f)
    PROVE  Books(r, f)'
<1> USE DEF SizeInv, WorkInv, DataInv
<1> DEFINE n == item.name
<1>1. /\ item.op \in Ops /\ item.row \in RowsOf[n] /\ item.row \in Row /\ n \in Names
      /\ item.row.bytes \in Nat
    BY DEF TypeOK, Item, Row, Fits
<1>2. todo' = todo \ {item} /\ list' = list
    BY DEF Fail
<1>3. ASSUME n \in Members(r)
      PROVE  /\ segs[Segment(n, item.row)] = 0
             /\ ~Pending(n)'
             /\ f[n] = IF Listed(n)' /\ Exists(n)' THEN list'[n].bytes ELSE 0
    <2>1. Plain(n, item.row)
        BY <1>1, <1>3, MemberPlain
    <2>2. segs[Segment(n, item.row)] = 0
        <3>1. CASE CanSucceed(item)
            <4>1. item.op = "create" /\ restarts = 0
                BY <1>1, <2>1, <3>1 DEF Fail, Plain, Elastic
            <4>2. SizeRight(n, Segment(n, item.row))
                BY <1>1, <2>1, <4>1 DEF SizesRight
            <4> QED
                BY <4>1, <4>2 DEF SizeRight
        <3>2. CASE ~CanSucceed(item)
            <4>1. item.row.bytes > 0
                BY <1>1, <2>1 DEF Plain, Elastic
            <4>2. segs[Segment(n, item.row)] \in Nat
                BY <1>1 DEF TypeOK, Segment, Row
            <4> QED
                BY <3>2, <4>1, <4>2 DEF CanSucceed
        <3> QED
            BY <3>1, <3>2
    <2>3. ~Pending(n)' /\ segs' = segs
        BY <1>2, <2>1, FailSegment DEF Pending, OneEach, Plain, Elastic
    <2>4. f[n] = 0
        BY <1>1, <1>3, <2>2 DEF Books, BookRight
    <2>5. list[n] = (IF item.op = "delete" THEN None ELSE item.row)
        BY <2>1 DEF Fits, Plain
    <2>6. ~(Listed(n)' /\ Exists(n)')
        BY <1>2, <2>2, <2>3, <2>5 DEF Listed, Exists
    <2> QED
        BY <2>2, <2>3, <2>4, <2>6
<1>4. ASSUME NEW m \in Names, m # n PROVE BookRight(r, m, f[m])'
    BY <1>2, <1>4, FailSegment, OtherRight DEF Books
<1>5. n \notin Members(r) => f[n] = 0
    BY <1>1 DEF Books, BookRight
<1>6. n \in Members(r) => \A other \in todo' : other.name # n
    BY <1>3 DEF Pending
<1>7. BookRight(r, n, f[n])'
    BY <1>3, <1>5, <1>6 DEF BookRight, Members
<1> QED
    BY <1>4, <1>7 DEF Books

LEMMA NextAccounts == AccountInv /\ [Next]_vars => AccountInv'
<1> SUFFICES ASSUME AccountInv, [Next]_vars, pc' = "run",
                    NEW r \in {"temp", "data"}, Clean(r)'
             PROVE  \E g \in [Names -> Nat] : Books(r, g)' /\ used'[r] = base'[r] + Total(Names, g)
    BY NextSizes DEF AccountInv, AccountsRight
<1> USE DEF AccountInv, SizeInv, WorkInv, DataInv
<1>1. CASE Restart
    BY <1>1 DEF Restart
<1>2. CASE WaitForChunkInfo
    <2> DEFINE g == [n \in Names |-> 0]
    <2>1. todo' = {} /\ list' = NoRows /\ used'[r] = base'[r] /\ base'[r] \in Int
        BY <1>2, ResetType DEF WaitForChunkInfo, Waits
    <2>2. Books(r, g)'
        BY <2>1 DEF Books, BookRight, Pending, Listed, NoRows
    <2>3. Total(Names, g) = 0
        BY TotalZero
    <2> QED
        BY <2>1, <2>2, <2>3
<1> SUFFICES ASSUME ~Restart, ~WaitForChunkInfo
             PROVE  \E g \in [Names -> Nat] : Books(r, g)' /\ used'[r] = base'[r] + Total(Names, g)
    BY <1>1, <1>2
<1>3. restarts' = restarts /\ pc' = pc /\ base' = base
    BY DEF Next, Loop, EditChunk, KeepWaiting, ChunkInfoRefresh, Do, Fail, vars
<1>4. Clean(r)
    BY <1>3 DEF Clean, Members, Steady, Elastic
<1>5. PICK f \in [Names -> Nat] : Books(r, f) /\ used[r] = base[r] + Total(Names, f)
    BY <1>3, <1>4 DEF AccountsRight
<1>6. ASSUME segs' = segs, list' = list, todo' = todo, used' = used
      PROVE  Books(r, f)' /\ used'[r] = base'[r] + Total(Names, f)
    BY <1>3, <1>5, <1>6 DEF Books, BookRight, Pending, Listed, Exists, Members, Before, Goal, Delta
<1>7. CASE \E m \in Names : EditChunk(m)
    BY <1>6, <1>7 DEF EditChunk
<1>8. CASE KeepWaiting
    BY <1>6, <1>8 DEF KeepWaiting
<1>9. CASE ChunkInfoRefresh
    <2>1. Books(r, f)'
        BY <1>4, <1>5, <1>9, RefreshBooks
    <2> QED
        BY <1>3, <1>5, <1>9, <2>1 DEF ChunkInfoRefresh
<1>10. ASSUME NEW item \in todo, Do(item)
       PROVE  \E g \in [Names -> Nat] : Books(r, g)' /\ used'[r] = base'[r] + Total(Names, g)
    <2>1. /\ item \in Item /\ item.name \in Names /\ item.row \in Row /\ item.op \in Ops
          /\ item.row.region \in Regions /\ item.by \in Nat /\ item.row.bytes \in Nat
          /\ item.row \in RowsOf[item.name] /\ Before(item) \in Nat
        BY DEF TypeOK, Item, Row, Fits
    <2>2. todo' = todo \ {item} /\ list' = list
        BY <1>10 DEF Do
    <2>3. used \in [Regions -> Int] /\ base[r] \in Int /\ Delta(item) \in Int /\ Goal(item) \in Nat
        BY <2>1 DEF TypeOK, Delta, Goal
    <2>4. CASE item.name \in Members(r)
        <3> DEFINE g == [f EXCEPT ![item.name] = Goal(item)]
        <3>1. f[item.name] = Before(item) /\ Books(r, g)'
            BY <1>4, <1>5, <1>10, <2>4, DoBooks
        <3>2. item.row.region = r /\ Plain(item.name, item.row)
            BY <1>4, <2>1, <2>4, MemberPlain
        <3>3. used' = [used EXCEPT ![item.row.region] = @ + Delta(item)]
            BY <1>10, <3>2 DEF Do, Plain, Elastic
        <3>4. used'[r] = used[r] + Delta(item)
            BY <2>3, <3>2, <3>3
        <3>5. /\ g \in [Names -> Nat] /\ g[item.name] = Goal(item)
              /\ \A m \in Names \ {item.name} : f[m] = g[m]
            BY <2>1, <2>3
        <3> HIDE DEF g
        <3>6. Total(Names, g) = Total(Names, f) - f[item.name] + g[item.name]
            BY <2>1, <3>5, TotalChange, ChunkAssumption
        <3>7. Total(Names, f) \in Nat
            BY UnitsFinite, ChunkAssumption
        <3>8. used'[r] = base'[r] + Total(Names, g)
            BY <1>3, <1>5, <2>1, <2>3, <3>1, <3>4, <3>5, <3>6, <3>7 DEF Before
        <3> QED
            BY <3>1, <3>5, <3>8
    <2>5. CASE item.name \notin Members(r)
        <3>1. item.row.region # r
            BY <2>1, <2>5 DEF Members
        <3>2. used'[r] = used[r]
            BY <1>10, <2>3, <3>1 DEF Do
        <3>3. ASSUME NEW n \in Names, n # item.name PROVE BookRight(r, n, f[n])'
            BY <1>5, <1>10, <2>2, <3>3, OneSegment, OtherRight DEF Books
        <3>4. f[item.name] = 0
            BY <1>5, <2>1, <2>5 DEF Books, BookRight
        <3>5. BookRight(r, item.name, f[item.name])'
            BY <2>5, <3>4 DEF BookRight, Members
        <3>6. Books(r, f)'
            BY <3>3, <3>5 DEF Books
        <3> QED
            BY <1>3, <1>5, <3>2, <3>6
    <2> QED
        BY <2>4, <2>5
<1>11. ASSUME NEW item \in todo, Fail(item)
       PROVE  Books(r, f)' /\ used'[r] = base'[r] + Total(Names, f)
    BY <1>3, <1>4, <1>5, <1>11, FailBooks DEF Fail
<1>12. CASE UNCHANGED vars
    BY <1>6, <1>12 DEF vars
<1> QED
    BY <1>6, <1>7, <1>8, <1>9, <1>10, <1>11, <1>12 DEF Next, Loop

(***************************************************************************)
(* For any finite table, any rows and failures and wherever the kernel was *)
(* killed, a region's bytes used are those of its chunks that exist, after *)
(* every refresh, on top of what the loop began with (nothing, unless the  *)
(* reset failed), provided its chunks only change their size and no        *)
(* operation on them fails half-way.                                       *)
(***************************************************************************)
THEOREM AccountsKept == Spec => []AccountsAgree
<1>1. AccountInv => AccountsAgree
    <2> SUFFICES ASSUME AccountInv, NEW r \in {"temp", "data"}, Settled,
                        \A n \in Names : (\E row \in RowsOf[n] : row.region = r) => Steady(n) /\ Elastic(n)
                 PROVE  used[r] - base[r] = MapThenSumSet(LAMBDA n : list[n].bytes,
                             {n \in Names : Listed(n) /\ list[n].region = r /\ Exists(n)})
        BY DEF AccountsAgree
    <2> DEFINE T == {n \in Names : Listed(n) /\ list[n].region = r /\ Exists(n)}
    <2>1. Clean(r)
        BY DEF Clean, Members
    <2>2. PICK f \in [Names -> Nat] : Books(r, f) /\ used[r] = base[r] + Total(Names, f)
        BY <2>1 DEF AccountInv, AccountsRight, Settled
    <2>3. \A n \in Names : Listed(n) => list[n] \in RowsOf[n]
        BY DEF Listed, AccountInv, SizeInv, WorkInv, DataInv, FromTable
    <2>4. \A n \in Names : n \in Members(r) /\ Listed(n) => list[n].region = r
        BY <2>1, <2>3, MemberPlain
    <2>5. \A n \in T : list[n].bytes = f[n] /\ f[n] \in Nat
        BY <2>2, <2>3 DEF Books, BookRight, Members, Settled, Pending
    <2>6. \A n \in Names \ T : f[n] = 0
        BY <2>2, <2>4 DEF Books, BookRight, Settled, Pending
    <2>7. IsFiniteSet(T) /\ T \in SUBSET Names
        BY FS_Subset, ChunkAssumption
    <2> HIDE DEF T
    <2>8. Total(Names, f) = Total(T, f)
        BY <2>6, <2>7, TotalSubset
    <2>9. Bytes(list, T) = Total(T, f)
        BY <2>5, <2>7, BytesTotal
    <2>10. base[r] \in Int /\ Total(Names, f) \in Nat
        BY UnitsFinite, ChunkAssumption DEF AccountInv, SizeInv, WorkInv, DataInv, TypeOK
    <2> QED
        BY <2>2, <2>8, <2>9, <2>10 DEF Bytes, T
<1>2. Init => AccountInv
    BY InitSizes DEF Init, AccountInv, AccountsRight
<1>3. Spec => []AccountInv
    BY <1>2, NextAccounts, PTL DEF Spec
<1> QED
    BY <1>1, <1>3, PTL

==============================================================================
