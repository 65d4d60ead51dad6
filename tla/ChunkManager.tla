---------------------------- MODULE ChunkManager ----------------------------
(***************************************************************************)
(* The chunk manager of the BOL kernel: the thread MemTaskLoop, which makes*)
(* segments of shared memory follow the rows of MetaChunkInfo.             *)
(*                                                                         *)
(* A refresh compares the rows with those of the refresh before and grows, *)
(* shrinks, creates and deletes segments, one after another, and after each*)
(* one writes the bytes used by its region to MetaRegionInfo.  Meanwhile   *)
(* clients edit the rows.  Segments outlive the kernel, which may be killed*)
(* at any point and started again; the list of the last refresh does not.  *)
(***************************************************************************)
EXTENDS Integers, FiniteSets, FiniteSetsExt

CONSTANTS
    None,       \* no row
    Names,      \* names of chunks
    RowsOf,     \* the rows of MetaChunkInfo a client may give to a name
    MayFail,    \* the operations that may fail for a name
    ResetMayFail, \* the regions whose account a start may fail to reset
    MaxCron,    \* bound: rows of MetaBolCrontab
    MaxSize,    \* bound: no edit of a chunk whose segment is this large
    MaxUsed,    \* bound: no edit of a chunk whose region's account is beyond it
    MaxRestart  \* bound: restarts of the kernel

Regions == {"control", "temp", "data"}

Ops == {"grow", "shrink", "create", "delete"}

Row == [region : Regions, bytes : Nat, grow : BOOLEAN, shrink : BOOLEAN,
        mapped : BOOLEAN]

ASSUME ChunkAssumption ==
    /\ IsFiniteSet(Names)
    /\ RowsOf \in [Names -> SUBSET Row]
    /\ MayFail \in [Names -> SUBSET (Ops \cup {"account"})]
    /\ ResetMayFail \subseteq Regions
    /\ \A n \in Names : None \notin RowsOf[n]
    /\ MaxCron \in Nat /\ MaxSize \in Nat /\ MaxUsed \in Nat /\ MaxRestart \in Nat

VARIABLES
    chunks,     \* MetaChunkInfo: the row of each name
    segs,       \* the segments: the size of each, 0 for none
    used,       \* MetaRegionInfo: the bytes used by each region
    pc,         \* m_isNeedWaiting: "wait", or "run"
    matrix,     \* while waiting: how many rows m_chunkmtx has
    list,       \* m_chunkmtx: the rows of the last refresh
    todo,       \* what is left of this refresh
    restarts,   \* how often the kernel was started again
    base        \* history: what each account was when the loop began, or the kernel

vars == <<chunks, segs, used, pc, matrix, list, todo, restarts, base>>

\* A segment is a shared memory or a mapped file of that name.
Segment(n, row) == <<n, row.mapped>>

Item == [op : Ops, name : Names, row : Row, by : Nat]

NoRows == [n \in Names |-> None]

TypeOK ==
    /\ chunks \in [Names -> Row \cup {None}]
    /\ segs \in [Names \X BOOLEAN -> Nat]
    /\ used \in [Regions -> Int]
    /\ pc \in {"wait", "run"}
    /\ matrix \in Nat
    /\ list \in [Names -> Row \cup {None}]
    /\ todo \in SUBSET Item
    /\ restarts \in Nat
    /\ base \in [Regions -> Int]

------------------------------------------------------------------------------
(* The clients *)

(***************************************************************************)
(* A client adds, updates or deletes a row (ResponseOp).                   *)
(***************************************************************************)
EditChunk(n) ==
    /\ \E row \in RowsOf[n] \cup {None} :
          /\ row # chunks[n]
          /\ row # None =>
                /\ segs[Segment(n, row)] < MaxSize
                /\ used[row.region] - base[row.region] \in -MaxUsed..MaxUsed
          /\ chunks' = [chunks EXCEPT ![n] = row]
    /\ UNCHANGED <<segs, used, pc, matrix, list, todo, restarts, base>>

------------------------------------------------------------------------------
(* Waiting for the rows *)

(***************************************************************************)
(* handleOneUnit of a loop that has not begun.  m_chunkmtx is filled from  *)
(* MetaBolCrontab, which may have any number of rows: with one the loop    *)
(* sleeps and reads again; with more, getFieldValue("bytes") throws out of *)
(* every unit from then on and nothing is read any more.                   *)
(***************************************************************************)
KeepWaiting ==
    /\ pc = "wait"
    /\ matrix = 1
    /\ matrix' \in 0..MaxCron
    /\ UNCHANGED <<chunks, segs, used, pc, list, todo, restarts, base>>

(***************************************************************************)
(* The accounts are set to 0 (the rows added up are those of another table,*)
(* and there are none).  When that fails for one it is only logged.        *)
(***************************************************************************)
ResetAccounts ==
    /\ \E kept \in SUBSET ResetMayFail :
          used' = [r \in Regions |-> IF r \in kept THEN used[r] ELSE 0]
    /\ base' = used'

\* Mutant: what the table holds already is taken for handled.
WaitForChunkInfoListed ==
    /\ pc = "wait"
    /\ matrix = 0
    /\ pc' = "run"
    /\ ResetAccounts
    /\ list' = chunks
    /\ UNCHANGED <<chunks, segs, matrix, todo, restarts>>

WaitForChunkInfo ==
    /\ pc = "wait"
    /\ matrix = 0
    /\ pc' = "run"
    /\ ResetAccounts
    /\ list' = NoRows
    /\ UNCHANGED <<chunks, segs, matrix, todo, restarts>>

------------------------------------------------------------------------------
(* The refresh *)

\* Mutant: a chunk that changed its size does not count as the same.
SameRow(old, new) == old # None /\ old = new

\* The old and the new row are of the same chunk.
Same(old, new) == old # None /\ new # None /\ old.region = new.region

\* Mutant: any change of the size asks for a growth.
GrowsAnyway(old, new) ==
    Same(old, new) /\ new.bytes # old.bytes /\ new.grow /\ new.region # "control"

Grows(old, new) ==
    /\ Same(old, new)
    /\ new.bytes > old.bytes
    /\ new.grow
    /\ new.region # "control"

Shrinks(old, new) ==
    /\ Same(old, new)
    /\ new.bytes < old.bytes
    /\ new.shrink
    /\ new.bytes > 0
    /\ new.region # "control"

Creates(old, new) == new # None /\ ~Same(old, new)

Deletes(old, new) ==
    /\ old # None
    /\ ~Same(old, new)
    /\ old.region # "control"

WorkItem(op, n, row, by) == [op |-> op, name |-> n, row |-> row, by |-> by]

\* What the comparison of two lists asks for.
Work(old, new) ==
    {WorkItem("grow", n, new[n], new[n].bytes - old[n].bytes) :
        n \in {m \in Names : Grows(old[m], new[m])}}
    \cup {WorkItem("shrink", n, new[n], old[n].bytes - new[n].bytes) :
        n \in {m \in Names : Shrinks(old[m], new[m])}}
    \cup {WorkItem("create", n, new[n], new[n].bytes) :
        n \in {m \in Names : Creates(old[m], new[m])}}
    \cup {WorkItem("delete", n, old[n], old[n].bytes) :
        n \in {m \in Names : Deletes(old[m], new[m])}}

\* The query may fail, which leaves everything for the next unit.
ChunkInfoRefresh ==
    /\ pc = "run"
    /\ todo = {}
    /\ list' = chunks
    /\ todo' = Work(list, chunks)
    /\ UNCHANGED <<chunks, segs, used, pc, matrix, restarts, base>>

\* Grown and shrunk first, then created, then deleted.
Stage(op) == CASE op \in {"grow", "shrink"} -> 1
               [] op = "create" -> 2
               [] op = "delete" -> 3

IsNext(item) == item \in todo /\ \A other \in todo : Stage(item.op) =< Stage(other.op)

\* Mutant: what shrink_to_fit took too much is not given back.
OutcomeNoRegrow(item) ==
    LET size == segs[Segment(item.name, item.row)]
    IN  CASE item.op = "create" -> {IF size = 0 THEN item.row.bytes ELSE size}
          [] item.op = "grow"   -> {size + item.by}
          [] item.op = "shrink" -> 1..size
          [] item.op = "delete" -> {0}

\* What the segment of the item may be after the operation, when it succeeds.
Outcome(item) ==
    LET size == segs[Segment(item.name, item.row)]
    IN  CASE item.op = "create" -> {IF size = 0 THEN item.row.bytes ELSE size}
          [] item.op = "grow"   -> {size + item.by}
          [] item.op = "shrink" -> {s \in 1..size : s >= size - item.by}
          [] item.op = "delete" -> {0}

\* A segment of no bytes is not created, and only an existing one is attached.
CanSucceed(item) ==
    IF item.op = "create" THEN item.row.bytes > 0
                          ELSE segs[Segment(item.name, item.row)] > 0

\* Mutant: a shrunk segment is not taken off the account.
DeltaNoShrink(item) ==
    CASE item.op \in {"grow", "create"} -> item.by
      [] item.op = "shrink" -> 0
      [] item.op = "delete" -> -item.by

\* What the operation does to the account of the region.
Delta(item) == IF item.op \in {"grow", "create"} THEN item.by ELSE -item.by

(***************************************************************************)
(* doGrowSegment, doShrinkSegment, doCreateSegment, doDeleteSegment.  The  *)
(* account is written after the segment; when reading it throws or writing *)
(* it fails, it stays as it was.                                           *)
(***************************************************************************)
Do(item) ==
    /\ IsNext(item)
    /\ CanSucceed(item)
    /\ \E s \in Outcome(item) :
          segs' = [segs EXCEPT ![Segment(item.name, item.row)] = s]
    /\ \/ used' = [used EXCEPT ![item.row.region] = @ + Delta(item)]
       \/ "account" \in MayFail[item.name] /\ used' = used
    /\ todo' = todo \ {item}
    /\ UNCHANGED <<chunks, pc, matrix, list, restarts, base>>

(***************************************************************************)
(* The operation throws; it is not tried again.  A shrink may throw when   *)
(* shrink_to_fit has taken what it took and has not given back the rest.   *)
(***************************************************************************)
Fail(item) ==
    LET seg == Segment(item.name, item.row) IN
    /\ IsNext(item)
    /\ \/ ~CanSucceed(item) /\ segs' = segs
       \/ item.op \in MayFail[item.name] /\ segs' = segs
       \/ /\ item.op = "shrink" /\ item.op \in MayFail[item.name]
          /\ \E s \in 1..segs[seg] : segs' = [segs EXCEPT ![seg] = s]
    /\ todo' = todo \ {item}
    /\ UNCHANGED <<chunks, used, pc, matrix, list, restarts, base>>

------------------------------------------------------------------------------
(* The specification *)

\* The kernel is killed and started again; init() reads MetaBolCrontab.
Restart ==
    /\ restarts < MaxRestart
    /\ restarts' = restarts + 1
    /\ pc' = "wait"
    /\ matrix' \in 0..MaxCron
    /\ list' = NoRows
    /\ todo' = {}
    /\ base' = used
    /\ UNCHANGED <<chunks, segs, used>>

Init ==
    /\ chunks \in [Names -> {None}]
    /\ segs = [s \in Names \X BOOLEAN |-> 0]
    /\ used = [r \in Regions |-> 0]
    /\ pc = "wait"
    /\ matrix \in 0..MaxCron
    /\ list = NoRows
    /\ todo = {}
    /\ restarts = 0
    /\ base = used

Loop ==
    \/ KeepWaiting
    \/ WaitForChunkInfo
    \/ ChunkInfoRefresh
    \/ \E item \in todo : Do(item) \/ Fail(item)

Next ==
    \/ \E n \in Names : EditChunk(n)
    \/ Loop
    \/ Restart

Spec == Init /\ [][Next]_vars

------------------------------------------------------------------------------
(* Safety *)

\* No row moves the chunk to another region or makes it another kind of memory.
Steady(n) ==
    \A old, new \in RowsOf[n] : old.region = new.region /\ old.mapped = new.mapped

(***************************************************************************)
(* No row changes the size silently, and no operation on the segment fails,*)
(* but for a creation that finds no segment left by an earlier kernel.     *)
(***************************************************************************)
Elastic(n) ==
    /\ \A row \in RowsOf[n] : row.grow /\ row.shrink /\ row.bytes > 0
    /\ MayFail[n] \subseteq (IF restarts = 0 THEN {"create"} ELSE {})

Settled == pc = "run" /\ todo = {}

Listed(n) == list[n] # None

Exists(n) == segs[Segment(n, list[n])] > 0

(***************************************************************************)
(* After a refresh the bytes used by a region are those of its chunks that *)
(* exist, whatever the clients did meanwhile and wherever the kernel was   *)
(* killed before (doCreateSegment to doDeleteSegment), on top of what the  *)
(* account was when the loop began: nothing, or, when waitForChunkInfo     *)
(* failed to reset it, what an earlier kernel left.  The control region is *)
(* left out: what is deleted there stays accounted.                        *)
(***************************************************************************)
AccountsAgree ==
    \A r \in {"temp", "data"} :
        /\ Settled
        /\ \A n \in Names : (\E row \in RowsOf[n] : row.region = r) => Steady(n) /\ Elastic(n)
        => used[r] - base[r] = MapThenSumSet(LAMBDA n : list[n].bytes,
                                   {n \in Names : Listed(n) /\ list[n].region = r /\ Exists(n)})

(***************************************************************************)
(* As long as the kernel has not been killed, a segment has the bytes its  *)
(* row asks for after every refresh: what shrink_to_fit takes too much is  *)
(* given back, and a growth adds to what is there.                         *)
(***************************************************************************)
LargeEnough ==
    \A n \in Names :
        /\ Settled
        /\ restarts = 0
        /\ Steady(n) /\ Elastic(n)
        /\ Listed(n) /\ Exists(n)
        /\ list[n].region # "control"
        => segs[Segment(n, list[n])] >= list[n].bytes

(***************************************************************************)
(* The memory of a chunk is not destroyed as long as the chunk is listed,  *)
(* nor ever for a chunk of the control region (MemTaskLoop.cpp:737-742).   *)
(***************************************************************************)
DataKept ==
    [][\A n \in Names, m \in BOOLEAN :
          /\ Steady(n)
          /\ segs[<<n, m>>] > 0
          /\ segs'[<<n, m>>] = 0
          => list[n] = None /\ \A row \in RowsOf[n] : row.region # "control"]_vars

------------------------------------------------------------------------------
(* Fairness and liveness *)

\* The thread runs, in every kernel that is started.
Fairness == WF_vars(Loop)

FairSpec == Spec /\ Fairness

\* MetaBolCrontab had rows when the loop began.
HeldUp == pc = "wait" /\ matrix # 0

HasSegment(n) == \E row \in RowsOf[n] : segs[Segment(n, row)] > 0

(***************************************************************************)
(* Segments follow the table: a chunk that stays in the table gets a       *)
(* segment, however its size is edited and whatever else failed for it, and*)
(* one that is taken out loses it, unless the kernel is killed or never    *)
(* begins because of what MetaBolCrontab holds.                            *)
(***************************************************************************)
SegmentsFollow ==
    \A n \in {n \in Names : Steady(n)} :
        /\ "create" \notin MayFail[n] =>
              (chunks[n] # None
                  ~> HasSegment(n) \/ chunks[n] = None \/ chunks[n].bytes = 0 \/ HeldUp)
        /\ "delete" \notin MayFail[n] =>
              (chunks[n] = None /\ Listed(n) /\ list[n].region # "control"
                  ~> ~HasSegment(n) \/ chunks[n] # None \/ pc = "wait")

==============================================================================
