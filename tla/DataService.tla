----------------------------- MODULE DataService -----------------------------
(***************************************************************************)
(* What DataAPI promises its callers: a call that succeeds happens at one  *)
(* instant, as a whole; a call that fails does nothing.                    *)
(***************************************************************************)
EXTENDS Integers, FiniteSets

CONSTANTS Threads, Keys, Calls, None, Pending

VARIABLES
    table,   \* [Keys -> value or None]
    asked,   \* [Threads -> Calls] the last call of each thread
    out      \* [Threads -> its outcome, or Pending]

svars == <<table, asked, out>>

Done(status, rows) == [status |-> status, rows |-> rows]

Failed == Done(-1, {})

Present(ks) == {k \in ks : table[k] # None}

Init ==
    /\ asked \in [Threads -> Calls]
    /\ out = [t \in Threads |-> Failed]

Invoke(t, c) ==
    /\ out[t] # Pending
    /\ asked' = [asked EXCEPT ![t] = c]
    /\ out' = [out EXCEPT ![t] = Pending]
    /\ UNCHANGED table

Fail(t) ==
    /\ out[t] = Pending
    /\ out' = [out EXCEPT ![t] = Failed]
    /\ UNCHANGED <<table, asked>>

Succeed(t, status, rows, new) ==
    /\ out[t] = Pending
    /\ out' = [out EXCEPT ![t] = Done(status, rows)]
    /\ table' = [k \in DOMAIN table |-> new[k]]
    /\ UNCHANGED asked

(***************************************************************************)
(* The five operations, for a call that names the rows ks and a value v.   *)
(***************************************************************************)
Query(t, ks) ==
    Succeed(t, 0, {<<k, table[k]>> : k \in Present(ks)}, table)

Erase(t, ks) ==
    Succeed(t, Cardinality(Present(ks)), {},
            [k \in Keys |-> IF k \in ks THEN None ELSE table[k]])

Update(t, ks, v) ==
    Succeed(t, Cardinality(Present(ks)), {},
            [k \in Keys |-> IF k \in Present(ks) THEN v ELSE table[k]])

Add(t, ks, v) ==
    /\ Present(ks) = {}
    /\ Succeed(t, 0, {}, [k \in Keys |-> IF k \in ks THEN v ELSE table[k]])

Replace(t, ks, v) ==
    Succeed(t, 0, {}, [k \in Keys |-> IF k \in ks THEN v ELSE None])

Execute(t) ==
    LET c == asked[t] IN
        \/ c.kind = "query"   /\ Query(t, c.keys)
        \/ c.kind = "erase"   /\ Erase(t, c.keys)
        \/ c.kind = "update"  /\ Update(t, c.keys, c.val)
        \/ c.kind = "add"     /\ Add(t, c.keys, c.val)
        \/ c.kind = "replace" /\ Replace(t, c.keys, c.val)

Next ==
    \E t \in Threads : \/ \E c \in Calls : Invoke(t, c)
                       \/ Execute(t)
                       \/ Fail(t)

Spec == Init /\ [][Next]_svars
==============================================================================
