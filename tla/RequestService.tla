---------------------------- MODULE RequestService ----------------------------
(***************************************************************************)
(* What the BolServiceServer promises its clients, without threads, queues *)
(* or sockets.  A connection is opened and closed once.  Its requests are  *)
(* accepted in the order they were sent; an accepted request is pending    *)
(* until it is answered, on its own connection and while that is open, or  *)
(* dropped.                                                                *)
(***************************************************************************)
EXTENDS Naturals

CONSTANTS Conns, MaxReq

Ids == 1 .. MaxReq

VARIABLES
    state,      \* [Conns -> {"new", "open", "closed"}]
    accepted,   \* [Conns -> Nat] the last request accepted, 0 when not open
    pending,    \* [Conns -> SUBSET Ids] accepted, neither answered nor dropped
    answered    \* [Conns -> SUBSET Ids]

svars == <<state, accepted, pending, answered>>

Init ==
    /\ state    = [c \in Conns |-> "new"]
    /\ accepted = [c \in Conns |-> 0]
    /\ pending  = [c \in Conns |-> {}]
    /\ answered = [c \in Conns |-> {}]

Open(c) ==
    /\ state[c] = "new"
    /\ state' = [state EXCEPT ![c] = "open"]
    /\ UNCHANGED <<accepted, pending, answered>>

Accept(c) ==
    /\ state[c] = "open"
    /\ accepted[c] < MaxReq
    /\ accepted' = [accepted EXCEPT ![c] = @ + 1]
    /\ pending'  = [pending EXCEPT ![c] = @ \cup {accepted[c] + 1}]
    /\ UNCHANGED <<state, answered>>

Remove(c, i) ==
    /\ i \in pending[c]
    /\ pending' = [pending EXCEPT ![c] = @ \ {i}]

Answer(c, i) ==
    /\ state[c] = "open"
    /\ Remove(c, i)
    /\ answered' = [answered EXCEPT ![c] = @ \cup {i}]
    /\ UNCHANGED <<state, accepted>>

Drop(c, i) ==
    /\ Remove(c, i)
    /\ UNCHANGED <<state, accepted, answered>>

CloseAll(S) ==
    /\ \A c \in S : state[c] = "open"
    /\ state'    = [c \in Conns |-> IF c \in S THEN "closed" ELSE state[c]]
    /\ accepted' = [c \in Conns |-> IF c \in S THEN 0 ELSE accepted[c]]

Close ==
    /\ \E S \in SUBSET Conns : CloseAll(S)
    /\ UNCHANGED <<pending, answered>>

(***************************************************************************)
(* A request that cannot be answered closes the connection it came on.     *)
(***************************************************************************)
Reject(c, i) ==
    /\ CloseAll({c})
    /\ Remove(c, i)
    /\ UNCHANGED answered

Next ==
    \/ \E c \in Conns : Open(c) \/ Accept(c)
    \/ \E c \in Conns, i \in Ids : Answer(c, i) \/ Drop(c, i) \/ Reject(c, i)
    \/ Close

Spec == Init /\ [][Next]_svars
==============================================================================
