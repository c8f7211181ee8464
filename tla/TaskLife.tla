------------------------------ MODULE TaskLife ------------------------------
(***************************************************************************)
(* What a host's task queue promises, without its order, leases, polls,    *)
(* wake token or restarts: a task is submitted once, is given out a        *)
(* bounded number of times and is over once, and work of one key is never  *)
(* asked for twice at a time.  TaskQueue implements this specification.    *)
(***************************************************************************)
EXTENDS Naturals

CONSTANTS Tasks,
          keyOf,    \* the work a task stands for
          limitOf   \* how often a task may be given out

VARIABLES born,     \* the tasks ever submitted
          waiting,  \* those that wait to be given out
          out,      \* those the host has; the rest of born is over
          given,    \* how often each has been given out
          closed    \* the host takes no more work

vars == <<born, waiting, out, given, closed>>

Open == waiting \cup out

Init ==
    /\ born = {} /\ waiting = {} /\ out = {}
    /\ given = [t \in Tasks |-> 0]
    /\ closed = FALSE

Submit(t) ==
    /\ \A u \in Open : keyOf[u] # keyOf[t]
    /\ born' = born \cup {t}
    /\ waiting' = waiting \cup {t}
    /\ UNCHANGED <<out, given, closed>>

GiveOut(S) ==
    /\ ~closed
    /\ \A t \in S : given[t] < limitOf[t]
    /\ waiting' = waiting \ S
    /\ out' = out \cup S
    /\ given' = [t \in Tasks |-> IF t \in S THEN given[t] + 1 ELSE given[t]]
    /\ UNCHANGED <<born, closed>>

\* Tasks that are out wait again while they may still be given out, and others,
\* wherever they were, are over.
Return(back, done) ==
    /\ \A t \in back : given[t] < limitOf[t]
    /\ waiting' = (waiting \cup back) \ done
    /\ out' = out \ (back \cup done)
    /\ UNCHANGED <<born, given, closed>>

Close ==
    /\ closed' = TRUE
    /\ waiting' = {} /\ out' = {}
    /\ UNCHANGED <<born, given>>

Next ==
    \/ \E t \in Tasks \ born : Submit(t)
    \/ \E S \in SUBSET waiting : GiveOut(S)
    \/ \E back \in SUBSET out, done \in SUBSET Open : Return(back, done)
    \/ Close

Spec == Init /\ [][Next]_vars
=============================================================================
