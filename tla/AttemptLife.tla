---------------------------- MODULE AttemptLife -----------------------------
(***************************************************************************)
(* What the record of a host's update attempts promises, without tasks,    *)
(* heartbeats, passes, fences or restarts: attempts are made one after the *)
(* other, one is open at a time, each ends once, and the ending that is    *)
(* recorded is true.  UpdateAttempts implements this specification.        *)
(***************************************************************************)
EXTENDS Naturals

CONSTANT Count       \* how many attempts there may be

VARIABLES states,    \* the state of each attempt
          failed,    \* a failure is known that is the open attempt's, or came
                     \* while it was open and names none
          late,      \* the open attempt is out of time
          runs       \* the host runs the release

vars == <<states, failed, late, runs>>

Ids == 1..Count
Ends == {"succeeded", "failed", "timed_out", "cancelled"}

Open(a) == states[a] = "requested"

Init ==
  /\ states = [a \in Ids |-> "none"]
  /\ failed = FALSE /\ late = FALSE /\ runs = FALSE

\* The next attempt is made when every earlier one has ended.
Ask(a) ==
  /\ states[a] = "none" /\ states'[a] = "requested"
  /\ states' = [states EXCEPT ![a] = "requested"]
  /\ \A b \in Ids : ~Open(b) /\ (b < a => states[b] # "none")
  /\ UNCHANGED <<failed, late, runs>>

Fail == failed' = TRUE /\ UNCHANGED <<states, late, runs>>

RunLate == late' = TRUE /\ UNCHANGED <<states, failed, runs>>

Install == runs' = TRUE /\ UNCHANGED <<states, failed, late>>

\* What makes an ending true.  A cancellation needs no reason.
Justified(end) ==
  \/ end = "succeeded" /\ runs
  \/ end = "failed" /\ failed
  \/ end = "timed_out" /\ late
  \/ end = "cancelled"

\* What was known of an attempt is not known of the one after it.
End(a, end) ==
  /\ states'[a] = end
  /\ states' = [states EXCEPT ![a] = end]
  /\ Justified(end)
  /\ failed' = FALSE /\ late' = FALSE
  /\ UNCHANGED runs

Next ==
  \/ Install
  \/ \E a \in Ids : Ask(a)
  \/ \E a \in Ids : /\ Open(a)
                    /\ Fail \/ RunLate \/ \E end \in Ends : End(a, end)

Spec == Init /\ [][Next]_vars
=============================================================================
