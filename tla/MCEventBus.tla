------------------------------ MODULE MCEventBus ------------------------------
(***************************************************************************)
(* Instances of EventBus for TLC: topics one client is owed, is not shown, *)
(* and has not asked for.                                                  *)
(***************************************************************************)
EXTENDS EventBus, TLC

CONSTANTS owed, hidden, other

MCMatches == [c \in Clients |-> Topics \ {other}]
MCReadable == [c \in Clients |-> Topics \ {hidden}]
MCClassOf == [c \in Clients |-> "ordinary"]
MCNoCeiling == [k \in Classes |-> 0]
MCOneStream == [k \in Classes |-> 1]
=============================================================================
