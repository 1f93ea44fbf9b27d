------------------------------- MODULE MCTopic -------------------------------
(* Instances of Topic.  Two priorities make the comparator of the delay    *)
(* queue answer both ways when the activetimes do not decide.              *)
EXTENDS Topic

(* With four messages a due one may be behind a root that is not due.      *)
MCPriority == <<{0}, {1}, {1}, {0}>>

(* A request may ask for a negative delay.                                  *)
MCDelays == {-1, 1}

MCEither == [m \in Msg |-> {0, 1}]
=============================================================================
