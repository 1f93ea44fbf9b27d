------------------------------ MODULE Delivery ------------------------------
(***************************************************************************)
(* What the push side of jcqueue promises of a message that subscribers    *)
(* have asked for, with no connection, no frame and no counter: it is      *)
(* handed to each of them, each acknowledges what it was handed, and the   *)
(* message is freed by the last acknowledgement, not before and not later. *)
(***************************************************************************)
EXTENDS Integers

CONSTANTS Msg,     (* messages                                             *)
          Sub,     (* subscribes                                           *)
          Copies   (* how many times each of them is in the topic's list   *)

VARIABLES stage,   (* "fresh", "ready", "using" or "freed"                 *)
          got,     (* copies of a message that a subscriber was handed     *)
          acked    (* copies whose acknowledgement the server has handled  *)

vars == <<stage, got, acked>>

Init == /\ stage = [m \in Msg |-> "fresh"]
        /\ got = [m \in Msg |-> [s \in Sub |-> 0]]
        /\ acked = [m \in Msg |-> [s \in Sub |-> 0]]

Add(m) == /\ stage[m] = "fresh"
          /\ stage' = [stage EXCEPT ![m] = "ready"]
          /\ UNCHANGED <<got, acked>>

Dispatch(m) == /\ stage[m] = "ready"
               /\ stage' = [stage EXCEPT ![m] = "using"]
               /\ UNCHANGED <<got, acked>>

(* One more for s.                                                         *)
Plus(f, s) == [f EXCEPT ![s] = @ + 1]

Deliver(m, s) == /\ stage[m] = "using"
                 /\ got[m][s] < Copies[s]
                 /\ got' = [got EXCEPT ![m] = Plus(@, s)]
                 /\ UNCHANGED <<stage, acked>>

Acknowledge(m, s) ==
    /\ stage[m] = "using"
    /\ acked[m][s] < got[m][s]
    /\ acked' = [acked EXCEPT ![m] = Plus(@, s)]
    /\ stage' = IF acked'[m] = Copies THEN [stage EXCEPT ![m] = "freed"]
                                      ELSE stage
    /\ UNCHANGED got

Next == \E m \in Msg : \/ Add(m)
                       \/ Dispatch(m)
                       \/ \E s \in Sub : Deliver(m, s) \/ Acknowledge(m, s)

Spec == Init /\ [][Next]_vars
=============================================================================
