----------------------------- MODULE MessageLife -----------------------------
(***************************************************************************)
(* What a topic promises of its messages, whatever its queues look like:   *)
(* a message is in one stage at a time, a step moves one message along one *)
(* of the edges below, a consumer is handed the most urgent ready message, *)
(* and a deleted message never comes back.                                 *)
(***************************************************************************)
EXTENDS Integers

CONSTANTS Msg,       (* messages                                           *)
          Priority,  (* the priorities a message may be given, the lower   *)
                     (* the more urgent                                    *)
          MayFail    (* whether a move may lose the message                *)

VARIABLES stage,  (* the stage of each message                             *)
          prio    (* its priority, chosen when it is added                 *)

vars == <<stage, prio>>

In(s) == {m \in Msg : stage[m] = s}

(* A move of m to stage s, or its loss when there is no memory for it.     *)
Moved(m, s) ==
    \/ stage' = [stage EXCEPT ![m] = s]
    \/ MayFail /\ stage' = [stage EXCEPT ![m] = "lost"]

Init == /\ stage = [m \in Msg |-> "fresh"]
        /\ prio = [m \in Msg |-> 0]

Add(m) == /\ stage[m] = "fresh"
          /\ Moved(m, "ready") \/ Moved(m, "delayed")
          /\ \E p \in Priority[m] : prio' = [prio EXCEPT ![m] = p]

Release(m) == stage[m] = "delayed" /\ Moved(m, "ready") /\ UNCHANGED prio

Get(m) == /\ stage[m] = "ready"
          /\ \A x \in In("ready") : prio[m] <= prio[x]
          /\ Moved(m, "using")
          /\ UNCHANGED prio

Sleep(m) == stage[m] = "using" /\ Moved(m, "sleep") /\ UNCHANGED prio

PutBack(m) == /\ stage[m] \in {"using", "sleep"}
              /\ Moved(m, "ready") \/ Moved(m, "delayed")
              /\ UNCHANGED prio

Delete(m) == /\ stage[m] \in {"using", "sleep"}
             /\ stage' = [stage EXCEPT ![m] = "freed"]
             /\ UNCHANGED prio

(* The topic goes away with every message it holds.                        *)
Clear == /\ stage' = [m \in Msg |-> IF stage[m] \in {"fresh", "lost"}
                                    THEN stage[m] ELSE "freed"]
         /\ UNCHANGED prio

Next == \/ \E m \in Msg : \/ Add(m)
                          \/ Release(m)
                          \/ Get(m)
                          \/ Sleep(m)
                          \/ PutBack(m)
                          \/ Delete(m)
        \/ Clear

Spec == Init /\ [][Next]_vars
=============================================================================
