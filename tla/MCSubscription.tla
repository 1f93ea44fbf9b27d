--------------------------- MODULE MCSubscription ---------------------------
(* Three subscribes and two topics: one subscribe that matches both, one   *)
(* that matches one of them exactly, and one whose keyword differs from    *)
(* the name in case only.                                                  *)
EXTENDS Subscription

CONSTANTS both, exact, otherCase, a, b

MCExact == {<<both, a>>, <<both, b>>, <<exact, a>>}
MCAnyCase == MCExact \cup {<<otherCase, a>>}
=============================================================================
