------------------------------ MODULE MCRouter ------------------------------
(* An instance of Router: names and values may contain the name of a param *)
(* that is searched for, or be that name.                                  *)
EXTENDS Router

MCUnit == {"user", "password", "message_id", "topic_name",
           "ann", "x", "t", "s", "1", "2"}
MCName == {<<"user">>, <<"password">>, <<"x", "user">>}
MCWord == {<<"ann">>, <<"user">>}
MCSender == [name |-> <<"ann">>, pass |-> <<"user">>]
MCTopicName == {<<"t">>, <<"message_id">>, <<"message_id", "s">>}
MCIds == <<<<"1">>, <<"2">>>>
=============================================================================
