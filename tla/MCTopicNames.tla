---------------------------- MODULE MCTopicNames ----------------------------
(***************************************************************************)
(* Finite instances of TopicNames: an empty and a proper topic, and types  *)
(* with one "::" or two, empty last parts, no namespace and a lone colon.  *)
(***************************************************************************)
EXTENDS TopicNames

MCTopics == {<<>>, <<"chatter">>}
MCTypes ==
  {<<>>, <<"String">>, <<"msg", ":", "String">>, <<"::", "String">>,
   <<"std_msgs", "::", "msg", "::", "String">>, <<"std_msgs", "::">>}
=============================================================================
