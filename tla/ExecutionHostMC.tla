-------------------------- MODULE ExecutionHostMC --------------------------
(* Directory names with a blank, a quote and a backslash in every order; hosts with and without a *)
(* user, a port and brackets.  A bare IPv6 address cannot carry a port, and a user may hold an @. *)
EXTENDS ExecutionHost

Chars == {"a", " ", "'", "\\"}
AllDirs == {<<"/">> \o s : s \in BoundedSeq(Chars, 2)}
SomeHosts ==
  [user : {<<>>, <<"u">>, <<"u", "@", "d">>}, name : {<<"h">>, <<"[", ":", ":", "1", "]">>}, port : {<<>>, <<"2", "2">>}]
  \cup [user : {<<>>, <<"u">>}, name : {<<":", ":", "1">>}, port : {<<>>}]
=============================================================================
