---------------------------- MODULE MCHostCalls ----------------------------
(* Instances of HostCalls: t1 and t2 share an ID; o1 is a forward request. *)
EXTENDS HostCalls

CONSTANTS t1, t2, o1, i1

NoOutsiders == {}
OneOutsider == {o1}
TwoRequests == {t1, t2}
OneId == {i1}
SharedId == [t \in Requests |-> i1]
OnlySecond == {t2}

(* A result that is no JSON value is answered with an error; one that is   *)
(* differs in nothing else.                                                *)
SomeHandlerResults == {"unserializable", "unencodable", "cancelled", "raises_at_once"}

=============================================================================
