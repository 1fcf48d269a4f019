-------------------------- MODULE MCKernelSession --------------------------
(* A session that has a transcript and publishes three events, with one    *)
(* place in its queue, so that there can be a gap in what its consumer     *)
(* gets, beside one of the same client that publishes one event, which the *)
(* first must not see.                                                     *)
EXTENDS KernelSession

CONSTANTS e1, e2

FirstSession == {e1}
BothSessions == {e1, e2}
EventsOfBoth == [s \in Sessions |-> IF s = e1 THEN 3 ELSE 1]

=============================================================================
