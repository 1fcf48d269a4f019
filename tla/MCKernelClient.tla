--------------------------- MODULE MCKernelClient ---------------------------
(* Instances of KernelClient. *)
EXTENDS KernelClient, TLC

CONSTANTS q1, q2, k1, k2

TwoRequests == {q1, q2}
TwoClosers == {k1, k2}
OneOfEach == {Starter, q1, k1}

=============================================================================
