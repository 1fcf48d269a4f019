-------------------------- MODULE MCExecutionGate --------------------------
(* An instance of ExecutionGate: shared calls s*, exclusive calls x*. *)
EXTENDS ExecutionGate

CONSTANTS s1, s2, s3, x1, x2

ThreeSharedTwoExclusive == {s1, s2, s3, x1, x2}
ThreeShared == {s1, s2, s3}

=============================================================================
