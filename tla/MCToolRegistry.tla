--------------------------- MODULE MCToolRegistry ---------------------------
(***************************************************************************)
(* Instances of ToolRegistry.  Calls s* name safe tools, the others        *)
(* exclusive ones, and late names a tool that is registered while the      *)
(* others run.                                                             *)
(***************************************************************************)
EXTENDS ToolRegistry, TLC

CONSTANTS s1, s2, x1, late, twin, b1, b2

BatchCalls == {s1, s2, x1, late, twin}
NoCalls == {}
SafeOnes == Calls \cap {s1, s2, twin}
BeforeLate == Calls \ {late}
OwnTool == [c \in Calls |-> c]

(* The observer of s1 and of the late tool may suspend.                    *)
SlowOnes == Calls \cap {s1, late}

(* The arguments of s2 may be refused, or break the validator. *)
SomeRefused == [c \in Calls |-> IF c = s2 THEN {"valid", "invalid", "raises"} ELSE {"valid"}]

(* A batch with a barrier that may become known late, and one with         *)
(* duplicate call IDs, beside a direct call of an exclusive tool.          *)
BarrierProgram == b1 :> <<s1, late, s2>> @@ b2 :> <<twin, twin>>
TwoBatches == {b1, b2}
DirectOnes == {x1}

=============================================================================
