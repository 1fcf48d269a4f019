----------------------------- MODULE MCFileTools -----------------------------
(***************************************************************************)
(* A file that one call overwrites or creates, in two blocks, another      *)
(* creates and a third reads, and a file that was there before.  What the  *)
(* first call writes is too large for read_file.  The second call may have *)
(* a path that escapes, and the third may be a listing.                    *)
(***************************************************************************)
EXTENDS FileTools, TLC

CONSTANTS over, make, look, b1

FileCalls == {over, make, look}
Safe == {look}
NoCalls == {}
Request(act, path, blocks, escapes) ==
    [act |-> act, path |-> path, blocks |-> blocks, escapes |-> escapes]
ArgumentsOf ==
    over :> {Request("overwrite", 1, 2, FALSE), Request("create", 1, 2, FALSE)}
    @@ make :> {Request("create", 1, 1, FALSE), Request("create", 2, 1, TRUE)}
    @@ look :> {Request("read", 1, 0, FALSE), Request("list", 1, 0, FALSE)}
ToolOf == [c \in Calls |-> c]
Before == {2 :> <<"original">>}

(* The arguments of the third call may break the validator. *)
SomeRefused == [c \in Calls |-> IF c = look THEN {"valid", "raises"} ELSE {"valid"}]
OneBatch == {b1}
BatchProgram == b1 :> <<look, over>>
DirectOnes == {make}

=============================================================================
