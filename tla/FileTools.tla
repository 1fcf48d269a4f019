------------------------------ MODULE FileTools ------------------------------
(***************************************************************************)
(* astraship.tools.builtins: read_file, write_file and list_files as tools *)
(* of a ToolRegistry.  The body of each awaits asyncio.to_thread, so the   *)
(* blocking function runs in a worker thread, one system call at a time,   *)
(* and runs to its end even if its call timed out or was cancelled         *)
(* meanwhile.  The gate of the registry is all that keeps two of them      *)
(* apart.  The registry may have other tools, which have no worker thread  *)
(* and leave the files alone.                                              *)
(*                                                                         *)
(* A content is a sequence of blocks, each with the call that wrote it;    *)
(* every open file has an offset of its own, and a write past the end      *)
(* leaves a hole.  Directories are made as needed and are left out.        *)
(***************************************************************************)
EXTENDS ToolRegistry

CONSTANTS
    Arguments,  \* Arguments[c]: what the call may ask for, if it is of a file tool
    MaxRead,    \* max_read_bytes, in blocks
    MaxList,    \* max_list_results
    Originals,  \* what the files may be before the first call
    Absent      \* no file

(* A path escapes if it is absolute, has "..", or leads out of the         *)
(* workspace.  Only a write has blocks, those of its content.              *)
Requests == [act : {"read", "create", "overwrite", "list"}, path : Nat, blocks : Nat,
             escapes : BOOLEAN]

Writing == {"create", "overwrite"}
Paths == {a.path : a \in UNION {Arguments[c] : c \in Calls}}
            \cup UNION {DOMAIN d : d \in Originals}

ASSUME FilesAssumption ==
    /\ Arguments \in [Calls -> SUBSET Requests]
    /\ \A c \in Calls : \A a \in Arguments[c] : c \in SafeCalls <=> a.act \notin Writing
    /\ MaxRead \in Nat \ {0}
    /\ MaxList \in Nat \ {0}
    /\ \A d \in Originals : \A p \in DOMAIN d : p \in Nat /\ d[p] \in Seq({"original"})
    /\ IsFiniteSet(Paths)
    /\ Absent \notin Seq(Calls \cup {"original", "hole"})

VARIABLES
    args,     \* the arguments of each call
    disk,     \* the content of each file, or Absent
    status,   \* how far the blocking function of a call is
    at,       \* the offset of its file, in blocks
    seen,     \* the blocks it read, or the paths it found
    late      \* the calls whose function ended when their body was over

ioVars == <<disk, status, at, seen, late>>
fileVars == <<args, ioVars>>
filesVars == <<registryVars, fileVars>>

Writers == {c \in Calls : args[c].act \in Writing}

FilesInit ==
    /\ RegistryInit
    /\ args \in [Calls -> UNION {Arguments[c] : c \in Calls}]
    /\ \A c \in Calls : args[c] \in Arguments[c]
    /\ \E d \in Originals :
          disk = [p \in Paths |-> IF p \in DOMAIN d THEN d[p] ELSE Absent]
    /\ status = [c \in Calls |-> "none"]
    /\ at = [c \in Calls |-> 0]
    /\ seen = [c \in Calls |-> <<>>]
    /\ late = {}

(* A thread of the pool takes the function of a call. *)
WorkerStarts(c) ==
    /\ worker[c] = "queued"
    /\ WorkerStep(c)
    /\ UNCHANGED fileVars

(* The function returns or raises. *)
Return(c, how) ==
    /\ WorkerStep(c)
    /\ status' = [status EXCEPT ![c] = how]
    /\ late' = IF stage[c] = "body" THEN late ELSE late \cup {c}

(* It goes on. *)
Continue(c, how) ==
    /\ status' = [status EXCEPT ![c] = how]
    /\ UNCHANGED <<registryVars, late>>

(* _resolve_path, or _validate_relative, refuses the path. *)
ResolveFails(c) ==
    /\ worker[c] = "running"
    /\ args[c].escapes
    /\ Return(c, "failed")
    /\ UNCHANGED <<args, disk, at, seen>>

Ready(c, acts) ==
    worker[c] = "running" /\ status[c] = "none" /\ args[c].act \in acts /\ ~args[c].escapes

Transfers(c, acts) ==
    worker[c] = "running" /\ status[c] = "opened" /\ args[c].act \in acts

(* Fault: the file is truncated whether or not it may be replaced. *)
OpenForWriteAlways(c) ==
    /\ Ready(c, Writing)
    /\ disk' = [disk EXCEPT ![args[c].path] = <<>>]
    /\ Continue(c, "opened")
    /\ UNCHANGED <<args, at, seen>>

(* open(): mode "w" truncates the file, mode "x" refuses one that exists. *)
OpenForWrite(c) ==
    /\ Ready(c, Writing)
    /\ UNCHANGED <<args, at, seen>>
    /\ \/ /\ args[c].act = "overwrite" \/ disk[args[c].path] = Absent
          /\ disk' = [disk EXCEPT ![args[c].path] = <<>>]
          /\ Continue(c, "opened")
       \/ /\ args[c].act = "create" /\ disk[args[c].path] # Absent
          /\ Return(c, "failed")
          /\ UNCHANGED disk

(* A block at an offset of a content that may have been truncated since. *)
Put(content, k, c) ==
    [i \in 1..(IF k > Len(content) THEN k ELSE Len(content)) |->
        IF i = k THEN c ELSE IF i <= Len(content) THEN content[i] ELSE "hole"]

WriteBlock(c) ==
    /\ Transfers(c, Writing)
    /\ at[c] < args[c].blocks
    /\ at' = [at EXCEPT ![c] = @ + 1]
    /\ disk' = [disk EXCEPT ![args[c].path] = Put(@, at'[c], c)]
    /\ UNCHANGED <<registryVars, args, status, seen, late>>

(* Fault: what flush() raises is lost. *)
EndWriteQuietly(c) ==
    /\ Transfers(c, Writing)
    /\ WorkerStep(c)
    /\ UNCHANGED <<fileVars>>

(* The file is closed after the last block, or after an OSError. *)
EndWrite(c) ==
    /\ Transfers(c, Writing)
    /\ \/ at[c] = args[c].blocks /\ Return(c, "ok")
       \/ Return(c, "broken")
    /\ UNCHANGED <<args, disk, at, seen>>

(* is_file() and stat(): the size is checked before the file is opened. *)
OpenForRead(c) ==
    /\ Ready(c, {"read"})
    /\ UNCHANGED <<args, disk, at, seen>>
    /\ \/ /\ disk[args[c].path] # Absent /\ Len(disk[args[c].path]) <= MaxRead
          /\ Continue(c, "opened")
       \/ /\ disk[args[c].path] # Absent => Len(disk[args[c].path]) > MaxRead
          /\ Return(c, "failed")

ReadBlock(c) ==
    /\ Transfers(c, {"read"})
    /\ at[c] < Len(disk[args[c].path])
    /\ at' = [at EXCEPT ![c] = @ + 1]
    /\ seen' = [seen EXCEPT ![c] = Append(@, disk[args[c].path][at'[c]])]
    /\ UNCHANGED <<registryVars, args, disk, status, late>>

(* The bytes are decoded once all are read. *)
EndRead(c) ==
    /\ Transfers(c, {"read"})
    /\ at[c] >= Len(disk[args[c].path])
    /\ Return(c, "ok") \/ Return(c, "failed")
    /\ UNCHANGED <<args, disk, at, seen>>

(* The files there are, in order, as long as they fit. *)
Present == {p \in Paths : disk[p] # Absent}
Ordered == CHOOSE s \in [1..Cardinality(Present) -> Present] :
               \A i, j \in DOMAIN s : i < j => s[i] < s[j]

ListFiles(c) ==
    /\ Ready(c, {"list"})
    /\ \/ /\ Cardinality(Present) <= MaxList
          /\ seen' = [seen EXCEPT ![c] = Ordered]
          /\ Return(c, "ok")
       \/ /\ Cardinality(Present) > MaxList
          /\ seen' = [seen EXCEPT ![c] = SubSeq(Ordered, 1, MaxList)]
          /\ Return(c, "truncated")
    /\ UNCHANGED <<args, disk, at>>

FunctionStep(c) ==
    \/ WorkerStarts(c) \/ ResolveFails(c)
    \/ OpenForWrite(c) \/ WriteBlock(c) \/ EndWrite(c)
    \/ OpenForRead(c) \/ ReadBlock(c) \/ EndRead(c) \/ ListFiles(c)

(* The body gets what the function returned or raised; that of another     *)
(* tool ends as it likes.                                                  *)
FileBodyEnds(c) ==
    /\ BodyEnds(c)
    /\ c \in ThreadedCalls =>
          outcome'[c] = IF status[c] \in {"ok", "truncated"} THEN "success" ELSE "execution_error"
    /\ UNCHANGED fileVars

FilesNext ==
    \/ TaskNext /\ UNCHANGED fileVars
    \/ \E c \in Calls : FunctionStep(c) \/ FileBodyEnds(c)

FilesSpec == FilesInit /\ [][FilesNext]_filesVars

(* The event loop runs the tasks that are ready, timers fire, bodies give  *)
(* way to CancelledError sooner or later, and observers end.  A body need  *)
(* not end by itself, nor does a worker thread owe anything.               *)
FairFilesSpec ==
    /\ FilesSpec
    /\ \A c \in Calls :
          /\ WF_filesVars(CallStep(c) /\ UNCHANGED fileVars)
          /\ WF_filesVars(Deadline(c) /\ UNCHANGED fileVars)
    /\ \A b \in Batches : WF_filesVars(BatchStep(b) /\ UNCHANGED fileVars)

-----------------------------------------------------------------------------
(* The types of the variables; a function starts only as part of a body. *)
FilesTypeOK ==
    /\ RegistryTypeOK
    /\ \A c \in Calls : args[c] \in Arguments[c]
    /\ disk \in [Paths -> {Absent} \cup Seq(Writers \cup {"original", "hole"})]
    /\ status \in [Calls -> {"none", "opened", "ok", "truncated", "failed", "broken"}]
    /\ \A c \in Calls : worker[c] = "finished" <=> status[c] \notin {"none", "opened"}
    /\ at \in [Calls -> Nat]
    /\ DOMAIN seen = Calls
    /\ \A c \in Calls : seen[c] \in IF args[c].act = "list" THEN Seq(Paths)
                                    ELSE Seq(Writers \cup {"original", "hole"})
    /\ late \subseteq Calls

(* The function of a call runs, or ran to its end, without the gate. *)
Strayed(c) == c \in late \/ (worker[c] = "running" /\ stage[c] # "body")

Content(c) == [i \in 1..args[c].blocks |-> c]

(* A file is as one write left it, or as it was. *)
Whole(p) ==
    \/ disk[p] = Absent
    \/ \E d \in Originals : p \in DOMAIN d /\ disk[p] = d[p]
    \/ \E c \in Writers : args[c].path = p /\ status[c] = "ok" /\ disk[p] = Content(c)

(* As long as no write outlived its call and none failed half way, the     *)
(* gate makes the tools atomic: while a safe call is in its body the files *)
(* are whole, and a read that succeeds returns all of one write and no     *)
(* more than max_read_bytes, though it checks the size, opens the file and *)
(* reads it in separate steps.                                             *)
GatedFilesAreAtomic ==
    \A p \in Paths :
        (\A w \in Writers : args[w].path = p => ~Strayed(w) /\ status[w] # "broken") =>
            \A c \in inside \cap SafeCalls :
                /\ args[c].path = p => Whole(p)
                /\ args[c].path = p /\ args[c].act = "read" /\ status[c] = "ok" =>
                      seen[c] = disk[p] /\ Len(seen[c]) <= MaxRead

(* What write_file wrote with overwrite false stays until a call asks to   *)
(* overwrite it: whichever calls timed out, were cancelled or still run,   *)
(* no two creations of a file succeed, and none replaces another.          *)
CreatedStays ==
    \A c \in Writers :
        args[c].act = "create" /\ status[c] = "ok"
            /\ (\A w \in Writers : args[w].act = "overwrite" /\ args[w].path = args[c].path
                                     => status[w] \in {"none", "failed"})
        => disk[args[c].path] = Content(c)

(* "unsafe tools run exclusively and never overlap any other tool": while  *)
(* a worker runs for an exclusive call, no other tool runs.                *)
ExclusiveToolsNeverOverlap ==
    \A c \in Calls \ SafeCalls : worker[c] = "running" =>
        \A d \in Calls \ {c} : stage[d] # "body" /\ worker[d] # "running"

(* A function that has not started when its call ends never does: a call   *)
(* that is refused, that is cancelled at the gate, or whose worker is      *)
(* still queued as it times out leaves the files alone for ever.           *)
NoLateStart ==
    [][\A c \in Calls : stage[c] \in {"observing", "done"} /\ worker[c] # "running"
          => worker'[c] = worker[c] /\ status'[c] = status[c]]_filesVars

=============================================================================
