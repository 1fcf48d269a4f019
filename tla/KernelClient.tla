---------------------------- MODULE KernelClient ----------------------------
(***************************************************************************)
(* The forward half of astraship.kernel.client.FelixClient: start(),       *)
(* request() and close() over one child process, its stdout reader and its *)
(* watcher.  All are tasks of one event loop; a step is what a task does   *)
(* between two suspensions.  Requests from the child are in HostCalls.     *)
(*                                                                         *)
(* The child is the environment: it may answer a request it got at any     *)
(* time, more than once or never, with an error or not, write a malformed  *)
(* line, close its stdout, stop reading its stdin, ignore SIGTERM, and     *)
(* exit.  Its output may still be read after it exited.                    *)
(***************************************************************************)
EXTENDS Queues, FiniteSets

CONSTANTS
    Starter,      \* the task that calls start()
    Requesters,   \* the tasks that call request(), once each
    Closers,      \* the tasks that call close()
    Cancellable,  \* those among them whose tasks may be cancelled
    None

Callers == {Starter} \cup Requesters     \* each makes one JSON-RPC request

ASSUME ClientAssumption ==
    /\ IsFiniteSet(Requesters)
    /\ Starter \notin Requesters \cup Closers
    /\ Requesters \cap Closers = {}
    /\ None \notin Callers \cup {"response", "protocol", "process", "state", "os", "timeout",
                                "cancelled", "config"}
    /\ Cancellable \subseteq Callers \cup Closers

VARIABLES
    started, closed,        \* _started, _closed
    initialized,            \* _initialize_result is set
    failure,                \* _failure: None, "protocol" or "process"
    proc, reader, watcher,  \* _process, _stdout_task and _process_task
    nextId,                 \* _next_id
    pending,                \* the keys of _pending
    id,                     \* the request ID of each caller, 0 before it has one
    future,                 \* the future of each caller
    reply,                  \* whose request the response in a future answers
    wire,                   \* the requests written to the child: <<ID, caller>>
    writers,                \* the callers at the write lock, its holder first
    stage,                  \* how far the call of each caller is
    outcome,                \* how the call ended, before the close() of start() if it failed
    closing                 \* how far close() is in the tasks that run it

flagVars == <<started, closed, initialized, failure>>
childVars == <<proc, reader, watcher>>
callVars == <<id, reply, stage, outcome>>
pendingVars == <<pending, future>>
clientVars ==
    <<flagVars, childVars, nextId, pendingVars, callVars, wire, writers, closing>>

InFlight == {"locking", "draining", "awaiting"}

ClientInit ==
    /\ started = FALSE /\ closed = FALSE /\ initialized = FALSE
    /\ failure = None
    /\ proc = "none" /\ reader = "none" /\ watcher = "none"
    /\ nextId = 1
    /\ pending = {}
    /\ id = [r \in Callers |-> 0]
    /\ future = [r \in Callers |-> "none"]
    /\ reply = [r \in Callers |-> None]
    /\ wire = {}
    /\ writers = <<>>
    /\ stage = [r \in Callers |-> "idle"]
    /\ outcome = [r \in Callers |-> None]
    /\ closing = [t \in Closers \cup {Starter} |-> "idle"]

(* The first failure is kept. *)
FirstFailure(kind) == IF failure = None THEN kind ELSE failure

(* The definitions marked `Fault' are mistakes that the code could make    *)
(* and does not; they are no part of the specification.                    *)
(* Fault: _pending is cleared before its futures are failed. *)
FailPendingTooLate(kind) == pending' = {} /\ UNCHANGED future

(* _fail_pending: every pending future that is still unset gets a failure. *)
FailPending(kind) ==
    /\ future' = [r \in Callers |->
                    IF id[r] \in pending /\ future[r] = "unset" THEN kind ELSE future[r]]
    /\ pending' = {}

-----------------------------------------------------------------------------
(* close() *)

(* close() up to its first suspension.  It returns at once if the client   *)
(* was closed before; it does not suspend if there is no child, and then   *)
(* there is no pending request to reject either.                           *)
BeginClose(t) ==
    /\ closed' = TRUE
    /\ closing' = [closing EXCEPT ![t] =
                     IF closed \/ proc = "none" THEN "closed" ELSE "stopping"]

Close(t) ==
    /\ t \in Closers
    /\ closing[t] = "idle"
    /\ BeginClose(t)
    /\ UNCHANGED <<started, initialized, failure, childVars, nextId, pendingVars, callVars,
                   wire, writers>>

(* A bounded wait for the exit expires: SIGTERM first, then SIGKILL. *)
CloseEscalate(t) ==
    /\ closing[t] \in {"stopping", "terminating"}
    /\ proc = "running"
    /\ closing' = [closing EXCEPT ![t] = IF @ = "stopping" THEN "terminating" ELSE "killing"]
    /\ UNCHANGED <<flagVars, childVars, nextId, pendingVars, callVars, wire, writers>>

(* A task is cancelled as its close() waits for the exit, be it the         *)
(* close() of a start() that failed: the rest of close() is left out, and  *)
(* _closed stays set.  Where close() awaits other tasks it goes on.        *)
CancelClose(t) ==
    /\ t \in Cancellable
    /\ closing[t] \in {"stopping", "terminating", "killing"}
    /\ closing' = [closing EXCEPT ![t] = "cancelled"]
    /\ UNCHANGED <<flagVars, childVars, nextId, pendingVars, callVars, wire, writers>>

(* Fault: close() leaves the pending requests to the watcher. *)
CloseReapOnly(t) ==
    /\ closing[t] \in {"stopping", "terminating", "killing"}
    /\ proc = "exited"
    /\ reader' = IF reader = "running" THEN "cancelled" ELSE reader
    /\ watcher' = "ended"
    /\ closing' = [closing EXCEPT ![t] = "closed"]
    /\ UNCHANGED <<flagVars, proc, nextId, pendingVars, callVars, wire, writers>>

(* The child was waited for: the pending requests are rejected, and the    *)
(* reader and the watcher are cancelled where they wait and do no more.    *)
CloseReap(t) ==
    /\ closing[t] \in {"stopping", "terminating", "killing"}
    /\ proc = "exited"
    /\ FailPending(FirstFailure("process"))
    /\ reader' = IF reader = "running" THEN "cancelled" ELSE reader
    /\ watcher' = "ended"
    /\ closing' = [closing EXCEPT ![t] = "closed"]
    /\ UNCHANGED <<flagVars, proc, nextId, callVars, wire, writers>>

-----------------------------------------------------------------------------
(* _request() *)

(* A call ends with an error.  Every exception but CancelledError takes    *)
(* the request out of _pending, and makes start() close the client.        *)
Reject(r, kind) ==
    /\ stage' = [stage EXCEPT ![r] = "settled"]
    /\ outcome' = [outcome EXCEPT ![r] = kind]
    /\ pending' = IF kind = "cancelled" THEN pending ELSE pending \ {id[r]}
    /\ IF r = Starter /\ kind # "cancelled"
       THEN BeginClose(r)
       ELSE UNCHANGED <<closed, closing>>

(* The lock is held: write the line, and drain at once or for a while. *)
WriteLine(r, rid, behind) ==
    /\ wire' = wire \cup {<<rid, r>>}
    /\ \/ stage' = [stage EXCEPT ![r] = "awaiting"] /\ writers' = behind
       \/ stage' = [stage EXCEPT ![r] = "draining"] /\ writers' = <<r>> \o behind

(* Fault: the next request gets the same ID. *)
IssueRequestSameId(r) ==
    /\ UNCHANGED nextId
    /\ id' = [id EXCEPT ![r] = nextId]
    /\ pending' = pending \cup {nextId}
    /\ future' = [future EXCEPT ![r] = "unset"]
    /\ \/ /\ writers = <<>>
          /\ WriteLine(r, nextId, <<>>)
       \/ /\ writers # <<>>
          /\ writers' = Append(writers, r)
          /\ stage' = [stage EXCEPT ![r] = "locking"]
          /\ UNCHANGED wire

(* The request is registered, then written when the lock is free.          *)
IssueRequest(r) ==
    /\ nextId' = nextId + 1
    /\ id' = [id EXCEPT ![r] = nextId]
    /\ pending' = pending \cup {nextId}
    /\ future' = [future EXCEPT ![r] = "unset"]
    /\ \/ /\ writers = <<>>
          /\ WriteLine(r, nextId, <<>>)
       \/ /\ writers # <<>>
          /\ writers' = Append(writers, r)
          /\ stage' = [stage EXCEPT ![r] = "locking"]
          /\ UNCHANGED wire

(* Fault: request() asks only whether start() was called. *)
RequestWhenStarted(r) ==
    /\ r \in Requesters
    /\ stage[r] = "idle"
    /\ started /\ ~closed
    /\ IssueRequest(r)
    /\ UNCHANGED <<flagVars, childVars, reply, outcome, closing>>

(* request() up to its first suspension. *)
Request(r) ==
    /\ r \in Requesters
    /\ stage[r] = "idle"
    /\ \/ /\ ~closed /\ started /\ initialized
          /\ IssueRequest(r)
          /\ UNCHANGED outcome
       \/ /\ closed \/ ~started \/ ~initialized
          /\ stage' = [stage EXCEPT ![r] = "settled"]
          /\ outcome' = [outcome EXCEPT ![r] = "state"]
          /\ UNCHANGED <<nextId, pendingVars, id, wire, writers>>
    /\ UNCHANGED <<flagVars, childVars, reply, closing>>

(* The write lock comes to the first in line, who finds the client closed  *)
(* or writes.                                                              *)
AcquireWrite(r) ==
    /\ stage[r] = "locking"
    /\ Head(writers) = r
    /\ \/ /\ closed
          /\ Reject(r, "state")
          /\ writers' = Tail(writers)
          /\ UNCHANGED wire
       \/ /\ ~closed
          /\ WriteLine(r, id[r], Tail(writers))
          /\ UNCHANGED <<closed, closing, pending, outcome>>
    /\ UNCHANGED <<started, initialized, failure, childVars, nextId, id, future, reply>>

(* drain() returns, or raises ConnectionResetError when the pipe is lost:  *)
(* the child closed it or is gone.  Only start() converts an OSError.      *)
Drained(r) ==
    /\ stage[r] = "draining"
    /\ writers' = Tail(writers)
    /\ \/ /\ stage' = [stage EXCEPT ![r] = "awaiting"]
          /\ UNCHANGED <<closed, closing, pending, outcome>>
       \/ Reject(r, IF r = Starter THEN "process" ELSE "os")
    /\ UNCHANGED <<started, initialized, failure, childVars, nextId, id, future, reply, wire>>

(* asyncio.wait returns and the call ends: a settled future is preferred   *)
(* to the end of the watcher.  For start() a response is the result of     *)
(* initialize, which may be refused: as an error or a malformed result, or *)
(* for its version, after it was stored.                                   *)
Awake(r) ==
    /\ stage[r] = "awaiting"
    /\ \/ /\ future[r] = "response"
          /\ stage' = [stage EXCEPT ![r] = "settled"]
          /\ outcome' = [outcome EXCEPT ![r] = "response"]
          /\ initialized' = (initialized \/ r = Starter)
          /\ UNCHANGED <<closed, closing, pending>>
       \/ /\ future[r] = "response"
          /\ r = Starter
          /\ Reject(r, "protocol")
          /\ initialized' \in {FALSE, TRUE}
       \/ /\ future[r] \in {"protocol", "process"}
          /\ Reject(r, future[r])
          /\ UNCHANGED initialized
       \/ /\ future[r] = "unset"
          /\ watcher = "ended"
          /\ Reject(r, FirstFailure("process"))
          /\ UNCHANGED initialized
    /\ UNCHANGED <<started, failure, childVars, nextId, id, future, reply, wire, writers>>

(* Fault: asyncio.wait has no timeout. *)
RequestTimeoutAtExit(r) ==
    /\ stage[r] = "awaiting"
    /\ future[r] = "unset"
    /\ watcher # "ended"
    /\ proc = "exited"
    /\ failure' = FirstFailure("process")
    /\ Reject(r, "process")
    /\ UNCHANGED <<started, initialized, childVars, nextId, id, future, reply, wire, writers>>

(* The timeout of asyncio.wait, when neither is done as the task runs. *)
RequestTimeout(r) ==
    /\ stage[r] = "awaiting"
    /\ future[r] = "unset"
    /\ watcher # "ended"
    /\ \/ /\ proc = "exited"
          /\ failure' = FirstFailure("process")
          /\ Reject(r, "process")
       \/ /\ proc # "exited"
          /\ Reject(r, "timeout")
          /\ UNCHANGED failure
    /\ UNCHANGED <<started, initialized, childVars, nextId, id, future, reply, wire, writers>>

(* The task of a caller is cancelled.  A start() that is leaves its child   *)
(* running and the client open.                                            *)
CancelCall(r) ==
    /\ r \in Cancellable
    /\ stage[r] \in InFlight
    /\ Reject(r, "cancelled")
    /\ writers' = Without(writers, r)
    /\ UNCHANGED <<started, initialized, failure, childVars, nextId, id, future, reply, wire>>

-----------------------------------------------------------------------------
(* start() *)

(* start() up to the suspension in create_subprocess_exec.  Without a      *)
(* command to launch it fails and does not close the client.               *)
Start ==
    /\ stage[Starter] = "idle"
    /\ \/ /\ stage' = [stage EXCEPT ![Starter] = "settled"]
          /\ outcome' = [outcome EXCEPT ![Starter] = IF closed THEN "state" ELSE "config"]
       \/ /\ ~closed
          /\ stage' = [stage EXCEPT ![Starter] = "spawning"]
          /\ UNCHANGED outcome
    /\ UNCHANGED <<flagVars, childVars, nextId, pendingVars, id, reply, wire, writers, closing>>

(* The child runs, the tasks that listen to it are made, and initialize is *)
(* requested.  If the client was closed meanwhile, _write raises, and the  *)
(* close() that start() calls returns at once.                             *)
Spawned ==
    /\ stage[Starter] = "spawning"
    /\ proc' = "running" /\ reader' = "running" /\ watcher' = "running"
    /\ started' = TRUE
    /\ \/ /\ ~closed
          /\ IssueRequest(Starter)
          /\ UNCHANGED <<outcome, closing>>
       \/ /\ closed
          /\ nextId' = nextId + 1
          /\ id' = [id EXCEPT ![Starter] = nextId]
          /\ stage' = [stage EXCEPT ![Starter] = "settled"]
          /\ outcome' = [outcome EXCEPT ![Starter] = "state"]
          /\ closing' = [closing EXCEPT ![Starter] = "closed"]
          /\ UNCHANGED <<pendingVars, wire, writers>>
    /\ UNCHANGED <<closed, initialized, failure, reply>>

(* The launch fails with OSError. *)
SpawnFails ==
    /\ stage[Starter] = "spawning"
    /\ Reject(Starter, "process")
    /\ UNCHANGED <<started, initialized, failure, childVars, nextId, id, future, reply, wire,
                   writers>>

(* start() is cancelled during the launch, which takes its child back. *)
SpawnCancelled ==
    /\ Starter \in Cancellable
    /\ stage[Starter] = "spawning"
    /\ Reject(Starter, "cancelled")
    /\ UNCHANGED <<started, initialized, failure, childVars, nextId, id, future, reply, wire,
                   writers>>

-----------------------------------------------------------------------------
(* The child and the tasks that listen to it *)

ProcessExits ==
    /\ proc = "running"
    /\ proc' = "exited"
    /\ UNCHANGED <<flagVars, reader, watcher, nextId, pendingVars, callVars, wire, writers,
                   closing>>

(* The reader gets a response to a request that was written: to a pending  *)
(* one, or a late or repeated one, which is dropped.                       *)
ReadResponse ==
    /\ reader = "running"
    /\ \E sent \in wire :
          LET answered == {r \in Callers : /\ id[r] = sent[1]
                                           /\ sent[1] \in pending
                                           /\ future[r] = "unset"}
          IN  /\ future' = [r \in Callers |->
                              IF r \in answered THEN "response" ELSE future[r]]
              /\ reply' = [r \in Callers |-> IF r \in answered THEN sent[2] ELSE reply[r]]
              /\ pending' = pending \ {sent[1]}
    /\ UNCHANGED <<flagVars, childVars, nextId, id, wire, writers, stage, outcome, closing>>

(* The reader gets a line that is no valid message: it fails and ends. *)
ReadMalformed ==
    /\ reader = "running"
    /\ reader' = "failed"
    /\ failure' = FirstFailure("protocol")
    /\ FailPending("protocol")
    /\ UNCHANGED <<started, closed, initialized, proc, watcher, nextId, callVars, wire, writers,
                   closing>>

(* The reader gets the end of the stream: it ends and tells nobody. *)
ReadEof ==
    /\ reader = "running"
    /\ reader' = "eof"
    /\ UNCHANGED <<flagVars, proc, watcher, nextId, pendingVars, callVars, wire, writers,
                   closing>>

(* The watcher learns of the exit, and leaves the rest to close() if that  *)
(* has been called.                                                        *)
WatchExit ==
    /\ watcher = "running"
    /\ proc = "exited"
    /\ watcher' = "ended"
    /\ \/ closed /\ UNCHANGED <<failure, pendingVars>>
       \/ ~closed /\ failure' = FirstFailure("process") /\ FailPending(failure')
    /\ UNCHANGED <<started, closed, initialized, proc, reader, nextId, callVars, wire, writers,
                   closing>>

-----------------------------------------------------------------------------
CallerStep(r) == AcquireWrite(r) \/ Awake(r) \/ RequestTimeout(r)

CloserStep(t) == CloseEscalate(t) \/ CloseReap(t)

ClientNext ==
    \/ \E r \in Callers : Request(r) \/ CallerStep(r) \/ Drained(r) \/ CancelCall(r)
    \/ Start \/ Spawned \/ SpawnFails \/ SpawnCancelled
    \/ \E t \in Closers \cup {Starter} : Close(t) \/ CloserStep(t) \/ CancelClose(t)
    \/ ProcessExits \/ ReadResponse \/ ReadMalformed \/ ReadEof \/ WatchExit

ClientSpec == ClientInit /\ [][ClientNext]_clientVars

(* SIGKILL ends a process, and a pipe to a process that is gone is lost.   *)
Killed == (\E t \in DOMAIN closing : closing[t] = "killing") /\ ProcessExits
DrainedByExit(r) == proc = "exited" /\ Drained(r)

(* The event loop runs every task that is ready and fires every timer.     *)
(* The child owes nothing, not even to read its stdin.                     *)
FairClientSpec ==
    /\ ClientSpec
    /\ \A r \in Callers : WF_clientVars(CallerStep(r)) /\ WF_clientVars(DrainedByExit(r))
    /\ \A t \in Closers \cup {Starter} : WF_clientVars(CloserStep(t))
    /\ WF_clientVars(Spawned \/ SpawnFails)
    /\ WF_clientVars(WatchExit)
    /\ WF_clientVars(Killed)

-----------------------------------------------------------------------------
FlagTypeOK ==
    /\ {started, closed, initialized} \subseteq BOOLEAN
    /\ failure \in {None, "protocol", "process"}
    /\ proc \in {"none", "running", "exited"}
    /\ reader \in {"none", "running", "eof", "failed", "cancelled"}
    /\ watcher \in {"none", "running", "ended"}
    /\ closing \in [Closers \cup {Starter} ->
                      {"idle", "stopping", "terminating", "killing", "closed", "cancelled"}]

RequestTypeOK ==
    /\ nextId \in Nat \ {0}
    /\ pending \subseteq 1..(nextId - 1)
    /\ id \in [Callers -> 0..(nextId - 1)]
    /\ future \in [Callers -> {"none", "unset", "response", "protocol", "process"}]
    /\ reply \in [Callers -> Callers \cup {None}]
    /\ wire \subseteq (Nat \X Callers)
    /\ stage \in [Callers -> InFlight \cup {"idle", "spawning", "settled"}]
    /\ outcome \in [Callers -> {None, "response", "protocol", "process", "state", "os",
                                "timeout", "cancelled", "config"}]

LineTypeOK == writers \in Seq(Callers) /\ Distinct(writers)

(* The types of the client's variables. *)
ClientTypeOK == FlagTypeOK /\ RequestTypeOK /\ LineTypeOK

(* A caller gets the answer to its own request, in whatever order answers  *)
(* come, however late, and however often they are repeated.  One that      *)
(* waits for a future that is unset is in _pending, so the reader and      *)
(* every _fail_pending reach it: clearing _pending forgets no waiter,      *)
(* whoever cleared it first.  And a call that ended leaves nothing in      *)
(* _pending ("removes the pending request so a late response cannot        *)
(* satisfy another request"), except one whose task was cancelled.         *)
Correlation ==
    \A r \in Callers :
        /\ future[r] = "response" => reply[r] = r
        /\ stage[r] \in InFlight /\ future[r] = "unset" => id[r] \in pending
        /\ stage[r] = "settled" /\ id[r] \in pending => outcome[r] = "cancelled"

(* Nothing but initialize is written before the child accepted it. *)
InitializeFirst ==
    \A sent \in wire : sent[2] # Starter => /\ outcome[Starter] = "response"
                                            /\ <<1, Starter>> \in wire

(* start() was launching the child as the client was closed: close() sees  *)
(* no child yet, and the close() of start() returns at once.               *)
StartOvertaken ==
    closed /\ (stage[Starter] = "spawning" \/ (started /\ outcome[Starter] = "state"))

StartFailed == stage[Starter] = "settled" /\ outcome[Starter] \notin {"response", "cancelled"}

(* "If launch or initialization fails, it terminates and reaps the child", *)
(* and close() does so after a start() that was cancelled.  When the       *)
(* client is closed, or start() failed, the child is gone, the reader and  *)
(* the watcher have ended, and every request that still waits has its      *)
(* failure: whichever of several close() did it, and whatever failed       *)
(* before.  The client is closed then, unless start() found no command to  *)
(* launch.  Excepted are a start() that was overtaken, and a close() that  *)
(* is under way or was cut short by a cancellation: no later close() does  *)
(* what that one left.                                                     *)
ClosedMeansQuiet ==
    /\ closed \/ StartFailed
    /\ ~StartOvertaken
    /\ \A t \in DOMAIN closing : closing[t] \in {"idle", "closed"}
    => /\ closed \/ outcome[Starter] = "config"
       /\ "running" \notin {proc, reader, watcher}
       /\ \A r \in Callers : stage[r] = "awaiting" => future[r] # "unset"

(* The child does not read its stdin, with a request half written. *)
Stalled == proc = "running" /\ \E r \in Callers : stage[r] = "draining"

(* Every close() returns, whatever the child does and whoever else closes, *)
(* or raises as its task was cancelled.                                    *)
(* "Initialization and ordinary requests have configurable timeouts":      *)
(* every request that is made ends, unless a child that goes on running    *)
(* does not read its stdin; the timeout does not cover the write.          *)
ClientCallsEnd ==
    /\ \A t \in Closers \cup {Starter} :
          closing[t] # "idle" ~> closing[t] \in {"closed", "cancelled"}
    /\ <>[]Stalled \/ \A r \in Callers : stage[r] \in InFlight ~> stage[r] = "settled"

=============================================================================
