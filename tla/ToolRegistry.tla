---------------------------- MODULE ToolRegistry ----------------------------
(***************************************************************************)
(* astraship.tools.registry.ToolRegistry: guarded execution of tool calls, *)
(* alone (execute) or in batches (execute_many), over the shared/exclusive *)
(* gate of ExecutionGate.  A step is what a task does between two          *)
(* suspensions.  A call runs once; its outcome is the code of the          *)
(* ToolResult that execute returns, "success" included, or the way in      *)
(* which execute raises.                                                   *)
(*                                                                         *)
(* Tools are the environment.  A body may return a JSON value or another   *)
(* one, raise, hang until the timeout, or swallow the CancelledError it    *)
(* gets; a body that awaits asyncio.to_thread (ThreadedCalls: the built-in *)
(* file tools) starts a worker thread that cannot be interrupted.          *)
(***************************************************************************)
EXTENDS ExecutionGate

CONSTANTS
    Name,           \* Name[c]: the tool a call names
    Verdicts,       \* Verdicts[c]: what validate_arguments may do for the call
    ThreadedCalls,  \* the calls whose body awaits a worker thread
    DirectCalls,    \* the calls made through execute() by a task of their own
    Batches,        \* the tasks that call execute_many()
    Program,        \* Program[b]: the calls of a batch, in order of submission
    Preregistered,  \* the tools registered before the first call
    SlowObserved    \* the calls on whose results the observer may suspend

ResultCodes == {"success", "tool_not_found", "invalid_arguments", "timeout",
                "execution_error", "invalid_result"}

Tools == {Name[c] : c \in Calls}

(* A call stands for one invocation, so it is made in one place.           *)
ASSUME RegistryAssumption ==
    /\ Name \in [Calls -> Tools]
    /\ Verdicts \in [Calls -> SUBSET {"valid", "invalid", "raises"}]
    /\ ThreadedCalls \subseteq Calls
    /\ DirectCalls \subseteq Calls
    /\ \A b \in Batches : Queued(Program[b]) \cap DirectCalls = {}
    /\ \A b, d \in Batches : b # d => Queued(Program[b]) \cap Queued(Program[d]) = {}
    /\ Program \in [Batches -> Seq(Calls)]
    /\ Preregistered \subseteq Tools
    /\ SlowObserved \subseteq Calls

VARIABLES
    definitions,  \* the names in _definitions
    stage,        \* how far execute() is for a call
    outcome,      \* how execute() ended for a call, or is about to end
    observed,     \* the results the observer was called with, per call
    timedOut,     \* the calls whose asyncio.timeout has expired in the body
    cancelDue,    \* the calls whose task has a CancelledError due, not in the gate
    worker,       \* the worker thread of a call
    batch         \* the state of execute_many() for each batch

callVars == <<stage, outcome, observed, timedOut, cancelDue>>
registryVars == <<gateVars, definitions, callVars, worker, batch>>

Stages == {"idle", "spawned", "waiting", "body", "observing", "done"}

IdleBatch == [pc |-> "idle", from |-> 1, upto |-> 1, cancel |-> FALSE, results |-> <<>>]

RegistryInit ==
    /\ GateInit
    /\ definitions = Preregistered
    /\ stage = [c \in Calls |-> "idle"]
    /\ outcome = [c \in Calls |-> "none"]
    /\ observed = [c \in Calls |-> <<>>]
    /\ timedOut = {}
    /\ cancelDue = {}
    /\ worker = [c \in Calls |-> "none"]
    /\ batch = [b \in Batches |-> IdleBatch]

(* register: a name that is taken is refused without effect. *)
Register(t) ==
    /\ t \in Tools \ definitions
    /\ definitions' = definitions \cup {t}
    /\ UNCHANGED <<gateVars, callVars, worker, batch>>

-----------------------------------------------------------------------------
(* The parts of execute() *)

(* _observe, up to its suspension if the observer is asynchronous. *)
Observe(c, code) ==
    /\ outcome' = [outcome EXCEPT ![c] = code]
    /\ observed' = [observed EXCEPT ![c] = Append(@, code)]
    /\ \E next \in {"done"} \cup (IF c \in SlowObserved THEN {"observing"} ELSE {}) :
          stage' = [stage EXCEPT ![c] = next]

(* execute() raises: "cancelled" for CancelledError, "raised" for the rest. *)
Raise(c, how) ==
    /\ outcome' = [outcome EXCEPT ![c] = how]
    /\ stage' = [stage EXCEPT ![c] = "done"]
    /\ UNCHANGED observed

(* The task is past _acquire: the timeout starts and the body with it. *)
BeginBody(c) ==
    /\ stage' = [stage EXCEPT ![c] = "body"]
    /\ worker' = [worker EXCEPT ![c] = IF c \in ThreadedCalls THEN "queued" ELSE @]

(* After a step of the gate's _acquire for c. *)
BodyIfEntered(c) ==
    \/ c \in inside' /\ BeginBody(c)
    \/ c \notin inside' /\ stage' = [stage EXCEPT ![c] = "waiting"] /\ UNCHANGED worker

(* execute() up to its first suspension. *)
Execute(c) ==
    /\ UNCHANGED <<definitions, timedOut, cancelDue>>
    /\ \/ /\ Name[c] \notin definitions
          /\ Observe(c, "tool_not_found")
          /\ UNCHANGED <<gateVars, worker>>
       \/ /\ Name[c] \in definitions
          /\ "invalid" \in Verdicts[c]
          /\ Observe(c, "invalid_arguments")
          /\ UNCHANGED <<gateVars, worker>>
       \/ /\ Name[c] \in definitions
          /\ "raises" \in Verdicts[c]
          /\ Raise(c, "raised")
          /\ UNCHANGED <<gateVars, worker>>
       \/ /\ Name[c] \in definitions
          /\ "valid" \in Verdicts[c]
          /\ Arrive(c)
          /\ BodyIfEntered(c)
          /\ UNCHANGED <<outcome, observed>>

(* A task of its own calls execute(). *)
ExecuteDirect(c) ==
    /\ c \in DirectCalls
    /\ stage[c] = "idle"
    /\ Execute(c)
    /\ UNCHANGED batch

(* A waiter of the gate runs again. *)
Resume(c) ==
    /\ Recheck(c)
    /\ BodyIfEntered(c)
    /\ UNCHANGED <<definitions, outcome, observed, timedOut, cancelDue, batch>>

AbandonGate(c) ==
    /\ Abandon(c)
    /\ Raise(c, "cancelled")
    /\ UNCHANGED <<definitions, timedOut, cancelDue, worker, batch>>

(* asyncio.timeout expires: it cancels the task, once. *)
Deadline(c) ==
    /\ stage[c] = "body"
    /\ c \notin timedOut
    /\ timedOut' = timedOut \cup {c}
    /\ UNCHANGED <<gateVars, definitions, stage, outcome, observed, cancelDue, worker, batch>>

(* The interrupts of a call are delivered; none is due any more. *)
Interrupted(c) ==
    /\ timedOut' = timedOut \ {c}
    /\ cancelDue' = cancelDue \ {c}

(* The body ends by itself, or in spite of the CancelledError it got.  A   *)
(* result nested too deeply raises RecursionError in _normalize_json,      *)
(* which is neither a TypeError nor a ValueError.                          *)
BodyEnds(c) ==
    /\ stage[c] = "body"
    /\ IF c \in ThreadedCalls
       THEN worker[c] = "finished" /\ c \notin timedOut \cup cancelDue
       ELSE TRUE
    /\ Release(c)
    /\ Interrupted(c)
    /\ \/ \E code \in {"success", "execution_error", "invalid_result", "timeout"} :
              Observe(c, code)
       \/ \E how \in {"raised", "cancelled"} : c \notin ThreadedCalls /\ Raise(c, how)
    /\ UNCHANGED <<definitions, worker, batch>>

(* Fault: a body that is interrupted does not leave the gate. *)
BodyInterruptedInside(c) ==
    /\ stage[c] = "body"
    /\ c \in timedOut \cup cancelDue
    /\ Interrupted(c)
    /\ IF c \in cancelDue THEN Raise(c, "cancelled") ELSE Observe(c, "timeout")
    /\ UNCHANGED <<gateVars, definitions, worker, batch>>

(* Fault: the worker thread is shielded from the cancellation. *)
BodyInterruptedShielded(c) ==
    /\ stage[c] = "body"
    /\ c \in timedOut \cup cancelDue
    /\ Release(c)
    /\ Interrupted(c)
    /\ IF c \in cancelDue THEN Raise(c, "cancelled") ELSE Observe(c, "timeout")
    /\ UNCHANGED <<definitions, worker, batch>>

(* The CancelledError goes through the body.  asyncio.timeout turns it     *)
(* into TimeoutError only if nobody else asked for the cancellation.  A    *)
(* worker that has not started is cancelled with the future; a running one *)
(* goes on.                                                                *)
BodyInterrupted(c) ==
    /\ stage[c] = "body"
    /\ c \in timedOut \cup cancelDue
    /\ Release(c)
    /\ Interrupted(c)
    /\ IF c \in cancelDue THEN Raise(c, "cancelled") ELSE Observe(c, "timeout")
    /\ worker' = [worker EXCEPT ![c] = IF @ = "queued" THEN "none" ELSE @]
    /\ UNCHANGED <<definitions, batch>>

(* The worker thread runs the blocking function to its end. *)
WorkerStep(c) ==
    /\ \/ worker[c] = "queued" /\ worker' = [worker EXCEPT ![c] = "running"]
       \/ worker[c] = "running" /\ worker' = [worker EXCEPT ![c] = "finished"]
    /\ UNCHANGED <<gateVars, definitions, callVars, batch>>

(* Fault: what the observer raises becomes the result. *)
ObserverEndsLoudly(c) ==
    /\ stage[c] = "observing"
    /\ cancelDue' = cancelDue \ {c}
    /\ Raise(c, IF c \in cancelDue THEN "cancelled" ELSE "execution_error")
    /\ UNCHANGED <<gateVars, definitions, timedOut, worker, batch>>

(* An asynchronous observer ends, whatever it raises, or is cancelled. *)
ObserverEnds(c) ==
    /\ stage[c] = "observing"
    /\ cancelDue' = cancelDue \ {c}
    /\ IF c \in cancelDue
       THEN Raise(c, "cancelled")
       ELSE stage' = [stage EXCEPT ![c] = "done"] /\ UNCHANGED <<outcome, observed>>
    /\ UNCHANGED <<gateVars, definitions, timedOut, worker, batch>>

(* The tasks that run the given calls are cancelled. *)
CancelTasks(calls) ==
    /\ cancelled' = cancelled \cup (calls \cap Waiters)
    /\ cancelDue' = cancelDue \cup
                      {c \in calls : stage[c] \in {"spawned", "body", "observing"}}
    /\ UNCHANGED <<waiting, activeShared, activeExclusive, notified, inside,
                   definitions, stage, outcome, observed, timedOut, worker>>

CancelDirect(c) ==
    /\ c \in DirectCalls
    /\ stage[c] \in {"waiting", "body", "observing"}
    /\ CancelTasks({c})
    /\ UNCHANGED batch

-----------------------------------------------------------------------------
(* execute_many() *)

(* The calls of a batch from one index up to but not including another. *)
Slice(b, from, upto) == {Program[b][i] : i \in from..(upto - 1)}

Group(b) == Slice(b, batch[b].from, batch[b].upto)

Single(b) == Program[b][batch[b].upto]

(* The loop scans the calls for the next one whose tool is known to be     *)
(* exclusive now; a tool that is not registered counts as safe.            *)
NextExclusive(b, from) ==
    CHOOSE j \in from..(Len(Program[b]) + 1) :
        /\ j <= Len(Program[b]) =>
              Name[Program[b][j]] \in definitions /\ Program[b][j] \notin SafeCalls
        /\ \A i \in from..(j - 1) :
              Name[Program[b][i]] \in definitions => Program[b][i] \in SafeCalls

(* The results of all calls before an index are known: gather the safe     *)
(* calls that follow, or await the exclusive one, or return.               *)
Proceed(b, from, results) ==
    LET upto == NextExclusive(b, from)
        At(pc) == batch' = [batch EXCEPT ![b] =
            [@ EXCEPT !.pc = pc, !.from = from, !.upto = upto, !.results = results]]
    IN  \/ /\ from < upto
           /\ At("group")
           /\ stage' = [c \in Calls |->
                          IF c \in Slice(b, from, upto) THEN "spawned" ELSE stage[c]]
           /\ UNCHANGED <<gateVars, definitions, outcome, observed, timedOut, cancelDue,
                          worker>>
        \/ /\ from = upto
           /\ upto <= Len(Program[b])
           /\ At("single")
           /\ Execute(Program[b][upto])
        \/ /\ from = Len(Program[b]) + 1
           /\ At("returned")
           /\ UNCHANGED <<gateVars, definitions, callVars, worker>>

(* execute_many() is called; duplicate call IDs raise before any work. *)
ExecuteMany(b) ==
    /\ batch[b].pc = "idle"
    /\ \/ /\ Distinct(Program[b])
          /\ Proceed(b, 1, <<>>)
       \/ /\ ~Distinct(Program[b])
          /\ batch' = [batch EXCEPT ![b].pc = "rejected"]
          /\ UNCHANGED <<gateVars, definitions, callVars, worker>>

(* gather() made its tasks in order, and they start in that order.  One    *)
(* that was cancelled first never runs.                                    *)
StartChild(b) ==
    /\ \E i \in DOMAIN Program[b] :
        LET c == Program[b][i] IN
        /\ stage[c] = "spawned"
        /\ \A j \in 1..(i - 1) : stage[Program[b][j]] # "spawned"
        /\ \/ c \notin cancelDue /\ Execute(c)
           \/ /\ c \in cancelDue
              /\ cancelDue' = cancelDue \ {c}
              /\ Raise(c, "cancelled")
              /\ UNCHANGED <<gateVars, definitions, timedOut, worker>>
    /\ UNCHANGED batch

EndBatch(b, pc) ==
    /\ batch' = [batch EXCEPT ![b].pc = pc]
    /\ UNCHANGED <<gateVars, definitions, callVars, worker>>

(* Fault: only errors are noticed, not the cancellation of a call. *)
GroupRaisesErrors(b) ==
    /\ batch[b].pc = "group"
    /\ \E c \in Group(b) : stage[c] = "done" /\ outcome[c] = "raised"
    /\ EndBatch(b, "raised")

(* A call of the gathered group raises: gather() raises at once and leaves *)
(* the others alone.                                                       *)
GroupRaises(b) ==
    /\ batch[b].pc = "group"
    /\ \E c \in Group(b) :
          /\ stage[c] = "done"
          /\ outcome[c] \notin ResultCodes
          /\ EndBatch(b, outcome[c])

(* All calls of the group returned. *)
GroupReturns(b) ==
    LET results == batch[b].results \o
                     [i \in 1..(batch[b].upto - batch[b].from) |->
                        outcome[Program[b][batch[b].from + i - 1]]]
    IN  /\ batch[b].pc = "group"
        /\ \A c \in Group(b) : stage[c] = "done" /\ outcome[c] \in ResultCodes
        /\ \/ /\ batch[b].cancel
              /\ EndBatch(b, "cancelled")
           \/ /\ ~batch[b].cancel
              /\ batch[b].upto <= Len(Program[b])
              /\ batch' = [batch EXCEPT ![b].pc = "single", ![b].results = results]
              /\ Execute(Single(b))
           \/ /\ ~batch[b].cancel
              /\ batch[b].upto = Len(Program[b]) + 1
              /\ batch' = [batch EXCEPT ![b].pc = "returned", ![b].results = results]
              /\ UNCHANGED <<gateVars, definitions, callVars, worker>>

(* Fault: the result of the exclusive call is not kept. *)
SingleEndsForgotten(b) ==
    /\ batch[b].pc = "single"
    /\ stage[Single(b)] = "done"
    /\ \/ /\ outcome[Single(b)] \in ResultCodes
          /\ Proceed(b, batch[b].upto + 1, batch[b].results)
       \/ /\ outcome[Single(b)] \notin ResultCodes
          /\ EndBatch(b, outcome[Single(b)])

(* The exclusive call that the batch awaits ended. *)
SingleEnds(b) ==
    /\ batch[b].pc = "single"
    /\ stage[Single(b)] = "done"
    /\ \/ /\ outcome[Single(b)] \in ResultCodes
          /\ Proceed(b, batch[b].upto + 1, Append(batch[b].results, outcome[Single(b)]))
       \/ /\ outcome[Single(b)] \notin ResultCodes
          /\ EndBatch(b, outcome[Single(b)])

(* The task of the batch is cancelled: so are all tasks of gather(), or    *)
(* the call it awaits itself.                                              *)
CancelBatch(b) ==
    \/ /\ batch[b].pc = "group"
       /\ ~batch[b].cancel
       /\ batch' = [batch EXCEPT ![b].cancel = TRUE]
       /\ CancelTasks(Group(b))
    \/ /\ batch[b].pc = "single"
       /\ stage[Single(b)] # "done"
       /\ CancelTasks({Single(b)})
       /\ UNCHANGED batch

-----------------------------------------------------------------------------
CallStep(c) ==
    Resume(c) \/ AbandonGate(c) \/ BodyInterrupted(c) \/ ObserverEnds(c)

BatchStep(b) == StartChild(b) \/ GroupRaises(b) \/ GroupReturns(b) \/ SingleEnds(b)

(* All but what the body of a tool and its worker thread do by themselves. *)
TaskNext ==
    \/ \E t \in Tools : Register(t)
    \/ \E c \in Calls : ExecuteDirect(c) \/ CallStep(c) \/ Deadline(c) \/ CancelDirect(c)
    \/ \E b \in Batches : ExecuteMany(b) \/ BatchStep(b) \/ CancelBatch(b)

(* Bodies without a worker thread; the steps of a thread come with the     *)
(* function that it runs (FileTools).                                      *)
RegistryNext == TaskNext \/ \E c \in Calls : BodyEnds(c)

RegistrySpec == RegistryInit /\ [][RegistryNext]_registryVars

-----------------------------------------------------------------------------
(* The types of the registry's variables. *)
CallTypeOK ==
    /\ Preregistered \subseteq definitions /\ definitions \subseteq Tools
    /\ stage \in [Calls -> Stages]
    /\ outcome \in [Calls -> ResultCodes \cup {"none", "raised", "cancelled"}]
    /\ observed \in [Calls -> Seq(ResultCodes)]
    /\ timedOut \subseteq Calls
    /\ cancelDue \subseteq Calls
    /\ worker \in [Calls -> {"none", "queued", "running", "finished"}]

BatchTypeOK ==
    batch \in [Batches ->
        [pc : {"idle", "group", "single", "returned", "rejected", "raised", "cancelled"},
         from : Nat, upto : Nat, cancel : BOOLEAN, results : Seq(ResultCodes)]]

RegistryTypeOK == GateTypeOK /\ CallTypeOK /\ BatchTypeOK

(* The gate is held by the calls in their body and awaited by the calls at *)
(* the gate, so no end of a body, timeout, cancellation or failed batch    *)
(* leaves a slot behind, and the gate is free once all calls are done.     *)
NoSlotLeak ==
    /\ inside = {c \in Calls : stage[c] = "body"}
    /\ Waiters = {c \in Calls : stage[c] = "waiting"}
    /\ SlotAccounting

(* Calls that went through the gate and those that were refused before it. *)
PastBody(c) == stage[c] \in {"observing", "done"}

(* An exclusive call of a batch is a barrier: it runs after every earlier  *)
(* call of the batch is out of its body, and before any later one is in.   *)
(* It holds even when a tool is registered while the batch runs, which     *)
(* execute_many then treats as safe.                                       *)
BatchBarrier ==
    \A b \in Batches : \A i, j \in DOMAIN Program[b] :
        (i < j /\ {Program[b][i], Program[b][j]} \ SafeCalls # {})
            => (Program[b][j] \in inside => PastBody(Program[b][i]))

(* A batch that returns has the results of all its calls, in the order of  *)
(* submission, and none of them is still running.                          *)
ResultsInOrder ==
    \A b \in Batches : batch[b].pc = "returned" =>
        /\ batch[b].results = [i \in DOMAIN Program[b] |-> outcome[Program[b][i]]]
        /\ \A i \in DOMAIN Program[b] : stage[Program[b][i]] = "done"

(* The observer gets the final result of a call once: the result that      *)
(* execute() returns is the one observed, and a call that raises was not   *)
(* observed unless the cancellation came while the observer ran.           *)
ObservedOnce ==
    \A c \in Calls :
        /\ Len(observed[c]) <= 1
        /\ outcome[c] \in ResultCodes => observed[c] = <<outcome[c]>>
        /\ outcome[c] = "raised" => observed[c] = <<>>

(* Every call that is made ends, and so does every batch, in spite of      *)
(* tools that hang: nothing waits for ever at the gate or in gather().     *)
CallsEnd ==
    /\ \A c \in Calls : stage[c] # "idle" ~> stage[c] = "done"
    /\ \A b \in Batches : batch[b].pc \in {"group", "single"}
                              ~> batch[b].pc \notin {"group", "single"}

=============================================================================
