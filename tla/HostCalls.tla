----------------------------- MODULE HostCalls -----------------------------
(***************************************************************************)
(* The reverse half of astraship.kernel.client.FelixClient: requests that  *)
(* the child sends to the host, each handled by a task of its own, with    *)
(* cancellation, duplicate IDs, the write lock shared with the forward     *)
(* requests, and the part of close() that cancels and awaits the tasks.    *)
(* A step is what a task does between two suspensions.                     *)
(*                                                                         *)
(* Handlers are the environment: they end in any of HandlerResults, which  *)
(* may include the ways that escape the error mapping, and may swallow the *)
(* CancelledError they get.                                                *)
(***************************************************************************)
EXTENDS Queues, FiniteSets

CONSTANTS
    Requests,        \* the requests that the child sends, once each
    Ids,             \* JSON-RPC request IDs
    IdOf,            \* IdOf[t]: the ID of a request; several may share one
    Known, Unknown,  \* the requests whose method may have a handler, or none
    HandlerResults,  \* how handlers may end
    Outsiders,       \* forward requests, each written once under the same lock
    None

(* What the child may receive.  "result" stands for the response with the  *)
(* handler's result, the others for the error codes -32600, -32601,        *)
(* -32602, -32603 and -32800.                                              *)
Answers == {"result", "invalid_request", "method_not_found", "invalid_params",
            "internal_error", "cancelled"}

(* A handler returns a value, one that JSON cannot express, or one with a  *)
(* lone surrogate, which JSON can and UTF-8 cannot; raises                 *)
(* InvalidRequestParams, another exception or CancelledError; or raises    *)
(* before it returns an awaitable.                                         *)
AllHandlerResults == {"result", "unserializable", "unencodable", "invalid_params",
                      "exception", "cancelled", "raises_at_once"}

ASSUME HostAssumption ==
    /\ IdOf \in [Requests -> Ids]
    /\ Known \cup Unknown = Requests
    /\ HandlerResults \subseteq AllHandlerResults
    /\ Requests \cap Outsiders = {}
    /\ None \notin Requests

VARIABLES
    serverTasks,     \* _server_tasks: the request whose task an ID has
    executionTasks,  \* _execution_tasks: the request whose execution an ID has
    responseTasks,   \* _response_tasks: duplicates whose refusal is not done
    duplicates,      \* the requests that came with an ID in use: their tasks refuse them
    cancelledIds,    \* _cancelled_server_requests
    stage,           \* how far the task of a request, or a forward write, is
    execution,       \* the task of the handler
    answer,          \* what a task is to write, as far as it knows
    failedTasks,     \* the tasks that ended with an exception
    killed,          \* the tasks that have a CancelledError due from close()
    writers,         \* the tasks at the write lock, its holder first
    sent,            \* the answers the child received to each request
    asked,           \* requests cancelled by the child before their answer
    failure,         \* a failed task made the client fail its pending requests
    lost,            \* the pipe to the child is lost
    closing,         \* how far close() is
    joined           \* the tasks that close() cancels and awaits

tableVars == <<serverTasks, executionTasks, responseTasks, cancelledIds>>
taskVars == <<stage, execution, answer, failedTasks, killed>>
hostVars ==
    <<tableVars, duplicates, taskVars, writers, sent, asked, failure, lost, closing, joined>>

Tasks == Requests \cup Outsiders

closed == closing # "open"

Over == {"done", "reaped"}

HostInit ==
    /\ serverTasks = [i \in Ids |-> None]
    /\ executionTasks = [i \in Ids |-> None]
    /\ responseTasks = {}
    /\ duplicates = {}
    /\ cancelledIds = {}
    /\ stage = [t \in Tasks |-> "unsent"]
    /\ execution = [t \in Requests |-> "none"]
    /\ answer = [t \in Tasks |-> "none"]
    /\ failedTasks = {}
    /\ killed = {}
    /\ writers = <<>>
    /\ sent = [t \in Requests |-> <<>>]
    /\ asked = {}
    /\ failure = FALSE
    /\ lost = FALSE
    /\ closing = "open"
    /\ joined = {}

-----------------------------------------------------------------------------
(* Parts of the tasks *)

(* The task of a request ends; the `finally' clause forgets its execution. *)
Finish(t, fails) ==
    /\ stage' = [stage EXCEPT ![t] = "done"]
    /\ failedTasks' = IF fails THEN failedTasks \cup {t} ELSE failedTasks
    /\ executionTasks' = [i \in Ids |-> IF executionTasks[i] = t THEN None
                                        ELSE executionTasks[i]]

(* The definitions marked `Fault' are mistakes that the code could make    *)
(* and does not; they are no part of the specification.                    *)
(* Fault: a cancellation that comes after the handler ended is ignored. *)
FinalAnswerUnchecked(t, what) == what

(* What is written in the end: a cancelled request gets nothing else.      *)
FinalAnswer(t, what) ==
    IF what # "invalid_request" /\ t \in Requests /\ IdOf[t] \in cancelledIds
    THEN "cancelled" ELSE what

(* Under the lock: _require_stdin refuses when the client is closed, and   *)
(* encoding or draining may fail; else the line is out, and drain()        *)
(* returns at once or after a while.                                       *)
WriteOut(t, what, behind) ==
    LET final == FinalAnswer(t, what) IN
    \/ /\ closed \/ lost \/ final = "unencodable"
       /\ Finish(t, TRUE)
       /\ writers' = behind
       /\ UNCHANGED sent
    \/ /\ ~closed /\ ~lost /\ final # "unencodable"
       /\ sent' = IF t \in Requests THEN [sent EXCEPT ![t] = Append(@, final)] ELSE sent
       /\ \/ Finish(t, FALSE) /\ writers' = behind
          \/ /\ stage' = [stage EXCEPT ![t] = "draining"]
             /\ writers' = <<t>> \o behind
             /\ UNCHANGED <<failedTasks, executionTasks>>

(* _write and _write_final_response, up to their first suspension. *)
Write(t, what) ==
    /\ answer' = [answer EXCEPT ![t] = what]
    /\ \/ /\ writers = <<>>
          /\ WriteOut(t, what, <<>>)
       \/ /\ writers # <<>>
          /\ writers' = Append(writers, t)
          /\ stage' = [stage EXCEPT ![t] = "locking"]
          /\ UNCHANGED <<sent, failedTasks, executionTasks>>

-----------------------------------------------------------------------------
(* The reader *)

(* Fault: a duplicate displaces the request that has its ID. *)
ReadRequestDisplaces(t) ==
    /\ closing # "closed"
    /\ t \in Requests
    /\ stage[t] = "unsent"
    /\ stage' = [stage EXCEPT ![t] = "created"]
    /\ serverTasks' = [serverTasks EXCEPT ![IdOf[t]] = t]
    /\ UNCHANGED <<executionTasks, responseTasks, duplicates, cancelledIds, execution, answer,
                   failedTasks, killed, writers, sent, asked, failure, lost, closing, joined>>

(* _dispatch_server_request.  The reader does not ask whether the client   *)
(* is closed: it goes on until close() cancels it at its end.              *)
ReadRequest(t) ==
    /\ closing # "closed"
    /\ t \in Requests
    /\ stage[t] = "unsent"
    /\ stage' = [stage EXCEPT ![t] = "created"]
    /\ \/ /\ serverTasks[IdOf[t]] = None
          /\ serverTasks' = [serverTasks EXCEPT ![IdOf[t]] = t]
          /\ UNCHANGED <<responseTasks, duplicates>>
       \/ /\ serverTasks[IdOf[t]] # None
          /\ responseTasks' = responseTasks \cup {t}
          /\ duplicates' = duplicates \cup {t}
          /\ UNCHANGED serverTasks
    /\ UNCHANGED <<executionTasks, cancelledIds, execution, answer, failedTasks, killed,
                   writers, sent, asked, failure, lost, closing, joined>>

(* _cancel_server_request: ignored for an ID that is unknown, settled or   *)
(* cancelled before.                                                       *)
ReadCancel(i) ==
    LET t == serverTasks[i] IN
    /\ closing # "closed"
    /\ t # None
    /\ stage[t] \notin Over
    /\ i \notin cancelledIds
    /\ cancelledIds' = cancelledIds \cup {i}
    /\ asked' = IF sent[t] = <<>> THEN asked \cup {t} ELSE asked
    /\ execution' = [e \in Requests |->
                       IF e = executionTasks[i] /\ execution[e] = "running"
                       THEN "cancelling" ELSE execution[e]]
    /\ UNCHANGED <<serverTasks, executionTasks, responseTasks, duplicates, stage, answer,
                   failedTasks, killed, writers, sent, failure, lost, closing, joined>>

-----------------------------------------------------------------------------
(* The tasks *)

(* The task of a duplicate writes its refusal. *)
RefuseDuplicate(t) ==
    /\ stage[t] = "created"
    /\ t \in duplicates \ killed
    /\ Write(t, "invalid_request")
    /\ UNCHANGED <<serverTasks, responseTasks, duplicates, cancelledIds, execution, killed,
                   asked, failure, lost, closing, joined>>

(* _handle_server_request up to its first suspension.  A handler that      *)
(* raises at once does so outside the try statement.                       *)
HandleRequest(t) ==
    /\ stage[t] = "created"
    /\ t \notin duplicates \cup killed
    /\ \/ /\ IdOf[t] \in cancelledIds
          /\ Write(t, "cancelled")
          /\ UNCHANGED execution
       \/ /\ IdOf[t] \notin cancelledIds
          /\ t \in Unknown
          /\ Write(t, "method_not_found")
          /\ UNCHANGED execution
       \/ /\ IdOf[t] \notin cancelledIds
          /\ t \in Known
          /\ stage' = [stage EXCEPT ![t] = "executing"]
          /\ execution' = [execution EXCEPT ![t] = "running"]
          /\ executionTasks' = [executionTasks EXCEPT ![IdOf[t]] = t]
          /\ UNCHANGED <<answer, failedTasks, writers, sent>>
       \/ /\ IdOf[t] \notin cancelledIds
          /\ t \in Known
          /\ "raises_at_once" \in HandlerResults
          /\ Finish(t, TRUE)
          /\ UNCHANGED <<execution, answer, writers, sent>>
    /\ UNCHANGED <<serverTasks, responseTasks, duplicates, cancelledIds, killed, asked, failure,
                   lost, closing, joined>>

(* The handler ends in its own task, cancelled or not. *)
HandlerEnds(t) ==
    /\ execution[t] \in {"running", "cancelling"}
    /\ execution' = [execution EXCEPT ![t] = "ended"]
    /\ \E how \in HandlerResults \ {"raises_at_once"} : answer' = [answer EXCEPT ![t] = how]
    /\ UNCHANGED <<tableVars, duplicates, stage, failedTasks, killed, writers, sent, asked,
                   failure, lost, closing, joined>>

(* Fault: a result that is no JSON value is sent as it is. *)
ResponseToUnchecked(how) == IF how = "exception" THEN "internal_error" ELSE how

(* The response a handler's end is mapped to. *)
ResponseTo(how) ==
    IF how \in {"exception", "unserializable"} THEN "internal_error" ELSE how

(* Fault: CancelledError ends the task without an answer at any time. *)
HandlerReturnedSilently(t) ==
    /\ stage[t] = "executing"
    /\ execution[t] = "ended"
    /\ t \notin killed
    /\ \/ /\ answer[t] = "cancelled"
          /\ Finish(t, FALSE)
          /\ UNCHANGED <<answer, writers, sent>>
       \/ /\ answer[t] # "cancelled"
          /\ Write(t, ResponseTo(answer[t]))
    /\ UNCHANGED <<serverTasks, responseTasks, duplicates, cancelledIds, execution, killed,
                   asked, failure, lost, closing, joined>>

(* The task goes on after its handler.  While the client closes, a         *)
(* CancelledError ends the task without an answer.                         *)
HandlerReturned(t) ==
    /\ stage[t] = "executing"
    /\ execution[t] = "ended"
    /\ t \notin killed
    /\ \/ /\ closed /\ answer[t] = "cancelled"
          /\ Finish(t, FALSE)
          /\ UNCHANGED <<answer, writers, sent>>
       \/ /\ ~(closed /\ answer[t] = "cancelled")
          /\ Write(t, ResponseTo(answer[t]))
    /\ UNCHANGED <<serverTasks, responseTasks, duplicates, cancelledIds, execution, killed,
                   asked, failure, lost, closing, joined>>

(* The write lock comes to the first in line. *)
AcquireWrite(t) ==
    /\ stage[t] = "locking"
    /\ Head(writers) = t
    /\ t \notin killed
    /\ WriteOut(t, answer[t], Tail(writers))
    /\ UNCHANGED <<serverTasks, responseTasks, duplicates, cancelledIds, execution, answer,
                   killed, asked, failure, lost, closing, joined>>

(* drain() returns, or raises when the pipe is lost. *)
Drained(t) ==
    /\ stage[t] = "draining"
    /\ t \notin killed
    /\ \E fails \in {FALSE, lost} : Finish(t, fails)
    /\ writers' = Tail(writers)
    /\ UNCHANGED <<serverTasks, responseTasks, duplicates, cancelledIds, execution, answer,
                   killed, sent, asked, failure, lost, closing, joined>>

(* Fault: a task that is cancelled does not release the lock. *)
DieInLine(t) ==
    /\ t \in killed
    /\ Finish(t, FALSE)
    /\ killed' = killed \ {t}
    /\ UNCHANGED <<serverTasks, responseTasks, duplicates, cancelledIds, execution, answer,
                   writers, sent, asked, failure, lost, closing, joined>>

(* CancelledError from close() is raised where the task waits. *)
DieCancelled(t) ==
    /\ t \in killed
    /\ Finish(t, FALSE)
    /\ killed' = killed \ {t}
    /\ writers' = Without(writers, t)
    /\ UNCHANGED <<serverTasks, responseTasks, duplicates, cancelledIds, execution, answer,
                   sent, asked, failure, lost, closing, joined>>

(* The done callback, in a step after the end of the task: the tables      *)
(* forget the request, and a task that failed fails the client.            *)
TaskDone(t) ==
    /\ t \in Requests
    /\ stage[t] = "done"
    /\ stage' = [stage EXCEPT ![t] = "reaped"]
    /\ failure' = (failure \/ (t \in failedTasks /\ ~closed))
    /\ IF t \in duplicates
       THEN /\ responseTasks' = responseTasks \ {t}
            /\ UNCHANGED <<serverTasks, executionTasks, cancelledIds>>
       ELSE /\ serverTasks' = [serverTasks EXCEPT ![IdOf[t]] = IF @ = t THEN None ELSE @]
            /\ executionTasks' = [executionTasks EXCEPT ![IdOf[t]] = None]
            /\ cancelledIds' = cancelledIds \ {IdOf[t]}
            /\ UNCHANGED responseTasks
    /\ UNCHANGED <<duplicates, execution, answer, failedTasks, killed, writers, sent, asked,
                   lost, closing, joined>>

(* A forward request is written under the same lock. *)
WriteForward(o) ==
    /\ o \in Outsiders
    /\ stage[o] = "unsent"
    /\ ~closed
    /\ Write(o, "request")
    /\ UNCHANGED <<serverTasks, responseTasks, duplicates, cancelledIds, execution, killed,
                   asked, failure, lost, closing, joined>>

LoseConnection ==
    /\ ~lost
    /\ lost' = TRUE
    /\ UNCHANGED <<tableVars, duplicates, taskVars, writers, sent, asked, failure, closing,
                   joined>>

-----------------------------------------------------------------------------
(* close() *)

(* The tasks known now are cancelled.  The cancellation of a task that     *)
(* awaits its handler goes to the handler, unless that has ended.          *)
Close ==
    LET known == ({serverTasks[i] : i \in Ids} \ {None}) \cup responseTasks IN
    /\ closing = "open"
    /\ closing' = "joining"
    /\ joined' = known
    /\ execution' = [t \in Requests |->
                       IF t \in known /\ execution[t] = "running" THEN "cancelling"
                       ELSE execution[t]]
    /\ killed' = {t \in known : /\ stage[t] \notin Over
                                /\ execution[t] \notin {"running", "cancelling"}}
    /\ UNCHANGED <<tableVars, duplicates, stage, answer, failedTasks, writers, sent, asked,
                   failure, lost>>

(* All of them have ended: the tables are cleared. *)
CloseJoined ==
    /\ closing = "joining"
    /\ \A t \in joined : stage[t] \in Over
    /\ closing' = "stopping"
    /\ serverTasks' = [i \in Ids |-> None]
    /\ executionTasks' = [i \in Ids |-> None]
    /\ responseTasks' = {}
    /\ UNCHANGED <<cancelledIds, duplicates, taskVars, writers, sent, asked, failure, lost,
                   joined>>

(* The child is gone and the reader is cancelled. *)
CloseEnds ==
    /\ closing = "stopping"
    /\ closing' = "closed"
    /\ lost' = TRUE
    /\ UNCHANGED <<tableVars, duplicates, taskVars, writers, sent, asked, failure, joined>>

-----------------------------------------------------------------------------
TaskStep(t) ==
    \/ RefuseDuplicate(t) \/ HandleRequest(t) \/ HandlerEnds(t) \/ HandlerReturned(t)
    \/ DieCancelled(t) \/ TaskDone(t)

WriterStep(t) == AcquireWrite(t) \/ Drained(t)

HostNext ==
    \/ \E t \in Requests : ReadRequest(t) \/ TaskStep(t)
    \/ \E t \in Tasks : WriterStep(t) \/ WriteForward(t)
    \/ \E i \in Ids : ReadCancel(i)
    \/ LoseConnection \/ Close \/ CloseJoined \/ CloseEnds

HostSpec == HostInit /\ [][HostNext]_hostVars

(* The event loop runs the tasks that are ready; handlers end (those of    *)
(* HostToolAdapter do, by the timeout of the registry), and the child      *)
(* reads what is written to it.                                            *)
FairHostSpec ==
    /\ HostSpec
    /\ \A t \in Requests : WF_hostVars(TaskStep(t))
    /\ \A t \in Tasks : WF_hostVars(WriterStep(t))
    /\ WF_hostVars(CloseJoined) /\ WF_hostVars(CloseEnds)

-----------------------------------------------------------------------------
TableTypeOK ==
    /\ serverTasks \in [Ids -> Requests \cup {None}]
    /\ executionTasks \in [Ids -> Requests \cup {None}]
    /\ responseTasks \subseteq duplicates
    /\ duplicates \subseteq Requests
    /\ cancelledIds \subseteq Ids
    /\ asked \subseteq Requests

TaskTypeOK ==
    /\ stage \in [Tasks -> {"unsent", "created", "executing", "locking", "draining", "done",
                            "reaped"}]
    /\ execution \in [Requests -> {"none", "running", "cancelling", "ended"}]
    /\ answer \in [Tasks -> AllHandlerResults \cup Answers \cup {"none", "request"}]
    /\ failedTasks \subseteq Tasks
    /\ killed \subseteq Requests
    /\ sent \in [Requests -> Seq(Answers)]

CloseTypeOK ==
    /\ {failure, lost} \subseteq BOOLEAN
    /\ closing \in {"open", "joining", "stopping", "closed"}
    /\ joined \subseteq Requests

LineTypeOK == writers \in Seq(Tasks) /\ Distinct(writers)

(* The types of the variables. *)
HostTypeOK == TableTypeOK /\ TaskTypeOK /\ CloseTypeOK /\ LineTypeOK

(* The child gets at most one answer to a request, also when its ID is     *)
(* used twice at once or again, and a refused duplicate gets only the      *)
(* refusal.  It gets one by the time the task is over, unless the client   *)
(* is closed, the pipe is lost or the task failed.                         *)
AnsweredOnce ==
    \A t \in Requests :
        /\ Len(sent[t]) <= 1
        /\ t \in duplicates => sent[t] \in {<<>>, <<"invalid_request">>}
        /\ stage[t] \in Over /\ t \notin failedTasks => sent[t] # <<>> \/ closed \/ lost

(* A cancellation that arrives before the answer is out wins, wherever the *)
(* task is: not started, with its handler, or waiting for the write lock   *)
(* with a result.  And no request is answered as cancelled that was not,   *)
(* unless its handler ended so by itself: a cancellation does not outlive  *)
(* its request when the ID is used again.                                  *)
CancelExact ==
    \A t \in Requests :
        /\ t \in asked /\ sent[t] # <<>> => sent[t] = <<"cancelled">>
        /\ sent[t] = <<"cancelled">> =>
             t \in asked \/ (answer[t] = "cancelled" /\ execution[t] = "ended")

(* A request that is being handled can be found under its ID, for          *)
(* $/cancelRequest and for close(): a duplicate does not displace it, and  *)
(* the end of another request with its ID does not remove it.              *)
OriginalStaysTracked ==
    closing = "open" =>
        \A t \in Requests :
            /\ stage[t] \in {"executing", "locking", "draining"} /\ t \notin duplicates
                 => serverTasks[IdOf[t]] = t
            /\ execution[t] \in {"running", "cancelling"} => executionTasks[IdOf[t]] = t

(* A handler cannot break the connection ("invalid handler result returns  *)
(* internal error without breaking client"): only the loss of the pipe     *)
(* makes a task fail the pending requests of the client.                   *)
HandlersDoNotBreakClient == failure => lost

(* Every request that is dispatched comes to its end, and so does close(), *)
(* whose tasks it awaits without a bound: also a request that the reader   *)
(* dispatches behind the back of close(), which nobody cancels.            *)
HostTasksEnd ==
    /\ \A t \in Requests : stage[t] = "created" ~> stage[t] = "reaped"
    /\ closed ~> closing = "closed"

=============================================================================
