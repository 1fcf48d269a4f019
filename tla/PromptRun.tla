------------------------------ MODULE PromptRun ------------------------------
(***************************************************************************)
(* `astraship run': _run_prompt of astraship.cli, the program that drives  *)
(* one KernelSession.  It starts the client, creates the session, sends    *)
(* one prompt, takes events up to the end of the turn, and closes the      *)
(* session and the client on every way out.                                *)
(*                                                                         *)
(* The program is one task, so each step runs up to its next suspension:   *)
(* what it finds in the queue it takes at once, and the step that leaves   *)
(* the loop begins to close the session.  The user may interrupt it once,  *)
(* from the request session/new to the end of close() of the session.  The *)
(* child publishes the events after the first Early, up to turn/end, only  *)
(* when it has the prompt.                                                 *)
(***************************************************************************)
EXTENDS KernelSession

CONSTANT Early   \* the events that the child may publish without a prompt

Mine == CHOOSE s \in Sessions : TRUE
TurnEnd == MaxEvents[Mine]

ASSUME PromptAssumption ==
    /\ Sessions = {Mine}
    /\ Early \in 0..(TurnEnd - 1)
    /\ None \notin {"kernel", "session", "state", "interrupt", "success", "failure"}

Receipt == [receipt |-> Mine]     \* the response to session/prompt

VARIABLES
    pc,      \* where _run_prompt is
    prompt,  \* how far the request session/prompt is
    error,   \* the exception that goes through _run_prompt
    code     \* the exit status (0 or 1), or that the run was interrupted

promptVars == <<pc, prompt, error, code>>
allVars == <<sessionVars, promptVars>>

PromptInit ==
    /\ SessionInit
    /\ pc = "starting"
    /\ prompt = "none"
    /\ error = None
    /\ code = None

-----------------------------------------------------------------------------
(* The child and the reader *)

AnswerPrompt ==
    /\ alive
    /\ Len(stdout) < PipeSize
    /\ prompt = "sent"
    /\ prompt' = "answered"
    /\ stdout' = Append(stdout, Receipt)
    /\ UNCHANGED <<alive, published, stage, queueVars, stored, delivered, consumer>>
    /\ UNCHANGED <<pc, error, code>>

PublishInTurn ==
    /\ Publish(Mine)
    /\ published'[Mine] > Early => prompt # "none"
    /\ UNCHANGED promptVars

(* _read_stdout, for the response: it settles a request that still waits. *)
ReadReceipt ==
    /\ stdout # <<>>
    /\ Head(stdout) = Receipt
    /\ stdout' = Tail(stdout)
    /\ prompt' = IF prompt = "answered" THEN "arrived" ELSE prompt
    /\ UNCHANGED <<alive, published, stage, queueVars, stored, delivered, consumer>>
    /\ UNCHANGED <<pc, error, code>>

Environment ==
    \/ (AnswerNew(Mine) \/ Garble \/ Exit \/ ReadLine \/ Demultiplex(Mine)) /\ UNCHANGED promptVars
    \/ PublishInTurn \/ AnswerPrompt \/ ReadReceipt

-----------------------------------------------------------------------------
(* _run_prompt *)

(* start() succeeds and session/new is requested, or it raises and main()  *)
(* returns: the client was closed by start().                              *)
ClientStarts ==
    /\ pc = "starting"
    /\ \/ /\ Create(Mine)
          /\ pc' = "creating"
          /\ UNCHANGED code
       \/ /\ pc' = "exited"
          /\ code' = "failure"
          /\ alive' = FALSE
          /\ UNCHANGED <<stdout, published, stage, queueVars, stored, delivered, consumer>>
    /\ UNCHANGED <<prompt, error>>

(* create() raises: there is no session to close. *)
NoSession ==
    /\ pc = "creating"
    /\ CreateFails(Mine)
    /\ pc' = "stopping"
    /\ error' = "kernel"
    /\ UNCHANGED <<prompt, code>>

(* The session is open; the prompt is written. *)
SendPrompt ==
    /\ pc = "creating"
    /\ CreateReturns(Mine)
    /\ pc' = "prompting"
    /\ prompt' = "sent"
    /\ UNCHANGED <<error, code>>

(* A blank prompt raises at once: the session is closed as it was opened. *)
RefuseBlank ==
    /\ pc = "creating"
    /\ stage[Mine] = "answered"
    /\ stage' = [stage EXCEPT ![Mine] = "closing"]
    /\ demux' = [demux EXCEPT ![Mine] = "ended"]
    /\ pc' = "closing"
    /\ error' = "state"
    /\ UNCHANGED <<childVars, subscribed, subscription, events, stored, delivered, consumer>>
    /\ UNCHANGED <<prompt, code>>

(* The `finally' clause, up to the suspension of close(). *)
Leave(how) ==
    /\ BeginClose(Mine)
    /\ pc' = "closing"
    /\ error' = how

(* The request fails, or its result has no message ID. *)
PromptFails ==
    /\ pc = "prompting"
    /\ Leave("kernel")
    /\ UNCHANGED <<childVars, subscription, events, stored, delivered, consumer>>
    /\ UNCHANGED <<prompt, code>>

(* The items of the queue that end the iteration. *)
Stops == {i \in DOMAIN events[Mine] : events[Mine][i] \in Failures \cup {Event(Mine, TurnEnd)}}

(* `async for', up to its suspension in get() or in close(). *)
Iterate ==
    /\ \/ /\ Stops = {}
          /\ delivered' = [delivered EXCEPT ![Mine] = @ \o events[Mine]]
          /\ events' = [events EXCEPT ![Mine] = <<>>]
          /\ pc' = "iterating"
          /\ UNCHANGED <<stage, subscribed, demux, consumer, error>>
       \/ \E i \in Stops :
          /\ \A j \in Stops : i <= j
          /\ events' = [events EXCEPT ![Mine] = SubSeq(@, i + 1, Len(@))]
          /\ \/ /\ events[Mine][i] \in Events
                /\ delivered' = [delivered EXCEPT ![Mine] = @ \o SubSeq(events[Mine], 1, i)]
                /\ Leave(error)
                /\ UNCHANGED consumer
             \/ /\ events[Mine][i] \in Failures
                /\ consumer' = [consumer EXCEPT ![Mine] = "raised"]
                /\ Leave("session")
                /\ UNCHANGED delivered
    /\ UNCHANGED <<childVars, subscription, stored, prompt, code>>

(* Fault: the iteration begins with what comes after the receipt. *)
PromptReturnsAfresh ==
    /\ pc = "prompting" /\ prompt = "arrived"
    /\ events' = [events EXCEPT ![Mine] = <<>>]
    /\ pc' = "iterating"
    /\ UNCHANGED <<childVars, stage, subscribed, subscription, demux, stored, delivered, consumer>>
    /\ UNCHANGED <<prompt, error, code>>

PromptReturns == pc = "prompting" /\ prompt = "arrived" /\ Iterate

TakeEvents == pc = "iterating" /\ events[Mine] # <<>> /\ Iterate

(* close() of the session returns, or raises in place of what went before. *)
SessionClosed ==
    /\ pc = "closing"
    /\ CloseReturns(Mine)
    /\ pc' = "stopping"
    /\ error' \in {error, "kernel"}
    /\ UNCHANGED <<prompt, code>>

(* close() of the client: the child is reaped, and main() returns. *)
ClientClosed ==
    /\ pc = "stopping"
    /\ alive' = FALSE
    /\ pc' = "exited"
    /\ code' = IF error = None THEN "success" ELSE IF error = "interrupt" THEN "interrupted" ELSE "failure"
    /\ UNCHANGED <<stdout, published, stage, queueVars, stored, delivered, consumer>>
    /\ UNCHANGED <<prompt, error>>

(* Fault: an interrupted run leaves its session open. *)
InterruptLeavesSession ==
    /\ pc \in {"creating", "prompting", "iterating", "closing"}
    /\ error # "interrupt"
    /\ pc' = "stopping"
    /\ error' = "interrupt"
    /\ UNCHANGED <<sessionVars, prompt, code>>

(* The task is cancelled, as SIGINT does: CancelledError goes through the  *)
(* `finally' clause unless it comes before the session or from its close().*)
Interrupt ==
    /\ error # "interrupt"
    /\ \/ /\ pc \in {"prompting", "iterating"}
          /\ Leave("interrupt")
          /\ UNCHANGED <<childVars, subscription, events, stored, delivered, consumer>>
       \/ /\ pc = "creating"
          /\ stage' = [stage EXCEPT ![Mine] = "failed"]
          /\ pc' = "stopping"
          /\ error' = "interrupt"
          /\ UNCHANGED <<childVars, queueVars, stored, delivered, consumer>>
       \/ /\ pc = "closing"
          /\ CloseReturns(Mine)
          /\ pc' = "stopping"
          /\ error' = "interrupt"
    /\ UNCHANGED <<prompt, code>>

ProgramStep ==
    \/ ClientStarts \/ NoSession \/ SendPrompt \/ RefuseBlank \/ PromptFails
    \/ PromptReturns \/ TakeEvents \/ SessionClosed \/ ClientClosed

PromptNext == Environment \/ ProgramStep \/ Interrupt

PromptSpec == PromptInit /\ [][PromptNext]_allVars

(* The event loop runs the tasks that are ready, and requests end (as      *)
(* KernelClient shows).  The child answers and plays its turn to the end   *)
(* while it runs.                                                          *)
FairPromptSpec ==
    /\ PromptSpec
    /\ WF_allVars(ProgramStep)
    /\ WF_allVars((ReadLine \/ Demultiplex(Mine)) /\ UNCHANGED promptVars)
    /\ WF_allVars(ReadReceipt)
    /\ WF_allVars(PublishInTurn)
    /\ WF_allVars(AnswerPrompt)

-----------------------------------------------------------------------------
(* The types of the program's variables and of those of its session. *)
PromptTypeOK ==
    /\ SessionTypes({Receipt})
    /\ pc \in {"starting", "creating", "prompting", "iterating", "closing", "stopping", "exited"}
    /\ prompt \in {"none", "sent", "answered", "arrived"}
    /\ error \in {None, "kernel", "session", "state", "interrupt"}
    /\ code \in {None, "success", "failure", "interrupted"}

Numbers(seq) == [i \in DOMAIN seq |-> seq[i].number]

(* A run that exits with 0 took every event of its turn, one after the     *)
(* other up to turn/end, and the transcript begins with what it took: the  *)
(* events that come before the session subscribes may be lost, but none    *)
(* that the prompt caused, though they may come before its receipt.        *)
TurnIsComplete ==
    code = "success" =>
        LET taken == Numbers(delivered[Mine]) IN
        /\ \E first \in 1..(Early + 1) : taken = [i \in 1..(TurnEnd + 1 - first) |-> first + i - 1]
        /\ Mine \in Persistent => IsPrefix(delivered[Mine], stored[Mine])

(* However the run ends, interrupted at whatever point, it has asked the   *)
(* child to close the session that it created, and nothing is left of it   *)
(* on the client as that is closed.                                        *)
SessionReleased ==
    pc \in {"stopping", "exited"} =>
        /\ stage[Mine] \in {"none", "failed", "closed"}
        /\ Mine \notin subscribed
        /\ demux[Mine] # "running"

(* A run ends if the child plays its turn to the end: the demultiplexer,   *)
(* the queue and the loop do not lose the last event, and what makes the   *)
(* demultiplexer end ends the run.                                         *)
RunEnds ==
    [](alive \/ pc \in {"stopping", "exited"}) => <>(pc = "exited")

(* "Kernel RPC and process errors are preserved as Kernel* exceptions": a  *)
(* run whose kernel is gone does not wait for events for ever.             *)
RunNoticesExit == (pc = "iterating" /\ ~alive) ~> pc # "iterating"

=============================================================================
