-------------------------- MODULE HostCallsProofs --------------------------
(***************************************************************************)
(* The safety properties of HostCalls, for every set of requests, whatever *)
(* IDs they share, whatever methods have handlers and however those end.   *)
(* They rest on what a task may have done at each stage, on the line at    *)
(* the write lock, on the tables, which hold a request from its arrival to *)
(* the callback at its end, and on the cancelled IDs, which belong to the  *)
(* request that is in the table.                                           *)
(***************************************************************************)
EXTENDS HostCalls, SharedLemmas

(* The tasks at the write lock are those that wait for it and the one that *)
(* drains, who holds it.                                                   *)
WriteOrder == LockLine(writers, stage)

(* What the task of a request may write. *)
Written == Answers \cup {"unencodable"}

(* How far a request is with its handler and with its answer. *)
Progress(t) ==
    /\ execution[t] \in {"running", "cancelling"} => stage[t] = "executing" /\ t \notin killed
    /\ execution[t] # "none" => stage[t] \notin {"unsent", "created"} /\ t \notin duplicates
    /\ stage[t] = "executing" => execution[t] # "none"
    /\ stage[t] = "executing" /\ execution[t] = "ended" =>
          answer[t] \in AllHandlerResults \ {"raises_at_once"}
    /\ stage[t] = "locking" => answer[t] \in Written
    /\ answer[t] = "invalid_request" => t \in duplicates
    /\ stage[t] = "locking" /\ t \in duplicates => answer[t] = "invalid_request"
    /\ t \in duplicates => stage[t] # "unsent"
    /\ t \in killed => closed /\ stage[t] \in {"created", "executing", "locking", "draining"}

(* What the child has got of a request. *)
Sending(t) ==
    /\ Len(sent[t]) <= 1
    /\ stage[t] \in {"unsent", "created", "executing", "locking"} => sent[t] = <<>>
    /\ stage[t] = "draining" => sent[t] # <<>>
    /\ t \in duplicates => sent[t] \in {<<>>, <<"invalid_request">>}
    /\ stage[t] \in Over /\ t \notin failedTasks => sent[t] # <<>> \/ closed \/ lost

(* Until close() clears the tables, every request is in them under its ID  *)
(* from its arrival to its callback, and nothing else is.                  *)
Tracked ==
    /\ \A i \in Ids : LET t == serverTasks[i] IN
          t # None => /\ IdOf[t] = i /\ t \notin duplicates
                      /\ stage[t] \notin {"unsent", "reaped"}
    /\ \A t \in responseTasks : stage[t] \notin {"unsent", "reaped"}
    /\ closing \in {"open", "joining"} => \A t \in Requests \ duplicates :
          /\ stage[t] \notin {"unsent", "reaped"} => serverTasks[IdOf[t]] = t
          /\ execution[t] \in {"running", "cancelling"} => executionTasks[IdOf[t]] = t

(* A cancelled ID belongs to the request that has it now.                  *)
Cancelling ==
    /\ asked \cap duplicates = {}
    /\ \A t \in asked : stage[t] # "unsent"
    /\ closing = "open" =>
          /\ \A t \in asked : stage[t] # "reaped" => IdOf[t] \in cancelledIds
          /\ \A i \in cancelledIds :
                serverTasks[i] # None /\ (serverTasks[i] \in asked \/ sent[serverTasks[i]] # <<>>)

(* A request that is answered as cancelled, or about to be, was cancelled, *)
(* by the child or by its handler.                                         *)
CancelledFor(t) == t \in asked \/ (answer[t] = "cancelled" /\ execution[t] = "ended")

Cancelled(t) ==
    /\ t \in asked /\ sent[t] # <<>> => sent[t] = <<"cancelled">>
    /\ sent[t] = <<"cancelled">> => CancelledFor(t)
    /\ ~closed /\ stage[t] = "locking" /\ answer[t] = "cancelled" => CancelledFor(t)

HostInvariant ==
    /\ HostTypeOK /\ WriteOrder /\ Tracked /\ Cancelling
    /\ \A t \in Requests : Progress(t) /\ Sending(t) /\ Cancelled(t)

Stages == {"unsent", "created", "executing", "locking", "draining", "done", "reaped"}

-----------------------------------------------------------------------------
(* A task that writes gets in line, unless nobody is there. *)
LEMMA WriteKeepsLine ==
    ASSUME TaskTypeOK, WriteOrder, NEW t \in Tasks, stage[t] \notin {"locking", "draining"},
           NEW what, Write(t, what)
    PROVE  WriteOrder'
  <1>1. stage \in [Tasks -> Stages]
    BY DEF TaskTypeOK, Stages
  <1>2. CASE writers = <<>>
    <2>1. \/ stage' = [stage EXCEPT ![t] = "done"] /\ writers' = <<>>
          \/ stage' = [stage EXCEPT ![t] = "draining"] /\ writers' = <<t>> \o <<>>
      BY <1>2 DEF Write, WriteOut, Finish
    <2>2. /\ LockLine(<<>>, [stage EXCEPT ![t] = "done"])
          /\ LockLine(<<t>> \o <<>>, [stage EXCEPT ![t] = "draining"])
      BY <1>1, <1>2, LineEntered DEF WriteOrder
    <2> QED
      BY <2>1, <2>2 DEF WriteOrder
  <1>3. CASE writers # <<>>
    <2>1. stage' = [stage EXCEPT ![t] = "locking"] /\ writers' = Append(writers, t)
      BY <1>3 DEF Write
    <2>2. LockLine(Append(writers, t), [stage EXCEPT ![t] = "locking"])
      BY <1>1, <1>3, LineEntered DEF WriteOrder
    <2> QED
      BY <2>1, <2>2 DEF WriteOrder
  <1> QED
    BY <1>2, <1>3

(* Every step keeps the line. *)
LEMMA HostLineStep ==
    ASSUME TaskTypeOK, WriteOrder, HostNext
    PROVE  WriteOrder'
  <1>1. stage \in [Tasks -> Stages] /\ Requests \subseteq Tasks
    BY DEF TaskTypeOK, Stages, Tasks
  <1>2. ASSUME NEW t \in Tasks, stage[t] \notin {"locking", "draining"},
               NEW to \in {"created", "executing", "done", "reaped"},
               stage' = [stage EXCEPT ![t] = to], writers' = writers
        PROVE  WriteOrder'
    <2>1. DOMAIN stage' = DOMAIN stage /\ DOMAIN stage = Tasks
      BY <1>1, <1>2
    <2>2. \A u \in Tasks : \/ stage'[u] = stage[u]
                           \/ /\ stage[u] \notin {"locking", "draining"}
                              /\ stage'[u] \notin {"locking", "draining"}
      BY <1>1, <1>2
    <2> QED
      BY <1>2, <2>1, <2>2, LineUndisturbed DEF WriteOrder
  <1>3. ASSUME UNCHANGED <<stage, writers>> PROVE WriteOrder'
    BY <1>3 DEF WriteOrder
  <1>4. ASSUME NEW t \in Requests, ReadRequest(t) PROVE WriteOrder'
    BY <1>1, <1>2, <1>4 DEF ReadRequest
  <1>5. ASSUME NEW t \in Requests, RefuseDuplicate(t) PROVE WriteOrder'
    BY <1>1, <1>5, WriteKeepsLine DEF RefuseDuplicate
  <1>6. ASSUME NEW t \in Requests, HandleRequest(t) PROVE WriteOrder'
    <2>1. CASE \E what : Write(t, what)
      BY <1>1, <1>6, <2>1, WriteKeepsLine DEF HandleRequest
    <2>2. CASE \E to \in {"executing", "done"} :
                  stage' = [stage EXCEPT ![t] = to] /\ writers' = writers
      BY <1>1, <1>2, <1>6, <2>2 DEF HandleRequest
    <2> QED
      BY <1>6, <2>1, <2>2 DEF HandleRequest, Finish
  <1>7. ASSUME NEW t \in Requests, HandlerEnds(t) PROVE WriteOrder'
    BY <1>3, <1>7 DEF HandlerEnds
  <1>8. ASSUME NEW t \in Requests, HandlerReturned(t) PROVE WriteOrder'
    <2>1. CASE \E what : Write(t, what)
      BY <1>1, <1>8, <2>1, WriteKeepsLine DEF HandlerReturned
    <2>2. CASE stage' = [stage EXCEPT ![t] = "done"] /\ writers' = writers
      BY <1>1, <1>2, <1>8, <2>2 DEF HandlerReturned
    <2> QED
      BY <1>8, <2>1, <2>2 DEF HandlerReturned, Finish
  <1>9. ASSUME NEW t \in Tasks, AcquireWrite(t) PROVE WriteOrder'
    <2>1. stage[t] = "locking" /\ Head(writers) = t
      BY <1>9 DEF AcquireWrite
    <2>2. \/ stage' = [stage EXCEPT ![t] = "done"] /\ writers' = Tail(writers)
          \/ stage' = [stage EXCEPT ![t] = "draining"] /\ writers' = <<t>> \o Tail(writers)
      BY <1>9 DEF AcquireWrite, WriteOut, Finish
    <2>3. /\ LockLine(Tail(writers), [stage EXCEPT ![t] = "done"])
          /\ LockLine(<<t>> \o Tail(writers), [stage EXCEPT ![t] = "draining"])
      BY <1>1, <2>1, HeadServed DEF WriteOrder
    <2> QED
      BY <2>2, <2>3 DEF WriteOrder
  <1>10. ASSUME NEW t \in Tasks, Drained(t) PROVE WriteOrder'
    <2>1. stage[t] = "draining" /\ Head(writers) = t
      BY <1>1, <1>10 DEF Drained, WriteOrder, LockLine
    <2>2. stage' = [stage EXCEPT ![t] = "done"] /\ writers' = Tail(writers)
      BY <1>10 DEF Drained, Finish
    <2>3. LockLine(Tail(writers), [stage EXCEPT ![t] = "done"])
      BY <1>1, <2>1, HeadServed DEF WriteOrder
    <2> QED
      BY <2>2, <2>3 DEF WriteOrder
  <1>11. ASSUME NEW t \in Requests, DieCancelled(t) PROVE WriteOrder'
    <2>1. stage' = [stage EXCEPT ![t] = "done"] /\ writers' = Without(writers, t)
      BY <1>11 DEF DieCancelled, Finish
    <2> QED
      BY <1>1, <2>1, LineLeft DEF WriteOrder
  <1>12. ASSUME NEW t \in Requests, TaskDone(t) PROVE WriteOrder'
    BY <1>1, <1>2, <1>12 DEF TaskDone
  <1>13. ASSUME NEW t \in Tasks, WriteForward(t) PROVE WriteOrder'
    BY <1>13, WriteKeepsLine DEF WriteForward
  <1>14. CASE \/ \E i \in Ids : ReadCancel(i)
              \/ LoseConnection \/ Close \/ CloseJoined \/ CloseEnds
    BY <1>3, <1>14 DEF ReadCancel, LoseConnection, Close, CloseJoined, CloseEnds, taskVars
  <1> QED
    BY <1>4, <1>5, <1>6, <1>7, <1>8, <1>9, <1>10, <1>11, <1>12, <1>13, <1>14
       DEF HostNext, TaskStep, WriterStep

-----------------------------------------------------------------------------
(* What is written of a request in the end is an answer, unless it cannot  *)
(* be encoded.                                                             *)
LEMMA FinalAnswerType ==
    ASSUME NEW t \in Requests, NEW what \in Written
    PROVE  FinalAnswer(t, what) \in Written
  BY DEF FinalAnswer, Written, Answers

(* Nothing but the state of one task changes. *)
OthersStay(t) ==
    /\ \A u \in Tasks : u # t => stage'[u] = stage[u] /\ (u \in failedTasks' <=> u \in failedTasks)
    /\ \A u \in Requests : u # t => sent'[u] = sent[u] /\ answer'[u] = answer[u]

(* Under the lock, a request fails or is answered, once. *)
LEMMA WriteOutOfRequest ==
    ASSUME TaskTypeOK, NEW t \in Requests, NEW what \in Written, NEW behind, sent[t] = <<>>,
           WriteOut(t, what, behind)
    PROVE  /\ stage' \in [Tasks -> Stages] /\ failedTasks' \subseteq Tasks
           /\ sent' \in [Requests -> Seq(Answers)]
           /\ \A u \in Tasks : u # t => stage'[u] = stage[u]
                                        /\ (u \in failedTasks' <=> u \in failedTasks)
           /\ \A u \in Requests : u # t => sent'[u] = sent[u]
           /\ \/ stage'[t] = "done" /\ sent'[t] = <<>> /\ t \in failedTasks'
              \/ /\ stage'[t] \in {"done", "draining"} /\ ~closed
                 /\ sent'[t] = <<FinalAnswer(t, what)>>
  <1>1. /\ stage \in [Tasks -> Stages] /\ failedTasks \subseteq Tasks /\ t \in Tasks
        /\ sent \in [Requests -> Seq(Answers)]
    BY DEF TaskTypeOK, Stages, Tasks
  <1>2. CASE Finish(t, TRUE) /\ sent' = sent
    BY <1>1, <1>2 DEF Finish, Stages
  <1>3. CASE /\ ~closed /\ FinalAnswer(t, what) # "unencodable"
             /\ sent' = [sent EXCEPT ![t] = Append(@, FinalAnswer(t, what))]
             /\ \E to \in {"done", "draining"} : stage' = [stage EXCEPT ![t] = to]
             /\ failedTasks' = failedTasks
    <2>1. FinalAnswer(t, what) \in Answers
      BY <1>3, FinalAnswerType DEF Written
    <2>2. Append(sent[t], FinalAnswer(t, what)) = <<FinalAnswer(t, what)>>
      OBVIOUS
    <2>3. sent' = [sent EXCEPT ![t] = <<FinalAnswer(t, what)>>]
      BY <1>3, <2>2
    <2>4. <<FinalAnswer(t, what)>> \in Seq(Answers)
      BY <2>1
    <2>5. sent' \in [Requests -> Seq(Answers)]
      BY <1>1, <2>3, <2>4
    <2> QED
      BY <1>1, <1>3, <2>3, <2>5 DEF Stages
  <1> QED
    BY <1>2, <1>3 DEF WriteOut, Finish

LEMMA WriteOfRequest ==
    ASSUME TaskTypeOK, NEW t \in Requests, NEW what \in Written, sent[t] = <<>>, Write(t, what)
    PROVE  /\ stage' \in [Tasks -> Stages] /\ failedTasks' \subseteq Tasks
           /\ sent' \in [Requests -> Seq(Answers)]
           /\ answer' = [answer EXCEPT ![t] = what] /\ answer'[t] = what
           /\ OthersStay(t)
           /\ \/ stage'[t] = "locking" /\ sent'[t] = <<>>
              \/ stage'[t] = "done" /\ sent'[t] = <<>> /\ t \in failedTasks'
              \/ /\ stage'[t] \in {"done", "draining"} /\ ~closed
                 /\ sent'[t] = <<FinalAnswer(t, what)>>
  <1>1. /\ stage \in [Tasks -> Stages] /\ failedTasks \subseteq Tasks /\ t \in Tasks
        /\ sent \in [Requests -> Seq(Answers)] /\ DOMAIN answer = Tasks
    BY DEF TaskTypeOK, Stages, Tasks
  <1>2. /\ answer' = [answer EXCEPT ![t] = what] /\ answer'[t] = what
        /\ \A u \in Requests : u # t => answer'[u] = answer[u]
    BY <1>1 DEF Write, Tasks
  <1>3. CASE WriteOut(t, what, <<>>)
    BY <1>2, <1>3, WriteOutOfRequest DEF OthersStay
  <1>4. CASE /\ stage' = [stage EXCEPT ![t] = "locking"]
             /\ UNCHANGED <<sent, failedTasks, executionTasks>>
    BY <1>1, <1>2, <1>4 DEF OthersStay, Stages
  <1> QED
    BY <1>3, <1>4 DEF Write

(* A request that gets in line or is answered, with what it may be. *)
LEMMA AnsweredRightly ==
    ASSUME NEW t \in Requests, Progress(t), Sending(t), Cancelled(t),
           stage[t] \in {"created", "executing", "locking"}, t \notin killed,
           execution[t] \in {"none", "ended"},
           execution'[t] = execution[t], duplicates' = duplicates, asked' = asked,
           killed' = killed, closed' <=> closed,
           asked \cap duplicates = {},
           answer'[t] \in Written, answer'[t] = "invalid_request" <=> t \in duplicates,
           ~closed => (t \in asked => IdOf[t] \in cancelledIds),
           ~closed => (IdOf[t] \in cancelledIds /\ t \notin duplicates => t \in asked),
           ~closed /\ answer'[t] = "cancelled" => t \in asked \/ execution[t] = "ended",
           \/ stage'[t] = "locking" /\ sent'[t] = <<>>
           \/ stage'[t] = "done" /\ sent'[t] = <<>> /\ t \in failedTasks'
           \/ /\ stage'[t] \in {"done", "draining"} /\ ~closed
              /\ sent'[t] = <<FinalAnswer(t, answer'[t])>>
    PROVE  Progress(t)' /\ Sending(t)' /\ Cancelled(t)'
  <1>1. Progress(t)'
    BY DEF Progress
  <1>2. sent[t] = <<>>
    BY DEF Sending
  <1> DEFINE final == FinalAnswer(t, answer'[t])
  <1>3. final = "invalid_request" <=> t \in duplicates
    BY DEF FinalAnswer
  <1>4. ~closed => (t \in asked => final = "cancelled")
    BY <1>3 DEF FinalAnswer
  <1>5. ~closed /\ final = "cancelled" => t \in asked \/ (answer'[t] = "cancelled"
                                                          /\ execution'[t] = "ended")
    BY <1>3 DEF FinalAnswer
  <1> HIDE DEF final
  <1>6. CASE sent'[t] = <<>> /\ stage'[t] = "locking"
    BY <1>1, <1>6 DEF Sending, Cancelled, CancelledFor, Over
  <1>7. CASE sent'[t] = <<>> /\ stage'[t] = "done" /\ t \in failedTasks'
    BY <1>1, <1>7 DEF Sending, Cancelled, CancelledFor, Over
  <1>8. CASE sent'[t] = <<final>> /\ stage'[t] \in {"done", "draining"} /\ ~closed
    <2>1. Len(<<final>>) = 1 /\ <<final>> # <<>> /\ (<<final>> = <<"cancelled">> => final = "cancelled")
      OBVIOUS
    <2>2. Sending(t)'
      BY <1>3, <1>8, <2>1 DEF Sending, Over
    <2>3. Cancelled(t)'
      BY <1>4, <1>5, <1>8, <2>1 DEF Cancelled, CancelledFor
    <2> QED
      BY <1>1, <2>2, <2>3
  <1> QED
    BY <1>6, <1>7, <1>8 DEF final

(* A request that a step does not touch. *)
Untouched(u) ==
    /\ stage'[u] = stage[u] /\ execution'[u] = execution[u] /\ sent'[u] = sent[u]
    /\ answer'[u] = answer[u]
    /\ u \in killed' <=> u \in killed
    /\ u \in duplicates' <=> u \in duplicates
    /\ u \in failedTasks' <=> u \in failedTasks
    /\ u \in asked' <=> u \in asked

LEMMA UntouchedStays ==
    ASSUME NEW u \in Requests, Progress(u), Sending(u), Cancelled(u), Untouched(u),
           closed => closed', lost => lost'
    PROVE  Progress(u)' /\ Sending(u)' /\ Cancelled(u)'
  <1>1. Progress(u)'
    BY DEF Progress, Untouched
  <1>2. Sending(u)'
    BY DEF Sending, Untouched
  <1>3. Cancelled(u)'
    BY DEF Cancelled, CancelledFor, Untouched
  <1> QED
    BY <1>1, <1>2, <1>3

-----------------------------------------------------------------------------
LEMMA HandlerEndWritten ==
    ASSUME NEW how \in AllHandlerResults \ {"raises_at_once"}
    PROVE  /\ ResponseTo(how) \in Written /\ ResponseTo(how) # "invalid_request"
           /\ ResponseTo(how) = "cancelled" => how = "cancelled"
  BY DEF ResponseTo, Written, Answers, AllHandlerResults

(* The end of a task keeps the types. *)
LEMMA FinishTypes ==
    ASSUME TaskTypeOK, TableTypeOK, NEW t \in Tasks, NEW fails, Finish(t, fails)
    PROVE  /\ stage' \in [Tasks -> Stages] /\ failedTasks' \subseteq Tasks
           /\ executionTasks' \in [Ids -> Requests \cup {None}]
  BY DEF TaskTypeOK, TableTypeOK, Finish, Stages

(* A write keeps the types, be it of an answer or of a forward request. *)
LEMMA WriteOutTypes ==
    ASSUME TaskTypeOK, TableTypeOK, NEW t \in Tasks, NEW what, NEW behind,
           t \in Requests => what \in Written, WriteOut(t, what, behind)
    PROVE  /\ stage' \in [Tasks -> Stages] /\ failedTasks' \subseteq Tasks
           /\ executionTasks' \in [Ids -> Requests \cup {None}]
           /\ sent' \in [Requests -> Seq(Answers)]
  <1>1. /\ stage \in [Tasks -> Stages] /\ failedTasks \subseteq Tasks
        /\ executionTasks \in [Ids -> Requests \cup {None}]
        /\ sent \in [Requests -> Seq(Answers)]
    BY DEF TaskTypeOK, TableTypeOK, Stages
  <1>2. sent' \in [Requests -> Seq(Answers)]
    <2>1. CASE sent' = sent
      BY <1>1, <2>1
    <2>2. CASE /\ t \in Requests /\ FinalAnswer(t, what) # "unencodable"
               /\ sent' = [sent EXCEPT ![t] = Append(@, FinalAnswer(t, what))]
      <3>1. FinalAnswer(t, what) \in Answers
        BY <2>2, FinalAnswerType DEF Written
      <3>2. sent[t] \in Seq(Answers)
        BY <1>1, <2>2
      <3>3. Append(sent[t], FinalAnswer(t, what)) \in Seq(Answers)
        BY <3>1, <3>2
      <3> QED
        BY <1>1, <2>2, <3>3
    <2> QED
      BY <2>1, <2>2 DEF WriteOut
  <1>3. CASE \E fails : Finish(t, fails)
    BY <1>2, <1>3, FinishTypes
  <1>4. CASE /\ stage' = [stage EXCEPT ![t] = "draining"]
             /\ UNCHANGED <<failedTasks, executionTasks>>
    BY <1>1, <1>2, <1>4 DEF Stages
  <1> QED
    BY <1>3, <1>4 DEF WriteOut

LEMMA WriteTypes ==
    ASSUME TaskTypeOK, TableTypeOK, NEW t \in Tasks, NEW what \in Written \cup {"request"},
           t \in Requests => what \in Written, Write(t, what)
    PROVE  /\ stage' \in [Tasks -> Stages] /\ failedTasks' \subseteq Tasks
           /\ executionTasks' \in [Ids -> Requests \cup {None}]
           /\ sent' \in [Requests -> Seq(Answers)]
           /\ answer' \in [Tasks -> AllHandlerResults \cup Answers \cup {"none", "request"}]
  <1>1. answer' \in [Tasks -> AllHandlerResults \cup Answers \cup {"none", "request"}]
    BY DEF Write, TaskTypeOK, Written, AllHandlerResults
  <1>2. CASE WriteOut(t, what, <<>>)
    BY <1>1, <1>2, WriteOutTypes
  <1>3. CASE /\ stage' = [stage EXCEPT ![t] = "locking"]
             /\ UNCHANGED <<sent, failedTasks, executionTasks>>
    BY <1>1, <1>3 DEF TaskTypeOK, TableTypeOK, Stages
  <1> QED
    BY <1>2, <1>3 DEF Write

(* Every step keeps the types of the tables, the tasks and of close(). *)
LEMMA HostTypeStep ==
    ASSUME TableTypeOK, TaskTypeOK, CloseTypeOK, \A t \in Requests : Progress(t), HostNext
    PROVE  TableTypeOK' /\ TaskTypeOK' /\ CloseTypeOK'
  <1>0. /\ Requests \subseteq Tasks /\ IdOf \in [Requests -> Ids]
        /\ HandlerResults \subseteq AllHandlerResults /\ None \notin Requests
    BY HostAssumption DEF Tasks
  <1>1. ASSUME TableTypeOK', stage' \in [Tasks -> Stages], failedTasks' \subseteq Tasks,
               sent' \in [Requests -> Seq(Answers)],
               answer' \in [Tasks -> AllHandlerResults \cup Answers \cup {"none", "request"}],
               execution' \in [Requests -> {"none", "running", "cancelling", "ended"}],
               killed' \subseteq killed, UNCHANGED <<failure, lost, closing, joined>>
        PROVE  TableTypeOK' /\ TaskTypeOK' /\ CloseTypeOK'
    BY <1>1 DEF TaskTypeOK, CloseTypeOK, Stages
  <1>2. ASSUME executionTasks' \in [Ids -> Requests \cup {None}],
               UNCHANGED <<serverTasks, responseTasks, duplicates, cancelledIds, asked>>
        PROVE  TableTypeOK'
    BY <1>2 DEF TableTypeOK
  <1>3. ASSUME NEW t \in Requests, ReadRequest(t)
        PROVE  TableTypeOK' /\ TaskTypeOK' /\ CloseTypeOK'
    <2>1. IdOf[t] \in Ids
      BY <1>0
    <2>2. TableTypeOK'
      BY <1>3, <2>1 DEF ReadRequest, TableTypeOK
    <2> QED
      BY <1>0, <1>1, <1>3, <2>2 DEF ReadRequest, TaskTypeOK, Stages
  <1>4. ASSUME NEW i \in Ids, ReadCancel(i)
        PROVE  TableTypeOK' /\ TaskTypeOK' /\ CloseTypeOK'
    <2>1. TableTypeOK'
      BY <1>4 DEF ReadCancel, TableTypeOK
    <2>2. execution' \in [Requests -> {"none", "running", "cancelling", "ended"}]
      BY <1>4 DEF ReadCancel, TaskTypeOK
    <2> QED
      BY <1>1, <1>4, <2>1, <2>2 DEF ReadCancel, TaskTypeOK, Stages
  <1>5. ASSUME NEW t \in Requests, RefuseDuplicate(t)
        PROVE  TableTypeOK' /\ TaskTypeOK' /\ CloseTypeOK'
    <2>1. "invalid_request" \in Written
      BY DEF Written, Answers
    <2>2. /\ stage' \in [Tasks -> Stages] /\ failedTasks' \subseteq Tasks
          /\ executionTasks' \in [Ids -> Requests \cup {None}]
          /\ sent' \in [Requests -> Seq(Answers)]
          /\ answer' \in [Tasks -> AllHandlerResults \cup Answers \cup {"none", "request"}]
      BY <1>0, <1>5, <2>1, WriteTypes DEF RefuseDuplicate
    <2> QED
      BY <1>1, <1>2, <1>5, <2>2 DEF RefuseDuplicate, TaskTypeOK
  <1>6. ASSUME NEW t \in Requests, HandleRequest(t)
        PROVE  TableTypeOK' /\ TaskTypeOK' /\ CloseTypeOK'
    <2>0. UNCHANGED <<serverTasks, responseTasks, duplicates, cancelledIds, killed, asked,
                      failure, lost, closing, joined>>
      BY <1>6 DEF HandleRequest
    <2>1. CASE \E what \in {"cancelled", "method_not_found"} :
                  Write(t, what) /\ UNCHANGED execution
      <3>1. PICK what \in {"cancelled", "method_not_found"} :
                  Write(t, what) /\ UNCHANGED execution
        BY <2>1
      <3>2. what \in Written
        BY DEF Written, Answers
      <3>3. /\ stage' \in [Tasks -> Stages] /\ failedTasks' \subseteq Tasks
            /\ executionTasks' \in [Ids -> Requests \cup {None}]
            /\ sent' \in [Requests -> Seq(Answers)]
            /\ answer' \in [Tasks -> AllHandlerResults \cup Answers \cup {"none", "request"}]
        BY <1>0, <3>1, <3>2, WriteTypes
      <3> QED
        BY <1>1, <1>2, <2>0, <3>1, <3>3 DEF TaskTypeOK
    <2>2. CASE /\ stage' = [stage EXCEPT ![t] = "executing"]
               /\ execution' = [execution EXCEPT ![t] = "running"]
               /\ executionTasks' = [executionTasks EXCEPT ![IdOf[t]] = t]
               /\ UNCHANGED <<answer, failedTasks, writers, sent>>
      <3>1. TableTypeOK'
        BY <1>2, <2>0, <2>2 DEF TableTypeOK
      <3> QED
        BY <1>1, <2>0, <2>2, <3>1 DEF TaskTypeOK, Stages
    <2>3. CASE Finish(t, TRUE) /\ UNCHANGED <<execution, answer, writers, sent>>
      <3>1. /\ stage' \in [Tasks -> Stages] /\ failedTasks' \subseteq Tasks
            /\ executionTasks' \in [Ids -> Requests \cup {None}]
        BY <1>0, <2>3, FinishTypes
      <3> QED
        BY <1>1, <1>2, <2>0, <2>3, <3>1 DEF TaskTypeOK
    <2> QED
      BY <1>6, <2>1, <2>2, <2>3 DEF HandleRequest
  <1>7. ASSUME NEW t \in Requests, HandlerEnds(t)
        PROVE  TableTypeOK' /\ TaskTypeOK' /\ CloseTypeOK'
    <2>1. TableTypeOK'
      BY <1>7 DEF HandlerEnds, TableTypeOK, tableVars
    <2>2. /\ answer' \in [Tasks -> AllHandlerResults \cup Answers \cup {"none", "request"}]
          /\ execution' \in [Requests -> {"none", "running", "cancelling", "ended"}]
      BY <1>0, <1>7 DEF HandlerEnds, TaskTypeOK
    <2> QED
      BY <1>1, <1>7, <2>1, <2>2 DEF HandlerEnds, TaskTypeOK, Stages
  <1>8. ASSUME NEW t \in Requests, HandlerReturned(t)
        PROVE  TableTypeOK' /\ TaskTypeOK' /\ CloseTypeOK'
    <2>0. UNCHANGED <<serverTasks, responseTasks, duplicates, cancelledIds, execution, killed,
                      asked, failure, lost, closing, joined>>
      BY <1>8 DEF HandlerReturned
    <2>1. CASE Write(t, ResponseTo(answer[t]))
      <3>1. answer[t] \in AllHandlerResults \ {"raises_at_once"}
        BY <1>8 DEF HandlerReturned, Progress
      <3>2. ResponseTo(answer[t]) \in Written
        BY <3>1, HandlerEndWritten
      <3>3. /\ stage' \in [Tasks -> Stages] /\ failedTasks' \subseteq Tasks
            /\ executionTasks' \in [Ids -> Requests \cup {None}]
            /\ sent' \in [Requests -> Seq(Answers)]
            /\ answer' \in [Tasks -> AllHandlerResults \cup Answers \cup {"none", "request"}]
        BY <1>0, <2>1, <3>2, WriteTypes
      <3> QED
        BY <1>1, <1>2, <2>0, <3>3 DEF TaskTypeOK
    <2>2. CASE Finish(t, FALSE) /\ UNCHANGED <<answer, writers, sent>>
      <3>1. /\ stage' \in [Tasks -> Stages] /\ failedTasks' \subseteq Tasks
            /\ executionTasks' \in [Ids -> Requests \cup {None}]
        BY <1>0, <2>2, FinishTypes
      <3> QED
        BY <1>1, <1>2, <2>0, <2>2, <3>1 DEF TaskTypeOK
    <2> QED
      BY <1>8, <2>1, <2>2 DEF HandlerReturned
  <1>9. ASSUME NEW t \in Tasks, AcquireWrite(t)
        PROVE  TableTypeOK' /\ TaskTypeOK' /\ CloseTypeOK'
    <2>1. t \in Requests => answer[t] \in Written
      BY <1>9 DEF AcquireWrite, Progress
    <2>2. /\ stage' \in [Tasks -> Stages] /\ failedTasks' \subseteq Tasks
          /\ executionTasks' \in [Ids -> Requests \cup {None}]
          /\ sent' \in [Requests -> Seq(Answers)]
      BY <1>9, <2>1, WriteOutTypes DEF AcquireWrite
    <2> QED
      BY <1>1, <1>2, <1>9, <2>2 DEF AcquireWrite, TaskTypeOK
  <1>10. ASSUME NEW t \in Tasks, Drained(t)
         PROVE  TableTypeOK' /\ TaskTypeOK' /\ CloseTypeOK'
    <2>1. /\ stage' \in [Tasks -> Stages] /\ failedTasks' \subseteq Tasks
          /\ executionTasks' \in [Ids -> Requests \cup {None}]
      BY <1>10, FinishTypes DEF Drained
    <2> QED
      BY <1>1, <1>2, <1>10, <2>1 DEF Drained, TaskTypeOK
  <1>11. ASSUME NEW t \in Requests, DieCancelled(t)
         PROVE  TableTypeOK' /\ TaskTypeOK' /\ CloseTypeOK'
    <2>1. /\ stage' \in [Tasks -> Stages] /\ failedTasks' \subseteq Tasks
          /\ executionTasks' \in [Ids -> Requests \cup {None}]
      BY <1>0, <1>11, FinishTypes DEF DieCancelled
    <2> QED
      BY <1>1, <1>2, <1>11, <2>1 DEF DieCancelled, TaskTypeOK
  <1>12. ASSUME NEW t \in Requests, TaskDone(t)
         PROVE  TableTypeOK' /\ TaskTypeOK' /\ CloseTypeOK'
    <2>1. TableTypeOK'
      BY <1>12 DEF TaskDone, TableTypeOK
    <2>2. TaskTypeOK'
      BY <1>12 DEF TaskDone, TaskTypeOK
    <2>3. CloseTypeOK'
      BY <1>12 DEF TaskDone, CloseTypeOK
    <2> QED
      BY <2>1, <2>2, <2>3
  <1>13. ASSUME NEW t \in Tasks, WriteForward(t)
         PROVE  TableTypeOK' /\ TaskTypeOK' /\ CloseTypeOK'
    <2>1. t \notin Requests
      BY <1>13, HostAssumption DEF WriteForward
    <2>2. /\ stage' \in [Tasks -> Stages] /\ failedTasks' \subseteq Tasks
          /\ executionTasks' \in [Ids -> Requests \cup {None}]
          /\ sent' \in [Requests -> Seq(Answers)]
          /\ answer' \in [Tasks -> AllHandlerResults \cup Answers \cup {"none", "request"}]
      BY <1>13, <2>1, WriteTypes DEF WriteForward
    <2> QED
      BY <1>1, <1>2, <1>13, <2>2 DEF WriteForward, TaskTypeOK
  <1>14. CASE LoseConnection \/ CloseEnds
    BY <1>14 DEF LoseConnection, CloseEnds, TableTypeOK, TaskTypeOK, CloseTypeOK, tableVars,
                 taskVars
  <1>15. CASE Close
    <2>1. TableTypeOK'
      BY <1>15 DEF Close, TableTypeOK, tableVars
    <2>2. /\ execution' \in [Requests -> {"none", "running", "cancelling", "ended"}]
          /\ killed' \subseteq Requests /\ joined' \subseteq Requests
      BY <1>15 DEF Close, TableTypeOK, TaskTypeOK
    <2> QED
      BY <1>15, <2>1, <2>2 DEF Close, TaskTypeOK, CloseTypeOK
  <1>16. CASE CloseJoined
    <2>1. TableTypeOK'
      BY <1>16 DEF CloseJoined, TableTypeOK
    <2> QED
      BY <1>16, <2>1 DEF CloseJoined, TaskTypeOK, CloseTypeOK, taskVars
  <1> QED
    BY <1>3, <1>4, <1>5, <1>6, <1>7, <1>8, <1>9, <1>10, <1>11, <1>12, <1>13, <1>14, <1>15,
       <1>16 DEF HostNext, TaskStep, WriterStep

-----------------------------------------------------------------------------
(* Before it is answered, the ID of a request is cancelled if and only if  *)
(* the request is, unless it came with an ID in use.                       *)
LEMMA CancelledById ==
    ASSUME Tracked, Cancelling, NEW t \in Requests, Sending(t), ~closed,
           stage[t] \in {"created", "executing", "locking"}
    PROVE  /\ t \in asked => IdOf[t] \in cancelledIds
           /\ IdOf[t] \in cancelledIds /\ t \notin duplicates => t \in asked
  <1>1. closing = "open" /\ sent[t] = <<>>
    BY DEF closed, Sending
  <1>2. t \notin duplicates => serverTasks[IdOf[t]] = t
    BY <1>1 DEF Tracked
  <1> QED
    BY <1>1, <1>2 DEF Cancelling

(* The end of a task touches no other task. *)
LEMMA FinishOthers ==
    ASSUME TaskTypeOK, NEW t \in Tasks, NEW fails, Finish(t, fails), UNCHANGED <<sent, answer>>
    PROVE  OthersStay(t) /\ stage'[t] = "done" /\ (fails => t \in failedTasks')
  BY DEF Finish, OthersStay, TaskTypeOK

(* A task may end when its answer is out, or when it need not answer. *)
LEMMA EndsRightly ==
    ASSUME NEW t \in Requests, Progress(t), Sending(t), Cancelled(t),
           execution[t] \in {"none", "ended"}, stage[t] \notin {"unsent"},
           stage'[t] \in {"done", "reaped"}, t \notin killed',
           execution'[t] = execution[t], sent'[t] = sent[t], answer'[t] = answer[t],
           duplicates' = duplicates, asked' = asked, closed' <=> closed, lost' <=> lost,
           t \in failedTasks' \/ sent[t] # <<>> \/ closed \/ lost
    PROVE  Progress(t)' /\ Sending(t)' /\ Cancelled(t)'
  <1>1. Progress(t)'
    BY DEF Progress
  <1>2. Sending(t)'
    BY DEF Sending, Over
  <1>3. Cancelled(t)'
    BY DEF Cancelled, CancelledFor
  <1> QED
    BY <1>1, <1>2, <1>3

(* Every step keeps what each request may have done. *)
LEMMA RequestStep ==
    ASSUME HostInvariant, HostNext
    PROVE  \A u \in Requests : Progress(u)' /\ Sending(u)' /\ Cancelled(u)'
  <1> DEFINE Fine == \A u \in Requests : Progress(u)' /\ Sending(u)' /\ Cancelled(u)'
  <1>0. /\ TaskTypeOK /\ Tracked /\ Cancelling /\ Requests \subseteq Tasks
        /\ \A u \in Requests : Progress(u) /\ Sending(u) /\ Cancelled(u)
    BY DEF HostInvariant, HostTypeOK, Tasks
  <1>1. /\ stage \in [Tasks -> Stages] /\ DOMAIN execution = Requests /\ DOMAIN answer = Tasks
        /\ asked \cap duplicates = {}
    BY <1>0 DEF TaskTypeOK, Stages, Cancelling
  <1>2. ASSUME NEW t \in Requests, OthersStay(t),
               \A u \in Requests \ {t} : /\ execution'[u] = execution[u]
                                         /\ u \in killed' <=> u \in killed
                                         /\ u \in duplicates' <=> u \in duplicates
                                         /\ u \in asked' <=> u \in asked,
               closed => closed', lost => lost',
               Progress(t)' /\ Sending(t)' /\ Cancelled(t)'
        PROVE  Fine
    <2>1. ASSUME NEW u \in Requests, u # t PROVE Progress(u)' /\ Sending(u)' /\ Cancelled(u)'
      <3>1. Untouched(u)
        BY <1>0, <1>2, <2>1 DEF Untouched, OthersStay
      <3> QED
        BY <1>0, <1>2, <3>1, UntouchedStays
    <2> QED
      BY <1>2, <2>1
  <1>3. ASSUME \A u \in Requests : Untouched(u), closed => closed', lost => lost'
        PROVE  Fine
    BY <1>0, <1>3, UntouchedStays
  <1> SUFFICES Fine
    OBVIOUS
  <1> HIDE DEF Fine
  <1>4. ASSUME NEW t \in Requests, stage[t] \in {"created", "executing", "locking"},
               t \notin killed, execution[t] \in {"none", "ended"},
               UNCHANGED <<duplicates, execution, killed, asked, lost, closing>>,
               OthersStay(t),
               answer'[t] \in Written, answer'[t] = "invalid_request" <=> t \in duplicates,
               ~closed /\ answer'[t] = "cancelled" => t \in asked \/ execution[t] = "ended",
               \/ stage'[t] = "locking" /\ sent'[t] = <<>>
               \/ stage'[t] = "done" /\ sent'[t] = <<>> /\ t \in failedTasks'
               \/ /\ stage'[t] \in {"done", "draining"} /\ ~closed
                  /\ sent'[t] = <<FinalAnswer(t, answer'[t])>>
        PROVE  Fine
    <2>1. /\ ~closed => (t \in asked => IdOf[t] \in cancelledIds)
          /\ ~closed => (IdOf[t] \in cancelledIds /\ t \notin duplicates => t \in asked)
      BY <1>0, <1>4, CancelledById
    <2>2. Progress(t) /\ Sending(t) /\ Cancelled(t) /\ (closed' <=> closed)
      BY <1>0, <1>4 DEF closed
    <2>3. Progress(t)' /\ Sending(t)' /\ Cancelled(t)'
      BY <1>1, <1>4, <2>1, <2>2, AnsweredRightly
    <2> QED
      BY <1>2, <1>4, <2>2, <2>3
  <1>5. ASSUME NEW t \in Requests, OthersStay(t), stage'[t] \in {"done", "reaped"},
               execution[t] \in {"none", "ended"}, stage[t] # "unsent",
               UNCHANGED <<duplicates, execution, asked, lost, closing>>,
               sent'[t] = sent[t], answer'[t] = answer[t],
               killed' = killed \ {t} \/ (killed' = killed /\ t \notin killed),
               t \in failedTasks' \/ sent[t] # <<>> \/ closed \/ lost
        PROVE  Fine
    <2>1. t \notin killed' /\ \A u \in Requests \ {t} : u \in killed' <=> u \in killed
      BY <1>5
    <2>2. closed' <=> closed
      BY <1>5 DEF closed
    <2>3. Progress(t)' /\ Sending(t)' /\ Cancelled(t)'
      BY <1>0, <1>5, <2>1, <2>2, EndsRightly
    <2> QED
      BY <1>2, <1>5, <2>1, <2>2, <2>3
  <1>6. ASSUME NEW t \in Requests, ReadRequest(t) PROVE Fine
    <2>1. /\ stage[t] = "unsent" /\ stage'[t] = "created" /\ OthersStay(t)
          /\ UNCHANGED <<execution, killed, sent, answer, asked, lost, closing>>
      BY <1>0, <1>1, <1>6 DEF ReadRequest, OthersStay
    <2>2. \A u \in Requests \ {t} : u \in duplicates' <=> u \in duplicates
      BY <1>6 DEF ReadRequest
    <2>3. execution[t] = "none" /\ sent[t] = <<>> /\ t \notin killed /\ t \notin duplicates
      BY <1>0, <1>1, <2>1 DEF Progress, Sending, TaskTypeOK
    <2>4. Progress(t)'
      BY <1>0, <2>1, <2>3 DEF Progress
    <2>5. Sending(t)' /\ Cancelled(t)'
      BY <2>1, <2>3 DEF Sending, Cancelled, Over
    <2> QED
      BY <1>2, <2>1, <2>2, <2>4, <2>5 DEF closed
  <1>7. ASSUME NEW t \in Requests, RefuseDuplicate(t) PROVE Fine
    <2>1. "invalid_request" \in Written /\ sent[t] = <<>> /\ execution[t] = "none"
      BY <1>0, <1>7 DEF RefuseDuplicate, Written, Answers, Sending, Progress, TaskTypeOK
    <2>2. /\ OthersStay(t) /\ answer'[t] = "invalid_request"
          /\ \/ stage'[t] = "locking" /\ sent'[t] = <<>>
             \/ stage'[t] = "done" /\ sent'[t] = <<>> /\ t \in failedTasks'
             \/ /\ stage'[t] \in {"done", "draining"} /\ ~closed
                /\ sent'[t] = <<FinalAnswer(t, answer'[t])>>
      BY <1>0, <1>7, <2>1, WriteOfRequest DEF RefuseDuplicate
    <2> QED
      BY <1>4, <1>7, <2>1, <2>2 DEF RefuseDuplicate
  <1>8. ASSUME NEW t \in Requests, HandleRequest(t) PROVE Fine
    <2>1. /\ stage[t] = "created" /\ t \notin duplicates /\ t \notin killed
          /\ UNCHANGED <<duplicates, killed, asked, lost, closing>>
      BY <1>8 DEF HandleRequest
    <2>2. sent[t] = <<>> /\ execution[t] = "none"
      BY <1>0, <2>1 DEF Sending, Progress, TaskTypeOK
    <2>3. ASSUME NEW what \in {"cancelled", "method_not_found"}, Write(t, what),
                 UNCHANGED execution, what = "cancelled" => IdOf[t] \in cancelledIds
          PROVE  Fine
      <3>1. what \in Written /\ what # "invalid_request"
        BY DEF Written, Answers
      <3>2. /\ OthersStay(t) /\ answer'[t] = what
            /\ \/ stage'[t] = "locking" /\ sent'[t] = <<>>
               \/ stage'[t] = "done" /\ sent'[t] = <<>> /\ t \in failedTasks'
               \/ /\ stage'[t] \in {"done", "draining"} /\ ~closed
                  /\ sent'[t] = <<FinalAnswer(t, answer'[t])>>
        BY <1>0, <2>2, <2>3, <3>1, WriteOfRequest
      <3>3. ~closed /\ what = "cancelled" => t \in asked
        BY <1>0, <2>1, <2>3, CancelledById
      <3> QED
        BY <1>4, <2>1, <2>2, <2>3, <3>1, <3>2, <3>3
    <2>4. CASE /\ stage' = [stage EXCEPT ![t] = "executing"]
               /\ execution' = [execution EXCEPT ![t] = "running"]
               /\ UNCHANGED <<answer, failedTasks, writers, sent>>
      <3>1. /\ stage'[t] = "executing" /\ execution'[t] = "running" /\ OthersStay(t)
            /\ \A u \in Requests \ {t} : execution'[u] = execution[u]
        BY <1>0, <1>1, <2>4 DEF OthersStay
      <3>2. Progress(t)'
        BY <1>0, <2>1, <2>4, <3>1 DEF Progress
      <3>3. Sending(t)' /\ Cancelled(t)'
        BY <2>1, <2>2, <2>4, <3>1 DEF Sending, Cancelled, Over
      <3> QED
        BY <1>2, <2>1, <3>1, <3>2, <3>3 DEF closed
    <2>5. CASE Finish(t, TRUE) /\ UNCHANGED <<execution, answer, writers, sent>>
      <3>1. OthersStay(t) /\ stage'[t] = "done" /\ t \in failedTasks'
        BY <1>0, <2>5, FinishOthers
      <3> QED
        BY <1>5, <2>1, <2>2, <2>5, <3>1
    <2> QED
      BY <1>8, <2>3, <2>4, <2>5 DEF HandleRequest
  <1>9. ASSUME NEW t \in Requests, HandlerEnds(t) PROVE Fine
    <2>1. PICK how \in HandlerResults \ {"raises_at_once"} : answer' = [answer EXCEPT ![t] = how]
      BY <1>9 DEF HandlerEnds
    <2>2. /\ execution[t] \in {"running", "cancelling"} /\ execution'[t] = "ended"
          /\ \A u \in Requests \ {t} : execution'[u] = execution[u]
          /\ UNCHANGED <<stage, failedTasks, duplicates, killed, sent, asked, lost, closing>>
      BY <1>1, <1>9 DEF HandlerEnds
    <2>3. answer'[t] = how /\ OthersStay(t)
      BY <1>0, <1>1, <2>1, <2>2 DEF OthersStay
    <2>4. how \in AllHandlerResults \ {"raises_at_once"} /\ how # "invalid_request"
      BY HostAssumption DEF AllHandlerResults
    <2>5. stage[t] = "executing" /\ sent[t] = <<>> /\ t \notin duplicates
      BY <1>0, <2>2 DEF Progress, Sending
    <2>6. Progress(t)'
      BY <1>0, <2>2, <2>3, <2>4, <2>5 DEF Progress
    <2>7. Sending(t)' /\ Cancelled(t)'
      BY <2>2, <2>5 DEF Sending, Cancelled, Over
    <2> QED
      BY <1>2, <2>2, <2>3, <2>6, <2>7 DEF closed
  <1>10. ASSUME NEW t \in Requests, HandlerReturned(t) PROVE Fine
    <2>1. /\ stage[t] = "executing" /\ execution[t] = "ended" /\ t \notin killed
          /\ UNCHANGED <<duplicates, execution, killed, asked, lost, closing>>
      BY <1>10 DEF HandlerReturned
    <2>2. /\ answer[t] \in AllHandlerResults \ {"raises_at_once"} /\ t \notin duplicates
          /\ sent[t] = <<>>
      BY <1>0, <2>1 DEF Progress, Sending
    <2>3. CASE closed /\ Finish(t, FALSE) /\ UNCHANGED <<answer, writers, sent>>
      <3>1. OthersStay(t) /\ stage'[t] = "done"
        BY <1>0, <2>3, FinishOthers
      <3> QED
        BY <1>5, <2>1, <2>3, <3>1
    <2>4. CASE Write(t, ResponseTo(answer[t]))
      <3>1. ResponseTo(answer[t]) \in Written /\ ResponseTo(answer[t]) # "invalid_request"
        BY <2>2, HandlerEndWritten
      <3>2. /\ OthersStay(t) /\ answer'[t] = ResponseTo(answer[t])
            /\ \/ stage'[t] = "locking" /\ sent'[t] = <<>>
               \/ stage'[t] = "done" /\ sent'[t] = <<>> /\ t \in failedTasks'
               \/ /\ stage'[t] \in {"done", "draining"} /\ ~closed
                  /\ sent'[t] = <<FinalAnswer(t, answer'[t])>>
        BY <1>0, <2>2, <2>4, <3>1, WriteOfRequest
      <3> QED
        BY <1>4, <2>1, <2>2, <3>1, <3>2
    <2> QED
      BY <1>10, <2>3, <2>4 DEF HandlerReturned
  <1>11. ASSUME NEW t \in Tasks, AcquireWrite(t) PROVE Fine
    <2>1. /\ stage[t] = "locking" /\ t \notin killed
          /\ UNCHANGED <<duplicates, execution, answer, killed, asked, lost, closing>>
          /\ WriteOut(t, answer[t], Tail(writers))
      BY <1>11 DEF AcquireWrite
    <2>2. CASE t \in Requests
      <3>1. /\ answer[t] \in Written /\ sent[t] = <<>> /\ execution[t] \in {"none", "ended"}
            /\ answer[t] = "invalid_request" <=> t \in duplicates
        BY <1>0, <2>1, <2>2 DEF Progress, Sending, TaskTypeOK
      <3>2. /\ \A u \in Tasks : u # t => stage'[u] = stage[u]
                                         /\ (u \in failedTasks' <=> u \in failedTasks)
            /\ \A u \in Requests : u # t => sent'[u] = sent[u]
            /\ \/ stage'[t] = "done" /\ sent'[t] = <<>> /\ t \in failedTasks'
               \/ /\ stage'[t] \in {"done", "draining"} /\ ~closed
                  /\ sent'[t] = <<FinalAnswer(t, answer[t])>>
        BY <1>0, <2>1, <2>2, <3>1, WriteOutOfRequest
      <3>3. OthersStay(t) /\ answer'[t] = answer[t]
        BY <2>1, <3>2 DEF OthersStay
      <3>4. ~closed /\ answer[t] = "cancelled" => t \in asked \/ execution[t] = "ended"
        BY <1>0, <2>1, <2>2 DEF Cancelled, CancelledFor
      <3> QED
        BY <1>4, <2>1, <2>2, <3>1, <3>2, <3>3, <3>4
    <2>3. CASE t \notin Requests
      <3>1. /\ UNCHANGED sent
            /\ \A u \in Requests : stage'[u] = stage[u]
                                   /\ (u \in failedTasks' <=> u \in failedTasks)
        BY <1>0, <1>1, <2>1, <2>3 DEF WriteOut, Finish
      <3> QED
        BY <1>3, <2>1, <3>1 DEF Untouched, closed
    <2> QED
      BY <2>2, <2>3
  <1>12. ASSUME NEW t \in Tasks, Drained(t) PROVE Fine
    <2>1. /\ stage[t] = "draining" /\ t \notin killed /\ \E fails : Finish(t, fails)
          /\ UNCHANGED <<duplicates, execution, answer, killed, sent, asked, lost, closing>>
      BY <1>12 DEF Drained
    <2>2. OthersStay(t) /\ stage'[t] = "done"
      BY <1>0, <2>1, FinishOthers
    <2>3. CASE t \in Requests
      <3>1. sent[t] # <<>> /\ execution[t] \in {"none", "ended"}
        BY <1>0, <2>1, <2>3 DEF Progress, Sending, TaskTypeOK
      <3> QED
        BY <1>5, <2>1, <2>2, <2>3, <3>1
    <2>4. CASE t \notin Requests
      BY <1>0, <1>3, <2>1, <2>2, <2>4 DEF Untouched, OthersStay, closed
    <2> QED
      BY <2>3, <2>4
  <1>13. ASSUME NEW t \in Requests, DieCancelled(t) PROVE Fine
    <2>1. /\ t \in killed /\ Finish(t, FALSE) /\ killed' = killed \ {t}
          /\ UNCHANGED <<duplicates, execution, answer, sent, asked, lost, closing>>
      BY <1>13 DEF DieCancelled
    <2>2. OthersStay(t) /\ stage'[t] = "done"
      BY <1>0, <2>1, FinishOthers
    <2>3. closed /\ stage[t] # "unsent" /\ execution[t] \in {"none", "ended"}
      BY <1>0, <2>1 DEF Progress, TaskTypeOK
    <2> QED
      BY <1>5, <2>1, <2>2, <2>3
  <1>14. ASSUME NEW t \in Requests, TaskDone(t) PROVE Fine
    <2>1. /\ stage[t] = "done" /\ stage' = [stage EXCEPT ![t] = "reaped"]
          /\ UNCHANGED <<duplicates, execution, answer, failedTasks, killed, sent, asked, lost,
                         closing>>
      BY <1>14 DEF TaskDone
    <2>2. stage'[t] = "reaped" /\ OthersStay(t)
      BY <1>0, <1>1, <2>1 DEF OthersStay
    <2>3. /\ execution[t] \in {"none", "ended"} /\ t \notin killed
          /\ t \in failedTasks \/ sent[t] # <<>> \/ closed \/ lost
      BY <1>0, <2>1 DEF Progress, Sending, Over, TaskTypeOK
    <2> QED
      BY <1>5, <2>1, <2>2, <2>3
  <1>15. ASSUME NEW t \in Tasks, WriteForward(t) PROVE Fine
    <2>1. /\ t \notin Requests /\ Write(t, "request")
          /\ UNCHANGED <<duplicates, execution, killed, asked, lost, closing>>
      BY <1>15, HostAssumption DEF WriteForward
    <2>2. /\ UNCHANGED sent
          /\ \A u \in Requests : /\ stage'[u] = stage[u] /\ answer'[u] = answer[u]
                                 /\ u \in failedTasks' <=> u \in failedTasks
      BY <1>0, <1>1, <2>1 DEF Write, WriteOut, Finish
    <2> QED
      BY <1>3, <2>1, <2>2 DEF Untouched, closed
  <1>16. ASSUME NEW i \in Ids, ReadCancel(i) PROVE Fine
    <2> DEFINE t == serverTasks[i]
    <2>1. /\ asked' = IF sent[t] = <<>> THEN asked \cup {t} ELSE asked
          /\ execution' = [e \in Requests |->
                             IF e = executionTasks[i] /\ execution[e] = "running"
                             THEN "cancelling" ELSE execution[e]]
          /\ UNCHANGED <<duplicates, stage, answer, failedTasks, killed, sent, lost, closing>>
      BY <1>16 DEF ReadCancel
    <2>2. ASSUME NEW u \in Requests PROVE Progress(u)' /\ Sending(u)' /\ Cancelled(u)'
      <3>1. /\ execution'[u] = execution[u] \/ (execution[u] = "running"
                                                /\ execution'[u] = "cancelling")
            /\ u \in asked => u \in asked'
            /\ u \in asked' /\ sent[u] # <<>> => u \in asked
        BY <2>1
      <3>2. Progress(u)'
        BY <1>0, <2>1, <3>1 DEF Progress, closed
      <3>3. Sending(u)'
        BY <1>0, <2>1 DEF Sending, closed
      <3>4. Cancelled(u)'
        BY <1>0, <2>1, <3>1 DEF Cancelled, CancelledFor, closed
      <3> QED
        BY <3>2, <3>3, <3>4
    <2> QED
      BY <2>2 DEF Fine
  <1>17. CASE Close
    <2>1. /\ closed'
          /\ UNCHANGED <<duplicates, stage, answer, failedTasks, sent, asked, lost>>
      BY <1>17 DEF Close, closed
    <2>2. ASSUME NEW u \in Requests PROVE Progress(u)' /\ Sending(u)' /\ Cancelled(u)'
      <3>1. /\ execution'[u] = execution[u] \/ (execution[u] = "running"
                                                /\ execution'[u] = "cancelling")
            /\ u \in killed' => /\ execution[u] \notin {"running", "cancelling"}
                                /\ stage[u] \notin {"unsent", "done", "reaped"}
        <4>1. u \in killed' => \/ \E i \in Ids : u = serverTasks[i] /\ u # None
                               \/ u \in responseTasks
          BY <1>17 DEF Close
        <4>2. u \in killed' => stage[u] # "unsent"
          BY <1>0, <4>1 DEF Tracked
        <4> QED
          BY <1>17, <4>2 DEF Close, Over
      <3>2. u \in killed' => stage[u] \in {"created", "executing", "locking", "draining"}
        BY <1>0, <1>1, <3>1 DEF Stages
      <3>3. Progress(u)'
        BY <1>0, <2>1, <3>1, <3>2 DEF Progress
      <3>4. Sending(u)'
        BY <1>0, <2>1 DEF Sending
      <3>5. Cancelled(u)'
        BY <1>0, <2>1, <3>1 DEF Cancelled, CancelledFor
      <3> QED
        BY <3>3, <3>4, <3>5
    <2> QED
      BY <2>2 DEF Fine
  <1>18. CASE LoseConnection \/ CloseJoined \/ CloseEnds
    BY <1>3, <1>18 DEF LoseConnection, CloseJoined, CloseEnds, Untouched, closed, taskVars
  <1> QED
    BY <1>6, <1>7, <1>8, <1>9, <1>10, <1>11, <1>12, <1>13, <1>14, <1>15, <1>16, <1>17, <1>18
       DEF HostNext, TaskStep, WriterStep

-----------------------------------------------------------------------------
(* What a step of a task does to the others and to the tables: nothing but *)
(* forget its own execution.                                               *)
MovesOn(t) ==
    /\ \A u \in Requests : u # t => stage'[u] = stage[u]
    /\ t \in Requests => stage[t] \notin {"unsent", "reaped"} /\ stage'[t] \notin {"unsent", "reaped"}
    /\ \A i \in Ids : executionTasks'[i] = executionTasks[i] \/ executionTasks[i] = t
    /\ \A u \in Requests : sent[u] # <<>> => sent'[u] # <<>>

LEMMA FinishMovesOn ==
    ASSUME TaskTypeOK, NEW t \in Tasks, NEW fails, Finish(t, fails), sent' = sent,
           t \in Requests => stage[t] \notin {"unsent", "reaped"}
    PROVE  MovesOn(t)
  BY DEF Finish, MovesOn, TaskTypeOK, Tasks

LEMMA WriteOutMovesOn ==
    ASSUME TaskTypeOK, NEW t \in Tasks, NEW what, NEW behind, WriteOut(t, what, behind),
           t \in Requests => stage[t] \notin {"unsent", "reaped"}
    PROVE  MovesOn(t)
  <1>1. \A u \in Requests : sent[u] # <<>> => sent'[u] # <<>>
    <2>1. CASE sent' = sent
      BY <2>1
    <2>2. CASE /\ t \in Requests
               /\ sent' = [sent EXCEPT ![t] = Append(@, FinalAnswer(t, what))]
      <3>1. sent[t] \in Seq(Answers)
        BY <2>2 DEF TaskTypeOK
      <3>2. Append(sent[t], FinalAnswer(t, what)) # <<>>
        <4> DEFINE final == FinalAnswer(t, what)
        <4>1. sent[t] \in Seq(Answers \cup {final}) /\ final \in Answers \cup {final}
          BY <3>1
        <4> HIDE DEF final
        <4>2. Append(sent[t], final) # <<>>
          BY <4>1
        <4> QED
          BY <4>2 DEF final
      <3> QED
        BY <2>2, <3>2 DEF TaskTypeOK
    <2> QED
      BY <2>1, <2>2 DEF WriteOut
  <1>2. \/ stage' = [stage EXCEPT ![t] = "done"]
        \/ stage' = [stage EXCEPT ![t] = "draining"]
    BY DEF WriteOut, Finish
  <1>3. \A i \in Ids : executionTasks'[i] = executionTasks[i] \/ executionTasks[i] = t
    BY DEF WriteOut, Finish
  <1> QED
    BY <1>1, <1>2, <1>3 DEF MovesOn, TaskTypeOK, Tasks

LEMMA WriteMovesOn ==
    ASSUME TaskTypeOK, NEW t \in Tasks, NEW what, Write(t, what),
           t \in Requests => stage[t] \notin {"unsent", "reaped"}
    PROVE  MovesOn(t)
  <1>1. CASE WriteOut(t, what, <<>>)
    BY <1>1, WriteOutMovesOn
  <1>2. CASE /\ stage' = [stage EXCEPT ![t] = "locking"]
             /\ UNCHANGED <<sent, failedTasks, executionTasks>>
    BY <1>2 DEF MovesOn, TaskTypeOK, Tasks
  <1> QED
    BY <1>1, <1>2 DEF Write

(* A request that is being handled keeps its place in the tables. *)
LEMMA TrackedStays ==
    ASSUME Tracked, IdOf \in [Requests -> Ids], serverTasks \in [Ids -> Requests \cup {None}],
           UNCHANGED <<serverTasks, responseTasks, closing>>, duplicates' = duplicates,
           duplicates \subseteq Requests, responseTasks \subseteq duplicates,
           \A u \in Requests : stage'[u] \in {"unsent", "reaped"} <=> stage[u] \in {"unsent", "reaped"},
           \A u \in Requests : execution'[u] \in {"running", "cancelling"} =>
              /\ execution[u] \in {"running", "cancelling"}
              /\ executionTasks[IdOf[u]] = u => executionTasks'[IdOf[u]] = u
    PROVE  Tracked'
  <1>1. ASSUME NEW i \in Ids, serverTasks[i] # None
        PROVE  /\ IdOf[serverTasks[i]] = i /\ serverTasks[i] \notin duplicates
               /\ stage'[serverTasks[i]] \notin {"unsent", "reaped"}
    BY <1>1 DEF Tracked
  <1>2. \A t \in responseTasks : stage'[t] \notin {"unsent", "reaped"}
    BY DEF Tracked
  <1>3. closing \in {"open", "joining"} => \A t \in Requests \ duplicates :
          /\ stage'[t] \notin {"unsent", "reaped"} => serverTasks[IdOf[t]] = t
          /\ execution'[t] \in {"running", "cancelling"} => executionTasks'[IdOf[t]] = t
    BY DEF Tracked
  <1> QED
    BY <1>1, <1>2, <1>3 DEF Tracked

(* Every step keeps the tables right: the request that has an ID is in     *)
(* them until its callback.                                                *)
LEMMA TrackedStep ==
    ASSUME HostInvariant, HostNext
    PROVE  Tracked'
  <1>0. /\ TaskTypeOK /\ TableTypeOK /\ Tracked /\ Requests \subseteq Tasks
        /\ \A u \in Requests : Progress(u)
        /\ IdOf \in [Requests -> Ids] /\ None \notin Requests
    BY HostAssumption DEF HostInvariant, HostTypeOK, Tasks
  <1>1. /\ stage \in [Tasks -> Stages] /\ DOMAIN execution = Requests
        /\ serverTasks \in [Ids -> Requests \cup {None}]
        /\ executionTasks \in [Ids -> Requests \cup {None}]
        /\ responseTasks \subseteq duplicates /\ duplicates \subseteq Requests
    BY <1>0 DEF TaskTypeOK, TableTypeOK, Stages
  <1>2. ASSUME NEW t \in Tasks, MovesOn(t), t \in Requests => execution'[t] \in {"none", "ended"},
               UNCHANGED <<serverTasks, responseTasks, duplicates, closing, execution>>
        PROVE  Tracked'
    <2>1. \A u \in Requests :
             stage'[u] \in {"unsent", "reaped"} <=> stage[u] \in {"unsent", "reaped"}
      BY <1>2 DEF MovesOn
    <2>2. ASSUME NEW u \in Requests, execution'[u] \in {"running", "cancelling"}
          PROVE  /\ execution[u] \in {"running", "cancelling"}
                 /\ executionTasks[IdOf[u]] = u => executionTasks'[IdOf[u]] = u
      <3>1. u # t /\ IdOf[u] \in Ids
        BY <1>0, <1>2, <2>2
      <3> QED
        BY <1>2, <2>2, <3>1 DEF MovesOn
    <2> QED
      BY <1>0, <1>1, <1>2, <2>1, <2>2, TrackedStays
  <1>3. ASSUME NEW t \in Requests, ReadRequest(t) PROVE Tracked'
    <2>1. /\ stage[t] = "unsent" /\ stage' = [stage EXCEPT ![t] = "created"]
          /\ UNCHANGED <<executionTasks, execution, closing>>
      BY <1>3 DEF ReadRequest
    <2>2. /\ stage'[t] = "created" /\ \A u \in Requests : u # t => stage'[u] = stage[u]
          /\ t \notin duplicates /\ execution[t] = "none" /\ IdOf[t] \in Ids
      BY <1>0, <1>1, <2>1 DEF Progress, TaskTypeOK
    <2>3. CASE /\ serverTasks[IdOf[t]] = None
               /\ serverTasks' = [serverTasks EXCEPT ![IdOf[t]] = t]
               /\ UNCHANGED <<responseTasks, duplicates>>
      <3>1. ASSUME NEW i \in Ids, serverTasks'[i] # None
            PROVE  /\ IdOf[serverTasks'[i]] = i /\ serverTasks'[i] \notin duplicates
                   /\ stage'[serverTasks'[i]] \notin {"unsent", "reaped"}
        <4>1. CASE i = IdOf[t]
          BY <1>1, <2>2, <2>3, <4>1
        <4>2. CASE i # IdOf[t]
          <5>1. serverTasks'[i] = serverTasks[i] /\ serverTasks[i] \in Requests
            BY <1>1, <2>3, <3>1, <4>2
          <5>2. IdOf[serverTasks[i]] = i
            BY <1>0, <3>1, <5>1 DEF Tracked
          <5> QED
            BY <1>0, <2>2, <3>1, <4>2, <5>1, <5>2 DEF Tracked
        <4> QED
          BY <4>1, <4>2
      <3>2. ASSUME closing \in {"open", "joining"}, NEW u \in Requests \ duplicates
            PROVE  /\ stage'[u] \notin {"unsent", "reaped"} => serverTasks'[IdOf[u]] = u
                   /\ execution[u] \in {"running", "cancelling"} => executionTasks[IdOf[u]] = u
        <4>1. u # t /\ stage[u] \notin {"unsent", "reaped"} => IdOf[u] # IdOf[t]
          BY <1>0, <2>3, <3>2 DEF Tracked
        <4> QED
          BY <1>0, <1>1, <2>2, <2>3, <3>2, <4>1 DEF Tracked
      <3> QED
        BY <1>0, <1>1, <2>1, <2>2, <2>3, <3>1, <3>2 DEF Tracked
    <2>4. CASE /\ responseTasks' = responseTasks \cup {t} /\ duplicates' = duplicates \cup {t}
               /\ UNCHANGED serverTasks
      <3>1. ASSUME NEW i \in Ids, serverTasks[i] # None
            PROVE  /\ IdOf[serverTasks[i]] = i /\ serverTasks[i] \notin duplicates'
                   /\ stage'[serverTasks[i]] \notin {"unsent", "reaped"}
        <4>1. serverTasks[i] # t /\ serverTasks[i] \in Requests
          BY <1>0, <1>1, <2>1, <3>1 DEF Tracked
        <4> QED
          BY <1>0, <2>2, <2>4, <3>1, <4>1 DEF Tracked
      <3>2. \A u \in responseTasks' : stage'[u] \notin {"unsent", "reaped"}
        BY <1>0, <1>1, <2>2, <2>4 DEF Tracked
      <3>3. closing \in {"open", "joining"} => \A u \in Requests \ duplicates' :
              /\ stage'[u] \notin {"unsent", "reaped"} => serverTasks[IdOf[u]] = u
              /\ execution[u] \in {"running", "cancelling"} => executionTasks[IdOf[u]] = u
        BY <1>0, <2>2, <2>4 DEF Tracked
      <3> QED
        BY <2>1, <2>4, <3>1, <3>2, <3>3 DEF Tracked
    <2> QED
      BY <1>3, <2>3, <2>4 DEF ReadRequest
  <1>4. ASSUME NEW t \in Requests, RefuseDuplicate(t) PROVE Tracked'
    <2>1. MovesOn(t)
      BY <1>0, <1>4, WriteMovesOn DEF RefuseDuplicate
    <2>2. execution[t] = "none"
      BY <1>0, <1>4 DEF RefuseDuplicate, Progress, TaskTypeOK
    <2> QED
      BY <1>0, <1>2, <1>4, <2>1, <2>2 DEF RefuseDuplicate
  <1>5. ASSUME NEW t \in Requests, HandleRequest(t) PROVE Tracked'
    <2>1. /\ stage[t] = "created" /\ t \notin duplicates
          /\ UNCHANGED <<serverTasks, responseTasks, duplicates, closing>>
      BY <1>5 DEF HandleRequest
    <2>2. execution[t] = "none"
      BY <1>0, <2>1 DEF Progress, TaskTypeOK
    <2>3. CASE (\E what : Write(t, what)) /\ UNCHANGED execution
      BY <1>0, <1>2, <2>1, <2>2, <2>3, WriteMovesOn
    <2>4. CASE Finish(t, TRUE) /\ UNCHANGED <<execution, answer, writers, sent>>
      BY <1>0, <1>2, <2>1, <2>2, <2>4, FinishMovesOn
    <2>5. CASE /\ stage' = [stage EXCEPT ![t] = "executing"]
               /\ execution' = [execution EXCEPT ![t] = "running"]
               /\ executionTasks' = [executionTasks EXCEPT ![IdOf[t]] = t]
      <3>1. /\ stage'[t] = "executing" /\ executionTasks'[IdOf[t]] = t /\ IdOf[t] \in Ids
            /\ \A u \in Requests : u # t => stage'[u] = stage[u] /\ execution'[u] = execution[u]
        BY <1>0, <1>1, <2>5
      <3>2. ASSUME NEW i \in Ids, serverTasks[i] # None
            PROVE  /\ IdOf[serverTasks[i]] = i /\ serverTasks[i] \notin duplicates
                   /\ stage'[serverTasks[i]] \notin {"unsent", "reaped"}
        BY <1>0, <1>1, <3>1, <3>2 DEF Tracked
      <3>3. \A u \in responseTasks : stage'[u] \notin {"unsent", "reaped"}
        BY <1>0, <1>1, <3>1 DEF Tracked
      <3>4. ASSUME closing \in {"open", "joining"}, NEW u \in Requests \ duplicates
            PROVE  /\ stage'[u] \notin {"unsent", "reaped"} => serverTasks[IdOf[u]] = u
                   /\ execution'[u] \in {"running", "cancelling"} => executionTasks'[IdOf[u]] = u
        <4>1. CASE u = t
          BY <1>0, <2>1, <3>1, <3>4, <4>1 DEF Tracked
        <4>2. CASE u # t
          <5>1. stage[u] \notin {"unsent", "reaped"} => serverTasks[IdOf[u]] = u
            BY <1>0, <3>4 DEF Tracked
          <5>2. stage[u] \notin {"unsent", "reaped"} => IdOf[u] # IdOf[t]
            BY <1>0, <2>1, <3>4, <4>2, <5>1 DEF Tracked
          <5>3. execution[u] \in {"running", "cancelling"} =>
                  executionTasks[IdOf[u]] = u /\ stage[u] = "executing"
            BY <1>0, <3>4 DEF Tracked, Progress
          <5> QED
            BY <1>0, <1>1, <2>5, <3>1, <4>2, <5>1, <5>2, <5>3
        <4> QED
          BY <4>1, <4>2
      <3> QED
        BY <2>1, <3>2, <3>3, <3>4 DEF Tracked
    <2> QED
      BY <1>5, <2>3, <2>4, <2>5 DEF HandleRequest
  <1>6. ASSUME NEW t \in Requests, HandlerEnds(t) PROVE Tracked'
    <2>1. /\ UNCHANGED <<serverTasks, executionTasks, responseTasks, duplicates, closing, stage>>
          /\ \A u \in Requests : execution'[u] \in {"running", "cancelling"} =>
                execution'[u] = execution[u]
      BY <1>1, <1>6 DEF HandlerEnds, tableVars
    <2> QED
      BY <1>0, <1>1, <2>1, TrackedStays
  <1>7. ASSUME NEW t \in Requests, HandlerReturned(t) PROVE Tracked'
    <2>1. /\ stage[t] = "executing" /\ execution[t] = "ended"
          /\ UNCHANGED <<serverTasks, responseTasks, duplicates, closing, execution>>
      BY <1>7 DEF HandlerReturned
    <2>2. MovesOn(t)
      BY <1>0, <1>7, <2>1, WriteMovesOn, FinishMovesOn DEF HandlerReturned
    <2> QED
      BY <1>0, <1>2, <2>1, <2>2
  <1>8. ASSUME NEW t \in Tasks, AcquireWrite(t) PROVE Tracked'
    <2>1. MovesOn(t)
      BY <1>8, <1>0, WriteOutMovesOn DEF AcquireWrite
    <2>2. t \in Requests => execution[t] \in {"none", "ended"}
      BY <1>0, <1>8 DEF AcquireWrite, Progress, TaskTypeOK
    <2> QED
      BY <1>2, <1>8, <2>1, <2>2 DEF AcquireWrite
  <1>9. ASSUME NEW t \in Tasks, Drained(t) PROVE Tracked'
    <2>1. MovesOn(t)
      BY <1>9, <1>0, FinishMovesOn DEF Drained
    <2>2. t \in Requests => execution[t] \in {"none", "ended"}
      BY <1>0, <1>9 DEF Drained, Progress, TaskTypeOK
    <2> QED
      BY <1>2, <1>9, <2>1, <2>2 DEF Drained
  <1>10. ASSUME NEW t \in Requests, DieCancelled(t) PROVE Tracked'
    <2>1. /\ stage[t] \notin {"unsent", "reaped"} /\ execution[t] \in {"none", "ended"}
      BY <1>0, <1>10 DEF DieCancelled, Progress, TaskTypeOK
    <2>2. MovesOn(t)
      BY <1>10, <1>0, <2>1, FinishMovesOn DEF DieCancelled
    <2> QED
      BY <1>0, <1>2, <1>10, <2>1, <2>2 DEF DieCancelled
  <1>11. ASSUME NEW t \in Requests, TaskDone(t) PROVE Tracked'
    <2>1. /\ stage[t] = "done" /\ stage'[t] = "reaped" /\ IdOf[t] \in Ids
          /\ \A u \in Requests : u # t => stage'[u] = stage[u]
          /\ UNCHANGED <<duplicates, execution, closing>>
      BY <1>0, <1>1, <1>11 DEF TaskDone
    <2>2. execution[t] \in {"none", "ended"}
      BY <1>0, <2>1 DEF Progress, TaskTypeOK
    <2>3. CASE /\ t \in duplicates
               /\ responseTasks' = responseTasks \ {t} /\ UNCHANGED <<serverTasks, executionTasks>>
      <3>1. ASSUME NEW i \in Ids, serverTasks[i] # None
            PROVE  /\ IdOf[serverTasks[i]] = i /\ serverTasks[i] \notin duplicates
                   /\ stage'[serverTasks[i]] \notin {"unsent", "reaped"}
        BY <1>0, <1>1, <2>1, <2>3, <3>1 DEF Tracked
      <3>2. \A u \in responseTasks' : stage'[u] \notin {"unsent", "reaped"}
        BY <1>0, <1>1, <2>1, <2>3 DEF Tracked
      <3>3. closing \in {"open", "joining"} => \A u \in Requests \ duplicates :
              /\ stage'[u] \notin {"unsent", "reaped"} => serverTasks[IdOf[u]] = u
              /\ execution[u] \in {"running", "cancelling"} => executionTasks[IdOf[u]] = u
        BY <1>0, <2>1, <2>3 DEF Tracked
      <3> QED
        BY <2>1, <2>3, <3>1, <3>2, <3>3 DEF Tracked
    <2>4. CASE /\ t \notin duplicates /\ UNCHANGED responseTasks
               /\ serverTasks' = [serverTasks EXCEPT ![IdOf[t]] = IF @ = t THEN None ELSE @]
               /\ executionTasks' = [executionTasks EXCEPT ![IdOf[t]] = None]
      <3>1. \A i \in Ids : serverTasks'[i] # None => serverTasks'[i] = serverTasks[i]
        BY <1>1, <2>4
      <3>2. \A i \in Ids : serverTasks'[i] # t
        BY <1>0, <1>1, <2>1, <2>4 DEF Tracked
      <3>3. ASSUME NEW i \in Ids, serverTasks'[i] # None
            PROVE  /\ IdOf[serverTasks'[i]] = i /\ serverTasks'[i] \notin duplicates
                   /\ stage'[serverTasks'[i]] \notin {"unsent", "reaped"}
        <4>1. serverTasks'[i] = serverTasks[i] /\ serverTasks[i] # t /\ serverTasks[i] \in Requests
          BY <1>1, <3>1, <3>2, <3>3
        <4> QED
          BY <1>0, <2>1, <3>3, <4>1 DEF Tracked
      <3>4. \A u \in responseTasks : stage'[u] \notin {"unsent", "reaped"}
        BY <1>0, <1>1, <2>1, <2>4 DEF Tracked
      <3>5. ASSUME closing \in {"open", "joining"}, NEW u \in Requests \ duplicates
            PROVE  /\ stage'[u] \notin {"unsent", "reaped"} => serverTasks'[IdOf[u]] = u
                   /\ execution[u] \in {"running", "cancelling"} => executionTasks'[IdOf[u]] = u
        <4>1. CASE u = t
          BY <2>1, <2>2, <4>1
        <4>2. CASE u # t
          <5>1. /\ stage[u] \notin {"unsent", "reaped"} => serverTasks[IdOf[u]] = u
                /\ serverTasks[IdOf[t]] = t
            BY <1>0, <2>1, <2>4, <3>5 DEF Tracked
          <5>2. stage[u] \notin {"unsent", "reaped"} => IdOf[u] # IdOf[t]
            BY <4>2, <5>1
          <5>3. execution[u] \in {"running", "cancelling"} =>
                  executionTasks[IdOf[u]] = u /\ stage[u] = "executing"
            BY <1>0, <3>5 DEF Tracked, Progress
          <5> QED
            BY <1>0, <1>1, <2>1, <2>4, <4>2, <5>1, <5>2, <5>3
        <4> QED
          BY <4>1, <4>2
      <3> QED
        BY <2>1, <2>4, <3>3, <3>4, <3>5 DEF Tracked
    <2> QED
      BY <1>11, <2>3, <2>4 DEF TaskDone
  <1>12. ASSUME NEW t \in Tasks, WriteForward(t) PROVE Tracked'
    <2>1. t \notin Requests
      BY <1>12, HostAssumption DEF WriteForward
    <2>2. MovesOn(t)
      BY <1>12, <1>0, <2>1, WriteMovesOn DEF WriteForward
    <2> QED
      BY <1>2, <1>12, <2>1, <2>2 DEF WriteForward
  <1>13. ASSUME NEW i \in Ids, ReadCancel(i) PROVE Tracked'
    <2>1. /\ UNCHANGED <<serverTasks, executionTasks, responseTasks, duplicates, closing, stage>>
          /\ \A u \in Requests : execution'[u] \in {"running", "cancelling"} =>
                execution[u] \in {"running", "cancelling"}
      BY <1>1, <1>13 DEF ReadCancel
    <2> QED
      BY <1>0, <1>1, <2>1, TrackedStays
  <1>14. CASE Close
    <2>1. /\ UNCHANGED <<serverTasks, executionTasks, responseTasks, duplicates, stage>>
          /\ closing = "open"
          /\ \A u \in Requests : execution'[u] \in {"running", "cancelling"} =>
                execution[u] \in {"running", "cancelling"}
      BY <1>1, <1>14 DEF Close, tableVars
    <2> QED
      BY <1>0, <1>1, <2>1 DEF Tracked
  <1>15. CASE LoseConnection
    BY <1>0, <1>15 DEF LoseConnection, Tracked, tableVars, taskVars
  <1>16. CASE CloseJoined
    BY <1>0, <1>16 DEF CloseJoined, Tracked
  <1>17. CASE CloseEnds
    BY <1>0, <1>17 DEF CloseEnds, Tracked, tableVars, taskVars
  <1> QED
    BY <1>3, <1>4, <1>5, <1>6, <1>7, <1>8, <1>9, <1>10, <1>11, <1>12, <1>13, <1>14, <1>15,
       <1>16, <1>17 DEF HostNext, TaskStep, WriterStep

-----------------------------------------------------------------------------
(* Every step keeps the cancelled IDs with the requests they belong to.    *)
LEMMA CancellingStep ==
    ASSUME HostInvariant, HostNext
    PROVE  Cancelling'
  <1>0. /\ TaskTypeOK /\ TableTypeOK /\ Tracked /\ Cancelling /\ Requests \subseteq Tasks
        /\ \A u \in Requests : Progress(u)
        /\ IdOf \in [Requests -> Ids] /\ None \notin Requests
    BY HostAssumption DEF HostInvariant, HostTypeOK, Tasks
  <1>1. /\ stage \in [Tasks -> Stages] /\ serverTasks \in [Ids -> Requests \cup {None}]
        /\ asked \subseteq Requests /\ cancelledIds \subseteq Ids
    BY <1>0 DEF TaskTypeOK, TableTypeOK, Stages
  <1>2. ASSUME UNCHANGED <<serverTasks, duplicates, cancelledIds, asked, closing>>,
               \A u \in Requests :
                  stage'[u] \in {"unsent", "reaped"} <=> stage[u] \in {"unsent", "reaped"},
               \A u \in Requests : stage'[u] = "unsent" <=> stage[u] = "unsent",
               \A u \in Requests : sent[u] # <<>> => sent'[u] # <<>>
        PROVE  Cancelling'
    <2>1. closing = "open" => \A i \in cancelledIds :
             serverTasks[i] # None /\ (serverTasks[i] \in asked \/ sent'[serverTasks[i]] # <<>>)
      BY <1>0, <1>1, <1>2 DEF Cancelling
    <2> QED
      BY <1>0, <1>1, <1>2, <2>1 DEF Cancelling
  <1>3. ASSUME NEW t \in Tasks, MovesOn(t),
               UNCHANGED <<serverTasks, duplicates, cancelledIds, asked, closing>>
        PROVE  Cancelling'
    <2>1. \A u \in Requests :
             /\ stage'[u] \in {"unsent", "reaped"} <=> stage[u] \in {"unsent", "reaped"}
             /\ stage'[u] = "unsent" <=> stage[u] = "unsent"
             /\ sent[u] # <<>> => sent'[u] # <<>>
      BY <1>3 DEF MovesOn
    <2> QED
      BY <1>2, <1>3, <2>1
  <1>4. ASSUME NEW t \in Requests, ReadRequest(t) PROVE Cancelling'
    <2>1. /\ stage[t] = "unsent" /\ stage'[t] = "created"
          /\ \A u \in Requests : u # t => stage'[u] = stage[u]
          /\ UNCHANGED <<cancelledIds, sent, asked, closing>>
      BY <1>0, <1>1, <1>4 DEF ReadRequest
    <2>2. t \notin asked
      BY <1>0, <2>1 DEF Cancelling
    <2>3. asked \cap duplicates' = {}
      BY <1>0, <1>4, <2>2 DEF Cancelling, ReadRequest
    <2>4. closing = "open" => \A i \in cancelledIds : serverTasks'[i] = serverTasks[i]
      <3>1. closing = "open" => \A i \in cancelledIds : serverTasks[i] # None
        BY <1>0 DEF Cancelling
      <3> QED
        BY <1>1, <1>4, <3>1 DEF ReadRequest
    <2> QED
      BY <1>0, <1>1, <2>1, <2>2, <2>3, <2>4 DEF Cancelling
  <1>5. ASSUME NEW i \in Ids, ReadCancel(i) PROVE Cancelling'
    <2> DEFINE t == serverTasks[i]
    <2>1. /\ t # None /\ cancelledIds' = cancelledIds \cup {i}
          /\ asked' = IF sent[t] = <<>> THEN asked \cup {t} ELSE asked
          /\ UNCHANGED <<serverTasks, duplicates, stage, sent, closing>>
      BY <1>5 DEF ReadCancel
    <2>2. t \in Requests /\ IdOf[t] = i /\ t \notin duplicates /\ stage[t] # "unsent"
      BY <1>0, <1>1, <2>1 DEF Tracked
    <2> HIDE DEF t
    <2>3. asked' \cap duplicates' = {} /\ \A u \in asked' : stage'[u] # "unsent"
      BY <1>0, <2>1, <2>2 DEF Cancelling
    <2>4. closing = "open" => \A u \in asked' : stage'[u] # "reaped" => IdOf[u] \in cancelledIds'
      BY <1>0, <2>1, <2>2 DEF Cancelling
    <2>5. t \in asked' \/ sent[t] # <<>>
      BY <2>1
    <2>6. closing = "open" => \A j \in cancelledIds' :
             serverTasks[j] # None /\ (serverTasks[j] \in asked' \/ sent[serverTasks[j]] # <<>>)
      BY <1>0, <2>1, <2>5 DEF Cancelling, t
    <2> QED
      BY <2>1, <2>3, <2>4, <2>6 DEF Cancelling
  <1>6. ASSUME NEW t \in Requests, RefuseDuplicate(t) PROVE Cancelling'
    BY <1>0, <1>3, <1>6, WriteMovesOn DEF RefuseDuplicate
  <1>7. ASSUME NEW t \in Requests, HandleRequest(t) PROVE Cancelling'
    <2>1. /\ stage[t] = "created"
          /\ UNCHANGED <<serverTasks, duplicates, cancelledIds, asked, closing>>
      BY <1>7 DEF HandleRequest
    <2>2. CASE \E what : Write(t, what)
      BY <1>0, <1>3, <2>1, <2>2, WriteMovesOn
    <2>3. CASE Finish(t, TRUE) /\ UNCHANGED <<execution, answer, writers, sent>>
      BY <1>0, <1>3, <2>1, <2>3, FinishMovesOn
    <2>4. CASE stage' = [stage EXCEPT ![t] = "executing"] /\ sent' = sent
      BY <1>0, <1>1, <1>2, <2>1, <2>4
    <2> QED
      BY <1>7, <2>2, <2>3, <2>4 DEF HandleRequest
  <1>8. ASSUME NEW t \in Requests, HandlerEnds(t) PROVE Cancelling'
    BY <1>2, <1>8 DEF HandlerEnds, tableVars
  <1>9. ASSUME NEW t \in Requests, HandlerReturned(t) PROVE Cancelling'
    <2>1. MovesOn(t)
      BY <1>0, <1>9, WriteMovesOn, FinishMovesOn DEF HandlerReturned
    <2> QED
      BY <1>0, <1>3, <1>9, <2>1 DEF HandlerReturned
  <1>10. ASSUME NEW t \in Tasks, AcquireWrite(t) PROVE Cancelling'
    BY <1>0, <1>3, <1>10, WriteOutMovesOn DEF AcquireWrite
  <1>11. ASSUME NEW t \in Tasks, Drained(t) PROVE Cancelling'
    BY <1>0, <1>3, <1>11, FinishMovesOn DEF Drained
  <1>12. ASSUME NEW t \in Requests, DieCancelled(t) PROVE Cancelling'
    <2>1. stage[t] \notin {"unsent", "reaped"}
      BY <1>0, <1>12 DEF DieCancelled, Progress
    <2> QED
      BY <1>0, <1>3, <1>12, <2>1, FinishMovesOn DEF DieCancelled
  <1>13. ASSUME NEW t \in Requests, TaskDone(t) PROVE Cancelling'
    <2>1. /\ stage[t] = "done" /\ stage'[t] = "reaped" /\ IdOf[t] \in Ids
          /\ \A u \in Requests : u # t => stage'[u] = stage[u]
          /\ UNCHANGED <<duplicates, sent, asked, closing>>
      BY <1>0, <1>1, <1>13 DEF TaskDone
    <2>2. \A u \in asked : stage'[u] # "unsent"
      BY <1>0, <1>1, <2>1 DEF Cancelling
    <2>3. CASE closing # "open"
      BY <1>0, <2>1, <2>2, <2>3 DEF Cancelling
    <2>4. CASE t \in duplicates /\ UNCHANGED <<serverTasks, cancelledIds>>
      BY <1>0, <1>1, <2>1, <2>2, <2>4 DEF Cancelling
    <2>5. CASE /\ t \notin duplicates /\ closing = "open"
               /\ serverTasks' = [serverTasks EXCEPT ![IdOf[t]] = IF @ = t THEN None ELSE @]
               /\ cancelledIds' = cancelledIds \ {IdOf[t]}
      <3>1. ASSUME NEW u \in asked, stage'[u] # "reaped"
            PROVE  IdOf[u] \in cancelledIds'
        <4>1. /\ u \in Requests \ duplicates /\ u # t /\ stage[u] \notin {"unsent", "reaped"}
              /\ IdOf[u] \in cancelledIds
          BY <1>0, <1>1, <2>1, <2>5, <3>1 DEF Cancelling
        <4>2. serverTasks[IdOf[u]] = u /\ serverTasks[IdOf[t]] = t
          BY <1>0, <2>1, <2>5, <4>1 DEF Tracked
        <4> QED
          BY <2>5, <4>1, <4>2
      <3>2. \A i \in cancelledIds' : i \in cancelledIds /\ serverTasks'[i] = serverTasks[i]
        BY <1>1, <2>5
      <3> QED
        BY <1>0, <2>1, <2>2, <2>5, <3>1, <3>2 DEF Cancelling
    <2> QED
      BY <1>13, <2>3, <2>4, <2>5 DEF TaskDone
  <1>14. ASSUME NEW t \in Tasks, WriteForward(t) PROVE Cancelling'
    <2>1. t \notin Requests
      BY <1>14, HostAssumption DEF WriteForward
    <2>2. MovesOn(t)
      BY <1>14, <1>0, <2>1, WriteMovesOn DEF WriteForward
    <2> QED
      BY <1>3, <1>14, <2>2 DEF WriteForward
  <1>15. CASE LoseConnection
    BY <1>0, <1>15 DEF LoseConnection, Cancelling, tableVars, taskVars
  <1>16. CASE Close \/ CloseJoined \/ CloseEnds
    <2>1. closing' # "open" /\ UNCHANGED <<asked, duplicates, stage>>
      BY <1>16 DEF Close, CloseJoined, CloseEnds, taskVars
    <2> QED
      BY <1>0, <2>1 DEF Cancelling
  <1> QED
    BY <1>4, <1>5, <1>6, <1>7, <1>8, <1>9, <1>10, <1>11, <1>12, <1>13, <1>14, <1>15, <1>16
       DEF HostNext, TaskStep, WriterStep

-----------------------------------------------------------------------------
LEMMA HostStart == HostInit => HostInvariant
  <1> SUFFICES ASSUME HostInit PROVE HostInvariant
    OBVIOUS
  <1>1. None \notin Requests /\ Requests \subseteq Tasks
    BY HostAssumption DEF Tasks
  <1>2. TableTypeOK /\ CloseTypeOK
    BY DEF HostInit, TableTypeOK, CloseTypeOK
  <1>3. TaskTypeOK
    BY DEF HostInit, TaskTypeOK
  <1>4. LineTypeOK /\ WriteOrder
    <2>1. LockLine(<<>>, stage)
      BY NobodyInLine DEF HostInit
    <2> QED
      BY <2>1 DEF HostInit, LineTypeOK, WriteOrder, LockLine
  <1>5. Tracked
    BY <1>1 DEF HostInit, Tracked
  <1>6. Cancelling
    BY DEF HostInit, Cancelling
  <1>7. ASSUME NEW t \in Requests PROVE Progress(t) /\ Sending(t) /\ Cancelled(t)
    <2>1. /\ stage[t] = "unsent" /\ execution[t] = "none" /\ answer[t] = "none" /\ sent[t] = <<>>
          /\ t \notin duplicates /\ t \notin killed /\ t \notin asked
      BY <1>1 DEF HostInit
    <2>2. Len(<<>>) = 0 /\ <<>> # <<"cancelled">>
      OBVIOUS
    <2> QED
      BY <2>1, <2>2 DEF Progress, Sending, Cancelled, Over
  <1> QED
    BY <1>2, <1>3, <1>4, <1>5, <1>6, <1>7 DEF HostInvariant, HostTypeOK

LEMMA HostStutter == HostInvariant /\ UNCHANGED hostVars => HostInvariant'
  <1> SUFFICES ASSUME HostInvariant, UNCHANGED hostVars PROVE HostInvariant'
    OBVIOUS
  <1> USE DEF hostVars, tableVars, taskVars
  <1>1. HostTypeOK'
    BY DEF HostInvariant, HostTypeOK, TableTypeOK, TaskTypeOK, CloseTypeOK, LineTypeOK
  <1>2. WriteOrder'
    BY DEF HostInvariant, WriteOrder
  <1>3. Tracked'
    BY DEF HostInvariant, Tracked
  <1>4. Cancelling'
    BY DEF HostInvariant, Cancelling
  <1>5. ASSUME NEW t \in Requests PROVE Progress(t)' /\ Sending(t)' /\ Cancelled(t)'
    <2>1. Progress(t) /\ Sending(t) /\ Cancelled(t) /\ Untouched(t)
      BY DEF HostInvariant, Untouched
    <2> QED
      BY <2>1, UntouchedStays DEF closed
  <1> QED
    BY <1>1, <1>2, <1>3, <1>4, <1>5 DEF HostInvariant

(* The inductive invariant of the reverse half: the tables, the cancelled  *)
(* IDs and the line of writers agree with how far each request is.         *)
THEOREM HostInvariance == HostSpec => []HostInvariant
  <1>1. HostInvariant /\ [HostNext]_hostVars => HostInvariant'
    <2>1. ASSUME HostInvariant, HostNext PROVE HostInvariant'
      <3>1. TableTypeOK' /\ TaskTypeOK' /\ CloseTypeOK' /\ WriteOrder'
        BY <2>1, HostTypeStep, HostLineStep DEF HostInvariant, HostTypeOK
      <3>2. LineTypeOK'
        BY <3>1 DEF TaskTypeOK, LineTypeOK, WriteOrder, LockLine
      <3>3. /\ Tracked' /\ Cancelling'
            /\ \A t \in Requests : Progress(t)' /\ Sending(t)' /\ Cancelled(t)'
        BY <2>1, TrackedStep, CancellingStep, RequestStep
      <3> QED
        BY <3>1, <3>2, <3>3 DEF HostInvariant, HostTypeOK
    <2> QED
      BY <2>1, HostStutter
  <1> QED
    BY <1>1, HostStart, PTL DEF HostSpec

(* The variables of the reverse half keep their types.  Above all, the     *)
(* refusals under way are those of duplicates, and nobody stands twice in  *)
(* the line at the write lock.                                             *)
THEOREM HostTypeCorrectness == HostSpec => []HostTypeOK
  <1>1. HostInvariant => HostTypeOK
    BY DEF HostInvariant
  <1> QED
    BY <1>1, HostInvariance, PTL

(* The child gets at most one answer to a request, a duplicate only its    *)
(* refusal, and one by the end of the task unless the client is closed,    *)
(* the pipe is lost or the task failed.                                    *)
THEOREM HostAnsweredOnce == HostSpec => []AnsweredOnce
  <1>1. HostInvariant => AnsweredOnce
    BY DEF HostInvariant, AnsweredOnce, Sending
  <1> QED
    BY <1>1, HostInvariance, PTL

(* A cancellation that arrives before the answer is out wins, and nothing  *)
(* is answered as cancelled that was not.                                  *)
THEOREM HostCancelExact == HostSpec => []CancelExact
  <1>1. HostInvariant => CancelExact
    BY DEF HostInvariant, CancelExact, Cancelled, CancelledFor
  <1> QED
    BY <1>1, HostInvariance, PTL

(* A request that is being handled can be found under its ID as long as    *)
(* the client is open.                                                     *)
THEOREM HostOriginalStaysTracked == HostSpec => []OriginalStaysTracked
  <1>1. HostInvariant => OriginalStaysTracked
    <2> SUFFICES ASSUME HostInvariant, closing = "open", NEW t \in Requests
                 PROVE  /\ stage[t] \in {"executing", "locking", "draining"} /\ t \notin duplicates
                             => serverTasks[IdOf[t]] = t
                        /\ execution[t] \in {"running", "cancelling"} => executionTasks[IdOf[t]] = t
      BY DEF OriginalStaysTracked
    <2>1. Tracked /\ Progress(t)
      BY DEF HostInvariant
    <2> QED
      BY <2>1 DEF Tracked, Progress
  <1> QED
    BY <1>1, HostInvariance, PTL

=============================================================================
