------------------------- MODULE KernelClientProofs -------------------------
(***************************************************************************)
(* The safety properties of KernelClient, for every set of requesters and  *)
(* of tasks that close, and whichever of them may be cancelled.  They rest *)
(* on four facts: the line at the write lock agrees with the stages of the *)
(* calls; every request has an ID of its own and a future that is unset    *)
(* exactly as long as it is pending; nobody but start() makes a request    *)
(* before initialize was answered; and a client that is closed is quiet or *)
(* has a close() under way or cut short.                                   *)
(***************************************************************************)
EXTENDS KernelClient, SharedLemmas

(* The callers at the write lock are those that wait for it and the one    *)
(* that drains, who holds it.                                              *)
WriteOrder == LockLine(writers, stage)

(* Every request has an ID of its own, under which it is written.          *)
OwnIds ==
    /\ \A r, s \in Callers : id[r] = id[s] /\ id[r] # 0 => r = s
    /\ \A sent \in wire : sent = <<id[sent[2]], sent[2]>> /\ id[sent[2]] # 0
    /\ \A r \in Callers : stage[r] \in {"idle", "spawning"} => id[r] = 0
    /\ \A r \in Callers : stage[r] \in InFlight => id[r] # 0

(* A request is in _pending as long as its future is unset, unless its     *)
(* call ended; a response came for a request that was written.             *)
OwnFutures ==
    /\ Correlation
    /\ \A r \in Callers :
          /\ id[r] \in pending => future[r] = "unset"
          /\ future[r] = "response" => <<id[r], r>> \in wire
          /\ stage[r] # "settled" => outcome[r] = None

(* Nobody but start() makes a request before initialize was answered.      *)
StartFirst ==
    /\ started <=> proc # "none"
    /\ started => stage[Starter] \notin {"idle", "spawning"}
    /\ ~started => nextId = 1
    /\ id[Starter] \in {0, 1}
    /\ initialized => started /\ (closed \/ outcome[Starter] = "response")
    /\ outcome[Starter] = "response" => <<1, Starter>> \in wire
    /\ \A r \in Callers : stage[r] \in InFlight => started
    /\ \A r \in Requesters : stage[r] \in InFlight => outcome[Starter] = "response"
    /\ \A sent \in wire : sent[2] # Starter => outcome[Starter] = "response"

(* How far a close() is that waits for the exit, or was cut short there.   *)
Unfinished == {"stopping", "terminating", "killing", "cancelled"}

(* The child is gone and all that waited for it know.                      *)
Quiet ==
    /\ proc = "exited" /\ reader # "running" /\ watcher = "ended"
    /\ \A r \in Callers : stage[r] \in InFlight => future[r] # "unset"

(* start() found no command to launch. *)
NoCommand == outcome[Starter] = "config" /\ proc = "none"

(* A client that is closed with a child is quiet or has a close() under    *)
(* way or cut short, unless it was closed during the launch.               *)
ClosingOrQuiet ==
    /\ stage[Starter] # "settled" => closing[Starter] = "idle"
    /\ StartFailed => closed \/ NoCommand
    /\ proc = "none" => reader = "none" /\ watcher = "none"
    /\ closed /\ proc # "none" /\ ~StartOvertaken =>
          Quiet \/ \E t \in DOMAIN closing : closing[t] \in Unfinished

ClientInvariant ==
    ClientTypeOK /\ WriteOrder /\ OwnIds /\ OwnFutures /\ StartFirst /\ ClosingOrQuiet

-----------------------------------------------------------------------------
(* A caller without a request gets in line, or writes as nobody is there.  *)
LEMMA IssueKeepsLine ==
    ASSUME RequestTypeOK, WriteOrder,
           NEW r \in Callers, stage[r] \in {"idle", "spawning"}, IssueRequest(r)
    PROVE  WriteOrder'
  <1>1. stage \in [Callers -> InFlight \cup {"idle", "spawning", "settled"}]
    BY DEF RequestTypeOK
  <1>2. CASE writers = <<>>
    <2>1. \/ stage' = [stage EXCEPT ![r] = "awaiting"] /\ writers' = <<>>
          \/ stage' = [stage EXCEPT ![r] = "draining"] /\ writers' = <<r>> \o <<>>
      BY <1>2 DEF IssueRequest, WriteLine
    <2>2. /\ LockLine(<<>>, [stage EXCEPT ![r] = "awaiting"])
          /\ LockLine(<<r>> \o <<>>, [stage EXCEPT ![r] = "draining"])
      BY <1>1, <1>2, LineEntered DEF WriteOrder
    <2> QED
      BY <2>1, <2>2 DEF WriteOrder
  <1>3. CASE writers # <<>>
    <2>1. stage' = [stage EXCEPT ![r] = "locking"] /\ writers' = Append(writers, r)
      BY <1>3 DEF IssueRequest
    <2>2. LockLine(Append(writers, r), [stage EXCEPT ![r] = "locking"])
      BY <1>1, <1>3, LineEntered DEF WriteOrder
    <2> QED
      BY <2>1, <2>2 DEF WriteOrder
  <1> QED
    BY <1>2, <1>3

(* Every step keeps the line. *)
LEMMA LineStep ==
    ASSUME RequestTypeOK, WriteOrder, ClientNext
    PROVE  WriteOrder'
  <1>1. stage \in [Callers -> InFlight \cup {"idle", "spawning", "settled"}]
    BY DEF RequestTypeOK
  <1>2. Starter \in Callers
    BY DEF Callers
  <1>3. ASSUME NEW r \in Callers, stage[r] \notin {"locking", "draining"},
               NEW to \in {"awaiting", "settled", "spawning"},
               stage' = [stage EXCEPT ![r] = to], writers' = writers
        PROVE  WriteOrder'
    <2>1. DOMAIN stage' = DOMAIN stage /\ DOMAIN stage = Callers
      BY <1>1, <1>3
    <2>2. \A s \in Callers : \/ stage'[s] = stage[s]
                             \/ /\ stage[s] \notin {"locking", "draining"}
                                /\ stage'[s] \notin {"locking", "draining"}
      BY <1>1, <1>3
    <2> QED
      BY <1>3, <2>1, <2>2, LineUndisturbed DEF WriteOrder
  <1>4. ASSUME NEW r \in Callers, Request(r) PROVE WriteOrder'
    <2>1. CASE IssueRequest(r)
      BY <1>4, <2>1, IssueKeepsLine DEF Request
    <2>2. CASE stage' = [stage EXCEPT ![r] = "settled"] /\ writers' = writers
      BY <1>3, <1>4, <2>2 DEF Request
    <2> QED
      BY <1>4, <2>1, <2>2 DEF Request
  <1>5. ASSUME NEW r \in Callers, AcquireWrite(r) PROVE WriteOrder'
    <2>1. stage[r] = "locking" /\ Head(writers) = r
      BY <1>5 DEF AcquireWrite
    <2>2. \/ \E to \in {"awaiting", "settled"} :
                stage' = [stage EXCEPT ![r] = to] /\ writers' = Tail(writers)
          \/ stage' = [stage EXCEPT ![r] = "draining"] /\ writers' = <<r>> \o Tail(writers)
      BY <1>5 DEF AcquireWrite, Reject, WriteLine
    <2>3. /\ LockLine(Tail(writers), [stage EXCEPT ![r] = "awaiting"])
          /\ LockLine(Tail(writers), [stage EXCEPT ![r] = "settled"])
          /\ LockLine(<<r>> \o Tail(writers), [stage EXCEPT ![r] = "draining"])
      BY <1>1, <2>1, HeadServed DEF WriteOrder
    <2> QED
      BY <2>2, <2>3 DEF WriteOrder
  <1>6. ASSUME NEW r \in Callers, Drained(r) PROVE WriteOrder'
    <2>1. stage[r] = "draining" /\ Head(writers) = r
      BY <1>1, <1>6 DEF Drained, WriteOrder, LockLine
    <2>2. \E to \in {"awaiting", "settled"} :
             stage' = [stage EXCEPT ![r] = to] /\ writers' = Tail(writers)
      BY <1>6 DEF Drained, Reject
    <2>3. /\ LockLine(Tail(writers), [stage EXCEPT ![r] = "awaiting"])
          /\ LockLine(Tail(writers), [stage EXCEPT ![r] = "settled"])
      BY <1>1, <2>1, HeadServed DEF WriteOrder
    <2> QED
      BY <2>2, <2>3 DEF WriteOrder
  <1>7. ASSUME NEW r \in Callers, CancelCall(r) PROVE WriteOrder'
    <2>1. stage' = [stage EXCEPT ![r] = "settled"] /\ writers' = Without(writers, r)
      BY <1>7 DEF CancelCall, Reject
    <2> QED
      BY <1>1, <2>1, LineLeft DEF WriteOrder
  <1>8. ASSUME NEW r \in Callers, Awake(r) \/ RequestTimeout(r) PROVE WriteOrder'
    <2>1. stage[r] = "awaiting" /\ stage' = [stage EXCEPT ![r] = "settled"] /\ writers' = writers
      BY <1>8 DEF Awake, RequestTimeout, Reject
    <2> QED
      BY <1>3, <2>1
  <1>9. CASE Start
    BY <1>2, <1>3, <1>9 DEF Start
  <1>10. CASE Spawned
    <2>1. CASE IssueRequest(Starter)
      BY <1>2, <1>10, <2>1, IssueKeepsLine DEF Spawned
    <2>2. CASE stage' = [stage EXCEPT ![Starter] = "settled"] /\ writers' = writers
      BY <1>2, <1>3, <1>10, <2>2 DEF Spawned
    <2> QED
      BY <1>10, <2>1, <2>2 DEF Spawned
  <1>11. CASE SpawnFails \/ SpawnCancelled
    <2>1. /\ stage[Starter] = "spawning" /\ stage' = [stage EXCEPT ![Starter] = "settled"]
          /\ writers' = writers
      BY <1>11 DEF SpawnFails, SpawnCancelled, Reject
    <2> QED
      BY <1>2, <1>3, <2>1
  <1>12. CASE \/ \E t \in Closers \cup {Starter} : Close(t) \/ CloserStep(t)
                                                  \/ CancelClose(t)
              \/ ProcessExits \/ ReadResponse \/ ReadMalformed \/ ReadEof \/ WatchExit
    <2>1. writers' = writers /\ stage' = stage
      BY <1>12 DEF Close, CloserStep, CloseEscalate, CloseReap, CancelClose,
                   ProcessExits, ReadResponse, ReadMalformed, ReadEof, WatchExit, callVars
    <2> QED
      BY <2>1 DEF WriteOrder
  <1> QED
    BY <1>4, <1>5, <1>6, <1>7, <1>8, <1>9, <1>10, <1>11, <1>12 DEF ClientNext, CallerStep

-----------------------------------------------------------------------------
(* The IDs of the requests and the pending ones among them grow together.  *)
LEMMA IssueKeepsTypes ==
    ASSUME RequestTypeOK, NEW r \in Callers, IssueRequest(r), reply' = reply,
           outcome' = outcome
    PROVE  RequestTypeOK'
  <1>1. /\ nextId' \in Nat \ {0} /\ pending' \subseteq 1..(nextId' - 1)
        /\ id' \in [Callers -> 0..(nextId' - 1)]
    <2>1. /\ nextId \in Nat \ {0} /\ pending \subseteq 1..(nextId - 1)
          /\ id \in [Callers -> 0..(nextId - 1)]
      BY DEF RequestTypeOK
    <2>2. /\ nextId' = nextId + 1 /\ id' = [id EXCEPT ![r] = nextId]
          /\ pending' = pending \cup {nextId}
      BY DEF IssueRequest
    <2>3. nextId' \in Nat \ {0} /\ nextId \in 0..(nextId' - 1)
      BY <2>1, <2>2
    <2>4. pending' \subseteq 1..(nextId' - 1)
      BY <2>1, <2>2
    <2>5. \A s \in Callers : id'[s] \in 0..(nextId' - 1)
      BY <2>1, <2>2
    <2> QED
      BY <2>1, <2>2, <2>3, <2>4, <2>5
  <1>2. future' \in [Callers -> {"none", "unset", "response", "protocol", "process"}]
    BY DEF RequestTypeOK, IssueRequest
  <1>3. wire' \subseteq (Nat \X Callers)
    BY DEF RequestTypeOK, IssueRequest, WriteLine
  <1>4. stage' \in [Callers -> InFlight \cup {"idle", "spawning", "settled"}]
    BY DEF RequestTypeOK, IssueRequest, WriteLine, InFlight
  <1> QED
    BY <1>1, <1>2, <1>3, <1>4 DEF RequestTypeOK

(* A call that ends keeps the types. *)
LEMMA RejectKeepsTypes ==
    ASSUME RequestTypeOK, FlagTypeOK, NEW r \in Callers,
           NEW kind \in {"protocol", "process", "state", "os", "timeout", "cancelled", "config"},
           Reject(r, kind), UNCHANGED <<nextId, id, future, reply, wire>>,
           UNCHANGED <<started, proc, reader, watcher>>,
           initialized' \in BOOLEAN, failure' \in {None, "protocol", "process"}
    PROVE  RequestTypeOK' /\ FlagTypeOK'
  <1>1. pending' \subseteq pending
    BY DEF Reject
  <1>2. /\ stage' \in [Callers -> InFlight \cup {"idle", "spawning", "settled"}]
        /\ outcome' \in [Callers -> {None, "response", "protocol", "process", "state", "os",
                                     "timeout", "cancelled", "config"}]
    BY DEF RequestTypeOK, Reject
  <1>3. RequestTypeOK'
    BY <1>1, <1>2 DEF RequestTypeOK
  <1>4. /\ closed' \in BOOLEAN
        /\ closing' \in [Closers \cup {Starter} ->
                           {"idle", "stopping", "terminating", "killing", "closed", "cancelled"}]
    BY DEF FlagTypeOK, Reject, BeginClose
  <1>5. FlagTypeOK'
    BY <1>4 DEF FlagTypeOK
  <1> QED
    BY <1>3, <1>5

LEMMA FailureType ==
    ASSUME FlagTypeOK
    PROVE  /\ FirstFailure("process") \in {"protocol", "process"}
           /\ FirstFailure("protocol") \in {"protocol", "process"}
  BY DEF FlagTypeOK, FirstFailure

(* All pending futures fail. *)
LEMMA FailPendingKeepsTypes ==
    ASSUME RequestTypeOK, NEW kind \in {"protocol", "process"}, FailPending(kind),
           UNCHANGED <<nextId, id, reply, wire, stage, outcome>>
    PROVE  RequestTypeOK'
  <1>1. future' \in [Callers -> {"none", "unset", "response", "protocol", "process"}]
    BY DEF RequestTypeOK, FailPending
  <1>2. pending' \subseteq 1..(nextId - 1)
    BY DEF FailPending
  <1> QED
    BY <1>1, <1>2 DEF RequestTypeOK

(* Every step keeps the types of the requests and of the flags. *)
LEMMA TypeStep ==
    ASSUME RequestTypeOK, FlagTypeOK, ClientNext
    PROVE  RequestTypeOK' /\ FlagTypeOK'
  <1>1. Starter \in Callers
    BY DEF Callers
  <1>2. ASSUME UNCHANGED <<flagVars, childVars, closing>> PROVE FlagTypeOK'
    BY <1>2 DEF FlagTypeOK, flagVars, childVars
  <1>3. ASSUME UNCHANGED <<nextId, pendingVars, callVars, wire>> PROVE RequestTypeOK'
    BY <1>3 DEF RequestTypeOK, pendingVars, callVars
  <1>4. ASSUME NEW r \in Callers, Request(r)
        PROVE  RequestTypeOK' /\ FlagTypeOK'
    <2>1. FlagTypeOK'
      BY <1>2, <1>4 DEF Request
    <2>2. CASE IssueRequest(r) /\ outcome' = outcome
      BY <1>4, <2>1, <2>2, IssueKeepsTypes DEF Request
    <2>3. CASE /\ stage' = [stage EXCEPT ![r] = "settled"]
               /\ outcome' = [outcome EXCEPT ![r] = "state"]
               /\ UNCHANGED <<nextId, pendingVars, id, wire, writers>>
      BY <1>4, <2>1, <2>3 DEF Request, RequestTypeOK, pendingVars
    <2> QED
      BY <1>4, <2>2, <2>3 DEF Request
  <1>5. ASSUME NEW r \in Callers, AcquireWrite(r)
        PROVE  RequestTypeOK' /\ FlagTypeOK'
    <2>1. CASE Reject(r, "state") /\ UNCHANGED wire
      BY <1>5, <2>1, RejectKeepsTypes DEF AcquireWrite, FlagTypeOK, childVars
    <2>2. CASE WriteLine(r, id[r], Tail(writers)) /\ UNCHANGED <<closed, closing, pending, outcome>>
      <3>1. FlagTypeOK'
        BY <1>2, <1>5, <2>2 DEF AcquireWrite, flagVars
      <3>2. stage' \in [Callers -> InFlight \cup {"idle", "spawning", "settled"}]
        BY <2>2 DEF RequestTypeOK, WriteLine, InFlight
      <3>3. wire' \subseteq (Nat \X Callers)
        BY <2>2 DEF RequestTypeOK, WriteLine
      <3> QED
        BY <1>5, <2>2, <3>1, <3>2, <3>3 DEF AcquireWrite, RequestTypeOK
    <2> QED
      BY <1>5, <2>1, <2>2 DEF AcquireWrite
  <1>6. ASSUME NEW r \in Callers, Drained(r)
        PROVE  RequestTypeOK' /\ FlagTypeOK'
    <2>1. CASE Reject(r, IF r = Starter THEN "process" ELSE "os")
      BY <1>6, <2>1, RejectKeepsTypes DEF Drained, FlagTypeOK, childVars
    <2>2. CASE /\ stage' = [stage EXCEPT ![r] = "awaiting"]
               /\ UNCHANGED <<closed, closing, pending, outcome>>
      <3>1. FlagTypeOK'
        BY <1>2, <1>6, <2>2 DEF Drained, flagVars
      <3> QED
        BY <1>6, <2>2, <3>1 DEF Drained, RequestTypeOK, InFlight
    <2> QED
      BY <1>6, <2>1, <2>2 DEF Drained
  <1>7. ASSUME NEW r \in Callers, CancelCall(r)
        PROVE  RequestTypeOK' /\ FlagTypeOK'
    BY <1>7, RejectKeepsTypes DEF CancelCall, FlagTypeOK, childVars
  <1>8. ASSUME NEW r \in Callers, Awake(r)
        PROVE  RequestTypeOK' /\ FlagTypeOK'
    <2>1. CASE /\ stage' = [stage EXCEPT ![r] = "settled"]
               /\ outcome' = [outcome EXCEPT ![r] = "response"]
               /\ initialized' = (initialized \/ r = Starter)
               /\ UNCHANGED <<closed, closing, pending>>
      <3>1. FlagTypeOK'
        BY <1>8, <2>1 DEF Awake, FlagTypeOK, childVars
      <3> QED
        BY <1>8, <2>1, <3>1 DEF Awake, RequestTypeOK
    <2>2. CASE \E kind \in {"protocol", "process"} : Reject(r, kind) /\ initialized' \in BOOLEAN
      BY <1>8, <2>2, RejectKeepsTypes DEF Awake, FlagTypeOK, childVars
    <2>3. initialized \in BOOLEAN
      BY DEF FlagTypeOK
    <2> QED
      BY <1>8, <2>1, <2>2, <2>3, FailureType DEF Awake
  <1>9. ASSUME NEW r \in Callers, RequestTimeout(r)
        PROVE  RequestTypeOK' /\ FlagTypeOK'
    <2>1. failure' \in {None, "protocol", "process"} /\ initialized' \in BOOLEAN
      BY <1>9, FailureType DEF RequestTimeout, FlagTypeOK
    <2>2. Reject(r, "process") \/ Reject(r, "timeout")
      BY <1>9 DEF RequestTimeout
    <2> QED
      BY <1>9, <2>1, <2>2, RejectKeepsTypes DEF RequestTimeout, childVars
  <1>10. CASE Start
    <2>1. FlagTypeOK'
      BY <1>2, <1>10 DEF Start
    <2> QED
      BY <1>1, <1>10, <2>1 DEF Start, RequestTypeOK, pendingVars
  <1>11. CASE Spawned
    <2>1. CASE IssueRequest(Starter) /\ UNCHANGED <<outcome, closing>>
      <3>1. FlagTypeOK'
        BY <1>11, <2>1 DEF Spawned, FlagTypeOK
      <3> QED
        BY <1>1, <1>11, <2>1, <3>1, IssueKeepsTypes DEF Spawned
    <2>2. CASE /\ nextId' = nextId + 1
               /\ id' = [id EXCEPT ![Starter] = nextId]
               /\ stage' = [stage EXCEPT ![Starter] = "settled"]
               /\ outcome' = [outcome EXCEPT ![Starter] = "state"]
               /\ closing' = [closing EXCEPT ![Starter] = "closed"]
               /\ UNCHANGED <<pendingVars, wire, writers>>
      <3>1. FlagTypeOK'
        BY <1>11, <2>2 DEF Spawned, FlagTypeOK
      <3>2. /\ nextId' \in Nat \ {0} /\ pending' \subseteq 1..(nextId' - 1)
            /\ id' \in [Callers -> 0..(nextId' - 1)]
        BY <1>1, <2>2 DEF RequestTypeOK, pendingVars
      <3>3. /\ stage' \in [Callers -> InFlight \cup {"idle", "spawning", "settled"}]
            /\ outcome' \in [Callers -> {None, "response", "protocol", "process", "state",
                                         "os", "timeout", "cancelled", "config"}]
        BY <2>2 DEF RequestTypeOK
      <3> QED
        BY <1>11, <2>2, <3>1, <3>2, <3>3 DEF Spawned, RequestTypeOK, pendingVars
    <2> QED
      BY <1>11, <2>1, <2>2 DEF Spawned
  <1>12. CASE SpawnFails
    BY <1>1, <1>12, RejectKeepsTypes DEF SpawnFails, FlagTypeOK, childVars
  <1>13. CASE SpawnCancelled
    BY <1>1, <1>13, RejectKeepsTypes DEF SpawnCancelled, FlagTypeOK, childVars
  <1>14. ASSUME NEW t \in Closers \cup {Starter}, Close(t)
         PROVE  RequestTypeOK' /\ FlagTypeOK'
    BY <1>3, <1>14 DEF Close, BeginClose, FlagTypeOK, childVars
  <1>15. ASSUME NEW t \in Closers \cup {Starter}, CloseEscalate(t)
         PROVE  RequestTypeOK' /\ FlagTypeOK'
    BY <1>3, <1>15 DEF CloseEscalate, FlagTypeOK, childVars, flagVars
  <1>16. ASSUME NEW t \in Closers \cup {Starter}, CloseReap(t)
         PROVE  RequestTypeOK' /\ FlagTypeOK'
    <2>1. RequestTypeOK'
      BY <1>16, FailureType, FailPendingKeepsTypes DEF CloseReap, callVars
    <2> QED
      BY <1>16, <2>1 DEF CloseReap, FlagTypeOK, flagVars
  <1>17. CASE ProcessExits
    BY <1>3, <1>17 DEF ProcessExits, FlagTypeOK, flagVars
  <1>18. CASE ReadResponse
    <2>1. FlagTypeOK'
      BY <1>2, <1>18 DEF ReadResponse
    <2>2. PICK sent \in wire :
            LET answered == {r \in Callers : /\ id[r] = sent[1]
                                             /\ sent[1] \in pending
                                             /\ future[r] = "unset"}
            IN  /\ future' = [r \in Callers |->
                                IF r \in answered THEN "response" ELSE future[r]]
                /\ reply' = [r \in Callers |-> IF r \in answered THEN sent[2] ELSE reply[r]]
                /\ pending' = pending \ {sent[1]}
      BY <1>18 DEF ReadResponse
    <2>3. sent[2] \in Callers
      BY DEF RequestTypeOK
    <2>4. /\ future' \in [Callers -> {"none", "unset", "response", "protocol", "process"}]
          /\ reply' \in [Callers -> Callers \cup {None}]
          /\ pending' \subseteq pending
      BY <2>2, <2>3 DEF RequestTypeOK
    <2> QED
      BY <1>18, <2>1, <2>4 DEF ReadResponse, RequestTypeOK
  <1>19. CASE ReadMalformed
    <2>1. RequestTypeOK'
      BY <1>19, FailPendingKeepsTypes DEF ReadMalformed, callVars
    <2> QED
      BY <1>19, <2>1, FailureType DEF ReadMalformed, FlagTypeOK
  <1>20. CASE ReadEof
    BY <1>3, <1>20 DEF ReadEof, FlagTypeOK, flagVars
  <1>21. CASE WatchExit
    <2>1. FlagTypeOK'
      BY <1>21, FailureType DEF WatchExit, FlagTypeOK
    <2>2. CASE UNCHANGED pendingVars
      BY <1>3, <1>21, <2>1, <2>2 DEF WatchExit
    <2>3. CASE failure' = FirstFailure("process") /\ FailPending(failure')
      BY <1>21, <2>1, <2>3, FailureType, FailPendingKeepsTypes DEF WatchExit, callVars
    <2> QED
      BY <1>21, <2>2, <2>3 DEF WatchExit
  <1>22. ASSUME NEW t \in Closers \cup {Starter}, CancelClose(t)
         PROVE  RequestTypeOK' /\ FlagTypeOK'
    BY <1>3, <1>22 DEF CancelClose, FlagTypeOK, childVars, flagVars
  <1> QED
    BY <1>4, <1>5, <1>6, <1>7, <1>8, <1>9, <1>10, <1>11, <1>12, <1>13, <1>14, <1>15, <1>16,
       <1>17, <1>18, <1>19, <1>20, <1>21, <1>22 DEF ClientNext, CallerStep, CloserStep

-----------------------------------------------------------------------------
(* What no step takes back: a call that ended, a request that was written, *)
(* the close and the start of the client.                                  *)
LEMMA NothingTakenBack ==
    ASSUME RequestTypeOK, FlagTypeOK, ClientNext
    PROVE  /\ \A r \in Callers : stage[r] = "settled" =>
                  stage'[r] = "settled" /\ outcome'[r] = outcome[r]
           /\ \A r \in Callers : stage'[r] \in {"idle", "spawning"} =>
                  stage[r] \in {"idle", "spawning"} /\ outcome'[r] = outcome[r]
           /\ wire \subseteq wire'
           /\ closed => closed'
           /\ started => started'
           /\ initialized => initialized' \/ closed'
  <1> DEFINE Kept ==
               /\ \A r \in Callers : stage[r] = "settled" =>
                      stage'[r] = "settled" /\ outcome'[r] = outcome[r]
               /\ \A r \in Callers : stage'[r] \in {"idle", "spawning"} =>
                      stage[r] \in {"idle", "spawning"} /\ outcome'[r] = outcome[r]
               /\ wire \subseteq wire'
               /\ closed => closed'
               /\ started => started'
               /\ initialized => initialized' \/ closed'
  <1>1. Starter \in Callers
    BY DEF Callers
  <1>2. /\ stage \in [Callers -> InFlight \cup {"idle", "spawning", "settled"}]
        /\ outcome \in [Callers -> {None, "response", "protocol", "process", "state", "os",
                                    "timeout", "cancelled", "config"}]
    BY DEF RequestTypeOK
  <1>3. ASSUME UNCHANGED <<stage, outcome>>, wire' = wire, closed => closed',
               started => started', initialized' = initialized
        PROVE  Kept
    BY <1>3
  <1>4. ASSUME NEW r \in Callers, stage[r] # "settled",
               NEW to \in InFlight \cup {"settled", "spawning"},
               to = "spawning" => stage[r] = "idle" /\ outcome' = outcome,
               stage' = [stage EXCEPT ![r] = to],
               \A s \in Callers : s # r => outcome'[s] = outcome[s],
               wire \subseteq wire', closed => closed', started => started',
               initialized => initialized' \/ closed'
        PROVE  Kept
    <2>1. \A s \in Callers : stage'[s] = IF s = r THEN to ELSE stage[s]
      BY <1>2, <1>4
    <2> QED
      BY <1>4, <2>1 DEF InFlight
  <1>5. ASSUME NEW r \in Callers, stage[r] # "settled", IssueRequest(r), outcome' = outcome,
               closed' = closed, started => started', initialized' = initialized
        PROVE  Kept
    <2>1. /\ wire \subseteq wire'
          /\ \E to \in InFlight : stage' = [stage EXCEPT ![r] = to]
      BY <1>5 DEF IssueRequest, WriteLine, InFlight
    <2>2. \A to \in InFlight : to # "spawning"
      BY DEF InFlight
    <2> HIDE DEF Kept
    <2> QED
      BY <1>4, <1>5, <2>1, <2>2
  <1>6. ASSUME NEW r \in Callers, stage[r] # "settled", NEW kind, Reject(r, kind),
               wire' = wire, started' = started, initialized => initialized' \/ closed'
        PROVE  Kept
    <2>1. /\ stage' = [stage EXCEPT ![r] = "settled"]
          /\ \A s \in Callers : s # r => outcome'[s] = outcome[s]
          /\ closed => closed'
      BY <1>2, <1>6 DEF Reject, BeginClose
    <2> HIDE DEF Kept
    <2> QED
      BY <1>4, <1>6, <2>1
  <1>7. ASSUME NEW r \in Callers, Request(r) PROVE Kept
    <2>1. CASE IssueRequest(r) /\ outcome' = outcome
      BY <1>5, <1>7, <2>1 DEF Request, flagVars
    <2>2. CASE /\ stage' = [stage EXCEPT ![r] = "settled"]
               /\ outcome' = [outcome EXCEPT ![r] = "state"]
               /\ wire' = wire
      BY <1>2, <1>4, <1>7, <2>2 DEF Request, flagVars
    <2> QED
      BY <1>7, <2>1, <2>2 DEF Request
  <1>8. ASSUME NEW r \in Callers, AcquireWrite(r) PROVE Kept
    <2>1. CASE Reject(r, "state") /\ wire' = wire
      BY <1>6, <1>8, <2>1 DEF AcquireWrite
    <2>2. CASE WriteLine(r, id[r], Tail(writers)) /\ UNCHANGED <<closed, outcome>>
      BY <1>4, <1>8, <2>2 DEF AcquireWrite, WriteLine, InFlight
    <2> QED
      BY <1>8, <2>1, <2>2 DEF AcquireWrite
  <1>9. ASSUME NEW r \in Callers, Drained(r) PROVE Kept
    <2>1. CASE Reject(r, IF r = Starter THEN "process" ELSE "os")
      BY <1>6, <1>9, <2>1 DEF Drained
    <2>2. CASE stage' = [stage EXCEPT ![r] = "awaiting"] /\ UNCHANGED <<closed, outcome>>
      BY <1>4, <1>9, <2>2 DEF Drained, InFlight
    <2> QED
      BY <1>9, <2>1, <2>2 DEF Drained
  <1>10. ASSUME NEW r \in Callers, CancelCall(r) PROVE Kept
    BY <1>6, <1>10 DEF CancelCall, InFlight
  <1>11. ASSUME NEW r \in Callers, Awake(r) PROVE Kept
    <2>1. CASE /\ stage' = [stage EXCEPT ![r] = "settled"]
               /\ outcome' = [outcome EXCEPT ![r] = "response"]
               /\ initialized' = (initialized \/ r = Starter)
               /\ closed' = closed
      BY <1>2, <1>4, <1>11, <2>1 DEF Awake
    <2>2. CASE Reject(r, "protocol") /\ r = Starter
      BY <1>6, <1>11, <2>2 DEF Awake, Reject, BeginClose
    <2>3. CASE \E kind : Reject(r, kind) /\ UNCHANGED initialized
      BY <1>6, <1>11, <2>3 DEF Awake
    <2> QED
      BY <1>11, <2>1, <2>2, <2>3 DEF Awake
  <1>12. ASSUME NEW r \in Callers, RequestTimeout(r) PROVE Kept
    BY <1>6, <1>12 DEF RequestTimeout
  <1>13. CASE Start
    <2>1. CASE stage' = [stage EXCEPT ![Starter] = "spawning"] /\ UNCHANGED outcome
      BY <1>1, <1>4, <1>13, <2>1 DEF Start, flagVars
    <2>2. CASE /\ stage' = [stage EXCEPT ![Starter] = "settled"]
               /\ outcome' = [outcome EXCEPT ![Starter] = IF closed THEN "state" ELSE "config"]
      BY <1>1, <1>2, <1>4, <1>13, <2>2 DEF Start, flagVars
    <2> QED
      BY <1>13, <2>1, <2>2 DEF Start
  <1>14. CASE Spawned
    <2>1. CASE IssueRequest(Starter) /\ outcome' = outcome
      BY <1>1, <1>5, <1>14, <2>1 DEF Spawned
    <2>2. CASE /\ stage' = [stage EXCEPT ![Starter] = "settled"]
               /\ outcome' = [outcome EXCEPT ![Starter] = "state"]
               /\ wire' = wire
      BY <1>1, <1>2, <1>4, <1>14, <2>2 DEF Spawned
    <2> QED
      BY <1>14, <2>1, <2>2 DEF Spawned
  <1>15. CASE SpawnFails \/ SpawnCancelled
    BY <1>1, <1>6, <1>15 DEF SpawnFails, SpawnCancelled
  <1>16. CASE \/ \E t \in Closers \cup {Starter} : Close(t) \/ CloserStep(t)
                                                  \/ CancelClose(t)
              \/ ProcessExits \/ ReadResponse \/ ReadMalformed \/ ReadEof \/ WatchExit
    <2>1. /\ UNCHANGED <<stage, outcome>> /\ wire' = wire /\ (closed => closed')
          /\ started' = started /\ initialized' = initialized
      BY <1>16 DEF Close, BeginClose, CloserStep, CloseEscalate, CloseReap, CancelClose, ProcessExits,
                   ReadResponse, ReadMalformed, ReadEof, WatchExit, callVars, flagVars
    <2> QED
      BY <1>3, <2>1
  <1> QED
    BY <1>7, <1>8, <1>9, <1>10, <1>11, <1>12, <1>13, <1>14, <1>15, <1>16
       DEF ClientNext, CallerStep

-----------------------------------------------------------------------------
(* A new request gets an ID that no request had. *)
LEMMA IssueKeepsIds ==
    ASSUME RequestTypeOK, OwnIds,
           NEW r \in Callers, stage[r] \in {"idle", "spawning"}, IssueRequest(r)
    PROVE  OwnIds'
  <1>1. /\ nextId \in Nat \ {0} /\ id \in [Callers -> 0..(nextId - 1)]
        /\ stage \in [Callers -> InFlight \cup {"idle", "spawning", "settled"}]
        /\ wire \subseteq (Nat \X Callers)
    BY DEF RequestTypeOK
  <1>2. \A s \in Callers : id'[s] = IF s = r THEN nextId ELSE id[s]
    BY <1>1 DEF IssueRequest
  <1>3. \A s \in Callers : id[s] # nextId /\ nextId # 0
    BY <1>1
  <1>4. \E to \in InFlight : \A s \in Callers : stage'[s] = IF s = r THEN to ELSE stage[s]
    BY <1>1 DEF IssueRequest, WriteLine, InFlight
  <1>5. id[r] = 0
    BY DEF OwnIds
  <1>6. wire' \subseteq wire \cup {<<nextId, r>>}
    BY DEF IssueRequest, WriteLine
  <1>7. ASSUME NEW sent \in wire'
        PROVE  sent = <<id'[sent[2]], sent[2]>> /\ id'[sent[2]] # 0
    <2>1. CASE sent = <<nextId, r>>
      BY <1>2, <1>3, <2>1
    <2>2. CASE sent \in wire
      <3>1. sent = <<id[sent[2]], sent[2]>> /\ id[sent[2]] # 0 /\ sent[2] \in Callers
        BY <1>1, <2>2 DEF OwnIds
      <3> QED
        BY <1>2, <1>5, <3>1
    <2> QED
      BY <1>6, <1>7, <2>1, <2>2
  <1>8. \A s \in Callers : /\ stage'[s] \in {"idle", "spawning"} => id'[s] = 0
                           /\ stage'[s] \in InFlight => id'[s] # 0
    BY <1>2, <1>3, <1>4 DEF OwnIds, InFlight
  <1>9. \A s, t \in Callers : id'[s] = id'[t] /\ id'[s] # 0 => s = t
    BY <1>2, <1>3 DEF OwnIds
  <1> QED
    BY <1>7, <1>8, <1>9 DEF OwnIds

(* Every step keeps the IDs apart. *)
LEMMA IdsStep ==
    ASSUME RequestTypeOK, FlagTypeOK, OwnIds, ClientNext
    PROVE  OwnIds'
  <1>1. Starter \in Callers
    BY DEF Callers
  <1>2. /\ nextId \in Nat \ {0} /\ id \in [Callers -> 0..(nextId - 1)]
        /\ stage \in [Callers -> InFlight \cup {"idle", "spawning", "settled"}]
        /\ wire \subseteq (Nat \X Callers)
    BY DEF RequestTypeOK
  <1>3. \A r \in Callers : stage'[r] \in {"idle", "spawning"} => stage[r] \in {"idle", "spawning"}
    BY NothingTakenBack
  <1>4. ASSUME id' = id, wire' = wire,
               \A r \in Callers : stage'[r] \in InFlight => stage[r] \in InFlight
        PROVE  OwnIds'
    BY <1>3, <1>4 DEF OwnIds
  <1>5. ASSUME NEW r \in Callers, stage' = [stage EXCEPT ![r] = "settled"]
        PROVE  \A s \in Callers : stage'[s] \in InFlight => stage[s] \in InFlight
    BY <1>2, <1>5 DEF InFlight
  <1>6. ASSUME NEW r \in Callers, Request(r) PROVE OwnIds'
    <2>1. CASE IssueRequest(r)
      BY <1>6, <2>1, IssueKeepsIds DEF Request
    <2>2. CASE stage' = [stage EXCEPT ![r] = "settled"] /\ UNCHANGED <<id, wire>>
      BY <1>4, <1>5, <2>2
    <2> QED
      BY <1>6, <2>1, <2>2 DEF Request
  <1>7. ASSUME NEW r \in Callers, AcquireWrite(r) PROVE OwnIds'
    <2>1. CASE stage' = [stage EXCEPT ![r] = "settled"] /\ wire' = wire
      BY <1>4, <1>5, <1>7, <2>1 DEF AcquireWrite
    <2>2. CASE WriteLine(r, id[r], Tail(writers))
      <3>1. stage[r] \in InFlight /\ id' = id
        BY <1>7 DEF AcquireWrite, InFlight
      <3>2. id[r] # 0
        BY <3>1 DEF OwnIds
      <3>3. wire' = wire \cup {<<id[r], r>>}
        BY <2>2 DEF WriteLine
      <3>4. \A s \in Callers : stage'[s] \in InFlight => stage[s] \in InFlight
        BY <1>2, <2>2, <3>1 DEF WriteLine
      <3>5. \A sent \in wire' : sent = <<id[sent[2]], sent[2]>> /\ id[sent[2]] # 0
        BY <3>2, <3>3 DEF OwnIds
      <3> QED
        BY <1>3, <3>1, <3>4, <3>5 DEF OwnIds
    <2> QED
      BY <1>7, <2>1, <2>2 DEF AcquireWrite, Reject
  <1>8. ASSUME NEW r \in Callers, Drained(r) PROVE OwnIds'
    <2>1. CASE stage' = [stage EXCEPT ![r] = "settled"]
      BY <1>4, <1>5, <1>8, <2>1 DEF Drained
    <2>2. CASE stage' = [stage EXCEPT ![r] = "awaiting"]
      BY <1>2, <1>4, <1>8, <2>2 DEF Drained, InFlight
    <2> QED
      BY <1>8, <2>1, <2>2 DEF Drained, Reject
  <1>9. ASSUME NEW r \in Callers, CancelCall(r) \/ Awake(r) \/ RequestTimeout(r) PROVE OwnIds'
    <2>1. stage' = [stage EXCEPT ![r] = "settled"] /\ UNCHANGED <<id, wire>>
      BY <1>9 DEF CancelCall, Awake, RequestTimeout, Reject
    <2> QED
      BY <1>4, <1>5, <2>1
  <1>10. CASE Start
    BY <1>1, <1>2, <1>4, <1>10 DEF Start, InFlight
  <1>11. CASE Spawned
    <2>1. CASE IssueRequest(Starter)
      BY <1>1, <1>11, <2>1, IssueKeepsIds DEF Spawned
    <2>2. CASE /\ stage' = [stage EXCEPT ![Starter] = "settled"]
               /\ id' = [id EXCEPT ![Starter] = nextId] /\ wire' = wire
      <3>1. id[Starter] = 0
        BY <1>1, <1>11 DEF Spawned, OwnIds
      <3>2. \A s \in Callers : id'[s] = IF s = Starter THEN nextId ELSE id[s]
        BY <1>2, <2>2
      <3>3. \A s \in Callers : id[s] # nextId /\ nextId # 0
        BY <1>2
      <3>4. ASSUME NEW sent \in wire'
            PROVE  sent = <<id'[sent[2]], sent[2]>> /\ id'[sent[2]] # 0
        <4>1. sent = <<id[sent[2]], sent[2]>> /\ id[sent[2]] # 0 /\ sent[2] \in Callers
          BY <1>2, <2>2, <3>4 DEF OwnIds
        <4> QED
          BY <3>1, <3>2, <4>1
      <3>5. \A s \in Callers : /\ stage'[s] \in {"idle", "spawning"} => id'[s] = 0
                               /\ stage'[s] \in InFlight => id'[s] # 0
        BY <1>2, <2>2, <3>2, <3>3 DEF OwnIds, InFlight
      <3>6. \A s, t \in Callers : id'[s] = id'[t] /\ id'[s] # 0 => s = t
        BY <3>2, <3>3 DEF OwnIds
      <3> QED
        BY <3>4, <3>5, <3>6 DEF OwnIds
    <2> QED
      BY <1>11, <2>1, <2>2 DEF Spawned
  <1>12. CASE SpawnFails \/ SpawnCancelled
    BY <1>1, <1>4, <1>5, <1>12 DEF SpawnFails, SpawnCancelled, Reject
  <1>13. CASE \/ \E t \in Closers \cup {Starter} : Close(t) \/ CloserStep(t)
                                                  \/ CancelClose(t)
              \/ ProcessExits \/ ReadResponse \/ ReadMalformed \/ ReadEof \/ WatchExit
    <2>1. UNCHANGED <<stage, id, wire>>
      BY <1>13 DEF Close, CloserStep, CloseEscalate, CloseReap, CancelClose,
                   ProcessExits, ReadResponse, ReadMalformed, ReadEof, WatchExit, callVars
    <2> QED
      BY <1>4, <2>1
  <1> QED
    BY <1>6, <1>7, <1>8, <1>9, <1>10, <1>11, <1>12, <1>13 DEF ClientNext, CallerStep

-----------------------------------------------------------------------------
(* A call that ends takes its request, and no other, out of _pending. *)
LEMMA RejectKeepsFutures ==
    ASSUME RequestTypeOK, OwnIds, OwnFutures,
           NEW r \in Callers, stage[r] # "settled", NEW kind, Reject(r, kind),
           UNCHANGED <<id, future, reply, wire>>
    PROVE  OwnFutures'
  <1>1. /\ nextId \in Nat \ {0} /\ pending \subseteq 1..(nextId - 1)
        /\ id \in [Callers -> 0..(nextId - 1)]
        /\ stage \in [Callers -> InFlight \cup {"idle", "spawning", "settled"}]
    BY DEF RequestTypeOK
  <1>2. \A s \in Callers : stage'[s] = IF s = r THEN "settled" ELSE stage[s]
    BY <1>1 DEF Reject
  <1>3. \A s \in Callers : outcome'[s] = IF s = r THEN kind ELSE outcome[s]
    BY DEF Reject, RequestTypeOK
  <1>4. \A s \in Callers : s # r /\ id[s] \in pending => id[s] \in pending'
    <2>1. ASSUME NEW s \in Callers, s # r, id[s] \in pending PROVE id[s] # id[r]
      BY <1>1, <2>1 DEF OwnIds
    <2> QED
      BY <2>1 DEF Reject
  <1>5. pending' \subseteq pending /\ (kind # "cancelled" => id[r] \notin pending')
    BY DEF Reject
  <1>6. Correlation'
    BY <1>2, <1>3, <1>4, <1>5 DEF OwnFutures, Correlation, InFlight
  <1> QED
    BY <1>2, <1>3, <1>5, <1>6 DEF OwnFutures

(* A new request is pending. *)
LEMMA IssueKeepsFutures ==
    ASSUME RequestTypeOK, OwnIds, OwnFutures,
           NEW r \in Callers, stage[r] \in {"idle", "spawning"}, IssueRequest(r),
           UNCHANGED <<reply, outcome>>
    PROVE  OwnFutures'
  <1>1. /\ nextId \in Nat \ {0} /\ pending \subseteq 1..(nextId - 1)
        /\ id \in [Callers -> 0..(nextId - 1)]
        /\ stage \in [Callers -> InFlight \cup {"idle", "spawning", "settled"}]
        /\ future \in [Callers -> {"none", "unset", "response", "protocol", "process"}]
    BY DEF RequestTypeOK
  <1>2. \A s \in Callers : /\ id'[s] = IF s = r THEN nextId ELSE id[s]
                           /\ future'[s] = IF s = r THEN "unset" ELSE future[s]
    BY <1>1 DEF IssueRequest
  <1>3. \E to \in InFlight : \A s \in Callers : stage'[s] = IF s = r THEN to ELSE stage[s]
    BY <1>1 DEF IssueRequest, WriteLine, InFlight
  <1>4. \A s \in Callers : s # r => (id'[s] \in pending' <=> id[s] \in pending)
    BY <1>1, <1>2 DEF IssueRequest
  <1>5. id'[r] \in pending' /\ wire \subseteq wire'
    BY <1>2 DEF IssueRequest, WriteLine
  <1>6. Correlation'
    BY <1>2, <1>3, <1>4, <1>5 DEF OwnFutures, Correlation, InFlight
  <1> QED
    BY <1>2, <1>3, <1>4, <1>5, <1>6 DEF OwnFutures, InFlight

(* Whoever fails all pending futures leaves none that is unset and awaited. *)
LEMMA FailPendingKeepsFutures ==
    ASSUME RequestTypeOK, OwnFutures, NEW kind \in {"protocol", "process"}, FailPending(kind),
           UNCHANGED <<id, reply, wire, stage, outcome>>
    PROVE  /\ OwnFutures'
           /\ \A r \in Callers : stage[r] \in InFlight => future'[r] # "unset"
  <1>1. \A r \in Callers :
           /\ future'[r] = "response" => future[r] = "response"
           /\ future'[r] = "unset" => future[r] = "unset" /\ id[r] \notin pending
    BY DEF FailPending
  <1>2. \A r \in Callers : stage[r] \in InFlight => future'[r] # "unset"
    BY <1>1 DEF OwnFutures, Correlation
  <1>3. pending' = {}
    BY DEF FailPending
  <1>4. Correlation'
    BY <1>1, <1>2, <1>3 DEF OwnFutures, Correlation
  <1> QED
    BY <1>1, <1>2, <1>3, <1>4 DEF OwnFutures

(* Every step keeps the futures. *)
LEMMA FuturesStep ==
    ASSUME RequestTypeOK, FlagTypeOK, OwnIds, OwnFutures, ClientNext
    PROVE  OwnFutures'
  <1>1. Starter \in Callers
    BY DEF Callers
  <1>2. /\ nextId \in Nat \ {0} /\ pending \subseteq 1..(nextId - 1)
        /\ id \in [Callers -> 0..(nextId - 1)]
        /\ stage \in [Callers -> InFlight \cup {"idle", "spawning", "settled"}]
        /\ wire \subseteq (Nat \X Callers)
    BY DEF RequestTypeOK
  <1>3. \A r \in Callers : /\ stage[r] = "settled" => stage'[r] = "settled"
                                                      /\ outcome'[r] = outcome[r]
                           /\ stage'[r] \in {"idle", "spawning"} => outcome'[r] = outcome[r]
    BY NothingTakenBack
  <1>4. ASSUME UNCHANGED <<id, pending, future, reply>>, wire \subseteq wire',
               \A r \in Callers : stage'[r] \in InFlight => stage[r] \in InFlight,
               \A r \in Callers : stage'[r] # "settled" => outcome'[r] = outcome[r],
               \A r \in Callers : stage'[r] = "settled" /\ stage[r] # "settled" =>
                                     id[r] \notin pending
        PROVE  OwnFutures'
    <2>1. Correlation'
      BY <1>3, <1>4 DEF OwnFutures, Correlation
    <2> QED
      BY <1>3, <1>4, <2>1 DEF OwnFutures
  <1>5. ASSUME NEW r \in Callers, stage[r] # "settled", NEW kind, Reject(r, kind),
               UNCHANGED <<id, future, reply, wire>>
        PROVE  OwnFutures'
    BY <1>5, RejectKeepsFutures
  <1>6. ASSUME NEW r \in Callers, Request(r) PROVE OwnFutures'
    <2>1. CASE IssueRequest(r) /\ outcome' = outcome
      BY <1>6, <2>1, IssueKeepsFutures DEF Request
    <2>2. CASE /\ stage' = [stage EXCEPT ![r] = "settled"]
               /\ outcome' = [outcome EXCEPT ![r] = "state"]
               /\ UNCHANGED <<pendingVars, id, wire>>
      <3>1. stage[r] = "idle" /\ reply' = reply
        BY <1>6 DEF Request
      <3>2. id[r] \notin pending
        BY <1>2, <3>1 DEF OwnIds
      <3>3. \A s \in Callers : stage'[s] = IF s = r THEN "settled" ELSE stage[s]
        BY <1>2, <2>2
      <3>4. \A s \in Callers : s # r => outcome'[s] = outcome[s]
        BY <2>2 DEF RequestTypeOK
      <3>5. /\ \A s \in Callers : stage'[s] \in InFlight => stage[s] \in InFlight
            /\ \A s \in Callers : stage'[s] # "settled" => outcome'[s] = outcome[s]
            /\ \A s \in Callers : stage'[s] = "settled" /\ stage[s] # "settled" =>
                                     id[s] \notin pending
        BY <3>2, <3>3, <3>4 DEF InFlight
      <3> QED
        BY <1>4, <2>2, <3>1, <3>5 DEF pendingVars
    <2> QED
      BY <1>6, <2>1, <2>2 DEF Request
  <1>7. ASSUME NEW r \in Callers, AcquireWrite(r) PROVE OwnFutures'
    <2>1. CASE Reject(r, "state") /\ wire' = wire
      BY <1>5, <1>7, <2>1 DEF AcquireWrite
    <2>2. CASE WriteLine(r, id[r], Tail(writers)) /\ UNCHANGED <<pending, outcome>>
      <3>1. /\ \A s \in Callers : stage'[s] \in InFlight => stage[s] \in InFlight
            /\ \A s \in Callers : stage'[s] = "settled" => stage[s] = "settled"
        BY <1>2, <1>7, <2>2 DEF AcquireWrite, WriteLine, InFlight
      <3>2. wire \subseteq wire'
        BY <2>2 DEF WriteLine
      <3> QED
        BY <1>4, <1>7, <2>2, <3>1, <3>2 DEF AcquireWrite
    <2> QED
      BY <1>7, <2>1, <2>2 DEF AcquireWrite
  <1>8. ASSUME NEW r \in Callers, Drained(r) PROVE OwnFutures'
    <2>1. CASE Reject(r, IF r = Starter THEN "process" ELSE "os")
      BY <1>5, <1>8, <2>1 DEF Drained
    <2>2. CASE stage' = [stage EXCEPT ![r] = "awaiting"] /\ UNCHANGED <<pending, outcome>>
      <3>1. /\ \A s \in Callers : stage'[s] \in InFlight => stage[s] \in InFlight
            /\ \A s \in Callers : stage'[s] = "settled" => stage[s] = "settled"
        BY <1>2, <1>8, <2>2 DEF Drained, InFlight
      <3> QED
        BY <1>4, <1>8, <2>2, <3>1 DEF Drained
    <2> QED
      BY <1>8, <2>1, <2>2 DEF Drained
  <1>9. ASSUME NEW r \in Callers, CancelCall(r) PROVE OwnFutures'
    BY <1>5, <1>9 DEF CancelCall, InFlight
  <1>10. ASSUME NEW r \in Callers, Awake(r) PROVE OwnFutures'
    <2>1. CASE /\ future[r] = "response"
               /\ stage' = [stage EXCEPT ![r] = "settled"]
               /\ outcome' = [outcome EXCEPT ![r] = "response"]
               /\ UNCHANGED pending
      <3>1. id[r] \notin pending
        BY <2>1 DEF OwnFutures
      <3>2. \A s \in Callers : stage'[s] = IF s = r THEN "settled" ELSE stage[s]
        BY <1>2, <2>1
      <3>3. \A s \in Callers : s # r => outcome'[s] = outcome[s]
        BY <2>1 DEF RequestTypeOK
      <3>4. /\ \A s \in Callers : stage'[s] \in InFlight => stage[s] \in InFlight
            /\ \A s \in Callers : stage'[s] # "settled" => outcome'[s] = outcome[s]
            /\ \A s \in Callers : stage'[s] = "settled" /\ stage[s] # "settled" =>
                                     id[s] \notin pending
        BY <3>1, <3>2, <3>3 DEF InFlight
      <3> QED
        BY <1>4, <1>10, <2>1, <3>4 DEF Awake
    <2>2. CASE \E kind : Reject(r, kind)
      BY <1>5, <1>10, <2>2 DEF Awake
    <2> QED
      BY <1>10, <2>1, <2>2 DEF Awake
  <1>11. ASSUME NEW r \in Callers, RequestTimeout(r) PROVE OwnFutures'
    BY <1>5, <1>11 DEF RequestTimeout
  <1>12. CASE Start
    <2>1. stage[Starter] = "idle" /\ UNCHANGED <<id, pending, future, reply, wire>>
      BY <1>12 DEF Start, pendingVars
    <2>2. id[Starter] \notin pending
      BY <1>1, <1>2, <2>1 DEF OwnIds
    <2>3. \E to \in {"settled", "spawning"} :
             /\ \A s \in Callers : stage'[s] = IF s = Starter THEN to ELSE stage[s]
             /\ to = "spawning" => outcome' = outcome
      BY <1>2, <1>12 DEF Start
    <2>4. \A s \in Callers : s # Starter => outcome'[s] = outcome[s]
      BY <1>12 DEF Start, RequestTypeOK
    <2>5. /\ \A s \in Callers : stage'[s] \in InFlight => stage[s] \in InFlight
          /\ \A s \in Callers : stage'[s] # "settled" => outcome'[s] = outcome[s]
          /\ \A s \in Callers : stage'[s] = "settled" /\ stage[s] # "settled" =>
                                   id[s] \notin pending
      BY <2>2, <2>3, <2>4 DEF InFlight
    <2> QED
      BY <1>4, <2>1, <2>5
  <1>13. CASE Spawned
    <2>1. CASE IssueRequest(Starter) /\ outcome' = outcome
      BY <1>1, <1>13, <2>1, IssueKeepsFutures DEF Spawned
    <2>2. CASE /\ id' = [id EXCEPT ![Starter] = nextId]
               /\ stage' = [stage EXCEPT ![Starter] = "settled"]
               /\ outcome' = [outcome EXCEPT ![Starter] = "state"]
               /\ UNCHANGED <<pendingVars, wire>>
      <3>1. id[Starter] = 0 /\ reply' = reply
        BY <1>1, <1>13 DEF Spawned, OwnIds
      <3>2. future[Starter] # "response"
        <4>1. ASSUME future[Starter] = "response" PROVE FALSE
          <5>1. <<id[Starter], Starter>> \in wire
            BY <1>1, <4>1 DEF OwnFutures
          <5> QED
            BY <3>1, <5>1 DEF OwnIds
        <4> QED
          BY <4>1
      <3>3. \A s \in Callers : /\ id'[s] = IF s = Starter THEN nextId ELSE id[s]
                               /\ stage'[s] = IF s = Starter THEN "settled" ELSE stage[s]
                               /\ s # Starter => outcome'[s] = outcome[s]
        BY <1>2, <2>2 DEF RequestTypeOK
      <3>4. nextId \notin pending
        BY <1>2
      <3>5. UNCHANGED <<pending, future, wire>>
        BY <2>2 DEF pendingVars
      <3>6. Correlation'
        BY <3>1, <3>3, <3>4, <3>5 DEF OwnFutures, Correlation, InFlight
      <3> QED
        BY <3>2, <3>3, <3>4, <3>5, <3>6 DEF OwnFutures
    <2> QED
      BY <1>13, <2>1, <2>2 DEF Spawned
  <1>14. CASE SpawnFails \/ SpawnCancelled
    BY <1>1, <1>5, <1>14 DEF SpawnFails, SpawnCancelled
  <1>15. ASSUME NEW t \in Closers \cup {Starter}, CloseReap(t) PROVE OwnFutures'
    BY <1>15, FailureType, FailPendingKeepsFutures DEF CloseReap, callVars
  <1>16. CASE ReadResponse
    <2>1. PICK sent \in wire :
            LET answered == {r \in Callers : /\ id[r] = sent[1]
                                             /\ sent[1] \in pending
                                             /\ future[r] = "unset"}
            IN  /\ future' = [r \in Callers |->
                                IF r \in answered THEN "response" ELSE future[r]]
                /\ reply' = [r \in Callers |-> IF r \in answered THEN sent[2] ELSE reply[r]]
                /\ pending' = pending \ {sent[1]}
      BY <1>16 DEF ReadResponse
    <2>2. UNCHANGED <<id, wire, stage, outcome>>
      BY <1>16 DEF ReadResponse
    <2> DEFINE s == sent[2]
    <2>3. s \in Callers /\ sent = <<id[s], s>> /\ id[s] = sent[1] /\ id[s] # 0
      BY <1>2, <2>1 DEF OwnIds
    <2>4. \A r \in Callers : id[r] = sent[1] => r = s
      BY <2>3 DEF OwnIds
    <2>5. \A r \in Callers :
            IF r = s /\ sent[1] \in pending /\ future[r] = "unset"
            THEN future'[r] = "response" /\ reply'[r] = r
            ELSE future'[r] = future[r] /\ reply'[r] = reply[r]
      BY <2>1, <2>3, <2>4
    <2>6. \A r \in Callers : id[r] \in pending' <=> id[r] \in pending /\ r # s
      BY <2>1, <2>3, <2>4
    <2> HIDE DEF s
    <2>7. Correlation'
      BY <2>2, <2>3, <2>5, <2>6 DEF OwnFutures, Correlation
    <2>8. <<id[s], s>> \in wire
      BY <2>3
    <2> QED
      BY <2>2, <2>3, <2>5, <2>6, <2>7, <2>8 DEF OwnFutures
  <1>17. CASE ReadMalformed
    BY <1>17, FailPendingKeepsFutures DEF ReadMalformed, callVars
  <1>18. CASE WatchExit
    <2>1. CASE UNCHANGED pendingVars
      BY <1>4, <1>18, <2>1 DEF WatchExit, pendingVars, callVars
    <2>2. CASE failure' = FirstFailure("process") /\ FailPending(failure')
      BY <1>18, <2>2, FailureType, FailPendingKeepsFutures DEF WatchExit, callVars
    <2> QED
      BY <1>18, <2>1, <2>2 DEF WatchExit
  <1>19. CASE \/ \E t \in Closers \cup {Starter} :
                    Close(t) \/ CloseEscalate(t) \/ CancelClose(t)
              \/ ProcessExits \/ ReadEof
    <2>1. UNCHANGED <<id, pending, future, reply, wire, stage, outcome>>
      BY <1>19 DEF Close, CloseEscalate, CancelClose, ProcessExits, ReadEof, pendingVars, callVars
    <2> QED
      BY <1>4, <2>1
  <1> QED
    BY <1>6, <1>7, <1>8, <1>9, <1>10, <1>11, <1>12, <1>13, <1>14, <1>15, <1>16, <1>17, <1>18,
       <1>19 DEF ClientNext, CallerStep, CloserStep

-----------------------------------------------------------------------------
(* Only start() makes a request before its own was answered. *)
LEMMA StartFirstStep ==
    ASSUME RequestTypeOK, FlagTypeOK, OwnIds, OwnFutures, StartFirst, ClientNext
    PROVE  StartFirst'
  <1>0. /\ Starter \in Callers /\ Requesters \subseteq Callers /\ Starter \notin Requesters
        /\ None # "response"
    BY ClientAssumption DEF Callers
  <1>1. /\ nextId \in Nat \ {0} /\ id \in [Callers -> 0..(nextId - 1)]
        /\ stage \in [Callers -> InFlight \cup {"idle", "spawning", "settled"}]
        /\ wire \subseteq (Nat \X Callers)
    BY DEF RequestTypeOK
  <1>2. /\ \A r \in Callers : stage[r] = "settled" =>
               stage'[r] = "settled" /\ outcome'[r] = outcome[r]
        /\ \A r \in Callers : stage'[r] \in {"idle", "spawning"} =>
               stage[r] \in {"idle", "spawning"} /\ outcome'[r] = outcome[r]
        /\ wire \subseteq wire' /\ (closed => closed') /\ (started => started')
    BY NothingTakenBack
  <1>3. outcome[Starter] = "response" => stage[Starter] = "settled"
    BY <1>0 DEF OwnFutures
  <1>4. outcome[Starter] = "response" => outcome'[Starter] = "response"
    BY <1>0, <1>2, <1>3
  (* A step that makes no request, writes none and does not end start(). *)
  <1>5. ASSUME UNCHANGED <<proc, started, nextId, id, initialized, wire>>,
               \A r \in Callers : stage'[r] \in InFlight => stage[r] \in InFlight,
               outcome'[Starter] = "response" => outcome[Starter] = "response"
        PROVE  StartFirst'
    BY <1>0, <1>2, <1>4, <1>5 DEF StartFirst
  <1>6. ASSUME NEW r \in Callers, stage' = [stage EXCEPT ![r] = "settled"]
        PROVE  \A s \in Callers : stage'[s] \in InFlight => stage[s] \in InFlight
    BY <1>1, <1>6 DEF InFlight
  <1>7. ASSUME NEW r \in Callers, NEW kind, kind # "response", Reject(r, kind),
               UNCHANGED <<proc, started, nextId, id, initialized, wire>>
        PROVE  StartFirst'
    <2>1. outcome'[Starter] = "response" => outcome[Starter] = "response"
      BY <1>0, <1>7 DEF Reject, RequestTypeOK
    <2> QED
      BY <1>5, <1>6, <1>7, <2>1 DEF Reject
  (* A request that is written by somebody who has made it. *)
  <1>8. ASSUME NEW r \in Callers, stage[r] \in InFlight, wire' = wire \cup {<<id[r], r>>},
               UNCHANGED <<proc, started, nextId, id, initialized, outcome, closed>>,
               \A s \in Callers : stage'[s] \in InFlight => stage[s] \in InFlight
        PROVE  StartFirst'
    <2>1. r # Starter => outcome[Starter] = "response"
      BY <1>0, <1>8 DEF StartFirst, Callers
    <2>2. \A sent \in wire' : sent[2] # Starter => outcome'[Starter] = "response"
      BY <1>8, <2>1 DEF StartFirst
    <2> QED
      BY <1>0, <1>2, <1>8, <2>2 DEF StartFirst
  <1>9. ASSUME NEW r \in Callers, Request(r) PROVE StartFirst'
    <2>1. CASE IssueRequest(r) /\ ~closed /\ started /\ initialized /\ outcome' = outcome
      <3>1. UNCHANGED <<proc, started, initialized, closed>> /\ r \in Requesters
        BY <1>9 DEF Request, childVars, flagVars
      <3>2. outcome[Starter] = "response"
        BY <2>1 DEF StartFirst
      <3>3. id'[Starter] = id[Starter]
        BY <1>0, <1>1, <2>1, <3>1 DEF IssueRequest
      <3> QED
        BY <1>0, <1>2, <2>1, <3>1, <3>2, <3>3 DEF StartFirst
    <2>2. CASE /\ stage' = [stage EXCEPT ![r] = "settled"]
               /\ outcome' = [outcome EXCEPT ![r] = "state"]
               /\ UNCHANGED <<nextId, pendingVars, id, wire>>
      <3>1. UNCHANGED <<proc, started, initialized>> /\ r # Starter
        BY <1>0, <1>9 DEF Request, childVars, flagVars
      <3>2. outcome'[Starter] = outcome[Starter]
        BY <1>0, <2>2, <3>1 DEF RequestTypeOK
      <3> QED
        BY <1>5, <1>6, <2>2, <3>1, <3>2
    <2> QED
      BY <1>9, <2>1, <2>2 DEF Request
  <1>10. ASSUME NEW r \in Callers, AcquireWrite(r) PROVE StartFirst'
    <2>1. CASE Reject(r, "state") /\ wire' = wire
      BY <1>7, <1>10, <2>1 DEF AcquireWrite, childVars
    <2>2. CASE WriteLine(r, id[r], Tail(writers)) /\ UNCHANGED <<closed, outcome>>
      <3>1. stage[r] \in InFlight
        BY <1>10 DEF AcquireWrite, InFlight
      <3>2. \A s \in Callers : stage'[s] \in InFlight => stage[s] \in InFlight
        BY <1>1, <2>2, <3>1 DEF WriteLine
      <3> QED
        BY <1>8, <1>10, <2>2, <3>1, <3>2 DEF AcquireWrite, WriteLine, childVars
    <2> QED
      BY <1>10, <2>1, <2>2 DEF AcquireWrite
  <1>11. ASSUME NEW r \in Callers, Drained(r) PROVE StartFirst'
    <2>1. CASE Reject(r, IF r = Starter THEN "process" ELSE "os")
      BY <1>7, <1>11, <2>1 DEF Drained, childVars
    <2>2. CASE stage' = [stage EXCEPT ![r] = "awaiting"] /\ UNCHANGED outcome
      <3>1. \A s \in Callers : stage'[s] \in InFlight => stage[s] \in InFlight
        BY <1>1, <1>11, <2>2 DEF Drained, InFlight
      <3> QED
        BY <1>5, <1>11, <2>2, <3>1 DEF Drained, childVars
    <2> QED
      BY <1>11, <2>1, <2>2 DEF Drained
  <1>12. ASSUME NEW r \in Callers, CancelCall(r) PROVE StartFirst'
    BY <1>7, <1>12 DEF CancelCall, childVars
  <1>13. ASSUME NEW r \in Callers, Awake(r) PROVE StartFirst'
    <2>0. /\ stage[r] = "awaiting" /\ UNCHANGED <<proc, started, nextId, id, wire>>
          /\ stage' = [stage EXCEPT ![r] = "settled"] /\ started
      BY <1>13 DEF Awake, Reject, childVars, StartFirst, InFlight
    <2>1. CASE /\ future[r] = "response"
               /\ outcome' = [outcome EXCEPT ![r] = "response"]
               /\ initialized' = (initialized \/ r = Starter)
      <3>1. CASE r = Starter
        <4>1. <<id[r], r>> \in wire /\ id[r] # 0
          BY <2>0, <2>1 DEF OwnFutures, OwnIds, InFlight
        <4>2. <<1, Starter>> \in wire
          BY <3>1, <4>1 DEF StartFirst
        <4>3. outcome'[Starter] = "response"
          BY <1>0, <2>1, <3>1 DEF RequestTypeOK
        <4> QED
          BY <1>2, <1>6, <2>0, <4>2, <4>3 DEF StartFirst
      <3>2. CASE r # Starter
        <4>1. outcome'[Starter] = outcome[Starter] /\ (initialized' <=> initialized)
          BY <1>0, <2>1, <3>2 DEF RequestTypeOK
        <4> QED
          BY <1>0, <1>2, <1>6, <2>0, <4>1 DEF StartFirst
      <3> QED
        BY <3>1, <3>2
    <2>2. CASE r = Starter /\ Reject(r, "protocol")
      <3>1. closed' /\ outcome'[Starter] # "response" /\ outcome[Starter] # "response"
        BY <1>0, <1>3, <2>0, <2>2 DEF Reject, BeginClose, RequestTypeOK
      <3> QED
        BY <1>0, <1>2, <1>6, <2>0, <3>1 DEF StartFirst
    <2>3. CASE \E kind \in {"protocol", "process"} : Reject(r, kind) /\ UNCHANGED initialized
      BY <1>7, <2>0, <2>3
    <2> QED
      BY <1>13, <2>1, <2>2, <2>3, FailureType DEF Awake
  <1>14. ASSUME NEW r \in Callers, RequestTimeout(r) PROVE StartFirst'
    BY <1>7, <1>14 DEF RequestTimeout, childVars
  <1>15. CASE Start
    <2>1. UNCHANGED <<proc, started, nextId, id, initialized, wire>> /\ stage[Starter] = "idle"
      BY <1>15 DEF Start, childVars, flagVars
    <2>2. outcome'[Starter] = "response" => outcome[Starter] = "response"
      BY <1>0, <1>15 DEF Start, RequestTypeOK
    <2>3. \A s \in Callers : stage'[s] \in InFlight => stage[s] \in InFlight
      BY <1>1, <1>15 DEF Start, InFlight
    <2> QED
      BY <1>5, <2>1, <2>2, <2>3
  <1>16. CASE Spawned
    <2>0. /\ stage[Starter] = "spawning" /\ proc' = "running" /\ started' = TRUE
          /\ UNCHANGED <<closed, initialized>>
      BY <1>16 DEF Spawned
    <2>1. ~started /\ nextId = 1 /\ outcome[Starter] # "response" /\ ~initialized
      BY <1>3, <2>0 DEF StartFirst
    <2>2. id'[Starter] = 1
      BY <1>0, <1>1, <1>16, <2>1 DEF Spawned, IssueRequest
    <2>3. stage'[Starter] \notin {"idle", "spawning"}
      BY <1>0, <1>1, <1>16 DEF Spawned, IssueRequest, WriteLine
    <2>4. \A s \in Requesters : stage'[s] = stage[s]
      BY <1>0, <1>1, <1>16 DEF Spawned, IssueRequest, WriteLine
    <2>5. outcome'[Starter] # "response"
      BY <1>0, <1>16, <2>1 DEF Spawned, RequestTypeOK
    <2>6. wire' \subseteq wire \cup {<<nextId, Starter>>}
      BY <1>16 DEF Spawned, IssueRequest, WriteLine
    <2>7. \A sent \in wire' : sent[2] # Starter => outcome'[Starter] = "response"
      BY <2>1, <2>6 DEF StartFirst
    <2>8. \A s \in Requesters : stage'[s] \in InFlight => outcome'[Starter] = "response"
      BY <2>1, <2>4 DEF StartFirst
    <2> QED
      BY <2>0, <2>1, <2>2, <2>3, <2>5, <2>7, <2>8 DEF StartFirst
  <1>17. CASE SpawnFails \/ SpawnCancelled
    BY <1>0, <1>7, <1>17 DEF SpawnFails, SpawnCancelled, childVars
  <1>18. CASE ProcessExits
    <2>1. /\ proc = "running" /\ proc' = "exited"
          /\ UNCHANGED <<started, closed, nextId, id, initialized, wire, stage, outcome>>
      BY <1>18 DEF ProcessExits, flagVars, callVars
    <2> QED
      BY <2>1 DEF StartFirst
  <1>19. CASE \/ \E t \in Closers \cup {Starter} : Close(t) \/ CloserStep(t)
                                                  \/ CancelClose(t)
              \/ ReadResponse \/ ReadMalformed \/ ReadEof \/ WatchExit
    <2>1. UNCHANGED <<proc, started, nextId, id, initialized, wire, stage, outcome>>
      BY <1>19 DEF Close, CloserStep, CloseEscalate, CloseReap, CancelClose, ReadResponse, ReadMalformed,
                   ReadEof, WatchExit, callVars, flagVars, childVars
    <2> QED
      BY <1>5, <2>1
  <1> QED
    BY <1>9, <1>10, <1>11, <1>12, <1>13, <1>14, <1>15, <1>16, <1>17, <1>18, <1>19
       DEF ClientNext, CallerStep

-----------------------------------------------------------------------------
(* A client that is closed becomes quiet, and stays so. *)
LEMMA ClosingStep ==
    ASSUME RequestTypeOK, FlagTypeOK, OwnIds, OwnFutures, StartFirst, ClosingOrQuiet, ClientNext
    PROVE  ClosingOrQuiet'
  <1>0. /\ Starter \in Callers /\ Requesters \subseteq Callers
        /\ Starter \notin Requesters \cup Closers
        /\ None \notin {"response", "protocol", "process", "state", "os", "timeout", "cancelled",
                      "config"}
    BY ClientAssumption DEF Callers
  <1>1. /\ stage \in [Callers -> InFlight \cup {"idle", "spawning", "settled"}]
        /\ outcome \in [Callers -> {None, "response", "protocol", "process", "state", "os",
                                    "timeout", "cancelled", "config"}]
        /\ closing \in [Closers \cup {Starter} ->
                          {"idle", "stopping", "terminating", "killing", "closed", "cancelled"}]
        /\ closed \in BOOLEAN
    BY DEF RequestTypeOK, FlagTypeOK
  <1>2. /\ stage[Starter] = "settled" =>
              stage'[Starter] = "settled" /\ outcome'[Starter] = outcome[Starter]
        /\ stage'[Starter] \in {"idle", "spawning"} => stage[Starter] \in {"idle", "spawning"}
        /\ (closed => closed') /\ (started => started')
    BY <1>0, NothingTakenBack
  <1>3. outcome[Starter] # None => stage[Starter] = "settled"
    BY <1>0 DEF OwnFutures
  <1>4. closed /\ proc # "none" /\ StartOvertaken => StartOvertaken'
    <2>1. proc # "none" => started /\ stage[Starter] # "spawning"
      BY DEF StartFirst
    <2> QED
      BY <1>0, <1>2, <1>3, <2>1 DEF StartOvertaken
  <1>5. stage[Starter] = "settled" => (StartFailed' <=> StartFailed)
    BY <1>2 DEF StartFailed
  (* A step that neither closes the client nor is one of a close(). *)
  <1>6. ASSUME UNCHANGED <<closed, closing>>, proc = "none" <=> proc' = "none",
               proc' = "none" => reader' = reader /\ watcher' = watcher,
               stage[Starter] # "settled" => ~StartFailed' \/ closed' \/ NoCommand',
               Quiet => Quiet'
        PROVE  ClosingOrQuiet'
    <2>1. StartFailed' => closed' \/ NoCommand'
      BY <1>2, <1>5, <1>6 DEF ClosingOrQuiet, StartFailed, NoCommand
    <2>2. stage'[Starter] # "settled" => closing'[Starter] = "idle"
      BY <1>2, <1>6 DEF ClosingOrQuiet
    <2> QED
      BY <1>4, <1>6, <2>1, <2>2 DEF ClosingOrQuiet
  <1>7. ASSUME UNCHANGED <<proc, reader, watcher>>,
               \A s \in Callers : stage'[s] \in InFlight /\ future'[s] = "unset" =>
                                     stage[s] \in InFlight /\ future[s] = "unset"
        PROVE  Quiet => Quiet'
    BY <1>7 DEF Quiet
  <1>8. ASSUME NEW r \in Callers, stage' = [stage EXCEPT ![r] = "settled"]
        PROVE  \A s \in Callers : stage'[s] \in InFlight => stage[s] \in InFlight
    BY <1>1, <1>8 DEF InFlight
  (* A call that ends, and perhaps closes the client. *)
  <1>9. ASSUME NEW r \in Callers, stage[r] # "settled", NEW kind, Reject(r, kind),
               UNCHANGED <<proc, reader, watcher, future>>
        PROVE  ClosingOrQuiet'
    <2>1. /\ \A s \in Callers : stage'[s] = IF s = r THEN "settled" ELSE stage[s]
          /\ \A s \in Callers : outcome'[s] = IF s = r THEN kind ELSE outcome[s]
      BY <1>1, <1>9 DEF Reject
    <2>2. Quiet => Quiet'
      BY <1>7, <1>8, <1>9 DEF Reject
    <2>3. CASE r # Starter \/ kind = "cancelled"
      <3>1. UNCHANGED <<closed, closing>>
        BY <1>9, <2>3 DEF Reject
      <3>2. stage[Starter] # "settled" => ~StartFailed'
        BY <1>0, <2>1, <2>3 DEF StartFailed
      <3> QED
        BY <1>6, <1>9, <2>2, <3>1, <3>2
    <2>4. CASE r = Starter /\ kind # "cancelled"
      <3>1. /\ closed' = TRUE
            /\ closing' = [closing EXCEPT ![Starter] =
                             IF closed \/ proc = "none" THEN "closed" ELSE "stopping"]
        BY <1>9, <2>4 DEF Reject, BeginClose
      <3>2. closing[Starter] = "idle"
        BY <1>9, <2>4 DEF ClosingOrQuiet
      <3>3. \A t \in DOMAIN closing : t # Starter => closing'[t] = closing[t]
        BY <1>1, <3>1
      <3>4. DOMAIN closing' = DOMAIN closing /\ Starter \in DOMAIN closing
        BY <1>1, <3>1
      <3>5. stage'[Starter] = "settled"
        BY <1>0, <2>1, <2>4
      <3>6. CASE ~closed /\ proc # "none"
        <4>1. closing'[Starter] \in Unfinished
          BY <1>1, <3>1, <3>6 DEF Unfinished
        <4> QED
          BY <1>9, <3>1, <3>4, <3>5, <3>6, <4>1 DEF ClosingOrQuiet
      <3>7. CASE closed /\ proc # "none"
        <4>1. ASSUME ~StartOvertaken', ~Quiet
              PROVE  \E t \in DOMAIN closing' : closing'[t] \in Unfinished
          <5>1. PICK t \in DOMAIN closing : closing[t] \in Unfinished
            BY <1>4, <3>7, <4>1 DEF ClosingOrQuiet
          <5>2. t # Starter
            BY <3>2, <5>1 DEF Unfinished
          <5> QED
            BY <3>3, <3>4, <5>1, <5>2
        <4> QED
          BY <1>9, <2>2, <3>1, <3>5, <3>7, <4>1 DEF ClosingOrQuiet
      <3>8. CASE proc = "none"
        BY <1>9, <3>1, <3>5, <3>8 DEF ClosingOrQuiet
      <3> QED
        BY <3>6, <3>7, <3>8
    <2> QED
      BY <2>3, <2>4
  <1>10. ASSUME NEW r \in Callers, Request(r) PROVE ClosingOrQuiet'
    <2>1. /\ UNCHANGED <<closed, closing, proc, reader, watcher>>
          /\ r # Starter /\ stage[r] = "idle"
      BY <1>0, <1>10 DEF Request, flagVars, childVars
    <2>2. CASE IssueRequest(r) /\ ~closed /\ outcome' = outcome
      <3>1. stage'[Starter] = stage[Starter]
        BY <1>0, <1>1, <2>1, <2>2 DEF IssueRequest, WriteLine
      <3> QED
        BY <2>1, <2>2, <3>1 DEF ClosingOrQuiet, StartFailed, NoCommand
    <2>3. CASE /\ stage' = [stage EXCEPT ![r] = "settled"]
               /\ outcome' = [outcome EXCEPT ![r] = "state"]
               /\ UNCHANGED future
      <3>1. stage'[Starter] = stage[Starter]
        BY <1>0, <1>1, <2>1, <2>3
      <3>2. stage[Starter] # "settled" => ~StartFailed'
        BY <3>1 DEF StartFailed
      <3> QED
        BY <1>6, <1>7, <1>8, <2>1, <2>3, <3>2
    <2> QED
      BY <1>10, <2>2, <2>3 DEF Request, pendingVars
  <1>11. ASSUME NEW r \in Callers, AcquireWrite(r) PROVE ClosingOrQuiet'
    <2>1. CASE Reject(r, "state")
      BY <1>9, <1>11, <2>1 DEF AcquireWrite, childVars
    <2>2. CASE WriteLine(r, id[r], Tail(writers)) /\ UNCHANGED <<closed, closing>>
      <3>1. UNCHANGED <<proc, reader, watcher, future>> /\ stage[r] = "locking"
        BY <1>11 DEF AcquireWrite, childVars
      <3>2. \A s \in Callers : /\ stage'[s] \in InFlight => stage[s] \in InFlight
                               /\ stage'[s] = "settled" => stage[s] = "settled"
        BY <1>1, <2>2, <3>1 DEF WriteLine, InFlight
      <3>3. stage[Starter] # "settled" => ~StartFailed'
        BY <1>0, <3>2 DEF StartFailed
      <3> QED
        BY <1>6, <1>7, <2>2, <3>1, <3>2, <3>3
    <2> QED
      BY <1>11, <2>1, <2>2 DEF AcquireWrite
  <1>12. ASSUME NEW r \in Callers, Drained(r) PROVE ClosingOrQuiet'
    <2>1. CASE Reject(r, IF r = Starter THEN "process" ELSE "os")
      BY <1>9, <1>12, <2>1 DEF Drained, childVars
    <2>2. CASE stage' = [stage EXCEPT ![r] = "awaiting"] /\ UNCHANGED <<closed, closing>>
      <3>1. UNCHANGED <<proc, reader, watcher, future>> /\ stage[r] = "draining"
        BY <1>12 DEF Drained, childVars
      <3>2. \A s \in Callers : /\ stage'[s] \in InFlight => stage[s] \in InFlight
                               /\ stage'[s] = "settled" => stage[s] = "settled"
        BY <1>1, <2>2, <3>1 DEF InFlight
      <3>3. stage[Starter] # "settled" => ~StartFailed'
        BY <1>0, <3>2 DEF StartFailed
      <3> QED
        BY <1>6, <1>7, <2>2, <3>1, <3>2, <3>3
    <2> QED
      BY <1>12, <2>1, <2>2 DEF Drained
  <1>13. ASSUME NEW r \in Callers, CancelCall(r) PROVE ClosingOrQuiet'
    BY <1>9, <1>13 DEF CancelCall, childVars, InFlight
  <1>14. ASSUME NEW r \in Callers, Awake(r) PROVE ClosingOrQuiet'
    <2>1. UNCHANGED <<proc, reader, watcher, future>> /\ stage[r] = "awaiting"
      BY <1>14 DEF Awake, childVars
    <2>2. CASE /\ stage' = [stage EXCEPT ![r] = "settled"]
               /\ outcome' = [outcome EXCEPT ![r] = "response"]
               /\ UNCHANGED <<closed, closing>>
      <3>1. /\ \A s \in Callers : stage'[s] = IF s = r THEN "settled" ELSE stage[s]
            /\ \A s \in Callers : outcome'[s] = IF s = r THEN "response" ELSE outcome[s]
        BY <1>1, <2>2
      <3>2. stage[Starter] # "settled" => ~StartFailed'
        BY <1>0, <3>1 DEF StartFailed
      <3> QED
        BY <1>6, <1>7, <1>8, <2>1, <2>2, <3>2
    <2>3. CASE \E kind : Reject(r, kind)
      BY <1>9, <2>1, <2>3
    <2> QED
      BY <1>14, <2>2, <2>3 DEF Awake
  <1>15. ASSUME NEW r \in Callers, RequestTimeout(r) PROVE ClosingOrQuiet'
    BY <1>9, <1>15 DEF RequestTimeout, childVars
  <1>16. CASE Start
    <2>1. /\ UNCHANGED <<closed, closing, proc, reader, watcher, future>>
          /\ stage[Starter] = "idle"
      BY <1>16 DEF Start, flagVars, childVars, pendingVars
    <2>2. stage'[Starter] = "spawning" \/ closed \/ outcome'[Starter] = "config"
      BY <1>0, <1>1, <1>16 DEF Start
    <2>3. proc = "none"
      BY <2>1 DEF StartFirst
    <2>4. stage[Starter] # "settled" => ~StartFailed' \/ closed' \/ NoCommand'
      BY <2>1, <2>2, <2>3 DEF StartFailed, NoCommand
    <2> QED
      BY <1>6, <2>1, <2>3, <2>4 DEF Quiet
  <1>17. CASE Spawned
    <2>1. /\ proc' = "running" /\ started' /\ closed' = closed
          /\ stage[Starter] = "spawning"
      BY <1>17 DEF Spawned
    <2>2. CASE ~closed /\ IssueRequest(Starter) /\ UNCHANGED closing
      <3>1. stage'[Starter] # "settled"
        BY <1>0, <1>1, <2>2 DEF IssueRequest, WriteLine
      <3> QED
        BY <2>1, <2>2, <3>1 DEF ClosingOrQuiet, StartFailed
    <2>3. CASE /\ closed
               /\ stage' = [stage EXCEPT ![Starter] = "settled"]
               /\ outcome' = [outcome EXCEPT ![Starter] = "state"]
      <3>1. stage'[Starter] = "settled" /\ outcome'[Starter] = "state"
        BY <1>0, <1>1, <2>3
      <3> QED
        BY <2>1, <2>3, <3>1 DEF ClosingOrQuiet, StartOvertaken
    <2> QED
      BY <1>17, <2>2, <2>3 DEF Spawned
  <1>18. CASE SpawnFails \/ SpawnCancelled
    BY <1>0, <1>9, <1>18 DEF SpawnFails, SpawnCancelled, childVars
  <1>19. ASSUME NEW t \in Closers \cup {Starter}, Close(t) PROVE ClosingOrQuiet'
    <2>1. /\ UNCHANGED <<proc, reader, watcher, stage, outcome, future>>
          /\ closed' = TRUE /\ t # Starter /\ closing[t] = "idle"
          /\ closing' = [closing EXCEPT ![t] =
                           IF closed \/ proc = "none" THEN "closed" ELSE "stopping"]
      BY <1>0, <1>19 DEF Close, BeginClose, childVars, callVars, pendingVars
    <2>2. /\ \A u \in DOMAIN closing : u # t => closing'[u] = closing[u]
          /\ DOMAIN closing' = DOMAIN closing /\ {t, Starter} \subseteq DOMAIN closing
      BY <1>1, <2>1
    <2>3. CASE ~closed /\ proc # "none"
      <3>1. closing'[t] \in Unfinished
        BY <2>1, <2>2, <2>3 DEF Unfinished
      <3> QED
        BY <2>1, <2>2, <2>3, <3>1 DEF ClosingOrQuiet
    <2>4. CASE closed /\ proc # "none"
      <3>1. ASSUME ~StartOvertaken', ~Quiet
            PROVE  \E u \in DOMAIN closing' : closing'[u] \in Unfinished
        <4>1. PICK u \in DOMAIN closing : closing[u] \in Unfinished
          BY <1>4, <2>4, <3>1 DEF ClosingOrQuiet
        <4> QED
          BY <2>1, <2>2, <4>1 DEF Unfinished
      <3>2. Quiet => Quiet'
        BY <2>1 DEF Quiet
      <3> QED
        BY <2>1, <2>2, <2>4, <3>1, <3>2 DEF ClosingOrQuiet
    <2>5. CASE proc = "none"
      BY <2>1, <2>2, <2>5 DEF ClosingOrQuiet
    <2> QED
      BY <2>3, <2>4, <2>5
  <1>20. ASSUME NEW t \in Closers \cup {Starter}, CloseEscalate(t) PROVE ClosingOrQuiet'
    <2>1. /\ UNCHANGED <<closed, proc, reader, watcher, stage, outcome, future>>
          /\ closing[t] # "idle"
          /\ closing' = [closing EXCEPT ![t] = IF @ = "stopping" THEN "terminating"
                                                                 ELSE "killing"]
      BY <1>20 DEF CloseEscalate, flagVars, childVars, callVars, pendingVars
    <2>2. /\ \A u \in DOMAIN closing : u # t => closing'[u] = closing[u]
          /\ DOMAIN closing' = DOMAIN closing /\ t \in DOMAIN closing
          /\ closing'[t] \in Unfinished
      BY <1>1, <2>1 DEF Unfinished
    <2>3. stage[Starter] # "settled" => t # Starter
      BY <2>1 DEF ClosingOrQuiet
    <2>4. stage'[Starter] # "settled" => closing'[Starter] = "idle"
      BY <1>1, <2>1, <2>2, <2>3 DEF ClosingOrQuiet
    <2> QED
      BY <2>1, <2>2, <2>4 DEF ClosingOrQuiet, StartFailed, NoCommand
  <1>21. ASSUME NEW t \in Closers \cup {Starter}, CloseReap(t) PROVE ClosingOrQuiet'
    <2>1. /\ UNCHANGED <<closed, proc, stage, outcome, id, reply, wire>>
          /\ closing[t] # "idle" /\ proc = "exited"
          /\ reader' # "running" /\ watcher' = "ended"
          /\ closing' = [closing EXCEPT ![t] = "closed"]
          /\ FailPending(FirstFailure("process"))
      BY <1>21 DEF CloseReap, flagVars, callVars
    <2>2. \A r \in Callers : stage[r] \in InFlight => future'[r] # "unset"
      BY <2>1, FailureType, FailPendingKeepsFutures
    <2>3. Quiet'
      BY <2>1, <2>2 DEF Quiet
    <2>4. stage[Starter] # "settled" => t # Starter
      BY <2>1 DEF ClosingOrQuiet
    <2>5. stage'[Starter] # "settled" => closing'[Starter] = "idle"
      BY <1>1, <2>1, <2>4 DEF ClosingOrQuiet
    <2> QED
      BY <2>1, <2>3, <2>5 DEF ClosingOrQuiet, StartFailed, NoCommand
  <1>22. CASE ProcessExits
    <2>1. /\ UNCHANGED <<closed, closing, reader, watcher, stage, outcome>>
          /\ proc = "running" /\ proc' = "exited"
      BY <1>22 DEF ProcessExits, flagVars, callVars
    <2> QED
      BY <1>6, <2>1 DEF Quiet, StartFailed
  <1>23. CASE ReadResponse
    <2>1. UNCHANGED <<closed, closing, proc, reader, watcher, stage, outcome>>
          /\ reader = "running"
      BY <1>23 DEF ReadResponse, flagVars, childVars
    <2> QED
      BY <1>6, <2>1 DEF Quiet, StartFailed
  <1>24. CASE ReadMalformed \/ ReadEof
    <2>1. UNCHANGED <<closed, closing, proc, watcher, stage, outcome>> /\ reader = "running"
      BY <1>24 DEF ReadMalformed, ReadEof, flagVars, callVars
    <2>2. proc # "none"
      BY <2>1 DEF ClosingOrQuiet
    <2> QED
      BY <1>6, <2>1, <2>2 DEF Quiet, StartFailed
  <1>25. CASE WatchExit
    <2>1. UNCHANGED <<closed, closing, proc, reader, stage, outcome>> /\ watcher = "running"
          /\ proc = "exited"
      BY <1>25 DEF WatchExit, callVars
    <2> QED
      BY <1>6, <2>1 DEF Quiet, StartFailed
  <1>26. ASSUME NEW t \in Closers \cup {Starter}, CancelClose(t) PROVE ClosingOrQuiet'
    <2>1. /\ UNCHANGED <<closed, proc, reader, watcher, stage, outcome, future>>
          /\ closing[t] # "idle"
          /\ closing' = [closing EXCEPT ![t] = "cancelled"]
      BY <1>26 DEF CancelClose, flagVars, childVars, callVars, pendingVars
    <2>2. /\ \A u \in DOMAIN closing : u # t => closing'[u] = closing[u]
          /\ DOMAIN closing' = DOMAIN closing /\ t \in DOMAIN closing
          /\ closing'[t] \in Unfinished
      BY <1>1, <2>1 DEF Unfinished
    <2>3. stage[Starter] # "settled" => t # Starter
      BY <2>1 DEF ClosingOrQuiet
    <2>4. stage'[Starter] # "settled" => closing'[Starter] = "idle"
      BY <1>1, <2>1, <2>2, <2>3 DEF ClosingOrQuiet
    <2> QED
      BY <2>1, <2>2, <2>4 DEF ClosingOrQuiet, StartFailed, NoCommand
  <1> QED
    BY <1>10, <1>11, <1>12, <1>13, <1>14, <1>15, <1>16, <1>17, <1>18, <1>19, <1>20, <1>21,
       <1>22, <1>23, <1>24, <1>25, <1>26 DEF ClientNext, CallerStep, CloserStep

-----------------------------------------------------------------------------
LEMMA ClientStart == ClientInit => ClientInvariant
  <1> SUFFICES ASSUME ClientInit PROVE ClientInvariant
    OBVIOUS
  <1>1. /\ Starter \in Callers
        /\ None \notin {"response", "protocol", "process", "state", "os", "timeout", "cancelled",
                      "config"}
    BY ClientAssumption DEF Callers
  <1>2. FlagTypeOK
    BY DEF ClientInit, FlagTypeOK
  <1>3. RequestTypeOK
    BY DEF ClientInit, RequestTypeOK
  <1>4. LineTypeOK /\ WriteOrder
    <2>1. LockLine(<<>>, stage)
      BY NobodyInLine DEF ClientInit
    <2> QED
      BY <2>1 DEF ClientInit, LineTypeOK, WriteOrder, LockLine
  <1>5. OwnIds
    BY DEF ClientInit, OwnIds, InFlight
  <1>6. OwnFutures
    BY DEF ClientInit, OwnFutures, Correlation, InFlight
  <1>7. StartFirst
    BY <1>1, ClientAssumption DEF ClientInit, StartFirst, InFlight, Callers
  <1>8. ClosingOrQuiet
    BY <1>1 DEF ClientInit, ClosingOrQuiet, StartFailed
  <1> QED
    BY <1>2, <1>3, <1>4, <1>5, <1>6, <1>7, <1>8 DEF ClientInvariant, ClientTypeOK

LEMMA ClientStutter == ClientInvariant /\ UNCHANGED clientVars => ClientInvariant'
  <1> SUFFICES ASSUME ClientInvariant, UNCHANGED clientVars PROVE ClientInvariant'
    OBVIOUS
  <1> USE DEF clientVars, flagVars, childVars, pendingVars, callVars
  <1>1. ClientTypeOK'
    BY DEF ClientInvariant, ClientTypeOK, FlagTypeOK, RequestTypeOK, LineTypeOK
  <1>2. WriteOrder'
    BY DEF ClientInvariant, WriteOrder
  <1>3. OwnIds'
    BY DEF ClientInvariant, OwnIds
  <1>4. OwnFutures'
    BY DEF ClientInvariant, OwnFutures, Correlation
  <1>5. StartFirst'
    BY DEF ClientInvariant, StartFirst
  <1>6. ClosingOrQuiet'
    BY DEF ClientInvariant, ClosingOrQuiet, Quiet, StartFailed, StartOvertaken, NoCommand
  <1> QED
    BY <1>1, <1>2, <1>3, <1>4, <1>5, <1>6 DEF ClientInvariant

(* The inductive invariant of the client: the line of writers, the IDs and *)
(* the futures agree with the stages of the calls, initialize comes first, *)
(* and a client that is closed is quiet or being closed.                   *)
THEOREM ClientInvariance == ClientSpec => []ClientInvariant
  <1>1. ClientInvariant /\ [ClientNext]_clientVars => ClientInvariant'
    <2>1. ASSUME ClientInvariant, ClientNext PROVE ClientInvariant'
      <3>1. RequestTypeOK' /\ FlagTypeOK' /\ WriteOrder'
        BY <2>1, LineStep, TypeStep DEF ClientInvariant, ClientTypeOK
      <3>2. LineTypeOK'
        BY <3>1 DEF RequestTypeOK, LineTypeOK, WriteOrder, LockLine
      <3>3. OwnIds' /\ OwnFutures' /\ StartFirst' /\ ClosingOrQuiet'
        BY <2>1, IdsStep, FuturesStep, StartFirstStep, ClosingStep
           DEF ClientInvariant, ClientTypeOK
      <3> QED
        BY <3>1, <3>2, <3>3 DEF ClientInvariant, ClientTypeOK
    <2> QED
      BY <2>1, ClientStutter
  <1> QED
    BY <1>1, ClientStart, PTL DEF ClientSpec

(* The client's variables keep their types.  Above all, the IDs in         *)
(* _pending are among those that _next_id gave out, and nobody stands      *)
(* twice in the line at the write lock.                                    *)
THEOREM ClientTypeCorrectness == ClientSpec => []ClientTypeOK
  <1>1. ClientInvariant => ClientTypeOK
    BY DEF ClientInvariant
  <1> QED
    BY <1>1, ClientInvariance, PTL

(* A response reaches the caller whose request it answers; whoever waits   *)
(* for an unset future is in _pending; a call that ended is not, unless    *)
(* its task was cancelled.                                                 *)
THEOREM ClientCorrelation == ClientSpec => []Correlation
  <1>1. ClientInvariant => Correlation
    BY DEF ClientInvariant, OwnFutures
  <1> QED
    BY <1>1, ClientInvariance, PTL

(* No request but initialize is written before initialize was accepted.    *)
THEOREM ClientInitializesFirst == ClientSpec => []InitializeFirst
  <1>1. ClientInvariant => InitializeFirst
    BY DEF ClientInvariant, StartFirst, InitializeFirst
  <1> QED
    BY <1>1, ClientInvariance, PTL

(* When the client is closed, or start() failed, and no close() is under   *)
(* way or was cut short by a cancellation, the child is gone, the tasks    *)
(* that listened to it have ended and no caller waits in vain, unless      *)
(* start() was overtaken by close().                                       *)
THEOREM ClientClosedMeansQuiet == ClientSpec => []ClosedMeansQuiet
  <1>1. ClientInvariant => ClosedMeansQuiet
    <2> SUFFICES ASSUME ClientInvariant, closed \/ StartFailed, ~StartOvertaken,
                        \A t \in DOMAIN closing : closing[t] \in {"idle", "closed"}
                 PROVE  /\ closed \/ outcome[Starter] = "config"
                        /\ "running" \notin {proc, reader, watcher}
                        /\ \A r \in Callers : stage[r] = "awaiting" => future[r] # "unset"
      BY DEF ClosedMeansQuiet
    <2>1. closed \/ NoCommand
      BY DEF ClientInvariant, ClosingOrQuiet
    <2>2. ~\E t \in DOMAIN closing : closing[t] \in Unfinished
      BY DEF Unfinished
    <2>3. CASE proc = "none"
      <3>1. \A r \in Callers : stage[r] # "awaiting"
        BY <2>3 DEF ClientInvariant, StartFirst, InFlight
      <3> QED
        BY <2>1, <2>3, <3>1 DEF ClientInvariant, ClosingOrQuiet, NoCommand
    <2>4. CASE proc # "none"
      <3>1. Quiet
        BY <2>1, <2>2, <2>4 DEF ClientInvariant, ClosingOrQuiet, NoCommand
      <3> QED
        BY <2>1, <2>4, <3>1 DEF Quiet, InFlight, NoCommand
    <2> QED
      BY <2>3, <2>4
  <1> QED
    BY <1>1, ClientInvariance, PTL

=============================================================================
