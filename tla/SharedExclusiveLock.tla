------------------------ MODULE SharedExclusiveLock ------------------------
(***************************************************************************)
(* What the execution gate promises to its callers: a lock with a shared   *)
(* mode of bounded width and an exclusive mode, whose requests are granted *)
(* by need and by order of arrival only.  It has no queue, no counters and *)
(* no wake-ups; ExecutionGate implements it.                               *)
(***************************************************************************)
EXTENDS Integers, FiniteSets

CONSTANTS Calls, SafeCalls, SharedLimit

VARIABLES
    requests,   \* the calls that wait
    holders,    \* the calls that hold the lock
    ahead       \* ahead[c]: the calls that wait and asked before c

lockVars == <<requests, holders, ahead>>

(* A request is admissible with a set of earlier requests still waiting: a *)
(* shared one may pass shared ones, an exclusive one passes nobody.        *)
Admissible(c, earlier) ==
    IF c \in SafeCalls
    THEN /\ earlier \subseteq SafeCalls
         /\ holders \subseteq SafeCalls
         /\ Cardinality(holders) < SharedLimit
    ELSE earlier = {} /\ holders = {}

(* No other request has c ahead of it any more. *)
Forget(c) == ahead' = [d \in Calls |-> IF d = c THEN {} ELSE ahead[d] \ {c}]

LockInit ==
    /\ requests = {}
    /\ holders = {}
    /\ ahead = [c \in Calls |-> {}]

(* A call asks and is granted the lock at once. *)
Take(c) ==
    /\ c \notin requests \cup holders
    /\ Admissible(c, requests)
    /\ holders' = holders \cup {c}
    /\ UNCHANGED <<requests, ahead>>

(* A call asks and has to wait. *)
Request(c) ==
    /\ c \notin requests \cup holders
    /\ ~Admissible(c, requests)
    /\ requests' = requests \cup {c}
    /\ ahead' = [ahead EXCEPT ![c] = requests]
    /\ UNCHANGED holders

Grant(c) ==
    /\ c \in requests
    /\ Admissible(c, ahead[c])
    /\ requests' = requests \ {c}
    /\ holders' = holders \cup {c}
    /\ Forget(c)

Withdraw(c) ==
    /\ c \in requests
    /\ requests' = requests \ {c}
    /\ Forget(c)
    /\ UNCHANGED holders

Leave(c) ==
    /\ c \in holders
    /\ holders' = holders \ {c}
    /\ UNCHANGED <<requests, ahead>>

LockNext ==
    \E c \in Calls : Take(c) \/ Request(c) \/ Grant(c) \/ Withdraw(c) \/ Leave(c)

LockSpec == LockInit /\ [][LockNext]_lockVars

(* A request that stays admissible is granted or withdrawn, and holders leave. *)
FairLockSpec ==
    /\ LockSpec
    /\ \A c \in Calls :
          /\ WF_lockVars(Admissible(c, ahead[c]) /\ (Grant(c) \/ Withdraw(c)))
          /\ WF_lockVars(Leave(c))

============================================================================
