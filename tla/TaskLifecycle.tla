--------------------------- MODULE TaskLifecycle ---------------------------
(***************************************************************************)
(* What the asynchronous video API promises, with no Pod, database or      *)
(* provider in it: a request is given at most one task, a task only moves  *)
(* forward, and a caller is only ever told a state the task has really     *)
(* been in.  GenerationTask shows that the code implements this.           *)
(***************************************************************************)

CONSTANTS Tasks,    \* task ids
          Requests  \* (caller, request_id) pairs

VARIABLES request,  \* the pair each task is submitted under
          state,    \* the state of each task
          been,     \* the states each task has been in
          told      \* the states callers were told about each task

vars == <<request, state, been, told>>

States == {"ABSENT", "PENDING", "RUNNING", "SUCCEEDED", "FAILED"}

\* The only moves there are.
Moves == { <<"PENDING", "RUNNING">>, <<"PENDING", "FAILED">>,
           <<"RUNNING", "SUCCEEDED">>, <<"RUNNING", "FAILED">> }

Init ==
  /\ request \in [Tasks -> Requests]
  /\ state = [t \in Tasks |-> "ABSENT"]
  /\ been = [t \in Tasks |-> {}]
  /\ told = [t \in Tasks |-> {}]

\* A task appears only under a request that has none.
Create(t) ==
  /\ state[t] = "ABSENT"
  /\ \A u \in Tasks : request[u] = request[t] => state[u] = "ABSENT"
  /\ state' = [state EXCEPT ![t] = "PENDING"]
  /\ been' = [been EXCEPT ![t] = {"PENDING"}]
  /\ UNCHANGED <<request, told>>

\* A task moves; the handler that moved it may answer in the same step.
Advance(t, v) ==
  /\ <<state[t], v>> \in Moves
  /\ state' = [state EXCEPT ![t] = v]
  /\ been' = [been EXCEPT ![t] = @ \union {v}]
  /\ \/ told' = [told EXCEPT ![t] = @ \union {v}]
     \/ UNCHANGED told
  /\ UNCHANGED request

\* A caller hears of a state the task is in, or was in when it was read.
Tell(t, v) ==
  /\ v \in been[t]
  /\ told' = [told EXCEPT ![t] = @ \union {v}]
  /\ UNCHANGED <<request, state, been>>

Next ==
  \E t \in Tasks :
    \/ Create(t)
    \/ \E v \in States : Advance(t, v) \/ Tell(t, v)

Spec == Init /\ [][Next]_vars

=============================================================================
