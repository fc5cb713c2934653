-------------------------- MODULE ExecutionLifecycle --------------------------
(***************************************************************************)
(* What COS-002 promises of the execution records of a client: each moves  *)
(* along the transition table of bbi_os/client_execution/state.py, and an  *)
(* immediate execution of a client begins only when every earlier one has  *)
(* ended or was abandoned by an exception or a crash.                      *)
(***************************************************************************)
CONSTANTS
    Clients,
    Executions,
    NoClient,    \* owner of an execution that does not exist
    NoState      \* its state

VARIABLES
    state,       \* of each execution
    owner,       \* the client of each immediate execution
    abandoned    \* executions nothing works on any more

vars == <<state, owner, abandoned>>

States == {"PENDING", "RUNNING", "WAITING_EXTERNAL", "COMPENSATING",
           "COMPLETED", "FAILED"}

\* STATE_TRANSITIONS
Successors(s) ==
    CASE s = "PENDING"          -> {"RUNNING"}
      [] s = "RUNNING"          -> {"WAITING_EXTERNAL", "COMPENSATING", "COMPLETED"}
      [] s = "WAITING_EXTERNAL" -> {"RUNNING", "COMPENSATING"}
      [] s = "COMPENSATING"     -> {"FAILED"}
      [] OTHER                  -> {}

Terminal == {s \in States : Successors(s) = {}}

\* Executions of a client that are neither ended nor abandoned.
Live(c) ==
    {e \in Executions : owner[e] = c /\ state[e] \notin Terminal /\ e \notin abandoned}

Init ==
    /\ state     = [e \in Executions |-> NoState]
    /\ owner     = [e \in Executions |-> NoClient]
    /\ abandoned = {}

\* A deferred execution is recorded; nothing runs it, so nobody owns it.
Defer(e) ==
    /\ state[e] = NoState
    /\ state' = [state EXCEPT ![e] = "PENDING"]
    /\ UNCHANGED <<owner, abandoned>>

Begin(e, c) ==
    /\ state[e] = NoState
    /\ Live(c) = {}
    /\ state' = [state EXCEPT ![e] = "PENDING"]
    /\ owner' = [owner EXCEPT ![e] = c]
    /\ UNCHANGED abandoned

Advance(e, s) ==
    /\ owner[e] # NoClient
    /\ e \notin abandoned
    /\ s \in Successors(state[e])
    /\ state' = [state EXCEPT ![e] = s]
    /\ UNCHANGED <<owner, abandoned>>

\* Exceptions abandon one execution, a crash all those under way.
Abandon ==
    /\ \E gone \in SUBSET {e \in Executions : owner[e] # NoClient} :
          abandoned' = abandoned \cup gone
    /\ UNCHANGED <<state, owner>>

Next ==
    \/ \E e \in Executions :
        \/ Defer(e)
        \/ \E c \in Clients : Begin(e, c)
        \/ \E s \in States : Advance(e, s)
    \/ Abandon

Spec == Init /\ [][Next]_vars
=============================================================================
