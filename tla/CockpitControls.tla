---------------------------- MODULE CockpitControls ----------------------------
(***************************************************************************)
(* The commands and the execution monitor of bbi_os/cockpit, composed with *)
(* ClientExecution, to which they delegate: a command is admitted by what  *)
(* it reads (the cockpit lock, a record) and started afterwards, and the   *)
(* monitor reads the records first and the workflow instance of each of    *)
(* them later.  The cockpit lock is a set in memory; it has nothing to do  *)
(* with the client locks of COS-002.                                       *)
(***************************************************************************)
EXTENDS ClientExecution

CONSTANTS NoCommand, NoRow

VARIABLES
    locked,    \* the clients locked in the cockpit
    admitted,  \* history: the triggers on their way when a client was locked
    command,   \* what each thread was admitted to start
    source,    \* the failed execution that an execution retries
    row        \* one row of the execution monitor, as far as it is read

cockpit == <<locked, admitted, command, source, row>>

Command(how, c, of) == [how |-> how, client |-> c, of |-> of]

CInit ==
    /\ Init
    /\ locked   = {}
    /\ admitted = [c \in Clients |-> {}]
    /\ command  = [t \in Threads |-> NoCommand]
    /\ source   = [e \in Executions |-> NoExecution]
    /\ row      = NoRow

-----------------------------------------------------------------------------
Admit(t, how, c, of) ==
    /\ At(t, "idle") /\ command[t] = NoCommand
    /\ command' = [command EXCEPT ![t] = Command(how, c, of)]
    /\ UNCHANGED <<vars, locked, admitted, source, row>>

\* ClientControls.trigger: not while the client is locked.
Trigger(t, c) == c \notin locked /\ Admit(t, "trigger", c, NoExecution)

\* WorkflowControls.execute does not look at the lock.
Execute(t, c) == Admit(t, "execute", c, NoExecution)

\* With a bug: an execution that is being compensated counts as failed.
RetryEarly(t, e) ==
    /\ disk[e] # NoRecord
    /\ disk[e].state \in {"COMPENSATING", "FAILED"}
    /\ Admit(t, "retry", disk[e].client, e)

\* ExecutionControls.retry: of a record that is FAILED, which it leaves as it is.
Retry(t, e) ==
    /\ disk[e] # NoRecord
    /\ disk[e].state = "FAILED"
    /\ Admit(t, "retry", disk[e].client, e)

\* With a bug: a command that was refused stays with its thread.
BeginKeeping(t) ==
    /\ command[t] # NoCommand
    /\ \E e \in Executions :
          /\ Acquire(t, command[t].client, e)
          /\ source' = [source EXCEPT ![e] = command[t].of]
    /\ UNCHANGED <<locked, admitted, command, row>>

\* With a bug: a retry goes around the client lock.
BeginBlindly(t) ==
    /\ command[t] # NoCommand
    /\ \E e \in Executions :
          /\ AcquireBlindly(t, command[t].client, e)
          /\ source' = [source EXCEPT ![e] = command[t].of]
    /\ command' = [command EXCEPT ![t] = NoCommand]
    /\ UNCHANGED <<locked, admitted, row>>

\* ClientExecutionService.start, whatever was read for it: executed at once or,
\* unless it is a retry, on a schedule; or refused, as the client is busy.
Begin(t) ==
    /\ command[t] # NoCommand
    /\ \/ \E e \in Executions :
             /\ \/ Acquire(t, command[t].client, e)
                \/ command[t].how # "retry" /\ Schedule(t, command[t].client, e)
             /\ source' = [source EXCEPT ![e] = command[t].of]
       \/ locks[command[t].client] # NoThread /\ UNCHANGED <<vars, source>>
    /\ command' = [command EXCEPT ![t] = NoCommand]
    /\ UNCHANGED <<locked, admitted, row>>

Lock(c) ==
    /\ c \notin locked
    /\ locked' = locked \cup {c}
    /\ admitted' = [admitted EXCEPT ![c] =
           {t \in Threads : command[t] # NoCommand /\ command[t].how = "trigger"
                                                   /\ command[t].client = c}]
    /\ UNCHANGED <<vars, command, source, row>>

Unlock(c) ==
    /\ c \in locked
    /\ locked' = locked \ {c}
    /\ admitted' = [admitted EXCEPT ![c] = {}]
    /\ UNCHANGED <<vars, command, source, row>>

-----------------------------------------------------------------------------
\* _execution_records: the records are read at once, of which one is followed.
ReadRecords ==
    /\ row = NoRow
    /\ \E e \in Executions :
          /\ disk[e] # NoRecord
          /\ row' = [of |-> e, record |-> disk[e], instance |-> "unread"]
    /\ UNCHANGED <<vars, locked, admitted, command, source>>

\* With a bug: the instance is looked for although the record does not name it.
JoinUnlinked ==
    /\ row # NoRow /\ row.instance = "unread"
    /\ row' = [row EXCEPT !.instance = work[row.of]]
    /\ UNCHANGED <<vars, locked, admitted, command, source>>

\* ExecutionMonitorDashboard._execution: the instance the record names, if any.
Join ==
    /\ row # NoRow /\ row.instance = "unread"
    /\ row' = [row EXCEPT !.instance = IF row.record.linked THEN work[row.of] ELSE "none"]
    /\ UNCHANGED <<vars, locked, admitted, command, source>>

\* The monitor is answered.
Show ==
    /\ row # NoRow /\ row.instance # "unread"
    /\ row' = NoRow
    /\ UNCHANGED <<vars, locked, admitted, command, source>>

\* The process dies, and with it the cockpit lock, the commands and the answer.
CCrash ==
    /\ Crash
    /\ locked'   = {}
    /\ admitted' = [c \in Clients |-> {}]
    /\ command'  = [t \in Threads |-> NoCommand]
    /\ row'      = NoRow
    /\ UNCHANGED source

Delegated(t) == Work(t) /\ UNCHANGED cockpit

CNext ==
    \/ \E t \in Threads :
          \/ \E c \in Clients : Trigger(t, c) \/ Execute(t, c)
          \/ \E e \in Executions : Retry(t, e)
          \/ Begin(t) \/ Delegated(t)
    \/ \E c \in Clients : Lock(c) \/ Unlock(c)
    \/ ReadRecords \/ Join \/ Show
    \/ CCrash

CSpec == CInit /\ [][CNext]_<<vars, cockpit>>

-----------------------------------------------------------------------------
\* The variables of the cockpit have their types, a command waits only with a
\* thread that executes nothing, and the row is of a record.
CTypeOK ==
    /\ locked \subseteq Clients
    /\ admitted \in [Clients -> SUBSET Threads]
    /\ \A t \in Threads : command[t] # NoCommand =>
          /\ command[t].how \in {"trigger", "execute", "retry"}
          /\ command[t].client \in Clients
          /\ command[t].of \in Executions \cup {NoExecution}
          /\ At(t, "idle")
    /\ source \in [Executions -> Executions \cup {NoExecution}]
    /\ row # NoRow => row.of \in Executions /\ row.record \in Record

(***************************************************************************)
(* What a command read still holds where it matters when it is started: a  *)
(* trigger on its way for a client that is locked by now was admitted      *)
(* before the lock, and a retry is of an execution of the same client that *)
(* is FAILED for good (client_controls.py:19-21, execution_controls.py:    *)
(* 26-31).                                                                 *)
(***************************************************************************)
AdmittedInTime ==
    /\ \A t \in Threads :
          command[t] # NoCommand /\ command[t].how = "trigger" /\ command[t].client \in locked
              => t \in admitted[command[t].client]
    /\ \A e \in Executions :
          disk[e] # NoRecord /\ source[e] # NoExecution =>
              /\ disk[source[e]].state = "FAILED"
              /\ disk[source[e]].client = disk[e].client

(***************************************************************************)
(* The monitor joins records and instances that it read at different       *)
(* moments, and still shows nothing that never was: an instance has ended  *)
(* when its record names it, COMPLETED comes with a completed instance and *)
(* a failed step with a failed one (execution_monitor.py:16-26).           *)
(***************************************************************************)
MonitorAgrees ==
    row # NoRow /\ row.instance # "unread" =>
        /\ row.instance \in {"none", "completed", "failed"}
        /\ row.record.state = "COMPLETED" => row.instance = "completed"
        /\ row.record.error = "step" => row.instance = "failed"

\* Whatever the cockpit commands, its executions are executions of COS-002:
\* none goes around the client lock or the table of transitions.
ImplementsExecution == Spec
=============================================================================
