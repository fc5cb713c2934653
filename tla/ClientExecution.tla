--------------------------- MODULE ClientExecution ---------------------------
(***************************************************************************)
(* bbi_os/client_execution (COS-002): execution records of clients.  An    *)
(* immediate execution runs a workflow template under a per-client lock    *)
(* that is taken without blocking; its record is saved at every change of  *)
(* state, and any save may raise.  Deferred executions are only recorded.  *)
(*                                                                         *)
(* The workflow a thread runs is seen from outside: it ends completed or   *)
(* failed with its steps rolled back, or raises (see WorkflowEngine).      *)
(***************************************************************************)
EXTENDS Naturals, Sequences

CONSTANTS
    Threads,      \* request handler threads
    Clients,      \* clients that exist
    Executions,   \* identifiers drawn with uuid4
    NoThread, NoClient, NoExecution, NoRecord, NoState,
    MaxFaults,    \* bound on saves, and runs of the engine, that raise
    MaxCrashes    \* bound on process crashes

ASSUME MarksAssumption ==
    /\ NoThread \notin Threads
    /\ NoClient \notin Clients
    /\ NoExecution \notin Executions
    /\ NoState \notin {"PENDING", "RUNNING", "WAITING_EXTERNAL",
                       "COMPENSATING", "COMPLETED", "FAILED"}
ASSUME BoundsAssumption == MaxFaults \in Nat /\ MaxCrashes \in Nat

VARIABLES
    disk,     \* the persisted records
    locks,    \* the thread that holds each client's lock
    pc,       \* where each thread stands in execute
    client,   \* the client it was called for
    cur,      \* the execution it works on
    rec,      \* its ClientExecutionRecord object
    work,     \* what became of the workflow of each execution
    cut,      \* history: executions ended by an escaped exception or a crash
    faults, crashes

vars == <<disk, locks, pc, client, cur, rec, work, cut, faults, crashes>>

\* STATE_TRANSITIONS is part of the promise this module is to keep.
Promise == INSTANCE ExecutionLifecycle WITH
    state     <- [e \in Executions |->
                    IF disk[e] = NoRecord THEN NoState ELSE disk[e].state],
    owner     <- [e \in Executions |->
                    IF disk[e] = NoRecord THEN NoClient
                    ELSE IF disk[e].immediate THEN disk[e].client ELSE NoClient],
    abandoned <- cut

States == Promise!States
Terminal == Promise!Terminal

\* ClientExecutionRecord: error is error_reason, linked says that the workflow
\* instance and its output are recorded.
Record == [client: Clients, immediate: BOOLEAN, state: States,
           path: Seq(States), linked: BOOLEAN, error: {"none", "step", "exception"}]

\* With a bug: a new record in a state the table does not know.
NewUnlisted(c, now) == [client |-> c, immediate |-> now, state |-> "NEW",
                        path |-> <<"PENDING">>, linked |-> FALSE, error |-> "none"]

New(c, now) == [client |-> c, immediate |-> now, state |-> "PENDING",
                path |-> <<"PENDING">>, linked |-> FALSE, error |-> "none"]

ASSUME RecordAssumption == NoRecord \notin Record

Init ==
    /\ disk    = [e \in Executions |-> NoRecord]
    /\ locks   = [c \in Clients |-> NoThread]
    /\ pc      = [t \in Threads |-> "idle"]
    /\ client  = [t \in Threads |-> NoClient]
    /\ cur     = [t \in Threads |-> NoExecution]
    /\ rec     = [t \in Threads |-> NoRecord]
    /\ work    = [e \in Executions |-> "none"]
    /\ cut     = {}
    /\ faults  = 0
    /\ crashes = 0

At(t, label) == pc[t] = label
Goto(t, label) == pc' = [pc EXCEPT ![t] = label]
Now(t, record) == rec' = [rec EXCEPT ![t] = record]

Saved(t, record) ==
    /\ disk' = [disk EXCEPT ![cur[t]] = record]
    /\ UNCHANGED faults

SaveRaises ==
    /\ faults < MaxFaults
    /\ faults' = faults + 1
    /\ UNCHANGED disk

Moved(record, s) == [record EXCEPT !.state = s, !.path = Append(@, s)]

\* With a bug: the transition table is not consulted.
TransitionUnchecked(t, s, done, raised) ==
    /\ Now(t, Moved(rec[t], s))
    /\ \/ Saved(t, Moved(rec[t], s)) /\ Goto(t, done)
       \/ SaveRaises /\ Goto(t, raised)

(***************************************************************************)
(* ExecutionStateMachine.transition: the object changes before it is       *)
(* saved, so it keeps the new state when the save raises.                  *)
(***************************************************************************)
Transition(t, s, done, raised) ==
    \/ /\ s \notin Promise!Successors(rec[t].state)
       /\ Goto(t, raised)
       /\ UNCHANGED <<rec, disk, faults>>
    \/ /\ s \in Promise!Successors(rec[t].state)
       /\ Now(t, Moved(rec[t], s))
       /\ \/ Saved(t, Moved(rec[t], s)) /\ Goto(t, done)
          \/ SaveRaises /\ Goto(t, raised)

\* A save that changes fields other than the state.
SaveFields(t, record, done, raised) ==
    /\ Now(t, record)
    /\ \/ Saved(t, record) /\ Goto(t, done)
       \/ SaveRaises /\ Goto(t, raised)

-----------------------------------------------------------------------------
\* uuid4 never draws an identifier that is in use.
Unused(e) == disk[e] = NoRecord /\ \A t \in Threads : cur[t] # e

\* schedule: a deferred request is recorded and that is all.
Schedule(t, c, e) ==
    /\ At(t, "idle")
    /\ Unused(e)
    /\ disk' = [disk EXCEPT ![e] = New(c, FALSE)]
    /\ UNCHANGED <<locks, pc, client, cur, rec, work, cut, faults, crashes>>

\* With a bug: the client lock does not exclude anyone.
AcquireBlindly(t, c, e) ==
    /\ At(t, "idle")
    /\ Unused(e)
    /\ locks' = [locks EXCEPT ![c] = t]
    /\ client' = [client EXCEPT ![t] = c]
    /\ cur' = [cur EXCEPT ![t] = e]
    /\ Goto(t, "create")
    /\ UNCHANGED <<disk, rec, work, cut, faults, crashes>>

\* execute: a held lock is answered with ConcurrentExecution, which changes
\* nothing.
Acquire(t, c, e) ==
    /\ At(t, "idle")
    /\ Unused(e)
    /\ locks[c] = NoThread
    /\ locks' = [locks EXCEPT ![c] = t]
    /\ client' = [client EXCEPT ![t] = c]
    /\ cur' = [cur EXCEPT ![t] = e]
    /\ Goto(t, "create")
    /\ UNCHANGED <<disk, rec, work, cut, faults, crashes>>

Create(t) ==
    /\ At(t, "create")
    /\ SaveFields(t, New(client[t], TRUE), "start", "escape")
    /\ UNCHANGED <<locks, client, cur, work, cut, crashes>>

\* PENDING -> RUNNING is outside the inner try: its exception escapes.
Start(t) ==
    /\ At(t, "start")
    /\ Transition(t, "RUNNING", "resolve", "escape")
    /\ UNCHANGED <<locks, client, cur, work, cut, crashes>>

\* The template is missing, or is found, with or without an external connector.
Resolve(t) ==
    /\ At(t, "resolve")
    /\ \/ /\ Goto(t, "except")
          /\ UNCHANGED <<disk, rec, faults>>
       \/ /\ Goto(t, "call")
          /\ UNCHANGED <<disk, rec, faults>>
       \/ Transition(t, "WAITING_EXTERNAL", "call", "except")
    /\ UNCHANGED <<locks, client, cur, work, cut, crashes>>

\* templates.execute raises before it triggers the workflow, or triggers it.
Call(t) ==
    /\ At(t, "call")
    /\ \/ /\ Goto(t, "except")
          /\ UNCHANGED work
       \/ /\ Goto(t, "inflight")
          /\ work' = [work EXCEPT ![cur[t]] = "running"]
    /\ UNCHANGED <<disk, locks, client, cur, rec, cut, faults, crashes>>

\* The workflow ends and templates.execute returns its instance, or raises:
\* the engine let an exception escape, or the lineage could not be saved.
WorkflowEnds(t) ==
    /\ At(t, "inflight")
    /\ \/ /\ \E outcome \in {"completed", "failed"} :
               work' = [work EXCEPT ![cur[t]] = outcome]
          /\ Goto(t, "link")
          /\ UNCHANGED <<disk, faults>>
       \/ /\ \E outcome \in {"completed", "failed", "cut"} :
               work' = [work EXCEPT ![cur[t]] = outcome]
          /\ SaveRaises
          /\ Goto(t, "except")
    /\ UNCHANGED <<locks, client, cur, rec, cut, crashes>>

\* With a bug: WAITING_EXTERNAL is not resumed before it completes.
AfterLinkForgettingWait(t) ==
    IF work[cur[t]] = "failed" THEN "record" ELSE "complete"

\* What follows depends on how the instance ended.
AfterLink(t) ==
    IF work[cur[t]] = "failed" THEN "record"
    ELSE IF rec[t].state = "WAITING_EXTERNAL" THEN "resume"
    ELSE "complete"

Link(t) ==
    /\ At(t, "link")
    /\ SaveFields(t, [rec[t] EXCEPT !.linked = TRUE], AfterLink(t), "except")
    /\ UNCHANGED <<locks, client, cur, work, cut, crashes>>

Resume(t) ==
    /\ At(t, "resume")
    /\ Transition(t, "RUNNING", "complete", "except")
    /\ UNCHANGED <<locks, client, cur, work, cut, crashes>>

Complete(t) ==
    /\ At(t, "complete")
    /\ Transition(t, "COMPLETED", "leave", "except")
    /\ UNCHANGED <<locks, client, cur, work, cut, crashes>>

\* _record_failure
RecordFailure(t) ==
    /\ At(t, "record")
    /\ SaveFields(t, [rec[t] EXCEPT !.error = "step"], "compensate", "except")
    /\ UNCHANGED <<locks, client, cur, work, cut, crashes>>

Compensate(t) ==
    /\ At(t, "compensate")
    /\ Transition(t, "COMPENSATING", "fail", "except")
    /\ UNCHANGED <<locks, client, cur, work, cut, crashes>>

Fail(t) ==
    /\ At(t, "fail")
    /\ Transition(t, "FAILED", "leave", "except")
    /\ UNCHANGED <<locks, client, cur, work, cut, crashes>>

\* The except clause: nothing catches what it raises.
Except(t) ==
    /\ At(t, "except")
    /\ SaveFields(t, [rec[t] EXCEPT !.error = "exception"], "compensate late", "escape")
    /\ UNCHANGED <<locks, client, cur, work, cut, crashes>>

CompensateLate(t) ==
    /\ At(t, "compensate late")
    /\ Transition(t, "COMPENSATING", "fail late", "escape")
    /\ UNCHANGED <<locks, client, cur, work, cut, crashes>>

FailLate(t) ==
    /\ At(t, "fail late")
    /\ Transition(t, "FAILED", "leave", "escape")
    /\ UNCHANGED <<locks, client, cur, work, cut, crashes>>

ReleaseLock(t) ==
    /\ locks'  = [locks EXCEPT ![client[t]] = NoThread]
    /\ Goto(t, "idle")
    /\ client' = [client EXCEPT ![t] = NoClient]
    /\ cur'    = [cur EXCEPT ![t] = NoExecution]
    /\ Now(t, NoRecord)
    /\ UNCHANGED <<disk, work, faults, crashes>>

\* The executions under way that have a record.
Begun == {e \in Executions : disk[e] # NoRecord /\ \E t \in Threads : cur[t] = e}

\* With a bug: the lock is not released on the way out.
LeaveHoldingLock(t) ==
    /\ At(t, "leave")
    /\ Goto(t, "idle")
    /\ UNCHANGED <<disk, locks, client, cur, rec, work, cut, faults, crashes>>

\* finally: the record is returned, or the exception goes on to the caller.
Leave(t) ==
    /\ At(t, "leave")
    /\ ReleaseLock(t)
    /\ UNCHANGED cut

Escape(t) ==
    /\ At(t, "escape")
    /\ ReleaseLock(t)
    /\ cut' = cut \cup (Begun \cap {cur[t]})

-----------------------------------------------------------------------------
\* The process dies: records stay as they are, locks and threads are gone.
Crash ==
    /\ crashes < MaxCrashes
    /\ crashes' = crashes + 1
    /\ cut'    = cut \cup Begun
    /\ work'   = [e \in Executions |-> IF work[e] = "running" THEN "cut" ELSE work[e]]
    /\ locks'  = [c \in Clients |-> NoThread]
    /\ pc'     = [t \in Threads |-> "idle"]
    /\ client' = [t \in Threads |-> NoClient]
    /\ cur'    = [t \in Threads |-> NoExecution]
    /\ rec'    = [t \in Threads |-> NoRecord]
    /\ UNCHANGED <<disk, faults>>

Work(t) ==
    \/ Create(t)
    \/ Start(t)
    \/ Resolve(t)
    \/ Call(t)
    \/ WorkflowEnds(t)
    \/ Link(t)
    \/ Resume(t)
    \/ Complete(t)
    \/ RecordFailure(t)
    \/ Compensate(t)
    \/ Fail(t)
    \/ Except(t)
    \/ CompensateLate(t)
    \/ FailLate(t)
    \/ Leave(t)
    \/ Escape(t)

Next ==
    \/ \E t \in Threads :
        \/ \E c \in Clients, e \in Executions : Acquire(t, c, e) \/ Schedule(t, c, e)
        \/ Work(t)
    \/ Crash

\* A thread inside execute keeps running; its workflow ends (WorkflowEngine).
Fairness == \A t \in Threads : WF_vars(Work(t))

Spec     == Init /\ [][Next]_vars
FairSpec == Spec /\ Fairness

-----------------------------------------------------------------------------
Labels == {"idle", "create", "start", "resolve", "call", "inflight", "link",
           "resume", "complete", "record", "compensate", "fail", "except",
           "compensate late", "fail late", "leave", "escape"}

\* Every variable stays in its type.
TypeOK ==
    /\ disk \in [Executions -> Record \cup {NoRecord}]
    /\ locks \in [Clients -> Threads \cup {NoThread}]
    /\ pc \in [Threads -> Labels]
    /\ client \in [Threads -> Clients \cup {NoClient}]
    /\ cur \in [Threads -> Executions \cup {NoExecution}]
    /\ rec \in [Threads -> Record \cup {NoRecord}]
    /\ work \in [Executions -> {"none", "running", "completed", "failed", "cut"}]
    /\ cut \subseteq Executions
    /\ faults \in 0..MaxFaults
    /\ crashes \in 0..MaxCrashes

\* Immediate executions of a client that are recorded as under way.
Open(c) ==
    {e \in Executions :
        /\ disk[e] # NoRecord
        /\ disk[e].client = c
        /\ disk[e].immediate
        /\ disk[e].state \notin Terminal}

(***************************************************************************)
(* A client has at most one immediate execution recorded as under way,     *)
(* apart from those an escaped exception or a crash cut off: the lock in   *)
(* memory and the records on disk agree.                                   *)
(***************************************************************************)
OneOpenPerClient ==
    \A c \in Clients : \A e, f \in Open(c) \ cut : e = f

(***************************************************************************)
(* A record is left open by nothing but an escaped exception or a crash:   *)
(* some thread still works on every other open one.                        *)
(***************************************************************************)
OpenHasWorker ==
    \A c \in Clients : \A e \in Open(c) \ cut :
        \E t \in Threads : cur[t] = e /\ locks[c] = t

(***************************************************************************)
(* Records tell what the workflow did: COMPLETED only after it completed,  *)
(* "Workflow step failed" only after it failed, and compensation is never  *)
(* recorded while it still runs.                                           *)
(***************************************************************************)
OutcomeIsTruthful ==
    \A e \in Executions : disk[e] # NoRecord =>
        /\ disk[e].state = "COMPLETED" => work[e] = "completed"
        /\ disk[e].error = "step" => work[e] = "failed"
        /\ disk[e].state = "COMPENSATING" => work[e] # "running"

(***************************************************************************)
(* As long as no save has raised, FAILED is never recorded for a workflow  *)
(* that completed, and COMPLETED carries no error.                         *)
(***************************************************************************)
FalseAlarmNeedsFault ==
    faults = 0 =>
        \A e \in Executions : disk[e] # NoRecord =>
            /\ disk[e].state = "FAILED" => work[e] # "completed"
            /\ disk[e].state = "COMPLETED" => disk[e].error = "none"

(***************************************************************************)
(* The record execute returns is the persisted one, and has ended.         *)
(***************************************************************************)
ReturnedIsPersisted ==
    \A t \in Threads : pc[t] = "leave" =>
        /\ disk[cur[t]] = rec[t]
        /\ rec[t].state \in Terminal

\* The persisted list of transitions is a path of the transition table from
\* PENDING to the persisted state.
PathIsLegal ==
    \A e \in Executions : disk[e] # NoRecord =>
        LET path == disk[e].path IN
        /\ path[1] = "PENDING"
        /\ path[Len(path)] = disk[e].state
        /\ \A n \in 1..(Len(path) - 1) : path[n + 1] \in Promise!Successors(path[n])

\* A client's open execution is the one of the thread that holds its lock
\* (engine.py:35-68).
OpenIsHeld == OneOpenPerClient /\ OpenHasWorker

\* What a record says and what execute returns is what happened
\* (engine.py:38-79, state.py:28-54).
RecordsAreHonest ==
    /\ OutcomeIsTruthful
    /\ FalseAlarmNeedsFault
    /\ ReturnedIsPersisted
    /\ PathIsLegal

\* The records keep the promise of the lifecycle.
ImplementsLifecycle == Promise!Spec

Ended(e) == disk[e] # NoRecord /\ disk[e].state \in Terminal

\* Every immediate execution that is recorded ends or is cut off, and whatever
\* it ends with, the lock of its client is given back.
EveryExecutionEnds ==
    /\ \A e \in Executions :
          (disk[e] # NoRecord /\ disk[e].immediate) ~> (e \in cut \/ Ended(e))
    /\ \A c \in Clients : (locks[c] # NoThread) ~> (locks[c] = NoThread)
=============================================================================
