------------------------------ MODULE Onboarding ------------------------------
(***************************************************************************)
(* Client onboarding, COS-001 (bbi_os/client_onboarding/): a workflow of   *)
(* six steps that makes a client entity, a task and an onboarding entity,  *)
(* run by the workflow engine.  This module composes the engine of         *)
(* WorkflowEngine, whose actions it takes over, with the entities that the *)
(* action handlers of the steps write, and with requests of the task API   *)
(* (bbi_os/task_management/service.py), which update and delete tasks at   *)
(* the same time.                                                          *)
(*                                                                         *)
(* An instance makes at most one entity of each kind, so that entities are *)
(* named by the instance that makes them.  The retry of a failed instance, *)
(* which makes new entities, is left to WorkflowEngine.                    *)
(***************************************************************************)
EXTENDS WorkflowEngine

CONSTANTS
    Editors,   \* threads that serve requests of the task API
    NoEntity

\* The steps of the template, and those whose handler gives rollback data.
ValidateStep == 1
ClientStep   == 2
RoleStep     == 3
TaskStep     == 4
ExternalStep == 5
CompleteStep == 6

ASSUME TemplateAssumption ==
    /\ N = 6
    /\ Reversible = {ClientStep, RoleStep, TaskStep, CompleteStep}

VARIABLES
    client,      \* the client entity of each instance
    task,        \* its task
    onboarding,  \* its onboarding entity
    external,    \* whether the external system was set up for it
    held,        \* the task each update of the API has read: whose it is
    revived,     \* history: instances whose task was written back by an
                 \* update after it had been deleted
    edits        \* the number of calls of the task API

entities == <<client, task, onboarding, external>>
api == <<held, revived, edits>>
onboardingVars == <<vars, entities, api>>

CONSTANT MaxEdits  \* bound on the calls of the task API

Client == [assigned: BOOLEAN, complete: BOOLEAN]
Task   == {"pending", "edited"}

ASSUME OnboardingAssumption ==
    MaxEdits \in Nat /\ NoEntity \notin Client \cup Task \cup {"complete"}

OInit ==
    /\ Init
    /\ client     = [i \in Instances |-> NoEntity]
    /\ task       = [i \in Instances |-> NoEntity]
    /\ onboarding = [i \in Instances |-> NoEntity]
    /\ external   = [i \in Instances |-> FALSE]
    /\ held       = [e \in Editors |-> NoInstance]
    /\ revived    = {}
    /\ edits      = 0

-----------------------------------------------------------------------------
(***************************************************************************)
(* The steps.  Each succeeds as an action of the engine together with what *)
(* its handler saves.                                                      *)
(***************************************************************************)
Does(t, s) == step[t] = s /\ ActSucceeds(t)

ValidateClient(t) ==
    /\ Does(t, ValidateStep)
    /\ UNCHANGED <<entities, api>>

CreateClient(t) ==
    /\ Does(t, ClientStep)
    /\ client' = [client EXCEPT ![inst[t]] = [assigned |-> FALSE, complete |-> FALSE]]
    /\ UNCHANGED <<task, onboarding, external, api>>

\* Reads the client, and saves it with the user of the request.
AssignUserRole(t) ==
    /\ Does(t, RoleStep)
    /\ client[inst[t]] # NoEntity
    /\ client' = [client EXCEPT ![inst[t]].assigned = TRUE]
    /\ UNCHANGED <<task, onboarding, external, api>>

\* With a bug: the task is created in a state that the API does not know.
CreateTaskUnknown(t) ==
    /\ Does(t, TaskStep)
    /\ task' = [task EXCEPT ![inst[t]] = "created"]
    /\ UNCHANGED <<client, onboarding, external, api>>

CreateTask(t) ==
    /\ Does(t, TaskStep)
    /\ task' = [task EXCEPT ![inst[t]] = "pending"]
    /\ UNCHANGED <<client, onboarding, external, api>>

\* The POST to the external system, or nothing without a connector.
ExternalSetup(t) ==
    /\ Does(t, ExternalStep)
    /\ \E called \in BOOLEAN : external' = [external EXCEPT ![inst[t]] = called]
    /\ UNCHANGED <<client, task, onboarding, api>>

\* Saves the onboarding entity, then reads and saves the client.
CompleteOnboarding(t) ==
    /\ Does(t, CompleteStep)
    /\ client[inst[t]] # NoEntity
    /\ onboarding' = [onboarding EXCEPT ![inst[t]] = "complete"]
    /\ client' = [client EXCEPT ![inst[t]].complete = TRUE]
    /\ UNCHANGED <<task, external, api>>

\* A step fails before it has saved anything (each has one save, but the last).
StepFails(t) ==
    /\ ActFails(t)
    /\ effects' = effects
    /\ UNCHANGED <<entities, api>>

\* The call of the external system took effect, and was answered by a failure
\* or not in time.
ExternalSetupFailsLate(t) ==
    /\ step[t] = ExternalStep
    /\ ActFails(t)
    /\ effects' = effects \cup {Effect(t, ExternalStep)}
    /\ external' = [external EXCEPT ![inst[t]] = TRUE]
    /\ UNCHANGED <<client, task, onboarding, api>>

\* The last step fails between its two saves: no rollback data is returned.
CompleteOnboardingFailsLate(t) ==
    /\ step[t] = CompleteStep
    /\ ActFails(t)
    /\ effects' = effects \cup {Effect(t, CompleteStep)}
    /\ onboarding' = [onboarding EXCEPT ![inst[t]] = "complete"]
    /\ UNCHANGED <<client, task, external, api>>

-----------------------------------------------------------------------------
(***************************************************************************)
(* The compensations of the handlers.                                      *)
(***************************************************************************)
Undoes(t, s) == undo[t] = s /\ RollbackUndoes(t)

\* With a bug: the rollback does not know the operation "delete_onboarding".
DeleteOnboardingIgnored(t) ==
    /\ Undoes(t, CompleteStep)
    /\ UNCHANGED <<entities, api>>

DeleteOnboarding(t) ==
    /\ Undoes(t, CompleteStep)
    /\ onboarding' = [onboarding EXCEPT ![inst[t]] = NoEntity]
    /\ UNCHANGED <<client, task, external, api>>

DeleteTask(t) ==
    /\ Undoes(t, TaskStep)
    /\ task[inst[t]] # NoEntity
    /\ task' = [task EXCEPT ![inst[t]] = NoEntity]
    /\ UNCHANGED <<client, onboarding, external, api>>

\* With a bug: a task that is gone is passed over without a word.
DeleteTaskQuietly(t) ==
    /\ At(t, "rollback")
    /\ undo[t] = TaskStep
    /\ task[inst[t]] = NoEntity
    /\ effects' = effects \ {Effect(t, TaskStep)}
    /\ undo' = [undo EXCEPT ![t] = @ - 1]
    /\ UNCHANGED <<disk, pc, inst, mem, run, step, ghosts, cut, faults, crashes>>
    /\ UNCHANGED <<entities, api>>

\* The task was deleted through the API: TaskNotFoundError.
DeleteTaskNotFound(t) ==
    /\ undo[t] = TaskStep
    /\ RollbackRaises(t)
    /\ task[inst[t]] = NoEntity
    /\ effects' = effects \ {Effect(t, TaskStep)}
    /\ UNCHANGED <<entities, api>>

\* The record of before the role was assigned is saved, whether or not there
\* still is a client.
RestoreClient(t) ==
    /\ Undoes(t, RoleStep)
    /\ client' = [client EXCEPT ![inst[t]] = [assigned |-> FALSE, complete |-> FALSE]]
    /\ UNCHANGED <<task, onboarding, external, api>>

\* With a bug: the client stays when its onboarding has been completed.
DeleteIncompleteClient(t) ==
    /\ Undoes(t, ClientStep)
    /\ client' = [client EXCEPT ![inst[t]] = IF CompleteStep <= step[t] THEN @ ELSE NoEntity]
    /\ UNCHANGED <<task, onboarding, external, api>>

DeleteClient(t) ==
    /\ Undoes(t, ClientStep)
    /\ client' = [client EXCEPT ![inst[t]] = NoEntity]
    /\ UNCHANGED <<task, onboarding, external, api>>

\* A compensation raises; the entity stays.
UndoFails(t) ==
    /\ RollbackRaises(t)
    /\ effects' = effects
    /\ ~ (undo[t] = TaskStep /\ task[inst[t]] = NoEntity)
    /\ UNCHANGED <<entities, api>>

-----------------------------------------------------------------------------
(***************************************************************************)
(* The task API.  update finds the task and saves it later, as an upsert.  *)
(***************************************************************************)
UpdateFinds(e, i) ==
    /\ edits < MaxEdits
    /\ held[e] = NoInstance
    /\ task[i] # NoEntity
    /\ held' = [held EXCEPT ![e] = i]
    /\ edits' = edits + 1
    /\ UNCHANGED <<vars, entities, revived>>

UpdateSaves(e) ==
    /\ held[e] # NoInstance
    /\ LET i == held[e]
       IN  /\ task' = [task EXCEPT ![i] = "edited"]
           /\ revived' = IF task[i] = NoEntity THEN revived \cup {i} ELSE revived
    /\ held' = [held EXCEPT ![e] = NoInstance]
    /\ UNCHANGED <<vars, client, onboarding, external, edits>>

\* The save raises: the caller gets the exception.
UpdateRaises(e) ==
    /\ held[e] # NoInstance
    /\ held' = [held EXCEPT ![e] = NoInstance]
    /\ UNCHANGED <<vars, entities, revived, edits>>

Delete(i) ==
    /\ edits < MaxEdits
    /\ task[i] # NoEntity
    /\ task' = [task EXCEPT ![i] = NoEntity]
    /\ edits' = edits + 1
    /\ UNCHANGED <<vars, client, onboarding, external, held, revived>>

-----------------------------------------------------------------------------
\* The steps of the engine that touch no entity.
EngineOnly(t) ==
    /\ \/ \E i \in Instances : Trigger(t, i)
       \/ Enter(t) \/ BeginStep(t) \/ Commit(t) \/ RecordFailure(t)
       \/ RollbackSkips(t) \/ EndRollback(t) \/ Complete(t)
    /\ UNCHANGED <<entities, api>>

Act(t) ==
    \/ ValidateClient(t) \/ CreateClient(t) \/ AssignUserRole(t) \/ CreateTask(t)
    \/ ExternalSetup(t) \/ CompleteOnboarding(t)
    \/ StepFails(t) \/ ExternalSetupFailsLate(t) \/ CompleteOnboardingFailsLate(t)

Compensate(t) ==
    \/ DeleteOnboarding(t) \/ DeleteTask(t) \/ DeleteTaskNotFound(t)
    \/ RestoreClient(t) \/ DeleteClient(t) \/ UndoFails(t)

TaskApi(e) ==
    \/ \E i \in Instances : UpdateFinds(e, i)
    \/ UpdateSaves(e)
    \/ UpdateRaises(e)

\* The process dies.
OCrash ==
    /\ Crash
    /\ held' = [e \in Editors |-> NoInstance]
    /\ UNCHANGED <<entities, revived, edits>>

ONext ==
    \/ \E t \in Threads : EngineOnly(t) \/ Act(t) \/ Compensate(t)
    \/ \E e \in Editors : TaskApi(e)
    \/ \E i \in Instances : Delete(i)
    \/ OCrash

OSpec == OInit /\ [][ONext]_onboardingVars

-----------------------------------------------------------------------------
OTypeOK ==
    /\ TypeOK
    /\ client \in [Instances -> Client \cup {NoEntity}]
    /\ task \in [Instances -> Task \cup {NoEntity}]
    /\ onboarding \in [Instances -> {"complete", NoEntity}]
    /\ external \in [Instances -> BOOLEAN]
    /\ held \in [Editors -> Instances \cup {NoInstance}]
    /\ revived \subseteq Instances
    /\ edits \in 0..MaxEdits

Failed(i) == Settled(i, "failed") /\ i \notin cut
Began(i, s) == s <= Len(disk[i].history)

(***************************************************************************)
(* Onboarding is all or nothing for the client: one that failed leaves no  *)
(* client behind unless delete_client raised, whatever became of the other *)
(* compensations.  It holds because restore_client, an upsert, runs before *)
(* delete_client (onboarding_engine.py lines 142-147).                     *)
(***************************************************************************)
FailedLeavesNoClient ==
    \A i \in Instances :
        Failed(i) /\ client[i] # NoEntity =>
            Began(i, ClientStep) /\ disk[i].history[ClientStep] = "rollback_failed"

(***************************************************************************)
(* A completed onboarding has its three entities, linked and complete; the *)
(* task alone may have been deleted since, through the API.                *)
(***************************************************************************)
CompletedIsLinked ==
    \A i \in Instances :
        Settled(i, "completed") =>
            /\ client[i] = [assigned |-> TRUE, complete |-> TRUE]
            /\ onboarding[i] = "complete"
            /\ task[i] = NoEntity => edits > 0

(***************************************************************************)
(* An onboarding entity says "complete" of a client that is not: only      *)
(* while the last step or its rollback is under way, after a crash or an   *)
(* escaped exception, or when the last step failed between its two saves   *)
(* (lines 114-121) or its rollback failed.                                 *)
(***************************************************************************)
OrphansAreKnown ==
    \A i \in Instances :
        (onboarding[i] = "complete" /\ (client[i] = NoEntity \/ ~ client[i].complete)) =>
            \/ Busy(i) \/ i \in cut
            \/ /\ Began(i, CompleteStep)
               /\ disk[i].history[CompleteStep] \in {"failed", "rollback_failed"}

(***************************************************************************)
(* The task of a failed onboarding is gone, unless its rollback raised, or *)
(* an update through the API wrote it back.                                *)
(***************************************************************************)
TaskIsUndone ==
    \A i \in Instances \ revived :
        Failed(i) /\ task[i] # NoEntity =>
            disk[i].history[TaskStep] = "rollback_failed"

\* What a failed onboarding leaves of its client and its task.
FailedLeavesNothing == FailedLeavesNoClient /\ TaskIsUndone

\* What the three entities say of each other.
LinksAreHonest == CompletedIsLinked /\ OrphansAreKnown

\* The composition is the engine: its steps are steps of the engine or none.
ImplementsEngine == Spec
=============================================================================
