---------------------------- MODULE WorkflowEngine ----------------------------
(***************************************************************************)
(* bbi_os/workflows/engine.py: a saga engine.  A run of a workflow         *)
(* instance executes the steps of its definition in order, saving the      *)
(* instance before and after each step; when a step fails, the completed   *)
(* steps that gave rollback data are undone in reverse order.  A failed    *)
(* instance can be retried.                                                *)
(*                                                                         *)
(* Threads run the engine at the same time.  Each save is one atomic write *)
(* of the instance to disk (see JsonStore) that may raise; each effect of  *)
(* an action handler is one step; the process may die between any two.     *)
(***************************************************************************)
EXTENDS Naturals, Sequences

CONSTANTS
    Threads,     \* request handler threads
    Instances,   \* identifiers trigger draws with uuid4
    N,           \* number of steps of the definition
    Reversible,  \* the steps whose handler returns rollback data
    NoInstance,
    NoRecord,
    MaxRuns,     \* bound on the runs of one instance (a trigger and its retries)
    MaxFaults,   \* bound on saves that raise
    MaxCrashes   \* bound on process crashes

Steps == 1..N

ASSUME StepsAssumption == N \in Nat \ {0} /\ Reversible \subseteq Steps
ASSUME BoundsAssumption ==
    MaxRuns \in Nat /\ MaxFaults \in Nat /\ MaxCrashes \in Nat
ASSUME MarksAssumption == NoInstance \notin Instances

VARIABLES
    disk,     \* the persisted instances
    pc,       \* where each thread stands in the engine
    inst,     \* the instance a thread works on
    mem,      \* its WorkflowInstance object
    run,      \* which run of the instance this is (1 is the trigger's)
    step,     \* the step of the loop in _execute
    undo,     \* length of "completed" (always steps 1..undo) left to roll back
    effects,  \* outstanding effects of actions: <<instance, run, step>>
    runs,     \* history: runs begun of each instance
    raced,    \* history: instances retried while not settled as failed
    cut,      \* history: instances some run of which ended by an escaped
              \* exception or a crash
    faults, crashes

ghosts == <<runs, raced>>
vars == <<disk, pc, inst, mem, run, step, undo, effects, runs, raced, cut,
          faults, crashes>>

Statuses     == {"pending", "running", "failed", "completed"}
StepStatuses == {"running", "completed", "failed", "rolled_back", "rollback_failed"}

\* WorkflowInstance: the fields that steer or record the execution.
Record == [status: Statuses, index: 0..N, history: Seq(StepStatuses)]
Fresh  == [status |-> "pending", index |-> 0, history |-> <<>>]

ASSUME RecordAssumption == NoRecord \notin Record

Init ==
    /\ disk    = [i \in Instances |-> NoRecord]
    /\ pc      = [t \in Threads |-> "idle"]
    /\ inst    = [t \in Threads |-> NoInstance]
    /\ mem     = [t \in Threads |-> Fresh]
    /\ run     = [t \in Threads |-> 0]
    /\ step    = [t \in Threads |-> 0]
    /\ undo    = [t \in Threads |-> 0]
    /\ effects = {}
    /\ runs    = [i \in Instances |-> 0]
    /\ raced   = {}
    /\ cut     = {}
    /\ faults  = 0
    /\ crashes = 0

\* _execute or _rollback is under way in this thread.
Executing(t) == pc[t] \notin {"idle", "checked"}

At(t, label) == pc[t] = label
Goto(t, label) == pc' = [pc EXCEPT ![t] = label]
Now(t, record) == mem' = [mem EXCEPT ![t] = record]

\* save_instance returns.
Saved(t, record) ==
    /\ disk' = [disk EXCEPT ![inst[t]] = record]
    /\ UNCHANGED faults

\* save_instance raises: the disk keeps what it had.
SaveRaises ==
    /\ faults < MaxFaults
    /\ faults' = faults + 1
    /\ UNCHANGED disk

Forget(t) ==
    /\ Goto(t, "idle")
    /\ inst' = [inst EXCEPT ![t] = NoInstance]
    /\ Now(t, Fresh)
    /\ run'  = [run EXCEPT ![t] = 0]
    /\ step' = [step EXCEPT ![t] = 0]
    /\ undo' = [undo EXCEPT ![t] = 0]

\* An exception leaves _execute: the caller gets it, nothing else is done.
Escapes(t) ==
    /\ SaveRaises
    /\ Forget(t)
    /\ cut' = cut \cup {inst[t]}
    /\ UNCHANGED <<effects, ghosts, crashes>>

Effect(t, s) == <<inst[t], run[t], s>>

-----------------------------------------------------------------------------
(***************************************************************************)
(* trigger: a new instance, saved as pending.  (A definition that is       *)
(* missing or not manual, or a save that raises, leaves no trace.)         *)
(***************************************************************************)
Trigger(t, i) ==
    /\ At(t, "idle")
    /\ disk[i] = NoRecord
    /\ disk' = [disk EXCEPT ![i] = Fresh]
    /\ Goto(t, "enter")
    /\ inst' = [inst EXCEPT ![t] = i]
    /\ Now(t, Fresh)
    /\ run'  = [run EXCEPT ![t] = 1]
    /\ runs' = [runs EXCEPT ![i] = 1]
    /\ UNCHANGED <<step, undo, effects, raced, cut, faults, crashes>>

\* retry refuses what is not failed, as it reads it here.
RetryReads(t, i) ==
    /\ At(t, "idle")
    /\ disk[i] # NoRecord
    /\ disk[i].status = "failed"
    /\ Goto(t, "checked")
    /\ inst' = [inst EXCEPT ![t] = i]
    /\ Now(t, disk[i])
    /\ UNCHANGED <<disk, run, step, undo, effects, ghosts, cut, faults, crashes>>

(***************************************************************************)
(* retry then resets the object it read and saves it, whatever the disk    *)
(* holds by now.  The run it starts is "raced" when the instance is no     *)
(* longer failed, or another thread is still executing it: the failed      *)
(* status is saved before the rollback begins.                             *)
(***************************************************************************)
RetryResets(t) ==
    /\ At(t, "checked")
    /\ runs[inst[t]] < MaxRuns
    /\ Saved(t, Fresh)
    /\ Goto(t, "enter")
    /\ Now(t, Fresh)
    /\ runs' = [runs EXCEPT ![inst[t]] = @ + 1]
    /\ run'  = [run EXCEPT ![t] = runs[inst[t]] + 1]
    /\ raced' = IF \/ disk[inst[t]].status # "failed"
                   \/ \E u \in Threads \ {t} : Executing(u) /\ inst[u] = inst[t]
                THEN raced \cup {inst[t]}
                ELSE raced
    /\ UNCHANGED <<inst, step, undo, effects, cut, crashes>>

\* The save of the reset raises: the caller gets the exception and the
\* persisted instance is still the one that was there.
RetryGivesUp(t) ==
    /\ At(t, "checked")
    /\ Forget(t)
    /\ SaveRaises
    /\ UNCHANGED <<effects, ghosts, cut, crashes>>

-----------------------------------------------------------------------------
Enter(t) ==
    /\ At(t, "enter")
    /\ LET started == [mem[t] EXCEPT !.status = "running"]
       IN  \/ /\ Saved(t, started)
              /\ Now(t, started)
              /\ Goto(t, "loop")
              /\ step' = [step EXCEPT ![t] = 1]
              /\ undo' = [undo EXCEPT ![t] = 0]
              /\ UNCHANGED <<inst, run, effects, ghosts, cut, crashes>>
           \/ Escapes(t)

\* With a bug: the loop runs one step too many.
BeginStepPastEnd(t) ==
    /\ At(t, "loop")
    /\ Saved(t, mem[t])
    /\ Now(t, [mem[t] EXCEPT !.history = Append(@, "running")])
    /\ Goto(t, "act")
    /\ UNCHANGED <<inst, run, step, undo, effects, ghosts, cut, crashes>>

\* The head of the loop: the step is announced on disk before it runs.
BeginStep(t) ==
    /\ At(t, "loop")
    /\ step[t] \in Steps
    /\ LET begun == [mem[t] EXCEPT !.index = step[t] - 1,
                                   !.history = Append(@, "running")]
       IN  \/ /\ Saved(t, begun)
              /\ Now(t, begun)
              /\ Goto(t, "act")
              /\ UNCHANGED <<inst, run, step, undo, effects, ghosts, cut, crashes>>
           \/ Escapes(t)

\* The action runs and its output maps: the step joins "completed".
ActSucceeds(t) ==
    /\ At(t, "act")
    /\ effects' = effects \cup {Effect(t, step[t])}
    /\ Now(t, [mem[t] EXCEPT !.index = step[t],
                             !.history[step[t]] = "completed"])
    /\ undo' = [undo EXCEPT ![t] = step[t]]
    /\ Goto(t, "commit")
    /\ UNCHANGED <<disk, inst, run, step, ghosts, cut, faults, crashes>>

(***************************************************************************)
(* The try block raises before completed.append: an input does not         *)
(* resolve, no handler is registered or the handler raises; or the action  *)
(* has taken effect and its output is no object or does not map.           *)
(***************************************************************************)
ActFails(t) ==
    /\ At(t, "act")
    /\ effects' \in {effects, effects \cup {Effect(t, step[t])}}
    /\ Goto(t, "except")
    /\ UNCHANGED <<disk, inst, mem, run, step, undo, ghosts, cut, faults, crashes>>

\* The save at the end of the try block; when it raises the step has failed
\* although it is in "completed".
Commit(t) ==
    /\ At(t, "commit")
    /\ \/ /\ Saved(t, mem[t])
          /\ Goto(t, "loop")
          /\ step' = [step EXCEPT ![t] = @ + 1]
       \/ /\ SaveRaises
          /\ Goto(t, "except")
          /\ UNCHANGED step
    /\ UNCHANGED <<inst, mem, run, undo, effects, ghosts, cut, crashes>>

\* The except clause: its save may raise too, and then _rollback is not called.
RecordFailure(t) ==
    /\ At(t, "except")
    /\ LET failed == [mem[t] EXCEPT !.status = "failed",
                                    !.history[step[t]] = "failed"]
       IN  \/ /\ Saved(t, failed)
              /\ Now(t, failed)
              /\ Goto(t, "rollback")
              /\ UNCHANGED <<inst, run, step, undo, effects, ghosts, cut, crashes>>
           \/ Escapes(t)

-----------------------------------------------------------------------------
\* With a bug: the loop does not move past a step without rollback data.
RollbackSkipsInPlace(t) ==
    /\ At(t, "rollback")
    /\ undo[t] > 0
    /\ undo[t] \notin Reversible
    /\ UNCHANGED vars

(***************************************************************************)
(* _rollback, one completed step at a time from the last to the first.     *)
(***************************************************************************)
RollbackSkips(t) ==
    /\ At(t, "rollback")
    /\ undo[t] > 0
    /\ undo[t] \notin Reversible
    /\ undo' = [undo EXCEPT ![t] = @ - 1]
    /\ UNCHANGED <<disk, pc, inst, mem, run, step, effects, ghosts, cut, faults, crashes>>

UndoneAs(t, status) ==
    /\ Now(t, [mem[t] EXCEPT !.history[undo[t]] = status])
    /\ undo' = [undo EXCEPT ![t] = @ - 1]
    /\ UNCHANGED <<disk, pc, inst, run, step, ghosts, cut, faults, crashes>>

\* With a bug: "completed" is rolled back first to last.
RollbackUndoesFirst(t) ==
    /\ At(t, "rollback")
    /\ undo[t] \in Reversible
    /\ LET s == CHOOSE s \in Reversible :
                  /\ Effect(t, s) \in effects
                  /\ \A r \in Reversible : Effect(t, r) \in effects => s <= r
       IN  effects' = effects \ {Effect(t, s)}
    /\ UndoneAs(t, "rolled_back")

RollbackUndoes(t) ==
    /\ At(t, "rollback")
    /\ undo[t] \in Reversible
    /\ effects' = effects \ {Effect(t, undo[t])}
    /\ UndoneAs(t, "rolled_back")

\* handler.rollback raises, before or after it undid the effect.
RollbackRaises(t) ==
    /\ At(t, "rollback")
    /\ undo[t] \in Reversible
    /\ effects' \in {effects, effects \ {Effect(t, undo[t])}}
    /\ UndoneAs(t, "rollback_failed")

\* With a bug: the first step is left out of the rollback.
EndRollbackEarly(t) ==
    /\ At(t, "rollback")
    /\ undo[t] <= 1
    /\ \/ /\ Saved(t, mem[t])
          /\ Forget(t)
          /\ UNCHANGED <<effects, ghosts, cut, crashes>>
       \/ Escapes(t)

EndRollback(t) ==
    /\ At(t, "rollback")
    /\ undo[t] = 0
    /\ \/ /\ Saved(t, mem[t])
          /\ Forget(t)
          /\ UNCHANGED <<effects, ghosts, cut, crashes>>
       \/ Escapes(t)

\* The loop is over: completed.
Complete(t) ==
    /\ At(t, "loop")
    /\ step[t] = N + 1
    /\ \/ /\ Saved(t, [mem[t] EXCEPT !.status = "completed"])
          /\ Forget(t)
          /\ UNCHANGED <<effects, ghosts, cut, crashes>>
       \/ Escapes(t)

-----------------------------------------------------------------------------
\* The process dies; the disk and the effects of the actions stay.
Crash ==
    /\ crashes < MaxCrashes
    /\ crashes' = crashes + 1
    /\ cut'  = cut \cup {inst[t] : t \in {u \in Threads : Executing(u)}}
    /\ pc'   = [t \in Threads |-> "idle"]
    /\ inst' = [t \in Threads |-> NoInstance]
    /\ mem'  = [t \in Threads |-> Fresh]
    /\ run'  = [t \in Threads |-> 0]
    /\ step' = [t \in Threads |-> 0]
    /\ undo' = [t \in Threads |-> 0]
    /\ UNCHANGED <<disk, effects, ghosts, faults>>

\* What a thread does once it has been called.
Work(t) ==
    \/ Enter(t)
    \/ BeginStep(t)
    \/ ActSucceeds(t)
    \/ ActFails(t)
    \/ Commit(t)
    \/ RecordFailure(t)
    \/ RollbackSkips(t)
    \/ RollbackUndoes(t)
    \/ RollbackRaises(t)
    \/ EndRollback(t)
    \/ Complete(t)

Next ==
    \/ \E t \in Threads :
        \/ \E i \in Instances : Trigger(t, i) \/ RetryReads(t, i)
        \/ RetryResets(t)
        \/ RetryGivesUp(t)
        \/ Work(t)
    \/ Crash

\* Threads that are in the engine keep running; nobody has to trigger or retry.
Fairness == \A t \in Threads : WF_vars(Work(t))

Spec     == Init /\ [][Next]_vars
FairSpec == Spec /\ Fairness

-----------------------------------------------------------------------------
Labels == {"idle", "checked", "enter", "loop", "act", "commit", "except", "rollback"}

\* Every variable stays in its type.
TypeOK ==
    /\ disk \in [Instances -> Record \cup {NoRecord}]
    /\ pc \in [Threads -> Labels]
    /\ inst \in [Threads -> Instances \cup {NoInstance}]
    /\ mem \in [Threads -> Record]
    /\ run \in [Threads -> Nat]
    /\ step \in [Threads -> 0..N+1]
    /\ undo \in [Threads -> 0..N]
    /\ effects \subseteq Instances \X Nat \X Steps
    /\ runs \in [Instances -> Nat]
    /\ raced \subseteq Instances
    /\ cut \subseteq Instances
    /\ faults \in 0..MaxFaults
    /\ crashes \in 0..MaxCrashes

Busy(i) == \E t \in Threads : Executing(t) /\ inst[t] = i
Settled(i, status) ==
    /\ disk[i] # NoRecord
    /\ disk[i].status = status
    /\ ~Busy(i)

\* Outstanding effect of the last run of an instance.
Outstanding(i, s) == <<i, runs[i], s>> \in effects

(***************************************************************************)
(* Write-ahead: whatever crash or failing save comes, an effect of the     *)
(* current run belongs to a step that the persisted history names, and     *)
(* only the last step it names can be in doubt: all before it are recorded *)
(* as completed while the instance is recorded as running.                 *)
(***************************************************************************)
WriteAhead ==
    \A i \in Instances \ raced :
        disk[i] # NoRecord =>
            LET h == disk[i].history IN
            /\ \A s \in Steps : Outstanding(i, s) => s <= Len(h)
            /\ disk[i].status = "running" =>
                 \A s \in 1..(Len(h) - 1) : h[s] = "completed"

(***************************************************************************)
(* No silent leak: once a run that was neither cut nor raced has failed,   *)
(* a reversible effect that is still there belongs to a step whose         *)
(* persisted status says so: its rollback failed, or it is the step that   *)
(* failed.                                                                 *)
(***************************************************************************)
NoSilentLeak ==
    \A i \in Instances \ (raced \cup cut) :
        Settled(i, "failed") =>
            \A s \in Reversible : Outstanding(i, s) =>
                \/ disk[i].history[s] = "rollback_failed"
                \/ disk[i].history[s] = "failed" /\ s = Len(disk[i].history)

(***************************************************************************)
(* An instance recorded as completed has the effect of every step of its   *)
(* last run, and its history says so.                                      *)
(***************************************************************************)
CompletedHasAllEffects ==
    \A i \in Instances \ raced :
        Settled(i, "completed") =>
            /\ \A s \in Steps : Outstanding(i, s)
            /\ disk[i].history = [s \in Steps |-> "completed"]

(***************************************************************************)
(* Effects are undone in reverse order: when the effect of a step goes, no *)
(* later reversible effect of that run is left, save one whose rollback    *)
(* failed or whose step failed with its effect in place.                   *)
(***************************************************************************)
UndoInReverse ==
    [][\A t \in Threads : \A s \in Reversible :
        (Executing(t) /\ Effect(t, s) \in effects \ effects') =>
            \A l \in Reversible :
                (l > s /\ Effect(t, l) \in effects) =>
                    mem[t].history[l] \in {"rollback_failed", "failed"}]_vars

(***************************************************************************)
(* An instance is left pending or running by nothing but a crash or an     *)
(* escaped exception: every other way out of the engine settles it.        *)
(***************************************************************************)
StuckOnlyIfCut ==
    \A i \in Instances \ raced :
        Settled(i, "pending") \/ Settled(i, "running") => i \in cut

(***************************************************************************)
(* What is persisted of a run tells what it did, whenever it is read: the  *)
(* four statements above (engine.py:110-155).                              *)
(***************************************************************************)
HistoryIsHonest ==
    /\ WriteAhead
    /\ NoSilentLeak
    /\ CompletedHasAllEffects
    /\ StuckOnlyIfCut

\* Every instance that is started is eventually settled, or was cut.
EventuallySettles ==
    \A i \in Instances :
        disk[i] # NoRecord ~> \/ Settled(i, "completed")
                              \/ Settled(i, "failed")
                              \/ i \in cut
=============================================================================
