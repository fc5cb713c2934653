------------------------- MODULE WorkflowEngineProofs -------------------------
(***************************************************************************)
(* Theorems about WorkflowEngine for any threads, instances, definition    *)
(* and bounds, and then about Onboarding, which runs on it.  (None of the  *)
(* first uses the assumptions of Onboarding.)  A run owns its object and   *)
(* the effects it made, raced or not, because no two runs of an instance   *)
(* have the same number; only the record on disk is shared, and it agrees  *)
(* with the run as long as the instance is not raced.                      *)
(***************************************************************************)
EXTENDS Onboarding, TLAPS

\* The steps of run r of instance i whose effects are outstanding.
Done(i, r) == {s \in Steps : <<i, r, s>> \in effects}

AllCompleted(h, n) == \A s \in 1..n : h[s] = "completed"

\* What a rollback that has reached step u may leave behind.
Accounted(h, u, k, done) ==
    \A s \in Reversible : (s \in done /\ s > u) =>
        \/ h[s] = "rollback_failed"
        \/ h[s] = "failed" /\ s = k

\* At label l the object m, the step k, the steps 1..u to undo and the
\* outstanding effects of a run agree.
Private(l, m, k, u, done) ==
    /\ m \in Record
    /\ u \in 0..N
    /\ l = "enter" => m = Fresh /\ done = {}
    /\ l \in {"loop", "act", "commit", "except"} => m.status = "running"
    /\ l = "loop" =>
         /\ k \in 1..N+1 /\ u = k - 1
         /\ Len(m.history) = k - 1
         /\ AllCompleted(m.history, k - 1)
         /\ done = 1..k-1
    /\ l \in {"act", "commit", "except", "rollback"} =>
         k \in Steps /\ Len(m.history) = k
    /\ l = "act" =>
         /\ u = k - 1
         /\ AllCompleted(m.history, k - 1)
         /\ done = 1..k-1
    /\ l = "commit" =>
         /\ u = k
         /\ AllCompleted(m.history, k)
         /\ done = 1..k
    /\ l = "except" =>
         /\ u \in {k - 1, k}
         /\ AllCompleted(m.history, k - 1)
         /\ done \subseteq 1..k
    /\ l = "rollback" =>
         /\ m.status = "failed"
         /\ u <= k
         /\ done \subseteq 1..k
         /\ Accounted(m.history, u, k, done)

\* The record d on disk follows the object of the only run under way.
Follows(l, d, m, k) ==
    /\ d \in Record
    /\ l \in {"enter", "loop", "act"} => d = m
    /\ l \in {"commit", "except"} =>
         /\ d.status = "running"
         /\ Len(d.history) = k
         /\ AllCompleted(d.history, k - 1)
    /\ l = "rollback" => d.status = "failed" /\ Len(d.history) = k

\* The record d on disk names every outstanding effect of the last run.
Names(d, done) ==
    /\ \A s \in done : s <= Len(d.history)
    /\ d.status = "running" => AllCompleted(d.history, Len(d.history) - 1)

\* What the record d says once nothing executes the instance.
AtRest(d, done, interrupted) ==
    /\ d.status \in {"pending", "running"} => interrupted
    /\ d.status = "completed" =>
         /\ done = Steps
         /\ Len(d.history) = N
         /\ AllCompleted(d.history, N)
    /\ d.status = "failed" /\ ~interrupted =>
         Accounted(d.history, 0, Len(d.history), done)

-----------------------------------------------------------------------------
\* A thread in the engine works on an existing instance.
Working ==
    \A t \in Threads :
        /\ pc[t] # "idle" => inst[t] \in Instances /\ disk[inst[t]] # NoRecord
        /\ Executing(t) =>
             /\ run[t] \in 1..runs[inst[t]]
             /\ Private(pc[t], mem[t], step[t], undo[t], Done(inst[t], run[t]))
             /\ inst[t] \notin raced =>
                  /\ run[t] = runs[inst[t]]
                  /\ Follows(pc[t], disk[inst[t]], mem[t], step[t])

\* No two threads execute the same run.
RunsDiffer ==
    \A t, u \in Threads :
        (Executing(t) /\ Executing(u) /\ inst[t] = inst[u] /\ run[t] = run[u]) => t = u

\* Effects come from runs that were begun, runs from instances that exist.
Begun ==
    /\ \A i \in Instances : disk[i] = NoRecord => runs[i] = 0
    /\ \A x \in effects : x[2] \in 1..runs[x[1]]

OnDisk ==
    \A i \in Instances \ raced :
        disk[i] # NoRecord =>
            /\ Names(disk[i], Done(i, runs[i]))
            /\ ~Busy(i) => AtRest(disk[i], Done(i, runs[i]), i \in cut)

IInv == TypeOK /\ Working /\ RunsDiffer /\ Begun /\ OnDisk

-----------------------------------------------------------------------------
LEMMA FreshType == Fresh \in Record
<1>1. <<>> \in Seq(StepStatuses)
  OBVIOUS
<1>2. 0 \in 0..N
  BY StepsAssumption
<1>3. QED
  BY <1>1, <1>2 DEF Fresh, Record, Statuses

LEMMA InitIInv == Init => IInv
<1> SUFFICES ASSUME Init PROVE IInv
  OBVIOUS
<1>1. 0 \in 0..N /\ 0 \in 0..N+1
  BY StepsAssumption
<1>2. TypeOK
  BY <1>1, FreshType, BoundsAssumption DEF Init, TypeOK, Labels
<1>3. QED
  BY <1>2 DEF Init, IInv, Working, RunsDiffer, Begun, OnDisk, Executing

\* Writing the status of a step into the history.
LEMMA HistoryUpdated ==
    ASSUME NEW h \in Seq(StepStatuses), NEW k \in 1..Len(h), NEW x \in StepStatuses
    PROVE  LET g == [h EXCEPT ![k] = x]
           IN  /\ g \in Seq(StepStatuses)
               /\ Len(g) = Len(h)
               /\ g[k] = x
               /\ \A s \in 1..Len(h) : s # k => g[s] = h[s]
OBVIOUS

\* Beginning a step.
LEMMA HistoryExtended ==
    ASSUME NEW h \in Seq(StepStatuses), NEW x \in StepStatuses
    PROVE  LET g == Append(h, x)
           IN  /\ g \in Seq(StepStatuses)
               /\ Len(g) = Len(h) + 1
               /\ g[Len(h) + 1] = x
               /\ \A s \in 1..Len(h) : g[s] = h[s]
OBVIOUS

-----------------------------------------------------------------------------
(***************************************************************************)
(* A step of a run that goes on: it writes its own object, the effects of  *)
(* its own run and the record of its instance.                             *)
(***************************************************************************)
RunStep(t, l, d, m, k, u, done) ==
    /\ l \in Labels \ {"idle", "checked"}
    /\ d \in Record
    /\ k \in 0..N+1
    /\ pc' = [pc EXCEPT ![t] = l]
    /\ disk' = [disk EXCEPT ![inst[t]] = d]
    /\ mem' = [mem EXCEPT ![t] = m]
    /\ step' = [step EXCEPT ![t] = k]
    /\ undo' = [undo EXCEPT ![t] = u]
    /\ \E s \in Steps :
         effects' \in {effects, effects \cup {Effect(t, s)}, effects \ {Effect(t, s)}}
    /\ faults' \in 0..MaxFaults
    /\ UNCHANGED <<inst, run, runs, raced, cut, crashes>>
    /\ done = Done(inst[t], run[t])'
    /\ Private(l, m, k, u, done)
    /\ inst[t] \notin raced => Follows(l, d, m, k) /\ Names(d, done)

LEMMA ExecutingType ==
    ASSUME IInv, NEW t \in Threads, Executing(t)
    PROVE  /\ inst[t] \in Instances
           /\ disk[inst[t]] \in Record
           /\ run[t] \in 1..runs[inst[t]] /\ runs[inst[t]] \in Nat
           /\ mem[t] \in Record
           /\ step[t] \in 0..N+1
           /\ undo[t] \in 0..N
           /\ Done(inst[t], run[t]) \subseteq Steps
           /\ Private(pc[t], mem[t], step[t], undo[t], Done(inst[t], run[t]))
           /\ inst[t] \notin raced =>
                /\ run[t] = runs[inst[t]]
                /\ Follows(pc[t], disk[inst[t]], mem[t], step[t])
                /\ Names(disk[inst[t]], Done(inst[t], run[t]))
<1>1. /\ inst[t] \in Instances /\ disk[inst[t]] # NoRecord
      /\ run[t] \in 1..runs[inst[t]]
      /\ Private(pc[t], mem[t], step[t], undo[t], Done(inst[t], run[t]))
      /\ inst[t] \notin raced =>
           /\ run[t] = runs[inst[t]]
           /\ Follows(pc[t], disk[inst[t]], mem[t], step[t])
  BY DEF IInv, Working, Executing
<1>2. inst[t] \notin raced => Names(disk[inst[t]], Done(inst[t], runs[inst[t]]))
  BY <1>1 DEF IInv, OnDisk
<1>3. Done(inst[t], run[t]) \subseteq Steps
  BY DEF Done
<1>4. QED
  BY <1>1, <1>2, <1>3 DEF IInv, TypeOK

LEMMA RunStepIInv ==
    ASSUME IInv, NEW t \in Threads, Executing(t),
           NEW l, NEW d, NEW m, NEW k, NEW u, NEW done,
           RunStep(t, l, d, m, k, u, done)
    PROVE  IInv'
<1> USE DEF RunStep
<1> DEFINE j == inst[t]
<1>1. /\ j \in Instances /\ disk[j] # NoRecord
      /\ run[t] \in 1..runs[j] /\ runs[j] \in Nat
      /\ m \in Record /\ u \in 0..N
  BY ExecutingType, RecordAssumption DEF Private
<1>2. \A i \in Instances, r \in Nat :
        (i # j \/ r # run[t]) => Done(i, r)' = Done(i, r)
  BY <1>1 DEF Done, Effect
<1>3. \A v \in Threads : Executing(v)' <=> Executing(v)
  BY DEF Executing, IInv, TypeOK
<1>4. TypeOK'
  <2>1. effects' \subseteq Instances \X Nat \X Steps
    BY <1>1 DEF Effect, IInv, TypeOK
  <2>2. QED
    BY <1>1, <2>1 DEF IInv, TypeOK
<1>5. Working'
  <2>1. ASSUME NEW v \in Threads, pc'[v] # "idle"
        PROVE  inst'[v] \in Instances /\ disk'[inst'[v]] # NoRecord
    BY <2>1, <1>1, RecordAssumption DEF IInv, TypeOK, Working, Executing
  <2>2. ASSUME NEW v \in Threads, Executing(v)'
        PROVE  /\ run'[v] \in 1..runs'[inst'[v]]
               /\ Private(pc'[v], mem'[v], step'[v], undo'[v], Done(inst[v], run[v])')
               /\ inst'[v] \notin raced' =>
                    /\ run'[v] = runs'[inst'[v]]
                    /\ Follows(pc'[v], disk'[inst'[v]], mem'[v], step'[v])
    <3>1. Executing(v)
      BY <2>2, <1>3
    <3>2. CASE v = t
      BY <3>2, <1>1, ExecutingType DEF IInv, TypeOK
    <3>3. CASE v # t
      <4>1. inst[v] # j \/ run[v] # run[t]
        BY <3>1, <3>3 DEF IInv, RunsDiffer
      <4>2. Done(inst[v], run[v])' = Done(inst[v], run[v])
        BY <4>1, <3>1, <1>2, ExecutingType
      <4>3. inst[v] \notin raced => disk'[inst[v]] = disk[inst[v]]
        BY <4>1, <3>1, <1>1, ExecutingType DEF IInv, TypeOK
      <4>4. /\ pc'[v] = pc[v] /\ mem'[v] = mem[v] /\ step'[v] = step[v]
            /\ undo'[v] = undo[v]
        BY <3>3 DEF IInv, TypeOK
      <4>5. QED
        BY <4>2, <4>3, <4>4, <3>1, ExecutingType
    <3>4. QED
      BY <3>2, <3>3
  <2>3. QED
    BY <2>1, <2>2 DEF Working
<1>6. RunsDiffer'
  BY <1>3 DEF IInv, RunsDiffer
<1>7. Begun'
  <2>1. \A i \in Instances : disk'[i] = NoRecord => disk[i] = NoRecord
    BY <1>1, RecordAssumption DEF IInv, TypeOK
  <2>2. \A x \in effects' : x[2] \in 1..runs[x[1]]
    BY <1>1 DEF IInv, Begun, Effect
  <2>3. QED
    BY <2>1, <2>2 DEF IInv, Begun
<1>8. OnDisk'
  <2> SUFFICES ASSUME NEW i \in Instances \ raced, disk'[i] # NoRecord
               PROVE  /\ Names(disk'[i], Done(i, runs[i])')
                      /\ ~Busy(i)' => AtRest(disk'[i], Done(i, runs[i])', i \in cut)
    BY DEF OnDisk
  <2>1. CASE i = j
    <3>1. Busy(i)'
      BY <2>1, <1>3 DEF Busy
    <3>2. disk'[i] = d /\ run[t] = runs[i]
      BY <2>1, <1>1, ExecutingType DEF IInv, TypeOK
    <3>3. QED
      BY <3>1, <3>2, <2>1
  <2>2. CASE i # j
    <3>1. disk'[i] = disk[i] /\ Done(i, runs[i])' = Done(i, runs[i])
      BY <2>2, <1>1, <1>2 DEF IInv, TypeOK
    <3>2. Busy(i)' <=> Busy(i)
      BY <1>3 DEF Busy
    <3>3. QED
      BY <3>1, <3>2 DEF IInv, OnDisk
  <2>3. QED
    BY <2>1, <2>2
<1>9. QED
  BY <1>4, <1>5, <1>6, <1>7, <1>8 DEF IInv

(***************************************************************************)
(* The last step of a run: the thread leaves the engine, and the record it *)
(* leaves behind accounts for what the run did.                            *)
(***************************************************************************)
LeaveStep(t, d) ==
    /\ Forget(t)
    /\ d \in Record
    /\ disk' = [disk EXCEPT ![inst[t]] = d]
    /\ faults' \in 0..MaxFaults
    /\ cut' \in {cut, cut \cup {inst[t]}}
    /\ UNCHANGED <<effects, runs, raced, crashes>>
    /\ inst[t] \notin raced =>
         /\ Names(d, Done(inst[t], run[t]))
         /\ AtRest(d, Done(inst[t], run[t]), inst[t] \in cut')

LEMMA LeaveStepIInv ==
    ASSUME IInv, NEW t \in Threads, Executing(t), NEW d, LeaveStep(t, d)
    PROVE  IInv'
<1> USE DEF LeaveStep, Forget, Goto, Now
<1> DEFINE j == inst[t]
<1>1. /\ j \in Instances /\ disk[j] # NoRecord /\ 0 \in 0..N+1 /\ 0 \in 0..N
  BY ExecutingType, RecordAssumption, StepsAssumption
<1>2. \A i, r : Done(i, r)' = Done(i, r)
  BY DEF Done
<1>3. \A v \in Threads : Executing(v)' <=> Executing(v) /\ v # t
  BY DEF Executing, IInv, TypeOK
<1>4. \A v \in Threads \ {t} :
        /\ pc'[v] = pc[v] /\ mem'[v] = mem[v] /\ step'[v] = step[v]
        /\ undo'[v] = undo[v] /\ inst'[v] = inst[v] /\ run'[v] = run[v]
  BY DEF IInv, TypeOK
<1>5. TypeOK'
  BY <1>1, FreshType DEF IInv, TypeOK, Labels
<1>6. Working'
  <2>1. ASSUME NEW v \in Threads, pc'[v] # "idle"
        PROVE  inst'[v] \in Instances /\ disk'[inst'[v]] # NoRecord
    BY <2>1, <1>1, RecordAssumption DEF IInv, TypeOK, Working, Executing
  <2>2. ASSUME NEW v \in Threads, Executing(v)'
        PROVE  /\ run'[v] \in 1..runs'[inst'[v]]
               /\ Private(pc'[v], mem'[v], step'[v], undo'[v], Done(inst[v], run[v])')
               /\ inst'[v] \notin raced' =>
                    /\ run'[v] = runs'[inst'[v]]
                    /\ Follows(pc'[v], disk'[inst'[v]], mem'[v], step'[v])
    <3>1. Executing(v) /\ v # t
      BY <2>2, <1>3
    <3>2. inst[v] # j \/ run[v] # run[t]
      BY <3>1 DEF IInv, RunsDiffer
    <3>3. inst[v] \notin raced => disk'[inst[v]] = disk[inst[v]]
      BY <3>1, <3>2, <1>1, ExecutingType DEF IInv, TypeOK
    <3>4. Done(inst[v], run[v])' = Done(inst[v], run[v])
      BY <3>1, <1>4 DEF Done
    <3>5. QED
      BY <3>1, <3>3, <3>4, <1>4, ExecutingType
  <2>3. QED
    BY <2>1, <2>2 DEF Working
<1>7. RunsDiffer'
  BY <1>3, <1>4 DEF IInv, RunsDiffer
<1>8. Begun'
  BY <1>1, RecordAssumption DEF IInv, TypeOK, Begun
<1>9. OnDisk'
  <2> SUFFICES ASSUME NEW i \in Instances \ raced, disk'[i] # NoRecord
               PROVE  /\ Names(disk'[i], Done(i, runs[i]))
                      /\ ~Busy(i)' => AtRest(disk'[i], Done(i, runs[i]), i \in cut')
    BY <1>2 DEF OnDisk
  <2>1. CASE i = j
    <3>1. disk'[i] = d /\ run[t] = runs[i]
      BY <2>1, <1>1, ExecutingType DEF IInv, TypeOK
    <3>2. QED
      BY <3>1, <2>1
  <2>2. CASE i # j
    <3>1. disk'[i] = disk[i] /\ (i \in cut' <=> i \in cut)
      BY <2>2, <1>1 DEF IInv, TypeOK
    <3>2. Busy(i)' <=> Busy(i)
      BY <2>2, <1>3, <1>4 DEF Busy
    <3>3. QED
      BY <3>1, <3>2 DEF IInv, OnDisk
  <2>3. QED
    BY <2>1, <2>2
<1>10. QED
  BY <1>5, <1>6, <1>7, <1>8, <1>9 DEF IInv

(***************************************************************************)
(* A run begins, by trigger or by retry.  Unless the instance is raced no  *)
(* other thread executes it.                                               *)
(***************************************************************************)
BeginRun(t, i) ==
    /\ pc[t] \in {"idle", "checked"}
    /\ disk' = [disk EXCEPT ![i] = Fresh]
    /\ Goto(t, "enter")
    /\ inst' = [inst EXCEPT ![t] = i]
    /\ Now(t, Fresh)
    /\ run'  = [run EXCEPT ![t] = runs[i] + 1]
    /\ runs' = [runs EXCEPT ![i] = runs[i] + 1]
    /\ raced' \in {raced, raced \cup {i}}
    /\ i \notin raced' => \A v \in Threads : Executing(v) => inst[v] # i
    /\ UNCHANGED <<step, undo, effects, cut, faults, crashes>>

LEMMA BeginRunIInv ==
    ASSUME IInv, NEW t \in Threads, NEW i \in Instances, BeginRun(t, i)
    PROVE  IInv'
<1> USE DEF BeginRun, Goto, Now
<1>1. /\ \A j, r : Done(j, r)' = Done(j, r)
      /\ Done(i, runs[i] + 1) = {}
      /\ runs[i] + 1 \in 1..runs'[i]
      /\ runs'[i] = runs[i] + 1
  BY DEF Done, IInv, TypeOK, Begun
<1>2. /\ Executing(t)'
      /\ \A v \in Threads \ {t} : Executing(v)' <=> Executing(v)
  BY DEF Executing, IInv, TypeOK
<1>3. \A v \in Threads \ {t} :
        /\ pc'[v] = pc[v] /\ mem'[v] = mem[v] /\ step'[v] = step[v]
        /\ undo'[v] = undo[v] /\ inst'[v] = inst[v] /\ run'[v] = run[v]
  BY DEF IInv, TypeOK
<1>4. /\ pc'[t] = "enter" /\ mem'[t] = Fresh /\ inst'[t] = i
      /\ run'[t] = runs[i] + 1 /\ undo'[t] \in 0..N /\ disk'[i] = Fresh
  BY DEF IInv, TypeOK
<1>5. TypeOK'
  BY FreshType DEF IInv, TypeOK, Labels
<1>6. Working'
  <2>1. ASSUME NEW v \in Threads, pc'[v] # "idle"
        PROVE  inst'[v] \in Instances /\ disk'[inst'[v]] # NoRecord
    <3>1. CASE v = t
      BY <3>1, <1>4, FreshType, RecordAssumption
    <3>2. CASE v # t
      BY <2>1, <3>2, <1>3, FreshType, RecordAssumption DEF IInv, TypeOK, Working
    <3>3. QED
      BY <3>1, <3>2
  <2>2. ASSUME NEW v \in Threads, Executing(v)'
        PROVE  /\ run'[v] \in 1..runs'[inst'[v]]
               /\ Private(pc'[v], mem'[v], step'[v], undo'[v], Done(inst'[v], run'[v]))
               /\ inst'[v] \notin raced' =>
                    /\ run'[v] = runs'[inst'[v]]
                    /\ Follows(pc'[v], disk'[inst'[v]], mem'[v], step'[v])
    <3>1. CASE v = t
      <4>1. Private("enter", Fresh, step'[t], undo'[t], {})
        BY <1>4, FreshType DEF Private
      <4>2. Follows("enter", Fresh, Fresh, step'[t])
        BY FreshType DEF Follows
      <4>3. QED
        BY <3>1, <4>1, <4>2, <1>1, <1>4
    <3>2. CASE v # t
      <4>1. /\ Executing(v)
            /\ run[v] \in 1..runs[inst[v]] /\ runs[inst[v]] \in Nat
            /\ inst[v] \in Instances
        BY <2>2, <3>2, <1>2, ExecutingType
      <4>2. run'[v] \in 1..runs'[inst'[v]]
        BY <4>1, <3>2, <1>1, <1>3 DEF IInv, TypeOK
      <4>3. inst[v] \notin raced' => inst[v] # i /\ inst[v] \notin raced
        BY <4>1
      <4>4. inst[v] # i => disk'[inst[v]] = disk[inst[v]] /\ runs'[inst[v]] = runs[inst[v]]
        BY <4>1 DEF IInv, TypeOK
      <4>5. QED
        BY <4>1, <4>2, <4>3, <4>4, <3>2, <1>3, ExecutingType
    <3>3. QED
      BY <3>1, <3>2
  <2>3. \A v \in Threads : Done(inst[v], run[v])' = Done(inst'[v], run'[v])
    BY DEF Done
  <2>4. QED
    BY <2>1, <2>2, <2>3 DEF Working
<1>7. RunsDiffer'
  <2>1. \A v \in Threads \ {t} : Executing(v)' => run'[v] # run'[t] \/ inst'[v] # i
    BY <1>2, <1>3, <1>4, ExecutingType
  <2>2. QED
    BY <2>1, <1>2, <1>3, <1>4 DEF IInv, RunsDiffer
<1>8. Begun'
  BY <1>1, FreshType, RecordAssumption DEF IInv, TypeOK, Begun
<1>9. OnDisk'
  <2> SUFFICES ASSUME NEW j \in Instances \ raced', disk'[j] # NoRecord
               PROVE  /\ Names(disk'[j], Done(j, runs'[j]))
                      /\ ~Busy(j)' => AtRest(disk'[j], Done(j, runs'[j]), j \in cut)
    BY <1>1 DEF OnDisk, Done
  <2>1. CASE j = i
    <3>1. Busy(j)'
      BY <2>1, <1>2, <1>4 DEF Busy
    <3>2. Names(Fresh, {})
      BY DEF Names, Fresh
    <3>3. QED
      BY <3>1, <3>2, <2>1, <1>1, <1>4
  <2>2. CASE j # i
    <3>1. disk'[j] = disk[j] /\ runs'[j] = runs[j]
      BY <2>2 DEF IInv, TypeOK
    <3>2. Busy(j) => Busy(j)'
      BY <1>2, <1>3 DEF Busy, Executing
    <3>3. QED
      BY <3>1, <3>2, <2>2 DEF IInv, OnDisk
  <2>3. QED
    BY <2>1, <2>2
<1>10. QED
  BY <1>5, <1>6, <1>7, <1>8, <1>9 DEF IInv

\* An exception that escapes: the record stays, the instance is marked cut.
LEMMA EscapesIInv ==
    ASSUME IInv, NEW t \in Threads, Executing(t), Escapes(t)
    PROVE  IInv'
<1> DEFINE d == disk[inst[t]]
<1>1. inst[t] \in Instances /\ d \in Record
  BY ExecutingType
<1>2. inst[t] \notin raced =>
        /\ Names(d, Done(inst[t], run[t]))
        /\ d.status # "completed"
  <2>1. pc[t] \in {"enter", "loop", "act", "commit", "except", "rollback"}
    BY DEF Executing, IInv, TypeOK, Labels
  <2>2. QED
    BY <2>1, ExecutingType DEF Private, Follows, Fresh
<1>3. LeaveStep(t, d)
  BY <1>1, <1>2, BoundsAssumption
     DEF Escapes, SaveRaises, LeaveStep, AtRest, ghosts, IInv, TypeOK
<1>4. QED
  BY <1>3, LeaveStepIInv

\* A step of a run that leaves the disk alone.
LEMMA DiskUntouched ==
    ASSUME IInv, NEW t \in Threads, Executing(t), disk' = disk
    PROVE  disk' = [disk EXCEPT ![inst[t]] = disk[inst[t]]]
BY DEF IInv, TypeOK

LEMMA EnterIInv ==
    ASSUME IInv, NEW t \in Threads, Enter(t)
    PROVE  IInv'
<1> DEFINE m == [mem[t] EXCEPT !.status = "running"]
<1>1. pc[t] = "enter" /\ Executing(t)
  BY DEF Enter, At, Executing
<1>2. /\ mem[t] = Fresh /\ inst[t] \in Instances
      /\ Done(inst[t], run[t]) = {}
  BY <1>1, ExecutingType DEF Private
<1>3. m = [status |-> "running", index |-> 0, history |-> <<>>] /\ m \in Record
  <2>1. m = [status |-> "running", index |-> 0, history |-> <<>>]
    BY <1>2 DEF Fresh
  <2>2. <<>> \in Seq(StepStatuses) /\ 0 \in 0..N
    BY StepsAssumption
  <2>3. QED
    BY <2>1, <2>2 DEF Record, Statuses
<1>4. CASE Saved(t, m) /\ ~Escapes(t)
  <2> HIDE DEF m
  <2>1. Done(inst[t], run[t])' = {}
    BY <1>1, <1>2, <1>4 DEF Enter, Done, m
  <2>2. Private("loop", m, 1, 0, {}) /\ Follows("loop", m, m, 1) /\ Names(m, {})
    BY <1>3, StepsAssumption DEF Private, Follows, Names, AllCompleted
  <2>3. /\ Saved(t, m) /\ Now(t, m) /\ Goto(t, "loop")
        /\ step' = [step EXCEPT ![t] = 1]
        /\ undo' = [undo EXCEPT ![t] = 0]
        /\ UNCHANGED <<inst, run, effects, ghosts, cut, crashes>>
    BY <1>4 DEF Enter, m
  <2>4. 1 \in Steps /\ 1 \in 0..N+1 /\ faults \in 0..MaxFaults
    BY StepsAssumption DEF Steps, IInv, TypeOK
  <2>5. RunStep(t, "loop", m, m, 1, 0, {})
    BY <1>3, <2>1, <2>2, <2>3, <2>4 DEF RunStep, Saved, Now, Goto, ghosts, Labels
  <2>6. QED
    BY <1>1, <2>5, RunStepIInv
<1>5. CASE Escapes(t)
  BY <1>1, <1>5, EscapesIInv
<1>6. QED
  BY <1>4, <1>5 DEF Enter

LEMMA BeginStepIInv ==
    ASSUME IInv, NEW t \in Threads, BeginStep(t)
    PROVE  IInv'
<1> DEFINE k == step[t]
           h == Append(mem[t].history, "running")
           m == [mem[t] EXCEPT !.index = k - 1, !.history = h]
           done == Done(inst[t], run[t])
<1>1. pc[t] = "loop" /\ k \in Steps /\ Executing(t)
  BY DEF BeginStep, At, Executing
<1>2. /\ mem[t] \in Record /\ inst[t] \in Instances
      /\ mem[t].status = "running"
      /\ undo[t] = k - 1 /\ undo[t] \in 0..N
      /\ Len(mem[t].history) = k - 1
      /\ AllCompleted(mem[t].history, k - 1)
      /\ done = 1..k-1
  BY <1>1, ExecutingType DEF Private
<1>3. /\ h \in Seq(StepStatuses) /\ Len(h) = k
      /\ \A s \in 1..k-1 : h[s] = mem[t].history[s]
  <2>1. mem[t].history \in Seq(StepStatuses) /\ "running" \in StepStatuses
    BY <1>2 DEF Record, StepStatuses
  <2>2. k \in Nat
    BY <1>1 DEF Steps
  <2>3. QED
    BY <1>2, <2>1, <2>2, HistoryExtended
<1>4. /\ m \in Record /\ m.status = "running" /\ m.history = h
  <2>1. k - 1 \in 0..N
    BY <1>1, StepsAssumption DEF Steps
  <2> HIDE DEF h
  <2>2. QED
    BY <1>2, <1>3, <2>1 DEF Record
<1>5. CASE Saved(t, m) /\ ~Escapes(t)
  <2>1. done' = done
    BY <1>5 DEF BeginStep, Done
  <2> HIDE DEF m, h, done
  <2>2. AllCompleted(h, k - 1)
    BY <1>2, <1>3 DEF AllCompleted
  <2>3. Private("act", m, k, undo[t], done) /\ Follows("act", m, m, k) /\ Names(m, done)
    BY <1>1, <1>2, <1>3, <1>4, <2>2 DEF Private, Follows, Names, Steps
  <2>4. RunStep(t, "act", m, m, k, undo[t], done)
    BY <1>1, <1>4, <1>5, <2>1, <2>3, StepsAssumption
       DEF BeginStep, RunStep, Saved, Now, Goto, ghosts, Labels, m, h, done, IInv, TypeOK, Steps
  <2>5. QED
    BY <1>1, <2>4, RunStepIInv
<1>6. CASE Escapes(t)
  BY <1>1, <1>6, EscapesIInv
<1>7. QED
  BY <1>5, <1>6 DEF BeginStep

\* The history with the status of one step rewritten, as part of the object.
LEMMA StatusWritten ==
    ASSUME NEW r \in Record, NEW k \in 1..Len(r.history), NEW x \in StepStatuses
    PROVE  LET w == [r EXCEPT !.history[k] = x]
           IN  /\ w \in Record
               /\ w.status = r.status
               /\ Len(w.history) = Len(r.history)
               /\ w.history[k] = x
               /\ \A s \in 1..Len(r.history) : s # k => w.history[s] = r.history[s]
<1> DEFINE h == [r.history EXCEPT ![k] = x]
<1>1. r.history \in Seq(StepStatuses)
  BY DEF Record
<1>2. /\ h \in Seq(StepStatuses)
      /\ Len(h) = Len(r.history)
      /\ h[k] = x
      /\ \A s \in 1..Len(r.history) : s # k => h[s] = r.history[s]
  BY <1>1, HistoryUpdated
<1> HIDE DEF h
<1>3. [r EXCEPT !.history = h] \in Record
  BY <1>2 DEF Record
<1>4. QED
  BY <1>2, <1>3 DEF Record, h

LEMMA ActSucceedsIInv ==
    ASSUME IInv, NEW t \in Threads, ActSucceeds(t)
    PROVE  IInv'
<1> DEFINE k == step[t]
           r == [mem[t] EXCEPT !.index = k]
           m == [r EXCEPT !.history[k] = "completed"]
           d == disk[inst[t]]
           done == Done(inst[t], run[t])
<1>1. pc[t] = "act" /\ Executing(t)
  BY DEF ActSucceeds, At, Executing
<1>2. /\ mem[t] \in Record /\ inst[t] \in Instances /\ d \in Record
      /\ mem[t].status = "running"
      /\ k \in Steps /\ Len(mem[t].history) = k
      /\ AllCompleted(mem[t].history, k - 1)
      /\ done = 1..k-1
      /\ inst[t] \notin raced => d = mem[t]
  BY <1>1, ExecutingType DEF Private, Follows
<1>3. r \in Record /\ r.history = mem[t].history /\ r.status = "running"
  BY <1>2, StepsAssumption DEF Record, Steps
<1>4. /\ m \in Record /\ m.status = "running" /\ Len(m.history) = k
      /\ m.history[k] = "completed"
      /\ \A s \in 1..k : s # k => m.history[s] = mem[t].history[s]
  <2> HIDE DEF r
  <2>1. k \in 1..Len(r.history) /\ "completed" \in StepStatuses
    BY <1>2, <1>3 DEF Steps, StepStatuses
  <2>2. QED
    BY <1>2, <1>3, <2>1, StatusWritten
<1>5. mem' = [mem EXCEPT ![t] = m]
  BY <1>3 DEF ActSucceeds, Now
<1>6. Done(inst[t], run[t])' = 1..k
  <2>1. Done(inst[t], run[t])' = done \cup {k}
    BY <1>2 DEF ActSucceeds, Done, Effect
  <2>2. QED
    BY <2>1, <1>2 DEF Steps
<1> HIDE DEF r, m
<1>7. AllCompleted(m.history, k)
  BY <1>2, <1>4 DEF AllCompleted, Steps
<1>8. Private("commit", m, k, k, 1..k)
  BY <1>2, <1>4, <1>7 DEF Private, Steps
<1>9. inst[t] \notin raced => Follows("commit", d, m, k) /\ Names(d, 1..k)
  BY <1>2 DEF Follows, Names, Steps
<1>10. RunStep(t, "commit", d, m, k, k, 1..k)
  BY <1>1, <1>2, <1>5, <1>6, <1>8, <1>9, DiskUntouched, StepsAssumption
     DEF ActSucceeds, RunStep, Goto, ghosts, Labels, IInv, TypeOK, Steps
<1>11. QED
  BY <1>1, <1>10, RunStepIInv

LEMMA ActFailsIInv ==
    ASSUME IInv, NEW t \in Threads, ActFails(t)
    PROVE  IInv'
<1> DEFINE k == step[t]
           m == mem[t]
           d == disk[inst[t]]
           done == Done(inst[t], run[t])'
<1>1. pc[t] = "act" /\ Executing(t)
  BY DEF ActFails, At, Executing
<1>2. /\ m \in Record /\ inst[t] \in Instances /\ d \in Record
      /\ m.status = "running"
      /\ k \in Steps /\ Len(m.history) = k
      /\ undo[t] = k - 1 /\ undo[t] \in 0..N
      /\ AllCompleted(m.history, k - 1)
      /\ Done(inst[t], run[t]) = 1..k-1
      /\ inst[t] \notin raced => d = m
  BY <1>1, ExecutingType DEF Private, Follows
<1>3. done \subseteq 1..k
  <2>1. done \subseteq Done(inst[t], run[t]) \cup {k}
    BY <1>2 DEF ActFails, Done, Effect
  <2>2. QED
    BY <2>1, <1>2 DEF Steps
<1>4. Private("except", m, k, undo[t], done)
  BY <1>2, <1>3 DEF Private
<1>5. inst[t] \notin raced => Follows("except", d, m, k) /\ Names(d, done)
  BY <1>2, <1>3 DEF Follows, Names, Steps
<1>6. RunStep(t, "except", d, m, k, undo[t], done)
  BY <1>1, <1>2, <1>4, <1>5, DiskUntouched, StepsAssumption
     DEF ActFails, RunStep, Goto, ghosts, Labels, IInv, TypeOK, Steps
<1>7. QED
  BY <1>1, <1>6, RunStepIInv

LEMMA CommitIInv ==
    ASSUME IInv, NEW t \in Threads, Commit(t)
    PROVE  IInv'
<1> DEFINE k == step[t]
           m == mem[t]
           d == disk[inst[t]]
           done == Done(inst[t], run[t])
<1>1. pc[t] = "commit" /\ Executing(t)
  BY DEF Commit, At, Executing
<1>2. /\ m \in Record /\ inst[t] \in Instances /\ d \in Record
      /\ m.status = "running"
      /\ k \in Steps /\ Len(m.history) = k
      /\ undo[t] = k /\ undo[t] \in 0..N
      /\ AllCompleted(m.history, k)
      /\ done = 1..k
      /\ inst[t] \notin raced => Follows("commit", d, m, k) /\ Names(d, 1..k)
  BY <1>1, ExecutingType DEF Private
<1>3. /\ done' = done
      /\ mem' = [mem EXCEPT ![t] = m] /\ undo' = [undo EXCEPT ![t] = undo[t]]
      /\ UNCHANGED <<inst, run, effects, ghosts, cut, crashes>>
      /\ faults \in 0..MaxFaults
  BY DEF Commit, Done, IInv, TypeOK
<1>4. CASE Saved(t, m) /\ Goto(t, "loop") /\ step' = [step EXCEPT ![t] = k + 1]
  <2>1. k + 1 \in 1..N+1 /\ k + 1 \in 0..N+1 /\ (k + 1) - 1 = k
    BY <1>2, StepsAssumption DEF Steps
  <2>2. Private("loop", m, k + 1, undo[t], done) /\ Follows("loop", m, m, k + 1) /\ Names(m, done)
    <3>1. k \in Nat /\ k > 0 /\ AllCompleted(m.history, Len(m.history) - 1)
      BY <1>2, StepsAssumption DEF AllCompleted, Steps
    <3>2. Private("loop", m, k + 1, undo[t], done)
      BY <1>2, <2>1 DEF Private
    <3>3. Follows("loop", m, m, k + 1)
      BY <1>2 DEF Follows
    <3>4. Names(m, done)
      BY <1>2, <3>1 DEF Names
    <3>5. QED
      BY <3>2, <3>3, <3>4
  <2>3. RunStep(t, "loop", m, m, k + 1, undo[t], done)
    BY <1>2, <1>3, <1>4, <2>1, <2>2 DEF RunStep, Saved, Goto, ghosts, Labels
  <2>4. QED
    BY <1>1, <2>3, RunStepIInv
<1>5. CASE SaveRaises /\ Goto(t, "except") /\ UNCHANGED step
  <2>1. Private("except", m, k, undo[t], done)
    BY <1>2 DEF Private, AllCompleted, Steps
  <2>2. inst[t] \notin raced => Follows("except", d, m, k) /\ Names(d, done)
    BY <1>2 DEF Follows
  <2>3. RunStep(t, "except", d, m, k, undo[t], done)
    <3>1. k \in 0..N+1 /\ step' = [step EXCEPT ![t] = k] /\ faults' \in 0..MaxFaults
      BY <1>2, <1>3, <1>5, StepsAssumption, BoundsAssumption
         DEF SaveRaises, Steps, IInv, TypeOK
    <3>2. disk' = [disk EXCEPT ![inst[t]] = d]
      BY <1>1, <1>5, DiskUntouched DEF SaveRaises
    <3>3. QED
      BY <1>2, <1>3, <1>5, <2>1, <2>2, <3>1, <3>2 DEF RunStep, Goto, ghosts, Labels
  <2>4. QED
    BY <1>1, <2>3, RunStepIInv
<1>6. QED
  BY <1>4, <1>5 DEF Commit

LEMMA RecordFailureIInv ==
    ASSUME IInv, NEW t \in Threads, RecordFailure(t)
    PROVE  IInv'
<1> DEFINE k == step[t]
           r == [mem[t] EXCEPT !.status = "failed"]
           m == [r EXCEPT !.history[k] = "failed"]
           done == Done(inst[t], run[t])
<1>1. pc[t] = "except" /\ Executing(t)
  BY DEF RecordFailure, At, Executing
<1>2. /\ mem[t] \in Record /\ inst[t] \in Instances
      /\ k \in Steps /\ Len(mem[t].history) = k
      /\ undo[t] \in {k - 1, k} /\ undo[t] \in 0..N
      /\ AllCompleted(mem[t].history, k - 1)
      /\ done \subseteq 1..k
  BY <1>1, ExecutingType DEF Private
<1>3. r \in Record /\ r.history = mem[t].history /\ r.status = "failed"
  BY <1>2 DEF Record, Statuses
<1>4. /\ m \in Record /\ m.status = "failed" /\ Len(m.history) = k
      /\ m.history[k] = "failed"
  <2> HIDE DEF r
  <2>1. k \in 1..Len(r.history) /\ "failed" \in StepStatuses
    BY <1>2, <1>3 DEF Steps, StepStatuses
  <2>2. QED
    BY <1>2, <1>3, <2>1, StatusWritten
<1>5. CASE Saved(t, m) /\ ~Escapes(t)
  <2>1. /\ Saved(t, m) /\ Now(t, m) /\ Goto(t, "rollback")
        /\ UNCHANGED <<inst, run, step, undo, effects, ghosts, cut, crashes>>
    BY <1>3, <1>5 DEF RecordFailure
  <2>2. done' = done
    BY <2>1 DEF Done
  <2>3. /\ step' = [step EXCEPT ![t] = k] /\ undo' = [undo EXCEPT ![t] = undo[t]]
        /\ k \in 0..N+1 /\ faults \in 0..MaxFaults
    BY <1>2, <2>1, StepsAssumption DEF IInv, TypeOK, Steps
  <2> HIDE DEF m, r
  <2>4. Accounted(m.history, undo[t], k, done)
    BY <1>2, <1>4 DEF Accounted, Steps
  <2>5. Private("rollback", m, k, undo[t], done)
    BY <1>2, <1>4, <2>4 DEF Private, Steps
  <2>6. Follows("rollback", m, m, k) /\ Names(m, done)
    BY <1>2, <1>4 DEF Follows, Names
  <2>7. RunStep(t, "rollback", m, m, k, undo[t], done)
    BY <1>2, <1>4, <2>1, <2>2, <2>3, <2>5, <2>6
       DEF RunStep, Saved, Now, Goto, ghosts, Labels
  <2>8. QED
    BY <1>1, <2>7, RunStepIInv
<1>6. CASE Escapes(t)
  BY <1>1, <1>6, EscapesIInv
<1>7. QED
  BY <1>3, <1>5, <1>6 DEF RecordFailure

\* What is known of a run that rolls back.
LEMMA RollbackType ==
    ASSUME IInv, NEW t \in Threads, pc[t] = "rollback"
    PROVE  /\ Executing(t)
           /\ mem[t] \in Record /\ disk[inst[t]] \in Record /\ inst[t] \in Instances
           /\ mem[t].status = "failed"
           /\ step[t] \in Steps /\ Len(mem[t].history) = step[t]
           /\ step[t] \in 0..N+1
           /\ undo[t] \in 0..N /\ undo[t] <= step[t]
           /\ Done(inst[t], run[t]) \subseteq 1..step[t]
           /\ Accounted(mem[t].history, undo[t], step[t], Done(inst[t], run[t]))
           /\ inst[t] \notin raced =>
                Follows("rollback", disk[inst[t]], mem[t], step[t])
<1>1. Executing(t)
  BY DEF Executing
<1>2. QED
  BY <1>1, ExecutingType DEF Private

\* One step of the rollback: the status of the step it is at is rewritten or
\* not, its effect goes or not, and what is left is accounted for.
LEMMA RollbackStepIInv ==
    ASSUME IInv, NEW t \in Threads, pc[t] = "rollback", undo[t] > 0,
           NEW m \in Record, m.status = "failed",
           Len(m.history) = Len(mem[t].history),
           \A s \in 1..Len(m.history) : s # undo[t] => m.history[s] = mem[t].history[s],
           undo[t] \in Reversible =>
              \/ m.history[undo[t]] = "rollback_failed"
              \/ effects' = effects \ {Effect(t, undo[t])},
           mem' = [mem EXCEPT ![t] = m],
           undo' = [undo EXCEPT ![t] = undo[t] - 1],
           effects' \in {effects, effects \ {Effect(t, undo[t])}},
           UNCHANGED <<disk, pc, inst, run, step, ghosts, cut, faults, crashes>>
    PROVE  IInv'
<1> DEFINE k == step[t]
           d == disk[inst[t]]
           u == undo[t]
           done == Done(inst[t], run[t])'
<1> USE RollbackType
<1>1. /\ u \in Steps /\ u - 1 \in 0..N /\ k \in Steps /\ u <= k
      /\ Len(m.history) = k
  BY StepsAssumption DEF Steps
<1>2. /\ done \subseteq Done(inst[t], run[t])
      /\ effects' = effects \ {Effect(t, u)} => u \notin done
  BY DEF Done, Effect
<1>3. Accounted(m.history, u - 1, k, done)
  <2> SUFFICES ASSUME NEW s \in Reversible, s \in done, s > u - 1
               PROVE  m.history[s] = "rollback_failed" \/ (m.history[s] = "failed" /\ s = k)
    BY DEF Accounted
  <2>1. s \in 1..k /\ s \in Done(inst[t], run[t])
    BY <1>2
  <2>2. CASE s = u
    BY <2>2, <1>2
  <2>3. CASE s > u
    BY <2>1, <2>3, <1>1 DEF Accounted, Steps
  <2>4. QED
    BY <2>1, <2>2, <2>3, <1>1 DEF Steps
<1>4. Private("rollback", m, k, u - 1, done)
  <2>1. done \subseteq 1..k /\ u - 1 <= k
    BY <1>1, <1>2 DEF Steps
  <2>2. QED
    BY <1>1, <1>3, <2>1 DEF Private
<1>5. inst[t] \notin raced => Follows("rollback", d, m, k) /\ Names(d, done)
  <2>1. inst[t] \notin raced => Follows("rollback", d, mem[t], k)
    OBVIOUS
  <2>2. done \subseteq 1..k
    BY <1>2
  <2>3. QED
    BY <2>1, <2>2, <1>1 DEF Follows, Names, Steps
<1>6. /\ pc' = [pc EXCEPT ![t] = "rollback"] /\ step' = [step EXCEPT ![t] = k]
      /\ disk' = [disk EXCEPT ![inst[t]] = d] /\ faults' \in 0..MaxFaults
  BY DEF IInv, TypeOK
<1>7. RunStep(t, "rollback", d, m, k, u - 1, done)
  BY <1>1, <1>4, <1>5, <1>6 DEF RunStep, ghosts, Labels
<1>8. QED
  BY <1>7, RunStepIInv

LEMMA RollbackIInv ==
    ASSUME IInv, NEW t \in Threads,
           RollbackSkips(t) \/ RollbackUndoes(t) \/ RollbackRaises(t)
    PROVE  IInv'
<1>1. pc[t] = "rollback" /\ undo[t] \in 0..N /\ undo[t] > 0 /\ mem[t] \in Record
  BY StepsAssumption DEF RollbackSkips, RollbackUndoes, RollbackRaises, At, Steps, IInv, TypeOK
<1>2. CASE RollbackSkips(t)
  <2>1. mem' = [mem EXCEPT ![t] = mem[t]]
    BY <1>2 DEF RollbackSkips, IInv, TypeOK
  <2>2. QED
    BY <1>1, <1>2, <2>1, RollbackStepIInv, RollbackType DEF RollbackSkips
<1>3. ASSUME NEW x \in {"rolled_back", "rollback_failed"},
             UndoneAs(t, x),
             x = "rolled_back" => effects' = effects \ {Effect(t, undo[t])},
             effects' \in {effects, effects \ {Effect(t, undo[t])}}
      PROVE  IInv'
  <2> DEFINE m == [mem[t] EXCEPT !.history[undo[t]] = x]
  <2>1. undo[t] \in 1..Len(mem[t].history) /\ x \in StepStatuses
    BY <1>1, RollbackType DEF StepStatuses, Steps
  <2>2. /\ m \in Record /\ m.status = "failed"
        /\ Len(m.history) = Len(mem[t].history)
        /\ m.history[undo[t]] = x
        /\ \A s \in 1..Len(m.history) : s # undo[t] => m.history[s] = mem[t].history[s]
    BY <1>1, <2>1, StatusWritten, RollbackType
  <2>3. /\ mem' = [mem EXCEPT ![t] = m]
        /\ undo' = [undo EXCEPT ![t] = undo[t] - 1]
        /\ UNCHANGED <<disk, pc, inst, run, step, ghosts, cut, faults, crashes>>
    BY <1>3 DEF UndoneAs, Now
  <2> HIDE DEF m
  <2>4. QED
    BY <1>1, <1>3, <2>2, <2>3, RollbackStepIInv
<1>4. CASE RollbackUndoes(t)
  BY <1>3, <1>4 DEF RollbackUndoes
<1>5. CASE RollbackRaises(t)
  BY <1>3, <1>5 DEF RollbackRaises
<1>6. QED
  BY <1>2, <1>4, <1>5

LEMMA EndRollbackIInv ==
    ASSUME IInv, NEW t \in Threads, EndRollback(t)
    PROVE  IInv'
<1> DEFINE m == mem[t]
           done == Done(inst[t], run[t])
<1>1. pc[t] = "rollback" /\ undo[t] = 0 /\ Executing(t)
  BY DEF EndRollback, At, Executing
<1>2. CASE Saved(t, m) /\ Forget(t) /\ UNCHANGED <<effects, ghosts, cut, crashes>>
  <2>1. /\ m \in Record /\ m.status = "failed"
        /\ Len(m.history) = step[t]
        /\ done \subseteq 1..step[t] /\ step[t] \in Steps
        /\ Accounted(m.history, 0, step[t], done)
    BY <1>1, RollbackType
  <2>2. Names(m, done) /\ AtRest(m, done, inst[t] \in cut')
    BY <2>1 DEF Names, AtRest, Steps
  <2>3. LeaveStep(t, m)
    BY <1>2, <2>1, <2>2 DEF LeaveStep, Saved, ghosts, IInv, TypeOK
  <2>4. QED
    BY <1>1, <2>3, LeaveStepIInv
<1>3. CASE Escapes(t)
  BY <1>1, <1>3, EscapesIInv
<1>4. QED
  BY <1>2, <1>3 DEF EndRollback

LEMMA CompleteIInv ==
    ASSUME IInv, NEW t \in Threads, Complete(t)
    PROVE  IInv'
<1> DEFINE m == [mem[t] EXCEPT !.status = "completed"]
           done == Done(inst[t], run[t])
<1>1. pc[t] = "loop" /\ step[t] = N + 1 /\ Executing(t)
  BY DEF Complete, At, Executing
<1>2. CASE Saved(t, m) /\ Forget(t) /\ UNCHANGED <<effects, ghosts, cut, crashes>>
  <2>1. /\ mem[t] \in Record
        /\ Len(mem[t].history) = N
        /\ AllCompleted(mem[t].history, N)
        /\ done = Steps
    BY <1>1, ExecutingType, StepsAssumption DEF Private, Steps
  <2>2. /\ m \in Record /\ m.status = "completed" /\ m.history = mem[t].history
    BY <2>1 DEF Record, Statuses
  <2> HIDE DEF m
  <2>3. Names(m, done) /\ AtRest(m, done, inst[t] \in cut')
    BY <2>1, <2>2 DEF Names, AtRest, Steps
  <2>4. LeaveStep(t, m)
    BY <1>2, <2>2, <2>3 DEF LeaveStep, Saved, ghosts, IInv, TypeOK
  <2>5. QED
    BY <1>1, <2>4, LeaveStepIInv
<1>3. CASE Escapes(t)
  BY <1>1, <1>3, EscapesIInv
<1>4. QED
  BY <1>2, <1>3 DEF Complete

-----------------------------------------------------------------------------
LEMMA TriggerIInv ==
    ASSUME IInv, NEW t \in Threads, NEW i \in Instances, Trigger(t, i)
    PROVE  IInv'
<1>1. runs[i] = 0 /\ \A v \in Threads : Executing(v) => inst[v] # i
  BY ExecutingType, RecordAssumption DEF Trigger, IInv, Begun
<1>2. BeginRun(t, i)
  BY <1>1 DEF Trigger, BeginRun, At
<1>3. QED
  BY <1>2, BeginRunIInv

LEMMA RetryResetsIInv ==
    ASSUME IInv, NEW t \in Threads, RetryResets(t)
    PROVE  IInv'
<1>1. /\ pc[t] = "checked" /\ inst[t] \in Instances /\ ~Executing(t)
      /\ inst' = [inst EXCEPT ![t] = inst[t]]
  BY DEF RetryResets, At, Executing, IInv, TypeOK, Working
<1>2. PICK i \in Instances : i = inst[t]
  BY <1>1
<1>3. /\ raced' \in {raced, raced \cup {i}}
      /\ i \notin raced' => \A v \in Threads : Executing(v) => inst[v] # i
  BY <1>1, <1>2 DEF RetryResets
<1>4. BeginRun(t, i)
  BY <1>1, <1>2, <1>3 DEF RetryResets, BeginRun, Saved
<1>5. QED
  BY <1>4, BeginRunIInv

\* A step of a thread that executes nothing before or after it.
LEMMA IdleStepIInv ==
    ASSUME IInv, NEW t \in Threads, RetryGivesUp(t) \/ \E i \in Instances : RetryReads(t, i)
    PROVE  IInv'
<1>1. /\ ~Executing(t) /\ ~Executing(t)'
      /\ \A v \in Threads \ {t} :
           /\ pc'[v] = pc[v] /\ mem'[v] = mem[v] /\ step'[v] = step[v]
           /\ undo'[v] = undo[v] /\ inst'[v] = inst[v] /\ run'[v] = run[v]
      /\ UNCHANGED <<disk, effects, runs, raced, cut>>
  BY DEF RetryGivesUp, RetryReads, SaveRaises, Forget, Goto, Now, At, Executing,
     ghosts, IInv, TypeOK
<1>2. \A v \in Threads : Executing(v)' <=> Executing(v)
  BY <1>1 DEF Executing
<1>3. TypeOK'
  <2>1. 0 \in 0..N /\ 0 \in 0..N+1
    BY StepsAssumption
  <2>2. QED
    BY <2>1, FreshType, BoundsAssumption
       DEF RetryGivesUp, RetryReads, SaveRaises, Forget, Goto, Now, ghosts,
           IInv, TypeOK, Labels
<1>4. Working'
  <2>1. \A v \in Threads : pc'[v] # "idle" => inst'[v] \in Instances /\ disk'[inst'[v]] # NoRecord
    BY <1>1 DEF RetryGivesUp, RetryReads, Forget, Goto, IInv, TypeOK, Working
  <2>2. \A i, r : Done(i, r)' = Done(i, r)
    BY <1>1 DEF Done
  <2>3. \A v \in Threads : Executing(v)' => Done(inst[v], run[v])' = Done(inst[v], run[v])
    BY <1>1, <1>2, <2>2 DEF Done
  <2>4. QED
    BY <1>1, <1>2, <2>1, <2>3 DEF IInv, Working
<1>5. RunsDiffer' /\ Begun'
  BY <1>1, <1>2 DEF IInv, RunsDiffer, Begun
<1>6. OnDisk'
  <2>1. \A i : Busy(i)' <=> Busy(i)
    BY <1>1, <1>2 DEF Busy
  <2>2. \A i \in Instances : Done(i, runs[i])' = Done(i, runs[i])
    BY <1>1 DEF Done
  <2>3. QED
    BY <1>1, <2>1, <2>2 DEF IInv, OnDisk
<1>7. QED
  BY <1>3, <1>4, <1>5, <1>6 DEF IInv

LEMMA CrashIInv ==
    ASSUME IInv, Crash
    PROVE  IInv'
<1> USE DEF Crash, ghosts
<1>1. \A v \in Threads : ~Executing(v)' /\ pc'[v] = "idle"
  BY DEF Executing
<1>2. TypeOK'
  <2>1. 0 \in 0..N /\ 0 \in 0..N+1
    BY StepsAssumption
  <2>2. cut' \subseteq Instances /\ crashes' \in 0..MaxCrashes
    BY ExecutingType, BoundsAssumption DEF IInv, TypeOK
  <2>3. QED
    BY <2>1, <2>2, FreshType DEF IInv, TypeOK, Labels
<1>3. Working' /\ RunsDiffer' /\ Begun'
  BY <1>1 DEF IInv, Working, RunsDiffer, Begun
<1>4. OnDisk'
  <2>1. \A i \in Instances : Done(i, runs[i])' = Done(i, runs[i])
    BY DEF Done
  <2>2. ASSUME NEW i \in Instances \ raced, disk[i] # NoRecord
        PROVE  AtRest(disk[i], Done(i, runs[i]), i \in cut')
    <3>1. CASE ~Busy(i)
      <4>1. AtRest(disk[i], Done(i, runs[i]), i \in cut)
        BY <2>2, <3>1 DEF IInv, OnDisk
      <4>2. i \in cut => i \in cut'
        OBVIOUS
      <4>3. QED
        BY <4>1, <4>2 DEF AtRest
    <3>2. CASE Busy(i)
      <4>1. PICK t \in Threads : Executing(t) /\ inst[t] = i
        BY <3>2 DEF Busy
      <4>2. i \in cut'
        BY <4>1
      <4>3. pc[t] \in {"enter", "loop", "act", "commit", "except", "rollback"}
        BY <4>1 DEF Executing, IInv, TypeOK, Labels
      <4>4. disk[i].status # "completed"
        BY <4>1, <4>3, <2>2, ExecutingType DEF Private, Follows, Fresh
      <4>5. QED
        BY <4>2, <4>4 DEF AtRest
    <3>3. QED
      BY <3>1, <3>2
  <2>3. QED
    BY <2>1, <2>2 DEF IInv, OnDisk
<1>5. QED
  BY <1>2, <1>3, <1>4 DEF IInv

LEMMA NextIInv == IInv /\ [Next]_vars => IInv'
<1> SUFFICES ASSUME IInv, [Next]_vars PROVE IInv'
  OBVIOUS
<1>1. CASE \E t \in Threads, i \in Instances : Trigger(t, i) \/ RetryReads(t, i)
  BY <1>1, TriggerIInv, IdleStepIInv
<1>2. CASE \E t \in Threads : RetryResets(t) \/ RetryGivesUp(t)
  BY <1>2, RetryResetsIInv, IdleStepIInv
<1>3. CASE \E t \in Threads : Work(t)
  BY <1>3, EnterIInv, BeginStepIInv, ActSucceedsIInv, ActFailsIInv, CommitIInv,
     RecordFailureIInv, RollbackIInv, EndRollbackIInv, CompleteIInv DEF Work
<1>4. CASE Crash
  BY <1>4, CrashIInv
<1>5. CASE UNCHANGED vars
  BY <1>5 DEF vars, IInv, TypeOK, Working, RunsDiffer, Begun, OnDisk, Executing, Busy, Done
<1>6. QED
  BY <1>1, <1>2, <1>3, <1>4, <1>5 DEF Next

-----------------------------------------------------------------------------
\* In every state of every behaviour the invariant holds.
THEOREM Invariance == Spec => []IInv
BY InitIInv, NextIInv, PTL DEF Spec

\* Type correctness: among others, the loop never indexes past the definition.
THEOREM TypeCorrect == Spec => []TypeOK
BY Invariance, PTL DEF IInv

\* The persisted history names every outstanding effect of the current run.
THEOREM EffectsAreAnnounced == Spec => []WriteAhead
<1>1. IInv => WriteAhead
  <2> SUFFICES ASSUME IInv, NEW i \in Instances \ raced, disk[i] # NoRecord
               PROVE  /\ \A s \in Steps : Outstanding(i, s) => s <= Len(disk[i].history)
                      /\ disk[i].status = "running" =>
                           \A s \in 1..(Len(disk[i].history) - 1) :
                              disk[i].history[s] = "completed"
    BY DEF WriteAhead
  <2>1. Names(disk[i], Done(i, runs[i]))
    BY DEF IInv, OnDisk
  <2>2. QED
    BY <2>1 DEF Names, AllCompleted, Outstanding, Done
<1>2. QED
  BY <1>1, Invariance, PTL

\* A run that was neither cut nor raced leaves no reversible effect behind that
\* its persisted history does not own up to.
THEOREM NoLeakIsSilent == Spec => []NoSilentLeak
<1>1. IInv => NoSilentLeak
  <2> SUFFICES ASSUME IInv, NEW i \in Instances \ (raced \cup cut), Settled(i, "failed"),
                      NEW s \in Reversible, Outstanding(i, s)
               PROVE  \/ disk[i].history[s] = "rollback_failed"
                      \/ disk[i].history[s] = "failed" /\ s = Len(disk[i].history)
    BY DEF NoSilentLeak
  <2>1. Accounted(disk[i].history, 0, Len(disk[i].history), Done(i, runs[i]))
    BY DEF IInv, OnDisk, Settled, AtRest
  <2>2. s \in Done(i, runs[i]) /\ s > 0
    BY StepsAssumption DEF Outstanding, Done, Steps
  <2>3. QED
    BY <2>1, <2>2 DEF Accounted
<1>2. QED
  BY <1>1, Invariance, PTL

\* A completed instance has all its effects.
THEOREM CompletedIsComplete == Spec => []CompletedHasAllEffects
<1>1. IInv => CompletedHasAllEffects
  <2> SUFFICES ASSUME IInv, NEW i \in Instances \ raced, Settled(i, "completed")
               PROVE  /\ \A s \in Steps : Outstanding(i, s)
                      /\ disk[i].history = [s \in Steps |-> "completed"]
    BY DEF CompletedHasAllEffects
  <2>1. AtRest(disk[i], Done(i, runs[i]), i \in cut) /\ disk[i] \in Record
    BY DEF IInv, TypeOK, OnDisk, Settled
  <2>2. /\ Done(i, runs[i]) = Steps
        /\ Len(disk[i].history) = N
        /\ AllCompleted(disk[i].history, N)
    BY <2>1 DEF AtRest, Settled
  <2>3. \A s \in Steps : Outstanding(i, s)
    BY <2>2 DEF Outstanding, Done
  <2>4. disk[i].history = [s \in Steps |-> "completed"]
    BY <2>1, <2>2 DEF Record, AllCompleted, Steps
  <2>5. QED
    BY <2>3, <2>4
<1>2. QED
  BY <1>1, Invariance, PTL

\* Only a crash or an escaped exception leaves an instance pending or running.
THEOREM StuckIsCut == Spec => []StuckOnlyIfCut
<1>1. IInv => StuckOnlyIfCut
  BY DEF IInv, OnDisk, StuckOnlyIfCut, Settled, AtRest
<1>2. QED
  BY <1>1, Invariance, PTL

\* So what is persisted of a run tells what it did (engine.py:110-155).
THEOREM HistoryTellsTheRun == Spec => []HistoryIsHonest
BY EffectsAreAnnounced, NoLeakIsSilent, CompletedIsComplete, StuckIsCut, PTL
   DEF HistoryIsHonest

(***************************************************************************)
(* Effects are undone in reverse order.  Only the rollback of the run that *)
(* made an effect removes it, and it has passed every later step.          *)
(***************************************************************************)
THEOREM RollbackIsReverse == Spec => UndoInReverse
<1>1. IInv /\ [Next]_vars =>
        [\A t \in Threads : \A s \in Reversible :
           (Executing(t) /\ Effect(t, s) \in effects \ effects') =>
               \A l \in Reversible :
                   (l > s /\ Effect(t, l) \in effects) =>
                       mem[t].history[l] \in {"rollback_failed", "failed"}]_vars
  <2> SUFFICES ASSUME IInv, Next,
                      NEW t \in Threads, NEW s \in Reversible, Executing(t),
                      Effect(t, s) \in effects \ effects',
                      NEW l \in Reversible, l > s, Effect(t, l) \in effects
               PROVE  mem[t].history[l] \in {"rollback_failed", "failed"}
    OBVIOUS
  <2>1. PICK v \in Threads : /\ pc[v] = "rollback"
                             /\ Effect(t, s) = Effect(v, undo[v])
    BY DEF Next, Work, Trigger, RetryReads, RetryResets, RetryGivesUp, Enter, BeginStep,
       ActSucceeds, ActFails, Commit, RecordFailure, RollbackSkips, RollbackUndoes,
       RollbackRaises, EndRollback, Complete, Crash, Escapes, At
  <2>2. v = t /\ undo[t] = s
    BY <2>1, RollbackType DEF Effect, IInv, RunsDiffer
  <2>3. Accounted(mem[t].history, s, step[t], Done(inst[t], run[t]))
    BY <2>1, <2>2, RollbackType
  <2>4. l \in Done(inst[t], run[t])
    BY StepsAssumption DEF Effect, Done
  <2>5. QED
    BY <2>3, <2>4 DEF Accounted
<1>2. QED
  BY <1>1, Invariance, PTL DEF Spec, UndoInReverse

(***************************************************************************)
(* A run runs down: the steps it has left are counted from where it stands *)
(* in the loop, with the rollback of all that it completed at the end.     *)
(***************************************************************************)
LeftAt(label, k, u) ==
    CASE label = "rollback" -> u + 1
      [] label = "except"   -> N + 2
      [] label = "commit"   -> N + 3 + 3 * (N + 1 - k)
      [] label = "act"      -> N + 4 + 3 * (N + 1 - k)
      [] label = "loop"     -> N + 5 + 3 * (N + 1 - k)
      [] label = "enter"    -> 4 * N + 6
      [] OTHER              -> 0

Left(t) == LeftAt(pc[t], step[t], undo[t])

RunsDown ==
    \A t \in Threads :
        /\ Left(t) \in 0..4 * N + 6
        /\ Executing(t) => Left(t)' <= Left(t)
        /\ Work(t) => Left(t)' < Left(t)

\* A step of one thread leaves the run of another alone.
LEMMA OthersRun ==
    ASSUME TypeOK, NEW t \in Threads, NEW v \in Threads, v # t,
           \/ \E i \in Instances : Trigger(v, i) \/ RetryReads(v, i)
           \/ RetryResets(v) \/ RetryGivesUp(v) \/ Work(v)
    PROVE  pc'[t] = pc[t] /\ step'[t] = step[t] /\ undo'[t] = undo[t]
<1> USE DEF Goto, Forget, Escapes, TypeOK
<1>1. ASSUME \E i \in Instances : Trigger(v, i) \/ RetryReads(v, i)
      PROVE  pc'[t] = pc[t] /\ step'[t] = step[t] /\ undo'[t] = undo[t]
  BY <1>1 DEF Trigger, RetryReads
<1>2. CASE RetryResets(v) \/ RetryGivesUp(v)
  BY <1>2 DEF RetryResets, RetryGivesUp
<1>3. CASE Work(v)
  BY <1>3 DEF Work, Enter, BeginStep, ActSucceeds, ActFails, Commit, RecordFailure,
     RollbackSkips, RollbackUndoes, RollbackRaises, UndoneAs, EndRollback, Complete
<1>4. QED
  BY <1>1, <1>2, <1>3

LeftIsNat == \A t \in Threads : Left(t) \in 0..4 * N + 6

LEMMA LeftIsBounded == IInv => LeftIsNat
<1> SUFFICES ASSUME IInv, NEW t \in Threads PROVE Left(t) \in 0..4 * N + 6
  BY DEF LeftIsNat
<1>1. /\ N \in Nat \ {0} /\ undo[t] \in 0..N
      /\ pc[t] = "loop" => step[t] \in 1..N+1
      /\ pc[t] \in {"act", "commit"} => step[t] \in Steps
  BY StepsAssumption DEF IInv, TypeOK, Working, Private, Executing
<1>2. QED
  BY <1>1 DEF Left, LeftAt, Steps

\* Every step of a run brings its end nearer, and neither other runs nor retries
\* of the same instance nor a crash put it off: whatever fails on the way, a run
\* takes at most 4 * N + 6 steps, its rollback included (engine.py:96-187).
THEOREM RunsRunDown == Spec => [][RunsDown]_vars
<1>1. ASSUME IInv, IInv', Next, NEW t \in Threads
      PROVE  /\ Left(t) \in 0..4 * N + 6
             /\ Executing(t) => Left(t)' <= Left(t)
             /\ Work(t) => Left(t)' < Left(t)
  <2>1. /\ N \in Nat \ {0}
        /\ pc \in [Threads -> Labels]
        /\ step \in [Threads -> 0..N+1] /\ undo \in [Threads -> 0..N]
        /\ step[t] \in 0..N+1 /\ undo[t] \in 0..N
        /\ step'[t] \in 0..N+1 /\ undo'[t] \in 0..N
        /\ pc[t] = "loop" => step[t] \in 1..N+1
        /\ pc[t] \in {"act", "commit"} => step[t] \in Steps
    BY <1>1, StepsAssumption DEF IInv, TypeOK, Working, Private, Executing, Labels
  <2>2. (IInv => LeftIsNat)'
    BY LeftIsBounded, PTL
  <2>3. ASSUME Enter(t) \/ BeginStep(t) PROVE Left(t)' < Left(t)
    BY <2>1, <2>3 DEF Enter, BeginStep, Escapes, Forget, At, Goto, Left, LeftAt, Steps
  <2>4. ASSUME ActSucceeds(t) \/ ActFails(t) PROVE Left(t)' < Left(t)
    BY <2>1, <2>4 DEF ActSucceeds, ActFails, At, Goto, Left, LeftAt, Steps
  <2>5. ASSUME Commit(t) PROVE Left(t)' < Left(t)
    BY <2>1, <2>5 DEF Commit, At, Goto, Left, LeftAt, Steps
  <2>6. ASSUME RecordFailure(t) PROVE Left(t)' < Left(t)
    BY <2>1, <2>6 DEF RecordFailure, Escapes, Forget, At, Goto, Left, LeftAt
  <2>7. ASSUME RollbackSkips(t) \/ RollbackUndoes(t) \/ RollbackRaises(t)
        PROVE  Left(t)' < Left(t)
    BY <2>1, <2>7 DEF RollbackSkips, RollbackUndoes, RollbackRaises, UndoneAs, At, Left, LeftAt
  <2>8. ASSUME EndRollback(t) \/ Complete(t) PROVE Left(t)' < Left(t)
    BY <2>1, <2>8 DEF EndRollback, Complete, Escapes, Forget, At, Goto, Left, LeftAt
  <2>9. ASSUME Crash PROVE Left(t)' = 0
    BY <2>9 DEF Crash, Left, LeftAt
  <2>10. ASSUME Executing(t),
                \/ \E i \in Instances : Trigger(t, i) \/ RetryReads(t, i)
                \/ RetryResets(t) \/ RetryGivesUp(t)
         PROVE  FALSE
    BY <2>10 DEF Executing, Trigger, RetryReads, RetryResets, RetryGivesUp, At
  <2>11. ASSUME NEW v \in Threads, v # t,
                \/ \E i \in Instances : Trigger(v, i) \/ RetryReads(v, i)
                \/ RetryResets(v) \/ RetryGivesUp(v) \/ Work(v)
         PROVE  Left(t)' = Left(t)
    BY <1>1, <2>11, OthersRun DEF Left, IInv
  <2>12. ASSUME Work(t) PROVE Left(t)' < Left(t)
    BY <2>3, <2>4, <2>5, <2>6, <2>7, <2>8, <2>12 DEF Work
  <2>13. Executing(t) => Left(t)' < Left(t) \/ Left(t)' = Left(t) \/ Left(t)' = 0
    BY <1>1, <2>9, <2>10, <2>11, <2>12 DEF Next
  <2>14. Left(t) \in 0..4 * N + 6 /\ Left(t)' \in 0..4 * N + 6
    BY <1>1, <2>2, LeftIsBounded DEF LeftIsNat
  <2>15. QED
    BY <2>1, <2>12, <2>13, <2>14
<1>2. IInv /\ IInv' /\ [Next]_vars => [RunsDown]_vars
  BY <1>1 DEF RunsDown
<1>3. QED
  BY <1>2, Invariance, PTL DEF Spec

CompletedStays ==
    \A i \in Instances \ raced' :
        disk[i] # NoRecord /\ disk[i].status = "completed" => disk'[i] = disk[i]

\* What is recorded as completed is never written again: no other run, no retry
\* that came too late and no rollback touches it.  An instance is raced if a retry
\* had read it as failed and resets it now that it is not (engine.py:69-79, 151-153).
THEOREM CompletedIsFinal == Spec => [][CompletedStays]_vars
<1>1. ASSUME IInv, Next, NEW i \in Instances \ raced',
             disk[i] # NoRecord, disk[i].status = "completed"
      PROVE  disk'[i] = disk[i]
  <2>1. disk \in [Instances -> Record \cup {NoRecord}]
    BY <1>1 DEF IInv, TypeOK
  <2>2. i \notin raced
    BY <1>1 DEF Next, Work, Trigger, RetryReads, RetryResets, RetryGivesUp, Enter, BeginStep,
       ActSucceeds, ActFails, Commit, RecordFailure, RollbackSkips, RollbackUndoes,
       RollbackRaises, UndoneAs, EndRollback, Complete, Crash, Escapes, ghosts
  <2>3. ASSUME NEW t \in Threads, Executing(t) PROVE inst[t] # i
    <3>1. SUFFICES ASSUME inst[t] = i PROVE FALSE
      OBVIOUS
    <3>2. /\ Private(pc[t], mem[t], step[t], undo[t], Done(inst[t], run[t]))
          /\ Follows(pc[t], disk[i], mem[t], step[t])
          /\ pc[t] \in {"enter", "loop", "act", "commit", "except", "rollback"}
      BY <1>1, <2>2, <2>3, <3>1 DEF IInv, Working, TypeOK, Labels, Executing
    <3>3. QED
      BY <1>1, <3>2 DEF Private, Follows, Fresh
  <2>4. ASSUME NEW t \in Threads, Work(t) PROVE disk'[i] = disk[i]
    <3>1. Executing(t)
      BY <2>4 DEF Work, Enter, BeginStep, ActSucceeds, ActFails, Commit, RecordFailure,
         RollbackSkips, RollbackUndoes, RollbackRaises, EndRollback, Complete, At, Executing
    <3>2. disk' = disk \/ \E record : disk' = [disk EXCEPT ![inst[t]] = record]
      BY <2>4 DEF Work, Enter, BeginStep, ActSucceeds, ActFails, Commit, RecordFailure,
         RollbackSkips, RollbackUndoes, RollbackRaises, UndoneAs, EndRollback, Complete,
         Escapes, Saved, SaveRaises
    <3>3. QED
      BY <2>1, <2>3, <3>1, <3>2
  <2>5. ASSUME NEW t \in Threads, \E j \in Instances : Trigger(t, j) \/ RetryReads(t, j)
        PROVE  disk'[i] = disk[i]
    BY <1>1, <2>1, <2>5 DEF Trigger, RetryReads
  <2>6. ASSUME NEW t \in Threads, RetryResets(t) \/ RetryGivesUp(t)
        PROVE  disk'[i] = disk[i]
    BY <1>1, <2>1, <2>6 DEF RetryResets, RetryGivesUp, Saved, SaveRaises
  <2>7. CASE Crash
    BY <2>7 DEF Crash
  <2>8. QED
    BY <1>1, <2>4, <2>5, <2>6, <2>7 DEF Next
<1>2. IInv /\ [Next]_vars => [CompletedStays]_vars
  BY <1>1 DEF CompletedStays
<1>3. QED
  BY <1>2, Invariance, PTL DEF Spec

-----------------------------------------------------------------------------
(***************************************************************************)
(* Onboarding, for any threads, instances, editors and bounds, of the      *)
(* template that TemplateAssumption describes.  The invariant says at each *)
(* label what the steps done so far have built, and what is left of it     *)
(* once the rollback has reached a step; nothing is retried, so that one   *)
(* thread at most executes an instance, and a step concerns that thread    *)
(* and its instance alone.                                                 *)
(***************************************************************************)
\* The client entity after n steps.
ClientAfter(n) ==
    IF n < ClientStep THEN NoEntity
    ELSE IF n < RoleStep THEN [assigned |-> FALSE, complete |-> FALSE]
    ELSE IF n < CompleteStep THEN [assigned |-> TRUE, complete |-> FALSE]
    ELSE [assigned |-> TRUE, complete |-> TRUE]

\* The task after n steps: there, unless the API was called, and not before its
\* step unless it was written back.
TaskAfter(n, x, again, calls) ==
    /\ n < TaskStep => x = NoEntity \/ again
    /\ n >= TaskStep /\ calls = 0 => x # NoEntity

\* What n steps have built: the client c, the task x and the onboarding o.
Built(n, c, x, o, again, calls) ==
    /\ c = ClientAfter(n)
    /\ TaskAfter(n, x, again, calls)
    /\ o = IF n >= CompleteStep THEN "complete" ELSE NoEntity

\* What is left once the rollback of a run with history h has reached step u.
Undone(u, h, c, x, o, again) ==
    /\ u < ClientStep /\ c # NoEntity =>
         ClientStep <= Len(h) /\ h[ClientStep] = "rollback_failed"
    /\ u < TaskStep /\ x # NoEntity =>
         again \/ (TaskStep <= Len(h) /\ h[TaskStep] = "rollback_failed")
    /\ u < CompleteStep /\ o = "complete" =>
         CompleteStep <= Len(h) /\ h[CompleteStep] \in {"failed", "rollback_failed"}

\* At label l of a run: step k, steps 1..u to undo, history h.
Stage(l, k, u, h, c, x, o, again, calls) ==
    /\ l = "enter" => Built(0, c, x, o, again, calls)
    /\ l \in {"loop", "act"} => Built(k - 1, c, x, o, again, calls)
    /\ l = "commit" => Built(k, c, x, o, again, calls)
    /\ l = "except" =>
         /\ c = ClientAfter(u)
         /\ TaskAfter(u, x, again, calls)
         /\ o = "complete" => k = CompleteStep
    /\ l = "rollback" => Undone(u, h, c, x, o, again)

\* Once nothing executes an instance with record d.
Rest(d, c, x, o, again, calls, interrupted) ==
    /\ d = NoRecord => Built(0, c, x, o, again, calls)
    /\ d # NoRecord =>
         /\ d.status = "completed" => Built(N, c, x, o, again, calls)
         /\ d.status = "failed" /\ ~interrupted => Undone(0, d.history, c, x, o, again)

EntitiesOK ==
    /\ client \in [Instances -> Client \cup {NoEntity}]
    /\ task \in [Instances -> Task \cup {NoEntity}]
    /\ onboarding \in [Instances -> {"complete", NoEntity}]
    /\ external \in [Instances -> BOOLEAN]
    /\ held \in [Editors -> Instances \cup {NoInstance}]
    /\ revived \subseteq Instances
    /\ edits \in 0..MaxEdits

\* Nothing is retried.
NoRetry ==
    /\ raced = {}
    /\ \A i \in Instances : runs[i] <= 1
    /\ \A t \in Threads : pc[t] # "checked"

StageOf(t, i) == Stage(pc[t], step[t], undo[t], mem[t].history, client[i], task[i],
                       onboarding[i], i \in revived, edits)
RestOf(i) == Rest(disk[i], client[i], task[i], onboarding[i], i \in revived, edits, i \in cut)

Entities ==
    /\ \A t \in Threads : Executing(t) => StageOf(t, inst[t])
    /\ \A i \in Instances : ~Busy(i) => RestOf(i)

OInv == IInv /\ EntitiesOK /\ NoRetry /\ Entities

-----------------------------------------------------------------------------
(***************************************************************************)
(* Every step is a step of the engine or leaves it alone.                  *)
(***************************************************************************)
LEMMA StepIsEngine == [ONext]_onboardingVars => [Next]_vars
<1> SUFFICES ASSUME [ONext]_onboardingVars PROVE [Next]_vars
  OBVIOUS
<1>1. ASSUME NEW t \in Threads, EngineOnly(t)
      PROVE  Next
  BY <1>1 DEF EngineOnly, Next, Work
<1>2. ASSUME NEW t \in Threads, Act(t)
      PROVE  Next
  <2>1. ActSucceeds(t) \/ ActFails(t)
    BY <1>2 DEF Act, ValidateClient, CreateClient, AssignUserRole, CreateTask, ExternalSetup,
       CompleteOnboarding, StepFails, ExternalSetupFailsLate, CompleteOnboardingFailsLate, Does
  <2>2. QED
    BY <2>1 DEF Next, Work
<1>3. ASSUME NEW t \in Threads, Compensate(t)
      PROVE  Next
  <2>1. RollbackUndoes(t) \/ RollbackRaises(t)
    BY <1>3 DEF Compensate, DeleteOnboarding, DeleteTask, DeleteTaskNotFound, RestoreClient,
       DeleteClient, UndoFails, Undoes
  <2>2. QED
    BY <2>1 DEF Next, Work
<1>4. ASSUME NEW e \in Editors, TaskApi(e)
      PROVE  UNCHANGED vars
  BY <1>4 DEF TaskApi, UpdateFinds, UpdateSaves, UpdateRaises
<1>5. ASSUME NEW i \in Instances, Delete(i)
      PROVE  UNCHANGED vars
  BY <1>5 DEF Delete
<1>6. CASE OCrash
  BY <1>6 DEF OCrash, Next
<1>7. CASE UNCHANGED onboardingVars
  BY <1>7 DEF onboardingVars
<1>8. QED
  BY <1>1, <1>2, <1>3, <1>4, <1>5, <1>6, <1>7 DEF ONext

LEMMA InitOInv == OInit => OInv
<1> SUFFICES ASSUME OInit PROVE OInv
  OBVIOUS
<1>1. IInv
  BY InitIInv DEF OInit
<1>2. EntitiesOK /\ NoRetry
  BY OnboardingAssumption DEF OInit, Init, EntitiesOK, NoRetry
<1>3. Built(0, NoEntity, NoEntity, NoEntity, FALSE, 0)
  BY DEF Built, ClientAfter, TaskAfter, ClientStep, RoleStep, TaskStep, CompleteStep
<1>4. Entities
  <2>1. ASSUME NEW i \in Instances
        PROVE  RestOf(i)
    <3>1. /\ disk[i] = NoRecord /\ client[i] = NoEntity /\ task[i] = NoEntity
          /\ onboarding[i] = NoEntity /\ edits = 0
      BY DEF OInit, Init
    <3>2. (i \in revived) <=> FALSE
      BY DEF OInit
    <3>3. QED
      BY <3>1, <3>2, <1>3 DEF RestOf, Rest, Built, TaskAfter
  <2>2. QED
    BY <2>1 DEF Entities, Executing, OInit, Init
<1>5. QED
  BY <1>1, <1>2, <1>4 DEF OInv

\* Without retries an instance is executed by one thread at most.
LEMMA OneRunner ==
    ASSUME OInv, NEW t \in Threads, NEW u \in Threads,
           Executing(t), Executing(u), inst[t] = inst[u]
    PROVE  t = u
<1>1. /\ run[t] \in 1..runs[inst[t]] /\ run[u] \in 1..runs[inst[t]]
      /\ runs[inst[t]] \in Nat /\ runs[inst[t]] <= 1
  BY ExecutingType DEF OInv, NoRetry
<1>2. run[t] = run[u]
  BY <1>1
<1>3. QED
  BY <1>2 DEF OInv, IInv, RunsDiffer

\* An instance that is executed is not recorded as completed.
LEMMA RunnerIsNotCompleted ==
    ASSUME OInv, NEW t \in Threads, Executing(t)
    PROVE  disk[inst[t]] # NoRecord /\ disk[inst[t]].status # "completed"
<1>1. pc[t] \in {"enter", "loop", "act", "commit", "except", "rollback"}
  BY DEF Executing, OInv, IInv, TypeOK, Labels
<1>2. QED
  BY <1>1, ExecutingType, RecordAssumption DEF OInv, NoRetry, Private, Follows, Fresh

-----------------------------------------------------------------------------
\* A step concerns thread t and instance i alone.
Alone(t, i) ==
    /\ \A v \in Threads \ {t} :
         /\ pc'[v] = pc[v] /\ inst'[v] = inst[v] /\ mem'[v] = mem[v]
         /\ step'[v] = step[v] /\ undo'[v] = undo[v]
    /\ \A j \in Instances \ {i} :
         disk'[j] = disk[j] /\ runs'[j] = runs[j] /\ (j \in cut' <=> j \in cut)
    /\ Executing(t) => inst[t] = i
    /\ \A v \in Threads \ {t} : Executing(v) => inst[v] # i
    /\ runs'[i] <= 1 /\ raced' = raced /\ pc'[t] # "checked"

\* It leaves the entities of the other instances alone, and the API.
EntitiesAlone(i) ==
    /\ \A j \in Instances \ {i} :
         client'[j] = client[j] /\ task'[j] = task[j] /\ onboarding'[j] = onboarding[j]
    /\ UNCHANGED <<revived, edits>>

\* What has to be shown of such a step.
LEMMA AloneOInv ==
    ASSUME OInv, IInv', EntitiesOK', NEW t \in Threads, NEW i \in Instances,
           Alone(t, i), EntitiesAlone(i),
           \/ Executing(t)' /\ inst'[t] = i /\ StageOf(t, i)'
           \/ ~Executing(t)' /\ RestOf(i)'
    PROVE  OInv'
<1> USE DEF Alone, EntitiesAlone
<1>1. \A v \in Threads \ {t} : Executing(v)' <=> Executing(v)
  BY DEF Executing
<1>2. NoRetry'
  BY DEF OInv, NoRetry
<1>3. ASSUME NEW v \in Threads, Executing(v)'
      PROVE  StageOf(v, inst[v])'
  <2>1. CASE v = t
    BY <2>1, <1>3
  <2>2. CASE v # t
    <3>1. Executing(v) /\ inst[v] # i /\ inst[v] \in Instances /\ inst'[v] = inst[v]
      BY <2>2, <1>1, <1>3, ExecutingType DEF OInv
    <3>2. StageOf(v, inst[v])
      BY <3>1 DEF OInv, Entities
    <3>3. QED
      BY <2>2, <3>1, <3>2 DEF StageOf
  <2>3. QED
    BY <2>1, <2>2
<1>4. ASSUME NEW j \in Instances, ~Busy(j)'
      PROVE  RestOf(j)'
  <2>1. CASE j = i
    BY <2>1, <1>4 DEF Busy
  <2>2. CASE j # i
    <3>1. ~Busy(j)
      BY <2>2, <1>1, <1>4 DEF Busy
    <3>2. RestOf(j)
      BY <3>1 DEF OInv, Entities
    <3>3. QED
      BY <2>2, <3>2 DEF RestOf
  <2>3. QED
    BY <2>1, <2>2
<1>5. Entities'
  BY <1>3, <1>4 DEF Entities
<1>6. QED
  BY <1>2, <1>5 DEF OInv

\* The steps of the engine concern one thread and the instance it executes.
LEMMA WorkIsAlone ==
    ASSUME OInv, NEW t \in Threads, Work(t)
    PROVE  /\ Executing(t) /\ inst[t] \in Instances
           /\ Alone(t, inst[t])
<1>1. Executing(t)
  BY DEF Work, Enter, BeginStep, ActSucceeds, ActFails, Commit, RecordFailure,
     RollbackSkips, RollbackUndoes, RollbackRaises, EndRollback, Complete, At, Executing
<1>2. inst[t] \in Instances /\ runs[inst[t]] <= 1
  BY <1>1, ExecutingType DEF OInv, NoRetry
<1>3. \A v \in Threads \ {t} : Executing(v) => inst[v] # inst[t]
  BY <1>1, OneRunner
<1>4. ASSUME Escapes(t)
      PROVE  Alone(t, inst[t])
  BY <1>1, <1>2, <1>3, <1>4
     DEF Escapes, SaveRaises, Forget, Goto, Now, ghosts, Alone, OInv, IInv, TypeOK
<1>5. CASE Enter(t) \/ BeginStep(t)
  BY <1>1, <1>2, <1>3, <1>4, <1>5
     DEF Enter, BeginStep, Saved, Goto, Now, ghosts, Alone, OInv, IInv, TypeOK
<1>6. CASE RecordFailure(t)
  BY <1>1, <1>2, <1>3, <1>4, <1>6
     DEF RecordFailure, Saved, Goto, Now, ghosts, Alone, OInv, IInv, TypeOK
<1>7. CASE ActSucceeds(t) \/ ActFails(t) \/ Commit(t)
  BY <1>1, <1>2, <1>3, <1>7
     DEF ActSucceeds, ActFails, Commit, Saved, SaveRaises, Goto, Now, ghosts, Alone,
         OInv, IInv, TypeOK
<1>8. CASE RollbackSkips(t) \/ RollbackUndoes(t) \/ RollbackRaises(t)
  BY <1>1, <1>2, <1>3, <1>8
     DEF RollbackSkips, RollbackUndoes, RollbackRaises, UndoneAs, At, Now, ghosts, Alone,
         OInv, IInv, TypeOK
<1>9. CASE EndRollback(t) \/ Complete(t)
  BY <1>1, <1>2, <1>3, <1>4, <1>9
     DEF EndRollback, Complete, Saved, Forget, Goto, Now, ghosts, Alone, OInv, IInv, TypeOK
<1>10. QED
  BY <1>1, <1>2, <1>5, <1>6, <1>7, <1>8, <1>9 DEF Work

-----------------------------------------------------------------------------
\* What is known of a thread that executes.
LEMMA Executes ==
    ASSUME OInv, NEW t \in Threads, Executing(t), NEW i, i = inst[t]
    PROVE  /\ i \in Instances /\ i \notin raced
           /\ StageOf(t, i)
           /\ Private(pc[t], mem[t], step[t], undo[t], Done(i, run[t]))
           /\ mem[t] \in Record /\ mem[t].history \in Seq(StepStatuses)
           /\ disk[i] \in Record
BY ExecutingType DEF OInv, NoRetry, Entities, Record

\* An exception escapes: the instance is cut.
LEMMA EscapeRests ==
    ASSUME OInv, NEW t \in Threads, Executing(t), Escapes(t), NEW i, i = inst[t],
           UNCHANGED <<entities, api>>
    PROVE  ~Executing(t)' /\ RestOf(i)'
<1>1. disk'[i] = disk[i] /\ disk[i] # NoRecord /\ disk[i].status # "completed" /\ i \in cut'
  BY RunnerIsNotCompleted DEF Escapes, SaveRaises
<1>2. ~Executing(t)'
  BY DEF Escapes, Forget, Goto, Executing, OInv, IInv, TypeOK
<1>3. QED
  BY <1>1, <1>2 DEF RestOf, Rest

LEMMA EngineOnlyOInv ==
    ASSUME OInv, IInv', NEW t \in Threads, EngineOnly(t)
    PROVE  OInv'
<1>1. /\ UNCHANGED <<client, task, onboarding, external, held, revived, edits>>
      /\ EntitiesOK'
      /\ \A i : EntitiesAlone(i)
  BY DEF EngineOnly, entities, api, OInv, EntitiesOK, EntitiesAlone
<1> USE TemplateAssumption DEF ClientStep, RoleStep, TaskStep, CompleteStep
<1>2. ASSUME NEW i \in Instances, Trigger(t, i)
      PROVE  OInv'
  <2>1. /\ disk[i] = NoRecord /\ pc'[t] = "enter" /\ inst'[t] = i /\ ~Executing(t)
        /\ \A v \in Threads : Executing(v) => inst[v] # i
    BY <1>2, RunnerIsNotCompleted DEF Trigger, At, Goto, Executing, OInv, IInv, TypeOK
  <2>2. Alone(t, i)
    BY <1>2, <2>1 DEF Trigger, Goto, Now, Alone, OInv, IInv, TypeOK
  <2>3. RestOf(i)
    BY <2>1 DEF Busy, OInv, Entities
  <2>4. StageOf(t, i)' /\ Executing(t)'
    BY <1>1, <2>1, <2>3 DEF RestOf, Rest, StageOf, Stage, Executing
  <2>5. QED
    BY <1>1, <2>1, <2>2, <2>4, AloneOInv
<1>3. ASSUME Work(t), NEW i, i = inst[t],
             \/ Executing(t)' /\ inst' = inst /\ StageOf(t, i)'
             \/ ~Executing(t)' /\ RestOf(i)'
      PROVE  OInv'
  BY <1>1, <1>3, WorkIsAlone, AloneOInv
<1>4. PICK i : i = inst[t]
  OBVIOUS
<1>5. CASE Enter(t)
  <2>1. Executing(t) /\ pc[t] = "enter"
    BY <1>5 DEF Enter, At, Executing
  <2>2. CASE ~Escapes(t)
    <3>1. pc'[t] = "loop" /\ step'[t] = 1 /\ inst' = inst
      BY <1>5, <2>2 DEF Enter, Goto, OInv, IInv, TypeOK
    <3>2. Built(0, client[i], task[i], onboarding[i], i \in revived, edits)
      BY <1>4, <2>1, Executes DEF StageOf, Stage
    <3>3. StageOf(t, i)' /\ Executing(t)'
      BY <3>1, <3>2, <1>1 DEF StageOf, Stage, Executing
    <3>4. QED
      BY <3>1, <3>3, <1>3, <1>4, <1>5 DEF Work
  <2>3. CASE Escapes(t)
    BY <2>1, <2>3, <1>1, <1>3, <1>4, <1>5, EscapeRests DEF Work, entities, api
  <2>4. QED
    BY <2>2, <2>3
<1>6. CASE BeginStep(t)
  <2>1. Executing(t) /\ pc[t] = "loop"
    BY <1>6 DEF BeginStep, At, Executing
  <2>2. CASE ~Escapes(t)
    <3>1. pc'[t] = "act" /\ step' = step /\ inst' = inst
      BY <1>6, <2>2 DEF BeginStep, Goto, OInv, IInv, TypeOK
    <3>2. Built(step[t] - 1, client[i], task[i], onboarding[i], i \in revived, edits)
      BY <1>4, <2>1, Executes DEF StageOf, Stage
    <3>3. StageOf(t, i)' /\ Executing(t)'
      BY <3>1, <3>2, <1>1 DEF StageOf, Stage, Executing
    <3>4. QED
      BY <3>1, <3>3, <1>3, <1>4, <1>6 DEF Work
  <2>3. CASE Escapes(t)
    BY <2>1, <2>3, <1>1, <1>3, <1>4, <1>6, EscapeRests DEF Work, entities, api
  <2>4. QED
    BY <2>2, <2>3
<1>7. CASE Commit(t)
  <2>1. Executing(t) /\ pc[t] = "commit" /\ inst' = inst
    BY <1>7 DEF Commit, At, Executing
  <2>2. /\ Built(step[t], client[i], task[i], onboarding[i], i \in revived, edits)
        /\ undo[t] = step[t] /\ step[t] \in 1..6
    BY <1>4, <2>1, Executes DEF StageOf, Stage, Private, Steps
  <2>3. CASE pc'[t] = "loop"
    <3>1. step'[t] = step[t] + 1 /\ step'[t] - 1 = step[t]
      BY <1>7, <2>2, <2>3 DEF Commit, Goto, OInv, IInv, TypeOK
    <3>2. StageOf(t, i)' /\ Executing(t)'
      BY <3>1, <2>2, <2>3, <1>1 DEF StageOf, Stage, Executing
    <3>3. QED
      BY <2>1, <3>2, <1>3, <1>4, <1>7 DEF Work
  <2>4. CASE pc'[t] = "except"
    <3>1. undo' = undo /\ step' = step
      BY <1>7, <2>4 DEF Commit, Goto, OInv, IInv, TypeOK
    <3>2. onboarding[i] = "complete" => step[t] = 6
      BY <2>2, OnboardingAssumption DEF Built
    <3>3. StageOf(t, i)' /\ Executing(t)'
      BY <3>1, <3>2, <2>2, <2>4, <1>1 DEF StageOf, Stage, Built, Executing
    <3>4. QED
      BY <2>1, <3>3, <1>3, <1>4, <1>7 DEF Work
  <2>5. QED
    BY <2>3, <2>4, <1>7 DEF Commit, Goto, OInv, IInv, TypeOK
<1>8. CASE RecordFailure(t)
  <2>1. Executing(t) /\ pc[t] = "except"
    BY <1>8 DEF RecordFailure, At, Executing
  <2>2. CASE ~Escapes(t)
    <3> DEFINE k == step[t]
               r == [mem[t] EXCEPT !.status = "failed"]
               m == [r EXCEPT !.history[k] = "failed"]
    <3>1. /\ pc'[t] = "rollback" /\ undo' = undo /\ inst' = inst
          /\ mem'[t] = [mem[t] EXCEPT !.status = "failed", !.history[k] = "failed"]
      BY <1>8, <2>2 DEF RecordFailure, Goto, Now, OInv, IInv, TypeOK
    <3>2. /\ k \in 1..6 /\ Len(mem[t].history) = k /\ mem[t] \in Record
          /\ undo[t] \in {k - 1, k} /\ undo[t] \in 0..6
          /\ client[i] = ClientAfter(undo[t])
          /\ TaskAfter(undo[t], task[i], i \in revived, edits)
          /\ onboarding[i] = "complete" => k = 6
      BY <1>4, <2>1, Executes DEF StageOf, Stage, Private, Steps
    <3>3. r \in Record /\ r.history = mem[t].history
      BY <3>2 DEF Record, Statuses
    <3>4. Len(m.history) = k /\ m.history[k] = "failed"
      <4> HIDE DEF r
      <4>1. k \in 1..Len(r.history) /\ "failed" \in StepStatuses
        BY <3>2, <3>3 DEF StepStatuses
      <4>2. QED
        BY <3>2, <3>3, <4>1, StatusWritten
    <3>5. mem'[t].history = m.history
      BY <3>1, <3>3
    <3> HIDE DEF m, r
    <3>6. Undone(undo[t], m.history, client[i], task[i], onboarding[i], i \in revived)
      BY <3>2, <3>4 DEF Undone, ClientAfter, TaskAfter
    <3>7. StageOf(t, i)' /\ Executing(t)'
      BY <3>1, <3>5, <3>6, <1>1 DEF StageOf, Stage, Executing
    <3>8. QED
      BY <3>1, <3>7, <1>3, <1>4, <1>8 DEF Work
  <2>3. CASE Escapes(t)
    BY <2>1, <2>3, <1>1, <1>3, <1>4, <1>8, EscapeRests DEF Work, entities, api
  <2>4. QED
    BY <2>2, <2>3
<1>9. CASE RollbackSkips(t)
  <2>1. /\ Executing(t) /\ pc[t] = "rollback" /\ pc' = pc /\ inst' = inst /\ mem' = mem
        /\ undo'[t] = undo[t] - 1 /\ undo[t] \notin {2, 3, 4, 6}
    BY <1>9 DEF RollbackSkips, At, Executing, OInv, IInv, TypeOK
  <2>2. /\ Undone(undo[t], mem[t].history, client[i], task[i], onboarding[i], i \in revived)
        /\ undo[t] \in 0..6
    BY <1>4, <2>1, Executes DEF StageOf, Stage, Private
  <2>3. Undone(undo[t] - 1, mem[t].history, client[i], task[i], onboarding[i], i \in revived)
    BY <2>1, <2>2 DEF Undone
  <2>4. StageOf(t, i)' /\ Executing(t)'
    BY <2>1, <2>3, <1>1 DEF StageOf, Stage, Executing
  <2>5. QED
    BY <2>1, <2>4, <1>3, <1>4, <1>9 DEF Work
<1>10. CASE EndRollback(t)
  <2>1. Executing(t) /\ pc[t] = "rollback" /\ undo[t] = 0
    BY <1>10 DEF EndRollback, At, Executing
  <2>2. CASE ~Escapes(t)
    <3>1. ~Executing(t)' /\ disk'[i] = mem[t]
      BY <1>4, <1>10, <2>1, <2>2, Executes
         DEF EndRollback, Forget, Goto, Saved, Executing, OInv, IInv, TypeOK
    <3>2. /\ Undone(0, mem[t].history, client[i], task[i], onboarding[i], i \in revived)
          /\ mem[t].status = "failed" /\ mem[t] # NoRecord
      BY <1>4, <2>1, Executes, RecordAssumption DEF StageOf, Stage, Private
    <3>3. RestOf(i)'
      BY <3>1, <3>2, <1>1 DEF RestOf, Rest
    <3>4. QED
      BY <3>1, <3>3, <1>3, <1>4, <1>10 DEF Work
  <2>3. CASE Escapes(t)
    BY <2>1, <2>3, <1>1, <1>3, <1>4, <1>10, EscapeRests DEF Work, entities, api
  <2>4. QED
    BY <2>2, <2>3
<1>11. CASE Complete(t)
  <2>1. Executing(t) /\ pc[t] = "loop" /\ step[t] = 7
    BY <1>11 DEF Complete, At, Executing
  <2>2. CASE ~Escapes(t)
    <3>1. /\ ~Executing(t)'
          /\ disk'[i] = [mem[t] EXCEPT !.status = "completed"]
      BY <1>4, <1>11, <2>1, <2>2, Executes
         DEF Complete, Forget, Goto, Saved, Executing, OInv, IInv, TypeOK
    <3>2. /\ Built(6, client[i], task[i], onboarding[i], i \in revived, edits)
          /\ mem[t] \in Record
      BY <1>4, <2>1, Executes DEF StageOf, Stage
    <3>3. disk'[i] \in Record /\ disk'[i].status = "completed"
      BY <3>1, <3>2 DEF Record, Statuses
    <3>4. RestOf(i)'
      BY <3>1, <3>2, <3>3, <1>1, RecordAssumption DEF RestOf, Rest
    <3>5. QED
      BY <3>1, <3>4, <1>3, <1>4, <1>11 DEF Work
  <2>3. CASE Escapes(t)
    BY <2>1, <2>3, <1>1, <1>3, <1>4, <1>11, EscapeRests DEF Work, entities, api
  <2>4. QED
    BY <2>2, <2>3
<1>12. QED
  BY <1>2, <1>5, <1>6, <1>7, <1>8, <1>9, <1>10, <1>11 DEF EngineOnly

-----------------------------------------------------------------------------
\* What the handlers write of a client.
LEMMA ClientWrites ==
    ASSUME NEW c \in Client
    PROVE  /\ [assigned |-> FALSE, complete |-> FALSE] \in Client
           /\ [c EXCEPT !.assigned = TRUE] \in Client
           /\ [c EXCEPT !.complete = TRUE] \in Client
           /\ c = [assigned |-> FALSE, complete |-> FALSE] =>
                [c EXCEPT !.assigned = TRUE] = [assigned |-> TRUE, complete |-> FALSE]
           /\ c = [assigned |-> TRUE, complete |-> FALSE] =>
                [c EXCEPT !.complete = TRUE] = [assigned |-> TRUE, complete |-> TRUE]
<1>1. /\ [assigned |-> FALSE, complete |-> FALSE] \in Client
      /\ [c EXCEPT !.assigned = TRUE] \in Client
      /\ [c EXCEPT !.complete = TRUE] \in Client
  BY DEF Client
<1>2. ASSUME NEW x
      PROVE  /\ [c EXCEPT !.assigned = x] = [assigned |-> x, complete |-> c.complete]
             /\ [c EXCEPT !.complete = x] = [assigned |-> c.assigned, complete |-> x]
  BY DEF Client
<1>3. /\ c = [assigned |-> FALSE, complete |-> FALSE] => c.complete = FALSE
      /\ c = [assigned |-> TRUE, complete |-> FALSE] => c.assigned = TRUE
  OBVIOUS
<1>4. QED
  BY <1>1, <1>2, <1>3

\* A step of the workflow: what it saves.
LEMMA ActOInv ==
    ASSUME OInv, IInv', NEW t \in Threads, Act(t)
    PROVE  OInv'
<1> USE TemplateAssumption DEF ClientStep, RoleStep, TaskStep, CompleteStep
<1> PICK i : i = inst[t]
  OBVIOUS
<1>1. /\ ActSucceeds(t) \/ ActFails(t)
      /\ pc[t] = "act" /\ inst' = inst /\ step' = step
      /\ UNCHANGED <<held, revived, edits>>
  BY DEF Act, ValidateClient, CreateClient, AssignUserRole, CreateTask, ExternalSetup,
     CompleteOnboarding, StepFails, ExternalSetupFailsLate, CompleteOnboardingFailsLate, Does,
     ActSucceeds, ActFails, At, api
<1>2. Work(t) /\ Executing(t) /\ i \in Instances /\ Alone(t, i)
  BY <1>1, WorkIsAlone DEF Work
<1>3. /\ Built(step[t] - 1, client[i], task[i], onboarding[i], i \in revived, edits)
      /\ step[t] \in 1..6 /\ undo[t] = step[t] - 1
  BY <1>1, <1>2, Executes DEF StageOf, Stage, Private, Steps
<1>4. /\ client \in [Instances -> Client \cup {NoEntity}]
      /\ task \in [Instances -> Task \cup {NoEntity}]
      /\ onboarding \in [Instances -> {"complete", NoEntity}]
      /\ external \in [Instances -> BOOLEAN]
  BY DEF OInv, EntitiesOK
\* The step succeeds and has built what it is for.
<1>5. ASSUME ActSucceeds(t), EntitiesOK', EntitiesAlone(i),
             Built(step[t], client'[i], task'[i], onboarding'[i], i \in revived, edits)
      PROVE  OInv'
  <2>1. pc'[t] = "commit"
    BY <1>5 DEF ActSucceeds, Goto, OInv, IInv, TypeOK
  <2>2. StageOf(t, i)' /\ Executing(t)'
    BY <1>1, <1>5, <2>1 DEF StageOf, Stage, Executing
  <2>3. QED
    BY <1>1, <1>2, <1>5, <2>2, AloneOInv
\* The step fails; of the last one the onboarding may be there already.
<1>6. ASSUME ActFails(t), EntitiesOK', EntitiesAlone(i), UNCHANGED <<client, task>>,
             onboarding'[i] = "complete" => step[t] = 6
      PROVE  OInv'
  <2>1. pc'[t] = "except" /\ undo' = undo
    BY <1>6 DEF ActFails, Goto, OInv, IInv, TypeOK
  <2>2. client[i] = ClientAfter(undo[t]) /\ TaskAfter(undo[t], task[i], i \in revived, edits)
    BY <1>3 DEF Built
  <2>3. StageOf(t, i)' /\ Executing(t)'
    BY <1>1, <1>6, <2>1, <2>2 DEF StageOf, Stage, Executing
  <2>4. QED
    BY <1>1, <1>2, <1>6, <2>3, AloneOInv
<1>7. CASE ValidateClient(t)
  <2>1. step[t] = 1 /\ ActSucceeds(t) /\ UNCHANGED <<client, task, onboarding, external>>
    BY <1>7 DEF ValidateClient, Does, ValidateStep, entities
  <2>2. EntitiesOK' /\ EntitiesAlone(i)
    BY <1>1, <2>1 DEF OInv, EntitiesOK, EntitiesAlone
  <2>3. Built(1, client[i], task[i], onboarding[i], i \in revived, edits)
    BY <1>3, <2>1 DEF Built, ClientAfter, TaskAfter
  <2>4. QED
    BY <1>5, <2>1, <2>2, <2>3
<1>8. CASE CreateClient(t)
  <2>1. PICK c \in Client : c = [assigned |-> FALSE, complete |-> FALSE]
    BY DEF Client
  <2>2. /\ step[t] = 2 /\ ActSucceeds(t) /\ UNCHANGED <<task, onboarding, external>>
        /\ client' = [client EXCEPT ![i] = c]
    BY <1>8, <2>1 DEF CreateClient, Does
  <2>3. EntitiesOK' /\ EntitiesAlone(i) /\ client'[i] = c
    BY <1>1, <1>2, <1>4, <2>2 DEF OInv, EntitiesOK, EntitiesAlone
  <2>4. Built(2, c, task[i], onboarding[i], i \in revived, edits)
    BY <1>3, <2>1, <2>2 DEF Built, ClientAfter, TaskAfter
  <2>5. QED
    BY <1>5, <2>2, <2>3, <2>4
<1>9. CASE AssignUserRole(t)
  <2>1. /\ step[t] = 3 /\ ActSucceeds(t) /\ UNCHANGED <<task, onboarding, external>>
        /\ client' = [client EXCEPT ![i] = [client[i] EXCEPT !.assigned = TRUE]]
        /\ client[i] # NoEntity
    BY <1>9 DEF AssignUserRole, Does
  <2>2. PICK c : c = [client[i] EXCEPT !.assigned = TRUE]
    OBVIOUS
  <2>3. client[i] = [assigned |-> FALSE, complete |-> FALSE] /\ client[i] \in Client
    BY <1>2, <1>3, <1>4, <2>1 DEF Built, ClientAfter
  <2>4. c \in Client /\ c = [assigned |-> TRUE, complete |-> FALSE]
    BY <2>2, <2>3, ClientWrites
  <2>5. client' = [client EXCEPT ![i] = c]
    BY <2>1, <2>2
  <2>6. EntitiesOK' /\ EntitiesAlone(i) /\ client'[i] = c
    BY <1>1, <1>2, <1>4, <2>1, <2>4, <2>5 DEF OInv, EntitiesOK, EntitiesAlone
  <2>7. Built(3, c, task[i], onboarding[i], i \in revived, edits)
    BY <1>3, <2>1, <2>4 DEF Built, ClientAfter, TaskAfter
  <2>8. QED
    BY <1>5, <2>1, <2>6, <2>7
<1>10. CASE CreateTask(t)
  <2>1. PICK x \in Task : x = "pending"
    BY DEF Task
  <2>2. /\ step[t] = 4 /\ ActSucceeds(t) /\ UNCHANGED <<client, onboarding, external>>
        /\ task' = [task EXCEPT ![i] = x]
    BY <1>10, <2>1 DEF CreateTask, Does
  <2>3. EntitiesOK' /\ EntitiesAlone(i) /\ task'[i] = x
    BY <1>1, <1>2, <1>4, <2>2 DEF OInv, EntitiesOK, EntitiesAlone
  <2>4. Built(4, client[i], x, onboarding[i], i \in revived, edits)
    BY <1>3, <2>2, OnboardingAssumption DEF Built, ClientAfter, TaskAfter
  <2>5. QED
    BY <1>5, <2>2, <2>3, <2>4
<1>11. CASE ExternalSetup(t)
  <2>1. /\ step[t] = 5 /\ ActSucceeds(t) /\ UNCHANGED <<client, task, onboarding>>
    BY <1>11 DEF ExternalSetup, Does, ExternalStep
  <2>2. PICK called \in BOOLEAN : external' = [external EXCEPT ![i] = called]
    BY <1>11 DEF ExternalSetup
  <2>3. EntitiesOK' /\ EntitiesAlone(i)
    BY <1>1, <1>2, <1>4, <2>1, <2>2 DEF OInv, EntitiesOK, EntitiesAlone
  <2>4. Built(5, client[i], task[i], onboarding[i], i \in revived, edits)
    BY <1>3, <2>1 DEF Built, ClientAfter, TaskAfter
  <2>5. QED
    BY <1>5, <2>1, <2>3, <2>4
<1>12. CASE CompleteOnboarding(t)
  <2>1. /\ step[t] = 6 /\ ActSucceeds(t) /\ UNCHANGED <<task, external>>
        /\ onboarding' = [onboarding EXCEPT ![i] = "complete"]
        /\ client' = [client EXCEPT ![i] = [client[i] EXCEPT !.complete = TRUE]]
        /\ client[i] # NoEntity
    BY <1>12 DEF CompleteOnboarding, Does
  <2>2. PICK c : c = [client[i] EXCEPT !.complete = TRUE]
    OBVIOUS
  <2>3. client[i] = [assigned |-> TRUE, complete |-> FALSE] /\ client[i] \in Client
    BY <1>2, <1>3, <1>4, <2>1 DEF Built, ClientAfter
  <2>4. c \in Client /\ c = [assigned |-> TRUE, complete |-> TRUE]
    BY <2>2, <2>3, ClientWrites
  <2>5. client' = [client EXCEPT ![i] = c]
    BY <2>1, <2>2
  <2>6. EntitiesOK' /\ EntitiesAlone(i) /\ client'[i] = c /\ onboarding'[i] = "complete"
    BY <1>1, <1>2, <1>4, <2>1, <2>4, <2>5 DEF OInv, EntitiesOK, EntitiesAlone
  <2>7. Built(6, c, task[i], "complete", i \in revived, edits)
    BY <1>3, <2>1, <2>4 DEF Built, ClientAfter, TaskAfter
  <2>8. QED
    BY <1>5, <2>1, <2>6, <2>7
<1>13. CASE StepFails(t)
  <2>1. ActFails(t) /\ UNCHANGED <<client, task, onboarding, external>>
    BY <1>13 DEF StepFails, entities
  <2>2. EntitiesOK' /\ EntitiesAlone(i)
    BY <1>1, <2>1 DEF OInv, EntitiesOK, EntitiesAlone
  <2>3. onboarding[i] # "complete"
    BY <1>3, OnboardingAssumption DEF Built
  <2>4. QED
    BY <1>6, <2>1, <2>2, <2>3
<1>14. CASE ExternalSetupFailsLate(t)
  <2>1. /\ ActFails(t) /\ UNCHANGED <<client, task, onboarding>>
        /\ external' = [external EXCEPT ![i] = TRUE]
    BY <1>14 DEF ExternalSetupFailsLate
  <2>2. EntitiesOK' /\ EntitiesAlone(i)
    BY <1>1, <1>2, <1>4, <2>1 DEF OInv, EntitiesOK, EntitiesAlone
  <2>3. onboarding[i] # "complete"
    BY <1>3, OnboardingAssumption DEF Built
  <2>4. QED
    BY <1>6, <2>1, <2>2, <2>3
<1>15. CASE CompleteOnboardingFailsLate(t)
  <2>1. /\ step[t] = 6 /\ ActFails(t) /\ UNCHANGED <<client, task, external>>
        /\ onboarding' = [onboarding EXCEPT ![i] = "complete"]
    BY <1>15 DEF CompleteOnboardingFailsLate
  <2>2. EntitiesOK' /\ EntitiesAlone(i)
    BY <1>1, <1>2, <1>4, <2>1 DEF OInv, EntitiesOK, EntitiesAlone
  <2>3. QED
    BY <1>6, <2>1, <2>2
<1>16. QED
  BY <1>7, <1>8, <1>9, <1>10, <1>11, <1>12, <1>13, <1>14, <1>15 DEF Act

\* A compensation: what it takes away, and what it writes into the history.
LEMMA CompensateOInv ==
    ASSUME OInv, IInv', NEW t \in Threads, Compensate(t)
    PROVE  OInv'
<1> USE TemplateAssumption DEF ClientStep, RoleStep, TaskStep, CompleteStep
<1> PICK i : i = inst[t]
  OBVIOUS
<1>1. PICK u, m : u = undo[t] /\ m = mem[t]
  OBVIOUS
<1>2. /\ RollbackUndoes(t) \/ RollbackRaises(t)
      /\ pc[t] = "rollback" /\ u \in {2, 3, 4, 6}
      /\ pc' = pc /\ inst' = inst /\ undo'[t] = u - 1
      /\ UNCHANGED <<external, held, revived, edits>>
  BY <1>1 DEF Compensate, DeleteOnboarding, DeleteTask, DeleteTaskNotFound, RestoreClient,
     DeleteClient, UndoFails, Undoes, RollbackUndoes, RollbackRaises, UndoneAs, At, api,
     entities, OInv, IInv, TypeOK
<1>3. Work(t) /\ Executing(t) /\ i \in Instances /\ Alone(t, i)
  BY <1>2, WorkIsAlone DEF Work
<1>4. /\ Undone(u, m.history, client[i], task[i], onboarding[i], i \in revived)
      /\ m \in Record /\ u <= Len(m.history) /\ Len(m.history) \in Nat
  BY <1>1, <1>2, <1>3, Executes, RollbackType DEF StageOf, Stage, OInv, Steps
<1>5. /\ client \in [Instances -> Client \cup {NoEntity}]
      /\ task \in [Instances -> Task \cup {NoEntity}]
      /\ onboarding \in [Instances -> {"complete", NoEntity}]
      /\ NoEntity # "complete"
  BY OnboardingAssumption DEF OInv, EntitiesOK
\* What has to be shown of each compensation.
<1>6. ASSUME NEW s \in {"rolled_back", "rollback_failed"}, UndoneAs(t, s),
             EntitiesOK', EntitiesAlone(i),
             task'[i] # NoEntity => task[i] # NoEntity,
             onboarding'[i] = "complete" => onboarding[i] = "complete",
             u = 2 /\ client'[i] # NoEntity => s = "rollback_failed",
             u = 4 /\ task'[i] # NoEntity => s = "rollback_failed",
             u = 6 /\ onboarding'[i] = "complete" => s = "rollback_failed"
      PROVE  OInv'
  <2>1. PICK g : g = [m EXCEPT !.history[u] = s]
    OBVIOUS
  <2>2. mem'[t] = g
    BY <1>1, <1>6, <2>1 DEF UndoneAs, Now, OInv, IInv, TypeOK
  <2>3. u \in 1..Len(m.history) /\ s \in StepStatuses
    BY <1>2, <1>4 DEF StepStatuses
  <2>4. /\ Len(g.history) = Len(m.history) /\ g.history[u] = s
        /\ \A k \in 1..Len(m.history) : k # u => g.history[k] = m.history[k]
    BY <1>4, <2>1, <2>3, StatusWritten
  <2>5. PICK h, f : h = m.history /\ f = g.history
    OBVIOUS
  <2>6. /\ Undone(u, h, client[i], task[i], onboarding[i], i \in revived)
        /\ Len(f) = Len(h) /\ Len(h) \in Nat /\ u <= Len(h) /\ f[u] = s
        /\ \A k \in 1..Len(h) : k # u => f[k] = h[k]
    BY <1>4, <2>4, <2>5
  <2>7. u - 1 < 2 /\ client'[i] # NoEntity => 2 <= Len(f) /\ f[2] = "rollback_failed"
    BY <1>2, <1>6, <2>6
  <2>8. ASSUME u - 1 < 4, task'[i] # NoEntity
        PROVE  i \in revived \/ (4 <= Len(f) /\ f[4] = "rollback_failed")
    <3>1. CASE u = 4
      BY <1>6, <2>6, <2>8, <3>1
    <3>2. CASE u # 4
      <4>1. u < 4 /\ task[i] # NoEntity
        BY <1>2, <1>6, <2>8, <3>2
      <4>2. i \in revived \/ (4 <= Len(h) /\ h[4] = "rollback_failed")
        BY <2>6, <4>1 DEF Undone
      <4>3. 4 <= Len(h) => f[4] = h[4]
        BY <2>6, <3>2
      <4>4. QED
        BY <2>6, <4>2, <4>3
    <3>3. QED
      BY <3>1, <3>2
  <2>9. ASSUME u - 1 < 6, onboarding'[i] = "complete"
        PROVE  6 <= Len(f) /\ f[6] \in {"failed", "rollback_failed"}
    <3>1. CASE u = 6
      BY <1>6, <2>6, <2>9, <3>1
    <3>2. CASE u # 6
      <4>1. u < 6 /\ onboarding[i] = "complete"
        BY <1>2, <1>6, <2>9, <3>2
      <4>2. 6 <= Len(h) /\ h[6] \in {"failed", "rollback_failed"}
        BY <2>6, <4>1 DEF Undone
      <4>3. 6 <= Len(h) => f[6] = h[6]
        BY <2>6, <3>2
      <4>4. QED
        BY <2>6, <4>2, <4>3
    <3>3. QED
      BY <3>1, <3>2
  <2>10. Undone(u - 1, f, client'[i], task'[i], onboarding'[i], i \in revived)
    BY <2>7, <2>8, <2>9 DEF Undone
  <2>11. Undone(u - 1, g.history, client'[i], task'[i], onboarding'[i], i \in revived)
    BY <2>5, <2>10
  <2>12. StageOf(t, i)' /\ Executing(t)'
    BY <1>2, <2>2, <2>11 DEF StageOf, Stage, Executing
  <2>13. QED
    BY <1>2, <1>3, <1>6, <2>12, AloneOInv
<1>7. CASE DeleteOnboarding(t)
  <2>1. /\ u = 6 /\ UndoneAs(t, "rolled_back") /\ UNCHANGED <<client, task, external>>
        /\ onboarding' = [onboarding EXCEPT ![i] = NoEntity]
    BY <1>1, <1>7 DEF DeleteOnboarding, Undoes, RollbackUndoes
  <2>2. EntitiesOK' /\ EntitiesAlone(i) /\ onboarding'[i] = NoEntity
    BY <1>2, <1>3, <1>5, <2>1 DEF OInv, EntitiesOK, EntitiesAlone
  <2>3. QED
    BY <1>5, <1>6, <2>1, <2>2
<1>8. CASE DeleteTask(t)
  <2>1. /\ u = 4 /\ UndoneAs(t, "rolled_back") /\ UNCHANGED <<client, onboarding, external>>
        /\ task' = [task EXCEPT ![i] = NoEntity]
    BY <1>1, <1>8 DEF DeleteTask, Undoes, RollbackUndoes
  <2>2. EntitiesOK' /\ EntitiesAlone(i) /\ task'[i] = NoEntity
    BY <1>2, <1>3, <1>5, <2>1 DEF OInv, EntitiesOK, EntitiesAlone
  <2>3. QED
    BY <1>6, <2>1, <2>2
<1>9. CASE DeleteTaskNotFound(t)
  <2>1. UndoneAs(t, "rollback_failed") /\ UNCHANGED <<client, task, onboarding, external>>
    BY <1>9 DEF DeleteTaskNotFound, RollbackRaises, entities
  <2>2. EntitiesOK' /\ EntitiesAlone(i)
    BY <1>2, <2>1 DEF OInv, EntitiesOK, EntitiesAlone
  <2>3. QED
    BY <1>6, <2>1, <2>2
<1>10. CASE RestoreClient(t)
  <2>1. PICK c \in Client : c = [assigned |-> FALSE, complete |-> FALSE]
    BY DEF Client
  <2>2. /\ u = 3 /\ UndoneAs(t, "rolled_back") /\ UNCHANGED <<task, onboarding, external>>
        /\ client' = [client EXCEPT ![i] = c]
    BY <1>1, <1>10, <2>1 DEF RestoreClient, Undoes, RollbackUndoes
  <2>3. EntitiesOK' /\ EntitiesAlone(i)
    BY <1>2, <1>3, <1>5, <2>2 DEF OInv, EntitiesOK, EntitiesAlone
  <2>4. QED
    BY <1>6, <2>2, <2>3
<1>11. CASE DeleteClient(t)
  <2>1. /\ u = 2 /\ UndoneAs(t, "rolled_back") /\ UNCHANGED <<task, onboarding, external>>
        /\ client' = [client EXCEPT ![i] = NoEntity]
    BY <1>1, <1>11 DEF DeleteClient, Undoes, RollbackUndoes
  <2>2. EntitiesOK' /\ EntitiesAlone(i) /\ client'[i] = NoEntity
    BY <1>2, <1>3, <1>5, <2>1 DEF OInv, EntitiesOK, EntitiesAlone
  <2>3. QED
    BY <1>6, <2>1, <2>2
<1>12. CASE UndoFails(t)
  <2>1. UndoneAs(t, "rollback_failed") /\ UNCHANGED <<client, task, onboarding, external>>
    BY <1>12 DEF UndoFails, RollbackRaises, entities
  <2>2. EntitiesOK' /\ EntitiesAlone(i)
    BY <1>2, <2>1 DEF OInv, EntitiesOK, EntitiesAlone
  <2>3. QED
    BY <1>6, <2>1, <2>2
<1>13. QED
  BY <1>7, <1>8, <1>9, <1>10, <1>11, <1>12 DEF Compensate

-----------------------------------------------------------------------------
\* A call of the task API: the tasks it takes away and writes back are known.
LEMMA ApiOInv ==
    ASSUME OInv, IInv', EntitiesOK', UNCHANGED <<vars, client, onboarding>>,
           edits' = 0 => edits = 0,
           \A i \in Instances :
               /\ i \in revived => i \in revived'
               /\ task'[i] # NoEntity => task[i] # NoEntity \/ i \in revived'
               /\ task'[i] = NoEntity => task[i] = NoEntity \/ edits' # 0
    PROVE  OInv'
<1> USE DEF vars
<1>1. NoRetry'
  BY DEF OInv, NoRetry
<1>2. ASSUME NEW i \in Instances, NEW n,
             TaskAfter(n, task[i], i \in revived, edits)
      PROVE  TaskAfter(n, task'[i], i \in revived', edits')
  BY <1>2 DEF TaskAfter
<1>3. ASSUME NEW i \in Instances, NEW n,
             Built(n, client[i], task[i], onboarding[i], i \in revived, edits)
      PROVE  Built(n, client[i], task'[i], onboarding[i], i \in revived', edits')
  BY <1>2, <1>3 DEF Built
<1>4. ASSUME NEW i \in Instances, NEW u, NEW h,
             Undone(u, h, client[i], task[i], onboarding[i], i \in revived)
      PROVE  Undone(u, h, client[i], task'[i], onboarding[i], i \in revived')
  BY <1>4 DEF Undone
<1>5. ASSUME NEW t \in Threads, Executing(t)'
      PROVE  StageOf(t, inst[t])'
  <2>1. Executing(t) /\ inst[t] \in Instances /\ inst'[t] = inst[t]
    BY <1>5, ExecutingType DEF Executing, OInv
  <2>2. StageOf(t, inst[t])
    BY <2>1 DEF OInv, Entities
  <2>3. QED
    BY <1>2, <1>3, <1>4, <2>1, <2>2 DEF StageOf, Stage
<1>6. ASSUME NEW i \in Instances, ~Busy(i)'
      PROVE  RestOf(i)'
  <2>1. RestOf(i)
    BY <1>6 DEF Busy, Executing, OInv, Entities
  <2>2. QED
    BY <1>3, <1>4, <2>1 DEF RestOf, Rest
<1>7. Entities'
  BY <1>5, <1>6 DEF Entities
<1>8. QED
  BY <1>1, <1>7 DEF OInv

LEMMA TaskApiOInv ==
    ASSUME OInv, IInv', NEW e \in Editors, TaskApi(e)
    PROVE  OInv'
<1>1. /\ task \in [Instances -> Task \cup {NoEntity}] /\ edits \in 0..MaxEdits
      /\ held \in [Editors -> Instances \cup {NoInstance}] /\ MaxEdits \in Nat
      /\ NoEntity # "edited" /\ "edited" \in Task
  BY OnboardingAssumption DEF OInv, EntitiesOK, Task
<1>2. UNCHANGED <<vars, client, onboarding, external>>
  BY DEF TaskApi, UpdateFinds, UpdateSaves, UpdateRaises, entities
<1>3. ASSUME NEW i \in Instances, UpdateFinds(e, i)
      PROVE  OInv'
  <2>1. UNCHANGED <<task, revived>> /\ edits' \in 0..MaxEdits /\ edits' # 0
    BY <1>1, <1>3 DEF UpdateFinds, entities
  <2>2. EntitiesOK'
    BY <1>1, <1>2, <1>3, <2>1 DEF UpdateFinds, OInv, EntitiesOK
  <2>3. QED
    BY <1>2, <2>1, <2>2, ApiOInv
<1>4. CASE UpdateSaves(e)
  <2>1. PICK i \in Instances : i = held[e]
    BY <1>1, <1>4 DEF UpdateSaves
  <2>2. /\ task' = [task EXCEPT ![i] = "edited"] /\ edits' = edits
        /\ revived' = IF task[i] = NoEntity THEN revived \cup {i} ELSE revived
        /\ held' = [held EXCEPT ![e] = NoInstance]
    BY <1>4, <2>1 DEF UpdateSaves
  <2>3. EntitiesOK'
    BY <1>1, <1>2, <2>2 DEF OInv, EntitiesOK
  <2>4. \A j \in Instances :
          /\ j \in revived => j \in revived'
          /\ task'[j] # NoEntity => task[j] # NoEntity \/ j \in revived'
          /\ task'[j] = NoEntity => task[j] = NoEntity
    BY <1>1, <2>2
  <2>5. QED
    BY <1>2, <2>2, <2>3, <2>4, ApiOInv
<1>5. CASE UpdateRaises(e)
  <2>1. UNCHANGED <<task, revived, edits>>
    BY <1>5 DEF UpdateRaises, entities
  <2>2. EntitiesOK'
    BY <1>1, <1>2, <1>5, <2>1 DEF UpdateRaises, OInv, EntitiesOK
  <2>3. QED
    BY <1>2, <2>1, <2>2, ApiOInv
<1>6. QED
  BY <1>3, <1>4, <1>5 DEF TaskApi

LEMMA DeleteOInv ==
    ASSUME OInv, IInv', NEW i \in Instances, Delete(i)
    PROVE  OInv'
<1>1. task \in [Instances -> Task \cup {NoEntity}] /\ edits \in 0..MaxEdits /\ MaxEdits \in Nat
  BY OnboardingAssumption DEF OInv, EntitiesOK
<1>2. /\ UNCHANGED <<vars, client, onboarding, external, held, revived>>
      /\ task' = [task EXCEPT ![i] = NoEntity]
      /\ edits' \in 0..MaxEdits /\ edits' # 0
  BY <1>1 DEF Delete
<1>3. EntitiesOK'
  BY <1>1, <1>2 DEF OInv, EntitiesOK
<1>4. \A j \in Instances : task'[j] # NoEntity => task[j] # NoEntity
  BY <1>1, <1>2
<1>5. QED
  BY <1>2, <1>3, <1>4, ApiOInv

\* After a crash nothing is executed, and what was is cut.
LEMMA CrashOInv ==
    ASSUME OInv, IInv', OCrash
    PROVE  OInv'
<1>1. /\ UNCHANGED <<disk, runs, raced, client, task, onboarding, external, revived, edits>>
      /\ \A t \in Threads : pc'[t] = "idle"
      /\ cut' = cut \cup {inst[t] : t \in {u \in Threads : Executing(u)}}
      /\ held' = [e \in Editors |-> NoInstance]
  BY DEF OCrash, Crash, ghosts, entities
<1>2. EntitiesOK' /\ NoRetry'
  BY <1>1 DEF OInv, EntitiesOK, NoRetry
<1>3. ASSUME NEW i \in Instances
      PROVE  RestOf(i)'
  <2>1. CASE Busy(i)
    <3>1. PICK t \in Threads : Executing(t) /\ inst[t] = i
      BY <2>1 DEF Busy
    <3>2. disk'[i] # NoRecord /\ disk'[i].status # "completed" /\ i \in cut'
      BY <1>1, <3>1, RunnerIsNotCompleted
    <3>3. QED
      BY <3>2 DEF RestOf, Rest
  <2>2. CASE ~Busy(i)
    <3>1. RestOf(i) /\ (i \in cut' <=> i \in cut)
      BY <1>1, <2>2 DEF Busy, OInv, Entities
    <3>2. QED
      BY <1>1, <3>1 DEF RestOf, Rest
  <2>3. QED
    BY <2>1, <2>2
<1>4. Entities'
  BY <1>1, <1>3 DEF Entities, Executing
<1>5. QED
  BY <1>2, <1>4 DEF OInv

LEMMA NextOInv == OInv /\ [ONext]_onboardingVars => OInv'
<1> SUFFICES ASSUME OInv, [ONext]_onboardingVars PROVE OInv'
  OBVIOUS
<1>1. IInv'
  BY StepIsEngine, NextIInv DEF OInv
<1>2. CASE UNCHANGED onboardingVars
  <2>1. UNCHANGED <<vars, entities, api>>
    BY <1>2 DEF onboardingVars
  <2>2. QED
    BY <1>1, <2>1 DEF entities, api, vars, OInv, EntitiesOK, NoRetry, Entities, StageOf, RestOf,
       Executing, Busy
<1>3. QED
  BY <1>1, <1>2, EngineOnlyOInv, ActOInv, CompensateOInv, TaskApiOInv, DeleteOInv, CrashOInv
     DEF ONext

-----------------------------------------------------------------------------
\* In every state of every behaviour the invariant holds.
THEOREM OnboardingInvariance == OSpec => []OInv
<1>1. OInit => OInv
  BY InitOInv
<1>2. OInv /\ [ONext]_onboardingVars => OInv'
  BY NextOInv
<1>3. QED
  BY <1>1, <1>2, PTL DEF OSpec

(***************************************************************************)
(* Onboarding adds entities to the engine and takes nothing from it: each  *)
(* of its steps is a step of the engine or none (client_onboarding/        *)
(* onboarding_engine.py:50-147, workflows/engine.py:86-155).               *)
(***************************************************************************)
THEOREM OnboardingImplementsEngine == OSpec => ImplementsEngine
<1>1. OInit => Init
  BY DEF OInit
<1>2. [ONext]_onboardingVars => [Next]_vars
  BY StepIsEngine
<1>3. QED
  BY <1>1, <1>2, PTL DEF OSpec, ImplementsEngine, Spec

\* Type correctness.
THEOREM OnboardingTypeCorrect == OSpec => []OTypeOK
<1>1. OInv => OTypeOK
  BY DEF OInv, IInv, EntitiesOK, OTypeOK
<1>2. QED
  BY <1>1, OnboardingInvariance, PTL

(***************************************************************************)
(* What a failed onboarding leaves (onboarding_engine.py:129-147): of its  *)
(* client nothing, unless delete_client raised, and of its task nothing,   *)
(* unless its deletion raised or the task API wrote it back.               *)
(***************************************************************************)
THEOREM FailedOnboardingLeavesNothing == OSpec => []FailedLeavesNothing
<1>1. ASSUME OInv, NEW i \in Instances, Failed(i)
      PROVE  Undone(0, disk[i].history, client[i], task[i], onboarding[i], i \in revived)
  BY <1>1 DEF Failed, Settled, OInv, Entities, RestOf, Rest
<1>2. OInv => FailedLeavesNothing
  BY <1>1 DEF FailedLeavesNothing, FailedLeavesNoClient, TaskIsUndone, Undone, Began,
     ClientStep, TaskStep
<1>3. QED
  BY <1>2, OnboardingInvariance, PTL

(***************************************************************************)
(* What is completed is there and linked; an onboarding entity without a   *)
(* complete client belongs to a run that is under way, was cut or says so  *)
(* in its history (onboarding_engine.py:105-127).                          *)
(***************************************************************************)
THEOREM OnboardingLinksAreHonest == OSpec => []LinksAreHonest
<1> USE DEF ClientStep, RoleStep, TaskStep, CompleteStep
<1>1. ASSUME OInv, NEW i \in Instances, Settled(i, "completed")
      PROVE  /\ client[i] = [assigned |-> TRUE, complete |-> TRUE]
             /\ onboarding[i] = "complete"
             /\ task[i] = NoEntity => edits > 0
  <2>1. Built(6, client[i], task[i], onboarding[i], i \in revived, edits) /\ edits \in Nat
    BY <1>1, TemplateAssumption DEF Settled, OInv, EntitiesOK, Entities, RestOf, Rest
  <2>2. QED
    BY <2>1 DEF Built, ClientAfter, TaskAfter
<1>2. ASSUME OInv, NEW i \in Instances, ~Busy(i), i \notin cut,
             onboarding[i] = "complete", client[i] = NoEntity \/ ~client[i].complete
      PROVE  /\ Began(i, CompleteStep)
             /\ disk[i].history[CompleteStep] \in {"failed", "rollback_failed"}
  <2>1. RestOf(i) /\ NoEntity # "complete" /\ OnDisk /\ i \notin raced
    BY <1>2, OnboardingAssumption DEF OInv, IInv, NoRetry, Entities
  <2>2. disk[i] # NoRecord
    BY <1>2, <2>1 DEF RestOf, Rest, Built
  <2>3. disk[i].status # "completed"
    <3>1. SUFFICES ASSUME disk[i].status = "completed" PROVE FALSE
      OBVIOUS
    <3>2. client[i] = [assigned |-> TRUE, complete |-> TRUE]
      BY <1>1, <1>2, <2>2, <3>1 DEF Settled
    <3>3. PICK c \in Client : c = [assigned |-> TRUE, complete |-> TRUE]
      BY DEF Client
    <3>4. client[i] # NoEntity
      BY <3>2, <3>3, OnboardingAssumption
    <3>5. client[i].complete = TRUE
      BY <3>2
    <3>6. QED
      BY <1>2, <3>4, <3>5
  <2>4. disk[i].status = "failed"
    BY <1>2, <2>1, <2>2, <2>3 DEF OInv, IInv, TypeOK, Record, Statuses, OnDisk, AtRest
  <2>5. Undone(0, disk[i].history, client[i], task[i], onboarding[i], i \in revived)
    BY <1>2, <2>1, <2>2, <2>4 DEF RestOf, Rest
  <2>6. QED
    BY <1>2, <2>5 DEF Undone, Began
<1>3. OInv => LinksAreHonest
  BY <1>1, <1>2 DEF LinksAreHonest, CompletedIsLinked, OrphansAreKnown
<1>4. QED
  BY <1>3, OnboardingInvariance, PTL

\* So the history of an onboarding on disk tells what it did (workflows/engine.py:110-155).
THEOREM OnboardingHistoryIsHonest == OSpec => []HistoryIsHonest
BY OnboardingImplementsEngine, HistoryTellsTheRun, PTL DEF ImplementsEngine

\* And an onboarding is rolled back in reverse, takes no more steps than any run
\* and is never written again once it is completed.
THEOREM OnboardingKeepsTheEngine ==
    OSpec => UndoInReverse /\ [][RunsDown]_vars /\ [][CompletedStays]_vars
BY OnboardingImplementsEngine, RollbackIsReverse, RunsRunDown, CompletedIsFinal, PTL
   DEF ImplementsEngine
=============================================================================
