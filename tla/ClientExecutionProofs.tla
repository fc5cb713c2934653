------------------------ MODULE ClientExecutionProofs ------------------------
(***************************************************************************)
(* Theorems about ClientExecution for any threads, clients, executions and *)
(* bounds, in four parts: the executions, what their records say, the      *)
(* cockpit that commands and monitors them, and its screen.  The invariant *)
(* of the first part ties the places an execution lives in: the lock of    *)
(* its client, the object of the thread that runs it, its record on disk   *)
(* and its workflow.                                                       *)
(***************************************************************************)
EXTENDS CockpitControls, CockpitScreen, TLAPS

\* Where the record on disk is the thread's own object.
Synced == {"start", "resolve", "call", "inflight", "link", "resume", "complete",
           "record", "compensate", "fail", "compensate late", "fail late", "leave"}

\* A thread inside execute holds its client's lock and has its execution for
\* itself.
Ownership ==
    \A t \in Threads :
        /\ pc[t] = "idle" => client[t] = NoClient /\ cur[t] = NoExecution
        /\ pc[t] # "idle" => /\ client[t] \in Clients
                             /\ cur[t] \in Executions
                             /\ locks[client[t]] = t
                             /\ \A u \in Threads : cur[u] = cur[t] => u = t

\* Nothing works on an execution that was cut off.
CutIsGone ==
    \A e \in cut : disk[e] # NoRecord /\ \A t \in Threads : cur[t] # e

\* What a record on disk says of the workflow.
Truthful(d, w) ==
    /\ d = NoRecord => w = "none"
    /\ d # NoRecord =>
         /\ d.state = "COMPLETED" => w = "completed"
         /\ d.error = "step" => w = "failed"
         /\ d.state = "COMPENSATING" => w # "running"

\* At label l of execute for client c: the object r, the record d on disk and
\* the workflow w agree.
Coherent(l, c, r, d, w) ==
    /\ Truthful(d, w)
    /\ l = "create" => d = NoRecord
    /\ d # NoRecord => d.client = c /\ d.immediate
    /\ l # "create" =>
         /\ r \in Record
         /\ r.client = c
         /\ r.immediate
         /\ r.state = "COMPLETED" => w = "completed"
         /\ r.error = "step" => w = "failed"
    /\ l \in Synced => d = r
    /\ l \in {"start", "resolve", "call"} => w = "none"
    /\ l \in {"start", "resolve", "call", "inflight"} =>
         r.state \in {"PENDING", "RUNNING", "WAITING_EXTERNAL"}
    /\ l = "inflight" => w = "running"
    /\ l = "link" => w \in {"completed", "failed"}
    /\ l \in {"resume", "complete"} => w = "completed"
    /\ l \in {"record", "compensate", "fail"} => w = "failed"
    /\ l \in {"except", "compensate late", "fail late"} => w # "running"
    /\ l = "except" =>
         /\ d # NoRecord
         /\ \/ r.state = d.state
            \/ r.state \in Promise!Successors(d.state)
    /\ l = "leave" => r.state \in Terminal

Coherence ==
    /\ \A e \in Executions : Truthful(disk[e], work[e])
    /\ \A t \in Threads :
         pc[t] # "idle" =>
            Coherent(pc[t], client[t], rec[t], disk[cur[t]], work[cur[t]])

IInv == TypeOK /\ Ownership /\ CutIsGone /\ Coherence /\ OpenHasWorker

-----------------------------------------------------------------------------
LEMMA Constants ==
    /\ States = {"PENDING", "RUNNING", "WAITING_EXTERNAL", "COMPENSATING",
                 "COMPLETED", "FAILED"}
    /\ Terminal = {"COMPLETED", "FAILED"}
BY DEF States, Terminal, Promise!Terminal, Promise!States, Promise!Successors

LEMMA NewType ==
    ASSUME NEW c \in Clients, NEW b \in BOOLEAN
    PROVE  New(c, b) \in Record
<1>1. <<"PENDING">> \in Seq(States)
  BY Constants
<1>2. QED
  BY <1>1, Constants DEF New, Record

LEMMA MovedType ==
    ASSUME NEW r \in Record, NEW s \in States
    PROVE  /\ Moved(r, s) \in Record
           /\ Moved(r, s).state = s
           /\ Moved(r, s).client = r.client
           /\ Moved(r, s).immediate = r.immediate
           /\ Moved(r, s).error = r.error
<1> DEFINE p == Append(r.path, s)
<1>1. p \in Seq(States)
  BY DEF Record
<1>2. Moved(r, s) = [r EXCEPT !.state = s, !.path = p]
  BY DEF Moved
<1> HIDE DEF p
<1>3. QED
  BY <1>1, <1>2 DEF Record

LEMMA InitIInv == Init => IInv
BY MarksAssumption, BoundsAssumption DEF Init, IInv, TypeOK, Ownership,
   CutIsGone, Coherence, Truthful, OpenHasWorker, Open, Labels

Works == {"none", "running", "completed", "failed", "cut"}

\* A step of one thread inside execute that touches only its own label, object,
\* record and workflow, and leaves them coherent.
OwnStep(t, l, r, d, w) ==
    /\ l \in Labels \ {"idle"}
    /\ r \in Record \cup {NoRecord}
    /\ d \in Record \cup {NoRecord}
    /\ w \in Works
    /\ pc' = [pc EXCEPT ![t] = l]
    /\ rec' = [rec EXCEPT ![t] = r]
    /\ disk' = [disk EXCEPT ![cur[t]] = d]
    /\ work' = [work EXCEPT ![cur[t]] = w]
    /\ faults' \in 0..MaxFaults
    /\ UNCHANGED <<locks, client, cur, cut, crashes>>
    /\ disk[cur[t]] # NoRecord => d # NoRecord
    /\ Coherent(l, client[t], r, d, w)

LEMMA OwnStepIInv ==
    ASSUME IInv, NEW t \in Threads, pc[t] # "idle",
           NEW l, NEW r, NEW d, NEW w, OwnStep(t, l, r, d, w)
    PROVE  IInv'
<1> USE DEF OwnStep, Works
<1> USE DEF IInv, TypeOK
<1>1. cur[t] \in Executions /\ client[t] \in Clients
  BY DEF Ownership
<1>2. TypeOK'
  BY <1>1
<1>3. Ownership' /\ CutIsGone'
  BY <1>1 DEF Ownership, CutIsGone, Labels
<1>4. Coherence'
  <2>1. \A e \in Executions : Truthful(disk'[e], work'[e])
    BY <1>1 DEF Coherence, Coherent
  <2>2. ASSUME NEW u \in Threads, pc'[u] # "idle"
        PROVE  Coherent(pc'[u], client'[u], rec'[u], disk'[cur'[u]], work'[cur'[u]])
    <3>1. CASE u = t
      BY <3>1, <1>1
    <3>2. CASE u # t
      <4>1. pc'[u] = pc[u] /\ cur[u] # cur[t] /\ rec'[u] = rec[u] /\ cur[u] \in Executions
        BY <3>2, <2>2 DEF Ownership
      <4>2. disk'[cur[u]] = disk[cur[u]] /\ work'[cur[u]] = work[cur[u]]
        BY <4>1, <1>1
      <4>3. QED
        BY <4>1, <4>2, <2>2 DEF Coherence
    <3>3. QED
      BY <3>1, <3>2
  <2>3. QED
    BY <2>1, <2>2 DEF Coherence
<1>5. OpenHasWorker'
  <2> SUFFICES ASSUME NEW c \in Clients, NEW e \in Open(c)' \ cut
               PROVE  \E u \in Threads : cur[u] = e /\ locks[c] = u
    BY DEF OpenHasWorker
  <2>1. CASE e = cur[t]
    <3>1. disk'[e] = d /\ d # NoRecord /\ d.client = c
      BY <2>1, <1>1 DEF Open
    <3>2. c = client[t]
      BY <3>1 DEF Coherent
    <3>3. QED
      BY <3>2, <2>1 DEF Ownership
  <2>2. CASE e # cur[t]
    BY <2>2, <1>1 DEF Open, OpenHasWorker
  <2>3. QED
    BY <2>1, <2>2
<1>6. QED
  BY <1>2, <1>3, <1>4, <1>5

\* A thread inside execute: what it holds has its type and is coherent.
LEMMA Inside ==
    ASSUME IInv, NEW t \in Threads, pc[t] # "idle"
    PROVE  /\ cur[t] \in Executions
           /\ client[t] \in Clients
           /\ rec[t] \in Record \cup {NoRecord}
           /\ disk[cur[t]] \in Record \cup {NoRecord}
           /\ work[cur[t]] \in Works
           /\ Coherent(pc[t], client[t], rec[t], disk[cur[t]], work[cur[t]])
BY DEF IInv, TypeOK, Ownership, Coherence, Works

\* The two patterns the handlers of execute are made of.
LEMMA SaveFieldsIInv ==
    ASSUME IInv, NEW t \in Threads, pc[t] # "idle",
           NEW r \in Record,
           NEW done \in Labels \ {"idle"}, NEW raised \in Labels \ {"idle"},
           SaveFields(t, r, done, raised),
           UNCHANGED <<locks, client, cur, work, cut, crashes>>,
           Coherent(done, client[t], r, r, work[cur[t]]),
           Coherent(raised, client[t], r, disk[cur[t]], work[cur[t]])
    PROVE  IInv'
<1> USE Inside, RecordAssumption, BoundsAssumption DEF SaveFields, Now
<1>1. CASE Saved(t, r) /\ Goto(t, done)
  <2>1. OwnStep(t, done, r, r, work[cur[t]])
    BY <1>1 DEF OwnStep, Saved, Goto, IInv, TypeOK
  <2>2. QED
    BY <2>1, OwnStepIInv
<1>2. CASE SaveRaises /\ Goto(t, raised)
  <2>1. OwnStep(t, raised, r, disk[cur[t]], work[cur[t]])
    BY <1>2 DEF OwnStep, SaveRaises, Goto, IInv, TypeOK
  <2>2. QED
    BY <2>1, OwnStepIInv
<1>3. QED
  BY <1>1, <1>2

LEMMA TransitionIInv ==
    ASSUME IInv, NEW t \in Threads, pc[t] # "idle",
           rec[t] \in Record, NEW s \in States,
           NEW done \in Labels \ {"idle"}, NEW raised \in Labels \ {"idle"},
           Transition(t, s, done, raised),
           UNCHANGED <<locks, client, cur, work, cut, crashes>>,
           s \notin Promise!Successors(rec[t].state) =>
              Coherent(raised, client[t], rec[t], disk[cur[t]], work[cur[t]]),
           s \in Promise!Successors(rec[t].state) =>
              /\ Coherent(done, client[t], Moved(rec[t], s), Moved(rec[t], s), work[cur[t]])
              /\ Coherent(raised, client[t], Moved(rec[t], s), disk[cur[t]], work[cur[t]])
    PROVE  IInv'
<1>1. CASE s \notin Promise!Successors(rec[t].state)
  <2>1. OwnStep(t, raised, rec[t], disk[cur[t]], work[cur[t]])
    BY <1>1, Inside DEF OwnStep, Transition, Goto, IInv, TypeOK
  <2>2. QED
    BY <2>1, OwnStepIInv
<1>2. CASE s \in Promise!Successors(rec[t].state)
  <2>1. SaveFields(t, Moved(rec[t], s), done, raised)
    BY <1>2 DEF Transition, SaveFields
  <2>2. QED
    BY <1>2, <2>1, MovedType, SaveFieldsIInv
<1>3. QED
  BY <1>1, <1>2

\* A handler that moves the state from a synced record: what must be checked of
\* the labels it goes to.
LEMMA SyncedTransition ==
    ASSUME IInv, NEW t \in Threads, pc[t] \in Synced,
           NEW s \in States, NEW done \in Synced, NEW raised \in {"except", "escape"},
           Transition(t, s, done, raised),
           UNCHANGED <<locks, client, cur, work, cut, crashes>>,
           raised = "except" => work[cur[t]] # "running",
           s = "COMPLETED" => work[cur[t]] = "completed",
           s = "COMPENSATING" => work[cur[t]] # "running",
           done = "leave" <=> s \in Terminal,
           done \in {"resolve", "call"} => work[cur[t]] = "none" /\ s \in {"RUNNING", "WAITING_EXTERNAL"},
           done = "complete" => work[cur[t]] = "completed",
           done = "fail" => work[cur[t]] = "failed",
           done = "fail late" => work[cur[t]] # "running",
           done \in {"resolve", "call", "complete", "fail", "fail late", "leave"}
    PROVE  IInv'
<1> USE RecordAssumption
<1> DEFINE r == rec[t]
           w == work[cur[t]]
           m == Moved(rec[t], s)
<1>1. /\ pc[t] # "idle" /\ done \in Labels \ {"idle"} /\ raised \in Labels \ {"idle"}
  BY DEF Synced, Labels
<1>2. Coherent(pc[t], client[t], r, disk[cur[t]], w)
  BY <1>1, Inside
<1>3. /\ disk[cur[t]] = r /\ r \in Record /\ r.client = client[t] /\ r.immediate
      /\ r.error = "step" => w = "failed"
      /\ r.state = "COMPLETED" => w = "completed"
      /\ r.state = "COMPENSATING" => w # "running"
  BY <1>2 DEF Coherent, Truthful, Synced
<1>4. /\ m \in Record /\ m.state = s
      /\ m.client = r.client /\ m.immediate = r.immediate /\ m.error = r.error
  BY <1>3, MovedType
<1> HIDE DEF r, w, m
<1>5. Coherent(raised, client[t], r, r, w)
  BY <1>3 DEF Coherent, Truthful, Synced, w
<1>6. Coherent(done, client[t], m, m, w)
  BY <1>3, <1>4 DEF Coherent, Truthful, Synced, w
<1>7. s \in Promise!Successors(r.state) => Coherent(raised, client[t], m, r, w)
  BY <1>3, <1>4 DEF Coherent, Truthful, Synced, w
<1>8. QED
  BY <1>1, <1>3, <1>5, <1>6, <1>7, TransitionIInv DEF r, w, m

-----------------------------------------------------------------------------
LEMMA NextIInv == IInv /\ [Next]_vars => IInv'
<1> SUFFICES ASSUME IInv, [Next]_vars PROVE IInv'
  OBVIOUS
<1> USE Constants, RecordAssumption
<1>1. ASSUME NEW t \in Threads, Start(t)
      PROVE  IInv'
  <2>1. /\ pc[t] = "start"
        /\ Transition(t, "RUNNING", "resolve", "escape")
        /\ UNCHANGED <<locks, client, cur, work, cut, crashes>>
    BY <1>1 DEF Start, At
  <2>2. work[cur[t]] = "none"
    BY <2>1, Inside DEF Coherent
  <2>3. QED
    BY <2>1, <2>2, SyncedTransition DEF Synced
<1>2. ASSUME NEW t \in Threads, Resume(t)
      PROVE  IInv'
  <2>1. /\ pc[t] = "resume"
        /\ Transition(t, "RUNNING", "complete", "except")
        /\ UNCHANGED <<locks, client, cur, work, cut, crashes>>
    BY <1>2 DEF Resume, At
  <2>2. work[cur[t]] = "completed"
    BY <2>1, Inside DEF Coherent
  <2>3. QED
    BY <2>1, <2>2, SyncedTransition DEF Synced
<1>3. ASSUME NEW t \in Threads, Complete(t)
      PROVE  IInv'
  <2>1. /\ pc[t] = "complete"
        /\ Transition(t, "COMPLETED", "leave", "except")
        /\ UNCHANGED <<locks, client, cur, work, cut, crashes>>
    BY <1>3 DEF Complete, At
  <2>2. work[cur[t]] = "completed"
    BY <2>1, Inside DEF Coherent
  <2>3. QED
    BY <2>1, <2>2, SyncedTransition DEF Synced
<1>4. ASSUME NEW t \in Threads, Compensate(t)
      PROVE  IInv'
  <2>1. /\ pc[t] = "compensate"
        /\ Transition(t, "COMPENSATING", "fail", "except")
        /\ UNCHANGED <<locks, client, cur, work, cut, crashes>>
    BY <1>4 DEF Compensate, At
  <2>2. work[cur[t]] = "failed"
    BY <2>1, Inside DEF Coherent
  <2>3. QED
    BY <2>1, <2>2, SyncedTransition DEF Synced
<1>5. ASSUME NEW t \in Threads, Fail(t)
      PROVE  IInv'
  <2>1. /\ pc[t] = "fail"
        /\ Transition(t, "FAILED", "leave", "except")
        /\ UNCHANGED <<locks, client, cur, work, cut, crashes>>
    BY <1>5 DEF Fail, At
  <2>2. work[cur[t]] = "failed"
    BY <2>1, Inside DEF Coherent
  <2>3. QED
    BY <2>1, <2>2, SyncedTransition DEF Synced
<1>6. ASSUME NEW t \in Threads, CompensateLate(t)
      PROVE  IInv'
  <2>1. /\ pc[t] = "compensate late"
        /\ Transition(t, "COMPENSATING", "fail late", "escape")
        /\ UNCHANGED <<locks, client, cur, work, cut, crashes>>
    BY <1>6 DEF CompensateLate, At
  <2>2. work[cur[t]] # "running"
    BY <2>1, Inside DEF Coherent
  <2>3. QED
    BY <2>1, <2>2, SyncedTransition DEF Synced
<1>7. ASSUME NEW t \in Threads, FailLate(t)
      PROVE  IInv'
  <2>1. /\ pc[t] = "fail late"
        /\ Transition(t, "FAILED", "leave", "escape")
        /\ UNCHANGED <<locks, client, cur, work, cut, crashes>>
    BY <1>7 DEF FailLate, At
  <2>2. work[cur[t]] # "running"
    BY <2>1, Inside DEF Coherent
  <2>3. QED
    BY <2>1, <2>2, SyncedTransition DEF Synced
<1>8. ASSUME NEW t \in Threads, Create(t)
      PROVE  IInv'
  <2> DEFINE r == New(client[t], TRUE)
  <2>1. /\ pc[t] = "create"
        /\ SaveFields(t, r, "start", "escape")
        /\ UNCHANGED <<locks, client, cur, work, cut, crashes>>
    BY <1>8 DEF Create, At
  <2>2. client[t] \in Clients /\ Coherent("create", client[t], rec[t], disk[cur[t]], work[cur[t]])
    BY <2>1, Inside
  <2>3. /\ r \in Record /\ r.state = "PENDING" /\ r.client = client[t]
        /\ r.immediate /\ r.error = "none"
    BY <2>2, NewType DEF New
  <2> HIDE DEF r
  <2>4. Coherent("start", client[t], r, r, work[cur[t]])
    BY <2>2, <2>3 DEF Coherent, Truthful
  <2>5. Coherent("escape", client[t], r, disk[cur[t]], work[cur[t]])
    BY <2>2, <2>3 DEF Coherent, Truthful, Synced
  <2>6. QED
    BY <2>1, <2>3, <2>4, <2>5, SaveFieldsIInv DEF Labels
<1>9. ASSUME NEW t \in Threads, Resolve(t)
      PROVE  IInv'
  <2>1. /\ pc[t] = "resolve"
        /\ UNCHANGED <<locks, client, cur, work, cut, crashes>>
    BY <1>9 DEF Resolve, At
  <2>2. Coherent("resolve", client[t], rec[t], disk[cur[t]], work[cur[t]])
    BY <2>1, Inside
  <2>3. ASSUME NEW l \in {"except", "call"}, Goto(t, l), UNCHANGED <<disk, rec, faults>>
        PROVE  IInv'
    <3>1. Coherent(l, client[t], rec[t], disk[cur[t]], work[cur[t]])
      BY <2>2 DEF Coherent, Synced
    <3>2. OwnStep(t, l, rec[t], disk[cur[t]], work[cur[t]])
      BY <2>1, <2>3, <3>1, Inside DEF OwnStep, Goto, Labels, IInv, TypeOK
    <3>3. QED
      BY <2>1, <3>2, OwnStepIInv
  <2>4. CASE Transition(t, "WAITING_EXTERNAL", "call", "except")
    <3>1. work[cur[t]] = "none"
      BY <2>2 DEF Coherent
    <3>2. QED
      BY <2>1, <2>4, <3>1, SyncedTransition DEF Synced
  <2>5. QED
    BY <1>9, <2>3, <2>4 DEF Resolve
<1>10. ASSUME NEW t \in Threads, Call(t)
       PROVE  IInv'
  <2>1. /\ pc[t] = "call"
        /\ UNCHANGED <<disk, locks, client, cur, rec, cut, faults, crashes>>
    BY <1>10 DEF Call, At
  <2>2. Coherent("call", client[t], rec[t], disk[cur[t]], work[cur[t]])
    BY <2>1, Inside
  <2>3. CASE Goto(t, "except") /\ UNCHANGED work
    <3>1. Coherent("except", client[t], rec[t], disk[cur[t]], work[cur[t]])
      BY <2>2 DEF Coherent, Synced
    <3>2. OwnStep(t, "except", rec[t], disk[cur[t]], work[cur[t]])
      BY <2>1, <2>3, <3>1, Inside DEF OwnStep, Goto, Labels, IInv, TypeOK
    <3>3. QED
      BY <2>1, <3>2, OwnStepIInv
  <2>4. CASE Goto(t, "inflight") /\ work' = [work EXCEPT ![cur[t]] = "running"]
    <3>1. Coherent("inflight", client[t], rec[t], disk[cur[t]], "running")
      BY <2>2 DEF Coherent, Truthful, Synced
    <3>2. OwnStep(t, "inflight", rec[t], disk[cur[t]], "running")
      BY <2>1, <2>4, <3>1, Inside DEF OwnStep, Goto, Labels, Works, IInv, TypeOK
    <3>3. QED
      BY <2>1, <3>2, OwnStepIInv
  <2>5. QED
    BY <1>10, <2>3, <2>4 DEF Call
<1>11. ASSUME NEW t \in Threads, WorkflowEnds(t)
       PROVE  IInv'
  <2>1. PICK l \in {"link", "except"}, w \in {"completed", "failed", "cut"} :
          /\ pc[t] = "inflight"
          /\ Goto(t, l)
          /\ work' = [work EXCEPT ![cur[t]] = w]
          /\ l = "link" => w # "cut"
          /\ faults' \in 0..MaxFaults
          /\ UNCHANGED <<disk, locks, client, cur, rec, cut, crashes>>
    BY <1>11, BoundsAssumption DEF WorkflowEnds, At, SaveRaises, IInv, TypeOK
  <2>2. Coherent("inflight", client[t], rec[t], disk[cur[t]], work[cur[t]])
    BY <2>1, Inside
  <2>3. Coherent(l, client[t], rec[t], disk[cur[t]], w)
    BY <2>1, <2>2 DEF Coherent, Truthful, Synced
  <2>4. OwnStep(t, l, rec[t], disk[cur[t]], w)
    BY <2>1, <2>3, Inside DEF OwnStep, Goto, Labels, Works, IInv, TypeOK
  <2>5. QED
    BY <2>1, <2>4, OwnStepIInv
<1>12. ASSUME NEW t \in Threads, Link(t)
       PROVE  IInv'
  <2> DEFINE r == [rec[t] EXCEPT !.linked = TRUE]
  <2>1. /\ pc[t] = "link"
        /\ SaveFields(t, r, AfterLink(t), "except")
        /\ UNCHANGED <<locks, client, cur, work, cut, crashes>>
    BY <1>12 DEF Link, At
  <2>2. Coherent("link", client[t], rec[t], disk[cur[t]], work[cur[t]])
    BY <2>1, Inside
  <2>3. /\ r \in Record /\ r.state = rec[t].state /\ r.client = rec[t].client
        /\ r.immediate = rec[t].immediate /\ r.error = rec[t].error
    BY <2>2 DEF Coherent, Record
  <2> HIDE DEF r
  <2>4. Coherent(AfterLink(t), client[t], r, r, work[cur[t]])
    BY <2>2, <2>3 DEF Coherent, Truthful, Synced, AfterLink
  <2>5. Coherent("except", client[t], r, disk[cur[t]], work[cur[t]])
    BY <2>2, <2>3 DEF Coherent, Truthful, Synced
  <2>6. AfterLink(t) \in Labels \ {"idle"} /\ "except" \in Labels \ {"idle"}
    BY DEF Labels, AfterLink
  <2>7. QED
    BY <2>1, <2>3, <2>4, <2>5, <2>6, SaveFieldsIInv
<1>13. ASSUME NEW t \in Threads, RecordFailure(t)
       PROVE  IInv'
  <2> DEFINE r == [rec[t] EXCEPT !.error = "step"]
  <2>1. /\ pc[t] = "record"
        /\ SaveFields(t, r, "compensate", "except")
        /\ UNCHANGED <<locks, client, cur, work, cut, crashes>>
    BY <1>13 DEF RecordFailure, At
  <2>2. Coherent("record", client[t], rec[t], disk[cur[t]], work[cur[t]])
    BY <2>1, Inside
  <2>3. /\ r \in Record /\ r.state = rec[t].state /\ r.client = rec[t].client
        /\ r.immediate = rec[t].immediate 
    BY <2>2 DEF Coherent, Record
  <2> HIDE DEF r
  <2>4. Coherent("compensate", client[t], r, r, work[cur[t]])
    BY <2>2, <2>3 DEF Coherent, Truthful, Synced
  <2>5. Coherent("except", client[t], r, disk[cur[t]], work[cur[t]])
    BY <2>2, <2>3 DEF Coherent, Truthful, Synced
  <2>6. "compensate" \in Labels \ {"idle"} /\ "except" \in Labels \ {"idle"}
    BY DEF Labels
  <2>7. QED
    BY <2>1, <2>3, <2>4, <2>5, <2>6, SaveFieldsIInv
<1>14. ASSUME NEW t \in Threads, Except(t)
       PROVE  IInv'
  <2> DEFINE r == [rec[t] EXCEPT !.error = "exception"]
  <2>1. /\ pc[t] = "except"
        /\ SaveFields(t, r, "compensate late", "escape")
        /\ UNCHANGED <<locks, client, cur, work, cut, crashes>>
    BY <1>14 DEF Except, At
  <2>2. Coherent("except", client[t], rec[t], disk[cur[t]], work[cur[t]])
    BY <2>1, Inside
  <2>3. /\ r \in Record /\ r.state = rec[t].state /\ r.client = rec[t].client
        /\ r.immediate = rec[t].immediate /\ r.error = "exception"
    BY <2>2 DEF Coherent, Record
  <2> HIDE DEF r
  <2>4. Coherent("compensate late", client[t], r, r, work[cur[t]])
    BY <2>2, <2>3 DEF Coherent, Truthful, Synced
  <2>5. Coherent("escape", client[t], r, disk[cur[t]], work[cur[t]])
    BY <2>2, <2>3 DEF Coherent, Truthful, Synced
  <2>6. "compensate late" \in Labels \ {"idle"} /\ "escape" \in Labels \ {"idle"}
    BY DEF Labels
  <2>7. QED
    BY <2>1, <2>3, <2>4, <2>5, <2>6, SaveFieldsIInv
<1>15. ASSUME NEW t \in Threads, NEW c \in Clients, NEW e \in Executions,
              Acquire(t, c, e)
       PROVE  IInv'
  <2> USE <1>15, MarksAssumption DEF Acquire, At, Goto, Unused, IInv
  <2>1. TypeOK'
    BY DEF TypeOK, Labels
  <2>2. Ownership' /\ CutIsGone'
    BY DEF TypeOK, Ownership, CutIsGone
  <2>3. Coherent("create", c, rec[t], disk[e], work[e])
    BY RecordAssumption DEF Coherence, Coherent, Truthful, Synced
  <2>4. Coherence'
    <3>1. ASSUME NEW u \in Threads \ {t}, pc[u] # "idle"
          PROVE  Coherent(pc'[u], client'[u], rec'[u], disk'[cur'[u]], work'[cur'[u]])
      BY <3>1 DEF TypeOK, Coherence
    <3>2. Coherent(pc'[t], client'[t], rec'[t], disk'[cur'[t]], work'[cur'[t]])
      BY <2>3 DEF TypeOK
    <3>3. QED
      BY <3>1, <3>2 DEF TypeOK, Coherence
  <2>5. OpenHasWorker'
    BY DEF TypeOK, OpenHasWorker, Open, Ownership
  <2>6. QED
    BY <2>1, <2>2, <2>4, <2>5
<1>16. ASSUME NEW t \in Threads, NEW c \in Clients, NEW e \in Executions,
              Schedule(t, c, e)
       PROVE  IInv'
  <2> DEFINE r == New(c, FALSE)
  <2>1. r \in Record /\ ~r.immediate /\ r.state = "PENDING" /\ r.error = "none"
    BY NewType DEF New
  <2>2. /\ e \notin cut
        /\ disk' = [disk EXCEPT ![e] = r]
        /\ \A u \in Threads : cur[u] # e
        /\ UNCHANGED <<locks, pc, client, cur, rec, work, cut, faults, crashes>>
    BY <1>16 DEF Schedule, Unused, IInv, CutIsGone
  <2>3. work[e] = "none"
    BY <1>16 DEF Schedule, Unused, IInv, Coherence, Truthful
  <2> HIDE DEF r
  <2>4. TypeOK'
    BY <2>1, <2>2 DEF IInv, TypeOK
  <2>5. Ownership' /\ CutIsGone'
    BY <2>1, <2>2 DEF IInv, TypeOK, Ownership, CutIsGone
  <2>6. \A f \in Executions : Truthful(disk'[f], work'[f])
    BY <2>1, <2>2, <2>3 DEF IInv, TypeOK, Coherence, Truthful
  <2>7. Coherence'
    BY <2>2, <2>6 DEF IInv, TypeOK, Coherence, Ownership
  <2>8. OpenHasWorker'
    BY <2>1, <2>2 DEF IInv, TypeOK, OpenHasWorker, Open
  <2>9. QED
    BY <2>4, <2>5, <2>7, <2>8 DEF IInv
<1>17. ASSUME NEW t \in Threads, Leave(t) \/ Escape(t)
       PROVE  IInv'
  <2> USE MarksAssumption
  <2>1. /\ pc[t] # "idle"
        /\ ReleaseLock(t)
        /\ crashes' = crashes
        /\ \/ pc[t] = "leave" /\ cut' = cut
           \/ pc[t] = "escape" /\ cut' = cut \cup (Begun \cap {cur[t]})
    BY <1>17 DEF Leave, Escape, At, ReleaseLock
  <2>2. Coherent(pc[t], client[t], rec[t], disk[cur[t]], work[cur[t]])
    BY <2>1, Inside
  <2>3. cur[t] \in Executions /\ client[t] \in Clients /\ locks[client[t]] = t
    BY <2>1 DEF IInv, Ownership
  <2>4. TypeOK'
    BY <2>1, <2>3 DEF ReleaseLock, Goto, Now, Begun, IInv, TypeOK, Labels
  <2>5. Ownership' /\ CutIsGone'
    BY <2>1, <2>3 DEF ReleaseLock, Goto, Now, Begun, IInv, TypeOK, Ownership, CutIsGone
  <2>6. Coherence'
    BY <2>1, <2>3 DEF ReleaseLock, Goto, Now, IInv, TypeOK, Ownership, Coherence
  <2>7. disk[cur[t]] = NoRecord \/ disk[cur[t]].state \in Terminal \/ cur[t] \in cut'
    BY <2>1, <2>2, <2>3 DEF Coherent, Synced, Begun
  <2>8. OpenHasWorker'
    BY <2>1, <2>3, <2>7 DEF ReleaseLock, Goto, Now, IInv, TypeOK, OpenHasWorker, Open, Ownership
  <2>9. QED
    BY <2>4, <2>5, <2>6, <2>8 DEF IInv
<1>18. ASSUME Crash
       PROVE  IInv'
  <2> USE <1>18, MarksAssumption, BoundsAssumption DEF Crash, IInv
  <2>1. TypeOK'
    <3>1. work' \in [Executions -> Works] /\ cut' \subseteq Executions
      BY DEF TypeOK, Works, Begun
    <3>2. faults' \in 0..MaxFaults /\ crashes' \in 0..MaxCrashes
      BY DEF TypeOK
    <3>3. QED
      BY <3>1, <3>2 DEF TypeOK, Labels, Works
  <2>2. Ownership' /\ CutIsGone'
    BY DEF TypeOK, Ownership, CutIsGone, Begun
  <2>3. Coherence'
    BY DEF TypeOK, Coherence, Truthful
  <2>4. OpenHasWorker'
    BY DEF TypeOK, OpenHasWorker, Open, Begun
  <2>5. QED
    BY <2>1, <2>2, <2>3, <2>4
<1>19. CASE UNCHANGED vars
  BY <1>19 DEF vars, IInv, TypeOK, Ownership, CutIsGone, Coherence, OpenHasWorker, Open
<1>20. QED
  BY <1>1, <1>2, <1>3, <1>4, <1>5, <1>6, <1>7, <1>8, <1>9, <1>10, <1>11, <1>12,
     <1>13, <1>14, <1>15, <1>16, <1>17, <1>18, <1>19 DEF Next, Work

\* In every state of every behaviour the invariant holds.
THEOREM Invariance == Spec => []IInv
BY InitIInv, NextIInv, PTL DEF Spec

\* Type correctness.
THEOREM TypeCorrect == Spec => []TypeOK
BY Invariance, PTL DEF IInv

\* An execution recorded as under way is worked on by the thread that holds its
\* client's lock, unless an escaped exception or a crash cut it off.
THEOREM OpenIsWorkedOn == Spec => []OpenHasWorker
BY Invariance, PTL DEF IInv

\* So a client has at most one such execution.
THEOREM OneAtATime == Spec => []OneOpenPerClient
<1>1. IInv => OneOpenPerClient
  BY DEF IInv, TypeOK, OpenHasWorker, OneOpenPerClient
<1>2. QED
  BY <1>1, Invariance, PTL

\* The open execution of a client is that of the thread that holds its lock.
THEOREM OpenIsHeldAlways == Spec => []OpenIsHeld
BY OpenIsWorkedOn, OneAtATime, PTL DEF OpenIsHeld

\* Records never claim more than the workflow did.
THEOREM RecordsAreTruthful == Spec => []OutcomeIsTruthful
<1>1. IInv => OutcomeIsTruthful
  BY DEF IInv, Coherence, Truthful, OutcomeIsTruthful
<1>2. QED
  BY <1>1, Invariance, PTL

\* The caller is given the persisted record of an execution that has ended.
THEOREM ReturnedRecordIsPersisted == Spec => []ReturnedIsPersisted
<1>1. IInv => ReturnedIsPersisted
  <2> SUFFICES ASSUME IInv, NEW t \in Threads, pc[t] = "leave"
               PROVE  disk[cur[t]] = rec[t] /\ rec[t].state \in Terminal
    BY DEF ReturnedIsPersisted
  <2>1. QED
    BY Inside DEF Coherent, Synced
<1>2. QED
  BY <1>1, Invariance, PTL

-----------------------------------------------------------------------------
(***************************************************************************)
(* The records keep the promise of ExecutionLifecycle: Create begins an    *)
(* execution, every save that moves its state is an Advance, Escape and    *)
(* Crash abandon.                                                          *)
(***************************************************************************)
LEMMA InitRefines == Init => Promise!Init
BY DEF Init, Promise!Init

StateOf(d) == IF d = NoRecord THEN NoState ELSE d.state
OwnerOf(d) == IF d = NoRecord THEN NoClient
              ELSE IF d.immediate THEN d.client ELSE NoClient

\* A save of a thread's own record.
LEMMA SaveRefines ==
    ASSUME IInv, NEW t \in Threads, pc[t] # "idle",
           NEW d \in Record, d.client = client[t], d.immediate,
           disk' = [disk EXCEPT ![cur[t]] = d], cut' = cut,
           \/ disk[cur[t]] = NoRecord /\ d.state = "PENDING"
           \/ /\ disk[cur[t]] # NoRecord
              /\ \/ d.state = disk[cur[t]].state
                 \/ d.state \in Promise!Successors(disk[cur[t]].state)
    PROVE  Promise!Next \/ UNCHANGED Promise!vars
<1> DEFINE e == cur[t]
           c == client[t]
           state == [f \in Executions |-> StateOf(disk[f])]
           owner == [f \in Executions |-> OwnerOf(disk[f])]
           state1 == [f \in Executions |-> StateOf(disk'[f])]
           owner1 == [f \in Executions |-> OwnerOf(disk'[f])]
<1>1. /\ e \in Executions /\ c \in Clients /\ locks[c] = t /\ e \notin cut
      /\ Coherent(pc[t], c, rec[t], disk[e], work[e])
  BY Inside DEF IInv, Ownership, CutIsGone
<1>2. /\ disk'[e] = d
      /\ \A f \in Executions \ {e} : disk'[f] = disk[f]
  BY <1>1 DEF IInv, TypeOK
<1>3. state1 = [state EXCEPT ![e] = d.state]
  <2>1. StateOf(disk'[e]) = d.state
    BY <1>2, RecordAssumption DEF StateOf
  <2>2. \A f \in Executions \ {e} : StateOf(disk'[f]) = StateOf(disk[f])
    BY <1>2
  <2>3. QED
    BY <2>1, <2>2, <1>1
<1>4. owner1 = [owner EXCEPT ![e] = c]
  <2>1. OwnerOf(disk'[e]) = c
    BY <1>2, RecordAssumption DEF OwnerOf
  <2>2. \A f \in Executions \ {e} : OwnerOf(disk'[f]) = OwnerOf(disk[f])
    BY <1>2
  <2>3. QED
    BY <2>1, <2>2, <1>1
<1>5. CASE disk[e] = NoRecord /\ d.state = "PENDING"
  <2>1. Promise!Live(c) = {}
    BY <1>1, <1>5, MarksAssumption
       DEF Promise!Live, IInv, OpenHasWorker, Open, Terminal
  <2>2. PICK x \in Executions, y \in Clients : x = e /\ y = c
    BY <1>1
  <2>3. Promise!Begin(x, y)
    BY <2>1, <2>2, <1>1, <1>3, <1>4, <1>5 DEF Promise!Begin, StateOf, OwnerOf
  <2>4. QED
    BY <2>3 DEF Promise!Next
<1>6. CASE disk[e] # NoRecord
  <2>1. c # NoClient /\ disk[e].client = c /\ disk[e].immediate
    BY <1>1, <1>6, MarksAssumption DEF Coherent
  <2>2. owner[e] = c /\ state[e] = disk[e].state
    BY <2>1, <1>1, <1>6 DEF OwnerOf, StateOf
  <2>3. owner1 = owner
    BY <2>2, <1>1, <1>4
  <2>4. CASE d.state = disk[e].state
    <3>1. state1 = state
      BY <2>2, <2>4, <1>1, <1>3
    <3>2. QED
      BY <2>3, <3>1 DEF Promise!vars, StateOf, OwnerOf
  <2>5. CASE d.state \in Promise!Successors(disk[e].state)
    <3>1. Promise!Advance(e, d.state)
      BY <2>1, <2>2, <2>3, <2>5, <1>1, <1>3 DEF Promise!Advance, StateOf, OwnerOf
    <3>2. d.state \in Promise!States
      BY DEF Record, States
    <3>3. QED
      BY <3>1, <3>2, <1>1 DEF Promise!Next
  <2>6. QED
    BY <2>4, <2>5, <1>6
<1>7. QED
  BY <1>5, <1>6

LEMMA StutterRefines ==
    ASSUME UNCHANGED <<disk, cut>>
    PROVE  UNCHANGED Promise!vars
BY DEF Promise!vars

LEMMA SaveFieldsRefines ==
    ASSUME IInv, NEW t \in Threads, pc[t] # "idle",
           NEW r \in Record, r.client = client[t], r.immediate,
           NEW done, NEW raised, SaveFields(t, r, done, raised), cut' = cut,
           \/ disk[cur[t]] = NoRecord /\ r.state = "PENDING"
           \/ /\ disk[cur[t]] # NoRecord
              /\ \/ r.state = disk[cur[t]].state
                 \/ r.state \in Promise!Successors(disk[cur[t]].state)
    PROVE  Promise!Next \/ UNCHANGED Promise!vars
<1>1. CASE Saved(t, r)
  BY <1>1, SaveRefines DEF Saved
<1>2. CASE SaveRaises
  BY <1>2, StutterRefines DEF SaveRaises
<1>3. QED
  BY <1>1, <1>2 DEF SaveFields

LEMMA TransitionRefines ==
    ASSUME IInv, NEW t \in Threads, pc[t] \in Synced, NEW s \in States,
           NEW done, NEW raised, Transition(t, s, done, raised), cut' = cut
    PROVE  Promise!Next \/ UNCHANGED Promise!vars
<1> USE RecordAssumption
<1>1. pc[t] # "idle"
  BY DEF Synced
<1>2. /\ disk[cur[t]] = rec[t] /\ rec[t] \in Record
      /\ rec[t].client = client[t] /\ rec[t].immediate
  BY <1>1, Inside DEF Coherent, Synced
<1>3. CASE s \notin Promise!Successors(rec[t].state)
  BY <1>3, StutterRefines DEF Transition
<1>4. CASE s \in Promise!Successors(rec[t].state)
  <2>1. SaveFields(t, Moved(rec[t], s), done, raised)
    BY <1>4 DEF Transition, SaveFields
  <2>2. QED
    BY <2>1, <1>1, <1>2, <1>4, MovedType, SaveFieldsRefines
<1>5. QED
  BY <1>3, <1>4

LEMMA StepRefines == IInv /\ [Next]_vars => [Promise!Next]_(Promise!vars)
<1> SUFFICES ASSUME IInv, [Next]_vars
             PROVE  Promise!Next \/ UNCHANGED Promise!vars
  OBVIOUS
<1> USE Constants, RecordAssumption
<1>1. ASSUME NEW t \in Threads,
             \/ Start(t) \/ Resume(t) \/ Complete(t) \/ Compensate(t) \/ Fail(t)
             \/ CompensateLate(t) \/ FailLate(t)
      PROVE  Promise!Next \/ UNCHANGED Promise!vars
  <2>1. /\ pc[t] \in Synced
        /\ cut' = cut
        /\ \E s \in States, done, raised \in Labels : Transition(t, s, done, raised)
    BY <1>1 DEF Start, Resume, Complete, Compensate, Fail, CompensateLate, FailLate,
       At, Synced, Labels
  <2>2. QED
    BY <2>1, TransitionRefines
<1>2. ASSUME NEW t \in Threads, Create(t)
      PROVE  Promise!Next \/ UNCHANGED Promise!vars
  <2>1. /\ pc[t] = "create"
        /\ SaveFields(t, New(client[t], TRUE), "start", "escape")
        /\ cut' = cut
    BY <1>2 DEF Create, At
  <2>2. client[t] \in Clients /\ disk[cur[t]] = NoRecord
    BY <2>1, Inside DEF Coherent
  <2>3. /\ New(client[t], TRUE) \in Record
        /\ New(client[t], TRUE).client = client[t]
        /\ New(client[t], TRUE).immediate
        /\ New(client[t], TRUE).state = "PENDING"
    BY <2>2, NewType DEF New
  <2>4. QED
    BY <2>1, <2>2, <2>3, SaveFieldsRefines
<1>3. ASSUME NEW t \in Threads, Resolve(t)
      PROVE  Promise!Next \/ UNCHANGED Promise!vars
  <2>1. pc[t] = "resolve" /\ cut' = cut
    BY <1>3 DEF Resolve, At
  <2>2. CASE UNCHANGED disk
    BY <2>1, <2>2, StutterRefines
  <2>3. CASE Transition(t, "WAITING_EXTERNAL", "call", "except")
    BY <2>1, <2>3, TransitionRefines DEF Synced
  <2>4. QED
    BY <1>3, <2>2, <2>3 DEF Resolve
<1>4. ASSUME NEW t \in Threads, Call(t) \/ WorkflowEnds(t)
      PROVE  Promise!Next \/ UNCHANGED Promise!vars
  BY <1>4, StutterRefines DEF Call, WorkflowEnds, SaveRaises
<1>5. ASSUME NEW t \in Threads, Link(t) \/ RecordFailure(t) \/ Except(t)
      PROVE  Promise!Next \/ UNCHANGED Promise!vars
  <2>1. /\ pc[t] \in {"link", "record", "except"}
        /\ cut' = cut
        /\ \E r \in {[rec[t] EXCEPT !.linked = TRUE], [rec[t] EXCEPT !.error = "step"],
                     [rec[t] EXCEPT !.error = "exception"]}, done, raised \in Labels :
              SaveFields(t, r, done, raised)
    BY <1>5 DEF Link, RecordFailure, Except, At, AfterLink, Labels
  <2>2. /\ rec[t] \in Record /\ rec[t].client = client[t] /\ rec[t].immediate
        /\ disk[cur[t]] # NoRecord
        /\ \/ rec[t].state = disk[cur[t]].state
           \/ rec[t].state \in Promise!Successors(disk[cur[t]].state)
    <3>1. /\ Coherent(pc[t], client[t], rec[t], disk[cur[t]], work[cur[t]])
          /\ pc[t] = "except" \/ pc[t] \in Synced \ {"create"}
      BY <2>1, Inside DEF Synced
    <3>2. QED
      BY <2>1, <3>1 DEF Coherent
  <2>3. PICK r \in Record, done \in Labels, raised \in Labels :
          /\ SaveFields(t, r, done, raised)
          /\ r.client = rec[t].client /\ r.immediate = rec[t].immediate
          /\ r.state = rec[t].state
    BY <2>1, <2>2 DEF Record
  <2>4. QED
    BY <2>1, <2>2, <2>3, SaveFieldsRefines
<1>6. ASSUME NEW t \in Threads, NEW c \in Clients, NEW e \in Executions,
             Acquire(t, c, e)
      PROVE  UNCHANGED Promise!vars
  BY <1>6, StutterRefines DEF Acquire
<1>7. ASSUME NEW t \in Threads, NEW c \in Clients, NEW e \in Executions,
             Schedule(t, c, e)
      PROVE  Promise!Next
  <2>1. Promise!Defer(e)
    BY <1>7, NewType DEF Schedule, Unused, New, IInv, TypeOK, Promise!Defer
  <2>2. QED
    BY <2>1 DEF Promise!Next
<1>8. ASSUME NEW t \in Threads, Leave(t)
      PROVE  UNCHANGED Promise!vars
  BY <1>8, StutterRefines DEF Leave, ReleaseLock
<1>9. ASSUME NEW gone \in SUBSET Begun, cut' = cut \cup gone, UNCHANGED disk
      PROVE  Promise!Next
  <2>1. \A e \in Begun : /\ e \in Executions /\ disk[e] # NoRecord
                         /\ disk[e].immediate /\ disk[e].client # NoClient
    <3> SUFFICES ASSUME NEW e \in Executions, disk[e] # NoRecord,
                        NEW t \in Threads, cur[t] = e
                 PROVE  disk[e].immediate /\ disk[e].client # NoClient
      BY DEF Begun
    <3>1. pc[t] # "idle"
      BY MarksAssumption DEF IInv, Ownership
    <3>2. /\ Coherent(pc[t], client[t], rec[t], disk[e], work[e])
          /\ client[t] \in Clients
      BY <3>1, Inside
    <3>3. QED
      BY <3>2, MarksAssumption DEF Coherent
  <2>2. Promise!Abandon
    BY <1>9, <2>1 DEF Promise!Abandon
  <2>3. QED
    BY <2>2 DEF Promise!Next
<1>10. ASSUME NEW t \in Threads, Escape(t)
       PROVE  Promise!Next
  BY <1>10, <1>9 DEF Escape, ReleaseLock
<1>11. ASSUME Crash
       PROVE  Promise!Next
  BY <1>11, <1>9 DEF Crash
<1>12. CASE UNCHANGED vars
  BY <1>12, StutterRefines DEF vars
<1>13. QED
  BY <1>1, <1>2, <1>3, <1>4, <1>5, <1>6, <1>7, <1>8, <1>10, <1>11, <1>12
     DEF Next, Work

\* Every behaviour of the records is one the lifecycle allows.
THEOREM RecordsImplementLifecycle == Spec => ImplementsLifecycle
BY InitRefines, StepRefines, Invariance, PTL
   DEF Spec, ImplementsLifecycle, Promise!Spec

-----------------------------------------------------------------------------
(***************************************************************************)
(* What the records say: the transitions they list are legal, and as long  *)
(* as no save has raised none of them reports a failure of work that was   *)
(* done.  The invariant says of each label in which states the object can  *)
(* be there while nothing has raised.                                      *)
(***************************************************************************)
\* The list of transitions of a record is a path to its state.
Legal(r) ==
    /\ Len(r.path) >= 1
    /\ r.path[1] = "PENDING"
    /\ r.path[Len(r.path)] = r.state
    /\ \A n \in 1..(Len(r.path) - 1) : r.path[n + 1] \in Promise!Successors(r.path[n])

\* A record that reports no failure of work that was done.
NoFalseAlarm(d, w) ==
    d # NoRecord =>
        /\ d.state = "FAILED" => w # "completed"
        /\ d.state = "COMPLETED" => d.error = "none"

\* The object at label l, and the workflow, while no save has raised.
Undisturbed(l, r, w) ==
    /\ l = "start" => r.state = "PENDING"
    /\ l \in {"resolve", "complete"} => r.state = "RUNNING"
    /\ l = "resume" => r.state = "WAITING_EXTERNAL"
    /\ l \in {"call", "inflight", "link", "record", "compensate", "except", "compensate late"}
          => r.state \in {"RUNNING", "WAITING_EXTERNAL"}
    /\ l \in {"fail", "fail late"} => r.state = "COMPENSATING"
    /\ l \in {"start", "resolve", "call", "inflight", "link", "resume", "complete"}
          => r.error = "none"
    /\ l \in {"except", "compensate late", "fail late"} => w # "completed"

Sound(d, w, f) ==
    /\ d # NoRecord => Legal(d)
    /\ f = 0 => NoFalseAlarm(d, w)

Good(l, r, w, f) ==
    /\ l # "create" => Legal(r)
    /\ f = 0 => Undisturbed(l, r, w)

RInv ==
    /\ \A e \in Executions : Sound(disk[e], work[e], faults)
    /\ \A t \in Threads : pc[t] # "idle" => Good(pc[t], rec[t], work[cur[t]], faults)

-----------------------------------------------------------------------------
\* The successors in the table.
LEMMA Table ==
    /\ "RUNNING" \in Promise!Successors("PENDING")
    /\ "RUNNING" \in Promise!Successors("WAITING_EXTERNAL")
    /\ \A s \in {"WAITING_EXTERNAL", "COMPLETED", "COMPENSATING"} :
          s \in Promise!Successors("RUNNING")
    /\ "COMPENSATING" \in Promise!Successors("WAITING_EXTERNAL")
    /\ "FAILED" \in Promise!Successors("COMPENSATING")
BY DEF Promise!Successors

LEMMA NewLegal ==
    ASSUME NEW c, NEW b
    PROVE  Legal(New(c, b)) /\ New(c, b).state = "PENDING" /\ New(c, b).error = "none"
BY DEF Legal, New

\* A legal transition keeps the path legal.
LEMMA MovedLegal ==
    ASSUME NEW r \in Record, Legal(r), NEW s \in States, s \in Promise!Successors(r.state)
    PROVE  Legal(Moved(r, s))
<1> DEFINE p == r.path
           q == Append(r.path, s)
<1>1. p \in Seq(States)
  BY DEF Record
<1>2. /\ Len(q) = Len(p) + 1
      /\ \A n \in 1..Len(p) : q[n] = p[n]
      /\ q[Len(p) + 1] = s
      /\ Len(p) \in Nat
  BY <1>1
<1>3. Moved(r, s).path = q /\ Moved(r, s).state = s
  <2>1. Moved(r, s) = [r EXCEPT !.state = s, !.path = q]
    BY DEF Moved
  <2> HIDE DEF q
  <2>2. QED
    BY <2>1 DEF Record
<1>4. /\ Len(p) >= 1 /\ p[1] = "PENDING" /\ p[Len(p)] = r.state
      /\ \A n \in 1..(Len(p) - 1) : p[n + 1] \in Promise!Successors(p[n])
  BY DEF Legal
<1> HIDE DEF p, q
<1>5. \A n \in 1..(Len(q) - 1) : q[n + 1] \in Promise!Successors(q[n])
  <2> SUFFICES ASSUME NEW n \in 1..(Len(q) - 1)
               PROVE  q[n + 1] \in Promise!Successors(q[n])
    OBVIOUS
  <2>1. CASE n = Len(p)
    BY <2>1, <1>2, <1>4
  <2>2. CASE n # Len(p)
    <3>1. n \in 1..(Len(p) - 1) /\ n + 1 \in 1..Len(p) /\ n \in 1..Len(p)
      BY <2>2, <1>2
    <3>2. QED
      BY <3>1, <1>2, <1>4
  <2>3. QED
    BY <2>1, <2>2
<1>6. QED
  BY <1>2, <1>3, <1>4, <1>5 DEF Legal

LEMMA InitRInv == Init => RInv
BY DEF Init, RInv, Sound, NoFalseAlarm

-----------------------------------------------------------------------------
\* A step of one thread inside execute.
RStep(t, l, r, d, w) ==
    /\ l # "idle"
    /\ pc' = [pc EXCEPT ![t] = l]
    /\ rec' = [rec EXCEPT ![t] = r]
    /\ disk' = [disk EXCEPT ![cur[t]] = d]
    /\ work' = [work EXCEPT ![cur[t]] = w]
    /\ cur' = cur
    /\ faults' \in Nat /\ faults <= faults'
    /\ Sound(d, w, faults')
    /\ Good(l, r, w, faults')

LEMMA RStepRInv ==
    ASSUME IInv, RInv, NEW t \in Threads, pc[t] # "idle",
           NEW l, NEW r, NEW d, NEW w, RStep(t, l, r, d, w)
    PROVE  RInv'
<1> USE DEF RStep, IInv, TypeOK
<1>1. cur[t] \in Executions
  BY DEF Ownership
<1>2. faults' = 0 => faults = 0
  BY BoundsAssumption
<1>3. \A e \in Executions : Sound(disk'[e], work'[e], faults')
  <2> SUFFICES ASSUME NEW e \in Executions PROVE Sound(disk'[e], work'[e], faults')
    OBVIOUS
  <2>1. CASE e = cur[t]
    BY <2>1
  <2>2. CASE e # cur[t]
    BY <2>2, <1>2 DEF RInv, Sound
  <2>3. QED
    BY <2>1, <2>2
<1>4. ASSUME NEW u \in Threads, pc'[u] # "idle"
      PROVE  Good(pc'[u], rec'[u], work'[cur'[u]], faults')
  <2>1. CASE u = t
    BY <2>1, <1>1
  <2>2. CASE u # t
    <3>1. pc'[u] = pc[u] /\ rec'[u] = rec[u] /\ cur[u] # cur[t] /\ cur[u] \in Executions
      BY <2>2, <1>4 DEF Ownership
    <3>2. work'[cur'[u]] = work[cur[u]]
      BY <3>1, <1>1
    <3>3. Good(pc[u], rec[u], work[cur[u]], faults)
      BY <3>1, <1>4 DEF RInv
    <3>4. QED
      BY <3>1, <3>2, <3>3, <1>2 DEF Good
  <2>3. QED
    BY <2>1, <2>2
<1>5. QED
  BY <1>3, <1>4 DEF RInv

\* What a thread inside execute has.
LEMMA RInside ==
    ASSUME IInv, RInv, NEW t \in Threads, pc[t] # "idle"
    PROVE  /\ Good(pc[t], rec[t], work[cur[t]], faults)
           /\ Sound(disk[cur[t]], work[cur[t]], faults)
           /\ faults \in Nat
BY Inside, BoundsAssumption DEF RInv, IInv, TypeOK

\* A save that may raise: what it saves is sound, and where it goes on is good.
LEMMA SaveFieldsRInv ==
    ASSUME IInv, RInv, NEW t \in Threads, pc[t] # "idle",
           NEW r, NEW done, NEW raised, done # "idle", raised # "idle",
           SaveFields(t, r, done, raised), UNCHANGED <<cur, work>>,
           Legal(r), Sound(r, work[cur[t]], faults), Good(done, r, work[cur[t]], faults)
    PROVE  RInv'
<1> USE Inside, RInside DEF SaveFields, Now, Goto, IInv, TypeOK
<1>1. CASE Saved(t, r) /\ Goto(t, done)
  <2>1. RStep(t, done, r, r, work[cur[t]])
    BY <1>1 DEF RStep, Saved
  <2>2. QED
    BY <2>1, RStepRInv
<1>2. CASE SaveRaises /\ Goto(t, raised)
  <2>1. RStep(t, raised, r, disk[cur[t]], work[cur[t]])
    BY <1>2 DEF RStep, SaveRaises, Sound, Good
  <2>2. QED
    BY <2>1, RStepRInv
<1>3. QED
  BY <1>1, <1>2

\* A change of state, which the table allows while nothing has raised.
LEMMA TransitionRInv ==
    ASSUME IInv, RInv, NEW t \in Threads, pc[t] \notin {"idle", "create"},
           NEW s \in States, NEW done, NEW raised,
           done \notin {"idle", "create"}, raised \notin {"idle", "create"},
           Transition(t, s, done, raised), UNCHANGED <<cur, work>>,
           faults = 0 =>
              /\ s \in Promise!Successors(rec[t].state)
              /\ s = "FAILED" => work[cur[t]] # "completed"
              /\ s = "COMPLETED" => rec[t].error = "none"
              /\ \A m : (m.state = s /\ m.error = rec[t].error) =>
                    Undisturbed(done, m, work[cur[t]])
    PROVE  RInv'
<1>1. rec[t] \in Record /\ Legal(rec[t])
  BY Inside, RInside DEF Coherent, Good
<1>2. CASE s \notin Promise!Successors(rec[t].state)
  <2>1. faults # 0
    BY <1>2
  <2>2. RStep(t, raised, rec[t], disk[cur[t]], work[cur[t]])
    BY <1>1, <1>2, <2>1, Inside, RInside
       DEF RStep, Transition, Goto, Good, IInv, TypeOK
  <2>3. QED
    BY <2>2, RStepRInv
<1>3. CASE s \in Promise!Successors(rec[t].state)
  <2> DEFINE m == Moved(rec[t], s)
  <2>1. /\ SaveFields(t, m, done, raised)
    BY <1>3 DEF Transition, SaveFields
  <2>2. Legal(m) /\ m.state = s /\ m.error = rec[t].error
    BY <1>1, <1>3, MovedType, MovedLegal
  <2> HIDE DEF m
  <2>3. faults = 0 => NoFalseAlarm(m, work[cur[t]])
    BY <2>2 DEF NoFalseAlarm
  <2>4. faults = 0 => Undisturbed(done, m, work[cur[t]])
    BY <2>2
  <2>5. QED
    BY <2>1, <2>2, <2>3, <2>4, SaveFieldsRInv DEF Sound, Good
<1>4. QED
  BY <1>2, <1>3

-----------------------------------------------------------------------------
\* Changes of state.
LEMMA MoveRInv ==
    ASSUME IInv, RInv, NEW t \in Threads,
           \/ Start(t) \/ Resume(t) \/ Complete(t) \/ Compensate(t) \/ Fail(t)
           \/ CompensateLate(t) \/ FailLate(t)
    PROVE  RInv'
<1> DEFINE r == rec[t]
           w == work[cur[t]]
<1>1. pc[t] # "idle" /\ UNCHANGED <<cur, work>>
  BY DEF Start, Resume, Complete, Compensate, Fail, CompensateLate, FailLate, At
<1>2. /\ faults = 0 => Undisturbed(pc[t], r, w)
      /\ Coherent(pc[t], client[t], r, disk[cur[t]], w)
  BY <1>1, Inside, RInside DEF Good
<1> HIDE DEF r, w
<1>3. CASE Start(t)
  <2>1. pc[t] = "start" /\ Transition(t, "RUNNING", "resolve", "escape")
    BY <1>3 DEF Start, At
  <2>2. faults = 0 => r.state = "PENDING" /\ r.error = "none"
    BY <2>1, <1>2 DEF Undisturbed
  <2>3. \A m : (m.state = "RUNNING" /\ m.error = "none") => Undisturbed("resolve", m, w)
    BY DEF Undisturbed
  <2>4. QED
    BY <1>1, <2>1, <2>2, <2>3, Table, Constants, TransitionRInv DEF r, w
<1>4. CASE Resume(t)
  <2>1. pc[t] = "resume" /\ Transition(t, "RUNNING", "complete", "except")
    BY <1>4 DEF Resume, At
  <2>2. faults = 0 => r.state = "WAITING_EXTERNAL" /\ r.error = "none"
    BY <2>1, <1>2 DEF Undisturbed
  <2>3. \A m : (m.state = "RUNNING" /\ m.error = "none") => Undisturbed("complete", m, w)
    BY DEF Undisturbed
  <2>4. QED
    BY <1>1, <2>1, <2>2, <2>3, Table, Constants, TransitionRInv DEF r, w
<1>5. CASE Complete(t)
  <2>1. pc[t] = "complete" /\ Transition(t, "COMPLETED", "leave", "except")
    BY <1>5 DEF Complete, At
  <2>2. faults = 0 => r.state = "RUNNING" /\ r.error = "none"
    BY <2>1, <1>2 DEF Undisturbed
  <2>3. \A m : Undisturbed("leave", m, w)
    BY DEF Undisturbed
  <2>4. QED
    BY <1>1, <2>1, <2>2, <2>3, Table, Constants, TransitionRInv DEF r, w
<1>6. CASE Compensate(t)
  <2>1. pc[t] = "compensate" /\ Transition(t, "COMPENSATING", "fail", "except")
    BY <1>6 DEF Compensate, At
  <2>2. faults = 0 => r.state \in {"RUNNING", "WAITING_EXTERNAL"}
    BY <2>1, <1>2 DEF Undisturbed
  <2>3. \A m : m.state = "COMPENSATING" => Undisturbed("fail", m, w)
    BY DEF Undisturbed
  <2>4. QED
    BY <1>1, <2>1, <2>2, <2>3, Table, Constants, TransitionRInv DEF r, w
<1>7. CASE Fail(t)
  <2>1. pc[t] = "fail" /\ Transition(t, "FAILED", "leave", "except")
    BY <1>7 DEF Fail, At
  <2>2. w = "failed" /\ (faults = 0 => r.state = "COMPENSATING")
    BY <2>1, <1>2 DEF Undisturbed, Coherent
  <2>3. \A m : Undisturbed("leave", m, w)
    BY DEF Undisturbed
  <2>4. QED
    BY <1>1, <2>1, <2>2, <2>3, Table, Constants, TransitionRInv DEF r, w
<1>8. CASE CompensateLate(t)
  <2> DEFINE l == "fail late"
  <2>1. pc[t] = "compensate late" /\ Transition(t, "COMPENSATING", l, "escape")
    BY <1>8 DEF CompensateLate, At
  <2>2. faults = 0 => r.state \in {"RUNNING", "WAITING_EXTERNAL"} /\ w # "completed"
    BY <2>1, <1>2 DEF Undisturbed
  <2>3. w # "completed" =>
          \A m : m.state = "COMPENSATING" => Undisturbed(l, m, w)
    BY DEF Undisturbed
  <2>4. /\ pc[t] \notin {"idle", "create"} /\ l \notin {"idle", "create"}
        /\ Transition(t, "COMPENSATING", l, "escape")
    BY <2>1
  <2> HIDE DEF l
  <2>5. faults = 0 =>
          /\ "COMPENSATING" \in Promise!Successors(rec[t].state)
          /\ \A m : (m.state = "COMPENSATING" /\ m.error = rec[t].error) =>
                Undisturbed(l, m, work[cur[t]])
    BY <2>2, <2>3, Table DEF r, w
  <2>6. QED
    BY <1>1, <2>4, <2>5, Constants, TransitionRInv
<1>9. CASE FailLate(t)
  <2>1. pc[t] = "fail late" /\ Transition(t, "FAILED", "leave", "escape")
    BY <1>9 DEF FailLate, At
  <2>2. faults = 0 => r.state = "COMPENSATING" /\ w # "completed"
    BY <2>1, <1>2 DEF Undisturbed
  <2>3. \A m : Undisturbed("leave", m, w)
    BY DEF Undisturbed
  <2>4. faults = 0 =>
          /\ "FAILED" \in Promise!Successors(rec[t].state)
          /\ work[cur[t]] # "completed"
          /\ \A m : (m.state = "FAILED" /\ m.error = rec[t].error) =>
                Undisturbed("leave", m, work[cur[t]])
    BY <2>2, <2>3, Table DEF r, w
  <2>5. "FAILED" \in States
    BY Constants
  <2>6. /\ pc[t] \notin {"idle", "create"}
        /\ Transition(t, "FAILED", "leave", "escape")
    BY <2>1
  <2>7. QED
    BY <1>1, <2>4, <2>5, <2>6, TransitionRInv
<1>10. QED
  BY <1>3, <1>4, <1>5, <1>6, <1>7, <1>8, <1>9

\* Saves that leave the state alone.
LEMMA SaveRInv ==
    ASSUME IInv, RInv, NEW t \in Threads,
           Create(t) \/ Link(t) \/ RecordFailure(t) \/ Except(t)
    PROVE  RInv'
<1> DEFINE r == rec[t]
           w == work[cur[t]]
<1>1. pc[t] # "idle" /\ UNCHANGED <<cur, work>>
  BY DEF Create, Link, RecordFailure, Except, At
<1>2. /\ Good(pc[t], r, w, faults)
      /\ Coherent(pc[t], client[t], r, disk[cur[t]], w)
  BY <1>1, Inside, RInside
<1> HIDE DEF r, w
<1>3. CASE Create(t)
  <2> DEFINE m == New(client[t], TRUE)
  <2>1. SaveFields(t, m, "start", "escape")
    BY <1>3 DEF Create
  <2>2. Legal(m) /\ m.state = "PENDING" /\ m.error = "none"
    BY NewLegal
  <2> HIDE DEF m
  <2>3. Sound(m, w, faults) /\ Good("start", m, w, faults)
    BY <2>2 DEF Sound, NoFalseAlarm, Good, Undisturbed
  <2>4. QED
    BY <1>1, <2>1, <2>2, <2>3, SaveFieldsRInv DEF w
<1>4. CASE Link(t)
  <2> DEFINE m == [r EXCEPT !.linked = TRUE]
  <2>1. pc[t] = "link" /\ SaveFields(t, m, AfterLink(t), "except")
    BY <1>4 DEF Link, At, r
  <2>2. r \in Record /\ w \in {"completed", "failed"}
    BY <2>1, <1>2 DEF Coherent
  <2>3. m.state = r.state /\ m.path = r.path /\ m.error = r.error
    BY <2>2 DEF Record
  <2>4. Legal(m)
    BY <2>1, <2>3, <1>2 DEF Legal, Good
  <2>5. faults = 0 => r.state \in {"RUNNING", "WAITING_EXTERNAL"} /\ r.error = "none"
    BY <2>1, <1>2 DEF Good, Undisturbed
  <2>6. AfterLink(t) =
          IF w = "failed" THEN "record"
          ELSE IF r.state = "WAITING_EXTERNAL" THEN "resume" ELSE "complete"
    BY DEF AfterLink, r, w
  <2> HIDE DEF m
  <2>7. Sound(m, w, faults)
    BY <2>3, <2>4, <2>5 DEF Sound, NoFalseAlarm
  <2>8. faults = 0 => Undisturbed(AfterLink(t), m, w)
    BY <2>3, <2>5, <2>6 DEF Undisturbed
  <2>9. QED
    BY <1>1, <2>1, <2>4, <2>6, <2>7, <2>8, SaveFieldsRInv DEF Good, w
<1>5. CASE RecordFailure(t)
  <2> DEFINE m == [r EXCEPT !.error = "step"]
  <2>1. pc[t] = "record" /\ SaveFields(t, m, "compensate", "except")
    BY <1>5 DEF RecordFailure, At, r
  <2>2. m.state = r.state /\ m.path = r.path
    BY <2>1, <1>2 DEF Coherent, Record
  <2>3. Legal(m)
    BY <2>1, <2>2, <1>2 DEF Legal, Good
  <2>4. faults = 0 => r.state \in {"RUNNING", "WAITING_EXTERNAL"}
    BY <2>1, <1>2 DEF Good, Undisturbed
  <2> HIDE DEF m
  <2>5. Sound(m, w, faults) /\ Good("compensate", m, w, faults)
    BY <2>2, <2>3, <2>4 DEF Sound, NoFalseAlarm, Good, Undisturbed
  <2>6. QED
    BY <1>1, <2>1, <2>3, <2>5, SaveFieldsRInv DEF w
<1>6. CASE Except(t)
  <2> DEFINE m == [r EXCEPT !.error = "exception"]
  <2>1. pc[t] = "except" /\ SaveFields(t, m, "compensate late", "escape")
    BY <1>6 DEF Except, At, r
  <2>2. m.state = r.state /\ m.path = r.path
    BY <2>1, <1>2 DEF Coherent, Record
  <2>3. Legal(m)
    BY <2>1, <2>2, <1>2 DEF Legal, Good
  <2>4. faults = 0 => r.state \in {"RUNNING", "WAITING_EXTERNAL"} /\ w # "completed"
    BY <2>1, <1>2 DEF Good, Undisturbed
  <2> HIDE DEF m
  <2>5. Sound(m, w, faults) /\ Good("compensate late", m, w, faults)
    BY <2>2, <2>3, <2>4 DEF Sound, NoFalseAlarm, Good, Undisturbed
  <2>6. QED
    BY <1>1, <2>1, <2>3, <2>5, SaveFieldsRInv DEF w
<1>7. QED
  BY <1>3, <1>4, <1>5, <1>6

\* The template is looked up and the workflow called.
LEMMA RunRInv ==
    ASSUME IInv, RInv, NEW t \in Threads, Resolve(t) \/ Call(t) \/ WorkflowEnds(t)
    PROVE  RInv'
<1> USE DEF At
<1> DEFINE r == rec[t]
           d == disk[cur[t]]
           w == work[cur[t]]
<1>1. pc[t] \in {"resolve", "call", "inflight"} /\ cur' = cur /\ rec[t] = r
  BY DEF Resolve, Call, WorkflowEnds
<1>2. /\ Good(pc[t], r, w, faults) /\ Sound(d, w, faults) /\ faults \in Nat
      /\ Coherent(pc[t], client[t], r, d, w)
  BY <1>1, Inside, RInside
<1>3. d = r /\ Legal(r) /\ (faults = 0 => Undisturbed(pc[t], r, w))
  BY <1>1, <1>2 DEF Coherent, Synced, Good
<1>4. /\ disk = [disk EXCEPT ![cur[t]] = d] /\ rec = [rec EXCEPT ![t] = r]
      /\ work = [work EXCEPT ![cur[t]] = w]
  BY DEF IInv, TypeOK
<1>5. faults = 0 => r.state \in {"RUNNING", "WAITING_EXTERNAL"} /\ r.error = "none"
  BY <1>1, <1>3 DEF Undisturbed
<1> HIDE DEF r, d, w
<1>6. \A v : Sound(d, v, faults)
  BY <1>3, <1>5 DEF Sound, NoFalseAlarm
<1>7. ASSUME NEW l \in {"except", "call"}, Goto(t, l),
             UNCHANGED <<disk, rec, work, faults>>,
             w = "none"
      PROVE  RInv'
  <2>1. Good(l, r, w, faults)
    BY <1>3, <1>5, <1>7 DEF Good, Undisturbed
  <2>2. RStep(t, l, r, d, w)
    BY <2>1, <1>1, <1>2, <1>4, <1>7 DEF RStep, Goto
  <2>3. QED
    BY <2>2, <1>1, RStepRInv
<1>8. CASE Resolve(t)
  <2>1. pc[t] = "resolve" /\ UNCHANGED <<cur, work>>
    BY <1>8 DEF Resolve
  <2>2. w = "none"
    BY <2>1, <1>2 DEF Coherent
  <2>3. CASE (Goto(t, "except") \/ Goto(t, "call")) /\ UNCHANGED <<disk, rec, faults>>
    BY <2>1, <2>2, <2>3, <1>7
  <2>4. CASE Transition(t, "WAITING_EXTERNAL", "call", "except")
    <3>1. faults = 0 => r.state = "RUNNING" /\ r.error = "none"
      BY <2>1, <1>3 DEF Undisturbed
    <3>2. \A m : (m.state = "WAITING_EXTERNAL" /\ m.error = "none")
                    => Undisturbed("call", m, w)
      BY DEF Undisturbed
    <3>3. QED
      BY <2>1, <2>4, <3>1, <3>2, Table, Constants, TransitionRInv DEF r, w
  <2>5. QED
    BY <1>8, <2>3, <2>4 DEF Resolve
<1>9. CASE Call(t)
  <2>1. pc[t] = "call" /\ UNCHANGED <<disk, cur, rec, faults>>
    BY <1>9 DEF Call
  <2>2. w = "none"
    BY <2>1, <1>2 DEF Coherent
  <2>3. CASE Goto(t, "except") /\ UNCHANGED work
    BY <2>1, <2>2, <2>3, <1>7
  <2>4. CASE Goto(t, "inflight") /\ work' = [work EXCEPT ![cur[t]] = "running"]
    <3>1. Good("inflight", r, "running", faults)
      BY <1>3, <1>5 DEF Good, Undisturbed
    <3>2. RStep(t, "inflight", r, d, "running")
      BY <2>1, <2>4, <3>1, <1>2, <1>4, <1>6 DEF RStep, Goto
    <3>3. QED
      BY <3>2, <1>1, RStepRInv
  <2>5. QED
    BY <1>9, <2>3, <2>4 DEF Call
<1>10. CASE WorkflowEnds(t)
  <2>1. pc[t] = "inflight" /\ UNCHANGED <<cur, rec>>
    BY <1>10 DEF WorkflowEnds
  <2>2. ASSUME NEW v, work' = [work EXCEPT ![cur[t]] = v],
               Goto(t, "link"), UNCHANGED <<disk, faults>>
        PROVE  RInv'
    <3>1. Good("link", r, v, faults)
      BY <1>3, <1>5 DEF Good, Undisturbed
    <3>2. RStep(t, "link", r, d, v)
      BY <2>1, <2>2, <3>1, <1>2, <1>4, <1>6 DEF RStep, Goto
    <3>3. QED
      BY <3>2, <1>1, RStepRInv
  <2>3. ASSUME NEW v, work' = [work EXCEPT ![cur[t]] = v],
               Goto(t, "except"), SaveRaises
        PROVE  RInv'
    <3>1. disk' = disk /\ faults' = faults + 1 /\ faults' # 0
      BY <2>3, <1>2 DEF SaveRaises
    <3>2. Good("except", r, v, faults') /\ Sound(d, v, faults')
      BY <3>1, <1>3 DEF Good, Sound
    <3>3. RStep(t, "except", r, d, v)
      BY <2>1, <2>3, <3>1, <3>2, <1>2, <1>4 DEF RStep, Goto
    <3>4. QED
      BY <3>3, <1>1, RStepRInv
  <2>4. QED
    BY <1>10, <2>2, <2>3 DEF WorkflowEnds
<1>11. QED
  BY <1>8, <1>9, <1>10

LEMMA NextRInv == IInv /\ RInv /\ [Next]_vars => RInv'
<1> SUFFICES ASSUME IInv, RInv, [Next]_vars PROVE RInv'
  OBVIOUS
<1>1. ASSUME NEW t \in Threads, NEW c \in Clients, NEW e \in Executions,
             Acquire(t, c, e)
      PROVE  RInv'
  <2>1. /\ pc' = [pc EXCEPT ![t] = "create"]
        /\ cur' = [cur EXCEPT ![t] = e]
        /\ UNCHANGED <<disk, rec, work, faults>>
    BY <1>1 DEF Acquire, Goto
  <2>2. ASSUME NEW u \in Threads, pc'[u] # "idle"
        PROVE  Good(pc'[u], rec'[u], work'[cur'[u]], faults')
    <3>1. CASE u = t
      BY <2>1, <3>1 DEF IInv, TypeOK, Good, Undisturbed
    <3>2. CASE u # t
      BY <2>1, <2>2, <3>2 DEF IInv, TypeOK, RInv
    <3>3. QED
      BY <3>1, <3>2
  <2>3. QED
    BY <2>1, <2>2 DEF RInv
<1>2. ASSUME NEW t \in Threads, NEW c \in Clients, NEW e \in Executions,
             Schedule(t, c, e)
      PROVE  RInv'
  <2> DEFINE m == New(c, FALSE)
  <2>1. /\ disk' = [disk EXCEPT ![e] = m]
        /\ UNCHANGED <<pc, cur, rec, work, faults>>
    BY <1>2 DEF Schedule
  <2>2. Legal(m) /\ m.state = "PENDING"
    BY NewLegal
  <2> HIDE DEF m
  <2>3. \A f \in Executions : disk'[f] = m \/ disk'[f] = disk[f]
    BY <2>1 DEF IInv, TypeOK
  <2>4. \A f \in Executions : Sound(disk'[f], work[f], faults)
    BY <2>2, <2>3 DEF RInv, Sound, NoFalseAlarm
  <2>5. QED
    BY <2>1, <2>4 DEF RInv
<1>3. ASSUME NEW t \in Threads, Leave(t) \/ Escape(t)
      PROVE  RInv'
  <2>1. /\ pc' = [pc EXCEPT ![t] = "idle"]
        /\ cur' = [cur EXCEPT ![t] = NoExecution]
        /\ rec' = [rec EXCEPT ![t] = NoRecord]
        /\ UNCHANGED <<disk, work, faults>>
    BY <1>3 DEF Leave, Escape, ReleaseLock, Goto, Now
  <2>2. ASSUME NEW u \in Threads, pc'[u] # "idle"
        PROVE  Good(pc'[u], rec'[u], work'[cur'[u]], faults')
    <3>1. u # t
      BY <2>1, <2>2 DEF IInv, TypeOK
    <3>2. QED
      BY <2>1, <2>2, <3>1 DEF IInv, TypeOK, RInv
  <2>3. QED
    BY <2>1, <2>2 DEF RInv
<1>4. ASSUME Crash
      PROVE  RInv'
  <2>1. /\ \A e \in Executions : work'[e] = "completed" => work[e] = "completed"
        /\ \A t \in Threads : pc'[t] = "idle"
        /\ UNCHANGED <<disk, faults>>
    BY <1>4 DEF Crash
  <2>2. QED
    BY <2>1 DEF RInv, Sound, NoFalseAlarm
<1>5. CASE UNCHANGED vars
  BY <1>5 DEF vars, RInv
<1>6. QED
  BY <1>1, <1>2, <1>3, <1>4, <1>5, MoveRInv, SaveRInv, RunRInv DEF Next, Work

\* In every state of every behaviour the records are sound.
THEOREM RecordInvariance == Spec => []RInv
BY InitRInv, NextRInv, Invariance, PTL DEF Spec

\* FAILED is not recorded for work that was done, and COMPLETED carries no
\* error, unless a save raised (client_execution/engine.py:61-83).
THEOREM NoFalseAlarmAlways == Spec => []FalseAlarmNeedsFault
<1>1. RInv => FalseAlarmNeedsFault
  BY DEF RInv, Sound, NoFalseAlarm, FalseAlarmNeedsFault
<1>2. QED
  BY <1>1, RecordInvariance, PTL

\* The recorded transitions are a path of STATE_TRANSITIONS
\* (client_execution/state.py:28-54).
THEOREM PathIsLegalAlways == Spec => []PathIsLegal
<1>1. RInv => PathIsLegal
  BY DEF RInv, Sound, Legal, PathIsLegal
<1>2. QED
  BY <1>1, RecordInvariance, PTL

\* What a record says and what execute returns is what happened.
THEOREM RecordsAreHonestAlways == Spec => []RecordsAreHonest
BY RecordsAreTruthful, NoFalseAlarmAlways, ReturnedRecordIsPersisted,
   PathIsLegalAlways, PTL DEF RecordsAreHonest

-----------------------------------------------------------------------------
(***************************************************************************)
(* The cockpit, which reads before it commands and before it shows.  Its   *)
(* specification CSpec takes the steps of ClientExecution over, so that    *)
(* IInv is invariant under it too.  What it has read stays true because    *)
(* FAILED records and ended workflows do not change; the invariant says so *)
(* of the command each thread holds, of the execution a retry was started  *)
(* for and of the row the monitor builds.                                  *)
(***************************************************************************)
\* Where execute has a record that names the workflow instance.
Named == {"resume", "complete", "record", "compensate", "fail"}

\* What the record r says of the workflow w, r naming it or not.
Fits(r, w) ==
    /\ r.linked => w \in {"completed", "failed"}
    /\ r.state = "COMPLETED" => r.linked /\ w = "completed"
    /\ r.error = "step" => r.linked /\ w = "failed"

\* Every record fits its workflow, that of a thread as well as that on disk.
Fitting ==
    /\ \A e \in Executions : disk[e] # NoRecord => Fits(disk[e], work[e])
    /\ \A t \in Threads : pc[t] \notin {"idle", "create"} =>
          /\ Fits(rec[t], work[cur[t]])
          /\ pc[t] \in Named => rec[t].linked

\* There is a FAILED execution e of client c.
FailedFor(e, c) ==
    /\ e \in Executions
    /\ disk[e] # NoRecord
    /\ disk[e].state = "FAILED"
    /\ disk[e].client = c

\* What has been read for a command that is to be started.
Commands ==
    /\ command = [t \in Threads |-> command[t]]
    /\ \A t \in Threads : command[t] # NoCommand =>
          /\ command[t].how \in {"trigger", "execute", "retry"}
          /\ command[t].client \in Clients
          /\ At(t, "idle")
          /\ IF command[t].how = "retry"
             THEN FailedFor(command[t].of, command[t].client)
             ELSE command[t].of = NoExecution

\* The cockpit lock, and the triggers it was too late for.
Locking ==
    /\ locked \subseteq Clients
    /\ admitted \in [Clients -> SUBSET Threads]
    /\ \A t \in Threads :
          command[t] # NoCommand /\ command[t].how = "trigger" /\ command[t].client \in locked
              => t \in admitted[command[t].client]

\* A retry, as soon as it is under way, is of a FAILED execution of its client.
Sources ==
    /\ source \in [Executions -> Executions \cup {NoExecution}]
    /\ \A e \in Executions :
          disk[e] # NoRecord /\ source[e] # NoExecution => FailedFor(source[e], disk[e].client)
    /\ \A t \in Threads :
          pc[t] # "idle" /\ source[cur[t]] # NoExecution => FailedFor(source[cur[t]], client[t])

\* The row is of a record that was on disk, and fits what has become of its workflow.
Row ==
    row # NoRow =>
        /\ row \in [of: Executions, record: Record,
                    instance: {"unread", "none", "completed", "failed"}]
        /\ Fits(row.record, work[row.of])
        /\ row.instance # "unread" =>
              row.instance = IF row.record.linked THEN work[row.of] ELSE "none"

CockpitInv == Commands /\ Locking /\ Sources /\ Row
CInv == IInv /\ Fitting /\ CockpitInv

-----------------------------------------------------------------------------
\* A record that fits an ended workflow, or that names none, goes on fitting.
LEMMA FitsLater ==
    ASSUME NEW r, NEW w, NEW v, Fits(r, w), w \in {"completed", "failed"} => v = w
    PROVE  Fits(r, v)
BY DEF Fits

LEMMA InitFitting == Init => Fitting
BY DEF Init, Fitting

\* A step of one thread inside execute.
FitStep(t, l, r, d, w) ==
    /\ l # "idle"
    /\ pc' = [pc EXCEPT ![t] = l]
    /\ rec' = [rec EXCEPT ![t] = r]
    /\ disk' = [disk EXCEPT ![cur[t]] = d]
    /\ work' = [work EXCEPT ![cur[t]] = w]
    /\ cur' = cur
    /\ d # NoRecord => Fits(d, w)
    /\ l # "create" => Fits(r, w) /\ (l \in Named => r.linked)

LEMMA FitStepFitting ==
    ASSUME IInv, Fitting, NEW t \in Threads, pc[t] # "idle",
           NEW l, NEW r, NEW d, NEW w, FitStep(t, l, r, d, w)
    PROVE  Fitting'
<1> USE DEF FitStep, IInv, TypeOK
<1>1. cur[t] \in Executions
  BY DEF Ownership
<1>2. \A e \in Executions : disk'[e] # NoRecord => Fits(disk'[e], work'[e])
  BY <1>1 DEF Fitting
<1>3. ASSUME NEW u \in Threads, pc'[u] \notin {"idle", "create"}
      PROVE  Fits(rec'[u], work'[cur'[u]]) /\ (pc'[u] \in Named => rec'[u].linked)
  <2>1. CASE u = t
    BY <2>1, <1>1, <1>3
  <2>2. CASE u # t
    <3>1. pc'[u] = pc[u] /\ rec'[u] = rec[u] /\ cur[u] # cur[t] /\ cur[u] \in Executions
      BY <2>2, <1>3 DEF Ownership
    <3>2. work'[cur'[u]] = work[cur[u]]
      BY <3>1, <1>1
    <3>3. QED
      BY <3>1, <3>2, <1>3 DEF Fitting
  <2>3. QED
    BY <2>1, <2>2
<1>4. QED
  BY <1>2, <1>3 DEF Fitting

\* What a thread inside execute has.
LEMMA FitInside ==
    ASSUME IInv, Fitting, NEW t \in Threads, pc[t] \notin {"idle", "create"}
    PROVE  /\ Fits(rec[t], work[cur[t]])
           /\ pc[t] \in Named => rec[t].linked
           /\ disk[cur[t]] # NoRecord => Fits(disk[cur[t]], work[cur[t]])
           /\ rec[t] \in Record
           /\ Coherent(pc[t], client[t], rec[t], disk[cur[t]], work[cur[t]])
BY Inside DEF Fitting, Coherent

LEMMA SaveFieldsFitting ==
    ASSUME IInv, Fitting, NEW t \in Threads, pc[t] # "idle",
           NEW r, NEW done, NEW raised,
           done # "idle", raised \notin Named \cup {"idle"},
           SaveFields(t, r, done, raised), UNCHANGED <<cur, work>>,
           Fits(r, work[cur[t]]), done \in Named => r.linked
    PROVE  Fitting'
<1>1. cur[t] \in Executions /\ work' = [work EXCEPT ![cur[t]] = work[cur[t]]]
  BY Inside DEF IInv, TypeOK
<1>2. CASE Saved(t, r) /\ Goto(t, done)
  <2>1. FitStep(t, done, r, r, work[cur[t]])
    BY <1>1, <1>2 DEF FitStep, Saved, Goto, SaveFields, Now
  <2>2. QED
    BY <2>1, FitStepFitting
<1>3. CASE SaveRaises /\ Goto(t, raised)
  <2>1. disk' = [disk EXCEPT ![cur[t]] = disk[cur[t]]]
    BY <1>1, <1>3 DEF SaveRaises, IInv, TypeOK
  <2>2. FitStep(t, raised, r, disk[cur[t]], work[cur[t]])
    BY <1>1, <1>3, <2>1 DEF FitStep, Goto, SaveFields, Now, Fitting
  <2>3. QED
    BY <2>2, FitStepFitting
<1>4. QED
  BY <1>2, <1>3 DEF SaveFields

LEMMA TransitionFitting ==
    ASSUME IInv, Fitting, NEW t \in Threads, pc[t] \notin {"idle", "create"},
           NEW s \in States, NEW done, NEW raised,
           done # "idle", raised \notin Named \cup {"idle"},
           Transition(t, s, done, raised), UNCHANGED <<cur, work>>,
           done \in Named => rec[t].linked,
           s = "COMPLETED" => rec[t].linked /\ work[cur[t]] = "completed"
    PROVE  Fitting'
<1> DEFINE r == rec[t]
           w == work[cur[t]]
           m == Moved(rec[t], s)
<1>1. Fits(r, w) /\ r \in Record /\ cur[t] \in Executions
  BY Inside, FitInside
<1>2. CASE s \notin Promise!Successors(r.state)
  <2>1. /\ work' = [work EXCEPT ![cur[t]] = w]
        /\ disk' = [disk EXCEPT ![cur[t]] = disk[cur[t]]]
        /\ rec' = [rec EXCEPT ![t] = r]
    BY <1>1, <1>2 DEF Transition, IInv, TypeOK
  <2>2. FitStep(t, raised, r, disk[cur[t]], w)
    BY <1>1, <1>2, <2>1, FitInside DEF FitStep, Transition, Goto
  <2>3. QED
    BY <2>2, FitStepFitting
<1>3. CASE s \in Promise!Successors(r.state)
  <2>1. SaveFields(t, m, done, raised)
    BY <1>3 DEF Transition, SaveFields
  <2>2. m.state = s /\ m.error = r.error /\ m.linked = r.linked
    <3> DEFINE p == Append(r.path, s)
    <3>1. m = [r EXCEPT !.state = s, !.path = p]
      BY DEF Moved
    <3> HIDE DEF p, m, r
    <3>2. QED
      BY <3>1, <1>1 DEF Record
  <2> HIDE DEF m
  <2>3. Fits(m, w)
    BY <2>2, <1>1 DEF Fits
  <2>4. QED
    BY <2>1, <2>2, <2>3, SaveFieldsFitting
<1>4. QED
  BY <1>2, <1>3

LEMMA NextFitting == IInv /\ Fitting /\ [Next]_vars => Fitting'
<1> SUFFICES ASSUME IInv, Fitting, [Next]_vars PROVE Fitting'
  OBVIOUS
<1> USE Constants
<1>1. ASSUME NEW t \in Threads,
             \/ Start(t) \/ Resume(t) \/ Compensate(t) \/ Fail(t)
             \/ CompensateLate(t) \/ FailLate(t) \/ Complete(t)
      PROVE  Fitting'
  <2>1. PICK s \in States, done \in Labels, raised \in {"except", "escape"} :
          /\ Transition(t, s, done, raised)
          /\ done # "idle"
          /\ done \in Named => pc[t] \in Named
          /\ s = "COMPLETED" => pc[t] = "complete"
    BY <1>1 DEF Start, Resume, Complete, Compensate, Fail, CompensateLate, FailLate,
       At, Named, Labels
  <2>2. pc[t] \notin {"idle", "create"} /\ UNCHANGED <<cur, work>>
    BY <1>1 DEF Start, Resume, Complete, Compensate, Fail, CompensateLate, FailLate, At
  <2>3. s = "COMPLETED" => work[cur[t]] = "completed" /\ rec[t].linked
    BY <2>1, <2>2, FitInside DEF Coherent, Named
  <2>4. done \in Named => rec[t].linked
    BY <2>1, <2>2, FitInside
  <2>5. raised \notin Named \cup {"idle"}
    BY DEF Named
  <2>6. QED
    BY <2>1, <2>2, <2>3, <2>4, <2>5, TransitionFitting
<1>2. ASSUME NEW t \in Threads, Create(t)
      PROVE  Fitting'
  <2> DEFINE m == New(client[t], TRUE)
  <2>1. /\ pc[t] = "create" /\ UNCHANGED <<cur, work>>
        /\ SaveFields(t, m, "start", "escape")
    BY <1>2 DEF Create, At
  <2>2. m.state = "PENDING" /\ m.error = "none" /\ m.linked = FALSE
    BY DEF New
  <2> HIDE DEF m
  <2>3. Fits(m, work[cur[t]])
    BY <2>2 DEF Fits
  <2>4. QED
    BY <2>1, <2>3, SaveFieldsFitting DEF Named
<1>3. ASSUME NEW t \in Threads, Link(t)
      PROVE  Fitting'
  <2> DEFINE m == [rec[t] EXCEPT !.linked = TRUE]
  <2>1. /\ pc[t] = "link" /\ UNCHANGED <<cur, work>>
        /\ SaveFields(t, m, AfterLink(t), "except")
    BY <1>3 DEF Link, At
  <2>2. work[cur[t]] \in {"completed", "failed"} /\ rec[t] \in Record /\ Fits(rec[t], work[cur[t]])
    BY <2>1, FitInside DEF Coherent
  <2>3. m.linked /\ Fits(m, work[cur[t]])
    BY <2>2 DEF Fits, Record
  <2> HIDE DEF m
  <2>4. AfterLink(t) # "idle"
    BY DEF AfterLink
  <2>5. QED
    BY <2>1, <2>3, <2>4, SaveFieldsFitting DEF Named
<1>4. ASSUME NEW t \in Threads, RecordFailure(t)
      PROVE  Fitting'
  <2> DEFINE m == [rec[t] EXCEPT !.error = "step"]
  <2>1. /\ pc[t] = "record" /\ UNCHANGED <<cur, work>>
        /\ SaveFields(t, m, "compensate", "except")
    BY <1>4 DEF RecordFailure, At
  <2>2. /\ work[cur[t]] = "failed" /\ rec[t] \in Record /\ Fits(rec[t], work[cur[t]])
        /\ rec[t].linked
    BY <2>1, FitInside DEF Coherent, Named
  <2>3. m.linked /\ Fits(m, work[cur[t]])
    BY <2>2 DEF Fits, Record
  <2> HIDE DEF m
  <2>4. QED
    BY <2>1, <2>3, SaveFieldsFitting DEF Named
<1>5. ASSUME NEW t \in Threads, Except(t)
      PROVE  Fitting'
  <2> DEFINE m == [rec[t] EXCEPT !.error = "exception"]
  <2>1. /\ pc[t] = "except" /\ UNCHANGED <<cur, work>>
        /\ SaveFields(t, m, "compensate late", "escape")
    BY <1>5 DEF Except, At
  <2>2. rec[t] \in Record /\ Fits(rec[t], work[cur[t]])
    BY <2>1, FitInside
  <2>3. Fits(m, work[cur[t]])
    BY <2>2 DEF Fits, Record
  <2> HIDE DEF m
  <2>4. QED
    BY <2>1, <2>3, SaveFieldsFitting DEF Named
<1>6. ASSUME NEW t \in Threads, Resolve(t)
      PROVE  Fitting'
  <2>1. pc[t] = "resolve" /\ UNCHANGED <<cur, work>>
    BY <1>6 DEF Resolve, At
  <2>2. CASE Transition(t, "WAITING_EXTERNAL", "call", "except")
    BY <2>1, <2>2, TransitionFitting DEF Named
  <2>3. ASSUME NEW l \in {"except", "call"}, Goto(t, l), UNCHANGED <<disk, rec, faults>>
        PROVE  Fitting'
    <3>1. FitStep(t, l, rec[t], disk[cur[t]], work[cur[t]])
      BY <2>1, <2>3, Inside, FitInside DEF FitStep, Goto, Named, IInv, TypeOK
    <3>2. QED
      BY <2>1, <3>1, FitStepFitting
  <2>4. QED
    BY <1>6, <2>2, <2>3 DEF Resolve
<1>7. ASSUME NEW t \in Threads, Call(t) \/ WorkflowEnds(t)
      PROVE  Fitting'
  <2>1. PICK l \in {"except", "inflight", "link"}, v \in Works :
          /\ Goto(t, l)
          /\ work' = [work EXCEPT ![cur[t]] = v]
          /\ UNCHANGED <<disk, rec, cur>>
    BY <1>7, Inside DEF Call, WorkflowEnds, SaveRaises, Works, IInv, TypeOK, At
  <2>2. pc[t] \in {"call", "inflight"}
    BY <1>7 DEF Call, WorkflowEnds, At
  <2>3. /\ work[cur[t]] \notin {"completed", "failed"}
        /\ Fits(rec[t], work[cur[t]]) /\ disk[cur[t]] = rec[t]
        /\ cur[t] \in Executions
    BY <2>2, Inside, FitInside DEF Coherent, Synced
  <2>4. Fits(rec[t], v)
    BY <2>3, FitsLater
  <2>5. FitStep(t, l, rec[t], disk[cur[t]], v)
    BY <2>1, <2>3, <2>4 DEF FitStep, Goto, Named, IInv, TypeOK
  <2>6. QED
    BY <2>2, <2>5, FitStepFitting
<1>8. ASSUME NEW t \in Threads, Leave(t) \/ Escape(t)
      PROVE  Fitting'
  BY <1>8 DEF Leave, Escape, ReleaseLock, Goto, Now, IInv, TypeOK, Fitting
<1>9. ASSUME NEW t \in Threads, NEW c \in Clients, NEW e \in Executions, Acquire(t, c, e)
      PROVE  Fitting'
  BY <1>9 DEF Acquire, Goto, IInv, TypeOK, Fitting
<1>10. ASSUME NEW t \in Threads, NEW c \in Clients, NEW e \in Executions, Schedule(t, c, e)
       PROVE  Fitting'
  <2>1. Fits(New(c, FALSE), work[e])
    BY DEF Fits, New
  <2>2. QED
    BY <2>1, <1>10 DEF Schedule, IInv, TypeOK, Fitting
<1>11. ASSUME Crash
       PROVE  Fitting'
  <2>1. \A e \in Executions : work[e] \in {"completed", "failed"} => work'[e] = work[e]
    BY <1>11 DEF Crash, IInv, TypeOK
  <2>2. QED
    BY <2>1, <1>11, FitsLater DEF Crash, Fitting
<1>12. CASE UNCHANGED vars
  BY <1>12 DEF vars, Fitting
<1>13. QED
  BY <1>1, <1>2, <1>3, <1>4, <1>5, <1>6, <1>7, <1>8, <1>9, <1>10, <1>11, <1>12
     DEF Next, Work

-----------------------------------------------------------------------------
(***************************************************************************)
(* What any step of a thread inside execute may write: the record of its   *)
(* own execution, which stays with its client and stays FAILED, and an     *)
(* outcome where there is none yet.                                        *)
(***************************************************************************)
Keeps(d, r) ==
    d # NoRecord => /\ r # NoRecord
                    /\ r.client = d.client
                    /\ d.state = "FAILED" => r.state = "FAILED"

Writes(t) ==
    /\ pc[t] # "idle"
    /\ \A e \in Executions :
          \/ disk'[e] = disk[e]
          \/ e = cur[t] /\ disk'[e].client = client[t] /\ Keeps(disk[e], disk'[e])
    /\ \A e \in Executions : work[e] \in {"completed", "failed"} => work'[e] = work[e]
    /\ \A u \in Threads \ {t} : pc'[u] = pc[u] /\ cur'[u] = cur[u] /\ client'[u] = client[u]
    /\ pc'[t] # "idle" => cur'[t] = cur[t] /\ client'[t] = client[t]

LEMMA SaveFieldsWrites ==
    ASSUME IInv, NEW t \in Threads, pc[t] # "idle",
           NEW r, NEW done, NEW raised, SaveFields(t, r, done, raised),
           UNCHANGED <<client, cur, work>>,
           r.client = client[t], Keeps(disk[cur[t]], r)
    PROVE  Writes(t)
BY Inside DEF SaveFields, Saved, SaveRaises, Goto, Writes, IInv, TypeOK

LEMMA TransitionWrites ==
    ASSUME IInv, NEW t \in Threads, pc[t] \in Synced,
           NEW s \in States, NEW done, NEW raised, Transition(t, s, done, raised),
           UNCHANGED <<client, cur, work>>
    PROVE  Writes(t)
<1> DEFINE r == rec[t]
           m == Moved(rec[t], s)
<1>1. pc[t] \notin {"idle", "create"}
  BY DEF Synced
<1>2. disk[cur[t]] = r /\ r \in Record /\ r.client = client[t]
  BY <1>1, Inside DEF Coherent
<1>3. CASE s \notin Promise!Successors(r.state)
  BY <1>1, <1>3 DEF Transition, Writes, Goto, IInv, TypeOK
<1>4. CASE s \in Promise!Successors(r.state)
  <2>1. SaveFields(t, m, done, raised)
    BY <1>4 DEF Transition, SaveFields
  <2>2. m \in Record /\ m.client = r.client
    BY <1>2, MovedType
  <2>3. r.state # "FAILED"
    BY <1>4 DEF Promise!Successors
  <2> HIDE DEF m
  <2>4. Keeps(disk[cur[t]], m)
    BY <1>2, <2>2, <2>3, RecordAssumption DEF Keeps
  <2>5. QED
    BY <1>1, <1>2, <2>1, <2>2, <2>4, SaveFieldsWrites
<1>5. QED
  BY <1>3, <1>4

LEMMA WorkWrites ==
    ASSUME IInv, NEW t \in Threads, Work(t)
    PROVE  Writes(t)
<1> USE Constants, RecordAssumption
<1>1. CASE \/ Start(t) \/ Resume(t) \/ Complete(t) \/ Compensate(t) \/ Fail(t)
           \/ CompensateLate(t) \/ FailLate(t)
  <2>1. /\ pc[t] \in Synced
        /\ UNCHANGED <<client, cur, work>>
        /\ \E s \in States, done, raised \in Labels : Transition(t, s, done, raised)
    BY <1>1 DEF Start, Resume, Complete, Compensate, Fail, CompensateLate, FailLate,
       At, Synced, Labels
  <2>2. QED
    BY <2>1, TransitionWrites
<1>2. CASE Create(t)
  <2>1. /\ pc[t] = "create"
        /\ SaveFields(t, New(client[t], TRUE), "start", "escape")
        /\ UNCHANGED <<client, cur, work>>
    BY <1>2 DEF Create, At
  <2>2. Keeps(disk[cur[t]], New(client[t], TRUE)) /\ New(client[t], TRUE).client = client[t]
    BY <2>1, Inside DEF Coherent, Keeps, New
  <2>3. QED
    BY <2>1, <2>2, SaveFieldsWrites
<1>3. CASE Link(t) \/ RecordFailure(t) \/ Except(t)
  <2>1. /\ pc[t] \in {"link", "record", "except"}
        /\ UNCHANGED <<client, cur, work>>
        /\ \E r \in {[rec[t] EXCEPT !.linked = TRUE], [rec[t] EXCEPT !.error = "step"],
                     [rec[t] EXCEPT !.error = "exception"]}, done, raised \in Labels :
              SaveFields(t, r, done, raised)
    BY <1>3 DEF Link, RecordFailure, Except, At, AfterLink, Labels
  <2>2. /\ rec[t] \in Record /\ rec[t].client = client[t]
        /\ disk[cur[t]].state = "FAILED" => rec[t].state = "FAILED"
        /\ disk[cur[t]] # NoRecord => disk[cur[t]].client = client[t]
    <3>1. /\ Coherent(pc[t], client[t], rec[t], disk[cur[t]], work[cur[t]])
          /\ pc[t] = "except" \/ pc[t] \in Synced
      BY <2>1, Inside DEF Synced
    <3>2. QED
      BY <2>1, <3>1 DEF Coherent, Promise!Successors
  <2>3. PICK r \in Record, done \in Labels, raised \in Labels :
          /\ SaveFields(t, r, done, raised)
          /\ r.client = rec[t].client /\ r.state = rec[t].state
    BY <2>1, <2>2 DEF Record
  <2>4. Keeps(disk[cur[t]], r)
    BY <2>2, <2>3 DEF Keeps
  <2>5. QED
    BY <2>1, <2>2, <2>3, <2>4, SaveFieldsWrites
<1>4. CASE Resolve(t)
  <2>1. pc[t] = "resolve" /\ UNCHANGED <<client, cur, work>>
    BY <1>4 DEF Resolve, At
  <2>2. CASE Transition(t, "WAITING_EXTERNAL", "call", "except")
    BY <2>1, <2>2, TransitionWrites DEF Synced
  <2>3. CASE UNCHANGED disk
    BY <1>4, <2>1, <2>3 DEF Resolve, Writes, Goto, Transition, IInv, TypeOK
  <2>4. QED
    BY <1>4, <2>2, <2>3 DEF Resolve
<1>5. CASE Call(t) \/ WorkflowEnds(t)
  <2>1. pc[t] \in {"call", "inflight"}
    BY <1>5 DEF Call, WorkflowEnds, At
  <2>2. work[cur[t]] \notin {"completed", "failed"} /\ cur[t] \in Executions
    BY <2>1, Inside DEF Coherent
  <2>3. QED
    BY <1>5, <2>1, <2>2 DEF Call, WorkflowEnds, SaveRaises, Goto, Writes, IInv, TypeOK
<1>6. CASE Leave(t) \/ Escape(t)
  BY <1>6 DEF Leave, Escape, ReleaseLock, Goto, At, Writes, IInv, TypeOK
<1>7. QED
  BY <1>1, <1>2, <1>3, <1>4, <1>5, <1>6 DEF Work

-----------------------------------------------------------------------------
(***************************************************************************)
(* A record that has ended is final: where execute may still write it, the *)
(* record on disk is not of an execution that has ended, although the      *)
(* object of a thread whose save raised may say that it is.                *)
(***************************************************************************)
Undecided == {"start", "resolve", "call", "inflight", "link", "resume", "complete",
              "record", "compensate", "fail", "except"}

Over(d) == d # NoRecord /\ d.state \in Terminal

Unfinished ==
    \A t \in Threads : pc[t] \in Undecided => ~Over(disk[cur[t]])

\* What a step of execute does to the record of its execution.
Advances(t) ==
    /\ Over(disk[cur[t]]) => disk'[cur[t]] = disk[cur[t]]
    /\ pc'[t] \in Undecided => cur'[t] = cur[t] /\ ~Over(disk'[cur[t]])

LEMMA SaveFieldsAdvances ==
    ASSUME IInv, NEW t \in Threads, pc[t] # "idle",
           NEW r, NEW done, NEW raised, SaveFields(t, r, done, raised), cur' = cur,
           ~Over(disk[cur[t]]), done \in Undecided => ~Over(r)
    PROVE  Advances(t)
<1>1. cur[t] \in Executions
  BY Inside
<1>2. CASE Saved(t, r) /\ Goto(t, done)
  BY <1>1, <1>2 DEF Saved, Goto, Advances, IInv, TypeOK
<1>3. CASE SaveRaises
  BY <1>3 DEF SaveRaises, Advances
<1>4. QED
  BY <1>2, <1>3 DEF SaveFields

LEMMA TransitionAdvances ==
    ASSUME IInv, Unfinished, NEW t \in Threads, pc[t] \in Synced,
           NEW s \in States, NEW done, NEW raised, Transition(t, s, done, raised), cur' = cur,
           done \in Undecided => s \notin Terminal,
           raised \in Undecided => pc[t] \in Undecided
    PROVE  Advances(t)
<1> DEFINE r == rec[t]
           m == Moved(rec[t], s)
<1>1. /\ pc[t] \notin {"idle", "create"} /\ disk[cur[t]] = r /\ r \in Record
  BY Inside DEF Coherent, Synced
<1>2. CASE s \notin Promise!Successors(r.state)
  BY <1>1, <1>2 DEF Transition, Advances, Goto, Unfinished, IInv, TypeOK
<1>3. CASE s \in Promise!Successors(r.state)
  <2>1. SaveFields(t, m, done, raised)
    BY <1>3 DEF Transition, SaveFields
  <2>2. m.state = s
    BY <1>1, MovedType
  <2>3. ~Over(disk[cur[t]])
    BY <1>1, <1>3, Constants DEF Over, Promise!Successors
  <2> HIDE DEF m
  <2>4. QED
    BY <1>1, <2>1, <2>2, <2>3, SaveFieldsAdvances DEF Over
<1>4. QED
  BY <1>2, <1>3

LEMMA WorkAdvances ==
    ASSUME IInv, Unfinished, NEW t \in Threads, Work(t)
    PROVE  Advances(t)
<1> USE Constants, RecordAssumption
<1>1. CASE \/ Start(t) \/ Resume(t) \/ Complete(t) \/ Compensate(t) \/ Fail(t)
           \/ CompensateLate(t) \/ FailLate(t)
  <2>1. PICK s \in States, done \in Labels, raised \in {"except", "escape"} :
          /\ Transition(t, s, done, raised)
          /\ done \in Undecided => s \notin Terminal
          /\ raised = "except" => pc[t] \in Undecided
    BY <1>1 DEF Start, Resume, Complete, Compensate, Fail, CompensateLate, FailLate,
       At, Labels, Undecided
  <2>2. pc[t] \in Synced /\ cur' = cur
    BY <1>1 DEF Start, Resume, Complete, Compensate, Fail, CompensateLate, FailLate,
       At, Synced
  <2>3. raised \in Undecided => pc[t] \in Undecided
    BY <2>1 DEF Undecided
  <2>4. QED
    BY <2>1, <2>2, <2>3, TransitionAdvances
<1>2. CASE Create(t)
  <2>1. /\ pc[t] = "create" /\ cur' = cur
        /\ SaveFields(t, New(client[t], TRUE), "start", "escape")
    BY <1>2 DEF Create, At
  <2>2. ~Over(disk[cur[t]]) /\ ~Over(New(client[t], TRUE))
    BY <2>1, Inside DEF Coherent, Over, New
  <2>3. QED
    BY <2>1, <2>2, SaveFieldsAdvances
<1>3. CASE Link(t) \/ RecordFailure(t)
  <2>1. PICK r, done :
          /\ r \in {[rec[t] EXCEPT !.linked = TRUE], [rec[t] EXCEPT !.error = "step"]}
          /\ pc[t] \in {"link", "record"} /\ cur' = cur
          /\ SaveFields(t, r, done, "except")
    BY <1>3 DEF Link, RecordFailure, At
  <2>2. disk[cur[t]] = rec[t] /\ rec[t] \in Record /\ ~Over(rec[t])
    BY <2>1, Inside DEF Coherent, Synced, Unfinished, Undecided
  <2>3. r.state = rec[t].state
    BY <2>1, <2>2 DEF Record
  <2>4. QED
    BY <2>1, <2>2, <2>3, SaveFieldsAdvances DEF Over
<1>4. CASE Except(t)
  <2>1. PICK r :
          /\ pc[t] = "except" /\ cur' = cur
          /\ SaveFields(t, r, "compensate late", "escape")
    BY <1>4 DEF Except, At
  <2>2. ~Over(disk[cur[t]])
    BY <2>1 DEF Unfinished, Undecided
  <2>3. QED
    BY <2>1, <2>2, SaveFieldsAdvances DEF Undecided
<1>5. CASE Resolve(t)
  <2>1. pc[t] = "resolve" /\ cur' = cur
    BY <1>5 DEF Resolve, At
  <2>2. CASE Transition(t, "WAITING_EXTERNAL", "call", "except")
    BY <2>1, <2>2, TransitionAdvances DEF Synced, Undecided
  <2>3. CASE UNCHANGED disk
    BY <2>1, <2>3 DEF Advances, Unfinished, Undecided
  <2>4. QED
    BY <1>5, <2>2, <2>3 DEF Resolve
<1>6. CASE Call(t) \/ WorkflowEnds(t)
  <2>1. pc[t] \in {"call", "inflight"} /\ disk' = disk /\ cur' = cur
    BY <1>6 DEF Call, WorkflowEnds, SaveRaises, At
  <2>2. QED
    BY <2>1 DEF Advances, Unfinished, Undecided
<1>7. CASE Leave(t) \/ Escape(t)
  <2>1. disk' = disk /\ pc'[t] = "idle"
    BY <1>7 DEF Leave, Escape, ReleaseLock, Goto, IInv, TypeOK
  <2>2. QED
    BY <2>1 DEF Advances, Undecided
<1>8. QED
  BY <1>1, <1>2, <1>3, <1>4, <1>5, <1>6, <1>7 DEF Work

LEMMA NextUnfinished == IInv /\ Unfinished /\ [Next]_vars => Unfinished'
<1> SUFFICES ASSUME IInv, Unfinished, [Next]_vars PROVE Unfinished'
  OBVIOUS
<1>1. ASSUME NEW t \in Threads, Work(t) PROVE Unfinished'
  <2>1. Writes(t) /\ Advances(t)
    BY <1>1, WorkWrites, WorkAdvances
  <2>2. ASSUME NEW u \in Threads, pc'[u] \in Undecided PROVE ~Over(disk'[cur'[u]])
    <3>1. CASE u = t
      BY <2>1, <2>2, <3>1 DEF Advances
    <3>2. CASE u # t
      <4>1. pc'[u] = pc[u] /\ cur'[u] = cur[u] /\ pc[u] # "idle"
        BY <2>1, <2>2, <3>2 DEF Writes, Undecided
      <4>2. cur[u] \in Executions /\ cur[u] # cur[t]
        BY <2>1, <3>2, <4>1, Inside DEF IInv, Ownership, Writes
      <4>3. disk'[cur[u]] = disk[cur[u]]
        BY <2>1, <4>2 DEF Writes
      <4>4. QED
        BY <2>2, <4>1, <4>3 DEF Unfinished
    <3>3. QED
      BY <3>1, <3>2
  <2>3. QED
    BY <2>2 DEF Unfinished
<1>2. ASSUME NEW t \in Threads, NEW c \in Clients, NEW e \in Executions, Acquire(t, c, e)
      PROVE  Unfinished'
  BY <1>2 DEF Acquire, Goto, Unfinished, Undecided, IInv, TypeOK
<1>3. ASSUME NEW t \in Threads, NEW c \in Clients, NEW e \in Executions, Schedule(t, c, e)
      PROVE  Unfinished'
  <2>1. ASSUME NEW u \in Threads, pc[u] \in Undecided PROVE disk'[cur[u]] = disk[cur[u]]
    <3>1. cur[u] \in Executions /\ cur[u] # e
      BY <1>3, <2>1, Inside DEF Schedule, Unused, Undecided
    <3>2. QED
      BY <1>3, <3>1 DEF Schedule, IInv, TypeOK
  <2>2. QED
    BY <1>3, <2>1 DEF Schedule, Unfinished
<1>4. CASE Crash
  BY <1>4 DEF Crash, Unfinished, Undecided
<1>5. CASE UNCHANGED vars
  BY <1>5 DEF vars, Unfinished
<1>6. QED
  BY <1>1, <1>2, <1>3, <1>4, <1>5 DEF Next

EndedStays ==
    \A e \in Executions : disk[e] # NoRecord /\ disk[e].state \in Terminal => disk'[e] = disk[e]

\* The record of an execution that has ended is never written again, neither by
\* the except clause that follows a failing save nor by another request
\* (client_execution/engine.py:38-79).
THEOREM EndedIsFinal == Spec => [][EndedStays]_vars
<1>1. Init => Unfinished
  BY DEF Init, Unfinished, Undecided
<1>2. ASSUME IInv, Unfinished, Next, NEW e \in Executions,
             disk[e] # NoRecord /\ disk[e].state \in Terminal
      PROVE  disk'[e] = disk[e]
  <2>1. ASSUME NEW t \in Threads, Work(t) PROVE disk'[e] = disk[e]
    <3>1. Writes(t) /\ Advances(t)
      BY <1>2, <2>1, WorkWrites, WorkAdvances
    <3>2. QED
      BY <1>2, <3>1 DEF Writes, Advances, Over
  <2>2. ASSUME NEW t \in Threads, NEW c \in Clients, NEW f \in Executions,
               Acquire(t, c, f) \/ Schedule(t, c, f)
        PROVE  disk'[e] = disk[e]
    BY <1>2, <2>2 DEF Acquire, Schedule, Unused, IInv, TypeOK
  <2>3. CASE Crash
    BY <2>3 DEF Crash
  <2>4. QED
    BY <1>2, <2>1, <2>2, <2>3 DEF Next
<1>3. IInv /\ Unfinished /\ [Next]_vars => [EndedStays]_vars
  BY <1>2 DEF EndedStays
<1>4. QED
  BY <1>1, <1>3, NextUnfinished, Invariance, PTL DEF Spec

-----------------------------------------------------------------------------
(***************************************************************************)
(* An execution runs down: the labels from create to the release of the    *)
(* lock, the failing save of each leading to a clause further on.          *)
(***************************************************************************)
StepsFrom ==
    [label \in Labels |->
        CASE label = "idle"                -> 0
          [] label \in {"leave", "escape"} -> 1
          [] label = "fail late"           -> 2
          [] label = "compensate late"     -> 3
          [] label = "except"              -> 4
          [] label \in {"complete", "fail"}     -> 5
          [] label \in {"resume", "compensate"} -> 6
          [] label = "record"              -> 7
          [] label = "link"                -> 8
          [] label = "inflight"            -> 9
          [] label = "call"                -> 10
          [] label = "resolve"             -> 11
          [] label = "start"               -> 12
          [] label = "create"              -> 13]

Left(t) == StepsFrom[pc[t]]

RunsDown ==
    \A t \in Threads : /\ Left(t) \in 0..13
                       /\ pc[t] # "idle" => Left(t)' <= Left(t)
                       /\ Work(t) => Left(t)' < Left(t)

LEMMA StepsLeft ==
    /\ StepsFrom["idle"] = 0 /\ StepsFrom["leave"] = 1 /\ StepsFrom["escape"] = 1
    /\ StepsFrom["fail late"] = 2 /\ StepsFrom["compensate late"] = 3 /\ StepsFrom["except"] = 4
    /\ StepsFrom["complete"] = 5 /\ StepsFrom["fail"] = 5 /\ StepsFrom["resume"] = 6
    /\ StepsFrom["compensate"] = 6 /\ StepsFrom["record"] = 7 /\ StepsFrom["link"] = 8
    /\ StepsFrom["inflight"] = 9 /\ StepsFrom["call"] = 10 /\ StepsFrom["resolve"] = 11
    /\ StepsFrom["start"] = 12 /\ StepsFrom["create"] = 13
BY DEF StepsFrom, Labels

LEMMA StepsFromNat == \A label \in Labels : StepsFrom[label] \in 0..13
<1>1. \A n \in {0, 1, 2, 3, 4, 5, 6, 7, 8, 9, 10, 11, 12, 13} : n \in 0..13
  OBVIOUS
<1>2. QED
  BY <1>1, StepsLeft, Zenon DEF Labels

\* Where each label leads.
Onward ==
    [label \in Labels |->
        CASE label = "create"          -> {"start", "escape"}
          [] label = "start"           -> {"resolve", "escape"}
          [] label = "resolve"         -> {"call", "except"}
          [] label = "call"            -> {"inflight", "except"}
          [] label = "inflight"        -> {"link", "except"}
          [] label = "link"            -> {"record", "resume", "complete", "except"}
          [] label = "resume"          -> {"complete", "except"}
          [] label = "complete"        -> {"leave", "except"}
          [] label = "record"          -> {"compensate", "except"}
          [] label = "compensate"      -> {"fail", "except"}
          [] label = "fail"            -> {"leave", "except"}
          [] label = "except"          -> {"compensate late", "escape"}
          [] label = "compensate late" -> {"fail late", "escape"}
          [] label = "fail late"       -> {"leave", "escape"}
          [] label = "leave"           -> {"idle"}
          [] label = "escape"          -> {"idle"}
          [] label = "idle"            -> {}]

LEMMA OnwardDescends ==
    \A label \in Labels : \A next \in Onward[label] : StepsFrom[next] < StepsFrom[label]
<1>1. /\ StepsFrom["start"] < StepsFrom["create"]
      /\ StepsFrom["escape"] < StepsFrom["create"]
      /\ StepsFrom["resolve"] < StepsFrom["start"]
      /\ StepsFrom["escape"] < StepsFrom["start"]
      /\ StepsFrom["call"] < StepsFrom["resolve"]
      /\ StepsFrom["except"] < StepsFrom["resolve"]
      /\ StepsFrom["inflight"] < StepsFrom["call"]
      /\ StepsFrom["except"] < StepsFrom["call"]
      /\ StepsFrom["link"] < StepsFrom["inflight"]
      /\ StepsFrom["except"] < StepsFrom["inflight"]
      /\ StepsFrom["record"] < StepsFrom["link"]
      /\ StepsFrom["resume"] < StepsFrom["link"]
      /\ StepsFrom["complete"] < StepsFrom["link"]
      /\ StepsFrom["except"] < StepsFrom["link"]
      /\ StepsFrom["complete"] < StepsFrom["resume"]
      /\ StepsFrom["except"] < StepsFrom["resume"]
      /\ StepsFrom["leave"] < StepsFrom["complete"]
      /\ StepsFrom["except"] < StepsFrom["complete"]
      /\ StepsFrom["compensate"] < StepsFrom["record"]
      /\ StepsFrom["except"] < StepsFrom["record"]
      /\ StepsFrom["fail"] < StepsFrom["compensate"]
      /\ StepsFrom["except"] < StepsFrom["compensate"]
      /\ StepsFrom["leave"] < StepsFrom["fail"]
      /\ StepsFrom["except"] < StepsFrom["fail"]
      /\ StepsFrom["compensate late"] < StepsFrom["except"]
      /\ StepsFrom["escape"] < StepsFrom["except"]
      /\ StepsFrom["fail late"] < StepsFrom["compensate late"]
      /\ StepsFrom["escape"] < StepsFrom["compensate late"]
      /\ StepsFrom["leave"] < StepsFrom["fail late"]
      /\ StepsFrom["escape"] < StepsFrom["fail late"]
      /\ StepsFrom["idle"] < StepsFrom["leave"]
      /\ StepsFrom["idle"] < StepsFrom["escape"]
  BY DEF StepsFrom, Labels
<1>2. /\ Onward["create"] = {"start", "escape"}
      /\ Onward["start"] = {"resolve", "escape"}
      /\ Onward["resolve"] = {"call", "except"}
      /\ Onward["call"] = {"inflight", "except"}
      /\ Onward["inflight"] = {"link", "except"}
      /\ Onward["link"] = {"record", "resume", "complete", "except"}
      /\ Onward["resume"] = {"complete", "except"}
      /\ Onward["complete"] = {"leave", "except"}
      /\ Onward["record"] = {"compensate", "except"}
      /\ Onward["compensate"] = {"fail", "except"}
      /\ Onward["fail"] = {"leave", "except"}
      /\ Onward["except"] = {"compensate late", "escape"}
      /\ Onward["compensate late"] = {"fail late", "escape"}
      /\ Onward["fail late"] = {"leave", "escape"}
      /\ Onward["leave"] = {"idle"}
      /\ Onward["escape"] = {"idle"}
      /\ Onward["idle"] = {}
  BY DEF Onward, Labels
<1>3. QED
  BY <1>1, <1>2, Zenon DEF Labels

LEMMA WorkGoesOn ==
    ASSUME TypeOK, NEW t \in Threads, Work(t)
    PROVE  pc'[t] \in Onward[pc[t]]
<1> USE DEF Onward, Labels, At, Goto, TypeOK
<1>1. CASE Start(t) \/ Resume(t) \/ Complete(t) \/ Compensate(t) \/ Fail(t)
  BY <1>1 DEF Start, Resume, Complete, Compensate, Fail, Transition
<1>2. CASE CompensateLate(t) \/ FailLate(t)
  BY <1>2 DEF CompensateLate, FailLate, Transition
<1>3. CASE Create(t) \/ Link(t) \/ RecordFailure(t) \/ Except(t)
  BY <1>3 DEF Create, Link, RecordFailure, Except, SaveFields, AfterLink
<1>4. CASE Resolve(t) \/ Call(t) \/ WorkflowEnds(t)
  BY <1>4 DEF Resolve, Call, WorkflowEnds, Transition
<1>5. CASE Leave(t) \/ Escape(t)
  BY <1>5 DEF Leave, Escape, ReleaseLock
<1>6. QED
  BY <1>1, <1>2, <1>3, <1>4, <1>5 DEF Work

\* Every step of an execution brings the release of its client's lock nearer, and
\* no other request, failing save or crash puts it off: it takes at most 13 steps,
\* the end of the workflow being one (client_execution/engine.py:34-79).
THEOREM ExecutionsRunDown == Spec => [][RunsDown]_vars
<1>1. ASSUME IInv, IInv', Next, NEW t \in Threads
      PROVE  /\ Left(t) \in 0..13
             /\ pc[t] # "idle" => Left(t)' <= Left(t)
             /\ Work(t) => Left(t)' < Left(t)
  <2>1. pc[t] \in Labels /\ pc'[t] \in Labels
    BY <1>1 DEF IInv, TypeOK
  <2>2. Left(t) \in 0..13 /\ Left(t)' \in 0..13
    BY <2>1, StepsFromNat DEF Left
  <2>3. ASSUME Work(t) PROVE Left(t)' < Left(t)
    BY <1>1, <2>1, <2>3, WorkGoesOn, OnwardDescends DEF Left, IInv
  <2>4. ASSUME pc'[t] = pc[t] PROVE Left(t)' = Left(t)
    BY <2>4 DEF Left
  <2>5. ASSUME NEW u \in Threads, u # t, Work(u) PROVE pc'[t] = pc[t]
    BY <1>1, <2>5, WorkWrites DEF Writes
  <2>6. ASSUME pc[t] # "idle", NEW u \in Threads, NEW c \in Clients, NEW e \in Executions,
               Acquire(u, c, e) \/ Schedule(u, c, e)
        PROVE  pc'[t] = pc[t]
    BY <1>1, <2>6 DEF Acquire, Schedule, At, Goto, IInv, TypeOK
  <2>7. ASSUME Crash PROVE Left(t)' = 0
    BY <2>7 DEF Crash, Left, StepsFrom, Labels
  <2>8. pc[t] # "idle" => Left(t)' < Left(t) \/ Left(t)' = Left(t) \/ Left(t)' = 0
    BY <1>1, <2>3, <2>4, <2>5, <2>6, <2>7 DEF Next
  <2>9. QED
    BY <2>2, <2>3, <2>8
<1>2. IInv /\ IInv' /\ [Next]_vars => [RunsDown]_vars
  BY <1>1 DEF RunsDown
<1>3. QED
  BY <1>2, Invariance, PTL DEF Spec

-----------------------------------------------------------------------------
(***************************************************************************)
(* The cockpit's steps are steps of the executions or leave them alone: a  *)
(* command that waits is for a client that exists.                         *)
(***************************************************************************)
LEMMA StepIsDelegated == Commands /\ [CNext]_<<vars, cockpit>> => [Next]_vars
<1> SUFFICES ASSUME Commands, [CNext]_<<vars, cockpit>> PROVE [Next]_vars
  OBVIOUS
<1>1. ASSUME NEW t \in Threads, Begin(t)
      PROVE  [Next]_vars
  BY <1>1 DEF Begin, Commands, Next, vars
<1>2. ASSUME NEW t \in Threads, Delegated(t)
      PROVE  [Next]_vars
  BY <1>2 DEF Delegated, Next
<1>3. ASSUME CCrash
      PROVE  [Next]_vars
  BY <1>3 DEF CCrash, Next
<1>4. ASSUME NEW t \in Threads,
             \/ \E c \in Clients : Trigger(t, c) \/ Execute(t, c)
             \/ \E e \in Executions : Retry(t, e)
      PROVE  UNCHANGED vars
  BY <1>4 DEF Trigger, Execute, Retry, Admit
<1>5. ASSUME \/ \E c \in Clients : Lock(c) \/ Unlock(c)
             \/ ReadRecords \/ Join \/ Show
             \/ UNCHANGED <<vars, cockpit>>
      PROVE  UNCHANGED vars
  BY <1>5 DEF Lock, Unlock, ReadRecords, Join, Show
<1>6. QED
  BY <1>1, <1>2, <1>3, <1>4, <1>5 DEF CNext

LEMMA InitCInv == CInit => CInv
<1> SUFFICES ASSUME CInit PROVE CInv
  OBVIOUS
<1>1. IInv /\ Fitting
  BY InitIInv, InitFitting DEF CInit
<1>2. CockpitInv
  BY DEF CInit, Init, CockpitInv, Commands, Locking, Sources, Row
<1>3. QED
  BY <1>1, <1>2 DEF CInv

\* What FAILED executions there are stays.
LEMMA FailedStays ==
    ASSUME NEW e, NEW c, FailedFor(e, c),
           \A x \in Executions : Keeps(disk[x], disk'[x])
    PROVE  FailedFor(e, c)'
BY DEF FailedFor, Keeps

-----------------------------------------------------------------------------
\* A command is admitted.
LEMMA AdmitCInv ==
    ASSUME CInv, NEW t \in Threads,
           NEW how \in {"trigger", "execute", "retry"}, NEW c \in Clients, NEW of,
           Admit(t, how, c, of),
           how = "trigger" => c \notin locked,
           IF how = "retry" THEN FailedFor(of, c) ELSE of = NoExecution
    PROVE  CockpitInv'
<1> USE DEF CInv, CockpitInv, Admit
<1>1. /\ command' = [command EXCEPT ![t] = Command(how, c, of)]
      /\ UNCHANGED <<disk, pc, cur, client, work, locked, admitted, source, row>>
  BY DEF vars
<1>2. \A u \in Threads : command'[u] = IF u = t THEN Command(how, c, of) ELSE command[u]
  BY <1>1 DEF Commands
<1>3. \A e, d : FailedFor(e, d)' <=> FailedFor(e, d)
  BY <1>1 DEF FailedFor
<1>4. Commands'
  <2>1. command' = [u \in Threads |-> command'[u]]
    BY <1>1 DEF Commands
  <2>2. ASSUME NEW u \in Threads, command'[u] # NoCommand
        PROVE  /\ command'[u].how \in {"trigger", "execute", "retry"}
               /\ command'[u].client \in Clients
               /\ At(u, "idle")'
               /\ IF command'[u].how = "retry"
                  THEN FailedFor(command'[u].of, command'[u].client)
                  ELSE command'[u].of = NoExecution
    <3>1. CASE u = t
      BY <3>1, <1>1, <1>2 DEF Command, At
    <3>2. CASE u # t
      BY <3>2, <2>2, <1>1, <1>2 DEF Commands, At
    <3>3. QED
      BY <3>1, <3>2
  <2>3. QED
    BY <2>1, <2>2, <1>3 DEF Commands
<1>5. Locking'
  BY <1>1, <1>2 DEF Locking, Command
<1>6. Sources' /\ Row'
  BY <1>1, <1>3 DEF Sources, Row
<1>7. QED
  BY <1>4, <1>5, <1>6

\* A command is started, or refused as its client is busy.
LEMMA BeginCInv ==
    ASSUME CInv, NEW t \in Threads, Begin(t)
    PROVE  CockpitInv'
<1> USE DEF CInv, CockpitInv
<1> DEFINE c == command[t].client
           of == command[t].of
<1>1. /\ command[t] # NoCommand /\ c \in Clients /\ pc[t] = "idle"
      /\ IF command[t].how = "retry" THEN FailedFor(of, c) ELSE of = NoExecution
      /\ command' = [command EXCEPT ![t] = NoCommand]
      /\ UNCHANGED <<locked, admitted, row, work>>
  BY DEF Begin, Commands, At, Acquire, Schedule, vars
<1>2. \A u \in Threads : command'[u] = IF u = t THEN NoCommand ELSE command[u]
  BY <1>1 DEF Commands
<1>3. Row' /\ Locking'
  BY <1>1, <1>2 DEF Row, Locking
<1>4. ASSUME \A x \in Executions : Keeps(disk[x], disk'[x]),
             \A u \in Threads \ {t} : pc'[u] = pc[u]
      PROVE  Commands'
  <2>1. command' = [u \in Threads |-> command'[u]]
    BY <1>1 DEF Commands
  <2>2. QED
    BY <2>1, <1>2, <1>4, FailedStays DEF Commands, At
<1>5. CASE UNCHANGED <<vars, source>>
  <2>1. UNCHANGED <<disk, pc, cur, client, source>>
    BY <1>5 DEF vars
  <2>2. Commands'
    BY <2>1, <1>4 DEF Keeps
  <2>3. Sources'
    BY <2>1 DEF Sources, FailedFor
  <2>4. QED
    BY <1>3, <2>2, <2>3
<1>6. ASSUME NEW e \in Executions, Acquire(t, c, e),
             source' = [source EXCEPT ![e] = of]
      PROVE  CockpitInv'
  <2>1. /\ disk[e] = NoRecord /\ \A u \in Threads : cur[u] # e
        /\ pc' = [pc EXCEPT ![t] = "create"]
        /\ cur' = [cur EXCEPT ![t] = e] /\ client' = [client EXCEPT ![t] = c]
        /\ disk' = disk
    BY <1>6 DEF Acquire, Unused, Goto
  <2>2. Commands'
    BY <2>1, <1>4 DEF Keeps, IInv, TypeOK
  <2>3. \A x, y : FailedFor(x, y)' <=> FailedFor(x, y)
    BY <2>1 DEF FailedFor
  <2>4. of \in Executions \cup {NoExecution} /\ (of # NoExecution => FailedFor(of, c))
    BY <1>1 DEF FailedFor
  <2>5. ASSUME NEW u \in Threads, pc'[u] # "idle", source'[cur'[u]] # NoExecution
        PROVE  FailedFor(source'[cur'[u]], client'[u])
    <3>1. CASE u = t
      BY <3>1, <2>1, <2>4, <2>5, <1>6 DEF Sources, IInv, TypeOK
    <3>2. CASE u # t
      BY <3>2, <2>1, <2>5, <1>6 DEF Sources, IInv, TypeOK
    <3>3. QED
      BY <3>1, <3>2
  <2>6. Sources'
    BY <2>1, <2>3, <2>4, <2>5, <1>6 DEF Sources
  <2>7. QED
    BY <1>3, <2>2, <2>6
<1>7. ASSUME NEW e \in Executions, Schedule(t, c, e), command[t].how # "retry",
             source' = [source EXCEPT ![e] = of]
      PROVE  CockpitInv'
  <2>1. /\ disk[e] = NoRecord /\ \A u \in Threads : cur[u] # e
        /\ disk' = [disk EXCEPT ![e] = New(c, FALSE)]
        /\ UNCHANGED <<pc, cur, client>>
        /\ of = NoExecution
    BY <1>1, <1>7 DEF Schedule, Unused
  <2>2. \A x \in Executions : Keeps(disk[x], disk'[x])
    BY <2>1 DEF Keeps, IInv, TypeOK
  <2>3. Commands'
    BY <2>1, <2>2, <1>4
  <2>4. Sources'
    <3>1. \A x \in Executions : x # e => disk'[x] = disk[x] /\ source'[x] = source[x]
      BY <2>1, <1>7 DEF Sources, IInv, TypeOK
    <3>2. source'[e] = NoExecution /\ source' \in [Executions -> Executions \cup {NoExecution}]
      BY <2>1, <1>7 DEF Sources
    <3>3. \A u \in Threads : pc[u] # "idle" => cur[u] \in Executions
      BY Inside
    <3>4. \A x, y : FailedFor(x, y) => FailedFor(x, y)'
      BY <2>2, FailedStays
    <3>5. QED
      BY <2>1, <3>1, <3>2, <3>3, <3>4 DEF Sources
  <2>5. QED
    BY <1>3, <2>3, <2>4
<1>8. QED
  BY <1>5, <1>6, <1>7 DEF Begin

\* A step of execute: commands wait with threads that do nothing else.
LEMMA DelegatedCInv ==
    ASSUME CInv, NEW t \in Threads, Delegated(t)
    PROVE  CockpitInv'
<1> USE DEF CInv, CockpitInv
<1>1. Writes(t) /\ UNCHANGED <<locked, admitted, command, source, row>>
  BY WorkWrites DEF Delegated, cockpit
<1>2. /\ pc[t] # "idle"
      /\ \A u \in Threads \ {t} : pc'[u] = pc[u] /\ cur'[u] = cur[u] /\ client'[u] = client[u]
      /\ pc'[t] # "idle" => cur'[t] = cur[t] /\ client'[t] = client[t]
      /\ \A x \in Executions : work[x] \in {"completed", "failed"} => work'[x] = work[x]
      /\ \A x \in Executions : disk'[x] = disk[x] \/ (x = cur[t] /\ disk'[x].client = client[t])
  BY <1>1 DEF Writes
<1>3. \A x \in Executions : Keeps(disk[x], disk'[x])
  BY <1>1 DEF Writes, Keeps
<1>4. \A x, y : FailedFor(x, y) => FailedFor(x, y)'
  BY <1>3, FailedStays
<1>5. Commands'
  <2>1. command[t] = NoCommand
    BY <1>2 DEF Commands, At
  <2>2. QED
    BY <2>1, <1>1, <1>2, <1>4 DEF Commands, At
<1>6. Locking'
  BY <1>1 DEF Locking
<1>7. Sources'
  <2>1. ASSUME NEW e \in Executions, disk'[e] # NoRecord, source[e] # NoExecution
        PROVE  FailedFor(source[e], disk'[e].client)
    <3>1. CASE disk'[e] = disk[e]
      BY <2>1, <3>1 DEF Sources
    <3>2. CASE e = cur[t] /\ disk'[e].client = client[t]
      BY <2>1, <3>2, <1>2 DEF Sources
    <3>3. QED
      BY <3>1, <3>2, <1>2
  <2>2. \A u \in Threads : pc'[u] # "idle" => /\ pc[u] # "idle"
                                              /\ cur'[u] = cur[u] /\ client'[u] = client[u]
    BY <1>2
  <2>3. QED
    BY <2>1, <2>2, <1>1, <1>4 DEF Sources
<1>8. Row'
  BY <1>1, <1>2, FitsLater DEF Row, Fits
<1>9. QED
  BY <1>5, <1>6, <1>7, <1>8

\* The cockpit lock is taken and given back.
LEMMA LockCInv ==
    ASSUME CInv, NEW c \in Clients, Lock(c) \/ Unlock(c)
    PROVE  CockpitInv'
<1> USE DEF CInv, CockpitInv
<1>1. UNCHANGED <<disk, pc, cur, client, work, command, source, row>>
  BY DEF Lock, Unlock, vars
<1>2. Commands' /\ Sources' /\ Row'
  BY <1>1 DEF Commands, Sources, Row, FailedFor, At
<1>3. Locking'
  BY <1>1 DEF Lock, Unlock, Locking
<1>4. QED
  BY <1>2, <1>3

\* The monitor reads, joins and shows.
LEMMA MonitorCInv ==
    ASSUME CInv, ReadRecords \/ Join \/ Show
    PROVE  CockpitInv'
<1> USE DEF CInv, CockpitInv
<1>1. UNCHANGED <<disk, pc, cur, client, work, locked, admitted, command, source>>
  BY DEF ReadRecords, Join, Show, vars
<1>2. Commands' /\ Sources' /\ Locking'
  BY <1>1 DEF Commands, Sources, Locking, FailedFor, At
<1>3. Row'
  <2>1. CASE ReadRecords
    <3>1. PICK e \in Executions :
            /\ disk[e] # NoRecord
            /\ row' = [of |-> e, record |-> disk[e], instance |-> "unread"]
      BY <2>1 DEF ReadRecords
    <3>2. disk[e] \in Record /\ Fits(disk[e], work[e])
      BY <3>1 DEF IInv, TypeOK, Fitting
    <3>3. QED
      BY <3>1, <3>2, <1>1 DEF Row
  <2>2. CASE Join
    <3>1. /\ row \in [of: Executions, record: Record,
                      instance: {"unread", "none", "completed", "failed"}]
          /\ Fits(row.record, work[row.of])
      BY <2>2 DEF Join, Row
    <3>2. PICK x : x = IF row.record.linked THEN work[row.of] ELSE "none"
      OBVIOUS
    <3>3. x \in {"none", "completed", "failed"}
      BY <3>1, <3>2 DEF Fits
    <3>4. row' = [row EXCEPT !.instance = x]
      BY <2>2, <3>2 DEF Join
    <3>5. /\ row'.of = row.of /\ row'.record = row.record /\ row'.instance = x
          /\ row' \in [of: Executions, record: Record,
                       instance: {"unread", "none", "completed", "failed"}]
      BY <3>1, <3>3, <3>4
    <3>6. QED
      BY <3>1, <3>2, <3>5, <1>1 DEF Row
  <2>3. CASE Show
    BY <2>3 DEF Show, Row
  <2>4. QED
    BY <2>1, <2>2, <2>3
<1>4. QED
  BY <1>2, <1>3

LEMMA CCrashCInv ==
    ASSUME CInv, CCrash
    PROVE  CockpitInv'
<1> USE DEF CInv, CockpitInv
<1>1. /\ locked' = {} /\ admitted' = [c \in Clients |-> {}]
      /\ command' = [t \in Threads |-> NoCommand] /\ row' = NoRow
      /\ pc' = [t \in Threads |-> "idle"]
      /\ UNCHANGED <<source, disk>>
  BY DEF CCrash, Crash
<1>2. QED
  BY <1>1 DEF Commands, Locking, Sources, Row, FailedFor

LEMMA NextCInv == CInv /\ [CNext]_<<vars, cockpit>> => CInv'
<1> SUFFICES ASSUME CInv, [CNext]_<<vars, cockpit>> PROVE CInv'
  OBVIOUS
<1>1. IInv' /\ Fitting'
  BY StepIsDelegated, NextIInv, NextFitting DEF CInv, CockpitInv
<1>2. ASSUME NEW t \in Threads, NEW c \in Clients, Trigger(t, c) \/ Execute(t, c)
      PROVE  CockpitInv'
  BY <1>2, AdmitCInv DEF Trigger, Execute
<1>3. ASSUME NEW t \in Threads, NEW e \in Executions, Retry(t, e)
      PROVE  CockpitInv'
  <2>1. disk[e].client \in Clients /\ FailedFor(e, disk[e].client)
    BY <1>3 DEF Retry, FailedFor, CInv, IInv, TypeOK, Record
  <2>2. QED
    BY <2>1, <1>3, AdmitCInv DEF Retry
<1>4. ASSUME UNCHANGED <<vars, cockpit>>
      PROVE  CockpitInv'
  <2>1. /\ UNCHANGED <<disk, pc, cur, client, work>>
        /\ UNCHANGED <<locked, admitted, command, source, row>>
    BY <1>4 DEF vars, cockpit
  <2>2. Commands' /\ Sources'
    BY <2>1 DEF CInv, CockpitInv, Commands, Sources, FailedFor, At
  <2>3. Locking' /\ Row'
    BY <2>1 DEF CInv, CockpitInv, Locking, Row
  <2>4. QED
    BY <2>2, <2>3 DEF CockpitInv
<1>5. CockpitInv'
  <2>1. CASE \E t \in Threads : Begin(t) \/ Delegated(t)
    BY <2>1, BeginCInv, DelegatedCInv
  <2>2. CASE \/ \E c \in Clients : Lock(c) \/ Unlock(c)
             \/ ReadRecords \/ Join \/ Show \/ CCrash
    BY <2>2, LockCInv, MonitorCInv, CCrashCInv
  <2>3. QED
    BY <2>1, <2>2, <1>2, <1>3, <1>4 DEF CNext
<1>6. QED
  BY <1>1, <1>5 DEF CInv

-----------------------------------------------------------------------------
\* In every state of every behaviour the invariant holds.
THEOREM CockpitInvariance == CSpec => []CInv
BY InitCInv, NextCInv, PTL DEF CSpec

\* Type correctness; a command waits with a thread that executes nothing.
THEOREM CockpitTypeCorrect == CSpec => []CTypeOK
<1>1. CInv => CTypeOK
  <2> SUFFICES ASSUME CInv PROVE CTypeOK
    OBVIOUS
  <2>1. \A t \in Threads : command[t] # NoCommand =>
          /\ command[t].how \in {"trigger", "execute", "retry"}
          /\ command[t].client \in Clients
          /\ command[t].of \in Executions \cup {NoExecution}
          /\ At(t, "idle")
    BY DEF CInv, CockpitInv, Commands, FailedFor
  <2>2. row # NoRow => row.of \in Executions /\ row.record \in Record
    BY DEF CInv, CockpitInv, Row
  <2>3. QED
    BY <2>1, <2>2 DEF CTypeOK, CInv, CockpitInv, Locking, Sources
<1>2. QED
  BY <1>1, CockpitInvariance, PTL

(***************************************************************************)
(* What a command has read still holds when it is started                  *)
(* (client_controls.py:19-21, execution_controls.py:26-31): a FAILED       *)
(* record is never written again with another state or client.             *)
(***************************************************************************)
THEOREM CommandsAreAdmittedInTime == CSpec => []AdmittedInTime
<1>1. CInv => AdmittedInTime
  BY DEF CInv, CockpitInv, Locking, Sources, FailedFor, AdmittedInTime
<1>2. QED
  BY <1>1, CockpitInvariance, PTL

(***************************************************************************)
(* The monitor shows nothing that never was (execution_monitor.py:16-26):  *)
(* an instance has ended when a record names it, and does not change then. *)
(***************************************************************************)
THEOREM MonitorAgreesAlways == CSpec => []MonitorAgrees
<1>1. CInv => MonitorAgrees
  BY DEF CInv, CockpitInv, Row, Fits, MonitorAgrees
<1>2. QED
  BY <1>1, CockpitInvariance, PTL

\* Whatever the cockpit commands, its executions are executions of COS-002.
THEOREM CockpitImplementsExecution == CSpec => ImplementsExecution
<1>1. CInit => Init
  BY DEF CInit
<1>2. CInv /\ [CNext]_<<vars, cockpit>> => [Next]_vars
  BY StepIsDelegated DEF CInv, CockpitInv
<1>3. QED
  BY <1>1, <1>2, CockpitInvariance, PTL DEF CSpec, Spec, ImplementsExecution

\* So the client lock and the honesty of the records hold under the cockpit too.
THEOREM CockpitKeepsTheLock == CSpec => []OpenIsHeld
BY CockpitImplementsExecution, OpenIsHeldAlways, PTL DEF ImplementsExecution

\* And so does what the records say, the finality of those that ended and the
\* lifecycle of COS-002, whatever is locked, commanded and retried.
THEOREM CockpitKeepsTheRecords ==
    CSpec => []RecordsAreHonest /\ [][EndedStays]_vars /\ ImplementsLifecycle
BY CockpitImplementsExecution, RecordsAreHonestAlways, EndedIsFinal,
   RecordsImplementLifecycle, PTL DEF ImplementsExecution

-----------------------------------------------------------------------------
(***************************************************************************)
(* The screen of the cockpit, a machine of its own: its server is any.     *)
(* The invariant follows a created client through the answers of the       *)
(* refreshes that were asked since the creation was answered.              *)
(***************************************************************************)

\* The calls of a refresh and of a poll.
Refreshed == [at        : {"idle", "asking", "painted"},
              executions: Versions \cup {Pending, Failed},
              clients   : (SUBSET NewClients) \cup {Pending, Failed}]
Polled == [at        : {"idle", "asking"},
           executions: Versions \cup {Pending},
           clients   : {Pending}]

STyped ==
    /\ now \in Versions
    /\ clients \in SUBSET NewClients
    /\ data \in [executions: Versions \cup {Failed}, clients: SUBSET NewClients]
    /\ loading \in BOOLEAN
    /\ refresh \in [Refreshes -> Refreshed]
    /\ poll \in [Polls -> Polled]
    /\ create \in [NewClients -> {"idle", "posting", "refreshing", "failed", "done"}]
    /\ painter \in Refreshes \cup {NoRefresh}
    /\ ahead \in [NewClients -> SUBSET Refreshes]

\* A refresh that was not ahead of the creation of c is answered with c.
Follows(c, r) ==
    r \notin ahead[c] /\ refresh[r].at = "asking" =>
        refresh[r].clients \in {Pending, Failed} \/ c \in refresh[r].clients

\* The creation of c: its own refresh starts when the POST was answered, and it
\* is done when that one was painted.
Creation(c) ==
    /\ create[c] \in {"idle", "posting", "failed"} => refresh[c].at = "idle"
    /\ create[c] \in {"refreshing", "done"} =>
         c \in clients /\ c \notin ahead[c] /\ \A r \in Refreshes : Follows(c, r)
    /\ create[c] = "done" =>
         /\ painter \in Refreshes /\ refresh[painter].at = "painted"
         /\ \/ painter \in ahead[c]
            \/ refresh[painter].clients = Failed
            \/ c \in data.clients

SInv == STyped /\ \A c \in NewClients : Creation(c)

-----------------------------------------------------------------------------
\* A call that was not asked, or asked and not answered.
LEMMA NotAnswered ==
    /\ Asked \in Refreshed /\ NotAsked \in Refreshed /\ Asked \in Polled /\ NotAsked \in Polled
    /\ Asked.at = "asking" /\ Asked.clients = Pending /\ NotAsked.at = "idle"
<1>1. ASSUME NEW A, NEW E, NEW C, NEW a \in A, NEW e \in E, NEW c \in C
      PROVE  [at |-> a, executions |-> e, clients |-> c]
                \in [at: A, executions: E, clients: C]
  OBVIOUS
<1>2. /\ \A S, x, y : x \in S \cup {x, y}
      /\ \A S, x : x \in S \cup {x}
      /\ \A x : x \in {x}
  OBVIOUS
<1>3. /\ "idle" \in {"idle", "asking"} /\ "idle" \in {"idle", "asking", "painted"}
      /\ "asking" \in {"idle", "asking"} /\ "asking" \in {"idle", "asking", "painted"}
  OBVIOUS
<1>4. /\ Pending \in Versions \cup {Pending, Failed}
      /\ Pending \in Versions \cup {Pending}
      /\ Pending \in (SUBSET NewClients) \cup {Pending, Failed}
      /\ Pending \in {Pending}
  BY <1>2
<1>5. Asked \in Refreshed /\ NotAsked \in Refreshed
  BY <1>1, <1>3, <1>4, Zenon DEF Asked, NotAsked, Refreshed
<1>6. Asked \in Polled /\ NotAsked \in Polled
  BY <1>1, <1>3, <1>4, Zenon DEF Asked, NotAsked, Polled
<1>7. QED
  BY <1>5, <1>6 DEF Asked, NotAsked

LEMMA SInitSInv == SInit => SInv
<1> SUFFICES ASSUME SInit PROVE SInv
  OBVIOUS
<1>1. MaxVersion \in Nat /\ Mount \notin NewClients
  BY ScreenAssumption
<1>2. Asked \in Refreshed /\ NotAsked \in Refreshed /\ NotAsked \in Polled
  BY NotAnswered
<1>3. 0 \in Versions
  BY <1>1 DEF Versions
<1>4. STyped
  BY <1>2, <1>3 DEF SInit, STyped
<1>5. ASSUME NEW c \in NewClients
      PROVE  Creation(c)
  <2>1. create[c] = "idle" /\ refresh[c] = NotAsked
    BY <1>1 DEF SInit, Refreshes
  <2>2. QED
    BY <2>1, NotAnswered DEF Creation
<1>6. QED
  BY <1>4, <1>5 DEF SInv

\* A step that concerns no refresh and no creation.
LEMMA OtherSInv ==
    ASSUME SInv, STyped', UNCHANGED <<refresh, create, painter, ahead>>,
           clients \subseteq clients', data'.clients = data.clients
    PROVE  SInv'
<1>1. ASSUME NEW c \in NewClients
      PROVE  Creation(c)'
  BY DEF SInv, Creation, Follows
<1>2. QED
  BY <1>1 DEF SInv

\* What an answer and a paint make of a refresh.
LEMMA ExecutionsAnswered ==
    ASSUME NEW f \in Refreshed, NEW e \in Versions \cup {Pending, Failed}
    PROVE  /\ [f EXCEPT !.executions = e] \in Refreshed
           /\ [f EXCEPT !.executions = e].at = f.at
           /\ [f EXCEPT !.executions = e].clients = f.clients
BY DEF Refreshed

LEMMA ClientsAnswered ==
    ASSUME NEW f \in Refreshed, NEW s \in (SUBSET NewClients) \cup {Pending, Failed}
    PROVE  /\ [f EXCEPT !.clients = s] \in Refreshed
           /\ [f EXCEPT !.clients = s].at = f.at
           /\ [f EXCEPT !.clients = s].clients = s
BY DEF Refreshed

LEMMA Painted ==
    ASSUME NEW f \in Refreshed, NEW e \in Versions \cup {Pending, Failed}
    PROVE  /\ [f EXCEPT !.at = "painted", !.executions = e] \in Refreshed
           /\ [f EXCEPT !.at = "painted", !.executions = e].at = "painted"
           /\ [f EXCEPT !.at = "painted", !.executions = e].clients = f.clients
BY DEF Refreshed

LEMMA ProgressSInv == SInv /\ Progress => SInv'
<1> SUFFICES ASSUME SInv, Progress PROVE SInv'
  OBVIOUS
<1>1. now' \in Versions
  BY ScreenAssumption DEF Progress, SInv, STyped, Versions
<1>2. STyped'
  BY <1>1 DEF Progress, SInv, STyped
<1>3. QED
  BY <1>2, OtherSInv DEF Progress

LEMMA AnswerExecutionsSInv ==
    ASSUME SInv, NEW r \in Refreshes, AnswerExecutions(r)
    PROVE  SInv'
<1>1. PICK e \in {now, Failed} : refresh' = [refresh EXCEPT ![r].executions = e]
  BY DEF AnswerExecutions
<1>2. UNCHANGED <<now, clients, data, loading, poll, create, painter, ahead>>
  BY DEF AnswerExecutions
<1>3. STyped /\ e \in Versions \cup {Pending, Failed}
  BY DEF SInv, STyped
<1>4. /\ refresh' \in [Refreshes -> Refreshed]
      /\ \A q \in Refreshes :
            refresh'[q].at = refresh[q].at /\ refresh'[q].clients = refresh[q].clients
  <2> DEFINE f == [refresh[r] EXCEPT !.executions = e]
  <2>1. refresh' = [refresh EXCEPT ![r] = f]
    BY <1>1
  <2>2. refresh[r] \in Refreshed
    BY <1>3 DEF STyped
  <2>3. f \in Refreshed /\ f.at = refresh[r].at /\ f.clients = refresh[r].clients
    BY <1>3, <2>2, ExecutionsAnswered
  <2> HIDE DEF f
  <2>4. QED
    BY <1>3, <2>1, <2>3 DEF STyped
<1>5. STyped'
  BY <1>2, <1>3, <1>4 DEF STyped
<1>6. ASSUME NEW c \in NewClients
      PROVE  Creation(c)'
  BY <1>2, <1>4 DEF SInv, Creation, Follows, Refreshes
<1>7. QED
  BY <1>5, <1>6 DEF SInv

LEMMA AnswerClientsSInv ==
    ASSUME SInv, NEW r \in Refreshes, AnswerClients(r)
    PROVE  SInv'
<1>1. PICK s \in {clients, Failed} : refresh' = [refresh EXCEPT ![r].clients = s]
  BY DEF AnswerClients
<1>2. /\ UNCHANGED <<now, clients, data, loading, poll, create, painter, ahead>>
      /\ refresh[r].at = "asking"
  BY DEF AnswerClients
<1>3. STyped /\ s \in (SUBSET NewClients) \cup {Pending, Failed}
  <2>1. STyped /\ clients \in SUBSET NewClients
    BY DEF SInv, STyped
  <2>2. QED
    <3>1. CASE s = clients
      BY <2>1, <3>1
    <3>2. CASE s = Failed
      BY <2>1, <3>2
    <3>3. QED
      BY <3>1, <3>2
<1>4. /\ refresh' \in [Refreshes -> Refreshed]
      /\ \A q \in Refreshes : refresh'[q].at = refresh[q].at
      /\ \A q \in Refreshes : q # r => refresh'[q].clients = refresh[q].clients
      /\ refresh'[r].clients = s
  <2> DEFINE f == [refresh[r] EXCEPT !.clients = s]
  <2>1. refresh' = [refresh EXCEPT ![r] = f]
    BY <1>1
  <2>2. refresh[r] \in Refreshed
    BY <1>3 DEF STyped
  <2>3. f \in Refreshed /\ f.at = refresh[r].at /\ f.clients = s
    BY <1>3, <2>2, ClientsAnswered
  <2> HIDE DEF f
  <2>4. QED
    BY <1>3, <2>1, <2>3 DEF STyped
<1>5. STyped'
  BY <1>2, <1>3, <1>4 DEF STyped
<1>6. ASSUME NEW c \in NewClients
      PROVE  Creation(c)'
  <2>1. Creation(c)
    BY DEF SInv
  <2>2. create[c] \in {"refreshing", "done"} => \A q \in Refreshes : Follows(c, q)'
    BY <1>1, <1>2, <1>4, <2>1 DEF Creation, Follows
  <2>3. create[c] = "done" => painter # r
    BY <1>2, <2>1 DEF Creation
  <2>4. c \in Refreshes
    BY DEF Refreshes
  <2>5. QED
    BY <1>2, <1>4, <2>1, <2>2, <2>3, <2>4 DEF Creation
<1>7. QED
  BY <1>5, <1>6 DEF SInv

LEMMA PaintSInv ==
    ASSUME SInv, NEW r \in Refreshes, Paint(r)
    PROVE  SInv'
<1>1. /\ refresh[r].at = "asking"
      /\ refresh[r].executions # Pending /\ refresh[r].clients # Pending
      /\ data' = [executions |-> refresh[r].executions, clients |-> Listed(r)]
      /\ loading' = FALSE
      /\ refresh' = [refresh EXCEPT ![r].at = "painted", ![r].executions = Pending]
      /\ create' = [c \in NewClients |-> IF c = r THEN "done" ELSE create[c]]
      /\ painter' = r
      /\ UNCHANGED <<now, clients, poll, ahead>>
  BY DEF Paint
<1>2. STyped
  BY DEF SInv
<1>3. /\ refresh' \in [Refreshes -> Refreshed]
      /\ refresh'[r].at = "painted"
      /\ \A q \in Refreshes : q # r => refresh'[q].at = refresh[q].at
      /\ \A q \in Refreshes : refresh'[q].clients = refresh[q].clients
  <2> DEFINE f == [refresh[r] EXCEPT !.at = "painted", !.executions = Pending]
  <2>1. refresh' = [refresh EXCEPT ![r] = f]
    BY <1>1
  <2>2. refresh[r] \in Refreshed /\ Pending \in Versions \cup {Pending, Failed}
    BY <1>2 DEF STyped
  <2>3. f \in Refreshed /\ f.at = "painted" /\ f.clients = refresh[r].clients
    BY <2>2, Painted
  <2> HIDE DEF f
  <2>4. QED
    BY <1>2, <2>1, <2>3 DEF STyped
<1>4. /\ refresh[r].executions \in Versions \cup {Failed} /\ Listed(r) \in SUBSET NewClients
      /\ data'.clients = Listed(r)
  BY <1>1, <1>2 DEF STyped, Refreshed, Listed
<1>5. STyped'
  BY <1>1, <1>2, <1>3, <1>4 DEF STyped
<1>6. ASSUME NEW c \in NewClients
      PROVE  Creation(c)'
  <2>1. Creation(c) /\ c \in Refreshes
    BY DEF SInv, Refreshes
  <2>2. create'[c] = IF c = r THEN "done" ELSE create[c]
    BY <1>1
  <2>3. create[c] \in {"idle", "posting", "refreshing", "failed", "done"}
    BY <1>2 DEF STyped
  <2>4. create'[c] \in {"refreshing", "done"} => create[c] \in {"refreshing", "done"}
    BY <1>1, <2>1, <2>2, <2>3 DEF Creation
  <2>5. create[c] \in {"refreshing", "done"} => \A q \in Refreshes : Follows(c, q)'
    BY <1>1, <1>3, <2>1 DEF Creation, Follows
  <2>6. create[c] \in {"refreshing", "done"} =>
           r \in ahead[c] \/ refresh[r].clients = Failed \/ c \in data'.clients
    BY <1>1, <1>4, <2>1 DEF Creation, Follows, Listed
  <2>7. create'[c] \in {"idle", "posting", "failed"} => refresh'[c].at = "idle"
    BY <1>3, <2>1, <2>2 DEF Creation
  <2>8. QED
    BY <1>1, <1>3, <2>1, <2>4, <2>5, <2>6, <2>7 DEF Creation
<1>7. QED
  BY <1>5, <1>6 DEF SInv

\* The polls touch the executions alone.
LEMMA PollSInv ==
    ASSUME SInv, NEW p \in Polls, AskPoll(p) \/ AnswerPoll(p) \/ PaintPoll(p) \/ FailPoll(p)
    PROVE  SInv'
<1>1. STyped /\ UNCHANGED <<now, clients, loading, refresh, create, painter, ahead>>
  BY DEF SInv, AskPoll, AnswerPoll, PaintPoll, FailPoll
<1>2. Asked \in Polled /\ NotAsked \in Polled
  BY NotAnswered
<1>3. \A f \in Polled, v \in Versions : [f EXCEPT !.executions = v] \in Polled
  BY DEF Polled
<1>4. poll' \in [Polls -> Polled]
  BY <1>1, <1>2, <1>3 DEF STyped, AskPoll, AnswerPoll, PaintPoll, FailPoll
<1>5. \A d \in [executions: Versions \cup {Failed}, clients: SUBSET NewClients],
         v \in Versions :
         /\ [d EXCEPT !.executions = v] \in [executions: Versions \cup {Failed},
                                             clients: SUBSET NewClients]
         /\ [d EXCEPT !.executions = v].clients = d.clients
  OBVIOUS
<1>6. /\ data' \in [executions: Versions \cup {Failed}, clients: SUBSET NewClients]
      /\ data'.clients = data.clients
  <2>1. CASE PaintPoll(p)
    <3>1. poll[p].executions \in Versions
      BY <1>1, <2>1 DEF PaintPoll, STyped, Polled
    <3>2. QED
      BY <1>1, <1>5, <2>1, <3>1 DEF PaintPoll, STyped
  <2>2. CASE UNCHANGED data
    BY <1>1, <2>2 DEF STyped
  <2>3. QED
    BY <2>1, <2>2 DEF AskPoll, AnswerPoll, FailPoll
<1>7. STyped'
  BY <1>1, <1>4, <1>6 DEF STyped
<1>8. QED
  BY <1>1, <1>6, <1>7, OtherSInv

LEMMA StoreSInv ==
    ASSUME SInv, NEW c \in NewClients, Store(c)
    PROVE  SInv'
<1>1. STyped'
  BY DEF Store, SInv, STyped
<1>2. QED
  BY <1>1, OtherSInv DEF Store

\* A creation that begins or fails.
LEMMA PostSInv ==
    ASSUME SInv, NEW c \in NewClients, Post(c) \/ FailPost(c)
    PROVE  SInv'
<1>1. PICK a \in {"posting", "failed"} : create' = [create EXCEPT ![c] = a]
  BY DEF Post, FailPost
<1>2. /\ create[c] \in {"idle", "posting"}
      /\ UNCHANGED <<now, clients, data, loading, refresh, poll, painter, ahead>>
  BY DEF Post, FailPost
<1>3. STyped'
  BY <1>1, <1>2 DEF SInv, STyped
<1>4. ASSUME NEW d \in NewClients
      PROVE  Creation(d)'
  <2>1. create'[d] = IF d = c THEN a ELSE create[d]
    BY <1>1 DEF SInv, STyped
  <2>2. QED
    BY <1>2, <2>1 DEF SInv, Creation, Follows
<1>5. QED
  BY <1>3, <1>4 DEF SInv

LEMMA StartRefreshSInv ==
    ASSUME SInv, NEW c \in NewClients, StartRefresh(c)
    PROVE  SInv'
<1>1. /\ create[c] = "posting" /\ c \in clients
      /\ create' = [create EXCEPT ![c] = "refreshing"]
      /\ ahead' = [ahead EXCEPT ![c] = {r \in Refreshes : refresh[r].at = "asking"}]
      /\ refresh' = [refresh EXCEPT ![c] = Asked]
      /\ loading' = TRUE
      /\ UNCHANGED <<now, clients, data, poll, painter>>
  BY DEF StartRefresh
<1>2. STyped /\ c \in Refreshes
  BY DEF SInv, Refreshes
<1>3. Asked \in Refreshed /\ Asked.at = "asking" /\ Asked.clients = Pending
  BY NotAnswered
<1>4. STyped'
  BY <1>1, <1>2, <1>3 DEF STyped
<1>5. refresh[c].at = "idle"
  BY <1>1 DEF SInv, Creation
<1>6. /\ refresh'[c] = Asked
      /\ \A q \in Refreshes : q # c => refresh'[q] = refresh[q]
      /\ ahead'[c] = {r \in Refreshes : refresh[r].at = "asking"}
      /\ create'[c] = "refreshing"
      /\ \A d \in NewClients : d # c => create'[d] = create[d] /\ ahead'[d] = ahead[d]
  BY <1>1, <1>2 DEF STyped
<1>7. Creation(c)'
  <2>1. c \notin ahead'[c]
    BY <1>5, <1>6
  <2>2. \A q \in Refreshes : Follows(c, q)'
    BY <1>3, <1>6 DEF Follows
  <2>3. QED
    BY <1>1, <1>6, <2>1, <2>2 DEF Creation
<1>8. ASSUME NEW d \in NewClients, d # c
      PROVE  Creation(d)'
  <2>1. Creation(d) /\ d \in Refreshes
    BY DEF SInv, Refreshes
  <2>2. create[d] \in {"refreshing", "done"} => \A q \in Refreshes : Follows(d, q)'
    BY <1>3, <1>6, <1>8, <2>1 DEF Creation, Follows
  <2>3. create[d] = "done" => painter # c
    BY <1>5, <2>1 DEF Creation
  <2>4. QED
    BY <1>1, <1>6, <1>8, <2>1, <2>2, <2>3 DEF Creation
<1>9. QED
  BY <1>4, <1>7, <1>8 DEF SInv

LEMMA SNextSInv == SInv /\ [SNext]_screen => SInv'
<1> SUFFICES ASSUME SInv, [SNext]_screen PROVE SInv'
  OBVIOUS
<1>1. CASE UNCHANGED screen
  BY <1>1, OtherSInv DEF screen, SInv, STyped
<1>2. QED
  BY <1>1, ProgressSInv, AnswerExecutionsSInv, AnswerClientsSInv, PaintSInv, PollSInv,
     StoreSInv, PostSInv, StartRefreshSInv
     DEF SNext

\* The screen knows of every creation what its refreshes were answered with
\* (useCockpitData.js:20-90).
THEOREM ScreenInvariance == SSpec => []SInv
BY SInitSInv, SNextSInv, PTL DEF SSpec

\* Every variable of the screen keeps its type.
THEOREM ScreenTypeCorrect == SSpec => []STypeOK
<1>1. SInv => STypeOK
  BY DEF SInv, STyped, STypeOK, Refreshed, Polled
<1>2. QED
  BY <1>1, ScreenInvariance, PTL

\* However many clients are created while refreshes and polls overlap, fail and
\* are late, a client whose creation was reported is hidden only by a refresh
\* that could not read the clients or that was under way when the creation was
\* answered (useCockpitData.js:48, 83-87).
THEOREM CreatedIsShownAlways == SSpec => []CreatedIsShown
<1>1. SInv => CreatedIsShown
  BY DEF SInv, Creation, CreatedIsShown
<1>2. QED
  BY <1>1, ScreenInvariance, PTL
=============================================================================
