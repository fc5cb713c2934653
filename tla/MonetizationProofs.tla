--------------------------- MODULE MonetizationProofs ---------------------------
(***************************************************************************)
(* Theorems about Monetization for any finite set of threads and any       *)
(* clients, plans and limits.  The limits are read at one time and the     *)
(* event is recorded at a later one, so the invariant says of each place   *)
(* of track what its checks still guarantee, and counts the threads that   *)
(* are past them.                                                          *)
(***************************************************************************)
EXTENDS Monetization, FiniteSetTheorems, TLAPS

\* The labels of create.
Creating == {"assign", "uncreate", "answer"}

\* A thread in create has its client for itself; once the plan was assigned
\* the client is complete.
CreatingOK ==
    \A t \in Threads : pc[t] \in Creating =>
        LET c == client[t] IN
        /\ c \in clients
        /\ plan[t] \in Plans /\ plan[t] = asked[c]
        /\ assigned[c] = IF pc[t] = "answer" THEN asked[c] ELSE NoPlan
        /\ outcome[c] = "none"
        /\ \A u \in Threads : pc[u] \in Creating /\ client[u] = c => u = t

\* Nothing is known of a client before create was called with it, and its plan
\* is the one that was asked for or none.
FreshOK ==
    \A c \in Clients :
        /\ asked[c] = NoPlan => c \notin clients /\ outcome[c] = "none"
        /\ assigned[c] \in {NoPlan, asked[c]}

\* A thread in track works with the plan its client has or the basic one it
\* had, and as long as nobody recorded in between the event fits the limit.
TrackingOK ==
    \A t \in Threads :
        /\ pc[t] \in {"plan", "total", "rate", "record"} => client[t] \in Clients
        /\ pc[t] \in {"total", "rate", "record"} => plan[t] \in {Basic, PlanFor(client[t])}
        /\ pc[t] \in {"total", "rate"} => event[t].source = "api"
        /\ (pc[t] = "rate" \/ (pc[t] = "record" /\ event[t].source = "api")) /\ t \notin raced
              => usage[client[t]].total + event[t].units <= Limit[plan[t]]

\* The threads whose event will be recorded for c whatever happens to its count.
Past(c) == {t \in Threads : pc[t] = "record" /\ event[t].source = "api" /\ client[t] = c}

MaxRate(c) == Larger(Rate[Basic], Rate[PlanFor(c)])

RoomOK ==
    \A c \in Clients :
        /\ usage[c].recentTracked <= usage[c].recent
        /\ usage[c].recentTracked + Cardinality(Past(c)) <=
              MaxRate(c) + Cardinality(Threads) - 1

IInv == TypeOK /\ CreatingOK /\ FreshOK /\ CreateKeepsItsWord /\ TrackingOK /\ RoomOK

-----------------------------------------------------------------------------
\* The threads past the checks can be counted.
LEMMA PastCount ==
    ASSUME NEW c
    PROVE  /\ IsFiniteSet(Past(c))
           /\ Cardinality(Past(c)) \in Nat
           /\ Cardinality(Past(c)) <= Cardinality(Threads)
           /\ Cardinality(Threads) \in Nat
BY ThreadsAssumption, FS_Subset, FS_CardinalityType DEF Past

\* A rate is a number, and that of a plan counts for the maximum.
LEMMA Rates ==
    ASSUME TypeOK, NEW c \in Clients
    PROVE  /\ PlanFor(c) \in Plans /\ MaxRate(c) \in Nat
           /\ MaxRate(c) >= 1
           /\ Rate[Basic] <= MaxRate(c) /\ Rate[PlanFor(c)] <= MaxRate(c)
<1>1. PlanFor(c) \in Plans /\ Basic \in Plans
  BY PlansAssumption DEF PlanFor, TypeOK
<1>2. Rate[Basic] \in Nat \ {0} /\ Rate[PlanFor(c)] \in Nat \ {0}
  BY <1>1, PlansAssumption
<1>3. QED
  BY <1>1, <1>2 DEF MaxRate, Larger

LEMMA NoEventType == NoEvent \in Event
BY BoundsAssumption DEF NoEvent, Event

LEMMA InitIInv == Init => IInv
<1> SUFFICES ASSUME Init PROVE IInv
  OBVIOUS
<1> USE DEF Init
<1>1. TypeOK
  <2>1. NoUsage \in Usage
    BY DEF NoUsage, Usage
  <2>2. QED
    BY <2>1, NoEventType, BoundsAssumption DEF TypeOK
<1>2. CreatingOK /\ FreshOK /\ CreateKeepsItsWord /\ TrackingOK
  BY DEF Creating, CreatingOK, FreshOK, CreateKeepsItsWord, TrackingOK
<1>3. RoomOK
  <2> SUFFICES ASSUME NEW c \in Clients
               PROVE  /\ usage[c].recentTracked <= usage[c].recent
                      /\ usage[c].recentTracked + Cardinality(Past(c)) <=
                            MaxRate(c) + Cardinality(Threads) - 1
    BY DEF RoomOK
  <2>1. usage[c].recentTracked = 0 /\ usage[c].recent = 0
    BY DEF NoUsage
  <2>2. Past(c) = {}
    BY DEF Past
  <2>3. Cardinality(Past(c)) = 0
    BY <2>2, FS_EmptySet
  <2>4. QED
    BY <1>1, <2>1, <2>3, Rates, PastCount
<1>4. QED
  BY <1>1, <1>2, <1>3 DEF IInv

-----------------------------------------------------------------------------
\* What the usage events of a client become.
LEMMA AddedType ==
    ASSUME NEW u \in Usage, NEW e \in Event, NEW recent \in BOOLEAN
    PROVE  /\ Added(u, e, recent) \in Usage
           /\ Added(u, e, recent).total = u.total + e.units
           /\ u.recentTracked <= u.recent =>
                 Added(u, e, recent).recentTracked <= Added(u, e, recent).recent
           /\ Added(u, e, recent).recentTracked <=
                 u.recentTracked + (IF e.source = "api" THEN 1 ELSE 0)
<1>1. /\ u.total \in Nat /\ u.tracked \in Nat /\ u.recent \in Nat /\ u.recentTracked \in Nat
      /\ e.units \in Nat
  BY BoundsAssumption DEF Usage, Event
<1>2. QED
  BY <1>1 DEF Added, Usage

\* One event of the last minute gets older.
Aged(u, v) ==
    /\ v \in Usage
    /\ v.total = u.total
    /\ v.recentTracked <= u.recentTracked
    /\ u.recentTracked <= u.recent => v.recentTracked <= v.recent

LEMMA AgeUsage ==
    ASSUME TypeOK, NEW c \in Clients, Age(c)
    PROVE  \E v : usage' = [usage EXCEPT ![c] = v] /\ Aged(usage[c], v)
<1> DEFINE u == usage[c]
<1>1. /\ u \in Usage
      /\ u.total \in Nat /\ u.tracked \in Nat /\ u.recent \in Nat /\ u.recentTracked \in Nat
  BY DEF TypeOK, Usage
<1>2. CASE /\ u.recentTracked > 0 /\ u.recent > 0
           /\ usage' = [usage EXCEPT ![c].recent = @ - 1, ![c].recentTracked = @ - 1]
  <2> DEFINE v == [total |-> u.total, tracked |-> u.tracked,
                   recent |-> u.recent - 1, recentTracked |-> u.recentTracked - 1]
  <2>1. usage' = [usage EXCEPT ![c] = v]
    BY <1>2, <1>1 DEF TypeOK, Usage
  <2>2. Aged(u, v)
    BY <1>1, <1>2 DEF Aged, Usage
  <2>3. QED
    BY <2>1, <2>2
<1>3. CASE /\ u.recent > u.recentTracked
           /\ usage' = [usage EXCEPT ![c].recent = @ - 1]
  <2> DEFINE v == [u EXCEPT !.recent = u.recent - 1]
  <2>1. usage' = [usage EXCEPT ![c] = v]
    BY <1>3
  <2>2. Aged(u, v)
    BY <1>1, <1>3 DEF Aged, Usage
  <2>3. QED
    BY <2>1, <2>2
<1>4. QED
  BY <1>2, <1>3 DEF Age

-----------------------------------------------------------------------------
(***************************************************************************)
(* Types, and what create keeps true.                                      *)
(***************************************************************************)
LEMMA TypeStep == IInv /\ [Next]_vars => TypeOK'
<1> SUFFICES ASSUME IInv, [Next]_vars PROVE TypeOK'
  OBVIOUS
<1> USE DEF IInv, TypeOK, At, Goto, Creating
<1>1. ASSUME NEW t \in Threads, NEW c \in Clients, NEW p \in Plans, SaveClient(t, c, p)
      PROVE  TypeOK'
  BY <1>1 DEF SaveClient
<1>2. ASSUME NEW t \in Threads, Assign(t)
      PROVE  TypeOK'
  <2>1. client[t] \in Clients \cup {NoClient} /\ plan[t] \in Plans
    BY <1>2 DEF Assign, CreatingOK
  <2>2. QED
    BY <1>2, <2>1 DEF Assign, history
<1>3. ASSUME NEW t \in Threads, AssignRaises(t)
      PROVE  TypeOK'
  BY <1>3, BoundsAssumption DEF AssignRaises, Raises, thread, disk, history
<1>4. ASSUME NEW t \in Threads, Uncreate(t)
      PROVE  TypeOK'
  <2>1. client[t] \in Clients
    BY <1>4, MarksAssumption DEF Uncreate, CreatingOK
  <2>2. faults' \in 0..MaxFaults /\ stranded' \subseteq Clients /\ clients' \subseteq Clients
    BY <1>4, <2>1, BoundsAssumption DEF Uncreate, Raises
  <2>3. QED
    BY <1>4, <2>1, <2>2, NoEventType DEF Uncreate, Leave
<1>13. ASSUME NEW t \in Threads, AnswerCreated(t) \/ AnswerRaises(t)
       PROVE  TypeOK'
  <2>1. client[t] \in Clients
    BY <1>13, MarksAssumption DEF AnswerCreated, AnswerRaises, CreatingOK
  <2>2. faults' \in 0..MaxFaults /\ unanswered' \subseteq Clients
    BY <1>13, <2>1, BoundsAssumption DEF AnswerCreated, AnswerRaises, Raises
  <2>3. QED
    BY <1>13, <2>1, <2>2, NoEventType DEF AnswerCreated, AnswerRaises, Leave, disk
<1>5. ASSUME NEW t \in Threads, NEW c \in Clients, NEW e \in Event, Validate(t, c, e)
      PROVE  TypeOK'
  BY <1>5 DEF Validate, disk, history
<1>6. ASSUME NEW t \in Threads, ReadPlan(t)
      PROVE  TypeOK'
  <2>1. PlanFor(client[t]) \in Plans
    BY <1>6, Rates DEF ReadPlan, TrackingOK
  <2>2. QED
    BY <1>6, <2>1 DEF ReadPlan, disk, history
<1>7. ASSUME NEW t \in Threads, CheckTotal(t) \/ CheckRate(t) \/ Refuse(t)
      PROVE  TypeOK'
  BY <1>7, NoEventType DEF CheckTotal, CheckRate, Refuse, Leave, disk, history
<1>8. ASSUME NEW t \in Threads, Record(t)
      PROVE  TypeOK'
  <2>1. PICK recent \in BOOLEAN :
          usage' = [usage EXCEPT ![client[t]] = Added(@, event[t], recent)]
    BY <1>8 DEF Record
  <2>2. client[t] \in Clients
    BY <1>8 DEF Record, TrackingOK
  <2>3. usage' \in [Clients -> Usage]
    BY <2>1, <2>2, AddedType
  <2>4. QED
    BY <1>8, <2>3, NoEventType DEF Record, history
<1>9. ASSUME NEW c \in Clients, Age(c)
      PROVE  TypeOK'
  <2>1. usage' \in [Clients -> Usage]
    BY <1>9, AgeUsage DEF Aged
  <2>2. QED
    BY <1>9, <2>1 DEF Age, thread, history
<1>10. ASSUME Crash
       PROVE  TypeOK'
  <2>1. stranded' \subseteq Clients
    BY <1>10, MarksAssumption DEF Crash, CreatingOK
  <2>2. crashes' \in 0..MaxCrashes
    BY <1>10, BoundsAssumption DEF Crash
  <2>3. QED
    BY <1>10, <2>1, <2>2, NoEventType DEF Crash, disk
<1>11. CASE UNCHANGED vars
  BY <1>11 DEF vars, disk, thread, history
<1>12. QED
  BY <1>1, <1>2, <1>3, <1>4, <1>13, <1>5, <1>6, <1>7, <1>8, <1>9, <1>10, <1>11
     DEF Next, Create, Track

CreateInv == CreatingOK /\ FreshOK /\ CreateKeepsItsWord

LEMMA CreateStep == IInv /\ [Next]_vars => CreateInv'
<1> SUFFICES ASSUME IInv, [Next]_vars PROVE CreateInv'
  OBVIOUS
<1> USE DEF IInv, CreateInv, At, Goto, Creating
<1>1. ASSUME NEW t \in Threads, NEW c \in Clients, NEW p \in Plans, SaveClient(t, c, p)
      PROVE  CreateInv'
  <2>1. /\ \A u \in Threads : pc[u] \in Creating => client[u] # c
        /\ assigned[c] = NoPlan /\ outcome[c] = "none"
    BY <1>1, MarksAssumption DEF SaveClient, CreatingOK, FreshOK
  <2>2. CreatingOK'
    BY <1>1, <2>1 DEF SaveClient, CreatingOK, TypeOK
  <2>3. FreshOK'
    BY <1>1, <2>1, MarksAssumption DEF SaveClient, FreshOK, TypeOK
  <2>4. CreateKeepsItsWord'
    BY <1>1, <2>1 DEF SaveClient, CreateKeepsItsWord, TypeOK
  <2>5. QED
    BY <2>2, <2>3, <2>4
<1>2. ASSUME NEW t \in Threads, Assign(t)
      PROVE  CreateInv'
  <2> DEFINE c == client[t]
  <2>1. /\ pc[t] = "assign" /\ c \in clients /\ c \in Clients
        /\ plan[t] = asked[c] /\ asked[c] \in Plans
        /\ \A u \in Threads : pc[u] \in Creating /\ client[u] = c => u = t
    BY <1>2 DEF Assign, CreatingOK, TypeOK
  <2>2. /\ assigned' = [assigned EXCEPT ![c] = asked[c]]
        /\ pc' = [pc EXCEPT ![t] = "answer"]
        /\ UNCHANGED <<clients, client, plan, asked, outcome, stranded, unanswered>>
    BY <1>2, <2>1 DEF Assign, history
  <2> HIDE DEF c
  <2>3. CreatingOK'
    <3>1. ASSUME NEW u \in Threads, u # t, pc[u] \in Creating
          PROVE  client[u] # c
      BY <2>1, <3>1
    <3>2. /\ pc'[t] = "answer" /\ plan'[t] = asked'[c] /\ plan'[t] \in Plans
          /\ client'[t] = c /\ assigned'[c] = asked'[c]
          /\ \A d : d # c => assigned'[d] = assigned[d]
          /\ \A u \in Threads : u # t => pc'[u] = pc[u]
      BY <2>1, <2>2 DEF TypeOK, c
    <3>3. \A u \in Threads : client'[u] = client[u] /\ plan'[u] = plan[u]
      BY <2>2
    <3>4. \A u, v \in Threads :
            pc'[u] \in Creating /\ pc'[v] \in Creating /\ client'[u] = client'[v] => u = v
      BY <2>1, <3>1, <3>2, <3>3 DEF CreatingOK
    <3>5. ASSUME NEW u \in Threads, pc'[u] \in Creating
          PROVE  /\ client'[u] \in clients' /\ outcome'[client'[u]] = "none"
                 /\ plan'[u] \in Plans /\ plan'[u] = asked'[client'[u]]
                 /\ assigned'[client'[u]] = IF pc'[u] = "answer" THEN asked'[client'[u]] ELSE NoPlan
      <4>1. CASE u = t
        BY <1>2, <2>1, <2>2, <3>2, <4>1 DEF CreatingOK, Assign, c
      <4>2. CASE u # t
        BY <2>2, <3>1, <3>2, <3>3, <3>5, <4>2 DEF CreatingOK
      <4>3. QED
        BY <4>1, <4>2
    <3>6. QED
      BY <3>4, <3>5 DEF CreatingOK
  <2>4. FreshOK'
    BY <2>1, <2>2, MarksAssumption DEF FreshOK, TypeOK
  <2>5. CreateKeepsItsWord'
    BY <2>1, <2>2 DEF CreateKeepsItsWord, TypeOK, c
  <2>6. QED
    BY <2>3, <2>4, <2>5
<1>3. ASSUME NEW t \in Threads, AssignRaises(t)
      PROVE  CreateInv'
  <2>1. CreatingOK'
    BY <1>3 DEF AssignRaises, disk, history, CreatingOK, TypeOK
  <2>2. FreshOK'
    BY <1>3 DEF AssignRaises, disk, history, FreshOK
  <2>3. CreateKeepsItsWord'
    BY <1>3 DEF AssignRaises, disk, history, CreateKeepsItsWord, TypeOK
  <2>4. QED
    BY <2>1, <2>2, <2>3
<1>4. ASSUME NEW t \in Threads, Uncreate(t)
      PROVE  CreateInv'
  <2> DEFINE c == client[t]
  <2>1. /\ pc[t] = "uncreate" /\ c \in clients /\ c \in Clients
        /\ asked[c] # NoPlan /\ outcome[c] = "none"
        /\ \A u \in Threads : pc[u] \in Creating /\ client[u] = c => u = t
    BY <1>4, MarksAssumption DEF Uncreate, CreatingOK, TypeOK
  <2>2. /\ outcome' = [outcome EXCEPT ![c] = "refused"]
        /\ pc' = [pc EXCEPT ![t] = "idle"]
        /\ client' = [client EXCEPT ![t] = NoClient]
        /\ plan' = [plan EXCEPT ![t] = NoPlan]
        /\ UNCHANGED <<assigned, asked, unanswered>>
        /\ \/ clients' = clients \ {c} /\ stranded' = stranded
           \/ clients' = clients /\ stranded' = stranded \cup {c}
    BY <1>4 DEF Uncreate, Leave
  <2> HIDE DEF c
  <2>3. CreatingOK'
    BY <2>1, <2>2 DEF CreatingOK, TypeOK
  <2>4. FreshOK'
    BY <2>1, <2>2 DEF FreshOK, TypeOK
  <2>5. CreateKeepsItsWord'
    BY <2>1, <2>2 DEF CreateKeepsItsWord, TypeOK, c
  <2>6. QED
    BY <2>3, <2>4, <2>5
<1>11. ASSUME NEW t \in Threads, AnswerCreated(t) \/ AnswerRaises(t)
       PROVE  CreateInv'
  <2> DEFINE c == client[t]
  <2>1. /\ pc[t] = "answer" /\ c \in clients /\ c \in Clients
        /\ asked[c] # NoPlan /\ assigned[c] = asked[c]
        /\ \A u \in Threads : pc[u] \in Creating /\ client[u] = c => u = t
    BY <1>11, MarksAssumption DEF AnswerCreated, AnswerRaises, CreatingOK, TypeOK
  <2>2. /\ pc' = [pc EXCEPT ![t] = "idle"]
        /\ client' = [client EXCEPT ![t] = NoClient]
        /\ plan' = [plan EXCEPT ![t] = NoPlan]
        /\ UNCHANGED <<clients, assigned, asked, stranded>>
        /\ \/ /\ outcome' = [outcome EXCEPT ![c] = "created"]
              /\ unanswered' = unanswered
           \/ /\ outcome' = [outcome EXCEPT ![c] = "refused"]
              /\ unanswered' = unanswered \cup {c}
    BY <1>11 DEF AnswerCreated, AnswerRaises, Leave, disk
  <2> HIDE DEF c
  <2>3. CreatingOK'
    BY <2>1, <2>2 DEF CreatingOK, TypeOK
  <2>4. FreshOK'
    BY <2>1, <2>2 DEF FreshOK, TypeOK
  <2>5. CreateKeepsItsWord'
    BY <2>1, <2>2 DEF CreateKeepsItsWord, TypeOK, c
  <2>6. QED
    BY <2>3, <2>4, <2>5
<1>5. ASSUME NEW t \in Threads, pc[t] \notin Creating,
             \E l \in {"idle", "plan", "total", "rate", "record"} : \E c, p :
                /\ pc' = [pc EXCEPT ![t] = l]
                /\ client' = [client EXCEPT ![t] = c]
                /\ plan' = [plan EXCEPT ![t] = p],
             UNCHANGED <<clients, assigned, asked, outcome, stranded, unanswered>>
      PROVE  CreateInv'
  <2>1. CreatingOK'
    BY <1>5 DEF CreatingOK, TypeOK
  <2>2. FreshOK'
    BY <1>5 DEF FreshOK
  <2>3. CreateKeepsItsWord'
    BY <1>5 DEF CreateKeepsItsWord, TypeOK
  <2>4. QED
    BY <2>1, <2>2, <2>3
<1>6. ASSUME NEW t \in Threads, Track(t)
      PROVE  CreateInv'
  <2>1. /\ pc[t] \notin Creating
        /\ UNCHANGED <<clients, assigned, asked, outcome, stranded, unanswered>>
    BY <1>6 DEF Track, Validate, ReadPlan, CheckTotal, CheckRate, Refuse, Record, disk, history
  <2>2. \E l \in {"idle", "plan", "total", "rate", "record"} : \E c, p :
                /\ pc' = [pc EXCEPT ![t] = l]
                /\ client' = [client EXCEPT ![t] = c]
                /\ plan' = [plan EXCEPT ![t] = p]
    <3>1. client = [client EXCEPT ![t] = client[t]] /\ plan = [plan EXCEPT ![t] = plan[t]]
      BY DEF TypeOK
    <3>2. QED
      BY <1>6, <3>1
         DEF Track, Validate, ReadPlan, CheckTotal, CheckRate, Refuse, Record, Leave
  <2>3. QED
    BY <2>1, <2>2, <1>5
<1>7. ASSUME NEW c \in Clients, Age(c)
      PROVE  CreateInv'
  BY <1>7 DEF Age, thread, history, CreatingOK, FreshOK, CreateKeepsItsWord
<1>8. ASSUME Crash
      PROVE  CreateInv'
  <2>1. CreatingOK' /\ FreshOK'
    BY <1>8 DEF Crash, disk, CreatingOK, FreshOK
  <2>2. CreateKeepsItsWord'
    BY <1>8 DEF Crash, disk, CreateKeepsItsWord
  <2>3. QED
    BY <2>1, <2>2
<1>9. CASE UNCHANGED vars
  BY <1>9 DEF vars, disk, thread, history, CreatingOK, FreshOK, CreateKeepsItsWord
<1>10. QED
  BY <1>1, <1>2, <1>3, <1>4, <1>11, <1>6, <1>7, <1>8, <1>9 DEF Next, Create

-----------------------------------------------------------------------------
(***************************************************************************)
(* What track keeps true.                                                  *)
(***************************************************************************)
LEMMA TrackStep == IInv /\ [Next]_vars => TrackingOK'
<1> SUFFICES ASSUME IInv, [Next]_vars PROVE TrackingOK'
  OBVIOUS
<1> USE DEF IInv, At, Goto
<1>1. ASSUME NEW t \in Threads, Create(t)
      PROVE  TrackingOK'
  <2>1. /\ usage' = usage /\ event' \in {event, [event EXCEPT ![t] = NoEvent]}
        /\ raced \ {t} \subseteq raced'
        /\ pc'[t] \in {"idle"} \cup Creating
        /\ \A u \in Threads \ {t} : /\ pc'[u] = pc[u] /\ client'[u] = client[u]
                                    /\ plan'[u] = plan[u] /\ event'[u] = event[u]
    BY <1>1 DEF Create, SaveClient, Assign, AssignRaises, Uncreate, AnswerCreated,
       AnswerRaises, Leave, TypeOK, Creating, disk, history
  <2>2. \A c \in Clients : PlanFor(c)' = PlanFor(c) \/ PlanFor(c) = Basic
    BY <1>1 DEF Create, SaveClient, Assign, AssignRaises, Uncreate, AnswerCreated,
       AnswerRaises, TypeOK, PlanFor, CreatingOK, Creating, disk, history
  <2>3. QED
    BY <2>1, <2>2 DEF TrackingOK, Creating
<1>2. ASSUME NEW t \in Threads, NEW c \in Clients, NEW e \in Event, Validate(t, c, e)
      PROVE  TrackingOK'
  <2>1. /\ pc'[t] = "plan" /\ client'[t] = c
        /\ UNCHANGED <<usage, raced, assigned>>
        /\ \A u \in Threads \ {t} : /\ pc'[u] = pc[u] /\ client'[u] = client[u]
                                    /\ plan'[u] = plan[u] /\ event'[u] = event[u]
    BY <1>2 DEF Validate, TypeOK, disk
  <2>2. QED
    BY <2>1 DEF TrackingOK, PlanFor
<1>3. ASSUME NEW t \in Threads, ReadPlan(t)
      PROVE  TrackingOK'
  <2>1. /\ client[t] \in Clients /\ plan'[t] = PlanFor(client[t])
        /\ \/ pc'[t] = "total" /\ event[t].source = "api"
           \/ pc'[t] = "record" /\ event[t].source # "api"
        /\ UNCHANGED <<usage, raced, assigned, client, event>>
        /\ \A u \in Threads \ {t} : pc'[u] = pc[u] /\ plan'[u] = plan[u]
    BY <1>3 DEF ReadPlan, TypeOK, TrackingOK, disk
  <2>2. QED
    BY <2>1 DEF TrackingOK, PlanFor
<1>4. ASSUME NEW t \in Threads, CheckTotal(t)
      PROVE  TrackingOK'
  <2>1. usage[client[t]].total + event[t].units <= Limit[plan[t]]
    BY <1>4 DEF CheckTotal
  <2>2. /\ pc[t] = "total" /\ pc' = [pc EXCEPT ![t] = "rate"]
        /\ raced' = raced \ {t}
        /\ UNCHANGED <<usage, assigned, client, event, plan>>
    BY <1>4 DEF CheckTotal, disk
  <2>3. pc'[t] = "rate" /\ \A u \in Threads \ {t} : pc'[u] = pc[u]
    BY <2>2 DEF TypeOK
  <2>4. QED
    BY <2>1, <2>2, <2>3 DEF TrackingOK, PlanFor
<1>5. ASSUME NEW t \in Threads, CheckRate(t)
      PROVE  TrackingOK'
  <2>1. /\ pc[t] = "rate" /\ pc' = [pc EXCEPT ![t] = "record"]
        /\ UNCHANGED <<usage, assigned, client, event, plan, raced>>
    BY <1>5 DEF CheckRate, disk
  <2>2. pc'[t] = "record" /\ \A u \in Threads \ {t} : pc'[u] = pc[u]
    BY <2>1 DEF TypeOK
  <2>3. QED
    BY <2>1, <2>2 DEF TrackingOK, PlanFor
<1>6. ASSUME NEW t \in Threads, Refuse(t)
      PROVE  TrackingOK'
  <2>1. /\ pc'[t] = "idle" /\ raced' = raced \ {t}
        /\ UNCHANGED <<usage, assigned>>
        /\ \A u \in Threads \ {t} : /\ pc'[u] = pc[u] /\ client'[u] = client[u]
                                    /\ plan'[u] = plan[u] /\ event'[u] = event[u]
    BY <1>6 DEF Refuse, Leave, TypeOK, disk
  <2>2. QED
    BY <2>1 DEF TrackingOK, PlanFor
<1>7. ASSUME NEW t \in Threads, Record(t)
      PROVE  TrackingOK'
  <2>1. /\ pc'[t] = "idle" /\ assigned' = assigned
        /\ raced' = (raced \cup {u \in Threads : client[u] = client[t]}) \ {t}
        /\ \A c \in Clients : c # client[t] => usage'[c] = usage[c]
        /\ \A u \in Threads \ {t} : /\ pc'[u] = pc[u] /\ client'[u] = client[u]
                                    /\ plan'[u] = plan[u] /\ event'[u] = event[u]
    BY <1>7 DEF Record, TypeOK
  <2>2. QED
    BY <2>1 DEF TrackingOK, PlanFor
<1>8. ASSUME NEW c \in Clients, Age(c)
      PROVE  TrackingOK'
  <2>1. \A d \in Clients : usage'[d].total = usage[d].total
    BY <1>8, AgeUsage DEF Aged, TypeOK
  <2>2. UNCHANGED <<assigned, pc, client, plan, event, raced>>
    BY <1>8 DEF Age, thread
  <2>3. QED
    BY <2>1, <2>2 DEF TrackingOK, PlanFor
<1>9. ASSUME Crash
      PROVE  TrackingOK'
  BY <1>9 DEF Crash, TrackingOK
<1>10. CASE UNCHANGED vars
  BY <1>10 DEF vars, disk, thread, TrackingOK, PlanFor
<1>11. QED
  BY <1>1, <1>2, <1>3, <1>4, <1>5, <1>6, <1>7, <1>8, <1>9, <1>10 DEF Next, Track

\* Counts and threads past the checks that only get fewer.
LEMMA Fewer ==
    ASSUME IInv, NEW c \in Clients, NEW k \in Nat,
           usage'[c].recentTracked \in Nat,
           usage'[c].recentTracked <= usage[c].recentTracked + k,
           usage'[c].recentTracked <= usage'[c].recent,
           Cardinality(Past(c)') \in Nat,
           Cardinality(Past(c)') + k <= Cardinality(Past(c)),
           MaxRate(c)' \in Nat, MaxRate(c)' >= MaxRate(c)
    PROVE  /\ usage'[c].recentTracked <= usage'[c].recent
           /\ usage'[c].recentTracked + Cardinality(Past(c)') <=
                 MaxRate(c)' + Cardinality(Threads) - 1
<1>1. usage[c].recentTracked + Cardinality(Past(c)) <= MaxRate(c) + Cardinality(Threads) - 1
  BY DEF IInv, RoomOK
<1>2. usage[c].recentTracked \in Nat /\ MaxRate(c) \in Nat
  BY Rates DEF IInv, TypeOK, Usage
<1>3. QED
  BY <1>1, <1>2, PastCount

\* The same, with the events left alone.
LEMMA Subset ==
    ASSUME IInv, NEW c \in Clients, usage'[c] = usage[c], assigned' = assigned,
           Past(c)' \subseteq Past(c)
    PROVE  /\ usage'[c].recentTracked <= usage'[c].recent
           /\ usage'[c].recentTracked + Cardinality(Past(c)') <=
                 MaxRate(c)' + Cardinality(Threads) - 1
<1>1. Cardinality(Past(c)') <= Cardinality(Past(c)) /\ Cardinality(Past(c)') \in Nat
  BY PastCount, FS_Subset, FS_CardinalityType
<1>2. MaxRate(c)' = MaxRate(c) /\ MaxRate(c) \in Nat
  BY Rates DEF MaxRate, PlanFor, IInv
<1>3. usage[c].recentTracked <= usage[c].recent /\ usage[c].recentTracked \in Nat
  BY DEF IInv, RoomOK, TypeOK, Usage
<1> DEFINE p == Cardinality(Past(c)')
           q == Cardinality(Past(c))
<1> HIDE DEF p, q
<1>4. p + 0 <= q /\ p \in Nat /\ usage[c].recentTracked <= usage[c].recentTracked + 0
  BY <1>1, <1>3, PastCount DEF p, q
<1>5. QED
  BY <1>2, <1>3, <1>4, Fewer DEF p, q

LEMMA RoomStep == IInv /\ [Next]_vars => RoomOK'
<1> SUFFICES ASSUME IInv, [Next]_vars, NEW c \in Clients
             PROVE  /\ usage'[c].recentTracked <= usage'[c].recent
                    /\ usage'[c].recentTracked + Cardinality(Past(c)') <=
                          MaxRate(c)' + Cardinality(Threads) - 1
  BY DEF RoomOK
<1> USE DEF IInv, At, Goto
<1>1. ASSUME NEW t \in Threads,
             \/ \E d \in Clients, p \in Plans : SaveClient(t, d, p)
             \/ AssignRaises(t) \/ Uncreate(t) \/ AnswerCreated(t) \/ AnswerRaises(t)
             \/ \E d \in Clients, e \in Event : Validate(t, d, e)
             \/ ReadPlan(t) \/ CheckTotal(t) \/ Refuse(t)
      PROVE  Past(c)' \subseteq Past(c) /\ UNCHANGED <<usage, assigned>>
  BY <1>1 DEF SaveClient, AssignRaises, Uncreate, AnswerCreated, AnswerRaises, Validate, ReadPlan, CheckTotal,
     Refuse, Leave, Past, TypeOK, disk
<1>2. ASSUME NEW t \in Threads, Assign(t)
      PROVE  /\ Past(c)' \subseteq Past(c) /\ usage' = usage
             /\ PlanFor(c)' = PlanFor(c) \/ PlanFor(c) = Basic
  BY <1>2 DEF Assign, Past, TypeOK, PlanFor, CreatingOK, Creating
<1>3. ASSUME NEW t \in Threads, Assign(t)
      PROVE  /\ usage'[c].recentTracked <= usage'[c].recent
             /\ usage'[c].recentTracked + Cardinality(Past(c)') <=
                   MaxRate(c)' + Cardinality(Threads) - 1
  <2>1. MaxRate(c)' \in Nat /\ MaxRate(c)' >= MaxRate(c)
    <3>1. TypeOK'
      BY TypeStep
    <3>2. PlanFor(c)' \in Plans /\ PlanFor(c) \in Plans /\ MaxRate(c)' \in Nat
          /\ Rate[Basic] <= MaxRate(c)' /\ Rate[PlanFor(c)'] <= MaxRate(c)'
      BY <3>1, Rates, PlansAssumption DEF PlanFor, MaxRate, Larger, TypeOK
    <3>3. PlanFor(c)' = PlanFor(c) => MaxRate(c)' = MaxRate(c)
      BY DEF MaxRate
    <3>4. PlanFor(c) = Basic => MaxRate(c) = Rate[Basic]
      BY DEF MaxRate, Larger
    <3>5. MaxRate(c) \in Nat
      BY Rates
    <3>6. QED
      BY <1>2, <1>3, <3>2, <3>3, <3>4, <3>5
  <2>2. Cardinality(Past(c)') <= Cardinality(Past(c)) /\ Cardinality(Past(c)') \in Nat
    BY <1>2, <1>3, PastCount, FS_Subset, FS_CardinalityType
  <2>3. /\ usage'[c].recentTracked = usage[c].recentTracked
        /\ usage'[c].recent = usage[c].recent
        /\ usage[c].recentTracked <= usage[c].recent /\ usage[c].recentTracked \in Nat
    BY <1>2, <1>3 DEF RoomOK, TypeOK, Usage
  <2> DEFINE p == Cardinality(Past(c)')
             q == Cardinality(Past(c))
  <2> HIDE DEF p, q
  <2>4. p + 0 <= q /\ p \in Nat /\ usage'[c].recentTracked <= usage[c].recentTracked + 0
    BY <2>2, <2>3, PastCount DEF p, q
  <2>5. QED
    BY <2>1, <2>3, <2>4, Fewer DEF p, q
<1>4. ASSUME NEW t \in Threads, CheckRate(t)
      PROVE  /\ usage'[c].recentTracked <= usage'[c].recent
             /\ usage'[c].recentTracked + Cardinality(Past(c)') <=
                   MaxRate(c)' + Cardinality(Threads) - 1
  <2>1. /\ pc[t] = "rate" /\ usage[client[t]].recent < Rate[plan[t]]
        /\ pc' = [pc EXCEPT ![t] = "record"]
        /\ UNCHANGED <<usage, assigned, client, event>>
    BY <1>4 DEF CheckRate, disk
  <2>2. CASE c # client[t]
    <3>1. Past(c)' \subseteq Past(c)
      BY <2>1, <2>2 DEF Past, TypeOK
    <3>2. QED
      BY <2>1, <3>1, Subset
  <2>3. CASE c = client[t]
    <3>1. /\ Rate[plan[t]] <= MaxRate(c) /\ MaxRate(c) \in Nat
          /\ Rate[plan[t]] \in Nat
      <4>1. plan[t] \in {Basic, PlanFor(c)}
        BY <2>1, <2>3 DEF TrackingOK
      <4>2. QED
        BY <4>1, Rates, PlansAssumption
    <3>2. MaxRate(c)' = MaxRate(c)
      BY <2>1 DEF MaxRate, PlanFor
    <3>3. /\ usage[c].recentTracked <= usage[c].recent
          /\ usage[c].recentTracked \in Nat /\ usage[c].recent \in Nat
      BY DEF RoomOK, TypeOK, Usage
    <3>4. Cardinality(Past(c)') \in Nat /\ Cardinality(Past(c)') <= Cardinality(Threads)
          /\ Cardinality(Threads) \in Nat
      BY ThreadsAssumption, FS_Subset, FS_CardinalityType DEF Past
    <3>5. usage[c].recentTracked + 1 <= MaxRate(c)
      BY <2>1, <2>3, <3>1, <3>3
    <3>6. QED
      BY <2>1, <3>1, <3>2, <3>3, <3>4, <3>5
  <2>4. QED
    BY <2>2, <2>3
<1>5. ASSUME NEW t \in Threads, Record(t)
      PROVE  /\ usage'[c].recentTracked <= usage'[c].recent
             /\ usage'[c].recentTracked + Cardinality(Past(c)') <=
                   MaxRate(c)' + Cardinality(Threads) - 1
  <2>1. /\ pc[t] = "record" /\ client[t] \in Clients
        /\ pc' = [pc EXCEPT ![t] = "idle"]
        /\ client' = [client EXCEPT ![t] = NoClient]
        /\ event' = [event EXCEPT ![t] = NoEvent]
        /\ assigned' = assigned
    BY <1>5 DEF Record, TrackingOK
  <2>2. PICK recent \in BOOLEAN :
          usage' = [usage EXCEPT ![client[t]] = Added(@, event[t], recent)]
    BY <1>5 DEF Record
  <2>3. Past(c)' = Past(c) \ {t}
    BY <2>1 DEF Past, TypeOK
  <2>4. CASE c # client[t]
    BY <2>1, <2>2, <2>3, <2>4, Subset DEF TypeOK
  <2>5. CASE c = client[t]
    <3> DEFINE v == Added(usage[c], event[t], recent)
               k == IF event[t].source = "api" THEN 1 ELSE 0
               p == Cardinality(Past(c)')
               q == Cardinality(Past(c))
    <3>1. /\ usage'[c] = v /\ v \in Usage
          /\ v.recentTracked <= v.recent
          /\ v.recentTracked <= usage[c].recentTracked + k
      BY <2>2, <2>5, AddedType DEF TypeOK, RoomOK
    <3>2. p + k <= q /\ p \in Nat /\ q \in Nat
      <4>1. IsFiniteSet(Past(c)) /\ q \in Nat
        BY PastCount
      <4>2. CASE event[t].source = "api"
        <5>1. t \in Past(c)
          BY <2>1, <2>5, <4>2 DEF Past
        <5>2. p = q - 1 /\ p \in Nat
          BY <2>3, <4>1, <5>1, FS_RemoveElement, FS_CardinalityType
        <5>3. QED
          BY <4>1, <4>2, <5>2
      <4>3. CASE event[t].source # "api"
        <5>1. Past(c)' = Past(c)
          BY <2>3, <4>3 DEF Past
        <5>2. QED
          BY <4>1, <4>3, <5>1
      <4>4. QED
        BY <4>2, <4>3
    <3>3. MaxRate(c)' = MaxRate(c) /\ MaxRate(c) \in Nat
      BY <2>1, Rates DEF MaxRate, PlanFor
    <3>4. v.recentTracked \in Nat /\ k \in Nat
      BY <3>1 DEF Usage
    <3> HIDE DEF v, k, p, q
    <3>5. MaxRate(c)' >= MaxRate(c)
      BY <3>3
    <3>6. QED
      BY <3>1, <3>2, <3>3, <3>4, <3>5, Fewer DEF p, q
  <2>6. QED
    BY <2>4, <2>5
<1>6. ASSUME NEW d \in Clients, Age(d)
      PROVE  /\ usage'[c].recentTracked <= usage'[c].recent
             /\ usage'[c].recentTracked + Cardinality(Past(c)') <=
                   MaxRate(c)' + Cardinality(Threads) - 1
  <2>1. Past(c)' = Past(c) /\ MaxRate(c)' = MaxRate(c) /\ MaxRate(c) \in Nat
    BY <1>6, Rates DEF Age, thread, Past, MaxRate, PlanFor
  <2>2. /\ usage'[c].recentTracked \in Nat /\ usage[c].recentTracked \in Nat
        /\ usage'[c].recentTracked <= usage[c].recentTracked
        /\ usage'[c].recentTracked <= usage'[c].recent
    <3>1. PICK v : usage' = [usage EXCEPT ![d] = v] /\ Aged(usage[d], v)
      BY <1>6, AgeUsage
    <3>2. QED
      BY <3>1 DEF Aged, RoomOK, TypeOK, Usage
  <2> DEFINE q == Cardinality(Past(c))
  <2> HIDE DEF q
  <2>3. q + 0 <= q /\ q \in Nat
        /\ usage'[c].recentTracked <= usage[c].recentTracked + 0
        /\ MaxRate(c) >= MaxRate(c)
    BY <2>1, <2>2, PastCount DEF q
  <2>4. QED
    BY <2>1, <2>2, <2>3, Fewer DEF q
<1>7. CASE Crash
  <2>1. Past(c)' \subseteq Past(c) /\ UNCHANGED <<usage, assigned>>
    BY <1>7 DEF Crash, Past, disk
  <2>2. QED
    BY <2>1, Subset
<1>8. CASE UNCHANGED vars
  <2>1. Past(c)' \subseteq Past(c) /\ UNCHANGED <<usage, assigned>>
    BY <1>8 DEF vars, disk, thread, Past
  <2>2. QED
    BY <2>1, Subset
<1>9. QED
  BY <1>1, <1>3, <1>4, <1>5, <1>6, <1>7, <1>8, Subset DEF Next, Create, Track

-----------------------------------------------------------------------------
\* In every state of every behaviour the invariant holds.
THEOREM Invariance == Spec => []IInv
<1>1. IInv /\ [Next]_vars => IInv'
  BY TypeStep, CreateStep, TrackStep, RoomStep DEF IInv, CreateInv
<1>2. QED
  BY <1>1, InitIInv, PTL DEF Spec

\* Type correctness.
THEOREM TypeCorrect == Spec => []TypeOK
BY Invariance, PTL DEF IInv

\* A client that create reported is there with its plan.  One it answered an
\* error for is gone, unless its removal raised, or unless the error came after
\* the plan was assigned: then it is there with the plan that was asked for
\* (cockpit/client_management.py:49-67, 75).
THEOREM CreateKeepsItsWordAlways == Spec => []CreateKeepsItsWord
BY Invariance, PTL DEF IInv

\* Concurrent calls of track take a client past its rate by less than the
\* number of threads (client_monetization/metering.py:25-26).
THEOREM RateOverrunIsBounded == Spec => []RateOverrunBounded
<1>1. IInv => RateOverrunBounded
  <2> SUFFICES ASSUME IInv, NEW c \in Clients
               PROVE  usage[c].recentTracked <= MaxRate(c) + Cardinality(Threads) - 1
    BY DEF RateOverrunBounded, MaxRate
  <2>1. usage[c].recentTracked + Cardinality(Past(c)) <=
           MaxRate(c) + Cardinality(Threads) - 1
    BY DEF IInv, RoomOK
  <2>2. usage[c].recentTracked \in Nat /\ MaxRate(c) \in Nat
    BY Rates DEF IInv, TypeOK, Usage
  <2>3. QED
    BY <2>1, <2>2, PastCount
<1>2. QED
  BY <1>1, Invariance, PTL

\* An event that nothing came before since it was checked keeps its client
\* within the limit (metering.py:16-17), and the rate is overrun by no more than
\* the threads there are.
THEOREM LimitsHoldAlways == Spec => LimitsHold
<1> DEFINE Step == \A t \in Threads :
              At(t, "record") /\ event[t].source = "api" /\ Record(t) /\ t \notin raced =>
                  usage'[client[t]].total <= Limit[plan[t]]
<1>1. IInv /\ [Next]_vars => [Step]_vars
  <2> SUFFICES ASSUME IInv, NEW t \in Threads,
                      At(t, "record"), event[t].source = "api", Record(t), t \notin raced
               PROVE  usage'[client[t]].total <= Limit[plan[t]]
    OBVIOUS
  <2>1. /\ client[t] \in Clients
        /\ usage[client[t]].total + event[t].units <= Limit[plan[t]]
    BY DEF IInv, TrackingOK, At
  <2>2. PICK recent \in BOOLEAN :
          usage' = [usage EXCEPT ![client[t]] = Added(@, event[t], recent)]
    BY DEF Record
  <2>3. usage'[client[t]].total = usage[client[t]].total + event[t].units
    BY <2>1, <2>2, AddedType DEF IInv, TypeOK
  <2>4. QED
    BY <2>1, <2>3
<1>2. Spec => [][Step]_vars
  BY <1>1, Invariance, PTL DEF Spec
<1>3. QED
  BY <1>2, RateOverrunIsBounded, PTL DEF LimitsHold, LimitHoldsAlone
=============================================================================
