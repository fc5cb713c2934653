----------------------------- MODULE Monetization -----------------------------
(***************************************************************************)
(* Plans and usage of clients: ClientManagementService.create              *)
(* (bbi_os/cockpit/client_management.py) saves a client, assigns its plan  *)
(* and then reads the plan again to answer with it;                        *)
(* ClientMonetizationService.track and record_automatic                    *)
(* (bbi_os/client_monetization/) record usage, the first within the limits *)
(* of the plan.  The limits are checked on what the usage file holds at    *)
(* one time and the event is recorded at a later one.                      *)
(*                                                                         *)
(* Each read or write of a file is one atomic step (see JsonStore).  Of    *)
(* the usage events of a client the model keeps the sums the limits and    *)
(* the properties look at.                                                 *)
(***************************************************************************)
EXTENDS Naturals, FiniteSets

CONSTANTS
    Threads,
    Clients,    \* identifiers create draws
    Plans,
    Basic,      \* the plan of a client without an assignment
    Limit,      \* execution_limit of each plan
    Rate,       \* rate_limit_per_minute of each plan
    Access,     \* the plans with connector_access
    MaxUnits,   \* bound on the units of an event
    MaxTotal,   \* bound on the units of a client
    NoClient, NoPlan,
    MaxFaults, MaxCrashes

ASSUME PlansAssumption ==
    /\ Basic \in Plans
    /\ Access \subseteq Plans
    /\ Limit \in [Plans -> Nat]
    /\ Rate \in [Plans -> Nat \ {0}]
ASSUME BoundsAssumption ==
    /\ MaxUnits \in Nat \ {0}
    /\ MaxTotal \in Nat /\ MaxFaults \in Nat /\ MaxCrashes \in Nat
ASSUME ThreadsAssumption == IsFiniteSet(Threads)
ASSUME MarksAssumption == NoClient \notin Clients /\ NoPlan \notin Plans

VARIABLES
    clients,   \* the client entities
    assigned,  \* the plan assignments
    usage,     \* the usage events of each client, summed up
    pc, client,
    plan,      \* the plan a thread works with: to assign, or as it read it
    event,     \* the usage event a thread wants to record
    asked,     \* history: the plan create was called with
    outcome,   \* history: what create answered
    stranded,  \* history: clients whose removal raised, or was cut off
    unanswered, \* history: clients whose create raised after all it had to do
    raced,     \* history: threads whose client was billed by another thread
               \* since they checked its limits
    faults, crashes

disk == <<clients, assigned, usage>>
thread == <<pc, client, plan, event>>
history == <<asked, outcome, stranded, unanswered>>
vars == <<disk, thread, history, raced, faults, crashes>>

(***************************************************************************)
(* What is kept of the usage events of a client: all units and those       *)
(* tracked (source "api"); how many events of the last minute there are,   *)
(* and how many tracked ones.                                              *)
(***************************************************************************)
Usage == [total: Nat, tracked: Nat, recent: Nat, recentTracked: Nat]
NoUsage == [total |-> 0, tracked |-> 0, recent |-> 0, recentTracked |-> 0]

Event == [source: {"api", "system"}, connector: BOOLEAN, units: 1..MaxUnits]
NoEvent == [source |-> "system", connector |-> FALSE, units |-> 1]

Init ==
    /\ clients  = {}
    /\ assigned = [c \in Clients |-> NoPlan]
    /\ usage    = [c \in Clients |-> NoUsage]
    /\ pc       = [t \in Threads |-> "idle"]
    /\ client   = [t \in Threads |-> NoClient]
    /\ plan     = [t \in Threads |-> NoPlan]
    /\ event    = [t \in Threads |-> NoEvent]
    /\ asked    = [c \in Clients |-> NoPlan]
    /\ outcome  = [c \in Clients |-> "none"]
    /\ stranded = {}
    /\ unanswered = {}
    /\ raced    = {}
    /\ faults   = 0
    /\ crashes  = 0

\* plan_for: what is not assigned is basic.
PlanFor(c) == IF assigned[c] = NoPlan THEN Basic ELSE assigned[c]

At(t, label) == pc[t] = label
Goto(t, label) == pc' = [pc EXCEPT ![t] = label]

Raises ==
    /\ faults < MaxFaults
    /\ faults' = faults + 1

\* The call returns or raises.
Leave(t) ==
    /\ Goto(t, "idle")
    /\ client' = [client EXCEPT ![t] = NoClient]
    /\ plan'   = [plan EXCEPT ![t] = NoPlan]
    /\ event'  = [event EXCEPT ![t] = NoEvent]
    /\ raced'  = raced \ {t}

-----------------------------------------------------------------------------
(***************************************************************************)
(* create: the client is there, on the basic plan, before its plan is.     *)
(* (A save that raises leaves no trace.)                                   *)
(***************************************************************************)
SaveClient(t, c, p) ==
    /\ At(t, "idle")
    /\ asked[c] = NoPlan
    /\ clients' = clients \cup {c}
    /\ asked'   = [asked EXCEPT ![c] = p]
    /\ client'  = [client EXCEPT ![t] = c]
    /\ plan'    = [plan EXCEPT ![t] = p]
    /\ Goto(t, "assign")
    /\ UNCHANGED <<assigned, usage, event, outcome, stranded, unanswered, raced, faults, crashes>>

Assign(t) ==
    /\ At(t, "assign")
    /\ assigned' = [assigned EXCEPT ![client[t]] = plan[t]]
    /\ Goto(t, "answer")
    /\ UNCHANGED <<clients, usage, client, plan, event, history, raced, faults, crashes>>

\* With a bug: create gives up without removing the client.
AssignRaisesOut(t) ==
    /\ At(t, "assign")
    /\ Raises
    /\ outcome' = [outcome EXCEPT ![client[t]] = "refused"]
    /\ Leave(t)
    /\ UNCHANGED <<disk, asked, stranded, unanswered, crashes>>

AssignRaises(t) ==
    /\ At(t, "assign")
    /\ Raises
    /\ Goto(t, "uncreate")
    /\ UNCHANGED <<disk, client, plan, event, history, raced, crashes>>

\* The compensation in create, which may raise as well.
Uncreate(t) ==
    /\ At(t, "uncreate")
    /\ \/ /\ clients' = clients \ {client[t]}
          /\ UNCHANGED <<stranded, faults>>
       \/ /\ Raises
          /\ stranded' = stranded \cup {client[t]}
          /\ UNCHANGED clients
    /\ outcome' = [outcome EXCEPT ![client[t]] = "refused"]
    /\ Leave(t)
    /\ UNCHANGED <<assigned, usage, asked, unanswered, crashes>>

\* The plan is read again for the answer, and the log is written.
AnswerCreated(t) ==
    /\ At(t, "answer")
    /\ outcome' = [outcome EXCEPT ![client[t]] = "created"]
    /\ Leave(t)
    /\ UNCHANGED <<disk, asked, stranded, unanswered, faults, crashes>>

\* Either may raise, outside the try: create answers an error, and the client
\* stays with its plan.
AnswerRaises(t) ==
    /\ At(t, "answer")
    /\ Raises
    /\ outcome'    = [outcome EXCEPT ![client[t]] = "refused"]
    /\ unanswered' = unanswered \cup {client[t]}
    /\ Leave(t)
    /\ UNCHANGED <<disk, asked, stranded, crashes>>

-----------------------------------------------------------------------------
\* track and record_automatic: the client must be there.
Validate(t, c, e) ==
    /\ At(t, "idle")
    /\ c \in clients
    /\ client' = [client EXCEPT ![t] = c]
    /\ event'  = [event EXCEPT ![t] = e]
    /\ Goto(t, "plan")
    /\ UNCHANGED <<disk, plan, history, raced, faults, crashes>>

\* plan_for, and the first check of enforce: usage the system meters itself
\* is not limited.
ReadPlan(t) ==
    /\ At(t, "plan")
    /\ LET p == PlanFor(client[t])
       IN  /\ event[t].source = "api" /\ event[t].connector => p \in Access
           /\ plan' = [plan EXCEPT ![t] = p]
    /\ Goto(t, IF event[t].source = "api" THEN "total" ELSE "record")
    /\ UNCHANGED <<disk, client, event, history, raced, faults, crashes>>

\* With a bug: the units of the event itself are forgotten.
CheckTotalBefore(t) ==
    /\ At(t, "total")
    /\ usage[client[t]].total <= Limit[plan[t]]
    /\ Goto(t, "rate")
    /\ raced' = raced \ {t}
    /\ UNCHANGED <<disk, client, plan, event, history, faults, crashes>>

\* total_units(client) + units <= execution_limit
CheckTotal(t) ==
    /\ At(t, "total")
    /\ usage[client[t]].total + event[t].units <= Limit[plan[t]]
    /\ Goto(t, "rate")
    /\ raced' = raced \ {t}
    /\ UNCHANGED <<disk, client, plan, event, history, faults, crashes>>

\* recent_count(client) < rate_limit_per_minute, on a second read of the file.
CheckRate(t) ==
    /\ At(t, "rate")
    /\ usage[client[t]].recent < Rate[plan[t]]
    /\ Goto(t, "record")
    /\ UNCHANGED <<disk, client, plan, event, history, raced, faults, crashes>>

\* A check fails (or that of the workflow's complexity does), a read or the
\* final write raises: nothing is recorded.
Refuse(t) ==
    /\ pc[t] \in {"plan", "total", "rate", "record"}
    /\ Leave(t)
    /\ UNCHANGED <<disk, history, faults, crashes>>

\* The event joins the others; its time of day was taken before, so that it
\* may be out of the last minute by now.
Added(u, e, recent) ==
    LET tracked == e.source = "api"
    IN  [total         |-> u.total + e.units,
         tracked       |-> u.tracked + (IF tracked THEN e.units ELSE 0),
         recent        |-> u.recent + (IF recent THEN 1 ELSE 0),
         recentTracked |-> u.recentTracked + (IF recent /\ tracked THEN 1 ELSE 0)]

Record(t) ==
    /\ At(t, "record")
    /\ usage[client[t]].total + event[t].units <= MaxTotal
    /\ \E recent \in BOOLEAN :
          usage' = [usage EXCEPT ![client[t]] = Added(@, event[t], recent)]
    /\ Goto(t, "idle")
    /\ client' = [client EXCEPT ![t] = NoClient]
    /\ plan'   = [plan EXCEPT ![t] = NoPlan]
    /\ event'  = [event EXCEPT ![t] = NoEvent]
    /\ raced'  = (raced \cup {u \in Threads : client[u] = client[t]}) \ {t}
    /\ UNCHANGED <<clients, assigned, history, faults, crashes>>

\* With a bug: every event of the last minute is taken for a tracked one.
AgeTracked(c) ==
    /\ usage[c].recent > 0
    /\ usage' = [usage EXCEPT ![c].recent = @ - 1, ![c].recentTracked = @ - 1]
    /\ UNCHANGED <<clients, assigned, thread, history, raced, faults, crashes>>

\* A minute passes for one of the recent events.
Age(c) ==
    /\ usage[c].recent > 0
    /\ \/ /\ usage[c].recentTracked > 0
          /\ usage' = [usage EXCEPT ![c].recent = @ - 1, ![c].recentTracked = @ - 1]
       \/ /\ usage[c].recent > usage[c].recentTracked
          /\ usage' = [usage EXCEPT ![c].recent = @ - 1]
    /\ UNCHANGED <<clients, assigned, thread, history, raced, faults, crashes>>

-----------------------------------------------------------------------------
\* The process dies: a client whose create was under way stays as it is.
Crash ==
    /\ crashes < MaxCrashes
    /\ crashes'  = crashes + 1
    /\ stranded' = stranded \cup
                   {client[t] : t \in {u \in Threads : pc[u] \in {"assign", "uncreate"}}}
    /\ pc'       = [t \in Threads |-> "idle"]
    /\ client'   = [t \in Threads |-> NoClient]
    /\ plan'     = [t \in Threads |-> NoPlan]
    /\ event'    = [t \in Threads |-> NoEvent]
    /\ raced'    = {}
    /\ UNCHANGED <<disk, asked, outcome, unanswered, faults>>

Create(t) ==
    \/ \E c \in Clients, p \in Plans : SaveClient(t, c, p)
    \/ Assign(t) \/ AssignRaises(t) \/ Uncreate(t)
    \/ AnswerCreated(t) \/ AnswerRaises(t)

Track(t) ==
    \/ \E c \in Clients, e \in Event : Validate(t, c, e)
    \/ ReadPlan(t) \/ CheckTotal(t) \/ CheckRate(t) \/ Refuse(t) \/ Record(t)

Next ==
    \/ \E t \in Threads : Create(t) \/ Track(t)
    \/ \E c \in Clients : Age(c)
    \/ Crash

Spec == Init /\ [][Next]_vars

-----------------------------------------------------------------------------
TypeOK ==
    /\ clients \subseteq Clients
    /\ assigned \in [Clients -> Plans \cup {NoPlan}]
    /\ usage \in [Clients -> Usage]
    /\ pc \in [Threads -> {"idle", "assign", "uncreate", "answer",
                           "plan", "total", "rate", "record"}]
    /\ client \in [Threads -> Clients \cup {NoClient}]
    /\ plan \in [Threads -> Plans \cup {NoPlan}]
    /\ event \in [Threads -> Event]
    /\ asked \in [Clients -> Plans \cup {NoPlan}]
    /\ outcome \in [Clients -> {"none", "created", "refused"}]
    /\ stranded \subseteq Clients /\ unanswered \subseteq Clients
    /\ raced \subseteq Threads
    /\ faults \in 0..MaxFaults
    /\ crashes \in 0..MaxCrashes

(***************************************************************************)
(* A created client is there with the plan that was asked for.  A client   *)
(* that create answered an error for is gone (lines 49-54), unless its     *)
(* removal raised too, or unless all was done and only the answer raised:  *)
(* then it is there with its plan, and whoever asks again makes a second   *)
(* one (lines 55-67 and 75).  At no time is a client without its plan but  *)
(* while create is under way, or once it was stranded.                     *)
(***************************************************************************)
CreateKeepsItsWord ==
    /\ \A c \in Clients :
          /\ outcome[c] = "created" => c \in clients /\ assigned[c] = asked[c]
          /\ outcome[c] = "refused" =>
                \/ c \notin clients
                \/ c \in stranded
                \/ c \in unanswered /\ assigned[c] = asked[c]
    /\ \A c \in clients :
          \/ assigned[c] = asked[c]
          \/ c \in stranded
          \/ \E t \in Threads : client[t] = c /\ pc[t] \in {"assign", "uncreate"}

Larger(m, n) == IF m < n THEN n ELSE m

(***************************************************************************)
(* How far concurrent calls of track can take a client past its rate: each *)
(* thread but one may have been let through by the same count (metering.py *)
(* lines 25-26, and service.py line 91).                                   *)
(***************************************************************************)
RateOverrunBounded ==
    \A c \in Clients :
        usage[c].recentTracked <=
            Larger(Rate[Basic], Rate[PlanFor(c)]) + Cardinality(Threads) - 1

\* A tracked event that no other record of its client came between keeps the
\* client within the limit it was checked against (metering.py lines 16-17).
LimitHoldsAlone ==
    [][\A t \in Threads :
          At(t, "record") /\ event[t].source = "api" /\ Record(t) /\ t \notin raced =>
              usage'[client[t]].total <= Limit[plan[t]]]_vars

\* The limits of the plan hold as far as a check that is not repeated can make
\* them: the two statements above.
LimitsHold == []RateOverrunBounded /\ LimitHoldsAlone

\* What enforce says it does: the usage tracked for a client stays within the
\* limit of its plan.
LimitIsEnforced ==
    \A c \in Clients :
        usage[c].tracked <= Larger(Limit[Basic], Limit[PlanFor(c)])
=============================================================================
