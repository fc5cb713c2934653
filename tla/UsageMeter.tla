------------------------------ MODULE UsageMeter ------------------------------
(***************************************************************************)
(* bbi_os/client_monetization/metering_observer.py: a listener of the      *)
(* system log that turns the events of a request into usage records.  It   *)
(* counts the steps and outbound calls of a request under one lock that is *)
(* not reentrant, and bills them when the event that ends an execution or  *)
(* an onboarding arrives.  The bill is recorded outside the lock for an    *)
(* execution, inside it for an onboarding; a record that raises is         *)
(* swallowed; every record is itself logged, so that the listener is       *)
(* called again from within.                                               *)
(*                                                                         *)
(* A request runs in one thread and has an identifier of its own.  How the *)
(* usage is checked against plans and stored is in Monetization.           *)
(***************************************************************************)
EXTENDS Naturals, Sequences, FiniteSets

CONSTANTS
    Threads,
    Requests,   \* identifiers begin_request draws
    NoRequest,
    NoThread,
    NoCounters,
    MaxSteps,   \* bound on the steps of a request
    MaxCalls,   \* bound on its outbound calls
    MaxLosses,  \* bound on records that raise
    MaxCrashes

ASSUME BoundsAssumption ==
    MaxSteps \in Nat /\ MaxCalls \in Nat /\ MaxLosses \in Nat /\ MaxCrashes \in Nat

VARIABLES
    lock,      \* UsageSignalMeter._lock: its owner
    counters,  \* UsageSignalMeter._requests
    usage,     \* the usage records of each request
    pc,        \* where each thread stands
    request,   \* the request a thread serves
    kind,      \* what a request does: see Kinds
    snapshot,  \* the copy of the counters a thread bills
    did,       \* history: what each request did
    lost,      \* history: records that raised: <<request, type>>
    cut,       \* history: requests ended by a crash
    crashes

vars == <<lock, counters, usage, pc, request, kind, snapshot, did, lost, cut, crashes>>

(***************************************************************************)
(* What a request may be to the meter: an immediate client execution that  *)
(* ends completed or failed, an onboarding, a deferred execution, or work  *)
(* that logs steps and calls and no event of its own end (a workflow or a  *)
(* pipeline run directly, an onboarding or an execution that raises).      *)
(***************************************************************************)
Billed == {"execution", "onboarding"}
Kinds  == Billed \cup {"deferred", "unmetered"}

Counters == [steps: 0..MaxSteps, connectors: 0..MaxCalls]
Zero     == [steps |-> 0, connectors |-> 0]
Types    == {"workflow_execution", "onboarding", "connector_call"}
Bill     == [type: Types, units: Nat]

ASSUME MarksAssumption ==
    /\ NoCounters \notin Counters
    /\ NoRequest \notin Requests
    /\ NoThread \notin Threads

Init ==
    /\ lock     = NoThread
    /\ counters = [r \in Requests |-> NoCounters]
    /\ usage    = [r \in Requests |-> <<>>]
    /\ pc       = [t \in Threads |-> "idle"]
    /\ request  = [t \in Threads |-> NoRequest]
    /\ kind     = [r \in Requests |-> "none"]
    /\ snapshot = [t \in Threads |-> Zero]
    /\ did      = [r \in Requests |-> Zero]
    /\ lost     = {}
    /\ cut      = {}
    /\ crashes  = 0

At(t, label) == pc[t] = label
Goto(t, label) == pc' = [pc EXCEPT ![t] = label]

\* self._requests.setdefault
CountersOf(r) == IF counters[r] = NoCounters THEN Zero ELSE counters[r]

Free == lock = NoThread

Begin(t, r, k) ==
    /\ At(t, "idle")
    /\ kind[r] = "none"
    /\ kind' = [kind EXCEPT ![r] = k]
    /\ request' = [request EXCEPT ![t] = r]
    /\ Goto(t, "running")
    /\ UNCHANGED <<lock, counters, usage, snapshot, did, lost, cut, crashes>>

\* With a bug: an event of a request starts its counters afresh.
StepCompletedAfresh(t) ==
    /\ At(t, "running")
    /\ Free
    /\ LET r == request[t]
       IN  /\ kind[r] # "deferred"
           /\ did[r].steps < MaxSteps
           /\ counters' = [counters EXCEPT ![r] = [Zero EXCEPT !.steps = 1]]
           /\ did' = [did EXCEPT ![r].steps = @ + 1]
    /\ UNCHANGED <<lock, usage, pc, request, kind, snapshot, lost, cut, crashes>>

\* "workflow_step_completed"
StepCompleted(t) ==
    /\ At(t, "running")
    /\ Free
    /\ LET r == request[t]
       IN  /\ kind[r] # "deferred"
           /\ did[r].steps < MaxSteps
           /\ counters' = [counters EXCEPT ![r] =
                              [CountersOf(r) EXCEPT !.steps = @ + 1]]
           /\ did' = [did EXCEPT ![r].steps = @ + 1]
    /\ UNCHANGED <<lock, usage, pc, request, kind, snapshot, lost, cut, crashes>>

\* "external_request"
ExternalRequest(t) ==
    /\ At(t, "running")
    /\ Free
    /\ LET r == request[t]
       IN  /\ kind[r] # "deferred"
           /\ did[r].connectors < MaxCalls
           /\ counters' = [counters EXCEPT ![r] =
                              [CountersOf(r) EXCEPT !.connectors = @ + 1]]
           /\ did' = [did EXCEPT ![r].connectors = @ + 1]
    /\ UNCHANGED <<lock, usage, pc, request, kind, snapshot, lost, cut, crashes>>

-----------------------------------------------------------------------------
\* The counters are copied for the bill and forgotten.
StartBill(t, owner) ==
    /\ Free
    /\ snapshot' = [snapshot EXCEPT ![t] = CountersOf(request[t])]
    /\ counters' = [counters EXCEPT ![request[t]] = NoCounters]
    /\ lock' = owner
    /\ Goto(t, "record")
    /\ UNCHANGED <<usage, request, kind, did, lost, cut, crashes>>

\* "client_execution_completed", or "client_execution_recorded" of a FAILED
\* record: the lock is released before the bill is recorded.
ExecutionEnds(t) ==
    /\ At(t, "running")
    /\ kind[request[t]] = "execution"
    /\ StartBill(t, NoThread)

\* "client_onboarding_completed": the bill is recorded under the lock.
OnboardingCompletes(t) ==
    /\ At(t, "running")
    /\ kind[request[t]] = "onboarding"
    /\ StartBill(t, t)

EndsAs(t) ==
    /\ Goto(t, "idle")
    /\ request' = [request EXCEPT ![t] = NoRequest]
    /\ snapshot' = [snapshot EXCEPT ![t] = Zero]

\* "client_execution_recorded" of a PENDING record: no bill, but setdefault
\* has left counters for a request that is over.
ScheduleRecorded(t) ==
    /\ At(t, "running")
    /\ kind[request[t]] = "deferred"
    /\ Free
    /\ counters' = [counters EXCEPT ![request[t]] = CountersOf(request[t])]
    /\ EndsAs(t)
    /\ UNCHANGED <<lock, usage, kind, did, lost, cut, crashes>>

\* The request ends and no event tells the meter.
EndsUnmetered(t) ==
    /\ At(t, "running")
    /\ kind[request[t]] = "unmetered"
    /\ EndsAs(t)
    /\ UNCHANGED <<lock, counters, usage, kind, did, lost, cut, crashes>>

-----------------------------------------------------------------------------
\* With a bug: a bill has the name of what the request did.
MainTypeOfKind(r) == kind[r]

MainType(r) == IF kind[r] = "onboarding" THEN "onboarding" ELSE "workflow_execution"

MainBill(t) ==
    LET r == request[t]
    IN  [type  |-> MainType(r),
         units |-> IF kind[r] = "onboarding" THEN 1 ELSE 1 + snapshot[t].steps]

CallsBill(t) == [type |-> "connector_call", units |-> snapshot[t].connectors]

\* _safe_record: the usage is stored, and the record is logged.
Stored(t, bill) ==
    /\ usage' = [usage EXCEPT ![request[t]] = Append(@, bill)]
    /\ UNCHANGED lost

\* record_automatic raises (an unknown client, a failing save): swallowed.
Swallowed(t, bill) ==
    /\ Cardinality(lost) < MaxLosses
    /\ lost' = lost \cup {<<request[t], bill.type>>}
    /\ UNCHANGED usage

Record(t) ==
    /\ At(t, "record")
    /\ \/ Stored(t, MainBill(t)) /\ Goto(t, "logged")
       \/ Swallowed(t, MainBill(t)) /\ Goto(t, "calls")
    /\ UNCHANGED <<lock, counters, request, kind, snapshot, did, cut, crashes>>

RecordCalls(t) ==
    /\ At(t, "calls")
    /\ snapshot[t].connectors > 0
    /\ \/ Stored(t, CallsBill(t)) /\ Goto(t, "calls logged")
       \/ Swallowed(t, CallsBill(t)) /\ Goto(t, "billed")
    /\ UNCHANGED <<lock, counters, request, kind, snapshot, did, cut, crashes>>

NoCalls(t) ==
    /\ At(t, "calls")
    /\ snapshot[t].connectors = 0
    /\ Goto(t, "billed")
    /\ UNCHANGED <<lock, counters, usage, request, kind, snapshot, did, lost, cut, crashes>>

AfterLog(t) == IF At(t, "logged") THEN "calls" ELSE "billed"

\* With a bug: the meter takes its lock before it looks at the event.
NestedLogLocks(t) ==
    /\ pc[t] \in {"logged", "calls logged"}
    /\ Free
    /\ Goto(t, AfterLog(t))
    /\ UNCHANGED <<lock, counters, usage, request, kind, snapshot, did, lost, cut, crashes>>

\* The record is logged as "client_usage_recorded": the meter is called while
\* this thread may hold its lock, and returns before it would take it.
NestedLog(t) ==
    /\ pc[t] \in {"logged", "calls logged"}
    /\ Goto(t, AfterLog(t))
    /\ UNCHANGED <<lock, counters, usage, request, kind, snapshot, did, lost, cut, crashes>>

\* The listener returns, and gives the lock back if it held it.
BillDone(t) ==
    /\ At(t, "billed")
    /\ lock' = IF lock = t THEN NoThread ELSE lock
    /\ EndsAs(t)
    /\ UNCHANGED <<counters, usage, kind, did, lost, cut, crashes>>

-----------------------------------------------------------------------------
\* The process dies: the usage file stays, the counters do not.
Crash ==
    /\ crashes < MaxCrashes
    /\ \E t \in Threads : ~ At(t, "idle")
    /\ crashes'  = crashes + 1
    /\ cut'      = cut \cup {request[t] : t \in {u \in Threads : ~ At(u, "idle")}}
    /\ lock'     = NoThread
    /\ counters' = [r \in Requests |-> NoCounters]
    /\ pc'       = [t \in Threads |-> "idle"]
    /\ request'  = [t \in Threads |-> NoRequest]
    /\ snapshot' = [t \in Threads |-> Zero]
    /\ UNCHANGED <<usage, kind, did, lost>>

Ends(t) == ExecutionEnds(t) \/ OnboardingCompletes(t) \/ ScheduleRecorded(t) \/ EndsUnmetered(t)

Billing(t) == Record(t) \/ RecordCalls(t) \/ NoCalls(t) \/ NestedLog(t) \/ BillDone(t)

Next ==
    \/ \E t \in Threads :
          \/ \E r \in Requests, k \in Kinds : Begin(t, r, k)
          \/ StepCompleted(t) \/ ExternalRequest(t)
          \/ Ends(t) \/ Billing(t)
    \/ Crash

Spec == Init /\ [][Next]_vars

\* A thread that bills a request keeps running: nothing it does then waits.
FairSpec == Spec /\ \A t \in Threads : WF_vars(Billing(t))

-----------------------------------------------------------------------------
TypeOK ==
    /\ lock \in Threads \cup {NoThread}
    /\ counters \in [Requests -> Counters \cup {NoCounters}]
    /\ usage \in [Requests -> Seq(Bill)]
    /\ pc \in [Threads -> {"idle", "running", "record", "logged", "calls",
                           "calls logged", "billed"}]
    /\ request \in [Threads -> Requests \cup {NoRequest}]
    /\ kind \in [Requests -> Kinds \cup {"none"}]
    /\ snapshot \in [Threads -> Counters]
    /\ did \in [Requests -> Counters]
    /\ lost \subseteq Requests \X Types
    /\ cut \subseteq Requests
    /\ crashes \in 0..MaxCrashes

Served(r) == \E t \in Threads : request[t] = r
Over(r) == kind[r] # "none" /\ ~ Served(r)

\* What a request that is over should have been billed, record by record.
Due(r) ==
    LET main  == [type  |-> MainType(r),
                  units |-> IF kind[r] = "onboarding" THEN 1 ELSE 1 + did[r].steps]
        calls == [type |-> "connector_call", units |-> did[r].connectors]
    IN  IF kind[r] \notin Billed THEN <<>>
        ELSE IF did[r].connectors = 0 THEN <<main>>
        ELSE <<main, calls>>

(***************************************************************************)
(* A request that is over was billed all it did, less exactly the records  *)
(* that raised (_safe_record, lines 91-104).  After a crash no more is     *)
(* promised than NeverOverbilled.                                          *)
(***************************************************************************)
BilledExactly ==
    \A r \in Requests :
        Over(r) /\ r \notin cut =>
            \A i \in 1..Len(Due(r)) :
                (\E j \in 1..Len(usage[r]) : usage[r][j] = Due(r)[i])
                    <=> <<r, Due(r)[i].type>> \notin lost

\* At any time, crash or not, a request has at most one record of a type and
\* none for more units than it has used (lines 37-89).
NeverOverbilled ==
    \A r \in Requests : \A i \in 1..Len(usage[r]) :
        /\ \E j \in 1..Len(Due(r)) : usage[r][i] = Due(r)[j]
        /\ \A j \in 1..Len(usage[r]) : usage[r][i].type = usage[r][j].type => i = j

(***************************************************************************)
(* The counters of a request that is over are gone, except those of        *)
(* requests the meter never bills: these stay until the process ends       *)
(* (setdefault at line 28, and no pop but at lines 42 and 48).             *)
(***************************************************************************)
OnlyUnbilledLeak ==
    \A r \in Requests : Over(r) /\ counters[r] # NoCounters => kind[r] \notin Billed

\* No bill is wrong, and none is left open: the three statements above.
BilledHonestly == BilledExactly /\ NeverOverbilled /\ OnlyUnbilledLeak

\* The lock of the meter is always given back: the log calls a record makes
\* under it do not wait for it (lines 19-26 come before line 27).
LockIsReleased == \A t \in Threads : lock = t ~> lock # t
=============================================================================
