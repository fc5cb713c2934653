--------------------------- MODULE UsageMeterProofs ---------------------------
(***************************************************************************)
(* The bills of UsageMeter are honest for any threads, requests and        *)
(* bounds.  The invariant says of a request that is served how far its     *)
(* thread is with the bill, and of one that is not, what was billed: the   *)
(* counters mirror what the request did until they are copied, and no two  *)
(* threads serve one request.                                              *)
(***************************************************************************)
EXTENDS UsageMeter, SequenceTheorems, TLAPS

\* The two bills of a request r that did d, and those of them that m and c say.
Main(r, d) == [type  |-> MainType(r),
               units |-> IF kind[r] = "onboarding" THEN 1 ELSE 1 + d.steps]
Calls(d) == [type |-> "connector_call", units |-> d.connectors]

Paid(r, m, c) ==
    /\ ~m /\ ~c => usage[r] = <<>>
    /\  m /\ ~c => usage[r] = <<Main(r, did[r])>>
    /\ ~m /\  c => usage[r] = <<Calls(did[r])>>
    /\  m /\  c => usage[r] = <<Main(r, did[r]), Calls(did[r])>>

MainLost(r)  == <<r, MainType(r)>> \in lost
CallsLost(r) == <<r, "connector_call">> \in lost
Called(r)    == did[r].connectors > 0

\* A thread that serves a request r, at each label.
ServingOK(t, r) ==
    /\ kind[r] \in Kinds
    /\ pc[t] # "idle"
    /\ pc[t] = "running" =>
          Paid(r, FALSE, FALSE) /\ ~MainLost(r) /\ ~CallsLost(r) /\ CountersOf(r) = did[r]
    /\ pc[t] # "running" =>
          kind[r] \in Billed /\ counters[r] = NoCounters /\ snapshot[t] = did[r]
    /\ pc[t] = "record" => Paid(r, FALSE, FALSE) /\ ~MainLost(r) /\ ~CallsLost(r)
    /\ pc[t] = "logged" => Paid(r, TRUE, FALSE) /\ ~MainLost(r) /\ ~CallsLost(r)
    /\ pc[t] = "calls"  => Paid(r, ~MainLost(r), FALSE) /\ ~CallsLost(r)
    /\ pc[t] = "calls logged" => Paid(r, ~MainLost(r), TRUE) /\ ~CallsLost(r) /\ Called(r)
    /\ pc[t] = "billed" => Paid(r, ~MainLost(r), Called(r) /\ ~CallsLost(r))

\* A request no thread serves: not begun, over, or cut by a crash.
RestOK(r) ==
    /\ kind[r] \notin Billed => usage[r] = <<>>
    /\ kind[r] = "none" =>
          /\ counters[r] = NoCounters /\ did[r] = Zero
          /\ \A type \in Types : <<r, type>> \notin lost
    /\ kind[r] \in Billed =>
          /\ counters[r] = NoCounters
          /\ \E m, c \in BOOLEAN : Paid(r, m, c) /\ (c => Called(r))
          /\ r \notin cut => Paid(r, ~MainLost(r), Called(r) /\ ~CallsLost(r))

UInv ==
    /\ TypeOK
    /\ \A t \in Threads : pc[t] = "idle" <=> request[t] = NoRequest
    /\ \A t, u \in Threads : request[t] = request[u] /\ request[t] # NoRequest => t = u
    /\ \A t \in Threads : request[t] # NoRequest => ServingOK(t, request[t])
    /\ \A r \in Requests : ~Served(r) => RestOK(r)

-----------------------------------------------------------------------------
LEMMA ZeroCounters == Zero \in Counters
BY BoundsAssumption DEF Zero, Counters

LEMMA CountersOfTyped ==
    ASSUME TypeOK, NEW r \in Requests
    PROVE  CountersOf(r) \in Counters
BY ZeroCounters DEF TypeOK, CountersOf

LEMMA InitUInv == Init => UInv
<1> SUFFICES ASSUME Init PROVE UInv
  OBVIOUS
<1> USE DEF Init
<1>1. TypeOK
  <2>1. crashes \in 0..MaxCrashes
    BY BoundsAssumption
  <2>2. usage \in [Requests -> Seq(Bill)]
    OBVIOUS
  <2>3. snapshot \in [Threads -> Counters] /\ did \in [Requests -> Counters]
    BY ZeroCounters
  <2>4. QED
    BY <2>1, <2>2, <2>3 DEF TypeOK
<1>2. ASSUME NEW r \in Requests PROVE RestOK(r)
  BY DEF RestOK, MainLost, CallsLost, Billed
<1>3. QED
  BY <1>1, <1>2 DEF UInv

-----------------------------------------------------------------------------
\* A step that concerns one thread and one request, and touches no other.
Concerns(t, r) ==
    /\ \A u \in Threads \ {t} :
          pc'[u] = pc[u] /\ request'[u] = request[u] /\ snapshot'[u] = snapshot[u]
    /\ \A q \in Requests \ {r} :
          /\ counters'[q] = counters[q] /\ usage'[q] = usage[q]
          /\ kind'[q] = kind[q] /\ did'[q] = did[q]
          /\ \A type \in Types : <<q, type>> \in lost' <=> <<q, type>> \in lost
    /\ cut' = cut

LEMMA ConcernsUInv ==
    ASSUME UInv, TypeOK', NEW t \in Threads, NEW r \in Requests, Concerns(t, r),
           request[t] = r \/ (request[t] = NoRequest /\ ~Served(r)),
           \/ request'[t] = r /\ ServingOK(t, r)'
           \/ request'[t] = NoRequest /\ pc'[t] = "idle" /\ RestOK(r)'
    PROVE  UInv'
<1>1. \A u \in Threads \ {t} : request[u] # r
  BY MarksAssumption DEF UInv, Served
<1>2. r # NoRequest
  BY MarksAssumption
<1>3. \A u \in Threads : pc'[u] = "idle" <=> request'[u] = NoRequest
  BY <1>2 DEF UInv, Concerns, ServingOK
<1>4. \A u, v \in Threads : request'[u] = request'[v] /\ request'[u] # NoRequest => u = v
  BY <1>1 DEF UInv, Concerns
<1>5. ASSUME NEW u \in Threads, request'[u] # NoRequest
      PROVE  ServingOK(u, request[u])'
  <2>1. CASE u = t
    BY <1>5, <2>1
  <2>2. CASE u # t
    <3>0. PICK q \in Requests : q = request[u]
      BY <1>5, <2>2 DEF UInv, TypeOK, Concerns
    <3>1. /\ request'[u] = q /\ pc'[u] = pc[u] /\ snapshot'[u] = snapshot[u]
          /\ q \in Requests \ {r} /\ ServingOK(u, q)
      BY <1>1, <1>5, <2>2, <3>0 DEF UInv, Concerns
    <3>2. /\ counters'[q] = counters[q] /\ usage'[q] = usage[q]
          /\ kind'[q] = kind[q] /\ did'[q] = did[q]
          /\ \A type \in Types : <<q, type>> \in lost' <=> <<q, type>> \in lost
      BY <3>1 DEF Concerns
    <3>3. /\ MainLost(q)' <=> MainLost(q)
          /\ CallsLost(q)' <=> CallsLost(q)
      BY <3>2 DEF MainLost, CallsLost, MainType, Types
    <3>4. Called(q)' <=> Called(q)
      BY <3>2 DEF Called
    <3>5. CountersOf(q)' = CountersOf(q)
      BY <3>2 DEF CountersOf
    <3>6. \A m, c \in BOOLEAN : Paid(q, m, c) => Paid(q, m, c)'
      BY <3>2 DEF Paid, Main, MainType, Calls
    <3>7. ServingOK(u, q)'
      BY <3>1, <3>2, <3>3, <3>4, <3>5, <3>6 DEF ServingOK
    <3>8. QED
      BY <3>1, <3>7
  <2>3. QED
    BY <2>1, <2>2
<1>6. ASSUME NEW q \in Requests, ~Served(q)'
      PROVE  RestOK(q)'
  <2>1. CASE q = r
    BY <1>6, <2>1 DEF Served
  <2>2. CASE q # r
    <3>1. /\ counters'[q] = counters[q] /\ usage'[q] = usage[q]
          /\ kind'[q] = kind[q] /\ did'[q] = did[q] /\ cut' = cut
          /\ \A type \in Types : <<q, type>> \in lost' <=> <<q, type>> \in lost
      BY <2>2 DEF Concerns
    <3>2. ~Served(q)
      BY <1>6, <2>2, MarksAssumption DEF Served, Concerns
    <3>3. RestOK(q)
      BY <3>2 DEF UInv
    <3>4. /\ MainLost(q)' <=> MainLost(q)
          /\ CallsLost(q)' <=> CallsLost(q)
      BY <3>1 DEF MainLost, CallsLost, MainType, Types
    <3>5. Called(q)' <=> Called(q)
      BY <3>1 DEF Called
    <3>6. \A m, c \in BOOLEAN : Paid(q, m, c) => Paid(q, m, c)'
      BY <3>1 DEF Paid, Main, MainType, Calls
    <3>7. QED
      BY <3>1, <3>3, <3>4, <3>5, <3>6 DEF RestOK
  <2>3. QED
    BY <2>1, <2>2
<1>7. QED
  BY <1>3, <1>4, <1>5, <1>6 DEF UInv


\* What UInv says of a thread that serves a request.
LEMMA AtServing ==
    ASSUME UInv, NEW t \in Threads, pc[t] # "idle"
    PROVE  /\ request[t] \in Requests
           /\ ServingOK(t, request[t])
BY DEF UInv, TypeOK

LEMMA BeginUInv ==
    ASSUME UInv, NEW t \in Threads, NEW r \in Requests, NEW k \in Kinds, Begin(t, r, k)
    PROVE  UInv'
<1> USE DEF Begin, At, Goto
<1>1. TypeOK'
  BY DEF UInv, TypeOK
<1>2. request[t] = NoRequest
  BY DEF UInv
<1>3. ~Served(r)
  <2>1. SUFFICES ASSUME NEW u \in Threads, request[u] = r
                 PROVE  FALSE
    BY DEF Served
  <2>2. ServingOK(u, r)
    BY <2>1, MarksAssumption DEF UInv
  <2>3. QED
    BY <2>2 DEF ServingOK, Kinds, Billed
<1>4. RestOK(r)
  BY <1>3 DEF UInv
<1>5. /\ usage'[r] = <<>> /\ counters'[r] = NoCounters /\ did'[r] = Zero
      /\ \A type \in Types : <<r, type>> \notin lost'
      /\ kind'[r] = k /\ pc'[t] = "running" /\ request'[t] = r
  BY <1>4 DEF RestOK, UInv, TypeOK, Billed
<1>6. ServingOK(t, r)'
  <2>1. Paid(r, FALSE, FALSE)'
    BY <1>5 DEF Paid
  <2>2. ~MainLost(r)' /\ ~CallsLost(r)'
    BY <1>5 DEF MainLost, CallsLost, MainType, Types
  <2>3. CountersOf(r)' = did'[r]
    BY <1>5 DEF CountersOf
  <2>4. QED
    BY <1>5, <2>1, <2>2, <2>3 DEF ServingOK
<1>7. Concerns(t, r)
  BY DEF Concerns, UInv, TypeOK
<1>8. QED
  BY <1>1, <1>2, <1>3, <1>5, <1>6, <1>7, ConcernsUInv

\* A step or a call is counted, and the request did it.
LEMMA CountUInv ==
    ASSUME UInv, NEW t \in Threads, pc[t] = "running", NEW c \in Counters,
           counters' = [counters EXCEPT ![request[t]] = c],
           did' = [did EXCEPT ![request[t]] = c],
           UNCHANGED <<lock, usage, pc, request, kind, snapshot, lost, cut, crashes>>
    PROVE  UInv'
<1>1. PICK r \in Requests : r = request[t] /\ ServingOK(t, r)
  BY AtServing
<1>2. TypeOK'
  BY DEF UInv, TypeOK
<1>3. counters'[r] = c /\ did'[r] = c
  BY <1>1 DEF UInv, TypeOK
<1>4. CountersOf(r)' = did'[r]
  BY <1>3, MarksAssumption DEF CountersOf
<1>5. /\ MainLost(r)' <=> MainLost(r)
      /\ CallsLost(r)' <=> CallsLost(r)
      /\ Paid(r, FALSE, FALSE) => Paid(r, FALSE, FALSE)'
  BY DEF MainLost, CallsLost, MainType, Paid
<1>6. ServingOK(t, r)'
  BY <1>1, <1>4, <1>5 DEF ServingOK
<1>7. Concerns(t, r)
  BY <1>1 DEF Concerns, UInv, TypeOK
<1>8. request'[t] = r
  BY <1>1
<1>9. QED
  BY <1>1, <1>2, <1>6, <1>7, <1>8, ConcernsUInv

\* The counters are copied and forgotten.
LEMMA StartBillUInv ==
    ASSUME UInv, NEW t \in Threads, pc[t] = "running", kind[request[t]] \in Billed,
           NEW owner \in Threads \cup {NoThread}, StartBill(t, owner)
    PROVE  UInv'
<1> USE DEF StartBill, Goto
<1>1. PICK r \in Requests : r = request[t] /\ ServingOK(t, r)
  BY AtServing
<1>2. CountersOf(r) \in Counters
  BY CountersOfTyped DEF UInv
<1>3. TypeOK'
  BY <1>1, <1>2 DEF UInv, TypeOK
<1>4. /\ counters'[r] = NoCounters /\ snapshot'[t] = CountersOf(r)
      /\ pc'[t] = "record" /\ request'[t] = r
  BY <1>1 DEF UInv, TypeOK
<1>5. CountersOf(r) = did[r] /\ Paid(r, FALSE, FALSE) /\ ~MainLost(r) /\ ~CallsLost(r)
  BY <1>1 DEF ServingOK
<1>6. /\ MainLost(r)' <=> MainLost(r)
      /\ CallsLost(r)' <=> CallsLost(r)
      /\ Paid(r, FALSE, FALSE) => Paid(r, FALSE, FALSE)'
  BY DEF MainLost, CallsLost, MainType, Paid
<1>7. ServingOK(t, r)'
  BY <1>1, <1>4, <1>5, <1>6 DEF ServingOK
<1>8. Concerns(t, r)
  BY <1>1 DEF Concerns, UInv, TypeOK
<1>9. QED
  BY <1>1, <1>3, <1>4, <1>7, <1>8, ConcernsUInv

\* The bills a thread makes are those of what its request did.
LEMMA BillsOfRequest ==
    ASSUME UInv, NEW t \in Threads, NEW r \in Requests, r = request[t], snapshot[t] = did[r]
    PROVE  /\ MainBill(t) = Main(r, did[r]) /\ Main(r, did[r]) \in Bill
           /\ CallsBill(t) = Calls(did[r]) /\ Calls(did[r]) \in Bill
           /\ Main(r, did[r]).type = MainType(r)
           /\ Calls(did[r]).type = "connector_call"
           /\ MainType(r) \in {"onboarding", "workflow_execution"}
<1>1. did[r] \in Counters
  BY DEF UInv, TypeOK
<1>2. did[r].steps \in Nat /\ did[r].connectors \in Nat
  BY <1>1, BoundsAssumption DEF Counters
<1>3. MainType(r) \in {"onboarding", "workflow_execution"}
  BY DEF MainType
<1>4. 1 + did[r].steps \in Nat
  BY <1>2
<1>5. (IF kind[r] = "onboarding" THEN 1 ELSE 1 + did[r].steps) \in Nat
  BY <1>4
<1>6. Main(r, did[r]) \in Bill /\ Main(r, did[r]).type = MainType(r)
  BY <1>3, <1>5 DEF Main, Bill, Types
<1>7. Calls(did[r]) \in Bill /\ Calls(did[r]).type = "connector_call"
  BY <1>2 DEF Calls, Bill, Types
<1>8. MainBill(t) = Main(r, did[r]) /\ CallsBill(t) = Calls(did[r])
  BY DEF MainBill, CallsBill, Main, Calls
<1>9. QED
  BY <1>3, <1>6, <1>7, <1>8

LEMMA AppendToFew ==
    ASSUME NEW S, NEW x \in S, NEW y \in S
    PROVE  Append(<<>>, x) = <<x>> /\ Append(<<y>>, x) = <<y, x>>
<1>1. <<>> \in Seq(S) /\ <<y>> \in Seq(S)
  OBVIOUS
<1>2. Append(<<>>, x) = <<>> \o <<x>>
  BY <1>1, AppendIsConcat
<1>3. Append(<<y>>, x) = <<y>> \o <<x>>
  BY <1>1, AppendIsConcat
<1>4. <<>> \o <<x>> = <<x>>
  OBVIOUS
<1>5. <<y>> \o <<x>> = <<y, x>>
  <2> DEFINE s == <<y>> \o <<x>>
  <2>1. <<x>> \in Seq(S) /\ <<y, x>> \in Seq(S)
    OBVIOUS
  <2>2. s \in Seq(S) /\ Len(s) = 2 /\ s[1] = y /\ s[2] = x
    BY <1>1, <2>1, ConcatProperties
  <2> HIDE DEF s
  <2>3. s = <<y, x>>
    BY <2>1, <2>2, SeqEqual
  <2>4. QED
    BY <2>3 DEF s
<1>6. QED
  BY <1>2, <1>3, <1>4, <1>5

LEMMA AppendTyped ==
    ASSUME NEW S, NEW s \in Seq(S), NEW x \in S
    PROVE  Append(s, x) \in Seq(S)
OBVIOUS

\* A thread goes on with its bill: it stores one, loses one or does neither.
LEMMA BillingUInv ==
    ASSUME UInv, NEW t \in Threads, NEW r \in Requests, r = request[t], snapshot[t] = did[r],
           NEW label \in {"logged", "calls", "calls logged", "billed"},
           pc' = [pc EXCEPT ![t] = label],
           NEW bill \in {Main(r, did[r]), Calls(did[r])},
           \/ usage' = [usage EXCEPT ![r] = Append(@, bill)] /\ lost' = lost
           \/ lost' = lost \cup {<<r, bill.type>>} /\ usage' = usage
           \/ UNCHANGED <<usage, lost>>,
           UNCHANGED <<lock, counters, request, kind, snapshot, did, cut, crashes>>,
           ServingOK(t, r)'
    PROVE  UInv'
<1>1. bill \in Bill
  BY BillsOfRequest
<1>2. usage' \in [Requests -> Seq(Bill)]
  <2>1. usage \in [Requests -> Seq(Bill)]
    BY DEF UInv, TypeOK
  <2>2. Append(usage[r], bill) \in Seq(Bill)
    BY <1>1, <2>1, AppendTyped
  <2>3. QED
    BY <2>1, <2>2
<1>3. lost' \subseteq Requests \X Types
  <2>1. PICK type \in Types : type = bill.type
    BY <1>1 DEF Bill
  <2>2. lost \subseteq Requests \X Types
    BY DEF UInv, TypeOK
  <2>3. lost' \subseteq lost \cup {<<r, type>>}
    BY <2>1
  <2>4. <<r, type>> \in Requests \X Types
    OBVIOUS
  <2>5. QED
    BY <2>2, <2>3, <2>4
<1>4. TypeOK'
  BY <1>2, <1>3 DEF UInv, TypeOK
<1>5. Concerns(t, r)
  <2>1. \A u \in Threads \ {t} : pc'[u] = pc[u] /\ request'[u] = request[u]
                                 /\ snapshot'[u] = snapshot[u]
    BY DEF UInv, TypeOK
  <2>2. ASSUME NEW q \in Requests \ {r} PROVE usage'[q] = usage[q]
    BY DEF UInv, TypeOK
  <2>3. ASSUME NEW q \in Requests \ {r}, NEW type \in Types
        PROVE  <<q, type>> \in lost' <=> <<q, type>> \in lost
    OBVIOUS
  <2>4. QED
    BY <2>1, <2>2, <2>3 DEF Concerns
<1>6. request'[t] = r
  OBVIOUS
<1>7. QED
  BY <1>4, <1>5, <1>6, ConcernsUInv

LEMMA RecordUInv ==
    ASSUME UInv, NEW t \in Threads, Record(t)
    PROVE  UInv'
<1> USE DEF Record, At, Goto
<1>1. PICK r \in Requests : r = request[t] /\ ServingOK(t, r)
  BY AtServing
<1>2. /\ kind[r] \in Billed /\ counters[r] = NoCounters /\ snapshot[t] = did[r]
      /\ usage[r] = <<>> /\ ~MainLost(r) /\ ~CallsLost(r)
  BY <1>1 DEF ServingOK, Paid
<1>3. /\ MainBill(t) = Main(r, did[r])
      /\ Main(r, did[r]).type = MainType(r)
      /\ MainType(r) \in {"onboarding", "workflow_execution"}
  BY <1>1, <1>2, BillsOfRequest
<1>4. UNCHANGED <<lock, counters, request, kind, snapshot, did, cut, crashes>>
  OBVIOUS
<1>5. Main(r, did[r])' = Main(r, did[r]) /\ MainType(r)' = MainType(r)
  BY DEF Main, MainType
<1>6. CASE Stored(t, MainBill(t)) /\ Goto(t, "logged")
  <2>1. /\ usage' = [usage EXCEPT ![r] = Append(@, Main(r, did[r]))] /\ lost' = lost
        /\ pc' = [pc EXCEPT ![t] = "logged"]
    BY <1>1, <1>3, <1>6 DEF Stored
  <2>2. usage'[r] = <<Main(r, did[r])>> /\ pc'[t] = "logged"
    <3>1. usage'[r] = Append(<<>>, Main(r, did[r])) /\ pc'[t] = "logged"
      BY <1>2, <2>1 DEF UInv, TypeOK
    <3>2. QED
      BY <3>1, AppendToFew
  <2>3. Paid(r, TRUE, FALSE)'
    BY <1>5, <2>2 DEF Paid
  <2>4. ~MainLost(r)' /\ ~CallsLost(r)'
    BY <1>2, <1>5, <2>1 DEF MainLost, CallsLost
  <2>5. ServingOK(t, r)'
    BY <1>2, <1>4, <2>2, <2>3, <2>4 DEF ServingOK, Kinds
  <2>6. QED
    BY <1>1, <1>2, <1>4, <2>1, <2>5, BillingUInv
<1>7. CASE Swallowed(t, MainBill(t)) /\ Goto(t, "calls")
  <2>1. /\ lost' = lost \cup {<<r, Main(r, did[r]).type>>} /\ usage' = usage
        /\ pc' = [pc EXCEPT ![t] = "calls"]
    BY <1>1, <1>3, <1>7 DEF Swallowed
  <2>2. usage'[r] = <<>> /\ pc'[t] = "calls"
    BY <1>2, <2>1 DEF UInv, TypeOK
  <2>3. MainLost(r)' /\ ~CallsLost(r)'
    BY <1>2, <1>3, <1>5, <2>1 DEF MainLost, CallsLost
  <2>4. Paid(r, ~MainLost(r), FALSE)'
    BY <2>2, <2>3 DEF Paid
  <2>5. ServingOK(t, r)'
    BY <1>2, <1>4, <2>2, <2>3, <2>4 DEF ServingOK, Kinds
  <2>6. QED
    BY <1>1, <1>2, <1>4, <2>1, <2>5, BillingUInv
<1>8. QED
  BY <1>6, <1>7

LEMMA RecordCallsUInv ==
    ASSUME UInv, NEW t \in Threads, RecordCalls(t)
    PROVE  UInv'
<1> USE DEF RecordCalls, At, Goto
<1>1. PICK r \in Requests : r = request[t] /\ ServingOK(t, r)
  BY AtServing
<1>2. /\ kind[r] \in Billed /\ counters[r] = NoCounters /\ snapshot[t] = did[r]
      /\ Paid(r, ~MainLost(r), FALSE) /\ ~CallsLost(r) /\ Called(r)
  BY <1>1 DEF ServingOK, Called
<1>3. /\ CallsBill(t) = Calls(did[r])
      /\ Calls(did[r]).type = "connector_call"
      /\ MainType(r) \in {"onboarding", "workflow_execution"}
  BY <1>1, <1>2, BillsOfRequest
<1>4. UNCHANGED <<lock, counters, request, kind, snapshot, did, cut, crashes>>
  OBVIOUS
<1>5. /\ Main(r, did[r])' = Main(r, did[r]) /\ MainType(r)' = MainType(r)
      /\ Calls(did[r])' = Calls(did[r]) /\ Called(r)' = Called(r)
  BY DEF Main, MainType, Calls, Called
<1>6. CASE Stored(t, CallsBill(t)) /\ Goto(t, "calls logged")
  <2>1. /\ usage' = [usage EXCEPT ![r] = Append(@, Calls(did[r]))] /\ lost' = lost
        /\ pc' = [pc EXCEPT ![t] = "calls logged"]
    BY <1>1, <1>3, <1>6 DEF Stored
  <2>2. usage'[r] = Append(usage[r], Calls(did[r])) /\ pc'[t] = "calls logged"
    BY <2>1 DEF UInv, TypeOK
  <2>3. /\ MainLost(r)' <=> MainLost(r)
        /\ ~CallsLost(r)'
    BY <1>2, <1>5, <2>1 DEF MainLost, CallsLost
  <2>4. Paid(r, ~MainLost(r), TRUE)'
    <3>1. CASE MainLost(r)
      BY <1>2, <1>5, <2>2, <2>3, <3>1, AppendToFew DEF Paid
    <3>2. CASE ~MainLost(r)
      <4>1. usage'[r] = Append(<<Main(r, did[r])>>, Calls(did[r]))
        BY <1>2, <2>2, <3>2 DEF Paid
      <4>2. Main(r, did[r]) \in Bill /\ Calls(did[r]) \in Bill
        BY <1>1, <1>2, BillsOfRequest
      <4>3. Append(<<Main(r, did[r])>>, Calls(did[r])) = <<Main(r, did[r]), Calls(did[r])>>
        BY <4>2, AppendToFew
      <4>4. QED
        BY <1>5, <4>1, <4>3, <2>3, <3>2 DEF Paid
    <3>3. QED
      BY <3>1, <3>2
  <2>5. ServingOK(t, r)'
    BY <1>2, <1>4, <1>5, <2>2, <2>3, <2>4 DEF ServingOK, Kinds
  <2>6. QED
    BY <1>1, <1>2, <1>4, <2>1, <2>5, BillingUInv
<1>7. CASE Swallowed(t, CallsBill(t)) /\ Goto(t, "billed")
  <2>1. /\ lost' = lost \cup {<<r, Calls(did[r]).type>>} /\ usage' = usage
        /\ pc' = [pc EXCEPT ![t] = "billed"]
    BY <1>1, <1>3, <1>7 DEF Swallowed
  <2>2. pc'[t] = "billed"
    BY <2>1 DEF UInv, TypeOK
  <2>3. /\ MainLost(r)' <=> MainLost(r)
        /\ CallsLost(r)'
    BY <1>2, <1>3, <1>5, <2>1 DEF MainLost, CallsLost
  <2>4. Paid(r, ~MainLost(r), Called(r) /\ ~CallsLost(r))'
    BY <1>2, <1>5, <2>1, <2>3 DEF Paid
  <2>5. ServingOK(t, r)'
    BY <1>2, <1>4, <2>2, <2>3, <2>4 DEF ServingOK, Kinds
  <2>6. QED
    BY <1>1, <1>2, <1>4, <2>1, <2>5, BillingUInv
<1>8. QED
  BY <1>6, <1>7

LEMMA ToTheEndUInv ==
    ASSUME UInv, NEW t \in Threads, NoCalls(t) \/ NestedLog(t)
    PROVE  UInv'
<1> USE DEF NoCalls, NestedLog, At, Goto
<1>1. PICK r \in Requests : r = request[t] /\ ServingOK(t, r)
  BY AtServing DEF AfterLog
<1>2. kind[r] \in Billed /\ counters[r] = NoCounters /\ snapshot[t] = did[r]
  BY <1>1 DEF ServingOK
<1>3. UNCHANGED <<lock, counters, usage, request, kind, snapshot, did, lost, cut, crashes>>
  OBVIOUS
<1>4. /\ MainLost(r)' <=> MainLost(r)
      /\ CallsLost(r)' <=> CallsLost(r)
      /\ Called(r)' <=> Called(r)
      /\ \A m, c \in BOOLEAN : Paid(r, m, c) => Paid(r, m, c)'
  BY <1>3 DEF MainLost, CallsLost, Called, Paid, MainType, Main, Calls
<1>5. \/ /\ pc' = [pc EXCEPT ![t] = "calls"]
         /\ pc[t] = "logged"
      \/ /\ pc' = [pc EXCEPT ![t] = "billed"]
         /\ pc[t] = "calls logged" \/ (pc[t] = "calls" /\ snapshot[t].connectors = 0)
  BY DEF AfterLog
<1>6. CASE pc' = [pc EXCEPT ![t] = "calls"] /\ pc[t] = "logged"
  <2>1. Paid(r, ~MainLost(r), FALSE) /\ ~CallsLost(r)
    BY <1>1, <1>6 DEF ServingOK, Paid
  <2>2. pc'[t] = "calls"
    BY <1>6 DEF UInv, TypeOK
  <2>3. Paid(r, ~MainLost(r), FALSE)'
    BY <2>1, <1>3, <1>4 DEF Paid, Main, Calls, MainType
  <2>4. ServingOK(t, r)'
    BY <1>2, <1>3, <1>4, <2>1, <2>2, <2>3 DEF ServingOK, Kinds
  <2>5. QED
    BY <1>1, <1>2, <1>3, <1>6, <2>4, BillingUInv
<1>7. CASE /\ pc' = [pc EXCEPT ![t] = "billed"]
           /\ pc[t] = "calls logged" \/ (pc[t] = "calls" /\ snapshot[t].connectors = 0)
  <2>1. Paid(r, ~MainLost(r), Called(r) /\ ~CallsLost(r))
    <3>1. CASE pc[t] = "calls logged"
      BY <1>1, <3>1 DEF ServingOK, Paid
    <3>2. CASE pc[t] = "calls" /\ snapshot[t].connectors = 0
      BY <1>1, <1>2, <3>2 DEF ServingOK, Paid, Called
    <3>3. QED
      BY <1>7, <3>1, <3>2
  <2>2. pc'[t] = "billed"
    BY <1>7 DEF UInv, TypeOK
  <2>3. Paid(r, ~MainLost(r), Called(r) /\ ~CallsLost(r))'
    BY <2>1, <1>3, <1>4 DEF Paid, Main, Calls, MainType
  <2>4. ServingOK(t, r)'
    BY <1>2, <1>3, <2>2, <2>3 DEF ServingOK, Kinds
  <2>5. QED
    BY <1>1, <1>2, <1>3, <1>7, <2>4, BillingUInv
<1>8. QED
  BY <1>5, <1>6, <1>7

\* A thread is done with its request.
LEMMA EndsUInv ==
    ASSUME UInv, NEW t \in Threads, EndsAs(t), NEW r \in Requests, r = request[t],
           lock' \in {lock, NoThread},
           NEW c \in {counters[r], CountersOf(r)}, counters' = [counters EXCEPT ![r] = c],
           UNCHANGED <<usage, kind, did, lost, cut, crashes>>,
           RestOK(r)'
    PROVE  UInv'
<1> USE DEF EndsAs, Goto
<1>1. counters' \in [Requests -> Counters \cup {NoCounters}]
  BY CountersOfTyped DEF UInv, TypeOK
<1>2. snapshot' \in [Threads -> Counters]
  BY ZeroCounters DEF UInv, TypeOK
<1>3. TypeOK'
  BY <1>1, <1>2 DEF UInv, TypeOK
<1>4. request'[t] = NoRequest /\ pc'[t] = "idle"
  BY DEF UInv, TypeOK
<1>5. Concerns(t, r)
  BY DEF Concerns, UInv, TypeOK
<1>6. QED
  BY <1>3, <1>4, <1>5, ConcernsUInv

LEMMA ScheduleRecordedUInv ==
    ASSUME UInv, NEW t \in Threads, ScheduleRecorded(t)
    PROVE  UInv'
<1> USE DEF ScheduleRecorded, At
<1>1. PICK r \in Requests : r = request[t] /\ ServingOK(t, r)
  BY AtServing
<1>2. usage[r] = <<>> /\ kind[r] = "deferred"
  BY <1>1 DEF ServingOK, Paid
<1>3. RestOK(r)'
  BY <1>2 DEF RestOK, Billed
<1>4. lock' = lock /\ counters' = [counters EXCEPT ![r] = CountersOf(r)]
  BY <1>1
<1>5. QED
  BY <1>1, <1>3, <1>4, EndsUInv

LEMMA EndsUnmeteredUInv ==
    ASSUME UInv, NEW t \in Threads, EndsUnmetered(t)
    PROVE  UInv'
<1> USE DEF EndsUnmetered, At
<1>1. PICK r \in Requests : r = request[t] /\ ServingOK(t, r)
  BY AtServing
<1>2. usage[r] = <<>> /\ kind[r] = "unmetered"
  BY <1>1 DEF ServingOK, Paid
<1>3. RestOK(r)'
  BY <1>2 DEF RestOK, Billed
<1>4. counters' = [counters EXCEPT ![r] = counters[r]]
  BY DEF UInv, TypeOK
<1>5. QED
  BY <1>1, <1>3, <1>4, EndsUInv

LEMMA BillDoneUInv ==
    ASSUME UInv, NEW t \in Threads, BillDone(t)
    PROVE  UInv'
<1> USE DEF BillDone, At
<1>1. PICK r \in Requests : r = request[t] /\ ServingOK(t, r)
  BY AtServing
<1>2. /\ kind[r] \in Billed /\ counters[r] = NoCounters
      /\ Paid(r, ~MainLost(r), Called(r) /\ ~CallsLost(r))
  BY <1>1 DEF ServingOK
<1>3. Paid(r, ~MainLost(r), Called(r) /\ ~CallsLost(r))'
  BY <1>2 DEF Paid, MainLost, CallsLost, Called, Main, Calls, MainType
<1>4. \E m, c \in BOOLEAN : Paid(r, m, c)' /\ (c => Called(r)')
  <2>1. MainLost(r) \in BOOLEAN /\ CallsLost(r) \in BOOLEAN /\ Called(r) \in BOOLEAN
    BY DEF MainLost, CallsLost, Called
  <2>2. \E m, c \in BOOLEAN : Paid(r, m, c) /\ (c => Called(r))
    BY <1>2, <2>1
  <2>3. /\ Called(r)' <=> Called(r)
        /\ \A m, c \in BOOLEAN : Paid(r, m, c) => Paid(r, m, c)'
    BY DEF Called, Paid, MainType, Main, Calls
  <2>4. QED
    BY <2>2, <2>3
<1>5. RestOK(r)'
  BY <1>2, <1>3, <1>4 DEF RestOK, Billed
<1>6. lock' \in {lock, NoThread} /\ counters' = [counters EXCEPT ![r] = counters[r]]
  BY DEF UInv, TypeOK
<1>7. QED
  BY <1>1, <1>5, <1>6, EndsUInv

LEMMA CrashUInv ==
    ASSUME UInv, Crash
    PROVE  UInv'
<1> USE DEF Crash, At
<1>1. crashes' \in 0..MaxCrashes
  <2>1. crashes \in 0..MaxCrashes /\ crashes < MaxCrashes /\ crashes' = crashes + 1
    BY DEF UInv, TypeOK
  <2>2. MaxCrashes \in Nat
    BY BoundsAssumption
  <2>3. QED
    BY <2>1, <2>2
<1>2. cut' \subseteq Requests
  <2>1. \A t \in Threads : pc[t] # "idle" => request[t] \in Requests
    BY DEF UInv, TypeOK
  <2>2. cut \subseteq Requests
    BY DEF UInv, TypeOK
  <2>3. QED
    BY <2>1, <2>2
<1>3. TypeOK'
  BY <1>1, <1>2, ZeroCounters DEF UInv, TypeOK
<1>4. ASSUME NEW r \in Requests
      PROVE  RestOK(r)'
  <2>1. /\ counters'[r] = NoCounters
        /\ MainLost(r)' <=> MainLost(r)
        /\ CallsLost(r)' <=> CallsLost(r)
        /\ Called(r)' <=> Called(r)
        /\ \A m, c \in BOOLEAN : Paid(r, m, c) => Paid(r, m, c)'
    BY DEF MainLost, CallsLost, Called, Paid, MainType, Main, Calls
  <2>2. CASE Served(r)
    <3>1. PICK t \in Threads : request[t] = r
      BY <2>2 DEF Served
    <3>2. ServingOK(t, r) /\ pc[t] # "idle"
      BY <3>1, MarksAssumption DEF UInv
    <3>3. r \in cut'
      BY <3>1, <3>2
    <3>4. kind[r] \in Billed => \E m, c \in BOOLEAN : Paid(r, m, c) /\ (c => Called(r))
      <4>1. pc[t] \in {"running", "record", "logged", "calls", "calls logged", "billed"}
        BY <3>2 DEF UInv, TypeOK
      <4>2. MainLost(r) \in BOOLEAN /\ CallsLost(r) \in BOOLEAN /\ Called(r) \in BOOLEAN
        BY DEF MainLost, CallsLost, Called
      <4>3. CASE pc[t] \in {"running", "record"}
        BY <3>2, <4>3 DEF ServingOK
      <4>4. CASE pc[t] = "logged"
        BY <3>2, <4>4 DEF ServingOK
      <4>5. CASE pc[t] = "calls"
        BY <3>2, <4>2, <4>5 DEF ServingOK
      <4>6. CASE pc[t] = "calls logged"
        BY <3>2, <4>2, <4>6 DEF ServingOK
      <4>7. CASE pc[t] = "billed"
        BY <3>2, <4>2, <4>7 DEF ServingOK
      <4>8. QED
        BY <4>1, <4>3, <4>4, <4>5, <4>6, <4>7
    <3>5. kind[r] \notin Billed => usage[r] = <<>>
      BY <3>2 DEF ServingOK, Paid
    <3>6. kind[r] # "none"
      BY <3>2 DEF ServingOK, Kinds, Billed
    <3>7. QED
      BY <2>1, <3>3, <3>4, <3>5, <3>6 DEF RestOK
  <2>3. CASE ~Served(r)
    <3>1. RestOK(r)
      BY <2>3 DEF UInv
    <3>2. cut \subseteq cut'
      OBVIOUS
    <3>3. QED
      BY <2>1, <3>1, <3>2 DEF RestOK
  <2>4. QED
    BY <2>2, <2>3
<1>5. \A t \in Threads : pc'[t] = "idle" /\ request'[t] = NoRequest
  OBVIOUS
<1>6. QED
  BY <1>3, <1>4, <1>5 DEF UInv

\* A step or a call is counted.
LEMMA CountedUInv ==
    ASSUME UInv, NEW t \in Threads, StepCompleted(t) \/ ExternalRequest(t)
    PROVE  UInv'
<1> USE DEF StepCompleted, ExternalRequest, At
<1>1. PICK r \in Requests : r = request[t] /\ ServingOK(t, r)
  BY AtServing
<1>2. CountersOf(r) = did[r] /\ did[r] \in Counters
  BY <1>1 DEF ServingOK, UInv, TypeOK
<1>3. did[r].steps \in Nat /\ did[r].connectors \in Nat /\ MaxSteps \in Nat /\ MaxCalls \in Nat
      /\ did[r].steps <= MaxSteps /\ did[r].connectors <= MaxCalls
  BY <1>2, BoundsAssumption DEF Counters
<1>4. CASE StepCompleted(t)
  <2> DEFINE c == [did[r] EXCEPT !.steps = @ + 1]
  <2>1. did[r].steps < MaxSteps
    BY <1>1, <1>4
  <2>2. did[r].steps + 1 \in 0..MaxSteps
    BY <1>3, <2>1
  <2>3. c \in Counters
    BY <1>2, <2>2 DEF Counters
  <2>4. counters' = [counters EXCEPT ![request[t]] = c]
    BY <1>1, <1>2, <1>4
  <2>5. did' = [did EXCEPT ![request[t]] = c]
    BY <1>1, <1>4
  <2> HIDE DEF c
  <2>6. QED
    BY <1>4, <2>3, <2>4, <2>5, CountUInv
<1>5. CASE ExternalRequest(t)
  <2> DEFINE c == [did[r] EXCEPT !.connectors = @ + 1]
  <2>1. did[r].connectors < MaxCalls
    BY <1>1, <1>5
  <2>2. did[r].connectors + 1 \in 0..MaxCalls
    BY <1>3, <2>1
  <2>3. c \in Counters
    BY <1>2, <2>2 DEF Counters
  <2>4. counters' = [counters EXCEPT ![request[t]] = c]
    BY <1>1, <1>2, <1>5
  <2>5. did' = [did EXCEPT ![request[t]] = c]
    BY <1>1, <1>5
  <2> HIDE DEF c
  <2>6. QED
    BY <1>5, <2>3, <2>4, <2>5, CountUInv
<1>6. QED
  BY <1>4, <1>5

LEMMA NextUInv == UInv /\ [Next]_vars => UInv'
<1> SUFFICES ASSUME UInv, [Next]_vars PROVE UInv'
  OBVIOUS
<1>1. ASSUME NEW t \in Threads, NEW r \in Requests, NEW k \in Kinds, Begin(t, r, k)
      PROVE  UInv'
  BY <1>1, BeginUInv
<1>2. ASSUME NEW t \in Threads, StepCompleted(t) \/ ExternalRequest(t)
      PROVE  UInv'
  BY <1>2, CountedUInv
<1>3. ASSUME NEW t \in Threads, Ends(t)
      PROVE  UInv'
  <2>1. CASE ExecutionEnds(t)
    BY <2>1, StartBillUInv DEF ExecutionEnds, Billed, At
  <2>2. CASE OnboardingCompletes(t)
    BY <2>2, StartBillUInv DEF OnboardingCompletes, Billed, At
  <2>3. CASE ScheduleRecorded(t)
    BY <2>3, ScheduleRecordedUInv
  <2>4. CASE EndsUnmetered(t)
    BY <2>4, EndsUnmeteredUInv
  <2>5. QED
    BY <1>3, <2>1, <2>2, <2>3, <2>4 DEF Ends
<1>4. ASSUME NEW t \in Threads, Billing(t)
      PROVE  UInv'
  BY <1>4, RecordUInv, RecordCallsUInv, ToTheEndUInv, BillDoneUInv DEF Billing
<1>5. CASE Crash
  BY <1>5, CrashUInv
<1>6. CASE UNCHANGED vars
  <2> USE <1>6 DEF vars
  <2>1. TypeOK'
    BY DEF UInv, TypeOK
  <2>2. \A r \in Requests : RestOK(r) => RestOK(r)'
    BY DEF RestOK, MainLost, CallsLost, Called, Paid, MainType, Main, Calls
  <2>3. \A t \in Threads, r \in Requests : ServingOK(t, r) => ServingOK(t, r)'
    <3> SUFFICES ASSUME NEW t \in Threads, NEW r \in Requests, ServingOK(t, r)
                 PROVE  ServingOK(t, r)'
      OBVIOUS
    <3>1. /\ MainLost(r)' <=> MainLost(r)
          /\ CallsLost(r)' <=> CallsLost(r)
          /\ Called(r)' <=> Called(r)
          /\ CountersOf(r)' = CountersOf(r)
          /\ \A m, c \in BOOLEAN : Paid(r, m, c) => Paid(r, m, c)'
      BY DEF MainLost, CallsLost, Called, Paid, MainType, Main, Calls, CountersOf
    <3>2. pc' = pc /\ kind' = kind /\ counters' = counters /\ snapshot' = snapshot /\ did' = did
      OBVIOUS
    <3>3. QED
      BY <3>1, <3>2 DEF ServingOK
  <2>4. QED
    BY <2>1, <2>2, <2>3 DEF UInv, TypeOK, Served
<1>7. QED
  BY <1>1, <1>2, <1>3, <1>4, <1>5, <1>6 DEF Next

\* In every state of every behaviour the invariant holds.
THEOREM Invariance == Spec => []UInv
BY InitUInv, NextUInv, PTL DEF Spec

\* The variables keep their types: no counter goes beyond what the request did,
\* and only bills are recorded (metering_observer.py:28-36, 91-104).
THEOREM TypeCorrect == Spec => []TypeOK
<1>1. UInv => TypeOK
  BY DEF UInv
<1>2. QED
  BY <1>1, Invariance, PTL

-----------------------------------------------------------------------------
\* What was billed of any request, served, over or cut, is due.
LEMMA PaidIsDue ==
    ASSUME UInv, NEW r \in Requests
    PROVE  \/ usage[r] = <<>>
           \/ /\ kind[r] \in Billed
              /\ \E m, c \in BOOLEAN : Paid(r, m, c) /\ (c => Called(r))
<1>1. MainLost(r) \in BOOLEAN /\ CallsLost(r) \in BOOLEAN /\ Called(r) \in BOOLEAN
  BY DEF MainLost, CallsLost, Called
<1>2. CASE Served(r)
  <2>1. PICK t \in Threads : request[t] = r
    BY <1>2 DEF Served
  <2>2. ServingOK(t, r) /\ pc[t] \in {"running", "record", "logged", "calls",
                                      "calls logged", "billed"}
    BY <2>1, MarksAssumption DEF UInv, TypeOK
  <2>3. CASE pc[t] \in {"running", "record"}
    BY <2>2, <2>3 DEF ServingOK, Paid
  <2>4. CASE pc[t] = "logged"
    BY <2>2, <2>4 DEF ServingOK
  <2>5. CASE pc[t] = "calls"
    BY <1>1, <2>2, <2>5 DEF ServingOK
  <2>6. CASE pc[t] = "calls logged"
    BY <1>1, <2>2, <2>6 DEF ServingOK
  <2>7. CASE pc[t] = "billed"
    BY <1>1, <2>2, <2>7 DEF ServingOK
  <2>8. QED
    BY <2>2, <2>3, <2>4, <2>5, <2>6, <2>7
<1>3. CASE ~Served(r)
  BY <1>3 DEF UInv, RestOK
<1>4. QED
  BY <1>2, <1>3

\* The bills that are due, by whether the request made calls.
LEMMA DueIs ==
    ASSUME UInv, NEW r \in Requests, kind[r] \in Billed
    PROVE  /\ Called(r)  => Due(r) = <<Main(r, did[r]), Calls(did[r])>>
           /\ ~Called(r) => Due(r) = <<Main(r, did[r])>>
           /\ Main(r, did[r]).type = MainType(r)
           /\ Calls(did[r]).type = "connector_call"
           /\ MainType(r) # "connector_call"
<1>1. did[r] \in Counters
  BY DEF UInv, TypeOK
<1>2. did[r].connectors \in Nat
  BY <1>1, BoundsAssumption DEF Counters
<1>3. Called(r) <=> did[r].connectors # 0
  BY <1>2 DEF Called
<1>4. did[r].connectors # 0 => Due(r) = <<Main(r, did[r]), Calls(did[r])>>
  BY DEF Due, Main, Calls
<1>5. did[r].connectors = 0 => Due(r) = <<Main(r, did[r])>>
  BY DEF Due, Main, Calls
<1>6. /\ Main(r, did[r]).type = MainType(r)
      /\ Calls(did[r]).type = "connector_call"
      /\ MainType(r) # "connector_call"
  BY DEF Main, Calls, MainType
<1>7. QED
  BY <1>3, <1>4, <1>5, <1>6

\* The bills U are some of the two bills m and c that are due, D.
SomeOf(m, c, D, U) ==
    \/ U = <<>>
    \/ U = <<m>> /\ D \in {<<m>>, <<m, c>>}
    \/ U = <<c>> /\ D = <<m, c>>
    \/ U = <<m, c>> /\ D = <<m, c>>

Has(U, b) == \E j \in 1..Len(U) : U[j] = b

NoneTwice(D, U) ==
    \A i \in 1..Len(U) :
        /\ \E j \in 1..Len(D) : U[i] = D[j]
        /\ \A j \in 1..Len(U) : U[i].type = U[j].type => i = j

\* Some of two bills of two types are all due and no two of a type.
LEMMA SomeOfTwo ==
    ASSUME NEW m, NEW c, m.type # c.type, NEW D, NEW U, SomeOf(m, c, D, U)
    PROVE  NoneTwice(D, U)
<1> USE DEF SomeOf, NoneTwice
<1>1. CASE U = <<>>
  BY <1>1
<1>2. CASE U = <<m>> /\ D \in {<<m>>, <<m, c>>}
  <2>1. Len(U) = 1 /\ U[1] = m /\ Len(D) \in {1, 2} /\ D[1] = m
    BY <1>2
  <2>2. QED
    BY <2>1
<1>3. CASE U = <<c>> /\ D = <<m, c>>
  <2>1. Len(U) = 1 /\ U[1] = c /\ Len(D) = 2 /\ D[2] = c
    BY <1>3
  <2>2. QED
    BY <2>1
<1>4. CASE U = <<m, c>> /\ D = <<m, c>>
  <2>1. Len(U) = 2 /\ U[1] = m /\ U[2] = c /\ Len(D) = 2 /\ D[1] = m /\ D[2] = c
    BY <1>4
  <2>2. \A i \in 1..Len(U) : i = 1 \/ i = 2
    BY <2>1
  <2>3. QED
    BY <2>1, <2>2
<1>5. QED
  BY <1>1, <1>2, <1>3, <1>4

\* Which of the two there are.
LEMMA WhichOfTwo ==
    ASSUME NEW m, NEW c, m # c, NEW U
    PROVE  /\ U = <<>>     => ~Has(U, m) /\ ~Has(U, c)
           /\ U = <<m>>    =>  Has(U, m) /\ ~Has(U, c)
           /\ U = <<c>>    => ~Has(U, m) /\  Has(U, c)
           /\ U = <<m, c>> =>  Has(U, m) /\  Has(U, c)
<1> USE DEF Has
<1>1. CASE U = <<>>
  BY <1>1
<1>2. CASE U = <<m>>
  <2>1. Len(U) = 1 /\ U[1] = m
    BY <1>2
  <2>2. QED
    BY <1>2, <2>1
<1>3. CASE U = <<c>>
  <2>1. Len(U) = 1 /\ U[1] = c
    BY <1>3
  <2>2. QED
    BY <1>3, <2>1
<1>4. CASE U = <<m, c>>
  <2>1. Len(U) = 2 /\ U[1] = m /\ U[2] = c
    BY <1>4
  <2>2. QED
    BY <1>4, <2>1
<1>5. QED
  BY <1>1, <1>2, <1>3, <1>4

\* Whatever happens, a request is billed at most once for each thing it did
\* (metering_observer.py:37-89).
THEOREM NeverOverbilledAlways == Spec => []NeverOverbilled
<1>1. UInv => NeverOverbilled
  <2> SUFFICES ASSUME UInv, NEW r \in Requests
               PROVE  \A i \in 1..Len(usage[r]) :
                         /\ \E j \in 1..Len(Due(r)) : usage[r][i] = Due(r)[j]
                         /\ \A j \in 1..Len(usage[r]) :
                               usage[r][i].type = usage[r][j].type => i = j
    BY DEF NeverOverbilled
  <2>1. CASE usage[r] = <<>>
    BY <2>1
  <2>2. CASE kind[r] \in Billed /\ \E b, c \in BOOLEAN : Paid(r, b, c) /\ (c => Called(r))
    <3> DEFINE m == Main(r, did[r])
               k == Calls(did[r])
    <3>1. /\ Called(r) => Due(r) = <<m, k>>
          /\ ~Called(r) => Due(r) = <<m>>
          /\ m.type # k.type
      BY <2>2, DueIs
    <3>2. \/ usage[r] = <<>>
          \/ usage[r] = <<m>>
          \/ usage[r] = <<k>> /\ Called(r)
          \/ usage[r] = <<m, k>> /\ Called(r)
      BY <2>2 DEF Paid
    <3> HIDE DEF m, k
    <3>3. SomeOf(m, k, Due(r), usage[r])
      BY <3>1, <3>2 DEF SomeOf
    <3>4. m.type # k.type
      BY <3>1
    <3>5. QED
      BY <3>3, <3>4, SomeOfTwo DEF NoneTwice
  <2>3. QED
    BY <2>1, <2>2, PaidIsDue
<1>2. QED
  BY <1>1, Invariance, PTL

\* A request that is over was billed all it did, less the records that raised,
\* and left no counters behind if it is one the meter bills; no request is ever
\* billed twice or too much (metering_observer.py:28-104).
THEOREM BilledHonestlyAlways == Spec => []BilledHonestly
<1>1. UInv => OnlyUnbilledLeak
  BY MarksAssumption DEF UInv, RestOK, OnlyUnbilledLeak, Over
<1>2. UInv => BilledExactly
  <2> SUFFICES ASSUME UInv, NEW r \in Requests, Over(r), r \notin cut,
                      NEW i \in 1..Len(Due(r))
               PROVE  (\E j \in 1..Len(usage[r]) : usage[r][j] = Due(r)[i])
                         <=> <<r, Due(r)[i].type>> \notin lost
    BY DEF BilledExactly
  <2>1. CASE kind[r] \notin Billed
    <3>1. Due(r) = <<>>
      BY <2>1 DEF Due
    <3>2. QED
      BY <3>1
  <2>2. CASE kind[r] \in Billed
    <3> DEFINE m == Main(r, did[r])
               k == Calls(did[r])
    <3>1. /\ Called(r) => Due(r) = <<m, k>>
          /\ ~Called(r) => Due(r) = <<m>>
          /\ m.type # k.type
          /\ <<r, m.type>> \in lost <=> MainLost(r)
          /\ <<r, k.type>> \in lost <=> CallsLost(r)
      BY <2>2, DueIs DEF MainLost, CallsLost
    <3>2. RestOK(r)
      BY DEF UInv, Over
    <3>3. Paid(r, ~MainLost(r), Called(r) /\ ~CallsLost(r))
      BY <2>2, <3>2 DEF RestOK
    <3>4. /\ MainLost(r) /\ ~(Called(r) /\ ~CallsLost(r)) => usage[r] = <<>>
          /\ ~MainLost(r) /\ ~(Called(r) /\ ~CallsLost(r)) => usage[r] = <<m>>
          /\ MainLost(r) /\ Called(r) /\ ~CallsLost(r) => usage[r] = <<k>>
          /\ ~MainLost(r) /\ Called(r) /\ ~CallsLost(r) => usage[r] = <<m, k>>
      BY <3>3 DEF Paid
    <3>5. m # k
      BY <3>1
    <3> HIDE DEF m, k
    <3>6. CASE i = 1
      <4>1. Due(r)[i] = m
        BY <3>1, <3>6
      <4>2. Has(usage[r], m) <=> ~MainLost(r)
        BY <3>4, <3>5, WhichOfTwo
      <4>3. QED
        BY <3>1, <4>1, <4>2 DEF Has
    <3>7. CASE i # 1
      <4>1. i = 2 /\ Called(r)
        <5>1. CASE Called(r)
          <6>1. Len(Due(r)) = 2
            BY <3>1, <5>1
          <6>2. QED
            BY <3>7, <5>1, <6>1
        <5>2. CASE ~Called(r)
          <6>1. Len(Due(r)) = 1
            BY <3>1, <5>2
          <6>2. QED
            BY <3>7, <6>1
        <5>3. QED
          BY <5>1, <5>2
      <4>2. Due(r)[i] = k
        BY <3>1, <4>1
      <4>3. Has(usage[r], k) <=> ~CallsLost(r)
        BY <3>4, <3>5, <4>1, WhichOfTwo
      <4>4. QED
        BY <3>1, <4>2, <4>3 DEF Has
    <3>8. QED
      BY <3>6, <3>7
  <2>3. QED
    BY <2>1, <2>2
<1>3. QED
  BY <1>1, <1>2, Invariance, NeverOverbilledAlways, PTL DEF BilledHonestly

-----------------------------------------------------------------------------
\* How many steps thread t has left at most before the meter's listener returns.
Left(t) ==
    CASE pc[t] = "idle"         -> 0
      [] pc[t] = "running"      -> 0
      [] pc[t] = "billed"       -> 1
      [] pc[t] = "calls logged" -> 2
      [] pc[t] = "calls"        -> 3
      [] pc[t] = "logged"       -> 4
      [] pc[t] = "record"       -> 5

Labels == {"idle", "running", "record", "logged", "calls", "calls logged", "billed"}

\* Whoever holds the lock of the meter is billing, and has the lock alone.
HolderBills == UInv /\ \A t \in Threads : lock = t => pc[t] \notin {"idle", "running"}

RunsDown ==
    \A t \in Threads : /\ Left(t) \in 0..5
                       /\ lock = t => Left(t) \in 1..5
                       /\ Left(t) > 0 => Left(t)' <= Left(t)
                       /\ Billing(t) => Left(t)' < Left(t)

LEMMA NextHolderBills == HolderBills /\ [Next]_vars => HolderBills'
<1> SUFFICES ASSUME HolderBills, [Next]_vars, NEW t \in Threads, lock' = t
             PROVE  pc'[t] \notin {"idle", "running"}
  BY NextUInv DEF HolderBills
<1>0. pc \in [Threads -> Labels] /\ (lock = t => pc[t] \notin {"idle", "running"})
  BY DEF HolderBills, UInv, TypeOK, Labels
<1>1. t # NoThread
  BY MarksAssumption
<1>2. ASSUME NEW u \in Threads, ExecutionEnds(u) \/ OnboardingCompletes(u) PROVE lock' = t => pc'[t] = "record"
  BY <1>0, <1>1, <1>2 DEF ExecutionEnds, OnboardingCompletes, StartBill, Goto, Free
<1>3. ASSUME NEW u \in Threads, Record(u) \/ RecordCalls(u) \/ NoCalls(u) \/ NestedLog(u)
      PROVE  pc'[t] \notin {"idle", "running"}
  <2>1. lock' = lock
    BY <1>3 DEF Record, RecordCalls, NoCalls, NestedLog
  <2>2. pc'[t] = pc[t] \/ pc'[t] \in {"logged", "calls", "calls logged", "billed"}
    BY <1>0, <1>3 DEF Record, RecordCalls, NoCalls, NestedLog, AfterLog, Goto
  <2>3. QED
    BY <1>0, <2>1, <2>2
<1>4. ASSUME NEW u \in Threads, BillDone(u) PROVE pc'[t] \notin {"idle", "running"}
  BY <1>0, <1>1, <1>4 DEF BillDone, EndsAs, Goto
<1>5. ASSUME NEW u \in Threads, ScheduleRecorded(u) \/ EndsUnmetered(u)
      PROVE  pc'[t] \notin {"idle", "running"}
  BY <1>0, <1>5 DEF ScheduleRecorded, EndsUnmetered, EndsAs, Goto, At
<1>6. ASSUME NEW u \in Threads, StepCompleted(u) \/ ExternalRequest(u)
      PROVE  pc'[t] \notin {"idle", "running"}
  BY <1>0, <1>6 DEF StepCompleted, ExternalRequest
<1>7. ASSUME NEW u \in Threads, NEW r \in Requests, NEW k \in Kinds, Begin(u, r, k)
      PROVE  pc'[t] \notin {"idle", "running"}
  BY <1>0, <1>7 DEF Begin, Goto, At
<1>8. ASSUME Crash PROVE FALSE
  BY <1>1, <1>8 DEF Crash
<1>9. ASSUME UNCHANGED vars PROVE pc'[t] \notin {"idle", "running"}
  BY <1>0, <1>9 DEF vars
<1>10. QED
  BY <1>2, <1>3, <1>4, <1>5, <1>6, <1>7, <1>8, <1>9 DEF Next, Ends, Billing

\* Every step of a bill brings the end of the listener nearer, and no step of
\* another thread and no crash puts it off; the thread that holds the lock of
\* the meter is such a thread, so it gives the lock back after at most five
\* steps of its own (metering_observer.py:19-104).
THEOREM BillsRunDown == Spec => [][RunsDown]_vars
<1>1. ASSUME HolderBills, HolderBills', Next, NEW t \in Threads
      PROVE  /\ Left(t) \in 0..5
             /\ lock = t => Left(t) \in 1..5
             /\ Left(t) > 0 => Left(t)' <= Left(t)
             /\ Billing(t) => Left(t)' < Left(t)
  <2>1. /\ pc \in [Threads -> Labels] /\ pc[t] \in Labels /\ pc'[t] \in Labels
        /\ lock = t => pc[t] \notin {"idle", "running"}
    BY <1>1 DEF HolderBills, UInv, TypeOK, Labels
  <2>2. Left(t) \in 0..5 /\ (lock = t => Left(t) \in 1..5)
    <3>1. Left(t) \in {0, 1, 2, 3, 4, 5} /\ (lock = t => Left(t) \in {1, 2, 3, 4, 5})
      BY <2>1, Zenon DEF Left, Labels
    <3>2. QED
      BY <3>1
  <2>3. Left(t)' \in 0..5
    <3>1. Left(t)' \in {0, 1, 2, 3, 4, 5}
      BY <2>1, Zenon DEF Left, Labels
    <3>2. QED
      BY <3>1
  <2>4. ASSUME pc'[t] = pc[t] PROVE Left(t)' = Left(t)
    BY <2>4 DEF Left
  <2>5. ASSUME Record(t) \/ NoCalls(t) PROVE Left(t)' < Left(t)
    <3>1. \/ Left(t) = 5 /\ Left(t)' \in {4, 3}
          \/ Left(t) = 3 /\ Left(t)' = 1
      BY <2>1, <2>5, Zenon DEF Record, NoCalls, At, Goto, Left
    <3>2. QED
      BY <3>1
  <2>6. ASSUME RecordCalls(t) PROVE Left(t)' < Left(t)
    <3>1. Left(t) = 3 /\ Left(t)' \in {2, 1}
      BY <2>1, <2>6, Zenon DEF RecordCalls, At, Goto, Left
    <3>2. QED
      BY <3>1
  <2>7. ASSUME NestedLog(t) PROVE Left(t)' < Left(t)
    <3>1. \/ Left(t) = 4 /\ Left(t)' = 3
          \/ Left(t) = 2 /\ Left(t)' = 1
      BY <2>1, <2>7, Zenon DEF NestedLog, AfterLog, At, Goto, Left
    <3>2. QED
      BY <3>1
  <2>8. ASSUME BillDone(t) PROVE Left(t)' < Left(t)
    <3>1. Left(t) = 1 /\ Left(t)' = 0
      BY <2>1, <2>8, Zenon DEF BillDone, EndsAs, At, Goto, Left
    <3>2. QED
      BY <3>1
  <2>9. ASSUME Billing(t) PROVE Left(t)' < Left(t)
    BY <2>5, <2>6, <2>7, <2>8, <2>9 DEF Billing
  <2>10. ASSUME Left(t) > 0 PROVE pc[t] \notin {"idle", "running"}
    <3>1. pc[t] \in {"idle", "running"} => Left(t) = 0
      BY Zenon DEF Left
    <3>2. Left(t) # 0
      BY <2>2, <2>10
    <3>3. QED
      BY <3>1, <3>2, Zenon
  <2>11. ASSUME NEW u \in Threads, u # t, Billing(u) PROVE pc'[t] = pc[t]
    BY <2>1, <2>11 DEF Billing, Record, RecordCalls, NoCalls, NestedLog, BillDone, EndsAs, Goto
  <2>12. ASSUME NEW u \in Threads, pc[t] \notin {"idle", "running"},
                \/ \E r \in Requests, k \in Kinds : Begin(u, r, k)
                \/ StepCompleted(u) \/ ExternalRequest(u) \/ Ends(u)
         PROVE  pc'[t] = pc[t]
    BY <2>1, <2>12 DEF Begin, StepCompleted, ExternalRequest, Ends, ExecutionEnds,
       OnboardingCompletes, ScheduleRecorded, EndsUnmetered, StartBill, EndsAs, Goto, At
  <2>13. ASSUME Crash PROVE Left(t)' = 0
    BY <2>13 DEF Crash, Left
  <2>14. ASSUME Left(t) > 0 PROVE Left(t)' <= Left(t)
    <3>1. Billing(t) \/ pc'[t] = pc[t] \/ Crash
      BY <1>1, <2>10, <2>11, <2>12, <2>14 DEF Next
    <3>2. QED
      BY <2>2, <2>3, <2>4, <2>9, <2>13, <3>1
  <2>15. QED
    BY <2>2, <2>9, <2>14
<1>2. HolderBills /\ HolderBills' /\ [Next]_vars => [RunsDown]_vars
  BY <1>1 DEF RunsDown
<1>3. Init => HolderBills
  BY InitUInv, MarksAssumption DEF Init, HolderBills
<1>4. QED
  BY <1>2, <1>3, NextHolderBills, PTL DEF Spec
=============================================================================
