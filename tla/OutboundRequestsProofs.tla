------------------------ MODULE OutboundRequestsProofs -------------------------
(***************************************************************************)
(* What the loop of OutboundRequests reports is what happened, for any     *)
(* number of calls.  The invariant says where the requests, the answer and *)
(* the log of a call can be while it stands at a place of the loop.        *)
(***************************************************************************)
EXTENDS OutboundRequests, FiniteSetTheorems, TLAPS

\* How often a call has been sent at most.
Sent(p, a) == IF p \in {"idle", "attempt"} THEN a ELSE a + 1

\* The answer y on the connection of a call at p that was carried out n times.
Answered(p, y, n) ==
    /\ y # "none" => p = "waiting"
    /\ y \in {"ok", "ok invalid"} => n > 0

\* A log of n events of a call at p in attempt a is not too long.
Fits(p, n, a) ==
    /\ n <= a + 1
    /\ p # "done" => n <= a

\* The event s of the log agrees with the result r.
Agrees(s, r) ==
    /\ s = "success" => r = "success"
    /\ s = "failure" => r = "failed"
    /\ s = "timeout" => r = "timed out"

\* The log l of a call at p with result r tells what happened.
Told(p, l, r) ==
    \A i \in 1..Len(l) :
        l[i] # "retrying" => p = "done" /\ i = Len(l) /\ Agrees(l[i], r)

IInv ==
    /\ TypeOK
    /\ \A c \in Calls :
         /\ Answered(pc[c], reply[c], executed[c])
         /\ Told(pc[c], logged[c], result[c])
         /\ Fits(pc[c], Len(logged[c]), attempt[c])
         /\ pc[c] = "idle" => attempt[c] = 0
         /\ pc[c] # "done" => result[c] = "none"
    /\ ExecutionsBounded
    /\ SuccessIsReal

-----------------------------------------------------------------------------
\* There are at most MaxRetries + 1 requests of a call under way.
LEMMA UnderWayFinite ==
    \A c \in Calls : IsFiniteSet(UnderWay(c)) /\ Cardinality(UnderWay(c)) \in Nat
<1> SUFFICES ASSUME NEW c \in Calls
             PROVE  IsFiniteSet(UnderWay(c)) /\ Cardinality(UnderWay(c)) \in Nat
  OBVIOUS
<1>1. IsFiniteSet(0..MaxRetries)
  BY RetriesAssumption, FS_Interval
<1>2. UnderWay(c) \subseteq 0..MaxRetries
  BY DEF UnderWay
<1>3. QED
  BY <1>1, <1>2, FS_Subset, FS_CardinalityType

LEMMA InitIInv == Init => IInv
<1> SUFFICES ASSUME Init PROVE IInv
  OBVIOUS
<1>1. TypeOK
  BY RetriesAssumption DEF Init, TypeOK
<1>2. \A c \in Calls : UnderWay(c) = {}
  BY DEF Init, UnderWay
<1>3. ExecutionsBounded /\ SuccessIsReal
  BY <1>2, FS_EmptySet DEF Init, ExecutionsBounded, SuccessIsReal
<1>4. \A c \in Calls : Answered(pc[c], reply[c], executed[c])
                       /\ Told(pc[c], logged[c], result[c]) /\ Fits(pc[c], Len(logged[c]), attempt[c])
  BY DEF Init, Answered, Told, Fits
<1>5. QED
  BY <1>1, <1>3, <1>4 DEF Init, IInv

\* A step of the caller: it leaves the network and the server alone and moves
\* its call to p, attempt a, answer y, log l and result r.
CallerStep(c, p, a, y, l, r) ==
    /\ pc' = [pc EXCEPT ![c] = p]
    /\ attempt' = [attempt EXCEPT ![c] = a]
    /\ reply' = [reply EXCEPT ![c] = y]
    /\ logged' = [logged EXCEPT ![c] = l]
    /\ result' = [result EXCEPT ![c] = r]
    /\ UNCHANGED <<network, executed>>
    /\ p \in {"attempt", "waiting", "done"}
    /\ a \in 0..MaxRetries
    /\ y = "none"
    /\ l \in Seq(Statuses)
    /\ r \in Results \cup {"none"}
    /\ Told(p, l, r) /\ Fits(p, Len(l), a)
    /\ p # "done" => r = "none"
    /\ r = "success" => executed[c] > 0
    /\ Sent(pc[c], attempt[c]) <= Sent(p, a)

LEMMA CallerStepIInv ==
    ASSUME IInv, NEW c \in Calls, NEW p, NEW a, NEW y, NEW l, NEW r,
           CallerStep(c, p, a, y, l, r)
    PROVE  IInv'
<1> USE DEF CallerStep
<1>1. TypeOK'
  BY DEF IInv, TypeOK
<1>2. ASSUME NEW d \in Calls
      PROVE  /\ Answered(pc[d], reply[d], executed[d])'
             /\ (Told(pc[d], logged[d], result[d]) /\ Fits(pc[d], Len(logged[d]), attempt[d]))'
             /\ (pc[d] = "idle" => attempt[d] = 0)'
             /\ (pc[d] # "done" => result[d] = "none")'
             /\ (result[d] = "success" => executed[d] > 0)'
             /\ Sent(pc[d], attempt[d]) <= Sent(pc'[d], attempt'[d])
  <2>1. CASE d = c
    BY <2>1 DEF IInv, TypeOK, Answered
  <2>2. CASE d # c
    BY <2>2, RetriesAssumption DEF IInv, TypeOK, SuccessIsReal, Sent
  <2>3. QED
    BY <2>1, <2>2
<1>3. ASSUME NEW d \in Calls
      PROVE  (executed[d] + Cardinality(UnderWay(d)) <= Sent(pc[d], attempt[d]))'
  <2>1. UnderWay(d)' = UnderWay(d) /\ executed' = executed
    BY DEF UnderWay
  <2>2. executed[d] + Cardinality(UnderWay(d)) <= Sent(pc[d], attempt[d])
    BY DEF IInv, ExecutionsBounded, Sent
  <2>3. /\ executed[d] \in Nat /\ Cardinality(UnderWay(d)) \in Nat
        /\ Sent(pc[d], attempt[d]) \in Int /\ Sent(pc'[d], attempt'[d]) \in Int
    BY <1>1, UnderWayFinite, RetriesAssumption DEF IInv, TypeOK, Sent
  <2> DEFINE k == Cardinality(UnderWay(d))
             m == Sent(pc[d], attempt[d])
             n == Sent(pc'[d], attempt'[d])
  <2>4. m <= n
    BY <1>2
  <2>5. Cardinality(UnderWay(d))' = k /\ Sent(pc[d], attempt[d])' = n
    BY <2>1 DEF Sent
  <2> HIDE DEF k, m, n
  <2>6. executed[d] + k <= n
    BY <2>2, <2>3, <2>4 DEF k, m, n
  <2>7. QED
    BY <2>1, <2>5, <2>6
<1>4. ExecutionsBounded' /\ SuccessIsReal'
  BY <1>2, <1>3 DEF ExecutionsBounded, SuccessIsReal, Sent
<1>5. QED
  BY <1>1, <1>2, <1>4 DEF IInv

-----------------------------------------------------------------------------
\* What Append does to a log.
LEMMA Longer ==
    ASSUME NEW l \in Seq(Statuses), NEW x \in Statuses
    PROVE  /\ Append(l, x) \in Seq(Statuses)
           /\ Len(l) \in Nat
           /\ Len(Append(l, x)) = Len(l) + 1
           /\ \A i \in 1..Len(l) : Append(l, x)[i] = l[i]
           /\ Append(l, x)[Len(l) + 1] = x
           /\ \A i \in 1..(Len(l) + 1) : i \in 1..Len(l) \/ i = Len(l) + 1
OBVIOUS

\* While the call goes on, all of its log says "retrying".
LEMMA AllRetrying ==
    ASSUME NEW p, p # "done", NEW l \in Seq(Statuses), NEW r, Told(p, l, r)
    PROVE  \A i \in 1..Len(l) : l[i] = "retrying"
BY DEF Told

\* Logging "retrying", or nothing, and going on.
LEMMA ToldAgain ==
    ASSUME NEW p, p # "done", NEW a \in Nat, NEW l \in Seq(Statuses), NEW r,
           Told(p, l, r), Fits(p, Len(l), a), NEW b \in {"attempt", "waiting"}
    PROVE  /\ Append(l, "retrying") \in Seq(Statuses)
           /\ Told(b, Append(l, "retrying"), r) /\ Told(b, l, r)
           /\ Fits(b, Len(l) + 1, a + 1) /\ Fits(b, Len(l), a + 1) /\ Fits(b, Len(l), a)
           /\ Len(Append(l, "retrying")) = Len(l) + 1
<1> DEFINE q == Append(l, "retrying")
<1>1. "retrying" \in Statuses
  BY DEF Statuses
<1>2. \A i \in 1..Len(q) : q[i] = "retrying"
  BY <1>1, Longer, AllRetrying
<1>3. Told(b, q, r) /\ Told(b, l, r)
  BY <1>2, AllRetrying DEF Told
<1>4. Len(l) \in Nat /\ Len(l) <= a
  BY DEF Fits
<1>5. Fits(b, Len(l) + 1, a + 1) /\ Fits(b, Len(l), a + 1) /\ Fits(b, Len(l), a)
  BY <1>4 DEF Fits
<1>6. QED
  BY <1>1, <1>3, <1>5, Longer

\* Logging the end, or leaving without.
LEMMA ToldEnd ==
    ASSUME NEW p, p # "done", NEW a \in Nat, NEW l \in Seq(Statuses), NEW r,
           Told(p, l, r), Fits(p, Len(l), a), NEW x \in Statuses, NEW o, Agrees(x, o)
    PROVE  /\ Append(l, x) \in Seq(Statuses)
           /\ Told("done", Append(l, x), o) /\ Told("done", l, o)
           /\ Fits("done", Len(l) + 1, a) /\ Fits("done", Len(l), a)
           /\ Len(Append(l, x)) = Len(l) + 1
<1> DEFINE q == Append(l, x)
<1>1. \A i \in 1..Len(q) : q[i] # "retrying" => i = Len(q) /\ q[i] = x
  BY Longer, AllRetrying
<1>2. Told("done", q, o)
  BY <1>1 DEF Told
<1>3. Told("done", l, o)
  BY AllRetrying DEF Told
<1>4. Len(l) \in Nat /\ Len(l) <= a
  BY DEF Fits
<1>5. Fits("done", Len(l) + 1, a) /\ Fits("done", Len(l), a)
  BY <1>4 DEF Fits
<1>6. QED
  BY <1>2, <1>3, <1>5, Longer

\* Where a call that has not ended stands.
LEMMA Running ==
    ASSUME IInv, NEW c \in Calls, pc[c] # "done"
    PROVE  /\ attempt[c] \in Nat /\ attempt[c] \in 0..MaxRetries
           /\ logged[c] \in Seq(Statuses)
           /\ result[c] = "none"
           /\ Told(pc[c], logged[c], result[c]) /\ Fits(pc[c], Len(logged[c]), attempt[c])
BY RetriesAssumption DEF IInv, TypeOK

\* continue, whether it was logged or not.
LEMMA AgainIInv ==
    ASSUME IInv, NEW c \in Calls, pc[c] \in {"attempt", "waiting"}, Again(c),
           Log(c, "retrying") \/ UNCHANGED logged, UNCHANGED <<network, executed>>
    PROVE  IInv'
<1> USE Running, RetriesAssumption
<1> DEFINE Step(l) == CallerStep(c, "attempt", attempt[c] + 1, "none", l, "none")
<1>1. /\ pc' = [pc EXCEPT ![c] = "attempt"]
      /\ attempt' = [attempt EXCEPT ![c] = attempt[c] + 1]
      /\ reply' = [reply EXCEPT ![c] = "none"]
      /\ result' = [result EXCEPT ![c] = "none"]
      /\ attempt[c] + 1 \in 0..MaxRetries
  BY DEF Again, Goto, IInv, TypeOK
<1>2. Sent(pc[c], attempt[c]) <= Sent("attempt", attempt[c] + 1)
  BY DEF Sent
<1>3. CASE Log(c, "retrying")
  <2>1. Step(Append(logged[c], "retrying"))
    BY <1>1, <1>2, <1>3, ToldAgain DEF CallerStep, Log, Results
  <2>2. QED
    BY <2>1, CallerStepIInv
<1>4. CASE UNCHANGED logged
  <2>1. Step(logged[c])
    BY <1>1, <1>2, <1>4, ToldAgain DEF CallerStep, Results, IInv, TypeOK
  <2>2. QED
    BY <2>1, CallerStepIInv
<1>5. QED
  BY <1>3, <1>4

\* return or raise, after the end was logged or without.
LEMMA EndIInv ==
    ASSUME IInv, NEW c \in Calls, pc[c] \in {"attempt", "waiting"},
           NEW o \in Results, End(c, o), UNCHANGED <<network, executed>>,
           o = "success" => executed[c] > 0,
           NEW s \in Statuses, Log(c, s) \/ UNCHANGED logged,
           Agrees(s, o)
    PROVE  IInv'
<1> USE Running, RetriesAssumption
<1> DEFINE Step(l) == CallerStep(c, "done", attempt[c], "none", l, o)
<1>1. /\ pc' = [pc EXCEPT ![c] = "done"]
      /\ attempt' = [attempt EXCEPT ![c] = attempt[c]]
      /\ reply' = [reply EXCEPT ![c] = "none"]
      /\ result' = [result EXCEPT ![c] = o]
  BY DEF End, Goto, IInv, TypeOK
<1>2. Sent(pc[c], attempt[c]) <= Sent("done", attempt[c])
  <2>1. attempt[c] \in Nat /\ Sent("done", attempt[c]) = attempt[c] + 1
    BY DEF Sent
  <2>2. Sent(pc[c], attempt[c]) \in {attempt[c], attempt[c] + 1}
    BY DEF Sent
  <2>3. QED
    BY <2>1, <2>2
<1>3. CASE Log(c, s)
  <2>1. Step(Append(logged[c], s))
    BY <1>1, <1>2, <1>3, ToldEnd DEF CallerStep, Log
  <2>2. QED
    BY <2>1, CallerStepIInv
<1>4. CASE UNCHANGED logged
  <2>1. Step(logged[c])
    BY <1>1, <1>2, <1>4, ToldEnd DEF CallerStep, IInv, TypeOK
  <2>2. QED
    BY <2>1, CallerStepIInv
<1>5. QED
  BY <1>3, <1>4

-----------------------------------------------------------------------------
\* A request that is served or lost is under way no longer.
LEMMA Removed ==
    ASSUME TypeOK, NEW c \in Calls, NEW a \in 0..MaxRetries,
           <<c, a>> \in network, network' = network \ {<<c, a>>}
    PROVE  /\ \A d \in Calls \ {c} : UnderWay(d)' = UnderWay(d)
           /\ Cardinality(UnderWay(c)') = Cardinality(UnderWay(c)) - 1
<1>1. UnderWay(c)' = UnderWay(c) \ {a} /\ a \in UnderWay(c)
  BY DEF UnderWay
<1>2. Cardinality(UnderWay(c) \ {a}) = Cardinality(UnderWay(c)) - 1
  BY <1>1, UnderWayFinite, FS_RemoveElement
<1>3. \A d \in Calls \ {c} : UnderWay(d)' = UnderWay(d)
  BY DEF UnderWay
<1>4. QED
  BY <1>1, <1>2, <1>3

LEMMA SendIInv ==
    ASSUME IInv, NEW c \in Calls, Send(c)
    PROVE  IInv'
<1> USE RetriesAssumption DEF Send, At, Goto
<1>1. pc[c] = "attempt" /\ pc' = [pc EXCEPT ![c] = "waiting"]
      /\ UNCHANGED <<attempt, reply, logged, result, executed>>
  OBVIOUS
<1>2. TypeOK'
  <2>1. network' \subseteq Calls \X (0..MaxRetries)
    BY DEF IInv, TypeOK
  <2>2. QED
    BY <1>1, <2>1 DEF IInv, TypeOK
<1>3. /\ Told("waiting", logged[c], result[c])
      /\ Fits("waiting", Len(logged[c]), attempt[c])
  BY <1>1, Running, ToldAgain
<1>4. ASSUME NEW d \in Calls
      PROVE  /\ Answered(pc[d], reply[d], executed[d])'
             /\ (Told(pc[d], logged[d], result[d]) /\ Fits(pc[d], Len(logged[d]), attempt[d]))'
             /\ (pc[d] = "idle" => attempt[d] = 0)'
             /\ (pc[d] # "done" => result[d] = "none")'
  BY <1>1, <1>3 DEF IInv, TypeOK, Answered
<1>5. ASSUME NEW d \in Calls
      PROVE  executed[d] + Cardinality(UnderWay(d)') <= Sent(pc'[d], attempt[d])
  <2>1. /\ executed[d] + Cardinality(UnderWay(d)) <= Sent(pc[d], attempt[d])
        /\ executed[d] \in Nat /\ attempt[d] \in Nat
        /\ IsFiniteSet(UnderWay(d)) /\ Cardinality(UnderWay(d)) \in Nat
    BY UnderWayFinite DEF IInv, TypeOK, ExecutionsBounded, Sent
  <2>2. CASE d # c
    <3>1. UnderWay(d)' = UnderWay(d) /\ pc'[d] = pc[d]
      BY <2>2, <1>1 DEF UnderWay, IInv, TypeOK
    <3>2. QED
      BY <3>1, <2>1
  <2>3. CASE d = c
    <3>1. UnderWay(d)' = UnderWay(d) \cup {attempt[d]}
      BY <2>3 DEF UnderWay, IInv, TypeOK
    <3>2. Cardinality(UnderWay(d)') \in Nat
          /\ Cardinality(UnderWay(d)') <= Cardinality(UnderWay(d)) + 1
      <4> DEFINE U == UnderWay(d)
                 k == Cardinality(U)
                 n == Cardinality(U \cup {attempt[d]})
      <4>1. n = IF attempt[d] \in U THEN k ELSE k + 1
        BY <2>1, FS_AddElement
      <4>2. k \in Nat
        BY <2>1
      <4> HIDE DEF k, n
      <4>3. n \in Nat /\ n <= k + 1
        BY <4>1, <4>2
      <4>4. QED
        BY <4>3, <3>1 DEF k, n
    <3>3. Sent(pc[d], attempt[d]) = attempt[d] /\ Sent(pc'[d], attempt[d]) = attempt[d] + 1
      BY <2>3, <1>1 DEF Sent, IInv, TypeOK
    <3>4. QED
      BY <2>1, <3>2, <3>3
  <2>4. QED
    BY <2>2, <2>3
<1>6. ExecutionsBounded'
  BY <1>1, <1>5 DEF ExecutionsBounded, Sent
<1>7. QED
  BY <1>1, <1>2, <1>4, <1>6 DEF IInv, SuccessIsReal

\* The server answers, or the request is lost.
LEMMA NetworkIInv ==
    ASSUME IInv, NEW c \in Calls, NEW a \in 0..MaxRetries,
           Lose(c, a) \/ \E answer \in Answers, does \in BOOLEAN : Serve(c, a, answer, does)
    PROVE  IInv'
<1> USE RetriesAssumption DEF At
<1>1. PICK n \in {0, 1} :
        /\ executed' = [executed EXCEPT ![c] = @ + n]
        /\ <<c, a>> \in network /\ network' = network \ {<<c, a>>}
        /\ UNCHANGED <<pc, attempt, logged, result>>
        /\ \/ reply' = reply
           \/ \E answer \in Answers :
                 /\ pc[c] = "waiting"
                 /\ reply' = [reply EXCEPT ![c] = answer]
                 /\ answer \in {"ok", "ok invalid"} => n = 1
  <2>1. CASE Lose(c, a)
    <3>1. executed' = [executed EXCEPT ![c] = @ + 0]
      BY <2>1 DEF Lose, IInv, TypeOK
    <3>2. QED
      BY <2>1, <3>1 DEF Lose
  <2>2. ASSUME NEW answer \in Answers, NEW does \in BOOLEAN, Serve(c, a, answer, does)
        PROVE  \E n \in {0, 1} :
                 /\ executed' = [executed EXCEPT ![c] = @ + n]
                 /\ reply' = reply \/ ( /\ pc[c] = "waiting"
                                       /\ reply' = [reply EXCEPT ![c] = answer]
                                       /\ answer \in {"ok", "ok invalid"} => n = 1)
    BY <2>2 DEF Serve
  <2>3. QED
    BY <2>1, <2>2 DEF Serve
<1>2. ASSUME NEW d \in Calls
      PROVE  /\ executed[d] \in Nat /\ executed'[d] \in Nat
             /\ executed'[d] >= executed[d]
             /\ d = c => executed'[d] = executed[d] + n
             /\ d # c => executed'[d] = executed[d]
  <2>1. /\ executed[d] \in Nat
        /\ d = c => executed'[d] = executed[d] + n
        /\ d # c => executed'[d] = executed[d]
    BY <1>1 DEF IInv, TypeOK
  <2>2. n \in Nat
    OBVIOUS
  <2>3. QED
    BY <2>1, <2>2
<1>3. TypeOK'
  <2>1. network' \subseteq Calls \X (0..MaxRetries)
    BY <1>1 DEF IInv, TypeOK
  <2>2. reply' \in [Calls -> Answers \cup {"none"}]
    BY <1>1 DEF IInv, TypeOK
  <2>3. executed' \in [Calls -> Nat]
    <3>1. DOMAIN executed' = Calls /\ executed' = [d \in Calls |-> executed'[d]]
      BY <1>1 DEF IInv, TypeOK
    <3>2. QED
      BY <3>1, <1>2
  <2>4. QED
    BY <1>1, <2>1, <2>2, <2>3 DEF IInv, TypeOK
<1>4. ASSUME NEW d \in Calls
      PROVE  Answered(pc[d], reply[d], executed[d])'
  <2>1. Answered(pc[d], reply[d], executed[d])
    BY DEF IInv
  <2>2. executed[d] > 0 => executed'[d] > 0
    BY <1>2
  <2>3. CASE reply'[d] = reply[d]
    BY <2>1, <2>2, <2>3, <1>1 DEF Answered
  <2>4. CASE reply'[d] # reply[d]
    <3>1. /\ d = c /\ pc[c] = "waiting"
          /\ reply'[c] \in {"ok", "ok invalid"} => n = 1
      BY <2>4, <1>1 DEF IInv, TypeOK
    <3>2. n = 1 => executed'[c] > 0
      BY <1>2
    <3>3. QED
      BY <3>1, <3>2, <1>1 DEF Answered
  <2>5. QED
    BY <2>3, <2>4
<1>5. ExecutionsBounded'
  <2> SUFFICES ASSUME NEW d \in Calls
               PROVE  executed'[d] + Cardinality(UnderWay(d)') <= Sent(pc[d], attempt[d])
    BY <1>1 DEF ExecutionsBounded, Sent
  <2>1. /\ executed[d] + Cardinality(UnderWay(d)) <= Sent(pc[d], attempt[d])
        /\ Cardinality(UnderWay(d)) \in Nat /\ Sent(pc[d], attempt[d]) \in Nat
    BY UnderWayFinite DEF IInv, TypeOK, ExecutionsBounded, Sent
  <2> DEFINE k == Cardinality(UnderWay(d))
             k1 == Cardinality(UnderWay(d)')
             m == Sent(pc[d], attempt[d])
  <2>a. d # c => k1 = k
    BY <1>1, Removed DEF IInv
  <2>b. d = c => k1 = k - 1
    BY <1>1, Removed DEF IInv
  <2> HIDE DEF k, k1, m
  <2>2. CASE d # c
    <3>1. executed'[d] = executed[d] /\ k1 = k
      BY <2>2, <2>a, <1>2
    <3>2. executed[d] + k <= m
      BY <2>1 DEF k, m
    <3>3. QED
      BY <3>1, <3>2 DEF k1, m
  <2>3. CASE d = c
    <3>1. executed'[d] = executed[d] + n /\ k1 = k - 1 /\ n \in {0, 1}
      BY <2>3, <2>b, <1>2
    <3>2. executed[d] + k <= m /\ k \in Nat /\ m \in Nat /\ executed[d] \in Nat
      BY <2>1, <1>2 DEF k, m
    <3>3. executed'[d] + k1 <= m
      BY <3>1, <3>2
    <3>4. QED
      BY <3>3 DEF k1, m
  <2>4. QED
    BY <2>2, <2>3 DEF k1, m
<1>6. SuccessIsReal'
  <2> SUFFICES ASSUME NEW d \in Calls, result[d] = "success" PROVE executed'[d] > 0
    BY <1>1 DEF SuccessIsReal
  <2>1. executed[d] > 0
    BY DEF IInv, SuccessIsReal
  <2>2. QED
    BY <2>1, <1>2
<1>7. QED
  BY <1>1, <1>3, <1>4, <1>5, <1>6 DEF IInv

LEMMA NextIInv == IInv /\ [Next]_vars => IInv'
<1> SUFFICES ASSUME IInv, [Next]_vars PROVE IInv'
  OBVIOUS
<1> USE DEF At
<1>1. ASSUME NEW c \in Calls, Call(c)
      PROVE  IInv'
  <2>1. /\ pc[c] = "idle" /\ pc' = [pc EXCEPT ![c] = "attempt"]
        /\ reply[c] = "none" /\ result[c] = "none"
        /\ UNCHANGED <<attempt, network, reply, logged, result, executed>>
    BY <1>1 DEF Call, Goto, IInv, Answered
  <2>2. /\ attempt[c] \in Nat /\ attempt[c] \in 0..MaxRetries
        /\ logged[c] \in Seq(Statuses)
        /\ Told("attempt", logged[c], "none")
        /\ Fits("attempt", Len(logged[c]), attempt[c])
    BY <2>1, Running, ToldAgain
  <2>3. Sent(pc[c], attempt[c]) <= Sent("attempt", attempt[c])
    BY <2>1, <2>2 DEF Sent
  <2>4. CallerStep(c, "attempt", attempt[c], "none", logged[c], "none")
    BY <2>1, <2>2, <2>3 DEF CallerStep, Results, IInv, TypeOK
  <2>5. QED
    BY <2>4, CallerStepIInv
<1>2. ASSUME NEW c \in Calls, Unreachable(c)
      PROVE  IInv'
  <2>1. pc[c] \in {"attempt", "waiting"} /\ UNCHANGED <<network, executed>>
    BY <1>2 DEF Unreachable
  <2>2. CASE Again(c) /\ UNCHANGED logged
    BY <2>1, <2>2, AgainIInv
  <2>3. CASE Log(c, "failure") /\ End(c, "failed")
    BY <2>1, <2>3, EndIInv DEF Results, Statuses, Agrees
  <2>4. QED
    BY <1>2, <2>2, <2>3 DEF Unreachable
<1>3. ASSUME NEW c \in Calls, TimesOut(c)
      PROVE  IInv'
  <2>1. pc[c] = "waiting" /\ UNCHANGED <<network, executed>>
    BY <1>3 DEF TimesOut
  <2>2. CASE Log(c, "retrying") /\ Again(c)
    BY <2>1, <2>2, AgainIInv
  <2>3. CASE Log(c, "timeout") /\ End(c, "timed out")
    BY <2>1, <2>3, EndIInv DEF Results, Statuses, Agrees
  <2>4. QED
    BY <1>3, <2>2, <2>3 DEF TimesOut
<1>4. ASSUME NEW c \in Calls, Breaks(c)
      PROVE  IInv'
  <2>1. pc[c] = "waiting" /\ End(c, "raised") /\ UNCHANGED <<network, logged, executed>>
    BY <1>4 DEF Breaks
  <2>2. QED
    BY <2>1, EndIInv DEF Results, Statuses, Agrees
<1>5. ASSUME NEW c \in Calls, Receive(c)
      PROVE  IInv'
  <2>1. pc[c] = "waiting" /\ UNCHANGED <<network, executed>>
    BY <1>5 DEF Receive
  <2>2. reply[c] = "ok" => executed[c] > 0
    BY DEF IInv, Answered
  <2>3. CASE Log(c, "retrying") /\ Again(c)
    BY <2>1, <2>3, AgainIInv
  <2>4. CASE Log(c, "failure") /\ End(c, "failed")
    BY <2>1, <2>4, EndIInv DEF Results, Statuses, Agrees
  <2>5. CASE End(c, "failed") /\ UNCHANGED logged
    BY <2>1, <2>5, EndIInv DEF Results, Statuses, Agrees
  <2>6. CASE reply[c] = "ok" /\ Log(c, "success") /\ End(c, "success")
    BY <2>1, <2>2, <2>6, EndIInv DEF Results, Statuses, Agrees
  <2>7. QED
    BY <1>5, <2>3, <2>4, <2>5, <2>6 DEF Receive
<1>6. CASE UNCHANGED vars
  <2>1. \A d \in Calls : UnderWay(d)' = UnderWay(d)
    BY <1>6 DEF vars, UnderWay
  <2>2. QED
    BY <1>6, <2>1 DEF vars, IInv, TypeOK, ExecutionsBounded, SuccessIsReal
<1>7. QED
  BY <1>1, <1>2, <1>3, <1>4, <1>5, <1>6, SendIInv, NetworkIInv DEF Next, Caller

\* In every state of every behaviour the invariant holds.
THEOREM Invariance == Spec => []IInv
BY InitIInv, NextIInv, PTL DEF Spec

\* Type correctness.
THEOREM TypeCorrect == Spec => []TypeOK
BY Invariance, PTL DEF IInv

\* What execute returns and logs of a call is what became of it, and the server
\* carries a call out at most once for each attempt (outbound.py:111-176).
THEOREM ReportIsHonestAlways == Spec => []ReportIsHonest
<1>1. IInv => LogIsHonest
  <2> SUFFICES ASSUME IInv, NEW c \in Calls
               PROVE  /\ Len(logged[c]) <= attempt[c] + (IF At(c, "done") THEN 1 ELSE 0)
                      /\ \A i \in 1..Len(logged[c]) :
                           logged[c][i] # "retrying" =>
                             /\ i = Len(logged[c]) /\ At(c, "done")
                             /\ result[c] = (CASE logged[c][i] = "success" -> "success"
                                               [] logged[c][i] = "failure" -> "failed"
                                               [] logged[c][i] = "timeout" -> "timed out")
    BY DEF LogIsHonest
  <2>1. /\ Told(pc[c], logged[c], result[c]) /\ Fits(pc[c], Len(logged[c]), attempt[c])
        /\ logged[c] \in Seq(Statuses) /\ attempt[c] \in Nat
    BY RetriesAssumption DEF IInv, TypeOK
  <2>2. Len(logged[c]) <= attempt[c] + (IF At(c, "done") THEN 1 ELSE 0)
    <3>1. Len(logged[c]) \in Nat
      BY <2>1
    <3>2. CASE pc[c] = "done"
      BY <2>1, <3>2 DEF Fits, At
    <3>3. CASE pc[c] # "done"
      BY <2>1, <3>1, <3>3 DEF Fits, At
    <3>4. QED
      BY <3>2, <3>3
  <2>3. ASSUME NEW i \in 1..Len(logged[c]), logged[c][i] # "retrying"
        PROVE  /\ i = Len(logged[c]) /\ At(c, "done")
               /\ result[c] = (CASE logged[c][i] = "success" -> "success"
                                 [] logged[c][i] = "failure" -> "failed"
                                 [] logged[c][i] = "timeout" -> "timed out")
    <3>1. logged[c][i] \in {"success", "failure", "timeout"}
      BY <2>1, <2>3 DEF Statuses
    <3>2. /\ i = Len(logged[c]) /\ pc[c] = "done"
          /\ logged[c][i] = "success" => result[c] = "success"
          /\ logged[c][i] = "failure" => result[c] = "failed"
          /\ logged[c][i] = "timeout" => result[c] = "timed out"
      BY <2>1, <2>3 DEF Told, Agrees
    <3>3. CASE logged[c][i] = "success"
      BY <3>2, <3>3 DEF At
    <3>4. CASE logged[c][i] = "failure"
      BY <3>2, <3>4 DEF At
    <3>5. CASE logged[c][i] = "timeout"
      BY <3>2, <3>5 DEF At
    <3>6. QED
      BY <3>1, <3>3, <3>4, <3>5
  <2>4. QED
    BY <2>2, <2>3
<1>2. IInv => ReportIsHonest
  BY <1>1 DEF IInv, ReportIsHonest
<1>3. QED
  BY <1>2, Invariance, PTL

-----------------------------------------------------------------------------
\* How many steps call c has left at most.
Left(c) ==
    CASE pc[c] = "idle"    -> 3 * (MaxRetries - attempt[c]) + 3
      [] pc[c] = "attempt" -> 3 * (MaxRetries - attempt[c]) + 2
      [] pc[c] = "waiting" -> 3 * (MaxRetries - attempt[c]) + 1
      [] pc[c] = "done"    -> 0

RunsDown ==
    \A c \in Calls : /\ Left(c) \in 0..3 * (MaxRetries + 1)
                     /\ Left(c)' <= Left(c)
                     /\ Caller(c) => Left(c)' < Left(c)

\* Every step of a call brings its end nearer, and nothing the other calls, the
\* network and the server do puts it off: a call ends after at most
\* 3 * (max_retries + 1) steps of its own (outbound.py:111-176).
THEOREM CallsRunDown == Spec => [][RunsDown]_vars
<1>1. ASSUME TypeOK, TypeOK', Next, NEW c \in Calls
      PROVE  /\ Left(c) \in 0..3 * (MaxRetries + 1)
             /\ Left(c)' <= Left(c)
             /\ Caller(c) => Left(c)' < Left(c)
  <2>1. /\ attempt[c] \in 0..MaxRetries /\ attempt'[c] \in 0..MaxRetries /\ MaxRetries \in Nat
        /\ pc[c] \in {"idle", "attempt", "waiting", "done"}
        /\ pc \in [Calls -> {"idle", "attempt", "waiting", "done"}]
        /\ attempt \in [Calls -> 0..MaxRetries]
    BY <1>1, RetriesAssumption DEF TypeOK
  <2>2. Left(c) \in 0..3 * (MaxRetries + 1)
    BY <2>1 DEF Left
  <2>3. ASSUME pc'[c] = pc[c], attempt'[c] = attempt[c] PROVE Left(c)' = Left(c)
    BY <2>3 DEF Left
  <2>4. ASSUME Call(c) PROVE Left(c)' < Left(c)
    BY <2>1, <2>4 DEF Call, At, Goto, Left
  <2>5. ASSUME Send(c) PROVE Left(c)' < Left(c)
    BY <2>1, <2>5 DEF Send, At, Goto, Left
  <2>6. ASSUME Again(c), pc[c] \in {"attempt", "waiting"} PROVE Left(c)' < Left(c)
    BY <2>1, <2>6 DEF Again, Goto, Left
  <2>7. ASSUME \E o : End(c, o), pc[c] \in {"attempt", "waiting"} PROVE Left(c)' < Left(c)
    BY <2>1, <2>7 DEF End, Goto, Left
  <2>8. ASSUME Caller(c) PROVE Left(c)' < Left(c)
    BY <2>5, <2>6, <2>7, <2>8 DEF Caller, Unreachable, TimesOut, Breaks, Receive, At
  <2>9. ASSUME NEW d \in Calls, d # c, Call(d) \/ Caller(d)
        PROVE  pc'[c] = pc[c] /\ attempt'[c] = attempt[c]
    BY <2>1, <2>9 DEF Call, Caller, Send, Unreachable, TimesOut, Breaks, Receive, Again, End, Goto
  <2>10. ASSUME NEW d \in Calls, NEW a \in 0..MaxRetries,
                Lose(d, a) \/ \E answer \in Answers, does \in BOOLEAN : Serve(d, a, answer, does)
         PROVE  pc'[c] = pc[c] /\ attempt'[c] = attempt[c]
    BY <2>10 DEF Lose, Serve
  <2>11. Left(c) \in Nat /\ Left(c)' \in Nat
    <3>1. Left(c)' \in 0..3 * (MaxRetries + 1)
      BY <1>1, <2>1 DEF TypeOK, Left
    <3>2. QED
      BY <2>1, <2>2, <3>1
  <2>12. QED
    BY <1>1, <2>2, <2>3, <2>4, <2>8, <2>9, <2>10, <2>11 DEF Next
<1>2. TypeOK /\ TypeOK' /\ [Next]_vars => [RunsDown]_vars
  BY <1>1 DEF RunsDown
<1>3. QED
  BY <1>2, TypeCorrect, PTL DEF Spec
=============================================================================
