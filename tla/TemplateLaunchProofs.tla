-------------------------- MODULE TemplateLaunchProofs --------------------------
(***************************************************************************)
(* What a launch of TemplateLaunch leaves behind and what its caller hears *)
(* agree, for any launches, templates and requests.  The invariant says at *)
(* each label which of the three documents of the launch are there.        *)
(***************************************************************************)
EXTENDS TemplateLaunch, TLAPS

\* At the end of a launch: the template t it looked up, its definition d, the
\* status i of its instance, its lineage g and what w its caller was told; f is
\* the fault of its request and x says that the launch was disturbed.
EndOK(t, d, i, g, w, f, x) ==
    /\ d \in {NoTemplate, t} /\ g \in {NoTemplate, d}
    /\ g # NoTemplate => i \in {"completed", "failed"}
    /\ i # "none" => d # NoTemplate
    /\ w \in {"invalid", "not found"} => d = NoTemplate
    /\ w = "completed" => i = "completed" /\ g # NoTemplate
    /\ ~x =>
         /\ i # "none" => g # NoTemplate
         /\ d # NoTemplate /\ i = "none" => f = "input"
         /\ w # "nothing"
         /\ i = "completed" <=> w = "completed"
         /\ w = "error" => f # ""

\* At label p of a launch.
LaunchOK(p, t, d, i, g, w, f, x) ==
    /\ p \in {"idle", "resolve", "execute", "bind", "define"} => d = NoTemplate
    /\ p \in {"idle", "resolve", "execute", "bind", "define", "trigger"} => i = "none"
    /\ p \in {"bind", "define", "trigger", "running", "record"} => t # NoTemplate
    /\ p \in {"trigger", "running", "record"} => d = t
    /\ p = "running" => i = "running"
    /\ p = "record" => i \in {"completed", "failed"}
    /\ p # "done" => w = "" /\ g = NoTemplate
    /\ p = "done" => EndOK(t, d, i, g, w, f, x)

Typed ==
    /\ created \subseteq Templates
    /\ pc \in [Launches -> Labels]
    /\ told \in [Launches -> Tellings]
    /\ template \in [Launches -> Templates \cup {NoTemplate}]
    /\ seen \in [Launches -> SUBSET created]
    /\ definition \in [Launches -> Templates \cup {NoTemplate}]
    /\ lineage \in [Launches -> Templates \cup {NoTemplate}]
    /\ instance \in [Launches -> {"none", "running", "completed", "failed"}]
    /\ request = [l \in Launches |-> request[l]]
    /\ \A l \in Launches : request[l].caller \in Callers
    /\ disturbed \subseteq Launches
    /\ faults \in 0..MaxFaults

IInv ==
    /\ Typed
    /\ \A l \in Launches :
          LaunchOK(pc[l], template[l], definition[l], instance[l], lineage[l], told[l],
                   request[l].fault, l \in disturbed)

-----------------------------------------------------------------------------
LEMMA InitIInv == Init => IInv
<1> SUFFICES ASSUME Init PROVE IInv
  OBVIOUS
<1> USE DEF Init
<1>1. Typed
  <2>1. \A l \in Launches : request[l].caller \in Callers
    BY DEF NoRequest, Callers
  <2>2. request = [l \in Launches |-> request[l]]
    OBVIOUS
  <2>3. faults \in 0..MaxFaults
    <3>1. MaxFaults \in Nat /\ faults = 0
      BY LaunchAssumption
    <3> HIDE DEF Init
    <3>2. QED
      BY <3>1
  <2> HIDE DEF NoTemplate
  <2>4. QED
    BY <2>1, <2>2, <2>3 DEF Typed, Labels, Tellings
<1>2. QED
  BY <1>1 DEF IInv, LaunchOK

\* A step of one launch that is not disturbed: label p, template t, definition
\* d, instance i, lineage g and telling w are what it has afterwards.
LaunchStep(l, p, t, d, i, g, w) ==
    /\ pc' = [pc EXCEPT ![l] = p]
    /\ template' = [template EXCEPT ![l] = t]
    /\ definition' = [definition EXCEPT ![l] = d]
    /\ instance' = [instance EXCEPT ![l] = i]
    /\ lineage' = [lineage EXCEPT ![l] = g]
    /\ told' = [told EXCEPT ![l] = w]
    /\ seen' \in {seen, [seen EXCEPT ![l] = created]}
    /\ created' = created
    /\ p \in Labels
    /\ t \in Templates \cup {NoTemplate}
    /\ d \in Templates \cup {NoTemplate}
    /\ g \in Templates \cup {NoTemplate}
    /\ i \in {"none", "running", "completed", "failed"}
    /\ w \in Tellings

LEMMA LaunchStepIInv ==
    ASSUME IInv, NEW l \in Launches, NEW p, NEW t, NEW d, NEW i, NEW g, NEW w,
           LaunchStep(l, p, t, d, i, g, w),
           UNCHANGED request, faults' \in 0..MaxFaults,
           disturbed' \in {disturbed, disturbed \cup {l}},
           LaunchOK(p, t, d, i, g, w, request[l].fault, l \in disturbed')
    PROVE  IInv'
<1> USE DEF LaunchStep
<1>1. Typed'
  BY DEF IInv, Typed
<1>2. ASSUME NEW m \in Launches
      PROVE  LaunchOK(pc[m], template[m], definition[m], instance[m], lineage[m], told[m],
                      request[m].fault, m \in disturbed)'
  <2>1. CASE m = l
    BY <2>1 DEF IInv, Typed
  <2>2. CASE m # l
    <3>1. LaunchOK(pc[m], template[m], definition[m], instance[m], lineage[m], told[m],
                   request[m].fault, m \in disturbed)
      BY DEF IInv
    <3>2. /\ pc'[m] = pc[m] /\ template'[m] = template[m] /\ definition'[m] = definition[m]
          /\ instance'[m] = instance[m] /\ lineage'[m] = lineage[m] /\ told'[m] = told[m]
          /\ request' = request
      BY <2>2 DEF IInv, Typed
    <3>3. (m \in disturbed') <=> (m \in disturbed)
      BY <2>2
    <3>4. QED
      BY <3>1, <3>2, <3>3 DEF LaunchOK, EndOK
  <2>3. QED
    BY <2>1, <2>2
<1>3. QED
  BY <1>1, <1>2 DEF IInv

\* What a launch has, and what its caller hears of an exception.
LEMMA AtLaunch ==
    ASSUME IInv, NEW l \in Launches
    PROVE  /\ LaunchOK(pc[l], template[l], definition[l], instance[l], lineage[l], told[l],
                       request[l].fault, l \in disturbed)
           /\ pc = [pc EXCEPT ![l] = pc[l]]
           /\ template = [template EXCEPT ![l] = template[l]]
           /\ definition = [definition EXCEPT ![l] = definition[l]]
           /\ instance = [instance EXCEPT ![l] = instance[l]]
           /\ lineage = [lineage EXCEPT ![l] = lineage[l]]
           /\ told = [told EXCEPT ![l] = told[l]]
           /\ template[l] \in Templates \cup {NoTemplate}
           /\ definition[l] \in Templates \cup {NoTemplate}
           /\ lineage[l] \in Templates \cup {NoTemplate}
           /\ instance[l] \in {"none", "running", "completed", "failed"}
           /\ told[l] \in Tellings
BY DEF IInv, Typed

LEMMA HearsWhat ==
    ASSUME IInv, NEW l \in Launches, NEW e
    PROVE  Hears(l, e) \in {e, "failed"}
<1>1. request[l].caller \in {"api", "pipeline", "client"}
  BY DEF IInv, Typed, Callers
<1>2. CASE request[l].caller = "api"
  BY <1>2 DEF Hears
<1>3. CASE request[l].caller = "pipeline"
  BY <1>3 DEF Hears
<1>4. CASE request[l].caller = "client"
  BY <1>4 DEF Hears
<1>5. QED
  BY <1>1, <1>2, <1>3, <1>4

LEMMA LookUpIInv ==
    ASSUME IInv, NEW l \in Launches, pc[l] \in {"resolve", "execute"},
           NEW reference, NEW version, NEW next \in {"execute", "bind"},
           LookUp(l, reference, version, next),
           seen' \in {seen, [seen EXCEPT ![l] = created]}
    PROVE  IInv'
<1> USE DEF Goto, Tell, stored
<1>1. definition[l] = NoTemplate /\ instance[l] = "none" /\ lineage[l] = NoTemplate
      /\ told[l] = ""
  BY AtLaunch DEF LaunchOK
<1>2. UNCHANGED <<created, request, definition, instance, lineage, disturbed, faults>>
      /\ faults \in 0..MaxFaults
  BY DEF LookUp, IInv, Typed
<1>3. ASSUME NEW e \in {"invalid", "not found"}, Tell(l, Hears(l, e)), UNCHANGED template
      PROVE  IInv'
  <2> DEFINE w == Hears(l, e)
  <2>1. w \in {"invalid", "not found", "failed"}
    BY HearsWhat
  <2> HIDE DEF w
  <2>2. LaunchStep(l, "done", template[l], definition[l], instance[l], lineage[l], w)
    BY <1>2, <1>3, <2>1, AtLaunch DEF LaunchStep, Labels, Tellings, w
  <2>3. LaunchOK("done", template[l], definition[l], instance[l], lineage[l], w,
                 request[l].fault, l \in disturbed')
    BY <1>1, <2>1 DEF LaunchOK, EndOK
  <2>4. QED
    BY <1>2, <2>2, <2>3, LaunchStepIInv
<1>4. ASSUME NEW t \in Found(created, reference, version),
             template' = [template EXCEPT ![l] = t], Goto(l, next), UNCHANGED told
      PROVE  IInv'
  <2>1. t \in Templates /\ t # NoTemplate
    BY LaunchAssumption DEF Found, Matches, IInv, Typed
  <2>2. LaunchStep(l, next, t, definition[l], instance[l], lineage[l], told[l])
    BY <1>2, <1>4, <2>1, AtLaunch DEF LaunchStep, Labels
  <2>3. LaunchOK(next, t, definition[l], instance[l], lineage[l], told[l],
                 request[l].fault, l \in disturbed')
    BY <1>1, <2>1 DEF LaunchOK
  <2>4. QED
    BY <1>2, <2>2, <2>3, LaunchStepIInv
<1>5. QED
  BY <1>3, <1>4 DEF LookUp

-----------------------------------------------------------------------------
LEMMA NextIInv == IInv /\ [Next]_vars => IInv'
<1> SUFFICES ASSUME IInv, [Next]_vars PROVE IInv'
  OBVIOUS
<1> USE DEF Goto, Tell, At, stored
<1>1. ASSUME NEW t \in Templates, CreateTemplate(t)
      PROVE  IInv'
  <2>1. Typed'
    BY <1>1 DEF CreateTemplate, IInv, Typed
  <2>2. QED
    BY <1>1, <2>1 DEF CreateTemplate, IInv
<1>2. ASSUME NEW l \in Launches, Ask(l)
      PROVE  IInv'
  <2>1. PICK r \in Requests :
          /\ request' = [request EXCEPT ![l] = [r EXCEPT !.given = @ \cup Added[r.caller]]]
          /\ pc' \in {[pc EXCEPT ![l] = "execute"], [pc EXCEPT ![l] = "resolve"]}
    BY <1>2 DEF Ask
  <2> DEFINE q == [r EXCEPT !.given = @ \cup Added[r.caller]]
  <2>2. q.caller \in Callers
    BY LaunchAssumption
  <2> HIDE DEF q
  <2>3. /\ pc[l] = "idle"
        /\ UNCHANGED <<created, template, seen, definition, instance, lineage, told,
                       disturbed, faults>>
    BY <1>2 DEF Ask
  <2>4. Typed'
    BY <2>1, <2>2, <2>3 DEF IInv, Typed, Labels, q
  <2>5. ASSUME NEW m \in Launches
        PROVE  LaunchOK(pc[m], template[m], definition[m], instance[m], lineage[m], told[m],
                        request[m].fault, m \in disturbed)'
    <3>1. LaunchOK(pc[m], template[m], definition[m], instance[m], lineage[m], told[m],
                   request[m].fault, m \in disturbed)
      BY DEF IInv
    <3>2. CASE m = l
      <4>1. pc'[m] \in {"execute", "resolve"} /\ pc[m] = "idle"
        BY <2>1, <2>3, <3>2 DEF IInv, Typed
      <4>2. QED
        BY <3>1, <4>1, <2>3 DEF LaunchOK
    <3>3. CASE m # l
      <4>1. pc'[m] = pc[m] /\ request'[m] = request[m]
        BY <2>1, <3>3 DEF IInv, Typed
      <4>2. QED
        BY <3>1, <4>1, <2>3
    <3>4. QED
      BY <3>2, <3>3
  <2>6. QED
    BY <2>4, <2>5 DEF IInv
<1>3. ASSUME NEW l \in Launches, Resolve(l)
      PROVE  IInv'
  BY <1>3, LookUpIInv DEF Resolve
<1>4. ASSUME NEW l \in Launches, Execute(l)
      PROVE  IInv'
  <2>1. /\ pc[l] = "execute"
        /\ seen' \in {seen, [seen EXCEPT ![l] = created]}
        /\ \E reference, version : LookUp(l, reference, version, "bind")
    BY <1>4 DEF Execute
  <2>2. QED
    BY <2>1, LookUpIInv
<1>5. ASSUME NEW l \in Launches, Bind(l)
      PROVE  IInv'
  <2>1. /\ pc[l] = "bind"
        /\ UNCHANGED <<created, request, template, seen, definition, instance, lineage,
                       disturbed, faults>>
        /\ \/ pc' = [pc EXCEPT ![l] = "define"] /\ told' = told
           \/ /\ pc' = [pc EXCEPT ![l] = "done"]
              /\ told' = [told EXCEPT ![l] = Hears(l, "invalid")]
    BY <1>5 DEF Bind
  <2>2. \E p \in {"define", "done"}, w \in {told[l], "invalid", "failed"} :
          /\ p = "define" <=> w = told[l]
          /\ LaunchStep(l, p, template[l], definition[l], instance[l], lineage[l], w)
    <3>1. told[l] = ""
      BY <2>1, AtLaunch DEF LaunchOK
    <3>2. Hears(l, "invalid") \in {"invalid", "failed"}
      BY HearsWhat
    <3>3. CASE pc' = [pc EXCEPT ![l] = "define"] /\ told' = told
      <4>1. LaunchStep(l, "define", template[l], definition[l], instance[l], lineage[l], told[l])
        BY <2>1, <3>3, AtLaunch DEF LaunchStep, Labels
      <4>2. QED
        BY <4>1
    <3>4. CASE /\ pc' = [pc EXCEPT ![l] = "done"]
               /\ told' = [told EXCEPT ![l] = Hears(l, "invalid")]
      <4>1. LaunchStep(l, "done", template[l], definition[l], instance[l], lineage[l],
                       Hears(l, "invalid"))
        BY <2>1, <3>2, <3>4, AtLaunch DEF LaunchStep, Labels, Tellings
      <4>2. QED
        BY <3>1, <3>2, <4>1
    <3>5. QED
      BY <2>1, <3>3, <3>4
  <2>3. PICK p \in {"define", "done"}, w \in {told[l], "invalid", "failed"} :
          /\ p = "define" <=> w = told[l]
          /\ LaunchStep(l, p, template[l], definition[l], instance[l], lineage[l], w)
    BY <2>2
  <2>4. LaunchOK(p, template[l], definition[l], instance[l], lineage[l], w,
                 request[l].fault, l \in disturbed')
    BY <2>1, <2>3, AtLaunch DEF LaunchOK, EndOK
  <2>5. faults' \in 0..MaxFaults
    BY <2>1 DEF IInv, Typed
  <2>6. QED
    BY <2>1, <2>3, <2>4, <2>5, LaunchStepIInv
\* A refusal after the template was bound: the definition may be there, the
\* instance is not.
<1>6. ASSUME NEW l \in Launches, pc[l] \in {"define", "trigger"},
             pc[l] = "trigger" => request[l].fault = "input",
             request[l].fault # "",
             pc' = [pc EXCEPT ![l] = "done"],
             told' = [told EXCEPT ![l] = Hears(l, "error")],
             UNCHANGED <<created, request, template, seen, definition, instance, lineage,
                         disturbed, faults>>
      PROVE  IInv'
  <2> DEFINE w == Hears(l, "error")
  <2>1. w \in {"error", "failed"}
    BY HearsWhat
  <2>2. LaunchStep(l, "done", template[l], definition[l], instance[l], lineage[l], w)
    BY <1>6, <2>1, AtLaunch DEF LaunchStep, Labels, Tellings
  <2> HIDE DEF w
  <2>3. LaunchOK("done", template[l], definition[l], instance[l], lineage[l], w,
                 request[l].fault, l \in disturbed')
    BY <1>6, <2>1, AtLaunch DEF LaunchOK, EndOK
  <2>4. faults' \in 0..MaxFaults
    BY <1>6 DEF IInv, Typed
  <2>5. QED
    BY <1>6, <2>2, <2>3, <2>4, LaunchStepIInv
<1>7. ASSUME NEW l \in Launches, Define(l)
      PROVE  IInv'
  <2>1. pc[l] = "define"
        /\ UNCHANGED <<created, request, template, seen, instance, lineage, disturbed, faults>>
    BY <1>7 DEF Define
  <2>2. CASE request[l].fault = "binding"
    BY <2>1, <2>2, <1>7, <1>6 DEF Define
  <2>3. CASE request[l].fault # "binding"
    <3>1. /\ definition' = [definition EXCEPT ![l] = template[l]]
          /\ pc' = [pc EXCEPT ![l] = "trigger"] /\ told' = told
      BY <2>3, <1>7 DEF Define
    <3>2. LaunchOK("trigger", template[l], template[l], instance[l], lineage[l], told[l],
                   request[l].fault, l \in disturbed')
      BY <2>1, AtLaunch DEF LaunchOK
    <3>3. LaunchStep(l, "trigger", template[l], template[l], instance[l], lineage[l], told[l])
      BY <2>1, <3>1, AtLaunch DEF LaunchStep, Labels
    <3>4. faults' \in 0..MaxFaults
      BY <2>1 DEF IInv, Typed
    <3>5. QED
      BY <2>1, <3>2, <3>3, <3>4, LaunchStepIInv
  <2>4. QED
    BY <2>2, <2>3
<1>8. ASSUME NEW l \in Launches, Trigger(l)
      PROVE  IInv'
  <2>1. pc[l] = "trigger"
        /\ UNCHANGED <<created, request, template, seen, definition, lineage, disturbed, faults>>
    BY <1>8 DEF Trigger
  <2>2. CASE request[l].fault = "input"
    BY <2>1, <2>2, <1>8, <1>6 DEF Trigger
  <2>3. CASE request[l].fault # "input"
    <3>1. /\ instance' = [instance EXCEPT ![l] = "running"]
          /\ pc' = [pc EXCEPT ![l] = "running"] /\ told' = told
      BY <2>3, <1>8 DEF Trigger
    <3>2. LaunchOK("running", template[l], definition[l], "running", lineage[l], told[l],
                   request[l].fault, l \in disturbed')
      BY <2>1, AtLaunch DEF LaunchOK
    <3>3. LaunchStep(l, "running", template[l], definition[l], "running", lineage[l], told[l])
      BY <2>1, <3>1, AtLaunch DEF LaunchStep, Labels
    <3>4. faults' \in 0..MaxFaults
      BY <2>1 DEF IInv, Typed
    <3>5. QED
      BY <2>1, <3>2, <3>3, <3>4, LaunchStepIInv
  <2>4. QED
    BY <2>2, <2>3
<1>9. ASSUME NEW l \in Launches, RunEnds(l)
       PROVE  IInv'
  <2>1. pc[l] = "running" /\ pc' = [pc EXCEPT ![l] = "record"]
        /\ UNCHANGED <<created, request, template, seen, definition, lineage, told,
                       disturbed, faults>>
    BY <1>9 DEF RunEnds
  <2>2. PICK i \in {"completed", "failed"} : instance' = [instance EXCEPT ![l] = i]
    BY <1>9 DEF RunEnds
  <2>3. LaunchOK("record", template[l], definition[l], i, lineage[l], told[l],
                 request[l].fault, l \in disturbed')
    BY <2>1, AtLaunch DEF LaunchOK
  <2>4. LaunchStep(l, "record", template[l], definition[l], i, lineage[l], told[l])
    BY <2>1, <2>2, AtLaunch DEF LaunchStep, Labels
  <2>5. faults' \in 0..MaxFaults
    BY <2>1 DEF IInv, Typed
  <2>6. QED
    BY <2>1, <2>3, <2>4, <2>5, LaunchStepIInv
<1>10. ASSUME NEW l \in Launches, Record(l)
       PROVE  IInv'
  <2>1. /\ pc[l] = "record" /\ pc' = [pc EXCEPT ![l] = "done"]
        /\ lineage' = [lineage EXCEPT ![l] = template[l]]
        /\ told' = [told EXCEPT ![l] = instance[l]]
        /\ UNCHANGED <<created, request, template, seen, definition, instance,
                       disturbed, faults>>
    BY <1>10 DEF Record
  <2>2. instance[l] \in {"completed", "failed"}
        /\ template[l] # NoTemplate /\ definition[l] = template[l]
    BY <2>1, AtLaunch DEF LaunchOK
  <2>3. LaunchOK("done", template[l], definition[l], instance[l], template[l], instance[l],
                 request[l].fault, l \in disturbed')
    BY <2>1, <2>2 DEF LaunchOK, EndOK
  <2>4. LaunchStep(l, "done", template[l], definition[l], instance[l], template[l], instance[l])
    BY <2>1, <2>2, AtLaunch DEF LaunchStep, Labels, Tellings
  <2>5. faults' \in 0..MaxFaults
    BY <2>1 DEF IInv, Typed
  <2>6. QED
    BY <2>1, <2>3, <2>4, <2>5, LaunchStepIInv
<1>11. ASSUME NEW l \in Launches, SaveRaises(l)
       PROVE  IInv'
  <2> DEFINE w == Hears(l, "error")
  <2>1. w \in {"error", "failed"}
    BY HearsWhat
  <2>2. /\ pc[l] \in {"define", "trigger", "running", "record"}
        /\ pc' = [pc EXCEPT ![l] = "done"]
        /\ told' = [told EXCEPT ![l] = w]
        /\ disturbed' = disturbed \cup {l}
        /\ UNCHANGED <<created, request, template, seen, definition, instance, lineage>>
    BY <1>11 DEF SaveRaises
  <2> HIDE DEF w
  <2>3. LaunchStep(l, "done", template[l], definition[l], instance[l], lineage[l], w)
    BY <2>1, <2>2, AtLaunch DEF LaunchStep, Labels, Tellings
  <2>4. LaunchOK("done", template[l], definition[l], instance[l], lineage[l], w,
                 request[l].fault, l \in disturbed')
    BY <2>1, <2>2, AtLaunch DEF LaunchOK, EndOK
  <2>5. faults' \in 0..MaxFaults
    <3>1. faults < MaxFaults /\ faults' = faults + 1
      BY <1>11 DEF SaveRaises
    <3>2. MaxFaults \in Nat /\ faults \in 0..MaxFaults
      BY LaunchAssumption DEF IInv, Typed
    <3>3. QED
      BY <3>1, <3>2
  <2>6. QED
    BY <2>2, <2>3, <2>4, <2>5, LaunchStepIInv
<1>12. ASSUME Crash
       PROVE  IInv'
  <2> DEFINE cut == {l \in Launches : pc[l] \notin {"idle", "done"}}
  <2>1. /\ disturbed' = disturbed \cup cut
        /\ pc' = [l \in Launches |-> IF l \in cut THEN "done" ELSE pc[l]]
        /\ told' = [l \in Launches |-> IF l \in cut THEN "nothing" ELSE told[l]]
        /\ UNCHANGED <<created, request, template, seen, definition, instance, lineage>>
    BY <1>12 DEF Crash
  <2>2. faults' \in 0..MaxFaults
    <3>1. faults < MaxFaults /\ faults' = faults + 1
      BY <1>12 DEF Crash
    <3>2. MaxFaults \in Nat /\ faults \in 0..MaxFaults
      BY LaunchAssumption DEF IInv, Typed
    <3>3. QED
      BY <3>1, <3>2
  <2>3. Typed'
    BY <2>1, <2>2 DEF IInv, Typed, Labels, Tellings
  <2>4. ASSUME NEW l \in Launches
        PROVE  LaunchOK(pc[l], template[l], definition[l], instance[l], lineage[l], told[l],
                        request[l].fault, l \in disturbed)'
    <3>1. CASE l \in cut
      <4>1. pc'[l] = "done" /\ told'[l] = "nothing" /\ l \in disturbed'
        BY <2>1, <3>1
      <4>2. pc[l] # "done"
        BY <3>1
      <4>3. QED
        BY <2>1, <4>1, <4>2, AtLaunch DEF LaunchOK, EndOK, IInv, Typed, Labels
    <3>2. CASE l \notin cut
      <4>1. pc'[l] = pc[l] /\ told'[l] = told[l] /\ (l \in disturbed' <=> l \in disturbed)
        BY <2>1, <3>2
      <4>2. QED
        BY <2>1, <4>1, AtLaunch DEF LaunchOK, EndOK
    <3>3. QED
      BY <3>1, <3>2
  <2>5. QED
    BY <2>3, <2>4 DEF IInv
<1>13. CASE UNCHANGED vars
  BY <1>13 DEF vars, IInv, Typed
<1>14. QED
  BY <1>1, <1>2, <1>3, <1>4, <1>5, <1>7, <1>8, <1>9, <1>10, <1>11, <1>12, <1>13
     DEF Next, Step

\* In every state of every behaviour the invariant holds.
THEOREM Invariance == Spec => []IInv
BY InitIInv, NextIInv, PTL DEF Spec

\* Every variable has its type, and an instance is saved before it runs
\* (workflows/engine.py:64-65).
THEOREM TypeCorrect == Spec => []TypeOK
<1>1. IInv => TypeOK
  <2> SUFFICES ASSUME IInv, NEW l \in Launches
               PROVE  /\ definition[l] \in {NoTemplate, template[l]}
                      /\ lineage[l] \in {NoTemplate, template[l]}
                      /\ pc[l] \in {"idle", "resolve", "execute", "bind", "define", "trigger"}
                            => instance[l] = "none"
                      /\ pc[l] = "running" => instance[l] = "running"
                      /\ pc[l] = "record"  => instance[l] \in {"completed", "failed"}
    BY DEF IInv, Typed, TypeOK
  <2>1. pc[l] \in Labels
    BY DEF IInv, Typed
  <2>2. QED
    BY <2>1, AtLaunch DEF LaunchOK, EndOK, Labels
<1>2. QED
  BY <1>1, Invariance, PTL

\* What a launch leaves behind and what its caller hears agree
\* (workflows/templates.py:192-217, client_pipeline/pipeline_engine.py:23-38).
THEOREM TrailIsHonestAlways == Spec => []TrailIsHonest
<1>1. IInv => TrailIsHonest
  <2> SUFFICES ASSUME IInv, NEW l \in Launches
               PROVE  /\ lineage[l] # NoTemplate =>
                            instance[l] \in {"completed", "failed"} /\ lineage[l] = definition[l]
                      /\ instance[l] # "none" => definition[l] # NoTemplate
                      /\ pc[l] = "done" /\ l \notin disturbed =>
                            /\ instance[l] # "none" => lineage[l] # NoTemplate
                            /\ definition[l] # NoTemplate /\ instance[l] = "none"
                                  => request[l].fault = "input"
                      /\ told[l] \in {"invalid", "not found"} =>
                            /\ definition[l] = NoTemplate
                            /\ instance[l] = "none"
                            /\ lineage[l] = NoTemplate
                      /\ told[l] = "completed" =>
                            instance[l] = "completed" /\ lineage[l] # NoTemplate
                      /\ pc[l] = "done" /\ l \notin disturbed =>
                            /\ told[l] # "nothing"
                            /\ instance[l] = "completed" <=> told[l] = "completed"
                            /\ told[l] = "error" => request[l].fault # ""
    BY DEF TrailIsHonest, TrailIsComplete, RefusedLeavesNothing, OutcomeIsTold
  <2>1. /\ LaunchOK(pc[l], template[l], definition[l], instance[l], lineage[l], told[l],
                    request[l].fault, l \in disturbed)
        /\ pc[l] \in Labels
        /\ instance[l] \in {"none", "running", "completed", "failed"}
    BY AtLaunch DEF IInv, Typed
  <2>2. CASE pc[l] = "done"
    BY <2>1, <2>2 DEF LaunchOK, EndOK
  <2>3. CASE pc[l] # "done"
    BY <2>1, <2>3 DEF LaunchOK, Labels
  <2>4. QED
    BY <2>2, <2>3
<1>2. QED
  BY <1>1, Invariance, PTL

-----------------------------------------------------------------------------
\* What a launch looked up is what its request asks for among the templates it
\* saw, and it is never missing afterwards.
FoundOK(p, t, s, r, w) ==
    /\ p \in {"idle", "resolve"} => t = NoTemplate
    /\ t # NoTemplate => t \in Found(s, r.reference, r.version) /\ w # "not found"

RInv ==
    \A l \in Launches : FoundOK(pc[l], template[l], seen[l], request[l], told[l])

\* What was found can be found again by its id and version, whatever was created
\* since.
LEMMA FoundAgain ==
    ASSUME NEW t \in created, created \subseteq Templates
    PROVE  /\ ~Ambiguous(created, t.id)
           /\ Found(created, t.id, t.version) = {t}
<1>1. Matches(created, t.id) = {u \in created : u.id = t.id}
  BY DEF Matches
<1>2. t.version # NoVersion
  BY LaunchAssumption
<1>3. \A u \in created : u.id = t.id /\ u.version = t.version <=> u = t
  BY LaunchAssumption
<1>4. ~Ambiguous(created, t.id)
  BY <1>1 DEF Ambiguous
<1>5. Found(created, t.id, t.version) = {u \in created : u.id = t.id /\ u.version = t.version}
  BY <1>1, <1>2 DEF Found
<1>6. QED
  BY <1>3, <1>4, <1>5

\* A launch that looks nothing up.
LEMMA KeepsFound ==
    ASSUME RInv, NEW l \in Launches,
           UNCHANGED <<template, seen, request>>,
           pc'[l] \in {"idle", "resolve"} => pc[l] \in {"idle", "resolve"},
           told'[l] = "not found" => told[l] = "not found"
    PROVE  FoundOK(pc[l], template[l], seen[l], request[l], told[l])'
BY DEF RInv, FoundOK

LEMMA LookUpFound ==
    ASSUME IInv, RInv, NEW l \in Launches, pc[l] \in {"resolve", "execute"},
           NEW reference, NEW version, NEW next \in {"execute", "bind"},
           LookUp(l, reference, version, next),
           \/ /\ template[l] = NoTemplate
              /\ reference = request[l].reference /\ version = request[l].version
              /\ seen' = [seen EXCEPT ![l] = created]
           \/ /\ template[l] # NoTemplate /\ pc[l] = "execute"
              /\ reference = template[l].id /\ version = template[l].version
              /\ UNCHANGED seen
    PROVE  RInv'
<1> USE DEF Goto, Tell
<1>1. Typed /\ UNCHANGED <<created, request>>
  BY DEF IInv, LookUp
<1>2. ASSUME NEW m \in Launches, m # l
      PROVE  FoundOK(pc[m], template[m], seen[m], request[m], told[m])'
  <2>1. /\ pc'[m] = pc[m] /\ template'[m] = template[m] /\ seen'[m] = seen[m]
        /\ told'[m] = told[m] /\ request'[m] = request[m]
    BY <1>1, <1>2 DEF LookUp, Typed
  <2>2. QED
    BY <2>1 DEF RInv
<1>3. CASE /\ template[l] = NoTemplate
           /\ reference = request[l].reference /\ version = request[l].version
           /\ seen' = [seen EXCEPT ![l] = created]
  <2>1. seen'[l] = created
    BY <1>1, <1>3 DEF Typed
  <2>2. CASE UNCHANGED template
    <3>1. template'[l] = NoTemplate
      BY <1>3, <2>2
    <3>2. FoundOK(pc[l], template[l], seen[l], request[l], told[l])'
      BY <3>1 DEF FoundOK
    <3>3. QED
      BY <1>2, <3>2 DEF RInv
  <2>3. CASE Goto(l, next) /\ UNCHANGED told
             /\ \E t \in Found(created, reference, version) :
                   template' = [template EXCEPT ![l] = t]
    <3>1. PICK t \in Found(created, reference, version) : template' = [template EXCEPT ![l] = t]
      BY <2>3
    <3>2. pc'[l] = next /\ template'[l] = t
      BY <1>1, <2>3, <3>1 DEF Typed
    <3>3. told[l] # "not found"
      BY AtLaunch DEF LaunchOK
    <3>4. t \in Found(seen'[l], request'[l].reference, request'[l].version)
      BY <1>1, <1>3, <2>1
    <3>5. FoundOK(pc[l], template[l], seen[l], request[l], told[l])'
      BY <2>3, <3>2, <3>3, <3>4 DEF FoundOK
    <3>6. QED
      BY <1>2, <3>5 DEF RInv
  <2>4. UNCHANGED template \/ ( /\ Goto(l, next) /\ UNCHANGED told
                               /\ \E t \in Found(created, reference, version) :
                                     template' = [template EXCEPT ![l] = t] )
    BY DEF LookUp
  <2>5. QED
    BY <2>2, <2>3, <2>4
<1>4. CASE /\ template[l] # NoTemplate /\ pc[l] = "execute"
           /\ reference = template[l].id /\ version = template[l].version
           /\ UNCHANGED seen
  <2>1. /\ template[l] \in Found(seen[l], request[l].reference, request[l].version)
        /\ told[l] # "not found"
    BY <1>4 DEF RInv, FoundOK
  <2>2. template[l] \in created /\ created \subseteq Templates
    BY <1>1, <2>1 DEF Found, Matches, Typed
  <2>3. ~Ambiguous(created, reference) /\ Found(created, reference, version) = {template[l]}
    BY <1>4, <2>2, FoundAgain
  <2>4. /\ template' = [template EXCEPT ![l] = template[l]]
        /\ Goto(l, next) /\ UNCHANGED told
    BY <2>3 DEF LookUp
  <2>5. pc'[l] = next /\ template'[l] = template[l]
    BY <1>1, <2>4 DEF Typed
  <2>6. FoundOK(pc[l], template[l], seen[l], request[l], told[l])'
    BY <1>1, <1>4, <2>1, <2>4, <2>5 DEF FoundOK
  <2>7. QED
    BY <1>2, <2>6 DEF RInv
<1>5. QED
  BY <1>3, <1>4

LEMMA NextRInv == IInv /\ RInv /\ [Next]_vars => RInv'
<1> SUFFICES ASSUME IInv, RInv, [Next]_vars PROVE RInv'
  OBVIOUS
<1> USE DEF Goto, Tell, At
<1>1. Typed
  BY DEF IInv
<1>2. ASSUME NEW t \in Templates, CreateTemplate(t)
      PROVE  RInv'
  BY <1>2 DEF CreateTemplate, RInv
<1>3. ASSUME NEW l \in Launches, Ask(l)
      PROVE  RInv'
  <2>1. template[l] = NoTemplate /\ UNCHANGED <<template, seen, told>>
    BY <1>3 DEF Ask, RInv, FoundOK
  <2>2. ASSUME NEW m \in Launches, m # l
        PROVE  pc'[m] = pc[m] /\ request'[m] = request[m]
    BY <1>1, <1>3, <2>2 DEF Ask, Typed
  <2>3. QED
    BY <2>1, <2>2 DEF RInv, FoundOK
<1>4. ASSUME NEW l \in Launches, Resolve(l)
      PROVE  RInv'
  <2>1. template[l] = NoTemplate
    BY <1>4 DEF Resolve, RInv, FoundOK
  <2>2. QED
    BY <1>4, <2>1, LookUpFound DEF Resolve
<1>5. ASSUME NEW l \in Launches, Execute(l)
      PROVE  RInv'
  BY <1>5, LookUpFound DEF Execute
<1>6. ASSUME NEW l \in Launches,
             Bind(l) \/ Define(l) \/ Trigger(l) \/ RunEnds(l) \/ Record(l) \/ SaveRaises(l)
      PROVE  RInv'
  <2>1. /\ UNCHANGED <<template, seen, request>>
        /\ \E p \in {"define", "trigger", "running", "record", "done"} :
              pc' = [pc EXCEPT ![l] = p]
    BY <1>6 DEF Bind, Define, Trigger, RunEnds, Record, SaveRaises
  <2>2. PICK w \in {told[l], Hears(l, "invalid"), Hears(l, "error"), instance[l]} :
          told' = [told EXCEPT ![l] = w]
    BY <1>1, <1>6 DEF Bind, Define, Trigger, RunEnds, Record, SaveRaises, Typed
  <2>3. w = "not found" => told[l] = "not found"
    BY <1>1, <2>2, HearsWhat DEF Typed
  <2>4. ASSUME NEW m \in Launches
        PROVE  /\ pc'[m] \in {"idle", "resolve"} => pc[m] \in {"idle", "resolve"}
               /\ told'[m] = "not found" => told[m] = "not found"
    BY <1>1, <2>1, <2>2, <2>3 DEF Typed
  <2>5. QED
    BY <2>1, <2>4, KeepsFound DEF RInv
<1>7. CASE Crash
  <2>1. ASSUME NEW m \in Launches
        PROVE  /\ pc'[m] \in {"done", pc[m]}
               /\ told'[m] \in {"nothing", told[m]}
    BY <1>7 DEF Crash
  <2>2. UNCHANGED <<template, seen, request>>
    BY <1>7 DEF Crash
  <2>3. QED
    BY <2>1, <2>2, KeepsFound DEF RInv
<1>8. CASE UNCHANGED vars
  BY <1>8 DEF vars, RInv
<1>9. QED
  BY <1>2, <1>3, <1>4, <1>5, <1>6, <1>7, <1>8 DEF Next, Step

\* A launch runs what its first look-up saw, whatever versions appear before it
\* is executed, and what it found is not missing then; that the newest is the
\* newest by Rank is the order of _version_key (workflows/templates.py:96-112,
\* 128-140, 192; client_pipeline/pipeline_engine.py:23-32).
THEOREM RunsWhatItFoundAlways == KeysRank => (Spec => []RunsWhatItFound)
<1> SUFFICES ASSUME KeysRank PROVE Spec => []RunsWhatItFound
  OBVIOUS
<1>1. Init => RInv
  BY DEF Init, RInv, FoundOK
<1>2. IInv /\ RInv => RunsWhatItFound
  <2> SUFFICES ASSUME IInv, RInv, NEW l \in Launches
               PROVE  /\ told[l] = "not found" => template[l] = NoTemplate
                      /\ definition[l] # NoTemplate =>
                           LET candidates == Matches(seen[l], request[l].reference)
                           IN /\ definition[l] \in candidates
                              /\ IF request[l].version # NoVersion
                                 THEN definition[l].version = request[l].version
                                 ELSE \A t \in candidates :
                                         Rank[t.version] <= Rank[definition[l].version]
    BY DEF RunsWhatItFound
  <2> DEFINE candidates == Matches(seen[l], request[l].reference)
  <2>1. told[l] = "not found" => template[l] = NoTemplate
    BY DEF RInv, FoundOK
  <2>2. definition[l] \in {NoTemplate, template[l]}
    BY AtLaunch DEF LaunchOK, EndOK, IInv, Typed, Labels
  <2>3. candidates \subseteq Templates
    BY DEF Matches, IInv, Typed
  <2>4. ASSUME definition[l] # NoTemplate
        PROVE  /\ definition[l] \in candidates
               /\ request[l].version # NoVersion =>
                     definition[l].version = request[l].version
               /\ request[l].version = NoVersion =>
                     \A t \in candidates : ~KeyBelow(definition[l].parts, t.parts)
    BY <2>2, <2>4 DEF RInv, FoundOK, Found
  <2>5. QED
    BY <2>1, <2>3, <2>4 DEF KeysRank
<1>3. QED
  BY <1>1, <1>2, NextRInv, Invariance, PTL DEF Spec
=============================================================================
