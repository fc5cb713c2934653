----------------------------- MODULE TemplateLaunch ----------------------------
(***************************************************************************)
(* A workflow template is looked up, bound and run: WorkflowTemplate-      *)
(* Service.execute of bbi_os/workflows/templates.py, called by its own     *)
(* API, by the client pipeline (pipeline_engine.py) and by COS-002         *)
(* (client_execution/executor.py).  The last two look the template up      *)
(* first and execute what they found.  New versions appear meanwhile.      *)
(*                                                                         *)
(* The repositories are atomic maps (JsonStore shows they are) whose saves *)
(* may raise; a run of the engine is one step from its first save to its   *)
(* last (WorkflowEngine models it).  A launch writes under a fresh id of   *)
(* its own, so what it leaves is indexed by the launch.                    *)
(***************************************************************************)
EXTENDS Integers, Sequences, FiniteSets

CONSTANTS
    Launches,   \* requests that launch a template
    Templates,  \* that may be created: [id, name, version, parts, required, used, typed]
    Requests,   \* that may arrive: [caller, reference, version, given, mistyped, fault]
    Added,      \* the parameter each caller sets by default, as a set
    Rank,       \* what the order of the versions is meant to be
    MaxFaults   \* saves that raise, and crashes

Callers == {"api", "pipeline", "client"}
NoVersion == ""
NoTemplate == [id |-> "", name |-> "", version |-> NoVersion, parts |-> <<>>,
               required |-> {}, used |-> {}, typed |-> {}]

ASSUME LaunchAssumption ==
    /\ MaxFaults \in Nat
    /\ NoTemplate \notin Templates
    /\ \A t \in Templates : t.version # NoVersion
    /\ \A s, t \in Templates : s.id = t.id /\ s.version = t.version => s = t
    /\ \A r \in Requests :
          /\ DOMAIN r = {"caller", "reference", "version", "given", "mistyped", "fault"}
          /\ r.caller \in Callers /\ r.fault \in {"", "binding", "input"}

VARIABLES
    created,     \* the templates in the repository
    pc,          \* where each launch stands
    request,     \* what it was asked
    template,    \* the template it looked up
    seen,        \* the templates there were when it did
    definition,  \* the template its workflow definition was made from
    instance,    \* the execution_status of its instance
    lineage,     \* the template its lineage names
    told,        \* what its caller was told
    disturbed,   \* launches hit by a raising save or a crash
    faults       \* so far

vars == <<created, pc, request, template, seen, definition, instance, lineage,
          told, disturbed, faults>>
stored == <<definition, instance, lineage>>

Labels == {"idle", "resolve", "execute", "bind", "define", "trigger", "running",
           "record", "done"}
Tellings == {"", "completed", "failed", "invalid", "not found", "error", "nothing"}

NoRequest == [caller |-> "api", reference |-> "", version |-> NoVersion,
              given |-> {}, mistyped |-> {}, fault |-> ""]

Init ==
    /\ created \in SUBSET Templates
    /\ pc         = [l \in Launches |-> "idle"]
    /\ request    = [l \in Launches |-> NoRequest]
    /\ template   = [l \in Launches |-> NoTemplate]
    /\ seen       = [l \in Launches |-> {}]
    /\ definition = [l \in Launches |-> NoTemplate]
    /\ instance   = [l \in Launches |-> "none"]
    /\ lineage    = [l \in Launches |-> NoTemplate]
    /\ told       = [l \in Launches |-> ""]
    /\ disturbed  = {}
    /\ faults     = 0

-----------------------------------------------------------------------------
\* _version_key: a version is split in numbers and words; numbers compare as
\* integers, words come before numbers, and a prefix before what it begins.
\* A word is a negative number here, in alphabetical order.
KeyBelow(v, w) ==
    \E i \in 1..Len(w) :
        /\ \A j \in 1..(i - 1) : j <= Len(v) /\ v[j] = w[j]
        /\ i > Len(v) \/ (i <= Len(v) /\ v[i] < w[i])

\* The order of the keys is the order that is meant.
KeysRank ==
    \A s, t \in Templates :
        ~KeyBelow(s.parts, t.parts) => Rank[t.version] <= Rank[s.version]

\* A reference is an id or, if there is none, a name.
Matches(ts, reference) ==
    LET exact == {t \in ts : t.id = reference}
    IN IF exact # {} THEN exact ELSE {t \in ts : t.name = reference}

Ambiguous(ts, reference) ==
    \E s, t \in Matches(ts, reference) : s.id # t.id

\* WorkflowTemplateRepository.get: the version asked for, or the newest.
Found(ts, reference, version) ==
    {t \in Matches(ts, reference) :
        IF version # NoVersion THEN t.version = version
        ELSE ~\E u \in Matches(ts, reference) : KeyBelow(t.parts, u.parts)}

-----------------------------------------------------------------------------
At(l, label) == pc[l] = label
Goto(l, label) == pc' = [pc EXCEPT ![l] = label]

Tell(l, what) ==
    /\ told' = [told EXCEPT ![l] = what]
    /\ Goto(l, "done")

\* How each caller hears of an exception: the pipeline knows only a template
\* that is missing; COS-002 records a failed execution for any.
Hears(l, exception) ==
    CASE request[l].caller = "api"      -> exception
      [] request[l].caller = "pipeline" -> IF exception = "not found" THEN exception ELSE "failed"
      [] request[l].caller = "client"   -> "failed"

\* WorkflowTemplateService.create, of a version that is not there yet.
CreateTemplate(t) ==
    /\ t \notin created
    /\ created' = created \cup {t}
    /\ UNCHANGED <<pc, request, template, seen, stored, told, disturbed, faults>>

\* The pipeline and COS-002 look the template up before they execute it.
Ask(l) ==
    /\ At(l, "idle")
    /\ \E r \in Requests :
          /\ request' = [request EXCEPT ![l] = [r EXCEPT !.given = @ \cup Added[r.caller]]]
          /\ Goto(l, IF r.caller = "api" THEN "execute" ELSE "resolve")
    /\ UNCHANGED <<created, template, seen, stored, told, disturbed, faults>>

\* One get; it raises for a reference that is unknown or a name of two ids.
LookUp(l, reference, version, next) ==
    /\ \/ /\ Matches(created, reference) # {}
          /\ Ambiguous(created, reference)
          /\ Tell(l, Hears(l, "invalid"))
          /\ UNCHANGED template
       \/ /\ ~Ambiguous(created, reference)
          /\ Found(created, reference, version) = {}
          /\ Tell(l, Hears(l, "not found"))
          /\ UNCHANGED template
       \/ /\ ~Ambiguous(created, reference)
          /\ \E t \in Found(created, reference, version) :
                template' = [template EXCEPT ![l] = t]
          /\ Goto(l, next)
          /\ UNCHANGED told
    /\ UNCHANGED <<created, request, stored, disturbed, faults>>

Resolve(l) ==
    /\ At(l, "resolve")
    /\ LookUp(l, request[l].reference, request[l].version, "execute")
    /\ seen' = [seen EXCEPT ![l] = created]

\* With a bug: what was looked up is executed by its id alone.
ExecuteNewest(l) ==
    /\ At(l, "execute")
    /\ IF template[l] = NoTemplate
       THEN /\ LookUp(l, request[l].reference, request[l].version, "bind")
            /\ seen' = [seen EXCEPT ![l] = created]
       ELSE /\ LookUp(l, template[l].id, NoVersion, "bind")
            /\ UNCHANGED seen

\* The get of execute: of the request, or of exactly what was looked up.
Execute(l) ==
    /\ At(l, "execute")
    /\ IF template[l] = NoTemplate
       THEN /\ LookUp(l, request[l].reference, request[l].version, "bind")
            /\ seen' = [seen EXCEPT ![l] = created]
       ELSE /\ LookUp(l, template[l].id, template[l].version, "bind")
            /\ UNCHANGED seen

\* _validate_parameters and _bind: every required parameter and every
\* placeholder has a value, and a value of a declared type is of that type.
Bindable(t, r) ==
    /\ t.required \cup t.used \subseteq r.given
    /\ t.typed \cap r.mistyped = {}

\* Parameters are checked and bound before anything is written.
Bind(l) ==
    /\ At(l, "bind")
    /\ IF Bindable(template[l], request[l])
       THEN Goto(l, "define") /\ UNCHANGED told
       ELSE Tell(l, Hears(l, "invalid"))
    /\ UNCHANGED <<created, request, template, seen, stored, disturbed, faults>>

\* create_definition refuses steps that the bound values made invalid.
Define(l) ==
    /\ At(l, "define")
    /\ IF request[l].fault = "binding"
       THEN Tell(l, Hears(l, "error")) /\ UNCHANGED definition
       ELSE /\ definition' = [definition EXCEPT ![l] = template[l]]
            /\ Goto(l, "trigger") /\ UNCHANGED told
    /\ UNCHANGED <<created, request, template, seen, instance, lineage, disturbed, faults>>

\* With a bug: the new instance is not saved before it runs.
TriggerUnsaved(l) ==
    /\ At(l, "trigger")
    /\ Goto(l, "running")
    /\ UNCHANGED <<created, request, template, seen, stored, told, disturbed, faults>>

\* trigger copies the input, which fails when it is not an object: the
\* definition is saved by then.
Trigger(l) ==
    /\ At(l, "trigger")
    /\ IF request[l].fault = "input"
       THEN Tell(l, Hears(l, "error")) /\ UNCHANGED instance
       ELSE /\ instance' = [instance EXCEPT ![l] = "running"]
            /\ Goto(l, "running") /\ UNCHANGED told
    /\ UNCHANGED <<created, request, template, seen, definition, lineage, disturbed, faults>>

\* With a bug: the lineage is saved for runs that completed only.
RunEndsEarly(l) ==
    /\ At(l, "running")
    /\ \/ /\ instance' = [instance EXCEPT ![l] = "completed"]
          /\ Goto(l, "record") /\ UNCHANGED told
       \/ /\ instance' = [instance EXCEPT ![l] = "failed"]
          /\ Tell(l, "failed")
    /\ UNCHANGED <<created, request, template, seen, definition, lineage, disturbed, faults>>

\* _execute returns the instance, completed or failed.
RunEnds(l) ==
    /\ At(l, "running")
    /\ \E outcome \in {"completed", "failed"} :
          instance' = [instance EXCEPT ![l] = outcome]
    /\ Goto(l, "record")
    /\ UNCHANGED <<created, request, template, seen, definition, lineage, told, disturbed, faults>>

\* save_lineage and the answer: pipeline and COS-002 turn a failed instance
\* into a failure of their own.
Record(l) ==
    /\ At(l, "record")
    /\ lineage' = [lineage EXCEPT ![l] = template[l]]
    /\ Tell(l, instance[l])
    /\ UNCHANGED <<created, request, template, seen, definition, instance, disturbed, faults>>

\* A save raises, of the definition, in the engine or of the lineage: what was
\* saved before stays.
SaveRaises(l) ==
    /\ pc[l] \in {"define", "trigger", "running", "record"}
    /\ faults < MaxFaults
    /\ faults' = faults + 1
    /\ disturbed' = disturbed \cup {l}
    /\ Tell(l, Hears(l, "error"))
    /\ UNCHANGED <<created, request, template, seen, stored>>

\* The process dies: nobody is told anything.
Crash ==
    /\ faults < MaxFaults
    /\ faults' = faults + 1
    /\ LET cut == {l \in Launches : pc[l] \notin {"idle", "done"}}
       IN /\ cut # {}
          /\ disturbed' = disturbed \cup cut
          /\ pc' = [l \in Launches |-> IF l \in cut THEN "done" ELSE pc[l]]
          /\ told' = [l \in Launches |-> IF l \in cut THEN "nothing" ELSE told[l]]
    /\ UNCHANGED <<created, request, template, seen, stored>>

Step(l) ==
    \/ Ask(l) \/ Resolve(l) \/ Execute(l) \/ Bind(l) \/ Define(l) \/ Trigger(l)
    \/ RunEnds(l) \/ Record(l) \/ SaveRaises(l)

Next ==
    \/ \E t \in Templates : CreateTemplate(t)
    \/ \E l \in Launches : Step(l)
    \/ Crash

Spec == Init /\ [][Next]_vars

-----------------------------------------------------------------------------
\* Every variable has its type, and every launch stands where what it has
\* stored lets it stand: an instance is saved before it runs (engine.py:64-65).
TypeOK ==
    /\ created \subseteq Templates
    /\ \A l \in Launches :
          /\ pc[l] \in Labels /\ told[l] \in Tellings
          /\ template[l] \in Templates \cup {NoTemplate}
          /\ seen[l] \subseteq created
          /\ definition[l] \in {NoTemplate, template[l]}
          /\ lineage[l] \in {NoTemplate, template[l]}
          /\ instance[l] \in {"none", "running", "completed", "failed"}
          /\ pc[l] \in {"idle", "resolve", "execute", "bind", "define", "trigger"}
                => instance[l] = "none"
          /\ pc[l] = "running" => instance[l] = "running"
          /\ pc[l] = "record"  => instance[l] \in {"completed", "failed"}
    /\ disturbed \subseteq Launches
    /\ faults \in 0..MaxFaults

\* What runs is what the first look-up saw: the version asked for, or the
\* newest by Rank of those there were, whatever versions appear before it is
\* executed; and a template that was found is not missing at the second look-up
\* (templates.py:192, pipeline_engine.py:23-32, executor.py:29 and 48).
RunsWhatItFound ==
    \A l \in Launches :
        /\ told[l] = "not found" => template[l] = NoTemplate
        /\ definition[l] # NoTemplate =>
              LET candidates == Matches(seen[l], request[l].reference)
              IN /\ definition[l] \in candidates
                 /\ IF request[l].version # NoVersion
                    THEN definition[l].version = request[l].version
                    ELSE \A t \in candidates : Rank[t.version] <= Rank[definition[l].version]

\* What a launch leaves is a chain: a lineage names the template of the
\* definition whose instance has ended, an ended instance has its lineage, and
\* a definition its instance, unless the launch was disturbed or its input was
\* refused (templates.py:198-217).
TrailIsComplete ==
    \A l \in Launches :
        /\ lineage[l] # NoTemplate =>
              instance[l] \in {"completed", "failed"} /\ lineage[l] = definition[l]
        /\ instance[l] # "none" => definition[l] # NoTemplate
        /\ pc[l] = "done" /\ l \notin disturbed =>
              /\ instance[l] # "none" => lineage[l] # NoTemplate
              /\ definition[l] # NoTemplate /\ instance[l] = "none"
                    => request[l].fault = "input"

\* A request refused for its template or its parameters leaves nothing behind
\* (templates.py:192-194 before 198).
RefusedLeavesNothing ==
    \A l \in Launches :
        told[l] \in {"invalid", "not found"} =>
            definition[l] = NoTemplate /\ instance[l] = "none" /\ lineage[l] = NoTemplate

\* The caller hears "completed" exactly when the instance completed; work that
\* completed is reported as failed only to a launch whose later save raised, and
\* a launch that was not disturbed is always answered (pipeline_engine.py:33-38).
OutcomeIsTold ==
    \A l \in Launches :
        /\ told[l] = "completed" => instance[l] = "completed" /\ lineage[l] # NoTemplate
        /\ pc[l] = "done" /\ l \notin disturbed =>
              /\ told[l] # "nothing"
              /\ instance[l] = "completed" <=> told[l] = "completed"
              /\ told[l] = "error" => request[l].fault # ""

\* What a launch leaves behind and what its caller hears agree: the three
\* statements above.
TrailIsHonest == TrailIsComplete /\ RefusedLeavesNothing /\ OutcomeIsTold
=============================================================================
