------------------------------ MODULE JsonStore ------------------------------
(***************************************************************************)
(* The JSON repositories of bbi_os (entities, tasks, workflow definitions  *)
(* and instances, execution records, templates, plans, connectors, usage)  *)
(* share one implementation pattern, which this module models at the grain *)
(* at which threads interleave and the process can die:                    *)
(*                                                                         *)
(*    with self._lock:              Acquire                                *)
(*        records = self._read()    Read                                   *)
(*        records[key] = ...                                               *)
(*        self._write(records)      OpenTemp, FillTemp, Replace,           *)
(*                                  or WriteFails                          *)
(*                                  Release                                *)
(*                                                                         *)
(* A few readers take no lock (Peek).  One file is shared by all threads   *)
(* of the one server process; the lock and the threads die with it.        *)
(***************************************************************************)
EXTENDS Naturals, FiniteSets

CONSTANTS
    Threads, Keys, Values, NoRecord, NoCall,
    NoThread,    \* the lock is free
    NoFile,      \* a thread has no temporary file
    Partial,     \* a temporary file that is created and not yet synced
    MaxCrashes   \* bound on process crashes

ASSUME DistinctMarks ==
    /\ NoThread \notin Threads
    /\ NoRecord \notin Values
    /\ NoFile # Partial
    /\ {NoFile, Partial} \cap [Keys -> Values \cup {NoRecord}] = {}
ASSUME CrashBound == MaxCrashes \in Nat

VARIABLES
    file,        \* the repository's JSON file; the empty map when it is absent
    temps,       \* the temporary file of each thread
    strays,      \* temporary files that no thread will ever remove
    crashes,     \* process crashes so far (bounded by MaxCrashes)
    lock,        \* the thread that holds self._lock
    pc,          \* where each thread stands
    call,        \* its call
    records,     \* its local dictionary "records"
    result       \* what its call will return

vars == <<file, temps, strays, crashes, lock, pc, call, records, result>>

\* The operations and their meaning are those of the promise.
Promise == INSTANCE AtomicMap WITH
    map   <- file,
    phase <- [t \in Threads |->
                IF pc[t] \in {"releasing", "returned"} THEN "returned"
                ELSE IF pc[t] = "idle" THEN "idle" ELSE "called"]

Calls    == Promise!Calls
Writes   == Promise!Writes
Contents == Promise!Contents
Results  == Promise!Results

Empty == [k \in Keys |-> NoRecord]

Init ==
    /\ file    = Empty
    /\ temps   = [t \in Threads |-> NoFile]
    /\ strays  = 0
    /\ crashes = 0
    /\ lock    = NoThread
    /\ pc      = [t \in Threads |-> "idle"]
    /\ call    = [t \in Threads |-> NoCall]
    /\ records = [t \in Threads |-> Empty]
    /\ result  = [t \in Threads |-> Promise!Pending]

\* plan_for, get_connector and get_webhook read the file without the lock.
Locked(c) == c.op # "peek"

Goto(t, from, to) ==
    /\ pc[t] = from
    /\ pc' = [pc EXCEPT ![t] = to]

Answers(t, r) == result' = [result EXCEPT ![t] = r]

Start(t, c) ==
    /\ Goto(t, "idle", "called")
    /\ call' = [call EXCEPT ![t] = c]
    /\ Answers(t, Promise!Pending)
    /\ UNCHANGED <<file, temps, strays, crashes, lock, records>>

Peek(t) ==
    /\ Goto(t, "called", "returned")
    /\ ~Locked(call[t])
    /\ Answers(t, Promise!Answer(file, call[t]))
    /\ UNCHANGED <<file, temps, strays, crashes, lock, call, records>>

Acquire(t) ==
    /\ Goto(t, "called", "reading")
    /\ Locked(call[t])
    /\ lock = NoThread
    /\ lock' = t
    /\ UNCHANGED <<file, temps, strays, crashes, call, records, result>>

\* With a bug: a read answered from the dictionary of an earlier call.
ReadAnswersFromCache(t) ==
    /\ Goto(t, "reading", "releasing")
    /\ call[t] \notin Writes
    /\ Answers(t, Promise!Answer(records[t], call[t]))
    /\ UNCHANGED <<file, temps, strays, crashes, lock, call, records>>

ReadAnswers(t) ==
    /\ Goto(t, "reading", "releasing")
    /\ call[t] \notin Writes
    /\ Answers(t, Promise!Answer(file, call[t]))
    /\ UNCHANGED <<file, temps, strays, crashes, lock, call, records>>

\* delete returns False, create raises: neither reaches _write.
ReadRefuses(t) ==
    /\ Goto(t, "reading", "releasing")
    /\ call[t] \in Writes
    /\ Promise!Refuses(file, call[t])
    /\ Answers(t, Promise!Refused)
    /\ UNCHANGED <<file, temps, strays, crashes, lock, call, records>>

ReadModifies(t) ==
    /\ Goto(t, "reading", "writing")
    /\ call[t] \in Writes
    /\ ~Promise!Refuses(file, call[t])
    /\ records' = [records EXCEPT ![t] = Promise!Modified(file, call[t])]
    /\ UNCHANGED <<file, temps, strays, crashes, lock, call, result>>

OpenTemp(t) ==
    /\ Goto(t, "writing", "filling")
    /\ temps' = [temps EXCEPT ![t] = Partial]
    /\ UNCHANGED <<file, strays, crashes, lock, call, records, result>>

\* With a bug: the temporary file replaces the store before its content is there.
FillTempWithoutSync(t) ==
    /\ Goto(t, "filling", "replacing")
    /\ UNCHANGED <<file, temps, strays, crashes, lock, call, records, result>>

FillTemp(t) ==
    /\ Goto(t, "filling", "replacing")
    /\ temps' = [temps EXCEPT ![t] = records[t]]
    /\ UNCHANGED <<file, strays, crashes, lock, call, records, result>>

Replace(t) ==
    /\ Goto(t, "replacing", "releasing")
    /\ file'  = temps[t]
    /\ temps' = [temps EXCEPT ![t] = NoFile]
    /\ Answers(t, Promise!Done)
    /\ UNCHANGED <<strays, crashes, lock, call, records>>

\* With a bug: acquire and release in place of the with block.
WriteFailsKeepingLock(t) ==
    /\ pc[t] \in {"writing", "filling", "replacing"}
    /\ pc' = [pc EXCEPT ![t] = "returned"]
    /\ temps' = [temps EXCEPT ![t] = NoFile]
    /\ Answers(t, Promise!Raised)
    /\ UNCHANGED <<file, strays, crashes, lock, call, records>>

(***************************************************************************)
(* Any call of _write may raise (no space, permission): the handler        *)
(* removes the temporary file and re-raises.                               *)
(***************************************************************************)
WriteFails(t) ==
    /\ pc[t] \in {"writing", "filling", "replacing"}
    /\ pc' = [pc EXCEPT ![t] = "releasing"]
    /\ temps' = [temps EXCEPT ![t] = NoFile]
    /\ Answers(t, Promise!Raised)
    /\ UNCHANGED <<file, strays, crashes, lock, call, records>>

Release(t) ==
    /\ Goto(t, "releasing", "returned")
    /\ lock' = NoThread
    /\ UNCHANGED <<file, temps, strays, crashes, call, records, result>>

Return(t) ==
    /\ Goto(t, "returned", "idle")
    /\ call' = [call EXCEPT ![t] = NoCall]
    /\ Answers(t, Promise!Pending)
    /\ UNCHANGED <<file, temps, strays, crashes, lock, records>>

(***************************************************************************)
(* The process dies at any point.  The file keeps its last complete        *)
(* content; a temporary file that was open becomes a stray, since nothing  *)
(* in the code looks for one when the server starts again.                 *)
(***************************************************************************)
Crash ==
    /\ crashes < MaxCrashes
    /\ crashes' = crashes + 1
    /\ strays'  = strays + Cardinality({t \in Threads : temps[t] # NoFile})
    /\ temps'   = [t \in Threads |-> NoFile]
    /\ lock'    = NoThread
    /\ pc'      = [t \in Threads |-> "idle"]
    /\ call'    = [t \in Threads |-> NoCall]
    /\ records' = [t \in Threads |-> Empty]
    /\ result'  = [t \in Threads |-> Promise!Pending]
    /\ UNCHANGED file

Work(t) ==
    \/ Peek(t)
    \/ Acquire(t)
    \/ ReadAnswers(t)
    \/ ReadRefuses(t)
    \/ ReadModifies(t)
    \/ OpenTemp(t)
    \/ FillTemp(t)
    \/ Replace(t)
    \/ WriteFails(t)
    \/ Release(t)
    \/ Return(t)

Next ==
    \/ \E t \in Threads :
        \/ \E c \in Calls : Start(t, c)
        \/ Work(t)
    \/ Crash

\* A thread that can run does; nothing obliges a caller to call.
Fairness == \A t \in Threads : WF_vars(Work(t))

Spec     == Init /\ [][Next]_vars
FairSpec == Spec /\ Fairness

-----------------------------------------------------------------------------
PCs == {"idle", "called", "reading", "writing", "filling", "replacing",
        "releasing", "returned"}

\* Temporary files are left behind by crashes only, and at most one by each:
\* the exception handler of _write removes its own.
StraysOnlyFromCrashes == strays <= crashes

\* Every variable stays in its type; in particular the file is never a
\* partially written one, which _read would refuse to parse, and no more
\* temporary files are astray than crashes left behind.
TypeOK ==
    /\ file \in Contents
    /\ temps \in [Threads -> Contents \cup {NoFile, Partial}]
    /\ strays \in Nat /\ StraysOnlyFromCrashes
    /\ crashes \in 0..MaxCrashes
    /\ lock \in Threads \cup {NoThread}
    /\ pc \in [Threads -> PCs]
    /\ call \in [Threads -> Calls \cup {NoCall}]
    /\ records \in [Threads -> Contents]
    /\ result \in [Threads -> Results]

\* A repository call of one thread changes the record it names and no other:
\* the read-modify-write of the whole file never undoes the write of a
\* concurrent call (save and delete under self._lock).
OneRecordAtATime ==
    [][\E k \in Keys : \A j \in Keys \ {k} : file'[j] = file[j]]_file

\* create_connector and WorkflowTemplateRepository.create never overwrite a
\* version: of two creates of one identifier that both found it missing, the
\* second must still be refused.
CreateNeverOverwrites ==
    [][\A t \in Threads : \A k \in Keys :
         (pc[t] = "replacing" /\ pc'[t] = "releasing" /\ result'[t] = Promise!Done
            /\ call[t].op = "create" /\ call[t].key = k)
         => file[k] = NoRecord]_vars

\* The store keeps the promise of an atomic map.
ImplementsAtomicMap == Promise!Spec

\* The lock never stays held: whoever takes it reaches the end of the with
\* block, on the exception paths too.
LockIsReleased == (lock # NoThread) ~> (lock = NoThread)
=============================================================================
