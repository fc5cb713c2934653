--------------------------- MODULE JsonStoreProofs ---------------------------
(***************************************************************************)
(* Theorems about JsonStore for any number of threads, records and values  *)
(* and any number of crashes.  The inductive invariant says who is inside  *)
(* the lock and that what a writer holds in "records" is still the file    *)
(* with its own change applied: that is why replacing the whole file loses *)
(* nobody's write.                                                         *)
(***************************************************************************)
EXTENDS JsonStore, TLAPS, FiniteSetTheorems

Inside  == {"reading", "writing", "filling", "replacing", "releasing"}
Writing == {"writing", "filling", "replacing"}

\* The thread that holds the lock is the one inside the with block.
LockOwner == \A t \in Threads : pc[t] \in Inside <=> lock = t

\* A thread outside "idle" has a call; one that is idle has none.
CallUnderWay == \A t \in Threads : pc[t] # "idle" => call[t] \in Calls

\* What a writer is about to install is the current file with its change.
WriterIsCurrent ==
    \A t \in Threads : pc[t] \in Writing =>
        /\ call[t] \in Writes
        /\ ~Promise!Refuses(file, call[t])
        /\ records[t] = Promise!Modified(file, call[t])

\* Temporary files exist only while a thread writes, and are whole when it
\* comes to replace the file.
TempIsMine ==
    \A t \in Threads :
        /\ temps[t] # NoFile => pc[t] \in {"filling", "replacing"}
        /\ pc[t] = "replacing" => temps[t] = records[t]

IInv ==
    /\ TypeOK
    /\ LockOwner
    /\ CallUnderWay
    /\ WriterIsCurrent
    /\ TempIsMine

-----------------------------------------------------------------------------
\* A write keeps the contents of the store well typed.
LEMMA ModifiedType ==
    ASSUME NEW m \in Contents, NEW c \in Writes
    PROVE  Promise!Modified(m, c) \in Contents
BY DEF Contents, Writes, Promise!Contents, Promise!Writes, Promise!Saves,
       Promise!Deletes, Promise!Modified

\* What a read answers is a result.
LEMMA AnswerType ==
    ASSUME NEW m \in Contents, NEW c \in Calls, c \notin Writes
    PROVE  Promise!Answer(m, c) \in Results
BY DEF Contents, Writes, Calls, Results, Promise!Contents, Promise!Writes,
       Promise!Calls, Promise!Reads, Promise!Gets, Promise!Lists,
       Promise!Answer, Promise!Results, Promise!Found, Promise!Listed

\* A write takes the lock.
LEMMA WritesAreLocked ==
    ASSUME NEW c \in Writes
    PROVE  Locked(c)
BY DEF Writes, Locked, Promise!Writes, Promise!Saves, Promise!Deletes

LEMMA InitIInv == Init => IInv
<1> SUFFICES ASSUME Init PROVE IInv
  OBVIOUS
<1>1. TypeOK
  BY CrashBound DEF Init, TypeOK, StraysOnlyFromCrashes, Empty, Contents, Promise!Contents, PCs,
     Results, Promise!Results
<1>2. QED
  BY <1>1, DistinctMarks DEF Init, IInv, LockOwner, CallUnderWay,
     WriterIsCurrent, TempIsMine, Inside, Writing

\* Every step of the store keeps the invariant.
LEMMA NextIInv == IInv /\ [Next]_vars => IInv'
<1> SUFFICES ASSUME IInv, [Next]_vars PROVE IInv'
  OBVIOUS
<1> USE DEF IInv, TypeOK, LockOwner, CallUnderWay, WriterIsCurrent, TempIsMine,
            StraysOnlyFromCrashes, Inside, Writing, PCs
<1>1. ASSUME NEW t \in Threads, NEW c \in Calls, Start(t, c)
      PROVE  IInv'
  BY <1>1 DEF Start, Goto, Answers, Results, Promise!Results
<1>2. ASSUME NEW t \in Threads, Peek(t)
      PROVE  IInv'
  <2>1. call[t] \in Calls /\ call[t] \notin Writes
    BY <1>2, WritesAreLocked DEF Peek, Goto
  <2>2. QED
    BY <1>2, <2>1, AnswerType DEF Peek, Goto, Answers
<1>3. ASSUME NEW t \in Threads, Acquire(t)
      PROVE  IInv'
  BY <1>3, DistinctMarks DEF Acquire, Goto
<1>4. ASSUME NEW t \in Threads, ReadAnswers(t)
      PROVE  IInv'
  <2>1. call[t] \in Calls
    BY <1>4 DEF ReadAnswers, Goto
  <2>2. QED
    BY <1>4, <2>1, AnswerType DEF ReadAnswers, Goto, Answers
<1>5. ASSUME NEW t \in Threads, ReadRefuses(t)
      PROVE  IInv'
  BY <1>5 DEF ReadRefuses, Goto, Answers, Results, Promise!Results
<1>6. ASSUME NEW t \in Threads, ReadModifies(t)
      PROVE  IInv'
  BY <1>6, ModifiedType DEF ReadModifies, Goto
<1>7. ASSUME NEW t \in Threads, OpenTemp(t)
      PROVE  IInv'
  BY <1>7 DEF OpenTemp, Goto
<1>8. ASSUME NEW t \in Threads, FillTemp(t)
      PROVE  IInv'
  BY <1>8 DEF FillTemp, Goto
<1>9. ASSUME NEW t \in Threads, Replace(t)
      PROVE  IInv'
  BY <1>9 DEF Replace, Goto, Answers, Results, Promise!Results
<1>10. ASSUME NEW t \in Threads, WriteFails(t)
       PROVE  IInv'
  BY <1>10 DEF WriteFails, Answers, Results, Promise!Results
<1>11. ASSUME NEW t \in Threads, Release(t)
       PROVE  IInv'
  BY <1>11, DistinctMarks DEF Release, Goto
<1>12. ASSUME NEW t \in Threads, Return(t)
       PROVE  IInv'
  BY <1>12 DEF Return, Goto, Answers, Results, Promise!Results
<1>13. ASSUME Crash
       PROVE  IInv'
  <2> DEFINE open == {t \in Threads : temps[t] # NoFile}
  <2>1. open = {} \/ \E t \in Threads : open = {t}
    OBVIOUS
  <2>2. Cardinality(open) \in {0, 1}
    BY <2>1, FS_EmptySet, FS_Singleton
  <2>3. strays' \in Nat /\ strays' <= crashes' /\ crashes' \in 0..MaxCrashes
    BY <1>13, <2>2, CrashBound DEF Crash
  <2>4. QED
    BY <1>13, <2>3, DistinctMarks DEF Crash, Empty, Contents, Promise!Contents,
       Results, Promise!Results
<1>14. CASE UNCHANGED vars
  BY <1>14 DEF vars
<1>15. QED
  BY <1>1, <1>2, <1>3, <1>4, <1>5, <1>6, <1>7, <1>8, <1>9, <1>10, <1>11,
     <1>12, <1>13, <1>14 DEF Next, Work

\* In every state of every behaviour the invariant holds.
THEOREM Invariance == Spec => []IInv
BY InitIInv, NextIInv, PTL DEF Spec

\* Type correctness: among others, the file is never partially written.
THEOREM TypeCorrect == Spec => []TypeOK
BY Invariance, PTL DEF IInv

\* A failed write leaves no temporary file; a crash leaves at most one.
THEOREM StraysAreFromCrashes == Spec => []StraysOnlyFromCrashes
BY Invariance, PTL DEF IInv, TypeOK

-----------------------------------------------------------------------------
\* Only Replace changes the file, and it installs the current content with the
\* change of the one call that holds the lock.
LEMMA FileStep ==
    ASSUME IInv, [Next]_vars, file' # file
    PROVE  \E t \in Threads :
              /\ Replace(t)
              /\ call[t] \in Writes
              /\ ~Promise!Refuses(file, call[t])
              /\ file' = Promise!Modified(file, call[t])
<1>1. PICK t \in Threads : Replace(t)
  BY DEF Next, Work, Start, Peek, Acquire, ReadAnswers, ReadRefuses,
     ReadModifies, OpenTemp, FillTemp, WriteFails, Release, Return, Crash, vars
<1>2. QED
  BY <1>1 DEF Replace, Goto, IInv, WriterIsCurrent, TempIsMine, Writing

\* A write changes the record it names and no other one, whatever the other
\* threads read before it: no update is lost.
THEOREM NoLostUpdate == Spec => OneRecordAtATime
<1>1. IInv /\ [Next]_vars =>
        [\E k \in Keys : \A j \in Keys \ {k} : file'[j] = file[j]]_file
  <2> SUFFICES ASSUME IInv, [Next]_vars, file' # file
               PROVE  \E k \in Keys : \A j \in Keys \ {k} : file'[j] = file[j]
    OBVIOUS
  <2>1. PICK t \in Threads : /\ call[t] \in Writes
                             /\ file' = Promise!Modified(file, call[t])
    BY FileStep
  <2>2. call[t].key \in Keys
    BY <2>1 DEF Writes, Promise!Writes, Promise!Saves, Promise!Deletes
  <2>3. \A j \in Keys \ {call[t].key} : file'[j] = file[j]
    BY <2>1, <2>2 DEF Promise!Modified, IInv, TypeOK, Contents,
       Promise!Contents
  <2>4. QED
    BY <2>2, <2>3
<1>2. QED
  BY <1>1, Invariance, PTL DEF Spec, OneRecordAtATime

\* A create that succeeds found its identifier unused at the instant it took
\* effect, so a stored version is never replaced by a second create.
THEOREM CreateIsExclusive == Spec => CreateNeverOverwrites
<1> DEFINE Exclusive ==
      \A t \in Threads : \A k \in Keys :
         (pc[t] = "replacing" /\ pc'[t] = "releasing" /\ result'[t] = Promise!Done
            /\ call[t].op = "create" /\ call[t].key = k)
         => file[k] = NoRecord
<1>1. IInv /\ [Next]_vars => [Exclusive]_vars
  BY DEF IInv, WriterIsCurrent, Writing, Promise!Refuses
<1>2. QED
  BY <1>1, Invariance, PTL DEF Spec, CreateNeverOverwrites

-----------------------------------------------------------------------------
(***************************************************************************)
(* The store implements the atomic map.  A read takes effect when it reads *)
(* the file, a write when it replaces it, a refusal when it reads; every   *)
(* other step is invisible.                                                *)
(***************************************************************************)
LEMMA InitRefines == Init => Promise!Init
BY DEF Init, Promise!Init, Empty

LEMMA StepRefines == IInv /\ [Next]_vars => [Promise!Next]_(Promise!vars)
<1> SUFFICES ASSUME IInv, [Next]_vars
             PROVE  Promise!Next \/ UNCHANGED Promise!vars
  OBVIOUS
<1> USE DEF IInv, TypeOK, Promise!vars
<1>1. ASSUME NEW t \in Threads, NEW c \in Calls, Start(t, c)
      PROVE  Promise!Next
  <2>1. Promise!Call(t, c)
    BY <1>1 DEF Start, Goto, Answers, Promise!Call
  <2>2. QED
    BY <2>1 DEF Promise!Next, Calls
<1>2. ASSUME NEW t \in Threads, Peek(t)
      PROVE  Promise!Next
  <2>1. call[t] \in Promise!Reads
    BY <1>2, WritesAreLocked DEF Peek, Goto, CallUnderWay, Calls, Writes,
       Promise!Calls
  <2>2. Promise!ApplyRead(t)
    BY <1>2, <2>1 DEF Peek, Goto, Answers, Promise!ApplyRead, Promise!Finish
  <2>3. QED
    BY <2>2 DEF Promise!Next
<1>3. ASSUME NEW t \in Threads, Acquire(t)
      PROVE  UNCHANGED Promise!vars
  BY <1>3 DEF Acquire, Goto
<1>4. ASSUME NEW t \in Threads, ReadAnswers(t)
      PROVE  Promise!Next
  <2>1. call[t] \in Promise!Reads
    BY <1>4 DEF ReadAnswers, Goto, CallUnderWay, Calls, Writes, Promise!Calls
  <2>2. Promise!ApplyRead(t)
    BY <1>4, <2>1 DEF ReadAnswers, Goto, Answers, Promise!ApplyRead,
       Promise!Finish
  <2>3. QED
    BY <2>2 DEF Promise!Next
<1>5. ASSUME NEW t \in Threads, ReadRefuses(t)
      PROVE  Promise!Next
  <2>1. Promise!ApplyRefusal(t)
    BY <1>5 DEF ReadRefuses, Goto, Answers, Writes, Promise!ApplyRefusal,
       Promise!Finish
  <2>2. QED
    BY <2>1 DEF Promise!Next
<1>6. ASSUME NEW t \in Threads, ReadModifies(t)
      PROVE  UNCHANGED Promise!vars
  BY <1>6 DEF ReadModifies, Goto
<1>7. ASSUME NEW t \in Threads, OpenTemp(t)
      PROVE  UNCHANGED Promise!vars
  BY <1>7 DEF OpenTemp, Goto
<1>8. ASSUME NEW t \in Threads, FillTemp(t)
      PROVE  UNCHANGED Promise!vars
  BY <1>8 DEF FillTemp, Goto
<1>9. ASSUME NEW t \in Threads, Replace(t)
      PROVE  Promise!Next
  <2>1. /\ call[t] \in Writes
        /\ ~Promise!Refuses(file, call[t])
        /\ file' = Promise!Modified(file, call[t])
    BY <1>9 DEF Replace, Goto, WriterIsCurrent, TempIsMine, Writing
  <2>2. Promise!ApplyWrite(t)
    BY <1>9, <2>1 DEF Replace, Goto, Answers, Writes, Promise!ApplyWrite,
       Promise!Finish
  <2>3. QED
    BY <2>2 DEF Promise!Next
<1>10. ASSUME NEW t \in Threads, WriteFails(t)
       PROVE  Promise!Next
  <2>1. Promise!ApplyNothing(t)
    BY <1>10 DEF WriteFails, Answers, WriterIsCurrent, Writing, Writes,
       Promise!ApplyNothing, Promise!Finish
  <2>2. QED
    BY <2>1 DEF Promise!Next
<1>11. ASSUME NEW t \in Threads, Release(t)
       PROVE  UNCHANGED Promise!vars
  BY <1>11 DEF Release, Goto
<1>12. ASSUME NEW t \in Threads, Return(t)
       PROVE  Promise!Next
  <2>1. Promise!Return(t)
    BY <1>12 DEF Return, Goto, Answers, Promise!Return
  <2>2. QED
    BY <2>1 DEF Promise!Next
<1>13. ASSUME Crash
       PROVE  Promise!Next
  BY <1>13 DEF Crash, Promise!Next, Promise!Crash
<1>14. CASE UNCHANGED vars
  BY <1>14 DEF vars
<1>15. QED
  BY <1>1, <1>2, <1>3, <1>4, <1>5, <1>6, <1>7, <1>8, <1>9, <1>10, <1>11,
     <1>12, <1>13, <1>14 DEF Next, Work

\* Every behaviour of the store is one of the atomic map.
THEOREM StoreImplementsMap == Spec => ImplementsAtomicMap
BY InitRefines, StepRefines, Invariance, PTL
   DEF Spec, ImplementsAtomicMap, Promise!Spec

-----------------------------------------------------------------------------
\* How many steps of its own thread t has left at most before its call is over.
Left(t) ==
    CASE pc[t] = "idle"      -> 0
      [] pc[t] = "returned"  -> 1
      [] pc[t] = "releasing" -> 2
      [] pc[t] = "replacing" -> 3
      [] pc[t] = "filling"   -> 4
      [] pc[t] = "writing"   -> 5
      [] pc[t] = "reading"   -> 6
      [] pc[t] = "called"    -> 7

RunsDown ==
    \A t \in Threads : /\ Left(t) \in 0..7
                       /\ lock = t => Left(t) \in 2..6
                       /\ pc[t] # "idle" => Left(t)' <= Left(t)
                       /\ Work(t) => Left(t)' < Left(t)

\* Every step of a call, a failing one included, brings its end nearer, and no
\* step of another thread and no crash puts it off; so the thread inside the
\* with block leaves it after at most five steps of its own
\* (entity_repository.py:50-67, 96-113).
THEOREM CallsRunDown == Spec => [][RunsDown]_vars
<1>1. ASSUME IInv, Next, NEW t \in Threads
      PROVE  /\ Left(t) \in 0..7
             /\ lock = t => Left(t) \in 2..6
             /\ pc[t] # "idle" => Left(t)' <= Left(t)
             /\ Work(t) => Left(t)' < Left(t)
  <2>1. pc[t] \in PCs /\ pc \in [Threads -> PCs] /\ (lock = t => pc[t] \in Inside)
    BY <1>1 DEF IInv, TypeOK, LockOwner
  <2>2. Left(t) \in 0..7 /\ (lock = t => Left(t) \in 2..6)
    BY <2>1 DEF Left, PCs, Inside
  <2>3. ASSUME pc'[t] = pc[t] PROVE Left(t)' = Left(t)
    BY <2>3 DEF Left
  <2>4. ASSUME Peek(t) \/ Acquire(t) \/ Release(t) \/ Return(t) PROVE Left(t)' < Left(t)
    BY <2>1, <2>4 DEF Peek, Acquire, Release, Return, Goto, Left
  <2>5. ASSUME ReadAnswers(t) \/ ReadRefuses(t) \/ ReadModifies(t) PROVE Left(t)' < Left(t)
    BY <2>1, <2>5 DEF ReadAnswers, ReadRefuses, ReadModifies, Goto, Left
  <2>6. ASSUME OpenTemp(t) \/ FillTemp(t) \/ Replace(t) PROVE Left(t)' < Left(t)
    BY <2>1, <2>6 DEF OpenTemp, FillTemp, Replace, Goto, Left
  <2>7. ASSUME WriteFails(t) PROVE Left(t)' < Left(t)
    BY <2>1, <2>7 DEF WriteFails, Left
  <2>8. ASSUME Work(t) PROVE Left(t)' < Left(t)
    BY <2>4, <2>5, <2>6, <2>7, <2>8 DEF Work
  <2>9. ASSUME NEW u \in Threads, u # t, Work(u) \/ \E c \in Calls : Start(u, c)
        PROVE  pc'[t] = pc[t]
    BY <2>1, <2>9 DEF Work, Start, Peek, Acquire, ReadAnswers, ReadRefuses, ReadModifies,
       OpenTemp, FillTemp, Replace, WriteFails, Release, Return, Goto
  <2>10. ASSUME pc[t] # "idle", \E c \in Calls : Start(t, c) PROVE FALSE
    BY <2>10 DEF Start, Goto
  <2>11. ASSUME Crash PROVE Left(t)' = 0
    BY <2>11 DEF Crash, Left
  <2>12. ASSUME pc[t] # "idle" PROVE Left(t)' <= Left(t)
    <3>1. Work(t) \/ pc'[t] = pc[t] \/ Crash
      BY <1>1, <2>9, <2>10, <2>12 DEF Next
    <3>2. Work(t) => Left(t)' \in Nat
      <4>1. ASSUME Work(t) PROVE pc'[t] \in PCs
        BY <1>1, <4>1, NextIInv DEF Next, IInv, TypeOK
      <4>2. QED
        BY <4>1 DEF Left, PCs
    <3>3. QED
      BY <2>2, <2>3, <2>8, <2>11, <3>1, <3>2
  <2>13. QED
    BY <2>2, <2>8, <2>12
<1>2. IInv /\ [Next]_vars => [RunsDown]_vars
  BY <1>1 DEF RunsDown
<1>3. QED
  BY <1>2, Invariance, PTL DEF Spec
=============================================================================
