------------------------------ MODULE AtomicMap ------------------------------
(***************************************************************************)
(* What every JSON repository of bbi_os promises its callers: a map from   *)
(* record identifiers to records on which each call takes effect at one    *)
(* instant between its start and its return, or raises and has no effect.  *)
(* A crash of the process forgets the calls under way and keeps the map.   *)
(***************************************************************************)
CONSTANTS
    Threads,     \* request handler threads of the one server process
    Keys,        \* record identifiers
    Values,      \* serialised records
    NoRecord,    \* "no record under this identifier"
    NoCall       \* a thread that has no call under way

VARIABLES
    map,         \* the stored records
    phase,       \* of each thread: "idle", "called" or "returned"
    call,        \* the call of each thread
    result       \* what the call will return

vars == <<map, phase, call, result>>

Saves   == [op: {"save", "create"}, key: Keys, value: Values]
Deletes == [op: {"delete"}, key: Keys]
Gets    == [op: {"get", "peek"}, key: Keys]
Lists   == [op: {"list"}]
Writes  == Saves \cup Deletes
Reads   == Gets \cup Lists
Calls   == Writes \cup Reads

Contents == [Keys -> Values \cup {NoRecord}]

\* The map after a call that changes it.
Modified(m, c) ==
    IF c.op = "delete" THEN [m EXCEPT ![c.key] = NoRecord]
                       ELSE [m EXCEPT ![c.key] = c.value]

\* A write that finds nothing to do: the delete of an identifier the map does
\* not hold answers False, the create of one it holds raises.
Refuses(m, c) ==
    \/ c.op = "delete" /\ m[c.key] = NoRecord
    \/ c.op = "create" /\ m[c.key] # NoRecord

Done    == [kind |-> "done"]
Refused == [kind |-> "refused"]
Raised  == [kind |-> "raised"]
Pending == [kind |-> "pending"]
Found(v)  == [kind |-> "found", value |-> v]
Listed(m) == [kind |-> "listed", records |-> m]

Results ==
    {Done, Refused, Raised, Pending}
        \cup {Found(v) : v \in Values \cup {NoRecord}}
        \cup {Listed(m) : m \in Contents}

\* What a read returns when it takes effect on the map m.
Answer(m, c) ==
    IF c.op = "list" THEN Listed(m) ELSE Found(m[c.key])

Init ==
    /\ map    = [k \in Keys |-> NoRecord]
    /\ phase  = [t \in Threads |-> "idle"]
    /\ call   = [t \in Threads |-> NoCall]
    /\ result = [t \in Threads |-> Pending]

Call(t, c) ==
    /\ phase[t] = "idle"
    /\ phase'  = [phase EXCEPT ![t] = "called"]
    /\ call'   = [call EXCEPT ![t] = c]
    /\ result' = [result EXCEPT ![t] = Pending]
    /\ UNCHANGED map

Finish(t, r) ==
    /\ phase[t] = "called"
    /\ phase'  = [phase EXCEPT ![t] = "returned"]
    /\ result' = [result EXCEPT ![t] = r]
    /\ UNCHANGED call

ApplyRead(t) ==
    /\ call[t] \in Reads
    /\ Finish(t, Answer(map, call[t]))
    /\ UNCHANGED map

ApplyRefusal(t) ==
    /\ call[t] \in Writes
    /\ Refuses(map, call[t])
    /\ Finish(t, Refused)
    /\ UNCHANGED map

ApplyWrite(t) ==
    /\ call[t] \in Writes
    /\ ~Refuses(map, call[t])
    /\ map' = Modified(map, call[t])
    /\ Finish(t, Done)

\* The file system refused the write: the caller sees the exception.
ApplyNothing(t) ==
    /\ call[t] \in Writes
    /\ Finish(t, Raised)
    /\ UNCHANGED map

Return(t) ==
    /\ phase[t] = "returned"
    /\ phase'  = [phase EXCEPT ![t] = "idle"]
    /\ call'   = [call EXCEPT ![t] = NoCall]
    /\ result' = [result EXCEPT ![t] = Pending]
    /\ UNCHANGED map

Crash ==
    /\ phase'  = [t \in Threads |-> "idle"]
    /\ call'   = [t \in Threads |-> NoCall]
    /\ result' = [t \in Threads |-> Pending]
    /\ UNCHANGED map

Next ==
    \/ \E t \in Threads :
        \/ \E c \in Calls : Call(t, c)
        \/ ApplyRead(t)
        \/ ApplyRefusal(t)
        \/ ApplyWrite(t)
        \/ ApplyNothing(t)
        \/ Return(t)
    \/ Crash

Spec == Init /\ [][Next]_vars
=============================================================================
