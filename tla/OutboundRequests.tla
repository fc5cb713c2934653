--------------------------- MODULE OutboundRequests ---------------------------
(***************************************************************************)
(* bbi_os/integrations/outbound.py: a call of a connector is sent over     *)
(* HTTP and sent again when the server answers 5xx, does not answer in     *)
(* time, or cannot be reached.  Caller and server run at the same time:    *)
(* a request whose caller has stopped waiting is still under way and may   *)
(* take effect later.                                                      *)
(*                                                                         *)
(* The server and the network are not part of the repository; they are     *)
(* modelled by what urlopen can report of them.  What is refused before    *)
(* the first attempt (lines 94-109) is never sent and left out.  A         *)
(* redirect, which urlopen follows within one attempt and as a GET, is     *)
(* part of what the server does with the request.                          *)
(***************************************************************************)
EXTENDS Naturals, Sequences, FiniteSets

CONSTANTS
    Calls,      \* calls of OutboundRequestEngine.execute, one thread each
    MaxRetries  \* max_retries

ASSUME RetriesAssumption == MaxRetries \in 0..3

VARIABLES
    pc,        \* where each call stands
    attempt,   \* the attempt of the loop, from 0
    network,   \* requests that have not been served yet: <<call, attempt>>
    reply,     \* the answer on the connection of a call
    logged,    \* the "external_request" events of each call, by status
    result,    \* what execute returned or raised
    executed   \* how often the server did what each call asks for

vars == <<pc, attempt, network, reply, logged, result, executed>>

\* What a status code, and the body of a 2xx, mean to the loop.
Answers  == {"ok", "ok invalid", "refused", "server error"}
Statuses == {"retrying", "success", "failure", "timeout"}
Results  == {"success", "failed", "timed out", "raised"}

Init ==
    /\ pc       = [c \in Calls |-> "idle"]
    /\ attempt  = [c \in Calls |-> 0]
    /\ network  = {}
    /\ reply    = [c \in Calls |-> "none"]
    /\ logged   = [c \in Calls |-> <<>>]
    /\ result   = [c \in Calls |-> "none"]
    /\ executed = [c \in Calls |-> 0]

At(c, label) == pc[c] = label
Goto(c, label) == pc' = [pc EXCEPT ![c] = label]

Log(c, status) == logged' = [logged EXCEPT ![c] = Append(@, status)]

\* continue: the next attempt of the loop, on a new connection.
Again(c) ==
    /\ attempt[c] < MaxRetries
    /\ attempt' = [attempt EXCEPT ![c] = @ + 1]
    /\ reply' = [reply EXCEPT ![c] = "none"]
    /\ Goto(c, "attempt")
    /\ UNCHANGED result

\* return or raise.
End(c, outcome) ==
    /\ result' = [result EXCEPT ![c] = outcome]
    /\ reply' = [reply EXCEPT ![c] = "none"]
    /\ Goto(c, "done")
    /\ UNCHANGED attempt

LastAttempt(c) == attempt[c] = MaxRetries

-----------------------------------------------------------------------------
Call(c) ==
    /\ At(c, "idle")
    /\ Goto(c, "attempt")
    /\ UNCHANGED <<attempt, network, reply, logged, result, executed>>

Send(c) ==
    /\ At(c, "attempt")
    /\ network' = network \cup {<<c, attempt[c]>>}
    /\ Goto(c, "waiting")
    /\ UNCHANGED <<attempt, reply, logged, result, executed>>

\* URLError: there was no connection, or sending broke and the request may be
\* under way all the same.  Only the last one is logged.
Unreachable(c) ==
    /\ pc[c] \in {"attempt", "waiting"}
    /\ \/ Again(c) /\ UNCHANGED logged
       \/ LastAttempt(c) /\ Log(c, "failure") /\ End(c, "failed")
    /\ UNCHANGED <<network, executed>>

\* With a bug: the last attempt is made again and again.
TimesOutForever(c) ==
    /\ At(c, "waiting")
    /\ \/ Log(c, "retrying") /\ Again(c)
       \/ /\ LastAttempt(c)
          /\ Goto(c, "attempt")
          /\ UNCHANGED <<attempt, reply, logged, result>>
    /\ UNCHANGED <<network, executed>>

\* TimeoutError, wherever the request and its answer are by then.
TimesOut(c) ==
    /\ At(c, "waiting")
    /\ \/ Log(c, "retrying") /\ Again(c)
       \/ LastAttempt(c) /\ Log(c, "timeout") /\ End(c, "timed out")
    /\ UNCHANGED <<network, executed>>

\* Any other exception of the transport (a reset, a cut answer, an answer
\* over the size limit) leaves the loop at once and unlogged.
Breaks(c) ==
    /\ At(c, "waiting")
    /\ End(c, "raised")
    /\ UNCHANGED <<network, logged, executed>>

\* With a bug: an answer is taken for a success before its code is looked at.
ReceiveAnything(c) ==
    /\ At(c, "waiting")
    /\ reply[c] # "none"
    /\ Log(c, "success") /\ End(c, "success")
    /\ UNCHANGED <<network, executed>>

\* With a bug: a 2xx whose body does not fit the schema is asked for again.
ReceiveUntilValid(c) ==
    /\ At(c, "waiting")
    /\ \/ /\ reply[c] \in {"server error", "ok invalid"}
          /\ Log(c, "retrying")
          /\ attempt' = [attempt EXCEPT ![c] = @ + 1]
          /\ reply' = [reply EXCEPT ![c] = "none"]
          /\ Goto(c, "attempt")
          /\ UNCHANGED result
       \/ reply[c] = "ok" /\ Log(c, "success") /\ End(c, "success")
    /\ UNCHANGED <<network, executed>>

(***************************************************************************)
(* The answer arrives: a 5xx is retried while there are attempts left; of  *)
(* the others a 2xx with a valid body is a success, one with an invalid    *)
(* body raises unlogged, the rest is logged as a failure and raises.       *)
(***************************************************************************)
Receive(c) ==
    /\ At(c, "waiting")
    /\ \/ reply[c] = "server error" /\ Log(c, "retrying") /\ Again(c)
       \/ /\ reply[c] = "refused" \/ (reply[c] = "server error" /\ LastAttempt(c))
          /\ Log(c, "failure")
          /\ End(c, "failed")
       \/ reply[c] = "ok invalid" /\ End(c, "failed") /\ UNCHANGED logged
       \/ reply[c] = "ok" /\ Log(c, "success") /\ End(c, "success")
    /\ UNCHANGED <<network, executed>>

(***************************************************************************)
(* The server takes a request: an answer of 2xx says that it did what was  *)
(* asked, a 4xx that it did not, a 5xx says nothing.  The answer is lost   *)
(* when the caller no longer waits on that connection.                     *)
(***************************************************************************)
Serve(c, a, answer, does) ==
    /\ <<c, a>> \in network
    /\ answer \in {"ok", "ok invalid"} => does
    /\ answer = "refused" => ~ does
    /\ network' = network \ {<<c, a>>}
    /\ executed' = [executed EXCEPT ![c] = @ + (IF does THEN 1 ELSE 0)]
    /\ reply' = IF At(c, "waiting") /\ attempt[c] = a
                THEN [reply EXCEPT ![c] = answer]
                ELSE reply
    /\ UNCHANGED <<pc, attempt, logged, result>>

\* A request is lost on its way.
Lose(c, a) ==
    /\ <<c, a>> \in network
    /\ network' = network \ {<<c, a>>}
    /\ UNCHANGED <<pc, attempt, reply, logged, result, executed>>

Caller(c) == Send(c) \/ Unreachable(c) \/ TimesOut(c) \/ Breaks(c) \/ Receive(c)

Next ==
    \/ \E c \in Calls : Call(c) \/ Caller(c)
    \/ \E c \in Calls, a \in 0..MaxRetries :
          \/ Lose(c, a)
          \/ \E answer \in Answers, does \in BOOLEAN : Serve(c, a, answer, does)

Spec == Init /\ [][Next]_vars

\* A thread goes on, at the latest when its timeout has passed; nothing is
\* assumed of the network and the server.
FairSpec == Spec /\ \A c \in Calls : WF_vars(Caller(c))

-----------------------------------------------------------------------------
TypeOK ==
    /\ pc \in [Calls -> {"idle", "attempt", "waiting", "done"}]
    /\ attempt \in [Calls -> 0..MaxRetries]
    /\ network \subseteq Calls \X (0..MaxRetries)
    /\ reply \in [Calls -> Answers \cup {"none"}]
    /\ logged \in [Calls -> Seq(Statuses)]
    /\ result \in [Calls -> Results \cup {"none"}]
    /\ executed \in [Calls -> Nat]

UnderWay(c) == {a \in 0..MaxRetries : <<c, a>> \in network}

\* A call is carried out at most once per attempt, whenever its requests
\* arrive: what was carried out and what may still be is bounded by the
\* attempts made (line 111).
ExecutionsBounded ==
    \A c \in Calls :
        executed[c] + Cardinality(UnderWay(c)) <=
            (IF pc[c] \in {"idle", "attempt"} THEN attempt[c] ELSE attempt[c] + 1)

\* A success was carried out, and a call that was never carried out and is not
\* under way is never reported as one (lines 129-158).
SuccessIsReal == \A c \in Calls : result[c] = "success" => executed[c] > 0

(***************************************************************************)
(* The log, from which calls are billed (see UsageMeter), has at most one  *)
(* event for each attempt that was made; all but the last say "retrying",  *)
(* and the last agrees with the result.                                    *)
(***************************************************************************)
LogIsHonest ==
    \A c \in Calls :
        LET l == logged[c] IN
        /\ Len(l) <= attempt[c] + (IF At(c, "done") THEN 1 ELSE 0)
        /\ \A i \in 1..Len(l) :
              l[i] # "retrying" =>
                /\ i = Len(l) /\ At(c, "done")
                /\ result[c] = (CASE l[i] = "success" -> "success"
                                  [] l[i] = "failure" -> "failed"
                                  [] l[i] = "timeout" -> "timed out")

\* What a call reports of what was carried out: the three statements above.
ReportIsHonest == ExecutionsBounded /\ SuccessIsReal /\ LogIsHonest

\* Every call ends, whatever the server does or does not (timeout_seconds and
\* max_retries).
EveryCallEnds == \A c \in Calls : At(c, "attempt") ~> At(c, "done")
=============================================================================
