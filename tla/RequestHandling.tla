---------------------------- MODULE RequestHandling ----------------------------
(***************************************************************************)
(* The HTTP boundary: bbi_os/task_management/api.py with the request       *)
(* context, log and listeners of observability.py and the execution        *)
(* summary of response_contract.py.                                        *)
(*                                                                         *)
(* ThreadingHTTPServer gives each connection a thread, and HTTP/1.0 each   *)
(* connection one request, so a thread is a request here, from the moment  *)
(* its head was read.  A handler reads the body first of all; then what a  *)
(* service does is one step that succeeds, returns a failed execution or   *)
(* raises.  The socket has no timeout: a client may hold a request for     *)
(* ever by what it does not send or does not read.  A write on the         *)
(* connection may fail, and then so does every later one; a write of the   *)
(* log may fail and the next one succeed.  A listener that raises is       *)
(* skipped (observability.py:131) and is left out.                         *)
(***************************************************************************)
EXTENDS HandlerErrors, Sequences, FiniteSets

CONSTANTS
    Threads,      \* connections
    RequestsOf,   \* the requests that may arrive on each of them
    Limit,        \* CockpitEventStore.limit
    MaxLogFaults  \* writes of the log that fail

ASSUME RequestAssumption == Limit \in Nat \ {0} /\ MaxLogFaults \in Nat

VARIABLES
    pc,        \* where each request stands
    request,   \* the request on each connection
    frame,     \* the try that an exception would reach: "handler", "_execute", "none"
    answer,    \* the answer under way
    status,    \* _response_status
    errors,    \* execution_summary.errors, as codes
    operation, \* what the service did: "none", "refused", "failed", "done"
    wire,      \* the answers that began on the connection
    trouble,   \* what went wrong around the service
    lines,     \* the events written to the log by each request
    pending,   \* the event being handed to the listeners
    store      \* CockpitEventStore, a listener: <<request, event>>

vars == <<pc, request, frame, answer, status, errors, operation, wire, trouble,
          lines, pending, store>>
serving == <<answer, status, errors, operation, wire>>

Labels == {"idle", "started", "authorize", "receive", "serve", "error", "respond",
           "head", "body", "completed", "slow", "closed"}

\* A path is resolved for the authorisation as it came and for the dispatch
\* after rewriting its alias /clients, so "resolved" is not "handler # unknown".
Request == [handler : DOMAIN ErrorsOf \cup {"tasks", "unknown"},
            method  : {"GET", "POST", "PATCH", "DELETE"},
            known   : BOOLEAN,  \* the handler has this operation
            resolved: BOOLEAN,
            body    : {"none", "misdeclared", "declared"}, \* what the handler reads, and
                               \* whether Content-Length is a number
            role    : {"invalid", "anonymous", "readonly", "user", "admin"}]

ASSUME ArrivalAssumption == RequestsOf \in [Threads -> SUBSET Request]

NoRequest == [handler |-> "unknown", method |-> "GET", known |-> FALSE,
              resolved |-> FALSE, body |-> "none", role |-> "anonymous"]

Permissions == [GET    |-> {"anonymous", "readonly", "user", "admin"},
                POST   |-> {"user", "admin"},
                PATCH  |-> {"user", "admin"},
                DELETE |-> {"admin"}]

Init ==
    /\ pc = [t \in Threads |-> "idle"]
    /\ request = [t \in Threads |-> NoRequest]
    /\ frame = [t \in Threads |-> "none"]
    /\ answer = [t \in Threads |-> NoAnswer]
    /\ status = [t \in Threads |-> 0]
    /\ errors = [t \in Threads |-> {}]
    /\ operation = [t \in Threads |-> "none"]
    /\ wire = [t \in Threads |-> <<>>]
    /\ trouble = [t \in Threads |-> {}]
    /\ lines = [t \in Threads |-> <<>>]
    /\ pending = [t \in Threads |-> ""]
    /\ store = <<>>

-----------------------------------------------------------------------------
\* A listener is called after the line was written, without the lock.
At(t, label) == pc[t] = label /\ pending[t] = ""
Goto(t, label) == pc' = [pc EXCEPT ![t] = label]
Set(f, t, value) == [f EXCEPT ![t] = value]

Handler(t) == request[t].handler

\* Observability.log, up to the write of the line.
Write(t, event) ==
    /\ lines' = [lines EXCEPT ![t] = Append(@, event)]
    /\ pending' = Set(pending, t, event)
    /\ UNCHANGED <<trouble, store>>

\* The write raises: nobody hears of the event.
WriteFails(t) ==
    /\ Cardinality({u \in Threads : "log" \in trouble[u]}) < MaxLogFaults
    /\ "log" \notin trouble[t]
    /\ trouble' = [trouble EXCEPT ![t] = @ \cup {"log"}]
    /\ UNCHANGED <<lines, pending, store>>

Silent(t) == UNCHANGED <<lines, pending, store>>

\* With a bug: the deque has no bound.
HearUnbounded(t) ==
    /\ pending[t] # ""
    /\ store' = Append(store, <<t, pending[t]>>)
    /\ pending' = Set(pending, t, "")
    /\ UNCHANGED <<pc, request, frame, serving, trouble, lines>>

\* With a bug: a full store makes the thread wait for room.
HearBlocking(t) ==
    /\ pending[t] # ""
    /\ Len(store) < Limit
    /\ store' = Append(store, <<t, pending[t]>>)
    /\ pending' = Set(pending, t, "")
    /\ UNCHANGED <<pc, request, frame, serving, trouble, lines>>

\* With a bug: a full store refuses what is new.
HearDropping(t) ==
    /\ pending[t] # ""
    /\ store' = IF Len(store) < Limit THEN Append(store, <<t, pending[t]>>) ELSE store
    /\ pending' = Set(pending, t, "")
    /\ UNCHANGED <<pc, request, frame, serving, trouble, lines>>

\* CockpitEventStore.__call__: a deque that drops its oldest record.
Hear(t) ==
    /\ pending[t] # ""
    /\ LET all == Append(store, <<t, pending[t]>>)
       IN store' = IF Len(all) > Limit THEN Tail(all) ELSE all
    /\ pending' = Set(pending, t, "")
    /\ UNCHANGED <<pc, request, frame, serving, trouble, lines>>

\* An answer that is an error is logged first; the clause that makes it is
\* outside the try it belongs to.
Reject(t, reply, try) ==
    /\ answer' = Set(answer, t, reply)
    /\ frame' = Set(frame, t, try)
    /\ Goto(t, "error")

\* An exception reaches the try of handle(), else that of _execute, else the
\* finally of _observe_request.
Throw(t, class) ==
    LET own == IF frame[t] = "handler" THEN Clause(ErrorsOf[Handler(t)], class) ELSE {}
    IN \/ \E clause \in own : Reject(t, ErrorsOf[Handler(t)][clause], "_execute")
       \/ /\ own = {} /\ frame[t] # "none"
          /\ \E clause \in Clause(ExecuteErrors, class) :
                Reject(t, ExecuteErrors[clause], "none")
       \/ /\ frame[t] = "none"
          /\ Goto(t, "completed")
          /\ UNCHANGED <<answer, frame>>

-----------------------------------------------------------------------------
\* begin_request, begin_execution_summary and the identity of the caller.
Accept(t) ==
    /\ At(t, "idle")
    /\ \E r \in RequestsOf[t] : request' = Set(request, t, r)
    /\ Goto(t, "started")
    /\ Silent(t)
    /\ UNCHANGED <<frame, serving, trouble>>

\* request_started is logged before the try: if that fails, the thread ends
\* without an answer, without the finally.
LogStarted(t) ==
    /\ At(t, "started")
    /\ \/ Write(t, "request_started") /\ Goto(t, "authorize")
       \/ WriteFails(t) /\ Goto(t, "closed")
    /\ UNCHANGED <<request, frame, serving>>

\* What _observe_request, _authorize_request and the routing refuse before
\* any handler is called, if anything.
Refusal(r) ==
    IF r.resolved /\ r.role = "invalid" THEN Answer(401, "INVALID_TOKEN")
    ELSE IF r.resolved /\ r.role \notin Permissions[r.method]
         THEN IF r.role = "anonymous" THEN Answer(401, "UNAUTHORIZED")
              ELSE Answer(403, "FORBIDDEN")
    ELSE IF r.handler = "unknown" \/ (r.handler = "tasks" /\ ~r.known)
         THEN Answer(404, "ROUTE_NOT_FOUND")
    ELSE NoAnswer

Refuse(t) ==
    /\ At(t, "authorize")
    /\ Refusal(request[t]) # NoAnswer
    /\ Reject(t, Refusal(request[t]), "none")
    /\ Silent(t)
    /\ UNCHANGED <<request, status, errors, operation, wire, trouble>>

\* _dispatch_entity, or the methods for tasks: _execute around handle().
Dispatch(t) ==
    /\ At(t, "authorize")
    /\ Refusal(request[t]) = NoAnswer
    /\ frame' = Set(frame, t, IF Handler(t) = "tasks" THEN "_execute" ELSE "handler")
    /\ Goto(t, IF request[t].known /\ request[t].body # "none" THEN "receive" ELSE "serve")
    /\ Silent(t)
    /\ UNCHANGED <<request, serving, trouble>>

\* _body: rfile.read returns when all that was declared has come.
Receive(t) ==
    /\ At(t, "receive")
    /\ request[t].body = "declared"
    /\ Goto(t, "serve")
    /\ Silent(t)
    /\ UNCHANGED <<request, frame, serving, trouble>>

\* A length that is no number is refused unread; what was read may be cut
\* short or no JSON; the connection may break.
ReceiveFails(t) ==
    /\ At(t, "receive")
    /\ \/ /\ request[t].body = "misdeclared"
          /\ Throw(t, "ValidationError")
          /\ UNCHANGED trouble
       \/ /\ request[t].body = "declared"
          /\ Throw(t, "JSONDecodeError")
          /\ UNCHANGED trouble
       \/ /\ request[t].body = "declared"
          /\ Throw(t, "Exception")
          /\ trouble' = [trouble EXCEPT ![t] = @ \cup {"wire"}]
    /\ operation' = Set(operation, t, "refused")
    /\ Silent(t)
    /\ UNCHANGED <<request, status, errors, wire>>

\* _route_not_found of a handler that does not have the operation.
RejectRoute(t) ==
    /\ At(t, "serve")
    /\ ~request[t].known
    /\ Reject(t, Answer(404, "ROUTE_NOT_FOUND"),
              IF Handler(t) \in RejectOutsideTry THEN "_execute" ELSE frame[t])
    /\ Silent(t)
    /\ UNCHANGED <<request, status, errors, operation, wire, trouble>>

Serving(t) == At(t, "serve") /\ request[t].known

Succeed(t) ==
    /\ Serving(t)
    /\ operation' = Set(operation, t, "done")
    /\ answer' = Set(answer, t, Success)
    /\ Goto(t, "respond")
    /\ Silent(t)
    /\ UNCHANGED <<request, frame, status, errors, wire, trouble>>

\* With a bug: the status of the execution is not looked at.
ReturnFailedAsDone(t) ==
    /\ Serving(t)
    /\ Handler(t) \in DOMAIN FailureOf
    /\ request[t].method = "POST"
    /\ operation' = Set(operation, t, "failed")
    /\ answer' = Set(answer, t, Success)
    /\ Goto(t, "respond")
    /\ Silent(t)
    /\ UNCHANGED <<request, frame, status, errors, wire, trouble>>

\* The service returns an execution that failed: the handlers of workflows,
\* templates (template_api.py:51-60), execution (client_execution/api.py:27-28,
\* 87-99), webhooks (integrations/api.py:104-110) and the cockpit, which does not
\* look at the status (handler.py:52-57).
ReturnFailed(t) ==
    /\ Serving(t)
    /\ Handler(t) \in DOMAIN FailureOf
    /\ request[t].method = "POST"
    /\ operation' = Set(operation, t, "failed")
    /\ answer' = Set(answer, t, FailureOf[Handler(t)])
    /\ Goto(t, IF FailureOf[Handler(t)].code = "" \/ Handler(t) \in FailsUnlogged
               THEN "respond" ELSE "error")
    /\ Silent(t)
    /\ UNCHANGED <<request, frame, status, errors, wire, trouble>>

\* What a service raises before anything was done: what its handler has a clause
\* for, or anything else.
Refusals(r) ==
    (IF r.handler = "tasks" THEN {"ValidationError", "TaskNotFoundError"}
     ELSE DOMAIN ErrorsOf[r.handler])
    \cup {"Exception"}

\* Whichever the service, its exception leaves the action that _execute calls.
Raise(t) ==
    /\ Serving(t)
    /\ \E class \in Refusals(request[t]) : Throw(t, class)
    /\ operation' = Set(operation, t, "refused")
    /\ Silent(t)
    /\ UNCHANGED <<request, status, errors, wire, trouble>>

\* The service raises after it did what was asked: a log line, a second record, a
\* plan that is read again (as client_management.py:55-67 do after the assignment).
RaiseLate(t) ==
    /\ Serving(t)
    /\ Throw(t, "Exception")
    /\ operation' = Set(operation, t, "done")
    /\ trouble' = [trouble EXCEPT ![t] = @ \cup {"late"}]
    /\ Silent(t)
    /\ UNCHANGED <<request, status, errors, wire>>

-----------------------------------------------------------------------------
\* With a bug: an error is answered and not logged.
LogErrorSkipped(t) ==
    /\ At(t, "error")
    /\ errors' = [errors EXCEPT ![t] = @ \cup {answer[t].code}]
    /\ Goto(t, "respond")
    /\ Silent(t)
    /\ UNCHANGED <<request, frame, answer, status, operation, wire, trouble>>

\* _log_error: the code enters the summary before the line is written.
LogError(t) ==
    /\ At(t, "error")
    /\ errors' = [errors EXCEPT ![t] = @ \cup {answer[t].code}]
    /\ \/ Write(t, answer[t].code) /\ Goto(t, "respond") /\ UNCHANGED <<answer, frame>>
       \/ WriteFails(t) /\ Throw(t, "Exception")
    /\ UNCHANGED <<request, status, operation, wire>>

\* _respond up to send_response, which logs the access before it buffers the
\* status line.  error_response puts the code in the summary as well.
Respond(t) ==
    /\ At(t, "respond")
    /\ status' = Set(status, t, answer[t].status)
    /\ errors' = [errors EXCEPT ![t] = @ \cup ({answer[t].code} \ {""})]
    /\ \/ Write(t, "http_access") /\ Goto(t, "head") /\ UNCHANGED <<answer, frame>>
       \/ WriteFails(t) /\ Throw(t, "Exception")
    /\ UNCHANGED <<request, operation, wire>>

\* end_headers sends the buffered head.
SendHead(t) ==
    /\ At(t, "head")
    /\ "wire" \notin trouble[t]
    /\ wire' = [wire EXCEPT ![t] =
                   Append(@, [status |-> answer[t].status, code |-> answer[t].code,
                              errors |-> errors[t], complete |-> FALSE])]
    /\ Goto(t, "body")
    /\ Silent(t)
    /\ UNCHANGED <<request, frame, answer, status, errors, operation, trouble>>

SendBody(t) ==
    /\ At(t, "body")
    /\ "wire" \notin trouble[t]
    /\ wire' = [wire EXCEPT ![t][Len(wire[t])].complete = TRUE]
    /\ Goto(t, "completed")
    /\ Silent(t)
    /\ UNCHANGED <<request, frame, answer, status, errors, operation, trouble>>

\* The client is gone: a write raises inside the try that made the answer,
\* whose clause answers again.
SendFails(t) ==
    /\ At(t, "head") \/ At(t, "body")
    /\ trouble' = [trouble EXCEPT ![t] = @ \cup {"wire"}]
    /\ Throw(t, "Exception")
    /\ Silent(t)
    /\ UNCHANGED <<request, status, errors, operation, wire>>

\* The finally of _observe_request: request_completed, and a warning if the
\* request was slow; then the summary and the context are given back.
LogCompleted(t) ==
    /\ At(t, "completed")
    /\ \/ Write(t, "request_completed") /\ \E next \in {"slow", "closed"} : Goto(t, next)
       \/ WriteFails(t) /\ Goto(t, "closed")
    /\ UNCHANGED <<request, frame, serving>>

LogSlow(t) ==
    /\ At(t, "slow")
    /\ Write(t, "slow_request") \/ WriteFails(t)
    /\ Goto(t, "closed")
    /\ UNCHANGED <<request, frame, serving>>

Work(t) ==
    \/ LogStarted(t) \/ Refuse(t) \/ Dispatch(t) \/ Receive(t) \/ ReceiveFails(t)
    \/ RejectRoute(t) \/ Succeed(t) \/ ReturnFailed(t) \/ Raise(t) \/ RaiseLate(t)
    \/ LogError(t) \/ Respond(t) \/ SendHead(t) \/ SendBody(t) \/ SendFails(t)
    \/ LogCompleted(t) \/ LogSlow(t) \/ Hear(t)

Next == \E t \in Threads : Accept(t) \/ Work(t)

Spec == Init /\ [][Next]_vars

\* The thread is in rfile.read or in a wfile.write, and it is for the client to
\* send, to read or to go away.
WaitsForClient(t) ==
    \/ At(t, "receive") /\ request[t].body = "declared"
    \/ (At(t, "head") \/ At(t, "body")) /\ "wire" \notin trouble[t]

\* A thread that was started runs on while it does not wait for its client; no
\* client has to connect, to send what it declared or to read what it is sent.
FairSpec == Spec /\ \A t \in Threads : WF_vars(Work(t) /\ ~WaitsForClient(t))

-----------------------------------------------------------------------------
\* Every variable of the boundary has its type, and the event store its bound.
TypeOK ==
    /\ pc \in [Threads -> Labels]
    /\ request \in [Threads -> Request]
    /\ frame \in [Threads -> {"handler", "_execute", "none"}]
    /\ \A t \in Threads : answer[t].status \in {0} \cup 200..599 /\ status[t] \in {0} \cup 200..599
    /\ operation \in [Threads -> {"none", "refused", "failed", "done"}]
    /\ trouble \in [Threads -> SUBSET {"log", "wire", "late"}]
    /\ Len(store) <= Limit /\ \A i \in DOMAIN store : store[i][1] \in Threads

\* Although the try of a handler, that of _execute and the routing may each
\* answer, no connection ever carries two answers, and a request that nothing
\* disturbed gets one, whole (api.py:125-191, 264-287).
AnsweredOnce ==
    \A t \in Threads :
        /\ Len(wire[t]) <= 1
        /\ At(t, "closed") /\ trouble[t] = {} => Len(wire[t]) = 1 /\ wire[t][1].complete

\* request_completed reports the status the client was sent, unless the client
\* went away in the middle of it: then it reports the error that came of that,
\* on top of a status line that said otherwise (api.py:182, 265).
LoggedIsSent ==
    \A t \in Threads :
        At(t, "closed") /\ wire[t] # <<>> /\ wire[t][1].status # status[t] =>
            "wire" \in trouble[t] /\ ~wire[t][1].complete

\* A 2xx is sent for what was done, or by the cockpit for an execution that
\* failed; what was done is answered with an error only after a failing log, a
\* lost connection or a service that raised late (the handle methods).
SuccessIsDone ==
    \A t \in Threads : wire[t] # <<>> =>
        /\ wire[t][1].status < 300 =>
               operation[t] = "done" \/ (operation[t] = "failed" /\ Handler(t) = "cockpit")
        /\ wire[t][1].status >= 300 /\ operation[t] = "done" => trouble[t] # {}

\* Whoever holds an error answer finds its code in the summary that came with
\* it and in the log, whichever of the chained clauses made it, but for the
\* failed workflow of a webhook (integrations/api.py:104-110), which is not logged.
ErrorIsTraceable ==
    \A t \in Threads : wire[t] # <<>> /\ wire[t][1].code # "" =>
        /\ wire[t][1].code \in wire[t][1].errors
        /\ \/ \E i \in DOMAIN lines[t] : lines[t][i] = wire[t][1].code
           \/ Handler(t) \in FailsUnlogged /\ wire[t][1].status = 422

\* What the caller is sent, and what the log says of it: the statements above.
AnswerIsTrue == AnsweredOnce /\ SuccessIsDone
LogIsTrue    == LoggedIsSent /\ ErrorIsTraceable

\* How many events of request t were announced, and the positions of its records
\* in s from i on.
Announced(t) == Len(lines[t]) - (IF pending[t] = "" THEN 0 ELSE 1)
Records(s, t, i) == {j \in i..Len(s) : s[j][1] = t}

\* The cockpit's window on the log: of each request the latest events that were
\* announced, in order and without a gap - the n-th record from the end is the
\* n-th event from the end - and nothing is missing before the store is full
\* (observability.py:124-133, cockpit/models.py:38-44).
StoreIsWindow ==
    /\ \A i \in DOMAIN store :
          LET t == store[i][1]
              n == Cardinality(Records(store, t, i))
          IN n <= Announced(t) /\ store[i][2] = lines[t][Announced(t) - n + 1]
    /\ Len(store) <= Limit
    /\ Len(store) < Limit => \A t \in Threads : Cardinality(Records(store, t, 1)) = Announced(t)

\* Every request that was accepted ends, whatever its handler and the log do,
\* unless its own client keeps it for ever: by a body it does not send (api.py:251)
\* or an answer it does not take (api.py:286-287), for the sockets of the server
\* have no timeout.  No other request, its client included, holds it up.
EveryRequestEnds ==
    \A t \in Threads : pc[t] = "started" ~> (pc[t] = "closed" \/ []WaitsForClient(t))
=============================================================================
