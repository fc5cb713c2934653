------------------------ MODULE RequestHandlingProofs ------------------------
(***************************************************************************)
(* What a client is sent and what the log says of it are true, for any     *)
(* connections, requests and failing writes.  The invariant says of each   *)
(* request what the answer under way must be worth at each label, and of   *)
(* the answer that began on the connection that it stays worth that while  *)
(* the clauses of the handler, of _execute and of the finally run on.      *)
(***************************************************************************)
EXTENDS RequestHandling, SequenceTheorems, FiniteSetTheorems, TLAPS

\* Everything that is written to the log or named as an error.
Tables == {ErrorsOf[h] : h \in DOMAIN ErrorsOf} \cup {ExecuteErrors}
Words == {"", "request_started", "http_access", "request_completed", "slow_request",
          "INVALID_TOKEN", "UNAUTHORIZED", "FORBIDDEN", "ROUTE_NOT_FOUND"}
Codes == UNION {{table[c].code : c \in DOMAIN table} : table \in Tables}
FailureCodes == {FailureOf[h].code : h \in DOMAIN FailureOf}
Text == Words \cup Codes \cup FailureCodes

Statuses == {0} \cup 200..599
Reply == [status: Statuses, code: Text]
Wired == [status: Statuses, code: Text, errors: SUBSET Text, complete: BOOLEAN]

\* The codes of the errors.
ErrorCodes ==
    {"INVALID_WORKFLOW_DEFINITION", "WORKFLOW_NOT_FOUND",
     "WORKFLOW_EXECUTION_FAILED", "INVALID_WORKFLOW_TEMPLATE",
     "TEMPLATE_VERSION_NOT_FOUND", "TEMPLATE_NOT_FOUND",
     "TEMPLATE_EXECUTION_FAILED", "INVALID_EXECUTION_REQUEST", "UNAUTHORIZED",
     "CLIENT_NOT_FOUND", "EXECUTION_NOT_FOUND", "CONCURRENT_EXECUTION",
     "CLIENT_EXECUTION_FAILED", "INVALID_ONBOARDING_REQUEST",
     "INVALID_ONBOARDING_TYPE", "ONBOARDING_WORKFLOW_NOT_FOUND",
     "ONBOARDING_EXECUTION_FAILED", "INVALID_REQUEST_TYPE", "VALIDATION_ERROR",
     "PIPELINE_EXECUTION_FAILED", "INVALID_USAGE_EVENT",
     "CONNECTOR_ACCESS_DENIED", "PLAN_LIMIT_EXCEEDED", "MONETIZATION_ERROR",
     "INVALID_CONNECTOR", "CONNECTOR_NOT_FOUND", "TIMEOUT_ERROR",
     "EXTERNAL_REQUEST_FAILED", "WEBHOOK_VALIDATION_FAILED", "INVALID_CLIENT",
     "CLIENT_PERSISTENCE_ERROR", "COCKPIT_CONTROL_ERROR", "TASK_NOT_FOUND",
     "INVALID_JSON", "INTERNAL_ERROR", "WORKFLOW_STEP_FAILED", "INVALID_TOKEN",
     "FORBIDDEN", "ROUTE_NOT_FOUND"}

IsError(a) ==
    /\ a = [status |-> a.status, code |-> a.code]
    /\ a.status \in 400..599 /\ a.code \in ErrorCodes

Types ==
    /\ pc \in [Threads -> Labels]
    /\ request \in [Threads -> Request]
    /\ frame \in [Threads -> {"handler", "_execute", "none"}]
    /\ answer \in [Threads -> Reply]
    /\ status \in [Threads -> Statuses]
    /\ errors \in [Threads -> SUBSET Text]
    /\ operation \in [Threads -> {"none", "refused", "failed", "done"}]
    /\ wire \in [Threads -> Seq(Wired)]
    /\ trouble \in [Threads -> SUBSET {"log", "wire", "late"}]
    /\ lines \in [Threads -> Seq(Text)]
    /\ pending \in [Threads -> Text]
    /\ store \in Seq(Threads \X Text)
    /\ Len(store) <= Limit

\* The answer a is what became of the operation o of request r, or trouble tr
\* stands for the difference.
Deserved(a, o, r, tr) ==
    /\ a.status < 300 => o = "done" \/ (o = "failed" /\ r.handler = "cockpit")
    /\ a.status >= 300 /\ o = "done" => tr # {}

\* The error that a reports is in the log ln, unless it is of those that are not.
Traced(a, r, ln) ==
    a.code # "" => \/ \E n \in DOMAIN ln : ln[n] = a.code
                   \/ r.handler \in FailsUnlogged /\ a.status = 422

\* The answer w that began on the connection of a request at label l.
Sent(l, w, r, st, o, tr, ln) ==
    /\ Deserved(w, o, r, tr)
    /\ Traced(w, r, ln)
    /\ w.code # "" => w.code \in w.errors
    /\ "wire" \in tr => ~w.complete
    /\ "wire" \notin tr => l \in {"body", "completed", "slow", "closed"} /\ w.status = st

\* What is under way at label l.
Underway(l, r, f, a, st, er, o, w, tr, ln) ==
    /\ f = "handler" => r.handler \in DOMAIN ErrorsOf
    /\ l \in {"idle", "started", "authorize", "receive", "serve"} =>
           w = <<>> /\ tr = {} /\ o = "none"
    /\ l \in {"idle", "started", "authorize"} => f = "none"
    /\ l \in {"receive", "serve"} => f # "none"
    /\ l = "error" => IsError(a)
    /\ l \in {"error", "respond", "head"} => Deserved(a, o, r, tr)
    /\ l \in {"respond", "head"} => Traced(a, r, ln)
    /\ l = "head" => st = a.status /\ (a.code # "" => a.code \in er)
    /\ l = "body" => w # <<>> /\ "wire" \notin tr /\ ~w[1].complete
    /\ l \in {"completed", "slow", "closed"} /\ tr = {} => w # <<>> /\ w[1].complete

Handled(l, r, f, a, st, er, o, w, tr, ln) ==
    /\ Underway(l, r, f, a, st, er, o, w, tr, ln)
    /\ w # <<>> => Len(w) = 1 /\ Sent(l, w[1], r, st, o, tr, ln)

HandledBy(t) == Handled(pc[t], request[t], frame[t], answer[t], status[t], errors[t],
                        operation[t], wire[t], trouble[t], lines[t])

HInv == Types /\ \A t \in Threads : HandledBy(t)

-----------------------------------------------------------------------------
\* The answers of the tables are errors.
LEMMA TablesReject == \A table \in Tables : \A c \in DOMAIN table : IsError(table[c])
<1> USE DEF IsError, Answer, ErrorCodes
<1>1. \A c \in DOMAIN WorkflowErrors : IsError(WorkflowErrors[c])
  BY DEF WorkflowErrors
<1>2. \A c \in DOMAIN TemplateErrors : IsError(TemplateErrors[c])
  BY DEF TemplateErrors
<1>3. \A c \in DOMAIN ExecutionErrors : IsError(ExecutionErrors[c])
  BY DEF ExecutionErrors
<1>4. \A c \in DOMAIN OnboardingErrors : IsError(OnboardingErrors[c])
  BY DEF OnboardingErrors
<1>5. \A c \in DOMAIN PipelineErrors : IsError(PipelineErrors[c])
  BY DEF PipelineErrors
<1>6. \A c \in DOMAIN MonetizationErrors : IsError(MonetizationErrors[c])
  BY DEF MonetizationErrors
<1>7. \A c \in DOMAIN ConnectorErrors : IsError(ConnectorErrors[c])
  BY DEF ConnectorErrors
<1>8. \A c \in DOMAIN WebhookErrors : IsError(WebhookErrors[c])
  BY DEF WebhookErrors
<1>9. \A c \in DOMAIN ClientErrors : IsError(ClientErrors[c])
  BY DEF ClientErrors
<1>10. \A c \in DOMAIN CockpitErrors : IsError(CockpitErrors[c])
  BY DEF CockpitErrors
<1>11. \A c \in DOMAIN ExecuteErrors : IsError(ExecuteErrors[c])
  BY DEF ExecuteErrors
<1>12. \A table \in Tables : table \in
         {WorkflowErrors, TemplateErrors, ExecutionErrors, OnboardingErrors, PipelineErrors,
          MonetizationErrors, ConnectorErrors, WebhookErrors, ClientErrors, CockpitErrors,
          ExecuteErrors}
  BY DEF Tables, ErrorsOf
<1> HIDE DEF IsError, Answer
<1>13. QED
  BY <1>1, <1>2, <1>3, <1>4, <1>5, <1>6, <1>7, <1>8, <1>9, <1>10, <1>11, <1>12

\* An error is what became of everything but an operation that was done in peace.
LEMMA ErrorStatus == \A n \in 400..599 : ~(n < 300) /\ n \in Statuses
BY DEF Statuses

LEMMA ErrorDeserved ==
    ASSUME NEW a, IsError(a), NEW o, NEW r, NEW tr, o # "done" \/ tr # {}
    PROVE  Deserved(a, o, r, tr)
<1>1. ~(a.status < 300)
  BY ErrorStatus, Zenon DEF IsError
<1>2. QED
  BY <1>1 DEF Deserved

\* Their codes are texts, and so are the other words.
LEMMA Texts ==
    /\ Words \subseteq Text
    /\ \A table \in Tables : \A c \in DOMAIN table : table[c].code \in Text
    /\ \A h \in DOMAIN FailureOf : FailureOf[h].code \in Text
<1>1. \A table \in Tables : \A c \in DOMAIN table : table[c].code \in Codes
  BY DEF Codes
<1>2. \A h \in DOMAIN FailureOf : FailureOf[h].code \in FailureCodes
  BY Zenon DEF FailureCodes
<1>3. QED
  BY <1>1, <1>2 DEF Text

-----------------------------------------------------------------------------
\* A step concerns request t alone.
Alone(t) ==
    \A u \in Threads \ {t} :
        /\ pc'[u] = pc[u] /\ request'[u] = request[u] /\ frame'[u] = frame[u]
        /\ answer'[u] = answer[u] /\ status'[u] = status[u] /\ errors'[u] = errors[u]
        /\ operation'[u] = operation[u] /\ wire'[u] = wire[u]
        /\ trouble'[u] = trouble[u] /\ lines'[u] = lines[u]

LEMMA AloneHInv ==
    ASSUME HInv, Types', NEW t \in Threads, Alone(t), HandledBy(t)'
    PROVE  HInv'
<1>1. ASSUME NEW u \in Threads, u # t
      PROVE  HandledBy(u)'
  BY <1>1 DEF Alone, HInv, HandledBy
<1>2. QED
  BY <1>1 DEF HInv

LEMMA InitHInv == Init => HInv
<1> SUFFICES ASSUME Init PROVE HInv
  OBVIOUS
<1>1. NoRequest \in Request /\ NoAnswer \in Reply /\ "" \in Text
  <2>1. "" \in Text /\ NoAnswer.code = ""
    BY Texts DEF Words, NoAnswer, Answer
  <2>2. NoRequest \in Request
    BY DEF NoRequest, Request
  <2>3. QED
    BY <2>1, <2>2 DEF NoAnswer, Answer, Reply, Statuses
<1>2. /\ <<>> \in Seq(Wired) /\ <<>> \in Seq(Text) /\ <<>> \in Seq(Threads \X Text)
      /\ Len(<<>>) <= Limit
  BY RequestAssumption
<1>5. /\ pc \in [Threads -> Labels] /\ request \in [Threads -> Request]
      /\ frame \in [Threads -> {"handler", "_execute", "none"}]
      /\ operation \in [Threads -> {"none", "refused", "failed", "done"}]
      /\ trouble \in [Threads -> SUBSET {"log", "wire", "late"}]
  BY <1>1 DEF Init, Labels
<1>6. /\ answer \in [Threads -> Reply] /\ status \in [Threads -> Statuses]
      /\ errors \in [Threads -> SUBSET Text] /\ wire \in [Threads -> Seq(Wired)]
      /\ lines \in [Threads -> Seq(Text)] /\ pending \in [Threads -> Text]
      /\ store \in Seq(Threads \X Text) /\ Len(store) <= Limit
  BY <1>1, <1>2 DEF Init, Statuses
<1>7. Types
  BY <1>5, <1>6 DEF Types
<1>3. ASSUME NEW t \in Threads
      PROVE  HandledBy(t)
  BY <1>3 DEF Init, HandledBy, Handled, Underway
<1>4. QED
  BY <1>3, <1>7 DEF HInv

\* What was logged stays logged.
LEMMA TracedLater ==
    ASSUME NEW a, NEW r, NEW ln \in Seq(Text), NEW e \in Text, Traced(a, r, ln) \/ a.code = e
    PROVE  Traced(a, r, Append(ln, e))
<1>1. /\ DOMAIN Append(ln, e) = 1..Len(ln) + 1 /\ DOMAIN ln = 1..Len(ln) /\ Len(ln) \in Nat
      /\ \A n \in 1..Len(ln) : Append(ln, e)[n] = ln[n]
      /\ Append(ln, e)[Len(ln) + 1] = e
  OBVIOUS
<1>2. CASE a.code = e
  <2>1. Len(ln) + 1 \in DOMAIN Append(ln, e)
    BY <1>1
  <2>2. QED
    BY <1>1, <1>2, <2>1 DEF Traced
<1>3. CASE Traced(a, r, ln)
  <2>1. ASSUME NEW n \in DOMAIN ln
        PROVE  n \in DOMAIN Append(ln, e) /\ Append(ln, e)[n] = ln[n]
    BY <1>1, <2>1
  <2>2. QED
    BY <1>3, <2>1 DEF Traced
<1>4. QED
  BY <1>2, <1>3

\* Where an exception lands.
LEMMA ThrowLands ==
    ASSUME HInv, NEW t \in Threads, NEW class, Throw(t, class)
    PROVE  \/ \E a \in Reply, f \in {"_execute", "none"} : IsError(a) /\ Reject(t, a, f)
           \/ /\ frame[t] = "none"
              /\ Goto(t, "completed")
              /\ UNCHANGED <<answer, frame>>
<1>1. \A table \in Tables : \A c \in DOMAIN table : table[c] \in Reply /\ IsError(table[c])
  BY TablesReject, Texts DEF IsError, Reply, Statuses
<1>2. ExecuteErrors \in Tables
  BY DEF Tables
<1>3. frame[t] = "handler" => ErrorsOf[Handler(t)] \in Tables
  BY DEF HInv, HandledBy, Handled, Underway, Handler, Tables
<1>4. \A table : Clause(table, class) \subseteq DOMAIN table
  BY DEF Clause
<1>5. QED
  BY <1>1, <1>2, <1>3, <1>4 DEF Throw

\* The label, the try and the answer keep their types, and other requests theirs.
Moves(t) ==
    /\ pc' \in [Threads -> Labels]
    /\ frame' \in [Threads -> {"handler", "_execute", "none"}]
    /\ answer' \in [Threads -> Reply]
    /\ \A u \in Threads \ {t} : pc'[u] = pc[u] /\ frame'[u] = frame[u] /\ answer'[u] = answer[u]

\* What has to be shown of a step that throws.
LEMMA ThrowHandled ==
    ASSUME HInv, NEW t \in Threads, NEW class, Throw(t, class),
           UNCHANGED <<request, wire, lines>>,
           wire[t] # <<>> => /\ "wire" \in trouble'[t] /\ ~wire[t][1].complete
                             /\ operation'[t] = operation[t],
           trouble[t] \subseteq trouble'[t],
           trouble'[t] # {} \/ (frame[t] # "none" /\ operation'[t] # "done")
    PROVE  HandledBy(t)' /\ Moves(t)
<1>1. /\ pc \in [Threads -> Labels] /\ answer \in [Threads -> Reply]
      /\ frame \in [Threads -> {"handler", "_execute", "none"}]
      /\ HandledBy(t)
  BY DEF HInv, Types
<1>2. ASSUME NEW l, NEW st
      PROVE  wire[t] # <<>> =>
               /\ Len(wire[t]) = 1
               /\ Sent(l, wire[t][1], request[t], st, operation'[t], trouble'[t], lines[t])
  BY <1>1 DEF HandledBy, Handled, Sent, Deserved
<1>3. ASSUME NEW a \in Reply, NEW f \in {"_execute", "none"}, IsError(a), Reject(t, a, f)
      PROVE  HandledBy(t)' /\ Moves(t)
  <2>1. /\ pc' = [pc EXCEPT ![t] = "error"] /\ frame' = [frame EXCEPT ![t] = f]
        /\ answer' = [answer EXCEPT ![t] = a]
    BY <1>3 DEF Reject, Set, Goto
  <2>2. Moves(t) /\ pc'[t] = "error" /\ frame'[t] # "handler" /\ answer'[t] = a
    BY <1>1, <2>1 DEF Moves, Labels
  <2>3. Deserved(a, operation'[t], request[t], trouble'[t])
    BY <1>3, ErrorDeserved
  <2>4. QED
    BY <1>2, <1>3, <2>2, <2>3 DEF HandledBy, Handled, Underway
<1>4. ASSUME frame[t] = "none", Goto(t, "completed"), UNCHANGED <<answer, frame>>
      PROVE  HandledBy(t)' /\ Moves(t)
  <2>1. Moves(t) /\ pc'[t] = "completed"
    BY <1>1, <1>4 DEF Goto, Moves, Labels
  <2>2. QED
    BY <1>2, <1>4, <2>1 DEF HandledBy, Handled, Underway
<1>5. QED
  BY <1>3, <1>4, ThrowLands

\* What log writes, and what it does when it raises.
LEMMA WriteTypes ==
    ASSUME HInv, NEW t \in Threads, NEW e \in Text, Write(t, e)
    PROVE  /\ lines' \in [Threads -> Seq(Text)] /\ pending' \in [Threads -> Text]
           /\ lines'[t] = Append(lines[t], e) /\ lines[t] \in Seq(Text)
           /\ \A u \in Threads \ {t} : lines'[u] = lines[u]
           /\ UNCHANGED <<trouble, store>>
BY DEF HInv, Types, Write, Set

LEMMA WriteFailsTypes ==
    ASSUME HInv, NEW t \in Threads, WriteFails(t)
    PROVE  /\ trouble' \in [Threads -> SUBSET {"log", "wire", "late"}]
           /\ trouble'[t] = trouble[t] \cup {"log"}
           /\ \A u \in Threads \ {t} : trouble'[u] = trouble[u]
           /\ UNCHANGED <<lines, pending, store>>
BY DEF HInv, Types, WriteFails

-----------------------------------------------------------------------------
LEMMA AcceptHInv ==
    ASSUME HInv, NEW t \in Threads, Accept(t)
    PROVE  HInv'
<1>1. PICK r \in Request : request' = [request EXCEPT ![t] = r]
  BY ArrivalAssumption DEF Accept, Set
<1>2. /\ pc[t] = "idle" /\ pc' = [pc EXCEPT ![t] = "started"]
      /\ UNCHANGED <<frame, serving, trouble, lines, pending, store>>
  BY DEF Accept, At, Goto, Silent
<1>3. Types' /\ Alone(t) /\ pc'[t] = "started"
  BY <1>1, <1>2 DEF HInv, Types, Labels, Alone, serving
<1>4. HandledBy(t)'
  BY <1>2, <1>3 DEF HInv, HandledBy, Handled, Underway, serving
<1>5. QED
  BY <1>3, <1>4, AloneHInv

LEMMA LogStartedHInv ==
    ASSUME HInv, NEW t \in Threads, LogStarted(t)
    PROVE  HInv'
<1>1. pc[t] = "started" /\ UNCHANGED <<request, frame, serving>> /\ HandledBy(t)
  BY DEF LogStarted, At, HInv
<1>2. "request_started" \in Text
  BY Texts DEF Words
<1>3. CASE Write(t, "request_started") /\ Goto(t, "authorize")
  <2>1. Types' /\ Alone(t) /\ pc'[t] = "authorize"
    BY <1>1, <1>2, <1>3, WriteTypes DEF Goto, HInv, Types, Labels, Alone, serving
  <2>2. HandledBy(t)'
    BY <1>1, <1>2, <1>3, <2>1, WriteTypes DEF HandledBy, Handled, Underway, serving
  <2>3. QED
    BY <2>1, <2>2, AloneHInv
<1>4. CASE WriteFails(t) /\ Goto(t, "closed")
  <2>1. Types' /\ Alone(t) /\ pc'[t] = "closed"
    BY <1>1, <1>4, WriteFailsTypes DEF Goto, HInv, Types, Labels, Alone, serving
  <2>2. HandledBy(t)'
    BY <1>1, <1>4, <2>1, WriteFailsTypes DEF HandledBy, Handled, Underway, serving
  <2>3. QED
    BY <2>1, <2>2, AloneHInv
<1>5. QED
  BY <1>3, <1>4 DEF LogStarted

LEMMA SuccessIs ==
    Success \in Reply /\ Success.status = 200 /\ ~(Success.status >= 300) /\ Success.code = ""
<1>1. "" \in Text
  BY Texts DEF Words
<1>2. 200 \in Statuses /\ ~(200 >= 300)
  BY DEF Statuses
<1>3. Success = [status |-> 200, code |-> ""]
  BY Zenon DEF Success, Answer
<1>4. QED
  BY <1>1, <1>2, <1>3 DEF Reply

\* What is refused before a handler is called is an error, and an unknown
\* handler is refused.
LEMMA RefusalIsError ==
    ASSUME NEW r \in Request, Refusal(r) # NoAnswer
    PROVE  Refusal(r) \in Reply /\ IsError(Refusal(r))
<1>1. \A c \in {"INVALID_TOKEN", "UNAUTHORIZED", "FORBIDDEN", "ROUTE_NOT_FOUND"} :
         c \in Text \cap ErrorCodes
  BY Texts DEF Words, ErrorCodes
<1>2. ASSUME NEW n \in 400..599, NEW c \in Text \cap ErrorCodes
      PROVE  Answer(n, c) \in Reply /\ IsError(Answer(n, c))
  BY ErrorStatus DEF Answer, Reply, IsError
<1>3. QED
  BY <1>1, <1>2 DEF Refusal

LEMMA RefusalOfUnknown ==
    ASSUME NEW r \in Request, Refusal(r) = NoAnswer
    PROVE  r.handler \in DOMAIN ErrorsOf \cup {"tasks"}
BY DEF Refusal, NoAnswer, Answer, Request

LEMMA RefuseHInv ==
    ASSUME HInv, NEW t \in Threads, Refuse(t)
    PROVE  HInv'
<1> DEFINE a == Refusal(request[t])
<1>1. /\ pc[t] = "authorize" /\ a # NoAnswer /\ HandledBy(t) /\ Types
      /\ answer' = [answer EXCEPT ![t] = a] /\ frame' = [frame EXCEPT ![t] = "none"]
      /\ pc' = [pc EXCEPT ![t] = "error"]
      /\ UNCHANGED <<request, status, errors, operation, wire, trouble, lines, pending, store>>
  BY DEF Refuse, Reject, At, Goto, Set, Silent, HInv
<1>2. a \in Reply /\ IsError(a)
  BY <1>1, RefusalIsError DEF Types
<1> HIDE DEF a
<1>3. Types' /\ Alone(t) /\ pc'[t] = "error" /\ answer'[t] = a /\ frame'[t] = "none"
  BY <1>1, <1>2 DEF Types, Labels, Alone
<1>4. HandledBy(t)'
  BY <1>1, <1>2, <1>3, ErrorDeserved DEF HandledBy, Handled, Underway
<1>5. QED
  BY <1>3, <1>4, AloneHInv

LEMMA DispatchHInv ==
    ASSUME HInv, NEW t \in Threads, Dispatch(t)
    PROVE  HInv'
<1>1. PICK f \in {"handler", "_execute"} :
         frame' = [frame EXCEPT ![t] = f] /\ (f = "handler" <=> request[t].handler # "tasks")
  BY DEF Dispatch, Set, Handler
<1>2. /\ pc[t] = "authorize" /\ Refusal(request[t]) = NoAnswer /\ HandledBy(t) /\ Types
      /\ UNCHANGED <<request, serving, trouble, lines, pending, store>>
  BY DEF Dispatch, At, Silent, HInv
<1>3. PICK l \in {"receive", "serve"} : pc' = [pc EXCEPT ![t] = l]
  BY DEF Dispatch, Goto
<1>4. f = "handler" => request[t].handler \in DOMAIN ErrorsOf
  BY <1>1, <1>2, RefusalOfUnknown DEF Types
<1>5. Types' /\ Alone(t) /\ pc'[t] = l /\ frame'[t] = f
  BY <1>1, <1>2, <1>3 DEF Types, Labels, Alone, serving
<1>6. HandledBy(t)'
  BY <1>2, <1>4, <1>5 DEF HandledBy, Handled, Underway, serving
<1>7. QED
  BY <1>5, <1>6, AloneHInv

LEMMA ReceiveHInv ==
    ASSUME HInv, NEW t \in Threads, Receive(t)
    PROVE  HInv'
<1>1. /\ pc[t] = "receive" /\ HandledBy(t) /\ Types
      /\ pc' = [pc EXCEPT ![t] = "serve"]
      /\ UNCHANGED <<request, frame, serving, trouble, lines, pending, store>>
  BY DEF Receive, At, Goto, Silent, HInv
<1>2. Types' /\ Alone(t) /\ pc'[t] = "serve"
  BY <1>1 DEF Types, Labels, Alone, serving
<1>3. HandledBy(t)'
  BY <1>1, <1>2 DEF HandledBy, Handled, Underway, serving
<1>4. QED
  BY <1>2, <1>3, AloneHInv

LEMMA ReceiveFailsHInv ==
    ASSUME HInv, NEW t \in Threads, ReceiveFails(t)
    PROVE  HInv'
<1>1. PICK class : Throw(t, class)
  BY DEF ReceiveFails
<1>2. /\ pc[t] = "receive" /\ HandledBy(t) /\ Types
      /\ operation' = [operation EXCEPT ![t] = "refused"]
      /\ trouble' = trouble \/ trouble' = [trouble EXCEPT ![t] = @ \cup {"wire"}]
      /\ UNCHANGED <<request, status, errors, wire, lines, pending, store>>
  BY DEF ReceiveFails, At, Set, Silent, HInv
<1>3. /\ trouble' \in [Threads -> SUBSET {"log", "wire", "late"}]
      /\ trouble[t] \subseteq trouble'[t]
      /\ \A u \in Threads \ {t} : trouble'[u] = trouble[u]
  <2>1. trouble \in [Threads -> SUBSET {"log", "wire", "late"}]
    BY <1>2 DEF Types
  <2>2. CASE trouble' = trouble
    BY <2>1, <2>2
  <2>3. CASE trouble' = [trouble EXCEPT ![t] = @ \cup {"wire"}]
    BY <2>1, <2>3
  <2>4. QED
    BY <1>2, <2>2, <2>3
<1>4. frame[t] # "none" /\ wire[t] = <<>> /\ operation'[t] = "refused"
  BY <1>2 DEF HandledBy, Handled, Underway, Types
<1>5. HandledBy(t)' /\ Moves(t)
  BY <1>1, <1>2, <1>3, <1>4, ThrowHandled
<1>6. Types' /\ Alone(t)
  BY <1>2, <1>3, <1>5 DEF Types, Alone, Moves
<1>7. QED
  BY <1>5, <1>6, AloneHInv

LEMMA RejectRouteHInv ==
    ASSUME HInv, NEW t \in Threads, RejectRoute(t)
    PROVE  HInv'
<1> DEFINE a == Answer(404, "ROUTE_NOT_FOUND")
<1>1. Types /\ HandledBy(t) /\ pc[t] = "serve"
  BY DEF HInv, RejectRoute, At
<1>2. PICK f \in {"_execute", frame[t]} : frame' = [frame EXCEPT ![t] = f]
  BY DEF RejectRoute, Reject, Set
<1>3. /\ answer' = [answer EXCEPT ![t] = a]
      /\ pc' = [pc EXCEPT ![t] = "error"]
      /\ UNCHANGED <<request, status, errors, operation, wire, trouble, lines, pending, store>>
  BY DEF RejectRoute, Reject, Goto, Set, Silent
<1>4. a \in Reply /\ IsError(a)
  <2>1. "ROUTE_NOT_FOUND" \in Text /\ "ROUTE_NOT_FOUND" \in ErrorCodes
    BY Texts DEF Words, ErrorCodes
  <2>2. QED
    BY <2>1, ErrorStatus DEF Answer, Reply, IsError
<1> HIDE DEF a
<1>5. Types' /\ Alone(t) /\ pc'[t] = "error" /\ answer'[t] = a /\ frame'[t] = f
  BY <1>1, <1>2, <1>3, <1>4 DEF Types, Labels, Alone
<1>6. HandledBy(t)'
  BY <1>1, <1>2, <1>3, <1>4, <1>5, ErrorDeserved DEF HandledBy, Handled, Underway
<1>7. QED
  BY <1>5, <1>6, AloneHInv

LEMMA SucceedHInv ==
    ASSUME HInv, NEW t \in Threads, Succeed(t)
    PROVE  HInv'
<1>1. /\ pc[t] = "serve" /\ HandledBy(t) /\ Types
      /\ operation' = [operation EXCEPT ![t] = "done"]
      /\ answer' = [answer EXCEPT ![t] = Success]
      /\ pc' = [pc EXCEPT ![t] = "respond"]
      /\ UNCHANGED <<request, frame, status, errors, wire, trouble, lines, pending, store>>
  BY DEF Succeed, Serving, At, Goto, Set, Silent, HInv
<1>2. Success \in Reply /\ ~(Success.status >= 300) /\ Success.code = ""
  BY SuccessIs
<1>3. /\ Types' /\ Alone(t) /\ pc'[t] = "respond" /\ answer'[t] = Success
      /\ operation'[t] = "done"
  BY <1>1, <1>2 DEF Types, Labels, Alone
<1>4. Deserved(Success, "done", request[t], trouble[t]) /\ Traced(Success, request[t], lines[t])
  BY <1>2 DEF Deserved, Traced
<1>5. HandledBy(t)'
  BY <1>1, <1>3, <1>4 DEF HandledBy, Handled, Underway
<1>6. QED
  BY <1>3, <1>5, AloneHInv

\* What a handler answers to an execution that failed: an error, but for the
\* cockpit; the error of a webhook is a 422.
LEMMA FailuresAre ==
    ASSUME NEW h \in DOMAIN FailureOf
    PROVE  /\ FailureOf[h] \in Reply
           /\ IsError(FailureOf[h]) \/ (h = "cockpit" /\ FailureOf[h] = Success)
           /\ h \in FailsUnlogged => FailureOf[h].status = 422
<1> USE DEF Answer, FailureOf
<1>1. FailureOf[h].code \in Text
  BY Texts
<1>2. h # "cockpit" => /\ FailureOf[h].status = 422 /\ FailureOf[h].code \in ErrorCodes
                       /\ FailureOf[h] = [status |-> FailureOf[h].status,
                                         code |-> FailureOf[h].code]
  BY DEF ErrorCodes
<1>3. h = "cockpit" => FailureOf[h] = Success
  OBVIOUS
<1> HIDE DEF Answer, FailureOf
<1>4. CASE h = "cockpit"
  BY <1>3, <1>4, SuccessIs DEF FailsUnlogged
<1>5. CASE h # "cockpit"
  BY <1>1, <1>2, <1>5 DEF Reply, Statuses, IsError
<1>6. QED
  BY <1>4, <1>5

LEMMA ReturnFailedHInv ==
    ASSUME HInv, NEW t \in Threads, ReturnFailed(t)
    PROVE  HInv'
<1> DEFINE h == request[t].handler
           a == FailureOf[h]
<1>1. /\ pc[t] = "serve" /\ HandledBy(t) /\ Types /\ h \in DOMAIN FailureOf
      /\ operation' = [operation EXCEPT ![t] = "failed"]
      /\ answer' = [answer EXCEPT ![t] = a]
      /\ UNCHANGED <<request, frame, status, errors, wire, trouble, lines, pending, store>>
  BY DEF ReturnFailed, Serving, At, Set, Silent, HInv, Handler
<1>2. PICK l \in {"respond", "error"} :
         /\ pc' = [pc EXCEPT ![t] = l]
         /\ l = "respond" => a.code = "" \/ h \in FailsUnlogged
         /\ l = "error" => a.code # ""
  BY DEF ReturnFailed, Goto, Handler
<1>3. /\ a \in Reply /\ (IsError(a) \/ (h = "cockpit" /\ a = Success))
      /\ h \in FailsUnlogged => a.status = 422
  BY <1>1, FailuresAre
<1>4. Success.code = "" /\ ~(Success.status >= 300)
  BY SuccessIs
<1> HIDE DEF a
<1>5. /\ Types' /\ Alone(t) /\ pc'[t] = l /\ answer'[t] = a /\ operation'[t] = "failed"
  <2>1. a \in Reply /\ l \in Labels
    BY <1>3 DEF Labels
  <2>2. pc' = [pc EXCEPT ![t] = l]
    BY <1>2
  <2>3. /\ pc' \in [Threads -> Labels] /\ answer' \in [Threads -> Reply]
        /\ operation' \in [Threads -> {"none", "refused", "failed", "done"}]
        /\ pc'[t] = l /\ answer'[t] = a /\ operation'[t] = "failed"
    BY <1>1, <2>1, <2>2 DEF Types
  <2>4. Types'
    BY <1>1, <2>3 DEF Types
  <2>5. Alone(t)
    BY <1>1, <2>2 DEF Alone, Types
  <2>6. QED
    BY <2>3, <2>4, <2>5
<1> USE DEF a
<1>6. Deserved(a, "failed", request[t], trouble[t])
  BY <1>3, <1>4, ErrorDeserved DEF Deserved
<1>7. l = "respond" => Traced(a, request[t], lines[t])
  BY <1>2, <1>3 DEF Traced
<1>8. l = "error" => IsError(a)
  BY <1>2, <1>3, <1>4
<1> HIDE DEF a, h
<1>9. HandledBy(t)'
  BY <1>1, <1>2, <1>5, <1>6, <1>7, <1>8 DEF HandledBy, Handled, Underway
<1>10. QED
  BY <1>5, <1>9, AloneHInv

LEMMA RaiseHInv ==
    ASSUME HInv, NEW t \in Threads, Raise(t)
    PROVE  HInv'
<1>1. PICK class : Throw(t, class)
  BY DEF Raise
<1>2. /\ pc[t] = "serve" /\ HandledBy(t) /\ Types
      /\ operation' = [operation EXCEPT ![t] = "refused"]
      /\ UNCHANGED <<request, status, errors, wire, trouble, lines, pending, store>>
  BY DEF Raise, Serving, At, Set, Silent, HInv
<1>3. frame[t] # "none" /\ wire[t] = <<>> /\ operation'[t] = "refused"
  BY <1>2 DEF HandledBy, Handled, Underway, Types
<1>4. HandledBy(t)' /\ Moves(t)
  BY <1>1, <1>2, <1>3, ThrowHandled
<1>5. Types' /\ Alone(t)
  BY <1>2, <1>4 DEF Types, Alone, Moves
<1>6. QED
  BY <1>4, <1>5, AloneHInv

LEMMA RaiseLateHInv ==
    ASSUME HInv, NEW t \in Threads, RaiseLate(t)
    PROVE  HInv'
<1>1. /\ pc[t] = "serve" /\ HandledBy(t) /\ Types /\ Throw(t, "Exception")
      /\ operation' = [operation EXCEPT ![t] = "done"]
      /\ trouble' = [trouble EXCEPT ![t] = @ \cup {"late"}]
      /\ UNCHANGED <<request, status, errors, wire, lines, pending, store>>
  BY DEF RaiseLate, Serving, At, Set, Silent, HInv
<1>2. wire[t] = <<>> /\ trouble'[t] = trouble[t] \cup {"late"}
  BY <1>1 DEF HandledBy, Handled, Underway, Types
<1>3. HandledBy(t)' /\ Moves(t)
  BY <1>1, <1>2, ThrowHandled
<1>4. Types' /\ Alone(t)
  BY <1>1, <1>3 DEF Types, Alone, Moves
<1>5. QED
  BY <1>3, <1>4, AloneHInv

\* Another line in the log takes nothing from the answer that was sent.
LEMMA SentLater ==
    ASSUME HInv, NEW t \in Threads, NEW e \in Text, NEW l, NEW st, wire[t] # <<>>,
           "wire" \in trouble[t] \/ ( /\ l \in {"body", "completed", "slow", "closed"}
                                      /\ st = status[t] )
    PROVE  Sent(l, wire[t][1], request[t], st, operation[t], trouble[t], Append(lines[t], e))
<1>1. Sent(pc[t], wire[t][1], request[t], status[t], operation[t], trouble[t], lines[t])
  BY DEF HInv, HandledBy, Handled
<1>2. Traced(wire[t][1], request[t], Append(lines[t], e))
  BY <1>1, TracedLater DEF Sent, HInv, Types
<1>3. QED
  BY <1>1, <1>2 DEF Sent

LEMMA LogErrorHInv ==
    ASSUME HInv, NEW t \in Threads, LogError(t)
    PROVE  HInv'
<1> DEFINE e == answer[t].code
<1>1. /\ pc[t] = "error" /\ HandledBy(t) /\ Types
      /\ errors' = [errors EXCEPT ![t] = @ \cup {e}]
      /\ UNCHANGED <<request, status, operation, wire>>
  BY DEF LogError, At, HInv
<1>2. e \in Text
  BY <1>1 DEF Types, Reply
<1>3. errors' \in [Threads -> SUBSET Text] /\ \A u \in Threads \ {t} : errors'[u] = errors[u]
  BY <1>1, <1>2 DEF Types
<1>4. CASE Write(t, e) /\ Goto(t, "respond") /\ UNCHANGED <<answer, frame>>
  <2> HIDE DEF e
  <2>1. /\ lines' \in [Threads -> Seq(Text)] /\ pending' \in [Threads -> Text]
        /\ lines'[t] = Append(lines[t], e) /\ lines[t] \in Seq(Text)
        /\ \A u \in Threads \ {t} : lines'[u] = lines[u]
        /\ UNCHANGED <<trouble, store>>
    BY <1>2, <1>4, WriteTypes
  <2>2. Types' /\ Alone(t) /\ pc'[t] = "respond"
    BY <1>1, <1>3, <1>4, <2>1 DEF Types, Labels, Alone, Goto
  <2>3. Traced(answer[t], request[t], lines'[t])
    BY <1>2, <2>1, TracedLater DEF e
  <2>4. wire[t] # <<>> =>
          Sent("respond", wire[t][1], request[t], status[t], operation[t], trouble[t], lines'[t])
    BY <1>1, <1>2, <2>1, SentLater DEF HandledBy, Handled, Sent
  <2>5. HandledBy(t)'
    BY <1>1, <1>4, <2>1, <2>2, <2>3, <2>4 DEF HandledBy, Handled, Underway
  <2>6. QED
    BY <2>2, <2>5, AloneHInv
<1>5. CASE WriteFails(t) /\ Throw(t, "Exception")
  <2>1. /\ trouble' \in [Threads -> SUBSET {"log", "wire", "late"}]
        /\ trouble'[t] = trouble[t] \cup {"log"}
        /\ \A u \in Threads \ {t} : trouble'[u] = trouble[u]
        /\ UNCHANGED <<lines, pending, store>>
    BY <1>5, WriteFailsTypes
  <2>2. wire[t] # <<>> => "wire" \in trouble'[t] /\ ~wire[t][1].complete
    BY <1>1, <2>1 DEF HandledBy, Handled, Sent
  <2>3. HandledBy(t)' /\ Moves(t)
    BY <1>1, <1>5, <2>1, <2>2, ThrowHandled
  <2>4. Types' /\ Alone(t)
    BY <1>1, <1>3, <2>1, <2>3 DEF Types, Alone, Moves
  <2>5. QED
    BY <2>3, <2>4, AloneHInv
<1>6. QED
  BY <1>4, <1>5 DEF LogError

LEMMA RespondHInv ==
    ASSUME HInv, NEW t \in Threads, Respond(t)
    PROVE  HInv'
<1> DEFINE e == answer[t].code
           n == answer[t].status
<1>1. /\ pc[t] = "respond" /\ HandledBy(t) /\ Types
      /\ status' = [status EXCEPT ![t] = n]
      /\ errors' = [errors EXCEPT ![t] = @ \cup ({e} \ {""})]
      /\ UNCHANGED <<request, operation, wire>>
  BY DEF Respond, At, Set, HInv
<1>2. e \in Text /\ n \in Statuses /\ "http_access" \in Text
  BY <1>1, Texts DEF Types, Reply, Words
<1>3. /\ errors' \in [Threads -> SUBSET Text] /\ status' \in [Threads -> Statuses]
      /\ \A u \in Threads \ {t} : errors'[u] = errors[u] /\ status'[u] = status[u]
      /\ status'[t] = n /\ (e # "" => e \in errors'[t])
  BY <1>1, <1>2 DEF Types
<1>4. wire[t] # <<>> => "wire" \in trouble[t] /\ ~wire[t][1].complete
  BY <1>1 DEF HandledBy, Handled, Sent
<1>5. CASE Write(t, "http_access") /\ Goto(t, "head") /\ UNCHANGED <<answer, frame>>
  <2>1. /\ lines' \in [Threads -> Seq(Text)] /\ pending' \in [Threads -> Text]
        /\ lines'[t] = Append(lines[t], "http_access") /\ lines[t] \in Seq(Text)
        /\ \A u \in Threads \ {t} : lines'[u] = lines[u]
        /\ UNCHANGED <<trouble, store>>
    BY <1>2, <1>5, WriteTypes
  <2>2. Types' /\ Alone(t) /\ pc'[t] = "head"
    BY <1>1, <1>3, <1>5, <2>1 DEF Types, Labels, Alone, Goto
  <2>3. Traced(answer[t], request[t], lines'[t])
    <3>1. Traced(answer[t], request[t], lines[t])
      BY <1>1 DEF HandledBy, Handled, Underway
    <3>2. QED
      BY <1>2, <2>1, <3>1, TracedLater
  <2>4. wire[t] # <<>> =>
          Sent("head", wire[t][1], request[t], status'[t], operation[t], trouble[t], lines'[t])
    BY <1>2, <1>4, <2>1, SentLater
  <2>5. HandledBy(t)'
    BY <1>1, <1>3, <1>5, <2>1, <2>2, <2>3, <2>4 DEF HandledBy, Handled, Underway
  <2>6. QED
    BY <2>2, <2>5, AloneHInv
<1>6. CASE WriteFails(t) /\ Throw(t, "Exception")
  <2>1. /\ trouble' \in [Threads -> SUBSET {"log", "wire", "late"}]
        /\ trouble'[t] = trouble[t] \cup {"log"}
        /\ \A u \in Threads \ {t} : trouble'[u] = trouble[u]
        /\ UNCHANGED <<lines, pending, store>>
    BY <1>6, WriteFailsTypes
  <2>2. HandledBy(t)' /\ Moves(t)
    BY <1>1, <1>4, <1>6, <2>1, ThrowHandled
  <2>3. Types' /\ Alone(t)
    BY <1>1, <1>3, <2>1, <2>2 DEF Types, Alone, Moves
  <2>4. QED
    BY <2>2, <2>3, AloneHInv
<1>7. QED
  BY <1>5, <1>6 DEF Respond

LEMMA SendHeadHInv ==
    ASSUME HInv, NEW t \in Threads, SendHead(t)
    PROVE  HInv'
<1>1. /\ pc[t] = "head" /\ HandledBy(t) /\ Types /\ "wire" \notin trouble[t]
      /\ pc' = [pc EXCEPT ![t] = "body"]
      /\ UNCHANGED <<request, frame, answer, status, errors, operation, trouble, lines,
                     pending, store>>
  BY DEF SendHead, At, Goto, Silent, HInv
<1>2. PICK w : /\ w = [status |-> answer[t].status, code |-> answer[t].code,
                       errors |-> errors[t], complete |-> FALSE]
               /\ wire' = [wire EXCEPT ![t] = Append(@, w)]
  BY DEF SendHead
<1>3. w \in Wired
  BY <1>1, <1>2 DEF Types, Reply, Wired
<1>4. wire[t] = <<>>
  BY <1>1 DEF HandledBy, Handled, Sent
<1>5. /\ w.status = answer[t].status /\ w.code = answer[t].code /\ w.errors = errors[t]
      /\ w.complete = FALSE
  BY <1>2
<1>6. Append(wire[t], w) \in Seq(Wired)
  BY <1>1, <1>3 DEF Types
<1>7. /\ Append(wire[t], w) # <<>> /\ Len(Append(wire[t], w)) = 1
      /\ Append(wire[t], w)[1] = w
  BY <1>3, <1>4
<1> DEFINE ws == Append(wire[t], w)
<1>8. wire' = [wire EXCEPT ![t] = ws]
  BY <1>2
<1> HIDE DEF ws
<1>9. Types' /\ Alone(t) /\ pc'[t] = "body" /\ wire'[t] = ws
  BY <1>1, <1>6, <1>8 DEF Types, Labels, Alone, ws
<1>10. Sent("body", w, request[t], status[t], operation[t], trouble[t], lines[t])
  BY <1>1, <1>5 DEF HandledBy, Handled, Underway, Sent, Deserved, Traced
<1>11. HandledBy(t)'
  BY <1>1, <1>5, <1>7, <1>9, <1>10 DEF HandledBy, Handled, Underway, ws
<1>12. QED
  BY <1>9, <1>11, AloneHInv

LEMMA SendBodyHInv ==
    ASSUME HInv, NEW t \in Threads, SendBody(t)
    PROVE  HInv'
<1>1. /\ pc[t] = "body" /\ HandledBy(t) /\ Types /\ "wire" \notin trouble[t]
      /\ pc' = [pc EXCEPT ![t] = "completed"]
      /\ wire' = [wire EXCEPT ![t][Len(wire[t])].complete = TRUE]
      /\ UNCHANGED <<request, frame, answer, status, errors, operation, trouble, lines,
                     pending, store>>
  BY DEF SendBody, At, Goto, Silent, HInv
<1>2. wire[t] # <<>> /\ Len(wire[t]) = 1 /\ wire[t] \in Seq(Wired) /\ wire[t][1] \in Wired
  BY <1>1 DEF HandledBy, Handled, Underway, Types
<1> DEFINE w == wire[t][1]
           v == [w EXCEPT !.complete = TRUE]
           ws == [wire[t] EXCEPT ![1] = v]
<1>3. wire' = [wire EXCEPT ![t] = ws]
  BY <1>1, <1>2
<1>4. v \in Wired /\ v.status = w.status /\ v.code = w.code /\ v.errors = w.errors /\ v.complete
  BY <1>2 DEF Wired
<1>5. ws \in Seq(Wired) /\ ws # <<>> /\ Len(ws) = 1 /\ ws[1] = v
  <2> HIDE DEF v
  <2>1. QED
    BY <1>2, <1>4
<1>6. Sent("body", w, request[t], status[t], operation[t], trouble[t], lines[t])
  BY <1>1, <1>2 DEF HandledBy, Handled
<1> HIDE DEF v, ws, w
<1>7. Types' /\ Alone(t) /\ pc'[t] = "completed" /\ wire'[t] = ws
  BY <1>1, <1>3, <1>5 DEF Types, Labels, Alone
<1>8. Sent("completed", v, request[t], status[t], operation[t], trouble[t], lines[t])
  <2>1. Deserved(v, operation[t], request[t], trouble[t]) /\ Traced(v, request[t], lines[t])
    <3>1. Deserved(w, operation[t], request[t], trouble[t]) /\ Traced(w, request[t], lines[t])
      BY <1>6 DEF Sent
    <3>2. v.status = w.status /\ v.code = w.code
      BY <1>4
    <3>3. Deserved(v, operation[t], request[t], trouble[t])
      BY <3>1, <3>2, Zenon DEF Deserved
    <3>4. Traced(v, request[t], lines[t])
      BY <3>1, <3>2, Zenon DEF Traced
    <3>5. QED
      BY <3>3, <3>4
  <2>2. QED
    BY <1>1, <1>4, <1>6, <2>1 DEF Sent
<1>9. HandledBy(t)'
  BY <1>1, <1>4, <1>5, <1>7, <1>8 DEF HandledBy, Handled, Underway
<1>10. QED
  BY <1>7, <1>9, AloneHInv

LEMMA SendFailsHInv ==
    ASSUME HInv, NEW t \in Threads, SendFails(t)
    PROVE  HInv'
<1>1. /\ pc[t] \in {"head", "body"} /\ HandledBy(t) /\ Types /\ Throw(t, "Exception")
      /\ trouble' = [trouble EXCEPT ![t] = @ \cup {"wire"}]
      /\ UNCHANGED <<request, status, errors, operation, wire, lines, pending, store>>
  BY DEF SendFails, At, Silent, HInv
<1>2. trouble'[t] = trouble[t] \cup {"wire"}
  BY <1>1 DEF Types
<1>3. wire[t] # <<>> => ~wire[t][1].complete
  BY <1>1 DEF HandledBy, Handled, Underway, Sent
<1>4. HandledBy(t)' /\ Moves(t)
  BY <1>1, <1>2, <1>3, ThrowHandled
<1>5. Types' /\ Alone(t)
  BY <1>1, <1>4 DEF Types, Alone, Moves
<1>6. QED
  BY <1>4, <1>5, AloneHInv

\* A request that is over: only the log is still written.
LEMMA OverHInv ==
    ASSUME HInv, NEW t \in Threads, pc[t] \in {"completed", "slow"},
           NEW l \in {"slow", "closed"}, Goto(t, l), NEW e \in Text,
           Write(t, e) \/ WriteFails(t),
           UNCHANGED <<request, frame, serving>>
    PROVE  HInv'
<1>1. HandledBy(t) /\ Types /\ pc' = [pc EXCEPT ![t] = l]
  BY DEF HInv, Goto
<1>2. CASE Write(t, e)
  <2>1. /\ lines' \in [Threads -> Seq(Text)] /\ pending' \in [Threads -> Text]
        /\ lines'[t] = Append(lines[t], e)
        /\ \A u \in Threads \ {t} : lines'[u] = lines[u]
        /\ UNCHANGED <<trouble, store>>
    BY <1>2, WriteTypes
  <2>2. Types' /\ Alone(t) /\ pc'[t] = l
    BY <1>1, <2>1 DEF Types, Labels, Alone, serving
  <2>3. wire[t] # <<>> =>
          Sent(l, wire[t][1], request[t], status[t], operation[t], trouble[t], lines'[t])
    BY <2>1, SentLater
  <2>4. HandledBy(t)'
    BY <1>1, <2>1, <2>2, <2>3 DEF HandledBy, Handled, Underway, serving
  <2>5. QED
    BY <2>2, <2>4, AloneHInv
<1>3. CASE WriteFails(t)
  <2>1. /\ trouble' \in [Threads -> SUBSET {"log", "wire", "late"}]
        /\ trouble'[t] = trouble[t] \cup {"log"}
        /\ \A u \in Threads \ {t} : trouble'[u] = trouble[u]
        /\ UNCHANGED <<lines, pending, store>>
    BY <1>3, WriteFailsTypes
  <2>2. Types' /\ Alone(t) /\ pc'[t] = l
    BY <1>1, <2>1 DEF Types, Labels, Alone, serving
  <2>3. wire[t] # <<>> =>
          Sent(l, wire[t][1], request[t], status[t], operation[t], trouble'[t], lines[t])
    BY <1>1, <2>1 DEF HandledBy, Handled, Sent, Deserved
  <2>4. HandledBy(t)'
    BY <1>1, <2>1, <2>2, <2>3 DEF HandledBy, Handled, Underway, serving
  <2>5. QED
    BY <2>2, <2>4, AloneHInv
<1>4. QED
  BY <1>2, <1>3

LEMMA LogCompletedHInv ==
    ASSUME HInv, NEW t \in Threads, LogCompleted(t)
    PROVE  HInv'
<1>1. "request_completed" \in Text
  BY Texts DEF Words
<1>2. QED
  BY <1>1, OverHInv DEF LogCompleted, At

LEMMA LogSlowHInv ==
    ASSUME HInv, NEW t \in Threads, LogSlow(t)
    PROVE  HInv'
<1>1. "slow_request" \in Text
  BY Texts DEF Words
<1>2. QED
  BY <1>1, OverHInv DEF LogSlow, At

LEMMA HearHInv ==
    ASSUME HInv, NEW t \in Threads, Hear(t)
    PROVE  HInv'
<1> DEFINE all == Append(store, <<t, pending[t]>>)
<1>1. Types /\ HandledBy(t) /\ Limit \in Nat
  BY RequestAssumption DEF HInv
<1>2. /\ store' = IF Len(all) > Limit THEN Tail(all) ELSE all
      /\ pending' = [pending EXCEPT ![t] = ""]
      /\ UNCHANGED <<pc, request, frame, serving, trouble, lines>>
  BY DEF Hear, Set
<1>3. /\ <<t, pending[t]>> \in Threads \X Text /\ store \in Seq(Threads \X Text)
      /\ Len(store) <= Limit
  BY <1>1 DEF Types
<1>4. store' \in Seq(Threads \X Text) /\ Len(store') <= Limit
  <2>1. ASSUME NEW S, NEW s \in Seq(S), NEW x \in S
        PROVE  /\ Append(s, x) \in Seq(S) /\ Len(Append(s, x)) = Len(s) + 1
               /\ Append(s, x) # <<>> /\ Len(s) \in Nat
    OBVIOUS
  <2>2. /\ all \in Seq(Threads \X Text) /\ Len(all) = Len(store) + 1 /\ Len(store) \in Nat
        /\ all # <<>>
    BY <1>3, <2>1, Zenon
  <2> HIDE DEF all
  <2>3. Tail(all) \in Seq(Threads \X Text) /\ Len(Tail(all)) = Len(all) - 1
    BY <2>2
  <2>4. CASE Len(all) > Limit
    <3>1. store' = Tail(all)
      BY <1>2, <2>4, Zenon
    <3>2. QED
      BY <1>3, <2>2, <2>3, <3>1
  <2>5. CASE ~(Len(all) > Limit)
    <3>1. store' = all
      BY <1>2, <2>5, Zenon
    <3>2. QED
      BY <1>1, <2>2, <2>5, <3>1
  <2>6. QED
    BY <2>4, <2>5
<1>5. "" \in Text
  BY Texts DEF Words
<1>6. Types'
  BY <1>1, <1>2, <1>4, <1>5 DEF Types, serving
<1>7. Alone(t) /\ HandledBy(t)'
  BY <1>1, <1>2 DEF Alone, HandledBy, serving
<1>8. QED
  BY <1>6, <1>7, AloneHInv

LEMMA NextHInv == HInv /\ [Next]_vars => HInv'
<1> SUFFICES ASSUME HInv, [Next]_vars PROVE HInv'
  OBVIOUS
<1>1. ASSUME NEW t \in Threads, Accept(t) \/ Work(t)
      PROVE  HInv'
  BY <1>1, AcceptHInv, LogStartedHInv, RefuseHInv, DispatchHInv, ReceiveHInv,
     ReceiveFailsHInv, RejectRouteHInv,
     SucceedHInv, ReturnFailedHInv, RaiseHInv, RaiseLateHInv, LogErrorHInv, RespondHInv,
     SendHeadHInv, SendBodyHInv, SendFailsHInv, LogCompletedHInv, LogSlowHInv, HearHInv
     DEF Work
<1>2. CASE UNCHANGED vars
  BY <1>2 DEF vars, serving, HInv, Types, HandledBy
<1>3. QED
  BY <1>1, <1>2 DEF Next

-----------------------------------------------------------------------------
\* At every label of every request, what is under way and what was sent agree
\* with what was done, with the summary and with the log (api.py:125-191,
\* 264-287).
THEOREM RequestInvariance == Spec => []HInv
<1>1. QED
  BY InitHInv, NextHInv, PTL DEF Spec

\* Every variable of the boundary keeps its type, and the event store never
\* outgrows its limit (cockpit/models.py:38-44).
THEOREM TypeCorrect == Spec => []TypeOK
<1>1. ASSUME HInv PROVE TypeOK
  <2>1. Types
    BY <1>1 DEF HInv
  <2>2. \A t \in Threads : answer[t].status \in Statuses /\ status[t] \in Statuses
    BY <2>1 DEF Types, Reply
  <2>3. ASSUME NEW i \in DOMAIN store PROVE store[i][1] \in Threads
    BY <2>1, <2>3 DEF Types
  <2>4. QED
    BY <2>1, <2>2, <2>3 DEF Types, TypeOK, Statuses
<1>2. QED
  BY <1>1, RequestInvariance, PTL

\* Whatever the try of the handler, that of _execute, the log and the connection
\* do, a connection carries at most one answer, an undisturbed request gets it
\* whole, and a success means that the thing was done (api.py:125-191, 264-287
\* and the handle methods).
THEOREM AnswerIsTrueAlways == Spec => []AnswerIsTrue
<1>1. ASSUME HInv PROVE AnswerIsTrue
  <2>1. ASSUME NEW t \in Threads
        PROVE  /\ HandledBy(t) /\ wire[t] \in Seq(Wired)
               /\ wire[t] = <<>> => Len(wire[t]) = 0
    BY <1>1 DEF HInv, Types
  <2>2. AnsweredOnce
    <3>1. ASSUME NEW t \in Threads PROVE Len(wire[t]) <= 1
      <4>1. Len(wire[t]) = 0 \/ Len(wire[t]) = 1
        BY <2>1, <3>1 DEF HandledBy, Handled
      <4>2. \A n \in {0, 1} : n <= 1
        OBVIOUS
      <4>3. QED
        BY <4>1, <4>2, Zenon
    <3>2. ASSUME NEW t \in Threads, At(t, "closed"), trouble[t] = {}
          PROVE  Len(wire[t]) = 1 /\ wire[t][1].complete
      BY <2>1, <3>2 DEF At, HandledBy, Handled, Underway
    <3>3. QED
      BY <3>1, <3>2 DEF AnsweredOnce
  <2>3. SuccessIsDone
    BY <2>1 DEF SuccessIsDone, HandledBy, Handled, Sent, Deserved, Handler
  <2>4. QED
    BY <2>2, <2>3 DEF AnswerIsTrue
<1>2. QED
  BY <1>1, RequestInvariance, PTL

\* What request_completed reports is what the client was sent, unless it went
\* away meanwhile, and the code of an error answer is in its summary and in the
\* log (api.py:182, 235-287; observability.py:103-133).
THEOREM LogIsTrueAlways == Spec => []LogIsTrue
<1>1. ASSUME HInv PROVE LogIsTrue
  <2>1. \A t \in Threads : HandledBy(t)
    BY <1>1 DEF HInv
  <2>2. LoggedIsSent
    BY <2>1 DEF LoggedIsSent, At, HandledBy, Handled, Sent
  <2>3. ErrorIsTraceable
    BY <2>1 DEF ErrorIsTraceable, HandledBy, Handled, Sent, Traced, Handler
  <2>4. QED
    BY <2>2, <2>3 DEF LogIsTrue
<1>2. QED
  BY <1>1, RequestInvariance, PTL

-----------------------------------------------------------------------------
(***************************************************************************)
(* The cockpit's window on the log.  Positions of the store are counted    *)
(* from its end, so that dropping the oldest record changes no count.      *)
(***************************************************************************)
LEMMA RecordsCount ==
    ASSUME NEW S, NEW s \in Seq(S), NEW t, NEW i \in Nat
    PROVE  /\ IsFiniteSet(Records(s, t, i)) /\ Cardinality(Records(s, t, i)) \in Nat
           /\ i > Len(s) => Cardinality(Records(s, t, i)) = 0
<1>1. Len(s) \in Nat
  OBVIOUS
<1>2. IsFiniteSet(i..Len(s))
  BY <1>1, FS_Interval
<1>3. Records(s, t, i) \in SUBSET (i..Len(s))
  BY DEF Records
<1>4. IsFiniteSet(Records(s, t, i))
  BY <1>2, <1>3, FS_Subset
<1>5. ASSUME i > Len(s) PROVE Records(s, t, i) = {}
  BY <1>1, <1>5 DEF Records
<1>6. QED
  BY <1>4, <1>5, FS_CardinalityType, FS_EmptySet

LEMMA RecordsAppend ==
    ASSUME NEW S, NEW s \in Seq(S), NEW e \in S, NEW t, NEW i \in 1..Len(s) + 1
    PROVE  /\ e[1] = t => Cardinality(Records(Append(s, e), t, i))
                             = Cardinality(Records(s, t, i)) + 1
           /\ e[1] # t => Cardinality(Records(Append(s, e), t, i))
                             = Cardinality(Records(s, t, i))
<1> DEFINE r == Append(s, e)
<1>1. /\ Len(s) \in Nat /\ Len(r) = Len(s) + 1 /\ r[Len(s) + 1] = e
      /\ \A j \in 1..Len(s) : r[j] = s[j]
  OBVIOUS
<1>2. i \in Nat /\ Len(s) + 1 \notin Records(s, t, i)
  BY <1>1 DEF Records
<1> HIDE DEF r
<1>3. CASE e[1] = t
  <2>1. Records(r, t, i) = Records(s, t, i) \cup {Len(s) + 1}
    BY <1>1, <1>3 DEF Records
  <2>2. QED
    BY <1>2, <1>3, <2>1, RecordsCount, FS_AddElement DEF r
<1>4. CASE e[1] # t
  <2>1. Records(r, t, i) = Records(s, t, i)
    BY <1>1, <1>4 DEF Records
  <2>2. QED
    BY <1>4, <2>1 DEF r
<1>5. QED
  BY <1>3, <1>4

LEMMA RecordsTail ==
    ASSUME NEW S, NEW s \in Seq(S), s # <<>>, NEW t, NEW i \in Nat \ {0}
    PROVE  Cardinality(Records(Tail(s), t, i)) = Cardinality(Records(s, t, i + 1))
<1> DEFINE r == Tail(s)
           A == Records(s, t, i + 1)
           B == Records(r, t, i)
           f == [j \in A |-> j - 1]
<1>1. /\ Len(s) \in Nat /\ Len(r) = Len(s) - 1
      /\ \A j \in 1..Len(s) - 1 : r[j] = s[j + 1]
  OBVIOUS
<1>2. IsFiniteSet(A)
  BY RecordsCount
<1> HIDE DEF r
<1>3. f \in [A -> B]
  <2>1. ASSUME NEW j \in A PROVE j - 1 \in B
    BY <1>1, <2>1 DEF Records
  <2>2. QED
    BY <2>1
<1>4. ASSUME NEW j \in B PROVE \E k \in A : f[k] = j
  <2>1. j + 1 \in A
    BY <1>1, <1>4 DEF Records
  <2>2. f[j + 1] = j
    BY <2>1, <1>4 DEF Records
  <2>3. QED
    BY <2>1, <2>2
<1>5. \A j, k \in A : f[j] = f[k] => j = k
  <2>1. \A j \in A : j \in Int
    BY DEF Records
  <2>2. QED
    BY <2>1
<1> HIDE DEF A, B, f
<1>6. f \in Bijection(A, B)
  <2>1. f \in {g \in [A -> B] : \A j, k \in A : g[j] = g[k] => j = k}
    BY <1>3, <1>5, Zenon
  <2>4. f \in Injection(A, B)
    BY <2>1, Zenon DEF Injection, IsInjective
  <2>2. f \in Surjection(A, B)
    BY <1>3, <1>4, Zenon DEF Surjection
  <2>3. QED
    BY <2>2, <2>4, Zenon DEF Bijection
<1>8. ExistsBijection(A, B)
  BY <1>6 DEF ExistsBijection
<1>7. QED
  BY <1>2, <1>8, FS_Bijection DEF r, A, B

\* The event that a request is handing over is its last line.
Handed == \A t \in Threads : pending[t] # "" =>
              lines[t] # <<>> /\ lines[t][Len(lines[t])] = pending[t]

WInv == HInv /\ Handed /\ StoreIsWindow

\* StoreIsWindow of any store s, announced events h and log l.
InStep(s, h, l) ==
    \A i \in DOMAIN s :
        LET t == s[i][1]
            n == Cardinality(Records(s, t, i))
        IN n <= h[t] /\ s[i][2] = l[t][h[t] - n + 1]

WindowOf(s, h, l) ==
    /\ InStep(s, h, l)
    /\ Len(s) <= Limit
    /\ Len(s) < Limit => \A t \in Threads : Cardinality(Records(s, t, 1)) = h[t]

Counts == [t \in Threads |-> Announced(t)]

LEMMA WindowIs == HInv => (StoreIsWindow <=> WindowOf(store, Counts, lines))
<1> SUFFICES ASSUME HInv PROVE StoreIsWindow <=> WindowOf(store, Counts, lines)
  OBVIOUS
<1>1. \A i \in DOMAIN store : store[i][1] \in Threads
  BY DEF HInv, Types
<1>2. QED
  BY <1>1 DEF StoreIsWindow, WindowOf, InStep, Counts

\* A step that hands nothing over leaves what was announced alone; one that
\* writes a line has nothing pending.
Quiet(t) ==
    /\ store' = store
    /\ \A u \in Threads \ {t} : lines'[u] = lines[u] /\ pending'[u] = pending[u]
    /\ \/ lines'[t] = lines[t] /\ pending'[t] = pending[t]
       \/ pending[t] = "" /\ \E e \in Text \ {""} : lines'[t] = Append(lines[t], e) /\ pending'[t] = e

LEMMA WriteQuiet ==
    ASSUME HInv, NEW t \in Threads, pending[t] = "", NEW e \in Text \ {""}, Write(t, e)
    PROVE  Quiet(t)
BY DEF HInv, Types, Write, Set, Quiet

LEMMA StepQuiet ==
    ASSUME HInv, NEW t \in Threads, (Accept(t) \/ Work(t)) /\ ~Hear(t)
    PROVE  Quiet(t)
<1>1. ASSUME UNCHANGED <<lines, pending, store>> PROVE Quiet(t)
  BY <1>1 DEF Quiet
<1>2. \A e \in {"request_started", "http_access", "request_completed", "slow_request"} :
         e \in Text \ {""}
  BY Texts DEF Words
<1>3. CASE LogStarted(t)
  BY <1>1, <1>2, <1>3, WriteQuiet DEF LogStarted, At, WriteFails
<1>4. CASE LogError(t)
  <2>1. answer[t].code \in Text \ {""}
    <3>1. IsError(answer[t]) /\ answer[t] \in Reply
      BY <1>4 DEF LogError, At, HInv, HandledBy, Handled, Underway, Types
    <3>2. \A c \in ErrorCodes : c # ""
      BY DEF ErrorCodes
    <3>3. QED
      BY <3>1, <3>2 DEF IsError, Reply
  <2>2. QED
    BY <1>1, <1>4, <2>1, WriteQuiet DEF LogError, At, WriteFails
<1>5. CASE Respond(t)
  BY <1>1, <1>2, <1>5, WriteQuiet DEF Respond, At, WriteFails
<1>6. CASE LogCompleted(t)
  BY <1>1, <1>2, <1>6, WriteQuiet DEF LogCompleted, At, WriteFails
<1>7. CASE LogSlow(t)
  BY <1>1, <1>2, <1>7, WriteQuiet DEF LogSlow, At, WriteFails
<1>8. QED
  BY <1>1, <1>3, <1>4, <1>5, <1>6, <1>7
     DEF Work, Accept, Refuse, Dispatch, Receive, ReceiveFails, RejectRoute, Succeed, ReturnFailed, Raise, RaiseLate,
         SendHead, SendBody, SendFails, Silent

LEMMA Steps == \A n \in Nat : /\ n - 0 = n /\ (n + 1) - 1 = n
                              /\ n >= 1 => n - 1 \in Nat /\ (n - 1) + 1 = n
OBVIOUS

LEMMA LogLength ==
    ASSUME NEW l \in Seq(Text)
    PROVE  Len(l) \in Nat /\ (l # <<>> => Len(l) >= 1)
OBVIOUS

LEMMA LogAppend ==
    ASSUME NEW l \in Seq(Text), NEW e \in Text, NEW m, m = Append(l, e)
    PROVE  /\ Len(m) = Len(l) + 1 /\ m # <<>> /\ m[Len(l) + 1] = e
           /\ \A p \in 1..Len(l) : m[p] = l[p]
OBVIOUS

LEMMA AnnouncedBound ==
    ASSUME WInv, NEW u \in Threads
    PROVE  /\ lines[u] \in Seq(Text) /\ Len(lines[u]) \in Nat
           /\ Announced(u) \in Nat
           /\ pending[u] = "" => Announced(u) = Len(lines[u])
           /\ pending[u] # "" => Announced(u) + 1 = Len(lines[u])
<1>1. lines[u] \in Seq(Text) /\ (pending[u] # "" => lines[u] # <<>>)
  BY DEF WInv, HInv, Types, Handed
<1>2. Len(lines[u]) \in Nat /\ (pending[u] # "" => Len(lines[u]) >= 1)
  BY <1>1, LogLength
<1>4. CASE pending[u] = ""
  <2>1. Announced(u) = Len(lines[u]) - 0
    BY <1>4, Zenon DEF Announced
  <2>2. QED
    BY <1>1, <1>2, <1>4, <2>1, Steps, Zenon
<1>5. CASE pending[u] # ""
  <2>1. Announced(u) = Len(lines[u]) - 1
    BY <1>5, Zenon DEF Announced
  <2>2. QED
    BY <1>1, <1>2, <1>5, <2>1, Steps, Zenon
<1>6. QED
  BY <1>4, <1>5

LEMMA OwnRecord ==
    ASSUME NEW s \in Seq(Threads \X Text), NEW i \in DOMAIN s
    PROVE  /\ s[i][1] \in Threads /\ i \in 1..Len(s) /\ Len(s) \in Nat
           /\ Cardinality(Records(s, s[i][1], i)) \in Nat \ {0}
<1>1. s[i][1] \in Threads /\ i \in 1..Len(s) /\ Len(s) \in Nat
  OBVIOUS
<1>2. i \in Records(s, s[i][1], i) /\ i \in Nat
  BY <1>1 DEF Records
<1>3. QED
  BY <1>1, <1>2, RecordsCount, FS_EmptySet

\* Only the announced events matter.
LEMMA QuietWindow ==
    ASSUME NEW s \in Seq(Threads \X Text), NEW h \in [Threads -> Nat], NEW l, NEW m,
           WindowOf(s, h, l), \A t \in Threads : \A p \in 1..h[t] : m[t][p] = l[t][p]
    PROVE  WindowOf(s, h, m)
<1>1. ASSUME NEW i \in DOMAIN s, NEW t, t = s[i][1],
             NEW n, n = Cardinality(Records(s, t, i))
      PROVE  n <= h[t] /\ s[i][2] = m[t][h[t] - n + 1]
  <2>1. t \in Threads /\ n \in Nat \ {0} /\ h[t] \in Nat
    BY <1>1, OwnRecord
  <2>2. n <= h[t] /\ s[i][2] = l[t][h[t] - n + 1]
    BY <1>1 DEF WindowOf, InStep
  <2>3. h[t] - n + 1 \in 1..h[t]
    BY <2>1, <2>2
  <2>4. QED
    BY <2>1, <2>2, <2>3
<1>2. QED
  BY <1>1 DEF WindowOf, InStep

LEMMA TailOf ==
    ASSUME NEW S, NEW s \in Seq(S), s # <<>>
    PROVE  /\ Tail(s) \in Seq(S) /\ Len(Tail(s)) = Len(s) - 1
           /\ DOMAIN Tail(s) = 1..Len(s) - 1
           /\ \A i \in 1..Len(s) - 1 : Tail(s)[i] = s[i + 1]
OBVIOUS

LEMMA HearWindow ==
    ASSUME NEW s \in Seq(Threads \X Text), NEW h \in [Threads -> Nat], NEW l,
           WindowOf(s, h, l),
           NEW t \in Threads, NEW e \in Text, l[t][h[t] + 1] = e,
           NEW r, r = Append(s, <<t, e>>),
           NEW g, g = [h EXCEPT ![t] = h[t] + 1]
    PROVE  WindowOf(IF Len(r) > Limit THEN Tail(r) ELSE r, g, l)
<1> DEFINE new == <<t, e>>
<1>1. Limit \in Nat \ {0} /\ Len(s) \in Nat /\ Len(s) <= Limit
  BY RequestAssumption DEF WindowOf, InStep
<1>2. new \in Threads \X Text /\ new[1] = t /\ new[2] = e
  OBVIOUS
<1> HIDE DEF new
<1>3. /\ r \in Seq(Threads \X Text) /\ Len(r) = Len(s) + 1 /\ r # <<>>
      /\ DOMAIN r = 1..Len(s) + 1 /\ DOMAIN s = 1..Len(s) /\ r[Len(s) + 1] = new
      /\ \A i \in 1..Len(s) : r[i] = s[i]
  BY <1>2 DEF new
<1>4. g \in [Threads -> Nat] /\ g[t] = h[t] + 1 /\ \A u \in Threads \ {t} : g[u] = h[u]
  OBVIOUS
<1>5. \A u \in Threads : \A i \in 1..Len(s) + 1 :
         /\ u = t => Cardinality(Records(r, u, i)) = Cardinality(Records(s, u, i)) + 1
         /\ u # t => Cardinality(Records(r, u, i)) = Cardinality(Records(s, u, i))
  <2>1. r = Append(s, new)
    BY DEF new
  <2>2. \A u \in Threads : new[1] = u <=> u = t
    BY <1>2
  <2>3. \A u : \A i \in 1..Len(s) + 1 :
           /\ new[1] = u => Cardinality(Records(Append(s, new), u, i))
                               = Cardinality(Records(s, u, i)) + 1
           /\ new[1] # u => Cardinality(Records(Append(s, new), u, i))
                               = Cardinality(Records(s, u, i))
    BY <1>2, RecordsAppend
  <2>4. QED
    BY <2>1, <2>2, <2>3, Zenon
\* Every record of r is as far from the end as its event.
<1>6. ASSUME NEW i \in DOMAIN r
      PROVE  LET u == r[i][1]
                 n == Cardinality(Records(r, u, i))
             IN n <= g[u] /\ r[i][2] = l[u][g[u] - n + 1]
  <2> DEFINE u == r[i][1]
             n == Cardinality(Records(r, u, i))
  <2>4. u = r[i][1] /\ n = Cardinality(Records(r, u, i))
    OBVIOUS
  <2> HIDE DEF u, n
  <2>1. ASSUME i \in 1..Len(s)
        PROVE  n <= g[u] /\ r[i][2] = l[u][g[u] - n + 1]
    <3>1. PICK k \in Nat : k = Cardinality(Records(s, u, i))
      BY <1>3, <2>4, <2>1, OwnRecord
    <3>2. u \in Threads /\ k <= h[u] /\ s[i][2] = l[u][h[u] - k + 1] /\ h[u] \in Nat
      BY <1>3, <2>4, <2>1, <3>1, OwnRecord DEF WindowOf, InStep
    <3>3. CASE u = t
      <4>1. n = k + 1 /\ g[u] = h[u] + 1
        <5>1. i \in 1..Len(s) + 1
          BY <1>1, <2>1
        <5>2. QED
          BY <1>4, <1>5, <2>4, <3>1, <3>2, <3>3, <5>1, Zenon
      <4>2. g[u] - n + 1 = h[u] - k + 1 /\ n <= g[u]
        BY <3>1, <3>2, <4>1
      <4>3. QED
        BY <1>3, <2>1, <3>2, <4>2
    <3>4. CASE u # t
      <4>1. n = k /\ g[u] = h[u]
        <5>1. i \in 1..Len(s) + 1
          BY <1>1, <2>1
        <5>2. u \in Threads \ {t}
          BY <3>2, <3>4
        <5>3. QED
          BY <1>4, <1>5, <2>4, <3>1, <3>2, <3>4, <5>1, <5>2, Zenon
      <4>2. QED
        BY <1>3, <2>1, <3>2, <4>1
    <3>5. QED
      BY <3>3, <3>4
  <2>2. ASSUME i = Len(s) + 1
        PROVE  n <= g[u] /\ r[i][2] = l[u][g[u] - n + 1]
    <3>1. u = t /\ r[i][2] = e
      BY <1>2, <1>3, <2>4, <2>2
    <3>2. Cardinality(Records(s, t, i)) = 0
      BY <1>1, <2>2, RecordsCount
    <3>3. n = 1
      <4>1. i \in 1..Len(s) + 1 /\ 0 + 1 = 1
        BY <1>1, <2>2
      <4>2. QED
        BY <1>5, <2>4, <3>1, <3>2, <4>1, Zenon
    <3>4. h[t] \in Nat
      OBVIOUS
    <3>5. g[u] - n + 1 = h[t] + 1 /\ n <= g[u]
      BY <1>4, <3>1, <3>3, <3>4
    <3>6. QED
      BY <3>1, <3>5
  <2>3. n <= g[u] /\ r[i][2] = l[u][g[u] - n + 1]
    BY <1>1, <1>3, <2>1, <2>2
  <2>5. QED
    BY <2>3, Zenon DEF u, n
<1>7. CASE Len(r) > Limit
  <2> DEFINE q == Tail(r)
  <2>1. /\ q \in Seq(Threads \X Text) /\ Len(q) = Limit /\ DOMAIN q = 1..Len(s)
        /\ \A i \in 1..Len(s) : q[i] = r[i + 1]
    <3>1. /\ q \in Seq(Threads \X Text) /\ Len(q) = Len(r) - 1 /\ DOMAIN q = 1..Len(r) - 1
          /\ \A i \in 1..Len(r) - 1 : q[i] = r[i + 1]
      BY <1>3, TailOf, Zenon
    <3>2. Len(r) - 1 = Len(s) /\ Len(s) = Limit
      <4>1. \A a, b, c \in Nat : b = a + 1 /\ b > c /\ a <= c => b - 1 = a /\ a = c
        OBVIOUS
      <4>2. Len(r) \in Nat
        BY <1>1, <1>3
      <4>3. QED
        BY <1>1, <1>3, <1>7, <4>1, <4>2, Zenon
    <3>3. QED
      BY <3>1, <3>2, Zenon
  <2>2. \A u : \A i \in 1..Len(s) :
           Cardinality(Records(q, u, i)) = Cardinality(Records(r, u, i + 1))
    <3>1. \A i \in 1..Len(s) : i \in Nat \ {0}
      BY <1>1
    <3>2. QED
      BY <1>3, <3>1, RecordsTail, Zenon
  <2> HIDE DEF q
  <2>3. ASSUME NEW i \in DOMAIN q, NEW u, u = q[i][1],
               NEW n, n = Cardinality(Records(q, u, i))
        PROVE  n <= g[u] /\ q[i][2] = l[u][g[u] - n + 1]
    <3>1. i + 1 \in DOMAIN r /\ q[i] = r[i + 1]
      <4>1. i \in 1..Len(s)
        BY <2>1, <2>3, Zenon
      <4>2. i + 1 \in 1..Len(s) + 1
        BY <1>1, <4>1
      <4>3. QED
        BY <1>3, <2>1, <4>1, <4>2, Zenon
    <3>2. n = Cardinality(Records(r, u, i + 1))
      BY <2>1, <2>2, <2>3
    <3>3. QED
      BY <1>6, <2>3, <3>1, <3>2
  <2>4. WindowOf(q, g, l)
    BY <1>1, <2>1, <2>3 DEF WindowOf, InStep
  <2>5. QED
    BY <1>7, <2>4 DEF q
<1>8. CASE ~(Len(r) > Limit)
  <2>1. Len(r) <= Limit /\ Len(s) < Limit
    BY <1>1, <1>3, <1>8
  <2>2. ASSUME NEW u \in Threads PROVE Cardinality(Records(r, u, 1)) = g[u]
    <3>1. Cardinality(Records(s, u, 1)) = h[u] /\ 1 \in 1..Len(s) + 1
      BY <1>1, <2>1 DEF WindowOf, InStep
    <3>2. QED
      BY <1>4, <1>5, <3>1
  <2>3. WindowOf(r, g, l)
    <3>1. InStep(r, g, l)
      BY <1>6, Zenon DEF InStep
    <3>2. QED
      BY <2>1, <2>2, <3>1, Zenon DEF WindowOf
  <2>4. QED
    BY <1>8, <2>3
<1>9. QED
  BY <1>7, <1>8

-----------------------------------------------------------------------------
LEMMA CountsType == WInv => Counts \in [Threads -> Nat]
BY AnnouncedBound DEF Counts

LEMMA QuietWInv ==
    ASSUME WInv, HInv', NEW t \in Threads, Quiet(t)
    PROVE  WInv'
<1>1. ASSUME NEW u \in Threads
      PROVE  /\ Announced(u)' = Announced(u)
             /\ \A p \in 1..Announced(u) : lines'[u][p] = lines[u][p]
             /\ pending'[u] # "" => lines'[u] # <<>> /\ lines'[u][Len(lines'[u])] = pending'[u]
  <2>1. /\ lines[u] \in Seq(Text) /\ Len(lines[u]) \in Nat
        /\ Announced(u) \in Nat
        /\ pending[u] = "" => Announced(u) = Len(lines[u])
    BY AnnouncedBound
  <2>2. CASE lines'[u] = lines[u] /\ pending'[u] = pending[u]
    BY <2>1, <2>2 DEF WInv, Handed, Announced
  <2>3. CASE pending[u] = "" /\ \E e \in Text \ {""} : lines'[u] = Append(lines[u], e) /\ pending'[u] = e
    <3>1. PICK e \in Text \ {""} : lines'[u] = Append(lines[u], e) /\ pending'[u] = e
      BY <2>3
    <3>2. e \in Text /\ e # ""
      OBVIOUS
    <3>3. /\ Len(lines'[u]) = Len(lines[u]) + 1 /\ lines'[u] # <<>>
          /\ lines'[u][Len(lines[u]) + 1] = e
          /\ \A p \in 1..Len(lines[u]) : lines'[u][p] = lines[u][p]
      <4>1. \A l \in Seq(Text) : \A m : m = Append(l, e) =>
               /\ Len(m) = Len(l) + 1 /\ m # <<>> /\ m[Len(l) + 1] = e
               /\ \A p \in 1..Len(l) : m[p] = l[p]
        BY <3>2, LogAppend, Zenon
      <4> DEFINE m == lines'[u]
                 k == lines[u]
      <4>2. m = Append(k, e) /\ k \in Seq(Text)
        BY <2>1, <3>1
      <4> HIDE DEF m, k
      <4>3. /\ Len(m) = Len(k) + 1 /\ m # <<>> /\ m[Len(k) + 1] = e
            /\ \A p \in 1..Len(k) : m[p] = k[p]
        BY <4>1, <4>2, Zenon
      <4>4. QED
        BY <4>3, Zenon DEF m, k
    <3>4. Announced(u) = Len(lines[u]) /\ Announced(u)' = Len(lines[u])
      <4>1. Announced(u)' = (Len(lines[u]) + 1) - 1
        BY <3>1, <3>2, <3>3, Zenon DEF Announced
      <4>2. QED
        BY <2>1, <2>3, <4>1, Steps, Zenon
    <3>5. QED
      BY <2>1, <3>1, <3>3, <3>4, Zenon
  <2>4. QED
    BY <2>2, <2>3 DEF Quiet
<1>2. Handed'
  BY <1>1 DEF Handed
<1>3. Counts' = Counts /\ Counts \in [Threads -> Nat]
      /\ \A u \in Threads : Counts[u] = Announced(u)
  BY <1>1, CountsType DEF Counts
<1>4. store' = store /\ store \in Seq(Threads \X Text) /\ WindowOf(store, Counts, lines)
  BY WindowIs DEF Quiet, WInv, HInv, Types
<1>5. WindowOf(store, Counts, lines')
  <2>1. \A u \in Threads : \A p \in 1..Counts[u] : lines'[u][p] = lines[u][p]
    BY <1>1, <1>3, Zenon
  <2>2. QED
    BY <1>3, <1>4, <2>1, QuietWindow, Zenon
<1>6. WindowOf(store', Counts', lines')
  BY <1>3, <1>4, <1>5
<1>7. (HInv => (StoreIsWindow <=> WindowOf(store, Counts, lines)))'
  BY WindowIs, PTL
<1>8. QED
  BY <1>2, <1>6, <1>7 DEF WInv

LEMMA HearWInv ==
    ASSUME WInv, HInv', NEW t \in Threads, Hear(t)
    PROVE  WInv'
<1> DEFINE r == Append(store, <<t, pending[t]>>)
<1>1. /\ pending[t] # "" /\ pending' = [pending EXCEPT ![t] = ""] /\ lines' = lines
      /\ store' = IF Len(r) > Limit THEN Tail(r) ELSE r
  BY DEF Hear, Set
<1>2. /\ store \in Seq(Threads \X Text) /\ pending \in [Threads -> Text]
      /\ WindowOf(store, Counts, lines) /\ Counts \in [Threads -> Nat]
      /\ \A u \in Threads : Counts[u] = Announced(u)
  BY WindowIs, CountsType DEF WInv, HInv, Types, Counts
<1>3. lines[t] \in Seq(Text) /\ Len(lines[t]) \in Nat /\ Announced(t) + 1 = Len(lines[t])
      /\ Announced(t) \in Nat
  BY <1>1, AnnouncedBound
<1>4. pending[t] \in Text /\ lines[t][Counts[t] + 1] = pending[t]
  BY <1>1, <1>2, <1>3 DEF WInv, Handed
<1>5. ASSUME NEW u \in Threads
      PROVE  Announced(u)' = IF u = t THEN Counts[t] + 1 ELSE Counts[u]
  <2>1. CASE u = t
    <3>1. Announced(u)' = Len(lines[t]) - 0
      BY <1>1, <1>2, <2>1 DEF Announced
    <3>2. Len(lines[t]) - 0 = Counts[t] + 1
      BY <1>2, <1>3, Steps, Zenon
    <3>3. QED
      BY <2>1, <3>1, <3>2
  <2>2. CASE u # t
    <3>1. Announced(u)' = Announced(u)
      BY <1>1, <1>2, <2>2 DEF Announced
    <3>2. QED
      BY <1>2, <2>2, <3>1
  <2>3. QED
    BY <2>1, <2>2
<1>6. Counts' = [Counts EXCEPT ![t] = Counts[t] + 1]
  BY <1>2, <1>5 DEF Counts
<1>7. Handed'
  BY <1>1, <1>2 DEF WInv, Handed
<1>8. WindowOf(store', Counts', lines)
  BY <1>1, <1>2, <1>4, <1>6, HearWindow
<1>9. (HInv => (StoreIsWindow <=> WindowOf(store, Counts, lines)))'
  BY WindowIs, PTL
<1>10. QED
  BY <1>1, <1>7, <1>8, <1>9 DEF WInv

\* Whatever requests run at once and however often the store is full, of each
\* request it shows the latest events that were announced, in order and without
\* a gap, and as many as fit (observability.py:124-133, cockpit/models.py:38-44).
THEOREM StoreIsWindowAlways == Spec => []StoreIsWindow
<1>1. Init => WInv
  <2>1. Init => HInv
    BY InitHInv
  <2>2. Init => Handed
    BY DEF Init, Handed
  <2>3. ASSUME Init PROVE StoreIsWindow
    <3>1. store = <<>> /\ Len(store) = 0
      BY <2>3 DEF Init
    <3>2. \A t \in Threads : Announced(t) = 0
      <4>1. ASSUME NEW t \in Threads PROVE pending[t] = "" /\ lines[t] = <<>>
        BY <2>3 DEF Init
      <4>2. Len(<<>>) = 0 /\ 0 - 0 = 0
        OBVIOUS
      <4>3. QED
        BY <4>1, <4>2, Zenon DEF Announced
    <3>3. \A t : Cardinality(Records(store, t, 1)) = 0
      <4>1. \A t : Records(store, t, 1) = {}
        BY <3>1 DEF Records
      <4>2. QED
        BY <4>1, FS_EmptySet
    <3>4. QED
      BY <3>1, <3>2, <3>3, RequestAssumption DEF StoreIsWindow
  <2>4. QED
    BY <2>1, <2>2, <2>3 DEF WInv
<1>2. WInv /\ HInv' /\ [Next]_vars => WInv'
  <2>1. ASSUME WInv, HInv', NEW t \in Threads, Accept(t) \/ Work(t)
        PROVE  WInv'
    <3>1. CASE Hear(t)
      BY <2>1, <3>1, HearWInv
    <3>2. CASE ~Hear(t)
      <4>1. Quiet(t)
        BY <2>1, <3>2, StepQuiet DEF WInv
      <4>2. QED
        BY <2>1, <4>1, QuietWInv
    <3>3. QED
      BY <3>1, <3>2
  <2>2. ASSUME WInv, HInv', UNCHANGED vars PROVE WInv'
    <3>1. lines' = lines /\ pending' = pending /\ store' = store
      BY <2>2 DEF vars
    <3>2. Handed' /\ StoreIsWindow'
      BY <2>2, <3>1 DEF WInv, Handed, StoreIsWindow, Announced
    <3>3. QED
      BY <2>2, <3>2 DEF WInv
  <2>3. QED
    BY <2>1, <2>2 DEF Next
<1>3. WInv => StoreIsWindow
  BY DEF WInv
<1>4. QED
  BY <1>1, <1>2, <1>3, RequestInvariance, PTL DEF Spec

-----------------------------------------------------------------------------
(***************************************************************************)
(* A request runs down.  Each try that an exception can still reach lets   *)
(* it answer once more, so the steps a request has left are counted from   *)
(* its label and the try it is in; an event to hand over is one more.      *)
(***************************************************************************)
Frames == {"handler", "_execute", "none"}

Tries == [f \in Frames |-> CASE f = "handler" -> 2 [] f = "_execute" -> 1 [] f = "none" -> 0]

StepsFrom ==
    [label \in Labels |-> [f \in Frames |->
        CASE label = "idle"      -> 21
          [] label = "started"   -> 20
          [] label = "authorize" -> 19
          [] label = "receive"   -> 8 + 5 * Tries[f]
          [] label = "serve"     -> 7 + 5 * Tries[f]
          [] label = "error"     -> 6 + 5 * Tries[f]
          [] label = "respond"   -> 5 + 5 * Tries[f]
          [] label = "head"      -> 4 + 5 * Tries[f]
          [] label = "body"      -> 3 + 5 * Tries[f]
          [] label = "completed" -> 2
          [] label = "slow"      -> 1
          [] label = "closed"    -> 0]]

Owed(event) == IF event = "" THEN 0 ELSE 1

Left(t) == 2 * StepsFrom[pc[t]][frame[t]] + Owed(pending[t])

RunsDown ==
    \A t \in Threads : /\ Left(t) \in 0..43
                       /\ Left(t)' <= Left(t)
                       /\ Work(t) => Left(t)' < Left(t)

\* What is left is a number, whatever the label and the try.
LEMMA StepsFromNat ==
    /\ \A label \in Labels, f \in Frames : StepsFrom[label][f] \in 0..21
    /\ \A event : Owed(event) \in 0..1 /\ (event = "" => Owed(event) = 0)
                                      /\ (event # "" => Owed(event) = 1)
<1>1. \A f \in Frames : Tries[f] \in {0, 1, 2}
  BY DEF Tries, Frames
<1>2. \A label \in Labels, f \in Frames :
        StepsFrom[label][f] \in {0, 1, 2, 19, 20, 21} \cup {n + 5 * Tries[f] : n \in 3..8}
  BY DEF StepsFrom, Labels
<1>3. \A label \in Labels, f \in Frames : StepsFrom[label][f] \in 0..21
  BY <1>1, <1>2
<1>4. 0 \in 0..1 /\ 1 \in 0..1
  OBVIOUS
<1>5. QED
  BY <1>3, <1>4, Zenon DEF Owed

\* The order of the labels, in a try and as an exception leaves it.
LEMMA StepsOrder ==
    \A f, g \in Frames :
        /\ StepsFrom["started"][g] < StepsFrom["idle"][f]
        /\ StepsFrom["authorize"][g] < StepsFrom["started"][f]
        /\ StepsFrom["closed"][g] < StepsFrom["started"][f]
        /\ StepsFrom["error"]["none"] < StepsFrom["authorize"][f]
        /\ StepsFrom["receive"][g] < StepsFrom["authorize"][f]
        /\ StepsFrom["serve"][g] < StepsFrom["authorize"][f]
        /\ StepsFrom["serve"][f] < StepsFrom["receive"][f]
        /\ StepsFrom["error"][f] < StepsFrom["serve"][f]
        /\ StepsFrom["respond"][f] < StepsFrom["serve"][f]
        /\ StepsFrom["respond"][f] < StepsFrom["error"][f]
        /\ StepsFrom["head"][f] < StepsFrom["respond"][f]
        /\ StepsFrom["body"][f] < StepsFrom["head"][f]
        /\ StepsFrom["completed"][g] < StepsFrom["body"][f]
        /\ StepsFrom["slow"][g] < StepsFrom["completed"][f]
        /\ StepsFrom["closed"][g] < StepsFrom["completed"][f]
        /\ StepsFrom["closed"][g] < StepsFrom["slow"][f]
        /\ \A label \in {"receive", "serve", "error", "respond", "head", "body"} :
              /\ StepsFrom["completed"][g] < StepsFrom[label][f]
              /\ Tries[g] < Tries[f] => StepsFrom["error"][g] < StepsFrom[label][f]
BY DEF StepsFrom, Tries, Labels, Frames

LEMMA TriesLeft == /\ Tries["handler"] = 2 /\ Tries["_execute"] = 1 /\ Tries["none"] = 0
                   /\ StepsFrom["error"]["_execute"] < StepsFrom["serve"]["_execute"]
                   /\ StepsFrom["error"]["_execute"] < StepsFrom["serve"]["handler"]
BY DEF StepsFrom, Labels, Tries, Frames

\* An exception lands in a try further out, or in the finally.
LEMMA ThrowDescends ==
    ASSUME HInv, NEW t \in Threads, NEW class, Throw(t, class)
    PROVE  \/ pc'[t] = "error" /\ Tries[frame'[t]] < Tries[frame[t]]
           \/ pc'[t] = "completed" /\ frame[t] = "none"
<1>1. frame[t] \in Frames /\ t \in DOMAIN frame /\ t \in DOMAIN pc
  BY DEF HInv, Types, Frames
<1>2. frame[t] # "handler" => frame[t] \in {"_execute", "none"}
  BY <1>1 DEF Frames
<1>3. CASE \E reply : frame[t] = "handler" /\ Reject(t, reply, "_execute")
  BY <1>1, <1>3, TriesLeft DEF Reject, Goto, Set
<1>4. CASE \E reply : frame[t] # "none" /\ Reject(t, reply, "none")
  BY <1>1, <1>2, <1>4, TriesLeft DEF Reject, Goto, Set
<1>5. CASE frame[t] = "none" /\ Goto(t, "completed")
  BY <1>1, <1>5 DEF Goto
<1>6. QED
  BY <1>3, <1>4, <1>5 DEF Throw

\* A step of another request leaves the label, the try and the event alone.
LEMMA OthersKeep ==
    ASSUME HInv, NEW t \in Threads, NEW u \in Threads, u # t, Accept(u) \/ Work(u)
    PROVE  pc'[t] = pc[t] /\ frame'[t] = frame[t] /\ pending'[t] = pending[t]
<1> USE DEF Goto, Set, Silent, Write, WriteFails, Reject, Throw
<1>1. pc \in [Threads -> Labels] /\ t \in DOMAIN frame /\ t \in DOMAIN pending
  BY DEF HInv, Types
<1>2. CASE Accept(u) \/ LogStarted(u) \/ Refuse(u) \/ Dispatch(u) \/ Receive(u)
           \/ ReceiveFails(u) \/ RejectRoute(u)
  BY <1>1, <1>2 DEF Accept, LogStarted, Refuse, Dispatch, Receive, ReceiveFails, RejectRoute,
                    serving
<1>3. CASE Succeed(u) \/ ReturnFailed(u) \/ Raise(u) \/ RaiseLate(u)
  BY <1>1, <1>3 DEF Succeed, ReturnFailed, Raise, RaiseLate
<1>4. CASE LogError(u) \/ Respond(u)
  BY <1>1, <1>4 DEF LogError, Respond
<1>5. CASE SendHead(u) \/ SendBody(u) \/ SendFails(u)
  BY <1>1, <1>5 DEF SendHead, SendBody, SendFails
<1>6. CASE LogCompleted(u) \/ LogSlow(u) \/ Hear(u)
  BY <1>1, <1>6 DEF LogCompleted, LogSlow, Hear, serving
<1>7. QED
  BY <1>2, <1>3, <1>4, <1>5, <1>6 DEF Work

\* Each step of a request's own but the hand-over of an event takes it to a
\* label with fewer steps left.
LEMMA WorkDescends ==
    ASSUME HInv, HInv', NEW t \in Threads, Work(t), ~Hear(t)
    PROVE  /\ pending[t] = ""
           /\ StepsFrom[pc'[t]][frame'[t]] < StepsFrom[pc[t]][frame[t]]
<1> USE DEF At, Goto, Set
<1>1. /\ pc \in [Threads -> Labels] /\ t \in DOMAIN pc /\ t \in DOMAIN frame
      /\ frame[t] \in Frames /\ frame'[t] \in Frames /\ "none" \in Frames
      /\ pc[t] \in {"receive", "serve"} => frame[t] \in {"handler", "_execute"}
  BY DEF HInv, Types, Frames, HandledBy, Handled, Underway
<1>2. ASSUME NEW class, Throw(t, class),
             pc[t] \in {"receive", "serve", "error", "respond", "head", "body"}
      PROVE  StepsFrom[pc'[t]][frame'[t]] < StepsFrom[pc[t]][frame[t]]
  BY <1>1, <1>2, ThrowDescends, StepsOrder
<1>3. CASE LogStarted(t)
  <2>1. pending[t] = "" /\ pc[t] = "started" /\ pc'[t] \in {"authorize", "closed"}
    BY <1>1, <1>3 DEF LogStarted
  <2>2. QED
    BY <1>1, <2>1, StepsOrder
<1>4. CASE Refuse(t)
  <2>1. pending[t] = "" /\ pc[t] = "authorize" /\ pc'[t] = "error" /\ frame'[t] = "none"
    BY <1>1, <1>4 DEF Refuse, Reject
  <2>2. QED
    BY <1>1, <2>1, StepsOrder
<1>5. CASE Dispatch(t)
  <2>1. pending[t] = "" /\ pc[t] = "authorize" /\ pc'[t] \in {"receive", "serve"}
    BY <1>1, <1>5 DEF Dispatch
  <2>2. QED
    BY <1>1, <2>1, StepsOrder
<1>6. CASE RejectRoute(t)
  <2>1. /\ pending[t] = "" /\ pc[t] = "serve" /\ pc'[t] = "error"
        /\ frame'[t] \in {"_execute", frame[t]}
    BY <1>1, <1>6 DEF RejectRoute, Reject
  <2>2. QED
    BY <1>1, <2>1, StepsOrder, TriesLeft
<1>7. CASE Succeed(t) \/ ReturnFailed(t)
  <2>1. /\ pending[t] = "" /\ pc[t] = "serve" /\ pc'[t] \in {"respond", "error"}
        /\ frame' = frame
    BY <1>1, <1>7 DEF Succeed, ReturnFailed, Serving
  <2>2. QED
    BY <1>1, <2>1, StepsOrder
<1>8. CASE Raise(t) \/ RaiseLate(t)
  <2>1. pending[t] = "" /\ pc[t] = "serve" /\ \E class : Throw(t, class)
    BY <1>8 DEF Raise, RaiseLate, Serving
  <2>2. QED
    BY <1>2, <2>1
<1>9. CASE LogError(t)
  <2>1. /\ pending[t] = "" /\ pc[t] = "error"
        /\ (pc'[t] = "respond" /\ frame' = frame) \/ Throw(t, "Exception")
    BY <1>1, <1>9 DEF LogError
  <2>2. QED
    BY <1>1, <1>2, <2>1, StepsOrder
<1>10. CASE Respond(t)
  <2>1. /\ pending[t] = "" /\ pc[t] = "respond"
        /\ (pc'[t] = "head" /\ frame' = frame) \/ Throw(t, "Exception")
    BY <1>1, <1>10 DEF Respond
  <2>2. QED
    BY <1>1, <1>2, <2>1, StepsOrder
<1>11. CASE SendHead(t)
  <2>1. pending[t] = "" /\ pc[t] = "head" /\ pc'[t] = "body" /\ frame' = frame
    BY <1>1, <1>11 DEF SendHead
  <2>2. QED
    BY <1>1, <2>1, StepsOrder
<1>12. CASE SendBody(t)
  <2>1. pending[t] = "" /\ pc[t] = "body" /\ pc'[t] = "completed"
    BY <1>1, <1>12 DEF SendBody
  <2>2. QED
    BY <1>1, <2>1, StepsOrder
<1>13. CASE SendFails(t)
  <2>1. pending[t] = "" /\ pc[t] \in {"head", "body"} /\ Throw(t, "Exception")
    BY <1>13 DEF SendFails
  <2>2. QED
    BY <1>2, <2>1
<1>14. CASE LogCompleted(t) \/ LogSlow(t)
  <2>1. /\ pending[t] = "" /\ pc[t] \in {"completed", "slow"}
        /\ pc'[t] \in {"slow", "closed"} /\ (pc[t] = "slow" => pc'[t] = "closed")
    BY <1>1, <1>14 DEF LogCompleted, LogSlow
  <2>2. QED
    BY <1>1, <2>1, StepsOrder
<1>15. CASE Receive(t)
  <2>1. pending[t] = "" /\ pc[t] = "receive" /\ pc'[t] = "serve" /\ frame' = frame
    BY <1>1, <1>15 DEF Receive
  <2>2. QED
    BY <1>1, <2>1, StepsOrder
<1>16. CASE ReceiveFails(t)
  <2>1. pending[t] = "" /\ pc[t] = "receive" /\ \E class : Throw(t, class)
    BY <1>16 DEF ReceiveFails
  <2>2. QED
    BY <1>2, <2>1
<1>17. QED
  BY <1>3, <1>4, <1>5, <1>6, <1>7, <1>8, <1>9, <1>10, <1>11, <1>12, <1>13, <1>14, <1>15, <1>16
     DEF Work

LEMMA HalvesOrder ==
    /\ \A m, n \in 0..21, a \in 0..1 : m < n => 2 * m + a < 2 * n + 0
    /\ \A n \in 0..21, a \in 0..1 : 2 * n + a \in 0..43
    /\ \A n \in 0..21 : 2 * n + 0 < 2 * n + 1
    /\ \A n \in 0..43 : n <= n
    /\ \A m, n \in 0..43 : m < n => m <= n
OBVIOUS

\* Every step of a request brings its end nearer and nothing another request
\* does puts it off: the tries of the handler and of _execute may each answer,
\* the log and the connection may fail at any point, and still a request takes
\* at most 40 steps of its own, the hand-overs of its events to the listeners and
\* the steps in which it waits for its client included (api.py:125-191, 246-287).
THEOREM RequestsRunDown == Spec => [][RunsDown]_vars
<1>1. ASSUME HInv, HInv', Next, NEW t \in Threads
      PROVE  /\ Left(t) \in 0..43
             /\ Left(t)' <= Left(t)
             /\ Work(t) => Left(t)' < Left(t)
  <2>1. StepsFrom[pc[t]][frame[t]] \in 0..21 /\ StepsFrom[pc'[t]][frame'[t]] \in 0..21
    <3>1. /\ pc[t] \in Labels /\ frame[t] \in Frames
          /\ pc'[t] \in Labels /\ frame'[t] \in Frames
      BY <1>1 DEF HInv, Types, Frames
    <3>2. QED
      BY <3>1, StepsFromNat
  <2>2. Left(t) \in 0..43 /\ Left(t)' \in 0..43
    BY <2>1, StepsFromNat, HalvesOrder, Zenon DEF Left
  <2>3. ASSUME /\ pending[t] = ""
               /\ StepsFrom[pc'[t]][frame'[t]] < StepsFrom[pc[t]][frame[t]]
        PROVE  Left(t)' < Left(t)
    <3>1. Owed(pending[t]) = 0 /\ Owed(pending'[t]) \in 0..1
      BY <2>3, StepsFromNat
    <3>2. 2 * StepsFrom[pc'[t]][frame'[t]] + Owed(pending'[t]) < 2 * StepsFrom[pc[t]][frame[t]] + 0
      BY <2>1, <2>3, <3>1, HalvesOrder, Zenon
    <3>3. QED
      BY <3>1, <3>2, Zenon DEF Left
  <2>4. ASSUME Work(t) PROVE Left(t)' < Left(t)
    <3>1. CASE Hear(t)
      <4>1. pending[t] # "" /\ pending'[t] = "" /\ pc' = pc /\ frame' = frame
        BY <1>1, <3>1 DEF Hear, Set, HInv, Types
      <4>2. Owed(pending[t]) = 1 /\ Owed(pending'[t]) = 0
        BY <4>1, StepsFromNat
      <4>3. 2 * StepsFrom[pc[t]][frame[t]] + 0 < 2 * StepsFrom[pc[t]][frame[t]] + 1
        BY <2>1, HalvesOrder, Zenon
      <4>4. QED
        BY <4>1, <4>2, <4>3, Zenon DEF Left
    <3>2. CASE ~Hear(t)
      BY <1>1, <2>3, <2>4, <3>2, WorkDescends
    <3>3. QED
      BY <3>1, <3>2
  <2>5. ASSUME Accept(t) PROVE Left(t)' < Left(t)
    <3>1. /\ pc[t] = "idle" /\ pc'[t] = "started" /\ pending[t] = ""
          /\ frame[t] \in Frames /\ frame' = frame
      BY <1>1, <2>5 DEF Accept, At, Goto, HInv, Types, Frames
    <3>2. StepsFrom[pc'[t]][frame'[t]] < StepsFrom[pc[t]][frame[t]]
      BY <3>1, StepsOrder
    <3>3. QED
      BY <2>3, <3>1, <3>2
  <2>6. ASSUME NEW u \in Threads, u # t, Accept(u) \/ Work(u) PROVE Left(t)' = Left(t)
    BY <1>1, <2>6, OthersKeep DEF Left
  <2>7. (Work(t) => Left(t)' < Left(t)) /\ (Left(t)' < Left(t) \/ Left(t)' = Left(t))
    BY <1>1, <2>4, <2>5, <2>6 DEF Next
  <2>8. QED
    BY <2>2, <2>7, HalvesOrder
<1>2. HInv /\ HInv' /\ [Next]_vars => [RunsDown]_vars
  BY <1>1 DEF RunsDown
<1>3. QED
  BY <1>2, RequestInvariance, PTL DEF Spec
=============================================================================
