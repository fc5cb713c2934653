----------------------------- MODULE HandlerErrors -----------------------------
(***************************************************************************)
(* How the HTTP handlers of the components turn what their service raises  *)
(* or returns into an answer.  A table maps the exception classes of one   *)
(* handle() to a status and an error code, in the order of its except      *)
(* clauses; "Exception" is the clause for everything else.  The texts of   *)
(* the messages are left out.                                              *)
(***************************************************************************)
EXTENDS Naturals

Answer(status, code) == [status |-> status, code |-> code]
NoAnswer == Answer(0, "")

\* 201 for what was created or started and 200 for the rest are one status here.
Success == Answer(200, "")

WorkflowErrors ==
    [InvalidWorkflowDefinition |-> Answer(400, "INVALID_WORKFLOW_DEFINITION"),
     KeyError                  |-> Answer(400, "INVALID_WORKFLOW_DEFINITION"),
     WorkflowNotFound          |-> Answer(404, "WORKFLOW_NOT_FOUND"),
     WorkflowExecutionError    |-> Answer(422, "WORKFLOW_EXECUTION_FAILED"),
     Exception                 |-> Answer(500, "WORKFLOW_EXECUTION_FAILED")]

TemplateErrors ==
    [InvalidWorkflowTemplate |-> Answer(400, "INVALID_WORKFLOW_TEMPLATE"),
     TemplateVersionNotFound |-> Answer(404, "TEMPLATE_VERSION_NOT_FOUND"),
     TemplateNotFound        |-> Answer(404, "TEMPLATE_NOT_FOUND"),
     Exception               |-> Answer(500, "TEMPLATE_EXECUTION_FAILED")]

ExecutionErrors ==
    [InvalidExecutionRequest       |-> Answer(400, "INVALID_EXECUTION_REQUEST"),
     ExecutionAuthenticationFailed |-> Answer(401, "UNAUTHORIZED"),
     ExecutionClientNotFound       |-> Answer(404, "CLIENT_NOT_FOUND"),
     ExecutionNotFound             |-> Answer(404, "EXECUTION_NOT_FOUND"),
     ConcurrentExecution           |-> Answer(409, "CONCURRENT_EXECUTION"),
     Exception                     |-> Answer(500, "CLIENT_EXECUTION_FAILED")]

OnboardingErrors ==
    [InvalidOnboardingRequest       |-> Answer(400, "INVALID_ONBOARDING_REQUEST"),
     InvalidOnboardingType          |-> Answer(400, "INVALID_ONBOARDING_TYPE"),
     OnboardingAuthenticationFailed |-> Answer(401, "UNAUTHORIZED"),
     OnboardingWorkflowNotFound     |-> Answer(404, "ONBOARDING_WORKFLOW_NOT_FOUND"),
     OnboardingExecutionFailed      |-> Answer(422, "ONBOARDING_EXECUTION_FAILED"),
     Exception                      |-> Answer(500, "ONBOARDING_EXECUTION_FAILED")]

PipelineErrors ==
    [InvalidRequestType           |-> Answer(400, "INVALID_REQUEST_TYPE"),
     InvalidClientRequest         |-> Answer(400, "VALIDATION_ERROR"),
     PipelineAuthenticationFailed |-> Answer(401, "UNAUTHORIZED"),
     PipelineWorkflowNotFound     |-> Answer(404, "WORKFLOW_NOT_FOUND"),
     PipelineExecutionFailed      |-> Answer(422, "PIPELINE_EXECUTION_FAILED"),
     Exception                    |-> Answer(500, "PIPELINE_EXECUTION_FAILED")]

MonetizationErrors ==
    [InvalidUsageEvent                |-> Answer(400, "INVALID_USAGE_EVENT"),
     KeyError                         |-> Answer(400, "INVALID_USAGE_EVENT"),
     MonetizationAuthenticationFailed |-> Answer(401, "UNAUTHORIZED"),
     MonetizationClientNotFound       |-> Answer(404, "CLIENT_NOT_FOUND"),
     ConnectorAccessDenied            |-> Answer(403, "CONNECTOR_ACCESS_DENIED"),
     PlanLimitExceeded                |-> Answer(429, "PLAN_LIMIT_EXCEEDED"),
     Exception                        |-> Answer(500, "MONETIZATION_ERROR")]

ConnectorErrors ==
    [InvalidConnector      |-> Answer(400, "INVALID_CONNECTOR"),
     ConnectorNotFound     |-> Answer(404, "CONNECTOR_NOT_FOUND"),
     ExternalTimeoutError  |-> Answer(504, "TIMEOUT_ERROR"),
     ExternalRequestFailed |-> Answer(502, "EXTERNAL_REQUEST_FAILED"),
     Exception             |-> Answer(500, "EXTERNAL_REQUEST_FAILED")]

WebhookErrors ==
    [WebhookValidationFailed |-> Answer(400, "WEBHOOK_VALIDATION_FAILED"),
     KeyError                |-> Answer(400, "WEBHOOK_VALIDATION_FAILED"),
     Exception               |-> Answer(500, "EXTERNAL_REQUEST_FAILED")]

ClientErrors ==
    [InvalidClient |-> Answer(400, "INVALID_CLIENT"),
     Exception     |-> Answer(500, "CLIENT_PERSISTENCE_ERROR")]

\* The only handler that leaves every other exception to _execute.
CockpitErrors == [CockpitControlError |-> Answer(400, "COCKPIT_CONTROL_ERROR")]

\* _execute of the request handler, around every handle().
ExecuteErrors ==
    [ValidationError   |-> Answer(400, "VALIDATION_ERROR"),
     TaskNotFoundError |-> Answer(404, "TASK_NOT_FOUND"),
     JSONDecodeError   |-> Answer(400, "INVALID_JSON"),
     Exception         |-> Answer(500, "INTERNAL_ERROR")]

\* By the first segment of the path: resolve picks the handler; which are registered
\* is the deployment's.  Tasks have no handle() of their own.
ErrorsOf ==
    [workflows    |-> WorkflowErrors,
     templates    |-> TemplateErrors,
     execution    |-> ExecutionErrors,
     onboarding   |-> OnboardingErrors,
     pipeline     |-> PipelineErrors,
     monetization |-> MonetizationErrors,
     connectors   |-> ConnectorErrors,
     webhooks     |-> WebhookErrors,
     clients      |-> ClientErrors,
     cockpit      |-> CockpitErrors]

\* What a handler answers when the execution it asked for ended "failed".
\* The cockpit answers it like any other.
FailureOf ==
    [workflows |-> Answer(422, "WORKFLOW_STEP_FAILED"),
     templates |-> Answer(422, "TEMPLATE_EXECUTION_FAILED"),
     execution |-> Answer(422, "CLIENT_EXECUTION_FAILED"),
     webhooks  |-> Answer(422, "EXTERNAL_REQUEST_FAILED"),
     cockpit   |-> Success]

\* These two reject an unknown path before their try.
RejectOutsideTry == {"onboarding", "pipeline"}

\* Answer a failed execution without a "request_error" event.
FailsUnlogged == {"webhooks"}

\* The clause of a table that catches an exception class, if there is one.
Clause(table, class) ==
    IF class \in DOMAIN table THEN {class}
    ELSE DOMAIN table \cap {"Exception"}
=============================================================================
