------------------------------- MODULE MCClient -------------------------------
EXTENDS Client

Status(code, detail, current, active) ==
    [code |-> code, detail |-> detail, current |-> current, active |-> active]

\* A service out of reach, a caller's mistake, a workflow that does not exist: on
\* the passive side or anywhere; and what the service refuses.
MCStatuses ==
    {Status("UNAVAILABLE", "none", "", ""),
     Status("NOT_FOUND", "EntityNotExistsError", "c1", "c2"),
     Status("NOT_FOUND", "EntityNotExistsError", "c1", "c1")} \cup Refusals

Valid ==
    [task_list |-> "given", workflow_id |-> "w",
     execution_start_to_close_timeout |-> "positive",
     task_start_to_close_timeout |-> "absent", delay_start |-> "absent",
     jitter_start |-> "zero", first_run_at |-> "absent"]

\* A workflow with an id of its own, one without, and options that are refused.
MCOptions ==
    {Valid, [Valid EXCEPT !.workflow_id = ""],
     [Valid EXCEPT !.task_start_to_close_timeout = "zero"],
     [Valid EXCEPT !.first_run_at = "naive"]}
=============================================================================
