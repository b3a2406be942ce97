------------------------------- MODULE RpcRetry -------------------------------
(***************************************************************************)
(* One call of the service through RetryInterceptor and                    *)
(* CadenceErrorInterceptor: attempts that share one deadline, with delays  *)
(* that grow between them.                                                 *)
(*                                                                         *)
(* The clock starts with the call and counts whole ticks.  A wait is over  *)
(* at the tick in until; the event loop, busy with other things, may come  *)
(* back to the call later than that, and lag adds up by how much.          *)
(***************************************************************************)
EXTENDS Integers

CONSTANTS
    Expiration,         \* the caller's timeout, or the 60 seconds of yarpc.py
    InitialInterval,    \* ExponentialRetryPolicy
    BackoffCoefficient,
    MaxInterval,
    MaxAttempts,        \* 0 for no bound
    Clusters,           \* names of clusters, "" for none
    Statuses,           \* the statuses an attempt can fail with
    MaxLag              \* bound: ticks the event loop is late, in all

\* grpc.StatusCode
StatusCodes ==
    {"OK", "CANCELLED", "UNKNOWN", "INVALID_ARGUMENT", "DEADLINE_EXCEEDED",
     "NOT_FOUND", "ALREADY_EXISTS", "PERMISSION_DENIED", "UNAUTHENTICATED",
     "RESOURCE_EXHAUSTED", "FAILED_PRECONDITION", "ABORTED", "UNIMPLEMENTED",
     "INTERNAL", "UNAVAILABLE", "OUT_OF_RANGE", "DATA_LOSS"}

\* The details that have an exception of their own.
MappedDetails ==
    {"WorkflowExecutionAlreadyStartedError", "EntityNotExistsError",
     "WorkflowExecutionAlreadyCompletedError", "DomainNotActiveError",
     "ClientVersionNotSupportedError", "FeatureNotEnabledError",
     "CancellationAlreadyRequestedError", "DomainAlreadyExistsError",
     "LimitExceededError", "QueryFailedError", "ServiceBusyError"}

\* A status is a code, the type of its first detail ("none" without details)
\* and the clusters an EntityNotExistsError names.
ASSUME StatusesAssumption ==
    Statuses \subseteq [code: StatusCodes, detail: {"none", "other"} \cup MappedDetails,
                        current: Clusters, active: Clusters]
ASSUME ClustersAssumption == "" \in Clusters
ASSUME DurationsAssumption ==
    /\ Expiration \in Nat /\ Expiration > 0
    /\ InitialInterval \in Nat
    /\ BackoffCoefficient \in Nat
    /\ MaxInterval \in Nat
ASSUME BoundsAssumption == MaxAttempts \in Nat /\ MaxLag \in Nat

VARIABLES
    method,     \* the method that is called
    now,        \* loop.time(), since start_time
    lag,
    stage,      \* where intercept_unary_unary is, "idle" when nothing calls it
    until,      \* when the attempt times out, or the sleep is over
    attempts,   \* attempts that failed
    sent,       \* attempts that were made
    err         \* what the last one failed with

vars == << method, now, lag, stage, until, attempts, sent, err >>

-----------------------------------------------------------------------------
(* Errors                                                                  *)

NoError == [class |-> "none", code |-> "OK", current |-> "", active |-> ""]

\* Whatever the class, the error has the code of its status.
map_error(s) ==
    [class |-> IF s.detail \in MappedDetails THEN s.detail ELSE "CadenceRpcError",
     code |-> s.code, current |-> s.current, active |-> s.active]

RETRYABLE_CODES == {"INTERNAL", "RESOURCE_EXHAUSTED", "ABORTED", "UNAVAILABLE"}

\* A cluster that is not named is the empty string, never None.
is_retryable(e) ==
    IF method = "GetWorkflowExecutionHistory" /\ e.class = "EntityNotExistsError"
    THEN e.active # e.current
    ELSE e.code \in RETRYABLE_CODES

\* What gRPC answers once the timeout of an attempt is over.
DeadlineExceeded ==
    [code |-> "DEADLINE_EXCEEDED", detail |-> "none", current |-> "", active |-> ""]

-----------------------------------------------------------------------------
(* ExponentialRetryPolicy                                                  *)

\* Mutant of Backoff: it is not capped.
Backoff_uncapped(n) == InitialInterval * BackoffCoefficient ^ (n - 1)

\* The delay behind the n-th attempt: it grows up to MaxInterval.
Backoff(n) ==
    LET grown == InitialInterval * BackoffCoefficient ^ (n - 1)
    IN  IF grown \in 0..MaxInterval THEN grown ELSE MaxInterval

\* Mutant of HasNextDelay: one attempt too many.
HasNextDelay_once_more(n) ==
    /\ now < Expiration
    /\ MaxAttempts = 0 \/ n <= MaxAttempts
    /\ now + Backoff(n) < Expiration

\* next_delay after n attempts returns a delay, and not None.
HasNextDelay(n) ==
    /\ now < Expiration
    /\ MaxAttempts = 0 \/ n < MaxAttempts
    /\ now + Backoff(n) < Expiration

-----------------------------------------------------------------------------
(* RetryInterceptor                                                        *)

Init ==
    /\ method \in {"GetWorkflowExecutionHistory", "other"}
    /\ now = 0
    /\ lag = 0
    /\ stage = "started"
    /\ until = 0
    /\ attempts = 0
    /\ sent = 0
    /\ err = NoError

\* The loop turns to the call for the first time, or after a sleep.
AttemptDue == stage = "started" \/ (stage = "sleeping" /\ now >= until)

\* Mutants of Attempt: each gets the caller's whole timeout; none is made
\* behind the deadline.
Attempt_with_full_timeout ==
    /\ AttemptDue
    /\ stage' = "calling"
    /\ sent' = sent + 1
    /\ until' = now + Expiration
    /\ UNCHANGED << method, now, lag, attempts, err >>
Attempt_unless_late ==
    /\ AttemptDue
    /\ now < Expiration
    /\ stage' = "calling"
    /\ sent' = sent + 1
    /\ until' = Expiration
    /\ UNCHANGED << method, now, lag, attempts, err >>

\* An attempt gets the time that remains.  One that comes too late has a
\* timeout that is over before it starts: it can end at once.
Attempt ==
    /\ AttemptDue
    /\ stage' = "calling"
    /\ sent' = sent + 1
    /\ until' = Expiration
    /\ UNCHANGED << method, now, lag, attempts, err >>

Succeed ==
    /\ stage = "calling"
    /\ stage' = "succeeded"
    /\ UNCHANGED << method, now, lag, until, attempts, sent, err >>

\* The attempt ends with status s, and the interceptor sleeps or gives up.
FailWith(s) ==
    /\ stage = "calling"
    /\ err' = map_error(s)
    /\ attempts' = attempts + 1
    /\ IF is_retryable(map_error(s)) /\ HasNextDelay(attempts + 1)
       THEN stage' = "sleeping" /\ until' = now + Backoff(attempts + 1)
       ELSE stage' = "failed" /\ UNCHANGED until
    /\ UNCHANGED << method, now, lag, sent >>

Fail == \E s \in Statuses : FailWith(s)

TimeOut == now >= until /\ FailWith(DeadlineExceeded)

\* The caller is cancelled.
Cancel ==
    /\ stage \in {"started", "calling", "sleeping"}
    /\ stage' = "cancelled"
    /\ UNCHANGED << method, now, lag, until, attempts, sent, err >>

\* Time passes in a wait; beyond its end only as long as the loop is late.
Tick ==
    /\ stage \in {"calling", "sleeping"}
    /\ IF now < until THEN UNCHANGED lag ELSE lag < MaxLag /\ lag' = lag + 1
    /\ now' = now + 1
    /\ UNCHANGED << method, stage, until, attempts, sent, err >>

Next == Attempt \/ Succeed \/ Fail \/ TimeOut \/ Cancel \/ Tick

Spec == Init /\ [][Next]_vars

\* Time passes, the event loop comes back to what is due, and gRPC ends an
\* attempt that timed out.  The service need not answer.
FairSpec == Spec /\ WF_vars(Tick) /\ WF_vars(Attempt) /\ WF_vars(TimeOut)

-----------------------------------------------------------------------------
Active == stage \in {"started", "calling", "sleeping"}

TypeOK ==
    /\ method \in {"GetWorkflowExecutionHistory", "other"}
    /\ now \in Nat
    /\ lag \in 0..MaxLag
    /\ stage \in {"idle", "started", "calling", "sleeping", "succeeded", "failed",
                  "cancelled"}
    /\ until \in Nat
    /\ attempts \in Nat
    /\ sent \in Nat
    /\ \/ err = NoError
       \/ err \in [class: MappedDetails \cup {"CadenceRpcError"}, code: StatusCodes,
                   current: Clusters, active: Clusters]

\* However many attempts are made and however long each takes, the call is over
\* by its deadline: only the event loop's own lateness comes on top.
EndsInTime == Active => now <= Expiration + lag

\* No more attempts are made than the policy allows.
AttemptsBounded == MaxAttempts # 0 => sent <= MaxAttempts

\* A call that could be retried, with attempts left, is only given up when the
\* longest delay would not fit any more: it is not given up early because the
\* delay grew.
GivesUpLate ==
    (stage = "failed" /\ is_retryable(err) /\ (MaxAttempts = 0 \/ attempts < MaxAttempts))
        => now + MaxInterval >= Expiration

\* A call ends although the service does not answer, and although the loop wakes
\* it behind its deadline.
EveryCallEnds == []<>(~Active)
=============================================================================
