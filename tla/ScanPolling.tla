----------------------------- MODULE ScanPolling -----------------------------
(***************************************************************************)
(* The dashboard (frontend/src: useScanPolling, Dashboard): a form that    *)
(* submits one scan at a time, and a hook that asks for the scan every     *)
(* POLL_INTERVAL_MS, whether the last answer is there or not.  The server  *)
(* is ScanStore, what ScanLifecycle implements.  Every answer is handled   *)
(* by the code that asked, however late: nothing compares it with the scan *)
(* that is polled by then.                                                 *)
(*                                                                         *)
(* An operator named F_xxx is F with a bug, a mutant.                      *)
(***************************************************************************)
EXTENDS ScanRows, Naturals, Sequences

CONSTANTS
    NoJob,          \* null
    MaxAttempts,    \* MAX_POLL_ATTEMPTS
    MaxInFlight     \* bound on the requests in flight

ASSUME PollingAssumption ==
    /\ NoJob \notin Jobs
    /\ {"none", "sent"} \cap Jobs = {}
    /\ MaxAttempts \in Nat \ {0}
    /\ MaxInFlight \in Nat \ {0}

VARIABLES
    rows,           \* the server's jobs
    post,           \* the POST of the form: "none", "sent", or the job in its answer
    active,         \* activeScanId
    submitError,    \* submitError # null
    target,         \* scanIdRef.current
    isPolling,
    attempts,       \* attemptsRef.current
    shown,          \* scan: the job of the answer last taken, and its status
    error,          \* the hook's error, by its kind
    inflight,       \* the GETs in the order they were sent, with the status they read
    overlapped,     \* history: a GET or a submission overtook an open GET
    crossed         \* history: a GET of an earlier scan was still out when the
                    \* active one got its number

hook == <<target, isPolling, attempts, shown, error>>
form == <<post, active, submitError>>
history == <<overlapped, crossed>>
pollingVars == <<rows, form, hook, inflight, history>>

Server == INSTANCE ScanStore

JobStatus == {"pending", "running"} \cup Server!Terminal
TERMINAL_STATUSES == {"completed", "failed", "cancelled"}
ErrorKind == {"none", "failed", "timeout", "unreachable"}

Nothing == [job |-> NoJob, status |-> "none"]
Shown == {Nothing} \cup [job : Jobs, status : JobStatus]
Request == [job : Jobs, answer : {"open", "error"} \cup JobStatus]

Submitting == post # "none"

\* What ScanStatusBanner is given: the hook's status, the form's number.
Banner == [scan |-> active, status |-> shown.status]

PollingInit ==
    /\ Server!Init
    /\ post = "none" /\ active = NoJob /\ submitError = FALSE
    /\ target = NoJob /\ isPolling = FALSE /\ attempts = 0
    /\ shown = Nothing /\ error = "none"
    /\ inflight = <<>>
    /\ overlapped = FALSE /\ crossed = FALSE

-----------------------------------------------------------------------------
(* Sending.                                                                *)

Send(job) ==
    /\ inflight' = Append(inflight, [job |-> job, answer |-> "open"])
    /\ overlapped' = (overlapped \/ inflight # <<>>)

StartAfresh_keepsScan(job) ==
    /\ target' = job
    /\ isPolling' = (job # NoJob)
    /\ attempts' = 0
    /\ error' = "none"
    /\ UNCHANGED shown

\* reset(), then what startPolling sets.
StartAfresh(job) ==
    /\ target' = job
    /\ isPolling' = (job # NoJob)
    /\ attempts' = 0
    /\ shown' = Nothing
    /\ error' = "none"

\* handleScanSubmit, up to its await; the form is disabled while a scan is
\* submitted or polled.
FormEnabled == ~Submitting /\ ~isPolling

Submit ==
    /\ FormEnabled
    /\ post' = "sent"
    /\ submitError' = FALSE
    /\ StartAfresh(NoJob)
    /\ overlapped' = (overlapped \/ inflight # <<>>)
    /\ UNCHANGED <<rows, active, inflight, crossed>>

\* The POST arrives: the server inserts a job and answers with its id.
PostArrives ==
    /\ post = "sent"
    /\ \E j \in Jobs, c \in Chains : Server!Submit(j, c) /\ post' = j
    /\ UNCHANGED <<active, submitError, hook, inflight, history>>

\* createScan resolves: startPolling(created.id), with its first fetch.
Created ==
    /\ post \in Jobs
    /\ Len(inflight) < MaxInFlight
    /\ active' = post
    /\ StartAfresh(post)
    /\ Send(post)
    /\ post' = "none"
    /\ crossed' = (inflight # <<>>)
    /\ UNCHANGED <<rows, submitError>>

\* It rejects, be the job created or not.
CreateFails ==
    /\ Submitting
    /\ post' = "none"
    /\ submitError' = TRUE
    /\ UNCHANGED <<rows, active, hook, inflight, history>>

\* The interval that runs while isPolling is set.
Tick ==
    /\ isPolling
    /\ target # NoJob
    /\ Len(inflight) < MaxInFlight
    /\ Send(target)
    /\ UNCHANGED <<rows, form, hook, crossed>>

-----------------------------------------------------------------------------
(* The server, and the network.                                            *)

\* A job gets its outcome.
Settle == (\E j \in Jobs : Server!Settle(j)) /\ UNCHANGED <<form, hook, inflight, history>>

\* GET /scans/{id} reads the row.
Read(i) ==
    /\ inflight[i].answer = "open"
    /\ inflight' = [inflight EXCEPT ![i].answer = rows[inflight[i].job].status]
    /\ UNCHANGED <<rows, form, hook, history>>

\* It fails, before or after: unreachable, or an error status.
GetFails(i) ==
    /\ inflight[i].answer # "error"
    /\ inflight' = [inflight EXCEPT ![i].answer = "error"]
    /\ UNCHANGED <<rows, form, hook, history>>

-----------------------------------------------------------------------------
(* fetchOnce, after its await.                                             *)

StopPolling(kind) == target' = NoJob /\ error' = kind /\ isPolling' = FALSE

\* setScan(job), whichever scan is polled by now.
Show(job, status) == shown' = [job |-> job, status |-> status]

OnTerminal(job, status) ==
    /\ status \in TERMINAL_STATUSES
    /\ Show(job, status)
    /\ StopPolling(IF status = "failed" THEN "failed" ELSE "none")
    /\ UNCHANGED attempts

OnProgress_neverTimesOut(job, status) ==
    /\ status \in JobStatus \ TERMINAL_STATUSES
    /\ Show(job, status)
    /\ error' = "none"
    /\ UNCHANGED <<target, isPolling, attempts>>

OnProgress_emptyMessage(job, status) ==
    /\ status \in JobStatus \ TERMINAL_STATUSES
    /\ Show(job, status)
    /\ attempts' = attempts + 1
    /\ IF attempts + 1 >= MaxAttempts THEN StopPolling("none")
       ELSE error' = "none" /\ UNCHANGED <<target, isPolling>>

\* Every answer that is not terminal counts as an attempt.
OnProgress(job, status) ==
    /\ status \in JobStatus \ TERMINAL_STATUSES
    /\ Show(job, status)
    /\ attempts' = attempts + 1
    /\ IF attempts + 1 >= MaxAttempts THEN StopPolling("timeout")
       ELSE error' = "none" /\ UNCHANGED <<target, isPolling>>

OnError(status) ==
    /\ status = "error"
    /\ StopPolling("unreachable")
    /\ UNCHANGED <<attempts, shown>>

\* The answer of the i-th open request arrives, in whatever order.
Answer(i) ==
    /\ inflight[i].answer # "open"
    /\ \/ OnTerminal(inflight[i].job, inflight[i].answer)
       \/ OnProgress(inflight[i].job, inflight[i].answer)
       \/ OnError(inflight[i].answer)
    /\ inflight' = SubSeq(inflight, 1, i - 1) \o SubSeq(inflight, i + 1, Len(inflight))
    /\ UNCHANGED <<rows, form, history>>

PollingNext ==
    \/ Submit \/ PostArrives \/ Created \/ CreateFails
    \/ Tick
    \/ Settle
    \/ \E i \in DOMAIN inflight : Read(i) \/ GetFails(i) \/ Answer(i)

PollingSpec == PollingInit /\ [][PollingNext]_pollingVars

\* The interval fires while it is installed, and every request ends, with an
\* answer or an error.  Nothing makes a job settle or the user submit.
PollingFairness ==
    /\ WF_pollingVars(Tick)
    /\ WF_pollingVars(\E i \in DOMAIN inflight : Read(i))
    /\ WF_pollingVars(\E i \in DOMAIN inflight : Answer(i))

PollingFairSpec == PollingSpec /\ PollingFairness

-----------------------------------------------------------------------------
(* Properties.                                                             *)

PollingTypeOK ==
    /\ rows \in [Jobs -> Server!Row]
    /\ post \in {"none", "sent"} \cup Jobs
    /\ active \in Jobs \cup {NoJob}
    /\ submitError \in BOOLEAN
    /\ target \in Jobs \cup {NoJob}
    /\ isPolling \in BOOLEAN
    /\ attempts \in Nat
    /\ shown \in Shown
    /\ error \in ErrorKind
    /\ inflight \in Seq(Request)
    /\ overlapped \in BOOLEAN
    /\ crossed \in BOOLEAN

\* The form is never left disabled over a hook that asks nothing: isPolling
\* (state) and scanIdRef (ref) stay together, and polling concerns the scan
\* the form submitted last, with attempts left.
PollingHasTarget ==
    /\ isPolling <=> target # NoJob
    /\ isPolling => target = active /\ attempts < MaxAttempts /\ ~Submitting

\* An outcome in the banner is the outcome of the scan whose number stands by
\* it, however late and in whatever order the answers of that scan came.  Not
\* so when a request of an earlier scan was still out as the number came:
\* fetchOnce takes its answer all the same, and the old outcome stands under
\* the new number.
BannerIsTrue ==
    ~crossed /\ Banner.status \in Server!Terminal =>
        rows[Banner.scan].status = Banner.status

\* When polling has ended, the screen tells how it ended for the scan that was
\* submitted, provided that every answer came before the next request was
\* made.
EndIsTold ==
    active # NoJob /\ FormEnabled /\ ~submitError /\ ~overlapped =>
        /\ error = "none" => shown = [job |-> active, status |-> "completed"]
        /\ error = "failed" => shown = [job |-> active, status |-> "failed"]
        /\ error = "timeout" =>
              /\ shown.job = active
              /\ shown.status \notin Server!Terminal
              /\ attempts = MaxAttempts
        /\ error = "unreachable" => shown.job \in {active, NoJob}

\* Polling ends, whatever becomes of the job and in whatever order the answers
\* come: the form is usable again.
PollingStops == isPolling ~> ~isPolling

(* The inductive invariants behind the safety properties.                  *)

\* The outcome the hook keeps is that of the scan it was told about.
ShownOutcomeIsTrue ==
    shown.status \in Server!Terminal => rows[shown.job].status = shown.status

\* Whatever answers are on their way, an outcome in them is true; jobs that
\* are asked for exist.
AnswersAreTrue ==
    /\ \A i \in DOMAIN inflight :
          /\ rows[inflight[i].job] # Server!NoRow
          /\ inflight[i].answer \in Server!Terminal =>
                rows[inflight[i].job].status = inflight[i].answer
    /\ post \in Jobs => rows[post] # Server!NoRow
    /\ target # NoJob => rows[target] # Server!NoRow

PollingInv ==
    /\ PollingHasTarget
    /\ ShownOutcomeIsTrue
    /\ AnswersAreTrue

\* Unless requests crossed, all that is asked and kept is about the active scan.
AboutTheActive ==
    ~crossed =>
        /\ \A i \in DOMAIN inflight : inflight[i].job = active
        /\ shown.job \in {active, NoJob}
=============================================================================
