------------------------- MODULE ScanPolling_proofs -------------------------
(***************************************************************************)
(* Safety of ScanPolling for any jobs, chains and bounds.                  *)
(***************************************************************************)
EXTENDS ScanPolling, TLAPS

\* The jobs of the server only move on: none disappears, no outcome changes.
RowsMoveOn ==
    /\ rows' \in [Jobs -> Server!Row]
    /\ \A j \in Jobs : rows[j] # Server!NoRow => rows'[j] # Server!NoRow
    /\ \A j \in Jobs :
          rows[j].status \in Server!Terminal => rows'[j].status = rows[j].status

\* Everything that is asked, answered or shown is about a job of the server,
\* and true.
IInv == PollingTypeOK /\ PollingInv

-----------------------------------------------------------------------------
(* The server.                                                             *)

\* A row is the absent one or has a status of a job.
LEMMA RowStatus ==
    ASSUME NEW row \in Server!Row
    PROVE  /\ row = Server!NoRow => row.status = "absent"
           /\ row # Server!NoRow => row.status \in JobStatus
BY DEF Server!Row, Server!PresentRow, Server!NoRow, Server!Bare, Server!Terminal, JobStatus

\* What an insert or an outcome writes is a row, and not the absent one.
LEMMA RowsWritten ==
    ASSUME NEW c \in Chains
    PROVE  /\ Server!NewRow(c) \in Server!Row \ {Server!NoRow}
           /\ \A row \in Server!PresentRow :
                 Server!Outcomes(row) \subseteq Server!Row \ {Server!NoRow}
<1>1. Server!NewRow(c) \in Server!Row \ {Server!NoRow}
  BY DEF Server!NewRow, Server!Bare, Server!Row, Server!PresentRow, Server!NoRow, Server!Terminal
<1>2. ASSUME NEW row \in Server!PresentRow, NEW new \in Server!Outcomes(row)
      PROVE  new \in Server!Row \ {Server!NoRow}
  <2>1. row.chain_id \in Chains
    BY DEF Server!PresentRow
  <2>2. CASE new = Server!Whole("completed", row.chain_id)
    BY <2>1, <2>2 DEF Server!Whole, Server!Bare, Server!Row, Server!PresentRow, Server!NoRow,
                      Server!Terminal
  <2>3. CASE new = Server!Bare("running", row.chain_id)
    BY <2>1, <2>3 DEF Server!Bare, Server!Row, Server!PresentRow, Server!NoRow, Server!Terminal
  <2>4. CASE \E d \in Chains : new = Server!WithContext("failed", d)
    BY <2>4 DEF Server!WithContext, Server!Bare, Server!Row, Server!PresentRow, Server!NoRow,
                Server!Terminal
  <2> QED BY <1>2, <2>2, <2>3, <2>4 DEF Server!Outcomes
<1> QED BY <1>1, <1>2

\* An insert adds a job that was absent.
LEMMA SubmitMovesOn ==
    ASSUME rows \in [Jobs -> Server!Row],
           NEW j \in Jobs, NEW c \in Chains, Server!Submit(j, c)
    PROVE  RowsMoveOn /\ rows'[j] # Server!NoRow
<1>1. /\ rows[j] = Server!NoRow
      /\ rows' = [rows EXCEPT ![j] = Server!NewRow(c)]
  BY DEF Server!Submit
<1>2. Server!NewRow(c) \in Server!Row \ {Server!NoRow}
  BY RowsWritten
<1>3. rows[j].status \notin Server!Terminal
  BY <1>1, RowStatus DEF Server!Terminal
<1> QED BY <1>1, <1>2, <1>3 DEF RowsMoveOn

\* An outcome replaces a pending row.
LEMMA SettleMovesOn ==
    ASSUME rows \in [Jobs -> Server!Row], NEW j \in Jobs, Server!Settle(j)
    PROVE  RowsMoveOn
<1>1. PICK new \in Server!Outcomes(rows[j]) : rows' = [rows EXCEPT ![j] = new]
  BY DEF Server!Settle
<1>2. rows[j].status = "pending"
  BY DEF Server!Settle
<1>3. rows[j] \in Server!PresentRow
  BY <1>2, RowStatus DEF Server!Row
<1>4. new \in Server!Row \ {Server!NoRow}
  <2>1. PICK c \in Chains : TRUE
    BY <1>3 DEF Server!PresentRow
  <2> QED BY <2>1, <1>1, <1>3, RowsWritten
<1>5. rows[j].status \notin Server!Terminal
  BY <1>2 DEF Server!Terminal
<1> QED BY <1>1, <1>4, <1>5 DEF RowsMoveOn

-----------------------------------------------------------------------------
(* Requests in flight.                                                     *)

\* What is left when a request has been answered was there before.
LEMMA Answered ==
    ASSUME NEW s \in Seq(Request), NEW i \in DOMAIN s
    PROVE  LET t == SubSeq(s, 1, i - 1) \o SubSeq(s, i + 1, Len(s))
           IN  /\ t \in Seq(Request)
               /\ \A k \in DOMAIN t : \E l \in DOMAIN s : t[k] = s[l]
<1> DEFINE before == SubSeq(s, 1, i - 1)
           after == SubSeq(s, i + 1, Len(s))
<1>1. i \in 1..Len(s) /\ Len(s) \in Nat /\ DOMAIN s = 1..Len(s)
  OBVIOUS
<1>2. /\ before \in Seq(Request)
      /\ Len(before) = i - 1
      /\ \A k \in 1..(i - 1) : before[k] = s[k]
  BY <1>1
<1>3. /\ after \in Seq(Request)
      /\ Len(after) = Len(s) - i
      /\ \A k \in 1..(Len(s) - i) : after[k] = s[i + k]
  BY <1>1
<1> HIDE DEF before, after
<1>4. before \o after \in Seq(Request)
  BY <1>2, <1>3
<1>5. ASSUME NEW k \in DOMAIN (before \o after)
      PROVE  \E l \in DOMAIN s : (before \o after)[k] = s[l]
  <2>1. k \in 1..(i - 1 + Len(s) - i)
    BY <1>1, <1>2, <1>3
  <2>2. CASE k <= i - 1
    BY <1>1, <1>2, <1>3, <2>1, <2>2
  <2>3. CASE k > i - 1
    <3>1. k - (i - 1) \in 1..(Len(s) - i) /\ k + 1 \in DOMAIN s
      BY <1>1, <2>1, <2>3
    <3>2. (before \o after)[k] = after[k - (i - 1)]
      BY <1>1, <1>2, <1>3, <2>1, <2>3
    <3>3. after[k - (i - 1)] = s[k + 1]
      BY <1>1, <1>3, <2>1, <3>1
    <3> QED BY <3>1, <3>2, <3>3
  <2> QED BY <1>1, <2>1, <2>2, <2>3
<1> QED BY <1>4, <1>5 DEF before, after

\* A request in flight is about a job, and has an answer or none yet.
LEMMA InFlight ==
    ASSUME IInv, NEW i \in DOMAIN inflight
    PROVE  inflight[i].job \in Jobs /\ inflight[i].answer \in {"open", "error"} \cup JobStatus
<1>1. inflight \in Seq(Request)
  BY DEF IInv, PollingTypeOK
<1>2. inflight[i] \in Request
  BY <1>1
<1> QED BY <1>2 DEF Request

\* A request that is sent is open and about the job it names.
LEMMA Sent ==
    ASSUME IInv, NEW j \in Jobs, rows[j] # Server!NoRow, Send(j), UNCHANGED rows
    PROVE  /\ inflight' \in Seq(Request)
           /\ overlapped' \in BOOLEAN
           /\ \A i \in DOMAIN inflight' :
                 /\ rows'[inflight'[i].job] # Server!NoRow
                 /\ inflight'[i].answer \in Server!Terminal =>
                       rows'[inflight'[i].job].status = inflight'[i].answer
<1> DEFINE new == [job |-> j, answer |-> "open"]
<1>1. new \in Request /\ new.job = j /\ new.answer \notin Server!Terminal
  BY DEF Request, Server!Terminal
<1>2. inflight \in Seq(Request) /\ inflight' = Append(inflight, new)
  BY DEF IInv, PollingTypeOK, Send
<1> HIDE DEF new
<1>3. \A i \in DOMAIN inflight' :
         IF i = Len(inflight) + 1 THEN inflight'[i] = new
         ELSE i \in DOMAIN inflight /\ inflight'[i] = inflight[i]
  BY <1>2
<1>4. inflight' \in Seq(Request)
  BY <1>1, <1>2
<1>5. overlapped' \in BOOLEAN
  BY DEF IInv, PollingTypeOK, Send
<1> QED BY <1>1, <1>3, <1>4, <1>5 DEF IInv, PollingInv, AnswersAreTrue

-----------------------------------------------------------------------------
(* The steps.                                                              *)

LEMMA InitEstablishes == PollingInit => IInv
<1> SUFFICES ASSUME PollingInit PROVE IInv
  OBVIOUS
<1>1. rows \in [Jobs -> Server!Row]
  BY DEF PollingInit, Server!Init, Server!Row
<1>2. inflight = <<>> /\ inflight \in Seq(Request)
  BY DEF PollingInit
<1>3. shown \in Shown /\ shown.status \notin Server!Terminal
  BY DEF PollingInit, Shown, Nothing, Server!Terminal
<1>4. DOMAIN inflight = {} /\ post \notin Jobs /\ target = NoJob /\ isPolling = FALSE
  BY PollingAssumption DEF PollingInit
<1>5. PollingTypeOK
  BY <1>1, <1>2, <1>3 DEF PollingInit, PollingTypeOK, ErrorKind
<1>6. AnswersAreTrue
  BY <1>4 DEF AnswersAreTrue
<1>7. PollingHasTarget
  BY <1>4 DEF PollingHasTarget
<1> QED BY <1>3, <1>5, <1>6, <1>7 DEF IInv, PollingInv, ShownOutcomeIsTrue

\* A step of the server alone.
LEMMA ServerKeeps ==
    ASSUME IInv, RowsMoveOn, UNCHANGED <<form, hook, inflight, history>>
    PROVE  IInv'
<1>1. PollingTypeOK'
  BY DEF IInv, PollingTypeOK, RowsMoveOn, form, hook, history
<1>2. PollingHasTarget'
  BY DEF IInv, PollingInv, PollingHasTarget, Submitting, form, hook, history
<1>3. ShownOutcomeIsTrue'
  <2>1. shown.status \in Server!Terminal => shown.job \in Jobs
    BY DEF IInv, PollingTypeOK, Shown, Nothing, Server!Terminal
  <2> QED BY <2>1 DEF IInv, PollingInv, ShownOutcomeIsTrue, RowsMoveOn, hook, history
<1>4. AnswersAreTrue'
  <2>1. \A i \in DOMAIN inflight : inflight[i].job \in Jobs
    BY InFlight
  <2>2. target \in Jobs \cup {NoJob}
    BY DEF IInv, PollingTypeOK
  <2>3. /\ UNCHANGED <<inflight, post, target>>
        /\ AnswersAreTrue
    BY DEF IInv, PollingInv, form, hook, history
  <2>4. \A i \in DOMAIN inflight :
           /\ rows'[inflight[i].job] # Server!NoRow
           /\ inflight[i].answer \in Server!Terminal =>
                 rows'[inflight[i].job].status = inflight[i].answer
    BY <2>1, <2>3 DEF AnswersAreTrue, RowsMoveOn
  <2>5. /\ post \in Jobs => rows'[post] # Server!NoRow
        /\ target # NoJob => rows'[target] # Server!NoRow
    BY <2>2, <2>3 DEF AnswersAreTrue, RowsMoveOn
  <2> QED BY <2>3, <2>4, <2>5 DEF AnswersAreTrue
<1> QED BY <1>1, <1>2, <1>3, <1>4 DEF IInv, PollingInv

\* Nothing asked for anew, nothing shown.
LEMMA NothingIsShown == Nothing \in Shown /\ Nothing.status \notin Server!Terminal
BY DEF Nothing, Shown, Server!Terminal

LEMMA SubmitKeeps == ASSUME IInv, Submit PROVE IInv'
BY PollingAssumption, NothingIsShown
DEF IInv, PollingTypeOK, PollingInv, PollingHasTarget, ShownOutcomeIsTrue, AnswersAreTrue,
    Submit, StartAfresh, ErrorKind, Submitting

LEMMA PostArrivesKeeps == ASSUME IInv, PostArrives PROVE IInv'
<1>1. PICK j \in Jobs, c \in Chains : Server!Submit(j, c) /\ post' = j
  BY DEF PostArrives
<1>2. /\ post = "sent"
      /\ UNCHANGED <<active, submitError, hook, inflight, history>>
  BY DEF PostArrives
<1>3. RowsMoveOn /\ rows'[j] # Server!NoRow
  BY <1>1, SubmitMovesOn DEF IInv, PollingTypeOK
<1>4. PollingTypeOK'
  BY <1>1, <1>2, <1>3 DEF IInv, PollingTypeOK, RowsMoveOn, hook, history
<1>5. PollingHasTarget'
  BY <1>2 DEF IInv, PollingInv, PollingHasTarget, Submitting, hook, history
<1>6. ShownOutcomeIsTrue'
  <2>1. shown.status \in Server!Terminal => shown.job \in Jobs
    BY DEF IInv, PollingTypeOK, Shown, Nothing, Server!Terminal
  <2> QED BY <1>2, <1>3, <2>1 DEF IInv, PollingInv, ShownOutcomeIsTrue, RowsMoveOn, hook, history
<1>7. AnswersAreTrue'
  <2>1. \A i \in DOMAIN inflight : inflight[i].job \in Jobs
    BY InFlight
  <2>2. target \in Jobs \cup {NoJob}
    BY DEF IInv, PollingTypeOK
  <2>3. UNCHANGED <<inflight, target>> /\ AnswersAreTrue
    BY <1>2 DEF IInv, PollingInv, hook, history
  <2>4. \A i \in DOMAIN inflight :
           /\ rows'[inflight[i].job] # Server!NoRow
           /\ inflight[i].answer \in Server!Terminal =>
                 rows'[inflight[i].job].status = inflight[i].answer
    BY <1>3, <2>1, <2>3 DEF AnswersAreTrue, RowsMoveOn
  <2>5. /\ rows'[post'] # Server!NoRow
        /\ target # NoJob => rows'[target] # Server!NoRow
    BY <1>1, <1>3, <2>2, <2>3 DEF AnswersAreTrue, RowsMoveOn
  <2> QED BY <2>3, <2>4, <2>5 DEF AnswersAreTrue
<1> QED BY <1>4, <1>5, <1>6, <1>7 DEF IInv, PollingInv

LEMMA CreatedKeeps == ASSUME IInv, Created PROVE IInv'
<1>1. post \in Jobs /\ rows[post] # Server!NoRow /\ UNCHANGED rows /\ Send(post)
  BY DEF IInv, PollingInv, AnswersAreTrue, Created
<1>2. /\ inflight' \in Seq(Request)
      /\ overlapped' \in BOOLEAN
      /\ \A i \in DOMAIN inflight' :
            /\ rows'[inflight'[i].job] # Server!NoRow
            /\ inflight'[i].answer \in Server!Terminal =>
                  rows'[inflight'[i].job].status = inflight'[i].answer
  BY <1>1, Sent
<1>3. /\ post' = "none" /\ active' = post /\ UNCHANGED <<rows, submitError>>
      /\ target' = post /\ isPolling' = TRUE /\ attempts' = 0
      /\ shown' = Nothing /\ error' = "none"
  BY <1>1, PollingAssumption DEF Created, StartAfresh
<1>4. PollingTypeOK'
  <2>1. crossed' \in BOOLEAN
    BY DEF Created
  <2> QED BY <1>1, <1>2, <1>3, <2>1, NothingIsShown DEF IInv, PollingTypeOK, ErrorKind
<1>5. PollingHasTarget'
  BY <1>1, <1>3, PollingAssumption DEF PollingHasTarget, Submitting
<1>6. ShownOutcomeIsTrue'
  BY <1>3, NothingIsShown DEF ShownOutcomeIsTrue
<1>7. AnswersAreTrue'
  BY <1>1, <1>2, <1>3, PollingAssumption DEF AnswersAreTrue
<1> QED BY <1>4, <1>5, <1>6, <1>7 DEF IInv, PollingInv

LEMMA CreateFailsKeeps == ASSUME IInv, CreateFails PROVE IInv'
BY PollingAssumption
DEF IInv, PollingTypeOK, PollingInv, PollingHasTarget, ShownOutcomeIsTrue, AnswersAreTrue,
    CreateFails, Submitting, hook, history

LEMMA TickKeeps == ASSUME IInv, Tick PROVE IInv'
<1>1. /\ target \in Jobs /\ rows[target] # Server!NoRow /\ Send(target)
      /\ UNCHANGED <<rows, form, hook, crossed>>
  BY DEF IInv, PollingTypeOK, PollingInv, AnswersAreTrue, Tick
<1>2. /\ inflight' \in Seq(Request)
      /\ overlapped' \in BOOLEAN
      /\ \A i \in DOMAIN inflight' :
            /\ rows'[inflight'[i].job] # Server!NoRow
            /\ inflight'[i].answer \in Server!Terminal =>
                  rows'[inflight'[i].job].status = inflight'[i].answer
  BY <1>1, Sent
<1> QED BY <1>1, <1>2
        DEF IInv, PollingTypeOK, PollingInv, PollingHasTarget, ShownOutcomeIsTrue, AnswersAreTrue,
            Submitting, form, hook, history

LEMMA SettleKeeps == ASSUME IInv, Settle PROVE IInv'
<1>1. PICK j \in Jobs : Server!Settle(j)
  BY DEF Settle
<1>2. RowsMoveOn
  BY <1>1, SettleMovesOn DEF IInv, PollingTypeOK
<1> QED BY <1>2, ServerKeeps DEF Settle

\* An answer on its way: read from the row, or lost.
LEMMA AnswerOnItsWay ==
    ASSUME IInv, NEW i \in DOMAIN inflight,
           NEW a \in {"error"} \cup JobStatus,
           a \in Server!Terminal => rows[inflight[i].job].status = a,
           inflight' = [inflight EXCEPT ![i].answer = a],
           UNCHANGED <<rows, form, hook, history>>
    PROVE  IInv'
<1> DEFINE old == inflight[i]
           new == [old EXCEPT !.answer = a]
<1>1. old \in Request
  BY DEF IInv, PollingTypeOK
<1>2. new \in Request /\ new.job = old.job /\ new.answer = a
  BY <1>1 DEF Request
<1>3. /\ inflight \in Seq(Request)
      /\ inflight' = [inflight EXCEPT ![i] = new]
  BY DEF IInv, PollingTypeOK
<1>4. a \in Server!Terminal => rows[old.job].status = a
  OBVIOUS
<1>5. rows[old.job] # Server!NoRow
  BY DEF IInv, PollingInv, AnswersAreTrue
<1> HIDE DEF old, new
<1>6. /\ inflight' \in Seq(Request)
      /\ DOMAIN inflight' = DOMAIN inflight
      /\ \A k \in DOMAIN inflight : inflight'[k] = IF k = i THEN new ELSE inflight[k]
  BY <1>2, <1>3
<1>7. AnswersAreTrue'
  BY <1>2, <1>4, <1>5, <1>6 DEF IInv, PollingInv, AnswersAreTrue, form, hook, history
<1> QED BY <1>6, <1>7
        DEF IInv, PollingTypeOK, PollingInv, PollingHasTarget, ShownOutcomeIsTrue, Submitting,
            form, hook, history

LEMMA ReadKeeps == ASSUME IInv, NEW i \in DOMAIN inflight, Read(i) PROVE IInv'
<1>1. inflight[i].job \in Jobs /\ rows[inflight[i].job] \in Server!Row
  BY InFlight DEF IInv, PollingTypeOK
<1>2. rows[inflight[i].job] # Server!NoRow
  BY DEF IInv, PollingInv, AnswersAreTrue
<1>3. rows[inflight[i].job].status \in JobStatus
  BY <1>1, <1>2, RowStatus
<1> QED BY <1>3, AnswerOnItsWay DEF Read

LEMMA GetFailsKeeps == ASSUME IInv, NEW i \in DOMAIN inflight, GetFails(i) PROVE IInv'
BY AnswerOnItsWay DEF GetFails, Server!Terminal

\* What fetchOnce does to the hook, whichever way it goes.
LEMMA AnswerKeeps == ASSUME IInv, NEW i \in DOMAIN inflight, Answer(i) PROVE IInv'
<1> DEFINE job == inflight[i].job
           status == inflight[i].answer
<1>1. job \in Jobs /\ status \in {"open", "error"} \cup JobStatus
  BY InFlight
<1>2. status \in Server!Terminal => rows[job].status = status
  BY DEF IInv, PollingInv, AnswersAreTrue
<1>3. \/ OnTerminal(job, status)
      \/ OnProgress(job, status)
      \/ OnError(status)
  BY DEF Answer
<1>4. /\ inflight \in Seq(Request)
      /\ inflight' = SubSeq(inflight, 1, i - 1) \o SubSeq(inflight, i + 1, Len(inflight))
      /\ UNCHANGED <<rows, form, history>>
  BY DEF IInv, PollingTypeOK, Answer
<1>5. /\ inflight' \in Seq(Request)
      /\ \A k \in DOMAIN inflight' : \E l \in DOMAIN inflight : inflight'[k] = inflight[l]
  BY <1>4, Answered
<1> HIDE DEF job, status
<1>6. /\ shown' \in Shown
      /\ shown'.status \in Server!Terminal => rows'[shown'.job].status = shown'.status
  <2>1. CASE shown' = [job |-> job, status |-> status] /\ status \in JobStatus
    <3>1. shown' \in Shown
      BY <1>1, <2>1 DEF Shown
    <3>2. shown'.job = job /\ shown'.status = status
      BY <2>1
    <3> QED BY <1>2, <1>4, <3>1, <3>2
  <2>2. CASE UNCHANGED shown
    BY <1>4, <2>2 DEF IInv, PollingTypeOK, PollingInv, ShownOutcomeIsTrue
  <2>3. status \in TERMINAL_STATUSES /\ status \in {"open", "error"} \cup JobStatus =>
           status \in JobStatus
    BY DEF TERMINAL_STATUSES, JobStatus
  <2> QED BY <1>1, <1>3, <2>1, <2>2, <2>3 DEF OnTerminal, OnProgress, OnError, Show
<1>7. /\ attempts' \in Nat
      /\ error' \in ErrorKind
      /\ \/ target' = NoJob /\ isPolling' = FALSE
         \/ UNCHANGED <<target, isPolling>> /\ (attempts' < MaxAttempts \/ ~isPolling)
  BY <1>3, PollingAssumption
  DEF OnTerminal, OnProgress, OnError, StopPolling, ErrorKind, IInv, PollingTypeOK
<1>8. PollingTypeOK'
  BY <1>4, <1>5, <1>6, <1>7 DEF IInv, PollingTypeOK, form, history
<1>9. PollingHasTarget'
  BY <1>4, <1>7 DEF IInv, PollingInv, PollingHasTarget, Submitting, form
<1>10. AnswersAreTrue'
  BY <1>4, <1>5, <1>7 DEF IInv, PollingInv, AnswersAreTrue, form
<1> QED BY <1>6, <1>8, <1>9, <1>10 DEF IInv, PollingInv, ShownOutcomeIsTrue

\* Every step keeps the invariant.
LEMMA StepKeeps == IInv /\ [PollingNext]_pollingVars => IInv'
<1> SUFFICES ASSUME IInv, [PollingNext]_pollingVars PROVE IInv'
  OBVIOUS
<1>1. CASE Submit
  BY <1>1, SubmitKeeps
<1>2. CASE PostArrives
  BY <1>2, PostArrivesKeeps
<1>3. CASE Created
  BY <1>3, CreatedKeeps
<1>4. CASE CreateFails
  BY <1>4, CreateFailsKeeps
<1>5. CASE Tick
  BY <1>5, TickKeeps
<1>6. CASE Settle
  BY <1>6, SettleKeeps
<1>7. CASE \E i \in DOMAIN inflight : Read(i) \/ GetFails(i) \/ Answer(i)
  BY <1>7, ReadKeeps, GetFailsKeeps, AnswerKeeps
<1>8. CASE UNCHANGED pollingVars
  <2>1. RowsMoveOn
    BY <1>8 DEF pollingVars, RowsMoveOn, IInv, PollingTypeOK
  <2> QED BY <1>8, <2>1, ServerKeeps DEF pollingVars
<1> QED BY <1>1, <1>2, <1>3, <1>4, <1>5, <1>6, <1>7, <1>8 DEF PollingNext

-----------------------------------------------------------------------------
(* The end is told.                                                        *)

\* While no request overtook another, the one in flight is that of the polling, and
\* the screen is empty or about the scan polled for.
Calm ==
    /\ EndIsTold
    /\ ~overlapped =>
          /\ inflight # <<>> => isPolling /\ Len(inflight) = 1 /\ inflight[1].job = target
          /\ isPolling => shown.job \in {active, NoJob}

\* A step that leaves the hook alone keeps it, if a form that was enabled still shows
\* the same scan.
LEMMA HookAloneKeepsCalm ==
    ASSUME Calm, IInv, UNCHANGED hook, overlapped => overlapped',
           ~overlapped' /\ inflight' # <<>> => isPolling /\ Len(inflight') = 1 /\ inflight'[1].job = target,
           isPolling => active' = active,
           FormEnabled' => submitError' \/ (FormEnabled /\ UNCHANGED <<active, submitError>>)
    PROVE  Calm'
BY DEF Calm, EndIsTold, hook, history

LEMMA SubmitKeepsCalm == ASSUME Calm, IInv, Submit PROVE Calm'
<1>1. FormEnabled' = FALSE /\ isPolling' = FALSE
  BY PollingAssumption DEF Submit, FormEnabled, Submitting, StartAfresh
<1>2. ~overlapped' => ~overlapped /\ inflight' = <<>>
  BY DEF Submit
<1> QED BY <1>1, <1>2 DEF Calm, EndIsTold

\* A request sent while none is in flight is the only one.
LEMMA SentAlone ==
    ASSUME IInv, NEW j \in Jobs, Send(j), ~overlapped'
    PROVE  Len(inflight') = 1 /\ inflight'[1].job = j
<1> DEFINE new == [job |-> j, answer |-> "open"]
<1>1. new \in Request /\ new.job = j
  BY DEF Request
<1>2. inflight \in Seq(Request) /\ inflight = <<>> /\ inflight' = Append(inflight, new)
  BY DEF IInv, PollingTypeOK, Send
<1> HIDE DEF new
<1> QED BY <1>1, <1>2

LEMMA CreatedKeepsCalm == ASSUME Calm, IInv, Created PROVE Calm'
<1>1. isPolling' /\ target' = post /\ shown' = Nothing
  BY PollingAssumption DEF Created, StartAfresh
<1>2. ~overlapped' => Len(inflight') = 1 /\ inflight'[1].job = post
  BY SentAlone DEF Created
<1> QED BY <1>1, <1>2 DEF Calm, EndIsTold, FormEnabled, Nothing

LEMMA TickKeepsCalm == ASSUME Calm, IInv, Tick PROVE Calm'
<1>1. isPolling /\ UNCHANGED <<form, hook>> /\ (overlapped => overlapped')
  BY DEF Tick, Send
<1>2. ~overlapped' => Len(inflight') = 1 /\ inflight'[1].job = target
  BY SentAlone DEF Tick, IInv, PollingTypeOK
<1> QED BY <1>1, <1>2, HookAloneKeepsCalm DEF FormEnabled, form, hook, history

\* A request that is given an answer is still about the same scan.
LEMMA InFlightKeepsCalm ==
    ASSUME Calm, IInv, NEW i \in DOMAIN inflight, Read(i) \/ GetFails(i)
    PROVE  Calm'
<1>1. PICK a : inflight' = [inflight EXCEPT ![i].answer = a]
  BY DEF Read, GetFails
<1>2. inflight \in Seq(Request) /\ inflight[i] \in Request
  BY DEF IInv, PollingTypeOK
<1>3. [inflight[i] EXCEPT !.answer = a].job = inflight[i].job
  BY <1>2 DEF Request
<1>4. UNCHANGED <<form, hook, history>>
  BY DEF Read, GetFails
<1>5. Len(inflight') = Len(inflight)
      /\ (Len(inflight) = 1 => inflight'[1].job = inflight[1].job)
      /\ inflight # <<>>
  BY <1>1, <1>2, <1>3
<1> QED BY <1>4, <1>5, HookAloneKeepsCalm DEF Calm, FormEnabled, Submitting, form, hook, history

\* The answer to the only request ends the polling with the error that goes with
\* what is shown, or goes on.
LEMMA AnswerKeepsCalm == ASSUME Calm, IInv, NEW i \in DOMAIN inflight, Answer(i) PROVE Calm'
<1> DEFINE job == inflight[i].job
           status == inflight[i].answer
<1>1. UNCHANGED <<form, overlapped>>
  BY DEF Answer, history
<1> SUFFICES ASSUME ~overlapped PROVE Calm'
  BY <1>1 DEF Calm, EndIsTold
<1>2. inflight \in Seq(Request) /\ Len(inflight) = 1 /\ i = 1
  BY DEF Calm, IInv, PollingTypeOK
<1>3. inflight' = <<>>
  BY <1>2 DEF Answer
<1>4. isPolling /\ job = active /\ job \in Jobs /\ attempts \in Nat /\ attempts < MaxAttempts
      /\ shown.job \in {active, NoJob}
  <2>1. isPolling /\ job = target /\ shown.job \in {active, NoJob}
    BY <1>2 DEF Calm
  <2> QED BY <2>1, InFlight DEF IInv, PollingTypeOK, PollingInv, PollingHasTarget
<1>5. \/ OnTerminal(job, status)
      \/ OnProgress(job, status)
      \/ OnError(status)
  BY DEF Answer
<1>6. status \in {"open", "error"} \cup JobStatus
  BY InFlight
<1> HIDE DEF job, status
<1>7. CASE OnTerminal(job, status)
  <2>1. status \in {"completed", "failed"}
    BY <1>6, <1>7 DEF OnTerminal, TERMINAL_STATUSES, JobStatus, Server!Terminal
  <2>2. /\ ~isPolling' /\ shown' = [job |-> job, status |-> status]
        /\ error' = IF status = "failed" THEN "failed" ELSE "none"
    BY <1>7 DEF OnTerminal, StopPolling, Show
  <2> QED BY <1>1, <1>3, <1>4, <2>1, <2>2 DEF Calm, EndIsTold, form
<1>8. CASE OnProgress(job, status)
  <2>1. /\ shown' = [job |-> job, status |-> status] /\ status \notin Server!Terminal
        /\ attempts' = attempts + 1
    BY <1>8 DEF OnProgress, Show, TERMINAL_STATUSES, Server!Terminal
  <2>2. CASE attempts + 1 >= MaxAttempts
    <3>1. ~isPolling' /\ error' = "timeout" /\ attempts' = MaxAttempts
      BY <1>4, <1>8, <2>1, <2>2, PollingAssumption DEF OnProgress, StopPolling
    <3> QED BY <1>1, <1>3, <1>4, <2>1, <3>1 DEF Calm, EndIsTold, form
  <2>3. CASE ~(attempts + 1 >= MaxAttempts)
    <3>1. isPolling'
      BY <1>4, <1>8, <2>3 DEF OnProgress
    <3> QED BY <1>1, <1>3, <1>4, <2>1, <3>1 DEF Calm, EndIsTold, FormEnabled, form
  <2> QED BY <2>2, <2>3
<1>9. CASE OnError(status)
  <2>1. ~isPolling' /\ error' = "unreachable" /\ UNCHANGED shown
    BY <1>9 DEF OnError, StopPolling
  <2> QED BY <1>1, <1>3, <1>4, <2>1 DEF Calm, EndIsTold, form
<1> QED BY <1>5, <1>7, <1>8, <1>9

-----------------------------------------------------------------------------
(* The results.                                                            *)

\* Whatever answers are on their way, they, the screen and the hook agree with
\* the server: the inductive invariant (useScanPolling.ts:38-104).
THEOREM PollingInvariant == PollingSpec => [](PollingTypeOK /\ PollingInv)
<1>1. PollingInit => IInv
  BY InitEstablishes
<1>2. IInv /\ [PollingNext]_pollingVars => IInv'
  BY StepKeeps
<1>3. IInv => PollingTypeOK /\ PollingInv
  BY DEF IInv
<1> QED BY <1>1, <1>2, <1>3, PTL DEF PollingSpec

\* Type correctness (useScanPolling.ts:22-27, Dashboard.tsx:25-27).
THEOREM PollingTypes == PollingSpec => []PollingTypeOK
BY PollingInvariant, PTL

\* isPolling and scanIdRef stay together and concern the scan the form submitted
\* last (useScanPolling.ts:45-66, 75-84).
THEOREM PollingKeepsItsTarget == PollingSpec => []PollingHasTarget
<1>1. PollingInv => PollingHasTarget
  BY DEF PollingInv
<1> QED BY <1>1, PollingInvariant, PTL

\* What a step may do to what is about the active scan: all requests were or are
\* sent for it, and so is what is shown.
LEMMA NothingElseIsAsked ==
    ASSUME AboutTheActive, UNCHANGED <<active, crossed>>,
           \A k \in DOMAIN inflight' :
               inflight'[k].job = active \/ \E l \in DOMAIN inflight : inflight'[k].job = inflight[l].job,
           \/ shown'.job \in {active, NoJob, shown.job}
           \/ \E l \in DOMAIN inflight : shown'.job = inflight[l].job
    PROVE  AboutTheActive'
BY DEF AboutTheActive

\* The number comes: unless a request is out, the first is sent and nothing is shown.
LEMMA CreatedIsAboutTheActive == ASSUME IInv, Created PROVE AboutTheActive'
<1>1. active' = post /\ shown' = Nothing /\ crossed' = (inflight # <<>>)
  BY DEF Created, StartAfresh
<1>2. shown'.job = NoJob
  BY <1>1 DEF Nothing
<1>3. CASE inflight = <<>>
  <2> DEFINE new == [job |-> post, answer |-> "open"]
  <2>1. new.job = post /\ inflight' = Append(<<>>, new)
    BY <1>3 DEF Created, Send
  <2> HIDE DEF new
  <2>2. \A i \in DOMAIN inflight' : inflight'[i] = new
    BY <2>1
  <2> QED BY <1>1, <1>2, <2>1, <2>2 DEF AboutTheActive
<1> QED BY <1>1, <1>3 DEF AboutTheActive

\* The interval asks for the active scan.
LEMMA TickIsAboutTheActive == ASSUME IInv, AboutTheActive, Tick PROVE AboutTheActive'
<1> DEFINE new == [job |-> target, answer |-> "open"]
<1>1. target = active /\ UNCHANGED <<active, shown, crossed>>
  BY DEF Tick, IInv, PollingInv, PollingHasTarget, form, hook
<1>2. inflight \in Seq(Request) /\ new \in Request /\ new.job = active
      /\ inflight' = Append(inflight, new)
  BY <1>1 DEF Tick, Send, IInv, PollingTypeOK, Request
<1> HIDE DEF new
<1>3. \A k \in DOMAIN inflight' : inflight'[k] = new \/ (k \in DOMAIN inflight /\ inflight'[k] = inflight[k])
  BY <1>2
<1> QED BY <1>1, <1>2, <1>3, NothingElseIsAsked

\* A request keeps its job when it is read or fails.
LEMMA MarkedIsAboutTheActive ==
    ASSUME IInv, AboutTheActive, NEW i \in DOMAIN inflight, Read(i) \/ GetFails(i)
    PROVE  AboutTheActive'
<1>1. UNCHANGED <<active, shown, crossed>>
  BY DEF Read, GetFails, form, hook, history
<1>2. PICK a : inflight' = [inflight EXCEPT ![i].answer = a]
  BY DEF Read, GetFails
<1>3. inflight \in Seq(Request) /\ inflight[i] \in Request
  BY DEF IInv, PollingTypeOK
<1>4. [inflight[i] EXCEPT !.answer = a].job = inflight[i].job
  BY <1>3 DEF Request
<1>5. DOMAIN inflight' = DOMAIN inflight /\ \A k \in DOMAIN inflight : inflight'[k].job = inflight[k].job
  BY <1>2, <1>3, <1>4
<1> QED BY <1>1, <1>5, NothingElseIsAsked

\* An answer that is taken is about the scan its request was about.
LEMMA AnswerIsAboutTheActive ==
    ASSUME IInv, AboutTheActive, NEW i \in DOMAIN inflight, Answer(i) PROVE AboutTheActive'
<1> DEFINE job == inflight[i].job
           status == inflight[i].answer
<1>1. UNCHANGED <<active, crossed>>
  BY DEF Answer, form, history
<1>2. \A k \in DOMAIN inflight' : \E l \in DOMAIN inflight : inflight'[k] = inflight[l]
  BY Answered DEF Answer, IInv, PollingTypeOK
<1>3. shown' = [job |-> job, status |-> status] \/ UNCHANGED shown
  BY DEF Answer, OnTerminal, OnProgress, OnError, Show
<1>4. shown'.job \in {job, shown.job}
  <2> HIDE DEF job, status
  <2> QED BY <1>3
<1> QED BY <1>1, <1>2, <1>4, NothingElseIsAsked

\* An outcome in the banner is that of the scan whose number stands by it, unless a request
\* of an earlier scan was still out as the number came (Dashboard.tsx:99-104,
\* useScanPolling.ts:38-49, 75-84).
THEOREM BannersAreTrue == PollingSpec => []BannerIsTrue
<1>1. PollingInit => AboutTheActive
  BY DEF PollingInit, AboutTheActive, Nothing
<1>2. IInv /\ AboutTheActive /\ [PollingNext]_pollingVars => AboutTheActive'
  <2> SUFFICES ASSUME IInv, AboutTheActive, [PollingNext]_pollingVars PROVE AboutTheActive'
    OBVIOUS
  <2>1. CASE Submit
    BY <2>1 DEF Submit, StartAfresh, Nothing, AboutTheActive
  <2>2. CASE PostArrives \/ CreateFails \/ Settle \/ UNCHANGED pollingVars
    <3>1. UNCHANGED <<active, hook, inflight, history>>
      BY <2>2 DEF PostArrives, CreateFails, Settle, pollingVars, form
    <3> QED BY <3>1 DEF AboutTheActive, hook, history
  <2>3. CASE Created
    BY <2>3, CreatedIsAboutTheActive
  <2>4. CASE Tick
    BY <2>4, TickIsAboutTheActive
  <2>5. CASE \E i \in DOMAIN inflight : Read(i) \/ GetFails(i) \/ Answer(i)
    BY <2>5, MarkedIsAboutTheActive, AnswerIsAboutTheActive
  <2> QED BY <2>1, <2>2, <2>3, <2>4, <2>5 DEF PollingNext
<1>3. IInv <=> PollingTypeOK /\ PollingInv
  BY DEF IInv
<1>4. IInv /\ AboutTheActive => BannerIsTrue
  <2> SUFFICES ASSUME IInv, AboutTheActive, ~crossed, shown.status \in Server!Terminal
               PROVE  rows[active].status = shown.status
    BY DEF BannerIsTrue, Banner
  <2>1. shown.job \in Jobs
    BY DEF IInv, PollingTypeOK, Shown, Nothing, Server!Terminal
  <2>2. shown.job = active
    BY <2>1, PollingAssumption DEF AboutTheActive
  <2> QED BY <2>2 DEF IInv, PollingInv, ShownOutcomeIsTrue
<1> QED BY <1>1, <1>2, <1>3, <1>4, PollingInvariant, PTL DEF PollingSpec

\* When polling has ended, the screen tells how, if every answer came before the next
\* request was made (useScanPolling.ts:38-73).
THEOREM EndsAreTold == PollingSpec => []EndIsTold
<1>1. PollingInit => Calm
  BY PollingAssumption DEF PollingInit, Calm, EndIsTold, Nothing
<1>2. IInv /\ Calm /\ [PollingNext]_pollingVars => Calm'
  <2> SUFFICES ASSUME IInv, Calm, [PollingNext]_pollingVars PROVE Calm'
    OBVIOUS
  <2>1. CASE Submit \/ Created \/ Tick
    BY <2>1, SubmitKeepsCalm, CreatedKeepsCalm, TickKeepsCalm
  <2>2. CASE PostArrives
    BY <2>2, HookAloneKeepsCalm, PollingAssumption DEF PostArrives, Calm, FormEnabled, Submitting, form, hook, history
  <2>3. CASE CreateFails
    BY <2>3, HookAloneKeepsCalm DEF CreateFails, Calm, hook, history
  <2>4. CASE Settle
    BY <2>4, HookAloneKeepsCalm DEF Settle, Calm, FormEnabled, Submitting, form, hook, history
  <2>5. CASE \E i \in DOMAIN inflight : Read(i) \/ GetFails(i) \/ Answer(i)
    BY <2>5, InFlightKeepsCalm, AnswerKeepsCalm
  <2>6. CASE UNCHANGED pollingVars
    BY <2>6, HookAloneKeepsCalm DEF pollingVars, Calm, FormEnabled, Submitting, form, hook, history
  <2> QED BY <2>1, <2>2, <2>3, <2>4, <2>5, <2>6 DEF PollingNext
<1>3. IInv <=> PollingTypeOK /\ PollingInv
  BY DEF IInv
<1>4. Calm => EndIsTold
  BY DEF Calm
<1> QED BY <1>1, <1>2, <1>3, <1>4, PollingInvariant, PTL DEF PollingSpec
-----------------------------------------------------------------------------
(* How polling comes to its end.                                           *)

\* How far jobs and requests have come: jobs with an outcome, requests sent, answered,
\* failed.
HaveOutcome == {j \in Jobs : rows[j].status \notin {"absent", "pending"}}
SentOnes == 1 .. Len(inflight)
AnsweredOnes == {i \in DOMAIN inflight : inflight[i].answer # "open"}
FailedOnes == {i \in DOMAIN inflight : inflight[i].answer = "error"}
Came == <<HaveOutcome, SentOnes, AnsweredOnes, FailedOnes>>
CameFarther ==
    /\ HaveOutcome \subseteq HaveOutcome' /\ SentOnes \subseteq SentOnes'
    /\ AnsweredOnes \subseteq AnsweredOnes' /\ FailedOnes \subseteq FailedOnes'
    /\ Came' # Came

\* While a scan is polled an answer that is taken ends the polling or uses up an attempt, and
\* all else brings answers nearer.
PollingAdvances ==
    isPolling =>
        \/ ~isPolling'
        \/ attempts' = attempts + 1 /\ attempts' < MaxAttempts
        \/ attempts' = attempts /\ CameFarther

\* Requests are limited, and while a scan is polled one is on its way or may be sent.
InFlightBounded == Len(inflight) <= MaxInFlight
PollingIsServed ==
    /\ InFlightBounded
    /\ isPolling => inflight # <<>> \/ (target # NoJob /\ Len(inflight) < MaxInFlight)

\* When a request gets its answer the others stay as they are.
LEMMA Marked ==
    ASSUME IInv, NEW i \in DOMAIN inflight, NEW a \in {"open", "error"} \cup JobStatus,
           inflight' = [inflight EXCEPT ![i].answer = a]
    PROVE  /\ Len(inflight') = Len(inflight) /\ DOMAIN inflight' = DOMAIN inflight
           /\ inflight'[i].answer = a
           /\ \A k \in DOMAIN inflight : k # i => inflight'[k] = inflight[k]
<1>1. inflight \in Seq(Request) /\ inflight[i] \in Request
    BY DEF IInv, PollingTypeOK
<1>2. [inflight[i] EXCEPT !.answer = a] \in Request /\ [inflight[i] EXCEPT !.answer = a].answer = a
    BY <1>1 DEF Request
<1>3. inflight' = [inflight EXCEPT ![i] = [inflight[i] EXCEPT !.answer = a]]
    OBVIOUS
<1> DEFINE new == [inflight[i] EXCEPT !.answer = a]
<1> HIDE DEF new
<1>4. inflight' = [inflight EXCEPT ![i] = new] /\ new \in Request
    BY <1>2, <1>3 DEF new
<1>5. Len(inflight') = Len(inflight) /\ DOMAIN inflight' = DOMAIN inflight
    BY <1>1, <1>4
<1>6. inflight'[i] = new /\ \A k \in DOMAIN inflight : k # i => inflight'[k] = inflight[k]
    BY <1>1, <1>4
<1> QED BY <1>2, <1>5, <1>6 DEF new

\* A request that is read, or fails, brings its answer nearer.
LEMMA MarkedIsFarther ==
    ASSUME IInv, NEW i \in DOMAIN inflight, UNCHANGED rows,
           NEW a \in {"error"} \cup JobStatus,
           inflight' = [inflight EXCEPT ![i].answer = a],
           inflight[i].answer # "error", inflight[i].answer = "open" \/ a = "error"
    PROVE  CameFarther
<1>1. a # "open" /\ (a = "error" \/ inflight[i].answer = "open")
    BY DEF JobStatus, Server!Terminal
<1>2. /\ Len(inflight') = Len(inflight) /\ DOMAIN inflight' = DOMAIN inflight
      /\ inflight'[i].answer = a
      /\ \A k \in DOMAIN inflight : k # i => inflight'[k] = inflight[k]
    BY Marked
<1>3. HaveOutcome' = HaveOutcome /\ SentOnes' = SentOnes
    BY <1>2 DEF HaveOutcome, SentOnes
<1>4. AnsweredOnes \subseteq AnsweredOnes' /\ FailedOnes \subseteq FailedOnes'
    BY <1>1, <1>2 DEF AnsweredOnes, FailedOnes
<1>5. \/ i \in FailedOnes' /\ i \notin FailedOnes
      \/ i \in AnsweredOnes' /\ i \notin AnsweredOnes
    BY <1>1, <1>2 DEF AnsweredOnes, FailedOnes
<1> QED BY <1>3, <1>4, <1>5 DEF CameFarther, Came

\* So does a request that is sent.
LEMMA SentIsFarther ==
    ASSUME IInv, NEW j \in Jobs, Send(j), UNCHANGED rows
    PROVE  CameFarther /\ Len(inflight') = Len(inflight) + 1
<1>1. inflight \in Seq(Request)
    BY DEF IInv, PollingTypeOK
<1>2. PICK r : r = [job |-> j, answer |-> "open"]
    OBVIOUS
<1>3. inflight' = Append(inflight, r) /\ r \in Request
    BY <1>2 DEF Send, Request
<1>4. /\ Len(inflight') = Len(inflight) + 1 /\ Len(inflight) \in Nat
      /\ DOMAIN inflight \subseteq DOMAIN inflight'
      /\ \A k \in DOMAIN inflight : inflight'[k] = inflight[k]
    BY <1>1, <1>3
<1>5. HaveOutcome' = HaveOutcome
    BY DEF HaveOutcome
<1>6. SentOnes \subseteq SentOnes' /\ Len(inflight) + 1 \in SentOnes' /\ Len(inflight) + 1 \notin SentOnes
    BY <1>4 DEF SentOnes
<1>7. AnsweredOnes \subseteq AnsweredOnes' /\ FailedOnes \subseteq FailedOnes'
    BY <1>4 DEF AnsweredOnes, FailedOnes
<1>8. Came' # Came
    BY <1>6 DEF Came
<1> QED BY <1>4, <1>5, <1>6, <1>7, <1>8 DEF CameFarther

\* And an outcome, which a job keeps.
LEMMA SettledIsFarther == ASSUME IInv, Settle PROVE CameFarther
<1>1. PICK j \in Jobs : Server!Settle(j)
    BY DEF Settle
<1>2. PICK new \in Server!Outcomes(rows[j]) : rows' = [rows EXCEPT ![j] = new]
    BY <1>1 DEF Server!Settle
<1>3. new.status \notin {"absent", "pending"}
    BY <1>2 DEF Server!Outcomes, Server!Whole, Server!Bare, Server!WithContext
<1>4. rows[j].status = "pending" /\ rows \in [Jobs -> Server!Row]
    BY <1>1 DEF Server!Settle, IInv, PollingTypeOK
<1>5. HaveOutcome' = HaveOutcome \cup {j} /\ j \notin HaveOutcome
    BY <1>2, <1>3, <1>4 DEF HaveOutcome
<1>6. SentOnes' = SentOnes /\ AnsweredOnes' = AnsweredOnes /\ FailedOnes' = FailedOnes
    BY DEF Settle, SentOnes, AnsweredOnes, FailedOnes
<1> QED BY <1>5, <1>6 DEF CameFarther, Came

\* An answer leaves one request less.
LEMMA AnswerIsOneLess ==
    ASSUME IInv, NEW i \in DOMAIN inflight, Answer(i)
    PROVE  Len(inflight') < Len(inflight)
<1>1. inflight \in Seq(Request) /\ i \in 1 .. Len(inflight) /\ Len(inflight) \in Nat
    BY DEF IInv, PollingTypeOK
<1> DEFINE before == SubSeq(inflight, 1, i - 1)
           after == SubSeq(inflight, i + 1, Len(inflight))
<1>2. /\ before \in Seq(Request) /\ Len(before) = i - 1
      /\ after \in Seq(Request) /\ Len(after) = Len(inflight) - i
    BY <1>1
<1>3. inflight' = before \o after
    BY DEF Answer
<1> DEFINE n == Len(inflight)
<1>4. n \in Nat /\ i \in 1 .. n /\ Len(before) = i - 1 /\ Len(after) = n - i
    BY <1>1, <1>2
<1> HIDE DEF before, after, n
<1>5. Len(before \o after) = Len(before) + Len(after)
    BY <1>2
<1>6. Len(inflight') < n
    BY <1>3, <1>4, <1>5
<1> QED BY <1>6 DEF n

\* It ends the polling or uses up an attempt.
LEMMA AnswerCounts ==
    ASSUME IInv, isPolling, NEW i \in DOMAIN inflight, Answer(i)
    PROVE  ~isPolling' \/ (attempts' = attempts + 1 /\ attempts' < MaxAttempts)
<1>1. attempts \in Nat /\ MaxAttempts \in Nat
    BY PollingAssumption DEF IInv, PollingTypeOK
<1>2. CASE \E kind : StopPolling(kind)
    BY <1>2 DEF StopPolling
<1>3. CASE attempts' = attempts + 1 /\ ~(attempts + 1 >= MaxAttempts)
    BY <1>1, <1>3
<1> QED BY <1>2, <1>3 DEF Answer, OnTerminal, OnProgress, OnError

\* PollingStops but for its fairness: between two answers only so many requests are sent,
\* read and failed and jobs settled, and MaxAttempts answers are enough, whichever scan they
\* are about (useScanPolling.ts:38-73, 93-100).
THEOREM PollingRunsOut == PollingSpec => []PollingIsServed /\ [][PollingAdvances]_pollingVars
<1>1. ASSUME IInv, PollingNext, isPolling PROVE PollingAdvances
    <2>1. ~Submitting /\ target # NoJob /\ target \in Jobs
        BY <1>1 DEF IInv, PollingInv, PollingHasTarget, PollingTypeOK
    <2>2. CASE Tick
        BY <2>1, <2>2, <1>1, SentIsFarther DEF Tick, hook, PollingAdvances
    <2>3. CASE Settle
        BY <2>3, <1>1, SettledIsFarther DEF Settle, hook, PollingAdvances
    <2>4. ASSUME NEW i \in DOMAIN inflight, Read(i) PROVE PollingAdvances
        <3>1. rows[inflight[i].job].status \in JobStatus
            BY <1>1, InFlight, RowStatus DEF IInv, PollingTypeOK, PollingInv, AnswersAreTrue
        <3>2. CameFarther
            BY <1>1, <2>4, <3>1, MarkedIsFarther DEF Read
        <3> QED BY <2>4, <3>2 DEF Read, hook, PollingAdvances
    <2>5. ASSUME NEW i \in DOMAIN inflight, GetFails(i) PROVE PollingAdvances
        <3>1. CameFarther
            BY <1>1, <2>5, MarkedIsFarther DEF GetFails
        <3> QED BY <2>5, <3>1 DEF GetFails, hook, PollingAdvances
    <2>6. ASSUME NEW i \in DOMAIN inflight, Answer(i) PROVE PollingAdvances
        BY <1>1, <2>6, AnswerCounts DEF PollingAdvances
    <2>7. ~Submit /\ ~PostArrives /\ ~Created /\ ~CreateFails
        BY <1>1, <2>1, PollingAssumption DEF Submit, FormEnabled, PostArrives, Created, CreateFails, Submitting
    <2> QED BY <1>1, <2>2, <2>3, <2>4, <2>5, <2>6, <2>7 DEF PollingNext
<1>2. PollingInit => InFlightBounded
    BY PollingAssumption DEF PollingInit, InFlightBounded
<1>3. ASSUME IInv, InFlightBounded, [PollingNext]_pollingVars PROVE InFlightBounded'
    <2> USE DEF InFlightBounded
    <2>1. inflight \in Seq(Request) /\ Len(inflight) \in Nat /\ MaxInFlight \in Nat
        BY <1>3, PollingAssumption DEF IInv, PollingTypeOK
    <2>2. CASE \E r : inflight' = Append(inflight, r) /\ Len(inflight) < MaxInFlight
        BY <2>1, <2>2
    <2>3. CASE UNCHANGED inflight
        BY <1>3, <2>3
    <2>4. ASSUME NEW i \in DOMAIN inflight, Read(i) \/ GetFails(i) PROVE Len(inflight') = Len(inflight)
        BY <2>1, <2>4 DEF Read, GetFails
    <2>5. ASSUME NEW i \in DOMAIN inflight, Answer(i) PROVE Len(inflight') < Len(inflight)
        BY <1>3, <2>5, AnswerIsOneLess
    <2>6. Len(inflight') \in Nat \/ UNCHANGED inflight
        BY <1>3, StepKeeps DEF IInv, PollingTypeOK
    <2>7. CASE \E i \in DOMAIN inflight : Read(i) \/ GetFails(i) \/ Answer(i)
        BY <1>3, <2>1, <2>4, <2>5, <2>6, <2>7
    <2> QED BY <1>3, <2>2, <2>3, <2>7
            DEF PollingNext, pollingVars, Submit, PostArrives, Created, CreateFails, Tick, Settle, Send
<1>4. IInv /\ InFlightBounded => PollingIsServed
    BY PollingAssumption DEF IInv, PollingInv, PollingHasTarget, PollingIsServed, InFlightBounded
<1>5. IInv /\ PollingNext => PollingAdvances
    BY <1>1 DEF PollingAdvances
<1>6. IInv <=> PollingTypeOK /\ PollingInv
    BY DEF IInv
<1> QED BY <1>2, <1>3, <1>4, <1>5, <1>6, PollingInvariant, PTL DEF PollingSpec
=============================================================================
