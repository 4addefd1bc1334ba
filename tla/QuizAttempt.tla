--------------------------- MODULE QuizAttempt ---------------------------
(***************************************************************************)
(* One attempt at a timed quiz of the Moodle site (src/moodle/mod/quiz),   *)
(* seen from the three places that move it: the student's browser tabs     *)
(* (mod/quiz/module.js and question/qengine.js: the countdown that submits *)
(* the form and the guard against a second submission), the pages of the   *)
(* server (startattempt, attempt, summary and processattempt.php with      *)
(* attemptlib.php) and cron, which closes attempts nobody came back to     *)
(* from rows that it read at the start of its run (cronlib.php).           *)
(*                                                                         *)
(* A page that may write the attempt reads it in one step and writes it in *)
(* another, whole, as it is in the object that the page has made of it.    *)
(* The pages of a student run one at a time, since they lock his session.  *)
(* Cron holds no session: it lists rows, comes to each of them later and   *)
(* loads its steps, and writes it later again.                             *)
(*                                                                         *)
(* The quiz has one page of questions, so its Next button, like the link   *)
(* that ends the test, leads to the summary. Time is counted in seconds    *)
(* from the start of the attempt. MaxTime stands for every later second:   *)
(* there every deadline has passed.                                        *)
(***************************************************************************)
EXTENDS Integers, FiniteSets

CONSTANTS Tab,          \* the student's browser tabs
          Home,         \* the tab in which the attempt was started
          Answer,       \* the answers of a form, Blank among them
          Blank,        \* the answer of a question that nobody touched
          TimeClose,    \* when the time limit ends
          MinTime,      \* QUIZ_MIN_TIME_TO_CONTINUE
          GraceMin,     \* graceperiodmin, what a submission may be late
          GracePeriod,  \* graceperiod, what an overdue attempt may be late
          MaxTime,      \* the last second told apart from the later ones
          MaxRequests   \* bound: page loads and submissions of the student

ASSUME QuizAssumption ==
    /\ Home \in Tab
    /\ Blank \in Answer
    /\ {TimeClose, MinTime, GraceMin, GracePeriod, MaxTime, MaxRequests} \subseteq Nat
    /\ TimeClose + GracePeriod + GraceMin < MaxTime

VARIABLES now,       \* the server's clock, time()
          handling,  \* the quiz's overduehandling
          attempt,   \* the row of quiz_attempts and its question's steps
          cron,      \* the attempt as a run of cron has read it, if it did
          session,   \* the page that holds the session, with what it has read
          sent,      \* requests that the server has not answered yet
          coming,    \* for each tab the page that is about to be shown
          tab,       \* for each tab the page that it shows
          latest,    \* for each tab its latest request, whose answer it shows
          reqs,      \* number of requests made so far
          hasty      \* TRUE once the student did not wait for an answer, or
                     \* used the quiz in two tabs at once

quizVars == <<now, handling, attempt, cron, session, sent, coming, tab, latest,
              reqs, hasty>>

Handling == {"autosubmit", "graceperiod", "autoabandon"}
Closed == {"finished", "abandoned"}
State == {"inprogress", "overdue"} \cup Closed
Never == MaxTime + 1
Moment == 0 .. Never

Attempt == [state: State, check: Moment, answer: Answer, steps: Nat, done: BOOLEAN]
Page == [kind: {"none", "attempt", "summary", "closed", "refused"},
         answer: Answer, base: Answer, steps: Nat,
         endtime: Moment, timeup: BOOLEAN, submitted: BOOLEAN]
Request == [tab: Tab, no: Nat, kind: {"start", "attempt", "summary", "post"},
            form: {"none", "attempt", "summary"},
            answer: Answer, base: Answer, steps: Nat, timeup: BOOLEAN]
Cron == [stage: {"idle", "listed", "loaded"}, time: Moment, row: Attempt]
Session == [busy: BOOLEAN, req: Request, time: Moment, row: Attempt]

NoPage == [kind |-> "none", answer |-> Blank, base |-> Blank, steps |-> 0,
           endtime |-> Never, timeup |-> FALSE, submitted |-> FALSE]
Bare(kind) == [NoPage EXCEPT !.kind = kind]
NoRequest == [tab |-> Home, no |-> 0, kind |-> "attempt", form |-> "none",
              answer |-> Blank, base |-> Blank, steps |-> 0, timeup |-> FALSE]
NoRow == [state |-> "inprogress", check |-> Never, answer |-> Blank, steps |-> 0,
          done |-> FALSE]
NoCron == [stage |-> "idle", time |-> 0, row |-> NoRow]
NoSession == [busy |-> FALSE, req |-> NoRequest, time |-> 0, row |-> NoRow]

QuizTypeOK ==
    /\ now \in 0 .. MaxTime
    /\ handling \in Handling
    /\ attempt \in Attempt
    /\ cron \in Cron
    /\ session \in Session
    /\ sent \subseteq Request
    /\ coming \in [Tab -> Page]
    /\ tab \in [Tab -> Page]
    /\ latest \in [Tab -> Nat]
    /\ reqs \in Nat
    /\ hasty \in BOOLEAN

----------------------------------------------------------------------------
(* The attempt in memory: what the methods of quiz_attempt make of the row   *)
(* and the steps that a page, or cron, has read.                            *)

IsFinished(row) == row.state \in Closed

\* Changed form of InSequence: no validate_sequence_number
InSequence_Always(row, r) == TRUE
\* Changed form of Saved: the saved answer adds no step
Saved_SameStep(row, r) ==
    IF r.form # "attempt" \/ row.done THEN row ELSE [row EXCEPT !.answer = r.answer]

\* process_all_actions with validate_sequence_number and process_save
InSequence(row, r) == r.form = "attempt" => r.steps = row.steps
Saved(row, r) ==
    IF r.form # "attempt" \/ row.done \/ r.answer = row.answer
    THEN row
    ELSE [row EXCEPT !.answer = r.answer, !.steps = @ + 1]

ProcessFinish(row) ==
    [row EXCEPT !.state = "finished", !.check = Never, !.done = TRUE,
                !.steps = IF row.done THEN @ ELSE @ + 1]
\* Changed forms: cron does not see the overdue attempt, or not for long
ProcessGoingOverdue_Unwatched(row, time) ==
    [row EXCEPT !.state = "overdue", !.check = Never]
ProcessGoingOverdue_LateCheck(row, time) ==
    [row EXCEPT !.state = "overdue", !.check = time + GracePeriod + GraceMin]
ProcessGoingOverdue(row, time) == [row EXCEPT !.state = "overdue", !.check = time]
ProcessAbandon(row) == [row EXCEPT !.state = "abandoned", !.check = Never]

\* handle_if_time_expired
HandleIfTimeExpired(row, time) ==
    CASE time < TimeClose -> [row EXCEPT !.check = TimeClose]
      [] time >= TimeClose /\ row.state = "overdue" ->
            IF time - TimeClose >= GracePeriod
            THEN ProcessAbandon(row)
            ELSE [row EXCEPT !.check = TimeClose + GracePeriod]
      [] time >= TimeClose /\ row.state \in Closed -> [row EXCEPT !.check = Never]
      [] time >= TimeClose /\ row.state = "inprogress" ->
            CASE handling = "autosubmit" -> ProcessFinish(row)
              [] handling = "graceperiod" -> ProcessGoingOverdue(row, time)
              [] handling = "autoabandon" -> ProcessAbandon(row)

----------------------------------------------------------------------------
(* The tables: what becomes of the attempt when somebody who has read it as *)
(* held writes it as new.                                                   *)

\* Changed form: step numbers are not unique
Fails_Never(held, new) == FALSE

\* The steps of a question are numbered, and no two have the same number: who
\* adds one fails if there are more by now, and his transaction is rolled back.
Fails(held, new) == new.steps # held.steps /\ attempt.steps # held.steps

\* update_record writes the whole row, whatever it is by now; steps are added
Updated(held, new) ==
    IF new.steps = held.steps /\ new.answer = held.answer
    THEN [attempt EXCEPT !.state = new.state, !.check = new.check]
    ELSE new

\* The methods that handle_if_time_expired calls write the row if they move the
\* attempt, and else the time of the next check, unless there is none.
UpdatedIfTimeExpired(held, new) ==
    IF Fails(held, new) THEN attempt
    ELSE IF new.state # held.state THEN Updated(held, new)
    ELSE IF held.check = Never /\ new.check = Never THEN attempt
    ELSE [attempt EXCEPT !.check = new.check]

----------------------------------------------------------------------------
(* The browser. *)

OnScreen(t) == tab[t].kind \in {"attempt", "summary"}
UnderWay == sent # {} \/ \E t \in Tab : coming[t] # NoPage
Elsewhere(t) == \E u \in Tab \ {t} : OnScreen(u)

\* Whether the student makes a request from tab t without waiting
IsHasty(t) == UnderWay \/ Elsewhere(t)

\* The tab asks for a page: an answer it was waiting for will not be shown
Ask(t, kind, form) ==
    /\ reqs < MaxRequests
    /\ reqs' = reqs + 1
    /\ latest' = [latest EXCEPT ![t] = reqs + 1]
    /\ coming' = [coming EXCEPT ![t] = NoPage]
    /\ sent' = sent \cup {[tab |-> t, no |-> reqs + 1, kind |-> kind,
                           form |-> form.kind, answer |-> form.answer,
                           base |-> form.base, steps |-> form.steps,
                           timeup |-> form.timeup]}

\* The student goes to the quiz in a tab, by the link that starts or continues
\* the attempt, or back to its questions or to its summary by their addresses.
Open(t, kind) ==
    /\ kind \in {"start", "attempt", "summary"}
    /\ Ask(t, kind, NoPage)
    /\ hasty' = (hasty \/ IsHasty(t) \/ tab[t].kind = "attempt")
    /\ UNCHANGED <<now, handling, attempt, cron, session, tab>>

\* The page arrives, and timer.init counts down from what the server wrote
Load(t) ==
    /\ coming[t] # NoPage
    /\ LET due == now + coming[t].endtime
       IN tab' = [tab EXCEPT ![t] = [coming[t] EXCEPT !.endtime =
                     IF @ = Never \/ due <= MaxTime
                     THEN IF @ = Never THEN Never ELSE due
                     ELSE MaxTime]]
    /\ coming' = [coming EXCEPT ![t] = NoPage]
    /\ UNCHANGED <<now, handling, attempt, cron, session, sent, latest, reqs, hasty>>

\* The form can be edited until the next page replaces it. After a submission
\* by the student that is no matter: the form is not submitted again.
Edit(t, a) ==
    /\ tab[t].kind = "attempt"
    /\ ~tab[t].submitted
    /\ tab' = [tab EXCEPT ![t].answer = a]
    /\ UNCHANGED <<now, handling, attempt, cron, session, sent, coming, latest, reqs,
                   hasty>>

\* The student submits the attempt's form: prevent_repeat_submission lets the
\* first submission through, and timer.stop cancels the countdown.
Submit(t) ==
    /\ tab[t].kind = "attempt"
    /\ ~tab[t].submitted
    /\ Ask(t, "post", tab[t])
    /\ tab' = [tab EXCEPT ![t].submitted = TRUE, ![t].endtime = Never]
    /\ hasty' = (hasty \/ IsHasty(t))
    /\ UNCHANGED <<now, handling, attempt, cron, session>>

\* The student submits all and finishes, on the summary: a plain form
Finish(t) ==
    /\ tab[t].kind = "summary"
    /\ Ask(t, "post", tab[t])
    /\ hasty' = (hasty \/ IsHasty(t))
    /\ UNCHANGED <<now, handling, attempt, cron, session, tab>>

\* timer.update finds no time left: it sets timeup and calls form.submit(),
\* which runs no submit handler
TimerFires(t) ==
    /\ OnScreen(t)
    /\ tab[t].endtime <= now
    /\ LET form == [tab[t] EXCEPT !.timeup = TRUE, !.endtime = Never]
       IN /\ Ask(t, "post", form)
          /\ tab' = [tab EXCEPT ![t] = form]
    /\ UNCHANGED <<now, handling, attempt, cron, session, hasty>>

\* The connection fails before the request reaches the server, or the page dies
\* before it has written anything for good
Lose(r) ==
    /\ sent' = sent \ {r}
    /\ session' = IF session.req = r THEN NoSession ELSE session
    /\ tab' = IF latest[r.tab] = r.no THEN [tab EXCEPT ![r.tab] = NoPage] ELSE tab
    /\ UNCHANGED <<now, handling, attempt, cron, coming, latest, reqs, hasty>>

----------------------------------------------------------------------------
(* The server's pages. *)

\* The answer is a page, shown only if the tab still waits for it
Answers(r, page) ==
    /\ sent' = sent \ {r}
    /\ coming' = IF latest[r.tab] = r.no THEN [coming EXCEPT ![r.tab] = page] ELSE coming
    /\ UNCHANGED <<now, handling, cron, tab, latest, reqs, hasty>>

\* The answer is a redirection, which the browser follows with a new request
\* if the tab still waits for it
Redirects(r, kind) ==
    /\ sent' = (sent \ {r}) \cup
               IF latest[r.tab] = r.no
               THEN {[NoRequest EXCEPT !.tab = r.tab, !.no = r.no, !.kind = kind]}
               ELSE {}
    /\ UNCHANGED <<now, handling, cron, coming, tab, latest, reqs, hasty>>

\* countdown_timer: seconds to count down, at least one, while in progress
TimeLeft(row) ==
    IF row.state # "inprogress" THEN Never
    ELSE IF now < TimeClose THEN TimeClose - now ELSE 1

\* attempt.php: the questions with what is saved and the number of steps
ServeAttempt(r) ==
    /\ ~session.busy
    /\ r.kind = "attempt"
    /\ CASE IsFinished(attempt) -> Answers(r, Bare("closed"))
         [] attempt.state = "overdue" -> Redirects(r, "summary")
         [] attempt.state = "inprogress" ->
               Answers(r, [kind |-> "attempt",
                           answer |-> attempt.answer, base |-> attempt.answer,
                           steps |-> attempt.steps, endtime |-> TimeLeft(attempt),
                           timeup |-> FALSE, submitted |-> FALSE])
    /\ UNCHANGED <<attempt, session>>

\* The page of request r locks the session and reads row and steps, now
Reading(r) == [busy |-> TRUE, req |-> r, time |-> now, row |-> attempt]

(* processattempt.php, with page p. The summary's form asks to finish unless *)
(* its timer sent it.                                                        *)
TimeUp(p) == p.req.timeup \/ p.time > TimeClose - MinTime
TooLate(p) == p.time > TimeClose + GraceMin
BecomingAbandoned(p) ==
    /\ TimeUp(p)
    /\ handling = "graceperiod"
    /\ p.time > TimeClose + GracePeriod + GraceMin
BecomingOverdue(p) == TimeUp(p) /\ handling = "graceperiod" /\ ~BecomingAbandoned(p)
FinishAttempt(p) ==
    \/ p.req.form = "summary" /\ ~p.req.timeup
    \/ BecomingAbandoned(p)
    \/ TimeUp(p) /\ handling # "graceperiod"
Processes(p) == ~TooLate(p) /\ ~BecomingAbandoned(p)

\* Changed form of Refused: without the check of is_finished
Refused_OnlyOutOfSequence(p) == Processes(p) /\ ~InSequence(p.row, p.req)

\* The attempt is closed, or the form is not the latest: an error page
Refused(p) == IsFinished(p.row) \/ (Processes(p) /\ ~InSequence(p.row, p.req))

\* The attempt behind the form: saved, and closed or overdue if it is time
Processed(p) ==
    LET saved == IF Processes(p) THEN Saved(p.row, p.req) ELSE p.row
    IN IF BecomingAbandoned(p) THEN ProcessAbandon(saved)
       ELSE IF FinishAttempt(p) THEN ProcessFinish(saved)
       ELSE IF TooLate(p) \/ BecomingOverdue(p) THEN ProcessGoingOverdue(saved, p.time)
       ELSE saved

\* A page that has something to write holds the session until it has written
ReadPage(r) ==
    /\ ~session.busy
    /\ \/ r.kind = "start" /\ ~IsFinished(attempt)
       \/ r.kind = "summary"
       \/ r.kind = "post" /\ ~Refused(Reading(r))
    /\ session' = Reading(r)
    /\ UNCHANGED <<now, handling, attempt, cron, sent, coming, tab, latest, reqs, hasty>>

\* One that has not is done: there is no attempt to continue
NoStart(r) ==
    /\ ~session.busy
    /\ r.kind = "start" /\ IsFinished(attempt)
    /\ Answers(r, Bare("closed"))
    /\ UNCHANGED <<attempt, session>>

RefusePost(r) ==
    /\ ~session.busy
    /\ r.kind = "post" /\ Refused(Reading(r))
    /\ Answers(r, Bare("refused"))
    /\ UNCHANGED <<attempt, session>>

\* The page of request r gets to its writing, and gives the session free
Writing(r, kind) ==
    session.busy /\ session.req = r /\ r.kind = kind /\ session' = NoSession

\* startattempt.php with an attempt that was open
WriteStart(r) ==
    /\ Writing(r, "start")
    /\ LET new == HandleIfTimeExpired(session.row, session.time)
       IN /\ attempt' = UpdatedIfTimeExpired(session.row, new)
          /\ IF Fails(session.row, new) THEN Answers(r, Bare("refused"))
             ELSE IF IsFinished(new) THEN Answers(r, Bare("closed"))
             ELSE Redirects(r, IF new.state = "overdue" THEN "summary" ELSE "attempt")

\* summary.php, which looks at the clock again
WriteSummary(r) ==
    /\ Writing(r, "summary")
    /\ LET new == HandleIfTimeExpired(session.row, now)
       IN /\ attempt' = UpdatedIfTimeExpired(session.row, new)
          /\ Answers(r, IF Fails(session.row, new) THEN Bare("refused")
                        ELSE IF IsFinished(new) THEN Bare("closed")
                        ELSE [Bare("summary") EXCEPT !.endtime = TimeLeft(new)])

\* processattempt.php: somebody has added steps, and nothing is written
FailPost(r) ==
    /\ Writing(r, "post")
    /\ Fails(session.row, Processed(session))
    /\ Answers(r, Bare("refused"))
    /\ UNCHANGED attempt

\* Save the answers of the page and go on, to the summary
SavePost(r) ==
    /\ Writing(r, "post")
    /\ ~Fails(session.row, Processed(session))
    /\ ~FinishAttempt(session)
    /\ attempt' = Updated(session.row, Processed(session))
    /\ Redirects(r, "summary")

\* Close the attempt
FinishPost(r) ==
    /\ Writing(r, "post")
    /\ ~Fails(session.row, Processed(session))
    /\ FinishAttempt(session)
    /\ attempt' = Updated(session.row, Processed(session))
    /\ Answers(r, Bare("closed"))

ServePost(r) == RefusePost(r) \/ FailPost(r) \/ SavePost(r) \/ FinishPost(r)
Serve(r) ==
    \/ ServeAttempt(r) \/ NoStart(r)
    \/ ReadPage(r) \/ WriteStart(r) \/ WriteSummary(r)
    \/ ServePost(r)

----------------------------------------------------------------------------
(* Cron. *)

\* Changed form of Due: cron closes what has reached its time at once
Due_AtOnce == attempt.check <= now

\* quiz_cron waits for graceperiodmin
Due == attempt.check <= now - GraceMin \/ (now = MaxTime /\ attempt.check # Never)

\* get_list_of_overdue_attempts: the row only
CronList ==
    /\ cron.stage = "idle"
    /\ ~IsFinished(attempt)
    /\ Due
    /\ cron' = [stage |-> "listed", time |-> now,
                row |-> [NoRow EXCEPT !.state = attempt.state, !.check = attempt.check]]
    /\ UNCHANGED <<now, handling, attempt, session, sent, coming, tab, latest, reqs,
                   hasty>>

\* update_overdue_attempts comes to the row, and loads its steps
CronLoad ==
    /\ cron.stage = "listed"
    /\ cron' = [cron EXCEPT !.stage = "loaded",
                            !.row = [attempt EXCEPT !.state = cron.row.state,
                                                    !.check = cron.row.check]]
    /\ UNCHANGED <<now, handling, attempt, session, sent, coming, tab, latest, reqs,
                   hasty>>

\* It handles the row, with the time at which it started. An exception that a
\* step causes is caught.
CronHandle ==
    /\ cron.stage = "loaded"
    /\ attempt' = UpdatedIfTimeExpired(cron.row, HandleIfTimeExpired(cron.row, cron.time))
    /\ cron' = NoCron
    /\ UNCHANGED <<now, handling, session, sent, coming, tab, latest, reqs, hasty>>

Tick ==
    /\ now < MaxTime
    /\ now' = now + 1
    /\ UNCHANGED <<handling, attempt, cron, session, sent, coming, tab, latest, reqs,
                   hasty>>

----------------------------------------------------------------------------
\* startattempt.php has written the row of a new attempt (quiz_create_attempt)
\* and redirects the student's browser to the questions
QuizInit ==
    /\ now = 0
    /\ handling \in Handling
    /\ attempt = [state |-> "inprogress", check |-> TimeClose,
                  answer |-> Blank, steps |-> 1, done |-> FALSE]
    /\ cron = NoCron
    /\ session = NoSession
    /\ sent = {NoRequest}
    /\ coming = [t \in Tab |-> NoPage]
    /\ tab = [t \in Tab |-> NoPage]
    /\ latest = [t \in Tab |-> 0]
    /\ reqs = 0
    /\ hasty = FALSE

Browser(t) ==
    \/ \E kind \in {"start", "attempt", "summary"} : Open(t, kind)
    \/ Load(t)
    \/ \E a \in Answer : Edit(t, a)
    \/ Submit(t)
    \/ Finish(t)
    \/ TimerFires(t)

QuizNext ==
    \/ \E t \in Tab : Browser(t)
    \/ \E r \in sent : Serve(r) \/ Lose(r)
    \/ CronList
    \/ CronLoad
    \/ CronHandle
    \/ Tick

\* Time passes, and cron runs again and again and comes to every row it listed
QuizFairness ==
    /\ WF_quizVars(Tick)
    /\ WF_quizVars(CronList) /\ WF_quizVars(CronLoad) /\ WF_quizVars(CronHandle)

QuizSpec == QuizInit /\ [][QuizNext]_quizVars /\ QuizFairness
----------------------------------------------------------------------------
(* Properties. *)

\* A form or a request, made from what is saved unless the steps tell
FromTheRow(x) ==
    /\ x.steps <= attempt.steps
    /\ x.steps = attempt.steps => x.base = attempt.answer

\* The sequence check compares numbers of steps only. It is enough because a
\* form with the attempt's number of steps, on a screen, on its way to one or
\* in a request, was made from the answer that is saved now.
StepsTellTheAnswer ==
    /\ \A t \in Tab : tab[t].kind = "attempt" => FromTheRow(tab[t])
    /\ \A t \in Tab : coming[t].kind = "attempt" => FromTheRow(coming[t])
    /\ \A r \in sent : r.form = "attempt" => FromTheRow(r)

\* No answer is lost to an older form: whatever tabs, timers and lost requests
\* do, the saved answer is replaced only by a form that showed it
\* (validate_sequence_number in process_all_actions).
NoLostUpdate ==
    [][attempt'.answer # attempt.answer =>
          \E r \in sent : /\ r \notin sent'
                          /\ r.form = "attempt"
                          /\ r.base = attempt.answer
                          /\ r.answer = attempt'.answer]_quizVars

\* A closed attempt stays as it was closed, but for those who read it while it
\* was open and write it whole: cron, from the row that it has listed, and a page
\* that cron overtook. Nobody reopens an attempt that he has seen closed.
FinalStatesStay ==
    [][IsFinished(attempt) /\ attempt'.state # attempt.state =>
          \/ cron.stage = "loaded" /\ cron'.stage = "idle" /\ ~IsFinished(cron.row)
          \/ session.busy /\ ~session'.busy /\ ~IsFinished(session.row)]_quizVars

\* Whatever pages and cron write over each other, and in whatever order: an
\* attempt that was ever finished keeps the answer it was finished with, and an
\* attempt gets only into the states that go with the quiz's overduehandling.
Contract == INSTANCE AttemptContract WITH
    state <- attempt.state, answer <- attempt.answer, final <- attempt.done
KeepsContract == Contract!Spec

\* A student who waits for each page and works in one tab never loses an answer
\* to the clock: the form that the countdown submits at the last second, or the
\* student before it, is saved, if it reaches the server before graceperiodmin
\* is over (module.js, the tolerance of processattempt.php, and the same one
\* in quiz_cron).
PatientIsNeverRefused ==
    [][\A r \in sent :
          (/\ ServePost(r) /\ r.form = "attempt"
           /\ ~hasty
           /\ now < TimeClose + GraceMin)
          => attempt'.answer = r.answer]_quizVars

\* Every attempt is closed for good in the end, by cron if by nobody else,
\* although cron itself may reopen one.
AttemptCloses == <>[](attempt.state \in Closed)
==========================================================================
