------------------------ MODULE QuizAttemptProofs ------------------------
(***************************************************************************)
(* Theorems about QuizAttempt, for every set of tabs and answers, every    *)
(* time limit and grace, and any number of requests: that no answer is     *)
(* lost to an older form (QuizInv), nor to the clock if the student waits  *)
(* for his pages (PatientInv), and that what becomes of the attempt is     *)
(* what AttemptContract promises (Chosen), although pages and cron write   *)
(* what they have made of rows that they read before.                      *)
(***************************************************************************)
EXTENDS QuizAttempt, TLAPS

\* A later state of the row: no step is taken back, what is not another step is
\* the same answer, and what is done stays done, with its answer.
Follows(old, new) ==
    /\ new \in Attempt
    /\ old.steps <= new.steps
    /\ new.steps = old.steps => new.answer = old.answer /\ new.done = old.done
    /\ old.done => new.done /\ new.answer = old.answer

\* What the page that holds the session has read, and what it has checked
SessionRead ==
    session.busy =>
        /\ session.time <= now
        /\ Follows(session.row, attempt)
        /\ session.req.kind = "start" => ~IsFinished(session.row)
        /\ session.req.kind = "post" => ~Refused(session)

\* What cron has read: an open row, and the steps later than that
CronRead ==
    /\ cron.stage # "idle" => ~IsFinished(cron.row)
    /\ cron.stage = "loaded" => Follows(cron.row, attempt)

QuizInv == QuizTypeOK /\ StepsTellTheAnswer /\ SessionRead /\ CronRead

----------------------------------------------------------------------------
(* What the methods make of the row in memory. *)

\* The constants, as the facts that the proofs need of them.
LEMMA ConstantFacts ==
    /\ TimeClose \in Nat /\ MinTime \in Nat /\ GraceMin \in Nat
    /\ GracePeriod \in Nat /\ MaxTime \in Nat /\ MaxRequests \in Nat
    /\ Never \in Nat /\ Never \in Moment
    /\ TimeClose \in Moment /\ TimeClose + GracePeriod \in Moment
    /\ TimeClose < MaxTime
    /\ 0 .. MaxTime \subseteq Moment
BY QuizAssumption DEF Never, Moment


\* The row in another state
Moved(row, state, check) == [row EXCEPT !.state = state, !.check = check]
\* Another state and check time leave the question alone.
LEMMA MoveFollows ==
    ASSUME NEW row \in Attempt, NEW state \in State, NEW check \in Moment
    PROVE  /\ Follows(row, Moved(row, state, check))
           /\ Moved(row, state, check).answer = row.answer
           /\ Moved(row, state, check).state = state
<1> DEFINE new == Moved(row, state, check)
<1>1. /\ new \in Attempt /\ row.steps \in Nat
      /\ new.steps = row.steps /\ new.answer = row.answer /\ new.state = state
  BY DEF Attempt, Moved
<1>2. new.done = row.done
  BY DEF Attempt, Moved
<1> HIDE DEF new
<1>3. Follows(row, new)
  BY <1>1, <1>2 DEF Follows
<1>4. QED
  BY <1>1, <1>3 DEF new

\* The methods that close the attempt or find it overdue make a row that
\* follows the old one and keeps its answer.
LEMMA MethodsFollow ==
    ASSUME NEW row \in Attempt, NEW time \in Moment
    PROVE  /\ Follows(row, ProcessFinish(row))
           /\ ProcessFinish(row).answer = row.answer
           /\ ProcessFinish(row).state = "finished"
           /\ Follows(row, ProcessGoingOverdue(row, time))
           /\ ProcessGoingOverdue(row, time).answer = row.answer
           /\ Follows(row, ProcessAbandon(row))
           /\ ProcessAbandon(row).answer = row.answer
<1>1. Never \in Moment
  BY ConstantFacts
<1>2. "finished" \in State /\ "overdue" \in State /\ "abandoned" \in State
  BY DEF State, Closed
<1>3. row.steps \in Nat /\ row.done \in BOOLEAN /\ row.answer \in Answer
  BY DEF Attempt
<1>4. /\ Follows(row, ProcessFinish(row)) /\ ProcessFinish(row).answer = row.answer
      /\ ProcessFinish(row).state = "finished"
  <2>1. PICK n \in Nat : n = IF row.done THEN row.steps ELSE row.steps + 1
    BY <1>3
  <2> DEFINE new == [row EXCEPT !.state = "finished", !.check = Never,
                                !.done = TRUE, !.steps = n]
  <2>2. ProcessFinish(row) = new
    BY <2>1 DEF ProcessFinish
  <2>3. new \in Attempt
    BY <1>1, <1>2 DEF Attempt
  <2>4. /\ new.steps = n /\ new.answer = row.answer /\ new.done = TRUE
        /\ new.state = "finished"
    BY DEF Attempt
  <2> HIDE DEF new
  <2>5. row.steps <= new.steps /\ (new.steps = row.steps => row.done)
    BY <1>3, <2>1, <2>4
  <2>6. Follows(row, new)
    BY <1>3, <2>3, <2>4, <2>5 DEF Follows
  <2>7. QED
    BY <2>2, <2>4, <2>6
<1>5. /\ Follows(row, ProcessGoingOverdue(row, time))
      /\ ProcessGoingOverdue(row, time).answer = row.answer
  <2>1. ProcessGoingOverdue(row, time) = Moved(row, "overdue", time)
    BY DEF ProcessGoingOverdue, Moved
  <2>2. QED
    BY <1>2, <2>1, MoveFollows
<1>6. Follows(row, ProcessAbandon(row)) /\ ProcessAbandon(row).answer = row.answer
  <2>1. ProcessAbandon(row) = Moved(row, "abandoned", Never)
    BY DEF ProcessAbandon, Moved
  <2>2. QED
    BY <1>1, <1>2, <2>1, MoveFollows
<1>7. QED
  BY <1>4, <1>5, <1>6

\* So do the new check times.
LEMMA CheckFollows ==
    ASSUME NEW row \in Attempt, NEW time \in Moment
    PROVE  /\ Follows(row, [row EXCEPT !.check = time])
           /\ [row EXCEPT !.check = time].answer = row.answer
           /\ [row EXCEPT !.check = time].state = row.state
BY DEF Follows, Attempt

\* A row that follows one that follows another follows that one.
LEMMA FollowsIsTransitive ==
    ASSUME NEW a \in Attempt, NEW b \in Attempt, NEW c, Follows(a, b), Follows(b, c)
    PROVE  Follows(a, c)
BY DEF Follows, Attempt

\* Every row follows itself.
LEMMA FollowsItself ==
    ASSUME NEW a \in Attempt
    PROVE  Follows(a, a)
BY DEF Follows, Attempt

\* handle_if_time_expired never touches the answer, and moves an open row only.
LEMMA HandleFollows ==
    ASSUME NEW row \in Attempt, NEW time \in Moment, handling \in Handling
    PROVE  /\ Follows(row, HandleIfTimeExpired(row, time))
           /\ HandleIfTimeExpired(row, time).answer = row.answer
           /\ IsFinished(row) => HandleIfTimeExpired(row, time).state = row.state
<1> DEFINE new == HandleIfTimeExpired(row, time)
<1> USE ConstantFacts, MethodsFollow, CheckFollows
<1>1. CASE time < TimeClose
  <2>1. new = [row EXCEPT !.check = TimeClose]
    BY <1>1 DEF HandleIfTimeExpired, Moment
  <2>2. QED
    BY <2>1
<1>2. CASE time >= TimeClose /\ row.state = "overdue"
  <2>1. new = IF time - TimeClose >= GracePeriod
              THEN ProcessAbandon(row)
              ELSE [row EXCEPT !.check = TimeClose + GracePeriod]
    BY <1>2 DEF HandleIfTimeExpired, Moment, Closed
  <2>2. ~IsFinished(row)
    BY <1>2 DEF IsFinished, Closed
  <2>3. QED
    BY <2>1, <2>2
<1>3. CASE time >= TimeClose /\ row.state \in Closed
  <2>1. new = [row EXCEPT !.check = Never]
    BY <1>3 DEF HandleIfTimeExpired, Moment, Closed
  <2>2. QED
    BY <2>1
<1>4. CASE time >= TimeClose /\ row.state = "inprogress"
  <2>1. new = CASE handling = "autosubmit" -> ProcessFinish(row)
                [] handling = "graceperiod" -> ProcessGoingOverdue(row, time)
                [] handling = "autoabandon" -> ProcessAbandon(row)
    <3>1. /\ ~(time < TimeClose)
          /\ ~(time >= TimeClose /\ row.state = "overdue")
          /\ ~(time >= TimeClose /\ row.state \in Closed)
      BY <1>4 DEF Moment, Closed
    <3>2. QED
      BY <1>4, <3>1, Zenon DEF HandleIfTimeExpired
  <2>2. \/ new = ProcessFinish(row)
        \/ new = ProcessGoingOverdue(row, time)
        \/ new = ProcessAbandon(row)
    BY <2>1 DEF Handling
  <2>3. ~IsFinished(row)
    BY <1>4 DEF IsFinished, Closed
  <2>4. QED
    BY <2>2, <2>3
<1>5. QED
  BY <1>1, <1>2, <1>3, <1>4 DEF State, Moment, Attempt

\* Saving a form: a new answer is the form's, and no question is done then.
LEMMA SavedFollows ==
    ASSUME NEW row \in Attempt, NEW r \in Request
    PROVE  /\ Follows(row, Saved(row, r))
           /\ Saved(row, r).answer # row.answer =>
                 /\ r.form = "attempt"
                 /\ Saved(row, r).answer = r.answer
                 /\ ~row.done
           /\ Saved(row, r).state = row.state
<1>1. row.steps \in Nat /\ row.answer \in Answer /\ r.answer \in Answer
  BY DEF Attempt, Request
<1>2. CASE r.form # "attempt" \/ row.done \/ r.answer = row.answer
  BY <1>1, <1>2, FollowsItself DEF Saved
<1>3. CASE ~(r.form # "attempt" \/ row.done \/ r.answer = row.answer)
  <2>1. PICK n \in Nat : n = row.steps + 1
    BY <1>1
  <2> DEFINE new == [row EXCEPT !.answer = r.answer, !.steps = n]
  <2>2. Saved(row, r) = new
    BY <1>3, <2>1 DEF Saved
  <2>3. /\ new \in Attempt
        /\ new.steps = n /\ new.answer = r.answer /\ new.state = row.state
    BY <1>1 DEF Attempt
  <2> HIDE DEF new
  <2>4. row.steps <= new.steps /\ new.steps # row.steps
    BY <1>1, <2>1, <2>3
  <2>5. Follows(row, new)
    BY <1>3, <2>3, <2>4 DEF Follows
  <2>6. QED
    BY <1>3, <2>2, <2>3, <2>5
<1>4. QED
  BY <1>2, <1>3

\* What the methods make of the attempt behind a form: a new answer is that of a
\* form which passed the sequence check.
LEMMA ProcessedFollows ==
    ASSUME NEW p, p.row \in Attempt, p.req \in Request, p.time \in Moment
    PROVE  /\ Follows(p.row, Processed(p))
           /\ Processed(p).answer # p.row.answer =>
                 /\ Processes(p)
                 /\ p.req.form = "attempt"
                 /\ Processed(p).answer = p.req.answer
                 /\ ~p.row.done
<1> DEFINE saved == IF Processes(p) THEN Saved(p.row, p.req) ELSE p.row
<1>1. Follows(p.row, saved) /\ saved \in Attempt
  BY SavedFollows, FollowsItself DEF Follows
<1>2. saved.answer # p.row.answer =>
         Processes(p) /\ p.req.form = "attempt" /\ saved.answer = p.req.answer /\ ~p.row.done
  BY SavedFollows
<1>3. Processed(p) \in {ProcessAbandon(saved), ProcessFinish(saved),
                        ProcessGoingOverdue(saved, p.time), saved}
  BY DEF Processed
<1> HIDE DEF saved
<1>4. Follows(saved, Processed(p)) /\ Processed(p).answer = saved.answer
  BY <1>1, <1>3, MethodsFollow, FollowsItself
<1>5. Follows(p.row, Processed(p))
  BY <1>1, <1>4, FollowsIsTransitive
<1>6. QED
  BY <1>2, <1>4, <1>5

----------------------------------------------------------------------------
(* What becomes of the tables when a row that was read before is written. *)

\* The whole row is written, whatever it is by now: it follows what it replaces,
\* and a new answer is one that the writer has made.
LEMMA UpdatedFollows ==
    ASSUME attempt \in Attempt, NEW held \in Attempt, NEW new,
           Follows(held, attempt), Follows(held, new), ~Fails(held, new)
    PROVE  /\ Follows(attempt, Updated(held, new))
           /\ Updated(held, new).state = new.state
           /\ Updated(held, new).answer # attempt.answer =>
                 /\ new.answer # held.answer
                 /\ Updated(held, new).answer = new.answer
                 /\ attempt.answer = held.answer
                 /\ attempt.steps = held.steps
                 /\ attempt.done = held.done
<1>1. new \in Attempt
  BY DEF Follows
<1>2. CASE new.steps = held.steps /\ new.answer = held.answer
  <2>1. Updated(held, new) = Moved(attempt, new.state, new.check)
    BY <1>2 DEF Updated, Moved
  <2>2. new.state \in State /\ new.check \in Moment
    BY <1>1 DEF Attempt
  <2>3. QED
    BY <2>1, <2>2, MoveFollows
<1>3. CASE ~(new.steps = held.steps /\ new.answer = held.answer)
  <2>1. Updated(held, new) = new /\ new.steps # held.steps
    BY <1>3 DEF Updated, Follows
  <2>2. /\ attempt.steps = held.steps /\ attempt.answer = held.answer
        /\ attempt.done = held.done
    BY <2>1 DEF Fails, Follows
  <2>3. QED
    BY <1>1, <2>1, <2>2 DEF Follows
<1>4. QED
  BY <1>2, <1>3

\* Who handles an attempt whose time may be over writes no answer, and moves the
\* attempt only if he moved the row that he has read.
LEMMA TimelyFollows ==
    ASSUME attempt \in Attempt, NEW held \in Attempt, NEW new,
           Follows(held, attempt), Follows(held, new), new.answer = held.answer
    PROVE  /\ Follows(attempt, UpdatedIfTimeExpired(held, new))
           /\ UpdatedIfTimeExpired(held, new).answer = attempt.answer
           /\ UpdatedIfTimeExpired(held, new).state # attempt.state =>
                 /\ UpdatedIfTimeExpired(held, new).state = new.state
                 /\ new.state # held.state
<1> DEFINE row == UpdatedIfTimeExpired(held, new)
<1>1. CASE Fails(held, new)
  BY <1>1, FollowsItself DEF UpdatedIfTimeExpired
<1>2. CASE ~Fails(held, new) /\ new.state # held.state
  <2>1. row = Updated(held, new)
    BY <1>2 DEF UpdatedIfTimeExpired
  <2>2. QED
    BY <1>2, <2>1, UpdatedFollows
<1>3. CASE ~Fails(held, new) /\ new.state = held.state
  <2>1. row = attempt \/ row = [attempt EXCEPT !.check = new.check]
    BY <1>3 DEF UpdatedIfTimeExpired
  <2>2. new.check \in Moment
    BY DEF Follows, Attempt
  <2>3. QED
    BY <2>1, <2>2, CheckFollows, FollowsItself
<1>4. QED
  BY <1>1, <1>2, <1>3

----------------------------------------------------------------------------
(* Pages and requests. *)

\* Every page that the server or the browser makes up is a page.
LEMMA PageFacts ==
    /\ NoPage \in Page
    /\ \A kind \in {"none", "summary", "closed", "refused"} : Bare(kind) \in Page
    /\ NoPage.kind = "none"
<1>1. Never \in Moment /\ Blank \in Answer
  BY ConstantFacts, QuizAssumption
<1>2. NoPage \in Page /\ NoPage.kind = "none"
  BY <1>1 DEF NoPage, Page
<1>3. ASSUME NEW kind \in {"none", "summary", "closed", "refused"}
      PROVE  Bare(kind) \in Page
  BY <1>2 DEF Bare, Page
<1>4. QED
  BY <1>2, <1>3

\* What stands for no request, no row, no page that holds the session and no row
\* of cron's is of its type.
LEMMA NoFacts ==
    /\ NoRequest \in Request /\ NoRequest.form = "none"
    /\ NoRow \in Attempt
    /\ NoSession \in Session /\ ~NoSession.busy
    /\ NoCron \in Cron /\ NoCron.stage = "idle"
<1>1. Never \in Moment /\ 0 \in Moment /\ Blank \in Answer /\ Home \in Tab
  BY ConstantFacts, QuizAssumption DEF Moment
<1>2. NoRequest \in Request /\ NoRequest.form = "none"
  BY <1>1 DEF NoRequest, Request
<1>3. NoRow \in Attempt
  BY <1>1 DEF NoRow, Attempt, State
<1>4. NoSession \in Session /\ ~NoSession.busy
  BY <1>1, <1>2, <1>3 DEF NoSession, Session
<1>5. NoCron \in Cron /\ NoCron.stage = "idle"
  BY <1>1, <1>3 DEF NoCron, Cron
<1>6. QED
  BY <1>2, <1>3, <1>4, <1>5

\* A request of the browser keeps the types, and carries the form it was given.
LEMMA AskStep ==
    ASSUME QuizTypeOK, NEW t \in Tab, NEW kind \in {"start", "attempt", "summary", "post"},
           NEW form \in Page, form.kind \in {"none", "attempt", "summary"},
           Ask(t, kind, form)
    PROVE  /\ sent' \subseteq Request
           /\ coming' \in [Tab -> Page]
           /\ latest' \in [Tab -> Nat]
           /\ reqs' \in Nat
           /\ \A r \in sent' \ sent : /\ r.form = form.kind
                                      /\ r.steps = form.steps
                                      /\ r.base = form.base
           /\ \A u \in Tab : coming'[u] \in {coming[u], NoPage}
<1> DEFINE new == [tab |-> t, no |-> reqs + 1, kind |-> kind,
                   form |-> form.kind, answer |-> form.answer,
                   base |-> form.base, steps |-> form.steps,
                   timeup |-> form.timeup]
<1>1. reqs \in Nat /\ latest \in [Tab -> Nat] /\ coming \in [Tab -> Page] /\ sent \subseteq Request
  BY DEF QuizTypeOK
<1>2. /\ reqs' = reqs + 1
      /\ latest' = [latest EXCEPT ![t] = reqs + 1]
      /\ coming' = [coming EXCEPT ![t] = NoPage]
      /\ sent' = sent \cup {new}
  BY DEF Ask
<1>3. new \in Request
  <2>1. form.answer \in Answer /\ form.base \in Answer /\ form.steps \in Nat /\ form.timeup \in BOOLEAN
    BY DEF Page
  <2>2. QED
    BY <1>1, <2>1 DEF Request
<1>4. new.form = form.kind /\ new.steps = form.steps /\ new.base = form.base
  OBVIOUS
<1>5. reqs' \in Nat /\ latest' \in [Tab -> Nat]
  BY <1>1, <1>2
<1>6. coming' \in [Tab -> Page] /\ \A u \in Tab : coming'[u] \in {coming[u], NoPage}
  BY <1>1, <1>2, PageFacts
<1> HIDE DEF new
<1>7. sent' \subseteq Request
  BY <1>1, <1>2, <1>3
<1>8. \A r \in sent' \ sent : r = new
  BY <1>2
<1>9. QED
  BY <1>4, <1>5, <1>6, <1>7, <1>8

\* The answer to a request keeps the types of everything but the row.
LEMMA AnswersStep ==
    ASSUME QuizTypeOK, NEW r \in sent, NEW page \in Page, Answers(r, page)
    PROVE  /\ sent' \subseteq sent
           /\ coming' \in [Tab -> Page]
           /\ \A u \in Tab : coming'[u] \in {coming[u], page}
           /\ UNCHANGED <<now, handling, cron, tab, latest, reqs, hasty>>
BY DEF QuizTypeOK, Answers

\* So does a redirection, whose new request carries no form.
LEMMA RedirectsStep ==
    ASSUME QuizTypeOK, NEW r \in sent,
           NEW kind \in {"start", "attempt", "summary", "post"}, Redirects(r, kind)
    PROVE  /\ sent' \subseteq Request
           /\ \A s \in sent' \ sent : s.form = "none"
           /\ UNCHANGED <<now, handling, cron, coming, tab, latest, reqs, hasty>>
<1> DEFINE next == [NoRequest EXCEPT !.tab = r.tab, !.no = r.no, !.kind = kind]
<1>1. r \in Request /\ sent \subseteq Request
  BY DEF QuizTypeOK
<1>2. next \in Request /\ next.form = "none"
  BY <1>1, NoFacts DEF NoRequest, Request
<1>3. sent' \subseteq sent \cup {next}
  BY DEF Redirects
<1>4. UNCHANGED <<now, handling, cron, coming, tab, latest, reqs, hasty>>
  BY DEF Redirects
<1> HIDE DEF next
<1>5. QED
  BY <1>1, <1>2, <1>3, <1>4

\* What a step must do to the row, the pages and the requests for the steps to
\* go on telling the answer.
LEMMA StepsGoOnTelling ==
    ASSUME QuizInv, Follows(attempt, attempt'),
           \A t \in Tab : tab'[t].kind = "attempt" =>
              \/ \E u \in Tab : /\ tab[u].kind = "attempt"
                                /\ tab'[t].steps = tab[u].steps
                                /\ tab'[t].base = tab[u].base
              \/ \E u \in Tab : /\ coming[u].kind = "attempt"
                                /\ tab'[t].steps = coming[u].steps
                                /\ tab'[t].base = coming[u].base,
           \A t \in Tab : coming'[t].kind = "attempt" =>
              \/ coming'[t] = coming[t]
              \/ /\ coming'[t].steps = attempt.steps
                 /\ coming'[t].base = attempt.answer,
           \A r \in sent' : r.form = "attempt" =>
              \/ r \in sent
              \/ \E u \in Tab : /\ tab[u].kind = "attempt"
                                /\ r.steps = tab[u].steps
                                /\ r.base = tab[u].base
    PROVE  StepsTellTheAnswer'
<1>1. /\ attempt \in Attempt
      /\ tab \in [Tab -> Page] /\ coming \in [Tab -> Page] /\ sent \subseteq Request
      /\ StepsTellTheAnswer
  BY DEF QuizInv, QuizTypeOK
<1>2. /\ attempt.steps \in Nat /\ attempt'.steps \in Nat
      /\ attempt.steps <= attempt'.steps
      /\ attempt'.steps = attempt.steps => attempt'.answer = attempt.answer
  BY <1>1 DEF Follows, Attempt
<1>3. ASSUME NEW x, x.steps \in Nat,
             x.steps <= attempt.steps,
             x.steps = attempt.steps => x.base = attempt.answer
      PROVE  /\ x.steps <= attempt'.steps
             /\ x.steps = attempt'.steps => x.base = attempt'.answer
  BY <1>2, <1>3
<1>4. \A t \in Tab : tab[t].steps \in Nat /\ coming[t].steps \in Nat
  BY <1>1 DEF Page
<1>5. \A r \in sent : r.steps \in Nat
  BY <1>1 DEF Request
<1>6. ASSUME NEW t \in Tab, tab'[t].kind = "attempt"
      PROVE  FromTheRow(tab[t])'
  BY <1>1, <1>3, <1>4, <1>6 DEF StepsTellTheAnswer, FromTheRow
<1>7. ASSUME NEW t \in Tab, coming'[t].kind = "attempt"
      PROVE  FromTheRow(coming[t])'
  BY <1>1, <1>2, <1>3, <1>4, <1>7 DEF StepsTellTheAnswer, FromTheRow
<1>8. ASSUME NEW r \in sent', r.form = "attempt"
      PROVE  FromTheRow(r)'
  BY <1>1, <1>3, <1>4, <1>5, <1>8 DEF StepsTellTheAnswer, FromTheRow
<1>9. QED
  BY <1>6, <1>7, <1>8 DEF StepsTellTheAnswer

----------------------------------------------------------------------------
(* What a page of the server does to the row. *)

\* The row after a step of request r: it follows the old one, a new answer is
\* the form's and the form was made from the old answer, and who moves a closed
\* attempt had read it open.
RowAfter(r) ==
    /\ Follows(attempt, attempt')
    /\ attempt'.answer # attempt.answer =>
          /\ r \notin sent'
          /\ r.form = "attempt"
          /\ r.base = attempt.answer
          /\ r.answer = attempt'.answer
    /\ IsFinished(attempt) /\ attempt'.state # attempt.state =>
          session.busy /\ ~session'.busy /\ ~IsFinished(session.row)

\* A row that does not change, as far as RowAfter asks.
LEMMA RowUnchanged ==
    ASSUME attempt \in Attempt, NEW r, attempt' = attempt
    PROVE  RowAfter(r)
BY FollowsItself DEF RowAfter

\* What the page that holds the session has read.
LEMMA HeldFacts ==
    ASSUME QuizInv, session.busy
    PROVE  /\ session.row \in Attempt /\ session.req \in Request
           /\ session.time \in Moment
           /\ Follows(session.row, attempt)
           /\ session.req.kind = "start" => ~IsFinished(session.row)
           /\ session.req.kind = "post" => ~Refused(session)
BY DEF QuizInv, QuizTypeOK, SessionRead, Session

\* The pages that look after the time move only a row that they found open.
LEMMA RowHandled ==
    ASSUME QuizInv, NEW r, session.busy, session' = NoSession, NEW time \in Moment,
           attempt' = UpdatedIfTimeExpired(session.row,
                                           HandleIfTimeExpired(session.row, time))
    PROVE  RowAfter(r)
<1> DEFINE new == HandleIfTimeExpired(session.row, time)
<1>1. attempt \in Attempt /\ handling \in Handling
  BY DEF QuizInv, QuizTypeOK
<1>2. session.row \in Attempt /\ Follows(session.row, attempt)
  BY HeldFacts
<1>3. /\ Follows(session.row, new) /\ new.answer = session.row.answer
      /\ IsFinished(session.row) => new.state = session.row.state
  BY <1>1, <1>2, HandleFollows
<1> HIDE DEF new
<1>4. /\ Follows(attempt, attempt') /\ attempt'.answer = attempt.answer
      /\ attempt'.state # attempt.state => new.state # session.row.state
  BY <1>1, <1>2, <1>3, TimelyFollows DEF new
<1>5. ~session'.busy
  BY NoFacts
<1>6. QED
  BY <1>3, <1>4, <1>5 DEF RowAfter

\* A form that was saved was made from the saved answer.
LEMMA SavedForm ==
    ASSUME QuizInv, NEW r \in sent, r.steps = attempt.steps, r.form = "attempt"
    PROVE  r.base = attempt.answer
BY DEF QuizInv, StepsTellTheAnswer, FromTheRow

\* Save the answers of the form, and perhaps close the attempt.
LEMMA RowPosted ==
    ASSUME QuizInv, NEW r \in sent, SavePost(r) \/ FinishPost(r)
    PROVE  RowAfter(r)
<1> DEFINE held == session.row
           new == Processed(session)
<1>1. attempt \in Attempt /\ r \in Request
  BY DEF QuizInv, QuizTypeOK
<1>2. /\ session.busy /\ session.req = r /\ r.kind = "post" /\ session' = NoSession
      /\ ~Fails(held, new)
      /\ attempt' = Updated(held, new)
  BY DEF SavePost, FinishPost, Writing
<1>3. /\ held \in Attempt /\ session.time \in Moment
      /\ Follows(held, attempt) /\ ~Refused(session)
  BY <1>2, HeldFacts
<1>4. /\ Follows(held, new)
      /\ new.answer # held.answer => /\ Processes(session)
                                     /\ r.form = "attempt"
                                     /\ new.answer = r.answer
  BY <1>1, <1>2, <1>3, ProcessedFollows
<1>5. ~IsFinished(held) /\ (Processes(session) => InSequence(held, r))
  BY <1>2, <1>3 DEF Refused
<1> HIDE DEF held, new
<1>6. /\ Follows(attempt, attempt')
      /\ attempt'.answer # attempt.answer => /\ new.answer # held.answer
                                             /\ attempt'.answer = new.answer
                                             /\ attempt.steps = held.steps
  BY <1>1, <1>2, <1>3, <1>4, UpdatedFollows
<1>7. ASSUME attempt'.answer # attempt.answer
      PROVE  /\ r \notin sent' /\ r.form = "attempt"
             /\ r.base = attempt.answer /\ r.answer = attempt'.answer
  <2>1. r.form = "attempt" /\ r.steps = attempt.steps /\ r.answer = attempt'.answer
    BY <1>4, <1>5, <1>6, <1>7 DEF InSequence
  <2>2. [NoRequest EXCEPT !.tab = r.tab, !.no = r.no, !.kind = "summary"].form = "none"
    BY NoFacts DEF NoRequest
  <2>3. r \notin sent'
    BY <2>1, <2>2 DEF SavePost, FinishPost, Redirects, Answers
  <2>4. QED
    BY <2>1, <2>3, SavedForm
<1>8. ~session'.busy
  BY <1>2, NoFacts
<1>9. QED
  BY <1>2, <1>5, <1>6, <1>7, <1>8 DEF RowAfter, held

\* Every page of the server.
LEMMA RowServed ==
    ASSUME QuizInv, NEW r \in sent, Serve(r)
    PROVE  RowAfter(r)
<1>1. attempt \in Attempt /\ now \in Moment
  BY ConstantFacts DEF QuizInv, QuizTypeOK
<1>2. CASE ServeAttempt(r) \/ NoStart(r) \/ ReadPage(r) \/ RefusePost(r) \/ FailPost(r)
  BY <1>1, <1>2, RowUnchanged DEF ServeAttempt, NoStart, ReadPage, RefusePost, FailPost
<1>3. CASE WriteStart(r)
  BY <1>3, HeldFacts, RowHandled DEF WriteStart, Writing
<1>4. CASE WriteSummary(r)
  BY <1>1, <1>4, RowHandled DEF WriteSummary, Writing
<1>5. CASE SavePost(r) \/ FinishPost(r)
  BY <1>5, RowPosted
<1>6. QED
  BY <1>2, <1>3, <1>4, <1>5 DEF Serve, ServePost

----------------------------------------------------------------------------
(* The inductive invariant. *)

\* A page that the server sends: a form in it is made from the row
Fresh(page) ==
    /\ page \in Page
    /\ page.kind = "attempt" =>
          page.steps = attempt.steps /\ page.base = attempt.answer

\* Unless it only reads the attempt, a page answers a request with such a page,
\* or redirects it.
LEMMA ServedPage ==
    ASSUME QuizInv, NEW r \in sent, Serve(r), ~ReadPage(r)
    PROVE  \/ \E page : Fresh(page) /\ Answers(r, page)
           \/ \E kind \in {"start", "attempt", "summary", "post"} : Redirects(r, kind)
<1>1. attempt \in Attempt
  BY DEF QuizInv, QuizTypeOK
<1>2. \A kind \in {"none", "summary", "closed", "refused"} : Fresh(Bare(kind))
  BY PageFacts DEF Fresh, Bare, NoPage
<1>3. \A row : TimeLeft(row) \in Moment
  BY QuizAssumption DEF QuizInv, QuizTypeOK, TimeLeft, Moment, Never
<1>4. CASE WriteStart(r)
  <2> DEFINE new == HandleIfTimeExpired(session.row, session.time)
  <2>1. IF Fails(session.row, new) THEN Answers(r, Bare("refused"))
        ELSE IF IsFinished(new) THEN Answers(r, Bare("closed"))
        ELSE Redirects(r, IF new.state = "overdue" THEN "summary" ELSE "attempt")
    BY <1>4 DEF WriteStart
  <2> HIDE DEF new
  <2>2. \/ Answers(r, Bare("refused")) \/ Answers(r, Bare("closed"))
        \/ Redirects(r, "summary") \/ Redirects(r, "attempt")
    BY <2>1
  <2>3. QED
    BY <1>2, <2>2
<1>5. CASE ServeAttempt(r)
  <2> DEFINE form == [kind |-> "attempt",
                      answer |-> attempt.answer, base |-> attempt.answer,
                      steps |-> attempt.steps, endtime |-> TimeLeft(attempt),
                      timeup |-> FALSE, submitted |-> FALSE]
  <2>1. Fresh(form)
    <3>1. attempt.answer \in Answer /\ attempt.steps \in Nat
      BY <1>1 DEF Attempt
    <3>2. QED
      BY <1>3, <3>1 DEF Fresh, Page
  <2>2. (CASE IsFinished(attempt) -> Answers(r, Bare("closed"))
           [] attempt.state = "overdue" -> Redirects(r, "summary")
           [] attempt.state = "inprogress" -> Answers(r, form))
    BY <1>5 DEF ServeAttempt
  <2> HIDE DEF form
  <2>3. Redirects(r, "summary") \/ Answers(r, form) \/ Answers(r, Bare("closed"))
    BY <1>1, <2>2 DEF Attempt, State, IsFinished
  <2>4. QED
    BY <1>2, <2>1, <2>3
<1>6. CASE WriteSummary(r)
  <2> DEFINE new == HandleIfTimeExpired(session.row, now)
             summary == [Bare("summary") EXCEPT !.endtime = TimeLeft(new)]
  <2>1. Bare("summary") \in Page /\ Bare("summary").kind = "summary"
    BY PageFacts DEF Bare, NoPage
  <2>2. TimeLeft(new) \in Moment
    BY <1>3
  <2>3. Answers(r, IF Fails(session.row, new) THEN Bare("refused")
                   ELSE IF IsFinished(new) THEN Bare("closed") ELSE summary)
    BY <1>6 DEF WriteSummary
  <2> HIDE DEF new
  <2>4. summary \in Page /\ summary.kind = "summary"
    BY <2>1, <2>2 DEF Page
  <2> HIDE DEF summary
  <2>5. Fresh(summary)
    BY <2>4 DEF Fresh
  <2>6. QED
    BY <1>2, <2>3, <2>5
<1>7. CASE NoStart(r) \/ ServePost(r)
  BY <1>2, <1>7 DEF NoStart, ServePost, RefusePost, FailPost, SavePost, FinishPost
<1>8. QED
  BY <1>4, <1>5, <1>6, <1>7 DEF Serve

\* What was read before stays what it is: the attempt only gets later.
LEMMA ReadsGoOn ==
    ASSUME QuizInv, handling' = handling, now' \in 0 .. MaxTime, now <= now',
           Follows(attempt, attempt'),
           session' = session \/ ~session'.busy,
           cron' = cron \/ cron'.stage = "idle"
    PROVE  SessionRead' /\ CronRead'
<1>1. attempt \in Attempt /\ attempt' \in Attempt /\ now \in 0 .. MaxTime /\ MaxTime \in Nat
  BY QuizAssumption DEF QuizInv, QuizTypeOK, Follows
<1>2. ASSUME session.busy, session' = session
      PROVE  SessionRead'
  <2>1. /\ session.row \in Attempt /\ session.time \in Moment
        /\ session.time <= now /\ Follows(session.row, attempt)
        /\ session.req.kind = "start" => ~IsFinished(session.row)
        /\ session.req.kind = "post" => ~Refused(session)
    BY <1>2, HeldFacts DEF QuizInv, SessionRead
  <2>2. session.time <= now'
    BY <1>1, <2>1, ConstantFacts DEF Moment
  <2>3. Follows(session.row, attempt')
    BY <1>1, <2>1, FollowsIsTransitive
  <2>4. Refused(session)' <=> Refused(session)
    BY <1>2 DEF Refused, IsFinished, Processes, InSequence, TooLate, BecomingAbandoned, TimeUp
  <2>5. IsFinished(session.row)' <=> IsFinished(session.row)
    BY <1>2 DEF IsFinished
  <2>6. SessionRead'
    BY <1>2, <2>1, <2>2, <2>3, <2>4, <2>5 DEF SessionRead, Follows
  <2>7. QED
    BY <2>6
<1>3. ASSUME cron' = cron, cron.stage = "loaded"
      PROVE  CronRead'
  <2>1. cron.row \in Attempt /\ Follows(cron.row, attempt)
    BY <1>3 DEF QuizInv, QuizTypeOK, Cron, CronRead
  <2>2. Follows(cron.row, attempt')
    BY <1>1, <2>1, FollowsIsTransitive
  <2>3. Follows(cron.row, attempt)'
    BY <1>3, <2>2 DEF Follows
  <2>4. QED
    BY <1>3, <2>3 DEF QuizInv, CronRead, IsFinished
<1>4. session' = session /\ ~session.busy => SessionRead'
  BY DEF SessionRead
<1>5. ~session'.busy => SessionRead'
  BY DEF SessionRead
<1>6. cron'.stage = "idle" \/ (cron' = cron /\ cron.stage # "loaded") => CronRead'
  BY DEF QuizInv, CronRead, IsFinished
<1>7. QED
  BY <1>2, <1>3, <1>4, <1>5, <1>6

\* What the pages do to the session.
LEMMA ServeSession ==
    ASSUME QuizInv, NEW r \in sent, Serve(r), ~ReadPage(r)
    PROVE  session' = session \/ session' = NoSession
BY DEF Serve, ServeAttempt, NoStart, WriteStart, WriteSummary, ServePost, RefusePost,
       FailPost, SavePost, FinishPost, Writing

\* A page that reads the attempt reads what is there, and has checked it.
LEMMA ReadKeeps ==
    ASSUME QuizInv, NEW r \in sent, ReadPage(r)
    PROVE  QuizInv'
<1>1. /\ QuizTypeOK /\ attempt \in Attempt /\ r \in Request
      /\ now \in Moment /\ now \in 0 .. MaxTime /\ MaxTime \in Nat
  BY ConstantFacts DEF QuizInv, QuizTypeOK
<1>2. /\ session' = Reading(r)
      /\ UNCHANGED <<now, handling, attempt, cron, sent, coming, tab, latest, reqs, hasty>>
      /\ r.kind = "start" => ~IsFinished(attempt)
      /\ r.kind = "post" => ~Refused(Reading(r))
  BY DEF ReadPage
<1>3. /\ session' \in Session
      /\ session'.row = attempt /\ session'.req = r /\ session'.time = now
  BY <1>1, <1>2 DEF Reading, Session
<1>4. QuizTypeOK'
  BY <1>1, <1>2, <1>3 DEF QuizTypeOK
<1>5. StepsTellTheAnswer'
  BY <1>2 DEF QuizInv, StepsTellTheAnswer, FromTheRow
<1>6. SessionRead'
  <2>1. Follows(session'.row, attempt')
    BY <1>1, <1>2, <1>3, FollowsItself
  <2>2. r.kind = "post" => ~Refused(session)'
    BY <1>2 DEF Refused, IsFinished, Processes, InSequence, TooLate, BecomingAbandoned, TimeUp
  <2>3. r.kind = "start" => ~IsFinished(session.row)'
    BY <1>2, <1>3 DEF IsFinished
  <2>4. session'.time <= now'
    BY <1>1, <1>2, <1>3
  <2>5. Follows(session.row, attempt)'
    BY <2>1 DEF Follows
  <2>6. QED
    BY <1>3, <2>2, <2>3, <2>4, <2>5 DEF SessionRead
<1>7. CronRead'
  BY <1>2 DEF QuizInv, CronRead, IsFinished, Follows
<1>8. QED
  BY <1>4, <1>5, <1>6, <1>7 DEF QuizInv

\* Every page of the server keeps the invariant.
LEMMA ServeKeeps ==
    ASSUME QuizInv, NEW r \in sent, Serve(r)
    PROVE  QuizInv'
<1>1. CASE ReadPage(r)
  BY <1>1, ReadKeeps
<1>2. CASE ~ReadPage(r)
  <2>1. RowAfter(r)
    BY RowServed
  <2>2. Follows(attempt, attempt') /\ attempt' \in Attempt
    BY <2>1 DEF RowAfter, Follows
  <2>3. QuizTypeOK
    BY DEF QuizInv
  <2>4. session' \in Session /\ (session' = session \/ ~session'.busy)
    BY <1>2, <2>3, ServeSession, NoFacts DEF QuizTypeOK
  <2>5. CASE \E page : Fresh(page) /\ Answers(r, page)
    <3>1. PICK page : Fresh(page) /\ Answers(r, page)
      BY <2>5
    <3>2. page \in Page
      BY <3>1 DEF Fresh
    <3>3. /\ sent' \subseteq sent
          /\ coming' \in [Tab -> Page]
          /\ \A u \in Tab : coming'[u] \in {coming[u], page}
          /\ UNCHANGED <<now, handling, cron, tab, latest, reqs, hasty>>
      BY <2>3, <3>1, <3>2, AnswersStep
    <3>4. QuizTypeOK'
      BY <2>2, <2>3, <2>4, <3>3 DEF QuizTypeOK
    <3>5. StepsTellTheAnswer'
      BY <2>2, <3>1, <3>3, StepsGoOnTelling DEF Fresh
    <3>6. SessionRead' /\ CronRead'
      BY <2>2, <2>3, <2>4, <3>3, ReadsGoOn DEF QuizTypeOK
    <3>7. QED
      BY <3>4, <3>5, <3>6 DEF QuizInv
  <2>6. CASE \E kind \in {"start", "attempt", "summary", "post"} : Redirects(r, kind)
    <3>1. /\ sent' \subseteq Request
          /\ \A s \in sent' \ sent : s.form = "none"
          /\ UNCHANGED <<now, handling, cron, coming, tab, latest, reqs, hasty>>
      BY <2>3, <2>6, RedirectsStep
    <3>2. QuizTypeOK'
      BY <2>2, <2>3, <2>4, <3>1 DEF QuizTypeOK
    <3>3. StepsTellTheAnswer'
      BY <2>2, <3>1, StepsGoOnTelling
    <3>4. SessionRead' /\ CronRead'
      BY <2>2, <2>3, <2>4, <3>1, ReadsGoOn DEF QuizTypeOK
    <3>5. QED
      BY <3>2, <3>3, <3>4 DEF QuizInv
  <2>7. QED
    BY <1>2, <2>5, <2>6, ServedPage
<1>3. QED
  BY <1>1, <1>2

\* Cron, which decides on an old row, keeps it too.
LEMMA CronKeeps ==
    ASSUME QuizInv, CronHandle
    PROVE  /\ QuizInv'
           /\ Follows(attempt, attempt')
           /\ attempt'.answer = attempt.answer
<1> DEFINE new == HandleIfTimeExpired(cron.row, cron.time)
<1>1. /\ QuizTypeOK /\ attempt \in Attempt /\ handling \in Handling /\ now \in Int
      /\ cron.row \in Attempt /\ cron.time \in Moment /\ Follows(cron.row, attempt)
  BY ConstantFacts DEF QuizInv, QuizTypeOK, Cron, CronRead, CronHandle
<1>2. /\ attempt' = UpdatedIfTimeExpired(cron.row, new) /\ cron' = NoCron
      /\ UNCHANGED <<now, handling, session, sent, coming, tab, latest, reqs, hasty>>
  BY DEF CronHandle
<1>3. Follows(cron.row, new) /\ new.answer = cron.row.answer
  BY <1>1, HandleFollows
<1> HIDE DEF new
<1>4. Follows(attempt, attempt') /\ attempt'.answer = attempt.answer
  BY <1>1, <1>2, <1>3, TimelyFollows
<1>5. QuizTypeOK'
  <2>1. attempt' \in Attempt
    BY <1>4 DEF Follows
  <2>2. QED
    BY <1>1, <1>2, <2>1, NoFacts DEF QuizTypeOK
<1>6. StepsTellTheAnswer'
  BY <1>2, <1>4, StepsGoOnTelling
<1>7. SessionRead' /\ CronRead'
  BY <1>1, <1>2, <1>4, ReadsGoOn, NoFacts DEF QuizTypeOK
<1>8. QED
  BY <1>4, <1>5, <1>6, <1>7 DEF QuizInv

\* Cron lists an open row, and reads its steps.
LEMMA CronReads ==
    ASSUME QuizInv, CronList \/ CronLoad
    PROVE  QuizInv'
<1>1. /\ QuizTypeOK /\ attempt \in Attempt /\ cron \in Cron
      /\ now \in 0 .. MaxTime /\ now \in Moment
  BY ConstantFacts DEF QuizInv, QuizTypeOK
<1>2. UNCHANGED <<now, handling, attempt, session, sent, coming, tab, latest, reqs, hasty>>
  BY DEF CronList, CronLoad
<1>3. attempt.state \in State /\ attempt.check \in Moment
  BY <1>1 DEF Attempt
<1>4. ASSUME CronList
      PROVE  cron' \in Cron /\ cron'.stage = "listed" /\ ~IsFinished(cron'.row)
  <2> DEFINE row == Moved(NoRow, attempt.state, attempt.check)
  <2>1. cron' = [stage |-> "listed", time |-> now, row |-> row] /\ ~IsFinished(attempt)
    BY <1>4 DEF CronList, Moved
  <2>2. row \in Attempt /\ row.state = attempt.state
    BY <1>3, NoFacts, MoveFollows DEF Follows
  <2> HIDE DEF row
  <2>3. cron' \in Cron /\ cron'.stage = "listed" /\ ~IsFinished(cron'.row)
    BY <1>1, <2>1, <2>2 DEF Cron, IsFinished
  <2>4. QED
    BY <2>3
<1>5. ASSUME CronLoad
      PROVE  cron' \in Cron /\ ~IsFinished(cron'.row) /\ Follows(cron'.row, attempt')
  <2> DEFINE row == Moved(attempt, cron.row.state, cron.row.check)
  <2>1. /\ cron' = [cron EXCEPT !.stage = "loaded", !.row = row]
        /\ cron.stage = "listed"
    BY <1>5 DEF CronLoad, Moved
  <2>2. ~IsFinished(cron.row)
    BY <2>1 DEF QuizInv, CronRead
  <2>3. cron.row.state \in State /\ cron.row.check \in Moment
    BY <1>1 DEF Cron, Attempt
  <2>4. row \in Attempt /\ row.state = cron.row.state
    BY <1>1, <2>3, MoveFollows DEF Follows
  <2>5. Follows(row, attempt)
    <3>1. row.steps = attempt.steps /\ row.answer = attempt.answer
      BY <1>1 DEF Attempt, Moved
    <3>2. row.done = attempt.done
      BY <1>1 DEF Attempt, Moved
    <3> HIDE DEF row
    <3>3. attempt.steps \in Nat
      BY <1>1 DEF Attempt
    <3>4. QED
      BY <1>1, <3>1, <3>2, <3>3 DEF Follows
  <2> HIDE DEF row
  <2>6. cron' \in Cron /\ cron'.row = row
    BY <1>1, <2>1, <2>4 DEF Cron
  <2>7. ~IsFinished(cron'.row) /\ Follows(cron'.row, attempt')
    BY <1>2, <2>2, <2>4, <2>5, <2>6 DEF IsFinished
  <2>8. QED
    BY <2>6, <2>7
<1>6. QuizTypeOK'
  BY <1>1, <1>2, <1>4, <1>5 DEF QuizTypeOK
<1>7. CronRead'
  BY <1>4, <1>5 DEF CronRead, IsFinished, Follows
<1>8. StepsTellTheAnswer' /\ SessionRead'
  <2>1. StepsTellTheAnswer'
    BY <1>2 DEF QuizInv, StepsTellTheAnswer, FromTheRow
  <2>2. Refused(session)' <=> Refused(session)
    BY <1>2 DEF Refused, IsFinished, Processes, InSequence, TooLate, BecomingAbandoned, TimeUp
  <2>3. SessionRead'
    BY <1>2, <2>2 DEF QuizInv, SessionRead, Follows, IsFinished
  <2>4. QED
    BY <2>1, <2>3
<1>9. QED
  BY <1>6, <1>7, <1>8 DEF QuizInv

\* A request of the browser that is made from a page on the screen, or from none.
LEMMA AskKeeps ==
    ASSUME QuizInv, NEW t \in Tab, NEW kind \in {"start", "attempt", "summary", "post"},
           NEW form \in Page, form.kind \in {"none", "attempt", "summary"},
           Ask(t, kind, form),
           form.kind = "attempt" =>
              /\ tab[t].kind = "attempt"
              /\ form.steps = tab[t].steps
              /\ form.base = tab[t].base,
           \/ tab' = tab
           \/ \E p \in Page : /\ tab' = [tab EXCEPT ![t] = p]
                              /\ p.kind = tab[t].kind
                              /\ p.steps = tab[t].steps
                              /\ p.base = tab[t].base,
           hasty' \in BOOLEAN,
           UNCHANGED <<now, handling, attempt, cron, session>>
    PROVE  QuizInv'
<1>1. QuizTypeOK /\ attempt \in Attempt /\ tab \in [Tab -> Page]
  BY DEF QuizInv, QuizTypeOK
<1>2. /\ sent' \subseteq Request
      /\ coming' \in [Tab -> Page]
      /\ latest' \in [Tab -> Nat]
      /\ reqs' \in Nat
      /\ \A r \in sent' \ sent : /\ r.form = form.kind
                                 /\ r.steps = form.steps
                                 /\ r.base = form.base
      /\ \A u \in Tab : coming'[u] \in {coming[u], NoPage}
  BY <1>1, AskStep
<1>3. Follows(attempt, attempt')
  BY <1>1 DEF Follows, Attempt
<1>4. /\ tab' \in [Tab -> Page]
      /\ \A u \in Tab : /\ tab'[u].kind = tab[u].kind
                        /\ tab'[u].steps = tab[u].steps
                        /\ tab'[u].base = tab[u].base
  BY <1>1
<1>5. QuizTypeOK'
  BY <1>1, <1>2, <1>4 DEF QuizTypeOK
<1>6. StepsTellTheAnswer'
  BY <1>2, <1>3, <1>4, PageFacts, StepsGoOnTelling
<1>7. SessionRead' /\ CronRead'
  BY <1>1, <1>3, ReadsGoOn DEF QuizTypeOK
<1>8. QED
  BY <1>5, <1>6, <1>7 DEF QuizInv

\* Every step keeps the invariant.
LEMMA QuizStep ==
    ASSUME QuizInv, QuizNext
    PROVE  QuizInv'
<1>1. /\ QuizTypeOK /\ StepsTellTheAnswer
      /\ attempt \in Attempt /\ now \in 0 .. MaxTime
      /\ tab \in [Tab -> Page] /\ coming \in [Tab -> Page] /\ sent \subseteq Request
      /\ hasty \in BOOLEAN
  BY DEF QuizInv, QuizTypeOK
<1>2. Follows(attempt, attempt)
  BY <1>1 DEF Follows, Attempt
<1>3. ASSUME NEW t \in Tab, NEW kind \in {"start", "attempt", "summary"}, Open(t, kind)
      PROVE  QuizInv'
  <2>1. hasty' \in BOOLEAN
    BY <1>1, <1>3 DEF Open, IsHasty, UnderWay, Elsewhere
  <2>2. Ask(t, kind, NoPage) /\ UNCHANGED <<now, handling, attempt, cron, session, tab>>
    BY <1>3 DEF Open
  <2>3. QED
    BY <2>1, <2>2, PageFacts, AskKeeps
<1>4. ASSUME NEW t \in Tab, Load(t)
      PROVE  QuizInv'
  <2>1. PICK e \in Moment : tab' = [tab EXCEPT ![t] = [coming[t] EXCEPT !.endtime = e]]
    <3> DEFINE due == now + coming[t].endtime
               at == IF coming[t].endtime = Never \/ due <= MaxTime
                     THEN IF coming[t].endtime = Never THEN Never ELSE due
                     ELSE MaxTime
    <3>1. coming[t].endtime \in Moment
      BY <1>1 DEF Page
    <3>2. at \in Moment
      BY <1>1, <3>1, ConstantFacts DEF Moment, Never
    <3>3. tab' = [tab EXCEPT ![t] = [coming[t] EXCEPT !.endtime = at]]
      BY <1>4 DEF Load
    <3>4. QED
      BY <3>2, <3>3
  <2> DEFINE page == [coming[t] EXCEPT !.endtime = e]
  <2>2. /\ page \in Page
        /\ page.kind = coming[t].kind
        /\ page.steps = coming[t].steps
        /\ page.base = coming[t].base
    BY <1>1 DEF Page
  <2>3. tab' = [tab EXCEPT ![t] = page]
    BY <2>1
  <2> HIDE DEF page
  <2>4. tab' \in [Tab -> Page] /\ \A u \in Tab : tab'[u] = IF u = t THEN page ELSE tab[u]
    BY <1>1, <2>2, <2>3
  <2>5. /\ coming' = [coming EXCEPT ![t] = NoPage]
        /\ UNCHANGED <<now, handling, attempt, cron, session, sent, latest, reqs, hasty>>
    BY <1>4 DEF Load
  <2>6. coming' \in [Tab -> Page] /\ \A u \in Tab : coming'[u] \in {coming[u], NoPage}
    BY <1>1, <2>5, PageFacts
  <2>7. QuizTypeOK'
    BY <1>1, <2>4, <2>5, <2>6 DEF QuizTypeOK
  <2>8. StepsTellTheAnswer'
    BY <1>2, <2>2, <2>4, <2>5, <2>6, PageFacts, StepsGoOnTelling
  <2>9. SessionRead' /\ CronRead'
    BY <1>1, <1>2, <2>5, ReadsGoOn DEF QuizTypeOK
  <2>10. QED
    BY <2>7, <2>8, <2>9 DEF QuizInv
<1>5. ASSUME NEW t \in Tab, NEW a \in Answer, Edit(t, a)
      PROVE  QuizInv'
  <2> DEFINE page == [tab[t] EXCEPT !.answer = a]
  <2>1. tab' = [tab EXCEPT ![t] = page]
    BY <1>5 DEF Edit
  <2>2. /\ page \in Page
        /\ page.kind = tab[t].kind /\ page.steps = tab[t].steps /\ page.base = tab[t].base
    BY <1>1 DEF Page
  <2> HIDE DEF page
  <2>3. tab' \in [Tab -> Page] /\ \A u \in Tab : tab'[u] = IF u = t THEN page ELSE tab[u]
    BY <1>1, <2>1, <2>2
  <2>4. UNCHANGED <<now, handling, attempt, cron, session, sent, coming, latest, reqs, hasty>>
    BY <1>5 DEF Edit
  <2>5. QuizTypeOK'
    BY <1>1, <2>3, <2>4 DEF QuizTypeOK
  <2>6. StepsTellTheAnswer'
    BY <1>2, <2>2, <2>3, <2>4, StepsGoOnTelling
  <2>7. SessionRead' /\ CronRead'
    BY <1>1, <1>2, <2>4, ReadsGoOn DEF QuizTypeOK
  <2>8. QED
    BY <2>5, <2>6, <2>7 DEF QuizInv
<1>6. ASSUME NEW t \in Tab, Submit(t)
      PROVE  QuizInv'
  <2> DEFINE page == [tab[t] EXCEPT !.submitted = TRUE, !.endtime = Never]
  <2>1. tab[t] \in Page
    BY <1>1
  <2>2. /\ page \in Page
        /\ page.kind = tab[t].kind /\ page.steps = tab[t].steps /\ page.base = tab[t].base
    BY <2>1, ConstantFacts DEF Page
  <2>3. tab' = [tab EXCEPT ![t] = page]
    BY <1>1, <1>6 DEF Submit
  <2>4. hasty' \in BOOLEAN
    BY <1>1, <1>6 DEF Submit, IsHasty, UnderWay, Elsewhere
  <2>5. /\ tab[t].kind = "attempt" /\ Ask(t, "post", tab[t])
        /\ UNCHANGED <<now, handling, attempt, cron, session>>
    BY <1>6 DEF Submit
  <2> HIDE DEF page
  <2>6. QED
    BY <2>1, <2>2, <2>3, <2>4, <2>5, AskKeeps
<1>7. ASSUME NEW t \in Tab, Finish(t)
      PROVE  QuizInv'
  <2>1. tab[t] \in Page
    BY <1>1
  <2>2. hasty' \in BOOLEAN
    BY <1>1, <1>7 DEF Finish, IsHasty, UnderWay, Elsewhere
  <2>3. /\ tab[t].kind = "summary" /\ Ask(t, "post", tab[t])
        /\ UNCHANGED <<now, handling, attempt, cron, session, tab>>
    BY <1>7 DEF Finish
  <2>4. QED
    BY <2>1, <2>2, <2>3, AskKeeps
<1>8. ASSUME NEW t \in Tab, TimerFires(t)
      PROVE  QuizInv'
  <2> DEFINE form == [tab[t] EXCEPT !.timeup = TRUE, !.endtime = Never]
  <2>1. tab[t] \in Page
    BY <1>1
  <2>2. /\ form \in Page
        /\ form.kind = tab[t].kind /\ form.steps = tab[t].steps /\ form.base = tab[t].base
    BY <2>1, ConstantFacts DEF Page
  <2>3. /\ tab[t].kind \in {"attempt", "summary"}
        /\ Ask(t, "post", form)
        /\ tab' = [tab EXCEPT ![t] = form]
        /\ UNCHANGED <<now, handling, attempt, cron, session, hasty>>
    BY <1>8 DEF TimerFires, OnScreen
  <2> HIDE DEF form
  <2>4. QED
    BY <1>1, <2>2, <2>3, AskKeeps
<1>9. ASSUME NEW r \in sent, Lose(r)
      PROVE  QuizInv'
  <2>1. /\ sent' \subseteq sent
        /\ tab' \in [Tab -> Page]
        /\ \A u \in Tab : tab'[u] \in {tab[u], NoPage}
    BY <1>1, <1>9, PageFacts DEF Lose
  <2>2. /\ UNCHANGED <<now, handling, attempt, cron, coming, latest, reqs, hasty>>
        /\ session' \in {session, NoSession}
    BY <1>9 DEF Lose
  <2>3. QuizTypeOK'
    BY <1>1, <2>1, <2>2, NoFacts DEF QuizTypeOK
  <2>4. StepsTellTheAnswer'
    BY <1>2, <2>1, <2>2, PageFacts, StepsGoOnTelling
  <2>5. SessionRead' /\ CronRead'
    BY <1>1, <1>2, <2>2, ReadsGoOn, NoFacts DEF QuizTypeOK
  <2>6. QED
    BY <2>3, <2>4, <2>5 DEF QuizInv
<1>10. CASE CronList \/ CronLoad
  BY <1>10, CronReads
<1>11. CASE Tick
  <2>1. now' \in 0 .. MaxTime /\ now <= now'
    BY <1>1, <1>11, ConstantFacts DEF Tick
  <2>2. UNCHANGED <<handling, attempt, cron, session, sent, coming, tab, latest, reqs, hasty>>
    BY <1>11 DEF Tick
  <2>3. QuizTypeOK'
    BY <1>1, <2>1, <2>2 DEF QuizTypeOK
  <2>4. StepsTellTheAnswer'
    BY <1>1, <2>2 DEF StepsTellTheAnswer, FromTheRow
  <2>5. SessionRead' /\ CronRead'
    BY <1>2, <2>1, <2>2, ReadsGoOn
  <2>6. QED
    BY <2>3, <2>4, <2>5 DEF QuizInv
<1>12. QED
  BY <1>3, <1>4, <1>5, <1>6, <1>7, <1>8, <1>9, <1>10, <1>11, ServeKeeps, CronKeeps
     DEF QuizNext, Browser

\* The attempt starts with the invariant.
LEMMA QuizStart ==
    ASSUME QuizInit
    PROVE  QuizInv
<1>1. Never \in Moment /\ TimeClose \in Moment /\ 0 \in Moment /\ Blank \in Answer
      /\ Home \in Tab /\ MaxTime \in Nat
  BY ConstantFacts, QuizAssumption DEF Moment
<1>2. attempt \in Attempt
  BY <1>1 DEF QuizInit, Attempt, State
<1>3. /\ cron \in Cron /\ cron.stage = "idle"
      /\ session \in Session /\ ~session.busy
  BY NoFacts DEF QuizInit
<1>4. sent \subseteq Request /\ \A r \in sent : r.form = "none"
  BY NoFacts DEF QuizInit
<1>5. /\ now = 0 /\ handling \in Handling
      /\ coming = [t \in Tab |-> NoPage] /\ tab = [t \in Tab |-> NoPage]
      /\ latest = [t \in Tab |-> 0] /\ reqs = 0 /\ hasty = FALSE
  BY DEF QuizInit
<1>6. QuizTypeOK
  <2>1. coming \in [Tab -> Page] /\ tab \in [Tab -> Page]
    BY <1>5, PageFacts
  <2>2. latest \in [Tab -> Nat]
    BY <1>5
  <2>3. now \in 0 .. MaxTime /\ reqs \in Nat /\ hasty \in BOOLEAN
    <3>1. 0 \in 0 .. MaxTime
      BY <1>1
    <3>2. QED
      BY <1>5, <3>1, Zenon
  <2>4. QED
    BY <1>2, <1>3, <1>4, <1>5, <2>1, <2>2, <2>3 DEF QuizTypeOK
<1>7. StepsTellTheAnswer
  BY <1>4, <1>5, PageFacts DEF StepsTellTheAnswer
<1>8. SessionRead /\ CronRead
  BY <1>3 DEF SessionRead, CronRead
<1>9. QED
  BY <1>6, <1>7, <1>8 DEF QuizInv

\* It does not depend on anything but the variables.
LEMMA QuizStutters ==
    ASSUME QuizInv, UNCHANGED quizVars
    PROVE  QuizInv'
<1>1. QuizTypeOK' /\ StepsTellTheAnswer'
  BY DEF QuizInv, QuizTypeOK, StepsTellTheAnswer, FromTheRow, quizVars
<1>2. Refused(session)' <=> Refused(session)
  BY DEF Refused, IsFinished, Processes, InSequence, TooLate, BecomingAbandoned, TimeUp,
         quizVars
<1>3. SessionRead' /\ CronRead'
  BY <1>2 DEF QuizInv, SessionRead, CronRead, Follows, IsFinished, quizVars
<1>4. QED
  BY <1>1, <1>3 DEF QuizInv

\* The invariant of every behaviour of the quiz.
LEMMA QuizInvariant == QuizSpec => []QuizInv
BY QuizStart, QuizStep, QuizStutters, PTL DEF QuizSpec

----------------------------------------------------------------------------
(* The theorems. *)

\* Every variable of the quiz stays in its type: deadlines, check times, steps,
\* pages and requests.
THEOREM QuizTypes == QuizSpec => []QuizTypeOK
BY QuizInvariant, PTL DEF QuizInv

\* A form with the attempt's number of steps was made from the saved answer,
\* wherever the form is.
THEOREM StepsTell == QuizSpec => []StepsTellTheAnswer
BY QuizInvariant, PTL DEF QuizInv

\* A step that is not cron's, nor the server's, leaves the row alone.
LEMMA RowElsewhere ==
    ASSUME QuizNext,
           ~ \E r \in sent : Serve(r),
           ~ CronHandle
    PROVE  attempt' = attempt
BY DEF QuizNext, Browser, Open, Load, Edit, Submit, Finish, TimerFires, Lose, CronList,
       CronLoad, Tick

\* The saved answer is replaced only by a form that showed it, in any number of
\* tabs, with any number of requests lost or served in any order, whatever cron
\* writes between the reading and the writing of a page.
THEOREM NoAnswerIsLost == QuizSpec => NoLostUpdate
<1>1. QuizInv /\ [QuizNext]_quizVars =>
         [attempt'.answer # attempt.answer =>
             \E r \in sent : /\ r \notin sent'
                             /\ r.form = "attempt"
                             /\ r.base = attempt.answer
                             /\ r.answer = attempt'.answer]_quizVars
  <2> SUFFICES ASSUME QuizInv, QuizNext, attempt'.answer # attempt.answer
               PROVE  \E r \in sent : /\ r \notin sent'
                                      /\ r.form = "attempt"
                                      /\ r.base = attempt.answer
                                      /\ r.answer = attempt'.answer
    BY DEF quizVars
  <2>1. ~ CronHandle
    BY CronKeeps
  <2>2. PICK r \in sent : Serve(r)
    BY <2>1, RowElsewhere
  <2>3. QED
    BY <2>2, RowServed DEF RowAfter
<1>2. QED
  BY <1>1, QuizInvariant, PTL DEF QuizSpec, NoLostUpdate

\* A closed attempt changes its state only by cron or by a page, and only if who
\* writes it had read it before it was closed.
THEOREM FinalStates == QuizSpec => FinalStatesStay
<1>1. QuizInv /\ [QuizNext]_quizVars =>
         [IsFinished(attempt) /\ attempt'.state # attempt.state =>
             \/ cron.stage = "loaded" /\ cron'.stage = "idle" /\ ~IsFinished(cron.row)
             \/ session.busy /\ ~session'.busy /\ ~IsFinished(session.row)]_quizVars
  <2> SUFFICES ASSUME QuizInv, QuizNext, IsFinished(attempt), attempt'.state # attempt.state
               PROVE  \/ /\ cron.stage = "loaded" /\ cron'.stage = "idle"
                         /\ ~IsFinished(cron.row)
                      \/ session.busy /\ ~session'.busy /\ ~IsFinished(session.row)
    BY DEF quizVars
  <2>1. CASE CronHandle
    BY <2>1, NoFacts DEF CronHandle, QuizInv, CronRead
  <2>2. CASE ~CronHandle
    <3>1. PICK r \in sent : Serve(r)
      BY <2>2, RowElsewhere
    <3>2. QED
      BY <3>1, RowServed DEF RowAfter
  <2>3. QED
    BY <2>1, <2>2
<1>2. QED
  BY <1>1, QuizInvariant, PTL DEF QuizSpec, FinalStatesStay

----------------------------------------------------------------------------
(* The patient student. That a form is saved says nothing of the steps      *)
(* before it; the invariant must say that the form it is about was alone    *)
(* with the attempt, from the page that brought it to the request that      *)
(* posts it, and that neither the server nor cron touched the row           *)
(* meanwhile.                                                               *)

InTime == now < TimeClose + GraceMin

\* In time, an attempt in progress is not done, is due for cron when its time
\* ends, and is not in the hands of cron.
RowInProgress ==
    InTime /\ attempt.state = "inprogress" =>
        attempt.check = TimeClose /\ ~attempt.done /\ cron.stage = "idle"

\* Nor has cron a row of such an attempt,
CronInTime == InTime /\ cron.stage # "idle" => cron.row.state # "inprogress"

\* and nobody overtakes a page.
HeldInTime ==
    InTime /\ session.busy /\ "inprogress" \in {session.row.state, attempt.state} =>
        attempt = session.row

Timely == RowInProgress /\ CronInTime /\ HeldInTime

\* Requests are numbered as they are made.
Numbered == \A r \in sent : r.no <= reqs

\* A form that would be saved
Current(x) == InTime => x.steps = attempt.steps /\ attempt.state = "inprogress"

\* No tab but t shows the quiz or is about to
Clear(t) == \A u \in Tab \ {t} : ~OnScreen(u) /\ coming[u] = NoPage
Idle(t) == sent = {} /\ coming[t] = NoPage
OnlyRequest(t) ==
    \E r \in sent : sent = {r} /\ r.tab = t /\ latest[t] = r.no /\ coming[t] = NoPage
\* Tab t has posted its form, and waits for the page that follows
Waiting(t) ==
    /\ tab[t].endtime = Never
    /\ OnlyRequest(t) \/ (sent = {} /\ coming[t] # NoPage)

ComingAlone ==
    \A t \in Tab : coming[t].kind = "attempt" => sent = {} /\ Clear(t) /\ Current(coming[t])
ShownAlone ==
    \A t \in Tab : tab[t].kind = "attempt" =>
        /\ Clear(t)
        /\ (Idle(t) /\ Current(tab[t])) \/ Waiting(t)
PostedCurrent ==
    \A r \in sent : r.form = "attempt" => tab[r.tab].kind = "attempt" /\ Current(r)
AskedAlone ==
    \A r \in sent : latest[r.tab] = r.no /\ r.kind \in {"start", "attempt"} =>
        sent = {r} /\ Clear(r.tab) /\ coming[r.tab] = NoPage
OneAtATime == ComingAlone /\ ShownAlone /\ PostedCurrent /\ AskedAlone

Patience == Timely /\ Numbered /\ (hasty \/ OneAtATime)
PatientInv == QuizInv /\ Patience

\* handle_if_time_expired leaves an attempt in progress only if the time limit
\* is not over, and then with the check time of an attempt in progress.
LEMMA HandleProgress ==
    ASSUME NEW row \in Attempt, NEW time \in Moment, handling \in Handling,
           HandleIfTimeExpired(row, time).state = "inprogress"
    PROVE  row.state = "inprogress" /\ HandleIfTimeExpired(row, time).check = TimeClose
<1> DEFINE new == HandleIfTimeExpired(row, time)
<1>1. \A at \in Moment : /\ [row EXCEPT !.check = at].state = row.state
                         /\ [row EXCEPT !.check = at].check = at
  BY DEF Attempt
<1>2. /\ ProcessFinish(row).state = "finished"
      /\ ProcessAbandon(row).state = "abandoned"
      /\ ProcessGoingOverdue(row, time).state = "overdue"
  BY DEF ProcessFinish, ProcessAbandon, ProcessGoingOverdue, Attempt
<1>3. CASE time < TimeClose
  <2>1. new = [row EXCEPT !.check = TimeClose]
    BY <1>3, ConstantFacts DEF HandleIfTimeExpired, Moment
  <2>2. QED
    BY <1>1, <2>1, ConstantFacts
<1>4. CASE time >= TimeClose /\ row.state = "overdue"
  <2>1. new = ProcessAbandon(row) \/ new = [row EXCEPT !.check = TimeClose + GracePeriod]
    BY <1>4, ConstantFacts DEF HandleIfTimeExpired, Moment, Closed
  <2>2. QED
    BY <1>1, <1>2, <1>4, <2>1, ConstantFacts
<1>5. CASE time >= TimeClose /\ row.state \in Closed
  <2>1. new = [row EXCEPT !.check = Never]
    BY <1>5, ConstantFacts DEF HandleIfTimeExpired, Moment, Closed
  <2>2. row.state # "inprogress"
    BY <1>5 DEF Closed
  <2>3. QED
    BY <1>1, <2>1, <2>2, ConstantFacts
<1>6. CASE time >= TimeClose /\ row.state = "inprogress"
  <2>1. /\ ~(time < TimeClose)
        /\ ~(time >= TimeClose /\ row.state = "overdue")
        /\ ~(time >= TimeClose /\ row.state \in Closed)
    BY <1>6, ConstantFacts DEF Moment, Closed
  <2>2. new = CASE handling = "autosubmit" -> ProcessFinish(row)
                [] handling = "graceperiod" -> ProcessGoingOverdue(row, time)
                [] handling = "autoabandon" -> ProcessAbandon(row)
    BY <1>6, <2>1, Zenon DEF HandleIfTimeExpired
  <2>3. new \in {ProcessFinish(row), ProcessGoingOverdue(row, time), ProcessAbandon(row)}
    BY <2>2 DEF Handling
  <2>4. QED
    BY <1>2, <2>3
<1>7. QED
  BY <1>3, <1>4, <1>5, <1>6, ConstantFacts DEF State, Moment, Attempt

\* A post leaves an attempt in progress only if it found it so, and then as it was.
LEMMA ProcessedProgress ==
    ASSUME NEW p, p.row \in Attempt, p.req \in Request, p.time \in Moment,
           Processed(p).state = "inprogress"
    PROVE  /\ p.row.state = "inprogress"
           /\ Processed(p).check = p.row.check
           /\ Processed(p).done = p.row.done
<1> DEFINE saved == IF Processes(p) THEN Saved(p.row, p.req) ELSE p.row
<1>1. saved \in Attempt /\ saved.state = p.row.state
  BY SavedFollows DEF Follows
<1>2. saved.check = p.row.check /\ saved.done = p.row.done
  <2>1. /\ Saved(p.row, p.req).check = p.row.check
        /\ Saved(p.row, p.req).done = p.row.done
    BY DEF Saved, Attempt
  <2>2. QED
    BY <2>1
<1>3. Processed(p) \in {ProcessAbandon(saved), ProcessFinish(saved),
                        ProcessGoingOverdue(saved, p.time), saved}
  BY DEF Processed
<1> HIDE DEF saved
<1>4. /\ ProcessFinish(saved).state = "finished"
      /\ ProcessAbandon(saved).state = "abandoned"
      /\ ProcessGoingOverdue(saved, p.time).state = "overdue"
  BY <1>1 DEF ProcessFinish, ProcessAbandon, ProcessGoingOverdue, Attempt
<1>5. Processed(p) = saved
  BY <1>3, <1>4
<1>6. QED
  BY <1>1, <1>2, <1>5

\* What a write in time does to the row, if it leaves the attempt in progress
KeepsProgress ==
    InTime /\ attempt'.state = "inprogress" =>
        /\ attempt.state = "inprogress"
        /\ attempt'.check = TimeClose
        /\ ~attempt'.done

\* A page that looks after the time does so.
LEMMA TimelyProgress ==
    ASSUME QuizInv, Timely, session.busy, NEW time \in Moment,
           attempt' = UpdatedIfTimeExpired(session.row,
                                           HandleIfTimeExpired(session.row, time))
    PROVE  KeepsProgress
<1> DEFINE held == session.row
           new == HandleIfTimeExpired(held, time)
<1>1. attempt \in Attempt /\ handling \in Handling
  BY DEF QuizInv, QuizTypeOK
<1>2. held \in Attempt /\ Follows(held, attempt)
  BY HeldFacts
<1>3. new \in Attempt /\ Follows(held, new) /\ new.answer = held.answer
  BY <1>1, <1>2, HandleFollows DEF Follows
<1>4. new.state = "inprogress" => held.state = "inprogress" /\ new.check = TimeClose
  BY <1>1, <1>2, HandleProgress
<1>5. /\ attempt' = UpdatedIfTimeExpired(held, new)
      /\ InTime /\ "inprogress" \in {held.state, attempt.state} => attempt = held
      /\ InTime /\ attempt.state = "inprogress" => attempt.check = TimeClose /\ ~attempt.done
  BY DEF Timely, RowInProgress, HeldInTime
<1> HIDE DEF new, held
<1>6. SUFFICES ASSUME InTime, attempt'.state = "inprogress"
               PROVE  /\ attempt.state = "inprogress"
                      /\ attempt'.check = TimeClose
                      /\ ~attempt'.done
  BY DEF KeepsProgress
<1>7. attempt.state = "inprogress" /\ attempt = held
  <2>1. attempt'.state # attempt.state => attempt'.state = new.state /\ new.state # held.state
    BY <1>1, <1>2, <1>3, <1>5, TimelyFollows
  <2>2. attempt.state = "inprogress"
    BY <1>4, <1>6, <2>1
  <2>3. QED
    BY <1>5, <1>6, <2>2
<1>8. CASE attempt' = attempt
  BY <1>5, <1>6, <1>7, <1>8
<1>9. CASE attempt' # attempt
  <2>1. ~Fails(held, new)
    BY <1>5, <1>9 DEF UpdatedIfTimeExpired
  <2>2. new.state = held.state
    <3>1. ASSUME new.state # held.state PROVE FALSE
      <4>1. attempt' = Updated(held, new)
        BY <1>5, <2>1, <3>1 DEF UpdatedIfTimeExpired
      <4>2. attempt'.state = new.state
        BY <1>1, <1>2, <1>3, <2>1, <4>1, UpdatedFollows
      <4>3. QED
        BY <1>6, <1>7, <3>1, <4>2
    <3>2. QED
      BY <3>1
  <2>3. attempt' = [attempt EXCEPT !.check = new.check]
    BY <1>5, <1>9, <2>1, <2>2 DEF UpdatedIfTimeExpired
  <2>4. new.check = TimeClose
    BY <1>4, <1>7, <2>2
  <2>5. attempt'.check = TimeClose /\ attempt'.done = attempt.done
    BY <1>1, <2>3, <2>4 DEF Attempt
  <2>6. QED
    BY <1>5, <1>6, <1>7, <2>5
<1>10. QED
  BY <1>8, <1>9

\* So does processattempt.php.
LEMMA PostProgress ==
    ASSUME QuizInv, Timely, NEW r \in sent, SavePost(r) \/ FinishPost(r)
    PROVE  KeepsProgress
<1> DEFINE held == session.row
           new == Processed(session)
<1>1. /\ session.busy /\ ~Fails(held, new) /\ attempt' = Updated(held, new)
  BY DEF SavePost, FinishPost, Writing
<1>2. /\ attempt \in Attempt /\ held \in Attempt /\ Follows(held, attempt)
      /\ session.req \in Request /\ session.time \in Moment
  BY <1>1, HeldFacts DEF QuizInv, QuizTypeOK
<1>3. Follows(held, new) /\ new \in Attempt
  BY <1>2, ProcessedFollows DEF Follows
<1>4. new.state = "inprogress" =>
         held.state = "inprogress" /\ new.check = held.check /\ new.done = held.done
  BY <1>2, ProcessedProgress
<1>5. /\ InTime /\ "inprogress" \in {held.state, attempt.state} => attempt = held
      /\ InTime /\ attempt.state = "inprogress" => attempt.check = TimeClose /\ ~attempt.done
  BY <1>1 DEF Timely, RowInProgress, HeldInTime
<1> HIDE DEF new, held
<1>6. SUFFICES ASSUME InTime, attempt'.state = "inprogress"
               PROVE  /\ attempt.state = "inprogress"
                      /\ attempt'.check = TimeClose
                      /\ ~attempt'.done
  BY DEF KeepsProgress
<1>7. new.state = "inprogress"
  BY <1>1, <1>2, <1>3, <1>6, UpdatedFollows
<1>8. /\ attempt = held /\ attempt.state = "inprogress"
      /\ new.check = TimeClose /\ new.done = attempt.done /\ ~attempt.done
  BY <1>4, <1>5, <1>6, <1>7
<1>9. CASE attempt' = Moved(attempt, new.state, new.check)
  BY <1>2, <1>8, <1>9 DEF Moved, Attempt
<1>10. CASE attempt' = new
  BY <1>8, <1>10
<1>11. attempt' = Moved(attempt, new.state, new.check) \/ attempt' = new
  BY <1>1 DEF Updated, Moved
<1>12. QED
  BY <1>8, <1>9, <1>10, <1>11

\* A step of the server's pages is no step of cron's, nor of the clock's.
LEMMA ServeLeaves ==
    ASSUME QuizInv, NEW r \in sent, Serve(r)
    PROVE  UNCHANGED <<now, handling, cron, tab, latest, reqs, hasty>>
BY ServedPage DEF Answers, Redirects, ReadPage

\* Every step keeps an attempt in progress out of cron's hands, and the page that
\* holds its session from being overtaken, in time.
LEMMA TimelyStep ==
    ASSUME QuizInv, Timely, QuizNext
    PROVE  Timely'
<1>1. /\ attempt \in Attempt /\ now \in Nat /\ cron \in Cron /\ handling \in Handling
      /\ RowInProgress /\ CronInTime /\ HeldInTime
  BY ConstantFacts DEF QuizInv, QuizTypeOK, Timely
\* The row and what cron has read of it stay, and no page starts.
<1>2. ASSUME attempt' = attempt, cron' = cron, now' = now \/ now' = now + 1,
             session' = session \/ ~session'.busy
      PROVE  Timely'
  <2>1. InTime' => InTime
    BY <1>1, <1>2, ConstantFacts DEF InTime
  <2>2. QED
    BY <1>1, <1>2, <2>1 DEF Timely, RowInProgress, CronInTime, HeldInTime
\* A page writes.
<1>3. ASSUME KeepsProgress, now' = now, cron' = cron, ~session'.busy
      PROVE  Timely'
  BY <1>1, <1>3 DEF Timely, RowInProgress, CronInTime, HeldInTime, KeepsProgress, InTime
<1>4. ASSUME NEW r \in sent, Serve(r) PROVE Timely'
  <2>1. now' = now /\ cron' = cron
    BY <1>4, ServeLeaves
  <2>2. CASE ReadPage(r)
    <3>1. attempt' = attempt /\ session'.row = attempt
      BY <2>2 DEF ReadPage, Reading
    <3>2. QED
      BY <1>1, <2>1, <3>1 DEF Timely, RowInProgress, CronInTime, HeldInTime, InTime
  <2>3. CASE ServeAttempt(r) \/ NoStart(r) \/ RefusePost(r) \/ FailPost(r)
    <3>1. attempt' = attempt /\ (session' = session \/ ~session'.busy)
      BY <2>3, NoFacts DEF ServeAttempt, NoStart, RefusePost, FailPost, Writing
    <3>2. QED
      BY <1>2, <2>1, <3>1
  <2>4. CASE WriteStart(r) \/ WriteSummary(r)
    <3>1. ~session'.busy /\ session.busy
      BY <2>4, NoFacts DEF WriteStart, WriteSummary, Writing
    <3>2. KeepsProgress
      <4>1. session.time \in Moment /\ now \in Moment
        BY <3>1, HeldFacts, ConstantFacts DEF QuizInv, QuizTypeOK
      <4>2. QED
        BY <2>4, <3>1, <4>1, TimelyProgress DEF WriteStart, WriteSummary
    <3>3. QED
      BY <1>3, <2>1, <3>1, <3>2
  <2>5. CASE SavePost(r) \/ FinishPost(r)
    <3>1. ~session'.busy
      BY <2>5, NoFacts DEF SavePost, FinishPost, Writing
    <3>2. QED
      BY <1>3, <2>1, <2>5, <3>1, PostProgress
  <2>6. QED
    BY <1>4, <2>2, <2>3, <2>4, <2>5 DEF Serve, ServePost
<1>5. CASE CronList
  <2>1. /\ attempt' = attempt /\ now' = now /\ session' = session
        /\ cron'.row.state = attempt.state
        /\ attempt.check <= now - GraceMin \/ now = MaxTime
    BY <1>5 DEF CronList, Due, NoRow
  <2>2. InTime => attempt.state # "inprogress"
    <3>1. TimeClose + GraceMin <= MaxTime
      BY QuizAssumption
    <3>2. QED
      BY <1>1, <2>1, <3>1, ConstantFacts DEF InTime, RowInProgress
  <2>3. QED
    BY <1>1, <2>1, <2>2 DEF Timely, RowInProgress, CronInTime, HeldInTime, InTime
<1>6. CASE CronLoad
  <2>1. /\ attempt' = attempt /\ now' = now /\ session' = session
        /\ cron.stage = "listed" /\ cron'.row.state = cron.row.state
    BY <1>1, <1>6 DEF CronLoad, Cron, Attempt
  <2>2. QED
    BY <1>1, <2>1 DEF Timely, RowInProgress, CronInTime, HeldInTime, InTime
<1>7. CASE CronHandle
  <2> DEFINE new == HandleIfTimeExpired(cron.row, cron.time)
  <2>1. /\ cron.stage = "loaded" /\ cron.row \in Attempt /\ cron.time \in Moment
        /\ Follows(cron.row, attempt)
    BY <1>1, <1>7 DEF CronHandle, Cron, QuizInv, CronRead
  <2>2. /\ attempt' = UpdatedIfTimeExpired(cron.row, new) /\ cron' = NoCron
        /\ now' = now /\ session' = session
    BY <1>7 DEF CronHandle
  <2>3. Follows(cron.row, new) /\ new.answer = cron.row.answer
    BY <1>1, <2>1, HandleFollows
  <2>4. new.state = "inprogress" => cron.row.state = "inprogress"
    BY <1>1, <2>1, HandleProgress
  <2> HIDE DEF new
  <2>5. attempt'.state # attempt.state => attempt'.state = new.state
    BY <1>1, <2>1, <2>2, <2>3, TimelyFollows
  <2>6. InTime => attempt.state # "inprogress" /\ attempt'.state # "inprogress"
    BY <1>1, <2>1, <2>4, <2>5 DEF RowInProgress, CronInTime
  <2>7. cron'.stage = "idle"
    BY <2>2, NoFacts
  <2>8. QED
    BY <1>1, <2>2, <2>6, <2>7 DEF Timely, RowInProgress, CronInTime, HeldInTime, InTime
<1>8. CASE Tick
  BY <1>2, <1>8 DEF Tick
<1>9. ASSUME NEW r \in sent, Lose(r) PROVE Timely'
  <2>1. /\ attempt' = attempt /\ cron' = cron /\ now' = now
        /\ session' = session \/ ~session'.busy
    BY <1>9, NoFacts DEF Lose
  <2>2. QED
    BY <1>2, <2>1
<1>10. ASSUME NEW t \in Tab, Browser(t) PROVE Timely'
  <2>1. attempt' = attempt /\ cron' = cron /\ now' = now /\ session' = session
    BY <1>10 DEF Browser, Open, Load, Edit, Submit, Finish, TimerFires
  <2>2. QED
    BY <1>2, <2>1
<1>11. QED
  BY <1>4, <1>5, <1>6, <1>7, <1>8, <1>9, <1>10 DEF QuizNext

\* What an Ask adds: one request, the latest of its tab.
LEMMA AskAdds ==
    ASSUME QuizTypeOK, Numbered, NEW t \in Tab, NEW kind, NEW form, Ask(t, kind, form)
    PROVE  \E new : /\ new.tab = t /\ new.no = reqs + 1 /\ new.kind = kind
                    /\ new.form = form.kind /\ new.steps = form.steps
                    /\ sent' = sent \cup {new}
                    /\ latest'[t] = new.no
                    /\ \A u \in Tab \ {t} : latest'[u] = latest[u] /\ coming'[u] = coming[u]
                    /\ coming'[t] = NoPage
                    /\ \A r \in sent : r.no # new.no
                    /\ Numbered'
<1> DEFINE new == [tab |-> t, no |-> reqs + 1, kind |-> kind,
                   form |-> form.kind, answer |-> form.answer,
                   base |-> form.base, steps |-> form.steps,
                   timeup |-> form.timeup]
<1>1. reqs \in Nat /\ latest \in [Tab -> Nat] /\ coming \in [Tab -> Page]
      /\ \A r \in sent : r.no \in Nat
  BY DEF QuizTypeOK, Request
<1>2. /\ reqs' = reqs + 1
      /\ latest' = [latest EXCEPT ![t] = reqs + 1]
      /\ coming' = [coming EXCEPT ![t] = NoPage]
      /\ sent' = sent \cup {new}
  BY DEF Ask
<1>3. new.tab = t /\ new.no = reqs + 1 /\ new.kind = kind
      /\ new.form = form.kind /\ new.steps = form.steps
  OBVIOUS
<1> HIDE DEF new
<1>4. /\ latest'[t] = new.no
      /\ \A u \in Tab \ {t} : latest'[u] = latest[u] /\ coming'[u] = coming[u]
      /\ coming'[t] = NoPage
  BY <1>1, <1>2, <1>3
<1>5. \A r \in sent : r.no # new.no
  BY <1>1, <1>3 DEF Numbered
<1>6. Numbered'
  BY <1>1, <1>2, <1>3 DEF Numbered
<1>7. QED
  BY <1>2, <1>3, <1>4, <1>5, <1>6

\* A page that is no page has no form.
LEMMA NothingComing ==
    ASSUME NEW t, coming[t].kind = "attempt"
    PROVE  coming[t] # NoPage
BY DEF NoPage

\* A request that a patient student makes, from a page with a form or without.
LEMMA PatientAsks ==
    ASSUME PatientInv, ~hasty, NEW t \in Tab, NEW kind, NEW form, Ask(t, kind, form),
           ~IsHasty(t),
           UNCHANGED <<now, attempt>>,
           tab' \in [Tab -> Page],
           \A u \in Tab : tab'[u].kind = tab[u].kind /\ tab'[u].steps = tab[u].steps,
           (form.kind = tab[t].kind /\ form.steps = tab[t].steps) \/ form.kind = "none",
           tab[t].kind = "attempt" =>
              form.kind = "attempt" /\ kind = "post" /\ tab'[t].endtime = Never
    PROVE  OneAtATime'
<1>1. /\ sent = {} /\ \A u \in Tab : coming[u] = NoPage
      /\ \A u \in Tab \ {t} : ~OnScreen(u)
  BY DEF IsHasty, UnderWay, Elsewhere
<1>2. OneAtATime /\ QuizTypeOK /\ Numbered
  BY DEF PatientInv, Patience, QuizInv
<1>3. PICK new : /\ new.tab = t /\ new.no = reqs + 1 /\ new.kind = kind
                 /\ new.form = form.kind /\ new.steps = form.steps
                 /\ sent' = sent \cup {new}
                 /\ latest'[t] = new.no
                 /\ \A u \in Tab \ {t} : latest'[u] = latest[u] /\ coming'[u] = coming[u]
                 /\ coming'[t] = NoPage
  BY <1>2, AskAdds
<1>4. sent' = {new} /\ \A u \in Tab : coming'[u] = NoPage
  BY <1>1, <1>3
<1>5. Clear(t)'
  BY <1>1, <1>4 DEF Clear, OnScreen
<1>6. ComingAlone'
  BY <1>4 DEF ComingAlone, NoPage
<1>7. ASSUME tab[t].kind = "attempt" PROVE Current(tab[t]) /\ Waiting(t)'
  <2>1. Current(tab[t])
    BY <1>1, <1>2, <1>7 DEF OneAtATime, ShownAlone, Waiting, OnlyRequest
  <2>2. OnlyRequest(t)'
    BY <1>3, <1>4 DEF OnlyRequest
  <2>3. QED
    BY <1>7, <2>1, <2>2 DEF Waiting
<1>8. ShownAlone'
  BY <1>1, <1>5, <1>7 DEF ShownAlone, OnScreen
<1>9. PostedCurrent'
  BY <1>3, <1>4, <1>7 DEF PostedCurrent, Current, InTime
<1>10. AskedAlone'
  BY <1>3, <1>4, <1>5 DEF AskedAlone
<1>11. QED
  BY <1>6, <1>8, <1>9, <1>10 DEF OneAtATime


\* Opening the quiz, as a patient student does it: from no page of questions.
LEMMA PatientOpens ==
    ASSUME PatientInv, NEW t \in Tab, NEW kind \in {"start", "attempt", "summary"},
           Open(t, kind), ~hasty'
    PROVE  OneAtATime'
<1>1. /\ ~hasty /\ ~IsHasty(t) /\ tab[t].kind # "attempt"
      /\ Ask(t, kind, NoPage)
      /\ UNCHANGED <<now, attempt, tab>>
  BY DEF Open
<1>2. tab' \in [Tab -> Page]
  BY <1>1 DEF PatientInv, QuizInv, QuizTypeOK
<1>3. QED
  BY <1>1, <1>2, PageFacts, PatientAsks

\* Submitting the form of the attempt, and of the summary.
LEMMA PatientSubmits ==
    ASSUME PatientInv, NEW t \in Tab, Submit(t) \/ Finish(t), ~hasty'
    PROVE  OneAtATime'
<1>1. ~hasty /\ ~IsHasty(t) /\ Ask(t, "post", tab[t]) /\ UNCHANGED <<now, attempt>>
  BY DEF Submit, Finish
<1>2. tab \in [Tab -> Page] /\ tab' \in [Tab -> Page]
  BY QuizStep DEF PatientInv, QuizInv, QuizTypeOK, QuizNext, Browser
<1>3. /\ \A u \in Tab : tab'[u].kind = tab[u].kind /\ tab'[u].steps = tab[u].steps
      /\ tab[t].kind = "attempt" => tab'[t].endtime = Never
  <2>1. CASE Submit(t)
    <3>1. tab' = [tab EXCEPT ![t] = [tab[t] EXCEPT !.submitted = TRUE, !.endtime = Never]]
      BY <1>2, <2>1 DEF Submit
    <3>2. tab[t] \in Page
      BY <1>2
    <3>3. QED
      BY <1>2, <3>1, <3>2 DEF Page
  <2>2. CASE Finish(t)
    BY <2>2 DEF Finish
  <2>3. QED
    BY <2>1, <2>2
<1>4. QED
  BY <1>1, <1>2, <1>3, PatientAsks

\* The countdown posts the form on the screen. If that form is the attempt's,
\* nothing else is under way: nobody has posted it yet. If it is the summary's,
\* another request may be, and its answer will not be shown.
LEMMA TimerAlone ==
    ASSUME PatientInv, ~hasty, NEW t \in Tab, TimerFires(t)
    PROVE  OneAtATime'
<1> DEFINE form == [tab[t] EXCEPT !.timeup = TRUE, !.endtime = Never]
<1>1. OneAtATime /\ QuizTypeOK /\ Numbered /\ tab \in [Tab -> Page] /\ now \in 0 .. MaxTime
  BY DEF PatientInv, Patience, QuizInv, QuizTypeOK
<1>2. tab[t] \in Page
  BY <1>1
<1>3. form.kind = tab[t].kind /\ form.steps = tab[t].steps /\ form.endtime = Never
  BY <1>2 DEF Page
<1>4. /\ OnScreen(t) /\ tab[t].endtime <= now /\ Ask(t, "post", form)
      /\ tab' = [tab EXCEPT ![t] = form]
      /\ UNCHANGED <<now, attempt>>
  BY DEF TimerFires
<1> HIDE DEF form
<1>5. /\ \A u \in Tab : tab'[u].kind = tab[u].kind /\ tab'[u].steps = tab[u].steps
      /\ \A u \in Tab \ {t} : tab'[u] = tab[u]
      /\ tab'[t].endtime = Never
  BY <1>1, <1>3, <1>4
<1>6. tab[t].endtime # Never
  BY <1>1, <1>4, ConstantFacts DEF Never
<1>7. PICK new : /\ new.tab = t /\ new.no = reqs + 1 /\ new.kind = "post"
                 /\ new.form = form.kind /\ new.steps = form.steps
                 /\ sent' = sent \cup {new}
                 /\ latest'[t] = new.no
                 /\ \A u \in Tab \ {t} : latest'[u] = latest[u] /\ coming'[u] = coming[u]
                 /\ coming'[t] = NoPage
                 /\ \A r \in sent : r.no # new.no
  BY <1>1, <1>4, AskAdds
<1>8. \A u \in Tab : OnScreen(u)' = OnScreen(u) /\ (Clear(u) => Clear(u)')
  BY <1>5, <1>7 DEF OnScreen, Clear
<1>9. \A r \in sent : r \in Request
  BY <1>1 DEF QuizTypeOK
\* No other tab has a form, nor the answer to a request, while t is on the screen.
<1>10. ASSUME NEW u \in Tab, Clear(u) PROVE u = t
  BY <1>4, <1>10 DEF Clear
<1>11. CASE tab[t].kind = "attempt"
  <2>1. sent = {} /\ Clear(t) /\ Current(tab[t])
    BY <1>1, <1>6, <1>11 DEF OneAtATime, ShownAlone, Waiting, Idle
  <2>2. sent' = {new}
    BY <1>7, <2>1
  <2>3. \A u \in Tab : coming'[u] = NoPage
    BY <1>7, <2>1 DEF Clear
  <2>4. ComingAlone'
    BY <2>3 DEF ComingAlone, NoPage
  <2>5. Waiting(t)'
    BY <1>5, <1>7, <2>2 DEF Waiting, OnlyRequest
  <2>6. ASSUME NEW u \in Tab, tab'[u].kind = "attempt" PROVE u = t
    BY <1>5, <2>1, <2>6 DEF Clear, OnScreen
  <2>7. ShownAlone'
    BY <1>8, <2>1, <2>5, <2>6 DEF ShownAlone
  <2>8. PostedCurrent'
    BY <1>3, <1>4, <1>5, <1>7, <1>11, <2>1, <2>2 DEF PostedCurrent, Current, InTime
  <2>9. AskedAlone'
    BY <1>7, <2>2 DEF AskedAlone
  <2>10. QED
    BY <2>4, <2>7, <2>8, <2>9 DEF OneAtATime
<1>12. CASE tab[t].kind # "attempt"
  <2>1. ASSUME NEW u \in Tab, tab[u].kind = "attempt" PROVE FALSE
    BY <1>1, <1>10, <1>12, <2>1 DEF OneAtATime, ShownAlone
  <2>2. ComingAlone'
    <3>1. SUFFICES ASSUME NEW u \in Tab, coming'[u].kind = "attempt" PROVE FALSE
      BY DEF ComingAlone
    <3>2. u # t /\ coming'[u] = coming[u]
      BY <1>7, <3>1 DEF NoPage
    <3>3. QED
      BY <1>1, <1>10, <3>1, <3>2 DEF OneAtATime, ComingAlone
  <2>3. ShownAlone'
    BY <1>5, <2>1 DEF ShownAlone
  <2>4. PostedCurrent'
    <3>1. SUFFICES ASSUME NEW r \in sent', r.form = "attempt" PROVE FALSE
      BY DEF PostedCurrent
    <3>2. r \in sent
      BY <1>3, <1>7, <1>12, <3>1
    <3>3. r.tab \in Tab
      BY <1>9, <3>2 DEF Request
    <3>4. QED
      BY <1>1, <2>1, <3>1, <3>2, <3>3 DEF OneAtATime, PostedCurrent
  <2>5. AskedAlone'
    <3>1. SUFFICES ASSUME NEW r \in sent', latest'[r.tab] = r.no, r.kind \in {"start", "attempt"}
                   PROVE  FALSE
      BY DEF AskedAlone
    <3>2. r \in sent
      BY <1>7, <3>1
    <3>3. r.tab \in Tab /\ r.tab # t
      BY <1>7, <1>9, <3>1, <3>2 DEF Request
    <3>4. Clear(r.tab)
      BY <1>1, <1>7, <3>1, <3>2, <3>3 DEF OneAtATime, AskedAlone
    <3>5. QED
      BY <1>10, <3>3, <3>4
  <2>6. QED
    BY <2>2, <2>3, <2>4, <2>5 DEF OneAtATime
<1>13. QED
  BY <1>11, <1>12

\* A page arrives: the tab in which it does is the only one with the quiz.
LEMMA LoadAlone ==
    ASSUME PatientInv, ~hasty, NEW t \in Tab, Load(t)
    PROVE  OneAtATime'
<1>1. OneAtATime /\ tab \in [Tab -> Page] /\ coming \in [Tab -> Page] /\ sent \subseteq Request
  BY DEF PatientInv, Patience, QuizInv, QuizTypeOK
<1>2. PICK page : /\ tab' = [tab EXCEPT ![t] = page]
                  /\ page.kind = coming[t].kind /\ page.steps = coming[t].steps
  <2> DEFINE due == now + coming[t].endtime
             page == [coming[t] EXCEPT !.endtime =
                         IF coming[t].endtime = Never \/ due <= MaxTime
                         THEN IF coming[t].endtime = Never THEN Never ELSE due
                         ELSE MaxTime]
  <2>1. tab' = [tab EXCEPT ![t] = page]
    BY DEF Load
  <2>2. page.kind = coming[t].kind /\ page.steps = coming[t].steps
    BY <1>1 DEF Page
  <2> HIDE DEF page
  <2>3. QED
    BY <2>1, <2>2
<1>3. /\ coming[t] # NoPage
      /\ coming' = [coming EXCEPT ![t] = NoPage]
      /\ UNCHANGED <<now, attempt, sent, latest>>
  BY DEF Load
<1>4. /\ tab'[t].kind = coming[t].kind /\ tab'[t].steps = coming[t].steps
      /\ coming'[t] = NoPage
      /\ \A u \in Tab \ {t} : tab'[u] = tab[u] /\ coming'[u] = coming[u]
  BY <1>1, <1>2, <1>3
<1>5. ASSUME NEW u \in Tab, Clear(u) PROVE u = t
  BY <1>3, <1>5 DEF Clear
<1>6. ComingAlone'
  <2>1. SUFFICES ASSUME NEW u \in Tab, coming'[u].kind = "attempt" PROVE FALSE
    BY DEF ComingAlone
  <2>2. u # t /\ coming[u].kind = "attempt"
    BY <1>4, <2>1 DEF NoPage
  <2>3. QED
    BY <1>1, <1>5, <2>2 DEF OneAtATime, ComingAlone
<1>7. ShownAlone'
  <2>1. SUFFICES ASSUME NEW u \in Tab, tab'[u].kind = "attempt"
                 PROVE  Clear(u)' /\ Idle(u)' /\ Current(tab[u])'
    BY DEF ShownAlone
  <2>2. u = t
    BY <1>1, <1>4, <1>5, <2>1 DEF OneAtATime, ShownAlone
  <2>3. sent = {} /\ Clear(t) /\ Current(coming[t])
    BY <1>1, <1>4, <2>1, <2>2 DEF OneAtATime, ComingAlone
  <2>4. Clear(t)'
    BY <1>4, <2>3 DEF Clear, OnScreen
  <2>5. Idle(t)'
    BY <1>3, <1>4, <2>3 DEF Idle
  <2>6. Current(tab[t])'
    BY <1>3, <1>4, <2>3 DEF Current, InTime
  <2>7. QED
    BY <2>2, <2>4, <2>5, <2>6
<1>8. PostedCurrent'
  <2>1. SUFFICES ASSUME NEW r \in sent, r.form = "attempt" PROVE FALSE
    BY <1>3 DEF PostedCurrent
  <2>2. r.tab \in Tab /\ tab[r.tab].kind = "attempt"
    BY <1>1, <2>1 DEF OneAtATime, PostedCurrent, Request
  <2>3. r.tab = t /\ (Idle(t) \/ Waiting(t))
    BY <1>1, <1>5, <2>2 DEF OneAtATime, ShownAlone
  <2>4. QED
    BY <1>3, <2>1, <2>3 DEF Idle, Waiting, OnlyRequest
<1>9. AskedAlone'
  <2>1. SUFFICES ASSUME NEW r \in sent, latest[r.tab] = r.no, r.kind \in {"start", "attempt"}
                 PROVE  FALSE
    BY <1>3 DEF AskedAlone
  <2>2. r.tab \in Tab /\ Clear(r.tab) /\ coming[r.tab] = NoPage
    BY <1>1, <2>1 DEF OneAtATime, AskedAlone, Request
  <2>3. QED
    BY <1>3, <1>5, <2>2
<1>10. QED
  BY <1>6, <1>7, <1>8, <1>9 DEF OneAtATime


\* Editing the form changes its answer only.
LEMMA EditAlone ==
    ASSUME PatientInv, ~hasty, NEW t \in Tab, NEW a \in Answer, Edit(t, a)
    PROVE  OneAtATime'
<1>1. OneAtATime /\ tab \in [Tab -> Page]
  BY DEF PatientInv, Patience, QuizInv, QuizTypeOK
<1>2. /\ tab' = [tab EXCEPT ![t] = [tab[t] EXCEPT !.answer = a]]
      /\ UNCHANGED <<now, attempt, sent, coming, latest>>
  BY DEF Edit
<1>3. \A u \in Tab : /\ tab'[u].kind = tab[u].kind
                     /\ tab'[u].steps = tab[u].steps
                     /\ tab'[u].endtime = tab[u].endtime
  <2>1. tab[t] \in Page
    BY <1>1
  <2>2. QED
    BY <1>1, <1>2, <2>1 DEF Page
<1>4. \A u \in Tab : Clear(u) => Clear(u)'
  BY <1>2, <1>3 DEF Clear, OnScreen
<1>5. ComingAlone'
  BY <1>1, <1>2, <1>4 DEF OneAtATime, ComingAlone, Current, InTime
<1>6. \A u \in Tab : Idle(u)' = Idle(u) /\ OnlyRequest(u)' = OnlyRequest(u)
  BY <1>2 DEF Idle, OnlyRequest
<1>7. ShownAlone'
  BY <1>1, <1>2, <1>3, <1>4, <1>6 DEF OneAtATime, ShownAlone, Waiting, Current, InTime
<1>8. \A r \in sent : r.tab \in Tab
  BY DEF PatientInv, QuizInv, QuizTypeOK, Request
<1>9. PostedCurrent'
  BY <1>1, <1>2, <1>3, <1>8 DEF OneAtATime, PostedCurrent, Current, InTime
<1>10. AskedAlone'
  BY <1>1, <1>2, <1>4, <1>8 DEF OneAtATime, AskedAlone
<1>11. QED
  BY <1>5, <1>7, <1>9, <1>10 DEF OneAtATime

\* A lost request leaves its tab without a page, if the tab waited for it.
LEMMA LoseAlone ==
    ASSUME PatientInv, ~hasty, NEW r \in sent, Lose(r)
    PROVE  OneAtATime'
<1>1. OneAtATime /\ tab \in [Tab -> Page] /\ r.tab \in Tab
      /\ \A s \in sent : s.tab \in Tab
  BY DEF PatientInv, Patience, QuizInv, QuizTypeOK, Request
<1>2. /\ sent' = sent \ {r}
      /\ tab' = IF latest[r.tab] = r.no THEN [tab EXCEPT ![r.tab] = NoPage] ELSE tab
      /\ UNCHANGED <<now, attempt, coming, latest>>
  BY DEF Lose
<1>3. /\ \A u \in Tab : tab'[u] \in {tab[u], NoPage}
      /\ latest[r.tab] = r.no => tab'[r.tab].kind # "attempt"
      /\ \A u \in Tab : u # r.tab => tab'[u] = tab[u]
      /\ latest[r.tab] # r.no => tab' = tab
  BY <1>1, <1>2 DEF NoPage
<1>4. ComingAlone'
  BY <1>1, <1>2 DEF OneAtATime, ComingAlone
<1>5. ASSUME NEW u \in Tab, tab[u].kind = "attempt"
      PROVE  tab'[u].kind # "attempt" /\ sent' = {}
  <2>1. OnlyRequest(u)
    BY <1>1, <1>5 DEF OneAtATime, ShownAlone, Idle, Waiting
  <2>2. sent = {r} /\ r.tab = u /\ latest[u] = r.no
    BY <2>1 DEF OnlyRequest
  <2>3. QED
    BY <1>2, <1>3, <2>2
<1>6. \A u \in Tab : tab'[u].kind # "attempt"
  BY <1>3, <1>5 DEF NoPage
<1>7. ShownAlone'
  BY <1>6 DEF ShownAlone
<1>8. PostedCurrent'
  BY <1>1, <1>2, <1>5 DEF OneAtATime, PostedCurrent
<1>9. AskedAlone'
  BY <1>1, <1>2 DEF OneAtATime, AskedAlone
<1>10. QED
  BY <1>4, <1>7, <1>8, <1>9 DEF OneAtATime

\* A step that changes at most the row and the clock, and in time leaves alone
\* an attempt in progress.
LEMMA RowAlone ==
    ASSUME OneAtATime, UNCHANGED <<sent, coming, tab, latest>>,
           InTime' => InTime,
           InTime' /\ attempt.state = "inprogress" =>
              attempt'.steps = attempt.steps /\ attempt'.state = "inprogress"
    PROVE  OneAtATime'
<1>1. \A x : Current(x) => (InTime' => x.steps = attempt'.steps /\ attempt'.state = "inprogress")
  BY DEF Current
<1>2. \A u \in Tab : /\ Clear(u)' = Clear(u) /\ Idle(u)' = Idle(u)
                     /\ OnlyRequest(u)' = OnlyRequest(u) /\ Waiting(u)' = Waiting(u)
                     /\ Current(tab[u]) => Current(tab[u])'
                     /\ Current(coming[u]) => Current(coming[u])'
  BY <1>1 DEF Clear, OnScreen, Idle, Waiting, OnlyRequest, Current
<1>3. ComingAlone'
  BY <1>2 DEF OneAtATime, ComingAlone
<1>4. ShownAlone'
  BY <1>2 DEF OneAtATime, ShownAlone
<1>5. PostedCurrent'
  BY <1>1 DEF OneAtATime, PostedCurrent, Current
<1>6. AskedAlone'
  BY DEF OneAtATime, AskedAlone, Clear, OnScreen
<1>7. QED
  BY <1>3, <1>4, <1>5, <1>6 DEF OneAtATime

\* Cron and the clock.
LEMMA CronAlone ==
    ASSUME PatientInv, ~hasty, CronList \/ CronLoad \/ CronHandle \/ Tick
    PROVE  OneAtATime'
<1>1. OneAtATime /\ RowInProgress /\ now \in Nat
  BY ConstantFacts DEF PatientInv, Patience, Timely, QuizInv, QuizTypeOK
<1>2. UNCHANGED <<sent, coming, tab, latest>>
  BY DEF CronList, CronLoad, CronHandle, Tick
<1>3. InTime' => InTime
  BY <1>1, ConstantFacts DEF CronList, CronLoad, CronHandle, Tick, InTime
<1>4. InTime' /\ attempt.state = "inprogress" => attempt' = attempt
  BY <1>1, <1>3 DEF CronList, CronLoad, CronHandle, Tick, RowInProgress
<1>5. QED
  BY <1>1, <1>2, <1>3, <1>4, RowAlone

\* The server's page, more exactly: unless it only reads, it answers with a page that is not the
\* attempt's, or with the attempt's as the row stands, or it redirects, and to
\* the attempt's page only what asked to start.
LEMMA ServedPrecisely ==
    ASSUME QuizInv, NEW r \in sent, Serve(r), ~ReadPage(r)
    PROVE  \/ \E page : /\ Answers(r, page)
                        /\ page.kind # "none"
                        /\ page.kind = "attempt" =>
                              /\ attempt' = attempt /\ r.kind = "attempt"
                              /\ attempt.state = "inprogress"
                              /\ page.steps = attempt.steps
           \/ \E kind : /\ Redirects(r, kind)
                        /\ kind \in {"start", "attempt"} => r.kind = "start"
<1>1. attempt \in Attempt /\ attempt.state \in State
  BY DEF QuizInv, QuizTypeOK, Attempt
<1>2. Bare("closed").kind = "closed" /\ Bare("refused").kind = "refused"
  BY DEF Bare, NoPage
<1>3. CASE WriteStart(r)
  <2> DEFINE new == HandleIfTimeExpired(session.row, session.time)
  <2>1. r.kind = "start"
    BY <1>3 DEF WriteStart, Writing
  <2>2. IF Fails(session.row, new) THEN Answers(r, Bare("refused"))
        ELSE IF IsFinished(new) THEN Answers(r, Bare("closed"))
        ELSE Redirects(r, IF new.state = "overdue" THEN "summary" ELSE "attempt")
    BY <1>3 DEF WriteStart
  <2> HIDE DEF new
  <2>3. \/ Answers(r, Bare("refused")) \/ Answers(r, Bare("closed"))
        \/ Redirects(r, "summary") \/ Redirects(r, "attempt")
    BY <2>2
  <2>4. QED
    BY <1>2, <2>1, <2>3
<1>4. CASE ServeAttempt(r)
  <2> DEFINE form == [kind |-> "attempt",
                      answer |-> attempt.answer, base |-> attempt.answer,
                      steps |-> attempt.steps, endtime |-> TimeLeft(attempt),
                      timeup |-> FALSE, submitted |-> FALSE]
  <2>1. form.kind = "attempt" /\ form.steps = attempt.steps
    OBVIOUS
  <2>2. /\ r.kind = "attempt" /\ attempt' = attempt
        /\ CASE IsFinished(attempt) -> Answers(r, Bare("closed"))
             [] attempt.state = "overdue" -> Redirects(r, "summary")
             [] attempt.state = "inprogress" -> Answers(r, form)
    BY <1>4 DEF ServeAttempt
  <2> HIDE DEF form
  <2>3. \/ Redirects(r, "summary") \/ Answers(r, Bare("closed"))
        \/ attempt.state = "inprogress" /\ Answers(r, form)
    BY <1>1, <2>2 DEF State, IsFinished
  <2>4. QED
    BY <1>2, <2>1, <2>2, <2>3
<1>5. CASE WriteSummary(r)
  <2> DEFINE new == HandleIfTimeExpired(session.row, now)
             summary == [Bare("summary") EXCEPT !.endtime = TimeLeft(new)]
  <2>1. summary.kind = "summary"
    BY DEF Bare, NoPage
  <2>2. Answers(r, IF Fails(session.row, new) THEN Bare("refused")
                   ELSE IF IsFinished(new) THEN Bare("closed") ELSE summary)
    BY <1>5 DEF WriteSummary
  <2> HIDE DEF new, summary
  <2>3. QED
    BY <1>2, <2>1, <2>2
<1>6. CASE NoStart(r) \/ ServePost(r)
  BY <1>2, <1>6 DEF NoStart, ServePost, RefusePost, FailPost, SavePost, FinishPost
<1>7. QED
  BY <1>3, <1>4, <1>5, <1>6 DEF Serve


\* The server serves one request: while a form of the attempt is about, that is
\* its own, and it is gone afterwards.
LEMMA ServeAlone ==
    ASSUME PatientInv, ~hasty, NEW r \in sent, Serve(r)
    PROVE  OneAtATime'
<1>1. /\ QuizInv /\ OneAtATime /\ coming \in [Tab -> Page]
      /\ \A s \in sent : s \in Request /\ s.tab \in Tab
  BY DEF PatientInv, Patience, QuizInv, QuizTypeOK, Request
<1>2. ASSUME NEW u \in Tab, tab[u].kind = "attempt"
      PROVE  /\ Clear(u) /\ tab[u].endtime = Never
             /\ sent = {r} /\ r.tab = u /\ latest[u] = r.no
  <2>1. Clear(u) /\ (Idle(u) \/ Waiting(u))
    BY <1>1, <1>2 DEF OneAtATime, ShownAlone
  <2>2. Waiting(u) /\ OnlyRequest(u)
    BY <2>1 DEF Idle, Waiting
  <2>3. QED
    BY <2>1, <2>2 DEF Waiting, OnlyRequest
<1>3. ASSUME NEW s \in sent, s.form = "attempt" PROVE s = r
  BY <1>1, <1>2, <1>3 DEF OneAtATime, PostedCurrent
<1>4. ASSUME NEW s \in sent, latest[s.tab] = s.no, s.kind \in {"start", "attempt"}
      PROVE  s = r
  BY <1>1, <1>4 DEF OneAtATime, AskedAlone
<1>5. \A u \in Tab : coming[u].kind # "attempt"
  BY <1>1 DEF OneAtATime, ComingAlone
<1>6. CASE \E page : /\ Answers(r, page)
                     /\ page.kind # "none"
                     /\ page.kind = "attempt" =>
                           /\ attempt' = attempt /\ r.kind = "attempt"
                           /\ attempt.state = "inprogress"
                           /\ page.steps = attempt.steps
  <2>1. PICK page : /\ Answers(r, page)
                    /\ page.kind # "none"
                    /\ page.kind = "attempt" =>
                          /\ attempt' = attempt /\ r.kind = "attempt"
                          /\ attempt.state = "inprogress"
                          /\ page.steps = attempt.steps
    BY <1>6
  <2>2. /\ sent' = sent \ {r}
        /\ coming' = IF latest[r.tab] = r.no THEN [coming EXCEPT ![r.tab] = page] ELSE coming
        /\ UNCHANGED <<now, tab, latest>>
    BY <2>1 DEF Answers
  <2>3. /\ \A u \in Tab : u # r.tab => coming'[u] = coming[u]
        /\ latest[r.tab] = r.no => coming'[r.tab] = page
        /\ latest[r.tab] # r.no => coming' = coming
    BY <1>1, <2>2
  <2>4. Clear(r.tab) => Clear(r.tab)'
    BY <2>2, <2>3 DEF Clear, OnScreen
  <2>5. page # NoPage
    BY <2>1 DEF NoPage
  <2>6. ComingAlone'
    <3>1. SUFFICES ASSUME NEW u \in Tab, coming'[u].kind = "attempt"
                   PROVE  sent' = {} /\ Clear(u)' /\ Current(coming[u])'
      BY DEF ComingAlone
    <3>2. u = r.tab /\ latest[r.tab] = r.no /\ coming'[u] = page
      BY <1>5, <2>3, <3>1
    <3>3. attempt' = attempt /\ r.kind = "attempt" /\ attempt.state = "inprogress"
          /\ coming'[u].steps = attempt.steps
      BY <2>1, <3>1, <3>2
    <3>4. sent = {r} /\ Clear(r.tab)
      BY <1>1, <3>2, <3>3 DEF OneAtATime, AskedAlone
    <3>5. Current(coming[u])'
      BY <3>3 DEF Current
    <3>6. QED
      BY <2>2, <2>4, <3>2, <3>4, <3>5
  <2>7. ShownAlone'
    <3>1. SUFFICES ASSUME NEW u \in Tab, tab[u].kind = "attempt"
                   PROVE  Clear(u)' /\ Waiting(u)'
      BY <2>2 DEF ShownAlone
    <3>2. /\ Clear(u) /\ tab[u].endtime = Never
          /\ sent = {r} /\ r.tab = u /\ latest[u] = r.no
      BY <1>2, <3>1
    <3>3. sent' = {} /\ coming'[u] # NoPage
      BY <2>2, <2>3, <2>5, <3>2
    <3>4. QED
      BY <2>2, <2>4, <3>2, <3>3 DEF Waiting
  <2>8. PostedCurrent'
    BY <1>3, <2>2 DEF PostedCurrent
  <2>9. AskedAlone'
    BY <1>4, <2>2 DEF AskedAlone
  <2>10. QED
    BY <2>6, <2>7, <2>8, <2>9 DEF OneAtATime
<1>7. CASE \E kind : /\ Redirects(r, kind)
                     /\ kind \in {"start", "attempt"} => r.kind = "start"
  <2>1. PICK kind : /\ Redirects(r, kind)
                    /\ kind \in {"start", "attempt"} => r.kind = "start"
    BY <1>7
  <2> DEFINE next == [NoRequest EXCEPT !.tab = r.tab, !.no = r.no, !.kind = kind]
  <2>2. /\ sent' = (sent \ {r}) \cup (IF latest[r.tab] = r.no THEN {next} ELSE {})
        /\ UNCHANGED <<now, coming, tab, latest>>
    BY <2>1 DEF Redirects
  <2>3. next.tab = r.tab /\ next.no = r.no /\ next.kind = kind /\ next.form = "none"
    BY NoFacts DEF NoRequest
  <2> HIDE DEF next
  <2>4. \A u \in Tab : Clear(u) => Clear(u)'
    BY <2>2 DEF Clear, OnScreen
  <2>5. ComingAlone'
    BY <1>5, <2>2 DEF ComingAlone
  <2>6. ShownAlone'
    <3>1. SUFFICES ASSUME NEW u \in Tab, tab[u].kind = "attempt"
                   PROVE  Clear(u)' /\ Waiting(u)'
      BY <2>2 DEF ShownAlone
    <3>2. /\ Clear(u) /\ tab[u].endtime = Never
          /\ sent = {r} /\ r.tab = u /\ latest[u] = r.no
      BY <1>2, <3>1
    <3>3. coming[u] = NoPage
      <4>1. Idle(u) \/ Waiting(u)
        BY <1>1, <3>1 DEF OneAtATime, ShownAlone
      <4>2. QED
        BY <4>1 DEF Idle, Waiting, OnlyRequest
    <3>4. sent' = {next}
      BY <2>2, <3>2
    <3>5. OnlyRequest(u)'
      BY <2>2, <2>3, <3>2, <3>3, <3>4 DEF OnlyRequest
    <3>6. QED
      BY <2>2, <2>4, <3>2, <3>5 DEF Waiting
  <2>7. PostedCurrent'
    <3>1. \A s \in sent' : s.form # "attempt"
      BY <1>3, <2>2, <2>3
    <3>2. QED
      BY <3>1 DEF PostedCurrent
  <2>8. AskedAlone'
    <3>1. SUFFICES ASSUME NEW s \in sent', latest[s.tab] = s.no, s.kind \in {"start", "attempt"}
                   PROVE  sent' = {s} /\ Clear(s.tab)' /\ coming[s.tab] = NoPage
      BY <2>2 DEF AskedAlone
    <3>2. s = next /\ latest[r.tab] = r.no
      BY <1>4, <2>2, <3>1
    <3>3. r.kind = "start"
      BY <2>1, <2>3, <3>1, <3>2
    <3>4. sent = {r} /\ Clear(r.tab) /\ coming[r.tab] = NoPage
      BY <1>1, <3>2, <3>3 DEF OneAtATime, AskedAlone
    <3>5. QED
      BY <1>1, <2>2, <2>3, <2>4, <3>2, <3>4
  <2>9. QED
    BY <2>5, <2>6, <2>7, <2>8 DEF OneAtATime
<1>8. CASE ReadPage(r)
  BY <1>1, <1>8, RowAlone DEF ReadPage, InTime
<1>9. QED
  BY <1>1, <1>6, <1>7, <1>8, ServedPrecisely

\* Requests keep their numbers.
LEMMA NumberedStep ==
    ASSUME QuizInv, Numbered, QuizNext
    PROVE  Numbered'
<1>1. QuizTypeOK /\ \A r \in sent : r \in Request
  BY DEF QuizInv, QuizTypeOK
<1>2. ASSUME sent' \subseteq sent, reqs' = reqs PROVE Numbered'
  BY <1>2 DEF Numbered
<1>3. ASSUME NEW t \in Tab, NEW kind, NEW form, Ask(t, kind, form) PROVE Numbered'
  BY <1>1, <1>3, AskAdds
<1>4. ASSUME NEW r \in sent, Serve(r) PROVE Numbered'
  <2>1. CASE \E page : Answers(r, page)
    BY <1>2, <2>1 DEF Answers
  <2>2. CASE \E kind : Redirects(r, kind)
    <3>1. PICK kind : Redirects(r, kind)
      BY <2>2
    <3> DEFINE next == [NoRequest EXCEPT !.tab = r.tab, !.no = r.no, !.kind = kind]
    <3>2. next.no = r.no
      BY DEF NoRequest
    <3>3. sent' \subseteq sent \cup {next} /\ reqs' = reqs
      BY <3>1 DEF Redirects
    <3> HIDE DEF next
    <3>4. QED
      BY <3>2, <3>3 DEF Numbered
  <2>3. CASE ReadPage(r)
    BY <1>2, <2>3 DEF ReadPage
  <2>4. QED
    BY <1>4, <2>1, <2>2, <2>3, ServedPage
<1>5. QED
  BY <1>2, <1>3, <1>4
     DEF QuizNext, Browser, Open, Load, Edit, Submit, Finish, TimerFires, Lose,
         CronList, CronLoad, CronHandle, Tick

\* Haste is never taken back.
LEMMA HasteStays ==
    ASSUME hasty, hasty \in BOOLEAN, QuizInv, QuizNext
    PROVE  hasty'
<1>1. ASSUME NEW r \in sent, Serve(r) PROVE hasty'
  BY <1>1, ServeLeaves
<1>2. QED
  BY <1>1 DEF QuizNext, Browser, Open, Load, Edit, Submit, Finish, TimerFires, Lose,
              CronList, CronLoad, CronHandle, Tick

\* Every step keeps the patient student's invariant.
LEMMA PatientStep ==
    ASSUME PatientInv, QuizNext
    PROVE  PatientInv'
<1>1. QuizInv /\ Timely /\ Numbered /\ (hasty \/ OneAtATime) /\ hasty \in BOOLEAN
  BY DEF PatientInv, Patience, QuizInv, QuizTypeOK
<1>2. QuizInv' /\ Timely' /\ Numbered'
  BY <1>1, QuizStep, TimelyStep, NumberedStep
<1>3. ASSUME ~hasty' PROVE OneAtATime'
  <2>1. ~hasty
    BY <1>1, <1>3, HasteStays
  <2>2. CASE \E t \in Tab : Browser(t)
    BY <1>3, <2>1, <2>2, PatientOpens, PatientSubmits, TimerAlone, LoadAlone, EditAlone
       DEF Browser
  <2>3. CASE \E r \in sent : Serve(r) \/ Lose(r)
    BY <2>1, <2>3, ServeAlone, LoseAlone
  <2>4. CASE CronList \/ CronLoad \/ CronHandle \/ Tick
    BY <2>1, <2>4, CronAlone
  <2>5. QED
    BY <2>2, <2>3, <2>4 DEF QuizNext
<1>4. QED
  BY <1>2, <1>3 DEF PatientInv, Patience

\* It holds when the attempt starts: its one request is for the questions.
LEMMA PatientStart ==
    ASSUME QuizInit
    PROVE  PatientInv
<1>1. QuizInv
  BY QuizStart
<1>2. /\ sent = {NoRequest} /\ reqs = 0 /\ Home \in Tab
      /\ \A u \in Tab : coming[u] = NoPage /\ tab[u] = NoPage
      /\ attempt.check = TimeClose /\ ~attempt.done
      /\ cron.stage = "idle" /\ ~session.busy
  BY QuizAssumption, NoFacts DEF QuizInit
<1>3. NoRequest.no = 0 /\ NoRequest.form = "none" /\ NoRequest.tab = Home
  BY DEF NoRequest
<1>4. \A u \in Tab : ~OnScreen(u)
  BY <1>2, PageFacts DEF OnScreen
<1>5. Timely /\ Numbered
  BY <1>2, <1>3 DEF Timely, RowInProgress, CronInTime, HeldInTime, Numbered
<1>6. OneAtATime
  BY <1>2, <1>3, <1>4, PageFacts
     DEF OneAtATime, ComingAlone, ShownAlone, PostedCurrent, AskedAlone, Clear
<1>7. QED
  BY <1>1, <1>5, <1>6 DEF PatientInv, Patience

\* The form of a patient student is saved while the server takes it.
LEMMA PatientSaved ==
    ASSUME PatientInv, ~hasty, InTime, NEW r \in sent, r.form = "attempt", ServePost(r)
    PROVE  attempt'.answer = r.answer
<1>1. QuizInv /\ attempt \in Attempt /\ r \in Request /\ now \in Nat /\ now \in Moment
  BY ConstantFacts DEF PatientInv, QuizInv, QuizTypeOK
<1>2. /\ r.steps = attempt.steps /\ attempt.state = "inprogress" /\ ~attempt.done
      /\ session.busy => attempt = session.row
  BY DEF PatientInv, Patience, OneAtATime, PostedCurrent, Current, Timely,
         RowInProgress, HeldInTime
\* A page that reads the attempt now, or did before, processes the form.
<1>3. ASSUME NEW p, p.time \in Nat, p.time <= now
      PROVE  Processes(p)
  BY <1>1, <1>3, ConstantFacts DEF InTime, Processes, TooLate, BecomingAbandoned
<1>4. ~RefusePost(r)
  <2>1. Reading(r).time = now /\ Reading(r).row = attempt /\ Reading(r).req = r
    BY DEF Reading
  <2>2. ~Refused(Reading(r))
    BY <1>1, <1>2, <2>1 DEF Refused, IsFinished, Closed, InSequence
  <2>3. QED
    BY <2>2 DEF RefusePost
<1>5. /\ session.busy /\ session.req = r /\ attempt = session.row
      /\ ~Fails(session.row, Processed(session))
      /\ attempt' = Updated(session.row, Processed(session))
  BY <1>2, <1>4 DEF ServePost, FailPost, SavePost, FinishPost, Writing, Fails
<1>6. Processed(session).answer = r.answer
  <2>1. Processes(session)
    <3>1. session.time \in Nat /\ session.time <= now
      BY <1>1, <1>5, HeldFacts, ConstantFacts DEF QuizInv, SessionRead, Moment
    <3>2. QED
      BY <1>3, <3>1
  <2> DEFINE saved == Saved(attempt, r)
  <2>2. saved \in Attempt /\ saved.answer = r.answer
    <3>1. saved \in Attempt
      BY <1>1, SavedFollows DEF Follows
    <3>2. saved.answer = r.answer
      BY <1>1, <1>2 DEF Saved, Attempt
    <3>3. QED
      BY <3>1, <3>2
  <2>3. Processed(session) \in {ProcessAbandon(saved), ProcessFinish(saved),
                               ProcessGoingOverdue(saved, session.time), saved}
    BY <1>5, <2>1 DEF Processed
  <2>4. session.time \in Moment
    BY <1>1, <1>5, HeldFacts
  <2> HIDE DEF saved
  <2>5. QED
    BY <2>2, <2>3, <2>4, MethodsFollow
<1>7. CASE attempt' = Moved(attempt, Processed(session).state, Processed(session).check)
           /\ Processed(session).answer = attempt.answer
  BY <1>1, <1>6, <1>7 DEF Moved, Attempt
<1>8. CASE attempt' = Processed(session)
  BY <1>6, <1>8
<1>9. QED
  BY <1>5, <1>7, <1>8 DEF Updated, Moved

\* A student who waits for each page and works in one tab loses no answer to
\* the clock, whatever the limits and the grace are, however many pages he or
\* she asks for, and whatever cron does.
THEOREM PatienceIsRewarded == QuizSpec => PatientIsNeverRefused
<1>1. PatientInv /\ UNCHANGED quizVars => PatientInv'
  <2> SUFFICES ASSUME PatientInv, UNCHANGED quizVars
               PROVE  PatientInv'
    OBVIOUS
  <2>1. QuizInv'
    BY QuizStutters DEF PatientInv
  <2>2. Timely' /\ Numbered'
    BY DEF PatientInv, Patience, Timely, RowInProgress, CronInTime, HeldInTime, Numbered,
           InTime, quizVars
  <2>3. OneAtATime => OneAtATime'
    BY RowAlone DEF quizVars, InTime
  <2>4. QED
    BY <2>1, <2>2, <2>3 DEF PatientInv, Patience, quizVars
<1>2. PatientInv /\ [QuizNext]_quizVars =>
         [\A r \in sent : (/\ ServePost(r) /\ r.form = "attempt"
                           /\ ~hasty
                           /\ now < TimeClose + GraceMin)
                          => attempt'.answer = r.answer]_quizVars
  BY PatientSaved DEF InTime
<1>3. QED
  BY <1>1, <1>2, PatientStart, PatientStep, PTL DEF QuizSpec, PatientIsNeverRefused


----------------------------------------------------------------------------
(* The attempt, page by page and row by row, is that of AttemptContract.    *)

\* Where the teacher's choice lets an attempt in progress get
Reach == {"inprogress"} \cup Contract!Ends[handling]

\* There the attempt stands, and the rows that a page or cron has read of it; and
\* it was never finished without its question.
Chosen ==
    /\ attempt.state \in Reach
    /\ attempt.state = "finished" => attempt.done
    /\ session.busy => session.row.state \in Reach
    /\ cron.stage # "idle" => cron.row.state \in Reach

\* What may be written of a row that was read before
Made(held, new) ==
    /\ Follows(held, new)
    /\ new.state \in Reach
    /\ new.state = "finished" => new.done
    /\ new.done /\ ~held.done => new.state = "finished"
    /\ new.answer # held.answer => ~held.done /\ new.state # "abandoned"

\* The choices, one by one.
LEMMA EndsFacts ==
    /\ Contract!Ends["autosubmit"] = {"finished"}
    /\ Contract!Ends["graceperiod"] = {"overdue", "finished", "abandoned"}
    /\ Contract!Ends["autoabandon"] = {"finished", "abandoned"}
    /\ DOMAIN Contract!Ends = Handling
BY DEF Contract!Ends, Handling

\* What the methods make of the state and the question.
LEMMA MethodsEnd ==
    ASSUME NEW row \in Attempt, NEW time \in Moment
    PROVE  /\ ProcessFinish(row).state = "finished" /\ ProcessFinish(row).done
           /\ ProcessGoingOverdue(row, time).state = "overdue"
           /\ ProcessGoingOverdue(row, time).done = row.done
           /\ ProcessAbandon(row).state = "abandoned"
           /\ ProcessAbandon(row).done = row.done
<1>1. ProcessFinish(row).state = "finished" /\ ProcessFinish(row).done
  BY DEF ProcessFinish, Attempt
<1>2. /\ ProcessGoingOverdue(row, time).state = "overdue"
      /\ ProcessAbandon(row).state = "abandoned"
  BY DEF ProcessGoingOverdue, ProcessAbandon, Attempt
<1>3. ProcessGoingOverdue(row, time).done = row.done
  BY DEF ProcessGoingOverdue, Attempt
<1>4. ProcessAbandon(row).done = row.done
  BY DEF ProcessAbandon, Attempt
<1>5. QED
  BY <1>1, <1>2, <1>3, <1>4

\* handle_if_time_expired leaves the state alone, or makes what may be written.
LEMMA HandleMakes ==
    ASSUME handling \in Handling, NEW held \in Attempt, NEW time \in Moment,
           held.state \in Reach,
           HandleIfTimeExpired(held, time).state # held.state
    PROVE  Made(held, HandleIfTimeExpired(held, time))
<1> DEFINE new == HandleIfTimeExpired(held, time)
<1>1. Follows(held, new) /\ new.answer = held.answer
  BY HandleFollows
<1>2. \A at \in Moment : [held EXCEPT !.check = at].state = held.state
  BY DEF Attempt
<1>3. CASE time < TimeClose
  <2>1. new = [held EXCEPT !.check = TimeClose]
    BY <1>3, ConstantFacts DEF HandleIfTimeExpired, Moment
  <2>2. QED
    BY <1>2, <2>1, ConstantFacts
<1>4. CASE time >= TimeClose /\ held.state = "overdue"
  <2>1. handling = "graceperiod"
    BY <1>4, EndsFacts DEF Handling, Reach
  <2>2. new = ProcessAbandon(held) \/ new = [held EXCEPT !.check = TimeClose + GracePeriod]
    BY <1>4, ConstantFacts DEF HandleIfTimeExpired, Moment, Closed
  <2>3. [held EXCEPT !.check = TimeClose + GracePeriod].state = held.state
    BY <1>2, ConstantFacts
  <2>4. new = ProcessAbandon(held)
    BY <2>2, <2>3
  <2>5. QED
    BY <1>1, <2>1, <2>4, MethodsEnd, EndsFacts DEF Made, Reach
<1>5. CASE time >= TimeClose /\ held.state \in Closed
  BY <1>5, HandleFollows DEF IsFinished
<1>6. CASE time >= TimeClose /\ held.state = "inprogress"
  <2>1. /\ ~(time < TimeClose)
        /\ ~(time >= TimeClose /\ held.state = "overdue")
        /\ ~(time >= TimeClose /\ held.state \in Closed)
    BY <1>6, ConstantFacts DEF Moment, Closed
  <2>2. new = CASE handling = "autosubmit" -> ProcessFinish(held)
                [] handling = "graceperiod" -> ProcessGoingOverdue(held, time)
                [] handling = "autoabandon" -> ProcessAbandon(held)
    BY <1>6, <2>1, Zenon DEF HandleIfTimeExpired
  <2>3. \/ handling = "autosubmit" /\ new = ProcessFinish(held)
        \/ handling = "graceperiod" /\ new = ProcessGoingOverdue(held, time)
        \/ handling = "autoabandon" /\ new = ProcessAbandon(held)
    BY <2>2 DEF Handling
  <2> HIDE DEF new
  <2>4. Made(held, new)
    BY <1>1, <2>3, MethodsEnd, EndsFacts DEF Made, Reach
  <2>5. QED
    BY <2>4 DEF new
<1>7. QED
  BY <1>3, <1>4, <1>5, <1>6, ConstantFacts DEF State, Moment, Attempt

\* So does processattempt.php, of an attempt that it found open.
LEMMA PostMakes ==
    ASSUME handling \in Handling,
           NEW p, p.row \in Attempt, p.req \in Request, p.time \in Moment,
           p.row.state \in Reach, ~IsFinished(p.row)
    PROVE  Made(p.row, Processed(p))
<1> DEFINE saved == IF Processes(p) THEN Saved(p.row, p.req) ELSE p.row
           new == Processed(p)
<1>1. /\ Follows(p.row, new)
      /\ new.answer # p.row.answer => Processes(p) /\ ~p.row.done
  BY ProcessedFollows
<1>2. saved \in Attempt /\ saved.state = p.row.state
  BY SavedFollows DEF Follows
<1>3. saved.done = p.row.done
  <2>1. Saved(p.row, p.req).done = p.row.done
    BY DEF Saved, Attempt
  <2>2. QED
    BY <2>1
<1>4. new = IF BecomingAbandoned(p) THEN ProcessAbandon(saved)
            ELSE IF FinishAttempt(p) THEN ProcessFinish(saved)
            ELSE IF TooLate(p) \/ BecomingOverdue(p)
                 THEN ProcessGoingOverdue(saved, p.time)
                 ELSE saved
  BY DEF Processed
<1> HIDE DEF saved, new
<1>5. CASE BecomingAbandoned(p)
  <2>1. handling = "graceperiod" /\ ~Processes(p)
    BY <1>5 DEF BecomingAbandoned, Processes
  <2>2. QED
    BY <1>1, <1>2, <1>3, <1>4, <1>5, <2>1, MethodsEnd, EndsFacts DEF Made, Reach, new
<1>6. CASE ~BecomingAbandoned(p) /\ FinishAttempt(p)
  <2>1. new.state = "finished" /\ new.done
    BY <1>2, <1>4, <1>6, MethodsEnd
  <2>2. "finished" \in Reach
    BY EndsFacts DEF Reach, Handling
  <2>3. QED
    BY <1>1, <2>1, <2>2 DEF Made, new
<1>7. CASE ~BecomingAbandoned(p) /\ ~FinishAttempt(p) /\ (TooLate(p) \/ BecomingOverdue(p))
  <2>1. TooLate(p) => TimeUp(p)
    BY ConstantFacts DEF TooLate, TimeUp, Moment
  <2>2. handling = "graceperiod"
    BY <1>7, <2>1 DEF FinishAttempt, BecomingOverdue
  <2>3. new.state = "overdue" /\ new.done = p.row.done
    BY <1>2, <1>3, <1>4, <1>7, MethodsEnd
  <2>4. QED
    BY <1>1, <2>2, <2>3, EndsFacts DEF Made, Reach, new
<1>8. CASE ~BecomingAbandoned(p) /\ ~FinishAttempt(p) /\ ~(TooLate(p) \/ BecomingOverdue(p))
  <2>1. new.state = p.row.state /\ new.done = p.row.done
    BY <1>2, <1>3, <1>4, <1>8
  <2>2. new.state \notin {"finished", "abandoned"}
    BY <2>1 DEF IsFinished, Closed
  <2>3. QED
    BY <1>1, <2>1, <2>2 DEF Made, new
<1>9. QED
  BY <1>5, <1>6, <1>7, <1>8

\* What a writing must do
Meets ==
    /\ [Contract!Next]_(Contract!vars)
    /\ attempt'.state \in Reach
    /\ attempt'.state = "finished" => attempt'.done

\* A row that is written over whatever the attempt is by now is a step of the
\* contract.
LEMMA WriteMeets ==
    ASSUME attempt \in Attempt, Chosen, handling' = handling,
           NEW held \in Attempt, NEW new, Follows(held, attempt), Made(held, new),
           ~Fails(held, new), attempt' = Updated(held, new)
    PROVE  Meets
<1>1. /\ new \in Attempt /\ new.answer \in Answer /\ attempt.answer \in Answer
      /\ attempt.done \in BOOLEAN /\ new.done \in BOOLEAN
  BY DEF Made, Follows, Attempt
<1>2. CASE new.steps = held.steps /\ new.answer = held.answer
  <2>1. attempt' = Moved(attempt, new.state, new.check)
    BY <1>2 DEF Updated, Moved
  <2>2. attempt'.state = new.state /\ attempt'.answer = attempt.answer
    BY <1>1, <2>1 DEF Moved, Attempt
  <2>3. attempt'.done = attempt.done
    BY <2>1 DEF Moved, Attempt
  <2>4. new.state = "finished" => attempt.done
    BY <1>2 DEF Made, Follows
  <2>5. attempt'.done = (attempt.done \/ attempt'.state = "finished")
    BY <1>1, <2>2, <2>3, <2>4
  <2>6. attempt'.state \in Reach /\ (attempt'.state = "finished" => attempt'.done)
    BY <2>2, <2>3, <2>4 DEF Made
  <2>7. Contract!Move
    BY <2>5, <2>6 DEF Contract!Move, Reach
  <2>8. QED
    BY <2>2, <2>6, <2>7 DEF Meets, Contract!Next
<1>3. CASE ~(new.steps = held.steps /\ new.answer = held.answer)
  <2>1. attempt' = new /\ new.steps # held.steps
    BY <1>3 DEF Updated, Made, Follows
  <2>2. attempt.done = held.done /\ attempt.answer = held.answer
    BY <2>1 DEF Fails, Follows
  <2>3. held.done => new.done
    BY DEF Made, Follows
  <2>4. attempt'.done = (attempt.done \/ attempt'.state = "finished")
    BY <1>1, <2>1, <2>2, <2>3 DEF Made
  <2>5. attempt'.state \in Reach /\ (attempt'.state = "finished" => attempt'.done)
    BY <2>1 DEF Made
  <2>6. Contract!Move
    BY <2>4, <2>5 DEF Contract!Move, Reach
  <2>7. attempt'.answer # attempt.answer => Contract!Take
    BY <1>1, <2>1, <2>2 DEF Made, Contract!Take
  <2>8. QED
    BY <2>5, <2>6, <2>7 DEF Meets, Contract!Next
<1>4. QED
  BY <1>2, <1>3

\* Looking after the time is one too, or none.
LEMMA TimelyMeets ==
    ASSUME attempt \in Attempt, Chosen, handling \in Handling, handling' = handling,
           NEW held \in Attempt, Follows(held, attempt), held.state \in Reach,
           NEW time \in Moment,
           attempt' = UpdatedIfTimeExpired(held, HandleIfTimeExpired(held, time))
    PROVE  Meets
<1> DEFINE new == HandleIfTimeExpired(held, time)
<1>1. CASE ~Fails(held, new) /\ new.state # held.state
  BY <1>1, HandleMakes, WriteMeets DEF UpdatedIfTimeExpired
<1>2. CASE Fails(held, new) \/ new.state = held.state
  <2>1. attempt' = attempt \/ attempt' = [attempt EXCEPT !.check = new.check]
    BY <1>2 DEF UpdatedIfTimeExpired
  <2> HIDE DEF new
  <2>2. attempt'.state = attempt.state /\ attempt'.answer = attempt.answer
    BY <2>1 DEF Attempt
  <2>3. attempt'.done = attempt.done
    BY <2>1 DEF Attempt
  <2>4. QED
    BY <2>2, <2>3 DEF Meets, Chosen, Contract!vars
<1>3. QED
  BY <1>1, <1>2

\* Every step is a step of the contract, or none.
LEMMA ContractStep ==
    ASSUME QuizInv, Chosen, QuizNext
    PROVE  Meets /\ handling' = handling
<1>1. attempt \in Attempt /\ handling \in Handling /\ now \in Moment
  BY ConstantFacts DEF QuizInv, QuizTypeOK
<1>2. ASSUME attempt' = attempt, handling' = handling
      PROVE  Meets
  BY <1>2 DEF Meets, Chosen, Contract!vars
<1>3. ASSUME NEW r \in sent, Serve(r)
      PROVE  Meets /\ handling' = handling
  <2>1. handling' = handling
    BY <1>3, ServeLeaves
  <2>2. CASE ServeAttempt(r) \/ NoStart(r) \/ ReadPage(r) \/ RefusePost(r) \/ FailPost(r)
    BY <1>2, <2>1, <2>2 DEF ServeAttempt, NoStart, ReadPage, RefusePost, FailPost
  <2>3. ASSUME session.busy
        PROVE  /\ session.row \in Attempt /\ session.time \in Moment
               /\ session.req \in Request
               /\ Follows(session.row, attempt) /\ session.row.state \in Reach
    BY <2>3, HeldFacts DEF Chosen
  <2>4. CASE WriteStart(r)
    BY <1>1, <2>1, <2>3, <2>4, TimelyMeets DEF WriteStart, Writing
  <2>5. CASE WriteSummary(r)
    BY <1>1, <2>1, <2>3, <2>5, TimelyMeets DEF WriteSummary, Writing
  <2>6. CASE SavePost(r) \/ FinishPost(r)
    <3>1. /\ session.busy /\ session.req.kind = "post"
          /\ ~Fails(session.row, Processed(session))
          /\ attempt' = Updated(session.row, Processed(session))
      BY <2>6 DEF SavePost, FinishPost, Writing
    <3>2. ~IsFinished(session.row)
      BY <3>1, HeldFacts DEF Refused
    <3>3. Made(session.row, Processed(session))
      BY <1>1, <2>3, <3>1, <3>2, PostMakes
    <3>4. QED
      BY <1>1, <2>1, <2>3, <3>1, <3>3, WriteMeets
  <2>7. QED
    BY <1>3, <2>1, <2>2, <2>4, <2>5, <2>6 DEF Serve, ServePost
<1>4. CASE CronHandle
  <2>1. /\ cron.row \in Attempt /\ cron.time \in Moment
        /\ Follows(cron.row, attempt) /\ cron.row.state \in Reach
    BY <1>4 DEF CronHandle, QuizInv, QuizTypeOK, CronRead, Cron, Chosen
  <2>2. /\ attempt' = UpdatedIfTimeExpired(cron.row, HandleIfTimeExpired(cron.row, cron.time))
        /\ handling' = handling
    BY <1>4 DEF CronHandle
  <2>3. QED
    BY <1>1, <2>1, <2>2, TimelyMeets
<1>5. CASE ~(\E r \in sent : Serve(r)) /\ ~CronHandle
  <2>1. attempt' = attempt
    BY <1>5, RowElsewhere
  <2>2. handling' = handling
    BY <1>5 DEF QuizNext, Browser, Open, Load, Edit, Submit, Finish, TimerFires, Lose,
                CronList, CronLoad, Tick
  <2>3. QED
    BY <1>2, <2>1, <2>2
<1>6. QED
  BY <1>3, <1>4, <1>5

\* So the attempt stays where the choice lets it get, and is read there.
LEMMA ChosenStep ==
    ASSUME QuizInv, Chosen, QuizNext
    PROVE  Chosen'
<1>1. /\ handling' = handling
      /\ attempt'.state \in Reach
      /\ attempt'.state = "finished" => attempt'.done
  BY ContractStep DEF Meets
<1>2. Reach' = Reach
  BY <1>1 DEF Reach
<1>3. session' = session \/ ~session'.busy \/ session'.row = attempt
  <2>1. ASSUME NEW r \in sent, Serve(r)
        PROVE  session' = session \/ ~session'.busy \/ session'.row = attempt
    <3>1. CASE ReadPage(r)
      BY <3>1 DEF ReadPage, Reading
    <3>2. CASE ~ReadPage(r)
      BY <2>1, <3>2, ServeSession, NoFacts
    <3>3. QED
      BY <3>1, <3>2
  <2>2. ASSUME NEW r \in sent, Lose(r) PROVE session' = session \/ ~session'.busy
    BY <2>2, NoFacts DEF Lose
  <2>3. QED
    BY <2>1, <2>2 DEF QuizNext, Browser, Open, Load, Edit, Submit, Finish, TimerFires,
                      CronList, CronLoad, CronHandle, Tick
<1>4. \/ cron' = cron \/ cron'.stage = "idle" \/ cron'.row.state = attempt.state
      \/ cron.stage # "idle" /\ cron'.row.state = cron.row.state
  <2>1. ASSUME NEW r \in sent, Serve(r) PROVE cron' = cron
    BY <2>1, ServeLeaves
  <2>2. CASE CronList
    BY <2>2 DEF CronList, NoRow
  <2>3. CASE CronLoad
    <3>1. cron.stage = "listed" /\ attempt \in Attempt /\ cron \in Cron
      BY <2>3 DEF CronLoad, QuizInv, QuizTypeOK
    <3>2. cron'.row.state = cron.row.state
      BY <2>3, <3>1 DEF CronLoad, Cron, Attempt
    <3>3. QED
      BY <3>1, <3>2
  <2>4. CASE CronHandle
    BY <2>4, NoFacts DEF CronHandle
  <2>5. QED
    BY <2>1, <2>2, <2>3, <2>4
       DEF QuizNext, Browser, Open, Load, Edit, Submit, Finish, TimerFires, Lose, Tick
<1>5. QED
  BY <1>1, <1>2, <1>3, <1>4 DEF Chosen

\* The attempt implements the contract: for any deadlines, any number of tabs and
\* requests, and rows that pages and cron have read as long ago as may be, the
\* answer of a finished attempt stays, and no attempt gets into a state that does
\* not go with the teacher's choice.
THEOREM AttemptMeetsContract == QuizSpec => KeepsContract
<1>1. QuizInit => Contract!Init /\ Chosen
  BY EndsFacts, NoFacts DEF QuizInit, Contract!Init, Chosen, Reach
<1>2. QuizInv /\ Chosen /\ [QuizNext]_quizVars => Chosen' /\ [Contract!Next]_(Contract!vars)
  <2>1. CASE UNCHANGED quizVars
    BY <2>1 DEF quizVars, Chosen, Reach, Contract!vars
  <2>2. QED
    BY <2>1, ContractStep, ChosenStep DEF Meets
<1>3. QED
  BY <1>1, <1>2, QuizInvariant, PTL DEF QuizSpec, KeepsContract, Contract!Spec

==========================================================================
