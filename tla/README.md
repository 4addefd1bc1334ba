# Mobile Learning TC: specifications

TLA+ specifications of Mobile Learning TC, an Android client for Moodle (`src/MobileLearningTC`)
and its PHP services (`src/mobile-learning-tc`), and of two parts of the Moodle site that the
repository carries (`src/moodle`): the timed quiz attempt and the user selector. TLC configurations
check them, TLAPS proofs go with them.
Every definition follows the source; `PROJECT.json` maps each one to the lines it stands for.

Contents: the system · the modules · runs, bounds and what they show · fairness · proofs ·
what the code does not keep · what is not modelled · plan.

## 1. The system

### Components, state and operations

| component | state | operations |
|---|---|---|
| XML reader: `RSSHandler`, `RSSFeed`, `RSSItem` | `currentState`, `itemFound`, the feed, the current item | the SAX callbacks; `getFeed` |
| Session: `SessionManager` | shared preferences: login flag, userid, username, fullname | `createLoginSession`, `checkLogin`, `isLoggedIn`, `getUserDetails`, `logoutUser` |
| Splash and intro: `SplashScreenActivity`, `IntroActivity` | a thread per `onCreate` of the splash screen | `onCreate`, the thread, login button, back key |
| Login: `LoginActivity`, `userLoginTask` | `username`, `password`, `authTask` | `onCreate`, `attemptLogin`, `doInBackground`, `onPostExecute` |
| Main screen: `MainActivity`, its menu and fragments | userid read in `onCreate`, content fragment | `onCreate`, back key, log out, switch of fragments |
| Lists: six tabs of `CourseContentActivity`, `CourseFragment`, `SemesterFragment`, `SemesterCourseActivity` | `rssFeed`, `progressDialog`, the list adapter; `courseid` (static in the activity) | `onStart`/`onCreate` start a load; `doInBackground`, `onPostExecute`; `onListItemClick` |
| Detail screens: resource, assignment, profiles | the fields of the last answer, two dialogs | load task, download task |
| Upload: `UploadActivity`, `Uploader` | rows and paths of the current directory, an input stream | `getDirectory`, click, `doUpload` |
| Services: 14 PHP scripts | none; they read Moodle's tables | one query and one document each |
| Timed quiz: `mod/quiz/module.js`, `question/qengine.js`, the pages and classes of `mod/quiz`, cron | the form in each tab, its countdown; the row of the attempt, the steps of its question | countdown, submit, save, finish, going overdue, abandoning |
| User selector: `user/selector/module.js`, the Add button of its pages | list, selection, `lastsearch`, `iotransactions`, `selectionempty` | key, timer, Clear, checkbox, query, answer, failure |
| The rest of Moodle (vendored), its data directory, generated `R.java`, layouts | - | third party or no behaviour |

### How they interact

- Screens start each other with `startActivity`; Android's back stack is the shared state.
  `SessionManager` tries to clear the stack but overwrites the flag that does it
  (`addFlags` then `setFlags`), so that a log out puts the intro on top of what was there.
- A screen calls a service in an `AsyncTask`. `doInBackground` runs in a background thread
  (one thread for the whole app from Android 3.2 on), reads and writes fields of its screen,
  and its result is posted to the main thread whether or not the screen is still there.
- Every XML answer goes through one `RSSHandler`; a caller takes `getFeed()` only if `parse`
  did not throw.
- Splash threads and tasks share the preferences with the main thread.
- A tab of a course asks its service with the `courseid` that its fragment was made with, which
  came from a static field of the activity; the service joins Moodle's tables.
- In Moodle, a quiz page and the server share the number of steps of the question: it comes with the
  form and must be the same when the form is posted. Cron shares the attempt's row with
  the pages: each of them reads it, decides, and later writes it whole; only the pages lock each other out.
- The user selector and the page around it share the selection through one event; its queries share
  `iotransactions`.

### What is hard

Late posts (to a form that was left, a fragment without a view, a destroyed window), fields that two
threads share, the order of answers, a second load of the same list while the first runs, splash threads
that check before they act, crashes that take only a part of the back stack, a handler that has to tell
elements apart by one state variable, a static field that belongs to whichever screen was created last,
a deadline that the browser, the server and cron each watch with a tolerance of their own, rows that are
written whole by whoever read them before, and queries that are aborted but still call back.
`PROJECT.json` lists each hazard at its line, with the properties that cover it or the reason why none
does.

### What makes each component correct

- XML reader: a caller sees the document's header and items, in order, or nothing.
- Login: no session without the name and password of its account, typed together; one task per
  form; the latest attempt wins; a waiting form comes back.
- Screens: the main screen in front shows the session's user, and never stands there without a
  session.
- Lists: while a list loads a dialog keeps the user off it; a quiet list shows the feed that its
  rows open; lists only get newer; dialogs mean that something loads, and go away.
- Downloads: the dialog is there for a download and only then; the file is the resource up to some
  block, whatever several downloads of it do; no task finds its dialog gone.
- Course screens: under the title of a course a tab lists nothing of another one, unless the other
  one's screen was opened on top; the list of courses is complete and names only teachers of the course.
- Quiz: no answer is lost to an older form, nor to the clock if the student waits for his pages; the
  answer of a finished attempt stays; a closed attempt changes its state only by somebody who read it
  while it was open; the attempt gets only where the teacher's choice allows, and is closed in the end.
- User selector: the image tells whether a query runs; the list is that of the last query, or the last
  one failed and the field is marked; the Add button agrees with the selection, which survives the
  answers; the search comes to rest at what was typed.

## 2. The modules

| module | what it is | source |
|---|---|---|
| `Feeds` | the data: fields, records, what a service wrote, its reading by the app | `RSSItem`, `RSSFeed` |
| `FeedContract` | the reader's promise: one step from an answer to a feed | `getFeed` as its callers use it |
| `RSSHandler` | the handler one SAX event at a time, with parser and document as its environment | `util/xml/RSSHandler.java` |
| `RSSHandlerProofs` | theorems about it | |
| `MCRSSHandler` | small documents | |
| `LoginSession` | session, login, splash, intro, main screen, back stack, process death | `mobile/authentication`, `mobile/learningtc` |
| `LoginSessionProofs` | theorems about the session and its tasks | |
| `LoginScreensProofs` | theorems about the screens and the back stack | |
| `MCLoginSession` | two users and an unknown name | |
| `ServiceLists` | the tabs of a course (`Reloads`), or one list that loads once | `CourseContentActivity`, the eight list fragments |
| `ServiceListsProofs` | theorems about it | |
| `ResourceDetail` | a resource's screen: details, downloads, their dialogs, the file | `ResourceDetailActivity` |
| `ResourceDetailProofs` | theorems about it | |
| `MoodleServices` | the services' queries as relations over Moodle's tables | eight scripts of `mobile-learning-tc` |
| `CourseScreens` | screens of courses, the static `courseid`, what their tabs list | `CourseContentActivity`, the fragments' `newInstance` |
| `CourseScreensProofs` | theorems about both | |
| `MCCourseScreens` | eight sites with overlapping ids | |
| `AttemptContract` | what becomes of an attempt: its answer and its state, for each choice of the teacher | `overduehandling` as `attemptlib.php` reads it |
| `QuizAttempt` | an attempt at a timed quiz: tabs, server, cron | `mod/quiz`, `question` |
| `QuizAttemptProofs` | theorems about it | |
| `MCQuizAttempt` | one or two tabs and two answers, in its configurations | |
| `UserSelector` | the selector, YUI's callbacks, the Add button | `user/selector/module.js` |
| `UserSelectorProofs` | theorems about it | |
| `MCUserSelector` | three users, three texts | |

**RSSHandler.** The variables of the handler are the fields of the class; `heap` holds the
`RSSItem` objects, because `itemList` and `item` share them. `startDocument`, `startElement`,
`endElement` and `characters` are operators on those variables; the parser's actions
(`OpenField`, `Chunk`, `Space`, ...) call them as SAX does. `written` records what the service
wrote. A text is a model value; what the handler may do to it, keep the first run and lose the
rest, is `Reading`. An empty element takes the white space behind its end tag, since
`currentState` survives the end tag: `Reading` says so, and the proof shows that this is all
that can happen.

**LoginSession.** Activities have numbers, tasks have numbers. `stack` is the back stack,
`resumed` the activity that gets input. `startActivity` and `finish` take effect on the stack at
once and on the screen later (`Resume`), so that a tap may still reach the old screen.
`onCreate`, `attemptLogin`, the three parts of the login task, the two steps of the splash
thread, the back keys and log out are one action each. `Crash` is an uncaught exception:
the process ends and Android gives up the whole stack or only its top activity. `upset` records
the two events after which the screens may be out of step with the session: a crash took an
activity off the stack (`"lost"`), a splash thread acted on what it had read before a login or
log out (`"stale"`). md5 with salt is abstracted to equality of passwords. In the network's
place, `Answer` gives the account of the name, or `null` after a caught exception.

**ServiceLists.** One fragment is a pair of the activity's generation (rotations so far) and its tab. A
load has a number, a dialog of the same number, the fragment it belongs to and the version of the list
it was sent. `Populate` is the pager at a page: it creates, attaches and starts the neighbours. `Arrive`
is the background store into `rssFeed`, `Post` is `onPostExecute`, `PostFails` the same with `getView()`
null or the dialog's window gone. `ListFragment` keeps its adapter while its view is away, and so does
`list`. Loads take the numbers that follow those in use, so that the highest number on the screen is the
dialog with the input. A rotation while the screen is hidden is modelled as one right after it is shown.

**ResourceDetail.** `Rotate` is what Android makes of `onCreate` and `onCreateDialog`: the download
dialog is "managed", so that the activity drops it when it is destroyed (`managed`), and a rotated
one gets it back on the screen even if the user had put it away. The details dialog is not, and is
lost with its window (`dead`). The copy loop is one `Write` per block; each download has a stream
of its own, and `OpenFile` empties the file for all of them; a stream that writes behind the end
leaves a hole. `EndDownload` is possible at any point, since every exception is caught, and its
post is the same as after a complete copy. `Details` may return `null`, on which `onPostExecute`
throws (`PostFails`).

**MoodleServices and CourseScreens.** A table is a set of records with the columns that the queries
use; a query is a set comprehension with the keys of what it joins, so that the repetitions of an SQL
join without `DISTINCT` are visible. Ids of different tables overlap. `CourseScreens` composes these
relations with the client: `Rows(t, course)` is what tab `t` gets when its fragment asks with
`course`. `Create` and `Rotate` are `onCreate`, which writes the static field; `Populate` is
`getItem`, which reads it; `Restored` is what remains of a fragment that the system creates from its
saved state, since `newInstance` puts the course in a plain field. `Die` is the death of the process
in the background; `Back` may create the screen below anew. `over` is history: the courses of the
screens that were opened on top of a screen. The loads themselves are those of `ServiceLists`.

**QuizAttempt.** A page of the server that may write the attempt is two steps. `ReadPage` is its
beginning: it reads the clock, the row and the steps, and sees whether there is anything to do for it.
`WriteStart`, `WriteSummary`, `SavePost`, `FinishPost` are its end: they write what the methods of
`quiz_attempt` made of the object that was read. What is between them is in `session`, since the pages of a
student lock his session: of his pages only one runs, and one that asks for the session waits. Cron has
no session. It lists rows (`CronList`), comes to one of them later and loads its steps (`CronLoad`), and
writes later again (`CronHandle`). `Updated` is `update_record`, the whole row over whatever is in the
table; `UpdatedIfTimeExpired` is `handle_if_time_expired`, which may also set one column
(`update_timecheckstate`). Steps are added, not overwritten, and their numbers are unique
(`lib/db/install.xml:1419`): who adds one behind somebody else fails, is rolled back, and shows an error
page or a line in cron's log (`Fails`). The conditions of `processattempt.php` have its variables' names
(`TooLate`, `BecomingOverdue`, `BecomingAbandoned`, `FinishAttempt`).

In the browser, `tab` is what is on the screen, `coming` a page that has been answered but not shown;
`latest` tells which answer a tab still waits for. `timer.update` submits the form without the form's
submit handlers, so that `TimerFires` does not set `submitted`. `hasty` records that the student did not
wait for an answer or had the quiz on the screen in two tabs. The browser's clock has the pace of the
server's; second `MaxTime` stands for all later ones.

`AttemptContract` knows neither tabs nor clock, pages nor cron. It says what is left of "closed" when
everybody writes whole rows: an attempt that was ever finished keeps its answer, whatever is written over
its state afterwards; an attempt takes no answer while it is being abandoned; and its state is one that
`overduehandling` allows, so that where open attempts are submitted automatically none is ever abandoned or
overdue. `QuizAttempt` implements it with the row's state, the answer and the question's being graded
(`KeepsContract`).

**UserSelector.** The handlers run one at a time. `posts` are the callbacks that YUI's `io` has queued
by `setTimeout(..., 0)`: an abort makes the ones that wait fail and adds one for the query in flight
(`Aborted`). `delays` counts timers: `cancel_timeout` gives Y.later's object to `clearTimeout`, which
cancels nothing. `shown`, `failed`, `asked` are history. The mark of
a failed search is never taken away: `searchfield.set('class', '')` (`module.js:140`) is the set of an attribute
that YUI's nodes do not have, and writes nothing. What a text matches and what the server
understands of it (it is not URL-encoded) are constants.

Names with a suffix, such as `Post_KeepsTask`, are variants of a definition with a plausible
bug. Nothing uses them; `PROJECT.json` pairs each with the property that notices it.

## 3. Runs

| run | configuration | instance | what it shows |
|---|---|---|---|
| `rss_handler` | `MCRSSHandler.cfg` | 2 items, 3 runs of text or nested elements per document, 2 in one element | the reader's types, items and header, and the refinement of `FeedContract` |
| `login_session` | `MCLoginSession.cfg` | 5 activities, 2 tasks, no crash | results of late answers and of two forms, and the screens |
| `login_live` | `MCLoginLive.cfg` | form opens or crashes (`BOffline`), 3 activities, 1 task, 1 rotation, 2 deaths | no main screen without a session, through crashes, kills and rotation; forms come back, the splash screen leaves |
| `login_form_opens` | `MCLoginFormCrash.cfg` | `BOffline = {FALSE}`, no rotation, 1 death | violation: finding 1 |
| `course_tabs` | `MCCourseTabs.cfg` | 3 tabs, 5 loads, 2 versions, 1 rotation | the tabs' safety properties |
| `load_once` | `MCLoadOnce.cfg` | 1 tab, 2 loads, 1 rotation | dialogs of lists that load in `onCreate` |
| `resource_detail` | `MCResourceDetail.cfg` | 2 blocks, 6 tasks, 1 rotation | the downloads' dialog and file, safety and liveness |
| `lost_dialog` | `MCLostDialog.cfg` | 2 tabs, 4 loads | violation: finding 2 |
| `course_screens` | `MCCourseScreens.cfg` | 2 courses, 3 users, 8 sites, 2 screens at a time | whose rows the tabs show, and the list of courses against the tables |
| `quiz_attempt` | `MCQuizAttempt.cfg` | 2 tabs, 2 answers, 2 requests after the first, seconds 0 to 4 | safety of an attempt, for each way to handle overdue attempts, and the refinement of `AttemptContract` |
| `quiz_closes` | `MCQuizCloses.cfg` | 1 tab, 2 answers, 2 requests after the first, seconds 0 to 5 | each attempt is closed for good in the end |
| `user_selector` | `MCUserSelector.cfg` | 3 users, 2 groups, 3 texts, 5 acts of typing or clicking | agreement of the page, and that the search comes to rest |

**BOffline.** In this code every attempt to open the login screen ends the app (finding 1), so that
nothing behind the form is reachable. `BOffline` is the set of possibilities for the field:
`login_session` has `{TRUE}`, the same code with the missing `findViewById`;
`login_form_opens` has `{FALSE}`, the code as it is; `login_live` covers both.

**Bounds, and why they are enough.** A splash, an intro, two forms and a main screen need five
activities; with two tasks that is an attempt overtaken by another from the same or a second form.
`Collect` gives numbers back, so that behaviours are not cut short after five screens. `FewAlike` in
`MCLoginSession` limits how many screens of one kind are in memory. In `login_live`, three activities
are a main screen, an intro on top of it or beneath it, and a form; a liveness run can have no such
constraint, and one task is enough for a wait. More of them, and a death with two tasks, are covered by
the proof of `MainNeedsSession`. With three tabs the pager detaches one at each end, which is when a tab
loses its view and loads again on its return; with five loads one tab can load three times. Two versions
tell an old list from a new one. On the screen of a resource, six tasks are the details of two
activities and four downloads, two blocks a download that stops half way. Three runs of text cover the
split text, the text behind markup and the white space behind an empty element, in one element or spread
over three. The bounds of the reader, the lists and the downloads matter to TLC only: their theorems
hold for documents of any length and any number of tabs, loads, tasks and rotations. The same holds of
the login's sessions and screens, of the screens of courses, of the quiz and of the selector. Two
screens on each other are what the list allows in one go (two touches before the first screen covers
it), and after them, or a death of the process, the back key and two more touches bring every order of
creations. The eight sites have a user with roles in his own course, in another, in both or in none. In
the quiz, the deadlines tell `TimeClose`, the second before it, each of the two behind it, and later
apart: `MIN_TIME`, `graceperiodmin` and `graceperiod` are one second each, so that each boundary has a
second on both sides; with `TimeClose` 1 in `quiz_attempt` the second before is that of the start, in
`quiz_closes` there is one more. Two requests after the one that shows the attempt, each with the
redirections it causes, are a submission and another from the same or another tab; each of them, and a
run of cron, may lie between the reading and the writing of the other side. More of them are covered by
the proofs, which have no bound. Five acts in the selector are two texts, a Clear, a checkbox and a
return to the first text, so that three queries are aborted one after the other.

**Deadlock** is checked in all login runs. `rss_handler` stops at the end of a document; in the
list runs the loads are used up, or the app has crashed; a quiz stops when the attempt is closed, its
time is over and the requests are used up (in both runs). `course_screens` and `user_selector` never stop.

## 4. Fairness

- `LoginSession!Fairness`: weak fairness of splash threads (each runs), of the main thread's
  queue (`Post \/ PostFails`: posts are handled in order) and of the executor (`RunTask`). The
  code uses `Thread.start` and `AsyncTask.execute` and never blocks the main thread.
- `ServiceLists!FairSpec`, `ResourceDetail!FairSpec`: the queue and the executor again.
- `QuizAttempt!QuizFairness`: time passes, cron runs again (`CronList`), comes to each row that
  it listed (`CronLoad`) and handles it (`CronHandle`; `update_overdue_attempts` catches what one row throws
  and goes on). None for the student, his
  browser or his connection: `AttemptCloses` holds when nobody comes back.
- `UserSelector!SelectorSpec`: `init`, timers and queued callbacks run, as a browser's event loop does;
  a connection ends, with an answer or without (`Answer` also stands for the browser's own timeout:
  the script sets none).
- No fairness for the app's services: `url.openStream()` has no timeout. That each connection ends is a
  premise inside `FormComesBack` and both `DialogsGo`, where a reader sees it. Without it both are
  false, and a hanging connection blocks every later task of the app.

## 5. Proofs

`tlapm` checks every step of the eight modules `*Proofs.tla`.

**RSSHandlerProofs**, from `TextAssumption` and `DocumentAssumption` (text, white space and marks
are distinct; the services use the handler's element names). `IInv` = types, the handler as
constructed before `startDocument`, and while a document is read: `InStep` (where the handler is
follows where the parser is), `Awaiting` (if `currentState` names an element, that element was
just opened and holds nothing yet) and `SoFar` (each field of the record that text goes to is the
reading of what was written, except the awaited one). `ItemsFaithful` alone is not inductive: it
says nothing of the item being read, of white space still to come, nor of the element for which
text is awaited. The theorems are `TypeCorrect`, `ItemsAreFaithful`, `DeliveredItemsStay`,
`HeaderStays` and `HandlerMeetsContract`, the refinement. `DeliveredItemsStay` is in no run: it says of
steps what the run checks of states, as `ItemsFaithful`.

**LoginSessionProofs**, from `DataAssumption` and `BoundsAssumption`. `IInv` = types, `Linked` (a
live task and its form name each other, and the form holds what was typed for it), `Consistent`
(what was asked and answered is about that name), `Queue` (the posts are the answered tasks, each
once) and `SessionIsVerified`. `SessionIsVerified` alone is not inductive: that `onPostExecute`
compares with the right password rests on the guard of `attemptLogin` leaving the fields alone
while a task lives, which is `Linked`. `SessionsAreVerified` and `FormsHaveOneTask` hold for both
values of `Serial`, hence also before Android 3.2, where tasks run in parallel. `LatestWins` needs
`Serial`, and the second invariant `InOrder`: tasks run, answer and are delivered in the order of
the attempts. The screens do not appear in `IInv`: whatever the back stack does, it reaches the
session only through these variables.

**LoginScreensProofs**, from the same assumptions. The properties speak of the activity on top of the
back stack, but `finish` uncovers what is beneath it, so that neither is inductive. `Screens`, beside
`IInv`, speaks of the whole stack by the relation `Over` (one activity is above another): `Known` (no
activity is there twice, all are in use, threads belong to splash screens and tasks to forms),
`MainFresh` (with a session, a main screen that read another one has a main screen above it) and
`IntroAbove` (without a session, and with nothing upset, every main screen has an intro above it).
A login preserves `MainFresh` because `onPostExecute` puts a new main screen on top of all of those
that read the session before. Four lemmas say what `startActivity` and `finish` do to the stack
(`AppendFacts`, `WithoutFacts`) and what `Over` says of its top (`TopFacts`). The theorems are
`TypeCorrect`, `MainIsOfSession` and `NoMainWithoutSession`.

**ServiceListsProofs**, from `ListsAssumption`. `IInv` = types, `Owners` (loads and views belong to
activities that have been, views to the present one), `Fields` (the dialog in a field is of a load
of that fragment), `Queue`, `Covered`, `InView` and `Coming`, with the two properties that hold by
them. `Covered` is the heart: until the user puts a dialog away, each live load has its own dialog
on the screen, or its fragment has one that no post will dismiss, because a second `onStart`
replaced it in the field. So the bug of finding 2 is what keeps the user off a list whose dialog
was dismissed by an earlier load. `Coming` says that a list differs from its feed only while a post
waits. Four theorems need no assumption about the executor: `TypeCorrect`, `SafeWhileUserWaits`,
`RowsOpenTheirItems`, `QuietListsAreCurrent`. With `Serial`, and the invariants `InOrder`, `Behind`
(behind a live load of a destroyed activity waits one of the activity after it) and `Newer`,
`DialogsAreModal` and `ListsOnlyGetNewer` follow. `DialogsAreLoads` is about the lists that load in
`onCreate` (`~Reloads`), by the invariant `Once`: each load is the only one its fragment ever
starts, so that nothing overwrites the field with its dialog. With `Reloads` it is false: finding 2.

**ResourceDetailProofs**, from `DetailAssumption`. `IInv` = types, `Owners`, `Queue`, `Known` (an
activity with a download knows its dialog) and the two properties; the file is another invariant,
`Stream`: the one download that runs is behind the last block of the file. Without `Known`,
`SafeWhileWaiting` is not inductive; without `Stream`, `FileIsPrefix` is not. The theorems are
`TypeCorrect`, `SafeWhileUserWaits`, `DialogIsDownload` and, with `Serial`, `FileHasNoHoles`.

**CourseScreensProofs**, from `ScreensAssumption`: any contents of the tables, any number of screens.
`ScreensInv` = types, `FragmentsKnown` (a fragment's course is its screen's, none, or that of a screen
opened on top), `Nested` (a screen remembers the courses above it, and those above them),
`StaticKnown` (the static field belongs to the screen in front or to one that was on it) and
`FrontAlive`. `TabsShowTheirCourse` alone says nothing of `courseid`, from which the next fragment is
made, nor of screens below the front. `ListIsMine` is about queries only and holds for any
tables; `TabsAreOfTheirCourse` combines both: a fragment without a course asks for id 0, which
no row has.

**QuizAttemptProofs**, from `QuizAssumption`. `QuizInv` = types and `StepsTellTheAnswer`. The latter is
about forms on the screen, pages on their way and requests together, since each becomes the next: that
makes it inductive. `QuizInv` also says of the held copies
that they are in the past: `SessionRead` and `CronRead` (a page or cron holds no more steps than there are,
and with as many it holds the saved answer). Without them a page that writes what it has read could bring
an old answer back under a new number of steps. `Fails` is what makes a write safe: with as many steps as
were read nothing has been answered in between, with more of them nobody adds another. `NoAnswerIsLost` is
why a number of steps is enough of a check. `FinalStates` rests on no page or cron changing the state of a
row that it holds as closed.

`PatienceIsRewarded` (`PatientIsNeverRefused`) needs more: that a form is accepted depends on all that
was done since its page was made. `PatientInv` adds `Timely`: the row of an attempt in progress is not done
and is due for cron at `TimeClose` (`RowInProgress`), cron does not hold it before `graceperiodmin` is over
(`CronInTime`), and the page that holds the session read it in time (`HeldInTime`); `Numbered`; and, until the
student was hasty, `OneAtATime`: the form is alone with the attempt as a page on its way, on the screen, when
posted, and so is the request that asks for it.

`AttemptMeetsContract` is the refinement of `AttemptContract`, by `Chosen`: the row, the page's copy and
cron's copy all stand where the teacher's choice lets an attempt get, and a finished one is done. `Made` says
what any page or cron makes of the copy it holds, and `WriteMeets` that writing such a thing over any row
is a step of the contract; `PostMakes` and `HandleMakes` show that the pages and `handle_if_time_expired`
make only such things. That a finished attempt takes no answer, although a page that read it before may
still write, is again `Fails`: finishing adds a step. All of it holds for any number of tabs, requests and
answers and for any deadlines.

**UserSelectorProofs**, from `SelectorAssumption`. `SelectorInv` = types, `PostsInv` (the callbacks that
wait belong to queries that have not ended, each once, oldest first), `QueriesInv` (the queries that
have not ended are those with a callback and the one in flight, which is the last), `SelectionInv`
(`selectionempty` is what the list box says) and `PageAgrees`. That a list behind a failed query comes
with the mark is in it; that the mark means a failure is not, since the mark stays. `PageAgrees` alone
does not exclude a callback of an aborted query that succeeds and ends last. Both theorems hold for any
users, texts, groups and numbers of acts.

**Model-checked only.** Liveness (`FormComesBack`, `SplashLeaves`, both `DialogsGo`, `AttemptCloses`,
`SearchSettles`), which the prover does not do. Every invariant and action property of a passing run
has a theorem.

## 6. What the code does not keep

1. **The login screen cannot be opened** (`login_form_opens`). `LoginActivity.onCreate` uses
   `bOffline`, which nothing assigns.
2. **A dialog may stay with nothing loading** (`lost_dialog`). A second `onStart` of a course tab
   overwrites the field with the first dialog.

Of Moodle's documented behaviour, while modelling (read in the code; no run is a counterexample):

- `mod/quiz/attemptlib.php:1304`: "Attempt is already in a final state" is asked of the row that cron read
  at the start of its run. An attempt that its student finishes in between is written back as overdue, or
  as abandoned.
- In the other direction, `processattempt.php` asks at line 100 whether the attempt is closed, and writes
  the row that it read before that at the end of the page: an attempt that cron closed in between is
  open again, overdue or finished, unless both had a step to add. `FinalStatesStay` states that there
  is no third way, and `AttemptContract` what the two leave intact: the answer of a finished attempt.
- With overdue handling `autoabandon`, a form that arrives after the end finishes the attempt and has it
  graded, if it comes before cron (`processattempt.php:121` and `:173`), although `lang/en/quiz.php:535` says
  "Attempts must be submitted before time expires, or they are not counted". `AttemptContract` says what the
  code keeps, and so lets any attempt be finished.
- `question/qengine.js:146` says "Prevent the user from repeatedly submitting the form": the countdown
  submits without the guard, so that a click behind it submits again. The second form is refused if the
  first one saved another answer or closed the attempt.
- `user/selector/module.js:274` selects the only user of a group exactly if he is disabled; the option
  says "If only one user matches the search, select them automatically" (`lang/en/moodle.php:1752`),
  and `user/selector/lib.php:535` does so.
- After a failed search the field stays marked for good: `send_query` means to clear the mark with
  `searchfield.set('class', '')` (`module.js:140`), but YUI's node has no attribute `class` and the element
  no property of that name, so that the call does nothing. `ListAgrees` asks for the mark when the last
  query failed; it does not say that a marked list is wrong.
- The search text is not URL-encoded (`module.js:152`): behind `&` the server reads nothing. `Found` is
  therefore about `Received`, and `SearchSettles` about the text that was sent.
- Ticking "search anywhere" while the field is empty, and typing the same text again before the timer
  runs, sends nothing: the list is that of the other setting (`asked`).

Of the services: `userCourse.php` lists a course once per teacher and way of enrolment;
`courseParticipant.php` shows roles of other courses, and nobody whose roles have no name in
`mdl_role_names`; `resourceDetail.php` gives the files of any context whose instance has the module's
number, and the app downloads the last one; `courseForum.php` and `courseQuiz.php` list assignments. A
tab that was created anew asks with the course `null` and stays empty; on a screen that was covered by
another course's, it may list the other course.

Some properties have a condition that names what is not kept otherwise. `MainNeedsSession` excludes
`upset`: a splash thread between its check and its start, and a crash on top of the intro that log
out put there, do bring up a main screen without a session (`MainShowsSession` excludes neither).
`SafeWhileWaiting`, `RowsOpenWhatTheyShow` and `ModalWhileLoading` hold until the user puts a
progress dialog away (all of them are cancelable) and, the first, turns the device: after that a
load that arrives does crash the app, or a row does open another item than the one it shows.
`LatestAttemptWins`, `ListsGetNewer` and `FileIsPrefix` need the serial executor (Android 3.2 and later;
`minSdkVersion` is 8), and so does
`ModalWhileLoading` after a rotation. In `ResourceDetail`, `SafeWhileWaiting` and
`DialogMeansDownload` likewise speak of the time before the user dismisses a dialog or turns the
device: leaving the screen during a download, after its dialog was dismissed, does crash the app
when the download ends, and a rotation brings a dismissed download dialog back with nothing
downloading. A failing request for the details crashes it in any case (`"noContent"`).

## 7. Not modelled

Of the app: the upload (it posts to the server's address with an empty script name, where nothing in the
repository receives a file), the profiles, the details of an assignment, the numbers of the progress
bar, which file of a resource is downloaded (the last row of an answer without an order). Stub screens,
the menu, unused classes, layouts, list widgets, server addresses and superseded services have no
behaviour to check. Dialogs About and Credits, animations and wording are left out of the login screens.

Of the quiz: previews, several attempts and several pages of questions, grades, other access rules,
the question's own behaviours beyond "save an answer" (deferred feedback), failures of the database.
A page reads row and steps in one step, as its transaction's first reads do, and at most one run of cron is
under way; tables without transactions (MyISAM), where a page that fails would leave its first writes, are
left out. Of the selector: the search of each subclass, a list without multiple
selection, a `send()` that throws (its transaction would stay registered for ever), text that is pasted
with the mouse (no key, no search), the group lists of `group/clientlib.js`.

Moodle itself is third party and most of what it brings is not this program: of the repository's
JavaScript, the editor (TinyMCE), jQuery and jQuery Mobile, YUI and their plugins are the greater part
of the lines, many of them packed builds of libraries; they are modelled only where `QuizAttempt` and
`UserSelector` depend on them (`Y.later`, `io`). The map therefore covers a small share of those lines:
it covers the app's own logic and two of Moodle's own scripts with concurrency in them.
`PROJECT.json` gives the reason for each component.

## 8. Plan

Done: `RSSHandler` with its contract; `LoginSession`, `ServiceLists`, `ResourceDetail`,
`MoodleServices` with `CourseScreens`, `QuizAttempt` with its contract, `UserSelector`; proofs for each.

Next, in this order:

1. Several pages of questions in `QuizAttempt`, with the current page as another piece of shared state.
2. Other scripts of Moodle with asynchronous state: the group lists of `group/clientlib.js`, the
   question flags, the chat.
