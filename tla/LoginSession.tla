---------------------------- MODULE LoginSession ----------------------------
(***************************************************************************)
(* How the app gets into a session and out of it: SplashScreenActivity,    *)
(* IntroActivity, LoginActivity with its userLoginTask, MainActivity's     *)
(* log out and back key, and SessionManager, which keeps the session in    *)
(* the shared preferences.                                                 *)
(*                                                                         *)
(* Activities have numbers, given out again by Collect.  startActivity     *)
(* and finish change the back stack at once, but the activity on screen    *)
(* (resumed) keeps receiving taps and keys until the main thread gets to   *)
(* Resume, which runs onCreate of a new one.  A login task runs in the     *)
(* background and its result is posted to the main thread, whether or not  *)
(* its activity still exists; so does the thread of a splash screen.       *)
(*                                                                         *)
(* External: the system's back stack, the executor of AsyncTask, the       *)
(* accounts at the service, process death.                                 *)
(***************************************************************************)
EXTENDS Naturals, SequencesExt, FiniteSets

CONSTANTS Names,          \* what a user may type as a username
          Passwords,      \* and as a password
          Empty,          \* an empty text field
          Accounts,       \* the users of the Moodle site, by their userid
          NoAccount,      \* the service's userid 0: the username is unknown
          AccountOf,      \* the service's lookup: [Names -> account or NoAccount]
          PasswordOf,     \* [Accounts -> Passwords]; the app compares md5 hashes
          Null,           \* Java's null
          BOffline,       \* whether onCreate finds bOffline assigned: {FALSE} in
                          \* this code; TRUE stands for the field assigned
          Forms,          \* the pairs that users type into the form
          Serial,         \* tasks run one at a time (Android 3.2 and later)
          MaxActs,        \* bound: activities in memory
          MaxTasks,       \* bound: login attempts
          MaxRotations,   \* bound: rotations of the screen
          MaxDeaths       \* bound: crashes and kills of the process

ASSUME DataAssumption ==
  /\ Empty \notin Names \cup Passwords
  /\ NoAccount \notin Accounts
  /\ Null \notin Names \cup Passwords \cup Accounts \cup {Empty, NoAccount}
  /\ Null \notin [userid : Accounts, username : Names]
  /\ Forms \subseteq (Names \cup {Empty}) \X (Passwords \cup {Empty})
  /\ AccountOf \in [Names -> Accounts \cup {NoAccount}]
  /\ PasswordOf \in [Accounts -> Passwords]

ASSUME BoundsAssumption ==
  /\ BOffline \subseteq BOOLEAN
  /\ Serial \in BOOLEAN
  /\ MaxActs \in Nat /\ MaxTasks \in Nat
  /\ MaxRotations \in Nat /\ MaxDeaths \in Nat

Acts     == 1..MaxActs
Tasks    == 1..MaxTasks
Sessions == [userid : Accounts, username : Names]

VARIABLES
  prefs,      \* the session in the shared preferences, or Null
  \* the app's activities
  kind,       \* [Acts -> "unused", "splash", "intro", "login" or "main"]
  created,    \* the activities whose onCreate has run in this process
  user,       \* the userid a MainActivity read in onCreate
  username, password, authTask,    \* the fields of a LoginActivity
  threads,    \* [Acts -> Seq]: the threads of a splash screen, each "asleep",
              \* about to start "intro" or "main", or "over"
  \* the system
  stack,      \* the back stack of the app, its top last
  resumed,    \* the activity that gets the user's input, 0 for none
  foreground, \* the app is in front
  alive,      \* its process exists
  posts,      \* the tasks whose result waits for the main thread
  \* login tasks
  stage,      \* [Tasks -> "unused", "queued", "running", "answered" or "over"]
  owner,      \* the activity a task belongs to
  asked,      \* the username it sent
  answer,     \* the service's item: an account, NoAccount, or Null
  \* history and bounds
  typed,      \* the pairs of username and password ever submitted
  author,     \* the latest task that opened a session
  crash,      \* the method in which the app crashed last, or "none"
  upset,      \* what put the screens out of step with the session
  rotations, deaths

fields  == <<username, password, authTask>>
acts    == <<kind, created, user, threads>>
tasks   == <<stage, owner, asked, answer>>
history == <<typed, author, crash, upset, rotations, deaths>>
vars == <<prefs, fields, acts, stack, resumed, foreground, alive, posts, tasks, history>>

Init ==
  /\ \/ prefs = Null /\ typed = {}
     \/ \E n \in Names :          \* a session of an earlier use of the app
          /\ AccountOf[n] # NoAccount
          /\ prefs = [userid |-> AccountOf[n], username |-> n]
          /\ typed = {<<n, PasswordOf[AccountOf[n]]>>}
  /\ kind = [a \in Acts |-> "unused"]
  /\ created = {}
  /\ user = [a \in Acts |-> Null]
  /\ username = [a \in Acts |-> Null]
  /\ password = [a \in Acts |-> Null]
  /\ authTask = [a \in Acts |-> 0]
  /\ threads = [a \in Acts |-> <<>>]
  /\ stack = <<>> /\ resumed = 0 /\ foreground = FALSE /\ alive = FALSE
  /\ posts = <<>>
  /\ stage = [k \in Tasks |-> "unused"]
  /\ owner = [k \in Tasks |-> 0]
  /\ asked = [k \in Tasks |-> Null]
  /\ answer = [k \in Tasks |-> Null]
  /\ author = 0 /\ crash = "none" /\ upset = {}
  /\ rotations = 0 /\ deaths = 0

-----------------------------------------------------------------------------
(* The back stack and the process (external).                              *)

Top == IF stack = <<>> THEN 0 ELSE stack[Len(stack)]

Live(k) == stage[k] \notin {"unused", "over"}

Unused == {a \in Acts : kind[a] = "unused"}

\* The activities that tasks, threads and new splash screens may still start.
Committed ==
    Cardinality({k \in Tasks : Live(k)})
  + Cardinality({t \in Acts \X (1..(MaxRotations + 1)) :
                   t[2] <= Len(threads[t[1]]) /\ threads[t[1]][t[2]] # "over"})
  + Cardinality({a \in Acts \ created : kind[a] = "splash" /\ a \in Range(stack)})

\* The bound MaxActs: the user's actions leave room for what is under way.
Room(n) == Cardinality(Unused) >= Committed + n

\* finish() takes an activity out of the back stack, wherever it is.
Without(s, a) ==
  IF a \in Range(s) THEN RemoveAt(s, CHOOSE i \in DOMAIN s : s[i] = a) ELSE s

\* startActivity, and finish() of the activity done (0 for none).
Start(k, done) ==
  \E a \in Unused :
    /\ \A b \in Unused : a <= b
    /\ kind' = [kind EXCEPT ![a] = k]
    /\ stack' = Without(Append(stack, a), done)
    /\ foreground' = TRUE

\* The process ends with its threads, tasks and objects; the preferences
\* stay, and of the back stack the part called rest.
Die(rest) ==
  /\ deaths < MaxDeaths
  /\ deaths' = deaths + 1
  /\ alive' = FALSE /\ foreground' = FALSE /\ resumed' = 0
  /\ stack' = rest
  /\ created' = {}
  /\ user' = [a \in Acts |-> Null]
  /\ username' = [a \in Acts |-> Null]
  /\ password' = [a \in Acts |-> Null]
  /\ authTask' = [a \in Acts |-> 0]
  /\ threads' = [a \in Acts |-> <<>>]
  /\ posts' = <<>>
  /\ stage' = [k \in Tasks |-> IF Live(k) THEN "over" ELSE stage[k]]
  /\ owner' = [k \in Tasks |-> 0]
  /\ asked' = [k \in Tasks |-> Null]
  /\ answer' = [k \in Tasks |-> Null]
  /\ kind' = [a \in Acts |-> IF a \in Range(rest) THEN kind[a] ELSE "unused"]

\* An uncaught exception.  The system gives up the whole back stack or only
\* its top activity, and the one beneath is created anew.
Crash(where) ==
  /\ crash' = where
  /\ \/ Die(<<>>) /\ UNCHANGED upset
     \/ Len(stack) > 1 /\ Die(Front(stack)) /\ upset' = upset \cup {"lost"}
  /\ UNCHANGED <<prefs, typed, author, rotations>>

\* The system ends the process of an app in the background.
Kill ==
  /\ alive /\ ~foreground
  /\ Die(stack)
  /\ UNCHANGED <<prefs, typed, author, crash, upset, rotations>>

\* The launcher, or the recents: the splash screen begins a new task, a task
\* that exists comes back to the front.
Launch ==
  /\ ~foreground
  /\ alive' = TRUE
  /\ crash' = "none"
  /\ \/ stack = <<>> /\ Room(2) /\ Start("splash", 0)
     \/ stack # <<>> /\ foreground' = TRUE /\ UNCHANGED <<kind, stack>>
  /\ UNCHANGED <<prefs, fields, created, user, threads, resumed, posts, tasks,
                 typed, author, upset, rotations, deaths>>

ToBack == foreground' = FALSE /\ resumed' = 0 /\ UNCHANGED stack

Home ==
  /\ foreground
  /\ ToBack
  /\ UNCHANGED <<prefs, fields, acts, alive, posts, tasks, history>>

\* Memory is short and nothing refers to the activity any more: its number is
\* free again.
Collect(a) ==
  /\ ~Room(2)
  /\ kind[a] # "unused" /\ a # resumed /\ a \notin Range(stack)
  /\ \A k \in Tasks : Live(k) => owner[k] # a
  /\ \A i \in DOMAIN threads[a] : threads[a][i] = "over"
  /\ kind' = [kind EXCEPT ![a] = "unused"]
  /\ created' = created \ {a}
  /\ user' = [user EXCEPT ![a] = Null]
  /\ username' = [username EXCEPT ![a] = Null]
  /\ password' = [password EXCEPT ![a] = Null]
  /\ threads' = [threads EXCEPT ![a] = <<>>]
  /\ UNCHANGED <<prefs, authTask, stack, resumed, foreground, alive, posts, tasks,
                 history>>

-----------------------------------------------------------------------------
(* The activities' onCreate, and the keys and buttons.                     *)

SessionUser_Name == IF prefs = Null THEN Null ELSE prefs.username

SessionUser == IF prefs = Null THEN Null ELSE prefs.userid

IsLoggedIn == prefs # Null

\* The splash screen starts a thread, MainActivity reads the session.
OnCreate(a) ==
  /\ created' = created \cup {a}
  /\ threads' = IF kind[a] = "splash"
                THEN [threads EXCEPT ![a] = Append(@, "asleep")] ELSE threads
  /\ user' = IF kind[a] = "main" THEN [user EXCEPT ![a] = SessionUser] ELSE user

\* The activity on top of the back stack replaces the one on screen.
Resume ==
  /\ foreground /\ resumed # Top
  /\ \/ /\ Top = 0                    \* the last activity has finished
        /\ foreground' = FALSE /\ resumed' = 0
        /\ UNCHANGED <<acts>>
     \/ /\ Top \in created
        /\ resumed' = Top
        /\ UNCHANGED <<foreground, acts>>
     \/ /\ Top \in Acts \ created
        /\ kind[Top] = "login" => TRUE \in BOffline
        /\ resumed' = Top
        /\ OnCreate(Top)
        /\ UNCHANGED <<foreground, kind>>
  /\ UNCHANGED <<prefs, fields, stack, alive, posts, tasks, history>>

\* LoginActivity.onCreate calls bOffline.setOnClickListener, bOffline is null.
ResumeFails ==
  /\ foreground /\ resumed # Top
  /\ Top \in Acts \ created /\ kind[Top] = "login" /\ FALSE \in BOffline
  /\ Crash("onCreate")

\* A splash or main screen is created anew; the others are locked to portrait.
Rotate ==
  /\ rotations < MaxRotations
  /\ resumed # 0 /\ resumed \in Range(stack) /\ kind[resumed] \in {"splash", "main"}
  /\ kind[resumed] = "splash" => Room(1)
  /\ OnCreate(resumed)
  /\ rotations' = rotations + 1
  /\ UNCHANGED <<prefs, fields, kind, stack, resumed, foreground, alive, posts,
                 tasks, typed, author, crash, upset, deaths>>

Back_LeavesIntro ==
  /\ resumed # 0
  /\ IF kind[resumed] = "main" /\ IsLoggedIn
     THEN ToBack
     ELSE stack' = Without(stack, resumed) /\ UNCHANGED <<foreground, resumed>>
  /\ UNCHANGED <<prefs, fields, acts, alive, posts, tasks, history>>

Back_LeavesMain ==
  /\ resumed # 0
  /\ IF kind[resumed] = "intro" /\ ~IsLoggedIn
     THEN ToBack
     ELSE stack' = Without(stack, resumed) /\ UNCHANGED <<foreground, resumed>>
  /\ UNCHANGED <<prefs, fields, acts, alive, posts, tasks, history>>

\* The intro keeps the app open for a user who is not logged in, the main
\* screen for one who is; else, and on the other screens, back finishes.
Back ==
  /\ resumed # 0
  /\ IF \/ kind[resumed] = "intro" /\ ~IsLoggedIn
        \/ kind[resumed] = "main" /\ IsLoggedIn
     THEN ToBack
     ELSE stack' = Without(stack, resumed) /\ UNCHANGED <<foreground, resumed>>
  /\ UNCHANGED <<prefs, fields, acts, alive, posts, tasks, history>>

\* IntroActivity's login button.
TapLogin ==
  /\ resumed # 0 /\ kind[resumed] = "intro" /\ Room(1)
  /\ Start("login", 0)
  /\ UNCHANGED <<prefs, fields, created, user, threads, resumed, alive, posts,
                 tasks, history>>

\* MainActivity's log out: SessionManager.logoutUser.  The flag that should
\* clear the screens above is overwritten by setFlags: IntroActivity is put
\* on top of the stack.
Logout ==
  /\ resumed # 0 /\ kind[resumed] = "main" /\ Room(1)
  /\ prefs' = Null
  /\ Start("intro", 0)
  /\ UNCHANGED <<fields, created, user, threads, resumed, alive, posts, tasks,
                 history>>

-----------------------------------------------------------------------------
(* The thread of the splash screen: checkLogin, then finish.               *)

\* isLoggedIn is read ...
SplashCheck(a, i) ==
  /\ threads[a][i] = "asleep"
  /\ threads' = [threads EXCEPT ![a][i] = IF IsLoggedIn THEN "main" ELSE "intro"]
  /\ UNCHANGED <<prefs, fields, kind, created, user, stack, resumed, foreground,
                 alive, posts, tasks, history>>

SplashStart_NoFinish(a, i) ==
  /\ threads[a][i] \in {"intro", "main"}
  /\ threads' = [threads EXCEPT ![a][i] = "over"]
  /\ Start(threads[a][i], 0)
  /\ upset' = IF (threads[a][i] = "main") = IsLoggedIn THEN upset
              ELSE upset \cup {"stale"}
  /\ UNCHANGED <<prefs, fields, created, user, resumed, alive, posts, tasks,
                 typed, author, crash, rotations, deaths>>

\* ... and what it said is acted upon.
SplashStart(a, i) ==
  /\ threads[a][i] \in {"intro", "main"}
  /\ threads' = [threads EXCEPT ![a][i] = "over"]
  /\ Start(threads[a][i], a)
  /\ upset' = IF (threads[a][i] = "main") = IsLoggedIn THEN upset
              ELSE upset \cup {"stale"}
  /\ UNCHANGED <<prefs, fields, created, user, resumed, alive, posts, tasks,
                 typed, author, crash, rotations, deaths>>

-----------------------------------------------------------------------------
(* LoginActivity and its userLoginTask.                                    *)

AttemptLogin_NoGuard(n, p) ==
  /\ resumed # 0 /\ kind[resumed] = "login"
  /\ username' = [username EXCEPT ![resumed] = n]
  /\ password' = [password EXCEPT ![resumed] = p]
  /\ IF Empty \in {n, p}
     THEN UNCHANGED <<authTask, stage, owner, typed>>
     ELSE \E k \in Tasks :
            /\ Room(1)
            /\ stage[k] = "unused" /\ \A j \in Tasks : j < k => stage[j] # "unused"
            /\ authTask' = [authTask EXCEPT ![resumed] = k]
            /\ stage' = [stage EXCEPT ![k] = "queued"]
            /\ owner' = [owner EXCEPT ![k] = resumed]
            /\ typed' = typed \cup {<<n, p>>}
  /\ UNCHANGED <<prefs, acts, stack, resumed, foreground, alive, posts, asked,
                 answer, author, crash, upset, rotations, deaths>>

\* attemptLogin with n and p in the form.
AttemptLogin(n, p) ==
  /\ resumed # 0 /\ kind[resumed] = "login"
  /\ authTask[resumed] = 0
  /\ username' = [username EXCEPT ![resumed] = n]
  /\ password' = [password EXCEPT ![resumed] = p]
  /\ IF Empty \in {n, p}
     THEN UNCHANGED <<authTask, stage, owner, typed>>
     ELSE \E k \in Tasks :
            /\ Room(1)
            /\ stage[k] = "unused" /\ \A j \in Tasks : j < k => stage[j] # "unused"
            /\ authTask' = [authTask EXCEPT ![resumed] = k]
            /\ stage' = [stage EXCEPT ![k] = "queued"]
            /\ owner' = [owner EXCEPT ![k] = resumed]
            /\ typed' = typed \cup {<<n, p>>}
  /\ UNCHANGED <<prefs, acts, stack, resumed, foreground, alive, posts, asked,
                 answer, author, crash, upset, rotations, deaths>>

RunTask_Pool(k) ==
  /\ stage[k] = "queued"
  /\ stage' = [stage EXCEPT ![k] = "running"]
  /\ asked' = [asked EXCEPT ![k] = username[owner[k]]]
  /\ UNCHANGED <<prefs, fields, acts, stack, resumed, foreground, alive, posts,
                 owner, answer, history>>

\* doInBackground sends the username its activity has now.
RunTask(k) ==
  /\ stage[k] = "queued"
  /\ Serial => \A j \in Tasks : stage[j] # "running" /\ (j < k => stage[j] # "queued")
  /\ stage' = [stage EXCEPT ![k] = "running"]
  /\ asked' = [asked EXCEPT ![k] = username[owner[k]]]
  /\ UNCHANGED <<prefs, fields, acts, stack, resumed, foreground, alive, posts,
                 owner, answer, history>>

\* doInBackground returns the first item of the answer, or null when it has
\* caught an exception; the result is posted to the main thread.
Answer(k) ==
  /\ stage[k] = "running"
  /\ stage' = [stage EXCEPT ![k] = "answered"]
  /\ \/ answer' = [answer EXCEPT ![k] = AccountOf[asked[k]]]
     \/ answer' = [answer EXCEPT ![k] = Null] /\ deaths < MaxDeaths
  /\ posts' = Append(posts, k)
  /\ UNCHANGED <<prefs, fields, acts, stack, resumed, foreground, alive, owner,
                 asked, history>>

\* The answer is a document without items: getItem(0) throws.
AnswerWithoutItem(k) == stage[k] = "running" /\ Crash("doInBackground")

Post_KeepsTask ==
  LET k == Head(posts)
      a == owner[k]
      account == answer[k]
      matches == account # NoAccount /\ PasswordOf[account] = password[a]
  IN
  /\ posts # <<>> /\ answer[k] # Null
  /\ posts' = Tail(posts)
  /\ stage' = [stage EXCEPT ![k] = "over"]
  /\ owner' = [owner EXCEPT ![k] = 0]
  /\ asked' = [asked EXCEPT ![k] = Null]
  /\ answer' = [answer EXCEPT ![k] = Null]
  /\ \/ /\ matches
        /\ prefs' = [userid |-> account, username |-> username[a]]
        /\ author' = k
        /\ Start("main", a)
     \/ /\ ~matches                    \* an error message in the form
        /\ UNCHANGED <<prefs, author, kind, stack, foreground>>
  /\ UNCHANGED <<fields, created, user, threads, resumed, alive,
                 typed, crash, upset, rotations, deaths>>

\* onPostExecute with an item.
Post ==
  LET k == Head(posts)
      a == owner[k]
      account == answer[k]
      matches == account # NoAccount /\ PasswordOf[account] = password[a]
  IN
  /\ posts # <<>> /\ answer[k] # Null
  /\ posts' = Tail(posts)
  /\ stage' = [stage EXCEPT ![k] = "over"]
  /\ owner' = [owner EXCEPT ![k] = 0]
  /\ asked' = [asked EXCEPT ![k] = Null]
  /\ answer' = [answer EXCEPT ![k] = Null]
  /\ authTask' = [authTask EXCEPT ![a] = 0]
  /\ \/ /\ matches
        /\ prefs' = [userid |-> account, username |-> username[a]]
        /\ author' = k
        /\ Start("main", a)
     \/ /\ ~matches                    \* an error message in the form
        /\ UNCHANGED <<prefs, author, kind, stack, foreground>>
  /\ UNCHANGED <<username, password, created, user, threads, resumed, alive,
                 typed, crash, upset, rotations, deaths>>

\* onPostExecute without one: userDetail.getTitle() on null.
PostFails == posts # <<>> /\ answer[Head(posts)] = Null /\ Crash("onPostExecute")

-----------------------------------------------------------------------------
RunSplash == \E a \in Acts : \E i \in DOMAIN threads[a] :
               SplashCheck(a, i) \/ SplashStart(a, i)

Next ==
  \/ Launch \/ Home \/ Kill \/ \E a \in Acts : Collect(a)
  \/ Resume \/ ResumeFails \/ Rotate \/ Back
  \/ TapLogin \/ Logout
  \/ RunSplash
  \/ \E form \in Forms : AttemptLogin(form[1], form[2])
  \/ \E k \in Tasks : RunTask(k) \/ Answer(k) \/ AnswerWithoutItem(k)
  \/ Post \/ PostFails

Spec == Init /\ [][Next]_vars

\* Threads and the main thread's queue are scheduled; nobody promises that
\* the service answers, and a post that crashes ends the wait as well.
Fairness ==
  /\ WF_vars(RunSplash)
  /\ WF_vars(Post \/ PostFails)
  /\ \A k \in Tasks : WF_vars(RunTask(k))

FairSpec == Spec /\ Fairness

-----------------------------------------------------------------------------
(* Properties.                                                             *)

\* Every variable has its type.
TypeOK ==
  /\ prefs \in Sessions \cup {Null}
  /\ kind \in [Acts -> {"unused", "splash", "intro", "login", "main"}]
  /\ created \subseteq Acts
  /\ user \in [Acts -> Accounts \cup {Null}]
  /\ username \in [Acts -> Names \cup {Empty, Null}]
  /\ password \in [Acts -> Passwords \cup {Empty, Null}]
  /\ authTask \in [Acts -> Tasks \cup {0}]
  /\ threads \in [Acts -> Seq({"asleep", "intro", "main", "over"})]
  /\ stack \in Seq(Acts) /\ resumed \in Acts \cup {0}
  /\ foreground \in BOOLEAN /\ alive \in BOOLEAN
  /\ posts \in Seq(Tasks)
  /\ stage \in [Tasks -> {"unused", "queued", "running", "answered", "over"}]
  /\ owner \in [Tasks -> Acts \cup {0}]
  /\ asked \in [Tasks -> Names \cup {Null}]
  /\ answer \in [Tasks -> Accounts \cup {NoAccount, Null}]
  /\ typed \subseteq Names \X Passwords
  /\ author \in Tasks \cup {0}
  /\ crash \in {"none", "onCreate", "doInBackground", "onPostExecute"}
  /\ upset \subseteq {"lost", "stale"}
  /\ rotations \in 0..MaxRotations /\ deaths \in 0..MaxDeaths

\* A session is only ever opened for a username and the password of its
\* account that the user has typed together, and under the name the service
\* was asked for, although doInBackground reads the one field and
\* onPostExecute reads both again when the answer is there.
SessionIsVerified ==
  prefs # Null =>
    /\ AccountOf[prefs.username] = prefs.userid
    /\ <<prefs.username, PasswordOf[prefs.userid]>> \in typed

\* attemptLogin's guard: a form waits for one task at most, the one that
\* authTask names, and no task is under way that its form has forgotten.
OneTaskPerForm ==
  alive => /\ \A k \in Tasks : Live(k) => owner[k] # 0 /\ authTask[owner[k]] = k
           /\ \A a \in Acts : authTask[a] # 0 =>
                Live(authTask[a]) /\ owner[authTask[a]] = a

\* The main screen in front of the user shows the user of the session,
\* through log outs, logins that answer late, several main screens on the stack
\* and splash threads that act on what they had read before.
MainShowsSession ==
  resumed # 0 /\ resumed = Top /\ kind[resumed] = "main" /\ IsLoggedIn
    => user[resumed] = prefs.userid

\* The main screen is not in front without a session, although log out leaves
\* the main screens on the stack; unless a splash thread acted on what it had
\* read before or a crash took the intro off the stack.
MainNeedsSession ==
  resumed # 0 /\ resumed = Top /\ kind[resumed] = "main" /\ upset = {}
    => IsLoggedIn

\* When tasks run one at a time, the session is that of the latest attempt:
\* an earlier one never replaces it.
LatestAttemptWins == [][author' # author => author' > author]_author

\* Opening the login screen never crashes the app.
LoginFormOpens == crash # "onCreate"

\* A form that waits for a login gets its fields back, provided that the
\* connection to the service always ends somehow.
FormComesBack ==
  (\A k \in Tasks : stage[k] = "running" ~> stage[k] # "running")
    => \A a \in Acts : authTask[a] # 0 ~> authTask[a] = 0

\* The splash screen makes way, unless the process ends: its thread starts the
\* next screen and finishes it, rotated or not.
SplashLeaves ==
  \A a \in Acts : threads[a] # <<>> ~> (a \notin Range(stack) \/ ~alive)
=============================================================================
