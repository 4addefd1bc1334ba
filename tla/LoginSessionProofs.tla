------------------------- MODULE LoginSessionProofs -------------------------
(***************************************************************************)
(* For every set of users and every number of activities, tasks, rotations *)
(* and deaths: a session is only opened for a name and a password typed    *)
(* together, a form waits for one task at most, and, when tasks run one at *)
(* a time, the latest attempt wins.                                        *)
(***************************************************************************)
EXTENDS LoginSession, TLAPS

(***************************************************************************)
(* The inductive invariant.  It says nothing of the screens: whatever they *)
(* do, they only reach the session through these variables.                *)
(***************************************************************************)
core == <<created, resumed, prefs, username, password, authTask, posts, stage, owner, asked,
          answer, typed, author>>

Types ==
  /\ username \in [Acts -> Names \cup {Empty, Null}]
  /\ password \in [Acts -> Passwords \cup {Empty, Null}]
  /\ authTask \in [Acts -> Tasks \cup {0}]
  /\ posts \in Seq(Tasks)
  /\ stage \in [Tasks -> {"unused", "queued", "running", "answered", "over"}]
  /\ owner \in [Tasks -> Acts \cup {0}]
  /\ asked \in [Tasks -> Names \cup {Null}]
  /\ answer \in [Tasks -> Accounts \cup {NoAccount, Null}]
  /\ author \in Tasks \cup {0}

\* A live task and its form know each other, and the form still holds what
\* was typed for the task.
Linked ==
  /\ \A k \in Tasks : Live(k) =>
       /\ owner[k] \in Acts
       /\ authTask[owner[k]] = k
       /\ username[owner[k]] \in Names /\ password[owner[k]] \in Passwords
       /\ <<username[owner[k]], password[owner[k]]>> \in typed
  /\ \A a \in Acts : authTask[a] # 0 => Live(authTask[a]) /\ owner[authTask[a]] = a

\* What the service was asked, and said, is about the name the form holds.
Consistent ==
  /\ \A k \in Tasks : stage[k] \in {"running", "answered"} =>
       asked[k] = username[owner[k]]
  /\ \A k \in Tasks : stage[k] = "answered" =>
       answer[k] \in {AccountOf[asked[k]], Null}

\* The queue of the main thread holds the answered tasks, each once.
Queue ==
  /\ \A i \in 1..Len(posts) : stage[posts[i]] = "answered"
  /\ \A k \in Tasks : stage[k] = "answered" => \E i \in 1..Len(posts) : posts[i] = k
  /\ \A i, j \in 1..Len(posts) : posts[i] = posts[j] => i = j

\* Whoever gets the user's input is an activity.
Screen == created \subseteq Acts /\ resumed \in Acts \cup {0}

IInv == Types /\ Screen /\ Linked /\ Consistent /\ Queue /\ SessionIsVerified

\* Tasks run, answer and are delivered in the order of the attempts.
InOrder ==
  /\ \A j, k \in Tasks : j < k /\ stage[k] # "unused" => stage[j] # "unused"
  /\ \A j, k \in Tasks : j < k /\ stage[k] \in {"running", "answered", "over"}
                           => stage[j] \in {"answered", "over"}
  /\ \A i, j \in 1..Len(posts) : i < j => posts[i] < posts[j]
  /\ \A k \in Tasks : stage[k] # "over" => author < k
  /\ author # 0 => stage[author] = "over"

-----------------------------------------------------------------------------
\* The screens alone: TapLogin, Home, the splash threads.
LEMMA SameCore == UNCHANGED core /\ IInv => IInv'
  BY DEF core, IInv, Types, Screen, Linked, Consistent, Queue, SessionIsVerified, Live

\* The end of the process leaves the session, and no task or form behind.
LEMMA DeathKeepsInv ==
  ASSUME IInv, NEW rest, Die(rest), UNCHANGED <<prefs, typed, author>>
  PROVE  IInv'
<1> USE DEF IInv
<1>1. \A k \in Tasks : ~Live(k)'
  BY DEF Die, Live, Types
<1>2. Types'
  BY DEF Types, Die, Live
<1>3. Linked'
  BY <1>1 DEF Linked, Die, Types
<1>4. Consistent' /\ Queue'
  BY <1>1 DEF Consistent, Queue, Die, Live, Types
<1>5. SessionIsVerified' /\ Screen'
  BY DEF SessionIsVerified, Screen, Die
<1> QED BY <1>2, <1>3, <1>4, <1>5

\* An uncaught exception of onCreate, doInBackground or onPostExecute.
LEMMA CrashKeepsInv == ASSUME IInv, NEW where, Crash(where) PROVE IInv'
  BY DeathKeepsInv DEF Crash

\* The app as installed, or with the session of an earlier use.
THEOREM InitIInv == Init => IInv
<1> SUFFICES ASSUME Init PROVE IInv  OBVIOUS
<1> USE DataAssumption DEF Init
<1>1. Types
  BY DEF Types
<1>2. Linked /\ Consistent /\ Queue
  BY DEF Linked, Consistent, Queue, Live
<1>3. SessionIsVerified /\ Screen
  BY DEF SessionIsVerified, Screen
<1> QED BY <1>1, <1>2, <1>3 DEF IInv

\* The screens change, and what a log out does to the session.
LEMMA ScreensKeepInv ==
  ASSUME IInv,
         \/ Launch \/ Home \/ Back \/ TapLogin \/ Logout \/ Resume \/ Rotate \/ RunSplash
  PROVE  IInv'
<1> USE DEF IInv
<1>1. CASE Launch \/ Home \/ Back \/ TapLogin \/ RunSplash
  <2>1. UNCHANGED <<created, prefs, username, password, authTask, posts, stage,
                    owner, asked, answer, typed, author>>
    BY <1>1 DEF Launch, Home, Back, TapLogin, RunSplash, SplashCheck, SplashStart,
                ToBack, acts, fields, tasks, history
  <2>2. resumed' \in Acts \cup {0}
    BY <1>1 DEF Launch, Home, Back, TapLogin, RunSplash, SplashCheck, SplashStart,
                ToBack, Screen
  <2> QED
    BY <2>1, <2>2 DEF Types, Screen, Linked, Consistent, Queue, SessionIsVerified, Live
<1>2. CASE Logout
  <2>1. UNCHANGED <<created, resumed, username, password, authTask, posts, stage,
                    owner, asked, answer, typed, author>> /\ prefs' = Null
    BY <1>2 DEF Logout, fields, tasks, history
  <2> QED
    BY <2>1 DEF Types, Screen, Linked, Consistent, Queue, SessionIsVerified, Live
<1>3. CASE Resume \/ Rotate
  <2>1. UNCHANGED <<prefs, username, password, authTask, posts, stage, owner,
                    asked, answer, typed, author>>
    BY <1>3 DEF Resume, Rotate, fields, tasks, history
  <2>2. Screen'
    BY <1>3 DEF Resume, Rotate, OnCreate, Screen, acts
  <2> QED
    BY <2>1, <2>2 DEF Types, Linked, Consistent, Queue, SessionIsVerified, Live
<1> QED BY <1>1, <1>2, <1>3

\* An activity that nothing refers to is collected: no task is its own.
LEMMA CollectKeepsInv ==
  ASSUME IInv, NEW a \in Acts, Collect(a)
  PROVE  IInv'
<1> USE DEF IInv
<1>0. /\ UNCHANGED <<prefs, authTask, resumed, posts, stage, owner, asked, answer,
                     typed, author>>
      /\ \A k \in Tasks : Live(k) => owner[k] # a
      /\ username' = [username EXCEPT ![a] = Null]
      /\ password' = [password EXCEPT ![a] = Null]
      /\ created' \subseteq created
  BY DEF Collect, tasks, history
<1>1. Types' /\ Screen'
  BY <1>0 DEF Types, Screen
<1>2. \A k \in Tasks : Live(k)' = Live(k)
  BY <1>0 DEF Live
<1>3. \A k \in Tasks : Live(k) =>
        username'[owner[k]] = username[owner[k]] /\ password'[owner[k]] = password[owner[k]]
  BY <1>0 DEF Types, Linked
<1>4. Linked'
  BY <1>0, <1>3 DEF Linked, Live, Types
<1>5. Consistent'
  BY <1>0, <1>2, <1>3 DEF Consistent, Live
<1>6. Queue' /\ SessionIsVerified'
  BY <1>0 DEF Queue, SessionIsVerified
<1> QED BY <1>1, <1>4, <1>5, <1>6

\* attemptLogin: the guard leaves the fields of a form with a task alone.
LEMMA AttemptKeepsInv ==
  ASSUME IInv, NEW form \in Forms, AttemptLogin(form[1], form[2])
  PROVE  IInv'
<1> USE DEF IInv
<1> DEFINE n == form[1]
           p == form[2]
           a == resumed
<1>0. /\ n \in Names \cup {Empty} /\ p \in Passwords \cup {Empty}
      /\ a \in Acts /\ authTask[a] = 0
      /\ username' = [username EXCEPT ![a] = n]
      /\ password' = [password EXCEPT ![a] = p]
      /\ UNCHANGED <<prefs, created, resumed, posts, asked, answer, author>>
  BY DataAssumption DEF AttemptLogin, Screen, acts
<1>1. \A k \in Tasks : Live(k) =>
        /\ owner[k] # a
        /\ username'[owner[k]] = username[owner[k]]
        /\ password'[owner[k]] = password[owner[k]]
  <2>1. \A k \in Tasks : k # 0
    BY BoundsAssumption DEF Tasks
  <2>2. \A k \in Tasks : Live(k) => owner[k] \in Acts /\ owner[k] # a
    BY <1>0, <2>1 DEF Linked
  <2> QED BY <1>0, <2>2 DEF Types
<1>2. CASE Empty \in {n, p}
  <2>1. UNCHANGED <<authTask, stage, owner, typed>>
    BY <1>2 DEF AttemptLogin
  <2>2. \A k \in Tasks : Live(k)' = Live(k)
    BY <2>1 DEF Live
  <2>3. Types' /\ Screen'
    BY <1>0, <2>1 DEF Types, Screen
  <2>4. Linked'
    BY <1>0, <1>1, <2>1 DEF Linked, Live, Types
  <2>5. Consistent' /\ Queue' /\ SessionIsVerified'
    BY <1>0, <1>1, <2>1, <2>2 DEF Consistent, Queue, SessionIsVerified, Live
  <2> QED BY <2>3, <2>4, <2>5
<1>3. CASE Empty \notin {n, p}
  <2>1. PICK k \in Tasks :
          /\ stage[k] = "unused"
          /\ authTask' = [authTask EXCEPT ![a] = k]
          /\ stage' = [stage EXCEPT ![k] = "queued"]
          /\ owner' = [owner EXCEPT ![k] = a]
          /\ typed' = typed \cup {<<n, p>>}
    BY <1>3 DEF AttemptLogin
  <2>2. Types' /\ Screen'
    BY <1>0, <2>1 DEF Types, Screen
  <2>3. n \in Names /\ p \in Passwords
    BY <1>0, <1>3
  <2>4. ~Live(k) /\ Live(k)' /\ \A j \in Tasks \ {k} : Live(j)' = Live(j)
    BY <2>1 DEF Live, Types
  <2>5. \A j \in Tasks : Live(j)' =>
          /\ owner'[j] \in Acts
          /\ authTask'[owner'[j]] = j
          /\ username'[owner'[j]] \in Names /\ password'[owner'[j]] \in Passwords
          /\ <<username'[owner'[j]], password'[owner'[j]]>> \in typed'
    <3> SUFFICES ASSUME NEW j \in Tasks, Live(j)'
                 PROVE  /\ owner'[j] \in Acts
                        /\ authTask'[owner'[j]] = j
                        /\ username'[owner'[j]] \in Names /\ password'[owner'[j]] \in Passwords
                        /\ <<username'[owner'[j]], password'[owner'[j]]>> \in typed'
      OBVIOUS
    <3>1. CASE j = k
      BY <3>1, <1>0, <2>1, <2>3 DEF Types
    <3>2. CASE j # k
      BY <3>2, <1>0, <1>1, <2>1, <2>4 DEF Types, Linked
    <3> QED BY <3>1, <3>2
  <2>6. \A b \in Acts : authTask'[b] # 0 =>
          stage'[authTask'[b]] \notin {"unused", "over"} /\ owner'[authTask'[b]] = b
    <3> SUFFICES ASSUME NEW b \in Acts, authTask'[b] # 0
                 PROVE  /\ stage'[authTask'[b]] \notin {"unused", "over"}
                        /\ owner'[authTask'[b]] = b
      OBVIOUS
    <3>1. CASE b = a
      BY <3>1, <1>0, <2>1 DEF Types, Live
    <3>2. CASE b # a
      <4>1. authTask[b] = authTask'[b] /\ authTask[b] # 0 /\ authTask[b] \in Tasks
        BY <3>2, <1>0, <2>1 DEF Types
      <4>2. Live(authTask[b]) /\ owner[authTask[b]] = b /\ authTask[b] # k
        BY <4>1, <2>1 DEF Linked, Live
      <4> QED BY <4>1, <4>2, <2>1 DEF Live, Types
    <3> QED BY <3>1, <3>2
  <2>7. Linked'
    BY <2>5, <2>6 DEF Linked, Live
  <2>8. Consistent'
    BY <1>0, <1>1, <2>1, <2>4 DEF Consistent, Types, Live
  <2>9. Queue'
    BY <1>0, <2>1 DEF Queue, Types
  <2>10. SessionIsVerified'
    BY <1>0, <2>1 DEF SessionIsVerified
  <2> QED BY <2>2, <2>7, <2>8, <2>9, <2>10
<1> QED BY <1>2, <1>3

\* doInBackground reads the username that was typed for its own task.
LEMMA RunKeepsInv ==
  ASSUME IInv, NEW k \in Tasks, RunTask(k)
  PROVE  IInv'
<1> USE DEF IInv
<1>0. /\ stage[k] = "queued"
      /\ stage' = [stage EXCEPT ![k] = "running"]
      /\ asked' = [asked EXCEPT ![k] = username[owner[k]]]
      /\ UNCHANGED <<prefs, created, resumed, username, password, authTask, posts,
                     owner, answer, typed, author>>
  BY DEF RunTask, fields, acts, history
<1>1. Live(k) /\ username[owner[k]] \in Names
  BY <1>0 DEF Live, Linked
<1>2. Types' /\ Screen'
  BY <1>0, <1>1 DEF Types, Screen
<1>3. Linked'
  BY <1>0, <1>1 DEF Linked, Live, Types
<1>4. Consistent'
  BY <1>0, <1>1 DEF Consistent, Types
<1>5. Queue' /\ SessionIsVerified'
  BY <1>0 DEF Queue, SessionIsVerified, Types
<1> QED BY <1>2, <1>3, <1>4, <1>5

\* The answer is about the name that was sent, and joins the queue.
LEMMA AnswerKeepsInv ==
  ASSUME IInv, NEW k \in Tasks, Answer(k)
  PROVE  IInv'
<1> USE DEF IInv
<1>0. /\ stage[k] = "running"
      /\ stage' = [stage EXCEPT ![k] = "answered"]
      /\ posts' = Append(posts, k)
      /\ UNCHANGED <<prefs, created, resumed, username, password, authTask,
                     owner, asked, typed, author>>
  BY DEF Answer, fields, acts, history
<1>1. PICK item \in {AccountOf[asked[k]], Null} : answer' = [answer EXCEPT ![k] = item]
  BY DEF Answer
<1>2. asked[k] \in Names
  BY <1>0 DEF Consistent, Linked, Live
<1>3. Types' /\ Screen'
  <2>1. item \in Accounts \cup {NoAccount, Null}
    BY <1>1, <1>2, DataAssumption
  <2> QED BY <1>0, <1>1, <2>1 DEF Types, Screen
<1>4. Linked'
  BY <1>0 DEF Linked, Live, Types
<1>5. Consistent'
  BY <1>0, <1>1 DEF Consistent, Types
<1>6. \A i \in 1..Len(posts) : posts[i] \in Tasks /\ posts[i] # k
  BY <1>0 DEF Queue, Types
<1>7. /\ Len(posts) \in Nat /\ Len(posts') = Len(posts) + 1
      /\ \A i \in 1..Len(posts) : posts'[i] = posts[i]
      /\ posts'[Len(posts) + 1] = k
  BY <1>0 DEF Types
<1>8. Queue'
  <2> DEFINE n == Len(posts)
  <2>1. \A i \in 1..(n + 1) : i \in 1..n \/ i = n + 1
    BY <1>7
  <2>2. \A i \in 1..(n + 1) : stage'[posts'[i]] = "answered"
    BY <1>0, <1>6, <1>7, <2>1 DEF Queue, Types
  <2>3. \A j \in Tasks : stage'[j] = "answered" => \E i \in 1..(n + 1) : posts'[i] = j
    BY <1>0, <1>7 DEF Queue, Types
  <2>4. \A i, j \in 1..(n + 1) : posts'[i] = posts'[j] => i = j
    BY <1>6, <1>7, <2>1 DEF Queue
  <2> QED BY <1>7, <2>2, <2>3, <2>4 DEF Queue
<1>9. SessionIsVerified'
  BY <1>0 DEF SessionIsVerified
<1> QED BY <1>3, <1>4, <1>5, <1>8, <1>9

\* What the first post in the queue is.
LEMMA FirstPost ==
  ASSUME IInv, posts # <<>>, NEW k, k = Head(posts)
  PROVE  /\ k \in Tasks /\ stage[k] = "answered"
         /\ owner[k] \in Acts /\ authTask[owner[k]] = k
         /\ username[owner[k]] \in Names /\ password[owner[k]] \in Passwords
         /\ <<username[owner[k]], password[owner[k]]>> \in typed
         /\ answer[k] \in {AccountOf[username[owner[k]]], Null}
<1>1. k \in Tasks /\ k = posts[1] /\ 1 \in 1..Len(posts)
  BY DEF IInv, Types
<1>2. stage[k] = "answered"
  BY <1>1 DEF IInv, Queue
<1> QED
  BY <1>1, <1>2 DEF IInv, Linked, Consistent, Live

\* onPostExecute compares with the password typed with that name.
LEMMA PostKeepsInv ==
  ASSUME IInv, Post
  PROVE  IInv'
<1> USE DEF IInv
<1> DEFINE k == Head(posts)
           a == owner[k]
<1>0. /\ k \in Tasks /\ stage[k] = "answered"
      /\ a \in Acts /\ authTask[a] = k
      /\ username[a] \in Names /\ password[a] \in Passwords
      /\ <<username[a], password[a]>> \in typed
      /\ answer[k] = AccountOf[username[a]]
  BY FirstPost DEF Post
<1>1. /\ posts # <<>> /\ posts' = Tail(posts)
      /\ stage' = [stage EXCEPT ![k] = "over"]
      /\ owner' = [owner EXCEPT ![k] = 0]
      /\ asked' = [asked EXCEPT ![k] = Null]
      /\ answer' = [answer EXCEPT ![k] = Null]
      /\ authTask' = [authTask EXCEPT ![a] = 0]
      /\ UNCHANGED <<username, password, created, resumed, typed>>
  BY DEF Post
<1>2. \/ /\ answer[k] # NoAccount /\ PasswordOf[answer[k]] = password[a]
         /\ prefs' = [userid |-> answer[k], username |-> username[a]]
         /\ author' = k
      \/ UNCHANGED <<prefs, author>>
  BY DEF Post
<1>3. Types' /\ Screen'
  BY <1>0, <1>1, <1>2 DEF Types, Screen
<1>4. \A j \in Tasks \ {k} : Live(j) => owner[j] # a
  BY <1>0 DEF Linked
<1>5. Linked'
  <2>1. stage'[k] = "over" /\ \A j \in Tasks \ {k} :
          stage'[j] = stage[j] /\ owner'[j] = owner[j]
    BY <1>0, <1>1 DEF Types
  <2>2. \A j \in Tasks : Live(j)' =>
          /\ owner'[j] \in Acts
          /\ authTask'[owner'[j]] = j
          /\ username'[owner'[j]] \in Names /\ password'[owner'[j]] \in Passwords
          /\ <<username'[owner'[j]], password'[owner'[j]]>> \in typed'
    <3> SUFFICES ASSUME NEW j \in Tasks, stage'[j] \notin {"unused", "over"}
                 PROVE  /\ owner'[j] \in Acts
                        /\ authTask'[owner'[j]] = j
                        /\ username'[owner'[j]] \in Names /\ password'[owner'[j]] \in Passwords
                        /\ <<username'[owner'[j]], password'[owner'[j]]>> \in typed'
      BY DEF Live
    <3>1. j # k /\ Live(j) /\ owner'[j] = owner[j] /\ owner[j] # a
      BY <1>4, <2>1 DEF Live
    <3> QED BY <1>0, <1>1, <3>1 DEF Types, Linked
  <2>3. \A b \in Acts : authTask'[b] # 0 =>
          stage'[authTask'[b]] \notin {"unused", "over"} /\ owner'[authTask'[b]] = b
    <3> SUFFICES ASSUME NEW b \in Acts, authTask'[b] # 0
                 PROVE  /\ stage'[authTask'[b]] \notin {"unused", "over"}
                        /\ owner'[authTask'[b]] = b
      OBVIOUS
    <3>1. b # a /\ authTask'[b] = authTask[b] /\ authTask[b] \in Tasks
      BY <1>0, <1>1 DEF Types
    <3>2. Live(authTask[b]) /\ owner[authTask[b]] = b /\ authTask[b] # k
      BY <3>1 DEF Linked
    <3> QED BY <3>1, <3>2, <1>1 DEF Live, Types
  <2> QED BY <2>2, <2>3 DEF Linked, Live
<1>6. Consistent'
  BY <1>0, <1>1 DEF Consistent, Types
<1>7. Queue'
  <2> DEFINE n == Len(posts)
  <2>1. /\ n \in Nat /\ n > 0 /\ Len(posts') = n - 1
        /\ \A i \in 1..(n - 1) : posts'[i] = posts[i + 1] /\ i + 1 \in 1..n
        /\ posts[1] = k /\ 1 \in 1..n
        /\ \A i \in 1..n : posts[i] \in Tasks
    BY <1>1 DEF Types
  <2>2. \A i \in 1..(n - 1) : posts[i + 1] # k
    BY <2>1 DEF Queue
  <2>3. \A i \in 1..(n - 1) : stage'[posts'[i]] = "answered"
    BY <1>1, <2>1, <2>2 DEF Queue, Types
  <2>4. \A j \in Tasks : stage'[j] = "answered" => \E i \in 1..(n - 1) : posts'[i] = j
    <3> SUFFICES ASSUME NEW j \in Tasks, stage'[j] = "answered"
                 PROVE  \E i \in 1..(n - 1) : posts'[i] = j
      OBVIOUS
    <3>1. j # k /\ stage[j] = "answered"
      BY <1>0, <1>1 DEF Types
    <3>2. PICK i \in 1..n : posts[i] = j
      BY <3>1 DEF Queue
    <3>3. i # 1 /\ i - 1 \in 1..(n - 1) /\ (i - 1) + 1 = i
      BY <2>1, <3>1, <3>2
    <3> QED BY <2>1, <3>2, <3>3
  <2>5. \A i, j \in 1..(n - 1) : posts'[i] = posts'[j] => i = j
    <3> SUFFICES ASSUME NEW i \in 1..(n - 1), NEW j \in 1..(n - 1), posts'[i] = posts'[j]
                 PROVE  i = j
      OBVIOUS
    <3>1. i + 1 = j + 1
      BY <2>1 DEF Queue
    <3> QED BY <3>1
  <2> QED BY <2>1, <2>3, <2>4, <2>5 DEF Queue
<1>8. SessionIsVerified'
  BY <1>0, <1>1, <1>2, DataAssumption DEF SessionIsVerified
<1> QED BY <1>3, <1>5, <1>6, <1>7, <1>8

\* Every step of the app, the system and the tasks keeps the invariant.
THEOREM StepIInv == IInv /\ [Next]_vars => IInv'
<1> SUFFICES ASSUME IInv, [Next]_vars PROVE IInv'  OBVIOUS
<1>1. CASE \/ Launch \/ Home \/ Back \/ TapLogin \/ Logout
           \/ Resume \/ Rotate \/ RunSplash
  BY <1>1, ScreensKeepInv
<1>2. CASE Kill
  BY <1>2, DeathKeepsInv DEF Kill
<1>3. CASE \/ ResumeFails \/ PostFails \/ \E k \in Tasks : AnswerWithoutItem(k)
  BY <1>3, CrashKeepsInv DEF ResumeFails, PostFails, AnswerWithoutItem
<1>4. CASE \E a \in Acts : Collect(a)
  BY <1>4, CollectKeepsInv
<1>5. CASE \E form \in Forms : AttemptLogin(form[1], form[2])
  BY <1>5, AttemptKeepsInv
<1>6. CASE \E k \in Tasks : RunTask(k) \/ Answer(k)
  BY <1>6, RunKeepsInv, AnswerKeepsInv
<1>7. CASE Post
  BY <1>7, PostKeepsInv
<1>8. CASE UNCHANGED vars
  BY <1>8, SameCore DEF vars, core, acts, fields, tasks, history
<1> QED
  BY <1>1, <1>2, <1>3, <1>4, <1>5, <1>6, <1>7, <1>8 DEF Next

\* Hence it holds in every behaviour of the app.
THEOREM Inductive == Spec => []IInv
  BY InitIInv, StepIInv, PTL DEF Spec

\* No session without the name and the password of its account, typed
\* together: doInBackground and onPostExecute read the fields of one attempt.
THEOREM SessionsAreVerified == Spec => []SessionIsVerified
<1>1. IInv => SessionIsVerified
  BY DEF IInv
<1> QED BY <1>1, Inductive, PTL

\* attemptLogin's guard works across crashes, rotations and several forms.
THEOREM FormsHaveOneTask == Spec => []OneTaskPerForm
<1>1. IInv => OneTaskPerForm
  <2> SUFFICES ASSUME IInv PROVE OneTaskPerForm  OBVIOUS
  <2>1. \A k \in Tasks : Live(k) => owner[k] # 0 /\ authTask[owner[k]] = k
    <3>1. \A a \in Acts : a # 0
      BY BoundsAssumption DEF Acts
    <3> QED BY <3>1 DEF IInv, Linked
  <2>2. \A a \in Acts : authTask[a] # 0 => Live(authTask[a]) /\ owner[authTask[a]] = a
    BY DEF IInv, Linked
  <2> QED BY <2>1, <2>2 DEF OneTaskPerForm
<1> QED BY <1>1, Inductive, PTL

-----------------------------------------------------------------------------
(* The order of the attempts, when tasks run one at a time.                *)

\* No task yet: nothing is out of order.
LEMMA InitInOrder == Init => InOrder
  BY BoundsAssumption DEF Init, InOrder, Tasks

\* Steps that touch neither the tasks nor the queue.
LEMMA OthersKeepOrder ==
  ASSUME InOrder, UNCHANGED <<posts, stage, author>>
  PROVE  InOrder'
  BY DEF InOrder

\* The end of the process ends all tasks at once.
LEMMA DeathKeepsOrder ==
  ASSUME IInv, InOrder, NEW rest, Die(rest), UNCHANGED author
  PROVE  InOrder'
  BY DEF IInv, Types, InOrder, Die, Live

\* attemptLogin numbers its task after all others.
LEMMA AttemptKeepsOrder ==
  ASSUME IInv, InOrder, NEW form \in Forms, AttemptLogin(form[1], form[2])
  PROVE  InOrder'
<1>1. CASE Empty \in {form[1], form[2]}
  BY <1>1, OthersKeepOrder DEF AttemptLogin
<1>2. CASE Empty \notin {form[1], form[2]}
  <2>1. PICK k \in Tasks :
          /\ stage[k] = "unused" /\ \A j \in Tasks : j < k => stage[j] # "unused"
          /\ stage' = [stage EXCEPT ![k] = "queued"]
          /\ UNCHANGED <<posts, author>>
    BY <1>2 DEF AttemptLogin
  <2> QED BY <2>1 DEF InOrder, IInv, Types
<1> QED BY <1>1, <1>2

\* The serial executor takes the oldest task, when no other one runs.
LEMMA RunKeepsOrder ==
  ASSUME Serial, IInv, InOrder, NEW k \in Tasks, RunTask(k)
  PROVE  InOrder'
<1>1. /\ stage[k] = "queued"
      /\ \A j \in Tasks : stage[j] # "running" /\ (j < k => stage[j] # "queued")
      /\ stage' = [stage EXCEPT ![k] = "running"]
      /\ UNCHANGED <<posts, author>>
  BY DEF RunTask, history
<1>2. \A j \in Tasks : j < k => stage[j] \in {"answered", "over"}
  BY <1>1 DEF InOrder, IInv, Types
<1>3. \A i, j \in Tasks : i < j /\ stage'[j] \in {"running", "answered", "over"}
                             => stage'[i] \in {"answered", "over"}
  <2> SUFFICES ASSUME NEW i \in Tasks, NEW j \in Tasks, i < j,
                      stage'[j] \in {"running", "answered", "over"}
               PROVE  stage'[i] \in {"answered", "over"}
    OBVIOUS
  <2>1. CASE j = k
    BY <2>1, <1>1, <1>2, BoundsAssumption DEF IInv, Types, Tasks
  <2>2. CASE j # k
    BY <2>2, <1>1 DEF IInv, Types, InOrder
  <2> QED BY <2>1, <2>2
<1> QED BY <1>1, <1>3 DEF InOrder, IInv, Types

\* The one task that runs is newer than those that have answered.
LEMMA AnswerKeepsOrder ==
  ASSUME Serial, IInv, InOrder, NEW k \in Tasks, Answer(k)
  PROVE  InOrder'
<1> DEFINE n == Len(posts)
<1>1. /\ stage[k] = "running"
      /\ stage' = [stage EXCEPT ![k] = "answered"]
      /\ posts' = Append(posts, k)
      /\ UNCHANGED author
  BY DEF Answer, history
<1>2. /\ n \in Nat /\ Len(posts') = n + 1
      /\ \A i \in 1..n : posts'[i] = posts[i] /\ posts[i] \in Tasks
      /\ posts'[n + 1] = k
      /\ \A i \in 1..(n + 1) : i \in 1..n \/ i = n + 1
  BY <1>1 DEF IInv, Types
<1>3. \A i \in 1..n : posts[i] < k
  <2> SUFFICES ASSUME NEW i \in 1..n PROVE posts[i] < k  OBVIOUS
  <2>1. posts[i] \in Tasks /\ stage[posts[i]] = "answered" /\ posts[i] # k
    BY <1>1, <1>2 DEF IInv, Queue
  <2>2. ~(k < posts[i])
    BY <1>1, <2>1 DEF InOrder
  <2> QED BY <2>1, <2>2, BoundsAssumption DEF Tasks
<1>4. \A i, j \in 1..(n + 1) : i < j => posts'[i] < posts'[j]
  <2> SUFFICES ASSUME NEW i \in 1..(n + 1), NEW j \in 1..(n + 1), i < j
               PROVE  posts'[i] < posts'[j]
    OBVIOUS
  <2>1. i \in 1..n
    BY <1>2
  <2>2. CASE j = n + 1
    BY <2>1, <2>2, <1>2, <1>3
  <2>3. CASE j \in 1..n
    BY <2>1, <2>3, <1>2 DEF InOrder
  <2> QED BY <2>2, <2>3, <1>2
<1>5. /\ \A i, j \in Tasks : i < j /\ stage'[j] # "unused" => stage'[i] # "unused"
      /\ \A i, j \in Tasks : i < j /\ stage'[j] \in {"running", "answered", "over"}
                              => stage'[i] \in {"answered", "over"}
      /\ \A i \in Tasks : stage'[i] # "over" => author' < i
      /\ author' # 0 => stage'[author'] = "over"
  BY <1>1 DEF InOrder, IInv, Types
<1> QED BY <1>2, <1>4, <1>5 DEF InOrder

\* The first post in the queue is the oldest task that is still under way.
LEMMA OldestFirst ==
  ASSUME IInv, InOrder, posts # <<>>
  PROVE  \A j \in Tasks : stage[j] # "over" /\ j # Head(posts) => Head(posts) < j
<1> DEFINE k == Head(posts)
<1>1. /\ k \in Tasks /\ stage[k] = "answered" /\ k = posts[1] /\ 1 \in 1..Len(posts)
      /\ \A i \in 1..Len(posts) : posts[i] \in Tasks /\ (i # 1 => 1 < i)
  BY DEF IInv, Types, Queue
<1> SUFFICES ASSUME NEW j \in Tasks, stage[j] # "over", j # k PROVE k < j  OBVIOUS
<1>2. CASE stage[j] = "answered"
  <2>1. PICK i \in 1..Len(posts) : posts[i] = j
    BY <1>2 DEF IInv, Queue
  <2> QED BY <1>1, <2>1 DEF InOrder
<1>3. CASE stage[j] # "answered"
  <2>1. ~(j < k)
    BY <1>1, <1>3 DEF InOrder
  <2> QED BY <1>1, <2>1, BoundsAssumption DEF Tasks
<1> QED BY <1>2, <1>3

\* onPostExecute takes the oldest task out, and may make it the author.
LEMMA PostKeepsOrder ==
  ASSUME Serial, IInv, InOrder, Post
  PROVE  InOrder'
<1> DEFINE k == Head(posts)
           n == Len(posts)
<1>1. /\ posts # <<>> /\ posts' = Tail(posts)
      /\ stage' = [stage EXCEPT ![k] = "over"]
      /\ author' \in {author, k}
  BY DEF Post
<1>2. k \in Tasks /\ stage[k] = "answered"
  BY <1>1, FirstPost
<1>3. /\ n \in Nat /\ Len(posts') = n - 1
      /\ \A i \in 1..(n - 1) : posts'[i] = posts[i + 1] /\ i + 1 \in 1..n
  BY <1>1 DEF IInv, Types
<1>4. \A i, j \in 1..(n - 1) : i < j => posts'[i] < posts'[j]
  <2> SUFFICES ASSUME NEW i \in 1..(n - 1), NEW j \in 1..(n - 1), i < j
               PROVE  posts'[i] < posts'[j]
    OBVIOUS
  <2>1. i + 1 \in 1..n /\ j + 1 \in 1..n /\ i + 1 < j + 1
    BY <1>3
  <2> QED BY <1>3, <2>1 DEF InOrder
<1>5. /\ \A i, j \in Tasks : i < j /\ stage'[j] # "unused" => stage'[i] # "unused"
      /\ \A i, j \in Tasks : i < j /\ stage'[j] \in {"running", "answered", "over"}
                              => stage'[i] \in {"answered", "over"}
  BY <1>1, <1>2 DEF InOrder, IInv, Types
<1>6. \A j \in Tasks : stage'[j] # "over" => author' < j
  BY <1>1, <1>2, OldestFirst DEF InOrder, IInv, Types
<1>7. author' # 0 => stage'[author'] = "over"
  BY <1>1, <1>2 DEF InOrder, IInv, Types
<1> QED BY <1>3, <1>4, <1>5, <1>6, <1>7 DEF InOrder

\* Every step keeps the order of the attempts.
LEMMA StepInOrder == Serial /\ IInv /\ InOrder /\ [Next]_vars => InOrder'
<1> SUFFICES ASSUME Serial, IInv, InOrder, [Next]_vars PROVE InOrder'  OBVIOUS
<1>1. CASE \/ Launch \/ Home \/ Back \/ TapLogin \/ Logout \/ Resume \/ Rotate
           \/ RunSplash \/ \E a \in Acts : Collect(a)
  BY <1>1, OthersKeepOrder DEF Launch, Home, Back, TapLogin, Logout, Resume, Rotate,
     RunSplash, SplashCheck, SplashStart, Collect, ToBack, tasks, history
<1>2. CASE Kill \/ ResumeFails \/ PostFails \/ \E k \in Tasks : AnswerWithoutItem(k)
  BY <1>2, DeathKeepsOrder
     DEF Kill, ResumeFails, PostFails, AnswerWithoutItem, Crash
<1>3. CASE \E form \in Forms : AttemptLogin(form[1], form[2])
  BY <1>3, AttemptKeepsOrder
<1>4. CASE \E k \in Tasks : RunTask(k) \/ Answer(k)
  BY <1>4, RunKeepsOrder, AnswerKeepsOrder
<1>5. CASE Post
  BY <1>5, PostKeepsOrder
<1>6. CASE UNCHANGED vars
  BY <1>6, OthersKeepOrder DEF vars, tasks, history
<1> QED BY <1>1, <1>2, <1>3, <1>4, <1>5, <1>6 DEF Next

\* A step that opens a session does so for a later attempt than the last one.
LEMMA StepLatest ==
  ASSUME IInv, InOrder, [Next]_vars
  PROVE  [author' # author => author' > author]_author
<1>1. CASE Post
  <2>1. author' \in {author, Head(posts)} /\ posts # <<>>
    BY <1>1 DEF Post
  <2>2. Head(posts) \in Tasks /\ stage[Head(posts)] = "answered"
    BY <2>1, FirstPost
  <2>3. author < Head(posts)
    BY <2>2 DEF InOrder
  <2>4. author \in Int /\ Head(posts) \in Int
    BY <2>2, BoundsAssumption DEF IInv, Types, Tasks
  <2> QED BY <2>1, <2>3, <2>4
<1>2. CASE ~Post
  BY <1>2 DEF Next, vars, history, Launch, Home, Back, TapLogin, Logout, Resume, Rotate,
     RunSplash, SplashCheck, SplashStart, Collect, Kill, ResumeFails, PostFails,
     AnswerWithoutItem, Crash, AttemptLogin, RunTask, Answer
<1> QED BY <1>1, <1>2

\* With one task at a time, a login that answers late never takes the session
\* from a later attempt.
THEOREM LatestWins == Serial => (Spec => LatestAttemptWins)
<1>1. IInv /\ InOrder /\ [Next]_vars => [author' # author => author' > author]_author
  BY StepLatest
<1>2. SUFFICES ASSUME Serial PROVE Spec => LatestAttemptWins
  OBVIOUS
<1>3. IInv /\ InOrder /\ [Next]_vars => InOrder'
  BY <1>2, StepInOrder
<1>4. Spec => [](IInv /\ InOrder)
  BY <1>3, InitInOrder, Inductive, PTL DEF Spec
<1> QED BY <1>1, <1>4, PTL DEF Spec, LatestAttemptWins
=============================================================================
