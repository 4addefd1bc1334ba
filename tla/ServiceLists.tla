---------------------------- MODULE ServiceLists ----------------------------
(***************************************************************************)
(* The screens that show a list from a service, and their load tasks.      *)
(*                                                                         *)
(* With Reloads, CourseContentActivity: a pager whose six tabs are the     *)
(* same program in six copies (weekly, assignments, resources, forum,      *)
(* quiz, participants), each of which starts a load in every onStart.      *)
(* Without, one tab: CourseFragment or SemesterFragment, which load once,  *)
(* in onCreate.                                                            *)
(*                                                                         *)
(* A load takes the activity's input with a modal progress dialog, fetches *)
(* in the background, stores the feed in its fragment there, and shows the *)
(* fragment's feed when the main thread gets to its post.  Nothing cancels *)
(* a load: its fragment may have lost its view by then, or its activity.   *)
(*                                                                         *)
(* A version of a service's list stands for the list: it counts the edits  *)
(* on the site.  External: the pager, the fragment manager, the executor   *)
(* of AsyncTask, dialogs, the services.                                    *)
(***************************************************************************)
EXTENDS Naturals, Sequences

CONSTANTS MaxTabs,      \* the tabs are 1..MaxTabs
          Reloads,      \* every onStart loads (the tabs of a course)
          Serial,       \* tasks run one at a time (Android 3.2 and later)
          MaxLoads,     \* bound: loads
          MaxVersions,  \* bound: edits on the site, plus 1
          MaxGens       \* bound: rotations, plus 1

ASSUME ListsAssumption ==
  /\ MaxTabs \in Nat \ {0} /\ MaxGens \in Nat \ {0} /\ MaxVersions \in Nat \ {0}
  /\ MaxLoads \in Nat
  /\ Reloads \in BOOLEAN /\ Serial \in BOOLEAN

Tabs  == 1..MaxTabs
Frags == (1..MaxGens) \X Tabs      \* a rotation creates all fragments anew
Loads == 1..MaxLoads
NoFeed == 0                        \* Java's null
Feeds  == NoFeed..MaxVersions

VARIABLES
  \* the activity
  screen,     \* "shown", "hidden" behind another screen, or "gone"
  page,       \* the tab in front
  gen,        \* how often the activity was created
  known,      \* the fragments created
  view,       \* those that have a view now
  \* the fragments
  rssFeed,    \* [Frags -> Feeds]: the field a load stores its feed in
  list,       \* [Frags -> Feeds]: the feed its rows show
  progressDialog,   \* [Frags -> Loads \cup {0}]: the dialog of the latest load
  \* the dialogs, named by their load
  showing,    \* those on the screen; the latest has the input
  dead,       \* those that were showing when their activity was destroyed
  \* the loads
  stage,      \* [Loads -> "unused", "queued", "running", "answered" or "over"]
  of,         \* the fragment of a load
  fetched,    \* the list the service sent it
  posts,      \* the loads whose result waits for the main thread
  version,    \* the list at the service
  \* history
  dismissed,  \* the user has ever put a dialog away
  clicked,    \* the last row touched: the list it was in, the feed it opened
  crash       \* what ended the app: "none", "noView" or "noWindow"

activity == <<screen, page, gen, known, view>>
loads    == <<stage, of, fetched, posts, version>>
history  == <<dismissed, clicked, crash>>
vars == <<activity, rssFeed, list, progressDialog, showing, dead, loads, history>>

Init ==
  /\ screen = "shown" /\ page = 1 /\ gen = 1 /\ known = {} /\ view = {}
  /\ rssFeed = [f \in Frags |-> NoFeed]
  /\ list = [f \in Frags |-> NoFeed]
  /\ progressDialog = [f \in Frags |-> 0]
  /\ showing = {} /\ dead = {}
  /\ stage = [k \in Loads |-> "unused"]
  /\ of = [k \in Loads |-> <<1, 1>>]
  /\ fetched = [k \in Loads |-> NoFeed]
  /\ posts = <<>> /\ version = 1
  /\ dismissed = FALSE /\ clicked = [row |-> NoFeed, opened |-> NoFeed]
  /\ crash = "none"

Live(k) == stage[k] \notin {"unused", "over"}

-----------------------------------------------------------------------------
(* Starting loads: a new dialog in the field, shown, and a new task.       *)

\* The loads that the fragments fs start, from the first tab to the last.
NewLoads(fs) ==
  {start \in [fs -> Loads] :
     /\ \A f, g \in fs : f[2] < g[2] => start[f] < start[g]
     /\ \A f \in fs : stage[start[f]] = "unused"
     /\ \A f \in fs, j \in Loads : j < start[f] =>
          stage[j] # "unused" \/ \E g \in fs : start[g] = j}

StartLoads(fs, start) ==
  /\ stage' = [k \in Loads |-> IF \E f \in fs : start[f] = k THEN "queued" ELSE stage[k]]
  /\ of' = [k \in Loads |->
        IF \E f \in fs : start[f] = k THEN CHOOSE f \in fs : start[f] = k ELSE of[k]]
  /\ progressDialog' = [f \in Frags |-> IF f \in fs THEN start[f] ELSE progressDialog[f]]
  /\ UNCHANGED <<fetched, posts, version>>

Dialogs(fs, start) == {start[f] : f \in fs}

-----------------------------------------------------------------------------
(* The activity.                                                           *)

HasInput_NonModal == crash = "none" /\ screen = "shown"

\* The user's touches and keys reach the screen, not a dialog.
HasInput == crash = "none" /\ screen = "shown" /\ showing = {}

\* The pager keeps the page in front and its neighbours attached.
Near(p) == {t \in Tabs : p - 1 <= t /\ t <= p + 1}

Populate_NotCreated(p) ==
  LET attached == {<<gen, t>> : t \in Near(p)}
      starting == IF Reloads THEN attached \ view ELSE attached \ known
  IN
  /\ page' = p
  /\ view' = attached
  /\ UNCHANGED known
  /\ \E start \in NewLoads(starting) :
       StartLoads(starting, start) /\ showing' = showing \cup Dialogs(starting, start)
  /\ UNCHANGED <<screen, gen, rssFeed, list, dead, history>>

Populate_OneDialog(p) ==
  LET attached == {<<gen, t>> : t \in Near(p)}
      starting == IF Reloads THEN attached \ view ELSE attached \ known
  IN
  /\ page' = p
  /\ view' = attached
  /\ known' = known \cup attached
  /\ \E start \in NewLoads(starting) :
       /\ StartLoads(starting, start)
       /\ showing' = showing \cup Dialogs(starting \cap {<<gen, p>>}, start)
  /\ UNCHANGED <<screen, gen, rssFeed, list, dead, history>>

\* The pager at page p: fragments are created, attached and started, and the
\* ones out of reach lose their views.
Populate(p) ==
  LET attached == {<<gen, t>> : t \in Near(p)}
      starting == IF Reloads THEN attached \ view ELSE attached \ known
  IN
  /\ page' = p
  /\ view' = attached
  /\ known' = known \cup attached
  /\ \E start \in NewLoads(starting) :
       StartLoads(starting, start) /\ showing' = showing \cup Dialogs(starting, start)
  /\ UNCHANGED <<screen, gen, rssFeed, list, dead, history>>

Open == HasInput /\ view = {} /\ Populate(1)

Swipe(p) == HasInput /\ view # {} /\ p \in {page - 1, page + 1} /\ Populate(p)

\* Home, or a screen on top of this one.
Hide ==
  /\ crash = "none" /\ screen = "shown"
  /\ screen' = "hidden"
  /\ UNCHANGED <<page, gen, known, view, rssFeed, list, progressDialog, showing,
                 dead, loads, history>>

\* The screen is back: onStart of the fragments that have a view.
Show ==
  LET starting == IF Reloads THEN view ELSE {} IN
  /\ crash = "none" /\ screen = "hidden"
  /\ screen' = "shown"
  /\ \E start \in NewLoads(starting) :
       StartLoads(starting, start) /\ showing' = showing \cup Dialogs(starting, start)
  /\ UNCHANGED <<page, gen, known, view, rssFeed, list, dead, history>>

\* Back, or another screen in the place of this one.
Leave ==
  /\ HasInput
  /\ screen' = "gone" /\ view' = {}
  /\ UNCHANGED <<page, gen, known, rssFeed, list, progressDialog, showing, dead,
                 loads, history>>

\* The activity is destroyed, its dialogs' windows with it, and created anew
\* with new fragments in the place of the old ones.
Rotate ==
  LET Anew(fs) == {<<gen + 1, f[2]>> : f \in {g \in fs : g[1] = gen}}
      starting == Anew(IF Reloads THEN view ELSE known)
  IN
  /\ crash = "none" /\ screen = "shown" /\ view # {} /\ gen < MaxGens
  /\ gen' = gen + 1
  /\ view' = Anew(view)
  /\ known' = known \cup Anew(known)
  /\ dead' = dead \cup showing
  /\ \E start \in NewLoads(starting) :
       StartLoads(starting, start) /\ showing' = Dialogs(starting, start)
  /\ UNCHANGED <<screen, page, rssFeed, list, history>>

\* Back, or a touch beside it, puts away the dialog that has the input.
Dismiss ==
  /\ crash = "none" /\ screen = "shown" /\ showing # {}
  /\ showing' = {d \in showing : \E e \in showing : e > d}
  /\ dismissed' = TRUE
  /\ UNCHANGED <<activity, rssFeed, list, progressDialog, dead, loads, clicked, crash>>

\* onListItemClick opens the item at the row's position in rssFeed.
Click ==
  LET f == <<gen, page>> IN
  /\ HasInput /\ f \in view /\ list[f] # NoFeed
  /\ clicked' = [row |-> list[f], opened |-> rssFeed[f]]
  /\ screen' = "hidden"
  /\ UNCHANGED <<page, gen, known, view, rssFeed, list, progressDialog, showing,
                 dead, loads, dismissed, crash>>

-----------------------------------------------------------------------------
(* The load tasks.                                                         *)

\* A teacher changes the list.
Edit ==
  /\ version < MaxVersions
  /\ version' = version + 1
  /\ UNCHANGED <<activity, rssFeed, list, progressDialog, showing, dead, stage, of,
                 fetched, posts, history>>

Ask_Pool(k) ==
  /\ crash = "none" /\ stage[k] = "queued"
  /\ stage' = [stage EXCEPT ![k] = "running"]
  /\ fetched' = [fetched EXCEPT ![k] = version]
  /\ UNCHANGED <<activity, rssFeed, list, progressDialog, showing, dead, of, posts,
                 version, history>>

\* doInBackground sends its request, and the service answers it.
Ask(k) ==
  /\ crash = "none" /\ stage[k] = "queued"
  /\ Serial => \A j \in Loads : stage[j] # "running" /\ (j < k => stage[j] # "queued")
  /\ stage' = [stage EXCEPT ![k] = "running"]
  /\ fetched' = [fetched EXCEPT ![k] = version]
  /\ UNCHANGED <<activity, rssFeed, list, progressDialog, showing, dead, of, posts,
                 version, history>>

Arrive_NoPost(k) ==
  /\ crash = "none" /\ stage[k] = "running"
  /\ stage' = [stage EXCEPT ![k] = "answered"]
  /\ posts' \in {posts, Append(posts, k)}
  /\ \E feed \in {fetched[k], rssFeed[of[k]]} : rssFeed' = [rssFeed EXCEPT ![of[k]] = feed]
  /\ UNCHANGED <<activity, list, progressDialog, showing, dead, of, fetched, version,
                 history>>

\* It stores the feed in the field, or leaves it when an exception was caught.
Arrive(k) ==
  /\ crash = "none" /\ stage[k] = "running"
  /\ stage' = [stage EXCEPT ![k] = "answered"]
  /\ posts' = Append(posts, k)
  /\ \E feed \in {fetched[k], rssFeed[of[k]]} : rssFeed' = [rssFeed EXCEPT ![of[k]] = feed]
  /\ UNCHANGED <<activity, list, progressDialog, showing, dead, of, fetched, version,
                 history>>

Post_IfShowing ==
  LET k == Head(posts)
      f == of[k]
  IN
  /\ crash = "none" /\ posts # <<>>
  /\ posts' = Tail(posts)
  /\ stage' = [stage EXCEPT ![k] = "over"]
  /\ rssFeed[f] # NoFeed => f \in view
  /\ progressDialog[f] \notin dead
  /\ list' = IF rssFeed[f] # NoFeed /\ progressDialog[f] \in showing
              THEN [list EXCEPT ![f] = rssFeed[f]] ELSE list
  /\ showing' = showing \ {progressDialog[f]}
  /\ UNCHANGED <<activity, rssFeed, progressDialog, dead, of, fetched, version, history>>

Post_KeepsDialog ==
  LET k == Head(posts)
      f == of[k]
  IN
  /\ crash = "none" /\ posts # <<>>
  /\ posts' = Tail(posts)
  /\ stage' = [stage EXCEPT ![k] = "over"]
  /\ rssFeed[f] # NoFeed => f \in view
  /\ progressDialog[f] \notin dead
  /\ list' = IF rssFeed[f] # NoFeed THEN [list EXCEPT ![f] = rssFeed[f]] ELSE list
  /\ UNCHANGED <<activity, showing, rssFeed, progressDialog, dead, of, fetched, version, history>>

\* onPostExecute shows the field's feed and dismisses the field's dialog.
Post ==
  LET k == Head(posts)
      f == of[k]
  IN
  /\ crash = "none" /\ posts # <<>>
  /\ posts' = Tail(posts)
  /\ stage' = [stage EXCEPT ![k] = "over"]
  /\ rssFeed[f] # NoFeed => f \in view
  /\ progressDialog[f] \notin dead
  /\ list' = IF rssFeed[f] # NoFeed THEN [list EXCEPT ![f] = rssFeed[f]] ELSE list
  /\ showing' = showing \ {progressDialog[f]}
  /\ UNCHANGED <<activity, rssFeed, progressDialog, dead, of, fetched, version, history>>

\* getView() is null, or the window of the dialog does not exist any more.
PostFails ==
  LET f == of[Head(posts)] IN
  /\ crash = "none" /\ posts # <<>>
  /\ \/ rssFeed[f] # NoFeed /\ f \notin view /\ crash' = "noView"
     \/ (rssFeed[f] # NoFeed => f \in view) /\ progressDialog[f] \in dead
        /\ crash' = "noWindow"
  /\ UNCHANGED <<activity, rssFeed, list, progressDialog, showing, dead, loads,
                 dismissed, clicked>>

-----------------------------------------------------------------------------
Next ==
  \/ Open \/ (\E p \in Tabs : Swipe(p)) \/ Hide \/ Show \/ Leave \/ Rotate
  \/ Dismiss \/ Click
  \/ Edit
  \/ \E k \in Loads : Ask(k) \/ Arrive(k)
  \/ Post \/ PostFails

Spec == Init /\ [][Next]_vars

\* The executor and the main thread's queue go on; a service may not answer.
FairSpec == Spec /\ WF_vars(Post \/ PostFails) /\ \A k \in Loads : WF_vars(Ask(k))

-----------------------------------------------------------------------------
(* Properties.                                                             *)

\* Every variable has its type.
TypeOK ==
  /\ screen \in {"shown", "hidden", "gone"} /\ page \in Tabs /\ gen \in 1..MaxGens
  /\ known \subseteq Frags /\ view \subseteq known
  /\ rssFeed \in [Frags -> Feeds] /\ list \in [Frags -> Feeds]
  /\ progressDialog \in [Frags -> Loads \cup {0}]
  /\ showing \subseteq Loads /\ dead \subseteq Loads
  /\ stage \in [Loads -> {"unused", "queued", "running", "answered", "over"}]
  /\ of \in [Loads -> Frags] /\ fetched \in [Loads -> Feeds]
  /\ posts \in Seq(Loads) /\ version \in 1..MaxVersions
  /\ dismissed \in BOOLEAN
  /\ clicked \in [row : Feeds, opened : Feeds]
  /\ crash \in {"none", "noView", "noWindow"}

\* The dialogs keep the user off the list while a load of it is under way,
\* although a second onStart overwrites the field with the first dialog;
\* unless the user has put a dialog away.
ModalWhileLoading ==
  HasInput /\ ~dismissed => \A k \in Loads : ~Live(k)

\* No load finds its view or its dialog's window gone as long as the user
\* waits for the dialogs and does not turn the device.
SafeWhileWaiting ==
  crash # "none" => dismissed \/ gen > 1

\* A row opens the item that it shows, although the background thread replaces
\* the feed under the list; unless the user has put a dialog away.
RowsOpenWhatTheyShow ==
  clicked.row # clicked.opened => dismissed

\* When no load of a list is under way, it shows the feed that its rows open.
QuietListIsCurrent ==
  crash = "none" => \A f \in view :
    (\A k \in Loads : Live(k) => of[k] # f) => list[f] = rssFeed[f]

\* When tasks run one at a time, a list is never replaced by an older one.
ListsGetNewer ==
  [][\A f \in Frags : list'[f] # list[f] => list'[f] > list[f]]_list

\* A dialog that says "Loading information..." means that a load of its list
\* is under way.
LoadingMeansLoading ==
  crash = "none" => \A d \in showing : \E k \in Loads :
    Live(k) /\ of[k] = of[d]

\* The dialogs go away by themselves, provided that connections end.
DialogsGo ==
  (\A k \in Loads : stage[k] = "running" ~> stage[k] # "running" \/ crash # "none")
    => (showing # {} ~> showing = {} \/ crash # "none")
=============================================================================
