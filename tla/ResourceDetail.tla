--------------------------- MODULE ResourceDetail ---------------------------
(***************************************************************************)
(* ResourceDetailActivity: the screen of one resource.  onCreate starts a  *)
(* task that fetches the details; its answer gives the download button its *)
(* listener, and every click on it starts a task that copies the resource  *)
(* into a file of the same name.  AssignmentDetailActivity is the same     *)
(* screen without the download.                                            *)
(*                                                                         *)
(* The details have a dialog of their own.  The download dialog belongs to *)
(* the activity (showDialog, dismissDialog): the activity drops it when it *)
(* is destroyed, and a rotated one gets it back through onCreateDialog,    *)
(* which shows it whether or not it was on the screen.                     *)
(*                                                                         *)
(* The resource is a number of blocks, one write each.  The numbers of the *)
(* progress bar are left out.  External: dialogs, the executor of          *)
(* AsyncTask, the file system, the server.                                 *)
(***************************************************************************)
EXTENDS Naturals, Sequences

CONSTANTS Serial,      \* tasks run one at a time (Android 3.2 and later)
          MaxBlocks,   \* the length of the resource
          MaxTasks,    \* bound: tasks
          MaxGens      \* bound: rotations, plus 1

ASSUME DetailAssumption ==
  /\ Serial \in BOOLEAN
  /\ MaxBlocks \in Nat \ {0} /\ MaxTasks \in Nat \ {0} /\ MaxGens \in Nat \ {0}

Tasks  == 1..MaxTasks
Gens   == 1..MaxGens      \* a rotation creates the activity anew
Closed == MaxBlocks + 1

VARIABLES
  \* the activity
  screen,     \* "shown", "hidden" behind another screen, or "gone"
  gen,        \* how often it was created
  ready,      \* the activities whose download button has its listener
  managed,    \* those that know the download dialog
  showing,    \* the dialogs on the screen; of both, the download has the input
  dead,       \* the activities destroyed while their details dialog showed
  \* the tasks
  kind,       \* [Tasks -> "details" or "download"]
  of,         \* the activity of a task
  stage,      \* [Tasks -> "unused", "queued", "running", "answered" or "over"]
  content,    \* what a details task returns: "rows", "empty" or "null"
  written,    \* blocks a download has written, Closed before it opens the file
  posts,      \* the tasks whose result waits for the main thread
  \* the file in MLearning: its blocks, "data" or a "hole"
  file,
  \* history
  dismissed,  \* the user has ever put a dialog away
  crash       \* "none", "noContent", "noWindow" or "noDialog"

activity == <<screen, gen, ready, managed, showing, dead>>
tasks    == <<kind, of, stage, content, written, posts>>
history  == <<dismissed, crash>>
vars == <<activity, tasks, file, history>>

Init ==
  /\ screen = "shown" /\ gen = 1 /\ ready = {} /\ managed = {} /\ dead = {}
  /\ showing = {"details"}
  /\ kind = [k \in Tasks |-> "details"]
  /\ of = [k \in Tasks |-> 1]
  /\ stage = [k \in Tasks |-> IF k = 1 THEN "queued" ELSE "unused"]
  /\ content = [k \in Tasks |-> "null"]
  /\ written = [k \in Tasks |-> Closed]
  /\ posts = <<>>
  /\ file = <<>>
  /\ dismissed = FALSE /\ crash = "none"

Live(k) == stage[k] \notin {"unused", "over"}

Downloads == {k \in Tasks : Live(k) /\ kind[k] = "download"}

Alive == crash = "none"

\* new ...Task().execute() in activity g.
Execute(k, what, g) ==
  /\ stage[k] = "unused" /\ \A j \in Tasks : j < k => stage[j] # "unused"
  /\ stage' = [stage EXCEPT ![k] = "queued"]
  /\ kind' = [kind EXCEPT ![k] = what]
  /\ of' = [of EXCEPT ![k] = g]
  /\ UNCHANGED <<content, written, posts>>

-----------------------------------------------------------------------------
(* The user and the system.                                                *)

HasInput_NonModal == Alive /\ screen = "shown"

\* The user's touches and keys reach the screen, not a dialog.
HasInput == Alive /\ screen = "shown" /\ showing = {}

\* A click on the download button, and onPreExecute: showDialog.
Download ==
  /\ HasInput /\ gen \in ready
  /\ \E k \in Tasks : Execute(k, "download", gen)
  /\ managed' = managed \cup {gen}
  /\ showing' = showing \cup {"download"}
  /\ UNCHANGED <<screen, gen, ready, dead, file, history>>

\* Both dialogs can be cancelled, which cancels no task.
Dismiss ==
  /\ Alive /\ screen = "shown" /\ showing # {}
  /\ showing' = IF "download" \in showing THEN showing \ {"download"} ELSE {}
  /\ dismissed' = TRUE
  /\ UNCHANGED <<screen, gen, ready, managed, dead, tasks, file, crash>>

Hide ==
  /\ Alive /\ screen = "shown"
  /\ screen' = "hidden"
  /\ UNCHANGED <<gen, ready, managed, showing, dead, tasks, file, history>>

Show ==
  /\ Alive /\ screen = "hidden"
  /\ screen' = "shown"
  /\ UNCHANGED <<gen, ready, managed, showing, dead, tasks, file, history>>

\* Back: the activity is destroyed and knows no dialog any more.
Leave ==
  /\ HasInput
  /\ screen' = "gone" /\ managed' = {}
  /\ UNCHANGED <<gen, ready, showing, dead, tasks, file, history>>

Rotate_KeepsDialog ==
  /\ Alive /\ screen = "shown" /\ gen < MaxGens
  /\ gen' = gen + 1
  /\ \E k \in Tasks : Execute(k, "details", gen + 1)
  /\ managed' = managed
  /\ dead' = IF "details" \in showing THEN dead \cup {gen} ELSE dead
  /\ showing' = {"details"} \cup {"download" : g \in managed}
  /\ UNCHANGED <<screen, ready, file, history>>

\* The activity is destroyed and created anew: onCreate fetches the details
\* again, and onCreateDialog shows the download dialog that the old one knew.
Rotate ==
  /\ Alive /\ screen = "shown" /\ gen < MaxGens
  /\ gen' = gen + 1
  /\ \E k \in Tasks : Execute(k, "details", gen + 1)
  /\ managed' = {gen + 1 : g \in managed}
  /\ dead' = IF "details" \in showing THEN dead \cup {gen} ELSE dead
  /\ showing' = {"details"} \cup {"download" : g \in managed}
  /\ UNCHANGED <<screen, ready, file, history>>

-----------------------------------------------------------------------------
(* The tasks in the background.                                            *)

Run_Pool(k) ==
  /\ Alive /\ stage[k] = "queued"
  /\ stage' = [stage EXCEPT ![k] = "running"]
  /\ UNCHANGED <<activity, kind, of, content, written, posts, file, history>>

\* The executor starts a task.
Run(k) ==
  /\ Alive /\ stage[k] = "queued"
  /\ Serial => \A j \in Tasks : stage[j] # "running" /\ (j < k => stage[j] # "queued")
  /\ stage' = [stage EXCEPT ![k] = "running"]
  /\ UNCHANGED <<activity, kind, of, content, written, posts, file, history>>

\* getResourceDetailJSON: the answer, or null after an exception.
Details(k) ==
  /\ Alive /\ stage[k] = "running" /\ kind[k] = "details"
  /\ stage' = [stage EXCEPT ![k] = "answered"]
  /\ posts' = Append(posts, k)
  /\ \E c \in {"rows", "empty", "null"} : content' = [content EXCEPT ![k] = c]
  /\ UNCHANGED <<activity, kind, of, written, file, history>>

\* new FileOutputStream empties the file.
OpenFile(k) ==
  /\ Alive /\ stage[k] = "running" /\ kind[k] = "download" /\ written[k] = Closed
  /\ written' = [written EXCEPT ![k] = 0]
  /\ file' = <<>>
  /\ UNCHANGED <<activity, kind, of, stage, content, posts, history>>

\* fos.write behind the blocks that this stream has written.
Write(k) ==
  /\ Alive /\ stage[k] = "running" /\ kind[k] = "download" /\ written[k] < MaxBlocks
  /\ written' = [written EXCEPT ![k] = @ + 1]
  /\ file' = [i \in 1..(IF Len(file) > written[k] THEN Len(file) ELSE written[k] + 1) |->
                CASE i = written[k] + 1 -> "data"
                  [] i # written[k] + 1 /\ i <= Len(file) -> file[i]
                  [] OTHER -> "hole"]
  /\ UNCHANGED <<activity, kind, of, stage, content, posts, history>>

EndDownload_NoPost(k) ==
  /\ Alive /\ stage[k] = "running" /\ kind[k] = "download"
  /\ stage' = [stage EXCEPT ![k] = "answered"]
  /\ posts' = IF written[k] = MaxBlocks THEN Append(posts, k) ELSE posts
  /\ UNCHANGED <<activity, kind, of, content, written, file, history>>

\* The copy is complete, or an exception was caught at any point: both return
\* null.
EndDownload(k) ==
  /\ Alive /\ stage[k] = "running" /\ kind[k] = "download"
  /\ stage' = [stage EXCEPT ![k] = "answered"]
  /\ posts' = Append(posts, k)
  /\ UNCHANGED <<activity, kind, of, content, written, file, history>>

-----------------------------------------------------------------------------
(* onPostExecute of both tasks, in the main thread.                        *)

Post_KeepsDialog ==
  LET k == Head(posts)
      g == of[k]
  IN
  /\ Alive /\ posts # <<>>
  /\ posts' = Tail(posts)
  /\ stage' = [stage EXCEPT ![k] = "over"]
  /\ \/ /\ kind[k] = "details" /\ content[k] # "null" /\ g \notin dead
        /\ ready' = IF content[k] = "rows" THEN ready \cup {g} ELSE ready
        /\ showing' = IF g = gen THEN showing \ {"details"} ELSE showing
     \/ /\ kind[k] = "download" /\ g \in managed
        /\ UNCHANGED <<ready, showing>>
  /\ UNCHANGED <<screen, gen, managed, dead, kind, of, content, written, file, history>>

\* With rows the button gets its listener, other content is no JSON array;
\* then the dialog of the task goes.
Post ==
  LET k == Head(posts)
      g == of[k]
  IN
  /\ Alive /\ posts # <<>>
  /\ posts' = Tail(posts)
  /\ stage' = [stage EXCEPT ![k] = "over"]
  /\ \/ /\ kind[k] = "details" /\ content[k] # "null" /\ g \notin dead
        /\ ready' = IF content[k] = "rows" THEN ready \cup {g} ELSE ready
        /\ showing' = IF g = gen THEN showing \ {"details"} ELSE showing
     \/ /\ kind[k] = "download" /\ g \in managed
        /\ showing' = showing \ {"download"}
        /\ UNCHANGED ready
  /\ UNCHANGED <<screen, gen, managed, dead, kind, of, content, written, file, history>>

\* content.equals on null; dismiss without a window; dismissDialog in an
\* activity that knows no such dialog.
PostFails ==
  LET k == Head(posts) IN
  /\ Alive /\ posts # <<>>
  /\ \/ kind[k] = "details" /\ content[k] = "null" /\ crash' = "noContent"
     \/ kind[k] = "details" /\ content[k] # "null" /\ of[k] \in dead
        /\ crash' = "noWindow"
     \/ kind[k] = "download" /\ of[k] \notin managed /\ crash' = "noDialog"
  /\ UNCHANGED <<activity, tasks, file, dismissed>>

-----------------------------------------------------------------------------
Next ==
  \/ Download \/ Dismiss \/ Hide \/ Show \/ Leave \/ Rotate
  \/ \E k \in Tasks : Run(k) \/ Details(k) \/ OpenFile(k) \/ Write(k) \/ EndDownload(k)
  \/ Post \/ PostFails

Spec == Init /\ [][Next]_vars

\* The executor and the main thread's queue go on; the server may not.
FairSpec == Spec /\ WF_vars(Post \/ PostFails) /\ \A k \in Tasks : WF_vars(Run(k))

-----------------------------------------------------------------------------
(* Properties.                                                             *)

\* Every variable has its type.
TypeOK ==
  /\ screen \in {"shown", "hidden", "gone"} /\ gen \in Gens
  /\ ready \subseteq Gens /\ managed \subseteq {gen} /\ dead \subseteq Gens
  /\ showing \subseteq {"details", "download"}
  /\ kind \in [Tasks -> {"details", "download"}]
  /\ of \in [Tasks -> Gens]
  /\ stage \in [Tasks -> {"unused", "queued", "running", "answered", "over"}]
  /\ content \in [Tasks -> {"rows", "empty", "null"}]
  /\ written \in [Tasks -> 0..Closed]
  /\ posts \in Seq(Tasks)
  /\ file \in Seq({"data", "hole"}) /\ Len(file) <= MaxBlocks
  /\ dismissed \in BOOLEAN
  /\ crash \in {"none", "noContent", "noWindow", "noDialog"}

\* No task finds its dialog gone as long as the user waits for the dialogs
\* and does not turn the device.
SafeWhileWaiting ==
  crash \in {"noWindow", "noDialog"} => dismissed \/ gen > 1

\* Until the user puts a dialog away or turns the device, the download dialog
\* shows exactly while a download is under way, and there is one at most.
DialogMeansDownload ==
  Alive /\ ~dismissed /\ gen = 1 =>
    /\ \A j, k \in Downloads : j = k
    /\ "download" \in showing <=> Downloads # {}

\* When tasks run one at a time, the file is the resource up to some block,
\* whatever several downloads of it, their failures and rotations do.
FileIsPrefix == \A i \in 1..Len(file) : file[i] = "data"

\* The dialogs go away by themselves, provided that connections end and the
\* device is not turned.
DialogsGo ==
  []<>(~Alive \/ \A k \in Tasks : stage[k] # "running")
    => (showing # {} ~> showing = {} \/ ~Alive \/ gen > 1)
=============================================================================
