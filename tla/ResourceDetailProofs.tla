------------------------ MODULE ResourceDetailProofs ------------------------
(***************************************************************************)
(* For resources of any length, and any number of tasks and rotations: no  *)
(* task finds its dialog gone before the user interferes, the download     *)
(* dialog means a download, and, when tasks run one at a time, the file    *)
(* has no holes.                                                           *)
(***************************************************************************)
EXTENDS ResourceDetail, TLAPS

\* A task belongs to an activity that was created, and the first activity
\* cannot have been destroyed before a second is there.
Owners ==
  /\ \A k \in Tasks : of[k] \in 1..gen
  /\ gen = 1 => dead = {}

\* The queue of the main thread holds answered tasks, each once.
Queue ==
  /\ \A i \in 1..Len(posts) : stage[posts[i]] = "answered"
  /\ \A i, j \in 1..Len(posts) : posts[i] = posts[j] => i = j

\* Before the user interferes, an activity with a download knows its dialog.
Known == Alive /\ ~dismissed /\ gen = 1 /\ Downloads # {} => 1 \in managed

IInv == TypeOK /\ Owners /\ Queue /\ Known /\ DialogMeansDownload /\ SafeWhileWaiting

\* The one download that runs is behind the last block of the file; a task
\* that has not started has opened nothing.
Stream ==
  /\ \A k \in Tasks : stage[k] \in {"unused", "queued"} => written[k] = Closed
  /\ \A j, k \in Tasks : stage[j] = "running" /\ stage[k] = "running" => j = k
  /\ \A k \in Tasks : stage[k] = "running" /\ written[k] # Closed => Len(file) = written[k]

-----------------------------------------------------------------------------
\* A screen just opened: its details are asked for, and nothing else is there.
LEMMA InitIInv == Init => IInv
<1> SUFFICES ASSUME Init PROVE IInv
  OBVIOUS
<1>1. TypeOK
  <2>1. 1 \in Gens /\ Closed \in 0..Closed
    BY DetailAssumption DEF Gens, Closed
  <2>2. posts \in Seq(Tasks) /\ file \in Seq({"data", "hole"}) /\ Len(file) <= MaxBlocks
    BY DetailAssumption DEF Init
  <2> QED BY <2>1, <2>2 DEF Init, TypeOK
<1>2. Owners /\ Queue /\ SafeWhileWaiting
  BY DEF Init, Owners, Queue, SafeWhileWaiting
<1>3. Downloads = {}
  BY DEF Init, Downloads
<1>4. Known /\ DialogMeansDownload
  BY <1>3 DEF Init, Known, DialogMeansDownload
<1> QED BY <1>1, <1>2, <1>4 DEF IInv

\* Whatever starts a task leaves the queue alone.
LEMMA ExecuteKeeps ==
  ASSUME IInv, NEW k \in Tasks, NEW what \in {"details", "download"}, NEW g \in Gens,
         Execute(k, what, g)
  PROVE  /\ Queue'
         /\ kind' \in [Tasks -> {"details", "download"}]
         /\ of' \in [Tasks -> Gens]
         /\ stage' \in [Tasks -> {"unused", "queued", "running", "answered", "over"}]
         /\ \A j \in Tasks : of'[j] \in {of[j], g}
         /\ Downloads' = IF what = "download" THEN Downloads \cup {k} ELSE Downloads
<1> USE DEF IInv, TypeOK, Execute
<1>1. Queue'
  BY DEF Queue
<1>2. Downloads' = IF what = "download" THEN Downloads \cup {k} ELSE Downloads
  BY DEF Downloads, Live
<1> QED BY <1>1, <1>2

\* Every action keeps the types; Write and Post are the ones with something to show.
LEMMA StepTypes == IInv /\ [Next]_vars => TypeOK'
<1> SUFFICES ASSUME IInv, [Next]_vars PROVE TypeOK'
  OBVIOUS
<1> USE DEF IInv
<1>1. CASE Download
  <2>1. gen \in Gens
    BY DEF TypeOK
  <2>2. PICK k \in Tasks : Execute(k, "download", gen)
    BY <1>1 DEF Download
  <2> QED BY <1>1, <2>1, <2>2, ExecuteKeeps DEF TypeOK, Download, Execute, history
<1>2. CASE Rotate
  <2>1. gen + 1 \in Gens
    BY <1>2, DetailAssumption DEF TypeOK, Rotate, Gens
  <2>2. PICK k \in Tasks : Execute(k, "details", gen + 1)
    BY <1>2 DEF Rotate
  <2> QED BY <1>2, <2>1, <2>2, ExecuteKeeps DEF TypeOK, Rotate, Execute, history
<1>3. CASE Dismiss \/ Hide \/ Show \/ Leave
  BY <1>3 DEF TypeOK, Dismiss, Hide, Show, Leave, tasks, history
<1>4. ASSUME NEW k \in Tasks, Run(k) \/ Details(k) \/ EndDownload(k) PROVE TypeOK'
  <2>1. UNCHANGED <<activity, kind, of, written, file, history>>
    BY <1>4 DEF Run, Details, EndDownload
  <2>2. stage' \in [Tasks -> {"unused", "queued", "running", "answered", "over"}]
    BY <1>4 DEF TypeOK, Run, Details, EndDownload
  <2>3. content' \in [Tasks -> {"rows", "empty", "null"}]
    BY <1>4 DEF TypeOK, Run, Details, EndDownload
  <2>4. posts' \in Seq(Tasks)
    <3>1. posts \in Seq(Tasks) /\ posts' \in {posts, Append(posts, k)}
      BY <1>4 DEF TypeOK, Run, Details, EndDownload
    <3> QED BY <3>1
  <2> QED BY <2>1, <2>2, <2>3, <2>4 DEF TypeOK, activity, history
<1>9. ASSUME NEW k \in Tasks, OpenFile(k) PROVE TypeOK'
  <2>1. 0 \in 0..Closed /\ Len(<<>>) <= MaxBlocks
    BY DetailAssumption DEF Closed
  <2> QED BY <1>9, <2>1 DEF TypeOK, OpenFile, activity, history
<1>5. ASSUME NEW k \in Tasks, Write(k) PROVE TypeOK'
  <2> DEFINE n == IF Len(file) > written[k] THEN Len(file) ELSE written[k] + 1
  <2>1. written[k] \in 0..Closed /\ written[k] < MaxBlocks /\ n \in 0..MaxBlocks
    BY <1>5, DetailAssumption DEF TypeOK, Write
  <2>2. written[k] + 1 \in 0..Closed
    BY <2>1, DetailAssumption DEF Closed
  <2>3. \A i \in 1..n : i <= Len(file) => file[i] \in {"data", "hole"}
    BY <2>1 DEF TypeOK
  <2>4. file' \in [1..n -> {"data", "hole"}]
    BY <1>5, <2>3 DEF Write
  <2>5. file' \in Seq({"data", "hole"}) /\ Len(file') <= MaxBlocks
    BY <2>1, <2>4, DetailAssumption
  <2> QED BY <1>5, <2>2, <2>5 DEF TypeOK, Write, activity, history
<1>6. CASE Post
  <2>1. /\ posts' \in Seq(Tasks)
        /\ stage' \in [Tasks -> {"unused", "queued", "running", "answered", "over"}]
        /\ UNCHANGED <<screen, gen, managed, dead, kind, of, content, written, file, history>>
    BY <1>6 DEF TypeOK, Post
  <2>2. of[Head(posts)] \in Gens
    BY <1>6 DEF TypeOK, Post
  <2>3. ready' \subseteq Gens /\ showing' \subseteq {"details", "download"}
    BY <1>6, <2>2 DEF TypeOK, Post
  <2> QED BY <2>1, <2>3 DEF TypeOK, history
<1>7. CASE PostFails
  BY <1>7 DEF TypeOK, PostFails, activity, tasks
<1>8. CASE UNCHANGED vars
  BY <1>8 DEF TypeOK, vars, activity, tasks, history
<1> QED BY <1>1, <1>2, <1>3, <1>4, <1>5, <1>6, <1>7, <1>8, <1>9 DEF Next

\* Only Rotate moves to another activity, and its task belongs to that one.
LEMMA StepOwners == IInv /\ [Next]_vars => Owners'
<1> SUFFICES ASSUME IInv, [Next]_vars PROVE Owners'
  OBVIOUS
<1> USE DEF IInv, Owners
<1>0. gen \in Nat /\ gen >= 1
  BY DetailAssumption DEF TypeOK, Gens
<1>1. CASE Download
  <2>1. PICK k \in Tasks : Execute(k, "download", gen)
    BY <1>1 DEF Download
  <2>2. \A j \in Tasks : of'[j] \in {of[j], gen}
    BY <2>1, ExecuteKeeps DEF TypeOK
  <2> QED BY <1>0, <1>1, <2>2 DEF Download
<1>2. CASE Rotate
  <2>1. gen + 1 \in Gens
    BY <1>2, DetailAssumption DEF TypeOK, Rotate, Gens
  <2>2. PICK k \in Tasks : Execute(k, "details", gen + 1)
    BY <1>2 DEF Rotate
  <2>3. \A j \in Tasks : of'[j] \in {of[j], gen + 1}
    BY <2>1, <2>2, ExecuteKeeps
  <2> QED BY <1>0, <1>2, <2>3 DEF Rotate
<1>3. CASE UNCHANGED <<gen, dead, of>>
  BY <1>3
<1>4. ASSUME NEW k \in Tasks, Run(k) \/ Details(k) \/ OpenFile(k) \/ Write(k) \/ EndDownload(k)
      PROVE UNCHANGED <<gen, dead, of>>
  BY <1>4 DEF Run, Details, OpenFile, Write, EndDownload, activity
<1>5. CASE Dismiss \/ Hide \/ Show \/ Leave \/ Post \/ PostFails \/ UNCHANGED vars
  BY <1>3, <1>5 DEF Dismiss, Hide, Show, Leave, Post, PostFails, vars, activity, tasks
<1> QED BY <1>1, <1>2, <1>3, <1>4, <1>5 DEF Next

\* A task that answers is in no post yet; a post that is handled leaves the queue.
LEMMA StepQueue == IInv /\ [Next]_vars => Queue'
<1> SUFFICES ASSUME IInv, [Next]_vars PROVE Queue'
  OBVIOUS
<1> USE DEF IInv
<1>1. CASE Download
  <2>1. PICK k \in Tasks : Execute(k, "download", gen)
    BY <1>1 DEF Download
  <2> QED BY <2>1, ExecuteKeeps DEF TypeOK
<1>2. CASE Rotate
  <2>1. gen + 1 \in Gens
    BY <1>2, DetailAssumption DEF TypeOK, Rotate, Gens
  <2>2. PICK k \in Tasks : Execute(k, "details", gen + 1)
    BY <1>2 DEF Rotate
  <2> QED BY <2>1, <2>2, ExecuteKeeps
<1>3. ASSUME NEW k \in Tasks, Details(k) \/ EndDownload(k) PROVE Queue'
  <2>1. stage[k] = "running" /\ posts' = Append(posts, k)
        /\ stage' = [stage EXCEPT ![k] = "answered"]
    BY <1>3 DEF Details, EndDownload
  <2>2. \A i \in 1..Len(posts) : posts[i] \in Tasks /\ posts[i] # k
    BY <2>1 DEF TypeOK, Queue
  <2>3. posts \in Seq(Tasks) /\ Len(posts') = Len(posts) + 1
        /\ posts'[Len(posts) + 1] = k /\ \A i \in 1..Len(posts) : posts'[i] = posts[i]
    BY <2>1 DEF TypeOK
  <2>4. \A i \in 1..Len(posts') : stage'[posts'[i]] = "answered"
    BY <2>1, <2>2, <2>3 DEF TypeOK, Queue
  <2>5. \A i, j \in 1..Len(posts') : posts'[i] = posts'[j] => i = j
    BY <2>2, <2>3 DEF Queue
  <2> QED BY <2>4, <2>5 DEF Queue
<1>4. ASSUME NEW k \in Tasks, Run(k) PROVE Queue'
  BY <1>4 DEF TypeOK, Queue, Run
<1>5. CASE Post
  <2>1. /\ posts # <<>> /\ posts' = Tail(posts)
        /\ stage' = [stage EXCEPT ![posts[1]] = "over"]
    BY <1>5 DEF Post, TypeOK
  <2>2. \A i \in 1..Len(posts') : i + 1 \in 1..Len(posts) /\ posts'[i] = posts[i + 1]
    BY <2>1 DEF TypeOK
  <2>3. \A i \in 1..Len(posts') : posts'[i] \in Tasks /\ posts'[i] # posts[1]
    BY <2>1, <2>2 DEF TypeOK, Queue
  <2>4. \A i \in 1..Len(posts') : stage'[posts'[i]] = "answered"
    BY <2>1, <2>2, <2>3 DEF TypeOK, Queue
  <2>5. \A i, j \in 1..Len(posts') : posts'[i] = posts'[j] => i = j
    <3> SUFFICES ASSUME NEW i \in 1..Len(posts'), NEW j \in 1..Len(posts'),
                        posts'[i] = posts'[j]
                 PROVE  i = j
      OBVIOUS
    <3>1. i + 1 = j + 1
      BY <2>2 DEF Queue
    <3> QED BY <3>1
  <2> QED BY <2>4, <2>5 DEF Queue
<1>6. ASSUME NEW k \in Tasks, OpenFile(k) \/ Write(k) PROVE Queue'
  BY <1>6 DEF Queue, OpenFile, Write
<1>7. CASE Dismiss \/ Hide \/ Show \/ Leave \/ PostFails \/ UNCHANGED vars
  BY <1>7 DEF Queue, Dismiss, Hide, Show, Leave, PostFails, vars, tasks
<1> QED BY <1>1, <1>2, <1>3, <1>4, <1>5, <1>6, <1>7 DEF Next

\* The download dialog, the downloads and what the activity knows of them
\* change together: a click needs a screen without dialogs, so without
\* downloads, and only the post of the one download takes its dialog away.
LEMMA StepDialog == IInv /\ [Next]_vars => Known' /\ DialogMeansDownload'
<1> SUFFICES ASSUME IInv, [Next]_vars PROVE Known' /\ DialogMeansDownload'
  OBVIOUS
<1> USE DEF IInv, Known, DialogMeansDownload
<1>0. gen \in Nat /\ gen >= 1
  BY DetailAssumption DEF TypeOK, Gens
<1>1. CASE Download
  <2>1. PICK k \in Tasks : Execute(k, "download", gen)
    BY <1>1 DEF Download
  <2>2. Downloads' = Downloads \cup {k}
    BY <2>1, ExecuteKeeps DEF TypeOK
  <2>3. /\ UNCHANGED <<gen, dismissed, crash>> /\ Alive /\ showing = {}
        /\ managed' = managed \cup {gen} /\ showing' = showing \cup {"download"}
    BY <1>1 DEF Download, HasInput, history
  <2>4. ~dismissed /\ gen = 1 => Downloads = {}
    BY <2>3
  <2> QED BY <2>2, <2>3, <2>4 DEF Alive
<1>2. CASE Rotate
  BY <1>0, <1>2 DEF Rotate
<1>3. CASE Dismiss
  BY <1>3 DEF Dismiss
<1>4. CASE Leave
  <2>1. /\ UNCHANGED <<gen, showing, dismissed, crash>> /\ Alive /\ showing = {}
        /\ Downloads' = Downloads
    BY <1>4 DEF Leave, HasInput, tasks, history, Downloads, Live
  <2> QED BY <2>1 DEF Alive
<1>5. CASE UNCHANGED <<gen, managed, showing, dismissed, crash, Downloads>>
  BY <1>5 DEF Alive
<1>6. ASSUME NEW k \in Tasks, Run(k) \/ Details(k) \/ OpenFile(k) \/ Write(k) \/ EndDownload(k)
      PROVE UNCHANGED <<gen, managed, showing, dismissed, crash, Downloads>>
  <2>1. /\ UNCHANGED <<gen, managed, showing, dismissed, crash, kind>>
        /\ \A j \in Tasks : stage'[j] \in {"unused", "over"} <=> stage[j] \in {"unused", "over"}
    BY <1>6 DEF Run, Details, OpenFile, Write, EndDownload, activity, history, TypeOK
  <2> QED BY <2>1 DEF Downloads, Live
<1>7. CASE Hide \/ Show \/ UNCHANGED vars
  BY <1>5, <1>7 DEF Hide, Show, vars, activity, tasks, history, Downloads, Live
<1>8. CASE Post
  <2> DEFINE k == Head(posts)
  <2>1. k \in Tasks /\ stage[k] = "answered"
    BY <1>8 DEF Post, TypeOK, Queue
  <2>2. /\ UNCHANGED <<gen, managed, dismissed, crash, kind>> /\ Alive
        /\ stage' = [stage EXCEPT ![k] = "over"]
    BY <1>8 DEF Post, history
  <2>3. Downloads' = Downloads \ {k}
    BY <2>1, <2>2 DEF Downloads, Live, TypeOK
  <2>4. CASE kind[k] = "details"
    <3>1. k \notin Downloads
      BY <2>4 DEF Downloads
    <3>2. "download" \in showing' <=> "download" \in showing
      BY <1>8, <2>4 DEF Post
    <3> QED BY <2>2, <2>3, <3>1, <3>2 DEF Alive
  <2>5. CASE kind[k] = "download"
    <3>1. k \in Downloads
      BY <2>1, <2>5 DEF Downloads, Live
    <3>2. "download" \notin showing'
      BY <1>8, <2>5 DEF Post
    <3> QED BY <2>2, <2>3, <3>1, <3>2 DEF Alive
  <2> QED BY <2>1, <2>4, <2>5 DEF TypeOK
<1>9. CASE PostFails
  BY <1>9 DEF PostFails, Alive
<1> QED BY <1>1, <1>2, <1>3, <1>4, <1>5, <1>6, <1>7, <1>8, <1>9 DEF Next

\* Only a post can fail: the first activity was not destroyed with its
\* details dialog, and knows the dialog of its download.
LEMMA StepSafe == IInv /\ [Next]_vars => SafeWhileWaiting'
<1> SUFFICES ASSUME IInv, [Next]_vars PROVE SafeWhileWaiting'
  OBVIOUS
<1> USE DEF IInv, SafeWhileWaiting
<1>0. gen \in Nat /\ gen >= 1
  BY DetailAssumption DEF TypeOK, Gens
<1>1. CASE PostFails
  <2> DEFINE k == Head(posts)
  <2>1. k \in Tasks /\ stage[k] = "answered" /\ Alive /\ UNCHANGED <<gen, dismissed>>
    BY <1>1 DEF PostFails, TypeOK, Queue, activity
  <2>2. CASE of[k] \in dead
    BY <1>0, <2>1, <2>2 DEF Owners
  <2>3. CASE kind[k] = "download" /\ of[k] \notin managed
    <3>1. k \in Downloads
      BY <2>1, <2>3 DEF Downloads, Live
    <3>2. gen = 1 => of[k] = 1
      BY <2>1 DEF Owners
    <3> QED BY <1>0, <2>1, <2>3, <3>1, <3>2 DEF Known
  <2>4. CASE crash' = "noContent"
    BY <2>4
  <2> QED BY <1>1, <2>2, <2>3, <2>4 DEF PostFails
<1>2. CASE Rotate
  BY <1>0, <1>2 DEF Rotate, history
<1>3. ASSUME NEW k \in Tasks, Run(k) \/ Details(k) \/ OpenFile(k) \/ Write(k) \/ EndDownload(k)
      PROVE UNCHANGED <<gen, dismissed, crash>>
  BY <1>3 DEF Run, Details, OpenFile, Write, EndDownload, activity, history
<1>4. CASE Download \/ Dismiss \/ Hide \/ Show \/ Leave \/ Post \/ UNCHANGED vars
  BY <1>4 DEF Download, Dismiss, Hide, Show, Leave, Post, vars, activity, history
<1> QED BY <1>1, <1>2, <1>3, <1>4 DEF Next

\* The invariant is inductive, whatever the executor does.
LEMMA Inductive == IInv /\ [Next]_vars => IInv'
  BY StepTypes, StepOwners, StepQueue, StepDialog, StepSafe DEF IInv

\* Every reachable state satisfies the invariant.
LEMMA Invariant == Spec => []IInv
  BY InitIInv, Inductive, PTL DEF Spec

\* Every variable has its type, and the file is no longer than the resource.
THEOREM TypeCorrect == Spec => []TypeOK
<1>1. IInv => TypeOK
  BY DEF IInv
<1> QED BY <1>1, Invariant, PTL

\* A user who waits for the dialogs and does not turn the device meets no
\* task that finds its dialog gone.
THEOREM SafeWhileUserWaits == Spec => []SafeWhileWaiting
<1>1. IInv => SafeWhileWaiting
  BY DEF IInv
<1> QED BY <1>1, Invariant, PTL

\* Until the user interferes, the download dialog is there for one download,
\* and only then.
THEOREM DialogIsDownload == Spec => []DialogMeansDownload
<1>1. IInv => DialogMeansDownload
  BY DEF IInv
<1> QED BY <1>1, Invariant, PTL

-----------------------------------------------------------------------------
\* With the serial executor the stream that writes is the last that opened
\* the file, so that each block follows the one before.
LEMMA StepStream ==
  ASSUME Serial, IInv, Stream, FileIsPrefix, [Next]_vars
  PROVE  Stream' /\ FileIsPrefix'
<1> USE DEF IInv, Stream, FileIsPrefix
<1>1. CASE UNCHANGED <<file, written>> /\ \A k \in Tasks :
               \/ stage'[k] = stage[k]
               \/ stage[k] = "unused" /\ stage'[k] = "queued"
               \/ stage'[k] \in {"answered", "over"}
  BY <1>1 DEF TypeOK
<1>2. CASE Download
  BY <1>1, <1>2 DEF Download, Execute, TypeOK
<1>3. CASE Rotate
  BY <1>1, <1>3 DEF Rotate, Execute, TypeOK
<1>4. CASE Dismiss \/ Hide \/ Show \/ Leave \/ PostFails \/ UNCHANGED vars
  BY <1>1, <1>4 DEF Dismiss, Hide, Show, Leave, PostFails, vars, tasks
<1>5. ASSUME NEW k \in Tasks, Details(k) \/ EndDownload(k) PROVE Stream' /\ FileIsPrefix'
  BY <1>1, <1>5 DEF Details, EndDownload, TypeOK
<1>6. CASE Post
  <2>1. Head(posts) \in Tasks
    BY <1>6 DEF Post, TypeOK
  <2> QED BY <1>1, <1>6, <2>1 DEF Post, TypeOK
<1>7. ASSUME NEW k \in Tasks, Run(k) PROVE Stream' /\ FileIsPrefix'
  BY <1>7 DEF Run, TypeOK
<1>8. ASSUME NEW k \in Tasks, OpenFile(k) PROVE Stream' /\ FileIsPrefix'
  BY <1>8, DetailAssumption DEF OpenFile, TypeOK, Closed
<1>9. ASSUME NEW k \in Tasks, Write(k) PROVE Stream' /\ FileIsPrefix'
  <2>1. /\ stage[k] = "running" /\ written[k] < MaxBlocks
        /\ written' = [written EXCEPT ![k] = @ + 1] /\ stage' = stage
    BY <1>9 DEF Write
  <2>2. Len(file) = written[k] /\ written[k] \in Nat
    BY <2>1, DetailAssumption DEF TypeOK, Closed
  <2>3. file' = [i \in 1..(written[k] + 1) |->
                   CASE i = written[k] + 1 -> "data"
                     [] i # written[k] + 1 /\ i <= Len(file) -> file[i]
                     [] OTHER -> "hole"]
    BY <1>9, <2>2 DEF Write
  <2>4. Len(file') = written[k] + 1
    BY <2>2, <2>3
  <2>5. \A i \in 1..(written[k] + 1) : file'[i] = "data"
    BY <2>2, <2>3
  <2> QED BY <2>1, <2>2, <2>4, <2>5 DEF TypeOK
<1> QED BY <1>2, <1>3, <1>4, <1>5, <1>6, <1>7, <1>8, <1>9 DEF Next

\* Several downloads of the resource, their failures and rotations leave the
\* file with the resource up to some block, when tasks run one at a time.
THEOREM FileHasNoHoles == Serial => (Spec => []FileIsPrefix)
<1> SUFFICES ASSUME Serial PROVE Spec => []FileIsPrefix
  OBVIOUS
<1>1. Init => Stream /\ FileIsPrefix
  BY DEF Init, Stream, FileIsPrefix
<1>2. IInv /\ Stream /\ FileIsPrefix /\ [Next]_vars => Stream' /\ FileIsPrefix'
  BY StepStream
<1> QED BY <1>1, <1>2, Invariant, PTL DEF Spec
=============================================================================
