------------------------- MODULE ServiceListsProofs -------------------------
(***************************************************************************)
(* For any number of tabs, loads, edits and rotations: the user who waits  *)
(* meets no load that fails late, rows open what they show, and a quiet    *)
(* list shows its feed; when tasks run one at a time, a dialog keeps the   *)
(* user off the lists that load, and lists only get newer; a list that     *)
(* loads once shows no dialog without its load.                            *)
(***************************************************************************)
EXTENDS ServiceLists, TLAPS

Stages == {"unused", "queued", "running", "answered", "over"}

\* Fragments and loads belong to generations of the activity that have been;
\* the views to the present one.
Owners ==
  /\ \A k \in Loads : of[k][1] <= gen
  /\ \A f \in view : f[1] = gen
  /\ gen = 1 => dead = {}

\* The dialogs are those of loads that were started, and the one in the field
\* is of a load of the fragment.
Fields ==
  /\ \A d \in showing : stage[d] # "unused"
  /\ \A f \in Frags : progressDialog[f] # 0 =>
       stage[progressDialog[f]] # "unused" /\ of[progressDialog[f]] = f

\* The queue of the main thread holds answered loads, each once.
Queue ==
  /\ \A i \in 1..Len(posts) : stage[posts[i]] = "answered"
  /\ \A i, j \in 1..Len(posts) : posts[i] = posts[j] => i = j

\* Until the user puts a dialog away, a live load has a dialog: its own, or,
\* when a second onStart replaced that one in the field, one that no post
\* will ever dismiss.
Covered ==
  ~dismissed => \A k \in Loads : Live(k) /\ of[k][1] = gen =>
    \/ k \in showing
    \/ \E d \in showing : of[d] = of[k] /\ d # progressDialog[of[k]]

\* Until then, or a rotation, its fragment has a view.
InView ==
  ~dismissed /\ gen = 1 => \A k \in Loads : Live(k) => of[k] \in view

\* A list that differs from its feed has a load whose post will show the feed.
Coming ==
  /\ \A f \in Frags : list[f] # rssFeed[f] =>
       \E k \in Loads : stage[k] = "answered" /\ of[k] = f
  /\ \A f \in Frags : rssFeed[f] = NoFeed => list[f] = NoFeed
  /\ \A k \in Loads : stage[k] = "running" => fetched[k] # NoFeed

IInv ==
  /\ TypeOK /\ Owners /\ Fields /\ Queue /\ Covered /\ InView /\ Coming
  /\ SafeWhileWaiting /\ RowsOpenWhatTheyShow

-----------------------------------------------------------------------------
(* Starting loads.                                                         *)

\* The fragments fs, all of generation g, start loads.
Starts(fs, start, g) ==
  /\ fs \subseteq Frags /\ \A f \in fs : f[1] = g
  /\ start \in NewLoads(fs) /\ StartLoads(fs, start)

\* What onStart or onCreate of the fragments fs of one activity does.
LEMMA Starting ==
  ASSUME TypeOK, NEW fs, NEW start, NEW g, Starts(fs, start, g)
  PROVE  /\ start \in [fs -> Loads]
         /\ \A f \in fs : stage[start[f]] = "unused" /\ stage'[start[f]] = "queued"
                          /\ of'[start[f]] = f /\ progressDialog'[f] = start[f]
         /\ \A k \in Loads : \/ stage'[k] = stage[k] /\ of'[k] = of[k]
                             \/ \E f \in fs : start[f] = k
         /\ \A f \in Frags \ fs : progressDialog'[f] = progressDialog[f]
         /\ stage' \in [Loads -> Stages] /\ of' \in [Loads -> Frags]
         /\ progressDialog' \in [Frags -> Loads \cup {0}]
<1> USE DEF Starts
<1>1. /\ start \in [fs -> Loads]
      /\ \A f, h \in fs : f[2] < h[2] => start[f] < start[h]
      /\ \A f \in fs : stage[start[f]] = "unused"
  BY DEF NewLoads
<1>2. \A f, h \in fs : start[f] = start[h] => f = h
  <2> SUFFICES ASSUME NEW f \in fs, NEW h \in fs, start[f] = start[h] PROVE f = h
    OBVIOUS
  <2>1. f = <<f[1], f[2]>> /\ h = <<h[1], h[2]>> /\ f[2] \in Nat /\ h[2] \in Nat
    BY ListsAssumption DEF Frags, Tabs
  <2>2. start[f] \in Nat /\ start[h] \in Nat
    BY <1>1, ListsAssumption DEF Loads
  <2>3. ~(f[2] < h[2]) /\ ~(h[2] < f[2])
    BY <1>1, <2>2
  <2>4. f[2] = h[2]
    BY <2>1, <2>3
  <2> QED BY <2>1, <2>4
<1>3. \A f \in fs : stage'[start[f]] = "queued" /\ progressDialog'[f] = start[f]
  BY <1>1 DEF StartLoads
<1>4. \A f \in fs : of'[start[f]] = f
  <2> SUFFICES ASSUME NEW f \in fs PROVE of'[start[f]] = f
    OBVIOUS
  <2>1. of'[start[f]] = CHOOSE h \in fs : start[h] = start[f]
    BY <1>1 DEF StartLoads
  <2> QED BY <1>2, <2>1
<1>5. \A k \in Loads : \/ stage'[k] = stage[k] /\ of'[k] = of[k]
                       \/ \E f \in fs : start[f] = k
  BY DEF StartLoads
<1>6. \A f \in Frags \ fs : progressDialog'[f] = progressDialog[f]
  BY DEF StartLoads
<1>7. stage' \in [Loads -> Stages]
  BY DEF StartLoads, TypeOK, Stages
<1>8. of' \in [Loads -> Frags]
  <2>1. \A k \in Loads : of'[k] \in Frags
    BY <1>4, <1>5 DEF TypeOK
  <2> QED BY <2>1 DEF StartLoads
<1>9. progressDialog' \in [Frags -> Loads \cup {0}]
  BY <1>1 DEF StartLoads, TypeOK
<1> QED BY <1>1, <1>3, <1>4, <1>5, <1>6, <1>7, <1>8, <1>9

\* The queue, the fields and the feeds do not notice that loads start.
LEMMA StartKeeps ==
  ASSUME IInv, NEW fs, NEW start, NEW g, Starts(fs, start, g),
         showing' \subseteq showing \cup Dialogs(fs, start), UNCHANGED <<list, rssFeed>>
  PROVE  Fields' /\ Queue' /\ Coming'
<1> USE DEF IInv
<1>1. /\ start \in [fs -> Loads]
      /\ \A f \in fs : stage[start[f]] = "unused" /\ stage'[start[f]] = "queued"
                       /\ of'[start[f]] = f /\ progressDialog'[f] = start[f]
      /\ \A k \in Loads : \/ stage'[k] = stage[k] /\ of'[k] = of[k]
                          \/ \E f \in fs : start[f] = k
      /\ \A f \in Frags \ fs : progressDialog'[f] = progressDialog[f]
  BY Starting
<1>2. \A k \in Loads : stage[k] # "unused" => stage'[k] = stage[k] /\ of'[k] = of[k]
  BY <1>1
<1>3. UNCHANGED <<fetched, posts>>
  BY DEF Starts, StartLoads
<1>4. Fields'
  <2>1. \A d \in showing' : d \in Loads /\ stage'[d] # "unused"
    BY <1>1, <1>2 DEF Fields, Dialogs, TypeOK
  <2>2. \A f \in Frags : progressDialog'[f] # 0 =>
          stage'[progressDialog'[f]] # "unused" /\ of'[progressDialog'[f]] = f
    <3> SUFFICES ASSUME NEW f \in Frags, progressDialog'[f] # 0
                 PROVE  stage'[progressDialog'[f]] # "unused" /\ of'[progressDialog'[f]] = f
      OBVIOUS
    <3>1. CASE f \in fs
      BY <1>1, <3>1
    <3>2. CASE f \notin fs
      <4>1. progressDialog'[f] = progressDialog[f] /\ progressDialog[f] \in Loads
        BY <1>1, <3>2 DEF TypeOK
      <4> QED BY <1>2, <4>1 DEF Fields
    <3> QED BY <3>1, <3>2
  <2> QED BY <2>1, <2>2 DEF Fields
<1>5. Queue'
  <2>1. \A i \in 1..Len(posts) : posts[i] \in Loads
    BY DEF TypeOK
  <2> QED BY <1>2, <1>3, <2>1 DEF Queue
<1>6. Coming'
  <2>1. \A k \in Loads : stage'[k] = "running" => stage[k] = "running"
    BY <1>1
  <2> QED BY <1>2, <1>3, <2>1 DEF Coming
<1> QED BY <1>4, <1>5, <1>6

\* The pager at page p: what starts are fragments of the present activity.
LEMMA Populating ==
  ASSUME TypeOK, NEW p \in Tabs, Populate(p)
  PROVE  \E fs, start :
           /\ Starts(fs, start, gen) /\ showing' = showing \cup Dialogs(fs, start)
           /\ fs \subseteq view' /\ view' \subseteq known' /\ known' \subseteq Frags
           /\ \A f \in view' : f[1] = gen
<1> DEFINE attached == {<<gen, t>> : t \in Near(p)}
           fs == IF Reloads THEN attached \ view ELSE attached \ known
<1>1. attached \subseteq Frags /\ \A f \in attached : f[1] = gen
  BY DEF TypeOK, Frags, Near
<1>2. PICK start \in NewLoads(fs) :
        StartLoads(fs, start) /\ showing' = showing \cup Dialogs(fs, start)
  BY DEF Populate
<1>3. view' = attached /\ known' = known \cup attached
  BY DEF Populate
<1>4. fs \in SUBSET Frags /\ fs \subseteq attached
  BY <1>1
<1>5. known' \subseteq Frags
  BY <1>1, <1>3 DEF TypeOK
<1>6. Starts(fs, start, gen)
  BY <1>1, <1>2, <1>4 DEF Starts
<1> QED BY <1>1, <1>2, <1>3, <1>4, <1>5, <1>6

\* The screen comes back: what starts are fragments that have a view.
LEMMA Showing ==
  ASSUME IInv, Show
  PROVE  \E fs, start :
           /\ Starts(fs, start, gen) /\ showing' = showing \cup Dialogs(fs, start)
           /\ fs \subseteq view
<1> DEFINE fs == IF Reloads THEN view ELSE {}
<1>1. fs \subseteq Frags /\ fs \subseteq view /\ \A f \in fs : f[1] = gen
  BY DEF IInv, TypeOK, Owners
<1>2. PICK start \in NewLoads(fs) :
        StartLoads(fs, start) /\ showing' = showing \cup Dialogs(fs, start)
  BY DEF Show
<1>3. Starts(fs, start, gen)
  BY <1>1, <1>2 DEF Starts
<1> QED BY <1>1, <1>2, <1>3

\* A rotation: what starts are fragments of the new activity, one at least.
LEMMA Rotating ==
  ASSUME IInv, Rotate
  PROVE  \E fs, start :
           /\ Starts(fs, start, gen + 1) /\ showing' = Dialogs(fs, start)
           /\ fs # {} /\ view' \subseteq known' /\ known' \subseteq Frags
           /\ \A f \in view' : f[1] = gen + 1
<1> USE DEF IInv
<1> DEFINE Anew(s) == {<<gen + 1, f[2]>> : f \in {h \in s : h[1] = gen}}
           fs == Anew(IF Reloads THEN view ELSE known)
<1>1. \A s \in SUBSET Frags : Anew(s) \subseteq Frags /\ \A f \in Anew(s) : f[1] = gen + 1
  <2>1. gen + 1 \in 1..MaxGens
    BY ListsAssumption DEF Rotate, TypeOK
  <2> QED BY <2>1 DEF Frags
<1>2. PICK start \in NewLoads(fs) : StartLoads(fs, start) /\ showing' = Dialogs(fs, start)
  BY DEF Rotate
<1>3. view' = Anew(view) /\ known' = known \cup Anew(known) /\ view # {}
  BY DEF Rotate
<1>4. view \subseteq known /\ known \subseteq Frags
  BY DEF TypeOK
<1>5. Anew(view) \subseteq Anew(known) /\ Anew(view) # {}
  BY <1>3, <1>4 DEF Owners
<1>6. fs \subseteq Frags /\ fs # {}
  BY <1>1, <1>4, <1>5
<1>7. Starts(fs, start, gen + 1)
  BY <1>1, <1>2, <1>4, <1>6 DEF Starts
<1> QED BY <1>1, <1>2, <1>3, <1>4, <1>5, <1>6, <1>7

-----------------------------------------------------------------------------
\* A screen just opened: no fragment, no load.
LEMMA InitIInv == Init => IInv
<1> SUFFICES ASSUME Init PROVE IInv
  OBVIOUS
<1>1. 1 \in Tabs /\ 1 \in 1..MaxGens /\ 1 \in 1..MaxVersions /\ NoFeed \in Feeds
  BY ListsAssumption DEF Tabs, Feeds, NoFeed
<1>2. <<1, 1>> \in Frags
  BY <1>1 DEF Frags
<1>3. TypeOK
  <2>1. posts \in Seq(Loads)
    BY DEF Init
  <2>2. view \subseteq known /\ known \subseteq Frags /\ showing \subseteq Loads
        /\ dead \subseteq Loads /\ clicked \in [row : Feeds, opened : Feeds]
    BY <1>1 DEF Init
  <2> QED BY <1>1, <1>2, <2>1, <2>2 DEF Init, TypeOK
<1>4. \A k \in Loads : ~Live(k) /\ of[k][1] = 1
  BY DEF Init, Live
<1>5. Owners /\ Covered /\ InView
  BY <1>4 DEF Init, Owners, Covered, InView
<1>6. Fields /\ Queue /\ Coming /\ SafeWhileWaiting /\ RowsOpenWhatTheyShow
  BY DEF Init, Fields, Queue, Coming, SafeWhileWaiting, RowsOpenWhatTheyShow
<1> QED BY <1>3, <1>5, <1>6 DEF IInv

\* Every action keeps the types.
LEMMA StepTypes == IInv /\ [Next]_vars => TypeOK'
<1> SUFFICES ASSUME IInv, [Next]_vars PROVE TypeOK'
  OBVIOUS
<1> USE DEF IInv
<1>1. ASSUME NEW p \in Tabs, Populate(p) PROVE TypeOK'
  <2>1. PICK fs, start :
          /\ Starts(fs, start, gen) /\ showing' = showing \cup Dialogs(fs, start)
          /\ view' \subseteq known' /\ known' \subseteq Frags
    BY <1>1, Populating
  <2>2. /\ start \in [fs -> Loads] /\ stage' \in [Loads -> Stages] /\ of' \in [Loads -> Frags]
        /\ progressDialog' \in [Frags -> Loads \cup {0}]
    BY <2>1, Starting
  <2>3. showing' \subseteq Loads
    BY <2>1, <2>2 DEF TypeOK, Dialogs
  <2>4. UNCHANGED <<fetched, posts, version>>
    BY <2>1 DEF Starts, StartLoads
  <2> QED BY <1>1, <2>1, <2>2, <2>3, <2>4 DEF TypeOK, Populate, history, Stages
<1>2. CASE Show
  <2>2. PICK fs, start : Starts(fs, start, gen) /\ showing' = showing \cup Dialogs(fs, start)
    BY <1>2, Showing
  <2>3. /\ start \in [fs -> Loads] /\ stage' \in [Loads -> Stages] /\ of' \in [Loads -> Frags]
        /\ progressDialog' \in [Frags -> Loads \cup {0}]
    BY <2>2, Starting
  <2>4. showing' \subseteq Loads
    BY <2>2, <2>3 DEF TypeOK, Dialogs
  <2>5. UNCHANGED <<fetched, posts, version>>
    BY <2>2 DEF Starts, StartLoads
  <2> QED BY <1>2, <2>3, <2>4, <2>5 DEF TypeOK, Show, history, Stages
<1>3. CASE Rotate
  <2>1. PICK fs, start :
          /\ Starts(fs, start, gen + 1) /\ showing' = Dialogs(fs, start)
          /\ view' \subseteq known' /\ known' \subseteq Frags
    BY <1>3, Rotating
  <2>2. /\ start \in [fs -> Loads] /\ stage' \in [Loads -> Stages] /\ of' \in [Loads -> Frags]
        /\ progressDialog' \in [Frags -> Loads \cup {0}]
    BY <2>1, Starting
  <2>3. showing' \subseteq Loads
    BY <2>1, <2>2 DEF Dialogs
  <2>4. gen' \in 1..MaxGens /\ dead' \subseteq Loads
    BY <1>3, ListsAssumption DEF TypeOK, Rotate
  <2>5. UNCHANGED <<fetched, posts, version>>
    BY <2>1 DEF Starts, StartLoads
  <2> QED BY <1>3, <2>1, <2>2, <2>3, <2>4, <2>5 DEF TypeOK, Rotate, history, Stages
<1>4. CASE Hide \/ Leave \/ Dismiss \/ UNCHANGED vars
  BY <1>4 DEF TypeOK, Hide, Leave, Dismiss, vars, activity, loads, history
<1>5. CASE Click
  <2>1. clicked' \in [row : Feeds, opened : Feeds]
    BY <1>5 DEF Click, TypeOK
  <2> QED BY <1>5, <2>1 DEF TypeOK, Click, loads
<1>6. CASE Edit
  BY <1>6, ListsAssumption DEF TypeOK, Edit, activity, history
<1>7. ASSUME NEW k \in Loads, Ask(k) PROVE TypeOK'
  <2>1. version \in Feeds
    BY ListsAssumption DEF TypeOK, Feeds, NoFeed
  <2> QED BY <1>7, <2>1 DEF TypeOK, Ask, activity, history
<1>8. ASSUME NEW k \in Loads, Arrive(k) PROVE TypeOK'
  <2>1. posts' \in Seq(Loads)
    BY <1>8 DEF TypeOK, Arrive
  <2>2. rssFeed' \in [Frags -> Feeds]
    BY <1>8 DEF TypeOK, Arrive
  <2> QED BY <1>8, <2>1, <2>2 DEF TypeOK, Arrive, activity, history
<1>9. CASE Post
  <2>1. Head(posts) \in Loads /\ posts' \in Seq(Loads)
    BY <1>9 DEF TypeOK, Post
  <2>2. of[Head(posts)] \in Frags
    BY <2>1 DEF TypeOK
  <2>3. list' \in [Frags -> Feeds] /\ showing' \subseteq Loads
    BY <1>9, <2>2 DEF TypeOK, Post
  <2> QED BY <1>9, <2>1, <2>3 DEF TypeOK, Post, activity, history
<1>10. CASE PostFails
  BY <1>10 DEF TypeOK, PostFails, activity, loads
<1> QED BY <1>1, <1>2, <1>3, <1>4, <1>5, <1>6, <1>7, <1>8, <1>9, <1>10, ListsAssumption
        DEF Next, Open, Swipe, Tabs

\* Loads and views belong to the activity that is there when they start.
LEMMA StepOwners == IInv /\ [Next]_vars => Owners'
<1> SUFFICES ASSUME IInv, [Next]_vars PROVE Owners'
  OBVIOUS
<1> USE DEF IInv
<1>0. gen \in Nat /\ gen >= 1
  BY ListsAssumption DEF TypeOK
<1>1. ASSUME NEW p \in Tabs, Populate(p) PROVE Owners'
  <2>1. PICK fs, start :
          /\ Starts(fs, start, gen)
          /\ \A f \in view' : f[1] = gen
    BY <1>1, Populating
  <2>2. \A k \in Loads : of'[k] = of[k] \/ of'[k] \in fs
    BY <2>1, Starting
  <2> QED BY <1>0, <1>1, <2>1, <2>2 DEF Owners, Populate, Starts
<1>2. CASE Show
  <2>2. PICK fs, start : Starts(fs, start, gen)
    BY <1>2, Showing
  <2>3. \A k \in Loads : of'[k] = of[k] \/ of'[k] \in fs
    BY <2>2, Starting
  <2> QED BY <1>0, <1>2, <2>2, <2>3 DEF Owners, Show, Starts
<1>3. CASE Rotate
  <2>1. PICK fs, start :
          /\ Starts(fs, start, gen + 1)
          /\ \A f \in view' : f[1] = gen + 1
    BY <1>3, Rotating
  <2>2. \A k \in Loads : of'[k] = of[k] \/ of'[k] \in fs
    BY <2>1, Starting
  <2>3. \A k \in Loads : of[k][1] \in Nat
    BY ListsAssumption DEF TypeOK, Frags
  <2> QED BY <1>0, <1>3, <2>1, <2>2, <2>3 DEF Owners, Rotate, Starts
<1>4. CASE UNCHANGED <<gen, of, dead>> /\ view' \subseteq view
  BY <1>4 DEF Owners
<1>5. ASSUME NEW k \in Loads, Ask(k) \/ Arrive(k) PROVE Owners'
  BY <1>4, <1>5 DEF Ask, Arrive, activity
<1>6. CASE Hide \/ Leave \/ Dismiss \/ Click \/ Edit \/ Post \/ PostFails \/ UNCHANGED vars
  BY <1>4, <1>6 DEF Hide, Leave, Dismiss, Click, Edit, Post, PostFails, vars, activity, loads
<1> QED BY <1>1, <1>2, <1>3, <1>5, <1>6, ListsAssumption DEF Next, Open, Swipe, Tabs

\* The load whose post is next.
LEMMA NextPost ==
  ASSUME IInv, posts # <<>>
  PROVE  Head(posts) \in Loads /\ stage[Head(posts)] = "answered"
  BY DEF IInv, TypeOK, Queue

\* Starting, answering and posting keep the fields, the queue and the feeds in
\* step; Post is what shows a feed, Arrive what promises it.
LEMMA StepQueue == IInv /\ [Next]_vars => Fields' /\ Queue' /\ Coming'
<1> SUFFICES ASSUME IInv, [Next]_vars PROVE Fields' /\ Queue' /\ Coming'
  OBVIOUS
<1> USE DEF IInv
<1>1. ASSUME NEW p \in Tabs, Populate(p) PROVE Fields' /\ Queue' /\ Coming'
  <2>1. PICK fs, start : Starts(fs, start, gen) /\ showing' = showing \cup Dialogs(fs, start)
    BY <1>1, Populating
  <2> QED BY <1>1, <2>1, StartKeeps DEF Populate
<1>2. CASE Show
  <2>1. PICK fs, start : Starts(fs, start, gen) /\ showing' = showing \cup Dialogs(fs, start)
    BY <1>2, Showing
  <2> QED BY <1>2, <2>1, StartKeeps DEF Show
<1>3. CASE Rotate
  <2>1. PICK fs, start : Starts(fs, start, gen + 1) /\ showing' = Dialogs(fs, start)
    BY <1>3, Rotating
  <2> QED BY <1>3, <2>1, StartKeeps DEF Rotate
<1>4. CASE showing' \subseteq showing
           /\ UNCHANGED <<rssFeed, list, progressDialog, stage, of, fetched, posts>>
  BY <1>4 DEF Fields, Queue, Coming
<1>5. CASE Hide \/ Leave \/ Dismiss \/ Click \/ Edit \/ PostFails \/ UNCHANGED vars
  BY <1>4, <1>5 DEF Hide, Leave, Dismiss, Click, Edit, PostFails, vars, loads
<1>6. ASSUME NEW k \in Loads, Ask(k) PROVE Fields' /\ Queue' /\ Coming'
  <2>1. version # NoFeed
    BY ListsAssumption DEF TypeOK, NoFeed
  <2>2. Fields'
    BY <1>6 DEF TypeOK, Fields, Ask
  <2>3. Queue'
    BY <1>6 DEF TypeOK, Queue, Ask
  <2>4. Coming'
    BY <1>6, <2>1 DEF TypeOK, Coming, Ask
  <2> QED BY <2>2, <2>3, <2>4
<1>7. ASSUME NEW k \in Loads, Arrive(k) PROVE Fields' /\ Queue' /\ Coming'
  <2>1. /\ stage[k] = "running" /\ stage' = [stage EXCEPT ![k] = "answered"]
        /\ posts' = Append(posts, k)
        /\ UNCHANGED <<list, progressDialog, showing, of, fetched>>
    BY <1>7 DEF Arrive
  <2>2. PICK feed \in {fetched[k], rssFeed[of[k]]} : rssFeed' = [rssFeed EXCEPT ![of[k]] = feed]
    BY <1>7 DEF Arrive
  <2>3. Fields'
    BY <2>1 DEF TypeOK, Fields
  <2>4. Queue'
    <3>1. \A i \in 1..Len(posts) : posts[i] \in Loads /\ posts[i] # k
      BY <2>1 DEF TypeOK, Queue
    <3>2. Len(posts') = Len(posts) + 1 /\ posts'[Len(posts) + 1] = k
          /\ \A i \in 1..Len(posts) : posts'[i] = posts[i]
      BY <2>1 DEF TypeOK
    <3>3. \A i \in 1..Len(posts') : stage'[posts'[i]] = "answered"
      BY <2>1, <3>1, <3>2 DEF TypeOK, Queue
    <3>4. \A i, j \in 1..Len(posts') : posts'[i] = posts'[j] => i = j
      BY <3>1, <3>2 DEF Queue
    <3> QED BY <3>3, <3>4 DEF Queue
  <2>5. Coming'
    <3>1. \A f \in Frags : list'[f] # rssFeed'[f] =>
            \E j \in Loads : stage'[j] = "answered" /\ of'[j] = f
      BY <2>1, <2>2 DEF TypeOK, Coming
    <3>2. fetched[k] # NoFeed
      BY <2>1 DEF Coming
    <3>3. \A f \in Frags : rssFeed'[f] = NoFeed => list'[f] = NoFeed
      BY <2>1, <2>2, <3>2 DEF TypeOK, Coming
    <3>4. \A j \in Loads : stage'[j] = "running" => fetched'[j] # NoFeed
      BY <2>1 DEF TypeOK, Coming
    <3> QED BY <3>1, <3>3, <3>4 DEF Coming
  <2> QED BY <2>3, <2>4, <2>5
<1>8. CASE Post
  <2> DEFINE k == Head(posts)
             f == of[k]
  <2>1. /\ posts # <<>> /\ posts' = Tail(posts)
        /\ stage' = [stage EXCEPT ![k] = "over"]
        /\ list' = IF rssFeed[f] # NoFeed THEN [list EXCEPT ![f] = rssFeed[f]] ELSE list
        /\ showing' \subseteq showing
        /\ UNCHANGED <<rssFeed, progressDialog, of, fetched>>
    BY <1>8 DEF Post
  <2>2. k \in Loads /\ k = posts[1] /\ f \in Frags
    BY <2>1, NextPost DEF TypeOK
  <2>3. Fields'
    BY <2>1, <2>2 DEF TypeOK, Fields
  <2>4. Queue'
    <3>1. \A i \in 1..Len(posts') : i + 1 \in 1..Len(posts) /\ posts'[i] = posts[i + 1]
      BY <2>1 DEF TypeOK
    <3>2. \A i \in 1..Len(posts') : posts'[i] \in Loads /\ posts'[i] # k
      BY <2>1, <2>2, <3>1 DEF TypeOK, Queue
    <3>3. \A i \in 1..Len(posts') : stage'[posts'[i]] = "answered"
      BY <2>1, <2>2, <3>1, <3>2 DEF TypeOK, Queue
    <3>4. \A i, j \in 1..Len(posts') : posts'[i] = posts'[j] => i = j
      <4> SUFFICES ASSUME NEW i \in 1..Len(posts'), NEW j \in 1..Len(posts'),
                          posts'[i] = posts'[j]
                   PROVE  i = j
        OBVIOUS
      <4>1. i + 1 = j + 1
        BY <3>1 DEF Queue
      <4> QED BY <4>1
    <3> QED BY <3>3, <3>4 DEF Queue
  <2>5. Coming'
    <3>1. list'[f] = rssFeed'[f]
      BY <2>1, <2>2 DEF TypeOK, Coming
    <3>2. \A h \in Frags \ {f} : list'[h] = list[h] /\ rssFeed'[h] = rssFeed[h]
      BY <2>1, <2>2 DEF TypeOK
    <3>3. \A j \in Loads : of[j] # f => stage'[j] = stage[j]
      BY <2>1, <2>2 DEF TypeOK
    <3>4. \A h \in Frags : list'[h] # rssFeed'[h] =>
            \E j \in Loads : stage'[j] = "answered" /\ of'[j] = h
      BY <2>1, <3>1, <3>2, <3>3 DEF Coming
    <3>5. \A h \in Frags : rssFeed'[h] = NoFeed => list'[h] = NoFeed
      BY <3>1, <3>2 DEF Coming
    <3>6. \A j \in Loads : stage'[j] = "running" => fetched'[j] # NoFeed
      BY <2>1, <2>2 DEF TypeOK, Coming
    <3> QED BY <3>4, <3>5, <3>6 DEF Coming
  <2> QED BY <2>3, <2>4, <2>5
<1> QED BY <1>1, <1>2, <1>3, <1>5, <1>6, <1>7, <1>8, ListsAssumption
        DEF Next, Open, Swipe, Tabs

-----------------------------------------------------------------------------
(* The dialogs.                                                            *)

\* The user who has put no dialog away and gets at the screen finds no load
\* of it under way.
LEMMA Undisturbed ==
  ASSUME IInv, HasInput, ~dismissed, NEW k \in Loads, of[k][1] = gen
  PROVE  ~Live(k)
  BY DEF IInv, Covered, HasInput

\* A load that starts brings its dialog, and takes none from another load.
LEMMA StartCovers ==
  ASSUME IInv, NEW fs, NEW start, NEW g, Starts(fs, start, g),
         g = gen, UNCHANGED <<gen, dismissed>>, showing' = showing \cup Dialogs(fs, start)
  PROVE  Covered'
<1> USE DEF IInv
<1>1. /\ fs \subseteq Frags
      /\ \A f \in fs : stage[start[f]] = "unused" /\ progressDialog'[f] = start[f]
      /\ \A k \in Loads : \/ stage'[k] = stage[k] /\ of'[k] = of[k]
                          \/ \E f \in fs : start[f] = k
      /\ \A f \in Frags \ fs : progressDialog'[f] = progressDialog[f]
  BY Starting DEF Starts
<1>2. SUFFICES ASSUME ~dismissed, NEW k \in Loads, Live(k)', of'[k][1] = gen
               PROVE  \/ k \in showing'
                      \/ \E d \in showing' : of'[d] = of'[k] /\ d # progressDialog'[of'[k]]
  BY DEF Covered
<1>3. CASE \E f \in fs : start[f] = k
  BY <1>3 DEF Dialogs
<1>4. CASE stage'[k] = stage[k] /\ of'[k] = of[k]
  <2>0. of[k] \in Frags
    BY DEF TypeOK
  <2>1. Live(k)
    BY <1>2, <1>4 DEF Live
  <2>2. CASE k \in showing
    BY <2>2
  <2>3. ASSUME NEW d \in showing, of[d] = of[k], d # progressDialog[of[k]]
        PROVE  of'[d] = of'[k] /\ d # progressDialog'[of'[k]]
    <3>1. d \in Loads /\ stage[d] # "unused"
      BY DEF Fields, TypeOK
    <3>2. of'[d] = of[d]
      BY <1>1, <3>1
    <3>3. d # progressDialog'[of[k]]
      BY <1>1, <2>0, <2>3, <3>1
    <3> QED BY <1>4, <2>3, <3>2, <3>3
  <2> QED BY <1>2, <1>4, <2>1, <2>2, <2>3 DEF Covered
<1> QED BY <1>1, <1>3, <1>4

\* The post of one load leaves a dialog to each other load of its fragment;
\* the pager moves, and the screen closes, only when no load is under way.
LEMMA StepDialogs == IInv /\ [Next]_vars => Covered' /\ InView'
<1> SUFFICES ASSUME IInv, [Next]_vars PROVE Covered' /\ InView'
  OBVIOUS
<1> USE DEF IInv
<1>0. /\ gen \in Nat /\ gen >= 1
      /\ \A k \in Loads : of[k] \in Frags /\ of[k][1] \in Nat /\ of[k][1] >= 1
  BY ListsAssumption DEF TypeOK, Frags
<1>10. gen = 1 => \A k \in Loads : of[k][1] = gen
  BY <1>0 DEF Owners
<1>1. ASSUME NEW p \in Tabs, HasInput, Populate(p) PROVE Covered' /\ InView'
  <2>1. PICK fs, start :
          /\ Starts(fs, start, gen) /\ showing' = showing \cup Dialogs(fs, start)
          /\ fs \subseteq view'
    BY <1>1, Populating
  <2>2. UNCHANGED <<gen, dismissed>>
    BY <1>1 DEF Populate, history
  <2>3. ~dismissed /\ gen = 1 => \A k \in Loads : ~Live(k)
    BY <1>1, <1>10, Undisturbed
  <2>4. \A k \in Loads : \/ stage'[k] = stage[k]
                         \/ of'[k] \in fs
    BY <2>1, Starting
  <2>5. InView'
    BY <2>1, <2>2, <2>3, <2>4 DEF InView, Live
  <2> QED BY <2>1, <2>2, <2>5, StartCovers
<1>2. CASE Show
  <2>1. PICK fs, start :
          /\ Starts(fs, start, gen) /\ showing' = showing \cup Dialogs(fs, start)
          /\ fs \subseteq view
    BY <1>2, Showing
  <2>2. UNCHANGED <<gen, dismissed, view>>
    BY <1>2 DEF Show, history
  <2>3. \A k \in Loads : \/ stage'[k] = stage[k] /\ of'[k] = of[k]
                         \/ of'[k] \in fs
    BY <2>1, Starting
  <2>4. InView'
    BY <2>1, <2>2, <2>3 DEF InView, Live
  <2> QED BY <2>1, <2>2, <2>4, StartCovers
<1>3. CASE Rotate
  <2>1. PICK fs, start : Starts(fs, start, gen + 1) /\ showing' = Dialogs(fs, start)
    BY <1>3, Rotating
  <2>2. gen' = gen + 1
    BY <1>3 DEF Rotate
  <2>3. \A k \in Loads : of'[k] = of[k] \/ \E f \in fs : start[f] = k
    BY <2>1, Starting
  <2>4. \A k \in Loads : of'[k][1] = gen' => k \in showing'
    BY <1>0, <2>1, <2>2, <2>3 DEF Owners, Dialogs
  <2> QED BY <1>0, <2>2, <2>4 DEF Covered, InView
<1>4. CASE Leave
  <2>1. ~dismissed /\ gen = 1 => \A k \in Loads : ~Live(k)
    BY <1>4, <1>10, Undisturbed DEF Leave
  <2>2. UNCHANGED <<gen, dismissed, showing, progressDialog, stage, of>>
    BY <1>4 DEF Leave, loads, history
  <2> QED BY <2>1, <2>2 DEF Covered, InView, Live
<1>5. CASE Dismiss
  BY <1>5 DEF Dismiss, Covered, InView
<1>6. CASE /\ UNCHANGED <<gen, view, dismissed, showing, progressDialog, of>>
           /\ \A k \in Loads : Live(k)' => Live(k)
  BY <1>6 DEF Covered, InView
<1>7. CASE Hide \/ Click \/ Edit \/ PostFails \/ UNCHANGED vars
  <2>1. UNCHANGED <<gen, view, dismissed, showing, progressDialog, of, stage>>
    BY <1>7 DEF Hide, Click, Edit, PostFails, vars, activity, loads, history
  <2> QED BY <1>6, <2>1 DEF Live
<1>8. ASSUME NEW k \in Loads, Ask(k) \/ Arrive(k) PROVE Covered' /\ InView'
  <2>1. UNCHANGED <<gen, view, dismissed, showing, progressDialog, of>>
    BY <1>8 DEF Ask, Arrive, activity, history
  <2>2. \A j \in Loads : Live(j)' => Live(j)
    BY <1>8 DEF Ask, Arrive, Live, TypeOK
  <2> QED BY <1>6, <2>1, <2>2
<1>9. CASE Post
  <2> DEFINE j == Head(posts)
             f == of[j]
             p == progressDialog[f]
  <2>1. /\ posts # <<>> /\ stage' = [stage EXCEPT ![j] = "over"]
        /\ showing' = showing \ {p}
        /\ UNCHANGED <<gen, view, dismissed, progressDialog, of>>
    BY <1>9 DEF Post, activity, history
  <2>2. j \in Loads /\ stage[j] = "answered" /\ Live(j) /\ f \in Frags
    BY <1>0, <2>1, NextPost DEF Live
  <2>3. \A k \in Loads : Live(k)' => Live(k) /\ k # j
    BY <2>1, <2>2 DEF Live, TypeOK
  <2>4. InView'
    BY <2>1, <2>3 DEF InView
  <2>5. \A d \in showing : of[d] # f => d # p
    BY <2>2 DEF Fields, TypeOK, Loads
  <2>6. ASSUME ~dismissed, NEW k \in Loads, Live(k)', of[k][1] = gen
        PROVE  \/ k \in showing'
               \/ \E d \in showing' : of[d] = of[k] /\ d # progressDialog[of[k]]
    <3>1. \/ k \in showing
          \/ \E d \in showing : of[d] = of[k] /\ d # progressDialog[of[k]]
      BY <2>3, <2>6 DEF Covered
    <3>2. CASE of[k] # f
      BY <2>1, <2>5, <3>1, <3>2
    <3>3. CASE of[k] = f /\ k # p
      BY <2>1, <3>1, <3>3
    <3>4. CASE of[k] = f /\ k = p
      <4>1. \/ j \in showing /\ j # p
            \/ \E d \in showing : of[d] = f /\ d # p
        BY <2>2, <2>3, <2>6, <3>4 DEF Covered
      <4> QED BY <2>1, <3>4, <4>1
    <3> QED BY <3>2, <3>3, <3>4
  <2>7. Covered'
    BY <2>1, <2>6 DEF Covered
  <2> QED BY <2>4, <2>7
<1> QED BY <1>1, <1>2, <1>3, <1>4, <1>5, <1>7, <1>8, <1>9, ListsAssumption
        DEF Next, Open, Swipe, Tabs

-----------------------------------------------------------------------------
\* Only a post can fail: of a load whose fragment has no view, or whose
\* dialog went down with its activity.
LEMMA StepSafe == IInv /\ [Next]_vars => SafeWhileWaiting'
<1> SUFFICES ASSUME IInv, [Next]_vars PROVE SafeWhileWaiting'
  OBVIOUS
<1> USE DEF IInv, SafeWhileWaiting
<1>0. gen \in Nat /\ gen >= 1
  BY ListsAssumption DEF TypeOK
<1>1. CASE PostFails
  <2> DEFINE k == Head(posts)
  <2>1. k \in Loads /\ Live(k) /\ UNCHANGED <<gen, dismissed>>
    BY <1>1, NextPost DEF PostFails, Live, activity
  <2>2. of[k] \notin view \/ dead # {}
    BY <1>1 DEF PostFails
  <2>3. ~dismissed /\ gen = 1 => of[k] \in view /\ dead = {}
    BY <2>1 DEF InView, Owners
  <2> QED BY <1>0, <2>1, <2>2, <2>3
<1>2. CASE Rotate
  BY <1>0, <1>2 DEF Rotate
<1>3. ASSUME NEW p \in Tabs, Populate(p) PROVE SafeWhileWaiting'
  BY <1>3 DEF Populate, history
<1>4. ASSUME NEW k \in Loads, Ask(k) \/ Arrive(k) PROVE SafeWhileWaiting'
  BY <1>4 DEF Ask, Arrive, activity, history
<1>5. CASE Show \/ Hide \/ Leave \/ Dismiss \/ Click \/ Edit \/ Post \/ UNCHANGED vars
  BY <1>5 DEF Show, Hide, Leave, Dismiss, Click, Edit, Post, vars, activity, history
<1> QED BY <1>1, <1>2, <1>3, <1>4, <1>5, ListsAssumption DEF Next, Open, Swipe, Tabs

\* A click needs a screen without dialogs, so a list without loads, so the
\* feed that its rows show.
LEMMA StepRows == IInv /\ [Next]_vars => RowsOpenWhatTheyShow'
<1> SUFFICES ASSUME IInv, [Next]_vars PROVE RowsOpenWhatTheyShow'
  OBVIOUS
<1> USE DEF IInv, RowsOpenWhatTheyShow
<1>1. CASE Click
  <2> DEFINE f == <<gen, page>>
  <2>1. /\ HasInput /\ f \in Frags /\ UNCHANGED dismissed
        /\ clicked' = [row |-> list[f], opened |-> rssFeed[f]]
    BY <1>1 DEF Click, TypeOK
  <2>2. ASSUME ~dismissed PROVE list[f] = rssFeed[f]
    <3>1. \A k \in Loads : of[k] = f => stage[k] # "answered"
      BY <2>1, <2>2, Undisturbed DEF Live
    <3> QED BY <2>1, <3>1 DEF Coming
  <2> QED BY <2>1, <2>2
<1>2. CASE UNCHANGED clicked /\ (dismissed => dismissed')
  BY <1>2
<1>3. ASSUME NEW p \in Tabs, Populate(p) PROVE RowsOpenWhatTheyShow'
  BY <1>2, <1>3 DEF Populate, history
<1>4. ASSUME NEW k \in Loads, Ask(k) \/ Arrive(k) PROVE RowsOpenWhatTheyShow'
  BY <1>2, <1>4 DEF Ask, Arrive, history
<1>5. CASE Show \/ Hide \/ Leave \/ Dismiss \/ Rotate \/ Edit \/ Post \/ PostFails \/ UNCHANGED vars
  BY <1>2, <1>5 DEF Show, Hide, Leave, Dismiss, Rotate, Edit, Post, PostFails, vars, history
<1> QED BY <1>1, <1>3, <1>4, <1>5, ListsAssumption DEF Next, Open, Swipe, Tabs

\* The invariant is inductive, whatever the executor does.
LEMMA Inductive == IInv /\ [Next]_vars => IInv'
  BY StepTypes, StepOwners, StepQueue, StepDialogs, StepSafe, StepRows DEF IInv

\* Every reachable state satisfies the invariant.
LEMMA Invariant == Spec => []IInv
  BY InitIInv, Inductive, PTL DEF Spec

\* Every variable has its type; what has a view was created.
THEOREM TypeCorrect == Spec => []TypeOK
<1>1. IInv => TypeOK
  BY DEF IInv
<1> QED BY <1>1, Invariant, PTL

\* Until the user puts a dialog away or turns the device, every load finds
\* its view and its window.
THEOREM SafeWhileUserWaits == Spec => []SafeWhileWaiting
<1>1. IInv => SafeWhileWaiting
  BY DEF IInv
<1> QED BY <1>1, Invariant, PTL

\* Until the user puts a dialog away, a row opens the item that it shows.
THEOREM RowsOpenTheirItems == Spec => []RowsOpenWhatTheyShow
<1>1. IInv => RowsOpenWhatTheyShow
  BY DEF IInv
<1> QED BY <1>1, Invariant, PTL

\* A list that no load is under way for shows the feed that its rows open,
\* whatever the user, the executor and the connections did.
THEOREM QuietListsAreCurrent == Spec => []QuietListIsCurrent
<1>1. IInv => QuietListIsCurrent
  BY DEF IInv, TypeOK, Coming, QuietListIsCurrent, Live
<1> QED BY <1>1, Invariant, PTL

-----------------------------------------------------------------------------
(* One task at a time.                                                     *)

\* Loads run, answer and are delivered in the order in which they started.
InOrder ==
  /\ \A j, k \in Loads : j < k /\ stage[k] # "unused" => stage[j] # "unused"
  /\ \A j, k \in Loads : j < k /\ stage[k] \in {"running", "answered", "over"}
                           => stage[j] \in {"answered", "over"}
  /\ \A i, j \in 1..Len(posts) : i < j => posts[i] < posts[j]
  /\ \A k \in Loads : stage[k] = "answered" => \E i \in 1..Len(posts) : posts[i] = k

\* Behind a live load of an activity that was destroyed waits one of the
\* activity that came after it.
Behind ==
  \A k \in Loads : Live(k) /\ of[k][1] # gen =>
    \E j \in Loads : k < j /\ Live(j) /\ of[j][1] = gen

\* What a list shows, what its field holds, what the running load was sent
\* and what the service has are each no newer than the next.
Newer ==
  /\ \A f \in Frags : list[f] <= rssFeed[f] /\ rssFeed[f] <= version
  /\ \A k \in Loads : stage[k] = "running" =>
       rssFeed[of[k]] <= fetched[k] /\ fetched[k] <= version

\* Loads start with the numbers that follow those in use.
LEMMA StartInOrder ==
  ASSUME IInv, InOrder, NEW fs, NEW start, NEW g, Starts(fs, start, g)
  PROVE  InOrder'
<1> USE DEF IInv
<1>1. /\ start \in [fs -> Loads]
      /\ \A f \in fs : stage[start[f]] = "unused" /\ stage'[start[f]] = "queued"
      /\ \A k \in Loads : stage'[k] = stage[k] \/ \E f \in fs : start[f] = k
  BY Starting
<1>2. \A f \in fs, j \in Loads : j < start[f] => stage[j] # "unused" \/ \E h \in fs : start[h] = j
  BY DEF Starts, NewLoads
<1>3. posts' = posts
  BY DEF Starts, StartLoads
<1>4. \A j \in Loads : stage[j] # "unused" => stage'[j] = stage[j]
  BY <1>1
<1>5. \A j, k \in Loads : j < k /\ stage'[k] # "unused" => stage'[j] # "unused"
  <2> SUFFICES ASSUME NEW j \in Loads, NEW k \in Loads, j < k, stage'[k] # "unused"
               PROVE  stage'[j] # "unused"
    OBVIOUS
  <2>1. CASE \E f \in fs : start[f] = k
    BY <1>1, <1>2, <1>4, <2>1
  <2>2. CASE stage'[k] = stage[k]
    BY <1>4, <2>2 DEF InOrder
  <2> QED BY <1>1, <2>1, <2>2
<1>6. \A k \in Loads : stage'[k] \in {"running", "answered", "over"} => stage'[k] = stage[k]
  BY <1>1
<1>7. \A j, k \in Loads : j < k /\ stage'[k] \in {"running", "answered", "over"}
                          => stage'[j] \in {"answered", "over"}
  BY <1>4, <1>6 DEF InOrder
<1> QED BY <1>3, <1>5, <1>6, <1>7 DEF InOrder

\* The serial executor and the queue keep the order of the loads.
LEMMA StepInOrder == Serial /\ IInv /\ InOrder /\ [Next]_vars => InOrder'
<1> SUFFICES ASSUME Serial, IInv, InOrder, [Next]_vars PROVE InOrder'
  OBVIOUS
<1> USE DEF IInv
<1>0. \A k \in Loads : k \in Nat
  BY DEF Loads
<1>1. ASSUME NEW p \in Tabs, Populate(p) PROVE InOrder'
  BY <1>1, Populating, StartInOrder
<1>2. CASE Show
  BY <1>2, Showing, StartInOrder
<1>3. CASE Rotate
  BY <1>3, Rotating, StartInOrder
<1>4. ASSUME NEW k \in Loads, Ask(k) PROVE InOrder'
  <2>1. /\ stage[k] = "queued" /\ stage' = [stage EXCEPT ![k] = "running"] /\ posts' = posts
        /\ \A j \in Loads : stage[j] # "running" /\ (j < k => stage[j] # "queued")
    BY <1>4 DEF Ask
  <2>2. \A j \in Loads : j < k => stage[j] \in {"answered", "over"}
    BY <2>1 DEF TypeOK, InOrder
  <2>3. \A j, l \in Loads : j < l /\ stage'[l] \in {"running", "answered", "over"}
                           => stage'[j] \in {"answered", "over"}
    BY <1>0, <2>1, <2>2 DEF TypeOK, InOrder
  <2>4. \A j, l \in Loads : j < l /\ stage'[l] # "unused" => stage'[j] # "unused"
    BY <2>1 DEF TypeOK, InOrder
  <2> QED BY <2>1, <2>3, <2>4 DEF TypeOK, InOrder
<1>5. ASSUME NEW k \in Loads, Arrive(k) PROVE InOrder'
  <2>1. /\ stage[k] = "running" /\ stage' = [stage EXCEPT ![k] = "answered"]
        /\ posts' = Append(posts, k)
    BY <1>5 DEF Arrive
  <2>2. \A i \in 1..Len(posts) : posts[i] \in Loads /\ posts[i] < k
    <3> SUFFICES ASSUME NEW i \in 1..Len(posts) PROVE posts[i] \in Loads /\ posts[i] < k
      OBVIOUS
    <3>1. posts[i] \in Loads /\ stage[posts[i]] = "answered" /\ posts[i] # k
      BY <2>1 DEF TypeOK, Queue
    <3>2. ~(k < posts[i])
      BY <2>1, <3>1 DEF InOrder
    <3> QED BY <1>0, <3>1, <3>2
  <2>3. Len(posts') = Len(posts) + 1 /\ posts'[Len(posts) + 1] = k
        /\ \A i \in 1..Len(posts) : posts'[i] = posts[i]
    BY <2>1 DEF TypeOK
  <2>4. \A i, j \in 1..Len(posts') : i < j => posts'[i] < posts'[j]
    BY <2>2, <2>3 DEF InOrder
  <2>5. \A l \in Loads : stage'[l] = "answered" => \E i \in 1..Len(posts') : posts'[i] = l
    <3> SUFFICES ASSUME NEW l \in Loads, stage'[l] = "answered"
                 PROVE  \E i \in 1..Len(posts') : posts'[i] = l
      OBVIOUS
    <3>1. CASE l = k
      <4>1. Len(posts) + 1 \in 1..Len(posts')
        BY <2>3 DEF TypeOK
      <4> QED BY <2>3, <3>1, <4>1
    <3>2. CASE l # k
      <4>1. PICK i \in 1..Len(posts) : posts[i] = l
        BY <2>1, <3>2 DEF TypeOK, InOrder
      <4>2. i \in 1..Len(posts')
        BY <2>3 DEF TypeOK
      <4> QED BY <2>3, <4>1, <4>2
    <3> QED BY <3>1, <3>2
  <2>6. \A j, l \in Loads : j < l /\ stage'[l] \in {"running", "answered", "over"}
                           => stage'[j] \in {"answered", "over"}
    BY <2>1 DEF TypeOK, InOrder
  <2>7. \A j, l \in Loads : j < l /\ stage'[l] # "unused" => stage'[j] # "unused"
    BY <2>1 DEF TypeOK, InOrder
  <2> QED BY <2>4, <2>5, <2>6, <2>7 DEF InOrder
<1>6. CASE Post
  <2> DEFINE k == Head(posts)
  <2>1. /\ posts # <<>> /\ posts' = Tail(posts) /\ stage' = [stage EXCEPT ![k] = "over"]
    BY <1>6 DEF Post
  <2>2. k \in Loads /\ stage[k] = "answered" /\ k = posts[1]
    BY <2>1, NextPost
  <2>3. Len(posts') = Len(posts) - 1 /\ Len(posts) \in Nat
        /\ \A i \in 1..Len(posts') : i + 1 \in 1..Len(posts) /\ posts'[i] = posts[i + 1]
    BY <2>1 DEF TypeOK
  <2>4. \A i, j \in 1..Len(posts') : i < j => posts'[i] < posts'[j]
    <3> SUFFICES ASSUME NEW i \in 1..Len(posts'), NEW j \in 1..Len(posts'), i < j
                 PROVE  posts'[i] < posts'[j]
      OBVIOUS
    <3>1. i + 1 < j + 1
      OBVIOUS
    <3> QED BY <2>3, <3>1 DEF InOrder
  <2>5. \A l \in Loads : stage'[l] = "answered" => \E i \in 1..Len(posts') : posts'[i] = l
    <3> SUFFICES ASSUME NEW l \in Loads, stage'[l] = "answered"
                 PROVE  \E i \in 1..Len(posts') : posts'[i] = l
      OBVIOUS
    <3>1. l # k /\ stage[l] = "answered"
      BY <2>1, <2>2 DEF TypeOK
    <3>2. PICK i \in 1..Len(posts) : posts[i] = l
      BY <3>1 DEF InOrder
    <3>3. i # 1
      BY <2>2, <3>1, <3>2
    <3>4. i - 1 \in 1..Len(posts')
      BY <2>3, <3>3
    <3>5. posts'[i - 1] = l
      BY <2>3, <3>2, <3>4
    <3> QED BY <3>4, <3>5
  <2>6. \A j, l \in Loads : j < l /\ stage'[l] \in {"running", "answered", "over"}
                           => stage'[j] \in {"answered", "over"}
    BY <2>1, <2>2 DEF TypeOK, InOrder
  <2>7. \A j, l \in Loads : j < l /\ stage'[l] # "unused" => stage'[j] # "unused"
    BY <2>1, <2>2 DEF TypeOK, InOrder
  <2> QED BY <2>4, <2>5, <2>6, <2>7 DEF InOrder
<1>7. CASE Hide \/ Leave \/ Dismiss \/ Click \/ Edit \/ PostFails \/ UNCHANGED vars
  BY <1>7 DEF InOrder, Hide, Leave, Dismiss, Click, Edit, PostFails, vars, loads
<1> QED BY <1>1, <1>2, <1>3, <1>4, <1>5, <1>6, <1>7, ListsAssumption
        DEF Next, Open, Swipe, Tabs

\* The post that is next is that of the first live load.
LEMMA NextIsFirst ==
  ASSUME IInv, InOrder, posts # <<>>, NEW k \in Loads, Live(k), k # Head(posts)
  PROVE  Head(posts) < k
<1> USE DEF IInv
<1>1. Head(posts) \in Loads /\ stage[Head(posts)] = "answered" /\ Head(posts) = posts[1]
  BY NextPost
<1>2. SUFFICES ASSUME k < Head(posts) PROVE FALSE
  BY <1>1 DEF Loads
<1>3. stage[k] = "answered"
  BY <1>1, <1>2 DEF InOrder, Live
<1>4. PICK i \in 1..Len(posts) : posts[i] = k
  BY <1>3 DEF InOrder
<1>5. 1 \in 1..Len(posts) /\ i # 1 /\ 1 < i
  BY <1>1, <1>4 DEF TypeOK
<1>6. Head(posts) < k
  BY <1>1, <1>4, <1>5 DEF InOrder
<1> QED BY <1>1, <1>2, <1>6 DEF Loads

\* The loads of a new activity start behind all others, and the first live
\* load is the first to be over.
LEMMA StepBehind == IInv /\ InOrder /\ Behind /\ [Next]_vars => Behind'
<1> SUFFICES ASSUME IInv, InOrder, Behind, [Next]_vars PROVE Behind'
  OBVIOUS
<1> USE DEF IInv
<1>0. \A k \in Loads : k \in Nat
  BY DEF Loads
<1>1. ASSUME NEW fs, NEW start, Starts(fs, start, gen), gen' = gen PROVE Behind'
  <2>1. \A k \in Loads : \/ stage'[k] = stage[k] /\ of'[k] = of[k]
                         \/ stage[k] = "unused" /\ of'[k][1] = gen /\ stage'[k] = "queued"
    <3>1. /\ \A f \in fs : /\ stage[start[f]] = "unused" /\ stage'[start[f]] = "queued"
                          /\ of'[start[f]] = f
          /\ \A k \in Loads : \/ stage'[k] = stage[k] /\ of'[k] = of[k]
                              \/ \E f \in fs : start[f] = k
      BY <1>1, Starting
    <3>2. \A f \in fs : f[1] = gen
      BY <1>1 DEF Starts
    <3> QED BY <3>1, <3>2
  <2> QED BY <1>1, <2>1 DEF Behind, Live
<1>2. ASSUME NEW p \in Tabs, Populate(p) PROVE Behind'
  BY <1>1, <1>2, Populating DEF Populate
<1>3. CASE Show
  BY <1>1, <1>3, Showing DEF Show
<1>4. CASE Rotate
  <2>1. PICK fs, start : Starts(fs, start, gen + 1) /\ fs # {}
    BY <1>4, Rotating
  <2>2. /\ start \in [fs -> Loads]
        /\ \A f \in fs : /\ stage[start[f]] = "unused" /\ stage'[start[f]] = "queued"
                         /\ of'[start[f]] = f
        /\ \A k \in Loads : \/ stage'[k] = stage[k]
                            \/ \E f \in fs : start[f] = k
    BY <2>1, Starting
  <2>3. gen' = gen + 1 /\ \A f \in fs : f[1] = gen'
    BY <1>4, <2>1 DEF Rotate, Starts
  <2>4. PICK f \in fs : TRUE
    BY <2>1
  <2>5. ASSUME NEW k \in Loads, Live(k)', of'[k][1] # gen' PROVE k < start[f]
    <3>1. stage[k] # "unused"
      BY <2>2, <2>3, <2>5 DEF Live
    <3>2. ~(start[f] < k) /\ start[f] # k
      BY <2>2, <3>1 DEF InOrder
    <3> QED BY <1>0, <2>2, <3>2
  <2> QED BY <2>2, <2>3, <2>5 DEF Behind, Live
<1>5. CASE UNCHANGED <<gen, of>> /\ \A k \in Loads : Live(k)' <=> Live(k)
  BY <1>5 DEF Behind
<1>6. ASSUME NEW k \in Loads, Ask(k) \/ Arrive(k) PROVE Behind'
  <2>1. UNCHANGED <<gen, of>>
    BY <1>6 DEF Ask, Arrive, activity
  <2>2. \A j \in Loads : Live(j)' <=> Live(j)
    BY <1>6 DEF Ask, Arrive, Live, TypeOK
  <2> QED BY <1>5, <2>1, <2>2
<1>7. CASE Post
  <2> DEFINE h == Head(posts)
  <2>1. posts # <<>> /\ stage' = [stage EXCEPT ![h] = "over"] /\ UNCHANGED <<gen, of>>
    BY <1>7 DEF Post, activity
  <2>2. h \in Loads /\ stage[h] = "answered"
    BY <2>1, NextPost
  <2>3. \A k \in Loads : Live(k)' <=> Live(k) /\ k # h
    BY <2>1, <2>2 DEF Live, TypeOK
  <2>4. \A k \in Loads : Live(k)' => h < k
    BY <2>1, <2>3, NextIsFirst
  <2>5. ASSUME NEW k \in Loads, Live(k)', of[k][1] # gen
        PROVE  \E j \in Loads : k < j /\ Live(j)' /\ of[j][1] = gen
    <3>1. PICK j \in Loads : k < j /\ Live(j) /\ of[j][1] = gen
      BY <2>3, <2>5 DEF Behind
    <3>2. j # h
      BY <1>0, <2>2, <2>4, <2>5, <3>1
    <3> QED BY <2>3, <3>1, <3>2
  <2> QED BY <2>1, <2>5 DEF Behind
<1>8. CASE Hide \/ Leave \/ Dismiss \/ Click \/ Edit \/ PostFails \/ UNCHANGED vars
  <2>1. UNCHANGED <<gen, of, stage>>
    BY <1>8 DEF Hide, Leave, Dismiss, Click, Edit, PostFails, vars, activity, loads
  <2> QED BY <1>5, <2>1 DEF Live
<1> QED BY <1>2, <1>3, <1>4, <1>6, <1>7, <1>8, ListsAssumption
        DEF Next, Open, Swipe, Tabs

\* A load that answers was asked after all loads that have answered.
LEMMA StepNewer == Serial /\ IInv /\ InOrder /\ Newer /\ [Next]_vars => Newer'
<1> SUFFICES ASSUME Serial, IInv, InOrder, Newer, [Next]_vars PROVE Newer'
  OBVIOUS
<1> USE DEF IInv
<1>0. /\ version \in Nat /\ \A k \in Loads : k \in Nat
      /\ \A f \in Frags : list[f] \in Nat /\ rssFeed[f] \in Nat
      /\ \A k \in Loads : fetched[k] \in Nat /\ of[k] \in Frags
  BY ListsAssumption DEF TypeOK, Loads, Feeds, NoFeed
<1>1. ASSUME NEW fs, NEW start, NEW g, Starts(fs, start, g), UNCHANGED <<rssFeed, list>>
      PROVE  Newer'
  <2>1. \A k \in Loads : stage'[k] = "running" => stage[k] = "running" /\ of'[k] = of[k]
    BY <1>1, Starting
  <2>2. UNCHANGED <<fetched, version>>
    BY <1>1 DEF Starts, StartLoads
  <2> QED BY <1>1, <2>1, <2>2 DEF Newer
<1>2. ASSUME NEW p \in Tabs, Populate(p) PROVE Newer'
  BY <1>1, <1>2, Populating DEF Populate
<1>3. CASE Show
  BY <1>1, <1>3, Showing DEF Show
<1>4. CASE Rotate
  BY <1>1, <1>4, Rotating DEF Rotate
<1>5. CASE Edit
  BY <1>0, <1>5 DEF Newer, Edit
<1>6. ASSUME NEW k \in Loads, Ask(k) PROVE Newer'
  BY <1>0, <1>6 DEF Newer, Ask, TypeOK
<1>7. ASSUME NEW k \in Loads, Arrive(k) PROVE Newer'
  <2>1. /\ stage[k] = "running" /\ stage' = [stage EXCEPT ![k] = "answered"]
        /\ UNCHANGED <<list, of, fetched, version>>
    BY <1>7 DEF Arrive
  <2>2. PICK feed \in {fetched[k], rssFeed[of[k]]} : rssFeed' = [rssFeed EXCEPT ![of[k]] = feed]
    BY <1>7 DEF Arrive
  <2>3. \A j \in Loads : stage'[j] # "running"
    <3> SUFFICES ASSUME NEW j \in Loads, j # k, stage[j] = "running" PROVE FALSE
      BY <2>1 DEF TypeOK
    <3>1. j < k \/ k < j
      BY <1>0
    <3> QED BY <2>1, <3>1 DEF InOrder
  <2>4. rssFeed[of[k]] <= feed /\ feed <= version /\ feed \in Nat
    BY <1>0, <2>1 DEF Newer
  <2>5. \A f \in Frags : list[f] <= rssFeed'[f] /\ rssFeed'[f] <= version
    BY <1>0, <2>2, <2>4 DEF Newer, TypeOK
  <2> QED BY <2>1, <2>3, <2>5 DEF Newer
<1>8. CASE Post
  <2>1. UNCHANGED <<rssFeed, of, fetched, version>>
    BY <1>8 DEF Post
  <2>2. \A f \in Frags : list'[f] \in {list[f], rssFeed[f]}
    BY <1>8 DEF Post, TypeOK
  <2>3. \A k \in Loads : stage'[k] = "running" => stage[k] = "running"
    BY <1>8 DEF Post, TypeOK
  <2> QED BY <1>0, <2>1, <2>2, <2>3 DEF Newer
<1>9. CASE Hide \/ Leave \/ Dismiss \/ Click \/ PostFails \/ UNCHANGED vars
  BY <1>9 DEF Newer, Hide, Leave, Dismiss, Click, PostFails, vars, loads
<1> QED BY <1>2, <1>3, <1>4, <1>5, <1>6, <1>7, <1>8, <1>9, ListsAssumption
        DEF Next, Open, Swipe, Tabs

\* With the serial executor the order holds in every reachable state.
LEMMA InvariantInOrder == Serial => (Spec => [](IInv /\ InOrder /\ Behind /\ Newer))
<1> SUFFICES ASSUME Serial PROVE Spec => [](IInv /\ InOrder /\ Behind /\ Newer)
  OBVIOUS
<1>1. Init => InOrder /\ Behind /\ Newer
  BY ListsAssumption DEF Init, InOrder, Behind, Newer, Live, NoFeed
<1>2. IInv /\ InOrder /\ Behind /\ Newer /\ [Next]_vars => InOrder' /\ Behind' /\ Newer'
  BY StepInOrder, StepBehind, StepNewer
<1> QED BY <1>1, <1>2, InitIInv, Inductive, PTL DEF Spec

\* With the serial executor, a user who has put no dialog away gets at the
\* screen only when no load is under way, of this activity or an earlier one.
THEOREM DialogsAreModal == Serial => (Spec => []ModalWhileLoading)
<1>1. ASSUME IInv, Behind PROVE ModalWhileLoading
  <2> SUFFICES ASSUME HasInput, ~dismissed, NEW k \in Loads, Live(k) PROVE FALSE
    BY DEF ModalWhileLoading
  <2>1. \A j \in Loads : of[j][1] = gen => ~Live(j)
    BY <1>1, Undisturbed
  <2> QED BY <1>1, <2>1 DEF Behind
<1> QED BY <1>1, InvariantInOrder, PTL

\* With the serial executor, a list is never replaced by an older one.
THEOREM ListsOnlyGetNewer == Serial => (Spec => ListsGetNewer)
<1> SUFFICES ASSUME Serial PROVE Spec => ListsGetNewer
  OBVIOUS
<1>1. IInv /\ Newer /\ [Next]_vars
        => [\A f \in Frags : list'[f] # list[f] => list'[f] > list[f]]_list
  <2> SUFFICES ASSUME IInv, Newer, [Next]_vars, list' # list
               PROVE  \A f \in Frags : list'[f] # list[f] => list'[f] > list[f]
    OBVIOUS
  <2> USE DEF IInv
  <2>0. \A f \in Frags : list[f] \in Nat /\ rssFeed[f] \in Nat /\ list[f] <= rssFeed[f]
    BY ListsAssumption DEF TypeOK, Feeds, NoFeed, Newer
  <2>1. CASE Post
    <3>1. \A f \in Frags : list'[f] \in {list[f], rssFeed[f]}
      BY <2>1 DEF Post, TypeOK
    <3> QED BY <2>0, <3>1
  <2>2. ASSUME NEW p \in Tabs, Populate(p) PROVE FALSE
    BY <2>2 DEF Populate
  <2>3. ASSUME NEW k \in Loads, Ask(k) \/ Arrive(k) PROVE FALSE
    BY <2>3 DEF Ask, Arrive
  <2>4. CASE \/ Hide \/ Show \/ Leave \/ Rotate \/ Dismiss \/ Click \/ Edit \/ PostFails
             \/ UNCHANGED vars
    BY <2>4 DEF Hide, Show, Leave, Rotate, Dismiss, Click, Edit, PostFails, vars
  <2> QED BY <2>1, <2>2, <2>3, <2>4, ListsAssumption DEF Next, Open, Swipe, Tabs
<1> QED BY <1>1, InvariantInOrder, PTL DEF Spec, ListsGetNewer
-----------------------------------------------------------------------------
(* Lists that load once.                                                   *)

\* Each load that was started is the one and only load of a fragment that was
\* created, so that its dialog stays in the field until its own post comes.
Once ==
  /\ \A k \in Loads : stage[k] # "unused" =>
       of[k] \in known /\ progressDialog[of[k]] = k
  /\ \A d \in showing : Live(d)
  /\ \A f \in known : f[1] <= gen

\* Fragments that did not exist start their loads.
LEMMA StartOnce ==
  ASSUME IInv, Once, NEW fs, NEW start, NEW g, Starts(fs, start, g),
         fs \cap known = {}, known' = known \cup fs,
         showing' \subseteq showing \cup Dialogs(fs, start)
  PROVE  /\ \A k \in Loads : stage'[k] # "unused" =>
              of'[k] \in known' /\ progressDialog'[of'[k]] = k
         /\ \A d \in showing' : Live(d)'
<1> USE DEF IInv
<1>1. /\ start \in [fs -> Loads]
      /\ \A f \in fs : stage[start[f]] = "unused" /\ stage'[start[f]] = "queued"
                       /\ of'[start[f]] = f /\ progressDialog'[f] = start[f]
      /\ \A k \in Loads : \/ stage'[k] = stage[k] /\ of'[k] = of[k]
                          \/ \E f \in fs : start[f] = k
      /\ \A f \in Frags \ fs : progressDialog'[f] = progressDialog[f]
  BY Starting
<1>2. ASSUME NEW k \in Loads, stage'[k] # "unused"
      PROVE  of'[k] \in known' /\ progressDialog'[of'[k]] = k
  <2>1. CASE \E f \in fs : start[f] = k
    BY <1>1, <2>1
  <2>2. CASE stage'[k] = stage[k] /\ of'[k] = of[k]
    <3>1. of[k] \in known /\ of[k] \in Frags \ fs /\ progressDialog[of[k]] = k
      BY <1>2, <2>2 DEF Once, TypeOK
    <3> QED BY <1>1, <2>2, <3>1
  <2> QED BY <1>1, <2>1, <2>2
<1>3. ASSUME NEW d \in showing' PROVE Live(d)'
  <2>1. CASE d \in Dialogs(fs, start)
    BY <1>1, <2>1 DEF Dialogs, Live
  <2>2. CASE d \in showing
    <3>1. d \in Loads /\ stage[d] \notin {"unused", "over"}
      BY <2>2 DEF Once, Live, TypeOK
    <3>2. stage'[d] = stage[d]
      BY <1>1, <3>1
    <3> QED BY <3>1, <3>2 DEF Live
  <2> QED BY <1>3, <2>1, <2>2
<1> QED BY <1>2, <1>3

\* Without reloads every step keeps to one load per fragment.
LEMMA StepOnce == ~Reloads /\ IInv /\ Once /\ [Next]_vars => Once'
<1> SUFFICES ASSUME ~Reloads, IInv, Once, [Next]_vars PROVE Once'
  OBVIOUS
<1> USE DEF IInv
<1>0. gen \in Nat
  BY ListsAssumption DEF TypeOK
<1>1. ASSUME NEW p \in Tabs, Populate(p) PROVE Once'
  <2> DEFINE attached == {<<gen, t>> : t \in Near(p)}
             fs == attached \ known
  <2>1. attached \subseteq Frags /\ \A f \in attached : f[1] = gen
    BY DEF TypeOK, Frags, Near
  <2>2. PICK start \in NewLoads(fs) :
          StartLoads(fs, start) /\ showing' = showing \cup Dialogs(fs, start)
    BY <1>1 DEF Populate
  <2>3. Starts(fs, start, gen) /\ fs \cap known = {}
    BY <2>1, <2>2 DEF Starts
  <2>4. known' = known \cup fs /\ gen' = gen
    BY <1>1 DEF Populate
  <2> HIDE DEF fs
  <2>5. \A f \in known' : f[1] <= gen
    BY <1>0, <2>3, <2>4 DEF Once, Starts
  <2> QED BY <2>2, <2>3, <2>4, <2>5, StartOnce DEF Once
<1>2. CASE Show
  <2>1. PICK start \in NewLoads({}) :
          StartLoads({}, start) /\ showing' = showing \cup Dialogs({}, start)
    BY <1>2 DEF Show
  <2>2. Starts({}, start, gen)
    BY <2>1 DEF Starts
  <2> QED BY <1>2, <2>1, <2>2, StartOnce DEF Once, Show
<1>3. CASE Rotate
  <2> DEFINE fs == {<<gen + 1, f[2]>> : f \in {h \in known : h[1] = gen}}
  <2>1. fs \subseteq Frags /\ \A f \in fs : f[1] = gen + 1
    <3>1. gen + 1 \in 1..MaxGens
      BY <1>3, ListsAssumption DEF Rotate, TypeOK
    <3> QED BY <3>1 DEF Frags, TypeOK
  <2>2. PICK start \in NewLoads(fs) : StartLoads(fs, start) /\ showing' = Dialogs(fs, start)
    BY <1>3 DEF Rotate
  <2>3. Starts(fs, start, gen + 1)
    BY <2>1, <2>2 DEF Starts
  <2>4. known' = known \cup fs /\ gen' = gen + 1
    BY <1>3 DEF Rotate
  <2>5. fs \cap known = {}
    BY <1>0, <2>1 DEF Once
  <2> HIDE DEF fs
  <2>6. \A f \in known : f[1] \in Nat
    BY DEF TypeOK, Frags
  <2>7. \A f \in known' : f[1] <= gen + 1
    BY <1>0, <2>1, <2>4, <2>6 DEF Once
  <2> QED BY <2>2, <2>3, <2>4, <2>5, <2>7, StartOnce DEF Once
<1>4. CASE /\ showing' \subseteq showing
           /\ UNCHANGED <<known, gen, stage, of, progressDialog>>
  BY <1>4 DEF Once, Live
<1>5. CASE Hide \/ Leave \/ Dismiss \/ Click \/ Edit \/ PostFails \/ UNCHANGED vars
  BY <1>4, <1>5 DEF Hide, Leave, Dismiss, Click, Edit, PostFails, vars, activity, loads
<1>6. ASSUME NEW k \in Loads, Ask(k) \/ Arrive(k) PROVE Once'
  <2>1. /\ Live(k)
        /\ stage' \in {[stage EXCEPT ![k] = "running"], [stage EXCEPT ![k] = "answered"]}
        /\ UNCHANGED <<known, gen, of, progressDialog, showing>>
    BY <1>6 DEF Ask, Arrive, Live, activity
  <2>2. \A j \in Loads : (stage'[j] # "unused" => stage[j] # "unused") /\ (Live(j) => Live(j)')
    BY <2>1 DEF Live, TypeOK
  <2>3. showing \subseteq Loads
    BY DEF TypeOK
  <2> QED BY <2>1, <2>2, <2>3 DEF Once
<1>7. CASE Post
  <2> DEFINE k == Head(posts)
  <2>1. k \in Loads /\ stage[k] = "answered"
    BY <1>7, NextPost DEF Post
  <2>2. /\ stage' = [stage EXCEPT ![k] = "over"]
        /\ showing' = showing \ {progressDialog[of[k]]}
        /\ UNCHANGED <<known, gen, of, progressDialog>>
    BY <1>7 DEF Post, activity
  <2>3. progressDialog[of[k]] = k
    BY <2>1 DEF Once
  <2>4. \A d \in showing' : Live(d)'
    BY <2>2, <2>3 DEF Once, Live, TypeOK
  <2>5. \A j \in Loads : stage'[j] # "unused" => stage[j] # "unused"
    BY <2>1, <2>2 DEF TypeOK
  <2> QED BY <2>2, <2>4, <2>5 DEF Once
<1> QED BY <1>1, <1>2, <1>3, <1>5, <1>6, <1>7, ListsAssumption DEF Next, Open, Swipe, Tabs

\* The lists of courses and semesters, which load in onCreate only: a dialog
\* that says "Loading information..." has its own load under way, whatever was
\* rotated, dismissed or left in between. It is the second onStart of a course's
\* tab that breaks this (the run lost_dialog).
THEOREM DialogsAreLoads == ~Reloads => (Spec => []LoadingMeansLoading)
<1> SUFFICES ASSUME ~Reloads PROVE Spec => []LoadingMeansLoading
  OBVIOUS
<1>1. Init => Once
  BY DEF Init, Once
<1>2. IInv /\ Once /\ [Next]_vars => Once'
  BY StepOnce
<1>3. IInv /\ Once => LoadingMeansLoading
  BY DEF IInv, TypeOK, Once, LoadingMeansLoading
<1> QED BY <1>1, <1>2, <1>3, InitIInv, Inductive, PTL DEF Spec
=============================================================================
