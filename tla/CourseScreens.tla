--------------------------- MODULE CourseScreens ---------------------------
(***************************************************************************)
(* Which course the screens of a course show: CourseContentActivity, whose *)
(* courseid is a static field that every new screen overwrites, and its    *)
(* tabs, which keep the courseid they were created with in a field that    *)
(* the system does not save. The tabs ask the services of MoodleServices.  *)
(*                                                                         *)
(* Screens of courses lie on each other when two rows of the list of       *)
(* courses are touched before the first one's screen covers it. A rotation *)
(* destroys and creates the screen in front; when the process dies, each   *)
(* screen is created again when it comes to the front. The details of a    *)
(* load are in ServiceLists: here a tab shows what its service answers.    *)
(***************************************************************************)
EXTENDS MoodleServices, Sequences

CONSTANTS SomeSites,   \* the contents that Moodle's tables may have
          Me,          \* the user
          MaxTaps      \* bound: touches of the list before a screen covers it

ASSUME ScreensAssumption ==
    SomeSites \subseteq Sites /\ Me \in Ids /\ MaxTaps \in Nat

VARIABLES site,       \* Moodle's tables
          courseid,   \* the static field
          opening,    \* courses whose screens are started, not yet created
          stack       \* the screens, the one in front last

screenVars == <<site, courseid, opening, stack>>

Tabs == 1 .. 6
Weekly == 1
Assignments == 2
Resources == 3
Forum == 4
Quiz == 5
Participants == 6

Screen == [title: Ids,               \* the course in the intent: the title
           page: Tabs,               \* the tab in front
           made: SUBSET Tabs,        \* tabs whose fragments exist
           of: [Tabs -> Nat],        \* fragment.courseid
           alive: BOOLEAN,           \* FALSE: only its saved state is left
           over: SUBSET Ids]         \* history: courses opened on top of it

ScreensTypeOK ==
    /\ site \in SomeSites
    /\ courseid \in Nat
    /\ opening \in Seq(Ids)
    /\ stack \in Seq(Screen)

----------------------------------------------------------------------------
Listed == {row.courseid : row \in UserCourse(site, Me)}

\* Changed form: a page before the first, and one behind the last
Near_Unbounded(p) == {p - 1, p, p + 1}

\* ViewPager creates the page in front and its neighbours
Near(p) == {t \in Tabs : p - 1 <= t /\ t <= p + 1}

\* getItem, for the tabs that have no fragment yet, with the static courseid c
Populate(s, p, c) ==
    [s EXCEPT !.page = p, !.made = @ \cup Near(p),
              !.of = [t \in Tabs |-> IF t \in Near(p) \ s.made THEN c ELSE s.of[t]]]

NewScreen(c) ==
    [title |-> c, page |-> 1, made |-> {}, of |-> [t \in Tabs |-> Null],
     alive |-> TRUE, over |-> {}]

\* The system creates the screen from its saved state: the fragments come back
\* without their courseid
Restored(s) ==
    [s EXCEPT !.alive = TRUE, !.over = {}, !.of = [t \in Tabs |-> Null]]

Top == stack[Len(stack)]
Below == SubSeq(stack, 1, Len(stack) - 1)

\* The user touches a row of the list of courses
Tap(c) ==
    /\ stack = <<>> /\ Len(opening) < MaxTaps
    /\ c \in Listed
    /\ opening' = Append(opening, c)
    /\ UNCHANGED <<site, courseid, stack>>

\* onCreate of the next screen, on top of those there are
Create ==
    /\ opening # <<>>
    /\ LET c == Head(opening)
           covered == [i \in 1 .. Len(stack) |-> [stack[i] EXCEPT !.over = @ \cup {c}]]
       IN /\ courseid' = c
          /\ stack' = Append(covered, Populate(NewScreen(c), 1, c))
    /\ opening' = Tail(opening)
    /\ UNCHANGED site

\* The user swipes to a neighbouring tab
Swipe(p) ==
    /\ stack # <<>>
    /\ p \in Near(Top.page) \ {Top.page}
    /\ stack' = Append(Below, Populate(Top, p, courseid))
    /\ UNCHANGED <<site, courseid, opening>>

\* Changed form: the screen is created again and takes its course from the
\* static field if there is one
Rotate_KeepsStatic ==
    /\ stack # <<>>
    /\ stack' = Append(Below, Restored(Top))
    /\ UNCHANGED <<site, courseid, opening>>

\* onCreate again, of the screen in front
Rotate ==
    /\ stack # <<>>
    /\ courseid' = Top.title
    /\ stack' = Append(Below, Restored(Top))
    /\ UNCHANGED <<site, opening>>

\* The process dies in the background, and the user comes back to the screen
Die ==
    /\ stack # <<>> /\ opening = <<>>
    /\ courseid' = Top.title
    /\ stack' = Append([i \in 1 .. Len(stack) - 1 |-> [stack[i] EXCEPT !.alive = FALSE]],
                       Restored(Top))
    /\ UNCHANGED <<site, opening>>

\* Back, to a screen that is there or to one that is created again
Back ==
    /\ stack # <<>>
    /\ IF Below # <<>> /\ ~Below[Len(Below)].alive
       THEN /\ courseid' = Below[Len(Below)].title
            /\ stack' = [Below EXCEPT ![Len(Below)] = Restored(@)]
       ELSE /\ stack' = Below
            /\ UNCHANGED courseid
    /\ UNCHANGED <<site, opening>>

ScreensInit ==
    /\ site \in SomeSites
    /\ courseid = Null
    /\ opening = <<>>
    /\ stack = <<>>

ScreensNext ==
    \/ \E c \in Listed : Tap(c)
    \/ Create
    \/ \E p \in Tabs : Swipe(p)
    \/ Rotate
    \/ Die
    \/ Back

ScreensSpec == ScreensInit /\ [][ScreensNext]_screenVars

----------------------------------------------------------------------------
(* What the tabs show, and what they ought to. *)

\* The rows of tab t with the courseid of its fragment
Rows(t, course) ==
    CASE t = Weekly       -> {r.sectionid : r \in CourseWeekly(site, course, Me)}
      [] t = Assignments  -> AssignmentCourse(site, course)
      [] t = Resources    -> ResourceCourse(site, course)
      [] t = Forum        -> AssignmentCourse(site, course)
      [] t = Quiz         -> CourseQuiz(site, course)
      [] t = Participants -> {r.userid : r \in CourseParticipant(site, course, Me)}

\* What there is in a course
Contents(t, course) ==
    CASE t = Weekly -> {s.id : s \in {r \in site.sections :
                                        r.course = course /\ r.section > 0}}
      [] t \in {Assignments, Forum} -> {a.id : a \in {r \in site.assign : r.course = course}}
      [] t \in {Resources, Quiz} -> {m.id : m \in {r \in site.modules : r.course = course}}
      [] t = Participants -> {n.userid : n \in {r \in site.enrolled :
                                \E e \in site.enrol : e.id = r.enrolid /\ e.courseid = course}}

\* Under the title of a course, a tab lists nothing but what is in that course:
\* or in a course whose screen was opened on top of this one since it was
\* created. So a static courseid that belongs to another screen, or one that
\* was lost with the process, may leave a tab empty, but shows foreign rows
\* only on a screen that was covered by the screen of their course.
TabsShowTheirCourse ==
    \A i \in 1 .. Len(stack) : stack[i].alive =>
       \A t \in stack[i].made :
          \E c \in {stack[i].title} \cup stack[i].over :
             Rows(t, stack[i].of[t]) \subseteq Contents(t, c)

\* The list of a user's courses is complete and has no other course in it,
\* although it repeats a course for each teacher and each way of enrolment; and
\* whoever it names as a teacher has a teacher's role in that very course.
ListedCoursesAreMine ==
    /\ Listed = {e.courseid : e \in Enrolments(site, Me)}
    /\ \A row \in UserCourse(site, Me) : row.teacher.teacherid # Null =>
          \E r \in Teachings(site, row.courseid) : r.userid = row.teacher.teacherid
    /\ \A c \in site.course :
          \A row \in CategoryCourse(site, c.category) :
             \E d \in site.course : d.id = row.courseid /\ d.category = c.category
    /\ \A c \in site.course : \E row \in CategoryCourse(site, c.category) : row.courseid = c.id
===========================================================================
