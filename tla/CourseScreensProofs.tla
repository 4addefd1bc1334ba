------------------------ MODULE CourseScreensProofs ------------------------
(***************************************************************************)
(* Theorems about CourseScreens, for every contents of Moodle's tables and *)
(* any number of screens on each other.                                    *)
(***************************************************************************)
EXTENDS CourseScreens, SequenceTheorems, TLAPS

\* A fragment was made for the screen's course, for one that was opened on top
\* of the screen, or has lost its course.
FragmentsKnown ==
    \A i \in 1 .. Len(stack) : stack[i].alive =>
       \A t \in stack[i].made : stack[i].of[t] \in {stack[i].title, Null} \cup stack[i].over

\* A screen that was there when others were opened on it remembers their courses
Nested ==
    \A i, j \in 1 .. Len(stack) : i < j /\ stack[i].alive =>
       /\ stack[j].title \in stack[i].over
       /\ stack[j].over \subseteq stack[i].over

\* The static field belongs to the screen in front or to one opened on it
StaticKnown ==
    stack # <<>> => courseid \in {Top.title} \cup Top.over

\* The screen in front is there
FrontAlive ==
    stack # <<>> => Top.alive

ScreensInv ==
    ScreensTypeOK /\ FragmentsKnown /\ Nested /\ StaticKnown /\ FrontAlive

----------------------------------------------------------------------------
(* Screens. *)

\* The stack without the screen in front.
LEMMA BelowFacts ==
    ASSUME stack \in Seq(Screen), stack # <<>>
    PROVE  /\ Below \in Seq(Screen)
           /\ Len(stack) \in Nat \ {0}
           /\ Len(Below) = Len(stack) - 1
           /\ \A i \in 1 .. Len(stack) - 1 : Below[i] = stack[i]
           /\ Top \in Screen
<1>1. Len(stack) \in Nat \ {0}
  OBVIOUS
<1>2. Len(stack) - 1 \in Nat /\ 1 <= Len(stack) /\ Len(stack) - 1 <= Len(stack)
  BY <1>1
<1>3. /\ Below \in Seq(Screen)
      /\ Len(Below) = Len(stack) - 1
      /\ \A i \in 1 .. Len(stack) - 1 : Below[i] = stack[i]
  <2>1. \A i \in 1 .. Len(stack) - 1 : i \in 1 .. Len(stack) /\ 1 + i - 1 = i
    BY <1>1
  <2>2. \A i \in 1 .. Len(stack) - 1 : stack[i] \in Screen
    BY <2>1, ElementOfSeq
  <2>3. /\ Below \in Seq(Screen)
        /\ Len(Below) = IF 1 <= Len(stack) - 1 THEN Len(stack) - 1 - 1 + 1 ELSE 0
        /\ \A i \in 1 .. Len(stack) - 1 - 1 + 1 : Below[i] = stack[1 + i - 1]
    BY <1>1, <2>2, SubSeqProperties DEF Below
  <2>4. /\ Len(stack) - 1 - 1 + 1 = Len(stack) - 1
        /\ (IF 1 <= Len(stack) - 1 THEN Len(stack) - 1 - 1 + 1 ELSE 0) = Len(stack) - 1
    <3>1. \A n \in Nat \ {0} : /\ n - 1 - 1 + 1 = n - 1
                               /\ 1 <= n - 1 => n - 1 - 1 + 1 = n - 1
                               /\ ~(1 <= n - 1) => n - 1 = 0
      OBVIOUS
    <3>2. CASE 1 <= Len(stack) - 1
      BY <1>1, <3>1, <3>2
    <3>3. CASE ~(1 <= Len(stack) - 1)
      BY <1>1, <3>1, <3>3
    <3>4. QED
      BY <3>2, <3>3
  <2>5. \A i \in 1 .. Len(stack) - 1 : Below[i] = stack[i]
    BY <2>1, <2>3, <2>4
  <2>6. QED
    BY <2>3, <2>4, <2>5
<1>4. Top \in Screen
  BY <1>1, ElementOfSeq DEF Top
<1>5. QED
  BY <1>1, <1>3, <1>4

\* What getItem does to a screen.
LEMMA PopulateFacts ==
    ASSUME NEW s \in Screen, NEW p \in Tabs, NEW c \in Nat
    PROVE  /\ Populate(s, p, c) \in Screen
           /\ Populate(s, p, c).title = s.title
           /\ Populate(s, p, c).over = s.over
           /\ Populate(s, p, c).alive = s.alive
           /\ Populate(s, p, c).made = s.made \cup Near(p)
           /\ \A t \in Tabs : Populate(s, p, c).of[t] =
                 IF t \in Near(p) \ s.made THEN c ELSE s.of[t]
<1> DEFINE of == [t \in Tabs |-> IF t \in Near(p) \ s.made THEN c ELSE s.of[t]]
<1>1. of \in [Tabs -> Nat]
  BY DEF Screen
<1>2. s.made \cup Near(p) \in SUBSET Tabs
  BY DEF Screen, Near
<1>3. Populate(s, p, c) = [s EXCEPT !.page = p, !.made = s.made \cup Near(p), !.of = of]
  BY DEF Populate
<1>4. \A t \in Tabs : of[t] = IF t \in Near(p) \ s.made THEN c ELSE s.of[t]
  OBVIOUS
<1> HIDE DEF of
<1>5. Populate(s, p, c) \in Screen
  BY <1>1, <1>2, <1>3 DEF Screen
<1>6. /\ Populate(s, p, c).title = s.title
      /\ Populate(s, p, c).over = s.over
      /\ Populate(s, p, c).alive = s.alive
      /\ Populate(s, p, c).made = s.made \cup Near(p)
      /\ Populate(s, p, c).of = of
  BY <1>3 DEF Screen
<1>7. QED
  BY <1>4, <1>5, <1>6

\* What the system gives back of a screen.
LEMMA RestoredFacts ==
    ASSUME NEW s \in Screen
    PROVE  /\ Restored(s) \in Screen
           /\ Restored(s).title = s.title
           /\ Restored(s).over = {}
           /\ Restored(s).alive
           /\ \A t \in Tabs : Restored(s).of[t] = Null
           /\ Restored(s).made \subseteq Tabs
<1> DEFINE of == [t \in Tabs |-> Null]
<1>1. of \in [Tabs -> Nat] /\ \A t \in Tabs : of[t] = Null
  BY DEF Null
<1>2. Restored(s) = [s EXCEPT !.alive = TRUE, !.over = {}, !.of = of]
  BY DEF Restored
<1> HIDE DEF of
<1>3. Restored(s) \in Screen
  BY <1>1, <1>2 DEF Screen
<1>4. /\ Restored(s).title = s.title
      /\ Restored(s).over = {}
      /\ Restored(s).alive
      /\ Restored(s).of = of
      /\ Restored(s).made = s.made
  BY <1>2 DEF Screen
<1>5. QED
  BY <1>1, <1>3, <1>4 DEF Screen

\* A new screen has its course in all its fragments.
LEMMA NewScreenFacts ==
    ASSUME NEW c \in Ids
    PROVE  LET new == Populate(NewScreen(c), 1, c)
           IN /\ new \in Screen
              /\ new.title = c /\ new.over = {} /\ new.alive
              /\ \A t \in new.made : new.of[t] = c
<1> DEFINE s == NewScreen(c)
           new == Populate(s, 1, c)
<1>1. s \in Screen
  <2>1. [t \in Tabs |-> Null] \in [Tabs -> Nat] /\ 1 \in Tabs
    BY DEF Null, Tabs
  <2>2. QED
    BY <2>1 DEF NewScreen, Screen
<1>2. s.title = c /\ s.over = {} /\ s.made = {} /\ s.alive
  BY DEF NewScreen
<1>3. 1 \in Tabs /\ c \in Nat /\ Near(1) \subseteq Tabs
  BY DEF Tabs, Ids, Near
<1> HIDE DEF s
<1>4. /\ new \in Screen
      /\ new.title = s.title
      /\ new.over = s.over
      /\ new.alive = s.alive
      /\ new.made = s.made \cup Near(1)
      /\ \A t \in Tabs : new.of[t] = IF t \in Near(1) \ s.made THEN c ELSE s.of[t]
  BY <1>1, <1>3, PopulateFacts
<1> HIDE DEF new
<1>5. /\ new \in Screen /\ new.title = c /\ new.over = {} /\ new.alive
      /\ \A t \in new.made : new.of[t] = c
  BY <1>2, <1>3, <1>4
<1>6. QED
  BY <1>5 DEF new, s

\* Changing what is remembered of a screen, or whether it is alive, keeps it one.
LEMMA CoveredFacts ==
    ASSUME NEW s \in Screen, NEW c \in Ids
    PROVE  /\ [s EXCEPT !.over = @ \cup {c}] \in Screen
           /\ [s EXCEPT !.over = @ \cup {c}].over = s.over \cup {c}
           /\ [s EXCEPT !.over = @ \cup {c}].title = s.title
           /\ [s EXCEPT !.over = @ \cup {c}].made = s.made
           /\ [s EXCEPT !.over = @ \cup {c}].of = s.of
           /\ [s EXCEPT !.over = @ \cup {c}].alive = s.alive
           /\ [s EXCEPT !.alive = FALSE] \in Screen
           /\ [s EXCEPT !.alive = FALSE].alive = FALSE
<1>1. s.over \cup {c} \in SUBSET Ids
  BY DEF Screen
<1>2. QED
  BY <1>1 DEF Screen

----------------------------------------------------------------------------
(* What the services answer. *)

\* A tab lists nothing that is not in the course whose id it asked with, and a
\* fragment that lost its course lists nothing.
LEMMA RowsAreOfTheCourse ==
    ASSUME site \in Sites, NEW t \in Tabs, NEW c
    PROVE  /\ Rows(t, c) \subseteq Contents(t, c)
           /\ Rows(t, Null) = {}
<1> USE DEF Tabs, Weekly, Assignments, Resources, Forum, Quiz, Participants
<1>1. /\ \A s \in site.sections : s.course \in Nat \ {0}
      /\ \A a \in site.assign : a.course \in Nat \ {0}
      /\ \A m \in site.modules : m.course \in Nat \ {0}
      /\ \A e \in site.enrol : e.courseid \in Nat \ {0}
  BY DEF Sites, SectionRow, OfCourseRow, ModuleRow, EnrolRow, Ids
<1>2. Null \notin Nat \ {0}
  BY DEF Null
<1>3. CASE t = 1
  BY <1>1, <1>2, <1>3 DEF Rows, Contents, CourseWeekly
<1>4. CASE t = 2
  BY <1>1, <1>2, <1>4 DEF Rows, Contents, AssignmentCourse
<1>5. CASE t = 3
  BY <1>1, <1>2, <1>5 DEF Rows, Contents, ResourceCourse
<1>6. CASE t = 4
  BY <1>1, <1>2, <1>6 DEF Rows, Contents, AssignmentCourse
<1>7. CASE t = 5
  BY <1>1, <1>2, <1>7 DEF Rows, Contents, CourseQuiz
<1>8. CASE t = 6
  BY <1>1, <1>2, <1>8 DEF Rows, Contents, CourseParticipant, Enrolments
<1>9. QED
  BY <1>3, <1>4, <1>5, <1>6, <1>7, <1>8

\* The list of courses has ids of courses.
LEMMA ListedFacts ==
    ASSUME site \in Sites
    PROVE  Listed \subseteq Ids
<1>1. \A e \in Enrolments(site, Me) : e.courseid \in Ids
  BY DEF Enrolments, Sites, EnrolRow
<1>2. \A row \in UserCourse(site, Me) : \E e \in Enrolments(site, Me) : row.courseid = e.courseid
  BY DEF UserCourse
<1>3. QED
  BY <1>1, <1>2 DEF Listed

----------------------------------------------------------------------------
(* The invariant is inductive. *)

\* Without screens, the invariant holds.
LEMMA InvInit == ScreensInit => ScreensInv
<1> SUFFICES ASSUME ScreensInit PROVE ScreensInv
  OBVIOUS
<1>1. ScreensTypeOK
  BY EmptySeq DEF ScreensInit, ScreensTypeOK, Null
<1>2. Len(stack) = 0 /\ 1 .. Len(stack) = {}
  BY DEF ScreensInit
<1>3. FragmentsKnown /\ Nested /\ StaticKnown /\ FrontAlive
  BY <1>2 DEF FragmentsKnown, Nested, StaticKnown, FrontAlive, ScreensInit
<1>4. QED
  BY <1>1, <1>3 DEF ScreensInv

\* A screen in front is replaced, and those below stay: what Swipe, Rotate and
\* a Back to a screen that has to be created again have in common.
LEMMA ReplaceTop ==
    ASSUME NEW STATE q, NEW STATE n, NEW STATE new, n \in Nat \ {0},
           q \in Seq(Screen), Len(q) = n,
           \A i \in 1 .. n : q[i].alive => \A t \in q[i].made :
               q[i].of[t] \in {q[i].title, Null} \cup q[i].over,
           \A i, j \in 1 .. n : i < j /\ q[i].alive =>
               q[j].title \in q[i].over /\ q[j].over \subseteq q[i].over,
           new \in Screen, new.title = q[n].title, new.over \subseteq q[n].over,
           \A t \in new.made : new.of[t] \in {new.title, Null} \cup new.over,
           Len(stack') = n, stack'[n] = new,
           \A i \in 1 .. n - 1 : stack'[i] = q[i],
           courseid' \in {new.title} \cup new.over
    PROVE  FragmentsKnown' /\ Nested' /\ StaticKnown'
<1>1. \A i \in 1 .. n : i = n \/ i \in 1 .. n - 1
  OBVIOUS
<1>2. \A i, j \in 1 .. n : i < j => i \in 1 .. n - 1
  OBVIOUS
<1>3. FragmentsKnown'
  BY <1>1 DEF FragmentsKnown
<1>4. Nested'
  BY <1>1, <1>2 DEF Nested
<1>5. StaticKnown'
  BY DEF StaticKnown, Top
<1>6. QED
  BY <1>3, <1>4, <1>5

\* A touch of the list changes no screen.
LEMMA InvTap ==
    ASSUME ScreensInv, NEW c, Tap(c) PROVE ScreensInv'
<1>1. site \in Sites
  BY ScreensAssumption DEF ScreensInv, ScreensTypeOK
<1>2. c \in Ids
  BY <1>1, ListedFacts DEF Tap
<1>3. opening' \in Seq(Ids)
  BY <1>2, AppendProperties DEF Tap, ScreensInv, ScreensTypeOK
<1>4. stack' = stack /\ site' = site /\ courseid' = courseid
  BY DEF Tap
<1>5. QED
  BY <1>3, <1>4 DEF ScreensInv, ScreensTypeOK, FragmentsKnown, Nested, StaticKnown, FrontAlive, Top

\* The new screen belongs to the static field, which those below remember.
LEMMA InvCreate ==
    ASSUME ScreensInv, Create PROVE ScreensInv'
<1> DEFINE c == Head(opening)
           n == Len(stack)
           new == Populate(NewScreen(c), 1, c)
           Covered(i) == [stack[i] EXCEPT !.over = @ \cup {c}]
           covered == [i \in 1 .. n |-> Covered(i)]
<1>1. c \in Ids /\ opening' \in Seq(Ids)
  BY HeadTailProperties DEF Create, ScreensInv, ScreensTypeOK
<1>2. c \in Nat /\ n \in Nat
  BY <1>1, LenProperties DEF Ids, ScreensInv, ScreensTypeOK
<1>4. /\ new \in Screen
      /\ new.title = c /\ new.over = {} /\ new.alive
      /\ \A t \in new.made : new.of[t] = c
  BY <1>1, NewScreenFacts
<1>5. \A i \in 1 .. n :
          /\ stack[i] \in Screen
          /\ Covered(i) \in Screen
          /\ Covered(i).over = stack[i].over \cup {c}
          /\ Covered(i).title = stack[i].title
          /\ Covered(i).made = stack[i].made
          /\ Covered(i).of = stack[i].of
          /\ Covered(i).alive = stack[i].alive
  <2> SUFFICES ASSUME NEW i \in 1 .. n
               PROVE  /\ stack[i] \in Screen
                      /\ Covered(i) \in Screen
                      /\ Covered(i).over = stack[i].over \cup {c}
                      /\ Covered(i).title = stack[i].title
                      /\ Covered(i).made = stack[i].made
                      /\ Covered(i).of = stack[i].of
                      /\ Covered(i).alive = stack[i].alive
    OBVIOUS
  <2>1. stack[i] \in Screen
    BY ElementOfSeq DEF ScreensInv, ScreensTypeOK
  <2>2. QED
    BY <1>1, <2>1, CoveredFacts
<1>6. covered \in Seq(Screen) /\ Len(covered) = n
  BY <1>2, <1>5
<1>7. stack' = Append(covered, new) /\ courseid' = c /\ site' = site
  BY DEF Create
<1> HIDE DEF c, new
<1>8. /\ stack' \in Seq(Screen) /\ Len(stack') = n + 1
      /\ \A i \in 1 .. n : stack'[i] = Covered(i)
      /\ stack'[n + 1] = new
  <2>1. /\ stack' \in Seq(Screen)
        /\ Len(stack') = Len(covered) + 1
        /\ \A i \in 1 .. Len(covered) : stack'[i] = covered[i]
        /\ stack'[Len(covered) + 1] = new
    BY <1>4, <1>6, <1>7, AppendProperties
  <2>2. \A i \in 1 .. n : covered[i] = Covered(i)
    OBVIOUS
  <2>3. QED
    BY <1>6, <2>1, <2>2
<1> HIDE DEF Covered, n
<1>9. ScreensTypeOK'
  BY <1>1, <1>2, <1>7, <1>8 DEF ScreensInv, ScreensTypeOK
<1>10. \A i \in 1 .. n + 1 : i = n + 1 \/ i \in 1 .. n
  BY <1>2
<1>11. FragmentsKnown'
  <2>1. \A i \in 1 .. n : stack[i].alive =>
           \A t \in stack[i].made : stack[i].of[t] \in {stack[i].title, Null} \cup stack[i].over
    BY DEF ScreensInv, FragmentsKnown, n
  <2>2. QED
    BY <1>4, <1>5, <1>8, <1>10, <2>1 DEF FragmentsKnown
<1>12. Nested'
  <2>1. \A i, j \in 1 .. n : i < j /\ stack[i].alive =>
           stack[j].title \in stack[i].over /\ stack[j].over \subseteq stack[i].over
    BY DEF ScreensInv, Nested, n
  <2>2. \A i, j \in 1 .. n + 1 : i < j => i \in 1 .. n
    BY <1>2
  <2>3. QED
    BY <1>4, <1>5, <1>8, <1>10, <2>1, <2>2 DEF Nested
<1>13. StaticKnown' /\ FrontAlive'
  BY <1>4, <1>7, <1>8 DEF StaticKnown, FrontAlive, Top
<1>14. QED
  BY <1>9, <1>11, <1>12, <1>13 DEF ScreensInv

\* What the actions on the screen in front need of the stack.
LEMMA FrontFacts ==
    ASSUME ScreensInv, stack # <<>>
    PROVE  /\ Len(stack) \in Nat \ {0}
           /\ Top \in Screen
           /\ Top.over \subseteq Ids /\ Top.title \in Ids /\ Top.title \in Nat
           /\ \A new \in Screen :
                 /\ Append(Below, new) \in Seq(Screen)
                 /\ Len(Append(Below, new)) = Len(stack)
                 /\ Append(Below, new)[Len(stack)] = new
                 /\ \A i \in 1 .. Len(stack) - 1 : Append(Below, new)[i] = stack[i]
<1>1. /\ Below \in Seq(Screen)
      /\ Len(stack) \in Nat \ {0}
      /\ Len(Below) = Len(stack) - 1
      /\ \A i \in 1 .. Len(stack) - 1 : Below[i] = stack[i]
      /\ Top \in Screen
  BY BelowFacts DEF ScreensInv, ScreensTypeOK
<1>2. Top.over \subseteq Ids /\ Top.title \in Ids /\ Top.title \in Nat
  BY <1>1 DEF Screen, Ids
<1>3. ASSUME NEW new \in Screen
      PROVE  /\ Append(Below, new) \in Seq(Screen)
             /\ Len(Append(Below, new)) = Len(stack)
             /\ Append(Below, new)[Len(stack)] = new
             /\ \A i \in 1 .. Len(stack) - 1 : Append(Below, new)[i] = stack[i]
  <2>1. /\ Append(Below, new) \in Seq(Screen)
        /\ Len(Append(Below, new)) = Len(Below) + 1
        /\ \A i \in 1 .. Len(Below) : Append(Below, new)[i] = Below[i]
        /\ Append(Below, new)[Len(Below) + 1] = new
    BY <1>1, AppendProperties
  <2>2. Len(Below) + 1 = Len(stack)
    BY <1>1
  <2>3. QED
    BY <1>1, <2>1, <2>2
<1>4. QED
  BY <1>1, <1>2, <1>3

\* What the invariant says of the stack as it is, in the form of ReplaceTop.
LEMMA StackFacts ==
    ASSUME ScreensInv, stack # <<>>
    PROVE  /\ \A i \in 1 .. Len(stack) : stack[i].alive => \A t \in stack[i].made :
                 stack[i].of[t] \in {stack[i].title, Null} \cup stack[i].over
           /\ \A i, j \in 1 .. Len(stack) : i < j /\ stack[i].alive =>
                 stack[j].title \in stack[i].over /\ stack[j].over \subseteq stack[i].over
           /\ courseid \in {Top.title} \cup Top.over
BY DEF ScreensInv, FragmentsKnown, Nested, StaticKnown

\* A swipe gives the static field to the fragments that it makes.
LEMMA InvSwipe ==
    ASSUME ScreensInv, NEW p \in Tabs, Swipe(p) PROVE ScreensInv'
<1> DEFINE new == Populate(Top, p, courseid)
           n == Len(stack)
<1>1. stack # <<>> /\ stack' = Append(Below, new) /\ courseid' = courseid
  BY DEF Swipe
<1>2. /\ n \in Nat \ {0}
      /\ Top \in Screen /\ courseid \in Nat
  BY <1>1, FrontFacts DEF ScreensInv, ScreensTypeOK
<1>3. /\ new \in Screen
      /\ new.title = Top.title /\ new.over = Top.over /\ new.alive = Top.alive
      /\ new.made = Top.made \cup Near(p)
      /\ \A t \in Tabs : new.of[t] = IF t \in Near(p) \ Top.made THEN courseid ELSE Top.of[t]
  <2>1. \A s \in Screen, c \in Nat :
            /\ Populate(s, p, c) \in Screen
            /\ Populate(s, p, c).title = s.title
            /\ Populate(s, p, c).over = s.over
            /\ Populate(s, p, c).alive = s.alive
            /\ Populate(s, p, c).made = s.made \cup Near(p)
            /\ \A t \in Tabs : Populate(s, p, c).of[t] =
                  IF t \in Near(p) \ s.made THEN c ELSE s.of[t]
    BY PopulateFacts
  <2>2. QED
    BY <1>2, <2>1
<1>4. new.made \subseteq Tabs
  BY <1>3 DEF Screen
<1> HIDE DEF new
<1>5. /\ stack' \in Seq(Screen) /\ Len(stack') = n /\ stack'[n] = new
      /\ \A i \in 1 .. n - 1 : stack'[i] = stack[i]
  BY <1>1, <1>3, FrontFacts
<1>6. Top = stack[n] /\ n \in 1 .. n
  BY <1>2 DEF Top
<1>7. \A t \in new.made : new.of[t] \in {new.title, Null} \cup new.over
  <2> SUFFICES ASSUME NEW t \in new.made
               PROVE  new.of[t] \in {new.title, Null} \cup new.over
    OBVIOUS
  <2>1. CASE t \in Near(p) \ Top.made
    BY <1>1, <1>3, <1>4, <2>1, StackFacts
  <2>2. CASE t \in Top.made /\ Top.alive
    BY <1>1, <1>3, <1>4, <1>6, <2>2, StackFacts
  <2>3. Top.alive
    BY <1>1 DEF ScreensInv, FrontAlive
  <2>4. QED
    BY <1>3, <2>1, <2>2, <2>3
<1>8. FragmentsKnown' /\ Nested' /\ StaticKnown'
  <2>1. courseid' \in {new.title} \cup new.over
    BY <1>1, <1>3, StackFacts
  <2>2. stack \in Seq(Screen)
    BY DEF ScreensInv, ScreensTypeOK
  <2> HIDE DEF n
  <2>3. n = Len(stack) /\ n \in Nat \ {0}
    BY <1>2 DEF n
  <2>4. new.title = stack[n].title /\ new.over \subseteq stack[n].over
    BY <1>3, <1>6
  <2>5. /\ \A i \in 1 .. n : stack[i].alive => \A t \in stack[i].made :
                 stack[i].of[t] \in {stack[i].title, Null} \cup stack[i].over
        /\ \A i, j \in 1 .. n : i < j /\ stack[i].alive =>
                 stack[j].title \in stack[i].over /\ stack[j].over \subseteq stack[i].over
    BY <1>1, <2>3, StackFacts
  <2>6. QED
    BY <1>3, <1>5, <1>7, <2>1, <2>2, <2>3, <2>4, <2>5, ReplaceTop
<1>9. FrontAlive'
  BY <1>1, <1>3, <1>5 DEF FrontAlive, Top, ScreensInv
<1>10. ScreensTypeOK'
  BY <1>5 DEF Swipe, ScreensInv, ScreensTypeOK
<1>11. QED
  BY <1>8, <1>9, <1>10 DEF ScreensInv

\* A screen that is created again has fragments without a course, and gives its
\* own course to the static field.
LEMMA InvRotate ==
    ASSUME ScreensInv, Rotate PROVE ScreensInv'
<1> DEFINE new == Restored(Top)
           n == Len(stack)
<1>1. stack # <<>> /\ stack' = Append(Below, new) /\ courseid' = Top.title
  BY DEF Rotate
<1>2. n \in Nat \ {0} /\ Top \in Screen /\ Top.title \in Nat
  BY <1>1, FrontFacts
<1>3. /\ new \in Screen /\ new.alive
      /\ new.title = Top.title /\ new.over = {}
      /\ \A t \in new.made : new.of[t] \in {new.title, Null} \cup new.over
  BY <1>2, RestoredFacts
<1> HIDE DEF new
<1>4. /\ stack' \in Seq(Screen) /\ Len(stack') = n /\ stack'[n] = new
      /\ \A i \in 1 .. n - 1 : stack'[i] = stack[i]
  BY <1>1, <1>3, FrontFacts
<1>5. FragmentsKnown' /\ Nested' /\ StaticKnown'
  <2>1. courseid' \in {new.title} \cup new.over
    BY <1>1, <1>3
  <2>2. stack \in Seq(Screen)
    BY DEF ScreensInv, ScreensTypeOK
  <2> HIDE DEF n
  <2>3. n = Len(stack) /\ n \in Nat \ {0}
    BY <1>2 DEF n
  <2>4. new.title = stack[n].title /\ new.over \subseteq stack[n].over
    BY <1>3, <2>3 DEF Top
  <2>5. /\ \A i \in 1 .. n : stack[i].alive => \A t \in stack[i].made :
                 stack[i].of[t] \in {stack[i].title, Null} \cup stack[i].over
        /\ \A i, j \in 1 .. n : i < j /\ stack[i].alive =>
                 stack[j].title \in stack[i].over /\ stack[j].over \subseteq stack[i].over
    BY <1>1, <2>3, StackFacts
  <2>6. QED
    BY <1>3, <1>4, <2>1, <2>2, <2>3, <2>4, <2>5, ReplaceTop
<1>6. FrontAlive'
  BY <1>3, <1>4 DEF FrontAlive, Top
<1>7. ScreensTypeOK'
  BY <1>1, <1>2, <1>4 DEF Rotate, ScreensInv, ScreensTypeOK
<1>8. QED
  BY <1>5, <1>6, <1>7 DEF ScreensInv

\* After the process died, only the screen in front is there.
LEMMA InvDie ==
    ASSUME ScreensInv, Die PROVE ScreensInv'
<1> DEFINE new == Restored(Top)
           n == Len(stack)
           Dead(i) == [stack[i] EXCEPT !.alive = FALSE]
           dead == [i \in 1 .. n - 1 |-> Dead(i)]
<1>1. stack # <<>> /\ stack' = Append(dead, new) /\ courseid' = Top.title
  BY DEF Die
<1>2. n \in Nat \ {0} /\ Top \in Screen /\ Top.title \in Nat
  BY <1>1, FrontFacts
<1>3. /\ new \in Screen /\ new.alive
      /\ new.title = Top.title /\ new.over = {}
      /\ \A t \in new.made : new.of[t] \in {new.title, Null} \cup new.over
  BY <1>2, RestoredFacts
<1> HIDE DEF new
<1>4. \A i \in 1 .. n - 1 : Dead(i) \in Screen /\ Dead(i).alive = FALSE
  <2> SUFFICES ASSUME NEW i \in 1 .. n - 1
               PROVE  Dead(i) \in Screen /\ Dead(i).alive = FALSE
    OBVIOUS
  <2>1. i \in 1 .. n
    BY <1>2
  <2>2. stack[i] \in Screen
    BY <2>1, ElementOfSeq DEF ScreensInv, ScreensTypeOK
  <2>3. QED
    BY <2>2 DEF Screen
<1>5. n - 1 \in Nat
  BY <1>2
<1>6. dead \in Seq(Screen) /\ Len(dead) = n - 1
  BY <1>4, <1>5
<1>7. \A i \in 1 .. n - 1 : dead[i] = Dead(i)
  OBVIOUS
<1> HIDE DEF dead, Dead, n
<1>8. /\ stack' \in Seq(Screen) /\ Len(stack') = n /\ stack'[n] = new
      /\ \A i \in 1 .. n - 1 : stack'[i] = Dead(i)
  <2>1. /\ stack' \in Seq(Screen)
        /\ Len(stack') = Len(dead) + 1
        /\ \A i \in 1 .. Len(dead) : stack'[i] = dead[i]
        /\ stack'[Len(dead) + 1] = new
    BY <1>1, <1>3, <1>6, AppendProperties
  <2>2. Len(dead) + 1 = n
    BY <1>2, <1>6
  <2>3. QED
    BY <1>6, <1>7, <2>1, <2>2
<1>9. \A i \in 1 .. n : i = n \/ i \in 1 .. n - 1
  BY <1>2
<1>10. \A i \in 1 .. n : stack'[i].alive => i = n
  BY <1>4, <1>8, <1>9
<1>11. FragmentsKnown'
  BY <1>3, <1>8, <1>10 DEF FragmentsKnown
<1>12. Nested'
  <2>1. \A i, j \in 1 .. n : i < j => i # n
    BY <1>2
  <2>2. QED
    BY <1>8, <1>10, <2>1 DEF Nested
<1>13. StaticKnown' /\ FrontAlive'
  BY <1>1, <1>3, <1>8 DEF StaticKnown, FrontAlive, Top
<1>14. ScreensTypeOK'
  BY <1>1, <1>2, <1>8 DEF Die, ScreensInv, ScreensTypeOK
<1>15. QED
  BY <1>11, <1>12, <1>13, <1>14 DEF ScreensInv

\* The screen that comes to the front remembers the course of the one that
\* went, or is created again.
LEMMA InvBack ==
    ASSUME ScreensInv, Back PROVE ScreensInv'
<1> DEFINE n == Len(stack) - 1
           new == Restored(Below[n])
<1>1. stack # <<>> /\ opening' = opening /\ site' = site
  BY DEF Back
<1>2. /\ Below \in Seq(Screen)
      /\ Len(stack) \in Nat \ {0}
      /\ Len(Below) = n
      /\ \A i \in 1 .. n : Below[i] = stack[i]
  BY <1>1, BelowFacts DEF ScreensInv, ScreensTypeOK
<1>3. /\ n \in Nat /\ Len(stack) = n + 1
      /\ \A i \in 1 .. n : i \in 1 .. Len(stack) /\ i < n + 1
  BY <1>2
<1>4. n + 1 \in 1 .. Len(stack)
  BY <1>2
<1> HIDE DEF n
<1>5. /\ \A i \in 1 .. n : stack[i].alive => \A t \in stack[i].made :
               stack[i].of[t] \in {stack[i].title, Null} \cup stack[i].over
      /\ \A i, j \in 1 .. n : i < j /\ stack[i].alive =>
               stack[j].title \in stack[i].over /\ stack[j].over \subseteq stack[i].over
  BY <1>1, <1>3, StackFacts
<1>6. CASE Below # <<>> /\ ~Below[Len(Below)].alive
  <2>1. n \in Nat \ {0} /\ n \in 1 .. Len(Below)
    BY <1>2, <1>3, <1>6, EmptySeq
  <2>2. Below[n] \in Screen
    BY <1>2, <2>1, ElementOfSeq
  <2>3. /\ new \in Screen /\ new.alive
        /\ new.title = Below[n].title /\ new.over = {}
        /\ \A t \in new.made : new.of[t] \in {new.title, Null} \cup new.over
    BY <2>2, RestoredFacts
  <2> HIDE DEF new
  <2>4. /\ courseid' = Below[n].title
        /\ stack' = [Below EXCEPT ![n] = new]
    BY <1>2, <1>6 DEF Back, new
  <2>5. /\ stack' \in Seq(Screen) /\ Len(stack') = n /\ stack'[n] = new
        /\ \A i \in 1 .. n - 1 : stack'[i] = Below[i]
    <3>1. /\ stack' \in Seq(Screen) /\ Len(stack') = Len(Below)
          /\ \A i \in 1 .. Len(Below) : stack'[i] = IF i = n THEN new ELSE Below[i]
      BY <1>2, <2>1, <2>3, <2>4, ExceptSeq
    <3>2. \A i \in 1 .. n - 1 : i \in 1 .. n /\ i # n
      BY <2>1
    <3>3. QED
      BY <1>2, <2>1, <3>1, <3>2
  <2>6. /\ \A i \in 1 .. n : Below[i].alive => \A t \in Below[i].made :
               Below[i].of[t] \in {Below[i].title, Null} \cup Below[i].over
        /\ \A i, j \in 1 .. n : i < j /\ Below[i].alive =>
               Below[j].title \in Below[i].over /\ Below[j].over \subseteq Below[i].over
    BY <1>2, <1>5
  <2>7. FragmentsKnown' /\ Nested' /\ StaticKnown'
    <3>1. new.over \subseteq Below[n].over /\ courseid' \in {new.title} \cup new.over
      BY <2>3, <2>4
    <3>2. QED
      BY <1>2, <2>1, <2>3, <2>5, <2>6, <3>1, ReplaceTop
  <2>8. FrontAlive'
    BY <2>3, <2>5 DEF FrontAlive, Top
  <2>9. ScreensTypeOK'
    BY <1>1, <2>2, <2>4, <2>5 DEF ScreensInv, ScreensTypeOK, Screen, Ids
  <2>10. QED
    BY <2>7, <2>8, <2>9 DEF ScreensInv
<1>7. CASE ~(Below # <<>> /\ ~Below[Len(Below)].alive)
  <2>1. stack' = Below /\ courseid' = courseid
    BY <1>7 DEF Back
  <2>2. FragmentsKnown' /\ Nested'
    BY <1>2, <1>5, <2>1 DEF FragmentsKnown, Nested
  <2>3. FrontAlive'
    BY <1>7, <2>1 DEF FrontAlive, Top
  <2>4. StaticKnown'
    <3> SUFFICES ASSUME Below # <<>>
                 PROVE  courseid \in {Below[n].title} \cup Below[n].over
      BY <1>2, <2>1 DEF StaticKnown, Top
    <3>1. n \in 1 .. n /\ Below[n].alive
      BY <1>2, <1>3, <1>7, EmptySeq
    <3>2. Top = stack[n + 1] /\ Below[n] = stack[n]
      BY <1>2, <1>3, <3>1 DEF Top
    <3>3. Top.title \in stack[n].over /\ Top.over \subseteq stack[n].over
      BY <1>1, <1>3, <1>4, <3>1, <3>2, StackFacts
    <3>4. QED
      BY <1>1, <3>2, <3>3, StackFacts
  <2>5. ScreensTypeOK'
    BY <1>1, <1>2, <2>1 DEF ScreensInv, ScreensTypeOK
  <2>6. QED
    BY <2>2, <2>3, <2>4, <2>5 DEF ScreensInv
<1>8. QED
  BY <1>6, <1>7

\* Each step of the screens preserves the invariant.
LEMMA InvNext == ScreensInv /\ [ScreensNext]_screenVars => ScreensInv'
<1> SUFFICES ASSUME ScreensInv, [ScreensNext]_screenVars PROVE ScreensInv'
  OBVIOUS
<1>1. ASSUME NEW c \in Listed, Tap(c) PROVE ScreensInv'
  BY <1>1, InvTap
<1>2. CASE Create
  BY <1>2, InvCreate
<1>3. ASSUME NEW p \in Tabs, Swipe(p) PROVE ScreensInv'
  BY <1>3, InvSwipe
<1>4. CASE Rotate
  BY <1>4, InvRotate
<1>5. CASE Die
  BY <1>5, InvDie
<1>6. CASE Back
  BY <1>6, InvBack
<1>7. CASE UNCHANGED screenVars
  BY <1>7 DEF screenVars, ScreensInv, ScreensTypeOK, FragmentsKnown, Nested,
              StaticKnown, FrontAlive, Top
<1>8. QED
  BY <1>1, <1>2, <1>3, <1>4, <1>5, <1>6, <1>7 DEF ScreensNext

\* The invariant holds in every state.
LEMMA InvHolds == ScreensSpec => []ScreensInv
<1>1. QED
  BY InvInit, InvNext, PTL DEF ScreensSpec

----------------------------------------------------------------------------
(* The theorems. *)

\* The variables have their types: the static field of CourseContentActivity is
\* a course or nothing, and each page that ViewPager made is one of the six.
THEOREM ScreensTypes == ScreensSpec => []ScreensTypeOK
<1>1. ScreensInv => ScreensTypeOK
  BY DEF ScreensInv
<1>2. QED
  BY <1>1, InvHolds, PTL

\* Whatever Moodle's tables contain and however many screens lie on each other:
\* a tab under the title of a course lists what is in that course, or in one
\* whose screen was opened on top of it since it was created.
THEOREM TabsAreOfTheirCourse == ScreensSpec => []TabsShowTheirCourse
<1>1. ScreensInv => TabsShowTheirCourse
  <2> SUFFICES ASSUME ScreensInv,
                      NEW i \in 1 .. Len(stack), stack[i].alive,
                      NEW t \in stack[i].made
               PROVE  \E c \in {stack[i].title} \cup stack[i].over :
                         Rows(t, stack[i].of[t]) \subseteq Contents(t, c)
    BY DEF TabsShowTheirCourse
  <2>1. site \in Sites
    BY ScreensAssumption DEF ScreensInv, ScreensTypeOK
  <2>2. stack[i] \in Screen
    BY ElementOfSeq DEF ScreensInv, ScreensTypeOK
  <2>3. t \in Tabs
    BY <2>2 DEF Screen
  <2>4. stack[i].of[t] \in {stack[i].title, Null} \cup stack[i].over
    BY DEF ScreensInv, FragmentsKnown
  <2>5. CASE stack[i].of[t] = Null
    BY <2>1, <2>3, <2>5, RowsAreOfTheCourse
  <2>6. CASE stack[i].of[t] \in {stack[i].title} \cup stack[i].over
    BY <2>1, <2>3, <2>6, RowsAreOfTheCourse
  <2>7. QED
    BY <2>4, <2>5, <2>6
<1>2. QED
  BY <1>1, InvHolds, PTL

\* The left join keeps each course in the list, and names nobody as a teacher
\* who does not teach that course.
LEMMA TeachersFacts ==
    ASSUME NEW c
    PROVE  /\ WithTeachers(site, c) # {}
           /\ \A t \in WithTeachers(site, c) : t.teacherid # Null =>
                 \E r \in Teachings(site, c) : r.userid = t.teacherid
<1>1. CASE Teachings(site, c) = {}
  BY <1>1 DEF WithTeachers
<1>2. CASE Teachings(site, c) # {}
  <2>1. WithTeachers(site, c) =
           {[teacherid |-> r.userid, roleid |-> r.roleid] : r \in Teachings(site, c)}
    BY <1>2 DEF WithTeachers
  <2>2. WithTeachers(site, c) # {}
    BY <1>2, <2>1
  <2>3. \A t \in WithTeachers(site, c) : \E r \in Teachings(site, c) : r.userid = t.teacherid
    BY <2>1
  <2>4. QED
    BY <2>2, <2>3
<1>3. QED
  BY <1>1, <1>2

\* For every contents of the tables, the list of a user's courses is complete
\* and has no other course, and its teachers teach that course.
THEOREM ListIsMine == ScreensSpec => []ListedCoursesAreMine
<1>1. ListedCoursesAreMine
  <2>1. Listed = {e.courseid : e \in Enrolments(site, Me)}
    <3>1. \A row \in UserCourse(site, Me) : \E e \in Enrolments(site, Me) : row.courseid = e.courseid
      BY DEF UserCourse
    <3>2. \A e \in Enrolments(site, Me) : \E row \in UserCourse(site, Me) : row.courseid = e.courseid
      <4> SUFFICES ASSUME NEW e \in Enrolments(site, Me)
                   PROVE  \E row \in UserCourse(site, Me) : row.courseid = e.courseid
        OBVIOUS
      <4>1. PICK t \in WithTeachers(site, e.courseid) : TRUE
        BY TeachersFacts
      <4>2. [courseid |-> e.courseid, enrolid |-> e.id, teacher |-> t] \in UserCourse(site, Me)
        BY <4>1 DEF UserCourse
      <4>3. QED
        BY <4>2
    <3>3. QED
      BY <3>1, <3>2 DEF Listed
  <2>2. \A row \in UserCourse(site, Me) : row.teacher.teacherid # Null =>
           \E r \in Teachings(site, row.courseid) : r.userid = row.teacher.teacherid
    BY TeachersFacts DEF UserCourse
  <2>3. \A c \in site.course : \A row \in CategoryCourse(site, c.category) :
           \E d \in site.course : d.id = row.courseid /\ d.category = c.category
    BY DEF CategoryCourse
  <2>4. \A c \in site.course : \E row \in CategoryCourse(site, c.category) : row.courseid = c.id
    <3> SUFFICES ASSUME NEW c \in site.course
                 PROVE  \E row \in CategoryCourse(site, c.category) : row.courseid = c.id
      OBVIOUS
    <3>1. PICK t \in WithTeachers(site, c.id) : TRUE
      BY TeachersFacts
    <3>2. [courseid |-> c.id, teacher |-> t] \in CategoryCourse(site, c.category)
      BY <3>1 DEF CategoryCourse
    <3>3. QED
      BY <3>2
  <2>5. QED
    BY <2>1, <2>2, <2>3, <2>4 DEF ListedCoursesAreMine
<1>2. QED
  BY <1>1, PTL

============================================================================
