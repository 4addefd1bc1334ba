------------------------- MODULE LoginScreensProofs -------------------------
(***************************************************************************)
(* For every set of users and every number of activities, tasks, rotations *)
(* and deaths: the variables keep their types, the main screen in front    *)
(* shows the user of the session, and it is not in front without one.      *)
(*                                                                         *)
(* The proofs are about what lies above what on the back stack.            *)
(***************************************************************************)
EXTENDS LoginSessionProofs, SequenceTheorems

\* The activity b is above the activity a on the back stack s.
Over(s, a, b) == \E i, j \in 1..Len(s) : i < j /\ s[i] = a /\ s[j] = b

\* No activity is on the back stack s twice.
NoTwice(s) == \A i, j \in 1..Len(s) : s[i] = s[j] => i = j

(***************************************************************************)
(* The inductive invariant, beside that of the session (IInv).             *)
(***************************************************************************)

\* What is on the stack, was created or has the input is an activity in use;
\* threads belong to splash screens and tasks to login forms.
Known ==
  /\ NoTwice(stack)
  /\ \A a \in Range(stack) \cup created : kind[a] # "unused"
  /\ resumed # 0 => resumed \in created
  /\ \A a \in Acts : threads[a] # <<>> => kind[a] = "splash"
  /\ \A k \in Tasks : Live(k) => kind[owner[k]] = "login"

\* With a session, a main screen that read another one is beneath a main screen.
MainFresh ==
  IsLoggedIn =>
    \A a \in Range(stack) \cap created :
      kind[a] = "main" /\ user[a] # prefs.userid =>
        \E b \in Acts : kind[b] = "main" /\ Over(stack, a, b)

\* Without one, every main screen is beneath an intro.
IntroAbove ==
  ~IsLoggedIn /\ upset = {} =>
    \A a \in Range(stack) : kind[a] = "main" =>
      \E b \in Acts : kind[b] = "intro" /\ Over(stack, a, b)

-----------------------------------------------------------------------------
(* The back stack.                                                         *)

\* Range, with the stack's own indexes.
LEMMA RangeIs ==
  ASSUME NEW S, NEW s \in Seq(S)
  PROVE  /\ Range(s) = {s[i] : i \in 1..Len(s)}
         /\ Range(s) \subseteq S
  BY DEF Range

\* startActivity puts an activity on top.
LEMMA AppendFacts ==
  ASSUME NEW S, NEW s \in Seq(S), NoTwice(s), NEW c \in S, c \notin Range(s)
  PROVE  /\ Append(s, c) \in Seq(S)
         /\ NoTwice(Append(s, c))
         /\ Range(Append(s, c)) = Range(s) \cup {c}
         /\ \A a, b : Over(s, a, b) => Over(Append(s, c), a, b)
         /\ \A a \in Range(s) : Over(Append(s, c), a, c)
<1> DEFINE t == Append(s, c)
           n == Len(s)
<1>1. /\ t \in Seq(S) /\ n \in Nat /\ Len(t) = n + 1
      /\ \A i \in 1..n : t[i] = s[i]
      /\ t[n + 1] = c
      /\ 1..(n + 1) = (1..n) \cup {n + 1}
  OBVIOUS
<1>2. Range(s) = {s[i] : i \in 1..n} /\ Range(t) = {t[i] : i \in 1..(n + 1)}
  BY <1>1, RangeIs
<1>3. Range(t) = Range(s) \cup {c}
  BY <1>1, <1>2
<1>4. NoTwice(t)
  BY <1>1, <1>2 DEF NoTwice
<1>5. \A a, b : Over(s, a, b) => Over(t, a, b)
  BY <1>1 DEF Over
<1>6. \A a \in Range(s) : Over(t, a, c)
  <2> TAKE a \in Range(s)
  <2>1. PICK i \in 1..n : s[i] = a
    BY <1>2
  <2> QED BY <1>1, <2>1 DEF Over
<1> QED BY <1>1, <1>3, <1>4, <1>5, <1>6

\* finish() takes one out, and leaves the order of the others.
LEMMA WithoutFacts ==
  ASSUME NEW S, NEW s \in Seq(S), NoTwice(s), NEW c
  PROVE  /\ Without(s, c) \in Seq(S)
         /\ NoTwice(Without(s, c))
         /\ Range(Without(s, c)) = Range(s) \ {c}
         /\ \A a, b : Over(s, a, b) /\ a # c /\ b # c => Over(Without(s, c), a, b)
<1> DEFINE t == Without(s, c)
           n == Len(s)
<1>0. n \in Nat /\ Range(s) = {s[i] : i \in 1..n}
  BY RangeIs
<1>1. CASE c \notin Range(s)
  <2>1. t = s
    BY <1>1 DEF Without
  <2> QED BY <1>1, <2>1
<1>2. CASE c \in Range(s)
  <2>1. PICK p \in 1..n : s[p] = c
    BY <1>0, <1>2
  <2>2. DOMAIN s = 1..n
    BY <1>0
  <2>3. (CHOOSE i \in DOMAIN s : s[i] = c) = p
    BY <2>1, <2>2 DEF NoTwice
  <2>4. t = SubSeq(s, 1, p - 1) \o SubSeq(s, p + 1, n)
    BY <1>2, <2>3 DEF Without, RemoveAt
  <2>5. /\ t \in Seq(S) /\ Len(t) = n - 1
        /\ \A i \in 1..(n - 1) : t[i] = IF i < p THEN s[i] ELSE s[i + 1]
    <3> DEFINE u == SubSeq(s, 1, p - 1)
               v == SubSeq(s, p + 1, n)
    <3>1. u \in Seq(S) /\ Len(u) = p - 1 /\ \A i \in 1..(p - 1) : u[i] = s[i]
      BY <1>0, <2>1
    <3>2. v \in Seq(S) /\ Len(v) = n - p /\ \A i \in 1..(n - p) : v[i] = s[p + i]
      BY <1>0, <2>1
    <3> HIDE DEF u, v
    <3>3. /\ u \o v \in Seq(S) /\ Len(u \o v) = n - 1
          /\ \A i \in 1..(n - 1) : (u \o v)[i] = IF i < p THEN u[i] ELSE v[i - (p - 1)]
      <4>1. Len(u) + Len(v) = n - 1 /\ p - 1 \in Nat
        BY <1>0, <2>1, <3>1, <3>2
      <4>2. /\ u \o v \in Seq(S)
            /\ Len(u \o v) = Len(u) + Len(v)
            /\ \A i \in 1..(Len(u) + Len(v)) :
                 (u \o v)[i] = IF i <= Len(u) THEN u[i] ELSE v[i - Len(u)]
        BY <3>1, <3>2, ConcatProperties
      <4>3. \A i \in 1..(n - 1) : i <= p - 1 <=> i < p
        BY <1>0, <2>1
      <4> QED BY <4>1, <4>2, <4>3, <3>1
    <3>4. \A i \in 1..(n - 1) : ~(i < p) => v[i - (p - 1)] = s[i + 1]
      BY <1>0, <2>1, <3>2
    <3>5. t = u \o v
      BY <2>4 DEF u, v
    <3>6. u \o v \in Seq(S) /\ Len(u \o v) = n - 1
      BY <3>3
    <3>7. \A i \in 1..(n - 1) : (u \o v)[i] = IF i < p THEN s[i] ELSE s[i + 1]
      BY <1>0, <2>1, <3>1, <3>3, <3>4
    <3> QED BY <3>5, <3>6, <3>7
  <2> HIDE DEF t, n
  <2> DEFINE From(i) == IF i < p THEN i ELSE i + 1
             To(i) == IF i < p THEN i ELSE i - 1
  <2>a. \A i \in 1..(n - 1) : From(i) \in 1..n /\ t[i] = s[From(i)]
    <3> TAKE i \in 1..(n - 1)
    <3>1. From(i) \in 1..n
      BY <1>0, <2>1
    <3> QED BY <2>5, <3>1
  <2>b. \A i, j \in 1..(n - 1) : From(i) = From(j) => i = j
    BY <1>0, <2>1
  <2>c. \A i \in 1..n : i # p => To(i) \in 1..(n - 1) /\ From(To(i)) = i
    BY <1>0, <2>1
  <2>6. NoTwice(t)
    <3>1. SUFFICES ASSUME NEW i \in 1..(n - 1), NEW j \in 1..(n - 1), t[i] = t[j]
                   PROVE  i = j
      BY <2>5 DEF NoTwice
    <3> HIDE DEF From
    <3>2. From(i) = From(j)
      BY <2>a, <3>1 DEF NoTwice, n
    <3> QED BY <2>b, <3>2
  <2>7. \A i \in 1..n : i # p =>
          \E k \in 1..(n - 1) : t[k] = s[i] /\ k = IF i < p THEN i ELSE i - 1
    <3> SUFFICES ASSUME NEW i \in 1..n, i # p
                 PROVE  To(i) \in 1..(n - 1) /\ t[To(i)] = s[i]
      OBVIOUS
    <3> HIDE DEF From, To
    <3> QED BY <2>a, <2>c
  <2> USE DEF n
  <2>8. Range(t) = Range(s) \ {c}
    <3>1. Range(t) = {t[i] : i \in 1..(n - 1)}
      BY <2>5, RangeIs
    <3>2. \A i \in 1..(n - 1) : t[i] \in Range(s) \ {c}
      BY <1>0, <2>1, <2>5 DEF NoTwice
    <3>3. \A a \in Range(s) \ {c} : a \in Range(t)
      BY <1>0, <2>1, <2>7, <3>1
    <3> QED BY <3>1, <3>2, <3>3
  <2>9. ASSUME NEW a, NEW b, Over(s, a, b), a # c, b # c
        PROVE  Over(t, a, b)
    <3>1. PICK i \in 1..n, j \in 1..n : i < j /\ s[i] = a /\ s[j] = b
      BY <2>9 DEF Over
    <3>2. i # p /\ j # p
      BY <2>1, <2>9, <3>1
    <3> DEFINE x == IF i < p THEN i ELSE i - 1
               y == IF j < p THEN j ELSE j - 1
    <3>3. x \in 1..(n - 1) /\ y \in 1..(n - 1) /\ x < y
      BY <1>0, <2>1, <3>1, <3>2
    <3>4. /\ From(x) = i /\ From(y) = j
          /\ t[x] = s[From(x)] /\ t[y] = s[From(y)]
      BY <2>a, <2>c, <3>1, <3>2, <3>3
    <3> HIDE DEF x, y, From, To
    <3>5. t[x] = a /\ t[y] = b
      BY <3>1, <3>4
    <3>6. x \in 1..Len(t) /\ y \in 1..Len(t)
      BY <2>5, <3>3
    <3>7. \E k, l \in 1..Len(t) : k < l /\ t[k] = a /\ t[l] = b
      BY <3>3, <3>5, <3>6
    <3> QED BY <3>7 DEF Over
  <2> QED BY <2>5, <2>6, <2>8, <2>9 DEF t
<1> QED BY <1>1, <1>2

\* The top of the stack has nothing above it.
LEMMA TopFacts ==
  ASSUME NEW S, stack \in Seq(S), NoTwice(stack), Top # 0
  PROVE  Top \in Range(stack) /\ \A b : ~Over(stack, Top, b)
<1>1. stack # <<>> /\ Top = stack[Len(stack)] /\ Len(stack) \in 1..Len(stack)
  BY DEF Top
<1>2. Top \in Range(stack)
  BY <1>1, RangeIs
<1>3. ASSUME NEW b, Over(stack, Top, b) PROVE FALSE
  <2>1. PICK i \in 1..Len(stack), j \in 1..Len(stack) : i < j /\ stack[i] = Top
    BY <1>3 DEF Over
  <2>2. i = Len(stack)
    BY <1>1, <2>1 DEF NoTwice
  <2> QED BY <2>1, <2>2
<1> QED BY <1>2, <1>3
-----------------------------------------------------------------------------
(* What a step does to the stack.                                          *)

Kinds == {"unused", "splash", "intro", "login", "main"}

\* A new activity on top, and the one that is done gone.
LEMMA StartFacts ==
  ASSUME TypeOK, Known, NEW k, NEW done, Start(k, done)
  PROVE  \E a \in Acts :
           /\ kind[a] = "unused" /\ a \notin Range(stack) /\ a \notin created
           /\ threads[a] = <<>>
           /\ kind' = [kind EXCEPT ![a] = k]
           /\ foreground' = TRUE
           /\ stack' \in Seq(Acts) /\ NoTwice(stack')
           /\ Range(stack') = (Range(stack) \cup {a}) \ {done}
           /\ \A b, c : Over(stack, b, c) /\ b # done /\ c # done => Over(stack', b, c)
           /\ \A b \in Range(stack) : b # done /\ a # done => Over(stack', b, a)
<1>1. PICK a \in Unused :
        /\ kind' = [kind EXCEPT ![a] = k]
        /\ stack' = Without(Append(stack, a), done)
        /\ foreground' = TRUE
  BY DEF Start
<1>2. a \in Acts /\ kind[a] = "unused" /\ stack \in Seq(Acts) /\ NoTwice(stack)
  BY DEF Unused, Known, TypeOK
<1>3. a \notin Range(stack) /\ a \notin created /\ threads[a] = <<>>
  BY <1>2 DEF Known
<1> DEFINE s == Append(stack, a)
<1>4. /\ s \in Seq(Acts) /\ NoTwice(s) /\ Range(s) = Range(stack) \cup {a}
      /\ \A b, c : Over(stack, b, c) => Over(s, b, c)
      /\ \A b \in Range(stack) : Over(s, b, a)
  BY <1>2, <1>3, AppendFacts
<1> HIDE DEF s
<1>5. /\ Without(s, done) \in Seq(Acts) /\ NoTwice(Without(s, done))
      /\ Range(Without(s, done)) = Range(s) \ {done}
      /\ \A b, c : Over(s, b, c) /\ b # done /\ c # done => Over(Without(s, done), b, c)
  BY <1>4, WithoutFacts
<1>6. stack' = Without(s, done)
  BY <1>1 DEF s
<1>7. /\ stack' \in Seq(Acts) /\ NoTwice(stack')
      /\ Range(stack') = (Range(stack) \cup {a}) \ {done}
  BY <1>4, <1>5, <1>6
<1>8. /\ \A b, c : Over(stack, b, c) /\ b # done /\ c # done => Over(stack', b, c)
      /\ \A b \in Range(stack) : b # done /\ a # done => Over(stack', b, a)
  BY <1>4, <1>5, <1>6
<1> QED BY <1>1, <1>2, <1>3, <1>7, <1>8

\* The numbers of activities are not 0.
LEMMA ActsFacts == 0 \notin Acts /\ Acts \subseteq Nat
  BY BoundsAssumption DEF Acts

\* A step that starts an activity of kind k in the place of done (0 for none),
\* keeps the session, the activities created and what they read.
LEMMA StartKeeps ==
  ASSUME TypeOK, Known, MainFresh, IntroAbove,
         NEW k \in Kinds \ {"unused"}, NEW done, Start(k, done),
         done \in Acts => kind[done] \in {"splash", "login"},
         UNCHANGED <<prefs, created, user, resumed>>,
         upset \subseteq upset',
         k = "main" => IsLoggedIn \/ upset' # {},
         \A a \in Acts : threads'[a] # <<>> => threads[a] # <<>>,
         \A j \in Tasks : Live(j)' => Live(j) /\ owner'[j] = owner[j],
         \A j \in Tasks : Live(j) => owner[j] \in Acts
  PROVE  Known' /\ MainFresh' /\ IntroAbove'
<1>1. PICK n \in Acts :
        /\ kind[n] = "unused" /\ n \notin Range(stack) /\ n \notin created
        /\ threads[n] = <<>>
        /\ kind' = [kind EXCEPT ![n] = k]
        /\ stack' \in Seq(Acts) /\ NoTwice(stack')
        /\ Range(stack') = (Range(stack) \cup {n}) \ {done}
        /\ \A b, c : Over(stack, b, c) /\ b # done /\ c # done => Over(stack', b, c)
        /\ \A b \in Range(stack) : b # done /\ n # done => Over(stack', b, n)
  BY StartFacts
<1>2. /\ kind'[n] = k /\ \A a \in Acts : a # n => kind'[a] = kind[a]
      /\ stack \in Seq(Acts) /\ Range(stack) \subseteq Acts /\ created \subseteq Acts
      /\ Range(stack') \subseteq Acts
  BY <1>1, RangeIs DEF TypeOK
<1>3. Known'
  <2>1. NoTwice(stack') /\ (resumed' # 0 => resumed' \in created')
    BY <1>1 DEF Known
  <2>2. \A a \in Range(stack') \cup created' : kind'[a] # "unused"
    BY <1>1, <1>2 DEF Known
  <2>3. \A a \in Acts : threads'[a] # <<>> => kind'[a] = "splash"
    BY <1>1, <1>2 DEF Known
  <2>4. \A j \in Tasks : Live(j)' => kind'[owner'[j]] = "login"
    BY <1>1, <1>2 DEF Known
  <2> QED BY <2>1, <2>2, <2>3, <2>4 DEF Known
<1>4. done \notin Acts \/ (kind[done] # "main" /\ kind[done] # "intro" /\ n # done)
  BY <1>1
<1>5. MainFresh'
  <2> SUFFICES ASSUME IsLoggedIn, NEW a \in Range(stack') \cap created,
                      kind'[a] = "main", user[a] # prefs.userid
               PROVE  \E b \in Acts : kind'[b] = "main" /\ Over(stack', a, b)
    BY DEF MainFresh, IsLoggedIn
  <2>1. a \in Range(stack) /\ a # n /\ kind[a] = "main" /\ a # done
    BY <1>1, <1>2, <1>4
  <2>2. PICK b \in Acts : kind[b] = "main" /\ Over(stack, a, b)
    BY <2>1 DEF MainFresh
  <2>3. b # n /\ b # done
    BY <1>1, <1>4, <2>2
  <2> QED BY <1>1, <1>2, <2>1, <2>2, <2>3
<1>6. IntroAbove'
  <2> SUFFICES ASSUME ~IsLoggedIn, upset' = {}, NEW a \in Range(stack'), kind'[a] = "main"
               PROVE  \E b \in Acts : kind'[b] = "intro" /\ Over(stack', a, b)
    BY DEF IntroAbove, IsLoggedIn
  <2>1. a \in Range(stack) /\ a # n /\ kind[a] = "main" /\ a # done
    BY <1>1, <1>2, <1>4
  <2>2. PICK b \in Acts : kind[b] = "intro" /\ Over(stack, a, b)
    BY <2>1 DEF IntroAbove
  <2>3. b # n /\ b # done
    BY <1>1, <1>4, <2>2
  <2> QED BY <1>1, <1>2, <2>1, <2>2, <2>3
<1> QED BY <1>3, <1>5, <1>6

-----------------------------------------------------------------------------
(* The steps.                                                              *)

Screens == Known /\ MainFresh /\ IntroAbove

\* The app as installed has no screens.
LEMMA InitScreens == Init => TypeOK /\ Screens
<1> SUFFICES ASSUME Init PROVE TypeOK /\ Screens  OBVIOUS
<1> USE DataAssumption, BoundsAssumption DEF Init
<1>1. Range(stack) = {} /\ Len(stack) = 0
  BY DEF Range
<1>2. Screens
  BY <1>1 DEF Screens, Known, MainFresh, IntroAbove, NoTwice, Live
<1>3. prefs \in Sessions \cup {Null} /\ typed \subseteq Names \X Passwords
  BY DEF Sessions
<1>4. upset \subseteq {"lost", "stale"} /\ created \subseteq Acts
  OBVIOUS
<1>5. /\ kind \in [Acts -> {"unused", "splash", "intro", "login", "main"}]
      /\ user \in [Acts -> Accounts \cup {Null}]
      /\ username \in [Acts -> Names \cup {Empty, Null}]
      /\ password \in [Acts -> Passwords \cup {Empty, Null}]
      /\ authTask \in [Acts -> Tasks \cup {0}]
  OBVIOUS
<1>6. threads \in [Acts -> Seq({"asleep", "intro", "main", "over"})]
  OBVIOUS
<1>7. /\ stack \in Seq(Acts) /\ resumed \in Acts \cup {0} /\ posts \in Seq(Tasks)
      /\ foreground \in BOOLEAN /\ alive \in BOOLEAN
  <2>1. stack \in Seq(Acts) /\ posts \in Seq(Tasks) /\ resumed \in Acts \cup {0}
    OBVIOUS
  <2>2. foreground \in BOOLEAN /\ alive \in BOOLEAN
    OBVIOUS
  <2> QED BY <2>1, <2>2
<1>8. /\ stage \in [Tasks -> {"unused", "queued", "running", "answered", "over"}]
      /\ owner \in [Tasks -> Acts \cup {0}]
      /\ asked \in [Tasks -> Names \cup {Null}]
      /\ answer \in [Tasks -> Accounts \cup {NoAccount, Null}]
  OBVIOUS
<1>9. /\ author \in Tasks \cup {0}
      /\ crash \in {"none", "onCreate", "doInBackground", "onPostExecute"}
      /\ rotations \in 0..MaxRotations /\ deaths \in 0..MaxDeaths
  OBVIOUS
<1>10. TypeOK
  BY <1>3, <1>4, <1>5, <1>6, <1>7, <1>8, <1>9 DEF TypeOK
<1> QED BY <1>2, <1>10

\* Steps that leave the screens and the session alone, or end a task.
LEMMA QuietKeepsScreens ==
  ASSUME Screens,
         UNCHANGED <<prefs, kind, created, user, stack, threads, upset>>,
         resumed' \in {resumed, 0},
         \A j \in Tasks : Live(j)' => kind[owner'[j]] = "login"
  PROVE  Screens'
  BY DEF Screens, Known, MainFresh, IntroAbove, IsLoggedIn

\* A launch, the intro's login button.
LEMMA LaunchKeepsScreens ==
  ASSUME IInv, TypeOK, Screens, Launch \/ TapLogin
  PROVE  Screens'
<1>1. /\ \A j \in Tasks : Live(j)' => Live(j) /\ owner'[j] = owner[j]
      /\ \A j \in Tasks : Live(j) => owner[j] \in Acts
  BY DEF Launch, TapLogin, tasks, Live, IInv, Linked
<1>2. 0 \notin Acts
  BY ActsFacts
<1>3. CASE stack # <<>> /\ Launch /\ UNCHANGED <<kind, stack>>
  BY <1>1, <1>3, QuietKeepsScreens DEF Launch, Screens, Known
<1>4. CASE Launch /\ Start("splash", 0)
  <2>1. UNCHANGED <<prefs, created, user, resumed, threads, upset>>
    BY <1>4 DEF Launch
  <2>3. upset \subseteq upset' /\ \A a \in Acts : threads'[a] # <<>> => threads[a] # <<>>
    BY <2>1
  <2>2. "splash" \in Kinds \ {"unused"} /\ "splash" # "main"
    BY DEF Kinds
  <2> QED BY <1>1, <1>2, <1>4, <2>1, <2>2, <2>3, StartKeeps DEF Screens
<1>5. CASE TapLogin
  <2>1. UNCHANGED <<prefs, created, user, resumed, threads, upset>> /\ Start("login", 0)
    BY <1>5 DEF TapLogin, history
  <2>3. upset \subseteq upset' /\ \A a \in Acts : threads'[a] # <<>> => threads[a] # <<>>
    BY <2>1
  <2>2. "login" \in Kinds \ {"unused"} /\ "login" # "main"
    BY DEF Kinds
  <2> QED BY <1>1, <1>2, <2>1, <2>2, <2>3, StartKeeps DEF Screens
<1> QED BY <1>3, <1>4, <1>5 DEF Launch

\* A splash thread starts the screen that its check chose, and says so when the
\* session is not what it was.
LEMMA SplashKeepsScreens ==
  ASSUME IInv, TypeOK, Screens, RunSplash
  PROVE  Screens'
<1>0. PICK a \in Acts :
        \E i \in DOMAIN threads[a] : SplashCheck(a, i) \/ SplashStart(a, i)
  BY DEF RunSplash
<1>1. PICK i \in DOMAIN threads[a] : SplashCheck(a, i) \/ SplashStart(a, i)
  BY <1>0
<1>2. threads[a] # <<>> /\ kind[a] = "splash"
  BY <1>1 DEF Screens, Known, TypeOK
<1>3. CASE SplashCheck(a, i)
  <2>1. \A j \in Tasks : Live(j)' => kind[owner'[j]] = "login"
    BY <1>3 DEF SplashCheck, tasks, Live, Screens, Known
  <2>2. \A b \in Acts : threads'[b] # <<>> => kind[b] = "splash"
    BY <1>2, <1>3 DEF SplashCheck, TypeOK, Screens, Known
  <2> QED
    BY <1>3, <2>1, <2>2 DEF SplashCheck, history, Screens, Known, MainFresh, IntroAbove, IsLoggedIn
<1>4. CASE SplashStart(a, i)
  <2> DEFINE k == threads[a][i]
  <2>1. /\ k \in {"intro", "main"} /\ k \in Kinds \ {"unused"} /\ Start(k, a)
        /\ UNCHANGED <<prefs, created, user, resumed>>
    BY <1>4 DEF SplashStart, Kinds
  <2>2. upset \subseteq upset' /\ (k = "main" => IsLoggedIn \/ upset' # {})
    BY <1>4 DEF SplashStart
  <2>3. \A b \in Acts : threads'[b] # <<>> => threads[b] # <<>>
    BY <1>2, <1>4 DEF SplashStart, TypeOK
  <2>4. \A j \in Tasks : Live(j)' => Live(j) /\ owner'[j] = owner[j]
    BY <1>4 DEF SplashStart, tasks, Live
  <2>5. \A j \in Tasks : Live(j) => owner[j] \in Acts
    BY DEF IInv, Linked
  <2> HIDE DEF k
  <2> QED BY <1>2, <2>1, <2>2, <2>3, <2>4, <2>5, StartKeeps DEF Screens
<1> QED BY <1>1, <1>3, <1>4

\* The back key finishes no main screen with a session, and no intro without.
LEMMA BackKeepsScreens ==
  ASSUME IInv, TypeOK, Screens, Back
  PROVE  Screens'
<1>1. UNCHANGED <<prefs, kind, created, user, threads, stage, owner, upset>>
  BY DEF Back, acts, tasks, history
<1>2. \A j \in Tasks : Live(j)' => kind[owner'[j]] = "login"
  BY <1>1 DEF Live, Screens, Known
<1>3. CASE ToBack
  BY <1>1, <1>2, <1>3, QuietKeepsScreens DEF ToBack
<1>4. CASE ~ToBack
  <2>1. /\ stack' = Without(stack, resumed) /\ resumed' = resumed
        /\ IsLoggedIn => kind[resumed] # "main"
        /\ ~IsLoggedIn => kind[resumed] # "intro"
    BY <1>4 DEF Back
  <2>2. stack \in Seq(Acts) /\ NoTwice(stack)
    BY DEF TypeOK, Screens, Known
  <2>3. /\ NoTwice(stack') /\ Range(stack') = Range(stack) \ {resumed}
        /\ \A a, b : Over(stack, a, b) /\ a # resumed /\ b # resumed => Over(stack', a, b)
    BY <2>1, <2>2, WithoutFacts
  <2>4. Known'
    BY <1>1, <1>2, <2>1, <2>3 DEF Screens, Known
  <2>5. MainFresh'
    BY <1>1, <2>1, <2>3 DEF Screens, MainFresh, IsLoggedIn
  <2>6. IntroAbove'
    BY <1>1, <2>1, <2>3 DEF Screens, IntroAbove, IsLoggedIn
  <2> QED BY <2>4, <2>5, <2>6 DEF Screens
<1> QED BY <1>3, <1>4

\* The main thread creates the screen on top, or a rotation the one in front:
\* a main screen reads the session as it is.
LEMMA CreateKeepsScreens ==
  ASSUME TypeOK, Screens, Resume \/ Rotate
  PROVE  Screens'
<1>1. UNCHANGED <<prefs, kind, stack, stage, owner, upset>>
  BY DEF Resume, Rotate, acts, tasks, history
<1>2. CASE UNCHANGED <<created, user, threads>> /\ resumed' \in {0} \cup created
  BY <1>1, <1>2 DEF Screens, Known, MainFresh, IntroAbove, IsLoggedIn, Live
<1>3. ASSUME NEW a \in Acts, OnCreate(a), a \in Range(stack), resumed' = a
      PROVE  Screens'
  <2>1. created' = created \cup {a} /\ kind[a] # "unused"
    BY <1>3 DEF OnCreate, Screens, Known
  <2>2. \A b \in Acts : threads'[b] # <<>> => kind[b] = "splash"
    BY <1>3 DEF OnCreate, TypeOK, Screens, Known
  <2>3. Known'
    BY <1>1, <1>3, <2>1, <2>2 DEF Screens, Known, Live
  <2>4. /\ \A b \in Acts \ {a} : user'[b] = user[b]
        /\ kind[a] = "main" /\ IsLoggedIn => user'[a] = prefs.userid
    BY <1>3 DEF OnCreate, SessionUser, IsLoggedIn, TypeOK
  <2>5. Range(stack) \subseteq Acts
    BY RangeIs DEF TypeOK
  <2>6. MainFresh'
    BY <1>1, <2>1, <2>4, <2>5 DEF Screens, MainFresh, IsLoggedIn
  <2>7. IntroAbove'
    BY <1>1 DEF Screens, IntroAbove, IsLoggedIn
  <2> QED BY <2>3, <2>6, <2>7 DEF Screens
<1>4. CASE Resume
  <2>1. CASE Top = 0 \/ Top \in created
    BY <1>2, <1>4, <2>1, ActsFacts DEF Resume, acts
  <2>2. CASE Top \in Acts \ created /\ resumed' = Top /\ OnCreate(Top)
    <3>1. Top \in Range(stack)
      BY <2>2, ActsFacts, TopFacts DEF TypeOK, Screens, Known
    <3> QED BY <1>3, <2>2, <3>1
  <2> QED BY <1>4, <2>1, <2>2 DEF Resume
<1>5. CASE Rotate
  BY <1>3, <1>5 DEF Rotate, TypeOK
<1> QED BY <1>4, <1>5

\* Log out: the intro is above all main screens.
LEMMA LogoutKeepsScreens ==
  ASSUME IInv, TypeOK, Screens, Logout
  PROVE  Screens'
<1>1. /\ prefs' = Null /\ Start("intro", 0)
      /\ UNCHANGED <<created, user, threads, resumed, stage, owner, upset>>
  BY DEF Logout, tasks, history
<1>2. PICK n \in Acts :
        /\ kind[n] = "unused" /\ n \notin Range(stack) /\ n \notin created
        /\ threads[n] = <<>>
        /\ kind' = [kind EXCEPT ![n] = "intro"]
        /\ NoTwice(stack')
        /\ Range(stack') = (Range(stack) \cup {n}) \ {0}
        /\ \A b \in Range(stack) : b # 0 /\ n # 0 => Over(stack', b, n)
  BY <1>1, StartFacts DEF Screens
<1>3. kind'[n] = "intro" /\ \A a \in Acts : a # n => kind'[a] = kind[a]
  BY <1>2 DEF TypeOK
<1>4. Range(stack) \subseteq Acts /\ 0 \notin Acts /\ created \subseteq Acts
  BY RangeIs, ActsFacts DEF TypeOK
<1>5. Known'
  <2>1. \A a \in Range(stack') \cup created' : kind'[a] # "unused"
    BY <1>1, <1>2, <1>3, <1>4 DEF Screens, Known
  <2>2. \A a \in Acts : threads'[a] # <<>> => kind'[a] = "splash"
    BY <1>1, <1>2, <1>3 DEF Screens, Known
  <2>3. \A j \in Tasks : Live(j) => owner[j] \in Acts /\ kind[owner[j]] = "login"
    BY DEF IInv, Linked, Screens, Known
  <2>4. \A j \in Tasks : Live(j)' => kind'[owner'[j]] = "login"
    BY <1>1, <1>2, <1>3, <2>3 DEF Live
  <2> QED BY <1>1, <1>2, <2>1, <2>2, <2>4 DEF Screens, Known
<1>6. MainFresh'
  BY <1>1 DEF MainFresh, IsLoggedIn
<1>7. IntroAbove'
  BY <1>2, <1>3, <1>4 DEF IntroAbove
<1> QED BY <1>5, <1>6, <1>7 DEF Screens

\* A login: a new main screen, not created yet, is above all others.
LEMMA PostKeepsScreens ==
  ASSUME IInv, TypeOK, Screens, Post
  PROVE  Screens'
<1> DEFINE k == Head(posts)
           a == owner[k]
<1>0. k \in Tasks /\ Live(k) /\ a \in Acts /\ kind[a] = "login"
  BY FirstPost DEF Post, Live, Screens, Known
<1>1. /\ stage' = [stage EXCEPT ![k] = "over"]
      /\ owner' = [owner EXCEPT ![k] = 0]
      /\ UNCHANGED <<created, user, threads, resumed, upset>>
  BY DEF Post
<1>2. \A j \in Tasks : Live(j)' => Live(j) /\ owner'[j] = owner[j] /\ owner[j] \in Acts
  BY <1>0, <1>1 DEF Live, IInv, Types, Linked
<1>3. CASE UNCHANGED <<prefs, kind, stack>>
  BY <1>1, <1>2, <1>3, QuietKeepsScreens DEF Screens, Known
<1>4. CASE /\ answer[k] \notin {NoAccount, Null}
           /\ prefs' = [userid |-> answer[k], username |-> username[a]]
           /\ Start("main", a)
  <2>0. answer[k] \in Accounts /\ username[a] \in Names
    <3>1. username[a] \in Names /\ answer[k] \in {AccountOf[username[a]], Null}
      BY FirstPost DEF Post
    <3> QED BY <1>4, <3>1, DataAssumption
  <2> HIDE DEF k, a
  <2>1. PICK n \in Acts :
          /\ kind[n] = "unused" /\ n \notin Range(stack) /\ n \notin created
          /\ threads[n] = <<>>
          /\ kind' = [kind EXCEPT ![n] = "main"]
          /\ NoTwice(stack')
          /\ Range(stack') = (Range(stack) \cup {n}) \ {a}
          /\ \A b \in Range(stack) : b # a /\ n # a => Over(stack', b, n)
    BY <1>4, StartFacts DEF Screens
  <2>2. kind'[n] = "main" /\ n # a /\ \A b \in Acts : b # n => kind'[b] = kind[b]
    BY <1>0, <2>1 DEF TypeOK
  <2>3. Range(stack) \subseteq Acts /\ created \subseteq Acts
    BY RangeIs DEF TypeOK
  <2>4. Known'
    <3>1. \A b \in Range(stack') \cup created' : kind'[b] # "unused"
      BY <1>1, <2>1, <2>2, <2>3 DEF Screens, Known
    <3>2. \A b \in Acts : threads'[b] # <<>> => kind'[b] = "splash"
      BY <1>1, <2>1, <2>2 DEF Screens, Known
    <3>3. \A j \in Tasks : Live(j)' => kind'[owner'[j]] = "login"
      BY <1>2, <2>1, <2>2 DEF Screens, Known
    <3> QED BY <1>1, <2>1, <3>1, <3>2, <3>3 DEF Screens, Known
  <2>5. MainFresh'
    BY <1>1, <2>1, <2>2 DEF MainFresh
  <2>6. prefs' # Null
    BY <1>4, <2>0, DataAssumption
  <2>7. IntroAbove'
    BY <2>6 DEF IntroAbove, IsLoggedIn
  <2> QED BY <2>4, <2>5, <2>7 DEF Screens
<1> QED BY <1>3, <1>4 DEF Post

\* A part of the back stack survives the process: nothing is created yet.
LEMMA DeathKeepsScreens ==
  ASSUME TypeOK, Screens, NEW rest \in Seq(Acts), Die(rest), UNCHANGED prefs,
         NoTwice(rest), Range(rest) \subseteq Range(stack),
         upset' # {} \/ (rest \in {<<>>, stack} /\ upset' = upset)
  PROVE  Screens'
<1>1. /\ created' = {} /\ resumed' = 0 /\ stack' = rest
      /\ \A a \in Acts : threads'[a] = <<>>
      /\ \A j \in Tasks : ~Live(j)'
      /\ \A a \in Range(rest) : a \in Acts => kind'[a] = kind[a]
  BY DEF Die, Live, TypeOK
<1>2. Range(rest) \subseteq Acts
  BY RangeIs
<1>3. Known'
  BY <1>1, <1>2 DEF Screens, Known
<1>4. MainFresh'
  BY <1>1 DEF MainFresh
<1>5. IntroAbove'
  <2>1. CASE rest = <<>>
    <3>1. Range(rest) = {}
      BY <2>1 DEF Range
    <3> QED BY <1>1, <3>1 DEF IntroAbove
  <2>2. CASE rest = stack /\ upset' = upset
    <3>1. \A a, b : Over(stack, a, b) => b \in Range(stack)
      BY <2>2, RangeIs DEF Over
    <3> QED BY <1>1, <1>2, <2>2, <3>1 DEF Screens, IntroAbove, IsLoggedIn
  <2>3. CASE upset' # {}
    BY <2>3 DEF IntroAbove
  <2> QED BY <2>1, <2>2, <2>3
<1> QED BY <1>3, <1>4, <1>5 DEF Screens

\* The system gives up the whole stack or its top, or ends an app that is
\* in the background.
LEMMA EndKeepsScreens ==
  ASSUME TypeOK, Screens, Kill \/ \E where : Crash(where)
  PROVE  Screens'
<1>1. stack \in Seq(Acts) /\ NoTwice(stack)
  BY DEF TypeOK, Screens, Known
<1>2. CASE Kill
  BY <1>1, <1>2, DeathKeepsScreens DEF Kill
<1>3. ASSUME NEW where, Crash(where) PROVE Screens'
  <2>1. CASE Die(<<>>) /\ UNCHANGED upset
    <3>1. <<>> \in Seq(Acts) /\ NoTwice(<<>>) /\ Range(<<>>) = {}
      BY DEF NoTwice, Range
    <3> QED BY <1>3, <2>1, <3>1, DeathKeepsScreens DEF Crash
  <2>2. CASE Len(stack) > 1 /\ Die(Front(stack)) /\ upset' = upset \cup {"lost"}
    <3> DEFINE rest == Front(stack)
    <3>1. /\ rest \in Seq(Acts) /\ Len(rest) = Len(stack) - 1
          /\ \A i \in 1..(Len(stack) - 1) : rest[i] = stack[i]
      BY <1>1, <2>2 DEF Front
    <3>2. NoTwice(rest)
      BY <1>1, <3>1 DEF NoTwice
    <3>3. Range(rest) \subseteq Range(stack)
      BY <1>1, <3>1, RangeIs
    <3> HIDE DEF rest
    <3>4. Die(rest)
      BY <2>2 DEF rest
    <3> QED BY <1>3, <2>2, <3>1, <3>2, <3>3, <3>4, DeathKeepsScreens DEF Crash
  <2> QED BY <1>3, <2>1, <2>2 DEF Crash
<1> QED BY <1>2, <1>3

\* A number that nothing refers to is free again.
LEMMA CollectKeepsScreens ==
  ASSUME IInv, TypeOK, Screens, NEW a \in Acts, Collect(a)
  PROVE  Screens'
<1>1. /\ kind' = [kind EXCEPT ![a] = "unused"]
      /\ created' = created \ {a}
      /\ threads' = [threads EXCEPT ![a] = <<>>]
      /\ user' = [user EXCEPT ![a] = Null]
      /\ a # resumed /\ a \notin Range(stack)
      /\ \A k \in Tasks : Live(k) => owner[k] # a
      /\ UNCHANGED <<prefs, stack, resumed, stage, owner, upset>>
  BY DEF Collect, tasks, history
<1>2. \A b \in Acts \ {a} : kind'[b] = kind[b] /\ threads'[b] = threads[b] /\ user'[b] = user[b]
  BY <1>1 DEF TypeOK
<1>3. /\ Range(stack) \subseteq Acts \ {a} /\ created \subseteq Acts
      /\ \A b, c : Over(stack, b, c) => c \in Range(stack)
  BY <1>1, RangeIs DEF TypeOK, Over
<1>4. threads'[a] = <<>>
  BY <1>1 DEF TypeOK
<1>5. \A k \in Tasks : Live(k)' => Live(k) /\ owner'[k] = owner[k] /\ owner[k] \in Acts \ {a}
  BY <1>1 DEF Live, IInv, Linked
<1>6. Known'
  BY <1>1, <1>2, <1>3, <1>4, <1>5 DEF Screens, Known
<1>7. MainFresh'
  BY <1>1, <1>2, <1>3 DEF Screens, MainFresh, IsLoggedIn
<1>8. IntroAbove'
  BY <1>1, <1>2, <1>3 DEF Screens, IntroAbove, IsLoggedIn
<1> QED BY <1>6, <1>7, <1>8 DEF Screens

\* The form's tasks, until their result is posted: their owner is the form
\* that has the input.
LEMMA TasksKeepScreens ==
  ASSUME IInv, TypeOK, Screens,
         \/ Home
         \/ \E form \in Forms : AttemptLogin(form[1], form[2])
         \/ \E k \in Tasks : RunTask(k) \/ Answer(k)
  PROVE  Screens'
<1>1. /\ UNCHANGED <<prefs, kind, created, user, stack, threads, upset>>
      /\ resumed' \in {resumed, 0}
  BY DEF Home, AttemptLogin, RunTask, Answer, ToBack, acts, history
<1>2. \A j \in Tasks : Live(j)' => kind[owner'[j]] = "login"
  <2>1. CASE Home
    BY <2>1 DEF Home, tasks, Live, Screens, Known
  <2>2. ASSUME NEW k \in Tasks, RunTask(k) \/ Answer(k)
        PROVE  \A j \in Tasks : Live(j)' => kind[owner'[j]] = "login"
    BY <2>2 DEF RunTask, Answer, Live, TypeOK, Screens, Known
  <2>3. ASSUME NEW n, NEW p, AttemptLogin(n, p)
        PROVE  \A j \in Tasks : Live(j)' => kind[owner'[j]] = "login"
    <3>1. CASE UNCHANGED <<stage, owner>>
      BY <3>1 DEF Live, Screens, Known
    <3>2. ASSUME NEW k \in Tasks,
                 stage' = [stage EXCEPT ![k] = "queued"],
                 owner' = [owner EXCEPT ![k] = resumed]
          PROVE  \A j \in Tasks : Live(j)' => kind[owner'[j]] = "login"
      BY <2>3, <3>2 DEF AttemptLogin, Live, TypeOK, Screens, Known
    <3> QED BY <2>3, <3>1, <3>2 DEF AttemptLogin
  <2> QED BY <2>1, <2>2, <2>3
<1> QED BY <1>1, <1>2, QuietKeepsScreens

-----------------------------------------------------------------------------
(* Types.                                                                  *)

ThreadStates == {"asleep", "intro", "main", "over"}

\* The types that IInv leaves out: those of the session and the screens, and
\* those of the history.
ScreenTypes ==
  /\ prefs \in Sessions \cup {Null}
  /\ kind \in [Acts -> Kinds]
  /\ created \subseteq Acts
  /\ user \in [Acts -> Accounts \cup {Null}]
  /\ threads \in [Acts -> Seq(ThreadStates)]
  /\ stack \in Seq(Acts) /\ resumed \in Acts \cup {0}

HistoryTypes ==
  /\ foreground \in BOOLEAN /\ alive \in BOOLEAN
  /\ typed \subseteq Names \X Passwords
  /\ crash \in {"none", "onCreate", "doInBackground", "onPostExecute"}
  /\ upset \subseteq {"lost", "stale"}
  /\ rotations \in 0..MaxRotations /\ deaths \in 0..MaxDeaths

LEMMA TypesAre == TypeOK <=> Types /\ ScreenTypes /\ HistoryTypes
  BY DEF TypeOK, Types, ScreenTypes, HistoryTypes, Kinds, ThreadStates

\* A started activity has a number and a kind.
LEMMA StartTypes ==
  ASSUME TypeOK, Known, NEW k \in Kinds, NEW done, Start(k, done)
  PROVE  /\ kind' \in [Acts -> Kinds] /\ stack' \in Seq(Acts)
         /\ foreground' \in BOOLEAN
<1>1. PICK a \in Acts :
        kind' = [kind EXCEPT ![a] = k] /\ foreground' = TRUE /\ stack' \in Seq(Acts)
  BY StartFacts
<1> QED BY <1>1 DEF TypeOK, Kinds

\* What onCreate writes.
LEMMA CreateTypes ==
  ASSUME TypeOK, NEW a \in Acts, OnCreate(a)
  PROVE  /\ created' \subseteq Acts
         /\ user' \in [Acts -> Accounts \cup {Null}]
         /\ threads' \in [Acts -> Seq(ThreadStates)]
<1>1. SessionUser \in Accounts \cup {Null}
  BY DEF SessionUser, TypeOK, Sessions
<1>2. created' \subseteq Acts /\ user' \in [Acts -> Accounts \cup {Null}]
  BY <1>1 DEF OnCreate, TypeOK
<1>3. threads' \in [Acts -> Seq(ThreadStates)]
  <2>1. threads[a] \in Seq(ThreadStates) /\ "asleep" \in ThreadStates
    BY DEF TypeOK, ThreadStates
  <2>2. Append(threads[a], "asleep") \in Seq(ThreadStates)
    BY <2>1
  <2> QED BY <2>2 DEF OnCreate, TypeOK, ThreadStates
<1> QED BY <1>2, <1>3

\* What is left when the process ends.
LEMMA DeathTypes ==
  ASSUME TypeOK, NEW rest \in Seq(Acts), Die(rest)
  PROVE  /\ kind' \in [Acts -> Kinds] /\ created' \subseteq Acts
         /\ user' \in [Acts -> Accounts \cup {Null}]
         /\ threads' \in [Acts -> Seq(ThreadStates)]
         /\ stack' \in Seq(Acts) /\ resumed' \in Acts \cup {0}
         /\ foreground' \in BOOLEAN /\ alive' \in BOOLEAN
         /\ deaths' \in 0..MaxDeaths
<1>1. kind' \in [Acts -> Kinds] /\ created' \subseteq Acts
  BY DEF Die, TypeOK, Kinds
<1>2. threads' \in [Acts -> Seq(ThreadStates)]
  BY DEF Die
<1>3. /\ user' \in [Acts -> Accounts \cup {Null}]
      /\ stack' \in Seq(Acts) /\ resumed' \in Acts \cup {0}
  BY DEF Die
<1>4. foreground' \in BOOLEAN /\ alive' \in BOOLEAN
  BY DEF Die
<1>5. deaths' \in 0..MaxDeaths
  BY BoundsAssumption DEF Die, TypeOK
<1> QED BY <1>1, <1>2, <1>3, <1>4, <1>5

\* Every step keeps the types of the session and of the screens.
LEMMA StepScreenTypes ==
  ASSUME IInv, TypeOK, Known, [Next]_vars
  PROVE  ScreenTypes'
<1> USE DEF ScreenTypes
<1>0. ScreenTypes
  BY TypesAre
<1>1. CASE UNCHANGED <<prefs, kind, created, user, threads, stack, resumed>>
  BY <1>0, <1>1
<1>2. CASE Launch \/ TapLogin
  <2>1. UNCHANGED <<prefs, created, user, threads, resumed>>
    BY <1>2 DEF Launch, TapLogin
  <2>2. kind' \in [Acts -> Kinds] /\ stack' \in Seq(Acts)
    <3>1. "splash" \in Kinds /\ "login" \in Kinds
      BY DEF Kinds
    <3> QED BY <1>0, <1>2, <3>1, StartTypes DEF Launch, TapLogin
  <2> QED BY <1>0, <2>1, <2>2
<1>3. CASE Home \/ Back
  <2>1. /\ UNCHANGED <<prefs, kind, created, user, threads>>
        /\ resumed' \in {resumed, 0}
        /\ stack' \in {stack, Without(stack, resumed)}
    BY <1>3 DEF Home, Back, ToBack, acts
  <2>2. Without(stack, resumed) \in Seq(Acts)
    BY <1>0, WithoutFacts DEF Known
  <2> QED BY <1>0, <2>1, <2>2
<1>4. CASE Logout
  <2>1. prefs' = Null /\ UNCHANGED <<created, user, threads, resumed>> /\ Start("intro", 0)
    BY <1>4 DEF Logout
  <2>2. "intro" \in Kinds
    BY DEF Kinds
  <2> QED BY <1>0, <2>1, <2>2, StartTypes
<1>5. CASE Resume \/ Rotate
  <2>1. UNCHANGED <<prefs, kind, stack>>
    BY <1>5 DEF Resume, Rotate, acts
  <2>2. resumed' \in Acts \cup {0}
    BY <1>0, <1>5 DEF Resume, Rotate
  <2>3. UNCHANGED <<created, user, threads>> \/ \E a \in Acts : OnCreate(a)
    BY <1>0, <1>5 DEF Resume, Rotate, acts
  <2> QED BY <1>0, <2>1, <2>2, <2>3, CreateTypes
<1>6. CASE RunSplash
  <2>1. PICK a \in Acts :
          \E i \in DOMAIN threads[a] : SplashCheck(a, i) \/ SplashStart(a, i)
    BY <1>6 DEF RunSplash
  <2>2. PICK i \in DOMAIN threads[a] : SplashCheck(a, i) \/ SplashStart(a, i)
    BY <2>1
  <2>3. UNCHANGED <<prefs, created, user, resumed>>
    BY <2>2 DEF SplashCheck, SplashStart
  <2>4. PICK w \in ThreadStates : threads' = [threads EXCEPT ![a][i] = w]
    BY <2>2 DEF SplashCheck, SplashStart, ThreadStates
  <2>5. threads' \in [Acts -> Seq(ThreadStates)]
    <3>1. threads[a] \in Seq(ThreadStates)
      BY <1>0
    <3>2. [threads[a] EXCEPT ![i] = w] \in Seq(ThreadStates)
      BY <2>2, <2>4, <3>1
    <3> QED BY <1>0, <2>4, <3>2
  <2>6. kind' \in [Acts -> Kinds] /\ stack' \in Seq(Acts)
    <3>1. CASE SplashCheck(a, i)
      BY <1>0, <3>1 DEF SplashCheck
    <3>2. CASE SplashStart(a, i)
      <4>1. threads[a][i] \in Kinds /\ Start(threads[a][i], a)
        BY <3>2 DEF SplashStart, Kinds
      <4> QED BY <4>1, StartTypes
    <3> QED BY <2>2, <3>1, <3>2
  <2> QED BY <1>0, <2>3, <2>5, <2>6
<1>7. CASE Kill \/ \E where : Crash(where)
  <2>1. PICK rest \in {<<>>, stack, Front(stack)} :
          Die(rest) /\ UNCHANGED prefs /\ (rest # stack => rest = <<>> \/ Len(stack) > 1)
    BY <1>7 DEF Kill, Crash
  <2>2. rest \in Seq(Acts)
    <3>1. stack \in Seq(Acts) /\ <<>> \in Seq(Acts)
      BY <1>0
    <3>2. CASE rest = stack \/ rest = <<>>
      BY <3>1, <3>2, Zenon
    <3>3. ASSUME Len(stack) > 1 PROVE SubSeq(stack, 1, Len(stack) - 1) \in Seq(Acts)
      BY <3>1, <3>3
    <3>4. CASE Len(stack) > 1 /\ rest = Front(stack)
      BY <3>3, <3>4, Zenon DEF Front
    <3> QED BY <2>1, <3>2, <3>4
  <2> QED BY <1>0, <2>1, <2>2, DeathTypes
<1>8. CASE \E a \in Acts : Collect(a)
  <2>1. PICK a \in Acts : Collect(a)
    BY <1>8
  <2>2. "unused" \in Kinds /\ <<>> \in Seq(ThreadStates)
    BY DEF Kinds
  <2>3. /\ kind' = [kind EXCEPT ![a] = "unused"]
        /\ created' = created \ {a}
        /\ user' = [user EXCEPT ![a] = Null]
        /\ threads' = [threads EXCEPT ![a] = <<>>]
        /\ UNCHANGED <<prefs, stack, resumed>>
    BY <2>1 DEF Collect
  <2> QED BY <1>0, <2>2, <2>3
<1>9. CASE Post
  <2>1. UNCHANGED <<created, user, threads, resumed>>
    BY <1>9 DEF Post
  <2>2. prefs' \in Sessions \cup {Null}
    <3> DEFINE k == Head(posts)
               a == owner[k]
    <3>1. /\ answer[k] # Null
          /\ \/ UNCHANGED prefs
             \/ /\ answer[k] # NoAccount
                /\ prefs' = [userid |-> answer[k], username |-> username[a]]
      BY <1>9 DEF Post
    <3>2. username[a] \in Names /\ answer[k] \in {AccountOf[username[a]], Null}
      BY <1>9, FirstPost DEF Post
    <3>3. answer[k] \in Accounts \cup {NoAccount}
      BY <3>1, <3>2, DataAssumption
    <3> QED BY <1>0, <3>1, <3>2, <3>3 DEF Sessions
  <2>3. kind' \in [Acts -> Kinds] /\ stack' \in Seq(Acts)
    <3>1. "main" \in Kinds
      BY DEF Kinds
    <3>2. UNCHANGED <<kind, stack>> \/ \E done : Start("main", done)
      BY <1>9 DEF Post
    <3> QED BY <1>0, <3>1, <3>2, StartTypes
  <2> QED BY <1>0, <2>1, <2>2, <2>3
<1>10. CASE \/ \E form \in Forms : AttemptLogin(form[1], form[2])
            \/ \E k \in Tasks : RunTask(k) \/ Answer(k)
            \/ UNCHANGED vars
  <2>1. UNCHANGED <<prefs, kind, created, user, threads, stack, resumed>>
    BY <1>10 DEF AttemptLogin, RunTask, Answer, vars, acts
  <2> QED BY <1>1, <2>1
<1>11. CASE ResumeFails \/ PostFails \/ \E k \in Tasks : AnswerWithoutItem(k)
  BY <1>7, <1>11 DEF ResumeFails, PostFails, AnswerWithoutItem
<1> QED
  BY <1>2, <1>3, <1>4, <1>5, <1>6, <1>7, <1>8, <1>9, <1>10, <1>11 DEF Next

\* Every step keeps the types of the history.
LEMMA StepHistoryTypes ==
  ASSUME IInv, TypeOK, Known, [Next]_vars
  PROVE  HistoryTypes'
<1>0. HistoryTypes /\ ScreenTypes
  BY TypesAre
<1>1. foreground' \in BOOLEAN
  <2>1. CASE \E k, done : Start(k, done)
    BY <2>1 DEF Start
  <2>2. CASE ToBack \/ \E rest : Die(rest)
    BY <2>2 DEF ToBack, Die
  <2>3. CASE UNCHANGED foreground \/ foreground' = TRUE \/ foreground' = FALSE
    BY <1>0, <2>3 DEF HistoryTypes
  <2>4. CASE \/ Launch \/ Home \/ Kill \/ Resume \/ Rotate \/ Back \/ TapLogin \/ Logout
             \/ \E where : Crash(where)
    BY <2>1, <2>2, <2>3, <2>4
       DEF Launch, Home, Kill, Resume, Rotate, Back, TapLogin, Logout, Crash
  <2>5. CASE RunSplash \/ Post \/ \E a \in Acts : Collect(a)
    BY <2>1, <2>3, <2>5 DEF RunSplash, SplashCheck, SplashStart, Post, Collect
  <2>6. CASE \/ \E form \in Forms : AttemptLogin(form[1], form[2])
             \/ \E k \in Tasks : RunTask(k) \/ Answer(k)
             \/ UNCHANGED vars
    BY <2>3, <2>6 DEF AttemptLogin, RunTask, Answer, vars
  <2>7. CASE ResumeFails \/ PostFails \/ \E k \in Tasks : AnswerWithoutItem(k)
    BY <2>4, <2>7 DEF ResumeFails, PostFails, AnswerWithoutItem
  <2> QED BY <2>4, <2>5, <2>6, <2>7 DEF Next
<1>2. alive' \in BOOLEAN /\ rotations' \in 0..MaxRotations /\ deaths' \in 0..MaxDeaths
  <2>1. CASE \E rest : Die(rest) /\ UNCHANGED rotations
    <3>1. alive' \in BOOLEAN
      BY <2>1 DEF Die
    <3>2. rotations' = rotations /\ deaths < MaxDeaths /\ deaths' = deaths + 1
      BY <2>1 DEF Die
    <3>3. deaths' \in 0..MaxDeaths
      BY <1>0, <3>2, BoundsAssumption DEF HistoryTypes
    <3> QED BY <1>0, <3>1, <3>2, <3>3 DEF HistoryTypes
  <2>2. CASE UNCHANGED <<rotations, deaths>> /\ (UNCHANGED alive \/ alive' = TRUE)
    BY <1>0, <2>2 DEF HistoryTypes
  <2>3. CASE Rotate
    BY <1>0, <2>3, BoundsAssumption DEF Rotate, HistoryTypes
  <2>4. CASE Kill \/ ResumeFails \/ PostFails \/ \E k \in Tasks : AnswerWithoutItem(k)
    BY <2>1, <2>4 DEF Kill, ResumeFails, PostFails, AnswerWithoutItem, Crash
  <2>5. CASE \/ Launch \/ Home \/ Resume \/ Back \/ TapLogin \/ Logout \/ RunSplash \/ Post
             \/ \E a \in Acts : Collect(a)
    BY <2>2, <2>5 DEF Launch, Home, Resume, Back, TapLogin, Logout, RunSplash,
       SplashCheck, SplashStart, Post, Collect, history
  <2>6. CASE \/ \E form \in Forms : AttemptLogin(form[1], form[2])
             \/ \E k \in Tasks : RunTask(k) \/ Answer(k)
             \/ UNCHANGED vars
    BY <2>2, <2>6 DEF AttemptLogin, RunTask, Answer, vars, history
  <2> QED BY <2>3, <2>4, <2>5, <2>6 DEF Next
<1>3. /\ crash' \in {"none", "onCreate", "doInBackground", "onPostExecute"}
      /\ upset' \subseteq {"lost", "stale"}
  <2>1. CASE UNCHANGED upset /\ (UNCHANGED crash \/ crash' = "none")
    BY <1>0, <2>1 DEF HistoryTypes
  <2>2. ASSUME NEW where \in {"onCreate", "doInBackground", "onPostExecute"}, Crash(where)
        PROVE  /\ crash' \in {"none", "onCreate", "doInBackground", "onPostExecute"}
               /\ upset' \subseteq {"lost", "stale"}
    BY <1>0, <2>2 DEF Crash, HistoryTypes
  <2>3. CASE RunSplash
    BY <1>0, <2>3 DEF RunSplash, SplashCheck, SplashStart, HistoryTypes, history
  <2>4. CASE ResumeFails \/ PostFails \/ \E k \in Tasks : AnswerWithoutItem(k)
    BY <2>2, <2>4 DEF ResumeFails, PostFails, AnswerWithoutItem
  <2>5. CASE \/ Launch \/ Home \/ Kill \/ Resume \/ Rotate \/ Back \/ TapLogin \/ Logout
             \/ Post \/ \E a \in Acts : Collect(a)
    BY <2>1, <2>5 DEF Launch, Home, Kill, Resume, Rotate, Back, TapLogin, Logout, Post,
       Collect, history
  <2>6. CASE \/ \E form \in Forms : AttemptLogin(form[1], form[2])
             \/ \E k \in Tasks : RunTask(k) \/ Answer(k)
             \/ UNCHANGED vars
    BY <2>1, <2>6 DEF AttemptLogin, RunTask, Answer, vars, history
  <2> QED BY <2>3, <2>4, <2>5, <2>6 DEF Next
<1>4. typed' \subseteq Names \X Passwords
  <2>1. CASE UNCHANGED typed
    BY <1>0, <2>1 DEF HistoryTypes
  <2>2. ASSUME NEW form \in Forms, AttemptLogin(form[1], form[2])
        PROVE  typed' \subseteq Names \X Passwords
    <3>1. \/ UNCHANGED typed
          \/ /\ typed' = typed \cup {<<form[1], form[2]>>}
             /\ form[1] \in Names /\ form[2] \in Passwords
      BY <2>2, DataAssumption DEF AttemptLogin
    <3> QED BY <1>0, <3>1 DEF HistoryTypes
  <2>3. CASE \/ Launch \/ Home \/ Kill \/ Resume \/ Rotate \/ Back \/ TapLogin \/ Logout
             \/ RunSplash \/ Post \/ \E a \in Acts : Collect(a)
    BY <2>1, <2>3 DEF Launch, Home, Kill, Resume, Rotate, Back, TapLogin, Logout, Post,
       RunSplash, SplashCheck, SplashStart, Collect, history
  <2>4. CASE \/ ResumeFails \/ PostFails \/ \E k \in Tasks : AnswerWithoutItem(k)
             \/ \E k \in Tasks : RunTask(k) \/ Answer(k)
             \/ UNCHANGED vars
    BY <2>1, <2>4 DEF ResumeFails, PostFails, AnswerWithoutItem, Crash, RunTask, Answer,
       vars, history
  <2> QED BY <2>2, <2>3, <2>4 DEF Next
<1> QED BY <1>1, <1>2, <1>3, <1>4 DEF HistoryTypes

-----------------------------------------------------------------------------
(* The theorems.                                                           *)

\* Every step of the app, the system and the tasks keeps what is known of the
\* screens.
LEMMA StepScreens == IInv /\ TypeOK /\ Screens /\ [Next]_vars => Screens'
<1> SUFFICES ASSUME IInv, TypeOK, Screens, [Next]_vars PROVE Screens'  OBVIOUS
<1>1. CASE Launch \/ TapLogin
  BY <1>1, LaunchKeepsScreens
<1>2. CASE Resume \/ Rotate
  BY <1>2, CreateKeepsScreens
<1>3. CASE Back
  BY <1>3, BackKeepsScreens
<1>4. CASE Logout
  BY <1>4, LogoutKeepsScreens
<1>5. CASE RunSplash
  BY <1>5, SplashKeepsScreens
<1>6. CASE Post
  BY <1>6, PostKeepsScreens
<1>7. CASE Kill \/ ResumeFails \/ PostFails \/ \E k \in Tasks : AnswerWithoutItem(k)
  BY <1>7, EndKeepsScreens DEF ResumeFails, PostFails, AnswerWithoutItem
<1>8. CASE \E a \in Acts : Collect(a)
  BY <1>8, CollectKeepsScreens
<1>9. CASE \/ Home
           \/ \E form \in Forms : AttemptLogin(form[1], form[2])
           \/ \E k \in Tasks : RunTask(k) \/ Answer(k)
  BY <1>9, TasksKeepScreens
<1>10. CASE UNCHANGED vars
  BY <1>10, QuietKeepsScreens DEF vars, acts, tasks, history, Live, Screens, Known
<1> QED
  BY <1>1, <1>2, <1>3, <1>4, <1>5, <1>6, <1>7, <1>8, <1>9, <1>10 DEF Next

\* The session, the types and the screens, together.
THEOREM ScreensInductive == Spec => [](IInv /\ TypeOK /\ Screens)
<1>1. Init => IInv /\ TypeOK /\ Screens
  BY InitIInv, InitScreens
<1>2. IInv /\ TypeOK /\ Screens /\ [Next]_vars => (IInv /\ TypeOK /\ Screens)'
  <2> SUFFICES ASSUME IInv, TypeOK, Screens, [Next]_vars
               PROVE  IInv' /\ TypeOK' /\ Screens'
    OBVIOUS
  <2>1. IInv' /\ Screens'
    BY StepIInv, StepScreens
  <2>2. Types' /\ ScreenTypes' /\ HistoryTypes'
    BY <2>1, StepScreenTypes, StepHistoryTypes DEF IInv, Screens
  <2>3. TypeOK'
    BY <2>2 DEF TypeOK, Types, ScreenTypes, HistoryTypes, Kinds, ThreadStates
  <2> QED BY <2>1, <2>3
<1> QED BY <1>1, <1>2, PTL DEF Spec

\* Every variable has its type.
THEOREM TypeCorrect == Spec => []TypeOK
  BY ScreensInductive, PTL

\* Whoever logs in, out and in again as another user, with answers that come
\* late, rotations, deaths and splash threads in any order: the main screen in
\* front (MainActivity reads the userid in onCreate only) is of the session's
\* user, because a login puts a new one above all others and the back key
\* finishes none while the session lasts.
THEOREM MainIsOfSession == Spec => []MainShowsSession
<1>1. IInv /\ TypeOK /\ Screens => MainShowsSession
  <2> SUFFICES ASSUME TypeOK, Screens, resumed # 0, resumed = Top, kind[resumed] = "main",
                      IsLoggedIn, user[resumed] # prefs.userid
               PROVE  FALSE
    BY DEF MainShowsSession
  <2>1. Top \in Range(stack) /\ \A b : ~Over(stack, Top, b)
    BY TopFacts DEF TypeOK, Screens, Known
  <2> QED BY <2>1 DEF Screens, Known, MainFresh
<1> QED BY <1>1, ScreensInductive, PTL

\* Log out leaves the main screens on the back stack, beneath an intro that the
\* back key does not finish: none comes to the front without a session, unless
\* a crash took the intro away or a splash thread started a main screen late.
THEOREM NoMainWithoutSession == Spec => []MainNeedsSession
<1>1. IInv /\ TypeOK /\ Screens => MainNeedsSession
  <2> SUFFICES ASSUME TypeOK, Screens, resumed # 0, resumed = Top, kind[resumed] = "main",
                      upset = {}, ~IsLoggedIn
               PROVE  FALSE
    BY DEF MainNeedsSession
  <2>1. Top \in Range(stack) /\ \A b : ~Over(stack, Top, b)
    BY TopFacts DEF TypeOK, Screens, Known
  <2> QED BY <2>1 DEF Screens, IntroAbove
<1> QED BY <1>1, ScreensInductive, PTL
=============================================================================
