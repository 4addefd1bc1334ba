------------------------- MODULE UserSelectorProofs -------------------------
(***************************************************************************)
(* Theorems about UserSelector, for any users, texts and number of edits.  *)
(***************************************************************************)
EXTENDS UserSelector, SequenceTheorems, TLAPS

Callback == [id: Nat, ok: BOOLEAN]

\* The callbacks wait in the order of their queries, each for one that has not
\* ended; and only the last query can have succeeded.
PostsInv ==
    /\ \A i \in 1 .. Len(posts) :
          /\ posts[i].id \in iotransactions
          /\ posts[i].id # queries => ~posts[i].ok
    /\ \A i, j \in 1 .. Len(posts) : i < j => posts[i].id < posts[j].id

\* A query that has not ended has a callback, or is the last and in flight; the
\* last query is among those that have not ended, as long as there are any.
QueriesInv ==
    /\ \A q \in iotransactions : q <= queries /\ q > 0
    /\ \A q \in iotransactions : q = queries \/ \E i \in 1 .. Len(posts) : posts[i].id = q
    /\ iotransactions # {} => queries \in iotransactions

\* The selector knows whether the selection is empty.
SelectionInv == selectionempty <=> selected = {}

SelectorInv ==
    SelectorTypeOK /\ PostsInv /\ QueriesInv /\ SelectionInv /\ PageAgrees

----------------------------------------------------------------------------
\* What the server finds are users.
LEMMA FoundFacts ==
    ASSUME SelectorTypeOK PROVE Found \in SUBSET Users
<1>1. Received[lastsearch] \in Texts /\ lastsearch \in Texts /\ asked \in BOOLEAN
  BY SelectorAssumption DEF SelectorTypeOK
<1>2. \A t \in Texts, b \in BOOLEAN : Matches[t][b] \in SUBSET Users
  BY SelectorAssumption
<1>3. QED
  BY <1>1, <1>2 DEF Found

\* The page that the server sent satisfies the invariant.
LEMMA InvInit == SelectorInit => SelectorInv
<1> SUFFICES ASSUME SelectorInit PROVE SelectorInv
  OBVIOUS
<1>1. \A t \in Texts, b \in BOOLEAN : Matches[t][b] \in SUBSET Users
  BY SelectorAssumption
<1>2. Matches[lastsearch][anywhere] \in SUBSET Users
  BY <1>1 DEF SelectorInit
<1>3. posts \in Seq(Callback) /\ Len(posts) = 0
  BY EmptySeq DEF SelectorInit
<1>4. SelectorTypeOK
  <2>1. list \in [results: SUBSET Users, previous: SUBSET Users, keep: BOOLEAN]
    BY <1>2 DEF SelectorInit
  <2>2. edits \in 0 .. MaxEdits
    BY SelectorAssumption DEF SelectorInit
  <2>3. posts \in Seq([id: Nat, ok: BOOLEAN])
    BY <1>3 DEF Callback
  <2>4. selected \subseteq Users
    BY <1>2 DEF SelectorInit
  <2>5. selectionempty \in BOOLEAN /\ addDisabled \in BOOLEAN
    BY Zenon DEF SelectorInit
  <2>6. QED
    BY <2>1, <2>2, <2>3, <2>4, <2>5 DEF SelectorInit, SelectorTypeOK
<1>5. PostsInv /\ QueriesInv /\ SelectionInv
  <2>1. 1 .. Len(posts) = {}
    BY <1>3
  <2>2. PostsInv /\ QueriesInv
    BY <2>1 DEF SelectorInit, PostsInv, QueriesInv
  <2>3. SelectionInv
    BY Zenon DEF SelectorInit, SelectionInv
  <2>4. QED
    BY <2>2, <2>3
<1>6. PageAgrees
  BY DEF SelectorInit, PageAgrees, LoadingAgrees, ListAgrees, SelectionAgrees, Found
<1>7. QED
  BY <1>4, <1>5, <1>6 DEF SelectorInv

\* Aborting all queries leaves a callback for each, in order, and all fail.
LEMMA AbortedFacts ==
    ASSUME SelectorInv
    PROVE  /\ Aborted \in Seq(Callback)
           /\ \A i \in 1 .. Len(Aborted) : ~Aborted[i].ok /\ Aborted[i].id \in iotransactions
           /\ \A i, j \in 1 .. Len(Aborted) : i < j => Aborted[i].id < Aborted[j].id
           /\ \A q \in iotransactions : \E i \in 1 .. Len(Aborted) : Aborted[i].id = q
<1> DEFINE n == Len(posts)
           W(i) == [posts[i] EXCEPT !.ok = FALSE]
           waiting == [i \in 1 .. n |-> W(i)]
           last == [id |-> queries, ok |-> FALSE]
<1>1. posts \in Seq(Callback) /\ n \in Nat
  BY LenProperties DEF SelectorInv, SelectorTypeOK, Callback
<1>2. \A i \in 1 .. n : posts[i] \in Callback
  BY <1>1, ElementOfSeq
<1>3. \A i \in 1 .. n : W(i) \in Callback /\ W(i).id = posts[i].id /\ ~W(i).ok
  BY <1>2 DEF Callback
<1>4. waiting \in Seq(Callback) /\ Len(waiting) = n /\ \A i \in 1 .. n : waiting[i] = W(i)
  BY <1>1, <1>3
<1>5. Aborted = IF InFlight THEN Append(waiting, last) ELSE waiting
  BY DEF Aborted
<1>6. last \in Callback /\ last.id = queries /\ ~last.ok
  BY DEF Callback, SelectorInv, SelectorTypeOK
<1>7. /\ \A i \in 1 .. n : posts[i].id \in iotransactions /\ posts[i].id <= queries
      /\ \A i, j \in 1 .. n : i < j => posts[i].id < posts[j].id
      /\ \A q \in iotransactions : q = queries \/ \E i \in 1 .. n : posts[i].id = q
  BY DEF SelectorInv, PostsInv, QueriesInv
<1> HIDE DEF n, waiting, W, last
<1>8. CASE ~InFlight
  <2>1. Aborted \in Seq(Callback) /\ Len(Aborted) = n /\ \A i \in 1 .. n : Aborted[i] = W(i)
    BY <1>4, <1>5, <1>8
  <2>2. queries \in iotransactions => \E i \in 1 .. n : posts[i].id = queries
    BY <1>8 DEF InFlight, n
  <2>3. QED
    BY <1>3, <1>7, <2>1, <2>2
<1>9. CASE InFlight
  <2>1. /\ Aborted \in Seq(Callback) /\ Len(Aborted) = n + 1
        /\ \A i \in 1 .. n : Aborted[i] = W(i)
        /\ Aborted[n + 1] = last
    <3>1. /\ Append(waiting, last) \in Seq(Callback)
          /\ Len(Append(waiting, last)) = Len(waiting) + 1
          /\ \A i \in 1 .. Len(waiting) : Append(waiting, last)[i] = waiting[i]
          /\ Append(waiting, last)[Len(waiting) + 1] = last
      BY <1>4, <1>6, AppendProperties
    <3>2. QED
      BY <1>4, <1>5, <1>9, <3>1
  <2>2. \A i \in 1 .. n + 1 : i = n + 1 \/ i \in 1 .. n
    BY <1>1
  <2>3. queries \in iotransactions /\ \A i \in 1 .. n : posts[i].id # queries
    BY <1>9 DEF InFlight, n
  <2>4. \A i \in 1 .. n : posts[i].id < queries
    <3>1. \A i \in 1 .. n : posts[i].id \in Nat
      BY <1>2 DEF Callback
    <3>2. queries \in Nat
      BY DEF SelectorInv, SelectorTypeOK
    <3>3. QED
      BY <1>7, <2>3, <3>1, <3>2
  <2>5. \A i, j \in 1 .. n + 1 : i < j => i \in 1 .. n
    BY <1>1
  <2>6. n + 1 \in 1 .. n + 1 /\ \A i \in 1 .. n : i \in 1 .. n + 1
    BY <1>1
  <2>7. \A i \in 1 .. n + 1 : ~Aborted[i].ok /\ Aborted[i].id \in iotransactions
    BY <1>3, <1>6, <1>7, <2>1, <2>2, <2>3
  <2>8. \A i, j \in 1 .. n + 1 : i < j => Aborted[i].id < Aborted[j].id
    BY <1>3, <1>6, <1>7, <2>1, <2>2, <2>4, <2>5
  <2>9. \A q \in iotransactions : \E i \in 1 .. n + 1 : Aborted[i].id = q
    BY <1>3, <1>6, <1>7, <2>1, <2>6
  <2>10. QED
    BY <2>1, <2>7, <2>8, <2>9
<1>10. QED
  BY <1>8, <1>9

\* What send_query sets has its type.
SentTypes ==
    /\ lastsearch \in Texts /\ iotransactions \subseteq Nat /\ posts \in Seq(Callback)
    /\ loading \in BOOLEAN /\ error \in BOOLEAN
    /\ queries \in Nat /\ asked \in BOOLEAN /\ failed \in BOOLEAN

\* send_query keeps the invariant, apart from the types of what it leaves alone.
LEMMA SendQueryKeeps ==
    ASSUME SelectorInv, NEW value \in Texts, NEW any \in BOOLEAN, NEW force,
           SendQuery(value, any, force),
           UNCHANGED <<list, selected, addDisabled, selectionempty, shown>>
    PROVE  SentTypes' /\ PostsInv' /\ QueriesInv' /\ SelectionInv' /\ PageAgrees'
<1>1. SelectionInv' /\ SelectionAgrees'
  BY DEF SelectorInv, SelectionInv, PageAgrees, SelectionAgrees
<1>2. SentTypes
  BY DEF SelectorInv, SelectorTypeOK, SentTypes, Callback
<1>3. CASE UNCHANGED <<lastsearch, iotransactions, posts, loading, queries, asked, failed>>
  <2>1. error' = error
    BY DEF SendQuery
  <2>2. SentTypes'
    BY <1>2, <1>3, <2>1 DEF SentTypes
  <2>3. PostsInv' /\ QueriesInv'
    BY <1>3 DEF SelectorInv, PostsInv, QueriesInv
  <2>4. LoadingAgrees' /\ ListAgrees'
    BY <1>3, <2>1 DEF SelectorInv, PageAgrees, LoadingAgrees, ListAgrees, Found
  <2>5. QED
    BY <1>1, <2>2, <2>3, <2>4 DEF PageAgrees
<1>4. CASE /\ posts' = Aborted
           /\ queries' = queries + 1
           /\ iotransactions' = iotransactions \cup {queries + 1}
           /\ lastsearch' = value /\ asked' = any
           /\ loading' = TRUE /\ failed' = FALSE
  <2>1. error' = error
    BY DEF SendQuery
  <2>2. SentTypes'
    <3>1. queries + 1 \in Nat
      BY <1>2 DEF SentTypes
    <3>2. iotransactions' \subseteq Nat /\ queries' \in Nat
      BY <1>2, <1>4, <3>1 DEF SentTypes
    <3>3. posts' \in Seq(Callback)
      BY <1>4, AbortedFacts
    <3>4. lastsearch' \in Texts /\ asked' \in BOOLEAN
      BY <1>4
    <3>5. loading' \in BOOLEAN /\ error' \in BOOLEAN /\ failed' \in BOOLEAN
      BY <1>2, <1>4, <2>1 DEF SentTypes
    <3>6. QED
      BY <3>2, <3>3, <3>4, <3>5 DEF SentTypes
  <2>3. \A q \in iotransactions : q \in Nat /\ q <= queries /\ q > 0
    BY <1>2 DEF SentTypes, SelectorInv, QueriesInv
  <2>4. queries \in Nat
    BY <1>2 DEF SentTypes
  <2>5. QueriesInv'
    <3>1. queries + 1 > 0 /\ queries + 1 <= queries + 1
      BY <2>4
    <3>2. \A q \in iotransactions : q <= queries + 1
      BY <2>3, <2>4
    <3>3. \A q \in iotransactions : \E i \in 1 .. Len(Aborted) : Aborted[i].id = q
      BY AbortedFacts
    <3>4. QED
      BY <1>4, <2>3, <3>1, <3>2, <3>3 DEF QueriesInv
  <2>6. PostsInv'
    BY <1>4, AbortedFacts DEF PostsInv
  <2>7. LoadingAgrees' /\ ListAgrees'
    BY <1>4, <2>1 DEF LoadingAgrees, ListAgrees
  <2>8. QED
    BY <1>1, <2>2, <2>5, <2>6, <2>7 DEF PageAgrees
<1>5. QED
  BY <1>3, <1>4 DEF SendQuery

\* init preserves the invariant.
LEMMA InvLoad == ASSUME SelectorInv, Load PROVE SelectorInv'
<1>1. text \in Texts /\ anywhere \in BOOLEAN
  BY DEF SelectorInv, SelectorTypeOK
<1>2. SentTypes' /\ PostsInv' /\ QueriesInv' /\ SelectionInv' /\ PageAgrees'
  BY <1>1, SendQueryKeeps DEF Load
<1>3. SelectorTypeOK'
  BY <1>2 DEF Load, SelectorInv, SelectorTypeOK, SentTypes, Callback
<1>4. QED
  BY <1>2, <1>3 DEF SelectorInv

\* A timer that runs preserves the invariant.
LEMMA InvLater == ASSUME SelectorInv, Later PROVE SelectorInv'
<1>1. text \in Texts /\ anywhere \in BOOLEAN
  BY DEF SelectorInv, SelectorTypeOK
<1>2. SentTypes' /\ PostsInv' /\ QueriesInv' /\ SelectionInv' /\ PageAgrees'
  BY <1>1, SendQueryKeeps DEF Later
<1>3. delays' \in Nat
  BY DEF Later, SelectorInv, SelectorTypeOK
<1>4. SelectorTypeOK'
  BY <1>2, <1>3 DEF Later, SelectorInv, SelectorTypeOK, SentTypes, Callback
<1>5. QED
  BY <1>2, <1>4 DEF SelectorInv

\* What the user has done stays within the bound.
LEMMA EditsFacts == ASSUME SelectorInv, UserActs PROVE edits' \in 0 .. MaxEdits
  BY SelectorAssumption DEF UserActs, SelectorInv, SelectorTypeOK

\* handle_clear preserves the invariant.
LEMMA InvClear == ASSUME SelectorInv, Clear PROVE SelectorInv'
<1>1. Empty \in Texts /\ anywhere \in BOOLEAN
  BY SelectorAssumption DEF SelectorInv, SelectorTypeOK
<1>2. SentTypes' /\ PostsInv' /\ QueriesInv' /\ SelectionInv' /\ PageAgrees'
  BY <1>1, SendQueryKeeps DEF Clear
<1>3. edits' \in 0 .. MaxEdits
  BY EditsFacts DEF Clear
<1>4. SelectorTypeOK'
  BY <1>1, <1>2, <1>3 DEF Clear, SelectorInv, SelectorTypeOK, SentTypes, Callback
<1>5. QED
  BY <1>2, <1>4 DEF SelectorInv

\* handle_searchanywhere_change preserves the invariant.
LEMMA InvToggleAnywhere == ASSUME SelectorInv, ToggleAnywhere PROVE SelectorInv'
<1>1. text \in Texts /\ (~anywhere) \in BOOLEAN /\ anywhere' \in BOOLEAN
  <2>1. text \in Texts
    BY DEF SelectorInv, SelectorTypeOK
  <2>2. (~anywhere) \in BOOLEAN
    BY Zenon
  <2>3. anywhere' \in BOOLEAN
    BY Zenon DEF ToggleAnywhere
  <2>4. QED
    BY <2>1, <2>2, <2>3
<1>2. edits' \in 0 .. MaxEdits
  BY EditsFacts DEF ToggleAnywhere
<1>3. SentTypes' /\ PostsInv' /\ QueriesInv' /\ SelectionInv' /\ PageAgrees'
  <2>1. CASE lastsearch # Empty /\ text # Empty
    BY <1>1, <2>1, SendQueryKeeps DEF ToggleAnywhere
  <2>2. CASE ~(lastsearch # Empty /\ text # Empty)
    <3>1. UNCHANGED <<error, lastsearch, iotransactions, posts, loading, queries,
                      asked, failed, list, selected, addDisabled, selectionempty, shown>>
      BY <2>2 DEF ToggleAnywhere
    <3>2. SentTypes'
      BY <3>1 DEF SelectorInv, SelectorTypeOK, SentTypes, Callback
    <3>3. PostsInv' /\ QueriesInv' /\ SelectionInv'
      BY <3>1 DEF SelectorInv, PostsInv, QueriesInv, SelectionInv
    <3>4. PageAgrees'
      BY <3>1 DEF SelectorInv, PageAgrees, LoadingAgrees, ListAgrees, SelectionAgrees, Found
    <3>5. QED
      BY <3>2, <3>3, <3>4
  <2>3. QED
    BY <2>1, <2>2
<1>4. SelectorTypeOK'
  BY <1>1, <1>2, <1>3 DEF ToggleAnywhere, SelectorInv, SelectorTypeOK, SentTypes, Callback
<1>5. QED
  BY <1>3, <1>4 DEF SelectorInv

\* A key preserves the invariant.
LEMMA InvType == ASSUME SelectorInv, NEW t \in Texts, Type(t) PROVE SelectorInv'
<1>1. edits' \in 0 .. MaxEdits
  BY EditsFacts DEF Type
<1>2. delays' \in Nat
  BY DEF Type, SelectorInv, SelectorTypeOK
<1>3. SelectorTypeOK'
  BY <1>1, <1>2 DEF Type, SelectorInv, SelectorTypeOK
<1>4. PostsInv' /\ QueriesInv' /\ SelectionInv'
  BY DEF Type, SelectorInv, PostsInv, QueriesInv, SelectionInv
<1>5. PageAgrees'
  BY DEF Type, SelectorInv, PageAgrees, LoadingAgrees, ListAgrees, SelectionAgrees, Found
<1>6. QED
  BY <1>3, <1>4, <1>5 DEF SelectorInv

\* The callback of the last query goes behind those of the aborted ones.
LEMMA InvAnswer == ASSUME SelectorInv, Answer PROVE SelectorInv'
<1> DEFINE n == Len(posts)
<1>1. PICK ok \in BOOLEAN : posts' = Append(posts, [id |-> queries, ok |-> ok])
  BY DEF Answer
<1> DEFINE last == [id |-> queries, ok |-> ok]
<1>2. posts \in Seq(Callback) /\ n \in Nat /\ last \in Callback /\ last.id = queries
  BY LenProperties DEF SelectorInv, SelectorTypeOK, Callback
<1>3. /\ posts' \in Seq(Callback) /\ Len(posts') = n + 1
      /\ \A i \in 1 .. n : posts'[i] = posts[i]
      /\ posts'[n + 1] = last
  BY <1>1, <1>2, AppendProperties
<1>4. \A i \in 1 .. n : posts[i].id \in Nat
  <2>1. \A i \in 1 .. n : posts[i] \in Callback
    BY <1>2, ElementOfSeq
  <2>2. QED
    BY <2>1 DEF Callback
<1>5. /\ queries \in iotransactions /\ \A i \in 1 .. n : posts[i].id # queries
      /\ UNCHANGED <<controls, selector, history>>
  BY DEF Answer, InFlight
<1>6. /\ \A i \in 1 .. n : /\ posts[i].id \in iotransactions
                           /\ posts[i].id # queries => ~posts[i].ok
      /\ \A i, j \in 1 .. n : i < j => posts[i].id < posts[j].id
      /\ \A q \in iotransactions : q = queries \/ \E i \in 1 .. n : posts[i].id = q
      /\ \A q \in iotransactions : q <= queries /\ q > 0
  BY DEF SelectorInv, PostsInv, QueriesInv
<1>7. \A i \in 1 .. n : posts[i].id < queries
  <2>1. queries \in Nat
    BY DEF SelectorInv, SelectorTypeOK
  <2>2. QED
    BY <1>4, <1>5, <1>6, <2>1
<1> HIDE DEF last, n
<1>8. /\ \A i \in 1 .. n + 1 : i = n + 1 \/ i \in 1 .. n
      /\ \A i, j \in 1 .. n + 1 : i < j => i \in 1 .. n
      /\ \A i \in 1 .. n : i \in 1 .. n + 1
      /\ n + 1 \in 1 .. n + 1
  BY <1>2
<1>9. iotransactions' = iotransactions /\ queries' = queries
  BY <1>5 DEF selector, history
<1>10. PostsInv'
  <2>1. \A i \in 1 .. n + 1 : /\ posts'[i].id \in iotransactions
                              /\ posts'[i].id # queries => ~posts'[i].ok
    BY <1>2, <1>3, <1>5, <1>6, <1>8
  <2>2. \A i, j \in 1 .. n + 1 : i < j => posts'[i].id < posts'[j].id
    BY <1>2, <1>3, <1>6, <1>7, <1>8
  <2>3. QED
    BY <1>3, <1>9, <2>1, <2>2 DEF PostsInv
<1>11. QueriesInv'
  <2>1. \A q \in iotransactions : q = queries \/ \E i \in 1 .. n + 1 : posts'[i].id = q
    BY <1>3, <1>6, <1>8
  <2>2. QED
    BY <1>3, <1>5, <1>6, <1>9, <2>1 DEF QueriesInv
<1>12. SelectionInv' /\ PageAgrees'
  BY <1>5 DEF SelectorInv, SelectionInv, PageAgrees, LoadingAgrees, ListAgrees,
              SelectionAgrees, Found, controls, selector, history
<1>13. SelectorTypeOK'
  BY <1>3, <1>5 DEF SelectorInv, SelectorTypeOK, Callback, controls, selector, history
<1>14. QED
  BY <1>10, <1>11, <1>12, <1>13 DEF SelectorInv

\* The listener is told of every change between an empty selection and another.
LEMMA SelectionChangeFacts ==
    ASSUME SelectorInv, NEW s \in SUBSET Users, SelectionChange(s)
    PROVE  /\ selected' = s /\ SelectionInv' /\ (addDisabled' <=> selected' = {})
           /\ selectionempty' \in BOOLEAN /\ addDisabled' \in BOOLEAN
<1>1. /\ selectionempty <=> selected = {}
      /\ addDisabled <=> selected = {}
      /\ selectionempty \in BOOLEAN /\ addDisabled \in BOOLEAN
  BY DEF SelectorInv, SelectionInv, PageAgrees, SelectionAgrees, SelectorTypeOK
<1>2. selected' = s /\ selectionempty' = (s = {})
  BY DEF SelectionChange
<1>3. addDisabled' = IF selectionempty' # selectionempty THEN s = {} ELSE addDisabled
  BY DEF SelectionChange
<1>4. selectionempty' \in BOOLEAN /\ (selectionempty' <=> s = {})
  BY <1>2, Zenon
<1>5. CASE selectionempty' # selectionempty
  <2>1. addDisabled' = (s = {})
    BY <1>3, <1>5
  <2>2. addDisabled' \in BOOLEAN /\ (addDisabled' <=> s = {})
    BY <2>1, Zenon
  <2>3. QED
    BY <1>2, <1>4, <2>2 DEF SelectionInv
<1>6. CASE selectionempty' = selectionempty
  <2>1. addDisabled' = addDisabled
    BY <1>3, <1>6
  <2>2. addDisabled <=> s = {}
    BY <1>1, <1>4, <1>6
  <2>3. QED
    BY <1>1, <1>2, <1>4, <2>1, <2>2 DEF SelectionInv
<1>7. QED
  BY <1>5, <1>6

\* What output_options lists and selects.
LEMMA OutputFacts ==
    ASSUME SelectorInv, NEW keep \in BOOLEAN, NEW auto \in BOOLEAN,
           OutputOptions(keep, auto)
    PROVE  /\ list' \in [results: SUBSET Users, previous: SUBSET Users, keep: BOOLEAN]
           /\ list'.results = Found /\ list'.keep = keep
           /\ selected' \subseteq Users
           /\ selected' \subseteq list'.results \cup list'.previous
           /\ keep => selected \ Disabled \subseteq selected'
           /\ SelectionInv' /\ (addDisabled' <=> selected' = {})
           /\ selectionempty' \in BOOLEAN /\ addDisabled' \in BOOLEAN
<1> DEFINE kept == (selected \cap Found) \ Disabled
           unique == {u \in Found \cap Disabled : auto /\ \E g \in Groups : g \cap Found = {u}}
           previous == IF keep THEN selected \ kept ELSE {}
           s == kept \cup unique \cup (previous \ Disabled)
<1>1. Found \in SUBSET Users /\ selected \in SUBSET Users
  BY FoundFacts DEF SelectorInv, SelectorTypeOK
<1>2. /\ list' = [results |-> Found, previous |-> previous, keep |-> keep]
      /\ SelectionChange(s)
  BY DEF OutputOptions
<1>3. /\ kept \subseteq Found /\ unique \subseteq Found /\ previous \in SUBSET Users
      /\ keep => selected \ Disabled \subseteq s
  BY <1>1
<1> HIDE DEF kept, unique, previous
<1>4. s \in SUBSET Users /\ s \subseteq Found \cup previous
  BY <1>1, <1>3
<1>5. /\ list' \in [results: SUBSET Users, previous: SUBSET Users, keep: BOOLEAN]
      /\ list'.results = Found /\ list'.previous = previous /\ list'.keep = keep
  BY <1>1, <1>2, <1>3
<1> HIDE DEF s
<1>6. /\ selected' = s /\ SelectionInv' /\ (addDisabled' <=> selected' = {})
      /\ selectionempty' \in BOOLEAN /\ addDisabled' \in BOOLEAN
  BY <1>2, <1>4, SelectionChangeFacts
<1>7. selected' \subseteq Users /\ selected' \subseteq list'.results \cup list'.previous
  BY <1>4, <1>5, <1>6
<1>8. keep => selected \ Disabled \subseteq selected'
  BY <1>3, <1>6 DEF s
<1>9. QED
  BY <1>5, <1>6, <1>7, <1>8

\* The callback in front is that of the oldest query that has not ended. If it
\* is the only one, it is the last query's.
LEMMA HeadFacts ==
    ASSUME SelectorInv, posts # <<>>
    PROVE  /\ Head(posts) \in Callback
           /\ Tail(posts) \in Seq(Callback)
           /\ Len(posts) \in Nat \ {0} /\ Len(Tail(posts)) = Len(posts) - 1
           /\ \A i \in 1 .. Len(posts) - 1 : Tail(posts)[i] = posts[i + 1]
           /\ Head(posts) = posts[1]
           /\ Head(posts).id \in iotransactions
           /\ queries \in iotransactions
           /\ Head(posts).id = queries => iotransactions = {queries}
<1>1. posts \in Seq(Callback) /\ Len(posts) \in Nat \ {0}
  BY LenProperties, EmptySeq DEF SelectorInv, SelectorTypeOK, Callback
<1>2. /\ Head(posts) \in Callback
      /\ Tail(posts) \in Seq(Callback)
      /\ Len(Tail(posts)) = Len(posts) - 1
      /\ \A i \in 1 .. Len(Tail(posts)) : Tail(posts)[i] = posts[i + 1]
  BY <1>1, HeadTailProperties
<1>3. Head(posts) = posts[1] /\ 1 \in 1 .. Len(posts)
  BY <1>1
<1>4. Head(posts).id \in iotransactions /\ queries \in iotransactions
  BY <1>3 DEF SelectorInv, PostsInv, QueriesInv
<1>5. ASSUME Head(posts).id = queries PROVE iotransactions = {queries}
  <2>1. \A i \in 1 .. Len(posts) : posts[i] \in Callback
    BY <1>1, ElementOfSeq
  <2>2. \A i \in 1 .. Len(posts) : posts[i].id \in Nat
    BY <2>1 DEF Callback
  <2>3. \A i \in 1 .. Len(posts) : i = 1 \/ 1 < i
    BY <1>1
  <2>4. \A i \in 1 .. Len(posts) : posts[i].id = queries \/ posts[i].id > queries
    BY <1>3, <1>5, <2>2, <2>3 DEF SelectorInv, PostsInv
  <2>5. \A i \in 1 .. Len(posts) : posts[i].id <= queries
    BY DEF SelectorInv, PostsInv, QueriesInv
  <2>6. queries \in Nat
    BY DEF SelectorInv, SelectorTypeOK
  <2>7. \A i \in 1 .. Len(posts) : posts[i].id = queries
    BY <2>2, <2>4, <2>5, <2>6
  <2>8. QED
    BY <1>4, <2>7 DEF SelectorInv, QueriesInv
<1>6. QED
  BY <1>1, <1>2, <1>3, <1>4, <1>5

\* A query that ends while others run leaves only its callback; the one that
\* ends last is the last query, and shows its answer or its failure.
LEMMA InvHandleResponse == ASSUME SelectorInv, HandleResponse PROVE SelectorInv'
<1> DEFINE n == Len(posts)
           h == Head(posts).id
<1>1. /\ posts # <<>> /\ posts' = Tail(posts)
      /\ iotransactions' = iotransactions \ {h}
  BY DEF HandleResponse
<1>2. /\ Tail(posts) \in Seq(Callback)
      /\ n \in Nat \ {0} /\ Len(Tail(posts)) = n - 1
      /\ \A i \in 1 .. n - 1 : Tail(posts)[i] = posts[i + 1]
      /\ h = posts[1].id
      /\ h \in iotransactions /\ queries \in iotransactions
      /\ h = queries => iotransactions = {queries}
      /\ Head(posts) \in Callback
  BY <1>1, HeadFacts
<1>3. h \in Nat /\ Head(posts).ok \in BOOLEAN
  BY <1>2 DEF Callback
<1>4. \A i \in 1 .. n : posts[i].id \in Nat
  <2>1. \A i \in 1 .. Len(posts) : posts[i] \in Callback
    BY ElementOfSeq DEF SelectorInv, SelectorTypeOK, Callback
  <2>2. QED
    BY <2>1 DEF Callback
<1>5. /\ \A i \in 1 .. n : /\ posts[i].id \in iotransactions
                           /\ posts[i].id # queries => ~posts[i].ok
      /\ \A i, j \in 1 .. n : i < j => posts[i].id < posts[j].id
      /\ \A q \in iotransactions : q = queries \/ \E i \in 1 .. n : posts[i].id = q
      /\ \A q \in iotransactions : q <= queries /\ q > 0
  BY DEF SelectorInv, PostsInv, QueriesInv
<1> HIDE DEF n, h
<1>6. Len(posts') = n - 1 /\ \A i \in 1 .. n - 1 : posts'[i] = posts[i + 1]
  BY <1>1, <1>2
<1>7. /\ \A i \in 1 .. n - 1 : i + 1 \in 1 .. n /\ 1 < i + 1 /\ 1 \in 1 .. n
      /\ \A i, j \in 1 .. n - 1 : i < j => i + 1 < j + 1
      /\ \A i \in 1 .. n : i = 1 \/ (i - 1 \in 1 .. n - 1 /\ i - 1 + 1 = i)
  BY <1>2
<1>8. \A i \in 1 .. n - 1 : posts[i + 1].id # h
  <2> SUFFICES ASSUME NEW i \in 1 .. n - 1 PROVE posts[i + 1].id # h
    OBVIOUS
  <2>1. posts[1].id < posts[i + 1].id
    BY <1>5, <1>7
  <2>2. QED
    BY <1>2, <1>4, <1>7, <2>1
<1>9. queries' = queries
  BY DEF HandleResponse, history
<1>10. PostsInv'
  <2>1. \A i \in 1 .. n - 1 : /\ posts'[i].id \in iotransactions'
                              /\ posts'[i].id # queries => ~posts'[i].ok
    BY <1>1, <1>5, <1>6, <1>7, <1>8
  <2>2. \A i, j \in 1 .. n - 1 : i < j => posts'[i].id < posts'[j].id
    BY <1>5, <1>6, <1>7
  <2>3. QED
    BY <1>6, <1>9, <2>1, <2>2 DEF PostsInv
<1>11. QueriesInv'
  <2>1. \A q \in iotransactions' : q = queries \/ \E i \in 1 .. n - 1 : posts'[i].id = q
    <3> SUFFICES ASSUME NEW q \in iotransactions', q # queries
                 PROVE  \E i \in 1 .. n - 1 : posts'[i].id = q
      OBVIOUS
    <3>1. PICK i \in 1 .. n : posts[i].id = q
      BY <1>1, <1>5
    <3>2. i # 1
      BY <1>1, <1>2, <3>1
    <3>3. i - 1 \in 1 .. n - 1 /\ posts'[i - 1] = posts[i]
      BY <1>6, <1>7, <3>2
    <3>4. QED
      BY <3>1, <3>3
  <2>2. iotransactions' # {} => queries \in iotransactions'
    BY <1>1, <1>2
  <2>3. QED
    BY <1>1, <1>5, <1>6, <1>9, <2>1, <2>2 DEF QueriesInv
<1>12. posts' \in Seq(Callback) /\ iotransactions' \subseteq Nat
  BY <1>1, <1>2 DEF SelectorInv, SelectorTypeOK
<1>13. CASE iotransactions' # {}
  <2>1. UNCHANGED <<controls, lastsearch, selectionempty, delays, history>>
    BY <1>13 DEF HandleResponse
  <2>2. SelectorTypeOK'
    BY <1>12, <2>1 DEF SelectorInv, SelectorTypeOK, Callback, controls, history
  <2>3. SelectionInv'
    BY <2>1 DEF SelectorInv, SelectionInv, controls
  <2>4. PageAgrees'
    <3>1. loading
      BY <1>2 DEF SelectorInv, PageAgrees, LoadingAgrees
    <3>2. LoadingAgrees' /\ ListAgrees'
      BY <1>13, <2>1, <3>1 DEF LoadingAgrees, ListAgrees, controls
    <3>3. SelectionAgrees'
      BY <2>1 DEF SelectorInv, PageAgrees, SelectionAgrees, controls
    <3>4. QED
      BY <3>2, <3>3 DEF PageAgrees
  <2>5. QED
    BY <1>10, <1>11, <2>2, <2>3, <2>4 DEF SelectorInv
<1>14. CASE iotransactions' = {}
  <2>1. h = queries
    BY <1>1, <1>2, <1>14
  <2>2. /\ loading' = FALSE
        /\ UNCHANGED <<text, anywhere, lastsearch, delays, loaded, edits, queries, asked>>
    BY <1>14 DEF HandleResponse
  <2>3. Found' = Found
    BY <2>2 DEF Found
  <2>4. CASE Head(posts).ok
    <3>1. /\ shown' = h /\ UNCHANGED <<error, failed>>
          /\ \E keep, auto \in BOOLEAN : OutputOptions(keep, auto)
      BY <1>14, <2>4 DEF HandleResponse, h
    <3>2. /\ list' \in [results: SUBSET Users, previous: SUBSET Users, keep: BOOLEAN]
          /\ list'.results = Found
          /\ selected' \subseteq Users
          /\ selected' \subseteq list'.results \cup list'.previous
          /\ SelectionInv' /\ (addDisabled' <=> selected' = {})
          /\ selectionempty' \in BOOLEAN /\ addDisabled' \in BOOLEAN
      BY <3>1, OutputFacts
    <3>3. PageAgrees'
      BY <1>14, <2>1, <2>2, <2>3, <3>1, <3>2
      DEF PageAgrees, LoadingAgrees, ListAgrees, SelectionAgrees
    <3>4. SelectorTypeOK'
      BY <1>3, <1>12, <2>2, <3>1, <3>2 DEF SelectorInv, SelectorTypeOK, Callback
    <3>5. QED
      BY <1>10, <1>11, <3>2, <3>3, <3>4 DEF SelectorInv
  <2>5. CASE ~Head(posts).ok
    <3>1. /\ error' = TRUE /\ failed' = TRUE
          /\ UNCHANGED <<list, selected, selectionempty, addDisabled, shown>>
      BY <1>14, <2>5 DEF HandleResponse
    <3>2. PageAgrees' /\ SelectionInv'
      BY <1>14, <2>2, <3>1 DEF SelectorInv, SelectionInv, PageAgrees, LoadingAgrees,
                               ListAgrees, SelectionAgrees
    <3>3. SelectorTypeOK'
      BY <1>12, <2>2, <3>1 DEF SelectorInv, SelectorTypeOK, Callback
    <3>4. QED
      BY <1>10, <1>11, <3>2, <3>3 DEF SelectorInv
  <2>6. QED
    BY <2>4, <2>5
<1>15. QED
  BY <1>13, <1>14

\* A change of the selection by the user preserves the invariant.
LEMMA InvChoose == ASSUME SelectorInv, NEW s \in SUBSET Users, Choose(s) PROVE SelectorInv'
<1>1. /\ s \subseteq (list.results \cup list.previous) \ Disabled
      /\ SelectionChange(s)
      /\ UNCHANGED <<text, anywhere, list, loading, error, lastsearch, delays,
                     iotransactions, posts, history>>
  BY DEF Choose
<1>2. /\ selected' = s /\ SelectionInv' /\ (addDisabled' <=> selected' = {})
      /\ selectionempty' \in BOOLEAN /\ addDisabled' \in BOOLEAN
  BY <1>1, SelectionChangeFacts
<1>3. SelectorTypeOK'
  BY <1>1, <1>2 DEF SelectorInv, SelectorTypeOK, history
<1>4. PostsInv' /\ QueriesInv'
  BY <1>1 DEF SelectorInv, PostsInv, QueriesInv, history
<1>5. PageAgrees'
  <2>1. LoadingAgrees' /\ ListAgrees'
    BY <1>1 DEF SelectorInv, PageAgrees, LoadingAgrees, ListAgrees, Found, history
  <2>2. SelectionAgrees'
    BY <1>1, <1>2 DEF SelectionAgrees
  <2>3. QED
    BY <2>1, <2>2 DEF PageAgrees
<1>6. QED
  BY <1>2, <1>3, <1>4, <1>5 DEF SelectorInv

\* Each step of the selector preserves the invariant.
LEMMA InvNext == SelectorInv /\ [SelectorNext]_selectorVars => SelectorInv'
<1> SUFFICES ASSUME SelectorInv, [SelectorNext]_selectorVars PROVE SelectorInv'
  OBVIOUS
<1>1. CASE Load
  BY <1>1, InvLoad
<1>2. CASE Later
  BY <1>2, InvLater
<1>3. CASE Clear
  BY <1>3, InvClear
<1>4. CASE ToggleAnywhere
  BY <1>4, InvToggleAnywhere
<1>5. CASE Answer
  BY <1>5, InvAnswer
<1>6. CASE HandleResponse
  BY <1>6, InvHandleResponse
<1>7. ASSUME NEW t \in Texts, Type(t) PROVE SelectorInv'
  BY <1>7, InvType
<1>8. ASSUME NEW s \in SUBSET Users, Choose(s) PROVE SelectorInv'
  BY <1>8, InvChoose
<1>9. CASE UNCHANGED selectorVars
  BY <1>9 DEF selectorVars, controls, selector, history, SelectorInv, SelectorTypeOK,
              PostsInv, QueriesInv, SelectionInv, PageAgrees, LoadingAgrees,
              ListAgrees, SelectionAgrees, Found
<1>10. QED
  BY <1>1, <1>2, <1>3, <1>4, <1>5, <1>6, <1>7, <1>8, <1>9 DEF SelectorNext

\* The invariant holds in every state.
LEMMA InvHolds == SelectorSpec => []SelectorInv
<1>1. QED
  BY InvInit, InvNext, PTL DEF SelectorSpec

----------------------------------------------------------------------------
(* The theorems. *)

\* The variables of the selector have their types.
THEOREM SelectorTypes == SelectorSpec => []SelectorTypeOK
<1>1. SelectorInv => SelectorTypeOK
  BY DEF SelectorInv
<1>2. QED
  BY <1>1, InvHolds, PTL

\* For any number of keys, clicks, aborted and failing queries: the image shows
\* whether a query is under way, the list is that of the last query or the field
\* is marked, and the button agrees with the selection.
THEOREM PageAlwaysAgrees == SelectorSpec => []PageAgrees
<1>1. SelectorInv => PageAgrees
  BY DEF SelectorInv
<1>2. QED
  BY <1>1, InvHolds, PTL

\* An answer that comes while selected users are to be preserved takes nobody
\* out of the selection who can be chosen.
THEOREM SelectionStays == SelectorSpec => SelectionKept
<1>1. SelectorInv /\ [SelectorNext]_selectorVars =>
         [shown' # shown /\ list'.keep => selected \ Disabled \subseteq selected']_selectorVars
  <2> SUFFICES ASSUME SelectorInv, SelectorNext, shown' # shown, list'.keep
               PROVE  selected \ Disabled \subseteq selected'
    OBVIOUS
  <2>1. HandleResponse
    BY DEF SelectorNext, Load, Later, Clear, ToggleAnywhere, Answer, Type, Choose, history
  <2>2. \E keep, auto \in BOOLEAN : OutputOptions(keep, auto)
    BY <2>1 DEF HandleResponse, history
  <2>3. QED
    BY <2>2, OutputFacts
<1>2. QED
  BY <1>1, InvHolds, PTL DEF SelectorSpec, SelectionKept

=============================================================================
