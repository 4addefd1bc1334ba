---------------------------- MODULE UserSelector ----------------------------
(***************************************************************************)
(* The user selector of Moodle's pages for roles and groups                *)
(* (user/selector/module.js): a list box, a search field that asks the     *)
(* server half a second after each key, and the Add button of the page     *)
(* around it. The handlers run one at a time, in the order in which the    *)
(* browser queues them.                                                    *)
(*                                                                         *)
(* A query aborts all earlier ones, so that at most the last is in flight. *)
(* An aborted transaction fails, later: YUI's io queues a callback for it, *)
(* also when its answer has arrived and waits in that queue.               *)
(*                                                                         *)
(* External: XMLHttpRequest and YUI (io, later), and the search itself,    *)
(* which each subclass of user_selector_base does for itself.              *)
(***************************************************************************)
EXTENDS Naturals, Sequences

CONSTANTS Users,      \* whoever a search can find
          Disabled,   \* those who cannot be chosen
          Groups,     \* the groups in which the list shows users
          Texts,      \* what may be in the search field
          Empty,      \* an empty field
          Matches,    \* Matches[text][anywhere]: the users that match
          Received,   \* what the server reads of a text that nothing encodes
          MaxEdits    \* bound: keys, clicks on Clear and on the checkbox

ASSUME SelectorAssumption ==
    /\ Disabled \subseteq Users /\ Groups \subseteq SUBSET Users
    /\ Empty \in Texts
    /\ Matches \in [Texts -> [BOOLEAN -> SUBSET Users]]
    /\ Received \in [Texts -> Texts] /\ Received[Empty] = Empty
    /\ MaxEdits \in Nat

VARIABLES
  \* the controls
  text,            \* the search field
  anywhere,        \* the checkbox: match anywhere in the name
  list,            \* the users in the list box
  selected,        \* those that are selected in it
  loading,         \* the list box has the loading image
  error,           \* the search field is marked, for good
  addDisabled,     \* the Add button
  \* the selector
  lastsearch,
  selectionempty,
  delays,          \* timers of Y.later that have not run
  iotransactions,  \* the queries that have not ended, by number
  \* the browser
  posts,           \* callbacks of io: which query, and whether it succeeded
  \* history
  loaded,          \* init has run
  edits,           \* what the user has done
  queries,         \* the number of the last query
  asked,           \* anywhere, when it was sent
  shown,           \* the query whose answer is listed, 0 for the page itself
  failed           \* the last query has failed

controls == <<text, anywhere, list, selected, loading, error, addDisabled>>
selector == <<lastsearch, selectionempty, delays, iotransactions>>
history  == <<loaded, edits, queries, asked, shown, failed>>
selectorVars == <<controls, selector, posts, history>>

Queries == 1 .. MaxEdits + 1

SelectorTypeOK ==
    /\ text \in Texts /\ anywhere \in BOOLEAN
    /\ list \in [results: SUBSET Users, previous: SUBSET Users, keep: BOOLEAN]
    /\ selected \subseteq Users
    /\ loading \in BOOLEAN /\ error \in BOOLEAN /\ addDisabled \in BOOLEAN
    /\ lastsearch \in Texts /\ selectionempty \in BOOLEAN
    /\ delays \in Nat
    /\ iotransactions \subseteq Nat
    /\ posts \in Seq([id: Nat, ok: BOOLEAN])
    /\ loaded \in BOOLEAN /\ edits \in 0 .. MaxEdits
    /\ queries \in Nat /\ asked \in BOOLEAN /\ shown \in Nat /\ failed \in BOOLEAN

----------------------------------------------------------------------------
(* The search. *)

\* What search.php finds for the last query, and the page for its own search
Found ==
    Matches[IF queries = 0 THEN lastsearch ELSE Received[lastsearch]][asked]

\* The last query has no answer yet
InFlight ==
    queries \in iotransactions /\ \A i \in 1 .. Len(posts) : posts[i].id # queries

\* abort() of all transactions: callbacks that wait become failures, and the
\* query in flight gets one
Aborted ==
    LET waiting == [i \in 1 .. Len(posts) |-> [posts[i] EXCEPT !.ok = FALSE]]
    IN IF InFlight THEN Append(waiting, [id |-> queries, ok |-> FALSE]) ELSE waiting

\* send_query, when the field contains value and the checkbox any. A query for
\* the same text is not sent again. The mark of a failure stays: set('class', '')
\* sets nothing, as YUI knows no such attribute, nor an element such a property.
SendQuery(value, any, force) ==
    /\ UNCHANGED error
    /\ IF lastsearch = value /\ ~force
       THEN UNCHANGED <<lastsearch, iotransactions, posts, loading, queries, asked, failed>>
       ELSE /\ posts' = Aborted
            /\ queries' = queries + 1
            /\ iotransactions' = iotransactions \cup {queries + 1}
            /\ lastsearch' = value /\ asked' = any
            /\ loading' = TRUE /\ failed' = FALSE

\* init, once the page is there: the browser may have restored another text
Load ==
    /\ ~loaded /\ loaded' = TRUE
    /\ SendQuery(text, anywhere, FALSE)
    /\ UNCHANGED <<text, anywhere, list, selected, addDisabled, selectionempty,
                   delays, edits, shown>>

UserActs == loaded /\ edits < MaxEdits /\ edits' = edits + 1

\* handle_keyup. What it hands to clearTimeout is Y.later's object and no
\* number, so that the timers of earlier keys run as well.
Type(t) ==
    /\ UserActs
    /\ text' = t
    /\ delays' = delays + 1
    /\ UNCHANGED <<anywhere, list, selected, loading, error, addDisabled,
                   lastsearch, selectionempty, iotransactions, posts, loaded,
                   queries, asked, shown, failed>>

\* A timer of Y.later
Later ==
    /\ delays > 0 /\ delays' = delays - 1
    /\ SendQuery(text, anywhere, FALSE)
    /\ UNCHANGED <<text, anywhere, list, selected, addDisabled, selectionempty,
                   loaded, edits, shown>>

\* handle_clear; the button is enabled while there is text
Clear ==
    /\ UserActs
    /\ text # Empty /\ text' = Empty
    /\ SendQuery(Empty, anywhere, FALSE)
    /\ UNCHANGED <<anywhere, list, selected, addDisabled, selectionempty, delays,
                   loaded, shown>>

\* handle_searchanywhere_change
ToggleAnywhere ==
    /\ UserActs
    /\ anywhere' = ~anywhere
    /\ IF lastsearch # Empty /\ text # Empty
       THEN SendQuery(text, ~anywhere, TRUE)
       ELSE UNCHANGED <<error, lastsearch, iotransactions, posts, loading, queries,
                        asked, failed>>
    /\ UNCHANGED <<text, list, selected, addDisabled, selectionempty, delays,
                   loaded, shown>>

\* The server's answer, an error page or no connection: the callback is queued
Answer ==
    /\ InFlight
    /\ \E ok \in BOOLEAN : posts' = Append(posts, [id |-> queries, ok |-> ok])
    /\ UNCHANGED <<controls, selector, history>>

----------------------------------------------------------------------------
(* The list. *)

\* Changed form: the listener is told what was
SelectionChange_ToldOld(s) ==
    /\ selected' = s
    /\ selectionempty' = (s = {})
    /\ addDisabled' = IF selectionempty' # selectionempty THEN selectionempty ELSE addDisabled

\* handle_selection_change, when the selection becomes s, and the listener of
\* the page: it hears only of a change from empty or to empty
SelectionChange(s) ==
    /\ selected' = s
    /\ selectionempty' = (s = {})
    /\ addDisabled' = IF selectionempty' # selectionempty THEN s = {} ELSE addDisabled

\* Changed form: the group of those selected before is listed, not selected
OutputOptions_NotSelected(keep, auto) ==
    LET kept == (selected \cap Found) \ Disabled
        unique == {u \in Found \cap Disabled : auto /\ \E g \in Groups : g \cap Found = {u}}
        previous == IF keep THEN selected \ kept ELSE {}
    IN /\ list' = [results |-> Found, previous |-> previous, keep |-> keep]
       /\ SelectionChange(kept \cup unique)

\* output_options and output_group, with the two checkboxes as they are now:
\* who was selected and is found stays so, a group of one disabled user is
\* selected, and the other selected users are listed in a group of their own
OutputOptions(keep, auto) ==
    LET kept == (selected \cap Found) \ Disabled
        unique == {u \in Found \cap Disabled : auto /\ \E g \in Groups : g \cap Found = {u}}
        previous == IF keep THEN selected \ kept ELSE {}
    IN /\ list' = [results |-> Found, previous |-> previous, keep |-> keep]
       /\ SelectionChange(kept \cup unique \cup (previous \ Disabled))

\* Changed form: the pending queries are looked at before this one is deleted
HandleResponse_LateDelete ==
    /\ posts # <<>>
    /\ posts' = Tail(posts)
    /\ IF iotransactions # {Head(posts).id}
       THEN UNCHANGED <<controls, selector, history>>
       ELSE /\ iotransactions' = {}
            /\ loading' = FALSE
            /\ IF Head(posts).ok
               THEN /\ \E keep, auto \in BOOLEAN : OutputOptions(keep, auto)
                    /\ shown' = Head(posts).id
                    /\ UNCHANGED <<error, failed>>
               ELSE /\ error' = TRUE /\ failed' = TRUE
                    /\ UNCHANGED <<list, selected, selectionempty, addDisabled, shown>>
            /\ UNCHANGED <<text, anywhere, lastsearch, delays, loaded, edits, queries, asked>>

\* Changed form: each query that ends is shown, whatever else runs
HandleResponse_ShowsAny ==
    /\ posts # <<>>
    /\ posts' = Tail(posts)
    /\ iotransactions' = iotransactions \ {Head(posts).id}
    /\ loading' = FALSE
    /\ IF Head(posts).ok
       THEN /\ \E keep, auto \in BOOLEAN : OutputOptions(keep, auto)
            /\ shown' = Head(posts).id
            /\ UNCHANGED <<error, failed>>
       ELSE /\ error' = TRUE /\ failed' = TRUE
            /\ UNCHANGED <<list, selected, selectionempty, addDisabled, shown>>
    /\ UNCHANGED <<text, anywhere, lastsearch, delays, loaded, edits, queries, asked>>

\* handle_response and handle_failure: only the last query to end shows
\* anything. An answer that is no JSON counts as a failure.
HandleResponse ==
    /\ posts # <<>>
    /\ posts' = Tail(posts)
    /\ iotransactions' = iotransactions \ {Head(posts).id}
    /\ IF iotransactions' # {}
       THEN UNCHANGED <<controls, lastsearch, selectionempty, delays, history>>
       ELSE /\ loading' = FALSE
            /\ IF Head(posts).ok
               THEN /\ \E keep, auto \in BOOLEAN : OutputOptions(keep, auto)
                    /\ shown' = Head(posts).id
                    /\ UNCHANGED <<error, failed>>
               ELSE /\ error' = TRUE /\ failed' = TRUE
                    /\ UNCHANGED <<list, selected, selectionempty, addDisabled, shown>>
            /\ UNCHANGED <<text, anywhere, lastsearch, delays, loaded, edits, queries, asked>>

\* The user selects users in the list box
Choose(s) ==
    /\ loaded
    /\ s \subseteq (list.results \cup list.previous) \ Disabled
    /\ SelectionChange(s)
    /\ UNCHANGED <<text, anywhere, list, loading, error, lastsearch, delays,
                   iotransactions, posts, history>>

SelectorInit ==
    /\ text \in Texts /\ lastsearch \in Texts /\ anywhere \in BOOLEAN
    /\ asked = anywhere
    /\ queries = 0 /\ shown = 0 /\ failed = FALSE
    /\ list = [results |-> Matches[lastsearch][anywhere], previous |-> {}, keep |-> FALSE]
    /\ selected \in SUBSET (Matches[lastsearch][anywhere] \ Disabled)
    /\ selectionempty = (selected = {}) /\ addDisabled = (selected = {})
    /\ loading = FALSE /\ error = FALSE
    /\ delays = 0 /\ iotransactions = {} /\ posts = <<>>
    /\ loaded = FALSE /\ edits = 0

SelectorNext ==
    \/ Load \/ Later \/ Clear \/ ToggleAnywhere \/ Answer \/ HandleResponse
    \/ \E t \in Texts : Type(t)
    \/ \E s \in SUBSET Users : Choose(s)

\* The browser runs timers and callbacks, and a connection ends some time
SelectorSpec ==
    /\ SelectorInit /\ [][SelectorNext]_selectorVars
    /\ WF_selectorVars(Load) /\ WF_selectorVars(Later)
    /\ WF_selectorVars(Answer) /\ WF_selectorVars(HandleResponse)

----------------------------------------------------------------------------
(* Properties. *)

\* The loading image is there exactly while a query runs.
LoadingAgrees == loading <=> iotransactions # {}

\* When no query runs, the list shows what the server found for the last one:
\* never the answer to an earlier query, unless the last one failed, and then
\* the search field is marked.
ListAgrees ==
    iotransactions = {} =>
        (failed /\ error) \/ (shown = queries /\ list.results = Found)

\* Whoever is selected is listed, and the Add button is enabled exactly while
\* somebody is selected.
SelectionAgrees ==
    /\ selected \subseteq list.results \cup list.previous
    /\ addDisabled <=> selected = {}

\* What the page shows agrees, whatever answers arrive, fail or were aborted:
\* the image with the queries, the list or else the mark with the last query,
\* and the selection with the list and the button.
PageAgrees == LoadingAgrees /\ ListAgrees /\ SelectionAgrees

\* An answer takes nobody out of the selection who can be chosen, as long as
\* the selected users are to be preserved, whether or not he matches.
SelectionKept ==
    [][shown' # shown /\ list'.keep => selected \ Disabled \subseteq selected']_selectorVars

\* When the user has stopped typing, the search for what he typed comes to an
\* end, although each key has a timer and each query aborts another.
SearchSettles ==
    <>[](lastsearch = text /\ iotransactions = {} /\ ~loading)
=============================================================================
