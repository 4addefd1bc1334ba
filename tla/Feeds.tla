-------------------------------- MODULE Feeds --------------------------------
(***************************************************************************)
(* The data of the XML services: what a service writes, and what the app   *)
(* shows of it.                                                            *)
(*                                                                         *)
(* What the service wrote in one element is a sequence: <<>> when the      *)
(* element is absent, and otherwise the mark Open followed by the runs of  *)
(* character data and the marks Markup (a nested element) in the order     *)
(* the parser reports them.                                                *)
(***************************************************************************)
EXTENDS Naturals, Sequences

CONSTANTS Text,        \* the runs of character data the parser reports
          Blank,       \* white space between two tags, a string like another
          NoText,      \* a String that was never set: null in the program
          Open,        \* the start tag of an element
          Markup       \* a nested element, for example <p> in a description

ASSUME TextAssumption ==
  /\ NoText \notin Text \cup {Blank}
  /\ Open \notin Text \cup {Blank, Markup}
  /\ Markup \notin Text \cup {Blank}

Fields == {"title", "description", "link", "pubdate", "category"}

Values  == Text \cup {Blank, NoText}
Record  == [Fields -> Values]
Content == Seq(Text \cup {Blank, Open, Markup})
Written == [Fields -> Content]

\* One element as the app shows it: only the first run of its text counts,
\* text behind markup is lost, and an empty element picks up the white
\* space that follows its end tag.
Reading(c) ==
  CASE Len(c) = 0 -> NoText
    [] Len(c) = 1 -> Blank
    [] OTHER      -> IF c[2] = Markup THEN NoText ELSE c[2]

ReadingOf(w) == [f \in Fields |-> Reading(w[f])]

\* A document is the header followed by the items, hence never empty.
Document == {d \in Seq(Written) : d # <<>>}

FeedOf(d) == [header |-> ReadingOf(d[1]),
              items  |-> [k \in 1..(Len(d) - 1) |-> ReadingOf(d[k + 1])]]
==============================================================================
