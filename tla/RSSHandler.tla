----------------------------- MODULE RSSHandler -----------------------------
(***************************************************************************)
(* app.util.xml.RSSHandler with RSSFeed and RSSItem: the SAX handler every *)
(* list screen and the login task read the answers of the services with.   *)
(* The parser calls startDocument, startElement, characters and endElement *)
(* in document order; the handler keeps one currentState and stores a run  *)
(* of characters in the feed or in the current item.                       *)
(*                                                                         *)
(* Items are objects: itemList holds references into heap, and item still  *)
(* refers to an item after that item was added to the feed.                *)
(*                                                                         *)
(* The parser and the document are external.  A document is what the       *)
(* services of mobile-learning-tc write: a channel with header elements,   *)
(* then items with their elements, each at most once, in some order.       *)
(* Character data may be reported in several runs, an element may be empty *)
(* or hold markup, the white space between two tags is reported as text,   *)
(* and the parser gives up at the first error.                             *)
(***************************************************************************)
EXTENDS Feeds

CONSTANTS HeaderFields,  \* the elements the service writes before the items
          ItemFields,    \* the elements it writes in an item
          MaxItems,      \* bound: items in a document
          MaxPieces      \* bound: runs of text and nested elements in an element

ASSUME DocumentAssumption ==
  /\ HeaderFields \subseteq Fields
  /\ ItemFields \subseteq Fields
  /\ MaxItems \in Nat
  /\ MaxPieces \in Nat

NoField == "none"
unknown == "unknown"

VARIABLES
  \* the handler
  currentState,  \* the element whose text comes next, unknown for none
  itemFound,     \* an item tag was seen
  feed,          \* the header: the strings of the RSSFeed
  itemList,      \* the feed's itemList: references, in the order of addItem
  heap,          \* the RSSItem objects created so far
  item,          \* the handler's reference to one of them
  \* the parser
  phase,         \* "created", "reading", "done" or "failed" (SAXException)
  scope,         \* "prolog", "channel" or "item"
  leaf,          \* the element of Fields that is open, or NoField
  depth,         \* nested elements open in it
  spaced,        \* white space was reported since the last end tag
  written        \* header and items as the service wrote them so far

handler == <<currentState, itemFound, feed, itemList, heap, item>>
parser  == <<phase, scope, leaf, depth, spaced, written>>
vars    == <<currentState, itemFound, feed, itemList, heap, item,
             phase, scope, leaf, depth, spaced, written>>

NewItem   == [f \in Fields |-> NoText]
NoContent == [f \in Fields |-> <<>>]

Init == /\ currentState = unknown
        /\ itemFound = FALSE
        /\ feed = NewItem
        /\ itemList = <<>>
        /\ heap = <<>>
        /\ item = 0
        /\ phase = "created"
        /\ scope = "prolog"
        /\ leaf = NoField
        /\ depth = 0
        /\ spaced = TRUE
        /\ written = <<NoContent>>

-----------------------------------------------------------------------------
(* The handler's callbacks.                                                *)

\* mutant: the document starts without an item of its own
startDocument_NoItem ==
  /\ feed' = NewItem
  /\ itemList' = <<>>
  /\ UNCHANGED <<heap, item, currentState, itemFound>>

startDocument ==
  /\ feed' = NewItem
  /\ itemList' = <<>>
  /\ heap' = <<NewItem>>
  /\ item' = 1
  /\ UNCHANGED <<currentState, itemFound>>

\* mutants: itemFound is never set; the item object is reused
startElement_NotFound(tag) ==
  /\ currentState' = IF tag \in Fields THEN tag ELSE unknown
  /\ heap' = IF tag = "item" THEN Append(heap, NewItem) ELSE heap
  /\ item' = IF tag = "item" THEN Len(heap) + 1 ELSE item
  /\ UNCHANGED <<itemFound, feed, itemList>>

startElement_Reuse(tag) ==
  /\ currentState' = IF tag \in Fields THEN tag ELSE unknown
  /\ itemFound' = (itemFound \/ tag = "item")
  /\ UNCHANGED <<feed, itemList, heap, item>>

startElement(tag) ==
  /\ currentState' = IF tag \in Fields THEN tag ELSE unknown
  /\ itemFound' = (itemFound \/ tag = "item")
  /\ heap' = IF tag = "item" THEN Append(heap, NewItem) ELSE heap
  /\ item' = IF tag = "item" THEN Len(heap) + 1 ELSE item
  /\ UNCHANGED <<feed, itemList>>

endElement(tag) ==
  /\ itemList' = IF tag = "item" THEN Append(itemList, item) ELSE itemList
  /\ UNCHANGED <<currentState, itemFound, feed, heap, item>>

\* mutant: the state survives the first run of text
characters_KeepsState(text) ==
  /\ heap' = IF itemFound /\ currentState # unknown
             THEN [heap EXCEPT ![item][currentState] = text] ELSE heap
  /\ feed' = IF ~itemFound /\ currentState # unknown
             THEN [feed EXCEPT ![currentState] = text] ELSE feed
  /\ UNCHANGED <<currentState, itemFound, itemList, item>>

characters(text) ==
  /\ heap' = IF itemFound /\ currentState # unknown
             THEN [heap EXCEPT ![item][currentState] = text] ELSE heap
  /\ feed' = IF ~itemFound /\ currentState # unknown
             THEN [feed EXCEPT ![currentState] = text] ELSE feed
  /\ currentState' = unknown
  /\ UNCHANGED <<itemFound, itemList, item>>

-----------------------------------------------------------------------------
(* The parser, event by event.                                             *)

Last == Len(written)

StartDocument ==
  /\ phase = "created"
  /\ phase' = "reading"
  /\ startDocument
  /\ UNCHANGED <<scope, leaf, depth, spaced, written>>

\* <rss> and <channel>, elements the handler has no name for
OpenChannel ==
  /\ phase = "reading" /\ scope = "prolog"
  /\ scope' = "channel"
  /\ startElement("channel")
  /\ UNCHANGED <<phase, leaf, depth, spaced, written>>

OpenItem ==
  /\ phase = "reading" /\ scope = "channel" /\ leaf = NoField /\ spaced
  /\ Last <= MaxItems
  /\ scope' = "item"
  /\ written' = Append(written, NoContent)
  /\ startElement("item")
  /\ UNCHANGED <<phase, leaf, depth, spaced>>

CloseItem ==
  /\ phase = "reading" /\ scope = "item" /\ leaf = NoField /\ spaced
  /\ scope' = "channel"
  /\ endElement("item")
  /\ UNCHANGED <<phase, leaf, depth, spaced, written>>

\* An element of the header before the first item, or one of the item.
OpenField(f) ==
  /\ phase = "reading" /\ leaf = NoField /\ spaced
  /\ \/ scope = "channel" /\ Last = 1 /\ f \in HeaderFields
     \/ scope = "item" /\ f \in ItemFields
  /\ written[Last][f] = <<>>
  /\ leaf' = f
  /\ written' = [written EXCEPT ![Last][f] = <<Open>>]
  /\ startElement(f)
  /\ UNCHANGED <<phase, scope, depth, spaced>>

CloseField ==
  /\ phase = "reading" /\ leaf # NoField /\ depth = 0
  /\ leaf' = NoField
  /\ spaced' = FALSE
  /\ endElement(leaf)
  /\ UNCHANGED <<phase, scope, depth, written>>

Piece(p) == /\ Len(written[Last][leaf]) <= MaxPieces
            /\ written' = [written EXCEPT ![Last][leaf] = Append(@, p)]

\* A run of the text of the open element.
Chunk(t) ==
  /\ phase = "reading" /\ leaf # NoField /\ depth = 0
  /\ Piece(t)
  /\ characters(t)
  /\ UNCHANGED <<phase, scope, leaf, depth, spaced>>

\* An element nested in the open one, with text of its own.
OpenMarkup ==
  /\ phase = "reading" /\ leaf # NoField /\ depth = 0
  /\ Piece(Markup)
  /\ depth' = 1
  /\ startElement("markup")
  /\ UNCHANGED <<phase, scope, leaf, spaced>>

NestedText(t) ==
  /\ phase = "reading" /\ depth = 1
  /\ characters(t)
  /\ UNCHANGED parser

CloseMarkup ==
  /\ phase = "reading" /\ depth = 1
  /\ depth' = 0
  /\ endElement("markup")
  /\ UNCHANGED <<phase, scope, leaf, spaced, written>>

\* The services end every line they write, so that white space follows each
\* end tag; a parser may report it in several runs.
Space ==
  /\ phase = "reading" /\ leaf = NoField
  /\ spaced' = TRUE
  /\ characters(Blank)
  /\ UNCHANGED <<phase, scope, leaf, depth, written>>

EndDocument ==
  /\ phase = "reading" /\ scope = "channel" /\ leaf = NoField /\ spaced
  /\ phase' = "done"
  /\ UNCHANGED <<scope, leaf, depth, spaced, written, handler>>

\* A bare & or <, a die() message before the XML, a connection that breaks:
\* parse() throws, and no caller looks at the feed.
Fail ==
  /\ phase \in {"created", "reading"}
  /\ phase' = "failed"
  /\ UNCHANGED <<scope, leaf, depth, spaced, written, handler>>

Next == \/ StartDocument \/ OpenChannel \/ OpenItem \/ CloseItem
        \/ \E f \in Fields : OpenField(f)
        \/ CloseField
        \/ \E t \in Text \cup {Blank} : Chunk(t)
        \/ OpenMarkup
        \/ \E t \in Text : NestedText(t)
        \/ CloseMarkup \/ Space \/ EndDocument \/ Fail

Spec == Init /\ [][Next]_vars

-----------------------------------------------------------------------------
(* Properties.                                                             *)

\* Every variable has its type, and item is the object created last.
TypeOK ==
  /\ currentState \in Fields \cup {unknown}
  /\ itemFound \in BOOLEAN
  /\ feed \in Record
  /\ heap \in Seq(Record)
  /\ itemList \in Seq(1..Len(heap))
  /\ phase \in {"created", "reading", "done", "failed"}
  /\ item = Len(heap)
  /\ scope \in {"prolog", "channel", "item"}
  /\ leaf \in Fields \cup {NoField}
  /\ depth \in 0..1
  /\ spaced \in BOOLEAN
  /\ written \in Document
  /\ phase = "reading" => Len(heap) = Len(written)

\* The items whose end tag was read.
Closed == IF scope = "item" THEN Last - 2 ELSE Last - 1

\* The items in the feed are the items of the document, in its order, each
\* once and with nothing in it that the document does not say of that very
\* element: the single currentState and the item reference that outlives
\* the item never carry text from one element or one item to another.
ItemsFaithful ==
  phase = "reading" =>
    /\ Len(itemList) = Closed
    /\ \A k \in 1..Closed :
         /\ itemList[k] = k + 1
         /\ heap[itemList[k]] = ReadingOf(written[k + 1])

\* An item that is in the feed never changes, although the handler still
\* holds a reference to the last of them while it reads on.
DeliveredItemsFixed ==
  [][phase = "reading" =>
       \A k \in 1..Len(itemList) :
         /\ itemList'[k] = itemList[k]
         /\ heap'[itemList[k]] = heap[itemList[k]]]_vars

\* The header belongs to the channel: no text behind the first item tag
\* reaches it, whatever elements the items share with the header.
HeaderFrozen ==
  [][Len(written) > 1 => feed' = feed]_vars

\* What getFeed gives to a caller after the document.
feedRead == [header |-> feed,
             items  |-> [k \in 1..Len(itemList) |-> heap[itemList[k]]]]

Contract == INSTANCE FeedContract WITH
  document <- IF phase = "done" THEN written ELSE <<>>,
  result   <- IF phase = "done" THEN <<feedRead>> ELSE <<>>

\* Event by event, the handler does what FeedContract says in one step.
ImplementsContract == Contract!Spec
=============================================================================
