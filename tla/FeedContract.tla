---------------------------- MODULE FeedContract ----------------------------
(***************************************************************************)
(* What the XML reader of the app promises to its callers (every list      *)
(* screen and the login task): from one answer of a service, either        *)
(* nothing, or a feed whose header and items are the readings of what the  *)
(* service wrote, in the order it wrote them.  RSSHandler implements this  *)
(* contract one parser event at a time.                                    *)
(***************************************************************************)
EXTENDS Feeds

VARIABLES document,    \* the answer that was read, <<>> until it is
          result       \* what getFeed gives to the caller, <<>> for nothing

vars == <<document, result>>

Init == document = <<>> /\ result = <<>>

Read == /\ document = <<>>
        /\ document' \in Document
        /\ result' = <<FeedOf(document')>>

Next == Read

Spec == Init /\ [][Next]_vars
=============================================================================
