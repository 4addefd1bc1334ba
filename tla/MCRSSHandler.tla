---------------------------- MODULE MCRSSHandler ----------------------------
(***************************************************************************)
(* RSSHandler on small documents: a header with one element, items with    *)
(* two, and at most MaxRuns runs of text and nested elements in the whole  *)
(* document (the state constraint), of which up to MaxPieces in one        *)
(* element.                                                                *)
(***************************************************************************)
EXTENDS RSSHandler, FiniteSets, TLC

CONSTANT MaxRuns

MCHeaderFields == {"title"}
MCItemFields   == {"title", "description"}

Runs == {r \in (1..Len(written)) \X Fields \X (2..(MaxPieces + 1)) :
           r[3] <= Len(written[r[1]][r[2]])}

FewRuns == Cardinality(Runs) <= MaxRuns

Alike == Permutations(Text)
=============================================================================
