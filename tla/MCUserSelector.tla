--------------------------- MODULE MCUserSelector ---------------------------
(* Three users in two groups, one of them disabled. One text finds the      *)
(* disabled one alone, or with another when it is matched anywhere; one     *)
(* text has a character that makes the server read only its beginning.      *)
EXTENDS UserSelector

CONSTANTS u1, u2, u3, none, a, amp

MCUsers == {u1, u2, u3}
MCGroups == {{u1, u2}, {u3}}
MCTexts == {none, a, amp}
MCReceived == [t \in MCTexts |-> IF t = amp THEN a ELSE t]
MCMatches ==
    [t \in MCTexts |->
        [any \in BOOLEAN |->
            CASE t = none -> MCUsers
              [] t = a -> IF any THEN {u1, u2} ELSE {u2}
              [] t = amp -> {u3}]]
=============================================================================
