--------------------------- MODULE MCLoginSession ---------------------------
(***************************************************************************)
(* LoginSession for a site with two users and a name it does not know.  In *)
(* MCForms a user is also typed with the other's password; in MCErrorForms *)
(* the unknown name is tried and a password is left out.                   *)
(***************************************************************************)
EXTENDS LoginSession

CONSTANTS ann, bob, eve, a1, a2, p1, p2,
          MaxIntros, MaxMains     \* bounds: activities of one kind in memory

MCAccountOf  == (ann :> a1) @@ (bob :> a2) @@ (eve :> NoAccount)
MCPasswordOf == (a1 :> p1) @@ (a2 :> p2)

MCForms      == {<<ann, p1>>, <<bob, p2>>, <<bob, p1>>}
MCErrorForms == {<<ann, p1>>, <<bob, p2>>, <<eve, p1>>, <<ann, Empty>>}

Number(k) == Cardinality({a \in Acts : kind[a] = k})

FewAlike ==
  /\ Number("splash") <= 1
  /\ Number("intro") <= MaxIntros
  /\ Number("login") <= 2
  /\ Number("main") <= MaxMains
=============================================================================
