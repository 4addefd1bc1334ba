-------------------------- MODULE AttemptContract --------------------------
(***************************************************************************)
(* What a student and a teacher can rely on, although the pages of the     *)
(* site and cron decide on what they read before and write over each       *)
(* other: the answer with which an attempt was finished counts, whatever   *)
(* state it gets into after that, and an answer that is taken does not     *)
(* belong to an attempt that is being abandoned. Where an attempt may get  *)
(* depends on the quiz's overduehandling. QuizAttempt implements this one  *)
(* page, countdown and run of cron at a time.                              *)
(***************************************************************************)
CONSTANTS Answer, Blank

VARIABLES handling,   \* the quiz's overduehandling
          state,      \* where the attempt stands
          answer,     \* the answer that was saved last
          final       \* the attempt was finished, and its questions graded

vars == <<handling, state, answer, final>>

\* The states that an attempt in progress may get into. Any attempt may be
\* finished, also by a form that comes too late; it goes overdue only if there
\* is a grace period, and where open attempts are submitted automatically none
\* is abandoned.
Ends == [autosubmit  |-> {"finished"},
         graceperiod |-> {"overdue", "finished", "abandoned"},
         autoabandon |-> {"finished", "abandoned"}]

Init == /\ handling \in DOMAIN Ends
        /\ state = "inprogress" /\ answer = Blank /\ final = FALSE

\* The attempt gets somewhere, or back to where a slow page had found it
Move == /\ state' \in {"inprogress"} \cup Ends[handling]
        /\ final' = (final \/ state' = "finished")
        /\ UNCHANGED handling

\* An answer is taken
Take == /\ ~final
        /\ answer' \in Answer
        /\ state' # "abandoned"

Next == Move /\ (Take \/ UNCHANGED answer)

Spec == Init /\ [][Next]_vars
=============================================================================
