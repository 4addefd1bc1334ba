------------------------- MODULE MCQuizAttempt -------------------------
EXTENDS QuizAttempt
========================================================================
