--------------------------- MODULE MCTokenManager ---------------------------
(* A small instance of TokenManager for TLC. *)
EXTENDS TokenManager

CONSTANTS t1, t2, t3

MCTasks == {t1, t2, t3}
\* Shorter than the clamp, shorter than the margin, and long enough to serve.
MCLifetimes == {0, 2, 5}

=============================================================================
