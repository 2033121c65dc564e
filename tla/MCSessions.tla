----------------------------- MODULE MCSessions -----------------------------
(* Small instances of Sessions for TLC. *)
EXTENDS Sessions, TLC

CONSTANTS u1, c1, c2

\* Two devices of one user.
OneUser == [c \in Client |-> u1]
=============================================================================
