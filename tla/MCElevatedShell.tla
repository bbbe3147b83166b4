-------------------------- MODULE MCElevatedShell --------------------------
(* Model-checking instances of ElevatedShell. *)
EXTENDS ElevatedShell

CONSTANTS a1, a2, g1, c1, c2, shell_write

MCActionTypes == {shell_write}
OneAction == {c1}
TwoActions == {c1, c2}

\* One admin and one agent, or two admins.
AdminAndAgent == {a1, g1}
OneAdmin == {a1}
TwoAdmins == {a1, a2}
=============================================================================
