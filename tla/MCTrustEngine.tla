--------------------------- MODULE MCTrustEngine ---------------------------
(* Model-checking instances of TrustEngine. *)
EXTENDS TrustEngine

CONSTANTS t1, t2, shell_read

MCThreads == {t1, t2}
MCActionTypes == {shell_read}
=============================================================================
