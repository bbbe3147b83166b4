--------------------------- MODULE MCConfigWriter ---------------------------
(* Model-checking instances of ConfigWriter: a file of one or two settings. *)
EXTENDS ConfigWriter, TLC

CONSTANTS domain, proxy, old, new, c1, c2, t1, t2

MCKeys == {domain, proxy}
MCOneKey == {domain}
MCValues == {old, new}
MCInstalled == {[k \in Keys |-> old]}
MCInitials == MCInstalled \cup {Absent}
MCOffered == {Garbled}

MCChanges == {c1, c2}
MCThreads == {t1, t2}
MCOneThread == {t1}
MCSymmetry == Permutations(MCThreads) \cup Permutations(MCChanges)
=============================================================================
