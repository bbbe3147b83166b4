-------------------------- MODULE MCCircuitBreaker --------------------------
(* Model-checking instances of CircuitBreaker: a chat chain of a paid       *)
(* profile, its backup and a local one, and an embedding chain.             *)
EXTENDS CircuitBreaker, TLC

CONSTANTS paid, backup, local, m1, m2, m3, t1, t2

AllProfiles == {paid, backup, local}
MCRoute == [chat |-> <<paid, backup, local>>, embeddings |-> <<backup, local>>]
OwnModels == paid :> m1 @@ backup :> m2 @@ local :> m3

\* As shipped: premium_answer_backup and reasoning_backup are both gpt-4.1.
SharedModel == paid :> m1 @@ backup :> m1 @@ local :> m2

NoBackupKey == {paid, local}

TwoThreads == {t1, t2}
=============================================================================
