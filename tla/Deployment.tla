---- MODULE Deployment ----
(***************************************************************************)
(* main.run step by step, for every replica of the deployment.  Enrollment *)
(* and Migrations say what the steps do.                                   *)
(***************************************************************************)
EXTENDS Faults

\* EnsureEnrollment stores a certificate, its key and the authorities.  Opening a
\* file truncates it; a second step fills it.
Writing == {"open cert", "fill cert", "open key", "fill key", "open ca", "fill ca"}

\* The statements of ApplyMigrations, which are in one transaction.
Migrating == {"ensure", "wait for table", "check", "apply", "record", "commit"}

\* NewClient loads the files; then requests are served.
Migrated == {"load", "load ca", "serving"}

Stages == {"down", "stat", "enroll"} \cup Writing \cup Migrating \cup Migrated

CONSTANT Replicas   \* one by default; more with replicaCount or a rolling update
VARIABLE stage      \* what each of them is about to do

deployment == <<stage, faults>>

AllDown == FaultsInit /\ stage \in [Replicas -> {"down"}]

Proceed(r, step) == stage' = [stage EXCEPT ![r] = step]

\* A replica that is down, because it has not run yet or because it ended with an
\* error, is started and looks first whether it has enrolled.
Start(r) == stage[r] = "down" /\ Proceed(r, "stat") /\ NoFault
====
