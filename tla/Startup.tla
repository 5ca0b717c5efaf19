------------------------------ MODULE Startup ------------------------------
(***************************************************************************)
(* main.run: a process enrolls if it has to, applies the migrations, loads *)
(* its credentials and serves; any error ends it, and it is started again. *)
(* Several do so at the same time, on one volume and one database, if the  *)
(* chart's defaults (one replica, updateStrategy Recreate) are changed for *)
(* more replicas or a rolling update.                                      *)
(***************************************************************************)
EXTENDS Enrollment, Migrations

startup == <<deployment, enrollment, migrations>>

StartupInit == AllDown /\ EnrollmentInit /\ MigrationsInit

EnsureEnrollment(r) == certFilesExist(r) \/ enrollIdentity(r) \/ writePEMFile(r)

NewClient(r) == loadClientCredentials(r) \/ loadCAPool(r)

run(r) ==
    \/ Start(r) /\ UNCHANGED <<enrollment, migrations>>
    \/ (EnsureEnrollment(r) \/ NewClient(r)) /\ UNCHANGED migrations
    \/ ApplyMigrations(r) /\ UNCHANGED enrollment

\* The database rolls back what a stopped process has not committed.
Stop(r) ==
    /\ stage[r] # "down"
    /\ Fault("stop")
    /\ Exit(r) /\ Forget(r)
    /\ cut' = (cut \/ stage[r] \in Writing)
    /\ UNCHANGED <<file, offered, spent, ensured, recorded, applied>>

StartupNext ==
    \/ \E r \in Replicas : run(r) \/ Stop(r)
    \/ Reissue /\ UNCHANGED migrations

StartupSpec == StartupInit /\ [][StartupNext]_startup

\* A process is started again when it has ended, and runs; statements that need
\* not wait for a lock are executed.
FairStartup == StartupSpec /\ \A r \in Replicas : WF_startup(run(r))

---------------------------------------------------------------------------
(* Properties                                                              *)

\* Without a lost answer, a failed write, a stop in the middle of the files or a
\* token replaced during an enrollment, the service never gets stuck, however
\* many processes start, stop and enroll at once.
StuckNeedsCut == Stuck => cut

\* Under the same condition a serving process finds usable files whenever it
\* authenticates again, also while others start on the same volume.
ServingCanReauthenticate ==
    ~cut => \A r \in Replicas : stage[r] = "serving" => Usable /\ creds[r] = file["cert"]

\* However many processes start at once, stop and start again, every migration is
\* committed at most once, and together with its record.
AppliedOnce == \A v \in ToSet(Versions) : applied[v] = IF v \in recorded THEN 1 ELSE 0

\* A process serves on the whole schema, also if an earlier release has skipped a
\* migration in the middle.
ServingSeesSchema ==
    \A r \in Replicas : stage[r] = "serving" => recorded = ToSet(Versions)

\* Neither the waits on locks nor the restarts go on for ever: time and again all
\* processes serve, or the files are of no use and nothing but an operator helps.
ServesOrStuck == []<>(Stuck \/ \A r \in Replicas : stage[r] = "serving")
=============================================================================
