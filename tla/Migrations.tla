----------------------------- MODULE Migrations -----------------------------
(***************************************************************************)
(* ApplyMigrations: every replica, when it starts, applies the migrations  *)
(* that are not yet recorded, all in one transaction.  If there is more    *)
(* than one, those that start together do so at the same time.             *)
(*                                                                         *)
(* The database runs at READ COMMITTED: a statement sees what is committed *)
(* when it begins, and what its own transaction did.  A migration locks    *)
(* the table it is about, and a primary key admits one row per version; an *)
(* open transaction makes others wait on both.                             *)
(***************************************************************************)
EXTENDS Deployment, SequencesExt

CONSTANTS
    Versions,   \* the migrations in the order of their names
    TableOf     \* the table each of them is about

ASSUME VersionsAssumption ==
    /\ IsInjective(Versions)
    /\ Versions \in Seq(DOMAIN TableOf)

VARIABLES
    ensured,    \* whether the table schema_migrations is there
    recorded,   \* its rows
    applied,    \* history: how often the effects of each migration are committed
    at,         \* the position in Versions each replica has reached
    tx          \* what the open transaction of each replica has done

migrations == <<ensured, recorded, applied, at, tx>>

NotApplied == [v \in ToSet(Versions) |-> 0]
EmptyTx == [created |-> FALSE, applied |-> NotApplied, recorded |-> {}]

\* An earlier release may have left any of the migrations applied, since a file
\* can be added whose name sorts before the names of others.
MigrationsInit ==
    /\ recorded \in SUBSET ToSet(Versions)
    /\ ensured \in BOOLEAN /\ (recorded # {} => ensured)
    /\ applied = [v \in ToSet(Versions) |-> IF v \in recorded THEN 1 ELSE 0]
    /\ at = [r \in Replicas |-> 1]
    /\ tx = [r \in Replicas |-> EmptyTx]

Version(r) == Versions[at[r]]

Forget(r) ==
    /\ at' = [at EXCEPT ![r] = 1]
    /\ tx' = [tx EXCEPT ![r] = EmptyTx]

\* An error rolls back and ends the process, which is started again.
Rollback(r) == Proceed(r, "down") /\ Forget(r) /\ UNCHANGED <<ensured, recorded, applied>>

---------------------------------------------------------------------------

\* CREATE TABLE IF NOT EXISTS.  The loser of a race to create the table waits, and
\* then fails on the catalogue, although the table is there by now.
EnsureTable(r) ==
    /\ stage[r] = "ensure"
    /\ IF ensured
       THEN Proceed(r, "check") /\ UNCHANGED tx
       ELSE IF \E s \in Replicas \ {r} : tx[s].created
       THEN Proceed(r, "wait for table") /\ UNCHANGED tx
       ELSE Proceed(r, "check") /\ tx' = [tx EXCEPT ![r].created = TRUE]
    /\ UNCHANGED <<ensured, recorded, applied, at>>

WaitForTable(r) ==
    /\ stage[r] = "wait for table"
    /\ \A s \in Replicas \ {r} : ~tx[s].created
    /\ IF ensured THEN Rollback(r)
       ELSE /\ Proceed(r, "check") /\ tx' = [tx EXCEPT ![r].created = TRUE]
            /\ UNCHANGED <<ensured, recorded, applied, at>>

\* Variant: a migration counts as applied when a later one is.
CheckHighest(r) ==
    /\ stage[r] = "check"
    /\ IF at[r] > Len(Versions)
       THEN Proceed(r, "commit") /\ UNCHANGED at
       ELSE IF \E i \in at[r]..Len(Versions) : Versions[i] \in recorded \cup tx[r].recorded
       THEN at' = [at EXCEPT ![r] = @ + 1] /\ UNCHANGED stage
       ELSE Proceed(r, "apply") /\ UNCHANGED at
    /\ UNCHANGED <<ensured, recorded, applied, tx>>

\* Variant: only what this transaction has recorded is looked up.
CheckOwnOnly(r) ==
    /\ stage[r] = "check"
    /\ IF at[r] > Len(Versions)
       THEN Proceed(r, "commit") /\ UNCHANGED at
       ELSE IF Version(r) \in tx[r].recorded
       THEN at' = [at EXCEPT ![r] = @ + 1] /\ UNCHANGED stage
       ELSE Proceed(r, "apply") /\ UNCHANGED at
    /\ UNCHANGED <<ensured, recorded, applied, tx>>

\* SELECT EXISTS, for one version after the other.
Check(r) ==
    /\ stage[r] = "check"
    /\ IF at[r] > Len(Versions)
       THEN Proceed(r, "commit") /\ UNCHANGED at
       ELSE IF Version(r) \in recorded \cup tx[r].recorded
       THEN at' = [at EXCEPT ![r] = @ + 1] /\ UNCHANGED stage
       ELSE Proceed(r, "apply") /\ UNCHANGED at
    /\ UNCHANGED <<ensured, recorded, applied, tx>>

\* Some transaction other than r's has changed the table and is still open.
Locked(r, table) ==
    \E s \in Replicas \ {r}, v \in ToSet(Versions) :
        tx[s].applied[v] > 0 /\ TableOf[v] = table

\* By the time the lock is free another replica may have committed the same
\* migration.  Its statements then fail, or have an effect a second time, depending
\* on how they are written.
Apply(r) ==
    /\ stage[r] = "apply"
    /\ ~Locked(r, TableOf[Version(r)])
    /\ \/ /\ tx' = [tx EXCEPT ![r].applied[Version(r)] = @ + 1]
          /\ Proceed(r, "record")
          /\ UNCHANGED <<ensured, recorded, applied, at>>
       \/ applied[Version(r)] > 0 /\ Rollback(r)

\* Variant: a version that is already recorded is no error.
RecordOnce(r) ==
    /\ stage[r] = "record"
    /\ \A s \in Replicas \ {r} : Version(r) \notin tx[s].recorded
    /\ tx' = [tx EXCEPT ![r].recorded = @ \cup {Version(r)}]
    /\ Proceed(r, "check")
    /\ UNCHANGED <<ensured, recorded, applied, at>>

\* The primary key: wait for whoever inserts the same version, and fail if it is there.
Record(r) ==
    /\ stage[r] = "record"
    /\ \A s \in Replicas \ {r} : Version(r) \notin tx[s].recorded
    /\ IF Version(r) \in recorded THEN Rollback(r)
       ELSE /\ tx' = [tx EXCEPT ![r].recorded = @ \cup {Version(r)}]
            /\ Proceed(r, "check")
            /\ UNCHANGED <<ensured, recorded, applied, at>>

\* The answer to the commit can be lost: the process ends, its work stays.
Commit(r) ==
    /\ stage[r] = "commit"
    /\ ensured' = TRUE
    /\ recorded' = recorded \cup tx[r].recorded
    /\ applied' = [v \in ToSet(Versions) |-> applied[v] + tx[r].applied[v]]
    /\ Forget(r)
    /\ \/ NoFault /\ Proceed(r, "load")
       \/ Fault("lost") /\ Proceed(r, "down")

\* Any statement can fail.
FailStatement(r) ==
    /\ stage[r] \in Migrating
    /\ Fault("refused")
    /\ Rollback(r)

ApplyMigrations(r) ==
    \/ /\ EnsureTable(r) \/ WaitForTable(r) \/ Check(r) \/ Apply(r) \/ Record(r)
       /\ NoFault
    \/ Commit(r) \/ FailStatement(r)
=============================================================================
