--------------------------- MODULE MigrationGuard ---------------------------
(***************************************************************************)
(* The gate in front of `prisma migrate deploy` (safe-prisma-migrate.cjs): *)
(* what it reads from the environment, what the two connections it opens   *)
(* answer, and whether it launches the migration.                          *)
(***************************************************************************)
EXTENDS Naturals

Blank == "blank"
Hosts == {"qa", "prod"}
Databases == {"app", "postgres"}
Schemas == {"public", "other"}
Restricted == {"postgres"}      \* RESTRICTED_DATABASE_NAMES

(* A parsed URL, and what parseConnectionTarget makes of a bad one.  The   *)
(* port goes with the host.                                                *)
Targets == [host : Hosts, database : Databases, schema : Schemas]
Invalid == [host |-> Blank, database |-> Blank, schema |-> Blank]

(* What a server reports of a connection; server is none when              *)
(* inet_server_addr() is null.                                             *)
Identities == [database : Databases, schema : {"public"}, server : {"s1", "s2", "none"}]
Unreachable == [database |-> Blank, schema |-> Blank, server |-> "none"]

TargetsEqual(a, b) == a = b

DeclarationsAgree(env) ==
    /\ env.expectedHost # Blank /\ env.expectedDatabase # Blank
    /\ env.runtime # Invalid /\ env.migration # Invalid
    /\ TargetsEqual(env.runtime, env.migration)
    /\ env.migration.host = env.expectedHost
    /\ env.migration.database = env.expectedDatabase
    /\ env.migration.database \in Restricted => env.production

IdentitiesAgree(env, runtime, migration) ==
    /\ runtime # Unreachable /\ migration # Unreachable
    /\ runtime.database = env.expectedDatabase
    /\ migration.database = env.expectedDatabase
    /\ runtime.schema = env.migration.schema
    /\ migration.schema = env.migration.schema
    /\ runtime.server # "none"
    /\ runtime.server = migration.server

(* runMigrationGuard: whether spawnMigrate is called.                      *)
RunMigrationGuard(env, runtime, migration) ==
    DeclarationsAgree(env) /\ IdentitiesAgree(env, runtime, migration)

(* Both URLs resolve to anything: a stale DNS entry, a load balancer.      *)
Environments ==
    [expectedHost : {"prod", Blank}, expectedDatabase : Databases \cup {Blank},
     runtime : Targets \cup {Invalid}, migration : Targets \cup {Invalid},
     production : BOOLEAN]

Inputs ==
    [env : Environments, runtime : Identities \cup {Unreachable},
     migration : Identities \cup {Unreachable}]

(* A migration changes the database and schema the application uses, on    *)
(* the very server it is connected to, whatever the two URLs say, and it   *)
(* is the one the operator named.                                          *)
MigratesWhatTheAppUses(input) ==
    RunMigrationGuard(input.env, input.runtime, input.migration) =>
      /\ input.migration = input.runtime
      /\ input.migration.server # "none"
      /\ input.migration.database = input.env.expectedDatabase
      /\ input.env.production \/ input.migration.database \notin Restricted

=============================================================================
