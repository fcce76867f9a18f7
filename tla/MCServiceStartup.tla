-------------------------- MODULE MCServiceStartup --------------------------
(* Instances of ServiceStartup for TLC. *)
EXTENDS ServiceStartup, TLC

\* V1 and V4, the migrations that create tables, with one table each.
mcMigrations == << <<"direct_messages">>, <<"dlq_fallback">> >>
=============================================================================
