--------------------------- MODULE MCDbBootstrap ---------------------------
(* Instances of DbBootstrap for TLC. *)
EXTENDS DbBootstrap, TLC

\* V1 to V4; V2 and V3 create no table.
mcMigrations == << <<"direct_messages", "s3_file_uploads">>, <<>>, <<>>, <<"dlq_fallback">> >>
=============================================================================
