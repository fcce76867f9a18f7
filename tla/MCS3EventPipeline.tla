------------------------- MODULE MCS3EventPipeline -------------------------
(* Instances of S3EventPipeline for TLC. *)
EXTENDS S3EventPipeline, TLC

\* Two uploads of "a", one of them with another object, and an event without
\* records, such as S3 sends when a notification is set up.
mcRecordsOf == [e \in Events |-> CASE e = "e1" -> <<"a", "b">>
                                   [] e = "e2" -> <<"a">>
                                   [] e = "test" -> <<>>]
=============================================================================
