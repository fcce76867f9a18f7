--------------------------- MODULE MCPgConnection ---------------------------
(* Instances of PgConnection for TLC. *)
EXTENDS PgConnection

\* A server that cannot do TLS offers no channel binding, and the other
\* fields are constant where nothing depends on them.
mcSetups ==
    {s \in Setup :
        /\ ~s.tls => s.hash /\ Plus \notin s.mechanisms
        /\ s.method # "sasl" => s.mechanisms = {Plain}
        /\ s.method \in {"trust", "unsupported"} => s.password}
=============================================================================
