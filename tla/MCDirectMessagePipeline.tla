---------------------- MODULE MCDirectMessagePipeline ----------------------
(* Instances of DirectMessagePipeline for TLC. *)
EXTENDS DirectMessagePipeline, TLC

\* Messages 1 and 2 share a FIFO group, 3 has its own; 3 repeats the messageId
\* of 1, and 2 has none.
mcGroupOf == 1 :> "g1" @@ 2 :> "g1" @@ 3 :> "g2"
mcKeyOf   == 1 :> "a" @@ 2 :> "none" @@ 3 :> "a"

\* Two listener threads in two tasks, as while a deployment is rolling.
mcTaskOf == "w1" :> "t1" @@ "w2" :> "t2"
=============================================================================
