------------------------ MODULE DirectMessageClaims ------------------------
(***************************************************************************)
(* What the repository's documents and comments say of the direct-message  *)
(* path, as properties of DirectMessagePipeline.  Each is the subject of a *)
(* run that ends in a counterexample.                                      *)
(***************************************************************************)
EXTENDS MCDirectMessagePipeline

\* docs/faq.md:302 "No Message Loss": what has left the queue is stored or in
\* the DLQ.  onMessage acknowledges a message whose DLQ send was deduplicated.
NoMessageLoss ==
    \A m \in Msgs : mq[m] = "deleted" => Stored(m) \/ dlq[m] > 0

-----------------------------------------------------------------------------
\* No timeout bounds the HTTP calls: RestClientConfig sets none, and nothing
\* applies the time limiter of application.yml.  A lookup may never return.
UnboundedCallsSpec ==
    /\ Spec
    /\ QueueFairness
    /\ \A w \in Workers : WF_vars(pc[w] # "weather" /\ Step(w))

\* docs/architecture.md:139 "10-second timeout per API call", "Prevents
\* indefinite blocking": a message in the queue is taken out of it again.
DeliveryContinues == \A m \in Msgs : mq[m] = "visible" ~> mq[m] # "visible"
=============================================================================
