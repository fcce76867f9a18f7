---------------------------- MODULE PgConnection ----------------------------
(***************************************************************************)
(* The bootstrap lambda's one connection to PostgreSQL: the driver pg8000  *)
(* (sockets, TLS, login, simple queries, close), the client side of SCRAM  *)
(* in scramp, and the lambda's loop over its commands.  The server and the *)
(* network are external.                                                   *)
(*                                                                         *)
(* A message is a tuple whose first element is its type.  The commands are *)
(* 1..LastCommand.                                                         *)
(***************************************************************************)
EXTENDS Naturals, Sequences

CONSTANTS
    LastCommand, \* commands of the lambda
    Setups       \* configurations of the server, see Setup

ASSUME LastCommandAssumption == LastCommand \in Nat

VARIABLES
    pc,       \* what the client is doing
    stage,    \* stage of its ScramClient
    binding,  \* has it a channel binding?
    current,  \* the command it has issued last
    returned, \* commands whose run has returned
    error,    \* context.error of the run
    setup,    \* the server's configuration
    server,   \* what the server process of this connection is doing
    link,     \* the TCP connection: none, up or broken
    toServer, \* messages on their way to the server
    toClient, \* messages on their way to the client
    executed  \* commands the server has committed, in order

clientVars == <<pc, stage, binding, current, returned, error>>
serverVars == <<setup, server, executed>>
vars == <<pc, stage, binding, current, returned, error, setup, server, link,
          toServer, toClient, executed>>

-----------------------------------------------------------------------------
Plain == "SCRAM-SHA-256"
Plus == "SCRAM-SHA-256-PLUS"

\* tls: it accepts TLS.  hash: hashlib knows the hash of its certificate.
\* mechanisms: what it offers.  password: the client's password is right.
Setup == [tls : BOOLEAN, hash : BOOLEAN, password : BOOLEAN,
          method : {"trust", "password", "sasl", "unsupported"},
          mechanisms : {{Plain}, {Plain, Plus}}]

ASSUME SetupsAssumption == Setups \subseteq Setup

Init ==
    /\ pc = "new" /\ stage = "none" /\ binding = FALSE
    /\ current = 0 /\ returned = 0 /\ error = FALSE
    /\ setup \in Setups
    /\ server = "none" /\ link = "none"
    /\ toServer = <<>> /\ toClient = <<>> /\ executed = <<>>

-----------------------------------------------------------------------------
(***************************************************************************)
(* The client.  A write whose message is lost is one that failed, or that  *)
(* filled a buffer only; a read that follows fails.                        *)
(***************************************************************************)
Send(messages) ==
    /\ toServer' = IF link = "up" THEN toServer \o messages ELSE toServer
    /\ UNCHANGED link

Receives(type) == toClient # <<>> /\ Head(toClient)[1] = type

Consume == toClient' = Tail(toClient)

\* Faulty variant: the socket is left open, for a finalizer that never runs.
CloseNot == UNCHANGED <<link, toServer>>

\* close(): Terminate, then the socket.
Close == Send(<<<<"terminate">>, <<"eof">>>>)

\* An exception leaves the constructor or run; both end in close().  An
\* exception of close() itself replaces it.
Raise ==
    /\ pc' = "failed"
    /\ Close
    /\ UNCHANGED <<stage, binding, current, returned, error>>

ConnectFails ==
    /\ pc = "new"
    /\ pc' = "failed"
    /\ UNCHANGED <<stage, binding, current, returned, error, serverVars, link, toServer, toClient>>

\* socket.create_connection, then the request for TLS.
Connect ==
    /\ pc = "new"
    /\ pc' = "ssl"
    /\ link' = "up" /\ server' = "negotiating"
    /\ toServer' = <<<<"ssl_request">>>>
    /\ UNCHANGED <<stage, binding, current, returned, error, setup, executed, toClient>>

StartUp ==
    /\ pc' = "login"
    /\ Send(<<<<"startup">>>>)
    /\ UNCHANGED <<stage, current, returned, error, serverVars>>

\* "S": TLS handshake, and the binding to the server's certificate.
Secured ==
    /\ pc = "ssl" /\ Receives("S") /\ setup.hash
    /\ binding' = TRUE
    /\ Consume
    /\ StartUp

\* Any other answer: with ssl_context None the client goes on without TLS,
\* also after the empty answer of a connection that is closed.
Unsecured ==
    /\ pc = "ssl"
    /\ \/ Receives("N") /\ Consume
       \/ Receives("eof") /\ UNCHANGED toClient
    /\ binding' = FALSE
    /\ StartUp

\* No answer in time, a failed handshake, an unknown hash: there is no
\* connection object to close yet, and the socket goes with its last reference.
NegotiationFails ==
    /\ pc = "ssl"
    /\ pc' = "failed"
    /\ Send(<<<<"eof">>>>)
    /\ UNCHANGED <<stage, binding, current, returned, error, serverVars, toClient>>

-----------------------------------------------------------------------------
(***************************************************************************)
(* The constructor's loop: messages are handled up to ReadyForQuery or an  *)
(* error.                                                                  *)
(***************************************************************************)
Strength == [m \in {Plain, Plus} |-> IF m = Plus THEN 3 ELSE 2]

\* Mechanisms with channel binding are for clients that have one.
Suitable(mechanisms) == {m \in mechanisms : binding \/ m # Plus}

\* Faulty variant: the list is sorted, and its first element taken.
WeakestMechanism(mechanisms) ==
    CHOOSE m \in Suitable(mechanisms) :
        \A n \in Suitable(mechanisms) : Strength[m] <= Strength[n]

Mechanism(mechanisms) ==
    CHOOSE m \in Suitable(mechanisms) :
        \A n \in Suitable(mechanisms) : Strength[n] <= Strength[m]

\* What the client says of channel binding: it needs it ("p"), could do
\* without what the server seems to lack ("y"), or has none ("n").
Gs2Flag(mechanism) ==
    IF ~binding THEN "n" ELSE IF mechanism = Plus THEN "p" ELSE "y"

LoginStep == UNCHANGED <<pc, binding, current, returned, error, serverVars>>

LoginPassword ==
    /\ pc = "login" /\ Receives("password_request")
    /\ Consume
    /\ Send(<<<<"password">>>>)
    /\ UNCHANGED stage
    /\ LoginStep

\* AuthenticationSASL: get_client_first.
LoginSASL ==
    /\ pc = "login" /\ Receives("sasl") /\ stage = "none"
    /\ LET m == Mechanism(Head(toClient)[2])
       IN  Send(<<<<"client_first", m, Gs2Flag(m)>>>>)
    /\ stage' = "get_client_first"
    /\ Consume
    /\ LoginStep

\* AuthenticationSASLContinue: set_server_first, get_client_final.
LoginSASLContinue ==
    /\ pc = "login" /\ Receives("server_first") /\ stage = "get_client_first"
    /\ Send(<<<<"client_final">>>>)
    /\ stage' = "get_client_final"
    /\ Consume
    /\ LoginStep

\* AuthenticationSASLFinal: set_server_final.
LoginSASLFinal ==
    /\ pc = "login" /\ Receives("server_final") /\ stage = "get_client_final"
    /\ stage' = "set_server_final"
    /\ Consume
    /\ UNCHANGED <<link, toServer>>
    /\ LoginStep

\* AuthenticationOk, ParameterStatus, BackendKeyData, NoticeResponse.
LoginInfo ==
    /\ pc = "login" /\ Receives("info")
    /\ Consume
    /\ UNCHANGED <<stage, link, toServer>>
    /\ LoginStep

LoginReady ==
    /\ pc = "login" /\ Receives("ready")
    /\ pc' = "idle"
    /\ Consume
    /\ UNCHANGED <<stage, binding, current, returned, error, serverVars, link, toServer>>

\* ErrorResponse, or a method that pg8000 does not support.
LoginRefused ==
    /\ pc = "login" /\ (Receives("error") \/ Receives("unsupported"))
    /\ Consume
    /\ Raise
    /\ UNCHANGED serverVars

-----------------------------------------------------------------------------
(***************************************************************************)
(* The lambda's loop, and run: one Query message, then messages are        *)
(* handled up to ReadyForQuery.                                            *)
(***************************************************************************)
\* Faulty variant: off by one.
RunOneMore ==
    /\ pc = "idle" /\ current <= LastCommand
    /\ pc' = "running"
    /\ current' = current + 1
    /\ error' = FALSE
    /\ Send(<<<<"query", current + 1>>>>)
    /\ UNCHANGED <<stage, binding, returned, serverVars, toClient>>

Run ==
    /\ pc = "idle" /\ current < LastCommand
    /\ pc' = "running"
    /\ current' = current + 1
    /\ error' = FALSE
    /\ Send(<<<<"query", current + 1>>>>)
    /\ UNCHANGED <<stage, binding, returned, serverVars, toClient>>

\* Faulty variant: CommandComplete ends the loop.
RunCompleteIsEnough ==
    /\ pc = "running" /\ Receives("complete")
    /\ Consume
    /\ pc' = "idle"
    /\ returned' = returned + 1
    /\ UNCHANGED <<stage, binding, current, error, serverVars, link, toServer>>

\* CommandComplete and NoticeResponse; a row, if there were one, is the same.
RunComplete ==
    /\ pc = "running" /\ (Receives("complete") \/ Receives("info"))
    /\ Consume
    /\ UNCHANGED <<clientVars, serverVars, link, toServer>>

RunError ==
    /\ pc = "running" /\ Receives("error")
    /\ error' = TRUE
    /\ Consume
    /\ UNCHANGED <<pc, stage, binding, current, returned, serverVars, link, toServer>>

\* Faulty variant: ReadyForQuery ends run, whatever came before.
RunReadyUnchecked ==
    /\ pc = "running" /\ Receives("ready")
    /\ pc' = "idle"
    /\ returned' = returned + 1
    /\ Consume
    /\ UNCHANGED <<stage, binding, current, error, serverVars, link, toServer>>

RunReady ==
    /\ pc = "running" /\ Receives("ready") /\ ~error
    /\ pc' = "idle"
    /\ returned' = returned + 1
    /\ Consume
    /\ UNCHANGED <<stage, binding, current, error, serverVars, link, toServer>>

RunRefused ==
    /\ pc = "running" /\ Receives("ready") /\ error
    /\ Consume
    /\ Raise
    /\ UNCHANGED serverVars

\* Faulty variant: a run that hears nothing sends its command once more.
ReadAgain ==
    /\ pc = "running"
    /\ Send(<<<<"query", current>>>>)
    /\ UNCHANGED <<clientVars, serverVars, toClient>>

\* A read ends after the timeout of 10 seconds, or at once when the
\* connection is closed or reset.
ReadFails ==
    /\ pc \in {"login", "running"}
    /\ Raise
    /\ UNCHANGED <<serverVars, toClient>>

\* All commands have run: close(), in the finally clause of the handler.
Finish ==
    /\ pc = "idle" /\ current = LastCommand
    /\ pc' = "succeeded"
    /\ Close
    /\ UNCHANGED <<stage, binding, current, returned, error, serverVars, toClient>>

\* close() raises: the handler fails although every command has run.
FinishFails ==
    /\ pc = "idle" /\ current = LastCommand /\ link = "broken"
    /\ Raise
    /\ UNCHANGED <<serverVars, toClient>>

ClientNext ==
    \/ ConnectFails \/ Connect \/ Secured \/ Unsecured \/ NegotiationFails
    \/ LoginPassword \/ LoginSASL \/ LoginSASLContinue \/ LoginSASLFinal
    \/ LoginInfo \/ LoginReady \/ LoginRefused
    \/ Run \/ RunComplete \/ RunError \/ RunReady \/ RunRefused \/ ReadFails
    \/ Finish \/ FinishFails

-----------------------------------------------------------------------------
(***************************************************************************)
(* PostgreSQL's process for this connection, and the network.              *)
(***************************************************************************)
Reads(type) == toServer # <<>> /\ Head(toServer)[1] = type

Reply(state, messages) ==
    /\ server' = state
    /\ toServer' = Tail(toServer)
    /\ toClient' = IF link = "up" THEN toClient \o messages ELSE toClient
    /\ UNCHANGED <<clientVars, setup, link, executed>>

Refuse == Reply("gone", <<<<"error">>, <<"eof">>>>)
LogIn(messages) == Reply("idle", messages \o <<<<"info">>, <<"ready">>>>)

ServerSSL ==
    /\ server = "negotiating" /\ Reads("ssl_request")
    /\ Reply("startup", <<<<IF setup.tls THEN "S" ELSE "N">>>>)

ServerStartup ==
    /\ server = "startup" /\ Reads("startup")
    /\ \/ setup.method = "trust" /\ LogIn(<<>>)
       \/ setup.method = "password" /\ Reply("password", <<<<"password_request">>>>)
       \/ setup.method = "sasl" /\ Reply("sasl_first", <<<<"sasl", setup.mechanisms>>>>)
       \/ setup.method = "unsupported" /\ Reply("password", <<<<"unsupported">>>>)

\* Too many connections, an unknown database, a host that may not connect.
ServerRefuses == server = "startup" /\ Reads("startup") /\ Refuse

ServerPassword ==
    /\ server = "password" /\ Reads("password")
    /\ IF setup.password THEN LogIn(<<>>) ELSE Refuse

\* "p" with the mechanism that binds; otherwise "n", or "y" if the server did
\* not offer it.
Accepts(mechanism, flag) ==
    /\ mechanism \in setup.mechanisms
    /\ IF mechanism = Plus THEN flag = "p"
       ELSE flag = "n" \/ (flag = "y" /\ Plus \notin setup.mechanisms)

ServerFirst ==
    /\ server = "sasl_first" /\ Reads("client_first")
    /\ IF Accepts(Head(toServer)[2], Head(toServer)[3])
       THEN Reply("sasl_final", <<<<"server_first">>>>)
       ELSE Refuse

ServerFinal ==
    /\ server = "sasl_final" /\ Reads("client_final")
    /\ IF setup.password THEN LogIn(<<<<"server_final">>>>) ELSE Refuse

ServerQuery ==
    /\ server = "idle" /\ Reads("query")
    /\ server' = "executing"
    /\ UNCHANGED <<clientVars, setup, link, toServer, toClient, executed>>

\* The command commits, maybe after long waits for locks, and with a notice.
ServerCommits ==
    /\ server = "executing"
    /\ server' = "idle"
    /\ executed' = Append(executed, Head(toServer)[2])
    /\ toServer' = Tail(toServer)
    /\ \E notices \in {<<>>, <<<<"info">>>>} :
          toClient' = IF link = "up"
                      THEN toClient \o notices \o <<<<"complete", Head(toServer)[2]>>, <<"ready">>>>
                      ELSE toClient
    /\ UNCHANGED <<clientVars, setup, link>>

ServerRefusesCommand ==
    /\ server = "executing"
    /\ Reply("idle", <<<<"error">>, <<"ready">>>>)

\* Terminate, or the end of the stream.
ServerEnds ==
    /\ server \notin {"none", "executing", "gone"}
    /\ Reads("terminate") \/ Reads("eof")
    /\ Reply("gone", <<<<"eof">>>>)

\* The database is stopped (and says so, to a client that has started up), or
\* it crashes.
ServerStops ==
    /\ server \notin {"none", "gone"}
    /\ server' = "gone"
    /\ \E last \in IF server \in {"negotiating", "startup"} THEN {<<>>} ELSE {<<>>, <<<<"error">>>>} :
          toClient' = IF link = "up" THEN toClient \o last \o <<<<"eof">>>> ELSE toClient
    /\ UNCHANGED <<clientVars, setup, link, toServer, executed>>

\* The connection breaks; what is on its way is lost, but for a command
\* that the server has read.
Break ==
    /\ link = "up"
    /\ link' = "broken"
    /\ toClient' = <<>>
    /\ toServer' = IF server = "executing" THEN <<Head(toServer)>> ELSE <<>>
    /\ UNCHANGED <<clientVars, serverVars>>

\* The server's keepalives find out.
ServerNotices ==
    /\ link = "broken" /\ server \notin {"none", "executing", "gone"}
    /\ server' = "gone"
    /\ UNCHANGED <<clientVars, setup, link, toServer, toClient, executed>>

ServerNext ==
    \/ ServerSSL \/ ServerStartup \/ ServerRefuses \/ ServerPassword
    \/ ServerFirst \/ ServerFinal
    \/ ServerQuery \/ ServerCommits \/ ServerRefusesCommand
    \/ ServerEnds \/ ServerNotices

Next == ClientNext \/ ServerNext \/ ServerStops \/ Break

Spec == Init /\ [][Next]_vars

\* Every read of the client ends, by its timeout at the latest; the server
\* works off what it receives, and its commands end.
FairSpec == Spec /\ WF_vars(ClientNext) /\ WF_vars(ServerNext)

-----------------------------------------------------------------------------
TypeOK ==
    /\ pc \in {"new", "ssl", "login", "idle", "running", "succeeded", "failed"}
    /\ stage \in {"none", "get_client_first", "get_client_final", "set_server_final"}
    /\ binding \in BOOLEAN /\ error \in BOOLEAN
    /\ current \in 0..LastCommand /\ returned \in 0..LastCommand
    /\ setup \in Setups
    /\ server \in {"none", "negotiating", "startup", "password", "sasl_first", "sasl_final",
                   "idle", "executing", "gone"}
    /\ link \in {"none", "up", "broken"}

Answers == {k \in DOMAIN toClient : toClient[k][1] \in {"complete", "ready"}}

\* Client and server keep step.  When a run returns, or the constructor, the
\* server owes no more answers and has no command left; and while a run
\* waits, what arrives is about its own command.
Synchronised ==
    /\ pc = "idle" => Answers = {} /\ toServer = <<>> /\ server \in {"idle", "gone"}
    /\ pc = "running" =>
          \A k \in DOMAIN toClient :
              toClient[k][1] = "complete" => toClient[k][2] = current

\* SCRAM: whatever the server offers and whether there is TLS, the mechanism
\* and flag that the client picks are ones the server accepts, and each SASL
\* message of the server finds the ScramClient in the stage that takes it.
ScramAgrees ==
    /\ \A k \in DOMAIN toServer :
          toServer[k][1] = "client_first" => Accepts(toServer[k][2], toServer[k][3])
    /\ pc = "login" =>
          /\ Receives("sasl") => stage = "none" /\ Suitable(Head(toClient)[2]) # {}
          /\ Receives("server_first") => stage = "get_client_first"
          /\ Receives("server_final") => stage = "get_client_final"

\* The connection is as good as CommandChannel, whatever breaks when.
Channel == INSTANCE CommandChannel WITH
    issued <- current,
    outcome <- IF pc \in {"succeeded", "failed"} THEN pc ELSE "open"

ImplementsChannel == Channel!Spec

\* What each state of the server waits for.
Awaited ==
    { <<"negotiating", "ssl_request">>, <<"startup", "startup">>, <<"password", "password">>,
      <<"sasl_first", "client_first">>, <<"sasl_final", "client_final">>, <<"idle", "query">> }

ServerCanGoOn ==
    \/ server = "executing"
    \/ /\ server \notin {"none", "gone"}
       /\ \/ link = "broken"
          \/ /\ toServer # <<>>
             /\ \/ <<server, Head(toServer)[1]>> \in Awaited
                \/ Head(toServer)[1] \in {"terminate", "eof"}

\* What the client reads in each of its states; at the end of the stream it
\* goes on without TLS, or gives up.
Handled ==
    [ ssl |-> {"S", "N", "eof"},
      login |-> {"password_request", "sasl", "server_first", "server_final", "info", "ready",
                 "error", "unsupported", "eof"},
      running |-> {"complete", "info", "error", "ready", "eof"} ]

ClientCanGoOn ==
    /\ pc \in {"ssl", "login", "running"}
    /\ toClient # <<>> /\ Head(toClient)[1] \in Handled[pc]

\* While the connection is up, client and server never wait for each other,
\* nor for a message that is not for them: the timeouts are for what is lost or
\* takes long.  And once the client has gone, from whatever point of login or
\* run, its server process is not left waiting: it is at work, hears of the
\* end, or has lost the connection.
NeverStuck ==
    /\ pc \in {"ssl", "login", "running"} /\ link = "up" => ClientCanGoOn \/ ServerCanGoOn
    /\ pc \in {"succeeded", "failed"} => server \in {"none", "gone"} \/ ServerCanGoOn

\* How much there is left to happen: commands to run, a command on its way,
\* what client and server have still to do, and messages to be read, where an
\* answer of the client's weighs less than the question.
ServerLeft ==
    [state \in {"none", "negotiating", "startup", "password", "sasl_first", "sasl_final",
                "idle", "executing", "gone"} |->
        CASE state = "negotiating" -> 60
          [] state = "startup" -> 50
          [] state \in {"password", "sasl_first"} -> 40
          [] state = "sasl_final" -> 30
          [] state = "idle" -> 20
          [] state = "executing" -> 19
          [] state \in {"none", "gone"} -> 0]

ClientLeft ==
    [state \in {"new", "ssl", "login", "idle", "running", "succeeded", "failed"} |->
        CASE state = "new" -> 80
          [] state = "ssl" -> 10
          [] state \in {"login", "idle", "running"} -> 5
          [] state \in {"succeeded", "failed"} -> 0]

Left ==
    20 * (LastCommand - current) + ClientLeft[pc] + ServerLeft[server]
    + (IF link = "up" THEN 1 ELSE 0)
    + (IF \E k \in DOMAIN toServer : toServer[k][1] = "query" THEN 10 ELSE 0)
    + Len(toServer) + 2 * Len(toClient)

\* Every step, also one that fails, brings the connection nearer to its end:
\* nothing is sent a second time, and no exchange of messages goes on for
\* ever, whatever the server answers.
CountsDown == [][Left' < Left]_vars

\* The lambda ends, and the server process of its connection does not outlive
\* it for ever: no session is left holding locks.
SessionEnds == <>[](pc \in {"succeeded", "failed"} /\ server \in {"none", "gone"})
=============================================================================
