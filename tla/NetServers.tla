----------------------------- MODULE NetServers -----------------------------
(***************************************************************************)
(* écouter and arrêter of a ServeurTCP, a ServeurHTTP or a ServeurCanal,   *)
(* and what a request meets on its way: routes, middlewares, the response, *)
(* the passage to a Canal.  A callback may call any method.                *)
(***************************************************************************)
EXTENDS CanalLoop

CONSTANTS
    Middlewares,       \* how many avant has added
    KeptAfterFailure   \* whether a kept response is used after écouter failed

VARIABLES
    protocol,  \* what the server of this life is: "tcp", "http", "canal", or "none"
    server,    \* the server's state: its descriptor and its stopped flag
    writers,   \* the HttpResponseWriterStates made so far, which a program may keep
    answers,   \* per connection, the writers that have answered on it, 0 for none
    client     \* the TcpConnectionState or UdpSocketState the program holds

serverVars == <<server, writers, answers, client>>
netVars == <<stack, raising, table, conns, broken, calls, canal, peer, heard, protocol,
             server, writers, answers, client>>

NoServer == [fd |-> None, stopped |-> FALSE, failed |-> FALSE]
NoSocket == [fd |-> None, closed |-> FALSE]

-----------------------------------------------------------------------------
(* écouter and arrêter. *)

\* A call of écouter: its locals listen_fd and active_client_fd, what run_chain
\* knows of the request, and the connections it has taken.
Ecoute(fd) == [kind |-> "listen", at |-> "accept", fd |-> fd, client |-> None, taken |-> {},
               writer |-> 0, index |-> 1, proceeded |-> FALSE, routed |-> FALSE]
Ecoutes == {i \in DOMAIN stack : stack[i].kind = "listen"}

\* A socket listens, and the server's flag and descriptor are set for this call.
\* If none can be made to listen, every one that was opened is closed again.  The
\* program of an instance calls it outside of any callback, with the descriptor of
\* its last call closed.
Ecouter ==
    /\ MayCall /\ protocol # "none" /\ Counted
    /\ Natives = {} /\ server.fd = None
    /\ \/ UNCHANGED <<stack, table, server>>
       \/ /\ Unused # {}
          /\ table' = [table EXCEPT ![Lowest] = Listening]
          /\ server' = [server EXCEPT !.fd = Lowest, !.stopped = FALSE]
          /\ stack' = Append(stack, Ecoute(Lowest))
    /\ UNCHANGED <<raising, conns, broken, canalVars, protocol, writers, answers, client>>

\* Mutant: the descriptor is closed and kept.
Arreter_Keeps ==
    /\ Running /\ protocol # "none"
    /\ server' = [server EXCEPT !.stopped = TRUE]
    /\ table' = Closing(server.fd)
    /\ UNCHANGED <<stack, raising, calls, conns, broken, canalVars, protocol, writers, answers, client>>

\* arrêter: calling it again changes nothing.
Arreter ==
    /\ Running /\ protocol # "none"
    /\ server' = [server EXCEPT !.stopped = TRUE, !.fd = None]
    /\ table' = Closing(server.fd)
    /\ UNCHANGED <<stack, raising, calls, conns, broken, canalVars, protocol, writers, answers, client>>

\* accept gives a connection.  A TCP one is handed to the callback at once.
AcceptClient ==
    /\ At("listen", "accept") /\ ~server.stopped
    /\ table[Top.fd] = Listening
    /\ \E fd \in Fds :
          /\ Connects(fd)
          /\ answers' = Append(answers, <<>>)
          /\ IF protocol = "tcp"
             THEN /\ client.fd = None
                  /\ client' = [fd |-> fd, closed |-> FALSE]
                  /\ stack' = Calls([Top EXCEPT !.at = "connected"], "connection")
             ELSE /\ stack' = Goes([Top EXCEPT !.at = "request", !.client = fd,
                                               !.taken = @ \cup {conns + 1}])
                  /\ UNCHANGED client
    /\ UNCHANGED <<raising, calls, canalVars, protocol, server, writers>>

\* The callback has returned, and écouter keeps nothing of the connection.
AfterConnection ==
    /\ At("listen", "connected")
    /\ stack' = Goes([Top EXCEPT !.at = "accept"])
    /\ UNCHANGED <<raising, calls, socketVars, canalVars, protocol, serverVars>>

\* It fails, and not because of a stop: the error leaves écouter.
AcceptFails ==
    /\ At("listen", "accept") /\ ~server.stopped
    /\ raising' = "network"
    /\ UNCHANGED <<stack, calls, socketVars, canalVars, protocol, serverVars>>

\* The while condition: stopped, in a callback or during accept.
StopListening ==
    /\ At("listen", "accept") /\ server.stopped
    /\ stack' = Front(stack)
    /\ table' = Closing(server.fd)
    /\ server' = [server EXCEPT !.fd = None]
    /\ UNCHANGED <<raising, calls, conns, broken, canalVars, protocol, writers, answers, client>>

\* An exception leaves écouter: the client's descriptor is closed, the listening
\* one is not.
UnwindListen ==
    /\ raising # "nothing" /\ stack # <<>> /\ Top.kind = "listen"
    /\ stack' = Front(stack)
    /\ raising' = AfterMethod
    /\ IF Top.at = "connected"
       THEN table' = Closing(client.fd) /\ client' = [fd |-> None, closed |-> TRUE]
       ELSE table' = Closing(Top.client) /\ UNCHANGED client
    /\ server' = [server EXCEPT !.failed = TRUE]
    /\ UNCHANGED <<calls, conns, broken, canalVars, protocol, writers, answers>>

-----------------------------------------------------------------------------
(* A request and its response. *)

\* A response, from this writer or from none, reaches the connection on fd.
Answered(fd, by) ==
    IF fd = None \/ table[fd] \in {None, Listening} THEN answers
    ELSE [answers EXCEPT ![table[fd]] = Append(@, by)]

\* send_all of a response by a native: a failure is an exception.
SendsResponse(fd, by) ==
    \E sent \in SendOutcomes(fd) :
       /\ broken' = Broken(fd, sent)
       /\ answers' = IF sent THEN Answered(fd, by) ELSE answers
       /\ writers' = IF sent /\ by # 0 THEN [writers EXCEPT ![by].sent = TRUE] ELSE writers
       /\ raising' = IF sent THEN "nothing" ELSE "network"

\* The writer of a request on fd, with the connection it was made for.
NewWriter(fd) == [fd |-> fd, sent |-> FALSE, conn |-> table[fd]]

\* recv_http_message or parse_http_request fails: the exception leaves écouter.
RequestFails ==
    /\ At("listen", "request")
    /\ raising' = "network"
    /\ UNCHANGED <<stack, calls, socketVars, canalVars, protocol, serverVars>>

\* A request for a route, or for none, gets a writer and goes through run_chain.
RequestRouted ==
    /\ At("listen", "request") /\ protocol = "http"
    /\ writers' = Append(writers, NewWriter(Top.client))
    /\ \E routed \in BOOLEAN :
          stack' = Goes([Top EXCEPT !.at = "chain", !.writer = Len(writers) + 1, !.index = 1,
                                    !.proceeded = FALSE, !.routed = routed])
    /\ UNCHANGED <<raising, calls, socketVars, canalVars, protocol, server, answers, client>>

\* A request for a Canal that is not a handshake is refused and closed.
RequestRefused ==
    /\ At("listen", "request") /\ protocol \in {"http", "canal"}
    /\ \E sent \in SendOutcomes(Top.client) :
          /\ broken' = Broken(Top.client, sent)
          /\ answers' = IF sent THEN Answered(Top.client, 0) ELSE answers
          /\ raising' = IF sent THEN "nothing" ELSE "network"
          /\ table' = IF sent THEN Closing(Top.client) ELSE table
          /\ stack' = IF sent THEN Goes([Top EXCEPT !.at = "accept", !.client = None]) ELSE stack
    /\ UNCHANGED <<calls, conns, canalVars, protocol, server, writers, client>>

\* A handshake is answered; the descriptor passes to a new client, whose loop
\* runs once the program has been given it.
RequestUpgraded ==
    /\ At("listen", "request") /\ protocol \in {"http", "canal"}
    /\ \E sent \in SendOutcomes(Top.client) :
          /\ broken' = Broken(Top.client, sent)
          /\ raising' = IF sent THEN "nothing" ELSE "network"
          /\ table' = Closing(IF sent THEN canal.fd ELSE None)
          /\ IF ~sent THEN UNCHANGED <<answers, canal, peer, heard, stack>>
             ELSE LET listen == [Top EXCEPT !.at = "upgraded", !.client = None]
                      called == protocol = "http" \/ "connection" \in canal.hooks
                  IN /\ answers' = Answered(Top.client, 0)
                     /\ canal' = NewClient(Top.client)
                     /\ peer' = NewPeer(MaxServed) /\ heard' = NothingHeard
                     /\ stack' = IF called THEN Calls(listen, "client") ELSE Goes(listen)
    /\ UNCHANGED <<calls, conns, protocol, server, writers, client>>

RunsLoop ==
    /\ At("listen", "upgraded")
    /\ stack' = Append(Goes([Top EXCEPT !.at = "looped"]),
                       Loop(IF protocol = "canal" THEN "server" ELSE "http"))
    /\ UNCHANGED <<raising, calls, socketVars, canalVars, protocol, serverVars>>
AfterLoop ==
    /\ At("listen", "looped")
    /\ table' = Closing(canal.fd) /\ canal' = [canal EXCEPT !.fd = None]
    /\ stack' = Goes([Top EXCEPT !.at = "accept"])
    /\ UNCHANGED <<raising, calls, conns, broken, peer, heard, protocol, serverVars>>

\* run_chain: a sent response ends it; the next middleware, which proceeds if it
\* has called suivant; the route's handler; or a 404.
ChainEnds ==
    /\ At("listen", "chain") /\ writers[Top.writer].sent
    /\ stack' = Goes([Top EXCEPT !.at = "answer"])
    /\ UNCHANGED <<raising, calls, socketVars, canalVars, protocol, serverVars>>
CallMiddleware ==
    /\ At("listen", "chain") /\ ~writers[Top.writer].sent
    /\ Top.index <= Middlewares
    /\ stack' = Calls([Top EXCEPT !.at = "middleware", !.proceeded = FALSE], "middleware")
    /\ UNCHANGED <<raising, calls, socketVars, canalVars, protocol, serverVars>>
AfterMiddleware ==
    /\ At("listen", "middleware")
    /\ stack' = Goes(IF Top.proceeded THEN [Top EXCEPT !.at = "chain", !.index = @ + 1]
                     ELSE [Top EXCEPT !.at = "answer"])
    /\ UNCHANGED <<raising, calls, socketVars, canalVars, protocol, serverVars>>
CallHandler ==
    /\ At("listen", "chain") /\ ~writers[Top.writer].sent
    /\ Top.index > Middlewares /\ Top.routed
    /\ stack' = Calls([Top EXCEPT !.at = "answer"], "handler")
    /\ UNCHANGED <<raising, calls, socketVars, canalVars, protocol, serverVars>>
NotFound ==
    /\ At("listen", "chain") /\ ~writers[Top.writer].sent
    /\ Top.index > Middlewares /\ ~Top.routed
    /\ SendsResponse(Top.client, Top.writer)
    /\ stack' = Goes([Top EXCEPT !.at = "answer"])
    /\ UNCHANGED <<calls, table, conns, canalVars, protocol, server, client>>

\* 204 if nobody has answered, and the connection is closed.
Answer ==
    /\ At("listen", "answer")
    /\ IF writers[Top.writer].sent THEN UNCHANGED <<raising, broken, writers, answers>>
       ELSE SendsResponse(Top.client, Top.writer)
    /\ IF raising' = "nothing"
       THEN /\ table' = Closing(Top.client)
            /\ stack' = Goes([Top EXCEPT !.at = "accept", !.client = None])
       ELSE UNCHANGED <<table, stack>>
    /\ UNCHANGED <<calls, conns, canalVars, protocol, server, client>>

\* suivant, called while the middleware it was made for runs.
Suivant ==
    /\ Running
    /\ \E i \in Ecoutes :
          /\ stack[i].at = "middleware"
          /\ \A j \in Ecoutes : j <= i
          /\ stack' = [stack EXCEPT ![i].proceeded = TRUE]
    /\ UNCHANGED <<raising, calls, socketVars, canalVars, protocol, serverVars>>

\* Mutant: a failed check is not an error.
Repondre_Twice ==
    /\ MayCall /\ Counted
    /\ \E by \in DOMAIN writers :
          /\ KeptAfterFailure \/ ~server.failed
          /\ \E sent \in SendOutcomes(writers[by].fd) :
                /\ broken' = Broken(writers[by].fd, sent)
                /\ answers' = IF sent THEN Answered(writers[by].fd, by) ELSE answers
                /\ writers' = [writers EXCEPT ![by].sent = @ \/ sent]
                /\ UNCHANGED raising
    /\ UNCHANGED <<stack, table, conns, canalVars, protocol, server, client>>

\* envoyer, envoyer_json, envoyer_fichier, rediriger, on the response of this
\* request or on one the program has kept: a second answer is a runtime error.
Repondre ==
    /\ MayCall /\ Counted
    /\ \E by \in DOMAIN writers :
          /\ KeptAfterFailure \/ ~server.failed
          /\ IF writers[by].sent
             THEN raising' = "runtime" /\ UNCHANGED <<broken, writers, answers>>
             ELSE \E sent \in SendOutcomes(writers[by].fd) :
                     /\ broken' = Broken(writers[by].fd, sent)
                     /\ answers' = IF sent THEN Answered(writers[by].fd, by) ELSE answers
                     /\ writers' = [writers EXCEPT ![by].sent = sent]
                     /\ UNCHANGED raising
    /\ UNCHANGED <<stack, table, conns, canalVars, protocol, server, client>>

-----------------------------------------------------------------------------
(* A ConnexionTCP or a SocketUDP of the program's. *)

\* TCP.connecter, UDP.ouvrir: the addresses are tried in turn and the descriptor
\* of each that fails is closed, so a failure leaves nothing open.
Connecter ==
    /\ MayCall /\ Counted /\ client.fd = None
    /\ \E fd \in Fds : Connects(fd) /\ client' = [fd |-> fd, closed |-> FALSE]
    /\ answers' = Append(answers, <<>>)
    /\ UNCHANGED <<stack, raising, canalVars, protocol, server, writers>>

\* lire, lire_ligne, lire_octets: the end of the stream marks it closed.
LireFin ==
    /\ MayCall /\ Counted /\ client.fd # None
    /\ client' = [client EXCEPT !.closed = TRUE]
    /\ UNCHANGED <<stack, raising, socketVars, canalVars, protocol, server, writers, answers>>

\* fermer, which does nothing once closed is set, be it by the end of the stream.
FermerClient ==
    /\ MayCall /\ Counted /\ client.fd # None
    /\ IF client.closed THEN UNCHANGED <<table, client>>
       ELSE /\ table' = Closing(client.fd)
            /\ client' = [fd |-> None, closed |-> TRUE]
    /\ UNCHANGED <<stack, raising, conns, broken, canalVars, protocol, server, writers, answers>>

\* The last reference goes: the destructor closes what fermer did not.  The one
\* écouter holds of a connection keeps it until the callback has returned.
DropClient ==
    /\ Running /\ client.fd # None
    /\ ~\E i \in Ecoutes : stack[i].at = "connected"
    /\ table' = Closing(client.fd) /\ client' = NoSocket
    /\ UNCHANGED <<stack, raising, calls, conns, broken, canalVars, protocol, server, writers, answers>>

ServerCalls == Ecouter \/ Arreter \/ Suivant \/ Repondre \/ Connecter \/ LireFin \/ FermerClient
ServerReceives == AcceptClient \/ AcceptFails \/ RequestFails \/ RequestRouted
                  \/ RequestRefused \/ RequestUpgraded
ServerSteps ==
    StopListening \/ UnwindListen \/ AfterConnection \/ RunsLoop \/ AfterLoop \/ ChainEnds \/ CallMiddleware
    \/ AfterMiddleware \/ CallHandler \/ NotFound \/ Answer
=============================================================================
