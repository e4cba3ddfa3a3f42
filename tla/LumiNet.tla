------------------------------- MODULE LumiNet ------------------------------
(***************************************************************************)
(* A program that uses LumiNet: a CanalClient it has connected, or a       *)
(* server it may start and stop, with sockets of its own beside them.      *)
(***************************************************************************)
EXTENDS NetServers

CONSTANTS
    Protocols,  \* the servers of the instance, "none" for a CanalClient alone
    HookSets    \* the sets of Canal hooks a program sets
ASSUME BoundsAssumption ==
    /\ MaxFds \in Nat \ {0} /\ MaxConns \in Nat \ {0} /\ MaxCalls \in Nat /\ MaxDepth \in Nat
    /\ MaxFrames \in Nat /\ MaxServed \in Nat /\ MaxUnits \in Nat /\ Middlewares \in Nat
    /\ KeptAfterFailure \in BOOLEAN

Init ==
    /\ protocol \in Protocols
    /\ SocketsInit(IF protocol = "none" THEN 1 ELSE 0)
    /\ \E hooks \in HookSets : canal = [NoClient(hooks) EXCEPT !.fd = conns]
    /\ peer = NewPeer(MaxFrames) /\ heard = NothingHeard
    /\ server = NoServer /\ writers = <<>> /\ client = NoSocket
    /\ answers = [c \in 1 .. conns |-> <<>>]

\* A step of the thread that needs no other: the natives and the ends of callbacks.
ThreadSteps == Return \/ UnwindProgram
CanalOnly == CanalCalls \/ CanalReceives \/ CanalSteps

Next ==
    \/ (ThreadSteps \/ Fail) /\ UNCHANGED <<canalVars, protocol, serverVars>>
    \/ CanalOnly /\ UNCHANGED <<protocol, serverVars>>
    \/ ServerCalls \/ ServerReceives \/ ServerSteps \/ DropClient

Spec == Init /\ [][Next]_netVars

\* A native goes on and a callback ends: it is one thread, and a program calls a
\* bounded number of methods.  Nobody has to connect and no peer has to send, but
\* once a peer has ended a read comes back at once.
FairSpec ==
    /\ Spec
    /\ WF_netVars(ThreadSteps /\ UNCHANGED <<canalVars, protocol, serverVars>>)
    /\ WF_netVars(CanalSteps /\ UNCHANGED <<protocol, serverVars>>)
    /\ WF_netVars(peer.ended /\ ReceiveEnd /\ UNCHANGED <<protocol, serverVars>>)
    /\ WF_netVars(ServerSteps)

-----------------------------------------------------------------------------
(* Properties. *)

\* Every variable has its type.
Hooks == ClientHooks \cup ServerHooks \cup {"connection", "client", "middleware", "handler"}
Listeners ==
    [kind : {"listen"},
     at : {"accept", "connected", "request", "upgraded", "looped", "chain", "middleware", "answer"},
     fd : Fds, client : Fds \cup {None}, taken : SUBSET Nat, writer : Nat, index : Nat,
     proceeded : BOOLEAN, routed : BOOLEAN]
Loops ==
    [kind : {"canal"}, by : {"attendre", "server", "http"},
     at : {"open", "read", "deliver", "dispatch", "failing", "failed", "closed", "done"},
     buffer : Seq(Nat), opcode : {"none", "text", "binary"}]
Frames == {Program} \cup [kind : {"callback"}, hook : Hooks] \cup Listeners \cup Loops
Messages == [op : {"none", "text", "binary"}, payload : Seq(Nat)]
TypeOK ==
    /\ SocketsTypeOK /\ stack \in Seq(Frames)
    /\ canal \in [fd : Fds \cup {None}, closed : BOOLEAN, opened : BOOLEAN, hooks : HookSets]
    /\ peer \in [count : Nat, last : Nat, inside : {"none", "text", "binary"}, message : Seq(Nat),
                 messages : Seq(Messages), ended : BOOLEAN]
    /\ heard \in [client : Seq(Messages), over : BOOLEAN, early : BOOLEAN, failed : BOOLEAN]
    /\ server \in [fd : Fds \cup {None}, stopped : BOOLEAN, failed : BOOLEAN]
    /\ client \in [fd : Fds \cup {None}, closed : BOOLEAN]
    /\ writers \in Seq([fd : Fds, sent : BOOLEAN, conn : Kinds])
    /\ answers \in Seq(Seq(Nat)) /\ Len(answers) = conns

\* The complete messages of the other end that have something in them.
Whole == SelectSeq(peer.messages, LAMBDA message : message.payload # <<>>)

\* run_canal_loop, recv_websocket_frame: fragments are put together and control
\* frames between them left out.  quand_message hears messages of the other end,
\* whole, each once and in order; all of them, as long as no loop has failed, when a
\* loop waits for the next frame; whatever runs inside of what.  Once quand_fermé has
\* been called it hears nothing more.
MessagesArrive ==
    /\ \A k \in DOMAIN heard.client :
          /\ heard.client[k] \in Range(Whole)
          /\ k > 1 => heard.client[k - 1].payload[1] < heard.client[k].payload[1]
    /\ At("canal", "read") /\ "message" \in canal.hooks /\ ~heard.failed
       /\ (\A i \in Natives : stack[i].at # "failing")
          => heard.client = Whole
    /\ ~heard.early

\* close_socket_fd and the destructors: every open descriptor belongs to exactly one
\* state that will close it, and no state keeps the number of a descriptor that was
\* closed, which may by now be another socket.  écouter accepts on its own socket.
DescriptorsOwned ==
    LET owners == {<<"server", server.fd>>, <<"client", client.fd>>, <<"canal", canal.fd>>}
                  \cup {<<"request", stack[i].client>> : i \in Ecoutes}
        held == {owner \in owners : owner[2] # None}
    IN /\ TypeOK
       /\ Open = {owner[2] : owner \in held}
       /\ \A one, other \in held : one[2] = other[2] => one = other
       /\ server.fd # None => table[server.fd] = Listening
       /\ \A owner \in held : owner[1] # "server" => table[owner[2]] > 0
       /\ \A i \in Ecoutes : ~server.stopped => stack[i].fd = server.fd

\* send_http_response, run_chain, écouter: a connection gets one response, from the
\* writer made for it, whichever middlewares answer or pass on and whatever response
\* the program has kept; and when écouter waits for the next client, every one
\* before has been answered and closed.
AnsweredOnce ==
    /\ \A c \in 1 .. conns :
          /\ Len(answers[c]) <= 1
          /\ \A k \in DOMAIN answers[c] : answers[c][k] # 0 => writers[answers[c][k]].conn = c
    /\ At("listen", "accept") =>
          \A c \in Top.taken : Len(answers[c]) = 1 /\ \A fd \in Fds : table[fd] # c

\* attendre, arrêter, écouter: once the other end is gone its loops end, and once the
\* server is stopped écouter ends, unless it waits for a peer to say something.
CallsEnd ==
    LET loops == {i \in DOMAIN stack : stack[i].kind = "canal"}
        waits == At("canal", "read") \/ At("listen", "request")
    IN /\ peer.ended ~> loops = {}
       /\ server.stopped ~> ~server.stopped \/ Ecoutes = {} \/ waits
=============================================================================
