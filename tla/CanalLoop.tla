------------------------------ MODULE CanalLoop -----------------------------
(***************************************************************************)
(* A CanalClient, one end of a websocket, and run_canal_loop, which reads  *)
(* its frames and calls the program's hooks.  The other end follows the    *)
(* protocol: messages in one frame or in several, control frames anywhere, *)
(* and an end that may be orderly or not.                                  *)
(***************************************************************************)
EXTENDS Sockets

CONSTANTS
    MaxFrames,  \* how many frames the other end sends before its last one
    MaxServed,  \* the same where it is the client of a server
    MaxUnits    \* kMaxWebSocketMessageBytes, in units of payload

VARIABLES
    canal,  \* the CanalClientState, and the hooks that are set
    peer,   \* the other end
    heard   \* what the hooks have been told

canalVars == <<canal, peer, heard>>

ClientHooks == {"open", "message", "close", "error"}
ServerHooks == {"server message", "server close", "server error"}

NoClient(hooks) == [fd |-> None, closed |-> FALSE, opened |-> FALSE, hooks |-> hooks]
NewPeer(frames) == [count |-> 0, last |-> frames, inside |-> "none", message |-> <<>>, messages |-> <<>>, ended |-> FALSE]
NothingHeard == [client |-> <<>>, over |-> FALSE, early |-> FALSE, failed |-> FALSE]

\* A CanalClient is made for the connection on fd.
NewClient(fd) == [canal EXCEPT !.fd = fd, !.closed = FALSE, !.opened = FALSE]

-----------------------------------------------------------------------------
(* The other end. *)

\* What it may send next: a message or the first fragment of one, more of the one
\* under way, a control frame.
NextFrames ==
    IF peer.count = peer.last THEN {}
    ELSE LET payloads == {<<>>, <<peer.count + 1>>}
             ops == IF peer.inside = "none" THEN {"text", "binary"} ELSE {"continuation"}
         IN [op : ops, fin : BOOLEAN, payload : payloads]
            \cup [op : {"ping", "pong"}, fin : {TRUE}, payload : {<<>>}]

\* The other end once it has sent frame; of its messages, those it has completed.
Sent(frame) ==
    LET op == IF frame.op = "continuation" THEN peer.inside ELSE frame.op
        whole == peer.message \o frame.payload
    IN IF frame.op \in {"ping", "pong"} THEN [peer EXCEPT !.count = @ + 1]
       ELSE IF ~frame.fin THEN [peer EXCEPT !.count = @ + 1, !.inside = op, !.message = whole]
       ELSE [peer EXCEPT !.count = @ + 1, !.inside = "none", !.message = <<>>,
                         !.messages = Append(@, [op |-> op, payload |-> whole])]

-----------------------------------------------------------------------------
(* The methods of a CanalClient, which the program may call at any moment.  *)

\* envoyer, envoyer_octets: that the frame cannot be sent is the Résultat.
Envoyer ==
    /\ MayCall /\ canal.fd # None /\ Counted
    /\ \E sent \in SendOutcomes(canal.fd) : broken' = Broken(canal.fd, sent)
    /\ UNCHANGED <<stack, raising, table, conns, canalVars>>

\* fermer: the close frame first, and if it cannot be sent nothing is closed.
Fermer ==
    /\ MayCall /\ (canal.fd # None \/ canal.closed) /\ Counted
    /\ \E sent \in SendOutcomes(canal.fd) :
          /\ broken' = Broken(canal.fd, sent)
          /\ table' = IF sent THEN Closing(canal.fd) ELSE table
          /\ canal' = IF sent THEN [canal EXCEPT !.closed = TRUE, !.fd = None] ELSE canal
    /\ UNCHANGED <<stack, raising, conns, peer, heard>>

\* A run of the loop: by attendre, by a ServeurCanal, which has hooks of its own,
\* or by a ServeurHTTP.
Loop(by) == [kind |-> "canal", by |-> by, at |-> "open", buffer |-> <<>>, opcode |-> "none"]

Attendre ==
    /\ MayCall /\ (canal.fd # None \/ canal.closed) /\ Counted
    /\ Cardinality(Natives) < MaxDepth
    /\ stack' = Append(stack, Loop("attendre"))
    /\ UNCHANGED <<raising, socketVars, canalVars>>

-----------------------------------------------------------------------------
(* run_canal_loop. *)

\* The loop goes on as loop and calls the hook if the program has set it.
HasHook(loop, hook) ==
    /\ hook \in canal.hooks
    /\ hook \in ServerHooks => loop.by = "server"
Notify(loop, hook) ==
    stack' = IF HasHook(loop, hook) THEN Calls(loop, hook) ELSE Goes(loop)

\* quand_ouvert, once in the life of the client.
OpenNotified ==
    /\ At("canal", "open")
    /\ IF canal.opened THEN stack' = Goes([Top EXCEPT !.at = "read"])
                       ELSE Notify([Top EXCEPT !.at = "read"], "open")
    /\ canal' = [canal EXCEPT !.opened = TRUE]
    /\ UNCHANGED <<raising, calls, socketVars, peer, heard>>

\* Mutant: the end of the stream is not remembered.
ReceiveEnd_Open ==
    /\ At("canal", "read") /\ ~canal.closed
    /\ peer' = [peer EXCEPT !.ended = TRUE]
    /\ UNCHANGED <<canal, stack, raising, calls, socketVars, heard>>

\* recv_websocket_frame finds the end of the stream between two frames.
ReceiveEnd ==
    /\ At("canal", "read") /\ ~canal.closed
    /\ peer' = [peer EXCEPT !.ended = TRUE]
    /\ canal' = [canal EXCEPT !.closed = TRUE]
    /\ UNCHANGED <<stack, raising, calls, socketVars, heard>>

\* It finds the end inside a frame, or an error: quand_erreur, then the failure.
ReceiveCut ==
    /\ At("canal", "read") /\ ~canal.closed /\ ~peer.ended
    /\ peer' = [peer EXCEPT !.ended = TRUE]
    /\ Notify([Top EXCEPT !.at = "failing"], "error")
    /\ UNCHANGED <<raising, calls, socketVars, canal, heard>>

\* A close is answered and ends the loop.  That the answer cannot be sent ends it
\* too, as a failure no hook hears of.
ReceiveClose ==
    /\ At("canal", "read") /\ ~canal.closed /\ ~peer.ended
    /\ peer' = [peer EXCEPT !.ended = TRUE]
    /\ \E sent \in SendOutcomes(canal.fd) :
          /\ broken' = Broken(canal.fd, sent)
          /\ canal' = [canal EXCEPT !.closed = sent]
          /\ raising' = IF sent THEN "nothing" ELSE "network"
    /\ UNCHANGED <<stack, calls, table, conns, heard>>

\* A ping is answered, a pong is not.
ReceiveControl ==
    /\ At("canal", "read") /\ ~canal.closed /\ ~peer.ended
    /\ \E frame \in NextFrames :
          /\ frame.op \in {"ping", "pong"}
          /\ peer' = Sent(frame)
          /\ IF frame.op = "pong" THEN UNCHANGED <<raising, broken>>
             ELSE \E sent \in SendOutcomes(canal.fd) :
                     /\ broken' = Broken(canal.fd, sent)
                     /\ raising' = IF sent THEN "nothing" ELSE "network"
    /\ UNCHANGED <<stack, calls, table, conns, canal, heard>>

\* Mutant: every data frame starts the buffer afresh.
Gathered_Afresh(loop, frame) ==
    [loop EXCEPT !.buffer = frame.payload,
                 !.opcode = IF frame.op = "continuation" THEN @ ELSE frame.op]

\* fragment_buffer and fragment_opcode with one more frame.
Gathered(loop, frame) ==
    IF frame.op = "continuation" THEN [loop EXCEPT !.buffer = @ \o frame.payload]
    ELSE [loop EXCEPT !.buffer = frame.payload, !.opcode = frame.op]

ReceiveData ==
    /\ At("canal", "read") /\ ~canal.closed /\ ~peer.ended
    /\ \E frame \in NextFrames :
          /\ frame.op \notin {"ping", "pong"}
          /\ peer' = Sent(frame)
          /\ LET loop == Gathered(Top, frame)
             IN IF Len(loop.buffer) > MaxUnits
                THEN Notify([loop EXCEPT !.at = "failing"], "error")
                ELSE stack' = Goes(IF ~frame.fin THEN loop
                                   ELSE IF loop.buffer = <<>> THEN [loop EXCEPT !.opcode = "none"]
                                   ELSE IF loop.opcode = "none" THEN loop
                                   ELSE [loop EXCEPT !.at = "deliver"])
    /\ UNCHANGED <<raising, calls, socketVars, canal, heard>>

\* quand_message of the client, then of the server, and the buffer is cleared.
Message(loop) == [op |-> loop.opcode, payload |-> loop.buffer]
Deliver ==
    /\ At("canal", "deliver")
    /\ Notify([Top EXCEPT !.at = "dispatch"], "message")
    /\ heard' = IF HasHook(Top, "message")
                THEN [heard EXCEPT !.client = Append(@, Message(Top)), !.early = @ \/ heard.over]
                ELSE heard
    /\ UNCHANGED <<raising, calls, socketVars, canal, peer>>
Dispatch ==
    /\ At("canal", "dispatch")
    /\ Notify([Top EXCEPT !.at = "read", !.buffer = <<>>], "server message")
    /\ UNCHANGED <<raising, calls, socketVars, canalVars>>

\* The failure of a read: quand_erreur of the server, and the exception goes on.
FailServer ==
    /\ At("canal", "failing")
    /\ Notify([Top EXCEPT !.at = "failed"], "server error")
    /\ UNCHANGED <<raising, calls, socketVars, canalVars>>
Rethrow ==
    /\ At("canal", "failed")
    /\ raising' = "network"
    /\ UNCHANGED <<stack, calls, socketVars, canalVars>>

\* The while condition, which fermer in a callback and a loop inside this one
\* change as well: quand_fermé, then the server's quand_déconnexion.
LoopEnds ==
    /\ At("canal", "read") /\ canal.closed
    /\ Notify([Top EXCEPT !.at = "closed"], "close")
    /\ heard' = [heard EXCEPT !.over = @ \/ HasHook(Top, "close")]
    /\ UNCHANGED <<raising, calls, socketVars, canal, peer>>
Disconnect ==
    /\ At("canal", "closed")
    /\ Notify([Top EXCEPT !.at = "done"], "server close")
    /\ UNCHANGED <<raising, calls, socketVars, canalVars>>
LoopReturns ==
    /\ At("canal", "done")
    /\ stack' = Front(stack)
    /\ UNCHANGED <<raising, calls, socketVars, canalVars>>

\* An exception leaves the loop.  attendre makes a NetworkFailure its Résultat.
UnwindLoop ==
    /\ raising # "nothing" /\ stack # <<>> /\ Top.kind = "canal"
    /\ stack' = Front(stack)
    /\ raising' = IF Top.by = "attendre" THEN AfterMethod ELSE raising
    /\ heard' = [heard EXCEPT !.failed = TRUE]
    /\ UNCHANGED <<calls, socketVars, canal, peer>>

CanalCalls == Envoyer \/ Fermer \/ Attendre
CanalReceives == ReceiveEnd \/ ReceiveCut \/ ReceiveClose \/ ReceiveControl \/ ReceiveData
CanalSteps ==
    OpenNotified \/ Deliver \/ Dispatch \/ FailServer \/ Rethrow \/ LoopEnds \/ Disconnect
    \/ LoopReturns \/ UnwindLoop
=============================================================================
