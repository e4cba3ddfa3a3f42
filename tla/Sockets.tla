------------------------------- MODULE Sockets ------------------------------
(***************************************************************************)
(* What every part of LumiNet stands on: the single thread of the          *)
(* interpreter, inside of natives and of the callbacks they call; C++      *)
(* exceptions on their way out; and the table of descriptors, which gives  *)
(* a new socket the lowest number that is free.                            *)
(***************************************************************************)
EXTENDS Integers, Sequences, SequencesExt, FiniteSets

CONSTANTS
    MaxFds,    \* how many descriptors the process may have open
    MaxConns,  \* how many connections are made in one life of the program
    MaxCalls,  \* how many methods the program calls in one life, of those that do
               \* something more when called again
    MaxDepth   \* how many natives may be running inside one another

VARIABLES
    stack,    \* what the thread is inside of, innermost last
    raising,  \* the C++ exception on its way: "nothing", "network", "runtime"
    table,    \* what each descriptor is open on
    conns,    \* how many connections have been made
    broken,   \* the connections on which writing has failed
    calls     \* how many methods the program has called

socketVars == <<table, conns, broken>>

Fds == 1 .. MaxFds
None == 0        \* kInvalidSocketHandle, and a descriptor that is not open
Listening == -1  \* any other number is the connection of that number
Kinds == {None, Listening} \cup 1 .. MaxConns

-----------------------------------------------------------------------------
(* The thread.  Activities are records with a kind: the program itself, a
   callback of the program's, or a native that may call callbacks.          *)

Program == [kind |-> "program"]
Callback(hook) == [kind |-> "callback", hook |-> hook]

Top == Last(stack)
Goes(activity) == Append(Front(stack), activity)
Calls(activity, hook) == Append(Goes(activity), Callback(hook))
IsNative(activity) == activity.kind \notin {"program", "callback"}
Natives == {i \in DOMAIN stack : IsNative(stack[i])}

\* The program is running, at its own level or in a callback, and may call one
\* more method.
Running == raising = "nothing" /\ stack # <<>> /\ ~IsNative(Top)
MayCall == Running /\ calls < MaxCalls
Counted == calls' = calls + 1

\* A native of this kind is at this point of its code.
At(kind, point) ==
    raising = "nothing" /\ stack # <<>> /\ Top.kind = kind /\ Top.at = point

\* A callback ends, by returning or by a runtime error.
Return ==
    /\ Running /\ Top.kind = "callback"
    /\ stack' = Front(stack)
    /\ UNCHANGED <<raising, calls, socketVars>>
Fail ==
    /\ Running /\ Top.kind = "callback"
    /\ raising' = "runtime"
    /\ UNCHANGED <<stack, calls, socketVars>>

\* An exception leaves a callback, or ends the program.
UnwindProgram ==
    /\ raising # "nothing" /\ stack # <<>> /\ ~IsNative(Top)
    /\ stack' = Front(stack)
    /\ UNCHANGED <<raising, calls, socketVars>>

\* network_result, around every method that may fail: a NetworkFailure becomes
\* the Résultat of the call, anything else goes on.
AfterMethod == IF raising = "network" THEN "nothing" ELSE raising

-----------------------------------------------------------------------------
(* Descriptors. *)

Open == {fd \in Fds : table[fd] # None}
Unused == Fds \ Open
Lowest == CHOOSE fd \in Unused : \A other \in Unused : fd <= other

\* close_socket_fd: of a handle that is not valid it does nothing.
Closing(fd) == IF fd = None THEN table ELSE [table EXCEPT ![fd] = None]

\* Whether send_all gets everything out on fd: never on a descriptor that is not
\* a connection, never again on a connection that has failed once.
SendOutcomes(fd) ==
    IF fd = None \/ fd \notin Fds THEN {FALSE}
    ELSE IF table[fd] \in {None, Listening} \cup broken THEN {FALSE}
    ELSE BOOLEAN

\* The connections that writing fails on, after a send on fd went as sent says.
Broken(fd, sent) ==
    IF sent \/ fd = None THEN broken ELSE broken \cup ({table[fd]} \ {None, Listening})

\* A connection is made: connect or accept returns, with the lowest descriptor.
Connects(fd) ==
    /\ Unused # {} /\ conns < MaxConns
    /\ fd = Lowest
    /\ table' = [table EXCEPT ![fd] = conns + 1]
    /\ conns' = conns + 1
    /\ UNCHANGED broken

SocketsTypeOK ==
    /\ raising \in {"nothing", "network", "runtime"}
    /\ table \in [Fds -> Kinds]
    /\ conns \in 0 .. MaxConns /\ broken \subseteq 1 .. conns
    /\ calls \in 0 .. MaxCalls
SocketsInit(open) ==
    /\ stack = <<Program>> /\ raising = "nothing" /\ calls = 0
    /\ table = [fd \in Fds |-> IF fd \in 1 .. open THEN fd ELSE None]
    /\ conns = open /\ broken = {}
=============================================================================
