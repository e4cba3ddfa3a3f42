------------------------------ MODULE DnsRequest ------------------------------
(***************************************************************************)
(* getaddrinfo_with_timeout (stdlib/luminet/foundation.cpp): the one place *)
(* where the runtime creates a thread. Every call makes an AddrInfoRequest *)
(* shared by the interpreter thread, which waits for at most the timeout,  *)
(* and by a detached thread, which blocks in the system's getaddrinfo for  *)
(* as long as the system likes. A caller that gives up goes on with the    *)
(* program, and may well ask again while the first thread is still out.    *)
(*                                                                         *)
(* The addrinfo list getaddrinfo allocates is manual memory: somebody must *)
(* free it once, and nobody may touch it afterwards.                       *)
(*                                                                         *)
(* A request is a member of Requests; the interpreter thread works on the  *)
(* one named by call, each request has a detached thread of its own.       *)
(***************************************************************************)
EXTENDS Naturals

CONSTANTS Requests,     \* the AddrInfoRequests that may be alive at one time
          NoRequest     \* call, when the interpreter thread is in none

ASSUME NoRequestAssumption == NoRequest \notin Requests

VARIABLES
  call,       \* the request the interpreter thread is working on
  callerPc,   \* where in it that thread is
  expired,    \* the deadline of the wait has passed
  returned,   \* what getaddrinfo_with_timeout returned, and
  given,      \* whether it stored a list in *result
  threadPc,   \* where each detached thread is
  rc,         \* rc, local to the thread: what getaddrinfo returned
  mutex,      \* request->mutex: "free", or who holds it
  done, abandoned, gai_error,   \* the fields of AddrInfoRequest
  result,     \* request->result is not null
  list        \* the addrinfo list of the request: not yet made, live, freed

callerVars == <<call, callerPc, expired, returned, given>>
requestVars == <<done, abandoned, gai_error, result>>
vars == <<callerVars, threadPc, rc, mutex, requestVars, list>>

EAI_AGAIN == "EAI_AGAIN"

\* What the system's getaddrinfo returns, and the thread passes on as it is: a
\* name server that does not answer is EAI_AGAIN too, the status of a deadline.
GaiErrors == {"0", EAI_AGAIN, "failure"}

TypeOK ==
  /\ call \in Requests \cup {NoRequest}
  /\ callerPc \in {"idle", "locking", "testing", "parked", "using"}
  /\ expired \in BOOLEAN
  /\ returned \in GaiErrors \cup {"none"}
  /\ given \in BOOLEAN
  /\ threadPc \in [Requests -> {"none", "resolving", "locking", "storing",
                                "releasing", "notifying", "ended"}]
  /\ rc \in [Requests -> GaiErrors]
  /\ mutex \in [Requests -> {"free", "caller", "thread"}]
  /\ done \in [Requests -> BOOLEAN]
  /\ abandoned \in [Requests -> BOOLEAN]
  /\ gai_error \in [Requests -> GaiErrors]
  /\ result \in [Requests -> BOOLEAN]
  /\ list \in [Requests -> {"none", "live", "freed", "freed twice"}]

Init ==
  /\ call = NoRequest /\ callerPc = "idle"
  /\ expired = FALSE /\ returned = "none" /\ given = FALSE
  /\ threadPc = [r \in Requests |-> "none"]
  /\ rc = [r \in Requests |-> "0"]
  /\ mutex = [r \in Requests |-> "free"]
  /\ done = [r \in Requests |-> FALSE]
  /\ abandoned = [r \in Requests |-> FALSE]
  /\ gai_error = [r \in Requests |-> "0"]
  /\ result = [r \in Requests |-> FALSE]
  /\ list = [r \in Requests |-> "none"]

\* freeaddrinfo of the list of request r.
FreeAddrInfo(r) ==
  list' = [list EXCEPT ![r] = IF @ = "live" THEN "freed" ELSE "freed twice"]

-----------------------------------------------------------------------------
(* The interpreter thread                                                  *)

\* getaddrinfo_with_timeout up to the wait: a new request and its thread. The
\* names of Requests are those of the requests alive at one time: one that both
\* threads have left is free for a later call.
Call(r) ==
  /\ callerPc = "idle"
  /\ threadPc[r] \in {"none", "ended"}
  /\ call' = r
  /\ callerPc' = "locking"
  /\ expired' = FALSE /\ returned' = "none" /\ given' = FALSE
  /\ threadPc' = [threadPc EXCEPT ![r] = "resolving"]
  /\ rc' = [rc EXCEPT ![r] = "0"]
  /\ done' = [done EXCEPT ![r] = FALSE]
  /\ abandoned' = [abandoned EXCEPT ![r] = FALSE]
  /\ gai_error' = [gai_error EXCEPT ![r] = "0"]
  /\ result' = [result EXCEPT ![r] = FALSE]
  /\ list' = [list EXCEPT ![r] = "none"]
  /\ UNCHANGED mutex

\* The lock before the wait, and the one a wait takes again as it wakes up.
CallerLock ==
  /\ callerPc = "locking"
  /\ mutex[call] = "free"
  /\ mutex' = [mutex EXCEPT ![call] = "caller"]
  /\ callerPc' = "testing"
  /\ UNCHANGED <<call, expired, returned, given, threadPc, rc, requestVars, list>>

\* wait_for's predicate is false and its deadline has not passed: the thread
\* gives the mutex back and parks.
Park ==
  /\ callerPc = "testing" /\ ~done[call] /\ ~expired
  /\ mutex' = [mutex EXCEPT ![call] = "free"]
  /\ callerPc' = "parked"
  /\ UNCHANGED <<call, expired, returned, given, threadPc, rc, requestVars, list>>

\* Mutant: cv.wait instead of cv.wait_for.
Wake_NoDeadline(deadline) ==
  /\ callerPc = "parked"
  /\ callerPc' = "locking"
  /\ UNCHANGED <<call, expired, returned, given, threadPc, rc, mutex, requestVars, list>>

\* The wait ends: at its deadline, by the thread's notify_one (see Notify), or
\* spuriously, as a condition variable may.
Wake(deadline) ==
  /\ callerPc = "parked"
  /\ callerPc' = "locking"
  /\ expired' = (expired \/ deadline)
  /\ UNCHANGED <<call, returned, given, threadPc, rc, mutex, requestVars, list>>

\* Mutant: the deadline is looked at before the predicate.
GiveUp_DeadlineFirst ==
  /\ callerPc = "testing" /\ expired
  /\ abandoned' = [abandoned EXCEPT ![call] = TRUE]
  /\ returned' = EAI_AGAIN
  /\ mutex' = [mutex EXCEPT ![call] = "free"]
  /\ callerPc' = "using"
  /\ UNCHANGED <<call, expired, given, threadPc, rc, done, gai_error, result, list>>

\* wait_for returns false: the request is abandoned, *result is left alone.
GiveUp ==
  /\ callerPc = "testing" /\ ~done[call] /\ expired
  /\ abandoned' = [abandoned EXCEPT ![call] = TRUE]
  /\ returned' = EAI_AGAIN
  /\ mutex' = [mutex EXCEPT ![call] = "free"]
  /\ callerPc' = "using"
  /\ UNCHANGED <<call, expired, given, threadPc, rc, done, gai_error, result, list>>

\* wait_for returns true, in time or not: *result and the return value are the
\* thread's.
TakeAnswer ==
  /\ callerPc = "testing" /\ done[call]
  /\ returned' = gai_error[call]
  /\ given' = result[call]
  /\ mutex' = [mutex EXCEPT ![call] = "free"]
  /\ callerPc' = "using"
  /\ UNCHANGED <<call, expired, threadPc, rc, requestVars, list>>

\* The caller: an error is raised and *result forgotten; a success is walked
\* under a guard that frees the list when the operation ends, however it ends.
Finish ==
  /\ callerPc = "using"
  /\ IF returned = "0" THEN FreeAddrInfo(call) ELSE UNCHANGED list
  /\ call' = NoRequest
  /\ callerPc' = "idle"
  /\ UNCHANGED <<expired, returned, given, threadPc, rc, mutex, requestVars>>

-----------------------------------------------------------------------------
(* The detached thread of request r                                        *)

\* The system's getaddrinfo returns, a list when it succeeded.
Resolve(r, answer) ==
  /\ threadPc[r] = "resolving"
  /\ rc' = [rc EXCEPT ![r] = answer]
  /\ list' = IF answer = "0" THEN [list EXCEPT ![r] = "live"] ELSE list
  /\ threadPc' = [threadPc EXCEPT ![r] = "locking"]
  /\ UNCHANGED <<callerVars, mutex, requestVars>>

ThreadLock(r) ==
  /\ threadPc[r] = "locking"
  /\ mutex[r] = "free"
  /\ mutex' = [mutex EXCEPT ![r] = "thread"]
  /\ threadPc' = [threadPc EXCEPT ![r] = "storing"]
  /\ UNCHANGED <<callerVars, rc, requestVars, list>>

\* Nobody waits any more: unlock, and the list stays the thread's to free.
FindAbandoned(r) ==
  /\ threadPc[r] = "storing" /\ abandoned[r]
  /\ mutex' = [mutex EXCEPT ![r] = "free"]
  /\ threadPc' = [threadPc EXCEPT ![r] = "releasing"]
  /\ UNCHANGED <<callerVars, rc, requestVars, list>>

\* if (resolved != nullptr) freeaddrinfo(resolved), after the unlock.
Release(r) ==
  /\ threadPc[r] = "releasing"
  /\ IF rc[r] = "0" THEN FreeAddrInfo(r) ELSE UNCHANGED list
  /\ threadPc' = [threadPc EXCEPT ![r] = "ended"]
  /\ UNCHANGED <<callerVars, rc, mutex, requestVars>>

\* Mutant: no return in the abandoned branch's counterpart: the stored list is
\* freed by the thread as well.
Store_ThenRelease(r) ==
  /\ threadPc[r] = "storing" /\ ~abandoned[r]
  /\ gai_error' = [gai_error EXCEPT ![r] = rc[r]]
  /\ result' = [result EXCEPT ![r] = (rc[r] = "0")]
  /\ done' = [done EXCEPT ![r] = TRUE]
  /\ mutex' = [mutex EXCEPT ![r] = "free"]
  /\ threadPc' = [threadPc EXCEPT ![r] = "releasing"]
  /\ UNCHANGED <<callerVars, rc, abandoned, list>>

\* Mutant: the answer is stored without looking at abandoned.
Store_EvenAbandoned(r) ==
  /\ threadPc[r] = "storing"
  /\ gai_error' = [gai_error EXCEPT ![r] = rc[r]]
  /\ result' = [result EXCEPT ![r] = (rc[r] = "0")]
  /\ done' = [done EXCEPT ![r] = TRUE]
  /\ mutex' = [mutex EXCEPT ![r] = "free"]
  /\ threadPc' = [threadPc EXCEPT ![r] = "notifying"]
  /\ UNCHANGED <<callerVars, rc, abandoned, list>>

\* The answer is stored, and the mutex given back before the notification.
Store(r) ==
  /\ threadPc[r] = "storing" /\ ~abandoned[r]
  /\ gai_error' = [gai_error EXCEPT ![r] = rc[r]]
  /\ result' = [result EXCEPT ![r] = (rc[r] = "0")]
  /\ done' = [done EXCEPT ![r] = TRUE]
  /\ mutex' = [mutex EXCEPT ![r] = "free"]
  /\ threadPc' = [threadPc EXCEPT ![r] = "notifying"]
  /\ UNCHANGED <<callerVars, rc, abandoned, list>>

\* notify_one wakes the caller if it is parked in this request, and is lost
\* if it is not.
Notify(r) ==
  /\ threadPc[r] = "notifying"
  /\ threadPc' = [threadPc EXCEPT ![r] = "ended"]
  /\ callerPc' = IF call = r /\ callerPc = "parked" THEN "locking" ELSE callerPc
  /\ UNCHANGED <<call, expired, returned, given, rc, mutex, requestVars, list>>

-----------------------------------------------------------------------------
Caller == CallerLock \/ Park \/ GiveUp \/ TakeAnswer \/ Finish

\* What a detached thread does once the system has answered it.
Thread(r) == ThreadLock(r) \/ FindAbandoned(r) \/ Release(r) \/ Store(r) \/ Notify(r)

Next ==
  \/ \E r \in Requests : Call(r)
  \/ Caller
  \/ \E deadline \in BOOLEAN : Wake(deadline)
  \/ \E r \in Requests : Thread(r)
  \/ \E r \in Requests, answer \in GaiErrors : Resolve(r, answer)

Spec == Init /\ [][Next]_vars

\* Both threads are scheduled, and the clock reaches the deadline however often
\* the wait is woken before it (hence strong fairness). Nothing says that the
\* system's getaddrinfo ever returns.
FairSpec ==
  /\ Spec
  /\ WF_vars(Caller)
  /\ SF_vars(Wake(TRUE))
  /\ \A r \in Requests : WF_vars(Thread(r))

-----------------------------------------------------------------------------
(* Properties                                                              *)

\* Safety: the list the caller walks, and the one a guard or the detached
\* thread is about to free, is allocated and not yet freed, and is freed once
\* (the unique_ptr guards of the callers, foundation.cpp's abandoned branch).
ListsAreFreedOnce ==
  /\ \A r \in Requests : list[r] # "freed twice"
  /\ callerPc = "using" /\ returned = "0" => given /\ list[call] = "live"

\* Safety: no list is forgotten: once the interpreter thread has left a call
\* and its detached thread has ended, a list that was made has been freed,
\* whichever of the answer and the deadline came first.
NothingLeaks ==
  \A r \in Requests : threadPc[r] = "ended" /\ call # r => list[r] # "live"

\* Safety: a request is answered or abandoned, never both. A caller that gave
\* up was told EAI_AGAIN and has no list, and no late thread stores an answer
\* behind it; any other caller was told exactly what the system answered, and
\* has the list that came with it. That it can tell the two apart is not said:
\* the system's own EAI_AGAIN looks like a deadline (foundation.cpp 113, 126).
AnsweredOrAbandoned ==
  /\ \A r \in Requests : ~(done[r] /\ abandoned[r]) /\ (result[r] => done[r])
  /\ callerPc = "using" =>
       /\ abandoned[call] => returned = EAI_AGAIN /\ ~given
       /\ ~abandoned[call] => /\ done[call] /\ returned = rc[call]
                              /\ given <=> rc[call] = "0"

\* Liveness: the interpreter never hangs on a name: the wait ends, even when
\* the system's getaddrinfo never returns.
CallsReturn == \A r \in Requests : call = r ~> call # r

=============================================================================
