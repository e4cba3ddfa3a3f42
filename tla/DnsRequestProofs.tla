--------------------------- MODULE DnsRequestProofs ---------------------------
(***************************************************************************)
(* The safety of getaddrinfo_with_timeout for any number of requests alive *)
(* at once: TLC checks three of them in DnsRequest_retries.cfg. The        *)
(* invariant says, request by request, which of the two threads owns the   *)
(* list at each of their steps; the mutex is what keeps the two branches,  *)
(* answered and abandoned, apart.                                          *)
(***************************************************************************)
EXTENDS DnsRequest, TLAPS

\* Who holds the mutex is where it is in its code.
MutexInv ==
  /\ call = NoRequest <=> callerPc = "idle"
  /\ \A r \in Requests :
       /\ mutex[r] = "thread" <=> threadPc[r] = "storing"
       /\ mutex[r] = "caller" <=> (call = r /\ callerPc = "testing")

\* Request r: which outcome it has, given where its thread and its caller are.
Outcome(r) ==
  /\ ~(done[r] /\ abandoned[r])
  /\ done[r] <=> (threadPc[r] \in {"notifying", "ended"} /\ ~abandoned[r])
  /\ done[r] => gai_error[r] = rc[r]
  /\ result[r] <=> (done[r] /\ rc[r] = "0")
  /\ threadPc[r] = "releasing" => abandoned[r]
  /\ threadPc[r] = "notifying" => ~abandoned[r]
  /\ threadPc[r] = "none" => call # r /\ ~abandoned[r]
  /\ abandoned[r] /\ call = r => callerPc = "using"
  /\ call # r => done[r] \/ abandoned[r] \/ threadPc[r] = "none"

\* What has become of its list.
ListState(r) ==
  IF threadPc[r] \in {"none", "resolving"} \/ rc[r] # "0" THEN "none"
  ELSE IF threadPc[r] = "ended" /\ abandoned[r] THEN "freed"
  ELSE IF done[r] /\ call # r THEN "freed"
  ELSE "live"

\* What the caller was told.
CallerInv ==
  callerPc = "using" =>
    \/ returned = EAI_AGAIN /\ abandoned[call] /\ ~given
    \/ done[call] /\ returned = gai_error[call] /\ (given <=> result[call])

\* *result is untouched until the answer is taken.
GivenInv == callerPc \in {"locking", "testing", "parked"} => ~given

IInv ==
  /\ TypeOK
  /\ MutexInv
  /\ CallerInv
  /\ GivenInv
  /\ \A r \in Requests : Outcome(r) /\ list[r] = ListState(r)

-----------------------------------------------------------------------------
\* Every step keeps the ownership of the lists and the outcome of each request.
THEOREM InductiveInvariant == Spec => []IInv
<1>1. Init => IInv
  <2> SUFFICES ASSUME Init PROVE IInv
    OBVIOUS
  <2>1. TypeOK
    BY DEF Init, TypeOK, GaiErrors, EAI_AGAIN
  <2>2. MutexInv /\ CallerInv /\ GivenInv
    BY NoRequestAssumption DEF Init, MutexInv, CallerInv, GivenInv
  <2>3. ASSUME NEW r \in Requests PROVE Outcome(r)
    BY NoRequestAssumption DEF Init, Outcome
  <2>4. ASSUME NEW r \in Requests PROVE list[r] = ListState(r)
    BY DEF Init, ListState
  <2> QED
    BY <2>1, <2>2, <2>3, <2>4 DEF IInv
<1>2. IInv /\ [Next]_vars => IInv'
  <2> SUFFICES ASSUME IInv, [Next]_vars PROVE IInv'
    OBVIOUS
  <2> USE NoRequestAssumption DEF GaiErrors, EAI_AGAIN
  <2>0. /\ TypeOK /\ MutexInv /\ CallerInv /\ GivenInv
        /\ \A r \in Requests : Outcome(r) /\ list[r] = ListState(r)
    BY DEF IInv
  <2>1. CASE \E r \in Requests : Call(r)
    <3>0. PICK r \in Requests : Call(r)
      BY <2>1
    <3>1. TypeOK'
      BY <2>0, <3>0 DEF Call, callerVars, requestVars, TypeOK
    <3>2. MutexInv'
      BY <2>0, <3>0 DEF Call, callerVars, requestVars, TypeOK, MutexInv
    <3>3. CallerInv' /\ GivenInv'
      <4>1. CallerInv'
        BY <2>0, <3>0 DEF Call, callerVars, requestVars, TypeOK, MutexInv, CallerInv, Outcome
      <4>2. GivenInv'
        BY <2>0, <3>0 DEF Call, callerVars, GivenInv
      <4> QED
        BY <4>1, <4>2
    <3>4. ASSUME NEW q \in Requests PROVE Outcome(q)'
      <4>1. TypeOK /\ MutexInv /\ CallerInv /\ Outcome(q) /\ list[q] = ListState(q)
        BY <2>0
      <4>2. CASE q = r
        BY <4>1, <4>2, <3>0 DEF Call, callerVars, requestVars, TypeOK, MutexInv, Outcome
      <4>3. CASE q # r
        BY <4>1, <4>3, <3>0 DEF Call, callerVars, requestVars, TypeOK, MutexInv, Outcome
      <4> QED
        BY <4>2, <4>3
    <3>5. ASSUME NEW q \in Requests PROVE (list[q] = ListState(q))'
      <4>1. TypeOK /\ MutexInv /\ CallerInv /\ Outcome(q) /\ list[q] = ListState(q)
        BY <2>0
      <4>2. CASE q = r
        BY <4>1, <4>2, <3>0 DEF Call, callerVars, requestVars, TypeOK, MutexInv, CallerInv, Outcome, ListState
      <4>3. CASE q # r
        <5>1. /\ threadPc'[q] = threadPc[q] /\ rc'[q] = rc[q] /\ list'[q] = list[q]
              /\ done'[q] = done[q] /\ abandoned'[q] = abandoned[q]
          BY <4>1, <4>3, <3>0 DEF Call, TypeOK
        <5>2. call # q /\ call' # q
          BY <4>1, <4>3, <3>0 DEF Call, MutexInv
        <5> QED
          BY <4>1, <5>1, <5>2 DEF ListState
      <4> QED
        BY <4>2, <4>3
    <3> QED
      BY <3>1, <3>2, <3>3, <3>4, <3>5 DEF IInv
  <2>2. CASE CallerLock
    <3>1. TypeOK'
      BY <2>0, <2>2 DEF CallerLock, callerVars, requestVars, TypeOK
    <3>2. MutexInv'
      BY <2>0, <2>2 DEF CallerLock, callerVars, requestVars, TypeOK, MutexInv
    <3>3. CallerInv' /\ GivenInv'
      <4>1. CallerInv'
        BY <2>0, <2>2 DEF CallerLock, callerVars, requestVars, TypeOK, MutexInv, CallerInv, Outcome
      <4>2. GivenInv'
        BY <2>0, <2>2 DEF CallerLock, callerVars, GivenInv
      <4> QED
        BY <4>1, <4>2
    <3>4. ASSUME NEW q \in Requests PROVE Outcome(q)'
      <4>1. TypeOK /\ MutexInv /\ CallerInv /\ Outcome(q) /\ list[q] = ListState(q)
        BY <2>0
      <4>2. CASE q = call
        BY <4>1, <4>2, <2>2 DEF CallerLock, callerVars, requestVars, TypeOK, MutexInv, Outcome
      <4>3. CASE q # call
        BY <4>1, <4>3, <2>2 DEF CallerLock, callerVars, requestVars, TypeOK, MutexInv, Outcome
      <4> QED
        BY <4>2, <4>3
    <3>5. ASSUME NEW q \in Requests PROVE (list[q] = ListState(q))'
      <4>1. TypeOK /\ MutexInv /\ CallerInv /\ Outcome(q) /\ list[q] = ListState(q)
        BY <2>0
      <4>2. CASE q = call
        BY <4>1, <4>2, <2>2 DEF CallerLock, callerVars, requestVars, TypeOK, MutexInv, CallerInv, Outcome, ListState
      <4>3. CASE q # call
        BY <4>1, <4>3, <2>2 DEF CallerLock, callerVars, requestVars, TypeOK, MutexInv, CallerInv, Outcome, ListState
      <4> QED
        BY <4>2, <4>3
    <3> QED
      BY <3>1, <3>2, <3>3, <3>4, <3>5 DEF IInv
  <2>3. CASE Park
    <3>1. TypeOK'
      BY <2>0, <2>3 DEF Park, callerVars, requestVars, TypeOK
    <3>2. MutexInv'
      BY <2>0, <2>3 DEF Park, callerVars, requestVars, TypeOK, MutexInv
    <3>3. CallerInv' /\ GivenInv'
      <4>1. CallerInv'
        BY <2>0, <2>3 DEF Park, callerVars, requestVars, TypeOK, MutexInv, CallerInv, Outcome
      <4>2. GivenInv'
        BY <2>0, <2>3 DEF Park, callerVars, GivenInv
      <4> QED
        BY <4>1, <4>2
    <3>4. ASSUME NEW q \in Requests PROVE Outcome(q)'
      <4>1. TypeOK /\ MutexInv /\ CallerInv /\ Outcome(q) /\ list[q] = ListState(q)
        BY <2>0
      <4>2. CASE q = call
        BY <4>1, <4>2, <2>3 DEF Park, callerVars, requestVars, TypeOK, MutexInv, Outcome
      <4>3. CASE q # call
        BY <4>1, <4>3, <2>3 DEF Park, callerVars, requestVars, TypeOK, MutexInv, Outcome
      <4> QED
        BY <4>2, <4>3
    <3>5. ASSUME NEW q \in Requests PROVE (list[q] = ListState(q))'
      <4>1. TypeOK /\ MutexInv /\ CallerInv /\ Outcome(q) /\ list[q] = ListState(q)
        BY <2>0
      <4>2. CASE q = call
        BY <4>1, <4>2, <2>3 DEF Park, callerVars, requestVars, TypeOK, MutexInv, CallerInv, Outcome, ListState
      <4>3. CASE q # call
        BY <4>1, <4>3, <2>3 DEF Park, callerVars, requestVars, TypeOK, MutexInv, CallerInv, Outcome, ListState
      <4> QED
        BY <4>2, <4>3
    <3> QED
      BY <3>1, <3>2, <3>3, <3>4, <3>5 DEF IInv
  <2>4. CASE \E deadline \in BOOLEAN : Wake(deadline)
    <3>0. PICK deadline \in BOOLEAN : Wake(deadline)
      BY <2>4
    <3>1. TypeOK'
      BY <2>0, <3>0 DEF Wake, callerVars, requestVars, TypeOK
    <3>2. MutexInv'
      BY <2>0, <3>0 DEF Wake, callerVars, requestVars, TypeOK, MutexInv
    <3>3. CallerInv' /\ GivenInv'
      <4>1. CallerInv'
        BY <2>0, <3>0 DEF Wake, callerVars, requestVars, TypeOK, MutexInv, CallerInv, Outcome
      <4>2. GivenInv'
        BY <2>0, <3>0 DEF Wake, callerVars, GivenInv
      <4> QED
        BY <4>1, <4>2
    <3>4. ASSUME NEW q \in Requests PROVE Outcome(q)'
      <4>1. TypeOK /\ MutexInv /\ CallerInv /\ Outcome(q) /\ list[q] = ListState(q)
        BY <2>0
      <4>2. CASE q = call
        BY <4>1, <4>2, <3>0 DEF Wake, callerVars, requestVars, TypeOK, MutexInv, Outcome
      <4>3. CASE q # call
        BY <4>1, <4>3, <3>0 DEF Wake, callerVars, requestVars, TypeOK, MutexInv, Outcome
      <4> QED
        BY <4>2, <4>3
    <3>5. ASSUME NEW q \in Requests PROVE (list[q] = ListState(q))'
      <4>1. TypeOK /\ MutexInv /\ CallerInv /\ Outcome(q) /\ list[q] = ListState(q)
        BY <2>0
      <4>2. CASE q = call
        BY <4>1, <4>2, <3>0 DEF Wake, callerVars, requestVars, TypeOK, MutexInv, CallerInv, Outcome, ListState
      <4>3. CASE q # call
        BY <4>1, <4>3, <3>0 DEF Wake, callerVars, requestVars, TypeOK, MutexInv, CallerInv, Outcome, ListState
      <4> QED
        BY <4>2, <4>3
    <3> QED
      BY <3>1, <3>2, <3>3, <3>4, <3>5 DEF IInv
  <2>5. CASE GiveUp
    <3>1. TypeOK'
      BY <2>0, <2>5 DEF GiveUp, callerVars, requestVars, TypeOK
    <3>2. MutexInv'
      BY <2>0, <2>5 DEF GiveUp, callerVars, requestVars, TypeOK, MutexInv
    <3>3. CallerInv' /\ GivenInv'
      <4>1. call \in Requests /\ ~given
        BY <2>0, <2>5 DEF GiveUp, MutexInv, GivenInv, TypeOK
      <4>2. returned' = EAI_AGAIN /\ abandoned'[call] /\ call' = call /\ given' = given
        BY <2>0, <2>5, <4>1 DEF GiveUp, TypeOK
      <4>3. CallerInv'
        BY <4>1, <4>2 DEF CallerInv
      <4>4. GivenInv'
        BY <2>5 DEF GiveUp, GivenInv
      <4> QED
        BY <4>3, <4>4
    <3>4. ASSUME NEW q \in Requests PROVE Outcome(q)'
      <4>1. TypeOK /\ MutexInv /\ CallerInv /\ Outcome(q) /\ list[q] = ListState(q)
        BY <2>0
      <4>2. CASE q = call
        BY <4>1, <4>2, <2>5 DEF GiveUp, callerVars, requestVars, TypeOK, MutexInv, Outcome
      <4>3. CASE q # call
        BY <4>1, <4>3, <2>5 DEF GiveUp, callerVars, requestVars, TypeOK, MutexInv, Outcome
      <4> QED
        BY <4>2, <4>3
    <3>5. ASSUME NEW q \in Requests PROVE (list[q] = ListState(q))'
      <4>1. TypeOK /\ MutexInv /\ CallerInv /\ Outcome(q) /\ list[q] = ListState(q)
        BY <2>0
      <4>2. CASE q = call
        BY <4>1, <4>2, <2>5 DEF GiveUp, callerVars, requestVars, TypeOK, MutexInv, CallerInv, Outcome, ListState
      <4>3. CASE q # call
        BY <4>1, <4>3, <2>5 DEF GiveUp, callerVars, requestVars, TypeOK, MutexInv, CallerInv, Outcome, ListState
      <4> QED
        BY <4>2, <4>3
    <3> QED
      BY <3>1, <3>2, <3>3, <3>4, <3>5 DEF IInv
  <2>6. CASE TakeAnswer
    <3>1. TypeOK'
      BY <2>0, <2>6 DEF TakeAnswer, callerVars, requestVars, TypeOK, MutexInv
    <3>2. MutexInv'
      BY <2>0, <2>6 DEF TakeAnswer, callerVars, requestVars, TypeOK, MutexInv
    <3>3. CallerInv' /\ GivenInv'
      <4>1. CallerInv'
        BY <2>0, <2>6 DEF TakeAnswer, callerVars, requestVars, TypeOK, MutexInv, CallerInv, Outcome
      <4>2. GivenInv'
        BY <2>0, <2>6 DEF TakeAnswer, callerVars, GivenInv
      <4> QED
        BY <4>1, <4>2
    <3>4. ASSUME NEW q \in Requests PROVE Outcome(q)'
      <4>1. TypeOK /\ MutexInv /\ CallerInv /\ Outcome(q) /\ list[q] = ListState(q)
        BY <2>0
      <4>2. CASE q = call
        BY <4>1, <4>2, <2>6 DEF TakeAnswer, callerVars, requestVars, TypeOK, MutexInv, Outcome
      <4>3. CASE q # call
        BY <4>1, <4>3, <2>6 DEF TakeAnswer, callerVars, requestVars, TypeOK, MutexInv, Outcome
      <4> QED
        BY <4>2, <4>3
    <3>5. ASSUME NEW q \in Requests PROVE (list[q] = ListState(q))'
      <4>1. TypeOK /\ MutexInv /\ CallerInv /\ Outcome(q) /\ list[q] = ListState(q)
        BY <2>0
      <4>2. CASE q = call
        BY <4>1, <4>2, <2>6 DEF TakeAnswer, callerVars, requestVars, TypeOK, MutexInv, CallerInv, Outcome, ListState
      <4>3. CASE q # call
        BY <4>1, <4>3, <2>6 DEF TakeAnswer, callerVars, requestVars, TypeOK, MutexInv, CallerInv, Outcome, ListState
      <4> QED
        BY <4>2, <4>3
    <3> QED
      BY <3>1, <3>2, <3>3, <3>4, <3>5 DEF IInv
  <2>7. CASE Finish
    <3>1. TypeOK'
      BY <2>0, <2>7 DEF Finish, FreeAddrInfo, callerVars, requestVars, TypeOK
    <3>2. MutexInv'
      BY <2>0, <2>7 DEF Finish, FreeAddrInfo, callerVars, requestVars, TypeOK, MutexInv
    <3>3. CallerInv' /\ GivenInv'
      <4>1. CallerInv'
        BY <2>0, <2>7 DEF Finish, FreeAddrInfo, callerVars, requestVars, TypeOK, MutexInv, CallerInv, Outcome
      <4>2. GivenInv'
        BY <2>0, <2>7 DEF Finish, FreeAddrInfo, callerVars, GivenInv
      <4> QED
        BY <4>1, <4>2
    <3>4. ASSUME NEW q \in Requests PROVE Outcome(q)'
      <4>1. TypeOK /\ MutexInv /\ CallerInv /\ Outcome(q) /\ list[q] = ListState(q)
        BY <2>0
      <4>2. CASE q = call
        BY <4>1, <4>2, <2>7 DEF Finish, FreeAddrInfo, callerVars, requestVars, TypeOK, MutexInv, CallerInv, Outcome
      <4>3. CASE q # call
        BY <4>1, <4>3, <2>7 DEF Finish, FreeAddrInfo, callerVars, requestVars, TypeOK, MutexInv, Outcome
      <4> QED
        BY <4>2, <4>3
    <3>5. ASSUME NEW q \in Requests PROVE (list[q] = ListState(q))'
      <4>1. TypeOK /\ MutexInv /\ CallerInv /\ Outcome(q) /\ list[q] = ListState(q)
        BY <2>0
      <4>2. CASE q = call
        BY <4>1, <4>2, <2>7 DEF Finish, FreeAddrInfo, callerVars, requestVars, TypeOK, MutexInv, CallerInv, Outcome, ListState
      <4>3. CASE q # call
        BY <4>1, <4>3, <2>7 DEF Finish, FreeAddrInfo, callerVars, requestVars, TypeOK, MutexInv, CallerInv, Outcome, ListState
      <4> QED
        BY <4>2, <4>3
    <3> QED
      BY <3>1, <3>2, <3>3, <3>4, <3>5 DEF IInv
  <2>8. CASE \E r \in Requests, answer \in GaiErrors : Resolve(r, answer)
    <3>0. PICK r \in Requests, answer \in GaiErrors : Resolve(r, answer)
      BY <2>8
    <3>1. TypeOK'
      BY <2>0, <3>0 DEF Resolve, callerVars, requestVars, TypeOK
    <3>2. MutexInv'
      BY <2>0, <3>0 DEF Resolve, callerVars, requestVars, TypeOK, MutexInv
    <3>3. CallerInv' /\ GivenInv'
      <4>1. CallerInv'
        BY <2>0, <3>0 DEF Resolve, callerVars, requestVars, TypeOK, MutexInv, CallerInv, Outcome
      <4>2. GivenInv'
        BY <2>0, <3>0 DEF Resolve, callerVars, GivenInv
      <4> QED
        BY <4>1, <4>2
    <3>4. ASSUME NEW q \in Requests PROVE Outcome(q)'
      <4>1. TypeOK /\ MutexInv /\ CallerInv /\ Outcome(q) /\ list[q] = ListState(q)
        BY <2>0
      <4>2. CASE q = r
        BY <4>1, <4>2, <3>0 DEF Resolve, callerVars, requestVars, TypeOK, MutexInv, Outcome
      <4>3. CASE q # r
        BY <4>1, <4>3, <3>0 DEF Resolve, callerVars, requestVars, TypeOK, MutexInv, Outcome
      <4> QED
        BY <4>2, <4>3
    <3>5. ASSUME NEW q \in Requests PROVE (list[q] = ListState(q))'
      <4>1. TypeOK /\ MutexInv /\ CallerInv /\ Outcome(q) /\ list[q] = ListState(q)
        BY <2>0
      <4>2. CASE q = r
        BY <4>1, <4>2, <3>0 DEF Resolve, callerVars, requestVars, TypeOK, MutexInv, CallerInv, Outcome, ListState
      <4>3. CASE q # r
        BY <4>1, <4>3, <3>0 DEF Resolve, callerVars, requestVars, TypeOK, MutexInv, CallerInv, Outcome, ListState
      <4> QED
        BY <4>2, <4>3
    <3> QED
      BY <3>1, <3>2, <3>3, <3>4, <3>5 DEF IInv
  <2>9. CASE \E r \in Requests : ThreadLock(r)
    <3>0. PICK r \in Requests : ThreadLock(r)
      BY <2>9
    <3>1. TypeOK'
      BY <2>0, <3>0 DEF ThreadLock, callerVars, requestVars, TypeOK
    <3>2. MutexInv'
      BY <2>0, <3>0 DEF ThreadLock, callerVars, requestVars, TypeOK, MutexInv
    <3>3. CallerInv' /\ GivenInv'
      <4>1. CallerInv'
        BY <2>0, <3>0 DEF ThreadLock, callerVars, requestVars, TypeOK, MutexInv, CallerInv, Outcome
      <4>2. GivenInv'
        BY <2>0, <3>0 DEF ThreadLock, callerVars, GivenInv
      <4> QED
        BY <4>1, <4>2
    <3>4. ASSUME NEW q \in Requests PROVE Outcome(q)'
      <4>1. TypeOK /\ MutexInv /\ CallerInv /\ Outcome(q) /\ list[q] = ListState(q)
        BY <2>0
      <4>2. CASE q = r
        BY <4>1, <4>2, <3>0 DEF ThreadLock, callerVars, requestVars, TypeOK, MutexInv, Outcome
      <4>3. CASE q # r
        BY <4>1, <4>3, <3>0 DEF ThreadLock, callerVars, requestVars, TypeOK, MutexInv, Outcome
      <4> QED
        BY <4>2, <4>3
    <3>5. ASSUME NEW q \in Requests PROVE (list[q] = ListState(q))'
      <4>1. TypeOK /\ MutexInv /\ CallerInv /\ Outcome(q) /\ list[q] = ListState(q)
        BY <2>0
      <4>2. CASE q = r
        BY <4>1, <4>2, <3>0 DEF ThreadLock, callerVars, requestVars, TypeOK, MutexInv, CallerInv, Outcome, ListState
      <4>3. CASE q # r
        BY <4>1, <4>3, <3>0 DEF ThreadLock, callerVars, requestVars, TypeOK, MutexInv, CallerInv, Outcome, ListState
      <4> QED
        BY <4>2, <4>3
    <3> QED
      BY <3>1, <3>2, <3>3, <3>4, <3>5 DEF IInv
  <2>10. CASE \E r \in Requests : FindAbandoned(r)
    <3>0. PICK r \in Requests : FindAbandoned(r)
      BY <2>10
    <3>1. TypeOK'
      BY <2>0, <3>0 DEF FindAbandoned, callerVars, requestVars, TypeOK
    <3>2. MutexInv'
      BY <2>0, <3>0 DEF FindAbandoned, callerVars, requestVars, TypeOK, MutexInv
    <3>3. CallerInv' /\ GivenInv'
      <4>1. CallerInv'
        BY <2>0, <3>0 DEF FindAbandoned, callerVars, requestVars, TypeOK, MutexInv, CallerInv, Outcome
      <4>2. GivenInv'
        BY <2>0, <3>0 DEF FindAbandoned, callerVars, GivenInv
      <4> QED
        BY <4>1, <4>2
    <3>4. ASSUME NEW q \in Requests PROVE Outcome(q)'
      <4>1. TypeOK /\ MutexInv /\ CallerInv /\ Outcome(q) /\ list[q] = ListState(q)
        BY <2>0
      <4>2. CASE q = r
        BY <4>1, <4>2, <3>0 DEF FindAbandoned, callerVars, requestVars, TypeOK, MutexInv, Outcome
      <4>3. CASE q # r
        BY <4>1, <4>3, <3>0 DEF FindAbandoned, callerVars, requestVars, TypeOK, MutexInv, Outcome
      <4> QED
        BY <4>2, <4>3
    <3>5. ASSUME NEW q \in Requests PROVE (list[q] = ListState(q))'
      <4>1. TypeOK /\ MutexInv /\ CallerInv /\ Outcome(q) /\ list[q] = ListState(q)
        BY <2>0
      <4>2. CASE q = r
        BY <4>1, <4>2, <3>0 DEF FindAbandoned, callerVars, requestVars, TypeOK, MutexInv, CallerInv, Outcome, ListState
      <4>3. CASE q # r
        BY <4>1, <4>3, <3>0 DEF FindAbandoned, callerVars, requestVars, TypeOK, MutexInv, CallerInv, Outcome, ListState
      <4> QED
        BY <4>2, <4>3
    <3> QED
      BY <3>1, <3>2, <3>3, <3>4, <3>5 DEF IInv
  <2>11. CASE \E r \in Requests : Release(r)
    <3>0. PICK r \in Requests : Release(r)
      BY <2>11
    <3>1. TypeOK'
      BY <2>0, <3>0 DEF Release, FreeAddrInfo, callerVars, requestVars, TypeOK
    <3>2. MutexInv'
      BY <2>0, <3>0 DEF Release, FreeAddrInfo, callerVars, requestVars, TypeOK, MutexInv
    <3>3. CallerInv' /\ GivenInv'
      <4>1. CallerInv'
        BY <2>0, <3>0 DEF Release, FreeAddrInfo, callerVars, requestVars, TypeOK, MutexInv, CallerInv, Outcome
      <4>2. GivenInv'
        BY <2>0, <3>0 DEF Release, FreeAddrInfo, callerVars, GivenInv
      <4> QED
        BY <4>1, <4>2
    <3>4. ASSUME NEW q \in Requests PROVE Outcome(q)'
      <4>1. TypeOK /\ MutexInv /\ CallerInv /\ Outcome(q) /\ list[q] = ListState(q)
        BY <2>0
      <4>2. CASE q = r
        BY <4>1, <4>2, <3>0 DEF Release, FreeAddrInfo, callerVars, requestVars, TypeOK, MutexInv, Outcome
      <4>3. CASE q # r
        BY <4>1, <4>3, <3>0 DEF Release, FreeAddrInfo, callerVars, requestVars, TypeOK, MutexInv, Outcome
      <4> QED
        BY <4>2, <4>3
    <3>5. ASSUME NEW q \in Requests PROVE (list[q] = ListState(q))'
      <4>1. TypeOK /\ MutexInv /\ CallerInv /\ Outcome(q) /\ list[q] = ListState(q)
        BY <2>0
      <4>2. CASE q = r
        <5>1. threadPc[r] = "releasing" /\ threadPc'[r] = "ended" /\ rc' = rc /\ abandoned' = abandoned
          BY <4>1, <3>0 DEF Release, requestVars, TypeOK
        <5>2. abandoned[r] /\ list[r] = IF rc[r] # "0" THEN "none" ELSE "live"
          BY <4>1, <4>2, <5>1 DEF Outcome, ListState
        <5>3. list'[r] = IF rc[r] # "0" THEN "none" ELSE "freed"
          BY <4>1, <5>2, <3>0 DEF Release, FreeAddrInfo, TypeOK
        <5> QED
          BY <4>2, <5>1, <5>2, <5>3 DEF ListState
      <4>3. CASE q # r
        BY <4>1, <4>3, <3>0 DEF Release, FreeAddrInfo, callerVars, requestVars, TypeOK, MutexInv, CallerInv, Outcome, ListState
      <4> QED
        BY <4>2, <4>3
    <3> QED
      BY <3>1, <3>2, <3>3, <3>4, <3>5 DEF IInv
  <2>12. CASE \E r \in Requests : Store(r)
    <3>0. PICK r \in Requests : Store(r)
      BY <2>12
    <3>1. TypeOK'
      BY <2>0, <3>0 DEF Store, callerVars, requestVars, TypeOK
    <3>2. MutexInv'
      BY <2>0, <3>0 DEF Store, callerVars, requestVars, TypeOK, MutexInv
    <3>3. CallerInv' /\ GivenInv'
      <4>1. CallerInv'
        BY <2>0, <3>0 DEF Store, callerVars, requestVars, TypeOK, MutexInv, CallerInv, Outcome
      <4>2. GivenInv'
        BY <2>0, <3>0 DEF Store, callerVars, GivenInv
      <4> QED
        BY <4>1, <4>2
    <3>4. ASSUME NEW q \in Requests PROVE Outcome(q)'
      <4>1. TypeOK /\ MutexInv /\ CallerInv /\ Outcome(q) /\ list[q] = ListState(q)
        BY <2>0
      <4>2. CASE q = r
        <5>1. /\ threadPc[r] = "storing" /\ ~abandoned[r] /\ threadPc'[r] = "notifying" /\ done'[r]
              /\ gai_error'[r] = rc[r] /\ rc'[r] = rc[r] /\ result'[r] = (rc[r] = "0")
              /\ abandoned'[r] = abandoned[r] /\ call' = call /\ callerPc' = callerPc
          BY <4>1, <3>0 DEF Store, callerVars, TypeOK
        <5> QED
          BY <4>2, <5>1 DEF Outcome
      <4>3. CASE q # r
        BY <4>1, <4>3, <3>0 DEF Store, callerVars, requestVars, TypeOK, MutexInv, Outcome
      <4> QED
        BY <4>2, <4>3
    <3>5. ASSUME NEW q \in Requests PROVE (list[q] = ListState(q))'
      <4>1. TypeOK /\ MutexInv /\ CallerInv /\ Outcome(q) /\ list[q] = ListState(q)
        BY <2>0
      <4>2. CASE q = r
        BY <4>1, <4>2, <3>0 DEF Store, callerVars, requestVars, TypeOK, MutexInv, CallerInv, Outcome, ListState
      <4>3. CASE q # r
        BY <4>1, <4>3, <3>0 DEF Store, callerVars, requestVars, TypeOK, MutexInv, CallerInv, Outcome, ListState
      <4> QED
        BY <4>2, <4>3
    <3> QED
      BY <3>1, <3>2, <3>3, <3>4, <3>5 DEF IInv
  <2>13. CASE \E r \in Requests : Notify(r)
    <3>0. PICK r \in Requests : Notify(r)
      BY <2>13
    <3>1. TypeOK'
      BY <2>0, <3>0 DEF Notify, callerVars, requestVars, TypeOK
    <3>2. MutexInv'
      BY <2>0, <3>0 DEF Notify, callerVars, requestVars, TypeOK, MutexInv
    <3>3. CallerInv' /\ GivenInv'
      <4>1. CallerInv'
        BY <2>0, <3>0 DEF Notify, callerVars, requestVars, TypeOK, MutexInv, CallerInv, Outcome
      <4>2. GivenInv'
        BY <2>0, <3>0 DEF Notify, callerVars, GivenInv
      <4> QED
        BY <4>1, <4>2
    <3>4. ASSUME NEW q \in Requests PROVE Outcome(q)'
      <4>1. TypeOK /\ MutexInv /\ CallerInv /\ Outcome(q) /\ list[q] = ListState(q)
        BY <2>0
      <4>2. CASE q = r
        BY <4>1, <4>2, <3>0 DEF Notify, callerVars, requestVars, TypeOK, MutexInv, Outcome
      <4>3. CASE q # r
        BY <4>1, <4>3, <3>0 DEF Notify, callerVars, requestVars, TypeOK, MutexInv, Outcome
      <4> QED
        BY <4>2, <4>3
    <3>5. ASSUME NEW q \in Requests PROVE (list[q] = ListState(q))'
      <4>1. TypeOK /\ MutexInv /\ CallerInv /\ Outcome(q) /\ list[q] = ListState(q)
        BY <2>0
      <4>2. CASE q = r
        <5>1. /\ threadPc[q] = "notifying" /\ threadPc'[q] = "ended"
              /\ ~abandoned[q] /\ done[q]
          BY <4>1, <4>2, <3>0 DEF Notify, TypeOK, Outcome
        <5>2. ListState(q)' = ListState(q)
          BY <5>1, <3>0 DEF Notify, callerVars, requestVars, ListState
        <5> QED
          BY <4>1, <5>2, <3>0 DEF Notify
      <4>3. CASE q # r
        BY <4>1, <4>3, <3>0 DEF Notify, callerVars, requestVars, TypeOK, MutexInv, CallerInv, Outcome, ListState
      <4> QED
        BY <4>2, <4>3
    <3> QED
      BY <3>1, <3>2, <3>3, <3>4, <3>5 DEF IInv
  <2>14. CASE UNCHANGED vars
    BY <2>0, <2>14 DEF vars, callerVars, requestVars, IInv, TypeOK, MutexInv, CallerInv, GivenInv, Outcome, ListState
  <2> QED
    BY <2>1, <2>2, <2>3, <2>4, <2>5, <2>6, <2>7, <2>8, <2>9, <2>10, <2>11, <2>12,
       <2>13, <2>14 DEF Next, Caller, Thread
<1> QED
  BY <1>1, <1>2, PTL DEF Spec

-----------------------------------------------------------------------------
\* Type correctness of the two threads and the requests they share.
THEOREM TypeCorrect == Spec => []TypeOK
<1>1. IInv => TypeOK
  BY DEF IInv
<1> QED
  BY <1>1, InductiveInvariant, PTL

\* No list is freed twice or read after it was freed, however the answer of the
\* system and the deadline of the caller are ordered (DnsRequest!ListsAreFreedOnce).
THEOREM FreedOnce == Spec => []ListsAreFreedOnce
<1>1. IInv => ListsAreFreedOnce
  <2> SUFFICES ASSUME IInv PROVE ListsAreFreedOnce
    OBVIOUS
  <2>1. ASSUME NEW r \in Requests PROVE list[r] # "freed twice"
    BY DEF IInv, ListState
  <2>2. ASSUME callerPc = "using", returned = "0" PROVE given /\ list[call] = "live"
    <3>1. call \in Requests
      BY <2>2 DEF IInv, TypeOK, MutexInv
    <3>2. Outcome(call) /\ list[call] = ListState(call) /\ TypeOK /\ CallerInv
      BY <3>1 DEF IInv
    <3>3. /\ done[call] /\ ~abandoned[call]
          /\ gai_error[call] = "0" /\ rc[call] = "0" /\ given
      BY <2>2, <3>1, <3>2 DEF CallerInv, Outcome, EAI_AGAIN
    <3> QED
      BY <3>1, <3>2, <3>3 DEF Outcome, ListState
  <2> QED
    BY <2>1, <2>2 DEF ListsAreFreedOnce
<1> QED
  BY <1>1, InductiveInvariant, PTL

\* A list nobody is going to free any more has been freed (DnsRequest!NothingLeaks).
THEOREM NoLeak == Spec => []NothingLeaks
<1>1. IInv => NothingLeaks
  <2> SUFFICES ASSUME IInv, NEW r \in Requests, threadPc[r] = "ended", call # r
               PROVE list[r] # "live"
    BY DEF NothingLeaks
  <2>1. Outcome(r) /\ list[r] = ListState(r)
    BY DEF IInv
  <2> QED
    BY <2>1 DEF Outcome, ListState
<1> QED
  BY <1>1, InductiveInvariant, PTL

\* A request has one outcome: its caller gave up with EAI_AGAIN and no list, or
\* has what the system answered, EAI_AGAIN among the answers
\* (DnsRequest!AnsweredOrAbandoned).
THEOREM OneOutcome == Spec => []AnsweredOrAbandoned
<1>1. IInv => AnsweredOrAbandoned
  <2> SUFFICES ASSUME IInv PROVE AnsweredOrAbandoned
    OBVIOUS
  <2>1. ASSUME NEW r \in Requests
        PROVE ~(done[r] /\ abandoned[r]) /\ (result[r] => done[r])
    BY DEF IInv, Outcome
  <2>2. ASSUME callerPc = "using"
        PROVE  /\ abandoned[call] => returned = EAI_AGAIN /\ ~given
               /\ ~abandoned[call] => /\ done[call] /\ returned = rc[call]
                                      /\ given <=> rc[call] = "0"
    <3>1. call \in Requests
      BY <2>2 DEF IInv, TypeOK, MutexInv
    <3>2. Outcome(call) /\ CallerInv
      BY <3>1 DEF IInv
    <3> QED
      BY <2>2, <3>2 DEF CallerInv, Outcome
  <2> QED
    BY <2>1, <2>2 DEF AnsweredOrAbandoned
<1> QED
  BY <1>1, InductiveInvariant, PTL
=============================================================================
