--------------------------- MODULE DispatchProof ----------------------------
(***************************************************************************)
(* What stands between a job and its virtual machine.  CircuitBreaker: its *)
(* invariants for every set of threads, threshold, timeout and number of   *)
(* calls.  FirecrackerDispatch: what dispatch() leaves behind and whose    *)
(* process it shuts down, for any number of calls and any deadlines.       *)
(***************************************************************************)
EXTENDS CircuitBreaker, FirecrackerDispatch, TLAPS

-----------------------------------------------------------------------------
(* The circuit breaker.                                                    *)

(* What the two locked blocks do to a well-formed breaker, stated once.    *)
(* The admission block of call(), line by line: nothing but an open,       *)
(* cooled-down breaker changes, and its count is kept.                     *)
LEMMA TransitionLemma ==
    ASSUME NEW b \in BreakerType
    PROVE  /\ MaybeTransition(b) \in BreakerType
           /\ MaybeTransition(b).failure_count = b.failure_count
           /\ MaybeTransition(b).age = b.age
           /\ MaybeTransition(b).state = "half_open" <=>
                \/ b.state = "half_open"
                \/ b.state = "open" /\ b.age = RecoveryTimeout
           /\ MaybeTransition(b).state = "closed" <=> b.state = "closed"
  BY BreakerAssumption DEF MaybeTransition, BreakerType, BreakerStates

(* The except block of call(): the failure is always counted and stamped,  *)
(* and the breaker is open afterwards when the threshold is reached.       *)
LEMMA FailureLemma ==
    ASSUME NEW b \in BreakerType
    PROVE  /\ OnFailure(b) \in BreakerType
           /\ OnFailure(b).failure_count = b.failure_count + 1
           /\ OnFailure(b).age = 0
           /\ OnFailure(b).state = IF b.failure_count + 1 >= FailureThreshold
                                   THEN "open" ELSE b.state
  BY BreakerAssumption DEF OnFailure, BreakerType, BreakerStates

(* The else block of call(): only a half-open breaker closes.              *)
LEMMA SuccessLemma ==
    ASSUME NEW b \in BreakerType
    PROVE  /\ OnSuccess(b) \in BreakerType
           /\ OnSuccess(b).age = b.age
           /\ b.state = "half_open" => /\ OnSuccess(b).state = "closed"
                                       /\ OnSuccess(b).failure_count = 0
           /\ b.state # "half_open" => OnSuccess(b) = b
  BY DEF OnSuccess, BreakerType, BreakerStates

(* The breaker and the admission table stay in their types whatever the    *)
(* threads do.                                                             *)
THEOREM TypeCorrect == BreakerSpec => []BreakerTypeOK
<1>1. BreakerInit => BreakerTypeOK
  BY BreakerAssumption, CallersAssumption
  DEF BreakerInit, BreakerTypeOK, NewBreaker, BreakerType, BreakerStates
<1>2. BreakerTypeOK /\ [BreakerNext]_breakerVars => BreakerTypeOK'
  <2> SUFFICES ASSUME BreakerTypeOK, [BreakerNext]_breakerVars PROVE BreakerTypeOK'
    OBVIOUS
  <2> USE DEF BreakerTypeOK
  <2>1. ASSUME NEW c \in Callers, Admit(c) PROVE BreakerTypeOK'
    <3>1. MaybeTransition(breaker).state \in {"closed", "half_open"}
      BY <2>1, TransitionLemma DEF Admit, Rejects, BreakerType, BreakerStates
    <3> QED BY <2>1, <3>1, TransitionLemma, CallersAssumption DEF Admit
  <2>2. ASSUME NEW c \in Callers, FastFail(c) PROVE BreakerTypeOK'
    BY <2>2, CallersAssumption DEF FastFail
  <2>3. ASSUME NEW c \in Callers, RecordFailure(c) PROVE BreakerTypeOK'
    BY <2>3, FailureLemma DEF RecordFailure
  <2>4. ASSUME NEW c \in Callers, RecordSuccess(c) PROVE BreakerTypeOK'
    BY <2>4, SuccessLemma DEF RecordSuccess
  <2>5. CASE BreakerTick
    BY <2>5, BreakerAssumption DEF BreakerTick, Aged, BreakerType
  <2>6. CASE UNCHANGED breakerVars
    BY <2>6 DEF breakerVars
  <2> QED BY <2>1, <2>2, <2>3, <2>4, <2>5, <2>6 DEF BreakerNext
<1> QED BY <1>1, <1>2, PTL DEF BreakerSpec

(* StateMatchesCount alone is not inductive for the threads' late          *)
(* outcomes without the types; with them it is.                            *)
THEOREM StateMatchesCountHolds == BreakerSpec => []StateMatchesCount
<1>1. BreakerInit => StateMatchesCount
  BY BreakerAssumption DEF BreakerInit, StateMatchesCount, NewBreaker
<1>2. BreakerTypeOK /\ StateMatchesCount /\ [BreakerNext]_breakerVars => StateMatchesCount'
  <2> SUFFICES ASSUME BreakerTypeOK, StateMatchesCount, [BreakerNext]_breakerVars
               PROVE  StateMatchesCount'
    OBVIOUS
  <2>0. breaker \in BreakerType /\ breaker.failure_count \in Nat
    BY DEF BreakerTypeOK, BreakerType
  <2> USE <2>0, BreakerAssumption DEF StateMatchesCount
  <2>1. ASSUME NEW c \in Callers, Admit(c) PROVE StateMatchesCount'
    BY <2>1, TransitionLemma DEF Admit
  <2>2. ASSUME NEW c \in Callers, FastFail(c) PROVE StateMatchesCount'
    BY <2>2 DEF FastFail
  <2>3. ASSUME NEW c \in Callers, RecordFailure(c) PROVE StateMatchesCount'
    BY <2>3, FailureLemma DEF RecordFailure
  <2>4. ASSUME NEW c \in Callers, RecordSuccess(c) PROVE StateMatchesCount'
    <3>1. CASE breaker.state = "half_open"
      BY <2>4, <3>1, SuccessLemma DEF RecordSuccess
    <3>2. CASE breaker.state # "half_open"
      BY <2>4, <3>2, SuccessLemma DEF RecordSuccess
    <3> QED BY <3>1, <3>2
  <2>5. CASE BreakerTick
    BY <2>5 DEF BreakerTick, Aged, BreakerType
  <2>6. CASE UNCHANGED breakerVars
    BY <2>6 DEF breakerVars
  <2> QED BY <2>1, <2>2, <2>3, <2>4, <2>5, <2>6 DEF BreakerNext
<1> QED BY <1>1, <1>2, TypeCorrect, PTL DEF BreakerSpec

(* A half-open breaker has cooled down.  A failure keeps this only because *)
(* it always reopens a half-open breaker, which is StateMatchesCount: that *)
(* is the strengthening the induction needs.                               *)
THEOREM HalfOpenIsCoolHolds == BreakerSpec => []HalfOpenIsCool
<1> DEFINE CoolInv == BreakerTypeOK /\ StateMatchesCount /\ HalfOpenIsCool
<1>1. BreakerInit => HalfOpenIsCool
  BY DEF BreakerInit, HalfOpenIsCool, NewBreaker
<1>2. CoolInv /\ [BreakerNext]_breakerVars => HalfOpenIsCool'
  <2> SUFFICES ASSUME BreakerTypeOK, StateMatchesCount, HalfOpenIsCool, [BreakerNext]_breakerVars
               PROVE  HalfOpenIsCool'
    OBVIOUS
  <2>0. breaker \in BreakerType /\ breaker.failure_count \in Nat
        /\ breaker.age \in 0..RecoveryTimeout
    BY DEF BreakerTypeOK, BreakerType
  <2> USE <2>0, BreakerAssumption DEF HalfOpenIsCool
  <2>1. ASSUME NEW c \in Callers, Admit(c) PROVE HalfOpenIsCool'
    BY <2>1, TransitionLemma DEF Admit
  <2>2. ASSUME NEW c \in Callers, FastFail(c) PROVE HalfOpenIsCool'
    BY <2>2 DEF FastFail
  <2>3. ASSUME NEW c \in Callers, RecordFailure(c) PROVE HalfOpenIsCool'
    BY <2>3, FailureLemma DEF RecordFailure, StateMatchesCount
  <2>4. ASSUME NEW c \in Callers, RecordSuccess(c) PROVE HalfOpenIsCool'
    <3>1. CASE breaker.state = "half_open"
      BY <2>4, <3>1, SuccessLemma DEF RecordSuccess
    <3>2. CASE breaker.state # "half_open"
      BY <2>4, <3>2, SuccessLemma DEF RecordSuccess
    <3> QED BY <3>1, <3>2
  <2>5. CASE BreakerTick
    BY <2>5 DEF BreakerTick, Aged, BreakerType
  <2>6. CASE UNCHANGED breakerVars
    BY <2>6 DEF breakerVars
  <2> QED BY <2>1, <2>2, <2>3, <2>4, <2>5, <2>6 DEF BreakerNext
<1> QED BY <1>1, <1>2, TypeCorrect, StateMatchesCountHolds, PTL DEF BreakerSpec

(* No interleaving skips the trial phase.  An open breaker is not closed   *)
(* by a late outcome: call()'s else block acts on a half-open breaker only *)
(* and its except block never closes one.  A reported failure never leaves *)
(* the breaker half-open, because a half-open one has reached the          *)
(* threshold already: this again is StateMatchesCount.                     *)
THEOREM TrialPhaseNotSkippedHolds == BreakerSpec => TrialPhaseNotSkipped
<1> DEFINE Step == /\ breaker.state = "open" => breaker'.state # "closed"
                   /\ breaker'.failure_count > breaker.failure_count =>
                         breaker'.state # "half_open"
<1>1. BreakerTypeOK /\ StateMatchesCount /\ [BreakerNext]_breakerVars => [Step]_breakerVars
  <2> SUFFICES ASSUME BreakerTypeOK, StateMatchesCount, BreakerNext
               PROVE  Step
    OBVIOUS
  <2>0. breaker \in BreakerType /\ breaker.failure_count \in Nat
    BY DEF BreakerTypeOK, BreakerType
  <2> USE <2>0, BreakerAssumption
  <2>1. ASSUME NEW c \in Callers, Admit(c) PROVE Step
    BY <2>1, TransitionLemma DEF Admit
  <2>2. ASSUME NEW c \in Callers, FastFail(c) PROVE Step
    BY <2>2 DEF FastFail
  <2>3. ASSUME NEW c \in Callers, RecordFailure(c) PROVE Step
    BY <2>3, FailureLemma DEF RecordFailure, StateMatchesCount
  <2>4. ASSUME NEW c \in Callers, RecordSuccess(c) PROVE Step
    <3>1. CASE breaker.state = "half_open"
      BY <2>4, <3>1, SuccessLemma DEF RecordSuccess
    <3>2. CASE breaker.state # "half_open"
      BY <2>4, <3>2, SuccessLemma DEF RecordSuccess
    <3> QED BY <3>1, <3>2
  <2>5. CASE BreakerTick
    BY <2>5 DEF BreakerTick, Aged, BreakerType
  <2> QED BY <2>1, <2>2, <2>3, <2>4, <2>5 DEF BreakerNext
<1> QED BY <1>1, TypeCorrect, StateMatchesCountHolds, PTL
        DEF BreakerSpec, TrialPhaseNotSkipped

-----------------------------------------------------------------------------
(* The dispatcher.                                                         *)

(* Calls that are still to come, and the one under way before _spawn_vm,   *)
(* have no process and no directory; a call under way has a number; when   *)
(* only the directory is left to be removed, the process is gone.          *)
CallsInOrder ==
    /\ pc # "idle" => n \in Calls
    /\ \A d \in Calls : d > n => proc[d] = "none" /\ d \notin dirs
    /\ pc \in {"digests", "spawn"} => proc[n] = "none" /\ n \notin dirs
    /\ pc = "cleanup" => proc[n] # "running"

(* The boot sequence goes on only while one of its requests is left. *)
PutsLeft == pc \in {"digests", "spawn", "socket", "boot"} => put < BootPuts

IInv == TypeOK /\ PutsLeft /\ CallsInOrder /\ HandleIsOwnVm /\ BootedCallsCleanUp

(* Steps that change neither processes, directories nor the call number,   *)
(* and go on to a place where dispatch() is not finished.                  *)
LEMMA Proceeds ==
    ASSUME IInv, UNCHANGED <<n, proc, dirs, unbooted>>, pc # "idle", pc' # "idle",
           pc' \in {"digests", "spawn"} => pc \in {"digests", "spawn"},
           pc' = "cleanup" => proc[n] # "running"
    PROVE  CallsInOrder' /\ BootedCallsCleanUp'
<1>1. CallsInOrder'
  BY DEF IInv, CallsInOrder, Calls
<1>2. BootedCallsCleanUp'
  BY DEF IInv, BootedCallsCleanUp, Finished, Calls
<1> QED BY <1>1, <1>2

(* An exception out of _spawn_vm: the call is one that was not booted.     *)
LEMMA LeavesSpawn ==
    ASSUME IInv, pc # "idle", UNCHANGED <<n, proc>>,
           dirs' \subseteq dirs \cup {n}, NEW r, LeaveSpawn(r)
    PROVE  CallsInOrder' /\ BootedCallsCleanUp' /\ HandleIsOwnVm'
<1>0. n \in Calls /\ n \in Nat
  BY DispatchAssumption DEF IInv, CallsInOrder, Calls
<1>1. CallsInOrder'
  BY <1>0 DEF IInv, CallsInOrder, LeaveSpawn, Calls
<1>2. \A d \in Calls : d # n /\ Finished(d)' => Finished(d)
  BY <1>0 DEF Finished, Calls
<1>3. BootedCallsCleanUp'
  BY <1>0, <1>2 DEF IInv, BootedCallsCleanUp, LeaveSpawn
<1> QED BY <1>1, <1>3 DEF LeaveSpawn, HandleIsOwnVm

LEMMA IInvInit == Init => IInv
<1> SUFFICES ASSUME Init PROVE IInv
  OBVIOUS
<1>1. TypeOK
  BY DispatchAssumption DEF Init, TypeOK, BootPuts, Results
<1>2. CallsInOrder /\ PutsLeft
  BY DEF Init, CallsInOrder, PutsLeft
<1>3. HandleIsOwnVm /\ BootedCallsCleanUp
  BY DEF Init, HandleIsOwnVm, BootedCallsCleanUp
<1> QED BY <1>1, <1>2, <1>3 DEF IInv

LEMMA TypeOKNext == IInv /\ [Next]_vars => TypeOK'
<1> SUFFICES ASSUME IInv, [Next]_vars PROVE TypeOK'
  OBVIOUS
<1>0. TypeOK /\ PutsLeft /\ (pc # "idle" => n \in Calls)
  BY DEF IInv, CallsInOrder
<1>a. available' \in BOOLEAN
  BY <1>0, Zenon DEF TypeOK, Next, vars, Call, BootStep, PeerStep, AwaitStep, ShutdownStep,
     Tick, ProcExit, DigestsMatch, DigestMismatch, PrepareFails, Spawn, SpawnFails, SocketAppears,
     SocketExited, SocketTimeout, BootPut, BootPutFails, SendJob, SendFails, AwaitConnect,
     AwaitTimeout, RecvBody, RecvNothing, Teardown, WaitExited, WaitKill, Cleanup
<1> USE DispatchAssumption DEF BootPuts, Results, Calls
<1>1. CASE Call
  BY <1>0, <1>a, <1>1 DEF TypeOK, Call
<1>2. CASE DigestsMatch \/ DigestMismatch \/ PrepareFails
  <2>1. CASE DigestsMatch
    BY <1>0, <1>a, <2>1 DEF TypeOK, DigestsMatch
  <2>2. CASE DigestMismatch
    BY <1>0, <1>a, <2>2 DEF TypeOK, DigestMismatch
  <2>3. CASE PrepareFails
    BY <1>0, <1>a, <2>3 DEF TypeOK, PrepareFails
  <2> QED BY <1>2, <2>1, <2>2, <2>3
<1>3. CASE Spawn
  BY <1>0, <1>a, <1>3 DEF TypeOK, Spawn
<1>4. CASE SpawnFails
  BY <1>0, <1>a, <1>4 DEF TypeOK, SpawnFails, LeaveSpawn
<1>5. CASE SocketAppears
  BY <1>0, <1>a, <1>5 DEF TypeOK, SocketAppears
<1>6. CASE SocketExited \/ SocketTimeout
  <2>1. CASE SocketExited
    BY <1>0, <1>a, <2>1 DEF TypeOK, SocketExited, LeaveSpawn
  <2>2. CASE SocketTimeout
    BY <1>0, <1>a, <2>2 DEF TypeOK, SocketTimeout, LeaveSpawn
  <2> QED BY <1>6, <2>1, <2>2
<1>7. CASE BootPut
  <2>1. put' \in 0..5 /\ UNCHANGED <<n, fc_process, proc, dirs, elapsed, failures, result, unbooted>>
    BY <1>0, <1>7 DEF TypeOK, PutsLeft, BootPut
  <2>2. pc' \in {"boot", "send"}
    BY <1>7 DEF BootPut
  <2> QED BY <1>0, <1>a, <2>1, <2>2 DEF TypeOK
<1>8. CASE BootPutFails
  BY <1>0, <1>a, <1>8 DEF TypeOK, BootPutFails, LeaveSpawn
<1>9. CASE SendJob \/ SendFails \/ AwaitStep
  <2>1. CASE SendJob
    BY <1>0, <1>a, <2>1 DEF TypeOK, SendJob
  <2>2. CASE SendFails
    BY <1>0, <1>a, <2>2 DEF TypeOK, SendFails
  <2>3. CASE AwaitConnect
    BY <1>0, <1>a, <2>3 DEF TypeOK, AwaitConnect
  <2>4. CASE AwaitTimeout
    BY <1>0, <1>a, <2>4 DEF TypeOK, AwaitTimeout
  <2> QED BY <1>9, <2>1, <2>2, <2>3, <2>4 DEF AwaitStep
<1>10. CASE RecvBody \/ RecvNothing
  BY <1>0, <1>a, <1>10 DEF TypeOK, RecvBody, RecvNothing
<1>11. CASE Teardown \/ ShutdownStep
  <2>1. CASE Teardown
    BY <1>0, <1>a, <2>1 DEF TypeOK, Teardown
  <2>2. CASE WaitExited
    BY <1>0, <1>a, <2>2 DEF TypeOK, WaitExited
  <2>3. CASE WaitKill
    BY <1>0, <1>a, <2>3 DEF TypeOK, WaitKill
  <2>4. CASE Cleanup
    BY <1>0, <1>a, <2>4 DEF TypeOK, Cleanup
  <2> QED BY <1>11, <2>1, <2>2, <2>3, <2>4 DEF ShutdownStep
<1>12. CASE Tick
  BY <1>0, <1>a, <1>12 DEF TypeOK, Tick
<1>13. ASSUME NEW d \in Calls, ProcExit(d) PROVE TypeOK'
  BY <1>0, <1>a, <1>13 DEF TypeOK, ProcExit
<1>14. CASE UNCHANGED vars
  BY <1>0, <1>14 DEF TypeOK, vars
<1> QED BY <1>1, <1>2, <1>3, <1>4, <1>5, <1>6, <1>7, <1>8, <1>9, <1>10, <1>11, <1>12, <1>13, <1>14
        DEF Next, BootStep, PeerStep

(* PutsLeft and HandleIsOwnVm follow the program counter.                  *)
LEMMA PutsLeftNext == IInv /\ [Next]_vars => PutsLeft'
<1> SUFFICES ASSUME IInv, [Next]_vars PROVE PutsLeft'
  OBVIOUS
<1> USE DEF IInv, PutsLeft, BootPuts
<1>1. CASE Call
  BY <1>1 DEF Call
<1>2. CASE BootPut
  <2>1. put \in 0..5 /\ put < 5 /\ put' = put + 1
    BY <1>2 DEF BootPut, TypeOK
  <2>2. pc' = "boot" => put' # 5
    BY <1>2 DEF BootPut
  <2>3. pc' \in {"boot", "send"}
    BY <1>2 DEF BootPut
  <2> QED BY <2>1, <2>2, <2>3
<1>3. CASE \/ DigestsMatch \/ DigestMismatch \/ PrepareFails \/ Spawn \/ SpawnFails
           \/ SocketAppears \/ SocketExited \/ SocketTimeout \/ BootPutFails
  BY <1>3 DEF DigestsMatch, DigestMismatch, PrepareFails, Spawn, SpawnFails, SocketAppears,
              SocketExited, SocketTimeout, BootPutFails, LeaveSpawn
<1>4. CASE \/ SendJob \/ SendFails \/ RecvBody \/ RecvNothing \/ Teardown
           \/ AwaitStep \/ ShutdownStep
  BY <1>4 DEF SendJob, SendFails, AwaitStep, AwaitConnect, AwaitTimeout, RecvBody,
              RecvNothing, Teardown, ShutdownStep, WaitExited, WaitKill, Cleanup
<1>5. CASE Tick \/ UNCHANGED vars \/ \E d \in Calls : ProcExit(d)
  BY <1>5 DEF Tick, vars, ProcExit
<1> QED BY <1>1, <1>2, <1>3, <1>4, <1>5 DEF Next, BootStep, PeerStep

LEMMA HandleNext == IInv /\ [Next]_vars => HandleIsOwnVm'
<1> SUFFICES ASSUME IInv, [Next]_vars PROVE HandleIsOwnVm'
  OBVIOUS
<1> USE DEF IInv, HandleIsOwnVm
<1>1. CASE Call
  BY <1>1 DEF Call
<1>2. CASE \/ DigestsMatch \/ DigestMismatch \/ PrepareFails \/ Spawn \/ SpawnFails
           \/ SocketAppears \/ SocketExited \/ SocketTimeout \/ BootPut \/ BootPutFails
  BY <1>2 DEF DigestsMatch, DigestMismatch, PrepareFails, Spawn, SpawnFails, SocketAppears,
              SocketExited, SocketTimeout, BootPut, BootPutFails, LeaveSpawn
<1>3. CASE \/ SendJob \/ SendFails \/ RecvBody \/ RecvNothing \/ Teardown
           \/ AwaitStep \/ ShutdownStep
  BY <1>3 DEF SendJob, SendFails, AwaitStep, AwaitConnect, AwaitTimeout, RecvBody,
              RecvNothing, Teardown, ShutdownStep, WaitExited, WaitKill, Cleanup
<1>4. CASE Tick \/ UNCHANGED vars \/ \E d \in Calls : ProcExit(d)
  BY <1>4 DEF Tick, vars, ProcExit
<1> QED BY <1>1, <1>2, <1>3, <1>4 DEF Next, BootStep, PeerStep

LEMMA CallsNext == IInv /\ [Next]_vars => CallsInOrder' /\ BootedCallsCleanUp'
<1> SUFFICES ASSUME IInv, [Next]_vars PROVE CallsInOrder' /\ BootedCallsCleanUp'
  OBVIOUS
<1>0. TypeOK /\ CallsInOrder /\ BootedCallsCleanUp
  BY DEF IInv
<1>n. n \in Nat /\ Calls \subseteq Nat /\ MaxDispatches \in Nat
  BY <1>0, DispatchAssumption DEF TypeOK, Calls
<1>1. CASE Call
  <2>1. n' = n + 1 /\ n < MaxDispatches /\ pc = "idle" /\ UNCHANGED <<proc, dirs, unbooted>>
    BY <1>1 DEF Call
  <2>2. pc' \in {"digests", "idle"}
    BY <1>1 DEF Call
  <2>3. n + 1 \in Calls
    BY <1>n, <2>1 DEF Calls
  <2>4. CallsInOrder'
    BY <1>0, <1>n, <2>1, <2>2, <2>3 DEF CallsInOrder
  <2>5. \A d \in Calls : Finished(d)' => Finished(d) \/ d = n + 1
    BY <1>n, <2>1 DEF Finished
  <2>6. proc[n + 1] = "none" /\ n + 1 \notin dirs
    BY <1>0, <1>n, <2>3 DEF CallsInOrder
  <2>7. BootedCallsCleanUp'
    BY <1>0, <2>1, <2>5, <2>6 DEF BootedCallsCleanUp
  <2> QED BY <2>4, <2>7
<1>2. CASE DigestsMatch
  BY <1>2, Proceeds DEF DigestsMatch
<1>3. CASE DigestMismatch \/ PrepareFails
  <2>1. pc = "digests" /\ pc' = "idle" /\ UNCHANGED <<n, proc, dirs, unbooted>>
    BY <1>3 DEF DigestMismatch, PrepareFails
  <2>2. proc[n] = "none" /\ n \notin dirs
    BY <1>0, <2>1 DEF CallsInOrder
  <2>3. CallsInOrder'
    BY <1>0, <2>1 DEF CallsInOrder
  <2>4. \A d \in Calls : Finished(d)' => Finished(d) \/ d = n
    BY <2>1 DEF Finished
  <2>5. BootedCallsCleanUp'
    BY <1>0, <2>1, <2>2, <2>4 DEF BootedCallsCleanUp
  <2> QED BY <2>3, <2>5
<1>4. CASE Spawn
  <2>1. /\ pc = "spawn" /\ pc' = "socket" /\ UNCHANGED <<n, unbooted>>
        /\ dirs' = dirs \cup {n}
        /\ proc' = [proc EXCEPT ![n] = "running"]
    BY <1>4 DEF Spawn
  <2>2. \A d \in Calls : d # n => proc'[d] = proc[d]
    BY <1>0, <2>1 DEF TypeOK
  <2>3. n \in Calls
    BY <1>0, <2>1 DEF CallsInOrder
  <2>4. CallsInOrder'
    BY <1>0, <1>n, <2>1, <2>2, <2>3 DEF CallsInOrder
  <2>5. \A d \in Calls : Finished(d)' => Finished(d) /\ d # n
    BY <1>n, <2>1 DEF Finished
  <2>6. BootedCallsCleanUp'
    BY <1>0, <2>1, <2>2, <2>5 DEF BootedCallsCleanUp
  <2> QED BY <2>4, <2>6
<1>5. CASE SpawnFails
  BY <1>5, LeavesSpawn DEF SpawnFails
<1>6. CASE SocketExited \/ SocketTimeout
  BY <1>6, LeavesSpawn DEF SocketExited, SocketTimeout
<1>7. CASE BootPutFails
  BY <1>7, LeavesSpawn DEF BootPutFails
<1>8. CASE SocketAppears \/ BootPut
  BY <1>8, Proceeds DEF SocketAppears, BootPut
<1>9. CASE SendJob \/ SendFails \/ AwaitStep \/ RecvBody \/ RecvNothing
  BY <1>9, Proceeds DEF SendJob, SendFails, AwaitStep, AwaitConnect, AwaitTimeout,
                        RecvBody, RecvNothing
<1>10. CASE Teardown \/ WaitExited
  BY <1>10, Proceeds DEF Teardown, WaitExited
<1>11. ASSUME NEW d \in Calls, proc' = [proc EXCEPT ![d] = "exited"], proc[d] = "running",
              UNCHANGED <<n, dirs, unbooted>>, pc' = pc \/ (pc = "wait" /\ pc' = "cleanup" /\ d = n)
       PROVE  CallsInOrder' /\ BootedCallsCleanUp'
  <2>1. proc'[d] = "exited" /\ \A i \in Calls : i # d => proc'[i] = proc[i]
    BY <1>0, <1>11 DEF TypeOK
  <2>2. CallsInOrder'
    BY <1>0, <1>11, <2>1 DEF CallsInOrder
  <2>3. \A i \in Calls : Finished(i)' => Finished(i)
    BY <1>11 DEF Finished
  <2>4. BootedCallsCleanUp'
    BY <1>0, <1>11, <2>1, <2>3 DEF BootedCallsCleanUp
  <2> QED BY <2>2, <2>4
<1>12. CASE WaitKill
  <2>1. n \in Calls
    BY <1>0, <1>12 DEF CallsInOrder, WaitKill
  <2> QED BY <1>11, <1>12, <2>1 DEF WaitKill
<1>13. ASSUME NEW d \in Calls, ProcExit(d) PROVE CallsInOrder' /\ BootedCallsCleanUp'
  BY <1>11, <1>13 DEF ProcExit
<1>14. CASE Cleanup
  <2>1. /\ pc = "cleanup" /\ pc' = "idle" /\ UNCHANGED <<n, proc, unbooted>>
        /\ dirs' = dirs \ {n}
    BY <1>14 DEF Cleanup
  <2>2. proc[n] # "running"
    BY <1>0, <2>1 DEF CallsInOrder
  <2>3. CallsInOrder'
    BY <1>0, <2>1 DEF CallsInOrder
  <2>4. \A d \in Calls : Finished(d)' => Finished(d) \/ d = n
    BY <2>1 DEF Finished
  <2>5. BootedCallsCleanUp'
    BY <1>0, <2>1, <2>2, <2>4 DEF BootedCallsCleanUp
  <2> QED BY <2>3, <2>5
<1>15. CASE Tick \/ UNCHANGED vars
  BY <1>0, <1>15 DEF Tick, vars, CallsInOrder, BootedCallsCleanUp, Finished
<1> QED BY <1>1, <1>2, <1>3, <1>4, <1>5, <1>6, <1>7, <1>8, <1>9, <1>10, <1>12, <1>13, <1>14, <1>15
        DEF Next, BootStep, PeerStep, ShutdownStep

LEMMA IInvHolds == Spec => []IInv
<1>1. IInv /\ [Next]_vars => IInv'
  BY TypeOKNext, PutsLeftNext, HandleNext, CallsNext DEF IInv
<1> QED BY <1>1, IInvInit, PTL DEF Spec

(* A call whose VM was booted leaves no process, and no work directory     *)
(* that rmtree was not called for, on every path, for any number of calls  *)
(* before it.                                                              *)
THEOREM BootedCallsCleanUpHolds == Spec => []BootedCallsCleanUp
<1>1. IInv => BootedCallsCleanUp
  BY DEF IInv
<1> QED BY <1>1, IInvHolds, PTL

(* From Popen to _teardown, self._fc_process is the VM of this call, also  *)
(* after calls that failed to boot and left theirs behind.                 *)
THEOREM HandleIsOwnVmHolds == Spec => []HandleIsOwnVm
<1>1. IInv => HandleIsOwnVm
  BY DEF IInv
<1> QED BY <1>1, IInvHolds, PTL

=============================================================================
