------------------------ MODULE FirecrackerDispatch ------------------------
(***************************************************************************)
(* One FirecrackerDispatcher and the consumer that calls its dispatch()    *)
(* method again and again (the retry decorator calls it up to three times  *)
(* for a job).  The VM process runs beside it and may exit at any moment;  *)
(* the guest answers, refuses, or says nothing.                            *)
(*                                                                         *)
(* Call number d spawns at most one process and makes at most one work     *)
(* directory, so both are named by d.  Time is counted in ticks and only   *)
(* the two deadlines of the code look at it.                               *)
(***************************************************************************)
EXTENDS Naturals, FiniteSets

CONSTANTS MaxDispatches,  \* bound: dispatch() calls in one behaviour
          BootWait,       \* _BOOT_WAIT_SECONDS, in ticks
          Wallclock       \* wallclock_seconds, in ticks

ASSUME DispatchAssumption ==
    /\ MaxDispatches \in Nat
    /\ BootWait \in Nat
    /\ Wallclock \in Nat

VARIABLES available,   \* self._available, fixed in __init__
          pc,          \* where dispatch() is
          n,           \* calls so far; the running or last one
          fc_process,  \* self._fc_process: a call number, or 0 for None
          proc,        \* the VM process of each call
          dirs,        \* calls whose work directory was made and not yet given to rmtree
          put,         \* PUT requests of the boot sequence that succeeded
          elapsed,     \* ticks since the current deadline was set
          failures,    \* cce_firecracker_boot_failures_total, all reasons
          result,      \* how the running or last call ends
          unbooted     \* calls that failed after mkdtemp and before _send_job

vars == <<available, pc, n, fc_process, proc, dirs, put, elapsed, failures, result, unbooted>>

Calls == 1..MaxDispatches
BootPuts == 5   \* boot-source, drives, machine-config, vsock, InstanceStart

(* How a call ends: it returns a DispatchResult, raises DispatchError      *)
(* (which the consumer retries), or raises anything else (which it does    *)
(* not).                                                                   *)
Results == {"none", "ok", "DispatchError", "other"}

TypeOK ==
    /\ available \in BOOLEAN
    /\ pc \in {"idle", "digests", "spawn", "socket", "boot", "send", "await", "recv",
               "teardown", "wait", "cleanup"}
    /\ n \in 0..MaxDispatches
    /\ fc_process \in 0..MaxDispatches
    /\ proc \in [Calls -> {"none", "running", "exited"}]
    /\ dirs \subseteq Calls
    /\ put \in 0..BootPuts
    /\ elapsed \in Nat
    /\ failures \in Nat
    /\ result \in Results
    /\ unbooted \subseteq Calls

Init ==
    /\ available \in BOOLEAN
    /\ pc = "idle"
    /\ n = 0
    /\ fc_process = 0
    /\ proc = [d \in Calls |-> "none"]
    /\ dirs = {}
    /\ put = 0
    /\ elapsed = 0
    /\ failures = 0
    /\ result = "none"
    /\ unbooted = {}

-----------------------------------------------------------------------------
(* dispatch() is called; without Linux and firecracker it raises at once.  *)
Call ==
    /\ pc = "idle" /\ n < MaxDispatches
    /\ n' = n + 1
    /\ put' = 0 /\ elapsed' = 0
    /\ IF available THEN pc' = "digests" /\ result' = "none"
                    ELSE pc' = "idle" /\ result' = "DispatchError"
    /\ UNCHANGED <<available, fc_process, proc, dirs, failures, unbooted>>

(* config.assert_digests() *)
DigestsMatch ==
    /\ pc = "digests"
    /\ pc' = "spawn"
    /\ UNCHANGED <<available, n, fc_process, proc, dirs, put, elapsed, failures, result, unbooted>>

DigestMismatch ==
    /\ pc = "digests"
    /\ failures' = failures + 1
    /\ result' = "DispatchError"
    /\ pc' = "idle"
    /\ UNCHANGED <<available, n, fc_process, proc, dirs, put, elapsed, unbooted>>

(* An image that cannot be read, or mkdtemp fails: an OSError, and nothing *)
(* was made.                                                               *)
PrepareFails ==
    /\ pc = "digests"
    /\ result' = "other"
    /\ pc' = "idle"
    /\ UNCHANGED <<available, n, fc_process, proc, dirs, put, elapsed, failures, unbooted>>

\* Seeded bug: a handle that is already there is kept.
SpawnKeepsHandle ==
    /\ pc = "spawn"
    /\ dirs' = dirs \cup {n}
    /\ fc_process' = IF fc_process = 0 THEN n ELSE fc_process
    /\ proc' = [proc EXCEPT ![n] = "running"]
    /\ elapsed' = 0
    /\ pc' = "socket"
    /\ UNCHANGED <<available, n, put, failures, result, unbooted>>

(* mkdtemp, then Popen of the jailer: the new process replaces whatever    *)
(* self._fc_process was.                                                   *)
Spawn ==
    /\ pc = "spawn"
    /\ dirs' = dirs \cup {n}
    /\ fc_process' = n
    /\ proc' = [proc EXCEPT ![n] = "running"]
    /\ elapsed' = 0
    /\ pc' = "socket"
    /\ UNCHANGED <<available, n, put, failures, result, unbooted>>

(* Any exception inside _spawn_vm leaves dispatch() directly: the spawn is *)
(* outside the try block whose finally clause tears the VM down.           *)
LeaveSpawn(r) ==
    /\ result' = r
    /\ pc' = "idle"
    /\ unbooted' = unbooted \cup {n}

\* Popen raises (the jailer cannot be executed).
SpawnFails ==
    /\ pc = "spawn"
    /\ dirs' = dirs \cup {n}
    /\ LeaveSpawn("other")
    /\ UNCHANGED <<available, n, fc_process, proc, put, elapsed, failures>>

(* The polling loop on the API socket, bounded by _BOOT_WAIT_SECONDS: the  *)
(* file is looked at before the process is.                                *)
SocketAppears ==
    /\ pc = "socket" /\ elapsed < BootWait
    /\ pc' = "boot"
    /\ UNCHANGED <<available, n, fc_process, proc, dirs, put, elapsed, failures, result, unbooted>>

SocketExited ==
    /\ pc = "socket" /\ elapsed < BootWait
    /\ proc[fc_process] = "exited"
    /\ failures' = failures + 1
    /\ LeaveSpawn("DispatchError")
    /\ UNCHANGED <<available, n, fc_process, proc, dirs, put, elapsed>>

\* Seeded bug: the loop gives up only when the process has exited.
SocketTimeoutIfExited ==
    /\ pc = "socket" /\ elapsed >= BootWait
    /\ proc[fc_process] = "exited"
    /\ failures' = failures + 1
    /\ LeaveSpawn("DispatchError")
    /\ UNCHANGED <<available, n, fc_process, proc, dirs, put, elapsed>>

SocketTimeout ==
    /\ pc = "socket" /\ elapsed >= BootWait
    /\ failures' = failures + 1
    /\ LeaveSpawn("DispatchError")
    /\ UNCHANGED <<available, n, fc_process, proc, dirs, put, elapsed>>

(* The boot sequence, one _api_put after the other. *)
BootPut ==
    /\ pc = "boot" /\ proc[n] = "running"
    /\ put' = put + 1
    /\ pc' = IF put' = BootPuts THEN "send" ELSE "boot"
    /\ UNCHANGED <<available, n, fc_process, proc, dirs, elapsed, failures, result, unbooted>>

(* _api_put raises DispatchError on a status that is not 200 or 204 (an    *)
(* empty answer included) and lets the socket's OSError through.           *)
BootPutFails ==
    /\ pc = "boot"
    /\ \E r \in {"DispatchError", "other"} : LeaveSpawn(r)
    /\ UNCHANGED <<available, n, fc_process, proc, dirs, put, elapsed, failures>>

-----------------------------------------------------------------------------
(* From here on every way out goes through the finally clause.             *)

(* _send_job *)
SendJob ==
    /\ pc = "send" /\ proc[n] = "running"
    /\ pc' = "await" /\ elapsed' = 0
    /\ UNCHANGED <<available, n, fc_process, proc, dirs, put, failures, result, unbooted>>

\* Seeded bug: _send_job is called outside the try block.
SendFailsUnprotected ==
    /\ pc = "send"
    /\ \E r \in {"DispatchError", "other"} : result' = r
    /\ pc' = "idle"
    /\ UNCHANGED <<available, n, fc_process, proc, dirs, put, elapsed, failures, unbooted>>

SendFails ==
    /\ pc = "send"
    /\ \E r \in {"DispatchError", "other"} : result' = r
    /\ pc' = "teardown"
    /\ UNCHANGED <<available, n, fc_process, proc, dirs, put, elapsed, failures, unbooted>>

(* _await_result: the deadline is tested once per connection attempt.      *)
(* Refused connections, CONNECT answers that are not OK and empty results  *)
(* are polled again: no change but the passing of time.                    *)
AwaitConnect ==
    /\ pc = "await" /\ elapsed < Wallclock /\ proc[n] = "running"
    /\ pc' = "recv"
    /\ UNCHANGED <<available, n, fc_process, proc, dirs, put, elapsed, failures, result, unbooted>>

AwaitTimeout ==
    /\ pc = "await" /\ elapsed >= Wallclock
    /\ result' = "DispatchError"
    /\ pc' = "teardown"
    /\ UNCHANGED <<available, n, fc_process, proc, dirs, put, elapsed, failures, unbooted>>

(* recv until the peer closes, without a timeout; then json.loads(body),   *)
(* whose ValueError nobody translates.                                     *)
RecvBody ==
    /\ pc = "recv"
    /\ \E r \in {"ok", "other"} : result' = r
    /\ pc' = "teardown"
    /\ UNCHANGED <<available, n, fc_process, proc, dirs, put, elapsed, failures, unbooted>>

RecvNothing ==
    /\ pc = "recv"
    /\ pc' = "await"
    /\ UNCHANGED <<available, n, fc_process, proc, dirs, put, elapsed, failures, result, unbooted>>

(* _teardown: SendCtrlAltDel, any exception suppressed, but its answer is  *)
(* waited for; then the handle is taken and cleared before the process is  *)
(* waited for.                                                             *)
Teardown ==
    /\ pc = "teardown"
    /\ fc_process' = 0
    /\ pc' = "wait"
    /\ UNCHANGED <<available, n, proc, dirs, put, elapsed, failures, result, unbooted>>

WaitExited ==
    /\ pc = "wait" /\ proc[n] = "exited"
    /\ pc' = "cleanup"
    /\ UNCHANGED <<available, n, fc_process, proc, dirs, put, elapsed, failures, result, unbooted>>

\* proc.wait(timeout=5) expires: SIGKILL.
WaitKill ==
    /\ pc = "wait" /\ proc[n] = "running"
    /\ proc' = [proc EXCEPT ![n] = "exited"]
    /\ pc' = "cleanup"
    /\ UNCHANGED <<available, n, fc_process, dirs, put, elapsed, failures, result, unbooted>>

(* rmtree, whose errors are ignored, and the answer is unpacked: a payload *)
(* without one of the keys raises KeyError.                                *)
Cleanup ==
    /\ pc = "cleanup"
    /\ dirs' = dirs \ {n}
    /\ result' \in IF result = "ok" THEN {"ok", "other"} ELSE {result}
    /\ pc' = "idle"
    /\ UNCHANGED <<available, n, fc_process, proc, put, elapsed, failures, unbooted>>

-----------------------------------------------------------------------------
(* A VM process exits by itself. *)
ProcExit(d) ==
    /\ proc[d] = "running"
    /\ proc' = [proc EXCEPT ![d] = "exited"]
    /\ UNCHANGED <<available, pc, n, fc_process, dirs, put, elapsed, failures, result, unbooted>>

(* Time passes while a deadline runs; past it by one tick is past it.      *)
Tick ==
    /\ \/ pc = "socket" /\ elapsed < BootWait
       \/ pc \in {"await", "recv"} /\ elapsed <= Wallclock
    /\ elapsed' = elapsed + 1
    /\ UNCHANGED <<available, pc, n, fc_process, proc, dirs, put, failures, result, unbooted>>

BootStep == \/ DigestsMatch \/ DigestMismatch \/ PrepareFails \/ Spawn \/ SpawnFails
            \/ SocketAppears \/ SocketExited \/ SocketTimeout

(* The end of a blocking read or write on a socket.  None of them has a    *)
(* timeout, so each comes only if the VMM or the guest answers or closes.  *)
PeerStep == \/ BootPut \/ BootPutFails \/ SendJob \/ SendFails
            \/ RecvBody \/ RecvNothing \/ Teardown

AwaitStep == AwaitConnect \/ AwaitTimeout

ShutdownStep == WaitExited \/ WaitKill \/ Cleanup

Next == \/ Call \/ BootStep \/ PeerStep \/ AwaitStep \/ ShutdownStep
        \/ Tick
        \/ \E d \in Calls : ProcExit(d)

Spec == Init /\ [][Next]_vars

(* The caller's thread runs and time passes.  Nothing is assumed of the    *)
(* VMM and the guest: PeerStep is not fair.                                *)
FairSpec == Spec /\ WF_vars(BootStep) /\ WF_vars(AwaitStep) /\ WF_vars(ShutdownStep)
                 /\ WF_vars(Tick)

-----------------------------------------------------------------------------
Finished(d) == d < n \/ (d = n /\ pc = "idle")

(* A call that got its VM booted cleans up, however it ends: its process   *)
(* is gone and its work directory was given to rmtree, on every path       *)
(* through _send_job, _await_result and the unpacking of the payload.      *)
BootedCallsCleanUp ==
    \A d \in Calls : Finished(d) /\ d \notin unbooted => proc[d] # "running" /\ d \notin dirs

(* While a VM is in use, the handle is that VM's: an earlier call's        *)
(* leftover is never the process that _teardown takes.                     *)
HandleIsOwnVm ==
    pc \in {"socket", "boot", "send", "await", "recv", "teardown"} => fc_process = n

(* Where dispatch() is blocked on a socket until the other side moves.     *)
PeerWaits == {"boot", "send", "recv", "teardown"}

(* Every dispatch() call returns or raises, or it hangs for ever in one    *)
(* read from a VMM or guest that neither answers nor closes.  Its own      *)
(* loops and waits end: the poll for the API socket, the repeated attempts *)
(* to fetch a result, empty answers among them, and the wait for the       *)
(* process.                                                                *)
DispatchReturns == []<>(pc = "idle") \/ <>[](pc \in PeerWaits)

-----------------------------------------------------------------------------
(* What the documentation says, and the code does not do.                  *)

(* "One microVM per scoring job" (firecracker.py:3): the attempts to       *)
(* dispatch a job leave at most one VM process running.                    *)
OneVmAtATime == Cardinality({d \in Calls : proc[d] = "running"}) <= 1

(* A call that fails while booting the VM is counted in                    *)
(* cce_firecracker_boot_failures_total.                                    *)
BootFailuresCounted == Cardinality(unbooted) <= failures

(* "In-flight job hangs > wallclock cap: the jailer kills the VM at 120 s" *)
(* (ops/runbooks/worker-stuck.md:29): no call reads on for a result after  *)
(* wallclock_seconds.                                                      *)
WaitBounded == pc = "recv" => elapsed <= Wallclock

=============================================================================
