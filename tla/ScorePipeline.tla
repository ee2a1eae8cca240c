--------------------------- MODULE ScorePipeline ---------------------------
(***************************************************************************)
(* The life of a scoring job: ScoreService.create_score writes the row,    *)
(* audits it and hands the job to the queue; JobConsumer.run_once takes it *)
(* out, marks it running, dispatches it through the retry decorator and    *)
(* the circuit breaker, and writes the outcome.  Every repository or queue *)
(* call is one step, because other workers, other requests, a storage      *)
(* error or a crash can come between any two of them.                      *)
(*                                                                         *)
(* Storage is Postgres (rows, audit events) and the record store; a held   *)
(* or queued JobRecord is a copy, as it is once the queue leaves the       *)
(* process.  JobSource has get and put and no acknowledgement: get removes *)
(* the job.                                                                *)
(***************************************************************************)
EXTENDS Breaker, Sequences, FiniteSets, Functions

CONSTANTS Jobs,         \* job ids (uuid4)
          Tenants,      \* principals' tenants
          Commits,      \* commit SHAs that are scored
          Hashes,       \* record hashes
          RecordHash,   \* the record hash the pipeline computes for a commit
          NoId,         \* no job id
          NoHash,       \* record_hash = None
          NoTenant,     \* the record store has no record under a hash
          Apis,         \* concurrent create_score requests
          Workers,      \* JobConsumer processes
          MaxAttempts,  \* max_attempts of the dispatch retry (3 in the code)
          MaxFaults     \* bound: storage errors and crashes in one behaviour

ASSUME PipelineAssumption ==
    /\ RecordHash \in [Commits -> Hashes]
    /\ IsFiniteSet(Workers)
    /\ NoId \notin Jobs
    /\ NoHash \notin Hashes
    /\ NoTenant \notin Tenants
    /\ MaxAttempts \in Nat \ {0}
    /\ MaxFaults \in Nat

VARIABLES req,       \* tenant and commit of the request that creates each job
          rows,      \* the jobs table
          records,   \* the record store: tenant of the record under a hash
          audits,    \* audit_events of each job, oldest first
          queue,     \* the JobSource: a FIFO of JobRecords
          apc,       \* where each create_score request is
          ajob,      \* the JobRecord it holds
          wpc,       \* where each consumer is in run_once and _process
          wjob,      \* the JobRecord it holds
          attempt,   \* the attempt the retry decorator is at
          breaker,   \* each consumer's dispatch_cb
          failures,  \* each consumer's cce_job_failures_total by reason
          forgotten, \* observer: what the counters of ended consumers had reached
          faults     \* storage errors and crashes so far

store == <<rows, records, audits>>
apis == <<apc, ajob>>
workers == <<wpc, wjob, attempt>>
counters == <<failures, forgotten>>
vars == <<req, store, queue, apis, workers, breaker, counters, faults>>

Statuses == {"queued", "running", "succeeded", "failed"}
Terminal == {"succeeded", "failed"}
Errors == {"none", "circuit_open", "retry_exhausted", "unexpected"}
Reasons == {"retry_exhausted", "dispatch", "unexpected"}
NewCounter == [r \in Reasons |-> 0]
Actions == {"score.create", "score.failed", "score.succeeded"}

JobRecord == [job_id : Jobs, status : Statuses, error : Errors,
              record_hash : Hashes \cup {NoHash}]

(* A job as create_score builds it. *)
NewJob(j) == [job_id |-> j, status |-> "queued", error |-> "none", record_hash |-> NoHash]

(* None: no row in the table, no job in hand. *)
NoJob == [job_id |-> NoId, status |-> "absent", error |-> "none", record_hash |-> NoHash]

ApiPcs == {"idle", "audit", "dispatch"}
WorkerPcs == {"idle", "mark", "gate", "dispatch", "fail_update", "fail_audit",
              "requeue_update", "requeue_put", "upsert", "succeed_update", "succeed_audit"}

TypeOK ==
    /\ req \in [Jobs -> [tenant : Tenants, commit : Commits]]
    /\ rows \in [Jobs -> JobRecord \cup {NoJob}]
    /\ records \in [Hashes -> Tenants \cup {NoTenant}]
    /\ audits \in [Jobs -> Seq(Actions)]
    /\ queue \in Seq(JobRecord)
    /\ apc \in [Apis -> ApiPcs]
    /\ ajob \in [Apis -> JobRecord \cup {NoJob}]
    /\ wpc \in [Workers -> WorkerPcs]
    /\ wjob \in [Workers -> JobRecord \cup {NoJob}]
    /\ attempt \in [Workers -> 1..MaxAttempts]
    /\ breaker \in [Workers -> BreakerType]
    /\ failures \in [Workers -> [Reasons -> Nat]]
    /\ forgotten \in Nat
    /\ faults \in 0..MaxFaults

Init ==
    /\ req \in [Jobs -> [tenant : Tenants, commit : Commits]]
    /\ rows = [j \in Jobs |-> NoJob]
    /\ records = [h \in Hashes |-> NoTenant]
    /\ audits = [j \in Jobs |-> << >>]
    /\ queue = << >>
    /\ apc = [a \in Apis |-> "idle"]
    /\ ajob = [a \in Apis |-> NoJob]
    /\ wpc = [w \in Workers |-> "idle"]
    /\ wjob = [w \in Workers |-> NoJob]
    /\ attempt = [w \in Workers |-> 1]
    /\ breaker = [w \in Workers |-> NewBreaker]
    /\ failures = [w \in Workers |-> NewCounter]
    /\ forgotten = 0
    /\ faults = 0

-----------------------------------------------------------------------------
(* JobRepo.update and AuditRepo.append: one committed transaction each.    *)

Update(job) == rows' = [rows EXCEPT ![job.job_id] = job]
AppendAudit(job, action) ==
    audits' = [audits EXCEPT ![job.job_id] = Append(audits[job.job_id], action)]

(* Where a request handler or a consumer goes next, and the JobRecord it   *)
(* holds there.                                                            *)
ApiGoto(a, pc, job) == /\ apc' = [apc EXCEPT ![a] = pc]
                       /\ ajob' = [ajob EXCEPT ![a] = job]
ApiDone(a) == ApiGoto(a, "idle", NoJob)

Goto(w, pc, job) == /\ wpc' = [wpc EXCEPT ![w] = pc]
                    /\ wjob' = [wjob EXCEPT ![w] = job]
                    /\ UNCHANGED attempt
Done(w) == /\ wpc' = [wpc EXCEPT ![w] = "idle"]
           /\ wjob' = [wjob EXCEPT ![w] = NoJob]
           /\ attempt' = [attempt EXCEPT ![w] = 1]

-----------------------------------------------------------------------------
(* ScoreService.create_score, once the request has passed its checks.      *)

(* jobs.create(job) *)
ApiCreate(a, j) ==
    /\ apc[a] = "idle"
    /\ rows[j] = NoJob
    /\ rows' = [rows EXCEPT ![j] = NewJob(j)]
    /\ ApiGoto(a, "audit", NewJob(j))
    /\ UNCHANGED <<req, records, audits, queue, workers, breaker, counters, faults>>

(* audits.append(score.create) *)
ApiAudit(a) ==
    /\ apc[a] = "audit"
    /\ AppendAudit(ajob[a], "score.create")
    /\ ApiGoto(a, "dispatch", ajob[a])
    /\ UNCHANGED <<req, rows, records, queue, workers, breaker, counters, faults>>

\* Seeded bug: the put is repeated after its acknowledgement was lost.
ApiDispatchTwice(a) ==
    /\ apc[a] = "dispatch"
    /\ queue' = queue \o <<ajob[a], ajob[a]>>
    /\ ApiDone(a)
    /\ UNCHANGED <<req, store, workers, breaker, counters, faults>>

(* dispatcher(job) puts the job on the queue; the request is answered.     *)
(* Without a dispatcher (service.py:193) no job ever leaves create_score:  *)
(* the service here has been given one.                                    *)
ApiDispatch(a) ==
    /\ apc[a] = "dispatch"
    /\ queue' = Append(queue, ajob[a])
    /\ ApiDone(a)
    /\ UNCHANGED <<req, store, workers, breaker, counters, faults>>

(* A storage or queue error, or the end of the process, after jobs.create: *)
(* nothing undoes what was written and nobody else knows the job.          *)
ApiFault(a) ==
    /\ apc[a] # "idle"
    /\ faults < MaxFaults
    /\ faults' = faults + 1
    /\ ApiDone(a)
    /\ UNCHANGED <<req, store, queue, workers, breaker, counters>>

-----------------------------------------------------------------------------
(* JobConsumer.run_once and _process.                                      *)

(* run_once: source.get returns a job. *)
Get(w) ==
    /\ wpc[w] = "idle"
    /\ queue # << >>
    /\ Goto(w, "mark", Head(queue))
    /\ queue' = Tail(queue)
    /\ UNCHANGED <<req, store, apis, breaker, counters, faults>>

(* _process: status = RUNNING, jobs.update(job). *)
MarkRunning(w) ==
    /\ wpc[w] = "mark"
    /\ LET job == [wjob[w] EXCEPT !.status = "running"]
       IN  Update(job) /\ Goto(w, "gate", job)
    /\ UNCHANGED <<req, records, audits, queue, apis, breaker, counters, faults>>

(* dispatch_cb.call, first locked block: the call is admitted. *)
GateAdmit(w) ==
    /\ wpc[w] = "gate"
    /\ ~Rejects(breaker[w])
    /\ breaker' = [breaker EXCEPT ![w] = MaybeTransition(breaker[w])]
    /\ Goto(w, "dispatch", wjob[w])
    /\ UNCHANGED <<req, store, queue, apis, counters, faults>>

(* dispatch_cb.call raises CircuitBreakerOpenError: the job keeps its      *)
(* status and gets the error text.                                         *)
GateReject(w) ==
    /\ wpc[w] = "gate"
    /\ Rejects(breaker[w])
    /\ Goto(w, "requeue_update", [wjob[w] EXCEPT !.error = "circuit_open"])
    /\ UNCHANGED <<req, store, queue, apis, breaker, counters, faults>>

(* An attempt raises DispatchError and another one is left. *)
DispatchRetry(w) ==
    /\ wpc[w] = "dispatch"
    /\ attempt[w] < MaxAttempts
    /\ attempt' = [attempt EXCEPT ![w] = attempt[w] + 1]
    /\ UNCHANGED <<req, store, queue, apis, wpc, wjob, breaker, counters, faults>>

\* Seeded bug: one of the branches does not count the failure.
DispatchRaisesUncounted(w, reason) ==
    /\ wpc[w] = "dispatch"
    /\ breaker' = [breaker EXCEPT ![w] = OnFailure(breaker[w])]
    /\ Goto(w, "fail_update", [wjob[w] EXCEPT !.status = "failed", !.error = reason])
    /\ UNCHANGED <<req, store, queue, apis, counters, faults>>

(* An exception leaves dispatch_cb.call: the breaker records the failure,  *)
(* the counter is incremented and the job is marked failed in memory.      *)
DispatchRaises(w, reason) ==
    /\ wpc[w] = "dispatch"
    /\ breaker' = [breaker EXCEPT ![w] = OnFailure(breaker[w])]
    /\ failures' = [failures EXCEPT ![w][reason] = failures[w][reason] + 1]
    /\ Goto(w, "fail_update", [wjob[w] EXCEPT !.status = "failed", !.error = reason])
    /\ UNCHANGED <<req, store, queue, apis, forgotten, faults>>

(* The last attempt raises DispatchError: the retry decorator turns it     *)
(* into RetryExhaustedError, so `except DispatchError` is never reached.   *)
DispatchExhausted(w) ==
    /\ attempt[w] = MaxAttempts
    /\ DispatchRaises(w, "retry_exhausted")

(* Any attempt raises something that is not a DispatchError, which the     *)
(* decorator does not catch.                                               *)
DispatchUnexpected(w) == DispatchRaises(w, "unexpected")

\* Seeded bug: the row is updated without the record having been stored.
DispatchOkNoUpsert(w) ==
    /\ wpc[w] = "dispatch"
    /\ breaker' = [breaker EXCEPT ![w] = OnSuccess(breaker[w])]
    /\ Goto(w, "succeed_update", wjob[w])
    /\ UNCHANGED <<req, store, queue, apis, counters, faults>>

(* dispatcher.dispatch returns a result. *)
DispatchOk(w) ==
    /\ wpc[w] = "dispatch"
    /\ breaker' = [breaker EXCEPT ![w] = OnSuccess(breaker[w])]
    /\ Goto(w, "upsert", wjob[w])
    /\ UNCHANGED <<req, store, queue, apis, counters, faults>>

\* Seeded bug: a failed job is put back on the queue for another try.
FailUpdateAndRequeue(w) ==
    /\ wpc[w] = "fail_update"
    /\ Update(wjob[w])
    /\ Goto(w, "requeue_put", wjob[w])
    /\ UNCHANGED <<req, records, audits, queue, apis, breaker, counters, faults>>

(* jobs.update(job) of a failed job.  Only the RetryExhaustedError branch  *)
(* goes on to audit it.                                                    *)
FailUpdate(w) ==
    /\ wpc[w] = "fail_update"
    /\ Update(wjob[w])
    /\ IF wjob[w].error = "retry_exhausted" THEN Goto(w, "fail_audit", wjob[w]) ELSE Done(w)
    /\ UNCHANGED <<req, records, audits, queue, apis, breaker, counters, faults>>

(* audits.append(score.failed) *)
FailAudit(w) ==
    /\ wpc[w] = "fail_audit"
    /\ AppendAudit(wjob[w], "score.failed")
    /\ Done(w)
    /\ UNCHANGED <<req, rows, records, queue, apis, breaker, counters, faults>>

\* Seeded bug: the error is set on the copy and not saved.
RequeueWithoutUpdate(w) ==
    /\ wpc[w] = "requeue_update"
    /\ Goto(w, "requeue_put", wjob[w])
    /\ UNCHANGED <<req, store, queue, apis, breaker, counters, faults>>

\* Seeded bug: the rejected job is saved and not put back.
RequeueWithoutPut(w) ==
    /\ wpc[w] = "requeue_update"
    /\ Update(wjob[w])
    /\ Done(w)
    /\ UNCHANGED <<req, records, audits, queue, apis, breaker, counters, faults>>

(* jobs.update(job) of a job the open breaker turned away. *)
RequeueUpdate(w) ==
    /\ wpc[w] = "requeue_update"
    /\ Update(wjob[w])
    /\ Goto(w, "requeue_put", wjob[w])
    /\ UNCHANGED <<req, records, audits, queue, apis, breaker, counters, faults>>

(* source.put(job) *)
RequeuePut(w) ==
    /\ wpc[w] = "requeue_put"
    /\ queue' = Append(queue, wjob[w])
    /\ Done(w)
    /\ UNCHANGED <<req, store, apis, breaker, counters, faults>>

(* records.upsert: the key is the record hash alone, so the last writer's  *)
(* tenant replaces the one before.                                         *)
Upsert(w) ==
    /\ wpc[w] = "upsert"
    /\ LET r == req[wjob[w].job_id]
       IN  records' = [records EXCEPT ![RecordHash[r.commit]] = r.tenant]
    /\ Goto(w, "succeed_update", wjob[w])
    /\ UNCHANGED <<req, rows, audits, queue, apis, breaker, counters, faults>>

\* Seeded bug: the outcome is audited although the row was not saved.
SucceedWithoutUpdate(w) ==
    /\ wpc[w] = "succeed_update"
    /\ Goto(w, "succeed_audit", wjob[w])
    /\ UNCHANGED <<req, store, queue, apis, breaker, counters, faults>>

(* status = SUCCEEDED, record_hash, error = None; jobs.update(job). *)
SucceedUpdate(w) ==
    /\ wpc[w] = "succeed_update"
    /\ LET job == [wjob[w] EXCEPT !.status = "succeeded",
                                  !.record_hash = RecordHash[req[wjob[w].job_id].commit],
                                  !.error = "none"]
       IN  Update(job) /\ Goto(w, "succeed_audit", job)
    /\ UNCHANGED <<req, records, audits, queue, apis, breaker, counters, faults>>

(* audits.append(score.succeeded) *)
SucceedAudit(w) ==
    /\ wpc[w] = "succeed_audit"
    /\ AppendAudit(wjob[w], "score.succeeded")
    /\ Done(w)
    /\ UNCHANGED <<req, rows, records, queue, apis, breaker, counters, faults>>

(* A repository or queue call raises (for the record store, after its own  *)
(* three attempts): the exception leaves run_once and the job with it.     *)
(* A call that took effect and then raised is the call's own step followed *)
(* by this one.  Inside the dispatch every exception is caught.            *)
StorageFault(w) ==
    /\ wpc[w] \notin {"idle", "dispatch"}
    /\ faults < MaxFaults
    /\ faults' = faults + 1
    /\ Done(w)
    /\ UNCHANGED <<req, store, queue, apis, breaker, counters>>

(* What a counter shows, over all reasons. *)
Total(counter) == counter["retry_exhausted"] + counter["unexpected"] + counter["dispatch"]

(* The worker process ends, at any point, and is started again: its        *)
(* breaker and its counter, which are in memory, are new ones.             *)
Crash(w) ==
    /\ faults < MaxFaults
    /\ faults' = faults + 1
    /\ Done(w)
    /\ breaker' = [breaker EXCEPT ![w] = NewBreaker]
    /\ failures' = [failures EXCEPT ![w] = NewCounter]
    /\ forgotten' = forgotten + Total(failures[w])
    /\ UNCHANGED <<req, store, queue, apis>>

(* Time passes; only an open breaker looks at the clock. *)
Tick ==
    /\ \E w \in Workers : breaker[w].state = "open" /\ breaker[w].age < RecoveryTimeout
    /\ breaker' = [w \in Workers |-> Aged(breaker[w])]
    /\ UNCHANGED <<req, store, queue, apis, workers, counters, faults>>

ApiStep(a) == (\E j \in Jobs : ApiCreate(a, j)) \/ ApiAudit(a) \/ ApiDispatch(a)

DispatchStep(w) ==
    \/ DispatchRetry(w) \/ DispatchExhausted(w) \/ DispatchUnexpected(w) \/ DispatchOk(w)

WorkerStep(w) ==
    \/ Get(w) \/ MarkRunning(w) \/ GateAdmit(w) \/ GateReject(w)
    \/ DispatchStep(w)
    \/ FailUpdate(w) \/ FailAudit(w)
    \/ RequeueUpdate(w) \/ RequeuePut(w)
    \/ Upsert(w) \/ SucceedUpdate(w) \/ SucceedAudit(w)

Next == \/ \E a \in Apis : ApiStep(a) \/ ApiFault(a)
        \/ \E w \in Workers : WorkerStep(w) \/ StorageFault(w) \/ Crash(w)
        \/ Tick

Spec == Init /\ [][Next]_vars

(* A request that was started is carried through and a consumer keeps      *)
(* calling run_once; the clock goes on.  Nobody is obliged to send a       *)
(* request.  A dispatch is assumed to end, in any way: dispatch() itself   *)
(* does not bound its waits for the machine (see FirecrackerDispatch).     *)
Fairness == /\ \A a \in Apis : WF_vars(ApiAudit(a) \/ ApiDispatch(a))
            /\ \A w \in Workers : WF_vars(WorkerStep(w))
            /\ WF_vars(Tick)

FairSpec == Spec /\ Fairness

-----------------------------------------------------------------------------
(* A job has one owner: a request handler, a place in the queue, or a      *)
(* consumer.  Nothing in the code locks a job; that it is never processed  *)
(* twice rests on create_score handing it over once and on _process        *)
(* either finishing it or putting it back once.                            *)
SingleOwner ==
    /\ \A a, b \in Apis : ajob[a].job_id = ajob[b].job_id => a = b \/ ajob[a].job_id = NoId
    /\ \A v, w \in Workers : wjob[v].job_id = wjob[w].job_id => v = w \/ wjob[v].job_id = NoId
    /\ \A i, k \in 1..Len(queue) : queue[i].job_id = queue[k].job_id => i = k
    /\ \A a \in Apis, w \in Workers : ajob[a].job_id = wjob[w].job_id => wjob[w].job_id = NoId
    /\ \A a \in Apis, i \in 1..Len(queue) : ajob[a].job_id # queue[i].job_id
    /\ \A w \in Workers, i \in 1..Len(queue) : wjob[w].job_id # queue[i].job_id

(* A JobRecord that waits in the queue is what the jobs table holds, and   *)
(* its job is not finished; a consumer's copy differs from the row only    *)
(* between the assignment and the update that follows it.  jobs.update     *)
(* writes every column, so a stale copy would undo somebody's write.       *)
CopiesAgree ==
    /\ \A i \in 1..Len(queue) : /\ rows[queue[i].job_id] = queue[i]
                                /\ queue[i].status \in {"queued", "running"}
    /\ \A a \in Apis : apc[a] # "idle" => rows[ajob[a].job_id] = ajob[a]
    /\ \A w \in Workers : wpc[w] \notin {"idle", "requeue_update", "fail_update"} =>
          rows[wjob[w].job_id] = wjob[w]

(* No step changes a finished job: a late update by a consumer or a        *)
(* requeued copy never takes a job out of SUCCEEDED or FAILED, and its     *)
(* record hash and error stay what the client was told.                    *)
TerminalIsFinal ==
    [][ \A j \in Jobs : rows[j].status \in Terminal => rows'[j] = rows[j] ]_vars

(* A client that sees SUCCEEDED can look the record up: the record of the  *)
(* job's commit is in the record store before the row says so, and no      *)
(* crash between the two writes leaves the row ahead.                      *)
SucceededHasRecord ==
    \A j \in Jobs : rows[j].status = "succeeded" =>
        /\ rows[j].record_hash = RecordHash[req[j].commit]
        /\ records[rows[j].record_hash] # NoTenant

(* Everything the pipeline does looks to a client like the life of a job   *)
(* in JobLifecycle: being taken again after a rejection by the breaker,    *)
(* retried dispatches, copies in the queue, storage errors and crashes are *)
(* invisible in the jobs table, the record store and the audit log, but    *)
(* for the delay.  In particular the audit log never runs ahead of the     *)
(* jobs table, and has at most one outcome of a job, the one its row has.  *)
Lifecycle == INSTANCE JobLifecycle WITH
    status <- [j \in Jobs |-> rows[j].status],
    hash <- [j \in Jobs |-> rows[j].record_hash],
    stored <- {h \in Hashes : records[h] # NoTenant},
    log <- audits
ImplementsJobLifecycle == Lifecycle!Spec

Unowned(j) == /\ \A a \in Apis : ajob[a].job_id # j
              /\ \A i \in 1..Len(queue) : queue[i].job_id # j
              /\ \A w \in Workers : wjob[w].job_id # j

(* A job that exists, that nobody holds any more, and that is not finished *)
(* or whose outcome event is still due.  The unexpected branch audits      *)
(* nothing, so nothing is due there.                                       *)
Abandoned(j) ==
    /\ rows[j] # NoJob
    /\ Unowned(j)
    /\ \/ rows[j].status \notin Terminal
       \/ rows[j].error # "unexpected" /\ Len(audits[j]) < 2

(* Only faults lose work: every storage error or crash abandons at most    *)
(* one job, and no sequence of rejections by the breaker abandons any.     *)
FaultsBoundLoss == Cardinality({j \in Jobs : Abandoned(j)}) <= faults

(* Every failed job was counted once, by one consumer: what the counters   *)
(* show, and had reached in consumers that are gone, is ahead of the jobs  *)
(* table by the updates still to come and the ones a fault prevented, and  *)
(* never behind it.  The counters alone fall behind by what restarts       *)
(* forget, and by nothing else.                                            *)
CounterTracksRows ==
    LET counted == SumFunctionOnSet([w \in Workers |-> Total(failures[w])], Workers)
        failed  == Cardinality({j \in Jobs : rows[j].status = "failed"})
        coming  == Cardinality({w \in Workers : wpc[w] = "fail_update"})
    IN  /\ failed + coming <= counted + forgotten
        /\ counted + forgotten <= failed + coming + faults

(* Every job comes to rest: it succeeds, fails, or a fault abandons it.    *)
(* The requeue loop of an open breaker cannot go on for ever.              *)
JobsSettle ==
    \A j \in Jobs : rows[j] # NoJob ~> rows[j].status \in Terminal \/ Unowned(j)

-----------------------------------------------------------------------------
(* What the documentation says, and the code does not do.                  *)

(* ScoreService.get_record(t, h) finds a record. *)
GetRecord(t, h) == records[h] = t

(* "GET /v1/records/{record_hash} Fetch a completed scoring record": the   *)
(* tenant of a succeeded job can fetch its record.                         *)
SucceededRecordReadable ==
    \A j \in Jobs : rows[j].status = "succeeded" =>
        GetRecord(req[j].tenant, rows[j].record_hash)

(* "Pick a failed job from the audit log"                                  *)
(* (ops/runbooks/firecracker-boot-fail.md:11), and "records the failure in *)
(* Postgres audit_events" (firecracker.py:20): a failed job is found there *)
(* once its consumer has returned.                                         *)
FailureAudited ==
    \A j \in Jobs : rows[j].status = "failed" /\ Unowned(j) =>
        \E i \in 1..Len(audits[j]) : audits[j][i] = "score.failed"

(* A job that failed because every dispatch attempt raised DispatchError   *)
(* is counted under reason="dispatch", as long as no consumer restarts.    *)
DispatchFailuresCounted ==
    faults = 0 /\ (\E j \in Jobs : rows[j].status = "failed" /\ rows[j].error = "retry_exhausted")
        => \E w \in Workers : failures[w]["dispatch"] > 0

(* Taking workers down loses no in-flight job: an unfinished job is always *)
(* held by somebody who will go on with it.                                *)
NoInFlightJobLost ==
    \A j \in Jobs : rows[j] # NoJob /\ rows[j].status \notin Terminal => ~Unowned(j)

=============================================================================
