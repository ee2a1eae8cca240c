------------------------ MODULE ScorePipelineProof ------------------------
(***************************************************************************)
(* The safety of the job pipeline for any number of jobs, tenants,         *)
(* requests, workers, attempts and faults.                                 *)
(***************************************************************************)
EXTENDS ScorePipeline, Sums

-----------------------------------------------------------------------------
(* The breaker's operators keep a breaker in its type.                     *)
LEMMA BreakerTypes ==
    /\ NewBreaker \in BreakerType
    /\ \A b \in BreakerType : /\ MaybeTransition(b) \in BreakerType
                              /\ OnFailure(b) \in BreakerType
                              /\ OnSuccess(b) \in BreakerType
                              /\ Aged(b) \in BreakerType
<1> USE BreakerAssumption DEF BreakerType, BreakerStates
<1>1. NewBreaker \in BreakerType
  BY DEF NewBreaker
<1>2. ASSUME NEW b \in BreakerType PROVE MaybeTransition(b) \in BreakerType
  BY DEF MaybeTransition
<1>3. ASSUME NEW b \in BreakerType PROVE OnFailure(b) \in BreakerType
  BY DEF OnFailure
<1>4. ASSUME NEW b \in BreakerType PROVE OnSuccess(b) \in BreakerType
  BY DEF OnSuccess
<1>5. ASSUME NEW b \in BreakerType PROVE Aged(b) \in BreakerType
  BY DEF Aged
<1> QED BY <1>1, <1>2, <1>3, <1>4, <1>5

(* What create_score and _process assign to a JobRecord keeps it one.      *)
LEMMA JobRecordTypes ==
    /\ \A j \in Jobs : NewJob(j) \in JobRecord
    /\ NoJob \notin JobRecord
    /\ \A job \in JobRecord :
         /\ job.job_id \in Jobs
         /\ [job EXCEPT !.status = "running"] \in JobRecord
         /\ [job EXCEPT !.error = "circuit_open"] \in JobRecord
         /\ \A e \in Errors : [job EXCEPT !.status = "failed", !.error = e] \in JobRecord
         /\ \A h \in Hashes :
              [job EXCEPT !.status = "succeeded", !.record_hash = h, !.error = "none"]
                 \in JobRecord
  BY PipelineAssumption DEF NewJob, NoJob, JobRecord, Statuses, Errors

(* A request handler or consumer that is somewhere holds a job, and an     *)
(* idle one holds none.                                                    *)
HoldersTyped ==
    /\ \A a \in Apis : IF apc[a] = "idle" THEN ajob[a] = NoJob ELSE ajob[a] \in JobRecord
    /\ \A w \in Workers : IF wpc[w] = "idle" THEN wjob[w] = NoJob ELSE wjob[w] \in JobRecord

TInv == TypeOK /\ HoldersTyped

LEMMA TInvInit == Init => TInv
<1> SUFFICES ASSUME Init PROVE TInv
  OBVIOUS
<1>1. NewBreaker \in BreakerType
  BY BreakerTypes
<1>2. /\ audits \in [Jobs -> Seq(Actions)]
      /\ queue \in Seq(JobRecord)
  BY DEF Init
<1>3. attempt \in [Workers -> 1..MaxAttempts] /\ faults \in 0..MaxFaults
  BY PipelineAssumption DEF Init
<1>4. failures \in [Workers -> [Reasons -> Nat]] /\ forgotten \in Nat
  BY DEF Init, NewCounter
<1> QED
  BY <1>1, <1>2, <1>3, <1>4, PipelineAssumption
  DEF Init, TInv, TypeOK, HoldersTyped, ApiPcs, WorkerPcs

LEMMA TInvNext == TInv /\ [Next]_vars => TInv'
<1> SUFFICES ASSUME TInv, [Next]_vars PROVE TInv'
  OBVIOUS
<1> USE PipelineAssumption DEF TInv, TypeOK, HoldersTyped, ApiPcs, WorkerPcs, store, apis, workers, counters
<1>1. ASSUME NEW a \in Apis, NEW j \in Jobs, ApiCreate(a, j) PROVE TInv'
  BY <1>1, JobRecordTypes DEF ApiCreate, ApiGoto
<1>2. ASSUME NEW a \in Apis, ApiAudit(a) PROVE TInv'
  <2>1. ajob[a] \in JobRecord /\ ajob[a].job_id \in Jobs
    BY <1>2, JobRecordTypes DEF ApiAudit
  <2>2. Append(audits[ajob[a].job_id], "score.create") \in Seq(Actions)
    BY <2>1 DEF Actions
  <2> QED BY <1>2, <2>1, <2>2 DEF ApiAudit, AppendAudit, ApiGoto
<1>3. ASSUME NEW a \in Apis, ApiDispatch(a) PROVE TInv'
  <2>1. queue' \in Seq(JobRecord)
    BY <1>3 DEF ApiDispatch
  <2> QED BY <1>3, <2>1 DEF ApiDispatch, ApiDone, ApiGoto
<1>4. ASSUME NEW a \in Apis, ApiFault(a) PROVE TInv'
  BY <1>4 DEF ApiFault, ApiDone, ApiGoto
<1>5. ASSUME NEW w \in Workers, Get(w) PROVE TInv'
  <2>1. Head(queue) \in JobRecord /\ Tail(queue) \in Seq(JobRecord)
    BY <1>5 DEF Get
  <2> QED BY <1>5, <2>1 DEF Get, Goto
<1>6. ASSUME NEW w \in Workers, MarkRunning(w) PROVE TInv'
  <2> DEFINE job == [wjob[w] EXCEPT !.status = "running"]
  <2>1. job \in JobRecord /\ job.job_id \in Jobs
    BY <1>6, JobRecordTypes DEF MarkRunning
  <2>2. Update(job) /\ Goto(w, "gate", job)
    BY <1>6 DEF MarkRunning
  <2>3. UNCHANGED <<req, records, audits, queue, apis, breaker, counters, faults>>
    BY <1>6 DEF MarkRunning
  <2> HIDE DEF job
  <2> QED BY <2>1, <2>2, <2>3 DEF Update, Goto
<1>7. ASSUME NEW w \in Workers, GateAdmit(w) PROVE TInv'
  BY <1>7, BreakerTypes DEF GateAdmit, Goto
<1>8. ASSUME NEW w \in Workers, GateReject(w) PROVE TInv'
  BY <1>8, JobRecordTypes DEF GateReject, Goto
<1>9. ASSUME NEW w \in Workers, DispatchRetry(w) PROVE TInv'
  BY <1>9 DEF DispatchRetry
<1>10. ASSUME NEW w \in Workers, NEW reason \in {"retry_exhausted", "unexpected"},
              DispatchRaises(w, reason)
       PROVE TInv'
  <2> DEFINE job == [wjob[w] EXCEPT !.status = "failed", !.error = reason]
  <2>1. job \in JobRecord
    BY <1>10, JobRecordTypes DEF DispatchRaises, Errors
  <2>2. Goto(w, "fail_update", job)
    BY <1>10 DEF DispatchRaises
  <2>3. reason \in Reasons
    BY DEF Reasons
  <2> HIDE DEF job
  <2> QED BY <1>10, <2>1, <2>2, <2>3, BreakerTypes DEF DispatchRaises, Goto
<1>11. ASSUME NEW w \in Workers, DispatchOk(w) PROVE TInv'
  BY <1>11, BreakerTypes DEF DispatchOk, Goto
<1>12. ASSUME NEW w \in Workers, FailUpdate(w) PROVE TInv'
  <2>1. wjob[w] \in JobRecord /\ wjob[w].job_id \in Jobs
    BY <1>12, JobRecordTypes DEF FailUpdate
  <2>2. rows' \in [Jobs -> JobRecord \cup {NoJob}]
    BY <1>12, <2>1 DEF FailUpdate, Update
  <2>3. CASE Goto(w, "fail_audit", wjob[w])
    BY <1>12, <2>1, <2>2, <2>3 DEF FailUpdate, Goto
  <2>4. CASE Done(w)
    BY <1>12, <2>1, <2>2, <2>4 DEF FailUpdate, Done
  <2> QED BY <1>12, <2>3, <2>4 DEF FailUpdate
<1>13. ASSUME NEW w \in Workers, FailAudit(w) PROVE TInv'
  <2>1. wjob[w] \in JobRecord /\ wjob[w].job_id \in Jobs
    BY <1>13, JobRecordTypes DEF FailAudit
  <2>2. Append(audits[wjob[w].job_id], "score.failed") \in Seq(Actions)
    BY <2>1 DEF Actions
  <2> QED BY <1>13, <2>1, <2>2 DEF FailAudit, AppendAudit, Done
<1>14. ASSUME NEW w \in Workers, RequeueUpdate(w) PROVE TInv'
  BY <1>14, JobRecordTypes DEF RequeueUpdate, Update, Goto
<1>15. ASSUME NEW w \in Workers, RequeuePut(w) PROVE TInv'
  <2>1. queue' \in Seq(JobRecord)
    BY <1>15 DEF RequeuePut
  <2> QED BY <1>15, <2>1 DEF RequeuePut, Done
<1>16. ASSUME NEW w \in Workers, Upsert(w) PROVE TInv'
  <2>1. wjob[w].job_id \in Jobs
    BY <1>16, JobRecordTypes DEF Upsert
  <2> QED BY <1>16, <2>1 DEF Upsert, Goto
<1>17. ASSUME NEW w \in Workers, SucceedUpdate(w) PROVE TInv'
  <2> DEFINE h == RecordHash[req[wjob[w].job_id].commit]
             job == [wjob[w] EXCEPT !.status = "succeeded", !.record_hash = h,
                                    !.error = "none"]
  <2>1. wjob[w].job_id \in Jobs /\ wjob[w] \in JobRecord
    BY <1>17, JobRecordTypes DEF SucceedUpdate
  <2>2. h \in Hashes
    BY <2>1
  <2>3. Update(job) /\ Goto(w, "succeed_audit", job)
    BY <1>17 DEF SucceedUpdate
  <2>6. UNCHANGED <<req, records, audits, queue, apis, breaker, counters, faults>>
    BY <1>17 DEF SucceedUpdate
  <2> HIDE DEF h
  <2>4. job \in JobRecord
    BY <2>1, <2>2, JobRecordTypes
  <2> HIDE DEF job
  <2>5. job.job_id \in Jobs
    BY <2>4, JobRecordTypes
  <2> QED BY <2>3, <2>4, <2>5, <2>6 DEF Update, Goto
<1>18. ASSUME NEW w \in Workers, SucceedAudit(w) PROVE TInv'
  <2>1. wjob[w] \in JobRecord /\ wjob[w].job_id \in Jobs
    BY <1>18, JobRecordTypes DEF SucceedAudit
  <2>2. Append(audits[wjob[w].job_id], "score.succeeded") \in Seq(Actions)
    BY <2>1 DEF Actions
  <2> QED BY <1>18, <2>1, <2>2 DEF SucceedAudit, AppendAudit, Done
<1>19. ASSUME NEW w \in Workers, StorageFault(w) PROVE TInv'
  BY <1>19 DEF StorageFault, Done
<1>20. ASSUME NEW w \in Workers, Crash(w) PROVE TInv'
  <2>1. NewCounter \in [Reasons -> Nat]
    BY DEF NewCounter
  <2>2. Total(failures[w]) \in Nat
    BY DEF Total, Reasons
  <2> QED BY <1>20, <2>1, <2>2, BreakerTypes DEF Crash, Done
<1>21. CASE Tick
  BY <1>21, BreakerTypes DEF Tick
<1>22. CASE UNCHANGED vars
  BY <1>22 DEF vars
<1> QED
  BY <1>1, <1>2, <1>3, <1>4, <1>5, <1>6, <1>7, <1>8, <1>9, <1>10, <1>11, <1>12, <1>13,
     <1>14, <1>15, <1>16, <1>17, <1>18, <1>19, <1>20, <1>21, <1>22
  DEF Next, ApiStep, WorkerStep, DispatchStep, DispatchExhausted, DispatchUnexpected

(* Types: every row, queued message and held JobRecord is well formed, and *)
(* the retry decorator never goes past max_attempts.                       *)
THEOREM TypeCorrect == Spec => []TypeOK
<1>1. TInv => TypeOK
  BY DEF TInv
<1> QED BY <1>1, TInvInit, TInvNext, PTL DEF Spec

-----------------------------------------------------------------------------
(* Ownership.  Only four kinds of step move a job id: creating it, handing *)
(* it from a request or a worker to the queue, taking it from the queue,   *)
(* and letting go of it.                                                   *)

(* Which step of _process a consumer is at says what status its copy has   *)
(* and what status the row still has.  This is the strengthening that      *)
(* makes CopiesAgree and TerminalIsFinal inductive.                        *)
WorkerPhase(w) ==
    /\ wpc[w] \notin {"idle", "fail_update", "requeue_update"} =>
          rows[wjob[w].job_id] = wjob[w]
    /\ wpc[w] \in {"fail_update", "requeue_update"} => rows[wjob[w].job_id].status = "running"
    /\ wpc[w] = "mark" => wjob[w].status \in {"queued", "running"}
    /\ wpc[w] \in {"gate", "dispatch", "requeue_update", "requeue_put",
                   "upsert", "succeed_update"} => wjob[w].status = "running"
    /\ wpc[w] \in {"fail_update", "fail_audit"} => wjob[w].status = "failed"
    /\ wpc[w] = "succeed_audit" => wjob[w].status = "succeeded"

PhaseMatchesStatus ==
    /\ \A a \in Apis : apc[a] # "idle" =>
          rows[ajob[a].job_id] = ajob[a] /\ ajob[a].status = "queued"
    /\ \A i \in 1..Len(queue) :
          rows[queue[i].job_id] = queue[i] /\ queue[i].status \in {"queued", "running"}
    /\ \A w \in Workers : WorkerPhase(w)

OInv == TInv /\ SingleOwner /\ PhaseMatchesStatus

(* What waits in the queue is a JobRecord with a real id.                  *)
LEMMA QueueTypes ==
    ASSUME TInv
    PROVE  /\ queue \in Seq(JobRecord) /\ Len(queue) \in Nat
           /\ \A i \in 1..Len(queue) : /\ queue[i] \in JobRecord
                                        /\ queue[i].job_id \in Jobs
                                        /\ queue[i].job_id # NoId
<1>1. queue \in Seq(JobRecord)
  BY DEF TInv, TypeOK
<1>2. \A i \in 1..Len(queue) : queue[i] \in JobRecord
  BY <1>1
<1>3. \A job \in JobRecord : job.job_id \in Jobs
  BY DEF JobRecord
<1> QED BY <1>1, <1>2, <1>3, PipelineAssumption

(* A step that moves no job id keeps every job with its owner.             *)
LEMMA SameIds ==
    ASSUME SingleOwner, queue' = queue,
           \A a \in Apis : ajob'[a].job_id = ajob[a].job_id,
           \A w \in Workers : wjob'[w].job_id = wjob[w].job_id
    PROVE  SingleOwner'
  BY DEF SingleOwner

(* A consumer that lets go of its job takes it from nobody.                *)
LEMMA DoneKeepsOwners ==
    ASSUME TInv, SingleOwner, NEW w \in Workers, Done(w), UNCHANGED <<queue, ajob>>
    PROVE  SingleOwner'
<1>1. wjob'[w].job_id = NoId /\ \A v \in Workers : v # w => wjob'[v] = wjob[v]
  BY DEF Done, NoJob, TInv, TypeOK
<1> QED BY <1>1, QueueTypes DEF SingleOwner

(* What put() leaves in the queue.                                         *)
LEMMA PutElements ==
    ASSUME TInv, NEW job \in JobRecord, queue' = Append(queue, job)
    PROVE  \A i \in 1..Len(queue') : \/ i = Len(queue) + 1 /\ queue'[i] = job
                                     \/ i \in 1..Len(queue) /\ queue'[i] = queue[i]
<1>1. /\ Len(queue') = Len(queue) + 1
      /\ queue'[Len(queue) + 1] = job
      /\ \A i \in 1..Len(queue) : queue'[i] = queue[i]
  BY QueueTypes
<1> QED BY <1>1, QueueTypes

(* A job nobody holds any more, put at the end of the queue, has the queue *)
(* as its one owner.                                                       *)
LEMMA PutKeepsOwners ==
    ASSUME TInv, SingleOwner, NEW job \in JobRecord,
           queue' = Append(queue, job),
           \A i \in 1..Len(queue) : queue[i].job_id # job.job_id,
           \A a \in Apis : /\ ajob'[a].job_id # job.job_id
                           /\ ajob'[a].job_id \in {ajob[a].job_id, NoId},
           \A w \in Workers : /\ wjob'[w].job_id # job.job_id
                              /\ wjob'[w].job_id \in {wjob[w].job_id, NoId}
    PROVE  SingleOwner'
<1>2. \A i \in 1..Len(queue') : \/ i = Len(queue) + 1 /\ queue'[i] = job
                                \/ i \in 1..Len(queue) /\ queue'[i] = queue[i]
  BY PutElements
<1>3. /\ \A a, b \in Apis : ajob'[a].job_id = ajob'[b].job_id =>
                                a = b \/ ajob'[a].job_id = NoId
      /\ \A v, w \in Workers : wjob'[v].job_id = wjob'[w].job_id =>
                                v = w \/ wjob'[v].job_id = NoId
      /\ \A a \in Apis, w \in Workers : ajob'[a].job_id = wjob'[w].job_id =>
                                wjob'[w].job_id = NoId
  BY DEF SingleOwner
<1>4. \A i, k \in 1..Len(queue') : queue'[i].job_id = queue'[k].job_id => i = k
  BY <1>2 DEF SingleOwner
<1>5. \A a \in Apis, i \in 1..Len(queue') : ajob'[a].job_id # queue'[i].job_id
  BY <1>2, QueueTypes DEF SingleOwner
<1>6. \A w \in Workers, i \in 1..Len(queue') : wjob'[w].job_id # queue'[i].job_id
  BY <1>2, QueueTypes DEF SingleOwner
<1> QED BY <1>3, <1>4, <1>5, <1>6 DEF SingleOwner

(* EXCEPT on any field but the id keeps the id.                            *)
LEMMA SameId ==
    ASSUME NEW job \in JobRecord \cup {NoJob}
    PROVE  /\ [job EXCEPT !.status = "running"].job_id = job.job_id
           /\ [job EXCEPT !.error = "circuit_open"].job_id = job.job_id
           /\ \A e \in Errors : [job EXCEPT !.status = "failed", !.error = e].job_id = job.job_id
           /\ \A h \in Hashes : [job EXCEPT !.status = "succeeded", !.record_hash = h,
                                            !.error = "none"].job_id = job.job_id
  BY DEF JobRecord, NoJob

LEMMA SingleOwnerNext == OInv /\ [Next]_vars => SingleOwner'
<1> SUFFICES ASSUME OInv, [Next]_vars PROVE SingleOwner'
  OBVIOUS
<1>0. TInv /\ SingleOwner /\ PhaseMatchesStatus
  BY DEF OInv
<1>t. /\ \A a \in Apis : ajob[a] \in JobRecord \cup {NoJob}
      /\ \A w \in Workers : wjob[w] \in JobRecord \cup {NoJob}
      /\ ajob = [a \in Apis |-> ajob[a]]
      /\ wjob = [w \in Workers |-> wjob[w]]
  BY <1>0 DEF TInv, TypeOK
<1> USE <1>0, <1>t DEF store, apis, workers
<1>1. ASSUME NEW a \in Apis, NEW j \in Jobs, ApiCreate(a, j) PROVE SingleOwner'
  <2>1. /\ \A b \in Apis : ajob[b].job_id # j
        /\ \A w \in Workers : wjob[w].job_id # j
        /\ \A i \in 1..Len(queue) : queue[i].job_id # j
    BY <1>1, PipelineAssumption DEF ApiCreate, PhaseMatchesStatus, WorkerPhase, NoJob, TInv, HoldersTyped
  <2>2. ajob'[a].job_id = j /\ \A b \in Apis : b # a => ajob'[b] = ajob[b]
    BY <1>1 DEF ApiCreate, ApiGoto, NewJob
  <2>3. UNCHANGED <<queue, wjob>>
    BY <1>1 DEF ApiCreate
  <2> QED BY <2>1, <2>2, <2>3 DEF SingleOwner
<1>2. ASSUME NEW a \in Apis, ApiAudit(a) PROVE SingleOwner'
  BY <1>2, SameIds DEF ApiAudit, ApiGoto
<1>3. ASSUME NEW a \in Apis, ApiDispatch(a) PROVE SingleOwner'
  <2>1. ajob[a] \in JobRecord /\ ajob[a].job_id \in Jobs
    BY <1>3, JobRecordTypes DEF ApiDispatch, TInv, HoldersTyped
  <2>2. ajob'[a].job_id = NoId /\ \A b \in Apis : b # a => ajob'[b] = ajob[b]
    BY <1>3 DEF ApiDispatch, ApiDone, ApiGoto, NoJob
  <2>3. queue' = Append(queue, ajob[a]) /\ wjob' = wjob
    BY <1>3 DEF ApiDispatch
  <2>4. \A i \in 1..Len(queue) : queue[i].job_id # ajob[a].job_id
    BY DEF SingleOwner
  <2>5. /\ \A b \in Apis : /\ ajob'[b].job_id # ajob[a].job_id
                          /\ ajob'[b].job_id \in {ajob[b].job_id, NoId}
        /\ \A u \in Workers : /\ wjob'[u].job_id # ajob[a].job_id
                             /\ wjob'[u].job_id \in {wjob[u].job_id, NoId}
    BY <2>1, <2>2, <2>3, PipelineAssumption DEF SingleOwner
  <2> QED BY <2>1, <2>3, <2>4, <2>5, PutKeepsOwners
<1>4. ASSUME NEW a \in Apis, ApiFault(a) PROVE SingleOwner'
  <2>2. ajob'[a].job_id = NoId /\ \A b \in Apis : b # a => ajob'[b] = ajob[b]
    BY <1>4 DEF ApiFault, ApiDone, ApiGoto, NoJob
  <2>3. UNCHANGED <<queue, wjob>>
    BY <1>4 DEF ApiFault
  <2> QED BY <2>2, <2>3, QueueTypes DEF SingleOwner
<1>5. ASSUME NEW w \in Workers, Get(w) PROVE SingleOwner'
  <2>1. /\ wjob'[w] = queue[1]
        /\ \A v \in Workers : v # w => wjob'[v] = wjob[v]
    BY <1>5 DEF Get, Goto
  <2>2. /\ 1 \in 1..Len(queue)
        /\ Len(queue') = Len(queue) - 1
        /\ \A i \in 1..Len(queue') : queue'[i] = queue[i + 1]
    BY <1>5, QueueTypes DEF Get
  <2>3. ajob' = ajob
    BY <1>5 DEF Get
  <2>4. \A i \in 1..Len(queue') : i + 1 \in 1..Len(queue) /\ i + 1 # 1
    BY <2>2, QueueTypes
  <2>5. \A i, k \in 1..Len(queue') : queue'[i].job_id = queue'[k].job_id => i = k
    <3> TAKE i, k \in 1..Len(queue')
    <3> HAVE queue'[i].job_id = queue'[k].job_id
    <3>1. i + 1 = k + 1
      BY <2>2, <2>4 DEF SingleOwner
    <3> QED BY <3>1
  <2>6. \A v \in Workers, i \in 1..Len(queue') : wjob'[v].job_id # queue'[i].job_id
    BY <2>1, <2>2, <2>4 DEF SingleOwner
  <2>7. \A a \in Apis, i \in 1..Len(queue') : ajob'[a].job_id # queue'[i].job_id
    BY <2>2, <2>3, <2>4 DEF SingleOwner
  <2>8. /\ \A u, v \in Workers : wjob'[u].job_id = wjob'[v].job_id =>
                                  u = v \/ wjob'[u].job_id = NoId
        /\ \A a \in Apis, v \in Workers : ajob'[a].job_id = wjob'[v].job_id =>
                                  wjob'[v].job_id = NoId
    BY <2>1, <2>2, <2>3 DEF SingleOwner
  <2> QED BY <2>3, <2>5, <2>6, <2>7, <2>8 DEF SingleOwner
<1>6. ASSUME NEW w \in Workers, MarkRunning(w) PROVE SingleOwner'
  <2>1. wjob' = [wjob EXCEPT ![w] = [wjob[w] EXCEPT !.status = "running"]]
    BY <1>6 DEF MarkRunning, Goto
  <2> QED BY <1>6, <2>1, SameId, SameIds DEF MarkRunning
<1>7. ASSUME NEW w \in Workers, GateAdmit(w) PROVE SingleOwner'
  BY <1>7, SameIds DEF GateAdmit, Goto
<1>8. ASSUME NEW w \in Workers, GateReject(w) PROVE SingleOwner'
  BY <1>8, SameId, SameIds DEF GateReject, Goto
<1>9. ASSUME NEW w \in Workers, DispatchRetry(w) PROVE SingleOwner'
  BY <1>9, SameIds DEF DispatchRetry
<1>10. ASSUME NEW w \in Workers, NEW reason \in {"retry_exhausted", "unexpected"},
              DispatchRaises(w, reason)
       PROVE SingleOwner'
  <2>1. reason \in Errors
    BY DEF Errors
  <2> QED BY <1>10, <2>1, SameId, SameIds DEF DispatchRaises, Goto
<1>11. ASSUME NEW w \in Workers, DispatchOk(w) PROVE SingleOwner'
  BY <1>11, SameIds DEF DispatchOk, Goto
<1>12. ASSUME NEW w \in Workers, FailUpdate(w) PROVE SingleOwner'
  <2>1. CASE Goto(w, "fail_audit", wjob[w])
    BY <1>12, <2>1, SameIds DEF FailUpdate, Goto
  <2>2. CASE Done(w)
    BY <1>12, <2>2, DoneKeepsOwners DEF FailUpdate
  <2> QED BY <1>12, <2>1, <2>2 DEF FailUpdate
<1>13. ASSUME NEW w \in Workers, FailAudit(w) PROVE SingleOwner'
  BY <1>13, DoneKeepsOwners DEF FailAudit
<1>14. ASSUME NEW w \in Workers, RequeueUpdate(w) PROVE SingleOwner'
  BY <1>14, SameIds DEF RequeueUpdate, Goto
<1>15. ASSUME NEW w \in Workers, RequeuePut(w) PROVE SingleOwner'
  <2>1. wjob[w] \in JobRecord /\ wjob[w].job_id \in Jobs
    BY <1>15, JobRecordTypes DEF RequeuePut, TInv, HoldersTyped
  <2>2. wjob'[w].job_id = NoId /\ \A v \in Workers : v # w => wjob'[v] = wjob[v]
    BY <1>15 DEF RequeuePut, Done, NoJob
  <2>3. queue' = Append(queue, wjob[w]) /\ ajob' = ajob
    BY <1>15 DEF RequeuePut
  <2>4. \A i \in 1..Len(queue) : queue[i].job_id # wjob[w].job_id
    BY DEF SingleOwner
  <2>5. /\ \A b \in Apis : /\ ajob'[b].job_id # wjob[w].job_id
                          /\ ajob'[b].job_id \in {ajob[b].job_id, NoId}
        /\ \A u \in Workers : /\ wjob'[u].job_id # wjob[w].job_id
                             /\ wjob'[u].job_id \in {wjob[u].job_id, NoId}
    BY <2>1, <2>2, <2>3, PipelineAssumption DEF SingleOwner
  <2> QED BY <2>1, <2>3, <2>4, <2>5, PutKeepsOwners
<1>16. ASSUME NEW w \in Workers, Upsert(w) PROVE SingleOwner'
  BY <1>16, SameIds DEF Upsert, Goto
<1>17. ASSUME NEW w \in Workers, SucceedUpdate(w) PROVE SingleOwner'
  <2> DEFINE h == RecordHash[req[wjob[w].job_id].commit]
  <2>1. h \in Hashes
    BY <1>17, JobRecordTypes, PipelineAssumption DEF SucceedUpdate, TInv, TypeOK, HoldersTyped
  <2>2. wjob' = [wjob EXCEPT ![w] = [wjob[w] EXCEPT !.status = "succeeded",
                                       !.record_hash = h, !.error = "none"]]
    BY <1>17 DEF SucceedUpdate, Goto
  <2>3. UNCHANGED <<queue, ajob>>
    BY <1>17 DEF SucceedUpdate
  <2> HIDE DEF h
  <2> QED BY <2>1, <2>2, <2>3, SameId, SameIds
<1>18. ASSUME NEW w \in Workers, SucceedAudit(w) PROVE SingleOwner'
  BY <1>18, DoneKeepsOwners DEF SucceedAudit
<1>19. ASSUME NEW w \in Workers, StorageFault(w) PROVE SingleOwner'
  BY <1>19, DoneKeepsOwners DEF StorageFault
<1>20. ASSUME NEW w \in Workers, Crash(w) PROVE SingleOwner'
  BY <1>20, DoneKeepsOwners DEF Crash
<1>21. CASE Tick
  BY <1>21, SameIds DEF Tick
<1>22. CASE UNCHANGED vars
  BY <1>22, SameIds DEF vars
<1> QED
  BY <1>1, <1>2, <1>3, <1>4, <1>5, <1>6, <1>7, <1>8, <1>9, <1>10, <1>11, <1>12, <1>13,
     <1>14, <1>15, <1>16, <1>17, <1>18, <1>19, <1>20, <1>21, <1>22
  DEF Next, ApiStep, WorkerStep, DispatchStep, DispatchExhausted, DispatchUnexpected

-----------------------------------------------------------------------------
(* Copies and rows.                                                        *)

(* What a consumer writes touches no row but its own job's: everybody      *)
(* else's copy still agrees with the table.                                *)
LEMMA OthersAgree ==
    ASSUME TInv, SingleOwner, PhaseMatchesStatus, NEW w \in Workers, wpc[w] # "idle",
           UNCHANGED <<apc, ajob, queue>>,
           \A v \in Workers : v # w => wpc'[v] = wpc[v] /\ wjob'[v] = wjob[v],
           \A j \in Jobs : j # wjob[w].job_id => rows'[j] = rows[j],
           WorkerPhase(w)'
    PROVE  PhaseMatchesStatus'
<1>1. \A a \in Apis : apc[a] # "idle" => /\ ajob[a].job_id \in Jobs
                                         /\ ajob[a].job_id # wjob[w].job_id
  BY PipelineAssumption DEF TInv, HoldersTyped, SingleOwner, JobRecord
<1>2. \A i \in 1..Len(queue) : /\ queue[i].job_id \in Jobs
                               /\ queue[i].job_id # wjob[w].job_id
  BY QueueTypes DEF SingleOwner
<1>3. \A v \in Workers : v # w /\ wpc[v] # "idle" => /\ wjob[v].job_id \in Jobs
                                                     /\ wjob[v].job_id # wjob[w].job_id
  BY PipelineAssumption DEF TInv, HoldersTyped, SingleOwner, JobRecord
<1>4. \A v \in Workers : v # w => WorkerPhase(v)'
  BY <1>3 DEF PhaseMatchesStatus, WorkerPhase
<1> QED BY <1>1, <1>2, <1>4 DEF PhaseMatchesStatus

(* A consumer that lets go of its job without writing its row, or after    *)
(* writing it, leaves everybody else in agreement.                         *)
LEMMA DoneAgrees ==
    ASSUME TInv, SingleOwner, PhaseMatchesStatus, NEW w \in Workers, wpc[w] # "idle",
           Done(w), UNCHANGED <<apc, ajob, queue>>,
           \A j \in Jobs : j # wjob[w].job_id => rows'[j] = rows[j]
    PROVE  PhaseMatchesStatus'
<1>1. wpc'[w] = "idle" /\ \A v \in Workers : v # w => wpc'[v] = wpc[v] /\ wjob'[v] = wjob[v]
  BY DEF Done, TInv, TypeOK
<1>2. WorkerPhase(w)'
  BY <1>1 DEF WorkerPhase
<1> QED BY <1>1, <1>2, OthersAgree

(* The same for a consumer that goes on holding its job.                   *)
LEMMA GotoAgrees ==
    ASSUME TInv, SingleOwner, PhaseMatchesStatus, NEW w \in Workers, wpc[w] # "idle",
           NEW pc, NEW job, Goto(w, pc, job), UNCHANGED <<apc, ajob, queue>>,
           \A j \in Jobs : j # wjob[w].job_id => rows'[j] = rows[j],
           WorkerPhase(w)'
    PROVE  PhaseMatchesStatus'
<1>1. \A v \in Workers : v # w => wpc'[v] = wpc[v] /\ wjob'[v] = wjob[v]
  BY DEF Goto, TInv, TypeOK
<1> QED BY <1>1, OthersAgree

LEMMA PhaseNext == OInv /\ [Next]_vars => PhaseMatchesStatus'
<1> SUFFICES ASSUME OInv, [Next]_vars PROVE PhaseMatchesStatus'
  OBVIOUS
<1>0. TInv /\ SingleOwner /\ PhaseMatchesStatus
  BY DEF OInv
<1>t. /\ rows = [j \in Jobs |-> rows[j]]
      /\ apc = [a \in Apis |-> apc[a]] /\ ajob = [a \in Apis |-> ajob[a]]
      /\ wpc = [w \in Workers |-> wpc[w]] /\ wjob = [w \in Workers |-> wjob[w]]
  BY <1>0 DEF TInv, TypeOK
<1>h. /\ \A w \in Workers : wpc[w] # "idle" => wjob[w] \in JobRecord /\ wjob[w].job_id \in Jobs
      /\ \A a \in Apis : apc[a] # "idle" => ajob[a] \in JobRecord /\ ajob[a].job_id \in Jobs
  BY <1>0 DEF TInv, HoldersTyped, JobRecord
<1>p. \A w \in Workers : WorkerPhase(w)
  BY <1>0 DEF PhaseMatchesStatus
<1> USE <1>0, <1>t DEF store, apis, workers
<1>1. ASSUME NEW a \in Apis, NEW j \in Jobs, ApiCreate(a, j) PROVE PhaseMatchesStatus'
  <2>1. /\ \A b \in Apis : ajob[b].job_id # j
        /\ \A w \in Workers : wjob[w].job_id # j
        /\ \A i \in 1..Len(queue) : queue[i].job_id # j
    BY <1>1, PipelineAssumption
    DEF ApiCreate, PhaseMatchesStatus, WorkerPhase, NoJob, TInv, HoldersTyped
  <2>2. /\ rows'[j] = NewJob(j) /\ \A k \in Jobs : k # j => rows'[k] = rows[k]
        /\ ajob'[a] = NewJob(j) /\ \A b \in Apis : b # a => ajob'[b] = ajob[b] /\ apc'[b] = apc[b]
        /\ UNCHANGED <<queue, wpc, wjob>>
    BY <1>1 DEF ApiCreate, ApiGoto
  <2>3. NewJob(j).job_id = j /\ NewJob(j).status = "queued"
    BY DEF NewJob
  <2>4. \A w \in Workers : WorkerPhase(w)'
    BY <1>h, <2>1, <2>2 DEF PhaseMatchesStatus, WorkerPhase
  <2>5. \A b \in Apis : apc'[b] # "idle" =>
           rows'[ajob'[b].job_id] = ajob'[b] /\ ajob'[b].status = "queued"
    BY <1>h, <2>1, <2>2, <2>3 DEF PhaseMatchesStatus
  <2>6. \A i \in 1..Len(queue) : rows'[queue[i].job_id] = queue[i]
    BY <2>1, <2>2, QueueTypes DEF PhaseMatchesStatus
  <2> QED BY <2>2, <2>4, <2>5, <2>6 DEF PhaseMatchesStatus
<1>2. ASSUME NEW a \in Apis, ApiAudit(a) PROVE PhaseMatchesStatus'
  BY <1>2 DEF ApiAudit, ApiGoto, PhaseMatchesStatus, WorkerPhase
<1>3. ASSUME NEW a \in Apis, ApiDispatch(a) PROVE PhaseMatchesStatus'
  <2>1. /\ UNCHANGED <<rows, wpc, wjob>>
        /\ apc'[a] = "idle" /\ \A b \in Apis : b # a => ajob'[b] = ajob[b] /\ apc'[b] = apc[b]
    BY <1>3 DEF ApiDispatch, ApiDone, ApiGoto
  <2>0. ajob[a] \in JobRecord /\ queue' = Append(queue, ajob[a])
    BY <1>3, <1>h DEF ApiDispatch
  <2>2. \A i \in 1..Len(queue') : \/ i = Len(queue) + 1 /\ queue'[i] = ajob[a]
                                  \/ i \in 1..Len(queue) /\ queue'[i] = queue[i]
    BY <2>0, PutElements
  <2>3. rows[ajob[a].job_id] = ajob[a] /\ ajob[a].status = "queued"
    BY <1>3 DEF ApiDispatch, PhaseMatchesStatus
  <2> QED BY <2>1, <2>2, <2>3 DEF PhaseMatchesStatus, WorkerPhase
<1>4. ASSUME NEW a \in Apis, ApiFault(a) PROVE PhaseMatchesStatus'
  BY <1>4 DEF ApiFault, ApiDone, ApiGoto, PhaseMatchesStatus, WorkerPhase
<1>5. ASSUME NEW w \in Workers, Get(w) PROVE PhaseMatchesStatus'
  <2>1. /\ wjob'[w] = queue[1] /\ wpc'[w] = "mark"
        /\ \A v \in Workers : v # w => wjob'[v] = wjob[v] /\ wpc'[v] = wpc[v]
        /\ UNCHANGED <<rows, apc, ajob>>
    BY <1>5 DEF Get, Goto
  <2>2. /\ 1 \in 1..Len(queue)
        /\ \A i \in 1..Len(queue') : queue'[i] = queue[i + 1] /\ i + 1 \in 1..Len(queue)
    BY <1>5, QueueTypes DEF Get
  <2>0. rows[queue[1].job_id] = queue[1] /\ queue[1].status \in {"queued", "running"}
    BY <2>2 DEF PhaseMatchesStatus
  <2>3. WorkerPhase(w)'
    BY <2>0, <2>1 DEF WorkerPhase
  <2>4. \A v \in Workers : v # w => WorkerPhase(v)'
    BY <1>p, <2>1 DEF WorkerPhase
  <2> QED BY <2>1, <2>2, <2>3, <2>4 DEF PhaseMatchesStatus
<1>6. ASSUME NEW w \in Workers, MarkRunning(w) PROVE PhaseMatchesStatus'
  <2> DEFINE job == [wjob[w] EXCEPT !.status = "running"]
  <2>1. Update(job) /\ Goto(w, "gate", job) /\ UNCHANGED <<apc, ajob, queue>>
    BY <1>6 DEF MarkRunning
  <2>2. wpc[w] = "mark" /\ wjob[w].job_id \in Jobs /\ wjob[w] \in JobRecord
    BY <1>6, <1>h DEF MarkRunning
  <2>3. job.job_id = wjob[w].job_id /\ job.status = "running"
    BY <2>2, SameId DEF JobRecord
  <2> HIDE DEF job
  <2>4. /\ \A j \in Jobs : j # wjob[w].job_id => rows'[j] = rows[j]
        /\ rows'[job.job_id] = job
    BY <2>1, <2>2, <2>3 DEF Update
  <2>5. WorkerPhase(w)'
    BY <2>1, <2>3, <2>4 DEF WorkerPhase, Goto
  <2> QED BY <2>1, <2>2, <2>4, <2>5, GotoAgrees
<1>7. ASSUME NEW w \in Workers, GateAdmit(w) PROVE PhaseMatchesStatus'
  <2>1. WorkerPhase(w)'
    BY <1>7, <1>p DEF GateAdmit, Goto, WorkerPhase
  <2> QED BY <1>7, <2>1, GotoAgrees DEF GateAdmit
<1>8. ASSUME NEW w \in Workers, GateReject(w) PROVE PhaseMatchesStatus'
  <2> DEFINE job == [wjob[w] EXCEPT !.error = "circuit_open"]
  <2>1. /\ Goto(w, "requeue_update", job) /\ UNCHANGED <<apc, ajob, queue, rows>>
        /\ wpc[w] = "gate"
    BY <1>8 DEF GateReject
  <2>2. wjob[w] \in JobRecord /\ rows[wjob[w].job_id] = wjob[w] /\ wjob[w].status = "running"
    BY <2>1, <1>h, <1>p DEF WorkerPhase
  <2>3. job.job_id = wjob[w].job_id /\ job.status = "running"
    BY <2>2 DEF JobRecord
  <2> HIDE DEF job
  <2>4. WorkerPhase(w)'
    BY <2>1, <2>2, <2>3 DEF WorkerPhase, Goto
  <2> QED BY <2>1, <2>4, GotoAgrees
<1>9. ASSUME NEW w \in Workers, DispatchRetry(w) PROVE PhaseMatchesStatus'
  BY <1>9 DEF DispatchRetry, PhaseMatchesStatus, WorkerPhase
<1>10. ASSUME NEW w \in Workers, NEW reason \in {"retry_exhausted", "unexpected"},
              DispatchRaises(w, reason)
       PROVE PhaseMatchesStatus'
  <2> DEFINE job == [wjob[w] EXCEPT !.status = "failed", !.error = reason]
  <2>1. /\ Goto(w, "fail_update", job) /\ UNCHANGED <<apc, ajob, queue, rows>>
        /\ wpc[w] = "dispatch"
    BY <1>10 DEF DispatchRaises
  <2>2. wjob[w] \in JobRecord /\ rows[wjob[w].job_id] = wjob[w] /\ wjob[w].status = "running"
    BY <2>1, <1>h, <1>p DEF WorkerPhase
  <2>3. job.job_id = wjob[w].job_id /\ job.status = "failed"
    BY <2>2 DEF JobRecord
  <2> HIDE DEF job
  <2>4. WorkerPhase(w)'
    BY <2>1, <2>2, <2>3 DEF WorkerPhase, Goto
  <2> QED BY <2>1, <2>4, GotoAgrees
<1>11. ASSUME NEW w \in Workers, DispatchOk(w) PROVE PhaseMatchesStatus'
  <2>1. WorkerPhase(w)'
    BY <1>11, <1>p DEF DispatchOk, Goto, WorkerPhase
  <2> QED BY <1>11, <2>1, GotoAgrees DEF DispatchOk
<1>12. ASSUME NEW w \in Workers, FailUpdate(w) PROVE PhaseMatchesStatus'
  <2>1. wpc[w] = "fail_update" /\ Update(wjob[w]) /\ UNCHANGED <<apc, ajob, queue>>
    BY <1>12 DEF FailUpdate
  <2>2. /\ \A j \in Jobs : j # wjob[w].job_id => rows'[j] = rows[j]
        /\ rows'[wjob[w].job_id] = wjob[w]
    BY <2>1, <1>h DEF Update
  <2>3. CASE Goto(w, "fail_audit", wjob[w])
    <3>1. WorkerPhase(w)'
      BY <1>p, <2>1, <2>2, <2>3 DEF WorkerPhase, Goto
    <3> QED BY <2>1, <2>2, <2>3, <3>1, GotoAgrees
  <2>4. CASE Done(w)
    BY <2>1, <2>2, <2>4, DoneAgrees
  <2> QED BY <1>12, <2>3, <2>4 DEF FailUpdate
<1>13. ASSUME NEW w \in Workers, FailAudit(w) PROVE PhaseMatchesStatus'
  BY <1>13, DoneAgrees DEF FailAudit
<1>14. ASSUME NEW w \in Workers, RequeueUpdate(w) PROVE PhaseMatchesStatus'
  <2>1. /\ wpc[w] = "requeue_update" /\ Update(wjob[w]) /\ UNCHANGED <<apc, ajob, queue>>
        /\ Goto(w, "requeue_put", wjob[w])
    BY <1>14 DEF RequeueUpdate
  <2>2. /\ \A j \in Jobs : j # wjob[w].job_id => rows'[j] = rows[j]
        /\ rows'[wjob[w].job_id] = wjob[w]
    BY <2>1, <1>h DEF Update
  <2>3. WorkerPhase(w)'
    BY <1>p, <2>1, <2>2 DEF WorkerPhase, Goto
  <2> QED BY <2>1, <2>2, <2>3, GotoAgrees
<1>15. ASSUME NEW w \in Workers, RequeuePut(w) PROVE PhaseMatchesStatus'
  <2>1. /\ UNCHANGED <<rows, apc, ajob>>
        /\ wpc'[w] = "idle" /\ \A v \in Workers : v # w => wjob'[v] = wjob[v] /\ wpc'[v] = wpc[v]
    BY <1>15 DEF RequeuePut, Done
  <2>0. wjob[w] \in JobRecord /\ queue' = Append(queue, wjob[w])
    BY <1>15, <1>h DEF RequeuePut
  <2>2. \A i \in 1..Len(queue') : \/ i = Len(queue) + 1 /\ queue'[i] = wjob[w]
                                  \/ i \in 1..Len(queue) /\ queue'[i] = queue[i]
    BY <2>0, PutElements
  <2>3. rows[wjob[w].job_id] = wjob[w] /\ wjob[w].status = "running"
    BY <1>15, <1>p DEF RequeuePut, WorkerPhase
  <2>4. \A v \in Workers : WorkerPhase(v)'
    BY <1>p, <2>1 DEF WorkerPhase
  <2> QED BY <2>1, <2>2, <2>3, <2>4 DEF PhaseMatchesStatus
<1>16. ASSUME NEW w \in Workers, Upsert(w) PROVE PhaseMatchesStatus'
  <2>1. WorkerPhase(w)'
    BY <1>16, <1>p DEF Upsert, Goto, WorkerPhase
  <2> QED BY <1>16, <2>1, GotoAgrees DEF Upsert
<1>17. ASSUME NEW w \in Workers, SucceedUpdate(w) PROVE PhaseMatchesStatus'
  <2> DEFINE job == [wjob[w] EXCEPT !.status = "succeeded",
                                    !.record_hash = RecordHash[req[wjob[w].job_id].commit],
                                    !.error = "none"]
  <2>1. Update(job) /\ Goto(w, "succeed_audit", job) /\ UNCHANGED <<apc, ajob, queue>>
    BY <1>17 DEF SucceedUpdate
  <2>2. wpc[w] = "succeed_update" /\ wjob[w].job_id \in Jobs /\ wjob[w] \in JobRecord
    BY <1>17, <1>h DEF SucceedUpdate
  <2>3. job.job_id = wjob[w].job_id /\ job.status = "succeeded"
    BY <2>2 DEF JobRecord
  <2> HIDE DEF job
  <2>4. /\ \A j \in Jobs : j # wjob[w].job_id => rows'[j] = rows[j]
        /\ rows'[job.job_id] = job
    BY <2>1, <2>2, <2>3 DEF Update
  <2>5. WorkerPhase(w)'
    BY <2>1, <2>3, <2>4 DEF WorkerPhase, Goto
  <2> QED BY <2>1, <2>2, <2>4, <2>5, GotoAgrees
<1>18. ASSUME NEW w \in Workers, SucceedAudit(w) PROVE PhaseMatchesStatus'
  BY <1>18, DoneAgrees DEF SucceedAudit
<1>19. ASSUME NEW w \in Workers, StorageFault(w) PROVE PhaseMatchesStatus'
  BY <1>19, DoneAgrees DEF StorageFault
<1>20. ASSUME NEW w \in Workers, Crash(w) PROVE PhaseMatchesStatus'
  BY <1>20 DEF Crash, Done, PhaseMatchesStatus, WorkerPhase
<1>21. CASE Tick
  BY <1>21 DEF Tick, PhaseMatchesStatus, WorkerPhase
<1>22. CASE UNCHANGED vars
  BY <1>22 DEF vars, PhaseMatchesStatus, WorkerPhase
<1> QED
  BY <1>1, <1>2, <1>3, <1>4, <1>5, <1>6, <1>7, <1>8, <1>9, <1>10, <1>11, <1>12, <1>13,
     <1>14, <1>15, <1>16, <1>17, <1>18, <1>19, <1>20, <1>21, <1>22
  DEF Next, ApiStep, WorkerStep, DispatchStep, DispatchExhausted, DispatchUnexpected

LEMMA OInvInit == Init => OInv
<1> SUFFICES ASSUME Init PROVE OInv
  OBVIOUS
<1>1. TInv
  BY TInvInit
<1>2. SingleOwner
  BY DEF Init, SingleOwner, NoJob
<1>3. PhaseMatchesStatus
  BY DEF Init, PhaseMatchesStatus, WorkerPhase
<1> QED BY <1>1, <1>2, <1>3 DEF OInv

LEMMA OInvHolds == Spec => []OInv
<1>1. OInv /\ [Next]_vars => OInv'
  BY TInvNext, SingleOwnerNext, PhaseNext DEF OInv
<1> QED BY <1>1, OInvInit, PTL DEF Spec

(* No job is ever in two hands: not in two requests, two places of the     *)
(* queue, two consumers, or any two of these, for any number of each.      *)
THEOREM SingleOwnerHolds == Spec => []SingleOwner
<1>1. OInv => SingleOwner
  BY DEF OInv
<1> QED BY <1>1, OInvHolds, PTL

(* Copies in the queue and in consumers' hands agree with the jobs table.  *)
THEOREM CopiesAgreeHolds == Spec => []CopiesAgree
<1>1. OInv => CopiesAgree
  BY DEF OInv, PhaseMatchesStatus, WorkerPhase, CopiesAgree
<1> QED BY <1>1, OInvHolds, PTL

-----------------------------------------------------------------------------
(* Finished jobs.                                                          *)

(* A row is only written by the one owner of its job, and every owner      *)
(* whose next write is to come finds the row unfinished: that is OInv.     *)
LEMMA TerminalStep ==
    OInv /\ [Next]_vars => \A j \in Jobs : rows[j].status \in Terminal => rows'[j] = rows[j]
<1> SUFFICES ASSUME OInv, [Next]_vars, NEW j \in Jobs, rows[j].status \in Terminal
             PROVE  rows'[j] = rows[j]
  OBVIOUS
<1>0. TInv /\ PhaseMatchesStatus
  BY DEF OInv
<1>h. /\ rows = [k \in Jobs |-> rows[k]]
      /\ \A w \in Workers : wpc[w] # "idle" => wjob[w] \in JobRecord /\ wjob[w].job_id \in Jobs
  BY <1>0 DEF TInv, TypeOK, HoldersTyped, JobRecord
<1>p. \A w \in Workers : WorkerPhase(w)
  BY <1>0 DEF PhaseMatchesStatus
<1>1. ASSUME NEW w \in Workers, NEW job, job.job_id = wjob[w].job_id, Update(job),
             wpc[w] \in {"mark", "fail_update", "requeue_update", "succeed_update"}
      PROVE  rows'[j] = rows[j]
  <2>1. wjob[w].job_id # j
    BY <1>1, <1>p DEF WorkerPhase, Terminal
  <2> QED BY <1>1, <1>h, <2>1 DEF Update
<1>2. ASSUME NEW a \in Apis, NEW k \in Jobs, ApiCreate(a, k) PROVE rows'[j] = rows[j]
  <2>1. k # j
    BY <1>2 DEF ApiCreate, NoJob, Terminal
  <2> QED BY <1>2, <1>h, <2>1 DEF ApiCreate
<1>3. ASSUME NEW w \in Workers, MarkRunning(w) PROVE rows'[j] = rows[j]
  <2> DEFINE job == [wjob[w] EXCEPT !.status = "running"]
  <2>1. Update(job) /\ wpc[w] = "mark"
    BY <1>3 DEF MarkRunning
  <2>2. job.job_id = wjob[w].job_id
    BY <1>h, <2>1, SameId
  <2> QED BY <1>1, <2>1, <2>2
<1>4. ASSUME NEW w \in Workers, SucceedUpdate(w) PROVE rows'[j] = rows[j]
  <2> DEFINE job == [wjob[w] EXCEPT !.status = "succeeded",
                                    !.record_hash = RecordHash[req[wjob[w].job_id].commit],
                                    !.error = "none"]
  <2>1. Update(job) /\ wpc[w] = "succeed_update"
    BY <1>4 DEF SucceedUpdate
  <2>2. job.job_id = wjob[w].job_id
    BY <1>h, <2>1 DEF JobRecord
  <2> QED BY <1>1, <2>1, <2>2
<1>5. ASSUME NEW w \in Workers, FailUpdate(w) \/ RequeueUpdate(w) PROVE rows'[j] = rows[j]
  BY <1>1, <1>5 DEF FailUpdate, RequeueUpdate
<1>6. ASSUME NEW a \in Apis, ApiAudit(a) \/ ApiDispatch(a) \/ ApiFault(a)
      PROVE  rows'[j] = rows[j]
  BY <1>6 DEF ApiAudit, ApiDispatch, ApiFault, store
<1>7. ASSUME NEW w \in Workers,
             \/ Get(w) \/ GateAdmit(w) \/ GateReject(w) \/ DispatchStep(w) \/ FailAudit(w)
             \/ RequeuePut(w) \/ Upsert(w) \/ SucceedAudit(w) \/ StorageFault(w) \/ Crash(w)
      PROVE  rows'[j] = rows[j]
  BY <1>7 DEF Get, GateAdmit, GateReject, DispatchStep, DispatchRetry, DispatchExhausted,
              DispatchUnexpected, DispatchRaises, DispatchOk, FailAudit, RequeuePut, Upsert,
              SucceedAudit, StorageFault, Crash, store
<1>8. CASE Tick
  BY <1>8 DEF Tick, store
<1>9. CASE UNCHANGED vars
  BY <1>9 DEF vars, store
<1> QED BY <1>2, <1>3, <1>4, <1>5, <1>6, <1>7, <1>8, <1>9 DEF Next, ApiStep, WorkerStep

(* SUCCEEDED and FAILED are final, with the record hash and the error that *)
(* came with them.                                                         *)
THEOREM TerminalIsFinalHolds == Spec => TerminalIsFinal
<1>1. OInv /\ [Next]_vars =>
        [\A j \in Jobs : rows[j].status \in Terminal => rows'[j] = rows[j]]_vars
  BY TerminalStep
<1> QED BY <1>1, OInvHolds, PTL DEF Spec, TerminalIsFinal

-----------------------------------------------------------------------------
(* Records, record hashes and audit events.                                *)

(* A row and a copy have a record hash only once they say SUCCEEDED, and   *)
(* the record is in the store by then: already when its consumer is about  *)
(* to write the row.                                                       *)
RecordsFirst ==
    /\ SucceededHasRecord
    /\ \A j \in Jobs : rows[j].status # "succeeded" => rows[j].record_hash = NoHash
    /\ \A w \in Workers : wpc[w] \in {"fail_update", "requeue_update"} =>
          wjob[w].record_hash = NoHash
    /\ \A w \in Workers : wpc[w] = "succeed_update" =>
          records[RecordHash[req[wjob[w].job_id].commit]] # NoTenant

(* How far the audit log of a job is follows from who holds it.            *)
Created == <<"score.create">>
EventsFollow ==
    /\ \A j \in Jobs : rows[j] = NoJob => audits[j] = << >>
    /\ \A a \in Apis : apc[a] = "audit" => audits[ajob[a].job_id] = << >>
    /\ \A a \in Apis : apc[a] = "dispatch" => audits[ajob[a].job_id] = Created
    /\ \A i \in 1..Len(queue) : audits[queue[i].job_id] = Created
    /\ \A w \in Workers : wpc[w] # "idle" => audits[wjob[w].job_id] = Created

(* The error a consumer writes with FAILED says which branch it is in. *)
FailureNamed ==
    \A w \in Workers : wpc[w] \in {"fail_update", "fail_audit"} =>
        wjob[w].error \in {"retry_exhausted", "unexpected"}

(* What OInv says of the jobs that somebody holds: they are real, and      *)
(* nobody else holds them.                                                 *)
LEMMA Held ==
    ASSUME OInv
    PROVE  /\ rows = [j \in Jobs |-> rows[j]]
           /\ \A a \in Apis : apc[a] # "idle" => /\ ajob[a] \in JobRecord
                                                 /\ ajob[a].job_id \in Jobs
           /\ \A w \in Workers : wpc[w] # "idle" => /\ wjob[w] \in JobRecord
                                                    /\ wjob[w].job_id \in Jobs
                                                    /\ WorkerPhase(w)
           /\ \A a, b \in Apis : apc[a] # "idle" /\ a # b => ajob[a].job_id # ajob[b].job_id
           /\ \A v, w \in Workers : wpc[v] # "idle" /\ v # w => wjob[v].job_id # wjob[w].job_id
           /\ \A a \in Apis, w \in Workers : apc[a] # "idle" => ajob[a].job_id # wjob[w].job_id
           /\ \A a \in Apis, w \in Workers : wpc[w] # "idle" => ajob[a].job_id # wjob[w].job_id
<1>1. \A job \in JobRecord : job.job_id \in Jobs /\ job.job_id # NoId
  BY PipelineAssumption DEF JobRecord
<1> QED BY <1>1 DEF OInv, TInv, TypeOK, HoldersTyped, SingleOwner, PhaseMatchesStatus

(* Nothing takes a record out of the store, and nobody changes a request.  *)
LEMMA RecordsStay ==
    OInv /\ [Next]_vars =>
        /\ req' = req
        /\ \A h \in Hashes : records[h] # NoTenant => records'[h] # NoTenant
<1> SUFFICES ASSUME OInv, [Next]_vars
             PROVE  /\ req' = req
                    /\ \A h \in Hashes : records[h] # NoTenant => records'[h] # NoTenant
  OBVIOUS
<1>1. ASSUME NEW w \in Workers, Upsert(w)
      PROVE  req' = req /\ \A h \in Hashes : records[h] # NoTenant => records'[h] # NoTenant
  <2>1. req[wjob[w].job_id].tenant \in Tenants /\ records \in [Hashes -> Tenants \cup {NoTenant}]
    BY <1>1, Held DEF Upsert, OInv, TInv, TypeOK
  <2> QED BY <1>1, <2>1, PipelineAssumption DEF Upsert
<1>2. ASSUME NEW a \in Apis,
             (\E j \in Jobs : ApiCreate(a, j)) \/ ApiAudit(a) \/ ApiDispatch(a) \/ ApiFault(a)
      PROVE  UNCHANGED <<req, records>>
  BY <1>2 DEF ApiCreate, ApiAudit, ApiDispatch, ApiFault, store
<1>3. ASSUME NEW w \in Workers,
             \/ Get(w) \/ MarkRunning(w) \/ GateAdmit(w) \/ GateReject(w) \/ DispatchStep(w)
             \/ FailUpdate(w) \/ FailAudit(w) \/ RequeueUpdate(w) \/ RequeuePut(w)
             \/ SucceedUpdate(w) \/ SucceedAudit(w) \/ StorageFault(w) \/ Crash(w)
      PROVE  UNCHANGED <<req, records>>
  BY <1>3 DEF Get, MarkRunning, GateAdmit, GateReject, DispatchStep, DispatchRetry,
              DispatchExhausted, DispatchUnexpected, DispatchRaises, DispatchOk, FailUpdate,
              FailAudit, RequeueUpdate, RequeuePut, SucceedUpdate, SucceedAudit,
              StorageFault, Crash, store
<1>4. CASE Tick \/ UNCHANGED vars
  BY <1>4 DEF Tick, vars, store
<1> QED BY <1>1, <1>2, <1>3, <1>4 DEF Next, ApiStep, WorkerStep

(* Where a consumer's copy stands after it went on or let go.              *)
LEMMA Moves ==
    ASSUME OInv, NEW w \in Workers
    PROVE  /\ Done(w) => /\ wpc'[w] = "idle" /\ wjob'[w] = NoJob
                         /\ \A v \in Workers : v # w => wpc'[v] = wpc[v] /\ wjob'[v] = wjob[v]
           /\ \A pc, job : Goto(w, pc, job) =>
                 /\ wpc'[w] = pc /\ wjob'[w] = job
                 /\ \A v \in Workers : v # w => wpc'[v] = wpc[v] /\ wjob'[v] = wjob[v]
  BY DEF Done, Goto, OInv, TInv, TypeOK

(* A step keeps RecordsFirst if the rows it writes and the consumers it    *)
(* moves keep it.                                                          *)
LEMMA RecordsFirstKept ==
    ASSUME OInv, RecordsFirst, [Next]_vars, NEW w \in Workers,
           \A v \in Workers : v # w => wpc'[v] = wpc[v] /\ wjob'[v] = wjob[v],
           wpc'[w] \in {"fail_update", "requeue_update"} => wjob'[w].record_hash = NoHash,
           wpc'[w] = "succeed_update" =>
               records'[RecordHash[req[wjob'[w].job_id].commit]] # NoTenant,
           \A j \in Jobs :
               \/ rows'[j] = rows[j]
               \/ rows'[j].status # "succeeded" /\ rows'[j].record_hash = NoHash
               \/ /\ rows'[j].status = "succeeded"
                  /\ rows'[j].record_hash = RecordHash[req[j].commit]
                  /\ records[RecordHash[req[j].commit]] # NoTenant
    PROVE  RecordsFirst'
<1>1. /\ req' = req
      /\ \A h \in Hashes : records[h] # NoTenant => records'[h] # NoTenant
  BY RecordsStay
<1>2. \A j \in Jobs : RecordHash[req[j].commit] \in Hashes
  BY PipelineAssumption DEF OInv, TInv, TypeOK
<1>3. SucceededHasRecord'
  BY <1>1, <1>2 DEF RecordsFirst, SucceededHasRecord
<1>4. \A v \in Workers : wpc'[v] = "succeed_update" =>
          records'[RecordHash[req[wjob'[v].job_id].commit]] # NoTenant
  BY <1>1, <1>2, Held DEF RecordsFirst
<1> QED BY <1>1, <1>3, <1>4 DEF RecordsFirst

LEMMA RecordsFirstNext == OInv /\ RecordsFirst /\ [Next]_vars => RecordsFirst'
<1> SUFFICES ASSUME OInv, RecordsFirst, [Next]_vars PROVE RecordsFirst'
  OBVIOUS
<1>h. /\ \A w \in Workers : wpc[w] # "idle" =>
            wjob[w] \in JobRecord /\ wjob[w].job_id \in Jobs /\ WorkerPhase(w)
      /\ rows = [j \in Jobs |-> rows[j]]
  BY Held
<1>n. \A w \in Workers : wpc[w] \notin {"idle", "succeed_audit"} => wjob[w].record_hash = NoHash
  <2> SUFFICES ASSUME NEW w \in Workers, wpc[w] \notin {"idle", "succeed_audit"}
               PROVE  wjob[w].record_hash = NoHash
    OBVIOUS
  <2>1. CASE wpc[w] \in {"fail_update", "requeue_update"}
    BY <2>1 DEF RecordsFirst
  <2>2. CASE wpc[w] \notin {"fail_update", "requeue_update"}
    <3>1. wpc[w] \in WorkerPcs
      BY DEF OInv, TInv, TypeOK
    <3>2. rows[wjob[w].job_id] = wjob[w] /\ wjob[w].status # "succeeded"
      BY <1>h, <2>2, <3>1 DEF WorkerPhase, WorkerPcs
    <3> QED BY <1>h, <3>2 DEF RecordsFirst
  <2> QED BY <2>1, <2>2
<1>1. ASSUME NEW a \in Apis, NEW j \in Jobs, ApiCreate(a, j) PROVE RecordsFirst'
  <2>1. /\ rows'[j] = NewJob(j) /\ \A k \in Jobs : k # j => rows'[k] = rows[k]
        /\ UNCHANGED <<req, records, wpc, wjob>>
    BY <1>1, <1>h DEF ApiCreate, workers
  <2>2. rows'[j].status # "succeeded" /\ rows'[j].record_hash = NoHash
    BY <2>1 DEF NewJob
  <2> QED BY <2>1, <2>2 DEF RecordsFirst, SucceededHasRecord
<1>2. ASSUME UNCHANGED <<rows, req, records, wpc, wjob>> PROVE RecordsFirst'
  BY <1>2 DEF RecordsFirst, SucceededHasRecord
<1>3. ASSUME NEW w \in Workers, Done(w), rows' = rows PROVE RecordsFirst'
  BY <1>3, Moves, RecordsFirstKept
<1>4. ASSUME NEW w \in Workers, Get(w) PROVE RecordsFirst'
  <2>1. Goto(w, "mark", Head(queue)) /\ rows' = rows
    BY <1>4 DEF Get, store
  <2> QED BY <2>1, Moves, RecordsFirstKept
<1>5. ASSUME NEW w \in Workers, MarkRunning(w) PROVE RecordsFirst'
  <2> DEFINE job == [wjob[w] EXCEPT !.status = "running"]
  <2>1. wpc[w] = "mark" /\ Update(job) /\ Goto(w, "gate", job)
    BY <1>5 DEF MarkRunning
  <2>2. job.status = "running" /\ job.record_hash = NoHash /\ job.job_id \in Jobs
    BY <1>h, <1>n, <2>1 DEF JobRecord
  <2> HIDE DEF job
  <2>3. rows'[job.job_id] = job /\ \A j \in Jobs : j # job.job_id => rows'[j] = rows[j]
    BY <1>h, <2>1, <2>2 DEF Update
  <2>4. wpc'[w] = "gate" /\ \A v \in Workers : v # w => wpc'[v] = wpc[v] /\ wjob'[v] = wjob[v]
    BY <2>1, Moves
  <2> QED BY <2>2, <2>3, <2>4, RecordsFirstKept
<1>6. ASSUME NEW w \in Workers, GateAdmit(w) \/ DispatchOk(w) PROVE RecordsFirst'
  <2>1. rows' = rows /\ \E pc \in {"dispatch", "upsert"} : Goto(w, pc, wjob[w])
    BY <1>6 DEF GateAdmit, DispatchOk, store
  <2> QED BY <2>1, Moves, RecordsFirstKept
<1>7. ASSUME NEW w \in Workers, GateReject(w) PROVE RecordsFirst'
  <2> DEFINE job == [wjob[w] EXCEPT !.error = "circuit_open"]
  <2>1. wpc[w] = "gate" /\ rows' = rows /\ Goto(w, "requeue_update", job)
    BY <1>7 DEF GateReject, store
  <2>2. job.record_hash = NoHash
    BY <1>h, <1>n, <2>1 DEF JobRecord
  <2> HIDE DEF job
  <2> QED BY <2>1, <2>2, Moves, RecordsFirstKept
<1>8. ASSUME NEW w \in Workers, NEW reason, DispatchRaises(w, reason) PROVE RecordsFirst'
  <2> DEFINE job == [wjob[w] EXCEPT !.status = "failed", !.error = reason]
  <2>1. wpc[w] = "dispatch" /\ rows' = rows /\ Goto(w, "fail_update", job)
    BY <1>8 DEF DispatchRaises, store
  <2>2. job.record_hash = NoHash
    BY <1>h, <1>n, <2>1 DEF JobRecord
  <2> HIDE DEF job
  <2> QED BY <2>1, <2>2, Moves, RecordsFirstKept
<1>9. ASSUME NEW w \in Workers, FailUpdate(w) \/ RequeueUpdate(w) PROVE RecordsFirst'
  <2>1. /\ wpc[w] \in {"fail_update", "requeue_update"} /\ Update(wjob[w])
        /\ Done(w) \/ \E pc \in {"fail_audit", "requeue_put"} : Goto(w, pc, wjob[w])
    BY <1>9 DEF FailUpdate, RequeueUpdate
  <2>2. wjob[w].status # "succeeded" /\ wjob[w].record_hash = NoHash
    BY <1>h, <1>n, <2>1 DEF WorkerPhase
  <2>3. /\ rows'[wjob[w].job_id] = wjob[w]
        /\ \A j \in Jobs : j # wjob[w].job_id => rows'[j] = rows[j]
    BY <1>h, <2>1 DEF Update
  <2>4. /\ wpc'[w] \in {"idle", "fail_audit", "requeue_put"}
        /\ \A v \in Workers : v # w => wpc'[v] = wpc[v] /\ wjob'[v] = wjob[v]
    BY <2>1, Moves
  <2> QED BY <2>2, <2>3, <2>4, RecordsFirstKept
<1>10. ASSUME NEW w \in Workers, Upsert(w) PROVE RecordsFirst'
  <2> DEFINE r == req[wjob[w].job_id]
  <2>1. /\ records' = [records EXCEPT ![RecordHash[r.commit]] = r.tenant]
        /\ Goto(w, "succeed_update", wjob[w]) /\ rows' = rows
    BY <1>10 DEF Upsert
  <2>2. r.tenant \in Tenants /\ RecordHash[r.commit] \in Hashes
    BY <1>10, <1>h, PipelineAssumption DEF Upsert, OInv, TInv, TypeOK
  <2>3. records'[RecordHash[r.commit]] # NoTenant
    BY <2>1, <2>2, PipelineAssumption DEF OInv, TInv, TypeOK
  <2> QED BY <2>1, <2>3, Moves, RecordsFirstKept
<1>11. ASSUME NEW w \in Workers, SucceedUpdate(w) PROVE RecordsFirst'
  <2> DEFINE h == RecordHash[req[wjob[w].job_id].commit]
             job == [wjob[w] EXCEPT !.status = "succeeded", !.record_hash = h,
                                    !.error = "none"]
  <2>1. wpc[w] = "succeed_update" /\ Update(job) /\ Goto(w, "succeed_audit", job)
    BY <1>11 DEF SucceedUpdate
  <2>2. records[h] # NoTenant
    BY <2>1 DEF RecordsFirst
  <2>3. /\ job.status = "succeeded" /\ job.record_hash = h
        /\ job.job_id = wjob[w].job_id /\ job.job_id \in Jobs
    BY <1>h, <2>1 DEF JobRecord
  <2> HIDE DEF job
  <2>4. rows'[job.job_id] = job /\ \A j \in Jobs : j # job.job_id => rows'[j] = rows[j]
    BY <1>h, <2>1, <2>3 DEF Update
  <2>5. /\ wpc'[w] = "succeed_audit"
        /\ \A v \in Workers : v # w => wpc'[v] = wpc[v] /\ wjob'[v] = wjob[v]
    BY <2>1, Moves
  <2> QED BY <2>2, <2>3, <2>4, <2>5, RecordsFirstKept
<1>12. ASSUME NEW a \in Apis, ApiAudit(a) \/ ApiDispatch(a) \/ ApiFault(a) PROVE RecordsFirst'
  BY <1>2, <1>12 DEF ApiAudit, ApiDispatch, ApiFault, store, workers
<1>13. ASSUME NEW w \in Workers,
              \/ FailAudit(w) \/ RequeuePut(w) \/ SucceedAudit(w) \/ StorageFault(w) \/ Crash(w)
       PROVE  RecordsFirst'
  BY <1>3, <1>13 DEF FailAudit, RequeuePut, SucceedAudit, StorageFault, Crash, store
<1>14. CASE Tick \/ UNCHANGED vars \/ \E w \in Workers : DispatchRetry(w)
  BY <1>2, <1>14 DEF Tick, vars, DispatchRetry, store, workers
<1> QED
  BY <1>1, <1>4, <1>5, <1>6, <1>7, <1>8, <1>9, <1>10, <1>11, <1>12, <1>13, <1>14
  DEF Next, ApiStep, WorkerStep, DispatchStep, DispatchExhausted, DispatchUnexpected

(* A step that appends no event keeps EventsFollow if every job somebody   *)
(* holds afterwards was held before, or is on its way from a request to    *)
(* the queue.                                                              *)
LEMMA EventsKept ==
    ASSUME EventsFollow, audits' = audits,
           \A j \in Jobs : rows'[j] = NoJob => rows[j] = NoJob,
           \A a \in Apis : apc'[a] # "idle" => apc'[a] = apc[a] /\ ajob'[a] = ajob[a],
           \A i \in 1..Len(queue') : audits[queue'[i].job_id] = Created,
           \A w \in Workers : wpc'[w] # "idle" => audits[wjob'[w].job_id] = Created
    PROVE  EventsFollow'
  BY DEF EventsFollow

LEMMA EventsFollowNext == OInv /\ EventsFollow /\ [Next]_vars => EventsFollow'
<1> SUFFICES ASSUME OInv, EventsFollow, [Next]_vars PROVE EventsFollow'
  OBVIOUS
<1>h. /\ \A w \in Workers : wpc[w] # "idle" => wjob[w] \in JobRecord /\ wjob[w].job_id \in Jobs
      /\ \A a \in Apis : apc[a] # "idle" => ajob[a] \in JobRecord /\ ajob[a].job_id \in Jobs
  BY Held
<1>t. /\ TInv /\ rows \in [Jobs -> JobRecord \cup {NoJob}] /\ NoJob \notin JobRecord
      /\ apc \in [Apis -> ApiPcs] /\ ajob = [a \in Apis |-> ajob[a]]
      /\ wpc = [w \in Workers |-> wpc[w]] /\ wjob = [w \in Workers |-> wjob[w]]
      /\ audits = [j \in Jobs |-> audits[j]]
  BY JobRecordTypes DEF OInv, TInv, TypeOK
<1>1. ASSUME NEW a \in Apis, NEW j \in Jobs, ApiCreate(a, j) PROVE EventsFollow'
  <2>1. /\ audits[j] = << >> /\ rows[j] = NoJob
        /\ UNCHANGED <<audits, queue, wpc, wjob>>
        /\ \A k \in Jobs : rows'[k] = NoJob => rows[k] = NoJob
    BY <1>1, <1>t, JobRecordTypes DEF ApiCreate, workers, EventsFollow
  <2>2. /\ apc'[a] = "audit" /\ ajob'[a].job_id = j
        /\ \A b \in Apis : b # a => apc'[b] = apc[b] /\ ajob'[b] = ajob[b]
    BY <1>1, <1>t DEF ApiCreate, ApiGoto, NewJob
  <2> QED BY <2>1, <2>2 DEF EventsFollow
<1>2. ASSUME NEW a \in Apis, ApiAudit(a) PROVE EventsFollow'
  <2> DEFINE j == ajob[a].job_id
  <2>1. /\ apc[a] = "audit" /\ AppendAudit(ajob[a], "score.create")
        /\ ApiGoto(a, "dispatch", ajob[a]) /\ UNCHANGED <<rows, queue, wpc, wjob>>
    BY <1>2 DEF ApiAudit, workers
  <2>2. j \in Jobs /\ audits[j] = << >> /\ rows[j] # NoJob
    BY <1>h, <1>t, <2>1 DEF EventsFollow, OInv, PhaseMatchesStatus
  <2>3. /\ audits'[j] = Created
        /\ \A k \in Jobs : k # j => audits'[k] = audits[k]
    <3>1. Append(<< >>, "score.create") = Created
      BY DEF Created
    <3> QED BY <1>t, <2>1, <2>2, <3>1 DEF AppendAudit
  <2>4. /\ apc'[a] = "dispatch" /\ ajob'[a] = ajob[a]
        /\ \A b \in Apis : b # a => apc'[b] = apc[b] /\ ajob'[b] = ajob[b]
    BY <1>t, <2>1 DEF ApiGoto
  <2>5. /\ \A b \in Apis : b # a => ajob[b].job_id # j
        /\ \A w \in Workers : wjob[w].job_id # j
        /\ \A i \in 1..Len(queue) : queue[i].job_id # j
    BY <2>1, Held DEF OInv, SingleOwner
  <2>6. \A k \in Jobs : rows'[k] = NoJob => audits'[k] = << >>
    BY <2>1, <2>2, <2>3 DEF EventsFollow
  <2>7. \A b \in Apis : b # a /\ apc'[b] # "idle" => audits'[ajob'[b].job_id] = audits[ajob[b].job_id]
    BY <1>h, <2>3, <2>4, <2>5
  <2>8. \A i \in 1..Len(queue') : audits'[queue'[i].job_id] = audits[queue[i].job_id]
    BY <1>t, <2>1, <2>3, <2>5, QueueTypes
  <2>9. \A w \in Workers : wpc'[w] # "idle" => audits'[wjob'[w].job_id] = audits[wjob[w].job_id]
    BY <1>h, <2>1, <2>3, <2>5
  <2> QED BY <2>1, <2>3, <2>4, <2>6, <2>7, <2>8, <2>9 DEF EventsFollow
<1>3. ASSUME NEW a \in Apis, ApiDispatch(a) PROVE EventsFollow'
  <2>1. /\ apc[a] = "dispatch" /\ queue' = Append(queue, ajob[a])
        /\ apc'[a] = "idle" /\ \A b \in Apis : b # a => apc'[b] = apc[b] /\ ajob'[b] = ajob[b]
        /\ UNCHANGED <<rows, audits, wpc, wjob>>
    BY <1>3, <1>t DEF ApiDispatch, ApiDone, ApiGoto, store, workers
  <2>2. \A i \in 1..Len(queue') : \/ i = Len(queue) + 1 /\ queue'[i] = ajob[a]
                                  \/ i \in 1..Len(queue) /\ queue'[i] = queue[i]
    BY <1>h, <1>t, <2>1, PutElements
  <2>3. \A i \in 1..Len(queue') : audits[queue'[i].job_id] = Created
    BY <2>1, <2>2 DEF EventsFollow
  <2> QED BY <2>1, <2>3, EventsKept DEF EventsFollow
<1>4. ASSUME NEW a \in Apis, ApiFault(a) PROVE EventsFollow'
  BY <1>4, <1>t, EventsKept DEF ApiFault, ApiDone, ApiGoto, store, workers, EventsFollow
<1>5. ASSUME NEW w \in Workers, Get(w) PROVE EventsFollow'
  <2>1. /\ Goto(w, "mark", Head(queue)) /\ queue # << >> /\ queue' = Tail(queue)
        /\ UNCHANGED <<rows, audits, apc, ajob>>
    BY <1>5 DEF Get, store, apis
  <2>2. /\ 1 \in 1..Len(queue) /\ Head(queue) = queue[1]
        /\ \A i \in 1..Len(queue') : queue'[i] = queue[i + 1] /\ i + 1 \in 1..Len(queue)
    BY <1>t, <2>1, QueueTypes
  <2>3. /\ wjob'[w] = queue[1]
        /\ \A v \in Workers : v # w => wpc'[v] = wpc[v] /\ wjob'[v] = wjob[v]
    BY <2>1, <2>2, Moves
  <2> QED BY <2>1, <2>2, <2>3, EventsKept DEF EventsFollow
<1>6. ASSUME NEW w \in Workers, wpc[w] # "idle", UNCHANGED <<audits, apc, ajob, queue>>,
             \A j \in Jobs : rows'[j] = NoJob => rows[j] = NoJob,
             Done(w) \/ \E pc, job : Goto(w, pc, job) /\ job.job_id = wjob[w].job_id
      PROVE  EventsFollow'
  <2>1. /\ wpc'[w] = "idle" \/ wjob'[w].job_id = wjob[w].job_id
        /\ \A v \in Workers : v # w => wpc'[v] = wpc[v] /\ wjob'[v] = wjob[v]
    BY <1>6, Moves
  <2> QED BY <1>6, <2>1, EventsKept DEF EventsFollow
<1>7. ASSUME NEW job \in JobRecord, Update(job), NEW j \in Jobs, rows'[j] = NoJob
      PROVE  rows[j] = NoJob
  BY <1>t, <1>7 DEF Update
<1>8. ASSUME NEW w \in Workers, MarkRunning(w) PROVE EventsFollow'
  <2> DEFINE job == [wjob[w] EXCEPT !.status = "running"]
  <2>1. /\ wpc[w] # "idle" /\ Update(job) /\ Goto(w, "gate", job)
        /\ UNCHANGED <<audits, apc, ajob, queue>>
    BY <1>8 DEF MarkRunning, apis
  <2>2. job \in JobRecord /\ job.job_id = wjob[w].job_id
    BY <1>h, <2>1, JobRecordTypes, SameId
  <2> HIDE DEF job
  <2> QED BY <1>6, <1>7, <2>1, <2>2
<1>9. ASSUME NEW w \in Workers, GateAdmit(w) \/ DispatchOk(w) \/ Upsert(w) PROVE EventsFollow'
  BY <1>6, <1>9 DEF GateAdmit, DispatchOk, Upsert, apis, store
<1>10. ASSUME NEW w \in Workers, GateReject(w) PROVE EventsFollow'
  <2> DEFINE job == [wjob[w] EXCEPT !.error = "circuit_open"]
  <2>1. /\ wpc[w] # "idle" /\ Goto(w, "requeue_update", job)
        /\ UNCHANGED <<rows, audits, apc, ajob, queue>>
    BY <1>10 DEF GateReject, apis, store
  <2>2. job.job_id = wjob[w].job_id
    BY <1>h, <2>1, SameId
  <2> HIDE DEF job
  <2> QED BY <1>6, <2>1, <2>2
<1>11. ASSUME NEW w \in Workers, NEW reason, DispatchRaises(w, reason) PROVE EventsFollow'
  <2> DEFINE job == [wjob[w] EXCEPT !.status = "failed", !.error = reason]
  <2>1. /\ wpc[w] # "idle" /\ Goto(w, "fail_update", job)
        /\ UNCHANGED <<rows, audits, apc, ajob, queue>>
    BY <1>11 DEF DispatchRaises, apis, store
  <2>2. job.job_id = wjob[w].job_id
    BY <1>h, <2>1 DEF JobRecord
  <2> HIDE DEF job
  <2> QED BY <1>6, <2>1, <2>2
<1>12. ASSUME NEW w \in Workers, FailUpdate(w) \/ RequeueUpdate(w) PROVE EventsFollow'
  <2>1. /\ wpc[w] # "idle" /\ Update(wjob[w]) /\ UNCHANGED <<audits, apc, ajob, queue>>
        /\ Done(w) \/ \E pc : Goto(w, pc, wjob[w])
    BY <1>12 DEF FailUpdate, RequeueUpdate, apis
  <2> QED BY <1>6, <1>7, <1>h, <2>1
<1>13. ASSUME NEW w \in Workers, SucceedUpdate(w) PROVE EventsFollow'
  <2> DEFINE h == RecordHash[req[wjob[w].job_id].commit]
             job == [wjob[w] EXCEPT !.status = "succeeded", !.record_hash = h,
                                    !.error = "none"]
  <2>1. /\ wpc[w] # "idle" /\ Update(job) /\ Goto(w, "succeed_audit", job)
        /\ UNCHANGED <<audits, apc, ajob, queue>>
    BY <1>13 DEF SucceedUpdate, apis
  <2>2. h \in Hashes
    BY <1>h, <2>1, PipelineAssumption DEF OInv, TInv, TypeOK
  <2> HIDE DEF h
  <2>3. job \in JobRecord /\ job.job_id = wjob[w].job_id
    BY <1>h, <2>1, <2>2, JobRecordTypes, SameId
  <2> HIDE DEF job
  <2> QED BY <1>6, <1>7, <2>1, <2>3
<1>14. ASSUME NEW w \in Workers, FailAudit(w) \/ SucceedAudit(w) PROVE EventsFollow'
  <2> DEFINE j == wjob[w].job_id
  <2>1. /\ wpc[w] \in {"fail_audit", "succeed_audit"} /\ \E e : AppendAudit(wjob[w], e)
        /\ Done(w) /\ UNCHANGED <<rows, queue, apc, ajob>>
    BY <1>14 DEF FailAudit, SucceedAudit, apis
  <2>2. j \in Jobs /\ rows[j] # NoJob
    BY <1>h, <1>t, <2>1, Held DEF WorkerPhase
  <2>3. \A k \in Jobs : k # j => audits'[k] = audits[k]
    BY <1>t, <2>1, <2>2 DEF AppendAudit
  <2>4. /\ wpc'[w] = "idle"
        /\ \A v \in Workers : v # w => wpc'[v] = wpc[v] /\ wjob'[v] = wjob[v]
    BY <2>1, Moves
  <2>5. /\ \A a \in Apis : ajob[a].job_id # j
        /\ \A v \in Workers : v # w => wjob[v].job_id # j
        /\ \A i \in 1..Len(queue) : queue[i].job_id # j
    BY <2>1, Held DEF OInv, SingleOwner
  <2>6. \A k \in Jobs : rows'[k] = NoJob => audits'[k] = << >>
    BY <2>1, <2>2, <2>3 DEF EventsFollow
  <2>7. \A a \in Apis : apc'[a] # "idle" => audits'[ajob'[a].job_id] = audits[ajob[a].job_id]
    BY <1>h, <2>1, <2>3, <2>5
  <2>8. \A i \in 1..Len(queue') : audits'[queue'[i].job_id] = audits[queue[i].job_id]
    BY <1>t, <2>1, <2>3, <2>5, QueueTypes
  <2>9. \A v \in Workers : wpc'[v] # "idle" => audits'[wjob'[v].job_id] = audits[wjob[v].job_id]
    BY <1>h, <2>3, <2>4, <2>5
  <2> QED BY <2>1, <2>4, <2>6, <2>7, <2>8, <2>9 DEF EventsFollow
<1>15. ASSUME NEW w \in Workers, RequeuePut(w) PROVE EventsFollow'
  <2>1. /\ wpc[w] = "requeue_put" /\ queue' = Append(queue, wjob[w]) /\ Done(w)
        /\ UNCHANGED <<rows, audits, apc, ajob>>
    BY <1>15 DEF RequeuePut, apis, store
  <2>2. \A i \in 1..Len(queue') : \/ i = Len(queue) + 1 /\ queue'[i] = wjob[w]
                                  \/ i \in 1..Len(queue) /\ queue'[i] = queue[i]
    BY <1>h, <1>t, <2>1, PutElements
  <2>3. \A i \in 1..Len(queue') : audits[queue'[i].job_id] = Created
    BY <2>1, <2>2 DEF EventsFollow
  <2>4. /\ wpc'[w] = "idle"
        /\ \A v \in Workers : v # w => wpc'[v] = wpc[v] /\ wjob'[v] = wjob[v]
    BY <2>1, Moves
  <2> QED BY <2>1, <2>3, <2>4, EventsKept DEF EventsFollow
<1>16. ASSUME NEW w \in Workers, StorageFault(w) \/ Crash(w) PROVE EventsFollow'
  <2>1. Done(w) /\ UNCHANGED <<rows, audits, apc, ajob, queue>>
    BY <1>16 DEF StorageFault, Crash, apis, store
  <2>2. /\ wpc'[w] = "idle"
        /\ \A v \in Workers : v # w => wpc'[v] = wpc[v] /\ wjob'[v] = wjob[v]
    BY <2>1, Moves
  <2> QED BY <2>1, <2>2, EventsKept DEF EventsFollow
<1>17. CASE Tick \/ UNCHANGED vars \/ \E w \in Workers : DispatchRetry(w)
  BY <1>17, EventsKept DEF Tick, vars, DispatchRetry, store, workers, apis, EventsFollow
<1> QED
  BY <1>1, <1>2, <1>3, <1>4, <1>5, <1>8, <1>9, <1>10, <1>11, <1>12, <1>13, <1>14, <1>15,
     <1>16, <1>17
  DEF Next, ApiStep, WorkerStep, DispatchStep, DispatchExhausted, DispatchUnexpected

LEMMA FailureNamedNext == OInv /\ FailureNamed /\ [Next]_vars => FailureNamed'
<1> SUFFICES ASSUME OInv, FailureNamed, [Next]_vars PROVE FailureNamed'
  OBVIOUS
<1>1. ASSUME NEW w \in Workers, NEW reason \in {"retry_exhausted", "unexpected"},
             DispatchRaises(w, reason)
      PROVE  FailureNamed'
  <2> DEFINE job == [wjob[w] EXCEPT !.status = "failed", !.error = reason]
  <2>1. wpc[w] # "idle" /\ Goto(w, "fail_update", job)
    BY <1>1 DEF DispatchRaises
  <2>2. job.error = reason
    BY <2>1, Held DEF JobRecord
  <2> HIDE DEF job
  <2>3. /\ wjob'[w] = job
        /\ \A v \in Workers : v # w => wpc'[v] = wpc[v] /\ wjob'[v] = wjob[v]
    BY <2>1, Moves
  <2> QED BY <2>2, <2>3 DEF FailureNamed
<1>2. ASSUME NEW w \in Workers, FailUpdate(w) PROVE FailureNamed'
  <2>1. wpc[w] = "fail_update" /\ (Done(w) \/ Goto(w, "fail_audit", wjob[w]))
    BY <1>2 DEF FailUpdate
  <2>2. /\ wpc'[w] = "idle" \/ wjob'[w] = wjob[w]
        /\ \A v \in Workers : v # w => wpc'[v] = wpc[v] /\ wjob'[v] = wjob[v]
    BY <2>1, Moves
  <2> QED BY <2>1, <2>2 DEF FailureNamed
<1>3. ASSUME NEW w \in Workers, wpc'[w] \notin {"fail_update", "fail_audit"},
             \A v \in Workers : v # w => wpc'[v] = wpc[v] /\ wjob'[v] = wjob[v]
      PROVE  FailureNamed'
  BY <1>3 DEF FailureNamed
<1>4. ASSUME UNCHANGED <<wpc, wjob>> PROVE FailureNamed'
  BY <1>4 DEF FailureNamed
<1>5. ASSUME NEW w \in Workers,
             \/ Get(w) \/ MarkRunning(w) \/ GateAdmit(w) \/ GateReject(w) \/ DispatchOk(w)
             \/ FailAudit(w) \/ RequeueUpdate(w) \/ RequeuePut(w) \/ Upsert(w)
             \/ SucceedUpdate(w) \/ SucceedAudit(w) \/ StorageFault(w) \/ Crash(w)
      PROVE  FailureNamed'
  <2>1. \/ Done(w)
        \/ \E job : \/ Goto(w, "mark", job) \/ Goto(w, "gate", job) \/ Goto(w, "dispatch", job)
                   \/ Goto(w, "requeue_update", job) \/ Goto(w, "requeue_put", job)
                   \/ Goto(w, "upsert", job) \/ Goto(w, "succeed_update", job)
                   \/ Goto(w, "succeed_audit", job)
    BY <1>5, Zenon DEF Get, MarkRunning, GateAdmit, GateReject, DispatchOk, FailAudit,
          RequeueUpdate, RequeuePut, Upsert, SucceedUpdate, SucceedAudit, StorageFault, Crash
  <2> QED BY <1>3, <2>1, Moves
<1>6. ASSUME NEW a \in Apis,
             (\E j \in Jobs : ApiCreate(a, j)) \/ ApiAudit(a) \/ ApiDispatch(a) \/ ApiFault(a)
      PROVE  FailureNamed'
  BY <1>4, <1>6 DEF ApiCreate, ApiAudit, ApiDispatch, ApiFault, workers
<1>7. CASE Tick \/ UNCHANGED vars \/ \E w \in Workers : DispatchRetry(w)
  BY <1>4, <1>7 DEF Tick, vars, DispatchRetry, workers
<1> QED
  BY <1>1, <1>2, <1>5, <1>6, <1>7
  DEF Next, ApiStep, WorkerStep, DispatchStep, DispatchExhausted, DispatchUnexpected

(* The pipeline's inductive invariant.                                     *)
IInv == OInv /\ RecordsFirst /\ EventsFollow /\ FailureNamed

LEMMA IInvInit == Init => IInv
<1> SUFFICES ASSUME Init PROVE IInv
  OBVIOUS
<1>1. OInv
  BY OInvInit
<1>2. RecordsFirst /\ FailureNamed
  BY DEF Init, RecordsFirst, SucceededHasRecord, FailureNamed, NoJob
<1>3. EventsFollow
  BY DEF Init, EventsFollow
<1> QED BY <1>1, <1>2, <1>3 DEF IInv

LEMMA IInvHolds == Spec => []IInv
<1>1. OInv /\ [Next]_vars => OInv'
  BY TInvNext, SingleOwnerNext, PhaseNext DEF OInv
<1>2. IInv /\ [Next]_vars => IInv'
  BY <1>1, RecordsFirstNext, EventsFollowNext, FailureNamedNext DEF IInv
<1> QED BY <1>2, IInvInit, PTL DEF Spec

(* A row says SUCCEEDED only with the hash of its commit's record, and     *)
(* only once the record is in the store, whatever fails in between.        *)
THEOREM SucceededHasRecordHolds == Spec => []SucceededHasRecord
<1>1. IInv => SucceededHasRecord
  BY DEF IInv, RecordsFirst
<1> QED BY <1>1, IInvHolds, PTL

-----------------------------------------------------------------------------
(* The pipeline implements JobLifecycle.                                   *)

(* What a client sees.                                                     *)
Shown == [j \in Jobs |-> rows[j].status]
ShownHash == [j \in Jobs |-> rows[j].record_hash]
Stored == {h \in Hashes : records[h] # NoTenant}

(* One row gets a new status, and with it perhaps a record hash.           *)
LEMMA RowShows ==
    ASSUME NEW j \in Jobs, \A k \in Jobs : k # j => rows'[k] = rows[k]
    PROVE  /\ Shown' = [Shown EXCEPT ![j] = rows'[j].status]
           /\ ShownHash' = [ShownHash EXCEPT ![j] = rows'[j].record_hash]
           /\ rows'[j].record_hash = rows[j].record_hash => ShownHash' = ShownHash
           /\ rows'[j].status = rows[j].status => Shown' = Shown
  BY DEF Shown, ShownHash

LEMMA LifecycleStep == IInv /\ [Next]_vars => [Lifecycle!Next]_(Lifecycle!vars)
<1> SUFFICES ASSUME IInv, [Next]_vars PROVE Lifecycle!Next \/ UNCHANGED Lifecycle!vars
  OBVIOUS
<1>0. OInv /\ RecordsFirst /\ EventsFollow
  BY DEF IInv
<1>h. /\ rows = [j \in Jobs |-> rows[j]]
      /\ \A w \in Workers : wpc[w] # "idle" =>
            wjob[w] \in JobRecord /\ wjob[w].job_id \in Jobs /\ WorkerPhase(w)
      /\ \A a \in Apis : apc[a] # "idle" => ajob[a] \in JobRecord /\ ajob[a].job_id \in Jobs
  BY <1>0, Held
<1>s. ASSUME UNCHANGED <<Shown, ShownHash, Stored, audits>> PROVE UNCHANGED Lifecycle!vars
  BY <1>s DEF Lifecycle!vars, Shown, ShownHash, Stored
<1>u. ASSUME UNCHANGED <<rows, records, audits>> PROVE UNCHANGED Lifecycle!vars
  BY <1>s, <1>u DEF Shown, ShownHash, Stored
<1>n. ASSUME NEW j \in Jobs,
             \/ Lifecycle!Create(j) \/ Lifecycle!Begin(j) \/ Lifecycle!Fail(j)
             \/ Lifecycle!LogCreation(j) \/ Lifecycle!LogOutcome(j)
             \/ \E h \in Hashes : Lifecycle!Succeed(j, h)
      PROVE  Lifecycle!Next
  BY <1>n, Zenon DEF Lifecycle!Next
<1>m. ASSUME NEW h \in Hashes, Lifecycle!Store(h) PROVE Lifecycle!Next
  BY <1>m, Zenon DEF Lifecycle!Next
<1>1. ASSUME NEW a \in Apis, NEW j \in Jobs, ApiCreate(a, j) PROVE Lifecycle!Next
  <2>1. /\ rows[j] = NoJob /\ rows'[j] = NewJob(j) /\ \A k \in Jobs : k # j => rows'[k] = rows[k]
        /\ UNCHANGED <<records, audits>>
    BY <1>1, <1>h DEF ApiCreate
  <2>2. /\ Shown[j] = "absent" /\ Shown' = [Shown EXCEPT ![j] = "queued"]
        /\ UNCHANGED <<ShownHash, Stored, audits>>
    BY <2>1, RowShows DEF NoJob, NewJob, Shown, Stored
  <2>3. Lifecycle!Create(j)
    BY <2>2 DEF Lifecycle!Create, Lifecycle!Become, Shown, ShownHash, Stored
  <2> QED BY <1>n, <2>3
<1>2. ASSUME NEW a \in Apis, ApiAudit(a) PROVE Lifecycle!Next
  <2>0. PICK j \in Jobs : j = ajob[a].job_id
    BY <1>2, <1>h DEF ApiAudit
  <2>1. /\ apc[a] = "audit" /\ UNCHANGED <<rows, records>>
        /\ audits' = [audits EXCEPT ![j] = Append(audits[j], "score.create")]
    BY <1>2, <2>0 DEF ApiAudit, AppendAudit
  <2>2. audits[j] = << >> /\ Shown[j] = "queued"
    BY <1>0, <2>0, <2>1 DEF EventsFollow, OInv, PhaseMatchesStatus, Shown
  <2>3. Append(<< >>, "score.create") = <<"score.create">>
    OBVIOUS
  <2>4. Lifecycle!LogCreation(j)
    BY <2>1, <2>2, <2>3 DEF Lifecycle!LogCreation, Shown
  <2> QED BY <1>n, <2>4
<1>3. ASSUME NEW w \in Workers, MarkRunning(w) PROVE Lifecycle!Next \/ UNCHANGED Lifecycle!vars
  <2> DEFINE job == [wjob[w] EXCEPT !.status = "running"]
  <2>0. PICK j \in Jobs : j = wjob[w].job_id
    BY <1>3, <1>h DEF MarkRunning
  <2>1. wpc[w] = "mark" /\ Update(job) /\ UNCHANGED <<records, audits>>
    BY <1>3 DEF MarkRunning
  <2>2. /\ job.job_id = j /\ job.status = "running" /\ job.record_hash = wjob[w].record_hash
        /\ rows[j] = wjob[w] /\ wjob[w].status \in {"queued", "running"}
    BY <1>h, <2>0, <2>1 DEF WorkerPhase, JobRecord
  <2> HIDE DEF job
  <2>3. rows'[j] = job /\ \A k \in Jobs : k # j => rows'[k] = rows[k]
    BY <1>h, <2>1, <2>2 DEF Update
  <2>4. /\ Shown' = [Shown EXCEPT ![j] = "running"] /\ UNCHANGED <<ShownHash, Stored>>
        /\ Shown[j] = wjob[w].status
        /\ wjob[w].status = "running" => Shown' = Shown
    BY <2>1, <2>2, <2>3, RowShows DEF Shown, Stored
  <2>5. CASE wjob[w].status = "queued"
    <3>1. Lifecycle!Begin(j)
      BY <2>1, <2>4, <2>5 DEF Lifecycle!Begin, Lifecycle!Become, Shown, ShownHash, Stored
    <3> QED BY <1>n, <3>1
  <2>6. CASE wjob[w].status = "running"
    BY <1>s, <2>1, <2>4, <2>6
  <2> QED BY <2>2, <2>5, <2>6
<1>4. ASSUME NEW w \in Workers, FailUpdate(w) PROVE Lifecycle!Next
  <2>0. PICK j \in Jobs : j = wjob[w].job_id
    BY <1>4, <1>h DEF FailUpdate
  <2>1. wpc[w] = "fail_update" /\ Update(wjob[w]) /\ UNCHANGED <<records, audits>>
    BY <1>4 DEF FailUpdate
  <2>2. /\ rows[j].status = "running" /\ wjob[w].status = "failed"
        /\ wjob[w].record_hash = NoHash /\ rows[j].record_hash = NoHash
    BY <1>0, <1>h, <2>0, <2>1 DEF WorkerPhase, RecordsFirst
  <2>3. rows'[j] = wjob[w] /\ \A k \in Jobs : k # j => rows'[k] = rows[k]
    BY <1>h, <2>0, <2>1 DEF Update
  <2>4. /\ Shown[j] = "running" /\ Shown' = [Shown EXCEPT ![j] = "failed"]
        /\ UNCHANGED <<ShownHash, Stored>>
    BY <2>1, <2>2, <2>3, RowShows DEF Shown, Stored
  <2>5. Lifecycle!Fail(j)
    BY <2>1, <2>4 DEF Lifecycle!Fail, Lifecycle!Become, Shown, ShownHash, Stored
  <2> QED BY <1>n, <2>5
<1>5. ASSUME NEW w \in Workers, RequeueUpdate(w) PROVE UNCHANGED Lifecycle!vars
  <2> DEFINE j == wjob[w].job_id
  <2>1. /\ wpc[w] = "requeue_update" /\ j \in Jobs /\ Update(wjob[w])
        /\ UNCHANGED <<records, audits>>
    BY <1>5, <1>h DEF RequeueUpdate
  <2>2. /\ rows[j].status = "running" /\ wjob[w].status = "running"
        /\ wjob[w].record_hash = NoHash /\ rows[j].record_hash = NoHash
    BY <1>0, <1>h, <2>1 DEF WorkerPhase, RecordsFirst
  <2>3. rows'[j] = wjob[w] /\ \A k \in Jobs : k # j => rows'[k] = rows[k]
    BY <1>h, <2>1 DEF Update
  <2>4. UNCHANGED <<Shown, ShownHash, Stored>>
    BY <2>1, <2>2, <2>3, RowShows DEF Stored
  <2> QED BY <1>s, <2>1, <2>4
<1>6. ASSUME NEW w \in Workers, Upsert(w) PROVE Lifecycle!Next
  <2> DEFINE r == req[wjob[w].job_id]
  <2>0. PICK h \in Hashes : h = RecordHash[r.commit]
    BY <1>6, <1>0, <1>h, PipelineAssumption DEF Upsert, OInv, TInv, TypeOK
  <2>1. records' = [records EXCEPT ![h] = r.tenant] /\ UNCHANGED <<rows, audits>>
    BY <1>6, <2>0 DEF Upsert
  <2>2. r.tenant \in Tenants /\ records = [x \in Hashes |-> records[x]]
    BY <1>6, <1>0, <1>h, PipelineAssumption DEF Upsert, OInv, TInv, TypeOK
  <2> HIDE DEF r
  <2>3. Stored' = Stored \cup {h}
    BY <2>1, <2>2, PipelineAssumption DEF Stored
  <2>4. Lifecycle!Store(h)
    BY <2>1, <2>3 DEF Lifecycle!Store, Stored
  <2> QED BY <1>m, <2>4
<1>7. ASSUME NEW w \in Workers, SucceedUpdate(w) PROVE Lifecycle!Next
  <2>0. PICK j \in Jobs : j = wjob[w].job_id
    BY <1>7, <1>h DEF SucceedUpdate
  <2>1. PICK h \in Hashes : h = RecordHash[req[j].commit]
    BY <1>0, PipelineAssumption DEF OInv, TInv, TypeOK
  <2> DEFINE job == [wjob[w] EXCEPT !.status = "succeeded", !.record_hash = h,
                                    !.error = "none"]
  <2>2. wpc[w] = "succeed_update" /\ Update(job) /\ UNCHANGED <<records, audits>>
    BY <1>7, <2>0, <2>1 DEF SucceedUpdate
  <2>3. /\ job.job_id = j /\ job.status = "succeeded" /\ job.record_hash = h
        /\ rows[j].status = "running" /\ records[h] # NoTenant
    BY <1>0, <1>h, <2>0, <2>1, <2>2 DEF WorkerPhase, JobRecord, RecordsFirst
  <2> HIDE DEF job
  <2>4. rows'[j] = job /\ \A k \in Jobs : k # j => rows'[k] = rows[k]
    BY <1>h, <2>2, <2>3 DEF Update
  <2>5. /\ Shown[j] = "running" /\ Shown' = [Shown EXCEPT ![j] = "succeeded"]
        /\ ShownHash' = [ShownHash EXCEPT ![j] = h]
        /\ h \in Stored /\ Stored' = Stored
    BY <2>2, <2>3, <2>4, RowShows DEF Shown, Stored
  <2>6. Lifecycle!Succeed(j, h)
    BY <2>2, <2>5 DEF Lifecycle!Succeed, Lifecycle!Become, Shown, ShownHash, Stored
  <2> QED BY <1>n, <2>6
<1>8. ASSUME NEW w \in Workers, NEW e,
             \/ FailAudit(w) /\ e = "score.failed"
             \/ SucceedAudit(w) /\ e = "score.succeeded"
      PROVE  Lifecycle!Next
  <2>0. PICK j \in Jobs : j = wjob[w].job_id
    BY <1>8, <1>h DEF FailAudit, SucceedAudit
  <2>1. /\ \/ wpc[w] = "fail_audit" /\ e = "score.failed"
           \/ wpc[w] = "succeed_audit" /\ e = "score.succeeded"
        /\ UNCHANGED <<rows, records>>
        /\ audits' = [audits EXCEPT ![j] = Append(audits[j], e)]
    BY <1>8, <2>0 DEF FailAudit, SucceedAudit, AppendAudit
  <2>2. audits[j] = <<"score.create">>
    BY <1>0, <2>0, <2>1 DEF EventsFollow, Created
  <2>3. \/ Shown[j] = "failed" /\ e = "score.failed"
        \/ Shown[j] = "succeeded" /\ e = "score.succeeded"
    BY <1>h, <2>0, <2>1 DEF WorkerPhase, Shown
  <2>4. Lifecycle!LogOutcome(j)
    BY <2>1, <2>2, <2>3 DEF Lifecycle!LogOutcome, Shown
  <2> QED BY <1>n, <2>4
<1>9. ASSUME NEW a \in Apis, ApiDispatch(a) \/ ApiFault(a) PROVE UNCHANGED Lifecycle!vars
  BY <1>u, <1>9 DEF ApiDispatch, ApiFault, store
<1>10. ASSUME NEW w \in Workers,
              \/ Get(w) \/ GateAdmit(w) \/ GateReject(w) \/ DispatchStep(w) \/ RequeuePut(w)
              \/ StorageFault(w) \/ Crash(w)
       PROVE  UNCHANGED Lifecycle!vars
  BY <1>u, <1>10 DEF Get, GateAdmit, GateReject, DispatchStep, DispatchRetry,
        DispatchExhausted, DispatchUnexpected, DispatchRaises, DispatchOk, RequeuePut,
        StorageFault, Crash, store
<1>11. CASE Tick \/ UNCHANGED vars
  BY <1>u, <1>11 DEF Tick, vars, store
<1> QED
  BY <1>1, <1>2, <1>3, <1>4, <1>5, <1>6, <1>7, <1>8, <1>9, <1>10, <1>11
  DEF Next, ApiStep, WorkerStep

(* The pipeline implements JobLifecycle: every storage call is one step of *)
(* the promised life of a job and everything else is invisible, whatever   *)
(* crashes, storage errors, rejections and retries come between.           *)
THEOREM ImplementsJobLifecycleHolds == Spec => ImplementsJobLifecycle
<1>1. Init => Lifecycle!Init
  <2> SUFFICES ASSUME Init PROVE Lifecycle!Init
    OBVIOUS
  <2> QED BY DEF Init, Lifecycle!Init, NoJob
<1> QED BY <1>1, LifecycleStep, IInvHolds, PTL DEF Spec, ImplementsJobLifecycle, Lifecycle!Spec

-----------------------------------------------------------------------------
(* What faults lose.                                                       *)

Lost == {j \in Jobs : Abandoned(j)}

(* A set that gains at most one member grows by at most one.               *)
LEMMA OneMore ==
    ASSUME NEW S, IsFiniteSet(S), NEW T, NEW x, T \subseteq S \cup {x}
    PROVE  IsFiniteSet(T) /\ Cardinality(T) <= Cardinality(S) + 1
<1>1. IsFiniteSet(S \cup {x}) /\ Cardinality(S \cup {x}) <= Cardinality(S) + 1
  <2>1. Cardinality(S) \in Nat
    BY FS_CardinalityType
  <2>2. IsFiniteSet(S \cup {x}) /\ Cardinality(S \cup {x}) \in {Cardinality(S), Cardinality(S) + 1}
    BY FS_AddElement
  <2> QED BY <2>1, <2>2
<1>2. IsFiniteSet(T) /\ Cardinality(T) <= Cardinality(S \cup {x})
  BY <1>1, FS_Subset
<1>3. Cardinality(T) \in Nat /\ Cardinality(S) \in Nat /\ Cardinality(S \cup {x}) \in Nat
  BY <1>1, <1>2, FS_CardinalityType
<1> QED BY <1>1, <1>2, <1>3

(* What a consumer or a request does can abandon no job but its own.       *)
LEMMA WorkerLosesOwn ==
    ASSUME NEW w \in Workers, NEW x, x = wjob[w].job_id, ajob' = ajob,
           \A v \in Workers : v # w => wjob'[v] = wjob[v],
           \A i \in 1..Len(queue) : \E k \in 1..Len(queue') : queue'[k] = queue[i],
           \A j \in Jobs : j # x => rows'[j] = rows[j] /\ audits'[j] = audits[j]
    PROVE  Lost' \subseteq Lost \cup {x}
<1>1. ASSUME NEW j \in Jobs, j # x, Unowned(j)' PROVE Unowned(j)
  BY <1>1 DEF Unowned
<1> QED BY <1>1 DEF Lost, Abandoned

LEMMA ApiLosesOwn ==
    ASSUME NEW a \in Apis, NEW x, x = ajob[a].job_id, wjob' = wjob,
           \A b \in Apis : b # a => ajob'[b] = ajob[b],
           \A i \in 1..Len(queue) : \E k \in 1..Len(queue') : queue'[k] = queue[i],
           \A j \in Jobs : j # x => rows'[j] = rows[j] /\ audits'[j] = audits[j]
    PROVE  Lost' \subseteq Lost \cup {x}
<1>1. ASSUME NEW j \in Jobs, j # x, Unowned(j)' PROVE Unowned(j)
  BY <1>1 DEF Unowned
<1> QED BY <1>1 DEF Lost, Abandoned

(* Every step but a fault leaves the abandoned jobs as they are; a fault   *)
(* adds at most the job whose holder it struck.                            *)
LEMMA LossStep ==
    IInv /\ [Next]_vars =>
        \/ faults' = faults /\ Lost' \subseteq Lost
        \/ faults' = faults + 1 /\ \E x : Lost' \subseteq Lost \cup {x}
<1> SUFFICES ASSUME IInv, [Next]_vars
             PROVE  \/ faults' = faults /\ Lost' \subseteq Lost
                    \/ faults' = faults + 1 /\ \E x : Lost' \subseteq Lost \cup {x}
  OBVIOUS
<1>0. OInv /\ TInv /\ EventsFollow /\ FailureNamed
  BY DEF IInv, OInv
<1>h. /\ \A w \in Workers : wpc[w] # "idle" =>
            wjob[w] \in JobRecord /\ wjob[w].job_id \in Jobs /\ WorkerPhase(w)
      /\ \A a \in Apis : apc[a] # "idle" => ajob[a] \in JobRecord /\ ajob[a].job_id \in Jobs
  BY <1>0, Held
<1>t. /\ rows = [j \in Jobs |-> rows[j]] /\ audits = [j \in Jobs |-> audits[j]]
      /\ ajob = [a \in Apis |-> ajob[a]] /\ wjob = [w \in Workers |-> wjob[w]]
  BY <1>0 DEF TInv, TypeOK
<1>q. ASSUME queue' = queue
      PROVE  \A i \in 1..Len(queue) : \E k \in 1..Len(queue') : queue'[k] = queue[i]
  BY <1>q
<1>r. ASSUME NEW job \in JobRecord, queue' = Append(queue, job)
      PROVE  /\ \A i \in 1..Len(queue) : \E k \in 1..Len(queue') : queue'[k] = queue[i]
             /\ ~Abandoned(job.job_id)'
  <2>1. /\ Len(queue') = Len(queue) + 1 /\ queue'[Len(queue) + 1] = job
        /\ \A i \in 1..Len(queue) : queue'[i] = queue[i]
    BY <1>0, <1>r, QueueTypes
  <2>2. Len(queue) + 1 \in 1..Len(queue') /\ \A i \in 1..Len(queue) : i \in 1..Len(queue')
    BY <1>0, <2>1, QueueTypes
  <2> QED BY <2>1, <2>2 DEF Abandoned, Unowned
<1>1. ASSUME NEW a \in Apis, NEW j \in Jobs, ApiCreate(a, j)
      PROVE  faults' = faults /\ Lost' \subseteq Lost
  <2>1. /\ ajob'[a].job_id = j /\ ajob[a] = NoJob
        /\ \A b \in Apis : b # a => ajob'[b] = ajob[b]
        /\ \A k \in Jobs : k # j => rows'[k] = rows[k]
        /\ UNCHANGED <<audits, queue, wjob, faults>>
    BY <1>0, <1>1, <1>t DEF ApiCreate, ApiGoto, NewJob, workers, TInv, HoldersTyped
  <2>2. ASSUME NEW k \in Jobs, k # j, Unowned(k)' PROVE Unowned(k)
    BY <2>1, <2>2, PipelineAssumption DEF Unowned, NoJob
  <2>3. ~Unowned(j)'
    BY <2>1 DEF Unowned
  <2> QED BY <2>1, <2>2, <2>3 DEF Lost, Abandoned
<1>2. ASSUME NEW a \in Apis, ApiAudit(a) PROVE faults' = faults /\ Lost' \subseteq Lost
  <2>0. PICK x : x = ajob[a].job_id
    OBVIOUS
  <2>1. /\ x \in Jobs /\ ajob'[a].job_id = x /\ \A b \in Apis : b # a => ajob'[b] = ajob[b]
        /\ \A j \in Jobs : j # x => audits'[j] = audits[j]
        /\ UNCHANGED <<rows, queue, wjob, faults>>
    BY <1>2, <1>h, <1>t, <2>0 DEF ApiAudit, AppendAudit, ApiGoto, workers
  <2>2. ~Abandoned(x)'
    BY <2>1 DEF Abandoned, Unowned
  <2>3. Lost' \subseteq Lost \cup {x}
    BY <1>q, <2>0, <2>1, ApiLosesOwn
  <2> QED BY <2>1, <2>2, <2>3 DEF Lost
<1>3. ASSUME NEW a \in Apis, ApiDispatch(a) PROVE faults' = faults /\ Lost' \subseteq Lost
  <2>0. PICK x : x = ajob[a].job_id
    OBVIOUS
  <2>1. /\ queue' = Append(queue, ajob[a]) /\ ajob[a] \in JobRecord
        /\ \A b \in Apis : b # a => ajob'[b] = ajob[b]
        /\ UNCHANGED <<rows, audits, wjob, faults>>
    BY <1>3, <1>h, <1>t DEF ApiDispatch, ApiDone, ApiGoto, workers, store
  <2>2. PICK job \in JobRecord : job = ajob[a]
    BY <2>1
  <2>3. ~Abandoned(x)'
    BY <1>r, <2>0, <2>1, <2>2
  <2>4. Lost' \subseteq Lost \cup {x}
    BY <1>r, <2>0, <2>1, <2>2, ApiLosesOwn
  <2> QED BY <2>1, <2>3, <2>4 DEF Lost
<1>4. ASSUME NEW a \in Apis, ApiFault(a)
      PROVE  faults' = faults + 1 /\ \E x : Lost' \subseteq Lost \cup {x}
  <2>0. PICK x : x = ajob[a].job_id
    OBVIOUS
  <2>1. /\ \A b \in Apis : b # a => ajob'[b] = ajob[b]
        /\ faults' = faults + 1 /\ UNCHANGED <<rows, audits, queue, wjob>>
    BY <1>4, <1>t DEF ApiFault, ApiDone, ApiGoto, workers, store
  <2>2. Lost' \subseteq Lost \cup {x}
    BY <1>q, <2>0, <2>1, ApiLosesOwn
  <2> QED BY <2>1, <2>2
<1>5. ASSUME NEW w \in Workers, Get(w) PROVE faults' = faults /\ Lost' \subseteq Lost
  <2>1. /\ wjob[w] = NoJob /\ wjob'[w] = Head(queue) /\ queue # << >> /\ queue' = Tail(queue)
        /\ \A v \in Workers : v # w => wjob'[v] = wjob[v]
        /\ UNCHANGED <<rows, audits, ajob, faults>>
    BY <1>5, <1>0, <1>t DEF Get, Goto, store, apis, TInv, HoldersTyped
  <2>2. /\ Head(queue) = queue[1] /\ Len(queue') = Len(queue) - 1 /\ Len(queue) \in Nat
        /\ \A i \in 1..Len(queue') : queue'[i] = queue[i + 1]
    BY <1>0, <2>1, QueueTypes
  <2>3. ASSUME NEW j \in Jobs, Unowned(j)' PROVE Unowned(j)
    <3>1. \A i \in 1..Len(queue) : queue[i].job_id # j
      <4> SUFFICES ASSUME NEW i \in 1..Len(queue), queue[i].job_id = j PROVE FALSE
        OBVIOUS
      <4>1. CASE i = 1
        BY <2>1, <2>2, <2>3, <4>1 DEF Unowned
      <4>2. CASE i # 1
        <5>1. i - 1 \in 1..Len(queue') /\ queue'[i - 1] = queue[i]
          BY <2>2, <4>2
        <5> QED BY <2>3, <5>1 DEF Unowned
      <4> QED BY <4>1, <4>2
    <3> QED BY <2>1, <2>3, <3>1, PipelineAssumption DEF Unowned, NoJob
  <2> QED BY <2>1, <2>3 DEF Lost, Abandoned
<1>6. ASSUME NEW w \in Workers, NEW pc, NEW job, Goto(w, pc, job),
             job.job_id = wjob[w].job_id, UNCHANGED <<audits, ajob, queue, faults>>,
             \A j \in Jobs : j # wjob[w].job_id => rows'[j] = rows[j]
      PROVE  faults' = faults /\ Lost' \subseteq Lost
  <2>0. PICK x : x = wjob[w].job_id
    OBVIOUS
  <2>1. wjob'[w] = job /\ \A v \in Workers : v # w => wjob'[v] = wjob[v]
    BY <1>0, <1>6, Moves
  <2>2. ~Abandoned(x)'
    BY <1>6, <2>0, <2>1 DEF Abandoned, Unowned
  <2>3. Lost' \subseteq Lost \cup {x}
    BY <1>6, <1>q, <2>0, <2>1, WorkerLosesOwn
  <2> QED BY <1>6, <2>2, <2>3 DEF Lost
<1>7. ASSUME NEW job, job.job_id \in Jobs, Update(job), NEW j \in Jobs, j # job.job_id
      PROVE  rows'[j] = rows[j]
  BY <1>7, <1>t DEF Update
<1>8. ASSUME NEW w \in Workers, MarkRunning(w) PROVE faults' = faults /\ Lost' \subseteq Lost
  <2> DEFINE job == [wjob[w] EXCEPT !.status = "running"]
  <2>1. /\ wpc[w] # "idle" /\ Update(job) /\ Goto(w, "gate", job)
        /\ UNCHANGED <<audits, ajob, queue, faults>>
    BY <1>8 DEF MarkRunning, apis
  <2>2. job.job_id = wjob[w].job_id /\ job.job_id \in Jobs
    BY <1>h, <2>1, SameId
  <2> HIDE DEF job
  <2> QED BY <1>6, <1>7, <2>1, <2>2
<1>9. ASSUME NEW w \in Workers, GateAdmit(w) \/ DispatchOk(w) \/ Upsert(w)
      PROVE  faults' = faults /\ Lost' \subseteq Lost
  <2>1. UNCHANGED <<rows, audits, ajob, queue, faults>> /\ \E pc : Goto(w, pc, wjob[w])
    BY <1>9 DEF GateAdmit, DispatchOk, Upsert, apis, store
  <2> QED BY <1>6, <2>1
<1>10. ASSUME NEW w \in Workers, GateReject(w) PROVE faults' = faults /\ Lost' \subseteq Lost
  <2> DEFINE job == [wjob[w] EXCEPT !.error = "circuit_open"]
  <2>1. /\ wpc[w] # "idle" /\ Goto(w, "requeue_update", job)
        /\ UNCHANGED <<rows, audits, ajob, queue, faults>>
    BY <1>10 DEF GateReject, apis, store
  <2>2. job.job_id = wjob[w].job_id
    BY <1>h, <2>1, SameId
  <2> HIDE DEF job
  <2> QED BY <1>6, <2>1, <2>2
<1>11. ASSUME NEW w \in Workers, NEW reason, DispatchRaises(w, reason)
       PROVE  faults' = faults /\ Lost' \subseteq Lost
  <2> DEFINE job == [wjob[w] EXCEPT !.status = "failed", !.error = reason]
  <2>1. /\ wpc[w] # "idle" /\ Goto(w, "fail_update", job)
        /\ UNCHANGED <<rows, audits, ajob, queue, faults>>
    BY <1>11 DEF DispatchRaises, apis, store
  <2>2. job.job_id = wjob[w].job_id
    BY <1>h, <2>1 DEF JobRecord
  <2> HIDE DEF job
  <2> QED BY <1>6, <2>1, <2>2
<1>12. ASSUME NEW w \in Workers, FailUpdate(w) PROVE faults' = faults /\ Lost' \subseteq Lost
  <2>1. /\ wpc[w] = "fail_update" /\ Update(wjob[w]) /\ UNCHANGED <<audits, ajob, queue, faults>>
        /\ IF wjob[w].error = "retry_exhausted" THEN Goto(w, "fail_audit", wjob[w]) ELSE Done(w)
    BY <1>12 DEF FailUpdate, apis
  <2>2. CASE Goto(w, "fail_audit", wjob[w])
    BY <1>6, <1>7, <1>h, <2>1, <2>2
  <2>3. CASE Done(w) /\ wjob[w].error # "retry_exhausted"
    <3>0. PICK x : x = wjob[w].job_id
      OBVIOUS
    <3>1. rows'[x].status = "failed" /\ rows'[x].error = "unexpected"
      BY <1>0, <1>h, <1>t, <2>1, <2>3, <3>0 DEF Update, WorkerPhase, FailureNamed
    <3>2. ~Abandoned(x)'
      BY <3>1 DEF Abandoned, Terminal
    <3>3. \A v \in Workers : v # w => wjob'[v] = wjob[v]
      BY <1>0, <2>3, Moves
    <3>4. Lost' \subseteq Lost \cup {x}
      BY <1>7, <1>h, <1>q, <2>1, <3>0, <3>3, WorkerLosesOwn
    <3> QED BY <2>1, <3>2, <3>4 DEF Lost
  <2> QED BY <2>1, <2>2, <2>3
<1>13. ASSUME NEW w \in Workers, RequeueUpdate(w) PROVE faults' = faults /\ Lost' \subseteq Lost
  <2>1. /\ wpc[w] = "requeue_update" /\ Update(wjob[w]) /\ Goto(w, "requeue_put", wjob[w])
        /\ UNCHANGED <<audits, ajob, queue, faults>>
    BY <1>13 DEF RequeueUpdate, apis
  <2> QED BY <1>6, <1>7, <1>h, <2>1
<1>14. ASSUME NEW w \in Workers, SucceedUpdate(w) PROVE faults' = faults /\ Lost' \subseteq Lost
  <2> DEFINE job == [wjob[w] EXCEPT !.status = "succeeded",
                                    !.record_hash = RecordHash[req[wjob[w].job_id].commit],
                                    !.error = "none"]
  <2>1. /\ wpc[w] # "idle" /\ Update(job) /\ Goto(w, "succeed_audit", job)
        /\ UNCHANGED <<audits, ajob, queue, faults>>
    BY <1>14 DEF SucceedUpdate, apis
  <2>2. job.job_id = wjob[w].job_id /\ job.job_id \in Jobs
    BY <1>h, <2>1 DEF JobRecord
  <2> HIDE DEF job
  <2> QED BY <1>6, <1>7, <2>1, <2>2
<1>15. ASSUME NEW w \in Workers, NEW e, AppendAudit(wjob[w], e), Done(w),
              wpc[w] \in {"fail_audit", "succeed_audit"},
              UNCHANGED <<rows, ajob, queue, faults>>
       PROVE  faults' = faults /\ Lost' \subseteq Lost
  <2>0. PICK x \in Jobs : x = wjob[w].job_id
    BY <1>h, <1>15
  <2>1. /\ audits'[x] = Append(audits[x], e)
        /\ \A j \in Jobs : j # x => audits'[j] = audits[j]
    BY <1>15, <1>t, <2>0 DEF AppendAudit
  <2>2. audits[x] = <<"score.create">> /\ rows[x].status \in Terminal
    BY <1>0, <1>h, <1>15, <2>0 DEF EventsFollow, Created, WorkerPhase, Terminal
  <2>3. Len(audits'[x]) = 2
    BY <2>1, <2>2
  <2>4. ~Abandoned(x)'
    BY <1>15, <2>2, <2>3 DEF Abandoned
  <2>5. \A v \in Workers : v # w => wjob'[v] = wjob[v]
    BY <1>0, <1>15, Moves
  <2>6. Lost' \subseteq Lost \cup {x}
    BY <1>15, <1>q, <2>0, <2>1, <2>5, WorkerLosesOwn
  <2> QED BY <1>15, <2>4, <2>6 DEF Lost
<1>16. ASSUME NEW w \in Workers, FailAudit(w) \/ SucceedAudit(w)
       PROVE  faults' = faults /\ Lost' \subseteq Lost
  BY <1>15, <1>16 DEF FailAudit, SucceedAudit, apis
<1>17. ASSUME NEW w \in Workers, RequeuePut(w) PROVE faults' = faults /\ Lost' \subseteq Lost
  <2>0. PICK x : x = wjob[w].job_id
    OBVIOUS
  <2>1. /\ queue' = Append(queue, wjob[w]) /\ wjob[w] \in JobRecord
        /\ Done(w) /\ UNCHANGED <<rows, audits, ajob, faults>>
    BY <1>17, <1>h DEF RequeuePut, apis, store
  <2>2. PICK job \in JobRecord : job = wjob[w]
    BY <2>1
  <2>3. ~Abandoned(x)'
    BY <1>r, <2>0, <2>1, <2>2
  <2>4. \A v \in Workers : v # w => wjob'[v] = wjob[v]
    BY <1>0, <2>1, Moves
  <2>5. Lost' \subseteq Lost \cup {x}
    BY <1>r, <2>0, <2>1, <2>2, <2>4, WorkerLosesOwn
  <2> QED BY <2>1, <2>3, <2>5 DEF Lost
<1>18. ASSUME NEW w \in Workers, StorageFault(w) \/ Crash(w)
       PROVE  faults' = faults + 1 /\ \E x : Lost' \subseteq Lost \cup {x}
  <2>0. PICK x : x = wjob[w].job_id
    OBVIOUS
  <2>1. Done(w) /\ faults' = faults + 1 /\ UNCHANGED <<rows, audits, ajob, queue>>
    BY <1>18 DEF StorageFault, Crash, apis, store
  <2>2. \A v \in Workers : v # w => wjob'[v] = wjob[v]
    BY <1>0, <2>1, Moves
  <2>3. Lost' \subseteq Lost \cup {x}
    BY <1>q, <2>0, <2>1, <2>2, WorkerLosesOwn
  <2> QED BY <2>1, <2>3
<1>19. CASE Tick \/ UNCHANGED vars \/ \E w \in Workers : DispatchRetry(w)
  <2>1. UNCHANGED <<rows, audits, ajob, queue, wjob, faults>>
    BY <1>19 DEF Tick, vars, DispatchRetry, store, workers, apis
  <2> QED BY <2>1 DEF Lost, Abandoned, Unowned
<1> QED
  BY <1>1, <1>2, <1>3, <1>4, <1>5, <1>8, <1>9, <1>10, <1>11, <1>12, <1>13, <1>14, <1>16,
     <1>17, <1>18, <1>19
  DEF Next, ApiStep, WorkerStep, DispatchStep, DispatchExhausted, DispatchUnexpected

(* Every storage error or crash abandons at most one job, and nothing else *)
(* abandons any: rejections by the breaker, retries and requeues lose      *)
(* nothing, however many jobs, requests and workers there are.             *)
THEOREM FaultsBoundLossHolds == Spec => []FaultsBoundLoss
<1> DEFINE LossInv == IsFiniteSet(Lost) /\ Cardinality(Lost) <= faults
<1>1. Init => LossInv
  <2> SUFFICES ASSUME Init PROVE LossInv
    OBVIOUS
  <2>1. Lost = {}
    BY DEF Init, Lost, Abandoned
  <2> QED BY <2>1, FS_EmptySet DEF Init
<1>2. IInv /\ LossInv /\ [Next]_vars => LossInv'
  <2> SUFFICES ASSUME IInv, LossInv, [Next]_vars PROVE LossInv'
    OBVIOUS
  <2>1. faults \in Nat /\ Cardinality(Lost) \in Nat
    BY PipelineAssumption, FS_CardinalityType DEF IInv, OInv, TInv, TypeOK
  <2>2. CASE faults' = faults /\ Lost' \subseteq Lost
    <3>1. IsFiniteSet(Lost') /\ Cardinality(Lost') <= Cardinality(Lost)
      BY <2>2, FS_Subset
    <3>2. Cardinality(Lost') \in Nat
      BY <3>1, FS_CardinalityType
    <3> QED BY <2>1, <2>2, <3>1, <3>2
  <2>3. ASSUME faults' = faults + 1, NEW x, Lost' \subseteq Lost \cup {x} PROVE LossInv'
    <3>1. IsFiniteSet(Lost') /\ Cardinality(Lost') <= Cardinality(Lost) + 1
      BY <2>3, OneMore
    <3>2. Cardinality(Lost') \in Nat
      BY <3>1, FS_CardinalityType
    <3> QED BY <2>1, <2>3, <3>1, <3>2
  <2> QED BY <2>2, <2>3, LossStep
<1>3. LossInv => FaultsBoundLoss
  BY DEF FaultsBoundLoss, Lost
<1> QED BY <1>1, <1>2, <1>3, IInvHolds, PTL DEF Spec

-----------------------------------------------------------------------------
(* What the failure counter counts.                                        *)

Counted == SumFunctionOnSet([w \in Workers |-> Total(failures[w])], Workers) + forgotten
Failed == {j \in Jobs : rows[j].status = "failed"}
Coming == {w \in Workers : wpc[w] = "fail_update"}

(* The sum of the counters changes by what one of them does.               *)
LEMMA OneCounter ==
    ASSUME TInv, NEW w \in Workers, NEW c \in [Reasons -> Nat],
           failures' = [failures EXCEPT ![w] = c]
    PROVE  /\ Total(failures[w]) \in Nat /\ Total(failures'[w]) \in Nat
           /\ SumFunctionOnSet([v \in Workers |-> Total(failures[v])], Workers) \in Int
           /\ SumFunctionOnSet([v \in Workers |-> Total(failures'[v])], Workers) =
                 SumFunctionOnSet([v \in Workers |-> Total(failures[v])], Workers) + (Total(failures'[w]) - Total(failures[w]))
<1> DEFINE f == [v \in Workers |-> Total(failures[v])]
           g == [v \in Workers |-> Total(failures'[v])]
<1>1. failures \in [Workers -> [Reasons -> Nat]]
  BY DEF TInv, TypeOK
<1>2. ASSUME NEW v \in Workers
      PROVE  Total(failures[v]) \in Nat /\ Total(failures'[v]) \in Nat /\ (v # w => Total(failures'[v]) = Total(failures[v]))
  <2>1. failures[v] \in [Reasons -> Nat] /\ failures'[v] \in [Reasons -> Nat]
    BY <1>1
  <2>2. v # w => failures'[v] = failures[v]
    BY <1>1
  <2>3. "retry_exhausted" \in Reasons /\ "unexpected" \in Reasons /\ "dispatch" \in Reasons
    BY DEF Reasons
  <2> QED BY <2>1, <2>2, <2>3 DEF Total
<1>3. IsFiniteSet(Workers)
  BY PipelineAssumption
<1>4. /\ \A v \in Workers : f[v] \in Int /\ g[v] \in Int
      /\ \A v \in Workers \ {w} : g[v] = f[v]
      /\ f[w] = Total(failures[w]) /\ g[w] = Total(failures'[w])
  BY <1>2
<1> HIDE DEF f, g
<1>5. SumFunctionOnSet(f, Workers) \in Int
  BY <1>3, <1>4, SumType
<1>6. SumFunctionOnSet(g, Workers) = SumFunctionOnSet(f, Workers) + (g[w] - f[w])
  BY <1>3, <1>4, SumChange
<1> QED BY <1>2, <1>4, <1>5, <1>6 DEF f, g

LEMMA CountedType ==
    ASSUME TInv
    PROVE  Counted \in Int
<1> DEFINE f == [v \in Workers |-> Total(failures[v])]
<1>1. ASSUME NEW v \in Workers PROVE f[v] \in Int
  <2>1. failures[v] \in [Reasons -> Nat]
    BY DEF TInv, TypeOK
  <2>2. "retry_exhausted" \in Reasons /\ "unexpected" \in Reasons /\ "dispatch" \in Reasons
    BY DEF Reasons
  <2> QED BY <2>1, <2>2 DEF Total
<1>2. IsFiniteSet(Workers)
  BY PipelineAssumption
<1>3. forgotten \in Nat
  BY DEF TInv, TypeOK
<1> HIDE DEF f
<1>4. SumFunctionOnSet(f, Workers) \in Int
  BY <1>1, <1>2, SumType
<1> QED BY <1>3, <1>4 DEF Counted, f

(* A failure is counted, then written; a fault can come in between.        *)
LEMMA CountStep ==
    IInv /\ [Next]_vars =>
        \/ UNCHANGED <<Counted, Failed, Coming>> /\ faults' \in {faults, faults + 1}
        \/ /\ Counted' = Counted + 1 /\ UNCHANGED <<Failed, faults>>
           /\ \E w : w \notin Coming /\ Coming' = Coming \cup {w}
        \/ /\ UNCHANGED <<Counted, faults>>
           /\ \E w \in Coming : Coming' = Coming \ {w}
           /\ \E j : j \notin Failed /\ Failed' = Failed \cup {j}
        \/ /\ UNCHANGED <<Counted, Failed>> /\ faults' = faults + 1
           /\ \E w \in Coming : Coming' = Coming \ {w}
<1> DEFINE Same == UNCHANGED <<Counted, Failed, Coming>> /\ faults' \in {faults, faults + 1}
           More == /\ Counted' = Counted + 1 /\ UNCHANGED <<Failed, faults>>
                   /\ \E w : w \notin Coming /\ Coming' = Coming \cup {w}
           Write == /\ UNCHANGED <<Counted, faults>>
                    /\ \E w \in Coming : Coming' = Coming \ {w}
                    /\ \E j : j \notin Failed /\ Failed' = Failed \cup {j}
           Drop == /\ UNCHANGED <<Counted, Failed>> /\ faults' = faults + 1
                   /\ \E w \in Coming : Coming' = Coming \ {w}
<1> SUFFICES ASSUME IInv, [Next]_vars PROVE Same \/ More \/ Write \/ Drop
  OBVIOUS
<1>0. OInv /\ TInv
  BY DEF IInv, OInv
<1>h. \A w \in Workers : wpc[w] # "idle" =>
          wjob[w] \in JobRecord /\ wjob[w].job_id \in Jobs /\ WorkerPhase(w)
  BY <1>0, Held
<1>t. /\ rows = [j \in Jobs |-> rows[j]] /\ wpc = [w \in Workers |-> wpc[w]]
      /\ failures \in [Workers -> [Reasons -> Nat]] /\ forgotten \in Nat
  BY <1>0 DEF TInv, TypeOK
<1>c. UNCHANGED counters => Counted' = Counted
  BY DEF counters, Counted, Total
<1>f. ASSUME NEW j \in Jobs, rows[j].status # "failed", rows'[j].status # "failed",
             \A k \in Jobs : k # j => rows'[k] = rows[k]
      PROVE  Failed' = Failed
  BY <1>f DEF Failed
<1>g. rows' = rows => Failed' = Failed
  BY DEF Failed
<1>m. ASSUME NEW w \in Workers,
             \A v \in Workers : v # w => wpc'[v] = wpc[v],
             wpc[w] # "fail_update", wpc'[w] # "fail_update"
      PROVE  Coming' = Coming
  BY <1>m DEF Coming
<1>d. ASSUME NEW w \in Workers,
             \A v \in Workers : v # w => wpc'[v] = wpc[v],
             wpc[w] = "fail_update", wpc'[w] # "fail_update"
      PROVE  w \in Coming /\ Coming' = Coming \ {w}
  BY <1>d DEF Coming
<1>1. ASSUME NEW a \in Apis, NEW j \in Jobs, ApiCreate(a, j) PROVE Same
  <2>1. /\ rows[j] = NoJob /\ rows'[j] = NewJob(j) /\ \A k \in Jobs : k # j => rows'[k] = rows[k]
        /\ UNCHANGED <<wpc, counters, faults>>
    BY <1>1, <1>t DEF ApiCreate, workers
  <2>2. Failed' = Failed
    BY <1>f, <2>1 DEF NoJob, NewJob
  <2> QED BY <1>c, <2>1, <2>2 DEF Coming
<1>2. ASSUME UNCHANGED <<rows, wpc, counters>>, faults' \in {faults, faults + 1} PROVE Same
  BY <1>2, <1>c, <1>g DEF Coming
<1>3. ASSUME NEW w \in Workers, NEW job, wpc[w] \in {"mark", "requeue_update", "succeed_update"},
             job.job_id = wjob[w].job_id, job.status # "failed",
             Update(job), UNCHANGED <<counters, faults>>,
             \E pc : pc # "fail_update" /\ Goto(w, pc, job)
      PROVE  Same
  <2>0. PICK j \in Jobs : j = wjob[w].job_id
    BY <1>3, <1>h
  <2>1. /\ rows[j].status # "failed" /\ rows'[j] = job
        /\ \A k \in Jobs : k # j => rows'[k] = rows[k]
    BY <1>3, <1>h, <1>t, <2>0 DEF Update, WorkerPhase
  <2>2. Failed' = Failed
    BY <1>3, <1>f, <2>1
  <2>3. Coming' = Coming
    BY <1>0, <1>3, <1>m, Moves
  <2> QED BY <1>3, <1>c, <2>2, <2>3
<1>4. ASSUME NEW w \in Workers, MarkRunning(w) PROVE Same
  <2> DEFINE job == [wjob[w] EXCEPT !.status = "running"]
  <2>1. /\ wpc[w] = "mark" /\ Update(job) /\ Goto(w, "gate", job)
        /\ UNCHANGED <<counters, faults>>
    BY <1>4 DEF MarkRunning
  <2>2. job.job_id = wjob[w].job_id /\ job.status = "running"
    BY <1>h, <2>1 DEF JobRecord
  <2> HIDE DEF job
  <2> QED BY <1>3, <2>1, <2>2
<1>5. ASSUME NEW w \in Workers, RequeueUpdate(w) PROVE Same
  <2>1. /\ wpc[w] = "requeue_update" /\ Update(wjob[w]) /\ Goto(w, "requeue_put", wjob[w])
        /\ UNCHANGED <<counters, faults>>
    BY <1>5 DEF RequeueUpdate
  <2>2. wjob[w].status = "running"
    BY <1>h, <2>1 DEF WorkerPhase
  <2> QED BY <1>3, <2>1, <2>2
<1>6. ASSUME NEW w \in Workers, SucceedUpdate(w) PROVE Same
  <2> DEFINE job == [wjob[w] EXCEPT !.status = "succeeded",
                                    !.record_hash = RecordHash[req[wjob[w].job_id].commit],
                                    !.error = "none"]
  <2>1. /\ wpc[w] = "succeed_update" /\ Update(job) /\ Goto(w, "succeed_audit", job)
        /\ UNCHANGED <<counters, faults>>
    BY <1>6 DEF SucceedUpdate
  <2>2. job.job_id = wjob[w].job_id /\ job.status = "succeeded"
    BY <1>h, <2>1 DEF JobRecord
  <2> HIDE DEF job
  <2> QED BY <1>3, <2>1, <2>2
<1>7. ASSUME NEW w \in Workers, NEW reason \in {"retry_exhausted", "unexpected"},
             DispatchRaises(w, reason)
      PROVE  More
  <2>1. /\ wpc[w] = "dispatch" /\ \E job : Goto(w, "fail_update", job)
        /\ failures' = [failures EXCEPT ![w][reason] = failures[w][reason] + 1]
        /\ UNCHANGED <<rows, forgotten, faults>>
    BY <1>7 DEF DispatchRaises, store
  <2>2. Counted' = Counted + 1
    <3> DEFINE c == [failures[w] EXCEPT ![reason] = failures[w][reason] + 1]
    <3>1. reason \in Reasons /\ failures[w] \in [Reasons -> Nat]
      BY <1>t DEF Reasons
    <3>2. c \in [Reasons -> Nat]
      BY <3>1
    <3>3. failures' = [failures EXCEPT ![w] = c]
      BY <2>1
    <3>4. Total(failures'[w]) = Total(failures[w]) + 1
      <4>1. failures'[w] = c
        BY <1>t, <3>3
      <4>2. \A r \in Reasons : failures[w][r] \in Nat
        BY <3>1
      <4>3. "retry_exhausted" \in Reasons /\ "unexpected" \in Reasons /\ "dispatch" \in Reasons
        BY DEF Reasons
      <4> QED BY <3>1, <4>1, <4>2, <4>3 DEF Total
    <3> HIDE DEF c
    <3>5. /\ SumFunctionOnSet([v \in Workers |-> Total(failures[v])], Workers) \in Int
          /\ Total(failures[w]) \in Nat
          /\ SumFunctionOnSet([v \in Workers |-> Total(failures'[v])], Workers) =
                SumFunctionOnSet([v \in Workers |-> Total(failures[v])], Workers) + (Total(failures'[w]) - Total(failures[w]))
      BY <1>0, <3>2, <3>3, OneCounter
    <3> QED BY <1>t, <2>1, <3>4, <3>5 DEF Counted
  <2>3. w \notin Coming /\ Coming' = Coming \cup {w}
    <3>1. wpc'[w] = "fail_update" /\ \A v \in Workers : v # w => wpc'[v] = wpc[v]
      BY <1>0, <2>1, Moves
    <3> QED BY <2>1, <3>1 DEF Coming
  <2> QED BY <1>g, <2>1, <2>2, <2>3
<1>8. ASSUME NEW w \in Workers, FailUpdate(w) PROVE Write
  <2>0. PICK j \in Jobs : j = wjob[w].job_id
    BY <1>8, <1>h DEF FailUpdate
  <2>1. /\ wpc[w] = "fail_update" /\ Update(wjob[w]) /\ UNCHANGED <<counters, faults>>
        /\ Done(w) \/ Goto(w, "fail_audit", wjob[w])
    BY <1>8 DEF FailUpdate
  <2>2. /\ rows[j].status = "running" /\ rows'[j].status = "failed"
        /\ \A k \in Jobs : k # j => rows'[k] = rows[k]
    BY <1>h, <1>t, <2>0, <2>1 DEF Update, WorkerPhase
  <2>3. j \notin Failed /\ Failed' = Failed \cup {j}
    BY <2>2 DEF Failed
  <2>4. w \in Coming /\ Coming' = Coming \ {w}
    BY <1>0, <1>d, <2>1, Moves
  <2> QED BY <1>c, <2>1, <2>3, <2>4
<1>9. ASSUME NEW w \in Workers, StorageFault(w) \/ Crash(w) PROVE Same \/ Drop
  <2>1. Done(w) /\ faults' = faults + 1 /\ rows' = rows
    BY <1>9 DEF StorageFault, Crash, store
  <2>0. Counted' = Counted
    <3>1. CASE StorageFault(w)
      BY <1>c, <3>1 DEF StorageFault
    <3>2. CASE Crash(w)
      <4>1. failures' = [failures EXCEPT ![w] = NewCounter] /\ forgotten' = forgotten + Total(failures[w])
        BY <3>2 DEF Crash
      <4>2. NewCounter \in [Reasons -> Nat]
        BY DEF NewCounter
      <4>3. Total(failures'[w]) = 0
        <5>1. failures'[w] = NewCounter
          BY <1>t, <4>1
        <5> QED BY <5>1 DEF Total, NewCounter, Reasons
      <4>4. /\ SumFunctionOnSet([v \in Workers |-> Total(failures[v])], Workers) \in Int
            /\ Total(failures[w]) \in Nat
            /\ SumFunctionOnSet([v \in Workers |-> Total(failures'[v])], Workers) =
                  SumFunctionOnSet([v \in Workers |-> Total(failures[v])], Workers) + (Total(failures'[w]) - Total(failures[w]))
        BY <1>0, <4>1, <4>2, OneCounter
      <4> QED BY <1>t, <4>1, <4>3, <4>4 DEF Counted
    <3> QED BY <1>9, <3>1, <3>2
  <2>2. wpc'[w] = "idle" /\ \A v \in Workers : v # w => wpc'[v] = wpc[v]
    BY <1>0, <2>1, Moves
  <2>3. CASE wpc[w] = "fail_update"
    BY <1>d, <1>g, <2>0, <2>1, <2>2, <2>3
  <2>4. CASE wpc[w] # "fail_update"
    BY <1>g, <1>m, <2>0, <2>1, <2>2, <2>4
  <2> QED BY <2>3, <2>4
<1>10. ASSUME NEW w \in Workers, wpc[w] # "fail_update", UNCHANGED <<rows, counters, faults>>,
              Done(w) \/ \E pc, job : pc # "fail_update" /\ Goto(w, pc, job)
       PROVE  Same
  <2>1. Coming' = Coming
    BY <1>0, <1>10, <1>m, Moves
  <2> QED BY <1>10, <1>c, <1>g, <2>1
<1>11. ASSUME NEW w \in Workers, FailAudit(w) \/ SucceedAudit(w) \/ RequeuePut(w) PROVE Same
  BY <1>10, <1>11 DEF FailAudit, SucceedAudit, RequeuePut, store
<1>12. ASSUME NEW w \in Workers,
              Get(w) \/ GateAdmit(w) \/ GateReject(w) \/ DispatchOk(w) \/ Upsert(w)
       PROVE  Same
  <2>1. /\ wpc[w] # "fail_update" /\ UNCHANGED <<rows, counters, faults>>
        /\ \E job : \/ Goto(w, "mark", job) \/ Goto(w, "dispatch", job)
                    \/ Goto(w, "requeue_update", job) \/ Goto(w, "upsert", job)
                    \/ Goto(w, "succeed_update", job)
    BY <1>12 DEF Get, GateAdmit, GateReject, DispatchOk, Upsert, store
  <2> QED BY <1>10, <2>1
<1>13. ASSUME NEW a \in Apis, ApiAudit(a) \/ ApiDispatch(a) \/ ApiFault(a) PROVE Same
  BY <1>2, <1>13 DEF ApiAudit, ApiDispatch, ApiFault, store, workers
<1>14. CASE Tick \/ UNCHANGED vars \/ \E w \in Workers : DispatchRetry(w)
  BY <1>2, <1>14 DEF Tick, vars, DispatchRetry, store, workers
<1> QED
  BY <1>1, <1>4, <1>5, <1>6, <1>7, <1>8, <1>9, <1>11, <1>12, <1>13, <1>14
  DEF Next, ApiStep, WorkerStep, DispatchStep, DispatchExhausted, DispatchUnexpected

(* cce_job_failures_total counts every failed job once: added up over the  *)
(* consumers, and over those that were restarted, it runs ahead of the     *)
(* jobs table by the updates still to come and at most one per fault.      *)
THEOREM CounterTracksRowsHolds == Spec => []CounterTracksRows
<1> DEFINE CountInv == /\ IsFiniteSet(Failed) /\ IsFiniteSet(Coming)
                       /\ Cardinality(Failed) + Cardinality(Coming) <= Counted
                       /\ Counted <= Cardinality(Failed) + Cardinality(Coming) + faults
<1>1. Init => CountInv
  <2> SUFFICES ASSUME Init PROVE CountInv
    OBVIOUS
  <2>1. Failed = {} /\ Coming = {}
    BY DEF Init, Failed, Coming, NoJob
  <2>2. Counted = 0 /\ faults = 0
    <3> DEFINE f == [w \in Workers |-> Total(failures[w])]
    <3>1. ASSUME NEW w \in Workers PROVE Total(failures[w]) = 0
      BY DEF Init, Total, NewCounter, Reasons
    <3>2. \A w \in Workers : f[w] = 0
      BY <3>1
    <3>3. IsFiniteSet(Workers)
      BY PipelineAssumption
    <3> HIDE DEF f
    <3>4. SumFunctionOnSet(f, Workers) = 0 * SumFunctionOnSet(f, Workers)
      BY <3>2, <3>3, SumScale
    <3>5. SumFunctionOnSet(f, Workers) \in Int
      BY <3>2, <3>3, SumType
    <3>6. SumFunctionOnSet(f, Workers) = 0
      BY <3>4, <3>5
    <3> QED BY <3>6 DEF Init, Counted, f
  <2> QED BY <2>1, <2>2, FS_EmptySet
<1>2. IInv /\ CountInv /\ [Next]_vars => CountInv'
  <2> SUFFICES ASSUME IInv, CountInv, [Next]_vars PROVE CountInv'
    OBVIOUS
  <2>1. /\ faults \in Nat /\ Counted \in Int
        /\ Cardinality(Failed) \in Nat /\ Cardinality(Coming) \in Nat
    <3>1. faults \in Nat
      BY PipelineAssumption DEF IInv, OInv, TInv, TypeOK
    <3> QED BY <3>1, CountedType, FS_CardinalityType DEF IInv, OInv
  <2>2. CASE UNCHANGED <<Counted, Failed, Coming>> /\ faults' \in {faults, faults + 1}
    BY <2>1, <2>2
  <2>3. ASSUME Counted' = Counted + 1, UNCHANGED <<Failed, faults>>,
               NEW w, w \notin Coming, Coming' = Coming \cup {w}
        PROVE  CountInv'
    <3>1. IsFiniteSet(Coming') /\ Cardinality(Coming') = Cardinality(Coming) + 1
      BY <2>3, FS_AddElement
    <3> QED BY <2>1, <2>3, <3>1
  <2>4. ASSUME NEW w \in Coming, Coming' = Coming \ {w}
        PROVE  IsFiniteSet(Coming') /\ Cardinality(Coming') = Cardinality(Coming) - 1
    BY <2>4, FS_RemoveElement
  <2>5. ASSUME UNCHANGED <<Counted, faults>>, NEW w \in Coming, Coming' = Coming \ {w},
               NEW j, j \notin Failed, Failed' = Failed \cup {j}
        PROVE  CountInv'
    <3>1. IsFiniteSet(Failed') /\ Cardinality(Failed') = Cardinality(Failed) + 1
      BY <2>5, FS_AddElement
    <3>2. IsFiniteSet(Coming') /\ Cardinality(Coming') = Cardinality(Coming) - 1
      BY <2>4, <2>5
    <3> QED BY <2>1, <2>5, <3>1, <3>2
  <2>6. ASSUME UNCHANGED <<Counted, Failed>>, faults' = faults + 1,
               NEW w \in Coming, Coming' = Coming \ {w}
        PROVE  CountInv'
    <3>1. IsFiniteSet(Coming') /\ Cardinality(Coming') = Cardinality(Coming) - 1
      BY <2>4, <2>6
    <3> QED BY <2>1, <2>6, <3>1
  <2> QED BY <2>2, <2>3, <2>5, <2>6, CountStep
<1>3. CountInv => CounterTracksRows
  BY DEF CounterTracksRows, Counted, Failed, Coming
<1> QED BY <1>1, <1>2, <1>3, IInvHolds, PTL DEF Spec

=============================================================================
