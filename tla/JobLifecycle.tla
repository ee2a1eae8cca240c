---------------------------- MODULE JobLifecycle ----------------------------
(***************************************************************************)
(* What the service promises about a scoring job, as a client with access  *)
(* to GET /v1/scores, GET /v1/records and GET /v1/audit can see it.        *)
(* Queues, retries, breakers, requeued copies, crashes and storage errors  *)
(* do not appear: they may only delay these steps, never reorder, repeat   *)
(* or undo one.                                                            *)
(***************************************************************************)
EXTENDS Sequences

CONSTANTS Jobs,     \* job ids
          Hashes,   \* record hashes
          NoHash    \* record_hash = None

VARIABLES status,  \* what GET /v1/scores/{job_id} says
          hash,    \* record_hash it shows
          stored,  \* hashes under which the record store has a record
          log      \* actions of the job's audit events

vars == <<status, hash, stored, log>>

Init == /\ status = [j \in Jobs |-> "absent"]
        /\ hash = [j \in Jobs |-> NoHash]
        /\ stored = {}
        /\ log = [j \in Jobs |-> << >>]

Become(j, from, to) == /\ status[j] = from
                       /\ status' = [status EXCEPT ![j] = to]

Create(j) == Become(j, "absent", "queued") /\ UNCHANGED <<hash, stored, log>>
Begin(j) == Become(j, "queued", "running") /\ UNCHANGED <<hash, stored, log>>
Fail(j) == Become(j, "running", "failed") /\ UNCHANGED <<hash, stored, log>>

(* The record can be looked up before the job says where to find it. *)
Succeed(j, h) == /\ h \in stored
                 /\ Become(j, "running", "succeeded")
                 /\ hash' = [hash EXCEPT ![j] = h]
                 /\ UNCHANGED <<stored, log>>

Store(h) == /\ stored' = stored \cup {h}
            /\ UNCHANGED <<status, hash, log>>

(* The events of a job are its creation and then its outcome, each logged  *)
(* at most once and after the fact.                                        *)
LogCreation(j) == /\ status[j] # "absent" /\ log[j] = << >>
                  /\ log' = [log EXCEPT ![j] = <<"score.create">>]
                  /\ UNCHANGED <<status, hash, stored>>

LogOutcome(j) == /\ log[j] = <<"score.create">>
                 /\ \/ /\ status[j] = "succeeded"
                       /\ log' = [log EXCEPT ![j] = Append(log[j], "score.succeeded")]
                    \/ /\ status[j] = "failed"
                       /\ log' = [log EXCEPT ![j] = Append(log[j], "score.failed")]
                 /\ UNCHANGED <<status, hash, stored>>

Next == \/ \E j \in Jobs : \/ Create(j) \/ Begin(j) \/ Fail(j)
                           \/ LogCreation(j) \/ LogOutcome(j)
                           \/ \E h \in Hashes : Succeed(j, h)
        \/ \E h \in Hashes : Store(h)

Spec == Init /\ [][Next]_vars

=============================================================================
