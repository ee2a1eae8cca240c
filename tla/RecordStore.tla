---------------------------- MODULE RecordStore ----------------------------
(***************************************************************************)
(* ClickHouseRecordRepo: upsert with its retries, get, and the table       *)
(* behind them.  The table is a ReplacingMergeTree(created_at) ordered by  *)
(* record_hash: an insert adds a row, a background merge drops the older   *)
(* of two rows of one hash, and FINAL reads what merging everything would  *)
(* leave.  created_at is taken from the clock of the worker's host when    *)
(* the ScoreRecord is built, once for all attempts.                        *)
(***************************************************************************)
EXTENDS Naturals, Sequences, SequencesExt

CONSTANTS Workers,      \* workers that store records
          Hashes,       \* record hashes
          MaxAttempts   \* attempts of the decorated upsert

ASSUME StoreAssumption == MaxAttempts \in Nat \ {0}

VARIABLES rows,      \* rows of each hash in the order of their insertion
          upsert,    \* each worker's call of upsert; attempt 0: none under way
          attempted, \* observer: rows that some insert was called for
          acked      \* observer: rows whose upsert returned

storeVars == <<rows, upsert, attempted, acked>>

Idle == [attempt |-> 0]

StoreInit ==
    /\ rows = [h \in Hashes |-> << >>]
    /\ upsert = [w \in Workers |-> Idle]
    /\ attempted = {}
    /\ acked = {}

-----------------------------------------------------------------------------
\* Seeded bug: a table without a version column, the last insert wins.
NewerLast(older, newer) == newer

(* Which of two rows of one hash a merge keeps; of equal versions the one  *)
(* that was inserted last.                                                 *)
Newer(older, newer) == IF newer.created_at >= older.created_at THEN newer ELSE older

(* SELECT ... FINAL ... LIMIT 1: at most one row, the one that would be    *)
(* left if everything were merged.                                         *)
Final(h) ==
    LET r == rows[h]
    IN  IF r = << >> THEN << >>
        ELSE <<r[CHOOSE i \in DOMAIN r : \A j \in DOMAIN r :
                     \/ r[j].created_at < r[i].created_at
                     \/ r[j].created_at = r[i].created_at /\ j <= i]>>

(* The call of upsert, with the record as it will be inserted. *)
Upsert(w, h, tenant, created_at) ==
    /\ upsert[w] = Idle
    /\ upsert' = [upsert EXCEPT ![w] = [attempt |-> 1, hash |-> h,
                                        row |-> [tenant |-> tenant, created_at |-> created_at]]]
    /\ attempted' = attempted \cup {[hash |-> h, tenant |-> tenant, created_at |-> created_at]}
    /\ UNCHANGED <<rows, acked>>

Acked(u) == [hash |-> u.hash, tenant |-> u.row.tenant, created_at |-> u.row.created_at]

Inserted(u) == rows' = [rows EXCEPT ![u.hash] = Append(@, u.row)]

(* insert succeeds and upsert returns. *)
InsertOk(w) ==
    LET u == upsert[w]
    IN  /\ u # Idle
        /\ Inserted(u)
        /\ acked' = acked \cup {Acked(u)}
        /\ upsert' = [upsert EXCEPT ![w] = Idle]
        /\ UNCHANGED attempted

\* Seeded bug: the wrapper returns instead of raising after the last attempt.
InsertRaisesSwallowed(w) ==
    LET u == upsert[w]
    IN  /\ u # Idle
        /\ Inserted(u) \/ UNCHANGED rows
        /\ upsert' = [upsert EXCEPT ![w] = IF u.attempt < MaxAttempts
                                           THEN [u EXCEPT !.attempt = @ + 1] ELSE Idle]
        /\ acked' = IF u.attempt < MaxAttempts THEN acked ELSE acked \cup {Acked(u)}
        /\ UNCHANGED attempted

(* insert raises, and the row may be there all the same (the answer was    *)
(* lost): the same row is inserted again, or after the last attempt        *)
(* RetryExhaustedError is raised.                                          *)
InsertRaises(w) ==
    LET u == upsert[w]
    IN  /\ u # Idle
        /\ Inserted(u) \/ UNCHANGED rows
        /\ upsert' = [upsert EXCEPT ![w] = IF u.attempt < MaxAttempts
                                           THEN [u EXCEPT !.attempt = @ + 1] ELSE Idle]
        /\ UNCHANGED <<attempted, acked>>

(* A background merge of two neighbouring parts. *)
Merge(h, i) ==
    /\ i + 1 <= Len(rows[h])
    /\ rows' = [rows EXCEPT ![h] = ReplaceAt(RemoveAt(@, i + 1), i, Newer(@[i], @[i + 1]))]
    /\ UNCHANGED <<upsert, attempted, acked>>

-----------------------------------------------------------------------------
(* What is read for a hash never becomes older and never disappears, by    *)
(* inserts that arrive late, by retries, by workers whose clocks differ,   *)
(* or by merges.                                                           *)
RecordNeverOlder ==
    [][\A h \in Hashes : Final(h) # << >> =>
          Final(h)' # << >> /\ Final(h)'[1].created_at >= Final(h)[1].created_at]_rows

(* After an upsert that returned, a reader finds that record, or one of    *)
(* the same hash that is not older; and the tenant can read it unless      *)
(* another tenant's record of the same hash, not older, was stored too.    *)
AckedUpsertVisible ==
    \A a \in acked :
        /\ Final(a.hash) # << >>
        /\ Final(a.hash)[1].created_at >= a.created_at
        /\ \/ Final(a.hash)[1].tenant = a.tenant
           \/ \E b \in attempted : /\ b.hash = a.hash /\ b.tenant # a.tenant
                                   /\ b.created_at >= a.created_at

-----------------------------------------------------------------------------
(* Not an invariant: "reads are consistent immediately after upsert"       *)
(* (clickhouse.py:98).  A row of another tenant, stored earlier by a       *)
(* worker whose clock is ahead, hides the one that was just acknowledged.  *)
ReadYourUpsert == \A a \in acked : Final(a.hash) = <<[tenant |-> a.tenant, created_at |-> a.created_at]>>

=============================================================================
