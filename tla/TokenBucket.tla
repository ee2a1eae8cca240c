---------------------------- MODULE TokenBucket ----------------------------
(***************************************************************************)
(* What RateLimiter promises: every key has a bucket that fills all the    *)
(* time, independently of who looks at it, and a request is admitted       *)
(* exactly when the bucket holds a whole token.                            *)
(***************************************************************************)
EXTENDS Naturals

CONSTANTS Keys,      \* (tenant, bucket name) pairs
          Unit,      \* one token, in the smallest amount the clock adds
          Capacity,  \* burst size of each key, in these amounts
          Refill     \* what each key's bucket gains per tick

VARIABLES level,   \* how full each bucket is
          answer   \* the last allow() call: its key and what it returned

Min2(x, y) == IF x <= y THEN x ELSE y

Init == /\ level = Capacity
        /\ answer = << >>

Admit(k) == /\ level[k] >= Unit
            /\ level' = [level EXCEPT ![k] = level[k] - Unit]
            /\ answer' = <<k, TRUE>>

Deny(k) == /\ level[k] < Unit
           /\ answer' = <<k, FALSE>>
           /\ UNCHANGED level

Fill == /\ level' = [k \in Keys |-> Min2(Capacity[k], level[k] + Refill[k])]
        /\ UNCHANGED answer

Next == (\E k \in Keys : Admit(k) \/ Deny(k)) \/ Fill

Spec == Init /\ [][Next]_<<level, answer>>

=============================================================================
