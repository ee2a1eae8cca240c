----------------------------- MODULE BodyLimit -----------------------------
(***************************************************************************)
(* _BodySizeLimitMiddleware between the ASGI server and the application,   *)
(* for one request.  What goes down to the server is the sequence of       *)
(* messages handed to send().                                              *)
(*                                                                         *)
(* The application is FastAPI with the routes of build_app: POST           *)
(* /v1/scores reads the whole body and then runs create_score, the other   *)
(* routes read nothing; an answer is one response.start and one final      *)
(* response.body, and nothing is received once it has started.             *)
(***************************************************************************)
EXTENDS Integers, Sequences

CONSTANTS MaxBytes,   \* max_bytes
          Lengths,    \* integers a Content-Length header may hold
          ChunkSizes, \* lengths of an http.request message's body
          MaxChunks,  \* bound: messages in one request body
          AppStatuses \* statuses the application answers with

ASSUME BodyAssumption ==
    /\ MaxBytes \in Nat
    /\ Lengths \subseteq Int
    /\ ChunkSizes \subseteq Nat
    /\ MaxChunks \in Nat
    /\ 200 \in AppStatuses
    /\ AppStatuses \subseteq Nat \ {413}   \* only the middleware answers 413

VARIABLES declared,          \* the Content-Length header
          stage,             \* what happens next
          chunks, received,  \* messages and bytes taken from receive()
          too_large, response_started,
          created,           \* create_score stored a job
          answer,            \* the application's own status; 500 for an exception
          sent               \* messages handed to the server

limitVars == <<declared, stage, chunks, received, too_large, response_started, created, answer, sent>>

(* No Content-Length, one that int() does not take, or a number. *)
Headers == [kind : {"absent", "invalid"}, length : {0}] \cup [kind : {"int"}, length : Lengths]

(* The two messages of a response, and the middleware's own. *)
StartMsg(status) == [type |-> "http.response.start", status |-> status]
BodyMsg(status) == [type |-> "http.response.body", status |-> status]
SendJson(status) == <<StartMsg(status), BodyMsg(status)>>

LimitInit ==
    /\ declared \in Headers
    /\ stage = "header"
    /\ chunks = 0 /\ received = 0
    /\ too_large = FALSE /\ response_started = FALSE /\ created = FALSE
    /\ answer = 0
    /\ sent = << >>

-----------------------------------------------------------------------------
HeaderInvalid ==
    /\ stage = "header" /\ declared.kind = "invalid"
    /\ sent' = SendJson(400)
    /\ stage' = "done"
    /\ UNCHANGED <<declared, chunks, received, too_large, response_started, created, answer>>

HeaderTooLarge ==
    /\ stage = "header" /\ declared.kind = "int" /\ declared.length > MaxBytes
    /\ sent' = SendJson(413)
    /\ stage' = "done"
    /\ UNCHANGED <<declared, chunks, received, too_large, response_started, created, answer>>

HeaderOk ==
    /\ stage = "header"
    /\ declared.kind = "absent" \/ (declared.kind = "int" /\ declared.length <= MaxBytes)
    /\ stage' = "route"
    /\ UNCHANGED <<declared, chunks, received, too_large, response_started, created, answer, sent>>

(* The application: create_score wants the body, the other routes do not. *)
Route ==
    /\ stage = "route"
    /\ \/ stage' = "read" /\ UNCHANGED answer
       \/ stage' = "start" /\ answer' \in AppStatuses
    /\ UNCHANGED <<declared, chunks, received, too_large, response_started, created, sent>>

\* Seeded bug: only the length of the last message is looked at.
LimitedReceiveLast(n, more) ==
    /\ stage = "read" /\ chunks < MaxChunks
    /\ chunks' = chunks + 1
    /\ received' = received + n
    /\ too_large' = (n > MaxBytes)
    /\ stage' = IF more THEN "read" ELSE "handle"
    /\ UNCHANGED <<declared, response_started, created, answer, sent>>

(* limited_receive: counts, and passes the message on all the same. *)
LimitedReceive(n, more) ==
    /\ stage = "read" /\ chunks < MaxChunks
    /\ chunks' = chunks + 1
    /\ received' = received + n
    /\ too_large' = (too_large \/ received' > MaxBytes)
    /\ stage' = IF more THEN "read" ELSE "handle"
    /\ UNCHANGED <<declared, response_started, created, answer, sent>>

(* create_score with the parsed body: 200 and a job, or an error. *)
Handle ==
    /\ stage = "handle"
    /\ answer' \in AppStatuses
    /\ created' = (answer' = 200)
    /\ stage' = "start"
    /\ UNCHANGED <<declared, chunks, received, too_large, response_started, sent>>

(* guarded_send of the start: swapped for a whole 413 answer when over the *)
(* limit.                                                                  *)
GuardedStart ==
    /\ stage = "start"
    /\ response_started' = TRUE
    /\ sent' = sent \o IF too_large THEN SendJson(413) ELSE <<StartMsg(answer)>>
    /\ stage' = "body"
    /\ UNCHANGED <<declared, chunks, received, too_large, created, answer>>

\* Seeded bug: the body is not dropped.
GuardedBodyAlways ==
    /\ stage = "body"
    /\ sent' = sent \o <<BodyMsg(answer)>>
    /\ stage' = "returned"
    /\ UNCHANGED <<declared, chunks, received, too_large, response_started, created, answer>>

(* guarded_send of the body: dropped when over the limit. *)
GuardedBody ==
    /\ stage = "body"
    /\ sent' = sent \o IF too_large THEN << >> ELSE <<BodyMsg(answer)>>
    /\ stage' = "returned"
    /\ UNCHANGED <<declared, chunks, received, too_large, response_started, created, answer>>

(* The application raises before it answers (the client goes away, the     *)
(* body is no JSON, storage fails).  Over the limit the exception is       *)
(* swallowed and 413 sent unless a response was started; otherwise it is   *)
(* raised again and the framework answers 500.                             *)
AppRaises ==
    /\ stage \in {"read", "handle"}
    /\ answer' = 500
    /\ sent' = sent \o (IF ~too_large THEN SendJson(500)
                        ELSE IF ~response_started THEN SendJson(413) ELSE << >>)
    /\ stage' = "done"
    /\ UNCHANGED <<declared, chunks, received, too_large, response_started, created>>

(* The application has returned. *)
Returned ==
    /\ stage = "returned"
    /\ sent' = sent \o IF too_large /\ ~response_started THEN SendJson(413) ELSE << >>
    /\ stage' = "done"
    /\ UNCHANGED <<declared, chunks, received, too_large, response_started, created, answer>>

LimitNext ==
    \/ HeaderInvalid \/ HeaderTooLarge \/ HeaderOk
    \/ Route \/ Handle \/ AppRaises
    \/ \E n \in ChunkSizes, more \in BOOLEAN : LimitedReceive(n, more)
    \/ GuardedStart \/ GuardedBody \/ Returned

LimitSpec == LimitInit /\ [][LimitNext]_limitVars

-----------------------------------------------------------------------------
OverLimit == received > MaxBytes \/ (declared.kind = "int" /\ declared.length > MaxBytes)

(* Whatever the middleware swaps, drops or swallows, the server sees one   *)
(* response: nothing but one start and one body of the same status, and    *)
(* both of them when the request is over.                                  *)
OneResponse ==
    /\ \E status \in AppStatuses \cup {400, 413, 500} :
           \/ sent = << >> \/ sent = <<StartMsg(status)>> \/ sent = SendJson(status)
    /\ stage = "done" => Len(sent) = 2

(* A body over the limit is answered with 413, whether its length was      *)
(* declared, declared too small or not declared, and however it was cut    *)
(* into messages; a body at the limit is not, and its answer is the one    *)
(* the application gave.                                                   *)
LimitDecides ==
    stage = "done" /\ declared.kind # "invalid" =>
        /\ (sent[1].status = 413) = OverLimit
        /\ ~OverLimit => sent = SendJson(answer)

-----------------------------------------------------------------------------
(* "Rejects oversized bodies", "short-circuit before the app sees the      *)
(* request": a request that is answered with 413 had no effect.            *)
RejectedHasNoEffect ==
    stage = "done" /\ sent[1].status = 413 => ~created

=============================================================================
