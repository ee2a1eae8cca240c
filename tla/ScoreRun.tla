------------------------------ MODULE ScoreRun ------------------------------
(***************************************************************************)
(* One `cce score`: load_spec, clone, parse, measure, score, write, with   *)
(* every way a stage can end.  The checkout that a local run reads belongs *)
(* to somebody else, who may edit files and check out other commits while  *)
(* the run is reading it; a remote run reads a clone of its own.           *)
(*                                                                         *)
(* A source file is abstracted to the value of its one metric, so a tree   *)
(* is a function from files to numbers and the metrics of a repository are *)
(* the largest of them.  For one spec, record_hash is determined by        *)
(* commit_sha and the metrics.                                             *)
(*                                                                         *)
(* The run uses the analyzer registry of its process, which the entrypoint *)
(* of the production image has extended, and its telemetry.                *)
(***************************************************************************)
EXTENDS Naturals, Sequences, FiniteSetsExt, Registry, Telemetry

CONSTANTS Commits,   \* commits of the repository
          Sources,   \* language of each source file, in the order they are read
          Tree,      \* the tree of each commit
          Values,    \* values of the metric
          None,      \* no --commit, no record
          Environments, \* images the run may be in: production or not, packages, endpoints
          MaxEdits   \* bound: changes somebody else makes to the checkout

ASSUME RunAssumption ==
    /\ Len(Sources) \in Nat \ {0}
    /\ \A i \in 1..Len(Sources) : Sources[i] \in {"python", "typescript"}
    /\ Environments \subseteq [production : BOOLEAN, sdk : {"absent", "broken", "ok"},
                               traces_endpoint : BOOLEAN, generic_endpoint : BOOLEAN,
                               prometheus : BOOLEAN]
    /\ Values \subseteq Nat
    /\ Tree \in [Commits -> [1..Len(Sources) -> Values]]
    /\ None \notin Commits
    /\ MaxEdits \in Nat

VARIABLES args,       \* --repo (remote or not, in a skipped place or not), --mode,
                      \* --commit, full SHA or not, --verify-digests
          env,        \* the image
          on_disk,    \* digests of the binaries in it
          registry,   \* _REGISTRY
          telemetry,  \* the state of cce.otel
          head, tree, \* the checkout: HEAD and the files on disk
          edits,      \* changes made to it so far
          clean,      \* observer: the tree was HEAD's, and stayed so, since the
                      \* commit was resolved
          pc,         \* the stage the run is in
          clone,      \* the temporary clone exists
          commit_sha, \* what prepared_repo yields
          read,       \* files read so far: text and the backend bound to it
          metrics,    \* raw_metrics
          record,     \* commit and metrics in the score record
          timings,    \* names in the timings list
          spans,      \* spans that ended and go to the exporter
          failures,   \* cce_job_failures_total increments
          records,    \* cce_records_total increments
          exit        \* exit code, "traceback", "assertion" or "killed"

image == <<args, env, on_disk>>
process == <<registry, telemetry>>
checkout == <<head, tree, edits, clean>>
results == <<commit_sha, read, metrics, record>>
trace == <<timings, spans>>
counters == <<failures, records>>
vars == <<image, process, checkout, pc, clone, results, trace, counters, exit>>

ExitCodes == {"EXIT_SPEC", "EXIT_DIGEST", "EXIT_GIT", "EXIT_ANALYZER", "EXIT_SCORING", "EXIT_WRITE"}

(* The order that _score asserts before it prints the timings. *)
StageOrder == <<"load_spec", "clone", "parse", "measure", "score", "total">>

(* tool_digests of the spec, which load_spec has found complete. *)
tool_digests == [b \in {"lizard", "scc"} |-> "pinned"]

Files == 1..Len(Sources)

(* `skipped`: a directory above the local checkout has one of the names in *)
(* _SKIP_DIRS.                                                             *)
Arguments == [remote : BOOLEAN, skipped : BOOLEAN, mode : {"repo", "commit"},
              commit : Commits \cup {None}, full : BOOLEAN, verify_digests : BOOLEAN]

(* Production binaries are the pinned ones or others; elsewhere there are none. *)
Binaries(e) == IF e.production THEN [{"lizard", "scc"} -> {"pinned", "other"}] ELSE {<< >>}

TypeOK ==
    /\ args \in Arguments
    /\ env \in Environments
    /\ on_disk \in Binaries(env)
    /\ registry = << >> \/ DOMAIN registry[1].defaults = {"python", "typescript"}
    /\ telemetry.initialised \in BOOLEAN
    /\ head \in Commits
    /\ tree \in [Files -> Values]
    /\ edits \in 0..MaxEdits
    /\ clean \in BOOLEAN
    /\ pc \in {"entrypoint", "init_otel", "load_spec", "isolation", "git", "checkout", "digests", "parse", "measure",
               "score", "write", "total", "ended"}
    /\ clone \in BOOLEAN
    /\ commit_sha \in Commits \cup {None}
    /\ Len(read) <= Len(Sources) /\ \A i \in 1..Len(read) : read[i].text \in Values
    /\ metrics \in Values \cup {None}
    /\ record \in [commit_sha : Commits, metrics : Values] \cup {None}
    /\ \A i \in 1..Len(timings) : timings[i] \in {StageOrder[k] : k \in 1..Len(StageOrder)}
    /\ Len(timings) <= Len(StageOrder)
    /\ Len(spans) <= Len(ALLOWED_SPAN_NAMES)
    /\ failures \in 0..1
    /\ records \in 0..1
    /\ exit \in ExitCodes \cup {"none", "ok", "traceback", "assertion", "killed"}

Init ==
    /\ args \in Arguments
    /\ env \in Environments
    /\ on_disk \in Binaries(env)
    /\ registry = << >>
    /\ telemetry = NotInitialised
    /\ head \in Commits
    /\ tree = Tree[head]
    /\ edits = 0
    /\ clean = TRUE
    /\ pc = IF env.production THEN "entrypoint" ELSE "init_otel"
    /\ clone = FALSE
    /\ commit_sha = None
    /\ read = << >>
    /\ metrics = None
    /\ record = None
    /\ timings = << >>
    /\ spans = << >>
    /\ failures = 0
    /\ records = 0
    /\ exit = "none"

-----------------------------------------------------------------------------
Timed(name) == timings' = Append(timings, name)

(* stage_span: ended, and handed to the exporter, however its block ends. *)
Span(name) == spans' = IF Recording(telemetry, env) THEN Append(spans, name) ELSE spans

StageEnds(name) == Timed(name) /\ Span(name)

\* Seeded bug: an error inside the repository context skips its clean-up.
EndKeepsClone(code, counted) ==
    /\ pc' = "ended"
    /\ exit' = code
    /\ failures' = IF counted THEN Inc(failures, env) ELSE failures
    /\ UNCHANGED <<clone, image, process, checkout, results, records>>

(* The run ends without a record: the ExitStack is left, which removes the *)
(* clone; a handler that counts the failure has its exit code, any other   *)
(* exception is a traceback.                                               *)
End(code, counted) ==
    /\ pc' = "ended"
    /\ exit' = code
    /\ failures' = IF counted THEN Inc(failures, env) ELSE failures
    /\ clone' = FALSE
    /\ UNCHANGED <<image, process, checkout, results, records>>

(* A stage is finished. *)
Goto(stage) ==
    /\ pc' = stage
    /\ UNCHANGED <<image, checkout, counters, exit>>

-----------------------------------------------------------------------------
(* The production image binds its backends before the command line runs;   *)
Entrypoint ==
    /\ pc = "entrypoint"
    /\ registry' = <<RegisterProductionBackends(GetRegistry(registry)[1])>>
    /\ Goto("init_otel")
    /\ UNCHANGED <<telemetry, clone, results, trace>>

\* a jailer configuration with an unresolved placeholder stops it there.
EntrypointFails ==
    /\ pc = "entrypoint"
    /\ End("traceback", FALSE)
    /\ UNCHANGED trace

InitTelemetry ==
    /\ pc = "init_otel"
    /\ telemetry' = InitOtel(telemetry, env)
    /\ Goto("load_spec")
    /\ UNCHANGED <<registry, clone, results, trace>>

LoadSpec ==
    /\ pc = "load_spec"
    /\ StageEnds("load_spec")
    /\ Goto("isolation")
    /\ UNCHANGED <<process, clone, results>>

(* SpecValidationError, which malformed digests raise here already; an     *)
(* unreadable file or a malformed decimal is nobody's exception.           *)
LoadSpecFails ==
    /\ pc = "load_spec"
    /\ StageEnds("load_spec")
    /\ End("EXIT_SPEC", TRUE) \/ End("traceback", FALSE)

(* validate_digest_shapes repeats the check that load_spec has made; then  *)
(* the network is probed if the operator asks for it.                      *)
Isolation ==
    /\ pc = "isolation"
    /\ Goto("git")
    /\ UNCHANGED <<process, clone, results, trace>>

IsolationFails ==
    /\ pc = "isolation"
    /\ End("EXIT_GIT", TRUE)
    /\ UNCHANGED trace

(* prepared_repo on a local path: the commit is resolved, the checkout is  *)
(* yielded as it is.                                                       *)
ResolveLocal ==
    /\ pc = "git" /\ ~args.remote
    /\ args.mode = "commit" => args.commit # None
    /\ commit_sha' = IF args.mode = "commit" THEN args.commit ELSE head
    /\ clean' = (tree = Tree[commit_sha'])
    /\ StageEnds("clone")
    /\ pc' = "digests"
    /\ UNCHANGED <<image, process, head, tree, edits, clone, read, metrics, record, counters, exit>>

(* prepared_repo on a URL: a temporary directory and `git clone`, ... *)
Clone ==
    /\ pc = "git" /\ args.remote /\ args.commit # None
    /\ clone' = TRUE
    /\ Goto("checkout")
    /\ UNCHANGED <<process, results, trace>>

\* Seeded bug: the clone is timed when its context is left.
CheckoutUntimed ==
    /\ pc = "checkout"
    /\ commit_sha' = args.commit
    /\ Span("clone")
    /\ Goto("digests")
    /\ UNCHANGED <<process, clone, read, metrics, record, timings>>

\* ... and `git checkout` in it.
Checkout ==
    /\ pc = "checkout"
    /\ commit_sha' = args.commit
    /\ StageEnds("clone")
    /\ Goto("digests")
    /\ UNCHANGED <<process, clone, read, metrics, record>>

(* GitSafetyError or GitTimeoutError: an old git, a bad ref or URL, an     *)
(* unsafe checkout, no --commit, a git command that fails or takes too     *)
(* long.  A git that cannot be run at all is a traceback.                  *)
GitFails ==
    /\ pc \in {"git", "checkout"}
    /\ End("EXIT_GIT", TRUE) \/ End("traceback", FALSE)
    /\ Span("clone")
    /\ UNCHANGED timings

(* parse_repo: the registry of the process, and its assert_digests before  *)
(* any file is read.                                                       *)
Digests ==
    /\ pc = "digests"
    /\ registry' = GetRegistry(registry)
    /\ args.verify_digests => AssertDigests(registry'[1], tool_digests, on_disk) = "ok"
    /\ Goto("parse")
    /\ UNCHANGED <<telemetry, clone, results, trace>>

\* Seeded bug: the handler that tells the exceptions apart counts none of them.
DigestsFailUncounted ==
    /\ pc = "digests" /\ args.verify_digests
    /\ StageEnds("parse")
    /\ \/ AssertDigests(GetRegistry(registry)[1], tool_digests, on_disk) = "mismatch"
          /\ End("EXIT_DIGEST", FALSE)
       \/ env.production /\ End("traceback", FALSE)

(* ToolDigestMismatchError has an exit code; a binary that cannot be read  *)
(* is counted as unexpected and raised again.                              *)
DigestsFail ==
    /\ pc = "digests" /\ args.verify_digests
    /\ StageEnds("parse")
    /\ \/ AssertDigests(GetRegistry(registry)[1], tool_digests, on_disk) = "mismatch"
          /\ End("EXIT_DIGEST", TRUE)
       \/ env.production /\ End("traceback", TRUE)

(* How many files _iter_source_files lists.  It looks for _SKIP_DIRS in    *)
(* the whole path of a file, the directories above --repo included.        *)
Listed == IF args.skipped /\ ~args.remote THEN 0 ELSE Len(Sources)

(* parse_repo binds the default backend of its language to the next file   *)
(* and reads it, from the clone or from the checkout.                      *)
ReadFile ==
    /\ pc = "parse" /\ Len(read) < Listed
    /\ LET next == Len(read) + 1
           files == IF args.remote THEN Tree[commit_sha] ELSE tree
       IN  read' = Append(read, [text |-> files[next],
                                 backend |-> Resolve(registry[1], Sources[next], Unset).name])
    /\ Goto("parse")
    /\ UNCHANGED <<process, clone, commit_sha, metrics, record, trace>>

\* Seeded bug: the span of the parse is left open.
ParsedOpen ==
    /\ pc = "parse" /\ Len(read) = Listed
    /\ Timed("parse")
    /\ Goto("measure")
    /\ UNCHANGED <<process, clone, results, spans>>

Parsed ==
    /\ pc = "parse" /\ Len(read) = Listed
    /\ StageEnds("parse")
    /\ Goto("measure")
    /\ UNCHANGED <<process, clone, results>>

(* What a backend makes of a file: scc knows nothing of nesting depths and *)
(* function lengths and reports 0, lizard has no depth for most functions. *)
MeasuredBy(file) == IF file.backend \in {"lizard", "scc"} THEN 0 ELSE file.text

(* measure_metrics: the largest value of all files. *)
Measure ==
    /\ pc = "measure"
    /\ metrics' = Max({0} \cup {MeasuredBy(read[i]) : i \in 1..Len(read)})
    /\ StageEnds("measure")
    /\ Goto("score")
    /\ UNCHANGED <<process, clone, commit_sha, read, record>>

(* A file that cannot be read or a backend that raises something else is   *)
(* counted as unexpected and raised again; AnalyzerError comes from the    *)
(* backends, which run in the measure stage.                               *)
AnalysisFails ==
    /\ pc \in {"parse", "measure"}
    /\ StageEnds(pc)
    /\ \/ pc = "measure" /\ End("EXIT_ANALYZER", TRUE)
       \/ End("traceback", TRUE)

(* HEAD resolves to a full SHA; --commit is passed on as it was given. *)
FullSha == args.full \/ (~args.remote /\ args.mode = "repo")

(* build_score_record accepts a full SHA; then the ExitStack is left. *)
Score ==
    /\ pc = "score"
    /\ FullSha
    /\ record' = [commit_sha |-> commit_sha, metrics |-> metrics]
    /\ StageEnds("score")
    /\ clone' = FALSE
    /\ Goto("write")
    /\ UNCHANGED <<process, commit_sha, read, metrics>>

(* ScoringError for an abbreviated SHA; a decimal that cannot be quantised *)
(* is nobody's exception.                                                  *)
ScoreFails ==
    /\ pc = "score"
    /\ StageEnds("score")
    /\ \/ ~FullSha /\ End("EXIT_SCORING", TRUE)
       \/ End("traceback", FALSE)

(* mkdir and _write_outputs *)
WriteOutputs ==
    /\ pc = "write"
    /\ Timed("total")
    /\ Span("write_outputs")
    /\ Goto("total")
    /\ UNCHANGED <<process, clone, results>>

(* OSError: from _write_outputs it is counted, from mkdir it is not. *)
WriteFails ==
    /\ pc = "write"
    /\ \/ End("EXIT_WRITE", TRUE) /\ Span("write_outputs")
       \/ End("traceback", FALSE) /\ UNCHANGED spans
    /\ UNCHANGED timings

(* RECORDS_TOTAL, the assertion on the timings, exit code 0. *)
Finish ==
    /\ pc = "total"
    /\ records' = Inc(records, env)
    /\ exit' = IF timings = StageOrder THEN "ok" ELSE "assertion"
    /\ pc' = "ended"
    /\ UNCHANGED <<image, process, checkout, clone, results, trace, failures>>

(* The process is killed. *)
Kill ==
    /\ pc # "ended"
    /\ pc' = "ended"
    /\ exit' = "killed"
    /\ UNCHANGED <<image, process, checkout, clone, results, trace, counters>>

-----------------------------------------------------------------------------
(* The owner of the checkout saves a file, or checks out another commit.   *)
Save(f, v) ==
    /\ edits < MaxEdits /\ pc # "ended" /\ tree[f] # v
    /\ edits' = edits + 1
    /\ tree' = [tree EXCEPT ![f] = v]
    /\ clean' = FALSE
    /\ UNCHANGED <<image, process, head, pc, clone, results, trace, counters, exit>>

SwitchTo(c) ==
    /\ edits < MaxEdits /\ pc # "ended" /\ head # c
    /\ edits' = edits + 1
    /\ head' = c
    /\ tree' = Tree[c]
    /\ clean' = FALSE
    /\ UNCHANGED <<image, process, pc, clone, results, trace, counters, exit>>

Stage == \/ Entrypoint \/ EntrypointFails \/ InitTelemetry
         \/ LoadSpec \/ LoadSpecFails \/ Isolation \/ IsolationFails
         \/ ResolveLocal \/ Clone \/ Checkout \/ GitFails
         \/ Digests \/ DigestsFail \/ ReadFile \/ Parsed \/ Measure \/ AnalysisFails
         \/ Score \/ ScoreFails \/ WriteOutputs \/ WriteFails \/ Finish

Next == \/ Stage \/ Kill
        \/ \E f \in Files, v \in Values : Save(f, v)
        \/ \E c \in Commits : SwitchTo(c)

Spec == Init /\ [][Next]_vars

-----------------------------------------------------------------------------
(* However the run ends, unless it is killed, its temporary clone is gone; *)
(* and it is gone before the outputs are written.                          *)
CloneRemoved ==
    pc \in {"write", "total"} \/ (pc = "ended" /\ exit # "killed") => ~clone

(* The assertion on the order of the stage timings never fails, whichever  *)
(* way the repository was prepared.                                        *)
TimingsInOrder == exit # "assertion"

(* With prometheus_client installed, an exit code other than 0 is counted  *)
(* once as a failure and not as a record, exit code 0 once as a record and *)
(* not as a failure; an exception that nobody handles is never counted as  *)
(* a record.  Without it nothing is counted and the exits are the same.    *)
CountedOnce ==
    /\ exit \in ExitCodes => failures = Inc(0, env) /\ records = 0
    /\ exit = "ok" => failures = 0 /\ records = Inc(0, env)
    /\ exit = "traceback" => records = 0

(* The spans of a run are a prefix of ALLOWED_SPAN_NAMES in their order,   *)
(* all of them when the run succeeds, and every stage that was timed has   *)
(* its span, so also the stage that failed; a run whose telemetry could    *)
(* not be set up has none (the contract in the head of otel.py).  These    *)
(* names are not the documented ones: see DocumentedSpans.                 *)
SpansFollowStages ==
    /\ spans = SubSeq(ALLOWED_SPAN_NAMES, 1, Len(spans))
    /\ IF Recording(telemetry, env)
       THEN /\ exit = "ok" => spans = ALLOWED_SPAN_NAMES
            /\ \A i \in 1..Len(timings) :
                  timings[i] = "total" \/ \E k \in 1..Len(spans) : spans[k] = timings[i]
       ELSE spans = << >>

(* With --verify-digests, a run in the production image that has read a    *)
(* file, or that has a record, has the pinned binaries on its disk: the    *)
(* backends the entrypoint registered are those that parse_repo checks.    *)
PinnedVerified ==
    args.verify_digests /\ env.production /\ (read # << >> \/ record # None)
        => \A b \in DOMAIN on_disk : on_disk[b] = tool_digests[b]

(* What the commit's own files give, measured with the built-in backends.  *)
Expected(c) == Max({0} \cup {Tree[c][f] : f \in Files})

(* A record of a remote run, or of a local run on a checkout of its commit *)
(* that nobody touched and that lies outside any directory named in        *)
(* _SKIP_DIRS, has the metrics of the commit it names: such runs have the  *)
(* same record_hash, however they are interleaved with changes to the      *)
(* checkout, and in whichever image they are made.                         *)
CleanRunsReproduce ==
    record # None /\ (args.remote \/ (clean /\ ~args.skipped))
        => record.metrics = Expected(record.commit_sha)

-----------------------------------------------------------------------------
(* Not invariants: what comments and documents say that the code does not. *)

(* "The core pipeline is prepared_repo -> analyze -> score ->              *)
(* write_outputs, emitted as OpenTelemetry spans" (README.md:90, and the   *)
(* docstring of stage_span): these are the spans of a run that succeeds.   *)
DocumentedSpans ==
    exit = "ok" /\ Recording(telemetry, env) =>
        spans = <<"prepared_repo", "analyze", "score", "write_outputs">>

(* "running `cce score` against the same commit ... produces the identical *)
(* record_hash" (README.md:62): the metrics in a record are those of its   *)
(* commit.  A local run in commit mode reads the working tree as it is.    *)
RecordIsOfItsCommit ==
    record # None /\ ~args.skipped => record.metrics = Expected(record.commit_sha)

(* The same sentence for a clean checkout in any place: a run below a      *)
(* directory named in _SKIP_DIRS reads no file and reports zeros.          *)
PlaceDoesNotMatter ==
    record # None /\ (args.remote \/ clean) => record.metrics = Expected(record.commit_sha)

(* "production images can swap in digest-pinned lizard/scc backends"       *)
(* (analyzer.py:5): in the production image they measure the files.  They  *)
(* are registered without default, so parse_repo never resolves to them.   *)
ProductionBackendsUsed ==
    env.production => \A i \in 1..Len(read) : read[i].backend \in {"lizard", "scc"}

=============================================================================
