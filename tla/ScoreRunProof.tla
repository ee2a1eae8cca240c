---------------------------- MODULE ScoreRunProof ----------------------------
(***************************************************************************)
(* One run of `cce score`, proved for every repository, every image and    *)
(* every number of changes that somebody else makes to the checkout.       *)
(***************************************************************************)
EXTENDS ScoreRun, SequenceTheorems, TLAPS

-----------------------------------------------------------------------------
(* The inductive invariant.                                                *)

(* How many stages are behind a run that has not ended.                    *)
Behind == [entrypoint |-> 0, init_otel |-> 0, load_spec |-> 0, isolation |-> 1, git |-> 1,
           checkout |-> 1, digests |-> 2, parse |-> 2, measure |-> 3, score |-> 4, write |-> 5,
           total |-> 6]
Stages == DOMAIN Behind

Names == {"load_spec", "clone", "parse", "measure", "score", "total", "write_outputs"}

(* A list of names that are the first ones of another list.                *)
Follows(s, names) == /\ s \in Seq(Names) /\ Len(s) <= 6
                     /\ \A i \in 1..Len(s) : s[i] = names[i]

(* Timings and spans keep step with the stages; only a run that has ended  *)
(* may have a span without its timing.                                     *)
TraceOK ==
    /\ Follows(timings, StageOrder)
    /\ Follows(spans, ALLOWED_SPAN_NAMES)
    /\ IF Recording(telemetry, env) THEN Len(timings) <= Len(spans) ELSE Len(spans) = 0
    /\ pc # "ended" => /\ Len(timings) = Behind[pc]
                       /\ Recording(telemetry, env) => Len(spans) = Behind[pc]
    /\ exit = "ok" => /\ Len(timings) = 6
                      /\ Recording(telemetry, env) => Len(spans) = 6

(* Nothing is counted and there is no exit code before the run ends, and   *)
(* the clone is there only between its creation and the end of the scoring *)
(* stage, or after a kill.                                                 *)
EndsOK ==
    /\ pc \in Stages \cup {"ended"}
    /\ pc # "ended" => failures = 0 /\ records = 0 /\ exit = "none"
    /\ CountedOnce
    /\ TimingsInOrder
    /\ clone => pc \in {"checkout", "digests", "parse", "measure", "score"} \/ exit = "killed"

(* The registry is the default one or the one of a production image, and   *)
(* the latter from the entrypoint on; files are read only after the pinned *)
(* binaries were looked at.                                                *)
ProductionRegistry == RegisterProductionBackends(DefaultRegistry)
Checked == {"parse", "measure", "score", "write", "total"}

RegistryOK ==
    /\ args \in Arguments /\ env \in Environments /\ on_disk \in Binaries(env)
    /\ registry \in {<< >>, <<DefaultRegistry>>, <<ProductionRegistry>>}
    /\ pc = "entrypoint" => registry = << >>
    /\ env.production /\ pc \in Stages \ {"entrypoint"} => registry = <<ProductionRegistry>>
    /\ pc \in Checked => registry # << >>
    /\ pc \in Stages \ Checked => read = << >> /\ record = None
    /\ args.verify_digests /\ env.production /\ (pc \in Checked \/ read # << >> \/ record # None)
          => \A b \in DOMAIN on_disk : on_disk[b] = tool_digests[b]

(* What was read so far is the commit's, as long as nobody touched the     *)
(* checkout and its files are listed, and it is measured by a built-in     *)
(* backend.                                                                *)
Untouched == args.remote \/ (clean /\ ~args.skipped)
Prepared == {"digests", "parse", "measure", "score"}

Builtin == {"builtin_ast", "builtin_tree_sitter"}

ReadOK ==
    /\ read \in Seq([text : Values, backend : Builtin])
    /\ Len(read) <= Len(Sources)
    /\ head \in Commits /\ tree \in [Files -> Values]
    /\ pc = "checkout" => args.remote /\ args.commit \in Commits
    /\ pc \in Prepared => /\ commit_sha \in Commits
                          /\ ~args.remote /\ clean => tree = Tree[commit_sha]
                          /\ Untouched => \A i \in 1..Len(read) : read[i].text = Tree[commit_sha][i]
    /\ pc = "measure" => Len(read) = Listed
    /\ pc = "score" /\ Untouched => metrics = Expected(commit_sha)
    /\ pc \in Stages \ {"write", "total"} => record = None
    /\ CleanRunsReproduce

IInv == TraceOK /\ EndsOK /\ RegistryOK /\ ReadOK

-----------------------------------------------------------------------------
(* The registries.                                                         *)

PyEntry == Entry("python", "builtin_ast", Unset)
TsEntry == Entry("typescript", "builtin_tree_sitter", Unset)
LizardEntry == Entry("python", "lizard", "lizard")
SccEntry == Entry("typescript", "scc", "scc")
Entries == {PyEntry, TsEntry, LizardEntry, SccEntry}

LEMMA EntryFacts ==
    /\ PyEntry.language = "python" /\ PyEntry.name = "builtin_ast"
    /\ TsEntry.language = "typescript" /\ TsEntry.name = "builtin_tree_sitter"
    /\ LizardEntry.language = "python" /\ LizardEntry.name = "lizard"
    /\ SccEntry.language = "typescript" /\ SccEntry.name = "scc"
    /\ PyEntry.tool_digest_key = "unset" /\ TsEntry.tool_digest_key = "unset"
    /\ LizardEntry.tool_digest_key = "lizard" /\ LizardEntry.binary = "lizard"
    /\ SccEntry.tool_digest_key = "scc" /\ SccEntry.binary = "scc"
  BY DEF PyEntry, TsEntry, LizardEntry, SccEntry, Entry, Unset

(* A new name is added at the end; the first of a language is its default. *)
LEMMA RegisterNew ==
    ASSUME NEW r, NEW entry, Slots(r, entry.language, entry.name) = {}
    PROVE  /\ Register(r, entry, TRUE).entries = Append(r.entries, entry)
           /\ Register(r, entry, FALSE).entries = Append(r.entries, entry)
           /\ Register(r, entry, TRUE).defaults = DefaultTo(r, entry)
           /\ entry.language \in DOMAIN r.defaults =>
                 Register(r, entry, FALSE).defaults = r.defaults
  BY DEF Register

LEMMA Appended ==
    ASSUME NEW S, NEW s \in Seq(S), NEW x \in S
    PROVE  /\ Append(s, x) \in Seq(S)
           /\ Len(Append(s, x)) = Len(s) + 1
           /\ Append(s, x)[Len(s) + 1] = x
           /\ \A i \in 1..Len(s) : Append(s, x)[i] = s[i]
  OBVIOUS

LEMMA DefaultIs ==
    /\ DefaultRegistry.entries \in Seq(Entries) /\ Len(DefaultRegistry.entries) = 2
    /\ DefaultRegistry.entries[1] = PyEntry /\ DefaultRegistry.entries[2] = TsEntry
    /\ DOMAIN DefaultRegistry.defaults = {"python", "typescript"}
    /\ DefaultRegistry.defaults["python"] = "builtin_ast"
    /\ DefaultRegistry.defaults["typescript"] = "builtin_tree_sitter"
<1> DEFINE r1 == Register(EmptyRegistry, PyEntry, TRUE)
<1>1. /\ EmptyRegistry.entries = << >> /\ EmptyRegistry.defaults = << >>
  BY DEF EmptyRegistry
<1>2. Slots(EmptyRegistry, PyEntry.language, PyEntry.name) = {}
  BY <1>1 DEF Slots
<1>3. r1.entries = Append(<< >>, PyEntry) /\ r1.defaults = DefaultTo(EmptyRegistry, PyEntry)
  BY <1>1, <1>2, RegisterNew
<1>4. r1.entries \in Seq(Entries) /\ Len(r1.entries) = 1 /\ r1.entries[1] = PyEntry
  <2>1. << >> \in Seq(Entries) /\ PyEntry \in Entries
    BY DEF Entries
  <2>2. Append(<< >>, PyEntry) \in Seq(Entries) /\ Len(Append(<< >>, PyEntry)) = 1
    BY <2>1, Appended
  <2>3. Append(<< >>, PyEntry)[1] = PyEntry
    OBVIOUS
  <2> QED BY <1>3, <2>2, <2>3
<1>5. DOMAIN r1.defaults = {"python"} /\ r1.defaults["python"] = "builtin_ast"
  <2>1. DOMAIN EmptyRegistry.defaults = {}
    BY <1>1
  <2> QED BY <1>3, <2>1, EntryFacts DEF DefaultTo
<1> HIDE DEF r1
<1>6. Slots(r1, TsEntry.language, TsEntry.name) = {}
  BY <1>4, EntryFacts DEF Slots
<1>7. DefaultRegistry = Register(r1, TsEntry, TRUE)
  BY DEF DefaultRegistry, r1, PyEntry, TsEntry
<1>8. /\ DefaultRegistry.entries = Append(r1.entries, TsEntry)
      /\ DefaultRegistry.defaults = DefaultTo(r1, TsEntry)
  BY <1>6, <1>7, RegisterNew
<1>9. /\ DefaultRegistry.entries \in Seq(Entries) /\ Len(DefaultRegistry.entries) = 2
      /\ DefaultRegistry.entries[1] = PyEntry /\ DefaultRegistry.entries[2] = TsEntry
  BY <1>4, <1>8 DEF Entries
<1> QED BY <1>5, <1>8, <1>9, EntryFacts DEF DefaultTo

LEMMA ProductionIs ==
    /\ ProductionRegistry.entries \in Seq(Entries) /\ Len(ProductionRegistry.entries) = 4
    /\ ProductionRegistry.entries[1] = PyEntry /\ ProductionRegistry.entries[2] = TsEntry
    /\ ProductionRegistry.entries[3] = LizardEntry /\ ProductionRegistry.entries[4] = SccEntry
    /\ ProductionRegistry.defaults = DefaultRegistry.defaults
<1> DEFINE r1 == Register(DefaultRegistry, LizardEntry, FALSE)
<1>1. Slots(DefaultRegistry, LizardEntry.language, LizardEntry.name) = {}
  BY DefaultIs, EntryFacts DEF Slots
<1>2. /\ r1.entries = Append(DefaultRegistry.entries, LizardEntry)
      /\ r1.defaults = DefaultRegistry.defaults
  BY <1>1, DefaultIs, RegisterNew, EntryFacts
<1> HIDE DEF r1
<1>3. /\ r1.entries \in Seq(Entries) /\ Len(r1.entries) = 3
      /\ r1.entries[1] = PyEntry /\ r1.entries[2] = TsEntry /\ r1.entries[3] = LizardEntry
  <2>1. LizardEntry \in Entries
    BY DEF Entries
  <2>2. PICK d \in Seq(Entries) : d = DefaultRegistry.entries /\ Len(d) = 2 /\ d[1] = PyEntry /\ d[2] = TsEntry
    BY DefaultIs
  <2>3. Append(d, LizardEntry) \in Seq(Entries) /\ Len(Append(d, LizardEntry)) = 3
    <3>1. Append(d, LizardEntry) \in Seq(Entries)
      BY <2>1
    <3>2. Len(Append(d, LizardEntry)) = Len(d) + 1
      OBVIOUS
    <3> QED BY <2>2, <3>1, <3>2
  <2>4. /\ Append(d, LizardEntry)[1] = PyEntry /\ Append(d, LizardEntry)[2] = TsEntry
        /\ Append(d, LizardEntry)[3] = LizardEntry
    BY <2>1, <2>2, Appended
  <2> QED BY <1>2, <2>2, <2>3, <2>4
<1>4. Slots(r1, SccEntry.language, SccEntry.name) = {}
  BY <1>3, EntryFacts DEF Slots
<1>5. ProductionRegistry = Register(r1, SccEntry, FALSE)
  BY DEF ProductionRegistry, RegisterProductionBackends, r1, LizardEntry, SccEntry
<1>6. /\ ProductionRegistry.entries = Append(r1.entries, SccEntry)
      /\ ProductionRegistry.defaults = DefaultRegistry.defaults
  <2>1. SccEntry.language \in DOMAIN r1.defaults
    BY <1>2, DefaultIs, EntryFacts
  <2> QED BY <1>2, <1>4, <1>5, <2>1, RegisterNew
<1> QED BY <1>3, <1>6 DEF Entries

(* Without a name, parse_repo gets the built-in backend of a language in   *)
(* both registries: the production backends are no defaults.               *)
LEMMA BuiltinResolved ==
    ASSUME NEW r \in {DefaultRegistry, ProductionRegistry}, NEW language \in {"python", "typescript"}
    PROVE  Resolve(r, language, Unset).name \in Builtin
<1> DEFINE name == r.defaults[language]
           slots == Slots(r, language, name)
<1>1. /\ language \in DOMAIN r.defaults
      /\ name = IF language = "python" THEN "builtin_ast" ELSE "builtin_tree_sitter"
  BY DefaultIs, ProductionIs
<1>2. slots = {IF language = "python" THEN 1 ELSE 2}
  BY <1>1, DefaultIs, ProductionIs, EntryFacts DEF Slots
<1>3. PICK k \in 1..Len(r.entries) : slots = {k} /\ r.entries[k].name = name
  BY <1>2, DefaultIs, ProductionIs DEF Slots
<1>4. Min(slots) = k
  BY <1>3 DEF Min
<1>5. Resolve(r, language, Unset) = r.entries[k]
  BY <1>1, <1>3, <1>4 DEF Resolve
<1> QED BY <1>1, <1>3, <1>5 DEF Builtin

(* assert_digests looks at both production binaries.                       *)
LEMMA AssertedArePinned ==
    ASSUME NEW disk \in [{"lizard", "scc"} -> {"pinned", "other"}],
           AssertDigests(ProductionRegistry, tool_digests, disk) = "ok"
    PROVE  \A b \in DOMAIN disk : disk[b] = tool_digests[b]
<1> DEFINE e == ProductionRegistry.entries
           bad == {i \in Pinned(ProductionRegistry) : DigestOf(e[i], tool_digests, disk) # "ok"}
<1>1. /\ Len(e) = 4 /\ e[1] = PyEntry /\ e[2] = TsEntry /\ e[3] = LizardEntry /\ e[4] = SccEntry
  BY ProductionIs
<1>2. 3 \in Pinned(ProductionRegistry) /\ 4 \in Pinned(ProductionRegistry)
  <2>1. \A i \in {3, 4} : \A j \in 1..(i - 1) : e[j].tool_digest_key # e[i].tool_digest_key
    BY <1>1, EntryFacts
  <2> QED BY <1>1, <2>1, EntryFacts DEF Pinned, Unset
<1>3. bad = {}
  <2> SUFFICES ASSUME bad # {} PROVE FALSE
    OBVIOUS
  <2>1. Min(bad) \in bad
    <3>1. bad \subseteq 1..4
      BY <1>1 DEF Pinned
    <3> HIDE DEF bad
    <3>2. \E m \in bad : \A y \in bad : m =< y
      <4>1. CASE 1 \in bad
        BY <3>1, <4>1
      <4>2. CASE 1 \notin bad /\ 2 \in bad
        BY <3>1, <4>2
      <4>3. CASE 1 \notin bad /\ 2 \notin bad /\ 3 \in bad
        BY <3>1, <4>3
      <4>4. CASE 1 \notin bad /\ 2 \notin bad /\ 3 \notin bad
        <5>1. \A y \in bad : y = 4
          BY <3>1, <4>4
        <5> QED BY <5>1
      <4> QED BY <3>1, <4>1, <4>2, <4>3, <4>4
    <3> QED BY <3>2 DEF Min
  <2>2. DigestOf(e[Min(bad)], tool_digests, disk) = "ok"
    BY DEF AssertDigests
  <2> QED BY <2>1, <2>2
<1>4. DigestOf(e[3], tool_digests, disk) = "ok" /\ DigestOf(e[4], tool_digests, disk) = "ok"
  BY <1>2, <1>3
<1>5. /\ e[3].tool_digest_key = "lizard" /\ e[3].binary = "lizard"
      /\ e[4].tool_digest_key = "scc" /\ e[4].binary = "scc"
  BY <1>1, EntryFacts
<1>6. disk["lizard"] = tool_digests["lizard"] /\ disk["scc"] = tool_digests["scc"]
  BY <1>4, <1>5 DEF DigestOf, tool_digests
<1> QED BY <1>6

-----------------------------------------------------------------------------
(* The stages: timings and spans.                                          *)

LEMMA BehindIs ==
    /\ Stages = {"entrypoint", "init_otel", "load_spec", "isolation", "git", "checkout",
                 "digests", "parse", "measure", "score", "write", "total"}
    /\ Behind["entrypoint"] = 0 /\ Behind["init_otel"] = 0 /\ Behind["load_spec"] = 0
    /\ Behind["isolation"] = 1 /\ Behind["git"] = 1 /\ Behind["checkout"] = 1
    /\ Behind["digests"] = 2 /\ Behind["parse"] = 2 /\ Behind["measure"] = 3
    /\ Behind["score"] = 4 /\ Behind["write"] = 5 /\ Behind["total"] = 6
  BY DEF Behind, Stages

LEMMA NamesAre ==
    /\ StageOrder \in Seq(Names) /\ Len(StageOrder) = 6
    /\ ALLOWED_SPAN_NAMES \in Seq(Names) /\ Len(ALLOWED_SPAN_NAMES) = 6
    /\ StageOrder[1] = "load_spec" /\ StageOrder[2] = "clone" /\ StageOrder[3] = "parse"
    /\ StageOrder[4] = "measure" /\ StageOrder[5] = "score" /\ StageOrder[6] = "total"
    /\ \A i \in 1..5 : ALLOWED_SPAN_NAMES[i] = StageOrder[i]
    /\ ALLOWED_SPAN_NAMES[6] = "write_outputs"
<1>1. /\ StageOrder \in Seq(Names) /\ Len(StageOrder) = 6
      /\ StageOrder[1] = "load_spec" /\ StageOrder[2] = "clone" /\ StageOrder[3] = "parse"
      /\ StageOrder[4] = "measure" /\ StageOrder[5] = "score" /\ StageOrder[6] = "total"
  BY DEF StageOrder, Names
<1>2. /\ PRD_SPAN_NAMES \in Seq(Names) /\ Len(PRD_SPAN_NAMES) = 5
      /\ \A i \in 1..5 : PRD_SPAN_NAMES[i] = StageOrder[i]
  BY DEF PRD_SPAN_NAMES, StageOrder, Names
<1>3. PICK p \in Seq(Names) : p = PRD_SPAN_NAMES /\ Len(p) = 5 /\ \A i \in 1..5 : p[i] = StageOrder[i]
  BY <1>2
<1>4. ALLOWED_SPAN_NAMES = Append(p, "write_outputs")
  BY <1>3 DEF ALLOWED_SPAN_NAMES
<1>5. "write_outputs" \in Names
  BY DEF Names
<1>6. /\ Append(p, "write_outputs") \in Seq(Names) /\ Len(Append(p, "write_outputs")) = Len(p) + 1
      /\ Append(p, "write_outputs")[Len(p) + 1] = "write_outputs"
      /\ \A i \in 1..Len(p) : Append(p, "write_outputs")[i] = p[i]
  BY <1>5, Appended
<1> QED BY <1>1, <1>3, <1>4, <1>6

LEMMA FollowsOn ==
    ASSUME NEW s, NEW names, Follows(s, names), Len(s) < 6, NEW name \in Names,
           names[Len(s) + 1] = name
    PROVE  Follows(Append(s, name), names) /\ Len(Append(s, name)) = Len(s) + 1
<1>1. s \in Seq(Names) /\ Len(s) \in Nat /\ \A i \in 1..Len(s) : s[i] = names[i]
  BY DEF Follows
<1>2. /\ Append(s, name) \in Seq(Names)
      /\ Len(Append(s, name)) = Len(s) + 1
      /\ Append(s, name)[Len(s) + 1] = name
      /\ \A i \in 1..Len(s) : Append(s, name)[i] = s[i]
  BY <1>1, Appended
<1>3. \A i \in 1..(Len(s) + 1) : Append(s, name)[i] = names[i]
  BY <1>1, <1>2
<1> QED BY <1>1, <1>2, <1>3 DEF Follows

(* A span is added when the tracer records, and only then.                 *)
LEMMA SpanFollows ==
    ASSUME TraceOK, pc \in Stages, Behind[pc] < 6, NEW name \in Names,
           ALLOWED_SPAN_NAMES[Behind[pc] + 1] = name, Span(name)
    PROVE  /\ Follows(spans', ALLOWED_SPAN_NAMES)
           /\ Recording(telemetry, env) => Len(spans') = Behind[pc] + 1
           /\ ~Recording(telemetry, env) => Len(spans') = 0
<1>0. pc # "ended"
  BY BehindIs
<1>1. CASE Recording(telemetry, env)
  <2>1. Follows(spans, ALLOWED_SPAN_NAMES) /\ Len(spans) = Behind[pc]
    BY <1>0, <1>1 DEF TraceOK
  <2>2. spans' = Append(spans, name)
    BY <1>1 DEF Span
  <2> QED BY <1>1, <2>1, <2>2, FollowsOn
<1>2. CASE ~Recording(telemetry, env)
  BY <1>2 DEF TraceOK, Span
<1> QED BY <1>1, <1>2

LEMMA TimedFollows ==
    ASSUME TraceOK, pc \in Stages, Behind[pc] < 6, NEW name \in Names,
           StageOrder[Behind[pc] + 1] = name, Timed(name)
    PROVE  Follows(timings', StageOrder) /\ Len(timings') = Behind[pc] + 1
<1>1. Follows(timings, StageOrder) /\ Len(timings) = Behind[pc]
  BY BehindIs DEF TraceOK
<1> QED BY <1>1, FollowsOn DEF Timed

(* A stage that is done, and one that ends the run.                        *)
LEMMA TraceStage ==
    ASSUME TraceOK, pc \in Stages, Behind[pc] < 6, NEW timed \in Names, NEW name \in Names,
           StageOrder[Behind[pc] + 1] = timed, ALLOWED_SPAN_NAMES[Behind[pc] + 1] = name,
           Timed(timed), Span(name), UNCHANGED <<telemetry, env>>,
           pc' = "ended" \/ (pc' \in Stages /\ Behind[pc'] = Behind[pc] + 1),
           exit' # "ok"
    PROVE  TraceOK'
<1>1. Recording(telemetry, env)' <=> Recording(telemetry, env)
  BY DEF Recording
<1>2. Behind[pc] \in Nat
  BY BehindIs
<1> QED BY <1>1, <1>2, SpanFollows, TimedFollows DEF TraceOK

LEMMA TraceFails ==
    ASSUME TraceOK, pc \in Stages, Behind[pc] < 6, NEW name \in Names,
           ALLOWED_SPAN_NAMES[Behind[pc] + 1] = name,
           UNCHANGED timings, Span(name), UNCHANGED <<telemetry, env>>, pc' = "ended", exit' # "ok"
    PROVE  TraceOK'
<1>1. Recording(telemetry, env)' <=> Recording(telemetry, env)
  BY DEF Recording
<1>2. Follows(timings, StageOrder) /\ Len(timings) = Behind[pc] /\ Behind[pc] \in Nat
  BY BehindIs DEF TraceOK
<1> QED BY <1>1, <1>2, SpanFollows DEF TraceOK

(* A step that neither times nor traces.                                   *)
LEMMA TraceStays ==
    ASSUME TraceOK, UNCHANGED <<timings, spans, telemetry, env>>,
           \/ pc' = "ended" /\ exit' # "ok"
           \/ pc' = pc /\ exit' = exit
           \/ pc # "ended" /\ pc' # "ended" /\ Behind[pc'] = Behind[pc] /\ exit' # "ok"
    PROVE  TraceOK'
<1>1. Recording(telemetry, env)' <=> Recording(telemetry, env)
  BY DEF Recording
<1> QED BY <1>1 DEF TraceOK

LEMMA TraceNext == TraceOK /\ EndsOK /\ [Next]_vars => TraceOK'
<1> SUFFICES ASSUME TraceOK, EndsOK, [Next]_vars PROVE TraceOK'
  OBVIOUS
<1>0. pc \in Stages => exit = "none"
  BY BehindIs DEF EndsOK
<1>s. Names = {"load_spec", "clone", "parse", "measure", "score", "total", "write_outputs"}
  BY DEF Names
<1>1. CASE InitTelemetry
  <2>1. /\ pc = "init_otel" /\ pc' = "load_spec" /\ UNCHANGED <<timings, spans, exit>>
    BY <1>1 DEF InitTelemetry, Goto, trace
  <2>2. Len(timings) = 0 /\ Len(spans) = 0
    BY <2>1, BehindIs DEF TraceOK
  <2> QED BY <1>0, <2>1, <2>2, BehindIs DEF TraceOK
<1>2. CASE Entrypoint \/ Isolation \/ Clone \/ Digests \/ ReadFile
  <2>1. UNCHANGED <<timings, spans, telemetry, env, exit>>
    BY <1>2 DEF Entrypoint, Isolation, Clone, Digests, ReadFile, Goto, trace, process, image
  <2>2. pc \in Stages /\ pc' \in Stages /\ Behind[pc'] = Behind[pc]
    BY <1>2, BehindIs DEF Entrypoint, Isolation, Clone, Digests, ReadFile, Goto
  <2> QED BY <1>0, <2>1, <2>2, BehindIs, TraceStays
<1>3. CASE EntrypointFails \/ IsolationFails \/ Kill
  <2>1. UNCHANGED <<timings, spans, telemetry, env>> /\ pc' = "ended" /\ exit' # "ok"
    BY <1>3 DEF EntrypointFails, IsolationFails, Kill, trace, process, image, End
  <2> QED BY <2>1, TraceStays
<1>4. CASE LoadSpec \/ LoadSpecFails
  <2>1. /\ pc = "load_spec" /\ Timed("load_spec") /\ Span("load_spec")
        /\ UNCHANGED <<telemetry, env>>
        /\ (pc' = "isolation" /\ exit' = exit) \/ (pc' = "ended" /\ exit' # "ok")
    BY <1>4 DEF LoadSpec, LoadSpecFails, StageEnds, Goto, process, image, End
  <2> QED BY <1>0, <1>s, <2>1, BehindIs, NamesAre, TraceStage
<1>5. CASE ResolveLocal \/ Checkout
  <2>1. /\ pc \in {"git", "checkout"} /\ Timed("clone") /\ Span("clone")
        /\ UNCHANGED <<telemetry, env>> /\ pc' = "digests" /\ exit' = exit
    BY <1>5 DEF ResolveLocal, Checkout, StageEnds, Goto, process, image
  <2> QED BY <1>0, <1>s, <2>1, BehindIs, NamesAre, TraceStage
<1>6. CASE GitFails
  <2>1. /\ pc \in {"git", "checkout"} /\ Span("clone") /\ UNCHANGED timings
        /\ UNCHANGED <<telemetry, env>> /\ pc' = "ended" /\ exit' # "ok"
    BY <1>6 DEF GitFails, End, process, image
  <2> QED BY <1>s, <2>1, BehindIs, NamesAre, TraceFails
<1>7. CASE DigestsFail \/ Parsed \/ (AnalysisFails /\ pc = "parse")
  <2>1. /\ pc \in {"digests", "parse"} /\ Timed("parse") /\ Span("parse")
        /\ UNCHANGED <<telemetry, env>>
        /\ (pc' = "measure" /\ exit' = exit) \/ (pc' = "ended" /\ exit' # "ok")
    BY <1>7 DEF DigestsFail, Parsed, AnalysisFails, StageEnds, Goto, process, image, End
  <2> QED BY <1>0, <1>s, <2>1, BehindIs, NamesAre, TraceStage
<1>8. CASE Measure \/ (AnalysisFails /\ pc = "measure")
  <2>1. /\ pc = "measure" /\ Timed("measure") /\ Span("measure")
        /\ UNCHANGED <<telemetry, env>>
        /\ (pc' = "score" /\ exit' = exit) \/ (pc' = "ended" /\ exit' # "ok")
    BY <1>8 DEF Measure, AnalysisFails, StageEnds, Goto, process, image, End
  <2> QED BY <1>0, <1>s, <2>1, BehindIs, NamesAre, TraceStage
<1>9. CASE Score \/ ScoreFails
  <2>1. /\ pc = "score" /\ Timed("score") /\ Span("score")
        /\ UNCHANGED <<telemetry, env>>
        /\ (pc' = "write" /\ exit' = exit) \/ (pc' = "ended" /\ exit' # "ok")
    BY <1>9 DEF Score, ScoreFails, StageEnds, Goto, process, image, End
  <2> QED BY <1>0, <1>s, <2>1, BehindIs, NamesAre, TraceStage
<1>10. CASE WriteOutputs
  <2>1. /\ pc = "write" /\ Timed("total") /\ Span("write_outputs")
        /\ UNCHANGED <<telemetry, env>> /\ pc' = "total" /\ exit' = exit
    BY <1>10 DEF WriteOutputs, Goto, process, image
  <2> QED BY <1>0, <1>s, <2>1, BehindIs, NamesAre, TraceStage
<1>11. CASE WriteFails
  <2>1. /\ pc = "write" /\ UNCHANGED timings
        /\ Span("write_outputs") \/ UNCHANGED spans
        /\ UNCHANGED <<telemetry, env>> /\ pc' = "ended" /\ exit' # "ok"
    BY <1>11 DEF WriteFails, End, process, image
  <2> QED BY <1>s, <2>1, BehindIs, NamesAre, TraceFails, TraceStays
<1>12. CASE Finish
  <2>1. pc = "total" /\ pc' = "ended" /\ UNCHANGED <<timings, spans, telemetry, env>>
    BY <1>12 DEF Finish, trace, process, image
  <2>2. /\ Len(timings) = 6 /\ (Recording(telemetry, env) => Len(spans) = 6)
    BY <2>1, BehindIs DEF TraceOK
  <2>3. Recording(telemetry, env)' <=> Recording(telemetry, env)
    BY <2>1 DEF Recording
  <2> QED BY <2>1, <2>2, <2>3 DEF TraceOK
<1>13. CASE \/ \E f \in Files, v \in Values : Save(f, v)
            \/ \E c \in Commits : SwitchTo(c)
            \/ UNCHANGED vars
  <2>1. UNCHANGED <<timings, spans, telemetry, env, pc, exit>>
    BY <1>13 DEF Save, SwitchTo, vars, trace, process, image
  <2> QED BY <2>1, TraceStays
<1>14. AnalysisFails => pc = "parse" \/ pc = "measure"
  BY DEF AnalysisFails
<1> QED BY <1>1, <1>2, <1>3, <1>4, <1>5, <1>6, <1>7, <1>8, <1>9, <1>10, <1>11, <1>12, <1>13, <1>14
        DEF Next, Stage

(* At the end of the last stage the timings are the list that _score       *)
(* compares them with.                                                     *)
LEMMA AllTimed ==
    ASSUME TraceOK, pc = "total"
    PROVE  timings = StageOrder
<1>1. timings \in Seq(Names) /\ Len(timings) = 6 /\ \A i \in 1..6 : timings[i] = StageOrder[i]
  BY BehindIs DEF TraceOK, Follows
<1> QED BY <1>1, NamesAre, SeqEqual

-----------------------------------------------------------------------------
(* Counters, exit codes and the clone.                                     *)

LEMMA EndsNext == TraceOK /\ EndsOK /\ [Next]_vars => EndsOK'
<1> SUFFICES ASSUME TraceOK, EndsOK, [Next]_vars PROVE EndsOK'
  OBVIOUS
<1>0. pc \in Stages => failures = 0 /\ records = 0 /\ exit = "none"
  BY BehindIs DEF EndsOK
<1>1. ASSUME pc \in Stages, pc' \in Stages, UNCHANGED <<failures, records, exit>>,
             clone' => pc' \in {"checkout", "digests", "parse", "measure", "score"}
      PROVE  EndsOK'
  BY <1>0, <1>1, BehindIs DEF EndsOK, CountedOnce, TimingsInOrder, ExitCodes
<1>2. ASSUME pc \in Stages, pc' = "ended", ~clone', env' = env, records' = 0,
             \/ exit' \in ExitCodes /\ failures' = Inc(0, env)
             \/ exit' = "traceback"
      PROVE  EndsOK'
  <2>1. Inc(0, env)' = Inc(0, env)
    BY <1>2 DEF Inc
  <2> QED BY <1>2, <2>1 DEF EndsOK, CountedOnce, TimingsInOrder, ExitCodes
<1>3. CASE \/ Entrypoint \/ InitTelemetry \/ LoadSpec \/ Isolation
  <2>1. /\ pc \in Stages /\ pc' \in Stages /\ UNCHANGED <<failures, records, exit, clone>>
        /\ pc \in {"entrypoint", "init_otel", "load_spec", "isolation"}
    BY <1>3, BehindIs DEF Entrypoint, InitTelemetry, LoadSpec, Isolation, Goto, counters
  <2>2. ~clone
    BY <1>0, <2>1 DEF EndsOK
  <2> QED BY <1>1, <2>1, <2>2
<1>4. CASE ResolveLocal \/ Clone \/ Checkout \/ Digests \/ ReadFile \/ Parsed \/ Measure
  <2>1. /\ pc \in Stages /\ UNCHANGED <<failures, records, exit>>
        /\ pc' \in {"checkout", "digests", "parse", "measure", "score"}
    BY <1>4, BehindIs
       DEF ResolveLocal, Clone, Checkout, Digests, ReadFile, Parsed, Measure, Goto, counters
  <2> QED BY <1>1, <2>1, BehindIs
<1>5. CASE Score \/ WriteOutputs
  <2>1. /\ pc \in Stages /\ pc' \in Stages /\ UNCHANGED <<failures, records, exit>>
        /\ ~clone' \/ (clone' = clone /\ pc = "write")
    BY <1>5, BehindIs DEF Score, WriteOutputs, Goto, counters
  <2>2. pc = "write" => ~clone
    BY <1>0, <2>1 DEF EndsOK
  <2> QED BY <1>1, <2>1, <2>2
<1>6. CASE \/ EntrypointFails \/ LoadSpecFails \/ IsolationFails \/ GitFails
           \/ DigestsFail \/ AnalysisFails \/ ScoreFails \/ WriteFails
  <2>1. pc \in Stages /\ pc' = "ended" /\ ~clone' /\ env' = env /\ records' = records
    BY <1>6, BehindIs
       DEF EntrypointFails, LoadSpecFails, IsolationFails, GitFails, DigestsFail, AnalysisFails,
           ScoreFails, WriteFails, End, image
  <2>2. \/ exit' \in ExitCodes /\ failures' = Inc(failures, env)
        \/ exit' = "traceback"
    BY <1>6
       DEF EntrypointFails, LoadSpecFails, IsolationFails, GitFails, DigestsFail, AnalysisFails,
           ScoreFails, WriteFails, End, ExitCodes
  <2> QED BY <1>0, <1>2, <2>1, <2>2
<1>7. CASE Finish
  <2>1. /\ pc = "total" /\ pc' = "ended" /\ exit' = "ok" /\ clone' = clone /\ env' = env
        /\ failures' = failures /\ records' = Inc(records, env)
    BY <1>7, AllTimed DEF Finish, image
  <2>2. ~clone /\ failures' = 0 /\ records' = Inc(0, env)
    BY <1>0, <2>1, BehindIs DEF EndsOK
  <2>3. Inc(0, env)' = Inc(0, env)
    BY <2>1 DEF Inc
  <2> QED BY <2>1, <2>2, <2>3 DEF EndsOK, CountedOnce, TimingsInOrder, ExitCodes
<1>8. CASE Kill
  BY <1>8 DEF Kill, EndsOK, CountedOnce, TimingsInOrder, ExitCodes
<1>9. CASE \/ \E f \in Files, v \in Values : Save(f, v)
           \/ \E c \in Commits : SwitchTo(c)
           \/ UNCHANGED vars
  <2>1. UNCHANGED <<pc, clone, env, failures, records, exit>>
    BY <1>9 DEF Save, SwitchTo, vars, image, counters
  <2> QED BY <2>1 DEF EndsOK, CountedOnce, TimingsInOrder, Inc
<1> QED BY <1>3, <1>4, <1>5, <1>6, <1>7, <1>8, <1>9 DEF Next, Stage

-----------------------------------------------------------------------------
(* The registry and the digests.                                           *)

LEMMA ImageStays == ASSUME [Next]_vars PROVE args' = args /\ env' = env /\ on_disk' = on_disk
<1>1. ASSUME NEW code, NEW counted, End(code, counted) PROVE UNCHANGED image
  BY <1>1 DEF End
<1>2. ASSUME NEW stage, Goto(stage) PROVE UNCHANGED image
  BY <1>2 DEF Goto
<1>3. CASE \/ Entrypoint \/ InitTelemetry \/ LoadSpec \/ Isolation \/ ResolveLocal \/ Clone
           \/ Checkout \/ Digests \/ ReadFile \/ Parsed \/ Measure \/ Score \/ WriteOutputs \/ Finish
  BY <1>2, <1>3 DEF Entrypoint, InitTelemetry, LoadSpec, Isolation, ResolveLocal, Clone, Checkout,
                    Digests, ReadFile, Parsed, Measure, Score, WriteOutputs, Finish, image
<1>4. CASE \/ EntrypointFails \/ LoadSpecFails \/ IsolationFails \/ GitFails
           \/ DigestsFail \/ AnalysisFails \/ ScoreFails \/ WriteFails \/ Kill
  BY <1>4
     DEF EntrypointFails, LoadSpecFails, IsolationFails, GitFails, DigestsFail, AnalysisFails,
         ScoreFails, WriteFails, End, Kill, image
<1>5. CASE \/ \E f \in Files, v \in Values : Save(f, v)
           \/ \E c \in Commits : SwitchTo(c)
           \/ UNCHANGED vars
  BY <1>5 DEF Save, SwitchTo, vars, image
<1> QED BY <1>3, <1>4, <1>5 DEF Next, Stage, image

LEMMA RegistryNext == EndsOK /\ RegistryOK /\ [Next]_vars => RegistryOK'
<1> SUFFICES ASSUME EndsOK, RegistryOK, [Next]_vars PROVE RegistryOK'
  OBVIOUS
<1>0. /\ args' = args /\ env' = env /\ on_disk' = on_disk /\ Binaries(env)' = Binaries(env)
      /\ args \in Arguments /\ env \in Environments /\ on_disk \in Binaries(env)
  BY ImageStays DEF RegistryOK, Binaries
<1>r. <<DefaultRegistry>> # << >> /\ <<ProductionRegistry>> # << >>
  OBVIOUS
<1>1. CASE Entrypoint
  <2>1. /\ pc = "entrypoint" /\ pc' = "init_otel" /\ UNCHANGED <<read, record>>
        /\ registry' = <<RegisterProductionBackends(GetRegistry(registry)[1])>>
    BY <1>1 DEF Entrypoint, Goto, results
  <2>2. registry' = <<ProductionRegistry>>
    BY <2>1 DEF RegistryOK, GetRegistry, ProductionRegistry
  <2>3. read = << >> /\ record = None
    BY <2>1, BehindIs DEF RegistryOK, Checked
  <2> QED BY <1>0, <1>r, <2>1, <2>2, <2>3 DEF RegistryOK, Checked
<1>2. CASE \/ InitTelemetry \/ LoadSpec \/ Isolation \/ ResolveLocal \/ Clone \/ Checkout
  <2>1. /\ pc \in Stages \ Checked /\ pc # "entrypoint" /\ pc' \in Stages \ Checked
        /\ pc' # "entrypoint"
    BY <1>2, BehindIs
       DEF InitTelemetry, LoadSpec, Isolation, ResolveLocal, Clone, Checkout, Goto, Checked
  <2>2. UNCHANGED <<registry, read, record>>
    BY <1>2 DEF InitTelemetry, LoadSpec, Isolation, ResolveLocal, Clone, Checkout, Goto, process,
                results
  <2>3. pc' \notin Checked
    BY <2>1
  <2> QED BY <1>0, <2>1, <2>2, <2>3 DEF RegistryOK
<1>3. CASE Digests
  <2>1. /\ pc = "digests" /\ pc' = "parse" /\ registry' = GetRegistry(registry)
        /\ args.verify_digests => AssertDigests(registry'[1], tool_digests, on_disk) = "ok"
        /\ UNCHANGED <<read, record>>
    BY <1>3 DEF Digests, Goto, results
  <2>2. /\ registry' \in {<<DefaultRegistry>>, <<ProductionRegistry>>}
        /\ env.production => registry' = <<ProductionRegistry>>
    BY <1>r, <2>1, BehindIs DEF RegistryOK, GetRegistry
  <2>3. ASSUME args.verify_digests, env.production
        PROVE  \A b \in DOMAIN on_disk : on_disk[b] = tool_digests[b]
    <3>1. on_disk \in [{"lizard", "scc"} -> {"pinned", "other"}]
      BY <1>0, <2>3 DEF Binaries
    <3>2. AssertDigests(ProductionRegistry, tool_digests, on_disk) = "ok"
      BY <2>1, <2>2, <2>3
    <3> QED BY <3>1, <3>2, AssertedArePinned
  <2>4. tool_digests' = tool_digests
    BY DEF tool_digests
  <2> QED BY <1>0, <1>r, <2>1, <2>2, <2>3, <2>4, BehindIs DEF RegistryOK, Checked
<1>4. CASE ReadFile \/ Parsed \/ Measure \/ Score \/ WriteOutputs
  <2>1. pc \in Checked /\ pc' \in Checked /\ registry' = registry
    BY <1>4 DEF ReadFile, Parsed, Measure, Score, WriteOutputs, Goto, Checked, process
  <2>2. pc' # "entrypoint" /\ pc' \notin Stages \ Checked /\ pc \in Stages \ {"entrypoint"}
    BY <2>1, BehindIs DEF Checked
  <2> QED BY <1>0, <2>1, <2>2 DEF RegistryOK
<1>5. CASE \/ EntrypointFails \/ LoadSpecFails \/ IsolationFails \/ GitFails
           \/ DigestsFail \/ AnalysisFails \/ ScoreFails \/ WriteFails \/ Finish \/ Kill
  <2>1. pc' = "ended" /\ UNCHANGED <<registry, read, record>>
    BY <1>5
       DEF EntrypointFails, LoadSpecFails, IsolationFails, GitFails, DigestsFail, AnalysisFails,
           ScoreFails, WriteFails, End, Finish, Kill, process, results
  <2>2. pc' \notin Stages /\ pc' \notin Checked /\ pc' # "entrypoint"
    BY <2>1, BehindIs DEF Checked
  <2> QED BY <1>0, <2>1, <2>2 DEF RegistryOK
<1>6. CASE \/ \E f \in Files, v \in Values : Save(f, v)
           \/ \E c \in Commits : SwitchTo(c)
           \/ UNCHANGED vars
  <2>1. UNCHANGED <<pc, registry, read, record>>
    BY <1>6 DEF Save, SwitchTo, vars, process, results
  <2> QED BY <1>0, <2>1 DEF RegistryOK
<1> QED BY <1>1, <1>2, <1>3, <1>4, <1>5, <1>6 DEF Next, Stage

-----------------------------------------------------------------------------
(* What is read and measured.                                              *)

(* The files of a commit, as the built-in backends measure them.           *)
LEMMA MeasuredIsExpected ==
    ASSUME NEW c \in Commits, read \in Seq([text : Values, backend : Builtin]),
           Len(read) = Len(Sources), \A i \in 1..Len(read) : read[i].text = Tree[c][i]
    PROVE  Max({0} \cup {MeasuredBy(read[i]) : i \in 1..Len(read)}) = Expected(c)
<1>1. \A i \in 1..Len(read) : MeasuredBy(read[i]) = Tree[c][i]
  <2> TAKE i \in 1..Len(read)
  <2>1. read[i] \in [text : Values, backend : Builtin]
    BY ElementOfSeq
  <2>2. read[i].backend \notin {"lizard", "scc"}
    BY <2>1 DEF Builtin
  <2> QED BY <2>2 DEF MeasuredBy
<1>2. {MeasuredBy(read[i]) : i \in 1..Len(read)} = {Tree[c][f] : f \in Files}
  BY <1>1 DEF Files
<1> QED BY <1>2 DEF Expected

LEMMA ReadNext == EndsOK /\ RegistryOK /\ ReadOK /\ [Next]_vars => ReadOK'
<1> SUFFICES ASSUME EndsOK, RegistryOK, ReadOK, [Next]_vars PROVE ReadOK'
  OBVIOUS
<1>0. args' = args /\ args \in Arguments /\ args.commit \in Commits \cup {None}
  BY ImageStays DEF RegistryOK, Arguments
<1>t. /\ read \in Seq([text : Values, backend : Builtin]) /\ Len(read) \in Nat
      /\ Len(read) <= Len(Sources) /\ head \in Commits /\ tree \in [Files -> Values]
  BY DEF ReadOK
<1>1. CASE \/ Entrypoint \/ InitTelemetry \/ LoadSpec \/ Isolation \/ Clone
  <2>1. /\ pc' \in {"init_otel", "load_spec", "isolation", "git", "checkout"}
        /\ UNCHANGED <<read, metrics, record, head, tree, clean, commit_sha>>
    BY <1>1 DEF Entrypoint, InitTelemetry, LoadSpec, Isolation, Clone, Goto, results, checkout
  <2>2. pc \in Stages \ {"write", "total"}
    BY <1>1, BehindIs DEF Entrypoint, InitTelemetry, LoadSpec, Isolation, Clone
  <2>3. pc' = "checkout" => args.remote /\ args.commit \in Commits
    BY <1>0, <1>1 DEF Entrypoint, InitTelemetry, LoadSpec, Isolation, Clone, Goto
  <2> QED BY <1>0, <1>t, <2>1, <2>2, <2>3 DEF ReadOK, Prepared, CleanRunsReproduce
<1>2. CASE ResolveLocal \/ Checkout
  <2>1. /\ pc \in {"git", "checkout"} /\ pc' = "digests"
        /\ UNCHANGED <<read, metrics, record, head, tree>>
    BY <1>2 DEF ResolveLocal, Checkout, Goto, checkout
  <2>2. read = << >> /\ record = None
    BY <2>1, BehindIs DEF RegistryOK, Checked
  <2>3. ~args.remote /\ clean' => tree = Tree[commit_sha']
    BY <1>2 DEF ResolveLocal, Checkout, ReadOK
  <2>4. commit_sha' \in Commits
    BY <1>0, <1>2, <1>t DEF ResolveLocal, Checkout, ReadOK
  <2>5. Len(read) = 0
    BY <2>2
  <2> QED BY <1>0, <1>t, <2>1, <2>2, <2>3, <2>4, <2>5 DEF ReadOK, Prepared, CleanRunsReproduce
<1>3. CASE Digests
  <2>1. /\ pc = "digests" /\ pc' = "parse"
        /\ UNCHANGED <<read, metrics, record, head, tree, clean, commit_sha>>
    BY <1>3 DEF Digests, Goto, results, checkout
  <2>2. pc \in Prepared /\ record = None
    BY <2>1, BehindIs DEF Prepared, ReadOK
  <2> QED BY <1>0, <1>t, <2>1, <2>2 DEF ReadOK, Untouched, CleanRunsReproduce
<1>4. CASE ReadFile
  <2> DEFINE next == Len(read) + 1
             files == IF args.remote THEN Tree[commit_sha] ELSE tree
             backend == Resolve(registry[1], Sources[next], Unset).name
             new == [text |-> files[next], backend |-> backend]
  <2>1. /\ pc = "parse" /\ pc' = "parse" /\ Len(read) < Len(Sources) /\ read' = Append(read, new)
        /\ UNCHANGED <<metrics, record, head, tree, clean, commit_sha>>
    <3>1. Len(read) < Listed /\ Len(Sources) \in Nat
      BY <1>4, RunAssumption DEF ReadFile
    <3>2. Len(read) < Len(Sources)
      BY <1>t, <3>1 DEF Listed
    <3> QED BY <1>4, <3>2 DEF ReadFile, Goto, checkout
  <2>2. /\ commit_sha \in Commits /\ record = None
        /\ ~args.remote /\ clean => tree = Tree[commit_sha]
        /\ Untouched => \A i \in 1..Len(read) : read[i].text = Tree[commit_sha][i]
    BY <2>1, BehindIs DEF ReadOK, Prepared
  <2>3. next \in Files /\ Len(Sources) \in Nat
    BY <1>t, <2>1, RunAssumption DEF Files
  <2>4. backend \in Builtin
    <3>1. registry[1] \in {DefaultRegistry, ProductionRegistry}
      BY <2>1 DEF RegistryOK, Checked
    <3>2. Sources[next] \in {"python", "typescript"}
      BY <2>3, RunAssumption DEF Files
    <3> QED BY <3>1, <3>2, BuiltinResolved
  <2>5. files[next] \in Values /\ (Untouched => files[next] = Tree[commit_sha][next])
    <3>1. Tree[commit_sha] \in [Files -> Values]
      BY <2>2, RunAssumption DEF Files
    <3> QED BY <1>t, <2>2, <2>3, <3>1 DEF Untouched
  <2> HIDE DEF backend, files
  <2>6. new \in [text : Values, backend : Builtin] /\ new.text = files[next]
    BY <2>4, <2>5
  <2> HIDE DEF new
  <2>7. /\ read' \in Seq([text : Values, backend : Builtin])
        /\ Len(read') = next /\ read'[next] = new
        /\ \A i \in 1..Len(read) : read'[i] = read[i]
    BY <1>t, <2>1, <2>6, Appended
  <2>8. Untouched => \A i \in 1..Len(read') : read'[i].text = Tree[commit_sha][i]
    BY <1>t, <2>2, <2>5, <2>6, <2>7
  <2>9. Untouched' <=> Untouched
    BY <1>0, <2>1 DEF Untouched
  <2> QED BY <1>0, <1>t, <2>1, <2>2, <2>3, <2>7, <2>8, <2>9 DEF ReadOK, CleanRunsReproduce
<1>5. CASE Parsed
  <2>1. /\ pc = "parse" /\ pc' = "measure" /\ Len(read) = Listed
        /\ UNCHANGED <<read, metrics, record, head, tree, clean, commit_sha>>
    BY <1>5 DEF Parsed, Goto, results, checkout
  <2>2. pc \in Prepared /\ record = None
    BY <2>1, BehindIs DEF Prepared, ReadOK
  <2>3. Listed' = Listed
    BY <1>0 DEF Listed
  <2> QED BY <1>0, <1>t, <2>1, <2>2, <2>3 DEF ReadOK, Untouched, CleanRunsReproduce
<1>6. CASE Measure
  <2>1. /\ pc = "measure" /\ pc' = "score"
        /\ metrics' = Max({0} \cup {MeasuredBy(read[i]) : i \in 1..Len(read)})
        /\ UNCHANGED <<read, record, head, tree, clean, commit_sha>>
    BY <1>6 DEF Measure, Goto, checkout
  <2>2. pc \in Prepared /\ record = None /\ commit_sha \in Commits /\ Len(read) = Listed
    BY <2>1, BehindIs DEF Prepared, ReadOK
  <2>3. Untouched => metrics' = Expected(commit_sha)
    <3>1. Untouched => Listed = Len(Sources)
      BY DEF Untouched, Listed
    <3>2. Untouched => \A i \in 1..Len(read) : read[i].text = Tree[commit_sha][i]
      BY <2>2 DEF ReadOK
    <3> QED BY <1>t, <2>1, <2>2, <3>1, <3>2, MeasuredIsExpected
  <2>4. Expected(commit_sha)' = Expected(commit_sha)
    BY <2>1 DEF Expected
  <2> QED BY <1>0, <1>t, <2>1, <2>2, <2>3, <2>4 DEF ReadOK, Untouched, CleanRunsReproduce
<1>7. CASE Score
  <2>1. /\ pc = "score" /\ pc' = "write"
        /\ record' = [commit_sha |-> commit_sha, metrics |-> metrics]
        /\ UNCHANGED <<read, head, tree, clean, commit_sha, metrics>>
    BY <1>7 DEF Score, Goto, checkout
  <2>2. Untouched => metrics = Expected(commit_sha)
    BY <2>1 DEF ReadOK
  <2>3. record'.commit_sha = commit_sha /\ record'.metrics = metrics
    BY <2>1
  <2>4. CleanRunsReproduce'
    BY <1>0, <2>1, <2>2, <2>3 DEF CleanRunsReproduce, Untouched, Expected
  <2> QED BY <1>0, <1>t, <2>1, <2>4 DEF ReadOK, Prepared
<1>8. CASE WriteOutputs
  <2>1. /\ pc = "write" /\ pc' = "total"
        /\ UNCHANGED <<read, metrics, record, head, tree, clean, commit_sha>>
    BY <1>8 DEF WriteOutputs, Goto, results, checkout
  <2> QED BY <1>0, <1>t, <2>1 DEF ReadOK, Prepared, CleanRunsReproduce, Expected
<1>9. CASE \/ EntrypointFails \/ LoadSpecFails \/ IsolationFails \/ GitFails
           \/ DigestsFail \/ AnalysisFails \/ ScoreFails \/ WriteFails \/ Finish \/ Kill
  <2>1. pc' = "ended" /\ UNCHANGED <<read, metrics, record, head, tree, clean, commit_sha>>
    BY <1>9
       DEF EntrypointFails, LoadSpecFails, IsolationFails, GitFails, DigestsFail, AnalysisFails,
           ScoreFails, WriteFails, End, Finish, Kill, checkout, results
  <2>2. pc' \notin Stages
    BY <2>1, BehindIs
  <2> QED BY <1>0, <1>t, <2>1, <2>2 DEF ReadOK, Prepared, CleanRunsReproduce, Expected
<1>10. CASE (\E f \in Files, v \in Values : Save(f, v)) \/ (\E c \in Commits : SwitchTo(c))
  <2>1. ~clean' /\ UNCHANGED <<pc, read, metrics, record, commit_sha>>
    BY <1>10 DEF Save, SwitchTo, results
  <2>2. head' \in Commits /\ tree' \in [Files -> Values]
    <3>1. ASSUME NEW f \in Files, NEW v \in Values, Save(f, v)
          PROVE  head' \in Commits /\ tree' \in [Files -> Values]
      BY <1>t, <3>1 DEF Save
    <3>2. ASSUME NEW c \in Commits, SwitchTo(c)
          PROVE  head' \in Commits /\ tree' \in [Files -> Values]
      BY <3>2, RunAssumption DEF SwitchTo, Files
    <3> QED BY <1>10, <3>1, <3>2
  <2>3. Listed' = Listed
    BY <1>0 DEF Listed
  <2> QED BY <1>0, <1>t, <2>1, <2>2, <2>3 DEF ReadOK, Untouched, CleanRunsReproduce, Expected
<1>11. CASE UNCHANGED vars
  BY <1>11 DEF vars, results, checkout, image, ReadOK, Untouched, CleanRunsReproduce, Expected,
               Listed
<1> QED BY <1>1, <1>2, <1>3, <1>4, <1>5, <1>6, <1>7, <1>8, <1>9, <1>10, <1>11 DEF Next, Stage

-----------------------------------------------------------------------------
(* The theorems.                                                           *)

LEMMA IInvInit == Init => IInv
<1> SUFFICES ASSUME Init PROVE IInv
  OBVIOUS
<1>0. /\ timings = << >> /\ spans = << >> /\ read = << >> /\ exit = "none" /\ clone = FALSE
      /\ failures = 0 /\ records = 0 /\ record = None /\ registry = << >>
      /\ pc \in {"entrypoint", "init_otel"} /\ (env.production => pc = "entrypoint")
  BY DEF Init
<1>1. pc \in Stages /\ Behind[pc] = 0 /\ pc # "ended"
  BY <1>0, BehindIs
<1>2. TraceOK
  <2>1. Len(timings) = 0 /\ Len(spans) = 0 /\ timings \in Seq(Names) /\ spans \in Seq(Names)
    BY <1>0
  <2> QED BY <1>0, <1>1, <2>1 DEF TraceOK, Follows
<1>3. EndsOK
  BY <1>0, <1>1 DEF EndsOK, CountedOnce, TimingsInOrder, ExitCodes
<1>4. RegistryOK
  <2>1. args \in Arguments /\ env \in Environments /\ on_disk \in Binaries(env)
    BY DEF Init
  <2> QED BY <1>0, <2>1 DEF RegistryOK, Checked
<1>5. ReadOK
  <2>1. head \in Commits /\ tree \in [Files -> Values]
    BY RunAssumption DEF Init, Files
  <2>2. read \in Seq([text : Values, backend : Builtin]) /\ Len(read) = 0 /\ Len(read) <= Len(Sources)
    BY <1>0, RunAssumption
  <2> QED BY <1>0, <2>1, <2>2 DEF ReadOK, Prepared, CleanRunsReproduce
<1> QED BY <1>2, <1>3, <1>4, <1>5 DEF IInv

LEMMA IInvHolds == Spec => []IInv
<1>1. IInv /\ [Next]_vars => IInv'
  BY TraceNext, EndsNext, RegistryNext, ReadNext DEF IInv
<1> QED BY <1>1, IInvInit, PTL DEF Spec

(* The ExitStack of _score removes the temporary clone on every way out,   *)
(* and before the outputs are written.                                     *)
THEOREM CloneRemovedHolds == Spec => []CloneRemoved
<1>1. IInv => CloneRemoved
  <2> SUFFICES ASSUME IInv, pc \in {"write", "total"} \/ (pc = "ended" /\ exit # "killed")
               PROVE  ~clone
    BY DEF CloneRemoved
  <2>1. pc \in {"write", "total"} => exit = "none"
    BY DEF IInv, EndsOK
  <2> QED BY <2>1 DEF IInv, EndsOK
<1> QED BY <1>1, IInvHolds, PTL

(* The assertion on the timings before the exit with code 0 never fails.   *)
THEOREM TimingsInOrderHolds == Spec => []TimingsInOrder
<1>1. IInv => TimingsInOrder
  BY DEF IInv, EndsOK
<1> QED BY <1>1, IInvHolds, PTL

(* Every exit code is counted exactly once, as a failure or as a record.   *)
THEOREM CountedOnceHolds == Spec => []CountedOnce
<1>1. IInv => CountedOnce
  BY DEF IInv, EndsOK
<1> QED BY <1>1, IInvHolds, PTL

(* The spans of every run are those of its stages, in their order.         *)
THEOREM SpansFollowStagesHolds == Spec => []SpansFollowStages
<1>1. IInv => SpansFollowStages
  <2> SUFFICES ASSUME IInv PROVE SpansFollowStages
    OBVIOUS
  <2> DEFINE n == Len(spans)
  <2>1. /\ spans \in Seq(Names) /\ n \in Nat /\ n <= 6
        /\ \A i \in 1..n : spans[i] = ALLOWED_SPAN_NAMES[i]
    <3>1. Follows(spans, ALLOWED_SPAN_NAMES)
      BY DEF IInv, TraceOK
    <3>2. /\ spans \in Seq(Names) /\ Len(spans) <= 6
          /\ \A i \in 1..Len(spans) : spans[i] = ALLOWED_SPAN_NAMES[i]
      BY <3>1 DEF Follows
    <3>3. Len(spans) \in Nat
      BY <3>2
    <3> QED BY <3>2, <3>3
  <2>2. /\ timings \in Seq(Names) /\ Len(timings) \in Nat /\ Len(timings) <= 6
        /\ \A i \in 1..Len(timings) : timings[i] = StageOrder[i]
    <3>1. Follows(timings, StageOrder)
      BY DEF IInv, TraceOK
    <3>2. /\ timings \in Seq(Names) /\ Len(timings) <= 6
          /\ \A i \in 1..Len(timings) : timings[i] = StageOrder[i]
      BY <3>1 DEF Follows
    <3>3. Len(timings) \in Nat
      BY <3>2
    <3> QED BY <3>2, <3>3
  <2>3. spans = SubSeq(ALLOWED_SPAN_NAMES, 1, n)
    <3>1. /\ SubSeq(ALLOWED_SPAN_NAMES, 1, n) \in Seq(Names)
          /\ Len(SubSeq(ALLOWED_SPAN_NAMES, 1, n)) = n
          /\ \A i \in 1..n : SubSeq(ALLOWED_SPAN_NAMES, 1, n)[i] = ALLOWED_SPAN_NAMES[i]
      BY <2>1, NamesAre, SubSeqProperties
    <3> QED BY <2>1, <3>1, SeqEqual
  <2>4. CASE Recording(telemetry, env)
    <3>1. exit = "ok" => spans = ALLOWED_SPAN_NAMES
      <4> SUFFICES ASSUME exit = "ok" PROVE spans = ALLOWED_SPAN_NAMES
        OBVIOUS
      <4>1. n = 6
        BY <2>4 DEF IInv, TraceOK
      <4> QED BY <2>1, <4>1, NamesAre, SeqEqual
    <3>2. Len(timings) <= n
      BY <2>4 DEF IInv, TraceOK
    <3>3. ASSUME NEW i \in 1..Len(timings), timings[i] # "total"
          PROVE  \E k \in 1..n : spans[k] = timings[i]
      <4>1. i \in 1..5 /\ i \in 1..n
        <5>1. i # 6
          BY <2>2, <3>3, NamesAre
        <5> QED BY <2>1, <2>2, <3>2, <5>1
      <4> QED BY <2>1, <2>2, <4>1, NamesAre
    <3> QED BY <2>3, <2>4, <3>1, <3>3 DEF SpansFollowStages
  <2>5. CASE ~Recording(telemetry, env)
    <3>1. n = 0
      BY <2>5 DEF IInv, TraceOK
    <3>2. spans = << >>
      BY <2>1, <3>1
    <3> QED BY <2>3, <2>5, <3>2 DEF SpansFollowStages
  <2> QED BY <2>4, <2>5
<1> QED BY <1>1, IInvHolds, PTL

(* With --verify-digests nothing is read in a production image before both *)
(* of its binaries have the digests of the spec.                           *)
THEOREM PinnedVerifiedHolds == Spec => []PinnedVerified
<1>1. IInv => PinnedVerified
  BY DEF IInv, RegistryOK, PinnedVerified
<1> QED BY <1>1, IInvHolds, PTL

(* A remote run, and a local one on an untouched checkout of its commit,   *)
(* record the metrics of that commit, in every image and whatever happens  *)
(* around them.                                                            *)
THEOREM CleanRunsReproduceHolds == Spec => []CleanRunsReproduce
<1>1. IInv => CleanRunsReproduce
  BY DEF IInv, ReadOK
<1> QED BY <1>1, IInvHolds, PTL
=============================================================================
