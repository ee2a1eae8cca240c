----------------------------- MODULE Telemetry -----------------------------
(***************************************************************************)
(* cce.otel as a value: the flags _INITIALISED and _FORCE_NOOP and the     *)
(* exporter of the provider that was set.  An environment says which       *)
(* packages are installed (sdk: absent, broken or ok; prometheus) and      *)
(* which endpoints are set (unset or blank is FALSE).                      *)
(***************************************************************************)
EXTENDS Naturals, Sequences

PRD_SPAN_NAMES == <<"load_spec", "clone", "parse", "measure", "score">>
ALLOWED_SPAN_NAMES == Append(PRD_SPAN_NAMES, "write_outputs")

NotInitialised == [initialised |-> FALSE, force_noop |-> FALSE, exporter |-> "none"]

(* TRACES wins when both are set; the console is the last resort. *)
Exporter(env) ==
    CASE env.traces_endpoint -> "traces"
      [] ~env.traces_endpoint /\ env.generic_endpoint -> "generic"
      [] OTHER -> "console"

(* init_otel: once per process, and no exception leaves it.  A missing     *)
(* package and a constructor that raises both leave the no-op tracer.      *)
InitOtel(t, env) ==
    IF t.initialised THEN t
    ELSE [initialised |-> TRUE,
          force_noop |-> env.sdk # "ok",
          exporter |-> IF env.sdk = "ok" THEN Exporter(env) ELSE "none"]

(* get_tracer: a tracer of the SDK, or a no-op. *)
Recording(t, env) == ~t.force_noop /\ env.sdk # "absent" /\ t.exporter # "none"

(* A counter of _build_metrics; a _NoopMetric stays at 0. *)
Inc(counter, env) == IF env.prometheus THEN counter + 1 ELSE counter

=============================================================================
