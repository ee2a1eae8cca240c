------------------------------ MODULE Registry ------------------------------
(***************************************************************************)
(* AnalyzerRegistry as a value: the entries in the order in which they     *)
(* were first registered, and the default backend of each language.  The   *)
(* process-wide _REGISTRY is << >> for None, or <<r>>.                     *)
(***************************************************************************)
EXTENDS Naturals, Sequences, FiniteSetsExt

Unset == "unset"   \* no digest key, no binary, no name

Entry(language, name, key) ==
    [language |-> language, name |-> name, tool_digest_key |-> key, binary |-> key]

EmptyRegistry == [entries |-> << >>, defaults |-> << >>]

Slots(r, language, name) ==
    {i \in 1..Len(r.entries) : r.entries[i].language = language /\ r.entries[i].name = name}

(* _defaults with the name of this entry for its language. *)
DefaultTo(r, entry) ==
    [language \in DOMAIN r.defaults \cup {entry.language} |->
        IF language = entry.language THEN entry.name ELSE r.defaults[language]]

\* Seeded bug: what is registered last becomes the default.
RegisterAsDefault(r, entry, default) ==
    LET slots == Slots(r, entry.language, entry.name)
    IN  [entries |-> IF slots = {} THEN Append(r.entries, entry)
                     ELSE [r.entries EXCEPT ![Min(slots)] = entry],
         defaults |-> DefaultTo(r, entry)]

(* An entry of the same language and name is replaced where it is. *)
Register(r, entry, default) ==
    LET slots == Slots(r, entry.language, entry.name)
    IN  [entries |-> IF slots = {} THEN Append(r.entries, entry)
                     ELSE [r.entries EXCEPT ![Min(slots)] = entry],
         defaults |-> IF default \/ entry.language \notin DOMAIN r.defaults
                      THEN DefaultTo(r, entry)
                      ELSE r.defaults]

(* The entry of that name, or of the default name; an unset one for the KeyError. *)
Resolve(r, language, backend_name) ==
    LET name == IF backend_name # Unset THEN backend_name
                ELSE IF language \in DOMAIN r.defaults THEN r.defaults[language] ELSE Unset
        slots == Slots(r, language, name)
    IN  IF slots = {} THEN Entry(language, Unset, Unset) ELSE r.entries[Min(slots)]

(* The entries that are looked at: the first one for each digest key.      *)
Pinned(r) ==
    {i \in 1..Len(r.entries) :
        /\ r.entries[i].tool_digest_key # Unset /\ r.entries[i].binary # Unset
        /\ \A j \in 1..(i - 1) : r.entries[j].tool_digest_key # r.entries[i].tool_digest_key}

(* What assert_tool_digest makes of one entry; a binary that is not there  *)
(* has no digest in on_disk and is a mismatch too.                         *)
DigestOf(entry, tool_digests, on_disk) ==
    IF entry.tool_digest_key \notin DOMAIN tool_digests THEN "missing"
    ELSE IF /\ entry.binary \in DOMAIN on_disk
            /\ on_disk[entry.binary] = tool_digests[entry.tool_digest_key] THEN "ok"
    ELSE "mismatch"

(* assert_digests: the first entry that is not as it should be decides     *)
(* between RuntimeError and ToolDigestMismatchError.                       *)
AssertDigests(r, tool_digests, on_disk) ==
    LET bad == {i \in Pinned(r) : DigestOf(r.entries[i], tool_digests, on_disk) # "ok"}
    IN  IF bad = {} THEN "ok" ELSE DigestOf(r.entries[Min(bad)], tool_digests, on_disk)

DefaultRegistry ==
    Register(Register(EmptyRegistry, Entry("python", "builtin_ast", Unset), TRUE),
             Entry("typescript", "builtin_tree_sitter", Unset), TRUE)

\* Seeded bug: the registry that is already there is not looked for.
GetFreshRegistry(registry) == <<DefaultRegistry>>

(* get_registry: created on first use. *)
GetRegistry(registry) == IF registry = << >> THEN <<DefaultRegistry>> ELSE registry

(* register_production_backends, with both binaries given. *)
RegisterProductionBackends(r) ==
    Register(Register(r, Entry("python", "lizard", "lizard"), FALSE),
             Entry("typescript", "scc", "scc"), FALSE)

=============================================================================
