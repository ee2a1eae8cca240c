---------------------------- MODULE OutputFiles ----------------------------
(***************************************************************************)
(* The output directory of `cce score`: every run writes the record, the   *)
(* raw metrics and the sidecar, in this order, each through a .tmp file    *)
(* that os.replace moves to its final name.                                *)
(*                                                                         *)
(* All runs here score the same tree of the same commit with the same      *)
(* spec, so they have the same record_hash and write the same three names. *)
(* The hash leaves computed_at, --repo and --mode out, which are in the    *)
(* record: records differ when computed_at does, and have different        *)
(* lengths when --repo or --mode do.  A file is an inode, and a name leads *)
(* to it: a process that opened a .tmp goes on writing to the same inode,  *)
(* from its beginning, after somebody else wrote or moved it.              *)
(***************************************************************************)
EXTENDS Naturals, FiniteSets

CONSTANTS Runs,       \* invocations of `cce score`
          Seconds,    \* values of computed_at
          Lengths,    \* how many bytes a record can have
          MaxActive,  \* how many runs may be under way at the same time
          MaxFaults,  \* bound: OSErrors and crashes in one behaviour
          None        \* a name that leads to no file; no exit yet

Files == 1..3    \* <record_hash>.json, <record_hash>.raw.json, <record_hash>.sha256
Record == 1
RawMetrics == 2
Sidecar == 3

(* An inode is named after the run that created it and the file it was for. *)
Inodes == Runs \X Files

ASSUME OutputAssumption ==
    /\ None \notin Runs \cup Inodes
    /\ Seconds \cap {"empty", "raw", "mixed"} = {}
    /\ Lengths \subseteq Nat \ {0}
    /\ MaxActive \in Nat
    /\ MaxFaults \in Nat

VARIABLES pc,           \* where each run is in _atomic_write
          file,         \* the file it is writing
          handle,       \* the inode it has open
          computed_at,  \* the time stamp in its record
          length,       \* of its record, with its --repo and --mode
          exit,         \* how it ended
          target,       \* final name -> inode
          tmp,          \* .tmp name -> inode
          data,         \* contents of each inode
          faults,       \* OSErrors and crashes so far
          last,         \* the run that ended last
          overlap       \* observer: two runs were under way at the same time

vars == <<pc, file, handle, computed_at, length, exit, target, tmp, data, faults, last, overlap>>

(* canonical_json_bytes(record), canonical_json_bytes(raw_payload) and the *)
(* sidecar text.  The sidecar's length does not vary: its second field is  *)
(* the length of the record whose digest it has.  The raw metrics are the  *)
(* same for all runs.  "mixed" is the beginning of one record and the end  *)
(* of another.                                                             *)
Contents == [text : {"empty", "raw", "mixed"} \cup Seconds, length : Nat]
Empty == [text |-> "empty", length |-> 0]
Raw == [text |-> "raw", length |-> 0]
Bytes(r) == IF file[r] = RawMetrics THEN Raw
            ELSE [text |-> computed_at[r], length |-> length[r]]

TypeOK ==
    /\ pc \in [Runs -> {"idle", "open", "write", "replace", "unlink", "ended"}]
    /\ file \in [Runs -> Files]
    /\ handle \in [Runs -> Inodes \cup {None}]
    /\ computed_at \in [Runs -> Seconds]
    /\ length \in [Runs -> Lengths]
    /\ exit \in [Runs -> {"none", "ok", "EXIT_WRITE", "crashed"}]
    /\ target \in [Files -> Inodes \cup {None}]
    /\ tmp \in [Files -> Inodes \cup {None}]
    /\ data \in [Inodes -> Contents]
    /\ faults \in 0..MaxFaults
    /\ last \in Runs \cup {None}
    /\ overlap \in BOOLEAN

Init ==
    /\ pc = [r \in Runs |-> "idle"]
    /\ file = [r \in Runs |-> Record]
    /\ handle = [r \in Runs |-> None]
    /\ computed_at \in [Runs -> Seconds]
    /\ length \in [Runs -> Lengths]
    /\ exit = [r \in Runs |-> "none"]
    /\ target = [f \in Files |-> None]
    /\ tmp = [f \in Files |-> None]
    /\ data = [i \in Inodes |-> Empty]
    /\ faults = 0
    /\ last = None
    /\ overlap = FALSE

Active == {r \in Runs : pc[r] \notin {"idle", "ended"}}

End(r, code) == /\ pc' = [pc EXCEPT ![r] = "ended"]
                /\ exit' = [exit EXCEPT ![r] = code]
                /\ last' = r

-----------------------------------------------------------------------------
(* _write_outputs is called. *)
Start(r) ==
    /\ pc[r] = "idle"
    /\ Cardinality(Active) < MaxActive
    /\ pc' = [pc EXCEPT ![r] = "open"]
    /\ overlap' = (overlap \/ Active # {})
    /\ UNCHANGED <<file, handle, computed_at, length, exit, target, tmp, data, faults, last>>

\* Seeded bug: the file is written under its final name.
OpenTarget(r) ==
    LET f == file[r]
        i == IF target[f] = None THEN <<r, f>> ELSE target[f]
    IN  /\ pc[r] = "open"
        /\ target' = [target EXCEPT ![f] = i]
        /\ tmp' = [tmp EXCEPT ![f] = i]
        /\ data' = [data EXCEPT ![i] = Empty]
        /\ handle' = [handle EXCEPT ![r] = i]
        /\ pc' = [pc EXCEPT ![r] = "write"]
        /\ UNCHANGED <<file, computed_at, length, exit, faults, last, overlap>>

(* write_bytes opens the .tmp file: created, or truncated if it is there. *)
Open(r) ==
    LET f == file[r]
        i == IF tmp[f] = None THEN <<r, f>> ELSE tmp[f]
    IN  /\ pc[r] = "open"
        /\ tmp' = [tmp EXCEPT ![f] = i]
        /\ data' = [data EXCEPT ![i] = Empty]
        /\ handle' = [handle EXCEPT ![r] = i]
        /\ pc' = [pc EXCEPT ![r] = "write"]
        /\ UNCHANGED <<file, computed_at, length, exit, target, faults, last, overlap>>

\* Seeded bug: the bytes are left in a buffer.
WriteUnflushed(r) ==
    /\ pc[r] = "write"
    /\ handle' = [handle EXCEPT ![r] = None]
    /\ pc' = [pc EXCEPT ![r] = "replace"]
    /\ UNCHANGED <<file, computed_at, length, exit, target, tmp, data, faults, last, overlap>>

(* What a file holds after bytes were written over its beginning: of the   *)
(* three files, only records can be of different lengths.                  *)
Written(f, old, bytes) ==
    IF f = Record /\ old.length > bytes.length
    THEN [text |-> "mixed", length |-> old.length]
    ELSE bytes

(* write_bytes writes and closes. *)
Write(r) ==
    /\ pc[r] = "write"
    /\ data' = [data EXCEPT ![handle[r]] = Written(file[r], @, Bytes(r))]
    /\ handle' = [handle EXCEPT ![r] = None]
    /\ pc' = [pc EXCEPT ![r] = "replace"]
    /\ UNCHANGED <<file, computed_at, length, exit, target, tmp, faults, last, overlap>>

(* The next file, or exit code 0 after the last one. *)
GoOn(r, f) ==
    IF f \in Files
    THEN /\ pc' = [pc EXCEPT ![r] = "open"]
         /\ file' = [file EXCEPT ![r] = f]
         /\ UNCHANGED <<exit, last>>
    ELSE End(r, "ok") /\ UNCHANGED file

\* Seeded bug: a sidecar that is already there is kept.
ReplaceKeepsSidecar(r) ==
    /\ pc[r] = "replace" /\ tmp[file[r]] # None
    /\ target' = IF file[r] = Sidecar /\ target[Sidecar] # None THEN target
                 ELSE [target EXCEPT ![file[r]] = tmp[file[r]]]
    /\ tmp' = [tmp EXCEPT ![file[r]] = None]
    /\ GoOn(r, file[r] + 1)
    /\ UNCHANGED <<handle, computed_at, length, data, faults, overlap>>

(* os.replace moves whatever the .tmp name leads to. *)
Replace(r) ==
    /\ pc[r] = "replace" /\ tmp[file[r]] # None
    /\ target' = [target EXCEPT ![file[r]] = tmp[file[r]]]
    /\ tmp' = [tmp EXCEPT ![file[r]] = None]
    /\ GoOn(r, file[r] + 1)
    /\ UNCHANGED <<handle, computed_at, length, data, faults, overlap>>

(* os.replace raises FileNotFoundError: somebody else moved the .tmp file. *)
ReplaceMissing(r) ==
    /\ pc[r] = "replace" /\ tmp[file[r]] = None
    /\ pc' = [pc EXCEPT ![r] = "unlink"]
    /\ UNCHANGED <<file, handle, computed_at, length, exit, target, tmp, data, faults, last, overlap>>

(* Any of the three raises OSError for a reason of its own (disk full). *)
WriteFails(r) ==
    /\ pc[r] \in {"open", "write", "replace"}
    /\ faults < MaxFaults
    /\ faults' = faults + 1
    /\ handle' = [handle EXCEPT ![r] = None]
    /\ pc' = [pc EXCEPT ![r] = "unlink"]
    /\ UNCHANGED <<file, computed_at, length, exit, target, tmp, data, last, overlap>>

(* tmp.unlink(missing_ok=True); the run ends with EXIT_WRITE. *)
Unlink(r) ==
    /\ pc[r] = "unlink"
    /\ tmp' = [tmp EXCEPT ![file[r]] = None]
    /\ End(r, "EXIT_WRITE")
    /\ UNCHANGED <<file, handle, computed_at, length, target, data, faults, overlap>>

(* The process is killed. *)
Crash(r) ==
    /\ r \in Active
    /\ faults < MaxFaults
    /\ faults' = faults + 1
    /\ handle' = [handle EXCEPT ![r] = None]
    /\ End(r, "crashed")
    /\ UNCHANGED <<file, computed_at, length, target, tmp, data, overlap>>

Next == \E r \in Runs : \/ Start(r) \/ Open(r) \/ Write(r)
                        \/ Replace(r) \/ ReplaceMissing(r)
                        \/ WriteFails(r) \/ Unlink(r) \/ Crash(r)

Spec == Init /\ [][Next]_vars

-----------------------------------------------------------------------------
(* `cce verify --record`: the hash is recomputed from the contents, which  *)
(* works for every whole record. *)
VerifyRecord == target[Record] # None /\ data[target[Record]].text \in Seconds

(* `cce verify --sidecar`: the sidecar has a digest, it is the digest of   *)
(* the bytes of the record beside it, and the record verifies.             *)
VerifySidecar ==
    /\ target[Sidecar] # None
    /\ data[target[Sidecar]] # Empty
    /\ VerifyRecord
    /\ data[target[Record]] = data[target[Sidecar]]

Whole(f) == target[f] # None => data[target[f]].text \notin {"empty", "mixed"}
AllWhole == \A f \in Files : Whole(f)

(* While runs follow one another, a file is whole whenever it is there     *)
(* under its final name, whoever fails or is killed at which step.         *)
TargetsWhole == ~overlap => AllWhole

(* Only a killed run leaves a .tmp file, and a run that ends with 0        *)
(* repairs what killed and failed runs before it left: the directory       *)
(* verifies and holds no .tmp file.                                        *)
RerunRepairs ==
    Active = {} =>
        /\ (\E f \in Files : tmp[f] # None) => \E r \in Runs : exit[r] = "crashed"
        /\ ~overlap /\ last # None /\ exit[last] = "ok" =>
              VerifySidecar /\ \A f \in Files : tmp[f] = None

(* The records of the runs that were started have different lengths.       *)
Begun == {r \in Runs : pc[r] # "idle"}
LengthsDiffer == \E r, s \in Begun : length[r] # length[s]

(* Runs that overlap may spoil each other's files for a while.  Once they  *)
(* have all ended, and none was killed or met an error of its own, the raw *)
(* metrics and the sidecar are whole, and so is the record unless the runs *)
(* had records of different lengths: then it may keep the end of a longer  *)
(* one for good, but it is not empty.                                      *)
WholeInTheEnd ==
    Active = {} /\ faults = 0 =>
        /\ Whole(RawMetrics) /\ Whole(Sidecar)
        /\ ~LengthsDiffer => Whole(Record)
        /\ target[Record] # None => data[target[Record]] # Empty

-----------------------------------------------------------------------------
(* What the documentation says, and overlapping runs do not give.          *)

(* "Atomic writes: write to a temp file, then os.replace() to target"      *)
(* (cli.py:383): when nothing went wrong and nobody is writing any more,   *)
(* every file is one that some run wrote.                                  *)
AtomicWrites == Active = {} /\ faults = 0 => AllWhole

(* "GNU coreutils sidecar -- works with `sha256sum -c`": when every run    *)
(* that was started ended with 0, the sidecar is the record's.             *)
SidecarWorks ==
    Active = {} /\ (\A r \in Runs : exit[r] \in {"none", "ok"}) /\ last # None
        => VerifySidecar

=============================================================================
