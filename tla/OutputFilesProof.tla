-------------------------- MODULE OutputFilesProof --------------------------
(***************************************************************************)
(* What the output directory looks like whatever a run of `cce score`      *)
(* meets, for every set of runs and time stamps, every number of runs that *)
(* overlap and every number of faults.                                     *)
(***************************************************************************)
EXTENDS OutputFiles, TLAPS

-----------------------------------------------------------------------------
(* The inductive invariant.                                                *)

(* A run has an exit code exactly when it has ended, it has a file open    *)
(* while it writes, and it has not begun before it is started.             *)
RunsOK ==
    \A r \in Runs : /\ exit[r] = "none" <=> pc[r] # "ended"
                    /\ pc[r] = "idle" => file[r] = Record
                    /\ pc[r] = "write" => handle[r] \in Inodes /\ handle[r][2] = file[r]

(* Run r has created all it will ever create for file f.                   *)
Opened(r, f) == \/ pc[r] = "ended" \/ file[r] > f
                \/ file[r] = f /\ pc[r] \in {"write", "replace", "unlink"}

(* A name leads to an inode that was created for it, and the two names of  *)
(* a file never lead to the same one: what a run opens is no final file.   *)
NamesOK ==
    \A f \in Files :
        /\ \A i \in {target[f], tmp[f]} : i # None => i[2] = f /\ Opened(i[1], f)
        /\ tmp[f] # None => tmp[f] # target[f]

(* A .tmp file that is there belongs to a run that will move or remove it, *)
(* unless some run was killed.                                             *)
TmpOwned ==
    \A f \in Files : tmp[f] # None =>
        \/ \E r \in Runs : exit[r] = "crashed"
        \/ \E r \in Runs : file[r] = f /\ pc[r] \in {"write", "replace", "unlink"}

(* What run r writes to file f, and that it has left it in place.          *)
BytesOf(r, f) == IF f = RawMetrics THEN Raw ELSE [text |-> computed_at[r], length |-> length[r]]
InPlace(r, f) == target[f] # None /\ data[target[f]] = BytesOf(r, f) /\ tmp[f] = None

(* Where a run is that nobody interferes with.                             *)
AloneOK(r) ==
    /\ pc[r] \in {"open", "write", "replace"} => \A f \in Files : f < file[r] => InPlace(r, f)
    /\ pc[r] \in {"write", "replace"} => tmp[file[r]] # None
    /\ pc[r] = "write" => handle[r] = tmp[file[r]] /\ data[handle[r]] = Empty
    /\ pc[r] = "replace" => data[tmp[file[r]]] = Bytes(r)

(* Runs that follow one another.                                           *)
Sequential ==
    ~overlap =>
        /\ \A r, s \in Active : r = s
        /\ \A r \in Active : AloneOK(r)
        /\ AllWhole
        /\ Active = {} /\ last # None /\ exit[last] = "ok" => \A f \in Files : InPlace(last, f)

(* As long as there was no fault, whoever emptied a file is still there to *)
(* fill it.                                                                *)
WriterThere ==
    faults = 0 =>
        \A f \in Files : \A i \in {target[f], tmp[f]} :
            i # None /\ data[i] = Empty => \E r \in Runs : pc[r] = "write" /\ handle[r] = i

(* What an inode holds is as long as the record of some run that began, a  *)
(* file of no length is empty or the raw metrics, and only records get     *)
(* mixed, by runs whose records are of different lengths.                  *)
MixedOK ==
    \A i \in Inodes :
        /\ data[i].length = 0 \/ \E s \in Begun : data[i].length = length[s]
        /\ data[i].text = "empty" => data[i] = Empty
        /\ data[i].text = "mixed" => i[2] = Record /\ LengthsDiffer

IInv == TypeOK /\ RunsOK /\ NamesOK /\ TmpOwned /\ Sequential /\ WriterThere /\ MixedOK

-----------------------------------------------------------------------------
(* Types.                                                                  *)

LEMMA InodeFacts ==
    /\ None \notin Inodes /\ None \notin Runs
    /\ \A r \in Runs, f \in Files : <<r, f>> \in Inodes /\ <<r, f>>[1] = r /\ <<r, f>>[2] = f
    /\ \A i \in Inodes : i[1] \in Runs /\ i[2] \in Files /\ i = <<i[1], i[2]>>
  BY OutputAssumption DEF Inodes

LEMMA FileFacts ==
    /\ Record \in Files /\ Sidecar \in Files
    /\ \A f \in Files : f \in Nat /\ (f + 1 \in Files \/ f = Sidecar)
  BY DEF Files, Record, Sidecar

(* What a run writes has its own text and length, and is not empty.        *)
LEMMA BytesFacts ==
    ASSUME TypeOK, NEW r \in Runs
    PROVE  /\ Bytes(r) = BytesOf(r, file[r])
           /\ \A f \in Files : /\ BytesOf(r, f) \in Contents
                               /\ BytesOf(r, f).text \notin {"empty", "mixed"}
                               /\ BytesOf(r, f).length \in {0, length[r]}
                               /\ f # RawMetrics => BytesOf(r, f).length = length[r]
           /\ length[r] \in Nat /\ length[r] > 0
<1>1. computed_at[r] \in Seconds /\ length[r] \in Nat /\ length[r] > 0
  <2>1. computed_at[r] \in Seconds /\ length[r] \in Lengths
    BY DEF TypeOK
  <2>2. length[r] \in Nat \ {0}
    BY <2>1, OutputAssumption
  <2> QED BY <2>1, <2>2
<1>2. computed_at[r] \notin {"empty", "mixed"}
  <2>1. "empty" \notin Seconds /\ "mixed" \notin Seconds
    BY OutputAssumption
  <2> QED BY <1>1, <2>1
<1>3. Bytes(r) = BytesOf(r, file[r])
  BY DEF Bytes, BytesOf
<1>4. ASSUME NEW f \in Files
      PROVE  /\ BytesOf(r, f) \in Contents
             /\ BytesOf(r, f).text \notin {"empty", "mixed"}
             /\ BytesOf(r, f).length \in {0, length[r]}
             /\ f # RawMetrics => BytesOf(r, f).length = length[r]
  <2>1. CASE f = RawMetrics
    BY <2>1 DEF BytesOf, Raw, Contents
  <2>2. CASE f # RawMetrics
    BY <1>1, <1>2, <2>2 DEF BytesOf, Contents
  <2> QED BY <2>1, <2>2
<1> QED BY <1>1, <1>3, <1>4

(* What a write leaves: the bytes, or a mixture as long as the file was.   *)
LEMMA WrittenFacts ==
    ASSUME TypeOK, NEW r \in Runs, NEW old \in Contents
    PROVE  LET new == Written(file[r], old, Bytes(r))
           IN  /\ new \in Contents /\ new.text # "empty" /\ new # Empty
               /\ \/ new = Bytes(r)
                  \/ /\ new = [text |-> "mixed", length |-> old.length]
                     /\ file[r] = Record /\ old.length > length[r]
               /\ old = Empty => new = Bytes(r)
<1> DEFINE b == Bytes(r)
<1>1. /\ b \in Contents /\ b.text # "empty"
      /\ file[r] # RawMetrics => b.length = length[r]
      /\ length[r] \in Nat
  BY BytesFacts DEF TypeOK
<1>2. old.length \in Nat
  BY DEF Contents
<1> HIDE DEF b
<1>3. CASE file[r] = Record /\ old.length > b.length
  <2>1. Written(file[r], old, b) = [text |-> "mixed", length |-> old.length]
    BY <1>3 DEF Written
  <2>2. b.length = length[r]
    BY <1>1, <1>3 DEF Record, RawMetrics
  <2>3. old # Empty
    BY <1>1, <1>2, <1>3, <2>2 DEF Empty
  <2>4. [text |-> "mixed", length |-> old.length] \in Contents
    BY <1>2 DEF Contents
  <2>5. [text |-> "mixed", length |-> old.length] # Empty
    BY DEF Empty
  <2> QED BY <1>3, <2>1, <2>2, <2>3, <2>4, <2>5 DEF b
<1>4. CASE ~(file[r] = Record /\ old.length > b.length)
  <2>1. Written(file[r], old, b) = b
    BY <1>4 DEF Written
  <2>2. b # Empty
    BY <1>1 DEF Empty
  <2> QED BY <1>1, <2>1, <2>2 DEF b
<1> QED BY <1>3, <1>4

LEMMA TypeNext == TypeOK /\ [Next]_vars => TypeOK'
<1> SUFFICES ASSUME TypeOK, [Next]_vars PROVE TypeOK'
  OBVIOUS
<1> USE DEF TypeOK
<1>1. ASSUME NEW r \in Runs, Start(r) PROVE TypeOK'
  BY <1>1 DEF Start
<1>2. ASSUME NEW r \in Runs, Open(r) PROVE TypeOK'
  <2> DEFINE f == file[r]
             i == IF tmp[f] = None THEN <<r, f>> ELSE tmp[f]
  <2>1. f \in Files /\ i \in Inodes
    BY InodeFacts
  <2>2. Empty \in Contents
    BY DEF Contents, Empty
  <2> HIDE DEF i
  <2> QED BY <1>2, <2>1, <2>2 DEF Open, i
<1>3. ASSUME NEW r \in Runs, Write(r) PROVE TypeOK'
  <2>1. \A old \in Contents : Written(file[r], old, Bytes(r)) \in Contents
    BY WrittenFacts
  <2> QED BY <1>3, <2>1 DEF Write
<1>4. ASSUME NEW r \in Runs, Replace(r) PROVE TypeOK'
  <2>1. tmp[file[r]] \in Inodes \cup {None}
    OBVIOUS
  <2>2. /\ target' \in [Files -> Inodes \cup {None}]
        /\ tmp' \in [Files -> Inodes \cup {None}]
    BY <1>4, <2>1 DEF Replace
  <2>3. /\ pc' \in [Runs -> {"idle", "open", "write", "replace", "unlink", "ended"}]
        /\ file' \in [Runs -> Files]
        /\ exit' \in [Runs -> {"none", "ok", "EXIT_WRITE", "crashed"}]
        /\ last' \in Runs \cup {None}
    <3>1. CASE file[r] + 1 \in Files
      BY <1>4, <3>1 DEF Replace, GoOn
    <3>2. CASE file[r] + 1 \notin Files
      BY <1>4, <3>2 DEF Replace, GoOn, End
    <3> QED BY <3>1, <3>2
  <2> QED BY <1>4, <2>2, <2>3 DEF Replace
<1>5. ASSUME NEW r \in Runs, ReplaceMissing(r) PROVE TypeOK'
  BY <1>5 DEF ReplaceMissing
<1>6. ASSUME NEW r \in Runs, WriteFails(r) PROVE TypeOK'
  BY <1>6, OutputAssumption DEF WriteFails
<1>7. ASSUME NEW r \in Runs, Unlink(r) PROVE TypeOK'
  BY <1>7 DEF Unlink, End
<1>8. ASSUME NEW r \in Runs, Crash(r) PROVE TypeOK'
  BY <1>8, OutputAssumption DEF Crash, End
<1>9. CASE UNCHANGED vars
  BY <1>9 DEF vars
<1> QED BY <1>1, <1>2, <1>3, <1>4, <1>5, <1>6, <1>7, <1>8, <1>9 DEF Next

-----------------------------------------------------------------------------
(* The states of the runs and the names.                                   *)

LEMMA RunsNext == TypeOK /\ RunsOK /\ NamesOK /\ [Next]_vars => RunsOK'
<1> SUFFICES ASSUME TypeOK, RunsOK, NamesOK, [Next]_vars PROVE RunsOK'
  OBVIOUS
<1> USE DEF TypeOK, RunsOK
<1>1. ASSUME NEW r \in Runs, Start(r) PROVE RunsOK'
  BY <1>1 DEF Start
<1>2. ASSUME NEW r \in Runs, Open(r) PROVE RunsOK'
  <2> DEFINE i == IF tmp[file[r]] = None THEN <<r, file[r]>> ELSE tmp[file[r]]
  <2>1. i \in Inodes /\ i[2] = file[r]
    BY InodeFacts DEF NamesOK
  <2> HIDE DEF i
  <2> QED BY <1>2, <2>1 DEF Open, i
<1>3. ASSUME NEW r \in Runs, Write(r) PROVE RunsOK'
  BY <1>3 DEF Write
<1>4. ASSUME NEW r \in Runs, Replace(r) PROVE RunsOK'
  BY <1>4 DEF Replace, GoOn, End
<1>5. ASSUME NEW r \in Runs, ReplaceMissing(r) PROVE RunsOK'
  BY <1>5 DEF ReplaceMissing
<1>6. ASSUME NEW r \in Runs, WriteFails(r) PROVE RunsOK'
  BY <1>6 DEF WriteFails
<1>7. ASSUME NEW r \in Runs, Unlink(r) PROVE RunsOK'
  BY <1>7 DEF Unlink, End
<1>8. ASSUME NEW r \in Runs, Crash(r) PROVE RunsOK'
  BY <1>8 DEF Crash, End, Active
<1>9. CASE UNCHANGED vars
  BY <1>9 DEF vars
<1> QED BY <1>1, <1>2, <1>3, <1>4, <1>5, <1>6, <1>7, <1>8, <1>9 DEF Next

(* A step of a run never takes back that an inode was created.             *)
LEMMA OpenedStays ==
    ASSUME TypeOK, RunsOK, [Next]_vars, NEW s \in Runs, NEW f \in Files, Opened(s, f)
    PROVE  Opened(s, f)'
<1>0. /\ f \in Nat /\ \A r \in Runs : file[r] \in Nat
      /\ pc[s] = "idle" => file[s] = 1
  BY FileFacts DEF TypeOK, RunsOK, Record
<1>1. ASSUME NEW r \in Runs, Start(r) PROVE Opened(s, f)'
  <2>1. pc[r] = "idle" => ~(file[r] > f)
    BY <1>0 DEF RunsOK, Record, Files
  <2> QED BY <1>0, <1>1, <2>1 DEF Start, Opened, TypeOK
<1>2. ASSUME NEW r \in Runs, Open(r) \/ Write(r) \/ ReplaceMissing(r) \/ WriteFails(r)
      PROVE  Opened(s, f)'
  BY <1>0, <1>2 DEF Open, Write, ReplaceMissing, WriteFails, Opened, TypeOK
<1>3. ASSUME NEW r \in Runs, Replace(r) PROVE Opened(s, f)'
  BY <1>0, <1>3 DEF Replace, GoOn, End, Opened, TypeOK
<1>4. ASSUME NEW r \in Runs, Unlink(r) \/ Crash(r) PROVE Opened(s, f)'
  BY <1>0, <1>4 DEF Unlink, Crash, End, Opened, TypeOK
<1>5. CASE UNCHANGED vars
  BY <1>5 DEF vars, Opened
<1> QED BY <1>1, <1>2, <1>3, <1>4, <1>5 DEF Next

LEMMA NamesNext == TypeOK /\ RunsOK /\ NamesOK /\ [Next]_vars => NamesOK'
<1> SUFFICES ASSUME TypeOK, RunsOK, NamesOK, [Next]_vars, NEW f \in Files
             PROVE  /\ \A i \in {target'[f], tmp'[f]} : i # None => i[2] = f /\ Opened(i[1], f)'
                    /\ tmp'[f] # None => tmp'[f] # target'[f]
  BY DEF NamesOK
<1>0. \A i \in {target[f], tmp[f]} : i # None => i[2] = f /\ Opened(i[1], f)'
  <2>1. \A i \in {target[f], tmp[f]} : i # None => i[2] = f /\ i[1] \in Runs /\ Opened(i[1], f)
    BY InodeFacts DEF NamesOK, TypeOK
  <2> QED BY <2>1, OpenedStays
<1>1. ASSUME NEW r \in Runs, Open(r), f = file[r]
      PROVE  /\ \A i \in {target'[f], tmp'[f]} : i # None => i[2] = f /\ Opened(i[1], f)'
             /\ tmp'[f] # None => tmp'[f] # target'[f]
  <2>1. /\ target' = target /\ tmp'[f] = IF tmp[f] = None THEN <<r, f>> ELSE tmp[f]
        /\ pc'[r] = "write" /\ file'[r] = f /\ pc[r] = "open"
    BY <1>1 DEF Open, TypeOK
  <2>2. Opened(r, f)' /\ ~Opened(r, f)
    BY <1>1, <2>1, FileFacts DEF Opened
  <2>3. <<r, f>>[1] = r /\ <<r, f>>[2] = f
    OBVIOUS
  <2>4. target[f] # None => target[f] # <<r, f>>
    BY <2>2, <2>3 DEF NamesOK
  <2>5. tmp[f] # None => tmp[f] # target[f]
    BY DEF NamesOK
  <2> QED BY <1>0, <2>1, <2>2, <2>3, <2>4, <2>5, InodeFacts
<1>2. ASSUME NEW r \in Runs, Open(r), f # file[r] PROVE target'[f] = target[f] /\ tmp'[f] = tmp[f]
  BY <1>2 DEF Open, TypeOK
<1>3. ASSUME NEW r \in Runs, Replace(r)
      PROVE  \/ target'[f] = target[f] /\ tmp'[f] = tmp[f]
             \/ target'[f] = tmp[f] /\ tmp'[f] = None
  BY <1>3 DEF Replace, TypeOK
<1>4. ASSUME NEW r \in Runs, Unlink(r)
      PROVE  target'[f] = target[f] /\ tmp'[f] \in {tmp[f], None}
  BY <1>4 DEF Unlink, TypeOK
<1>5. ASSUME NEW r \in Runs,
             Start(r) \/ Write(r) \/ ReplaceMissing(r) \/ WriteFails(r) \/ Crash(r)
      PROVE  target' = target /\ tmp' = tmp
  BY <1>5 DEF Start, Write, ReplaceMissing, WriteFails, Crash
<1>6. CASE UNCHANGED vars
  BY <1>0, <1>6 DEF vars, NamesOK
<1>7. tmp[f] # None => tmp[f] # target[f]
  BY DEF NamesOK
<1> QED BY <1>0, <1>1, <1>2, <1>3, <1>4, <1>5, <1>6, <1>7 DEF Next

LEMMA TmpOwnedNext == TypeOK /\ RunsOK /\ TmpOwned /\ [Next]_vars => TmpOwned'
<1> SUFFICES ASSUME TypeOK, RunsOK, TmpOwned, [Next]_vars, NEW f \in Files, tmp'[f] # None
             PROVE  \/ \E r \in Runs : exit'[r] = "crashed"
                    \/ \E r \in Runs : file'[r] = f /\ pc'[r] \in {"write", "replace", "unlink"}
  BY DEF TmpOwned
<1> DEFINE Goal == \/ \E s \in Runs : exit'[s] = "crashed"
                   \/ \E s \in Runs : file'[s] = f /\ pc'[s] \in {"write", "replace", "unlink"}
           Held == \/ \E s \in Runs : exit[s] = "crashed"
                   \/ \E s \in Runs : file[s] = f /\ pc[s] \in {"write", "replace", "unlink"}
<1>0. tmp[f] # None => Held
  BY DEF TmpOwned
<1>1. ASSUME NEW r \in Runs, Open(r) PROVE Goal
  <2>1. CASE file[r] = f
    BY <1>1, <2>1 DEF Open, TypeOK
  <2>2. CASE file[r] # f
    <3>1. tmp[f] # None
      BY <1>1, <2>2 DEF Open, TypeOK
    <3> QED BY <1>0, <1>1, <3>1 DEF Open, TypeOK
  <2> QED BY <2>1, <2>2
<1>2. ASSUME NEW r \in Runs, Start(r) \/ Write(r) \/ ReplaceMissing(r) \/ WriteFails(r)
      PROVE  Goal
  <2>1. tmp[f] # None
    BY <1>2 DEF Start, Write, ReplaceMissing, WriteFails
  <2> QED BY <1>0, <1>2, <2>1 DEF Start, Write, ReplaceMissing, WriteFails, TypeOK
<1>3. ASSUME NEW r \in Runs, Replace(r) PROVE Goal
  <2>1. tmp[f] # None /\ file[r] # f
    BY <1>3 DEF Replace, TypeOK
  <2>2. pc[r] # "ended"
    BY <1>3 DEF Replace
  <2> QED BY <1>0, <1>3, <2>1, <2>2 DEF Replace, GoOn, End, TypeOK, RunsOK
<1>4. ASSUME NEW r \in Runs, Unlink(r) PROVE Goal
  <2>1. tmp[f] # None /\ file[r] # f
    BY <1>4 DEF Unlink, TypeOK
  <2>2. pc[r] # "ended"
    BY <1>4 DEF Unlink
  <2> QED BY <1>0, <1>4, <2>1, <2>2 DEF Unlink, End, TypeOK, RunsOK
<1>5. ASSUME NEW r \in Runs, Crash(r) PROVE Goal
  BY <1>5 DEF Crash, End, TypeOK
<1>6. CASE UNCHANGED vars
  BY <1>0, <1>6 DEF vars
<1> QED BY <1>1, <1>2, <1>3, <1>4, <1>5, <1>6 DEF Next

-----------------------------------------------------------------------------
(* Runs that overlap without a fault.                                      *)

LEMMA WriterThereNext == TypeOK /\ RunsOK /\ WriterThere /\ [Next]_vars => WriterThere'
<1> SUFFICES ASSUME TypeOK, RunsOK, WriterThere, [Next]_vars, faults' = 0,
                    NEW f \in Files, NEW i \in {target'[f], tmp'[f]},
                    i # None, data'[i] = Empty
             PROVE  \E s \in Runs : pc'[s] = "write" /\ handle'[s] = i
  BY DEF WriterThere
<1> DEFINE Goal == \E s \in Runs : pc'[s] = "write" /\ handle'[s] = i
<1>0. ASSUME faults = 0, i \in {target[f], tmp[f]}, data[i] = Empty
      PROVE  \E s \in Runs : pc[s] = "write" /\ handle[s] = i
  BY <1>0 DEF WriterThere
<1>1. ASSUME NEW r \in Runs, Open(r) PROVE Goal
  <2> DEFINE o == IF tmp[file[r]] = None THEN <<r, file[r]>> ELSE tmp[file[r]]
  <2>1. /\ pc'[r] = "write" /\ handle'[r] = o /\ faults = 0 /\ target' = target
        /\ tmp' = [tmp EXCEPT ![file[r]] = o] /\ data' = [data EXCEPT ![o] = Empty]
        /\ pc[r] = "open"
        /\ \A s \in Runs : s # r => pc'[s] = pc[s] /\ handle'[s] = handle[s]
    BY <1>1 DEF Open, TypeOK
  <2> HIDE DEF o
  <2>2. CASE i = o
    BY <2>1, <2>2
  <2>3. CASE i # o
    <3>1. i \in {target[f], tmp[f]} /\ data[i] = Empty
      BY <2>1, <2>3 DEF TypeOK
    <3>2. PICK s \in Runs : pc[s] = "write" /\ handle[s] = i
      BY <1>0, <2>1, <3>1
    <3> QED BY <2>1, <3>2
  <2> QED BY <2>2, <2>3
<1>2. ASSUME NEW r \in Runs, Write(r) PROVE Goal
  <2> DEFINE new == Written(file[r], data[handle[r]], Bytes(r))
  <2>1. /\ faults = 0 /\ target' = target /\ tmp' = tmp
        /\ data' = [data EXCEPT ![handle[r]] = new]
        /\ \A s \in Runs : s # r => pc'[s] = pc[s] /\ handle'[s] = handle[s]
    BY <1>2 DEF Write, TypeOK
  <2>2. handle[r] \in Inodes /\ new # Empty
    BY <1>2, WrittenFacts DEF Write, RunsOK, TypeOK
  <2> HIDE DEF new
  <2>3. i # handle[r] /\ data[i] = Empty
    BY <2>1, <2>2 DEF TypeOK
  <2>4. PICK s \in Runs : pc[s] = "write" /\ handle[s] = i
    BY <1>0, <2>1, <2>3
  <2> QED BY <2>1, <2>3, <2>4
<1>3. ASSUME NEW r \in Runs,
             Start(r) \/ Replace(r) \/ ReplaceMissing(r) \/ Unlink(r)
      PROVE  Goal
  <2>1. pc[r] # "write" /\ faults = 0 /\ data' = data /\ handle' = handle
    BY <1>3 DEF Start, Replace, ReplaceMissing, Unlink
  <2>2. \A s \in Runs : s # r => pc'[s] = pc[s]
    BY <1>3 DEF Start, Replace, GoOn, ReplaceMissing, Unlink, End, TypeOK
  <2>3. i \in {target[f], tmp[f]}
    BY <1>3 DEF Start, Replace, ReplaceMissing, Unlink, TypeOK
  <2>4. PICK s \in Runs : pc[s] = "write" /\ handle[s] = i
    BY <1>0, <2>1, <2>3
  <2> QED BY <2>1, <2>2, <2>4
<1>4. ASSUME NEW r \in Runs, WriteFails(r) \/ Crash(r) PROVE FALSE
  BY <1>4 DEF WriteFails, Crash, TypeOK
<1>5. CASE UNCHANGED vars
  BY <1>0, <1>5 DEF vars
<1> QED BY <1>1, <1>2, <1>3, <1>4, <1>5 DEF Next

(* A mixture has parts of two runs whose records differ in length.         *)
LEMMA MixedNext == TypeOK /\ RunsOK /\ MixedOK /\ [Next]_vars => MixedOK'
<1> SUFFICES ASSUME TypeOK, RunsOK, MixedOK, [Next]_vars PROVE MixedOK'
  OBVIOUS
<1>1. length' = length /\ Begun \subseteq Begun' /\ (LengthsDiffer => LengthsDiffer')
  <2>1. length' = length
    BY DEF Next, vars, Start, Open, Write, Replace, ReplaceMissing, WriteFails, Unlink, Crash
  <2>2. ASSUME NEW r \in Runs PROVE pc[r] # "idle" => pc'[r] # "idle"
    <3>1. CASE UNCHANGED vars
      BY <3>1 DEF vars
    <3>2. ASSUME NEW q \in Runs, Start(q) \/ Open(q) \/ Write(q) PROVE pc[r] # "idle" => pc'[r] # "idle"
      BY <3>2 DEF TypeOK, Start, Open, Write
    <3>3. ASSUME NEW q \in Runs, Replace(q) \/ ReplaceMissing(q) PROVE pc[r] # "idle" => pc'[r] # "idle"
      BY <3>3 DEF TypeOK, Replace, GoOn, End, ReplaceMissing
    <3>4. ASSUME NEW q \in Runs, WriteFails(q) \/ Unlink(q) \/ Crash(q) PROVE pc[r] # "idle" => pc'[r] # "idle"
      BY <3>4 DEF TypeOK, WriteFails, Unlink, End, Crash
    <3> QED BY <3>1, <3>2, <3>3, <3>4 DEF Next
  <2>3. Begun \subseteq Begun'
    BY <2>2 DEF Begun
  <2> QED BY <2>1, <2>3 DEF LengthsDiffer
<1>2. ASSUME NEW i \in Inodes, data'[i] = data[i] \/ data'[i] = Empty
      PROVE  /\ data'[i].length = 0 \/ \E s \in Begun' : data'[i].length = length'[s]
             /\ data'[i].text = "empty" => data'[i] = Empty
             /\ data'[i].text = "mixed" => i[2] = Record /\ LengthsDiffer'
  BY <1>1, <1>2 DEF MixedOK, Empty
<1>3. ASSUME NEW r \in Runs, Write(r), NEW i \in Inodes, i = handle[r]
      PROVE  /\ data'[i].length = 0 \/ \E s \in Begun' : data'[i].length = length'[s]
             /\ data'[i].text = "empty" => data'[i] = Empty
             /\ data'[i].text = "mixed" => i[2] = Record /\ LengthsDiffer'
  <2>1. /\ data[i] \in Contents /\ data'[i] = Written(file[r], data[i], Bytes(r))
        /\ i[2] = file[r] /\ r \in Begun /\ file[r] \in Files
    BY <1>3 DEF Write, TypeOK, RunsOK, Begun
  <2> DEFINE new == Written(file[r], data[i], Bytes(r))
  <2>2. /\ new.text # "empty"
        /\ \/ new = Bytes(r)
           \/ /\ new = [text |-> "mixed", length |-> data[i].length]
              /\ file[r] = Record /\ data[i].length > length[r]
    BY <2>1, WrittenFacts
  <2> HIDE DEF new
  <2>3. Bytes(r).length \in {0, length[r]} /\ Bytes(r).text # "mixed" /\ length[r] \in Nat
    BY <2>1, BytesFacts
  <2>4. CASE new = Bytes(r)
    BY <1>1, <2>1, <2>2, <2>3, <2>4 DEF new
  <2>5. CASE /\ new = [text |-> "mixed", length |-> data[i].length]
             /\ file[r] = Record /\ data[i].length > length[r]
    <3>1. ~(data[i].length = 0)
      BY <2>3, <2>5
    <3>2. PICK s \in Begun : data[i].length = length[s]
      BY <3>1 DEF MixedOK
    <3>3. length[s] # length[r]
      BY <2>3, <2>5, <3>2
    <3>4. LengthsDiffer
      BY <2>1, <3>2, <3>3 DEF LengthsDiffer
    <3>5. new.length = length[s] /\ s \in Begun'
      BY <1>1, <2>5, <3>2
    <3> QED BY <1>1, <2>1, <2>2, <2>5, <3>4, <3>5 DEF new
  <2> QED BY <2>2, <2>4, <2>5
<1>4. ASSUME NEW i \in Inodes
      PROVE  \/ data'[i] = data[i] \/ data'[i] = Empty
             \/ \E r \in Runs : Write(r) /\ i = handle[r]
  <2>1. ASSUME NEW r \in Runs, Open(r) PROVE data'[i] = data[i] \/ data'[i] = Empty
    BY <2>1 DEF Open, TypeOK
  <2>2. ASSUME NEW r \in Runs, Write(r), i # handle[r] PROVE data'[i] = data[i]
    BY <2>2 DEF Write, TypeOK
  <2>3. ASSUME NEW r \in Runs, \/ Start(r) \/ Replace(r) \/ ReplaceMissing(r)
                               \/ WriteFails(r) \/ Unlink(r) \/ Crash(r)
        PROVE  data' = data
    BY <2>3 DEF Start, Replace, ReplaceMissing, WriteFails, Unlink, Crash
  <2> QED BY <2>1, <2>2, <2>3 DEF Next, vars
<1> QED BY <1>2, <1>3, <1>4 DEF MixedOK

-----------------------------------------------------------------------------
(* Runs that follow one another.                                           *)

(* What Open, and only Open, empties is no final file.                     *)
LEMMA OpensNoTarget ==
    ASSUME TypeOK, NamesOK, NEW r \in Runs, Open(r), NEW f \in Files, target[f] # None
    PROVE  data'[target[f]] = data[target[f]]
<1> DEFINE o == IF tmp[file[r]] = None THEN <<r, file[r]>> ELSE tmp[file[r]]
<1>1. data' = [data EXCEPT ![o] = Empty] /\ pc[r] = "open" /\ file[r] \in Files
  BY DEF Open, TypeOK
<1>2. o # target[f]
  <2>1. target[f][2] = f /\ Opened(target[f][1], f)
    BY DEF NamesOK
  <2>2. CASE f # file[r]
    <3>1. o[2] = file[r]
      BY <1>1, InodeFacts DEF NamesOK
    <3> QED BY <2>1, <2>2, <3>1
  <2>3. CASE f = file[r] /\ tmp[f] = None
    <3>1. ~Opened(r, f)
      BY <1>1, <2>3, FileFacts DEF Opened
    <3>2. o = <<r, f>> /\ <<r, f>>[1] = r
      BY <2>3
    <3> QED BY <2>1, <3>1, <3>2
  <2>4. CASE f = file[r] /\ tmp[f] # None
    BY <2>4 DEF NamesOK
  <2> QED BY <2>2, <2>3, <2>4
<1>3. target[f] \in Inodes
  BY DEF TypeOK
<1> HIDE DEF o
<1> QED BY <1>1, <1>2, <1>3 DEF TypeOK

(* The only run under way stays the only one.                              *)
LEMMA StaysAlone ==
    ASSUME TypeOK, NEW r \in Runs, \A s \in Active : s = r,
           \A s \in Runs : s # r => pc'[s] = pc[s]
    PROVE  \A s \in Active' : s = r
  BY DEF Active

(* Sequential, from what it says of the run that took the step.            *)
LEMMA SequentialFrom ==
    ASSUME NEW r \in Runs, \A s \in Active' : s = r, r \in Active' => AloneOK(r)', AllWhole',
           r \in Active' \/ (last' = r /\ (exit'[r] = "ok" => \A f \in Files : InPlace(r, f)'))
    PROVE  Sequential'
<1>1. \A s, t \in Active' : s = t
  OBVIOUS
<1>2. \A s \in Active' : AloneOK(s)'
  OBVIOUS
<1>3. Active' = {} /\ last' # None /\ exit'[last'] = "ok" => \A f \in Files : InPlace(last, f)'
  <2> SUFFICES ASSUME Active' = {}, exit'[last'] = "ok", NEW f \in Files PROVE InPlace(last, f)'
    OBVIOUS
  <2>1. last' = r /\ InPlace(r, f)'
    OBVIOUS
  <2> QED BY <2>1 DEF InPlace, BytesOf
<1> QED BY <1>1, <1>2, <1>3 DEF Sequential

LEMMA SequentialNext == TypeOK /\ RunsOK /\ NamesOK /\ Sequential /\ [Next]_vars => Sequential'
<1> SUFFICES ASSUME TypeOK, RunsOK, NamesOK, Sequential, [Next]_vars, ~overlap' PROVE Sequential'
  BY DEF Sequential
<1>0. TypeOK'
  BY TypeNext
<1>a. ASSUME NEW r \in Runs, ~overlap, r \in Active
      PROVE  (\A s \in Active : s = r) /\ AloneOK(r) /\ AllWhole
  BY <1>a DEF Sequential
<1>1. ASSUME NEW r \in Runs, Start(r) PROVE Sequential'
  <2>1. /\ Active = {} /\ ~overlap /\ pc' = [pc EXCEPT ![r] = "open"]
        /\ UNCHANGED <<file, handle, target, tmp, data>>
        /\ file[r] = 1
    BY <1>1 DEF Start, RunsOK, Record
  <2>2. (\A s \in Active' : s = r) /\ r \in Active'
    BY <2>1 DEF Active, TypeOK
  <2>3. AllWhole'
    BY <2>1 DEF Sequential, AllWhole, Whole
  <2>4. AloneOK(r)'
    BY <2>1 DEF AloneOK, Files, TypeOK
  <2> QED BY <2>2, <2>3, <2>4, SequentialFrom
<1>2. ASSUME NEW r \in Runs, Open(r) PROVE Sequential'
  <2> DEFINE f == file[r]
             o == IF tmp[f] = None THEN <<r, f>> ELSE tmp[f]
  <2>1. /\ ~overlap /\ r \in Active /\ target' = target
        /\ tmp' = [tmp EXCEPT ![f] = o] /\ handle' = [handle EXCEPT ![r] = o]
        /\ pc' = [pc EXCEPT ![r] = "write"] /\ file' = file /\ computed_at' = computed_at /\ length' = length
        /\ pc[r] = "open" /\ data' = [data EXCEPT ![o] = Empty]
    BY <1>2 DEF Open, Active
  <2>2. o \in Inodes /\ o # None /\ f \in Files
    BY InodeFacts DEF TypeOK
  <2> HIDE DEF o
  <2>3. (\A s \in Active' : s = r) /\ r \in Active'
    BY <1>a, <2>1 DEF Active, TypeOK
  <2>4. AllWhole'
    BY <1>2, <1>a, <2>1, OpensNoTarget DEF AllWhole, Whole
  <2>5. AloneOK(r)'
    <3>1. ASSUME NEW g \in Files, g < f PROVE InPlace(r, g)'
      <4>1. InPlace(r, g)
        BY <1>a, <2>1, <3>1 DEF AloneOK
      <4>2. data'[target[g]] = data[target[g]]
        BY <1>2, <4>1, OpensNoTarget DEF InPlace
      <4>3. g # f
        BY <2>2, <3>1 DEF Files
      <4>4. tmp'[g] = tmp[g]
        BY <2>1, <4>3 DEF TypeOK
      <4> QED BY <2>1, <4>1, <4>2, <4>4 DEF InPlace, BytesOf
    <3>2. /\ pc'[r] = "write" /\ tmp'[f] = o /\ handle'[r] = o /\ file'[r] = f
          /\ data'[o] = Empty
      BY <2>1, <2>2 DEF TypeOK
    <3> QED BY <2>2, <3>1, <3>2 DEF AloneOK
  <2> QED BY <2>3, <2>4, <2>5, SequentialFrom
<1>3. ASSUME NEW r \in Runs, Write(r) PROVE Sequential'
  <2>1. /\ ~overlap /\ r \in Active /\ UNCHANGED <<file, computed_at, length, target, tmp>>
        /\ data' = [data EXCEPT ![handle[r]] = Bytes(r)]
        /\ pc' = [pc EXCEPT ![r] = "replace"] /\ pc[r] = "write"
    <3>1. ~overlap /\ r \in Active /\ pc[r] = "write"
      BY <1>3 DEF Write, Active
    <3>2. data[handle[r]] = Empty /\ Empty \in Contents
      BY <1>a, <3>1 DEF AloneOK, Contents, Empty
    <3>3. Written(file[r], data[handle[r]], Bytes(r)) = Bytes(r)
      BY <3>2, WrittenFacts
    <3> QED BY <1>3, <3>1, <3>3 DEF Write
  <2>2. /\ handle[r] \in Inodes /\ file[r] \in Files
        /\ tmp[file[r]] # None /\ handle[r] = tmp[file[r]]
    BY <1>a, <2>1 DEF RunsOK, TypeOK, AloneOK
  <2>0. Bytes(r).text \notin {"empty", "mixed"}
    BY <2>2, BytesFacts
  <2>3. (\A s \in Active' : s = r) /\ r \in Active'
    BY <1>a, <2>1 DEF Active, TypeOK
  <2>4. AllWhole'
    BY <1>a, <2>0, <2>1, <2>2 DEF AllWhole, Whole, TypeOK
  <2>5. AloneOK(r)'
    <3>1. ASSUME NEW g \in Files, g < file[r] PROVE InPlace(r, g)'
      <4>1. InPlace(r, g)
        BY <1>a, <2>1, <3>1 DEF AloneOK
      <4>2. target[g] # handle[r]
        <5>1. target[g][2] = g /\ handle[r][2] = file[r]
          BY <2>2, <4>1 DEF InPlace, NamesOK
        <5> QED BY <3>1, <5>1, FileFacts
      <4> QED BY <2>1, <4>1, <4>2 DEF InPlace, BytesOf, TypeOK
    <3>2. pc'[r] = "replace" /\ data'[handle[r]] = Bytes(r)
      BY <2>1, <2>2 DEF TypeOK
    <3>3. Bytes(r)' = Bytes(r)
      BY <2>1 DEF Bytes
    <3> QED BY <2>1, <2>2, <3>1, <3>2, <3>3 DEF AloneOK
  <2> QED BY <2>3, <2>4, <2>5, SequentialFrom
<1>4. ASSUME NEW r \in Runs, Replace(r) PROVE Sequential'
  <2> DEFINE f == file[r]
  <2>1. /\ ~overlap /\ r \in Active /\ UNCHANGED <<handle, computed_at, length, data>>
        /\ target' = [target EXCEPT ![f] = tmp[f]] /\ tmp' = [tmp EXCEPT ![f] = None]
        /\ pc[r] = "replace" /\ tmp[f] # None /\ f \in Files
    BY <1>4 DEF Replace, Active, TypeOK
  <2>2. data[tmp[f]] = BytesOf(r, f) /\ BytesOf(r, f).text \notin {"empty", "mixed"}
    BY <1>a, <2>1, BytesFacts DEF AloneOK
  <2>3. ASSUME NEW g \in Files, g <= f PROVE InPlace(r, g)'
    <3>1. CASE g = f
      BY <2>1, <2>2, <3>1 DEF InPlace, BytesOf, TypeOK
    <3>2. CASE g # f
      <4>1. InPlace(r, g)
        BY <1>a, <2>1, <2>3, <3>2, FileFacts DEF AloneOK
      <4> QED BY <2>1, <3>2, <4>1 DEF InPlace, BytesOf, TypeOK
    <3> QED BY <3>1, <3>2
  <2>4. AllWhole'
    BY <1>a, <2>1, <2>2 DEF AllWhole, Whole, TypeOK
  <2>5. CASE f + 1 \in Files
    <3>1. pc' = [pc EXCEPT ![r] = "open"] /\ file' = [file EXCEPT ![r] = f + 1]
      BY <1>4, <2>5 DEF Replace, GoOn
    <3>2. (\A s \in Active' : s = r) /\ r \in Active'
      BY <1>a, <2>1, <3>1 DEF Active, TypeOK
    <3>3. \A g \in Files : g < f + 1 => g <= f
      BY <2>1 DEF Files
    <3>4. pc'[r] = "open" /\ file'[r] = f + 1
      BY <3>1 DEF TypeOK
    <3>5. AloneOK(r)'
      BY <2>3, <3>3, <3>4 DEF AloneOK
    <3> QED BY <2>4, <3>2, <3>5, SequentialFrom
  <2>6. CASE f + 1 \notin Files
    <3>1. pc' = [pc EXCEPT ![r] = "ended"] /\ last' = r
      BY <1>4, <2>6 DEF Replace, GoOn, End
    <3>2. (\A s \in Active' : s = r) /\ r \notin Active'
      BY <1>a, <2>1, <3>1 DEF Active, TypeOK
    <3>3. \A g \in Files : g <= f
      BY <2>1, <2>6 DEF Files
    <3> QED BY <2>3, <2>4, <3>1, <3>2, <3>3, SequentialFrom
  <2> QED BY <2>5, <2>6
<1>5. ASSUME NEW r \in Runs, ReplaceMissing(r) \/ WriteFails(r) PROVE Sequential'
  <2>1. /\ ~overlap /\ r \in Active /\ UNCHANGED <<target, data>>
        /\ pc' = [pc EXCEPT ![r] = "unlink"]
    BY <1>5 DEF ReplaceMissing, WriteFails, Active
  <2>2. (\A s \in Active' : s = r) /\ r \in Active'
    BY <1>a, <2>1 DEF Active, TypeOK
  <2>3. AllWhole'
    BY <1>a, <2>1 DEF AllWhole, Whole
  <2>4. AloneOK(r)'
    BY <2>1 DEF AloneOK, TypeOK
  <2> QED BY <2>2, <2>3, <2>4, SequentialFrom
<1>6. ASSUME NEW r \in Runs, Unlink(r) \/ Crash(r) PROVE Sequential'
  <2>1. /\ ~overlap /\ r \in Active /\ UNCHANGED <<target, data>>
        /\ pc' = [pc EXCEPT ![r] = "ended"] /\ last' = r
        /\ exit' = [exit EXCEPT ![r] = "EXIT_WRITE"] \/ exit' = [exit EXCEPT ![r] = "crashed"]
    BY <1>6 DEF Unlink, Crash, End, Active
  <2>2. (\A s \in Active' : s = r) /\ r \notin Active'
    BY <1>a, <2>1 DEF Active, TypeOK
  <2>3. AllWhole' /\ exit'[r] # "ok"
    BY <1>a, <2>1 DEF AllWhole, Whole, TypeOK
  <2> QED BY <2>1, <2>2, <2>3, SequentialFrom
<1>7. CASE UNCHANGED vars
  BY <1>7 DEF vars, Sequential, Active, AloneOK, AllWhole, Whole, InPlace, BytesOf, Bytes
<1> QED BY <1>1, <1>2, <1>3, <1>4, <1>5, <1>6, <1>7 DEF Next

-----------------------------------------------------------------------------
(* The theorems.                                                           *)

LEMMA IInvHolds == Spec => []IInv
<1>1. Init => IInv
  <2> SUFFICES ASSUME Init PROVE IInv
    OBVIOUS
  <2>1. TypeOK
    <3>1. 0 \in 0..MaxFaults /\ Empty \in Contents
      BY OutputAssumption DEF Contents, Empty
    <3>2. overlap \in BOOLEAN
      BY DEF Init
    <3> QED BY <3>1, <3>2, FileFacts DEF Init, TypeOK
  <2>2. RunsOK /\ NamesOK /\ TmpOwned /\ WriterThere
    BY DEF Init, RunsOK, NamesOK, TmpOwned, WriterThere
  <2>3. Sequential
    <3>1. Active = {} /\ last = None /\ \A f \in Files : target[f] = None
      BY DEF Init, Active
    <3> QED BY <3>1 DEF Sequential, AllWhole, Whole
  <2>4. MixedOK
    BY DEF Init, MixedOK, Empty
  <2> QED BY <2>1, <2>2, <2>3, <2>4 DEF IInv
<1>2. IInv /\ [Next]_vars => IInv'
  BY TypeNext, RunsNext, NamesNext, TmpOwnedNext, SequentialNext, WriterThereNext, MixedNext
     DEF IInv
<1> QED BY <1>1, <1>2, PTL DEF Spec

(* _atomic_write never shows half a file: while runs follow one another,   *)
(* every file under its final name is whole, whichever step raises OSError *)
(* and whenever a run is killed.                                           *)
THEOREM TargetsWholeHolds == Spec => []TargetsWhole
<1>1. IInv => TargetsWhole
  BY DEF IInv, Sequential, TargetsWhole
<1> QED BY <1>1, IInvHolds, PTL

(* A .tmp file outlives all runs only if one of them was killed, and a run *)
(* that ends with exit code 0 leaves a directory that verifies, whatever   *)
(* failed and killed runs left before it.                                  *)
THEOREM RerunRepairsHolds == Spec => []RerunRepairs
<1>1. IInv => RerunRepairs
  <2> SUFFICES ASSUME IInv, Active = {}
               PROVE  /\ (\E f \in Files : tmp[f] # None) => \E r \in Runs : exit[r] = "crashed"
                      /\ ~overlap /\ last # None /\ exit[last] = "ok" =>
                            VerifySidecar /\ \A f \in Files : tmp[f] = None
    BY DEF RerunRepairs
  <2>1. ASSUME NEW f \in Files, tmp[f] # None PROVE \E r \in Runs : exit[r] = "crashed"
    BY <2>1 DEF IInv, TmpOwned, Active
  <2>2. ASSUME ~overlap, last # None, exit[last] = "ok"
        PROVE  VerifySidecar /\ \A f \in Files : tmp[f] = None
    <3>1. \A f \in Files : InPlace(last, f)
      BY <2>2 DEF IInv, Sequential
    <3> DEFINE b == [text |-> computed_at[last], length |-> length[last]]
    <3>2. last \in Runs /\ computed_at[last] \in Seconds
      BY <2>2 DEF IInv, TypeOK
    <3>3. /\ target[Record] # None /\ data[target[Record]] = b
          /\ target[Sidecar] # None /\ data[target[Sidecar]] = b
      BY <3>1, FileFacts DEF InPlace, BytesOf, Record, Sidecar, RawMetrics
    <3>4. "empty" \notin Seconds
      BY OutputAssumption
    <3>5. b.text \in Seconds /\ b # Empty
      BY <3>2, <3>4 DEF Empty
    <3> HIDE DEF b
    <3>6. VerifySidecar
      BY <3>3, <3>5 DEF VerifySidecar, VerifyRecord
    <3> QED BY <3>1, <3>6 DEF InPlace
  <2> QED BY <2>1, <2>2
<1> QED BY <1>1, IInvHolds, PTL

(* Runs that overlap, however many, leave whole raw metrics and a whole    *)
(* sidecar when all of them have ended and none was killed or met an       *)
(* OSError of its own, and a whole record too if their records are of the  *)
(* same length.                                                            *)
THEOREM WholeInTheEndHolds == Spec => []WholeInTheEnd
<1>1. IInv => WholeInTheEnd
  <2> SUFFICES ASSUME IInv, Active = {}, faults = 0
               PROVE  /\ Whole(RawMetrics) /\ Whole(Sidecar)
                      /\ ~LengthsDiffer => Whole(Record)
                      /\ target[Record] # None => data[target[Record]] # Empty
    BY DEF WholeInTheEnd
  <2>1. ASSUME NEW f \in Files, target[f] # None
        PROVE  /\ data[target[f]] # Empty /\ data[target[f]].text # "empty"
               /\ data[target[f]].text = "mixed" => f = Record /\ LengthsDiffer
    <3>1. target[f] \in Inodes /\ target[f][2] = f
      BY <2>1 DEF IInv, TypeOK, NamesOK
    <3>2. data[target[f]] # Empty
      BY <2>1 DEF IInv, WriterThere, Active
    <3> QED BY <3>1, <3>2 DEF IInv, MixedOK
  <2>2. RawMetrics \in Files /\ RawMetrics # Record /\ Sidecar # Record
    BY DEF Files, RawMetrics, Record, Sidecar
  <2> QED BY <2>1, <2>2, FileFacts DEF Whole
<1> QED BY <1>1, IInvHolds, PTL
=============================================================================
