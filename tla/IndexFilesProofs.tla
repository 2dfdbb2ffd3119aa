-------------------------- MODULE IndexFilesProofs --------------------------
(***************************************************************************)
(* Theorems about IndexFiles for any number of processes and files, and    *)
(* every value of the bounds: the lock is held by one process, the five    *)
(* files are typed, unless a build was stopped among its writes they are   *)
(* of one build, and an open that nothing disturbed loads what the tree    *)
(* holds, however little of the index it had to renew.                     *)
(***************************************************************************)
EXTENDS IndexFiles, TLAPS

-----------------------------------------------------------------------------
(* Types.  What a process holds in memory is typed like the files on disk. *)

TextParts == {"chunks", "bm25", "embeddings"}

Contents == TextMaps \cup RecordMaps \cup {"meta", Missing}

Typed(parts) ==
    /\ parts \in [Parts -> Contents]
    /\ parts["meta"] \in {"meta", Missing}
    /\ \A part \in TextParts : parts[part] \in TextMaps \cup {Missing}
    /\ parts["files"] \in RecordMaps \cup {Missing}

Labels  == {"rest", "load", "lock", "chunk", "record", "write", "open"}
AtWork  == {"chunk", "record", "write"}
Process == [pc : Labels, step : Nat, mem : [Parts -> Contents], todo : SUBSET Files,
            got : {"nothing", "loaded", "built"}]

TypeInv ==
    /\ tree \in [Files -> [text : Texts \cup {Missing}, time : 0..MaxEdits]]
    /\ Typed(index)
    /\ lock \in Procs \cup {Nobody} /\ torn \in BOOLEAN
    /\ calm \in [Procs -> BOOLEAN]
    /\ proc \in [Procs -> Process]
    /\ spent \in [edits : 0..MaxEdits, opens : 0..MaxOpens, mishaps : 0..MaxMishaps]

(* What is so of the memory of a process at each of its steps.             *)

(* Chunking and recording: a chunked file is recorded or still to be.      *)
Recording(q) ==
    /\ q.mem["chunks"] \in TextMaps /\ q.mem["files"] \in RecordMaps
    /\ DOMAIN q.mem["chunks"] = DOMAIN q.mem["files"] \cup q.todo
    /\ DOMAIN q.mem["files"] \cap q.todo = {}

(* Writing: the memory is whole, and so much of it is on disk.             *)
Writing(q) ==
    /\ \A part \in Parts : q.mem[part] # Missing
    /\ Whole(q.mem)
    /\ q.step >= 1
    /\ \A i \in DOMAIN WriteOrder : i < q.step => index[WriteOrder[i]] = q.mem[WriteOrder[i]]

ProcInv(p) ==
    /\ Typed(proc[p].mem)
    /\ proc[p].pc \in AtWork <=> lock = p
    /\ proc[p].pc = "record" => Recording(proc[p])
    /\ proc[p].pc = "write" => Writing(proc[p])

Good == index = Empty \/ ((\A part \in Parts : index[part] # Missing) /\ Whole(index))

IndInv == TypeInv /\ (\A p \in Procs : ProcInv(p)) /\ (~torn => Good)

-----------------------------------------------------------------------------
LEMMA PartNames ==
    /\ Parts = {"meta", "chunks", "files", "bm25", "embeddings"}
    /\ DOMAIN WriteOrder = 1..5 /\ DOMAIN ReadOrder = 1..5
    /\ \A i \in 1..5 : WriteOrder[i] \in Parts /\ ReadOrder[i] \in Parts
    /\ \A i, j \in 1..5 : WriteOrder[i] = WriteOrder[j] => i = j
BY DEF Parts, WriteOrder, ReadOrder

LEMMA EmptyTyped == Typed(Empty)
BY PartNames DEF Typed, Empty, Contents, TextParts

LEMMA RestingType == Resting \in Process
BY EmptyTyped DEF Resting, Process, Labels, Typed

LEMMA InitInv == Init => IndInv
<1> SUFFICES ASSUME Init PROVE IndInv
  OBVIOUS
<1>1. TypeInv
  <2>1. tree \in [Files -> [text : Texts \cup {Missing}, time : 0..MaxEdits]]
    BY ConstantsAssumption DEF Init
  <2>2. Typed(index) /\ proc \in [Procs -> Process]
    BY EmptyTyped, RestingType DEF Init
  <2>3. spent \in [edits : 0..MaxEdits, opens : 0..MaxOpens, mishaps : 0..MaxMishaps]
    BY ConstantsAssumption DEF Init
  <2> QED BY <2>1, <2>2, <2>3 DEF Init, TypeInv
<1>2. \A p \in Procs : ProcInv(p)
  BY ConstantsAssumption, EmptyTyped DEF Init, ProcInv, Resting, AtWork
<1>3. Good
  BY DEF Init, Good
<1> QED BY <1>1, <1>2, <1>3 DEF IndInv

(* One part of a typed set of files is replaced by something of its type.  *)
PartType(part) == CASE part = "meta" -> {"meta", Missing}
                    [] part = "files" -> RecordMaps \cup {Missing}
                    [] OTHER -> TextMaps \cup {Missing}

LEMMA TypedPart ==
    ASSUME NEW parts, Typed(parts), NEW part \in Parts
    PROVE  parts[part] \in PartType(part)
BY PartNames DEF Typed, PartType, TextParts

LEMMA TypedUpdate ==
    ASSUME NEW parts, Typed(parts), NEW part \in Parts, NEW x \in PartType(part)
    PROVE  Typed([parts EXCEPT ![part] = x])
BY PartNames DEF Typed, PartType, TextParts, Contents

(***************************************************************************)
(* A step of p that leaves the files alone, goes to a step outside the     *)
(* lock and gives the lock back if it had it.                              *)
(***************************************************************************)
LEMMA OutsideStep ==
    ASSUME IndInv, NEW p \in Procs, NEW q \in Process,
           proc' = [proc EXCEPT ![p] = q], q.pc \notin AtWork, Typed(q.mem),
           lock' = IF lock = p THEN Nobody ELSE lock,
           UNCHANGED <<tree, index, torn>>,
           calm' \in [Procs -> BOOLEAN],
           spent' \in [edits : 0..MaxEdits, opens : 0..MaxOpens, mishaps : 0..MaxMishaps]
    PROVE  IndInv'
<1>1. TypeInv'
  BY DEF IndInv, TypeInv, Typed
<1>2. ASSUME NEW r \in Procs PROVE ProcInv(r)'
  <2>1. CASE r = p
    <3>1. proc'[r] = q
      BY <2>1 DEF IndInv, TypeInv
    <3>2. lock' # p
      BY ConstantsAssumption
    <3> QED BY <2>1, <3>1, <3>2 DEF ProcInv, AtWork, Typed
  <2>2. CASE r # p
    <3>1. proc'[r] = proc[r] /\ (lock' = r <=> lock = r)
      BY <2>2, ConstantsAssumption DEF IndInv, TypeInv
    <3> QED BY <3>1 DEF IndInv, ProcInv, AtWork, Typed, Recording, Writing
  <2> QED BY <2>1, <2>2
<1>3. ~torn' => Good'
  BY DEF IndInv, Good, Whole
<1> QED BY <1>1, <1>2, <1>3 DEF IndInv

(* A step of the process that holds the lock, or that takes it while       *)
(* nobody has it, that leaves the files alone.                             *)
LEMMA InsideStep ==
    ASSUME IndInv, NEW p \in Procs, NEW q \in Process,
           proc' = [proc EXCEPT ![p] = q], q.pc \in AtWork, Typed(q.mem),
           lock \in {p, Nobody}, lock' = p,
           q.pc = "record" => Recording(q),
           q.pc = "write" => Writing(q),
           UNCHANGED <<tree, index, torn, calm, spent>>
    PROVE  IndInv'
<1>1. TypeInv'
  BY DEF IndInv, TypeInv, Typed
<1>2. ASSUME NEW r \in Procs PROVE ProcInv(r)'
  <2>1. CASE r = p
    <3>1. proc'[r] = q
      BY <2>1 DEF IndInv, TypeInv
    <3>2. Writing(q) => Writing(q)'
      BY DEF Writing, Whole
    <3> QED BY <2>1, <3>1, <3>2 DEF ProcInv, AtWork, Typed, Recording
  <2>2. CASE r # p
    <3>1. proc'[r] = proc[r] /\ lock' # r /\ lock # r
      BY <2>2, ConstantsAssumption DEF IndInv, TypeInv
    <3> QED BY <3>1 DEF IndInv, ProcInv, AtWork, Typed
  <2> QED BY <2>1, <2>2
<1>3. ~torn' => Good'
  BY DEF IndInv, Good, Whole
<1> QED BY <1>1, <1>2, <1>3 DEF IndInv

-----------------------------------------------------------------------------
(* The steps.                                                              *)

LEMMA ProcessTypes ==
    ASSUME IndInv, NEW p \in Procs
    PROVE  proc[p] \in Process /\ Typed(proc[p].mem) /\ ProcInv(p) /\ Typed(index)
BY DEF IndInv, TypeInv, ProcInv

LEMMA SpendType ==
    ASSUME IndInv, \/ Spend("edits", MaxEdits) \/ Spend("opens", MaxOpens)
                   \/ Spend("mishaps", MaxMishaps)
    PROVE  spent' \in [edits : 0..MaxEdits, opens : 0..MaxOpens, mishaps : 0..MaxMishaps]
BY ConstantsAssumption DEF Spend, IndInv, TypeInv

(* Going to a step outside the lock without having it.                     *)
LEMMA GotoStep ==
    ASSUME IndInv, NEW p \in Procs, NEW l \in Labels \ AtWork, Goto(p, l),
           proc[p].pc \notin AtWork,
           UNCHANGED <<tree, index, torn, lock, calm>>,
           spent' \in [edits : 0..MaxEdits, opens : 0..MaxOpens, mishaps : 0..MaxMishaps]
    PROVE  IndInv'
<1> DEFINE q == [proc[p] EXCEPT !.pc = l, !.step = 1]
<1>1. q \in Process /\ q.pc \notin AtWork /\ q.mem = proc[p].mem
  BY ProcessTypes DEF Process
<1>2. proc' = [proc EXCEPT ![p] = q]
  BY DEF Goto, IndInv, TypeInv
<1>3. lock' = IF lock = p THEN Nobody ELSE lock
  BY ProcessTypes DEF ProcInv
<1>4. calm' \in [Procs -> BOOLEAN]
  BY DEF IndInv, TypeInv
<1> HIDE DEF q
<1> QED BY <1>1, <1>2, <1>3, <1>4, ProcessTypes, OutsideStep

LEMMA OpenInv ==
    ASSUME IndInv, NEW p \in Procs, Open(p)
    PROVE  IndInv'
<1> DEFINE q == [Resting EXCEPT !.pc = IF index["meta"] = Missing THEN "lock" ELSE "load"]
<1>1. q \in Process /\ q.pc \notin AtWork /\ q.mem = Empty
  BY RestingType DEF Process, Resting, AtWork, Labels
<1>2. proc' = [proc EXCEPT ![p] = q]
  BY DEF Open
<1>3. lock' = IF lock = p THEN Nobody ELSE lock
  BY ProcessTypes DEF Open, ProcInv, AtWork
<1>4. calm' \in [Procs -> BOOLEAN]
  BY DEF Open, IndInv, TypeInv
<1> HIDE DEF q
<1> QED BY <1>1, <1>2, <1>3, <1>4, EmptyTyped, SpendType, OutsideStep DEF Open

LEMMA StopsInv ==
    ASSUME IndInv, NEW p \in Procs, Stops(p)
    PROVE  IndInv'
<1>1. Resting.pc \notin AtWork /\ Resting.mem = Empty
  BY DEF Resting, AtWork
<1>2. calm' \in [Procs -> BOOLEAN]
  BY DEF Stops, IndInv, TypeInv
<1> QED BY <1>1, <1>2, RestingType, EmptyTyped, SpendType, OutsideStep DEF Stops

LEMMA LoadInv ==
    ASSUME IndInv, NEW p \in Procs, LoadPart(p) \/ EndLoad(p) \/ LoadFails(p)
    PROVE  IndInv'
<1>1. proc[p].pc = "load" /\ proc[p].pc \notin AtWork /\ "lock" \in Labels \ AtWork
  BY DEF LoadPart, EndLoad, LoadFails, AtWork, Labels
<1>2. spent' \in [edits : 0..MaxEdits, opens : 0..MaxOpens, mishaps : 0..MaxMishaps]
  BY SpendType DEF LoadPart, EndLoad, LoadFails, IndInv, TypeInv
<1>3. UNCHANGED <<tree, index, torn, lock, calm>>
  BY DEF LoadPart, EndLoad, LoadFails
<1>4. CASE Goto(p, "lock")
  BY <1>1, <1>2, <1>3, <1>4, GotoStep
<1>5. ASSUME NEW q \in Process, q.pc \notin AtWork, Typed(q.mem), proc' = [proc EXCEPT ![p] = q]
      PROVE  IndInv'
  <2>1. lock' = IF lock = p THEN Nobody ELSE lock
    BY <1>1, <1>3, ProcessTypes DEF ProcInv
  <2>2. calm' \in [Procs -> BOOLEAN]
    BY <1>3 DEF IndInv, TypeInv
  <2> QED BY <1>2, <1>3, <1>5, <2>1, <2>2, OutsideStep
<1>6. CASE EndLoad(p) /\ ~Goto(p, "lock")
  <2> DEFINE q == [proc[p] EXCEPT !.pc = "open", !.step = 1, !.got = "loaded"]
  <2>1. proc' = [proc EXCEPT ![p] = q]
    BY <1>6 DEF EndLoad, IndInv, TypeInv
  <2>2. q \in Process /\ q.pc \notin AtWork /\ q.mem = proc[p].mem
    BY ProcessTypes DEF Process, Labels, AtWork
  <2> HIDE DEF q
  <2> QED BY <2>1, <2>2, <1>5, ProcessTypes
<1>7. CASE LoadPart(p) /\ ~Goto(p, "lock")
  <2> DEFINE part == ReadOrder[proc[p].step]
             mem == [proc[p].mem EXCEPT ![part] = index[part]]
             q == [proc[p] EXCEPT !.mem = mem, !.step = @ + 1]
  <2>1. proc' = [proc EXCEPT ![p] = q]
    BY <1>7 DEF LoadPart, IndInv, TypeInv, Process
  <2>2. part \in Parts
    BY <1>7, PartNames DEF LoadPart
  <2>3. Typed(mem)
    BY <2>2, TypedPart, TypedUpdate, ProcessTypes
  <2> HIDE DEF mem
  <2>4. q \in Process /\ q.pc \notin AtWork /\ q.mem = mem
    <3>1. mem \in [Parts -> Contents]
      BY <2>3 DEF Typed
    <3>2. proc[p] \in Process
      BY ProcessTypes
    <3>3. proc[p].step + 1 \in Nat
      BY <3>2 DEF Process
    <3>4. q.pc = proc[p].pc /\ q.mem = mem
      BY <3>2 DEF Process
    <3>5. q \in Process
      BY <3>1, <3>2, <3>3 DEF Process
    <3> QED BY <1>1, <3>4, <3>5
  <2> HIDE DEF q
  <2> QED BY <2>1, <2>3, <2>4, <1>5
<1> QED BY <1>4, <1>6, <1>7, <1>1 DEF LoadFails

LEMMA LockInv ==
    ASSUME IndInv, NEW p \in Procs, Lock(p)
    PROVE  IndInv'
<1> DEFINE q == [proc[p] EXCEPT !.pc = "chunk", !.mem = Empty]
<1>1. q \in Process /\ q.pc = "chunk" /\ q.mem = Empty
  BY ProcessTypes, EmptyTyped DEF Process, Labels, Typed
<1>2. proc' = [proc EXCEPT ![p] = q]
  BY DEF Lock, IndInv, TypeInv
<1> HIDE DEF q
<1> QED BY <1>1, <1>2, EmptyTyped, InsideStep DEF Lock, AtWork

LEMMA ChunkInv ==
    ASSUME IndInv, NEW p \in Procs, ChunkFiles(p)
    PROVE  IndInv'
<1> DEFINE texts == [f \in Present |-> tree[f].text]
           mem == [[proc[p].mem EXCEPT !["chunks"] = texts] EXCEPT !["files"] = <<>>]
           q == [proc[p] EXCEPT !.pc = "record", !.todo = Present, !.mem = mem]
<1>1. proc' = [proc EXCEPT ![p] = q]
  <2>1. proc[p] \in Process /\ proc \in [Procs -> Process]
    BY DEF IndInv, TypeInv
  <2> QED BY <2>1 DEF ChunkFiles, Process
<1>2. texts \in TextMaps /\ DOMAIN texts = Present /\ Present \in SUBSET Files
  <2>1. Present \in SUBSET Files /\ \A f \in Present : tree[f].text \in Texts
    BY DEF Present, IndInv, TypeInv
  <2>2. texts \in [Present -> Texts]
    BY <2>1
  <2> QED BY <2>1, <2>2 DEF TextMaps
<1>3. <<>> \in RecordMaps /\ DOMAIN <<>> = {}
  <2>1. <<>> \in [{} -> Records]
    OBVIOUS
  <2> QED BY <2>1 DEF RecordMaps
<1> HIDE DEF texts
<1>4. Typed(mem) /\ mem["chunks"] = texts /\ mem["files"] = <<>>
  <2>1. texts \in PartType("chunks") /\ <<>> \in PartType("files")
    BY <1>2, <1>3 DEF PartType
  <2>2. Typed(mem)
    BY <2>1, PartNames, ProcessTypes, TypedUpdate
  <2> QED BY <2>2, ProcessTypes, PartNames DEF Typed
<1>5. q \in Process /\ q.pc = "record" /\ q.mem = mem /\ q.todo = Present
  BY <1>2, <1>4, ProcessTypes DEF Process, Labels, Typed
<1>6. Recording(q)
  BY <1>2, <1>3, <1>4, <1>5 DEF Recording
<1>7. lock = p
  BY ProcessTypes DEF ChunkFiles, ProcInv, AtWork
<1> HIDE DEF q, mem
<1> QED BY <1>1, <1>4, <1>5, <1>6, <1>7, InsideStep DEF ChunkFiles, AtWork

(* A file that was found is recorded; one that is gone is forgotten.       *)
LEMMA RecordInv ==
    ASSUME IndInv, NEW p \in Procs, NEW f \in Files, RecordFile(p, f)
    PROVE  IndInv'
<1> DEFINE old == proc[p].mem
           texts == IF f \in Present THEN old["chunks"] ELSE Only(old["chunks"], Files \ {f})
           records == IF f \in Present THEN With(old["files"], f, Record(tree[f])) ELSE old["files"]
           mem == [[old EXCEPT !["chunks"] = texts] EXCEPT !["files"] = records]
           q == [proc[p] EXCEPT !.todo = @ \ {f}, !.mem = mem]
<1>1. proc' = [proc EXCEPT ![p] = q]
  BY ZenonT(60) DEF RecordFile, IndInv, TypeInv
<1>2. Recording(proc[p]) /\ f \in proc[p].todo /\ lock = p /\ proc[p].pc = "record"
  BY ProcessTypes DEF RecordFile, ProcInv, AtWork
<1>3. /\ texts \in TextMaps
      /\ DOMAIN texts = IF f \in Present THEN DOMAIN old["chunks"] ELSE DOMAIN old["chunks"] \ {f}
  <2>1. CASE f \in Present
    BY <1>2, <2>1 DEF Recording
  <2>2. CASE f \notin Present
    <3>1. PICK S \in SUBSET Files : old["chunks"] \in [S -> Texts]
      BY <1>2 DEF Recording, TextMaps
    <3>2. Only(old["chunks"], Files \ {f}) \in [S \ {f} -> Texts]
      BY <3>1 DEF Only
    <3> QED BY <2>2, <3>1, <3>2 DEF TextMaps
  <2> QED BY <2>1, <2>2
<1>4. /\ records \in RecordMaps
      /\ DOMAIN records = IF f \in Present THEN DOMAIN old["files"] \cup {f} ELSE DOMAIN old["files"]
  <2>1. CASE f \in Present
    <3>1. Record(tree[f]) \in Records
      BY <2>1 DEF Record, Records, Present, IndInv, TypeInv
    <3>2. PICK S \in SUBSET Files : old["files"] \in [S -> Records]
      BY <1>2 DEF Recording, RecordMaps
    <3>3. With(old["files"], f, Record(tree[f])) \in [S \cup {f} -> Records]
      BY <3>1, <3>2 DEF With
    <3> QED BY <2>1, <3>2, <3>3 DEF RecordMaps
  <2>2. CASE f \notin Present
    BY <1>2, <2>2 DEF Recording
  <2> QED BY <2>1, <2>2
<1> HIDE DEF texts, records
<1>5. Typed(mem) /\ mem["chunks"] = texts /\ mem["files"] = records
  <2>1. texts \in PartType("chunks") /\ records \in PartType("files")
    BY <1>3, <1>4 DEF PartType
  <2>2. Typed(mem)
    BY <2>1, PartNames, ProcessTypes, TypedUpdate
  <2> QED BY <2>2, ProcessTypes, PartNames DEF Typed
<1>6. q \in Process /\ q.pc = "record" /\ q.mem = mem /\ q.todo = proc[p].todo \ {f}
  BY <1>2, <1>5, ProcessTypes DEF Process, Labels, Typed
<1>7. Recording(q)
  BY <1>2, <1>3, <1>4, <1>5, <1>6 DEF Recording
<1> HIDE DEF q, mem
<1> QED BY <1>1, <1>2, <1>5, <1>6, <1>7, InsideStep DEF RecordFile, AtWork

LEMMA DeriveInv ==
    ASSUME IndInv, NEW p \in Procs, Derive(p)
    PROVE  IndInv'
<1> DEFINE texts == proc[p].mem["chunks"]
           mem == [[[proc[p].mem EXCEPT !["meta"] = "meta"] EXCEPT !["bm25"] = texts]
                     EXCEPT !["embeddings"] = texts]
           q == [proc[p] EXCEPT !.pc = "write", !.step = 1, !.mem = mem]
<1>1. proc' = [proc EXCEPT ![p] = q]
  <2>1. proc[p] \in Process /\ proc \in [Procs -> Process]
    BY DEF IndInv, TypeInv
  <2> QED BY ZenonT(60), <2>1 DEF Derive, Process
<1>2. Recording(proc[p]) /\ proc[p].todo = {} /\ lock = p
  BY ProcessTypes DEF Derive, ProcInv, AtWork
<1>3. Typed(mem)
  <2>1. texts \in PartType("bm25") /\ texts \in PartType("embeddings") /\ "meta" \in PartType("meta")
    BY <1>2 DEF PartType, Recording
  <2> HIDE DEF texts
  <2> QED BY <2>1, PartNames, ProcessTypes, TypedUpdate
<1>4. /\ mem["meta"] = "meta" /\ mem["bm25"] = texts /\ mem["embeddings"] = texts
      /\ mem["chunks"] = texts /\ mem["files"] = proc[p].mem["files"]
  BY ProcessTypes, PartNames DEF Typed
<1>5. q \in Process /\ q.pc = "write" /\ q.mem = mem /\ q.step = 1
  BY <1>3, ProcessTypes DEF Process, Labels, Typed
<1>6. Writing(q)
  <2>1. \A part \in Parts : mem[part] # Missing
    BY <1>2, <1>4, PartNames, ConstantsAssumption DEF Recording
  <2>2. Whole(mem)
    BY <1>2, <1>4 DEF Whole, Recording
  <2> QED BY <1>5, <2>1, <2>2, PartNames DEF Writing
<1> HIDE DEF q, mem
<1> QED BY <1>1, <1>2, <1>3, <1>5, <1>6, InsideStep DEF Derive, AtWork

LEMMA WriteInv ==
    ASSUME IndInv, NEW p \in Procs, WritePart(p)
    PROVE  IndInv'
<1> DEFINE i == proc[p].step
           part == WriteOrder[i]
           q == [proc[p] EXCEPT !.step = @ + 1]
<1>1. proc' = [proc EXCEPT ![p] = q] /\ index' = [index EXCEPT ![part] = proc[p].mem[part]]
  BY DEF WritePart, IndInv, TypeInv
<1>2. i \in 1..5 /\ part \in Parts /\ Writing(proc[p]) /\ lock = p
  BY PartNames, ProcessTypes DEF WritePart, ProcInv, AtWork
<1>3. q \in Process /\ q.pc = "write" /\ q.mem = proc[p].mem /\ q.step = i + 1
  BY ProcessTypes DEF Process, WritePart
<1>4. Typed(index')
  BY <1>1, <1>2, TypedPart, TypedUpdate, ProcessTypes
<1>5. \A j \in 1..5 : j < i + 1 => index'[WriteOrder[j]] = proc[p].mem[WriteOrder[j]]
  <2> TAKE j \in 1..5
  <2>1. CASE j = i
    BY <2>1, <1>1, <1>2, ProcessTypes DEF Typed
  <2>2. CASE j # i
    BY <2>2, <1>1, <1>2, PartNames DEF Writing
  <2> QED BY <2>1, <2>2
<1>6. /\ \A x \in Parts : q.mem[x] # Missing
      /\ Whole(q.mem) /\ q.step >= 1
      /\ \A j \in DOMAIN WriteOrder : j < q.step => index'[WriteOrder[j]] = q.mem[WriteOrder[j]]
  BY <1>2, <1>3, <1>5, PartNames DEF Writing
<1> HIDE DEF q, i, part
<1>7. TypeInv'
  BY <1>1, <1>3, <1>4 DEF WritePart, Disturbs, IndInv, TypeInv
<1>8. ASSUME NEW r \in Procs PROVE ProcInv(r)'
  <2>1. CASE r = p
    <3>1. proc'[r] = q
      BY <2>1, <1>1 DEF IndInv, TypeInv
    <3>2. Writing(proc[r])'
      BY <3>1, <1>6 DEF Writing, Whole
    <3> QED BY <2>1, <3>1, <3>2, <1>2, <1>3, ProcessTypes DEF ProcInv, AtWork, WritePart, Typed
  <2>2. CASE r # p
    <3>1. proc'[r] = proc[r] /\ lock' # r /\ lock # r
      BY <2>2, <1>1, <1>2 DEF IndInv, TypeInv, WritePart
    <3> QED BY <3>1 DEF IndInv, ProcInv, AtWork, Typed
  <2> QED BY <2>1, <2>2
<1> QED BY <1>7, <1>8 DEF IndInv, WritePart

LEMMA EndBuildInv ==
    ASSUME IndInv, NEW p \in Procs, EndBuild(p)
    PROVE  IndInv'
<1> DEFINE q == [proc[p] EXCEPT !.pc = "open", !.step = 1, !.got = "built"]
<1>1. proc' = [proc EXCEPT ![p] = q]
  BY DEF EndBuild, IndInv, TypeInv
<1>2. q \in Process /\ q.pc = "open" /\ q.mem = proc[p].mem
  BY ProcessTypes DEF Process, Labels
<1>3. Writing(proc[p]) /\ lock = p /\ proc[p].step > 5
  BY ProcessTypes, PartNames DEF EndBuild, ProcInv, AtWork, Process, Writing
<1> HIDE DEF q
<1>4. TypeInv'
  <2>1. proc \in [Procs -> Process]
    BY DEF IndInv, TypeInv
  <2>2. proc' \in [Procs -> Process]
    BY <2>1, <1>1, <1>2
  <2>3. UNCHANGED <<tree, index, calm, spent>> /\ torn' \in BOOLEAN /\ lock' = Nobody
    BY DEF EndBuild
  <2> QED BY <2>2, <2>3 DEF IndInv, TypeInv, Typed
<1>5. ASSUME NEW r \in Procs PROVE ProcInv(r)'
  <2>1. CASE r = p
    <3>1. proc'[r] = q
      BY <2>1, <1>1 DEF IndInv, TypeInv
    <3> QED BY <2>1, <3>1, <1>2, ConstantsAssumption, ProcessTypes DEF ProcInv, AtWork, EndBuild, Typed
  <2>2. CASE r # p
    <3>1. proc'[r] = proc[r] /\ lock' # r /\ lock # r
      BY <2>2, <1>1, <1>3, ConstantsAssumption DEF IndInv, TypeInv, EndBuild
    <3> QED BY <3>1 DEF IndInv, ProcInv, AtWork, Typed
  <2> QED BY <2>1, <2>2
<1>6. Good
  <2>1. \A part \in Parts : index[part] = proc[p].mem[part]
    <3> SUFFICES ASSUME NEW i \in 1..5 PROVE index[WriteOrder[i]] = proc[p].mem[WriteOrder[i]]
      BY PartNames DEF Parts
    <3> QED BY <1>3, PartNames, ProcessTypes DEF Writing, Process
  <2> QED BY <1>3, <2>1, PartNames DEF Good, Writing, Whole
<1>7. Good'
  BY <1>6 DEF EndBuild, Good, Whole
<1> QED BY <1>4, <1>5, <1>7 DEF IndInv

LEMMA EditInv ==
    ASSUME IndInv, NEW f \in Files, NEW text \in Texts \cup {Missing}, Edit(f, text)
    PROVE  IndInv'
<1>1. tree' \in [Files -> [text : Texts \cup {Missing}, time : 0..MaxEdits]]
  <2>1. spent.edits + 1 \in 0..MaxEdits
    BY ConstantsAssumption DEF Edit, Spend, IndInv, TypeInv
  <2> QED BY <2>1 DEF Edit, IndInv, TypeInv
<1>2. TypeInv'
  BY <1>1, SpendType DEF Edit, IndInv, TypeInv, Typed
<1>3. \A p \in Procs : ProcInv(p)'
  BY DEF Edit, IndInv, ProcInv, Typed, Recording, Writing, Whole
<1> QED BY <1>2, <1>3 DEF Edit, IndInv, Good, Whole

LEMMA NextInv == IndInv /\ [Next]_vars => IndInv'
<1> SUFFICES ASSUME IndInv, [Next]_vars PROVE IndInv'
  OBVIOUS
<1>1. ASSUME NEW p \in Procs, Step(p)
      PROVE  IndInv'
  <2>1. CASE LoadPart(p) \/ EndLoad(p)
    BY <2>1, LoadInv
  <2>2. CASE Lock(p) \/ ChunkFiles(p) \/ Derive(p)
    BY <2>2, LockInv, ChunkInv, DeriveInv
  <2>3. CASE \E f \in Files : RecordFile(p, f)
    BY <2>3, RecordInv
  <2>4. CASE WritePart(p) \/ EndBuild(p)
    BY <2>4, WriteInv, EndBuildInv
  <2> QED BY <1>1, <2>1, <2>2, <2>3, <2>4 DEF Step
<1>2. ASSUME NEW p \in Procs, Open(p) \/ Stops(p) \/ LoadFails(p)
      PROVE  IndInv'
  BY <1>2, OpenInv, StopsInv, LoadInv
<1>3. CASE \E f \in Files, text \in Texts \cup {Missing} : Edit(f, text)
  BY <1>3, EditInv
<1>4. CASE UNCHANGED vars
  BY <1>4 DEF vars, IndInv, TypeInv, ProcInv, Typed, Recording, Writing, Whole, Good
<1> QED BY <1>1, <1>2, <1>3, <1>4 DEF Next

(***************************************************************************)
(* The files are typed, and a process is chunking, recording or writing    *)
(* exactly when the lock is its own (acquire_lock).                        *)
(***************************************************************************)
THEOREM IndexTypeCorrect == Spec => []TypeOK
<1>1. IndInv => TypeOK
  BY DEF IndInv, TypeInv, ProcInv, Typed, TextParts, TypeOK, Process, Labels, AtWork
<1> QED BY InitInv, NextInv, <1>1, PTL DEF Spec

(***************************************************************************)
(* For any number of processes: unless a build is at work or was stopped   *)
(* among its writes, the five files are there together and of one build    *)
(* (Index::build).                                                         *)
(***************************************************************************)
THEOREM FilesOfOneBuild == Spec => []OneGeneration
<1>1. IndInv => OneGeneration
  BY DEF IndInv, Good, OneGeneration
<1> QED BY InitInv, NextInv, <1>1, PTL DEF Spec

-----------------------------------------------------------------------------
(***************************************************************************)
(* What an open that nobody disturbs returns.  A modification time stands  *)
(* for one text of a file, so that a record with the time of the file on   *)
(* disk has its text; and as long as an open is calm, what it holds in     *)
(* memory is what is on disk.                                              *)
(***************************************************************************)

Stamped(records) ==
    records # Missing => \A f \in DOMAIN records :
        /\ records[f].time <= spent.edits
        /\ records[f].time = tree[f].time => records[f].hash = tree[f].text

Stamps ==
    /\ \A f \in Files : tree[f].time <= spent.edits
    /\ Stamped(index["files"])
    /\ \A p \in Procs : Stamped(proc[p].mem["files"])

TextsNow == [f \in Present |-> tree[f].text]

Undisturbed(q) ==
    /\ q.pc = "load" =>
        /\ q.step >= 1
        /\ \A i \in DOMAIN ReadOrder : i < q.step =>
               q.mem[ReadOrder[i]] = index[ReadOrder[i]] /\ index[ReadOrder[i]] # Missing
    /\ q.pc = "record" =>
        /\ q.mem["chunks"] = TextsNow
        /\ DOMAIN q.mem["files"] = Present \ q.todo
    /\ q.pc = "write" => q.mem["chunks"] = TextsNow
    /\ q.pc = "open" /\ q.got = "loaded" =>
        /\ \A part \in Parts : q.mem[part] = index[part] /\ index[part] # Missing
        /\ Fresh(q.mem["files"])
    /\ q.pc = "open" /\ q.got # "loaded" => Whole(q.mem) /\ q.mem["chunks"] = TextsNow

CalmInv == \A p \in Procs : calm[p] => Undisturbed(proc[p])

ExactInv == IndInv /\ Stamps /\ CalmInv

(* A step of p that leaves the tree and the five files alone.              *)
LEMMA PrivateStep ==
    ASSUME ExactInv, NEW p \in Procs, NEW q, proc' = [proc EXCEPT ![p] = q],
           UNCHANGED <<tree, index>>, spent'.edits = spent.edits,
           Stamped(q.mem["files"]), calm'[p] => Undisturbed(q),
           \A r \in Procs \ {p} : calm'[r] = calm[r]
    PROVE  Stamps' /\ CalmInv'
<1>1. \A r \in Procs : proc'[r] = IF r = p THEN q ELSE proc[r]
  BY DEF ExactInv, IndInv, TypeInv
<1>2. Stamps'
  BY <1>1 DEF ExactInv, Stamps, Stamped
<1>3. \A x : Undisturbed(x)' <=> Undisturbed(x)
  BY DEF Undisturbed, TextsNow, Present, Fresh, Unchanged, Whole
<1>4. ASSUME NEW r \in Procs, calm'[r] PROVE Undisturbed(proc'[r])
  BY <1>1, <1>4 DEF ExactInv, CalmInv
<1>5. CalmInv'
  BY <1>3, <1>4 DEF CalmInv, Undisturbed, TextsNow, Present, Fresh, Unchanged, Whole
<1> QED BY <1>2, <1>5

LEMMA CalmInit == Init => Stamps /\ CalmInv
<1> SUFFICES ASSUME Init PROVE Stamps /\ CalmInv
  OBVIOUS
<1>1. Empty["files"] = Missing
  BY PartNames DEF Empty
<1> QED BY <1>1 DEF Init, Resting, Stamps, Stamped, CalmInv

LEMMA EditCalm ==
    ASSUME ExactInv, NEW f \in Files, NEW text \in Texts \cup {Missing}, Edit(f, text)
    PROVE  Stamps' /\ CalmInv'
<1>1. /\ spent'.edits = spent.edits + 1 /\ spent.edits \in Nat
      /\ \A g \in Files : tree'[g] = IF g = f THEN [text |-> text, time |-> spent.edits + 1] ELSE tree[g]
  BY DEF Edit, Spend, ExactInv, IndInv, TypeInv
<1> DEFINE Later(records) == records # Missing => \A g \in DOMAIN records :
               /\ records[g].time <= spent'.edits
               /\ records[g].time = tree'[g].time => records[g].hash = tree'[g].text
<1>2. ASSUME NEW records \in RecordMaps \cup {Missing}, Stamped(records) PROVE Later(records)
  <2> SUFFICES ASSUME records # Missing, NEW g \in DOMAIN records
               PROVE  /\ records[g].time <= spent'.edits
                      /\ records[g].time = tree'[g].time => records[g].hash = tree'[g].text
    OBVIOUS
  <2>1. g \in Files /\ records[g].time \in Nat
    BY ConstantsAssumption DEF RecordMaps, Records
  <2> QED BY <1>1, <1>2, <2>1 DEF Stamped
<1>3. \A g \in Files : tree[g].time \in Nat
  BY ConstantsAssumption DEF ExactInv, IndInv, TypeInv
<1>4. Later(index["files"]) /\ \A p \in Procs : Later(proc[p].mem["files"])
  BY <1>2, ProcessTypes DEF ExactInv, IndInv, TypeInv, Stamps, Typed
<1>5. Stamps'
  BY <1>1, <1>3, <1>4 DEF ExactInv, Stamps, Stamped, Edit
<1> QED BY <1>5 DEF Edit, CalmInv

LEMMA WriteCalm ==
    ASSUME ExactInv, NEW p \in Procs, WritePart(p)
    PROVE  Stamps' /\ CalmInv'
<1> DEFINE part == WriteOrder[proc[p].step]
           q == [proc[p] EXCEPT !.step = @ + 1]
<1>1. /\ proc' = [proc EXCEPT ![p] = q] /\ index' = [index EXCEPT ![part] = proc[p].mem[part]]
      /\ part \in Parts /\ UNCHANGED <<tree, spent>> /\ proc[p].pc = "write"
  BY PartNames DEF WritePart, ExactInv, IndInv, TypeInv
<1>2. q.pc = "write" /\ q.mem = proc[p].mem
  BY <1>1, ProcessTypes DEF ExactInv, Process
<1>3. \A r \in Procs : /\ proc'[r] = IF r = p THEN q ELSE proc[r]
                       /\ calm'[r] = (r = p /\ calm[r])
  BY <1>1 DEF WritePart, Disturbs, ExactInv, IndInv, TypeInv
<1>4. index'["files"] \in {index["files"], proc[p].mem["files"]}
  BY <1>1, PartNames DEF ExactInv, IndInv, TypeInv, Typed
<1> HIDE DEF q, part
<1>5. Stamps'
  BY <1>1, <1>2, <1>3, <1>4 DEF ExactInv, Stamps, Stamped
<1>6. calm[p] => proc[p].mem["chunks"] = TextsNow
  BY <1>1 DEF ExactInv, CalmInv, Undisturbed
<1>7. CalmInv'
  BY <1>1, <1>2, <1>3, <1>6 DEF CalmInv, Undisturbed, TextsNow, Present
<1> QED BY <1>5, <1>7

LEMMA OpenCalm ==
    ASSUME ExactInv, NEW p \in Procs, Open(p) \/ Stops(p)
    PROVE  Stamps' /\ CalmInv'
<1>1. PICK q \in Process : /\ proc' = [proc EXCEPT ![p] = q]
                           /\ q.mem = Empty /\ q.pc \in {"rest", "lock", "load"} /\ q.step = 1
  <2>1. CASE Open(p)
    <3> DEFINE q == [Resting EXCEPT !.pc = IF index["meta"] = Missing THEN "lock" ELSE "load"]
    <3>1. q \in Process /\ q.mem = Empty /\ q.pc \in {"rest", "lock", "load"} /\ q.step = 1
      BY RestingType DEF Process, Resting, Labels
    <3>2. proc' = [proc EXCEPT ![p] = q]
      BY <2>1 DEF Open
    <3> HIDE DEF q
    <3> QED BY <3>1, <3>2
  <2>2. CASE Stops(p)
    BY <2>2, RestingType DEF Stops, Resting
  <2> QED BY <2>1, <2>2
<1>2. UNCHANGED <<tree, index>> /\ spent'.edits = spent.edits
  BY DEF Open, Stops, Spend, ExactInv, IndInv, TypeInv
<1>3. \A r \in Procs \ {p} : calm'[r] = calm[r]
  BY DEF Open, Stops, ExactInv, IndInv, TypeInv
<1>4. Stamped(q.mem["files"])
  BY <1>1, PartNames DEF Empty, Stamped
<1>5. Undisturbed(q)
  BY <1>1, PartNames DEF Undisturbed
<1> QED BY <1>1, <1>2, <1>3, <1>4, <1>5, PrivateStep

(* The steps that change nothing but the process.                          *)
LEMMA SameTree ==
    ASSUME ExactInv, NEW p \in Procs,
           \/ LoadPart(p) \/ EndLoad(p) \/ LoadFails(p) \/ Lock(p) \/ ChunkFiles(p)
           \/ (\E f \in Files : RecordFile(p, f)) \/ Derive(p) \/ EndBuild(p)
    PROVE  UNCHANGED <<tree, index, calm>> /\ spent'.edits = spent.edits
BY DEF LoadPart, EndLoad, LoadFails, Lock, ChunkFiles, RecordFile, Derive, EndBuild, Spend,
       ExactInv, IndInv, TypeInv

LEMMA LoadCalm ==
    ASSUME ExactInv, NEW p \in Procs, LoadPart(p) \/ EndLoad(p) \/ LoadFails(p)
    PROVE  Stamps' /\ CalmInv'
<1>1. UNCHANGED <<tree, index, calm>> /\ spent'.edits = spent.edits
  BY SameTree
<1>2. /\ proc \in [Procs -> Process] /\ proc[p] \in Process /\ Stamped(proc[p].mem["files"])
      /\ calm[p] => Undisturbed(proc[p])
  BY DEF ExactInv, IndInv, TypeInv, Stamps, CalmInv
<1>3. CASE Goto(p, "lock")
  <2> DEFINE q == [proc[p] EXCEPT !.pc = "lock", !.step = 1]
  <2>1. proc' = [proc EXCEPT ![p] = q]
    BY <1>2, <1>3 DEF Goto
  <2>2. q.pc = "lock" /\ q.mem = proc[p].mem
    BY <1>2 DEF Process
  <2> HIDE DEF q
  <2>3. Undisturbed(q)
    BY <2>2 DEF Undisturbed
  <2> QED BY <1>1, <1>2, <2>1, <2>2, <2>3, PrivateStep
<1>4. CASE EndLoad(p) /\ ~Goto(p, "lock")
  <2> DEFINE q == [proc[p] EXCEPT !.pc = "open", !.step = 1, !.got = "loaded"]
  <2>1. proc' = [proc EXCEPT ![p] = q] /\ Fresh(proc[p].mem["files"])
    BY <1>2, <1>4 DEF EndLoad
  <2>2. q.pc = "open" /\ q.mem = proc[p].mem /\ q.got = "loaded"
    BY <1>2 DEF Process
  <2> HIDE DEF q
  <2>3. ASSUME calm[p] PROVE Undisturbed(q)
    <3>1. \A i \in 1..5 : proc[p].mem[ReadOrder[i]] = index[ReadOrder[i]] /\ index[ReadOrder[i]] # Missing
      <4>1. proc[p].pc = "load" /\ proc[p].step \in Nat /\ proc[p].step \notin DOMAIN ReadOrder
        BY <1>2, <1>4 DEF EndLoad, Process
      <4>2. proc[p].step > 5
        BY <1>2, <2>3, <4>1, PartNames DEF Undisturbed
      <4> QED BY <1>2, <2>3, <4>1, <4>2, PartNames DEF Undisturbed
    <3>2. \A part \in Parts : proc[p].mem[part] = index[part] /\ index[part] # Missing
      BY <3>1, PartNames DEF Parts, ReadOrder
    <3> QED BY <2>1, <2>2, <3>2 DEF Undisturbed
  <2> QED BY <1>1, <1>2, <2>1, <2>2, <2>3, PrivateStep
<1>5. CASE LoadPart(p) /\ ~Goto(p, "lock")
  <2> DEFINE i == proc[p].step
             part == ReadOrder[i]
             mem == [proc[p].mem EXCEPT ![part] = index[part]]
             q == [proc[p] EXCEPT !.mem = mem, !.step = @ + 1]
  <2>1. proc' = [proc EXCEPT ![p] = q]
    BY <1>2, <1>5 DEF LoadPart, Process
  <2>2. /\ proc[p].pc = "load" /\ i \in 1..5 /\ part \in Parts /\ index[part] # Missing
        /\ Typed(proc[p].mem) /\ Typed(index)
    BY <1>5, PartNames, ProcessTypes DEF LoadPart, ExactInv
  <2>3. \A x \in Parts : mem[x] = IF x = part THEN index[part] ELSE proc[p].mem[x]
    BY <2>2 DEF Typed
  <2> HIDE DEF mem
  <2>4. q.pc = "load" /\ q.mem = mem /\ q.step = i + 1
    BY <1>2, <2>2 DEF Process
  <2> HIDE DEF q
  <2>5. Stamped(mem["files"])
    BY <1>2, <2>3, PartNames DEF ExactInv, Stamps
  <2>6. ASSUME calm[p] PROVE Undisturbed(q)
    <3> SUFFICES ASSUME NEW j \in 1..5, j < i + 1 
                 PROVE  mem[ReadOrder[j]] = index[ReadOrder[j]] /\ index[ReadOrder[j]] # Missing
      BY <2>2, <2>4, PartNames DEF Undisturbed
    <3>1. CASE j = i
      BY <2>2, <2>3, <3>1
    <3>2. CASE j # i
      BY <1>2, <2>2, <2>3, <2>6, <3>2, PartNames DEF Undisturbed
    <3> QED BY <3>1, <3>2
  <2> QED BY <1>1, <2>1, <2>4, <2>5, <2>6, PrivateStep
<1> QED BY <1>3, <1>4, <1>5 DEF LoadFails

LEMMA LockCalm ==
    ASSUME ExactInv, NEW p \in Procs, Lock(p)
    PROVE  Stamps' /\ CalmInv'
<1> DEFINE q == [proc[p] EXCEPT !.pc = "chunk", !.mem = Empty]
<1>1. UNCHANGED <<tree, index, calm>> /\ spent'.edits = spent.edits
  BY SameTree
<1>2. q.pc = "chunk" /\ q.mem = Empty /\ proc' = [proc EXCEPT ![p] = q]
  BY ProcessTypes DEF ExactInv, IndInv, TypeInv, Process, Lock
<1> HIDE DEF q
<1>3. Stamped(q.mem["files"]) /\ Undisturbed(q)
  BY <1>2, PartNames DEF Empty, Stamped, Undisturbed
<1> QED BY <1>1, <1>2, <1>3, PrivateStep

LEMMA ChunkCalm ==
    ASSUME ExactInv, NEW p \in Procs, ChunkFiles(p)
    PROVE  Stamps' /\ CalmInv'
<1> DEFINE mem == [[proc[p].mem EXCEPT !["chunks"] = TextsNow] EXCEPT !["files"] = <<>>]
           q == [proc[p] EXCEPT !.pc = "record", !.todo = Present, !.mem = mem]
<1>1. UNCHANGED <<tree, index, calm>> /\ spent'.edits = spent.edits
  BY SameTree
<1>2. proc \in [Procs -> Process] /\ proc[p] \in Process /\ Typed(proc[p].mem)
  BY ProcessTypes DEF ExactInv, IndInv, TypeInv
<1>3. proc' = [proc EXCEPT ![p] = q]
  BY <1>2 DEF ChunkFiles, TextsNow, Process
<1>4. mem["chunks"] = TextsNow /\ mem["files"] = <<>>
  BY <1>2, PartNames DEF Typed
<1> HIDE DEF mem
<1>5. q.pc = "record" /\ q.mem = mem /\ q.todo = Present
  BY <1>2 DEF Process
<1> HIDE DEF q
<1>6. DOMAIN <<>> = {}
  OBVIOUS
<1>7. Stamped(q.mem["files"]) /\ Undisturbed(q)
  BY <1>4, <1>5, <1>6 DEF Stamped, Undisturbed
<1> QED BY <1>1, <1>3, <1>7, PrivateStep

LEMMA RecordCalm ==
    ASSUME ExactInv, NEW p \in Procs, NEW f \in Files, RecordFile(p, f)
    PROVE  Stamps' /\ CalmInv'
<1> DEFINE old == proc[p].mem
           texts == IF f \in Present THEN old["chunks"] ELSE Only(old["chunks"], Files \ {f})
           records == IF f \in Present THEN With(old["files"], f, Record(tree[f])) ELSE old["files"]
           mem == [[old EXCEPT !["chunks"] = texts] EXCEPT !["files"] = records]
           q == [proc[p] EXCEPT !.todo = @ \ {f}, !.mem = mem]
<1>1. UNCHANGED <<tree, index, calm>> /\ spent'.edits = spent.edits
  BY SameTree
<1>2. /\ proc \in [Procs -> Process] /\ proc[p] \in Process /\ Typed(old) /\ Stamped(old["files"])
      /\ Recording(proc[p]) /\ f \in proc[p].todo /\ proc[p].pc = "record"
      /\ calm[p] => Undisturbed(proc[p])
  BY ProcessTypes DEF ExactInv, IndInv, TypeInv, Stamps, CalmInv, RecordFile, ProcInv
<1>3. proc' = [proc EXCEPT ![p] = q]
  BY ZenonT(60), <1>2 DEF RecordFile
<1>4. Stamped(records)
  <2>1. CASE f \in Present
    <3>1. old["files"] # Missing
      BY <1>2, ConstantsAssumption DEF Recording
    <3>2. Record(tree[f]).time = tree[f].time /\ Record(tree[f]).hash = tree[f].text
      BY DEF Record
    <3>3. /\ DOMAIN records = DOMAIN old["files"] \cup {f}
          /\ \A g \in DOMAIN records : records[g] = IF g = f THEN Record(tree[f]) ELSE old["files"][g]
      BY <2>1 DEF With
    <3> HIDE DEF records
    <3> QED BY <1>2, <3>1, <3>2, <3>3 DEF Stamped, ExactInv, Stamps
  <2>2. CASE f \notin Present
    BY <1>2, <2>2
  <2> QED BY <2>1, <2>2
<1>5. ASSUME calm[p]
      PROVE  texts = TextsNow /\ DOMAIN records = Present \ (proc[p].todo \ {f})
  <2>1. old["chunks"] = TextsNow /\ DOMAIN old["files"] = Present \ proc[p].todo
    BY <1>2, <1>5 DEF Undisturbed
  <2>2. f \in Present
    BY <1>2, <2>1 DEF Recording, TextsNow
  <2> QED BY <1>2, <2>1, <2>2 DEF With
<1> HIDE DEF texts, records
<1>6. mem["chunks"] = texts /\ mem["files"] = records
  BY <1>2, PartNames DEF Typed
<1> HIDE DEF mem
<1>7. q.pc = "record" /\ q.mem = mem /\ q.todo = proc[p].todo \ {f}
  BY <1>2 DEF Process
<1> HIDE DEF q
<1>8. Stamped(q.mem["files"]) /\ (calm[p] => Undisturbed(q))
  BY <1>4, <1>5, <1>6, <1>7 DEF Undisturbed
<1> QED BY <1>1, <1>3, <1>8, PrivateStep

LEMMA DeriveCalm ==
    ASSUME ExactInv, NEW p \in Procs, Derive(p)
    PROVE  Stamps' /\ CalmInv'
<1> DEFINE texts == proc[p].mem["chunks"]
           mem == [[[proc[p].mem EXCEPT !["meta"] = "meta"] EXCEPT !["bm25"] = texts]
                     EXCEPT !["embeddings"] = texts]
           q == [proc[p] EXCEPT !.pc = "write", !.step = 1, !.mem = mem]
<1>1. UNCHANGED <<tree, index, calm>> /\ spent'.edits = spent.edits
  BY SameTree
<1>2. /\ proc \in [Procs -> Process] /\ proc[p] \in Process /\ Typed(proc[p].mem)
      /\ Stamped(proc[p].mem["files"]) /\ proc[p].pc = "record"
      /\ calm[p] => texts = TextsNow
  BY ProcessTypes DEF ExactInv, IndInv, TypeInv, Stamps, CalmInv, Derive, Undisturbed
<1>3. proc' = [proc EXCEPT ![p] = q]
  BY ZenonT(60), <1>2 DEF Derive, Process
<1>4. mem["chunks"] = texts /\ mem["files"] = proc[p].mem["files"]
  BY <1>2, PartNames DEF Typed
<1> HIDE DEF mem
<1>5. q.pc = "write" /\ q.mem = mem
  BY <1>2 DEF Process
<1> HIDE DEF q
<1>6. Stamped(q.mem["files"]) /\ (calm[p] => Undisturbed(q))
  BY <1>2, <1>4, <1>5 DEF Undisturbed
<1> QED BY <1>1, <1>3, <1>6, PrivateStep

LEMMA EndBuildCalm ==
    ASSUME ExactInv, NEW p \in Procs, EndBuild(p)
    PROVE  Stamps' /\ CalmInv'
<1> DEFINE q == [proc[p] EXCEPT !.pc = "open", !.step = 1, !.got = "built"]
<1>1. UNCHANGED <<tree, index, calm>> /\ spent'.edits = spent.edits
  BY SameTree
<1>2. /\ proc \in [Procs -> Process] /\ proc[p] \in Process
      /\ Stamped(proc[p].mem["files"]) /\ Whole(proc[p].mem)
      /\ calm[p] => proc[p].mem["chunks"] = TextsNow
  BY ProcessTypes DEF ExactInv, IndInv, TypeInv, Stamps, CalmInv, EndBuild, Undisturbed, ProcInv, Writing
<1>3. proc' = [proc EXCEPT ![p] = q]
  BY <1>2 DEF EndBuild
<1>4. q.pc = "open" /\ q.mem = proc[p].mem /\ q.got = "built"
  BY <1>2 DEF Process
<1> HIDE DEF q
<1>5. Stamped(q.mem["files"]) /\ (calm[p] => Undisturbed(q))
  BY <1>2, <1>4 DEF Undisturbed
<1> QED BY <1>1, <1>3, <1>5, PrivateStep

LEMMA CalmNext == ExactInv /\ [Next]_vars => ExactInv'
<1> SUFFICES ASSUME ExactInv, [Next]_vars PROVE Stamps' /\ CalmInv'
  BY NextInv DEF ExactInv
<1>1. ASSUME NEW p \in Procs, Step(p)
      PROVE  Stamps' /\ CalmInv'
  <2>1. CASE LoadPart(p) \/ EndLoad(p)
    BY <2>1, LoadCalm
  <2>2. CASE Lock(p) \/ ChunkFiles(p) \/ Derive(p)
    BY <2>2, LockCalm, ChunkCalm, DeriveCalm
  <2>3. CASE \E f \in Files : RecordFile(p, f)
    BY <2>3, RecordCalm
  <2>4. CASE WritePart(p) \/ EndBuild(p)
    BY <2>4, WriteCalm, EndBuildCalm
  <2> QED BY <1>1, <2>1, <2>2, <2>3, <2>4 DEF Step
<1>2. ASSUME NEW p \in Procs, Open(p) \/ Stops(p) \/ LoadFails(p)
      PROVE  Stamps' /\ CalmInv'
  BY <1>2, OpenCalm, LoadCalm
<1>3. CASE \E f \in Files, text \in Texts \cup {Missing} : Edit(f, text)
  BY <1>3, EditCalm
<1>4. CASE UNCHANGED vars
  BY <1>4 DEF vars, ExactInv, Stamps, Stamped, CalmInv, Undisturbed, TextsNow, Present, Fresh,
              Unchanged, Whole
<1> QED BY <1>1, <1>2, <1>3, <1>4 DEF Next

(* A record with the size and time, or with the hash, of the file on disk  *)
(* is a record of its text.                                                *)
LEMMA FreshIsCurrent ==
    ASSUME NEW records, records # Missing, Stamped(records), Fresh(records)
    PROVE  DOMAIN records = Present /\ \A f \in Present : records[f].hash = tree[f].text
BY DEF Fresh, Unchanged, Stamped

(***************************************************************************)
(* For any number of processes, files and edits, killed or failing         *)
(* anywhere: an open that nobody disturbed returns the chunks of the tree  *)
(* as it is, if it built, and if it loaded files that are whole and whose  *)
(* records were taken from the text that was chunked (Index::open).        *)
(***************************************************************************)
THEOREM CalmOpensAreExact == Spec => []ExactWhenCalm
<1>1. Init => ExactInv
  BY InitInv, CalmInit DEF ExactInv
<1>2. ExactInv => ExactWhenCalm
  <2> SUFFICES ASSUME ExactInv, NEW p \in Procs, proc[p].pc = "open", calm[p],
                      proc[p].got = "loaded" => Whole(index) /\ RecordedAsChunked
               PROVE  Whole(proc[p].mem) /\ proc[p].mem["chunks"] = TextsNow
    BY DEF ExactWhenCalm, TextsNow
  <2>1. Undisturbed(proc[p]) /\ Typed(proc[p].mem) /\ Stamped(proc[p].mem["files"])
    BY ProcessTypes DEF ExactInv, CalmInv, Stamps
  <2>2. CASE proc[p].got # "loaded"
    BY <2>1, <2>2 DEF Undisturbed
  <2>3. CASE proc[p].got = "loaded"
    <3> DEFINE chunks == index["chunks"]
               records == index["files"]
    <3>1. /\ \A part \in Parts : proc[p].mem[part] = index[part] /\ index[part] # Missing
          /\ Fresh(records) /\ Stamped(records)
      BY <2>1, <2>3, PartNames DEF Undisturbed
    <3>2. Whole(proc[p].mem)
      BY <2>3, <3>1, PartNames DEF Whole
    <3>3. DOMAIN chunks = Present /\ \A f \in Present : records[f].hash = chunks[f]
      BY <2>3, <3>1 DEF Whole, RecordedAsChunked, Fresh
    <3>4. records # Missing /\ chunks \in TextMaps
      BY <3>1, PartNames DEF ExactInv, IndInv, TypeInv, Typed, TextParts
    <3>5. PICK S \in SUBSET Files : chunks \in [S -> Texts]
      BY <3>4 DEF TextMaps
    <3>6. \A f \in Present : chunks[f] = tree[f].text
      BY <3>1, <3>3, <3>4, FreshIsCurrent
    <3>7. proc[p].mem["chunks"] = chunks
      BY <3>1, PartNames
    <3> HIDE DEF chunks, records
    <3>8. chunks = TextsNow
      BY <3>3, <3>5, <3>6 DEF TextsNow
    <3> QED BY <3>2, <3>7, <3>8
  <2> QED BY <2>2, <2>3
<1> QED BY <1>1, CalmNext, <1>2, PTL DEF Spec

=============================================================================
