------------------------- MODULE SearchStoreProofs -------------------------
(***************************************************************************)
(* Theorems about SearchStore for every set of processes, repos, files,    *)
(* texts, models and widths, and every value of the bounds: about          *)
(* commands that run at once, and then about commands one at a time.       *)
(***************************************************************************)
EXTENDS SearchStore, FiniteSetTheorems, TLAPS

-----------------------------------------------------------------------------
(* Type correctness. *)

\* A model's vectors are rows of a vec0 table, whatever rows it encodes.
LEMMA EncodeType ==
  ASSUME NEW S \in SUBSET Row, NEW m \in [name : ModelName, dim : Dim]
  PROVE  Encode(S, m) \in SUBSET Vec
BY DEF Encode, Row, Vec

LEMMA ModelType ==
  ASSUME NEW c \in Config
  PROVE  Model(c) \in [name : ModelName, dim : Dim]
BY ConstantsAssumption DEF Model

LEMMA PotionType == Potion \in [name : ModelName, dim : Dim]
BY ConstantsAssumption DEF Potion

LEMMA ChunkFilesType ==
  ASSUME TypeOK, NEW r \in Repo, NEW fs \in SUBSET File
  PROVE  ChunkFiles(r, fs) \in SUBSET Piece
BY DEF TypeOK, ChunkFiles, Piece

LEMMA InitType == Init => TypeOK
<1> SUFFICES ASSUME Init PROVE TypeOK
  OBVIOUS
<1> USE DEF Init, DbInit
<1>1. DbTypeOK
  BY DEF DbTypeOK, Lane
<1>2. mem \in [Proc -> Memory]
  BY DEF Memory, Blank
<1>3. pc \in [Proc -> Label]
  BY DEF Label
<1>4. spent \in [commands : 0..MaxCommands, faults : 0..MaxFaults, edits : 0..MaxEdits]
  BY ConstantsAssumption
<1> QED BY <1>1, <1>2, <1>3, <1>4 DEF TypeOK

\* The statements keep the tables typed.
LEMMA StatementTypes ==
  ASSUME DbTypeOK, NEW l \in Lane, NEW r, NEW fs
  PROVE  /\ DeleteVecsOf(l, r, fs) => vecs' \in [Lane -> SUBSET Vec]
         /\ DeleteRowsOf(l, r, fs) => rows' \in [Lane -> SUBSET Row]
         /\ \A f \in File, t \in Text :
              r \in Repo /\ InsertRow(l, r, f, t) =>
                rows' \in [Lane -> SUBSET Row] /\ nextId' \in [Lane -> Nat]
         /\ \A b \in SUBSET Vec : \A d : UpsertVecs(l, b, d) => vecs' \in [Lane -> SUBSET Vec]
<1> USE DEF DbTypeOK
<1>1. DeleteVecsOf(l, r, fs) => vecs' \in [Lane -> SUBSET Vec]
  BY DEF DeleteVecsOf
<1>2. DeleteRowsOf(l, r, fs) => rows' \in [Lane -> SUBSET Row]
  BY DEF DeleteRowsOf, RowsOf
<1>3. ASSUME NEW f \in File, NEW t \in Text, r \in Repo, InsertRow(l, r, f, t)
      PROVE  rows' \in [Lane -> SUBSET Row] /\ nextId' \in [Lane -> Nat]
  <2>1. [id |-> nextId[l], repo |-> r, file |-> f, text |-> t] \in Row
    BY <1>3 DEF Row
  <2> QED BY <1>3, <2>1 DEF InsertRow
<1>4. ASSUME NEW b \in SUBSET Vec, NEW d, UpsertVecs(l, b, d)
      PROVE  vecs' \in [Lane -> SUBSET Vec]
  BY <1>4 DEF UpsertVecs
<1> QED BY <1>1, <1>2, <1>3, <1>4

-----------------------------------------------------------------------------
(* TypeOK is not inductive by itself: a process that is at work on a job    *)
(* has a repo at hand, and one that runs has read a configuration.          *)

JobLabel == {"chunk", "deleteVecs", "deleteRows", "insert"}

Settled(l, m) ==
  /\ l # "idle" => m.cfg \in Config
  /\ l \in JobLabel => m.repo \in Repo

TypeInv == TypeOK /\ \A p \in Proc : Settled(pc[p], mem[p])

Spent == [commands : 0..MaxCommands, faults : 0..MaxFaults, edits : 0..MaxEdits]

LEMMA BlankType == Blank \in Memory
BY DEF Blank, Memory

\* A step of process p that leaves it at label l with memory m.
LEMMA ProcessStep ==
  ASSUME TypeInv, NEW p \in Proc, NEW m \in Memory, NEW l \in Label,
         mem' = [mem EXCEPT ![p] = m], pc' = [pc EXCEPT ![p] = l], Settled(l, m),
         DbTypeOK', spent' \in Spent, UNCHANGED userVars
  PROVE  TypeInv'
<1> USE DEF TypeInv
<1>1. TypeOK'
  BY DEF TypeOK, userVars, Spent
<1>2. \A q \in Proc : Settled(pc'[q], mem'[q])
  BY DEF TypeOK
<1> QED BY <1>1, <1>2

LEMMA GoneType ==
  ASSUME TypeInv, NEW p \in Proc, Gone(p), spent' \in Spent
  PROVE  TypeInv'
<1>1. DbTypeOK'
  BY DEF TypeInv, TypeOK, DbTypeOK, Gone, dbVars
<1>2. Settled("idle", Blank) /\ "idle" \in Label
  BY DEF Settled, JobLabel, Label
<1> QED BY <1>1, <1>2, BlankType, ProcessStep DEF Gone, Goto

LEMMA StartType ==
  ASSUME TypeInv, NEW p \in Proc, NEW c \in Command, Start(p, c)
  PROVE  TypeInv'
<1> DEFINE m == [Blank EXCEPT !.cmd = c, !.cfg = config]
<1> USE DEF TypeInv, TypeOK, Start
<1>1. m \in Memory /\ m.cfg \in Config
  BY ConstantsAssumption DEF Blank, Memory
<1>2. Settled("readDim", m) /\ "readDim" \in Label
  BY <1>1 DEF Settled, JobLabel, Label, OpenLabel
<1>3. spent' \in Spent
  BY ConstantsAssumption DEF Spent
<1>4. DbTypeOK'
  BY ConstantsAssumption DEF DbTypeOK, Open, dbVars, Lane
<1>5. mem' = [mem EXCEPT ![p] = m] /\ pc' = [pc EXCEPT ![p] = "readDim"]
  BY DEF Open, Goto
<1> QED BY ONLY TypeInv, <1>1, <1>2, <1>3, <1>4, <1>5, Start(p, c), ProcessStep DEF Start

LEMMA OpenStepType ==
  ASSUME TypeInv, NEW p \in Proc, OpenStep(p)
  PROVE  TypeInv'
<1> USE DEF TypeInv, TypeOK, OpenStep
<1> SUFFICES ASSUME NEW l \in Label \ JobLabel, pc' = [pc EXCEPT ![p] = l], pc[p] # "idle",
                    DbTypeOK'
             PROVE  TypeInv'
  <2> USE DEF DbTypeOK, Goto, dbVars, openVars, tables, Label, OpenLabel, JobLabel
  <2>1. CASE ReadDim(p)
    BY <2>1 DEF ReadDim
  <2>2. CASE DropTable(p)
    BY <2>2 DEF DropTable
  <2>3. CASE CreateTable(p)
    BY <2>3 DEF CreateTable
  <2>4. CASE WriteDim(p)
    BY <2>4 DEF WriteDim, Lane
  <2> QED BY <2>1, <2>2, <2>3, <2>4 DEF Opening
<1>1. mem[p] \in Memory /\ mem' = [mem EXCEPT ![p] = mem[p]]
  OBVIOUS
<1>2. Settled(l, mem[p])
  BY DEF Settled
<1>3. spent' \in Spent
  BY DEF Spent
<1> QED BY <1>1, <1>2, <1>3, ProcessStep

\* The same for a step that touches nothing but the process.
LEMMA LocalStep ==
  ASSUME TypeInv, NEW p \in Proc, NEW m \in Memory, NEW l \in Label,
         mem' = [mem EXCEPT ![p] = m], Goto(p, l), Settled(l, m),
         UNCHANGED <<dbVars, userVars, openVars, spent>>
  PROVE  TypeInv'
<1>1. DbTypeOK' /\ spent' \in Spent
  BY DEF TypeInv, TypeOK, DbTypeOK, dbVars, openVars, Spent
<1> QED BY <1>1, ProcessStep DEF Goto

\* What TypeInv says of one process.
LEMMA ProcessTypes ==
  ASSUME TypeInv, NEW p \in Proc
  PROVE  /\ mem[p] \in Memory
         /\ pc[p] \in Label
         /\ pc[p] # "idle" => mem[p].cfg \in Config
         /\ pc[p] \in JobLabel => mem[p].repo \in Repo
BY DEF TypeInv, TypeOK, Settled

LEMMA BeginType ==
  ASSUME TypeInv, NEW p \in Proc, BeginBuild(p) \/ BeginUpdate(p)
  PROVE  TypeInv'
<1>1. PICK jobs \in SUBSET Job : mem' = [mem EXCEPT ![p].todo = jobs]
  <2>1. WholeRepos \in SUBSET Job
    BY DEF WholeRepos, Job
  <2>2. ASSUME NEW changed \in SUBSET (Repo \X File)
        PROVE  {[repo |-> c[1], files |-> {c[2]}] : c \in changed} \in SUBSET Job
    BY DEF Job
  <2> QED BY <2>1, <2>2 DEF BeginBuild, BeginUpdate
<1> DEFINE m == [mem[p] EXCEPT !.todo = jobs]
<1>2. m \in Memory /\ mem' = [mem EXCEPT ![p] = m]
  BY <1>1, ProcessTypes DEF Memory
<1>3. Settled("nextJob", m) /\ "nextJob" \in Label
  BY ProcessTypes DEF BeginBuild, BeginUpdate, Settled, JobLabel, Label, Memory
<1>4. Goto(p, "nextJob") /\ UNCHANGED <<dbVars, userVars, openVars, spent>>
  BY DEF BeginBuild, BeginUpdate
<1> HIDE DEF m
<1> QED BY <1>2, <1>3, <1>4, LocalStep

LEMMA TakeJobType ==
  ASSUME TypeInv, NEW p \in Proc, TakeJob(p)
  PROVE  TypeInv'
<1>1. PICK j \in mem[p].todo :
        mem' = [mem EXCEPT ![p].todo = @ \ {j}, ![p].repo = j.repo, ![p].files = j.files]
  BY DEF TakeJob
<1> DEFINE m == [mem[p] EXCEPT !.todo = @ \ {j}, !.repo = j.repo, !.files = j.files]
<1> DEFINE l == IF mem[p].cmd = "build" THEN "chunk" ELSE "deleteVecs"
<1>2. m \in Memory /\ m.repo \in Repo /\ m.cfg = mem[p].cfg
  BY ProcessTypes DEF Memory, Job
<1>3. mem' = [mem EXCEPT ![p] = m]
  BY <1>1, ProcessTypes DEF TypeInv, TypeOK
<1>4. Settled(l, m) /\ l \in Label
  BY <1>2, ProcessTypes DEF TakeJob, Settled, Label
<1>5. Goto(p, l) /\ UNCHANGED <<dbVars, userVars, openVars, spent>>
  BY DEF TakeJob
<1> HIDE DEF m, l
<1> QED BY <1>2, <1>3, <1>4, <1>5, LocalStep

LEMMA ChunkJobType ==
  ASSUME TypeInv, NEW p \in Proc, ChunkJob(p)
  PROVE  TypeInv'
<1> DEFINE pieces == ChunkFiles(mem[p].repo, mem[p].files)
<1> DEFINE m == [mem[p] EXCEPT !.goal = pieces, !.work = pieces]
<1> DEFINE l == IF mem[p].cmd = "build" THEN "deleteVecs" ELSE "insert"
<1>1. mem[p].repo \in Repo /\ mem[p].cfg \in Config
  BY ProcessTypes DEF ChunkJob, JobLabel
<1>2. pieces \in SUBSET Piece
  BY <1>1, ProcessTypes, ChunkFilesType DEF TypeInv, Memory
<1>3. m \in Memory /\ m.repo = mem[p].repo /\ m.cfg = mem[p].cfg
  BY <1>2, ProcessTypes DEF Memory
<1>4. mem' = [mem EXCEPT ![p] = m]
  BY ProcessTypes DEF ChunkJob, TypeInv, TypeOK
<1>5. Settled(l, m) /\ l \in Label
  BY <1>1, <1>3 DEF Settled, Label
<1>6. Goto(p, l) /\ UNCHANGED <<dbVars, userVars, openVars, spent>>
  BY DEF ChunkJob
<1> HIDE DEF m, l
<1> QED BY <1>3, <1>4, <1>5, <1>6, LocalStep

LEMMA ChunksDoneType ==
  ASSUME TypeInv, NEW p \in Proc, ChunksDone(p)
  PROVE  TypeInv'
<1> DEFINE m == [mem[p] EXCEPT !.todo = WholeRepos, !.repo = None]
<1>1. WholeRepos \in SUBSET Job
  BY DEF WholeRepos, Job
<1>2. m \in Memory /\ m.cfg = mem[p].cfg
  BY <1>1, ProcessTypes DEF Memory
<1>3. mem' = [mem EXCEPT ![p] = m]
  BY ProcessTypes DEF ChunksDone, TypeInv, TypeOK
<1>4. Settled("embed", m) /\ "embed" \in Label
  BY <1>2, ProcessTypes DEF ChunksDone, Settled, Label, JobLabel
<1>5. Goto(p, "embed") /\ UNCHANGED <<dbVars, userVars, openVars, spent>>
  BY DEF ChunksDone
<1> HIDE DEF m
<1> QED BY <1>2, <1>3, <1>4, <1>5, LocalStep

\* Encoding rows of the chunk table, by the configured model or by potion.
LEMMA EncodeStepType ==
  ASSUME TypeInv, NEW p \in Proc, EncodeRepo(p) \/ EncodeFresh(p)
  PROVE  TypeInv'
<1>1. PICK b \in SUBSET Vec, r \in Repo \cup {None}, jobs \in SUBSET Job, ids \in SUBSET Nat :
        mem' = [mem EXCEPT ![p] = [mem[p] EXCEPT !.todo = jobs, !.repo = r, !.ids = ids,
                                                 !.batch = b]]
  <2>1. CASE EncodeRepo(p)
    <3>1. PICK j \in mem[p].todo :
            mem' = [mem EXCEPT
                      ![p].todo = @ \ {j}, ![p].repo = j.repo,
                      ![p].batch = Encode(RowsOf("chunk", j.repo, File), Model(mem[p].cfg))]
      BY <2>1 DEF EncodeRepo
    <3> DEFINE b == Encode(RowsOf("chunk", j.repo, File), Model(mem[p].cfg))
    <3>2. mem[p].todo \ {j} \in SUBSET Job /\ j.repo \in Repo /\ mem[p].ids \in SUBSET Nat
      BY ProcessTypes DEF Memory, Job
    <3>3. b \in SUBSET Vec
      <4>1. RowsOf("chunk", j.repo, File) \in SUBSET Row
        BY DEF RowsOf, TypeInv, TypeOK, DbTypeOK, Lane
      <4>2. mem[p].cfg \in Config
        BY <2>1, ProcessTypes DEF EncodeRepo
      <4> QED BY <4>1, <4>2, EncodeType, ModelType
    <3> HIDE DEF b
    <3>4. mem' = [mem EXCEPT ![p] = [mem[p] EXCEPT !.todo = mem[p].todo \ {j}, !.repo = j.repo,
                                                   !.ids = mem[p].ids, !.batch = b]]
      BY <3>1, ProcessTypes DEF TypeInv, TypeOK, Memory, b
    <3> QED BY <3>2, <3>3, <3>4
  <2>2. CASE EncodeFresh(p)
    <3> DEFINE b == Encode({x \in rows["chunk"] : x.id \in mem[p].ids}, Potion)
    <3>1. b \in SUBSET Vec
      <4>1. {x \in rows["chunk"] : x.id \in mem[p].ids} \in SUBSET Row
        BY DEF TypeInv, TypeOK, DbTypeOK, Lane
      <4> QED BY <4>1, EncodeType, PotionType
    <3>2. mem[p].todo \in SUBSET Job /\ mem[p].repo \in Repo \cup {None}
      BY ProcessTypes DEF Memory
    <3> HIDE DEF b
    <3>3. mem' = [mem EXCEPT ![p] = [mem[p] EXCEPT !.todo = mem[p].todo, !.repo = mem[p].repo,
                                                   !.ids = {}, !.batch = b]]
      BY <2>2, ProcessTypes DEF EncodeFresh, TypeInv, TypeOK, Memory, b
    <3> QED BY <3>1, <3>2, <3>3
  <2> QED BY <2>1, <2>2
<1> DEFINE m == [mem[p] EXCEPT !.todo = jobs, !.repo = r, !.ids = ids, !.batch = b]
<1>2. m \in Memory /\ m.cfg = mem[p].cfg /\ mem' = [mem EXCEPT ![p] = m]
  BY <1>1, ProcessTypes DEF Memory
<1>3. Settled("upsert", m) /\ "upsert" \in Label
  BY <1>2, ProcessTypes DEF EncodeRepo, EncodeFresh, Settled, Label, JobLabel
<1>4. Goto(p, "upsert") /\ UNCHANGED <<dbVars, userVars, openVars, spent>>
  BY DEF EncodeRepo, EncodeFresh
<1> HIDE DEF m
<1> QED BY <1>2, <1>3, <1>4, LocalStep

\* JobDone and JobFails.
LEMMA EndJobType ==
  ASSUME TypeInv, NEW p \in Proc, NEW S \in SUBSET Nat, EndJob(p, S), pc[p] \in JobLabel,
         spent' \in Spent
  PROVE  TypeInv'
<1> DEFINE m == [mem[p] EXCEPT !.files = {}, !.goal = {}, !.work = {}, !.fresh = {},
                               !.ids = IF mem[p].cmd = "update" THEN @ \cup S ELSE @]
<1>1. m \in Memory /\ m.cfg = mem[p].cfg
  BY ProcessTypes DEF Memory
<1>2. mem' = [mem EXCEPT ![p] = m]
  BY ProcessTypes DEF EndJob, TypeInv, TypeOK
<1>3. Settled("nextJob", m) /\ "nextJob" \in Label
  BY <1>1, ProcessTypes DEF Settled, Label, JobLabel
<1>4. DbTypeOK' /\ pc' = [pc EXCEPT ![p] = "nextJob"] /\ UNCHANGED userVars
  BY DEF EndJob, Goto, TypeInv, TypeOK, DbTypeOK, dbVars, openVars
<1> HIDE DEF m
<1> QED BY <1>1, <1>2, <1>3, <1>4, ProcessStep

\* The statements that write a table.
LEMMA DeleteType ==
  ASSUME TypeInv, NEW p \in Proc, DeleteJobVecs(p) \/ DeleteJobRows(p)
  PROVE  TypeInv'
<1>1. PICK l \in JobLabel : Goto(p, l)
  BY DEF DeleteJobVecs, DeleteJobRows, JobLabel
<1>2. mem[p] \in Memory /\ mem' = [mem EXCEPT ![p] = mem[p]]
  BY ProcessTypes DEF DeleteJobVecs, DeleteJobRows, TypeInv, TypeOK
<1>3. Settled(l, mem[p]) /\ l \in Label
  BY ProcessTypes DEF DeleteJobVecs, DeleteJobRows, Settled, Label, JobLabel
<1>4. DbTypeOK'
  <2> USE DEF TypeInv, TypeOK, DbTypeOK, Lane, openVars
  <2>1. CASE DeleteJobVecs(p)
    BY <2>1, StatementTypes DEF DeleteJobVecs
  <2>2. CASE DeleteJobRows(p)
    BY <2>2, StatementTypes DEF DeleteJobRows
  <2> QED BY <2>1, <2>2
<1>5. spent' \in Spent /\ UNCHANGED userVars
  BY DEF DeleteJobVecs, DeleteJobRows, TypeInv, TypeOK, Spent
<1> QED BY <1>1, <1>2, <1>3, <1>4, <1>5, ProcessStep DEF Goto

LEMMA InsertChunkType ==
  ASSUME TypeInv, NEW p \in Proc, InsertChunk(p)
  PROVE  TypeInv'
<1>1. PICK c \in mem[p].work :
        /\ InsertRow("chunk", mem[p].repo, c[1], c[2])
        /\ mem' = [mem EXCEPT ![p].work = @ \ {c}, ![p].fresh = @ \cup {nextId["chunk"]}]
  BY DEF InsertChunk
<1> DEFINE m == [mem[p] EXCEPT !.work = @ \ {c}, !.fresh = @ \cup {nextId["chunk"]}]
<1>2. mem[p].repo \in Repo /\ c[1] \in File /\ c[2] \in Text /\ nextId["chunk"] \in Nat
  BY ProcessTypes DEF InsertChunk, JobLabel, Memory, Piece, TypeInv, TypeOK, DbTypeOK, Lane
<1>3. m \in Memory /\ m.cfg = mem[p].cfg /\ m.repo = mem[p].repo
  BY <1>2, ProcessTypes DEF Memory
<1>4. mem' = [mem EXCEPT ![p] = m]
  BY <1>1, ProcessTypes DEF TypeInv, TypeOK, Memory
<1>5. Settled("insert", m) /\ "insert" \in Label /\ pc' = [pc EXCEPT ![p] = "insert"]
  BY <1>3, ProcessTypes DEF InsertChunk, Settled, Label, JobLabel, TypeInv, TypeOK
<1>6. DbTypeOK'
  BY <1>1, <1>2, StatementTypes DEF InsertChunk, TypeInv, TypeOK, DbTypeOK, Lane, openVars
<1>7. spent' \in Spent /\ UNCHANGED userVars
  BY DEF InsertChunk, TypeInv, TypeOK, Spent
<1> HIDE DEF m
<1> QED BY <1>3, <1>4, <1>5, <1>6, <1>7, ProcessStep

\* Upsert, and an update that goes on without the vectors.
LEMMA NextRepoType ==
  ASSUME TypeInv, NEW p \in Proc, pc[p] = "upsert", NextRepo(p), DbTypeOK',
         UNCHANGED <<userVars, spent>>
  PROVE  TypeInv'
<1> DEFINE m == [mem[p] EXCEPT !.batch = {}, !.repo = None]
<1> DEFINE l == IF mem[p].cmd = "build" THEN "embed" ELSE "nextJob"
<1>1. m \in Memory /\ m.cfg = mem[p].cfg
  BY ProcessTypes DEF Memory
<1>2. mem' = [mem EXCEPT ![p] = m]
  BY ProcessTypes DEF NextRepo, TypeInv, TypeOK, Memory
<1>3. Settled(l, m) /\ l \in Label /\ pc' = [pc EXCEPT ![p] = l]
  BY <1>1, ProcessTypes DEF NextRepo, Goto, Settled, Label, JobLabel
<1>4. spent' \in Spent
  BY DEF TypeInv, TypeOK, Spent
<1> HIDE DEF m, l
<1> QED BY <1>1, <1>2, <1>3, <1>4, ProcessStep

LEMMA UpsertType ==
  ASSUME TypeInv, NEW p \in Proc, Upsert(p)
  PROVE  TypeInv'
<1>1. mem[p].batch \in SUBSET Vec
  BY ProcessTypes DEF Memory
<1>2. DbTypeOK'
  BY <1>1, StatementTypes DEF Upsert, TypeInv, TypeOK, DbTypeOK, Lane, openVars
<1> QED BY <1>2, NextRepoType DEF Upsert

LEMMA InitTypeInv == Init => TypeInv
BY InitType DEF TypeInv, Settled, JobLabel, Init, DbInit

LEMMA NextTypeInv == TypeInv /\ [Next]_vars => TypeInv'
<1> SUFFICES ASSUME TypeInv, [Next]_vars PROVE TypeInv'
  OBVIOUS
<1>spent. UNCHANGED spent => spent' \in Spent
  BY DEF TypeInv, TypeOK, Spent
<1>1. ASSUME NEW p \in Proc, NEW c \in Command, Start(p, c)
      PROVE  TypeInv'
  BY <1>1, StartType
<1>2. ASSUME NEW p \in Proc, Run(p)
      PROVE  TypeInv'
  <2>1. CASE OpenStep(p)
    BY <2>1, OpenStepType
  <2>2. CASE BeginBuild(p) \/ BeginUpdate(p)
    BY <2>2, BeginType
  <2>3. CASE TakeJob(p)
    BY <2>3, TakeJobType
  <2>4. CASE ChunkJob(p)
    BY <2>4, ChunkJobType
  <2>5. CASE DeleteJobVecs(p) \/ DeleteJobRows(p)
    BY <2>5, DeleteType
  <2>6. CASE InsertChunk(p)
    BY <2>6, InsertChunkType
  <2>7. CASE JobDone(p)
    <3>1. mem[p].fresh \in SUBSET Nat
      BY ProcessTypes DEF Memory
    <3> QED BY <2>7, <3>1, <1>spent, EndJobType DEF JobDone, JobLabel
  <2>8. CASE ChunksDone(p)
    BY <2>8, ChunksDoneType
  <2>9. CASE EncodeRepo(p) \/ EncodeFresh(p)
    BY <2>9, EncodeStepType
  <2>10. CASE Upsert(p)
    BY <2>10, UpsertType
  <2>11. CASE NotEmbedded(p)
    <3>1. CASE Gone(p) /\ UNCHANGED spent
      BY <3>1, <1>spent, GoneType
    <3>2. CASE pc[p] = "upsert" /\ NextRepo(p) /\ UNCHANGED <<dbVars, userVars, openVars, spent>>
      <4>1. DbTypeOK'
        BY <3>2 DEF TypeInv, TypeOK, DbTypeOK, dbVars, openVars
      <4> QED BY <3>2, <4>1, NextRepoType
    <3> QED BY <2>11, <3>1, <3>2 DEF NotEmbedded
  <2>12. CASE Query(p) \/ Finish(p)
    BY <2>12, <1>spent, GoneType DEF Query, Finish
  <2> QED BY <1>2, <2>1, <2>2, <2>3, <2>4, <2>5, <2>6, <2>7, <2>8, <2>9, <2>10, <2>11, <2>12
          DEF Run
<1>3. ASSUME NEW p \in Proc, Kill(p) \/ JobFails(p)
      PROVE  TypeInv'
  <2>1. spent' \in Spent
    BY <1>3, ConstantsAssumption DEF Kill, JobFails, TypeInv, TypeOK, Spent
  <2>2. CASE Kill(p)
    BY <2>1, <2>2, GoneType DEF Kill
  <2>3. CASE JobFails(p)
    BY <2>1, <2>3, EndJobType DEF JobFails, JobLabel
  <2> QED BY <1>3, <2>2, <2>3
<1>4. CASE EditFile \/ EditConfig
  <2>1. spent' \in Spent
    BY <1>4, ConstantsAssumption DEF EditFile, EditConfig, TypeInv, TypeOK, Spent
  <2>2. disk' \in [Repo -> [File -> SUBSET Text]] /\ config' \in Config
    BY <1>4 DEF EditFile, EditConfig, TypeInv, TypeOK
  <2>3. UNCHANGED <<dbVars, pc, openVars, mem>>
    BY <1>4 DEF EditFile, EditConfig
  <2> QED BY <2>1, <2>2, <2>3 DEF TypeInv, TypeOK, DbTypeOK, Spent, dbVars, openVars
<1>5. CASE UNCHANGED vars
  BY <1>5 DEF vars, TypeInv, TypeOK, DbTypeOK, Spent, dbVars, openVars, userVars
<1> QED BY <1>1, <1>2, <1>3, <1>4, <1>5 DEF Next

\* Type correctness: search.db, every process and its locals stay typed
\* whichever commands run, fail or are killed.
THEOREM TypeCorrect == Spec => []TypeOK
<1>1. TypeInv => TypeOK
  BY DEF TypeInv
<1> QED BY InitTypeInv, NextTypeInv, <1>1, PTL DEF Spec

-----------------------------------------------------------------------------
(* However many commands run at once, a vector stored under a chunk's id   *)
(* encodes that chunk's text.  The argument: sqlite_sequence is above every *)
(* id in use, in the tables and in the batches that are on their way, so a *)
(* new row never takes an id that a vector still bears.                    *)

chunks == rows["chunk"]
chunkVecs == vecs["chunk"]
next == nextId["chunk"]

\* Ids are unique among the rows and below sqlite_sequence.
IdsFresh ==
  /\ \A x \in chunks : x.id < next
  /\ \A x, y \in chunks : x.id = y.id => x = y
  /\ \A v \in chunkVecs : v.id < next

MatchInv == IdsFresh /\ VecMatchesRow /\ BatchMatchesRow

\* A step that only forgets: rows, vectors or batches go away.
Forgets ==
  /\ rows'["chunk"] \subseteq chunks
  /\ vecs'["chunk"] \subseteq chunkVecs
  /\ nextId'["chunk"] = next
  /\ \A p \in Proc : mem'[p].batch \subseteq mem[p].batch

LEMMA ForgetsMatch ==
  ASSUME MatchInv, Forgets
  PROVE  MatchInv'
BY DEF MatchInv, IdsFresh, VecMatchesRow, BatchMatchesRow, Forgets, chunks, chunkVecs, next

\* Two ways a step keeps every batch.
LEMMA KeptBatch ==
  ASSUME TypeInv, NEW p \in Proc, NEW m, m.batch \subseteq mem[p].batch,
         mem' = [mem EXCEPT ![p] = m]
  PROVE  \A q \in Proc : mem'[q].batch \subseteq mem[q].batch
BY DEF TypeInv, TypeOK

LEMMA GoneForgets ==
  ASSUME TypeInv, NEW p \in Proc, Gone(p)
  PROVE  Forgets
BY KeptBatch DEF Gone, Blank, Forgets, chunks, chunkVecs, next, dbVars

LEMMA OpenForgets ==
  ASSUME TypeInv, NEW p \in Proc, OpenStep(p)
  PROVE  Forgets
<1> USE DEF TypeInv, TypeOK, DbTypeOK, OpenStep, Forgets, chunks, chunkVecs, next,
            dbVars, openVars, tables
<1>1. CASE ReadDim(p)
  BY <1>1 DEF ReadDim
<1>2. CASE DropTable(p)
  BY <1>2 DEF DropTable, Lane
<1>3. CASE CreateTable(p)
  BY <1>3 DEF CreateTable
<1>4. CASE WriteDim(p)
  BY <1>4 DEF WriteDim
<1> QED BY <1>1, <1>2, <1>3, <1>4 DEF Opening

\* The steps of a process that neither insert, encode nor upsert.
LEMMA ProcessForgets ==
  ASSUME TypeInv, NEW p \in Proc,
         \/ BeginBuild(p) \/ BeginUpdate(p) \/ TakeJob(p) \/ ChunkJob(p)
         \/ DeleteJobVecs(p) \/ DeleteJobRows(p) \/ JobDone(p) \/ ChunksDone(p) \/ JobFails(p)
         \/ \E c \in Command : Start(p, c)
         \/ NextRepo(p) /\ UNCHANGED <<dbVars, userVars, openVars, spent>>
  PROVE  Forgets
<1> USE DEF TypeInv, TypeOK, Memory, Forgets, chunks, chunkVecs, next
<1>1. CASE BeginBuild(p) \/ BeginUpdate(p)
  <2>1. PICK jobs : mem' = [mem EXCEPT ![p].todo = jobs]
    BY <1>1 DEF BeginBuild, BeginUpdate
  <2> QED BY <1>1, <2>1 DEF BeginBuild, BeginUpdate, dbVars
<1>2. CASE TakeJob(p)
  <2>1. PICK j \in mem[p].todo :
          mem' = [mem EXCEPT ![p].todo = @ \ {j}, ![p].repo = j.repo, ![p].files = j.files]
    BY <1>2 DEF TakeJob
  <2> DEFINE m == [mem[p] EXCEPT !.todo = @ \ {j}, !.repo = j.repo, !.files = j.files]
  <2>2. mem' = [mem EXCEPT ![p] = m]
    BY <2>1
  <2>3. m.batch = mem[p].batch
    OBVIOUS
  <2> HIDE DEF m
  <2> QED BY <1>2, <2>2, <2>3, KeptBatch DEF TakeJob, dbVars
<1>3. CASE ChunkJob(p)
  BY <1>3 DEF ChunkJob, dbVars
<1>4. CASE ChunksDone(p)
  BY <1>4 DEF ChunksDone, dbVars
<1>5. CASE JobDone(p) \/ JobFails(p)
  BY <1>5 DEF JobDone, JobFails, EndJob, dbVars
<1>6. CASE NextRepo(p) /\ UNCHANGED <<dbVars, userVars, openVars, spent>>
  BY <1>6 DEF NextRepo, dbVars
<1>7. CASE DeleteJobVecs(p)
  BY <1>7 DEF DeleteJobVecs, DeleteVecsOf, DbTypeOK, Lane
<1>8. CASE DeleteJobRows(p)
  BY <1>8 DEF DeleteJobRows, DeleteRowsOf, DbTypeOK, Lane
<1>9. CASE \E c \in Command : Start(p, c)
  <2>1. PICK c \in Command : mem' = [mem EXCEPT ![p] = [Blank EXCEPT !.cmd = c, !.cfg = config]]
    BY <1>9 DEF Start
  <2>2. [Blank EXCEPT !.cmd = c, !.cfg = config].batch = {}
    BY DEF Blank
  <2> QED BY <1>9, <2>1, <2>2, KeptBatch DEF Start, Open, dbVars
<1> QED BY <1>1, <1>2, <1>3, <1>4, <1>5, <1>6, <1>7, <1>8, <1>9

\* A new row takes an id above every id a row, a vector or a batch bears.
LEMMA InsertMatch ==
  ASSUME TypeInv, MatchInv, NEW p \in Proc, InsertChunk(p)
  PROVE  MatchInv'
<1>1. PICK c \in mem[p].work :
        /\ InsertRow("chunk", mem[p].repo, c[1], c[2])
        /\ mem' = [mem EXCEPT ![p].work = @ \ {c}, ![p].fresh = @ \cup {nextId["chunk"]}]
  BY DEF InsertChunk
<1> DEFINE new == [id |-> next, repo |-> mem[p].repo, file |-> c[1], text |-> c[2]]
<1>2. /\ rows'["chunk"] = chunks \cup {new}
      /\ nextId'["chunk"] = next + 1
      /\ vecs'["chunk"] = chunkVecs
      /\ next \in Nat
  BY <1>1 DEF InsertRow, InsertChunk, TypeInv, TypeOK, DbTypeOK, Lane, chunks, chunkVecs, next
<1>3. \A q \in Proc : mem'[q].batch = mem[q].batch
  BY <1>1 DEF TypeInv, TypeOK, Memory
<1>4. \A x \in chunks \cup chunkVecs : x.id \in Nat
  BY DEF TypeInv, TypeOK, DbTypeOK, Row, Vec, Lane, chunks, chunkVecs
<1>5. \A q \in Proc : \A v \in mem[q].batch : v.id \in Nat
  BY ProcessTypes DEF Memory, Vec
<1>6. new.id = next
  OBVIOUS
<1> HIDE DEF new
<1>7. IdsFresh'
  BY <1>2, <1>4, <1>6 DEF MatchInv, IdsFresh, chunks, chunkVecs, next
<1>8. VecMatchesRow'
  BY <1>2, <1>4, <1>6 DEF MatchInv, IdsFresh, VecMatchesRow, chunks, chunkVecs, next
<1>9. BatchMatchesRow'
  BY <1>2, <1>3, <1>5, <1>6 DEF MatchInv, BatchMatchesRow, chunks, next
<1> QED BY <1>7, <1>8, <1>9 DEF MatchInv

\* A batch is computed from rows that are there.
LEMMA EncodedRows ==
  ASSUME TypeInv, NEW p \in Proc, EncodeRepo(p) \/ EncodeFresh(p)
  PROVE  \A v \in mem'[p].batch : \E x \in chunks : v.id = x.id /\ v.text = x.text
<1>1. PICK S \in SUBSET chunks : \E m : mem'[p].batch = Encode(S, m)
  <2>1. CASE EncodeRepo(p)
    <3>1. PICK j \in mem[p].todo :
            mem' = [mem EXCEPT
                      ![p].todo = @ \ {j}, ![p].repo = j.repo,
                      ![p].batch = Encode(RowsOf("chunk", j.repo, File), Model(mem[p].cfg))]
      BY <2>1 DEF EncodeRepo
    <3>2. mem'[p].batch = Encode(RowsOf("chunk", j.repo, File), Model(mem[p].cfg))
      BY <3>1 DEF TypeInv, TypeOK, Memory
    <3>3. RowsOf("chunk", j.repo, File) \in SUBSET chunks
      BY DEF RowsOf, chunks
    <3> QED BY <3>2, <3>3
  <2>2. CASE EncodeFresh(p)
    <3>1. mem'[p].batch = Encode({x \in rows["chunk"] : x.id \in mem[p].ids}, Potion)
      BY <2>2 DEF EncodeFresh, TypeInv, TypeOK, Memory
    <3>2. {x \in rows["chunk"] : x.id \in mem[p].ids} \in SUBSET chunks
      BY DEF chunks
    <3> QED BY <3>1, <3>2
  <2> QED BY <2>1, <2>2
<1> QED BY <1>1 DEF Encode

LEMMA EncodeMatch ==
  ASSUME TypeInv, MatchInv, NEW p \in Proc, EncodeRepo(p) \/ EncodeFresh(p)
  PROVE  MatchInv'
<1>1. \A v \in mem'[p].batch : \E x \in chunks : v.id = x.id /\ v.text = x.text
  BY EncodedRows
<1>2. \A q \in Proc \ {p} : mem'[q].batch = mem[q].batch
  BY DEF EncodeRepo, EncodeFresh, TypeInv, TypeOK
<1>3. UNCHANGED <<rows, vecs, nextId>>
  BY DEF EncodeRepo, EncodeFresh, dbVars
<1>4. BatchMatchesRow'
  <2> SUFFICES ASSUME NEW q \in Proc, NEW v \in mem'[q].batch
               PROVE  /\ v.id < next
                      /\ \A x \in chunks : x.id = v.id => x.text = v.text
    BY <1>3 DEF BatchMatchesRow, chunks, next
  <2>1. CASE q = p
    BY <2>1, <1>1 DEF MatchInv, IdsFresh
  <2>2. CASE q # p
    BY <2>2, <1>2 DEF MatchInv, BatchMatchesRow, chunks, next
  <2> QED BY <2>1, <2>2
<1> QED BY <1>3, <1>4 DEF MatchInv, IdsFresh, VecMatchesRow, chunks, chunkVecs, next

\* A batch is written as it is.
LEMMA UpsertMatch ==
  ASSUME TypeInv, MatchInv, NEW p \in Proc, Upsert(p)
  PROVE  MatchInv'
<1>1. vecs'["chunk"] \subseteq chunkVecs \cup mem[p].batch
  BY DEF Upsert, UpsertVecs, TypeInv, TypeOK, DbTypeOK, Lane, chunkVecs
<1>2. \A q \in Proc : mem'[q].batch \subseteq mem[q].batch
  BY DEF Upsert, NextRepo, TypeInv, TypeOK, Memory
<1>3. UNCHANGED <<rows, nextId>>
  BY DEF Upsert
<1> QED BY <1>1, <1>2, <1>3
        DEF MatchInv, IdsFresh, VecMatchesRow, BatchMatchesRow, chunks, chunkVecs, next

LEMMA NextMatch == TypeInv /\ MatchInv /\ [Next]_vars => MatchInv'
<1> SUFFICES ASSUME TypeInv, MatchInv, [Next]_vars PROVE MatchInv'
  OBVIOUS
<1>1. ASSUME NEW p \in Proc, Run(p)
      PROVE  MatchInv'
  <2>1. CASE OpenStep(p)
    BY <2>1, OpenForgets, ForgetsMatch
  <2>2. CASE Query(p) \/ Finish(p)
    BY <2>2, GoneForgets, ForgetsMatch DEF Query, Finish
  <2>3. CASE \/ BeginBuild(p) \/ BeginUpdate(p) \/ TakeJob(p) \/ ChunkJob(p)
             \/ DeleteJobVecs(p) \/ DeleteJobRows(p) \/ JobDone(p) \/ ChunksDone(p)
    BY <2>3, ProcessForgets, ForgetsMatch
  <2>4. CASE InsertChunk(p)
    BY <2>4, InsertMatch
  <2>5. CASE EncodeRepo(p) \/ EncodeFresh(p)
    BY <2>5, EncodeMatch
  <2>6. CASE Upsert(p)
    BY <2>6, UpsertMatch
  <2>7. CASE NotEmbedded(p)
    BY <2>7, GoneForgets, ProcessForgets, ForgetsMatch DEF NotEmbedded
  <2> QED BY <1>1, <2>1, <2>2, <2>3, <2>4, <2>5, <2>6, <2>7 DEF Run
<1>2. ASSUME NEW p \in Proc, Kill(p)
      PROVE  MatchInv'
  BY <1>2, GoneForgets, ForgetsMatch DEF Kill
<1>3. ASSUME NEW p \in Proc, JobFails(p) \/ \E c \in Command : Start(p, c)
      PROVE  MatchInv'
  BY <1>3, ProcessForgets, ForgetsMatch
<1>4. CASE EditFile \/ EditConfig \/ UNCHANGED vars
  BY <1>4 DEF EditFile, EditConfig, vars, dbVars, MatchInv, IdsFresh, VecMatchesRow,
              BatchMatchesRow, chunks, chunkVecs, next
<1> QED BY <1>1, <1>2, <1>3, <1>4 DEF Next

LEMMA InitMatch == Init => MatchInv
BY DEF Init, DbInit, Lane, Blank, MatchInv, IdsFresh, VecMatchesRow, BatchMatchesRow,
       chunks, chunkVecs, next

\* For any number of processes: the text a vector was computed from is the
\* text of the chunk that bears its id.
THEOREM VectorsMatchRows == Spec => []VecMatchesRow
<1>1. TypeInv /\ MatchInv => VecMatchesRow
  BY DEF MatchInv
<1> QED BY InitTypeInv, NextTypeInv, InitMatch, NextMatch, <1>1, PTL DEF Spec

\* For any number of processes: so are the vectors a command is about to write.
THEOREM BatchesMatchRows == Spec => []BatchMatchesRow
<1>1. TypeInv /\ MatchInv => BatchMatchesRow
  BY DEF MatchInv
<1> QED BY InitTypeInv, NextTypeInv, InitMatch, NextMatch, <1>1, PTL DEF Spec

-----------------------------------------------------------------------------
(***************************************************************************)
(* When commands run one at a time: whichever of them are killed or fail,  *)
(* no vector outlives its chunk, the lane is a VectorIndex, a job replaces *)
(* exactly the rows it is about, a build that says Done has embedded every *)
(* chunk, and an update leaves the files it is not at alone; as long as    *)
(* none is killed or fails, both columns are as wide as the handle.  The   *)
(* assumption is needed: a build that deletes a repo's rows leaves the     *)
(* vectors that another build, at once, has just written for them.         *)
(***************************************************************************)
\* There is at most one process to run commands in.
OneProcess == \A p, q \in Proc : p = q

\* Between two statements that belong together.  A batch about to be written
\* belongs to rows that are there; rows about to be deleted have no vector.
Coupled(p) ==
  /\ pc[p] = "upsert" => Ids(mem[p].batch) \subseteq Ids(chunks)
  /\ pc[p] = "deleteRows" =>
       \A x \in RowsOf("chunk", mem[p].repo, mem[p].files), v \in chunkVecs : v.id # x.id

CoupledInv == NoDanglingVec /\ \A p \in Proc : Coupled(p)

Quiet == {"upsert", "deleteRows"}

\* A step that loses no row, adds no vector and ends between no two such
\* statements.
LEMMA QuietStep ==
  ASSUME OneProcess, CoupledInv, NEW p \in Proc, pc'[p] \notin Quiet,
         chunks \subseteq rows'["chunk"], vecs'["chunk"] \subseteq chunkVecs
  PROVE  CoupledInv'
<1>1. NoDanglingVec'
  BY DEF CoupledInv, NoDanglingVec, Ids, chunks, chunkVecs
<1>2. ASSUME NEW q \in Proc PROVE Coupled(q)'
  <2>1. q = p
    BY DEF OneProcess
  <2> QED BY <2>1 DEF Coupled, Quiet
<1> QED BY <1>1, <1>2 DEF CoupledInv

LEMMA OpenStepCoupled ==
  ASSUME OneProcess, TypeInv, CoupledInv, NEW p \in Proc, OpenStep(p)
  PROVE  CoupledInv'
<1>1. pc'[p] \notin Quiet
  BY DEF OpenStep, Opening, ReadDim, DropTable, CreateTable, WriteDim, Goto, Quiet,
         TypeInv, TypeOK
<1>2. rows'["chunk"] = chunks
  BY DEF OpenStep, Opening, ReadDim, DropTable, CreateTable, WriteDim, dbVars, tables, chunks
<1> QED BY <1>1, <1>2, OpenForgets, QuietStep DEF Forgets

\* The other steps that leave the chunk lane alone.
LEMMA LocalStepCoupled ==
  ASSUME OneProcess, TypeInv, CoupledInv, NEW p \in Proc,
         \/ Gone(p) \/ BeginBuild(p) \/ BeginUpdate(p) \/ TakeJob(p) \/ ChunkJob(p)
         \/ JobDone(p) \/ ChunksDone(p) \/ JobFails(p)
         \/ \E c \in Command : Start(p, c)
         \/ NextRepo(p) /\ UNCHANGED <<dbVars, userVars, openVars, spent>>
  PROVE  CoupledInv' /\ UNCHANGED <<rows, vecs, nextId>>
<1>1. pc'[p] \notin Quiet
  BY DEF Gone, BeginBuild, BeginUpdate, TakeJob, ChunkJob, JobDone, ChunksDone, JobFails,
         EndJob, Start, Open, NextRepo, Goto, Quiet, TypeInv, TypeOK
<1>2. UNCHANGED <<rows, vecs, nextId>>
  BY DEF Gone, BeginBuild, BeginUpdate, TakeJob, ChunkJob, JobDone, ChunksDone, JobFails,
         EndJob, Start, Open, dbVars
<1> QED BY <1>1, <1>2, QuietStep DEF chunks, chunkVecs

LEMMA DeleteVecsCoupled ==
  ASSUME OneProcess, TypeInv, CoupledInv, NEW p \in Proc, DeleteJobVecs(p)
  PROVE  CoupledInv' /\ vecs'["chunk"] \subseteq chunkVecs
<1> DEFINE gone == RowsOf("chunk", mem[p].repo, mem[p].files)
<1>1. vecs'["chunk"] = {v \in chunkVecs : v.id \notin Ids(gone)}
  BY DEF DeleteJobVecs, DeleteVecsOf, TypeInv, TypeOK, DbTypeOK, Lane, chunkVecs
<1>2. UNCHANGED <<rows, mem>> /\ pc'[p] = "deleteRows"
  BY DEF DeleteJobVecs, Goto, TypeInv, TypeOK
<1>3. NoDanglingVec'
  BY <1>1, <1>2 DEF CoupledInv, NoDanglingVec, Ids, chunkVecs
<1>4. ASSUME NEW q \in Proc PROVE Coupled(q)'
  <2>1. q = p
    BY DEF OneProcess
  <2>2. gone' = gone
    BY <1>2 DEF RowsOf
  <2> QED BY <1>1, <1>2, <2>1, <2>2 DEF Coupled, Ids, chunkVecs
<1> QED BY <1>1, <1>3, <1>4 DEF CoupledInv

LEMMA DeleteRowsCoupled ==
  ASSUME OneProcess, TypeInv, CoupledInv, NEW p \in Proc, DeleteJobRows(p)
  PROVE  /\ CoupledInv'
         /\ rows'["chunk"] \subseteq chunks
         /\ \A x \in chunks \ rows'["chunk"], v \in chunkVecs : v.id # x.id
<1> DEFINE gone == RowsOf("chunk", mem[p].repo, mem[p].files)
<1>1. rows'["chunk"] = chunks \ gone
  BY DEF DeleteJobRows, DeleteRowsOf, TypeInv, TypeOK, DbTypeOK, Lane, chunks
<1>2. \A x \in gone, v \in chunkVecs : v.id # x.id
  BY DEF DeleteJobRows, CoupledInv, Coupled
<1>3. UNCHANGED vecs /\ pc'[p] \notin Quiet
  BY DEF DeleteJobRows, Goto, Quiet, TypeInv, TypeOK
<1> HIDE DEF gone
<1>4. NoDanglingVec'
  BY <1>1, <1>2, <1>3 DEF CoupledInv, NoDanglingVec, Ids, chunks, chunkVecs
<1>5. ASSUME NEW q \in Proc PROVE Coupled(q)'
  <2>1. q = p
    BY DEF OneProcess
  <2> QED BY <1>3, <2>1 DEF Coupled, Quiet
<1> QED BY <1>1, <1>2, <1>4, <1>5 DEF CoupledInv

LEMMA InsertCoupled ==
  ASSUME OneProcess, TypeInv, CoupledInv, NEW p \in Proc, InsertChunk(p)
  PROVE  /\ CoupledInv'
         /\ \E x \in rows'["chunk"] : x.id = next /\ rows'["chunk"] = chunks \cup {x}
         /\ nextId'["chunk"] = next + 1
         /\ UNCHANGED vecs
<1>1. PICK c \in mem[p].work : InsertRow("chunk", mem[p].repo, c[1], c[2])
  BY DEF InsertChunk
<1> DEFINE new == [id |-> next, repo |-> mem[p].repo, file |-> c[1], text |-> c[2]]
<1>2. rows'["chunk"] = chunks \cup {new} /\ nextId'["chunk"] = next + 1
  BY <1>1 DEF InsertRow, TypeInv, TypeOK, DbTypeOK, Lane, chunks, next
<1>3. UNCHANGED vecs /\ pc'[p] \notin Quiet
  BY DEF InsertChunk, Quiet
<1>4. new.id = next
  OBVIOUS
<1> HIDE DEF new
<1> QED BY <1>2, <1>3, <1>4, QuietStep DEF chunkVecs

LEMMA EncodeCoupled ==
  ASSUME OneProcess, TypeInv, CoupledInv, NEW p \in Proc, EncodeRepo(p) \/ EncodeFresh(p)
  PROVE  CoupledInv' /\ UNCHANGED <<rows, vecs, nextId>>
<1>1. \A v \in mem'[p].batch : \E x \in chunks : v.id = x.id
  BY EncodedRows
<1>2. UNCHANGED <<rows, vecs, nextId>> /\ pc'[p] = "upsert"
  BY DEF EncodeRepo, EncodeFresh, dbVars, Goto, TypeInv, TypeOK
<1>3. ASSUME NEW q \in Proc PROVE Coupled(q)'
  <2>1. q = p
    BY DEF OneProcess
  <2> QED BY <1>1, <1>2, <2>1 DEF Coupled, Ids, chunks
<1> QED BY <1>2, <1>3 DEF CoupledInv, NoDanglingVec

LEMMA UpsertCoupled ==
  ASSUME OneProcess, TypeInv, MatchInv, CoupledInv, NEW p \in Proc, Upsert(p)
  PROVE  /\ CoupledInv'
         /\ \A v \in vecs'["chunk"] \ chunkVecs : \E x \in chunks : x.id = v.id /\ x.text = v.text
         /\ \A v \in chunkVecs \ vecs'["chunk"] : \E w \in vecs'["chunk"] : w.id = v.id
         /\ UNCHANGED <<rows, nextId>>
<1> DEFINE batch == mem[p].batch
<1>1. vecs'["chunk"] = {v \in chunkVecs : v.id \notin Ids(batch)} \cup batch
  BY DEF Upsert, UpsertVecs, TypeInv, TypeOK, DbTypeOK, Lane, chunkVecs
<1>2. UNCHANGED <<rows, nextId>> /\ pc'[p] \notin Quiet
  BY DEF Upsert, NextRepo, Goto, Quiet, TypeInv, TypeOK
<1>3. Ids(batch) \subseteq Ids(chunks)
  BY DEF Upsert, CoupledInv, Coupled
<1>4. \A v \in batch : \E x \in chunks : x.id = v.id /\ x.text = v.text
  BY <1>3 DEF Ids, MatchInv, BatchMatchesRow, chunks
<1> HIDE DEF batch
<1>5. NoDanglingVec'
  BY <1>1, <1>2, <1>3 DEF CoupledInv, NoDanglingVec, Ids, chunks, chunkVecs
<1>6. ASSUME NEW q \in Proc PROVE Coupled(q)'
  <2>1. q = p
    BY DEF OneProcess
  <2> QED BY <1>2, <2>1 DEF Coupled, Quiet
<1> QED BY <1>1, <1>2, <1>4, <1>5, <1>6 DEF CoupledInv, Ids

-----------------------------------------------------------------------------
(* Every step is a step of VectorIndex or leaves its variables alone.      *)

IndexVars == <<chunks, chunkVecs, next>>

\* The invariant under which a step of SearchStore is one of VectorIndex.
IndexInv == TypeInv /\ MatchInv /\ CoupledInv

LEMMA RunCoupled ==
  ASSUME OneProcess, IndexInv, NEW p \in Proc, Run(p)
  PROVE  CoupledInv' /\ [VectorIndex!Next]_IndexVars
<1> USE DEF IndexInv, IndexVars, chunks, chunkVecs, next
<1>1. CASE OpenStep(p)
  <2>1. UNCHANGED <<chunks, next>> /\ vecs'["chunk"] \subseteq chunkVecs
    BY <1>1, OpenForgets DEF Forgets, OpenStep, Opening, ReadDim, DropTable, CreateTable,
                             WriteDim, dbVars, tables
  <2> QED BY <1>1, <2>1, OpenStepCoupled DEF VectorIndex!Next, VectorIndex!Unembed
<1>2. CASE Query(p) \/ Finish(p)
  BY <1>2, LocalStepCoupled DEF Query, Finish
<1>3. CASE BeginBuild(p) \/ BeginUpdate(p) \/ TakeJob(p) \/ ChunkJob(p) \/ JobDone(p)
           \/ ChunksDone(p)
  BY <1>3, LocalStepCoupled
<1>4. CASE DeleteJobVecs(p)
  <2>1. UNCHANGED <<chunks, next>>
    BY <1>4 DEF DeleteJobVecs
  <2> QED BY <1>4, <2>1, DeleteVecsCoupled DEF VectorIndex!Next, VectorIndex!Unembed
<1>5. CASE DeleteJobRows(p)
  <2>1. UNCHANGED <<chunkVecs, next>>
    BY <1>5 DEF DeleteJobRows
  <2> QED BY <1>5, <2>1, DeleteRowsCoupled DEF VectorIndex!Next, VectorIndex!Remove
<1>6. CASE InsertChunk(p)
  BY <1>6, InsertCoupled DEF VectorIndex!Next, VectorIndex!Add
<1>7. CASE EncodeRepo(p) \/ EncodeFresh(p)
  BY <1>7, EncodeCoupled
<1>8. CASE Upsert(p)
  BY <1>8, UpsertCoupled DEF VectorIndex!Next, VectorIndex!Embed
<1>9. CASE NotEmbedded(p)
  BY <1>9, LocalStepCoupled DEF NotEmbedded
<1> QED BY <1>1, <1>2, <1>3, <1>4, <1>5, <1>6, <1>7, <1>8, <1>9 DEF Run

LEMMA NextCoupled ==
  ASSUME OneProcess, IndexInv, [Next]_vars
  PROVE  CoupledInv' /\ [VectorIndex!Next]_IndexVars
<1> USE DEF IndexInv, IndexVars, chunks, chunkVecs, next
<1>1. ASSUME NEW p \in Proc, Run(p)
      PROVE  CoupledInv' /\ [VectorIndex!Next]_IndexVars
  BY <1>1, RunCoupled
<1>2. ASSUME NEW p \in Proc, Kill(p) \/ JobFails(p) \/ \E c \in Command : Start(p, c)
      PROVE  CoupledInv' /\ [VectorIndex!Next]_IndexVars
  BY <1>2, LocalStepCoupled DEF Kill
<1>3. CASE EditFile \/ EditConfig \/ UNCHANGED vars
  <2>1. UNCHANGED <<dbVars, pc, mem>>
    BY <1>3 DEF EditFile, EditConfig, vars
  <2> QED BY <2>1 DEF dbVars, CoupledInv, NoDanglingVec, Coupled, Ids, RowsOf
<1> QED BY <1>1, <1>2, <1>3 DEF Next

LEMMA InitCoupled == Init => CoupledInv /\ VectorIndex!Init
BY DEF Init, DbInit, Lane, CoupledInv, NoDanglingVec, Coupled, Ids, chunks, chunkVecs,
       VectorIndex!Init

\* One command at a time, killed or failing anywhere: a vector is never left
\* behind by the chunk it was computed from.
THEOREM NoVectorDangles == OneProcess => (Spec => []NoDanglingVec)
<1> SUFFICES ASSUME OneProcess PROVE Spec => []NoDanglingVec
  OBVIOUS
<1>1. Init => IndexInv
  BY InitTypeInv, InitMatch, InitCoupled DEF IndexInv
<1>2. IndexInv /\ [Next]_vars => IndexInv'
  BY NextTypeInv, NextMatch, NextCoupled DEF IndexInv
<1>3. IndexInv => NoDanglingVec
  BY DEF IndexInv, CoupledInv
<1> QED BY <1>1, <1>2, <1>3, PTL DEF Spec

\* One command at a time, the chunk lane implements VectorIndex: every
\* statement of every command attaches vectors to rows that are there and that
\* they encode, and takes rows away only after their vectors.
THEOREM ImplementsVectorIndex == OneProcess => (Spec => IsVectorIndex)
<1> SUFFICES ASSUME OneProcess PROVE Spec => IsVectorIndex
  OBVIOUS
<1>1. Init => IndexInv /\ VectorIndex!Init
  BY InitTypeInv, InitMatch, InitCoupled DEF IndexInv
<1>2. IndexInv /\ [Next]_vars => IndexInv'
  BY NextTypeInv, NextMatch, NextCoupled DEF IndexInv
<1>3. IndexInv /\ [Next]_vars => [VectorIndex!Next]_<<rows["chunk"], vecs["chunk"], nextId["chunk"]>>
  BY NextCoupled DEF IndexVars, chunks, chunkVecs, next
<1> QED BY <1>1, <1>2, <1>3, PTL DEF Spec, IsVectorIndex, VectorIndex!Spec

-----------------------------------------------------------------------------
(* Opening the file: while nothing has failed, a width on record is the    *)
(* width of the column.  C is columnDim, M metaDim, k the lane and d the   *)
(* width of the process at label l.                                        *)

Agreed(l, k, C, M, d) ==
  /\ l \notin OpenLabel => \A n \in Lane : C[n] = M[n] /\ (l # "idle" => C[n] = d)
  /\ l \in OpenLabel => \A n \in Lane \ {k} : C[n] = M[n] /\ (n = "chunk" => C[n] = d)
  /\ l = "readDim" => C[k] = M[k]
  /\ l = "createTable" => C[k] \in {None, d}
  /\ l = "writeDim" => C[k] = d

AgreedNow(p) == Agreed(pc[p], lane[p], columnDim, metaDim, dim[p])

WidthInv == spent.faults = 0 => \A p \in Proc : AgreedNow(p)

LEMMA OpenAgreed ==
  ASSUME OneProcess, TypeInv, WidthInv, NEW p \in Proc, OpenStep(p)
  PROVE  WidthInv'
<1>1. UNCHANGED spent
  BY DEF OpenStep
<1> SUFFICES ASSUME AgreedNow(p) PROVE AgreedNow(p)'
  BY <1>1 DEF OneProcess, WidthInv
<1>step. ReadDim(p) \/ DropTable(p) \/ CreateTable(p) \/ WriteDim(p)
  BY DEF OpenStep, Opening
<1> USE DEF AgreedNow, Agreed, OpenLabel, Goto, dbVars, openVars, tables,
            TypeInv, TypeOK, DbTypeOK, Lane
<1>2. CASE ReadDim(p)
  BY <1>2 DEF ReadDim
<1>3. CASE DropTable(p)
  BY <1>3 DEF DropTable
<1>4. CASE CreateTable(p)
  BY <1>4 DEF CreateTable
<1>5. CASE WriteDim(p)
  <2>1. /\ UNCHANGED <<columnDim, dim>> /\ lane'[p] = "summary"
        /\ metaDim' = [metaDim EXCEPT ![lane[p]] = dim[p]]
        /\ pc[p] = "writeDim" /\ columnDim[lane[p]] = dim[p]
    BY <1>5 DEF WriteDim
  <2>2. CASE lane[p] = "chunk"
    <3>1. pc'[p] = "readDim" /\ columnDim["summary"] = metaDim["summary"]
      BY <1>5, <2>1, <2>2 DEF WriteDim
    <3> QED BY <2>1, <2>2, <3>1
  <2>3. CASE lane[p] = "summary"
    <3>1. pc'[p] = "opened" /\ columnDim["chunk"] = metaDim["chunk"] /\ columnDim["chunk"] = dim[p]
      BY <1>5, <2>1, <2>3 DEF WriteDim
    <3> QED BY <2>1, <2>3, <3>1
  <2> QED BY <2>2, <2>3
<1> QED BY <1>2, <1>3, <1>4, <1>5, <1>step

\* The steps of a command whose handle is open, and the ends of commands.
LEMMA HandleAgreed ==
  ASSUME OneProcess, WidthInv, NEW p \in Proc, UNCHANGED <<columnDim, metaDim, lane>>,
         spent'.faults = 0 => spent.faults = 0,
         \/ pc[p] \notin OpenLabel \cup {"idle"} /\ pc'[p] \notin OpenLabel \cup {"idle"} /\ dim' = dim
         \/ pc[p] \notin OpenLabel \cup {"idle"} /\ pc'[p] = "idle"
         \/ spent'.faults # 0
         \/ pc' = pc /\ dim' = dim
  PROVE  WidthInv'
<1> SUFFICES ASSUME spent'.faults = 0 PROVE AgreedNow(p)'
  BY DEF OneProcess, WidthInv
<1>1. AgreedNow(p)
  BY DEF WidthInv
<1> QED BY <1>1 DEF AgreedNow, Agreed, OpenLabel

LEMMA StartAgreed ==
  ASSUME OneProcess, TypeInv, WidthInv, NEW p \in Proc, NEW c \in Command, Start(p, c)
  PROVE  WidthInv'
<1>1. /\ pc[p] = "idle" /\ pc'[p] = "readDim" /\ lane'[p] = "chunk" /\ UNCHANGED dbVars
      /\ spent'.faults = spent.faults
  BY DEF Start, Open, Goto, TypeInv, TypeOK, DbTypeOK
<1> SUFFICES ASSUME AgreedNow(p) PROVE AgreedNow(p)'
  BY <1>1 DEF OneProcess, WidthInv
<1> QED BY <1>1 DEF AgreedNow, Agreed, OpenLabel, Lane, dbVars

LEMMA NextAgreed == OneProcess /\ TypeInv /\ WidthInv /\ [Next]_vars => WidthInv'
<1> SUFFICES ASSUME OneProcess, TypeInv, WidthInv, [Next]_vars PROVE WidthInv'
  OBVIOUS
<1> USE HandleAgreed DEF OpenLabel, Goto, dbVars, openVars, TypeInv, TypeOK
<1>1. ASSUME NEW p \in Proc, Run(p)
      PROVE  WidthInv'
  <2>1. CASE OpenStep(p)
    BY <2>1, OpenAgreed
  <2>2. CASE Query(p) \/ Finish(p)
    BY <2>2 DEF Query, Finish, Gone
  <2>3. CASE BeginBuild(p) \/ BeginUpdate(p) \/ TakeJob(p) \/ ChunkJob(p)
    BY <2>3 DEF BeginBuild, BeginUpdate, TakeJob, ChunkJob
  <2>4. CASE DeleteJobVecs(p) \/ DeleteJobRows(p) \/ InsertChunk(p) \/ JobDone(p)
    BY <2>4 DEF DeleteJobVecs, DeleteJobRows, InsertChunk, JobDone, EndJob
  <2>5. CASE ChunksDone(p) \/ EncodeRepo(p) \/ EncodeFresh(p)
    BY <2>5 DEF ChunksDone, EncodeRepo, EncodeFresh
  <2>6. CASE Upsert(p) \/ NotEmbedded(p)
    BY <2>6 DEF Upsert, NotEmbedded, NextRepo, Gone
  <2> QED BY <1>1, <2>1, <2>2, <2>3, <2>4, <2>5, <2>6 DEF Run
<1>2. ASSUME NEW p \in Proc, Kill(p)
      PROVE  WidthInv'
  BY <1>2 DEF Kill, Gone
<1>3. ASSUME NEW p \in Proc, JobFails(p)
      PROVE  WidthInv'
  BY <1>3 DEF JobFails, EndJob
<1>4. ASSUME NEW p \in Proc, NEW c \in Command, Start(p, c)
      PROVE  WidthInv'
  BY <1>4, StartAgreed
<1>5. CASE EditFile \/ EditConfig \/ UNCHANGED vars
  <2>1. UNCHANGED <<columnDim, metaDim, lane, dim, pc>> /\ spent'.faults = spent.faults
    BY <1>5 DEF EditFile, EditConfig, vars
  <2> QED BY <2>1 DEF WidthInv, AgreedNow
<1> QED BY <1>1, <1>2, <1>3, <1>4, <1>5 DEF Next

LEMMA InitAgreed == Init => WidthInv
BY DEF Init, DbInit, WidthInv, AgreedNow, Agreed, OpenLabel, Lane

\* One command at a time, whatever widths they open at: as long as none is
\* killed and no statement fails, both columns are as wide as the open handle.
THEOREM UndisturbedOpensAgree == OneProcess => (Spec => []OpensAgree)
<1> SUFFICES ASSUME OneProcess PROVE Spec => []OpensAgree
  OBVIOUS
<1>1. Init => TypeInv /\ WidthInv
  BY InitTypeInv, InitAgreed
<1>2. TypeInv /\ WidthInv /\ [Next]_vars => (TypeInv /\ WidthInv)'
  BY NextTypeInv, NextAgreed
<1>3. WidthInv => OpensAgree
  BY DEF WidthInv, AgreedNow, Agreed, OpensAgree, OpenedAtDim
<1> QED BY <1>1, <1>2, <1>3, PTL DEF Spec

-----------------------------------------------------------------------------
(* Replacing the chunks of a repo or of a file.  The rows of the job at    *)
(* hand and the pieces still to be stored are, together, what the chunker  *)
(* has returned, and no piece is stored twice.                             *)

Held(m, x) == x.repo = m.repo /\ x.file \in m.files

Piled(m, C) ==
  /\ m.work \subseteq m.goal
  /\ \A c \in m.goal \ m.work : \E x \in C : Held(m, x) /\ c = <<x.file, x.text>>
  /\ \A x \in C : Held(m, x) => <<x.file, x.text>> \in m.goal \ m.work
  /\ \A x, y \in C : Held(m, x) /\ Held(m, y) /\ x.file = y.file /\ x.text = y.text => x = y

Filled(l, m, C) ==
  /\ l = "insert" \/ (m.cmd = "build" /\ l \in {"deleteVecs", "deleteRows"}) =>
       \A c \in m.goal : c[1] \in m.files
  /\ m.cmd = "build" /\ l \in {"deleteVecs", "deleteRows"} => m.work = m.goal
  /\ m.cmd # "build" /\ l = "chunk" => \A x \in C : ~Held(m, x)
  /\ l = "insert" => Piled(m, C)

FilledNow(p) == Filled(pc[p], mem[p], chunks)

FilledInv == IsFiniteSet(chunks) /\ \A p \in Proc : FilledNow(p)

\* The labels at which no job is at hand.
NoJob == OpenLabel \cup {"idle", "opened", "nextJob", "embed", "upsert"}

LEMMA NoJobFilled ==
  ASSUME NEW l \in NoJob, NEW m, NEW C
  PROVE  Filled(l, m, C)
BY DEF NoJob, OpenLabel, Filled

\* A job that is taken up, chunked and cleared.
LEMMA ClearedFilled ==
  ASSUME NEW m, NEW C, NEW D, D = {x \in C : ~Held(m, x)}, Filled("deleteRows", m, C)
  PROVE  Filled(IF m.cmd = "build" THEN "insert" ELSE "chunk", m, D)
BY DEF Filled, Piled

LEMMA ChunkedFilled ==
  ASSUME NEW m, NEW m2, NEW C, Filled("chunk", m, C),
         m2.cmd = m.cmd, m2.repo = m.repo, m2.files = m.files, m2.work = m2.goal,
         \A c \in m2.goal : c[1] \in m.files
  PROVE  Filled(IF m.cmd = "build" THEN "deleteVecs" ELSE "insert", m2, C)
BY DEF Filled, Piled, Held

\* One more piece is stored.
LEMMA StoredFilled ==
  ASSUME NEW m, NEW m2, NEW C, Filled("insert", m, C),
         m2.repo = m.repo, m2.files = m.files, m2.goal = m.goal,
         NEW c \in m.work, m2.work = m.work \ {c},
         NEW x, x.repo = m.repo, c = <<x.file, x.text>>
  PROVE  Filled("insert", m2, C \cup {x})
<1>1. Piled(m, C) /\ \A d \in m.goal : d[1] \in m.files
  BY DEF Filled
<1>2. c[1] = x.file
  OBVIOUS
<1>3. \A y : Held(m2, y) <=> Held(m, y)
  BY DEF Held
<1>4. Held(m, x) /\ c \in m.goal
  BY <1>1, <1>2 DEF Piled, Held
<1>5. \A d \in m2.goal \ m2.work : \E y \in C \cup {x} : Held(m2, y) /\ d = <<y.file, y.text>>
  BY <1>1, <1>3, <1>4 DEF Piled
<1>6. \A y \in C \cup {x} : Held(m2, y) => <<y.file, y.text>> \in m2.goal \ m2.work
  BY <1>1, <1>3, <1>4 DEF Piled
<1>7. \A y \in C : Held(m, y) => y.file # x.file \/ y.text # x.text
  BY <1>1 DEF Piled
<1>8. Piled(m2, C \cup {x})
  BY <1>1, <1>3, <1>4, <1>5, <1>6, <1>7 DEF Piled
<1> QED BY <1>1, <1>8 DEF Filled

\* The steps of a job.
LEMMA JobFilled ==
  ASSUME OneProcess, TypeInv, FilledInv, NEW p \in Proc,
         ChunkJob(p) \/ DeleteJobVecs(p) \/ DeleteJobRows(p)
  PROVE  FilledInv'
<1>1. FilledNow(p) /\ mem[p] \in Memory
  BY ProcessTypes DEF FilledInv
<1> SUFFICES IsFiniteSet(rows'["chunk"]) /\ FilledNow(p)'
  BY DEF OneProcess, FilledInv, chunks
<1>2. CASE ChunkJob(p)
  <2> DEFINE pieces == ChunkFiles(mem[p].repo, mem[p].files)
  <2>1. \A c \in pieces : c[1] \in mem[p].files
    BY DEF ChunkFiles
  <2> HIDE DEF pieces
  <2>2. mem'[p] = [mem[p] EXCEPT !.goal = pieces, !.work = pieces]
    BY <1>2 DEF ChunkJob, TypeInv, TypeOK, pieces
  <2>3. /\ mem'[p].cmd = mem[p].cmd /\ mem'[p].repo = mem[p].repo /\ mem'[p].files = mem[p].files
        /\ mem'[p].goal = pieces /\ mem'[p].work = pieces
    BY <1>1, <2>2 DEF Memory
  <2>4. /\ pc[p] = "chunk" /\ UNCHANGED rows
        /\ pc'[p] = IF mem[p].cmd = "build" THEN "deleteVecs" ELSE "insert"
    BY <1>2 DEF ChunkJob, Goto, dbVars, TypeInv, TypeOK
  <2>5. Filled(pc'[p], mem'[p], chunks)
    BY <1>1, <2>1, <2>3, <2>4, ChunkedFilled DEF FilledNow
  <2> QED BY <2>4, <2>5 DEF FilledInv, FilledNow, chunks
<1>3. CASE DeleteJobVecs(p)
  <2>1. pc[p] = "deleteVecs" /\ pc'[p] = "deleteRows" /\ UNCHANGED <<rows, mem>>
    BY <1>3 DEF DeleteJobVecs, Goto, TypeInv, TypeOK
  <2>2. FilledNow(p)'
    BY <1>1, <2>1 DEF FilledNow, Filled, chunks
  <2> QED BY <2>1, <2>2 DEF FilledInv, chunks
<1>4. CASE DeleteJobRows(p)
  <2>1. /\ pc[p] = "deleteRows" /\ UNCHANGED mem
        /\ pc'[p] = IF mem[p].cmd = "build" THEN "insert" ELSE "chunk"
    BY <1>4 DEF DeleteJobRows, Goto, TypeInv, TypeOK
  <2>2. rows'["chunk"] = {x \in chunks : ~Held(mem[p], x)}
    BY <1>4 DEF DeleteJobRows, DeleteRowsOf, RowsOf, Held, TypeInv, TypeOK, DbTypeOK, Lane, chunks
  <2>3. Filled(pc'[p], mem[p], rows'["chunk"])
    BY <1>1, <2>1, <2>2, ClearedFilled DEF FilledNow
  <2>4. IsFiniteSet(rows'["chunk"])
    BY <2>2, FS_Subset DEF FilledInv
  <2> QED BY <2>1, <2>3, <2>4 DEF FilledNow, chunks
<1> QED BY <1>2, <1>3, <1>4

LEMMA InsertFilled ==
  ASSUME OneProcess, TypeInv, FilledInv, NEW p \in Proc, InsertChunk(p)
  PROVE  FilledInv'
<1>1. PICK c \in mem[p].work :
        /\ InsertRow("chunk", mem[p].repo, c[1], c[2])
        /\ mem' = [mem EXCEPT ![p].work = @ \ {c}, ![p].fresh = @ \cup {nextId["chunk"]}]
  BY DEF InsertChunk
<1>2. FilledNow(p) /\ mem[p] \in Memory
  BY ProcessTypes DEF FilledInv
<1>3. c \in File \X Text
  BY <1>2 DEF Memory, Piece
<1> DEFINE x == [id |-> next, repo |-> mem[p].repo, file |-> c[1], text |-> c[2]]
<1>4. rows'["chunk"] = chunks \cup {x}
  BY <1>1 DEF InsertRow, TypeInv, TypeOK, DbTypeOK, Lane, chunks, next
<1>5. x.repo = mem[p].repo /\ c = <<x.file, x.text>>
  BY <1>3
<1> HIDE DEF x
<1>6. mem'[p] = [mem[p] EXCEPT !.work = @ \ {c}, !.fresh = @ \cup {nextId["chunk"]}]
  BY <1>1 DEF TypeInv, TypeOK
<1>7. /\ mem'[p].repo = mem[p].repo /\ mem'[p].files = mem[p].files
      /\ mem'[p].goal = mem[p].goal /\ mem'[p].work = mem[p].work \ {c}
  BY <1>2, <1>6 DEF Memory
<1>8. pc[p] = "insert" /\ UNCHANGED pc
  BY DEF InsertChunk
<1>9. Filled("insert", mem'[p], chunks \cup {x})
  BY <1>2, <1>5, <1>7, <1>8, StoredFilled DEF FilledNow
<1>10. IsFiniteSet(rows'["chunk"])
  BY <1>4, FS_AddElement DEF FilledInv
<1> QED BY <1>4, <1>8, <1>9, <1>10 DEF OneProcess, FilledInv, FilledNow, chunks

LEMMA NextFilled == OneProcess /\ TypeInv /\ FilledInv /\ [Next]_vars => FilledInv'
<1> SUFFICES ASSUME OneProcess, TypeInv, FilledInv, [Next]_vars PROVE FilledInv'
  OBVIOUS
<1>1. ASSUME NEW p \in Proc, UNCHANGED rows, pc'[p] \in NoJob
      PROVE  FilledInv'
  BY <1>1, NoJobFilled DEF OneProcess, FilledInv, FilledNow, chunks
<1>2. ASSUME NEW p \in Proc, Run(p)
      PROVE  FilledInv'
  <2> USE DEF NoJob, OpenLabel, Goto, dbVars, tables, TypeInv, TypeOK
  <2>1. CASE OpenStep(p)
    BY <2>1, <1>1 DEF OpenStep, Opening, ReadDim, DropTable, CreateTable, WriteDim
  <2>2. CASE Query(p) \/ Finish(p) \/ BeginBuild(p) \/ BeginUpdate(p)
    BY <2>2, <1>1 DEF Query, Finish, Gone, BeginBuild, BeginUpdate
  <2>3. CASE TakeJob(p)
    <3>1. PICK j \in mem[p].todo :
            mem' = [mem EXCEPT ![p].todo = @ \ {j}, ![p].repo = j.repo, ![p].files = j.files]
      BY <2>3 DEF TakeJob
    <3>2. mem[p] \in Memory
      BY ProcessTypes
    <3>3. mem'[p].cmd = mem[p].cmd /\ UNCHANGED rows
      BY <2>3, <3>1, <3>2 DEF TakeJob, Memory
    <3>4. pc'[p] = IF mem[p].cmd = "build" THEN "chunk" ELSE "deleteVecs"
      BY <2>3 DEF TakeJob
    <3>5. FilledNow(p)'
      BY <3>3, <3>4 DEF FilledNow, Filled
    <3> QED BY <3>3, <3>5 DEF OneProcess, FilledInv, chunks
  <2>4. CASE ChunkJob(p) \/ DeleteJobVecs(p) \/ DeleteJobRows(p)
    BY <2>4, JobFilled
  <2>5. CASE InsertChunk(p)
    BY <2>5, InsertFilled
  <2>6. CASE JobDone(p) \/ ChunksDone(p)
    BY <2>6, <1>1 DEF JobDone, EndJob, ChunksDone
  <2>7. CASE EncodeRepo(p) \/ EncodeFresh(p)
    BY <2>7, <1>1 DEF EncodeRepo, EncodeFresh
  <2>8. CASE Upsert(p) \/ NotEmbedded(p)
    BY <2>8, <1>1 DEF Upsert, NotEmbedded, NextRepo, Gone
  <2> QED BY <1>2, <2>1, <2>2, <2>3, <2>4, <2>5, <2>6, <2>7, <2>8 DEF Run
<1>3. ASSUME NEW p \in Proc, Kill(p) \/ JobFails(p) \/ \E c \in Command : Start(p, c)
      PROVE  FilledInv'
  BY <1>1, <1>3 DEF Kill, Gone, JobFails, EndJob, Start, Open, NoJob, OpenLabel, Goto, dbVars,
                    TypeInv, TypeOK
<1>4. CASE EditFile \/ EditConfig \/ UNCHANGED vars
  <2>1. UNCHANGED <<rows, pc, mem>>
    BY <1>4 DEF EditFile, EditConfig, vars, dbVars
  <2> QED BY <2>1 DEF FilledInv, FilledNow, chunks
<1> QED BY <1>2, <1>3, <1>4 DEF Next

LEMMA InitFilled == Init => FilledInv
<1> SUFFICES ASSUME Init PROVE FilledInv
  OBVIOUS
<1>1. chunks = {} /\ \A p \in Proc : pc[p] \in NoJob
  BY DEF Init, DbInit, Lane, chunks, NoJob
<1> QED BY <1>1, NoJobFilled, FS_EmptySet DEF FilledInv, FilledNow

\* The rows of a job correspond one to one to the pieces that are stored.
LEMMA PiledCounts ==
  ASSUME NEW m, NEW C, IsFiniteSet(C), Piled(m, C), m.work = {}, NEW now,
         now = {x \in C : Held(m, x)}
  PROVE  {<<x.file, x.text>> : x \in now} = m.goal /\ Cardinality(now) = Cardinality(m.goal)
<1> DEFINE f == [x \in now |-> <<x.file, x.text>>]
<1>1. {<<x.file, x.text>> : x \in now} = m.goal
  BY DEF Piled
<1>2. \A x \in now : f[x] \in m.goal
  BY DEF Piled
<1>3. \A c \in m.goal : \E x \in now : f[x] = c
  BY DEF Piled
<1>4. \A x, y \in now : f[x] = f[y] => x = y
  BY DEF Piled
<1>5. f \in Bijection(now, m.goal)
  <2>1. f \in [now -> m.goal] /\ DOMAIN f = now
    BY <1>2
  <2> HIDE DEF f
  <2>2. f \in Injection(now, m.goal)
    BY <1>4, <2>1 DEF Injection, IsInjective
  <2>3. f \in Surjection(now, m.goal)
    BY <1>3, <2>1 DEF Surjection
  <2> QED BY <2>2, <2>3 DEF Bijection
<1>6. IsFiniteSet(now)
  BY FS_Subset
<1> QED BY <1>1, <1>5, <1>6, FS_Bijection DEF ExistsBijection

\* One command at a time, killed or failing anywhere: when the chunks of a repo
\* or file have been replaced the table holds exactly what the chunker returned.
THEOREM JobsReplaceExactly == OneProcess => (Spec => []ReplacedExactly)
<1> SUFFICES ASSUME OneProcess PROVE Spec => []ReplacedExactly
  OBVIOUS
<1>1. Init => TypeInv /\ FilledInv
  BY InitTypeInv, InitFilled
<1>2. TypeInv /\ FilledInv /\ [Next]_vars => (TypeInv /\ FilledInv)'
  BY NextTypeInv, NextFilled
<1>3. FilledInv => ReplacedExactly
  <2> SUFFICES ASSUME FilledInv, NEW p \in Proc, pc[p] = "insert", mem[p].work = {}
               PROVE  LET now == RowsOf("chunk", mem[p].repo, mem[p].files)
                      IN  /\ {<<x.file, x.text>> : x \in now} = mem[p].goal
                          /\ Cardinality(now) = Cardinality(mem[p].goal)
    BY DEF ReplacedExactly
  <2>1. Piled(mem[p], chunks) /\ IsFiniteSet(chunks)
    BY DEF FilledInv, FilledNow, Filled
  <2>2. RowsOf("chunk", mem[p].repo, mem[p].files) = {x \in chunks : Held(mem[p], x)}
    BY DEF RowsOf, Held, chunks
  <2> QED BY <2>1, <2>2, PiledCounts
<1> QED BY <1>1, <1>2, <1>3, PTL DEF Spec

-----------------------------------------------------------------------------
(* Embedding.  Every chunk waits with its repo, is in the batch at hand,   *)
(* or has a vector of the configured model.                                *)

Waits(m, r)   == \E j \in m.todo : j.repo = r
Modelled(V, i, n) == i \in Ids(V) /\ \A v \in V : v.id = i => v.model = n

Embedding(l, m, C, V) ==
  /\ l = "embed" => m.cmd = "build"
  /\ m.cmd = "build" /\ l \in {"embed", "upsert"} =>
       \A x \in C : \/ Waits(m, x.repo)
                    \/ Modelled(V, x.id, m.cfg.provider)
                    \/ l = "upsert" /\ Modelled(m.batch, x.id, m.cfg.provider)
  /\ m.cmd = "build" /\ l = "upsert" => \A v \in m.batch : v.model = m.cfg.provider

EmbeddingNow(p) == Embedding(pc[p], mem[p], chunks, chunkVecs)

EmbeddingInv == \A p \in Proc : EmbeddingNow(p)

\* A repo is encoded: its rows are in the batch.
LEMMA EncodedHolds ==
  ASSUME NEW m, NEW m2, NEW C, NEW V, Embedding("embed", m, C, V), NEW j \in m.todo,
         m2.cmd = m.cmd, m2.cfg = m.cfg, m2.todo = m.todo \ {j},
         \A x \in C : x.repo = j.repo => x.id \in Ids(m2.batch),
         \A v \in m2.batch : v.model = m.cfg.provider
  PROVE  Embedding("upsert", m2, C, V)
<1>1. m2.cmd = "build"
  BY DEF Embedding
<1>2. ASSUME NEW x \in C
      PROVE  \/ Waits(m2, x.repo) \/ Modelled(V, x.id, m.cfg.provider)
             \/ Modelled(m2.batch, x.id, m.cfg.provider)
  <2>1. CASE x.repo = j.repo
    BY <2>1 DEF Modelled
  <2>2. CASE x.repo # j.repo
    BY <1>1, <2>2 DEF Embedding, Waits
  <2> QED BY <2>1, <2>2
<1> QED BY <1>2 DEF Embedding

\* The batch is stored, in place of the vectors its rows had.
LEMMA StoredHolds ==
  ASSUME NEW m, NEW m2, NEW C, NEW V, NEW W, Embedding("upsert", m, C, V), m.cmd = "build",
         m2.cmd = m.cmd, m2.cfg = m.cfg, m2.todo = m.todo,
         W = {v \in V : v.id \notin Ids(m.batch)} \cup m.batch
  PROVE  Embedding("embed", m2, C, W)
<1>1. ASSUME NEW x \in C PROVE Waits(m2, x.repo) \/ Modelled(W, x.id, m.cfg.provider)
  <2>1. CASE Waits(m, x.repo)
    BY <2>1 DEF Waits
  <2>2. CASE x.id \in Ids(m.batch)
    BY <2>2 DEF Embedding, Modelled, Ids
  <2>3. CASE x.id \notin Ids(m.batch) /\ Modelled(V, x.id, m.cfg.provider)
    BY <2>3 DEF Modelled, Ids
  <2> QED BY <2>1, <2>2, <2>3 DEF Embedding, Modelled
<1> QED BY <1>1 DEF Embedding

\* At the other labels nothing is claimed.
LEMMA EmbeddingElsewhere ==
  ASSUME NEW l, NEW m, NEW C, NEW V,
         l \notin {"embed", "upsert"} \/ (l = "upsert" /\ m.cmd # "build")
  PROVE  Embedding(l, m, C, V)
BY DEF Embedding

LEMMA RunEmbedding ==
  ASSUME OneProcess, TypeInv, EmbeddingInv, NEW p \in Proc, Run(p)
  PROVE  EmbeddingInv'
<1>1. EmbeddingNow(p) /\ mem[p] \in Memory
  BY ProcessTypes DEF EmbeddingInv
<1> SUFFICES EmbeddingNow(p)'
  BY DEF OneProcess, EmbeddingInv
<1> USE DEF TypeInv, TypeOK
<1>2. CASE OpenStep(p) \/ Query(p) \/ BeginBuild(p) \/ BeginUpdate(p) \/ TakeJob(p)
  BY <1>2, EmbeddingElsewhere
     DEF OpenStep, Opening, ReadDim, DropTable, CreateTable, WriteDim, Query, Gone, BeginBuild,
         BeginUpdate, TakeJob, Goto, EmbeddingNow
<1>3. CASE ChunkJob(p) \/ DeleteJobVecs(p) \/ DeleteJobRows(p) \/ InsertChunk(p) \/ JobDone(p)
           \/ Finish(p)
  BY <1>3, EmbeddingElsewhere
     DEF ChunkJob, DeleteJobVecs, DeleteJobRows, InsertChunk, JobDone, EndJob, Finish, Gone,
         Goto, EmbeddingNow
<1>4. CASE ChunksDone(p)
  <2>1. mem'[p] = [mem[p] EXCEPT !.todo = WholeRepos, !.repo = None]
    BY <1>4 DEF ChunksDone
  <2>2. /\ mem'[p].cmd = "build" /\ mem'[p].todo = WholeRepos
        /\ pc'[p] = "embed" /\ UNCHANGED rows
    BY <1>1, <1>4, <2>1 DEF ChunksDone, Goto, dbVars, Memory
  <2>3. \A x \in chunks : x.repo \in Repo
    BY DEF DbTypeOK, Lane, Row, chunks
  <2>4. \A r \in Repo : Waits(mem'[p], r)
    <3> TAKE r \in Repo
    <3>1. [repo |-> r, files |-> File] \in mem'[p].todo
      BY <2>2 DEF WholeRepos
    <3> QED BY <3>1 DEF Waits
  <2> QED BY <2>2, <2>3, <2>4 DEF EmbeddingNow, Embedding, chunks
<1>5. CASE EncodeRepo(p)
  <2>1. PICK j \in mem[p].todo :
          mem' = [mem EXCEPT
                    ![p].todo = @ \ {j}, ![p].repo = j.repo,
                    ![p].batch = Encode(RowsOf("chunk", j.repo, File), Model(mem[p].cfg))]
    BY <1>5 DEF EncodeRepo
  <2> DEFINE batch == Encode(RowsOf("chunk", j.repo, File), Model(mem[p].cfg))
  <2>2. mem'[p] = [mem[p] EXCEPT !.todo = @ \ {j}, !.repo = j.repo, !.batch = batch]
    BY <2>1
  <2>3. \A v \in batch : v.model = mem[p].cfg.provider
    BY DEF Encode, Model
  <2>4. \A x \in chunks : x.repo = j.repo => x.id \in Ids(batch)
    <3> SUFFICES ASSUME NEW x \in chunks, x.repo = j.repo PROVE x.id \in Ids(batch)
      OBVIOUS
    <3>1. x \in RowsOf("chunk", j.repo, File)
      BY DEF RowsOf, DbTypeOK, Lane, Row, chunks
    <3>2. [id |-> x.id, text |-> x.text, model |-> Model(mem[p].cfg).name,
           dim |-> Model(mem[p].cfg).dim] \in batch
      BY <3>1 DEF Encode
    <3> HIDE DEF batch
    <3> QED BY <3>2 DEF Ids
  <2> HIDE DEF batch
  <2>5. /\ mem'[p].cmd = mem[p].cmd /\ mem'[p].cfg = mem[p].cfg
        /\ mem'[p].todo = mem[p].todo \ {j} /\ mem'[p].batch = batch
    BY <1>1, <2>2 DEF Memory
  <2>6. pc[p] = "embed" /\ pc'[p] = "upsert" /\ UNCHANGED <<rows, vecs>>
    BY <1>5 DEF EncodeRepo, Goto, dbVars
  <2>7. Embedding("upsert", mem'[p], chunks, chunkVecs)
    BY <1>1, <2>3, <2>4, <2>5, <2>6, EncodedHolds DEF EmbeddingNow
  <2> QED BY <2>6, <2>7 DEF EmbeddingNow, chunks, chunkVecs
<1>6. CASE EncodeFresh(p)
  <2>1. mem'[p] = [mem[p] EXCEPT !.ids = {}, !.batch =
                     Encode({x \in rows["chunk"] : x.id \in mem[p].ids}, Potion)]
    BY <1>6 DEF EncodeFresh
  <2>2. mem'[p].cmd = "update" /\ pc'[p] = "upsert"
    BY <1>1, <1>6, <2>1 DEF EncodeFresh, Goto, Memory
  <2> QED BY <2>2, EmbeddingElsewhere DEF EmbeddingNow
<1>7. ASSUME NextRepo(p)
      PROVE  /\ mem'[p].cmd = mem[p].cmd /\ mem'[p].cfg = mem[p].cfg
             /\ mem'[p].todo = mem[p].todo
             /\ pc'[p] = IF mem[p].cmd = "build" THEN "embed" ELSE "nextJob"
  <2>1. mem'[p] = [mem[p] EXCEPT !.batch = {}, !.repo = None]
    BY <1>7 DEF NextRepo
  <2> QED BY <1>1, <1>7, <2>1 DEF NextRepo, Goto, Memory
<1>8. CASE Upsert(p)
  <2>1. /\ vecs'["chunk"] = {v \in chunkVecs : v.id \notin Ids(mem[p].batch)} \cup mem[p].batch
        /\ UNCHANGED rows /\ pc[p] = "upsert" /\ NextRepo(p)
    BY <1>8 DEF Upsert, UpsertVecs, DbTypeOK, Lane, chunkVecs
  <2>2. CASE mem[p].cmd = "build"
    <3>1. Embedding("upsert", mem[p], chunks, chunkVecs)
      BY <1>1, <2>1 DEF EmbeddingNow
    <3>2. Embedding("embed", mem'[p], chunks, vecs'["chunk"])
      BY <1>7, <2>1, <2>2, <3>1, StoredHolds
    <3> QED BY <1>7, <2>1, <2>2, <3>2 DEF EmbeddingNow, chunks, chunkVecs
  <2>3. CASE mem[p].cmd # "build"
    BY <1>7, <2>1, <2>3, EmbeddingElsewhere DEF EmbeddingNow
  <2> QED BY <2>2, <2>3
<1>9. CASE NotEmbedded(p)
  <2>1. pc'[p] \in {"idle", "nextJob"}
    BY <1>7, <1>9 DEF NotEmbedded, Gone, Goto
  <2> QED BY <2>1, EmbeddingElsewhere DEF EmbeddingNow
<1> QED BY <1>2, <1>3, <1>4, <1>5, <1>6, <1>8, <1>9 DEF Run

LEMMA NextEmbedding == OneProcess /\ TypeInv /\ EmbeddingInv /\ [Next]_vars => EmbeddingInv'
<1> SUFFICES ASSUME OneProcess, TypeInv, EmbeddingInv, [Next]_vars PROVE EmbeddingInv'
  OBVIOUS
<1>1. ASSUME NEW p \in Proc, Kill(p) \/ JobFails(p) \/ \E c \in Command : Start(p, c)
      PROVE  EmbeddingInv'
  <2>1. pc'[p] \notin {"embed", "upsert"}
    BY <1>1 DEF Kill, Gone, JobFails, EndJob, Start, Open, Goto, TypeInv, TypeOK
  <2> QED BY <2>1, EmbeddingElsewhere DEF OneProcess, EmbeddingInv, EmbeddingNow
<1>2. CASE EditFile \/ EditConfig \/ UNCHANGED vars
  <2>1. UNCHANGED <<rows, vecs, pc, mem>>
    BY <1>2 DEF EditFile, EditConfig, vars, dbVars
  <2> QED BY <2>1 DEF EmbeddingInv, EmbeddingNow, chunks, chunkVecs
<1> QED BY <1>1, <1>2, RunEmbedding DEF Next

LEMMA InitEmbedding == Init => EmbeddingInv
BY DEF Init, DbInit, EmbeddingInv, EmbeddingNow, Embedding

\* One command at a time: a build that reaches Done has left every chunk of
\* every repo with a vector of the configured model, and no other vector.
THEOREM DoneBuildsEmbed == OneProcess => (Spec => []DoneMeansEmbedded)
<1> SUFFICES ASSUME OneProcess PROVE Spec => []DoneMeansEmbedded
  OBVIOUS
<1>1. Init => IndexInv /\ EmbeddingInv
  BY InitTypeInv, InitMatch, InitCoupled, InitEmbedding DEF IndexInv
<1>2. IndexInv /\ EmbeddingInv /\ [Next]_vars => (IndexInv /\ EmbeddingInv)'
  BY NextTypeInv, NextMatch, NextCoupled, NextEmbedding DEF IndexInv
<1>3. IndexInv /\ EmbeddingInv => DoneMeansEmbedded
  <2> SUFFICES ASSUME IndexInv, EmbeddingInv, NEW p \in Proc, pc[p] = "embed", mem[p].todo = {}
               PROVE  /\ Ids(chunks) = Ids(chunkVecs)
                      /\ \A v \in chunkVecs : v.model = mem[p].cfg.provider
    BY DEF DoneMeansEmbedded, chunks, chunkVecs
  <2>1. \A x \in chunks : Modelled(chunkVecs, x.id, mem[p].cfg.provider)
    BY DEF EmbeddingInv, EmbeddingNow, Embedding, Waits
  <2>2. Ids(chunkVecs) \subseteq Ids(chunks)
    BY DEF IndexInv, CoupledInv, NoDanglingVec, chunks, chunkVecs
  <2>3. Ids(chunks) \subseteq Ids(chunkVecs)
    BY <2>1 DEF Modelled, Ids
  <2>4. ASSUME NEW v \in chunkVecs PROVE v.model = mem[p].cfg.provider
    <3>1. PICK x \in chunks : x.id = v.id
      BY <2>2 DEF Ids
    <3> QED BY <2>1, <3>1 DEF Modelled
  <2> QED BY <2>2, <2>3, <2>4
<1> QED BY <1>1, <1>2, <1>3, PTL DEF Spec

-----------------------------------------------------------------------------
(* A step of an update while it is at a file leaves the rows of the others *)
(* alone, and their vectors, since no two rows have the same id.           *)

AtFile == {"deleteVecs", "deleteRows", "chunk", "insert"}

Outside(p) == chunks \ RowsOf("chunk", mem[p].repo, mem[p].files)

LocalStepOf(p) ==
  \A x \in Outside(p) :
    /\ x \in rows'["chunk"]
    /\ \A v \in chunkVecs : v.id = x.id => v \in vecs'["chunk"]

LEMMA RunIsLocal ==
  ASSUME TypeInv, MatchInv, NEW p \in Proc, pc[p] \in AtFile, Run(p)
  PROVE  LocalStepOf(p)
<1> USE DEF AtFile, Outside, LocalStepOf, chunks, chunkVecs
<1>1. CASE DeleteJobVecs(p)
  <2> DEFINE gone == RowsOf("chunk", mem[p].repo, mem[p].files)
  <2>1. /\ vecs'["chunk"] = {v \in chunkVecs : v.id \notin Ids(gone)}
        /\ UNCHANGED rows
    BY <1>1 DEF DeleteJobVecs, DeleteVecsOf, TypeInv, TypeOK, DbTypeOK, Lane
  <2>2. ASSUME NEW x \in Outside(p) PROVE x.id \notin Ids(gone)
    BY DEF MatchInv, IdsFresh, Ids, RowsOf
  <2> HIDE DEF gone
  <2> QED BY <2>1, <2>2
<1>2. CASE DeleteJobRows(p)
  BY <1>2 DEF DeleteJobRows, DeleteRowsOf, TypeInv, TypeOK, DbTypeOK, Lane
<1>3. CASE InsertChunk(p)
  <2>1. PICK c \in mem[p].work : InsertRow("chunk", mem[p].repo, c[1], c[2])
    BY <1>3 DEF InsertChunk
  <2>2. chunks \subseteq rows'["chunk"] /\ UNCHANGED vecs
    BY <1>3, <2>1 DEF InsertChunk, InsertRow, TypeInv, TypeOK, DbTypeOK, Lane
  <2> QED BY <2>2
<1>4. CASE ChunkJob(p) \/ JobDone(p)
  BY <1>4 DEF ChunkJob, JobDone, EndJob, dbVars
<1> QED BY <1>1, <1>2, <1>3, <1>4
        DEF Run, OpenStep, Opening, ReadDim, DropTable, CreateTable, WriteDim, Query, BeginBuild,
            BeginUpdate, TakeJob, ChunksDone, EncodeRepo, EncodeFresh, Upsert, NotEmbedded, Finish

\* One command at a time: an update leaves the chunks of the files it is not at,
\* with their ids and vectors, as they are.
THEOREM UpdatesAreLocal == OneProcess => (Spec => UpdateIsLocal)
<1> SUFFICES ASSUME OneProcess PROVE Spec => UpdateIsLocal
  OBVIOUS
<1> DEFINE A == \A p \in Proc :
         mem[p].cmd = "update" /\ pc[p] \in {"deleteVecs", "deleteRows", "chunk", "insert"} =>
           \A x \in rows["chunk"] \ RowsOf("chunk", mem[p].repo, mem[p].files) :
             /\ x \in rows'["chunk"]
             /\ \A v \in vecs["chunk"] : v.id = x.id => v \in vecs'["chunk"]
<1>1. ASSUME TypeInv, MatchInv, [Next]_vars PROVE A
  <2> SUFFICES ASSUME NEW p \in Proc, pc[p] \in AtFile PROVE LocalStepOf(p)
    BY DEF AtFile, LocalStepOf, Outside, chunks, chunkVecs
  <2>1. ASSUME NEW q \in Proc, Run(q) PROVE LocalStepOf(p)
    <3>1. q = p
      BY DEF OneProcess
    <3> QED BY <2>1, <3>1, <1>1, RunIsLocal
  <2>2. CASE UNCHANGED <<rows, vecs>>
    BY <2>2 DEF LocalStepOf, Outside, chunks, chunkVecs
  <2>3. CASE \/ EditFile \/ EditConfig \/ UNCHANGED vars
             \/ \E q \in Proc : Kill(q) \/ JobFails(q) \/ \E c \in Command : Start(q, c)
    BY <2>2, <2>3 DEF EditFile, EditConfig, vars, Kill, Gone, JobFails, EndJob, Start, Open, dbVars
  <2> QED BY <1>1, <2>1, <2>3 DEF Next
<1>2. Init => TypeInv /\ MatchInv
  BY InitTypeInv, InitMatch
<1>3. TypeInv /\ MatchInv /\ [Next]_vars => (TypeInv /\ MatchInv)'
  BY NextTypeInv, NextMatch
<1>4. TypeInv /\ MatchInv /\ [Next]_vars => [A]_vars
  BY <1>1
<1> QED BY <1>2, <1>3, <1>4, PTL DEF Spec, UpdateIsLocal

=============================================================================
