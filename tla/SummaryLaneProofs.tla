-------------------------- MODULE SummaryLaneProofs --------------------------
(***************************************************************************)
(* Theorems about SummaryLane for every set of processes, repos, files,    *)
(* texts, models and widths, every filter and every value of the bounds.   *)
(***************************************************************************)
EXTENDS SummaryLane, TLAPS

-----------------------------------------------------------------------------
(* Type correctness.  A process that has inserted a summary and not yet    *)
(* written its vector has a text at hand; otherwise TypeOK is inductive.   *)

InHand(l, m) == l = "upsert" => m.text \in Text

TypeInv == TypeOK /\ \A p \in Proc : InHand(pc[p], mem[p])

Spent == [commands : 0..MaxCommands, faults : 0..MaxFaults, edits : 0..MaxEdits]

LEMMA BlankType == Blank \in Memory
BY DEF Blank, Memory

LEMMA InitTypeInv == Init => TypeInv
<1> SUFFICES ASSUME Init PROVE TypeInv
  OBVIOUS
<1> USE DEF Init, DbInit
<1>1. DbTypeOK
  BY DEF DbTypeOK, Lane
<1>2. mem \in [Proc -> Memory]
  BY BlankType
<1>3. pc \in [Proc -> Label]
  BY DEF Label
<1>4. spent \in [commands : 0..MaxCommands, faults : 0..MaxFaults, edits : 0..MaxEdits]
  BY ConstantsAssumption
<1> QED BY <1>1, <1>2, <1>3, <1>4 DEF TypeOK, TypeInv, InHand

\* What TypeInv says of one process.
LEMMA ProcessTypes ==
  ASSUME TypeInv, NEW p \in Proc
  PROVE  mem[p] \in Memory /\ pc[p] \in Label /\ InHand(pc[p], mem[p])
BY DEF TypeInv, TypeOK

\* A step of process p that leaves it at label l with memory m.
LEMMA ProcessStep ==
  ASSUME TypeInv, NEW p \in Proc, NEW m \in Memory, NEW l \in Label,
         mem' = [mem EXCEPT ![p] = m], Goto(p, l), InHand(l, m),
         DbTypeOK', spent' \in Spent, UNCHANGED disk
  PROVE  TypeInv'
<1> USE DEF TypeInv
<1>1. TypeOK'
  BY DEF TypeOK, Spent, Goto
<1>2. \A q \in Proc : InHand(pc'[q], mem'[q])
  BY DEF TypeOK, Goto
<1> QED BY <1>1, <1>2

\* The same for a step that touches nothing but the process.
LEMMA LocalStep ==
  ASSUME TypeInv, NEW p \in Proc, NEW m \in Memory, NEW l \in Label,
         mem' = [mem EXCEPT ![p] = m], Goto(p, l), InHand(l, m),
         UNCHANGED <<dbVars, openVars, disk, spent>>
  PROVE  TypeInv'
<1>1. DbTypeOK' /\ spent' \in Spent
  BY DEF TypeInv, TypeOK, DbTypeOK, dbVars, openVars, Spent
<1> QED BY <1>1, ProcessStep

LEMMA GoneType ==
  ASSUME TypeInv, NEW p \in Proc, Gone(p), spent' \in Spent
  PROVE  TypeInv'
<1>1. DbTypeOK'
  BY DEF TypeInv, TypeOK, DbTypeOK, Gone, dbVars
<1>2. InHand("idle", Blank) /\ "idle" \in Label
  BY DEF InHand, Label
<1> QED BY <1>1, <1>2, BlankType, ProcessStep DEF Gone

LEMMA StartType ==
  ASSUME TypeInv, NEW p \in Proc, NEW c \in Command, Start(p, c)
  PROVE  TypeInv'
<1> DEFINE m == [Blank EXCEPT !.cmd = c]
<1>1. m \in Memory
  BY ConstantsAssumption DEF Blank, Memory
<1>2. InHand("readDim", m) /\ "readDim" \in Label
  BY DEF InHand, Label, OpenLabel
<1>3. spent' \in Spent
  BY ConstantsAssumption DEF Spent, Start, TypeInv, TypeOK
<1>4. DbTypeOK'
  BY ConstantsAssumption DEF DbTypeOK, Start, Open, dbVars, Lane, TypeInv, TypeOK
<1> HIDE DEF m
<1>5. mem' = [mem EXCEPT ![p] = m] /\ Goto(p, "readDim") /\ UNCHANGED disk
  BY DEF Start, Open, m
<1> QED BY <1>1, <1>2, <1>3, <1>4, <1>5, ProcessStep

LEMMA OpenStepType ==
  ASSUME TypeInv, NEW p \in Proc, OpenStep(p)
  PROVE  TypeInv'
<1> USE DEF TypeInv, TypeOK, OpenStep
<1> SUFFICES ASSUME NEW l \in Label \ {"upsert"}, Goto(p, l), DbTypeOK'
             PROVE  TypeInv'
  <2> USE DEF DbTypeOK, dbVars, openVars, tables, Label, OpenLabel
  <2>1. CASE ReadDim(p)
    BY <2>1 DEF ReadDim
  <2>2. CASE DropTable(p)
    BY <2>2 DEF DropTable
  <2>3. CASE CreateTable(p)
    BY <2>3 DEF CreateTable
  <2>4. CASE WriteDim(p)
    BY <2>4 DEF WriteDim, Lane
  <2> QED BY <2>1, <2>2, <2>3, <2>4 DEF Opening
<1>1. mem[p] \in Memory /\ mem' = [mem EXCEPT ![p] = mem[p]]
  OBVIOUS
<1>2. InHand(l, mem[p]) /\ spent' \in Spent
  BY DEF InHand, Spent
<1> QED BY <1>1, <1>2, ProcessStep

\* The steps that change nothing but where a process is.
LEMMA MoveType ==
  ASSUME TypeInv, NEW p \in Proc, NEW l \in Label \ {"upsert"}, Goto(p, l),
         UNCHANGED <<dbVars, disk, openVars, mem, spent>>
  PROVE  TypeInv'
<1>1. mem[p] \in Memory /\ mem' = [mem EXCEPT ![p] = mem[p]]
  BY DEF TypeInv, TypeOK
<1>2. InHand(l, mem[p])
  BY DEF InHand
<1> QED BY <1>1, <1>2, LocalStep

LEMMA BeginType ==
  ASSUME TypeInv, NEW p \in Proc, Begin(p)
  PROVE  TypeInv'
<1>1. PICK old \in SUBSET (Repo \X File), jobs \in SUBSET Job :
        mem' = [mem EXCEPT ![p].stale = old, ![p].todo = jobs]
  <2>1. {[repo |-> r, files |-> File] : r \in Repo} \in SUBSET Job
    BY DEF Job
  <2>2. ASSUME NEW changed \in SUBSET (Repo \X File)
        PROVE  {[repo |-> c[1], files |-> {c[2]}] : c \in changed} \in SUBSET Job
    BY DEF Job
  <2> QED BY <2>1, <2>2 DEF Begin
<1> DEFINE m == [mem[p] EXCEPT !.stale = old, !.todo = jobs]
<1>2. m \in Memory /\ mem' = [mem EXCEPT ![p] = m]
  BY ZenonT(60), <1>1, ProcessTypes DEF Memory, TypeInv, TypeOK
<1>3. InHand("chunk", m) /\ "chunk" \in Label
  BY DEF InHand, Label
<1> HIDE DEF m
<1> QED BY <1>2, <1>3, LocalStep DEF Begin

LEMMA RechunkType ==
  ASSUME TypeInv, NEW p \in Proc, Rechunk(p)
  PROVE  TypeInv'
<1>1. PICK s \in mem[p].stale :
        /\ rows' = [rows EXCEPT
                      !["chunk"] = (@ \ RowsOf("chunk", s[1], {s[2]}))
                                     \cup Chunks(s[1], s[2], disk[s[1]][s[2]])]
        /\ mem' = [mem EXCEPT ![p].stale = @ \ {s}]
  BY DEF Rechunk
<1> DEFINE m == [mem[p] EXCEPT !.stale = @ \ {s}]
<1>2. m \in Memory /\ mem' = [mem EXCEPT ![p] = m] /\ InHand(pc[p], m)
  BY ZenonT(60), <1>1, ProcessTypes DEF Memory, TypeInv, TypeOK, InHand
<1>3. Chunks(s[1], s[2], disk[s[1]][s[2]]) \subseteq Row
  <2>1. s[1] \in Repo /\ s[2] \in File
    BY ProcessTypes DEF Memory
  <2>2. disk[s[1]][s[2]] \in Text \cup {None} /\ nextId["chunk"] \in Nat
    BY <2>1 DEF TypeInv, TypeOK, DbTypeOK, Lane
  <2> QED BY <2>1, <2>2 DEF Chunks, Row
<1>4. DbTypeOK'
  <2>1. rows' \in [Lane -> SUBSET Row]
    BY <1>1, <1>3 DEF TypeInv, TypeOK, DbTypeOK, RowsOf, Lane
  <2>2. nextId' \in [Lane -> Nat]
    BY DEF Rechunk, TypeInv, TypeOK, DbTypeOK, Lane
  <2> QED BY <2>1, <2>2 DEF Rechunk, TypeInv, TypeOK, DbTypeOK, openVars
<1>5. Goto(p, pc[p]) /\ pc[p] \in Label /\ spent' \in Spent /\ UNCHANGED disk
  BY DEF Rechunk, Goto, TypeInv, TypeOK, Spent
<1> HIDE DEF m
<1> QED BY <1>2, <1>4, <1>5, ProcessStep

LEMMA NextJobType ==
  ASSUME TypeInv, NEW p \in Proc, NextJob(p)
  PROVE  TypeInv'
<1>1. PICK j \in mem[p].todo :
        mem' = [mem EXCEPT ![p].todo = @ \ {j}, ![p].repo = j.repo, ![p].files = j.files]
  BY DEF NextJob
<1> DEFINE m == [mem[p] EXCEPT !.todo = @ \ {j}, !.repo = j.repo, !.files = j.files]
<1> DEFINE l == IF mem[p].cmd = "build" THEN "deleteVecs" ELSE "list"
<1>2. m \in Memory /\ mem' = [mem EXCEPT ![p] = m]
  BY ZenonT(60), <1>1, ProcessTypes DEF Memory, Job, TypeInv, TypeOK
<1>3. InHand(l, m) /\ l \in Label /\ Goto(p, l)
  BY DEF InHand, Label, NextJob
<1> HIDE DEF m, l
<1> QED BY <1>2, <1>3, LocalStep DEF NextJob

LEMMA ListChunksType ==
  ASSUME TypeInv, NEW p \in Proc, ListChunks(p)
  PROVE  TypeInv'
<1>1. PICK w \in SUBSET Task : mem' = [mem EXCEPT ![p].work = w]
  <2> DEFINE listed == {x \in RowsOf("chunk", mem[p].repo, mem[p].files) : WorthAsking(mem[p].cmd, x)}
  <2>1. listed \subseteq Row
    BY DEF RowsOf, TypeInv, TypeOK, DbTypeOK, Lane
  <2>2. {[repo |-> x.repo, file |-> x.file, text |-> x.text] : x \in listed} \in SUBSET Task
    BY <2>1 DEF Row, Task
  <2> QED BY <2>2 DEF ListChunks
<1> DEFINE m == [mem[p] EXCEPT !.work = w]
<1> DEFINE l == IF mem[p].cmd = "build" THEN "ask" ELSE "deleteVecs"
<1>2. m \in Memory /\ mem' = [mem EXCEPT ![p] = m]
  BY SMTT(40), <1>1, ProcessTypes DEF Memory, TypeInv, TypeOK
<1>3. InHand(l, m) /\ l \in Label /\ Goto(p, l)
  BY DEF InHand, Label, ListChunks
<1> HIDE DEF m, l
<1> QED BY <1>2, <1>3, LocalStep DEF ListChunks

LEMMA ClearType ==
  ASSUME TypeInv, NEW p \in Proc, ClearVecs(p) \/ ClearRows(p)
  PROVE  TypeInv'
<1>1. PICK l \in Label \ {"upsert"} : Goto(p, l)
  BY DEF ClearVecs, ClearRows, Cleared, Label
<1>2. DbTypeOK'
  <2>1. CASE ClearVecs(p)
    BY <2>1 DEF ClearVecs, DeleteVecsOf, TypeInv, TypeOK, DbTypeOK, openVars, Lane
  <2>2. CASE ClearRows(p)
    BY <2>2 DEF ClearRows, DeleteRowsOf, TypeInv, TypeOK, DbTypeOK, openVars, Lane
  <2> QED BY <2>1, <2>2
<1>3. mem[p] \in Memory /\ mem' = [mem EXCEPT ![p] = mem[p]] /\ InHand(l, mem[p])
  BY DEF ClearVecs, ClearRows, TypeInv, TypeOK, InHand
<1>4. spent' \in Spent /\ UNCHANGED disk
  BY DEF ClearVecs, ClearRows, TypeInv, TypeOK, Spent
<1> QED BY <1>1, <1>2, <1>3, <1>4, ProcessStep

LEMMA AskType ==
  ASSUME TypeInv, NEW p \in Proc, Ask(p) \/ Answer(p)
  PROVE  TypeInv'
<1>1. PICK w \in SUBSET Task, a \in SUBSET Task, d \in SUBSET Task :
        mem' = [mem EXCEPT ![p].work = w, ![p].asked = a, ![p].answered = d]
  <2> USE ProcessTypes DEF Memory, TypeInv, TypeOK
  <2>1. CASE Ask(p)
    <3>1. PICK t \in mem[p].work :
            mem' = [mem EXCEPT ![p].work = @ \ {t}, ![p].asked = @ \cup {t}]
      BY <2>1 DEF Ask
    <3>2. mem' = [mem EXCEPT ![p].work = mem[p].work \ {t}, ![p].asked = mem[p].asked \cup {t},
                             ![p].answered = mem[p].answered]
      BY <3>1
    <3>3. mem[p].work \ {t} \in SUBSET Task /\ mem[p].asked \cup {t} \in SUBSET Task
          /\ mem[p].answered \in SUBSET Task
      OBVIOUS
    <3> QED BY <3>2, <3>3
  <2>2. CASE Answer(p)
    <3>1. PICK t \in mem[p].asked :
            \/ mem' = [mem EXCEPT ![p].asked = @ \ {t}, ![p].answered = @ \cup {t}]
            \/ mem' = [mem EXCEPT ![p].asked = @ \ {t}]
      BY <2>2 DEF Answer
    <3>2. PICK d \in {mem[p].answered, mem[p].answered \cup {t}} :
            mem' = [mem EXCEPT ![p].work = mem[p].work, ![p].asked = mem[p].asked \ {t},
                               ![p].answered = d]
      BY ZenonT(60), <3>1
    <3>3. mem[p].work \in SUBSET Task /\ mem[p].asked \ {t} \in SUBSET Task
          /\ d \in SUBSET Task
      OBVIOUS
    <3> QED BY <3>2, <3>3
  <2> QED BY <2>1, <2>2
<1> DEFINE m == [mem[p] EXCEPT !.work = w, !.asked = a, !.answered = d]
<1>2. m \in Memory /\ mem' = [mem EXCEPT ![p] = m]
  BY ZenonT(60), <1>1, ProcessTypes DEF Memory, TypeInv, TypeOK
<1>3. InHand(pc[p], m) /\ pc[p] \in Label /\ Goto(p, pc[p])
  BY ProcessTypes DEF InHand, Goto, Ask, Answer, TypeInv, TypeOK
<1> HIDE DEF m
<1> QED BY <1>2, <1>3, LocalStep DEF Ask, Answer

LEMMA InsertType ==
  ASSUME TypeInv, NEW p \in Proc, InsertSummary(p)
  PROVE  TypeInv'
<1>1. PICK t \in mem[p].answered :
        /\ InsertRow("summary", t.repo, t.file, t.text)
        /\ mem' = [mem EXCEPT ![p].answered = @ \ {t},
                              ![p].row = nextId["summary"], ![p].text = t.text]
  BY DEF InsertSummary
<1> DEFINE m == [mem[p] EXCEPT !.answered = @ \ {t}, !.row = nextId["summary"], !.text = t.text]
<1>2. t \in Task /\ nextId["summary"] \in Nat
  BY ProcessTypes DEF Memory, TypeInv, TypeOK, DbTypeOK, Lane
<1>3. m \in Memory /\ mem' = [mem EXCEPT ![p] = m] /\ m.text \in Text
  BY ZenonT(60), <1>1, <1>2, ProcessTypes DEF Memory, Task, TypeInv, TypeOK
<1> DEFINE new == [id |-> nextId["summary"], repo |-> t.repo, file |-> t.file, text |-> t.text]
<1>4. /\ new \in Row
      /\ rows' = [rows EXCEPT !["summary"] = @ \cup {new}]
      /\ nextId' = [nextId EXCEPT !["summary"] = @ + 1]
  BY <1>1, <1>2 DEF Task, Row, InsertRow
<1> HIDE DEF new
<1>5. DbTypeOK'
  <2>1. rows' \in [Lane -> SUBSET Row]
    BY <1>4 DEF TypeInv, TypeOK, DbTypeOK, Lane
  <2>2. nextId' \in [Lane -> Nat]
    BY <1>2, <1>4 DEF TypeInv, TypeOK, DbTypeOK, Lane
  <2> QED BY <2>1, <2>2 DEF InsertSummary, TypeInv, TypeOK, DbTypeOK, openVars
<1>6. InHand("upsert", m) /\ "upsert" \in Label /\ Goto(p, "upsert")
  BY <1>3 DEF InHand, Label, InsertSummary
<1>7. spent' \in Spent /\ UNCHANGED disk
  BY DEF InsertSummary, TypeInv, TypeOK, Spent
<1> HIDE DEF m
<1> QED BY <1>3, <1>5, <1>6, <1>7, ProcessStep

LEMMA UpsertType ==
  ASSUME TypeInv, NEW p \in Proc, UpsertSummary(p)
  PROVE  TypeInv'
<1>1. SummaryVec(p) \in Vec
  BY ProcessTypes, ConstantsAssumption DEF SummaryVec, Vec, Memory, InHand, UpsertSummary
<1>2. DbTypeOK'
  BY <1>1 DEF UpsertSummary, UpsertVecs, TypeInv, TypeOK, DbTypeOK, openVars
<1> DEFINE m == [mem[p] EXCEPT !.row = 0, !.text = None]
<1>3. m \in Memory /\ mem' = [mem EXCEPT ![p] = m]
  BY ZenonT(60), ProcessTypes DEF Memory, UpsertSummary, TypeInv, TypeOK
<1>4. InHand("insert", m) /\ "insert" \in Label /\ Goto(p, "insert")
  BY DEF InHand, Label, UpsertSummary
<1>5. spent' \in Spent /\ UNCHANGED disk
  BY DEF UpsertSummary, TypeInv, TypeOK, Spent
<1> HIDE DEF m
<1> QED BY <1>2, <1>3, <1>4, <1>5, ProcessStep

LEMMA FaultType ==
  ASSUME TypeInv, Fault \/ UNCHANGED spent
  PROVE  spent' \in Spent
BY ConstantsAssumption DEF Fault, TypeInv, TypeOK, Spent

\* ClearFails counts a fault but touches nothing else than the process.
LEMMA ClearFailsType ==
  ASSUME TypeInv, NEW p \in Proc, ClearFails(p)
  PROVE  TypeInv'
<1>1. PICK l \in Label \ {"upsert"} : Goto(p, l)
  BY DEF ClearFails, Cleared, Label
<1>2. DbTypeOK' /\ UNCHANGED disk
  BY DEF ClearFails, TypeInv, TypeOK, DbTypeOK, dbVars, openVars
<1>3. mem[p] \in Memory /\ mem' = [mem EXCEPT ![p] = mem[p]] /\ InHand(l, mem[p])
  BY DEF ClearFails, TypeInv, TypeOK, InHand
<1>4. spent' \in Spent
  BY FaultType DEF ClearFails, NoTable
<1> QED BY <1>1, <1>2, <1>3, <1>4, ProcessStep

LEMMA ListFailsType ==
  ASSUME TypeInv, NEW p \in Proc, ListFails(p)
  PROVE  TypeInv'
<1>1. spent' \in Spent
  BY FaultType DEF ListFails
<1>2. CASE Gone(p)
  BY <1>1, <1>2, GoneType
<1>3. CASE Goto(p, "nextJob") /\ UNCHANGED <<dbVars, disk, openVars, mem>>
  <2>1. DbTypeOK' /\ UNCHANGED disk
    BY <1>3 DEF TypeInv, TypeOK, DbTypeOK, dbVars, openVars
  <2>2. mem[p] \in Memory /\ mem' = [mem EXCEPT ![p] = mem[p]]
        /\ InHand("nextJob", mem[p]) /\ "nextJob" \in Label
    BY <1>3 DEF TypeInv, TypeOK, InHand, Label
  <2> QED BY <1>1, <1>3, <2>1, <2>2, ProcessStep
<1> QED BY <1>2, <1>3 DEF ListFails

LEMMA NextTypeInv == TypeInv /\ [Next]_vars => TypeInv'
<1> SUFFICES ASSUME TypeInv, [Next]_vars PROVE TypeInv'
  OBVIOUS
<1>1. ASSUME NEW p \in Proc, Run(p)
      PROVE  TypeInv'
  <2>1. CASE OpenStep(p) \/ Begin(p) \/ Rechunk(p) \/ NextJob(p) \/ ListChunks(p)
    BY <2>1, OpenStepType, BeginType, RechunkType, NextJobType, ListChunksType
  <2>2. CASE ClearVecs(p) \/ ClearRows(p) \/ Ask(p) \/ InsertSummary(p) \/ UpsertSummary(p)
    BY <2>2, ClearType, AskType, InsertType, UpsertType
  <2>3. CASE BeginSummaries(p) \/ JobAsked(p) \/ AllAsked(p) \/ Encoded(p) \/ Stored(p)
    <3>1. PICK l \in Label \ {"upsert"} : Goto(p, l)
      BY <2>3 DEF BeginSummaries, JobAsked, AllAsked, Encoded, Stored, Label
    <3>2. UNCHANGED <<dbVars, disk, openVars, mem, spent>>
      BY <2>3 DEF BeginSummaries, JobAsked, AllAsked, Encoded, Stored
    <3> QED BY <3>1, <3>2, MoveType
  <2>4. CASE Finish(p)
    BY <2>4, GoneType, FaultType DEF Finish
  <2> QED BY <1>1, <2>1, <2>2, <2>3, <2>4 DEF Run
<1>2. ASSUME NEW p \in Proc, NotEncoded(p) \/ Kill(p) \/ StoreFails(p)
      PROVE  TypeInv'
  BY <1>2, GoneType, FaultType DEF NotEncoded, Kill, StoreFails, NoTable
<1>3. ASSUME NEW p \in Proc, Answer(p) \/ ClearFails(p) \/ ListFails(p)
      PROVE  TypeInv'
  BY <1>3, AskType, ClearFailsType, ListFailsType
<1>4. ASSUME NEW p \in Proc, NEW c \in Command, Start(p, c)
      PROVE  TypeInv'
  BY <1>4, StartType
<1>5. CASE EditFile
  <2>1. DbTypeOK' /\ UNCHANGED <<pc, mem>>
    BY <1>5 DEF EditFile, TypeInv, TypeOK, DbTypeOK, dbVars, openVars
  <2>2. disk' \in [Repo -> [File -> Text \cup {None}]]
    BY <1>5 DEF EditFile, TypeInv, TypeOK
  <2>3. spent' \in Spent
    BY <1>5, ConstantsAssumption DEF EditFile, TypeInv, TypeOK, Spent
  <2> QED BY <2>1, <2>2, <2>3 DEF TypeInv, TypeOK, Spent
<1>6. CASE UNCHANGED vars
  BY <1>6 DEF vars, TypeInv, TypeOK, DbTypeOK, dbVars, openVars
<1> QED BY <1>1, <1>2, <1>3, <1>4, <1>5, <1>6 DEF Next

\* The database, every process and its locals stay typed.
THEOREM SummaryTypeCorrect == Spec => []TypeOK
<1>1. TypeInv => TypeOK
  BY DEF TypeInv
<1> QED BY InitTypeInv, NextTypeInv, <1>1, PTL DEF Spec

-----------------------------------------------------------------------------
(* However many commands run at once, the vector under a summary's id      *)
(* encodes that summary.  The argument: sqlite_sequence is above every id  *)
(* in use, in the tables and at hand in a process that has inserted a row  *)
(* whose vector it still has to write, and the row of such a process has   *)
(* the text at hand or is gone.                                            *)

summaryVecs == vecs["summary"]
next == nextId["summary"]

IdsBelow ==
  /\ \A x \in summaries : x.id < next
  /\ \A v \in summaryVecs : v.id < next

RowInHand ==
  \A p \in Proc : pc[p] = "upsert" =>
    /\ mem[p].row < next
    /\ \A x \in summaries : x.id = mem[p].row => x.text = mem[p].text

MatchInv == IdsBelow /\ RowInHand /\ VecMatchesSummary

\* A step that only forgets: rows and vectors go away, nobody takes a row in hand.
Forgets ==
  /\ rows'["summary"] \subseteq summaries
  /\ vecs'["summary"] \subseteq summaryVecs
  /\ nextId'["summary"] = next
  /\ \A p \in Proc : pc'[p] = "upsert" => pc[p] = "upsert" /\ mem'[p].row = mem[p].row
                                                        /\ mem'[p].text = mem[p].text

LEMMA ForgetsMatch ==
  ASSUME MatchInv, Forgets
  PROVE  MatchInv'
BY DEF MatchInv, IdsBelow, RowInHand, VecMatchesSummary, Forgets, summaries, summaryVecs, next

\* A step of p that leaves the lane alone and does not take a row in hand.
LEMMA QuietStep ==
  ASSUME TypeInv, NEW p \in Proc, NEW l, l # "upsert", Goto(p, l),
         \A q \in Proc \ {p} : mem'[q] = mem[q],
         rows'["summary"] \subseteq summaries, vecs'["summary"] \subseteq summaryVecs,
         nextId'["summary"] = next
  PROVE  Forgets
BY DEF Forgets, Goto, TypeInv, TypeOK

LEMMA GoneForgets ==
  ASSUME TypeInv, NEW p \in Proc, Gone(p)
  PROVE  Forgets
BY QuietStep DEF Gone, dbVars, summaries, summaryVecs, next, TypeInv, TypeOK

LEMMA OpenForgets ==
  ASSUME TypeInv, NEW p \in Proc, OpenStep(p)
  PROVE  Forgets
<1> USE DEF OpenStep, dbVars, openVars, tables, summaries, summaryVecs, next
<1>1. CASE ReadDim(p)
  BY <1>1, QuietStep DEF ReadDim
<1>2. CASE DropTable(p)
  <2>1. vecs'["summary"] \subseteq summaryVecs
    BY <1>2 DEF DropTable, TypeInv, TypeOK, DbTypeOK, Lane
  <2> QED BY <1>2, <2>1, QuietStep DEF DropTable
<1>3. CASE CreateTable(p)
  BY <1>3, QuietStep DEF CreateTable
<1>4. CASE WriteDim(p)
  BY <1>4, QuietStep DEF WriteDim
<1> QED BY <1>1, <1>2, <1>3, <1>4 DEF Opening

\* The steps of a process that neither insert a summary nor write its vector.
LEMMA ProcessForgets ==
  ASSUME TypeInv, NEW p \in Proc,
         \/ Begin(p) \/ BeginSummaries(p) \/ NextJob(p) \/ ListChunks(p)
         \/ ClearVecs(p) \/ ClearRows(p) \/ JobAsked(p) \/ AllAsked(p) \/ Encoded(p) \/ Stored(p)
         \/ ClearFails(p) \/ \E c \in Command : Start(p, c)
         \/ Goto(p, "nextJob") /\ UNCHANGED <<dbVars, mem>>
  PROVE  Forgets
<1> USE QuietStep DEF summaries, summaryVecs, next, TypeInv, TypeOK
<1>1. CASE Begin(p)
  BY <1>1 DEF Begin, dbVars
<1>2. CASE BeginSummaries(p) \/ JobAsked(p) \/ AllAsked(p) \/ Encoded(p) \/ Stored(p)
  BY <1>2 DEF BeginSummaries, JobAsked, AllAsked, Encoded, Stored, dbVars
<1>3. CASE NextJob(p)
  BY <1>3 DEF NextJob, dbVars
<1>4. CASE ListChunks(p)
  BY <1>4 DEF ListChunks, dbVars
<1>5. CASE ClearVecs(p)
  <2>1. vecs'["summary"] \subseteq summaryVecs
    BY <1>5 DEF ClearVecs, DeleteVecsOf, DbTypeOK, Lane
  <2> QED BY <1>5, <2>1 DEF ClearVecs
<1>6. CASE ClearRows(p)
  <2>1. rows'["summary"] \subseteq summaries
    BY <1>6 DEF ClearRows, DeleteRowsOf, DbTypeOK, Lane
  <2> QED BY <1>6, <2>1 DEF ClearRows, Cleared
<1>7. CASE ClearFails(p)
  BY <1>7 DEF ClearFails, Cleared, dbVars
<1>8. CASE \E c \in Command : Start(p, c)
  BY <1>8 DEF Start, Open, dbVars
<1>9. CASE Goto(p, "nextJob") /\ UNCHANGED <<dbVars, mem>>
  BY <1>9 DEF dbVars
<1> QED BY <1>1, <1>2, <1>3, <1>4, <1>5, <1>6, <1>7, <1>8, <1>9

\* Steps that leave the process where it is.
LEMMA StayForgets ==
  ASSUME TypeInv, NEW p \in Proc, Rechunk(p) \/ Ask(p) \/ Answer(p)
  PROVE  Forgets
<1>1. \A q \in Proc : mem'[q].row = mem[q].row /\ mem'[q].text = mem[q].text
  <2> USE DEF TypeInv, TypeOK, Memory
  <2>1. CASE Rechunk(p)
    BY <2>1 DEF Rechunk
  <2>2. CASE Ask(p)
    <3>1. PICK t \in mem[p].work :
            mem' = [mem EXCEPT ![p].work = @ \ {t}, ![p].asked = @ \cup {t}]
      BY <2>2 DEF Ask
    <3> QED BY <3>1
  <2>3. CASE Answer(p)
    <3>1. PICK t \in mem[p].asked :
            \/ mem' = [mem EXCEPT ![p].asked = @ \ {t}, ![p].answered = @ \cup {t}]
            \/ mem' = [mem EXCEPT ![p].asked = @ \ {t}]
      BY <2>3 DEF Answer
    <3> QED BY <3>1
  <2> QED BY <2>1, <2>2, <2>3
<1>2. pc' = pc /\ vecs' = vecs
  BY DEF Rechunk, Ask, Answer, dbVars
<1>3. rows'["summary"] = summaries /\ nextId'["summary"] = next
  BY DEF Rechunk, Ask, Answer, dbVars, summaries, next, TypeInv, TypeOK, DbTypeOK, Lane
<1> QED BY <1>1, <1>2, <1>3 DEF Forgets, summaryVecs

\* A new row takes an id above every id a row, a vector or a process bears.
LEMMA InsertMatch ==
  ASSUME TypeInv, MatchInv, NEW p \in Proc, InsertSummary(p)
  PROVE  MatchInv'
<1>1. PICK t \in mem[p].answered :
        /\ InsertRow("summary", t.repo, t.file, t.text)
        /\ mem' = [mem EXCEPT ![p].answered = @ \ {t},
                              ![p].row = nextId["summary"], ![p].text = t.text]
  BY DEF InsertSummary
<1> DEFINE new == [id |-> next, repo |-> t.repo, file |-> t.file, text |-> t.text]
<1>2. /\ rows'["summary"] = summaries \cup {new}
      /\ nextId'["summary"] = next + 1
      /\ vecs'["summary"] = summaryVecs
      /\ next \in Nat
  BY <1>1 DEF InsertRow, InsertSummary, TypeInv, TypeOK, DbTypeOK, Lane, summaries, summaryVecs, next
<1>3. /\ mem'[p].row = next /\ mem'[p].text = t.text
      /\ \A q \in Proc \ {p} : mem'[q] = mem[q] /\ pc'[q] = pc[q]
  BY <1>1 DEF InsertSummary, Goto, TypeInv, TypeOK, Memory, next
<1>4. \A x \in summaries \cup summaryVecs : x.id \in Nat
  BY DEF TypeInv, TypeOK, DbTypeOK, Row, Vec, Lane, summaries, summaryVecs
<1>5. \A q \in Proc : mem[q].row \in Nat
  BY ProcessTypes DEF Memory
<1>6. new.id = next /\ new.text = t.text
  OBVIOUS
<1> HIDE DEF new
<1>7. IdsBelow'
  BY <1>2, <1>4, <1>6 DEF MatchInv, IdsBelow, summaries, summaryVecs, next
<1>8. VecMatchesSummary'
  BY <1>2, <1>4, <1>6 DEF MatchInv, IdsBelow, VecMatchesSummary, summaries, summaryVecs, next
<1>9. RowInHand'
  <2> SUFFICES ASSUME NEW q \in Proc, pc'[q] = "upsert"
               PROVE  /\ mem'[q].row < next + 1
                      /\ \A x \in summaries \cup {new} : x.id = mem'[q].row => x.text = mem'[q].text
    BY <1>2 DEF RowInHand, summaries, next
  <2>1. CASE q = p
    BY <2>1, <1>2, <1>3, <1>4, <1>6 DEF MatchInv, IdsBelow
  <2>2. CASE q # p
    BY <2>2, <1>2, <1>3, <1>5, <1>6 DEF MatchInv, RowInHand
  <2> QED BY <2>1, <2>2
<1> QED BY <1>7, <1>8, <1>9 DEF MatchInv

\* The vector is that of the row at hand, if the row is still there.
LEMMA UpsertMatch ==
  ASSUME TypeInv, MatchInv, NEW p \in Proc, UpsertSummary(p)
  PROVE  MatchInv'
<1>1. vecs'["summary"] \subseteq summaryVecs \cup {SummaryVec(p)}
  BY DEF UpsertSummary, UpsertVecs, TypeInv, TypeOK, DbTypeOK, Lane, summaryVecs
<1>2. pc[p] = "upsert" /\ SummaryVec(p).id = mem[p].row /\ SummaryVec(p).text = mem[p].text
  BY DEF UpsertSummary, SummaryVec
<1>3. UNCHANGED <<rows, nextId>>
  BY DEF UpsertSummary
<1>4. \A q \in Proc : pc'[q] = "upsert" => pc[q] = "upsert" /\ mem'[q] = mem[q]
  BY DEF UpsertSummary, Goto, TypeInv, TypeOK
<1>5. /\ SummaryVec(p).id < next
      /\ \A x \in summaries : x.id = SummaryVec(p).id => x.text = SummaryVec(p).text
  BY <1>2 DEF MatchInv, RowInHand
<1>7. IdsBelow'
  BY <1>1, <1>3, <1>5 DEF MatchInv, IdsBelow, summaries, summaryVecs, next
<1>8. VecMatchesSummary'
  BY <1>1, <1>3, <1>5 DEF MatchInv, VecMatchesSummary, summaries, summaryVecs
<1>6. RowInHand'
  BY <1>3, <1>4 DEF MatchInv, RowInHand, summaries, next
<1> QED BY <1>6, <1>7, <1>8 DEF MatchInv

LEMMA NextMatch == TypeInv /\ MatchInv /\ [Next]_vars => MatchInv'
<1> SUFFICES ASSUME TypeInv, MatchInv, [Next]_vars PROVE MatchInv'
  OBVIOUS
<1>1. ASSUME NEW p \in Proc, Run(p)
      PROVE  MatchInv'
  <2>1. CASE OpenStep(p)
    BY <2>1, OpenForgets, ForgetsMatch
  <2>2. CASE \/ Begin(p) \/ BeginSummaries(p) \/ NextJob(p) \/ ListChunks(p) \/ ClearVecs(p)
             \/ ClearRows(p) \/ JobAsked(p) \/ AllAsked(p) \/ Encoded(p) \/ Stored(p)
    BY <2>2, ProcessForgets, ForgetsMatch
  <2>3. CASE Rechunk(p) \/ Ask(p)
    BY <2>3, StayForgets, ForgetsMatch
  <2>4. CASE InsertSummary(p)
    BY <2>4, InsertMatch
  <2>5. CASE UpsertSummary(p)
    BY <2>5, UpsertMatch
  <2>6. CASE Finish(p)
    BY <2>6, GoneForgets, ForgetsMatch DEF Finish
  <2> QED BY <1>1, <2>1, <2>2, <2>3, <2>4, <2>5, <2>6 DEF Run
<1>2. ASSUME NEW p \in Proc, NotEncoded(p) \/ Kill(p) \/ StoreFails(p)
      PROVE  MatchInv'
  BY <1>2, GoneForgets, ForgetsMatch DEF NotEncoded, Kill, StoreFails
<1>3. ASSUME NEW p \in Proc, Answer(p)
      PROVE  MatchInv'
  BY <1>3, StayForgets, ForgetsMatch
<1>4. ASSUME NEW p \in Proc, ClearFails(p) \/ \E c \in Command : Start(p, c)
      PROVE  MatchInv'
  BY <1>4, ProcessForgets, ForgetsMatch
<1>5. ASSUME NEW p \in Proc, ListFails(p)
      PROVE  MatchInv'
  BY <1>5, GoneForgets, ProcessForgets, ForgetsMatch DEF ListFails
<1>6. CASE EditFile \/ UNCHANGED vars
  BY <1>6 DEF EditFile, vars, dbVars, MatchInv, IdsBelow, RowInHand, VecMatchesSummary,
              summaries, summaryVecs, next
<1> QED BY <1>1, <1>2, <1>3, <1>4, <1>5, <1>6 DEF Next

LEMMA InitMatch == Init => MatchInv
BY DEF Init, DbInit, Lane, MatchInv, IdsBelow, RowInHand, VecMatchesSummary,
       summaries, summaryVecs, next

\* For any number of commands at once: the vector under a summary's id encodes
\* that summary, whatever is killed or fails between its row and its vector.
THEOREM SummaryVectorsMatch == Spec => []VecMatchesSummary
<1>1. MatchInv => VecMatchesSummary
  BY DEF MatchInv
<1> QED BY InitTypeInv, NextTypeInv, InitMatch, NextMatch, <1>1, PTL DEF Spec

-----------------------------------------------------------------------------
(***************************************************************************)
(* When commands run one at a time the summary lane is a VectorIndex; and  *)
(* as long as none is killed and no statement or embedding fails there is  *)
(* one summary per file, current and with its vector.  The assumption is   *)
(* needed: two updates of a file at once both clear it and both insert.    *)
(*                                                                         *)
(* The invariant is stated about the label l and the locals m of the       *)
(* process, the chunks C, the summaries S and the vectors V, so that its   *)
(* preservation by a step is a fact about values.                          *)
(***************************************************************************)
\* There is one process to run commands in.
OneProcess == \E p \in Proc : Proc = {p}

Same(x, y)     == x.repo = y.repo /\ x.file = y.file
Waits(m, r, f) == \E j \in m.todo : j.repo = r /\ f \in j.files
Held(m, x)     == x.repo = m.repo /\ x.file \in m.files
Tasks(m)       == m.work \cup m.asked \cup m.answered
Shown(C, x)    == \E c \in C : Same(c, x) /\ c.text = x.text

Opened   == Label \ (OpenLabel \cup {"idle"})
Clearing == {"deleteVecs", "deleteRows"}

\* What the process has at hand at which label.
Control(l, m) ==
  /\ l # "idle" => m.cmd \in {"build", "update"}
  /\ l \in OpenLabel \cup {"idle", "opened"} => m.todo = {}
  /\ l \in OpenLabel \cup {"idle", "opened", "chunk"} => Tasks(m) = {}
  /\ l = "chunk" => \A s \in m.stale : Waits(m, s[1], s[2])
  /\ m.work # {} => l = "ask" \/ (m.cmd = "update" /\ l \in Clearing)
  /\ m.asked # {} =>
       l = "ask" \/ (m.cmd = "update" /\ l \in {"deleteVecs", "deleteRows", "nextJob", "list"})
  /\ m.answered # {} /\ m.cmd = "build" => l \in {"ask", "encode", "insert", "upsert"}
  /\ m.cmd = "update" /\ l \in {"encode", "insert", "upsert"} => m.todo = {}

\* A file is in one job or one task at most, and waits in no job that is done.
Disjoint(l, m) ==
  /\ \A j, k \in m.todo : j.repo = k.repo /\ j.files \cap k.files # {} => j = k
  /\ \A t, u \in Tasks(m) : Same(t, u) => t = u
  /\ \A t \in Tasks(m) : ~Waits(m, t.repo, t.file)
  /\ l \in {"deleteVecs", "deleteRows", "list"} =>
       /\ \A f \in m.files : ~Waits(m, m.repo, f)
       /\ \A t \in m.asked \cup m.answered : ~Held(m, t)
  /\ l \in Clearing => \A t \in m.work : Held(m, t)

\* A task is about what the index holds of its file.
Listed(m, C) ==
  /\ \A c, d \in C : Same(c, d) => c = d
  /\ \A t \in Tasks(m) : Shown(C, t)

\* Between two statements that belong together: rows about to be deleted have
\* no vector, and the row whose vector is about to be written is there.
Coupled(l, m, S, V) ==
  /\ \A x, y \in S : x.id = y.id => x = y
  /\ l = "deleteRows" => \A x \in S, v \in V : Held(m, x) => v.id # x.id
  /\ l = "upsert" => \E x \in S : x.id = m.row /\ x.text = m.text

OneEach(S) == \A x, y \in S : Same(x, y) => x = y

\* What is asked about has been cleared, or is about to be.
Swept(l, m, S) ==
  /\ \A t \in Tasks(m), x \in S : Same(t, x) => l \in Clearing /\ t \in m.work
  /\ l = "list" /\ m.cmd = "build" => \A x \in S : ~Held(m, x)

\* A summary is current, or waits to be cleared.
Refreshed(l, m, S, C) ==
  \A x \in S : \/ Shown(C, x)
               \/ Waits(m, x.repo, x.file)
               \/ Held(m, x) /\ (l \in Clearing \/ (l = "list" /\ m.cmd = "update"))

Embedded(l, m, S, V) ==
  \A x \in S : \/ x.id \in Ids(V)
               \/ l = "upsert" /\ x.id = m.row
               \/ l = "deleteRows" /\ Held(m, x)

\* What holds whatever is killed or fails, and what holds as long as nothing is.
Firm(l, m, C, S, V)  == Control(l, m) /\ Disjoint(l, m) /\ Listed(m, C) /\ Coupled(l, m, S, V)
Clean(l, m, C, S, V) ==
  OneEach(S) /\ Swept(l, m, S) /\ Refreshed(l, m, S, C) /\ Embedded(l, m, S, V)

-----------------------------------------------------------------------------
(* The steps, as facts about values.                                       *)

LEMMA BlankFields ==
  /\ Blank.todo = {} /\ Blank.work = {} /\ Blank.asked = {} /\ Blank.answered = {}
  /\ Tasks(Blank) = {}
BY DEF Blank, Tasks

\* The command ends, or a new one begins with blank locals.
LEMMA EmptyHolds ==
  ASSUME NEW l, NEW l2, NEW m, NEW m2, NEW C, NEW S, NEW V, Firm(l, m, C, S, V),
         l2 \in {"idle", "readDim"}, l2 = "readDim" => m2.cmd \in {"build", "update"},
         m2.todo = {}, m2.work = {}, m2.asked = {}, m2.answered = {}
  PROVE  /\ Firm(l2, m2, C, S, V)
         /\ Clean(l, m, C, S, V) /\ m.todo = {} /\ l \in {"idle", "nextJob", "insert"}
              => Clean(l2, m2, C, S, V)
<1>1. Tasks(m2) = {}
  BY DEF Tasks
<1>2. Control(l2, m2) /\ Disjoint(l2, m2)
  BY <1>1 DEF Control, Disjoint, Clearing
<1>3. Listed(m2, C) /\ Coupled(l2, m2, S, V)
  BY <1>1 DEF Firm, Listed, Coupled
<1>4. ASSUME Clean(l, m, C, S, V), m.todo = {}, l \in {"idle", "nextJob", "insert"}
      PROVE  Clean(l2, m2, C, S, V)
  <2>1. Swept(l2, m2, S) /\ OneEach(S)
    BY <1>1, <1>4 DEF Clean, Swept
  <2>2. Refreshed(l2, m2, S, C) /\ Embedded(l2, m2, S, V)
    BY <1>4 DEF Clean, Refreshed, Embedded, Waits, Clearing
  <2> QED BY <2>1, <2>2 DEF Clean
<1> QED BY <1>2, <1>3, <1>4 DEF Firm

\* Opening the file: vectors only go when there are no summaries.
LEMMA OpenHolds ==
  ASSUME NEW l \in OpenLabel, NEW l2 \in OpenLabel \cup {"opened"}, NEW m, NEW C, NEW S, NEW V,
         NEW W, Firm(l, m, C, S, V), W = V \/ S = {}
  PROVE  Firm(l2, m, C, S, W) /\ (Clean(l, m, C, S, V) => Clean(l2, m, C, S, W))
<1> USE DEF OpenLabel
<1>1. Control(l2, m) /\ Disjoint(l2, m) /\ Coupled(l2, m, S, W) /\ Tasks(m) = {} /\ m.todo = {}
  BY DEF Firm, Control, Disjoint, Clearing, Coupled
<1>2. ASSUME Clean(l, m, C, S, V) PROVE Clean(l2, m, C, S, W)
  BY <1>1, <1>2 DEF Clean, Swept, Refreshed, Embedded, Waits, Clearing
<1> QED BY <1>1, <1>2 DEF Firm

\* Begin: every file whose chunks are to be rewritten waits in a job.
LEMMA BeginHolds ==
  ASSUME NEW m, NEW m2, NEW C, NEW S, NEW V, Firm("opened", m, C, S, V),
         m2.cmd = m.cmd, m2.work = m.work, m2.asked = m.asked, m2.answered = m.answered,
         \A s \in m2.stale : Waits(m2, s[1], s[2]),
         \A j, k \in m2.todo : j.repo = k.repo /\ j.files \cap k.files # {} => j = k
  PROVE  /\ Firm("chunk", m2, C, S, V)
         /\ Clean("opened", m, C, S, V) => Clean("chunk", m2, C, S, V)
<1>1. Tasks(m2) = Tasks(m) /\ Tasks(m) = {} /\ m.todo = {} /\ m.cmd \in {"build", "update"}
  BY DEF Tasks, Firm, Control
<1>2. m2.work = {} /\ m2.asked = {} /\ m2.answered = {}
  BY <1>1 DEF Tasks
<1>3. Control("chunk", m2)
  BY <1>1, <1>2 DEF Control, OpenLabel
<1>4. Disjoint("chunk", m2) /\ Listed(m2, C) /\ Coupled("chunk", m2, S, V)
  BY <1>1 DEF Firm, Disjoint, Listed, Coupled, Clearing
<1>5. ASSUME Clean("opened", m, C, S, V) PROVE Clean("chunk", m2, C, S, V)
  BY <1>1, <1>5 DEF Clean, Swept, Refreshed, Embedded, Waits, Clearing
<1> QED BY <1>3, <1>4, <1>5 DEF Firm

\* Rechunk: the file waits to be summarised again.
LEMMA RechunkHolds ==
  ASSUME NEW m, NEW m2, NEW C, NEW D, NEW S, NEW V, Firm("chunk", m, C, S, V),
         NEW s \in m.stale, m2.stale \subseteq m.stale, m2.cmd = m.cmd, m2.todo = m.todo,
         m2.repo = m.repo, m2.files = m.files,
         m2.work = m.work, m2.asked = m.asked, m2.answered = m.answered,
         \A c \in C : (c.repo = s[1] /\ c.file = s[2]) \/ c \in D,
         \A c \in D : (c.repo = s[1] /\ c.file = s[2]) \/ c \in C,
         \A c, d \in D : c.repo = s[1] /\ c.file = s[2] /\ d.repo = s[1] /\ d.file = s[2] => c = d
  PROVE  /\ Firm("chunk", m2, D, S, V)
         /\ Clean("chunk", m, C, S, V) => Clean("chunk", m2, D, S, V)
<1>1. Tasks(m2) = {} /\ Tasks(m) = {}
  BY DEF Tasks, Firm, Control
<1>2. Control("chunk", m2) /\ Disjoint("chunk", m2)
  BY <1>1 DEF Firm, Control, Disjoint, Waits, Tasks, Clearing, OpenLabel
<1>3. Listed(m2, D) /\ Coupled("chunk", m2, S, V)
  BY <1>1 DEF Firm, Listed, Coupled, Same
<1>4. Waits(m, s[1], s[2])
  BY DEF Firm, Control
<1>5. ASSUME Clean("chunk", m, C, S, V) PROVE Clean("chunk", m2, D, S, V)
  <2>1. ASSUME NEW x \in S PROVE Shown(D, x) \/ Waits(m2, x.repo, x.file)
    <3>1. Shown(C, x) \/ Waits(m, x.repo, x.file)
      BY <1>5 DEF Clean, Refreshed, Clearing
    <3>2. CASE Shown(C, x)
      <4>1. PICK c \in C : Same(c, x) /\ c.text = x.text
        BY <3>2 DEF Shown
      <4> QED BY <4>1, <1>4 DEF Shown, Same, Waits
    <3> QED BY <3>1, <3>2 DEF Waits
  <2> QED BY <1>1, <1>5, <2>1 DEF Clean, Swept, Refreshed, Embedded
<1> QED BY <1>2, <1>3, <1>5 DEF Firm

\* The steps that only go on to another label.
Moves(l, m, l2) ==
  \/ l = "chunk" /\ l2 = "nextJob"
  \/ l = "ask" /\ m.work = {} /\ m.asked = {} /\ m.cmd = "build" /\ l2 = "encode"
  \/ l = "ask" /\ m.work = {} /\ m.cmd = "update" /\ l2 = "nextJob"
  \/ l = "nextJob" /\ m.cmd = "update" /\ m.todo = {} /\ m.asked = {} /\ l2 = "encode"
  \/ l = "encode" /\ l2 = "insert"
  \/ l = "insert" /\ m.cmd = "build" /\ m.answered = {} /\ l2 = "nextJob"

LEMMA MoveHolds ==
  ASSUME NEW l, NEW l2, NEW m, NEW C, NEW S, NEW V, Firm(l, m, C, S, V), Moves(l, m, l2)
  PROVE  Firm(l2, m, C, S, V) /\ (Clean(l, m, C, S, V) => Clean(l2, m, C, S, V))
<1>1. l2 \in {"nextJob", "encode", "insert"} /\ l \in {"chunk", "ask", "nextJob", "encode", "insert"}
  BY DEF Moves
<1>2. Control(l2, m)
  BY DEF Moves, Firm, Control, Clearing, OpenLabel, Tasks
<1>3. Disjoint(l2, m) /\ Listed(m, C) /\ Coupled(l2, m, S, V)
  BY <1>1 DEF Firm, Disjoint, Coupled, Clearing
<1>4. ASSUME Clean(l, m, C, S, V) PROVE Clean(l2, m, C, S, V)
  BY <1>1, <1>4 DEF Clean, Swept, Refreshed, Embedded, Clearing
<1> QED BY <1>2, <1>3, <1>4 DEF Firm

\* Clearing fails, or listing does: the process goes on without.
LEMMA FailureHolds ==
  ASSUME NEW l, NEW l2, NEW m, NEW C, NEW S, NEW V, Firm(l, m, C, S, V),
         \/ l \in Clearing /\ l2 = (IF m.cmd = "build" THEN "list" ELSE "ask")
         \/ l = "list" /\ m.cmd = "build" /\ l2 = "nextJob"
  PROVE  Firm(l2, m, C, S, V)
BY DEF Firm, Control, Disjoint, Coupled, Clearing, OpenLabel, Tasks

\* The next job: its files wait no longer, they are in hand.
LEMMA NextJobHolds ==
  ASSUME NEW m, NEW m2, NEW l2, NEW C, NEW S, NEW V, Firm("nextJob", m, C, S, V),
         NEW j \in m.todo, m2.todo = m.todo \ {j}, m2.repo = j.repo, m2.files = j.files,
         m2.cmd = m.cmd, m2.work = m.work, m2.asked = m.asked, m2.answered = m.answered,
         l2 = IF m.cmd = "build" THEN "deleteVecs" ELSE "list"
  PROVE  /\ Firm(l2, m2, C, S, V)
         /\ Clean("nextJob", m, C, S, V) => Clean(l2, m2, C, S, V)
<1>1. /\ Tasks(m2) = Tasks(m) /\ m.work = {} /\ m.cmd \in {"build", "update"}
      /\ m.asked # {} => m.cmd = "update"
      /\ m.answered # {} => m.cmd = "update"
  BY DEF Tasks, Firm, Control, Clearing
<1>2. \A r, f : Waits(m, r, f) <=> Waits(m2, r, f) \/ (r = j.repo /\ f \in j.files)
  BY DEF Waits
<1>3. Control(l2, m2)
  BY <1>1 DEF Control, Clearing, OpenLabel
<1>4. Disjoint(l2, m2)
  <2>1. \A i, k \in m2.todo : i.repo = k.repo /\ i.files \cap k.files # {} => i = k
    BY DEF Firm, Disjoint
  <2>2. /\ \A t, u \in Tasks(m2) : Same(t, u) => t = u
        /\ \A t \in Tasks(m2) : ~Waits(m2, t.repo, t.file) /\ ~Held(m2, t)
    BY <1>1, <1>2 DEF Firm, Disjoint, Held
  <2>3. \A f \in m2.files : ~Waits(m2, m2.repo, f)
    BY DEF Firm, Disjoint, Waits
  <2> QED BY <1>1, <2>1, <2>2, <2>3 DEF Disjoint, Tasks
<1>5. Listed(m2, C) /\ Coupled(l2, m2, S, V)
  BY <1>1 DEF Firm, Listed, Coupled
<1>6. ASSUME Clean("nextJob", m, C, S, V) PROVE Clean(l2, m2, C, S, V)
  <2>1. Swept(l2, m2, S)
    BY <1>1, <1>6 DEF Clean, Swept, Clearing
  <2>2. Refreshed(l2, m2, S, C)
    BY <1>1, <1>2, <1>6 DEF Clean, Refreshed, Held, Clearing
  <2> QED BY <1>6, <2>1, <2>2 DEF Clean, Embedded
<1> QED BY <1>3, <1>4, <1>5, <1>6 DEF Firm

\* Listing makes a task of some of the rows of the files in hand.
LEMMA ListHolds ==
  ASSUME NEW m, NEW m2, NEW l2, NEW C, NEW S, NEW V, Firm("list", m, C, S, V),
         m2.todo = m.todo, m2.repo = m.repo, m2.files = m.files,
         m2.cmd = m.cmd, m2.asked = m.asked, m2.answered = m.answered,
         \A t \in m2.work : \E c \in C : Held(m, c) /\ Same(c, t) /\ c.text = t.text,
         \A t, u \in m2.work : Same(t, u) /\ t.text = u.text => t = u,
         l2 = IF m.cmd = "build" THEN "ask" ELSE "deleteVecs"
  PROVE  /\ Firm(l2, m2, C, S, V)
         /\ Clean("list", m, C, S, V) => Clean(l2, m2, C, S, V)
<1>1. /\ m.cmd \in {"build", "update"} /\ m.work = {}
      /\ m.asked # {} => m.cmd = "update"
      /\ m.answered # {} => m.cmd = "update"
      /\ Tasks(m) = m.asked \cup m.answered /\ Tasks(m2) = m2.work \cup Tasks(m)
  BY DEF Firm, Control, Tasks, Clearing
<1>2. /\ \A f \in m.files : ~Waits(m, m.repo, f)
      /\ \A t \in Tasks(m) : ~Held(m, t)
      /\ \A r, f : Waits(m2, r, f) <=> Waits(m, r, f)
      /\ \A t : Held(m2, t) <=> Held(m, t)
  BY <1>1 DEF Firm, Disjoint, Waits, Held
<1>3. \A t \in m2.work : Held(m, t) /\ Shown(C, t) /\ ~Waits(m2, t.repo, t.file)
  BY <1>2 DEF Held, Same, Shown
<1>4. Control(l2, m2)
  BY <1>1 DEF Firm, Control, Clearing, OpenLabel
<1>5. Listed(m2, C)
  BY <1>1, <1>3 DEF Firm, Listed
<1>6. \A t, u \in Tasks(m2) : Same(t, u) => t = u
  <2> TAKE t, u \in Tasks(m2)
  <2> HAVE Same(t, u)
  <2>1. CASE t \in m2.work /\ u \in m2.work
    <3>1. t.text = u.text
      BY <1>5, <2>1 DEF Firm, Listed, Same
    <3> QED BY <2>1, <3>1
  <2>2. CASE t \in Tasks(m) /\ u \in Tasks(m)
    BY <2>2 DEF Firm, Disjoint
  <2>3. CASE (t \in m2.work /\ u \in Tasks(m)) \/ (t \in Tasks(m) /\ u \in m2.work)
    BY <1>2, <1>3, <2>3 DEF Same, Held
  <2> QED BY <1>1, <2>1, <2>2, <2>3
<1>7. \A t \in Tasks(m2) : ~Waits(m2, t.repo, t.file)
  BY <1>1, <1>2, <1>3 DEF Firm, Disjoint
<1>8. Disjoint(l2, m2)
  BY <1>1, <1>2, <1>3, <1>6, <1>7 DEF Firm, Disjoint, Clearing
<1>9. Coupled(l2, m2, S, V)
  BY DEF Firm, Coupled
<1>10. ASSUME Clean("list", m, C, S, V) PROVE Clean(l2, m2, C, S, V)
  <2>1. \A t \in Tasks(m), x \in S : ~Same(t, x)
    BY <1>10 DEF Clean, Swept, Clearing
  <2>2. m.cmd = "build" => \A t \in m2.work, x \in S : ~Same(t, x)
    BY <1>3, <1>10 DEF Clean, Swept, Same, Held
  <2>3. Swept(l2, m2, S)
    BY <1>1, <2>1, <2>2 DEF Swept, Clearing
  <2>4. Refreshed(l2, m2, S, C)
    BY <1>1, <1>2, <1>10 DEF Clean, Refreshed, Clearing
  <2> QED BY <1>10, <2>3, <2>4 DEF Clean, Embedded
<1> QED BY <1>4, <1>5, <1>8, <1>9, <1>10 DEF Firm

\* Clearing: first the vectors of the summaries in hand, ..
LEMMA ClearVecsHolds ==
  ASSUME NEW m, NEW C, NEW S, NEW V, NEW W, Firm("deleteVecs", m, C, S, V),
         W = {v \in V : v.id \notin Ids({x \in S : Held(m, x)})}
  PROVE  /\ Firm("deleteRows", m, C, S, W)
         /\ Clean("deleteVecs", m, C, S, V) => Clean("deleteRows", m, C, S, W)
<1>1. Control("deleteRows", m) /\ Disjoint("deleteRows", m)
  BY DEF Firm, Control, Disjoint, Clearing, OpenLabel
<1>2. Coupled("deleteRows", m, S, W)
  BY DEF Firm, Coupled, Ids
<1>3. ASSUME Clean("deleteVecs", m, C, S, V) PROVE Clean("deleteRows", m, C, S, W)
  <2>1. ASSUME NEW x \in S PROVE x.id \in Ids(W) \/ Held(m, x)
    BY <1>3 DEF Clean, Embedded, Ids, Firm, Coupled
  <2>2. Embedded("deleteRows", m, S, W)
    BY <2>1 DEF Embedded
  <2> QED BY <1>3, <2>2 DEF Clean, Swept, Refreshed, Clearing
<1> QED BY <1>1, <1>2, <1>3 DEF Firm

\* .. then the summaries.
LEMMA ClearRowsHolds ==
  ASSUME NEW m, NEW l2, NEW C, NEW S, NEW T, NEW V, Firm("deleteRows", m, C, S, V),
         T = {x \in S : ~Held(m, x)}, l2 = IF m.cmd = "build" THEN "list" ELSE "ask"
  PROVE  /\ Firm(l2, m, C, T, V)
         /\ Clean("deleteRows", m, C, S, V) => Clean(l2, m, C, T, V)
<1>1. Firm(l2, m, C, S, V)
  BY FailureHolds DEF Clearing
<1>2. Coupled(l2, m, T, V)
  BY <1>1 DEF Firm, Coupled
<1>3. ASSUME Clean("deleteRows", m, C, S, V) PROVE Clean(l2, m, C, T, V)
  <2>1. \A t \in Tasks(m), x \in T : ~Same(t, x)
    BY <1>3 DEF Clean, Swept, Firm, Disjoint, Same, Held, Clearing
  <2>2. Swept(l2, m, T)
    BY <2>1 DEF Swept
  <2> QED BY <1>3, <2>2 DEF Clean, OneEach, Refreshed, Embedded
<1> QED BY <1>1, <1>2, <1>3 DEF Firm

\* Asking and answering: tasks change hands, or are dropped.
LEMMA TasksHold ==
  ASSUME NEW l, NEW m, NEW m2, NEW C, NEW S, NEW V, Firm(l, m, C, S, V),
         m2.todo = m.todo, m2.repo = m.repo, m2.files = m.files, m2.cmd = m.cmd,
         m2.stale = m.stale, m2.row = m.row, m2.text = m.text,
         \/ l = "ask" /\ Tasks(m2) = Tasks(m)
         \/ /\ m.asked # {} /\ m2.work = m.work /\ m2.asked \subseteq m.asked
            /\ m2.answered \subseteq m.asked \cup m.answered
  PROVE  /\ Firm(l, m2, C, S, V)
         /\ Clean(l, m, C, S, V) => Clean(l, m2, C, S, V)
<1>1. /\ Tasks(m2) \subseteq Tasks(m)
      /\ \A r, f : Waits(m2, r, f) <=> Waits(m, r, f)
      /\ \A t : Held(m2, t) <=> Held(m, t)
  BY DEF Tasks, Waits, Held
<1>2. Control(l, m2)
  BY <1>1 DEF Firm, Control, Clearing, OpenLabel, Tasks
<1>3. Disjoint(l, m2)
  BY <1>1 DEF Firm, Disjoint, Clearing, Tasks
<1>4. Listed(m2, C) /\ Coupled(l, m2, S, V)
  BY <1>1 DEF Firm, Listed, Coupled
<1>5. ASSUME Clean(l, m, C, S, V) PROVE Clean(l, m2, C, S, V)
  <2>1. Swept(l, m2, S)
    BY <1>1, <1>5 DEF Clean, Swept, Clearing
  <2>2. Refreshed(l, m2, S, C) /\ Embedded(l, m2, S, V)
    BY <1>1, <1>5 DEF Clean, Refreshed, Embedded
  <2> QED BY <1>5, <2>1, <2>2 DEF Clean
<1> QED BY <1>2, <1>3, <1>4, <1>5 DEF Firm

\* A summary is stored for a file that has none, under an id nobody has.
LEMMA InsertHolds ==
  ASSUME NEW m, NEW m2, NEW C, NEW S, NEW V, Firm("insert", m, C, S, V),
         NEW t \in m.answered, m2.answered = m.answered \ {t}, m2.text = t.text,
         m2.todo = m.todo, m2.repo = m.repo, m2.files = m.files, m2.cmd = m.cmd,
         m2.work = m.work, m2.asked = m.asked,
         NEW x, Same(x, t), x.text = t.text, x.id = m2.row, \A y \in S : y.id # x.id
  PROVE  /\ Firm("upsert", m2, C, S \cup {x}, V)
         /\ Clean("insert", m, C, S, V) => Clean("upsert", m2, C, S \cup {x}, V)
<1>1. /\ m.work = {} /\ m.asked = {} /\ Tasks(m) = m.answered /\ Tasks(m2) = m.answered \ {t}
      /\ \A r, f : Waits(m2, r, f) <=> Waits(m, r, f)
  BY DEF Firm, Control, Tasks, Clearing, Waits
<1>2. Control("upsert", m2)
  BY <1>1 DEF Firm, Control, Clearing, OpenLabel
<1>3. Disjoint("upsert", m2)
  BY <1>1 DEF Firm, Disjoint, Clearing
<1>4. Listed(m2, C) /\ Shown(C, x)
  BY <1>1 DEF Firm, Listed, Shown, Same
<1>5. Coupled("upsert", m2, S \cup {x}, V)
  BY DEF Firm, Coupled
<1>6. ASSUME Clean("insert", m, C, S, V) PROVE Clean("upsert", m2, C, S \cup {x}, V)
  <2>1. \A u \in Tasks(m), y \in S : ~Same(u, y)
    BY <1>6 DEF Clean, Swept, Clearing
  <2>2. OneEach(S \cup {x})
    BY <1>1, <1>6, <2>1 DEF Clean, OneEach, Same
  <2>3. Swept("upsert", m2, S \cup {x})
    <3>1. \A u \in Tasks(m2) : ~Same(u, x)
      BY <1>1 DEF Firm, Disjoint, Same
    <3> QED BY <1>1, <2>1, <3>1 DEF Swept
  <2>4. Refreshed("upsert", m2, S \cup {x}, C)
    BY <1>1, <1>4, <1>6 DEF Clean, Refreshed, Clearing
  <2>5. Embedded("upsert", m2, S \cup {x}, V)
    BY <1>6 DEF Clean, Embedded
  <2> QED BY <2>2, <2>3, <2>4, <2>5 DEF Clean
<1> QED BY <1>2, <1>3, <1>4, <1>5, <1>6 DEF Firm

\* Its vector is stored.
LEMMA UpsertHolds ==
  ASSUME NEW m, NEW m2, NEW C, NEW S, NEW V, NEW v, NEW W, Firm("upsert", m, C, S, V),
         v.id = m.row, W = {w \in V : w.id # v.id} \cup {v},
         m2.todo = m.todo, m2.repo = m.repo, m2.files = m.files, m2.cmd = m.cmd,
         m2.work = m.work, m2.asked = m.asked, m2.answered = m.answered
  PROVE  /\ Firm("insert", m2, C, S, W)
         /\ Clean("upsert", m, C, S, V) => Clean("insert", m2, C, S, W)
<1>1. /\ Tasks(m2) = Tasks(m)
      /\ \A r, f : Waits(m2, r, f) <=> Waits(m, r, f)
  BY DEF Tasks, Waits
<1>2. Control("insert", m2) /\ Disjoint("insert", m2)
  BY <1>1 DEF Firm, Control, Disjoint, Clearing, OpenLabel
<1>3. Listed(m2, C) /\ Coupled("insert", m2, S, W)
  BY <1>1 DEF Firm, Listed, Coupled
<1>4. ASSUME Clean("upsert", m, C, S, V) PROVE Clean("insert", m2, C, S, W)
  <2>1. Swept("insert", m2, S) /\ Refreshed("insert", m2, S, C)
    BY <1>1, <1>4 DEF Clean, Swept, Refreshed, Clearing
  <2>2. Embedded("insert", m2, S, W)
    BY <1>4 DEF Clean, Embedded, Ids
  <2> QED BY <1>4, <2>1, <2>2 DEF Clean
<1> QED BY <1>2, <1>3, <1>4 DEF Firm

-----------------------------------------------------------------------------
(* summary_vec is there while a handle is open, and only an index without  *)
(* summaries is ever of another width.                                     *)

TableThere(p) ==
  /\ pc[p] # "idle" => dim[p] = Embedder.dim
  /\ pc[p] \in Opened => columnDim["summary"] # None /\ metaDim["summary"] = Embedder.dim
  /\ lane[p] = "summary" /\ pc[p] = "dropTable" => metaDim["summary"] # Embedder.dim
  /\ lane[p] = "summary" /\ pc[p] = "writeDim" => columnDim["summary"] # None
  /\ summaries # {} => metaDim["summary"] = Embedder.dim

TableInv == \A p \in Proc : TableThere(p)

LEMMA InitTable == Init => TableInv
BY DEF Init, DbInit, TableInv, TableThere, Opened, summaries, Lane

LEMMA OpenTable ==
  ASSUME OneProcess, TypeInv, TableInv, NEW p \in Proc, OpenStep(p)
  PROVE  TableInv'
<1> SUFFICES ASSUME TableThere(p) PROVE TableThere(p)'
  BY DEF OneProcess, TableInv
<1> USE ConstantsAssumption, NoneAssumption
        DEF TableThere, TypeInv, TypeOK, DbTypeOK, Lane, Goto, summaries, dbVars, openVars, tables
<1>1. CASE ReadDim(p)
  BY <1>1 DEF ReadDim, Opened, OpenLabel
<1>2. CASE DropTable(p)
  BY <1>2 DEF DropTable, Opened, OpenLabel
<1>3. CASE CreateTable(p)
  BY <1>3 DEF CreateTable, Opened, OpenLabel
<1>4. CASE WriteDim(p)
  BY <1>4 DEF WriteDim, Opened, OpenLabel
<1> QED BY <1>1, <1>2, <1>3, <1>4 DEF OpenStep, Opening

\* A step of an open handle, which stays open or is closed.
LEMMA OpenedTable ==
  ASSUME OneProcess, TypeInv, TableInv, NEW p \in Proc, UNCHANGED <<columnDim, metaDim, lane>>,
         pc[p] \in Opened \/ rows'["summary"] \subseteq summaries,
         \/ pc[p] \in Opened /\ pc'[p] \in Opened /\ dim' = dim
         \/ pc'[p] = "idle"
         \/ pc'[p] = "readDim" /\ dim'[p] = Embedder.dim
         \/ pc'[p] = pc[p] /\ dim' = dim
  PROVE  TableInv'
<1> SUFFICES ASSUME TableThere(p) PROVE TableThere(p)'
  BY DEF OneProcess, TableInv
<1> QED BY DEF TableThere, summaries, Opened, OpenLabel

LEMMA RunTable ==
  ASSUME OneProcess, TypeInv, TableInv, NEW p \in Proc, Run(p) \/ Answer(p)
  PROVE  TableInv'
<1> USE OpenedTable DEF Opened, OpenLabel, Label, Goto, TypeInv, TypeOK, dbVars, openVars, summaries
<1>1. CASE OpenStep(p)
  BY <1>1, OpenTable
<1>2. CASE Begin(p)
  BY <1>2 DEF Begin
<1>3. CASE Rechunk(p)
  BY <1>3 DEF Rechunk
<1>4. CASE BeginSummaries(p) \/ NextJob(p) \/ ListChunks(p)
  BY <1>4 DEF BeginSummaries, NextJob, ListChunks
<1>5. CASE ClearVecs(p) \/ ClearRows(p)
  BY <1>5 DEF ClearVecs, ClearRows, Cleared
<1>6. CASE Ask(p) \/ Answer(p)
  BY <1>6 DEF Ask, Answer
<1>7. CASE JobAsked(p) \/ AllAsked(p) \/ Encoded(p) \/ Stored(p)
  BY <1>7 DEF JobAsked, AllAsked, Encoded, Stored
<1>8. CASE InsertSummary(p) \/ UpsertSummary(p)
  BY <1>8 DEF InsertSummary, UpsertSummary
<1>9. CASE Finish(p)
  BY <1>9 DEF Finish, Gone
<1> QED BY <1>1, <1>2, <1>3, <1>4, <1>5, <1>6, <1>7, <1>8, <1>9 DEF Run

LEMMA NextTable == OneProcess /\ TypeInv /\ TableInv /\ [Next]_vars => TableInv'
<1> SUFFICES ASSUME OneProcess, TypeInv, TableInv, [Next]_vars PROVE TableInv'
  OBVIOUS
<1> USE OpenedTable DEF Opened, OpenLabel, Label, Goto, TypeInv, TypeOK, dbVars, openVars, summaries
<1>1. ASSUME NEW p \in Proc, NotEncoded(p) \/ Kill(p) \/ StoreFails(p)
      PROVE  TableInv'
  BY <1>1 DEF NotEncoded, Kill, StoreFails, Gone
<1>2. ASSUME NEW p \in Proc, ClearFails(p) \/ ListFails(p)
      PROVE  TableInv'
  BY <1>2 DEF ClearFails, ListFails, Cleared, Gone
<1>3. ASSUME NEW p \in Proc, NEW c \in Command, Start(p, c)
      PROVE  TableInv'
  <2>1. pc'[p] = "readDim" /\ dim'[p] = Embedder.dim /\ UNCHANGED dbVars
    BY <1>3 DEF Start, Open, DbTypeOK
  <2> SUFFICES ASSUME TableThere(p) PROVE TableThere(p)'
    BY DEF OneProcess, TableInv
  <2> QED BY <2>1 DEF TableThere
<1>4. CASE EditFile \/ UNCHANGED vars
  BY <1>4 DEF EditFile, vars, TableInv, TableThere
<1> QED BY <1>1, <1>2, <1>3, <1>4, RunTable DEF Next

-----------------------------------------------------------------------------
(* The invariant, and every step as a step of VectorIndex.                 *)

chunkRows == rows["chunk"]

FirmNow(p)  == Firm(pc[p], mem[p], chunkRows, summaries, summaryVecs)
CleanNow(p) == Clean(pc[p], mem[p], chunkRows, summaries, summaryVecs)

FirmInv  == \A p \in Proc : FirmNow(p)
CleanInv == spent.faults = 0 => \A p \in Proc : CleanNow(p)

IndexInv == TypeInv /\ MatchInv /\ TableInv /\ FirmInv /\ CleanInv

IndexVars == <<summaries, summaryVecs, next>>

\* What is to be shown of every step.
Keeps == FirmInv' /\ CleanInv' /\ [SummaryIndex!Next]_IndexVars

\* A step of the only process.
LEMMA StepHolds ==
  ASSUME OneProcess, FirmInv, CleanInv, NEW p \in Proc, FirmNow(p)',
         spent'.faults = 0 => spent.faults = 0 /\ (CleanNow(p) => CleanNow(p)')
  PROVE  FirmInv' /\ CleanInv'
BY DEF OneProcess, FirmInv, CleanInv

LEMMA StillIndex ==
  ASSUME rows'["summary"] = summaries, vecs'["summary"] = summaryVecs, nextId'["summary"] = next
  PROVE  UNCHANGED IndexVars
BY DEF IndexVars, summaries, summaryVecs, next

\* A fault leaves nothing to be shown of CleanInv.
LEMMA FaultHolds ==
  ASSUME OneProcess, IndexInv, NEW p \in Proc, Fault, FirmNow(p)', UNCHANGED dbVars
  PROVE  Keeps
<1>1. spent'.faults # 0
  BY DEF Fault, IndexInv, TypeInv, TypeOK
<1>2. UNCHANGED IndexVars
  BY StillIndex DEF dbVars, summaries, summaryVecs, next
<1> QED BY <1>1, <1>2, StepHolds DEF IndexInv, Keeps

LEMMA GoneHolds ==
  ASSUME OneProcess, IndexInv, NEW p \in Proc, Gone(p), Fault
  PROVE  Keeps
<1>1. pc'[p] = "idle" /\ mem'[p] = Blank /\ UNCHANGED dbVars
  BY DEF Gone, Goto, IndexInv, TypeInv, TypeOK
<1>2. FirmNow(p)'
  BY <1>1, EmptyHolds, BlankFields
     DEF IndexInv, FirmInv, FirmNow, dbVars, chunkRows, summaries, summaryVecs
<1> QED BY <1>1, <1>2, FaultHolds

LEMMA StartFinishHolds ==
  ASSUME OneProcess, IndexInv, NEW p \in Proc, Finish(p) \/ \E c \in Command : Start(p, c)
  PROVE  Keeps
<1>1. UNCHANGED dbVars /\ spent'.faults = spent.faults
  BY DEF Finish, Gone, Start, Open, IndexInv, TypeInv, TypeOK
<1>2. UNCHANGED IndexVars
  BY <1>1, StillIndex DEF dbVars, summaries, summaryVecs, next
<1>3. mem[p].todo = {} /\ pc[p] \in {"idle", "nextJob", "insert"}
  BY DEF Finish, Start, Open, IndexInv, FirmInv, FirmNow, Firm, Control, OpenLabel
<1>4. /\ pc'[p] \in {"idle", "readDim"}
      /\ pc'[p] = "readDim" => mem'[p].cmd \in {"build", "update"}
      /\ mem'[p].todo = {} /\ mem'[p].work = {} /\ mem'[p].asked = {} /\ mem'[p].answered = {}
  <2>1. CASE Finish(p)
    BY <2>1, BlankFields DEF Finish, Gone, Goto, IndexInv, TypeInv, TypeOK
  <2>2. CASE \E c \in Command : Start(p, c)
    <3>1. PICK c \in Command : Start(p, c)
      BY <2>2
    <3>2. pc'[p] = "readDim" /\ mem'[p] = [Blank EXCEPT !.cmd = c]
      BY <3>1 DEF Start, Open, Goto, IndexInv, TypeInv, TypeOK
    <3> QED BY <3>2, BlankFields, ConstantsAssumption DEF Blank
  <2> QED BY <2>1, <2>2
<1>5. FirmNow(p)' /\ (CleanNow(p) => CleanNow(p)')
  BY <1>1, <1>3, <1>4, EmptyHolds
     DEF IndexInv, FirmInv, FirmNow, CleanNow, dbVars, chunkRows, summaries, summaryVecs
<1> QED BY <1>1, <1>2, <1>5, StepHolds DEF IndexInv, Keeps

\* Opening the file drops summary_vec only when there are no summaries.
LEMMA OpenStepHolds ==
  ASSUME OneProcess, IndexInv, NEW p \in Proc, OpenStep(p)
  PROVE  Keeps
<1>1. /\ pc[p] \in OpenLabel /\ pc'[p] \in OpenLabel \cup {"opened"}
      /\ UNCHANGED <<rows, nextId, mem, spent>>
  BY DEF OpenStep, Opening, ReadDim, DropTable, CreateTable, WriteDim, OpenLabel, Goto,
         dbVars, tables, IndexInv, TypeInv, TypeOK
<1>2. vecs'["summary"] = summaryVecs \/ (summaries = {} /\ vecs'["summary"] = {})
  <2>1. CASE DropTable(p)
    BY <2>1 DEF DropTable, IndexInv, TableInv, TableThere, TypeInv, TypeOK, DbTypeOK, Lane,
                summaryVecs
  <2>2. CASE ReadDim(p) \/ CreateTable(p) \/ WriteDim(p)
    BY <2>2 DEF ReadDim, CreateTable, WriteDim, dbVars, tables, summaryVecs
  <2> QED BY <2>1, <2>2 DEF OpenStep, Opening
<1>3. FirmNow(p)' /\ (CleanNow(p) => CleanNow(p)')
  BY <1>1, <1>2, OpenHolds
     DEF IndexInv, FirmInv, FirmNow, CleanNow, chunkRows, summaries, summaryVecs
<1>4. [SummaryIndex!Next]_IndexVars
  BY <1>1, <1>2 DEF IndexVars, summaries, summaryVecs, next, SummaryIndex!Next,
                    SummaryIndex!Unembed
<1> QED BY <1>1, <1>3, <1>4, StepHolds DEF IndexInv, Keeps

\* A step that leaves the summary lane and the bounds alone.
LEMMA QuietHolds ==
  ASSUME OneProcess, IndexInv, NEW p \in Proc, rows'["summary"] = summaries, UNCHANGED vecs,
         nextId'["summary"] = next, UNCHANGED spent,
         Firm(pc'[p], mem'[p], rows'["chunk"], summaries, summaryVecs),
         Clean(pc[p], mem[p], chunkRows, summaries, summaryVecs) =>
           Clean(pc'[p], mem'[p], rows'["chunk"], summaries, summaryVecs)
  PROVE  Keeps
<1>1. UNCHANGED IndexVars
  BY StillIndex DEF summaryVecs
<1>2. FirmNow(p)' /\ (CleanNow(p) => CleanNow(p)')
  BY DEF FirmNow, CleanNow, chunkRows, summaries, summaryVecs
<1> QED BY <1>1, <1>2, StepHolds DEF IndexInv, Keeps

LEMMA BeginKeeps ==
  ASSUME OneProcess, IndexInv, NEW p \in Proc, Begin(p)
  PROVE  Keeps
<1>1. PICK old, jobs :
        /\ mem' = [mem EXCEPT ![p].stale = old, ![p].todo = jobs]
        /\ \/ old = Repo \X File /\ jobs = {[repo |-> r, files |-> File] : r \in Repo}
           \/ /\ old \in SUBSET (Repo \X File)
              /\ jobs = {[repo |-> c[1], files |-> {c[2]}] : c \in old}
  BY DEF Begin
<1>2. mem[p] \in Memory
  BY ProcessTypes DEF IndexInv
<1>3. /\ mem'[p].stale = old /\ mem'[p].todo = jobs /\ mem'[p].cmd = mem[p].cmd
      /\ mem'[p].work = mem[p].work /\ mem'[p].asked = mem[p].asked
      /\ mem'[p].answered = mem[p].answered
  BY <1>1, <1>2 DEF IndexInv, TypeInv, TypeOK, Memory
<1>4. /\ \A s \in old : \E j \in jobs : j.repo = s[1] /\ s[2] \in j.files
      /\ \A j, k \in jobs : j.repo = k.repo /\ j.files \cap k.files # {} => j = k
  <2>1. CASE old = Repo \X File /\ jobs = {[repo |-> r, files |-> File] : r \in Repo}
    <3>1. ASSUME NEW s \in old PROVE \E j \in jobs : j.repo = s[1] /\ s[2] \in j.files
      <4>1. s[1] \in Repo /\ s[2] \in File
        BY <2>1
      <4>2. [repo |-> s[1], files |-> File] \in jobs
        BY <2>1, <4>1
      <4> QED BY <4>1, <4>2
    <3> QED BY <2>1, <3>1
  <2>2. CASE jobs = {[repo |-> c[1], files |-> {c[2]}] : c \in old}
    <3>1. ASSUME NEW s \in old PROVE \E j \in jobs : j.repo = s[1] /\ s[2] \in j.files
      <4>1. [repo |-> s[1], files |-> {s[2]}] \in jobs
        BY <2>2
      <4> QED BY <4>1
    <3>2. ASSUME NEW j \in jobs, NEW k \in jobs, j.repo = k.repo, j.files \cap k.files # {}
          PROVE  j = k
      <4>1. PICK c \in old : j = [repo |-> c[1], files |-> {c[2]}]
        BY <2>2
      <4>2. PICK d \in old : k = [repo |-> d[1], files |-> {d[2]}]
        BY <2>2
      <4>3. c[1] = d[1] /\ c[2] = d[2]
        BY <3>2, <4>1, <4>2
      <4> QED BY <4>1, <4>2, <4>3
    <3> QED BY <3>1, <3>2
  <2> QED BY <1>1, <2>1, <2>2
<1>5. pc[p] = "opened" /\ pc'[p] = "chunk" /\ UNCHANGED <<dbVars, spent>>
  BY DEF Begin, Goto, IndexInv, TypeInv, TypeOK
<1>6. Firm("opened", mem[p], chunkRows, summaries, summaryVecs)
  BY <1>5 DEF IndexInv, FirmInv, FirmNow
<1>7. \A s \in mem'[p].stale : Waits(mem'[p], s[1], s[2])
  BY <1>3, <1>4 DEF Waits
<1> HIDE DEF Waits
<1>8. /\ Firm("chunk", mem'[p], chunkRows, summaries, summaryVecs)
      /\ Clean("opened", mem[p], chunkRows, summaries, summaryVecs) =>
           Clean("chunk", mem'[p], chunkRows, summaries, summaryVecs)
  BY <1>3, <1>4, <1>6, <1>7, BeginHolds
<1> QED BY <1>5, <1>8, QuietHolds DEF dbVars, chunkRows, summaries, next

LEMMA RechunkKeeps ==
  ASSUME OneProcess, IndexInv, NEW p \in Proc, Rechunk(p)
  PROVE  Keeps
<1>1. PICK s \in mem[p].stale :
        /\ rows' = [rows EXCEPT
                      !["chunk"] = (@ \ RowsOf("chunk", s[1], {s[2]}))
                                     \cup Chunks(s[1], s[2], disk[s[1]][s[2]])]
        /\ mem' = [mem EXCEPT ![p].stale = @ \ {s}]
  BY DEF Rechunk
<1>2. mem[p] \in Memory
  BY ProcessTypes DEF IndexInv
<1>3. /\ mem'[p].stale \subseteq mem[p].stale /\ mem'[p].todo = mem[p].todo
      /\ mem'[p].cmd = mem[p].cmd /\ mem'[p].repo = mem[p].repo /\ mem'[p].files = mem[p].files
      /\ mem'[p].work = mem[p].work /\ mem'[p].asked = mem[p].asked
      /\ mem'[p].answered = mem[p].answered
  BY <1>1, <1>2 DEF IndexInv, TypeInv, TypeOK, Memory
<1> DEFINE new == Chunks(s[1], s[2], disk[s[1]][s[2]])
<1>4. /\ rows'["chunk"] = (chunkRows \ RowsOf("chunk", s[1], {s[2]})) \cup new
      /\ rows'["summary"] = summaries
  BY <1>1 DEF IndexInv, TypeInv, TypeOK, DbTypeOK, Lane, chunkRows, summaries
<1>5. /\ \A c \in new : c.repo = s[1] /\ c.file = s[2]
      /\ \A c, d \in new : c = d
  BY DEF Chunks
<1> HIDE DEF new
<1>6. \A c : c \in RowsOf("chunk", s[1], {s[2]}) <=> c \in chunkRows /\ c.repo = s[1] /\ c.file = s[2]
  BY DEF RowsOf, chunkRows
<1> DEFINE D == rows'["chunk"]
<1>7. /\ \A c \in chunkRows : (c.repo = s[1] /\ c.file = s[2]) \/ c \in D
      /\ \A c \in D : (c.repo = s[1] /\ c.file = s[2]) \/ c \in chunkRows
      /\ \A c, d \in D : c.repo = s[1] /\ c.file = s[2] /\ d.repo = s[1] /\ d.file = s[2] => c = d
  BY <1>4, <1>5, <1>6
<1>8. pc[p] = "chunk" /\ UNCHANGED <<pc, vecs, spent>> /\ nextId'["summary"] = next
  BY DEF Rechunk, next, IndexInv, TypeInv, TypeOK, DbTypeOK, Lane
<1>9. Firm("chunk", mem[p], chunkRows, summaries, summaryVecs)
  BY <1>8 DEF IndexInv, FirmInv, FirmNow
<1> HIDE DEF D
<1>10. /\ Firm("chunk", mem'[p], D, summaries, summaryVecs)
       /\ Clean("chunk", mem[p], chunkRows, summaries, summaryVecs) =>
            Clean("chunk", mem'[p], D, summaries, summaryVecs)
  BY <1>3, <1>7, <1>9, RechunkHolds
<1> QED BY <1>4, <1>8, <1>10, QuietHolds DEF D

\* The steps that only go on to another label.
LEMMA MoveKeeps ==
  ASSUME OneProcess, IndexInv, NEW p \in Proc,
         BeginSummaries(p) \/ JobAsked(p) \/ AllAsked(p) \/ Encoded(p) \/ Stored(p)
  PROVE  Keeps
<1>1. UNCHANGED <<dbVars, mem, spent>>
  BY DEF BeginSummaries, JobAsked, AllAsked, Encoded, Stored
<1>2. FirmNow(p)
  BY DEF IndexInv, FirmInv
<1>3. mem[p].cmd \in {"build", "update"} \/ pc[p] = "idle"
  BY <1>2 DEF FirmNow, Firm, Control
<1>4. Moves(pc[p], mem[p], pc'[p])
  BY <1>3 DEF BeginSummaries, JobAsked, AllAsked, Encoded, Stored, Moves, Goto,
              IndexInv, TypeInv, TypeOK
<1> QED BY <1>1, <1>2, <1>4, MoveHolds, QuietHolds
        DEF FirmNow, dbVars, chunkRows, summaries, next

LEMMA NextJobKeeps ==
  ASSUME OneProcess, IndexInv, NEW p \in Proc, NextJob(p)
  PROVE  Keeps
<1>1. PICK j \in mem[p].todo :
        mem' = [mem EXCEPT ![p].todo = @ \ {j}, ![p].repo = j.repo, ![p].files = j.files]
  BY DEF NextJob
<1>2. mem[p] \in Memory
  BY ProcessTypes DEF IndexInv
<1>3. /\ mem'[p].todo = mem[p].todo \ {j}
      /\ mem'[p].repo = j.repo /\ mem'[p].files = j.files
      /\ mem'[p].cmd = mem[p].cmd
      /\ mem'[p].work = mem[p].work /\ mem'[p].asked = mem[p].asked
      /\ mem'[p].answered = mem[p].answered
  BY <1>1, <1>2 DEF IndexInv, TypeInv, TypeOK, Memory
<1>4. /\ pc[p] = "nextJob" /\ UNCHANGED <<dbVars, spent>>
      /\ pc'[p] = IF mem[p].cmd = "build" THEN "deleteVecs" ELSE "list"
  BY DEF NextJob, Goto, IndexInv, TypeInv, TypeOK
<1>5. Firm("nextJob", mem[p], chunkRows, summaries, summaryVecs)
  BY <1>4 DEF IndexInv, FirmInv, FirmNow
<1>6. /\ Firm(pc'[p], mem'[p], chunkRows, summaries, summaryVecs)
      /\ Clean("nextJob", mem[p], chunkRows, summaries, summaryVecs) =>
           Clean(pc'[p], mem'[p], chunkRows, summaries, summaryVecs)
  BY <1>3, <1>4, <1>5, NextJobHolds
<1> QED BY <1>4, <1>6, QuietHolds DEF dbVars, chunkRows, summaries, next

LEMMA ListKeeps ==
  ASSUME OneProcess, IndexInv, NEW p \in Proc, ListChunks(p)
  PROVE  Keeps
<1> DEFINE listed == {x \in RowsOf("chunk", mem[p].repo, mem[p].files) : WorthAsking(mem[p].cmd, x)}
           w == {[repo |-> x.repo, file |-> x.file, text |-> x.text] : x \in listed}
<1>1. mem' = [mem EXCEPT ![p].work = w]
  BY DEF ListChunks
<1>2. mem[p] \in Memory
  BY ProcessTypes DEF IndexInv
<1>3. \A t \in w : \E c \in chunkRows : Held(mem[p], c) /\ Same(c, t) /\ c.text = t.text
  BY DEF Held, Same, RowsOf, chunkRows
<1>4. \A t, u \in w : Same(t, u) /\ t.text = u.text => t = u
  BY DEF Same
<1> HIDE DEF w
<1>5. /\ mem'[p].work = w
      /\ mem'[p].todo = mem[p].todo /\ mem'[p].repo = mem[p].repo /\ mem'[p].files = mem[p].files
      /\ mem'[p].cmd = mem[p].cmd /\ mem'[p].asked = mem[p].asked
      /\ mem'[p].answered = mem[p].answered
  BY <1>1, <1>2 DEF IndexInv, TypeInv, TypeOK, Memory
<1>6. /\ pc[p] = "list" /\ UNCHANGED <<dbVars, spent>>
      /\ pc'[p] = IF mem[p].cmd = "build" THEN "ask" ELSE "deleteVecs"
  BY DEF ListChunks, Goto, IndexInv, TypeInv, TypeOK
<1>7. Firm("list", mem[p], chunkRows, summaries, summaryVecs)
  BY <1>6 DEF IndexInv, FirmInv, FirmNow
<1>8. /\ Firm(pc'[p], mem'[p], chunkRows, summaries, summaryVecs)
      /\ Clean("list", mem[p], chunkRows, summaries, summaryVecs) =>
           Clean(pc'[p], mem'[p], chunkRows, summaries, summaryVecs)
  BY <1>3, <1>4, <1>5, <1>6, <1>7, ListHolds
<1> QED BY <1>6, <1>8, QuietHolds DEF dbVars, chunkRows, summaries, next

LEMMA AskKeeps ==
  ASSUME OneProcess, IndexInv, NEW p \in Proc, Ask(p) \/ Answer(p)
  PROVE  Keeps
<1>1. mem[p] \in Memory
  BY ProcessTypes DEF IndexInv
<1> USE DEF IndexInv, TypeInv, TypeOK, Memory
<1>2. /\ mem'[p].todo = mem[p].todo /\ mem'[p].repo = mem[p].repo
      /\ mem'[p].files = mem[p].files /\ mem'[p].cmd = mem[p].cmd
      /\ mem'[p].stale = mem[p].stale /\ mem'[p].row = mem[p].row
      /\ mem'[p].text = mem[p].text
      /\ \/ pc[p] = "ask" /\ Tasks(mem'[p]) = Tasks(mem[p])
         \/ /\ mem[p].asked # {} /\ mem'[p].work = mem[p].work
            /\ mem'[p].asked \subseteq mem[p].asked
            /\ mem'[p].answered \subseteq mem[p].asked \cup mem[p].answered
  <2>1. CASE Ask(p)
    <3>1. PICK t \in mem[p].work :
            mem' = [mem EXCEPT ![p].work = @ \ {t}, ![p].asked = @ \cup {t}]
      BY <2>1 DEF Ask
    <3>2. mem'[p] = [mem[p] EXCEPT !.work = @ \ {t}, !.asked = @ \cup {t}]
      BY <3>1
    <3>3. Tasks(mem'[p]) = Tasks(mem[p])
      BY <1>1, <3>2 DEF Tasks
    <3> HIDE DEF Tasks
    <3> QED BY <2>1, <1>1, <3>2, <3>3 DEF Ask
  <2>2. CASE Answer(p)
    <3>1. PICK t \in mem[p].asked :
            \/ mem' = [mem EXCEPT ![p].asked = @ \ {t}, ![p].answered = @ \cup {t}]
            \/ mem' = [mem EXCEPT ![p].asked = @ \ {t}]
      BY <2>2 DEF Answer
    <3>2. \/ mem'[p] = [mem[p] EXCEPT !.asked = @ \ {t}, !.answered = @ \cup {t}]
          \/ mem'[p] = [mem[p] EXCEPT !.asked = @ \ {t}]
      BY <3>1
    <3>3. CASE mem'[p] = [mem[p] EXCEPT !.asked = @ \ {t}, !.answered = @ \cup {t}]
      BY <1>1, <3>3
    <3>4. CASE mem'[p] = [mem[p] EXCEPT !.asked = @ \ {t}]
      BY <1>1, <3>4
    <3> QED BY <3>2, <3>3, <3>4
  <2> QED BY <2>1, <2>2
<1>3. UNCHANGED <<dbVars, pc, spent>>
  BY DEF Ask, Answer
<1>4. /\ Firm(pc[p], mem'[p], chunkRows, summaries, summaryVecs)
      /\ Clean(pc[p], mem[p], chunkRows, summaries, summaryVecs) =>
           Clean(pc[p], mem'[p], chunkRows, summaries, summaryVecs)
  <2>1. Firm(pc[p], mem[p], chunkRows, summaries, summaryVecs)
    BY DEF FirmInv, FirmNow
  <2> QED BY <1>2, <2>1, TasksHold
<1> QED BY <1>3, <1>4, QuietHolds DEF dbVars, chunkRows, summaries, next

LEMMA ClearVecsKeeps ==
  ASSUME OneProcess, IndexInv, NEW p \in Proc, ClearVecs(p)
  PROVE  Keeps
<1>1. /\ pc[p] = "deleteVecs" /\ pc'[p] = "deleteRows" /\ UNCHANGED <<rows, nextId, mem, spent>>
      /\ vecs'["summary"] = {v \in summaryVecs : v.id \notin Ids({x \in summaries : Held(mem[p], x)})}
  BY DEF ClearVecs, DeleteVecsOf, RowsOf, Held, Goto, summaries, summaryVecs,
         IndexInv, TypeInv, TypeOK, DbTypeOK, Lane
<1>2. FirmNow(p)' /\ (CleanNow(p) => CleanNow(p)')
  <2>1. Firm("deleteVecs", mem[p], chunkRows, summaries, summaryVecs)
    BY <1>1 DEF IndexInv, FirmInv, FirmNow
  <2> QED BY <1>1, <2>1, ClearVecsHolds DEF FirmNow, CleanNow, chunkRows, summaries, summaryVecs
<1>3. [SummaryIndex!Next]_IndexVars
  BY <1>1 DEF SummaryIndex!Next, SummaryIndex!Unembed, summaries, summaryVecs, next
<1> QED BY <1>1, <1>2, <1>3, StepHolds DEF IndexInv, Keeps

LEMMA ClearRowsKeeps ==
  ASSUME OneProcess, IndexInv, NEW p \in Proc, ClearRows(p)
  PROVE  Keeps
<1>1. /\ pc[p] = "deleteRows" /\ UNCHANGED <<vecs, nextId, mem, spent>>
      /\ pc'[p] = IF mem[p].cmd = "build" THEN "list" ELSE "ask"
      /\ rows'["summary"] = {x \in summaries : ~Held(mem[p], x)}
      /\ rows'["chunk"] = chunkRows
  BY DEF ClearRows, Cleared, DeleteRowsOf, RowsOf, Held, Goto, summaries, chunkRows,
         IndexInv, TypeInv, TypeOK, DbTypeOK, Lane
<1>2. Firm("deleteRows", mem[p], chunkRows, summaries, summaryVecs)
  BY <1>1 DEF IndexInv, FirmInv, FirmNow
<1>3. FirmNow(p)' /\ (CleanNow(p) => CleanNow(p)')
  BY <1>1, <1>2, ClearRowsHolds DEF FirmNow, CleanNow, chunkRows, summaries, summaryVecs
<1>4. \A x \in summaries, v \in summaryVecs : Held(mem[p], x) => v.id # x.id
  BY <1>2 DEF Firm, Coupled
<1>5. [SummaryIndex!Next]_IndexVars
  BY <1>1, <1>4 DEF SummaryIndex!Next, SummaryIndex!Remove, summaries, summaryVecs, next
<1> QED BY <1>1, <1>3, <1>5, StepHolds DEF IndexInv, Keeps

LEMMA InsertKeeps ==
  ASSUME OneProcess, IndexInv, NEW p \in Proc, InsertSummary(p)
  PROVE  Keeps
<1>1. PICK t \in mem[p].answered :
        /\ InsertRow("summary", t.repo, t.file, t.text)
        /\ mem' = [mem EXCEPT ![p].answered = @ \ {t},
                              ![p].row = nextId["summary"], ![p].text = t.text]
  BY DEF InsertSummary
<1>2. mem[p] \in Memory
  BY ProcessTypes DEF IndexInv
<1>3. /\ mem'[p].answered = mem[p].answered \ {t} /\ mem'[p].row = next /\ mem'[p].text = t.text
      /\ mem'[p].todo = mem[p].todo /\ mem'[p].repo = mem[p].repo /\ mem'[p].files = mem[p].files
      /\ mem'[p].cmd = mem[p].cmd /\ mem'[p].work = mem[p].work /\ mem'[p].asked = mem[p].asked
  BY <1>1, <1>2 DEF IndexInv, TypeInv, TypeOK, Memory, next
<1> DEFINE x == [id |-> next, repo |-> t.repo, file |-> t.file, text |-> t.text]
<1>4. /\ rows'["summary"] = summaries \cup {x} /\ rows'["chunk"] = chunkRows
      /\ nextId'["summary"] = next + 1
  BY <1>1 DEF InsertRow, IndexInv, TypeInv, TypeOK, DbTypeOK, Lane, summaries, chunkRows, next
<1>5. x.id = next /\ Same(x, t) /\ x.text = t.text
  BY DEF Same
<1>6. \A y \in summaries : y.id # next
  BY DEF IndexInv, MatchInv, IdsBelow, TypeInv, TypeOK, DbTypeOK, Lane, Row, summaries, next
<1> HIDE DEF x
<1>7. pc[p] = "insert" /\ pc'[p] = "upsert" /\ UNCHANGED <<vecs, spent>>
  BY DEF InsertSummary, Goto, IndexInv, TypeInv, TypeOK
<1>8. FirmNow(p)' /\ (CleanNow(p) => CleanNow(p)')
  <2>1. Firm("insert", mem[p], chunkRows, summaries, summaryVecs)
    BY <1>7 DEF IndexInv, FirmInv, FirmNow
  <2>2. /\ Firm("upsert", mem'[p], chunkRows, summaries \cup {x}, summaryVecs)
        /\ Clean("insert", mem[p], chunkRows, summaries, summaryVecs) =>
             Clean("upsert", mem'[p], chunkRows, summaries \cup {x}, summaryVecs)
    BY <1>3, <1>5, <1>6, <2>1, InsertHolds
  <2> QED BY <1>4, <1>7, <2>2 DEF FirmNow, CleanNow, chunkRows, summaries, summaryVecs
<1>9. [SummaryIndex!Next]_IndexVars
  BY <1>4, <1>5, <1>7 DEF SummaryIndex!Next, SummaryIndex!Add, summaries, summaryVecs, next
<1> QED BY <1>7, <1>8, <1>9, StepHolds DEF IndexInv, Keeps

LEMMA UpsertKeeps ==
  ASSUME OneProcess, IndexInv, NEW p \in Proc, UpsertSummary(p)
  PROVE  Keeps
<1> DEFINE v == SummaryVec(p)
<1>1. v.id = mem[p].row /\ v.text = mem[p].text
  BY DEF SummaryVec
<1> HIDE DEF v
<1>2. vecs'["summary"] = {w \in summaryVecs : w.id # v.id} \cup {v}
  <2>1. vecs'["summary"] = {w \in summaryVecs : w.id \notin Ids({v})} \cup {v}
    BY DEF UpsertSummary, UpsertVecs, IndexInv, TypeInv, TypeOK, DbTypeOK, Lane, summaryVecs, v
  <2>2. Ids({v}) = {v.id}
    BY DEF Ids
  <2> QED BY <2>1, <2>2
<1>3. mem[p] \in Memory
  BY ProcessTypes DEF IndexInv
<1>4. /\ mem'[p].todo = mem[p].todo /\ mem'[p].repo = mem[p].repo /\ mem'[p].files = mem[p].files
      /\ mem'[p].cmd = mem[p].cmd /\ mem'[p].work = mem[p].work /\ mem'[p].asked = mem[p].asked
      /\ mem'[p].answered = mem[p].answered
  BY <1>3 DEF UpsertSummary, IndexInv, TypeInv, TypeOK, Memory
<1>5. pc[p] = "upsert" /\ pc'[p] = "insert" /\ UNCHANGED <<rows, nextId, spent>>
  BY DEF UpsertSummary, Goto, IndexInv, TypeInv, TypeOK
<1>6. Firm("upsert", mem[p], chunkRows, summaries, summaryVecs)
  BY <1>5 DEF IndexInv, FirmInv, FirmNow
<1>7. FirmNow(p)' /\ (CleanNow(p) => CleanNow(p)')
  BY <1>1, <1>2, <1>4, <1>5, <1>6, UpsertHolds
     DEF FirmNow, CleanNow, chunkRows, summaries, summaryVecs
<1>8. \E x \in summaries : x.id = v.id /\ x.text = v.text
  BY <1>1, <1>6 DEF Firm, Coupled
<1>9. [SummaryIndex!Next]_IndexVars
  BY <1>2, <1>5, <1>8 DEF SummaryIndex!Next, SummaryIndex!Embed, summaries, summaryVecs, next
<1> QED BY <1>5, <1>7, <1>9, StepHolds DEF IndexInv, Keeps

\* The faults: nobody else is there to have dropped the table.
LEMMA FaultKeeps ==
  ASSUME OneProcess, IndexInv, NEW p \in Proc,
         NotEncoded(p) \/ Kill(p) \/ ClearFails(p) \/ ListFails(p) \/ StoreFails(p)
  PROVE  Keeps
<1>1. pc[p] \in Opened => ~NoTable
  BY DEF IndexInv, TableInv, TableThere, NoTable
<1>2. CASE NotEncoded(p) \/ Kill(p)
  BY <1>2, GoneHolds DEF NotEncoded, Kill
<1>3. CASE StoreFails(p)
  BY <1>1, <1>3, GoneHolds DEF StoreFails, Opened, OpenLabel, Label
<1>4. FirmNow(p)
  BY DEF IndexInv, FirmInv
<1>5. CASE ClearFails(p)
  <2>1. /\ Fault /\ pc[p] \in Clearing /\ UNCHANGED <<dbVars, mem>>
        /\ pc'[p] = IF mem[p].cmd = "build" THEN "list" ELSE "ask"
    BY <1>1, <1>5 DEF ClearFails, Cleared, Goto, Clearing, Opened, OpenLabel, Label,
                      IndexInv, TypeInv, TypeOK
  <2>2. FirmNow(p)'
    BY <1>4, <2>1, FailureHolds DEF FirmNow, dbVars, chunkRows, summaries, summaryVecs
  <2> QED BY <2>1, <2>2, FaultHolds
<1>6. CASE ListFails(p)
  <2>1. Fault
    BY <1>6 DEF ListFails
  <2>2. CASE Gone(p)
    BY <2>1, <2>2, GoneHolds
  <2>3. CASE mem[p].cmd = "build" /\ Goto(p, "nextJob") /\ UNCHANGED <<dbVars, disk, openVars, mem>>
    <3>1. pc[p] = "list" /\ pc'[p] = "nextJob"
      BY <1>6, <2>3 DEF ListFails, Goto, IndexInv, TypeInv, TypeOK
    <3>2. FirmNow(p)'
      BY <1>4, <2>3, <3>1, FailureHolds DEF FirmNow, dbVars, chunkRows, summaries, summaryVecs
    <3> QED BY <2>1, <2>3, <3>2, FaultHolds
  <2> QED BY <1>6, <2>2, <2>3 DEF ListFails
<1> QED BY <1>2, <1>3, <1>5, <1>6

LEMMA NextKeeps ==
  ASSUME OneProcess, IndexInv, [Next]_vars
  PROVE  Keeps
<1>1. ASSUME NEW p \in Proc, Run(p) \/ Answer(p)
      PROVE  Keeps
  <2>1. CASE OpenStep(p) \/ Begin(p) \/ Rechunk(p)
    BY <2>1, OpenStepHolds, BeginKeeps, RechunkKeeps
  <2>2. CASE BeginSummaries(p) \/ JobAsked(p) \/ AllAsked(p) \/ Encoded(p) \/ Stored(p)
    BY <2>2, MoveKeeps
  <2>3. CASE NextJob(p) \/ ListChunks(p) \/ ClearVecs(p) \/ ClearRows(p)
    BY <2>3, NextJobKeeps, ListKeeps, ClearVecsKeeps, ClearRowsKeeps
  <2>4. CASE Ask(p) \/ Answer(p) \/ InsertSummary(p) \/ UpsertSummary(p)
    BY <2>4, AskKeeps, InsertKeeps, UpsertKeeps
  <2>5. CASE Finish(p)
    BY <2>5, StartFinishHolds
  <2> QED BY <1>1, <2>1, <2>2, <2>3, <2>4, <2>5 DEF Run
<1>2. ASSUME NEW p \in Proc, NEW c \in Command, Start(p, c)
      PROVE  Keeps
  BY <1>2, StartFinishHolds
<1>3. ASSUME NEW p \in Proc,
             NotEncoded(p) \/ Kill(p) \/ ClearFails(p) \/ ListFails(p) \/ StoreFails(p)
      PROVE  Keeps
  BY <1>3, FaultKeeps
<1>4. CASE EditFile \/ UNCHANGED vars
  <2>1. UNCHANGED <<dbVars, pc, mem>> /\ spent'.faults = spent.faults
    BY <1>4 DEF EditFile, vars, IndexInv, TypeInv, TypeOK
  <2>2. UNCHANGED IndexVars
    BY <2>1, StillIndex DEF dbVars, summaries, summaryVecs, next
  <2> QED BY <2>1, <2>2 DEF Keeps, IndexInv, FirmInv, CleanInv, FirmNow, CleanNow, dbVars,
                            chunkRows, summaries, summaryVecs
<1> QED BY <1>1, <1>2, <1>3, <1>4 DEF Next

LEMMA InitHolds == Init => FirmInv /\ CleanInv /\ SummaryIndex!Init
<1> SUFFICES ASSUME Init PROVE FirmInv /\ CleanInv /\ SummaryIndex!Init
  OBVIOUS
<1>1. /\ chunkRows = {} /\ summaries = {} /\ summaryVecs = {} /\ next = 1
      /\ \A p \in Proc : pc[p] = "idle" /\ mem[p] = Blank
  BY DEF Init, DbInit, Lane, chunkRows, summaries, summaryVecs, next
<1>2. \A p \in Proc : FirmNow(p)
  BY <1>1, BlankFields DEF FirmNow, Firm, Control, Disjoint, Listed, Coupled, OpenLabel, Clearing
<1>3. \A p \in Proc : CleanNow(p)
  BY <1>1 DEF CleanNow, Clean, OneEach, Swept, Refreshed, Embedded
<1> QED BY <1>1, <1>2, <1>3 DEF FirmInv, CleanInv, SummaryIndex!Init, summaries, summaryVecs, next

LEMMA IndexInvariant ==
  ASSUME OneProcess
  PROVE  /\ Init => IndexInv /\ SummaryIndex!Init
         /\ IndexInv /\ [Next]_vars => IndexInv' /\ [SummaryIndex!Next]_IndexVars
<1>1. Init => IndexInv /\ SummaryIndex!Init
  BY InitTypeInv, InitMatch, InitTable, InitHolds DEF IndexInv
<1>2. IndexInv /\ [Next]_vars => IndexInv' /\ [SummaryIndex!Next]_IndexVars
  BY NextTypeInv, NextMatch, NextTable, NextKeeps DEF IndexInv, Keeps
<1> QED BY <1>1, <1>2

\* One command at a time: "One summary per file", for any number of repos,
\* files and questions at once, as long as nothing is killed and nothing fails.
THEOREM OneSummary == OneProcess => (Spec => []OneSummaryPerFile)
<1> SUFFICES ASSUME OneProcess PROVE Spec => []OneSummaryPerFile
  OBVIOUS
<1>1. IndexInv => OneSummaryPerFile
  BY DEF IndexInv, CleanInv, CleanNow, Clean, OneEach, Same, OneSummaryPerFile, OneProcess, summaries
<1> QED BY IndexInvariant, <1>1, PTL DEF Spec

\* One command at a time, none of them killed and none of their statements and
\* embeddings failed: between commands every summary is about what the index
\* holds of its file, and has its vector.
THEOREM SummariesCurrent == OneProcess => (Spec => []SummaryCurrent)
<1> SUFFICES ASSUME OneProcess PROVE Spec => []SummaryCurrent
  OBVIOUS
<1>1. IndexInv => SummaryCurrent
  <2> SUFFICES ASSUME IndexInv, spent.faults = 0, \A p \in Proc : pc[p] = "idle",
                      NEW s \in summaries
               PROVE  /\ s.text \in {x.text : x \in RowsOf("chunk", s.repo, {s.file})}
                      /\ s.id \in Ids(summaryVecs)
    BY DEF SummaryCurrent, summaryVecs
  <2>1. PICK p \in Proc : pc[p] = "idle" /\ FirmNow(p) /\ CleanNow(p)
    BY DEF OneProcess, IndexInv, FirmInv, CleanInv
  <2>2. s.id \in Ids(summaryVecs)
    BY <2>1 DEF CleanNow, Clean, Embedded
  <2>3. mem[p].todo = {}
    BY <2>1 DEF FirmNow, Firm, Control
  <2>4. Shown(chunkRows, s)
    BY <2>1, <2>3 DEF CleanNow, Clean, Refreshed, Waits, Clearing
  <2> QED BY <2>2, <2>4 DEF Shown, Same, RowsOf, chunkRows
<1> QED BY IndexInvariant, <1>1, PTL DEF Spec

\* One command at a time, killed or failing anywhere, the summary lane
\* implements VectorIndex: a vector is only written for a summary that is there
\* and that it encodes, and a summary goes away after its vector.
THEOREM ImplementsSummaryIndex == OneProcess => (Spec => IsSummaryIndex)
<1> SUFFICES ASSUME OneProcess PROVE Spec => IsSummaryIndex
  OBVIOUS
<1>1. Init => IndexInv /\ SummaryIndex!Init
  BY IndexInvariant
<1>2. IndexInv /\ [Next]_vars => IndexInv'
  BY IndexInvariant
<1>3. IndexInv /\ [Next]_vars
        => [SummaryIndex!Next]_<<rows["summary"], vecs["summary"], nextId["summary"]>>
  BY IndexInvariant DEF IndexVars, summaries, summaryVecs, next
<1> QED BY <1>1, <1>2, <1>3, PTL DEF Spec, IsSummaryIndex, SummaryIndex!Spec
=============================================================================
