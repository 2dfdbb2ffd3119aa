---------------------------- MODULE SummaryLane ----------------------------
(***************************************************************************)
(* The summary lane of search.db: src/llm/summary_store.rs and             *)
(* src/search/store_summary.rs.  A `build` ends with run_summary_phase, an *)
(* `update` with run_summary_phase_for_files.  Both read the chunk lane,   *)
(* ask a language model for one summary per file, at most MaxConcurrent    *)
(* questions at a time, embed the answers and store them.                  *)
(*                                                                         *)
(* Abstractions: the chunks of a file are one row (SearchStore has the     *)
(* chunk lane in full), rewritten in one step; a summary bears the text it *)
(* is the summary of; a repo's files are asked about in any order; the     *)
(* embedder answers in the width of the handle.                            *)
(***************************************************************************)
EXTENDS SearchDb, FiniteSets

CONSTANTS
  Command,        \* the commands users run
  Embedder,       \* the configured model, [name, dim]
  Blacklist,      \* files whose path `summary.path_blacklist` names
  Tiny,           \* texts shorter than `min_file_bytes`
  Meagre,         \* texts of fewer than `min_chunks_per_file` chunks
  MaxConcurrent,  \* `summary.max_concurrent`, the permits of the semaphore
  MaxCommands,    \* bound: commands started
  MaxFaults,      \* bound: kills and failed statements
  MaxEdits        \* bound: edits of files

ASSUME ConstantsAssumption ==
  /\ Command \subseteq {"build", "update"}
  /\ Embedder \in [name : ModelName, dim : Dim]
  /\ Blacklist \subseteq File
  /\ Tiny \subseteq Text /\ Meagre \subseteq Text
  /\ None \notin Text \cup File
  /\ {MaxConcurrent, MaxCommands, MaxFaults, MaxEdits} \subseteq Nat

VARIABLES
  disk,   \* disk[r][f]: the text of a file, None when there is none
  mem,    \* mem[p]: the locals of process p
  spent   \* how much of each bound is used up

vars == <<dbVars, disk, pc, openVars, mem, spent>>

Job  == [repo : Repo, files : SUBSET File]
Task == [repo : Repo, file : File, text : Text]

Label == OpenLabel \cup {"idle", "opened", "chunk", "nextJob", "list", "deleteVecs",
                         "deleteRows", "ask", "encode", "insert", "upsert"}

Memory == [
  cmd      : Command \cup {None},
  stale    : SUBSET (Repo \X File),  \* files whose chunks are to be rewritten
  todo     : SUBSET Job,             \* jobs of the summary phase not begun
  repo     : Repo \cup {None},       \* the job at hand
  files    : SUBSET File,
  work     : SUBSET Task,            \* questions waiting for a permit
  asked    : SUBSET Task,            \* tasks that hold a permit
  answered : SUBSET Task,            \* summaries not yet stored
  row      : Nat,                    \* the row just inserted ..
  text     : Text \cup {None}]       \* .. and its text

Blank == [cmd |-> None, stale |-> {}, todo |-> {}, repo |-> None, files |-> {},
          work |-> {}, asked |-> {}, answered |-> {}, row |-> 0, text |-> None]

Init ==
  /\ DbInit
  /\ disk \in [Repo -> [File -> Text \cup {None}]]
  /\ mem = [p \in Proc |-> Blank]
  /\ spent = [commands |-> 0, faults |-> 0, edits |-> 0]

-----------------------------------------------------------------------------
(* A command up to its summary phase. *)

Start(p, c) ==
  /\ spent.commands < MaxCommands
  /\ c # "build" => spent.commands > 0
  /\ Open(p, Embedder.dim)
  /\ mem' = [mem EXCEPT ![p] = [Blank EXCEPT !.cmd = c]]
  /\ spent' = [spent EXCEPT !.commands = @ + 1]
  /\ UNCHANGED disk

OpenStep(p) ==
  /\ Opening(p)
  /\ UNCHANGED <<disk, mem, spent>>

\* A build is about every file of every repo, an update about those git names.
Begin(p) ==
  /\ pc[p] = "opened"
  /\ \/ /\ mem[p].cmd = "build"
        /\ mem' = [mem EXCEPT ![p].stale = Repo \X File,
                              ![p].todo = {[repo |-> r, files |-> File] : r \in Repo}]
     \/ /\ mem[p].cmd = "update"
        /\ \E changed \in SUBSET (Repo \X File) :
             mem' = [mem EXCEPT ![p].stale = changed,
                                ![p].todo = {[repo |-> c[1], files |-> {c[2]}] : c \in changed}]
  /\ Goto(p, "chunk")
  /\ UNCHANGED <<dbVars, disk, openVars, spent>>

\* Mutant: a file that is gone is chunked like any other.
Chunks_Gone(r, f, t) == {[id |-> nextId["chunk"], repo |-> r, file |-> f, text |-> t]}

\* The rows a file's text is chunked into.
Chunks(r, f, t) == {[id |-> nextId["chunk"], repo |-> r, file |-> f, text |-> x] : x \in {t} \ {None}}

Rechunk(p) ==
  /\ pc[p] = "chunk"
  /\ \E s \in mem[p].stale :
       /\ rows' = [rows EXCEPT
                     !["chunk"] = (@ \ RowsOf("chunk", s[1], {s[2]}))
                                    \cup Chunks(s[1], s[2], disk[s[1]][s[2]])]
       /\ mem' = [mem EXCEPT ![p].stale = @ \ {s}]
  /\ nextId' = [nextId EXCEPT !["chunk"] = @ + 1]
  /\ UNCHANGED <<vecs, columnDim, metaDim, disk, pc, openVars, spent>>

BeginSummaries(p) ==
  /\ pc[p] = "chunk"
  /\ mem[p].stale = {}
  /\ Goto(p, "nextJob")
  /\ UNCHANGED <<dbVars, disk, openVars, mem, spent>>

-----------------------------------------------------------------------------
(* The summary phase: one job per repo in a build, which clears the repo   *)
(* before it lists its chunks; one job per changed file in an update,      *)
(* which lists the file's chunks before it clears.                         *)

\* Mutant: `continue` for a deleted file comes before the clearing.
NextJob_SkipDeleted(p) ==
  /\ pc[p] = "nextJob"
  /\ \E j \in mem[p].todo :
       /\ mem' = [mem EXCEPT ![p].todo = @ \ {j}, ![p].repo = j.repo, ![p].files = j.files]
       /\ Goto(p, CASE RowsOf("chunk", j.repo, j.files) = {} -> "nextJob"
                    [] mem[p].cmd = "build" -> "deleteVecs"
                    [] OTHER -> "list")
  /\ UNCHANGED <<dbVars, disk, openVars, spent>>

NextJob(p) ==
  /\ pc[p] = "nextJob"
  /\ \E j \in mem[p].todo :
       mem' = [mem EXCEPT ![p].todo = @ \ {j}, ![p].repo = j.repo, ![p].files = j.files]
  /\ Goto(p, IF mem[p].cmd = "build" THEN "deleteVecs" ELSE "list")
  /\ UNCHANGED <<dbVars, disk, openVars, spent>>

\* Only the build looks at the blacklist and at the number of chunks.
WorthAsking(c, x) ==
  /\ x.text \notin Tiny
  /\ c = "build" => x.file \notin Blacklist /\ x.text \notin Meagre

ListChunks(p) ==
  /\ pc[p] = "list"
  /\ LET listed == {x \in RowsOf("chunk", mem[p].repo, mem[p].files) : WorthAsking(mem[p].cmd, x)}
     IN  mem' = [mem EXCEPT ![p].work =
                   {[repo |-> x.repo, file |-> x.file, text |-> x.text] : x \in listed}]
  /\ Goto(p, IF mem[p].cmd = "build" THEN "ask" ELSE "deleteVecs")
  /\ UNCHANGED <<dbVars, disk, openVars, spent>>

\* delete_repo and delete_for_path: vectors first.
ClearVecs(p) ==
  /\ pc[p] = "deleteVecs"
  /\ DeleteVecsOf("summary", mem[p].repo, mem[p].files)
  /\ Goto(p, "deleteRows")
  /\ UNCHANGED <<rows, nextId, columnDim, metaDim, disk, openVars, mem, spent>>

Cleared(p) == Goto(p, IF mem[p].cmd = "build" THEN "list" ELSE "ask")

ClearRows(p) ==
  /\ pc[p] = "deleteRows"
  /\ DeleteRowsOf("summary", mem[p].repo, mem[p].files)
  /\ Cleared(p)
  /\ UNCHANGED <<vecs, nextId, columnDim, metaDim, disk, openVars, mem, spent>>

\* Mutant: one permit too few.
Ask_OffByOne(p) ==
  /\ pc[p] = "ask"
  /\ Cardinality(mem[p].asked) + 1 < MaxConcurrent
  /\ \E t \in mem[p].work :
       mem' = [mem EXCEPT ![p].work = @ \ {t}, ![p].asked = @ \cup {t}]
  /\ UNCHANGED <<dbVars, disk, pc, openVars, spent>>

\* sem.acquire_owned().await and tokio::spawn
Ask(p) ==
  /\ pc[p] = "ask"
  /\ Cardinality(mem[p].asked) < MaxConcurrent
  /\ \E t \in mem[p].work :
       mem' = [mem EXCEPT ![p].work = @ \ {t}, ![p].asked = @ \cup {t}]
  /\ UNCHANGED <<dbVars, disk, pc, openVars, spent>>

\* A task ends, with a summary or with an error, and drops its permit.
Answer(p) ==
  /\ \E t \in mem[p].asked :
       \/ mem' = [mem EXCEPT ![p].asked = @ \ {t}, ![p].answered = @ \cup {t}]
       \/ mem' = [mem EXCEPT ![p].asked = @ \ {t}]
  /\ UNCHANGED <<dbVars, disk, pc, openVars, spent>>

\* The build waits for the answers of each repo, the update for those of all.
JobAsked(p) ==
  /\ pc[p] = "ask"
  /\ mem[p].work = {}
  /\ mem[p].cmd = "build" => mem[p].asked = {}
  /\ Goto(p, IF mem[p].cmd = "build" THEN "encode" ELSE "nextJob")
  /\ UNCHANGED <<dbVars, disk, openVars, mem, spent>>

AllAsked(p) ==
  /\ pc[p] = "nextJob"
  /\ mem[p].cmd = "update"
  /\ mem[p].todo = {} /\ mem[p].asked = {}
  /\ mem[p].answered # {}
  /\ Goto(p, "encode")
  /\ UNCHANGED <<dbVars, disk, openVars, mem, spent>>

\* encode_batch returned as many vectors as there are summaries.
Encoded(p) ==
  /\ pc[p] = "encode"
  /\ Goto(p, "insert")
  /\ UNCHANGED <<dbVars, disk, openVars, mem, spent>>

InsertSummary(p) ==
  /\ pc[p] = "insert"
  /\ \E t \in mem[p].answered :
       /\ InsertRow("summary", t.repo, t.file, t.text)
       /\ mem' = [mem EXCEPT ![p].answered = @ \ {t},
                             ![p].row = nextId["summary"], ![p].text = t.text]
  /\ Goto(p, "upsert")
  /\ UNCHANGED <<vecs, columnDim, metaDim, disk, openVars, spent>>

SummaryVec(p) ==
  [id |-> mem[p].row, text |-> mem[p].text, model |-> Embedder.name, dim |-> Embedder.dim]

UpsertSummary(p) ==
  /\ pc[p] = "upsert"
  /\ UpsertVecs("summary", {SummaryVec(p)}, dim[p])
  /\ mem' = [mem EXCEPT ![p].row = 0, ![p].text = None]
  /\ Goto(p, "insert")
  /\ UNCHANGED <<rows, nextId, columnDim, metaDim, disk, openVars, spent>>

Stored(p) ==
  /\ pc[p] = "insert"
  /\ mem[p].answered = {}
  /\ mem[p].cmd = "build"
  /\ Goto(p, "nextJob")
  /\ UNCHANGED <<dbVars, disk, openVars, mem, spent>>

-----------------------------------------------------------------------------
(* The end, faults, and the user. *)

Gone(p) ==
  /\ Goto(p, "idle")
  /\ dim' = [dim EXCEPT ![p] = None]
  /\ mem' = [mem EXCEPT ![p] = Blank]
  /\ UNCHANGED <<dbVars, lane, disk>>

Finish(p) ==
  /\ \/ pc[p] = "nextJob" /\ mem[p].todo = {} /\ mem[p].asked = {} /\ mem[p].answered = {}
     \/ pc[p] = "insert" /\ mem[p].answered = {} /\ mem[p].cmd = "update"
  /\ Gone(p)
  /\ UNCHANGED spent

Fault ==
  /\ spent.faults < MaxFaults
  /\ spent' = [spent EXCEPT !.faults = @ + 1]

\* encode_batch failed: the phase returns the error and the command ends,
\* before a build has cleared the repos it has not come to.
NotEncoded(p) ==
  /\ pc[p] = "encode"
  /\ mem[p].answered # {}
  /\ Fault
  /\ Gone(p)

Kill(p) ==
  /\ pc[p] # "idle"
  /\ Fault
  /\ Gone(p)

\* Another command that is opening the file has dropped summary_vec.
NoTable == columnDim["summary"] = None /\ UNCHANGED spent

\* Clearing failed: warn, and go on without.
ClearFails(p) ==
  /\ \/ pc[p] \in {"deleteVecs", "deleteRows"} /\ Fault
     \/ pc[p] = "deleteVecs" /\ NoTable
  /\ Cleared(p)
  /\ UNCHANGED <<dbVars, disk, openVars, mem>>

\* list_chunks failed: the build leaves the repo out, the update gives up.
ListFails(p) ==
  /\ pc[p] = "list"
  /\ Fault
  /\ \/ /\ mem[p].cmd = "build"
        /\ Goto(p, "nextJob")
        /\ UNCHANGED <<dbVars, disk, openVars, mem>>
     \/ /\ mem[p].cmd = "update"
        /\ Gone(p)

\* insert(..)? or upsert_embedding(..)?
StoreFails(p) ==
  /\ \/ pc[p] \in {"insert", "upsert"} /\ Fault
     \/ pc[p] = "upsert" /\ NoTable
  /\ Gone(p)

EditFile ==
  /\ spent.edits < MaxEdits
  /\ \E r \in Repo, f \in File, t \in Text \cup {None} : disk' = [disk EXCEPT ![r][f] = t]
  /\ spent' = [spent EXCEPT !.edits = @ + 1]
  /\ UNCHANGED <<dbVars, pc, openVars, mem>>

Run(p) ==
  \/ OpenStep(p) \/ Begin(p) \/ Rechunk(p) \/ BeginSummaries(p) \/ NextJob(p) \/ ListChunks(p)
  \/ ClearVecs(p) \/ ClearRows(p) \/ Ask(p) \/ JobAsked(p) \/ AllAsked(p) \/ Encoded(p)
  \/ InsertSummary(p) \/ UpsertSummary(p) \/ Stored(p) \/ Finish(p)

Next ==
  \/ \E p \in Proc, c \in Command : Start(p, c)
  \/ \E p \in Proc : Run(p) \/ Answer(p)
  \/ \E p \in Proc : NotEncoded(p) \/ Kill(p) \/ ClearFails(p) \/ ListFails(p) \/ StoreFails(p)
  \/ EditFile

Spec == Init /\ [][Next]_vars

\* The runtime polls the command's task, and DeepSeek requests time out.
FairSpec ==
  /\ Spec
  /\ \A p \in Proc : WF_vars(Run(p) \/ ClearFails(p) \/ StoreFails(p)) /\ WF_vars(Answer(p))

-----------------------------------------------------------------------------
(* Properties. *)

\* The types of the database, of every process and of its locals.
TypeOK ==
  /\ DbTypeOK
  /\ disk \in [Repo -> [File -> Text \cup {None}]]
  /\ pc \in [Proc -> Label]
  /\ mem \in [Proc -> Memory]
  /\ spent \in [commands : 0..MaxCommands, faults : 0..MaxFaults, edits : 0..MaxEdits]

summaries == rows["summary"]

\* "One summary per file".  Nothing in the schema says so: the build clears a
\* repo and the update a file before they store anything, and a clearing that
\* fails is only warned about, so it holds while no statement has failed.
OneSummaryPerFile ==
  spent.faults = 0 =>
    \A x, y \in summaries : x.repo = y.repo /\ x.file = y.file => x = y

\* Between commands, none of which has been killed or has failed, a summary is
\* about what the index holds of its file, also of a file that has been
\* deleted, edited under a running command, or left alone by an update; and a
\* summary that is stored can be found.
SummaryCurrent ==
  spent.faults = 0 /\ (\A p \in Proc : pc[p] = "idle") =>
    \A s \in summaries :
      /\ s.text \in {x.text : x \in RowsOf("chunk", s.repo, {s.file})}
      /\ s.id \in Ids(vecs["summary"])

\* However many commands run at once, the vector under a summary's id encodes
\* that summary, although row and vector are written by two statements.
VecMatchesSummary ==
  \A x \in summaries, v \in vecs["summary"] : v.id = x.id => v.text = x.text

\* Every command comes to an end, whatever the model answers.
CommandsEnd == \A p \in Proc : pc[p] # "idle" ~> pc[p] = "idle"

\* One process at a time, the summary lane is a vector index.
SummaryIndex == INSTANCE VectorIndex
  WITH rows <- rows["summary"], vecs <- vecs["summary"], next <- nextId["summary"]

IsSummaryIndex == SummaryIndex!Spec

=============================================================================
