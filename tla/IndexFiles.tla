----------------------------- MODULE IndexFiles -----------------------------
(***************************************************************************)
(* The persistent search index of a repository (search/index.rs,           *)
(* search/cache.rs): five files, each replaced by a rename, written by     *)
(* builds that hold a lock and read by opens that do not.  Processes open  *)
(* the index while a user edits files; an open that finds the index        *)
(* missing, unreadable or stale builds it.  A process may be killed or     *)
(* fail between any two steps.                                             *)
(*                                                                         *)
(* What a build derives from the chunks is represented by the chunks it    *)
(* was derived from: chunks, bm25 and embeddings are functions from files  *)
(* to texts.                                                               *)
(***************************************************************************)
EXTENDS Integers, FiniteSets, FiniteSetsExt

CONSTANTS
    Procs,      \* processes that use the index
    Files,      \* indexable files
    Texts,      \* what a file may contain
    SizeOf,     \* the size of each text
    ChunksIn,   \* the number of chunks of each text
    Missing,    \* no such file
    FirstText,  \* what every file contains at first
    MaxEdits, MaxOpens, MaxMishaps  \* bounds; a mishap is a kill or an error

Nobody  == "nobody"

(* What chunks, bm25 and embeddings hold, and what files holds.            *)
TextMaps   == UNION {[S -> Texts] : S \in SUBSET Files}
Records    == [time : 0..MaxEdits, size : {SizeOf[t] : t \in Texts}, hash : Texts]
RecordMaps == UNION {[S -> Records] : S \in SUBSET Files}

ASSUME ConstantsAssumption ==
    /\ FirstText \in Texts /\ Missing \notin Texts \cup TextMaps \cup RecordMaps \cup {"meta"}
    /\ Nobody \notin Procs
    /\ {MaxEdits, MaxOpens, MaxMishaps} \subseteq Nat

(* The files in the order a build writes them and in that of a load.       *)
WriteOrder == <<"meta", "chunks", "files", "bm25", "embeddings">>
ReadOrder  == <<"meta", "chunks", "files", "bm25", "embeddings">>
Parts      == {WriteOrder[i] : i \in DOMAIN WriteOrder}
Empty      == [part \in Parts |-> Missing]

VARIABLES
    tree,    \* per file on disk: its text and modification time
    index,   \* the five files
    torn,    \* history: a build has begun to write and not ended
    lock,    \* who holds the lock
    proc,    \* where each process is
    calm,    \* history: nothing has disturbed the open of each process
    spent

vars == <<tree, index, torn, lock, proc, calm, spent>>

Resting == [pc |-> "rest", step |-> 1, mem |-> Empty, todo |-> {}, got |-> "nothing"]

Init ==
    /\ tree = [f \in Files |-> [text |-> FirstText, time |-> 0]]
    /\ index = Empty /\ torn = FALSE /\ lock = Nobody
    /\ proc = [p \in Procs |-> Resting]
    /\ calm = [p \in Procs |-> FALSE]
    /\ spent = [edits |-> 0, opens |-> 0, mishaps |-> 0]

Spend(what, limit) == spent[what] < limit /\ spent' = [spent EXCEPT ![what] = @ + 1]

(* What one process does on disk disturbs every other.                     *)
Disturbs(p) == calm' = [q \in Procs |-> q = p /\ calm[q]]

Goto(p, pc) == proc' = [proc EXCEPT ![p].pc = pc, ![p].step = 1]

-----------------------------------------------------------------------------
(* The user: an edit or a touch is a new modification time; a file may be  *)
(* deleted and come back.                                                  *)
Present == {f \in Files : tree[f].text # Missing}

Edit(f, text) ==
    /\ Spend("edits", MaxEdits)
    /\ tree' = [tree EXCEPT ![f] = [text |-> text, time |-> spent.edits + 1]]
    /\ calm' = [q \in Procs |-> FALSE]
    /\ UNCHANGED <<index, torn, lock, proc>>

-----------------------------------------------------------------------------
(* Index::open, without the lock.                                          *)

(* A process that dropped its index may open it again.                     *)
Open(p) ==
    /\ proc[p].pc \in {"rest", "open"}
    /\ Spend("opens", MaxOpens)
    /\ proc' = [proc EXCEPT ![p] =
            [Resting EXCEPT !.pc = IF index["meta"] = Missing THEN "lock" ELSE "load"]]
    /\ calm' = [calm EXCEPT ![p] = TRUE]
    /\ UNCHANGED <<tree, index, torn, lock>>

(* load_unlocked: one file after the other; one that is missing is an error*)
(* and an error means a build.                                             *)
LoadPart(p) ==
    /\ proc[p].pc = "load" /\ proc[p].step \in DOMAIN ReadOrder
    /\ LET part == ReadOrder[proc[p].step]
       IN  IF index[part] = Missing THEN Goto(p, "lock")
           ELSE proc' = [proc EXCEPT ![p].mem[part] = index[part], ![p].step = @ + 1]
    /\ UNCHANGED <<tree, index, torn, lock, calm, spent>>

Count(chunks) == MapThenSumSet(LAMBDA f : ChunksIn[chunks[f]], DOMAIN chunks)

(* compute_delta: time and size, and the text only when they differ.       *)
Unchanged(record, file) ==
    \/ record.time = file.time /\ record.size = SizeOf[file.text]
    \/ record.hash = file.text

(* Mutant: files that are gone since the build are not looked for.         *)
Fresh_KeepsGone(records) ==
    \A f \in Present : f \in DOMAIN records /\ Unchanged(records[f], tree[f])

Fresh(records) ==
    /\ DOMAIN records = Present
    /\ \A f \in Present : Unchanged(records[f], tree[f])

(* The only check across files: as many vectors as chunks.                 *)
EndLoad(p) ==
    /\ proc[p].pc = "load" /\ proc[p].step \notin DOMAIN ReadOrder
    /\ IF /\ Count(proc[p].mem["embeddings"]) = Count(proc[p].mem["chunks"])
          /\ Fresh(proc[p].mem["files"])
       THEN proc' = [proc EXCEPT ![p].pc = "open", ![p].step = 1, ![p].got = "loaded"]
       ELSE Goto(p, "lock")
    /\ UNCHANGED <<tree, index, torn, lock, calm, spent>>

-----------------------------------------------------------------------------
(* Index::build, under the lock.                                           *)

(* Mutant: the lock is not waited for.                                     *)
Lock_Shared(p) ==
    /\ proc[p].pc = "lock"
    /\ lock' = p
    /\ proc' = [proc EXCEPT ![p].pc = "chunk", ![p].mem = Empty]
    /\ UNCHANGED <<tree, index, torn, calm, spent>>

(* It does not look again whether another process has just built.          *)
Lock(p) ==
    /\ proc[p].pc = "lock" /\ lock = Nobody
    /\ lock' = p
    /\ proc' = [proc EXCEPT ![p].pc = "chunk", ![p].mem = Empty]
    /\ UNCHANGED <<tree, index, torn, calm, spent>>

ChunkFiles(p) ==
    /\ proc[p].pc = "chunk"
    /\ proc' = [proc EXCEPT ![p].pc = "record", ![p].todo = Present,
            ![p].mem["chunks"] = [f \in Present |-> tree[f].text],
            ![p].mem["files"] = <<>>]
    /\ UNCHANGED <<tree, index, torn, lock, calm, spent>>

(* Time, size and hash of a file are taken after all files were chunked; a *)
(* file that is gone by then loses its chunks too.                         *)
Record(file) == [time |-> file.time, size |-> SizeOf[file.text], hash |-> file.text]

Only(fn, S)    == [x \in DOMAIN fn \cap S |-> fn[x]]
With(fn, x, v) == [y \in DOMAIN fn \cup {x} |-> IF y = x THEN v ELSE fn[y]]

RecordFile(p, f) ==
    /\ proc[p].pc = "record" /\ f \in proc[p].todo
    /\ proc' = [proc EXCEPT ![p].todo = @ \ {f},
            ![p].mem["chunks"] = IF f \in Present THEN @ ELSE Only(@, Files \ {f}),
            ![p].mem["files"]  = IF f \in Present THEN With(@, f, Record(tree[f])) ELSE @]
    /\ UNCHANGED <<tree, index, torn, lock, calm, spent>>

Derive(p) ==
    /\ proc[p].pc = "record" /\ proc[p].todo = {}
    /\ proc' = [proc EXCEPT ![p].pc = "write", ![p].step = 1,
            ![p].mem["meta"] = "meta",
            ![p].mem["bm25"] = proc[p].mem["chunks"],
            ![p].mem["embeddings"] = proc[p].mem["chunks"]]
    /\ UNCHANGED <<tree, index, torn, lock, calm, spent>>

(* write_atomic: a temporary file, which no reader opens, and a rename.    *)
WritePart(p) ==
    /\ proc[p].pc = "write" /\ proc[p].step \in DOMAIN WriteOrder
    /\ LET part == WriteOrder[proc[p].step]
       IN  index' = [index EXCEPT ![part] = proc[p].mem[part]]
    /\ proc' = [proc EXCEPT ![p].step = @ + 1]
    /\ torn' = TRUE
    /\ Disturbs(p)
    /\ UNCHANGED <<tree, lock, spent>>

(* The lock is dropped; the index in memory is the one just written.       *)
(* Mutant: the lock is kept as long as the index is in use.                *)
EndBuild_KeepsLock(p) ==
    /\ proc[p].pc = "write" /\ proc[p].step \notin DOMAIN WriteOrder
    /\ torn' = FALSE
    /\ proc' = [proc EXCEPT ![p].pc = "open", ![p].step = 1, ![p].got = "built"]
    /\ UNCHANGED <<tree, index, lock, calm, spent>>

EndBuild(p) ==
    /\ proc[p].pc = "write" /\ proc[p].step \notin DOMAIN WriteOrder
    /\ lock' = Nobody
    /\ torn' = FALSE
    /\ proc' = [proc EXCEPT ![p].pc = "open", ![p].step = 1, ![p].got = "built"]
    /\ UNCHANGED <<tree, index, calm, spent>>

(* A kill, or an error that leaves build: no model, a full disk.  The      *)
(* operating system frees the lock.                                        *)
(* Mutant: a lock file that outlives its owner.                            *)
Stops_LeavesLock(p) ==
    /\ proc[p].pc \notin {"rest", "open"}
    /\ Spend("mishaps", MaxMishaps)
    /\ proc' = [proc EXCEPT ![p] = Resting]
    /\ UNCHANGED <<tree, index, torn, lock, calm>>

Stops(p) ==
    /\ proc[p].pc \notin {"rest", "open"}
    /\ Spend("mishaps", MaxMishaps)
    /\ lock' = IF lock = p THEN Nobody ELSE lock
    /\ proc' = [proc EXCEPT ![p] = Resting]
    /\ UNCHANGED <<tree, index, torn, calm>>

(* An error of load_unlocked is no error of open: it builds.               *)
LoadFails(p) ==
    /\ proc[p].pc = "load"
    /\ Spend("mishaps", MaxMishaps)
    /\ Goto(p, "lock")
    /\ UNCHANGED <<tree, index, torn, lock, calm>>

Step(p) ==
    \/ LoadPart(p) \/ EndLoad(p) \/ Lock(p) \/ ChunkFiles(p)
    \/ (\E f \in Files : RecordFile(p, f)) \/ Derive(p) \/ WritePart(p) \/ EndBuild(p)

Next ==
    \/ \E p \in Procs : Open(p) \/ Step(p) \/ Stops(p) \/ LoadFails(p)
    \/ \E f \in Files, text \in Texts \cup {Missing} : Edit(f, text)

(* The system schedules every process and hands the lock on: a process     *)
(* that opened the index goes on until it has it.                          *)
Fairness == \A p \in Procs : WF_vars(Step(p))

Spec == Init /\ [][Next]_vars /\ Fairness

-----------------------------------------------------------------------------
TypeOK ==
    /\ tree \in [Files -> [text : Texts \cup {Missing}, time : 0..MaxEdits]]
    /\ \A part \in {"chunks", "bm25", "embeddings"} : index[part] \in TextMaps \cup {Missing}
    /\ lock \in Procs \cup {Nobody} /\ torn \in BOOLEAN
    /\ calm \in [Procs -> BOOLEAN]
    /\ \A p \in Procs :
        /\ proc[p].pc \in {"rest", "load", "lock", "chunk", "record", "write", "open"}
        /\ proc[p].pc \in {"chunk", "record", "write"} <=> lock = p

(* An index is whole when its parts are of one build.                      *)
Whole(parts) ==
    /\ parts["bm25"] = parts["chunks"] /\ parts["embeddings"] = parts["chunks"]
    /\ DOMAIN parts["files"] = DOMAIN parts["chunks"]

(***************************************************************************)
(* Unless a build is at work or was stopped among its five writes, the     *)
(* files are there together and of one build, whoever built before or at   *)
(* the same time (Index::build under acquire_lock).                        *)
(***************************************************************************)
OneGeneration ==
    lock = Nobody /\ ~torn =>
        index = Empty \/ ((\A part \in Parts : index[part] # Missing) /\ Whole(index))

(***************************************************************************)
(* An open that nobody disturbed returns the index of the tree as it is:   *)
(* always when it built, and when it loaded provided that the files it     *)
(* loaded are whole and were not edited between being chunked and being    *)
(* recorded (Index::open, compute_delta).                                  *)
(***************************************************************************)
RecordedAsChunked == \A f \in DOMAIN index["files"] : index["files"][f].hash = index["chunks"][f]

ExactWhenCalm ==
    \A p \in Procs :
        /\ proc[p].pc = "open" /\ calm[p]
        /\ proc[p].got = "loaded" => Whole(index) /\ RecordedAsChunked
        => /\ Whole(proc[p].mem)
           /\ proc[p].mem["chunks"] = [f \in Present |-> tree[f].text]

(***************************************************************************)
(* A process that opens the index ends up with one, or stops: waiting for  *)
(* the lock and rebuilding both end (Index::open).                         *)
(***************************************************************************)
OpensEnd == \A p \in Procs : proc[p].pc = "load" ~> proc[p].pc \in {"open", "rest"}
=============================================================================
