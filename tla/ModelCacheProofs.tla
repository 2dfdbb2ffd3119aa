-------------------------- MODULE ModelCacheProofs --------------------------
(***************************************************************************)
(* Why a download that has the cache to itself never leaves a broken file  *)
(* in it, whatever is killed: the temporary file is never the inode of a   *)
(* cached file, the only process that runs is the one that writes it, and  *)
(* it is renamed when both of its parts come from one source.  And why a   *)
(* call that ends Ok undisturbed leaves every file there, of the version   *)
(* of one manifest.                                                        *)
(***************************************************************************)
EXTENDS ModelCache, TLAPS

Pcs == {"rest", "verify", "create", "stream", "truncate", "manifest"}

Fields == {"pc", "file", "part", "fd", "source", "seen", "outcome", "sums"}

(* What a process holds, but for the hashes it saw and collected.          *)
Held(r) ==
    /\ r = [x \in Fields |-> r[x]]
    /\ r.pc \in Pcs /\ r.file \in Nat \ {0} /\ r.part \in 1..3
    /\ r.pc = "stream" => r.fd \in Inodes
    /\ r.pc \in {"create", "stream"} => r.file \in DOMAIN ModelFiles /\ r.source \in Versions

CacheInv ==
    /\ dest \in [FileNames -> Inodes \cup {NoInode}]
    /\ temp \in [FileNames -> Inodes \cup {NoInode}]
    /\ content \in [Inodes -> [1..2 -> Versions \cup {Hole}]]
    /\ overlap \in BOOLEAN

ProcsInv == DOMAIN proc = Procs /\ proc = [p \in Procs |-> proc[p]] /\ \A p \in Procs : Held(proc[p])

WholeFile(f) ==
    dest[f] # NoInode => content[dest[f]][1] = content[dest[f]][2] /\ Opens(dest[f])

(* No temporary file is a cached one or that of another file.              *)
Apart ==
    /\ \A f, g \in FileNames : dest[f] # NoInode => dest[f] # temp[g]
    /\ \A f, g \in FileNames : f # g /\ temp[f] # NoInode => temp[f] # temp[g]

(* What p has streamed so far is in the file at the temporary path.        *)
Streamed(p) ==
    proc[p].pc = "stream" =>
        /\ temp[FileOf(p)] = proc[p].fd
        /\ \A k \in 1..2 : k < proc[p].part => content[proc[p].fd][k] = proc[p].source

Alone ==
    /\ \A p, q \in Procs : Busy(p) /\ Busy(q) => p = q
    /\ Apart
    /\ \A f \in FileNames : WholeFile(f)
    /\ \A p \in Procs : Streamed(p)

DownloadInv == CacheInv /\ ProcsInv /\ (~overlap => Alone)

-----------------------------------------------------------------------------

LEMMA NoInodeApart == NoInode \notin Inodes
BY DEF NoInode, Inodes

LEMMA Lengths == DOMAIN ModelFiles = 1..Len(ModelFiles) /\ Len(ModelFiles) \in Nat
BY ConstantsAssumption

LEMMA NotHole == Hole \notin Versions
BY ConstantsAssumption DEF Hole

LEMMA RestingHeld == Held(Resting) /\ Resting.pc = "rest"
BY DEF Held, Resting, Pcs, Fields

LEMMA RestingFields ==
    Resting = [x \in Fields |-> Resting[x]] /\ Resting.file = 1 /\ Resting.part = 1
BY DEF Resting, Fields

LEMMA InitInv == Init => DownloadInv
<1> SUFFICES ASSUME Init PROVE DownloadInv
  OBVIOUS
<1>1. CacheInv
  <2>1. Blank \in [1..2 -> Versions \cup {Hole}]
    BY DEF Blank
  <2> QED BY <2>1 DEF Init, CacheInv
<1>2. ProcsInv
  BY RestingHeld DEF Init, ProcsInv
<1>3. Alone
  BY RestingHeld DEF Init, Alone, Apart, WholeFile, Streamed, Busy
<1> QED BY <1>1, <1>2, <1>3 DEF DownloadInv

LEMMA ProcStep ==
    ASSUME DownloadInv, NEW p \in Procs, NEW r, Held(r), Set(p, r)
    PROVE  ProcsInv' /\ \A q \in Procs : proc'[q] = IF q = p THEN r ELSE proc[q]
<1>1. \A q \in Procs : proc'[q] = IF q = p THEN r ELSE proc[q]
  BY DEF DownloadInv, ProcsInv, Set
<1>2. DOMAIN proc' = Procs /\ proc' = [q \in Procs |-> proc'[q]]
  BY DEF DownloadInv, ProcsInv, Set
<1>3. \A q \in Procs : Held(proc'[q])
  BY <1>1 DEF DownloadInv, ProcsInv
<1>4. \A q \in Procs : Held(proc[q])'
  BY <1>3 DEF Held
<1> QED BY <1>1, <1>2, <1>4 DEF ProcsInv

(* A step that changes what p holds and not the cache.                     *)
LEMMA HolderStep ==
    ASSUME DownloadInv, NEW p \in Procs, NEW r, Held(r), r.pc # "stream", Set(p, r),
           UNCHANGED <<dest, temp, content>>, overlap' \in BOOLEAN,
           ~overlap' => ~overlap /\ (r.pc = "rest" \/ Busy(p) \/ \A q \in Procs \ {p} : ~Busy(q))
    PROVE  DownloadInv'
<1>1. ProcsInv' /\ \A q \in Procs : proc'[q] = IF q = p THEN r ELSE proc[q]
  BY ProcStep
<1>2. CacheInv'
  BY DEF DownloadInv, CacheInv
<1>5. ASSUME ~overlap' PROVE Alone'
  <2>1. Alone
    BY <1>5 DEF DownloadInv
  <2>2. \A a, b \in Procs : Busy(a)' /\ Busy(b)' => a = b
    BY <1>1, <1>5, <2>1 DEF Alone, Busy
  <2>3. Apart'
    BY <1>1, <2>1 DEF Alone, Apart
  <2>4. \A f \in FileNames : WholeFile(f)'
    BY <1>1, <2>1 DEF Alone, WholeFile, Opens
  <2>5. \A q \in Procs : Streamed(q)'
    BY <1>1, <2>1 DEF Alone, Streamed, FileOf
  <2> QED BY <2>2, <2>3, <2>4, <2>5 DEF Alone
<1> QED BY <1>1, <1>2, <1>5 DEF DownloadInv

LEMMA EnsureStep ==
    ASSUME DownloadInv, NEW p \in Procs, Ensure(p)
    PROVE  DownloadInv'
<1> DEFINE r == [Resting EXCEPT !.pc = "verify", !.seen = manifest]
<1>1. Held(r) /\ r.pc = "verify"
  <2>1. r = [x \in Fields |-> r[x]]
    BY RestingFields DEF Fields
  <2>2. r.pc = "verify" /\ r.file = 1 /\ r.part = 1
    BY RestingFields DEF Fields
  <2> HIDE DEF r
  <2> QED BY <2>1, <2>2 DEF Held, Pcs
<1>2. Set(p, r) /\ overlap' = (overlap \/ \E q \in Procs \ {p} : Busy(q)) /\ UNCHANGED cache
  BY DEF Ensure
<1> HIDE DEF r
<1> QED BY <1>1, <1>2, HolderStep DEF cache, DownloadInv, CacheInv

(* Coming to rest.                                                         *)
LEMMA RestStep ==
    ASSUME DownloadInv, NEW p \in Procs, NEW o, Set(p, [Resting EXCEPT !.outcome = o]),
           UNCHANGED <<dest, temp, content, overlap>>
    PROVE  DownloadInv'
<1> DEFINE r == [Resting EXCEPT !.outcome = o]
<1>1. Held(r) /\ r.pc = "rest"
  BY DEF Held, Resting, Pcs, Fields
<1> HIDE DEF r
<1> QED BY <1>1, HolderStep DEF r, DownloadInv, CacheInv

LEMMA VerifyStep ==
    ASSUME DownloadInv, NEW p \in Procs, VerifyFile(p)
    PROVE  DownloadInv'
<1>1. Held(proc[p]) /\ Busy(p) /\ UNCHANGED <<dest, temp, content, overlap>> /\ overlap \in BOOLEAN
  BY DEF DownloadInv, CacheInv, ProcsInv, VerifyFile, Busy, cache, Same
<1>2. CASE Valid(p, FileOf(p))
  <2> DEFINE r == [proc[p] EXCEPT !.file = @ + 1]
  <2>1. Set(p, r)
    BY <1>2 DEF VerifyFile
  <2>2. Held(r) /\ r.pc = "verify"
    BY <1>1 DEF Held, VerifyFile, Pcs, Fields
  <2> HIDE DEF r
  <2> QED BY <1>1, <2>1, <2>2, HolderStep
<1>3. CASE ~Valid(p, FileOf(p))
  <2>1. PICK v \in Versions : Set(p, [Resting EXCEPT !.pc = "create", !.source = v])
    BY <1>3 DEF VerifyFile, Downloads
  <2> DEFINE r == [Resting EXCEPT !.pc = "create", !.source = v]
  <2>2. 1 \in DOMAIN ModelFiles
    BY Lengths DEF VerifyFile, Held, DownloadInv, ProcsInv
  <2>3. Held(r) /\ r.pc = "create"
    <3>1. r = [x \in Fields |-> r[x]]
      BY RestingFields DEF Fields
    <3>2. r.pc = "create" /\ r.file = 1 /\ r.part = 1 /\ r.source = v
      BY RestingFields DEF Fields
    <3> HIDE DEF r
    <3> QED BY <2>2, <3>1, <3>2 DEF Held, Pcs
  <2> HIDE DEF r
  <2> QED BY <1>1, <2>1, <2>3, HolderStep DEF r
<1> QED BY <1>2, <1>3

LEMMA TruncateStep ==
    ASSUME DownloadInv, NEW p \in Procs, TruncateManifest(p)
    PROVE  DownloadInv'
<1> DEFINE r == [proc[p] EXCEPT !.pc = "manifest"]
<1>1. Held(proc[p]) /\ Busy(p) /\ UNCHANGED <<dest, temp, content, overlap>> /\ overlap \in BOOLEAN
  BY DEF DownloadInv, CacheInv, ProcsInv, TruncateManifest, Busy
<1>2. Held(r) /\ r.pc = "manifest" /\ Set(p, r)
  BY <1>1 DEF Held, TruncateManifest, Pcs, Fields
<1> HIDE DEF r
<1> QED BY <1>1, <1>2, HolderStep

LEMMA CreateStep ==
    ASSUME DownloadInv, NEW p \in Procs, CreateTemp(p)
    PROVE  DownloadInv'
<1> DEFINE f == FileOf(p)
<1>1. PICK i \in Inodes :
        /\ IF temp[f] # NoInode THEN i = temp[f] ELSE NewInode(i)
        /\ temp' = [temp EXCEPT ![f] = i] /\ content' = [content EXCEPT ![i] = Blank]
        /\ Set(p, [proc[p] EXCEPT !.pc = "stream", !.part = 1, !.fd = i])
  BY DEF CreateTemp
<1>2. dest' = dest /\ overlap' = overlap /\ proc[p].pc = "create" /\ Held(proc[p])
  BY DEF CreateTemp, DownloadInv, ProcsInv
<1>3. f \in FileNames
  BY <1>2 DEF Held, FileOf, FileNames
<1> DEFINE r == [proc[p] EXCEPT !.pc = "stream", !.part = 1, !.fd = i]
<1>4. r = [x \in Fields |-> r[x]] /\ r.pc = "stream" /\ r.part = 1 /\ r.fd = i
      /\ r.file = proc[p].file /\ r.source = proc[p].source
  BY <1>2 DEF Held, Fields
<1> HIDE DEF r
<1>5. Held(r)
  BY <1>2, <1>4 DEF Held, Pcs
<1>6. ProcsInv' /\ \A q \in Procs : proc'[q] = IF q = p THEN r ELSE proc[q]
  BY <1>1, <1>5, ProcStep DEF r
<1>7. Blank \in [1..2 -> Versions \cup {Hole}]
  BY DEF Blank
<1>8. CacheInv'
  BY <1>1, <1>2, <1>3, <1>7 DEF DownloadInv, CacheInv
<1>9. ASSUME ~overlap' PROVE Alone'
  <2>1. Alone /\ CacheInv
    BY <1>2, <1>9 DEF DownloadInv
  <2>2. i # NoInode /\ \A g \in FileNames : dest[g] # i /\ (g # f => temp[g] # i)
    BY <1>1, <1>3, <2>1, NoInodeApart DEF Alone, Apart, NewInode, Used
  <2>3. \A g \in FileNames : temp'[g] = IF g = f THEN i ELSE temp[g]
    BY <1>1, <1>3, <2>1 DEF CacheInv
  <2>4. Apart'
    BY <1>2, <2>1, <2>2, <2>3 DEF Alone, Apart
  <2>5. \A g \in FileNames : dest[g] # NoInode => content'[dest[g]] = content[dest[g]]
    BY <1>1, <2>1, <2>2 DEF CacheInv
  <2>6. \A g \in FileNames : WholeFile(g)'
    BY <1>2, <2>1, <2>5 DEF Alone, WholeFile, Opens
  <2>7. \A q \in Procs : Streamed(q)'
    <3>1. Streamed(p)'
      BY <1>3, <1>4, <1>6, <2>3 DEF Streamed, FileOf
    <3>2. \A q \in Procs : q # p => proc'[q].pc = "rest"
      BY <1>2, <1>6, <2>1 DEF Alone, Busy
    <3> QED BY <3>1, <3>2 DEF Streamed
  <2>8. \A a, b \in Procs : Busy(a)' /\ Busy(b)' => a = b
    BY <1>2, <1>6, <2>1 DEF Alone, Busy
  <2> QED BY <2>4, <2>6, <2>7, <2>8 DEF Alone
<1> QED BY <1>6, <1>8, <1>9 DEF DownloadInv

LEMMA WriteStep ==
    ASSUME DownloadInv, NEW p \in Procs, WriteChunk(p)
    PROVE  DownloadInv'
<1> DEFINE f == FileOf(p)
           i == proc[p].fd
           k == proc[p].part
           v == proc[p].source
           r == [proc[p] EXCEPT !.part = @ + 1]
<1>1. dest' = dest /\ temp' = temp /\ overlap' = overlap /\ proc[p].pc = "stream"
      /\ Held(proc[p]) /\ Set(p, r) /\ content' = [content EXCEPT ![i][k] = v] /\ CacheInv
  BY DEF WriteChunk, DownloadInv, ProcsInv
<1>2. f \in FileNames /\ i \in Inodes /\ k \in 1..2 /\ v \in Versions
  BY <1>1 DEF Held, FileOf, FileNames, WriteChunk
<1>3. r = [x \in Fields |-> r[x]] /\ r.pc = "stream" /\ r.part = k + 1 /\ r.fd = i
      /\ r.file = proc[p].file /\ r.source = v
  BY <1>1 DEF Held, Fields
<1>4. /\ content' \in [Inodes -> [1..2 -> Versions \cup {Hole}]]
      /\ \A j \in Inodes : j # i => content'[j] = content[j]
      /\ \A n \in 1..2 : content'[i][n] = IF n = k THEN v ELSE content[i][n]
  BY <1>1, <1>2 DEF CacheInv
<1> HIDE DEF r
<1>5. Held(r)
  BY <1>1, <1>2, <1>3 DEF Held
<1>6. ProcsInv' /\ \A q \in Procs : proc'[q] = IF q = p THEN r ELSE proc[q]
  BY <1>1, <1>5, ProcStep
<1>7. CacheInv'
  BY <1>1, <1>4 DEF CacheInv
<1>8. ASSUME ~overlap' PROVE Alone'
  <2>1. Alone /\ Streamed(p)
    BY <1>1, <1>8 DEF DownloadInv, Alone
  <2>2. \A g \in FileNames : dest[g] # NoInode => content'[dest[g]] = content[dest[g]]
    BY <1>1, <1>2, <1>4, <2>1 DEF Streamed, Alone, Apart, CacheInv
  <2>3. \A g \in FileNames : WholeFile(g)'
    BY <1>1, <2>1, <2>2 DEF Alone, WholeFile, Opens
  <2>4. Streamed(p)'
    BY <1>1, <1>2, <1>3, <1>4, <1>6, <2>1 DEF Streamed, FileOf
  <2>5. \A q \in Procs : q # p => proc'[q].pc = "rest"
    BY <1>1, <1>6, <2>1 DEF Alone, Busy
  <2>6. \A q \in Procs : Streamed(q)'
    BY <2>4, <2>5 DEF Streamed
  <2>7. Apart' /\ \A a, b \in Procs : Busy(a)' /\ Busy(b)' => a = b
    BY <1>1, <1>6, <2>1 DEF Alone, Apart, Busy
  <2> QED BY <2>3, <2>6, <2>7 DEF Alone
<1> QED BY <1>6, <1>7, <1>8 DEF DownloadInv

LEMMA RenameStep ==
    ASSUME DownloadInv, NEW p \in Procs, Rename(p)
    PROVE  DownloadInv'
<1> DEFINE f == FileOf(p)
           r == NextFile(p)
<1>1. proc[p].pc = "stream" /\ proc[p].part > 2 /\ temp[f] # NoInode /\ Held(proc[p]) /\ CacheInv
      /\ dest' = [dest EXCEPT ![f] = temp[f]] /\ temp' = [temp EXCEPT ![f] = NoInode]
      /\ content' = content /\ overlap' = overlap /\ Set(p, r)
  BY DEF Rename, DownloadInv, ProcsInv
<1>2. f \in FileNames /\ temp[f] \in Inodes
  BY <1>1 DEF Held, FileOf, FileNames, CacheInv
<1>3. r = [x \in Fields |-> r[x]] /\ r.file = proc[p].file + 1 /\ r.part = proc[p].part
      /\ r.source = proc[p].source
      /\ r.pc = IF proc[p].file = Len(ModelFiles) THEN "truncate" ELSE "create"
  BY <1>1 DEF Held, Fields, NextFile
<1> HIDE DEF r
<1>4. Held(r)
  BY <1>1, <1>3, Lengths DEF Held, Pcs
<1>5. ProcsInv' /\ \A q \in Procs : proc'[q] = IF q = p THEN r ELSE proc[q]
  BY <1>1, <1>4, ProcStep
<1>6. CacheInv'
  BY <1>1, <1>2 DEF CacheInv
<1>7. ASSUME ~overlap' PROVE Alone'
  <2>1. Alone /\ Streamed(p)
    BY <1>1, <1>7 DEF DownloadInv, Alone
  <2>2. \A g \in FileNames : /\ dest'[g] = IF g = f THEN temp[f] ELSE dest[g]
                             /\ temp'[g] = IF g = f THEN NoInode ELSE temp[g]
    BY <1>1, <1>2 DEF CacheInv
  <2>3. Apart'
    BY <1>1, <1>2, <2>1, <2>2 DEF Alone, Apart
  <2>4. content[temp[f]][1] = proc[p].source /\ content[temp[f]][2] = proc[p].source
        /\ proc[p].source # Hole
    BY <1>1, <2>1, NotHole DEF Streamed, Held
  <2>5. \A g \in FileNames : WholeFile(g)'
    BY <1>1, <2>1, <2>2, <2>4 DEF Alone, WholeFile, Opens
  <2>6. \A q \in Procs : proc'[q].pc # "stream"
    BY <1>1, <1>3, <1>5, <2>1 DEF Alone, Busy
  <2>7. \A a, b \in Procs : Busy(a)' /\ Busy(b)' => a = b
    BY <1>1, <1>5, <2>1 DEF Alone, Busy
  <2> QED BY <2>3, <2>5, <2>6, <2>7 DEF Alone, Streamed
<1> QED BY <1>5, <1>6, <1>7 DEF DownloadInv

LEMMA NextInv == DownloadInv /\ [Next]_vars => DownloadInv'
<1> SUFFICES ASSUME DownloadInv, [Next]_vars PROVE DownloadInv'
  OBVIOUS
<1>1. ASSUME NEW p \in Procs,
             \/ \E mayDownload \in BOOLEAN : BuildEmbeds(p, mayDownload)
             \/ UpdateEmbeds(p) \/ Query(p)
      PROVE  DownloadInv'
  <2>1. CASE Ensure(p)
    BY <2>1, EnsureStep
  <2>2. CASE Skip(p)
    BY <2>2, RestStep DEF Skip, cache
  <2>3. CASE Query(p)
    BY <2>3, RestStep DEF Query, cache
  <2> QED BY <1>1, <2>1, <2>2, <2>3 DEF BuildEmbeds, UpdateEmbeds
<1>2. ASSUME NEW p \in Procs, Step(p) \/ Stops(p) PROVE DownloadInv'
  <2>1. CASE VerifyFile(p)
    BY <2>1, VerifyStep
  <2>2. CASE Verified(p) \/ RenameFails(p) \/ Stops(p)
    BY <2>2, RestStep DEF Verified, RenameFails, Stops, cache, Same
  <2>3. CASE CreateTemp(p)
    BY <2>3, CreateStep
  <2>4. CASE WriteChunk(p)
    BY <2>4, WriteStep
  <2>5. CASE Rename(p)
    BY <2>5, RenameStep
  <2>6. CASE TruncateManifest(p)
    BY <2>6, TruncateStep
  <2>7. CASE WriteManifest(p)
    BY <2>7, RestStep DEF WriteManifest
  <2> QED BY <1>2, <2>1, <2>2, <2>3, <2>4, <2>5, <2>6, <2>7 DEF Step
<1>3. CASE UNCHANGED vars
  BY <1>3 DEF vars, DownloadInv, CacheInv, ProcsInv, Alone, Apart, WholeFile, Streamed, Busy, FileOf, Opens
<1> QED BY <1>1, <1>2, <1>3 DEF Next

(***************************************************************************)
(* For any number of processes, files and versions of the model: as long   *)
(* as no two calls of ensure_model overlap, every file in the cache is     *)
(* complete and of one version, wherever processes were killed.            *)
(***************************************************************************)
THEOREM DownloadsLeaveFilesWhole == Spec => []FilesWholeAlone
<1>1. DownloadInv => FilesWholeAlone
  BY DEF DownloadInv, Alone, WholeFile, FilesWholeAlone
<1> QED BY InitInv, NextInv, <1>1, PTL DEF Spec

-----------------------------------------------------------------------------
(***************************************************************************)
(* Why a call of ensure_model that nobody disturbs returns a whole cache.  *)
(* What earlier overlaps left in the cache does not matter, because a      *)
(* temporary file is never the inode of a cached one even then, so that    *)
(* what a call has verified or renamed stays as it is while it works on    *)
(* the next file; and a manifest, whoever wrote it, is of one download.    *)
(***************************************************************************)

Downloading == {"create", "stream", "truncate", "manifest"}

OneVersion(m) == m \in {NoManifest, Torn} \/ \E v \in Versions : m = [f \in FileNames |-> <<v, v>>]

(* What a call has gathered, whatever the others do.                       *)
Gathered(r) ==
    /\ r.pc # "rest" => r.outcome # "ready"
    /\ r.pc \in Downloading =>
        /\ r.source \in Versions
        /\ r.sums \in Seq({<<r.source, r.source>>}) /\ Len(r.sums) = r.file - 1
    /\ r.pc \in {"truncate", "manifest"} => r.file = Len(ModelFiles) + 1

(* The i-th file is in the cache d, of inodes c, and holds x.              *)
InCache(d, c, i, x) == d[ModelFiles[i]] # NoInode /\ c[d[ModelFiles[i]]] = x

Undisturbed(r, d, t, c, m) ==
    /\ r.pc = "verify" =>
        /\ r.seen = m
        /\ \A i \in DOMAIN ModelFiles : i < r.file =>
               m \notin {NoManifest, Torn} /\ InCache(d, c, i, m[ModelFiles[i]])
    /\ r.pc \in Downloading =>
        \A i \in DOMAIN ModelFiles : i < r.file => InCache(d, c, i, <<r.source, r.source>>)
    /\ r.pc = "stream" =>
        /\ t[ModelFiles[r.file]] = r.fd
        /\ \A k \in 1..2 : k < r.part => c[r.fd][k] = r.source

EnsuredInv ==
    /\ Apart
    /\ calm \in [Procs -> BOOLEAN]
    /\ OneVersion(manifest)
    /\ \A p \in Procs : Gathered(proc[p])
    /\ \A p \in Procs : calm[p] => Undisturbed(proc[p], dest, temp, content, manifest)

(* The property of the steps.                                              *)
Ensured == \A p \in Procs : Returns(p) /\ calm'[p] => Whole'

LEMMA EnsuredInit == Init => EnsuredInv
<1> SUFFICES ASSUME Init PROVE EnsuredInv
  OBVIOUS
<1>1. \A p \in Procs : proc[p].pc = "rest"
  BY RestingHeld DEF Init
<1> QED BY <1>1 DEF Init, EnsuredInv, Apart, OneVersion, Gathered, Downloading

(* A step of p, after which it holds r.                                    *)
LEMMA EnsuredStep ==
    ASSUME DownloadInv, EnsuredInv, NEW p \in Procs, NEW r, Set(p, r),
           Gathered(r), Apart', OneVersion(manifest'),
           calm' \in [Procs -> BOOLEAN],
           \A q \in Procs \ {p} : calm'[q] => calm[q] /\ UNCHANGED cache,
           calm'[p] => Undisturbed(r, dest', temp', content', manifest'),
           Busy(p) /\ r.outcome = "ready" /\ calm'[p] => Whole'
    PROVE  EnsuredInv' /\ Ensured
<1>1. \A q \in Procs : proc'[q] = IF q = p THEN r ELSE proc[q]
  BY DEF DownloadInv, ProcsInv, Set
<1>2. \A q \in Procs : Gathered(proc'[q])
  BY <1>1 DEF EnsuredInv
<1>3. ASSUME NEW q \in Procs, calm'[q]
      PROVE  Undisturbed(proc'[q], dest', temp', content', manifest')
  <2>1. CASE q = p
    BY <1>1, <1>3, <2>1
  <2>2. CASE q # p
    <3>1. calm[q] /\ dest' = dest /\ temp' = temp /\ content' = content /\ manifest' = manifest
      BY <1>3, <2>2 DEF cache
    <3> QED BY <1>1, <2>2, <3>1 DEF EnsuredInv
  <2> QED BY <2>1, <2>2
<1>4. \A q \in Procs : Gathered(proc[q])'
  BY <1>2 DEF Gathered
<1>5. \A q \in Procs : calm'[q] => Undisturbed(proc[q], dest, temp, content, manifest)'
  BY <1>3
<1>6. EnsuredInv'
  BY <1>4, <1>5 DEF EnsuredInv, OneVersion
<1>7. Ensured
  BY <1>1 DEF EnsuredInv, Gathered, Ensured, Returns, Busy
<1> QED BY <1>6, <1>7

(* A step that leaves the cache alone.                                     *)
LEMMA ThoughtStep ==
    ASSUME DownloadInv, EnsuredInv, NEW p \in Procs, NEW r, Set(p, r), Gathered(r),
           UNCHANGED cache, calm' \in [Procs -> BOOLEAN],
           \A q \in Procs \ {p} : calm'[q] => calm[q],
           calm'[p] => Undisturbed(r, dest, temp, content, manifest),
           Busy(p) /\ r.outcome = "ready" /\ calm'[p] => Whole'
    PROVE  EnsuredInv' /\ Ensured
<1>1. dest' = dest /\ temp' = temp /\ content' = content /\ manifest' = manifest
  BY DEF cache
<1>2. Apart' /\ OneVersion(manifest')
  BY <1>1 DEF EnsuredInv, Apart, OneVersion
<1> QED BY <1>1, <1>2, EnsuredStep

LEMMA RestEnsured ==
    ASSUME DownloadInv, EnsuredInv, NEW p \in Procs, NEW o, Set(p, [Resting EXCEPT !.outcome = o]),
           UNCHANGED cache, calm' = calm, Busy(p) => o # "ready"
    PROVE  EnsuredInv' /\ Ensured
<1> DEFINE r == [Resting EXCEPT !.outcome = o]
<1>1. r.pc = "rest" /\ r.outcome = o
  BY DEF Resting
<1> HIDE DEF r
<1>2. Gathered(r) /\ Undisturbed(r, dest, temp, content, manifest)
  BY <1>1 DEF Gathered, Undisturbed, Downloading
<1> QED BY <1>1, <1>2, ThoughtStep DEF r, EnsuredInv

LEMMA EnsureEnsured ==
    ASSUME DownloadInv, EnsuredInv, NEW p \in Procs, Ensure(p), ~Busy(p)
    PROVE  EnsuredInv' /\ Ensured
<1> DEFINE r == [Resting EXCEPT !.pc = "verify", !.seen = manifest]
<1>1. r.pc = "verify" /\ r.seen = manifest /\ r.file = 1 /\ r.outcome = "none"
  BY DEF Resting
<1>2. Set(p, r) /\ UNCHANGED cache /\ calm' = [calm EXCEPT ![p] = TRUE]
  BY DEF Ensure
<1> HIDE DEF r
<1>3. Gathered(r) /\ Undisturbed(r, dest, temp, content, manifest)
  BY <1>1, Lengths DEF Gathered, Undisturbed, Downloading
<1> QED BY <1>1, <1>2, <1>3, ThoughtStep DEF EnsuredInv

(* Of a process at work.                                                   *)
LEMMA AtWork ==
    ASSUME DownloadInv, EnsuredInv, NEW p \in Procs
    PROVE  /\ Held(proc[p]) /\ Gathered(proc[p]) /\ CacheInv
           /\ calm[p] => Undisturbed(proc[p], dest, temp, content, manifest)
           /\ calm \in [Procs -> BOOLEAN] /\ Apart /\ OneVersion(manifest)
           /\ \A q \in Procs \ {p} : Disturb(p) => ~calm'[q]
           /\ Disturb(p) => calm' \in [Procs -> BOOLEAN] /\ (calm'[p] => calm[p])
<1>1. Held(proc[p]) /\ CacheInv
  BY DEF DownloadInv, ProcsInv
<1>2. /\ Gathered(proc[p]) /\ (calm[p] => Undisturbed(proc[p], dest, temp, content, manifest))
      /\ calm \in [Procs -> BOOLEAN] /\ Apart /\ OneVersion(manifest)
  BY DEF EnsuredInv
<1>3. ASSUME Disturb(p)
      PROVE  /\ \A q \in Procs \ {p} : ~calm'[q]
             /\ calm' \in [Procs -> BOOLEAN] /\ (calm'[p] => calm[p])
  BY <1>2, <1>3 DEF Disturb
<1> QED BY <1>1, <1>2, <1>3

LEMMA VerifyEnsured ==
    ASSUME DownloadInv, EnsuredInv, NEW p \in Procs, VerifyFile(p)
    PROVE  EnsuredInv' /\ Ensured
<1>1. /\ proc[p].pc = "verify" /\ UNCHANGED cache /\ calm' = calm
      /\ proc[p].file \in DOMAIN ModelFiles
  BY DEF VerifyFile, Same
<1>2. CASE Valid(p, FileOf(p))
  <2> DEFINE r == [proc[p] EXCEPT !.file = @ + 1]
  <2>1. Set(p, r)
    BY <1>2 DEF VerifyFile
  <2>2. /\ r.pc = "verify" /\ r.file = proc[p].file + 1 /\ r.seen = proc[p].seen
        /\ r.outcome = proc[p].outcome
    BY <1>1, AtWork DEF Held, Fields
  <2> HIDE DEF r
  <2>3. Gathered(r) /\ r.outcome # "ready"
    BY <1>1, <2>2, AtWork DEF Gathered, Downloading
  <2>4. ASSUME calm[p] PROVE Undisturbed(r, dest, temp, content, manifest)
    <3>1. Undisturbed(proc[p], dest, temp, content, manifest)
      BY <2>4, AtWork
    <3>2. /\ manifest \notin {NoManifest, Torn}
          /\ InCache(dest, content, proc[p].file, manifest[FileOf(p)])
      BY <1>1, <1>2, <3>1 DEF Valid, Undisturbed, InCache, Hash, FileOf
    <3>3. ASSUME NEW i \in DOMAIN ModelFiles, i < proc[p].file + 1
          PROVE  InCache(dest, content, i, manifest[ModelFiles[i]])
      <4>1. CASE i = proc[p].file
        BY <3>2, <4>1 DEF FileOf
      <4>2. CASE i # proc[p].file
        <5>1. i < proc[p].file
          BY <1>1, <3>3, <4>2, Lengths
        <5> QED BY <1>1, <3>1, <5>1 DEF Undisturbed
      <4> QED BY <4>1, <4>2
    <3> QED BY <1>1, <2>2, <3>1, <3>2, <3>3 DEF Undisturbed, Downloading
  <2> QED BY <1>1, <2>1, <2>3, <2>4, AtWork, ThoughtStep
<1>3. CASE ~Valid(p, FileOf(p))
  <2>1. PICK v \in Versions : Set(p, [Resting EXCEPT !.pc = "create", !.source = v])
    BY <1>3 DEF VerifyFile, Downloads
  <2> DEFINE r == [Resting EXCEPT !.pc = "create", !.source = v]
  <2>2. r.pc = "create" /\ r.file = 1 /\ r.source = v /\ r.sums = <<>> /\ r.outcome = "none"
    BY DEF Resting
  <2> HIDE DEF r
  <2>3. Gathered(r)
    BY <2>2 DEF Gathered
  <2>4. Undisturbed(r, dest, temp, content, manifest)
    BY <2>2, Lengths DEF Undisturbed
  <2> QED BY <1>1, <2>1, <2>2, <2>3, <2>4, AtWork, ThoughtStep DEF r
<1> QED BY <1>2, <1>3

(* All files are what the manifest says, and it is of one version.         *)
LEMMA VerifiedEnsured ==
    ASSUME DownloadInv, EnsuredInv, NEW p \in Procs, Verified(p)
    PROVE  EnsuredInv' /\ Ensured
<1> DEFINE r == [Resting EXCEPT !.outcome = "ready"]
<1>1. /\ proc[p].pc = "verify" /\ UNCHANGED cache /\ calm' = calm /\ Set(p, r)
      /\ proc[p].file \notin DOMAIN ModelFiles
  BY DEF Verified, Same
<1>2. r.pc = "rest"
  BY DEF Resting
<1> HIDE DEF r
<1>3. Gathered(r) /\ Undisturbed(r, dest, temp, content, manifest)
  BY <1>2 DEF Gathered, Undisturbed, Downloading
<1>4. ASSUME calm[p] PROVE Whole
  <2>1. Undisturbed(proc[p], dest, temp, content, manifest)
    BY <1>4, AtWork
  <2>2. \A i \in DOMAIN ModelFiles : i < proc[p].file
    <3>1. proc[p].file \in Nat \ {0}
      BY AtWork DEF Held
    <3>2. proc[p].file > Len(ModelFiles)
      BY <1>1, <3>1, Lengths
    <3> QED BY <3>1, <3>2, Lengths
  <2>3. 1 \in DOMAIN ModelFiles
    BY Lengths, ConstantsAssumption
  <2>4. manifest \notin {NoManifest, Torn}
    BY <1>1, <2>1, <2>2, <2>3 DEF Undisturbed
  <2>5. \A f \in FileNames : dest[f] # NoInode /\ content[dest[f]] = manifest[f]
    BY <1>1, <2>1, <2>2 DEF Undisturbed, InCache, FileNames
  <2>6. PICK v \in Versions : manifest = [f \in FileNames |-> <<v, v>>]
    BY <2>4, AtWork DEF OneVersion
  <2> QED BY <2>4, <2>5, <2>6 DEF Whole, Hash
<1>5. calm[p] => Whole'
  BY <1>1, <1>4 DEF cache, Whole, Hash
<1> QED BY <1>1, <1>3, <1>5, AtWork, ThoughtStep

LEMMA CreateEnsured ==
    ASSUME DownloadInv, EnsuredInv, NEW p \in Procs, CreateTemp(p)
    PROVE  EnsuredInv' /\ Ensured
<1> DEFINE f == FileOf(p)
<1>1. PICK i \in Inodes :
        /\ IF temp[f] # NoInode THEN i = temp[f] ELSE NewInode(i)
        /\ temp' = [temp EXCEPT ![f] = i] /\ content' = [content EXCEPT ![i] = Blank]
        /\ Set(p, [proc[p] EXCEPT !.pc = "stream", !.part = 1, !.fd = i])
  BY DEF CreateTemp
<1>2. /\ dest' = dest /\ manifest' = manifest /\ Disturb(p) /\ proc[p].pc = "create"
      /\ Held(proc[p]) /\ CacheInv /\ Apart /\ Gathered(proc[p])
  BY AtWork DEF CreateTemp
<1>3. f \in FileNames /\ proc[p].file \in DOMAIN ModelFiles /\ f = ModelFiles[proc[p].file]
  BY <1>2 DEF Held, FileOf, FileNames
<1> DEFINE r == [proc[p] EXCEPT !.pc = "stream", !.part = 1, !.fd = i]
<1>4. /\ r.pc = "stream" /\ r.part = 1 /\ r.fd = i /\ r.file = proc[p].file
      /\ r.source = proc[p].source /\ r.sums = proc[p].sums /\ r.outcome = proc[p].outcome
  BY <1>2 DEF Held, Fields
<1>5. Set(p, r)
  BY <1>1
<1> HIDE DEF r
<1>6. Gathered(r) /\ r.outcome # "ready"
  BY <1>2, <1>4 DEF Gathered, Downloading
<1>7. i # NoInode /\ \A g \in FileNames : dest[g] # i /\ (g # f => temp[g] # i)
  BY <1>1, <1>2, <1>3, NoInodeApart DEF Apart, NewInode, Used
<1>8. \A g \in FileNames : temp'[g] = IF g = f THEN i ELSE temp[g]
  BY <1>1, <1>3, <1>2 DEF CacheInv
<1>9. Apart'
  BY <1>2, <1>7, <1>8 DEF Apart
<1>10. \A g \in FileNames : dest[g] # NoInode => content'[dest[g]] = content[dest[g]]
  BY <1>1, <1>2, <1>7 DEF CacheInv
<1>11. ASSUME calm[p] PROVE Undisturbed(r, dest', temp', content', manifest')
  <2>1. \A k \in DOMAIN ModelFiles : k < proc[p].file =>
            InCache(dest, content, k, <<proc[p].source, proc[p].source>>)
    BY <1>2, <1>11, AtWork DEF Undisturbed, Downloading
  <2>2. \A k \in DOMAIN ModelFiles : k < proc[p].file =>
            InCache(dest, content', k, <<proc[p].source, proc[p].source>>)
    BY <1>10, <2>1 DEF InCache, FileNames
  <2> QED BY <1>2, <1>3, <1>4, <1>8, <2>2 DEF Undisturbed
<1> QED BY <1>2, <1>5, <1>6, <1>9, <1>11, AtWork, EnsuredStep

LEMMA WriteEnsured ==
    ASSUME DownloadInv, EnsuredInv, NEW p \in Procs, WriteChunk(p)
    PROVE  EnsuredInv' /\ Ensured
<1> DEFINE f == FileOf(p)
           i == proc[p].fd
           k == proc[p].part
           v == proc[p].source
           r == [proc[p] EXCEPT !.part = @ + 1]
<1>1. /\ dest' = dest /\ temp' = temp /\ manifest' = manifest /\ Disturb(p)
      /\ proc[p].pc = "stream" /\ Set(p, r) /\ content' = [content EXCEPT ![i][k] = v]
      /\ Held(proc[p]) /\ CacheInv /\ Apart /\ Gathered(proc[p])
  BY AtWork DEF WriteChunk
<1>2. /\ f \in FileNames /\ i \in Inodes /\ k \in 1..2 /\ v \in Versions
      /\ proc[p].file \in DOMAIN ModelFiles /\ f = ModelFiles[proc[p].file]
  BY <1>1 DEF Held, FileOf, FileNames, WriteChunk
<1>3. /\ r.pc = "stream" /\ r.part = k + 1 /\ r.fd = i /\ r.file = proc[p].file
      /\ r.source = v /\ r.sums = proc[p].sums /\ r.outcome = proc[p].outcome
  BY <1>1 DEF Held, Fields
<1>4. /\ \A j \in Inodes : j # i => content'[j] = content[j]
      /\ \A n \in 1..2 : content'[i][n] = IF n = k THEN v ELSE content[i][n]
  BY <1>1, <1>2 DEF CacheInv
<1> HIDE DEF r
<1>5. Gathered(r) /\ r.outcome # "ready"
  BY <1>1, <1>3 DEF Gathered, Downloading
<1>6. Apart'
  BY <1>1 DEF Apart
<1>7. ASSUME calm[p] PROVE Undisturbed(r, dest', temp', content', manifest')
  <2>1. Undisturbed(proc[p], dest, temp, content, manifest)
    BY <1>7, AtWork
  <2>2. temp[f] = i /\ \A n \in 1..2 : n < k => content[i][n] = v
    BY <1>1, <1>2, <2>1 DEF Undisturbed
  <2>3. \A g \in FileNames : dest[g] # NoInode => content'[dest[g]] = content[dest[g]]
    BY <1>1, <1>2, <1>4, <2>2 DEF Apart, CacheInv
  <2>4. \A j \in DOMAIN ModelFiles : j < proc[p].file => InCache(dest, content', j, <<v, v>>)
    BY <1>1, <2>1, <2>3 DEF Undisturbed, Downloading, InCache, FileNames
  <2>5. \A n \in 1..2 : n < k + 1 => content'[i][n] = v
    BY <1>2, <1>4, <2>2
  <2> QED BY <1>1, <1>2, <1>3, <2>2, <2>4, <2>5 DEF Undisturbed
<1> QED BY <1>1, <1>3, <1>5, <1>6, <1>7, AtWork, EnsuredStep

LEMMA RenameEnsured ==
    ASSUME DownloadInv, EnsuredInv, NEW p \in Procs, Rename(p)
    PROVE  EnsuredInv' /\ Ensured
<1> DEFINE f == FileOf(p)
           v == proc[p].source
           r == NextFile(p)
<1>1. /\ proc[p].pc = "stream" /\ proc[p].part > 2 /\ temp[f] # NoInode
      /\ dest' = [dest EXCEPT ![f] = temp[f]] /\ temp' = [temp EXCEPT ![f] = NoInode]
      /\ content' = content /\ manifest' = manifest /\ Disturb(p) /\ Set(p, r)
      /\ Held(proc[p]) /\ CacheInv /\ Apart /\ Gathered(proc[p])
  BY AtWork DEF Rename
<1>2. /\ f \in FileNames /\ temp[f] \in Inodes /\ v \in Versions
      /\ proc[p].file \in DOMAIN ModelFiles /\ f = ModelFiles[proc[p].file]
  BY <1>1 DEF Held, FileOf, FileNames, CacheInv
<1>3. /\ r.pc = IF proc[p].file = Len(ModelFiles) THEN "truncate" ELSE "create"
      /\ r.file = proc[p].file + 1 /\ r.source = v /\ r.outcome = proc[p].outcome
      /\ r.sums = Append(proc[p].sums, <<v, v>>)
  BY <1>1 DEF Held, Fields, NextFile
<1> HIDE DEF r
<1>4. Gathered(r) /\ r.outcome # "ready"
  BY SMTT(40), <1>1, <1>2, <1>3, Lengths DEF Gathered, Downloading
<1>5. \A g \in FileNames : /\ dest'[g] = IF g = f THEN temp[f] ELSE dest[g]
                           /\ temp'[g] = IF g = f THEN NoInode ELSE temp[g]
  BY <1>1, <1>2 DEF CacheInv
<1>6. Apart'
  BY <1>1, <1>2, <1>5 DEF Apart
<1>7. ASSUME calm[p] PROVE Undisturbed(r, dest', temp', content', manifest')
  <2>1. Undisturbed(proc[p], dest, temp, content, manifest)
    BY <1>7, AtWork
  <2>2. content[temp[f]] = <<v, v>>
    <3>1. content[temp[f]][1] = v /\ content[temp[f]][2] = v
      BY <1>1, <1>2, <2>1 DEF Undisturbed, Held
    <3>2. content[temp[f]] \in [1..2 -> Versions \cup {Hole}]
      BY <1>1, <1>2 DEF CacheInv
    <3> QED BY <3>1, <3>2
  <2>3. ASSUME NEW j \in DOMAIN ModelFiles, j < proc[p].file + 1
        PROVE  InCache(dest', content', j, <<v, v>>)
    <3>1. ModelFiles[j] \in FileNames
      BY DEF FileNames
    <3>2. CASE ModelFiles[j] = f
      BY <1>1, <1>5, <2>2, <3>1, <3>2 DEF InCache
    <3>3. CASE ModelFiles[j] # f
      <4>1. j < proc[p].file
        BY <1>2, <2>3, <3>3, Lengths
      <4> QED BY <1>1, <1>5, <2>1, <3>1, <3>3, <4>1 DEF Undisturbed, Downloading, InCache
    <3> QED BY <3>2, <3>3
  <2> QED BY <1>3, <2>3 DEF Undisturbed
<1> QED BY <1>1, <1>4, <1>6, <1>7, AtWork, EnsuredStep DEF EnsuredInv

LEMMA TruncateEnsured ==
    ASSUME DownloadInv, EnsuredInv, NEW p \in Procs, TruncateManifest(p)
    PROVE  EnsuredInv' /\ Ensured
<1> DEFINE r == [proc[p] EXCEPT !.pc = "manifest"]
<1>1. /\ proc[p].pc = "truncate" /\ manifest' = Torn /\ dest' = dest /\ temp' = temp
      /\ content' = content /\ Disturb(p) /\ Set(p, r)
      /\ Held(proc[p]) /\ Apart /\ Gathered(proc[p])
  BY AtWork DEF TruncateManifest
<1>2. /\ r.pc = "manifest" /\ r.file = proc[p].file /\ r.source = proc[p].source
      /\ r.outcome = proc[p].outcome /\ r.sums = proc[p].sums
  BY <1>1 DEF Held, Fields
<1> HIDE DEF r
<1>3. Gathered(r) /\ r.outcome # "ready"
  BY <1>1, <1>2 DEF Gathered, Downloading
<1>4. Apart' /\ OneVersion(manifest')
  BY <1>1 DEF Apart, OneVersion
<1>5. calm[p] => Undisturbed(r, dest', temp', content', manifest')
  BY <1>1, <1>2, AtWork DEF Undisturbed, Downloading
<1> QED BY <1>1, <1>3, <1>4, <1>5, AtWork, EnsuredStep

(* The sums are those of the source, and so are all files.                 *)
LEMMA ManifestEnsured ==
    ASSUME DownloadInv, EnsuredInv, NEW p \in Procs, WriteManifest(p)
    PROVE  EnsuredInv' /\ Ensured
<1> DEFINE v == proc[p].source
           r == [Resting EXCEPT !.outcome = "ready"]
<1>1. /\ proc[p].pc = "manifest" /\ dest' = dest /\ temp' = temp
      /\ content' = content /\ Disturb(p) /\ Set(p, r)
      /\ manifest' = [f \in FileNames |->
            proc[p].sums[CHOOSE i \in DOMAIN ModelFiles : ModelFiles[i] = f]]
      /\ Held(proc[p]) /\ Apart /\ Gathered(proc[p])
  BY AtWork DEF WriteManifest
<1>2. r.pc = "rest"
  BY DEF Resting
<1> HIDE DEF r
<1>3. Gathered(r) /\ Undisturbed(r, dest', temp', content', manifest')
  BY <1>2 DEF Gathered, Undisturbed, Downloading
<1>4. /\ v \in Versions /\ proc[p].sums \in Seq({<<v, v>>})
      /\ Len(proc[p].sums) = Len(ModelFiles) /\ proc[p].file = Len(ModelFiles) + 1
  BY <1>1, Lengths DEF Gathered, Downloading
<1>5. manifest' = [f \in FileNames |-> <<v, v>>]
  <2>1. ASSUME NEW f \in FileNames
        PROVE  proc[p].sums[CHOOSE i \in DOMAIN ModelFiles : ModelFiles[i] = f] = <<v, v>>
    <3> DEFINE i == CHOOSE i \in DOMAIN ModelFiles : ModelFiles[i] = f
    <3>1. i \in DOMAIN ModelFiles
      BY DEF FileNames
    <3> HIDE DEF i
    <3>2. proc[p].sums[i] = <<v, v>>
      BY <1>4, <3>1, Lengths
    <3> QED BY <3>2 DEF i
  <2> QED BY <1>1, <2>1
<1>6. OneVersion(manifest') /\ manifest' \notin {NoManifest, Torn}
  BY <1>4, <1>5, ConstantsAssumption DEF OneVersion
<1>7. ASSUME calm[p] PROVE Whole'
  <2>1. Undisturbed(proc[p], dest, temp, content, manifest)
    BY <1>7, AtWork
  <2>2. \A j \in DOMAIN ModelFiles : InCache(dest, content, j, <<v, v>>)
    <3>1. \A j \in DOMAIN ModelFiles : j < proc[p].file
      BY <1>4, Lengths
    <3> QED BY <1>1, <2>1, <3>1 DEF Undisturbed, Downloading
  <2>3. \A f \in FileNames : dest[f] # NoInode /\ content[dest[f]] = <<v, v>>
    BY <2>2 DEF InCache, FileNames
  <2> QED BY <1>1, <1>5, <1>6, <2>3 DEF Whole, Hash
<1>8. Apart'
  BY <1>1 DEF Apart
<1> QED BY <1>1, <1>3, <1>6, <1>7, <1>8, AtWork, EnsuredStep

LEMMA EnsuredNext == DownloadInv /\ EnsuredInv /\ [Next]_vars => EnsuredInv' /\ Ensured
<1> SUFFICES ASSUME DownloadInv, EnsuredInv, [Next]_vars PROVE EnsuredInv' /\ Ensured
  OBVIOUS
<1>1. ASSUME NEW p \in Procs,
             \/ \E mayDownload \in BOOLEAN : BuildEmbeds(p, mayDownload)
             \/ UpdateEmbeds(p) \/ Query(p)
      PROVE  EnsuredInv' /\ Ensured
  <2>1. ~Busy(p)
    BY <1>1 DEF BuildEmbeds, UpdateEmbeds, Query
  <2>2. CASE Ensure(p)
    BY <2>1, <2>2, EnsureEnsured
  <2>3. CASE Skip(p)
    BY <2>1, <2>3, RestEnsured DEF Skip
  <2>4. CASE Query(p)
    BY <2>1, <2>4, RestEnsured DEF Query
  <2> QED BY <1>1, <2>2, <2>3, <2>4 DEF BuildEmbeds, UpdateEmbeds
<1>2. ASSUME NEW p \in Procs, Step(p) \/ Stops(p) PROVE EnsuredInv' /\ Ensured
  <2>1. CASE VerifyFile(p) \/ Verified(p)
    BY <2>1, VerifyEnsured, VerifiedEnsured
  <2>2. CASE RenameFails(p) \/ Stops(p)
    BY <2>2, RestEnsured DEF RenameFails, Stops, Same
  <2>3. CASE CreateTemp(p) \/ WriteChunk(p) \/ Rename(p)
    BY <2>3, CreateEnsured, WriteEnsured, RenameEnsured
  <2>4. CASE TruncateManifest(p) \/ WriteManifest(p)
    BY <2>4, TruncateEnsured, ManifestEnsured
  <2> QED BY <1>2, <2>1, <2>2, <2>3, <2>4 DEF Step
<1>3. CASE UNCHANGED vars
  <2>1. dest' = dest /\ temp' = temp /\ content' = content /\ manifest' = manifest /\ proc' = proc
        /\ calm' = calm
    BY <1>3 DEF vars
  <2>2. EnsuredInv'
    BY <2>1 DEF EnsuredInv, Apart, OneVersion, Gathered
  <2>3. Ensured
    BY <2>1 DEF EnsuredInv, Gathered, Ensured, Returns, Busy
  <2> QED BY <2>2, <2>3
<1> QED BY <1>1, <1>2, <1>3 DEF Next

(***************************************************************************)
(* For any number of processes, files and versions, whatever overlapped or *)
(* was killed before: a call of ensure_model that nobody disturbs returns  *)
(* with every file what the manifest says and all of one download          *)
(* (cache_is_valid, ensure_model).                                         *)
(***************************************************************************)
THEOREM EnsuredCacheIsWhole == Spec => EnsuredIsWhole
<1>1. DownloadInv /\ EnsuredInv /\ [Next]_vars =>
          [\A p \in Procs : Returns(p) /\ calm'[p] => Whole']_vars
  BY EnsuredNext DEF Ensured
<1> QED BY InitInv, NextInv, EnsuredInit, EnsuredNext, <1>1, PTL DEF Spec, EnsuredIsWhole
=============================================================================
