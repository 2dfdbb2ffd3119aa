----------------------------- MODULE SourceTree -----------------------------
(***************************************************************************)
(* Files for the walks of surface/.  A path is a sequence of names and a   *)
(* name the sequence of its parts between dots, so that a/index.d.ts is    *)
(* <<<<"a">>, <<"index", "d", "ts">>>>.  A tree maps the paths of its      *)
(* files to what they hold; a path with a file below it is a directory.    *)
(* An entry of a surface has a path, and what an entry is about; two paths *)
(* are never listed twice.                                                 *)
(***************************************************************************)
EXTENDS Integers, Sequences, FiniteSets, SequencesExt

NoFile == <<>>

IsFile(tree, p) == p \in DOMAIN tree
IsDir(tree, p)  == \E f \in DOMAIN tree : IsStrictPrefix(p, f)

Extension(p) == IF p = <<>> \/ Len(Last(p)) = 1 THEN "" ELSE Last(Last(p))

(* Path::with_extension takes the last part of a name off before it adds   *)
(* the new one, whatever that part is.                                     *)
WithoutExtension(p) == IF Extension(p) = "" THEN p ELSE Append(Front(p), Front(Last(p)))

WithExtension(p, ext) ==
    IF p = <<>> THEN p ELSE Append(Front(p), Last(WithoutExtension(p)) \o ext)

(* The first of some paths that is a file.                                 *)
FirstFile(tree, paths) ==
    LET files == SelectSeq(paths, LAMBDA p : IsFile(tree, p))
    IN  IF files = <<>> THEN NoFile ELSE Head(files)

Ascend(dir, levels) == SubSeq(dir, 1, Len(dir) - levels)

(* The first entry of a path stays.                                        *)
Listed(entries, path) == \E i \in DOMAIN entries : entries[i].path = path

Publish(entries, e) == IF Listed(entries, e.path) THEN entries ELSE Append(entries, e)

(* What a set grows to in so many rounds.                                  *)
Grown(Step(_), set, rounds) ==
    FoldLeft(LAMBDA s, i : s \cup Step(s), set, [i \in 1..rounds |-> i])

Each(s, Op(_)) == FlattenSeq([i \in DOMAIN s |-> Op(s[i])])
=============================================================================
