---------------------------- MODULE ScalaSurface ----------------------------
(***************************************************************************)
(* The public surface of a Scala package as surface/scala.rs collects it   *)
(* from every file below a directory, a sequence in the order of their     *)
(* paths.  Packages and qualified names are sequences of names.  A file    *)
(* has                                                                     *)
(*   package  of its first package clause, <<>> for none                   *)
(*   decls    declarations: kind ("namespace", "object" for all that may   *)
(*            hold others, or "member"), name (a package for a namespace), *)
(*            public, children                                             *)
(*   exports  its `export` clauses: from (a path), bindings, records with  *)
(*            name and alias ("" for none), and glob                       *)
(* An entry is a record with path, source, the qualified name of what it   *)
(* shows, file, where that is declared, and glob.                          *)
(***************************************************************************)
EXTENDS SourceTree

(* _index_children: what an object, class or the like holds.               *)
RECURSIVE IndexChildren(_, _, _)
IndexChildren(d, path, file) ==
    LET child(c) == << [path |-> path \o c.name, file |-> file] >>
                    \o IndexChildren(c, path \o c.name, file)
    IN  IF d.kind = "member" THEN <<>>
        ELSE Each(SelectSeq(d.children, LAMBDA c : c.public), child)

(* _absorb_top_level: a namespace takes the place of the package clause.   *)
RECURSIVE AbsorbTopLevel(_, _, _)
AbsorbTopLevel(d, package, file) ==
    IF d.kind = "namespace"
    THEN Each(d.children, LAMBDA c : AbsorbTopLevel(c, IF d.name # <<>> THEN d.name ELSE package, file))
    ELSE IF ~d.public THEN <<>>
    ELSE << [path |-> package \o d.name, file |-> file] >> \o IndexChildren(d, package \o d.name, file)

(* by_qpath: the first declaration of a qualified name stays.              *)
ByPath(files) ==
    LET absorbed(i) == Each(files[i].decls, LAMBDA d : AbsorbTopLevel(d, files[i].package, i))
    IN  FoldLeft(Publish, <<>>, Each([i \in DOMAIN files |-> i], absorbed))

-----------------------------------------------------------------------------
(* _resolve_candidates, _resolve_glob_prefixes: the path itself, then in   *)
(* the package of the clause, then in the packages around it.              *)
(* Mutant: a path starts at the root.                                      *)
Meanings_Absolute(path, package) == <<path>>

Meanings(path, package) ==
    <<path>> \o [i \in 1..Len(package) |-> SubSeq(package, 1, Len(package) - i + 1) \o path]

Bindings(export) ==
    IF export.bindings = <<>>
    THEN << [from |-> Front(export.from), name |-> Last(export.from), alias |-> Last(export.from)] >>
    ELSE [i \in DOMAIN export.bindings |->
             LET b == export.bindings[i]
             IN  [from |-> export.from, name |-> b.name, alias |-> IF b.alias = "" THEN b.name ELSE b.alias]]

(* A binding shows the first of its meanings that is indexed; a glob shows *)
(* all that is directly in the first of its meanings that holds anything.  *)
Selected(index, package, export) ==
    LET shown(b) ==
            LET meant == SelectSeq(Meanings(Append(b.from, b.name), package), LAMBDA q : Listed(index, q))
                found == SelectSeq(index, LAMBDA x : x.path = meant[1])
            IN  IF meant = <<>> THEN <<>>
                ELSE << [path |-> Append(package, b.alias), source |-> meant[1],
                         file |-> found[1].file, glob |-> FALSE] >>
    IN  Each(Bindings(export), shown)

Within(index, prefix) == SelectSeq(index, LAMBDA x : Len(x.path) > 0 /\ Front(x.path) = prefix)

Globbed(index, package, export) ==
    LET held == SelectSeq(Meanings(export.from, package), LAMBDA q : Within(index, q) # <<>>)
    IN  IF held = <<>> THEN <<>>
        ELSE Each(Within(index, held[1]),
                  LAMBDA x : << [path |-> Append(package, Last(x.path)), source |-> x.path,
                                 file |-> x.file, glob |-> TRUE] >>)

(* resolve: all that is indexed, then the export clauses.  The answer is   *)
(* sorted by paths, of which there are no two the same: a set.             *)
ScalaEntries(files) ==
    LET index    == ByPath(files)
        direct   == [i \in DOMAIN index |->
                        [path |-> index[i].path, source |-> index[i].path, file |-> index[i].file, glob |-> FALSE]]
        clauses(f) == Each(f.exports, LAMBDA ex : IF ex.glob THEN Globbed(index, f.package, ex)
                                                  ELSE Selected(index, f.package, ex))
    IN  Range(FoldLeft(Publish, direct, Each(files, clauses)))
=============================================================================
