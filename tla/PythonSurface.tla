--------------------------- MODULE PythonSurface ---------------------------
(***************************************************************************)
(* The public surface of a Python package as surface/python.rs walks it    *)
(* from an __init__.py.  A file of the tree has                            *)
(*   decls  the names it declares at its top level, in order               *)
(*   all    the names of __all__; listed, whether there is one             *)
(*   froms  its `from` imports: dots, module (a path), star, and names, a  *)
(*          sequence of records with name and alias ("" for none)          *)
(* hops are the files of re_export_chain.                                  *)
(***************************************************************************)
EXTENDS SourceTree

CONSTANTS
    MaxDepth,      \* SurfaceOptions::max_depth
    Underscored    \* the names that begin with an underscore

InitFile(dir) == Append(dir, <<"__init__", "py">>)
IsInit(p)     == Last(p) = <<"__init__", "py">>
Exposed(n)    == IF n.alias = "" THEN n.name ELSE n.alias

(* PublicSet: __all__ where there is one.                                  *)
Includes(file, name) == IF file.listed THEN name \in file.all ELSE name \notin Underscored

PublicDecls(file) == SelectSeq(file.decls, LAMBDA d : Includes(file, d))

Entry(path, source, name, hops) ==
    [path |-> path, source |-> <<source, name>>, hops |-> hops, glob |-> FALSE]

(* The directory that a relative import starts from, _ascend included; an  *)
(* absolute one, or one that leaves the tree, has none.                    *)
Follows(dir, from) == from.dots > 0 /\ from.dots - 1 <= Len(dir)

TargetDir(dir, from) == Ascend(dir, from.dots - 1) \o from.module

-----------------------------------------------------------------------------
(* _follow_from_import: the first of five files decides.  An __init__ that *)
(* `from . import name` leads to, even the importing package's own, shows  *)
(* all it declares under the name.  In another file the name is declared,  *)
(* or is looked for behind that file's imports of it, as deep as they go.  *)
Candidates(dir, name) ==
    << WithExtension(dir, <<"py">>), Append(dir, <<name, "py">>), Append(dir, <<name, "pyi">>),
       InitFile(Append(dir, <<name>>)), InitFile(dir) >>

RECURSIVE FollowFromImport(_, _, _, _, _, _, _)
FollowFromImport(tree, segments, exposed, name, dir, bare, hop) ==
    LET file     == FirstFile(tree, Candidates(dir, name))
        nested   == Append(segments, name)
        behind(from) ==
            Each(SelectSeq(from.names, LAMBDA n : Exposed(n) = name),
                 LAMBDA n : FollowFromImport(tree, segments, exposed, n.name, TargetDir(Front(file), from),
                                             from.module = <<>>, hop))
    IN  IF file = NoFile THEN <<>>
        ELSE IF bare /\ IsInit(file)
        THEN Each(PublicDecls(tree[file]), LAMBDA d : << Entry(Append(nested, d), file, d, <<hop>>) >>)
        ELSE IF \E i \in DOMAIN tree[file].decls : tree[file].decls[i] = name
        THEN << Entry(Append(segments, exposed), file, name, <<hop>>) >>
        ELSE Each(SelectSeq(tree[file].froms, LAMBDA from : Follows(Front(file), from)), behind)

(* _publish_external: the entries of a starred package, each under the     *)
(* last name of its path.                                                  *)
Republished(segments, hop, e) ==
    [e EXCEPT !.path = Append(segments, Last(@)), !.hops = <<hop>> \o @, !.glob = TRUE]

(* walk_package.  A starred package is walked by a walker of its own that  *)
(* may go one level less deep; a starred file that is no package is left.  *)
RECURSIVE WalkPackage(_, _, _, _, _, _)
WalkPackage(tree, init, segments, depth, max, visited) ==
    LET file  == tree[init]
        named(from) ==
            Each(SelectSeq(from.names, LAMBDA n : Includes(file, Exposed(n))),
                 LAMBDA n : FollowFromImport(tree, segments, Exposed(n), n.name, TargetDir(Front(init), from),
                                             from.module = <<>>, init))
        starred(from) ==
            LET sub == InitFile(TargetDir(Front(init), from))
            IN  IF ~IsFile(tree, sub) THEN <<>>
                ELSE Each(WalkPackage(tree, sub, segments \o from.module, depth + 1,
                                      IF max > 0 THEN max - 1 ELSE 0, visited \cup {init}),
                          LAMBDA e : << Republished(segments, init, e) >>)
        own   == Each(PublicDecls(file), LAMBDA d : << Entry(Append(segments, d), init, d, <<>>) >>)
        froms == SelectSeq(file.froms, LAMBDA from : Follows(Front(init), from))
    IN  IF depth > max \/ init \in visited THEN <<>>
        ELSE FoldLeft(Publish, <<>>,
                      own \o Each(froms, LAMBDA from : IF from.star THEN starred(from) ELSE named(from)))

PythonEntries(tree, init, package) == WalkPackage(tree, init, <<package>>, 0, MaxDepth, {})
=============================================================================
