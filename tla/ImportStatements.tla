-------------------------- MODULE ImportStatements --------------------------
(***************************************************************************)
(* The extractors of deps/extract.rs and surface/imports.rs: the import    *)
(* statements of a file, as its syntax tree gives them, and the imports    *)
(* that the resolver is asked for.  A statement is a record, its fields    *)
(* named at each extractor; a path is a sequence of names, <<>> for none.  *)
(* An import is a specifier and a kind.  A specifier has a form:           *)
(*   "relative" with up, path and ext (written or ""), "absolute" with     *)
(*   path, or of Rust "self" and "super" with up and path.                 *)
(***************************************************************************)
EXTENDS Integers, Sequences, FiniteSets, SequencesExt, FiniteSetsExt

Specifier(form, up, path) == [form |-> form, up |-> up, path |-> path, ext |-> ""]
Relative(up, path)        == Specifier("relative", up, path)
Absolute(path)            == Specifier("absolute", 0, path)

Import(specifier, kind) == [spec |-> specifier, kind |-> kind]

-----------------------------------------------------------------------------
(* Rust.  A use tree has a kind, "list", "wildcard", "as" or "name", a     *)
(* path and, of a list, trees; every leaf is a use of its own.             *)
RECURSIVE FlattenUseTree(_, _)
FlattenUseTree(tree, prefix) ==
    LET full == prefix \o tree.path
    IN  IF tree.kind = "list"
        THEN FlattenSeq([i \in DOMAIN tree.trees |-> FlattenUseTree(tree.trees[i], full)])
        ELSE <<[path |-> full, glob |-> tree.kind = "wildcard"]>>

(* resolve.rs takes off crate, self and super where more follows.          *)
UsePath(path) ==
    LET supers == Cardinality({i \in DOMAIN path : \A j \in 1..i : path[j] = "super"})
        up     == Min({supers, Len(path) - 1})
    IN  CASE Len(path) > 1 /\ path[1] = "crate" -> Absolute(Tail(path))
          [] Len(path) > 1 /\ path[1] = "self"  -> Specifier("self", 0, Tail(path))
          [] up > 0 -> Specifier("super", up, SubSeq(path, up + 1, Len(path)))
          [] OTHER  -> Absolute(path)

RustUses(tree) ==
    LET uses == FlattenUseTree(tree, <<>>)
    IN  [i \in DOMAIN uses |-> Import(UsePath(uses[i].path), IF uses[i].glob THEN "glob" ELSE "use")]

(* `mod name;` is a file; a module with a body is none.                    *)
RustMod(m) == IF m.body THEN <<>> ELSE << Import(Specifier("self", 0, <<m.name>>), "mod") >>

-----------------------------------------------------------------------------
(* Python.  from: dots, module, names (a sequence) and star.               *)

(* Dots alone become a path without a last slash, which the resolver no    *)
(* longer takes for a relative one.                                        *)
NormalisePython(dots, path) ==
    IF dots = 0 THEN Absolute(path)
    ELSE IF path = <<>> THEN Absolute(<<"">>)
    ELSE Relative(dots - 1, path)

PythonFrom(s) ==
    IF s.star \/ s.names = <<>>
    THEN << Import(NormalisePython(s.dots, s.module), IF s.star THEN "star_from" ELSE "from") >>
    ELSE [i \in DOMAIN s.names |->
             Import(NormalisePython(s.dots, Append(s.module, s.names[i])), "from")]

(* import: paths.                                                          *)
PythonBare(s) == [i \in DOMAIN s.paths |-> Import(Absolute(s.paths[i]), "bare")]

-----------------------------------------------------------------------------
(* TypeScript and JavaScript.  import and export: source (a specifier) and *)
(* clauses, a set of "named" and "namespace"; require: source, and whether *)
(* it is in a declaration, where it is not looked for.                     *)
ScriptImport(s) ==
    << Import(s.source, CASE "namespace" \in s.clauses -> "star_from"
                          [] s.clauses = {"named"}     -> "named_from"
                          [] OTHER                     -> "bare") >>

ScriptExport(s) ==
    << Import(s.source, IF s.clauses = {"namespace"} THEN "star_from" ELSE "named_from") >>

ScriptRequire(s) == IF s.declares THEN <<>> ELSE << Import(s.source, "bare") >>

-----------------------------------------------------------------------------
(* Java, Kotlin and C#: path, and whether it is static, wildcard or has an *)
(* alias; the wildcard is not part of the path.                            *)
JavaImport(s) ==
    << Import(Absolute(s.path), CASE s.static -> "static"
                                  [] ~s.static /\ s.wildcard -> "glob"
                                  [] OTHER -> "bare") >>

KotlinImport(s) ==
    << Import(Absolute(s.path), CASE s.alias -> "alias"
                                  [] ~s.alias /\ s.wildcard -> "glob"
                                  [] OTHER -> "bare") >>

CSharpUsing(s) ==
    << Import(Absolute(s.path), CASE s.static -> "static"
                                  [] ~s.static /\ s.alias -> "alias"
                                  [] OTHER -> "bare") >>

(* Scala: path, wildcard and selectors (a sequence of names, "_" for all). *)
ScalaImport(s) ==
    IF s.selectors = <<>>
    THEN << Import(Absolute(s.path), IF s.wildcard THEN "star_from" ELSE "bare") >>
    ELSE [i \in DOMAIN s.selectors |->
             IF s.selectors[i] = "_" THEN Import(Absolute(s.path), "star_from")
             ELSE Import(Absolute(Append(s.path, s.selectors[i])), "bare")]

(* Go: paths, of one import or of a group.                                 *)
GoImport(s) == [i \in DOMAIN s.paths |-> Import(Absolute(s.paths[i]), "bare")]

-----------------------------------------------------------------------------
(* extract: by the statement, which only its language has.                 *)
Extract(s) ==
    CASE s.statement = "use"     -> RustUses(s.tree)
      [] s.statement = "mod"     -> RustMod(s)
      [] s.statement = "from"    -> PythonFrom(s)
      [] s.statement = "python"  -> PythonBare(s)
      [] s.statement = "import"  -> ScriptImport(s)
      [] s.statement = "export"  -> ScriptExport(s)
      [] s.statement = "require" -> ScriptRequire(s)
      [] s.statement = "java"    -> JavaImport(s)
      [] s.statement = "kotlin"  -> KotlinImport(s)
      [] s.statement = "csharp"  -> CSharpUsing(s)
      [] s.statement = "scala"   -> ScalaImport(s)
      [] s.statement = "go"      -> GoImport(s)

ExtractAll(statements) ==
    FlattenSeq([i \in DOMAIN statements |-> Extract(statements[i])])
=============================================================================
