---------------------------- MODULE MCAlgorithms ----------------------------
(* Small inputs of every kind for TLC, and the crates of two runs.         *)
EXTENDS Algorithms, TLC

MC == INSTANCE MCPackages

(* Import graphs: of three files where an import may lead out of the       *)
(* project, and of four without self imports; two files that import one    *)
(* file twice, as another kind of import.                                  *)
Ascending(S) == SetToSortSeq(S, <)

MCGraphs ==
    {[f \in 1..3 |-> Ascending(g[f])] : g \in [1..3 -> SUBSET (1..4)]}
    \cup {[f \in 1..4 |-> Ascending(g[f] \ {f})] :
              g \in {h \in [1..4 -> SUBSET (1..4)] : 2 \in h[1] /\ 1 \notin h[3] /\ Cardinality(h[4]) < 2}}
    \cup [1..2 -> {<<>>, <<1>>, <<2>>, <<2, 2>>, <<1, 2, 2>>}]

(* Queries: from a file of the project and from one that may be none.      *)
MCCalls ==
    {[kind |-> "matrix", from |-> 1, maxDepth |-> 0, limit |-> 0]}
    \cup {[kind |-> kind, from |-> from, maxDepth |-> depth, limit |-> 9] :
              kind \in {"forward", "reverse", "around"}, from \in {1, 4}, depth \in 1..2}
    \cup {[kind |-> "reverse", from |-> 2, maxDepth |-> 2, limit |-> 1]}

-----------------------------------------------------------------------------
(* rerank: four chunks of two files.                                       *)
RerankJobs ==
    {[kind |-> "rerank", scores |-> scores, k |-> k,
      chunks |-> [c \in 1..4 |-> [file |-> file[c], kinds |-> kinds[file[c]]]]] :
        scores \in [1..4 -> {10, 20, 40}], k \in 1..3,
        file \in {f \in [1..4 -> 1..2] : f[1] = 1}, kinds \in {<<{}, {}>>, <<{}, {"test"}>>, <<{"reexport", "types"}, {}>>}}

(* search: three chunks, the first two of one file; what they are like.    *)
Palette ==
    {[language |-> l, defines |-> d, stem |-> d, keywords |-> 0, kinds |-> p, doc |-> t] :
        l \in {"rs", "py"}, d \in BOOLEAN, p \in {{}, {"test"}}, t \in {<<"t">>, <<"u", "u">>}}

SearchJobs ==
    {[kind |-> "search", k |-> k, languages |-> languages,
      query  |-> [terms |-> <<"t">>, isSymbol |-> symbol, embedsSymbol |-> FALSE, sim |-> <<1, sim, 2>>],
      docs   |-> [c \in 1..3 |-> of[c].doc],
      chunks |-> [c \in 1..3 |-> [of[c] EXCEPT !.keywords = c] @@ [file |-> IF c = 3 THEN 2 ELSE 1]]] :
        k \in 1..2, languages \in {{}, {"rs"}}, symbol \in BOOLEAN, sim \in {1, 3},
        of \in {o \in [1..3 -> Palette] :
                   o[1].language = o[2].language /\ o[1].kinds = o[2].kinds /\ o[1].stem = o[2].stem}}

(* hybrid: two rows of any kind and one of another file.                   *)
RowKinds ==
    {[repo |-> r, path |-> p, dist |-> d, terms |-> t[1], contains |-> t[2]] :
        r \in {"A", "B"}, p \in 1..2, d \in {None, 80, 105, 130}, t \in {<<<<"t">>, TRUE>>, <<<<"w">>, TRUE>>, <<<<"w">>, FALSE>>}}

HybridJobs ==
    {[kind |-> "hybrid", rows |-> <<a, b, [a EXCEPT !.path = 3, !.dist = 90]>>, k |-> k, repo |-> repo,
      summaries |-> summaries,
      query |-> [terms |-> <<"t">>, isSymbol |-> FALSE, encoded |-> encoded]] :
        a \in {x \in RowKinds : x.repo = "A" /\ x.path = 1 /\ x.dist # 130}, b \in RowKinds, k \in 1..2,
        repo \in {AnyRepo, "B"}, encoded \in BOOLEAN,
        summaries \in {<<>>, <<[repo |-> "A", path |-> 1, dist |-> 90]>>,
                       <<[repo |-> "B", path |-> 2, dist |-> 104], [repo |-> "A", path |-> 1, dist |-> 130]>>}}

RelatedJobs ==
    {[kind |-> "related", sim |-> sim, source |-> 1, k |-> k, depths |-> near,
      chunks |-> [c \in 1..4 |-> [file |-> (c + 1) \div 2, language |-> language[c]]]] :
        sim \in [1..4 -> {100, 110, 130}], k \in 1..2, near \in [1..2 -> {None, 1, 2}],
        language \in {<<"rs", "rs", "rs", "rs">>, <<"rs", "py", "rs", "rs">>}}

Lanes == UNION {{[i \in DOMAIN s |-> [id |-> s[i], score |-> 0]] : s \in {q \in [1..n -> 1..3] : IsInjective(q)}} : n \in 0..3}

ContextJobs ==
    {[kind |-> "context", substring |-> a, search |-> b, budget |-> budget] :
        a \in Lanes, b \in Lanes, budget \in {0, 79, 160, 400}}

WordJobs ==
    {[kind |-> "word", word |-> w] :
        w \in UNION {[1..n -> {"upper", "lower", "digit", "other"}] : n \in 1..5}}

(* source: up to seven bytes of up to four declarations; a tree that does  *)
(* not parse may give an end twice, or one behind the end of the source.   *)
MCSources ==
    {[size |-> size, ends |-> ends, blank |-> blank, newlines |-> blank \cap {1, 2, 5}] :
        size \in {0, 3, 6, 7}, blank \in {{}, {2}, {0, 1, 2}, {1, 4, 5, 6}},
        ends \in UNION {{e \in [1..n -> {1, 2, 3, 5, 6, 8}] :
                            \A i \in 1..n - 1 : e[i] <= e[i + 1]} : n \in 0..4}}

-----------------------------------------------------------------------------
(* Files by their paths, in the order of the paths.                        *)
File(dirs, stem, ext)    == [dirs |-> dirs, stem |-> stem, ext |-> ext, package |-> <<>>, types |-> {}]
Typed(dirs, stem, pkg)   == [File(dirs, stem, "java") EXCEPT !.package = pkg, !.types = {stem}]

Chosen(files, keep)      == SelectSeq(files, LAMBDA f : f \in keep)
Number(files, f)         == CHOOSE i \in DOMAIN files : files[i] = f
NoManifest               == [aliases |-> <<>>, goModule |-> <<>>]

PyFiles ==
    << File(<<"p">>, "__init__", "py"), File(<<"p">>, "a", "py"), File(<<"p">>, "q", "py"),
       File(<<"p", "q">>, "__init__", "py"), File(<<"p", "q">>, "a", "py"),
       File(<<"p", "q">>, "i", "py"), File(<<"r">>, "a", "py"), File(<<"r", "p">>, "a", "py") >>

ImportsOf(universe, from, fixed, statements, manifest) ==
    {[kind |-> "imports", files |-> Chosen(universe, keep), from |-> Number(Chosen(universe, keep), from),
      statements |-> s, manifest |-> manifest] :
        keep \in {k \in SUBSET Range(universe) : {from} \cup fixed \subseteq k}, s \in statements}

FromStatements ==
    {<<[statement |-> "from", dots |-> dots, module |-> module, names |-> names, star |-> names = <<>>]>> :
        dots \in 1..2, module \in {<<>>, <<"a">>, <<"q">>, <<"q", "a">>},
        names \in {<<>>, <<"a">>, <<"q", "fn">>}}

PythonJobs == ImportsOf(PyFiles, PyFiles[6], {PyFiles[7]}, FromStatements, NoManifest)

TsFiles ==
    << File(<<"s">>, "a", "js"), File(<<"s">>, "a", "tsx"), File(<<"s">>, "u", "ts"),
       File(<<"s", "a">>, "index", "ts"), File(<<"s", "u">>, "a", "ts"),
       File(<<"s", "u">>, "i", "ts"), File(<<"v", "s">>, "a", "ts") >>

RsFiles ==
    << File(<<"s">>, "x", "rs"), File(<<"s", "m">>, "mod", "rs"), File(<<"s", "m">>, "x", "rs"),
       File(<<"s", "m", "x">>, "mod", "rs"), File(<<"t", "s">>, "x", "rs") >>

JvFiles ==
    << Typed(<<"c">>, "Bar", <<"c">>), Typed(<<"c", "d">>, "Foo", <<"c", "d">>),
       Typed(<<"m", "c">>, "Bar", <<"c">>), Typed(<<"m", "c">>, "Foo", <<"c">>),
       Typed(<<"z">>, "Foo", <<"z", "c">>) >>

GoFiles ==
    << File(<<"p", "a">>, "b", "go"), File(<<"p", "a">>, "x_test", "go"), File(<<"p", "b">>, "m", "go"),
       File(<<"v", "p", "a">>, "b", "go") >>

ScriptStatements ==
    {<<[statement |-> "import", source |-> from, clauses |-> clauses],
       [statement |-> "export", source |-> from, clauses |-> {"namespace"}],
       [statement |-> "require", source |-> from, declares |-> clauses = {}]>> :
        clauses \in {{}, {"named"}, {"namespace"}},
        from \in {Relative(up, path) : up \in 0..1, path \in {<<"a">>, <<"u">>, <<"u", "a">>}}
                   \cup {Absolute(path) : path \in {<<"@", "a">>, <<"@", "u">>, <<"v", "s", "a">>}}}

Leaf(kind, path)   == [kind |-> kind, path |-> path]
Tree(path, trees)  == [kind |-> "list", path |-> path, trees |-> trees]

RustStatements ==
    {<<[statement |-> "mod", name |-> "x", body |-> body], [statement |-> "use", tree |-> tree]>> :
        body \in BOOLEAN,
        tree \in {Leaf("name", <<"crate", "x", "T">>), Leaf("wildcard", <<"super", "m">>),
                  Tree(<<"crate">>, <<Tree(<<"m">>, <<Leaf("as", <<"x">>), Leaf("wildcard", <<>>)>>),
                                      Leaf("name", <<"x", "f">>)>>),
                  Tree(<<>>, <<Leaf("name", <<"std", "fmt">>), Leaf("wildcard", <<"crate", "t", "s", "x">>)>>)}}

TypeStatements ==
    LET paths == {<<"c", "Bar">>, <<"c", "d", "Foo">>, <<"z", "c", "Foo">>}
    IN  {<<[statement |-> "java", path |-> p, static |-> FALSE, wildcard |-> w],
           [statement |-> "java", path |-> Append(p, "f"), static |-> TRUE, wildcard |-> w]>> :
            p \in paths, w \in BOOLEAN}
        \cup {<<[statement |-> "kotlin", path |-> p, alias |-> a, wildcard |-> ~a],
                [statement |-> "csharp", path |-> p, alias |-> a, static |-> ~a],
                [statement |-> "csharp", path |-> p, alias |-> FALSE, static |-> FALSE]>> :
                p \in paths, a \in BOOLEAN}
        \cup {<<[statement |-> "scala", path |-> Front(p), wildcard |-> FALSE, selectors |-> <<Last(p), "_">>],
                [statement |-> "scala", path |-> p, wildcard |-> w, selectors |-> <<>>]>> :
                p \in paths, w \in BOOLEAN}

GoStatements ==
    {<<[statement |-> "go", paths |-> paths]>> :
        paths \in {<<<<"m", "p", "a">>, <<"m", "p", "b">>>>, <<<<"fmt">>, <<"m">>, <<"m", "p", "a">>>>}}

Aliased == [NoManifest EXCEPT !.aliases = Aliases([baseUrl |-> <<>>,
    paths |-> <<[prefix |-> <<"#">>, targets |-> <<>>], [prefix |-> <<"@">>, targets |-> <<<<"s">>, <<"v">>>>]>>])]

PathJobs ==
    ImportsOf(TsFiles, TsFiles[6], {}, ScriptStatements, Aliased)
    \cup ImportsOf(RsFiles, RsFiles[2], {}, RustStatements, NoManifest)
    \cup ImportsOf(JvFiles, JvFiles[4], {}, TypeStatements, NoManifest)
    \cup ImportsOf(GoFiles, GoFiles[3], {}, GoStatements, [NoManifest EXCEPT !.goModule = <<"m">>])

MCJobs ==
    <<RerankJobs, SearchJobs, HybridJobs, RelatedJobs, ContextJobs, WordJobs, PythonJobs, PathJobs>>
    \o MC!PackageJobs

-----------------------------------------------------------------------------
(* Crates of a root and two modules; what each declares and re-exports.    *)
Item(name, public) == [kind |-> "item", name |-> name, public |-> public, methods |-> <<>>]

Struct == [kind |-> "type", name |-> "S", public |-> TRUE,
           methods |-> <<[name |-> "new", public |-> TRUE], [name |-> "own", public |-> FALSE]>>]

Foreign == [kind |-> "impl", name |-> "X", public |-> FALSE, methods |-> <<[name |-> "ext", public |-> TRUE]>>]

PubUse(path, glob, alias) == [path |-> path, glob |-> glob, alias |-> alias, public |-> TRUE]

Crate(rootUses, public, aDecls, aUses, bDecls, bUses) ==
    (<<"c">>      :> [decls |-> <<Struct>>, uses |-> rootUses,
                      mods |-> <<[name |-> "a", public |-> public], [name |-> "b", public |-> ~public]>>])
    @@ (<<"c", "a">> :> [decls |-> aDecls, uses |-> aUses, mods |-> <<>>])
    @@ (<<"c", "b">> :> [decls |-> bDecls, uses |-> bUses, mods |-> <<>>])

RootUses ==
    {PubUse(<<"a", "X">>, FALSE, ""), PubUse(<<"a">>, TRUE, ""), PubUse(<<"crate", "b", "X">>, FALSE, "Y"),
     PubUse(<<"self", "b">>, TRUE, ""), PubUse(<<"serde", "X">>, FALSE, ""),
     [PubUse(<<"a", "X">>, FALSE, "") EXCEPT !.public = FALSE]}

AUses ==
    {<<>>, <<PubUse(<<"super", "b", "X">>, FALSE, "")>>, <<PubUse(<<"crate", "b">>, TRUE, "")>>,
     <<PubUse(<<"super", "b", "Y">>, FALSE, "X"), PubUse(<<"super", "b">>, TRUE, "")>>}

Decls == {<<>>, <<Item("X", TRUE)>>, <<Item("X", FALSE), Foreign>>, <<Item("Y", TRUE)>>}

SomeUses == {<<u, v>> : u \in RootUses, v \in RootUses}

MCCrates ==
    {Crate(uses, public, a, aUses, b, <<>>) :
        uses \in SomeUses, public \in BOOLEAN, a \in Decls, aUses \in AUses, b \in Decls}

NoJobs == <<>>

(* The crates whose two modules re-export all of each other, as Rust lets  *)
(* them; what X the first has is a name of the second or an import of it.  *)
CyclicCrates ==
    {Crate(<<PubUse(<<"a", "X">>, FALSE, "")>>, TRUE, <<>>,
           <<PubUse(<<"serde", "X">>, FALSE, ""), PubUse(<<"super", "b">>, TRUE, "")>>, b,
           <<PubUse(<<"super", "a">>, TRUE, "")>>) : b \in Decls}
=============================================================================
