-------------------------- MODULE PackageSurfaces --------------------------
(***************************************************************************)
(* What the surfaces of TypeScript, Python and Scala packages and the      *)
(* choice of an entry point promise, each against the language's own rule  *)
(* for what a file makes visible.  A fact of a file is a name or path that *)
(* it makes visible and the declaration that is meant.                     *)
(***************************************************************************)
EXTENDS SourceTree

CONSTANTS MaxDepth, Underscored

Script == INSTANCE ScriptSurface
Python == INSTANCE PythonSurface
Scala  == INSTANCE ScalaSurface
Entry  == INSTANCE EntryPoints

NoTwoAlike(entries) == \A i, k \in DOMAIN entries : entries[i].path = entries[k].path => i = k

-----------------------------------------------------------------------------
(* TypeScript.  A fact is <<file, path, <<file, name>>, plain>>: plain     *)
(* unless the file of the declaration gives it another name.               *)
Own(tree, f) ==
    LET declares(n) == \E d \in Range(tree[f].decls) : d.name = n
        of(ex) ==
            CASE ex.form = "local"   -> {<<f, <<ex.name>>, <<f, ex.name>>, TRUE>>}
              [] ex.form = "default" -> {<<f, <<"default">>, <<f, ex.name>>, FALSE>>}
              [] ex.form = "named"   -> {<<f, <<Script!Exposed(b)>>, <<f, b.name>>, Script!Exposed(b) = b.name>> :
                                            b \in Range(ex.bindings)}
              [] OTHER -> {}
    IN  {g \in UNION {of(ex) : ex \in Range(tree[f].exports)} : declares(g[3][2])}

(* The names a file gives itself, which those of a star do not replace.    *)
Explicit(tree, f) ==
    UNION {CASE ex.form = "local" -> {ex.name}
             [] ex.form \in {"named", "named_from"} -> {Script!Exposed(b) : b \in Range(ex.bindings)}
             [] ex.form = "namespace_from" -> {ex.ns}
             [] OTHER -> {} : ex \in Range(tree[f].exports)}

(* A link is a file, what it re-exports, and the file that this leads to.  *)
Links(tree) ==
    UNION {{<<f, ex, Script!ResolveModule(tree, f, ex.from)>> :
               ex \in {x \in Range(tree[f].exports) : x.form \in {"named_from", "star_from", "namespace_from"}}} :
           f \in DOMAIN tree}

Over(facts, link, replaced) ==
    LET f     == link[1]
        ex    == link[2]
        there == {g \in facts : g[1] = link[3]}
    IN  CASE ex.form = "named_from" ->
                UNION {{<<f, <<Script!Exposed(b)>>, g[3], g[4]>> : g \in {h \in there : h[2] = <<b.name>>}} :
                           b \in Range(ex.bindings)}
          [] ex.form = "star_from" ->
                {<<f, g[2], g[3], g[4]>> : g \in {h \in there : h[2] # <<"default">> /\ h[2][1] \notin replaced}}
          [] ex.form = "namespace_from" -> {<<f, <<ex.ns>> \o g[2], g[3], g[4]>> : g \in there}

(* In at most so many steps from file to file; with `strict` a file's own  *)
(* names replace those of its stars.                                       *)
ScriptFacts(tree, links, steps, strict) ==
    LET replaced(f) == IF strict THEN Explicit(tree, f) ELSE {}
        step(facts) == UNION {Over(facts, link, replaced(link[1])) : link \in links}
    IN  Grown(step, UNION {Own(tree, f) : f \in DOMAIN tree}, steps)

(* A compiled file, and the source it is made of beside it.                *)
HasSource(tree, p) ==
    /\ Extension(p) \in {"js", "jsx", "mjs", "cjs"}
    /\ \E ext \in {"ts", "tsx", "mts", "cts"} : IsFile(tree, WithExtension(p, <<ext>>))

(* Every path listed is one that the package makes visible, a default at   *)
(* the root by its own name; what is listed there is what the path means,  *)
(* unless it is a declaration that its own file does not export and that   *)
(* hides the one meant, and of no compiled file with its source beside it; *)
(* the hops are files that re-export one from the                          *)
(* other; and no name that is made visible within the depth is missed but  *)
(* one that was renamed where it is declared.                              *)
ScriptExact(j) ==
    LET tree    == j.tree
        Means(g, path) == g[2] = path \/ (g[2] = <<"default">> /\ path = <<g[3][2]>>)
    IN  \A entries \in {Script!ScriptEntries(tree, j.root, "p")}, links \in {Links(tree)} :
        \A facts \in {{g \in ScriptFacts(tree, links, Cardinality(DOMAIN tree), FALSE) : g[1] = j.root}} :
        /\ NoTwoAlike(entries)
        /\ \A e \in Range(entries) :
            IF Len(e.source) = 3
            THEN /\ \E c \in Range(entries) : c.path = Front(e.path) /\ c.source = Front(e.source)
                 /\ \E d \in Range(tree[e.source[1]].decls) :
                        d.name = e.source[2] /\ [name |-> e.source[3], public |-> TRUE] \in Range(d.members)
            ELSE /\ \E g \in facts : Means(g, Tail(e.path))
                 /\ (\E ex \in Range(tree[e.source[1]].exports) : ex.form = "local" /\ ex.name = e.source[2])
                    => \E g \in facts : Means(g, Tail(e.path)) /\ g[3] = e.source
        /\ \A e \in Range(entries) : ~HasSource(tree, e.source[1])
        /\ \A e \in Range(entries) :
            LET hops == Append(e.hops, e.source[1])
            IN  hops[1] = j.root /\ \A i \in DOMAIN e.hops :
                    \E link \in links : link[1] = hops[i] /\ link[3] = hops[i + 1]
        /\ \A g \in ScriptFacts(tree, links, MaxDepth, TRUE) :
            g[1] = j.root /\ g[4] => Listed(entries, <<"p">> \o g[2])

-----------------------------------------------------------------------------
(* Python.  The module that an import means; the names a file imports by   *)
(* name from a module, and through a star from a package.                  *)
Base(f, from) == SubSeq(f, 1, Len(f) - from.dots) \o from.module

ModuleFiles(tree, f, from) ==
    IF from.dots \notin 1..Len(f) THEN {}
    ELSE {Python!InitFile(Base(f, from)), WithExtension(Base(f, from), <<"py">>)} \cap DOMAIN tree

IsPublic(tree, f, name) ==
    IF tree[f].listed THEN name \in tree[f].all ELSE name \notin Underscored

Imported(tree, facts, f, from, stars) ==
    LET there == {g \in facts : g[1] \in ModuleFiles(tree, f, from)}
    IN  IF from.star
        THEN {<<f, g[2], g[3]>> : g \in {h \in there : stars /\ IsPublic(tree, h[1], h[2])}}
        ELSE UNION {{<<f, Python!Exposed(n), g[3]>> : g \in {h \in there : h[2] = n.name}} : n \in Range(from.names)}

PythonFacts(tree, stars) ==
    LET declared == UNION {{<<f, d, <<f, d>>>> : d \in Range(tree[f].decls)} : f \in DOMAIN tree}
        step(facts) == UNION {UNION {Imported(tree, facts, f, from, stars) : from \in Range(tree[f].froms)} :
                                  f \in DOMAIN tree}
    IN  Grown(step, declared, Cardinality(DOMAIN tree))

(* The packages that an import names, or imports a name from, whole.       *)
Opened(tree) ==
    {p \in DOMAIN tree : Python!IsInit(p) /\ \E f \in DOMAIN tree : \E from \in Range(tree[f].froms) :
        /\ from.module = <<>> /\ from.dots \in 1..Len(f)
        /\ \E n \in Range(from.names) :
            p \in {Python!InitFile(Base(f, from)), Python!InitFile(Append(Base(f, from), <<n.name>>))}}

(* A name imported from a module beside which a file has the name too.     *)
Ambiguous(tree) ==
    \E f \in DOMAIN tree : \E from \in Range(tree[f].froms) :
        /\ from.dots \in 1..Len(f)
        /\ \/ from.module = <<>> /\ ~from.star
           \/ Cardinality(ModuleFiles(tree, f, from)) > 1
           \/ \E n \in Range(from.names) : \E p \in DOMAIN tree :
                 LET base == Base(f, from)
                 IN  IsStrictPrefix(base, p) /\ p[Len(base) + 1][1] = n.name

(* Every name listed is one that the package has, and means what it means  *)
(* there, or is of a package that is imported whole; a name that is not    *)
(* public is listed only through a star; and no public name of the package *)
(* or of one that it stars is missed that leads through imports by name to *)
(* a declaration, where no file of that name is in the way.                *)
PythonExact(j) ==
    LET tree    == j.tree
        Starred == UNION {ModuleFiles(tree, j.root, from) : from \in {x \in Range(tree[j.root].froms) : x.star}}
        Public(n) == IsPublic(tree, j.root, n)
    IN  \A entries \in {Python!PythonEntries(tree, j.root, "p")}, facts \in {PythonFacts(tree, TRUE)} :
        /\ NoTwoAlike(entries)
        /\ \A e \in Range(entries) :
            /\ \/ e.path[1] = "p" /\ Len(e.path) = 2 /\ <<j.root, e.path[2], e.source>> \in facts
               \/ e.source[1] \in Opened(tree) /\ Last(e.path) = e.source[2]
                  /\ IsPublic(tree, e.source[1], e.source[2])
            /\ Len(e.path) = 2 /\ ~e.glob => Public(e.path[2])
        /\ ~Ambiguous(tree) =>
            \A g \in PythonFacts(tree, FALSE) :
                g[1] \in {j.root} \cup {f \in Starred : Python!IsInit(f)} /\ IsPublic(tree, g[1], g[2]) =>
                    Listed(entries, <<"p", g[2]>>)

-----------------------------------------------------------------------------
(* Scala.  A nest is a file and the declarations that lead to one in it.   *)
Nests(files) ==
    LET nests[n \in 1..4] ==
            IF n = 1 THEN UNION {{<<i, <<d>>>> : d \in Range(files[i].decls)} : i \in DOMAIN files}
            ELSE UNION {{<<c[1], Append(c[2], d)>> : d \in Range(Last(c[2]).children)} : c \in nests[n - 1]}
    IN  UNION {nests[n] : n \in DOMAIN nests}

(* Those that are public all the way, packages aside.                      *)
PublicNests(files) ==
    {c \in Nests(files) :
        /\ Last(c[2]).kind # "namespace"
        /\ \A d \in Range(c[2])        : d.kind = "namespace" \/ d.public
        /\ \A d \in Range(Front(c[2])) : d.kind # "member"}

Qualified(files, c) ==
    LET names == SelectSeq(c[2], LAMBDA d : d.kind # "namespace")
        home  == IF c[2][1].kind = "namespace" THEN c[2][1].name ELSE files[c[1]].package
    IN  home \o Each(names, LAMBDA d : d.name)

(* What a path may mean inside a package: it may start in the package, in  *)
(* one around it, or at the root.                                          *)
Readings(path, package) == {SubSeq(package, 1, n) \o path : n \in 0..Len(package)}

(* A public declaration is listed by its qualified name; another entry is  *)
(* one that an export clause of a package makes of a public declaration    *)
(* that the clause may mean; and no clause that means one is without it.   *)
ScalaExact(j) ==
    LET files   == j.files
        selected == UNION {UNION {{<<f.package, b>> : b \in Range(Scala!Bindings(ex))} :
                               ex \in {x \in Range(f.exports) : ~x.glob}} : f \in Range(files)}
        globs    == UNION {{<<f.package, ex.from>> : ex \in {x \in Range(f.exports) : x.glob}} : f \in Range(files)}
        Reads(s) == Readings(Append(s[2].from, s[2].name), s[1])
    IN  \A entries \in {Scala!ScalaEntries(files)},
           public  \in {{Qualified(files, c) : c \in PublicNests(files)}} :
        LET Shown(path) == \E e \in entries : e.path = path
            Held(q)     == {Last(p) : p \in {x \in public : Len(x) > 0 /\ Front(x) = q}}
        IN
        /\ \A e, f \in entries : e.path = f.path => e = f
        /\ \A p \in public : \E e \in entries : e.path = p /\ e.source = p
        /\ \A e \in entries :
            /\ \E c \in PublicNests(files) : Qualified(files, c) = e.source /\ c[1] = e.file
            /\ \/ e.path = e.source
               \/ \E s \in selected : e.path = Append(s[1], s[2].alias) /\ e.source \in Reads(s)
               \/ \E g \in globs : e.path = Append(g[1], Last(e.source)) /\ Front(e.source) \in Readings(g[2], g[1])
        /\ \A s \in selected : Reads(s) \cap public # {} => Shown(Append(s[1], s[2].alias))
        /\ \A g \in globs :
            (\E q \in Readings(g[2], g[1]) : Held(q) # {}) =>
                \E q \in Readings(g[2], g[1]) : Held(q) # {} /\ \A n \in Held(q) : Shown(Append(g[1], n))

-----------------------------------------------------------------------------
(* The paths that a JSON value of exports says, those of its types if it   *)
(* has any, and what may be meant.                                         *)
RECURSIVE Offered(_)
Offered(v) ==
    CASE v.form = "string" -> {v.path}
      [] v.form = "array"  -> UNION {Offered(i) : i \in Range(v.items)}
      [] v.form = "object" ->
            LET of(keys) == UNION {Offered(f.value) : f \in {x \in Range(v.fields) : x.key \in keys}}
            IN  IF of({"types"}) # {} THEN of({"types"})
                ELSE of({f.key : f \in Range(v.fields)} \ {"./feature"})
      [] v.form = "none"   -> {}

Beside(p) == {p} \cup {WithExtension(p, <<ext>>) : ext \in {"ts", "tsx", "mts", "cts"}}

(* Entry points: an entry is a file of its language; a script that a       *)
(* directory leads to is no compiled file with its source beside it; every *)
(* member of a workspace with a library is one of its crates, and none is  *)
(* without a root; a package starts where its exports say, when all that   *)
(* they say is there; and only a directory with no manifest, in it or one  *)
(* level below, is walked whole.                                           *)
EntryExact(j) ==
    LET tree == j.tree
        Found(e) == IF e.kind = "workspace" THEN Range(e.members) ELSE {e}
        RootExact(e) ==
            CASE e.kind = "rust"   -> IsFile(tree, e.root) /\ Extension(e.root) = "rs"
              [] e.kind = "python" -> IsFile(tree, e.root) /\ Python!IsInit(e.root)
              [] e.kind = "script" ->
                    /\ IsFile(tree, e.root) /\ <<Extension(e.root)>> \in Range(Entry!ScriptExts)
                    /\ ~IsFile(tree, j.path) => ~HasSource(tree, e.root)
                    /\ ~IsFile(tree, j.path) /\ Entry!Has(tree, j.path, Entry!PackageJson) =>
                        \A offers \in {Offered(tree[Append(j.path, Entry!PackageJson)].exports)} :
                            offers # {} /\ offers \subseteq DOMAIN tree => e.root \in UNION {Beside(p) : p \in offers}
              [] e.kind = "scala"  -> \E f \in DOMAIN tree : IsStrictPrefix(e.root, f) /\ Extension(f) = "scala"
              [] OTHER -> e.kind \in {"none", "fallback"}
        Library(m)  == Append(j.path \o m, <<"src">>) \o << <<"lib", "rs">> >>
    IN  \A e \in Entry!Discover(tree, j.path) :
        /\ \A c \in Found(e) : RootExact(c) /\ (e.kind = "workspace" => c.kind = "rust")
        /\ Entry!Has(tree, j.path, Entry!CargoToml) =>
            \A m \in Range(tree[Append(j.path, Entry!CargoToml)].members) :
                Entry!Has(tree, j.path \o m, Entry!CargoToml) /\ IsFile(tree, Library(m)) =>
                    \E c \in Found(e) : c.kind = "rust" /\ IsPrefix(j.path \o m, c.root)
        /\ e.kind = "fallback" /\ ~IsFile(tree, j.path) =>
            \A d \in {j.path} \cup Entry!Children(tree, j.path) :
                ~Entry!HasManifest(tree, d) /\ (d = j.path => ~Entry!Has(tree, d, Entry!PackageJson))

(* surface/typescript.rs, python.rs, scala.rs, entry_point.rs, manifest.rs *)
PackageExact(j) ==
    /\ j.kind = "script" => ScriptExact(j)
    /\ j.kind = "python" => PythonExact(j)
    /\ j.kind = "scala"  => ScalaExact(j)
    /\ j.kind = "entry"  => EntryExact(j)
=============================================================================
