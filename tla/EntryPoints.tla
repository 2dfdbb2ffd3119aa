---------------------------- MODULE EntryPoints ----------------------------
(***************************************************************************)
(* Where a surface starts: surface/entry_point.rs, and the manifests of    *)
(* surface/manifest.rs as they are parsed.  In the tree the manifests are  *)
(* records:                                                                *)
(*   Cargo.toml      name, lib, bins and members (paths; NoFile for none)  *)
(*   pyproject.toml  name                                                  *)
(*   package.json    name, types, module and main (paths), and exports, a  *)
(*                   JSON value: form "string" with path, "array" with     *)
(*                   items, "object" with fields, records with key and     *)
(*                   value in the order of the keys, or "none"             *)
(* A name is that of a file or directory, <<>> for none.  The order in     *)
(* which a directory is read is the file system's: an answer is the set of *)
(* the entry points that may be found.  No workspace is a member of        *)
(* itself, and a path that leads out of the tree is no file.               *)
(***************************************************************************)
EXTENDS SourceTree

At(kind, p, name) == [kind |-> kind, root |-> p, name |-> name, members |-> <<>>]
None              == At("none", NoFile, <<>>)
Basename(p)       == IF p = <<>> THEN <<"?">> ELSE Last(p)
Or(name, other)   == IF name # <<>> THEN name ELSE other

CargoToml     == <<"Cargo", "toml">>
PyprojectToml == <<"pyproject", "toml">>
PackageJson   == <<"package", "json">>
InitPy        == <<"__init__", "py">>

Has(tree, dir, name) == IsFile(tree, Append(dir, name))

ManifestName(tree, p) == IF IsFile(tree, p) THEN tree[p].name ELSE <<>>

Children(tree, dir) ==
    {Append(dir, f[Len(dir) + 1]) : f \in {g \in DOMAIN tree : IsStrictPrefix(dir, g)}}

-----------------------------------------------------------------------------
(* package.json: _resolve_conditional, _resolve_exports_root.              *)
Conditions == <<"types", "typescript", "import", "module", "default", "node", "require", "browser">>

IsSubpath(key) == key \in {".", "./feature"}

RECURSIVE ResolveConditional(_)
ResolveConditional(v) ==
    LET first(values) ==
            LET paths == SelectSeq([i \in DOMAIN values |-> ResolveConditional(values[i])], LAMBDA p : p # NoFile)
            IN  IF paths = <<>> THEN NoFile ELSE Head(paths)
        of(key)  == SelectSeq(v.fields, LAMBDA f : f.key = key)
        others   == SelectSeq(v.fields, LAMBDA f : f.key \notin Range(Conditions) /\ ~IsSubpath(f.key))
        ordered  == Each(Conditions, of) \o others
    IN  CASE v.form = "string" -> v.path
          [] v.form = "array"  -> first(v.items)
          [] v.form = "object" -> first([i \in DOMAIN ordered |-> ordered[i].value])
          [] v.form = "none"   -> NoFile

ResolveExportsRoot(v) ==
    LET dots == SelectSeq(v.fields, LAMBDA f : f.key = ".")
    IN  IF v.form = "array" THEN NoFile
        ELSE IF v.form = "object" /\ \E i \in DOMAIN v.fields : IsSubpath(v.fields[i].key)
        THEN IF dots = <<>> THEN NoFile ELSE ResolveConditional(dots[1].value)
        ELSE ResolveConditional(v)

(* _exists_with_source_pref: the source beside a compiled file, or beside  *)
(* a path that is no file.                                                 *)
SourceExts == << <<"ts">>, <<"tsx">>, <<"mts">>, <<"cts">> >>
ScriptExts == SourceExts \o << <<"js">>, <<"jsx">>, <<"mjs">>, <<"cjs">> >>

(* Mutant: only what is no file is looked for beside.                      *)
Compiled_Absent(p, there) == ~there
Compiled(p, there)        == ~there \/ Extension(p) \in {"js", "jsx", "mjs", "cjs"}

ExistsWithSource(tree, p) ==
    LET sources == [i \in DOMAIN SourceExts |-> WithExtension(p, SourceExts[i])]
        source  == IF Compiled(p, IsFile(tree, p)) THEN FirstFile(tree, sources) ELSE NoFile
    IN  IF source # NoFile THEN source
        ELSE IF IsFile(tree, p) THEN p ELSE NoFile

(* The files index.ts, index.tsx and so on, for each of some stems.        *)
IndexFiles(dir, stems, exts) ==
    Each(stems, LAMBDA s : [i \in DOMAIN exts |-> Append(dir \o Front(s), Last(s) \o exts[i])])

PlainStems == << <<<<"index">>>>, <<<<"main">>>> >>
Src(name)  == << <<"src">>, <<name>> >>

(* resolve_package_entry: of types, module and main the first there is.    *)
ResolvePackageEntry(tree, dir) ==
    LET pkg       == tree[Append(dir, PackageJson)]
        below(p)  == IF p = NoFile THEN NoFile ELSE ExistsWithSource(tree, dir \o p)
        hint      == Or(pkg.types, Or(pkg.module, pkg.main))
        index     == IndexFiles(dir, PlainStems \o <<Src("index")>>, ScriptExts \o << <<"d", "ts">> >>)
    IN  FirstFile(tree, <<below(ResolveExportsRoot(pkg.exports)), below(hint), FirstFile(tree, index)>>)

-----------------------------------------------------------------------------
(* discover_rust, _resolve_rust_root.  A workspace whose members are all   *)
(* without a root is taken for a crate.  A path that is not given is that  *)
(* of the directory, which is no file.                                     *)
ResolveRustRoot(tree, dir) ==
    LET m     == tree[Append(dir, CargoToml)]
        paths == << m.lib, <<<<"src">>, <<"lib", "rs">>>>, <<<<"src">>, <<"main", "rs">>>> >> \o m.bins
    IN  FirstFile(tree, [i \in DOMAIN paths |-> dir \o paths[i]])

RECURSIVE DiscoverRust(_, _)
DiscoverRust(tree, dir) ==
    LET m       == tree[Append(dir, CargoToml)]
        all     == [i \in DOMAIN m.members |-> DiscoverRust(tree, dir \o m.members[i])]
        members == SelectSeq(all, LAMBDA e : e # None)
        root    == ResolveRustRoot(tree, dir)
    IN  IF ~Has(tree, dir, CargoToml) THEN None
        ELSE IF members # <<>> THEN [None EXCEPT !.kind = "workspace", !.members = members]
        ELSE IF root # NoFile THEN At("rust", root, Or(m.name, Basename(dir)))
        ELSE None

(* discover_python: the directory, or one package directly in it.          *)
DiscoverPython(tree, dir) ==
    LET name  == ManifestName(tree, Append(dir, PyprojectToml))
        below == {c \in Children(tree, dir) : Has(tree, c, InitPy)}
        of(d) == At("python", Append(d, InitPy), Or(name, Basename(d)))
    IN  IF Has(tree, dir, InitPy) THEN {of(dir)}
        ELSE IF below # {} THEN {of(c) : c \in below}
        ELSE {None}

DiscoverTypescript(tree, dir) ==
    LET given == IF Has(tree, dir, PackageJson) THEN ResolvePackageEntry(tree, dir) ELSE NoFile
        index == FirstFile(tree, IndexFiles(dir, PlainStems \o <<Src("index"), Src("main")>>, ScriptExts))
    IN  IF given # NoFile
        THEN At("script", given, Or(ManifestName(tree, Append(dir, PackageJson)), Basename(dir)))
        ELSE IF index # NoFile THEN At("script", index, Basename(dir))
        ELSE None

-----------------------------------------------------------------------------
(* discover_file.                                                          *)
CrateName(tree, src) ==
    LET named == IF src = <<>> THEN <<>> ELSE ManifestName(tree, Append(Front(src), CargoToml))
    IN  Or(named, Basename(src))

DiscoverFile(tree, p) ==
    LET dir    == Front(p)
        name   == Last(p)
        script == At("script", p, Or(ManifestName(tree, Append(dir, PackageJson)), Basename(dir)))
    IN  CASE name \in {<<"lib", "rs">>, <<"main", "rs">>} -> {At("rust", p, CrateName(tree, dir))}
          [] name = InitPy        -> {At("python", p, Basename(dir))}
          [] name = CargoToml     -> {DiscoverRust(tree, dir)}
          [] name = PyprojectToml -> DiscoverPython(tree, dir)
          [] name = PackageJson   -> {DiscoverTypescript(tree, dir)}
          [] <<Extension(p)>> \in Range(ScriptExts) -> {script}
          [] Extension(p) = "scala" -> {At("scala", dir, Basename(dir))}
          [] OTHER -> {At("fallback", p, <<>>)}

(* discover_dir: what a directory says of itself, or else one with a       *)
(* manifest directly in it, or else all of its files.                      *)
HasManifest(tree, dir) ==
    Has(tree, dir, CargoToml) \/ Has(tree, dir, PyprojectToml) \/ Has(tree, dir, InitPy)

DiscoverManifest(tree, dir) ==
    IF Has(tree, dir, CargoToml) THEN {DiscoverRust(tree, dir)} ELSE DiscoverPython(tree, dir)

DiscoverDir(tree, dir) ==
    LET script  == Has(tree, dir, PackageJson) \/ FirstFile(tree, IndexFiles(dir, PlainStems, ScriptExts)) # NoFile
        scala   == \E c \in Children(tree, dir) : Extension(c) = "scala"
        nearest == {c \in Children(tree, dir) : HasManifest(tree, c)}
    IN  IF HasManifest(tree, dir) THEN DiscoverManifest(tree, dir)
        ELSE IF script THEN {DiscoverTypescript(tree, dir)}
        ELSE IF scala THEN {At("scala", dir, Basename(dir))}
        ELSE IF nearest # {} THEN UNION {DiscoverManifest(tree, c) : c \in nearest}
        ELSE {At("fallback", dir, <<>>)}

Discover(tree, p) == IF IsFile(tree, p) THEN DiscoverFile(tree, p) ELSE DiscoverDir(tree, p)
=============================================================================
