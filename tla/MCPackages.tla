----------------------------- MODULE MCPackages -----------------------------
(* Small packages of each language, and small trees to find a package in.  *)
EXTENDS Integers, Sequences, FiniteSets, TLC

CONSTANTS MaxDepth, Underscored

Packages == INSTANCE PackageSurfaces

-----------------------------------------------------------------------------
(* TypeScript: a root, two files, a directory with an index, and beside    *)
(* one of the files its compiled form.                                     *)
RootTs == << <<"src">>, <<"index", "ts">> >>
ATs    == << <<"src">>, <<"a", "ts">> >>
AJs    == << <<"src">>, <<"a", "js">> >>
BTs    == << <<"src">>, <<"b">>, <<"index", "tsx">> >>
CTs    == << <<"src">>, <<"c", "d", "ts">> >>

To(up, path) == [form |-> "relative", up |-> up, path |-> path]
ToA    == To(0, << <<"a", "js">> >>)
ToB    == To(0, << <<"b">> >>)
ToC    == To(0, << <<"c">> >>)
React  == [form |-> "absolute", up |-> 0, path |-> << <<"react">> >>]

Class(name) == [name |-> name, kind |-> "class",
                members |-> <<[name |-> "run", public |-> TRUE], [name |-> "own", public |-> FALSE]>>]
Const(name) == [name |-> name, kind |-> "field", members |-> <<>>]

LocalEx(name)       == [form |-> "local", name |-> name]
DefaultEx(name)     == [form |-> "default", name |-> name]
Bind(name, alias)   == <<[name |-> name, alias |-> alias]>>
NamedEx(bs)         == [form |-> "named", bindings |-> bs]
NamedFrom(bs, from) == [form |-> "named_from", bindings |-> bs, from |-> from]
Star(from)          == [form |-> "star_from", from |-> from]
Namespace(ns, from) == [form |-> "namespace_from", ns |-> ns, from |-> from]

Holds(decls, exports) == [decls |-> decls, exports |-> exports]

RootExports ==
    {NamedFrom(Bind("x", ""), ToA), NamedFrom(Bind("Z", ""), ToA), NamedFrom(Bind("x", "w"), ToA), NamedFrom(Bind("Z", "x"), ToB),
     NamedFrom(Bind("default", "w"), ToA), Star(ToA), Star(ToB), Star(React), Namespace("ns", ToA),
     LocalEx("r"), DefaultEx("r"), NamedEx(Bind("r", "x"))}

SecondExports == {Star(ToA), Namespace("ns", ToA), LocalEx("r"), NamedFrom(Bind("Z", "x"), ToB)}

AFiles ==
    {Holds(<<Const("x"), Class("Z")>>, <<LocalEx("x"), LocalEx("Z")>>),
     Holds(<<Const("D")>>, <<DefaultEx("D"), Star(ToC)>>),
     Holds(<<Const("y")>>, <<NamedEx(Bind("y", "x")), Namespace("in", ToB)>>),
     Holds(<<>>, <<NamedFrom(Bind("y", "x"), ToB)>>),
     Holds(<<>>, <<Star(ToC), Star(ToB)>>)}

BFiles ==
    {Holds(<<Const("x"), Const("y"), Class("Z")>>, <<LocalEx("x"), LocalEx("y"), NamedEx(Bind("Z", ""))>>),
     Holds(<<Class("Z"), Const("x"), Const("y")>>, <<LocalEx("Z"), DefaultEx("y"), Star(To(1, << <<"a">> >>))>>),
     Holds(<<Class("Z")>>, <<LocalEx("Z"), Star(To(1, << <<"c">> >>))>>)}

CFiles == {Holds(<<Const("x"), Const("y")>>, <<LocalEx("y")>>), Holds(<<Const("x"), Const("y")>>, <<LocalEx("x"), LocalEx("y")>>)}

(* What is imported by name is there.                                      *)
Legal(tree) ==
    \A links \in {Packages!Links(tree)} : \A facts \in {Packages!ScriptFacts(tree, links, 3, FALSE)} :
    \A link \in links :
        link[2].form = "named_from" =>
            \A k \in DOMAIN link[2].bindings : \E g \in facts :
                g[1] = link[3] /\ g[2] = <<link[2].bindings[k].name>>

ScriptTrees ==
    {(RootTs :> Holds(<<Const("r")>>, <<ex1, ex2>>)) @@ (ATs :> a) @@ (AJs :> Holds(<<Const("x")>>, <<LocalEx("x")>>))
        @@ (BTs :> b) @@ (CTs :> c) : ex1 \in RootExports, ex2 \in SecondExports, a \in AFiles, b \in BFiles, c \in CFiles}

ScriptJobs == {[kind |-> "script", tree |-> t, root |-> RootTs] : t \in {s \in ScriptTrees : Legal(s)}}

-----------------------------------------------------------------------------
(* Python: a package with a module and a package, that with both again.    *)
PInit == << <<"p">>, <<"__init__", "py">> >>
PA    == << <<"p">>, <<"a", "py">> >>
SInit == << <<"p">>, <<"s">>, <<"__init__", "py">> >>
SB    == << <<"p">>, <<"s">>, <<"b", "py">> >>
TInit == << <<"p">>, <<"s">>, <<"t">>, <<"__init__", "py">> >>

As(name, alias)            == <<[name |-> name, alias |-> alias]>>
FromDots(dots, path, names) == [dots |-> dots, module |-> [i \in DOMAIN path |-> <<path[i]>>],
                               names |-> names, star |-> names = <<>>]
Module(decls, froms)       == [decls |-> decls, froms |-> froms, listed |-> FALSE, all |-> {}]
Listing(m, all)            == [m EXCEPT !.listed = TRUE, !.all = all]

RootFroms ==
    {FromDots(1, <<"a">>, As("x", "")), FromDots(1, <<"a">>, As("_h", "h")), FromDots(1, <<"a">>, <<>>),
     FromDots(1, <<>>, As("s", "")), FromDots(1, <<>>, As("x", "")), FromDots(1, <<"s">>, <<>>),
     FromDots(1, <<"s">>, As("x", "y")), FromDots(1, <<"s", "b">>, As("x", "")), FromDots(0, <<"re">>, As("x", ""))}

SecondFroms == {FromDots(1, <<"a">>, <<>>), FromDots(1, <<"s">>, <<>>), FromDots(1, <<>>, As("s", ""))}

AModules ==
    {Module(<<"x", "_h">>, <<>>), Module(<<"_h">>, <<FromDots(1, <<"s">>, As("y", "x"))>>),
     Module(<<>>, <<FromDots(1, <<"s", "t">>, As("x", "")), FromDots(1, <<"s", "t">>, As("x", "_h"))>>)}

SModules ==
    {Module(<<"x", "y", "_h">>, <<>>), Module(<<"y">>, <<FromDots(1, <<"b">>, As("x", "")), FromDots(1, <<>>, As("t", ""))>>),
     Listing(Module(<<"y", "_h">>, <<FromDots(1, <<"t">>, <<>>)>>), {"_h"}),
     Module(<<"y">>, <<FromDots(2, <<"a">>, As("_h", "x")), FromDots(1, <<>>, <<>>)>>)}

BModules == {Module(<<"x">>, <<>>), Module(<<>>, <<FromDots(1, <<"t">>, As("x", ""))>>)}
TModules == {Module(<<"x", "z">>, <<>>), Listing(Module(<<"x", "z">>, <<FromDots(2, <<>>, <<>>)>>), {"x"})}

PythonTrees ==
    {(PInit :> p) @@ (PA :> a) @@ (SInit :> s) @@ (SB :> b) @@ (TInit :> t) :
        p \in UNION {{Module(<<"r">>, <<f, g>>), Listing(Module(<<"r">>, <<f, g>>), {"x", "h"})} :
                         f \in RootFroms, g \in SecondFroms},
        a \in AModules, s \in SModules, b \in BModules, t \in TModules}

PythonPackages == {[kind |-> "python", tree |-> t, root |-> PInit] : t \in PythonTrees}

-----------------------------------------------------------------------------
(* Scala: two packages, one inside the other, and a file outside of both.  *)
Hold(kind, name, public, children) == [kind |-> kind, name |-> name, public |-> public, children |-> children]
Def(name, public)          == Hold("member", <<name>>, public, <<>>)
Object(name, public, children) == Hold("object", <<name>>, public, children)
Package(name, children)    == Hold("namespace", name, TRUE, children)

Export(from, name, alias)  == [from |-> from, bindings |-> As(name, alias), glob |-> FALSE]
ExportPath(from)           == [from |-> from, bindings |-> <<>>, glob |-> FALSE]
ExportAll(from)            == [from |-> from, bindings |-> <<>>, glob |-> TRUE]

ScalaExports ==
    {<<>>, <<ExportPath(<<"A", "f">>)>>, <<ExportAll(<<"A">>)>>, <<Export(<<"A">>, "g", "h"), Export(<<"A">>, "f", "A")>>,
     <<ExportAll(<<"q">>), ExportAll(<<"p", "q", "A">>)>>, <<Export(<<"q", "A">>, "f", "")>>, <<ExportPath(<<"A", "In", "i">>)>>}

InnerExports == {<<>>, <<ExportPath(<<"A", "f">>)>>, <<ExportAll(<<"q">>), ExportAll(<<"p", "q", "A">>)>>}

ScalaFile(package, decls, exports) == [package |-> package, decls |-> decls, exports |-> exports]

Objects ==
    {<<Object("A", TRUE, <<Def("f", TRUE), Def("g", FALSE)>>)>>, <<Object("A", FALSE, <<Def("f", TRUE)>>), Def("h", TRUE)>>,
     <<Object("A", TRUE, <<Object("In", TRUE, <<Def("i", TRUE)>>), Object("Own", FALSE, <<Def("f", TRUE)>>)>>), Def("f", TRUE)>>}

ScalaPackages ==
    {[kind |-> "scala",
      files |-> <<ScalaFile(<<"p">>, <<Package(<<"p">>, a)>>, ex), ScalaFile(<<"p", "q">>, <<Package(<<"p", "q">>, b)>>, ey),
                  ScalaFile(<<>>, c, ez)>>] :
        a \in Objects, b \in Objects, c \in Objects, ex \in ScalaExports, ey \in InnerExports,
        ez \in {<<>>, <<ExportPath(<<"p", "A">>)>>}}

-----------------------------------------------------------------------------
(* Entry points: every choice of some files below a directory.             *)
Json(form, path) == [form |-> form, path |-> path]
Fields(pairs)    == [form |-> "object", fields |-> [i \in DOMAIN pairs |-> [key |-> pairs[i][1], value |-> pairs[i][2]]]]

DistJs == << <<"dist">>, <<"index", "js">> >>
LibTs  == << <<"lib">>, <<"main", "ts">> >>
LibRs  == << <<"src">>, <<"lib", "rs">> >>
MCargo == << <<"m">>, <<"Cargo", "toml">> >>

ExportMaps ==
    {Json("none", <<>>), Json("string", DistJs),
     Fields(<< <<".", Fields(<< <<"import", Json("string", DistJs)>>, <<"types", Json("string", LibTs)>> >>)>>,
               <<"./feature", Json("string", LibTs)>> >>),
     Fields(<< <<"deno", Json("string", LibTs)>> >>),
     Fields(<< <<"deno", Json("none", <<>>)>>,
               <<"require", [form |-> "array", items |-> <<Json("none", <<>>), Json("string", DistJs)>>]>> >>)}

CargoOf(members, lib, bins) == [name |-> <<"c">>, lib |-> lib, bins |-> bins, members |-> members]

Manifest(name, kind, m) == (<< <<name, kind>> >> :> m)

Manifests ==
    {Manifest("Cargo", "toml", CargoOf(<<>>, <<>>, <<>>)),
     Manifest("Cargo", "toml", CargoOf(<<<<<<"m">>>>, <<<<"o">>>>>>, << <<"lib">>, <<"l", "rs">> >>,
                                       << <<>>, <<<<"src">>, <<"main", "rs">>>> >>)),
     Manifest("pyproject", "toml", [name |-> <<"py">>]), <<>>}

PackageManifests ==
    {Manifest("package", "json", [name |-> n, types |-> <<>>, module |-> <<>>, main |-> m, exports |-> ex]) :
        n \in {<<>>, <<"npm">>}, m \in {<<>>, DistJs}, ex \in ExportMaps}

Scripts == {<< <<"index", "js">> >>, << <<"src">>, <<"index", "ts">> >>, DistJs, << <<"dist">>, <<"index", "ts">> >>, LibTs}

Others == {LibRs, << <<"m">> >> \o LibRs, << <<"o">>, <<"__init__", "py">> >>, << <<"x", "scala">> >>, << <<"index", "js">> >>}

SourceFiles(files) == [p \in files |-> "source"]

EntryTrees ==
    {m @@ SourceFiles(files) : m \in PackageManifests, files \in SUBSET Scripts}
    \cup {m @@ n @@ SourceFiles(files) : m \in Manifests, files \in SUBSET Others,
              n \in {<<>>, MCargo :> CargoOf(<<>>, <<>>, <<>>)}}

EntryJobs ==
    UNION {{[kind |-> "entry", tree |-> t, path |-> p] :
                p \in {<<>>} \cup (IF Cardinality(DOMAIN t) < 4 THEN DOMAIN t ELSE {})} : t \in EntryTrees}

PackageJobs == <<ScriptJobs, PythonPackages, ScalaPackages, EntryJobs>>
=============================================================================
