--------------------------- MODULE ScriptSurface ---------------------------
(***************************************************************************)
(* The public surface of a TypeScript or JavaScript package as             *)
(* surface/typescript.rs walks it.  A file of the tree has                 *)
(*   decls    what the adapter finds at its top level, exported or not: a  *)
(*            sequence of records with name, kind and members, a sequence  *)
(*            of records with name and public                              *)
(*   exports  what extract_ts_exports gives, a sequence of records with a  *)
(*            form: "local" and "default" with name; "named" with          *)
(*            bindings, records with name and alias ("" for none);         *)
(*            "named_from" with from and bindings; "star_from" with from;  *)
(*            "namespace_from" with ns and from                            *)
(* A specifier has form, up and path; up is not 0 only with a path.        *)
(*                                                                         *)
(* Whether an entry is listed already stops nothing but its listing, so    *)
(* the calls give what they offer, in order, and Surface lists it.  hops   *)
(* are the files of re_export_chain.                                       *)
(***************************************************************************)
EXTENDS SourceTree

CONSTANT MaxDepth      \* SurfaceOptions::max_depth

Exts ==
    << <<"ts">>, <<"tsx">>, <<"mts">>, <<"cts">>, <<"d", "ts">>, <<"js">>, <<"jsx">>, <<"mjs">>, <<"cjs">> >>

ProbeExtensions(tree, p) ==
    FirstFile(tree, <<p>> \o [i \in DOMAIN Exts |-> WithExtension(p, Exts[i])])

(* For ./x.js the source x.ts comes first.                                 *)
ResolveModule(tree, from, spec) ==
    LET base     == Ascend(Front(from), spec.up) \o spec.path
        stripped == IF Extension(base) \in {"js", "jsx", "mjs", "cjs"} THEN WithoutExtension(base) ELSE base
        index    == IF IsDir(tree, base) THEN ProbeExtensions(tree, Append(base, <<"index">>)) ELSE NoFile
    IN  IF spec.form # "relative" THEN NoFile
        ELSE FirstFile(tree, <<ProbeExtensions(tree, stripped), ProbeExtensions(tree, base), index>>)

Named(decls, name) == SelectSeq(decls, LAMBDA d : d.name = name)

Exposed(b) == IF b.alias = "" THEN b.name ELSE b.alias

-----------------------------------------------------------------------------
(* An offer of the first declaration of a name, when a file has one.       *)
Offer(tree, file, name, prefix, exposed, hops, glob) ==
    LET found == Named(tree[file].decls, name)
    IN  IF found = <<>> THEN <<>>
        ELSE << [path |-> Append(prefix, exposed), decl |-> Head(found),
                 file |-> file, hops |-> hops, glob |-> glob] >>

(* Steps 1 and 2 of walk_file: a default export goes by its own name.      *)
InlineNames(exports) == {ex.name : ex \in {x \in Range(exports) : x.form \in {"local", "default"}}}

OwnOffers(tree, file, prefix) ==
    LET decls   == SelectSeq(tree[file].decls, LAMBDA d : d.name \in InlineNames(tree[file].exports))
        renamed(ex) == IF ex.form # "named" THEN <<>>
                       ELSE Each(ex.bindings, LAMBDA b : Offer(tree, file, b.name, prefix, Exposed(b), <<>>, FALSE))
    IN  Each(decls, LAMBDA d : Offer(tree, file, d.name, prefix, d.name, <<>>, FALSE))
        \o Each(tree[file].exports, renamed)

(* The first part of _follow_star: what a file exports itself.             *)
StarOffers(tree, file, prefix, hops, skipDefault) ==
    LET offers(ex) ==
            CASE ex.form = "local"   -> Offer(tree, file, ex.name, prefix, ex.name, hops, TRUE)
              [] ex.form = "default" -> IF skipDefault THEN <<>>
                                        ELSE Offer(tree, file, ex.name, prefix, "default", hops, TRUE)
              [] ex.form = "named"   ->
                    Each(ex.bindings, LAMBDA b : Offer(tree, file, b.name, prefix, Exposed(b), hops, TRUE))
              [] OTHER -> <<>>
    IN  Each(tree[file].exports, offers)

(* _chase_indirect: the exports of a file that may bring a name, in order. *)
(* A binding of the name ends the search, and so does a starred file that  *)
(* declares it; other starred files are searched as deep as they go.       *)
RECURSIVE FollowNamed(_, _, _, _, _, _), ChaseIndirect(_, _, _, _, _, _, _, _)
ChaseIndirect(tree, file, exports, prefix, name, exposed, depth, hops) ==
    IF exports = <<>> THEN <<>>
    ELSE LET ex     == Head(exports)
             target == IF ex.form \in {"named_from", "star_from"} THEN ResolveModule(tree, file, ex.from) ELSE NoFile
             next   == Append(hops, file)
             hits   == IF ex.form = "named_from"
                       THEN SelectSeq(ex.bindings, LAMBDA b : Exposed(b) = name) ELSE <<>>
             rest   == ChaseIndirect(tree, file, Tail(exports), prefix, name, exposed, depth, hops)
         IN  CASE target = NoFile \/ (ex.form = "named_from" /\ hits = <<>>) -> rest
               [] target # NoFile /\ hits # <<>> ->
                    FollowNamed(tree, target, prefix, <<[name |-> hits[1].name, alias |-> exposed]>>, depth + 1, next)
               [] target # NoFile /\ ex.form = "star_from" ->
                    IF Named(tree[target].decls, name) # <<>>
                    THEN Offer(tree, target, name, prefix, exposed, next, TRUE)
                    ELSE ChaseIndirect(tree, target, tree[target].exports, prefix, name, exposed, depth + 1, next)
                         \o rest

FollowNamed(tree, file, prefix, bindings, depth, hops) ==
    LET follow(b) ==
            IF Named(tree[file].decls, b.name) # <<>>
            THEN Offer(tree, file, b.name, prefix, Exposed(b), hops, FALSE)
            ELSE ChaseIndirect(tree, file, tree[file].exports, prefix, b.name, Exposed(b), depth, hops)
    IN  IF depth > MaxDepth THEN <<>> ELSE Each(bindings, follow)

(* Step 3 of walk_file and the second part of _follow_star: the exports    *)
(* of a file from other files.  `export *` leaves the default out.         *)
(* Mutant: it does not.                                                    *)
SkipsDefault_Never(ex) == FALSE
SkipsDefault(ex)       == ex.form = "star_from"

RECURSIVE Reexports(_, _, _, _, _)
FollowStar(tree, file, prefix, depth, hops, skipDefault) ==
    IF depth > MaxDepth THEN <<>>
    ELSE StarOffers(tree, file, prefix, hops, skipDefault) \o Reexports(tree, file, prefix, depth, hops)

Reexports(tree, file, prefix, depth, hops) ==
    LET follow(ex) ==
            LET target == IF ex.form \in {"named_from", "star_from", "namespace_from"}
                          THEN ResolveModule(tree, file, ex.from) ELSE NoFile
                below  == IF ex.form = "namespace_from" THEN Append(prefix, ex.ns) ELSE prefix
            IN  CASE target = NoFile -> <<>>
                  [] target # NoFile /\ ex.form = "named_from" ->
                        FollowNamed(tree, target, prefix, ex.bindings, depth + 1, Append(hops, file))
                  [] target # NoFile /\ ex.form # "named_from" ->
                        FollowStar(tree, target, below, depth + 1, Append(hops, file), SkipsDefault(ex))
    IN  Each(tree[file].exports, follow)

WalkFile(tree, file, prefix) == OwnOffers(tree, file, prefix) \o Reexports(tree, file, prefix, 0, <<>>)

-----------------------------------------------------------------------------
(* _emit: the first offer of a path is listed, and with a class, interface *)
(* or enum its members that are not private or protected.                  *)
Emit(entries, offer) ==
    LET d        == offer.decl
        entry(path, source) == [path |-> path, source |-> <<offer.file>> \o source,
                                hops |-> offer.hops, glob |-> offer.glob]
        members  == IF d.kind \in {"class", "interface", "enum"}
                    THEN SelectSeq(d.members, LAMBDA c : c.public) ELSE <<>>
    IN  IF Listed(entries, offer.path) THEN entries
        ELSE FoldLeft(LAMBDA es, c : Publish(es, entry(Append(offer.path, c.name), <<d.name, c.name>>)),
                      Append(entries, entry(offer.path, <<d.name>>)), members)

ScriptEntries(tree, root, package) == FoldLeft(Emit, <<>>, WalkFile(tree, root, <<package>>))
=============================================================================
