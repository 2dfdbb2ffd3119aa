----------------------------- MODULE MCCodeIndex -----------------------------
(* A small workspace for TLC: two code repositories with a file of the     *)
(* same name in each, one more file under a hidden directory, and one IDL  *)
(* repository.                                                             *)
EXTENDS CodeIndex, TLC

Index1 == <<"lib", "index.ts">>
App    == <<"lib", "services/app.py">>
Index2 == <<"web", "index.ts">>
Story  == <<"web", ".storybook/main.ts">>
MCFiles == {Index1, App, Index2, Story}

Decl(kind, name, parent, line) == [kind |-> kind, name |-> name, parent |-> parent, line |-> line]
Import(spec, kind) == [spec |-> spec, kind |-> kind]

(* Two versions of the library: the second moves a function, drops a type  *)
(* and gains the function that makes a name ambiguous.                     *)
LibOne == [decls |-> {Decl("function", "makeItem", None, 1), Decl("type", "Box", None, 2),
                      Decl("method", "openBox", "Box", 3)},
           words |-> {"makeItem", "Box", "openBox"}, calls |-> {}, imports |-> <<>>]
LibTwo == [decls |-> {Decl("function", "makeItem", None, 3), Decl("function", "openBox", None, 1),
                      Decl("function", "make", None, 5)},
           words |-> {"makeItem", "openBox"}, calls |-> {"makeItem"},
           imports |-> <<Import(<<".", "services/app.py">>, "bare")>>]

(* A server file that imports the library twice, in two ways.              *)
AppOne == [decls |-> {Decl("function", "main", None, 1), Decl("method", "openBox", None, 2)},
           words |-> {"main", "makeItem", "GetItem", "openBox"},
           calls |-> {"makeItem", "openBox"},
           imports |-> <<Import(<<".", "index.ts">>, "named"), Import(<<".", "index.ts">>, "star"),
                         Import(<<"org", "idl", "gen">>, "bare")>>]

(* A client in another repository.                                         *)
WebOne == [decls |-> {}, words |-> {"main", "makeItem", "GetItem"},
           calls |-> {"main", "makeItem", "GetItem"},
           imports |-> <<Import(<<"org", "lib", "sub">>, "named")>>]

(* A hidden file: only the dependency store learns what it imports.        *)
StoryOne == [decls |-> {}, words |-> {"makeItem"}, calls |-> {"makeItem"},
             imports |-> <<Import(<<".", "index.ts">>, "named"), Import(<<"react">>, "named")>>]

MCTextsOf  == Index1 :> {LibOne, LibTwo} @@ App :> {AppOne} @@ Index2 :> {WebOne} @@ Story :> {StoryOne}
MCAbsPath  == Index1 :> "/w/lib/index.ts" @@ App :> "/w/lib/services/app.py" @@ Index2 :> "/w/web/index.ts"
                @@ Story :> "/w/web/.storybook/main.ts"
MCRepos    == <<"lib", "web", "idl">>
MCIdl      == {<<"idl", "item.proto", "Items", "Items.GetItem">>}
MCShort    == "Items.GetItem" :> "GetItem"
MCPackages == <<[repo |-> "lib", name |-> <<"org", "lib">>, main |-> "index.ts", others |-> {}],
                [repo |-> "web", name |-> <<>>, main |-> None, others |-> {<<"org", "lib">>, <<"org", "lib", "x">>}]>>
MCAliases  == <<<<"idl", <<"org", "idl">>>>, <<"lib", <<"org">>>>>>
MCLinks    == {<<"web", "lib", "calls">>}
MCServer   == {App}
MCHidden   == {Story}
MCUntracked == {App}
MCWithin   == {<<"make", "makeItem">>}
MCShadows  == {<<"make", "makeItem">>}
MCStarts   == {<<"Items", "Items.GetItem">>}
=============================================================================
