--------------------------- MODULE MCSearchStore ---------------------------
(***************************************************************************)
(* Small instances of SearchStore.                                         *)
(***************************************************************************)
EXTENDS SearchStore, TLC

\* No `embedding:` block, or the local model spelled out.
PotionConfig == [provider |-> "potion", dim |-> 256]

\* An HTTP endpoint of the potion width, and one of a wider one.
RemoteConfig == [provider |-> "remote", dim |-> 256]
WideConfig   == [provider |-> "remote", dim |-> 1024]

\* A user moves from the local model to a wide remote one, or back.
AnyConfig   == {PotionConfig, RemoteConfig, WideConfig}
OnlyRemote  == {RemoteConfig}
OnlyWide    == {WideConfig}

WritersOnly == {"build", "update"}
Everything  == AllCommands

\* Repos, files, texts and processes are interchangeable.
Symmetry == Permutations(Repo) \cup Permutations(File) \cup Permutations(Text)
              \cup Permutations(Proc)

=============================================================================
