--------------------------- MODULE MCSummaryLane ---------------------------
(***************************************************************************)
(* Small instances of SummaryLane.                                         *)
(***************************************************************************)
EXTENDS SummaryLane

CONSTANT t1

TheEmbedder == [name |-> "remote", dim |-> 1024]

Both == {"build", "update"}

\* Nothing is filtered; or a build leaves out a text of too few chunks.
Nothing == {}
OneText == {t1}

=============================================================================
