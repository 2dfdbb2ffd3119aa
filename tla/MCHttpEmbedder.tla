--------------------------- MODULE MCHttpEmbedder ---------------------------
(* HttpEmbedder for TLC: two good inputs and one the service refuses. *)
EXTENDS HttpEmbedder, TLC

CONSTANTS good1, good2, bad

Inputs3  == {good1, good2, bad}
JustBad  == {bad}

Both     == {"http", "ollama"}

=============================================================================
