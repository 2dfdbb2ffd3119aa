---------------------------- MODULE MCIndexFiles ----------------------------
(* Two files and two texts of one chunk each, but of two sizes, for two    *)
(* processes.                                                              *)
EXTENDS IndexFiles, TLC

MCTexts  == {"fn", "struct"}
MCSizeOf == "fn" :> 2 @@ "struct" :> 6
MCChunks == "fn" :> 1 @@ "struct" :> 1
=============================================================================
