---------------------------- MODULE MCModelCache ----------------------------
(* Two files, the tokenizer and the matrix, two versions, two processes.   *)
EXTENDS ModelCache

MCModelFiles == <<"tokenizer.json", "model.safetensors">>
=============================================================================
