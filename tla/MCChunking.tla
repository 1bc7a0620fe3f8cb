------------------------------ MODULE MCChunking -----------------------------
(* Texts of the model-checking runs of Chunking. *)
EXTENDS Chunking

CONSTANT MaxLength

\* Every text of up to MaxLength characters.
AllTexts == UNION {[1 .. n -> Characters] : n \in 0 .. MaxLength}

==============================================================================
