---------------------------- MODULE MCCorpusLayout ----------------------------
(* Values for the constants of CorpusLayout. *)
EXTENDS CorpusLayout

CONSTANTS a, b, u, v
=============================================================================
