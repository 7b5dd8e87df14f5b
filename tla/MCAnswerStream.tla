--------------------------- MODULE MCAnswerStream ---------------------------
(* Streams in which the model says up to three characters, in pieces of one or two. *)
EXTENDS AnswerStream
=============================================================================
