----------------------------- MODULE MCLifecycle ------------------------------
(***************************************************************************)
(* A small instance of Lifecycle for TLC: one server, one `npm run         *)
(* migrate` beside it, two files of one statement and of two, the last of  *)
(* which may be one that Postgres refuses.                                 *)
(***************************************************************************)
EXTENDS Lifecycle

MCStatements == <<1, 2>>
MCReplaceable == {<<2, 1>>}
MCDoubtful == {<<2, 2>>}
NoneDoubtful == {}
=============================================================================
