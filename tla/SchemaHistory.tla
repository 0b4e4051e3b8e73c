----------------------------- MODULE SchemaHistory -----------------------------
(***************************************************************************)
(* What migrate() promises of the schema, with none of the machinery: a    *)
(* file goes in at one instant, all its statements and its record, after   *)
(* the files before it and never to be taken back; one that has a          *)
(* statement the database refuses does not go in, nor do those after it.   *)
(* Migrations, with its runners that race, fail, die and begin again, is   *)
(* shown to implement this module, and so is Lifecycle, whose servers are  *)
(* such runners.                                                           *)
(***************************************************************************)
EXTENDS Integers

CONSTANTS
    Files,        \* how many files there are
    Statements    \* file |-> how many statements it has

VARIABLES
    schema,       \* what has been made: <<file, number of the statement>>
    recorded,     \* the files on record
    refused       \* the statements that the database refuses, now and for ever

Init == schema = {} /\ recorded = {}

\* The next file.
ApplyFile(f) ==
    /\ recorded = 1 .. (f - 1)
    /\ ({f} \X (1 .. Statements[f])) \cap refused = {}
    /\ schema' = schema \cup ({f} \X (1 .. Statements[f]))
    /\ recorded' = recorded \cup {f}
    /\ UNCHANGED refused

Next == \E f \in 1 .. Files : ApplyFile(f)

Spec == Init /\ [][Next]_<<schema, recorded, refused>>
=============================================================================
