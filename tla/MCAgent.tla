------------------------------ MODULE MCAgent ------------------------------
(* An instance of Agent for TLC: a feed with two contents, one of them       *)
(* without a timestamp, and an update that names no feed.                    *)
EXTENDS Agent

CONSTANTS f1, d1, d2, w1

Input(f, d, t) == [feed_id |-> f, update |-> d, source_timestamp |-> t]
SomeInputs == {Input(f1, d1, 0), Input(f1, d2, 1), Input(NoFeed, d1, 0)}
=============================================================================
