------------------------------ MODULE MCFeeds -------------------------------
(* Small instances of Feeds: one source whose connections bring up to three   *)
(* messages, so that one can be skipped, and one that repeats the first.      *)
EXTENDS Feeds

ThreeAndOne == [s \in Sources |-> IF s = "a" THEN 2 ELSE 0]
=============================================================================
