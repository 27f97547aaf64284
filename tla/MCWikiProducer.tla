---------------------------- MODULE MCWikiProducer ----------------------------
(* An instance of WikiProducer for TLC. *)
EXTENDS WikiProducer

\* More distinct ids than the cache holds, one of them sent twice, and both
\* kinds of line that are no event.
MCFeed == <<"a", Malformed, "b", "a", Blank, "c">>
=============================================================================
