---------------------------- MODULE MCCollection ----------------------------
(* A feed with two items, and a source that is disabled in the environment. *)
EXTENDS Collection, TLC

CONSTANTS feed, off, i1, i2

MCOrder == <<feed, off>>
MCItemsOf == [s \in {feed, off} |-> IF s = feed THEN {i1, i2} ELSE {}]

(* The feed alone. *)
MCFeedOrder == <<feed>>
MCFeedItemsOf == [s \in {feed} |-> {i1, i2}]

(* Workers are interchangeable, and so are the items of the feed. *)
MCSymmetry == Permutations(Workers) \cup Permutations(Items)
=============================================================================
