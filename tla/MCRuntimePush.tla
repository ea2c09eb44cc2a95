---------------------------- MODULE MCRuntimePush ----------------------------
(* Three satellites of which the status holds two.  First, the elements of the second are dated too far ahead to
   be listed and the first has an older element set beside its latest; in the other feed the first has only the
   older one, and the second takes the place of the third. *)
EXTENDS RuntimePush

MCFirstFeed == {[sat |-> 1, age |-> 2], [sat |-> 1, age |-> 0], [sat |-> 2, age |-> -2], [sat |-> 3, age |-> 0]}
MCFeeds == {MCFirstFeed, {[sat |-> 1, age |-> 2], [sat |-> 2, age |-> 0], [sat |-> 3, age |-> 0]}}

MCFirstCell == [ref |-> TRUE, norad |-> 1, switch |-> 0]
MCCells == {MCFirstCell, [ref |-> TRUE, norad |-> 3, switch |-> 1], [ref |-> TRUE, norad |-> 0, switch |-> 1],
            [ref |-> FALSE, norad |-> 1, switch |-> 0]}
=============================================================================
