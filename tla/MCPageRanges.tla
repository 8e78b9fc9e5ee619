---------------------------- MODULE MCPageRanges ----------------------------
(* Four pages in one range, for the waiters and the reclaimer of PageRanges. *)
EXTENDS PageRanges

OneChunk == {page_range(0, 4)}
=============================================================================
