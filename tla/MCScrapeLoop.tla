--------------------------- MODULE MCScrapeLoop ---------------------------
(* ScrapeLoop for TLC with a short chain: two unripe distances are two     *)
(* blocks, so a head of six blocks gives states both near and far.         *)
EXTENDS ScrapeLoop
=============================================================================
