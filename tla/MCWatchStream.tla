--------------------------- MODULE MCWatchStream ---------------------------
(* Model checking of WatchStream; it needs no definitions of its own.       *)
EXTENDS WatchStream
=============================================================================
