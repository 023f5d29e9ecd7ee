--------------------------- MODULE MCWatchStream ---------------------------
(***************************************************************************)
(* WatchStream for TLC, with the bounds of its cfg.                        *)
(***************************************************************************)
EXTENDS WatchStream
=============================================================================
