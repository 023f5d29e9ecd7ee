---------------------------- MODULE MCKineWatch ----------------------------
(***************************************************************************)
(* KineWatch for TLC.  Watches do not touch each other except through      *)
(* Publish, which treats each alone, so one watch meets every case.        *)
(***************************************************************************)
EXTENDS KineWatch

\* What the watches depend on: no guard and no property of a watch reads where
\* the poll loop started and which revisions it has read (history).
WatchView ==
    <<storeVars, [poll EXCEPT !.from = 0], subs, watch, delivered>>
=============================================================================
