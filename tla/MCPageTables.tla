---------------------------- MODULE MCPageTables ----------------------------
(***************************************************************************)
(* PageTables for TLC.  The sizes are chosen so that a table without 1G    *)
(* pages needs a pool of two units, pools run out in every place where     *)
(* they can (also while the first and while a later pool of the ring is    *)
(* being protected), and memory as a whole runs out in some behaviours.    *)
(***************************************************************************)
EXTENDS PageTables

MCLapicPage == 5 * UnitPages + 3
MCRam == {0, 1, 2, 3, 4, 6, 8, 9}

=============================================================================
