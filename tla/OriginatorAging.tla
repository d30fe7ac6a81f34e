-------------------------- MODULE OriginatorAging --------------------------
(***************************************************************************)
(* What becomes of the originator database when the network falls silent:  *)
(* once no OGM has arrived for purge_to seconds, every originator has      *)
(* expired whenever purge_orig() looks at it.  The main loop keeps calling *)
(* purge_orig(), and each of its loops terminates.                         *)
(***************************************************************************)
EXTENDS MCOriginator

(* batman() calls purge_orig( batman_time, NULL ); all it meets has expired. *)
Ages == PurgeTimed \/ \E o \in Addr : PurgeOrig(o)

(* The loop of batman() calls purge_orig() about once a second, and the     *)
(* calls run to their end: weak fairness of Ages.                          *)
AgingSpec == Spec /\ WF_vars(Ages)

-----------------------------------------------------------------------------
(* "timeout in seconds for purging stale originators": once nothing is     *)
(* heard any more, every originator is eventually purged, with all it      *)
(* holds, whatever references primary interfaces have left behind.         *)
StaleOriginatorsPurged == <>[][Ages]_vars => <>[](db.known = {})

(* A node that changes its primary interface from 2 to 1 and back.          *)
SwappedOgms == { OgmOf(1, 1, a, 2), OgmOf(1, 1, a, NULL), OgmOf(2, 2, a, NULL),
                 OgmOf(2, 2, a, 1) }
=============================================================================
