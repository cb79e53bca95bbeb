---------------------------- MODULE MCRingBuffer ----------------------------
(* Thresholds for RingBuffer. *)
EXTENDS RingBuffer

CONSTANTS a, b, c, d, x, y

\* One thread blocks at the capacity, one for ever, one never.
MixedThresholds == [t \in DataPushers |-> CASE t = b -> 2
                                            [] t = c -> 0
                                            [] OTHER -> -1]
============================================================================
