----------------------------- MODULE MCSeqlock ------------------------------
(* Seqlock for TLC: two words, as a snapshot of two can already be torn.   *)
(* SeqMod is 6, so the sequence number wraps within the four attempts.     *)
EXTENDS Seqlock

CONSTANTS pos, stamp

MCWords == {pos, stamp}

=============================================================================
