---------------------------- MODULE MCDeltaFlush ----------------------------
(* The write buffer and flush for TLC.  With MaxBytes = 3 and              *)
(* MaxRecords = 2, two lines of size 1 fill a segment by count, one of     *)
(* size 2 leaves room for one of size 1 only, and one of size 4 is larger  *)
(* than a segment.                                                         *)
EXTENDS DeltaFlush

MCSizes == {1, 2, 4}
=============================================================================
