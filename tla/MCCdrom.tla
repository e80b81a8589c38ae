------------------------------ MODULE MCCdrom ------------------------------
(* Two discs, one of them without a file system, and requests that fit,    *)
(* run over the end of a disc or ask for nothing.                          *)
EXTENDS Cdrom

MCMedia == { [id |-> "A", size |-> 3, iso |-> TRUE], [id |-> "B", size |-> 2, iso |-> FALSE] }
MCLbas == {0, 1}
MCCounts == {0, 1, 3}
=============================================================================
