---------------------------- MODULE MCCdromInit ----------------------------
(* One disc with a file system, and enough polls for it to spin up. *)
EXTENDS CdromInit

MCMedia == { [id |-> "A", size |-> 3, iso |-> TRUE] }
MCLbas == {0}
MCCounts == {0}
=============================================================================
