------------------------------ MODULE MCPpcCore ------------------------------
(* Two segments of four pages of two addresses; groups of one entry, so that a
   second page with the same hash goes to the second group.  Code with the
   handler at 2, and where the last address lands when the second half is moved
   onto the first; one word of RAM at 8. *)
EXTENDS PpcCore, Bitwise, Sequences

MCHash(vsid, page) == (vsid ^^ page) % SegPages
Off == <<[vs |-> FALSE, vp |-> FALSE, bepi |-> 0, bl |-> 0, brpn |-> 0]>>
All == <<[vs |-> TRUE, vp |-> TRUE, bepi |-> 0, bl |-> 2, brpn |-> 0]>>
\* The second half onto the first for a supervisor, before everything else.
High == <<[vs |-> TRUE, vp |-> FALSE, bepi |-> 8, bl |-> 1, brpn |-> 0]>> \o All
MCBats == { [ibat |-> Off, dbat |-> Off], [ibat |-> All, dbat |-> All],
            [ibat |-> All, dbat |-> Off], [ibat |-> High, dbat |-> Off] }
MCModes == { {}, {"EE"}, {"IR", "DR"}, {"EE", "IR", "DR"} }
=============================================================================
