---------------------------- MODULE SectorReader ----------------------------
(***************************************************************************)
(* What a drive promises: one request at a time, answered by its sectors   *)
(* in order, all of one medium.  A request may be dropped at any moment;   *)
(* a change of medium always drops it.                                     *)
(***************************************************************************)
EXTENDS Naturals, Sequences

CONSTANTS Media, NoMedium

VARIABLES
  medium,
  busy,     (* a request is open                                           *)
  request,  (* first sector and count, NoRequest when none is open         *)
  got,      (* what the buffer holds                                       *)
  complete  (* "the answer is whole" is on display                         *)

vars == <<medium, busy, request, got, complete>>

NoRequest == [lba |-> 0, count |-> 0]

Init ==
  /\ medium = NoMedium
  /\ ~busy /\ request = NoRequest
  /\ got = <<>>
  /\ complete = FALSE

Sector(m, lba) == <<m.id, lba>>

\* The sector that comes next, if the medium has it.
Upcoming == request.lba + Len(got)

Close == ~busy' /\ request' = NoRequest

Accept ==
  /\ ~busy /\ busy'
  /\ request' \in [lba : Nat, count : Nat]
  /\ got' = <<>> /\ complete' = FALSE
  /\ UNCHANGED medium

Deliver ==
  /\ busy
  /\ Upcoming < medium.size /\ Len(got) < request.count
  /\ got' = Append(got, Sector(medium, Upcoming))
  /\ IF Len(got') = request.count
     THEN Close /\ complete' = TRUE
     ELSE UNCHANGED <<busy, request, complete>>
  /\ UNCHANGED medium

Drop ==
  /\ busy /\ Close
  /\ UNCHANGED <<medium, got, complete>>

Swap ==
  /\ medium' \in Media \union {NoMedium}
  /\ Close
  /\ UNCHANGED <<got, complete>>

\* The buffer also serves directory listings.
List ==
  /\ Close
  /\ got' \in {<<>>} \union { <<<<"list", m.id, n.id>>>> : m, n \in Media }
  /\ UNCHANGED <<medium, complete>>

Next == Accept \/ Deliver \/ Drop \/ Swap \/ List

Spec == Init /\ [][Next]_vars
=============================================================================
