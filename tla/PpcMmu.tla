-------------------------------- MODULE PpcMmu --------------------------------
(***************************************************************************)
(* translate of src/cpu/ppc603e.rs: block address translation first, then  *)
(* the hashed page table.  Addresses are natural numbers; an address is a  *)
(* segment, a page of it and an offset.                                    *)
(***************************************************************************)
EXTENDS Naturals, FiniteSetsExt

CONSTANTS
  PageSize,      (* addresses in a page (4096)                             *)
  SegPages,      (* pages in a segment (65536)                             *)
  ApiPages,      (* pages in a segment that share their api (1024)         *)
  Segments,      (* segment registers (16)                                 *)
  MinBlock,      (* the smallest block (2^17)                              *)
  Slots,         (* entries in a group of the page table (1..8)            *)
  Hash(_, _)     (* vsid ^ page, 16 bits of it                             *)

ASSUME MmuAssumption ==
  /\ {PageSize, SegPages, ApiPages, Segments, MinBlock} \subseteq Nat \ {0}
  /\ Slots \subseteq Nat

SegSize == PageSize * SegPages
AddrSpace == SegSize * Segments
Addresses == 0..(AddrSpace - 1)
Groups == 0..(SegPages - 1)

Segment(a) == a \div SegSize
Page(a) == (a \div PageSize) % SegPages
Api(page) == page \div ApiPages

Fault == AddrSpace   (* no address *)

\* The bits of an upper BAT: Vs and Vp, whichever the mode asks for.
Valid(bat, user) == IF user THEN bat.vp ELSE bat.vs

\* A length that reaches the whole space covers everything.
BlockSize(bat) == Min({MinBlock * 2 ^ bat.bl, AddrSpace})

Covers(bat, a) == a \div BlockSize(bat) = bat.bepi \div BlockSize(bat)

Moved(bat, a) == (bat.brpn - (bat.brpn % BlockSize(bat))) + (a % BlockSize(bat))

\* An entry is valid when its lowest bit is set, which is the lowest bit of
\* its api too.
Present(pte) == pte.api % 2 = 1

\* Mutant: the segment identifier is not compared.
MatchesAnySegment(pte, vsid, page, second) == Present(pte) /\ pte.api = Api(page) /\ pte.second = second

Matches(pte, vsid, page, second) ==
  Present(pte) /\ pte.vsid = vsid /\ pte.api = Api(page) /\ pte.second = second

\* hash2 is the complement of hash1.
SecondGroup(vsid, page) == (SegPages - 1) - Hash(vsid, page)

\* The frames in the entries of a group that match, first slot first.
Found(table, vsid, page, second) ==
  LET g == IF second THEN SecondGroup(vsid, page) ELSE Hash(vsid, page)
      hits == { s \in Slots : Matches(table[g][s], vsid, page, second) }
  IN  IF hits = {} THEN {} ELSE {table[g][Min(hits)].rpn}

\* The walk reads the table in memory; with SDR1 at 0 there is none.
Walk(mmu, a) ==
  LET vsid == mmu.sr[Segment(a)]
      first == Found(mmu.table, vsid, Page(a), FALSE)
      frames == IF first # {} THEN first ELSE Found(mmu.table, vsid, Page(a), TRUE)
  IN  IF ~mmu.sdr1 \/ frames = {} THEN Fault
      ELSE CHOOSE p \in { f * PageSize + (a % PageSize) : f \in frames } : TRUE

Translate(mmu, on, user, data, a) ==
  LET bats == IF data THEN mmu.dbat ELSE mmu.ibat
      hits == { i \in DOMAIN bats : Valid(bats[i], user) /\ Covers(bats[i], a) }
  IN  IF ~on THEN a
      ELSE IF hits # {} THEN Moved(bats[Min(hits)], a)
      ELSE Walk(mmu, a)
=============================================================================
