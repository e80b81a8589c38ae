------------------------------- MODULE SaveFile -------------------------------
(***************************************************************************)
(* The file of src/save.rs: a header, then sections in a fixed order, each *)
(* with a part of the machine; and what of a file a load takes.            *)
(***************************************************************************)
EXTENDS Naturals, SequencesExt

\* Mutant: the devices are written before the memory.
DevicesFirst == <<"PPC", "CF", "GPU", "AUDIO", "CDROM", "DMA", "BUS", "RAM", "VRAM">>

\* The order of save_state.
SectionOrder == <<"PPC", "CF", "RAM", "VRAM", "GPU", "AUDIO", "CDROM", "DMA", "BUS">>

Sections == ToSet(SectionOrder)

\* of: the save that wrote it (history); short: with less data than it needs.
Section(id, data, of) == [id |-> id, data |-> data, of |-> of, short |-> FALSE]

NoFile == [header |-> "none", secs |-> <<>>]

\* Mutant: the file is opened without being emptied.
WrittenOver(file, secs) ==
  [header |-> "good", secs |-> secs \o SubSeq(file.secs, Len(secs) + 1, Len(file.secs))]

\* File::create empties what was there.  A save that fails on the way leaves
\* what it has written by then; a section cut in two is none to read_sec, and
\* a header cut in two is as good as a file of no sections.
Written(file, secs) == [header |-> "good", secs |-> secs]

\* The loaders that look at the length; memory takes what there is.
Checked == Sections \ {"RAM", "VRAM", "AUDIO"}

\* What load_state gets to: nothing behind a wrong magic or version, nothing
\* from the first section on that its loader refuses.
Applied(file) ==
  LET refused == { i \in DOMAIN file.secs : file.secs[i].short /\ file.secs[i].id \in Checked }
  IN  IF file.header = "good"
      THEN SubSeq(file.secs, 1, Min(refused \union {Len(file.secs) + 1}) - 1)
      ELSE <<>>

\* Sections with an id that is not known here, the old chip RAM among them,
\* are passed over.
Has(file, id) == \E i \in DOMAIN Applied(file) : Applied(file)[i].id = id
Got(file, id) == Applied(file)[Max({ i \in DOMAIN Applied(file) : Applied(file)[i].id = id })]

\* The fields a section names are replaced, the others stay as they are.
Over(data, new) ==
  [x \in DOMAIN new \union DOMAIN data |-> IF x \in DOMAIN data THEN data[x] ELSE new[x]]
Restored(file, id, new) == IF Has(file, id) THEN Over(Got(file, id).data, new) ELSE new
=============================================================================
