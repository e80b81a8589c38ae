----------------------------- MODULE MCSaveState -----------------------------
(* Words 1 and 2 are RAM to copy from, 3 is RAM and 4 video memory to copy to,
   a burst of one word at a time; the completion of the copy wakes a halted
   ColdFire.  The program stores to word 1.  A disc of two sectors. *)
EXTENDS SaveState

MCChannels == <<"Gpu">>
MCMedia == { [id |-> "A", size |-> 2, iso |-> FALSE] }
MCJobs == { [src |-> 1, dst |-> 3, size |-> 8] }
MCPrograms == { {"Dma", "Cpu"}, {"Gpu"}, {"Drive"} }
MCForeign ==
  LET whole == [i \in DOMAIN SectionOrder |-> Section(SectionOrder[i], <<>>, 9)]
  IN  { [header |-> "bad", secs |-> whole],
        [header |-> "good", secs |-> << [Section("CF", [cf |-> TRUE], 9) EXCEPT !.short = TRUE],
                                        Section("RAM", <<>>, 9)>>] }
=============================================================================
