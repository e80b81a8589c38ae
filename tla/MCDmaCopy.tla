----------------------------- MODULE MCDmaCopy -----------------------------
(* Two channels with bursts of two words over a dozen words of memory. *)
EXTENDS DmaCopy

MCChannels == <<"Cdrom", "Gpu">>
MCRam == 1..7
MCRom == {8, 9, 10}
MCDrivers == {"main", "other"}
MCChannelOf == [d \in MCDrivers |-> IF d = "main" THEN "Cdrom" ELSE "Gpu"]

\* From RAM and ROM, onto the other driver's source, over the end of the
\* mapped words, and null.
MCJobs == [d \in MCDrivers |->
  IF d = "main" THEN { [src |-> 1, dst |-> 4, size |-> 12],
                       [src |-> 9, dst |-> 2, size |-> 12] }
  ELSE { [src |-> 5, dst |-> 7, size |-> 4], [src |-> 0, dst |-> 7, size |-> 4] }]

MCPokes == {<<"size", 4>>, <<"start", 1>>, <<"abort", 2>>}

\* A size that ends in a fraction of a word.
MCTailChannels == <<"Cdrom">>
MCTailDrivers == {"main"}
MCTailJobs == [d \in {"main"} |-> { [src |-> 1, dst |-> 4, size |-> 6] }]
MCTailChannelOf == [d \in {"main"} |-> "Cdrom"]
=============================================================================
