------------------------------- MODULE MCVideo -------------------------------
(* A buffer of 16 words with the triangles from word 6 on: three commands fit
   before them, two triangles after.  The other program can do what any write
   of its can do: kick, take a kick back, move the list, free a waiter, forge a
   VBlank or try to take one back. *)
EXTENDS Video

MCPokes == {<<"kick", TRUE>>, <<"kick", FALSE>>, <<"list", "unmapped">>, <<"list", "ram">>, <<"reg4", 1>>,
             <<"blank", TRUE>>, <<"blank", FALSE>>}
MCNoPokes == {}
=============================================================================
