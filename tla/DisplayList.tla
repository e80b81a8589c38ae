----------------------------- MODULE DisplayList -----------------------------
(***************************************************************************)
(* The display list as kernel/gfx.c builds it and Gpu::exec_dl reads it.   *)
(* One buffer holds both the commands, two words each from word 0 on, and  *)
(* the triangles, four words each from word VertexBase on.  A word is      *)
(* <<kind, number>>; its number tells which push of the program wrote it.  *)
(***************************************************************************)
EXTENDS Integers, SequencesExt

CONSTANTS
  BufWords,    (* words of the buffer, and of a fetch of the GPU (2048) *)
  VertexBase,  (* the first word of the triangles (64)                  *)
  MaxCount     (* dl_push ignores commands from this one on (2036)      *)

ASSUME ListAssumption ==
  /\ BufWords \in Nat /\ VertexBase \in Nat /\ MaxCount \in Nat
  /\ VertexBase <= BufWords - 2
  /\ BufWords <= 2 * MaxCount   \* the buffer is full first

Zero == <<"zero", 0>>
Blank == [w \in 0..(BufWords - 1) |-> Zero]

EmptyList == [buf |-> Blank, count |-> 0, ptr |-> VertexBase]

\* cd32_gfx_begin does not clear the buffer.
GfxBegin(dl) == [dl EXCEPT !.count = 0, !.ptr = VertexBase]

DlPush(dl, op, data) ==
  IF dl.count >= MaxCount THEN dl
  ELSE [dl EXCEPT !.buf[2 * dl.count] = <<op, 0>>,
                  !.buf[2 * dl.count + 1] = data,
                  !.count = @ + 1]

GfxClear(dl, n) == DlPush(dl, "clear", <<"colour", n>>)

Vertices(dl, n) ==
  [dl EXCEPT !.buf = [w \in DOMAIN @ |->
                        CASE w \in dl.ptr..(dl.ptr + 2) -> <<"vertex", n>>
                          [] w = dl.ptr + 3 -> <<"colour", n>>
                          [] OTHER -> @[w]],
             !.ptr = @ + 4]

GfxTri(dl, n) == DlPush(Vertices(dl, n), "tri", <<"at", dl.ptr>>)

\* C leaves writes behind the end of the buffer undefined; programs that
\* would make one are outside this model.
RoomForCommand(dl) == 2 * dl.count + 2 <= BufWords
RoomForTriangle(dl) == dl.ptr + 4 <= BufWords

\* Mutant: the END behind the last command that needs no vertices is left out.
CopiedShort(dl) == dl.ptr

\* The words cd32_gfx_submit copies, from the first one on.
Copied(dl) == Min({dl.ptr + 2, BufWords})
-----------------------------------------------------------------------------
(* Gpu::exec_dl.  What a command reads that no command or triangle wrote   *)
(* depends on coordinates and colours: it is drawn as junk.                *)

Junk == <<"junk", 0>>

Triangle(m, at) ==
  IF /\ m[at][1] = "vertex" /\ m[at + 1] = m[at] /\ m[at + 2] = m[at]
     /\ m[at + 3] = <<"colour", m[at][2]>>
  THEN <<"tri", m[at][2]>> ELSE Junk

Command(m, i) ==
  LET op == m[2 * i][1]  data == m[2 * i + 1]
  IN  CASE op = "zero" -> <<>>
        [] op = "clear" -> <<IF data[1] = "colour" THEN <<"clear", data[2]>> ELSE Junk>>
        [] op = "tri" -> <<IF data[1] = "at" THEN Triangle(m, data[2]) ELSE Junk>>
        [] OTHER -> <<Junk>>

\* Up to END, or to the end of what was fetched.
Drawn(m) ==
  LET ends == { i \in 0..(BufWords \div 2 - 1) : m[2 * i][1] = "end" }
      stop == Min(ends \union {BufWords \div 2})
  IN  FlattenSeq([i \in 1..stop |-> Command(m, i - 1)])
=============================================================================
