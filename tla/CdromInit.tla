------------------------------ MODULE CdromInit ------------------------------
(***************************************************************************)
(* cd32_cdrom_init (src/kernel/cdrom.c) against the drive.  The kernel     *)
(* uses the byte offsets of sdk/api.md; the drive numbers its registers in *)
(* words and keeps them at the same numbers, so the two meet in register 0 *)
(* only: what the kernel writes as CD_CMD (byte 0x10) lands in register 4, *)
(* the drive's flags, and what it reads as CD_FLAGS (byte 0x04) is         *)
(* register 1, which nothing writes.                                       *)
(***************************************************************************)
EXTENDS Cdrom

CONSTANT Tries  (* polls before init gives up (1000000)                    *)

VARIABLES
  pc,     (* where the kernel is in cd32_cdrom_init                        *)
  polls   (* polls so far                                                  *)

initVars == <<vars, pc, polls>>

KernelInit == Init /\ pc = "probe" /\ polls = 0

\* CD_STAT, register 0, is kept by insert_disc and eject_disc.
CdStat == disc # NoMedium

\* CD_FLAGS as the kernel reads it: no bit is ever set in register 1.
CdFlags == {}

\* if (!(CD_STAT & 1)) return -1;
Probe ==
  /\ pc = "probe"
  /\ pc' = IF CdStat THEN "command" ELSE "failed"
  /\ UNCHANGED <<vars, polls>>

\* CD_CMD = 0x10: none of the drive's flag bits is set in 0x10, and register
\* 4 is not a command register.
SendMount ==
  /\ pc = "command"
  /\ flags' = {}
  /\ pc' = "poll"
  /\ UNCHANGED <<state, regs, reading, buffer, disc, root, listed, swaps, polls>>

\* while (!(CD_FLAGS & 2) && --t > 0) {}
Poll ==
  /\ pc = "poll"
  /\ IF "ready" \in CdFlags THEN pc' = "mounted" /\ UNCHANGED polls
     ELSE /\ polls' = polls + 1
          /\ pc' = IF polls' >= Tries THEN "failed" ELSE "poll"
  /\ UNCHANGED vars

Kernel == Probe \/ SendMount \/ Poll

\* main.rs inserts the image before the machine runs.
Host == pc = "probe" /\ state = "NoDisc" /\ \E m \in Media : InsertDisc(m)

KernelNext ==
  \/ Kernel
  \/ (Tick \/ Host) /\ UNCHANGED <<pc, polls>>

KernelSpec == KernelInit /\ [][KernelNext]_initVars
-----------------------------------------------------------------------------
(* "CD_FLAGS: bit 1=ready" and "CD_CMD: Comando (escrever para executar)"  *)
(* (sdk/api.md): cd32_cdrom_init does not give up while a disc is in and   *)
(* the drive reports ready.  What the code does is to look for both in     *)
(* registers that the drive does not use for them.                         *)
FailsOnlyWithoutDisc ==
  [][pc # "failed" /\ pc' = "failed" => ~(CdStat /\ "ready" \in flags)]_initVars
=============================================================================
