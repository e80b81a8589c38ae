------------------------------ MODULE MCMailbox ------------------------------
(* The kernel and one other program; buttons in both halves of the GPIO.
   Memory is kept where regions meet: below and under the mailbox, at the end
   of RAM, at the start of the local memory and of the ROM. *)
EXTENDS Mailbox

MCCells ==
  { <<"UnifiedRam", MailboxBase + i>> : i \in (-3)..1 } \union { <<"UnifiedRam", UnifiedRamSize - i>> : i \in 1..2 }
  \union { <<"ColdFireLocal", i>> : i \in 0..1 } \union { <<"BootRom", i>> : i \in 0..0 }
  \union { <<"UnifiedRam", 0>> }
MCClients == {"kernel", "other"}
MCMaxCalls == [kernel |-> 2, other |-> 1]
MCHeld == {{}, {4, 9}}
MCRequests == {<<IoRead, Word(32)>>, <<IoWrite, <<255, 239, 0, 32>>>>,
               <<CdromStatus, WordZero>>, <<UartWrite, Word(65)>>}
MCStrays == {<<Stat, <<1>>>>, <<Stat + 3, <<1>>>>, <<Resp, <<7, 8>>>>,
             <<MailboxBase - 2, Word(9)>>}
MCStores ==
  {<<ColdFireIoBase + 33, <<5>>>>, <<ColdFireIoBase + 34, <<5, 6>>>>, <<MailboxBase - 2, <<5, 6, 7, 8>>>>,
   <<UnifiedRamSize - 2, <<5, 6, 7, 8>>>>, <<ColdFireLocalBase, <<5, 6>>>>, <<-2, <<5, 6, 7, 8>>>>}
MCWatched == {0, MailboxBase - 3, MailboxBase - 1, UnifiedRamSize - 1, ColdFireLocalBase}
             \union (ColdFireIoBase + 32)..(ColdFireIoBase + 35)
=============================================================================
