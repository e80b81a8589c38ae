------------------------------- MODULE Mailbox -------------------------------
(***************************************************************************)
(* The mailbox and its clients: kernel/input.c, which reads the buttons,    *)
(* and other programs that follow the same protocol, interleaved at every  *)
(* access; stray stores of any size to any address (Stray); and the host,  *)
(* which sets the buttons between two instructions.  The disc is put in    *)
(* before the machine runs (src/main.rs:105).                              *)
(***************************************************************************)
EXTENDS Bus

CONSTANTS
  Clients,    (* the programs that use the mailbox                       *)
  Kernel,     (* the one among them that is kernel/input.c               *)
  Requests,   (* the <<command, argument>> of the others                 *)
  Discs,      (* is a disc in when the machine starts?                   *)
  Held,       (* the sets of buttons the host may report                 *)
  Strays,     (* the <<address, bytes>> of stray stores                  *)
  Stores,     (* the <<address, bytes>> the law of the bus is checked on *)
  Watched,    (* the addresses of the bytes it is checked for            *)
  MaxCalls,   (* bound: the number of calls of each client               *)
  MaxStrays   (* bound: stray stores                                     *)

ASSUME MailboxAssumption ==
  /\ Kernel \in Clients /\ MaxCalls \in [Clients -> Nat] /\ MaxStrays \in Nat
  /\ \A r \in Requests : r[1] \in 0..255 /\ r[2] \in Seq(0..255) /\ Len(r[2]) = 4
  /\ \A s \in Strays \union Stores : s[1] \in Int /\ s[2] \in Seq(0..255) /\ Len(s[2]) \in {1, 2, 4}
  /\ \A a \in Watched : a \in Int /\ (Region(a) \in Memories => <<Region(a), Offset(a)>> \in Cells)
  /\ \A s \in Held : s \subseteq 0..15

VARIABLES
  bus,     (* registers and memory                                          *)
  held,    (* the buttons the host reported last                            *)
  call,    (* of each client: where it is in its call and what it asked     *)
  input,   (* kernel/input.c: state, prev, changed                          *)
  seen,    (* history, of each client's call: was it left undisturbed, the  *)
           (* right answers to it, and the buttons held, at each kick since *)
  past     (* history: guest stores to the GPIO, a junk status, stray stores *)

vars == <<bus, held, call, input, seen, past>>

Cmd == MailboxBase
Resp == MailboxBase + 4
Stat == MailboxBase + 8
Arg == MailboxBase + 12

Init ==
  /\ \E disc \in Discs : bus = BusInit(disc)
  /\ held = {}
  /\ call = [c \in Clients |-> [at |-> "idle", req |-> <<IoRead, Word(32)>>, res |-> WordZero, n |-> 0]]
  /\ input = [state |-> {}, prev |-> {}, changed |-> {}]
  /\ seen = [c \in Clients |-> [calm |-> FALSE, answers |-> {}, helds |-> {}]]
  /\ past = [gpio |-> FALSE, junk |-> FALSE, strays |-> 0]
-----------------------------------------------------------------------------
(* The protocol: mailbox_io_read, and cf_send_cmd with cf_read_resp        *)

Call(c) ==
  /\ call[c].at = "idle" /\ call[c].n < MaxCalls[c]
  /\ \E r \in IF c = Kernel THEN {<<IoRead, Word(32)>>} ELSE Requests :
       call' = [call EXCEPT ![c].at = "free", ![c].req = r, ![c].n = @ + 1]
  /\ UNCHANGED <<bus, held, input, seen, past>>

Goto(c, from, to) == call[c].at = from /\ call' = [call EXCEPT ![c].at = to]

StatusFree == Read(bus, Stat, 4) = WordZero

\* Mutant: the status is not looked at before the registers are written.
AwaitFreeAlways(c) ==
  /\ Goto(c, "free", "arg")
  /\ UNCHANGED <<bus, held, input, seen, past>>

AwaitFree(c) ==
  /\ StatusFree
  /\ Goto(c, "free", "arg")
  /\ UNCHANGED <<bus, held, input, seen, past>>

\* One store of a client; calls of others with another request are disturbed,
\* and a kick is one more chance for everybody's answer.
StoreBy(c, a, w) ==
  /\ bus' = Write(bus, a, w)
  /\ seen' = [d \in Clients |->
       [calm |-> (d = c /\ a = Arg) \/ (seen[d].calm /\ call[d].req = call[c].req),
        answers |-> (IF d = c /\ a = Arg THEN {} ELSE seen[d].answers)
                    \union (IF a = Stat THEN {Response(bus, Word(call[d].req[1]), call[d].req[2])} ELSE {}),
        helds |-> (IF d = c /\ a = Arg THEN {} ELSE seen[d].helds) \union (IF a = Stat THEN {held} ELSE {})]]
  /\ past' = [past EXCEPT !.gpio = @ \/ bus'.io[8] # bus.io[8]]
  /\ UNCHANGED <<held, input>>

WriteArg(c) == Goto(c, "arg", "cmd") /\ StoreBy(c, Arg, call[c].req[2])
WriteCmd(c) == Goto(c, "cmd", "stat") /\ StoreBy(c, Cmd, Word(call[c].req[1]))
WriteStat(c) == Goto(c, "stat", "done") /\ StoreBy(c, Stat, Word(1))

AwaitDone(c) ==
  /\ StatusFree
  /\ Goto(c, "done", "resp")
  /\ UNCHANGED <<bus, held, input, seen, past>>

\* Mutant: the other half of the answer.
ButtonsUpper(w) == { i \in 0..7 : ~BitSet(w[2], i) } \union { i \in 8..15 : ~BitSet(w[1], i - 8) }

\* ~(uint16_t)resp: the buttons whose bit is 0.
Buttons(w) == { i \in 0..7 : ~BitSet(w[4], i) } \union { i \in 8..15 : ~BitSet(w[3], i - 8) }

\* The end of mailbox_io_read, and of cd32_input_poll around it.
ReadResp(c) ==
  LET w == Read(bus, Resp, 4)  now == Buttons(w)
  IN  /\ call[c].at = "resp"
      /\ call' = [call EXCEPT ![c].at = "idle", ![c].res = w]
      /\ input' = IF c # Kernel THEN input
                  ELSE [state |-> now, prev |-> input.state, changed |-> SymDiff(now, input.state)]
      /\ UNCHANGED <<bus, held, seen, past>>

Client(c) == AwaitFree(c) \/ WriteArg(c) \/ WriteCmd(c) \/ WriteStat(c) \/ AwaitDone(c) \/ ReadResp(c)
-----------------------------------------------------------------------------
(* Everybody else *)

Host ==
  \E s \in Held : /\ held' = s
                  /\ bus' = SetJoypad(bus, s)
                  /\ UNCHANGED <<call, input, seen, past>>

Stray ==
  /\ past.strays < MaxStrays
  /\ \E s \in Strays :
       /\ bus' = Write(bus, s[1], s[2])
       /\ past' = [past EXCEPT !.strays = @ + 1, !.gpio = @ \/ bus'.io[8] # bus.io[8],
                               !.junk = @ \/ bus'.mbox[8] # WordZero]
       /\ seen' = [c \in Clients |-> [seen[c] EXCEPT !.calm = @ /\ Region(s[1]) # "Mailbox"]]
  /\ UNCHANGED <<held, call, input>>

Next == (\E c \in Clients : Call(c) \/ Client(c)) \/ Host \/ Stray

Spec == Init /\ [][Next]_vars

\* Both CPUs get their instructions (run_cycles), so a program that can go on
\* does.
FairSpec == Spec /\ \A c \in Clients : WF_vars(Client(c))
-----------------------------------------------------------------------------
(* Properties *)

Bytes == 0..255
Words == [1..4 -> Bytes]

\* Every register is four bytes, and a command is never seen pending: the
\* service runs within the store that asks for it (src/bus.rs:539).
TypeOK ==
  /\ \A r \in {0, 4, 8, 12} : bus.mbox[r] \in Words /\ bus.miu[r] \in Words
  /\ \A i \in 0..15 : bus.io[i] \in Words
  /\ \A c \in Cells : bus.mem[c] \in Bytes
  /\ bus.mbox[8] # Word(1)

\* A call gets an answer to its own request, as of one of the kicks since its
\* own, if the stores of others in between were for the same request
\* (kernel/input.c:19).
OwnAnswer ==
  \A c \in Clients : call[c].at = "idle" /\ seen[c].calm => call[c].res \in seen[c].answers

\* As long as no guest stores to the GPIO: the buttons of an undisturbed poll
\* are those that were held when the mailbox looked, active-low twice over
\* (src/bus.rs:250, kernel/input.c:37).
TruthfulPad ==
  (call[Kernel].at = "idle" /\ seen[Kernel].calm /\ ~past.gpio) => input.state \in seen[Kernel].helds

\* Memory and the I/O registers are bytes in address order, whatever the size
\* of the accesses: after a store, aligned if it is one to a register, every
\* byte is the one stored or the one before, except under the mailbox and in
\* the UART status that a store to the UART sets; a store across the end of
\* RAM changes nothing, nor does one that begins where there is none.
Flat(a) == Region(a) \in {"UnifiedRam", "ColdFireLocal", "ColdFireIo"}
Lawful(s) == Region(s[1]) # "Mailbox" /\ (Region(s[1]) = "ColdFireIo" => s[1] % Len(s[2]) = 0)
Lands(s) == (Region(s[1]) = "UnifiedRam" /\ s[1] + Len(s[2]) <= UnifiedRamSize) \/ Region(s[1]) = "ColdFireIo"
BytesInOrder ==
  \A s \in { x \in Stores : Lawful(x) } : LET after == Write(bus, s[1], s[2]) IN
    \A a \in { x \in Watched : Flat(x) /\ x \notin (ColdFireIoBase + 4)..(ColdFireIoBase + 7) } :
      Read(after, a, 1) =
        IF Lands(s) /\ a \in s[1]..(s[1] + Len(s[2]) - 1) THEN <<s[2][a - s[1] + 1]>> ELSE Read(bus, a, 1)

\* A status that is neither 0 nor 1 and that no call under way overwrites stays
\* until another stray store: the companion ignores it and every client waits
\* for 0 (src/bus.rs:539, kernel/input.c:21).
Wedged == bus.mbox[8] # WordZero /\ \A c \in Clients : call[c].at \notin {"arg", "cmd", "stat"}
WedgedForEver == [][Wedged => Wedged' \/ past'.strays # past.strays]_vars

\* Unless such a status was stored, every call ends, however the clients
\* interleave.
CallEnds == \A c \in Clients : (call[c].at # "idle") ~> (call[c].at = "idle" \/ past.junk)
=============================================================================
