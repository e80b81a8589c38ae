-------------------------------- MODULE CfAlu --------------------------------
(***************************************************************************)
(* The arithmetic of src/cpu/coldfire.rs on one data register: results,    *)
(* flags and conditions, with the quirks of each instruction's size.       *)
(***************************************************************************)
EXTENDS Integers, FiniteSetsExt

CONSTANT Bits   (* the bits of a byte (1), a word (2) and a long (4) *)

Sizes == {1, 2, 4}

\* The powers of two, as far as a shift may go, by doubling.
Power[n \in 0..(2 * Bits[4])] == IF n = 0 THEN 1 ELSE 2 * Power[n - 1]

Mod(size) == Power[Bits[size]]
Values == 0..(Mod(4) - 1)
Flags == {"N", "Z", "V", "C"}

Negative(v) == v >= Mod(4) \div 2
Minus(a, b) == (a - b) % Mod(4)

\* N is the sign of a long: masked to a byte or a word no value has it.
UpdateFlags(val, size, carry, overflow) ==
  LET v == val % Mod(size)
  IN  { f \in Flags : CASE f = "Z" -> v = 0 [] f = "N" -> Negative(v) [] f = "C" -> carry [] OTHER -> overflow }

\* Mutant: V is left out, as in the other subtractions.
CmpFlagsPlain(dst, src) == UpdateFlags(Minus(dst, src), 4, dst < src, FALSE)

CmpFlags(dst, src) ==
  LET res == Minus(dst, src)
      overflow == \/ Negative(dst) /\ ~Negative(src) /\ ~Negative(res)
                  \/ ~Negative(dst) /\ Negative(src) /\ Negative(res)
  IN  UpdateFlags(res, 4, dst < src, overflow)

Conditions == {"HI", "LS", "CC", "CS", "NE", "EQ", "GE", "LT", "GT", "LE"}

\* get_cc_cond
Cc(cond, f) ==
  LET c == "C" \in f  z == "Z" \in f  lt == ("N" \in f) # ("V" \in f)
  IN  CASE cond = "HI" -> ~c /\ ~z [] cond = "LS" -> c \/ z
        [] cond = "CC" -> ~c       [] cond = "CS" -> c
        [] cond = "NE" -> ~z       [] cond = "EQ" -> z
        [] cond = "GE" -> ~lt      [] cond = "LT" -> lt
        [] cond = "GT" -> ~z /\ ~lt [] cond = "LE" -> z \/ lt

\* An instruction of a size leaves the bits above it alone.
Keep(d, size, v) == (d - (d % Mod(size))) + (v % Mod(size))

Result(d, f) == [d |-> d, ccr |-> f]

Move(d, size, v) == Result(Keep(d, size, v), UpdateFlags(v, size, FALSE, FALSE))

\* The size of ADDQ and CLR is read one bit too high: a long is done as a
\* word and a word as a byte; SUBQ is always long.
Quick(d, size, n) ==
  LET val == d % Mod(size)  res == (val + n) % Mod(size)
  IN  Result(Keep(d, size, res), UpdateFlags(res, size, res < val, FALSE))
AddqSizes == {1, 2}
Subq(d, n) == Result(Minus(d, n), UpdateFlags(Minus(d, n), 4, d < n, FALSE))
Clr(d, size) == Result(Keep(d, size, 0), UpdateFlags(0, size, FALSE, FALSE))

\* ADD and SUB <ea>,Dn come as bytes and longs only; a carry out of a byte is
\* looked for in the long.
Add(d, size, v) ==
  LET res == (d + v) % Mod(4) IN Result(Keep(d, size, res), UpdateFlags(res, size, res < d, FALSE))
Sub(d, size, v) ==
  LET res == Minus(d, v) IN Result(Keep(d, size, res), UpdateFlags(res, size, d % Mod(size) < v % Mod(size), FALSE))

\* The bits of a long that are set, and the number they make.
Ones(v) == { i \in 0..(Bits[4] - 1) : (v \div Power[i]) % 2 = 1 }
Number(S) ==
  LET low[n \in 0..Bits[4]] == IF n = 0 THEN 0 ELSE low[n - 1] + (IF n - 1 \in S THEN Power[n - 1] ELSE 0)
  IN  low[Bits[4]]

\* AND, OR and EOR; the last writes its operand, which is a register here too.
Logic(d, size, v) ==
  { Move(d, size, Number(S)) : S \in { Ones(d) \intersect Ones(v), Ones(d) \union Ones(v), SymDiff(Ones(d), Ones(v)) } }

\* The long a byte or a word stands for, for MOVEQ, EXT and MULS.
Extended(v, size) ==
  LET low == v % Mod(size) IN IF 2 * low >= Mod(size) THEN Minus(low, Mod(size)) ELSE low

Moveq(v) == Move(0, 4, Extended(v, 1))
Ext(d) == Move(d, 4, Extended(d, 1))
Swap(d) == Move(d, 4, (d % Mod(2)) * Mod(2) + (d \div Mod(2)))
Tst(d, size) == Result(d, UpdateFlags(d, size, FALSE, FALSE))

\* By n bits, at least one; ASR brings in zeros, and what is left of a shift by
\* a whole long is the sign.  A rotation by a multiple of a long ends the
\* emulator (a shift by 32) and is left out.
Asr(d, n) ==
  IF n >= Bits[4] THEN Result(IF Negative(d) THEN 1 ELSE 0, UpdateFlags(IF Negative(d) THEN 1 ELSE 0, 4, Negative(d), FALSE))
  ELSE Result(d \div Power[n], UpdateFlags(d \div Power[n], 4, n - 1 \in Ones(d), FALSE))
Lsr(d, n) == Result(d \div Power[n], UpdateFlags(d \div Power[n], 4, n - 1 \in Ones(d), FALSE))
Ror(d, n) ==
  LET m == n % Bits[4]  res == (d \div Power[m]) + ((d * Power[Bits[4] - m]) % Mod(4))
  IN  Result(res, UpdateFlags(res, 4, m - 1 \in Ones(d), FALSE))
Shifts(d) ==
  { Asr(d, n) : n \in 1..(2 * Bits[4] - 1) } \union { Lsr(d, n) : n \in 1..(2 * Bits[4] - 1) }
  \union { Ror(d, n) : n \in { k \in 1..(2 * Bits[4] - 1) : k % Bits[4] # 0 } }

\* BTST, BCHG, BCLR and BSET of a bit of the low byte: only Z changes.  A bit
\* from behind the byte, which BCLR may be asked for, is always clear.
BitOps(d, f) ==
  {Result(d, f \union {"Z"})} \union
  UNION { LET z == IF b \in Ones(d) THEN f \ {"Z"} ELSE f \union {"Z"}
          IN  { Result(Number(S), z) : S \in { Ones(d), Ones(d) \ {b}, Ones(d) \union {b} } } : b \in 0..(Bits[1] - 1) }

\* Multiplication, division and Scc leave the flags alone; the divisions that
\* can be decoded are all unsigned.
Product(d, v, signed) == (d * (IF signed THEN Extended(v, 2) ELSE v % Mod(2))) % Mod(4)
Divu(d, v) ==
  LET w == v % Mod(2) IN ((d % w) % Mod(2)) * Mod(2) + ((d \div w) % Mod(2))
Scc(d, holds) == Keep(d, 1, IF holds THEN Mod(1) - 1 ELSE 0)
=============================================================================
