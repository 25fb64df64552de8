------------------------------ MODULE BitWords ------------------------------
(***************************************************************************)
(* The bitset of the heap, core/core.stanza 1340-1494: one bit for each    *)
(* word of the heap, packed into words of BitsInWord bits.  A bitset is    *)
(* the set of the indices of its bits that are 1, a word of it the set of  *)
(* the positions that are 1.  Shift amounts are taken modulo the width, as *)
(* the processor does.                                                     *)
(***************************************************************************)
EXTENDS Integers, FiniteSets, FiniteSetsExt

CONSTANT BitsInWord
ASSUME WordHasBits == BitsInWord \in Nat \ {0, 1}

Positions == 0 .. BitsInWord - 1
AllOnes == Positions                                        \* -1L

BitAddress(i) == i \div BitsInWord                          \* bit-address
BitShift(i)   == i % BitsInWord                             \* bit-shift
ShiftLeft(w, n)  == {b + (n % BitsInWord) : b \in w} \cap Positions
ShiftRight(w, n) == {b - (n % BitsInWord) : b \in w} \cap Positions
BitMask(i) == ShiftLeft({0}, BitShift(i))                   \* bit-mask
MinusOne(w) == IF w = {} THEN AllOnes ELSE 0 .. Min(w) - 1  \* of a power of 2, or 0
LowestOne(w) == Min(w)                                      \* lowest-one

WordAt(bits, a) == {c - a * BitsInWord : c \in {c \in bits : BitAddress(c) = a}}
SetWord(bits, a, w) == {c \in bits : BitAddress(c) # a} \cup {a * BitsInWord + b : b \in w}
-----------------------------------------------------------------------------
(* The masks keep what lies before the first bit of a range, and what lies  *)
(* after its last.                                                          *)
BeforeMask(first) == MinusOne(BitMask(first))
AfterMask(last) == ShiftLeft(ShiftLeft(AllOnes, BitShift(last)), 1)

(* clear-mark of the addresses from start up to limit.                      *)
ClearMarkRange(bits, start, limit) ==
  LET first == BitAddress(start)
      last  == BitAddress(limit - 1)
      before == BeforeMask(start)
      after  == AfterMask(limit - 1) IN
  IF start >= limit THEN bits
  ELSE IF first = last
       THEN SetWord(bits, first, WordAt(bits, first) \cap (before \cup after))
  ELSE {c \in SetWord(SetWord(bits, first, WordAt(bits, first) \cap before),
                      last, WordAt(bits, last) \cap after) :
          BitAddress(c) \notin first + 1 .. last - 1}

(* set-mark of the addresses from start up to limit, with the same masks.   *)
SetMarkRange(bits, start, limit) ==
  LET first == BitAddress(start)
      last  == BitAddress(limit - 1)
      before == BeforeMask(start)
      after  == AfterMask(limit - 1) IN
  IF start >= limit THEN bits
  ELSE IF first = last
       THEN SetWord(bits, first, WordAt(bits, first) \cup (before \cap after))
  ELSE SetWord(SetWord(bits, first, WordAt(bits, first) \cup before),
               last, WordAt(bits, last) \cup after)
       \cup (BitsInWord * (first + 1) .. BitsInWord * last - 1)
=============================================================================
