------------------------------ MODULE MarkBits ------------------------------
(***************************************************************************)
(* The loops that look for marks a word of bits at a time: iterate-marked  *)
(* (core/core.stanza 1496-1534), whose every step is a step here, and      *)
(* skip-dead (1919-1943), which does the same up to the first mark.        *)
(***************************************************************************)
EXTENDS BitWords, Sequences, SequencesExt

CONSTANT Size            \* number of bits, in whole words
ASSUME SizeInWords == Size \in Nat /\ Size % BitsInWord = 0

VARIABLES
  bitset, start, end,    \* the bitset and the range from start up to end, its limit
  bitAddress, word,      \* bit-address, bits: the word and its bits to come
  p,                     \* the address that the lowest of these bits stands for
  visited,               \* the addresses f was called with
  pc

scanVars == <<bitset, start, end, bitAddress, word, p, visited, pc>>
input == <<bitset, start, end>>

EndBitAddress == BitAddress(end - 1)
StartMask(i) == ShiftLeft(AllOnes, BitShift(i))
EndMask(i) == MinusOne(ShiftLeft(BitMask(i), 1))

ScanInit ==
  /\ bitset \in SUBSET (0 .. Size - 1)
  /\ start \in 0 .. Size - 1 /\ end \in 1 .. Size /\ start < end
  /\ bitAddress = BitAddress(start)
  /\ word = WordAt(bitset, bitAddress) \cap StartMask(start)
  /\ p = 0 /\ visited = << >> /\ pc = "entry"

(* A word without marks is passed over.                                     *)
SkipWord ==
  /\ pc = "entry"
  /\ word = {} /\ bitAddress < EndBitAddress
  /\ bitAddress' = bitAddress + 1
  /\ word' = WordAt(bitset, bitAddress + 1)
  /\ UNCHANGED <<input, p, visited, pc>>

EnterWord ==
  /\ pc = "entry"
  /\ word # {} \/ bitAddress >= EndBitAddress
  /\ word' = IF bitAddress = EndBitAddress THEN word \cap EndMask(end - 1) ELSE word
  /\ p' = bitAddress * BitsInWord
  /\ pc' = "bits"
  /\ UNCHANGED <<input, bitAddress, visited>>

ShiftPastAtOnce(w, n) == ShiftRight(w, n + 1)        \* mutated: one shift, of up to the width
ShiftPast(w, n) == ShiftRight(ShiftRight(w, n), 1)

Visit ==
  /\ pc = "bits"
  /\ word # {}
  /\ word' = ShiftPast(word, LowestOne(word))
  /\ visited' = Append(visited, p + LowestOne(word))
  /\ p' = p + LowestOne(word) + 1
  /\ UNCHANGED <<input, bitAddress, pc>>

NextWord ==
  /\ pc = "bits"
  /\ word = {}
  /\ IF bitAddress < EndBitAddress
     THEN /\ bitAddress' = bitAddress + 1
          /\ word' = WordAt(bitset, bitAddress + 1)
          /\ pc' = "entry"
     ELSE pc' = "done" /\ UNCHANGED <<bitAddress, word>>
  /\ UNCHANGED <<input, p, visited>>

Done == pc = "done" /\ UNCHANGED scanVars

ScanNext == SkipWord \/ EnterWord \/ Visit \/ NextWord \/ Done
ScanSpec == ScanInit /\ [][ScanNext]_scanVars
-----------------------------------------------------------------------------
(* skip-dead: the first mark from start on, or limit.                       *)
LastWordWhole(w, a) == w          \* mutated: bits past the range count
LastWordMasked(w, a) == w \cap EndMask(end - 1)
SkipDead ==
  LET scan[a \in 0 .. EndBitAddress] ==
        LET w == IF a = BitAddress(start) THEN WordAt(bitset, a) \cap StartMask(start)
                 ELSE WordAt(bitset, a) IN
        IF a = EndBitAddress
        THEN IF LastWordMasked(w, a) = {} THEN end ELSE a * BitsInWord + LowestOne(LastWordMasked(w, a))
        ELSE IF w = {} THEN scan[a+1]
        ELSE a * BitsInWord + LowestOne(w)
  IN scan[BitAddress(start)]

Marked == {c \in bitset : start <= c /\ c < end}

ScanTypeOK ==
  /\ bitAddress \in 0 .. EndBitAddress
  /\ word \subseteq Positions
  /\ p \in 0 .. Size
  /\ pc \in {"entry", "bits", "done"}

(* iterate-marked calls f once for each marked address in the range, in     *)
(* ascending order, for every alignment of the range and every marking, and *)
(* its scan stays in the bitset and in the word.                            *)
VisitsMarked ==
  /\ ScanTypeOK
  /\ \A i, j \in DOMAIN visited : i < j => visited[i] < visited[j]
  /\ Range(visited) \subseteq Marked
  /\ pc = "done" => Range(visited) = Marked

(* skip-dead finds the first one (core.stanza:1917-1918).                   *)
SkipDeadFindsFirst == SkipDead = Min(Marked \cup {end})

(* clear-mark clears the range and nothing else (core.stanza:1430).         *)
ClearMarkClearsRange == ClearMarkRange(bitset, start, end) = bitset \ (start .. end - 1)

(* Both functions on ranges, for every alignment.                           *)
RangeFunctions == SkipDeadFindsFirst /\ ClearMarkClearsRange

(* core.stanza:1463: "Sets the mark for the given heap address range."      *)
SetMarkSetsRange == SetMarkRange(bitset, start, end) = bitset \cup (start .. end - 1)
=============================================================================
