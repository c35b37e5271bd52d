--------------------------- MODULE SubwordAccess ---------------------------
(***************************************************************************)
(* reserved_instruction_exception: the loads and stores of bytes and       *)
(* halfwords that a reduced core lacks, done with loads and stores of      *)
(* words by every processor's own copy of exception_handler.c.  The text   *)
(* of the four copies is the same; the saved registers it indexes are not. *)
(*                                                                         *)
(* A word is its four bytes, the lowest first, as the cores are            *)
(* little endian.  Memory maps the addresses of words; an address that was *)
(* never stored to holds Empty.                                            *)
(***************************************************************************)
EXTENDS Integers, Sequences

CONSTANT AddressSpace     \* bound: addresses wrap here, at 2^32 in the program

ASSUME AddressSpaceAssumption == AddressSpace \in Nat \ {0} /\ AddressSpace % 4 = 0

Byte == 0 .. 255
Word4 == [1 .. 4 -> Byte]
Empty == [j \in 1 .. 4 |-> 0]

\* all 32 bits of a word; the weight of the highest byte is reduced first, so
\* that TLC's integers hold the sum
AddressOf(word) ==
  (word[1] + 256 * word[2] + 65536 * word[3] + (16777216 % AddressSpace) * word[4]) % AddressSpace

Fetch(mem, address) == IF address \in DOMAIN mem THEN mem[address] ELSE Empty
Put(mem, address, word) ==
  [x \in DOMAIN mem \union {address} |-> IF x = address THEN word ELSE mem[x]]

-----------------------------------------------------------------------------
(* The handler's view: stack is the word array reg_stack, from index 0.     *)

SignExtended(offset) == IF offset >= 2^15 THEN offset - 2^16 ELSE offset

LoadAddress(stack, i) ==
  (AddressOf(stack[i.base + 1]) + SignExtended(i.offset)) % AddressSpace

\* the stores take the offset as unsigned
StoreAddress(stack, i) == (AddressOf(stack[i.base + 1]) + i.offset) % AddressSpace

WordOf(address) == 4 * (address \div 4)
ByteOffset(address) == address % 4
HalfwordOffset(address) == (address % 4) \div 2

\* |= 0xFFFFFF00, |= 0xFFFF0000
Extended(low, negative) ==
  [j \in 1 .. 4 |-> IF j <= Len(low) THEN low[j] ELSE IF negative THEN 255 ELSE 0]

LowByte(word) == Extended(<<word[1]>>, FALSE)
LowHalf(word) == Extended(<<word[1], word[2]>>, FALSE)

LB(word, k) == Extended(<<word[k + 1]>>, word[k + 1] >= 128)

\* word & ((0xFF << 8k) >> 8k): the shift back is of a signed int, so that
\* the mask is 0xFF again, but all ones when it had reached the sign
LBU(word, k) == IF k = 3 THEN word ELSE LowByte(word)
LHU(word, h) == IF h = 1 THEN word ELSE LowHalf(word)

\* halfword & 8000, a decimal: bits 6 and 8 to 12
LH(word, h) ==
  LET halfword == LHU(word, h)
      negative == (halfword[1] \div 64) % 2 = 1 \/ halfword[2] % 32 # 0
  IN IF negative THEN Extended(<<halfword[1], halfword[2]>>, TRUE) ELSE halfword

\* the mask !(0xFF << 8k) is 0: nothing of the word that was there is left
SB(value, k) == [Empty EXCEPT ![k + 1] = value[1]]
SH(value, h) == [Empty EXCEPT ![2 * h + 1] = value[1], ![2 * h + 2] = value[2]]

Loads == {"LB", "LBU", "LH", "LHU"}
Stores == {"SB", "SH"}

LoadByte(stack, mem, i) ==
  LET address == LoadAddress(stack, i)
      word == Fetch(mem, WordOf(address))
      byte == IF i.op = "LB" THEN LB(word, ByteOffset(address)) ELSE LBU(word, ByteOffset(address))
  IN [stack |-> [stack EXCEPT ![i.rt + 1] = byte], mem |-> mem]

LoadHalfword(stack, mem, i) ==
  LET address == LoadAddress(stack, i)
      word == Fetch(mem, WordOf(address))
      half == IF i.op = "LH" THEN LH(word, HalfwordOffset(address))
              ELSE LHU(word, HalfwordOffset(address))
  IN [stack |-> [stack EXCEPT ![i.rt + 1] = half], mem |-> mem]

StoreSubword(stack, mem, i) ==
  LET address == StoreAddress(stack, i)
      value == stack[i.rt + 1]
      word == IF i.op = "SB" THEN SB(value, ByteOffset(address))
              ELSE SH(value, HalfwordOffset(address))
  IN [stack |-> stack, mem |-> Put(mem, WordOf(address), word)]

\* what the handler leaves on the stack and in memory
Emulated(stack, mem, i) ==
  CASE i.op \in {"LB", "LBU"} -> LoadByte(stack, mem, i)
    [] i.op \in {"LH", "LHU"} -> LoadHalfword(stack, mem, i)
    [] i.op \in Stores -> StoreSubword(stack, mem, i)
    [] OTHER -> [stack |-> stack, mem |-> mem]
=============================================================================
