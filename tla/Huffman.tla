------------------------------- MODULE Huffman -------------------------------
(***************************************************************************)
(* CDecompressingCopier (Network/UOHuffman.cpp): the server compresses     *)
(* every packet with a fixed prefix code, ends it with a flush character   *)
(* and pads it to a whole byte.  The client walks the tree bit by bit and  *)
(* keeps its place in the tree from one call to the next, because a call   *)
(* only gets what the socket had.                                          *)
(*                                                                         *)
(* A byte is a tuple of bits.  A call always reads all of its input: the   *)
(* output buffer (65536) is larger than what 4096 bytes of input can       *)
(* become, so the exit for a full buffer is never taken, and bit_num is 8  *)
(* between calls.                                                          *)
(***************************************************************************)
EXTENDS Integers, Sequences, SequencesExt

CONSTANTS Tree,      \* tree[2 * node + (0 for a 1, 1 for a 0)]
          Code,      \* the server's code: Code[symbol] is a tuple of bits
          ByteBits   \* 8

Flush == -256
Byte  == [1..ByteBits -> {0, 1}]

Child(node, bit) == Tree[2 * node + (1 - bit)]

(* A positive child is a node again; any other is a leaf, the flush        *)
(* character or a symbol negated.                                          *)
InnerNodes == {k \div 2 : k \in DOMAIN Tree}

ASSUME ByteAssumption == ByteBits \in Nat \ {0}
ASSUME TreeAssumption ==
  /\ 0 \in InnerNodes
  /\ \A n \in InnerNodes, bit \in {0, 1} :
       Child(n, bit) \in Int /\ (Child(n, bit) > 0 => Child(n, bit) \in InnerNodes)

(* One bit: down the tree; a leaf is a symbol or the flush character, and  *)
(* after either the walk starts at the top again.                          *)
ReadBit(s, bit) ==
  LET t == Child(s.treepos, bit)
  IN IF s.flushed THEN s
     ELSE IF t > 0 THEN [s EXCEPT !.treepos = t]
     ELSE IF t = Flush THEN [s EXCEPT !.treepos = 0, !.flushed = TRUE]
     ELSE [s EXCEPT !.treepos = 0, !.out = Append(@, -t)]

(* The bits that follow a flush character in its byte are padding. *)
AfterBits(s, byte) ==
  LET after[i \in 0..ByteBits] ==
        IF i = 0 THEN [s EXCEPT !.flushed = FALSE] ELSE ReadBit(after[i - 1], byte[i])
  IN after

ReadByte(s, byte) == AfterBits(s, byte)[ByteBits]

(* One call of the decompressor: the symbols and the place in the tree. *)
AfterBytes(treepos, bytes) ==
  LET after[n \in 0..Len(bytes)] ==
        IF n = 0 THEN [treepos |-> treepos, flushed |-> FALSE, out |-> <<>>]
        ELSE ReadByte(after[n - 1], bytes[n])
  IN after

Decompress(treepos, bytes) == AfterBytes(treepos, bytes)[Len(bytes)]

-----------------------------------------------------------------------------
(* The server's side *)

Bits(packet) ==
  FlattenSeq([i \in 1..Len(packet) |-> Code[packet[i]]]) \o Code[-Flush]

Compress(packet) ==
  LET bits  == Bits(packet)
      bytes == (Len(bits) + ByteBits - 1) \div ByteBits
  IN [b \in 1..bytes |->
        [i \in 1..ByteBits |->
           LET k == (b - 1) * ByteBits + i
           IN IF k <= Len(bits) THEN bits[k] ELSE 0]]
=============================================================================
