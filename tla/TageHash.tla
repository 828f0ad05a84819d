------------------------------ MODULE TageHash ------------------------------
(***************************************************************************)
(* The two hash functions of MyTage.cpp, which choose the slot of a tagged *)
(* table and the tag to look for there from the address of a branch and    *)
(* the global history.                                                     *)
(*                                                                         *)
(* A machine word is the set of the positions of its 1 bits.  Bit b of     *)
(* v ^ w is (b \in v) # (b \in w), bit b of w >> n is b + n \in w, and bit *)
(* b of w << n is b - n \in w: the words that are shifted left hold at     *)
(* most 16 bits, so nothing is lost at bit 64.                             *)
(***************************************************************************)
EXTENDS Integers

\* Addresses are below 2^AddressBits: TLC's integers have 32 bits.
AddressBits == 30

\* The machine word of a natural number.
Word(n) == {b \in 0 .. AddressBits - 1 : (n \div 2^b) % 2 = 1}

\* w & ((1 << n) - 1)
Low(w, n) == w \cap (0 .. n - 1)

TagBits == 16   \* 0xFFFF

\* Bit b of h ^ (h >> 3) ^ (h << 5).
Mixed(h, b) == (b \in h) # ((b + 3 \in h) # (b - 5 \in h))

\* The slot of a table of 2^size_bits entries:
\* (ip ^ mixed ^ (ip >> 2)) & (size - 1).
get_index(ip, history_val, hist_len, size_bits) ==
  LET h == Low(history_val, hist_len)
  IN  {b \in 0 .. size_bits - 1 : ((b \in ip) # Mixed(h, b)) # (b + 2 \in ip)}

\* (ip ^ (h >> 2) ^ (h << 1)) & 0xFFFF
get_tag(ip, history_val, hist_len) ==
  LET h == Low(history_val, hist_len)
  IN  {b \in 0 .. TagBits - 1 : (b \in ip) # ((b + 2 \in h) # (b - 1 \in h))}
=============================================================================
