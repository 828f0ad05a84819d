--------------------------- MODULE TageHash_proofs ---------------------------
(***************************************************************************)
(* At the sizes of MyTage.cpp the hash functions lose nothing of what they *)
(* are given for one branch: two different histories of a branch never     *)
(* look for the same tag in the same slot.  An entry that hits may have    *)
(* been trained by another branch, or never, but not by the same branch    *)
(* under another history.                                                  *)
(***************************************************************************)
EXTENDS TageHash, TLAPS

\* The histories differ in bit i.
Differ(h, g, i) == (i \in h) # (i \in g)

\* Equal tags: the histories differ in bit i iff they differ in bit i + 3,
\* and they agree in bit 2.
LEMMA TagChain ==
  ASSUME NEW ip, NEW h \in SUBSET Nat, NEW g \in SUBSET Nat, NEW n \in Nat,
         get_tag(ip, h, n) = get_tag(ip, g, n)
  PROVE  /\ \A i \in 0 .. 14 : Differ(Low(h, n), Low(g, n), i)
                                 <=> Differ(Low(h, n), Low(g, n), i + 3)
         /\ ~Differ(Low(h, n), Low(g, n), 2)
<1> DEFINE hl == Low(h, n)
           gl == Low(g, n)
<1>1. \A b \in 0 .. 15 : b \in get_tag(ip, h, n) <=> b \in get_tag(ip, g, n)
  OBVIOUS
<1>2. \A b \in 0 .. 15 : /\ b \in get_tag(ip, h, n)
                              <=> (b \in ip) # ((b + 2 \in hl) # (b - 1 \in hl))
                         /\ b \in get_tag(ip, g, n)
                              <=> (b \in ip) # ((b + 2 \in gl) # (b - 1 \in gl))
  BY DEF get_tag, TagBits
<1>3. -1 \notin hl /\ -1 \notin gl
  BY DEF Low
<1> HIDE DEF hl, gl
<1>4. \A b \in 0 .. 15 : ((b + 2 \in hl) # (b - 1 \in hl))
                           <=> ((b + 2 \in gl) # (b - 1 \in gl))
  BY <1>1, <1>2
<1>5. ASSUME NEW i \in 0 .. 14 PROVE Differ(hl, gl, i) <=> Differ(hl, gl, i + 3)
  <2>1. i + 1 \in 0 .. 15 /\ (i + 1) + 2 = i + 3 /\ (i + 1) - 1 = i
    OBVIOUS
  <2>2. ((i + 3 \in hl) # (i \in hl)) <=> ((i + 3 \in gl) # (i \in gl))
    BY <1>4, <2>1
  <2> QED BY <2>2 DEF Differ
<1>6. ~Differ(hl, gl, 2)
  <2>1. 0 \in 0 .. 15 /\ 0 + 2 = 2 /\ 0 - 1 = -1
    OBVIOUS
  <2>2. ((2 \in hl) # (-1 \in hl)) <=> ((2 \in gl) # (-1 \in gl))
    BY <1>4, <2>1
  <2> QED BY <1>3, <2>2 DEF Differ
<1> QED BY <1>5, <1>6 DEF hl, gl

\* Equal slots of a table of 2^9 entries: bit 5 of the index mixes the bits
\* 0, 5 and 8 of the history.
LEMMA IndexChain ==
  ASSUME NEW ip, NEW h \in SUBSET Nat, NEW g \in SUBSET Nat, NEW n \in Nat,
         get_index(ip, h, n, 9) = get_index(ip, g, n, 9),
         ~Differ(Low(h, n), Low(g, n), 5), ~Differ(Low(h, n), Low(g, n), 8)
  PROVE  ~Differ(Low(h, n), Low(g, n), 0)
<1> DEFINE hl == Low(h, n)
           gl == Low(g, n)
<1>1. 5 \in get_index(ip, h, n, 9) <=> 5 \in get_index(ip, g, n, 9)
  OBVIOUS
<1>2. /\ 5 \in get_index(ip, h, n, 9)
           <=> ((5 \in ip) # ((5 \in hl) # ((8 \in hl) # (0 \in hl)))) # (7 \in ip)
      /\ 5 \in get_index(ip, g, n, 9)
           <=> ((5 \in ip) # ((5 \in gl) # ((8 \in gl) # (0 \in gl)))) # (7 \in ip)
  <2>1. 5 + 3 = 8 /\ 5 - 5 = 0 /\ 5 + 2 = 7 /\ 5 \in 0 .. 9 - 1
    OBVIOUS
  <2> QED BY <2>1 DEF get_index, Mixed
<1> HIDE DEF hl, gl
<1>3. (5 \in hl <=> 5 \in gl) /\ (8 \in hl <=> 8 \in gl)
  BY DEF Differ, hl, gl
<1> QED BY <1>1, <1>2, <1>3 DEF Differ, hl, gl

\* T1: one branch looks for the same tag only under the same 8-bit history.
THEOREM T1KeepsHistoriesApart ==
  ASSUME NEW ip, NEW h \in SUBSET (0 .. 7), NEW g \in SUBSET (0 .. 7),
         get_tag(ip, h, 8) = get_tag(ip, g, 8)
  PROVE  h = g
<1>1. Low(h, 8) = h /\ Low(g, 8) = g
  <2>1. 0 .. 8 - 1 = 0 .. 7
    OBVIOUS
  <2> QED BY <2>1, Zenon DEF Low
<1>2. h \in SUBSET Nat /\ g \in SUBSET Nat
  OBVIOUS
<1>3. /\ \A i \in 0 .. 14 : Differ(h, g, i) <=> Differ(h, g, i + 3)
      /\ ~Differ(h, g, 2)
  BY <1>1, <1>2, TagChain
<1>4. ~Differ(h, g, 8) /\ ~Differ(h, g, 9) /\ ~Differ(h, g, 10)
  BY DEF Differ
<1>5. ~Differ(h, g, 5) /\ ~Differ(h, g, 6) /\ ~Differ(h, g, 7)
  BY <1>3, <1>4, 5 + 3 = 8, 6 + 3 = 9, 7 + 3 = 10
<1>6. ~Differ(h, g, 3) /\ ~Differ(h, g, 4)
  BY <1>3, <1>5, 3 + 3 = 6, 4 + 3 = 7
<1>7. ~Differ(h, g, 0) /\ ~Differ(h, g, 1)
  BY <1>3, <1>6, 0 + 3 = 3, 1 + 3 = 4
<1>8. \A i \in 0 .. 7 : i \in h <=> i \in g
  BY <1>3, <1>5, <1>6, <1>7 DEF Differ
<1> QED BY <1>8

\* T2: one branch finds an entry only under the 16-bit history for which it
\* was allocated.  It takes both, the tag alone does not do (T2TagLoses).
THEOREM T2KeepsHistoriesApart ==
  ASSUME NEW ip, NEW h \in SUBSET (0 .. 15), NEW g \in SUBSET (0 .. 15),
         get_tag(ip, h, 16) = get_tag(ip, g, 16),
         get_index(ip, h, 16, 9) = get_index(ip, g, 16, 9)
  PROVE  h = g
<1>1. Low(h, 16) = h /\ Low(g, 16) = g
  <2>1. 0 .. 16 - 1 = 0 .. 15
    OBVIOUS
  <2> QED BY <2>1, Zenon DEF Low
<1>2. h \in SUBSET Nat /\ g \in SUBSET Nat
  OBVIOUS
<1>3. /\ \A i \in 0 .. 14 : Differ(h, g, i) <=> Differ(h, g, i + 3)
      /\ ~Differ(h, g, 2)
  BY <1>1, <1>2, TagChain
<1>4. /\ ~Differ(h, g, 5) /\ ~Differ(h, g, 8) /\ ~Differ(h, g, 11)
      /\ ~Differ(h, g, 14)
  BY <1>3, 2 + 3 = 5, 5 + 3 = 8, 8 + 3 = 11, 11 + 3 = 14
<1>5. ~Differ(h, g, 16)
  BY DEF Differ
<1>6. /\ ~Differ(h, g, 13) /\ ~Differ(h, g, 10) /\ ~Differ(h, g, 7)
      /\ ~Differ(h, g, 4) /\ ~Differ(h, g, 1)
  BY <1>3, <1>5, 13 + 3 = 16, 10 + 3 = 13, 7 + 3 = 10, 4 + 3 = 7, 1 + 3 = 4
<1>7. ~Differ(h, g, 0)
  BY <1>1, <1>2, <1>4, IndexChain
<1>8. /\ ~Differ(h, g, 3) /\ ~Differ(h, g, 6) /\ ~Differ(h, g, 9)
      /\ ~Differ(h, g, 12) /\ ~Differ(h, g, 15)
  BY <1>3, <1>7, 0 + 3 = 3, 3 + 3 = 6, 6 + 3 = 9, 9 + 3 = 12, 12 + 3 = 15
<1>9. \A i \in 0 .. 15 : i \in h <=> i \in g
  BY <1>3, <1>4, <1>6, <1>7, <1>8 DEF Differ
<1> QED BY <1>9

\* 0x9249: every third bit, from bit 0.
Lost == {0, 3, 6, 9, 12, 15}

\* h ^ 0x9249
Flip(h) == (h \ Lost) \cup (Lost \ h)

\* What the tag of T2 loses, exactly: h >> 2 and h << 1 cancel out in 0x9249,
\* so that each history of a branch has one other, with which it agrees in
\* every tag.  Only the index keeps the two apart.
THEOREM T2TagLoses ==
  ASSUME NEW ip, NEW h \in SUBSET (0 .. 15), NEW g \in SUBSET (0 .. 15)
  PROVE  get_tag(ip, h, 16) = get_tag(ip, g, 16) <=> g = h \/ g = Flip(h)
<1>1. Low(h, 16) = h /\ Low(g, 16) = g
  <2>1. 0 .. 16 - 1 = 0 .. 15
    OBVIOUS
  <2> QED BY <2>1, Zenon DEF Low
<1>2. ASSUME get_tag(ip, h, 16) = get_tag(ip, g, 16)
      PROVE  g = h \/ g = Flip(h)
  <2>1. h \in SUBSET Nat /\ g \in SUBSET Nat
    OBVIOUS
  <2>2. /\ \A i \in 0 .. 14 : Differ(h, g, i) <=> Differ(h, g, i + 3)
        /\ ~Differ(h, g, 2)
    BY <1>1, <1>2, <2>1, TagChain
  <2>3. /\ ~Differ(h, g, 2) /\ ~Differ(h, g, 5) /\ ~Differ(h, g, 8)
        /\ ~Differ(h, g, 11) /\ ~Differ(h, g, 14)
    BY <2>2, 2 + 3 = 5, 5 + 3 = 8, 8 + 3 = 11, 11 + 3 = 14
  <2>4. ~Differ(h, g, 16)
    BY DEF Differ
  <2>5. /\ ~Differ(h, g, 13) /\ ~Differ(h, g, 10) /\ ~Differ(h, g, 7)
        /\ ~Differ(h, g, 4) /\ ~Differ(h, g, 1)
    BY <2>2, <2>4, 13 + 3 = 16, 10 + 3 = 13, 7 + 3 = 10, 4 + 3 = 7, 1 + 3 = 4
  <2>6. /\ Differ(h, g, 0) <=> Differ(h, g, 3)
        /\ Differ(h, g, 3) <=> Differ(h, g, 6)
        /\ Differ(h, g, 6) <=> Differ(h, g, 9)
        /\ Differ(h, g, 9) <=> Differ(h, g, 12)
        /\ Differ(h, g, 12) <=> Differ(h, g, 15)
    BY <2>2, 0 + 3 = 3, 3 + 3 = 6, 6 + 3 = 9, 9 + 3 = 12, 12 + 3 = 15
  <2>7. CASE Differ(h, g, 0)
    <3>1. \A i \in 0 .. 15 : Differ(h, g, i) <=> i \in Lost
      BY <2>3, <2>5, <2>6, <2>7 DEF Lost
    <3>2. \A i \in 0 .. 15 : i \in g <=> i \in Flip(h)
      BY <3>1 DEF Differ, Flip
    <3>3. Flip(h) \subseteq 0 .. 15
      BY DEF Flip, Lost
    <3> QED BY <3>2, <3>3
  <2>8. CASE ~Differ(h, g, 0)
    <3>1. \A i \in 0 .. 15 : i \in h <=> i \in g
      BY <2>3, <2>5, <2>6, <2>8 DEF Differ
    <3> QED BY <3>1
  <2> QED BY <2>7, <2>8
<1>3. ASSUME g = Flip(h)
      PROVE  get_tag(ip, h, 16) = get_tag(ip, g, 16)
  <2>1. \A i \in Int : (i \in g) <=> ((i \in h) # (i \in Lost))
    BY <1>3 DEF Flip
  <2>2. \A b \in 0 .. 15 : b + 2 \in Lost <=> b - 1 \in Lost
    BY DEF Lost
  <2>3. \A b \in 0 .. 15 :
          ((b + 2 \in h) # (b - 1 \in h)) <=> ((b + 2 \in g) # (b - 1 \in g))
    BY <2>1, <2>2
  <2>4. \A b \in 0 .. 15 :
          ((b \in ip) # ((b + 2 \in h) # (b - 1 \in h)))
            <=> ((b \in ip) # ((b + 2 \in g) # (b - 1 \in g)))
    BY <2>3, Zenon
  <2> QED BY <1>1, <2>4 DEF get_tag, TagBits
<1> QED BY <1>2, <1>3
=============================================================================
