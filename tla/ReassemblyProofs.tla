-------------------------- MODULE ReassemblyProofs -------------------------
(***************************************************************************)
(* Proofs about fragmentation and reassembly, for objects and messages of  *)
(* any size, any number of names, buffers, clients and duplicates, and any *)
(* order of the fragments.                                                 *)
(***************************************************************************)
EXTENDS Reassembly, MapTheorems, FiniteSetTheorems, WellFoundedInduction

----------------------------------------------------------------------------
(* Numbers.                                                                *)

(* A nonempty set of naturals has a least element ...                      *)
LEMMA Least ==
    ASSUME NEW S \in SUBSET Nat, S # {}
    PROVE  \E x \in S : \A y \in S : x <= y
<1> DEFINE R == {ss \in Nat \X Nat : ss[1] < ss[2]}
<1>1. IsWellFoundedOn(R, Nat)
    BY NatLessThanWellFounded DEF OpToRel
<1> HIDE DEF R
<1>2. PICK x \in S : \A y \in S : ~(<<y, x>> \in R)
    BY <1>1, WFMin
<1>3. ASSUME NEW y \in S PROVE x <= y
  <2>1. x \in Nat /\ y \in Nat
    OBVIOUS
  <2>2. y < x => <<y, x>> \in R
    BY <2>1 DEF R
  <2>. QED
    BY <1>2, <2>1, <2>2
<1>. QED
    BY <1>3

(* ... and, if it is bounded, a greatest one.                               *)
LEMMA Greatest ==
    ASSUME NEW S \in SUBSET Nat, S # {}, NEW n \in Nat, \A x \in S : x <= n
    PROVE  \E x \in S : \A y \in S : y <= x
<1> DEFINE T == {k \in Nat : n - k \in S}
<1>1. \A x \in S : n - x \in T
  <2> TAKE x \in S
  <2>1. n - x \in Nat /\ n - (n - x) = x
    OBVIOUS
  <2>. QED
    BY <2>1
<1>2. PICK k \in T : \A l \in T : k <= l
  <2>1. T # {} /\ T \in SUBSET Nat
    BY <1>1
  <2> HIDE DEF T
  <2>. QED
    BY <2>1, Least
<1>3. \A y \in S : y <= n - k
  <2> TAKE y \in S
  <2>1. k <= n - y /\ y \in Nat /\ k \in Nat
    BY <1>1, <1>2
  <2>. QED
    BY <2>1
<1>. QED
    BY <1>3

(* Whole blocks and the rest.                                              *)
LEMMA DivMod ==
    ASSUME NEW s \in Nat, NEW M \in Nat \ {0}
    PROVE  /\ s \div M \in Nat
           /\ s % M \in Nat
           /\ s % M < M
           /\ s = (s \div M) * M + (s % M)
<1>1. s \div M \in Nat /\ s % M \in Nat
    BY SMT
<1>2. s % M \in 0..(M - 1)
    BY SMT
<1>3. s = M * (s \div M) + (s % M)
    BY SMT
<1>. QED
    BY <1>1, <1>2, <1>3

(* A key is twice the offset, and one more with the fin bit.               *)
LEMMA Halves ==
    ASSUME NEW k \in Nat
    PROVE  /\ (2 * k) % 2 = 0 /\ (2 * k + 1) % 2 = 1
           /\ (2 * k) \div 2 = k /\ (2 * k + 1) \div 2 = k
BY SMT

(* The offset of block j.                                                  *)
Off(j) == j * MaxData

(* The blocks lie one after the other.                                     *)
LEMMA Offsets ==
    /\ Off(0) = 0
    /\ \A j \in Nat : Off(j) \in Nat /\ Off(j + 1) = Off(j) + MaxData
    /\ \A j, k \in Nat : j < k => Off(j) + MaxData <= Off(k)
<1>1. MaxData \in Nat
    BY LimitAssumption
<1>2. \A j \in Nat : Off(j) \in Nat /\ Off(j + 1) = Off(j) + MaxData
    BY <1>1 DEF Off
<1>3. ASSUME NEW j \in Nat, NEW k \in Nat, j < k PROVE Off(j) + MaxData <= Off(k)
  <2>1. k - j - 1 \in Nat
    BY <1>3
  <2>2. \A x \in Nat : x * MaxData >= 0
    BY <1>1
  <2>3. (k - j - 1) * MaxData = k * MaxData - j * MaxData - MaxData
    BY <1>1
  <2>4. k * MaxData - j * MaxData - MaxData >= 0
    BY <2>1, <2>2, <2>3
  <2>. QED
    BY <1>1, <2>4 DEF Off
<1>. QED
    BY <1>1, <1>2, <1>3 DEF Off

----------------------------------------------------------------------------
(* Cutting: publishNamedObject's two loops make blocks 0..LastBlock(size),  *)
(* the last of which carries the fin bit and what is left of the object.    *)

LastBlock(size) ==
    IF size % MaxData = 0 THEN size \div MaxData - 1 ELSE size \div MaxData

Block(size, j) ==
    [key |-> 2 * Off(j) + (IF j = LastBlock(size) THEN 1 ELSE 0),
     len |-> IF j = LastBlock(size) THEN size - Off(j) ELSE MaxData]

(* Where the last block lies.                                              *)
LEMMA LastBlockFacts ==
    ASSUME NEW size \in Nat \ {0}
    PROVE  /\ LastBlock(size) \in Nat
           /\ Off(LastBlock(size)) < size
           /\ size <= Off(LastBlock(size)) + MaxData
           /\ size > MaxData => LastBlock(size) # 0
           /\ size <= MaxData => LastBlock(size) = 0
<1> DEFINE w == size \div MaxData
           r == size % MaxData
<1>1. MaxData \in Nat \ {0}
    BY LimitAssumption
<1>2. w \in Nat /\ r \in Nat /\ r < MaxData /\ size = Off(w) + r
    BY <1>1, DivMod DEF Off
<1>3. LastBlock(size) = IF r = 0 THEN w - 1 ELSE w
    BY DEF LastBlock
<1> HIDE DEF w, r
<1>4. r = 0 => w # 0
    BY <1>1, <1>2, Offsets
<1>5. LastBlock(size) \in Nat
    BY <1>2, <1>3, <1>4
<1>6. r = 0 => Off(w) = Off(LastBlock(size)) + MaxData
  <2>1. r = 0 => LastBlock(size) + 1 = w
    BY <1>2, <1>3
  <2>. QED
    BY <1>5, <2>1, Offsets
<1>7. Off(LastBlock(size)) \in Nat
    BY <1>5, Offsets
<1>8. Off(LastBlock(size)) < size /\ size <= Off(LastBlock(size)) + MaxData
    BY <1>1, <1>2, <1>3, <1>6, <1>7
<1>9. size > MaxData => LastBlock(size) # 0
    BY <1>1, <1>8, Offsets
<1>10. size <= MaxData => LastBlock(size) = 0
  <2> SUFFICES ASSUME LastBlock(size) # 0 PROVE size > MaxData
    BY <1>1
  <2>1. Off(0) + MaxData <= Off(LastBlock(size))
    BY <1>5, Offsets
  <2>. QED
    BY <1>1, <1>7, <1>8, <2>1, Offsets
<1>. QED
    BY <1>5, <1>8, <1>9, <1>10

(* The fragments of an object are its blocks.                              *)
LEMMA FragmentsAreBlocks ==
    ASSUME NEW size \in Nat \ {0}
    PROVE  Fragments(size) = {Block(size, j) : j \in 0..LastBlock(size)}
<1> DEFINE w == size \div MaxData
           r == size % MaxData
           L == LastBlock(size)
<1>1. MaxData \in Nat \ {0}
    BY LimitAssumption
<1>2. w \in Nat /\ r \in Nat /\ r < MaxData /\ size = Off(w) + r
    BY <1>1, DivMod DEF Off
<1>3. L = IF r = 0 THEN w - 1 ELSE w
    BY DEF LastBlock
<1>4. L \in Nat
    BY LastBlockFacts
<1>5. CASE size <= MaxData
  <2>1. Fragments(size) = {[key |-> 1, len |-> size]}
    BY <1>5 DEF Fragments
  <2>2. L = 0
    BY <1>5, LastBlockFacts
  <2>3. Block(size, 0) = [key |-> 1, len |-> size]
    BY <2>2, Offsets DEF Block
  <2>4. 0..L = {0}
    BY <2>2
  <2> HIDE DEF L
  <2>. QED
    BY <2>1, <2>3, <2>4 DEF L
<1>6. CASE size > MaxData
  <2> DEFINE fin(i) == IF i = w - 1 /\ r = 0 THEN 1 ELSE 0
             whole(i) == [key |-> 2 * i * MaxData + fin(i), len |-> MaxData]
             rest == [key |-> 2 * w * MaxData + 1, len |-> r]
  <2>1. Fragments(size) = {whole(i) : i \in 0..(w - 1)} \cup {rest : x \in {r} \ {0}}
    BY <1>1, <1>6 DEF Fragments
  <2>2. \A i \in 0..(w - 1) : 2 * i * MaxData = 2 * Off(i)
    BY <1>1, <1>2 DEF Off
  <2>3. 2 * w * MaxData = 2 * Off(w)
    BY <1>1, <1>2 DEF Off
  <2>4. ASSUME NEW i \in 0..(w - 1) PROVE i \in 0..L /\ whole(i) = Block(size, i)
    <3>1. i = L <=> i = w - 1 /\ r = 0
      BY <1>2, <1>3
    <3>2. i \in 0..L
      BY <1>2, <1>3
    <3>3. CASE i = L
      <4>1. i + 1 = w /\ r = 0 /\ i \in Nat
        BY <1>2, <3>1, <3>3
      <4>2. size = Off(i) + MaxData
        BY <1>2, <4>1, Offsets
      <4>3. size - Off(i) = MaxData
        BY <1>1, <4>1, <4>2, Offsets
      <4>. QED
        BY <2>2, <3>1, <3>2, <3>3, <4>3 DEF Block
    <3>4. CASE i # L
      BY <2>2, <3>1, <3>2, <3>4 DEF Block
    <3>. QED
      BY <3>3, <3>4
  <2>5. ASSUME r # 0 PROVE w \in 0..L /\ rest = Block(size, w)
    <3>1. w = L
      BY <1>3, <2>5
    <3>2. size - Off(w) = r
      BY <1>2, Offsets
    <3>. QED
      BY <1>2, <2>3, <3>1, <3>2 DEF Block
  <2>6. \A j \in 0..L : j \in 0..(w - 1) \/ (r # 0 /\ j = w)
    BY <1>2, <1>3
  <2> HIDE DEF whole, rest, w, r, L
  <2>7. Fragments(size) \subseteq {Block(size, j) : j \in 0..L}
    BY <2>1, <2>4, <2>5
  <2>8. {Block(size, j) : j \in 0..L} \subseteq Fragments(size)
    BY <2>1, <2>4, <2>5, <2>6
  <2>. QED
    BY <2>7, <2>8 DEF L
<1>. QED
    BY <1>1, <1>5, <1>6

(* A block's key gives its offset and tells whether it is the last one; it  *)
(* ends where the next one starts, the last one at the end of the object.   *)
LEMMA BlockFacts ==
    ASSUME NEW size \in Nat \ {0}, NEW j \in 0..LastBlock(size)
    PROVE  /\ Block(size, j).key \in Nat
           /\ Block(size, j).key \div 2 = Off(j)
           /\ Block(size, j).key % 2 = 1 <=> j = LastBlock(size)
           /\ Block(size, j).len \in Nat \ {0}
           /\ Off(j) + Block(size, j).len =
                 IF j = LastBlock(size) THEN size ELSE Off(j + 1)
<1> DEFINE b == Block(size, j)
<1>1. LastBlock(size) \in Nat /\ Off(LastBlock(size)) < size
    BY LastBlockFacts
<1>2. j \in Nat /\ Off(j) \in Nat /\ Off(j + 1) = Off(j) + MaxData /\ MaxData \in Nat \ {0}
    BY <1>1, Offsets, LimitAssumption
<1>3. CASE j = LastBlock(size)
  <2>1. b.key = 2 * Off(j) + 1 /\ b.len = size - Off(j)
    BY <1>3 DEF Block
  <2>2. b.key \in Nat /\ b.key % 2 = 1 /\ b.key \div 2 = Off(j)
    BY <1>2, <2>1, Halves
  <2>3. b.len \in Nat \ {0} /\ Off(j) + b.len = size
    BY <1>1, <1>2, <1>3, <2>1
  <2>. QED
    BY <1>3, <2>2, <2>3
<1>4. CASE j # LastBlock(size)
  <2>1. b.key = 2 * Off(j) /\ b.len = MaxData
    BY <1>2, <1>4 DEF Block
  <2>2. b.key \in Nat /\ b.key % 2 = 0 /\ b.key \div 2 = Off(j)
    BY <1>2, <2>1, Halves
  <2>3. 0 # 1
    OBVIOUS
  <2>. QED
    BY <1>2, <1>4, <2>1, <2>2, <2>3
<1>. QED
    BY <1>3, <1>4

(* The keys are in the order of the blocks.                                *)
LEMMA BlockOrder ==
    ASSUME NEW size \in Nat \ {0},
           NEW j \in 0..LastBlock(size), NEW k \in 0..LastBlock(size)
    PROVE  /\ j < k <=> Block(size, j).key < Block(size, k).key
           /\ Block(size, j) = Block(size, k) => j = k
<1>1. LastBlock(size) \in Nat
    BY LastBlockFacts
<1>2. j \in Nat /\ k \in Nat /\ MaxData \in Nat \ {0}
    BY <1>1, LimitAssumption
<1>3. ASSUME NEW x \in 0..LastBlock(size), NEW y \in 0..LastBlock(size), x < y
      PROVE  Block(size, x).key < Block(size, y).key
  <2>1. x \in Nat /\ y \in Nat /\ x # LastBlock(size)
    BY <1>1, <1>3
  <2>2. Off(x) \in Nat /\ Off(y) \in Nat /\ Off(x) + MaxData <= Off(y)
    BY <1>3, <2>1, Offsets
  <2>3. Block(size, x).key = 2 * Off(x)
    BY <2>1, <2>2 DEF Block
  <2>4. Block(size, y).key = 2 * Off(y) \/ Block(size, y).key = 2 * Off(y) + 1
    BY <2>2 DEF Block
  <2>. QED
    BY <1>2, <2>2, <2>3, <2>4
<1>4. Block(size, j).key \in Nat /\ Block(size, k).key \in Nat
    BY BlockFacts
<1>5. j < k \/ k < j \/ j = k
    BY <1>2
<1>. QED
    BY <1>2, <1>3, <1>4, <1>5

(* The fragment with the highest key of a set of fragments is that of the   *)
(* greatest block.                                                          *)
LEMMA LastOfFacts ==
    ASSUME NEW size \in Nat \ {0}, NEW fs \in SUBSET Fragments(size), fs # {}
    PROVE  \E j \in 0..LastBlock(size) :
             /\ LastOf(fs) = Block(size, j)
             /\ Block(size, j) \in fs
             /\ \A k \in 0..LastBlock(size) : Block(size, k) \in fs => k <= j
<1> DEFINE L == LastBlock(size)
           J == {j \in 0..L : Block(size, j) \in fs}
<1>1. L \in Nat
    BY LastBlockFacts
<1>2. \A f \in fs : \E j \in J : f = Block(size, j)
    BY FragmentsAreBlocks
<1>3. PICK j \in J : \A k \in J : k <= j
  <2>1. J \in SUBSET Nat /\ J # {} /\ \A x \in J : x <= L
    BY <1>1, <1>2
  <2> HIDE DEF J, L
  <2>. QED
    BY <1>1, <2>1, Greatest
<1>4. \A k \in J : Block(size, k).key <= Block(size, j).key
  <2> TAKE k \in J
  <2>1. k \in 0..L /\ j \in 0..L /\ k <= j
    BY <1>3
  <2>2. Block(size, j).key \in Nat /\ Block(size, k).key \in Nat
    BY <2>1, BlockFacts
  <2>3. ~(Block(size, j).key < Block(size, k).key)
    BY <1>1, <2>1, BlockOrder
  <2>. QED
    BY <2>2, <2>3
<1>5. /\ LastOf(fs) \in fs
      /\ \A g \in fs : g.key <= LastOf(fs).key
  <2>1. \E f \in fs : \A g \in fs : g.key <= f.key
    BY <1>2, <1>4
  <2>. QED
    BY <2>1 DEF LastOf
<1>6. PICK k \in J : LastOf(fs) = Block(size, k)
    BY <1>2, <1>5
<1>7. k = j
  <2>1. Block(size, j).key <= Block(size, k).key
    BY <1>5, <1>6
  <2>2. Block(size, j).key \in Nat /\ Block(size, k).key \in Nat
    BY BlockFacts
  <2>3. ~(k < j)
    BY <2>1, <2>2, BlockOrder
  <2>4. k <= j /\ k \in Nat /\ j \in Nat
    BY <1>1, <1>3
  <2>. QED
    BY <2>3, <2>4
<1>. QED
    BY <1>3, <1>6, <1>7

(* seq_bytes in front of block j, when block p is the one before it in fs.  *)
LEMMA SeqBytes ==
    ASSUME NEW size \in Nat \ {0}, NEW fs \in SUBSET Fragments(size),
           NEW j \in 0..LastBlock(size), Block(size, j) \in fs
    PROVE  \/ /\ seq_bytes(fs, Block(size, j)) = 0
              /\ \A k \in 0..LastBlock(size) : Block(size, k) \in fs => ~(k < j)
           \/ \E p \in 0..LastBlock(size) :
                 /\ p < j
                 /\ Block(size, p) \in fs
                 /\ \A k \in 0..LastBlock(size) : Block(size, k) \in fs /\ k < j => k <= p
                 /\ seq_bytes(fs, Block(size, j)) = Off(p + 1)
<1> DEFINE L == LastBlock(size)
           f == Block(size, j)
           before == {g \in fs : g.key < f.key}
<1>1. \A k \in 0..L : Block(size, k) \in before <=> Block(size, k) \in fs /\ k < j
    BY BlockOrder
<1>2. CASE before = {}
  <2>1. seq_bytes(fs, f) = 0
    BY <1>2 DEF seq_bytes
  <2>. QED
    BY <1>1, <1>2, <2>1
<1>3. CASE before # {}
  <2>1. before \in SUBSET Fragments(size)
    OBVIOUS
  <2>2. seq_bytes(fs, f) = LastOf(before).key \div 2 + LastOf(before).len
    BY <1>3 DEF seq_bytes
  <2> HIDE DEF before, f
  <2>3. PICK p \in 0..L :
          /\ LastOf(before) = Block(size, p)
          /\ Block(size, p) \in before
          /\ \A k \in 0..L : Block(size, k) \in before => k <= p
    BY <1>3, <2>1, LastOfFacts
  <2>4. p < j /\ Block(size, p) \in fs
    BY <1>1, <2>3
  <2>5. p # L
    BY <2>4, LastBlockFacts
  <2>6. LastOf(before).key \div 2 + LastOf(before).len = Off(p + 1)
    BY <2>3, <2>5, BlockFacts
  <2>. QED
    BY <1>1, <2>2, <2>3, <2>4, <2>6 DEF f
<1>. QED
    BY <1>2, <1>3

(* notify_pub_fragment's check is exact: of the sets of fragments of an     *)
(* object it accepts the one that holds all of them, and no other.          *)
LEMMA CompleteIsExact ==
    ASSUME NEW size \in Nat \ {0}, NEW fs \in SUBSET Fragments(size), fs # {}
    PROVE  Complete(fs) <=> fs = Fragments(size)
<1> DEFINE L == LastBlock(size)
<1>1. L \in Nat
    BY LastBlockFacts
<1>2. ASSUME fs = Fragments(size) PROVE Complete(fs)
  <2>1. \A k \in 0..L : Block(size, k) \in fs
    BY <1>2, FragmentsAreBlocks
  <2>2. LastOf(fs).key % 2 = 1
    <3>1. PICK j \in 0..L : /\ LastOf(fs) = Block(size, j)
                             /\ \A k \in 0..L : Block(size, k) \in fs => k <= j
      BY LastOfFacts
    <3>2. j = L
      BY <1>1, <2>1, <3>1
    <3>. QED
      BY <3>1, <3>2, BlockFacts
  <2>3. ASSUME NEW j \in 0..L
        PROVE  Block(size, j).key \div 2 = seq_bytes(fs, Block(size, j))
    <3>1. Block(size, j).key \div 2 = Off(j)
      BY BlockFacts
    <3>2. CASE j = 0
      <4>1. \A p \in 0..L : ~(p < j)
        BY <1>1, <3>2
      <4>2. seq_bytes(fs, Block(size, j)) = 0
        BY <2>1, <4>1, SeqBytes
      <4>. QED
        BY <3>1, <3>2, <4>2, Offsets
    <3>3. CASE j # 0
      <4>1. j - 1 \in 0..L /\ j - 1 < j
        BY <1>1, <3>3
      <4>2. PICK p \in 0..L :
              /\ p < j
              /\ \A k \in 0..L : Block(size, k) \in fs /\ k < j => k <= p
              /\ seq_bytes(fs, Block(size, j)) = Off(p + 1)
        BY <2>1, <4>1, SeqBytes
      <4>3. p + 1 = j
        BY <1>1, <2>1, <4>1, <4>2
      <4>. QED
        BY <3>1, <4>2, <4>3
    <3>. QED
      BY <3>2, <3>3
  <2>. QED
    BY <2>2, <2>3, FragmentsAreBlocks DEF Complete
<1>3. ASSUME Complete(fs), fs # Fragments(size) PROVE FALSE
  <2>1. PICK i \in 0..L : Block(size, i) \notin fs
    BY <1>3, FragmentsAreBlocks
  <2>2. Block(size, L) \in fs
    <3>1. PICK j \in 0..L : LastOf(fs) = Block(size, j) /\ Block(size, j) \in fs
      BY LastOfFacts
    <3>2. Block(size, j).key % 2 = 1
      BY <1>3, <3>1 DEF Complete
    <3>. QED
      BY <3>1, <3>2, BlockFacts
  <2> DEFINE above == {k \in 0..L : Block(size, k) \in fs /\ k > i}
  <2>3. PICK j \in above : \A k \in above : j <= k
    <3>1. L \in above /\ above \in SUBSET Nat
      BY <1>1, <2>1, <2>2
    <3> HIDE DEF above
    <3>. QED
      BY <3>1, Least
  <2>4. j \in 0..L /\ Block(size, j) \in fs /\ j > i
    BY <2>3
  <2>5. Off(j) = seq_bytes(fs, Block(size, j))
    BY <1>3, <2>4, BlockFacts DEF Complete
  <2>6. i \in Nat /\ j \in Nat /\ MaxData \in Nat \ {0}
    BY <1>1, LimitAssumption
  <2>7. Off(i) \in Nat /\ Off(j) \in Nat /\ Off(i) + MaxData <= Off(j)
    BY <2>4, <2>6, Offsets
  <2>8. CASE seq_bytes(fs, Block(size, j)) = 0
    BY <2>5, <2>6, <2>7, <2>8
  <2>9. ASSUME NEW p \in 0..L, p < j, Block(size, p) \in fs,
               seq_bytes(fs, Block(size, j)) = Off(p + 1)
        PROVE  FALSE
    <3>1. p < i
      BY <1>1, <2>1, <2>3, <2>6, <2>9
    <3>2. p + 1 \in Nat /\ (p + 1 = i \/ p + 1 < i)
      BY <1>1, <2>6, <3>1
    <3>3. Off(p + 1) \in Nat /\ Off(p + 1) <= Off(i)
      BY <2>6, <2>7, <3>2, Offsets
    <3>. QED
      BY <2>5, <2>6, <2>7, <2>9, <3>3
  <2>. QED
    BY <2>4, <2>8, <2>9, SeqBytes
<1>. QED
    BY <1>2, <1>3

(* All fragments together are the object: each byte is in one of them, at   *)
(* its place, and in no other.                                              *)
LEMMA FragmentsPartition ==
    ASSUME NEW size \in Nat \ {0}
    PROVE  /\ UNION {Bytes(f) : f \in Fragments(size)} = 0..(size - 1)
           /\ \A f, g \in Fragments(size) : f # g => Bytes(f) \cap Bytes(g) = {}
<1> DEFINE L == LastBlock(size)
           end(j) == IF j = L THEN size ELSE Off(j + 1)
<1>1. L \in Nat /\ Off(L) < size /\ size <= Off(L) + MaxData /\ MaxData \in Nat \ {0}
    BY LastBlockFacts, LimitAssumption
<1>2. \A j \in 0..L : j \in Nat /\ Off(j) \in Nat /\ Off(j + 1) = Off(j) + MaxData
    BY <1>1, Offsets
<1>3. ASSUME NEW j \in 0..L
      PROVE  Bytes(Block(size, j)) = Off(j)..(end(j) - 1)
  <2>1. Block(size, j).key \div 2 = Off(j) /\ Off(j) + Block(size, j).len = end(j)
    BY BlockFacts
  <2>2. Block(size, j).len \in Nat /\ Off(j) \in Nat
    BY <1>2, BlockFacts
  <2>3. Block(size, j).key \div 2 + Block(size, j).len - 1 = end(j) - 1
    BY <2>1, <2>2
  <2> HIDE DEF end
  <2>. QED
    BY <2>1, <2>3 DEF Bytes
<1>4. ASSUME NEW j \in 0..L, NEW k \in 0..L, j < k
      PROVE  end(j) <= Off(k)
  <2>1. j # L /\ end(j) = Off(j) + MaxData
    BY <1>1, <1>2, <1>4
  <2>. QED
    BY <1>2, <1>4, <2>1, Offsets
<1>5. \A j \in 0..L : end(j) \in Nat /\ end(j) <= size
  <2> TAKE j \in 0..L
  <2>1. CASE j = L
    BY <2>1
  <2>2. CASE j # L
    <3>1. j < L /\ L \in 0..L
      BY <1>1, <2>2
    <3>2. end(j) <= Off(L)
      BY <1>4, <3>1
    <3>. QED
      BY <1>1, <1>2, <2>2, <3>1, <3>2
  <2>. QED
    BY <2>1, <2>2
<1>6. ASSUME NEW b \in 0..(size - 1)
      PROVE  \E j \in 0..L : b \in Off(j)..(end(j) - 1)
  <2> DEFINE starts == {j \in 0..L : Off(j) <= b}
  <2>1. 0 \in starts
    BY <1>1, Offsets
  <2>2. PICK j \in starts : \A k \in starts : k <= j
    <3>1. starts \in SUBSET Nat /\ starts # {} /\ \A x \in starts : x <= L
      BY <1>1, <2>1
    <3> HIDE DEF starts
    <3>. QED
      BY <1>1, <3>1, Greatest
  <2>3. j \in 0..L /\ Off(j) <= b
    BY <2>2
  <2>4. b < end(j)
    <3>1. CASE j = L
      BY <3>1
    <3>2. CASE j # L
      <4>1. j + 1 \in 0..L /\ ~(j + 1 <= j)
        BY <1>1, <2>3, <3>2
      <4>2. ~(Off(j + 1) <= b)
        BY <2>2, <4>1
      <4>. QED
        BY <1>1, <1>2, <2>3, <3>2, <4>2
    <3>. QED
      BY <3>1, <3>2
  <2>. QED
    BY <1>2, <1>5, <2>3, <2>4
<1> HIDE DEF end
<1>7. \A j \in 0..L : \A b \in Bytes(Block(size, j)) : b \in 0..(size - 1)
    BY <1>2, <1>3, <1>5
<1>8. \A b \in 0..(size - 1) : \E j \in 0..L : b \in Bytes(Block(size, j))
    BY <1>3, <1>6
<1>9. ASSUME NEW j \in 0..L, NEW k \in 0..L, j # k
      PROVE  Bytes(Block(size, j)) \cap Bytes(Block(size, k)) = {}
  <2>1. j < k \/ k < j
    BY <1>2, <1>9
  <2>2. end(j) <= Off(k) \/ end(k) <= Off(j)
    BY <1>4, <2>1
  <2>. QED
    BY <1>2, <1>3, <1>5, <2>2
<1>10. Fragments(size) = {Block(size, j) : j \in 0..L}
    BY FragmentsAreBlocks
<1> HIDE DEF L
<1>. QED
    BY <1>7, <1>8, <1>9, <1>10

(* An object has finitely many fragments, one if it fits into a message and *)
(* more otherwise; only the single one has the key 1.                       *)
LEMMA FragmentCount ==
    ASSUME NEW size \in Nat \ {0}
    PROVE  /\ IsFiniteSet(Fragments(size))
           /\ Fragments(size) # {}
           /\ Cardinality(Fragments(size)) \in Nat
           /\ \A f \in Fragments(size) : f.key = 1 => Fragments(size) = {f}
           /\ \A f \in Fragments(size) : f.key # 1 => Fragments(size) # {f}
<1> DEFINE L == LastBlock(size)
           b == [j \in 0..L |-> Block(size, j)]
<1>1. L \in Nat /\ Fragments(size) = {Block(size, j) : j \in 0..L}
    BY LastBlockFacts, FragmentsAreBlocks
<1>2. b \in Surjection(0..L, Fragments(size))
    BY <1>1 DEF Surjection
<1>3. IsFiniteSet(0..L)
    BY <1>1, FS_Interval
<1>4. IsFiniteSet(Fragments(size))
  <2> HIDE DEF b, L
  <2>. QED
    BY <1>2, <1>3, FS_Surjection
<1>5. Cardinality(Fragments(size)) \in Nat
    BY <1>4, FS_CardinalityType
<1>6. Fragments(size) # {}
  <2>1. 0 \in 0..L
    BY <1>1
  <2>. QED
    BY <1>1, <2>1
<1>7. CASE size <= MaxData
  <2>1. Fragments(size) = {[key |-> 1, len |-> size]}
    BY <1>7 DEF Fragments
  <2>. QED
    BY <1>4, <1>5, <2>1
<1>8. CASE size > MaxData
  <2>1. L # 0 /\ 0 \in 0..L /\ L \in 0..L
    BY <1>1, <1>8, LastBlockFacts
  <2>2. \A f : Fragments(size) # {f}
    BY <1>1, <2>1, BlockOrder
  <2>3. MaxData \in Nat \ {0}
    BY LimitAssumption
  <2>4. ASSUME NEW j \in 0..L PROVE Block(size, j).key # 1
    <3>1. j \in Nat /\ Off(j) \in Nat
      BY <1>1, Offsets
    <3>2. CASE j = 0
      BY <2>1, <3>2, Offsets DEF Block
    <3>3. CASE j # 0
      <4>1. Off(j) >= 1
        BY <2>3, <3>1, <3>3, Offsets
      <4>. QED
        BY <3>1, <4>1 DEF Block
    <3>. QED
      BY <3>2, <3>3
  <2>. QED
    BY <1>1, <1>4, <1>5, <1>6, <2>2, <2>4
<1>. QED
    BY <1>7, <1>8, LimitAssumption

----------------------------------------------------------------------------
(* The ring of buffers.                                                    *)

AnyFragment == UNION {Fragments(Size[nm]) : nm \in Name}

(* The buffers hold some of the fragments of a name.                       *)
Contents(fs) ==
    /\ fs \in [Buffer -> PartialFn(Name, SUBSET AnyFragment)]
    /\ \A i \in Buffer : IsFiniteSet(DOMAIN fs[i])
    /\ \A i \in Buffer : \A nm \in DOMAIN fs[i] :
          fs[i][nm] # {} /\ fs[i][nm] \subseteq Fragments(Size[nm])

(* The name is in one of them, or in none.                                 *)
Sole(fs, nm) ==
    \A i, j \in Buffer : nm \in DOMAIN fs[i] /\ nm \in DOMAIN fs[j] => i = j

(* size() counts the names.                                                *)
Counts(fs, cs) == \A i \in Buffer : cs[i] = Cardinality(DOMAIN fs[i])

(* What is under way or was delivered are fragments of the name's object,   *)
(* in a delivery all of them.                                               *)
NetOK ==
    \A m \in net : /\ m.to \in Client
                  /\ m.name \in Name
                  /\ m.frag \in Fragments(Size[m.name])
Delivery(c, nm) == [to |-> c, name |-> nm, frags |-> Fragments(Size[nm])]

DeliveredExact ==
    \A r \in DOMAIN delivered :
        /\ delivered[r] \in Nat
        /\ \E c \in Client, nm \in Name : r = Delivery(c, nm)

(* Names that were never hidden are found where they are, and only there.   *)
FoundOnce ==
    /\ \A i \in Buffer : hidden[i] \subseteq lost
    /\ \A nm \in Name \ lost : Sole(fragments, nm)
    /\ ~crossed => lost = {}

RingInv ==
    /\ TypeOK
    /\ Contents(fragments)
    /\ FoundOnce
    /\ count[cindex] < MaxNames
    /\ ~crossed => Counts(fragments, count)
    /\ NetOK
    /\ DeliveredExact

PutIn(fs, i, nm, S) == [fs EXCEPT ![i] = Put(@, nm, S)]
EraseIn(fs, i, nm) == [fs EXCEPT ![i] = EraseKeys(@, {nm})]

(* A name with some of its fragments put into a buffer.                     *)
LEMMA PutContents ==
    ASSUME NEW fs, Contents(fs), NEW i \in Buffer, NEW nm \in Name,
           NEW S, S # {}, S \subseteq Fragments(Size[nm]),
           NEW new, new = PutIn(fs, i, nm, S)
    PROVE  /\ Contents(new)
           /\ DOMAIN new[i] = DOMAIN fs[i] \cup {nm}
           /\ new[i][nm] = S
           /\ \A x \in DOMAIN fs[i] \ {nm} : new[i][x] = fs[i][x]
           /\ \A j \in Buffer \ {i} : new[j] = fs[j]
           /\ \A x \in Name : /\ Sole(fs, x)
                              /\ x = nm => \A j \in Buffer \ {i} : nm \notin DOMAIN fs[j]
                              => Sole(new, x)
<1> DEFINE p == Put(fs[i], nm, S)
<1>1. /\ DOMAIN p = DOMAIN fs[i] \cup {nm}
      /\ p[nm] = S
      /\ \A x \in DOMAIN fs[i] \ {nm} : p[x] = fs[i][x]
    BY DEF Put
<1>2. S \in SUBSET AnyFragment
    BY DEF AnyFragment
<1>3. p \in PartialFn(Name, SUBSET AnyFragment)
    BY <1>2, PutPartial DEF Contents
<1>4. IsFiniteSet(DOMAIN p)
    BY <1>1, FS_AddElement DEF Contents
<1>5. new[i] = p /\ \A j \in Buffer \ {i} : new[j] = fs[j]
    BY DEF Contents, PutIn
<1>6. new \in [Buffer -> PartialFn(Name, SUBSET AnyFragment)]
    BY <1>3 DEF Contents, PutIn
<1> HIDE DEF p
<1>7. \A j \in Buffer : IsFiniteSet(DOMAIN new[j])
    BY <1>4, <1>5 DEF Contents
<1>8. \A j \in Buffer : \A x \in DOMAIN new[j] :
        new[j][x] # {} /\ new[j][x] \subseteq Fragments(Size[x])
    BY <1>1, <1>5 DEF Contents
<1>9. \A x \in Name : /\ Sole(fs, x)
                      /\ x = nm => \A j \in Buffer \ {i} : nm \notin DOMAIN fs[j]
                      => Sole(new, x)
    BY <1>1, <1>5 DEF Sole
<1>. QED
    BY <1>1, <1>5, <1>6, <1>7, <1>8, <1>9 DEF Contents

(* A name taken out of a buffer.                                           *)
LEMMA EraseContents ==
    ASSUME NEW fs, Contents(fs), NEW i \in Buffer, NEW nm,
           NEW new, new = EraseIn(fs, i, nm)
    PROVE  /\ Contents(new)
           /\ DOMAIN new[i] = DOMAIN fs[i] \ {nm}
           /\ \A x \in DOMAIN new[i] : new[i][x] = fs[i][x]
           /\ \A j \in Buffer \ {i} : new[j] = fs[j]
           /\ \A x \in Name : Sole(fs, x) => Sole(new, x)
<1> DEFINE p == EraseKeys(fs[i], {nm})
<1>1. /\ DOMAIN p = DOMAIN fs[i] \ {nm}
      /\ \A x \in DOMAIN p : p[x] = fs[i][x]
    BY DEF EraseKeys, Restrict
<1>2. p \in PartialFn(Name, SUBSET AnyFragment)
    BY ErasePartial DEF Contents
<1>3. IsFiniteSet(DOMAIN p)
    BY <1>1, FS_RemoveElement DEF Contents
<1>4. new[i] = p /\ \A j \in Buffer \ {i} : new[j] = fs[j]
    BY DEF Contents, EraseIn
<1>5. new \in [Buffer -> PartialFn(Name, SUBSET AnyFragment)]
    BY <1>2 DEF Contents, EraseIn
<1> HIDE DEF p
<1>6. \A j \in Buffer : IsFiniteSet(DOMAIN new[j])
    BY <1>3, <1>4 DEF Contents
<1>7. \A j \in Buffer : \A x \in DOMAIN new[j] :
        new[j][x] # {} /\ new[j][x] \subseteq Fragments(Size[x])
    BY <1>1, <1>4 DEF Contents
<1>8. \A x \in Name : Sole(fs, x) => Sole(new, x)
    BY <1>1, <1>4 DEF Sole
<1>. QED
    BY <1>1, <1>4, <1>5, <1>6, <1>7, <1>8 DEF Contents

(* What the end of handle_pub_fragment leaves of the contents fs: every      *)
(* name with what it has, or among the purged ones.                          *)
MovedOn(fs) ==
    /\ purged \subseteq purged'
    /\ \A i \in Buffer : \A nm \in DOMAIN fragments'[i] :
          nm \in DOMAIN fs[i] /\ fragments'[i][nm] = fs[i][nm]
    /\ \A i \in Buffer : \A nm \in DOMAIN fs[i] :
          nm \in purged' \/ nm \in DOMAIN fragments'[i]

(* The current index goes round, and the buffer it comes to has room.       *)
LEMMA MoveOnFacts ==
    ASSUME NEW fs, NEW cs \in [Buffer -> 0..SizeMax], NEW br \in SUBSET Buffer,
           NEW hd \in [Buffer -> SUBSET Name],
           Contents(fs), cindex \in Buffer, purged \subseteq Name, moveOn(fs, cs, br, hd)
    PROVE  /\ cindex' \in Buffer
           /\ Contents(fragments')
           /\ count' \in [Buffer -> 0..SizeMax]
           /\ count'[cindex'] < MaxNames
           /\ broken' \subseteq Buffer
           /\ hidden' \in [Buffer -> SUBSET Name]
           /\ \A i \in Buffer : hidden'[i] \subseteq hd[i]
           /\ purged' \subseteq Name
           /\ Counts(fs, cs) => Counts(fragments', count')
           /\ MovedOn(fs)
<1>1. MaxNames \in Nat \ {0} /\ MaxBuffers \in Nat \ {0} /\ SizeMax \in Nat
    BY LimitAssumption
<1>2. CASE ~Full(cs[cindex])
  <2>1. /\ fragments' = fs /\ count' = cs /\ broken' = br /\ hidden' = hd
        /\ UNCHANGED <<cindex, purged>>
    BY <1>2 DEF moveOn
  <2>2. cs[cindex] < MaxNames
    BY <1>1, <1>2 DEF Full
  <2>. QED
    BY <2>1, <2>2 DEF MovedOn
<1>3. CASE Full(cs[cindex])
  <2>1. NextIndex \in Buffer
    BY <1>1 DEF NextIndex, Buffer
  <2>2. /\ cindex' = NextIndex
        /\ fragments' = [fs EXCEPT ![NextIndex] = EmptyMap]
        /\ count' = [cs EXCEPT ![NextIndex] = 0]
        /\ purged' = purged \cup DOMAIN fs[NextIndex]
        /\ broken' = br \ {NextIndex}
        /\ hidden' = [hd EXCEPT ![NextIndex] = {}]
    BY <1>3 DEF moveOn
  <2>3. PICK n \in Buffer : n = NextIndex
    BY <2>1
  <2>4. /\ fragments'[n] = EmptyMap /\ count'[n] = 0
        /\ \A i \in Buffer \ {n} : fragments'[i] = fs[i] /\ count'[i] = cs[i]
        /\ fragments' = [i \in Buffer |-> fragments'[i]]
        /\ count' \in [Buffer -> 0..SizeMax]
    <3>1. fs = [i \in Buffer |-> fs[i]]
      BY DEF Contents
    <3>2. 0 \in 0..SizeMax
      BY <1>1
    <3>. QED
      BY <2>2, <2>3, <3>1, <3>2
  <2>5. /\ DOMAIN fragments'[n] = {}
        /\ fragments'[n] \in PartialFn(Name, SUBSET AnyFragment)
        /\ IsFiniteSet({}) /\ Cardinality({}) = 0
    BY <2>4, EmptyPartial, FS_EmptySet DEF EmptyMap
  <2>6. \A i \in Buffer : fs[i] \in PartialFn(Name, SUBSET AnyFragment)
    BY DEF Contents
  <2>7. fragments' \in [Buffer -> PartialFn(Name, SUBSET AnyFragment)]
    BY <2>4, <2>5, <2>6
  <2>8. Contents(fragments')
    <3>1. \A i \in Buffer : IsFiniteSet(DOMAIN fragments'[i])
      BY <2>4, <2>5 DEF Contents
    <3>2. \A i \in Buffer : \A nm \in DOMAIN fragments'[i] :
            fragments'[i][nm] # {} /\ fragments'[i][nm] \subseteq Fragments(Size[nm])
      BY <2>4, <2>5 DEF Contents
    <3>. QED
      BY <2>7, <3>1, <3>2 DEF Contents
  <2>9. Counts(fs, cs) => Counts(fragments', count')
    BY <2>4, <2>5 DEF Counts
  <2>10. purged' \subseteq Name
    BY <2>2, <2>3, <2>6, PartialFnIff
  <2>11. MovedOn(fs)
    BY <2>2, <2>3, <2>4, <2>5 DEF MovedOn
  <2>12. count'[cindex'] < MaxNames
    BY <1>1, <2>2, <2>3, <2>4
  <2>13. /\ hidden' \in [Buffer -> SUBSET Name]
         /\ \A i \in Buffer : hidden'[i] \subseteq hd[i]
    BY <2>2, <2>3
  <2>. QED
    BY <2>2, <2>3, <2>4, <2>8, <2>9, <2>10, <2>11, <2>12, <2>13
<1>. QED
    BY <1>2, <1>3

(* The search finds a buffer that has the name, if there is one.            *)
LEMMA BufferOfFacts ==
    ASSUME NEW nm, cindex \in Buffer
    PROVE  /\ \A i \in BufferOf(nm) : i \in Buffer /\ nm \in Found(i)
           /\ BufferOf(nm) = {} => \A i \in Buffer : nm \notin Found(i)
<1> DEFINE found == {i \in Buffer : nm \in Found(i)}
<1>1. CASE nm \in Found(cindex)
    BY <1>1 DEF BufferOf
<1>2. CASE nm \notin Found(cindex) /\ found = {}
    BY <1>2 DEF BufferOf
<1>3. CASE nm \notin Found(cindex) /\ found # {}
  <2>1. BufferOf(nm) = {Min(found)}
    BY <1>3 DEF BufferOf
  <2>2. found \in SUBSET Nat
    BY LimitAssumption DEF Buffer
  <2>3. \E x \in found : \A y \in found : x <= y
    <3> HIDE DEF found
    <3>. QED
      BY <1>3, <2>2, Least
  <2>4. Min(found) \in found
    BY <2>3 DEF Min
  <2>. QED
    BY <2>1, <2>4
<1>. QED
    BY <1>1, <1>2, <1>3

(* What the first part of handle_pub_fragment may leave in the buffers: the  *)
(* name is new or hidden, gets one fragment more, or is complete, delivered  *)
(* and gone.                                                                 *)
FirstPart(c, nm, f, fs) ==
    \/ /\ nm \notin lost => \A i \in Buffer : nm \notin DOMAIN fragments[i]
       /\ {f} # Fragments(Size[nm])
       /\ fs = PutIn(fragments, cindex, nm, {f})
       /\ UNCHANGED delivered
    \/ \E i \in Buffer :
          /\ nm \in DOMAIN fragments[i]
          /\ fragments[i][nm] \cup {f} # Fragments(Size[nm])
          /\ fs = PutIn(fragments, i, nm, fragments[i][nm] \cup {f})
          /\ UNCHANGED delivered
    \/ \E i \in Buffer :
          /\ nm \in DOMAIN fragments[i]
          /\ fragments[i][nm] \cup {f} = Fragments(Size[nm])
          /\ fs = EraseIn(fragments, i, nm)
          /\ deliver(c, nm, Fragments(Size[nm]))

(* What the ring is after the second part.                                  *)
RingPrime(fs) ==
    /\ cindex' \in Buffer
    /\ Contents(fragments')
    /\ count' \in [Buffer -> 0..SizeMax]
    /\ count'[cindex'] < MaxNames
    /\ ~crossed' => Counts(fragments', count')
    /\ broken' \subseteq Buffer
    /\ hidden' \in [Buffer -> SUBSET Name]
    /\ \A i \in Buffer : hidden'[i] \subseteq lost'
    /\ lost \subseteq lost' /\ lost' \subseteq Name
    /\ ~crossed' => lost' = {}
    /\ \A x \in Name \ lost' : Sole(fs, x)
    /\ purged' \subseteq Name
    /\ MovedOn(fs)

(* A new name goes into the current buffer.                                 *)
LEMMA NewFacts ==
    ASSUME RingInv, NEW c, NEW nm \in Name, NEW f \in Fragments(Size[nm]), f.key # 1,
           handle_new(nm, f)
    PROVE  \E fs : Contents(fs) /\ FirstPart(c, nm, f, fs) /\ RingPrime(fs)
<1>1. PICK fs, cs, br, hd : /\ fs = [fragments EXCEPT ![cindex] = Put(@, nm, {f})]
                            /\ cs = [count EXCEPT ![cindex] = @ + 1]
                            /\ br = broken
                            /\ hd = hidden
    OBVIOUS
<1>2. moveOn(fs, cs, br, hd) /\ UNCHANGED <<crossed, lost, delivered>>
    BY <1>1 DEF handle_new, moveOn
<1>3. /\ cindex \in Buffer /\ broken \in SUBSET Buffer /\ purged \subseteq Name
      /\ hidden \in [Buffer -> SUBSET Name] /\ lost \subseteq Name /\ FoundOnce
      /\ count \in [Buffer -> 0..SizeMax] /\ Contents(fragments)
      /\ count[cindex] < MaxNames
    BY DEF RingInv, TypeOK
<1>4. nm \notin lost => \A i \in Buffer : nm \notin DOMAIN fragments[i]
    BY <1>3, BufferOfFacts DEF handle_new, Found, FoundOnce
<1>5. Size[nm] \in Nat \ {0}
    BY SizeAssumption
<1>6. {f} # Fragments(Size[nm])
    BY <1>5, FragmentCount
<1>7. /\ Contents(fs)
      /\ DOMAIN fs[cindex] = DOMAIN fragments[cindex] \cup {nm}
      /\ \A j \in Buffer \ {cindex} : fs[j] = fragments[j]
      /\ \A x \in Name \ lost : Sole(fs, x)
  <2>1. fs = PutIn(fragments, cindex, nm, {f})
    BY <1>1 DEF PutIn
  <2>. QED
    BY <1>3, <1>4, <2>1, PutContents DEF FoundOnce
<1>8. /\ cs \in [Buffer -> 0..SizeMax]
      /\ cs[cindex] = count[cindex] + 1
      /\ \A j \in Buffer \ {cindex} : cs[j] = count[j]
    BY <1>1, <1>3, LimitAssumption
<1>9. ~crossed => Counts(fs, cs)
  <2> SUFFICES ASSUME ~crossed, NEW i \in Buffer PROVE cs[i] = Cardinality(DOMAIN fs[i])
    BY DEF Counts
  <2>1. count[i] = Cardinality(DOMAIN fragments[i]) /\ IsFiniteSet(DOMAIN fragments[i])
    BY DEF RingInv, Counts, Contents
  <2>2. nm \notin lost
    BY <1>3 DEF FoundOnce
  <2>. QED
    BY <1>3, <1>4, <1>7, <1>8, <2>1, <2>2, FS_AddElement
<1>10. FirstPart(c, nm, f, fs)
    BY <1>1, <1>2, <1>4, <1>6 DEF FirstPart, PutIn, EraseIn
<1>11. RingPrime(fs)
  <2>1. \A i \in Buffer : hidden'[i] \subseteq lost'
    BY <1>1, <1>2, <1>3, <1>7, <1>8, MoveOnFacts DEF FoundOnce
  <2>. QED
    BY <1>1, <1>2, <1>3, <1>7, <1>8, <1>9, <2>1, MoveOnFacts DEF RingPrime, FoundOnce
<1>. QED
    BY <1>7, <1>10, <1>11

(* One fragment more, which does not complete the object.                   *)
LEMMA MoreFacts ==
    ASSUME RingInv, NEW c, NEW nm \in Name, NEW f \in Fragments(Size[nm]),
           handle_more(nm, f)
    PROVE  \E fs : Contents(fs) /\ FirstPart(c, nm, f, fs) /\ RingPrime(fs)
<1>1. PICK i \in BufferOf(nm) :
        /\ ~Complete(With(i, nm, f))
        /\ moveOn([fragments EXCEPT ![i] = Put(@, nm, With(i, nm, f))], count, broken, hidden)
        /\ UNCHANGED <<crossed, lost, delivered>>
    BY DEF handle_more
<1>2. /\ cindex \in Buffer /\ broken \in SUBSET Buffer /\ purged \subseteq Name
      /\ hidden \in [Buffer -> SUBSET Name] /\ lost \subseteq Name /\ FoundOnce
      /\ count \in [Buffer -> 0..SizeMax] /\ Contents(fragments)
    BY DEF RingInv, TypeOK
<1>3. i \in Buffer /\ nm \in DOMAIN fragments[i]
    BY <1>2, BufferOfFacts DEF Found
<1>4. PICK fs, cs, br, hd, S : /\ S = fragments[i][nm] \cup {f}
                               /\ fs = [fragments EXCEPT ![i] = Put(@, nm, S)]
                               /\ cs = count
                               /\ br = broken
                               /\ hd = hidden
    OBVIOUS
<1>5. With(i, nm, f) = S
    BY <1>3, <1>4 DEF With
<1>6. moveOn(fs, cs, br, hd)
    BY <1>1, <1>4, <1>5 DEF moveOn
<1>7. S # {} /\ S \subseteq Fragments(Size[nm])
    BY <1>2, <1>3, <1>4 DEF Contents
<1>8. Size[nm] \in Nat \ {0}
    BY SizeAssumption
<1>9. S # Fragments(Size[nm])
    BY <1>1, <1>5, <1>7, <1>8, CompleteIsExact
<1>10. nm \notin lost => \A j \in Buffer \ {i} : nm \notin DOMAIN fragments[j]
    BY <1>2, <1>3 DEF FoundOnce, Sole
<1>11. /\ Contents(fs)
       /\ DOMAIN fs[i] = DOMAIN fragments[i] \cup {nm}
       /\ \A j \in Buffer \ {i} : fs[j] = fragments[j]
       /\ \A x \in Name \ lost : Sole(fs, x)
  <2>1. fs = PutIn(fragments, i, nm, S)
    BY <1>4 DEF PutIn
  <2>. QED
    BY <1>2, <1>3, <1>7, <1>10, <2>1, PutContents DEF FoundOnce
<1>12. DOMAIN fs[i] = DOMAIN fragments[i]
    BY <1>3, <1>11
<1>13. ~crossed => Counts(fs, cs)
    BY <1>4, <1>11, <1>12 DEF RingInv, Counts
<1>14. FirstPart(c, nm, f, fs)
    BY <1>1, <1>3, <1>4, <1>9 DEF FirstPart, PutIn, EraseIn
<1>15. RingPrime(fs)
  <2>1. \A j \in Buffer : hidden'[j] \subseteq lost'
    BY <1>1, <1>2, <1>4, <1>6, <1>11, MoveOnFacts DEF FoundOnce
  <2>. QED
    BY <1>1, <1>2, <1>4, <1>6, <1>11, <1>13, <2>1, MoveOnFacts DEF RingPrime, FoundOnce
<1>. QED
    BY <1>11, <1>14, <1>15

(* The last fragment, of a name in the current buffer ...                   *)
LEMMA LastFacts ==
    ASSUME RingInv, NEW c, NEW nm \in Name, NEW f \in Fragments(Size[nm]),
           handle_last(c, nm, f)
    PROVE  \E fs : Contents(fs) /\ FirstPart(c, nm, f, fs) /\ RingPrime(fs)
<1>1. PICK fs, cs, br, hd, S : /\ S = fragments[cindex][nm] \cup {f}
                               /\ fs = [fragments EXCEPT ![cindex] = EraseKeys(@, {nm})]
                               /\ cs = [count EXCEPT ![cindex] = Less(@)]
                               /\ br = broken
                               /\ hd = hidden
    OBVIOUS
<1>2. /\ cindex \in Buffer /\ broken \in SUBSET Buffer /\ purged \subseteq Name
      /\ hidden \in [Buffer -> SUBSET Name] /\ lost \subseteq Name /\ FoundOnce
      /\ count \in [Buffer -> 0..SizeMax] /\ Contents(fragments)
    BY DEF RingInv, TypeOK
<1>3. nm \in DOMAIN fragments[cindex]
    BY <1>2, BufferOfFacts DEF handle_last, Found
<1>4. With(cindex, nm, f) = S
    BY <1>1, <1>3 DEF With
<1>5. /\ Complete(S)
      /\ deliver(c, nm, S)
      /\ moveOn(fs, cs, br, hd)
      /\ UNCHANGED <<crossed, lost>>
    BY <1>1, <1>4 DEF handle_last, moveOn, deliver
<1>6. S # {} /\ S \subseteq Fragments(Size[nm])
    BY <1>1, <1>2, <1>3 DEF Contents
<1>7. Size[nm] \in Nat \ {0}
    BY SizeAssumption
<1>8. S = Fragments(Size[nm])
    BY <1>5, <1>6, <1>7, CompleteIsExact
<1>9. /\ Contents(fs)
      /\ DOMAIN fs[cindex] = DOMAIN fragments[cindex] \ {nm}
      /\ \A j \in Buffer \ {cindex} : fs[j] = fragments[j]
      /\ \A x \in Name \ lost : Sole(fs, x)
  <2>1. fs = EraseIn(fragments, cindex, nm)
    BY <1>1 DEF EraseIn
  <2>. QED
    BY <1>2, <2>1, EraseContents DEF FoundOnce
<1>10. \A n \in 0..SizeMax : Less(n) \in 0..SizeMax /\ (n # 0 => Less(n) = n - 1)
    BY LimitAssumption DEF Less
<1>11. /\ cs \in [Buffer -> 0..SizeMax]
       /\ cs[cindex] = Less(count[cindex])
       /\ \A j \in Buffer \ {cindex} : cs[j] = count[j]
    BY <1>1, <1>2, <1>10
<1>12. ~crossed => Counts(fs, cs)
  <2> SUFFICES ASSUME ~crossed, NEW i \in Buffer PROVE cs[i] = Cardinality(DOMAIN fs[i])
    BY DEF Counts
  <2>1. count[i] = Cardinality(DOMAIN fragments[i]) /\ IsFiniteSet(DOMAIN fragments[i])
    BY DEF RingInv, Counts, Contents
  <2>2. CASE i = cindex
    <3>1. count[i] # 0
      BY <1>3, <2>1, <2>2, FS_EmptySet
    <3>2. Cardinality(DOMAIN fs[i]) = count[i] - 1
      BY <1>3, <1>9, <2>1, <2>2, FS_RemoveElement
    <3>. QED
      BY <1>2, <1>10, <1>11, <2>2, <3>1, <3>2
  <2>3. CASE i # cindex
    BY <1>9, <1>11, <2>1, <2>3
  <2>. QED
    BY <2>2, <2>3
<1>13. FirstPart(c, nm, f, fs)
  <2>1. deliver(c, nm, Fragments(Size[nm]))
    BY <1>5, <1>8 DEF deliver
  <2>. QED
    BY <1>1, <1>2, <1>3, <1>8, <2>1 DEF FirstPart, PutIn, EraseIn
<1>14. RingPrime(fs)
  <2>1. \A j \in Buffer : hidden'[j] \subseteq lost'
    BY <1>1, <1>2, <1>5, <1>9, <1>11, MoveOnFacts DEF FoundOnce
  <2>. QED
    BY <1>1, <1>2, <1>5, <1>9, <1>11, <1>12, <2>1, MoveOnFacts DEF RingPrime, FoundOnce
<1>. QED
    BY <1>9, <1>13, <1>14

(* ... or in another one, erased through the current buffer's map.          *)
LEMMA ElsewhereFacts ==
    ASSUME RingInv, NEW c, NEW nm \in Name, NEW f \in Fragments(Size[nm]),
           handle_last_elsewhere(c, nm, f)
    PROVE  \E fs : Contents(fs) /\ FirstPart(c, nm, f, fs) /\ RingPrime(fs)
<1>1. PICK i \in BufferOf(nm) \ {cindex} :
        /\ Complete(With(i, nm, f))
        /\ deliver(c, nm, With(i, nm, f))
        /\ crossed' = TRUE
        /\ \/ \E br \in {broken \cup {i}}
                         \cup (IF DOMAIN fragments[i] \ {nm} = {} THEN {} ELSE {broken}),
                hd \in {hidden[i]}
                         \cup (IF MinRebalance <= Cardinality(DOMAIN fragments[i] \ {nm}) + 1
                               THEN SUBSET (DOMAIN fragments[i] \ {nm}) ELSE {}) :
                /\ moveOn([fragments EXCEPT ![i] = EraseKeys(@, {nm})],
                          [count EXCEPT ![cindex] = Less(@)],
                          br, [hidden EXCEPT ![i] = hd])
                /\ lost' = lost \cup hd
           \/ /\ fragments' = [fragments EXCEPT ![i] = EraseKeys(@, {nm})]
              /\ UNCHANGED <<cindex, count, broken, hidden, lost, purged>>
    BY DEF handle_last_elsewhere
<1>2. /\ cindex \in Buffer /\ broken \in SUBSET Buffer /\ purged \subseteq Name
      /\ hidden \in [Buffer -> SUBSET Name] /\ lost \subseteq Name /\ FoundOnce
      /\ count \in [Buffer -> 0..SizeMax] /\ Contents(fragments)
      /\ count[cindex] < MaxNames
    BY DEF RingInv, TypeOK
<1>3. i \in Buffer /\ nm \in DOMAIN fragments[i] /\ DOMAIN fragments[i] \subseteq Name
    BY <1>2, BufferOfFacts DEF Found, RingInv, TypeOK
<1>4. PICK fs, cs, S : /\ S = fragments[i][nm] \cup {f}
                       /\ fs = [fragments EXCEPT ![i] = EraseKeys(@, {nm})]
                       /\ cs = [count EXCEPT ![cindex] = Less(@)]
    OBVIOUS
<1>5. With(i, nm, f) = S
    BY <1>3, <1>4 DEF With
<1>6. S # {} /\ S \subseteq Fragments(Size[nm]) /\ Size[nm] \in Nat \ {0}
    BY <1>2, <1>3, <1>4, SizeAssumption DEF Contents
<1>7. S = Fragments(Size[nm])
    BY <1>1, <1>5, <1>6, CompleteIsExact
<1>8. /\ Contents(fs)
      /\ \A x \in Name \ lost : Sole(fs, x)
  <2>1. fs = EraseIn(fragments, i, nm)
    BY <1>4 DEF EraseIn
  <2>. QED
    BY <1>2, <1>3, <2>1, EraseContents DEF FoundOnce
<1>9. cs \in [Buffer -> 0..SizeMax]
  <2>1. \A n \in 0..SizeMax : Less(n) \in 0..SizeMax
    BY LimitAssumption DEF Less
  <2>. QED
    BY <1>2, <1>4, <2>1
<1>10. FirstPart(c, nm, f, fs)
  <2>1. deliver(c, nm, Fragments(Size[nm]))
    BY <1>1, <1>5, <1>7 DEF deliver
  <2>. QED
    BY <1>3, <1>4, <1>7, <2>1 DEF FirstPart, PutIn, EraseIn
<1>11. RingPrime(fs)
  <2>1. ASSUME NEW br \in {broken \cup {i}}
                            \cup (IF DOMAIN fragments[i] \ {nm} = {} THEN {} ELSE {broken}),
               NEW h \in {hidden[i]}
                            \cup (IF MinRebalance <= Cardinality(DOMAIN fragments[i] \ {nm}) + 1
                                  THEN SUBSET (DOMAIN fragments[i] \ {nm}) ELSE {}),
               moveOn([fragments EXCEPT ![i] = EraseKeys(@, {nm})],
                      [count EXCEPT ![cindex] = Less(@)],
                      br, [hidden EXCEPT ![i] = h]),
               lost' = lost \cup h
        PROVE  RingPrime(fs)
    <3>1. br \in SUBSET Buffer /\ h \in SUBSET Name
      BY <1>2, <1>3
    <3>2. PICK hd : hd = [hidden EXCEPT ![i] = h]
      OBVIOUS
    <3>3. hd \in [Buffer -> SUBSET Name] /\ \A j \in Buffer : hd[j] \subseteq lost'
      BY <1>2, <1>3, <2>1, <3>1, <3>2 DEF FoundOnce
    <3>4. moveOn(fs, cs, br, hd)
      BY <1>4, <2>1, <3>2 DEF moveOn
    <3>5. \A j \in Buffer : hidden'[j] \subseteq lost'
      BY <1>2, <1>8, <1>9, <3>1, <3>3, <3>4, MoveOnFacts
    <3>. QED
      BY <1>1, <1>2, <1>8, <1>9, <2>1, <3>1, <3>3, <3>4, <3>5, MoveOnFacts DEF RingPrime
  <2>2. ASSUME fragments' = [fragments EXCEPT ![i] = EraseKeys(@, {nm})],
               UNCHANGED <<cindex, count, broken, hidden, lost, purged>>
        PROVE  RingPrime(fs)
    BY <1>1, <1>2, <1>4, <1>8, <2>2 DEF RingPrime, MovedOn, FoundOnce
  <2>. QED
    BY <1>1, <2>1, <2>2
<1>. QED
    BY <1>8, <1>10, <1>11

(* handle_pub_fragment as a whole.                                         *)
LEMMA HandleFacts ==
    ASSUME RingInv, NEW c, NEW nm \in Name, NEW f \in Fragments(Size[nm]), f.key # 1,
           handle_pub_fragment(c, nm, f)
    PROVE  \E fs : Contents(fs) /\ FirstPart(c, nm, f, fs) /\ RingPrime(fs)
    BY NewFacts, MoreFacts, LastFacts, ElsewhereFacts DEF handle_pub_fragment

(* One delivery more of an object, or the first one.                        *)
LEMMA DeliverFacts ==
    ASSUME DeliveredExact, NEW c \in Client, NEW nm \in Name,
           deliver(c, nm, Fragments(Size[nm]))
    PROVE  /\ DeliveredExact'
           /\ DOMAIN delivered' = DOMAIN delivered \cup {Delivery(c, nm)}
           /\ delivered'[Delivery(c, nm)] =
                IF Delivery(c, nm) \in DOMAIN delivered
                THEN delivered[Delivery(c, nm)] + 1 ELSE 1
           /\ \A r \in DOMAIN delivered \ {Delivery(c, nm)} : delivered'[r] = delivered[r]
<1>1. PICK r : r = Delivery(c, nm)
    OBVIOUS
<1>2. delivered' = Put(delivered, r, IF r \in DOMAIN delivered THEN delivered[r] + 1 ELSE 1)
    BY <1>1 DEF deliver, Delivery
<1>3. /\ DOMAIN delivered' = DOMAIN delivered \cup {r}
      /\ delivered'[r] = IF r \in DOMAIN delivered THEN delivered[r] + 1 ELSE 1
      /\ \A x \in DOMAIN delivered \ {r} : delivered'[x] = delivered[x]
    BY <1>2 DEF Put
<1>4. delivered'[r] \in Nat
    BY <1>3 DEF DeliveredExact
<1>5. \A x \in DOMAIN delivered' :
        /\ delivered'[x] \in Nat
        /\ \E d \in Client, n \in Name : x = Delivery(d, n)
    BY <1>1, <1>3, <1>4 DEF DeliveredExact
<1>6. DeliveredExact'
    BY <1>5 DEF DeliveredExact, Delivery
<1>. QED
    BY <1>1, <1>3, <1>6

(* What a step of a client amounts to.                                     *)
Single(m) ==
    /\ {m.frag} = Fragments(Size[m.name])
    /\ deliver(m.to, m.name, Fragments(Size[m.name]))
    /\ UNCHANGED <<cindex, fragments, count, broken, hidden, crashed, crossed, lost, purged>>

Part(m) ==
    \E fs : /\ Contents(fs)
            /\ FirstPart(m.to, m.name, m.frag, fs)
            /\ RingPrime(fs)

LEMMA ReceiveFacts ==
    ASSUME RingInv, NEW m \in net, Receive(m)
    PROVE  /\ m.to \in Client /\ m.name \in Name /\ m.frag \in Fragments(Size[m.name])
           /\ Single(m) \/ Part(m) \/ handle_crash(m.name)
<1>1. m.to \in Client /\ m.name \in Name /\ m.frag \in Fragments(Size[m.name])
    BY DEF RingInv, NetOK
<1>2. CASE m.frag.key = 1
  <2>1. handle_single(m.to, m.name, m.frag)
    BY <1>2 DEF Receive, handle
  <2>2. {m.frag} = Fragments(Size[m.name])
    BY <1>1, <1>2, FragmentCount, SizeAssumption
  <2>. QED
    BY <1>1, <2>1, <2>2 DEF handle_single, Single
<1>3. CASE m.frag.key # 1
  <2>1. handle_pub_fragment(m.to, m.name, m.frag) \/ handle_crash(m.name)
    BY <1>3 DEF Receive, handle
  <2>. QED
    BY <1>1, <1>3, <2>1, HandleFacts DEF Part
<1>. QED
    BY <1>2, <1>3

(* What the first part does to the deliveries, whichever way it went.       *)
LEMMA FirstPartDelivers ==
    ASSUME RingInv, NEW c \in Client, NEW nm \in Name, NEW f, NEW fs,
           FirstPart(c, nm, f, fs)
    PROVE  DeliveredExact'
<1>1. CASE UNCHANGED delivered
    BY <1>1 DEF RingInv, DeliveredExact, Delivery
<1>2. CASE deliver(c, nm, Fragments(Size[nm]))
    BY <1>2, DeliverFacts DEF RingInv
<1>. QED
    BY <1>1, <1>2 DEF FirstPart

(* The ring is empty at first.                                             *)
LEMMA InitRingInv ==
    ASSUME Init
    PROVE  RingInv
<1>1. MaxNames \in Nat \ {0} /\ MaxBuffers \in Nat \ {0} /\ SizeMax \in Nat /\ MaxDup \in Nat
    BY LimitAssumption
<1>2. 1 \in Buffer
    BY <1>1 DEF Buffer
<1>3. \A i \in Buffer : fragments[i] = EmptyMap /\ DOMAIN fragments[i] = {} /\ count[i] = 0
    BY DEF Init, EmptyMap
<1>4. EmptyMap \in PartialFn(Name, SUBSET AnyFragment)
    BY EmptyPartial
<1>5. fragments \in [Buffer -> PartialFn(Name, SUBSET AnyFragment)]
    BY <1>4 DEF Init
<1>6. Contents(fragments)
    BY <1>3, <1>5, FS_EmptySet DEF Contents
<1>7. count \in [Buffer -> 0..SizeMax] /\ hidden \in [Buffer -> SUBSET Name] /\ FoundOnce
    BY <1>1, <1>3 DEF Init, FoundOnce, Sole
<1>8. TypeOK
    BY <1>1, <1>2, <1>3, <1>7 DEF Init, TypeOK
<1>9. Counts(fragments, count)
    BY <1>3, FS_EmptySet DEF Counts
<1>10. NetOK /\ DeliveredExact
    BY DEF Init, NetOK, DeliveredExact, EmptyMap
<1>11. count[cindex] < MaxNames
    BY <1>1, <1>2, <1>3 DEF Init
<1>. QED
    BY <1>6, <1>7, <1>8, <1>9, <1>10, <1>11 DEF RingInv

(* Publishing puts fragments of the object on the net.                      *)
LEMMA PublishNet ==
    ASSUME NEW nm \in Name, publishNamedObject(nm)
    PROVE  /\ nm \in unpublished /\ unpublished' = unpublished \ {nm}
           /\ net \subseteq net'
           /\ \A m \in net' \ net : \E c \in Client, f \in Fragments(Size[nm]) :
                 m = [to |-> c, name |-> nm, frag |-> f]
<1>1. PICK refused :
        net' = net \cup {[to |-> c, name |-> nm, frag |-> f] :
                  c \in Client, f \in {g \in Fragments(Size[nm]) : g.key < refused}}
    BY DEF publishNamedObject
<1>. QED
    BY <1>1 DEF publishNamedObject

(* Every step keeps the ring in order.                                     *)
LEMMA NextRingInv ==
    ASSUME RingInv, [Next]_vars
    PROVE  RingInv'
<1>1. ASSUME UNCHANGED <<cindex, fragments, count, broken, hidden, crossed, lost, purged>>
      PROVE  /\ Contents(fragments')
             /\ cindex' \in Buffer
             /\ \A i \in Buffer : DOMAIN fragments'[i] \subseteq Name
             /\ count' \in [Buffer -> 0..SizeMax]
             /\ broken' \subseteq Buffer
             /\ hidden' \in [Buffer -> SUBSET Name] /\ lost' \subseteq Name
             /\ FoundOnce'
             /\ purged' \subseteq Name
             /\ count'[cindex'] < MaxNames
             /\ ~crossed' => Counts(fragments', count')
    BY <1>1 DEF RingInv, TypeOK, FoundOnce
<1>2. CASE UNCHANGED vars
  <2>1. NetOK' /\ DeliveredExact'
    BY <1>2 DEF vars, RingInv, NetOK, DeliveredExact, Delivery
  <2>. QED
    BY <1>1, <1>2, <2>1 DEF vars, RingInv, TypeOK
<1>3. ASSUME NEW nm \in Name, publishNamedObject(nm)
      PROVE  RingInv'
  <2>1. NetOK'
    BY <1>3, PublishNet DEF RingInv, NetOK
  <2>2. DeliveredExact'
    BY <1>3 DEF RingInv, DeliveredExact, Delivery, publishNamedObject
  <2>3. UNCHANGED <<dups, cindex, fragments, count, broken, hidden, crossed, lost, purged>>
    BY <1>3 DEF publishNamedObject
  <2>4. unpublished' \subseteq Name
    BY <1>3, PublishNet DEF RingInv, TypeOK
  <2>. QED
    BY <1>1, <2>1, <2>2, <2>3, <2>4 DEF RingInv, TypeOK
<1>4. ASSUME NEW m \in net, Receive(m)
      PROVE  RingInv'
  <2>1. /\ m.to \in Client /\ m.name \in Name /\ m.frag \in Fragments(Size[m.name])
        /\ Single(m) \/ Part(m) \/ handle_crash(m.name)
    BY <1>4, ReceiveFacts
  <2>2. NetOK'
    BY <1>4 DEF Receive, RingInv, NetOK
  <2>3. dups' \in 0..MaxDup /\ unpublished' \subseteq Name
    BY <1>4, LimitAssumption DEF Receive, RingInv, TypeOK
  <2>4. CASE Single(m) \/ handle_crash(m.name)
    <3>1. DeliveredExact'
      <4>1. CASE Single(m)
        BY <2>1, <4>1, DeliverFacts DEF Single, RingInv
      <4>2. CASE handle_crash(m.name)
        BY <4>2 DEF handle_crash, RingInv, DeliveredExact, Delivery
      <4>. QED
        BY <2>4, <4>1, <4>2
    <3>2. UNCHANGED <<cindex, fragments, count, broken, hidden, crossed, lost, purged>>
      BY <2>4 DEF Single, handle_crash
    <3>. QED
      BY <1>1, <2>2, <2>3, <3>1, <3>2 DEF RingInv, TypeOK
  <2>5. CASE Part(m)
    <3>1. PICK fs : FirstPart(m.to, m.name, m.frag, fs) /\ RingPrime(fs)
      BY <2>5 DEF Part
    <3>2. DeliveredExact'
      BY <2>1, <3>1, FirstPartDelivers
    <3>3. \A i \in Buffer : DOMAIN fragments'[i] \subseteq Name
      BY <3>1, PartialFnIff DEF RingPrime, Contents
    <3>4. FoundOnce'
      <4>1. \A x \in Name \ lost' : Sole(fragments, x)'
        BY <3>1 DEF RingPrime, MovedOn, Sole
      <4>. QED
        BY <3>1, <4>1 DEF RingPrime, FoundOnce
    <3>. QED
      BY <2>2, <2>3, <3>1, <3>2, <3>3, <3>4 DEF RingInv, RingPrime, TypeOK
  <2>. QED
    BY <2>1, <2>4, <2>5
<1>. QED
    BY <1>2, <1>3, <1>4 DEF Next

(* The ring is in order in every state.                                     *)
LEMMA SpecRingInv == Spec => []RingInv
    BY InitRingInv, NextRingInv, PTL DEF Spec

----------------------------------------------------------------------------
(* The theorems, for any number of clients in the process.                  *)

(* Every variable has its type: the node counts stay size_t's, also when     *)
(* line 557 takes a node from a map that has none.                           *)
THEOREM ReassemblyTypeCorrect == Spec => []TypeOK
<1>1. RingInv => TypeOK
    BY DEF RingInv
<1>. QED
    BY <1>1, SpecRingInv, PTL

(* handle_pub_fragment never has fragments of one name in two buffers, also   *)
(* after erases through the wrong map, unless one of them hid that name.      *)
THEOREM OneBuffer == Spec => []NameInOneBuffer
<1>1. RingInv => NameInOneBuffer
    BY DEF RingInv, TypeOK, FoundOnce, Sole, NameInOneBuffer
<1>. QED
    BY <1>1, SpecRingInv, PTL

(* size() is exact, and the current buffer has room, until a name is         *)
(* completed in another buffer.                                              *)
THEOREM RoomInCurrent == Spec => []CurrentHasRoom
<1>1. RingInv => CurrentHasRoom
    BY DEF RingInv, Counts, CurrentHasRoom
<1>. QED
    BY <1>1, SpecRingInv, PTL

(* Whatever notify_pub_fragment hands to a client is the published object,   *)
(* each of its bytes once, for every size and every transport limit.         *)
THEOREM Intact == Spec => []DeliveredIntact
<1>1. RingInv => DeliveredIntact
  <2> SUFFICES ASSUME RingInv, NEW r \in DOMAIN delivered
               PROVE  /\ UNION {Bytes(f) : f \in r.frags} = 0..(Size[r.name] - 1)
                      /\ \A f, g \in r.frags : f # g => Bytes(f) \cap Bytes(g) = {}
    BY DEF DeliveredIntact
  <2>1. r.name \in Name /\ r.frags = Fragments(Size[r.name])
    BY DEF RingInv, DeliveredExact, Delivery
  <2>2. Size[r.name] \in Nat \ {0}
    BY <2>1, SizeAssumption
  <2>. QED
    BY <2>1, <2>2, FragmentsPartition
<1>. QED
    BY <1>1, SpecRingInv, PTL

----------------------------------------------------------------------------
(* What waits of a name, wherever in the ring.                             *)

Waiting(fs, nm) == UNION {fs[i][nm] : i \in {j \in Buffer : nm \in DOMAIN fs[j]}}

(* It waits in one buffer or in none, if it was never hidden.              *)
LEMMA WaitingFacts ==
    ASSUME NEW fs, Contents(fs), NEW nm \in Name, Sole(fs, nm)
    PROVE  /\ \A i \in Buffer : nm \in DOMAIN fs[i] => Waiting(fs, nm) = fs[i][nm]
           /\ (\A i \in Buffer : nm \notin DOMAIN fs[i]) => Waiting(fs, nm) = {}
           /\ Waiting(fs, nm) \subseteq Fragments(Size[nm])
<1>1. ASSUME NEW i \in Buffer, nm \in DOMAIN fs[i] PROVE Waiting(fs, nm) = fs[i][nm]
  <2>1. {j \in Buffer : nm \in DOMAIN fs[j]} = {i}
    BY <1>1 DEF Sole
  <2>. QED
    BY <2>1 DEF Waiting
<1>2. (\A i \in Buffer : nm \notin DOMAIN fs[i]) => Waiting(fs, nm) = {}
    BY DEF Waiting
<1>3. Waiting(fs, nm) \subseteq Fragments(Size[nm])
    BY DEF Contents, Waiting
<1>. QED
    BY <1>1, <1>2, <1>3

(* The first part of handle_pub_fragment leaves other names alone ...        *)
LEMMA FirstPartOthers ==
    ASSUME Contents(fragments), cindex \in Buffer, NEW c, NEW nm \in Name,
           NEW f \in Fragments(Size[nm]), NEW fs, FirstPart(c, nm, f, fs)
    PROVE  \A x \in Name \ {nm} : \A j \in Buffer :
              /\ x \in DOMAIN fs[j] <=> x \in DOMAIN fragments[j]
              /\ x \in DOMAIN fs[j] => fs[j][x] = fragments[j][x]
<1>1. ASSUME NEW i \in Buffer, NEW S, S # {}, S \subseteq Fragments(Size[nm]),
             fs = PutIn(fragments, i, nm, S)
      PROVE  \A x \in Name \ {nm} : \A j \in Buffer :
                /\ x \in DOMAIN fs[j] <=> x \in DOMAIN fragments[j]
                /\ x \in DOMAIN fs[j] => fs[j][x] = fragments[j][x]
  <2>1. /\ DOMAIN fs[i] = DOMAIN fragments[i] \cup {nm}
        /\ \A x \in DOMAIN fragments[i] \ {nm} : fs[i][x] = fragments[i][x]
        /\ \A j \in Buffer \ {i} : fs[j] = fragments[j]
    BY <1>1, PutContents
  <2>. QED
    BY <2>1
<1>2. ASSUME NEW i \in Buffer, fs = EraseIn(fragments, i, nm)
      PROVE  \A x \in Name \ {nm} : \A j \in Buffer :
                /\ x \in DOMAIN fs[j] <=> x \in DOMAIN fragments[j]
                /\ x \in DOMAIN fs[j] => fs[j][x] = fragments[j][x]
  <2>1. /\ DOMAIN fs[i] = DOMAIN fragments[i] \ {nm}
        /\ \A x \in DOMAIN fs[i] : fs[i][x] = fragments[i][x]
        /\ \A j \in Buffer \ {i} : fs[j] = fragments[j]
    BY <1>2, EraseContents
  <2>. QED
    BY <2>1
<1>3. CASE fs = PutIn(fragments, cindex, nm, {f})
    BY <1>1, <1>3
<1>4. ASSUME NEW i \in Buffer, nm \in DOMAIN fragments[i],
             fs = PutIn(fragments, i, nm, fragments[i][nm] \cup {f})
      PROVE  \A x \in Name \ {nm} : \A j \in Buffer :
                /\ x \in DOMAIN fs[j] <=> x \in DOMAIN fragments[j]
                /\ x \in DOMAIN fs[j] => fs[j][x] = fragments[j][x]
  <2>1. PICK S : S = fragments[i][nm] \cup {f}
    OBVIOUS
  <2>2. S # {} /\ S \subseteq Fragments(Size[nm])
    BY <1>4, <2>1 DEF Contents
  <2>. QED
    BY <1>1, <1>4, <2>1, <2>2
<1>. QED
    BY <1>2, <1>3, <1>4 DEF FirstPart

(* ... adds the fragment to what waits of its own name, if that was never     *)
(* hidden, and delivers the object if that completes it.                     *)
LEMMA FirstPartWaiting ==
    ASSUME Contents(fragments), cindex \in Buffer, NEW c, NEW nm \in Name \ lost,
           NEW f \in Fragments(Size[nm]), NEW fs, Contents(fs), FirstPart(c, nm, f, fs),
           Sole(fragments, nm), Sole(fs, nm)
    PROVE  \/ /\ Waiting(fragments, nm) \cup {f} # Fragments(Size[nm])
              /\ Waiting(fs, nm) = Waiting(fragments, nm) \cup {f}
              /\ UNCHANGED delivered
           \/ /\ Waiting(fragments, nm) \cup {f} = Fragments(Size[nm])
              /\ Waiting(fs, nm) = {}
              /\ deliver(c, nm, Fragments(Size[nm]))
<1>1. ASSUME NEW i \in Buffer, NEW S, S # {}, S \subseteq Fragments(Size[nm]),
             fs = PutIn(fragments, i, nm, S)
      PROVE  Waiting(fs, nm) = S
  <2>1. nm \in DOMAIN fs[i] /\ fs[i][nm] = S
    BY <1>1, PutContents
  <2>. QED
    BY <2>1, WaitingFacts
<1>2. ASSUME NEW i \in Buffer, nm \in DOMAIN fragments[i], fs = EraseIn(fragments, i, nm)
      PROVE  Waiting(fs, nm) = {}
  <2>1. /\ DOMAIN fs[i] = DOMAIN fragments[i] \ {nm}
        /\ \A j \in Buffer \ {i} : fs[j] = fragments[j]
    BY <1>2, EraseContents
  <2>2. \A j \in Buffer : nm \notin DOMAIN fs[j]
    BY <1>2, <2>1 DEF Sole
  <2>. QED
    BY <2>2, WaitingFacts
<1>3. CASE /\ \A i \in Buffer : nm \notin DOMAIN fragments[i]
           /\ {f} # Fragments(Size[nm])
           /\ fs = PutIn(fragments, cindex, nm, {f})
           /\ UNCHANGED delivered
  <2>1. Waiting(fragments, nm) = {}
    BY <1>3, WaitingFacts
  <2>2. Waiting(fs, nm) = {f}
    BY <1>1, <1>3
  <2>. QED
    BY <1>3, <2>1, <2>2
<1>4. ASSUME NEW i \in Buffer, nm \in DOMAIN fragments[i],
             fragments[i][nm] \cup {f} # Fragments(Size[nm]),
             fs = PutIn(fragments, i, nm, fragments[i][nm] \cup {f}),
             UNCHANGED delivered
      PROVE  /\ Waiting(fragments, nm) \cup {f} # Fragments(Size[nm])
             /\ Waiting(fs, nm) = Waiting(fragments, nm) \cup {f}
             /\ UNCHANGED delivered
  <2>1. Waiting(fragments, nm) = fragments[i][nm]
    BY <1>4, WaitingFacts
  <2>2. PICK S : S = fragments[i][nm] \cup {f}
    OBVIOUS
  <2>3. S # {} /\ S \subseteq Fragments(Size[nm])
    BY <1>4, <2>2 DEF Contents
  <2>4. Waiting(fs, nm) = S
    BY <1>1, <1>4, <2>2, <2>3
  <2>. QED
    BY <1>4, <2>1, <2>2, <2>4
<1>5. ASSUME NEW i \in Buffer, nm \in DOMAIN fragments[i],
             fragments[i][nm] \cup {f} = Fragments(Size[nm]),
             fs = EraseIn(fragments, i, nm),
             deliver(c, nm, Fragments(Size[nm]))
      PROVE  /\ Waiting(fragments, nm) \cup {f} = Fragments(Size[nm])
             /\ Waiting(fs, nm) = {}
             /\ deliver(c, nm, Fragments(Size[nm]))
    BY <1>2, <1>5, WaitingFacts
<1>. QED
    BY <1>3, <1>4, <1>5 DEF FirstPart

(* The second part keeps what waits, or purges it.                          *)
LEMMA MovedOnWaiting ==
    ASSUME NEW fs, Contents(fs), Contents(fragments'), MovedOn(fs), NEW nm \in Name,
           Sole(fs, nm)
    PROVE  \/ Waiting(fragments', nm) = Waiting(fs, nm)
           \/ nm \in purged' /\ Waiting(fragments', nm) = {}
<1>1. PICK new : new = fragments'
    OBVIOUS
<1>2. Contents(new)
    BY <1>1
<1>3. /\ \A i \in Buffer : \A x \in DOMAIN new[i] : x \in DOMAIN fs[i] /\ new[i][x] = fs[i][x]
      /\ \A i \in Buffer : \A x \in DOMAIN fs[i] : x \in purged' \/ x \in DOMAIN new[i]
    BY <1>1 DEF MovedOn
<1> Sole(new, nm)
    BY <1>3 DEF Sole
<1>4. CASE \E i \in Buffer : nm \in DOMAIN new[i]
    BY <1>1, <1>2, <1>3, <1>4, WaitingFacts
<1>5. CASE \A i \in Buffer : nm \notin DOMAIN new[i]
  <2>1. Waiting(new, nm) = {}
    BY <1>2, <1>5, WaitingFacts
  <2>2. CASE \A i \in Buffer : nm \notin DOMAIN fs[i]
    BY <1>1, <2>1, <2>2, WaitingFacts
  <2>3. CASE \E i \in Buffer : nm \in DOMAIN fs[i]
    BY <1>1, <1>3, <1>5, <2>1, <2>3
  <2>. QED
    BY <2>2, <2>3
<1>. QED
    BY <1>4, <1>5

(* What a fragment received does to what waits and to the deliveries, as     *)
(* long as its name was never hidden: the object is delivered, or the        *)
(* fragment is kept or purged, or the process goes down.  Other names keep   *)
(* what they have or are purged.                                             *)
StepWaiting(m) ==
    /\ purged \subseteq purged' /\ lost \subseteq lost'
    /\ deliver(m.to, m.name, Fragments(Size[m.name])) \/ UNCHANGED delivered
    /\ \A x \in Name \ (lost' \cup {m.name}) :
          \/ Waiting(fragments', x) = Waiting(fragments, x)
          \/ x \in purged' /\ Waiting(fragments', x) = {}
    /\ m.name \notin lost' =>
          \/ deliver(m.to, m.name, Fragments(Size[m.name]))
          \/ /\ Waiting(fragments, m.name) \cup {m.frag} # Fragments(Size[m.name])
             /\ \/ Waiting(fragments', m.name) = Waiting(fragments, m.name) \cup {m.frag}
                \/ m.name \in purged' /\ Waiting(fragments', m.name) = {}
             /\ UNCHANGED delivered
          \/ /\ crashed'
             /\ Waiting(fragments', m.name) = Waiting(fragments, m.name)
             /\ UNCHANGED delivered

LEMMA ReceiveWaiting ==
    ASSUME RingInv, NEW m \in net, Receive(m)
    PROVE  StepWaiting(m)
<1>1. /\ m.to \in Client /\ m.name \in Name /\ m.frag \in Fragments(Size[m.name])
      /\ Single(m) \/ Part(m) \/ handle_crash(m.name)
    BY ReceiveFacts
<1>2. CASE Single(m)
    BY <1>2 DEF Single, StepWaiting
<1>3. CASE handle_crash(m.name)
    BY <1>3 DEF handle_crash, StepWaiting
<1>4. CASE Part(m)
  <2>1. PICK fs : Contents(fs) /\ FirstPart(m.to, m.name, m.frag, fs) /\ RingPrime(fs)
    BY <1>4 DEF Part
  <2>2. PICK c, nm, f : c = m.to /\ nm = m.name /\ f = m.frag
    OBVIOUS
  <2>3. FirstPart(c, nm, f, fs)
    BY <2>1, <2>2 DEF FirstPart, deliver
  <2>4. Contents(fragments) /\ cindex \in Buffer /\ \A x \in Name \ lost : Sole(fragments, x)
    BY DEF RingInv, TypeOK, FoundOnce
  <2>5. /\ purged \subseteq purged' /\ lost \subseteq lost'
        /\ \A x \in Name \ lost' : Sole(fs, x)
    BY <2>1 DEF RingPrime, MovedOn
  <2>6. \A x \in Name \ {nm} : Waiting(fs, x) = Waiting(fragments, x)
    <3> TAKE x \in Name \ {nm}
    <3>1. \A j \in Buffer : /\ x \in DOMAIN fs[j] <=> x \in DOMAIN fragments[j]
                            /\ x \in DOMAIN fs[j] => fs[j][x] = fragments[j][x]
      BY <1>1, <2>2, <2>3, <2>4, FirstPartOthers
    <3>. QED
      BY <3>1 DEF Waiting
  <2>7. nm \notin lost' =>
          \/ /\ Waiting(fragments, nm) \cup {f} # Fragments(Size[nm])
             /\ Waiting(fs, nm) = Waiting(fragments, nm) \cup {f}
             /\ UNCHANGED delivered
          \/ deliver(c, nm, Fragments(Size[nm]))
    BY <1>1, <2>1, <2>2, <2>3, <2>4, <2>5, FirstPartWaiting
  <2>8. \A x \in Name \ lost' : \/ Waiting(fragments', x) = Waiting(fs, x)
                                \/ x \in purged' /\ Waiting(fragments', x) = {}
    BY <2>1, <2>5, MovedOnWaiting DEF RingPrime
  <2>9. deliver(c, nm, Fragments(Size[nm])) => deliver(m.to, m.name, Fragments(Size[m.name]))
    BY <2>2 DEF deliver
  <2>10. deliver(c, nm, Fragments(Size[nm])) \/ UNCHANGED delivered
    BY <2>3 DEF FirstPart
  <2>. QED
    BY <1>1, <2>2, <2>5, <2>6, <2>7, <2>8, <2>9, <2>10 DEF StepWaiting
<1>. QED
    BY <1>1, <1>2, <1>3, <1>4

----------------------------------------------------------------------------
(* A process with one client c.                                            *)

(* What the client received of an object waits for the rest, unless the     *)
(* object was delivered, purged or hidden or the process is down.           *)
Kept(c) ==
    /\ got \in [Client -> [Name -> SUBSET AnyFragment]]
    /\ ~crashed => \A nm \in Name \ (purged \cup lost) :
          \/ Delivery(c, nm) \in DOMAIN delivered
          \/ /\ Waiting(fragments, nm) = got[c][nm]
             /\ got[c][nm] # Fragments(Size[nm])

LEMMA InitKept ==
    ASSUME NEW c, Client = {c}, Init
    PROVE  Kept(c)
<1>1. RingInv
    BY InitRingInv
<1>2. ASSUME NEW nm \in Name
      PROVE  Waiting(fragments, nm) = {} /\ Fragments(Size[nm]) # {}
  <2>1. \A i \in Buffer : nm \notin DOMAIN fragments[i]
    BY DEF Init, EmptyMap
  <2>2. Fragments(Size[nm]) # {}
    BY FragmentCount, SizeAssumption
  <2>3. Sole(fragments, nm)
    BY <2>1 DEF Sole
  <2>. QED
    BY <1>1, <2>1, <2>2, <2>3, WaitingFacts DEF RingInv
<1>3. \A nm \in Name : got[c][nm] = {}
    BY DEF Init
<1>4. got \in [Client -> [Name -> SUBSET AnyFragment]]
    BY DEF Init
<1>. QED
    BY <1>2, <1>3, <1>4 DEF Kept

LEMMA NextKept ==
    ASSUME NEW c, Client = {c}, RingInv, Kept(c), [Next]_vars
    PROVE  Kept(c)'
<1>1. CASE UNCHANGED vars
    BY <1>1 DEF vars, Kept, Delivery
<1>2. ASSUME NEW nm \in Name, publishNamedObject(nm) PROVE Kept(c)'
    BY <1>2 DEF publishNamedObject, Kept, Delivery
<1>3. ASSUME NEW m \in net, Receive(m) PROVE Kept(c)'
  <2>1. m.to = c /\ m.name \in Name /\ m.frag \in Fragments(Size[m.name])
    BY <1>3, ReceiveFacts
  <2>2. StepWaiting(m)
    BY <1>3, ReceiveWaiting
  <2>3. /\ got' \in [Client -> [Name -> SUBSET AnyFragment]]
        /\ got'[c][m.name] = got[c][m.name] \cup {m.frag}
        /\ \A x \in Name \ {m.name} : got'[c][x] = got[c][x]
    <3>1. got' = [got EXCEPT ![c] = [got[c] EXCEPT ![m.name] = @ \cup {m.frag}]]
      BY <1>3, <2>1 DEF Receive, Kept
    <3>2. got[c] \in [Name -> SUBSET AnyFragment] /\ c \in Client
      BY DEF Kept
    <3>3. m.frag \in AnyFragment
      BY <2>1 DEF AnyFragment
    <3>. QED
      BY <2>1, <3>1, <3>2, <3>3 DEF Kept
  <2>4. /\ DOMAIN delivered \subseteq DOMAIN delivered'
        /\ deliver(m.to, m.name, Fragments(Size[m.name]))
             => Delivery(c, m.name) \in DOMAIN delivered'
    <3>1. m.to \in Client /\ DeliveredExact
      BY <2>1 DEF RingInv
    <3>2. CASE deliver(m.to, m.name, Fragments(Size[m.name]))
      <4>1. DOMAIN delivered' = DOMAIN delivered \cup {Delivery(m.to, m.name)}
        BY <2>1, <3>1, <3>2, DeliverFacts
      <4>. QED
        BY <2>1, <4>1
    <3>3. CASE UNCHANGED delivered /\ ~deliver(m.to, m.name, Fragments(Size[m.name]))
      BY <3>3
    <3>. QED
      BY <2>2, <3>2, <3>3 DEF StepWaiting
  <2>5. ~crashed
    BY <1>3 DEF Receive
  <2>6. ASSUME ~crashed', NEW nm \in Name \ (purged' \cup lost')
        PROVE  \/ Delivery(c, nm) \in DOMAIN delivered'
               \/ /\ Waiting(fragments', nm) = got'[c][nm]
                  /\ got'[c][nm] # Fragments(Size[nm])
    <3>1. \/ Delivery(c, nm) \in DOMAIN delivered
          \/ /\ Waiting(fragments, nm) = got[c][nm]
             /\ got[c][nm] # Fragments(Size[nm])
      BY <2>2, <2>5, <2>6 DEF Kept, StepWaiting
    <3>2. CASE nm = m.name
      BY <2>2, <2>3, <2>4, <2>6, <3>1, <3>2 DEF StepWaiting
    <3>3. CASE nm # m.name
      BY <2>2, <2>3, <2>4, <2>6, <3>1, <3>3 DEF StepWaiting
    <3>. QED
      BY <3>2, <3>3
  <2>. QED
    BY <2>3, <2>6 DEF Kept, Delivery
<1>. QED
    BY <1>1, <1>2, <1>3 DEF Next

(* A process with one client: when every fragment of an object has come and  *)
(* the ring was not purged of it nor hid it, the client has been given the   *)
(* object.                                                                   *)
THEOREM Completed ==
    ASSUME NEW c, Client = {c}
    PROVE  Spec => []CompleteIsDelivered
<1>1. Init => Kept(c)
    BY InitKept
<1>2. RingInv /\ Kept(c) /\ [Next]_vars => Kept(c)'
    BY NextKept
<1>3. Kept(c) => CompleteIsDelivered
    BY DEF Kept, CompleteIsDelivered, Delivery
<1>. QED
    BY <1>1, <1>2, <1>3, SpecRingInv, PTL DEF Spec

(* Every delivery of an object uses up as many fragments as it has; they     *)
(* were published once, or the network repeated them.                        *)
(* They are counted where they wait, the hidden ones too.                    *)
Held(fs, nm) ==
    {p \in Buffer \X Fragments(Size[nm]) : nm \in DOMAIN fs[p[1]] /\ p[2] \in fs[p[1]][nm]}

(* The count is finite.                                                      *)
LEMMA HeldFinite ==
    ASSUME NEW fs, NEW nm \in Name
    PROVE  IsFiniteSet(Held(fs, nm)) /\ Cardinality(Held(fs, nm)) \in Nat
<1>1. IsFiniteSet(Buffer)
    BY LimitAssumption, FS_Interval DEF Buffer
<1>2. IsFiniteSet(Fragments(Size[nm]))
    BY FragmentCount, SizeAssumption
<1>3. IsFiniteSet(Buffer \X Fragments(Size[nm]))
    BY <1>1, <1>2, FS_Product
<1>4. Held(fs, nm) \in SUBSET (Buffer \X Fragments(Size[nm]))
    BY DEF Held
<1>. QED
    BY <1>3, <1>4, FS_Subset, FS_CardinalityType

(* What a fragment received does to the count: the object is delivered and    *)
(* its fragments are gone from one buffer, or the fragment is one more.       *)
StepHeld(m) ==
    /\ \A x \in Name \ {m.name} : Held(fragments', x) \subseteq Held(fragments, x)
    /\ \/ /\ {m.frag} = Fragments(Size[m.name])
          /\ Held(fragments', m.name) \subseteq Held(fragments, m.name)
          /\ deliver(m.to, m.name, Fragments(Size[m.name]))
       \/ \E i \in Buffer :
             /\ m.name \in DOMAIN fragments[i]
             /\ fragments[i][m.name] \cup {m.frag} = Fragments(Size[m.name])
             /\ Held(fragments', m.name) \subseteq
                   Held(fragments, m.name) \ {<<i, g>> : g \in fragments[i][m.name]}
             /\ deliver(m.to, m.name, Fragments(Size[m.name]))
       \/ /\ \E i \in Buffer :
                Held(fragments', m.name) \subseteq Held(fragments, m.name) \cup {<<i, m.frag>>}
          /\ UNCHANGED delivered

(* The second part adds nothing to the count.                                *)
LEMMA MovedOnHeld ==
    ASSUME NEW fs, MovedOn(fs), NEW nm
    PROVE  Held(fragments', nm) \subseteq Held(fs, nm)
<1>1. PICK new : new = fragments'
    OBVIOUS
<1>2. \A i \in Buffer : \A x \in DOMAIN new[i] : x \in DOMAIN fs[i] /\ new[i][x] = fs[i][x]
    BY <1>1 DEF MovedOn
<1>3. Held(new, nm) \subseteq Held(fs, nm)
    BY <1>2 DEF Held
<1>. QED
    BY <1>1, <1>3

LEMMA ReceiveHeld ==
    ASSUME RingInv, NEW m \in net, Receive(m)
    PROVE  StepHeld(m)
<1>1. /\ m.to \in Client /\ m.name \in Name /\ m.frag \in Fragments(Size[m.name])
      /\ Single(m) \/ Part(m) \/ handle_crash(m.name)
    BY ReceiveFacts
<1>2. CASE Single(m)
    BY <1>2 DEF Single, StepHeld
<1>3. CASE handle_crash(m.name)
  <2>1. UNCHANGED <<fragments, delivered>> /\ cindex \in Buffer
    BY <1>3 DEF handle_crash, RingInv, TypeOK
  <2>. QED
    BY <2>1 DEF StepHeld
<1>4. CASE Part(m)
  <2>1. PICK fs : Contents(fs) /\ FirstPart(m.to, m.name, m.frag, fs) /\ RingPrime(fs)
    BY <1>4 DEF Part
  <2>2. PICK c, nm, f : c = m.to /\ nm = m.name /\ f = m.frag
    OBVIOUS
  <2>3. FirstPart(c, nm, f, fs)
    BY <2>1, <2>2 DEF FirstPart, deliver
  <2>4. Contents(fragments) /\ cindex \in Buffer
    BY DEF RingInv, TypeOK
  <2>5. \A x : Held(fragments', x) \subseteq Held(fs, x)
    BY <2>1, MovedOnHeld DEF RingPrime
  <2>6. \A x \in Name \ {nm} : Held(fs, x) \subseteq Held(fragments, x)
    <3> TAKE x \in Name \ {nm}
    <3>1. \A j \in Buffer : /\ x \in DOMAIN fs[j] <=> x \in DOMAIN fragments[j]
                            /\ x \in DOMAIN fs[j] => fs[j][x] = fragments[j][x]
      BY <1>1, <2>2, <2>3, <2>4, FirstPartOthers
    <3>. QED
      BY <3>1 DEF Held
  <2>7. ASSUME NEW i \in Buffer, NEW S, S # {}, S \subseteq Fragments(Size[nm]),
               nm \in DOMAIN fragments[i] => S \subseteq fragments[i][nm] \cup {f},
               nm \notin DOMAIN fragments[i] => S = {f},
               fs = PutIn(fragments, i, nm, S)
        PROVE  Held(fs, nm) \subseteq Held(fragments, nm) \cup {<<i, f>>}
    <3>1. fs[i][nm] = S /\ \A j \in Buffer \ {i} : fs[j] = fragments[j]
      BY <1>1, <2>2, <2>4, <2>7, PutContents
    <3>2. ASSUME NEW p \in Held(fs, nm) PROVE p \in Held(fragments, nm) \cup {<<i, f>>}
      <4>1. PICK j \in Buffer, g \in Fragments(Size[nm]) : p = <<j, g>>
        BY DEF Held
      <4>2. nm \in DOMAIN fs[j] /\ g \in fs[j][nm]
        BY <4>1 DEF Held
      <4>3. CASE j = i /\ g # f
        BY <2>7, <3>1, <4>1, <4>2, <4>3 DEF Held
      <4>4. CASE j # i
        BY <3>1, <4>1, <4>2, <4>4 DEF Held
      <4>. QED
        BY <4>1, <4>3, <4>4
    <3>. QED
      BY <3>2
  <2>8. ASSUME NEW i \in Buffer, fs = EraseIn(fragments, i, nm)
        PROVE  Held(fs, nm) \subseteq Held(fragments, nm) \ {<<i, g>> : g \in fragments[i][nm]}
    <3>1. /\ DOMAIN fs[i] = DOMAIN fragments[i] \ {nm}
          /\ \A j \in Buffer \ {i} : fs[j] = fragments[j]
      BY <2>4, <2>8, EraseContents
    <3>2. ASSUME NEW p \in Held(fs, nm)
          PROVE  p \in Held(fragments, nm) \ {<<i, g>> : g \in fragments[i][nm]}
      <4>1. PICK j \in Buffer, g \in Fragments(Size[nm]) : p = <<j, g>>
        BY DEF Held
      <4>2. nm \in DOMAIN fs[j] /\ g \in fs[j][nm] /\ j # i
        BY <3>1, <4>1 DEF Held
      <4>3. p \in Held(fragments, nm)
        BY <3>1, <4>1, <4>2 DEF Held
      <4>. QED
        BY <4>1, <4>2, <4>3
    <3>. QED
      BY <3>2
  <2>9. \/ \E i \in Buffer :
             /\ nm \in DOMAIN fragments[i]
             /\ fragments[i][nm] \cup {f} = Fragments(Size[nm])
             /\ Held(fs, nm) \subseteq
                   Held(fragments, nm) \ {<<i, g>> : g \in fragments[i][nm]}
             /\ deliver(c, nm, Fragments(Size[nm]))
        \/ /\ \E i \in Buffer : Held(fs, nm) \subseteq Held(fragments, nm) \cup {<<i, f>>}
           /\ UNCHANGED delivered
    <3>1. CASE fs = PutIn(fragments, cindex, nm, {f}) /\ UNCHANGED delivered
      <4>1. PICK S : S = {f}
        OBVIOUS
      <4>2. S # {} /\ S \subseteq Fragments(Size[nm])
        BY <1>1, <2>2, <4>1
      <4>3. Held(fs, nm) \subseteq Held(fragments, nm) \cup {<<cindex, f>>}
        BY <2>4, <2>7, <3>1, <4>1, <4>2
      <4>. QED
        BY <2>4, <3>1, <4>3
    <3>2. ASSUME NEW i \in Buffer, nm \in DOMAIN fragments[i],
                 fs = PutIn(fragments, i, nm, fragments[i][nm] \cup {f})
          PROVE  Held(fs, nm) \subseteq Held(fragments, nm) \cup {<<i, f>>}
      <4>1. PICK S : S = fragments[i][nm] \cup {f}
        OBVIOUS
      <4>2. S # {} /\ S \subseteq Fragments(Size[nm])
        BY <1>1, <2>2, <2>4, <3>2, <4>1 DEF Contents
      <4>. QED
        BY <2>7, <3>2, <4>1, <4>2
    <3>. QED
      BY <2>3, <2>8, <3>1, <3>2 DEF FirstPart
  <2>10. deliver(c, nm, Fragments(Size[nm])) => deliver(m.to, m.name, Fragments(Size[m.name]))
    BY <2>2 DEF deliver
  <2>11. \A x \in Name \ {nm} : Held(fragments', x) \subseteq Held(fragments, x)
    BY <2>5, <2>6
  <2>12. CASE \E i \in Buffer :
             /\ nm \in DOMAIN fragments[i]
             /\ fragments[i][nm] \cup {f} = Fragments(Size[nm])
             /\ Held(fs, nm) \subseteq
                   Held(fragments, nm) \ {<<i, g>> : g \in fragments[i][nm]}
             /\ deliver(c, nm, Fragments(Size[nm]))
    <3>1. \E i \in Buffer :
             /\ nm \in DOMAIN fragments[i]
             /\ fragments[i][nm] \cup {f} = Fragments(Size[nm])
             /\ Held(fragments', nm) \subseteq
                   Held(fragments, nm) \ {<<i, g>> : g \in fragments[i][nm]}
      BY <2>5, <2>12
    <3>. QED
      BY <2>2, <2>10, <2>11, <2>12, <3>1 DEF StepHeld
  <2>13. CASE /\ \E i \in Buffer : Held(fs, nm) \subseteq Held(fragments, nm) \cup {<<i, f>>}
              /\ UNCHANGED delivered
    <3>1. \E i \in Buffer : Held(fragments', nm) \subseteq Held(fragments, nm) \cup {<<i, f>>}
      BY <2>5, <2>13
    <3>. QED
      BY <2>2, <2>11, <2>13, <3>1 DEF StepHeld
  <2>. QED
    BY <2>9, <2>12, <2>13
<1>. QED
    BY <1>1, <1>2, <1>3, <1>4

Times(c, nm) ==
    IF Delivery(c, nm) \in DOMAIN delivered THEN delivered[Delivery(c, nm)] ELSE 0
OnNet(nm) == {m \in net : m.name = nm}
Parts(nm) == Cardinality(Fragments(Size[nm]))

Spent(c, nm) ==
    /\ IsFiniteSet(OnNet(nm))
    /\ nm \in unpublished => /\ Times(c, nm) = 0
                             /\ Held(fragments, nm) = {}
                             /\ OnNet(nm) = {}
    /\ Times(c, nm) * Parts(nm) + Cardinality(Held(fragments, nm))
         + Cardinality(OnNet(nm)) <= Parts(nm) + dups

(* The terms of the account are natural numbers.                            *)
LEMMA SpentTypes ==
    ASSUME RingInv, NEW c, NEW nm \in Name
    PROVE  /\ Times(c, nm) \in Nat
           /\ Parts(nm) \in Nat
           /\ IsFiniteSet(Held(fragments, nm))
           /\ Cardinality(Held(fragments, nm)) \in Nat
           /\ dups \in Nat
<1>1. Times(c, nm) \in Nat
    BY DEF RingInv, DeliveredExact, Times
<1>2. IsFiniteSet(Fragments(Size[nm])) /\ Parts(nm) \in Nat
    BY FragmentCount, SizeAssumption DEF Parts
<1>4. IsFiniteSet(Held(fragments, nm)) /\ Cardinality(Held(fragments, nm)) \in Nat
    BY HeldFinite
<1>5. dups \in Nat
    BY LimitAssumption DEF RingInv, TypeOK
<1>. QED
    BY <1>1, <1>2, <1>4, <1>5

(* At first there is nothing to account for.                                *)
LEMMA InitSpent ==
    ASSUME NEW c, NEW nm \in Name, Init
    PROVE  Spent(c, nm)
<1>1. RingInv
    BY InitRingInv
<1>2. Times(c, nm) = 0 /\ OnNet(nm) = {} /\ dups = 0
    BY DEF Init, Times, OnNet, EmptyMap
<1>3. Held(fragments, nm) = {}
  <2>1. \A i \in Buffer : nm \notin DOMAIN fragments[i]
    BY DEF Init, EmptyMap
  <2>. QED
    BY <2>1 DEF Held
<1>4. Parts(nm) \in Nat
    BY <1>1, SpentTypes
<1>. QED
    BY <1>2, <1>3, <1>4, FS_EmptySet DEF Spent

(* publishNamedObject sends no fragment twice.                              *)
LEMMA PublishSpent ==
    ASSUME NEW c, Client = {c}, RingInv, NEW nm \in Name, Spent(c, nm),
           NEW x \in Name, publishNamedObject(x)
    PROVE  Spent(c, nm)'
<1>1. Times(c, nm)' = Times(c, nm) /\ dups' = dups /\ fragments' = fragments
    BY DEF publishNamedObject, Times, Delivery
<1>2. /\ x \in unpublished /\ unpublished' = unpublished \ {x}
      /\ net \subseteq net'
      /\ \A m \in net' \ net : \E d \in Client, f \in Fragments(Size[x]) :
            m = [to |-> d, name |-> x, frag |-> f]
    BY PublishNet
<1>3. CASE x # nm
  <2>1. OnNet(nm)' = OnNet(nm)
    BY <1>2, <1>3 DEF OnNet
  <2>. QED
    BY <1>1, <1>2, <2>1 DEF Spent, Parts
<1>4. CASE x = nm
  <2> DEFINE g == [f \in Fragments(Size[nm]) |-> [to |-> c, name |-> nm, frag |-> f]]
             T == {[to |-> c, name |-> nm, frag |-> f] : f \in Fragments(Size[nm])}
  <2>1. g \in Surjection(Fragments(Size[nm]), T)
    BY DEF Surjection
  <2>2. IsFiniteSet(Fragments(Size[nm])) /\ Parts(nm) \in Nat
    BY FragmentCount, SizeAssumption DEF Parts
  <2>3. OnNet(nm)' \in SUBSET T
    <3>1. OnNet(nm) = {}
      BY <1>2, <1>4 DEF Spent
    <3>2. \A m \in OnNet(nm)' : m \in net' \ net
      BY <3>1 DEF OnNet
    <3>. QED
      BY <1>2, <1>4, <3>2
  <2>4. IsFiniteSet(T) /\ Cardinality(T) <= Parts(nm) /\ Cardinality(T) \in Nat
    <3> HIDE DEF g, T
    <3>. QED
      BY <2>1, <2>2, FS_Surjection, FS_CardinalityType DEF Parts
  <2>5. /\ IsFiniteSet(OnNet(nm)')
        /\ Cardinality(OnNet(nm)') <= Parts(nm)
        /\ Cardinality(OnNet(nm)') \in Nat
    <3> HIDE DEF g, T
    <3>1. PICK N : N = OnNet(nm)'
      OBVIOUS
    <3>2. IsFiniteSet(N) /\ Cardinality(N) <= Cardinality(T) /\ Cardinality(N) \in Nat
      BY <2>3, <2>4, <3>1, FS_Subset, FS_CardinalityType
    <3>. QED
      BY <2>2, <2>4, <3>1, <3>2
  <2>6. Times(c, nm) = 0 /\ Cardinality(Held(fragments, nm)) = 0 /\ dups \in Nat
    BY <1>2, <1>4, SpentTypes, FS_EmptySet DEF Spent
  <2>7. nm \notin unpublished'
    BY <1>2, <1>4
  <2>8. Times(c, nm)' * Parts(nm) + Cardinality(Held(fragments', nm))
          + Cardinality(OnNet(nm)') <= Parts(nm) + dups'
    BY <1>1, <2>2, <2>5, <2>6
  <2>. QED
    BY <2>5, <2>7, <2>8 DEF Spent, Parts
<1>. QED
    BY <1>3, <1>4

(* A fragment received leaves the net or is one of the duplicates, and pays  *)
(* for one more fragment that waits or was delivered.                        *)
LEMMA ReceiveSpent ==
    ASSUME NEW c, Client = {c}, RingInv, RingInv', NEW nm \in Name, Spent(c, nm),
           NEW m \in net, Receive(m)
    PROVE  Spent(c, nm)'
<1>1. /\ m.to = c /\ m.to \in Client /\ m.name \in Name
      /\ m.frag \in Fragments(Size[m.name])
    BY ReceiveFacts
<1>2. StepHeld(m)
    BY ReceiveHeld
<1>3. PICK t, k, w, n, d :
        /\ t = Times(c, nm) /\ k = Parts(nm) /\ w = Cardinality(Held(fragments, nm))
        /\ n = Cardinality(OnNet(nm)) /\ d = dups
    OBVIOUS
<1>4. PICK t1, w1, n1, d1 :
        /\ t1 = Times(c, nm)' /\ w1 = Cardinality(Held(fragments', nm))
        /\ n1 = Cardinality(OnNet(nm)') /\ d1 = dups'
    OBVIOUS
<1>5. /\ t \in Nat /\ k \in Nat /\ w \in Nat /\ n \in Nat /\ d \in Nat
      /\ t * k + w + n <= k + d
    BY <1>3, SpentTypes, FS_CardinalityType DEF Spent
<1>6. t1 \in Nat /\ w1 \in Nat /\ d1 \in Nat
  <2>1. ASSUME NEW x \in Name
        PROVE  Times(c, x)' \in Nat /\ Cardinality(Held(fragments', x)) \in Nat /\ dups' \in Nat
    <3>1. Times(c, x)' \in Nat
      BY DEF RingInv, DeliveredExact, Times
    <3>2. dups' \in Nat
      BY LimitAssumption DEF RingInv, TypeOK
    <3>3. Cardinality(Held(fragments', x)) \in Nat
      BY HeldFinite
    <3>. QED
      BY <3>1, <3>2, <3>3
  <2>. QED
    BY <1>4, <2>1
<1>7. /\ d1 >= d
      /\ OnNet(nm)' \subseteq OnNet(nm)
      /\ unpublished' = unpublished
    BY <1>3, <1>4, <1>5 DEF Receive, OnNet
<1>8. IsFiniteSet(OnNet(nm)') /\ n1 \in Nat /\ n1 <= n
  <2>1. PICK N, M : N = OnNet(nm)' /\ M = OnNet(nm)
    OBVIOUS
  <2>2. IsFiniteSet(M) /\ N \in SUBSET M
    BY <1>7, <2>1 DEF Spent
  <2>3. IsFiniteSet(N) /\ Cardinality(N) <= Cardinality(M) /\ Cardinality(N) \in Nat
    BY <2>2, FS_Subset, FS_CardinalityType
  <2>. QED
    BY <1>3, <1>4, <2>1, <2>3
<1>9. CASE nm # m.name
  <2>1. t1 = t
    <3>1. \A r : r = Delivery(c, nm) => r # Delivery(m.to, m.name)
      BY <1>9 DEF Delivery
    <3>2. CASE deliver(m.to, m.name, Fragments(Size[m.name]))
      <4>1. /\ DOMAIN delivered' = DOMAIN delivered \cup {Delivery(m.to, m.name)}
            /\ \A r \in DOMAIN delivered \ {Delivery(m.to, m.name)} : delivered'[r] = delivered[r]
        BY <1>1, <3>2, DeliverFacts DEF RingInv
      <4>2. PICK r : r = Delivery(c, nm)
        OBVIOUS
      <4>3. Times(c, nm)' = IF r \in DOMAIN delivered' THEN delivered'[r] ELSE 0
        BY <4>2 DEF Times, Delivery
      <4>. QED
        BY <1>3, <1>4, <3>1, <4>1, <4>2, <4>3 DEF Times
    <3>3. CASE UNCHANGED delivered
      BY <1>3, <1>4, <3>3 DEF Times, Delivery
    <3>. QED
      BY <1>2, <3>2, <3>3 DEF StepHeld
  <2>2. Held(fragments', nm) \subseteq Held(fragments, nm)
    BY <1>2, <1>9 DEF StepHeld
  <2>3. w1 <= w
    <3>1. PICK V, W : V = Held(fragments', nm) /\ W = Held(fragments, nm)
      OBVIOUS
    <3>2. V \in SUBSET W /\ IsFiniteSet(W)
      BY <2>2, <3>1, HeldFinite
    <3>. QED
      BY <1>3, <1>4, <3>1, <3>2, FS_Subset
  <2>4. t1 * k + w1 + n1 <= k + d1
    <3>1. t1 * k = t * k /\ t * k \in Nat
      BY <1>5, <2>1
    <3>. QED
      BY <1>5, <1>6, <1>7, <1>8, <2>3, <3>1
  <2>5. nm \in unpublished' => /\ Times(c, nm)' = 0
                               /\ Held(fragments', nm) = {}
                               /\ OnNet(nm)' = {}
    BY <1>3, <1>4, <1>7, <2>1, <2>2 DEF Spent
  <2>. QED
    BY <1>3, <1>4, <1>8, <2>4, <2>5 DEF Spent, Parts
<1>10. CASE nm = m.name
  <2>1. m \in OnNet(nm) /\ nm \notin unpublished'
    BY <1>7, <1>10 DEF OnNet, Spent
  <2>2. n1 + 1 + d <= n + d1
    <3>1. CASE net' = net \ {m} /\ UNCHANGED dups
      <4>1. OnNet(nm)' = OnNet(nm) \ {m} /\ IsFiniteSet(OnNet(nm))
        BY <3>1 DEF OnNet, Spent
      <4>2. n1 = n - 1
        BY <1>3, <1>4, <2>1, <4>1, FS_RemoveElement
      <4>. QED
        BY <1>3, <1>4, <1>5, <1>8, <3>1, <4>2
    <3>2. CASE dups' = dups + 1 /\ UNCHANGED net
      BY <1>3, <1>4, <1>5, <3>2 DEF OnNet
    <3>. QED
      BY <3>1, <3>2 DEF Receive
  <2>3. t1 * k + w1 <= t * k + w + 1
    <3>1. deliver(m.to, m.name, Fragments(Size[m.name])) => t1 = t + 1
      <4> SUFFICES ASSUME deliver(m.to, m.name, Fragments(Size[m.name])) PROVE t1 = t + 1
        OBVIOUS
      <4>1. PICK r : r = Delivery(m.to, m.name)
        OBVIOUS
      <4>2. /\ r \in DOMAIN delivered'
            /\ delivered'[r] = IF r \in DOMAIN delivered THEN delivered[r] + 1 ELSE 1
        <5>1. DeliveredExact
          BY DEF RingInv
        <5>2. /\ DOMAIN delivered' = DOMAIN delivered \cup {Delivery(m.to, m.name)}
              /\ delivered'[Delivery(m.to, m.name)] =
                   IF Delivery(m.to, m.name) \in DOMAIN delivered
                   THEN delivered[Delivery(m.to, m.name)] + 1 ELSE 1
          BY <1>1, <5>1, DeliverFacts
        <5>. QED
          BY <4>1, <5>2
      <4>3. /\ Times(c, nm) = IF r \in DOMAIN delivered THEN delivered[r] ELSE 0
            /\ Times(c, nm)' = IF r \in DOMAIN delivered' THEN delivered'[r] ELSE 0
        BY <1>1, <1>10, <4>1 DEF Times, Delivery
      <4>. QED
        BY <1>3, <1>4, <4>2, <4>3
    <3>2. (t + 1) * k = t * k + k /\ t * k \in Nat
      BY <1>5
    <3>3. UNCHANGED delivered => t1 = t
      BY <1>3, <1>4 DEF Times, Delivery
    <3>4. PICK V, W : V = Held(fragments', nm) /\ W = Held(fragments, nm)
      OBVIOUS
    <3>5. /\ IsFiniteSet(V) /\ IsFiniteSet(W)
          /\ w1 = Cardinality(V) /\ w = Cardinality(W)
      BY <1>3, <1>4, <3>4, HeldFinite
    <3>6. CASE /\ {m.frag} = Fragments(Size[m.name])
               /\ Held(fragments', m.name) \subseteq Held(fragments, m.name)
               /\ deliver(m.to, m.name, Fragments(Size[m.name]))
      <4>1. k = 1
        BY <1>3, <1>10, <3>6, FS_Singleton DEF Parts
      <4>2. w1 <= w /\ t1 = t + 1
        BY <1>10, <3>1, <3>4, <3>5, <3>6, FS_Subset
      <4>. QED
        BY <1>5, <1>6, <3>2, <4>1, <4>2
    <3>7. ASSUME NEW i \in Buffer,
                 m.name \in DOMAIN fragments[i],
                 fragments[i][m.name] \cup {m.frag} = Fragments(Size[m.name]),
                 Held(fragments', m.name) \subseteq
                    Held(fragments, m.name) \ {<<i, g>> : g \in fragments[i][m.name]},
                 deliver(m.to, m.name, Fragments(Size[m.name]))
          PROVE  t1 * k + w1 <= t * k + w + 1
      <4> DEFINE G == fragments[i][nm]
                 D == {<<i, g>> : g \in G}
                 pair == [g \in G |-> <<i, g>>]
      <4>1. G \in SUBSET Fragments(Size[nm]) /\ IsFiniteSet(Fragments(Size[nm]))
        BY <1>10, <3>7, FragmentCount, SizeAssumption DEF RingInv, Contents
      <4>2. D \subseteq W
        BY <1>10, <3>4, <3>7, <4>1 DEF Held
      <4>3. V \subseteq W \ D
        BY <1>10, <3>4, <3>7
      <4>4. pair \in Bijection(G, D)
        BY DEF Bijection, Injection, IsInjective, Surjection
      <4>5. G \cup {m.frag} = Fragments(Size[nm]) /\ k = Cardinality(Fragments(Size[nm]))
        BY <1>3, <1>10, <3>7 DEF Parts
      <4> HIDE DEF G, D, pair
      <4>6. IsFiniteSet(G) /\ Cardinality(G) \in Nat
        BY <4>1, FS_Subset, FS_CardinalityType
      <4>7. k <= Cardinality(G) + 1
        BY <4>5, <4>6, FS_AddElement
      <4>8. Cardinality(D) = Cardinality(G)
        BY <4>4, <4>6, FS_Bijection DEF ExistsBijection
      <4>9. IsFiniteSet(W \ D) /\ Cardinality(W \ D) = w - Cardinality(D)
        <5>1. W \cap D = D
          BY <4>2
        <5>. QED
          BY <3>5, <5>1, FS_Difference
      <4>10. w1 <= w - Cardinality(G)
        BY <3>5, <4>3, <4>8, <4>9, FS_Subset
      <4>11. t1 = t + 1
        BY <3>1, <3>7
      <4>. QED
        BY <1>5, <1>6, <3>2, <4>6, <4>7, <4>10, <4>11
    <3>8. ASSUME NEW i \in Buffer,
                 Held(fragments', m.name) \subseteq Held(fragments, m.name) \cup {<<i, m.frag>>},
                 UNCHANGED delivered
          PROVE  t1 * k + w1 <= t * k + w + 1
      <4>1. PICK p : p = <<i, m.frag>>
        OBVIOUS
      <4>2. V \in SUBSET (W \cup {p})
        BY <1>10, <3>4, <3>8, <4>1
      <4>3. IsFiniteSet(W \cup {p}) /\ Cardinality(W \cup {p}) \in {w, w + 1}
        BY <3>5, FS_AddElement
      <4>4. w1 <= w + 1
        BY <1>5, <1>6, <3>5, <4>2, <4>3, FS_Subset
      <4>. QED
        BY <1>5, <1>6, <3>2, <3>3, <3>8, <4>4
    <3>. QED
      BY <1>2, <3>6, <3>7, <3>8 DEF StepHeld
  <2>4. t1 * k + w1 + n1 <= k + d1
    <3>1. t * k \in Nat /\ t1 * k \in Nat
      BY <1>5, <1>6
    <3>. QED
      BY <1>5, <1>6, <1>8, <2>2, <2>3, <3>1
  <2>. QED
    BY <1>3, <1>4, <1>8, <2>1, <2>4 DEF Spent, Parts
<1>. QED
    BY <1>9, <1>10

(* Every step keeps the accounts.                                           *)
LEMMA NextSpent ==
    ASSUME NEW c, Client = {c}, RingInv, RingInv', \A nm \in Name : Spent(c, nm), [Next]_vars
    PROVE  \A nm \in Name : Spent(c, nm)'
<1>1. CASE UNCHANGED vars
    BY <1>1 DEF vars, Spent, Times, OnNet, Parts, Delivery
<1>2. CASE \E x \in Name : publishNamedObject(x)
    BY <1>2, PublishSpent
<1>3. CASE \E m \in net : Receive(m)
    BY <1>3, ReceiveSpent
<1>. QED
    BY <1>1, <1>2, <1>3 DEF Next

(* A process with one client: an object comes a second time only when the    *)
(* network repeated as many fragments as the object has, a third time only   *)
(* with twice as many, whatever was purged, erased or hidden in between.     *)
THEOREM Once ==
    ASSUME NEW c, Client = {c}
    PROVE  Spec => []DeliveredOnce
<1> DEFINE I == \A nm \in Name : Spent(c, nm)
<1>1. Init => I
    BY InitSpent
<1>2. RingInv /\ RingInv' /\ I /\ [Next]_vars => I'
    BY NextSpent
<1>3. RingInv /\ I => DeliveredOnce
  <2> SUFFICES ASSUME RingInv, I, NEW r \in DOMAIN delivered
               PROVE  (delivered[r] - 1) * Cardinality(r.frags) <= dups
    BY DEF DeliveredOnce
  <2>1. PICK nm \in Name : r = Delivery(c, nm)
    BY DEF RingInv, DeliveredExact
  <2>2. delivered[r] = Times(c, nm) /\ Cardinality(r.frags) = Parts(nm)
    BY <2>1 DEF Times, Parts, Delivery
  <2>3. PICK t, k, w, n, d :
          /\ t = Times(c, nm) /\ k = Parts(nm) /\ w = Cardinality(Held(fragments, nm))
          /\ n = Cardinality(OnNet(nm)) /\ d = dups
    OBVIOUS
  <2>4. /\ t \in Nat /\ k \in Nat /\ w \in Nat /\ n \in Nat /\ d \in Nat
        /\ t * k + w + n <= k + d
    BY <2>3, SpentTypes, FS_CardinalityType DEF Spent
  <2>5. t * k \in Nat /\ (t - 1) * k = t * k - k
    BY <2>4
  <2>6. (t - 1) * k <= d
    BY <2>4, <2>5
  <2>. QED
    BY <2>2, <2>3, <2>6
<1> HIDE DEF I
<1>. QED
    BY <1>1, <1>2, <1>3, SpecRingInv, PTL DEF Spec
=============================================================================
