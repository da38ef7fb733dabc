---------------------------- MODULE FlashProofs ----------------------------
(***************************************************************************)
(* Proofs about Flash and Patching, for every geometry of the chip, every  *)
(* limit of the adapter, and every image, patch and protected range.       *)
(***************************************************************************)
EXTENDS Patching, Integers, SequenceTheorems, FiniteSetTheorems,
        WellFoundedInduction, TLAPS

-----------------------------------------------------------------------------
(* Division *)

\* A positive multiple of a number is not below it.
LEMMA MultipleAbove ==
  ASSUME NEW p \in Nat \ {0}, NEW m \in Int, m > 0
  PROVE  p * m >= p
OBVIOUS

\* Quotient and remainder are what they are called.
LEMMA Division ==
  ASSUME NEW a \in Nat, NEW p \in Nat \ {0}
  PROVE  /\ a \div p \in Nat /\ a % p \in Nat
         /\ a % p < p
         /\ a = p * (a \div p) + (a % p)
<1>1. a % p \in Int /\ a \div p \in Int
  OBVIOUS
<1>2. 0 <= a % p /\ a % p < p
  OBVIOUS
<1>3. a = p * (a \div p) + (a % p)
  OBVIOUS
<1>4. a \div p >= 0
  <2>1. ASSUME NEW q \in Int, NEW r \in Int, r < p, a = p * q + r, q < 0
        PROVE  FALSE
    <3>1. p * (-q) >= p
      BY <2>1, MultipleAbove
    <3>2. p * (-q) = -(p * q)
      BY <2>1
    <3> DEFINE x == p * q
    <3>3. x \in Int /\ -x >= p /\ a = x + r
      BY <2>1, <3>1, <3>2
    <3> HIDE DEF x
    <3> QED
      BY <2>1, <3>3
  <2> QED
    BY <1>1, <1>2, <1>3, <2>1
<1> QED
  BY <1>1, <1>2, <1>3, <1>4

\* There is one quotient and one remainder.
LEMMA DivisionUnique ==
  ASSUME NEW p \in Nat \ {0}, NEW q \in Int, NEW r \in Int,
         NEW s \in Int, NEW t \in Int,
         0 <= s, s < p, 0 <= t, t < p, p * q + s = p * r + t
  PROVE  q = r /\ s = t
<1>1. p * (q - r) = t - s
  OBVIOUS
<1>2. ~(q - r > 0)
  BY <1>1, MultipleAbove
<1>3. p * (r - q) = s - t
  OBVIOUS
<1>4. ~(r - q > 0)
  BY <1>3, MultipleAbove
<1>5. q = r
  BY <1>2, <1>4
<1> QED
  BY <1>5

\* Within a block the quotient stays and the remainder counts.
LEMMA WithinBlock ==
  ASSUME NEW a \in Nat, NEW p \in Nat \ {0}, NEW i \in Nat, (a % p) + i < p
  PROVE  (a + i) % p = (a % p) + i
<1> DEFINE q == a \div p  r == a % p  s == (a + i) \div p  t == (a + i) % p
<1>1. q \in Nat /\ r \in Nat /\ s \in Nat /\ t \in Nat /\ t < p
  BY Division
<1>2. a = p * q + r /\ a + i = p * s + t
  BY Division
<1>3. r + i < p
  OBVIOUS
<1> HIDE DEF q, r, s, t
<1>4. p * s + t = p * q + (r + i)
  <2> DEFINE x == p * q
  <2>1. x \in Int /\ a = x + r
    BY <1>1, <1>2
  <2> HIDE DEF x
  <2>2. a + i = x + (r + i)
    BY <1>1, <2>1
  <2> QED
    BY <1>2, <2>2 DEF x
<1>5. t = r + i
  BY <1>1, <1>3, <1>4, DivisionUnique
<1> QED
  BY <1>5 DEF r, t

\* The address of a cell that is within the block of another.
LEMMA CellWithin ==
  ASSUME NEW a \in Nat, NEW p \in Nat \ {0}, NEW i \in Nat, (a % p) + i < p
  PROVE  (a \div p) * p + ((a + i) % p) = a + i
<1> DEFINE q == a \div p  r == a % p  x == p * q
<1>1. q \in Nat /\ r \in Nat /\ a = x + r
  BY Division
<1>2. (a + i) % p = r + i
  BY WithinBlock
<1> HIDE DEF q, r
<1>3. q * p = x /\ x \in Nat
  BY <1>1
<1> HIDE DEF x
<1>4. q * p + (r + i) = a + i
  BY <1>1, <1>3
<1> QED
  BY <1>2, <1>4 DEF q

\* What has the quotient of a multiple is within the block that begins there.
LEMMA BlockOfMultiple ==
  ASSUME NEW p \in Nat \ {0}, NEW m \in Nat, NEW c \in Nat,
         c \div p = (p * m) \div p
  PROVE  p * m <= c /\ c < p * m + p
<1> DEFINE a == p * m
<1>1. a \in Nat
  OBVIOUS
<1>2. /\ a \div p \in Nat /\ a % p \in Nat /\ a % p < p
      /\ a = p * (a \div p) + (a % p)
  BY <1>1, Division
<1>3. p * m + 0 = p * (a \div p) + (a % p)
  BY <1>2
<1>4. m = a \div p
  <2> HIDE DEF a
  <2> QED
    BY <1>2, <1>3, DivisionUnique
<1>5. c = p * (c \div p) + (c % p) /\ c % p \in Nat /\ c % p < p
  BY Division
<1>6. c = a + (c % p)
  BY <1>4, <1>5
<1> HIDE DEF a
<1>7. a <= c /\ c < a + p
  BY <1>1, <1>5, <1>6
<1> QED
  BY <1>7 DEF a

\* A number without remainder is a multiple.
LEMMA Multiple ==
  ASSUME NEW a \in Nat, NEW p \in Nat \ {0}, a % p = 0
  PROVE  a \div p \in Nat /\ a = p * (a \div p)
<1> DEFINE x == p * (a \div p)
<1>1. a \div p \in Nat /\ a = x + (a % p)
  BY Division
<1>2. x \in Nat
  BY <1>1
<1> HIDE DEF x
<1>3. a = x
  BY <1>1, <1>2
<1> QED
  BY <1>1, <1>3 DEF x

\* Below a multiple there is room for another block.
LEMMA RoomForBlock ==
  ASSUME NEW p \in Nat \ {0}, NEW j \in Nat, NEW n \in Nat, p * j < p * n
  PROVE  p * j + p <= p * n
<1> DEFINE x == p * j  y == p * n  z == p * (n - j)
<1>1. x \in Int /\ y \in Int /\ z \in Int /\ z = y - x /\ x < y
  OBVIOUS
<1>2. n - j \in Int /\ (n - j <= 0 => z <= 0)
  <2>1. ASSUME n - j <= 0 PROVE p * (j - n) >= 0
    BY <2>1
  <2>2. p * (j - n) = -z
    OBVIOUS
  <2> DEFINE w == p * (j - n)
  <2>3. w \in Int /\ w = -z
    BY <2>2
  <2> HIDE DEF w, z
  <2> QED
    BY <1>1, <2>1, <2>3 DEF w
<1>3. n - j > 0 => z >= p
  BY <1>2, MultipleAbove
<1> HIDE DEF x, y, z
<1>4. x + p <= y
  BY <1>1, <1>2, <1>3
<1> QED
  BY <1>4 DEF x, y

-----------------------------------------------------------------------------
(* Geometry *)

Request == [kind : Kind, offset : Nat, data : Seq({0, 1}), configure : BOOLEAN]

\* A chunk of a write is not empty, and ends with the page or the data.
LEMMA ChunkFits ==
  ASSUME NEW op \in Request, op.kind # "erase",
         NEW cursor \in Nat, cursor < Len(op.data)
  PROVE  /\ Chunk(op, cursor) \in Nat /\ Chunk(op, cursor) > 0
         /\ Chunk(op, cursor) <= Len(op.data) - cursor
         /\ Chunk(op, cursor) <= Page - ((op.offset + cursor) % Page)
<1>1. op.offset \in Nat /\ Len(op.data) \in Nat
  BY DEF Request
<1>2. /\ (op.offset + cursor) % Page \in Nat
      /\ (op.offset + cursor) % Page < Page
      /\ Page \in Nat /\ WriteLimit \in Nat \ {0}
  BY <1>1, Division, FlashParameters
<1> DEFINE room == Page - ((op.offset + cursor) % Page)
           left == Len(op.data) - cursor
           chunk == Chunk(op, cursor)
<1>3. room \in Nat \ {0} /\ left \in Nat \ {0} /\ WriteLimit \in Nat \ {0}
  BY <1>1, <1>2
<1>4. chunk = Smaller(room, Smaller(WriteLimit, left))
  BY DEF Chunk
<1> HIDE DEF room, left, chunk
<1>5. chunk \in Nat /\ chunk > 0 /\ chunk <= left /\ chunk <= room
  BY <1>3, <1>4 DEF Smaller
<1> QED
  BY <1>5 DEF room, left, chunk

\* An erase command stays in the region of its operation.
LEMMA EraseInside ==
  ASSUME NEW op \in Request, op.kind = "erase", ValidErase(op),
         NEW j \in Nat, NEW cursor \in Nat, cursor = Sector * j,
         cursor < Len(op.data)
  PROVE  DOMAIN Commanded(op, cursor) \subseteq Region(op)
<1> DEFINE n == Len(op.data) \div Sector  o == op.offset \div Sector
<1>1. op.offset \in Nat /\ Len(op.data) \in Nat /\ Sector \in Nat \ {0}
  BY FlashParameters DEF Request
<1>2. n \in Nat /\ o \in Nat /\ Len(op.data) = Sector * n /\ op.offset = Sector * o
  BY <1>1, Multiple DEF ValidErase
<1> HIDE DEF n, o
<1>3. cursor + Sector <= Len(op.data)
  BY <1>1, <1>2, RoomForBlock
<1>4. op.offset + cursor = Sector * (o + j)
  BY <1>1, <1>2
<1>5. ASSUME NEW c \in Address, c \div Sector = (op.offset + cursor) \div Sector
      PROVE  c \in Region(op)
  <2>1. c \in Nat /\ o + j \in Nat
    BY <1>2, <1>5, FlashParameters DEF Address
  <2>2. Sector * (o + j) <= c /\ c < Sector * (o + j) + Sector
    BY <1>1, <1>4, <1>5, <2>1, BlockOfMultiple
  <2> DEFINE x == op.offset + cursor
  <2>3. x <= c /\ c < x + Sector
    BY <1>4, <2>2
  <2>4. op.offset <= c /\ c <= op.offset + Len(op.data) - 1
    <3> DEFINE base == op.offset  len == Len(op.data)
    <3>1. /\ base \in Nat /\ len \in Nat /\ cursor + Sector <= len
          /\ base + cursor <= c /\ c < (base + cursor) + Sector
      BY <1>1, <1>3, <2>3
    <3>2. Sector \in Nat /\ c \in Nat
      BY <1>1, <2>1
    <3> HIDE DEF base, len
    <3>3. base <= c /\ c <= base + len - 1
      BY <3>1, <3>2
    <3> QED  BY <3>3 DEF base, len
  <2> QED
    BY <1>1, <2>1, <2>4 DEF Region
<1> QED
  BY <1>5 DEF Commanded, Erasing

\* A program command does not wrap, and stays in the region of its operation.
LEMMA ProgramInside ==
  ASSUME NEW op \in Request, op.kind # "erase",
         NEW cursor \in Nat, cursor < Len(op.data)
  PROVE  DOMAIN Commanded(op, cursor) \subseteq Region(op)
<1> DEFINE a == op.offset + cursor
           data == SubSeq(op.data, cursor + 1, cursor + Chunk(op, cursor))
           cell(i) == (a \div Page) * Page + ((a + i - 1) % Page)
<1>1. /\ op.offset \in Nat /\ Len(op.data) \in Nat /\ a \in Nat
      /\ Page \in Nat \ {0} /\ op.data \in Seq({0, 1})
  BY FlashParameters DEF Request
<1>2. Len(data) = Chunk(op, cursor)
  <2> DEFINE chunk == Chunk(op, cursor)
  <2>1. chunk \in Nat /\ chunk <= Len(op.data) - cursor
    BY ChunkFits
  <2> HIDE DEF chunk
  <2>2. Len(SubSeq(op.data, cursor + 1, cursor + chunk)) = chunk
    BY <1>1, <2>1
  <2> QED
    BY <2>2 DEF chunk
<1>3. ASSUME NEW i \in 1..Chunk(op, cursor) PROVE cell(i) \in Region(op)
  <2>1. /\ i - 1 \in Nat /\ (a % Page) + (i - 1) < Page
        /\ cursor + i <= Len(op.data)
    <3> DEFINE m == a % Page  chunk == Chunk(op, cursor)
    <3>1. m \in Nat /\ Page \in Nat
      BY <1>1, Division
    <3>2. /\ chunk \in Nat /\ chunk <= Len(op.data) - cursor
          /\ chunk <= Page - m
      BY ChunkFits
    <3>3. i \in 1..chunk
      BY <1>3
    <3> HIDE DEF m, chunk
    <3>4. i - 1 \in Nat /\ m + (i - 1) < Page /\ cursor + i <= Len(op.data)
      BY <1>1, <3>1, <3>2, <3>3
    <3> QED
      BY <3>4 DEF m
  <2>2. cell(i) = a + (i - 1)
    <3>1. a + i - 1 = a + (i - 1)
      BY <1>1
    <3> QED
      BY <1>1, <2>1, <3>1, CellWithin
  <2>3. a + (i - 1) = op.offset + (cursor + (i - 1))
    BY <1>1, <2>1
  <2> HIDE DEF a, cell
  <2>4. cell(i) = op.offset + (cursor + (i - 1))
    BY <2>2, <2>3
  <2>5. cursor + (i - 1) \in 0..(Len(op.data) - 1)
    <3>1. cursor + (i - 1) = (cursor + i) - 1 /\ cursor + i \in Nat
      BY <2>1
    <3> QED
      BY <1>1, <2>1, <3>1
  <2> QED
    BY <1>1, <2>4, <2>5 DEF Region
<1>4. DOMAIN Commanded(op, cursor) = {cell(i) : i \in 1..Len(data)}
  BY DEF Commanded, Programming
<1> HIDE DEF cell, data
<1> QED
  BY <1>2, <1>3, <1>4

\* The region of a request in range is on the chip.
LEMMA RangeOnChip ==
  ASSUME NEW op \in Request, ValidRange(op)
  PROVE  Region(op) \subseteq Address
<1>1. op.offset \in Nat /\ Len(op.data) \in Nat /\ Capacity \in Nat \ {0}
  BY FlashParameters DEF Request
<1> QED
  BY <1>1 DEF ValidRange, Region, Address

\* An operation of a plan is a request that asks for something.
LEMMA OperationIsRequest ==
  ASSUME NEW op \in Operations
  PROVE  op \in Request /\ 0 < Len(op.data) /\ op.configure \in BOOLEAN
<1>1. /\ op.offset \in Nat /\ op.kind \in Kind /\ op.configure \in BOOLEAN
      /\ op.data \in Seq({0, 1}) /\ op.data # <<>>
      /\ op = [kind |-> op.kind, offset |-> op.offset, data |-> op.data,
               configure |-> op.configure]
  BY FlashParameters
<1> QED
  BY <1>1 DEF Request

-----------------------------------------------------------------------------
(* Steps *)

\* A set of numbers up to n that has 0 and the successor of each has them all.
LEMMA Steps ==
  ASSUME NEW n \in Nat, NEW T, 0 \in T,
         \A i \in 1..n : i - 1 \in T => i \in T
  PROVE  0..n \subseteq T
<1> SUFFICES ASSUME 0..n \ T # {} PROVE FALSE
  OBVIOUS
<1> DEFINE Left == 0..n \ T
<1>1. Left \subseteq Nat /\ Left # {}
  OBVIOUS
<1>2. PICK m \in Left : \A k \in Left : ~(k < m)
  <2> DEFINE R == OpToRel(<, Nat)
  <2> HIDE DEF Left
  <2>1. \A k, m \in Nat : <<k, m>> \in R <=> k < m
    BY DEF OpToRel
  <2>2. IsWellFoundedOn(R, Nat)
    BY NatLessThanWellFounded
  <2> HIDE DEF R
  <2>3. \E m \in Left : \A k \in Left : ~(<<k, m>> \in R)
    BY <1>1, <2>2, WFMin
  <2> QED  BY <1>1, <2>1, <2>3
<1>3. m \in 1..n /\ m - 1 \in 0..n /\ m - 1 < m
  BY <1>2
<1>4. m - 1 \in T
  BY <1>2, <1>3
<1> QED  BY <1>2, <1>3, <1>4

\* step[i][x] is what step i makes of x; f is the walk that they make of first.
StepsOf(step, n, S) == \A i \in 1..n : step[i] \in [S -> S]

WalkOf(f, step, n, S, first) ==
  /\ f \in [0..n -> S] /\ f[0] = first
  /\ \A i \in 1..n : f[i] = step[i][f[i - 1]]

\* There is a walk.
LEMMA Walk ==
  ASSUME NEW n \in Nat, NEW S, NEW first \in S, NEW step, StepsOf(step, n, S)
  PROVE  \E f : WalkOf(f, step, n, S, first)
<1> DEFINE T == {m \in 0..n : \E f : WalkOf(f, step, m, S, first)}
<1>1. 0 \in T
  <2>1. WalkOf([i \in 0..0 |-> first], step, 0, S, first)
    BY DEF WalkOf
  <2> QED  BY <2>1
<1>2. ASSUME NEW m \in 1..n, m - 1 \in T
      PROVE  m \in T
  <2>1. PICK k \in Nat : k = m - 1
    OBVIOUS
  <2>2. /\ k \in 0..k /\ m \notin 0..k /\ 0 \in 0..k
        /\ \A i \in 0..m : i # m => i \in 0..k
        /\ \A i \in 1..m : i - 1 \in 0..k
        /\ \A i \in 1..m : i # m => i \in 1..k
    BY <2>1
  <2>3. PICK g : WalkOf(g, step, k, S, first)
    BY <1>2, <2>1
  <2>4. /\ g \in [0..k -> S] /\ g[0] = first
        /\ \A i \in 1..k : g[i] = step[i][g[i - 1]]
    BY <2>3 DEF WalkOf
  <2>5. PICK last \in S : last = step[m][g[k]]
    <3>1. g[k] \in S /\ step[m] \in [S -> S]
      BY <2>2, <2>4 DEF StepsOf
    <3> QED  BY <3>1
  <2> DEFINE f == [i \in 0..m |-> IF i = m THEN last ELSE g[i]]
  <2>6. /\ f \in [0..m -> S] /\ f[m] = last
        /\ \A i \in 0..k : f[i] = g[i]
    <3>1. \A i \in 0..m : (IF i = m THEN last ELSE g[i]) \in S
      BY <2>2, <2>4
    <3>2. m \in 0..m /\ 0..k \subseteq 0..m
      BY <2>1
    <3> QED  BY <2>2, <3>1, <3>2
  <2> HIDE DEF f
  <2>7. ASSUME NEW i \in 1..m
        PROVE  f[i] = step[i][f[i - 1]]
    <3>1. f[i - 1] = g[i - 1]
      BY <2>2, <2>6
    <3>2. CASE i = m
      BY <2>1, <2>5, <2>6, <3>1, <3>2
    <3>3. CASE i # m
      <4>1. i \in 1..k /\ i \in 0..k
        BY <2>2, <3>3
      <4> QED  BY <2>4, <2>6, <3>1, <4>1
    <3> QED  BY <3>2, <3>3
  <2>8. WalkOf(f, step, m, S, first)
    BY <2>2, <2>4, <2>6, <2>7 DEF WalkOf
  <2> QED  BY <2>8
<1> HIDE DEF T
<1>3. n \in T
  BY <1>1, <1>2, Steps
<1> QED  BY <1>3 DEF T

-----------------------------------------------------------------------------
(* The order of patches (build_candidate) *)

\* What ByteRange::new accepts, and a patch of one.
RangeType == [start : Nat, end : Nat]
PatchType == [start : Nat, end : Nat, replacement : Seq({0, 1})]

Precedes(patches, i, j) ==
  \/ patches[i].start < patches[j].start
  \/ patches[i].start = patches[j].start /\ i < j

Preceding(patches, i) == {j \in DOMAIN patches : Precedes(patches, j, i)}

LEMMA PatchFields ==
  ASSUME NEW patches \in Seq(PatchType), NEW i \in DOMAIN patches
  PROVE  /\ patches[i] \in PatchType
         /\ patches[i].start \in Nat /\ patches[i].end \in Nat
         /\ patches[i].replacement \in Seq({0, 1})
<1>1. patches[i] \in PatchType
  OBVIOUS
<1> QED  BY <1>1 DEF PatchType

\* The patches before another are fewer than all of them.
LEMMA PrecedingFinite ==
  ASSUME NEW patches \in Seq(PatchType), NEW i \in DOMAIN patches
  PROVE  /\ IsFiniteSet(Preceding(patches, i))
         /\ Cardinality(Preceding(patches, i)) \in 0..(Len(patches) - 1)
<1> DEFINE n == Len(patches)  others == (1..n) \ {i}  B == Preceding(patches, i)
<1>1. n \in Nat /\ i \in 1..n /\ DOMAIN patches = 1..n /\ 1 <= n
  OBVIOUS
<1>2. B \subseteq others
  BY <1>1, PatchFields DEF Preceding, Precedes
<1> HIDE DEF n, B
<1>3. IsFiniteSet(1..n) /\ Cardinality(1..n) = n
  BY <1>1, FS_Interval
<1>4. IsFiniteSet(others) /\ Cardinality(others) = n - 1
  BY <1>1, <1>3, FS_RemoveElement
<1> HIDE DEF others
<1>5. IsFiniteSet(B) /\ Cardinality(B) <= Cardinality(others)
  BY <1>2, <1>4, FS_Subset
<1>6. Cardinality(B) \in Nat
  BY <1>5, FS_CardinalityType
<1> QED  BY <1>1, <1>4, <1>5, <1>6 DEF n, B

\* A patch has more before it than each of those has.
LEMMA PrecedingGrows ==
  ASSUME NEW patches \in Seq(PatchType),
         NEW i \in DOMAIN patches, NEW j \in DOMAIN patches,
         Precedes(patches, i, j)
  PROVE  Cardinality(Preceding(patches, i)) < Cardinality(Preceding(patches, j))
<1> DEFINE B == Preceding(patches, i)  C == Preceding(patches, j)
<1>1. B \subseteq C /\ i \in C /\ i \notin B
  BY PatchFields DEF Preceding, Precedes
<1>2. /\ IsFiniteSet(C) /\ Cardinality(C) \in Int
      /\ IsFiniteSet(B) /\ Cardinality(B) \in Int
  BY PrecedingFinite
<1> HIDE DEF B, C
<1>3. Cardinality(B) <= Cardinality(C) /\ (Cardinality(C) = Cardinality(B) => C = B)
  BY <1>1, <1>2, FS_Subset
<1>4. Cardinality(B) < Cardinality(C)
  BY <1>1, <1>2, <1>3
<1> QED  BY <1>4 DEF B, C

LEMMA PrecedingTotal ==
  ASSUME NEW patches \in Seq(PatchType),
         NEW i \in DOMAIN patches, NEW j \in DOMAIN patches, i # j
  PROVE  Precedes(patches, i, j) \/ Precedes(patches, j, i)
BY PatchFields DEF Precedes

\* Each place in the order is the place of one patch.
LEMMA Places ==
  ASSUME NEW patches \in Seq(PatchType), NEW k \in 1..Len(patches)
  PROVE  \E i \in DOMAIN patches : Cardinality(Preceding(patches, i)) = k - 1
<1> DEFINE n == Len(patches)  T == 0..(n - 1)
           rank == [i \in 1..n |-> Cardinality(Preceding(patches, i))]
<1>1. n \in Nat /\ DOMAIN patches = 1..n /\ k - 1 \in T
  OBVIOUS
<1>2. rank \in [1..n -> T]
  BY <1>1, PrecedingFinite
<1>3. ASSUME NEW i \in 1..n, NEW j \in 1..n, rank[i] = rank[j]
      PROVE  i = j
  <2> SUFFICES ASSUME i # j PROVE FALSE
    OBVIOUS
  <2> DEFINE x == Cardinality(Preceding(patches, i))
             y == Cardinality(Preceding(patches, j))
  <2>1. x < y \/ y < x
    BY <1>1, PrecedingTotal, PrecedingGrows
  <2>2. x \in Int /\ y \in Int /\ x = y
    BY <1>1, <1>3, PrecedingFinite
  <2> HIDE DEF x, y
  <2> QED  BY <2>1, <2>2
<1>4. rank \in Injection(1..n, T)
  <2> HIDE DEF rank, T
  <2> QED  BY <1>2, <1>3 DEF Injection, IsInjective
<1>5. /\ IsFiniteSet(1..n) /\ Cardinality(1..n) = n
      /\ IsFiniteSet(T) /\ Cardinality(T) = n
  <2>1. IsFiniteSet(1..n) /\ Cardinality(1..n) = n
    BY <1>1, FS_Interval
  <2>2. IsFiniteSet(T) /\ Cardinality(T) = n
    <3> HIDE DEF n
    <3>1. 0 \in Int /\ n - 1 \in Int
      BY <1>1
    <3>2. /\ IsFiniteSet(0..(n - 1))
          /\ Cardinality(0..(n - 1)) =
               IF 0 > n - 1 THEN 0 ELSE n - 1 - 0 + 1
      BY <3>1, FS_Interval
    <3> QED  BY <1>1, <3>2
  <2> QED  BY <2>1, <2>2
<1>6. rank \in Surjection(1..n, T)
  <2> HIDE DEF rank, T
  <2> QED  BY <1>4, <1>5, FS_Injection
<1>7. \E i \in 1..n : rank[i] = k - 1
  <2> HIDE DEF rank, T
  <2> QED  BY <1>1, <1>6 DEF Surjection
<1> QED  BY <1>1, <1>7

\* Sorting keeps the patches and puts them in the order of their starts.
LEMMA SortedSorts ==
  ASSUME NEW patches \in Seq(PatchType)
  PROVE  /\ Sorted(patches) \in Seq(PatchType)
         /\ Len(Sorted(patches)) = Len(patches)
         /\ Range(Sorted(patches)) = Range(patches)
         /\ \A k, l \in 1..Len(patches) :
              k < l => Sorted(patches)[k].start <= Sorted(patches)[l].start
<1> DEFINE n == Len(patches)  rank(i) == Cardinality(Preceding(patches, i))
           place == [k \in 1..n |-> CHOOSE i \in DOMAIN patches : rank(i) = k - 1]
           ordered == [k \in 1..n |-> patches[place[k]]]
<1>1. n \in Nat /\ DOMAIN patches = 1..n /\ patches \in [1..n -> PatchType]
  OBVIOUS
<1>2. Sorted(patches) = ordered
  BY <1>1 DEF Sorted, Preceding, Precedes
<1>3. \A k \in 1..n : place[k] \in 1..n /\ rank(place[k]) = k - 1
  <2> TAKE k \in 1..n
  <2>1. \E i \in DOMAIN patches : rank(i) = k - 1
    BY Places
  <2> HIDE DEF rank
  <2> QED  BY <1>1, <2>1
<1> HIDE DEF place
<1>4. ordered \in [1..n -> PatchType]
  BY <1>1, <1>3
<1>5. ordered \in Seq(PatchType) /\ Len(ordered) = n
  BY <1>1, <1>4
<1>6. Range(ordered) = Range(patches)
  <2>1. ASSUME NEW i \in 1..n
        PROVE  \E k \in 1..n : place[k] = i
    <3>1. PICK k \in 1..n : rank(i) = k - 1
      <4> DEFINE c == rank(i)
      <4>1. c \in 0..(n - 1)
        BY <1>1, PrecedingFinite
      <4> HIDE DEF c
      <4>2. c + 1 \in 1..n /\ c = (c + 1) - 1
        BY <1>1, <4>1
      <4> QED  BY <4>2 DEF c
    <3>2. rank(place[k]) = rank(i)
      BY <1>3, <3>1
    <3>3. ~Precedes(patches, place[k], i) /\ ~Precedes(patches, i, place[k])
      <4> DEFINE c == rank(i)  d == rank(place[k])
      <4>1. c \in Int /\ d \in Int /\ c = d
        BY <1>1, <1>3, <3>2, PrecedingFinite
      <4>2. /\ Precedes(patches, place[k], i) => d < c
            /\ Precedes(patches, i, place[k]) => c < d
        BY <1>1, <1>3, PrecedingGrows
      <4> HIDE DEF c, d
      <4> QED  BY <4>1, <4>2
    <3> QED  BY <1>1, <1>3, <3>3, PrecedingTotal
  <2> QED  BY <1>1, <1>3, <2>1 DEF Range
<1>7. ASSUME NEW k \in 1..n, NEW l \in 1..n, k < l
      PROVE  ordered[k].start <= ordered[l].start
  <2>1. PICK i \in 1..n, j \in 1..n : i = place[k] /\ j = place[l]
    BY <1>3
  <2>2. rank(i) = k - 1 /\ rank(j) = l - 1
    BY <1>3, <2>1
  <2>3. ~Precedes(patches, j, i) /\ i # j
    <3>1. Precedes(patches, j, i) => rank(j) < rank(i)
      BY <1>1, PrecedingGrows
    <3> HIDE DEF rank
    <3> QED  BY <1>7, <2>2, <3>1
  <2>4. Precedes(patches, i, j)
    BY <1>1, <2>3, PrecedingTotal
  <2>5. patches[i].start <= patches[j].start
    BY <1>1, <2>4, PatchFields DEF Precedes
  <2> QED  BY <2>1, <2>5
<1> HIDE DEF ordered
<1> QED  BY <1>2, <1>5, <1>6, <1>7

-----------------------------------------------------------------------------
(* What patches make of an image (build_candidate) *)

\* A patch of bytes of the image, as long as its replacement.
Fits(patch, n) ==
  /\ patch \in PatchType
  /\ patch.end <= n
  /\ Len(patch.replacement) = patch.end - patch.start

\* An applied patch replaces its bytes and no others.
LEMMA AppliedCells ==
  ASSUME NEW n \in Nat, NEW patch, Fits(patch, n),
         NEW image \in [1..n -> {0, 1}]
  PROVE  /\ Applied(image, patch) \in [1..n -> {0, 1}]
         /\ Cells(patch) \subseteq 1..n
         /\ \A i \in Cells(patch) :
              Applied(image, patch)[i] = patch.replacement[i - patch.start]
         /\ \A i \in 1..n :
              i \notin Cells(patch) => Applied(image, patch)[i] = image[i]
<1> DEFINE start == patch.start  end == patch.end  new == patch.replacement
<1>1. /\ start \in Nat /\ end \in Nat /\ end <= n
      /\ new \in Seq({0, 1}) /\ Len(new) = end - start
  BY DEF Fits, PatchType
<1>2. /\ Applied(image, patch) =
           [i \in 1..n |-> IF start < i /\ i <= end THEN new[i - start] ELSE image[i]]
      /\ Cells(patch) = (start + 1)..end
  BY DEF Applied, Cells
<1> HIDE DEF start, end, new
<1>3. /\ \A i \in Cells(patch) : start < i /\ i <= end /\ i \in 1..n
      /\ \A i \in 1..n : start < i /\ i <= end => i \in Cells(patch)
  BY <1>1, <1>2
<1>4. ASSUME NEW i \in Cells(patch) PROVE new[i - start] \in {0, 1}
  <2>1. i - start \in 1..Len(new)
    BY <1>1, <1>2
  <2> QED  BY <1>1, <2>1
<1>5. /\ Applied(image, patch) \in [1..n -> {0, 1}]
      /\ \A i \in Cells(patch) : Applied(image, patch)[i] = new[i - start]
      /\ \A i \in 1..n :
           i \notin Cells(patch) => Applied(image, patch)[i] = image[i]
  <2> HIDE DEF Applied
  <2> QED  BY <1>2, <1>3, <1>4
<1> QED  BY <1>3, <1>5 DEF new, start

\* The patches are applied one after the other.
LEMMA Applications ==
  ASSUME NEW n \in Nat, NEW original \in [1..n -> {0, 1}],
         NEW patches, Len(patches) \in Nat,
         \A k \in 1..Len(patches) : Fits(patches[k], n)
  PROVE  \E image \in [0..Len(patches) -> [1..n -> {0, 1}]] :
           /\ image[0] = original
           /\ \A k \in 1..Len(patches) :
                image[k] = Applied(image[k - 1], patches[k])
           /\ AllApplied(original, patches) = image[Len(patches)]
<1> DEFINE m == Len(patches)
           S == [1..n -> {0, 1}]
           step == [k \in 1..m |-> [x \in S |-> Applied(x, patches[k])]]
           Is(f) == f = [k \in 0..m |-> IF k = 0 THEN original
                                        ELSE Applied(f[k - 1], patches[k])]
<1>1. original \in S /\ m \in Nat
  OBVIOUS
<1>2. StepsOf(step, m, S)
  <2>1. \A k \in 1..m : \A x \in S : Applied(x, patches[k]) \in S
    BY AppliedCells
  <2> HIDE DEF S
  <2> QED  BY <2>1 DEF StepsOf
<1> HIDE DEF S
<1>3. PICK f \in [0..m -> S] :
        f[0] = original /\ \A k \in 1..m : f[k] = step[k][f[k - 1]]
  <2> HIDE DEF step, m, Is
  <2>1. \E f : WalkOf(f, step, m, S, original)
    BY <1>1, <1>2, Walk
  <2> QED  BY <2>1 DEF WalkOf
<1>4. \A k \in 1..m : f[k - 1] \in S
  BY <1>1, <1>3
<1>5. \A k \in 1..m : f[k] = Applied(f[k - 1], patches[k])
  BY <1>1, <1>3, <1>4
<1>6. Is(f)
  BY <1>1, <1>3, <1>5
<1>7. PICK g : Is(g) /\ AllApplied(original, patches) = g[m]
  <2> DEFINE g == CHOOSE h : Is(h)
  <2>1. Is(g)
    <3> HIDE DEF Is
    <3> QED  BY <1>6
  <2>2. AllApplied(original, patches) = g[m]
    BY DEF AllApplied
  <2> QED  BY <2>1, <2>2
<1>8. /\ g[0] = original
      /\ \A k \in 1..m : g[k] = Applied(g[k - 1], patches[k])
      /\ DOMAIN g = 0..m
  <2> DEFINE e == [k \in 0..m |-> IF k = 0 THEN original
                                  ELSE Applied(g[k - 1], patches[k])]
  <2>1. g = e
    BY <1>7
  <2>2. /\ e[0] = original /\ DOMAIN e = 0..m
        /\ \A k \in 1..m : e[k] = Applied(g[k - 1], patches[k])
    BY <1>1
  <2> HIDE DEF e
  <2> QED  BY <2>1, <2>2
<1>9. g \in [0..m -> S]
  <2> DEFINE T == {k \in 0..m : g[k] \in S}
  <2>1. 0 \in T
    BY <1>1, <1>8
  <2>2. \A k \in 1..m : k - 1 \in T => k \in T
    <3> TAKE k \in 1..m
    <3> HAVE k - 1 \in T
    <3>1. Applied(g[k - 1], patches[k]) \in S
      BY AppliedCells DEF S
    <3> QED  BY <1>8, <3>1
  <2> HIDE DEF T
  <2>3. 0..m \subseteq T
    BY <1>1, <2>1, <2>2, Steps
  <2>4. g = [k \in 0..m |-> g[k]]
    BY <1>7
  <2> QED  BY <1>8, <2>3, <2>4 DEF T
<1> QED  BY <1>7, <1>8, <1>9 DEF S

Apart(patches) ==
  \A k, l \in 1..Len(patches) :
    k # l => Cells(patches[k]) \cap Cells(patches[l]) = {}

AllFit(patches, n) == \A k \in 1..Len(patches) : Fits(patches[k], n)

\* The bytes hold the patches, and the rest is as it was.
Patched(bytes, original, patches, n) ==
  /\ bytes \in [1..n -> {0, 1}]
  /\ \A k \in 1..Len(patches) : \A i \in Cells(patches[k]) :
       bytes[i] = patches[k].replacement[i - patches[k].start]
  /\ \A i \in 1..n :
       (\A k \in 1..Len(patches) : i \notin Cells(patches[k])) =>
         bytes[i] = original[i]

\* Patches that do not touch each other all hold, and the rest is as it was.
LEMMA AllAppliedCells ==
  ASSUME NEW n \in Nat, NEW original \in [1..n -> {0, 1}],
         NEW patches, Len(patches) \in Nat,
         AllFit(patches, n), Apart(patches)
  PROVE  Patched(AllApplied(original, patches), original, patches, n)
<1> DEFINE m == Len(patches)
           New(k, i) == patches[k].replacement[i - patches[k].start]
<1>1. PICK image \in [0..m -> [1..n -> {0, 1}]] :
        /\ image[0] = original
        /\ \A k \in 1..m : image[k] = Applied(image[k - 1], patches[k])
        /\ AllApplied(original, patches) = image[m]
  BY Applications DEF AllFit
<1> DEFINE Done(l) ==
             /\ \A k \in 1..l : \A i \in Cells(patches[k]) :
                  image[l][i] = New(k, i)
             /\ \A i \in 1..n :
                  (\A k \in 1..l : i \notin Cells(patches[k])) =>
                    image[l][i] = original[i]
           T == {l \in 0..m : Done(l)}
<1>2. m \in Nat
  OBVIOUS
<1>3. \A k \in 1..m : Fits(patches[k], n)
  BY DEF AllFit
<1>4. \A k, l \in 1..m :
        k # l => Cells(patches[k]) \cap Cells(patches[l]) = {}
  BY DEF Apart
<1> HIDE DEF m, New
<1>5. 0 \in T
  BY <1>1, <1>2
<1>6. ASSUME NEW l \in 1..m, l - 1 \in T
      PROVE  l \in T
  <2> DEFINE was == image[l - 1]  is == image[l]
  <2>1. /\ was \in [1..n -> {0, 1}] /\ is = Applied(was, patches[l])
        /\ l \in 0..m /\ l \in 1..l
    BY <1>1, <1>2
  <2>2. /\ \A k \in 1..(l - 1) : \A i \in Cells(patches[k]) :
             was[i] = New(k, i)
        /\ \A i \in 1..n :
             (\A k \in 1..(l - 1) : i \notin Cells(patches[k])) =>
               was[i] = original[i]
    BY <1>6
  <2> HIDE DEF was, is, T, Done
  <2>3. /\ Cells(patches[l]) \subseteq 1..n
        /\ \A i \in Cells(patches[l]) : is[i] = New(l, i)
        /\ \A i \in 1..n : i \notin Cells(patches[l]) => is[i] = was[i]
    BY <1>3, <2>1, AppliedCells DEF New
  <2>4. \A k \in 1..l : k # l => k \in 1..(l - 1) /\ k \in 1..m
    BY <1>2
  <2>5. ASSUME NEW k \in 1..l, NEW i \in Cells(patches[k])
        PROVE  is[i] = New(k, i)
    <3>1. CASE k = l
      BY <2>3, <3>1
    <3>2. CASE k # l
      <4>1. k \in 1..(l - 1) /\ k \in 1..m
        BY <2>4, <3>2
      <4>2. i \notin Cells(patches[l])
        BY <1>4, <3>2, <4>1
      <4>3. i \in 1..n
        BY <1>3, <2>1, <4>1, AppliedCells
      <4> QED  BY <2>2, <2>3, <4>1, <4>2, <4>3
    <3> QED  BY <3>1, <3>2
  <2>6. ASSUME NEW i \in 1..n, \A k \in 1..l : i \notin Cells(patches[k])
        PROVE  is[i] = original[i]
    <3>1. \A k \in 1..(l - 1) : k \in 1..l
      OBVIOUS
    <3> QED  BY <2>1, <2>2, <2>3, <2>6, <3>1
  <2> QED  BY <2>1, <2>5, <2>6 DEF T, Done, is
<1>7. m \in T
  <2> HIDE DEF T
  <2>1. 0..m \subseteq T
    BY <1>2, <1>5, <1>6, Steps
  <2> QED  BY <1>2, <2>1
<1>8. Done(m)
  BY <1>7
<1>9. image[m] \in [1..n -> {0, 1}]
  BY <1>1, <1>2
<1> QED  BY <1>1, <1>8, <1>9 DEF Patched, m, New

\* In the order of starts, patches that do not touch their neighbour touch none.
LEMMA NeighboursSuffice ==
  ASSUME NEW ordered \in Seq(PatchType),
         \A k \in 1..Len(ordered) : ordered[k].start < ordered[k].end,
         \A k, l \in 1..Len(ordered) :
           k < l => ordered[k].start <= ordered[l].start,
         \A k \in 1..Len(ordered) :
           k > 1 => ~Overlaps(ordered[k - 1], ordered[k])
  PROVE  Apart(ordered)
<1> DEFINE n == Len(ordered)
<1>1. n \in Nat /\ DOMAIN ordered = 1..n
  OBVIOUS
<1>2. \A k \in 1..n : ordered[k].start \in Nat /\ ordered[k].end \in Nat
  BY PatchFields
<1>3. ASSUME NEW k \in 1..n, NEW l \in 1..n, k < l
      PROVE  ordered[k].end <= ordered[l].start
  <2>1. k + 1 \in 1..n /\ k + 1 > 1 /\ (k + 1) - 1 = k
        /\ (k + 1 < l \/ k + 1 = l)
    BY <1>1, <1>3
  <2>2. PICK h \in 1..n : h = k + 1
    BY <2>1
  <2>3. ~Overlaps(ordered[k], ordered[h])
    BY <2>1, <2>2
  <2>4. ordered[k].start <= ordered[h].start
    BY <1>1, <2>2
  <2>5. ordered[h].start <= ordered[l].start
    BY <1>2, <2>1, <2>2
  <2>6. ordered[h].start < ordered[h].end
    OBVIOUS
  <2>7. ordered[k].end <= ordered[h].start
    BY <1>2, <2>3, <2>4, <2>6 DEF Overlaps
  <2> QED  BY <1>2, <2>5, <2>7
<1>4. ASSUME NEW k \in 1..n, NEW l \in 1..n, k < l
      PROVE  Cells(ordered[k]) \cap Cells(ordered[l]) = {}
  BY <1>2, <1>3, <1>4 DEF Cells
<1> QED
  <2> SUFFICES ASSUME NEW k \in 1..n, NEW l \in 1..n, k # l
               PROVE  Cells(ordered[k]) \cap Cells(ordered[l]) = {}
    BY DEF Apart
  <2>1. k < l \/ l < k
    BY <1>1
  <2> QED  BY <1>4, <2>1

PatchesOK(patches) ==
  /\ patches \in Seq(PatchType)
  /\ \A i \in DOMAIN patches : patches[i].start < patches[i].end

RangesOK(ranges) ==
  ranges \subseteq RangeType /\ \A r \in ranges : r.start < r.end

\* What a candidate is to its image, the patches and the protected ranges.
Composed(built, original, patches, protected) ==
  /\ built.bytes \in Seq({0, 1}) /\ Len(built.bytes) = Len(original)
  /\ \A p \in Range(patches) : \A i \in Cells(p) :
       i \in DOMAIN original /\ built.bytes[i] = p.replacement[i - p.start]
  /\ Difference(original, built.bytes) \subseteq CellsOf(built.modified)
  /\ CellsOf(built.modified) \cap CellsOf(protected) = {}

\* A candidate that is not refused holds every patch, in whatever order and
\* number they were asked for, and is the image otherwise (build_candidate).
LEMMA CandidateComposed ==
  ASSUME NEW original \in Seq({0, 1}),
         NEW patches, PatchesOK(patches), NEW protected, RangesOK(protected),
         ~BuildCandidate(original, patches, protected).refused
  PROVE  Composed(BuildCandidate(original, patches, protected),
                  original, patches, protected)
<1> DEFINE n == Len(original)  m == Len(patches)
           ordered == Sorted(patches)
           built == BuildCandidate(original, patches, protected)
           bytes == AllApplied(original, ordered)
           within(r) == r.end <= n
           acceptable(i) ==
             /\ within(ordered[i])
             /\ Len(ordered[i].replacement) = ordered[i].end - ordered[i].start
             /\ i > 1 => ~Overlaps(ordered[i - 1], ordered[i])
             /\ \A r \in protected : ~Overlaps(ordered[i], r)
           modified == {[start |-> p.start, end |-> p.end] : p \in Range(ordered)}
<1>1. /\ n \in Nat /\ original \in [1..n -> {0, 1}] /\ DOMAIN original = 1..n
      /\ patches \in Seq(PatchType)
      /\ \A p \in Range(patches) : p.start < p.end
  BY DEF PatchesOK, Range
<1>2. /\ ordered \in Seq(PatchType) /\ Len(ordered) = m /\ m \in Nat
      /\ Range(ordered) = Range(patches) /\ DOMAIN ordered = 1..m
      /\ \A k, l \in 1..m : k < l => ordered[k].start <= ordered[l].start
  <2>1. m \in Nat
    BY <1>1
  <2>2. /\ ordered \in Seq(PatchType) /\ Len(ordered) = m
        /\ Range(ordered) = Range(patches)
        /\ \A k, l \in 1..m : k < l => ordered[k].start <= ordered[l].start
    BY <1>1, SortedSorts
  <2> HIDE DEF m, ordered
  <2> QED  BY <2>1, <2>2
<1>3. /\ \A i \in DOMAIN ordered : acceptable(i)
      /\ built = [refused |-> FALSE, bytes |-> bytes, modified |-> modified]
  <2>1. built = IF /\ \A r \in protected : within(r)
                   /\ \A i \in DOMAIN ordered : acceptable(i)
                THEN [refused |-> FALSE, bytes |-> bytes, modified |-> modified]
                ELSE Refused
    BY DEF BuildCandidate
  <2>2. ~built.refused /\ Refused.refused
    BY DEF Refused
  <2> HIDE DEF built, acceptable, within, bytes, modified, ordered
  <2> QED  BY <2>1, <2>2
<1>4. built.bytes = bytes /\ built.modified = modified
  <2> HIDE DEF bytes, modified, built
  <2> QED  BY <1>3
<1> HIDE DEF n, m, ordered, built, bytes
<1>5. \A k \in 1..m : ordered[k] \in Range(patches)
  BY <1>2 DEF Range
<1>6. \A k \in 1..m : ordered[k].start < ordered[k].end
  BY <1>1, <1>5
<1>7. AllFit(ordered, n)
  BY <1>2, <1>3, PatchFields DEF AllFit, Fits
<1>8. \A k \in 1..m : k > 1 => ~Overlaps(ordered[k - 1], ordered[k])
  BY <1>2, <1>3
<1>9. Apart(ordered)
  BY <1>2, <1>6, <1>8, NeighboursSuffice
<1>10. /\ bytes \in [1..n -> {0, 1}]
       /\ \A k \in 1..m : \A i \in Cells(ordered[k]) :
            bytes[i] = ordered[k].replacement[i - ordered[k].start]
       /\ \A i \in 1..n :
            (\A k \in 1..m : i \notin Cells(ordered[k])) => bytes[i] = original[i]
  <2>1. Len(ordered) \in Nat
    BY <1>2
  <2>2. Patched(bytes, original, ordered, n)
    BY <1>1, <1>7, <1>9, <2>1, AllAppliedCells DEF bytes
  <2> QED  BY <1>2, <2>2 DEF Patched
<1>11. \A p \in Range(patches) : \E k \in 1..m : p = ordered[k]
  BY <1>2 DEF Range
<1>12. \A k \in 1..m : Cells(ordered[k]) \subseteq 1..n
  BY <1>1, <1>2, <1>7, AppliedCells DEF AllFit
<1>13. bytes \in Seq({0, 1}) /\ Len(bytes) = n
  BY <1>1, <1>10
<1>14. ASSUME NEW k \in 1..m
       PROVE  Cells(ordered[k]) \subseteq CellsOf(modified)
  <2> DEFINE p == ordered[k]  r == [start |-> p.start, end |-> p.end]
  <2>1. p \in Range(ordered)
    BY <1>2, <1>5
  <2>2. r \in modified
    BY <2>1
  <2>3. Cells(r) = Cells(p)
    BY DEF Cells
  <2> HIDE DEF r, modified
  <2> QED  BY <2>2, <2>3 DEF CellsOf
<1>15. ASSUME NEW i \in CellsOf(modified)
       PROVE  \E k \in 1..m : i \in Cells(ordered[k])
  <2>1. PICK r \in modified : i \in Cells(r)
    BY <1>15 DEF CellsOf
  <2>2. PICK p \in Range(ordered) : r = [start |-> p.start, end |-> p.end]
    BY <2>1
  <2>3. Cells(r) = Cells(p)
    BY <2>2 DEF Cells
  <2> QED  BY <1>2, <1>11, <2>1, <2>2, <2>3
<1> HIDE DEF modified
<1>16. Difference(original, bytes) \subseteq CellsOf(modified)
  BY <1>1, <1>10, <1>14 DEF Difference
<1>17. CellsOf(modified) \cap CellsOf(protected) = {}
  <2> SUFFICES ASSUME NEW k \in 1..m, NEW i \in Cells(ordered[k]),
                      NEW r \in protected, i \in Cells(r)
               PROVE  FALSE
    BY <1>15 DEF CellsOf
  <2>1. ~Overlaps(ordered[k], r)
    BY <1>2, <1>3
  <2>2. /\ ordered[k].start \in Nat /\ ordered[k].end \in Nat
        /\ r.start \in Nat /\ r.end \in Nat
    BY <1>2, PatchFields DEF RangesOK, RangeType
  <2> QED  BY <2>1, <2>2 DEF Overlaps, Cells
<1>18. \A p \in Range(patches) : \A i \in Cells(p) :
         i \in 1..n /\ bytes[i] = p.replacement[i - p.start]
  BY <1>10, <1>11, <1>12
<1> QED
  BY <1>1, <1>4, <1>13, <1>16, <1>17, <1>18 DEF Composed, built, n

-----------------------------------------------------------------------------
(* The scan of two images (compare_images) *)

Differing(left, right, i) == {k \in 1..i : left[k] # right[k]}

ScanType == [changed : Nat, count : Nat, open : Seq(Nat), ranges : Seq(RangeType)]

\* The bytes of the run under way, and where the runs that ended did so.
OpenCells(s, i) == IF s.open = <<>> THEN {} ELSE (s.open[1] + 1)..i
ClosedUpTo(s, i) == IF s.open = <<>> THEN i ELSE s.open[1]

NamedSound(s, i, left, right) ==
  /\ s.open # <<>> => s.open[1] < i
  /\ OpenCells(s, i) \subseteq Differing(left, right, i)
  /\ \A j \in 1..Len(s.ranges) :
       /\ s.ranges[j].end <= ClosedUpTo(s, i)
       /\ Cells(s.ranges[j]) \subseteq Differing(left, right, i)

\* As long as there was room every run was named; since then there is a changed
\* byte behind all that are.
NamedComplete(s, i, left, right, limit) ==
  /\ Len(s.ranges) <= limit /\ Len(s.ranges) <= s.count
  /\ s.count = Len(s.ranges) =>
       \A q \in Differing(left, right, i) :
         \/ q \in OpenCells(s, i)
         \/ \E j \in 1..Len(s.ranges) : q \in Cells(s.ranges[j])
  /\ s.count # Len(s.ranges) =>
       /\ Len(s.ranges) = limit
       /\ \E q \in Differing(left, right, i) :
            \A j \in 1..Len(s.ranges) : s.ranges[j].end < q

\* What a scan knows when it has come to byte i.
Scanned(s, i, left, right, limit) ==
  /\ s \in ScanType
  /\ s.changed = Cardinality(Differing(left, right, i))
  /\ NamedSound(s, i, left, right)
  /\ NamedComplete(s, i, left, right, limit)

LEMMA ScanFields ==
  ASSUME NEW s \in ScanType
  PROVE  /\ s.changed \in Nat /\ s.count \in Nat
         /\ s.open \in Seq(Nat) /\ (s.open # <<>> => s.open[1] \in Nat)
         /\ s.ranges \in Seq(RangeType) /\ Len(s.ranges) \in Nat
         /\ \A j \in 1..Len(s.ranges) :
              /\ s.ranges[j] \in RangeType
              /\ s.ranges[j].start \in Nat /\ s.ranges[j].end \in Nat
<1>1. s.open \in Seq(Nat) /\ s.ranges \in Seq(RangeType)
  BY DEF ScanType
<1>2. s.open # <<>> => s.open[1] \in Nat
  BY <1>1
<1>3. \A j \in 1..Len(s.ranges) : s.ranges[j] \in RangeType
  BY <1>1
<1>4. \A r \in RangeType : r.start \in Nat /\ r.end \in Nat
  BY DEF RangeType
<1>5. Len(s.ranges) \in Nat
  BY <1>1
<1> QED  BY <1>1, <1>2, <1>3, <1>4, <1>5 DEF ScanType

\* A run that ends is named while there is room.
LEMMA ClosedFields ==
  ASSUME NEW s \in ScanType, s.open # <<>>, NEW i \in Nat, NEW limit
  PROVE  LET c == Closed(s, i, limit)
             r == [start |-> s.open[1], end |-> i]
         IN  /\ c \in ScanType /\ c.open = <<>>
             /\ c.changed = s.changed /\ c.count = s.count + 1
             /\ c.ranges = IF Len(s.ranges) < limit THEN Append(s.ranges, r)
                           ELSE s.ranges
<1> DEFINE r == [start |-> s.open[1], end |-> i]
           ranges == IF Len(s.ranges) < limit THEN Append(s.ranges, r)
                     ELSE s.ranges
<1>1. r \in RangeType
  BY ScanFields DEF RangeType
<1>2. ranges \in Seq(RangeType)
  <2> HIDE DEF r
  <2> QED  BY <1>1, ScanFields
<1>3. Closed(s, i, limit) =
        [s EXCEPT !.count = @ + 1, !.open = <<>>, !.ranges = ranges]
  BY DEF Closed
<1> HIDE DEF ranges
<1>4. LET c == Closed(s, i, limit)
      IN  /\ c \in ScanType /\ c.open = <<>>
          /\ c.changed = s.changed /\ c.count = s.count + 1
          /\ c.ranges = ranges
  <2>1. PICK count \in Nat, open \in Seq(Nat) :
          count = s.count + 1 /\ open = <<>>
    <3>1. s.count + 1 \in Nat /\ <<>> \in Seq(Nat)
      BY ScanFields
    <3> QED  BY <3>1
  <2>2. Closed(s, i, limit) =
          [s EXCEPT !.count = count, !.open = open, !.ranges = ranges]
    BY <1>3, <2>1
  <2>3. LET c == Closed(s, i, limit)
        IN  /\ c \in ScanType /\ c.open = open
            /\ c.changed = s.changed /\ c.count = count
            /\ c.ranges = ranges
    BY <1>2, <2>2 DEF ScanType
  <2> QED  BY <2>1, <2>3
<1> QED  BY <1>4 DEF ranges

LEMMA AppendFields ==
  ASSUME NEW ranges \in Seq(RangeType), NEW r \in RangeType
  PROVE  /\ Len(Append(ranges, r)) = Len(ranges) + 1
         /\ \A j \in 1..(Len(ranges) + 1) :
              Append(ranges, r)[j] = IF j <= Len(ranges) THEN ranges[j] ELSE r
OBVIOUS

\* The end of a run keeps what the scan knows.
LEMMA CloseKeeps ==
  ASSUME NEW i \in Nat, NEW left, NEW right, NEW limit \in Nat,
         NEW s, Scanned(s, i, left, right, limit)
  PROVE  /\ Scanned(Closed(s, i, limit), i, left, right, limit)
         /\ Closed(s, i, limit).open = <<>>
<1> DEFINE c == Closed(s, i, limit)  D == Differing(left, right, i)
<1>1. CASE s.open = <<>>
  BY <1>1 DEF Closed
<1>2. CASE s.open # <<>>
  <2>1. PICK n \in Nat, from \in Nat, count \in Nat,
               ranges \in Seq(RangeType) :
          /\ n = Len(s.ranges) /\ from = s.open[1] /\ count = s.count
          /\ ranges = s.ranges
    BY <1>2, ScanFields DEF Scanned
  <2>2. PICK r \in RangeType : r = [start |-> from, end |-> i]
    BY DEF RangeType
  <2>3. r.start = from /\ r.end = i /\ Cells(r) = (from + 1)..i
    BY <2>2 DEF Cells
  <2>4. /\ from < i /\ Cells(r) \subseteq D
        /\ \A j \in 1..n : ranges[j].end <= from /\ Cells(ranges[j]) \subseteq D
    BY <1>2, <2>1, <2>3 DEF Scanned, NamedSound, OpenCells, ClosedUpTo
  <2>5. /\ n <= limit /\ n <= count
        /\ count = n => \A q \in D :
             q \in Cells(r) \/ \E j \in 1..n : q \in Cells(ranges[j])
        /\ count # n =>
             n = limit /\ \E q \in D : \A j \in 1..n : ranges[j].end < q
    BY <1>2, <2>1, <2>3 DEF Scanned, NamedComplete, OpenCells
  <2>6. \A j \in 1..n : ranges[j].end \in Nat
    BY <2>1, ScanFields DEF Scanned
  <2>7. /\ c \in ScanType /\ c.open = <<>> /\ c.count = count + 1
        /\ c.changed = Cardinality(D)
        /\ c.ranges = IF n < limit THEN Append(ranges, r) ELSE ranges
    BY <1>2, <2>1, <2>2, ClosedFields DEF Scanned
  <2> HIDE DEF c, D
  <2>8. OpenCells(c, i) = {} /\ ClosedUpTo(c, i) = i
    BY <2>7 DEF OpenCells, ClosedUpTo
  <2>9. CASE n < limit
    <3>1. /\ Len(c.ranges) = n + 1
          /\ \A j \in 1..(n + 1) :
               c.ranges[j] = IF j <= n THEN ranges[j] ELSE r
      BY <2>1, <2>7, <2>9, AppendFields
    <3>2. /\ \A j \in 1..(n + 1) : j <= n => j \in 1..n
          /\ \A j \in 1..n : j \in 1..(n + 1) /\ j <= n
          /\ n + 1 \in 1..(n + 1) /\ ~(n + 1 <= n)
      OBVIOUS
    <3>3. \A j \in 1..(n + 1) :
            c.ranges[j].end <= i /\ Cells(c.ranges[j]) \subseteq D
      BY <2>3, <2>4, <2>6, <3>1, <3>2
    <3>4. NamedSound(c, i, left, right)
      BY <2>7, <2>8, <3>1, <3>3 DEF NamedSound, D
    <3>5. count = n
      BY <2>5, <2>9
    <3>6. \A q \in D : \E j \in 1..(n + 1) : q \in Cells(c.ranges[j])
      <4> TAKE q \in D
      <4>1. q \in Cells(r) \/ \E j \in 1..n : q \in Cells(ranges[j])
        BY <2>5, <3>5
      <4>2. /\ c.ranges[n + 1] = r
            /\ \A j \in 1..n : c.ranges[j] = ranges[j]
        BY <3>1, <3>2
      <4> QED  BY <3>2, <4>1, <4>2
    <3>7. NamedComplete(c, i, left, right, limit)
      BY <2>7, <2>9, <3>1, <3>5, <3>6 DEF NamedComplete, D
    <3> QED  BY <2>7, <3>4, <3>7 DEF Scanned, c, D
  <2>10. CASE ~(n < limit)
    <3>1. c.ranges = ranges /\ Len(c.ranges) = n /\ n = limit
      BY <2>1, <2>5, <2>7, <2>10
    <3>2. NamedSound(c, i, left, right)
      BY <2>4, <2>6, <2>7, <2>8, <3>1 DEF NamedSound, D
    <3>3. from + 1 \in D /\ \A j \in 1..n : ranges[j].end < from + 1
      BY <2>3, <2>4, <2>6
    <3>4. count + 1 # n /\ n <= count + 1
      BY <2>5
    <3>5. NamedComplete(c, i, left, right, limit)
      BY <2>7, <3>1, <3>3, <3>4 DEF NamedComplete, D
    <3> QED  BY <2>7, <3>2, <3>5 DEF Scanned, c, D
  <2> QED  BY <2>9, <2>10
<1> QED  BY <1>1, <1>2

\* What byte i makes of a scan.
ScanStep(s, i, left, right, limit) ==
  IF left[i] = right[i] THEN Closed(s, i - 1, limit)
  ELSE [s EXCEPT !.changed = @ + 1,
          !.open = IF @ = <<>> THEN <<i - 1>> ELSE @]

LEMMA ChangedFields ==
  ASSUME NEW s \in ScanType, NEW i \in Nat \ {0}, NEW left, NEW right,
         NEW limit, left[i] # right[i]
  PROVE  LET c == ScanStep(s, i, left, right, limit)
         IN  /\ c \in ScanType
             /\ c.changed = s.changed + 1 /\ c.count = s.count
             /\ c.open # <<>>
             /\ c.open[1] = IF s.open = <<>> THEN i - 1 ELSE s.open[1]
             /\ c.ranges = s.ranges
<1>1. PICK changed \in Nat, open \in Seq(Nat) :
        /\ changed = s.changed + 1
        /\ open = IF s.open = <<>> THEN <<i - 1>> ELSE s.open
        /\ open # <<>>
        /\ open[1] = IF s.open = <<>> THEN i - 1 ELSE s.open[1]
  <2>1. s.changed + 1 \in Nat /\ s.open \in Seq(Nat) /\ <<i - 1>> \in Seq(Nat)
    BY ScanFields
  <2>2. <<i - 1>> # <<>> /\ <<i - 1>>[1] = i - 1
    OBVIOUS
  <2> QED  BY <2>1, <2>2
<1>2. ScanStep(s, i, left, right, limit) =
        [s EXCEPT !.changed = changed, !.open = open]
  BY <1>1 DEF ScanStep
<1>3. LET c == ScanStep(s, i, left, right, limit)
      IN  /\ c \in ScanType /\ c.open = open
          /\ c.changed = changed /\ c.count = s.count
          /\ c.ranges = s.ranges
  BY <1>2 DEF ScanType
<1> QED  BY <1>1, <1>3

LEMMA ScanStepType ==
  ASSUME NEW s \in ScanType, NEW i \in Nat \ {0}, NEW left, NEW right, NEW limit
  PROVE  ScanStep(s, i, left, right, limit) \in ScanType
<1>1. CASE left[i] # right[i]
  BY <1>1, ChangedFields
<1>2. CASE left[i] = right[i] /\ s.open = <<>>
  BY <1>2 DEF ScanStep, Closed
<1>3. CASE left[i] = right[i] /\ s.open # <<>>
  <2>1. i - 1 \in Nat
    OBVIOUS
  <2> QED  BY <1>3, <2>1, ClosedFields DEF ScanStep
<1> QED  BY <1>1, <1>2, <1>3

LEMMA DifferingGrows ==
  ASSUME NEW i \in Nat \ {0}, NEW left, NEW right
  PROVE  LET was == Differing(left, right, i - 1)
             is == Differing(left, right, i)
         IN  /\ Cardinality(was) \in Nat
             /\ left[i] = right[i] => is = was
             /\ left[i] # right[i] =>
                  is = was \cup {i} /\ Cardinality(is) = Cardinality(was) + 1
<1> DEFINE was == Differing(left, right, i - 1)
           is == Differing(left, right, i)
<1>1. /\ i \notin was /\ was \subseteq 1..(i - 1)
      /\ left[i] = right[i] => is = was
      /\ left[i] # right[i] => is = was \cup {i}
  BY DEF Differing
<1>2. IsFiniteSet(1..(i - 1))
  <2>1. 1 \in Int /\ i - 1 \in Int
    OBVIOUS
  <2> QED  BY <2>1, FS_Interval
<1> HIDE DEF was, is
<1>3. IsFiniteSet(was)
  BY <1>1, <1>2, FS_Subset
<1>4. Cardinality(was) \in Nat
  BY <1>3, FS_CardinalityType
<1>5. Cardinality(was \cup {i}) = Cardinality(was) + 1
  BY <1>1, <1>3, FS_AddElement
<1> QED  BY <1>1, <1>4, <1>5 DEF was, is

LEMMA ScanStepKeeps ==
  ASSUME NEW i \in Nat \ {0}, NEW left, NEW right, NEW limit \in Nat,
         NEW s, Scanned(s, i - 1, left, right, limit)
  PROVE  Scanned(ScanStep(s, i, left, right, limit), i, left, right, limit)
<1>1. PICK h \in Nat : h = i - 1
  OBVIOUS
<1>2. Scanned(s, h, left, right, limit) /\ s \in ScanType
  BY <1>1 DEF Scanned
<1>3. CASE left[i] = right[i]
  <2>1. PICK c : c = Closed(s, h, limit)
    OBVIOUS
  <2>2. Scanned(c, h, left, right, limit) /\ c.open = <<>>
    BY <1>2, <2>1, CloseKeeps
  <2>3. Differing(left, right, i) = Differing(left, right, h)
    BY <1>1, <1>3, DifferingGrows
  <2>4. /\ OpenCells(c, i) = OpenCells(c, h)
        /\ ClosedUpTo(c, i) = i /\ ClosedUpTo(c, h) = h
    BY <2>2 DEF OpenCells, ClosedUpTo
  <2>5. NamedSound(c, i, left, right)
    <3>1. \A j \in 1..Len(c.ranges) : c.ranges[j].end \in Nat
      BY <2>2, ScanFields DEF Scanned
    <3>2. \A e \in Nat : e <= h => e <= i
      BY <1>1
    <3> QED  BY <2>2, <2>3, <2>4, <3>1, <3>2 DEF Scanned, NamedSound
  <2>6. NamedComplete(c, i, left, right, limit)
    BY <2>2, <2>3, <2>4 DEF Scanned, NamedComplete
  <2>7. Scanned(c, i, left, right, limit)
    BY <2>2, <2>3, <2>5, <2>6 DEF Scanned
  <2> QED  BY <1>1, <1>3, <2>1, <2>7 DEF ScanStep
<1>4. CASE left[i] # right[i]
  <2> DEFINE c == ScanStep(s, i, left, right, limit)
             D == Differing(left, right, i)  was == Differing(left, right, h)
  <2>1. /\ c \in ScanType /\ c.changed = s.changed + 1 /\ c.count = s.count
        /\ c.open # <<>>
        /\ c.open[1] = (IF s.open = <<>> THEN h ELSE s.open[1])
        /\ c.ranges = s.ranges
    <3>1. /\ c \in ScanType /\ c.changed = s.changed + 1 /\ c.count = s.count
          /\ c.open # <<>>
          /\ c.open[1] = (IF s.open = <<>> THEN i - 1 ELSE s.open[1])
          /\ c.ranges = s.ranges
      <4>1. s \in ScanType /\ i \in Nat \ {0} /\ left[i] # right[i]
        BY <1>2, <1>4
      <4>2. PICK d : d = ScanStep(s, i, left, right, limit)
        OBVIOUS
      <4>3. /\ d \in ScanType /\ d.changed = s.changed + 1
            /\ d.count = s.count /\ d.open # <<>>
            /\ d.open[1] = (IF s.open = <<>> THEN i - 1 ELSE s.open[1])
            /\ d.ranges = s.ranges
        BY <4>1, <4>2, ChangedFields
      <4> QED  BY <4>2, <4>3
    <3> HIDE DEF c
    <3> QED  BY <1>1, <3>1
  <2>2. D = was \cup {i} /\ Cardinality(D) = Cardinality(was) + 1
    BY <1>1, <1>4, DifferingGrows
  <2> HIDE DEF c, D, was
  <2>3. /\ s.changed = Cardinality(was)
        /\ NamedSound(s, h, left, right)
        /\ NamedComplete(s, h, left, right, limit)
    BY <1>2 DEF Scanned, was
  <2>4. OpenCells(c, i) = OpenCells(s, h) \cup {i}
    <3>1. CASE s.open = <<>>
      BY <1>1, <2>1, <3>1 DEF OpenCells
    <3>2. CASE s.open # <<>>
      <4>1. s.open[1] \in Nat /\ s.open[1] < h
        BY <1>2, <2>3, <3>2, ScanFields DEF NamedSound
      <4>2. (s.open[1] + 1)..i = (s.open[1] + 1)..h \cup {i}
        BY <1>1, <4>1
      <4> QED  BY <2>1, <3>2, <4>2 DEF OpenCells
    <3> QED  BY <3>1, <3>2
  <2>5. ClosedUpTo(c, i) = ClosedUpTo(s, h)
    BY <2>1 DEF ClosedUpTo
  <2>6. c.open[1] < i
    BY <1>1, <1>2, <2>1, <2>3, ScanFields DEF NamedSound
  <2>7. NamedSound(c, i, left, right)
    BY <2>1, <2>2, <2>3, <2>4, <2>5, <2>6 DEF NamedSound, D, was
  <2>8. NamedComplete(c, i, left, right, limit)
    BY <2>1, <2>2, <2>3, <2>4 DEF NamedComplete, D, was
  <2>9. c.changed = Cardinality(D)
    BY <2>1, <2>2, <2>3
  <2> QED  BY <2>1, <2>7, <2>8, <2>9 DEF Scanned, c, D
<1> QED  BY <1>3, <1>4

\* The scan of all bytes knows them all.
LEMMA ScanSound ==
  ASSUME NEW left \in Seq({0, 1}), NEW right, NEW limit \in Nat,
         Len(left) = Len(right)
  PROVE  \E s : /\ Scanned(s, Len(left), left, right, limit) /\ s.open = <<>>
                /\ CompareImages(left, right, limit) =
                     [refused |-> FALSE, changed |-> s.changed,
                      ranges |-> s.ranges, complete |-> s.count = Len(s.ranges)]
<1> DEFINE n == Len(left)
           first == [changed |-> 0, count |-> 0, open |-> <<>>, ranges |-> <<>>]
           step == [i \in 1..n |->
                      [s \in ScanType |-> ScanStep(s, i, left, right, limit)]]
           Is(f) == f = [i \in 0..n |->
                           IF i = 0 THEN first
                           ELSE IF left[i] = right[i]
                           THEN Closed(f[i - 1], i - 1, limit)
                           ELSE [f[i - 1] EXCEPT !.changed = @ + 1,
                                   !.open = IF @ = <<>> THEN <<i - 1>> ELSE @]]
<1>1. n \in Nat
  OBVIOUS
<1>2. first \in ScanType /\ Scanned(first, 0, left, right, limit)
  <2>1. /\ <<>> \in Seq(Nat) /\ <<>> \in Seq(RangeType) /\ 0 \in Nat
        /\ Len(<<>>) = 0
    OBVIOUS
  <2>2. first \in ScanType
    BY <2>1 DEF ScanType
  <2>3. Differing(left, right, 0) = {}
    BY DEF Differing
  <2>4. Cardinality({}) = 0
    BY FS_EmptySet
  <2>5. NamedSound(first, 0, left, right)
    BY DEF NamedSound, OpenCells
  <2>6. NamedComplete(first, 0, left, right, limit)
    BY <2>1, <2>3 DEF NamedComplete
  <2> QED  BY <2>2, <2>3, <2>4, <2>5, <2>6 DEF Scanned
<1>3. StepsOf(step, n, ScanType)
  <2>1. \A i \in 1..n : \A s \in ScanType :
          ScanStep(s, i, left, right, limit) \in ScanType
    BY <1>1, ScanStepType
  <2> QED  BY <2>1 DEF StepsOf
<1>4. PICK f : /\ f \in [0..n -> ScanType] /\ f[0] = first
               /\ \A i \in 1..n : f[i] = step[i][f[i - 1]]
  <2> HIDE DEF step, n, first, Is
  <2>1. \E f : WalkOf(f, step, n, ScanType, first)
    BY <1>1, <1>2, <1>3, Walk
  <2> QED  BY <2>1 DEF WalkOf
<1>5. \A i \in 1..n : f[i] = ScanStep(f[i - 1], i, left, right, limit)
  <2>1. \A i \in 1..n : f[i - 1] \in ScanType
    BY <1>1, <1>4
  <2> HIDE DEF n
  <2> QED  BY <1>4, <2>1
<1>6. Is(f)
  <2> DEFINE e == [i \in 0..n |-> IF i = 0 THEN first
                                  ELSE ScanStep(f[i - 1], i, left, right, limit)]
  <2>1. f = e
    <3>1. \A i \in 0..n : i # 0 => i \in 1..n
      BY <1>1
    <3> HIDE DEF n, first
    <3> QED  BY <1>4, <1>5, <3>1
  <2> QED  BY <2>1 DEF ScanStep
<1>7. PICK g : /\ Is(g)
               /\ CompareImages(left, right, limit) =
                    LET last == Closed(g[n], n, limit)
                    IN  [refused |-> FALSE, changed |-> last.changed,
                         ranges |-> last.ranges,
                         complete |-> last.count = Len(last.ranges)]
  <2> DEFINE g == CHOOSE h : Is(h)
  <2>1. Is(g)
    <3> HIDE DEF Is
    <3> QED  BY <1>6
  <2>2. CompareImages(left, right, limit) =
          LET last == Closed(g[n], n, limit)
          IN  [refused |-> FALSE, changed |-> last.changed,
               ranges |-> last.ranges,
               complete |-> last.count = Len(last.ranges)]
    BY DEF CompareImages
  <2> QED  BY <2>1, <2>2
<1>8. /\ g[0] = first
      /\ \A i \in 1..n : g[i] = ScanStep(g[i - 1], i, left, right, limit)
  <2> DEFINE e == [i \in 0..n |-> IF i = 0 THEN first
                                  ELSE ScanStep(g[i - 1], i, left, right, limit)]
  <2>1. g = e
    BY <1>7 DEF ScanStep
  <2>2. /\ e[0] = first
        /\ \A i \in 1..n : e[i] = ScanStep(g[i - 1], i, left, right, limit)
    <3> HIDE DEF n, first
    <3> QED  BY <1>1
  <2> HIDE DEF e
  <2> QED  BY <2>1, <2>2
<1> HIDE DEF first, Is
<1>9. Scanned(g[n], n, left, right, limit)
  <2> DEFINE T == {i \in 0..n : Scanned(g[i], i, left, right, limit)}
  <2>1. 0 \in T
    BY <1>1, <1>2, <1>8
  <2>2. ASSUME NEW i \in 1..n, i - 1 \in T PROVE i \in T
    <3>1. i \in Nat \ {0} /\ i \in 0..n
      BY <1>1
    <3> HIDE DEF n
    <3>2. Scanned(g[i - 1], i - 1, left, right, limit)
      BY <2>2
    <3> QED  BY <1>8, <3>1, <3>2, ScanStepKeeps
  <2> HIDE DEF T
  <2>3. 0..n \subseteq T
    BY <1>1, <2>1, <2>2, Steps
  <2>4. n \in T
    BY <1>1, <2>3
  <2> QED  BY <2>4 DEF T
<1>10. /\ Scanned(Closed(g[n], n, limit), n, left, right, limit)
       /\ Closed(g[n], n, limit).open = <<>>
  BY <1>1, <1>9, CloseKeeps
<1> QED  BY <1>7, <1>10

\* A comparison counts the changed bytes, names no other, and names them all
\* if it says so, else as many ranges as it may (compare_images).
LEMMA ComparisonHonest ==
  ASSUME NEW left \in Seq({0, 1}), NEW right, NEW limit \in Nat,
         Len(left) = Len(right)
  PROVE  LET diff == CompareImages(left, right, limit)
             changed == Difference(left, right)
             named == CellsOf(Range(diff.ranges))
         IN  /\ diff.changed = Cardinality(changed)
             /\ named \subseteq changed
             /\ IF diff.complete THEN named = changed
                ELSE Len(diff.ranges) = limit /\ named # changed
<1> DEFINE n == Len(left)  D == Differing(left, right, n)
<1>1. PICK s : /\ Scanned(s, n, left, right, limit) /\ s.open = <<>>
               /\ CompareImages(left, right, limit) =
                    [refused |-> FALSE, changed |-> s.changed,
                     ranges |-> s.ranges, complete |-> s.count = Len(s.ranges)]
  BY ScanSound
<1> DEFINE diff == CompareImages(left, right, limit)
           named == CellsOf(Range(diff.ranges))
<1>2. /\ diff.changed = s.changed /\ diff.ranges = s.ranges
      /\ diff.complete <=> s.count = Len(s.ranges)
  <2>1. diff.changed = s.changed /\ diff.ranges = s.ranges
    BY <1>1
  <2>2. diff.complete = (s.count = Len(s.ranges))
    BY <1>1
  <2> QED  BY <2>1, <2>2
<1>3. Difference(left, right) = D
  BY DEF Difference, Differing
<1> HIDE DEF n, diff
<1>4. s \in ScanType /\ s.ranges \in Seq(RangeType) /\ s.changed = Cardinality(D)
  BY <1>1, ScanFields DEF Scanned
<1>5. \A q : q \in named <=> \E j \in 1..Len(s.ranges) : q \in Cells(s.ranges[j])
  BY <1>2, <1>4 DEF CellsOf, Range
<1>6. OpenCells(s, n) = {}
  BY <1>1 DEF OpenCells
<1> HIDE DEF named, D
<1>7. named \subseteq D
  BY <1>1, <1>5 DEF Scanned, NamedSound, D
<1>8. s.count = Len(s.ranges) => named = D
  <2> HAVE s.count = Len(s.ranges)
  <2>1. D \subseteq named
    BY <1>1, <1>5, <1>6 DEF Scanned, NamedComplete, D
  <2> QED  BY <1>7, <2>1
<1>9. s.count # Len(s.ranges) => Len(s.ranges) = limit /\ named # D
  <2> HAVE s.count # Len(s.ranges)
  <2>1. /\ Len(s.ranges) = limit
        /\ \E q \in D : \A j \in 1..Len(s.ranges) : s.ranges[j].end < q
    BY <1>1 DEF Scanned, NamedComplete, D
  <2>2. PICK q \in D : \A j \in 1..Len(s.ranges) : s.ranges[j].end < q
    BY <2>1
  <2>3. \A j \in 1..Len(s.ranges) :
          /\ s.ranges[j].start \in Nat /\ s.ranges[j].end \in Nat
          /\ s.ranges[j].end < q
    BY <1>4, <2>2, ScanFields
  <2>4. \A j \in 1..Len(s.ranges) : q \notin Cells(s.ranges[j])
    <3>1. q \in Int
      BY DEF D, Differing
    <3> QED  BY <2>3, <3>1 DEF Cells
  <2>5. named # D
    BY <1>5, <2>2, <2>4
  <2> QED  BY <2>1, <2>5
<1>10. /\ diff.changed = Cardinality(D) /\ named \subseteq D
       /\ IF diff.complete THEN named = D
          ELSE Len(diff.ranges) = limit /\ named # D
  BY <1>2, <1>4, <1>7, <1>8, <1>9
<1> QED  BY <1>3, <1>10 DEF diff, named

-----------------------------------------------------------------------------
(* The inductive invariant *)

EffectAsked == call.op.kind \in EffectKind /\ ~call.reconcile

\* What the chip works on is in regions that were asked for.
ChipSound ==
  /\ flash \in [Address -> {0, 1}]
  /\ pending \in [DOMAIN pending -> {0, 1}]
  /\ DOMAIN pending \subseteq Address \cap entitled

CallTypeOK ==
  call \in [pc : {"idle", "identify", "enable", "send", "poll", "read"},
            op : Request, reconcile : BOOLEAN, cursor : Nat,
            got : Seq({0, 1}),
            result : {"none", "error", "partial", "observed", "completed"}]

\* A running operation has something left to do, an effect asked for its
\* region, and an erase is at the start of a sector.
AskedSound ==
  /\ call.pc = "identify" => call.cursor = 0
  /\ call.pc # "idle" => call.cursor < Len(call.op.data)
  /\ call.pc # "idle" /\ EffectAsked => Region(call.op) \subseteq entitled

EffectSound ==
  call.pc \in {"enable", "send", "poll"} =>
    /\ EffectAsked /\ ValidEffect(call.op)
    /\ call.op.kind = "erase" => \E j \in Nat : call.cursor = Sector * j

ReadSound ==
  call.pc = "read" => ValidRange(call.op) /\ Len(call.got) = call.cursor

\* The chip works only while nothing has been read back.
BusySound ==
  Busy => /\ call.pc \in {"idle", "identify", "poll"}
          /\ call.got = <<>> /\ call.result # "completed"

GotSound ==
  /\ call.pc \in {"identify", "enable", "send", "poll"} => call.got = <<>>
  /\ \A i \in 1..Len(call.got) : call.got[i] = flash[call.op.offset + i - 1]

ResultSound ==
  /\ call.pc # "idle" => call.result = "none"
  /\ call.result = "completed" => Proven(call.op)
  /\ call.result \in {"observed", "completed"} =>
       Len(call.got) = Len(call.op.data) /\ 0 < Len(call.op.data)

FlashInv ==
  /\ ChipSound /\ CallTypeOK /\ AskedSound /\ EffectSound /\ ReadSound
  /\ BusySound /\ GotSound /\ ResultSound

LEMMA FlashInit == Init => FlashInv
<1> SUFFICES ASSUME Init PROVE FlashInv
  OBVIOUS
<1>1. /\ call.op \in Request /\ ~Busy /\ call.pc = "idle"
      /\ call.result = "none" /\ call.got = <<>> /\ Len(call.got) = 0
  BY DEF Init, Request, Kind, Busy, Quiet
<1>2. ChipSound
  BY DEF Init, ChipSound, Quiet
<1>3. CallTypeOK
  BY <1>1 DEF Init, CallTypeOK
<1>4. AskedSound /\ EffectSound /\ ReadSound /\ BusySound /\ ResultSound
  BY <1>1 DEF AskedSound, EffectSound, ReadSound, BusySound, ResultSound
<1>5. GotSound
  BY <1>1 DEF GotSound
<1> QED
  BY <1>2, <1>3, <1>4, <1>5 DEF FlashInv

\* The command that is sent works inside the region that was asked for.
LEMMA CommandInside ==
  ASSUME FlashInv, call.pc = "send"
  PROVE  LET w == Commanded(call.op, call.cursor)
         IN  /\ w \in [DOMAIN w -> {0, 1}]
             /\ DOMAIN w \subseteq Address \cap entitled
<1> DEFINE op == call.op  cursor == call.cursor
           data == SubSeq(op.data, cursor + 1, cursor + Chunk(op, cursor))
<1>1. /\ op \in Request /\ cursor \in Nat /\ cursor < Len(op.data)
      /\ Region(op) \subseteq entitled /\ ValidEffect(op)
      /\ op.kind = "erase" => \E j \in Nat : cursor = Sector * j
      /\ flash \in [Address -> {0, 1}]
  BY DEF FlashInv, ChipSound, CallTypeOK, AskedSound, EffectSound
<1>2. ValidRange(op)
  BY <1>1 DEF ValidEffect, ValidErase
<1>3. DOMAIN Commanded(op, cursor) \subseteq Region(op)
  <2>1. CASE op.kind = "erase"
    <3>1. PICK j \in Nat : cursor = Sector * j
      BY <1>1, <2>1
    <3>2. ValidErase(op)
      BY <1>1, <2>1 DEF ValidEffect
    <3> QED
      BY <1>1, <2>1, <3>1, <3>2, EraseInside
  <2>2. CASE op.kind # "erase"
    BY <1>1, <2>2, ProgramInside
  <2> QED
    BY <2>1, <2>2
<1>4. DOMAIN Commanded(op, cursor) \subseteq Address
  BY <1>1, <1>2, <1>3, RangeOnChip
<1>5. Commanded(op, cursor) \in [DOMAIN Commanded(op, cursor) -> {0, 1}]
  <2>1. CASE op.kind = "erase"
    BY <2>1 DEF Commanded, Erasing
  <2>2. CASE op.kind # "erase"
    <3>1. Commanded(op, cursor) = Programming(op.offset + cursor, data)
      BY <2>2 DEF Commanded
    <3>2. \A b \in DOMAIN Commanded(op, cursor) : flash[b] \in {0, 1}
      BY <1>1, <1>4
    <3> HIDE DEF op, cursor, data
    <3> QED
      BY <3>1, <3>2 DEF Programming
  <2> QED
    BY <2>1, <2>2
<1> QED
  BY <1>1, <1>3, <1>4, <1>5

-----------------------------------------------------------------------------
(* Every step keeps the invariant *)

USE DEF FlashInv

LEMMA StartKeeps ==
  ASSUME FlashInv, NEW op \in Request, 0 < Len(op.data),
         op.configure \in BOOLEAN, NEW reconcile \in BOOLEAN,
         Start(op, reconcile)
  PROVE  FlashInv'
<1>1. op \in Request /\ 0 < Len(op.data) /\ op.configure \in BOOLEAN
  OBVIOUS
<1>2. /\ call'.op = op /\ call'.reconcile = reconcile /\ call'.cursor = 0
      /\ call'.got = <<>> /\ Len(call'.got) = 0 /\ UNCHANGED chip
      /\ call'.pc \in {"idle", "identify"} /\ call'.result \notin {"observed", "completed"}
      /\ call'.pc # "idle" => call'.result = "none"
  BY <1>1 DEF Start
<1>3. /\ entitled \subseteq entitled'
      /\ op.kind \in EffectKind /\ ~reconcile => Region(op) \subseteq entitled'
  BY DEF Start
<1>4. ChipSound'
  BY <1>2, <1>3 DEF ChipSound, chip
<1>5. CallTypeOK'
  BY <1>1 DEF Start, CallTypeOK
<1>6. AskedSound'
  BY <1>1, <1>2, <1>3 DEF AskedSound, EffectAsked, Region
<1>7. EffectSound' /\ ReadSound' /\ BusySound' /\ GotSound' /\ ResultSound'
  BY <1>2 DEF EffectSound, ReadSound, BusySound, GotSound, ResultSound
<1> QED
  BY <1>4, <1>5, <1>6, <1>7

LEMMA EndsKeeps ==
  ASSUME FlashInv, call.pc # "idle", Ends("error"),
         Busy' => call.got = <<>>, ChipSound', flash' = flash,
         UNCHANGED entitled
  PROVE  FlashInv'
<1>1. /\ call'.pc = "idle" /\ call'.result = "error"
      /\ call'.op = call.op /\ call'.got = call.got
      /\ call' \in [pc : {"idle"}, op : Request, reconcile : BOOLEAN,
                    cursor : Nat, got : Seq({0, 1}), result : {"error"}]
  BY DEF Ends, CallTypeOK
<1>2. CallTypeOK'
  BY <1>1 DEF CallTypeOK
<1>3. AskedSound' /\ EffectSound' /\ ReadSound' /\ BusySound' /\ ResultSound'
  BY <1>1 DEF AskedSound, EffectSound, ReadSound, BusySound, ResultSound
<1>4. GotSound'
  BY <1>1 DEF GotSound
<1> QED
  BY <1>2, <1>3, <1>4

LEMMA IdentifyKeeps ==
  ASSUME FlashInv, Identify
  PROVE  FlashInv'
<1> DEFINE op == call.op
           valid == IF EffectAsked THEN ValidEffect(op) ELSE ValidRange(op)
           to == IF EffectAsked THEN "enable" ELSE "read"
<1>1. /\ call.pc = "identify" /\ UNCHANGED <<flash, pending, entitled>>
      /\ call.got = <<>> /\ Len(call.got) = 0 /\ call.cursor = 0
      /\ op \in Request /\ call.result = "none"
  BY DEF Identify, chip, GotSound, AskedSound, CallTypeOK, ResultSound
<1>2. ChipSound'
  BY <1>1 DEF ChipSound
<1>3. CASE Busy \/ ~valid
  <2>1. Ends("error")
    BY <1>3 DEF Identify, EffectAsked
  <2> QED
    BY <1>1, <1>2, <2>1, EndsKeeps
<1>4. CASE ~Busy /\ valid
  <2>1. call' = [call EXCEPT !.pc = to] /\ ~Busy'
    BY <1>1, <1>4 DEF Identify, EffectAsked, Busy
  <2>2. CallTypeOK'
    BY <2>1 DEF CallTypeOK
  <2>3. /\ call'.pc = to /\ call'.op = op /\ call'.cursor = 0
        /\ call'.got = <<>> /\ call'.result = "none"
        /\ call'.reconcile = call.reconcile
    BY <1>1, <2>1 DEF CallTypeOK
  <2>4. AskedSound'
    BY <1>1, <2>3 DEF AskedSound, EffectAsked
  <2>5. EffectSound'
    <3>1. 0 = Sector * 0
      BY FlashParameters
    <3> QED
      BY <1>4, <2>3, <3>1 DEF EffectSound, EffectAsked, ValidEffect,
                              ValidErase, ValidRange
  <2>6. ReadSound'
    BY <1>1, <1>4, <2>3 DEF ReadSound, ValidRange
  <2>7. BusySound' /\ GotSound' /\ ResultSound'
    BY <1>1, <2>1, <2>3 DEF BusySound, GotSound, ResultSound
  <2> QED
    BY <1>2, <2>2, <2>4, <2>5, <2>6, <2>7
<1> QED
  BY <1>3, <1>4

LEMMA EnableKeeps ==
  ASSUME FlashInv, Enable
  PROVE  FlashInv'
<1>1. /\ call.pc = "enable" /\ UNCHANGED <<flash, pending, entitled>>
      /\ call' = [call EXCEPT !.pc = "send"] /\ ~Busy'
  BY DEF Enable, BusySound, Busy
<1>2. CallTypeOK'
  BY <1>1 DEF CallTypeOK
<1>3. /\ call'.pc = "send" /\ call'.op = call.op /\ call'.cursor = call.cursor
      /\ call'.got = call.got /\ call'.result = call.result
      /\ call'.reconcile = call.reconcile
  BY <1>1 DEF CallTypeOK
<1>4. ChipSound' /\ AskedSound'
  BY <1>1, <1>3 DEF ChipSound, AskedSound, EffectAsked
<1>5. EffectSound'
  BY <1>1, <1>3 DEF EffectSound, EffectAsked, ValidEffect, ValidErase,
                    ValidRange
<1>6. ReadSound' /\ BusySound' /\ GotSound' /\ ResultSound'
  BY <1>1, <1>3 DEF ReadSound, BusySound, GotSound, ResultSound
<1> QED
  BY <1>2, <1>4, <1>5, <1>6

\* The chip takes a command or ignores it.
LEMMA TakesKeeps ==
  ASSUME FlashInv, call.pc = "send", Takes(call.op, call.cursor),
         UNCHANGED entitled
  PROVE  ChipSound' /\ flash' = flash
<1>1. CASE latch /\ ~Busy
  BY <1>1, CommandInside DEF Takes, ChipSound
<1>2. CASE ~(latch /\ ~Busy)
  BY <1>2 DEF Takes, chip, ChipSound
<1> QED
  BY <1>1, <1>2

LEMMA SendKeeps ==
  ASSUME FlashInv, Send
  PROVE  FlashInv'
<1>1. /\ call.pc = "send" /\ call' = [call EXCEPT !.pc = "poll"]
      /\ ChipSound' /\ flash' = flash /\ UNCHANGED entitled
  BY TakesKeeps DEF Send
<1>2. CallTypeOK'
  BY <1>1 DEF CallTypeOK
<1>3. /\ call'.pc = "poll" /\ call'.op = call.op /\ call'.cursor = call.cursor
      /\ call'.got = call.got /\ call'.result = call.result
      /\ call'.reconcile = call.reconcile /\ call.got = <<>>
  BY <1>1 DEF CallTypeOK, GotSound
<1>4. AskedSound'
  BY <1>1, <1>3 DEF AskedSound, EffectAsked
<1>5. EffectSound'
  BY <1>1, <1>3 DEF EffectSound, EffectAsked, ValidEffect, ValidErase,
                    ValidRange
<1>6. ReadSound' /\ BusySound' /\ GotSound' /\ ResultSound'
  BY <1>1, <1>3 DEF ReadSound, BusySound, GotSound, ResultSound
<1> QED
  BY <1>1, <1>2, <1>4, <1>5, <1>6

LEMMA FailureKeeps ==
  ASSUME FlashInv, TransferFails
  PROVE  FlashInv'
<1>1. call.pc # "idle" /\ Ends("error") /\ UNCHANGED entitled
  BY DEF TransferFails
<1>2. CASE UNCHANGED <<flash, pending>>
  <2>1. ChipSound' /\ (Busy' => call.got = <<>>)
    BY <1>1, <1>2 DEF ChipSound, Busy, BusySound
  <2> QED
    BY <1>1, <1>2, <2>1, EndsKeeps
<1>3. CASE call.pc = "send" /\ Takes(call.op, call.cursor)
  <2>1. ChipSound' /\ flash' = flash /\ call.got = <<>>
    BY <1>1, <1>3, TakesKeeps DEF GotSound
  <2> QED
    BY <1>1, <2>1, EndsKeeps
<1> QED
  BY <1>2, <1>3 DEF TransferFails, chip

LEMMA FinishKeeps ==
  ASSUME FlashInv, Finish
  PROVE  FlashInv'
<1>1. /\ Busy /\ ~Busy' /\ UNCHANGED <<call, entitled>>
      /\ call.got = <<>> /\ call.result # "completed" /\ Len(call.got) = 0
  BY DEF Finish, Busy, Quiet, BusySound
<1>2. ChipSound'
  BY DEF Finish, ChipSound, Quiet
<1>3. CallTypeOK' /\ AskedSound' /\ ReadSound'
  BY <1>1 DEF CallTypeOK, AskedSound, EffectAsked, ReadSound, ValidRange
<1>4. EffectSound'
  BY <1>1 DEF EffectSound, EffectAsked, ValidEffect, ValidErase, ValidRange
<1>5. BusySound' /\ GotSound' /\ ResultSound'
  BY <1>1 DEF BusySound, GotSound, ResultSound
<1> QED
  BY <1>2, <1>3, <1>4, <1>5

LEMMA PollKeeps ==
  ASSUME FlashInv, Poll
  PROVE  FlashInv'
<1> DEFINE op == call.op
           next == call.cursor + Chunk(op, call.cursor)
<1>1. /\ call.pc = "poll" /\ ~Busy' /\ UNCHANGED <<flash, pending, entitled>>
      /\ op \in Request /\ call.cursor \in Nat /\ call.got = <<>>
      /\ call.cursor < Len(op.data) /\ EffectAsked /\ ValidEffect(op)
      /\ op.kind = "erase" => \E j \in Nat : call.cursor = Sector * j
  BY DEF Poll, chip, Busy, CallTypeOK, AskedSound, EffectSound, GotSound
<1>2. next \in Nat
  <2>1. CASE op.kind = "erase"
    BY <1>1, <2>1, FlashParameters DEF Chunk
  <2>2. CASE op.kind # "erase"
    BY <1>1, <2>2, ChunkFits
  <2> QED
    BY <2>1, <2>2
<1>3. ChipSound'
  BY <1>1 DEF ChipSound
<1>4. CASE next < Len(op.data)
  <2>1. call' = [call EXCEPT !.pc = "enable", !.cursor = next]
    BY <1>4 DEF Poll
  <2>2. CallTypeOK'
    BY <1>2, <2>1 DEF CallTypeOK
  <2>3. /\ call'.pc = "enable" /\ call'.op = op /\ call'.cursor = next
        /\ call'.got = <<>> /\ call'.result = call.result
        /\ call'.reconcile = call.reconcile
    BY <1>1, <2>1 DEF CallTypeOK
  <2>4. AskedSound'
    BY <1>1, <1>4, <2>3 DEF AskedSound, EffectAsked
  <2>5. op.kind = "erase" => \E j \in Nat : next = Sector * j
    <3>1. ASSUME op.kind = "erase", NEW j \in Nat, call.cursor = Sector * j
          PROVE  next = Sector * (j + 1)
      BY <3>1, FlashParameters DEF Chunk
    <3> QED
      BY <1>1, <3>1
  <2>6. EffectSound'
    BY <1>1, <2>3, <2>5 DEF EffectSound, EffectAsked, ValidEffect, ValidErase,
                            ValidRange
  <2>7. ReadSound' /\ BusySound' /\ GotSound' /\ ResultSound'
    BY <1>1, <2>3 DEF ReadSound, BusySound, GotSound, ResultSound
  <2> QED
    BY <1>3, <2>2, <2>4, <2>6, <2>7
<1>5. CASE ~(next < Len(op.data))
  <2>1. call' = [call EXCEPT !.pc = "read", !.cursor = 0]
    BY <1>5 DEF Poll
  <2>2. CallTypeOK'
    BY <2>1 DEF CallTypeOK
  <2>3. /\ call'.pc = "read" /\ call'.op = op /\ call'.cursor = 0
        /\ call'.got = <<>> /\ call'.result = call.result
        /\ call'.reconcile = call.reconcile /\ Len(call'.got) = 0
    BY <1>1, <2>1 DEF CallTypeOK
  <2>4. AskedSound'
    <3>1. 0 < Len(op.data)
      BY <1>1 DEF Request
    <3> QED
      BY <1>1, <2>3, <3>1 DEF AskedSound, EffectAsked
  <2>5. ReadSound'
    BY <1>1, <2>3 DEF ReadSound, ValidEffect, ValidErase, ValidRange
  <2>6. EffectSound' /\ BusySound' /\ GotSound' /\ ResultSound'
    BY <1>1, <2>3 DEF EffectSound, BusySound, GotSound, ResultSound
  <2> QED
    BY <1>3, <2>2, <2>4, <2>5, <2>6
<1> QED
  BY <1>4, <1>5

\* A transfer adds to what was read the cells that come next.
LEMMA TransferReads ==
  ASSUME FlashInv, call.pc = "read", NEW n \in Nat,
         call.cursor + n <= Len(call.op.data)
  PROVE  LET got == call.got \o Reads(call.op.offset + call.cursor, n)
         IN  /\ got \in Seq({0, 1}) /\ Len(got) = call.cursor + n
             /\ \A i \in 1..Len(got) : got[i] = flash[call.op.offset + i - 1]
<1> DEFINE op == call.op  cursor == call.cursor
           new == Reads(op.offset + cursor, n)
           got == call.got \o new
<1>1. /\ op \in Request /\ op.offset \in Nat /\ Len(op.data) \in Nat
      /\ cursor \in Nat /\ call.got \in Seq({0, 1}) /\ Len(call.got) = cursor
      /\ ValidRange(op) /\ flash \in [Address -> {0, 1}] /\ ~Busy
      /\ \A i \in 1..cursor : call.got[i] = flash[op.offset + i - 1]
  BY DEF CallTypeOK, ReadSound, ChipSound, BusySound, GotSound, Request
<1>2. new = [i \in 1..n |-> flash[op.offset + cursor + i - 1]]
  BY <1>1 DEF Reads
<1>3. \A i \in 1..n : op.offset + cursor + i - 1 \in Address
  <2> SUFFICES ASSUME NEW i \in 1..n
               PROVE  op.offset + cursor + i - 1 \in Address
    OBVIOUS
  <2> DEFINE o == op.offset  len == Len(op.data)
  <2>1. /\ o \in Nat /\ len \in Nat /\ cursor \in Nat /\ Capacity \in Nat
        /\ o + len <= Capacity /\ cursor + n <= len
    BY <1>1, FlashParameters DEF ValidRange
  <2> HIDE DEF o, len, cursor
  <2>2. o + cursor + i - 1 \in 0..(Capacity - 1)
    BY <2>1
  <2> QED
    BY <2>2 DEF o, Address
<1>4. new \in Seq({0, 1}) /\ Len(new) = n
  <2>1. new \in [1..n -> {0, 1}]
    BY <1>1, <1>2, <1>3
  <2> QED
    BY <2>1
<1> HIDE DEF new
<1>5. /\ got \in Seq({0, 1}) /\ Len(got) = cursor + n
      /\ \A i \in 1..(cursor + n) :
           got[i] = IF i <= cursor THEN call.got[i] ELSE new[i - cursor]
  <2>1. /\ got \in Seq({0, 1}) /\ Len(got) = Len(call.got) + Len(new)
        /\ \A i \in 1..(Len(call.got) + Len(new)) :
             got[i] = IF i <= Len(call.got) THEN call.got[i]
                      ELSE new[i - Len(call.got)]
    <3>1. call.got \in Seq({0, 1}) /\ new \in Seq({0, 1})
      BY <1>1, <1>4
    <3> QED
      BY <3>1, ConcatProperties, Zenon
  <2> QED
    BY <1>1, <1>4, <2>1
<1>6. ASSUME NEW i \in 1..(cursor + n)
      PROVE  got[i] = flash[op.offset + i - 1]
  <2>1. CASE i <= cursor
    BY <1>1, <1>5, <2>1
  <2>2. CASE i > cursor
    <3>1. i - cursor \in 1..n
      BY <1>1, <2>2
    <3>2. op.offset + cursor + (i - cursor) - 1 = op.offset + i - 1
      <4>1. op.offset \in Nat /\ cursor \in Nat /\ n \in Nat /\ i \in Nat
        BY <1>1
      <4> HIDE DEF op, cursor
      <4> QED
        BY <4>1
    <3>3. got[i] = new[i - cursor]
      BY <1>1, <1>5, <2>2
    <3> QED
      BY <1>2, <3>1, <3>2, <3>3 DEF new
  <2> HIDE DEF got
  <2> QED
    BY <1>1, <2>1, <2>2
<1> QED
  BY <1>5, <1>6 DEF new

\* The verdict is completed when all that was read is as asked for.
LEMMA VerdictProves ==
  ASSUME NEW op \in Request, NEW got \in Seq({0, 1}),
         Len(got) = Len(op.data), Verdict(op, got) = "completed",
         \A i \in 1..Len(got) : got[i] = flash[op.offset + i - 1]
  PROVE  Proven(op)
<1>1. op.kind # "read"
  BY DEF Verdict
<1>2. CASE op.kind = "erase"
  <2>1. \A i \in 1..Len(got) : got[i] = 1
    BY <1>2 DEF Verdict
  <2> QED
    BY <1>2, <2>1 DEF Proven
<1>3. CASE op.kind # "erase"
  <2>1. got = op.data
    BY <1>1, <1>3 DEF Verdict
  <2> QED
    BY <1>3, <2>1 DEF Proven
<1> QED
  BY <1>2, <1>3

LEMMA ReadKeeps ==
  ASSUME FlashInv, Read
  PROVE  FlashInv'
<1> DEFINE op == call.op
           n == Smaller(ReadLimit, Len(op.data) - call.cursor)
           got == call.got \o Reads(op.offset + call.cursor, n)
           next == call.cursor + n
<1>1. /\ call.pc = "read" /\ ~Busy' /\ UNCHANGED <<flash, pending, entitled>>
      /\ op \in Request /\ call.cursor \in Nat /\ call.result = "none"
      /\ Len(op.data) \in Nat /\ call.cursor < Len(op.data)
      /\ ValidRange(op)
  BY DEF Read, chip, Busy, BusySound, CallTypeOK, AskedSound, ReadSound,
         ResultSound, Request
<1>2. n \in Nat /\ next \in Nat /\ next <= Len(op.data)
  BY <1>1, FlashParameters DEF Smaller
<1>3. /\ got \in Seq({0, 1}) /\ Len(got) = next
      /\ \A i \in 1..Len(got) : got[i] = flash[op.offset + i - 1]
  BY <1>1, <1>2, TransferReads
<1>4. ChipSound'
  BY <1>1 DEF ChipSound
<1>5. CASE next < Len(op.data)
  <2>1. call' = [call EXCEPT !.cursor = next, !.got = got]
    BY <1>5 DEF Read
  <2> HIDE DEF n, got, next
  <2>2. CallTypeOK'
    BY <1>2, <1>3, <2>1 DEF CallTypeOK
  <2>3. /\ call'.pc = "read" /\ call'.op = op /\ call'.cursor = next
        /\ call'.got = got /\ call'.result = "none"
        /\ call'.reconcile = call.reconcile
    BY <1>1, <2>1 DEF CallTypeOK
  <2>4. AskedSound'
    BY <1>1, <1>5, <2>3 DEF AskedSound, EffectAsked
  <2>5. ReadSound'
    BY <1>1, <1>3, <2>3 DEF ReadSound, ValidRange
  <2>6. GotSound'
    BY <1>1, <1>3, <2>3 DEF GotSound
  <2>7. EffectSound' /\ BusySound' /\ ResultSound'
    BY <1>1, <2>3 DEF EffectSound, BusySound, ResultSound
  <2> QED
    BY <1>4, <2>2, <2>4, <2>5, <2>6, <2>7
<1>6. CASE ~(next < Len(op.data))
  <2>1. /\ call' = [call EXCEPT !.pc = "idle", !.cursor = next,
                                !.got = got, !.result = Verdict(op, got)]
        /\ Len(got) = Len(op.data)
    <3>1. next = Len(op.data)
      BY <1>1, <1>2, <1>6
    <3> QED
      BY <1>3, <1>6, <3>1 DEF Read
  <2> HIDE DEF n, got, next
  <2>2. Verdict(op, got) \in {"observed", "completed", "partial"}
    BY DEF Verdict
  <2>3. CallTypeOK'
    BY <1>2, <1>3, <2>1, <2>2 DEF CallTypeOK
  <2>4. /\ call'.pc = "idle" /\ call'.op = op /\ call'.got = got
        /\ call'.result = Verdict(op, got)
    BY <2>1 DEF CallTypeOK
  <2>5. GotSound'
    BY <1>1, <1>3, <2>4 DEF GotSound
  <2>6. ResultSound'
    <3>1. Verdict(op, got) = "completed" => Proven(op)
      BY <1>1, <1>3, <2>1, VerdictProves
    <3>2. PICK r : r = op
      OBVIOUS
    <3>3. Proven(r)' <=> Proven(r)
      BY <1>1 DEF Proven
    <3>4. 0 < Len(op.data) /\ Len(got) = Len(op.data)
      BY <1>1, <2>1
    <3> QED
      BY <2>4, <3>1, <3>2, <3>3, <3>4 DEF ResultSound
  <2>7. AskedSound' /\ EffectSound' /\ ReadSound' /\ BusySound'
    BY <1>1, <2>4 DEF AskedSound, EffectSound, ReadSound, BusySound
  <2> QED
    BY <1>4, <2>3, <2>5, <2>6, <2>7
<1> QED
  BY <1>5, <1>6

LEMMA FlashNext == FlashInv /\ [Next]_vars => FlashInv'
<1> SUFFICES ASSUME FlashInv, [Next]_vars PROVE FlashInv'
  OBVIOUS
<1>1. CASE \E op \in Operations, reconcile \in BOOLEAN : Start(op, reconcile)
  BY <1>1, StartKeeps, OperationIsRequest
<1>2. CASE DriverStep
  BY <1>2, IdentifyKeeps, EnableKeeps, SendKeeps, PollKeeps, ReadKeeps
     DEF DriverStep
<1>3. CASE TransferFails
  BY <1>3, FailureKeeps
<1>4. CASE Finish
  BY <1>4, FinishKeeps
<1>5. CASE UNCHANGED vars
  BY <1>5 DEF vars, chip, ChipSound, CallTypeOK, AskedSound, EffectAsked,
              EffectSound, ReadSound, BusySound, Busy, GotSound, ResultSound,
              ValidEffect, ValidErase, ValidRange, Proven
<1> QED
  BY <1>1, <1>2, <1>3, <1>4, <1>5 DEF Next

-----------------------------------------------------------------------------
(* A device that is patched *)

\* A candidate is composed of an image that was read.
CandidateSound ==
  candidate # NoCandidate =>
    /\ candidate.original \in Seq({0, 1}) /\ 0 < Len(candidate.original)
    /\ candidate.offset \in Nat
    /\ PatchesOK(candidate.patches) /\ RangesOK(candidate.protected)
    /\ Composed(candidate.built, candidate.original, candidate.patches,
                candidate.protected)

PatchingInv == FlashInv /\ CandidateSound

LEMMA ComposeKeeps ==
  ASSUME PatchingInv, NEW patches \in PatchLists,
         NEW protected \in ProtectedSets, Compose(patches, protected)
  PROVE  PatchingInv'
<1>1. /\ UNCHANGED vars /\ call.got \in Seq({0, 1}) /\ 0 < Len(call.got)
      /\ call.op.offset \in Nat
  BY DEF Compose, PatchingInv, CallTypeOK, ResultSound, Request
<1>2. PatchesOK(patches) /\ RangesOK(protected)
  BY PatchingParameters DEF PatchesOK, PatchType, RangesOK, RangeType
<1>3. PICK built : built = BuildCandidate(call.got, patches, protected)
  OBVIOUS
<1>4. Composed(built, call.got, patches, protected)
  BY <1>1, <1>2, <1>3, CandidateComposed DEF Compose
<1>5. candidate' = [built |-> built, original |-> call.got,
                    offset |-> call.op.offset, patches |-> patches,
                    protected |-> protected]
  BY <1>3 DEF Compose
<1>6. CandidateSound'
  BY <1>1, <1>2, <1>4, <1>5 DEF CandidateSound
<1>7. FlashInv'
  BY <1>1, FlashNext DEF PatchingInv
<1> QED
  BY <1>6, <1>7 DEF PatchingInv

\* A plan with the candidate asks for a region that is not empty.
LEMMA ProgramKeeps ==
  ASSUME PatchingInv, NEW reconcile \in BOOLEAN, Program(reconcile)
  PROVE  PatchingInv'
<1>1. UNCHANGED candidate /\ candidate # NoCandidate
  BY DEF Program
<1>2. PICK op \in Plans : Start(op, reconcile)
  BY DEF Program
<1>3. /\ candidate.built.bytes \in Seq({0, 1}) /\ candidate.offset \in Nat
      /\ 0 < Len(candidate.built.bytes)
  BY <1>1 DEF PatchingInv, CandidateSound, Composed
<1>4. op \in Request /\ 0 < Len(op.data) /\ op.configure \in BOOLEAN
  <2>1. PICK bytes \in Seq({0, 1}), offset \in Nat :
          bytes = candidate.built.bytes /\ offset = candidate.offset
    BY <1>3
  <2>2. PICK kind \in {"write", "verify"} :
          op = [kind |-> kind, offset |-> offset, data |-> bytes,
                configure |-> TRUE]
    BY <2>1 DEF Plans
  <2> QED
    BY <1>3, <2>1, <2>2 DEF Request, Kind
<1>5. FlashInv'
  BY <1>2, <1>4, StartKeeps DEF PatchingInv
<1> QED
  BY <1>1, <1>5 DEF PatchingInv, CandidateSound

LEMMA PatchingNextKeeps == PatchingInv /\ [PatchingNext]_patchingVars => PatchingInv'
<1> SUFFICES ASSUME PatchingInv, [PatchingNext]_patchingVars
             PROVE  PatchingInv'
  OBVIOUS
<1>1. CASE [Next]_vars /\ UNCHANGED candidate
  BY <1>1, FlashNext DEF PatchingInv, CandidateSound
<1>2. CASE \E patches \in PatchLists, protected \in ProtectedSets :
             Compose(patches, protected)
  BY <1>2, ComposeKeeps
<1>3. CASE \E reconcile \in BOOLEAN : Program(reconcile)
  BY <1>3, ProgramKeeps
<1> QED
  BY <1>1, <1>2, <1>3 DEF PatchingNext, patchingVars

\* What has been programmed was read back: the chip, the readback and the
\* candidate are the same bytes.
LEMMA ProgrammedIsCandidate ==
  ASSUME PatchingInv, Programmed
  PROVE  /\ call.got = candidate.built.bytes
         /\ [i \in DOMAIN call.got |-> flash[candidate.offset + i - 1]] =
              candidate.built.bytes
<1>1. PICK bytes \in Seq({0, 1}) : bytes = candidate.built.bytes
  BY DEF PatchingInv, CandidateSound, Composed, Programmed
<1>2. /\ call.op.data = bytes /\ call.op.offset = candidate.offset
      /\ call.op.kind # "erase" /\ call.result = "completed"
  BY <1>1 DEF Programmed, Plans
<1>3. PICK n \in Nat : n = Len(bytes)
  BY <1>1
<1>4. call.got \in Seq({0, 1}) /\ Len(call.got) = n
  BY <1>2, <1>3 DEF PatchingInv, CallTypeOK, ResultSound
<1>5. Proven(call.op)
  BY <1>2 DEF PatchingInv, ResultSound
<1>6. \A i \in 1..n : flash[candidate.offset + i - 1] = bytes[i]
  BY <1>2, <1>3, <1>5 DEF Proven
<1>7. \A i \in 1..n : call.got[i] = flash[candidate.offset + i - 1]
  BY <1>2, <1>4 DEF PatchingInv, GotSound
<1>8. /\ DOMAIN call.got = 1..n /\ bytes = [i \in 1..n |-> bytes[i]]
      /\ call.got = [i \in 1..n |-> call.got[i]]
  BY <1>1, <1>3, <1>4
<1> DEFINE on == [i \in DOMAIN call.got |-> flash[candidate.offset + i - 1]]
<1>9. on = bytes
  BY <1>6, <1>8
<1>10. call.got = bytes
  BY <1>6, <1>7, <1>8
<1> QED
  BY <1>1, <1>9, <1>10

LEMMA PatchedByInvariant ==
  ASSUME PatchingInv
  PROVE  PatchedAsReviewed
<1> SUFFICES ASSUME Programmed PROVE PatchedAsReviewed
  BY DEF PatchedAsReviewed
<1> DEFINE original == candidate.original  built == candidate.built
           on == [i \in DOMAIN call.got |-> flash[candidate.offset + i - 1]]
           changed == Difference(original, on)
           diff == CompareImages(original, call.got, MaxRanges)
           named == CellsOf(Range(diff.ranges))
<1>1. call.got = built.bytes /\ on = built.bytes
  BY ProgrammedIsCandidate
<1>2. /\ original \in Seq({0, 1})
      /\ Composed(built, original, candidate.patches, candidate.protected)
  BY DEF PatchingInv, CandidateSound, Programmed
<1> HIDE DEF original, built, on
<1>3. \A p \in Range(candidate.patches) :
        \A i \in Cells(p) : on[i] = p.replacement[i - p.start]
  BY <1>1, <1>2 DEF Composed
<1>4. /\ changed \subseteq CellsOf(built.modified)
      /\ changed \cap CellsOf(candidate.protected) = {}
  BY <1>1, <1>2 DEF Composed
<1>5. Len(original) = Len(call.got) /\ on = call.got /\ MaxRanges \in Nat
  BY <1>1, <1>2, PatchingParameters DEF Composed
<1>6. /\ diff.changed = Cardinality(changed)
      /\ named \subseteq changed
      /\ IF diff.complete THEN named = changed
         ELSE Len(diff.ranges) = MaxRanges /\ named # changed
  BY <1>2, <1>5, ComparisonHonest
<1> HIDE DEF changed, diff, named
<1> QED
  BY <1>3, <1>4, <1>6
     DEF PatchedAsReviewed, changed, diff, named, on, original, built

-----------------------------------------------------------------------------
(* Theorems *)

\* The invariant the others follow from: what the chip works on was asked for,
\* and it works on nothing while its cells are read.
THEOREM FlashSound == Spec => []FlashInv
<1>1. Init => FlashInv
  BY FlashInit
<1>2. FlashInv /\ [Next]_vars => FlashInv'
  BY FlashNext
<1> QED
  BY <1>1, <1>2, PTL DEF Spec

\* Only the end of the chip's work changes cells, those it works on.
LEMMA ChangesEntitled ==
  ASSUME FlashInv, [Next]_vars, NEW a \in Address, flash'[a] # flash[a]
  PROVE  a \in entitled
<1>1. Finish
  BY TakesKeeps DEF Next, vars, chip, Start, DriverStep, Identify, Enable,
                    Send, Poll, Read, TransferFails
<1>2. a \in DOMAIN pending
  BY <1>1 DEF Finish
<1> QED
  BY <1>2 DEF ChipSound

\* No cell outside the regions asked for ever changes, whatever the sizes of
\* the page, the sector and the payload, and wherever transfers fail
\* (flash_write, validate_erase).
THEOREM NeighboursUntouched == Spec => OutsideUntouched
<1>1. FlashInv /\ [Next]_vars =>
        [\A a \in Address : flash'[a] # flash[a] => a \in entitled]_vars
  BY ChangesEntitled
<1> QED
  BY <1>1, FlashSound, PTL DEF Spec, OutsideUntouched

\* What was read back is what the cells hold (flash_read).
THEOREM ReadbackReal == Spec => []ReadsAreReal
<1>1. FlashInv => ReadsAreReal
  BY DEF GotSound, ReadsAreReal
<1> QED
  BY <1>1, FlashSound, PTL

\* A completed operation has left its region as it was asked for, and the chip
\* at rest (verify_flash_identity, flash_read).
THEOREM CompletionProven == Spec => []CompletedIsProven
<1>1. FlashInv => CompletedIsProven
  BY DEF BusySound, ResultSound, CompletedIsProven
<1> QED
  BY <1>1, FlashSound, PTL

\* The same invariant, when plans write candidates composed of what was read.
THEOREM PatchingSound == PatchingSpec => []PatchingInv
<1>1. PatchingInit => PatchingInv
  BY FlashInit DEF PatchingInit, PatchingInv, CandidateSound
<1>2. PatchingInv /\ [PatchingNext]_patchingVars => PatchingInv'
  BY PatchingNextKeeps
<1> QED
  BY <1>1, <1>2, PTL DEF PatchingSpec

\* Once a candidate is reported as programmed, the chip holds what was asked
\* for and nothing else changed, and a comparison with the original says so,
\* for every image, patches and protected ranges, wherever transfers fail
\* (build_candidate, compare_images).
THEOREM PatchedIsReviewed == PatchingSpec => []PatchedAsReviewed
<1>1. PatchingInv => PatchedAsReviewed
  BY PatchedByInvariant
<1> QED
  BY <1>1, PatchingSound, PTL

\* Cells outside the regions asked for stay as they are on a device that is
\* patched, too (flash_write, validate_erase).
THEOREM PatchingNeighbours == PatchingSpec => OutsideUntouched
<1>1. PatchingInv /\ [PatchingNext]_patchingVars =>
        [\A a \in Address : flash'[a] # flash[a] => a \in entitled]_vars
  <2> SUFFICES ASSUME PatchingInv, [PatchingNext]_patchingVars,
                      NEW a \in Address, flash'[a] # flash[a]
               PROVE  a \in entitled
    OBVIOUS
  <2>1. [Next]_vars
    BY DEF PatchingNext, patchingVars, Compose, Program, Start, vars, chip
  <2> QED
    BY <2>1, ChangesEntitled DEF PatchingInv
<1> QED
  BY <1>1, PatchingSound, PTL DEF PatchingSpec, OutsideUntouched

\* What was read back is real and what is completed is proven on a device that
\* is patched, too (flash_read, verify_flash_identity).
THEOREM PatchingProven ==
  PatchingSpec => [](ReadsAreReal /\ CompletedIsProven)
<1>1. PatchingInv => ReadsAreReal /\ CompletedIsProven
  BY DEF PatchingInv, GotSound, ReadsAreReal, BusySound, ResultSound,
         CompletedIsProven
<1> QED
  BY <1>1, PatchingSound, PTL

=============================================================================
