------------------------------ MODULE BusProofs ------------------------------
(***************************************************************************)
(* Proofs about Bus: a payload survives its framing, an answered call      *)
(* leaves nothing behind in its session, a reconciliation only observes,   *)
(* and a receipt reports what happened on the target's bus, whatever was   *)
(* sent before and however late the firmware is.                           *)
(***************************************************************************)
EXTENDS Bus, SequenceTheorems, WellFoundedInduction, TLAPS

IsSeq(s) == \E S : s \in Seq(S)

LEMMA SeqLength ==
  ASSUME NEW s, IsSeq(s)
  PROVE  /\ Len(s) \in Nat /\ DOMAIN s = 1..Len(s)
         /\ s = <<>> <=> Len(s) = 0
<1>1. PICK S : s \in Seq(S)
  BY DEF IsSeq
<1> QED  BY <1>1, LenProperties, EmptySeq

LEMMA SeqAppend ==
  ASSUME NEW s, IsSeq(s), NEW e
  PROVE  /\ IsSeq(Append(s, e)) /\ Len(Append(s, e)) = Len(s) + 1
         /\ \A i \in 1..Len(s) : Append(s, e)[i] = s[i]
         /\ Append(s, e)[Len(s) + 1] = e
<1>1. PICK S : s \in Seq(S)
  BY DEF IsSeq
<1>2. s \in Seq(S \cup {e}) /\ e \in S \cup {e}
  BY <1>1, SeqMonotonic
<1> QED  BY <1>2, AppendProperties DEF IsSeq

LEMMA SeqTail ==
  ASSUME NEW s, IsSeq(s), s # <<>>
  PROVE  /\ IsSeq(Tail(s)) /\ Len(Tail(s)) = Len(s) - 1
         /\ \A i \in 1..Len(Tail(s)) : Tail(s)[i] = s[i + 1]
         /\ Head(s) = s[1] /\ Len(s) \in Nat \ {0}
<1>1. PICK S : s \in Seq(S)
  BY DEF IsSeq
<1>2. Head(s) = s[1] /\ Len(s) \in Nat \ {0}
  BY <1>1, EmptySeq
<1> QED  BY <1>1, <1>2, HeadTailProperties DEF IsSeq

LEMMA SeqConcat ==
  ASSUME NEW s, IsSeq(s), NEW t, IsSeq(t)
  PROVE  /\ IsSeq(s \o t) /\ Len(s \o t) = Len(s) + Len(t)
         /\ \A i \in 1..(Len(s) + Len(t)) :
              (s \o t)[i] = IF i <= Len(s) THEN s[i] ELSE t[i - Len(s)]
<1>1. PICK S : s \in Seq(S)
  BY DEF IsSeq
<1>2. PICK T : t \in Seq(T)
  BY DEF IsSeq
<1>3. s \in Seq(S \cup T) /\ t \in Seq(S \cup T)
  BY <1>1, <1>2, SeqMonotonic
<1> QED  BY <1>3, ConcatProperties DEF IsSeq

LEMMA FunctionIsSeq ==
  ASSUME NEW n \in Nat, NEW S, NEW f \in [1..n -> S]
  PROVE  f \in Seq(S) /\ Len(f) = n
BY SeqDef

LEMMA Regroup ==
  ASSUME NEW S, NEW s \in Seq(S), NEW t \in Seq(S), NEW u \in Seq(S)
  PROVE  (s \o t) \o u = s \o (t \o u) /\ t \o u \in Seq(S)
<1>1. (s \o t) \o u = s \o (t \o u)
  BY ConcatAssociative
<1>2. t \o u \in Seq(S)
  BY ConcatProperties
<1> QED  BY <1>1, <1>2

-----------------------------------------------------------------------------
(* Steps *)

\* A set of numbers up to n that has 0 and the successor of each has them all.
LEMMA Steps ==
  ASSUME NEW n \in Nat, NEW T, 0 \in T,
         \A i \in 1..n : i - 1 \in T => i \in T
  PROVE  0..n \subseteq T
<1> SUFFICES ASSUME 0..n \ T # {} PROVE FALSE
  OBVIOUS
<1> DEFINE Left == 0..n \ T
<1>1. Left \subseteq Nat /\ Left # {}
  OBVIOUS
<1>2. PICK m \in Left : \A k \in Left : ~(k < m)
  <2> DEFINE R == OpToRel(<, Nat)
  <2> HIDE DEF Left
  <2>1. \A k, m \in Nat : <<k, m>> \in R <=> k < m
    BY DEF OpToRel
  <2>2. IsWellFoundedOn(R, Nat)
    BY NatLessThanWellFounded
  <2> HIDE DEF R
  <2>3. \E m \in Left : \A k \in Left : ~(<<k, m>> \in R)
    BY <1>1, <2>2, WFMin
  <2> QED  BY <1>1, <2>1, <2>3
<1>3. m \in 1..n /\ m - 1 \in 0..n /\ m - 1 < m
  BY <1>2
<1>4. m - 1 \in T
  BY <1>2, <1>3
<1> QED  BY <1>2, <1>3, <1>4

\* step[i][x] is what step i makes of x; f is the walk that they make of first.
StepsOf(step, n, S) == \A i \in 1..n : step[i] \in [S -> S]

WalkOf(f, step, n, S, first) ==
  /\ f \in [0..n -> S] /\ f[0] = first
  /\ \A i \in 1..n : f[i] = step[i][f[i - 1]]

\* There is a walk.
LEMMA Walk ==
  ASSUME NEW n \in Nat, NEW S, NEW first \in S, NEW step, StepsOf(step, n, S)
  PROVE  \E f : WalkOf(f, step, n, S, first)
<1> DEFINE T == {m \in 0..n : \E f : WalkOf(f, step, m, S, first)}
<1>1. 0 \in T
  <2>1. WalkOf([i \in 0..0 |-> first], step, 0, S, first)
    BY DEF WalkOf
  <2> QED  BY <2>1
<1>2. ASSUME NEW m \in 1..n, m - 1 \in T
      PROVE  m \in T
  <2>1. PICK k \in Nat : k = m - 1
    OBVIOUS
  <2>2. /\ k \in 0..k /\ m \notin 0..k /\ 0 \in 0..k
        /\ \A i \in 0..m : i # m => i \in 0..k
        /\ \A i \in 1..m : i - 1 \in 0..k
        /\ \A i \in 1..m : i # m => i \in 1..k
    BY <2>1
  <2>3. PICK g : WalkOf(g, step, k, S, first)
    BY <1>2, <2>1
  <2>4. /\ g \in [0..k -> S] /\ g[0] = first
        /\ \A i \in 1..k : g[i] = step[i][g[i - 1]]
    BY <2>3 DEF WalkOf
  <2>5. PICK last \in S : last = step[m][g[k]]
    <3>1. g[k] \in S /\ step[m] \in [S -> S]
      BY <2>2, <2>4 DEF StepsOf
    <3> QED  BY <3>1
  <2> DEFINE f == [i \in 0..m |-> IF i = m THEN last ELSE g[i]]
  <2>6. /\ f \in [0..m -> S] /\ f[m] = last
        /\ \A i \in 0..k : f[i] = g[i]
    <3>1. \A i \in 0..m : (IF i = m THEN last ELSE g[i]) \in S
      BY <2>2, <2>4
    <3>2. m \in 0..m /\ 0..k \subseteq 0..m
      BY <2>1
    <3> QED  BY <2>2, <3>1, <3>2
  <2> HIDE DEF f
  <2>7. ASSUME NEW i \in 1..m
        PROVE  f[i] = step[i][f[i - 1]]
    <3>1. f[i - 1] = g[i - 1]
      BY <2>2, <2>6
    <3>2. CASE i = m
      BY <2>1, <2>5, <2>6, <3>1, <3>2
    <3>3. CASE i # m
      <4>1. i \in 1..k /\ i \in 0..k
        BY <2>2, <3>3
      <4> QED  BY <2>4, <2>6, <3>1, <4>1
    <3> QED  BY <3>2, <3>3
  <2>8. WalkOf(f, step, m, S, first)
    BY <2>2, <2>4, <2>6, <2>7 DEF WalkOf
  <2> QED  BY <2>8
<1> HIDE DEF T
<1>3. n \in T
  BY <1>1, <1>2, Steps
<1> QED  BY <1>3 DEF T

(* Frames *)

BlockState == [frame : Seq(Nat), block : Seq(Nat)]

EmptyBlock == [frame |-> <<>>, block |-> <<>>]

\* What a byte makes of the block under way
Taken(x, byte) ==
  LET block == Append(x.block, byte)
  IN  IF byte = Delimiter
      THEN [frame |-> AppendBlock(x.frame, x.block), block |-> <<>>]
      ELSE IF Len(block) = FullBlock
      THEN [frame |-> AppendBlock(x.frame, block), block |-> <<>>]
      ELSE [x EXCEPT !.block = block]

LEMMA AppendBlockCells ==
  ASSUME NEW frame \in Seq(Nat), NEW block \in Seq(Nat)
  PROVE  LET all == AppendBlock(frame, block)
         IN  /\ all \in Seq(Nat) /\ Len(all) = Len(frame) + 1 + Len(block)
             /\ \A j \in 1..Len(frame) : all[j] = frame[j]
             /\ all[Len(frame) + 1] = Len(block) + 1
             /\ \A j \in 1..Len(block) : all[Len(frame) + 1 + j] = block[j]
<1> DEFINE code == <<Len(block) + 1>>
           start == frame \o code
           all == start \o block
<1>1. Len(frame) \in Nat /\ Len(block) \in Nat
  OBVIOUS
<1>2. code \in Seq(Nat) /\ Len(code) = 1 /\ code[1] = Len(block) + 1
  OBVIOUS
<1> HIDE DEF code
<1>3. /\ start \in Seq(Nat) /\ Len(start) = Len(frame) + 1
      /\ \A j \in 1..Len(frame) : start[j] = frame[j]
      /\ start[Len(frame) + 1] = Len(block) + 1
  <2>1. /\ start \in Seq(Nat) /\ Len(start) = Len(frame) + Len(code)
        /\ \A j \in 1..Len(frame) + Len(code) :
             start[j] = IF j <= Len(frame) THEN frame[j] ELSE code[j - Len(frame)]
    BY <1>2, ConcatProperties
  <2>2. start[Len(frame) + 1] = code[Len(frame) + 1 - Len(frame)]
    BY <1>1, <1>2, <2>1
  <2> QED  BY <1>1, <1>2, <2>1, <2>2
<1> HIDE DEF start
<1>4. /\ all \in Seq(Nat) /\ Len(all) = Len(start) + Len(block)
      /\ \A j \in 1..Len(start) : all[j] = start[j]
      /\ \A j \in 1..Len(block) : all[Len(start) + j] = block[j]
  <2>1. /\ all \in Seq(Nat) /\ Len(all) = Len(start) + Len(block)
        /\ \A j \in 1..Len(start) + Len(block) :
             all[j] = IF j <= Len(start) THEN start[j] ELSE block[j - Len(start)]
    BY <1>3, ConcatProperties
  <2>2. ASSUME NEW j \in 1..Len(block)
        PROVE  all[Len(start) + j] = block[j]
    <3>1. all[Len(start) + j] = block[Len(start) + j - Len(start)]
      BY <1>1, <1>3, <2>1
    <3>2. Len(start) + j - Len(start) = j
      BY <1>1, <1>3
    <3> QED  BY <3>1, <3>2
  <2>3. \A j \in 1..Len(start) : all[j] = start[j]
    BY <1>1, <1>3, <2>1
  <2> QED  BY <2>1, <2>2, <2>3
<1>5. AppendBlock(frame, block) = all
  BY DEF AppendBlock, start, code
<1> HIDE DEF all
<1>6. /\ Len(all) = Len(frame) + 1 + Len(block)
      /\ \A j \in 1..Len(frame) : all[j] = frame[j]
      /\ all[Len(frame) + 1] = Len(block) + 1
      /\ \A j \in 1..Len(block) : all[Len(frame) + 1 + j] = block[j]
  BY <1>1, <1>3, <1>4
<1> QED  BY <1>4, <1>5, <1>6

LEMMA TakenTyped ==
  ASSUME NEW x \in BlockState, NEW byte \in Nat
  PROVE  Taken(x, byte) \in BlockState
<1>1. /\ x.frame \in Seq(Nat) /\ x.block \in Seq(Nat)
      /\ x = [frame |-> x.frame, block |-> x.block]
  BY DEF BlockState
<1>2. Append(x.block, byte) \in Seq(Nat) /\ <<>> \in Seq(Nat)
  BY <1>1, AppendProperties
<1>3. /\ AppendBlock(x.frame, x.block) \in Seq(Nat)
      /\ AppendBlock(x.frame, Append(x.block, byte)) \in Seq(Nat)
  BY <1>1, <1>2, AppendBlockCells
<1> DEFINE block == Append(x.block, byte)
<1>4. [x EXCEPT !.block = block] = [frame |-> x.frame, block |-> block]
  <2> HIDE DEF block
  <2> QED  BY DEF BlockState
<1> QED  BY <1>1, <1>2, <1>3, <1>4 DEF Taken, BlockState

\* The states that the encoder goes through
Encodes(g, payload) ==
  /\ g \in [0..Len(payload) -> BlockState] /\ g[0] = EmptyBlock
  /\ \A i \in 1..Len(payload) : g[i] = Taken(g[i - 1], payload[i])

LEMMA EncoderRuns ==
  ASSUME NEW payload \in Seq(Nat)
  PROVE  \E g : Encodes(g, payload) /\ Blocks(payload) = g[Len(payload)]
<1> DEFINE n == Len(payload)
           step == [k \in 1..n |-> [x \in BlockState |-> Taken(x, payload[k])]]
           Is(f) == f = [i \in 0..n |->
                           IF i = 0 THEN EmptyBlock
                           ELSE Taken(f[i - 1], payload[i])]
<1>1. n \in Nat /\ \A i \in 1..n : payload[i] \in Nat
  OBVIOUS
<1>2. EmptyBlock \in BlockState
  BY EmptySeq DEF EmptyBlock, BlockState
<1>3. StepsOf(step, n, BlockState)
  <2>1. \A k \in 1..n : \A x \in BlockState : Taken(x, payload[k]) \in BlockState
    BY <1>1, TakenTyped
  <2> QED  BY <2>1 DEF StepsOf
<1> HIDE DEF n
<1>4. PICK f \in [0..n -> BlockState] :
        f[0] = EmptyBlock /\ \A k \in 1..n : f[k] = step[k][f[k - 1]]
  <2> HIDE DEF step, Is
  <2>1. \E f : WalkOf(f, step, n, BlockState, EmptyBlock)
    BY <1>1, <1>2, <1>3, Walk
  <2> QED  BY <2>1 DEF WalkOf
<1>5. \A k \in 1..n : f[k - 1] \in BlockState
  BY <1>1, <1>4
<1>6. \A k \in 1..n : f[k] = Taken(f[k - 1], payload[k])
  BY <1>1, <1>4, <1>5
<1>7. Is(f)
  BY <1>1, <1>4, <1>6
<1>8. PICK g : Is(g) /\ Blocks(payload) = g[n]
  <2> DEFINE g == CHOOSE h : Is(h)
  <2>1. Is(g)
    <3> HIDE DEF Is
    <3> QED  BY <1>7
  <2>2. Blocks(payload) = g[n]
    BY DEF Blocks, n, Taken, EmptyBlock
  <2> QED  BY <2>1, <2>2
<1>9. /\ g[0] = EmptyBlock /\ DOMAIN g = 0..n
      /\ \A k \in 1..n : g[k] = Taken(g[k - 1], payload[k])
      /\ g = [i \in 0..n |-> g[i]]
  <2> DEFINE e == [i \in 0..n |-> IF i = 0 THEN EmptyBlock
                                  ELSE Taken(g[i - 1], payload[i])]
  <2>1. g = e
    BY <1>8
  <2>2. /\ e[0] = EmptyBlock /\ DOMAIN e = 0..n /\ e = [i \in 0..n |-> e[i]]
        /\ \A k \in 1..n : e[k] = Taken(g[k - 1], payload[k])
    BY <1>1
  <2> HIDE DEF e
  <2> QED  BY <2>1, <2>2
<1>10. g \in [0..n -> BlockState]
  <2> DEFINE T == {k \in 0..n : g[k] \in BlockState}
  <2>1. 0 \in T
    BY <1>1, <1>2, <1>9
  <2>2. \A k \in 1..n : k - 1 \in T => k \in T
    <3> TAKE k \in 1..n
    <3> HAVE k - 1 \in T
    <3>1. g[k - 1] \in BlockState /\ k \in 0..n
      BY <1>1
    <3>2. Taken(g[k - 1], payload[k]) \in BlockState
      BY <1>1, <3>1, TakenTyped
    <3> QED  BY <1>9, <3>1, <3>2
  <2> HIDE DEF T
  <2>3. 0..n \subseteq T
    BY <1>1, <2>1, <2>2, Steps
  <2> QED  BY <1>9, <2>3 DEF T
<1> QED  BY <1>8, <1>9, <1>10 DEF Encodes, n


LEMMA NatRegroup ==
  \A x, y, z \in Seq(Nat) : (x \o y) \o z = x \o (y \o z)
<1> TAKE x, y, z \in Seq(Nat)
<1>1. PICK S : Seq(S) = Seq(Nat)
  OBVIOUS
<1>2. x \in Seq(S) /\ y \in Seq(S) /\ z \in Seq(S)
  BY <1>1
<1> QED  BY <1>2, ConcatAssociative

LEMMA BlockFields ==
  ASSUME NEW x \in BlockState
  PROVE  /\ x.frame \in Seq(Nat) /\ x.block \in Seq(Nat)
         /\ x = [frame |-> x.frame, block |-> x.block]
         /\ Len(x.frame) \in Nat /\ Len(x.block) \in Nat
<1>1. /\ x.frame \in Seq(Nat) /\ x.block \in Seq(Nat)
      /\ x = [frame |-> x.frame, block |-> x.block]
  BY DEF BlockState
<1> QED  BY <1>1, LenProperties

\* What becomes of a byte, and of the block before it.
Ends(x, byte, y) ==
  /\ byte = Delimiter
  /\ y.frame = AppendBlock(x.frame, x.block) /\ y.block = <<>>

Fills(x, byte, y) ==
  /\ Len(x.block) + 1 = FullBlock
  /\ y.frame = AppendBlock(x.frame, Append(x.block, byte)) /\ y.block = <<>>

Joins(x, byte, y) ==
  /\ Len(x.block) + 1 # FullBlock
  /\ y.frame = x.frame /\ y.block = Append(x.block, byte)

LEMMA TakenCases ==
  ASSUME NEW x \in BlockState, NEW byte \in Nat
  PROVE  LET y == Taken(x, byte)
         IN  Ends(x, byte, y) \/ Fills(x, byte, y) \/ Joins(x, byte, y)
<1> DEFINE block == Append(x.block, byte)
<1>1. x.block \in Seq(Nat) /\ x = [frame |-> x.frame, block |-> x.block]
  BY BlockFields
<1>2. Len(block) = Len(x.block) + 1
  BY <1>1, AppendProperties
<1>3. [x EXCEPT !.block = block] = [frame |-> x.frame, block |-> block]
  <2> HIDE DEF block
  <2> QED  BY DEF BlockState
<1>4. CASE byte = Delimiter
  <2>1. Taken(x, byte) = [frame |-> AppendBlock(x.frame, x.block), block |-> <<>>]
    BY <1>4 DEF Taken
  <2> QED  BY <1>4, <2>1 DEF Ends
<1>5. CASE byte # Delimiter /\ Len(block) = FullBlock
  <2>1. Taken(x, byte) = [frame |-> AppendBlock(x.frame, block), block |-> <<>>]
    BY <1>5 DEF Taken
  <2> QED  BY <1>2, <1>5, <2>1 DEF Fills
<1>6. CASE byte # Delimiter /\ Len(block) # FullBlock
  <2>1. Taken(x, byte) = [x EXCEPT !.block = block]
    BY <1>6 DEF Taken
  <2> HIDE DEF block
  <2>2. Taken(x, byte) = [frame |-> x.frame, block |-> block]
    BY <1>3, <2>1
  <2> QED  BY <1>2, <1>6, <2>2 DEF Joins, block
<1> QED  BY <1>4, <1>5, <1>6

TailBlock(b, payload, i) ==
  /\ Len(b) < FullBlock /\ Len(b) \in 0..i
  /\ \A j \in 1..Len(b) : b[j] = payload[i - Len(b) + j]

\* The block under way is the last bytes, and is not full.
LEMMA BlocksAreTails ==
  ASSUME NEW payload \in Seq(Nat), NEW g, Encodes(g, payload),
         NEW i \in 0..Len(payload)
  PROVE  TailBlock(g[i].block, payload, i)
<1> DEFINE n == Len(payload)
           Last_(k) ==
             /\ Len(g[k].block) < FullBlock /\ Len(g[k].block) \in 0..k
             /\ \A j \in 1..Len(g[k].block) :
                  g[k].block[j] = payload[k - Len(g[k].block) + j]
           T == {k \in 0..n : Last_(k)}
<1>1. n \in Nat /\ FullBlock \in Nat \ {0} /\ \A k \in 1..n : payload[k] \in Nat
  BY BusParameters
<1>2. \A k \in 0..n : g[k].block \in Seq(Nat) /\ g[k].frame \in Seq(Nat)
  BY DEF Encodes, BlockState
<1>3. \A k \in 1..n : g[k] = Taken(g[k - 1], payload[k]) /\ k - 1 \in 0..n
  BY <1>1 DEF Encodes
<1> HIDE DEF n
<1>4. 0 \in T
  <2>1. g[0].block = <<>>
    BY DEF Encodes, EmptyBlock
  <2>2. Len(g[0].block) = 0
    BY <2>1
  <2> QED  BY <1>1, <2>2
<1>5. ASSUME NEW k \in 1..n, k - 1 \in T
      PROVE  k \in T
  <2> DEFINE x == g[k - 1]  byte == payload[k]  b == x.block
             more == Append(b, byte)
  <2>1. /\ b \in Seq(Nat) /\ Len(b) < FullBlock /\ Len(b) \in 0..(k - 1)
        /\ \A j \in 1..Len(b) : b[j] = payload[k - 1 - Len(b) + j]
    BY <1>2, <1>3, <1>5
  <2>2. g[k] = Taken(x, byte) /\ byte \in Nat
    BY <1>1, <1>3
  <2>3. /\ Len(more) = Len(b) + 1 /\ more[Len(b) + 1] = byte
        /\ \A j \in 1..Len(b) : more[j] = b[j]
    BY <2>1, <2>2, AppendProperties
  <2>4. \/ g[k].block = <<>>
        \/ g[k].block = more /\ Len(more) # FullBlock
    <3>1. x \in BlockState
      BY <1>3 DEF Encodes, n
    <3>2. Ends(x, byte, g[k]) \/ Fills(x, byte, g[k]) \/ Joins(x, byte, g[k])
      BY <2>2, <3>1, TakenCases
    <3>3. Len(more) = Len(x.block) + 1 /\ Append(x.block, byte) = more
      BY <2>3
    <3> HIDE DEF x, more, byte
    <3> QED  BY <3>2, <3>3 DEF Ends, Fills, Joins
  <2> HIDE DEF x, b, more, T, Last_
  <2>5. CASE g[k].block = <<>>
    <3>1. Len(g[k].block) = 0
      BY <2>5
    <3>2. Last_(k)
      BY <1>1, <3>1 DEF Last_
    <3> QED  BY <1>1, <3>2 DEF T
  <2>6. CASE g[k].block = more /\ Len(more) # FullBlock
    <3>1. Len(more) < FullBlock /\ Len(more) \in 0..k /\ Len(b) \in Nat
      BY <1>1, <2>1, <2>3, <2>6
    <3>2. ASSUME NEW j \in 1..Len(more)
          PROVE  more[j] = payload[k - Len(more) + j]
      <4>1. CASE j = Len(b) + 1
        <5>1. k - Len(more) + j = k
          BY <2>3, <3>1, <4>1
        <5> QED  BY <2>3, <4>1, <5>1
      <4>2. CASE j # Len(b) + 1
        <5>1. j \in 1..Len(b) /\ k - 1 - Len(b) + j = k - Len(more) + j
          BY <2>3, <3>1, <4>2
        <5> QED  BY <2>1, <2>3, <5>1
      <4> QED  BY <4>1, <4>2
    <3>3. Last_(k)
      BY <2>6, <3>1, <3>2 DEF Last_
    <3> QED  BY <1>1, <3>3 DEF T
  <2> QED  BY <2>4, <2>5, <2>6
<1> HIDE DEF T
<1>6. 0..n \subseteq T
  BY <1>1, <1>4, <1>5, Steps
<1>7. i \in 0..n
  BY DEF n
<1> QED  BY <1>6, <1>7 DEF T, Last_, TailBlock

Begins(s, t) == Len(s) <= Len(t) /\ \A j \in 1..Len(s) : t[j] = s[j]

LEMMA AppendBlockBegins ==
  ASSUME NEW frame \in Seq(Nat), NEW block \in Seq(Nat)
  PROVE  Begins(frame, AppendBlock(frame, block))
<1> DEFINE all == AppendBlock(frame, block)
<1>1. /\ Len(all) = Len(frame) + 1 + Len(block)
      /\ \A j \in 1..Len(frame) : all[j] = frame[j]
  BY AppendBlockCells
<1>2. Len(frame) \in Nat /\ Len(block) \in Nat
  BY LenProperties
<1>3. Len(frame) <= Len(frame) + 1 + Len(block)
  BY <1>2
<1> HIDE DEF all
<1>4. Begins(frame, all)
  BY <1>1, <1>3 DEF Begins
<1> QED  BY <1>4 DEF all

\* The frame at each point is how the last one begins.
LEMMA FramesGrow ==
  ASSUME NEW payload \in Seq(Nat), NEW g, Encodes(g, payload),
         NEW i \in 0..Len(payload)
  PROVE  Begins(g[i].frame, g[Len(payload)].frame)
<1> DEFINE n == Len(payload)  last == g[n].frame
           T == {k \in 0..n : Begins(g[n - k].frame, last)}
<1>1. n \in Nat /\ FullBlock \in Nat \ {0} /\ \A k \in 1..n : payload[k] \in Nat
  BY BusParameters
<1>2. \A k \in 0..n :
        /\ g[k].block \in Seq(Nat) /\ g[k].frame \in Seq(Nat)
        /\ Len(g[k].frame) \in Nat
  BY DEF Encodes, BlockState
<1>3. \A k \in 1..n : g[k] = Taken(g[k - 1], payload[k]) /\ k - 1 \in 0..n
  BY <1>1 DEF Encodes
<1> HIDE DEF n
<1>4. 0 \in T
  <2>1. n - 0 = n /\ n \in 0..n
    BY <1>1
  <2>2. Begins(g[n].frame, last)
    BY <1>2, <2>1 DEF Begins
  <2> QED  BY <1>1, <2>1, <2>2
<1>5. ASSUME NEW k \in 1..n, k - 1 \in T
      PROVE  k \in T
  <2>1. PICK m \in 1..n : m = n - (k - 1) /\ m - 1 = n - k /\ m \in 0..n
    BY <1>1
  <2> DEFINE x == g[m - 1]  is == g[m].frame
  <2>2. Begins(is, last)
    BY <1>5, <2>1
  <2>3. x.frame \in Seq(Nat) /\ x.block \in Seq(Nat) /\ is \in Seq(Nat)
    BY <1>2, <1>3, <2>1
  <2>4. Append(x.block, payload[m]) \in Seq(Nat)
    BY <1>1, <2>3, AppendProperties
  <2>5. Begins(x.frame, is)
    <3>1. \/ is = x.frame
          \/ is = AppendBlock(x.frame, x.block)
          \/ is = AppendBlock(x.frame, Append(x.block, payload[m]))
      <4>1. x \in BlockState
        BY <1>3 DEF Encodes, n
      <4>2. g[m] = Taken(x, payload[m]) /\ payload[m] \in Nat
        BY <1>1, <1>3
      <4> QED  BY <4>1, <4>2, TakenCases DEF Ends, Fills, Joins
    <3> HIDE DEF x, is
    <3>2. Begins(x.frame, x.frame)
      BY <2>3 DEF Begins
    <3>3. Begins(x.frame, AppendBlock(x.frame, x.block))
      BY <2>3, AppendBlockBegins
    <3>4. Begins(x.frame, AppendBlock(x.frame, Append(x.block, payload[m])))
      BY <2>3, <2>4, AppendBlockBegins
    <3> QED  BY <3>1, <3>2, <3>3, <3>4
  <2>6. last \in Seq(Nat)
    BY <1>1, <1>2
  <2> HIDE DEF x, is, last, T
  <2>7. Begins(x.frame, last)
    BY <2>2, <2>3, <2>5, <2>6 DEF Begins
  <2> QED  BY <2>1, <2>7 DEF T, x
<1> HIDE DEF T
<1>6. 0..n \subseteq T
  BY <1>1, <1>4, <1>5, Steps
<1>7. n - i \in 0..n /\ n - (n - i) = i
  BY <1>1 DEF n
<1> QED  BY <1>6, <1>7 DEF T, n


\* What is left to decode at i, in terms of what is left at a later point
DecodedAt(frame, h, i) ==
  IF i = Len(frame) THEN <<>>
  ELSE LET code == frame[i + 1]
           next == i + code
       IN  IF code = 0 \/ next > Len(frame) THEN <<Malformed>>
           ELSE SubSeq(frame, i + 2, next)
                \o (IF code # FullBlock + 1 /\ next < Len(frame)
                    THEN <<Delimiter>> ELSE <<>>)
                \o h[next]

LEMMA DecodedTyped ==
  ASSUME NEW frame \in Seq(Nat), NEW h, NEW i \in 0..Len(frame),
         \A j \in (i + 1)..Len(frame) : h[j] \in Seq(Nat)
  PROVE  DecodedAt(frame, h, i) \in Seq(Nat)
<1> DEFINE n == Len(frame)  code == frame[i + 1]  next == i + code
           block == SubSeq(frame, i + 2, next)
           gap == IF code # FullBlock + 1 /\ next < Len(frame)
                  THEN <<Delimiter>> ELSE <<>>
<1>1. /\ n \in Nat /\ \A j \in 1..n : frame[j] \in Nat
      /\ FullBlock \in Nat
  BY BusParameters
<1>2. CASE i = n
  BY <1>2 DEF DecodedAt
<1>3. CASE i # n /\ (code = 0 \/ next > n)
  <2>1. <<Malformed>> \in Seq(Nat)
    BY <1>1 DEF Malformed
  <2> QED  BY <1>3, <2>1 DEF DecodedAt
<1>4. CASE i # n /\ ~(code = 0 \/ next > n)
  <2>1. code \in Nat \ {0} /\ next \in (i + 1)..n /\ i \in Nat
    BY <1>1, <1>4
  <2>2. block \in Seq(Nat)
    <3>1. \A j \in (i + 2)..next : frame[j] \in Nat
      BY <1>1, <2>1
    <3> HIDE DEF next
    <3> QED  BY <2>1, <3>1, SubSeqProperties
  <2>3. gap \in Seq(Nat)
    BY DEF Delimiter
  <2>4. h[next] \in Seq(Nat)
    BY <2>1
  <2>5. DecodedAt(frame, h, i) = block \o gap \o h[next]
    BY <1>4 DEF DecodedAt
  <2> HIDE DEF block, gap, next
  <2> QED  BY <2>2, <2>3, <2>4, <2>5, ConcatProperties
<1> QED  BY <1>2, <1>3, <1>4

LEMMA DecodedSame ==
  ASSUME NEW frame \in Seq(Nat), NEW h, NEW k, NEW i \in 0..Len(frame),
         \A j \in (i + 1)..Len(frame) : h[j] = k[j]
  PROVE  DecodedAt(frame, h, i) = DecodedAt(frame, k, i)
<1> DEFINE n == Len(frame)  code == frame[i + 1]  next == i + code
<1>1. n \in Nat /\ \A j \in 1..n : frame[j] \in Nat
  OBVIOUS
<1>2. CASE i = n
  BY <1>2 DEF DecodedAt
<1>3. CASE i # n /\ (code = 0 \/ next > n)
  BY <1>3 DEF DecodedAt
<1>4. CASE i # n /\ ~(code = 0 \/ next > n)
  <2>1. next \in (i + 1)..n
    BY <1>1, <1>4
  <2>2. h[next] = k[next]
    BY <2>1
  <2> QED  BY <1>4, <2>2 DEF DecodedAt
<1> QED  BY <1>2, <1>3, <1>4

\* The decoder on the last bytes, from i on
DecodesFrom(h, frame, i) ==
  /\ h \in [i..Len(frame) -> Seq(Nat)]
  /\ \A j \in i..Len(frame) : h[j] = DecodedAt(frame, h, j)

LEMMA DecoderExists ==
  ASSUME NEW frame \in Seq(Nat)
  PROVE  \E h : DecodesFrom(h, frame, 0)
<1> DEFINE n == Len(frame)
           T == {k \in 0..n : \E h : DecodesFrom(h, frame, n - k)}
<1>1. n \in Nat
  OBVIOUS
<1>2. 0 \in T
  <2> DEFINE h == [j \in n..n |-> <<>>]
  <2>1. /\ h \in [n..n -> Seq(Nat)]
        /\ \A j \in n..n : j = n /\ h[j] = <<>>
    BY <1>1
  <2> HIDE DEF h
  <2>2. DecodesFrom(h, frame, n)
    BY <1>1, <2>1 DEF DecodesFrom, DecodedAt
  <2>3. n - 0 = n /\ 0 \in 0..n
    <3> HIDE DEF n
    <3> QED  BY <1>1
  <2> QED  BY <2>2, <2>3
<1>3. ASSUME NEW k \in 1..n, k - 1 \in T
      PROVE  k \in T
  <2>1. PICK i \in 0..n : i = n - k /\ n - (k - 1) = i + 1 /\ i < n
    <3> HIDE DEF n
    <3> QED  BY <1>1
  <2>2. PICK h : DecodesFrom(h, frame, i + 1)
    BY <1>3, <2>1
  <2>3. PICK v \in Seq(Nat) : v = DecodedAt(frame, h, i)
    <3>1. \A j \in (i + 1)..Len(frame) : h[j] \in Seq(Nat)
      BY <2>2 DEF DecodesFrom
    <3> QED  BY <3>1, DecodedTyped
  <2> DEFINE g == [j \in i..n |-> IF j = i THEN v ELSE h[j]]
  <2>4. /\ g \in [i..n -> Seq(Nat)] /\ g[i] = v
        /\ \A j \in (i + 1)..n : g[j] = h[j]
    <3>1. \A j \in i..n : j # i => j \in (i + 1)..n
      BY <1>1, <2>1
    <3>2. \A j \in (i + 1)..n : h[j] \in Seq(Nat)
      BY <2>2 DEF DecodesFrom
    <3>4. \A j \in (i + 1)..n : j \in i..n /\ j # i
      <4> HIDE DEF n
      <4> QED  BY <1>1, <2>1
    <3>3. i \in i..n
      BY <1>1, <2>1
    <3> QED  BY <2>3, <3>1, <3>2, <3>3, <3>4
  <2> HIDE DEF g, n, T
  <2>5. ASSUME NEW j \in i..n
        PROVE  g[j] = DecodedAt(frame, g, j)
    <3>1. \A l \in (j + 1)..n : g[l] = h[l]
      BY <1>1, <2>1, <2>4
    <3>2. j \in 0..n
      BY <1>1, <2>1
    <3>3. DecodedAt(frame, g, j) = DecodedAt(frame, h, j)
      BY <3>1, <3>2, DecodedSame DEF n
    <3>4. CASE j = i
      BY <2>3, <2>4, <3>3, <3>4
    <3>5. CASE j # i
      <4>1. j \in (i + 1)..n
        BY <1>1, <2>1, <3>5
      <4> QED  BY <2>2, <2>4, <3>3, <4>1 DEF DecodesFrom, n
    <3> QED  BY <3>4, <3>5
  <2>6. DecodesFrom(g, frame, i)
    BY <2>4, <2>5 DEF DecodesFrom, n
  <2> QED  BY <1>1, <2>1, <2>6 DEF T
<1> HIDE DEF T, n
<1>4. 0..n \subseteq T
  BY <1>1, <1>2, <1>3, Steps
<1>5. n \in 0..n /\ n - n = 0
  BY <1>1
<1> QED  BY <1>4, <1>5 DEF T

LEMMA DecoderRuns ==
  ASSUME NEW frame \in Seq(Nat), frame # <<>>
  PROVE  \E h : DecodesFrom(h, frame, 0) /\ Decode(frame) = h[0]
<1> DEFINE n == Len(frame)
           Is(f) == f = [i \in 0..n |-> DecodedAt(frame, f, i)]
           h == CHOOSE f : Is(f)
<1>1. n \in Nat
  OBVIOUS
<1>2. Decode(frame) = h[0]
  BY DEF Decode, DecodedAt
<1>3. Is(h)
  <2>1. PICK f : DecodesFrom(f, frame, 0)
    BY DecoderExists
  <2>2. Is(f)
    BY <2>1 DEF DecodesFrom
  <2> HIDE DEF Is
  <2> QED  BY <2>2
<1> HIDE DEF h
<1>4. /\ \A i \in 0..n : h[i] = DecodedAt(frame, h, i)
      /\ h = [i \in 0..n |-> h[i]]
  <2> DEFINE e == [i \in 0..n |-> DecodedAt(frame, h, i)]
  <2>1. h = e
    BY <1>3
  <2>2. (\A i \in 0..n : e[i] = DecodedAt(frame, h, i)) /\ e = [i \in 0..n |-> e[i]]
    OBVIOUS
  <2> HIDE DEF e
  <2> QED  BY <2>1, <2>2
<1> HIDE DEF Is
<1>5. \A i \in 0..n : h[i] \in Seq(Nat)
  <2> DEFINE T == {k \in 0..n : \A i \in (n - k)..n : h[i] \in Seq(Nat)}
  <2>1. 0 \in T
    <3>1. n - 0 = n /\ 0 \in 0..n /\ \A i \in n..n : i = n /\ i \in 0..n
      <4> HIDE DEF n
      <4> QED  BY <1>1
    <3>2. DecodedAt(frame, h, n) \in Seq(Nat)
      BY DEF DecodedAt
    <3> QED  BY <1>1, <1>4, <3>1, <3>2
  <2>2. ASSUME NEW k \in 1..n, k - 1 \in T
        PROVE  k \in T
    <3>1. PICK i \in 0..n : i = n - k /\ n - (k - 1) = i + 1 /\ i < n
      <4> HIDE DEF n
      <4> QED  BY <1>1
    <3>2. \A j \in (i + 1)..n : h[j] \in Seq(Nat)
      BY <2>2, <3>1
    <3>3. h[i] \in Seq(Nat)
      BY <1>4, <3>2, DecodedTyped
    <3>4. \A j \in i..n : j = i \/ j \in (i + 1)..n
      BY <1>1, <3>1
    <3> QED  BY <1>1, <3>1, <3>2, <3>3, <3>4
  <2> HIDE DEF T, n
  <2>3. 0..n \subseteq T
    BY <1>1, <2>1, <2>2, Steps
  <2>4. n - n = 0 /\ n \in 0..n
    BY <1>1
  <2> QED  BY <2>3, <2>4 DEF T
<1>6. DecodesFrom(h, frame, 0)
  BY <1>4, <1>5 DEF DecodesFrom
<1> QED  BY <1>2, <1>6


LEMMA UnframedFrame ==
  ASSUME NEW s \in Seq(Nat)
  PROVE  Unframed(s \o <<Delimiter>>) = s
<1> DEFINE end == <<Delimiter>>  t == s \o end  u == SubSeq(t, 1, Len(t) - 1)
<1>1. end \in Seq(Nat) /\ Len(end) = 1 /\ Len(s) \in Nat
  BY DEF Delimiter
<1> HIDE DEF end
<1>2. /\ t \in Seq(Nat) /\ Len(t) = Len(s) + Len(end)
      /\ \A j \in 1..Len(s) + Len(end) :
           t[j] = IF j <= Len(s) THEN s[j] ELSE end[j - Len(s)]
  BY <1>1, ConcatProperties
<1> HIDE DEF t
<1>3. Len(t) - 1 = Len(s) /\ \A j \in 1..Len(s) : t[j] = s[j]
  BY <1>1, <1>2
<1>4. \A j \in 1..Len(s) : t[j] \in Nat
  BY <1>3
<1>5. /\ u \in Seq(Nat) /\ Len(u) = Len(s)
      /\ \A j \in 1..Len(s) : u[j] = t[j]
  <2>1. /\ SubSeq(t, 1, Len(s)) \in Seq(Nat)
        /\ Len(SubSeq(t, 1, Len(s))) = IF 1 <= Len(s) THEN Len(s) - 1 + 1 ELSE 0
        /\ \A j \in 1..Len(s) - 1 + 1 : SubSeq(t, 1, Len(s))[j] = t[1 + j - 1]
    BY <1>1, <1>4, SubSeqProperties
  <2>2. u = SubSeq(t, 1, Len(s))
    BY <1>3
  <2> HIDE DEF u
  <2>3. Len(s) - 1 + 1 = Len(s) /\ \A j \in 1..Len(s) : 1 + j - 1 = j
    BY <1>1
  <2> QED  BY <1>1, <2>1, <2>2, <2>3
<1> HIDE DEF u
<1>6. u = s
  BY <1>3, <1>5, SeqEqual
<1> QED  BY <1>6 DEF Unframed, u, t, end

\* A block is decoded to its bytes, with a delimiter if it is neither full nor
\* the last.
BlockAt(frame, i, b) ==
  /\ i + 1 + Len(b) <= Len(frame) /\ frame[i + 1] = Len(b) + 1
  /\ \A j \in 1..Len(b) : frame[i + 1 + j] = b[j]

BlockFirst(h, frame, i, b) ==
  h[i] = b \o (IF Len(b) # FullBlock /\ i + 1 + Len(b) < Len(frame)
               THEN <<Delimiter>> ELSE <<>>)
           \o h[i + 1 + Len(b)]

LEMMA BlockDecoded ==
  ASSUME NEW frame \in Seq(Nat), NEW h, DecodesFrom(h, frame, 0),
         NEW i \in Nat, NEW b \in Seq(Nat), BlockAt(frame, i, b)
  PROVE  BlockFirst(h, frame, i, b)
<1> DEFINE n == Len(frame)  l == Len(b)  next == i + (l + 1)
           u == SubSeq(frame, i + 2, next)
<1>1. n \in Nat /\ l \in Nat /\ FullBlock \in Nat
  BY BusParameters
<1>2. /\ next = i + 1 + l /\ next <= n /\ i # n /\ i \in 0..n /\ l + 1 # 0
      /\ (l + 1 # FullBlock + 1 <=> l # FullBlock) /\ ~(next > n)
  <2>1. i + 1 + l <= n
    BY DEF BlockAt
  <2> HIDE DEF n, l
  <2> QED  BY <1>1, <2>1
<1>3. u = b
  <2>1. \A j \in (i + 2)..next : j - (i + 1) \in 1..l /\ i + 1 + (j - (i + 1)) = j
    <3> HIDE DEF l
    <3> QED  BY <1>1
  <2>2. \A j \in (i + 2)..next : frame[j] \in Nat
    <3> TAKE j \in (i + 2)..next
    <3> DEFINE k == j - (i + 1)
    <3>1. k \in 1..l /\ i + 1 + k = j
      BY <2>1
    <3> HIDE DEF k
    <3>2. b[k] \in Nat
      BY <3>1, ElementOfSeq
    <3>3. frame[i + 1 + k] = b[k]
      BY <3>1 DEF BlockAt
    <3> QED  BY <3>1, <3>2, <3>3
  <2>3. i + 2 \in Int /\ next \in Int
    <3> HIDE DEF l
    <3> QED  BY <1>1
  <2>4. /\ u \in Seq(Nat)
        /\ Len(u) = IF i + 2 <= next THEN next - (i + 2) + 1 ELSE 0
        /\ \A j \in 1..next - (i + 2) + 1 : u[j] = frame[i + 2 + j - 1]
    <3> HIDE DEF next
    <3> QED  BY <2>2, <2>3, SubSeqProperties
  <2>5. /\ next - (i + 2) + 1 = l
        /\ (IF i + 2 <= next THEN next - (i + 2) + 1 ELSE 0) = l
        /\ \A j \in 1..l : i + 2 + j - 1 = i + 1 + j
    <3> HIDE DEF l
    <3> QED  BY <1>1
  <2> HIDE DEF u, next
  <2>6. Len(u) = Len(b) /\ \A j \in 1..Len(u) : u[j] = b[j]
    BY <2>4, <2>5 DEF BlockAt
  <2> QED  BY <2>4, <2>6, SeqEqual
<1>4. h[i] = DecodedAt(frame, h, i)
  BY <1>2 DEF DecodesFrom
<1>5. DecodedAt(frame, h, i)
        = u \o (IF l + 1 # FullBlock + 1 /\ next < n
                THEN <<Delimiter>> ELSE <<>>) \o h[next]
  <2> HIDE DEF u, next, n
  <2>1. next = i + frame[i + 1] /\ u = SubSeq(frame, i + 2, i + frame[i + 1])
    BY DEF u, next, BlockAt
  <2>2. frame[i + 1] = l + 1
    BY DEF BlockAt
  <2> HIDE DEF l
  <2>3. frame[i + 1] # 0 /\ ~(i + frame[i + 1] > n) /\ i # Len(frame)
    BY <1>2, <2>1, <2>2 DEF n
  <2>4. DecodedAt(frame, h, i)
          = SubSeq(frame, i + 2, i + frame[i + 1])
            \o (IF frame[i + 1] # FullBlock + 1 /\ i + frame[i + 1] < n
                THEN <<Delimiter>> ELSE <<>>)
            \o h[i + frame[i + 1]]
    BY <2>3 DEF DecodedAt, n
  <2> QED  BY <2>1, <2>2, <2>4
<1>6. h[i] = b \o (IF l # FullBlock /\ next < n THEN <<Delimiter>> ELSE <<>>)
               \o h[next]
  <2> HIDE DEF l, next, n, u
  <2> QED  BY <1>2, <1>3, <1>4, <1>5
<1> QED  BY <1>2, <1>6 DEF BlockFirst

\* What is left of a payload after its first i bytes
Rest(payload, i) == SubSeq(payload, i + 1, Len(payload))

LEMMA RestTyped ==
  ASSUME NEW payload \in Seq(Nat), NEW i \in 0..Len(payload)
  PROVE  Rest(payload, i) \in Seq(Nat)
<1>1. \A j \in (i + 1)..Len(payload) : payload[j] \in Nat
  OBVIOUS
<1> QED  BY <1>1, SubSeqProperties DEF Rest

EndsAt(b, payload, i) ==
  Len(b) <= i /\ \A j \in 1..Len(b) : b[j] = payload[i - Len(b) + j]

LEMMA RestConcat ==
  ASSUME NEW payload \in Seq(Nat), NEW i \in 0..Len(payload),
         NEW b \in Seq(Nat), EndsAt(b, payload, i)
  PROVE  b \o Rest(payload, i) = Rest(payload, i - Len(b))
<1> DEFINE n == Len(payload)  m == i - Len(b)
           u == SubSeq(payload, m + 1, i)
<1>1. n \in Nat /\ Len(b) \in Nat /\ m \in Nat /\ m <= i /\ i <= n /\ m = i - Len(b)
  BY DEF EndsAt
<1>2. u = b
  <2>1. /\ u \in Seq(Nat)
        /\ Len(u) = IF m + 1 <= i THEN i - (m + 1) + 1 ELSE 0
        /\ \A j \in 1..i - (m + 1) + 1 : u[j] = payload[m + 1 + j - 1]
    <3>1. \A j \in (m + 1)..i : payload[j] \in Nat
      BY <1>1
    <3> HIDE DEF m
    <3> QED  BY <1>1, <3>1, SubSeqProperties
  <2> HIDE DEF u, m
  <2>2. /\ i - (m + 1) + 1 = Len(b)
        /\ (IF m + 1 <= i THEN i - (m + 1) + 1 ELSE 0) = Len(b)
        /\ \A j \in 1..Len(b) : m + 1 + j - 1 = i - Len(b) + j
    BY <1>1
  <2>3. Len(u) = Len(b) /\ \A j \in 1..Len(b) : u[j] = payload[m + 1 + j - 1]
    BY <2>1, <2>2
  <2>4. \A j \in 1..Len(b) : u[j] = b[j]
    BY <2>2, <2>3 DEF EndsAt
  <2> QED  BY <2>1, <2>3, <2>4, SeqEqual
<1>3. u \o SubSeq(payload, i + 1, n) = SubSeq(payload, m + 1, n)
  <2>1. PICK k : k = m + 1
    OBVIOUS
  <2>2. k \in 1..n + 1 /\ i \in k - 1..n /\ n \in i..n
    <3> HIDE DEF m, n
    <3> QED  BY <1>1, <2>1
  <2>3. SubSeq(payload, k, i) \o SubSeq(payload, i + 1, n) = SubSeq(payload, k, n)
    BY <2>2, ConcatAdjacentSubSeq
  <2> QED  BY <2>1, <2>3
<1> QED  BY <1>2, <1>3 DEF Rest


LEMMA EncodedFrame ==
  ASSUME NEW payload \in Seq(Nat), NEW g, Encodes(g, payload),
         Blocks(payload) = g[Len(payload)]
  PROVE  LET last == g[Len(payload)]
         IN  Unframed(Encode(payload)) = AppendBlock(last.frame, last.block)
<1> DEFINE last == g[Len(payload)]  all == AppendBlock(last.frame, last.block)
<1>1. last \in BlockState
  BY DEF Encodes
<1>2. all \in Seq(Nat)
  <2> HIDE DEF last
  <2> QED  BY <1>1, BlockFields, AppendBlockCells
<1>3. Encode(payload) = all \o <<Delimiter>>
  BY DEF Encode
<1> HIDE DEF all
<1>4. Unframed(all \o <<Delimiter>>) = all
  BY <1>2, UnframedFrame
<1> QED  BY <1>3, <1>4 DEF all

\* From where a block was begun, the decoder finds the rest of the payload.
LEMMA RestDecoded ==
  ASSUME NEW payload \in Seq(Nat), NEW g, Encodes(g, payload),
         NEW h, DecodesFrom(h, AppendBlock(g[Len(payload)].frame,
                                           g[Len(payload)].block), 0),
         NEW i \in 0..Len(payload)
  PROVE  h[Len(g[i].frame)] = Rest(payload, i - Len(g[i].block))
<1> DEFINE n == Len(payload)
           all == AppendBlock(g[n].frame, g[n].block)
           p(k) == Len(g[k].frame)
           l(k) == Len(g[k].block)
           Found(k) == h[p(k)] = Rest(payload, k - l(k))
           T == {k \in 0..n : Found(n - k)}
<1>1. n \in Nat /\ \A k \in 1..n : payload[k] \in Nat
  OBVIOUS
<1>2. ASSUME NEW k \in 0..n
      PROVE  /\ g[k] \in BlockState
             /\ Len(g[k].frame) = p(k) /\ Len(g[k].block) = l(k)
             /\ g[k].frame \in Seq(Nat) /\ p(k) \in Nat
             /\ g[k].block \in Seq(Nat) /\ l(k) \in 0..k /\ l(k) < FullBlock
             /\ \A j \in 1..l(k) : g[k].block[j] = payload[k - l(k) + j]
  <2>1. g[k] \in BlockState
    BY DEF Encodes
  <2>2. /\ g[k].frame \in Seq(Nat) /\ g[k].block \in Seq(Nat)
        /\ Len(g[k].frame) \in Nat
    BY <2>1, BlockFields
  <2>3. /\ Len(g[k].block) < FullBlock /\ Len(g[k].block) \in 0..k
        /\ \A j \in 1..Len(g[k].block) :
             g[k].block[j] = payload[k - Len(g[k].block) + j]
    <3>1. TailBlock(g[k].block, payload, k)
      BY BlocksAreTails
    <3> QED  BY <3>1 DEF TailBlock
  <2> QED  BY <2>1, <2>2, <2>3
<1>3. ASSUME NEW k \in 1..n
      PROVE  LET x == g[k - 1]  byte == payload[k]
             IN  Ends(x, byte, g[k]) \/ Fills(x, byte, g[k]) \/ Joins(x, byte, g[k])
  <2>1. k - 1 \in 0..n
    BY <1>1
  <2>2. g[k - 1] \in BlockState
    BY <2>1 DEF Encodes
  <2>3. g[k] = Taken(g[k - 1], payload[k])
    BY DEF Encodes
  <2>4. payload[k] \in Nat
    BY <1>1
  <2> QED  BY <2>2, <2>3, <2>4, TakenCases
<1>4. /\ all \in Seq(Nat) /\ Len(all) = p(n) + 1 + l(n)
      /\ \A j \in 1..p(n) : all[j] = g[n].frame[j]
      /\ all[p(n) + 1] = l(n) + 1
      /\ \A j \in 1..l(n) : all[p(n) + 1 + j] = g[n].block[j]
  <2>1. n \in 0..n
    BY <1>1
  <2> QED  BY <1>2, <2>1, AppendBlockCells
<1>5. ASSUME NEW k \in 0..n
      PROVE  /\ p(k) <= p(n) /\ p(n) \in Nat /\ p(k) < Len(all)
             /\ \A j \in 1..p(k) : all[j] = g[k].frame[j]
  <2>1. Begins(g[k].frame, g[n].frame)
    BY FramesGrow
  <2>2. p(k) \in Nat /\ p(n) \in Nat /\ l(n) \in Nat
    <3>1. n \in 0..n
      BY <1>1
    <3> QED  BY <1>2, <3>1
  <2>3. /\ p(k) <= p(n)
        /\ \A j \in 1..p(k) : g[n].frame[j] = g[k].frame[j]
    BY <2>1 DEF Begins
  <2>4. \A j \in 1..p(k) : j \in 1..p(n)
    <3> HIDE DEF p
    <3> QED  BY <2>2, <2>3
  <2> HIDE DEF all, p, l
  <2> QED  BY <1>4, <2>2, <2>3, <2>4
<1>6. DecodesFrom(h, all, 0)
  OBVIOUS
<1> HIDE DEF all, p, l
<1>7. Found(n)
  <2>0. n \in 0..n
    BY <1>1
  <2>1. /\ n \in 0..n /\ p(n) \in Nat /\ l(n) \in Nat /\ g[n].block \in Seq(Nat)
        /\ l(n) <= n /\ l(n) < FullBlock /\ Len(g[n].block) = l(n)
        /\ \A j \in 1..l(n) : g[n].block[j] = payload[n - l(n) + j]
    BY <2>0, <1>1, <1>2
  <2>9. p(n) + 1 + l(n) = Len(all) /\ Len(all) \in Nat
    BY <1>4, <2>1
  <2> HIDE DEF n
  <2>2. h[p(n)] = g[n].block
                  \o (IF l(n) # FullBlock /\ p(n) + 1 + l(n) < Len(all)
                      THEN <<Delimiter>> ELSE <<>>)
                  \o h[p(n) + 1 + l(n)]
    <3>1. p(n) + 1 + l(n) <= Len(all)
      BY <2>9
    <3> DEFINE b == g[n].block  i_ == p(n)
    <3>2. /\ i_ \in Nat /\ b \in Seq(Nat) /\ i_ + 1 + Len(b) <= Len(all)
          /\ all[i_ + 1] = Len(b) + 1
          /\ \A j \in 1..Len(b) : all[i_ + 1 + j] = b[j]
          /\ Len(b) = l(n)
      BY <1>4, <2>1, <3>1
    <3> HIDE DEF b, i_
    <3>4. BlockAt(all, i_, b)
      BY <3>2 DEF BlockAt
    <3>5. all \in Seq(Nat) /\ i_ \in Nat /\ b \in Seq(Nat)
      BY <1>4, <3>2
    <3>3. BlockFirst(h, all, i_, b)
      BY <1>6, <3>4, <3>5, BlockDecoded
    <3> QED  BY <3>2, <3>3 DEF b, i_, BlockFirst
  <2>3. h[p(n) + 1 + l(n)] = <<>>
    <3>1. h[Len(all)] = DecodedAt(all, h, Len(all))
      <4>1. Len(all) \in 0..Len(all)
        BY <2>9
      <4> QED  BY <1>6, <4>1 DEF DecodesFrom
    <3> QED  BY <2>9, <3>1 DEF DecodedAt
  <2>4. ~(p(n) + 1 + l(n) < Len(all))
    BY <2>9
  <2>5. h[p(n)] = g[n].block
    <3>1. g[n].block \o <<>> = g[n].block
      BY <2>1, ConcatEmptySeq
    <3> QED  BY <2>2, <2>3, <2>4, <3>1
  <2>6. Rest(payload, n) = <<>>
    <3>1. SubSeq(payload, n + 1, n) = <<>>
      BY <1>1, SubSeqEmpty
    <3> QED  BY <3>1 DEF Rest, n
  <2>7. g[n].block \o Rest(payload, n) = Rest(payload, n - l(n))
    <3> DEFINE b == g[n].block
    <3>1. EndsAt(b, payload, n) /\ b \in Seq(Nat) /\ n \in 0..Len(payload)
          /\ Len(b) = l(n)
      BY <2>1 DEF EndsAt, n
    <3> HIDE DEF b
    <3>2. b \o Rest(payload, n) = Rest(payload, n - Len(b))
      BY <3>1, RestConcat
    <3> QED  BY <3>1, <3>2 DEF b
  <2>8. g[n].block \o <<>> = g[n].block
    BY <2>1, ConcatEmptySeq
  <2> QED  BY <2>5, <2>6, <2>7, <2>8
<1>8. ASSUME NEW k \in 1..n, Found(k)
      PROVE  Found(k - 1)
  <2>0. PICK m \in 0..n : m = k - 1 /\ m + 1 = k /\ m < k
    <3> HIDE DEF n
    <3> QED  BY <1>1
  <2> DEFINE x == g[m]  b == x.block  byte == payload[k]
             more == Append(b, byte)
  <2>1. /\ m \in 0..n /\ k \in 0..n /\ byte \in Nat /\ m + 1 = k /\ m \in Nat
        /\ k \in Nat
    BY <1>1, <2>0
  <2>2. /\ x \in BlockState /\ x.frame \in Seq(Nat) /\ p(m) \in Nat
        /\ Len(x.frame) = p(m)
        /\ b \in Seq(Nat) /\ l(m) \in 0..m /\ l(m) < FullBlock /\ Len(b) = l(m)
        /\ \A j \in 1..l(m) : b[j] = payload[m - l(m) + j]
    BY <1>2, <2>1
  <2>10. /\ l(m) \in Nat /\ l(m) <= m /\ FullBlock \in Nat
         /\ Len(g[k].frame) = p(k) /\ Len(g[k].block) = l(k)
         /\ p(k) < Len(all) /\ Len(all) \in Nat /\ p(k) \in Nat
         /\ \A j \in 1..p(k) : all[j] = g[k].frame[j]
    <3>1. Len(all) \in Nat
      BY <1>4, LenProperties
    <3>2. FullBlock \in Nat
      BY BusParameters
    <3>3. l(m) \in Nat /\ l(m) <= m
      BY <2>1, <2>2
    <3>4. Len(g[k].frame) = p(k) /\ Len(g[k].block) = l(k) /\ p(k) \in Nat
      BY <1>2, <2>1
    <3>5. p(k) < Len(all) /\ \A j \in 1..p(k) : all[j] = g[k].frame[j]
      BY <1>5, <2>1
    <3> QED  BY <3>1, <3>2, <3>3, <3>4, <3>5
  <2>3. /\ more \in Seq(Nat) /\ Len(more) = l(m) + 1 /\ more[l(m) + 1] = byte
        /\ \A j \in 1..l(m) : more[j] = b[j]
    <3>1. b \in Seq(Nat) /\ Len(b) = l(m) /\ byte \in Nat
      BY <2>1, <2>2
    <3> HIDE DEF b, byte
    <3> QED  BY <3>1, AppendProperties
  <2>14. /\ p(m) \in Nat /\ l(m) \in Nat /\ p(k) \in Nat /\ FullBlock \in Nat
         /\ Len(all) \in Nat /\ p(k) < Len(all) /\ l(m) < FullBlock
    BY <2>2, <2>10
  <2>15. /\ b \in Seq(Nat) /\ Len(b) = l(m) /\ x.frame \in Seq(Nat)
         /\ Len(x.frame) = p(m)
    BY <2>2
  <2>11. Ends(x, byte, g[k]) \/ Fills(x, byte, g[k]) \/ Joins(x, byte, g[k])
    BY <1>3, <2>0
  <2>12. x.block = b /\ Append(x.block, byte) = more
    OBVIOUS
  <2>13. byte = payload[k]
    OBVIOUS
  <2> HIDE DEF x, b, byte, more, n
  <2>4. CASE Joins(x, byte, g[k])
    <3>1. g[k].frame = x.frame /\ g[k].block = more
      BY <2>4, <2>12 DEF Joins
    <3>2. p(k) = p(m) /\ l(k) = l(m) + 1
      BY <2>2, <2>3, <2>10, <3>1
    <3>3. k - l(k) = m - l(m)
      <4> QED  BY <2>1, <2>2, <2>10, <3>2
    <3> QED  BY <1>8, <2>0, <3>2, <3>3
  <2>5. CASE Ends(x, byte, g[k])
    <3>1. g[k].frame = AppendBlock(x.frame, b) /\ g[k].block = <<>> /\ byte = 0
      BY <2>5, <2>12 DEF Ends, Delimiter
    <3>2. /\ p(k) = p(m) + 1 + l(m) /\ l(k) = 0
          /\ g[k].frame[p(m) + 1] = l(m) + 1
          /\ \A j \in 1..l(m) : g[k].frame[p(m) + 1 + j] = b[j]
      <4>1. /\ Len(AppendBlock(x.frame, b)) = Len(x.frame) + 1 + Len(b)
            /\ AppendBlock(x.frame, b)[Len(x.frame) + 1] = Len(b) + 1
            /\ \A j \in 1..Len(b) :
                 AppendBlock(x.frame, b)[Len(x.frame) + 1 + j] = b[j]
        BY <2>15, AppendBlockCells
      <4>2. Len(<<>>) = 0
        OBVIOUS
      <4> QED  BY <2>10, <2>15, <3>1, <4>1, <4>2
    <3>3. h[p(m)] = b \o <<Delimiter>> \o h[p(k)]
      <4>1. /\ p(k) < Len(all) /\ p(m) + 1 + l(m) <= Len(all)
            /\ l(m) # FullBlock
        <5>1. p(k) = p(m) + 1 + l(m)
          BY <3>2
        <5> QED  BY <2>14, <5>1
      <4>2. /\ p(m) + 1 \in 1..p(k)
            /\ \A j \in 1..l(m) : p(m) + 1 + j \in 1..p(k)
        <5>1. p(k) = p(m) + 1 + l(m)
          BY <3>2
        <5> QED  BY <2>14, <5>1
      <4>3. all[p(m) + 1] = l(m) + 1
            /\ \A j \in 1..l(m) : all[p(m) + 1 + j] = b[j]
        BY <2>10, <3>2, <4>2
      <4>5. PICK start \in Nat : start = p(m)
        BY <2>2
      <4>6. BlockAt(all, start, b)
        BY <2>2, <4>1, <4>3, <4>5 DEF BlockAt
      <4>7. all \in Seq(Nat) /\ b \in Seq(Nat)
        BY <1>4, <2>15
      <4>4. BlockFirst(h, all, start, b)
        BY <1>6, <4>6, <4>7, BlockDecoded
      <4> QED  BY <2>2, <3>2, <4>1, <4>4, <4>5 DEF BlockFirst
    <3>4. h[p(k)] = Rest(payload, k)
      <4>1. k - 0 = k
        BY <2>1
      <4> QED  BY <1>8, <3>2, <4>1
    <3>5. <<Delimiter>> \o Rest(payload, k) = Rest(payload, m)
      <4> DEFINE d == <<Delimiter>>
      <4>1. d \in Seq(Nat) /\ Len(d) = 1 /\ d[1] = byte
        BY <3>1 DEF Delimiter
      <4> HIDE DEF d
      <4>2. Len(d) <= k /\ k - Len(d) = m
            /\ \A j \in 1..Len(d) : d[j] = payload[k - Len(d) + j]
        <5>1. k - Len(d) = m /\ Len(d) <= k
          BY <2>1, <4>1
        <5>2. \A j \in 1..Len(d) : j = 1
          BY <4>1
        <5> QED  BY <2>1, <2>13, <4>1, <5>1, <5>2
      <4>4. EndsAt(d, payload, k) /\ k \in 0..Len(payload)
        BY <2>1, <4>2 DEF EndsAt, n
      <4>3. d \o Rest(payload, k) = Rest(payload, k - Len(d))
        BY <4>1, <4>4, RestConcat
      <4> QED  BY <4>2, <4>3 DEF d
    <3>6. b \o Rest(payload, m) = Rest(payload, m - l(m))
      <4>1. EndsAt(b, payload, m) /\ b \in Seq(Nat) /\ m \in 0..Len(payload)
        BY <2>1, <2>2, <2>10 DEF EndsAt, n
      <4>2. b \o Rest(payload, m) = Rest(payload, m - Len(b))
        BY <4>1, RestConcat
      <4> QED  BY <2>2, <4>2
    <3>7. (b \o <<Delimiter>>) \o Rest(payload, k)
            = b \o (<<Delimiter>> \o Rest(payload, k))
      <4>1. Rest(payload, k) \in Seq(Nat)
        BY <2>1, RestTyped DEF n
      <4>2. <<Delimiter>> \in Seq(Nat)
        BY DEF Delimiter
      <4> DEFINE d == <<Delimiter>>  rest == Rest(payload, k)
      <4>4. d \in Seq(Nat) /\ rest \in Seq(Nat) /\ b \in Seq(Nat)
        BY <2>2, <4>1, <4>2
      <4> HIDE DEF d, rest
      <4>3. (b \o d) \o rest = b \o (d \o rest)
        BY <4>4, NatRegroup
      <4> QED  BY <4>3 DEF d, rest
    <3> QED  BY <2>0, <3>3, <3>4, <3>5, <3>6, <3>7
  <2>6. CASE Fills(x, byte, g[k])
    <3>1. /\ g[k].frame = AppendBlock(x.frame, more) /\ g[k].block = <<>>
          /\ l(m) + 1 = FullBlock
      BY <2>2, <2>6, <2>12 DEF Fills
    <3>2. /\ p(k) = p(m) + 1 + (l(m) + 1) /\ l(k) = 0
          /\ g[k].frame[p(m) + 1] = l(m) + 2
          /\ \A j \in 1..(l(m) + 1) : g[k].frame[p(m) + 1 + j] = more[j]
      <4>1. /\ Len(AppendBlock(x.frame, more)) = Len(x.frame) + 1 + Len(more)
            /\ AppendBlock(x.frame, more)[Len(x.frame) + 1] = Len(more) + 1
            /\ \A j \in 1..Len(more) :
                 AppendBlock(x.frame, more)[Len(x.frame) + 1 + j] = more[j]
        BY <2>2, <2>3, AppendBlockCells
      <4>2. Len(more) + 1 = l(m) + 2 /\ Len(<<>>) = 0
        <5> QED  BY <2>2, <2>3, <2>10
      <4> QED  BY <2>2, <2>3, <2>10, <3>1, <4>1, <4>2
    <3>3. h[p(m)] = more \o h[p(k)]
      <4>1. p(m) + 1 + Len(more) <= Len(all)
        BY <2>2, <2>3, <2>10, <3>2
      <4>2. /\ p(m) + 1 \in 1..p(k)
            /\ \A j \in 1..(l(m) + 1) : p(m) + 1 + j \in 1..p(k)
        <5>1. PICK a, c, d \in Nat : a = p(m) /\ c = l(m) /\ d = p(k)
          BY <2>14
        <5>2. d = a + 1 + (c + 1)
          BY <3>2, <5>1
        <5>3. a + 1 \in 1..d /\ \A j \in 1..(c + 1) : a + 1 + j \in 1..d
          BY <5>2
        <5> QED  BY <5>1, <5>3
      <4>3. all[p(m) + 1] = Len(more) + 1
            /\ \A j \in 1..Len(more) : all[p(m) + 1 + j] = more[j]
        <5>1. Len(more) + 1 = l(m) + 2
          <6> QED  BY <2>2, <2>3, <2>10
        <5> QED  BY <2>3, <2>10, <3>2, <4>2, <5>1
      <4>6. PICK start \in Nat : start = p(m)
        BY <2>2
      <4>7. BlockAt(all, start, more)
        BY <4>1, <4>3, <4>6 DEF BlockAt
      <4>8. all \in Seq(Nat) /\ more \in Seq(Nat)
        BY <1>4, <2>3
      <4>4. BlockFirst(h, all, start, more)
        BY <1>6, <4>7, <4>8, BlockDecoded
      <4>5. more \o <<>> = more
        BY <2>3, ConcatEmptySeq
      <4> QED  BY <2>3, <3>1, <3>2, <4>4, <4>5, <4>6 DEF BlockFirst
    <3>4. h[p(k)] = Rest(payload, k)
      <4>1. k - 0 = k
        BY <2>1
      <4> QED  BY <1>8, <3>2, <4>1
    <3>5. more \o Rest(payload, k) = Rest(payload, m - l(m))
      <4>1. /\ Len(more) <= k /\ k - Len(more) = m - l(m)
            /\ l(m) \in Nat
        <5>1. PICK c, m1 \in Nat : c = l(m) /\ m1 = m /\ c <= m1
          BY <2>1, <2>10
        <5>2. Len(more) = c + 1 /\ k = m1 + 1
          BY <2>1, <2>3, <5>1
        <5>3. c + 1 <= m1 + 1 /\ (m1 + 1) - (c + 1) = m1 - c
          BY <5>1
        <5> QED  BY <5>1, <5>2, <5>3
      <4>2. ASSUME NEW j \in 1..Len(more)
            PROVE  more[j] = payload[k - Len(more) + j]
        <5>1. CASE j = l(m) + 1
          <6>1. k - Len(more) + j = k
            <7> QED  BY <2>1, <2>3, <4>1, <5>1
          <6> QED  BY <2>3, <2>13, <5>1, <6>1
        <5>2. CASE j # l(m) + 1
          <6>1. j \in 1..l(m)
            <7> QED  BY <2>3, <4>1, <5>2
          <6> QED  BY <2>2, <2>3, <4>1, <6>1
        <5> QED  BY <5>1, <5>2
      <4>4. EndsAt(more, payload, k) /\ more \in Seq(Nat) /\ k \in 0..Len(payload)
        BY <2>1, <2>3, <4>1, <4>2 DEF EndsAt, n
      <4>3. more \o Rest(payload, k) = Rest(payload, k - Len(more))
        BY <4>4, RestConcat
      <4> QED  BY <4>1, <4>3
    <3> QED  BY <2>0, <3>3, <3>4, <3>5
  <2> QED  BY <2>11, <2>4, <2>5, <2>6
<1> HIDE DEF Found
<1>9. 0 \in T
  <2>1. n - 0 = n /\ 0 \in 0..n
    <3> HIDE DEF n
    <3> QED  BY <1>1
  <2> QED  BY <1>7, <2>1
<1>10. ASSUME NEW k \in 1..n, k - 1 \in T
       PROVE  k \in T
  <2>1. PICK m \in 1..n : m = n - (k - 1) /\ m - 1 = n - k
    <3> HIDE DEF n
    <3> QED  BY <1>1
  <2>2. Found(m)
    BY <1>10, <2>1
  <2>3. Found(m - 1)
    BY <1>8, <2>2
  <2> HIDE DEF n
  <2> QED  BY <1>1, <2>1, <2>3
<1> HIDE DEF T, n
<1>11. 0..n \subseteq T
  BY <1>1, <1>9, <1>10, Steps
<1>12. n - i \in 0..n /\ n - (n - i) = i
  BY <1>1 DEF n
<1> QED  BY <1>11, <1>12 DEF T, Found, n, p, l

\* What a frame carries is read from it as it was (instruments/cobs.rs): of any
\* payload, of whatever length and however many of its bytes are delimiters,
\* the decoder gives back exactly what the encoder was given.
THEOREM FramesDecode ==
  ASSUME NEW payload \in Seq(Nat)
  PROVE  Decode(Unframed(Encode(payload))) = payload
<1> DEFINE n == Len(payload)
<1>1. PICK g : Encodes(g, payload) /\ Blocks(payload) = g[n]
  BY EncoderRuns
<1> DEFINE all == AppendBlock(g[n].frame, g[n].block)
<1>2. Unframed(Encode(payload)) = all
  BY <1>1, EncodedFrame
<1>3. all \in Seq(Nat) /\ all # <<>>
  <2>1. g[n] \in BlockState
    BY <1>1 DEF Encodes
  <2>2. PICK x \in BlockState : x = g[n]
    BY <2>1
  <2>3. /\ AppendBlock(x.frame, x.block) \in Seq(Nat)
        /\ Len(AppendBlock(x.frame, x.block)) = Len(x.frame) + 1 + Len(x.block)
        /\ Len(x.frame) \in Nat /\ Len(x.block) \in Nat
    BY BlockFields, AppendBlockCells
  <2>7. all = AppendBlock(x.frame, x.block)
    BY <2>2
  <2>4. Len(all) # 0
    <3> DEFINE k == Len(x.frame)  l == Len(x.block)
    <3>1. k \in Nat /\ l \in Nat /\ Len(all) = k + 1 + l
      BY <2>3, <2>7
    <3> HIDE DEF all, k, l
    <3> QED  BY <3>1
  <2>5. Len(<<>>) = 0
    OBVIOUS
  <2> HIDE DEF all
  <2>6. all # <<>>
    BY <2>4, <2>5
  <2> QED  BY <2>2, <2>3, <2>6 DEF all
<1>4. PICK h : DecodesFrom(h, all, 0) /\ Decode(all) = h[0]
  <2> HIDE DEF all
  <2> QED  BY <1>3, DecoderRuns
<1>5. 0 \in 0..n /\ Len(g[0].frame) = 0 /\ Len(g[0].block) = 0
  BY <1>1 DEF Encodes, EmptyBlock
<1>6. h[Len(g[0].frame)] = Rest(payload, 0 - Len(g[0].block))
  BY <1>1, <1>4, <1>5, RestDecoded
<1>7. Rest(payload, 0) = payload
  BY SubSeqFull DEF Rest
<1> QED  BY <1>2, <1>4, <1>5, <1>6, <1>7

-----------------------------------------------------------------------------
(* Scripts *)

\* A frame of nothing is decoded to nothing.
LEMMA EmptyFrame == Decode(Unframed(Encode(<<>>))) = <<>>
<1>1. <<>> \in Seq(Nat)
  OBVIOUS
<1> QED  BY <1>1, FramesDecode

\* A request that changes no output and writes nothing.
Observes(r) == r.t # "set" /\ (r.t = "data" => Bytes(r) = <<>>)

\* Once a script comes to its transfers, there is nothing else left.
TransfersLast(s) ==
  \A i, j \in 1..Len(s) : i < j /\ s[i].t = "data" => s[j].t = "data"

ScriptSound(s, op, reconciles) ==
  /\ IsSeq(s) /\ s # <<>>
  /\ kind = "bpio2" => Head(s).t = "status"
  /\ op.k = "scan" => TransfersLast(s)
  /\ reconciles => \A i \in 1..Len(s) : Observes(s[i])

LEMMA ChunksNatural ==
  ASSUME NEW n \in Nat, NEW m \in Nat \ {0}
  PROVE  Chunks(n, m) \in Nat
<1>1. n + m - 1 \in Nat
  OBVIOUS
<1>2. \A x \in Nat : x \div m \in Nat
  OBVIOUS
<1> QED  BY <1>1, <1>2 DEF Chunks

LEMMA PiecesAreSeqs ==
  ASSUME NEW n \in Nat, NEW tx, Len(tx) \in Nat, NEW b, NEW c
  PROVE  /\ IsSeq(WriteRequests(tx, b)) /\ IsSeq(ReadRequests(n, b, c))
         /\ IsSeq(ScanProbes) /\ Len(ScanProbes) = 2 * Addresses
<1>1. Chunks(Len(tx), WriteMax) \in Nat /\ Chunks(n, ReadMax) \in Nat
      /\ 2 * Addresses \in Nat
  BY ChunksNatural, BusParameters
<1>2. \A m \in Nat : \A f : DOMAIN f = 1..m /\ f = [i \in 1..m |-> f[i]] =>
        IsSeq(f) /\ Len(f) = m
  <2> SUFFICES ASSUME NEW m \in Nat, NEW f, DOMAIN f = 1..m,
                      f = [i \in 1..m |-> f[i]]
               PROVE  IsSeq(f) /\ Len(f) = m
    OBVIOUS
  <2> DEFINE S == {f[i] : i \in 1..m}
  <2>1. f \in [1..m -> S]
    OBVIOUS
  <2> HIDE DEF S
  <2>2. f \in Seq(S) /\ Len(f) = m
    BY <2>1, FunctionIsSeq
  <2> QED  BY <2>2 DEF IsSeq
<1>3. IsSeq(WriteRequests(tx, b))
  BY <1>1, <1>2 DEF WriteRequests
<1>4. IsSeq(ReadRequests(n, b, c))
  BY <1>1, <1>2 DEF ReadRequests
<1>5. IsSeq(ScanProbes) /\ Len(ScanProbes) = 2 * Addresses
  BY <1>1, <1>2 DEF ScanProbes
<1> QED  BY <1>3, <1>4, <1>5

\* What an observation may ask for.
Observations ==
  {Status, Relays, [t |-> "version"], [t |-> "id"], ConfigureMode("UART"),
   [t |-> "status", shows |-> "UART"]}
  \cup {Data(<<>>, n, b, c) : n \in Int, b \in BOOLEAN, c \in BOOLEAN}

LEMMA ObservationsObserve == \A r \in Observations : Observes(r)
<1> SUFFICES ASSUME NEW r \in Observations PROVE Observes(r)
  OBVIOUS
<1>1. CASE r \in {Status, Relays, [t |-> "version"], [t |-> "id"],
                  ConfigureMode("UART"), [t |-> "status", shows |-> "UART"]}
  BY <1>1 DEF Observes, Status, Relays, ConfigureMode
<1>2. ASSUME NEW n \in Int, NEW b \in BOOLEAN, NEW c \in BOOLEAN,
             r = Data(<<>>, n, b, c)
      PROVE  Observes(r)
  <2>1. r.t = "data" /\ r.frame = Encode(<<>>)
    BY <1>2 DEF Data
  <2> QED  BY <2>1, EmptyFrame DEF Observes, Bytes
<1> QED  BY <1>1, <1>2 DEF Observations

\* The pieces of the scripts of reconciliations
LEMMA PiecesObserve ==
  ASSUME NEW n \in Nat
  PROVE  /\ Identify \in Seq(Observations) /\ Len(Identify) = 2
         /\ kind = "bpio2" => Identify[1].t = "status"
         /\ Identify[1].t # "data" /\ Identify[2].t # "data"
         /\ ReadBack \in Seq(Observations) /\ <<Relays>> \in Seq(Observations)
         /\ EnsureMode("UART") \in Seq(Observations)
         /\ ReadRequests(n, FALSE, FALSE) \in Seq(Observations)
<1>1. /\ Status \in Observations /\ Relays \in Observations
      /\ [t |-> "version"] \in Observations /\ [t |-> "id"] \in Observations
      /\ ConfigureMode("UART") \in Observations
      /\ [t |-> "status", shows |-> "UART"] \in Observations
  BY DEF Observations
<1>2. Identify \in Seq(Observations) /\ Len(Identify) = 2
  BY <1>1 DEF Identify
<1>3. /\ kind = "bpio2" => Identify[1].t = "status"
      /\ Identify[1].t # "data" /\ Identify[2].t # "data"
  BY DEF Identify, Status
<1>4. ReadBack \in Seq(Observations) /\ <<Relays>> \in Seq(Observations)
  BY <1>1 DEF ReadBack
<1>5. EnsureMode("UART") \in Seq(Observations)
  BY <1>1 DEF EnsureMode
<1>6. ReadRequests(n, FALSE, FALSE) \in Seq(Observations)
  <2> DEFINE m == Chunks(n, ReadMax)
  <2>1. m \in Nat
    BY ChunksNatural, BusParameters
  <2>2. \A i \in 1..m : ReadSize(n, i) \in Int
    BY <2>1, BusParameters DEF ReadSize, Least
  <2>3. \A i \in 1..m : Data(<<>>, ReadSize(n, i), FALSE, FALSE) \in Observations
    <3>1. \A x \in Int, b \in BOOLEAN : Data(<<>>, x, b, b) \in Observations
      BY DEF Observations
    <3> QED  BY <2>2, <3>1
  <2>4. ReadRequests(n, FALSE, FALSE) =
          [i \in 1..m |-> Data(<<>>, ReadSize(n, i), FALSE, FALSE)]
    BY DEF ReadRequests
  <2> HIDE DEF m
  <2>5. ReadRequests(n, FALSE, FALSE) \in [1..m -> Observations]
    BY <2>3, <2>4
  <2> QED  BY <2>1, <2>5, FunctionIsSeq
<1> QED  BY <1>2, <1>3, <1>4, <1>5, <1>6

\* Every script that a call may have
LEMMA ScriptsSound ==
  ASSUME kind \in DOMAIN Operations, NEW op \in Operations[kind],
         NEW reconciles \in BOOLEAN, NEW configures \in BOOLEAN
  PROVE  ScriptSound(Script(op, reconciles, configures), op, reconciles)
<1> DEFINE s == Script(op, reconciles, configures)
<1>1. /\ op \in PirateOperation
      /\ kind # "bpio2" => op.k \in {"status", "set"}
  BY BusParameters DEF PirateOperation, RelayOperation
<1>2. /\ IsSeq(Identify) /\ Len(Identify) = 2
      /\ kind = "bpio2" => Identify[1].t = "status"
      /\ \A i \in 1..2 : Identify[i] \in Observations /\ Identify[i].t # "data"
  <2>1. /\ Identify \in Seq(Observations) /\ Len(Identify) = 2
        /\ kind = "bpio2" => Identify[1].t = "status"
        /\ Identify[1].t # "data" /\ Identify[2].t # "data"
    <3>1. 0 \in Nat
      OBVIOUS
    <3> QED  BY <3>1, PiecesObserve
  <2>2. Identify[1] \in Observations /\ Identify[2] \in Observations
    BY <2>1, ElementOfSeq
  <2> QED  BY <2>1, <2>2 DEF IsSeq
\* Whatever follows the identification is a script, and one that observes if
\* what follows does.
<1>3. \A t : IsSeq(t) =>
        /\ IsSeq(Identify \o t) /\ Identify \o t # <<>>
        /\ kind = "bpio2" => Head(Identify \o t).t = "status"
        /\ TransfersLast(t) => TransfersLast(Identify \o t)
        /\ t \in Seq(Observations) =>
             \A i \in 1..Len(Identify \o t) : Observes((Identify \o t)[i])
  <2> SUFFICES ASSUME NEW t, IsSeq(t)
               PROVE  /\ IsSeq(Identify \o t) /\ Identify \o t # <<>>
                      /\ kind = "bpio2" => Head(Identify \o t).t = "status"
                      /\ TransfersLast(t) => TransfersLast(Identify \o t)
                      /\ t \in Seq(Observations) =>
                           \A i \in 1..Len(Identify \o t) :
                             Observes((Identify \o t)[i])
    OBVIOUS
  <2> DEFINE u == Identify \o t
  <2>1. /\ IsSeq(u) /\ Len(u) = 2 + Len(t) /\ Len(t) \in Nat
        /\ \A i \in 1..(2 + Len(t)) :
             u[i] = IF i <= 2 THEN Identify[i] ELSE t[i - 2]
    <3>1. /\ IsSeq(u) /\ Len(u) = Len(Identify) + Len(t) /\ Len(t) \in Nat
          /\ \A i \in 1..(Len(Identify) + Len(t)) :
               u[i] = IF i <= Len(Identify) THEN Identify[i]
                      ELSE t[i - Len(Identify)]
      BY <1>2, SeqConcat, SeqLength
    <3> HIDE DEF u
    <3> QED  BY <1>2, <3>1
  <2> HIDE DEF u
  <2>2. u # <<>> /\ Head(u) = Identify[1]
    BY <2>1, SeqLength, SeqTail
  <2>3. ASSUME TransfersLast(t) PROVE TransfersLast(u)
    <3> SUFFICES ASSUME NEW i \in 1..Len(u), NEW j \in 1..Len(u),
                        i < j, u[i].t = "data"
                 PROVE  u[j].t = "data"
      BY DEF TransfersLast
    <3>1. i > 2
      BY <1>2, <2>1
    <3>2. /\ i - 2 \in 1..Len(t) /\ j - 2 \in 1..Len(t) /\ i - 2 < j - 2
          /\ u[i] = t[i - 2] /\ u[j] = t[j - 2]
      BY <2>1, <3>1
    <3> QED  BY <2>3, <3>2 DEF TransfersLast
  <2>4. ASSUME t \in Seq(Observations), NEW i \in 1..Len(u)
        PROVE  Observes(u[i])
    <3>1. CASE i <= 2
      BY <1>2, <2>1, <3>1, ObservationsObserve
    <3>2. CASE i > 2
      <4>1. i - 2 \in 1..Len(t) /\ u[i] = t[i - 2]
        BY <2>1, <3>2
      <4> QED  BY <2>4, <4>1, ElementOfSeq, ObservationsObserve
    <3> QED  BY <2>1, <3>1, <3>2
  <2> QED  BY <1>2, <2>1, <2>2, <2>3, <2>4 DEF u
<1>4. /\ IsSeq(<<>>) /\ <<>> \in Seq(Observations)
      /\ Identify \o <<>> = Identify
  BY PiecesObserve, ConcatEmptySeq DEF IsSeq
<1>5. CASE op.k = "status"
  <2>1. s = Identify \o (IF kind = "numato" THEN <<Relays>> ELSE <<>>)
    BY <1>5 DEF Script
  <2>2. (IF kind = "numato" THEN <<Relays>> ELSE <<>>) \in Seq(Observations)
    BY <1>4, PiecesObserve
  <2> QED
    BY <1>3, <1>5, <2>1, <2>2 DEF ScriptSound, IsSeq
<1>6. CASE op.k = "set"
  <2> DEFINE a == SetRequests(op, reconciles)
  <2>1. IsSeq(a) /\ (reconciles => a = <<>>)
    <3>1. IsSeq(<<SetOutput(op.level)>>) /\ IsSeq(<<Relays>>)
      <4>1. <<SetOutput(op.level)>> \in Seq({SetOutput(op.level)})
        OBVIOUS
      <4> QED  BY <4>1, PiecesObserve DEF IsSeq
    <3> QED  BY <1>4, <3>1, SeqConcat DEF SetRequests
  <2>2. s = (Identify \o a) \o ReadBack
    BY <1>5, <1>6 DEF Script
  <2>3. s = Identify \o (a \o ReadBack) /\ IsSeq(a \o ReadBack)
    <3>1. PICK A : a \in Seq(A)
      BY <2>1 DEF IsSeq
    <3>2. /\ a \in Seq(A \cup Observations)
          /\ Identify \in Seq(A \cup Observations)
          /\ ReadBack \in Seq(A \cup Observations)
      BY <3>1, PiecesObserve, SeqMonotonic
    <3> HIDE DEF a, s
    <3>3. /\ (Identify \o a) \o ReadBack = Identify \o (a \o ReadBack)
          /\ a \o ReadBack \in Seq(A \cup Observations)
      BY <3>2, Regroup
    <3> QED  BY <2>2, <3>3 DEF IsSeq
  <2>4. reconciles => a \o ReadBack \in Seq(Observations)
    BY <2>1, PiecesObserve, ConcatEmptySeq
  <2> HIDE DEF a, s
  <2>5. ScriptSound(s, op, reconciles)
    BY <1>3, <1>6, <2>3, <2>4 DEF ScriptSound
  <2> QED  BY <2>5 DEF s
<1>7. CASE op.k = "capture" /\ configures
  <2> DEFINE b == ReadRequests(op.rx, FALSE, FALSE)
             m == EnsureMode("UART")
  <2>1. op.rx \in Nat
    BY <1>1, <1>7 DEF PirateOperation, RelayOperation
  <2>2. /\ Identify \in Seq(Observations) /\ b \in Seq(Observations)
        /\ m \in Seq(Observations)
    BY <2>1, PiecesObserve
  <2>3. s = (Identify \o m) \o b
    BY <1>7 DEF Script, Transfers
  <2> HIDE DEF b, m, s
  <2>4. s = Identify \o (m \o b) /\ m \o b \in Seq(Observations)
    BY <2>2, <2>3, Regroup
  <2>5. ScriptSound(s, op, reconciles)
    BY <1>3, <1>7, <2>4 DEF ScriptSound, IsSeq
  <2> QED  BY <2>5 DEF s
<1>8. CASE op.k \in {"spi", "i2c", "scan", "transmit"} /\ ~reconciles
  <2> DEFINE b == Transfers(op)
             m == EnsureMode(ModeOf(op))
  <2>1. IsSeq(m) /\ Len(m) = 2 /\ m[1].t # "data" /\ m[2].t # "data"
    <3>1. m \in Seq({ConfigureMode(ModeOf(op)),
                     [t |-> "status", shows |-> ModeOf(op)]})
      BY DEF EnsureMode
    <3>2. Len(m) = 2 /\ m[1].t # "data" /\ m[2].t # "data"
      BY DEF EnsureMode, ConfigureMode
    <3> QED  BY <3>1, <3>2 DEF IsSeq
  <2>2. IsSeq(b) /\ (op.k = "scan" => \A i \in 1..Len(b) : b[i].t = "data")
    <3>1. CASE op.k = "spi"
      <4>1. op.tx \in Seq(Nat) /\ op.rx \in Nat /\ Len(op.tx) \in Nat
        BY <1>1, <3>1 DEF PirateOperation, RelayOperation
      <4> DEFINE e == IF op.rx = 0 /\ op.tx # <<>>
                      THEN <<Data(<<>>, 0, FALSE, TRUE)>> ELSE <<>>
                 x == WriteRequests(op.tx, TRUE)
                 y == ReadRequests(op.rx, op.tx = <<>>, TRUE)
      <4>2. IsSeq(e) /\ IsSeq(x) /\ IsSeq(y)
        <5>1. <<Data(<<>>, 0, FALSE, TRUE)>> \in Seq({Data(<<>>, 0, FALSE, TRUE)})
          OBVIOUS
        <5> QED  BY <1>4, <4>1, <5>1, PiecesAreSeqs DEF IsSeq
      <4>3. b = x \o y \o e
        BY <3>1 DEF Transfers, SpiTransfer
      <4> HIDE DEF e, x, y, b
      <4> QED  BY <3>1, <4>2, <4>3, SeqConcat
    <3>2. CASE op.k = "i2c"
      <4> DEFINE d == Data(<<WriteAddress(op.address)>> \o op.tx, op.rx,
                           TRUE, TRUE)
      <4>1. b = <<d>>
        BY <3>2 DEF Transfers, I2cTransfer
      <4>2. <<d>> \in Seq({d})
        OBVIOUS
      <4> QED  BY <3>2, <4>1, <4>2 DEF IsSeq
    <3>3. CASE op.k = "scan"
      <4>1. b = ScanProbes
        BY <3>3 DEF Transfers
      <4>2. IsSeq(ScanProbes) /\ Len(ScanProbes) = 2 * Addresses
        <5>1. Len(<<>>) \in Nat /\ 0 \in Nat
          BY EmptySeq
        <5> QED  BY <5>1, PiecesAreSeqs
      <4>3. \A i \in 1..(2 * Addresses) : ScanProbes[i].t = "data"
        BY DEF ScanProbes, Data
      <4> QED  BY <4>1, <4>2, <4>3
    <3>4. CASE op.k = "transmit"
      <4>1. op.tx \in Seq(Nat) /\ Len(op.tx) \in Nat
        BY <1>1, <3>4 DEF PirateOperation, RelayOperation
      <4>2. b = WriteRequests(op.tx, FALSE)
        BY <3>4 DEF Transfers
      <4>3. 0 \in Nat
        OBVIOUS
      <4> QED  BY <3>4, <4>1, <4>2, <4>3, PiecesAreSeqs
    <3> QED  BY <1>8, <3>1, <3>2, <3>3, <3>4
  <2>3. s = (Identify \o m) \o b
    BY <1>8 DEF Script
  <2> HIDE DEF b, m, s
  <2>4. s = Identify \o (m \o b)
    <3>1. PICK B : b \in Seq(B)
      BY <2>2 DEF IsSeq
    <3>2. PICK M : m \in Seq(M)
      BY <2>1 DEF IsSeq
    <3> DEFINE X == B \cup M \cup Observations
    <3>3. Identify \in Seq(X) /\ m \in Seq(X) /\ b \in Seq(X)
      BY <3>1, <3>2, PiecesObserve, SeqMonotonic
    <3> HIDE DEF X
    <3> QED  BY <2>3, <3>3, ConcatAssociative
  <2>5. IsSeq(m \o b) /\ (op.k = "scan" => TransfersLast(m \o b))
    <3>1. /\ IsSeq(m \o b) /\ Len(m \o b) = 2 + Len(b) /\ Len(b) \in Nat
          /\ \A i \in 1..(2 + Len(b)) :
               (m \o b)[i] = IF i <= 2 THEN m[i] ELSE b[i - 2]
      <4> DEFINE u == m \o b
      <4>1. /\ IsSeq(u) /\ Len(u) = Len(m) + Len(b) /\ Len(b) \in Nat
            /\ \A i \in 1..(Len(m) + Len(b)) :
                 u[i] = IF i <= Len(m) THEN m[i] ELSE b[i - Len(m)]
        BY <2>1, <2>2, SeqConcat, SeqLength
      <4> HIDE DEF u
      <4>2. /\ IsSeq(u) /\ Len(u) = 2 + Len(b) /\ Len(b) \in Nat
            /\ \A i \in 1..(2 + Len(b)) :
                 u[i] = IF i <= 2 THEN m[i] ELSE b[i - 2]
        BY <2>1, <4>1
      <4> QED  BY <4>2 DEF u
    <3>2. ASSUME op.k = "scan" PROVE TransfersLast(m \o b)
      <4> DEFINE u == m \o b
      <4> SUFFICES ASSUME NEW i \in 1..Len(u), NEW j \in 1..Len(u),
                          i < j, u[i].t = "data"
                   PROVE  u[j].t = "data"
        BY DEF TransfersLast
      <4> HIDE DEF u
      <4>1. i > 2
        BY <2>1, <3>1 DEF u
      <4>2. j - 2 \in 1..Len(b) /\ u[j] = b[j - 2]
        BY <3>1, <4>1 DEF u
      <4> QED  BY <2>2, <3>2, <4>2
    <3> QED  BY <3>1, <3>2
  <2>6. ScriptSound(s, op, reconciles)
    BY <1>3, <1>8, <2>4, <2>5 DEF ScriptSound
  <2> QED  BY <2>6 DEF s
<1>9. CASE /\ op.k \notin {"status", "set"}
           /\ ~(op.k = "capture" /\ configures)
           /\ ~(op.k \in {"spi", "i2c", "scan", "transmit"} /\ ~reconciles)
  <2>1. s = Identify
    BY <1>9 DEF Script
  <2> HIDE DEF s
  <2>2. s = Identify \o <<>> /\ TransfersLast(<<>>)
    BY <1>4, <2>1, EmptySeq DEF TransfersLast
  <2>3. ScriptSound(s, op, reconciles)
    BY <1>3, <1>4, <2>2 DEF ScriptSound
  <2> QED  BY <2>3 DEF s
<1> QED  BY <1>5, <1>6, <1>7, <1>8, <1>9

-----------------------------------------------------------------------------
(* The invariant                                                            *)

CallFields == {"op", "reconciles", "pc", "todo", "got", "probes", "found",
               "read", "receipt"}

CallTyped ==
  /\ DOMAIN call = CallFields
  /\ call.op \in Operations[kind] \cup {NoCall.op}
  /\ call.pc \in {"ready", "wait", "done"}
  /\ IsSeq(call.todo)
  /\ call.pc = "wait" => call.todo # <<>>

BusTypeOK ==
  /\ kind \in DOMAIN Operations
  /\ calls \in Nat /\ session \in 0..calls
  /\ call.pc # "done" => session # 0
  /\ session = 0 => answers = <<>>
  /\ IsSeq(requests) /\ IsSeq(answers) /\ IsSeq(wire)
  /\ \A i \in 1..Len(requests) : requests[i].n \in 0..calls

\* What a reconciliation has sent or has yet to send only observes.
OnlyObserved ==
  /\ \A i \in 1..Len(requests) :
       requests[i].reconciles => Observes(requests[i].r)
  /\ call.reconciles =>
       \A i \in 1..Len(call.todo) : Observes(call.todo[i])

\* The firmware answers a request only in the session it was sent in.
InSession(e) == session # 0 /\ e.n >= session

NothingOwed ==
  /\ answers = <<>>
  /\ \A i \in 1..Len(requests) : ~InSession(requests[i])

\* The answer to the request under way is the only one owed.
AnswerOwed ==
  \/ /\ answers = <<>> /\ requests # <<>>
     /\ InSession(requests[Len(requests)])
     /\ \A i \in 1..(Len(requests) - 1) : ~InSession(requests[i])
  \/ Len(answers) = 1 /\ requests = <<>>

\* Only answers to probes are owed, one or more of a scan that has timed out.
ProbesOwed ==
  /\ \A i \in 1..Len(answers) : answers[i].t \in {"data", "nack"}
  /\ \A i \in 1..Len(requests) :
       InSession(requests[i]) => requests[i].r.t = "data"

\* The answer to a probe is owed before that to the request under way.
ProbeFirst ==
  \/ answers # <<>> /\ answers[1].t \in {"data", "nack"}
  \/ /\ answers = <<>>
     /\ \E i \in 1..(Len(requests) - 1) : InSession(requests[i])
     /\ \A i \in 1..(Len(requests) - 1) :
          InSession(requests[i]) => requests[i].r.t = "data"

AtStart == call.todo # <<>> /\ Head(call.todo).t = "status"

Scanning ==
  /\ call.op.k = "scan"
  /\ \A i \in 1..Len(call.todo) : call.todo[i].t = "data"

\* Answers that no call waits for are owed only by a scan, and stop the next
\* call at its first request.
DebtsSound ==
  /\ call.op.k = "scan" => TransfersLast(call.todo)
  /\ call.pc = "done" => NothingOwed \/ (call.op.k = "scan" /\ ProbesOwed)
  /\ call.pc = "ready" =>
       NothingOwed \/ (ProbesOwed /\ (AtStart \/ Scanning))
  /\ call.pc = "wait" =>
       IF Scanning THEN ProbesOwed
       ELSE AnswerOwed \/ (ProbeFirst /\ AtStart)

\* A call that is through with its script has left no request behind.
ScriptsCarriedOut ==
  /\ call.pc = "ready" /\ call.todo = <<>> /\ call.op.k # "scan" =>
       requests = <<>>
  /\ ReceiptsOweNothing

BusInv ==
  BusTypeOK /\ CallTyped /\ OnlyObserved /\ DebtsSound /\ ScriptsCarriedOut

-----------------------------------------------------------------------------
(* Steps of the adapter                                                     *)

\* What is left of a script is as sound as the script.
LEMMA ScriptShrinks ==
  ASSUME BusInv, NEW t \in {call.todo, Tail(call.todo), <<>>},
         call.todo # <<>>
  PROVE  /\ IsSeq(t)
         /\ call.op.k = "scan" => TransfersLast(t)
         /\ Scanning => \A i \in 1..Len(t) : t[i].t = "data"
         /\ call.reconciles => \A i \in 1..Len(t) : Observes(t[i])
<1>1. IsSeq(call.todo)
  BY DEF BusInv, CallTyped
<1>2. CASE t = call.todo
  BY <1>1, <1>2 DEF BusInv, DebtsSound, OnlyObserved, Scanning
<1>3. CASE t = Tail(call.todo)
  <2>1. /\ IsSeq(t) /\ Len(t) = Len(call.todo) - 1 /\ Len(call.todo) \in Nat
        /\ \A i \in 1..Len(t) : t[i] = call.todo[i + 1]
    BY <1>1, <1>3, SeqTail
  <2>2. \A i \in 1..Len(t) : i + 1 \in 1..Len(call.todo)
    BY <2>1
  <2>3. ASSUME call.op.k = "scan" PROVE TransfersLast(t)
    <3> SUFFICES ASSUME NEW i \in 1..Len(t), NEW j \in 1..Len(t),
                        i < j, t[i].t = "data"
                 PROVE  t[j].t = "data"
      BY DEF TransfersLast
    <3>1. i + 1 < j + 1
      BY <2>1
    <3> QED
      BY <2>1, <2>2, <2>3, <3>1 DEF BusInv, DebtsSound, TransfersLast
  <2> QED  BY <2>1, <2>2, <2>3 DEF BusInv, OnlyObserved, Scanning
<1>4. CASE t = <<>>
  <2>1. <<>> \in Seq({}) /\ Len(<<>>) = 0
    BY EmptySeq
  <2>2. IsSeq(<<>>) /\ 1..Len(<<>>) = {}
    BY <2>1 DEF IsSeq
  <2> QED  BY <1>4, <2>2 DEF TransfersLast
<1> QED  BY <1>2, <1>3, <1>4

\* A scan whose next request is a probe has only probes left.
LEMMA ProbingScans ==
  ASSUME BusInv, call.todo # <<>>
  PROVE  Probing <=> Scanning
<1>1. /\ Head(call.todo) = call.todo[1] /\ Len(call.todo) \in Nat \ {0}
  BY SeqTail DEF BusInv, CallTyped
<1>2. ASSUME Probing PROVE Scanning
  <2>1. \A j \in 1..Len(call.todo) : 1 < j => call.todo[j].t = "data"
    BY <1>1, <1>2
       DEF BusInv, DebtsSound, TransfersLast, Probing, Asked
  <2> QED  BY <1>1, <1>2, <2>1 DEF Scanning, Probing, Asked
<1>3. ASSUME Scanning PROVE Probing
  BY <1>1, <1>3 DEF Scanning, Probing, Asked
<1> QED  BY <1>2, <1>3

\* A call that ends early owes nothing, and nothing is owed to it.
LEMMA DropInv ==
  ASSUME BusInv, NEW next, DOMAIN next = CallFields, Drop(next),
         next.op = call.op, next.reconciles = call.reconciles,
         next.todo \in {call.todo, Tail(call.todo)}, call.todo # <<>>,
         UNCHANGED <<kind, requests, wire, calls>>
  PROVE  BusInv'
<1>1. /\ DOMAIN call' = CallFields /\ call'.op = call.op
      /\ call'.reconciles = call.reconciles /\ call'.todo = next.todo
      /\ call'.pc = "done" /\ call'.receipt = "error"
      /\ session' = 0 /\ answers' = <<>>
  BY DEF Drop, CallFields
<1>2. /\ IsSeq(call'.todo)
      /\ call'.op.k = "scan" => TransfersLast(call'.todo)
      /\ call'.reconciles =>
           \A i \in 1..Len(call'.todo) : Observes(call'.todo[i])
  BY <1>1, ScriptShrinks
<1>3. IsSeq(<<>>)
  BY EmptySeq DEF IsSeq
<1>4. BusTypeOK' /\ CallTyped'
  BY <1>1, <1>2, <1>3 DEF BusInv, BusTypeOK, CallTyped
<1>5. OnlyObserved'
  BY <1>1, <1>2 DEF BusInv, OnlyObserved, Observes, Bytes
<1>6. DebtsSound'
  BY <1>1, <1>2 DEF DebtsSound, NothingOwed, InSession
<1>7. ScriptsCarriedOut'
  BY <1>1 DEF ScriptsCarriedOut, ReceiptsOweNothing, Answered
<1> QED  BY <1>4, <1>5, <1>6, <1>7 DEF BusInv

LEMMA InitInv == Init => BusInv
<1> SUFFICES ASSUME Init PROVE BusInv
  OBVIOUS
<1>1. IsSeq(<<>>) /\ Len(<<>>) = 0
  BY EmptySeq DEF IsSeq
<1>2. BusTypeOK /\ CallTyped
  BY <1>1 DEF Init, BusTypeOK, CallTyped, NoCall, CallFields
<1>3. OnlyObserved /\ DebtsSound /\ ScriptsCarriedOut
  BY <1>1
     DEF Init, OnlyObserved, DebtsSound, ScriptsCarriedOut, NoCall,
         NothingOwed, InSession, ReceiptsOweNothing, Answered
<1> QED  BY <1>2, <1>3 DEF BusInv

\* A new session owes nothing; one that was kept may owe answers to probes,
\* and then the call begins with a status.
LEMMA BeginInv ==
  ASSUME BusInv, NEW op \in Operations[kind], NEW reconciles \in BOOLEAN,
         NEW configures \in BOOLEAN, Begin(op, reconciles, configures)
  PROVE  BusInv'
<1> DEFINE s == Script(op, reconciles, configures)
<1>1. ScriptSound(s, op, reconciles)
  BY ScriptsSound DEF BusInv, BusTypeOK
<1> HIDE DEF s
<1>2. /\ DOMAIN call' = CallFields /\ call'.op = op
      /\ call'.reconciles = reconciles /\ call'.todo = s
      /\ call'.pc = "ready" /\ call.pc = "done"
      /\ calls \in Nat /\ session \in 0..calls /\ calls' = calls + 1
      /\ session' = IF session = 0 THEN calls + 1 ELSE session
      /\ wire' = <<>> /\ UNCHANGED <<kind, requests, answers>>
  BY DEF Begin, NoCall, CallFields, s, BusInv, BusTypeOK
<1>3. IsSeq(<<>>)
  BY EmptySeq DEF IsSeq
<1>4. \A i \in 1..Len(requests) : requests[i].n \in 0..calls'
  BY <1>2 DEF BusInv, BusTypeOK
<1>5. BusTypeOK' /\ CallTyped'
  BY <1>1, <1>2, <1>3, <1>4
     DEF BusInv, BusTypeOK, CallTyped, ScriptSound
<1>6. OnlyObserved'
  BY <1>1, <1>2 DEF BusInv, OnlyObserved, Observes, Bytes, ScriptSound
<1>7. NothingOwed' \/ (ProbesOwed' /\ AtStart')
  <2>1. CASE session = 0
    <3>1. answers = <<>>
      BY <2>1 DEF BusInv, BusTypeOK
    <3>2. \A i \in 1..Len(requests) : ~(requests[i].n >= calls + 1)
      BY <1>2 DEF BusInv, BusTypeOK
    <3> QED  BY <1>2, <2>1, <3>1, <3>2 DEF NothingOwed, InSession
  <2>2. CASE session # 0 /\ NothingOwed
    BY <1>2, <2>2 DEF NothingOwed, InSession
  <2>3. CASE session # 0 /\ ~NothingOwed
    <3>1. call.op.k = "scan" /\ ProbesOwed
      BY <1>2, <2>3 DEF BusInv, DebtsSound
    <3>2. kind = "bpio2"
      BY <3>1, BusParameters
         DEF BusInv, BusTypeOK, CallTyped, RelayOperation, NoCall
    <3>3. AtStart'
      BY <1>1, <1>2, <3>2 DEF AtStart, ScriptSound
    <3>4. ProbesOwed'
      BY <1>2, <2>3, <3>1 DEF ProbesOwed, InSession
    <3> QED  BY <3>3, <3>4
  <2> QED  BY <2>1, <2>2, <2>3
<1>8. DebtsSound'
  BY <1>1, <1>2, <1>7 DEF DebtsSound, ScriptSound
<1>9. ScriptsCarriedOut'
  BY <1>1, <1>2
     DEF ScriptsCarriedOut, ReceiptsOweNothing, Answered, ScriptSound
<1> QED  BY <1>5, <1>6, <1>8, <1>9 DEF BusInv

LEMMA SendInv ==
  ASSUME BusInv, Send
  PROVE  BusInv'
<1> DEFINE r == Head(call.todo)
           e == [r |-> r, n |-> calls, reconciles |-> call.reconciles]
           k == Len(requests)
<1>1. /\ call.todo # <<>> /\ call.pc = "ready"
      /\ DOMAIN call' = CallFields /\ call'.pc = "wait"
      /\ call'.op = call.op /\ call'.todo = call.todo
      /\ call'.reconciles = call.reconciles
      /\ requests' = Append(requests, e)
      /\ UNCHANGED <<kind, session, answers, wire, calls>>
  BY DEF Send, BusInv, CallTyped, CallFields
<1>2. /\ r = call.todo[1] /\ Len(call.todo) \in Nat \ {0}
      /\ IsSeq(call.todo)
  BY <1>1, SeqTail DEF BusInv, CallTyped
<1>3. k \in Nat /\ IsSeq(requests)
  BY SeqLength DEF BusInv, BusTypeOK
<1>4. /\ IsSeq(requests') /\ Len(requests') = k + 1 /\ requests' # <<>>
      /\ \A i \in 1..k : requests'[i] = requests[i]
      /\ requests'[k + 1] = e
  <2>1. /\ IsSeq(requests') /\ Len(requests') = k + 1
        /\ \A i \in 1..k : requests'[i] = requests[i]
        /\ requests'[k + 1] = e
    BY <1>1, <1>3, SeqAppend
  <2>2. requests' # <<>>
    BY <1>3, <2>1, SeqLength
  <2> QED  BY <2>1, <2>2
<1>5. session # 0 /\ calls \in Nat /\ session \in 0..calls
  BY <1>1 DEF BusInv, BusTypeOK
<1>6. e.n = calls /\ e.r = r /\ e.reconciles = call.reconciles
  OBVIOUS
<1> HIDE DEF e, k
<1>7. \A i \in 1..(k + 1) : i \in 1..k \/ i = k + 1
  BY <1>3
<1>8. \A i \in 1..(k + 1) : requests'[i].n \in 0..calls
  BY <1>3, <1>4, <1>5, <1>6, <1>7 DEF BusInv, BusTypeOK, k
<1>9. BusTypeOK' /\ CallTyped'
  BY <1>1, <1>2, <1>4, <1>5, <1>8 DEF BusInv, BusTypeOK, CallTyped
<1>10. OnlyObserved'
  <2>1. ASSUME NEW i \in 1..(k + 1), requests'[i].reconciles
        PROVE  Observes(requests'[i].r)
    <3>1. CASE i \in 1..k
      BY <1>4, <2>1, <3>1 DEF BusInv, OnlyObserved, k
    <3>2. CASE i = k + 1
      BY <1>2, <1>4, <1>6, <2>1, <3>2 DEF BusInv, OnlyObserved
    <3> QED  BY <1>7, <3>1, <3>2
  <2>2. Len(requests') = k + 1
    BY <1>4
  <2> QED  BY <1>1, <2>1, <2>2 DEF BusInv, OnlyObserved, Observes, Bytes
<1>11. InSession(e) /\ \A x : InSession(x)' <=> InSession(x)
  BY <1>1, <1>5, <1>6 DEF InSession
<1>12. DebtsSound'
  <2>1. call'.op.k = "scan" => TransfersLast(call'.todo)
    BY <1>1 DEF BusInv, DebtsSound
  <2>2. Scanning' <=> Scanning
    BY <1>1 DEF Scanning
  <2>3. NothingOwed \/ (ProbesOwed /\ (AtStart \/ Scanning))
    BY <1>1 DEF BusInv, DebtsSound
  <2>4. CASE Scanning
    <3>1. r.t = "data"
      BY <1>2, <2>4 DEF Scanning
    <3>2. answers = <<>> => 1..Len(answers) = {}
      BY EmptySeq
    <3>3. ProbesOwed
      BY <2>3, <2>4, <3>2 DEF NothingOwed, ProbesOwed, AtStart
    <3>4. ASSUME NEW i \in 1..(k + 1), InSession(requests'[i])
          PROVE  requests'[i].r.t = "data"
      BY <1>4, <1>6, <1>7, <3>1, <3>3, <3>4 DEF ProbesOwed, k
    <3>5. ProbesOwed'
      BY <1>1, <1>4, <1>11, <3>3, <3>4 DEF ProbesOwed
    <3> QED  BY <1>1, <2>1, <2>2, <2>4, <3>5 DEF DebtsSound
  <2>5. CASE ~Scanning
    <3>1. CASE NothingOwed
      <4>1. AnswerOwed'
        BY <1>1, <1>3, <1>4, <1>11, <3>1 DEF NothingOwed, AnswerOwed, k
      <4> QED  BY <1>1, <2>1, <2>2, <2>5, <4>1 DEF DebtsSound
    <3>2. CASE ~NothingOwed
      <4>1. ProbesOwed /\ AtStart /\ AtStart'
        BY <1>1, <2>3, <2>5, <3>2 DEF AtStart
      <4>2. answers # <<>> => 1 \in 1..Len(answers)
        BY SeqTail DEF BusInv, BusTypeOK
      <4>3. ProbeFirst'
        BY <1>1, <1>3, <1>4, <1>11, <3>2, <4>1, <4>2
           DEF NothingOwed, ProbesOwed, ProbeFirst, k
      <4> QED  BY <1>1, <2>1, <2>2, <2>5, <4>1, <4>3 DEF DebtsSound
    <3> QED  BY <3>1, <3>2
  <2> QED  BY <2>4, <2>5
<1>13. ScriptsCarriedOut'
  BY <1>1 DEF ScriptsCarriedOut, ReceiptsOweNothing, Answered
<1> QED  BY <1>9, <1>10, <1>12, <1>13 DEF BusInv

\* An answer is accepted only if it is the one to the request under way.
LEMMA AcceptInv ==
  ASSUME BusInv, Accept
  PROVE  BusInv'
<1> DEFINE a == Head(answers)
<1>1. /\ call.todo # <<>> /\ call.pc = "wait" /\ answers # <<>>
      /\ UNCHANGED <<kind, requests, wire, calls>>
      /\ DOMAIN call = CallFields /\ IsSeq(call.todo) /\ IsSeq(answers)
  BY DEF Accept, BusInv, BusTypeOK, CallTyped, target
<1>2. a = answers[1] /\ Len(answers) \in Nat \ {0} /\ IsSeq(Tail(answers))
      /\ Len(Tail(answers)) = Len(answers) - 1
  BY <1>1, SeqTail
<1>3. AnswerOwed \/ (ProbeFirst /\ AtStart)
  BY <1>1, ProbingScans DEF Accept, BusInv, DebtsSound
<1>4. CASE ~Accepts(a)
  BY <1>1, <1>4, DropInv DEF Accept
<1>5. CASE Accepts(a)
  <2>1. AnswerOwed
    BY <1>1, <1>2, <1>3, <1>5 DEF ProbeFirst, AtStart, Accepts, Asked
  <2>2. requests = <<>> /\ Len(answers) = 1
    BY <1>1, <2>1 DEF AnswerOwed
  <2>3. /\ DOMAIN call' = CallFields /\ call'.pc = "ready"
        /\ call'.op = call.op /\ call'.reconciles = call.reconciles
        /\ call'.todo \in {<<>>, Tail(call.todo)}
        /\ answers' = Tail(answers) /\ session' = session
    BY <1>1, <1>5 DEF Accept, Takes, CallFields
  <2>4. /\ IsSeq(call'.todo)
        /\ call'.op.k = "scan" => TransfersLast(call'.todo)
        /\ call'.reconciles =>
             \A i \in 1..Len(call'.todo) : Observes(call'.todo[i])
    BY <1>1, <2>3, ScriptShrinks
  <2>5. answers' = <<>>
    <3>1. IsSeq(Tail(answers)) /\ Len(Tail(answers)) = 0
      BY <1>2, <2>2
    <3> QED  BY <2>3, <3>1, SeqLength
  <2>6. BusTypeOK' /\ CallTyped'
    BY <1>1, <1>2, <2>3, <2>4 DEF BusInv, BusTypeOK, CallTyped
  <2>7. OnlyObserved'
    BY <1>1, <2>3, <2>4 DEF BusInv, OnlyObserved, Observes, Bytes
  <2>8. NothingOwed'
    BY <1>1, <2>2, <2>5, EmptySeq DEF NothingOwed
  <2>9. DebtsSound'
    BY <2>3, <2>4, <2>8 DEF DebtsSound
  <2>10. ScriptsCarriedOut'
    BY <1>1, <2>2, <2>3 DEF ScriptsCarriedOut, ReceiptsOweNothing, Answered
  <2> QED  BY <2>6, <2>7, <2>9, <2>10 DEF BusInv
<1> QED  BY <1>4, <1>5

\* What a scan makes of the outcome of a probe
LEMMA JudgedShape ==
  ASSUME BusInv, NEW outcome
  PROVE  /\ DOMAIN Judged(outcome) = CallFields
         /\ Judged(outcome).op = call.op /\ Judged(outcome).pc = "ready"
         /\ Judged(outcome).reconciles = call.reconciles
         /\ Judged(outcome).todo = Tail(call.todo)
BY DEF Judged, CallFields, BusInv, CallTyped

LEMMA ProbeInv ==
  ASSUME BusInv, Probe \/ ProbeTimesOut
  PROVE  BusInv'
<1>1. PICK outcome : Probed(outcome)
  BY DEF Probe, ProbeTimesOut
<1>2. /\ call.todo # <<>> /\ call.pc = "wait" /\ Probing
      /\ UNCHANGED <<kind, requests, wire, calls>>
      /\ session # 0
      /\ session' # 0 => \/ answers' = answers
                         \/ answers # <<>> /\ answers' = Tail(answers)
  BY DEF Probe, ProbeTimesOut, BusInv, BusTypeOK, CallTyped, target
<1>3. Scanning /\ ProbesOwed
  BY <1>2, ProbingScans DEF BusInv, DebtsSound
<1>4. CASE Judged(outcome).receipt = "failed"
  BY <1>1, <1>2, <1>4, JudgedShape, DropInv DEF Probed
<1>5. CASE Judged(outcome).receipt # "failed"
  <2>1. call' = Judged(outcome) /\ session' = session
    BY <1>1, <1>5 DEF Probed
  <2>2. /\ DOMAIN call' = CallFields /\ call'.op = call.op
        /\ call'.pc = "ready" /\ call'.reconciles = call.reconciles
        /\ call'.todo = Tail(call.todo)
    BY <2>1, JudgedShape
  <2>3. /\ IsSeq(call'.todo)
        /\ call'.op.k = "scan" => TransfersLast(call'.todo)
        /\ \A i \in 1..Len(call'.todo) : call'.todo[i].t = "data"
        /\ call'.reconciles =>
             \A i \in 1..Len(call'.todo) : Observes(call'.todo[i])
    BY <1>2, <1>3, <2>2, ScriptShrinks
  <2>4. /\ IsSeq(answers')
        /\ \A i \in 1..Len(answers') : answers'[i].t \in {"data", "nack"}
    <3>1. IsSeq(answers)
      BY DEF BusInv, BusTypeOK
    <3>2. CASE answers' = answers
      BY <1>3, <3>1, <3>2 DEF ProbesOwed
    <3>3. CASE answers # <<>> /\ answers' = Tail(answers)
      <4>1. /\ IsSeq(answers') /\ Len(answers') = Len(answers) - 1
            /\ Len(answers) \in Nat
            /\ \A i \in 1..Len(answers') : answers'[i] = answers[i + 1]
        BY <3>1, <3>3, SeqTail
      <4>2. \A i \in 1..Len(answers') : i + 1 \in 1..Len(answers)
        BY <4>1
      <4> QED  BY <1>3, <4>1, <4>2 DEF ProbesOwed
    <3> QED  BY <1>2, <2>1, <3>2, <3>3
  <2>5. BusTypeOK' /\ CallTyped'
    BY <1>2, <2>1, <2>2, <2>3, <2>4 DEF BusInv, BusTypeOK, CallTyped
  <2>6. OnlyObserved'
    BY <1>2, <2>2, <2>3 DEF BusInv, OnlyObserved, Observes, Bytes
  <2>7. ProbesOwed' /\ Scanning' /\ call'.op.k = "scan"
    BY <1>2, <1>3, <2>1, <2>2, <2>3, <2>4
       DEF ProbesOwed, Scanning, InSession
  <2>8. DebtsSound'
    BY <2>2, <2>3, <2>7 DEF DebtsSound
  <2>9. ScriptsCarriedOut'
    BY <2>2, <2>7 DEF ScriptsCarriedOut, ReceiptsOweNothing, Answered
  <2> QED  BY <2>5, <2>6, <2>8, <2>9 DEF BusInv
<1> QED  BY <1>4, <1>5

\* A script that is through was carried out, all of it.
LEMMA FinishInv ==
  ASSUME BusInv, Finish
  PROVE  BusInv'
<1>1. /\ call.todo = <<>> /\ call.pc = "ready"
      /\ DOMAIN call' = CallFields /\ call'.pc = "done"
      /\ call'.op = call.op /\ call'.todo = call.todo
      /\ call'.reconciles = call.reconciles
      /\ UNCHANGED <<kind, session, requests, answers, wire, calls>>
  BY DEF Finish, BusInv, CallTyped, CallFields, target
<1>2. NothingOwed \/ (ProbesOwed /\ Scanning)
  BY <1>1 DEF BusInv, DebtsSound, AtStart
<1>3. BusTypeOK' /\ CallTyped'
  BY <1>1 DEF BusInv, BusTypeOK, CallTyped
<1>4. OnlyObserved'
  BY <1>1 DEF BusInv, OnlyObserved, Observes, Bytes
<1>5. (NothingOwed' <=> NothingOwed) /\ (ProbesOwed' <=> ProbesOwed)
  BY <1>1 DEF NothingOwed, ProbesOwed, InSession
<1>6. DebtsSound'
  BY <1>1, <1>2, <1>5
     DEF BusInv, DebtsSound, Scanning, TransfersLast
<1>7. call.op.k # "scan" => requests = <<>> /\ answers = <<>>
  BY <1>1, <1>2 DEF BusInv, ScriptsCarriedOut, Scanning, NothingOwed
<1>8. ScriptsCarriedOut'
  BY <1>1, <1>7 DEF ScriptsCarriedOut, ReceiptsOweNothing, Answered
<1> QED  BY <1>3, <1>4, <1>6, <1>8 DEF BusInv

\* Everything that ends a call early ends its session.
LEMMA FailInv ==
  ASSUME BusInv, Fail
  PROVE  BusInv'
<1>1. /\ DOMAIN call' = CallFields /\ call'.op = call.op
      /\ call'.reconciles = call.reconciles /\ call'.todo = call.todo
      /\ call'.pc = "done" /\ call'.receipt = "error"
      /\ session' = 0 /\ answers' = <<>>
      /\ UNCHANGED <<kind, requests, wire, calls>>
  BY DEF Fail, Drop, target, BusInv, CallTyped, CallFields
<1>2. IsSeq(<<>>)
  BY EmptySeq DEF IsSeq
<1>3. BusTypeOK' /\ CallTyped'
  BY <1>1, <1>2 DEF BusInv, BusTypeOK, CallTyped
<1>4. OnlyObserved'
  BY <1>1 DEF BusInv, OnlyObserved, Observes, Bytes
<1>5. DebtsSound'
  BY <1>1 DEF BusInv, DebtsSound, NothingOwed, InSession, TransfersLast
<1>6. ScriptsCarriedOut'
  BY <1>1 DEF ScriptsCarriedOut, ReceiptsOweNothing, Answered
<1> QED  BY <1>3, <1>4, <1>5, <1>6 DEF BusInv

-----------------------------------------------------------------------------
(* The firmware                                                             *)

\* A request is carried out, observing if a reconciliation asked for it, and
\* answered if its session is still open.
LEMMA CarriedOut ==
  ASSUME BusInv, CarryOut
  PROVE  LET e == Head(requests)
         IN  /\ requests # <<>> /\ requests' = Tail(requests)
             /\ UNCHANGED <<kind, session, call, calls>>
             /\ IF InSession(e)
                THEN \E a : /\ answers' = Append(answers, a)
                            /\ e.r.t = "data" => a.t \in {"data", "nack"}
                ELSE answers' = answers
             /\ \/ /\ e.r.t = "data" /\ level' = level
                   /\ \E x : wire' = Append(wire, x) /\ x.tx = Bytes(e.r)
                \/ /\ e.r.t # "data" /\ wire' = wire
                   /\ e.r.t # "set" => level' = level
<1> DEFINE e == Head(requests)
<1>1. /\ requests # <<>> /\ requests' = Tail(requests)
      /\ UNCHANGED <<kind, session, call, calls>>
  BY DEF CarryOut
<1>2. CASE e.r.t = "data"
  <2>1. PICK n \in Read(e.r) : 
          /\ wire' = Append(wire, [n |-> e.n, reconciles |-> e.reconciles,
               tx |-> Bytes(e.r), rx |-> Fresh(n), start |-> e.r.start,
               stop |-> e.r.stop])
          /\ answers' = IF session # 0 /\ e.n >= session
                        THEN Append(answers,
                          IF Acknowledged(e.r)
                          THEN [t |-> "data", frame |-> Encode(Fresh(n))]
                          ELSE [t |-> "nack"])
                        ELSE answers
          /\ UNCHANGED <<mode, level>>
    BY <1>2 DEF CarryOut, Transfer
  <2>2. \E x : wire' = Append(wire, x) /\ x.tx = Bytes(e.r)
    <3> DEFINE x == [n |-> e.n, reconciles |-> e.reconciles,
                     tx |-> Bytes(e.r), rx |-> Fresh(n), start |-> e.r.start,
                     stop |-> e.r.stop]
    <3>1. x.tx = Bytes(e.r) /\ wire' = Append(wire, x)
      BY <2>1
    <3> QED  BY <3>1
  <2>3. IF InSession(e)
        THEN \E a : /\ answers' = Append(answers, a)
                    /\ a.t \in {"data", "nack"}
        ELSE answers' = answers
    <3> DEFINE a == IF Acknowledged(e.r)
                    THEN [t |-> "data", frame |-> Encode(Fresh(n))]
                    ELSE [t |-> "nack"]
    <3>1. a.t \in {"data", "nack"}
      OBVIOUS
    <3>2. answers' = IF session # 0 /\ e.n >= session
                     THEN Append(answers, a) ELSE answers
      BY <2>1
    <3> HIDE DEF a
    <3> QED  BY <3>1, <3>2 DEF InSession
  <2> QED  BY <1>1, <1>2, <2>1, <2>2, <2>3
<1>3. CASE e.r.t # "data"
  <2>1. /\ wire' = wire /\ (e.r.t # "set" => level' = level)
        /\ answers' = IF session # 0 /\ e.n >= session
                      THEN Append(answers,
                             [t |-> e.r.t, mode |-> mode', level |-> level'])
                      ELSE answers
    BY <1>3 DEF CarryOut, Reply
  <2> QED  BY <1>1, <1>3, <2>1 DEF InSession
<1> QED  BY <1>2, <1>3

LEMMA CarryOutInv ==
  ASSUME BusInv, CarryOut
  PROVE  BusInv'
<1> DEFINE e == Head(requests)
           k == Len(requests)
<1>1. /\ requests # <<>> /\ requests' = Tail(requests)
      /\ UNCHANGED <<kind, session, call, calls>>
      /\ IF InSession(e)
         THEN \E a : /\ answers' = Append(answers, a)
                     /\ e.r.t = "data" => a.t \in {"data", "nack"}
         ELSE answers' = answers
      /\ wire' = wire \/ \E x : wire' = Append(wire, x)
  BY CarriedOut
<1>2. IsSeq(requests) /\ IsSeq(answers) /\ IsSeq(wire) /\ BusTypeOK
  BY DEF BusInv, BusTypeOK
<1>3. /\ e = requests[1] /\ k \in Nat \ {0}
      /\ IsSeq(requests') /\ Len(requests') = k - 1
      /\ \A i \in 1..(k - 1) : requests'[i] = requests[i + 1]
  BY <1>1, <1>2, SeqTail
<1>4. \A i \in 1..(k - 1) : i + 1 \in 1..k
  BY <1>3
<1>5. /\ IsSeq(answers') /\ Len(answers) \in Nat
      /\ \A i \in 1..Len(answers') :
           \/ i \in 1..Len(answers) /\ answers'[i] = answers[i]
           \/ /\ InSession(e) /\ i = Len(answers) + 1
              /\ e.r.t = "data" => answers'[i].t \in {"data", "nack"}
      /\ Len(answers') =
           (IF InSession(e) THEN Len(answers) + 1 ELSE Len(answers))
  <2>1. CASE InSession(e)
    <3>1. PICK a : /\ answers' = Append(answers, a)
                   /\ e.r.t = "data" => a.t \in {"data", "nack"}
      BY <1>1, <2>1
    <3>2. /\ IsSeq(answers') /\ Len(answers') = Len(answers) + 1
          /\ \A i \in 1..Len(answers) : answers'[i] = answers[i]
          /\ answers'[Len(answers) + 1] = a /\ Len(answers) \in Nat
      BY <1>2, <3>1, SeqAppend, SeqLength
    <3> QED  BY <2>1, <3>1, <3>2
  <2>2. CASE ~InSession(e)
    BY <1>1, <1>2, <2>2, SeqLength
  <2> QED  BY <2>1, <2>2
<1>6. IsSeq(wire')
  <2>1. \A x : IsSeq(Append(wire, x))
    BY <1>2, SeqAppend
  <2> QED  BY <1>1, <1>2, <2>1
<1>7. \A x : InSession(x)' <=> InSession(x)
  BY <1>1 DEF InSession
<1> HIDE DEF e, k
<1>8. session = 0 => answers' = <<>>
  BY <1>1, <1>2 DEF InSession, BusTypeOK
<1>9. BusTypeOK' /\ CallTyped'
  <2>1. \A i \in 1..(k - 1) : requests'[i].n \in 0..calls
    BY <1>2, <1>3, <1>4 DEF BusTypeOK, k
  <2> QED
    BY <1>1, <1>2, <1>3, <1>5, <1>6, <1>8, <2>1
       DEF BusInv, BusTypeOK, CallTyped
<1>10. OnlyObserved'
  <2>1. \A i \in 1..(k - 1) :
          requests'[i].reconciles => Observes(requests'[i].r)
    BY <1>3, <1>4 DEF BusInv, OnlyObserved, k
  <2> QED  BY <1>1, <1>3, <2>1 DEF BusInv, OnlyObserved, Observes, Bytes
<1>11. NothingOwed => NothingOwed'
  BY <1>1, <1>3, <1>4, <1>7 DEF NothingOwed, k
<1>12. ProbesOwed => ProbesOwed'
  <2> SUFFICES ASSUME ProbesOwed PROVE ProbesOwed'
    OBVIOUS
  <2>1. InSession(e) => e.r.t = "data"
    BY <1>3 DEF ProbesOwed, k
  <2>2. \A i \in 1..Len(answers') : answers'[i].t \in {"data", "nack"}
    BY <1>5, <2>1 DEF ProbesOwed
  <2>3. \A i \in 1..(k - 1) :
          InSession(requests'[i]) => requests'[i].r.t = "data"
    BY <1>3, <1>4 DEF ProbesOwed, k
  <2> QED  BY <1>3, <1>7, <2>2, <2>3 DEF ProbesOwed
<1>13. AnswerOwed => AnswerOwed'
  <2> SUFFICES ASSUME AnswerOwed PROVE AnswerOwed'
    OBVIOUS
  <2>1. /\ answers = <<>> /\ InSession(requests[k])
        /\ \A i \in 1..(k - 1) : ~InSession(requests[i])
    BY <1>1 DEF AnswerOwed, k
  <2>2. CASE k = 1
    <3>1. InSession(e) /\ Len(answers) = 0
      BY <1>3, <2>1, <2>2, EmptySeq
    <3>2. Len(answers') = 1
      BY <1>5, <3>1
    <3>3. requests' = <<>>
      BY <1>3, <2>2, SeqLength
    <3> QED  BY <3>2, <3>3 DEF AnswerOwed
  <2>3. CASE k > 1
    <3>1. ~InSession(e)
      BY <1>3, <2>1, <2>3
    <3>2. answers' = <<>> /\ requests' # <<>>
      BY <1>1, <1>3, <2>1, <2>3, <3>1, SeqLength DEF e
    <3>3. InSession(requests'[k - 1])
      BY <1>3, <2>1, <2>3
    <3>4. \A i \in 1..(k - 2) : ~InSession(requests'[i])
      BY <1>3, <2>1, <2>3
    <3>5. Len(requests') = k - 1 /\ Len(requests') - 1 = k - 2
      BY <1>3
    <3> QED  BY <1>7, <3>2, <3>3, <3>4, <3>5 DEF AnswerOwed
  <2> QED  BY <1>3, <2>2, <2>3
<1>14. ProbeFirst => ProbeFirst'
  <2> SUFFICES ASSUME ProbeFirst PROVE ProbeFirst'
    OBVIOUS
  <2>1. CASE answers # <<>>
    <3>1. Len(answers) \in Nat \ {0} /\ answers[1].t \in {"data", "nack"}
      BY <1>2, <2>1, SeqTail DEF ProbeFirst
    <3>2. 1 \in 1..Len(answers') /\ 1 # Len(answers) + 1
      BY <1>5, <3>1
    <3>3. answers'[1] = answers[1]
      BY <1>5, <3>2
    <3>4. answers' # <<>>
      BY <1>5, <3>2, SeqLength
    <3> QED  BY <3>1, <3>3, <3>4 DEF ProbeFirst
  <2>2. CASE answers = <<>>
    <3>1. /\ \E i \in 1..(k - 1) : InSession(requests[i])
          /\ \A i \in 1..(k - 1) :
               InSession(requests[i]) => requests[i].r.t = "data"
      BY <2>2 DEF ProbeFirst, k
    <3>2. k > 1 /\ Len(answers) = 0
      BY <1>3, <2>2, <3>1, EmptySeq
    <3>3. CASE InSession(e)
      <4>1. e.r.t = "data"
        BY <1>3, <3>1, <3>2, <3>3
      <4>2. 1 \in 1..Len(answers') /\ 1 \notin 1..Len(answers)
        BY <1>5, <3>2, <3>3
      <4>3. answers'[1].t \in {"data", "nack"}
        BY <1>5, <4>1, <4>2
      <4>4. answers' # <<>>
        BY <1>5, <4>2, SeqLength
      <4> QED  BY <4>3, <4>4 DEF ProbeFirst
    <3>4. CASE ~InSession(e)
      <4>1. answers' = <<>>
        BY <1>1, <2>2, <3>4 DEF e
      <4>2. PICK i \in 1..(k - 1) : InSession(requests[i])
        BY <3>1
      <4>3. i # 1
        BY <1>3, <3>4, <4>2
      <4>4. i - 1 \in 1..(k - 2) /\ requests'[i - 1] = requests[i]
        <5>1. i - 1 \in 1..(k - 2) /\ i - 1 \in 1..(k - 1) /\ (i - 1) + 1 = i
          BY <1>3, <4>3
        <5> QED  BY <1>3, <5>1
      <4>5. \A j \in 1..(k - 2) :
              InSession(requests'[j]) => requests'[j].r.t = "data"
        <5>1. \A j \in 1..(k - 2) : j \in 1..(k - 1) /\ j + 1 \in 1..(k - 1)
          BY <1>3
        <5> QED  BY <1>3, <3>1, <5>1
      <4>6. Len(requests') - 1 = k - 2
        BY <1>3
      <4> QED  BY <1>7, <4>1, <4>2, <4>4, <4>5, <4>6 DEF ProbeFirst
    <3> QED  BY <3>3, <3>4
  <2> QED  BY <2>1, <2>2
<1>15. DebtsSound'
  BY <1>1, <1>11, <1>12, <1>13, <1>14
     DEF BusInv, DebtsSound, Scanning, AtStart, TransfersLast
<1>16. ScriptsCarriedOut'
  BY <1>1 DEF BusInv, ScriptsCarriedOut, ReceiptsOweNothing, Answered
<1> QED  BY <1>9, <1>10, <1>15, <1>16 DEF BusInv

-----------------------------------------------------------------------------

LEMMA StepInv == BusInv /\ [Next]_vars => BusInv'
<1> SUFFICES ASSUME BusInv, [Next]_vars PROVE BusInv'
  OBVIOUS
<1>1. CASE UNCHANGED vars
  BY <1>1
     DEF vars, target, BusInv, BusTypeOK, CallTyped, OnlyObserved, DebtsSound,
         ScriptsCarriedOut, ReceiptsOweNothing, Answered, NothingOwed,
         AnswerOwed, ProbesOwed, ProbeFirst, AtStart, Scanning, InSession,
         TransfersLast, Observes, Bytes
<1> QED
  BY <1>1, BeginInv, SendInv, CarryOutInv, AcceptInv, ProbeInv, FinishInv,
     FailInv DEF Next

LEMMA InvHolds == Spec => []BusInv
<1> QED  BY InitInv, StepInv, PTL DEF Spec

\* A call that was answered leaves no request and no answer in its session,
\* whatever scans before it left there; only a scan may.
THEOREM NothingLeftOwed == Spec => []ReceiptsOweNothing
<1>1. BusInv => ReceiptsOweNothing
  BY DEF BusInv, ScriptsCarriedOut
<1> QED  BY InvHolds, <1>1, PTL

\* Nothing that a reconciliation asks for sets an output or writes to the bus,
\* however late it is carried out.
THEOREM OnlyObserves == Spec => ReconciliationOnlyObserves
<1> DEFINE Effect == \/ level' # level
                     \/ Len(wire') > Len(wire) /\ Last(wire').tx # <<>>
<1>1. BusInv /\ [Next]_vars =>
        [level' # level \/ (Len(wire') > Len(wire) /\ Last(wire').tx # <<>>)
           => ~Head(requests).reconciles]_vars
  <2> SUFFICES ASSUME BusInv, Next, Effect, Head(requests).reconciles
               PROVE  FALSE
    OBVIOUS
  <2>1. IsSeq(wire) /\ Len(wire) \in Nat
    BY SeqLength DEF BusInv, BusTypeOK
  <2>2. CarryOut
    <3>1. ASSUME NEW op \in Operations[kind], NEW reconciles \in BOOLEAN,
                 NEW configures \in BOOLEAN, Begin(op, reconciles, configures)
          PROVE  FALSE
      BY <2>1, <3>1, EmptySeq DEF Begin
    <3>2. CASE Send \/ Accept \/ Probe \/ ProbeTimesOut \/ Finish \/ Fail
      BY <2>1, <3>2 DEF Send, Accept, Probe, ProbeTimesOut, Finish, Fail, target
    <3> QED  BY <3>1, <3>2 DEF Next
  <2>3. Observes(Head(requests).r)
    <3>1. IsSeq(requests) /\ requests # <<>>
      BY <2>2 DEF CarryOut, BusInv, BusTypeOK
    <3>2. Head(requests) = requests[1] /\ 1 \in 1..Len(requests)
      BY <3>1, SeqTail
    <3> QED  BY <3>2 DEF BusInv, OnlyObserved
  <2>4. CASE Head(requests).r.t = "data"
    <3>1. PICK x : level' = level /\ wire' = Append(wire, x)
                   /\ x.tx = Bytes(Head(requests).r)
      BY <2>2, <2>4, CarriedOut
    <3>2. Last(wire') = x
      BY <2>1, <3>1, SeqAppend DEF Last
    <3> QED  BY <2>3, <2>4, <3>1, <3>2 DEF Observes
  <2>5. CASE Head(requests).r.t # "data"
    BY <2>1, <2>2, <2>3, <2>5, CarriedOut DEF Observes
  <2> QED  BY <2>4, <2>5
<1> QED  BY InvHolds, <1>1, PTL DEF Spec, ReconciliationOnlyObserves

-----------------------------------------------------------------------------
(* What a receipt reports                                                   *)

\* The transfers that a call is to carry out, unless it reconciles
PlanOf(op) == IF op.k \in {"status", "set"} THEN <<>> ELSE Transfers(op)

DataRequest(r) ==
  \E w \in Seq(Nat), n \in Nat, b, c \in BOOLEAN : r = Data(w, n, b, c)

\* What is left of a script: its transfers from some point on, preceded, before
\* the first, by other requests.
Left(todo, plan) ==
  \A i \in 1..Len(todo) :
    LET j == Len(plan) - Len(todo) + i
    IN  IF j >= 1 THEN todo[i] = plan[j] ELSE todo[i].t # "data"

\* The transfers that are through when todo is left
Through(todo, plan) ==
  IF Len(todo) > Len(plan) THEN 0 ELSE Len(plan) - Len(todo)

RequestsOf(todo) ==
  \A i \in 1..Len(todo) : todo[i].t = "data" => DataRequest(todo[i])

RequestsSound ==
  /\ \A i \in 1..Len(requests) :
       requests[i].r.t = "data" => DataRequest(requests[i].r)
  /\ RequestsOf(call.todo) /\ IsSeq(call.probes)
  /\ \A i \in 1..Len(wire) : wire[i].rx \in Seq(Nat)

\* The one answer that is owed shows the instrument as it is.
ReplyFresh ==
  /\ call.pc = "wait" /\ ~Scanning /\ requests = <<>> /\ Len(answers) = 1
  /\ answers[1].t \notin {"data", "nack"}
  => answers[1].level = level /\ answers[1].mode = mode

\* The last request of an output reads it back.
ReadsBack(todo) ==
  /\ \A i \in 1..Len(todo) : todo[i].t # "data"
  /\ todo # <<>> => todo[Len(todo)].t \in {"status", "relays"}

ReadBackLast ==
  call.op.k = "set" /\ call.pc # "done" =>
    /\ ReadsBack(call.todo)
    /\ call.todo = <<>> => call.read = level

\* A scan that carries out its plan, and in which nothing has timed out
Clean ==
  call.op.k = "scan" =>
    ~call.reconciles /\ "timeout" \notin Range(call.probes)

\* The only request of the call that is on its way is the one under way, behind
\* those of earlier calls.
OwnUnderWay ==
  call.pc # "done" /\ Clean =>
    /\ \A i \in 1..Len(requests) :
         requests[i].n = calls =>
           /\ call.pc = "wait" /\ i = Len(requests)
           /\ requests[i].r = Head(call.todo)
    /\ call.pc = "wait" /\ requests # <<>> =>
         requests[Len(requests)].n = calls

\* An event is the transfer that a request asks for.
Executes(e, r) ==
  /\ e.tx = Bytes(r) /\ e.start = r.start /\ e.stop = r.stop
  /\ e.rx \in Seq(Nat)

Sent(own) == FlattenSeq([i \in DOMAIN own |-> own[i].tx])
Received(own) == FlattenSeq([i \in DOMAIN own |-> own[i].rx])

\* The events are the transfers that are through, and the call has read what
\* they read; only a capture may have read less than it asked for.
Matched(own, c) ==
  LET plan == PlanOf(c.op)
  IN  /\ IsSeq(own) /\ Len(own) <= Len(plan)
      /\ \/ Len(own) = Through(c.todo, plan)
         \/ c.op.k = "capture" /\ c.todo = <<>>
      /\ \A i \in 1..Len(own) :
           /\ Executes(own[i], plan[i])
           /\ c.op.k = "capture" \/ Len(own[i].rx) = plan[i].read
      /\ c.got = Received(own)

\* A transfer whose answer the call has not yet read is not counted.
TransfersSound ==
  call.op.k # "scan" /\ ~call.reconciles /\ call.pc # "done" =>
    /\ Left(call.todo, PlanOf(call.op))
    /\ IF call.pc = "wait" /\ Asked.t = "data" /\ requests = <<>>
       THEN \E own, e :
              /\ Own = Append(own, e) /\ Matched(own, call)
              /\ Executes(e, Asked)
              /\ answers[1].t = "data" => answers[1].frame = Encode(e.rx)
       ELSE Matched(Own, call)

ProbedAddress(i) == (i + 1) \div 2

ShowsI2c == [t |-> "status", shows |-> "I2C"]

\* The probes were answered according to what devices there are.
ScanMatched(c) ==
  LET n == Through(c.todo, ScanProbes)
  IN  /\ Len(c.probes) = n
      /\ \A i \in 1..n :
           c.probes[i] = IF ProbedAddress(i) \in Present THEN "ok" ELSE "nack"
      /\ c.found = {a \in Present : 2 * a <= n}

AnswersProbe(a, r, i) ==
  IF ProbedAddress(i) \in Present THEN a.t = "data" /\ Len(Bytes(a)) = r.read
  ELSE a.t = "nack"

\* The last request before the probes shows the mode.
ModeShown(todo) ==
  \A i \in 1..Len(todo) :
    todo[i].t # "data" /\ (i < Len(todo) => todo[i + 1].t = "data") =>
      todo[i] = ShowsI2c

ScansSound ==
  call.op.k = "scan" /\ ~call.reconciles /\ call.pc # "done" /\ Clean =>
    /\ Left(call.todo, ScanProbes) /\ ModeShown(call.todo)
    /\ ScanMatched(call)
    /\ Scanning =>
         /\ mode = "I2C"
         /\ call.pc = "ready" => requests = <<>> /\ answers = <<>>
         /\ call.pc = "wait" =>
              IF requests = <<>>
              THEN /\ Len(answers) = 1
                   /\ AnswersProbe(answers[1], Asked,
                                   Through(call.todo, ScanProbes) + 1)
              ELSE answers = <<>> /\ Len(requests) = 1

ExactInv ==
  /\ BusInv /\ RequestsSound /\ ReplyFresh /\ ReadBackLast /\ OwnUnderWay
  /\ TransfersSound /\ ScansSound /\ ReportsAreExact
-----------------------------------------------------------------------------
(* Sequences that are put together                                          *)

\* A sequence of sequences, and the concatenations of its first ones
Pieces(s, S) == IsSeq(s) /\ \A i \in 1..Len(s) : s[i] \in Seq(S)

Sums(c, s, S) ==
  /\ c \in [0..Len(s) -> Seq(S)] /\ c[0] = <<>>
  /\ \A i \in 1..Len(s) : c[i] = c[i - 1] \o s[i]

LEMMA SumsExist ==
  ASSUME NEW S, NEW s, Pieces(s, S)
  PROVE  \E c : Sums(c, s, S)
<1> DEFINE n == Len(s)
           step == [k \in 1..n |-> [x \in Seq(S) |-> x \o s[k]]]
<1>1. n \in Nat /\ \A k \in 1..n : s[k] \in Seq(S)
  BY SeqLength DEF Pieces
<1>2. <<>> \in Seq(S)
  BY EmptySeq
<1>3. StepsOf(step, n, Seq(S))
  <2>1. \A k \in 1..n : \A x \in Seq(S) : x \o s[k] \in Seq(S)
    BY <1>1, ConcatProperties
  <2> QED  BY <2>1 DEF StepsOf
<1> HIDE DEF n
<1>4. PICK c \in [0..n -> Seq(S)] :
        c[0] = <<>> /\ \A k \in 1..n : c[k] = step[k][c[k - 1]]
  <2> HIDE DEF step
  <2>1. \E f : WalkOf(f, step, n, Seq(S), <<>>)
    BY <1>1, <1>2, <1>3, Walk
  <2> QED  BY <2>1 DEF WalkOf
<1>5. \A k \in 1..n : c[k - 1] \in Seq(S)
  BY <1>1, <1>4
<1>6. \A k \in 1..n : c[k] = c[k - 1] \o s[k]
  BY <1>1, <1>4, <1>5
<1>7. Sums(c, s, S)
  BY <1>4, <1>6 DEF Sums, n
<1> QED  BY <1>7

\* The sequence that is put together is the last of the sums.
LEMMA FlattenSums ==
  ASSUME NEW S, NEW s, Pieces(s, S), NEW c, Sums(c, s, S)
  PROVE  FlattenSeq(s) = c[Len(s)]
<1> DEFINE n == Len(s)
           Is(f) == f = [i \in 1..n |->
                           IF i = 1 THEN s[i] ELSE f[i - 1] \o s[i]]
<1>1. n \in Nat /\ IsSeq(s) /\ (n = 0 <=> s = <<>>)
      /\ \A i \in 1..n : s[i] \in Seq(S)
  BY SeqLength DEF Pieces
<1>2. /\ c \in [0..n -> Seq(S)] /\ c[0] = <<>>
      /\ \A i \in 1..n : c[i] = c[i - 1] \o s[i]
  BY DEF Sums
<1>3. CASE n = 0
  <2>1. FlattenSeq(s) = s
    BY <1>3 DEF FlattenSeq
  <2> QED  BY <1>1, <1>2, <1>3, <2>1
<1>4. CASE n # 0
  <2>1. FlattenSeq(s) = (CHOOSE f : Is(f))[n]
    BY <1>4 DEF FlattenSeq
  <2> HIDE DEF n
  <2>2. 1 \in 1..n /\ c[1] = s[1]
    <3>1. 1 \in 1..n /\ 1 - 1 = 0
      BY <1>1, <1>4
    <3>2. c[1] = <<>> \o s[1] /\ s[1] \in Seq(S)
      BY <1>1, <1>2, <3>1
    <3> QED  BY <3>1, <3>2, ConcatEmptySeq
  <2> DEFINE d == [i \in 1..n |-> c[i]]
  <2>3. \A i \in 1..n : i # 1 => i - 1 \in 1..n
    BY <1>1
  <2>4. d = [i \in 1..n |-> IF i = 1 THEN s[i] ELSE d[i - 1] \o s[i]]
    BY <1>2, <2>2, <2>3
  <2> DEFINE g == CHOOSE f : Is(f)
  <2>5. Is(g)
    <3>1. Is(d)
      BY <2>4
    <3> HIDE DEF Is, d
    <3> QED  BY <3>1
  <2>6. g[1] = s[1] /\ \A i \in 1..n : i # 1 => g[i] = g[i - 1] \o s[i]
    <3> DEFINE e == [i \in 1..n |-> IF i = 1 THEN s[i] ELSE g[i - 1] \o s[i]]
    <3>1. g = e
      BY <2>5
    <3>2. e[1] = s[1] /\ \A i \in 1..n : i # 1 => e[i] = g[i - 1] \o s[i]
      BY <2>2
    <3> HIDE DEF e, g
    <3> QED  BY <3>1, <3>2
  <2> HIDE DEF g, Is
  <2> DEFINE T == {k \in 0..n : k = 0 \/ g[k] = c[k]}
  <2>7. 0 \in T
    BY <1>1
  <2>8. ASSUME NEW k \in 1..n, k - 1 \in T
        PROVE  k \in T
    <3>1. k \in 0..n
      BY <1>1
    <3>2. CASE k = 1
      BY <2>2, <2>6, <3>1, <3>2
    <3>3. CASE k # 1
      <4>1. g[k - 1] = c[k - 1]
        BY <2>8, <3>3
      <4>2. g[k] = c[k]
        BY <1>2, <2>6, <3>3, <4>1
      <4> QED  BY <3>1, <4>2
    <3> QED  BY <3>2, <3>3
  <2> HIDE DEF T
  <2>9. n \in T
    <3>1. 0..n \subseteq T
      BY <1>1, <2>7, <2>8, Steps
    <3> QED  BY <1>1, <3>1
  <2> QED  BY <1>4, <2>1, <2>9 DEF T, g, n
<1> QED  BY <1>3, <1>4

LEMMA FlattenTyped ==
  ASSUME NEW S, NEW s, Pieces(s, S)
  PROVE  FlattenSeq(s) \in Seq(S)
<1>1. PICK c : Sums(c, s, S)
  BY SumsExist
<1>2. Len(s) \in 0..Len(s)
  BY SeqLength DEF Pieces
<1>3. FlattenSeq(s) = c[Len(s)]
  BY <1>1, FlattenSums
<1>4. c \in [0..Len(s) -> Seq(S)]
  BY <1>1 DEF Sums
<1> QED  BY <1>2, <1>3, <1>4

LEMMA FlattenEmpty == FlattenSeq(<<>>) = <<>>
BY EmptySeq DEF FlattenSeq

LEMMA FlattenAppend ==
  ASSUME NEW S, NEW s, Pieces(s, S), NEW x \in Seq(S)
  PROVE  /\ Pieces(Append(s, x), S)
         /\ FlattenSeq(Append(s, x)) = FlattenSeq(s) \o x
<1> DEFINE n == Len(s)  t == Append(s, x)
<1>1. n \in Nat /\ IsSeq(s) /\ \A i \in 1..n : s[i] \in Seq(S)
  BY SeqLength DEF Pieces
<1>2. /\ IsSeq(t) /\ Len(t) = n + 1 /\ \A i \in 1..n : t[i] = s[i]
      /\ t[n + 1] = x
  BY <1>1, SeqAppend
<1> HIDE DEF n, t
<1>3. \A i \in 1..(n + 1) : i \in 1..n \/ i = n + 1
  BY <1>1
<1>4. Pieces(t, S)
  BY <1>1, <1>2, <1>3 DEF Pieces
<1>5. PICK c : Sums(c, t, S)
  BY <1>4, SumsExist
<1>6. /\ c \in [0..(n + 1) -> Seq(S)] /\ c[0] = <<>>
      /\ \A i \in 1..(n + 1) : c[i] = c[i - 1] \o t[i]
  BY <1>2, <1>5 DEF Sums
<1> DEFINE d == [i \in 0..n |-> c[i]]
<1>7. Sums(d, s, S)
  <2>1. /\ \A i \in 0..n : i \in 0..(n + 1)
        /\ \A i \in 1..n : i \in 0..n /\ i - 1 \in 0..n /\ i \in 1..(n + 1)
        /\ 0 \in 0..n
    BY <1>1
  <2>2. d \in [0..n -> Seq(S)] /\ d[0] = <<>>
    BY <1>6, <2>1
  <2>3. \A i \in 1..n : d[i] = d[i - 1] \o s[i]
    BY <1>2, <1>6, <2>1
  <2> HIDE DEF d
  <2> QED  BY <2>2, <2>3 DEF Sums, n
<1>8. FlattenSeq(s) = c[n]
  <2>1. n \in 0..n
    BY <1>1
  <2>2. FlattenSeq(s) = d[n]
    <3> HIDE DEF d
    <3> QED  BY <1>7, FlattenSums DEF n
  <2> QED  BY <2>1, <2>2
<1>9. FlattenSeq(t) = c[n + 1]
  BY <1>2, <1>4, <1>5, FlattenSums
<1>10. PICK m \in 1..(n + 1) : m = n + 1 /\ m - 1 = n
  BY <1>1
<1>11. c[n + 1] = c[n] \o x
  <2>1. c[m] = c[m - 1] \o t[m]
    BY <1>6
  <2> QED  BY <1>2, <1>10, <2>1
<1> QED  BY <1>4, <1>8, <1>9, <1>11 DEF t

\* Its length is the sum of theirs.
Lengths(d, s) ==
  /\ d \in [0..Len(s) -> Nat] /\ d[0] = 0
  /\ \A i \in 1..Len(s) : d[i] = d[i - 1] + Len(s[i])

LEMMA FlattenLength ==
  ASSUME NEW S, NEW s, Pieces(s, S), NEW d, Lengths(d, s)
  PROVE  Len(FlattenSeq(s)) = d[Len(s)]
<1> DEFINE n == Len(s)
<1>1. n \in Nat /\ \A i \in 1..n : s[i] \in Seq(S)
  BY SeqLength DEF Pieces
<1>2. PICK c : Sums(c, s, S)
  BY SumsExist
<1>3. /\ c \in [0..n -> Seq(S)] /\ c[0] = <<>>
      /\ \A i \in 1..n : c[i] = c[i - 1] \o s[i]
  BY <1>2 DEF Sums
<1>4. d[0] = 0 /\ \A i \in 1..n : d[i] = d[i - 1] + Len(s[i])
  BY DEF Lengths
<1> HIDE DEF n
<1> DEFINE T == {k \in 0..n : Len(c[k]) = d[k]}
<1>5. 0 \in T
  BY <1>1, <1>3, <1>4, EmptySeq
<1>6. ASSUME NEW k \in 1..n, k - 1 \in T
      PROVE  k \in T
  <2>1. k \in 0..n /\ k - 1 \in 0..n
    BY <1>1
  <2>2. c[k - 1] \in Seq(S) /\ s[k] \in Seq(S) /\ c[k] = c[k - 1] \o s[k]
    BY <1>1, <1>3, <2>1
  <2>3. Len(c[k]) = Len(c[k - 1]) + Len(s[k])
    BY <2>2, ConcatProperties
  <2> QED  BY <1>4, <1>6, <2>1, <2>3
<1> HIDE DEF T
<1>7. n \in T
  <2>1. 0..n \subseteq T
    BY <1>1, <1>5, <1>6, Steps
  <2> QED  BY <1>1, <2>1
<1>8. FlattenSeq(s) = c[n]
  BY <1>2, FlattenSums DEF n
<1> QED  BY <1>7, <1>8 DEF T, n

\* The events on the wire that belong to a call
Belonging(w, n) ==
  FlattenSeq([i \in DOMAIN w |-> IF w[i].n = n THEN <<w[i]>> ELSE <<>>])

LEMMA BelongingEmpty == \A n : Belonging(<<>>, n) = <<>>
<1> TAKE n
<1> DEFINE f == [i \in DOMAIN <<>> |-> IF <<>>[i].n = n THEN <<<<>>[i]>> ELSE <<>>]
<1>1. f = <<>>
  OBVIOUS
<1> HIDE DEF f
<1>2. FlattenSeq(f) = <<>>
  BY <1>1, FlattenEmpty
<1> QED  BY <1>2 DEF Belonging, f

LEMMA SeqSame ==
  ASSUME NEW s, IsSeq(s), NEW t, IsSeq(t), Len(s) = Len(t),
         \A i \in 1..Len(s) : s[i] = t[i]
  PROVE  s = t
<1>1. PICK S : s \in Seq(S)
  BY DEF IsSeq
<1>2. PICK T : t \in Seq(T)
  BY DEF IsSeq
<1>3. s \in Seq(S \cup T) /\ t \in Seq(S \cup T)
  BY <1>1, <1>2, SeqMonotonic
<1> QED  BY <1>3, SeqEqual

\* Any function on the first numbers is a sequence.
LEMMA FunctionSeq ==
  ASSUME NEW n \in Nat, NEW f, DOMAIN f = 1..n, f = [i \in 1..n |-> f[i]]
  PROVE  IsSeq(f) /\ Len(f) = n
<1> DEFINE S == {f[i] : i \in 1..n}
<1>1. f \in [1..n -> S]
  OBVIOUS
<1> HIDE DEF S
<1>2. f \in Seq(S) /\ Len(f) = n
  BY <1>1, FunctionIsSeq
<1> QED  BY <1>2 DEF IsSeq

\* One that goes on from another
LEMMA FunctionAppend ==
  ASSUME NEW f, IsSeq(f), NEW g, IsSeq(g), Len(g) = Len(f) + 1,
         \A i \in 1..Len(f) : g[i] = f[i]
  PROVE  g = Append(f, g[Len(g)])
<1> DEFINE n == Len(f)  e == g[Len(g)]  h == Append(f, e)
<1>1. /\ IsSeq(h) /\ Len(h) = n + 1 /\ \A i \in 1..n : h[i] = f[i]
      /\ h[n + 1] = e /\ n \in Nat
  BY SeqAppend, SeqLength
<1>2. e = g[n + 1]
  OBVIOUS
<1> HIDE DEF n, e, h
<1>3. \A i \in 1..(n + 1) : i \in 1..n \/ i = n + 1
  BY <1>1
<1>4. \A i \in 1..(n + 1) : g[i] = h[i]
  BY <1>1, <1>2, <1>3 DEF n
<1>5. g = h
  BY <1>1, <1>4, SeqSame DEF n
<1> QED  BY <1>5 DEF h, e

LEMMA BelongingAppend ==
  ASSUME NEW w, IsSeq(w), NEW n, NEW x
  PROVE  /\ IsSeq(Belonging(w, n))
         /\ Belonging(Append(w, x), n)
              = IF x.n = n THEN Append(Belonging(w, n), x)
                ELSE Belonging(w, n)
<1> DEFINE v == Append(w, x)  k == Len(w)
           S == {w[i] : i \in 1..k} \cup {x}
           f == [i \in DOMAIN w |-> IF w[i].n = n THEN <<w[i]>> ELSE <<>>]
           g == [i \in DOMAIN v |-> IF v[i].n = n THEN <<v[i]>> ELSE <<>>]
           last == IF x.n = n THEN <<x>> ELSE <<>>
<1>1. k \in Nat /\ DOMAIN w = 1..k
  BY SeqLength
<1>2. /\ IsSeq(v) /\ Len(v) = k + 1 /\ \A i \in 1..k : v[i] = w[i]
      /\ v[k + 1] = x /\ DOMAIN v = 1..(k + 1)
  <2>1. /\ IsSeq(v) /\ Len(v) = k + 1 /\ \A i \in 1..k : v[i] = w[i]
        /\ v[k + 1] = x
    BY SeqAppend
  <2> HIDE DEF v
  <2> QED  BY <2>1, SeqLength
<1> HIDE DEF v, k
<1>3. IsSeq(f) /\ Len(f) = k /\ IsSeq(g) /\ Len(g) = k + 1
  <2>1. DOMAIN f = 1..k /\ f = [i \in 1..k |-> f[i]]
    BY <1>1
  <2>2. DOMAIN g = 1..(k + 1) /\ g = [i \in 1..(k + 1) |-> g[i]]
    BY <1>2
  <2>3. k + 1 \in Nat
    BY <1>1
  <2> HIDE DEF f, g
  <2> QED  BY <1>1, <2>1, <2>2, <2>3, FunctionSeq
<1>4. /\ \A i \in 1..k : i \in 1..(k + 1) /\ g[i] = f[i]
      /\ k + 1 \in 1..(k + 1) /\ g[k + 1] = last
  <2>1. k + 1 \in 1..(k + 1) /\ \A i \in 1..k : i \in 1..(k + 1)
    BY <1>1
  <2> QED  BY <1>1, <1>2, <2>1
<1>5. \A y \in S : <<y>> \in Seq(S)
  OBVIOUS
<1>6. \A i \in 1..k : f[i] \in Seq(S)
  <2>1. \A i \in 1..k : w[i] \in S
    OBVIOUS
  <2> HIDE DEF S
  <2>2. <<>> \in Seq(S)
    BY EmptySeq
  <2> QED  BY <1>1, <1>5, <2>1, <2>2
<1>7. last \in Seq(S)
  <2>1. x \in S
    OBVIOUS
  <2> HIDE DEF S
  <2>2. <<>> \in Seq(S)
    BY EmptySeq
  <2> QED  BY <1>5, <2>1, <2>2
<1> HIDE DEF S, f, g, last
<1>8. g = Append(f, last)
  <2>1. g = Append(f, g[Len(g)])
    BY <1>3, <1>4, FunctionAppend
  <2> QED  BY <1>3, <1>4, <2>1
<1>9. Pieces(f, S)
  BY <1>3, <1>6 DEF Pieces
<1>10. FlattenSeq(f) \in Seq(S) /\ FlattenSeq(g) = FlattenSeq(f) \o last
  BY <1>7, <1>8, <1>9, FlattenTyped, FlattenAppend
<1>11. FlattenSeq(g) = IF x.n = n THEN Append(FlattenSeq(f), x)
                       ELSE FlattenSeq(f)
  <2> DEFINE b == FlattenSeq(f)
  <2>1. b \in Seq(S)
    BY <1>10
  <2>2. FlattenSeq(g) = b \o last
    BY <1>10
  <2> HIDE DEF b
  <2>3. CASE x.n = n
    <3>1. x \in S
      BY DEF S
    <3>2. b \o <<x>> = Append(b, x)
      BY <2>1, <3>1, AppendIsConcat
    <3> QED  BY <2>2, <2>3, <3>2 DEF b, last
  <2>4. CASE x.n # n
    BY <2>1, <2>2, <2>4, ConcatEmptySeq DEF b, last
  <2> QED  BY <2>3, <2>4
<1>12. IsSeq(FlattenSeq(f))
  BY <1>10 DEF IsSeq
<1> QED  BY <1>11, <1>12 DEF Belonging, f, g, v

-----------------------------------------------------------------------------
(* Chunks                                                                   *)

LEMMA Quotient ==
  ASSUME NEW a \in Nat, NEW p \in Nat \ {0}
  PROVE  /\ a \div p \in Nat /\ p * (a \div p) <= a
         /\ a < p * (a \div p) + p
<1>1. a % p \in Int /\ a \div p \in Int
  OBVIOUS
<1>2. 0 <= a % p /\ a % p < p
  OBVIOUS
<1>3. a = p * (a \div p) + (a % p)
  OBVIOUS
<1>4. a \div p \in Nat
  OBVIOUS
<1> QED  BY <1>1, <1>2, <1>3, <1>4

\* How far the first i chunks reach
Upto(n, m, i) == Least(i * m, n)

ChunkSteps(n, m, k) ==
  /\ k \in Nat /\ (k = 0 <=> n = 0)
  /\ Upto(n, m, 0) = 0 /\ Upto(n, m, k) = n
  /\ \A i \in 0..k : Upto(n, m, i) \in 0..n
  /\ \A i \in 1..k : /\ Upto(n, m, i - 1) = (i - 1) * m
                     /\ (i - 1) * m \in Nat /\ (i - 1) * m < n
                     /\ Upto(n, m, i - 1) <= Upto(n, m, i)
                     /\ Upto(n, m, i) = (i - 1) * m + Least(m, n - (i - 1) * m)

LEMMA ChunksStep ==
  ASSUME NEW n \in Nat, NEW m \in Nat \ {0}
  PROVE  ChunkSteps(n, m, Chunks(n, m))
<1> DEFINE k == Chunks(n, m)
<1>1. k \in Nat /\ m * k <= n + m - 1 /\ n + m - 1 < m * k + m
  <2>1. n + m - 1 \in Nat
    OBVIOUS
  <2> QED  BY <2>1, Quotient DEF Chunks
<1> HIDE DEF k
<1>2. n <= m * k /\ k * m = m * k
  BY <1>1
<1>3. k = 0 <=> n = 0
  <2>1. CASE k = 0
    <3>1. m * k = 0
      BY <2>1
    <3> QED  BY <1>2, <2>1, <3>1
  <2>2. CASE k # 0
    <3>1. m * k >= m
      BY <1>1, <2>2
    <3> QED  BY <1>1, <2>2, <3>1
  <2> QED  BY <2>1, <2>2
<1>4. ASSUME NEW i \in 1..k
      PROVE  /\ (i - 1) * m \in Nat /\ (i - 1) * m < n
             /\ i * m = (i - 1) * m + m
  <2>1. PICK j \in Nat : j = i - 1 /\ j + 1 = i /\ j < k
    BY <1>1
  <2>2. j * m \in Nat /\ (j + 1) * m = j * m + m
    BY <2>1
  <2>3. m * k >= j * m + m
    <3>1. PICK d \in Nat : k = j + 1 + d
      <4>1. k - j - 1 \in Nat /\ k = j + 1 + (k - j - 1)
        BY <1>1, <2>1
      <4> QED  BY <4>1
    <3>2. m * (j + 1 + d) = j * m + m + m * d /\ m * d \in Nat
      OBVIOUS
    <3> QED  BY <2>2, <3>1, <3>2
  <2>4. j * m < n
    <3>1. PICK x \in Nat, y \in Nat : x = j * m /\ y = m * k
      BY <1>1, <2>2
    <3> QED  BY <1>1, <2>3, <3>1
  <2> QED  BY <2>1, <2>2, <2>4
<1>5. \A i \in 0..k : i * m \in Nat
  BY <1>1
<1>6. Upto(n, m, 0) = 0 /\ Upto(n, m, k) = n
  <2>1. 0 * m = 0 /\ Least(0, n) = 0
    BY DEF Least
  <2>2. PICK x \in Nat : x = k * m /\ n <= x
    BY <1>1, <1>2
  <2>3. Least(x, n) = n
    BY <2>2 DEF Least
  <2> QED  BY <2>1, <2>2, <2>3 DEF Upto
<1>7. \A i \in 0..k : Upto(n, m, i) \in 0..n
  BY <1>5 DEF Upto, Least
<1>8. ASSUME NEW i \in 1..k
      PROVE  /\ Upto(n, m, i - 1) = (i - 1) * m
             /\ (i - 1) * m \in Nat /\ (i - 1) * m < n
             /\ Upto(n, m, i - 1) <= Upto(n, m, i)
             /\ Upto(n, m, i) = (i - 1) * m + Least(m, n - (i - 1) * m)
  <2>1. PICK x \in Nat : x = (i - 1) * m /\ x < n /\ i * m = x + m
    BY <1>4
  <2>2. /\ Least(x, n) = x /\ x <= Least(x + m, n)
        /\ Least(x + m, n) = x + Least(m, n - x)
    BY <2>1 DEF Least
  <2> QED  BY <2>1, <2>2 DEF Upto
<1> QED  BY <1>1, <1>3, <1>6, <1>7, <1>8 DEF ChunkSteps, k

\* What is written in chunks is written whole, whatever else is not written.
Writes(s, tx, l) ==
  LET k == Chunks(Len(tx), WriteMax)
  IN  /\ IsSeq(s) /\ Len(s) = k + l
      /\ \A i \in 1..k : s[i] = WriteChunk(tx, i)
      /\ \A i \in (k + 1)..(k + l) : s[i] = <<>>

LEMMA WriteChunkTyped ==
  ASSUME NEW tx \in Seq(Nat), NEW i \in 1..Chunks(Len(tx), WriteMax)
  PROVE  WriteChunk(tx, i) \in Seq(Nat)
<1> DEFINE n == Len(tx)  k == Chunks(n, WriteMax)
           a == Upto(n, WriteMax, i - 1)  b == Upto(n, WriteMax, i)
<1>1. n \in Nat /\ WriteMax \in Nat \ {0}
  BY BusParameters
<1>2. ChunkSteps(n, WriteMax, k)
  BY <1>1, ChunksStep
<1>3. i \in 1..k /\ i \in 0..k
  BY <1>2 DEF ChunkSteps
<1> HIDE DEF k
<1>4. a = (i - 1) * WriteMax /\ a \in Nat /\ b \in 0..n
  BY <1>2, <1>3 DEF ChunkSteps
<1>5. WriteChunk(tx, i) = SubSeq(tx, a + 1, b)
  BY <1>4 DEF WriteChunk, Upto
<1> HIDE DEF a, b
<1>6. a + 1 \in Int /\ b \in Int /\ \A j \in (a + 1)..b : j \in 1..n
  BY <1>1, <1>4
<1>7. \A j \in (a + 1)..b : tx[j] \in Nat
  BY <1>6, ElementOfSeq DEF n
<1> QED  BY <1>5, <1>6, <1>7, SubSeqProperties

LEMMA WritesJoin ==
  ASSUME NEW tx \in Seq(Nat), NEW l \in Nat, NEW s, Writes(s, tx, l)
  PROVE  FlattenSeq(s) = tx
<1> DEFINE n == Len(tx)  k == Chunks(n, WriteMax)
           U(i) == IF i <= k THEN Upto(n, WriteMax, i) ELSE n
           c == [i \in 0..(k + l) |-> SubSeq(tx, 1, U(i))]
<1>1. n \in Nat /\ WriteMax \in Nat \ {0}
  BY BusParameters
<1>2. ChunkSteps(n, WriteMax, k)
  BY <1>1, ChunksStep
<1>3. /\ IsSeq(s) /\ Len(s) = k + l
      /\ \A i \in 1..k : s[i] = WriteChunk(tx, i)
      /\ \A i \in (k + 1)..(k + l) : s[i] = <<>>
  BY DEF Writes
<1>4. \A i \in 1..k : WriteChunk(tx, i) \in Seq(Nat)
  BY WriteChunkTyped
<1>5. tx = SubSeq(tx, 1, n)
  BY SubSeqFull
<1> HIDE DEF k, n
<1>6. k \in Nat
  BY <1>2 DEF ChunkSteps
<1>7. /\ \A i \in 0..(k + l) : U(i) \in 0..n
      /\ U(0) = 0 /\ U(k + l) = n
  <2>1. Upto(n, WriteMax, 0) = 0 /\ Upto(n, WriteMax, k) = n
        /\ \A i \in 0..k : Upto(n, WriteMax, i) \in 0..n
    BY <1>2 DEF ChunkSteps
  <2>2. n \in 0..n /\ \A i \in 0..(k + l) : i <= k => i \in 0..k
    BY <1>1, <1>6
  <2>3. 0 <= k /\ (k + l <= k => k + l = k)
    BY <1>6
  <2> QED  BY <2>1, <2>2, <2>3
<1>8. \A i \in 1..(k + l) :
        \/ i \in 1..k /\ i \in 0..k /\ i <= k /\ i - 1 <= k
        \/ i \in (k + 1)..(k + l) /\ ~(i <= k) /\ (i - 1 <= k => i - 1 = k)
  BY <1>6
<1>9. Pieces(s, Nat)
  <2>1. <<>> \in Seq(Nat)
    OBVIOUS
  <2> QED  BY <1>3, <1>4, <1>8, <2>1 DEF Pieces
<1>10. \A x \in 0..n : SubSeq(tx, 1, x) \in Seq(Nat)
  <2> TAKE x \in 0..n
  <2>1. \A j \in 1..x : tx[j] \in Nat
    BY <1>1, ElementOfSeq DEF n
  <2> QED  BY <1>1, <2>1, SubSeqProperties
<1>11. SubSeq(tx, 1, 0) = <<>>
  BY SubSeqEmpty
<1>12. ASSUME NEW i \in 1..(k + l)
       PROVE  SubSeq(tx, 1, U(i)) = SubSeq(tx, 1, U(i - 1)) \o s[i]
  <2>1. CASE i \in 1..k
    <3> DEFINE a == Upto(n, WriteMax, i - 1)  b == Upto(n, WriteMax, i)
    <3>1. /\ a = (i - 1) * WriteMax /\ a \in Nat /\ a < n /\ a <= b
          /\ b \in 0..n
      BY <1>2, <1>6, <2>1 DEF ChunkSteps
    <3>2. s[i] = SubSeq(tx, a + 1, b)
      BY <1>3, <2>1, <3>1 DEF WriteChunk, Upto, n
    <3>3. U(i) = b /\ U(i - 1) = a
      BY <1>6, <2>1
    <3> HIDE DEF a, b, U
    <3>4. 1 \in 1..n + 1 /\ a \in 0..n /\ a \in 1 - 1..n /\ b \in a..n
      BY <1>1, <3>1
    <3>5. SubSeq(tx, 1, a) \o SubSeq(tx, a + 1, b) = SubSeq(tx, 1, b)
      BY <3>4, ConcatAdjacentSubSeq DEF n
    <3> QED  BY <3>2, <3>3, <3>5
  <2>2. CASE i \notin 1..k
    <3>1. U(i) = n /\ U(i - 1) = n /\ s[i] = <<>>
      BY <1>2, <1>3, <1>6, <1>8, <2>2 DEF ChunkSteps
    <3>2. tx \o <<>> = tx
      BY ConcatEmptySeq
    <3> HIDE DEF U
    <3> QED  BY <1>5, <3>1, <3>2
  <2> QED  BY <2>1, <2>2
<1>13. Sums(c, s, Nat)
  <2>1. /\ \A i \in 1..(k + l) : i \in 0..(k + l) /\ i - 1 \in 0..(k + l)
        /\ 0 \in 0..(k + l)
    BY <1>6
  <2>2. c \in [0..(k + l) -> Seq(Nat)] /\ c[0] = <<>>
    <3> HIDE DEF U
    <3> QED  BY <1>7, <1>10, <1>11, <2>1
  <2>3. \A i \in 1..(k + l) : c[i] = c[i - 1] \o s[i]
    <3> HIDE DEF U
    <3> QED  BY <1>12, <2>1
  <2> HIDE DEF c
  <2> QED  BY <1>3, <2>2, <2>3 DEF Sums
<1>14. FlattenSeq(s) = c[k + l]
  <2> HIDE DEF c
  <2> QED  BY <1>3, <1>9, <1>13, FlattenSums
<1>15. k + l \in 0..(k + l)
  BY <1>6
<1> HIDE DEF U
<1> QED  BY <1>5, <1>7, <1>14, <1>15

\* What is read in chunks adds up, whatever else reads nothing.
Reads(s, n, k, e) ==
  LET l == Chunks(n, ReadMax)
  IN  /\ Pieces(s, Nat) /\ Len(s) = k + l + e
      /\ \A i \in 1..Len(s) :
           Len(s[i]) = IF i \in (k + 1)..(k + l) THEN ReadSize(n, i - k) ELSE 0

LEMMA ReadsSum ==
  ASSUME NEW n \in Nat, NEW k \in Nat, NEW e \in Nat, NEW s, Reads(s, n, k, e)
  PROVE  Len(FlattenSeq(s)) = n
<1> DEFINE l == Chunks(n, ReadMax)  m == k + l + e
           D(i) == IF i <= k THEN 0
                   ELSE IF i <= k + l THEN Upto(n, ReadMax, i - k) ELSE n
           d == [i \in 0..m |-> D(i)]
<1>1. ReadMax \in Nat \ {0}
  BY BusParameters
<1>2. ChunkSteps(n, ReadMax, l)
  BY <1>1, ChunksStep
<1>3. /\ Pieces(s, Nat) /\ Len(s) = m
      /\ \A i \in 1..m :
           Len(s[i]) = IF i \in (k + 1)..(k + l) THEN ReadSize(n, i - k) ELSE 0
  BY DEF Reads
<1> HIDE DEF l
<1>4. /\ l \in Nat /\ (l = 0 => n = 0) /\ Upto(n, ReadMax, 0) = 0
      /\ Upto(n, ReadMax, l) = n
      /\ \A i \in 0..l : Upto(n, ReadMax, i) \in 0..n
  BY <1>2 DEF ChunkSteps
<1>5. m \in Nat /\ m = k + l + e
  BY <1>4
<1> HIDE DEF m
<1>6. \A i \in 0..m : D(i) \in Nat
  <2>1. \A i \in 0..m : ~(i <= k) /\ i <= k + l => i - k \in 0..l
    BY <1>4, <1>5
  <2> QED  BY <1>4, <2>1
<1>7. D(0) = 0 /\ D(m) = n
  <2>1. 0 <= k
    OBVIOUS
  <2>2. CASE m <= k
    <3>1. l = 0
      BY <1>4, <1>5, <2>2
    <3> QED  BY <1>4, <2>1, <2>2, <3>1
  <2>3. CASE ~(m <= k)
    <3>1. m <= k + l => m - k = l
      BY <1>4, <1>5
    <3> QED  BY <1>4, <2>1, <2>3, <3>1
  <2> QED  BY <2>2, <2>3
<1>8. ASSUME NEW i \in 1..m
      PROVE  D(i) = D(i - 1) + Len(s[i])
  <2>1. CASE i <= k
    <3>1. i - 1 <= k /\ i \notin (k + 1)..(k + l)
      BY <1>4, <1>5, <2>1
    <3> QED  BY <1>3, <2>1, <3>1
  <2>2. CASE i \in (k + 1)..(k + l)
    <3>1. PICK j \in 1..l : j = i - k /\ j - 1 = (i - 1) - k
      BY <1>4, <2>2
    <3>2. Upto(n, ReadMax, j) = Upto(n, ReadMax, j - 1) + ReadSize(n, j)
      BY <1>2, <3>1 DEF ChunkSteps, ReadSize
    <3>3. D(i) = Upto(n, ReadMax, j)
      BY <1>4, <2>2, <3>1
    <3>4. D(i - 1) = Upto(n, ReadMax, j - 1)
      <4>1. CASE i - 1 <= k
        <5>1. j - 1 = 0
          BY <2>2, <3>1, <4>1
        <5> QED  BY <1>4, <4>1, <5>1
      <4>2. CASE ~(i - 1 <= k)
        <5>1. i - 1 <= k + l
          BY <1>4, <2>2
        <5> QED  BY <3>1, <4>2, <5>1
      <4> QED  BY <4>1, <4>2
    <3>5. Len(s[i]) = ReadSize(n, j)
      BY <1>3, <2>2, <3>1
    <3> HIDE DEF D
    <3> QED  BY <3>2, <3>3, <3>4, <3>5
  <2>3. CASE i > k + l
    <3>1. ~(i <= k) /\ ~(i <= k + l) /\ i \notin (k + 1)..(k + l)
      BY <1>4, <1>5, <2>3
    <3>2. Len(s[i]) = 0 /\ D(i) = n
      BY <1>3, <3>1
    <3>3. D(i - 1) = n
      <4>1. CASE i - 1 <= k
        <5>1. l = 0
          BY <1>4, <2>3, <4>1
        <5> QED  BY <1>4, <4>1, <5>1
      <4>2. CASE ~(i - 1 <= k)
        <5>1. i - 1 <= k + l => i - 1 - k = l
          BY <1>4, <2>3
        <5> QED  BY <1>4, <4>2, <5>1
      <4> QED  BY <4>1, <4>2
    <3> HIDE DEF D
    <3> QED  BY <3>2, <3>3
  <2> QED  BY <1>4, <1>5, <2>1, <2>2, <2>3
<1>9. Lengths(d, s)
  <2>1. \A i \in 1..m : i \in 0..m /\ i - 1 \in 0..m
    BY <1>5
  <2>2. 0 \in 0..m
    BY <1>5
  <2> HIDE DEF D
  <2>3. d \in [0..m -> Nat] /\ d[0] = 0
    BY <1>6, <1>7, <2>2
  <2>4. \A i \in 1..m : d[i] = d[i - 1] + Len(s[i])
    BY <1>8, <2>1
  <2> HIDE DEF d
  <2> QED  BY <1>3, <2>3, <2>4 DEF Lengths
<1>10. Len(FlattenSeq(s)) = d[m]
  <2> HIDE DEF d
  <2> QED  BY <1>3, <1>9, FlattenLength
<1>11. m \in 0..m
  BY <1>5
<1> HIDE DEF D
<1> QED  BY <1>7, <1>10, <1>11

LEMMA FlattenOne ==
  ASSUME NEW s, IsSeq(s), Len(s) = 1, NEW S, s[1] \in Seq(S)
  PROVE  FlattenSeq(s) = s[1]
<1> DEFINE c == [i \in 0..1 |-> IF i = 0 THEN <<>> ELSE s[1]]
<1>1. \A i \in 1..1 : i = 1
  OBVIOUS
<1>2. Pieces(s, S)
  BY <1>1 DEF Pieces
<1>3. <<>> \o s[1] = s[1] /\ <<>> \in Seq(S)
  BY ConcatEmptySeq, EmptySeq
<1>4. c \in [0..1 -> Seq(S)] /\ c[0] = <<>> /\ c[1] = s[1]
  BY <1>3
<1> HIDE DEF c
<1>5. \A i \in 1..1 : c[i] = c[i - 1] \o s[i]
  <2>1. c[1] = c[0] \o s[1]
    BY <1>3, <1>4
  <2>2. 1 - 1 = 0
    OBVIOUS
  <2> QED  BY <1>1, <2>1, <2>2
<1>6. Sums(c, s, S)
  BY <1>4, <1>5 DEF Sums
<1> QED  BY <1>2, <1>4, <1>6, FlattenSums

-----------------------------------------------------------------------------
(* Plans and scripts                                                        *)

IsData(r, w, n, b, c) ==
  /\ DataRequest(r) /\ r.t = "data" /\ Bytes(r) = w
  /\ r.read = n /\ r.start = b /\ r.stop = c

LEMMA DataFields ==
  ASSUME NEW w \in Seq(Nat), NEW n \in Nat, NEW b \in BOOLEAN, NEW c \in BOOLEAN
  PROVE  IsData(Data(w, n, b, c), w, n, b, c)
<1> DEFINE r == Data(w, n, b, c)
<1>1. /\ r.t = "data" /\ r.frame = Encode(w)
      /\ r.read = n /\ r.start = b /\ r.stop = c
  BY DEF Data
<1>2. DataRequest(r)
  BY DEF DataRequest
<1> HIDE DEF r
<1>3. Bytes(r) = w
  BY <1>1, FramesDecode DEF Bytes
<1>4. IsData(r, w, n, b, c)
  BY <1>1, <1>2, <1>3 DEF IsData
<1> QED  BY <1>4 DEF r

LEMMA DataRequestFields ==
  ASSUME NEW r, DataRequest(r)
  PROVE  /\ r.t = "data" /\ Bytes(r) \in Seq(Nat) /\ r.read \in Nat
         /\ "shows" \notin DOMAIN r
<1>1. PICK w \in Seq(Nat), n \in Nat, b \in BOOLEAN, c \in BOOLEAN :
        r = Data(w, n, b, c)
  BY DEF DataRequest
<1>2. IsData(r, w, n, b, c)
  BY <1>1, DataFields
<1>3. "shows" \notin DOMAIN r
  BY <1>1 DEF Data
<1> QED  BY <1>2, <1>3 DEF IsData

\* A plan is of transfers only, what comes before it of other requests only.
PlanSound(plan) ==
  IsSeq(plan) /\ \A i \in 1..Len(plan) : DataRequest(plan[i])

BeforeTransfers(pre) ==
  IsSeq(pre) /\ pre # <<>> /\ \A i \in 1..Len(pre) : pre[i].t # "data"

LEMMA ConcatPlans ==
  ASSUME NEW s, PlanSound(s), NEW t, PlanSound(t)
  PROVE  /\ PlanSound(s \o t) /\ Len(s \o t) = Len(s) + Len(t)
         /\ Len(s) \in Nat /\ Len(t) \in Nat
         /\ \A i \in 1..Len(s) : (s \o t)[i] = s[i]
         /\ \A i \in 1..Len(t) : (s \o t)[Len(s) + i] = t[i]
<1> DEFINE u == s \o t
<1>1. /\ IsSeq(u) /\ Len(u) = Len(s) + Len(t)
      /\ \A i \in 1..(Len(s) + Len(t)) :
           u[i] = IF i <= Len(s) THEN s[i] ELSE t[i - Len(s)]
  BY SeqConcat DEF PlanSound
<1>2. Len(s) \in Nat /\ Len(t) \in Nat
  BY SeqLength DEF PlanSound
<1> HIDE DEF u
<1>3. \A i \in 1..Len(s) : u[i] = s[i]
  BY <1>1, <1>2
<1>4. \A i \in 1..Len(t) : u[Len(s) + i] = t[i]
  <2> TAKE i \in 1..Len(t)
  <2>1. PICK j \in 1..(Len(s) + Len(t)) :
          j = Len(s) + i /\ ~(j <= Len(s)) /\ j - Len(s) = i
    BY <1>2
  <2> QED  BY <1>1, <2>1
<1>5. \A i \in 1..Len(u) :
        i \in 1..Len(s) \/ \E j \in 1..Len(t) : i = Len(s) + j
  <2> TAKE i \in 1..Len(u)
  <2>1. CASE ~(i \in 1..Len(s))
    <3>1. i - Len(s) \in 1..Len(t) /\ i = Len(s) + (i - Len(s))
      BY <1>1, <1>2, <2>1
    <3> QED  BY <3>1
  <2> QED  BY <2>1
<1>6. PlanSound(u)
  BY <1>1, <1>3, <1>4, <1>5 DEF PlanSound
<1> QED  BY <1>1, <1>2, <1>3, <1>4, <1>6 DEF u

\* The transfers of writes and of reads
WritesPlanned(w, tx, starts) ==
  /\ IsSeq(w) /\ Len(w) = Chunks(Len(tx), WriteMax)
  /\ \A i \in 1..Len(w) :
       IsData(w[i], WriteChunk(tx, i), 0, starts /\ i = 1, FALSE)

ReadsPlanned(r, n, starts, stops) ==
  /\ IsSeq(r) /\ Len(r) = Chunks(n, ReadMax)
  /\ \A i \in 1..Len(r) :
       IsData(r[i], <<>>, ReadSize(n, i), starts /\ i = 1, stops /\ i = Len(r))

LEMMA WritesArePlanned ==
  ASSUME NEW tx \in Seq(Nat), NEW starts \in BOOLEAN
  PROVE  WritesPlanned(WriteRequests(tx, starts), tx, starts)
<1> DEFINE w == WriteRequests(tx, starts)  k == Chunks(Len(tx), WriteMax)
<1>1. k \in Nat
  BY ChunksNatural, BusParameters
<1>2. ASSUME NEW i \in 1..k
      PROVE  LET r == Data(WriteChunk(tx, i), 0, starts /\ i = 1, FALSE)
             IN  IsData(r, WriteChunk(tx, i), 0, starts /\ i = 1, FALSE)
  <2>1. PICK x \in Seq(Nat) : x = WriteChunk(tx, i)
    BY WriteChunkTyped
  <2>2. PICK b \in BOOLEAN : b = (starts /\ i = 1)
    OBVIOUS
  <2>3. IsData(Data(x, 0, b, FALSE), x, 0, b, FALSE)
    BY DataFields
  <2> QED  BY <2>1, <2>2, <2>3
<1>3. DOMAIN w = 1..k /\ w = [i \in 1..k |-> w[i]]
      /\ \A i \in 1..k :
           w[i] = Data(WriteChunk(tx, i), 0, starts /\ i = 1, FALSE)
  BY DEF WriteRequests
<1> HIDE DEF w, k
<1>4. IsSeq(w) /\ Len(w) = k
  BY <1>1, <1>3, FunctionSeq
<1>5. ASSUME NEW i \in 1..Len(w)
      PROVE  IsData(w[i], WriteChunk(tx, i), 0, starts /\ i = 1, FALSE)
  BY <1>2, <1>3, <1>4
<1>6. WritesPlanned(w, tx, starts)
  BY <1>4, <1>5 DEF WritesPlanned, k
<1> QED  BY <1>6 DEF w

LEMMA ReadsArePlanned ==
  ASSUME NEW n \in Nat, NEW starts \in BOOLEAN, NEW stops \in BOOLEAN
  PROVE  ReadsPlanned(ReadRequests(n, starts, stops), n, starts, stops)
<1> DEFINE w == ReadRequests(n, starts, stops)  l == Chunks(n, ReadMax)
<1>1. l \in Nat /\ ChunkSteps(n, ReadMax, l)
  BY ChunksNatural, ChunksStep, BusParameters
<1>2. ASSUME NEW i \in 1..l
      PROVE  LET r == Data(<<>>, ReadSize(n, i), starts /\ i = 1, stops /\ i = l)
             IN  IsData(r, <<>>, ReadSize(n, i), starts /\ i = 1, stops /\ i = l)
  <2> HIDE DEF l
  <2>1. PICK x \in Nat : x = ReadSize(n, i)
    <3>1. PICK y \in Nat : y = (i - 1) * ReadMax /\ y < n
      BY <1>1 DEF ChunkSteps
    <3> QED  BY <3>1, BusParameters DEF ReadSize, Least
  <2>2. PICK b \in BOOLEAN, c \in BOOLEAN :
          b = (starts /\ i = 1) /\ c = (stops /\ i = l)
    OBVIOUS
  <2>3. <<>> \in Seq(Nat)
    OBVIOUS
  <2>4. IsData(Data(<<>>, x, b, c), <<>>, x, b, c)
    BY <2>3, DataFields
  <2> QED  BY <2>1, <2>2, <2>4
<1>3. DOMAIN w = 1..l /\ w = [i \in 1..l |-> w[i]]
      /\ \A i \in 1..l :
           w[i] = Data(<<>>, ReadSize(n, i), starts /\ i = 1, stops /\ i = l)
  BY DEF ReadRequests
<1> HIDE DEF w, l
<1>4. IsSeq(w) /\ Len(w) = l
  BY <1>1, <1>3, FunctionSeq
<1>5. ASSUME NEW i \in 1..Len(w)
      PROVE  IsData(w[i], <<>>, ReadSize(n, i), starts /\ i = 1,
                    stops /\ i = Len(w))
  BY <1>2, <1>3, <1>4
<1>6. ReadsPlanned(w, n, starts, stops)
  BY <1>4, <1>5 DEF ReadsPlanned, l
<1> QED  BY <1>6 DEF w

SpiRead(tx, n, i) ==
  LET k == Chunks(Len(tx), WriteMax)
  IN  IF i \in (k + 1)..(k + Chunks(n, ReadMax)) THEN ReadSize(n, i - k) ELSE 0

SpiWrite(tx, i) ==
  IF i <= Chunks(Len(tx), WriteMax) THEN WriteChunk(tx, i) ELSE <<>>

\* The transfers of an SPI operation: writes, reads, and, if the last of them
\* is a write, one that ends the transaction.
SpiPlanned(p, tx, n, e) ==
  /\ IsSeq(p) /\ e \in {0, 1}
  /\ Len(p) = Chunks(Len(tx), WriteMax) + Chunks(n, ReadMax) + e
  /\ \A i \in 1..Len(p) :
       IsData(p[i], SpiWrite(tx, i), SpiRead(tx, n, i), i = 1, i = Len(p))

LEMMA SpiIsPlanned ==
  ASSUME NEW tx \in Seq(Nat), NEW n \in Nat
  PROVE  \E e : SpiPlanned(SpiTransfer(tx, n), tx, n, e)
<1> DEFINE k == Chunks(Len(tx), WriteMax)  l == Chunks(n, ReadMax)
           w == WriteRequests(tx, TRUE)
           r == ReadRequests(n, tx = <<>>, TRUE)
           stops == n = 0 /\ tx # <<>>
           z == IF stops THEN <<Data(<<>>, 0, FALSE, TRUE)>> ELSE <<>>
           e == IF stops THEN 1 ELSE 0
           wr == w \o r
           p == wr \o z
<1>1. /\ Len(tx) \in Nat /\ (Len(tx) = 0 <=> tx = <<>>)
      /\ WriteMax \in Nat \ {0} /\ ReadMax \in Nat \ {0}
  BY EmptySeq, BusParameters
<1>2. /\ k \in Nat /\ (k = 0 <=> tx = <<>>)
      /\ l \in Nat /\ (l = 0 <=> n = 0)
  <2>1. ChunkSteps(Len(tx), WriteMax, k) /\ ChunkSteps(n, ReadMax, l)
    BY <1>1, ChunksStep
  <2> QED  BY <1>1, <2>1 DEF ChunkSteps
<1>3. /\ IsSeq(w) /\ Len(w) = k
      /\ \A i \in 1..k : IsData(w[i], WriteChunk(tx, i), 0, TRUE /\ i = 1, FALSE)
  <2>1. WritesPlanned(w, tx, TRUE)
    BY WritesArePlanned
  <2> QED  BY <2>1 DEF WritesPlanned
<1>4. /\ IsSeq(r) /\ Len(r) = l
      /\ \A i \in 1..l :
           IsData(r[i], <<>>, ReadSize(n, i), tx = <<>> /\ i = 1, TRUE /\ i = l)
  <2>1. PICK b \in BOOLEAN : b = (tx = <<>>)
    OBVIOUS
  <2>2. ReadsPlanned(ReadRequests(n, b, TRUE), n, b, TRUE)
    BY ReadsArePlanned
  <2>3. IsSeq(r) /\ Len(r) = l /\ \A i \in 1..Len(r) :
          IsData(r[i], <<>>, ReadSize(n, i), b /\ i = 1, TRUE /\ i = Len(r))
    BY <2>1, <2>2 DEF ReadsPlanned
  <2> HIDE DEF r, l
  <2> QED  BY <2>1, <2>3
<1>5. IsSeq(z) /\ Len(z) = e
      /\ (stops => IsData(z[1], <<>>, 0, FALSE, TRUE))
  <2>1. IsData(Data(<<>>, 0, FALSE, TRUE), <<>>, 0, FALSE, TRUE)
    <3>1. <<>> \in Seq(Nat) /\ 0 \in Nat /\ FALSE \in BOOLEAN /\ TRUE \in BOOLEAN
      OBVIOUS
    <3> QED  BY <3>1, DataFields
  <2> DEFINE d == Data(<<>>, 0, FALSE, TRUE)
  <2>2. <<d>> \in Seq({d}) /\ Len(<<d>>) = 1 /\ <<d>>[1] = d
    OBVIOUS
  <2>3. IsSeq(<<>>) /\ Len(<<>>) = 0
    BY EmptySeq DEF IsSeq
  <2>4. IsData(d, <<>>, 0, FALSE, TRUE)
    BY <2>1
  <2>5. z = IF stops THEN <<d>> ELSE <<>>
    OBVIOUS
  <2> HIDE DEF d, stops, z
  <2>6. CASE stops
    <3>1. z = <<d>> /\ e = 1 /\ IsSeq(<<d>>)
      BY <2>2, <2>5, <2>6 DEF IsSeq
    <3> QED  BY <2>2, <2>4, <3>1
  <2>7. CASE ~stops
    <3>1. z = <<>> /\ e = 0
      BY <2>5, <2>7
    <3> HIDE DEF e
    <3> QED  BY <2>3, <2>7, <3>1
  <2> QED  BY <2>6, <2>7
<1>6. SpiTransfer(tx, n) = p
  BY DEF SpiTransfer
<1>7. e \in {0, 1} /\ (e = 1 <=> stops)
  OBVIOUS
<1> HIDE DEF w, r, z, e, k, l
<1>8. /\ IsSeq(wr) /\ Len(wr) = k + l
      /\ \A i \in 1..(k + l) : wr[i] = IF i <= k THEN w[i] ELSE r[i - k]
  BY <1>3, <1>4, SeqConcat
<1> HIDE DEF wr
<1>9. /\ IsSeq(p) /\ Len(p) = k + l + e
      /\ \A i \in 1..(k + l + e) :
           p[i] = IF i <= k + l THEN wr[i] ELSE z[i - (k + l)]
  <2>1. /\ IsSeq(p) /\ Len(p) = Len(wr) + Len(z)
        /\ \A i \in 1..(Len(wr) + Len(z)) :
             p[i] = IF i <= Len(wr) THEN wr[i] ELSE z[i - Len(wr)]
    BY <1>5, <1>8, SeqConcat
  <2> HIDE DEF p
  <2> QED  BY <1>5, <1>8, <2>1
<1> HIDE DEF p
<1>10. ASSUME NEW i \in 1..Len(p)
       PROVE  IsData(p[i], SpiWrite(tx, i), SpiRead(tx, n, i), i = 1, i = Len(p))
  <2>1. CASE i <= k
    <3>1. i \in 1..k /\ i \in 1..(k + l) /\ i <= k + l /\ i \in 1..(k + l + e)
      BY <1>2, <1>7, <2>1
    <3>2. p[i] = w[i]
      BY <1>8, <1>9, <2>1, <3>1
    <3>3. k # 0 /\ k + l + e # i
      BY <1>2, <1>7, <3>1
    <3>4. SpiWrite(tx, i) = WriteChunk(tx, i) /\ SpiRead(tx, n, i) = 0
      BY <1>2, <3>1 DEF SpiWrite, SpiRead, k, l
    <3>5. IsData(w[i], WriteChunk(tx, i), 0, TRUE /\ i = 1, FALSE)
      BY <1>3, <3>1
    <3>6. FALSE = (i = Len(p))
      BY <1>9, <3>3
    <3> QED  BY <3>2, <3>4, <3>5, <3>6
  <2>2. CASE i > k /\ i <= k + l
    <3>1. /\ i - k \in 1..l /\ i \in 1..(k + l) /\ i \in 1..(k + l + e)
          /\ ~(i <= k) /\ i \in (k + 1)..(k + l)
      BY <1>2, <1>7, <2>2
    <3>2. p[i] = r[i - k]
      BY <1>8, <1>9, <2>2, <3>1
    <3>3. l # 0 /\ e = 0
      BY <1>2, <1>7, <3>1
    <3>4. SpiWrite(tx, i) = <<>> /\ SpiRead(tx, n, i) = ReadSize(n, i - k)
      BY <3>1 DEF SpiWrite, SpiRead, k, l
    <3>5. IsData(r[i - k], <<>>, ReadSize(n, i - k), tx = <<>> /\ i - k = 1,
                 TRUE /\ i - k = l)
      BY <1>4, <3>1
    <3>6. (tx = <<>> /\ i - k = 1) = (i = 1)
      <4>1. (k = 0 /\ i - k = 1) <=> (i = 1)
        BY <1>2, <3>1
      <4> QED  BY <1>2, <4>1
    <3>7. (TRUE /\ i - k = l) = (i = Len(p))
      BY <1>2, <1>9, <3>1, <3>3
    <3> QED  BY <3>2, <3>4, <3>5, <3>6, <3>7
  <2>3. CASE i > k + l
    <3>1. e = 1 /\ i = k + l + 1 /\ i \in 1..(k + l + e) /\ l = 0
          /\ i - (k + l) = 1 /\ stops /\ k # 0 /\ ~(i <= k + l) /\ ~(i <= k)
          /\ i \notin (k + 1)..(k + l)
      BY <1>2, <1>7, <1>9, <2>3
    <3>2. p[i] = z[1]
      BY <1>9, <3>1
    <3>3. SpiWrite(tx, i) = <<>> /\ SpiRead(tx, n, i) = 0
      BY <3>1 DEF SpiWrite, SpiRead, k, l
    <3>4. FALSE = (i = 1) /\ TRUE = (i = Len(p))
      BY <1>2, <1>9, <3>1
    <3> QED  BY <1>5, <3>1, <3>2, <3>3, <3>4
  <2>4. k \in Nat /\ l \in Nat /\ i \in Nat
    BY <1>2, <1>7, <1>9
  <2> QED  BY <2>1, <2>2, <2>3, <2>4
<1>11. SpiPlanned(p, tx, n, e)
  BY <1>7, <1>9, <1>10 DEF SpiPlanned, k, l
<1> QED  BY <1>6, <1>11

\* Two probes of each address
ProbesPlanned(p) ==
  /\ IsSeq(p) /\ Len(p) = 2 * Addresses
  /\ \A i \in 1..Len(p) :
       LET a == ProbedAddress(i)
       IN  IsData(p[i], <<IF i % 2 = 1 THEN WriteAddress(a) ELSE ReadAddress(a)>>,
                  IF i % 2 = 1 THEN 0 ELSE 1, TRUE, TRUE)

LEMMA ProbesArePlanned == ProbesPlanned(ScanProbes)
<1> DEFINE m == 2 * Addresses  p == ScanProbes
<1>1. m \in Nat
  BY BusParameters
<1>2. DOMAIN p = 1..m /\ p = [i \in 1..m |-> p[i]]
      /\ \A i \in 1..m :
           p[i] = LET a == ProbedAddress(i)
                  IN  IF i % 2 = 1 THEN Data(<<WriteAddress(a)>>, 0, TRUE, TRUE)
                      ELSE Data(<<ReadAddress(a)>>, 1, TRUE, TRUE)
  BY DEF ScanProbes, ProbedAddress
<1> HIDE DEF p, m
<1>3. IsSeq(p) /\ Len(p) = m
  BY <1>1, <1>2, FunctionSeq
<1>4. ASSUME NEW i \in 1..m
      PROVE  LET a == ProbedAddress(i)
             IN  IsData(p[i], <<IF i % 2 = 1 THEN WriteAddress(a) ELSE ReadAddress(a)>>,
                        IF i % 2 = 1 THEN 0 ELSE 1, TRUE, TRUE)
  <2> DEFINE a == ProbedAddress(i)
  <2>1. a \in Nat
    <3>1. i + 1 \in Nat
      BY <1>1
    <3> QED  BY <3>1, Quotient DEF ProbedAddress
  <2> HIDE DEF a
  <2>2. <<WriteAddress(a)>> \in Seq(Nat) /\ <<ReadAddress(a)>> \in Seq(Nat)
    BY <2>1 DEF WriteAddress, ReadAddress
  <2>3. CASE i % 2 = 1
    <3>1. p[i] = Data(<<WriteAddress(a)>>, 0, TRUE, TRUE)
      BY <1>2, <2>3 DEF a
    <3>2. IsData(p[i], <<WriteAddress(a)>>, 0, TRUE, TRUE)
      BY <2>2, <3>1, DataFields
    <3> QED  BY <2>3, <3>2 DEF a
  <2>4. CASE i % 2 # 1
    <3>1. p[i] = Data(<<ReadAddress(a)>>, 1, TRUE, TRUE)
      BY <1>2, <2>4 DEF a
    <3>2. IsData(p[i], <<ReadAddress(a)>>, 1, TRUE, TRUE)
      BY <2>2, <3>1, DataFields
    <3> QED  BY <2>4, <3>2 DEF a
  <2> QED  BY <2>3, <2>4
<1> QED  BY <1>3, <1>4 DEF ProbesPlanned, p, m

LEMMA PlansSound ==
  ASSUME NEW op \in PirateOperation
  PROVE  PlanSound(PlanOf(op))
<1>1. CASE op.k \in {"status", "set"}
  <2>1. IsSeq(<<>>) /\ Len(<<>>) = 0
    BY EmptySeq DEF IsSeq
  <2> QED  BY <1>1, <2>1 DEF PlanOf, PlanSound
<1>2. CASE op.k = "spi"
  <2>1. op.tx \in Seq(Nat) /\ op.rx \in Nat
    BY <1>2 DEF PirateOperation, RelayOperation
  <2>2. PlanOf(op) = SpiTransfer(op.tx, op.rx)
    BY <1>2 DEF PlanOf, Transfers
  <2>3. PICK e : SpiPlanned(SpiTransfer(op.tx, op.rx), op.tx, op.rx, e)
    BY <2>1, SpiIsPlanned
  <2> QED  BY <2>2, <2>3 DEF SpiPlanned, PlanSound, IsData
<1>3. CASE op.k = "i2c"
  <2>1. op.tx \in Seq(Nat) /\ op.rx \in Nat /\ op.address \in Nat
    BY <1>3 DEF PirateOperation, RelayOperation
  <2> DEFINE x == <<WriteAddress(op.address)>> \o op.tx
             d == Data(x, op.rx, TRUE, TRUE)
  <2>2. x \in Seq(Nat)
    <3>1. <<WriteAddress(op.address)>> \in Seq(Nat)
      BY <2>1 DEF WriteAddress
    <3> QED  BY <2>1, <3>1, ConcatProperties
  <2>3. PlanOf(op) = <<d>>
    BY <1>3 DEF PlanOf, Transfers, I2cTransfer
  <2> HIDE DEF x
  <2>4. IsData(d, x, op.rx, TRUE, TRUE)
    BY <2>1, <2>2, DataFields
  <2> HIDE DEF d
  <2>5. <<d>> \in Seq({d}) /\ Len(<<d>>) = 1 /\ <<d>>[1] = d
    OBVIOUS
  <2>6. DataRequest(d) /\ IsSeq(<<d>>)
    BY <2>4, <2>5 DEF IsData, IsSeq
  <2>7. \A i \in 1..1 : i = 1
    OBVIOUS
  <2> DEFINE f == <<d>>
  <2>8. Len(f) = 1 /\ f[1] = d /\ IsSeq(f) /\ PlanOf(op) = f
    BY <2>3, <2>5, <2>6
  <2> HIDE DEF f
  <2> QED  BY <2>6, <2>7, <2>8 DEF PlanSound
<1>4. CASE op.k = "scan"
  <2>1. PlanOf(op) = ScanProbes
    BY <1>4 DEF PlanOf, Transfers
  <2> QED  BY <2>1, ProbesArePlanned DEF ProbesPlanned, PlanSound, IsData
<1>5. CASE op.k = "transmit"
  <2>1. op.tx \in Seq(Nat)
    BY <1>5 DEF PirateOperation, RelayOperation
  <2>2. PlanOf(op) = WriteRequests(op.tx, FALSE)
    BY <1>5 DEF PlanOf, Transfers
  <2>3. WritesPlanned(PlanOf(op), op.tx, FALSE)
    BY <2>1, <2>2, WritesArePlanned
  <2> QED  BY <2>3 DEF WritesPlanned, PlanSound, IsData
<1>6. CASE op.k = "capture"
  <2>1. op.rx \in Nat
    BY <1>6 DEF PirateOperation, RelayOperation
  <2>2. PlanOf(op) = ReadRequests(op.rx, FALSE, FALSE)
    BY <1>6 DEF PlanOf, Transfers
  <2>3. ReadsPlanned(PlanOf(op), op.rx, FALSE, FALSE)
    BY <2>1, <2>2, ReadsArePlanned
  <2> QED  BY <2>3 DEF ReadsPlanned, PlanSound, IsData
<1>7. op.k \in {"status", "set", "spi", "i2c", "scan", "transmit", "capture"}
  BY DEF PirateOperation, RelayOperation
<1> QED  BY <1>1, <1>2, <1>3, <1>4, <1>5, <1>6, <1>7

NoTransfers(t) == IsSeq(t) /\ \A i \in 1..Len(t) : t[i].t # "data"

LEMMA ConcatBefore ==
  ASSUME NEW s, BeforeTransfers(s), NEW t, NoTransfers(t)
  PROVE  /\ BeforeTransfers(s \o t) /\ Len(s \o t) = Len(s) + Len(t)
         /\ t # <<>> => (s \o t)[Len(s \o t)] = t[Len(t)]
<1> DEFINE u == s \o t
<1>1. /\ IsSeq(u) /\ Len(u) = Len(s) + Len(t)
      /\ \A i \in 1..(Len(s) + Len(t)) :
           u[i] = IF i <= Len(s) THEN s[i] ELSE t[i - Len(s)]
  BY SeqConcat DEF BeforeTransfers, NoTransfers
<1>2. /\ Len(s) \in Nat \ {0} /\ Len(t) \in Nat /\ (t = <<>> <=> Len(t) = 0)
  BY SeqLength DEF BeforeTransfers, NoTransfers
<1> HIDE DEF u
<1>3. u # <<>>
  BY <1>1, <1>2, SeqLength
<1>4. ASSUME NEW i \in 1..Len(u)
      PROVE  u[i].t # "data"
  <2>1. CASE i <= Len(s)
    BY <1>1, <1>2, <2>1 DEF BeforeTransfers
  <2>2. CASE i > Len(s)
    <3>1. i - Len(s) \in 1..Len(t)
      BY <1>1, <1>2, <2>2
    <3>2. u[i] = t[i - Len(s)]
      BY <1>1, <1>2, <2>2
    <3> QED  BY <3>1, <3>2 DEF NoTransfers
  <2> QED  BY <1>1, <1>2, <2>1, <2>2
<1>5. t # <<>> => u[Len(u)] = t[Len(t)]
  <2> SUFFICES ASSUME t # <<>> PROVE u[Len(u)] = t[Len(t)]
    OBVIOUS
  <2>1. PICK i \in 1..(Len(s) + Len(t)) :
          i = Len(u) /\ ~(i <= Len(s)) /\ i - Len(s) = Len(t)
    BY <1>1, <1>2
  <2> QED  BY <1>1, <2>1
<1> QED  BY <1>1, <1>3, <1>4, <1>5 DEF BeforeTransfers, u

\* A script is what comes before the transfers, and the transfers: those of the
\* plan, if the call carries it out.
Parts(s, pre, plan, op, reconciles) ==
  /\ s = pre \o plan /\ BeforeTransfers(pre) /\ PlanSound(plan)
  /\ ~reconciles => plan = PlanOf(op)
  /\ op.k = "scan" /\ ~reconciles => pre[Len(pre)] = ShowsI2c
  /\ op.k = "set" => /\ plan = <<>>
                     /\ pre[Len(pre)].t \in {"status", "relays"}

LEMMA IdentifyBefore == BeforeTransfers(Identify)
<1>1. /\ Identify \in Seq(Observations) /\ Len(Identify) = 2
      /\ Identify[1].t # "data" /\ Identify[2].t # "data"
  <2>1. 0 \in Nat
    OBVIOUS
  <2> QED  BY <2>1, PiecesObserve
<1>2. IsSeq(Identify)
  BY <1>1 DEF IsSeq
<1>3. Identify # <<>>
  BY <1>1, <1>2, SeqLength
<1>4. \A i \in 1..2 : i = 1 \/ i = 2
  OBVIOUS
<1> QED  BY <1>1, <1>2, <1>3, <1>4 DEF BeforeTransfers

LEMMA EnsureBefore ==
  ASSUME NEW m
  PROVE  /\ NoTransfers(EnsureMode(m)) /\ EnsureMode(m) # <<>>
         /\ Len(EnsureMode(m)) = 2
         /\ EnsureMode(m)[2] = [t |-> "status", shows |-> m]
<1> DEFINE a == ConfigureMode(m)  b == [t |-> "status", shows |-> m]
           e == <<a, b>>
<1>1. a.t # "data" /\ b.t # "data"
  BY DEF ConfigureMode
<1>2. EnsureMode(m) = e
  BY DEF EnsureMode
<1> HIDE DEF a, b
<1>3. e \in Seq({a, b}) /\ Len(e) = 2 /\ e[1] = a /\ e[2] = b
  OBVIOUS
<1> HIDE DEF e
<1>4. IsSeq(e)
  BY <1>3 DEF IsSeq
<1>5. e # <<>>
  BY <1>3, <1>4, SeqLength
<1>6. \A i \in 1..2 : i = 1 \/ i = 2
  OBVIOUS
<1>7. NoTransfers(e)
  BY <1>1, <1>3, <1>4, <1>6 DEF NoTransfers
<1>8. e[2] = [t |-> "status", shows |-> m]
  BY <1>3 DEF b
<1> QED  BY <1>2, <1>3, <1>5, <1>7, <1>8

LEMMA OneBefore ==
  ASSUME NEW r, r.t # "data"
  PROVE  /\ NoTransfers(<<r>>) /\ BeforeTransfers(<<r>>) /\ Len(<<r>>) = 1
         /\ <<r>>[1] = r
<1> DEFINE e == <<r>>
<1>1. e \in Seq({r}) /\ Len(e) = 1 /\ e[1] = r
  OBVIOUS
<1> HIDE DEF e
<1>2. IsSeq(e)
  BY <1>1 DEF IsSeq
<1>3. e # <<>>
  BY <1>1, <1>2, SeqLength
<1>4. \A i \in 1..1 : i = 1
  OBVIOUS
<1>5. NoTransfers(e) /\ BeforeTransfers(e)
  BY <1>1, <1>2, <1>3, <1>4 DEF NoTransfers, BeforeTransfers
<1> QED  BY <1>1, <1>5 DEF e

LEMMA NothingPlanned ==
  ASSUME NEW pre, BeforeTransfers(pre)
  PROVE  /\ PlanSound(<<>>) /\ NoTransfers(<<>>) /\ pre \o <<>> = pre
<1>1. PICK S : pre \in Seq(S)
  BY DEF BeforeTransfers, IsSeq
<1>2. IsSeq(<<>>) /\ 1..Len(<<>>) = {}
  BY EmptySeq DEF IsSeq
<1> QED  BY <1>1, <1>2, ConcatEmptySeq DEF PlanSound, NoTransfers

LEMMA ScriptsSplit ==
  ASSUME kind \in DOMAIN Operations, NEW op \in Operations[kind],
         NEW reconciles \in BOOLEAN, NEW configures \in BOOLEAN,
         reconciles \/ configures
  PROVE  \E pre, plan :
           Parts(Script(op, reconciles, configures), pre, plan, op, reconciles)
<1> DEFINE s == Script(op, reconciles, configures)
<1>1. op \in PirateOperation
  BY BusParameters DEF PirateOperation
<1>2. BeforeTransfers(Identify)
  BY IdentifyBefore
<1>3. CASE op.k = "status"
  <2> DEFINE t == IF kind = "numato" THEN <<Relays>> ELSE <<>>
             pre == Identify \o t
  <2>1. s = pre
    BY <1>3 DEF Script
  <2>2. NoTransfers(t)
    <3>1. Relays.t # "data"
      BY DEF Relays
    <3>2. NoTransfers(<<Relays>>)
      BY <3>1, OneBefore
    <3> QED  BY <1>2, <3>2, NothingPlanned
  <2> HIDE DEF t, s
  <2>3. BeforeTransfers(pre)
    BY <1>2, <2>2, ConcatBefore
  <2> HIDE DEF pre
  <2>4. PlanSound(<<>>) /\ pre \o <<>> = pre
    BY <2>3, NothingPlanned
  <2>5. PlanOf(op) = <<>>
    BY <1>3 DEF PlanOf
  <2>6. Parts(s, pre, <<>>, op, reconciles)
    BY <1>3, <2>1, <2>3, <2>4, <2>5 DEF Parts
  <2> QED  BY <2>6 DEF s
<1>4. CASE op.k = "set"
  <2> DEFINE a == SetRequests(op, reconciles)
             x == Identify \o a
             pre == x \o ReadBack
  <2>1. s = pre
    BY <1>4 DEF Script
  <2>2. NoTransfers(a)
    <3> DEFINE b == IF kind = "bpio2" THEN <<>> ELSE <<Relays>>
               o == SetOutput(op.level)
    <3>1. o.t # "data" /\ Relays.t # "data"
      BY DEF SetOutput, Relays
    <3>2. a = IF reconciles THEN <<>> ELSE <<o>> \o b
      BY DEF SetRequests
    <3>3. BeforeTransfers(<<o>>) /\ NoTransfers(<<>>) /\ NoTransfers(b)
      BY <1>2, <3>1, OneBefore, NothingPlanned
    <3> HIDE DEF a, b, o
    <3>4. BeforeTransfers(<<o>> \o b)
      BY <3>3, ConcatBefore
    <3> QED  BY <3>2, <3>3, <3>4 DEF BeforeTransfers, NoTransfers
  <2>3. /\ NoTransfers(ReadBack) /\ ReadBack # <<>>
        /\ ReadBack[Len(ReadBack)].t \in {"status", "relays"}
    <3> DEFINE r == IF kind = "bpio2" THEN Status ELSE Relays
    <3>1. r.t \in {"status", "relays"}
      BY DEF Status, Relays
    <3>2. ReadBack = <<r>>
      BY DEF ReadBack
    <3> HIDE DEF r
    <3>3. /\ NoTransfers(<<r>>) /\ BeforeTransfers(<<r>>) /\ Len(<<r>>) = 1
          /\ <<r>>[1] = r
      BY <3>1, OneBefore
    <3> QED  BY <3>1, <3>2, <3>3 DEF BeforeTransfers
  <2> HIDE DEF a, s
  <2>4. BeforeTransfers(x)
    BY <1>2, <2>2, ConcatBefore
  <2> HIDE DEF x
  <2>5. BeforeTransfers(pre) /\ pre[Len(pre)].t \in {"status", "relays"}
    BY <2>3, <2>4, ConcatBefore
  <2> HIDE DEF pre
  <2>6. PlanSound(<<>>) /\ pre \o <<>> = pre
    BY <2>5, NothingPlanned
  <2>7. PlanOf(op) = <<>>
    BY <1>4 DEF PlanOf
  <2>8. Parts(s, pre, <<>>, op, reconciles)
    BY <1>4, <2>1, <2>5, <2>6, <2>7 DEF Parts
  <2> QED  BY <2>8 DEF s
<1>5. CASE op.k \notin {"status", "set"}
  <2>1. ASSUME NEW m, s = (Identify \o EnsureMode(m)) \o Transfers(op),
               op.k = "scan" => m = "I2C"
        PROVE  \E pre, plan : Parts(s, pre, plan, op, reconciles)
    <3> DEFINE x == EnsureMode(m)  pre == Identify \o x  plan == Transfers(op)
    <3>1. NoTransfers(x) /\ x # <<>> /\ x[Len(x)] = [t |-> "status", shows |-> m]
      BY EnsureBefore
    <3> HIDE DEF x
    <3>2. BeforeTransfers(pre) /\ pre[Len(pre)] = [t |-> "status", shows |-> m]
      BY <1>2, <3>1, ConcatBefore
    <3> HIDE DEF pre
    <3>3. plan = PlanOf(op)
      BY <1>5 DEF PlanOf
    <3>4. PlanSound(plan)
      BY <1>1, <3>3, PlansSound
    <3>5. s = pre \o plan
      BY <2>1 DEF pre, x
    <3> HIDE DEF s, plan
    <3>6. Parts(s, pre, plan, op, reconciles)
      BY <1>5, <2>1, <3>2, <3>3, <3>4, <3>5 DEF Parts, ShowsI2c
    <3> QED  BY <3>6
  <2>2. CASE op.k = "capture" /\ configures
    <3>1. s = (Identify \o EnsureMode("UART")) \o Transfers(op)
      BY <2>2 DEF Script
    <3> HIDE DEF s
    <3>2. \E pre, plan : Parts(s, pre, plan, op, reconciles)
      BY <2>1, <2>2, <3>1
    <3> QED  BY <3>2 DEF s
  <2>3. CASE op.k \in {"spi", "i2c", "scan", "transmit"} /\ ~reconciles
    <3>1. s = (Identify \o EnsureMode(ModeOf(op))) \o Transfers(op)
      BY <2>3 DEF Script
    <3>2. op.k = "scan" => ModeOf(op) = "I2C"
      BY DEF ModeOf
    <3> HIDE DEF s
    <3>3. \E pre, plan : Parts(s, pre, plan, op, reconciles)
      BY <2>1, <3>1, <3>2
    <3> QED  BY <3>3 DEF s
  <2>4. CASE /\ ~(op.k = "capture" /\ configures)
             /\ ~(op.k \in {"spi", "i2c", "scan", "transmit"} /\ ~reconciles)
    <3>1. s = Identify
      BY <1>5, <2>4 DEF Script
    <3>2. reconciles
      BY <1>1, <1>5, <2>4 DEF PirateOperation, RelayOperation
    <3> HIDE DEF s
    <3>3. PlanSound(<<>>) /\ Identify \o <<>> = Identify
      BY <1>2, NothingPlanned
    <3>4. Parts(s, Identify, <<>>, op, reconciles)
      BY <1>2, <1>5, <3>1, <3>2, <3>3 DEF Parts
    <3> QED  BY <3>4 DEF s
  <2> QED  BY <2>2, <2>3, <2>4
<1> QED  BY <1>3, <1>4, <1>5

ScriptStarts(s, op, reconciles) ==
  /\ IsSeq(s) /\ s # <<>> /\ RequestsOf(s)
  /\ ~reconciles => Left(s, PlanOf(op)) /\ Len(s) > Len(PlanOf(op))
  /\ op.k = "scan" /\ ~reconciles => ModeShown(s)
  /\ op.k = "set" => ReadsBack(s)

LEMMA ScriptsStart ==
  ASSUME kind \in DOMAIN Operations, NEW op \in Operations[kind],
         NEW reconciles \in BOOLEAN, NEW configures \in BOOLEAN,
         reconciles \/ configures
  PROVE  ScriptStarts(Script(op, reconciles, configures), op, reconciles)
<1> DEFINE s == Script(op, reconciles, configures)
<1>1. PICK pre, plan : Parts(s, pre, plan, op, reconciles)
  BY ScriptsSplit
<1> HIDE DEF s
<1> DEFINE n == Len(pre)  l == Len(plan)
<1>2. /\ IsSeq(s) /\ Len(s) = n + l
      /\ \A i \in 1..(n + l) : s[i] = IF i <= n THEN pre[i] ELSE plan[i - n]
  BY <1>1, SeqConcat DEF Parts, BeforeTransfers, PlanSound
<1>3. /\ n \in Nat \ {0} /\ l \in Nat
      /\ \A i \in 1..n : pre[i].t # "data"
  BY <1>1, SeqLength DEF Parts, BeforeTransfers, PlanSound
<1>4. \A i \in 1..l : DataRequest(plan[i]) /\ plan[i].t = "data"
  BY <1>1, DataRequestFields DEF Parts, PlanSound
<1>5. plan = <<>> => l = 0
  BY EmptySeq
<1> HIDE DEF n, l
<1>6. \A i \in 1..(n + l) : \/ i \in 1..n /\ s[i] = pre[i]
                            \/ i - n \in 1..l /\ s[i] = plan[i - n] /\ i > n
  BY <1>2, <1>3
<1>7. s # <<>> /\ Len(s) > l
  BY <1>2, <1>3, SeqLength
<1>8. RequestsOf(s)
  BY <1>2, <1>3, <1>4, <1>6 DEF RequestsOf
<1>9. Left(s, plan)
  <2> SUFFICES ASSUME NEW i \in 1..(n + l)
               PROVE  LET j == l - (n + l) + i
                      IN  IF j >= 1 THEN s[i] = plan[j] ELSE s[i].t # "data"
    BY <1>2 DEF Left, l
  <2>1. PICK j \in Int : j = l - (n + l) + i /\ j = i - n
    BY <1>3
  <2> QED  BY <1>3, <1>6, <2>1
<1>10. ASSUME op.k = "scan", ~reconciles
       PROVE  ModeShown(s)
  <2> SUFFICES ASSUME NEW i \in 1..(n + l), s[i].t # "data",
                      i < n + l => s[i + 1].t = "data"
               PROVE  s[i] = ShowsI2c
    BY <1>2 DEF ModeShown
  <2>1. i \in 1..n /\ s[i] = pre[i]
    BY <1>4, <1>6
  <2>2. i = n
    <3> SUFFICES ASSUME i # n PROVE FALSE
      OBVIOUS
    <3>1. i + 1 \in 1..n /\ i + 1 \in 1..(n + l) /\ i < n + l
      BY <1>3, <2>1
    <3>2. s[i + 1] = pre[i + 1]
      BY <1>2, <1>3, <3>1
    <3> QED  BY <1>3, <3>1, <3>2
  <2> QED  BY <1>1, <1>10, <2>1, <2>2 DEF Parts, n
<1>11. ASSUME op.k = "set" PROVE ReadsBack(s)
  <2>1. plan = <<>> /\ pre[n].t \in {"status", "relays"}
    BY <1>1, <1>11 DEF Parts, n
  <2>2. Len(s) = n /\ n \in 1..(n + l) /\ n <= n
    BY <1>2, <1>3, <1>5, <2>1
  <2>3. s[Len(s)] = pre[n]
    BY <1>2, <2>2
  <2>4. \A i \in 1..Len(s) : s[i].t # "data"
    BY <1>2, <1>3, <2>2
  <2> QED  BY <1>7, <2>1, <2>3, <2>4 DEF ReadsBack
<1>12. ~reconciles => plan = PlanOf(op)
  BY <1>1 DEF Parts
<1>13. ScriptStarts(s, op, reconciles)
  BY <1>2, <1>7, <1>8, <1>9, <1>10, <1>11, <1>12 DEF ScriptStarts, l
<1> QED  BY <1>13 DEF s

\* What is left of a script, once its next request is through
LEMMA LeftTail ==
  ASSUME NEW s, IsSeq(s), s # <<>>, NEW plan, IsSeq(plan), Left(s, plan)
  PROVE  /\ Left(Tail(s), plan)
         /\ Head(s).t = "data" /\ PlanSound(plan) =>
              /\ Len(plan) >= Len(s) /\ Head(s) = plan[Through(s, plan) + 1]
              /\ Through(s, plan) \in Nat
              /\ Through(Tail(s), plan) = Through(s, plan) + 1
         /\ Head(s).t # "data" /\ PlanSound(plan) =>
              Len(s) > Len(plan) /\ Through(s, plan) = 0
              /\ Through(Tail(s), plan) = 0
<1> DEFINE t == Tail(s)  n == Len(s)  l == Len(plan)
<1>1. /\ IsSeq(t) /\ Len(t) = n - 1 /\ \A i \in 1..Len(t) : t[i] = s[i + 1]
      /\ Head(s) = s[1] /\ n \in Nat \ {0} /\ l \in Nat
  BY SeqTail, SeqLength
<1>2. \A i \in 1..n : LET j == l - n + i
                      IN  IF j >= 1 THEN s[i] = plan[j] ELSE s[i].t # "data"
  BY DEF Left
<1> HIDE DEF t, n, l
<1>3. Left(t, plan)
  <2> SUFFICES ASSUME NEW i \in 1..(n - 1)
               PROVE  LET j == l - (n - 1) + i
                      IN  IF j >= 1 THEN t[i] = plan[j] ELSE t[i].t # "data"
    BY <1>1 DEF Left, l
  <2>1. /\ t[i] = s[i + 1] /\ i + 1 \in 1..n
        /\ l - n + (i + 1) = l - (n - 1) + i
    BY <1>1
  <2> QED  BY <1>2, <2>1
<1>4. IF l - n + 1 >= 1 THEN s[1] = plan[l - n + 1] ELSE s[1].t # "data"
  BY <1>1, <1>2
<1>5. Through(s, plan) = (IF n > l THEN 0 ELSE l - n)
  BY DEF Through, n, l
<1>6. Through(t, plan) = (IF n - 1 > l THEN 0 ELSE l - (n - 1))
  BY <1>1 DEF Through, l
<1>7. ASSUME s[1].t = "data", PlanSound(plan)
      PROVE  /\ l >= n /\ s[1] = plan[Through(s, plan) + 1]
             /\ Through(s, plan) \in Nat
             /\ Through(t, plan) = Through(s, plan) + 1
  BY <1>1, <1>4, <1>5, <1>6, <1>7
<1>8. ASSUME s[1].t # "data", PlanSound(plan)
      PROVE  n > l /\ Through(s, plan) = 0 /\ Through(t, plan) = 0
  <2>1. n > l
    <3> SUFFICES ASSUME l >= n PROVE FALSE
      BY <1>1
    <3>1. PICK j \in 1..l : j = l - n + 1 /\ s[1] = plan[j]
      BY <1>1, <1>4
    <3>2. DataRequest(plan[j])
      BY <1>8, <3>1 DEF PlanSound, l
    <3> QED  BY <1>8, <3>1, <3>2, DataRequestFields
  <2> QED  BY <1>1, <1>5, <1>6, <2>1
<1> QED  BY <1>1, <1>3, <1>7, <1>8 DEF t, n, l

-----------------------------------------------------------------------------
(* What the events of a call have written and read                          *)

EventsTyped(w) == IsSeq(w) /\ \A i \in 1..Len(w) : w[i].rx \in Seq(Nat)

LEMMA RxPieces ==
  ASSUME NEW w, EventsTyped(w)
  PROVE  LET f == [i \in DOMAIN w |-> w[i].rx]
         IN  /\ Pieces(f, Nat) /\ Len(f) = Len(w)
             /\ \A i \in 1..Len(w) : f[i] = w[i].rx
<1> DEFINE f == [i \in DOMAIN w |-> w[i].rx]  n == Len(w)
<1>1. /\ n \in Nat /\ DOMAIN w = 1..n
      /\ \A i \in 1..n : w[i].rx \in Seq(Nat)
  BY SeqLength DEF EventsTyped
<1>2. DOMAIN f = 1..n /\ f = [i \in 1..n |-> f[i]]
      /\ \A i \in 1..n : f[i] = w[i].rx
  BY <1>1
<1> HIDE DEF f, n
<1>3. IsSeq(f) /\ Len(f) = n
  BY <1>1, <1>2, FunctionSeq
<1> QED  BY <1>1, <1>2, <1>3 DEF Pieces, f, n

LEMMA ReceivedAppend ==
  ASSUME NEW w, EventsTyped(w), NEW e, e.rx \in Seq(Nat)
  PROVE  /\ Received(w) \in Seq(Nat) /\ EventsTyped(Append(w, e))
         /\ Received(Append(w, e)) = Received(w) \o e.rx
<1> DEFINE v == Append(w, e)  n == Len(w)
           f == [i \in DOMAIN w |-> w[i].rx]
           g == [i \in DOMAIN v |-> v[i].rx]
<1>1. n \in Nat /\ IsSeq(w)
  BY SeqLength DEF EventsTyped
<1>2. /\ IsSeq(v) /\ Len(v) = n + 1 /\ \A i \in 1..n : v[i] = w[i]
      /\ v[n + 1] = e
  BY <1>1, SeqAppend
<1> HIDE DEF v
<1>3. EventsTyped(v)
  <2>1. \A i \in 1..(n + 1) : i \in 1..n \/ i = n + 1
    BY <1>1
  <2> QED  BY <1>2, <2>1 DEF EventsTyped
<1>4. Pieces(f, Nat) /\ Len(f) = n /\ \A i \in 1..n : f[i] = w[i].rx
  BY RxPieces
<1>5. /\ Pieces(g, Nat) /\ Len(g) = n + 1
      /\ \A i \in 1..(n + 1) : g[i] = v[i].rx
  <2>1. Pieces(g, Nat) /\ Len(g) = Len(v) /\ \A i \in 1..Len(v) : g[i] = v[i].rx
    BY <1>3, RxPieces
  <2> HIDE DEF g
  <2> QED  BY <1>2, <2>1
<1>6. Received(w) = FlattenSeq(f) /\ Received(v) = FlattenSeq(g)
  BY DEF Received
<1> HIDE DEF f, g, n
<1>7. g = Append(f, e.rx)
  <2>1. \A i \in 1..n : g[i] = f[i]
    BY <1>1, <1>2, <1>4, <1>5
  <2>2. g[n + 1] = e.rx
    BY <1>1, <1>2, <1>5
  <2> QED  BY <1>4, <1>5, <2>1, <2>2, FunctionAppend DEF Pieces
<1>8. FlattenSeq(g) = FlattenSeq(f) \o e.rx /\ FlattenSeq(f) \in Seq(Nat)
  <2>1. FlattenSeq(f) \in Seq(Nat)
    BY <1>4, FlattenTyped
  <2>2. FlattenSeq(Append(f, e.rx)) = FlattenSeq(f) \o e.rx
    BY <1>4, FlattenAppend
  <2> QED  BY <1>7, <2>1, <2>2
<1> QED  BY <1>3, <1>6, <1>8 DEF v

LEMMA ReceivedNothing == Received(<<>>) = <<>> /\ IsSeq(<<>>) /\ Len(<<>>) = 0
<1> DEFINE f == [i \in DOMAIN <<>> |-> <<>>[i].rx]
<1>1. f = <<>>
  OBVIOUS
<1> HIDE DEF f
<1>2. FlattenSeq(f) = <<>>
  BY <1>1, FlattenEmpty
<1>3. Received(<<>>) = FlattenSeq(f)
  BY DEF Received, f
<1> QED  BY <1>2, <1>3, EmptySeq DEF IsSeq

LEMMA OwnBelongs == Own = Belonging(wire, calls)
BY DEF Own, Belonging

LEMMA FreshTyped ==
  ASSUME EventsTyped(wire), NEW n \in Nat
  PROVE  Fresh(n) \in Seq(Nat) /\ Len(Fresh(n)) = n
<1> DEFINE f == [i \in DOMAIN wire |-> wire[i].rx]  c == Count(wire)  s == Fresh(n)
<1>1. FlattenSeq(f) \in Seq(Nat)
  BY RxPieces, FlattenTyped
<1>2. c = Len(FlattenSeq(f))
  BY DEF Count
<1> HIDE DEF f
<1>3. c \in Nat
  BY <1>1, <1>2
<1>4. FullBlock + 2 \in Nat \ {0}
  BY BusParameters
<1>5. s = [i \in 1..n |-> (c + i - 1) % (FullBlock + 2)]
  BY DEF Fresh
<1> HIDE DEF c, s
<1>6. s \in [1..n -> Nat]
  <2>1. ASSUME NEW i \in 1..n
        PROVE  (c + i - 1) % (FullBlock + 2) \in Nat
    <3>1. c + i - 1 \in Int
      BY <1>3
    <3> HIDE DEF c
    <3> QED  BY <1>4, <3>1
  <2> QED  BY <1>5, <2>1
<1>7. s \in Seq(Nat) /\ Len(s) = n
  BY <1>6, FunctionIsSeq
<1> QED  BY <1>7 DEF s

-----------------------------------------------------------------------------
(* Steps of the adapter                                                     *)

LEMMA OperationsKnown ==
  ASSUME BusInv
  PROVE  call.op \in PirateOperation
<1>1. Operations[kind] \subseteq PirateOperation
  BY BusParameters DEF BusInv, BusTypeOK, PirateOperation
<1>2. NoCall.op \in PirateOperation
  BY DEF NoCall, PirateOperation, RelayOperation
<1> QED  BY <1>1, <1>2 DEF BusInv, CallTyped

\* What is left of a script still asks for transfers that can be carried out.
LEMMA RequestsShrink ==
  ASSUME NEW s, IsSeq(s), RequestsOf(s), s # <<>>,
         NEW t \in {s, Tail(s), <<>>}
  PROVE  RequestsOf(t)
<1>1. CASE t = s
  BY <1>1
<1>2. CASE t = Tail(s)
  <2>1. /\ Len(t) = Len(s) - 1 /\ Len(s) \in Nat
        /\ \A i \in 1..Len(t) : t[i] = s[i + 1]
    BY <1>2, SeqTail
  <2>2. \A i \in 1..Len(t) : i + 1 \in 1..Len(s)
    BY <2>1
  <2> QED  BY <2>1, <2>2 DEF RequestsOf
<1>3. CASE t = <<>>
  <2>1. 1..Len(<<>>) = {}
    BY EmptySeq
  <2> QED  BY <1>3, <2>1 DEF RequestsOf
<1> QED  BY <1>1, <1>2, <1>3

LEMMA InitExact == Init => ExactInv
<1> SUFFICES ASSUME Init PROVE ExactInv
  OBVIOUS
<1>1. IsSeq(<<>>) /\ Len(<<>>) = 0
  BY EmptySeq DEF IsSeq
<1>2. BusInv
  BY InitInv
<1>3. call.pc = "done" /\ call.receipt = "error" /\ requests = <<>>
      /\ wire = <<>> /\ call.todo = <<>> /\ call.probes = <<>>
  BY DEF Init, NoCall
<1>4. RequestsSound
  BY <1>1, <1>3 DEF RequestsSound, RequestsOf
<1>5. ReplyFresh /\ ReadBackLast /\ OwnUnderWay /\ TransfersSound /\ ScansSound
      /\ ReportsAreExact
  BY <1>3 DEF ReplyFresh, ReadBackLast, OwnUnderWay, TransfersSound, ScansSound,
     ReportsAreExact, Answered
<1> QED  BY <1>2, <1>4, <1>5 DEF ExactInv

\* A call that ends early reports nothing.
LEMMA DroppedExact ==
  ASSUME ExactInv, BusInv', call'.pc = "done", call'.receipt = "error",
         call'.todo \in {call.todo, Tail(call.todo), <<>>}, call.todo # <<>>,
         IsSeq(call'.probes), UNCHANGED <<requests, wire>>
  PROVE  ExactInv'
<1>1. RequestsOf(call'.todo)
  <2>1. IsSeq(call.todo) /\ RequestsOf(call.todo)
    BY DEF ExactInv, BusInv, CallTyped, RequestsSound
  <2> QED  BY <2>1, RequestsShrink
<1>2. RequestsSound'
  BY <1>1 DEF ExactInv, RequestsSound
<1>3. /\ ReplyFresh' /\ ReadBackLast' /\ OwnUnderWay' /\ TransfersSound'
      /\ ScansSound' /\ ReportsAreExact'
  BY DEF ReplyFresh, ReadBackLast, OwnUnderWay, TransfersSound, ScansSound,
     ReportsAreExact, Answered
<1> QED  BY <1>2, <1>3 DEF ExactInv

LEMMA FailExact ==
  ASSUME ExactInv, Fail
  PROVE  ExactInv'
<1>1. BusInv'
  BY FailInv DEF ExactInv
<1>2. /\ DOMAIN call = CallFields /\ IsSeq(call.probes)
      /\ RequestsOf(call.todo)
  BY DEF ExactInv, BusInv, CallTyped, RequestsSound
<1>3. /\ call'.pc = "done" /\ call'.receipt = "error"
      /\ call'.todo = call.todo /\ call'.probes = call.probes
      /\ UNCHANGED <<requests, wire>>
  BY <1>2 DEF Fail, Drop, target, CallFields
<1>4. RequestsSound'
  BY <1>2, <1>3
     DEF ExactInv, RequestsSound
<1>5. /\ ReplyFresh' /\ ReadBackLast' /\ OwnUnderWay' /\ TransfersSound'
      /\ ScansSound' /\ ReportsAreExact'
  BY <1>3 DEF ReplyFresh, ReadBackLast, OwnUnderWay, TransfersSound, ScansSound,
     ReportsAreExact, Answered
<1> QED  BY <1>1, <1>4, <1>5 DEF ExactInv

\* Nothing is through when a call begins.
LEMMA BeginExact ==
  ASSUME ExactInv, NEW op \in Operations[kind], NEW reconciles \in BOOLEAN,
         NEW configures \in BOOLEAN, Begin(op, reconciles, configures)
  PROVE  ExactInv'
<1> DEFINE s == Script(op, reconciles, configures)
<1>1. BusInv /\ BusInv'
  BY BeginInv DEF ExactInv
<1>2. ScriptStarts(s, op, reconciles)
  BY <1>1, ScriptsStart DEF Begin, BusInv, BusTypeOK
<1> HIDE DEF s
<1>3. /\ call'.op = op /\ call'.reconciles = reconciles /\ call'.todo = s
      /\ call'.pc = "ready" /\ call'.got = <<>> /\ call'.probes = <<>>
      /\ call'.found = {}
      /\ calls' = calls + 1 /\ wire' = <<>> /\ UNCHANGED requests
  BY DEF Begin, NoCall, s
<1>4. IsSeq(<<>>) /\ Len(<<>>) = 0 /\ Received(<<>>) = <<>>
  BY ReceivedNothing
<1>5. RequestsSound'
  BY <1>2, <1>3, <1>4
     DEF ExactInv, RequestsSound, ScriptStarts
<1>6. ReplyFresh' /\ ReportsAreExact'
  BY <1>3 DEF ReplyFresh, ReportsAreExact, Answered
<1>7. ReadBackLast'
  BY <1>2, <1>3 DEF ReadBackLast, ScriptStarts, ReadsBack
<1>8. OwnUnderWay'
  <2>1. calls \in Nat /\ \A i \in 1..Len(requests) : requests[i].n \in 0..calls
    BY <1>1 DEF BusInv, BusTypeOK
  <2>2. \A i \in 1..Len(requests) : requests[i].n # calls + 1
    BY <2>1
  <2> QED  BY <1>3, <2>2 DEF OwnUnderWay
<1>9. ASSUME ~reconciles
      PROVE  /\ Left(s, PlanOf(op)) /\ Through(s, PlanOf(op)) = 0
             /\ s # <<>> /\ s[1].t # "data" /\ 1 \in 1..Len(s)
             /\ Len(PlanOf(op)) \in Nat
  <2>1. /\ Left(s, PlanOf(op)) /\ Len(s) > Len(PlanOf(op)) /\ IsSeq(s)
        /\ s # <<>>
    BY <1>2, <1>9 DEF ScriptStarts
  <2>2. Len(s) \in Nat \ {0}
    BY <2>1, SeqTail
  <2>3. Len(PlanOf(op)) \in Nat
    <3>1. op \in PirateOperation
      BY <1>1, BusParameters DEF BusInv, BusTypeOK, PirateOperation
    <3> QED  BY <3>1, PlansSound, SeqLength DEF PlanSound
  <2>4. s[1].t # "data"
    <3>1. 1 \in 1..Len(s) /\ ~(Len(PlanOf(op)) - Len(s) + 1 >= 1)
      BY <2>1, <2>2, <2>3
    <3> QED  BY <2>1, <3>1 DEF Left
  <2> QED  BY <2>1, <2>2, <2>3, <2>4 DEF Through
<1>10. TransfersSound'
  <2> SUFFICES ASSUME ~reconciles
               PROVE  Left(s, PlanOf(op)) /\ Matched(Own', call')
    BY <1>3 DEF TransfersSound
  <2>1. Own' = <<>>
    <3>1. Own' = Belonging(wire', calls')
      BY DEF Own, Belonging
    <3> QED  BY <1>3, <3>1, BelongingEmpty
  <2>2. Matched(<<>>, call')
    <3>1. 1..0 = {} /\ 0 <= Len(PlanOf(op))
      BY <1>9
    <3> QED  BY <1>3, <1>4, <1>9, <3>1 DEF Matched
  <2> QED  BY <1>9, <2>1, <2>2
<1>11. ScansSound'
  <2> SUFFICES ASSUME op.k = "scan", ~reconciles PROVE ScansSound'
    BY <1>3 DEF ScansSound
  <2>1. PlanOf(op) = ScanProbes
    BY DEF PlanOf, Transfers
  <2>2. ~Scanning'
    BY <1>3, <1>9 DEF Scanning
  <2>3. ScanMatched(call')
    <3>1. {a \in Present : 2 * a <= 0} = {}
      <4>1. \A a \in 1..Addresses : ~(2 * a <= 0)
        BY BusParameters
      <4> QED  BY <4>1, BusParameters
    <3>2. 1..0 = {}
      OBVIOUS
    <3> QED  BY <1>3, <1>4, <1>9, <2>1, <3>1, <3>2 DEF ScanMatched
  <2>4. Left(s, ScanProbes) /\ ModeShown(s)
    BY <1>2, <1>9, <2>1 DEF ScriptStarts
  <2> QED  BY <1>3, <2>2, <2>3, <2>4 DEF ScansSound
<1> QED  BY <1>1, <1>5, <1>6, <1>7, <1>8, <1>10, <1>11 DEF ExactInv

LEMMA SendExact ==
  ASSUME ExactInv, Send
  PROVE  ExactInv'
<1> DEFINE e == [r |-> Head(call.todo), n |-> calls,
                 reconciles |-> call.reconciles]
           k == Len(requests)
<1>1. BusInv /\ BusInv'
  BY SendInv DEF ExactInv
<1>2. /\ DOMAIN call = CallFields /\ IsSeq(call.todo) /\ IsSeq(requests)
  BY <1>1 DEF BusInv, BusTypeOK, CallTyped
<1>3. /\ call.pc = "ready" /\ call.todo # <<>> /\ call'.pc = "wait"
      /\ call'.op = call.op /\ call'.reconciles = call.reconciles
      /\ call'.todo = call.todo /\ call'.got = call.got
      /\ call'.probes = call.probes /\ call'.found = call.found
      /\ call'.read = call.read
      /\ requests' = Append(requests, e)
      /\ UNCHANGED <<answers, mode, level, wire, calls>>
  BY <1>2 DEF Send, CallFields
<1>4. e.r = Head(call.todo) /\ e.n = calls
  OBVIOUS
<1> HIDE DEF e
<1>5. /\ k \in Nat /\ Len(requests') = k + 1 /\ requests' # <<>>
      /\ IsSeq(requests') /\ requests'[k + 1] = e
      /\ \A i \in 1..k : requests'[i] = requests[i]
      /\ Head(call.todo) = call.todo[1] /\ 1 \in 1..Len(call.todo)
  <2>1. /\ k \in Nat /\ Len(requests') = k + 1 /\ IsSeq(requests')
        /\ requests'[k + 1] = e
        /\ \A i \in 1..k : requests'[i] = requests[i]
    BY <1>2, <1>3, SeqAppend, SeqLength
  <2>2. Len(requests') # 0
    BY <2>1
  <2>3. Head(call.todo) = call.todo[1] /\ 1 \in 1..Len(call.todo)
    BY <1>2, <1>3, SeqTail
  <2> QED  BY <2>1, <2>2, <2>3, SeqLength
<1>6. requests = <<>> => k = 0
  BY EmptySeq
<1> HIDE DEF k
<1>7. \A i \in 1..(k + 1) : i \in 1..k \/ i = k + 1
  BY <1>5
<1>8. RequestsSound'
  <2>1. ASSUME NEW i \in 1..(k + 1), requests'[i].r.t = "data"
        PROVE  DataRequest(requests'[i].r)
    <3>1. CASE i \in 1..k
      BY <1>5, <2>1, <3>1 DEF ExactInv, RequestsSound, k
    <3>2. CASE i = k + 1
      BY <1>4, <1>5, <2>1, <3>2 DEF ExactInv, RequestsSound, RequestsOf
    <3> QED  BY <1>7, <3>1, <3>2
  <2> QED  BY <1>3, <1>5, <2>1 DEF ExactInv, RequestsSound
<1>9. ReplyFresh' /\ ReportsAreExact'
  BY <1>3, <1>5 DEF ReplyFresh, ReportsAreExact, Answered
<1>10. ReadBackLast'
  BY <1>3 DEF ExactInv, ReadBackLast
<1>11. OwnUnderWay'
  <2> SUFFICES ASSUME Clean'
               PROVE  /\ \A i \in 1..(k + 1) :
                           requests'[i].n = calls =>
                             i = k + 1 /\ requests'[i].r = Head(call.todo)
                      /\ requests'[k + 1].n = calls
    BY <1>3, <1>5 DEF OwnUnderWay
  <2>1. Clean
    BY <1>3 DEF Clean
  <2>2. \A i \in 1..k : requests[i].n # calls
    BY <1>3, <2>1 DEF ExactInv, OwnUnderWay, k
  <2> QED  BY <1>4, <1>5, <1>7, <2>2
<1>12. TransfersSound'
  <2> SUFFICES ASSUME call.op.k # "scan", ~call.reconciles
               PROVE  Left(call.todo, PlanOf(call.op)) /\ Matched(Own', call')
    BY <1>3, <1>5 DEF TransfersSound
  <2>1. Left(call.todo, PlanOf(call.op)) /\ Matched(Own, call)
    BY <1>3 DEF ExactInv, TransfersSound
  <2>2. Own' = Own
    BY <1>3 DEF Own
  <2> QED  BY <1>3, <2>1, <2>2 DEF Matched
<1>13. ScansSound'
  <2> SUFFICES ASSUME call.op.k = "scan", ~call.reconciles, Clean'
               PROVE  ScansSound'
    BY <1>3 DEF ScansSound
  <2>1. Clean
    BY <1>3 DEF Clean
  <2>2. /\ Left(call.todo, ScanProbes) /\ ModeShown(call.todo)
        /\ ScanMatched(call)
        /\ Scanning => mode = "I2C" /\ requests = <<>> /\ answers = <<>>
    BY <1>3, <2>1 DEF ExactInv, ScansSound
  <2>3. Scanning' <=> Scanning
    BY <1>3 DEF Scanning
  <2>4. ScanMatched(call')
    BY <1>3, <2>2 DEF ScanMatched
  <2>5. Scanning' =>
          mode' = "I2C" /\ requests' # <<>> /\ answers' = <<>>
          /\ Len(requests') = 1
    BY <1>3, <1>5, <1>6, <2>2, <2>3
  <2> QED  BY <1>3, <2>2, <2>4, <2>5 DEF ScansSound
<1> QED  BY <1>1, <1>8, <1>9, <1>10, <1>11, <1>12, <1>13 DEF ExactInv

-----------------------------------------------------------------------------
(* Receipts                                                                 *)

\* What a call that is through with its script has done
CarriedOutPlan(own, c) ==
  /\ EventsTyped(own) /\ Len(own) = Len(PlanOf(c.op))
  /\ \A i \in 1..Len(own) :
       Executes(own[i], PlanOf(c.op)[i]) /\ Len(own[i].rx) = PlanOf(c.op)[i].read
  /\ c.got = Received(own)

LEMMA MatchedEvents ==
  ASSUME NEW own, NEW c, Matched(own, c)
  PROVE  EventsTyped(own)
BY DEF Matched, Executes, EventsTyped

LEMMA PlanThrough ==
  ASSUME NEW own, NEW c, Matched(own, c), c.todo = <<>>, c.op \in PirateOperation,
         c.op.k # "capture"
  PROVE  CarriedOutPlan(own, c)
<1>1. Len(PlanOf(c.op)) \in Nat
  BY PlansSound, SeqLength DEF PlanSound
<1>2. Through(<<>>, PlanOf(c.op)) = Len(PlanOf(c.op))
  BY <1>1, EmptySeq DEF Through
<1> QED  BY <1>2, MatchedEvents DEF Matched, CarriedOutPlan

\* The writes, as they went out
SentPieces(own) == [i \in DOMAIN own |-> own[i].tx]

LEMMA SentIs ==
  ASSUME NEW own, IsSeq(own)
  PROVE  /\ Sent(own) = FlattenSeq(SentPieces(own))
         /\ IsSeq(SentPieces(own)) /\ Len(SentPieces(own)) = Len(own)
         /\ \A i \in 1..Len(own) : SentPieces(own)[i] = own[i].tx
<1> DEFINE f == SentPieces(own)  n == Len(own)
<1>1. n \in Nat /\ DOMAIN own = 1..n
  BY SeqLength
<1>2. DOMAIN f = 1..n /\ f = [i \in 1..n |-> f[i]]
      /\ \A i \in 1..n : f[i] = own[i].tx
  BY <1>1 DEF SentPieces
<1>3. Sent(own) = FlattenSeq(f)
  BY DEF Sent, SentPieces
<1> HIDE DEF f, n
<1>4. IsSeq(f) /\ Len(f) = n
  BY <1>1, <1>2, FunctionSeq
<1> QED  BY <1>2, <1>3, <1>4 DEF f, n

\* An SPI operation, whole and within one transaction
LEMMA SpiReported ==
  ASSUME NEW own, NEW c, CarriedOutPlan(own, c), c.op \in PirateOperation,
         c.op.k = "spi"
  PROVE  /\ Sent(own) = c.op.tx /\ Received(own) = c.got /\ Len(c.got) = c.op.rx
         /\ \A i \in DOMAIN own : /\ own[i].start = (i = 1)
                                  /\ own[i].stop = (i = Len(own))
         /\ \A i, j \in DOMAIN own :
              i < j => own[i].rx = <<>> \/ own[j].tx = <<>>
<1> DEFINE tx == c.op.tx  n == c.op.rx  p == PlanOf(c.op)
           k == Chunks(Len(tx), WriteMax)  l == Chunks(n, ReadMax)
           m == Len(own)
<1>1. tx \in Seq(Nat) /\ n \in Nat
  BY DEF PirateOperation, RelayOperation
<1>2. k \in Nat /\ l \in Nat
  <2>1. Len(tx) \in Nat
    BY <1>1
  <2> QED  BY <1>1, <2>1, ChunksNatural, BusParameters
<1>3. p = SpiTransfer(tx, n)
  BY DEF PlanOf, Transfers
<1>4. PICK e : SpiPlanned(p, tx, n, e)
  BY <1>1, <1>3, SpiIsPlanned
<1> HIDE DEF tx, n, p
<1>5. /\ e \in {0, 1} /\ Len(p) = k + l + e
      /\ \A i \in 1..(k + l + e) :
           IsData(p[i], SpiWrite(tx, i), SpiRead(tx, n, i), i = 1, i = k + l + e)
  BY <1>4 DEF SpiPlanned
<1> HIDE DEF k, l
<1>6. /\ EventsTyped(own) /\ m = k + l + e /\ c.got = Received(own)
      /\ \A i \in 1..m : Executes(own[i], p[i]) /\ Len(own[i].rx) = p[i].read
  BY <1>5 DEF CarriedOutPlan, p
<1>7. m \in Nat /\ DOMAIN own = 1..m
  BY <1>6, SeqLength DEF EventsTyped
<1> HIDE DEF m
<1>8. ASSUME NEW i \in 1..m
      PROVE  /\ own[i].tx = SpiWrite(tx, i) /\ own[i].rx \in Seq(Nat)
             /\ Len(own[i].rx) = SpiRead(tx, n, i)
             /\ own[i].start = (i = 1) /\ own[i].stop = (i = m)
  <2>1. IsData(p[i], SpiWrite(tx, i), SpiRead(tx, n, i), i = 1, i = k + l + e)
    BY <1>5, <1>6
  <2> QED  BY <1>6, <2>1 DEF Executes, IsData
<1>9. Sent(own) = tx
  <2> DEFINE s == SentPieces(own)
  <2>1. Sent(own) = FlattenSeq(s) /\ IsSeq(s) /\ Len(s) = m
        /\ \A i \in 1..m : s[i] = own[i].tx
    BY <1>6, SentIs DEF EventsTyped, m
  <2> HIDE DEF s
  <2>2. PICK j \in Nat : j = l + e
    BY <1>2, <1>5
  <2>3. \A i \in 1..k : s[i] = WriteChunk(tx, i)
    <3>1. \A i \in 1..k : i \in 1..m /\ i <= k
      BY <1>2, <1>5, <1>6
    <3> QED  BY <1>8, <2>1, <3>1 DEF SpiWrite, k
  <2>4. \A i \in (k + 1)..(k + j) : s[i] = <<>>
    <3>1. \A i \in (k + 1)..(k + j) : i \in 1..m /\ ~(i <= k)
      BY <1>2, <1>5, <1>6, <2>2
    <3> QED  BY <1>8, <2>1, <3>1 DEF SpiWrite, k
  <2>5. Len(s) = k + j
    BY <1>2, <1>5, <1>6, <2>1, <2>2
  <2>6. Writes(s, tx, j)
    BY <2>1, <2>3, <2>4, <2>5 DEF Writes, k
  <2> QED  BY <1>1, <2>1, <2>6, WritesJoin
<1>10. Len(Received(own)) = n
  <2> DEFINE f == [i \in DOMAIN own |-> own[i].rx]
  <2>1. /\ Pieces(f, Nat) /\ Len(f) = m
        /\ \A i \in 1..m : f[i] = own[i].rx
    BY <1>6, RxPieces DEF m
  <2>2. Received(own) = FlattenSeq(f)
    BY DEF Received
  <2> HIDE DEF f
  <2>3. \A i \in 1..m :
          Len(f[i]) = IF i \in (k + 1)..(k + l) THEN ReadSize(n, i - k) ELSE 0
    BY <1>8, <2>1 DEF SpiRead, k, l
  <2>4. Reads(f, n, k, e)
    BY <1>6, <2>1, <2>3 DEF Reads, l
  <2>5. e \in Nat
    BY <1>5
  <2> QED  BY <1>1, <1>2, <2>2, <2>4, <2>5, ReadsSum
<1>11. ASSUME NEW i \in 1..m, NEW j \in 1..m, i < j
       PROVE  own[i].rx = <<>> \/ own[j].tx = <<>>
  <2>1. CASE i <= k
    <3>1. i \notin (k + 1)..(k + l)
      BY <1>2, <2>1
    <3>2. Len(own[i].rx) = 0 /\ own[i].rx \in Seq(Nat)
      BY <1>8, <3>1 DEF SpiRead, k, l
    <3> QED  BY <3>2, EmptySeq
  <2>2. CASE i > k
    <3>1. ~(j <= k)
      BY <1>2, <1>7, <1>11, <2>2
    <3> QED  BY <1>8, <3>1 DEF SpiWrite, k
  <2> QED  BY <1>2, <1>7, <2>1, <2>2
<1> QED  BY <1>6, <1>7, <1>8, <1>9, <1>10, <1>11 DEF tx, n, m

LEMMA I2cReported ==
  ASSUME NEW own, NEW c, CarriedOutPlan(own, c), c.op \in PirateOperation,
         c.op.k = "i2c"
  PROVE  /\ Len(own) = 1 /\ Sent(own) = <<WriteAddress(c.op.address)>> \o c.op.tx
         /\ Received(own) = c.got /\ Len(c.got) = c.op.rx
         /\ \A i \in DOMAIN own : /\ own[i].start = (i = 1)
                                  /\ own[i].stop = (i = Len(own))
<1> DEFINE x == <<WriteAddress(c.op.address)>> \o c.op.tx
           d == Data(x, c.op.rx, TRUE, TRUE)  n == c.op.rx
           f == <<d>>
<1>1. c.op.tx \in Seq(Nat) /\ n \in Nat /\ c.op.address \in Nat
  BY DEF PirateOperation, RelayOperation
<1>2. x \in Seq(Nat)
  <2>1. <<WriteAddress(c.op.address)>> \in Seq(Nat)
    BY <1>1 DEF WriteAddress
  <2> QED  BY <1>1, <2>1, ConcatProperties
<1>3. PlanOf(c.op) = f
  BY DEF PlanOf, Transfers, I2cTransfer
<1> HIDE DEF x, n
<1>4. IsData(d, x, n, TRUE, TRUE)
  BY <1>1, <1>2, DataFields DEF n
<1> HIDE DEF d
<1>5. Len(f) = 1 /\ f[1] = d
  OBVIOUS
<1> HIDE DEF f
<1>6. /\ EventsTyped(own) /\ Len(own) = 1 /\ c.got = Received(own)
      /\ \A i \in 1..1 : Executes(own[i], f[i]) /\ Len(own[i].rx) = f[i].read
  BY <1>3, <1>5 DEF CarriedOutPlan
<1>7. DOMAIN own = 1..1 /\ IsSeq(own)
  BY <1>6, SeqLength DEF EventsTyped
<1>8. /\ own[1].tx = x /\ own[1].rx \in Seq(Nat) /\ Len(own[1].rx) = n
      /\ own[1].start = TRUE /\ own[1].stop = TRUE
  <2>1. 1 \in 1..1
    OBVIOUS
  <2> QED  BY <1>4, <1>5, <1>6, <2>1 DEF Executes, IsData
<1>9. Sent(own) = x
  <2> DEFINE s == SentPieces(own)
  <2>1. Sent(own) = FlattenSeq(s) /\ IsSeq(s) /\ Len(s) = 1 /\ s[1] = x
    BY <1>6, <1>7, <1>8, SentIs
  <2> HIDE DEF s
  <2> QED  BY <1>2, <2>1, FlattenOne
<1>10. Received(own) = own[1].rx
  <2> DEFINE g == [i \in DOMAIN own |-> own[i].rx]
  <2>1. Pieces(g, Nat) /\ Len(g) = 1 /\ g[1] = own[1].rx
    BY <1>6, RxPieces
  <2>2. Received(own) = FlattenSeq(g)
    BY DEF Received
  <2> HIDE DEF g
  <2> QED  BY <1>8, <2>1, <2>2, FlattenOne DEF Pieces
<1>11. \A i \in 1..1 : i = 1
  OBVIOUS
<1> QED  BY <1>6, <1>7, <1>8, <1>9, <1>10, <1>11 DEF x, n

LEMMA TransmitReported ==
  ASSUME NEW own, NEW c, CarriedOutPlan(own, c), c.op \in PirateOperation,
         c.op.k = "transmit"
  PROVE  Sent(own) = c.op.tx
<1> DEFINE tx == c.op.tx  p == PlanOf(c.op)
           k == Chunks(Len(tx), WriteMax)  s == SentPieces(own)
<1>1. tx \in Seq(Nat)
  BY DEF PirateOperation, RelayOperation
<1>2. p = WriteRequests(tx, FALSE)
  BY DEF PlanOf, Transfers
<1>3. WritesPlanned(p, tx, FALSE)
  BY <1>1, <1>2, WritesArePlanned
<1> HIDE DEF tx, p
<1>4. /\ Len(p) = k
      /\ \A i \in 1..k : IsData(p[i], WriteChunk(tx, i), 0, FALSE /\ i = 1, FALSE)
  BY <1>3 DEF WritesPlanned
<1>5. k \in Nat
  <2>1. Len(tx) \in Nat
    BY <1>1
  <2> QED  BY <2>1, ChunksNatural, BusParameters
<1> HIDE DEF k
<1>6. EventsTyped(own) /\ Len(own) = k /\ \A i \in 1..k : Executes(own[i], p[i])
  BY <1>4 DEF CarriedOutPlan, p
<1>7. Sent(own) = FlattenSeq(s) /\ IsSeq(s) /\ Len(s) = k
      /\ \A i \in 1..k : s[i] = own[i].tx
  BY <1>6, SentIs DEF EventsTyped
<1> HIDE DEF s
<1>8. \A i \in 1..k : s[i] = WriteChunk(tx, i)
  BY <1>4, <1>6, <1>7 DEF Executes, IsData
<1>9. Writes(s, tx, 0)
  <2>1. k + 0 = k /\ (k + 1)..k = {}
    BY <1>5
  <2> QED  BY <1>7, <1>8, <2>1 DEF Writes, k
<1>10. Sent(own) = tx
  <2>1. 0 \in Nat
    OBVIOUS
  <2> QED  BY <1>1, <1>7, <1>9, <2>1, WritesJoin
<1> QED  BY <1>10 DEF tx

\* A capture writes nothing.
LEMMA CaptureReported ==
  ASSUME NEW own, NEW c, Matched(own, c), c.op \in PirateOperation,
         c.op.k = "capture"
  PROVE  Sent(own) = <<>> /\ Received(own) = c.got
<1> DEFINE n == c.op.rx  p == PlanOf(c.op)  m == Len(own)  s == SentPieces(own)
<1>1. n \in Nat
  BY DEF PirateOperation, RelayOperation
<1>2. p = ReadRequests(n, FALSE, FALSE)
  BY DEF PlanOf, Transfers
<1>3. ReadsPlanned(p, n, FALSE, FALSE)
  BY <1>1, <1>2, ReadsArePlanned
<1> HIDE DEF n, p
<1>4. EventsTyped(own) /\ m <= Len(p) /\ c.got = Received(own)
      /\ \A i \in 1..m : Executes(own[i], p[i])
  BY MatchedEvents DEF Matched, p
<1>5. m \in Nat /\ Len(p) \in Nat
  BY <1>3, <1>4, SeqLength DEF EventsTyped, ReadsPlanned
<1> HIDE DEF m
<1>6. \A i \in 1..m : own[i].tx = <<>>
  <2> TAKE i \in 1..m
  <2>1. i \in 1..Len(p)
    BY <1>4, <1>5
  <2>2. Bytes(p[i]) = <<>>
    BY <1>3, <2>1 DEF ReadsPlanned, IsData
  <2> QED  BY <1>4, <2>2 DEF Executes
<1>7. Sent(own) = FlattenSeq(s) /\ IsSeq(s) /\ Len(s) = m
      /\ \A i \in 1..m : s[i] = <<>>
  BY <1>4, <1>6, SentIs DEF EventsTyped, m
<1> HIDE DEF s
<1>8. Chunks(Len(<<>>), WriteMax) = 0 /\ <<>> \in Seq(Nat)
  <2>1. Len(<<>>) = 0 /\ 0 \in Nat
    BY EmptySeq
  <2>2. ChunkSteps(0, WriteMax, Chunks(0, WriteMax))
    BY <2>1, ChunksStep, BusParameters
  <2> QED  BY <2>1, <2>2, EmptySeq DEF ChunkSteps
<1>9. Writes(s, <<>>, m)
  <2>1. 0 + m = m /\ 1..0 = {} /\ (0 + 1)..(0 + m) = 1..m
    BY <1>5
  <2> QED  BY <1>7, <1>8, <2>1 DEF Writes
<1>10. FlattenSeq(s) = <<>>
  <2>1. PICK tx \in Seq(Nat) : tx = <<>>
    BY <1>8
  <2>2. Writes(s, tx, m)
    BY <1>9, <2>1
  <2> QED  BY <1>5, <2>1, <2>2, WritesJoin
<1> QED  BY <1>4, <1>7, <1>10

LEMMA FinishExact ==
  ASSUME ExactInv, Finish
  PROVE  ExactInv'
<1>1. BusInv /\ BusInv'
  BY FinishInv DEF ExactInv
<1>2. DOMAIN call = CallFields
  BY <1>1 DEF BusInv, CallTyped
<1>3. /\ call.pc = "ready" /\ call.todo = <<>> /\ call'.pc = "done"
      /\ call'.op = call.op /\ call'.reconciles = call.reconciles
      /\ call'.todo = call.todo /\ call'.got = call.got
      /\ call'.probes = call.probes /\ call'.found = call.found
      /\ call'.receipt = Verdict
      /\ UNCHANGED <<requests, answers, mode, level, wire, calls>>
  BY <1>2 DEF Finish, CallFields, target
<1>4. RequestsSound'
  BY <1>3 DEF ExactInv, RequestsSound
<1>5. /\ ReplyFresh' /\ ReadBackLast' /\ OwnUnderWay' /\ TransfersSound'
      /\ ScansSound'
  BY <1>3 DEF ReplyFresh, ReadBackLast, OwnUnderWay, TransfersSound, ScansSound
<1>6. call.op \in PirateOperation
  BY <1>1, OperationsKnown
<1>7. ASSUME call.op.k = "set", Verdict = "completed"
      PROVE  level = call.op.level
  <2>1. call.read = level
    BY <1>3, <1>7 DEF ExactInv, ReadBackLast
  <2> QED  BY <1>7, <2>1 DEF Verdict
<1>8. ASSUME ~call.reconciles PROVE AsAsked'
  <2>1. Own' = Own
    BY <1>3 DEF Own
  <2>2. Written = Sent(Own) /\ ReadBytes = Received(Own)
    BY DEF Written, ReadBytes, Sent, Received
  <2>3. ASSUME call.op.k # "scan" PROVE Matched(Own, call)
    BY <1>3, <1>8, <2>3 DEF ExactInv, TransfersSound
  <2>4. ASSUME call.op.k \notin {"scan", "capture"}
        PROVE  CarriedOutPlan(Own, call)
    BY <1>3, <1>6, <2>3, <2>4, PlanThrough
  <2>5. /\ Written' = Sent(Own) /\ ReadBytes' = Received(Own)
        /\ OneTransaction' <=> \A i \in DOMAIN Own :
                                 /\ Own[i].start = (i = 1)
                                 /\ Own[i].stop = (i = Len(Own))
    BY <2>1 DEF Written, ReadBytes, Sent, Received, OneTransaction
  <2>6. CASE call.op.k = "spi"
    <3>1. CarriedOutPlan(Own, call)
      BY <2>4, <2>6
    <3> HIDE DEF Own
    <3> QED  BY <1>3, <1>6, <2>1, <2>5, <2>6, <3>1, SpiReported DEF AsAsked
  <2>7. CASE call.op.k = "i2c"
    <3>1. CarriedOutPlan(Own, call)
      BY <2>4, <2>7
    <3> QED  BY <1>3, <1>6, <2>1, <2>5, <2>7, <3>1, I2cReported DEF AsAsked
  <2>8. CASE call.op.k = "transmit"
    <3>1. CarriedOutPlan(Own, call)
      BY <2>4, <2>8
    <3> QED  BY <1>3, <1>6, <2>5, <2>8, <3>1, TransmitReported DEF AsAsked
  <2>9. CASE call.op.k = "capture"
    <3>1. Matched(Own, call)
      BY <2>3, <2>9
    <3> QED  BY <1>3, <1>6, <2>5, <2>9, <3>1, CaptureReported DEF AsAsked
  <2>10. CASE call.op.k = "scan"
    <3> SUFFICES ASSUME "timeout" \notin Range(call.probes)
                 PROVE  call.found = Present
      BY <1>3, <2>10 DEF AsAsked
    <3>1. ScanMatched(call)
      BY <1>3, <1>8, <2>10 DEF ExactInv, ScansSound, Clean
    <3>2. Through(<<>>, ScanProbes) = 2 * Addresses
      BY ProbesArePlanned, EmptySeq, BusParameters DEF Through, ProbesPlanned
    <3>3. call.found = {a \in Present : 2 * a <= 2 * Addresses}
      BY <1>3, <3>1, <3>2 DEF ScanMatched
    <3>4. \A a \in 1..Addresses : 2 * a <= 2 * Addresses
      BY BusParameters
    <3> QED  BY <3>3, <3>4, BusParameters
  <2>11. CASE call.op.k \in {"status", "set"}
    <3>1. CarriedOutPlan(Own, call)
      BY <2>4, <2>11
    <3>2. Len(PlanOf(call.op)) = 0
      BY <2>11, EmptySeq DEF PlanOf
    <3>3. Own = <<>>
      BY <3>1, <3>2, SeqLength DEF CarriedOutPlan, EventsTyped
    <3> QED  BY <1>3, <2>1, <2>11, <3>3 DEF AsAsked
  <2> QED  BY <1>6, <2>6, <2>7, <2>8, <2>9, <2>10, <2>11
           DEF PirateOperation, RelayOperation
<1>9. ReportsAreExact'
  BY <1>3, <1>7, <1>8 DEF ReportsAreExact, Answered
<1> QED  BY <1>1, <1>4, <1>5, <1>9 DEF ExactInv

-----------------------------------------------------------------------------
(* Answers                                                                  *)

\* The answer that is accepted is the only one owed.
LEMMA AcceptedOwed ==
  ASSUME BusInv, Accept, Accepts(Head(answers))
  PROVE  /\ Head(answers) = answers[1] /\ Len(answers) = 1 /\ requests = <<>>
         /\ Tail(answers) = <<>> /\ ~Scanning
<1> DEFINE a == Head(answers)
<1>1. /\ call.todo # <<>> /\ call.pc = "wait" /\ answers # <<>> /\ ~Probing
      /\ IsSeq(answers)
  BY DEF Accept, BusInv, BusTypeOK, CallTyped
<1>2. a = answers[1] /\ IsSeq(Tail(answers))
      /\ Len(Tail(answers)) = Len(answers) - 1
  BY <1>1, SeqTail
<1>3. ~Scanning /\ (AnswerOwed \/ (ProbeFirst /\ AtStart))
  BY <1>1, ProbingScans DEF BusInv, DebtsSound
<1>4. AnswerOwed
  BY <1>1, <1>2, <1>3 DEF ProbeFirst, AtStart, Accepts, Asked
<1>5. requests = <<>> /\ Len(answers) = 1
  BY <1>1, <1>4 DEF AnswerOwed
<1>6. Tail(answers) = <<>>
  <2>1. Len(Tail(answers)) = 0
    BY <1>2, <1>5
  <2> QED  BY <1>2, <2>1, SeqLength
<1> QED  BY <1>2, <1>3, <1>5, <1>6

LEMMA ModeShownTail ==
  ASSUME NEW s, IsSeq(s), s # <<>>, ModeShown(s)
  PROVE  ModeShown(Tail(s))
<1> DEFINE t == Tail(s)  n == Len(s)
<1>1. n \in Nat \ {0} /\ Len(t) = n - 1 /\ \A i \in 1..(n - 1) : t[i] = s[i + 1]
  BY SeqTail
<1> HIDE DEF t, n
<1>2. ASSUME NEW i \in 1..(n - 1), t[i].t # "data",
             i < n - 1 => t[i + 1].t = "data"
      PROVE  t[i] = ShowsI2c
  <2>1. i + 1 \in 1..n /\ t[i] = s[i + 1]
    BY <1>1
  <2>2. i + 1 < n => s[(i + 1) + 1].t = "data"
    <3> SUFFICES ASSUME i + 1 < n PROVE s[(i + 1) + 1].t = "data"
      OBVIOUS
    <3>1. i < n - 1 /\ i + 1 \in 1..(n - 1)
      BY <1>1
    <3> QED  BY <1>1, <1>2, <3>1
  <2> QED  BY <1>2, <2>1, <2>2 DEF ModeShown, n
<1>3. ModeShown(t)
  BY <1>1, <1>2 DEF ModeShown
<1> QED  BY <1>3 DEF t

\* What an accepted answer adds to the transfers that are through
LEMMA TakenMatched ==
  ASSUME NEW own, NEW e, NEW c, NEW d, Matched(own, c), c.op \in PirateOperation,
         IsSeq(c.todo), c.todo # <<>>, Left(c.todo, PlanOf(c.op)),
         Head(c.todo).t = "data", Executes(e, Head(c.todo)),
         d.op = c.op, d.got = c.got \o e.rx,
         \/ d.todo = Tail(c.todo)
         \/ c.op.k = "capture" /\ d.todo = <<>>,
         Len(e.rx) = Head(c.todo).read \/ c.op.k = "capture"
  PROVE  Matched(Append(own, e), d)
<1> DEFINE plan == PlanOf(c.op)  v == Append(own, e)  n == Len(own)
           x == Through(c.todo, plan)
<1>1. PlanSound(plan) /\ IsSeq(plan)
  BY PlansSound DEF PlanSound
<1>2. /\ Len(plan) >= Len(c.todo) /\ Head(c.todo) = plan[x + 1] /\ x \in Nat
      /\ Through(Tail(c.todo), plan) = x + 1
  BY <1>1, LeftTail
<1>3. Len(c.todo) \in Nat \ {0} /\ Len(plan) \in Nat
  BY <1>1, SeqTail, SeqLength
<1>4. n = x /\ EventsTyped(own) /\ c.got = Received(own)
      /\ \A i \in 1..n : /\ Executes(own[i], plan[i])
                         /\ c.op.k = "capture" \/ Len(own[i].rx) = plan[i].read
  BY MatchedEvents DEF Matched
<1>5. x + 1 <= Len(plan)
  <2>1. x = IF Len(c.todo) > Len(plan) THEN 0 ELSE Len(plan) - Len(c.todo)
    BY DEF Through
  <2> HIDE DEF x, plan
  <2> QED  BY <1>2, <1>3, <2>1
<1>6. /\ IsSeq(v) /\ Len(v) = n + 1 /\ \A i \in 1..n : v[i] = own[i]
      /\ v[n + 1] = e
  BY <1>4, SeqAppend DEF EventsTyped
<1>7. Received(v) = Received(own) \o e.rx
  <2>1. e.rx \in Seq(Nat)
    BY DEF Executes
  <2> QED  BY <1>4, <2>1, ReceivedAppend
<1> HIDE DEF plan, x, v, n
<1>8. \A i \in 1..(n + 1) : i \in 1..n \/ i = n + 1
  BY <1>2, <1>4
<1>9. \A i \in 1..(n + 1) :
        /\ Executes(v[i], plan[i])
        /\ c.op.k = "capture" \/ Len(v[i].rx) = plan[i].read
  <2>1. Executes(v[n + 1], plan[n + 1])
        /\ (c.op.k = "capture" \/ Len(v[n + 1].rx) = plan[n + 1].read)
    BY <1>2, <1>4, <1>6
  <2> QED  BY <1>4, <1>6, <1>8, <2>1
<1>10. \/ Len(v) = Through(d.todo, plan)
       \/ d.op.k = "capture" /\ d.todo = <<>>
  BY <1>2, <1>4, <1>6
<1>11. Matched(v, d)
  BY <1>4, <1>5, <1>6, <1>7, <1>9, <1>10 DEF Matched, plan
<1> QED  BY <1>11 DEF v

LEMMA AcceptExact ==
  ASSUME ExactInv, Accept
  PROVE  ExactInv'
<1> DEFINE a == Head(answers)  todo == call.todo  op == call.op
           plan == PlanOf(op)
<1>1. BusInv /\ BusInv'
  BY AcceptInv DEF ExactInv
<1>2. /\ DOMAIN call = CallFields /\ IsSeq(todo) /\ todo # <<>>
      /\ call.pc = "wait" /\ ~Probing
      /\ UNCHANGED <<requests, mode, level, wire, calls>>
  BY <1>1 DEF BusInv, CallTyped, Accept, target
<1>3. CASE ~Accepts(a)
  <2>1. /\ call'.pc = "done" /\ call'.receipt = "error" /\ call'.todo = todo
        /\ call'.probes = call.probes
    BY <1>2, <1>3 DEF Accept, Drop, CallFields
  <2>2. IsSeq(call.probes)
    BY DEF ExactInv, RequestsSound
  <2> HIDE DEF a
  <2> QED  BY <1>1, <1>2, <2>1, <2>2, DroppedExact
<1>4. CASE Accepts(a)
  <2> DEFINE bytes == IF a.t = "data" THEN Bytes(a) ELSE <<>>
             short == a.t = "data" /\ Len(bytes) < Asked.read
  <2>1. /\ call' = Takes(a) /\ answers' = Tail(answers)
    BY <1>4 DEF Accept
  <2>2. /\ call'.pc = "ready" /\ call'.op = op
        /\ call'.reconciles = call.reconciles
        /\ call'.got = call.got \o bytes
        /\ call'.todo = (IF short THEN <<>> ELSE Tail(todo))
        /\ call'.probes = call.probes /\ call'.found = call.found
        /\ call'.read = (IF a.t \in {"status", "relays"} THEN a.level
                         ELSE call.read)
    BY <1>2, <2>1 DEF Takes, CallFields
  <2>3. /\ a = answers[1] /\ Len(answers) = 1 /\ requests = <<>>
        /\ answers' = <<>> /\ ~Scanning
    BY <1>1, <1>4, <2>1, AcceptedOwed
  <2>4. a.t = Asked.t /\ ("shows" \in DOMAIN Asked => a.mode = Asked.shows)
        /\ (a.t = "data" => Len(Bytes(a)) = Asked.read \/ op.k = "capture")
    BY <1>4 DEF Accepts
  <2>5. Asked = Head(todo) /\ Head(todo) = todo[1] /\ 1 \in 1..Len(todo)
        /\ Len(todo) \in Nat \ {0}
    <3>1. Head(todo) = todo[1] /\ Len(todo) \in Nat \ {0}
      BY <1>2, SeqTail
    <3> QED  BY <3>1 DEF Asked
  <2> HIDE DEF a, todo
  <2>6. IsSeq(<<>>) /\ Len(<<>>) = 0
    BY EmptySeq DEF IsSeq
  <2>7. RequestsSound'
    <3>1. RequestsOf(todo) /\ IsSeq(call.probes)
      BY DEF ExactInv, RequestsSound, todo
    <3>2. RequestsOf(call'.todo)
      BY <1>2, <2>2, <3>1, RequestsShrink
    <3> QED  BY <1>2, <2>2, <3>2, <3>1 DEF ExactInv, RequestsSound
  <2>8. ReplyFresh' /\ ReportsAreExact'
    BY <2>2 DEF ReplyFresh, ReportsAreExact, Answered
  <2>9. OwnUnderWay'
    BY <1>2, <2>2, <2>3, <2>6 DEF OwnUnderWay
  <2>10. a.t \notin {"data", "nack"} => a.level = level /\ a.mode = mode
    BY <1>2, <2>3 DEF ExactInv, ReplyFresh
  <2>11. ReadBackLast'
    <3> SUFFICES ASSUME op.k = "set"
                 PROVE  ReadsBack(call'.todo)
                        /\ (call'.todo = <<>> => call'.read = level)
      BY <1>2, <2>2 DEF ReadBackLast
    <3>1. /\ \A i \in 1..Len(todo) : todo[i].t # "data"
          /\ todo[Len(todo)].t \in {"status", "relays"}
      BY <1>2 DEF ExactInv, ReadBackLast, ReadsBack, todo
    <3>2. a.t # "data"
      BY <2>4, <2>5, <3>1
    <3> DEFINE t == Tail(todo)
    <3>3. call'.todo = t
      BY <2>2, <3>2
    <3>4. /\ IsSeq(t) /\ Len(t) = Len(todo) - 1
          /\ \A i \in 1..Len(t) : t[i] = todo[i + 1]
      BY <1>2, SeqTail
    <3>5. t = <<>> <=> Len(t) = 0
      BY <3>4, SeqLength
    <3> HIDE DEF t
    <3>6. \A i \in 1..Len(t) : t[i].t # "data"
      <4>1. \A i \in 1..Len(t) : i + 1 \in 1..Len(todo)
        BY <2>5, <3>4
      <4> QED  BY <3>1, <3>4, <4>1
    <3>7. t # <<>> => t[Len(t)].t \in {"status", "relays"}
      <4> SUFFICES ASSUME t # <<>> PROVE t[Len(t)].t \in {"status", "relays"}
        OBVIOUS
      <4>1. Len(t) \in 1..Len(t) /\ Len(t) + 1 = Len(todo)
        BY <2>5, <3>4, <3>5
      <4> QED  BY <3>1, <3>4, <4>1
    <3>8. t = <<>> => call'.read = level
      <4> SUFFICES ASSUME t = <<>> PROVE call'.read = level
        OBVIOUS
      <4>1. Len(todo) = 1
        BY <2>5, <3>4, <3>5
      <4>2. a.t \in {"status", "relays"}
        BY <2>4, <2>5, <3>1, <4>1
      <4> QED  BY <2>2, <2>10, <4>2
    <3> QED  BY <3>3, <3>6, <3>7, <3>8 DEF ReadsBack
  <2>12. TransfersSound'
    <3> SUFFICES ASSUME op.k # "scan", ~call.reconciles
                 PROVE  Left(call'.todo, plan) /\ Matched(Own', call')
      BY <2>2 DEF TransfersSound
    <3>1. /\ Left(todo, plan)
          /\ IF Asked.t = "data"
             THEN \E own, e :
                    /\ Own = Append(own, e) /\ Matched(own, call)
                    /\ Executes(e, Asked)
                    /\ answers[1].t = "data" => answers[1].frame = Encode(e.rx)
             ELSE Matched(Own, call)
      BY <1>2, <2>3 DEF ExactInv, TransfersSound, todo
    <3>2. op \in PirateOperation
      BY <1>1, OperationsKnown
    <3>3. PlanSound(plan) /\ IsSeq(plan) /\ Len(plan) \in Nat
      BY <3>2, PlansSound, SeqLength DEF PlanSound
    <3>4. Left(call'.todo, plan)
      <4>1. 1..Len(<<>>) = {}
        BY <2>6
      <4>2. Left(<<>>, plan)
        BY <4>1 DEF Left
      <4>3. Left(Tail(todo), plan)
        BY <1>2, <3>1, <3>3, LeftTail
      <4> QED  BY <2>2, <4>2, <4>3
    <3>5. Own' = Own
      BY <1>2 DEF Own
    <3>6. CASE Asked.t = "data"
      <4>1. PICK own, e : /\ Own = Append(own, e) /\ Matched(own, call)
                          /\ Executes(e, Asked)
                          /\ a.t = "data" => a.frame = Encode(e.rx)
        BY <2>3, <3>1, <3>6
      <4>2. Bytes(a) = e.rx
        <5>1. a.frame = Encode(e.rx) /\ e.rx \in Seq(Nat)
          BY <2>4, <3>6, <4>1 DEF Executes
        <5> QED  BY <5>1, FramesDecode DEF Bytes
      <4>3. call'.got = call.got \o e.rx
        BY <2>2, <2>4, <3>6, <4>2
      <4>4. Len(e.rx) = Asked.read \/ op.k = "capture"
        BY <2>4, <3>6, <4>2
      <4>5. \/ call'.todo = Tail(todo)
            \/ op.k = "capture" /\ call'.todo = <<>>
        <5>1. CASE ~short
          BY <2>2, <5>1
        <5>2. CASE short
          <6>1. Len(e.rx) < Asked.read /\ call'.todo = <<>>
            BY <2>2, <4>2, <5>2
          <6>2. Asked.read \in Nat /\ Len(e.rx) \in Nat
            <7>1. DataRequest(Asked) /\ e.rx \in Seq(Nat)
              BY <2>5, <3>6, <4>1
                 DEF ExactInv, RequestsSound, RequestsOf, todo, Executes
            <7> QED  BY <7>1, DataRequestFields
          <6>3. Len(e.rx) # Asked.read
            BY <6>1, <6>2
          <6> QED  BY <4>4, <6>1, <6>3
        <5> QED  BY <5>1, <5>2
      <4> DEFINE c == call  d == call'
      <4>6. Matched(Append(own, e), d)
        <5>1. /\ Matched(own, c) /\ c.op \in PirateOperation
              /\ IsSeq(c.todo) /\ c.todo # <<>> /\ Left(c.todo, PlanOf(c.op))
              /\ Head(c.todo).t = "data" /\ Executes(e, Head(c.todo))
              /\ d.op = c.op /\ d.got = c.got \o e.rx
              /\ \/ d.todo = Tail(c.todo)
                 \/ c.op.k = "capture" /\ d.todo = <<>>
              /\ Len(e.rx) = Head(c.todo).read \/ c.op.k = "capture"
          BY <1>2, <2>2, <2>5, <3>1, <3>2, <3>6, <4>1, <4>3, <4>4, <4>5 DEF todo
        <5> HIDE DEF c, d
        <5> QED  BY <5>1, TakenMatched
      <4> QED  BY <3>4, <3>5, <4>1, <4>6
    <3>7. CASE Asked.t # "data"
      <4>1. Matched(Own, call) /\ a.t # "data"
        BY <2>4, <3>1, <3>7
      <4>2. call'.todo = Tail(todo) /\ call'.got = call.got \o <<>>
        BY <2>2, <4>1
      <4>3. call.got \in Seq(Nat)
        <5>1. EventsTyped(Own) /\ call.got = Received(Own)
          BY <4>1, MatchedEvents DEF Matched
        <5>2. Pieces([i \in DOMAIN Own |-> Own[i].rx], Nat)
          BY <5>1, RxPieces
        <5> QED  BY <5>1, <5>2, FlattenTyped DEF Received
      <4>4. call'.got = call.got
        BY <4>2, <4>3, ConcatEmptySeq
      <4>5. Through(todo, plan) = 0 /\ Through(Tail(todo), plan) = 0
        BY <1>2, <2>5, <3>1, <3>3, <3>7, LeftTail
      <4>6. Len(Own) = 0
        BY <1>2, <4>1, <4>5 DEF Matched, todo
      <4>7. Matched(Own, call')
        BY <2>2, <4>1, <4>2, <4>4, <4>5, <4>6 DEF Matched
      <4> QED  BY <3>4, <3>5, <4>7
    <3> QED  BY <3>6, <3>7
  <2>13. ScansSound'
    <3> SUFFICES ASSUME op.k = "scan", ~call.reconciles, Clean'
                 PROVE  ScansSound'
      BY <2>2 DEF ScansSound
    <3>1. Clean
      BY <2>2 DEF Clean
    <3>2. Left(todo, ScanProbes) /\ ModeShown(todo) /\ ScanMatched(call)
      BY <1>2, <3>1 DEF ExactInv, ScansSound, todo
    <3>3. Asked.t # "data" /\ a.t # "data"
      BY <1>2, <2>4 DEF Probing
    <3>4. call'.todo = Tail(todo)
      BY <2>2, <3>3
    <3>5. PlanSound(ScanProbes) /\ IsSeq(ScanProbes)
      BY ProbesArePlanned DEF ProbesPlanned, PlanSound, IsData
    <3>6. /\ Left(Tail(todo), ScanProbes)
          /\ Through(todo, ScanProbes) = 0 /\ Through(Tail(todo), ScanProbes) = 0
      BY <1>2, <2>5, <3>2, <3>3, <3>5, LeftTail
    <3>7. ModeShown(Tail(todo))
      BY <1>2, <3>2, ModeShownTail
    <3>8. ScanMatched(call')
      BY <2>2, <3>2, <3>4, <3>6 DEF ScanMatched, todo
    <3>9. ASSUME Scanning' PROVE mode = "I2C"
      <4>1. Len(todo) > 1 => todo[2].t = "data"
        <5> SUFFICES ASSUME Len(todo) > 1 PROVE todo[2].t = "data"
          OBVIOUS
        <5>1. Len(Tail(todo)) = Len(todo) - 1 /\ Tail(todo)[1] = todo[2]
              /\ 1 \in 1..Len(Tail(todo))
          <6>1. Len(Tail(todo)) = Len(todo) - 1
                /\ \A i \in 1..Len(Tail(todo)) : Tail(todo)[i] = todo[i + 1]
            BY <1>2, SeqTail
          <6>2. 1 \in 1..Len(Tail(todo)) /\ 1 + 1 = 2
            BY <2>5, <6>1
          <6>3. Tail(todo)[1] = todo[1 + 1]
            BY <6>1, <6>2
          <6> QED  BY <6>1, <6>2, <6>3
        <5> QED  BY <3>4, <3>9, <5>1 DEF Scanning
      <4>2. todo[1] = ShowsI2c
        <5>1. 1 < Len(todo) => todo[1 + 1].t = "data"
          BY <4>1, <2>5
        <5> QED  BY <2>5, <3>2, <3>3, <5>1 DEF ModeShown
      <4>3. "shows" \in DOMAIN Asked /\ Asked.shows = "I2C" /\ Asked.t = "status"
        BY <2>5, <4>2 DEF ShowsI2c
      <4> QED  BY <2>4, <2>10, <4>3
    <3> QED  BY <1>2, <2>2, <2>3, <3>4, <3>6, <3>7, <3>8, <3>9 DEF ScansSound
  <2> QED  BY <1>1, <2>7, <2>8, <2>9, <2>11, <2>12, <2>13 DEF ExactInv
<1> QED  BY <1>3, <1>4

-----------------------------------------------------------------------------
(* Probes                                                                   *)

LEMMA Halves ==
  ASSUME NEW i \in Nat
  PROVE  /\ ProbedAddress(i) \in Nat
         /\ i % 2 = 1 => \A a \in Nat : 2 * a <= i <=> 2 * a <= i - 1
         /\ i % 2 # 1 => /\ i \div 2 \in Nat /\ 2 * (i \div 2) = i
                         /\ ProbedAddress(i) = i \div 2
                         /\ ProbedAddress(i - 1) = i \div 2
         /\ 2 * ProbedAddress(i) = i \/ 2 * ProbedAddress(i) = i + 1
<1> DEFINE q == i \div 2  x == (i + 1) \div 2
<1>1. q \in Nat /\ 2 * q <= i /\ i < 2 * q + 2
  BY Quotient
<1>2. x \in Nat /\ 2 * x <= i + 1 /\ i + 1 < 2 * x + 2
  <2>1. i + 1 \in Nat
    OBVIOUS
  <2> QED  BY <2>1, Quotient
<1>3. i % 2 = i - 2 * q
  OBVIOUS
<1>4. ProbedAddress(i) = x
  BY DEF ProbedAddress
<1>5. ProbedAddress(i - 1) = q
  <2>1. (i - 1) + 1 = i
    OBVIOUS
  <2> QED  BY <2>1 DEF ProbedAddress
<1> HIDE DEF q, x
<1>6. i % 2 = 1 => \A a \in Nat : 2 * a <= i <=> 2 * a <= i - 1
  BY <1>1, <1>3
<1>7. i % 2 # 1 => 2 * q = i /\ x = q
  BY <1>1, <1>2, <1>3
<1>8. 2 * x = i \/ 2 * x = i + 1
  BY <1>1, <1>2
<1> QED  BY <1>1, <1>2, <1>4, <1>5, <1>6, <1>7, <1>8 DEF q

FoundAfter(c, probes) ==
  LET j == Len(probes)
  IN  IF j % 2 # 1 /\ "ok" \in {probes[i] : i \in (j - 1)..j}
      THEN c.found \cup {j \div 2} ELSE c.found

LEMMA JudgedFields ==
  ASSUME BusInv, NEW outcome
  PROVE  /\ Judged(outcome).probes = Append(call.probes, outcome)
         /\ Judged(outcome).found
              = FoundAfter(call, Append(call.probes, outcome))
<1> DEFINE probes == Append(call.probes, outcome)
           pair == {probes[i] : i \in (Len(probes) - 1)..Len(probes)}
           after == [call EXCEPT !.pc = "ready", !.todo = Tail(@), !.probes = probes]
<1>1. DOMAIN call = CallFields
  BY DEF BusInv, CallTyped
<1>2. Judged(outcome) =
        IF Len(probes) % 2 = 1 THEN after
        ELSE IF "ok" \in pair
        THEN [after EXCEPT !.found = @ \cup {Len(probes) \div 2}]
        ELSE IF pair = {"nack"} THEN after
        ELSE [after EXCEPT !.receipt = "failed"]
  BY DEF Judged
<1>3. FoundAfter(call, probes) =
        IF Len(probes) % 2 # 1 /\ "ok" \in pair
        THEN call.found \cup {Len(probes) \div 2} ELSE call.found
  BY DEF FoundAfter
<1> HIDE DEF probes, pair
<1>4. /\ DOMAIN after = CallFields /\ after.probes = probes
      /\ after.found = call.found
  BY <1>1 DEF CallFields
<1> HIDE DEF after
<1>5. /\ Judged(outcome).probes = probes
      /\ Judged(outcome).found = FoundAfter(call, probes)
  BY <1>2, <1>3, <1>4 DEF CallFields
<1> QED  BY <1>5 DEF probes

\* Another probe that was answered according to what devices there are
LEMMA ProbeMatched ==
  ASSUME NEW c, IsSeq(c.probes), IsSeq(c.todo), c.todo # <<>>, ScanMatched(c),
         Left(c.todo, ScanProbes), Head(c.todo).t = "data",
         NEW outcome,
         outcome = (IF ProbedAddress(Through(c.todo, ScanProbes) + 1) \in Present
                    THEN "ok" ELSE "nack"),
         NEW d, d.todo = Tail(c.todo), d.probes = Append(c.probes, outcome),
         d.found = FoundAfter(c, Append(c.probes, outcome))
  PROVE  ScanMatched(d)
<1> DEFINE n == Through(c.todo, ScanProbes)  p == c.probes
           v == Append(p, outcome)
<1>1. PlanSound(ScanProbes) /\ IsSeq(ScanProbes)
  BY ProbesArePlanned DEF ProbesPlanned, PlanSound, IsData
<1>2. n \in Nat /\ Through(d.todo, ScanProbes) = n + 1
  BY <1>1, LeftTail
<1>3. /\ Len(p) = n
      /\ \A i \in 1..n :
           p[i] = IF ProbedAddress(i) \in Present THEN "ok" ELSE "nack"
      /\ c.found = {a \in Present : 2 * a <= n}
  BY DEF ScanMatched
<1>4. /\ IsSeq(v) /\ Len(v) = n + 1 /\ \A i \in 1..n : v[i] = p[i]
      /\ v[n + 1] = outcome
  BY <1>3, SeqAppend
<1>5. d.probes = v /\ d.found = FoundAfter(c, v)
  OBVIOUS
<1>6. outcome = (IF ProbedAddress(n + 1) \in Present THEN "ok" ELSE "nack")
  OBVIOUS
<1> HIDE DEF n, p, v
<1> DEFINE j == n + 1
<1>7. \A i \in 1..j : i \in 1..n \/ i = j
  BY <1>2
<1>8. \A i \in 1..j : v[i] = IF ProbedAddress(i) \in Present THEN "ok" ELSE "nack"
  BY <1>3, <1>4, <1>6, <1>7
<1>9. j \in Nat \ {0} /\ j - 1 = n
  BY <1>2
<1>10. c.found = {a \in Present : 2 * a <= j - 1} /\ Len(v) = j
  BY <1>3, <1>4, <1>9
<1> HIDE DEF j
<1>11. \A a \in Present : a \in Nat \ {0}
  BY BusParameters
<1>12. d.found = {a \in Present : 2 * a <= j}
  <2>1. CASE j % 2 = 1
    <3>1. d.found = c.found
      BY <1>5, <1>10, <2>1 DEF FoundAfter
    <3>2. \A a \in Nat : 2 * a <= j <=> 2 * a <= j - 1
      BY <1>9, <2>1, Halves
    <3> QED  BY <1>10, <1>11, <3>1, <3>2
  <2>2. CASE j % 2 # 1
    <3> DEFINE q == j \div 2
               pair == {v[i] : i \in (j - 1)..j}
    <3>1. /\ q \in Nat /\ 2 * q = j /\ ProbedAddress(j) = q
          /\ ProbedAddress(j - 1) = q
      BY <1>9, <2>2, Halves
    <3>2. d.found = IF "ok" \in pair THEN c.found \cup {q} ELSE c.found
      BY <1>5, <1>10, <2>2 DEF FoundAfter
    <3> HIDE DEF q
    <3>3. j - 1 \in 1..j /\ j \in 1..j /\ \A i \in (j - 1)..j : i = j - 1 \/ i = j
      BY <1>9, <3>1
    <3>4. "ok" \in pair <=> q \in Present
      <4>1. v[j] = (IF q \in Present THEN "ok" ELSE "nack")
            /\ v[j - 1] = (IF q \in Present THEN "ok" ELSE "nack")
        BY <1>8, <3>1, <3>3
      <4>2. j \in (j - 1)..j
        BY <1>9
      <4> QED  BY <3>3, <4>1, <4>2
    <3> HIDE DEF pair
    <3>5. \A a \in Present : 2 * a <= j <=> 2 * a <= j - 1 \/ a = q
      BY <1>9, <1>11, <3>1
    <3> QED  BY <1>10, <3>2, <3>4, <3>5
  <2> QED  BY <2>1, <2>2
<1> QED  BY <1>2, <1>5, <1>8, <1>10, <1>12 DEF ScanMatched, j

\* A scan goes on after a probe.
LEMMA ProbedExact ==
  ASSUME ExactInv, BusInv', NEW outcome, Probed(outcome),
         call.pc = "wait", Probing, session # 0,
         UNCHANGED <<requests, mode, level, wire, calls>>,
         outcome = "timeout"
         \/ /\ answers # <<>> /\ outcome = Outcome(Head(answers))
            /\ session' # 0 => answers' = Tail(answers)
  PROVE  ExactInv'
<1> DEFINE todo == call.todo  v == Append(call.probes, outcome)
           g == Judged(outcome)
<1>1. /\ BusInv /\ IsSeq(todo) /\ todo # <<>> /\ Scanning /\ call.op.k = "scan"
      /\ IsSeq(call.probes) /\ RequestsOf(todo) /\ IsSeq(answers)
  BY ProbingScans
     DEF ExactInv, BusInv, BusTypeOK, CallTyped, RequestsSound, Probing
<1>2. /\ DOMAIN g = CallFields /\ g.op = call.op /\ g.pc = "ready"
      /\ g.reconciles = call.reconciles /\ g.todo = Tail(todo)
      /\ g.probes = v /\ g.found = FoundAfter(call, v)
  BY <1>1, JudgedShape, JudgedFields
<1> HIDE DEF g, todo
<1>3. /\ IsSeq(v) /\ Len(v) = Len(call.probes) + 1
      /\ \A i \in 1..Len(call.probes) : v[i] = call.probes[i]
      /\ v[Len(call.probes) + 1] = outcome
      /\ Len(call.probes) \in Nat /\ DOMAIN v = 1..Len(v)
      /\ DOMAIN call.probes = 1..Len(call.probes)
  BY <1>1, SeqAppend, SeqLength
<1> HIDE DEF v
<1>4. CASE g.receipt = "failed"
  <2>1. /\ call'.pc = "done" /\ call'.receipt = "error"
        /\ call'.todo = Tail(todo) /\ call'.probes = v
    BY <1>2, <1>4 DEF Probed, Drop, CallFields, g
  <2> QED  BY <1>1, <1>3, <2>1, DroppedExact DEF todo
<1>5. CASE g.receipt # "failed"
  <2>1. call' = g /\ session' = session
    BY <1>5 DEF Probed, g
  <2>2. RequestsOf(Tail(todo))
    BY <1>1, RequestsShrink
  <2>3. RequestsSound'
    BY <1>2, <1>3, <2>1, <2>2 DEF ExactInv, RequestsSound
  <2>4. ReplyFresh' /\ ReadBackLast' /\ TransfersSound' /\ ReportsAreExact'
    BY <1>1, <1>2, <2>1
       DEF ReplyFresh, ReadBackLast, TransfersSound, ReportsAreExact, Answered
  <2>5. ASSUME Clean'
        PROVE  Clean /\ ~call.reconciles /\ outcome # "timeout"
    <3>1. ~call.reconciles /\ "timeout" \notin Range(v)
      BY <1>1, <1>2, <2>1, <2>5 DEF Clean
    <3>2. ASSUME NEW i \in 1..Len(v) PROVE v[i] # "timeout"
      BY <1>3, <3>1, <3>2 DEF Range
    <3>3. outcome # "timeout"
      <4>1. Len(call.probes) + 1 \in 1..Len(v)
        BY <1>3
      <4> QED  BY <1>3, <3>2, <4>1
    <3>4. "timeout" \notin Range(call.probes)
      <4>1. \A i \in 1..Len(call.probes) : i \in 1..Len(v)
        BY <1>3
      <4>2. \A i \in 1..Len(call.probes) : call.probes[i] # "timeout"
        BY <1>3, <3>2, <4>1
      <4> QED  BY <1>3, <4>2 DEF Range
    <3> QED  BY <3>1, <3>3, <3>4 DEF Clean
  <2>6. ASSUME Clean'
        PROVE  /\ Left(todo, ScanProbes) /\ ModeShown(todo) /\ ScanMatched(call)
               /\ mode = "I2C" /\ requests = <<>> /\ Len(answers) = 1
               /\ AnswersProbe(answers[1], Asked,
                               Through(todo, ScanProbes) + 1)
    <3>1. ScansSound /\ Clean /\ ~call.reconciles /\ outcome # "timeout"
      BY <2>5, <2>6 DEF ExactInv
    <3>2. answers # <<>>
      BY <3>1
    <3> QED  BY <1>1, <3>1, <3>2 DEF ScansSound, todo
  <2>7. OwnUnderWay'
    <3> SUFFICES ASSUME Clean' PROVE OwnUnderWay'
      BY DEF OwnUnderWay
    <3>1. requests' = <<>> /\ 1..Len(requests') = {}
      BY <2>6, EmptySeq
    <3> QED  BY <1>2, <2>1, <3>1 DEF OwnUnderWay
  <2>8. ScansSound'
    <3> SUFFICES ASSUME Clean', ~call.reconciles PROVE ScansSound'
      BY <1>2, <2>1 DEF ScansSound
    <3> DEFINE n == Through(todo, ScanProbes)
    <3>1. /\ answers # <<>> /\ outcome = Outcome(Head(answers))
          /\ answers' = Tail(answers)
      BY <2>1, <2>5
    <3>2. Head(answers) = answers[1] /\ answers' = <<>>
      <4>1. /\ Head(answers) = answers[1] /\ IsSeq(Tail(answers))
            /\ Len(Tail(answers)) = Len(answers) - 1
        BY <1>1, <3>1, SeqTail
      <4>2. Len(Tail(answers)) = 0
        BY <2>6, <4>1
      <4> QED  BY <3>1, <4>1, <4>2, SeqLength
    <3>3. Asked = Head(todo) /\ Asked.t = "data" /\ DataRequest(Asked)
      <4>1. Head(todo) = todo[1] /\ 1 \in 1..Len(todo)
        BY <1>1, SeqTail
      <4> QED  BY <1>1, <4>1 DEF Asked, Probing, RequestsOf, todo
    <3>4. outcome = IF ProbedAddress(n + 1) \in Present THEN "ok" ELSE "nack"
      <4>1. AnswersProbe(answers[1], Asked, n + 1)
        BY <2>6
      <4> HIDE DEF n
      <4>2. CASE ProbedAddress(n + 1) \in Present
        <5>1. answers[1].t = "data" /\ Len(Bytes(answers[1])) = Asked.read
          BY <4>1, <4>2 DEF AnswersProbe
        <5>2. "shows" \notin DOMAIN Asked
          BY <3>3, DataRequestFields
        <5>3. Accepts(answers[1])
          BY <3>3, <5>1, <5>2 DEF Accepts
        <5> QED  BY <3>1, <3>2, <4>2, <5>1, <5>3 DEF Outcome
      <4>3. CASE ProbedAddress(n + 1) \notin Present
        BY <3>1, <3>2, <4>1, <4>3 DEF AnswersProbe, Outcome
      <4> QED  BY <4>2, <4>3
    <3>5. ScanMatched(call')
      <4> DEFINE c == call  d == call'
      <4>1. /\ IsSeq(c.probes) /\ IsSeq(c.todo) /\ c.todo # <<>> /\ ScanMatched(c)
            /\ Left(c.todo, ScanProbes) /\ Head(c.todo).t = "data"
            /\ outcome =
                 (IF ProbedAddress(Through(c.todo, ScanProbes) + 1) \in Present
                  THEN "ok" ELSE "nack")
            /\ d.todo = Tail(c.todo) /\ d.probes = Append(c.probes, outcome)
            /\ d.found = FoundAfter(c, Append(c.probes, outcome))
        BY <1>1, <1>2, <2>1, <2>6, <3>3, <3>4 DEF todo, v
      <4> HIDE DEF c, d, n
      <4>2. ScanMatched(d)
        BY <4>1, ProbeMatched
      <4> QED  BY <4>2 DEF d
    <3>6. Left(Tail(todo), ScanProbes)
      <4>1. IsSeq(ScanProbes)
        BY ProbesArePlanned DEF ProbesPlanned
      <4> QED  BY <1>1, <2>6, <4>1, LeftTail
    <3>7. ModeShown(Tail(todo))
      BY <1>1, <2>6, ModeShownTail
    <3> QED
      BY <1>2, <2>1, <2>6, <3>2, <3>5, <3>6, <3>7 DEF ScansSound
  <2> QED  BY <2>3, <2>4, <2>7, <2>8 DEF ExactInv
<1> QED  BY <1>4, <1>5

LEMMA ProbeExact ==
  ASSUME ExactInv, Probe \/ ProbeTimesOut
  PROVE  ExactInv'
<1>1. BusInv /\ BusInv'
  BY ProbeInv DEF ExactInv
<1>2. CASE Probe
  <2>1. /\ Probed(Outcome(Head(answers))) /\ call.pc = "wait" /\ Probing
        /\ session # 0 /\ UNCHANGED <<requests, mode, level, wire, calls>>
        /\ answers # <<>> /\ (session' # 0 => answers' = Tail(answers))
    BY <1>1, <1>2 DEF Probe, target, BusInv, BusTypeOK
  <2> QED  BY <1>1, <2>1, ProbedExact
<1>3. CASE ProbeTimesOut
  <2>1. /\ Probed("timeout") /\ call.pc = "wait" /\ Probing
        /\ session # 0 /\ UNCHANGED <<requests, mode, level, wire, calls>>
    BY <1>1, <1>3 DEF ProbeTimesOut, target, BusInv, BusTypeOK
  <2> QED  BY <1>1, <2>1, ProbedExact
<1> QED  BY <1>2, <1>3

-----------------------------------------------------------------------------
(* The firmware carries out a request                                       *)

\* What carrying out a transfer adds to the events, and answers
Carried(e, x, a) ==
  /\ wire' = Append(wire, x)
  /\ x.n = e.n /\ Executes(x, e.r)
  /\ answers' = IF InSession(e) THEN Append(answers, a) ELSE answers
  /\ a.t \in {"data", "nack"}
  /\ a.t = "data" => a.frame = Encode(x.rx)
  /\ Acknowledged(e.r) => a.t = "data"
  /\ ~Acknowledged(e.r) => a.t = "nack"
  /\ Acknowledged(e.r) /\ mode # "UART" => Len(x.rx) = e.r.read
  /\ UNCHANGED <<mode, level>>

LEMMA TransferCarried ==
  ASSUME EventsTyped(wire), NEW e, DataRequest(e.r), Transfer(e)
  PROVE  \E x, a : Carried(e, x, a)
<1>1. PICK n \in Read(e.r) :
        /\ wire' = Append(wire, [n |-> e.n, reconciles |-> e.reconciles,
             tx |-> Bytes(e.r), rx |-> Fresh(n), start |-> e.r.start,
             stop |-> e.r.stop])
        /\ answers' = IF session # 0 /\ e.n >= session
                      THEN Append(answers,
                        IF Acknowledged(e.r)
                        THEN [t |-> "data", frame |-> Encode(Fresh(n))]
                        ELSE [t |-> "nack"])
                      ELSE answers
        /\ UNCHANGED <<mode, level>>
  BY DEF Transfer
<1> DEFINE x == [n |-> e.n, reconciles |-> e.reconciles, tx |-> Bytes(e.r),
                 rx |-> Fresh(n), start |-> e.r.start, stop |-> e.r.stop]
           a == IF Acknowledged(e.r)
                THEN [t |-> "data", frame |-> Encode(Fresh(n))]
                ELSE [t |-> "nack"]
<1>2. e.r.read \in Nat
  BY DataRequestFields
<1>3. n \in Nat /\ (Acknowledged(e.r) /\ mode # "UART" => n = e.r.read)
  <2>1. n \in {0} \cup {e.r.read} \cup 0..e.r.read
    BY DEF Read
  <2>2. n \in Nat
    BY <1>2, <2>1
  <2>3. Acknowledged(e.r) /\ mode # "UART" => n = e.r.read
    BY DEF Read
  <2> QED  BY <2>2, <2>3
<1>4. Fresh(n) \in Seq(Nat) /\ Len(Fresh(n)) = n
  BY <1>3, FreshTyped
<1>5. /\ x.n = e.n /\ x.tx = Bytes(e.r) /\ x.rx = Fresh(n)
      /\ x.start = e.r.start /\ x.stop = e.r.stop
  OBVIOUS
<1>6. /\ a.t \in {"data", "nack"}
      /\ a.t = "data" => a.frame = Encode(Fresh(n))
      /\ Acknowledged(e.r) => a.t = "data"
      /\ ~Acknowledged(e.r) => a.t = "nack"
  OBVIOUS
<1>7. /\ wire' = Append(wire, x)
      /\ answers' = IF session # 0 /\ e.n >= session
                    THEN Append(answers, a) ELSE answers
      /\ UNCHANGED <<mode, level>>
  BY <1>1
<1> HIDE DEF x, a
<1>8. Executes(x, e.r)
  BY <1>4, <1>5 DEF Executes
<1>9. Carried(e, x, a)
  BY <1>3, <1>4, <1>5, <1>6, <1>7, <1>8 DEF Carried, InSession
<1> QED  BY <1>9

\* The adapter takes a reply about the instrument only if it is the one that it
\* waits for.
LEMMA ReplyOwed ==
  ASSUME BusInv, call.pc = "wait", ~Scanning, Len(requests) = 1,
         NEW a, answers' = (IF InSession(requests[1]) THEN Append(answers, a)
                            ELSE answers),
         Len(answers') = 1, answers'[1].t \notin {"data", "nack"}
  PROVE  answers = <<>> /\ answers' = Append(answers, a) /\ answers'[1] = a
<1>1. IsSeq(answers) /\ Len(answers) \in Nat /\ requests # <<>>
      /\ (answers = <<>> <=> Len(answers) = 0)
  BY SeqLength, EmptySeq DEF BusInv, BusTypeOK
<1>2. AnswerOwed \/ ProbeFirst
  BY DEF BusInv, DebtsSound
<1>3. answers # <<>> => answers'[1] = answers[1]
  <2> SUFFICES ASSUME answers # <<>>, InSession(requests[1])
               PROVE  answers'[1] = answers[1]
    OBVIOUS
  <2>1. 1 \in 1..Len(answers)
    BY <1>1
  <2> QED  BY <1>1, <2>1, SeqAppend
<1>4. AnswerOwed
  <2> SUFFICES ASSUME ProbeFirst PROVE FALSE
    BY <1>2
  <2>1. 1..(Len(requests) - 1) = {}
    OBVIOUS
  <2> QED  BY <1>3, <2>1 DEF ProbeFirst
<1>5. answers = <<>> /\ InSession(requests[1])
  BY <1>1, <1>4 DEF AnswerOwed
<1>6. answers'[1] = a
  <2>1. Len(answers) + 1 = 1
    BY <1>1, <1>5
  <2>2. Append(answers, a)[Len(answers) + 1] = a
    BY <1>1, SeqAppend
  <2> QED  BY <1>5, <2>1, <2>2
<1> QED  BY <1>5, <1>6

\* A device acknowledges a probe if it is there.
LEMMA ProbeAcknowledged ==
  ASSUME mode = "I2C", NEW i \in 1..(2 * Addresses)
  PROVE  Acknowledged(ScanProbes[i]) <=> ProbedAddress(i) \in Present
<1> DEFINE a == ProbedAddress(i)  r == ScanProbes[i]
<1>1. a \in Nat
  <2>1. i \in Nat
    BY BusParameters
  <2> QED  BY <2>1, Halves
<1>2. IsData(r, <<IF i % 2 = 1 THEN WriteAddress(a) ELSE ReadAddress(a)>>,
             IF i % 2 = 1 THEN 0 ELSE 1, TRUE, TRUE)
  BY ProbesArePlanned DEF ProbesPlanned
<1> HIDE DEF a, r
<1>3. Bytes(r)[1] = IF i % 2 = 1 THEN 2 * a ELSE 2 * a + 1
  BY <1>2 DEF IsData, WriteAddress, ReadAddress
<1>4. Acknowledged(r) <=> \E b \in Present : Bytes(r)[1] \in {2 * b, 2 * b + 1}
  BY DEF Acknowledged, WriteAddress, ReadAddress
<1>5. \A b \in Nat : Bytes(r)[1] \in {2 * b, 2 * b + 1} <=> b = a
  <2> TAKE b \in Nat
  <2>1. CASE i % 2 = 1
    BY <1>1, <1>3, <2>1
  <2>2. CASE i % 2 # 1
    BY <1>1, <1>3, <2>2
  <2> QED  BY <2>1, <2>2
<1>6. Present \subseteq Nat
  BY BusParameters
<1>7. Acknowledged(r) <=> a \in Present
  BY <1>1, <1>4, <1>5, <1>6
<1> QED  BY <1>7 DEF a, r

LEMMA CarryOutExact ==
  ASSUME ExactInv, CarryOut
  PROVE  ExactInv'
<1> DEFINE e == Head(requests)  k == Len(requests)  todo == call.todo
           op == call.op  plan == PlanOf(op)
           DataStep == e.r.t = "data" /\ \E x, a : Carried(e, x, a)
           ReplyStep ==
             /\ e.r.t # "data" /\ wire' = wire
             /\ e.r.t # "set" => level' = level
             /\ answers' = IF InSession(e)
                           THEN Append(answers,
                                  [t |-> e.r.t, mode |-> mode', level |-> level'])
                           ELSE answers
<1>1. BusInv /\ BusInv'
  BY CarryOutInv DEF ExactInv
<1>2. /\ requests # <<>> /\ requests' = Tail(requests)
      /\ UNCHANGED <<kind, session, call, calls>>
      /\ IsSeq(requests) /\ IsSeq(answers) /\ IsSeq(wire) /\ IsSeq(todo)
  BY <1>1 DEF CarryOut, BusInv, BusTypeOK, CallTyped
<1>3. /\ e = requests[1] /\ k \in Nat \ {0}
      /\ IsSeq(requests') /\ Len(requests') = k - 1
      /\ \A i \in 1..(k - 1) : requests'[i] = requests[i + 1]
      /\ (requests' = <<>> <=> k = 1)
  <2>1. /\ e = requests[1] /\ k \in Nat \ {0}
        /\ IsSeq(requests') /\ Len(requests') = k - 1
        /\ \A i \in 1..(k - 1) : requests'[i] = requests[i + 1]
    BY <1>2, SeqTail
  <2>2. requests' = <<>> <=> Len(requests') = 0
    BY <2>1, SeqLength
  <2> HIDE DEF e, k
  <2> QED  BY <2>1, <2>2
<1>4. EventsTyped(wire)
  BY <1>2 DEF ExactInv, RequestsSound, EventsTyped
<1>5. e.r.t = "data" => DataRequest(e.r)
  BY <1>3 DEF ExactInv, RequestsSound
<1>6. DataStep \/ ReplyStep
  <2>1. CASE e.r.t = "data"
    BY <1>4, <1>5, <2>1, TransferCarried DEF CarryOut
  <2>2. CASE e.r.t # "data"
    BY <2>2 DEF CarryOut, Reply, InSession
  <2> QED  BY <2>1, <2>2
<1> HIDE DEF e, k, todo, DataStep, ReplyStep
<1>7. \A i \in 1..(k - 1) : i + 1 \in 1..k
  BY <1>3
<1>8. RequestsSound'
  <2>1. \A i \in 1..(k - 1) :
          requests'[i].r.t = "data" => DataRequest(requests'[i].r)
    BY <1>3, <1>7 DEF ExactInv, RequestsSound, k
  <2>2. EventsTyped(wire')
    <3>1. CASE DataStep
      <4>1. PICK x : wire' = Append(wire, x) /\ x.rx \in Seq(Nat)
        BY <3>1 DEF DataStep, Carried, Executes
      <4> QED  BY <1>4, <4>1, ReceivedAppend
    <3>2. CASE ReplyStep
      BY <1>4, <3>2 DEF ReplyStep
    <3> QED  BY <1>6, <3>1, <3>2
  <2> QED  BY <1>2, <1>3, <2>1, <2>2 DEF ExactInv, RequestsSound, EventsTyped
<1>9. ReplyFresh'
  <2> SUFFICES ASSUME call.pc = "wait", ~Scanning, requests' = <<>>,
                      Len(answers') = 1, answers'[1].t \notin {"data", "nack"}
               PROVE  answers'[1].level = level' /\ answers'[1].mode = mode'
    BY <1>2 DEF ReplyFresh, Scanning
  <2>1. k = 1
    BY <1>3
  <2>2. CASE DataStep
    <3>1. PICK a : /\ answers' = IF InSession(e) THEN Append(answers, a) ELSE answers
                   /\ a.t \in {"data", "nack"}
      BY <2>2 DEF DataStep, Carried
    <3>2. answers'[1] = a
      BY <1>1, <1>3, <2>1, <3>1, ReplyOwed DEF k
    <3> QED  BY <3>1, <3>2
  <2>3. CASE ReplyStep
    <3> DEFINE a == [t |-> e.r.t, mode |-> mode', level |-> level']
    <3>1. answers' = IF InSession(e) THEN Append(answers, a) ELSE answers
      BY <2>3 DEF ReplyStep
    <3>2. a.mode = mode' /\ a.level = level'
      OBVIOUS
    <3> HIDE DEF a
    <3>3. answers'[1] = a
      BY <1>1, <1>3, <2>1, <3>1, ReplyOwed DEF k
    <3> QED  BY <3>2, <3>3
  <2> QED  BY <1>6, <2>2, <2>3
<1>10. ReadBackLast'
  <2> SUFFICES ASSUME op.k = "set", call.pc # "done"
               PROVE  ReadsBack(todo) /\ (todo = <<>> => call.read = level')
    BY <1>2 DEF ReadBackLast, todo
  <2>1. ReadsBack(todo)
    BY DEF ExactInv, ReadBackLast, todo
  <2>2. todo # <<>>
    BY <1>1, <1>2 DEF BusInv, CallTyped, ScriptsCarriedOut, todo
  <2> QED  BY <2>1, <2>2
<1>11. OwnUnderWay'
  <2> SUFFICES ASSUME call.pc # "done", Clean
               PROVE  /\ \A i \in 1..(k - 1) :
                           requests'[i].n = calls =>
                             /\ call.pc = "wait" /\ i = k - 1
                             /\ requests'[i].r = Head(todo)
                      /\ call.pc = "wait" /\ requests' # <<>> =>
                           requests'[k - 1].n = calls
    BY <1>2, <1>3 DEF OwnUnderWay, Clean, todo
  <2>1. /\ \A i \in 1..k :
             requests[i].n = calls =>
               /\ call.pc = "wait" /\ i = k /\ requests[i].r = Head(todo)
        /\ call.pc = "wait" => requests[k].n = calls
    BY <1>2 DEF ExactInv, OwnUnderWay, k, todo
  <2>2. ASSUME NEW i \in 1..(k - 1), requests'[i].n = calls
        PROVE  /\ call.pc = "wait" /\ i = k - 1 /\ requests'[i].r = Head(todo)
    <3>1. requests'[i] = requests[i + 1] /\ i + 1 \in 1..k
      BY <1>3, <1>7
    <3>2. call.pc = "wait" /\ i + 1 = k /\ requests[i + 1].r = Head(todo)
      BY <2>1, <2>2, <3>1
    <3> QED  BY <1>3, <3>1, <3>2
  <2>3. ASSUME call.pc = "wait", requests' # <<>>
        PROVE  requests'[k - 1].n = calls
    <3>1. k - 1 \in 1..(k - 1) /\ (k - 1) + 1 = k
      BY <1>3, <2>3
    <3>2. requests'[k - 1] = requests[k]
      BY <1>3, <3>1
    <3> QED  BY <2>1, <2>3, <3>2
  <2> QED  BY <2>2, <2>3
\* The request under way is the last; one of the call's own is the only one.
<1>12. ASSUME call.pc # "done", Clean
       PROVE  /\ e.n = calls => /\ call.pc = "wait" /\ k = 1 /\ e.r = Asked
                                /\ requests' = <<>>
              /\ call.pc = "wait" /\ requests' = <<>> =>
                   e.n = calls /\ e.r = Asked
  <2>1. /\ \A i \in 1..k :
             requests[i].n = calls =>
               /\ call.pc = "wait" /\ i = k /\ requests[i].r = Head(todo)
        /\ call.pc = "wait" => requests[k].n = calls
    BY <1>2, <1>12 DEF ExactInv, OwnUnderWay, k, todo
  <2>2. 1 \in 1..k
    BY <1>3
  <2> QED  BY <1>3, <2>1, <2>2 DEF Asked, todo
<1>13. Own' = Belonging(wire', calls) /\ Own = Belonging(wire, calls)
  BY <1>2 DEF Own, Belonging
<1>14. TransfersSound'
  <2> SUFFICES ASSUME op.k # "scan", ~call.reconciles, call.pc # "done"
               PROVE  TransfersSound'
    BY <1>2 DEF TransfersSound
  <2>1. Clean
    BY DEF Clean
  <2>2. Left(todo, plan) /\ Matched(Own, call)
    BY <1>2 DEF ExactInv, TransfersSound, todo
  <2>3. CASE DataStep /\ e.n = calls
    <3>1. PICK x, a : Carried(e, x, a)
      BY <2>3 DEF DataStep
    <3>2. /\ call.pc = "wait" /\ e.r = Asked /\ requests' = <<>> /\ k = 1
          /\ Asked.t = "data" /\ Head(todo) = Asked
      BY <1>12, <2>1, <2>3 DEF DataStep, Asked, todo
    <3>3. Own' = Append(Own, x)
      <4>1. wire' = Append(wire, x) /\ x.n = calls
        BY <2>3, <3>1 DEF Carried
      <4> QED  BY <1>2, <1>13, <4>1, BelongingAppend
    <3>4. Executes(x, Asked)
      BY <3>1, <3>2 DEF Carried
    <3>5. answers = <<>> /\ InSession(e)
      <4>1. ~Scanning
        BY DEF Scanning
      <4>2. ~AtStart
        BY <3>2 DEF AtStart, Asked
      <4>3. AnswerOwed
        BY <1>1, <3>2, <4>1, <4>2 DEF BusInv, DebtsSound
      <4> QED  BY <1>2, <1>3, <3>2, <4>3 DEF AnswerOwed, k
    <3>6. answers'[1].t = "data" => answers'[1].frame = Encode(x.rx)
      <4>1. answers' = Append(answers, a)
        BY <3>1, <3>5 DEF Carried
      <4>2. Len(answers) = 0
        BY <3>5, EmptySeq
      <4>3. Append(answers, a)[Len(answers) + 1] = a
        BY <1>2, SeqAppend
      <4>4. answers'[1] = a
        <5>1. Len(answers) + 1 = 1
          BY <4>2
        <5> QED  BY <4>1, <4>3, <5>1
      <4> QED  BY <3>1, <4>4 DEF Carried
    <3> DEFINE o == Own
    <3>7. /\ Own' = Append(o, x) /\ Matched(o, call) /\ Executes(x, Asked)
          /\ answers'[1].t = "data" => answers'[1].frame = Encode(x.rx)
      BY <2>2, <3>3, <3>4, <3>6
    <3>8. Asked' = Asked /\ call' = call
      BY <1>2 DEF Asked
    <3> HIDE DEF o
    <3>9. \E own, ev :
            /\ Own' = Append(own, ev) /\ Matched(own, call')
            /\ Executes(ev, Asked')
            /\ answers'[1].t = "data" => answers'[1].frame = Encode(ev.rx)
      BY <3>7, <3>8
    <3> QED  BY <2>2, <3>2, <3>8, <3>9 DEF TransfersSound, todo
  <2>4. CASE ~(DataStep /\ e.n = calls)
    <3>1. Own' = Own
      <4>1. CASE DataStep
        <5>1. PICK x : wire' = Append(wire, x) /\ x.n = e.n
          BY <4>1 DEF DataStep, Carried
        <5> QED  BY <1>2, <1>13, <2>4, <4>1, <5>1, BelongingAppend
      <4>2. CASE ReplyStep
        BY <1>13, <4>2 DEF ReplyStep
      <4> QED  BY <1>6, <4>1, <4>2
    <3>2. ~(call.pc = "wait" /\ Asked.t = "data" /\ requests' = <<>>)
      <4> SUFFICES ASSUME call.pc = "wait", Asked.t = "data", requests' = <<>>
                   PROVE  FALSE
        OBVIOUS
      <4>1. e.n = calls /\ e.r.t = "data"
        BY <1>12, <2>1
      <4> QED  BY <1>6, <2>4, <4>1 DEF ReplyStep
    <3>3. Asked' = Asked /\ call' = call
      BY <1>2 DEF Asked
    <3> QED  BY <2>2, <3>1, <3>2, <3>3 DEF TransfersSound, todo
  <2> QED  BY <2>3, <2>4
<1>15. ScansSound'
  <2> SUFFICES ASSUME op.k = "scan", ~call.reconciles, call.pc # "done", Clean
               PROVE  ScansSound'
    BY <1>2 DEF ScansSound, Clean
  <2> DEFINE n == Through(todo, ScanProbes)
  <2>1. /\ Left(todo, ScanProbes) /\ ModeShown(todo) /\ ScanMatched(call)
        /\ Scanning =>
             mode = "I2C" /\ call.pc = "wait" /\ answers = <<>> /\ k = 1
    BY <1>2, <1>1 DEF ExactInv, ScansSound, todo, k, BusInv, CallTyped
  <2>2. ASSUME Scanning
        PROVE  /\ mode' = "I2C" /\ requests' = <<>> /\ Len(answers') = 1
               /\ AnswersProbe(answers'[1], Asked, n + 1)
    <3>1. /\ call.pc = "wait" /\ e.n = calls /\ e.r = Asked
          /\ requests' = <<>> /\ todo # <<>>
      BY <1>1, <1>3, <1>12, <2>1, <2>2 DEF BusInv, CallTyped, todo
    <3>2. Head(todo) = todo[1] /\ 1 \in 1..Len(todo) /\ Asked = Head(todo)
      BY <1>2, <3>1, SeqTail DEF Asked, todo
    <3>3. e.r.t = "data"
      BY <2>2, <3>1, <3>2 DEF Scanning, todo
    <3>4. PICK x, a : Carried(e, x, a)
      BY <1>6, <3>3 DEF DataStep, ReplyStep
    <3>5. InSession(e)
      BY <1>1, <3>1 DEF BusInv, BusTypeOK, InSession
    <3>6. answers' = Append(answers, a) /\ Len(answers) = 0
      BY <2>1, <2>2, <3>4, <3>5, EmptySeq DEF Carried
    <3>7. Len(answers') = 1 /\ answers'[1] = a
      <4>1. /\ Len(Append(answers, a)) = Len(answers) + 1
            /\ Append(answers, a)[Len(answers) + 1] = a
        BY <1>2, SeqAppend
      <4>2. Len(answers) + 1 = 1
        BY <3>6
      <4> QED  BY <3>6, <4>1, <4>2
    <3>8. Asked = ScanProbes[n + 1] /\ n + 1 \in 1..(2 * Addresses)
      <4>1. PlanSound(ScanProbes) /\ IsSeq(ScanProbes)
            /\ Len(ScanProbes) = 2 * Addresses
        BY ProbesArePlanned DEF ProbesPlanned, PlanSound, IsData
      <4>2. /\ Len(ScanProbes) >= Len(todo) /\ Asked = ScanProbes[n + 1]
            /\ n \in Nat
        BY <1>2, <2>1, <3>1, <3>2, <3>3, <4>1, LeftTail
      <4>3. n = IF Len(todo) > Len(ScanProbes) THEN 0
                ELSE Len(ScanProbes) - Len(todo)
        BY DEF Through
      <4>4. Len(todo) \in Nat \ {0} /\ 2 * Addresses \in Nat
        BY <1>2, <3>1, SeqTail, BusParameters
      <4> HIDE DEF n
      <4> QED  BY <4>1, <4>2, <4>3, <4>4
    <3> HIDE DEF n
    <3>9. Acknowledged(e.r) <=> ProbedAddress(n + 1) \in Present
      BY <2>1, <2>2, <3>1, <3>8, ProbeAcknowledged
    <3>10. AnswersProbe(a, Asked, n + 1)
      <4>1. CASE Acknowledged(e.r)
        <5>1. a.t = "data" /\ a.frame = Encode(x.rx) /\ Len(x.rx) = Asked.read
              /\ x.rx \in Seq(Nat)
          BY <2>1, <2>2, <3>1, <3>4, <4>1 DEF Carried, Executes
        <5>2. Bytes(a) = x.rx
          BY <5>1, FramesDecode DEF Bytes
        <5> QED  BY <3>9, <4>1, <5>1, <5>2 DEF AnswersProbe
      <4>2. CASE ~Acknowledged(e.r)
        BY <3>4, <3>9, <4>2 DEF Carried, AnswersProbe
      <4> QED  BY <4>1, <4>2
    <3>11. mode' = "I2C"
      BY <2>1, <2>2, <3>4 DEF Carried
    <3> QED  BY <3>1, <3>7, <3>10, <3>11
  <2>3. call' = call /\ Asked' = Asked /\ (Scanning' <=> Scanning)
    BY <1>2 DEF Asked, Scanning
  <2>4. Scanning => call.pc = "wait"
    BY <2>1
  <2> QED  BY <2>1, <2>2, <2>3, <2>4 DEF ScansSound, todo
<1>16. ReportsAreExact'
  <2> SUFFICES ASSUME Answered
               PROVE  /\ ~call.reconciles => AsAsked'
                      /\ call.op.k = "set" /\ call.receipt = "completed" =>
                           level' = call.op.level
    BY <1>2 DEF ReportsAreExact, Answered
  <2>1. call.op.k = "scan"
    BY <1>1, <1>2 DEF BusInv, ScriptsCarriedOut, ReceiptsOweNothing
  <2>2. ~call.reconciles => AsAsked
    BY DEF ExactInv, ReportsAreExact
  <2> QED  BY <1>2, <2>1, <2>2 DEF AsAsked
<1> QED
  BY <1>1, <1>8, <1>9, <1>10, <1>11, <1>14, <1>15, <1>16 DEF ExactInv

-----------------------------------------------------------------------------

LEMMA StutterExact ==
  ASSUME ExactInv, UNCHANGED vars
  PROVE  ExactInv'
<1>1. BusInv'
  BY StepInv DEF ExactInv
<1>2. /\ UNCHANGED <<call, requests, answers, mode, level, wire, calls>>
  BY DEF vars, target
<1>3. Own' = Own
  BY <1>2 DEF Own
<1>4. RequestsSound' /\ ReplyFresh' /\ ReadBackLast' /\ OwnUnderWay'
  BY <1>2
     DEF ExactInv, RequestsSound, ReplyFresh, ReadBackLast, OwnUnderWay, Clean,
         Scanning
<1>5. TransfersSound' /\ ScansSound'
  BY <1>2, <1>3
     DEF ExactInv, TransfersSound, ScansSound, Asked, Clean, Scanning
<1>6. ReportsAreExact'
  BY <1>2, <1>3
     DEF ExactInv, ReportsAreExact, Answered, AsAsked, OneTransaction, Written,
         ReadBytes
<1> QED  BY <1>1, <1>4, <1>5, <1>6 DEF ExactInv

LEMMA StepExact == ExactInv /\ [Next]_vars => ExactInv'
<1> SUFFICES ASSUME ExactInv, [Next]_vars PROVE ExactInv'
  OBVIOUS
<1> QED
  BY StutterExact, BeginExact, SendExact, CarryOutExact, AcceptExact,
     ProbeExact, FinishExact, FailExact DEF Next

\* What a call reports is what happened on the bus of the target: a transfer
\* was carried out once, whole, in order and within one transaction however it
\* was split, a scan found the devices that are there, and an output that is
\* reported as set stands as asked.
THEOREM ReceiptsAreExact == Spec => []ReportsAreExact
<1>1. ExactInv => ReportsAreExact
  BY DEF ExactInv
<1> QED  BY InitExact, StepExact, <1>1, PTL DEF Spec

=============================================================================
