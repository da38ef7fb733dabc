-------------------------------- MODULE Cobs --------------------------------
(***************************************************************************)
(* The framing of a serial instrument (src/src/instruments/cobs.rs): a     *)
(* frame holds no delimiter but the one that ends it.  A full block stands *)
(* for its bytes alone, a shorter one for its bytes and a delimiter.       *)
(***************************************************************************)
EXTENDS Naturals, Sequences

CONSTANT FullBlock  \* bytes of a full block, 254 in the code

Delimiter == 0

AppendBlock(frame, block) == frame \o <<Len(block) + 1>> \o block

\* The bytes are taken one by one into a block, which is written out at a
\* delimiter, when it is full, and at the end.
Blocks(payload) ==
  LET step[i \in 0..Len(payload)] ==
        IF i = 0 THEN [frame |-> <<>>, block |-> <<>>]
        ELSE LET before == step[i - 1]
                 block == Append(before.block, payload[i])
             IN  IF payload[i] = Delimiter
                 THEN [frame |-> AppendBlock(before.frame, before.block),
                       block |-> <<>>]
                 ELSE IF Len(block) = FullBlock
                 THEN [frame |-> AppendBlock(before.frame, block),
                       block |-> <<>>]
                 ELSE [before EXCEPT !.block = block]
  IN  step[Len(payload)]

Encode(payload) ==
  AppendBlock(Blocks(payload).frame, Blocks(payload).block) \o <<Delimiter>>

Malformed == FullBlock + 2  \* no byte has this value

\* What is left to decode after the first i bytes, which end a block
Decode(frame) ==
  LET from[i \in 0..Len(frame)] ==
        IF i = Len(frame) THEN <<>>
        ELSE LET code == frame[i + 1]
                 next == i + code
             IN  IF code = 0 \/ next > Len(frame) THEN <<Malformed>>
                 ELSE SubSeq(frame, i + 2, next)
                      \o (IF code # FullBlock + 1 /\ next < Len(frame)
                          THEN <<Delimiter>> ELSE <<>>)
                      \o from[next]
  IN  IF frame = <<>> THEN <<Malformed>> ELSE from[0]

\* A frame as it is read from the port: up to its delimiter
Unframed(frame) == SubSeq(frame, 1, Len(frame) - 1)

=============================================================================
