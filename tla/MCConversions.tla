--------------------------- MODULE MCConversions ---------------------------
(***************************************************************************)
(* The header codec and the word buffers in one run.  They share no        *)
(* variable, so each moves while the other one has not started.            *)
(***************************************************************************)
EXTENDS HeaderCodec, WordBuffers

Counting(n) == [k \in 1 .. n |-> k % ByteRange]

\* Around every whole number of words up to one more than there is room for,
\* and contents that tell the bytes of a word and two buffers apart.
SomeInputs ==
  {Counting(n) : n \in {0, 1, 3, 4, 5, 7, 8, 9, 12, 13, 16}}
    \cup {[k \in 1 .. n |-> (k + k \div WORD_SIZE) % ByteRange] : n \in {4, 8, 12}}

ConversionsInit == CodecInit /\ BuffersInit

ConversionsNext ==
  \/ CodecNext /\ bytes = <<>> /\ memory = [i \in 1 .. Capacity |-> 0] /\ outputSize = Capacity
       /\ UNCHANGED bufferVars
  \/ BuffersNext /\ header = EmptyHeader /\ buffer = [k \in 1 .. WORD_SIZE |-> 0]
       /\ UNCHANGED codecVars

ConversionsSpec == ConversionsInit /\ [][ConversionsNext]_<<codecVars, bufferVars>>

=============================================================================
