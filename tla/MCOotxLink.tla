---- MODULE MCOotxLink ----
EXTENDS OotxLink, SequencesExt

Ones(payload) == Len(SelectSeq(FlattenSeq(payload), LAMBDA bit : bit = 1))

\* A checksum that counts the ones; of an empty payload it is zero, as CRC32 is.
Checksum(payload) ==
    <<[i \in 1 .. WordBits |-> IF i <= Ones(payload) THEN 1 ELSE 0],
      [i \in 1 .. WordBits |-> IF i <= Len(payload) THEN 1 ELSE 0]>>

TwoBitBytes == {<<0, 0>>, <<0, 1>>}

AllPayloads == UNION {[1 .. n -> TwoBitBytes] : n \in 0 .. 2}

====
