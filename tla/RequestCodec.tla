----------------------------- MODULE RequestCodec -----------------------------
(***************************************************************************)
(* How a row keeps the requests of a job: marshalRequests writes one       *)
(* message after the other, each behind its length, into one blob.         *)
(*                                                                         *)
(* A message is the sequence of its bytes.  Nothing in the program reads a *)
(* blob; ReadsAs says what the comment on the format promises a reader.    *)
(***************************************************************************)
EXTENDS Naturals, Sequences

Byte == 0..255

\* Messages whose length a uint32 can hold.
Messages == {m \in Seq(Byte) : Len(m) \div 16777216 < 256}

\* binary.Write of uint32(n), the highest byte first.
Prefix_LittleEndian(n) ==
    <<n % 256, (n \div 256) % 256, (n \div 65536) % 256, (n \div 16777216) % 256>>
Prefix(n) ==
    <<(n \div 16777216) % 256, (n \div 65536) % 256, (n \div 256) % 256, n % 256>>

\* The buffer after the first n of the messages.
Written(messages) ==
    LET buf[n \in 0..Len(messages)] ==
            IF n = 0 THEN <<>>
            ELSE buf[n - 1] \o Prefix(Len(messages[n])) \o messages[n]
    IN  buf

Marshal(messages) == Written(messages)[Len(messages)]

-----------------------------------------------------------------------------
\* The number in the four bytes after position p.
NumberAt(blob, p) ==
    IF p + 4 > Len(blob) THEN 0
    ELSE ((blob[p + 1] * 256 + blob[p + 2]) * 256 + blob[p + 3]) * 256 + blob[p + 4]

\* Where the first n entries of a blob end.
Ends(blob, n) ==
    LET end[k \in 0..n] ==
            IF k = 0 THEN 0 ELSE end[k - 1] + 4 + NumberAt(blob, end[k - 1])
    IN  end

\* The blob holds these messages and nothing else.
ReadsAs(blob, messages) ==
    LET n == Len(messages)
        end == Ends(blob, n)
    IN  /\ end[n] = Len(blob)
        /\ \A k \in 1..n : SubSeq(blob, end[k - 1] + 5, end[k]) = messages[k]
=============================================================================
