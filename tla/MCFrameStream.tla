---------------------------- MODULE MCFrameStream ----------------------------
EXTENDS FrameStream

\* Small ids, one with the byte 175 at the end, one of all four bytes.
SomeChannels == {1, 431, 2130771713}
\* A night over midnight, a duration of more than 16 bits, no day at all.
SomeTasks ==
    {[start |-> 84600, duration |-> 7200,
      use_on |-> <<TRUE, FALSE, TRUE, FALSE, FALSE, FALSE, TRUE>>],
     [start |-> 0, duration |-> 68400, use_on |-> [d \in 1..7 |-> FALSE]]}
\* OK, INVALID_PIN and the value of the end mark.
SomeResults == {0, 9, 3}
SomeChunks == {1, 7, 20}
\* The header with its CRC, the mark of a request or an answer, both lengths.
HeaderBytes == (0..9) \cup {11, 17, 18}
=============================================================================
