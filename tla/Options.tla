------------------------------- MODULE Options -------------------------------
(***************************************************************************)
(* The options of a TCP header (tcp/transport/options.go): Marshal and     *)
(* ParseTCPOptions between a TCPOptions record and the bytes of the wire.  *)
(* A byte of a larger number v is written <<v, i>>, its i-th byte; kinds,  *)
(* lengths and shifts are numbers.                                         *)
(***************************************************************************)
EXTENDS Integers, Sequences

optEOL == 0
optNOP == 1
optMSS == 2
optWScale == 3
optSACKPerm == 4
optSACK == 5
optTimestamp == 8
maxWScale == 14

\* the zero value of TCPOptions, and what ParseTCPOptions returns with an error
noOptions == [HasMSS |-> FALSE, MSS |-> 0, HasWScale |-> FALSE, WindowScale |-> 0,
              SACKPermitted |-> FALSE, HasTimestamp |-> FALSE, TSVal |-> 0, TSecr |-> 0,
              SACKBlocks |-> <<>>]
malformed == [err |-> "malformed option"]

clampWScale(s) == IF s > maxWScale THEN maxWScale ELSE s

\* PutBe16, appendBe32; Be16, Be32 at offset off
bigEndian(v, width) == [i \in 1..width |-> <<v, i>>]
valueAt(val, off) == val[off + 1][1]

-----------------------------------------------------------------------------
RECURSIVE concatBlocks(_)
concatBlocks(blocks) ==
    IF blocks = <<>> THEN <<>>
    ELSE bigEndian(blocks[1][1], 4) \o bigEndian(blocks[1][2], 4) \o concatBlocks(Tail(blocks))

\* The options in their fixed order, padded with NOPs to words.
Marshal(o) ==
    LET b == (IF o.HasMSS THEN <<optMSS, 4>> \o bigEndian(o.MSS, 2) ELSE <<>>)
             \o (IF o.HasWScale THEN <<optWScale, 3, clampWScale(o.WindowScale)>> ELSE <<>>)
             \o (IF o.SACKPermitted THEN <<optSACKPerm, 2>> ELSE <<>>)
             \o (IF o.HasTimestamp
                 THEN <<optTimestamp, 10>> \o bigEndian(o.TSVal, 4) \o bigEndian(o.TSecr, 4)
                 ELSE <<>>)
             \o (IF o.SACKBlocks = <<>> THEN <<>>
                 ELSE <<optSACK, 2 + 8 * Len(o.SACKBlocks)>> \o concatBlocks(o.SACKBlocks))
    IN b \o [i \in 1..((4 - (Len(b) % 4)) % 4) |-> optNOP]

\* Whether an option of this kind may have this length; unknown kinds may have any.
lengthOK(kind, length) ==
    CASE kind = optMSS -> length = 4
      [] kind = optWScale -> length = 3
      [] kind = optSACKPerm -> length = 2
      [] kind = optSACK -> (length - 2) % 8 = 0
      [] kind = optTimestamp -> length = 10
      [] OTHER -> TRUE

\* What one option adds; unknown ones are skipped.
withOption(o, kind, val) ==
    CASE kind = optMSS -> [o EXCEPT !.HasMSS = TRUE, !.MSS = valueAt(val, 0)]
      [] kind = optWScale -> [o EXCEPT !.HasWScale = TRUE, !.WindowScale = clampWScale(val[1])]
      [] kind = optSACKPerm -> [o EXCEPT !.SACKPermitted = TRUE]
      [] kind = optSACK ->
             [o EXCEPT !.SACKBlocks = @ \o [k \in 1..(Len(val) \div 8) |->
                  <<valueAt(val, 8 * (k - 1)), valueAt(val, 8 * (k - 1) + 4)>>]]
      [] kind = optTimestamp -> [o EXCEPT !.HasTimestamp = TRUE, !.TSVal = valueAt(val, 0),
                                          !.TSecr = valueAt(val, 4)]
      [] OTHER -> o

\* The option's length covers at least its kind and length and is there entirely.
fits(b, length) == length >= 2 /\ length <= Len(b)

RECURSIVE parseRest(_, _)
parseRest(b, o) ==
    IF b = <<>> \/ b[1] = optEOL THEN o
    ELSE IF b[1] = optNOP THEN parseRest(Tail(b), o)
    ELSE IF Len(b) < 2 \/ ~fits(b, b[2]) \/ ~lengthOK(b[1], b[2]) THEN malformed
    ELSE parseRest(SubSeq(b, b[2] + 1, Len(b)), withOption(o, b[1], SubSeq(b, 3, b[2])))

ParseTCPOptions(b) == parseRest(b, noOptions)

\* The header's length in words.
DataOffsetForOptions(optLen) == 5 + (optLen + 3) \div 4
=============================================================================
