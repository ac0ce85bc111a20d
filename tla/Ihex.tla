-------------------------------- MODULE Ihex ---------------------------------
(***************************************************************************)
(* lib/ihex.c: ihex_feed, character by character, as bootloader_feed uses     *)
(* it on the blocks f_read returns.  The file is external; one of its          *)
(* characters may be damaged or lost.  A hexadecimal digit is its value.       *)
(***************************************************************************)
EXTENDS Integers, Sequences, SequencesExt

CONSTANTS
    IhexBufSize,   \* sizeof(ihex_buf), 70 in the code
    Records,       \* the files: sequences of <<type, address, data bytes>>
    MaxDamage      \* bound: characters damaged or lost

ASSUME IhexAssumption == IhexBufSize \in Nat /\ IhexBufSize >= 8 /\ MaxDamage \in Nat

COLON == 16
EOL   == 17   \* \r, \n or NUL
JUNK  == 18
Char  == {0, 1, 9, 15, COLON, EOL, JUNK}   \* what a damaged character becomes

DATA == 0
EOF_REC == 1
SEG_ADDR == 2
SEG_START == 3
LIN_ADDR == 4
LIN_START == 5

VARIABLES
    ihex_state, ihex_count, ihex_buf, ihex_cksum, ihex_base,
    source, text,   \* the records on the card, and their characters still to come
    damage,         \* characters damaged so far
    rc,             \* what ihex_feed returned last; bootloader_feed goes on with CONTINUE
    calls           \* history: the calls of bootloader_callback

parser == <<ihex_state, ihex_count, ihex_buf, ihex_cksum, ihex_base>>
ivars  == <<parser, source, text, damage, rc, calls>>

Encode(r) ==
    LET body  == <<Len(r[3]), r[2] \div 256, r[2] % 256, r[1]>> \o r[3]
        cksum == (256 - (FoldLeft(+, 0, body) % 256)) % 256
    IN  <<COLON>> \o FlattenSeq([i \in 1 .. Len(body) + 1 |->
              LET b == Append(body, cksum)[i] IN <<b \div 16, b % 16>>]) \o <<EOL, EOL>>

\* What a file says, by the definition of the format: the data of its records, each at
\* its address over the base in force, up to the end-of-file record.
Meaning(records) ==
    LET Step(m, r) ==
            CASE m.ended -> m
              [] ~m.ended /\ r[1] = DATA -> [m EXCEPT !.out = Append(@, <<m.base + r[2], r[3]>>)]
              [] ~m.ended /\ r[1] = EOF_REC -> [m EXCEPT !.ended = TRUE]
              [] ~m.ended /\ r[1] = SEG_ADDR -> [m EXCEPT !.base = (r[3][1] * 256 + r[3][2]) * 16]
              [] ~m.ended /\ r[1] = LIN_ADDR -> [m EXCEPT !.base = (r[3][1] * 256 + r[3][2]) * 65536]
              [] OTHER -> m
    IN  FoldLeft(Step, [base |-> 0, out |-> << >>, ended |-> FALSE], records)

IhexInit ==
    /\ ihex_state = "START" /\ ihex_count = 0 /\ ihex_cksum = 0 /\ ihex_base = 0
    /\ ihex_buf = [i \in 0 .. IhexBufSize - 1 |-> 0]
    /\ source \in Records /\ text = FlattenSeq([i \in DOMAIN source |-> Encode(source[i])])
    /\ damage = 0 /\ rc = "CONTINUE" /\ calls = << >>

Return(code) == rc' = code

\* Fault: the checksum is not looked at.
CksumGoodFault == TRUE

CksumGood == ihex_cksum = 0

\* The part of ihex_feed for a character that ends a record.
EndOfRecord ==
    LET rsize == ihex_buf[0]
        addr  == ihex_buf[1] * 256 + ihex_buf[2]
        rtype == ihex_buf[3]
        word  == ihex_buf[4] * 256 + ihex_buf[5]
    IN  /\ ihex_state' = "START"
        /\ UNCHANGED <<ihex_count, ihex_buf, ihex_cksum>>
        /\ CASE ihex_count < 5 \/ ihex_count # 5 + rsize ->
                  Return("INVALID") /\ UNCHANGED <<ihex_base, calls>>
             [] ihex_count = 5 + rsize /\ ~CksumGood ->
                  Return("CHECKSUM") /\ UNCHANGED <<ihex_base, calls>>
             [] OTHER ->
                  CASE rtype = DATA ->
                         /\ calls' = Append(calls, <<ihex_base + addr,
                                                     [i \in 1 .. rsize |-> ihex_buf[3 + i]]>>)
                         /\ Return("CONTINUE") /\ UNCHANGED ihex_base
                    [] rtype = EOF_REC -> Return("EOF") /\ UNCHANGED <<ihex_base, calls>>
                    [] rtype \in {SEG_ADDR, LIN_ADDR} /\ rsize # 2 ->
                         Return("INVALID") /\ UNCHANGED <<ihex_base, calls>>
                    [] rtype \in {SEG_ADDR, LIN_ADDR} /\ rsize = 2 ->
                         /\ ihex_base' = word * (IF rtype = SEG_ADDR THEN 16 ELSE 65536)
                         /\ Return("CONTINUE") /\ UNCHANGED calls
                    [] rtype \in {SEG_START, LIN_START} ->
                         Return("CONTINUE") /\ UNCHANGED <<ihex_base, calls>>
                    [] OTHER -> Return("UNSUPPORTED") /\ UNCHANGED <<ihex_base, calls>>

\* ... that starts one, ...
StartCode(dat) ==
    IF dat # COLON THEN Return("INVALID") /\ UNCHANGED parser
    ELSE /\ ihex_state' = "COPY1" /\ ihex_cksum' = 0 /\ ihex_count' = 0
         /\ Return("CONTINUE") /\ UNCHANGED <<ihex_buf, ihex_base>>

\* ... or belongs to one.
Nybble(dat) ==
    CASE dat \notin 0 .. 15 -> Return("INVALID") /\ UNCHANGED parser
      [] dat \in 0 .. 15 /\ ihex_state = "COPY1" ->
           IF ihex_count >= IhexBufSize THEN Return("UNSUPPORTED") /\ UNCHANGED parser
           ELSE /\ ihex_buf' = [ihex_buf EXCEPT ![ihex_count] = dat * 16]
                /\ ihex_state' = "COPY2"
                /\ Return("CONTINUE") /\ UNCHANGED <<ihex_count, ihex_cksum, ihex_base>>
      [] dat \in 0 .. 15 /\ ihex_state = "COPY2" ->
           LET b == ihex_buf[ihex_count] + dat
           IN  /\ ihex_buf' = [ihex_buf EXCEPT ![ihex_count] = b]
               /\ ihex_cksum' = (ihex_cksum + b) % 256
               /\ ihex_count' = ihex_count + 1
               /\ ihex_state' = "COPY1"
               /\ Return("CONTINUE") /\ UNCHANGED ihex_base

ihex_feed(dat) ==
    CASE dat = EOL /\ ihex_state = "START" -> Return("CONTINUE") /\ UNCHANGED <<parser, calls>>
      [] dat = EOL /\ ihex_state # "START" -> EndOfRecord
      [] dat # EOL /\ ihex_state = "START" -> StartCode(dat) /\ UNCHANGED calls
      [] dat # EOL /\ ihex_state # "START" -> Nybble(dat) /\ UNCHANGED calls

Character ==
    /\ rc = "CONTINUE" /\ text # << >>
    /\ ihex_feed(Head(text))
    /\ text' = Tail(text)
    /\ UNCHANGED <<source, damage>>

Damaged ==
    /\ rc = "CONTINUE" /\ text # << >> /\ damage < MaxDamage
    /\ \E c \in Char \ {Head(text)} : ihex_feed(c)
    /\ text' = Tail(text)
    /\ damage' = damage + 1
    /\ UNCHANGED source

LostChar ==
    /\ rc = "CONTINUE" /\ text # << >> /\ damage < MaxDamage
    /\ text' = Tail(text)
    /\ damage' = damage + 1
    /\ UNCHANGED <<parser, source, rc, calls>>

IhexNext == Character \/ Damaged \/ LostChar
IhexSpec == IhexInit /\ [][IhexNext]_ivars

-----------------------------------------------------------------------------

\* What reaches bootloader_callback, and with it the flash, is what the file says, in
\* its order and at its addresses; a damaged or lost character ends the update before
\* anything wrong is handed over, and only a whole file ends with IHEX_EOF.
IhexTrue ==
    LET meaning == Meaning(source)
    IN  /\ IsPrefix(calls, meaning.out)
        /\ rc = "EOF" => meaning.ended /\ calls = meaning.out
=============================================================================
