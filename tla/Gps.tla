-------------------------------- MODULE Gps ---------------------------------
(***************************************************************************)
(* The GPS byte stream: gps_byte_received of parser.c and the four parsers  *)
(* it offers each byte to, which share one packet buffer.                    *)
(*                                                                         *)
(* The receiver is external.  It speaks one protocol and sends a burst of    *)
(* packets every second, the time first; a byte may be lost or damaged on    *)
(* its way.  Bytes are numbers.  The fields of a date are one byte, t, and    *)
(* packets are as short as that makes them; framing, stuffing, checksums and  *)
(* the length checks are those of the code.                                 *)
(***************************************************************************)
EXTENDS Integers, Sequences, SequencesExt, Bitwise

CONSTANTS
    PBUF_SIZE,      \* 128 in the code
    Protocols,      \* protocols the receiver may speak
    Times,          \* bytes that stand for a date and time
    Noise,          \* bytes a damaged byte may turn into
    MaxFaults       \* bound: lost or damaged bytes

ASSUME GpsAssumption == PBUF_SIZE \in Nat /\ PBUF_SIZE >= 8

None == -1
DLE == 16
ETX == 3
OncoreLen == 3   \* mremaining of @@Ea: the bytes after the command, 70 in the code
TsipTime  == 7   \* rx_count of a complete 8F-AB packet, 19 up in the code
TsipQuant == 6   \* and of 8F-AC
ParserTimeout == 5   \* PARSER_TIMEOUT in seconds

VARIABLES
    proto, timescale_gps,  \* the receiver's protocol; FLAG_TIMESCALE_GPS
    burst, fix, wire,   \* this burst's time, whether it is valid, bytes to come
    gap,                \* time since the last byte: "no", "50" or "long" (ms)
    ps,                 \* the state of parser.c and of the four parsers, and the
                        \* FEED_ code and vtimer_set_utc call of the last one run
    turn, byte,         \* the loop over the parsers and the byte it is about
    got, clean, faults  \* history: this burst's time was set; undamaged bursts
                        \* in a row; faults so far

gvars == <<proto, timescale_gps, burst, fix, wire, gap, ps, turn, byte, got, clean, faults>>

-----------------------------------------------------------------------------
(* What the receiver sends. *)

XorAll(s) == FoldLeft(LAMBDA a, b : a ^^ b, 0, s)
Ck1(s) == FoldLeft(+, 0, s) % 256
Ck2(s) == FoldLeft(LAMBDA acc, i : acc + Ck1(SubSeq(s, 1, i)), 0, [i \in DOMAIN s |-> i]) % 256
Hex(n) == IF n < 10 THEN 48 + n ELSE 55 + n
Stuffed(s) == FlattenSeq([i \in DOMAIN s |-> IF s[i] = DLE THEN <<DLE, DLE>> ELSE <<s[i]>>])

Ubx(class, id, payload) ==
    LET body == <<class, id, Len(payload), 0>> \o payload
    IN  <<181, 98>> \o body \o <<Ck1(body), Ck2(body)>>
Tsip(body)  == <<DLE>> \o Stuffed(body) \o <<DLE, ETX>>
Oncore(t)   == <<64, 64, 69, 97, t, 0, XorAll(<<69, 97, t, 0>>), 13, 10>>
Nmea(body)  == <<36>> \o body \o <<42, Hex(XorAll(body) \div 16), Hex(XorAll(body) % 16), 13, 10>>

\* GPS time, as the receiver gives it beside UTC, is ahead of it.
GpsTime(t) == t + 100

Bytes(pr, t, valid) ==
    CASE pr = "ublox"  -> Ubx(1, 33, <<IF valid THEN 4 ELSE 0, t>>)
                          \o Ubx(1, 32, <<IF valid THEN 3 ELSE 0, GpsTime(t)>>)
      [] pr = "tsip"   -> Tsip(<<143, 171, IF valid THEN 3 ELSE 8, t>>) \o Tsip(<<143, 172, 7>>)
      [] pr = "oncore" -> Oncore(t)
      [] pr = "nmea"   -> Nmea(<<90, t>>) \o Nmea(<<82, t>>)   \* GPZDA, GPRMC
      [] pr = "plain"  -> <<36, 90, t, 13, 10>>                \* no checksum

\* Sentences are text.
BurstTimes(pr) == IF pr \in {"nmea", "plain"} THEN {48 + (t % 10) : t \in Times} ELSE Times

-----------------------------------------------------------------------------
(* The parsers.  Each takes the shared state q and a byte and returns it     *)
(* with rc, the FEED_ code, and call, the time given to vtimer_set_utc.       *)

Unknown(q)  == [q EXCEPT !.rc = "unknown"]
Continue(q) == [q EXCEPT !.rc = "continue"]
Complete(q) == [q EXCEPT !.rc = "complete"]
SetUtc(q, t) == [q EXCEPT !.rc = "complete", !.call = t]

Keep(q, at, b) == [q EXCEPT !.pbuf[at + 1] = b]

\* A byte of the packet, counted and added to both checksums.
UbxCopy(q, b) ==
    LET u == q.ub IN
    [Keep(q, u.n, b) EXCEPT !.ub.n = u.n + 1, !.ub.ck1 = (u.ck1 + b) % 256,
                            !.ub.ck2 = (u.ck2 + u.ck1 + b) % 256]

\* A checked packet: of NAV-TIMEUTC and NAV-TIMEGPS the one of the configured
\* time scale sets the time, if valid.  NAV-SOL and TIM-TP change nothing here.
UbxPacket(q) ==
    LET id == IF timescale_gps THEN 32 ELSE 33
        valid == IF timescale_gps THEN q.pbuf[5] % 4 = 3 ELSE (q.pbuf[5] \div 4) % 2 = 1
    IN  IF q.pbuf[1] = 1 /\ q.pbuf[2] = id /\ q.ub.n >= 6 /\ valid
        THEN SetUtc(q, q.pbuf[6]) ELSE Complete(q)

\* A byte that does not fit sends the parser back to search mode.
UbxFail(q) == Unknown([q EXCEPT !.ub.st = "waiting"])

UbxGo(q, st) == Continue([q EXCEPT !.ub.st = st])

ublox_feed(q, b) ==
    LET u == q.ub IN
    CASE u.st = "waiting" /\ b = 181 -> UbxGo(q, "sync")
      [] u.st = "sync" /\ b = 98 ->
            UbxGo([q EXCEPT !.ub.n = 0, !.ub.ck1 = 0, !.ub.ck2 = 0], "header")
      [] u.st = "header" ->
            LET r == UbxCopy(q, b)
                len == r.pbuf[4] * 256 + r.pbuf[3] + 4
            IN  IF r.ub.n < 4 THEN Continue(r)
                ELSE UbxGo([r EXCEPT !.ub.len = len],
                           IF r.ub.n >= len THEN "checksum1" ELSE "copying")
      [] u.st = "copying" /\ u.n < PBUF_SIZE ->
            LET r == UbxCopy(q, b)
            IN  UbxGo(r, IF r.ub.n >= u.len THEN "checksum1" ELSE "copying")
      [] u.st = "checksum1" /\ b = u.ck1 -> UbxGo(q, "checksum2")
      [] u.st = "checksum2" /\ b = u.ck2 -> UbxPacket([q EXCEPT !.ub.st = "waiting"])
      [] OTHER -> UbxFail(q)

TsipStop(q) == [q EXCEPT !.ts.n = 0, !.ts.dle = 0]

\* End of packet: 8F-AB with a complete time.  An incomplete one leaves the
\* counters as they are.
TsipPacket(q) ==
    IF q.ts.n >= TsipTime /\ q.pbuf[2] = 143 /\ q.pbuf[3] = 171
    THEN IF (q.pbuf[4] \div 4) % 4 # 0 THEN Complete(q) ELSE SetUtc(TsipStop(q), q.pbuf[5])
    ELSE Complete(TsipStop(q))

tsip_feed(q0, b) ==
    LET q1 == IF q0.ts.stale THEN TsipStop(q0) ELSE q0
        q  == [q1 EXCEPT !.ts.stale = FALSE, !.ts.fed = TRUE,
                         !.ts.dle = IF b = DLE THEN (@ + 1) % 256 ELSE @]
        r  == [Keep(q, q.ts.n, b) EXCEPT !.ts.n = @ + 1]
    IN  IF b = DLE /\ q.ts.dle > 2 /\ q.ts.dle % 2 = 1 THEN Continue(q)
        ELSE IF b # DLE /\ q.ts.dle = 0 THEN Unknown(q)
        ELSE IF q.ts.n >= PBUF_SIZE THEN Unknown(TsipStop(q))
        ELSE IF b = ETX /\ q.ts.dle % 2 = 0 THEN TsipPacket(r)
        ELSE Continue(r)

motorola_feed(q, b) ==
    LET m == q.mo IN
    CASE m.st = "waiting" -> IF b = 64 THEN Continue([q EXCEPT !.mo.st = "at1"]) ELSE Unknown(q)
      [] m.st = "at1" -> Continue([q EXCEPT !.mo.st = IF b = 64 THEN "at2" ELSE "waiting"])
      [] m.st = "at2" -> Continue([q EXCEPT !.mo = [st |-> "cmd1", cmd |-> b, left |-> 0, sum |-> b]])
      [] m.st = "cmd1" ->
            IF m.cmd = 69 /\ b = 97
            THEN Continue([q EXCEPT !.mo.st = "copying", !.mo.left = OncoreLen, !.mo.sum = @ ^^ b])
            ELSE Unknown([q EXCEPT !.mo.st = "waiting"])
      [] m.st = "copying" ->
            LET r == [Keep(q, OncoreLen - m.left, b) EXCEPT !.mo.left = m.left - 1,
                                                            !.mo.sum = @ ^^ b]
                done == [r EXCEPT !.mo.st = "waiting"]
            IN  CASE m.left > 1 -> Continue(r)
                  [] m.left = 1 /\ r.mo.sum # 0 -> Unknown(done)
                  [] OTHER -> SetUtc(done, done.pbuf[1])

parse_hex(b) ==
    CASE b \in 48 .. 57 -> b - 48
      [] b \in 65 .. 70 -> b - 55
      [] b \in 97 .. 102 -> b - 87
      [] OTHER -> 0

\* use_sentence: a better kind of sentence, seen less than 5 s ago, is preferred.
Rank(type) == CASE type = 90 -> 3 [] type = 70 -> 2 [] type = 82 -> 1 [] OTHER -> 0

NmeaSentence(q0) ==
    LET q    == Keep(q0, q0.nm.n, 0)
        rank == Rank(q.pbuf[1])
        use  == rank > 0 /\ ~(rank < q.nm.seen /\ q.nm.age < ParserTimeout)
    IN  IF q.nm.n >= 1 /\ use
        THEN [(IF q.nm.n >= 2 THEN SetUtc(q, q.pbuf[2]) ELSE Complete(q))
                EXCEPT !.nm.seen = rank, !.nm.age = 0]
        ELSE Complete(q)

nmea_feed(q, b) ==
    LET n == q.nm IN
    CASE b = 36 -> Continue([q EXCEPT !.nm.st = "copying", !.nm.n = 0, !.nm.sum = 0])
      [] b # 36 /\ n.st = "waiting" -> Unknown(q)
      [] b = 42 /\ n.st = "copying" -> Continue([q EXCEPT !.nm.st = "checksum1"])
      [] b \in {13, 10} /\ n.st = "copying" -> NmeaSentence(q)
      [] b \notin {36, 42, 13, 10} /\ n.st = "copying" ->
            IF n.n >= PBUF_SIZE - 1 THEN Unknown([q EXCEPT !.nm.st = "waiting"])
            ELSE Continue([Keep(q, n.n, b) EXCEPT !.nm.n = n.n + 1, !.nm.sum = @ ^^ b])
      [] b # 36 /\ n.st = "checksum1" ->
            Continue([q EXCEPT !.nm.sum = @ ^^ (parse_hex(b) * 16), !.nm.st = "checksum2"])
      [] b # 36 /\ n.st = "checksum2" ->
            LET r == [q EXCEPT !.nm.sum = @ ^^ parse_hex(b), !.nm.st = "waiting"]
            IN  IF r.nm.sum # 0 THEN Unknown(r) ELSE NmeaSentence(r)

Feed(pr, q, b) ==
    CASE pr = "ublox" -> ublox_feed(q, b) [] pr = "tsip" -> tsip_feed(q, b)
      [] pr = "oncore" -> motorola_feed(q, b) [] pr = "nmea" -> nmea_feed(q, b)

-----------------------------------------------------------------------------
(* parser.c *)

parsers == <<"ublox", "tsip", "oncore", "nmea">>
Idle == 0  \* turn: gps_byte_received has returned

\* Fault: a gap does not open the search.
ReceivedFault(b) ==
    /\ turn' = 1 /\ byte' = b /\ gap' = "no"
    /\ ps' = [ps EXCEPT !.rc = "unknown", !.call = None, !.ts.stale = gap # "no"]

\* gps_byte_received: a gap or a long time without a packet opens the search.
\* quiet and nm.age count seconds, ts.stale says that tsip_feed has not run for
\* more than 50 ms.
Received(b) ==
    /\ turn' = 1 /\ byte' = b /\ gap' = "no"
    /\ ps' = [ps EXCEPT !.rc = "unknown", !.call = None,
                      !.current_proto = IF gap # "no" \/ ps.quiet > ParserTimeout
                                        THEN "none" ELSE @,
                      !.ts.stale = @ \/ gap = "long" \/ (gap = "50" /\ ~ps.ts.fed),
                      !.ts.fed = FALSE]

\* What the loop does with the answer: a parser that goes on locks out the
\* others, one that completes opens the search again, one that does not know
\* the byte leaves the lock as it is.
LockAfter(q, pr) ==
    CASE q.rc = "continue" -> [q EXCEPT !.current_proto = pr]
      [] q.rc = "complete" -> [q EXCEPT !.current_proto = "none", !.quiet = 0]
      [] OTHER -> q

-----------------------------------------------------------------------------
GpsInit ==
    /\ proto \in Protocols /\ timescale_gps \in {FALSE, proto = "ublox"}
    /\ burst \in BurstTimes(proto) /\ fix = TRUE /\ wire = Bytes(proto, burst, fix) /\ gap = "long"
    /\ ps = [ub |-> [st |-> "waiting", n |-> 0, ck1 |-> 0, ck2 |-> 0, len |-> 0],
            ts |-> [n |-> 0, dle |-> 0, stale |-> TRUE, fed |-> FALSE],
            mo |-> [st |-> "waiting", cmd |-> 0, left |-> 0, sum |-> 0],
            nm |-> [st |-> "waiting", n |-> 0, sum |-> 0, seen |-> 0, age |-> 0],
            pbuf |-> [i \in 1 .. PBUF_SIZE |-> 0],
            current_proto |-> "none", quiet |-> 0, rc |-> "unknown", call |-> None]
    /\ turn = Idle /\ byte = 0 /\ got = FALSE /\ clean = 2 /\ faults = 0

Expected == IF timescale_gps THEN GpsTime(burst) ELSE burst

\* A byte reaches gps_byte_received.
Byte ==
    /\ turn = Idle /\ wire # <<>>
    /\ wire' = Tail(wire)
    /\ Received(Head(wire))
    /\ UNCHANGED <<proto, timescale_gps, burst, fix, got, clean, faults>>

\* One turn of its loop over the parsers.
Offer ==
    /\ turn # Idle
    /\ LET pr == parsers[turn]
           open == ps.current_proto \in {"none", pr}
       IN  /\ \E r \in {IF open THEN Feed(pr, ps, byte) ELSE ps} : ps' = LockAfter(r, pr)
           /\ turn' = IF ps'.rc = "unknown" /\ turn < Len(parsers) THEN turn + 1 ELSE Idle
    /\ got' = (got \/ ps'.call = Expected)
    /\ UNCHANGED <<proto, timescale_gps, burst, fix, wire, gap, byte, clean, faults>>

\* A byte is lost (also by a full receive queue), or damaged.
BadByte ==
    /\ turn = Idle /\ wire # <<>> /\ faults < MaxFaults
    /\ wire' = Tail(wire) /\ faults' = faults + 1 /\ clean' = 0
    /\ \/ UNCHANGED <<ps, turn, byte, gap>>
       \/ \E b \in Noise : Received(b)
    /\ UNCHANGED <<proto, timescale_gps, burst, fix, got>>

\* The receiver pauses in the middle of a burst.
Pause ==
    /\ turn = Idle /\ wire # <<>> /\ gap = "no" /\ faults < MaxFaults
    /\ gap' \in {"50", "long"}
    /\ faults' = faults + 1 /\ clean' = 0
    /\ UNCHANGED <<proto, timescale_gps, burst, fix, wire, ps, turn, byte, got>>

Older(n) == IF n > ParserTimeout THEN n ELSE n + 1

\* The next second's burst, with another time, after a silence.
NextBurst ==
    /\ turn = Idle /\ wire = <<>>
    /\ got' = FALSE
    /\ clean' = IF clean < 3 THEN clean + 1 ELSE clean
    /\ burst' \in BurstTimes(proto) \ {burst}
    /\ fix' \in IF proto \in {"ublox", "tsip"} THEN BOOLEAN ELSE {TRUE}
    /\ wire' = Bytes(proto, burst', fix')
    /\ gap' = "long"
    /\ ps' = [ps EXCEPT !.quiet = Older(@), !.nm.age = Older(@), !.call = None]
    /\ UNCHANGED <<proto, timescale_gps, turn, byte, faults>>

GpsNext == Byte \/ Offer \/ BadByte \/ Pause \/ NextBurst

GpsSpec == GpsInit /\ [][GpsNext]_gvars

-----------------------------------------------------------------------------
(* Properties. *)

\* A time that reaches vtimer_set_utc is the one of the burst being received:
\* neither an old second's, left in the shared buffer or in a parser's state, nor
\* one put together from the bytes of two packets.  Protocols without a checksum
\* promise this only for undamaged bursts.
TimeTrue ==
    ps.call # None /\ (proto \in {"tsip", "plain"} => clean >= 1) => fix /\ ps.call = Expected

\* After a damaged burst at most one undamaged one is lost, whatever state the
\* damage has left in the parsers and in the lock of gps_byte_received.
Resyncs == turn = Idle /\ wire = <<>> /\ clean >= 2 /\ fix => got

\* gps_byte_received and the parsers report the true time of a burst, or none, and
\* find their way back after damage.
FixFaithful == TimeTrue /\ Resyncs

\* "Clear the current parser if there is an interpacket gap" (parser.c): a whole
\* packet after a gap is understood whatever came before it.
GapResyncs == turn = Idle /\ wire = <<>> /\ clean >= 1 /\ fix => got
=============================================================================
