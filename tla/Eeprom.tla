------------------------------- MODULE Eeprom -------------------------------
(***************************************************************************)
(* The configuration and its EEPROM: eeprom.c, the interrupt-driven master  *)
(* of i2c.c, the commands of cmdline.c that write the configuration and the *)
(* part of main_thread that loads it.  The chip is external: it latches the *)
(* bytes of a write, starts its write cycle at the STOP condition and does   *)
(* not answer until the cycle is over.                                      *)
(*                                                                         *)
(* Memory is PageSize-byte pages; page 0 is the serial number, the others    *)
(* hold cfg, whose last cell is the checksum.  The fields the firmware acts  *)
(* on are one cell each; every other cell stays 0.                          *)
(***************************************************************************)
EXTENDS Integers, Sequences, Functions

CONSTANTS
    PageSize, Pages,  \* EEPROM_PAGE_SIZE, EEPROM_PAGES (8 and 16 in the code)
    Retries, Tries,   \* eeprom_do: retries; eeprom_write_page: i
    PollLimit,        \* failed polls that fit into the 250 ms of a write cycle
    SetChoices,       \* <<cell, value>> pairs a "set" command may store
    MaxOps, MaxFaults, MaxResets   \* bounds: commands, faults, power failures

ASSUME LayoutAssumption ==
    /\ PageSize \in Nat /\ PageSize >= 4
    /\ Pages \in Nat /\ Pages >= 2
ASSUME RetryAssumption ==
    /\ Retries \in Nat \ {0} /\ Tries \in Nat \ {0} /\ PollLimit \in Nat

Size    == PageSize * Pages
CfgSize == Size - PageSize

ASSUME SetAssumption == SetChoices \subseteq (1 .. CfgSize) \X Nat

\* Cells of cfg.
Version == 1
Flags   == 2
Baud    == 3
Hold    == PageSize + 1
Crc     == CfgSize
\* Bits of cfg.flags.
GpsExt  == 2
GpsOut  == 4
Md5     == 8
Sha1    == 16
HoldoverTest == 32

OK == "OK"
None == <<>>

VARIABLES
    mem, chip,              \* the EEPROM: cells; write cycle, pointer, latched bytes
    cfg, snum,              \* RAM copies
    baud5,                  \* speed given to Serial5 at startup
    pc, op,                 \* main thread: where it is, which command it runs
    addr, try, tmp, buf,    \* eeprom_write_page, and addr of eeprom_read_cfg
    polls,                  \* failed polls of this write cycle
    do, status,             \* eeprom_do: arguments, phase, retries; its result
    bus,                    \* the transfer in progress, see i2c_t
    saved, loaded,          \* history: configurations sent to the chip since the
                            \* last confirmed one; the one the last boot loaded
    ops, faults, resets

hist   == <<saved, loaded>>
limits == <<ops, faults, resets>>
page   == <<addr, try, tmp, buf, polls>>
vars   == <<mem, chip, cfg, snum, baud5, pc, op, page, do, status, bus, hist, limits>>

Zeros(n) == [i \in 1 .. n |-> 0]
Bit(flags, b) == (flags \div b) % 2 = 1
Clear(flags, b) == IF Bit(flags, b) THEN flags - b ELSE flags

\* inet_chksum: the complemented one's complement sum of the words before crc.
inet_chksum(c) ==
    LET sum[n \in 0 .. CfgSize - 1] == IF n = 0 THEN 0 ELSE sum[n - 1] + c[n]
    IN  65535 - (sum[CfgSize - 1] % 65535)

WithCrc(c) == [c EXCEPT ![Crc] = inet_chksum(c)]
Defaults   == [Zeros(CfgSize) EXCEPT ![Version] = 2]
NoBus == [st |-> "off", rd |-> FALSE, count |-> 0, index |-> 0, itbuf |-> FALSE,
          tx |-> <<>>, error |-> OK]
NoDo  == [tx |-> <<>>, dest |-> "none", reading |-> FALSE, retries |-> 0]

\* A chip that left the factory with its serial number and saved defaults.
Init ==
    /\ mem = [a \in 0 .. Size - 1 |->
                IF a < PageSize THEN 9 ELSE WithCrc(Defaults)[a - PageSize + 1]]
    /\ chip = [writing |-> <<>>, ptr |-> 0]
    /\ cfg = Zeros(CfgSize) /\ snum = Zeros(PageSize) /\ baud5 = 0
    /\ pc = "off" /\ op = "boot"
    /\ addr = 0 /\ try = 0 /\ tmp = Zeros(PageSize + 1) /\ buf = Zeros(PageSize)
    /\ polls = 0
    /\ do = NoDo /\ status = OK /\ bus = NoBus
    /\ saved = {WithCrc(Defaults)} /\ loaded = None
    /\ ops = 0 /\ faults = 0 /\ resets = 0

\* eeprom_write_page has returned: its locals are gone.
PageOver ==
    /\ addr' = 0 /\ try' = 0 /\ polls' = 0
    /\ tmp' = Zeros(PageSize + 1) /\ buf' = Zeros(PageSize)

-----------------------------------------------------------------------------
(* i2c.c: i2c_transact starts a transfer and sleeps on the semaphore; each   *)
(* interrupt is one step.  The bus runs at 10 kHz, so that an interrupt is    *)
(* served before the next byte is complete.  bus.st: "sb" a START is on its  *)
(* way, "addr" the address is, "data" bytes are, "done" sem has been given.  *)

Transact(rd, tx, count) ==
    bus' = [NoBus EXCEPT !.st = "sb", !.rd = rd, !.tx = tx, !.count = count]

Started == chip.writing = <<>>  \* the chip answers its address

\* SB: the address is sent and index reset.
EventStart ==
    /\ bus.st = "sb"
    /\ bus' = [bus EXCEPT !.st = "addr", !.index = 0]
    /\ UNCHANGED <<mem, chip, cfg, snum, baud5, pc, op, page, do, status, hist, limits>>

\* ADDR: acknowledged; byte interrupts unless 2 or 3 bytes are to be received.
EventAddr ==
    /\ bus.st = "addr" /\ Started
    /\ bus' = [bus EXCEPT !.st = "data", !.itbuf = ~(bus.rd /\ bus.count \in {2, 3})]
    /\ UNCHANGED <<mem, chip, cfg, snum, baud5, pc, op, page, do, status, hist, limits>>

\* index = count + 1: interrupts off, wait for the STOP, wake the thread.
Finish(b) == IF b.index = b.count + 1 THEN [b EXCEPT !.st = "done"] ELSE b

\* TXE: the next byte; after the last one only BTF interrupts.  The chip takes
\* the first byte as its pointer.
EventTxe ==
    /\ bus.st = "data" /\ ~bus.rd /\ bus.itbuf
    /\ LET i == bus.index + 1
       IN  /\ bus' = Finish([bus EXCEPT !.index = i, !.itbuf = (i # bus.count)])
           /\ chip' = IF bus.index = 0 THEN [chip EXCEPT !.ptr = bus.tx[1] % Size] ELSE chip
    /\ UNCHANGED <<mem, cfg, snum, baud5, pc, op, page, do, status, hist, limits>>

\* The chip's write cycle: the bytes that follow the pointer fill its page.
PageWrite(ptr, data) ==
    [i \in 1 .. Len(data) |->
        <<ptr - (ptr % PageSize) + ((ptr + i - 1) % PageSize), data[i]>>]

StopWrite(bytes) ==
    chip' = [chip EXCEPT !.writing = IF Len(bytes) > 1
                                     THEN PageWrite(chip.ptr, Tail(bytes)) ELSE <<>>]

\* The next bytes read, stored where the caller of eeprom_do wants them.
Received(n) == [i \in 1 .. n |-> mem[(chip.ptr + i - 1) % Size]]

Put(seq, at, bytes) ==
    [k \in DOMAIN seq |-> IF k > at /\ k <= at + Len(bytes) THEN bytes[k - at] ELSE seq[k]]

Store(n) ==
    /\ chip' = [chip EXCEPT !.ptr = (@ + n) % Size]
    /\ tmp'  = IF do.dest = "tmp" THEN Put(tmp, bus.index, Received(n)) ELSE tmp
    /\ snum' = IF do.dest = "snum" THEN Put(snum, bus.index, Received(n)) ELSE snum
    /\ cfg'  = IF do.dest = "cfg"
               THEN Put(cfg, addr - PageSize + bus.index, Received(n)) ELSE cfg

\* BTF while transmitting: STOP, and the chip starts to write.
EventTransmitted ==
    /\ bus.st = "data" /\ ~bus.rd /\ ~bus.itbuf
    /\ bus' = Finish([bus EXCEPT !.index = @ + 1])
    /\ StopWrite(bus.tx)
    /\ UNCHANGED <<mem, cfg, snum, baud5, pc, op, page, do, status, hist, limits>>

\* BTF while receiving: two bytes are ready; NACK and STOP for the last one,
\* or, of a transfer of two, for these.
EventReceivedTwo ==
    /\ bus.st = "data" /\ bus.rd /\ ~bus.itbuf
    /\ Store(2)
    /\ bus' = IF bus.count > 2
              THEN Finish([bus EXCEPT !.index = @ + 2, !.itbuf = TRUE])
              ELSE Finish([bus EXCEPT !.index = @ + 3])
    /\ UNCHANGED <<mem, baud5, pc, op, addr, try, buf, polls, do, status, hist, limits>>

\* RXNE: one byte; with three to go the buffer interrupt is switched off.
EventRxne ==
    /\ bus.st = "data" /\ bus.rd /\ bus.itbuf
    /\ Store(1)
    /\ LET i == bus.index + 1
       IN  bus' = Finish([bus EXCEPT !.index = IF i = bus.count THEN i + 1 ELSE i,
                                     !.itbuf = (i + 3 # bus.count)])
    /\ UNCHANGED <<mem, baud5, pc, op, addr, try, buf, polls, do, status, hist, limits>>

\* handle_i2c_error: no answer (AF), bus error (BERR), arbitration lost (ARLO).
\* The chip may take the STOP that follows for the end of a shorter write.
EventError ==
    /\ bus.st \in {"addr", "data"}
    /\ \E e \in {"NACK", "FAULT", "AGAIN"} :
         /\ bus.st = "addr" /\ ~Started => e = "NACK"
         /\ bus' = [bus EXCEPT !.st = "done", !.error = e]
    /\ faults' = IF bus.st = "addr" /\ ~Started THEN faults ELSE faults + 1
    /\ faults' <= MaxFaults
    /\ \/ UNCHANGED chip
       \/ ~bus.rd /\ bus.index > 1 /\ StopWrite(SubSeq(bus.tx, 1, bus.index))
    /\ UNCHANGED <<mem, cfg, snum, baud5, pc, op, page, do, status, hist, ops, resets>>

\* The chip ends its write cycle; a weak page may keep its old contents.
Written(cells, m) == [a \in DOMAIN m |->
    IF \E c \in cells : c[1] = a THEN (CHOOSE c \in cells : c[1] = a)[2] ELSE m[a]]

WriteCycleEnds ==
    /\ chip.writing # <<>>
    /\ chip' = [chip EXCEPT !.writing = <<>>]
    /\ \/ mem' = Written(Range(chip.writing), mem) /\ UNCHANGED faults
       \/ faults < MaxFaults /\ faults' = faults + 1 /\ UNCHANGED mem
    /\ UNCHANGED <<cfg, snum, baud5, pc, op, page, do, status, bus, hist, ops, resets>>

-----------------------------------------------------------------------------
(* eeprom_do: send tx; for a read, receive a page into dest. *)

StartDo(tx, dest) ==
    /\ do' = [tx |-> tx, dest |-> dest, reading |-> FALSE, retries |-> Retries]
    /\ Transact(FALSE, tx, Len(tx))

\* A retry starts again with the transmission.
DoRetry(n) ==
    IF n = 0
    THEN /\ bus' = NoBus /\ do' = NoDo /\ status' = bus.error
    ELSE /\ do' = [do EXCEPT !.retries = n, !.reading = FALSE]
         /\ Transact(FALSE, do.tx, Len(do.tx))
         /\ UNCHANGED status

\* The thread wakes up after a transfer.  Lost arbitration while sending does
\* not use up a retry.
DoWakes ==
    /\ bus.st = "done"
    /\ \/ bus.error = "AGAIN" /\ ~do.reading /\ DoRetry(do.retries)
       \/ bus.error # OK /\ (bus.error = "AGAIN" => do.reading) /\ DoRetry(do.retries - 1)
       \/ /\ bus.error = OK
          /\ IF do.dest # "none" /\ ~do.reading
             THEN /\ do' = [do EXCEPT !.reading = TRUE]
                  /\ Transact(TRUE, <<>>, PageSize)
                  /\ UNCHANGED status
             ELSE bus' = NoBus /\ do' = NoDo /\ status' = OK
    /\ UNCHANGED <<mem, chip, cfg, snum, baud5, pc, op, page, hist, limits>>

Returned == bus = NoBus /\ do = NoDo

-----------------------------------------------------------------------------
(* main_thread and load_eeprom: Serial5 is started from cfg, which is still  *)
(* zero, and then cfg is read.                                              *)

Boot ==
    /\ pc = "off"
    /\ cfg' = Zeros(CfgSize) /\ snum' = Zeros(PageSize)
    /\ baud5' = Zeros(CfgSize)[Baud]
    /\ pc' = "load" /\ op' = "boot" /\ addr' = 0
    /\ StartDo(<<0>>, "snum")
    /\ UNCHANGED <<mem, chip, try, tmp, buf, polls, status, hist, limits>>

\* The rest of startup: a holdover test does not outlive a reset, zero means
\* the default holdover time.
Loaded(c) ==
    /\ pc' = "idle"
    /\ loaded' = c
    /\ cfg' = [c EXCEPT ![Flags] = Clear(@, HoldoverTest), ![Hold] = IF @ = 0 THEN 1 ELSE @]

\* Fault: the sum is not looked at.
ValidFault(c) == TRUE

Valid(c) == inet_chksum(c) = c[Crc]

\* eeprom_read_cfg: the next page, or the check of the sum; any failure leaves
\* the defaults.
LoadPage ==
    /\ pc = "load" /\ Returned
    /\ \/ /\ status = OK /\ addr + PageSize < Size
          /\ addr' = addr + PageSize
          /\ StartDo(<<addr'>>, "cfg")
          /\ UNCHANGED <<cfg, pc, loaded>>
       \/ /\ status = OK /\ addr + PageSize >= Size
          /\ Loaded(IF Valid(cfg) THEN cfg ELSE Defaults)
          /\ UNCHANGED <<addr, do, bus>>
       \/ /\ status # OK
          /\ Loaded(Defaults)
          /\ UNCHANGED <<addr, do, bus>>
    /\ UNCHANGED <<mem, chip, snum, baud5, op, try, tmp, buf, polls, status, saved, limits>>

-----------------------------------------------------------------------------
(* Commands. *)

\* set name=value: takes effect in RAM at once.
CmdSet ==
    /\ pc = "idle" /\ ops < MaxOps
    /\ \E s \in SetChoices : cfg' = [cfg EXCEPT ![s[1]] = s[2]]
    /\ ops' = ops + 1
    /\ UNCHANGED <<mem, chip, snum, baud5, pc, op, page, do, status, bus, hist, faults, resets>>

\* eeprom_write_page.
StartPage(a, b) ==
    /\ addr' = a /\ buf' = b /\ try' = Tries /\ polls' = 0
    /\ tmp' = <<a>> \o b
    /\ pc' = "write"
    /\ StartDo(tmp', "none")

CfgPage(c, a) == SubSeq(c, a - PageSize + 1, a)

\* cliWriteConfig: of two flags that exclude each other one or both are cleared.
Normalised(c) ==
    LET f1 == IF Bit(c[Flags], GpsExt) THEN Clear(c[Flags], GpsOut) ELSE c[Flags]
        f2 == IF Bit(f1, Md5) /\ Bit(f1, Sha1) THEN Clear(Clear(f1, Md5), Sha1) ELSE f1
    IN  WithCrc([c EXCEPT ![Flags] = f2])

cliWriteConfig(c) ==
    /\ cfg' = Normalised(c)
    /\ saved' = saved \union {cfg'}
    /\ op' = "save"
    /\ StartPage(PageSize, CfgPage(cfg', PageSize))

CmdSave ==
    /\ pc = "idle" /\ ops < MaxOps
    /\ cliWriteConfig(cfg)
    /\ ops' = ops + 1
    /\ UNCHANGED <<mem, chip, snum, baud5, status, loaded, faults, resets>>

CmdDefaults ==
    /\ pc = "idle" /\ ops < MaxOps
    /\ cliWriteConfig(Defaults)
    /\ ops' = ops + 1
    /\ UNCHANGED <<mem, chip, snum, baud5, status, loaded, faults, resets>>

\* fsnum, for the factory: page 0 is written.
CmdFsnum ==
    /\ pc = "idle" /\ ops < MaxOps
    /\ snum' = [i \in 1 .. PageSize |-> 10]
    /\ op' = "fsnum"
    /\ StartPage(0, snum')
    /\ ops' = ops + 1
    /\ UNCHANGED <<mem, chip, cfg, baud5, status, hist, faults, resets>>

\* A page is done: the next one; after the last one, reset.
PageDone(result) ==
    IF result = OK /\ op = "save" /\ addr + PageSize < Size
    THEN /\ StartPage(addr + PageSize, CfgPage(cfg, addr + PageSize))
         /\ UNCHANGED <<op, saved>>
    ELSE /\ op' = IF result = OK /\ op = "save" THEN "saved" ELSE op
         /\ pc' = IF result = OK /\ op = "save" THEN "off" ELSE "idle"
         /\ saved' = IF result = OK /\ op = "save" THEN {cfg} ELSE saved
         /\ PageOver
         /\ UNCHANGED <<do, bus>>

\* The write has been sent, or has failed for good; then the readback polls.
WriteSent ==
    /\ pc = "write" /\ Returned
    /\ IF status = OK
       THEN /\ pc' = "poll"
            /\ StartDo(<<addr>>, "tmp")
            /\ UNCHANGED <<page, op, saved>>
       ELSE PageDone(status)
    /\ UNCHANGED <<mem, chip, cfg, snum, baud5, status, loaded, limits>>

\* Fault: only the first byte is compared.
MatchesFault(t, b) == t[1] = b[1]

Matches(t, b) == SubSeq(t, 1, PageSize) = b

\* Fault: the 250 ms are not counted.
PollAgainFault == polls' = polls

PollAgain == polls' = polls + 1

\* The readback went into tmp.  When it does not match, tmp is sent again.
PollReturned ==
    /\ pc = "poll" /\ Returned
    /\ \/ /\ status = OK /\ Matches(tmp, buf)
          /\ PageDone(OK)
       \/ /\ status = OK /\ ~Matches(tmp, buf) /\ try > 1
          /\ try' = try - 1 /\ polls' = 0
          /\ pc' = "write"
          /\ StartDo(tmp, "none")
          /\ UNCHANGED <<addr, tmp, buf, op, saved>>
       \/ /\ status = OK /\ ~Matches(tmp, buf) /\ try = 1
          /\ PageDone("FAULT")
       \/ /\ status = "NACK" /\ polls < PollLimit
          /\ PollAgain
          /\ StartDo(<<addr>>, "tmp")
          /\ UNCHANGED <<addr, try, tmp, buf, pc, op, saved>>
       \/ /\ status = "NACK" /\ polls = PollLimit
          /\ PageDone("TIMEOUT")
       \/ /\ status \notin {OK, "NACK"}
          /\ PageDone(status)
    /\ UNCHANGED <<mem, chip, cfg, snum, baud5, status, loaded, limits>>

\* The main loop waits for a byte; nothing happens.
Idle == pc = "idle" /\ UNCHANGED vars

-----------------------------------------------------------------------------
\* Reset or power failure; without power the page being written is left with
\* any of its cells changed.
Reset ==
    /\ pc # "off" /\ resets < MaxResets
    /\ resets' = resets + 1
    /\ pc' = "off" /\ bus' = NoBus /\ do' = NoDo /\ PageOver /\ status' = OK
    /\ \/ UNCHANGED <<mem, chip>>
       \/ /\ \E done \in SUBSET Range(chip.writing) : mem' = Written(done, mem)
          /\ chip' = [chip EXCEPT !.writing = <<>>]
    /\ UNCHANGED <<cfg, snum, baud5, op, hist, ops, faults>>

Event ==
    EventStart \/ EventAddr \/ EventTxe \/ EventTransmitted \/ EventReceivedTwo \/ EventRxne

Thread == DoWakes \/ Boot \/ LoadPage \/ WriteSent \/ PollReturned

Next ==
    \/ Event \/ EventError \/ WriteCycleEnds
    \/ Thread
    \/ Idle \/ CmdSet \/ CmdSave \/ CmdDefaults \/ CmdFsnum
    \/ Reset

\* The bus and the thread make progress; the chip need not.
Spec == Init /\ [][Next]_vars /\ WF_vars(Event \/ EventError) /\ WF_vars(Thread)

-----------------------------------------------------------------------------
(* Properties. *)

\* Types.
TypeOK ==
    /\ mem \in [0 .. Size - 1 -> Nat] /\ cfg \in [1 .. CfgSize -> Nat]
    /\ snum \in [1 .. PageSize -> Nat] /\ tmp \in [1 .. PageSize + 1 -> Nat]
    /\ pc \in {"off", "load", "idle", "write", "poll"}
    /\ bus.index \in 0 .. bus.count + 1
    /\ Len(chip.writing) <= PageSize
    /\ try \in 0 .. Tries /\ polls \in 0 .. PollLimit

\* What a boot loads is the defaults or, whole, a configuration that was sent to
\* the chip after the last confirmed one, or that one: whatever was interrupted,
\* half written or misdirected, load_eeprom never takes a mixture of two for a
\* configuration, and a confirmed save is never replaced by an older one.
BootConfigWhole == pc \in {"idle", "write", "poll"} => loaded \in saved \union {Defaults}

\* A save that ends in a reset has stored every cell: each page was read back
\* and compared, and no later page's write or retry has touched it.
ConfirmedStored ==
    pc = "off" /\ op = "saved" =>
        \A i \in 1 .. CfgSize : mem[PageSize + i - 1] = cfg[i]

\* The flags a boot starts from never exclude each other, whatever was set and
\* saved before: cliWriteConfig resolves them ahead of the checksum and the write.
BootFlagsExclusive ==
    loaded # None =>
        /\ ~(Bit(loaded[Flags], GpsExt) /\ Bit(loaded[Flags], GpsOut))
        /\ ~(Bit(loaded[Flags], Md5) /\ Bit(loaded[Flags], Sha1))

\* load_eeprom starts the firmware from a configuration that was meant to be there,
\* whatever crash, bus error or sequence of commands came before.
BootConfigGood == BootConfigWhole /\ BootFlagsExclusive

\* Every save comes to an end, confirmed by a reset or with an error message,
\* also with a chip that never answers again: eeprom_do and the poll give up.
SaveEnds == pc \in {"write", "poll"} ~> pc \in {"idle", "off"}

\* "First 8 bytes cannot be modified at runtime" (eeprom.h): only fsnum, the
\* factory's command, changes the serial number.
SerialIntact ==
    [][op # "fsnum" => \A a \in 0 .. PageSize - 1 : mem'[a] = mem[a]]_vars

\* "Baud rate of the GPS serial port" (config.rst): Serial5 runs at the speed
\* of the configuration that has been loaded.
BaudApplied == pc = "idle" /\ loaded # None => baud5 = loaded[Baud]
=============================================================================
