--------------------------------- MODULE Mmc ---------------------------------
(***************************************************************************)
(* mmc.c over spi.c, and disk_read of mmc_diskio.c: bringing up an SD card   *)
(* in SPI mode and reading consecutive sectors from it.                      *)
(*                                                                         *)
(* An exchange on the bus (spi_exchange, with its DMA channels, interrupt    *)
(* and semaphore) is part of the step that makes it.  The card is external:  *)
(* one of four kinds, that may lose a command, lose an answer, take its time, *)
(* or be taken out.  Its sector numbers are scaled, SECTOR of its bytes to a *)
(* sector; a card of kind "sdhc" takes sector numbers, the others byte        *)
(* addresses.  Nothing is read after a failed read: Fat shows that of its     *)
(* callers.                                                                  *)
(***************************************************************************)
EXTENDS Naturals, Sequences

CONSTANTS
    SECTOR,         \* bytes in a sector, 512 in the code
    MaxLba, MaxCount,
    MaxFaults       \* bound: commands and answers that are lost

ASSUME MmcAssumption ==
    /\ SECTOR \in Nat \ {0, 1} /\ {MaxLba, MaxCount, MaxFaults} \subseteq Nat

VARIABLES
    mmc_state, mmc_block_mode,
    selected,       \* the card's select line is low
    mpc,            \* where mmc_connect or disk_read is
    lba, left,      \* disk_read: the sectors asked for, and those still to come
    out,            \* what has been stored in the caller's buffer
    res,            \* what the last call returned
    kind, card,     \* the card and its state
    next,           \* the sector the card sends next
    lost,           \* faults so far
    unseen          \* history: a loss went unseen, since the answer is not looked at

drv == <<mmc_state, mmc_block_mode, selected, mpc, lba, left, out, res>>
dev == <<kind, card, next, lost, unseen>>
mvars == <<drv, dev>>

Kinds == {"mmc", "sd1", "sd2", "sdhc"}
NoAnswer == 255

MmcInit ==
    /\ mmc_state = "UNLOADED" /\ mmc_block_mode = FALSE /\ selected = FALSE
    /\ mpc = "start"
    /\ lba = 0 /\ left = 0 /\ out = << >> /\ res = "none"
    /\ kind \in Kinds /\ card \in {"native", "out"} /\ next = 0
    /\ lost = 0 /\ unseen = FALSE

-----------------------------------------------------------------------------
(* The card. *)

\* The state after a command, and the R1 answer: bit 0 is "idle", bit 2 "illegal".
Execute(cmd) ==
    IF card = "out" \/ (card = "native" /\ cmd # "GOIDLE") THEN {<<card, NoAnswer>>}
    \* in the middle of a transfer the bus carries data, and no other command is taken
    ELSE IF card = "data"
         THEN {<<IF cmd = "GOIDLE" THEN "idle" ELSE card, r>> : r \in {0, 1, 5, NoAnswer}}
    ELSE CASE cmd = "GOIDLE" -> {<<"idle", 1>>}
      [] cmd = "INTERFACE_CONDITION" -> {<<card, IF kind \in {"sd2", "sdhc"} THEN 1 ELSE 5>>}
      [] cmd = "APP" -> {<<card, IF kind = "mmc" THEN 5 ELSE IF card = "idle" THEN 1 ELSE 0>>}
      [] cmd = "OPCONDITION" -> IF kind = "mmc" THEN {<<card, 5>>} ELSE {<<card, 1>>, <<"ready", 0>>}
      [] cmd = "INIT" -> {<<card, 1>>, <<"ready", 0>>}
      [] cmd = "READOCR" -> {<<card, IF card = "idle" THEN 1 ELSE 0>>}
      [] cmd = "SETBLOCKLEN" -> {<<card, IF card = "ready" THEN 0 ELSE 4>>}
      [] cmd = "READMULTIPLE" -> IF card = "ready" THEN {<<"data", 0>>, <<"ready", 64>>}
                                 ELSE {<<card, 4>>}

\* A command and its answer r: executed, lost on the way, or the answer lost.
Command(cmd, r) ==
    \/ card' \in {e[1] : e \in {x \in Execute(cmd) : x[2] = r}} /\ UNCHANGED lost
    \/ /\ lost < MaxFaults
       /\ lost' = lost + 1
       /\ r = NoAnswer
       /\ card' \in {card} \cup {e[1] : e \in Execute(cmd)}

Answers == {0, 1, 4, 5, 64, NoAnswer}

\* The card is taken out, or put in; a card that is put in starts anew.
Swap ==
    /\ lost < MaxFaults /\ lost' = lost + 1
    /\ card' = IF card = "out" THEN "native" ELSE "out"
    /\ UNCHANGED <<drv, kind, next, unseen>>

-----------------------------------------------------------------------------
(* mmc_connect. *)

\* A command of mmc_connect: mmc_cmd_r1 or mmc_cmd_r3, which select the card for its
\* duration, wait until it is not busy, and read up to nine bytes for the answer.
Connecting(at, cmd, r) == mpc = at /\ Command(cmd, r) /\ UNCHANGED <<kind, next>>

Goto(at) == mpc' = at /\ UNCHANGED <<mmc_state, mmc_block_mode, selected, lba, left, out, res>>

\* return EERR_TIMEOUT or EERR_FAULT
Fail(err) ==
    /\ mpc' = "off" /\ mmc_state' = "UNLOADED" /\ res' = err
    /\ UNCHANGED <<mmc_block_mode, selected, lba, left, out>>

\* mmc_start, and the head of mmc_connect.
mmc_start ==
    /\ mpc = "start"
    /\ mmc_state' = "UNLOADED" /\ mmc_block_mode' = FALSE /\ selected' = FALSE
    /\ mpc' = "goidle"
    /\ UNCHANGED <<lba, left, out, res, dev>>

\* Select SPI mode; after MMC_RESET_DEADLINE the card is given up.
GoIdle ==
    /\ \E r \in Answers :
          /\ Connecting("goidle", "GOIDLE", r)
          /\ IF r = 1 THEN Goto("cond") ELSE Goto("goidle") \/ Fail("TIMEOUT")
    /\ UNCHANGED unseen

\* Detect the card's type: everything but "illegal command" is a version 2 card.
InterfaceCondition ==
    /\ \E r \in Answers :
          /\ Connecting("cond", "INTERFACE_CONDITION", r)
          /\ Goto(IF r # 5 THEN "app" ELSE "init")
    /\ UNCHANGED unseen

App ==
    /\ \E r \in Answers :
          /\ Connecting("app", "APP", r)
          /\ IF r = 1 THEN Goto("opcond") ELSE Goto("app") \/ Fail("TIMEOUT")
    /\ UNCHANGED unseen

OpCondition ==
    /\ \E r \in Answers :
          /\ Connecting("opcond", "OPCONDITION", r)
          /\ IF r = 0 THEN Goto("ocr") ELSE Goto("app") \/ Fail("TIMEOUT")
    /\ UNCHANGED unseen

\* buf[0] & 0x40: the card's capacity bit.  A bus without an answer reads as ones.
HighCapacity(r) == IF r = NoAnswer THEN TRUE ELSE kind = "sdhc"

\* The answer of mmc_cmd_r3 is not looked at.
ReadOcr ==
    \E r \in Answers :
        /\ Connecting("ocr", "READOCR", r)
        /\ mmc_block_mode' = (mmc_block_mode \/ HighCapacity(r))
        /\ unseen' = (unseen \/ r = NoAnswer)
        /\ mpc' = "blocklen"
        /\ UNCHANGED <<mmc_state, selected, lba, left, out, res>>

\* MMC or SDv1
InitCard ==
    /\ \E r \in Answers :
          /\ Connecting("init", "INIT", r)
          /\ \/ r = 0 /\ Goto("blocklen")
             \/ r \notin {0, 1} /\ Fail("FAULT")
             \/ r = 1 /\ (Goto("init") \/ Fail("TIMEOUT"))
    /\ UNCHANGED unseen

SetBlockLen ==
    /\ \E r \in Answers :
          /\ Connecting("blocklen", "SETBLOCKLEN", r)
          /\ \/ r # 0 /\ Fail("FAULT")
             \/ /\ r = 0
                /\ mpc' = "up" /\ mmc_state' = "READY" /\ res' = "OK"
                /\ UNCHANGED <<mmc_block_mode, selected, lba, left, out>>
    /\ UNCHANGED unseen

-----------------------------------------------------------------------------
(* disk_read. *)

\* The first sector the card sends for the argument of MMC_CMDREADMULTIPLE; an address
\* behind its end or off a sector's start is refused.
CardSector(arg) == IF kind = "sdhc" THEN arg ELSE arg \div SECTOR

Accepted(arg) ==
    /\ CardSector(arg) <= MaxLba
    /\ kind # "sdhc" => arg % SECTOR = 0

\* Fault: sectors for every card.
ReadArgFault(sector) == sector

ReadArg(sector) == IF mmc_block_mode THEN sector ELSE sector * SECTOR

ReadDone(r) == mpc' = (IF r = "OK" THEN "up" ELSE "off") /\ res' = r

\* disk_read before a card is up; disk_initialize and disk_status report the state.
NotReady ==
    /\ mpc = "off" /\ mmc_state # "READY"
    /\ res' = "NOTRDY"
    /\ UNCHANGED <<mmc_state, mmc_block_mode, selected, mpc, lba, left, out, dev>>

\* mmc_start_read; the card stays selected while it sends.
mmc_start_read ==
    /\ mpc = "up" /\ mmc_state = "READY"
    /\ \E sector \in 0 .. MaxLba, count \in 1 .. MaxCount :
          LET arg == ReadArg(sector)
          IN  /\ sector + count - 1 <= MaxLba
              /\ lba' = sector /\ left' = count
              /\ \E r \in Answers :
                    /\ IF Accepted(arg) \/ card # "ready" THEN Command("READMULTIPLE", r)
                       ELSE r = 64 /\ UNCHANGED <<card, lost>>
                    /\ \/ /\ r = 0
                          /\ mmc_state' = "READING" /\ selected' = TRUE
                          /\ mpc' = "await" /\ UNCHANGED res
                       \/ /\ r # 0
                          /\ mmc_state' = "READY" /\ selected' = FALSE
                          /\ ReadDone("ERROR")
              /\ next' = IF card' = "data" /\ card # "data" THEN CardSector(arg) ELSE next
    /\ out' = << >>
    /\ UNCHANGED <<mmc_block_mode, kind, unseen>>

\* mmc_read_sector: the start token, 512 bytes, and a checksum that is not looked at.
mmc_read_sector ==
    /\ mpc = "await" /\ left > 0
    /\ card = "data"
    /\ out' = Append(out, next)
    /\ next' = next + 1 /\ left' = left - 1
    /\ UNCHANGED <<mmc_state, mmc_block_mode, selected, mpc, lba, res,
                   kind, card, lost, unseen>>

\* No token within MMC_DATA_DEADLINE: the card is slow, or gone.
ReadTimeout ==
    /\ mpc = "await" /\ left > 0
    /\ selected' = FALSE
    /\ mmc_state' = "READY"
    /\ ReadDone("ERROR")
    /\ UNCHANGED <<mmc_block_mode, lba, left, out, dev>>

\* mmc_stop_read: whatever the card answers.
mmc_stop_read ==
    /\ mpc = "await" /\ left = 0
    /\ \/ card' = (IF card = "data" THEN "ready" ELSE card) /\ UNCHANGED <<lost, unseen>>
       \/ lost < MaxFaults /\ lost' = lost + 1 /\ unseen' = TRUE /\ UNCHANGED card
    /\ selected' = FALSE
    /\ mmc_state' = "READY"
    /\ ReadDone("OK")
    /\ UNCHANGED <<mmc_block_mode, lba, left, out, kind, next>>

\* The processor is reset at any time; the card keeps its power and its state.
McuReset ==
    /\ lost < MaxFaults /\ lost' = lost + 1
    /\ mmc_state' = "UNLOADED" /\ mmc_block_mode' = FALSE /\ selected' = FALSE
    /\ mpc' = "start"
    /\ lba' = 0 /\ left' = 0 /\ out' = << >> /\ res' = "none"
    /\ unseen' = FALSE
    /\ UNCHANGED <<kind, card, next>>

MmcNext ==
    \/ mmc_start \/ GoIdle \/ InterfaceCondition \/ App \/ OpCondition \/ ReadOcr
    \/ InitCard \/ SetBlockLen
    \/ NotReady \/ mmc_start_read \/ mmc_read_sector \/ ReadTimeout \/ mmc_stop_read
    \/ Swap \/ McuReset

MmcSpec == MmcInit /\ [][MmcNext]_mvars

-----------------------------------------------------------------------------
\* Whatever is lost on the bus and whenever the card or the power goes, a read that
\* succeeds has stored exactly the sectors that were asked for, in order.  Two losses go
\* unseen: mmc_connect takes a bus without an answer for the OCR of a large card, and
\* mmc_stop_read does not look whether the card has stopped.
SectorsRight ==
    mpc = "up" /\ out # << >> /\ ~unseen => out = [i \in 1 .. Len(out) |-> lba + i - 1]
=============================================================================
