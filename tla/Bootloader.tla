----------------------------- MODULE Bootloader -----------------------------
(***************************************************************************)
(* The bootloader: main.c reads ll.hex from the SD card, bootloader.c       *)
(* collects its records page by page, flash.c brings a page to the flash    *)
(* only when it differs, and the application is started through a reset     *)
(* with a token in RAM.  Power may fail at any step, also in the middle of  *)
(* an erase or a write; the card may be unreadable, or changed while the    *)
(* power is off; the flash may refuse a word.                               *)
(*                                                                         *)
(* A cell stands for a 32-bit word of flash.  A file is a sequence of Intel *)
(* hex records: data at an address, the end-of-file record, or a record     *)
(* ihex_feed rejects.                                                       *)
(***************************************************************************)
EXTENDS Naturals, Sequences, FiniteSets, SequencesExt

CONSTANTS
    PAGE_SIZE,              \* cells in a page
    UserStart, UserEnd,     \* the application's cells: UserStart .. UserEnd - 1
    FlashEnd,               \* cells in all
    Files                   \* what ll.hex may hold

Cell  == 0 .. FlashEnd - 1
Value == {"FF", "zero", "code"}

ASSUME LayoutAssumption ==
    /\ PAGE_SIZE \in Nat \ {0, 1} /\ UserStart \in Nat /\ UserEnd \in Nat
    /\ FlashEnd \in Nat
    /\ UserStart % PAGE_SIZE = 0 /\ UserEnd % PAGE_SIZE = 0 /\ FlashEnd % PAGE_SIZE = 0
    /\ 0 < UserStart /\ UserStart < UserEnd /\ UserEnd <= FlashEnd
ASSUME FilesAssumption ==
    /\ Files \subseteq Seq([type : {"data", "eof", "bad"}, addr : Nat, data : Seq(Value)])
    /\ \A f \in Files : \A i \in DOMAIN f : f[i].type = "data" =>
          f[i].data # <<>> /\ f[i].addr + Len(f[i].data) <= FlashEnd

VARIABLES
    flash,                  \* survives power loss
    jump_token,             \* in RAM that a reset leaves alone
    pc,                     \* where the bootloader is, or "app" or "halt"
    bootloader_status, current_page, page_buffer, dirty, changed,
    rec, pos,               \* the record ihex_feed is at; how much of it is copied
    ptr,                    \* flash_page_write: the cell to program next
    file,                   \* the card's ll.hex
    calm,                   \* from the last power cycle on, nothing fails any more
    flash0,                 \* history: the flash as bootloader_start found it
    loaded                  \* history: the present boot has reached BLS_DONE

ram  == <<bootloader_status, current_page, page_buffer, dirty, changed, rec, pos, ptr>>
vars == <<flash, jump_token, pc, ram, file, calm, flash0, loaded>>

PAGE_OF(a) == (a \div PAGE_SIZE) * PAGE_SIZE

PageCells(page) == page .. page + PAGE_SIZE - 1
user_vtor == UserStart + 1

Holds(r, a) == r.type = "data" /\ r.addr <= a /\ a < r.addr + Len(r.data)

\* The records that have data for a cell, up to the end-of-file record.
Writers(f, a) == {i \in DOMAIN f : Holds(f[i], a) /\ \A j \in 1 .. i - 1 : f[j].type # "eof"}

\* What the file holds at each address, over the contents of a flash.
Image(f, contents) ==
    [a \in Cell |->
        IF Writers(f, a) = {} THEN contents[a]
        ELSE LET r == f[Max(Writers(f, a))] IN r.data[a - r.addr + 1]]

\* A firmware image: data for the application's area, each cell once, the
\* entry point among it, and the end-of-file record.
Firmware(f) ==
    /\ f # <<>> /\ Last(f).type = "eof"
    /\ \A i \in 1 .. Len(f) - 1 :
          /\ f[i].type = "data"
          /\ UserStart <= f[i].addr /\ f[i].addr + Len(f[i].data) <= UserEnd
          /\ \A j \in 1 .. i - 1 : \/ f[i].addr + Len(f[i].data) <= f[j].addr
                                   \/ f[j].addr + Len(f[j].data) <= f[i].addr
    /\ Image(f, [a \in Cell |-> "FF"])[user_vtor] # "FF"

\* Any contents of the application's area, from any earlier history.
Init ==
    /\ flash \in {fl \in [Cell -> Value] :
                     \A a \in Cell : ~(UserStart <= a /\ a < UserEnd) => fl[a] = "code"}
    /\ jump_token = FALSE
    /\ pc = "reset"
    /\ bootloader_status = "WAITING" /\ current_page = 0
    /\ page_buffer = [i \in 0 .. PAGE_SIZE - 1 |-> "zero"]
    /\ dirty = FALSE /\ changed = FALSE
    /\ rec = 0 /\ pos = 0 /\ ptr = 0
    /\ file \in Files
    /\ calm = FALSE
    /\ flash0 = flash /\ loaded = FALSE

-----------------------------------------------------------------------------
(* flash.c *)

\* Fault: the page after the last may be written.
flash_can_write_fault(page) == page >= UserStart /\ page <= UserEnd

flash_can_write(page) == page >= UserStart /\ page + PAGE_SIZE <= UserEnd

Differ(page) == {a \in PageCells(page) : flash[a] # page_buffer[a - page]}

\* Fault: a page is never erased.
flash_page_compare_never(page) == IF Differ(page) = {} THEN 0 ELSE 1

\* flash_page_compare: 0 identical, 1 only blank cells differ, 2 needs an erase.
flash_page_compare(page) ==
    IF Differ(page) = {} THEN 0
    ELSE IF \A a \in Differ(page) : flash[a] = "FF" THEN 1 ELSE 2

Halt == pc' = "halt" /\ bootloader_status' = "ERROR"

\* flash_page_erase, with its check; a failed erase leaves the page as it was.
Erase ==
    /\ pc = "erase"
    /\ \/ flash' = [a \in Cell |-> IF a \in PageCells(current_page) THEN "FF" ELSE flash[a]]
       \/ ~calm /\ UNCHANGED flash
    /\ \/ /\ \A a \in PageCells(current_page) : flash'[a] = "FF"
          /\ pc' = "program"
          /\ ptr' = current_page
          /\ UNCHANGED bootloader_status
       \/ /\ \E a \in PageCells(current_page) : flash'[a] # "FF"
          /\ Halt
          /\ UNCHANGED ptr
    /\ UNCHANGED <<jump_token, current_page, page_buffer, dirty, changed, rec, pos,
                   file, calm, flash0, loaded>>

\* flash_page_write, one cell: the flash takes a value only where it is blank.
Program ==
    /\ pc = "program" /\ ptr \in PageCells(current_page)
    /\ \/ flash' = [flash EXCEPT ![ptr] =
                       IF @ = "FF" THEN page_buffer[ptr - current_page] ELSE @]
       \/ ~calm /\ UNCHANGED flash
    /\ ptr' = ptr + 1
    /\ UNCHANGED <<jump_token, pc, bootloader_status, current_page, page_buffer, dirty,
                   changed, rec, pos, file, calm, flash0, loaded>>

\* flash_unlock fails before the erase or the first cell.
UnlockFails ==
    /\ ~calm
    /\ pc = "erase" \/ (pc = "program" /\ ptr = current_page)
    /\ Halt
    /\ UNCHANGED <<flash, jump_token, current_page, page_buffer, dirty, changed, rec, pos, ptr,
                   file, calm, flash0, loaded>>

\* Fault: the page is not read back.
VerifiedFault == TRUE

Verified == flash_page_compare(current_page) = 0

\* After flush_page: the end-of-file record is done, or the callback goes on.
Resume == pc' = IF file[rec].type = "eof" THEN "eof" ELSE "copy"

Verify ==
    /\ pc = "program" /\ ptr \notin PageCells(current_page)
    /\ \/ /\ Verified
          /\ changed' = TRUE /\ dirty' = FALSE
          /\ Resume
          /\ UNCHANGED bootloader_status
       \/ /\ ~Verified
          /\ Halt
          /\ UNCHANGED <<changed, dirty>>
    /\ UNCHANGED <<flash, jump_token, current_page, page_buffer, rec, pos, ptr,
                   file, calm, flash0, loaded>>

-----------------------------------------------------------------------------
(* bootloader.c *)

\* flush_page with a dirty buffer, as far as flash_page_maybe_write's choice.
FlushPage ==
    /\ pc = "flush"
    /\ LET status == flash_page_compare(current_page)
       IN  \/ /\ status = 0
              /\ dirty' = FALSE
              /\ Resume
              /\ UNCHANGED <<bootloader_status, ptr>>
           \/ /\ status # 0 /\ ~flash_can_write(current_page)
              /\ Halt
              /\ UNCHANGED <<dirty, ptr>>
           \/ /\ status # 0 /\ flash_can_write(current_page)
              /\ pc' = IF status = 2 THEN "erase" ELSE "program"
              /\ ptr' = current_page
              /\ UNCHANGED <<bootloader_status, dirty>>
    /\ UNCHANGED <<flash, jump_token, current_page, page_buffer, changed, rec, pos,
                   file, calm, flash0, loaded>>

\* bootloader_callback at a cell of another page: flush, then load the page.
NewPage ==
    /\ pc = "copy"
    /\ LET page == PAGE_OF(file[rec].addr + pos)
       IN  /\ page # current_page
           /\ \/ /\ dirty
                 /\ pc' = "flush"
                 /\ UNCHANGED <<page_buffer, current_page>>
              \/ /\ ~dirty
                 /\ page_buffer' = [i \in 0 .. PAGE_SIZE - 1 |-> flash[page + i]]
                 /\ current_page' = page
                 /\ UNCHANGED pc
    /\ UNCHANGED <<flash, jump_token, bootloader_status, dirty, changed, rec, pos, ptr,
                   file, calm, flash0, loaded>>

\* The part of the record that lies in the present page.
CopyChunk ==
    /\ pc = "copy"
    /\ LET r     == file[rec]
           index == r.addr + pos - current_page
           room  == PAGE_SIZE - index
           chunk_size == IF room > Len(r.data) - pos THEN Len(r.data) - pos ELSE room
       IN  /\ PAGE_OF(r.addr + pos) = current_page
           /\ page_buffer' = [i \in 0 .. PAGE_SIZE - 1 |->
                                 IF index <= i /\ i < index + chunk_size
                                 THEN r.data[pos + i - index + 1] ELSE page_buffer[i]]
           /\ pos' = pos + chunk_size
           /\ pc' = IF pos' = Len(r.data) THEN "feed" ELSE "copy"
    /\ dirty' = TRUE
    /\ UNCHANGED <<flash, jump_token, bootloader_status, current_page, changed, rec, ptr,
                   file, calm, flash0, loaded>>

\* The next record comes out of ihex_feed; a record it rejects, the end of
\* the file or a read error ends in HALT.
Feed ==
    /\ pc = "feed"
    /\ \/ /\ rec < Len(file) /\ file[rec + 1].type = "data"
          /\ rec' = rec + 1 /\ pos' = 0
          /\ pc' = "copy"
          /\ UNCHANGED bootloader_status
       \/ /\ rec < Len(file) /\ file[rec + 1].type = "eof"
          /\ rec' = rec + 1 /\ pos' = 0
          /\ pc' = IF dirty THEN "flush" ELSE "eof"
          /\ UNCHANGED bootloader_status
       \/ /\ rec < Len(file) /\ file[rec + 1].type = "bad"
          /\ Halt
          /\ UNCHANGED <<rec, pos>>
       \/ /\ rec = Len(file) \/ ~calm
          /\ pc' = "halt"
          /\ UNCHANGED <<rec, pos, bootloader_status>>
    /\ UNCHANGED <<flash, jump_token, current_page, page_buffer, dirty, changed, ptr,
                   file, calm, flash0, loaded>>

Done ==
    /\ pc = "eof"
    /\ bootloader_status' = "DONE"
    /\ loaded' = TRUE
    /\ pc' = "boot"
    /\ UNCHANGED <<flash, jump_token, current_page, page_buffer, dirty, changed, rec, pos, ptr,
                   file, calm, flash0>>

-----------------------------------------------------------------------------
(* main.c *)

\* The startup code after a reset clears RAM, the token excepted.
Startup ==
    /\ pc' = "reset"
    /\ bootloader_status' = "WAITING" /\ current_page' = 0
    /\ page_buffer' = [i \in 0 .. PAGE_SIZE - 1 |-> "zero"]
    /\ dirty' = FALSE /\ changed' = FALSE /\ rec' = 0 /\ pos' = 0 /\ ptr' = 0

\* main: with the token set, jump to the application if there is one.
Main ==
    /\ pc = "reset"
    /\ pc' = IF jump_token /\ flash[user_vtor] # "FF" THEN "app" ELSE "mount"
    /\ jump_token' = FALSE
    /\ UNCHANGED <<flash, ram, file, calm, flash0, loaded>>

\* try_flash: open the file and start, or go on with what is in flash.
Mount ==
    /\ pc = "mount"
    /\ flash0' = flash
    /\ loaded' = FALSE
    /\ \/ /\ pc' = "feed"
          /\ bootloader_status' = "FLASHING"
          /\ current_page' = 0 /\ dirty' = FALSE /\ changed' = FALSE
          /\ rec' = 0 /\ pos' = 0
          /\ UNCHANGED <<page_buffer, ptr>>
       \/ /\ ~calm
          /\ pc' = "boot"
          /\ UNCHANGED ram
    /\ UNCHANGED <<flash, jump_token, file, calm>>

\* main_thread: set the token and reset, or try again after a while.
BootApp ==
    /\ pc = "boot"
    /\ jump_token' = (flash[user_vtor] # "FF")
    /\ Startup
    /\ UNCHANGED <<flash, file, calm, flash0, loaded>>

\* A reset or a power cycle, by the user, the supply or the watchdog: what
\* is being erased or programmed is left undefined, and the card may be
\* exchanged.  The last one clears RAM and leaves a firmware image inserted.
Interrupted == IF pc = "erase" THEN PageCells(current_page)
               ELSE IF pc = "program" THEN PageCells(current_page) \cap {ptr}
               ELSE {}

PowerCycle ==
    /\ ~calm
    /\ \E torn \in [Interrupted -> Value] :
          flash' = [a \in Cell |-> IF a \in Interrupted THEN torn[a] ELSE flash[a]]
    /\ Startup
    /\ file' \in Files
    /\ calm' \in {c \in BOOLEAN : c => Firmware(file')}
    /\ jump_token' \in {t \in BOOLEAN : t => jump_token /\ ~calm' /\ file' = file}
    /\ loaded' = (loaded /\ jump_token')
    /\ flash0' = IF loaded' THEN flash0 ELSE flash'

-----------------------------------------------------------------------------
Loader ==
    \/ Main \/ Mount \/ Feed \/ NewPage \/ CopyChunk \/ FlushPage
    \/ Erase \/ Program \/ UnlockFails \/ Verify \/ Done \/ BootApp

Next == Loader \/ PowerCycle

Spec == Init /\ [][Next]_vars /\ WF_vars(Loader)

-----------------------------------------------------------------------------
TypeOK ==
    /\ flash \in [Cell -> Value] /\ flash0 \in [Cell -> Value]
    /\ jump_token \in BOOLEAN /\ calm \in BOOLEAN /\ loaded \in BOOLEAN
    /\ pc \in {"reset", "mount", "feed", "copy", "flush", "erase", "program", "eof", "boot",
               "app", "halt"}
    /\ bootloader_status \in {"WAITING", "FLASHING", "DONE", "ERROR"}
    /\ current_page \in Cell /\ current_page % PAGE_SIZE = 0
    /\ page_buffer \in [0 .. PAGE_SIZE - 1 -> Value]
    /\ dirty \in BOOLEAN /\ changed \in BOOLEAN
    /\ rec \in 0 .. Len(file) /\ pos \in Nat /\ ptr \in 0 .. FlashEnd
    /\ file \in Files

\* Whatever the file says and wherever power fails, the bootloader's own
\* pages keep their contents.
BootloaderIntact ==
    \A a \in Cell : ~(UserStart <= a /\ a < UserEnd) => flash[a] = "code"

\* A boot that reached BLS_DONE, and the application it starts, have exactly
\* the file's data in flash, and around it what was there before: pages that
\* are visited more than once, records that cross pages and words the flash
\* refused included.
DoneMeansProgrammed == loaded => flash = Image(file, flash0)

\* "Firmware is up-to-date": with an image that is already loaded, nothing
\* is erased or written, so that a power failure can do no harm.
UpToDateUntouched ==
    pc \notin {"reset", "mount", "app"} /\ Firmware(file) /\ flash0 = Image(file, flash0)
        => flash = flash0 /\ ~changed

\* An update programs all of the file, once: what differs is written, what agrees is
\* left alone.
UpdateExact == DoneMeansProgrammed /\ UpToDateUntouched

\* "Reset to try again": whatever an interrupted or failed update left, one
\* power cycle with an image on the card and no further failure ends in the
\* application, complete.
Recovers == calm ~> pc = "app" /\ flash = Image(file, flash)
=============================================================================
