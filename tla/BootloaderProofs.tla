-------------------------- MODULE BootloaderProofs --------------------------
(* Proofs about the bootloader, and about FatFs and the SD card driver under   *)
(* it, for every layout of the flash, every file, every volume and every point *)
(* at which power or the card fails.                                           *)
EXTENDS Bootloader, Fat, Mmc, TLAPS

-----------------------------------------------------------------------------
(* Pages. *)

(* Quotient and remainder. *)
LEMMA DivMod ==
    ASSUME NEW n \in Nat \ {0}, NEW x \in Int
    PROVE  x \div n \in Int /\ x % n \in 0 .. n - 1 /\ x = n * (x \div n) + (x % n)
  OBVIOUS

(* A multiple has no remainder. *)
LEMMA ModZero ==
    ASSUME NEW n \in Nat \ {0}, NEW q \in Int
    PROVE  (q * n) % n = 0
<1> DEFINE x == q * n
           e == x \div n
           m == x % n
<1>1. x \in Int
  OBVIOUS
<1> HIDE DEF x
<1>2. e \in Int /\ m \in 0 .. n - 1 /\ x = n * e + m
  BY <1>1, DivMod
<1> HIDE DEF e, m
<1>3. n * (q - e) = m
  BY <1>2 DEF x
<1>4. q - e < 1
  <2>1. SUFFICES ASSUME q - e >= 1 PROVE FALSE
    BY <1>2
  <2>2. n * (q - e) >= n
    BY <2>1, <1>2
  <2> QED
    BY <2>2, <1>2, <1>3
<1>5. q - e > -1
  <2>1. SUFFICES ASSUME q - e <= -1 PROVE FALSE
    BY <1>2
  <2>2. n * (q - e) <= -n
    BY <2>1, <1>2
  <2> QED
    BY <2>2, <1>2, <1>3
<1>6. m = 0
  BY <1>2, <1>3, <1>4, <1>5
<1> QED
  BY <1>6 DEF m, x

(* Two multiples are equal or a divisor apart. *)
LEMMA Multiples ==
    ASSUME NEW n \in Nat \ {0}, NEW x \in Int, NEW y \in Int,
           x % n = 0, y % n = 0, x < y
    PROVE  x + n <= y
<1> DEFINE d == x \div n
           e == y \div n
<1>1. d \in Int /\ e \in Int /\ x = n * d /\ y = n * e
  BY DivMod
<1> HIDE DEF d, e
<1>2. d < e
  <2>1. SUFFICES ASSUME e <= d PROVE FALSE
    BY <1>1
  <2>2. n * e <= n * d
    BY <1>1, <2>1
  <2> QED
    BY <1>1, <2>2
<1>3. n * (d + 1) <= n * e
  BY <1>1, <1>2
<1> QED
  BY <1>1, <1>3

(* The layout's numbers. *)
LEMMA Layout ==
    /\ PAGE_SIZE \in Nat \ {0} /\ UserStart \in Nat /\ UserEnd \in Nat /\ FlashEnd \in Nat
    /\ UserStart % PAGE_SIZE = 0 /\ UserEnd % PAGE_SIZE = 0 /\ FlashEnd % PAGE_SIZE = 0
    /\ 0 < UserStart /\ UserStart < UserEnd /\ UserEnd <= FlashEnd
  BY LayoutAssumption

Page(page) == page \in Cell /\ page % PAGE_SIZE = 0

(* All of a page is flash. *)
LEMMA PageWhole == ASSUME NEW page, Page(page)
                   PROVE  page \in Nat /\ page + PAGE_SIZE <= FlashEnd /\ PageCells(page) \subseteq Cell
<1>1. page \in Int /\ 0 <= page /\ page < FlashEnd /\ page % PAGE_SIZE = 0
  BY Layout DEF Page, Cell
<1>2. page + PAGE_SIZE <= FlashEnd
  <2>1. PAGE_SIZE \in Nat \ {0} /\ FlashEnd \in Int /\ FlashEnd % PAGE_SIZE = 0
    BY Layout
  <2> QED
    BY <1>1, <2>1, Multiples
<1> QED
  BY <1>1, <1>2, Layout DEF PageCells, Cell

(* The page of a cell. *)
LEMMA PageOf == ASSUME NEW a \in Cell
                PROVE  Page(PAGE_OF(a)) /\ PAGE_OF(a) <= a /\ a < PAGE_OF(a) + PAGE_SIZE
<1> DEFINE e == a \div PAGE_SIZE
           m == a % PAGE_SIZE
<1>1. a \in Int /\ 0 <= a /\ a < FlashEnd /\ PAGE_SIZE \in Nat \ {0} /\ FlashEnd \in Nat
  BY Layout DEF Cell
<1>2. e \in Int /\ m \in 0 .. PAGE_SIZE - 1 /\ a = PAGE_SIZE * e + m
  BY <1>1, DivMod
<1>3. PAGE_OF(a) = e * PAGE_SIZE
  BY DEF PAGE_OF
<1> HIDE DEF e, m
<1>4. (e * PAGE_SIZE) % PAGE_SIZE = 0
  BY <1>1, <1>2, ModZero
<1>5. e >= 0
  <2>1. SUFFICES ASSUME e <= -1 PROVE FALSE
    BY <1>2
  <2>2. PAGE_SIZE * e <= -PAGE_SIZE
    BY <1>1, <1>2, <2>1
  <2> QED
    BY <1>1, <1>2, <2>2
<1>6. e * PAGE_SIZE \in Nat /\ e * PAGE_SIZE <= a /\ a < e * PAGE_SIZE + PAGE_SIZE
  BY <1>1, <1>2, <1>5
<1>7. e * PAGE_SIZE \in Cell
  BY <1>1, <1>6 DEF Cell
<1> QED
  BY <1>3, <1>4, <1>6, <1>7 DEF Page

-----------------------------------------------------------------------------
(* What a file holds. *)

\* The records that have given a cell its data when p cells of record k are copied.
Copied(f, k, p, a) == {i \in 1 .. k : Holds(f[i], a) /\ (i = k => a < f[k].addr + p)}

\* The value of a cell with those records.
Given(f, own, base, a) ==
    IF own = {} THEN base ELSE f[Max(own)].data[a - f[Max(own)].addr + 1]

SoFar(f, k, p, base, a) == Given(f, Copied(f, k, p, a), base, a)

(* The records of a file. *)
LEMMA RecordType ==
    ASSUME NEW f \in Files, NEW i \in 1 .. Len(f)
    PROVE  /\ Len(f) \in Nat /\ f[i].addr \in Nat /\ f[i].data \in Seq(Value) /\ Len(f[i].data) \in Nat
           /\ f[i].type \in {"data", "eof", "bad"}
           /\ f[i].type = "data" => Len(f[i].data) > 0 /\ f[i].addr + Len(f[i].data) <= FlashEnd
<1> DEFINE R == [type : {"data", "eof", "bad"}, addr : Nat, data : Seq(Value)]
<1>1. f \in Seq(R)
  BY FilesAssumption
<1> HIDE DEF R
<1>2. f[i] \in R /\ DOMAIN f = 1 .. Len(f) /\ Len(f) \in Nat
  BY <1>1
<1>3. f[i].type = "data" => f[i].data # << >> /\ f[i].addr + Len(f[i].data) <= FlashEnd
  BY <1>2, FilesAssumption
<1>4. /\ f[i].addr \in Nat /\ f[i].data \in Seq(Value) /\ Len(f[i].data) \in Nat
      /\ f[i].type \in {"data", "eof", "bad"}
  BY <1>2 DEF R
<1>5. f[i].data # << >> => Len(f[i].data) > 0
  BY <1>4
<1> QED
  BY <1>2, <1>3, <1>4, <1>5

(* A file has a length. *)
LEMMA FileSeq == ASSUME NEW f \in Files PROVE Len(f) \in Nat /\ DOMAIN f = 1 .. Len(f)
<1>1. f \in Seq([type : {"data", "eof", "bad"}, addr : Nat, data : Seq(Value)])
  BY FilesAssumption
<1> QED
  BY <1>1

(* The image in these terms. *)
LEMMA ImageGiven ==
    ASSUME NEW f, NEW base, NEW a \in Cell
    PROVE  Image(f, base)[a] = Given(f, Writers(f, a), base[a], a)
  BY DEF Image, Given

(* Before the first record. *)
LEMMA FirstRecord ==
    ASSUME NEW f \in Files, NEW p, NEW base, NEW a PROVE SoFar(f, 0, p, base, a) = base
<1>1. Copied(f, 0, p, a) = {}
  BY DEF Copied
<1> QED
  BY <1>1 DEF SoFar, Given

(* From one record to the next. *)
LEMMA NextRecord ==
    ASSUME NEW f \in Files, NEW k \in 0 .. Len(f) - 1, NEW p \in Nat, NEW base, NEW a \in Cell,
           k > 0 => f[k].type = "data" /\ p = Len(f[k].data)
    PROVE  SoFar(f, k + 1, 0, base, a) = SoFar(f, k, p, base, a)
<1>1. Len(f) \in Nat /\ a \in Nat
  BY FileSeq, Layout DEF Cell
<1>2. f[k + 1].addr \in Nat
  BY <1>1, RecordType
<1>3. ASSUME NEW i \in 1 .. k + 1
      PROVE  (Holds(f[i], a) /\ (i = k + 1 => a < f[k + 1].addr + 0))
             <=> (i \in 1 .. k /\ Holds(f[i], a) /\ (i = k => a < f[k].addr + p))
  <2>1. CASE i = k + 1
    BY <1>1, <1>2, <2>1 DEF Holds
  <2>2. CASE i = k
    BY <1>1, <2>2 DEF Holds
  <2>3. CASE i < k
    BY <1>1, <2>3
  <2> QED
    BY <1>1, <2>1, <2>2, <2>3
<1>4. Copied(f, k + 1, 0, a) = Copied(f, k, p, a)
  BY <1>1, <1>3 DEF Copied
<1> QED
  BY <1>4 DEF SoFar

(* The greatest of a set of record numbers, when its last one is there. *)
LEMMA MaxLast ==
    ASSUME NEW k \in Nat, NEW S \in SUBSET (1 .. k), k \in S PROVE Max(S) = k
<1>1. k \in S /\ \A y \in S : k >= y
  OBVIOUS
<1>2. Max(S) \in S /\ \A y \in S : Max(S) >= y
  BY <1>1 DEF Max
<1> DEFINE m == Max(S)
<1>3. m \in S /\ \A y \in S : m >= y
  BY <1>2
<1> HIDE DEF m
<1>4. m \in Int /\ k >= m /\ m >= k
  BY <1>1, <1>3
<1>5. m = k
  BY <1>4
<1> QED
  BY <1>5 DEF m

(* A piece of a record is copied. *)
LEMMA CopyPiece ==
    ASSUME NEW f \in Files, NEW k \in 1 .. Len(f), NEW p \in Nat, NEW n \in Nat, NEW base,
           NEW a \in Cell, f[k].type = "data", p + n <= Len(f[k].data)
    PROVE  SoFar(f, k, p + n, base, a) =
              IF f[k].addr + p <= a /\ a < f[k].addr + p + n THEN f[k].data[a - f[k].addr + 1]
              ELSE SoFar(f, k, p, base, a)
<1>1. Len(f) \in Nat /\ a \in Nat /\ k \in Nat /\ f[k].addr \in Nat /\ Len(f[k].data) \in Nat
  BY FileSeq, RecordType, Layout DEF Cell
<1>2. CASE f[k].addr + p <= a /\ a < f[k].addr + p + n
  <2>1. k \in Copied(f, k, p + n, a)
    BY <1>1, <1>2, SMTT(40) DEF Copied, Holds
  <2>2. Copied(f, k, p + n, a) \in SUBSET (1 .. k)
    BY DEF Copied
  <2>3. Max(Copied(f, k, p + n, a)) = k
    BY <1>1, <2>1, <2>2, MaxLast
  <2> QED
    BY <1>2, <2>1, <2>3 DEF SoFar, Given
<1>3. CASE ~(f[k].addr + p <= a /\ a < f[k].addr + p + n)
  <2>1. ASSUME Holds(f[k], a) PROVE a < f[k].addr + (p + n) <=> a < f[k].addr + p
    BY <1>1, <1>3 DEF Holds
  <2>2. Copied(f, k, p + n, a) = Copied(f, k, p, a)
    BY <2>1 DEF Copied
  <2> QED
    BY <1>3, <2>2 DEF SoFar
<1> QED
  BY <1>2, <1>3

(* At the end-of-file record the file is complete. *)
LEMMA FileComplete ==
    ASSUME NEW f \in Files, NEW k \in 1 .. Len(f), NEW p \in Nat, NEW base, NEW a \in Cell,
           f[k].type = "eof", \A i \in 1 .. k - 1 : f[i].type = "data"
    PROVE  SoFar(f, k, p, base[a], a) = Image(f, base)[a]
<1>1. Len(f) \in Nat /\ DOMAIN f = 1 .. Len(f) /\ k \in Nat
  BY FileSeq
<1>2. ASSUME NEW i \in 1 .. Len(f)
      PROVE  (Holds(f[i], a) /\ \A j \in 1 .. i - 1 : f[j].type # "eof")
             <=> (i \in 1 .. k /\ Holds(f[i], a) /\ (i = k => a < f[k].addr + p))
  <2>1. CASE i < k
    <3>1. i \in 1 .. k /\ i # k /\ \A j \in 1 .. i - 1 : j \in 1 .. k - 1
      BY <1>1, <2>1
    <3> QED
      BY <3>1
  <2>2. CASE i = k
    BY <2>2 DEF Holds
  <2>3. CASE i > k
    <3>1. k \in 1 .. i - 1 /\ i \notin 1 .. k
      BY <1>1, <2>3
    <3> QED
      BY <3>1
  <2> QED
    BY <1>1, <2>1, <2>2, <2>3
<1>3. Copied(f, k, p, a) = Writers(f, a)
  BY <1>1, <1>2 DEF Copied, Writers
<1> QED
  BY <1>3, ImageGiven DEF SoFar

(* While an image is loaded that is there already, every cell has its value.   *)
LEMMA NothingNew ==
    ASSUME NEW f \in Files, NEW k \in 0 .. Len(f), NEW p \in Nat, NEW base \in [Cell -> Value],
           NEW a \in Cell, Firmware(f), base = Image(f, base)
    PROVE  SoFar(f, k, p, base[a], a) = base[a]
<1> DEFINE own == Copied(f, k, p, a)
<1>1. Len(f) \in Nat /\ DOMAIN f = 1 .. Len(f) /\ k \in Nat /\ a \in Nat
  BY FileSeq, Layout DEF Cell
<1>2. CASE own = {}
  BY <1>2 DEF SoFar, Given
<1>3. CASE own # {}
  <2>1. PICK i \in 1 .. Len(f) : i \in own /\ Holds(f[i], a)
    BY <1>1, <1>3 DEF Copied
  <2>2. f[Len(f)].type = "eof" /\ \A j \in 1 .. Len(f) - 1 : f[j].type = "data"
    <3>1. f # << >> /\ f[Len(f)].type = "eof"
      BY DEF Firmware, Last
    <3> QED
      BY <3>1 DEF Firmware
  <2>3. ASSUME NEW j \in 1 .. Len(f), Holds(f[j], a) PROVE j = i
    <3>1. i \in 1 .. Len(f) - 1 /\ j \in 1 .. Len(f) - 1
      BY <1>1, <2>1, <2>2, <2>3 DEF Holds
    <3>2. ASSUME NEW x \in 1 .. Len(f) - 1, NEW y \in 1 .. Len(f) - 1, x < y,
                 Holds(f[x], a), Holds(f[y], a)
          PROVE  FALSE
      <4>1. x \in 1 .. y - 1
        BY <1>1, <3>2
      <4>2. \/ f[y].addr + Len(f[y].data) <= f[x].addr
            \/ f[x].addr + Len(f[x].data) <= f[y].addr
        BY <4>1 DEF Firmware
      <4>3. f[x].addr \in Nat /\ f[y].addr \in Nat /\ Len(f[x].data) \in Nat /\ Len(f[y].data) \in Nat
        BY <1>1, RecordType
      <4>4. /\ f[x].addr <= a /\ a < f[x].addr + Len(f[x].data)
            /\ f[y].addr <= a /\ a < f[y].addr + Len(f[y].data)
        BY <3>2 DEF Holds
      <4> QED
        BY <1>1, <4>2, <4>3, <4>4, SMTT(40)
    <3> QED
      BY <1>1, <2>1, <2>3, <3>1, <3>2
  <2>4. \A j \in 1 .. i - 1 : f[j].type # "eof"
    <3>1. i <= Len(f) - 1
      BY <1>1, <2>1, <2>2 DEF Holds
    <3> QED
      BY <1>1, <2>2, <3>1
  <2>5. own = {i}
    BY <1>1, <2>1, <2>3 DEF Copied
  <2>6. Writers(f, a) = {i}
    BY <1>1, <2>1, <2>3, <2>4 DEF Writers
  <2> QED
    BY <2>5, <2>6, ImageGiven DEF SoFar
<1> QED
  BY <1>2, <1>3

-----------------------------------------------------------------------------
(* The bootloader. *)

Loading == {"feed", "copy", "flush", "erase", "program", "eof"}

\* A page is erased and programmed only where the application may be, from a buffer
\* that is still to be written.
PcInv ==
    /\ pc \in {"flush", "erase", "program"} => dirty
    /\ pc \in {"erase", "program"} => flash_can_write(current_page)
    /\ pc \in {"reset", "mount"} => ~changed
    /\ pc = "eof" => ~dirty
    /\ pc = "program" => current_page <= ptr /\ ptr <= current_page + PAGE_SIZE

\* The records before the present one were all data, and all copied.
RecInv ==
    pc \in Loading =>
        /\ \A i \in 1 .. rec - 1 : file[i].type = "data"
        /\ pc = "feed" /\ rec > 0 => file[rec].type = "data" /\ pos = Len(file[rec].data)
        /\ pc # "feed" => rec > 0
        /\ pc = "copy" => file[rec].type = "data" /\ pos < Len(file[rec].data)
        /\ pc \in {"flush", "erase", "program"} =>
              file[rec].type = "eof" \/ (file[rec].type = "data" /\ pos < Len(file[rec].data))
        /\ pc = "eof" => file[rec].type = "eof"

\* Flash and page buffer together hold what the file has said so far.  The first page
\* is never read into the buffer, but then it cannot be written either.
ContentInv ==
    pc \in Loading =>
        /\ \A a \in Cell :
              IF dirty /\ a \in PageCells(current_page)
              THEN \/ SoFar(file, rec, pos, flash0[a], a) = page_buffer[a - current_page]
                   \/ /\ ~flash_can_write(current_page)
                      /\ SoFar(file, rec, pos, flash0[a], a) = flash[a]
              ELSE SoFar(file, rec, pos, flash0[a], a) = flash[a]
        /\ ~dirty /\ flash_can_write(current_page) =>
              \A a \in PageCells(current_page) : page_buffer[a - current_page] = flash[a]

LoadedInv ==
    loaded => pc \in {"boot", "reset", "app", "mount"} /\ flash = Image(file, flash0)

UpToDate == Firmware(file) /\ flash0 = Image(file, flash0)

UntouchedInv ==
    pc \in Loading \cup {"boot", "halt"} /\ UpToDate =>
        flash = flash0 /\ ~changed /\ pc \notin {"erase", "program"}

LoaderInv ==
    /\ TypeOK /\ BootloaderIntact /\ PcInv /\ RecInv /\ ContentInv /\ LoadedInv /\ UntouchedInv

(* A page that may be written lies in the application's area. *)
LEMMA WritablePage ==
    ASSUME NEW page, Page(page), flash_can_write(page)
    PROVE  \A a \in PageCells(page) : UserStart <= a /\ a < UserEnd
<1>1. page \in Nat
  BY PageWhole
<1> QED
  BY <1>1, Layout DEF flash_can_write, PageCells

(* Two pages are equal when the comparison says so. *)
LEMMA CompareRight ==
    ASSUME NEW page
    PROVE  flash_page_compare(page) = 0 <=> \A a \in PageCells(page) : flash[a] = page_buffer[a - page]
  BY DEF flash_page_compare, Differ

(* Only flash changes, within a page that is being written. *)
LEMMA PageChange ==
    ASSUME LoaderInv, pc \in {"erase", "program"}, pc' \in {"program", "halt"},
           flash' \in [Cell -> Value],
           \A a \in Cell \ PageCells(current_page) : flash'[a] = flash[a],
           UNCHANGED <<jump_token, current_page, page_buffer, dirty, changed, rec, pos,
                       file, calm, flash0, loaded>>
    PROVE  BootloaderIntact' /\ RecInv' /\ ContentInv' /\ LoadedInv' /\ UntouchedInv'
<1>1. Page(current_page) /\ dirty /\ flash_can_write(current_page) /\ pc \in Loading
  BY DEF LoaderInv, TypeOK, PcInv, Page, Loading
<1>2. BootloaderIntact'
  BY <1>1, WritablePage DEF LoaderInv, BootloaderIntact
<1>3. RecInv'
  BY DEF LoaderInv, RecInv, Loading
<1>4. ContentInv'
  <2>1. flash_can_write(current_page)'
    BY <1>1 DEF flash_can_write
  <2>2. \A a \in Cell :
           IF a \in PageCells(current_page)
           THEN SoFar(file, rec, pos, flash0[a], a) = page_buffer[a - current_page]
           ELSE SoFar(file, rec, pos, flash0[a], a) = flash'[a]
    BY <1>1 DEF LoaderInv, ContentInv
  <2>3. \A a \in Cell :
           IF a \in PageCells(current_page)'
           THEN SoFar(file, rec, pos, flash0[a], a)' = page_buffer'[a - current_page']
           ELSE SoFar(file, rec, pos, flash0[a], a)' = flash'[a]
    BY <2>2, ZenonT(40) DEF PageCells, SoFar, Given, Copied, Holds
  <2> QED
    BY <1>1, <2>3 DEF ContentInv
<1>5. ~loaded
  BY DEF LoaderInv, LoadedInv
<1>6. ~UpToDate /\ (UpToDate' <=> UpToDate)
  BY <1>1 DEF LoaderInv, UntouchedInv, UpToDate, Loading
<1> QED
  BY <1>2, <1>3, <1>4, <1>5, <1>6 DEF LoadedInv, UntouchedInv

(* A page is erased. *)
LEMMA EraseInv == LoaderInv /\ Erase => LoaderInv'
<1> SUFFICES ASSUME LoaderInv, Erase PROVE LoaderInv'
  OBVIOUS
<1>1. /\ pc = "erase" /\ UNCHANGED <<jump_token, current_page, page_buffer, dirty, changed, rec, pos,
                                     file, calm, flash0, loaded>>
  BY DEF Erase
<1>2. \/ pc' = "program" /\ ptr' = current_page /\ UNCHANGED bootloader_status
      \/ pc' = "halt" /\ ptr' = ptr /\ bootloader_status' = "ERROR"
  BY DEF Erase, Halt
<1>3. \/ flash' = [a \in Cell |-> IF a \in PageCells(current_page) THEN "FF" ELSE flash[a]]
      \/ flash' = flash
  BY DEF Erase
<1>4. flash' \in [Cell -> Value] /\ \A a \in Cell \ PageCells(current_page) : flash'[a] = flash[a]
  BY <1>3 DEF LoaderInv, TypeOK, Value
<1>5. Page(current_page)
  BY DEF LoaderInv, TypeOK, Page
<1>6. current_page \in Nat /\ current_page <= FlashEnd
  BY <1>5, PageWhole, Layout
<1>7. TypeOK'
  <2>1. ptr' \in 0 .. FlashEnd
    BY <1>2, <1>6, Layout DEF LoaderInv, TypeOK
  <2> QED
    BY <1>1, <1>2, <1>4, <2>1 DEF LoaderInv, TypeOK
<1>8. PcInv'
  BY <1>1, <1>2, <1>6, Layout DEF LoaderInv, PcInv, flash_can_write
<1> QED
  BY <1>1, <1>2, <1>4, <1>7, <1>8, PageChange DEF LoaderInv

(* A cell is programmed. *)
LEMMA ProgramInv == LoaderInv /\ Program => LoaderInv'
<1> SUFFICES ASSUME LoaderInv, Program PROVE LoaderInv'
  OBVIOUS
<1>1. /\ pc = "program" /\ pc' = pc /\ bootloader_status' = bootloader_status /\ ptr' = ptr + 1
      /\ ptr \in PageCells(current_page)
      /\ UNCHANGED <<jump_token, current_page, page_buffer, dirty, changed, rec, pos,
                     file, calm, flash0, loaded>>
  BY DEF Program
<1>2. Page(current_page)
  BY DEF LoaderInv, TypeOK, Page
<1>3. /\ current_page \in Nat /\ current_page + PAGE_SIZE <= FlashEnd /\ ptr \in Cell
      /\ ptr - current_page \in 0 .. PAGE_SIZE - 1
  BY <1>1, <1>2, PageWhole, Layout DEF PageCells
<1>4. flash' \in [Cell -> Value] /\ \A a \in Cell \ PageCells(current_page) : flash'[a] = flash[a]
  <2>1. CASE flash' = flash
    BY <2>1 DEF LoaderInv, TypeOK
  <2>2. CASE flash' = [flash EXCEPT ![ptr] = IF @ = "FF" THEN page_buffer[ptr - current_page] ELSE @]
    <3>1. page_buffer[ptr - current_page] \in Value /\ flash[ptr] \in Value
      BY <1>3 DEF LoaderInv, TypeOK
    <3> QED
      BY <1>1, <2>2, <3>1 DEF LoaderInv, TypeOK
  <2> QED
    BY <2>1, <2>2 DEF Program
<1>5. ptr' \in 0 .. FlashEnd /\ current_page <= ptr' /\ ptr' <= current_page + PAGE_SIZE
  BY <1>1, <1>3, Layout DEF PageCells
<1>6. TypeOK'
  BY <1>1, <1>4, <1>5 DEF LoaderInv, TypeOK
<1>7. PcInv'
  BY <1>1, <1>5 DEF LoaderInv, PcInv, flash_can_write
<1> QED
  BY <1>1, <1>4, <1>6, <1>7, PageChange DEF LoaderInv

(* The flash cannot be unlocked. *)
LEMMA UnlockFailsInv == LoaderInv /\ UnlockFails => LoaderInv'
<1> SUFFICES ASSUME LoaderInv, UnlockFails PROVE LoaderInv'
  OBVIOUS
<1>1. /\ pc \in {"erase", "program"} /\ pc' = "halt" /\ bootloader_status' = "ERROR"
      /\ UNCHANGED <<flash, jump_token, current_page, page_buffer, dirty, changed, rec, pos, ptr,
                     file, calm, flash0, loaded>>
  BY DEF UnlockFails, Halt
<1>2. TypeOK'
  BY <1>1 DEF LoaderInv, TypeOK
<1>3. PcInv'
  BY <1>1 DEF PcInv
<1>4. flash' \in [Cell -> Value] /\ \A a \in Cell \ PageCells(current_page) : flash'[a] = flash[a]
  BY <1>1 DEF LoaderInv, TypeOK
<1> QED
  BY <1>1, <1>2, <1>3, <1>4, PageChange DEF LoaderInv

(* The loader stops and leaves the flash as it is. *)
LEMMA HaltInv ==
    ASSUME LoaderInv, pc \in Loading, pc' = "halt", TypeOK',
           UNCHANGED <<flash, changed, file, flash0, loaded>>
    PROVE  LoaderInv'
<1>1. ~loaded /\ (UpToDate' <=> UpToDate) /\ (UpToDate => flash = flash0 /\ ~changed)
  BY DEF LoaderInv, LoadedInv, UntouchedInv, UpToDate, Loading
<1>2. BootloaderIntact'
  BY DEF LoaderInv, BootloaderIntact
<1> QED
  BY <1>1, <1>2 DEF LoaderInv, PcInv, RecInv, ContentInv, LoadedInv, UntouchedInv, Loading

(* The page in the buffer is in flash, and the record goes on. *)
LEMMA FlushedInv ==
    ASSUME LoaderInv, pc \in {"flush", "program"}, flash_page_compare(current_page) = 0,
           ~dirty', Resume, TypeOK',
           UNCHANGED <<flash, current_page, page_buffer, rec, pos, file, flash0, loaded>>
    PROVE  BootloaderIntact' /\ PcInv' /\ RecInv' /\ ContentInv' /\ LoadedInv'
<1>1. /\ pc \in Loading /\ pc' \in {"eof", "copy"} /\ pc' \in Loading
      /\ pc' = "eof" <=> file[rec].type = "eof"
  BY DEF Resume, Loading
<1>2. BootloaderIntact' /\ PcInv' /\ LoadedInv'
  BY <1>1 DEF LoaderInv, BootloaderIntact, PcInv, LoadedInv
<1>3. RecInv'
  <2>1. /\ \A i \in 1 .. rec - 1 : file[i].type = "data"
        /\ rec > 0
        /\ file[rec].type = "eof" \/ (file[rec].type = "data" /\ pos < Len(file[rec].data))
    BY <1>1 DEF LoaderInv, RecInv
  <2> QED
    BY <1>1, <2>1 DEF RecInv
<1>4. ContentInv'
  <2>1. dirty /\ \A a \in PageCells(current_page) : flash[a] = page_buffer[a - current_page]
    BY CompareRight DEF LoaderInv, PcInv
  <2>2. \A a \in Cell : SoFar(file, rec, pos, flash0[a], a) = flash[a]
    BY <1>1, <2>1 DEF LoaderInv, ContentInv
  <2>3. \A a \in Cell : SoFar(file, rec, pos, flash0[a], a)' = flash'[a]
    BY <2>2, ZenonT(40) DEF SoFar, Given, Copied, Holds
  <2>4. \A a \in PageCells(current_page)' : page_buffer'[a - current_page'] = flash'[a]
    BY <2>1 DEF PageCells
  <2> QED
    BY <2>3, <2>4 DEF ContentInv
<1> QED
  BY <1>2, <1>3, <1>4

(* A written page is read back. *)
LEMMA VerifyInv == LoaderInv /\ Verify => LoaderInv'
<1> SUFFICES ASSUME LoaderInv, Verify PROVE LoaderInv'
  OBVIOUS
<1>1. /\ pc = "program" /\ pc \in Loading
      /\ UNCHANGED <<flash, jump_token, current_page, page_buffer, rec, pos, ptr,
                     file, calm, flash0, loaded>>
  BY DEF Verify, Loading
<1>2. CASE Verified /\ changed' = TRUE /\ dirty' = FALSE /\ Resume /\ UNCHANGED bootloader_status
  <2>1. pc' \in {"eof", "copy"} /\ changed' \in BOOLEAN /\ dirty' \in BOOLEAN
    BY <1>2 DEF Resume
  <2>2. TypeOK'
    BY <1>1, <1>2, <2>1 DEF LoaderInv, TypeOK
  <2>3. ~UpToDate /\ (UpToDate' <=> UpToDate)
    BY <1>1 DEF LoaderInv, UntouchedInv, UpToDate
  <2>4. UntouchedInv'
    BY <2>3 DEF UntouchedInv
  <2> QED
    BY <1>1, <1>2, <2>2, <2>4, FlushedInv DEF Verified, LoaderInv
<1>3. CASE Halt /\ UNCHANGED <<changed, dirty>>
  <2>1. TypeOK'
    BY <1>1, <1>3 DEF LoaderInv, TypeOK, Halt
  <2> QED
    BY <1>1, <1>3, <2>1, HaltInv DEF Halt
<1> QED
  BY <1>2, <1>3 DEF Verify

(* With an image that is there already, the buffer agrees with the flash. *)
LEMMA NothingToFlush ==
    ASSUME LoaderInv, pc = "flush", UpToDate, flash_can_write(current_page)
    PROVE  flash_page_compare(current_page) = 0
<1>1. Page(current_page) /\ pc \in Loading /\ dirty /\ file \in Files /\ flash0 \in [Cell -> Value]
      /\ rec \in 0 .. Len(file) /\ pos \in Nat /\ flash = flash0
  BY DEF LoaderInv, TypeOK, PcInv, UntouchedInv, Page, Loading
<1>2. ASSUME NEW a \in PageCells(current_page) PROVE flash[a] = page_buffer[a - current_page]
  <2>1. a \in Cell
    BY <1>1, PageWhole
  <2>2. SoFar(file, rec, pos, flash0[a], a) = flash0[a]
    BY <1>1, <2>1, NothingNew DEF UpToDate
  <2>3. SoFar(file, rec, pos, flash0[a], a) = page_buffer[a - current_page]
    BY <1>1, <2>1 DEF LoaderInv, ContentInv
  <2> QED
    BY <1>1, <2>2, <2>3
<1> QED
  BY <1>2, CompareRight

(* The buffer is compared with the flash. *)
LEMMA FlushPageInv == LoaderInv /\ FlushPage => LoaderInv'
<1> SUFFICES ASSUME LoaderInv, FlushPage PROVE LoaderInv'
  OBVIOUS
<1> DEFINE status == flash_page_compare(current_page)
<1>1. /\ pc = "flush" /\ pc \in Loading /\ dirty
      /\ UNCHANGED <<flash, jump_token, current_page, page_buffer, changed, rec, pos,
                     file, calm, flash0, loaded>>
  BY DEF FlushPage, Loading, LoaderInv, PcInv
<1>2. ~loaded /\ (UpToDate' <=> UpToDate) /\ (UpToDate => flash = flash0 /\ ~changed)
  BY <1>1 DEF LoaderInv, LoadedInv, UntouchedInv, UpToDate, Loading
<1>3. CASE status = 0 /\ dirty' = FALSE /\ Resume /\ UNCHANGED <<bootloader_status, ptr>>
  <2>1. pc' \in {"eof", "copy"} /\ dirty' \in BOOLEAN
    BY <1>3 DEF Resume
  <2>2. TypeOK'
    BY <1>1, <1>3, <2>1 DEF LoaderInv, TypeOK
  <2>3. UntouchedInv'
    BY <1>1, <1>2, <2>1 DEF UntouchedInv
  <2> QED
    BY <1>1, <1>3, <2>2, <2>3, FlushedInv DEF LoaderInv
<1>4. CASE Halt /\ UNCHANGED <<dirty, ptr>>
  <2>1. TypeOK'
    BY <1>1, <1>4 DEF LoaderInv, TypeOK, Halt
  <2> QED
    BY <1>1, <1>4, <2>1, HaltInv DEF Halt
<1>5. CASE /\ status # 0 /\ flash_can_write(current_page)
           /\ pc' = IF status = 2 THEN "erase" ELSE "program"
           /\ ptr' = current_page
           /\ UNCHANGED <<bootloader_status, dirty>>
  <2>1. Page(current_page) /\ pc' \in {"erase", "program"} /\ pc' \in Loading
    BY <1>5 DEF LoaderInv, TypeOK, Page, Loading
  <2>2. current_page \in Nat /\ current_page <= FlashEnd
    BY <2>1, PageWhole, Layout
  <2>3. TypeOK'
    BY <1>1, <1>5, <2>1, <2>2, Layout DEF LoaderInv, TypeOK
  <2>4. PcInv'
    BY <1>1, <1>5, <2>1, <2>2, Layout DEF LoaderInv, PcInv, flash_can_write
  <2>5. RecInv'
    <3>1. /\ \A i \in 1 .. rec - 1 : file[i].type = "data"
          /\ rec > 0
          /\ file[rec].type = "eof" \/ (file[rec].type = "data" /\ pos < Len(file[rec].data))
      BY <1>1 DEF LoaderInv, RecInv
    <3> QED
      BY <1>1, <2>1, <3>1 DEF RecInv
  <2>6. ContentInv'
    <3>1. \A a \in Cell :
             IF a \in PageCells(current_page)
             THEN SoFar(file, rec, pos, flash0[a], a) = page_buffer[a - current_page]
             ELSE SoFar(file, rec, pos, flash0[a], a) = flash[a]
      BY <1>1, <1>5 DEF LoaderInv, ContentInv
    <3>2. \A a \in Cell :
             IF a \in PageCells(current_page)'
             THEN SoFar(file, rec, pos, flash0[a], a)' = page_buffer'[a - current_page']
             ELSE SoFar(file, rec, pos, flash0[a], a)' = flash'[a]
      BY <1>1, <3>1 DEF PageCells, SoFar, Given, Copied, Holds
    <3> QED
      BY <1>1, <1>5, <3>2 DEF ContentInv
  <2>7. ~UpToDate
    BY <1>1, <1>5, NothingToFlush
  <2>8. BootloaderIntact'
    BY <1>1 DEF LoaderInv, BootloaderIntact
  <2> QED
    BY <1>1, <1>2, <2>3, <2>4, <2>5, <2>6, <2>7, <2>8 DEF LoaderInv, LoadedInv, UntouchedInv
<1> QED
  BY <1>3, <1>4, <1>5 DEF FlushPage

(* The record being copied. *)
LEMMA Copying ==
    ASSUME LoaderInv, pc = "copy"
    PROVE  /\ file \in Files /\ rec \in 1 .. Len(file) /\ file[rec].type = "data"
           /\ pos \in Nat /\ pos < Len(file[rec].data) /\ file[rec].addr \in Nat
           /\ Len(file[rec].data) \in Nat /\ file[rec].data \in Seq(Value)
           /\ file[rec].addr + pos \in Cell
<1>1. /\ file \in Files /\ rec \in 0 .. Len(file) /\ pos \in Nat /\ rec > 0
      /\ file[rec].type = "data" /\ pos < Len(file[rec].data)
  BY DEF LoaderInv, TypeOK, RecInv, Loading
<1>2. rec \in 1 .. Len(file)
  BY <1>1, FileSeq
<1>3. /\ file[rec].addr \in Nat /\ file[rec].data \in Seq(Value) /\ Len(file[rec].data) \in Nat
      /\ file[rec].addr + Len(file[rec].data) <= FlashEnd
  BY <1>1, <1>2, RecordType
<1> QED
  BY <1>1, <1>2, <1>3, Layout DEF Cell

(* The loader turns to another page. *)
LEMMA NewPageInv == LoaderInv /\ NewPage => LoaderInv'
<1> SUFFICES ASSUME LoaderInv, NewPage PROVE LoaderInv'
  OBVIOUS
<1> DEFINE page == PAGE_OF(file[rec].addr + pos)
<1>1. /\ pc = "copy" /\ pc \in Loading
      /\ UNCHANGED <<flash, jump_token, bootloader_status, dirty, changed, rec, pos, ptr,
                     file, calm, flash0, loaded>>
  BY DEF NewPage, Loading
<1>2. Page(page) /\ page \in Nat /\ page + PAGE_SIZE <= FlashEnd /\ PageCells(page) \subseteq Cell
  BY <1>1, Copying, PageOf, PageWhole
<1>3. pc' \in {"copy", "flush"} /\ (pc' = "flush" => dirty)
  BY <1>1 DEF NewPage
<1>4. TypeOK'
  <2>1. current_page' \in Cell /\ current_page' % PAGE_SIZE = 0
    BY <1>2 DEF NewPage, LoaderInv, TypeOK, Page
  <2>2. page_buffer' \in [0 .. PAGE_SIZE - 1 -> Value]
    <3>1. CASE page_buffer' = page_buffer
      BY <3>1 DEF LoaderInv, TypeOK
    <3>2. CASE page_buffer' = [i \in 0 .. PAGE_SIZE - 1 |-> flash[page + i]]
      <4>1. \A i \in 0 .. PAGE_SIZE - 1 : page + i \in Cell
        BY <1>2, Layout DEF Cell
      <4> QED
        BY <3>2, <4>1 DEF LoaderInv, TypeOK
    <3> QED
      BY <3>1, <3>2 DEF NewPage
  <2> QED
    BY <1>1, <1>3, <2>1, <2>2 DEF LoaderInv, TypeOK
<1>5. PcInv' /\ LoadedInv' /\ BootloaderIntact'
  BY <1>1, <1>3 DEF LoaderInv, PcInv, LoadedInv, BootloaderIntact
<1>6. RecInv'
  <2>1. /\ \A i \in 1 .. rec - 1 : file[i].type = "data"
        /\ rec > 0 /\ file[rec].type = "data" /\ pos < Len(file[rec].data)
    BY <1>1 DEF LoaderInv, RecInv
  <2> QED
    BY <1>1, <1>3, <2>1 DEF RecInv
<1>7. UntouchedInv'
  <2>1. (UpToDate' <=> UpToDate) /\ (UpToDate => flash = flash0 /\ ~changed)
    BY <1>1 DEF LoaderInv, UntouchedInv, UpToDate
  <2> QED
    BY <1>1, <1>3, <2>1 DEF UntouchedInv
<1>8. ContentInv'
  <2>1. CASE dirty /\ UNCHANGED <<page_buffer, current_page>>
    <3>1. \A a \in Cell :
             IF a \in PageCells(current_page)
             THEN \/ SoFar(file, rec, pos, flash0[a], a) = page_buffer[a - current_page]
                  \/ /\ ~flash_can_write(current_page)
                     /\ SoFar(file, rec, pos, flash0[a], a) = flash[a]
             ELSE SoFar(file, rec, pos, flash0[a], a) = flash[a]
      BY <1>1, <2>1 DEF LoaderInv, ContentInv
    <3>2. \A a \in Cell :
             IF a \in PageCells(current_page)'
             THEN \/ SoFar(file, rec, pos, flash0[a], a)' = page_buffer'[a - current_page']
                  \/ /\ ~flash_can_write(current_page)'
                     /\ SoFar(file, rec, pos, flash0[a], a)' = flash'[a]
             ELSE SoFar(file, rec, pos, flash0[a], a)' = flash'[a]
      BY <1>1, <2>1, <3>1, ZenonT(40) DEF PageCells, SoFar, Given, Copied, Holds, flash_can_write
    <3> QED
      BY <1>1, <2>1, <3>2 DEF ContentInv
  <2>2. CASE /\ ~dirty /\ current_page' = page
             /\ page_buffer' = [i \in 0 .. PAGE_SIZE - 1 |-> flash[page + i]]
    <3>1. \A a \in Cell : SoFar(file, rec, pos, flash0[a], a) = flash[a]
      BY <1>1, <2>2 DEF LoaderInv, ContentInv
    <3>2. \A a \in Cell : SoFar(file, rec, pos, flash0[a], a)' = flash'[a]
      BY <1>1, <3>1 DEF SoFar, Given, Copied, Holds
    <3> HIDE DEF page
    <3>3. ASSUME NEW a \in PageCells(page) PROVE page_buffer'[a - page] = flash[a]
      <4>1. a - page \in 0 .. PAGE_SIZE - 1 /\ page + (a - page) = a
        BY <1>2, Layout DEF PageCells
      <4> QED
        BY <2>2, <4>1
    <3>4. \A a \in PageCells(current_page)' : page_buffer'[a - current_page'] = flash'[a]
      BY <1>1, <2>2, <3>3 DEF PageCells
    <3> QED
      BY <1>1, <2>2, <3>2, <3>4 DEF ContentInv
  <2> QED
    BY <2>1, <2>2 DEF NewPage
<1> QED
  BY <1>4, <1>5, <1>6, <1>7, <1>8 DEF LoaderInv

(* A piece of the record is copied into the page. *)
LEMMA CopyChunkInv == LoaderInv /\ CopyChunk => LoaderInv'
<1> SUFFICES ASSUME LoaderInv, CopyChunk PROVE LoaderInv'
  OBVIOUS
<1> DEFINE r     == file[rec]
           adr   == r.addr
           cells == Len(r.data)
           index == adr + pos - current_page
           room  == PAGE_SIZE - index
           n     == IF room > cells - pos THEN cells - pos ELSE room
<1>1. /\ pc = "copy" /\ pc \in Loading /\ dirty' = TRUE
      /\ UNCHANGED <<flash, jump_token, bootloader_status, current_page, changed, rec, ptr,
                     file, calm, flash0, loaded>>
  BY DEF CopyChunk, Loading
<1>2. /\ PAGE_OF(adr + pos) = current_page
      /\ page_buffer' = [i \in 0 .. PAGE_SIZE - 1 |->
                            IF index <= i /\ i < index + n
                            THEN r.data[pos + i - index + 1] ELSE page_buffer[i]]
      /\ pos' = pos + n
      /\ pc' = IF pos' = cells THEN "feed" ELSE "copy"
  BY DEF CopyChunk
<1>3. /\ file \in Files /\ rec \in 1 .. Len(file) /\ r.type = "data" /\ r.data \in Seq(Value)
      /\ pos \in Nat /\ pos < cells /\ adr \in Nat /\ cells \in Nat
  BY <1>1, Copying
<1>4. Page(current_page) /\ current_page <= adr + pos /\ adr + pos < current_page + PAGE_SIZE
  BY <1>1, <1>2, Copying, PageOf
<1>5. current_page \in Nat /\ PageCells(current_page) \subseteq Cell
  BY <1>4, PageWhole
<1> HIDE DEF adr, cells
<1>6. /\ index \in 0 .. PAGE_SIZE - 1 /\ n \in Nat \ {0} /\ pos + n <= cells
      /\ index + n <= PAGE_SIZE
  BY <1>3, <1>4, <1>5, Layout
<1> HIDE DEF n
<1>7. pos' \in Nat /\ pos' <= cells
  BY <1>2, <1>3, <1>6
<1>8. pc' \in {"feed", "copy"} /\ pc' \in Loading /\ (pc' = "feed" => pos' = cells)
      /\ (pc' = "copy" => pos' < cells)
  BY <1>2, <1>3, <1>7 DEF Loading
<1>9. TypeOK'
  <2>1. ASSUME NEW i \in 0 .. PAGE_SIZE - 1, index <= i, i < index + n
        PROVE  r.data[pos + i - index + 1] \in Value
    <3>1. pos + i - index + 1 \in 1 .. cells
      <4>1. index \in Int /\ i \in Int
        BY <1>6, Layout
      <4> HIDE DEF index
      <4> QED
        BY <1>3, <1>6, <2>1, <4>1
    <3> QED
      BY <1>3, <3>1 DEF cells
  <2>2. page_buffer' \in [0 .. PAGE_SIZE - 1 -> Value]
    BY <1>2, <2>1 DEF LoaderInv, TypeOK
  <2>3. TRUE \in BOOLEAN
    OBVIOUS
  <2> QED
    BY <1>1, <1>7, <1>8, <2>2, <2>3 DEF LoaderInv, TypeOK
<1>10. PcInv' /\ LoadedInv' /\ BootloaderIntact'
  BY <1>1, <1>8 DEF LoaderInv, PcInv, LoadedInv, BootloaderIntact
<1>11. RecInv'
  <2>1. /\ \A i \in 1 .. rec - 1 : file[i].type = "data"
        /\ rec > 0 /\ file[rec].type = "data"
    BY <1>1 DEF LoaderInv, RecInv
  <2> QED
    BY <1>1, <1>8, <2>1 DEF RecInv, cells
<1>12. UntouchedInv'
  <2>1. (UpToDate' <=> UpToDate) /\ (UpToDate => flash = flash0 /\ ~changed)
    BY <1>1 DEF LoaderInv, UntouchedInv, UpToDate
  <2> QED
    BY <1>1, <1>8, <2>1 DEF UntouchedInv
<1>13. ASSUME NEW a \in Cell
       PROVE  SoFar(file, rec, pos + n, flash0[a], a) =
                 IF adr + pos <= a /\ a < adr + pos + n THEN r.data[a - adr + 1]
                 ELSE SoFar(file, rec, pos, flash0[a], a)
  <2>1. file[rec].type = "data" /\ pos + n <= Len(file[rec].data) /\ n \in Nat
    BY <1>3, <1>6 DEF cells
  <2>2. /\ file \in Files /\ rec \in 1 .. Len(file) /\ pos \in Nat
    BY <1>3
  <2>3. SoFar(file, rec, pos + n, flash0[a], a) =
           IF file[rec].addr + pos <= a /\ a < file[rec].addr + pos + n
           THEN file[rec].data[a - file[rec].addr + 1]
           ELSE SoFar(file, rec, pos, flash0[a], a)
    BY <2>1, <2>2, CopyPiece
  <2> QED
    BY <2>3 DEF adr
<1>14. ASSUME NEW a \in Cell
       PROVE  IF a \in PageCells(current_page)
              THEN \/ SoFar(file, rec, pos + n, flash0[a], a) = page_buffer'[a - current_page]
                   \/ /\ ~flash_can_write(current_page)
                      /\ SoFar(file, rec, pos + n, flash0[a], a) = flash[a]
              ELSE SoFar(file, rec, pos + n, flash0[a], a) = flash[a]
  <2>1. a \in Nat
    BY Layout DEF Cell
  <2>2. CASE a \notin PageCells(current_page)
    <3>1. ~(adr + pos <= a /\ a < adr + pos + n)
      BY <1>3, <1>4, <1>5, <1>6, <2>1, <2>2, Layout DEF PageCells
    <3>2. SoFar(file, rec, pos, flash0[a], a) = flash[a]
      BY <1>1, <2>2 DEF LoaderInv, ContentInv
    <3> QED
      BY <1>13, <2>2, <3>1, <3>2
  <2>3. CASE a \in PageCells(current_page)
    <3>1. a - current_page \in 0 .. PAGE_SIZE - 1
      BY <1>5, <2>1, <2>3, Layout DEF PageCells
    <3>2. CASE adr + pos <= a /\ a < adr + pos + n
      <4>1. /\ index <= a - current_page /\ a - current_page < index + n
            /\ pos + (a - current_page) - index + 1 = a - adr + 1
        BY <1>3, <1>5, <1>6, <2>1, <3>2
      <4>2. page_buffer'[a - current_page] = r.data[a - adr + 1]
        BY <1>2, <3>1, <4>1
      <4> QED
        BY <1>13, <2>3, <3>2, <4>2
    <3>3. CASE ~(adr + pos <= a /\ a < adr + pos + n)
      <4>1. ~(index <= a - current_page /\ a - current_page < index + n)
        BY <1>3, <1>5, <1>6, <2>1, <3>3
      <4>2. page_buffer'[a - current_page] = page_buffer[a - current_page]
        BY <1>2, <3>1, <4>1
      <4>3. \/ SoFar(file, rec, pos, flash0[a], a) = page_buffer[a - current_page]
            \/ /\ ~flash_can_write(current_page)
               /\ SoFar(file, rec, pos, flash0[a], a) = flash[a]
        BY <1>1, <2>3 DEF LoaderInv, ContentInv
      <4> QED
        BY <1>13, <2>3, <3>3, <4>2, <4>3
    <3> QED
      BY <3>2, <3>3
  <2> QED
    BY <2>2, <2>3
<1>15. ContentInv'
  <2>1. \A a \in Cell :
           IF a \in PageCells(current_page)'
           THEN \/ SoFar(file, rec, pos, flash0[a], a)' = page_buffer'[a - current_page']
                \/ /\ ~flash_can_write(current_page)'
                   /\ SoFar(file, rec, pos, flash0[a], a)' = flash'[a]
           ELSE SoFar(file, rec, pos, flash0[a], a)' = flash'[a]
    BY <1>1, <1>2, <1>14, ZenonT(40) DEF PageCells, SoFar, Given, Copied, Holds, flash_can_write
  <2> QED
    BY <1>1, <2>1 DEF ContentInv
<1> QED
  BY <1>9, <1>10, <1>11, <1>12, <1>15 DEF LoaderInv

(* The next record. *)
LEMMA FeedInv == LoaderInv /\ Feed => LoaderInv'
<1> SUFFICES ASSUME LoaderInv, Feed PROVE LoaderInv'
  OBVIOUS
<1>1. /\ pc = "feed" /\ pc \in Loading
      /\ UNCHANGED <<flash, jump_token, current_page, page_buffer, dirty, changed, ptr,
                     file, calm, flash0, loaded>>
  BY DEF Feed, Loading
<1>2. CASE pc' = "halt" /\ UNCHANGED <<rec, pos>> /\ (bootloader_status' \in {"ERROR", bootloader_status})
  <2>1. TypeOK'
    BY <1>1, <1>2 DEF LoaderInv, TypeOK
  <2> QED
    BY <1>1, <1>2, <2>1, HaltInv
<1>3. CASE /\ rec < Len(file) /\ rec' = rec + 1 /\ pos' = 0 /\ UNCHANGED bootloader_status
           /\ \/ file[rec + 1].type = "data" /\ pc' = "copy"
              \/ file[rec + 1].type = "eof" /\ pc' = IF dirty THEN "flush" ELSE "eof"
  <2>1. /\ file \in Files /\ Len(file) \in Nat /\ rec \in 0 .. Len(file) - 1 /\ pos \in Nat
        /\ rec + 1 \in 1 .. Len(file)
        /\ (rec > 0 => file[rec].type = "data" /\ pos = Len(file[rec].data))
        /\ \A i \in 1 .. rec - 1 : file[i].type = "data"
    <3>1. file \in Files /\ rec \in 0 .. Len(file) /\ pos \in Nat
      BY DEF LoaderInv, TypeOK
    <3>2. Len(file) \in Nat
      BY <3>1, FileSeq
    <3>3. /\ (rec > 0 => file[rec].type = "data" /\ pos = Len(file[rec].data))
          /\ \A i \in 1 .. rec - 1 : file[i].type = "data"
      BY <1>1 DEF LoaderInv, RecInv
    <3> QED
      BY <1>3, <3>1, <3>2, <3>3
  <2>2. /\ pc' \in {"copy", "flush", "eof"} /\ pc' \in Loading
        /\ (pc' = "copy" => file[rec + 1].type = "data")
        /\ (pc' = "flush" => dirty /\ file[rec + 1].type = "eof")
        /\ (pc' = "eof" => ~dirty /\ file[rec + 1].type = "eof")
    BY <1>3 DEF Loading
  <2>3. TypeOK'
    BY <1>1, <1>3, <2>1, <2>2 DEF LoaderInv, TypeOK
  <2>4. PcInv' /\ LoadedInv' /\ BootloaderIntact'
    BY <1>1, <2>2 DEF LoaderInv, PcInv, LoadedInv, BootloaderIntact
  <2>5. RecInv'
    <3>1. \A i \in 1 .. (rec + 1) - 1 : file[i].type = "data"
      BY <2>1
    <3>2. file[rec + 1].type = "data" => 0 < Len(file[rec + 1].data)
      BY <2>1, RecordType
    <3> QED
      BY <1>1, <1>3, <2>1, <2>2, <3>1, <3>2 DEF RecInv
  <2>6. UntouchedInv'
    <3>1. (UpToDate' <=> UpToDate) /\ (UpToDate => flash = flash0 /\ ~changed)
      BY <1>1 DEF LoaderInv, UntouchedInv, UpToDate
    <3> QED
      BY <1>1, <2>2, <3>1 DEF UntouchedInv
  <2>7. ContentInv'
    <3>1. ASSUME NEW a \in Cell
          PROVE  SoFar(file, rec + 1, 0, flash0[a], a) = SoFar(file, rec, pos, flash0[a], a)
      BY <2>1, NextRecord
    <3>2. \A a \in Cell :
             IF dirty /\ a \in PageCells(current_page)
             THEN \/ SoFar(file, rec, pos, flash0[a], a) = page_buffer[a - current_page]
                  \/ /\ ~flash_can_write(current_page)
                     /\ SoFar(file, rec, pos, flash0[a], a) = flash[a]
             ELSE SoFar(file, rec, pos, flash0[a], a) = flash[a]
      BY <1>1 DEF LoaderInv, ContentInv
    <3>3. \A a \in Cell :
             IF dirty /\ a \in PageCells(current_page)
             THEN \/ SoFar(file, rec + 1, 0, flash0[a], a) = page_buffer[a - current_page]
                  \/ /\ ~flash_can_write(current_page)
                     /\ SoFar(file, rec + 1, 0, flash0[a], a) = flash[a]
             ELSE SoFar(file, rec + 1, 0, flash0[a], a) = flash[a]
      BY <3>1, <3>2
    <3>4. \A a \in Cell :
             IF dirty' /\ a \in PageCells(current_page)'
             THEN \/ SoFar(file, rec, pos, flash0[a], a)' = page_buffer'[a - current_page']
                  \/ /\ ~flash_can_write(current_page)'
                     /\ SoFar(file, rec, pos, flash0[a], a)' = flash'[a]
             ELSE SoFar(file, rec, pos, flash0[a], a)' = flash'[a]
      BY <1>1, <1>3, <3>3, ZenonT(40) DEF PageCells, SoFar, Given, Copied, Holds, flash_can_write
    <3>5. (~dirty /\ flash_can_write(current_page) =>
              \A a \in PageCells(current_page) : page_buffer[a - current_page] = flash[a])'
      BY <1>1 DEF LoaderInv, ContentInv, PageCells, flash_can_write
    <3> QED
      BY <3>4, <3>5 DEF ContentInv
  <2> QED
    BY <2>3, <2>4, <2>5, <2>6, <2>7 DEF LoaderInv
<1> QED
  BY <1>2, <1>3 DEF Feed, Halt

(* The file is in flash. *)
LEMMA DoneInv == LoaderInv /\ Done => LoaderInv'
<1> SUFFICES ASSUME LoaderInv, Done PROVE LoaderInv'
  OBVIOUS
<1>1. /\ pc = "eof" /\ pc \in Loading /\ pc' = "boot" /\ bootloader_status' = "DONE" /\ loaded' = TRUE
      /\ UNCHANGED <<flash, jump_token, current_page, page_buffer, dirty, changed, rec, pos, ptr,
                     file, calm, flash0>>
  BY DEF Done, Loading
<1>2. TypeOK'
  <2>1. TRUE \in BOOLEAN
    OBVIOUS
  <2> QED
    BY <1>1, <2>1 DEF LoaderInv, TypeOK
<1>3. PcInv' /\ RecInv' /\ ContentInv' /\ BootloaderIntact'
  BY <1>1 DEF LoaderInv, PcInv, RecInv, ContentInv, BootloaderIntact, Loading
<1>4. UntouchedInv'
  BY <1>1 DEF LoaderInv, UntouchedInv, UpToDate
<1>5. flash = Image(file, flash0)
  <2>1. /\ file \in Files /\ rec \in 1 .. Len(file) /\ pos \in Nat /\ file[rec].type = "eof"
        /\ \A i \in 1 .. rec - 1 : file[i].type = "data"
    <3>1. file \in Files /\ rec \in 0 .. Len(file) /\ pos \in Nat
      BY DEF LoaderInv, TypeOK
    <3>2. /\ rec > 0 /\ file[rec].type = "eof" /\ \A i \in 1 .. rec - 1 : file[i].type = "data"
      BY <1>1 DEF LoaderInv, RecInv
    <3> QED
      BY <3>1, <3>2, FileSeq
  <2>2. ASSUME NEW a \in Cell PROVE flash[a] = Image(file, flash0)[a]
    <3>1. SoFar(file, rec, pos, flash0[a], a) = flash[a]
      BY <1>1 DEF LoaderInv, ContentInv, PcInv
    <3>2. SoFar(file, rec, pos, flash0[a], a) = Image(file, flash0)[a]
      BY <2>1, FileComplete
    <3> QED
      BY <3>1, <3>2
  <2>3. flash = [a \in Cell |-> flash[a]]
    BY DEF LoaderInv, TypeOK
  <2>4. Image(file, flash0) = [a \in Cell |-> Image(file, flash0)[a]]
    BY DEF Image
  <2> HIDE DEF Image
  <2> QED
    BY <2>2, <2>3, <2>4
<1>6. LoadedInv'
  <2>1. file' = file /\ flash0' = flash0 /\ flash' = flash
    BY <1>1
  <2>2. Image(file, flash0)' = Image(file, flash0)
    BY <2>1 DEF Image, Writers, Holds
  <2> QED
    BY <1>1, <1>5, <2>1, <2>2 DEF LoadedInv
<1> QED
  BY <1>2, <1>3, <1>4, <1>6 DEF LoaderInv

(* The startup code. *)
LEMMA StartupOk ==
    ASSUME Startup
    PROVE  /\ pc' = "reset" /\ bootloader_status' = "WAITING" /\ ~changed' /\ dirty' \in BOOLEAN
           /\ changed' \in BOOLEAN
           /\ current_page' \in Cell /\ current_page' % PAGE_SIZE = 0
           /\ page_buffer' \in [0 .. PAGE_SIZE - 1 -> Value]
           /\ rec' = 0 /\ pos' \in Nat /\ ptr' \in 0 .. FlashEnd
<1>1. 0 \in Cell /\ 0 \in Nat /\ 0 \in 0 .. FlashEnd /\ FALSE \in BOOLEAN
  BY Layout DEF Cell
<1>2. 0 % PAGE_SIZE = 0
  <2>1. (0 * PAGE_SIZE) % PAGE_SIZE = 0
    BY Layout, ModZero
  <2> QED
    BY <2>1, Layout
<1>3. [i \in 0 .. PAGE_SIZE - 1 |-> "zero"] \in [0 .. PAGE_SIZE - 1 -> Value]
  BY DEF Value
<1> QED
  BY <1>1, <1>2, <1>3 DEF Startup

(* The token is looked at. *)
LEMMA MainInv == LoaderInv /\ Main => LoaderInv'
<1> SUFFICES ASSUME LoaderInv, Main PROVE LoaderInv'
  OBVIOUS
<1>1. /\ pc = "reset" /\ pc' \in {"app", "mount"} /\ jump_token' = FALSE
      /\ UNCHANGED <<flash, bootloader_status, current_page, page_buffer, dirty, changed, rec, pos,
                     ptr, file, calm, flash0, loaded>>
  BY DEF Main, ram
<1>2. TypeOK'
  <2>1. FALSE \in BOOLEAN
    OBVIOUS
  <2> QED
    BY <1>1, <2>1 DEF LoaderInv, TypeOK
<1> QED
  BY <1>1, <1>2 DEF LoaderInv, BootloaderIntact, PcInv, RecInv, ContentInv, LoadedInv,
                    UntouchedInv, Loading

(* The file is opened, or there is none. *)
LEMMA MountInv == LoaderInv /\ Mount => LoaderInv'
<1> SUFFICES ASSUME LoaderInv, Mount PROVE LoaderInv'
  OBVIOUS
<1>1. /\ pc = "mount" /\ flash0' = flash /\ loaded' = FALSE /\ FALSE \in BOOLEAN
      /\ UNCHANGED <<flash, jump_token, file, calm>>
  BY DEF Mount
<1>2. flash' \in [Cell -> Value] /\ flash0' = flash' /\ BootloaderIntact' /\ LoadedInv'
  BY <1>1 DEF LoaderInv, TypeOK, BootloaderIntact, LoadedInv
<1>3. CASE /\ pc' = "feed" /\ bootloader_status' = "FLASHING"
           /\ current_page' = 0 /\ dirty' = FALSE /\ changed' = FALSE
           /\ rec' = 0 /\ pos' = 0
           /\ UNCHANGED <<page_buffer, ptr>>
  <2>1. 0 \in Cell /\ 0 \in Nat /\ 0 % PAGE_SIZE = 0
    <3>1. (0 * PAGE_SIZE) % PAGE_SIZE = 0
      BY Layout, ModZero
    <3> QED
      BY <3>1, Layout DEF Cell
  <2>2. file \in Files /\ rec' \in 0 .. Len(file)
    BY <1>3, FileSeq DEF LoaderInv, TypeOK
  <2>3. TypeOK'
    BY <1>1, <1>2, <1>3, <2>1, <2>2 DEF LoaderInv, TypeOK
  <2>4. ~flash_can_write(current_page)'
    BY <1>3, Layout DEF flash_can_write
  <2>5. ASSUME NEW a \in Cell PROVE SoFar(file, 0, 0, flash[a], a) = flash[a]
    BY <2>2, FirstRecord
  <2>6. \A a \in Cell : SoFar(file, rec, pos, flash0[a], a)' = flash'[a]
    BY <1>1, <1>3, <2>5 DEF SoFar, Given, Copied, Holds
  <2>7. ContentInv'
    BY <1>3, <2>4, <2>6 DEF ContentInv
  <2> QED
    BY <1>2, <1>3, <2>3, <2>7 DEF LoaderInv, PcInv, RecInv, UntouchedInv
<1>4. CASE pc' = "boot" /\ UNCHANGED ram
  <2>1. TypeOK'
    BY <1>1, <1>2, <1>4 DEF LoaderInv, TypeOK, ram
  <2>2. ~changed'
    BY <1>1, <1>4 DEF LoaderInv, PcInv, ram
  <2> QED
    BY <1>2, <1>4, <2>1, <2>2 DEF LoaderInv, PcInv, RecInv, ContentInv, UntouchedInv, Loading
<1> QED
  BY <1>3, <1>4 DEF Mount

(* The bootloader resets, for the application or to try again. *)
LEMMA BootAppInv == LoaderInv /\ BootApp => LoaderInv'
<1> SUFFICES ASSUME LoaderInv, BootApp PROVE LoaderInv'
  OBVIOUS
<1>1. /\ pc = "boot" /\ jump_token' \in BOOLEAN /\ Startup
      /\ UNCHANGED <<flash, file, calm, flash0, loaded>>
  BY DEF BootApp
<1>2. TypeOK'
  <2>1. file \in Files /\ rec' \in 0 .. Len(file)
    BY <1>1, StartupOk, FileSeq DEF LoaderInv, TypeOK
  <2> QED
    BY <1>1, <2>1, StartupOk DEF LoaderInv, TypeOK
<1> QED
  BY <1>1, <1>2, StartupOk DEF LoaderInv, BootloaderIntact, PcInv, RecInv, ContentInv, LoadedInv,
                               UntouchedInv, Loading

(* Power fails. *)
LEMMA PowerCycleInv == LoaderInv /\ PowerCycle => LoaderInv'
<1> SUFFICES ASSUME LoaderInv, PowerCycle PROVE LoaderInv'
  OBVIOUS
<1>1. /\ Startup /\ file' \in Files /\ calm' \in BOOLEAN
      /\ jump_token' \in BOOLEAN /\ (jump_token' => file' = file)
      /\ loaded' = (loaded /\ jump_token')
      /\ flash0' = IF loaded' THEN flash0 ELSE flash'
  BY DEF PowerCycle
<1>2. PICK torn \in [Interrupted -> Value] :
         flash' = [a \in Cell |-> IF a \in Interrupted THEN torn[a] ELSE flash[a]]
  BY DEF PowerCycle
<1>3. flash' \in [Cell -> Value] /\ \A a \in Cell \ Interrupted : flash'[a] = flash[a]
  <2>1. flash \in [Cell -> Value]
    BY DEF LoaderInv, TypeOK
  <2> HIDE DEF Interrupted, Value, Cell
  <2> QED
    BY <1>2, <2>1
<1>4. loaded' \in BOOLEAN
  BY <1>1 DEF LoaderInv, TypeOK
<1>5. flash0' \in [Cell -> Value]
  BY <1>1, <1>3 DEF LoaderInv, TypeOK
<1>6. rec' \in 0 .. Len(file')
  BY <1>1, StartupOk, FileSeq
<1>7. TypeOK'
  BY <1>1, <1>3, <1>4, <1>5, <1>6, StartupOk DEF TypeOK
<1>8. BootloaderIntact'
  <2>1. ASSUME NEW a \in Interrupted PROVE UserStart <= a /\ a < UserEnd
    <3>1. pc \in {"erase", "program"} /\ a \in PageCells(current_page)
      BY <2>1 DEF Interrupted
    <3>2. Page(current_page) /\ flash_can_write(current_page)
      BY <3>1 DEF LoaderInv, TypeOK, PcInv, Page
    <3> QED
      BY <3>1, <3>2, WritablePage
  <2> QED
    BY <1>3, <2>1 DEF LoaderInv, BootloaderIntact
<1>9. LoadedInv'
  <2> SUFFICES ASSUME loaded' PROVE (pc \in {"boot", "reset", "app", "mount"} /\ flash = Image(file, flash0))'
    BY DEF LoadedInv
  <2>1. loaded /\ file' = file /\ flash0' = flash0
    BY <1>1
  <2>2. pc \in {"boot", "reset", "app", "mount"} /\ flash = Image(file, flash0)
    BY <2>1 DEF LoaderInv, LoadedInv
  <2>3. Interrupted = {}
    BY <2>2 DEF Interrupted
  <2>4. flash' = flash
    <3>1. flash = [a \in Cell |-> flash[a]]
      BY DEF LoaderInv, TypeOK
    <3> QED
      BY <1>2, <2>3, <3>1
  <2>5. Image(file, flash0)' = Image(file, flash0)
    BY <2>1 DEF Image, Writers, Holds
  <2> QED
    BY <1>1, <2>2, <2>4, <2>5, StartupOk
<1> QED
  BY <1>1, <1>7, <1>8, <1>9, StartupOk DEF LoaderInv, PcInv, RecInv, ContentInv, UntouchedInv, Loading

(* The first start. *)
LEMMA LoaderInitInv == Init => LoaderInv
<1> SUFFICES ASSUME Init PROVE LoaderInv
  OBVIOUS
<1>1. 0 \in Cell /\ 0 \in Nat /\ 0 \in 0 .. FlashEnd /\ FALSE \in BOOLEAN /\ 0 % PAGE_SIZE = 0
  <2>1. (0 * PAGE_SIZE) % PAGE_SIZE = 0
    BY Layout, ModZero
  <2> QED
    BY <2>1, Layout DEF Cell
<1>2. [i \in 0 .. PAGE_SIZE - 1 |-> "zero"] \in [0 .. PAGE_SIZE - 1 -> Value]
  BY DEF Value
<1>3. file \in Files /\ 0 \in 0 .. Len(file)
  BY FileSeq DEF Init
<1>4. flash \in [Cell -> Value] /\ BootloaderIntact
  BY DEF Init, BootloaderIntact
<1>5. TypeOK
  BY <1>1, <1>2, <1>3, <1>4 DEF Init, TypeOK
<1> QED
  BY <1>4, <1>5 DEF Init, LoaderInv, PcInv, RecInv, ContentInv, LoadedInv, UntouchedInv, Loading

(* Every step keeps the invariant. *)
LEMMA LoaderNextInv == LoaderInv /\ [Next]_vars => LoaderInv'
<1> SUFFICES ASSUME LoaderInv, [Next]_vars PROVE LoaderInv'
  OBVIOUS
<1>1. CASE UNCHANGED vars
  <2>1. UNCHANGED <<flash, jump_token, pc, bootloader_status, current_page, page_buffer, dirty, changed,
                    rec, pos, ptr, file, calm, flash0, loaded>>
    BY <1>1 DEF vars, ram
  <2>2. TypeOK' /\ BootloaderIntact' /\ PcInv' /\ RecInv'
    BY <2>1 DEF LoaderInv, TypeOK, BootloaderIntact, PcInv, RecInv, Loading, flash_can_write
  <2>3. LoadedInv' /\ UntouchedInv'
    BY <2>1 DEF LoaderInv, LoadedInv, UntouchedInv, UpToDate, Loading
  <2>4. ContentInv'
    BY <2>1, ZenonT(40) DEF LoaderInv, ContentInv, Loading, SoFar, Given, Copied, Holds, PageCells, flash_can_write
  <2> QED
    BY <2>2, <2>3, <2>4 DEF LoaderInv
<1> QED
  BY <1>1, MainInv, MountInv, FeedInv, NewPageInv, CopyChunkInv, FlushPageInv, EraseInv, ProgramInv,
     UnlockFailsInv, VerifyInv, DoneInv, BootAppInv, PowerCycleInv DEF Next, Loader

(* The state is typed, in every layout and with every file. *)
THEOREM LoaderTyped == Spec => []TypeOK
<1>1. LoaderInv => TypeOK
  BY DEF LoaderInv
<1> QED
  BY <1>1, LoaderInitInv, LoaderNextInv, PTL DEF Spec

(* Whatever the file says and wherever power fails, also inside an erase or a   *)
(* write, the bootloader's own cells keep their contents (flash_can_write).     *)
THEOREM BootloaderStays == Spec => []BootloaderIntact
<1>1. LoaderInv => BootloaderIntact
  BY DEF LoaderInv
<1> QED
  BY <1>1, LoaderInitInv, LoaderNextInv, PTL DEF Spec

(* A boot that reached BLS_DONE has exactly the file's data in flash and around *)
(* it what was there; with an image that is in flash already nothing is erased  *)
(* or written.                                                                  *)
THEOREM UpdatesAreExact == Spec => []UpdateExact
<1>1. LoaderInv => UpdateExact
  <2> SUFFICES ASSUME LoaderInv PROVE UpdateExact
    OBVIOUS
  <2>1. DoneMeansProgrammed
    BY DEF LoaderInv, LoadedInv, DoneMeansProgrammed
  <2>2. UpToDateUntouched
    <3>1. pc \notin {"reset", "mount", "app"} => pc \in Loading \cup {"boot", "halt"}
      BY DEF LoaderInv, TypeOK, Loading
    <3> QED
      BY <3>1 DEF LoaderInv, UntouchedInv, UpToDate, UpToDateUntouched
  <2> QED
    BY <2>1, <2>2 DEF UpdateExact
<1> QED
  BY <1>1, LoaderInitInv, LoaderNextInv, PTL DEF Spec

-----------------------------------------------------------------------------
(* The SD card driver. *)

Starting == {"start", "goidle", "cond", "app", "opcond", "ocr", "init", "blocklen"}

\* As long as no loss went unseen, sectors are counted the way the card counts them;
\* the card's kind is found before the first read.
ModeInv ==
    /\ kind \in Kinds
    /\ mmc_block_mode /\ ~unseen => kind = "sdhc"
    /\ mpc \in {"blocklen", "up", "await"} /\ kind = "sdhc" => mmc_block_mode
    /\ mpc = "init" => kind \in {"mmc", "sd1"}

\* A card that still sends an earlier transfer is not taken for one that has started.
IdleInv ==
    /\ mpc \in Starting \ {"start", "goidle"} => card # "data"
    /\ mpc = "up" /\ ~unseen => card # "data"

\* What is stored is what was asked for, and the card goes on where it is left.
StoredInv ==
    /\ lba \in Nat /\ next \in Nat /\ out \in Seq(Nat)
    /\ mpc \in Starting => out = << >>
    /\ mpc \in {"up", "await"} /\ ~unseen => \A i \in 1 .. Len(out) : out[i] = lba + i - 1
    /\ mpc = "await" /\ card = "data" /\ ~unseen => next = lba + Len(out)

MmcInv == ModeInv /\ IdleInv /\ StoredInv

(* A multiple's quotient. *)
LEMMA DivMultiple ==
    ASSUME NEW n \in Nat \ {0}, NEW q \in Int
    PROVE  (q * n) \div n = q
<1> DEFINE x == q * n
           e == x \div n
<1>1. x \in Int /\ x % n = 0
  BY ModZero
<1> HIDE DEF x
<1>2. e \in Int /\ x = n * e
  BY <1>1, DivMod
<1> HIDE DEF e
<1>3. n * (q - e) = 0
  BY <1>2 DEF x
<1>4. q - e = 0
  BY <1>2, <1>3
<1> QED
  BY <1>2, <1>4 DEF x, e

\* The commands of mmc_connect.
Commands == {"GOIDLE", "INTERFACE_CONDITION", "APP", "OPCONDITION", "INIT", "READOCR", "SETBLOCKLEN"}

(* Only the read command starts a transfer. *)
LEMMA NoTransfer ==
    ASSUME NEW cmd \in Commands, NEW e \in Execute(cmd), e[1] = "data"
    PROVE  card = "data" /\ cmd # "GOIDLE"
<1>1. CASE card = "out" \/ (card = "native" /\ cmd # "GOIDLE")
  BY <1>1 DEF Execute, NoAnswer
<1>2. CASE card = "data"
  BY <1>2 DEF Execute, Commands
<1>3. CASE card # "data" /\ ~(card = "out" \/ (card = "native" /\ cmd # "GOIDLE"))
  BY <1>3 DEF Execute, Commands, NoAnswer
<1> QED
  BY <1>1, <1>2, <1>3

(* The same of a command, whatever is lost. *)
LEMMA CommandIdle ==
    ASSUME NEW cmd \in Commands, NEW r, card # "data", Command(cmd, r)
    PROVE  card' # "data"
  BY NoTransfer DEF Command

(* An answered GOIDLE ends a transfer. *)
LEMMA GoIdleIdle ==
    ASSUME Command("GOIDLE", 1)
    PROVE  card' # "data"
  BY NoTransfer DEF Command, NoAnswer, Commands

(* Only an old card finds the interface condition illegal. *)
LEMMA OldCard ==
    ASSUME kind \in Kinds, card # "data", Command("INTERFACE_CONDITION", 5)
    PROVE  kind \in {"mmc", "sd1"}
<1>1. ASSUME NEW e \in Execute("INTERFACE_CONDITION"), e[2] = 5 PROVE kind \notin {"sd2", "sdhc"}
  BY <1>1 DEF Execute, NoAnswer
<1>2. \E e \in Execute("INTERFACE_CONDITION") : e[2] = 5
  BY DEF Command, NoAnswer
<1> QED
  BY <1>1, <1>2 DEF Kinds

(* An accepted read starts a transfer. *)
LEMMA ReadStarts ==
    ASSUME card # "data", Command("READMULTIPLE", 0)
    PROVE  card = "ready" /\ card' = "data"
<1>1. ASSUME NEW e \in Execute("READMULTIPLE"), e[2] = 0 PROVE card = "ready" /\ e[1] = "data"
  BY <1>1 DEF Execute, NoAnswer
<1> QED
  BY <1>1 DEF Command, NoAnswer

(* The card starts at a sector. *)
LEMMA ArgTyped ==
    ASSUME NEW sector \in 0 .. MaxLba
    PROVE  CardSector(ReadArg(sector)) \in Nat
<1> DEFINE arg == ReadArg(sector)
           e   == arg \div SECTOR
<1>1. SECTOR \in Nat \ {0} /\ sector \in Nat
  BY MmcAssumption
<1>2. sector * SECTOR \in Nat
  BY <1>1
<1>3. arg \in Nat
  BY <1>1, <1>2 DEF ReadArg
<1> HIDE DEF arg
<1>4. e \in Int /\ arg % SECTOR \in 0 .. SECTOR - 1 /\ arg = SECTOR * e + (arg % SECTOR)
  BY <1>1, <1>3, DivMod
<1> HIDE DEF e
<1>5. e >= 0
  <2>1. SUFFICES ASSUME e <= -1 PROVE FALSE
    BY <1>4
  <2>2. SECTOR * e <= -SECTOR
    BY <1>1, <1>4, <2>1
  <2> QED
    BY <1>1, <1>3, <1>4, <2>2
<1>6. CardSector(arg) \in Nat
  BY <1>3, <1>4, <1>5 DEF CardSector, e
<1> QED
  BY <1>6 DEF arg

(* The card starts at the sector that is asked for. *)
LEMMA ArgRight ==
    ASSUME NEW sector \in 0 .. MaxLba, kind = "sdhc" <=> mmc_block_mode
    PROVE  CardSector(ReadArg(sector)) = sector
<1>1. SECTOR \in Nat \ {0} /\ sector \in Int
  BY MmcAssumption
<1>2. (sector * SECTOR) \div SECTOR = sector
  BY <1>1, DivMultiple
<1> QED
  BY <1>2 DEF CardSector, ReadArg

(* A step before the first read. *)
LEMMA ConnectStep ==
    ASSUME MmcInv, mpc \in Starting, mpc' \in Starting \cup {"off", "up"}, out' = out, lba' = lba,
           next' = next, ModeInv', IdleInv'
    PROVE  MmcInv'
<1>1. out' = << >> /\ lba' \in Nat /\ next' \in Nat /\ << >> \in Seq(Nat)
  BY DEF MmcInv, StoredInv
<1>2. StoredInv'
  BY <1>1 DEF StoredInv, Starting
<1> QED
  BY <1>2 DEF MmcInv

(* The steps of mmc_start and mmc_connect. *)
LEMMA ConnectInv ==
    ASSUME MmcInv,
           \/ mmc_start \/ GoIdle \/ InterfaceCondition \/ App \/ OpCondition \/ ReadOcr
           \/ InitCard \/ SetBlockLen
    PROVE  MmcInv'
<1>1. CASE mmc_start
  BY <1>1, ConnectStep DEF mmc_start, dev, MmcInv, ModeInv, IdleInv, Starting
<1>2. CASE GoIdle
  <2>1. PICK r \in Answers :
           /\ Command("GOIDLE", r) /\ UNCHANGED <<kind, next>>
           /\ IF r = 1 THEN Goto("cond") ELSE Goto("goidle") \/ Fail("TIMEOUT")
    BY <1>2 DEF GoIdle, Connecting
  <2>2. mpc = "goidle" /\ unseen' = unseen
    BY <1>2 DEF GoIdle, Connecting
  <2>3. UNCHANGED <<kind, mmc_block_mode, out, lba, next>> /\ mpc' \in {"cond", "goidle", "off"}
        /\ (mpc' = "cond" => r = 1)
    BY <2>1 DEF Goto, Fail
  <2>4. mpc' = "cond" => card' # "data"
    BY <2>1, <2>3, GoIdleIdle
  <2> QED
    BY <2>2, <2>3, <2>4, ConnectStep DEF MmcInv, ModeInv, IdleInv, Starting
<1>3. CASE InterfaceCondition
  <2>1. PICK r \in Answers :
           Command("INTERFACE_CONDITION", r) /\ UNCHANGED <<kind, next>> /\ Goto(IF r # 5 THEN "app" ELSE "init")
    BY <1>3 DEF InterfaceCondition, Connecting
  <2>2. mpc = "cond" /\ unseen' = unseen /\ card # "data" /\ kind \in Kinds
    BY <1>3 DEF InterfaceCondition, Connecting, MmcInv, IdleInv, ModeInv, Starting
  <2>3. UNCHANGED <<kind, mmc_block_mode, out, lba, next>> /\ mpc' = IF r # 5 THEN "app" ELSE "init"
    BY <2>1 DEF Goto
  <2>4. card' # "data"
    BY <2>1, <2>2, CommandIdle DEF Commands
  <2>5. r = 5 => kind \in {"mmc", "sd1"}
    BY <2>1, <2>2, OldCard
  <2> QED
    BY <2>2, <2>3, <2>4, <2>5, ConnectStep DEF MmcInv, ModeInv, IdleInv, Starting
<1>4. CASE App
  <2>1. PICK r \in Answers :
           /\ Command("APP", r) /\ UNCHANGED <<kind, next>>
           /\ IF r = 1 THEN Goto("opcond") ELSE Goto("app") \/ Fail("TIMEOUT")
    BY <1>4 DEF App, Connecting
  <2>2. mpc = "app" /\ unseen' = unseen /\ card # "data"
    BY <1>4 DEF App, Connecting, MmcInv, IdleInv, Starting
  <2>3. UNCHANGED <<kind, mmc_block_mode, out, lba, next>> /\ mpc' \in {"opcond", "app", "off"}
    BY <2>1 DEF Goto, Fail
  <2>4. card' # "data"
    BY <2>1, <2>2, CommandIdle DEF Commands
  <2> QED
    BY <2>2, <2>3, <2>4, ConnectStep DEF MmcInv, ModeInv, IdleInv, Starting
<1>5. CASE OpCondition
  <2>1. PICK r \in Answers :
           /\ Command("OPCONDITION", r) /\ UNCHANGED <<kind, next>>
           /\ IF r = 0 THEN Goto("ocr") ELSE Goto("app") \/ Fail("TIMEOUT")
    BY <1>5 DEF OpCondition, Connecting
  <2>2. mpc = "opcond" /\ unseen' = unseen /\ card # "data"
    BY <1>5 DEF OpCondition, Connecting, MmcInv, IdleInv, Starting
  <2>3. UNCHANGED <<kind, mmc_block_mode, out, lba, next>> /\ mpc' \in {"ocr", "app", "off"}
    BY <2>1 DEF Goto, Fail
  <2>4. card' # "data"
    BY <2>1, <2>2, CommandIdle DEF Commands
  <2> QED
    BY <2>2, <2>3, <2>4, ConnectStep DEF MmcInv, ModeInv, IdleInv, Starting
<1>6. CASE ReadOcr
  <2>1. PICK r \in Answers :
           /\ Command("READOCR", r) /\ UNCHANGED <<kind, next>>
           /\ mmc_block_mode' = (mmc_block_mode \/ HighCapacity(r))
           /\ unseen' = (unseen \/ r = NoAnswer)
    BY <1>6 DEF ReadOcr, Connecting
  <2>2. mpc = "ocr" /\ card # "data" /\ mpc' = "blocklen" /\ UNCHANGED <<lba, out>>
    BY <1>6 DEF ReadOcr, Connecting, MmcInv, IdleInv, Starting
  <2>3. card' # "data"
    BY <2>1, <2>2, CommandIdle DEF Commands
  <2>4. kind = "sdhc" => mmc_block_mode'
    BY <2>1 DEF HighCapacity
  <2>5. mmc_block_mode' /\ ~unseen' => kind = "sdhc"
    BY <2>1 DEF HighCapacity, MmcInv, ModeInv
  <2> QED
    BY <2>1, <2>2, <2>3, <2>4, <2>5, ConnectStep DEF MmcInv, ModeInv, IdleInv, Starting
<1>7. CASE InitCard
  <2>1. PICK r \in Answers :
           /\ Command("INIT", r) /\ UNCHANGED <<kind, next>>
           /\ \/ r = 0 /\ Goto("blocklen")
              \/ r \notin {0, 1} /\ Fail("FAULT")
              \/ r = 1 /\ (Goto("init") \/ Fail("TIMEOUT"))
    BY <1>7 DEF InitCard, Connecting
  <2>2. mpc = "init" /\ unseen' = unseen /\ card # "data" /\ kind \in {"mmc", "sd1"}
    BY <1>7 DEF InitCard, Connecting, MmcInv, IdleInv, ModeInv, Starting
  <2>3. UNCHANGED <<kind, mmc_block_mode, out, lba, next>> /\ mpc' \in {"blocklen", "init", "off"}
    BY <2>1 DEF Goto, Fail
  <2>4. card' # "data"
    BY <2>1, <2>2, CommandIdle DEF Commands
  <2> QED
    BY <2>2, <2>3, <2>4, ConnectStep DEF MmcInv, ModeInv, IdleInv, Starting
<1>8. CASE SetBlockLen
  <2>1. PICK r \in Answers : Command("SETBLOCKLEN", r) /\ UNCHANGED <<kind, next>>
    BY <1>8 DEF SetBlockLen, Connecting
  <2>2. mpc = "blocklen" /\ unseen' = unseen /\ card # "data"
    BY <1>8 DEF SetBlockLen, Connecting, MmcInv, IdleInv, Starting
  <2>3. UNCHANGED <<kind, mmc_block_mode, out, lba, next>> /\ mpc' \in {"up", "off"}
    BY <1>8, <2>1 DEF SetBlockLen, Fail
  <2>4. card' # "data"
    BY <2>1, <2>2, CommandIdle DEF Commands
  <2> QED
    BY <2>2, <2>3, <2>4, ConnectStep DEF MmcInv, ModeInv, IdleInv, Starting
<1> QED
  BY <1>1, <1>2, <1>3, <1>4, <1>5, <1>6, <1>7, <1>8

(* A read is started. *)
LEMMA StartReadInv == MmcInv /\ mmc_start_read => MmcInv'
<1> SUFFICES ASSUME MmcInv, mmc_start_read PROVE MmcInv'
  OBVIOUS
<1>1. /\ mpc = "up" /\ out' = << >> /\ UNCHANGED <<mmc_block_mode, kind, unseen>>
  BY DEF mmc_start_read
<1>2. PICK sector \in 0 .. MaxLba, r \in Answers :
         /\ lba' = sector
         /\ IF Accepted(ReadArg(sector)) \/ card # "ready" THEN Command("READMULTIPLE", r)
            ELSE r = 64 /\ UNCHANGED <<card, lost>>
         /\ \/ r = 0 /\ mpc' = "await"
            \/ r # 0 /\ ReadDone("ERROR")
         /\ next' = IF card' = "data" /\ card # "data" THEN CardSector(ReadArg(sector)) ELSE next
  BY DEF mmc_start_read
<1>3. mpc' \in {"await", "off"} /\ (mpc' = "await" => r = 0)
  BY <1>2 DEF ReadDone
<1>4. ModeInv'
  BY <1>1, <1>3 DEF MmcInv, ModeInv
<1>5. IdleInv'
  BY <1>3 DEF IdleInv, Starting
<1>6. lba' \in Nat /\ out' \in Seq(Nat) /\ Len(out') = 0
  BY <1>1, <1>2, MmcAssumption
<1>7. ASSUME mpc' = "await", card' = "data", ~unseen' PROVE next' = lba' + Len(out')
  <2>1. card # "data" /\ ~unseen
    BY <1>1, <1>7 DEF MmcInv, IdleInv
  <2>2. next' = CardSector(ReadArg(sector))
    BY <1>2, <1>7, <2>1
  <2>3. kind = "sdhc" <=> mmc_block_mode
    BY <1>1, <2>1 DEF MmcInv, ModeInv
  <2>4. next' = sector
    BY <2>2, <2>3, ArgRight
  <2> QED
    BY <1>1, <1>2, <1>6, <2>4
<1>8. next' \in Nat
  BY <1>2, ArgTyped DEF MmcInv, StoredInv
<1> QED
  <2>1. \A i \in 1 .. Len(out') : out'[i] = lba' + i - 1
    BY <1>6
  <2>2. StoredInv'
    BY <1>1, <1>3, <1>6, <1>7, <1>8, <2>1 DEF StoredInv, Starting
  <2> QED
    BY <1>4, <1>5, <2>2 DEF MmcInv

(* A sector comes. *)
LEMMA ReadSectorInv == MmcInv /\ mmc_read_sector => MmcInv'
<1> SUFFICES ASSUME MmcInv, mmc_read_sector PROVE MmcInv'
  OBVIOUS
<1>1. /\ mpc = "await" /\ card = "data" /\ out' = Append(out, next) /\ next' = next + 1
      /\ UNCHANGED <<mmc_block_mode, mpc, lba, kind, card, unseen>>
  BY DEF mmc_read_sector
<1>2. ModeInv' /\ IdleInv'
  BY <1>1 DEF MmcInv, ModeInv, IdleInv
<1>3. /\ lba \in Nat /\ next \in Nat /\ out \in Seq(Nat) /\ Len(out) \in Nat
  BY DEF MmcInv, StoredInv
<1>4. /\ out' \in Seq(Nat) /\ Len(out') = Len(out) + 1
      /\ \A i \in 1 .. Len(out') : out'[i] = IF i = Len(out) + 1 THEN next ELSE out[i]
  BY <1>1, <1>3
<1>5. ASSUME ~unseen PROVE /\ \A i \in 1 .. Len(out') : out'[i] = lba + i - 1
                           /\ next' = lba + Len(out')
  <2>1. next = lba + Len(out) /\ \A i \in 1 .. Len(out) : out[i] = lba + i - 1
    BY <1>1, <1>5 DEF MmcInv, StoredInv
  <2>2. ASSUME NEW i \in 1 .. Len(out') PROVE out'[i] = lba + i - 1
    <3>1. CASE i = Len(out) + 1
      BY <1>3, <1>4, <2>1, <3>1
    <3>2. CASE i # Len(out) + 1
      <4>1. i \in 1 .. Len(out)
        BY <1>3, <1>4, <3>2
      <4> QED
        BY <1>4, <2>1, <3>2, <4>1
    <3> QED
      BY <3>1, <3>2
  <2> QED
    BY <1>1, <1>3, <1>4, <2>1, <2>2
<1> QED
  BY <1>1, <1>2, <1>3, <1>4, <1>5 DEF MmcInv, StoredInv, Starting

(* A read ends, or none was possible. *)
LEMMA ReadEndInv == MmcInv /\ (NotReady \/ ReadTimeout \/ mmc_stop_read) => MmcInv'
<1> SUFFICES ASSUME MmcInv, NotReady \/ ReadTimeout \/ mmc_stop_read PROVE MmcInv'
  OBVIOUS
<1>1. CASE NotReady
  BY <1>1 DEF NotReady, dev, MmcInv, ModeInv, IdleInv, StoredInv
<1>2. CASE ReadTimeout
  BY <1>2 DEF ReadTimeout, ReadDone, dev, MmcInv, ModeInv, IdleInv, StoredInv, Starting
<1>3. CASE mmc_stop_read
  <2>1. /\ mpc = "await" /\ mpc' = "up" /\ UNCHANGED <<mmc_block_mode, lba, out, kind, next>>
        /\ \/ card' = (IF card = "data" THEN "ready" ELSE card) /\ unseen' = unseen
           \/ unseen' = TRUE
    BY <1>3 DEF mmc_stop_read, ReadDone
  <2>2. ~unseen' => ~unseen /\ card' # "data"
    BY <2>1
  <2>3. ModeInv' /\ IdleInv'
    BY <2>1, <2>2 DEF MmcInv, ModeInv, IdleInv, Starting
  <2>4. StoredInv'
    BY <2>1, <2>2 DEF MmcInv, StoredInv, Starting
  <2> QED
    BY <2>3, <2>4 DEF MmcInv
<1> QED
  BY <1>1, <1>2, <1>3

(* The card is exchanged, or the processor is reset. *)
LEMMA MmcFaultInv == MmcInv /\ (Swap \/ McuReset) => MmcInv'
<1> SUFFICES ASSUME MmcInv, Swap \/ McuReset PROVE MmcInv'
  OBVIOUS
<1>1. CASE Swap
  <2>1. /\ card' # "data"
        /\ UNCHANGED <<mmc_block_mode, mpc, lba, out, kind, next, unseen>>
    BY <1>1 DEF Swap, drv
  <2> QED
    BY <2>1 DEF MmcInv, ModeInv, IdleInv, StoredInv
<1>2. CASE McuReset
  <2>1. << >> \in Seq(Nat) /\ Len(<< >>) = 0 /\ 0 \in Nat
    OBVIOUS
  <2> QED
    BY <1>2, <2>1 DEF McuReset, MmcInv, ModeInv, IdleInv, StoredInv, Starting
<1> QED
  BY <1>1, <1>2

(* Every step keeps the invariant. *)
LEMMA MmcNextInv == MmcInv /\ [MmcNext]_mvars => MmcInv'
<1> SUFFICES ASSUME MmcInv, [MmcNext]_mvars PROVE MmcInv'
  OBVIOUS
<1>1. CASE UNCHANGED mvars
  BY <1>1 DEF mvars, drv, dev, MmcInv, ModeInv, IdleInv, StoredInv
<1> QED
  BY <1>1, ConnectInv, StartReadInv, ReadSectorInv, ReadEndInv, MmcFaultInv DEF MmcNext

(* Whatever is lost on the bus and whenever the card or the processor goes, a   *)
(* successful disk_read has stored exactly the sectors asked for, in order, as  *)
(* long as no loss went unseen by mmc_connect or mmc_stop_read.                 *)
THEOREM SectorsAreRight == MmcSpec => []SectorsRight
<1>1. MmcInit => MmcInv
  <2>1. << >> \in Seq(Nat) /\ 0 \in Nat
    OBVIOUS
  <2> QED
    BY <2>1 DEF MmcInit, MmcInv, ModeInv, IdleInv, StoredInv, Starting
<1>2. MmcInv => SectorsRight
  <2> SUFFICES ASSUME MmcInv, mpc = "up", ~unseen
               PROVE  out = [i \in 1 .. Len(out) |-> lba + i - 1]
    BY DEF SectorsRight
  <2>1. out \in Seq(Nat) /\ \A i \in 1 .. Len(out) : out[i] = lba + i - 1
    BY DEF MmcInv, StoredInv
  <2>2. out = [i \in 1 .. Len(out) |-> out[i]]
    BY <2>1
  <2> QED
    BY <2>1, <2>2
<1> QED
  BY <1>1, <1>2, MmcNextInv, PTL DEF MmcSpec

-----------------------------------------------------------------------------
(* FatFs, and the driver's failures. *)

(* move_window reads and succeeds, or reads and fails. *)
LEMMA WindowOutcome ==
    ASSUME io = "fine", NEW sectors
    PROVE  (MoveWindow(sectors) => io' = "fine") /\ (WindowFails(sectors) => io' = "failed")
  BY DEF MoveWindow, WindowFails, DiskReads, DiskFails

(* get_fat reports a failed read by its value. *)
LEMMA GetFatOutcome ==
    ASSUME io = "fine", NEW clst, NEW v, GetFat(clst, v)
    PROVE  io' = "fine" \/ (io' = "failed" /\ v = DISK_ERR)
  BY WindowOutcome DEF GetFat

(* f_mount, chk_mounted and dir_sdi. *)
LEMMA MountStops ==
    ASSUME io = "fine", f_mount \/ check_fs \/ chk_mounted \/ dir_sdi
    PROVE  FailureStops'
  BY DEF f_mount, check_fs, chk_mounted, dir_sdi, DiskReads, DiskFails, Give, FailureStops

(* The search of the directory. *)
LEMMA FindStops ==
    ASSUME io = "fine", DirWindow \/ Found \/ FoundEnd \/ DirNext
    PROVE  FailureStops'
<1>1. CASE DirWindow
  BY <1>1, WindowOutcome DEF DirWindow, Give, FailureStops
<1>2. CASE Found \/ FoundEnd
  BY <1>2 DEF Found, FoundEnd, FailureStops
<1>3. CASE DirNext
  <2>1. \/ io' = io
        \/ \E clst : /\ GetFat(dj.clust, clst)
                     /\ clst = DISK_ERR => fpc' = "stop"
    <3>1. ASSUME NEW clst, GetFat(dj.clust, clst), clst = DISK_ERR,
                 \/ clst <= 1 /\ Give("INT_ERR")
                 \/ clst = DISK_ERR /\ Give("DISK_ERR")
                 \/ 1 < clst /\ clst # DISK_ERR /\ clst >= fs.n_fatent /\ Give("NO_FILE")
                 \/ 1 < clst /\ clst # DISK_ERR /\ clst < fs.n_fatent
          PROVE  fpc' = "stop"
      BY <3>1 DEF Give
    <3> QED
      BY <1>3, <3>1 DEF DirNext
  <2> QED
    BY <2>1, GetFatOutcome DEF FailureStops
<1> QED
  BY <1>1, <1>2, <1>3

(* f_read. *)
LEMMA ReadStops ==
    ASSUME io = "fine", f_read \/ NextCluster \/ BadCluster \/ ReadDirect \/ ReadBuffered \/ ReadReturns
    PROVE  FailureStops'
<1>1. CASE f_read \/ BadCluster \/ ReadReturns
  BY <1>1 DEF f_read, BadCluster, ReadReturns, FailureStops
<1>2. CASE NextCluster
  <2>1. PICK clst : /\ io' = io \/ GetFat(fp.clust, clst)
                    /\ clst = DISK_ERR => fpc' = "stop"
    BY <1>2 DEF NextCluster, Give
  <2> QED
    BY <2>1, GetFatOutcome DEF FailureStops
<1>3. CASE ReadDirect
  BY <1>3 DEF ReadDirect, DiskReads, DiskFails, Give, FailureStops
<1>4. CASE ReadBuffered
  BY <1>4 DEF ReadBuffered, DiskReads, DiskFails, Give, FailureStops
<1> QED
  BY <1>1, <1>2, <1>3, <1>4

(* After the end there is nothing to do. *)
LEMMA StoppedStays == fpc = "stop" => ~FatNext
  BY DEF FatNext, f_mount, check_fs, chk_mounted, dir_sdi, DirWindow, Found, FoundEnd, DirNext, f_read,
         NextCluster, InCluster, BadCluster, ReadDirect, ReadBuffered, ReadReturns

(* Whatever the volume holds and wherever the card fails, in mounting, searching, following
   the chain or reading, a failed disk_read is the last one and try_flash is told. *)
THEOREM CardFailuresStop == FatSpec => []FailureStops
<1>1. FatInit => FailureStops
  BY DEF FatInit, FailureStops
<1>2. FailureStops /\ [FatNext]_fvars => FailureStops'
  <2> SUFFICES ASSUME FailureStops, [FatNext]_fvars PROVE FailureStops'
    OBVIOUS
  <2>1. CASE UNCHANGED fvars
    BY <2>1 DEF fvars, FailureStops
  <2>2. CASE FatNext
    <3>1. io = "fine"
      BY <2>2, StoppedStays DEF FailureStops
    <3> QED
      BY <2>2, <3>1, MountStops, FindStops, ReadStops DEF FatNext
  <2> QED
    BY <2>1, <2>2
<1> QED
  BY <1>1, <1>2, PTL DEF FatSpec
=============================================================================
