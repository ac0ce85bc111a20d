---------------------------- MODULE EepromProofs ----------------------------
(* Proofs about the configuration and its EEPROM, for every page size, number  *)
(* of pages and of retries, and every sequence of commands, faults and power   *)
(* failures.                                                                   *)
EXTENDS Eeprom, SequenceTheorems, WellFoundedInduction, TLAPS

-----------------------------------------------------------------------------
(* The inductive invariant. *)

Cell == 0 .. Size - 1

Bus == [st : {"off", "sb", "addr", "data", "done"}, rd : BOOLEAN, count : Nat, index : Nat,
        itbuf : BOOLEAN, tx : Seq(Nat), error : {OK, "NACK", "FAULT", "AGAIN"}]
Do  == [tx : Seq(Nat), dest : {"none", "snum", "cfg", "tmp"}, reading : BOOLEAN, retries : Int]

EepType ==
    /\ mem \in [Cell -> Nat] /\ cfg \in [1 .. CfgSize -> Nat]
    /\ snum \in [1 .. PageSize -> Nat] /\ tmp \in [1 .. PageSize + 1 -> Nat]
    /\ buf \in [1 .. PageSize -> Nat] /\ addr \in Nat
    /\ chip \in [writing : Seq(Cell \X Nat), ptr : Cell]
    /\ do \in Do /\ bus \in Bus

\* What eeprom_do is asked for by each of its callers, and what it has asked of the bus.
DoInv ==
    /\ bus.st = "off" => Returned
    /\ bus.st # "off" =>
          /\ pc \in {"load", "write", "poll"} /\ Len(do.tx) > 0
          /\ do.dest = "none" <=> pc = "write"
          /\ pc = "poll" => do.dest = "tmp" /\ do.tx = <<addr>>
          /\ pc = "load" => do.dest # "tmp"
          /\ bus.rd <=> do.reading
          /\ bus.rd => bus.count = PageSize /\ pc # "write"
          /\ ~bus.rd => bus.tx = do.tx /\ bus.count = Len(do.tx)
    /\ bus.st # "done" => bus.error = OK

\* How far a transfer has come: the chip answers while it is under way, takes the first
\* byte as its pointer, and after a write of the pointer alone is ready for a read.
BusInv ==
    /\ bus.st = "sb" => bus.index = 0
    /\ bus.st = "addr" => bus.index = 0
    /\ bus.st = "data" => chip.writing = <<>>
    /\ bus.st = "data" /\ ~bus.rd =>
          /\ bus.index <= bus.count /\ (bus.itbuf <=> bus.index < bus.count)
          /\ bus.index > 0 => chip.ptr = do.tx[1] % Size
    /\ bus.st = "data" /\ bus.rd =>
          /\ bus.itbuf => bus.index + 4 <= PageSize \/ bus.index + 1 = PageSize
          /\ ~bus.itbuf => bus.index + 3 = PageSize
    /\ bus.st = "done" /\ bus.error = OK /\ bus.rd => bus.index = PageSize + 1
    /\ pc = "poll" /\ bus.st = "done" /\ bus.error = OK /\ ~bus.rd =>
          chip.writing = <<>> /\ chip.ptr = addr

\* tmp holds what has been read back of the page, from the chip at rest.
ReadBack(n) ==
    /\ chip.writing = <<>>
    /\ \A i \in 1 .. n : i <= PageSize => tmp[i] = mem[addr + i - 1]

ReadInv ==
    pc = "poll" =>
        /\ bus.st \notin {"off", "done"} /\ bus.rd =>
              ReadBack(bus.index) /\ chip.ptr = (addr + bus.index) % Size
        /\ bus.st = "done" /\ bus.error = OK /\ bus.rd => ReadBack(PageSize)
        /\ bus.st = "off" /\ status = OK => ReadBack(PageSize)

\* The page being written.
PageInv ==
    /\ pc \in {"write", "poll"} =>
          addr % PageSize = 0 /\ addr + PageSize <= Size /\ op \in {"save", "fsnum"}
    /\ pc \in {"write", "poll"} /\ op = "save" =>
          addr >= PageSize /\ \A i \in 1 .. PageSize : buf[i] = cfg[addr - PageSize + i]

InPage(a) == addr <= a /\ a < addr + PageSize

\* The pages before this one are stored, and only this one is being written.
Intact ==
    /\ \A a \in PageSize .. addr - 1 : mem[a] = cfg[a - PageSize + 1]
    /\ \A i \in 1 .. Len(chip.writing) : InPage(chip.writing[i][1])
    /\ pc = "write" /\ bus.st # "off" => InPage(do.tx[1] % Size)

\* What was read back is sent as address and data, to another page: this one stays wrong
\* as long as the save goes on.
Misdirected ==
    /\ \E i \in 1 .. PageSize : mem[addr + i - 1] # buf[i]
    /\ ~InPage(mem[addr] % Size)
    /\ \A i \in 1 .. Len(chip.writing) : ~InPage(chip.writing[i][1])
    /\ pc = "write" /\ bus.st # "off" => do.tx[1] = mem[addr]

SaveInv == pc \in {"write", "poll"} /\ op = "save" /\ addr > PageSize => Intact \/ Misdirected

SavedInv ==
    op = "saved" =>
        /\ pc = "off" /\ bus.st = "off" /\ chip.writing = <<>>
        /\ \A i \in 1 .. CfgSize : mem[PageSize + i - 1] = cfg[i]

EepInv == EepType /\ DoInv /\ BusInv /\ ReadInv /\ PageInv /\ SaveInv /\ SavedInv

-----------------------------------------------------------------------------
(* Numbers. *)

(* Quotient and remainder. *)
LEMMA DivMod ==
    ASSUME NEW n \in Nat \ {0}, NEW x \in Int
    PROVE  x \div n \in Int /\ x % n \in 0 .. n - 1 /\ x = n * (x \div n) + (x % n)
  OBVIOUS

(* A number below the divisor is its own remainder. *)
LEMMA ModSmall ==
    ASSUME NEW n \in Nat \ {0}, NEW x \in Nat, x < n
    PROVE  x % n = x
  OBVIOUS

(* Two multiples are as far apart as one step at least. *)
LEMMA StepApart ==
    ASSUME NEW n \in Nat \ {0}, NEW i \in Int, NEW j \in Int, n * i < n * j
    PROVE  n * i + n <= n * j
<1>1. i < j
  <2>1. SUFFICES ASSUME i >= j PROVE FALSE
    OBVIOUS
  <2>2. n * (i - j) >= 0 /\ n * (i - j) = n * i - n * j /\ n * i \in Int /\ n * j \in Int
    BY <2>1
  <2> QED
    BY <2>2
<1>2. n * (j - i - 1) >= 0
  BY <1>1
<1>3. n * (j - i - 1) = n * j - n * i - n /\ n * i \in Int /\ n * j \in Int
  OBVIOUS
<1> QED
  BY <1>2, <1>3

(* Multiples given by their remainder. *)
LEMMA MultiplesApart ==
    ASSUME NEW n \in Nat \ {0}, NEW x \in Nat, NEW y \in Nat, x % n = 0, y % n = 0, x < y
    PROVE  x + n <= y
<1> DEFINE i == x \div n
           j == y \div n
<1>1. i \in Int /\ j \in Int /\ x = n * i /\ y = n * j
  <2>1. x = n * i + (x % n) /\ i \in Int
    BY DivMod
  <2>3. y = n * j + (y % n) /\ j \in Int
    BY DivMod
  <2> HIDE DEF i, j
  <2>2. n * i \in Int /\ n * j \in Int
    BY <2>1, <2>3
  <2> QED
    BY <2>1, <2>2, <2>3
<1> HIDE DEF i, j
<1> QED
  BY <1>1, StepApart

(* The next multiple is one, and what is left of a number without its remainder. *)
LEMMA MultipleNext ==
    ASSUME NEW n \in Nat \ {0}, NEW q \in Int
    PROVE  (n * q) % n = 0
<1> DEFINE x == n * q
           i == x \div n
           r == x % n
<1>0. x \in Int
  OBVIOUS
<1>1. i \in Int /\ r \in 0 .. n - 1 /\ x = n * i + r /\ x \in Int
  <2> HIDE DEF x
  <2> QED
    BY <1>0, DivMod
<1>2. n * i \in Int /\ n * q = n * i + r /\ n * q \in Int
  BY <1>1
<1> HIDE DEF i, r, x
<1>3. ~(n * i < n * q)
  BY <1>1, <1>2, StepApart
<1> QED
  BY <1>1, <1>2, <1>3 DEF r, x

(* The sizes of the chip and of the configuration. *)
LEMMA Sizes ==
    /\ PageSize \in Nat \ {0} /\ PageSize >= 4 /\ Size \in Nat \ {0} /\ CfgSize \in Nat
    /\ CfgSize = Size - PageSize /\ CfgSize >= PageSize /\ Size % PageSize = 0
<1>1. PageSize \in Nat \ {0} /\ PageSize >= 4 /\ Pages \in Nat /\ Pages >= 2
  BY LayoutAssumption
<1>2. PageSize * (Pages - 2) >= 0 /\ PageSize * (Pages - 2) = PageSize * Pages - 2 * PageSize
  BY <1>1
<1>3. PageSize * Pages \in Nat /\ PageSize * Pages >= 2 * PageSize
  BY <1>1, <1>2
<1>4. Size % PageSize = 0
  BY <1>1, MultipleNext DEF Size
<1> QED
  BY <1>1, <1>3, <1>4 DEF Size, CfgSize

(* The page of a cell is the one that starts at y, or lies apart from it. *)
LEMMA PageOfCell ==
    ASSUME NEW x \in Nat, NEW y \in Nat, y % PageSize = 0
    PROVE  /\ x - (x % PageSize) \in Nat /\ x % PageSize \in 0 .. PageSize - 1
           /\ (x - (x % PageSize)) % PageSize = 0
           /\ y <= x /\ x < y + PageSize => x - (x % PageSize) = y
           /\ ~(y <= x /\ x < y + PageSize) =>
                 x - (x % PageSize) + PageSize <= y \/ y + PageSize <= x - (x % PageSize)
<1> DEFINE r == x % PageSize
           q == x \div PageSize
           b == x - r
<1>1. PageSize \in Nat \ {0}
  BY Sizes
<1>2. q \in Int /\ r \in 0 .. PageSize - 1 /\ x = PageSize * q + r
  BY <1>1, DivMod
<1> HIDE DEF r, q
<1>3. PageSize * q \in Int /\ b = PageSize * q
  BY <1>1, <1>2
<1>4. b % PageSize = 0
  BY <1>1, <1>2, <1>3, MultipleNext
<1>5. b \in Nat
  <2>1. SUFFICES ASSUME PageSize * q < PageSize * 0 PROVE FALSE
    BY <1>1, <1>3
  <2>2. PageSize * q + PageSize <= PageSize * 0
    BY <1>1, <1>2, <2>1, StepApart
  <2> QED
    BY <1>1, <1>2, <1>3, <2>2
<1> HIDE DEF b
<1>6. b < y => b + PageSize <= y
  BY <1>1, <1>4, <1>5, MultiplesApart
<1>7. y < b => y + PageSize <= b
  BY <1>1, <1>4, <1>5, MultiplesApart
<1>8. x = b + r
  BY <1>2 DEF b
<1>9. /\ b \in Nat /\ r \in 0 .. PageSize - 1 /\ b % PageSize = 0
      /\ y <= x /\ x < y + PageSize => b = y
      /\ ~(y <= x /\ x < y + PageSize) => b + PageSize <= y \/ y + PageSize <= b
  BY <1>1, <1>2, <1>4, <1>5, <1>6, <1>7, <1>8
<1> QED
  BY <1>9 DEF b, r

(* A write cycle stays within the page of the pointer. *)
LEMMA PageWriteCells ==
    ASSUME NEW ptr \in Cell, NEW data \in Seq(Nat)
    PROVE  /\ PageWrite(ptr, data) \in Seq(Cell \X Nat)
           /\ Len(PageWrite(ptr, data)) = Len(data)
           /\ \A i \in 1 .. Len(data) :
                 /\ ptr - (ptr % PageSize) <= PageWrite(ptr, data)[i][1]
                 /\ PageWrite(ptr, data)[i][1] < ptr - (ptr % PageSize) + PageSize
<1> DEFINE b == ptr - (ptr % PageSize)
           w(i) == <<b + ((ptr + i - 1) % PageSize), data[i]>>
<1>1. PageSize \in Nat \ {0} /\ Size \in Nat /\ ptr \in Nat /\ ptr < Size /\ Size % PageSize = 0
  BY Sizes DEF Cell
<1>2. b \in Nat /\ b % PageSize = 0 /\ b <= ptr
  <2>1. b \in Nat /\ b % PageSize = 0 /\ ptr % PageSize \in 0 .. PageSize - 1
    BY <1>1, PageOfCell
  <2> QED
    BY <1>1, <2>1
<1>3. b + PageSize <= Size
  <2> HIDE DEF b
  <2>1. b < Size /\ PageSize \in Nat \ {0} /\ Size \in Nat /\ Size % PageSize = 0
    BY <1>1, <1>2
  <2> HIDE <1>1
  <2> QED
    BY <2>1, <1>2, MultiplesApart
<1>4. ASSUME NEW i \in 1 .. Len(data)
      PROVE  w(i) \in Cell \X Nat /\ b <= w(i)[1] /\ w(i)[1] < b + PageSize
  <2> HIDE DEF b
  <2>0. ptr + i - 1 \in Int /\ PageSize \in Nat \ {0}
    BY <1>1
  <2>1. (ptr + i - 1) % PageSize \in 0 .. PageSize - 1
    BY <2>0, DivMod
  <2>2. data[i] \in Nat
    OBVIOUS
  <2>3. b + ((ptr + i - 1) % PageSize) \in Cell
    BY <1>1, <1>2, <1>3, <2>1 DEF Cell
  <2> QED
    BY <1>1, <1>2, <2>1, <2>2, <2>3
<1>5. PageWrite(ptr, data) = [i \in 1 .. Len(data) |-> w(i)]
  BY DEF PageWrite
<1> HIDE DEF w
<1>6. Len(data) \in Nat
  OBVIOUS
<1>7. [i \in 1 .. Len(data) |-> w(i)] \in Seq(Cell \X Nat)
  BY <1>4, <1>6
<1>8. Len([i \in 1 .. Len(data) |-> w(i)]) = Len(data)
  BY <1>6
<1> QED
  BY <1>4, <1>5, <1>7, <1>8

(* What a write cycle leaves in memory. *)
LEMMA WrittenCells ==
    ASSUME NEW cells \in SUBSET (Cell \X Nat), NEW m \in [Cell -> Nat]
    PROVE  /\ Written(cells, m) \in [Cell -> Nat]
           /\ \A a \in Cell : (\A c \in cells : c[1] # a) => Written(cells, m)[a] = m[a]
<1> DEFINE V(a) == IF \E c \in cells : c[1] = a THEN (CHOOSE c \in cells : c[1] = a)[2] ELSE m[a]
<1>1. ASSUME NEW a \in Cell PROVE V(a) \in Nat
  <2>1. CASE \E c \in cells : c[1] = a
    <3>1. (CHOOSE c \in cells : c[1] = a) \in cells
      BY <2>1
    <3> QED
      BY <2>1, <3>1
  <2>2. CASE ~\E c \in cells : c[1] = a
    BY <2>2
  <2> QED
    BY <2>1, <2>2
<1>2. Written(cells, m) = [a \in Cell |-> V(a)]
  BY DEF Written
<1>3. ASSUME NEW a \in Cell, \A c \in cells : c[1] # a PROVE V(a) = m[a]
  BY <1>3
<1> HIDE DEF V
<1> QED
  BY <1>1, <1>2, <1>3

-----------------------------------------------------------------------------
(* Configurations. *)

(* A set of numbers that is not empty has a least one. *)
LEMMA LeastNat ==
    ASSUME NEW T \in SUBSET Nat, T # {}
    PROVE  \E n \in T : \A m \in T : n <= m
<1>1. IsWellFoundedOn(OpToRel(<, Nat), Nat)
  BY NatLessThanWellFounded
<1>2. PICK n \in T : \A m \in T : <<m, n>> \notin OpToRel(<, Nat)
  BY <1>1, WFMin
<1>3. ASSUME NEW m \in T PROVE n <= m
  <2>1. m \in Nat /\ n \in Nat
    OBVIOUS
  <2>2. SUFFICES ASSUME m < n PROVE FALSE
    BY <2>1
  <2>3. <<m, n>> \in OpToRel(<, Nat)
    BY <2>1, <2>2 DEF OpToRel
  <2> QED
    BY <1>2, <2>3
<1> QED
  BY <1>3

\* f holds the sums of the first cells of c, up to k of them.
Sums(f, c, k) ==
    f = [n \in 0 .. k |-> IF n = 0 THEN 0 ELSE f[n - 1] + c[n]]

(* There are such sums. *)
LEMMA SumsExist ==
    ASSUME NEW c \in [1 .. CfgSize -> Nat], NEW k \in 0 .. CfgSize
    PROVE  \E f : Sums(f, c, k)
<1> DEFINE T == {i \in Nat : i <= k /\ ~\E f : Sums(f, c, i)}
<1>0. CfgSize \in Nat /\ k \in Nat /\ k <= CfgSize
  BY Sizes
<1>1. SUFFICES ASSUME ~\E f : Sums(f, c, k) PROVE FALSE
  OBVIOUS
<1>2. PICK i \in T : \A j \in T : i <= j
  <2>1. k \in T /\ T \in SUBSET Nat
    BY <1>0, <1>1
  <2> HIDE DEF T
  <2> QED
    BY <2>1, LeastNat
<1>3. i # 0
  <2> DEFINE f == [n \in 0 .. 0 |-> 0]
  <2>1. f = [n \in 0 .. 0 |-> IF n = 0 THEN 0 ELSE f[n - 1] + c[n]]
    OBVIOUS
  <2>2. Sums(f, c, 0)
    BY <2>1 DEF Sums
  <2> HIDE DEF f
  <2> QED
    BY <1>2, <2>2
<1>4. i - 1 \in Nat /\ i - 1 <= k /\ i - 1 \notin T
  BY <1>2, <1>3, <1>0
<1>5. PICK f : Sums(f, c, i - 1)
  BY <1>4
<1> DEFINE g == [n \in 0 .. i |-> IF n = i THEN f[i - 1] + c[i] ELSE f[n]]
<1>6. ASSUME NEW n \in 0 .. i
      PROVE  g[n] = IF n = 0 THEN 0 ELSE g[n - 1] + c[n]
  <2>1. i \in Nat /\ i # 0 /\ n \in Nat /\ n <= i
    BY <1>3, <1>4
  <2>2. CASE n = i
    BY <2>1, <2>2
  <2>3. CASE n # i
    <3>1. n \in 0 .. i - 1
      BY <2>1, <2>3
    <3>2. f[n] = IF n = 0 THEN 0 ELSE f[n - 1] + c[n]
      BY <1>5, <3>1 DEF Sums
    <3>3. n # 0 => n - 1 \in 0 .. i /\ n - 1 # i
      BY <3>1, <2>1
    <3> QED
      BY <2>3, <3>2, <3>3
  <2> QED
    BY <2>2, <2>3
<1>7. g = [n \in 0 .. i |-> g[n]]
  OBVIOUS
<1> HIDE DEF g
<1>8. g = [n \in 0 .. i |-> IF n = 0 THEN 0 ELSE g[n - 1] + c[n]]
  BY <1>6, <1>7
<1> QED
  BY <1>2, <1>8 DEF Sums

(* A sum is a number. *)
LEMMA SumsNat ==
    ASSUME NEW c \in [1 .. CfgSize -> Nat], NEW k \in 0 .. CfgSize, NEW f, Sums(f, c, k)
    PROVE  f[k] \in Nat
<1> DEFINE T == {i \in Nat : i <= k /\ f[i] \notin Nat}
<1>0. CfgSize \in Nat /\ k \in Nat /\ k <= CfgSize
  BY Sizes
<1>1. SUFFICES ASSUME T # {} PROVE FALSE
  BY <1>0
<1>2. PICK i \in T : \A j \in T : i <= j
  BY <1>1, LeastNat
<1>3. i \in 0 .. k /\ f[i] \notin Nat
  BY <1>0
<1>4. f[i] = IF i = 0 THEN 0 ELSE f[i - 1] + c[i]
  BY <1>3 DEF Sums
<1>5. i # 0 => f[i - 1] \in Nat
  <2>1. SUFFICES ASSUME i # 0 PROVE i - 1 \notin T /\ i - 1 \in Nat /\ i - 1 <= k
    OBVIOUS
  <2> QED
    BY <2>1, <1>2, <1>0
<1>6. i # 0 => c[i] \in Nat
  BY <1>3, <1>0
<1> QED
  BY <1>3, <1>4, <1>5, <1>6

(* The checksum is a number. *)
LEMMA ChecksumNat ==
    ASSUME NEW c \in [1 .. CfgSize -> Nat]
    PROVE  inet_chksum(c) \in Nat
<1> DEFINE f == CHOOSE g : Sums(g, c, CfgSize - 1)
<1>1. CfgSize - 1 \in 0 .. CfgSize
  BY Sizes
<1>2. Sums(f, c, CfgSize - 1)
  BY <1>1, SumsExist
<1>3. f[CfgSize - 1] \in Nat
  <2> HIDE DEF f
  <2> QED
    BY <1>1, <1>2, SumsNat
<1>4. inet_chksum(c) = 65535 - (f[CfgSize - 1] % 65535)
  BY DEF inet_chksum, Sums
<1> HIDE DEF f
<1> QED
  BY <1>3, <1>4

Config == [1 .. CfgSize -> Nat]

(* A cell cleared of a bit is a number. *)
LEMMA ClearNat ==
    ASSUME NEW f \in Nat, NEW b \in {2, 4, 8, 16, 32}
    PROVE  Clear(f, b) \in Nat
<1>1. Bit(f, 2) => f >= 2
  BY DEF Bit
<1>2. Bit(f, 4) => f >= 4
  BY DEF Bit
<1>3. Bit(f, 8) => f >= 8
  BY DEF Bit
<1>4. Bit(f, 16) => f >= 16
  BY DEF Bit
<1>5. Bit(f, 32) => f >= 32
  BY DEF Bit
<1> QED
  BY <1>1, <1>2, <1>3, <1>4, <1>5 DEF Clear

(* The configurations the commands make. *)
LEMMA ConfigTypes ==
    /\ Zeros(CfgSize) \in Config /\ Defaults \in Config
    /\ Zeros(PageSize) \in [1 .. PageSize -> Nat] /\ Zeros(PageSize + 1) \in [1 .. PageSize + 1 -> Nat]
    /\ \A c \in Config : WithCrc(c) \in Config /\ Normalised(c) \in Config
<1>1. Zeros(CfgSize) \in Config
  BY DEF Zeros, Config
<1>2. Defaults \in Config
  BY <1>1 DEF Defaults, Config
<1>3. ASSUME NEW c \in Config PROVE WithCrc(c) \in Config
  <2>1. inet_chksum(c) \in Nat
    BY ChecksumNat DEF Config
  <2> QED
    BY <2>1 DEF WithCrc, Config
<1>4. ASSUME NEW c \in Config PROVE Normalised(c) \in Config
  <2> DEFINE f0 == c[Flags]
             f1 == IF Bit(f0, GpsExt) THEN Clear(f0, GpsOut) ELSE f0
             f2 == IF Bit(f1, Md5) /\ Bit(f1, Sha1) THEN Clear(Clear(f1, Md5), Sha1) ELSE f1
  <2>1. f0 \in Nat
    BY Sizes DEF Config, Flags
  <2>2. f1 \in Nat
    BY <2>1, ClearNat DEF GpsOut
  <2>3. f2 \in Nat
    <3> HIDE DEF f1
    <3>1. Clear(f1, Md5) \in Nat
      BY <2>2, ClearNat DEF Md5
    <3> QED
      BY <2>2, <3>1, ClearNat DEF Sha1
  <2>4. Normalised(c) = WithCrc([c EXCEPT ![Flags] = f2])
    BY DEF Normalised
  <2> HIDE DEF f2
  <2>5. [c EXCEPT ![Flags] = f2] \in Config
    BY <2>3 DEF Config
  <2> QED
    BY <2>4, <2>5, <1>3
<1> QED
  BY <1>1, <1>2, <1>3, <1>4 DEF Zeros

(* A page of a configuration. *)
LEMMA PageOfConfig ==
    ASSUME NEW c \in Config, NEW a \in Nat, PageSize <= a, a + PageSize <= Size
    PROVE  /\ CfgPage(c, a) \in [1 .. PageSize -> Nat]
           /\ \A i \in 1 .. PageSize : CfgPage(c, a)[i] = c[a - PageSize + i]
<1>1. /\ PageSize \in Nat /\ CfgSize \in Nat /\ a <= CfgSize /\ PageSize >= 4
  BY Sizes
<1>2. c \in Seq(Nat) /\ Len(c) = CfgSize
  BY <1>1 DEF Config
<1>3. a - PageSize + 1 \in 1 .. CfgSize + 1 /\ a \in a - PageSize .. CfgSize
  BY <1>1
<1> DEFINE s == a - PageSize + 1
<1>4. SubSeq(c, s, a) = [i \in 1 .. (a - s + 1) |-> c[i + s - 1]]
  BY <1>1, <1>2, <1>3
<1>5. a - s + 1 = PageSize
  BY <1>1
<1>6. ASSUME NEW i \in 1 .. PageSize PROVE c[i + s - 1] = c[a - PageSize + i] /\ c[a - PageSize + i] \in Nat
  <2>1. i + s - 1 = a - PageSize + i /\ a - PageSize + i \in 1 .. CfgSize
    BY <1>1
  <2> QED
    BY <2>1 DEF Config
<1> QED
  BY <1>4, <1>5, <1>6 DEF CfgPage

(* The bytes sent: an address and a page. *)
LEMMA PageSent ==
    ASSUME NEW a \in Nat, NEW b \in [1 .. PageSize -> Nat]
    PROVE  /\ <<a>> \o b \in [1 .. PageSize + 1 -> Nat] /\ <<a>> \o b \in Seq(Nat)
           /\ Len(<<a>> \o b) = PageSize + 1 /\ (<<a>> \o b)[1] = a
<1>1. PageSize \in Nat
  BY Sizes
<1>2. b \in Seq(Nat) /\ Len(b) = PageSize
  BY <1>1
<1>3. <<a>> \in Seq(Nat) /\ Len(<<a>>) = 1 /\ <<a>>[1] = a
  OBVIOUS
<1>4. /\ <<a>> \o b \in Seq(Nat) /\ Len(<<a>> \o b) = 1 + PageSize /\ (<<a>> \o b)[1] = a
  BY <1>1, <1>2, <1>3
<1> DEFINE s == <<a>> \o b
<1> HIDE DEF s
<1>7. s \in Seq(Nat) /\ Len(s) = 1 + PageSize
  BY <1>4 DEF s
<1>5. s \in [1 .. Len(s) -> Nat] /\ Len(s) = PageSize + 1
  BY <1>1, <1>7
<1>6. s \in [1 .. PageSize + 1 -> Nat]
  BY <1>5
<1> QED
  BY <1>1, <1>4, <1>6 DEF s

-----------------------------------------------------------------------------
(* The bus. *)

(* A START is answered by the address. *)
LEMMA StartInv == EepInv /\ EventStart => EepInv'
<1> SUFFICES ASSUME EepInv, EventStart PROVE EepInv'
  OBVIOUS
<1> USE DEF EepInv
<1>1. /\ bus.st = "sb" /\ bus' = [bus EXCEPT !.st = "addr", !.index = 0]
      /\ mem' = mem /\ chip' = chip /\ cfg' = cfg /\ snum' = snum /\ pc' = pc /\ op' = op
      /\ addr' = addr /\ tmp' = tmp /\ buf' = buf /\ do' = do /\ status' = status
  BY DEF EventStart, page
<1>2. /\ bus'.st = "addr" /\ bus'.index = 0 /\ bus'.rd = bus.rd /\ bus'.count = bus.count
      /\ bus'.tx = bus.tx /\ bus'.error = bus.error
  BY <1>1 DEF EepType, Bus
<1>3. EepType'
  BY <1>1 DEF EepType, Bus
<1>4. DoInv'
  BY <1>1, <1>2 DEF DoInv, Returned
<1>5. BusInv'
  BY <1>1, <1>2 DEF BusInv, DoInv
<1>6. ReadInv'
  BY <1>1, <1>2 DEF ReadInv, ReadBack, BusInv
<1>7. PageInv' /\ SaveInv' /\ SavedInv'
  BY <1>1, <1>2 DEF PageInv, SaveInv, SavedInv, Intact, Misdirected, InPage
<1> QED
  BY <1>3, <1>4, <1>5, <1>6, <1>7

(* The chip answers its address once its write cycle is over. *)
LEMMA AddrInv == EepInv /\ EventAddr => EepInv'
<1> SUFFICES ASSUME EepInv, EventAddr PROVE EepInv'
  OBVIOUS
<1> USE DEF EepInv
<1>1. /\ bus.st = "addr" /\ chip.writing = <<>>
      /\ bus' = [bus EXCEPT !.st = "data", !.itbuf = ~(bus.rd /\ bus.count \in {2, 3})]
      /\ mem' = mem /\ chip' = chip /\ cfg' = cfg /\ snum' = snum /\ pc' = pc /\ op' = op
      /\ addr' = addr /\ tmp' = tmp /\ buf' = buf /\ do' = do /\ status' = status
  BY DEF EventAddr, page, Started
<1>2. /\ bus'.st = "data" /\ bus'.index = bus.index /\ bus'.rd = bus.rd /\ bus'.count = bus.count
      /\ bus'.tx = bus.tx /\ bus'.error = bus.error
      /\ bus'.itbuf <=> ~(bus.rd /\ bus.count \in {2, 3})
  BY <1>1 DEF EepType, Bus
<1>0. /\ bus.index = 0 /\ (bus.rd => bus.count = PageSize)
      /\ ~bus.rd => bus.count = Len(do.tx) /\ Len(do.tx) > 0
  BY <1>1 DEF BusInv, DoInv
<1>3. EepType'
  BY <1>1 DEF EepType, Bus
<1>4. DoInv'
  BY <1>1, <1>2 DEF DoInv, Returned
<1>5. BusInv'
  <2>1. bus'.itbuf
    BY <1>2, <1>0, Sizes
  <2>2. bus.rd => PageSize >= 4
    BY Sizes
  <2> QED
    BY <1>1, <1>2, <1>0, <2>1, <2>2, Sizes DEF BusInv
<1>6. ReadInv'
  BY <1>1, <1>2 DEF ReadInv, ReadBack
<1>7. PageInv' /\ SaveInv' /\ SavedInv'
  BY <1>1, <1>2 DEF PageInv, SaveInv, SavedInv, Intact, Misdirected, InPage
<1> QED
  BY <1>3, <1>4, <1>5, <1>6, <1>7

(* A byte is taken over; the first one is the chip's pointer. *)
LEMMA TxeInv == EepInv /\ EventTxe => EepInv'
<1> SUFFICES ASSUME EepInv, EventTxe PROVE EepInv'
  OBVIOUS
<1> USE DEF EepInv
<1>1. /\ bus.st = "data" /\ ~bus.rd /\ bus.itbuf
      /\ bus' = Finish([bus EXCEPT !.index = bus.index + 1, !.itbuf = (bus.index + 1 # bus.count)])
      /\ chip' = IF bus.index = 0 THEN [chip EXCEPT !.ptr = bus.tx[1] % Size] ELSE chip
      /\ mem' = mem /\ cfg' = cfg /\ snum' = snum /\ pc' = pc /\ op' = op
      /\ addr' = addr /\ tmp' = tmp /\ buf' = buf /\ do' = do /\ status' = status
  BY DEF EventTxe, page
<1>0. /\ bus.index \in Nat /\ bus.count \in Nat /\ bus.index < bus.count
      /\ bus.tx = do.tx /\ bus.count = Len(do.tx) /\ chip.writing = <<>> /\ bus.error = OK
      /\ do.tx[1] \in Nat
  BY <1>1 DEF BusInv, DoInv, EepType, Bus, Do
<1>2. /\ bus' = [bus EXCEPT !.index = bus.index + 1, !.itbuf = (bus.index + 1 # bus.count)]
  BY <1>0, <1>1 DEF EepType, Bus, Finish
<1>3. /\ bus'.st = "data" /\ bus'.index = bus.index + 1 /\ bus'.rd = bus.rd /\ bus'.count = bus.count
      /\ bus'.tx = bus.tx /\ bus'.error = bus.error
      /\ bus'.itbuf <=> (bus.index + 1 # bus.count)
  BY <1>2, <1>1 DEF EepType, Bus
<1>4. do.tx[1] % Size \in Cell
  BY <1>0, Sizes DEF Cell
<1>5. chip' \in [writing : Seq(Cell \X Nat), ptr : Cell] /\ chip'.writing = <<>>
  BY <1>0, <1>1, <1>4 DEF EepType, Bus
<1>6. bus.index = 0 => chip'.ptr = do.tx[1] % Size
  BY <1>0, <1>1 DEF EepType, Bus
<1>7. bus.index # 0 => chip' = chip
  BY <1>1
<1>8. EepType'
  <2>1. bus \in Bus /\ (bus.index + 1 # bus.count) \in BOOLEAN /\ bus.index + 1 \in Nat
    BY <1>0 DEF EepType, Bus
  <2>2. bus' \in Bus
    BY <1>2, <2>1 DEF Bus
  <2> QED
    BY <1>1, <1>5, <2>2 DEF EepType, Bus
<1>9. DoInv'
  BY <1>1, <1>3 DEF DoInv, Returned
<1>10. BusInv'
  BY <1>1, <1>3, <1>0, <1>5, <1>6, <1>7 DEF BusInv
<1>11. ReadInv'
  BY <1>1, <1>3 DEF ReadInv
<1>12. PageInv' /\ SaveInv' /\ SavedInv'
  BY <1>1, <1>3, <1>0, <1>5 DEF PageInv, SaveInv, SavedInv, Intact, Misdirected, InPage
<1> QED
  BY <1>8, <1>9, <1>10, <1>11, <1>12

(* The STOP of a write: what the chip writes lies in the page of its pointer. *)
LEMMA StopCells ==
    ASSUME EepType, NEW bytes \in Seq(Nat), StopWrite(bytes)
    PROVE  /\ chip' \in [writing : Seq(Cell \X Nat), ptr : Cell] /\ chip'.ptr = chip.ptr
           /\ Len(bytes) <= 1 => chip'.writing = <<>>
           /\ addr % PageSize = 0 /\ InPage(chip.ptr) =>
                 \A i \in 1 .. Len(chip'.writing) : InPage(chip'.writing[i][1])
           /\ addr % PageSize = 0 /\ ~InPage(chip.ptr) =>
                 \A i \in 1 .. Len(chip'.writing) : ~InPage(chip'.writing[i][1])
<1>1. chip \in [writing : Seq(Cell \X Nat), ptr : Cell] /\ addr \in Nat
  BY DEF EepType
<1>2. chip.ptr \in Cell /\ chip.ptr \in Nat
  BY <1>1, Sizes DEF Cell
<1>3. CASE Len(bytes) <= 1
  <2>1. chip' = [chip EXCEPT !.writing = <<>>]
    BY <1>3 DEF StopWrite
  <2>2. <<>> \in Seq(Cell \X Nat) /\ Len(<<>>) = 0
    OBVIOUS
  <2>3. chip'.writing = <<>> /\ chip'.ptr = chip.ptr /\ chip' \in [writing : Seq(Cell \X Nat), ptr : Cell]
    BY <1>1, <2>1, <2>2
  <2>4. \A i \in 1 .. Len(chip'.writing) : FALSE
    BY <2>2, <2>3
  <2> QED
    BY <2>3, <2>4
<1>4. CASE Len(bytes) > 1
  <2> DEFINE w == PageWrite(chip.ptr, Tail(bytes))
             b == chip.ptr - (chip.ptr % PageSize)
  <2>1. Tail(bytes) \in Seq(Nat)
    BY <1>4
  <2>2. /\ w \in Seq(Cell \X Nat) /\ Len(w) = Len(Tail(bytes))
        /\ \A i \in 1 .. Len(w) : b <= w[i][1] /\ w[i][1] < b + PageSize
    BY <1>2, <2>1, PageWriteCells
  <2>3. chip' = [chip EXCEPT !.writing = w]
    BY <1>4 DEF StopWrite
  <2> HIDE DEF w
  <2>4. chip'.writing = w /\ chip'.ptr = chip.ptr /\ chip' \in [writing : Seq(Cell \X Nat), ptr : Cell]
    BY <1>1, <2>2, <2>3
  <2>5. ASSUME addr % PageSize = 0
        PROVE  /\ b \in Nat /\ (InPage(chip.ptr) => b = addr)
               /\ ~InPage(chip.ptr) => b + PageSize <= addr \/ addr + PageSize <= b
    BY <1>1, <1>2, <2>5, PageOfCell DEF InPage
  <2>6. ASSUME NEW i \in 1 .. Len(w) PROVE w[i][1] \in Nat
    <3>1. w[i] \in Cell \X Nat
      BY <2>2
    <3>2. w[i][1] \in Cell
      BY <3>1
    <3> QED
      BY <3>2, Sizes DEF Cell
  <2> HIDE DEF b
  <2>7. PageSize \in Nat /\ ~(Len(bytes) <= 1)
    BY <1>4, Sizes
  <2>8. ASSUME addr % PageSize = 0, InPage(chip.ptr), NEW i \in 1 .. Len(w) PROVE InPage(w[i][1])
    BY <2>5, <2>2, <2>8 DEF InPage
  <2>9. ASSUME addr % PageSize = 0, ~InPage(chip.ptr), NEW i \in 1 .. Len(w) PROVE ~InPage(w[i][1])
    <3> DEFINE x == w[i][1]
    <3>1. x \in Nat /\ b \in Nat /\ addr \in Nat /\ PageSize \in Nat /\ b <= x /\ x < b + PageSize
      BY <1>1, <2>5, <2>6, <2>7, <2>2, <2>9
    <3>2. b + PageSize <= addr \/ addr + PageSize <= b
      BY <2>5, <2>9
    <3> HIDE DEF x
    <3>3. ~(addr <= x /\ x < addr + PageSize)
      BY <3>1, <3>2
    <3> QED
      BY <3>3 DEF InPage, x
  <2> QED
    BY <2>4, <2>7, <2>8, <2>9 DEF InPage
<1> QED
  BY <1>3, <1>4

(* The invariant when a write ends: with all of its bytes, or with some and an error. *)
LEMMA WriteStops ==
    ASSUME EepInv, bus.st = "data", ~bus.rd, bus.index > 0, NEW bytes \in Seq(Nat), StopWrite(bytes),
           bus' \in Bus, bus'.st = "done", bus'.rd = bus.rd, bus'.count = bus.count, bus'.tx = bus.tx,
           bus'.error = OK => bytes = do.tx, Len(bytes) <= Len(do.tx),
           mem' = mem, cfg' = cfg, snum' = snum, pc' = pc, op' = op, addr' = addr, tmp' = tmp,
           buf' = buf, do' = do, status' = status
    PROVE  EepInv'
<1> USE DEF EepInv
<1>1. /\ chip' \in [writing : Seq(Cell \X Nat), ptr : Cell] /\ chip'.ptr = chip.ptr
      /\ Len(bytes) <= 1 => chip'.writing = <<>>
      /\ addr % PageSize = 0 /\ InPage(chip.ptr) =>
            \A i \in 1 .. Len(chip'.writing) : InPage(chip'.writing[i][1])
      /\ addr % PageSize = 0 /\ ~InPage(chip.ptr) =>
            \A i \in 1 .. Len(chip'.writing) : ~InPage(chip'.writing[i][1])
  BY StopCells
<1>2. chip.ptr = do.tx[1] % Size /\ pc \in {"load", "write", "poll"} /\ op # "saved"
  BY DEF BusInv, DoInv, SavedInv
<1>3. EepType'
  BY <1>1 DEF EepType
<1>4. DoInv'
  BY DEF DoInv, Returned
<1>5. BusInv'
  <2>1. SUFFICES ASSUME pc = "poll", bus'.error = OK PROVE chip'.writing = <<>> /\ chip'.ptr = addr
    BY DEF BusInv
  <2>2. do.tx = <<addr>> /\ bytes = <<addr>>
    BY <2>1 DEF DoInv
  <2>3. addr % Size = addr
    <3>1. addr \in Nat /\ addr + PageSize <= Size /\ Size \in Nat /\ PageSize \in Nat \ {0}
      BY <2>1, Sizes DEF PageInv, EepType
    <3> QED
      BY <3>1
  <2> QED
    BY <1>1, <1>2, <2>2, <2>3
<1>6. ReadInv'
  BY DEF ReadInv
<1>7. PageInv' /\ SavedInv'
  BY <1>2 DEF PageInv, SavedInv
<1>8. SaveInv'
  <2>1. SUFFICES ASSUME pc \in {"write", "poll"}, op = "save", addr > PageSize PROVE Intact' \/ Misdirected'
    BY DEF SaveInv
  <2>2. addr % PageSize = 0
    BY <2>1 DEF PageInv
  <2>3. chip.writing = <<>>
    BY DEF BusInv
  <2>4. CASE pc = "poll"
    <3>0. do.tx = <<addr>>
      BY <2>4 DEF DoInv
    <3>1. Len(do.tx) = 1 /\ Len(bytes) \in Nat
      BY <3>0
    <3>2. chip'.writing = <<>>
      BY <1>1, <3>1
    <3> QED
      BY <2>1, <2>3, <2>4, <3>2 DEF SaveInv, Intact, Misdirected, InPage
  <2>5. CASE pc = "write"
    <3>1. CASE Intact
      BY <2>2, <2>5, <3>1, <1>1, <1>2 DEF Intact, InPage
    <3>2. CASE Misdirected
      BY <2>2, <2>5, <3>2, <1>1, <1>2 DEF Misdirected, InPage
    <3> QED
      BY <2>1, <3>1, <3>2 DEF SaveInv
  <2> QED
    BY <2>1, <2>4, <2>5
<1> QED
  BY <1>3, <1>4, <1>5, <1>6, <1>7, <1>8

(* All bytes are sent. *)
LEMMA TransmittedInv == EepInv /\ EventTransmitted => EepInv'
<1> SUFFICES ASSUME EepInv, EventTransmitted PROVE EepInv'
  OBVIOUS
<1>1. /\ bus.st = "data" /\ ~bus.rd /\ ~bus.itbuf /\ StopWrite(bus.tx)
      /\ bus' = Finish([bus EXCEPT !.index = bus.index + 1])
      /\ mem' = mem /\ cfg' = cfg /\ snum' = snum /\ pc' = pc /\ op' = op
      /\ addr' = addr /\ tmp' = tmp /\ buf' = buf /\ do' = do /\ status' = status
  BY DEF EventTransmitted, page, EepInv, EepType, Bus
<1>2. /\ bus.index = bus.count /\ bus.tx = do.tx /\ bus.count = Len(do.tx) /\ bus.index > 0
      /\ bus.tx \in Seq(Nat) /\ bus \in Bus /\ bus.index \in Nat
  BY <1>1 DEF EepInv, BusInv, DoInv, EepType, Bus
<1>3. bus' = [bus EXCEPT !.index = bus.index + 1, !.st = "done"]
  BY <1>1, <1>2 DEF Finish, Bus
<1>5. bus.index + 1 \in Nat
  BY <1>2
<1>4. /\ bus' \in Bus /\ bus'.st = "done" /\ bus'.rd = bus.rd /\ bus'.count = bus.count
      /\ bus'.tx = bus.tx
  <2> DEFINE i == bus.index + 1
  <2>1. bus' = [bus EXCEPT !.index = i, !.st = "done"] /\ i \in Nat /\ bus \in Bus
    BY <1>2, <1>3, <1>5
  <2> HIDE DEF i
  <2> QED
    BY <2>1 DEF Bus
<1> QED
  BY <1>1, <1>2, <1>4, WriteStops

(* An error ends the transfer; the chip may still write what it has. *)
LEMMA ErrorInv == EepInv /\ EventError => EepInv'
<1> SUFFICES ASSUME EepInv, EventError PROVE EepInv'
  OBVIOUS
<1>1. /\ bus.st \in {"addr", "data"}
      /\ mem' = mem /\ cfg' = cfg /\ snum' = snum /\ pc' = pc /\ op' = op
      /\ addr' = addr /\ tmp' = tmp /\ buf' = buf /\ do' = do /\ status' = status
  BY DEF EventError, page
<1>2. PICK e \in {"NACK", "FAULT", "AGAIN"} : bus' = [bus EXCEPT !.st = "done", !.error = e]
  BY DEF EventError
<1>3. /\ bus' \in Bus /\ bus'.st = "done" /\ bus'.rd = bus.rd /\ bus'.count = bus.count
      /\ bus'.tx = bus.tx /\ bus'.error # OK
  BY <1>2 DEF EepInv, EepType, Bus, OK
<1>4. CASE chip' = chip
  <2> USE DEF EepInv
  <2>1. EepType' /\ DoInv'
    BY <1>1, <1>3, <1>4 DEF EepType, DoInv, Returned
  <2>2. BusInv' /\ ReadInv'
    BY <1>1, <1>3, <1>4 DEF BusInv, ReadInv
  <2>3. PageInv' /\ SavedInv'
    BY <1>1, <1>3, <1>4 DEF PageInv, SavedInv
  <2>4. SaveInv'
    BY <1>1, <1>3, <1>4 DEF SaveInv, Intact, Misdirected, InPage
  <2> QED
    BY <2>1, <2>2, <2>3, <2>4
<1>5. CASE ~bus.rd /\ bus.index > 1 /\ StopWrite(SubSeq(bus.tx, 1, bus.index))
  <2>1. bus.st = "data"
    BY <1>1, <1>5 DEF EepInv, BusInv
  <2>2. /\ bus.tx = do.tx /\ bus.index <= Len(do.tx) /\ do.tx \in Seq(Nat) /\ bus.index \in Nat
    BY <2>1, <1>5 DEF EepInv, BusInv, DoInv, EepType, Bus, Do
  <2>3. SubSeq(bus.tx, 1, bus.index) \in Seq(Nat) /\ Len(SubSeq(bus.tx, 1, bus.index)) = bus.index
    BY <2>2, <1>5
  <2>4. bus.index > 0
    BY <2>2, <1>5
  <2> DEFINE bytes == SubSeq(bus.tx, 1, bus.index)
  <2>5. bytes \in Seq(Nat) /\ Len(bytes) <= Len(do.tx) /\ StopWrite(bytes)
    BY <2>2, <2>3, <1>5
  <2> HIDE DEF bytes
  <2> QED
    BY <1>1, <1>3, <1>5, <2>1, <2>4, <2>5, WriteStops
<1> QED
  BY <1>4, <1>5 DEF EventError

(* The write cycle ends, with or without effect. *)
LEMMA CycleInv == EepInv /\ WriteCycleEnds => EepInv'
<1> SUFFICES ASSUME EepInv, WriteCycleEnds PROVE EepInv'
  OBVIOUS
<1> USE DEF EepInv
<1>1. /\ chip.writing # <<>> /\ chip' = [chip EXCEPT !.writing = <<>>]
      /\ mem' = Written(Range(chip.writing), mem) \/ mem' = mem
      /\ bus' = bus /\ cfg' = cfg /\ snum' = snum /\ pc' = pc /\ op' = op
      /\ addr' = addr /\ tmp' = tmp /\ buf' = buf /\ do' = do /\ status' = status
  BY DEF WriteCycleEnds, page
<1> DEFINE cells == Range(chip.writing)
<1>2. chip.writing \in Seq(Cell \X Nat) /\ mem \in [Cell -> Nat]
  BY DEF EepType
<1>3. cells \in SUBSET (Cell \X Nat) /\ cells = {chip.writing[i] : i \in 1 .. Len(chip.writing)}
  <2> DEFINE w == chip.writing
  <2>1. w \in Seq(Cell \X Nat)
    BY <1>2
  <2> HIDE DEF w
  <2>2. DOMAIN w = 1 .. Len(w) /\ \A i \in 1 .. Len(w) : w[i] \in Cell \X Nat
    BY <2>1
  <2>3. Range(w) = {w[i] : i \in 1 .. Len(w)}
    BY <2>2 DEF Range
  <2>4. Range(w) \in SUBSET (Cell \X Nat)
    BY <2>2, <2>3
  <2> QED
    BY <2>3, <2>4 DEF w
<1>4. /\ mem' \in [Cell -> Nat]
      /\ \A a \in Cell : (\A i \in 1 .. Len(chip.writing) : chip.writing[i][1] # a) => mem'[a] = mem[a]
  <2>1. CASE mem' = mem
    BY <1>2, <2>1
  <2>2. CASE mem' = Written(cells, mem)
    <3> HIDE DEF cells
    <3>1. /\ mem' \in [Cell -> Nat]
          /\ \A a \in Cell : (\A c \in cells : c[1] # a) => mem'[a] = mem[a]
      BY <1>2, <1>3, <2>2, WrittenCells
    <3> QED
      BY <1>3, <3>1
  <2> QED
    BY <1>1, <2>1, <2>2
<1>5. chip' \in [writing : Seq(Cell \X Nat), ptr : Cell] /\ chip'.writing = <<>> /\ chip'.ptr = chip.ptr
  <2>1. <<>> \in Seq(Cell \X Nat)
    OBVIOUS
  <2> QED
    BY <1>1, <2>1 DEF EepType
<1>6. bus.st # "data" /\ op # "saved"
  BY <1>1 DEF BusInv, SavedInv
<1>7. EepType' /\ DoInv'
  BY <1>1, <1>4, <1>5 DEF EepType, DoInv, Returned
<1>8. BusInv'
  BY <1>1, <1>5 DEF BusInv
<1>9. ReadInv'
  BY <1>1, <1>5 DEF ReadInv, ReadBack
<1>10. PageInv' /\ SavedInv'
  BY <1>1, <1>6 DEF PageInv, SavedInv
<1>11. SaveInv'
  <2>1. SUFFICES ASSUME pc \in {"write", "poll"}, op = "save", addr > PageSize PROVE Intact' \/ Misdirected'
    BY <1>1 DEF SaveInv
  <2>2. /\ addr \in Nat /\ PageSize \in Nat \ {0} /\ Size \in Nat /\ addr + PageSize <= Size
        /\ Len(<<>>) = 0
    BY <2>1, Sizes DEF PageInv, EepType
  <2>0. \A i \in 1 .. Len(chip'.writing) : FALSE
    BY <1>5, <2>2
  <2>3. CASE Intact
    <3>1. ASSUME NEW a \in PageSize .. addr - 1 PROVE mem'[a] = cfg[a - PageSize + 1]
      <4>1. a \in Cell /\ ~InPage(a)
        BY <2>2 DEF Cell, InPage
      <4>2. mem'[a] = mem[a]
        BY <1>4, <4>1, <2>3 DEF Intact
      <4> QED
        BY <4>2, <2>3 DEF Intact
    <3> QED
      BY <1>1, <2>0, <2>3, <3>1 DEF Intact, InPage
  <2>4. CASE Misdirected
    <3>1. ASSUME NEW i \in 1 .. PageSize PROVE mem'[addr + i - 1] = mem[addr + i - 1]
      <4>1. addr + i - 1 \in Cell /\ InPage(addr + i - 1)
        BY <2>2 DEF Cell, InPage
      <4> QED
        BY <1>4, <4>1, <2>4 DEF Misdirected
    <3>2. mem'[addr] = mem[addr]
      <4>1. addr \in Cell /\ InPage(addr)
        BY <2>2 DEF Cell, InPage
      <4> QED
        BY <1>4, <4>1, <2>4 DEF Misdirected
    <3> QED
      BY <1>1, <2>0, <2>4, <3>1, <3>2 DEF Misdirected, InPage
  <2> QED
    BY <2>1, <2>3, <2>4 DEF SaveInv
<1> QED
  BY <1>7, <1>8, <1>9, <1>10, <1>11

(* Bytes put into a buffer. *)
LEMMA PutCells ==
    ASSUME NEW n \in Nat, NEW s \in [1 .. n -> Nat], NEW at \in Int, NEW bytes \in Seq(Nat)
    PROVE  /\ Put(s, at, bytes) \in [1 .. n -> Nat]
           /\ \A k \in 1 .. n : Put(s, at, bytes)[k] =
                 IF k > at /\ k <= at + Len(bytes) THEN bytes[k - at] ELSE s[k]
<1> DEFINE V(k) == IF k > at /\ k <= at + Len(bytes) THEN bytes[k - at] ELSE s[k]
<1>1. Put(s, at, bytes) = [k \in 1 .. n |-> V(k)]
  BY DEF Put
<1>2. ASSUME NEW k \in 1 .. n PROVE V(k) \in Nat
  <2>1. k > at /\ k <= at + Len(bytes) => k - at \in 1 .. Len(bytes)
    OBVIOUS
  <2> QED
    BY <2>1
<1>3. \A k \in 1 .. n : V(k) = IF k > at /\ k <= at + Len(bytes) THEN bytes[k - at] ELSE s[k]
  OBVIOUS
<1> HIDE DEF V
<1> QED
  BY <1>1, <1>2, <1>3

(* The next bytes of the chip. *)
LEMMA ReceivedCells ==
    ASSUME EepType, NEW n \in {1, 2}
    PROVE  /\ Received(n) \in Seq(Nat) /\ Len(Received(n)) = n
           /\ \A i \in 1 .. n : Received(n)[i] = mem[(chip.ptr + i - 1) % Size]
<1> DEFINE V(i) == mem[(chip.ptr + i - 1) % Size]
<1>1. ASSUME NEW i \in 1 .. n PROVE V(i) \in Nat
  <2>0. chip.ptr \in Cell /\ mem \in [Cell -> Nat]
    BY DEF EepType
  <2>1. chip.ptr \in Nat /\ Size \in Nat \ {0} /\ mem \in [Cell -> Nat]
    BY <2>0, Sizes DEF Cell
  <2>2. chip.ptr + i - 1 \in Int
    BY <2>1
  <2>3. (chip.ptr + i - 1) % Size \in 0 .. Size - 1
    BY <2>1, <2>2, DivMod
  <2> QED
    BY <2>1, <2>3 DEF Cell
<1>2. Received(n) = [i \in 1 .. n |-> V(i)]
  BY DEF Received
<1>3. n \in Nat
  OBVIOUS
<1>4. \A i \in 1 .. n : V(i) = mem[(chip.ptr + i - 1) % Size]
  OBVIOUS
<1> HIDE DEF V
<1>5. [i \in 1 .. n |-> V(i)] \in Seq(Nat) /\ Len([i \in 1 .. n |-> V(i)]) = n
  BY <1>1, <1>3
<1> QED
  BY <1>1, <1>2, <1>4, <1>5

(* The invariant when bytes are received: with more to come, or with the last. *)
LEMMA ReadGoesOn ==
    ASSUME EepInv, bus.st = "data", bus.rd, NEW n \in {1, 2}, Store(n), bus.index + n <= PageSize,
           bus' \in Bus, bus'.rd = bus.rd, bus'.count = bus.count, bus'.tx = bus.tx, bus'.error = bus.error,
           \/ /\ bus'.st = "data" /\ bus'.index = bus.index + n
              /\ bus'.itbuf => bus'.index + 4 <= PageSize \/ bus'.index + 1 = PageSize
              /\ ~bus'.itbuf => bus'.index + 3 = PageSize
           \/ bus'.st = "done" /\ bus'.index = PageSize + 1 /\ bus.index + n = PageSize,
           mem' = mem, pc' = pc, op' = op, addr' = addr, buf' = buf, do' = do, status' = status
    PROVE  EepInv'
<1> USE DEF EepInv
<1> DEFINE rec == Received(n)
           x == bus.index
           ptr == chip.ptr
           at == addr - PageSize + x
<1>1. rec \in Seq(Nat) /\ Len(rec) = n /\ \A i \in 1 .. n : rec[i] = mem[(ptr + i - 1) % Size]
  BY ReceivedCells
<1>2. /\ chip' = [chip EXCEPT !.ptr = (ptr + n) % Size]
      /\ tmp'  = IF do.dest = "tmp" THEN Put(tmp, x, rec) ELSE tmp
      /\ snum' = IF do.dest = "snum" THEN Put(snum, x, rec) ELSE snum
      /\ cfg'  = IF do.dest = "cfg" THEN Put(cfg, at, rec) ELSE cfg
  BY DEF Store
<1> HIDE DEF rec
<1>3. /\ chip.writing = <<>> /\ pc \in {"load", "poll"} /\ op # "saved"
      /\ pc = "poll" => do.dest = "tmp"
  BY DEF BusInv, DoInv, SavedInv
<1>4. /\ addr \in Nat /\ x \in Nat /\ PageSize \in Nat \ {0} /\ Size \in Nat \ {0} /\ CfgSize \in Nat
      /\ ptr \in Nat /\ n \in Nat /\ n >= 1 /\ x + n <= PageSize
      /\ tmp \in [1 .. PageSize + 1 -> Nat] /\ snum \in [1 .. PageSize -> Nat]
      /\ cfg \in [1 .. CfgSize -> Nat]
  <2>1. /\ PageSize \in Nat \ {0} /\ Size \in Nat \ {0} /\ CfgSize \in Nat
    BY Sizes
  <2>2. chip.ptr \in Cell /\ bus.index \in Nat
    BY DEF EepType, Bus
  <2>3. chip.ptr \in Nat
    BY <2>1, <2>2 DEF Cell
  <2>4. n \in Nat /\ n >= 1
    OBVIOUS
  <2> QED
    BY <2>1, <2>2, <2>3, <2>4 DEF EepType
<1>5. (ptr + n) % Size \in Cell
  <2> HIDE DEF ptr
  <2>1. ptr + n \in Int /\ Size \in Nat \ {0}
    BY <1>4
  <2>2. (ptr + n) % Size \in 0 .. Size - 1
    BY <2>1, DivMod
  <2> QED
    BY <2>2 DEF Cell
<1>6. /\ chip' \in [writing : Seq(Cell \X Nat), ptr : Cell] /\ chip'.writing = <<>>
      /\ chip'.ptr = (ptr + n) % Size
  BY <1>2, <1>3, <1>5 DEF EepType
<1>7. pc = "poll" => /\ ptr = (addr + x) % Size
                     /\ \A i \in 1 .. x : i <= PageSize => tmp[i] = mem[addr + i - 1]
  BY DEF ReadInv, ReadBack
<1>8. SUFFICES ASSUME pc = "poll" => /\ \A i \in 1 .. x + n : tmp'[i] = mem[addr + i - 1]
                                    /\ chip'.ptr = (addr + (x + n)) % Size,
                      tmp' \in [1 .. PageSize + 1 -> Nat], snum' \in [1 .. PageSize -> Nat],
                      cfg' \in [1 .. CfgSize -> Nat]
               PROVE  EepInv'
  <2>1. ASSUME pc = "poll"
        PROVE  /\ \A i \in 1 .. x + n : tmp'[i] = mem[addr + i - 1]
               /\ chip'.ptr = (addr + (x + n)) % Size
    <3> HIDE DEF x, ptr
    <3>1. addr + PageSize <= Size
      BY <2>1 DEF PageInv
    <3>2. \A v \in Nat : v < Size => v % Size = v
      <4>1. Size \in Nat \ {0}
        BY <1>4
      <4> QED
        BY <4>1, ModSmall
    <3>3. addr + x \in Nat /\ addr + x < Size
      BY <1>4, <3>1
    <3>4. ptr = addr + x
      BY <1>7, <2>1, <3>2, <3>3
    <3>5. ASSUME NEW i \in 1 .. n PROVE rec[i] = mem[addr + x + i - 1]
      <4>0. /\ addr \in Nat /\ x \in Nat /\ PageSize \in Nat /\ Size \in Nat /\ x + n <= PageSize
            /\ n \in Nat /\ i \in Nat /\ 1 <= i /\ i <= n
        BY <1>4
      <4>1. ptr + i - 1 = addr + x + i - 1 /\ addr + x + i - 1 \in Nat /\ addr + x + i - 1 < Size
        BY ONLY <4>0, <3>1, <3>4
      <4> QED
        BY <1>1, <3>2, <4>1
    <3>6. ASSUME NEW i \in 1 .. x + n PROVE tmp'[i] = mem[addr + i - 1]
      <4>1. i \in 1 .. PageSize + 1 /\ PageSize + 1 \in Nat /\ x \in Int
        BY <1>4
      <4>2. tmp' = Put(tmp, x, rec)
        BY <1>2, <1>3, <2>1
      <4>3. tmp'[i] = IF i > x /\ i <= x + Len(rec) THEN rec[i - x] ELSE tmp[i]
        <5>1. tmp \in [1 .. PageSize + 1 -> Nat] /\ rec \in Seq(Nat)
          BY <1>1, <1>4
        <5>2. \A k \in 1 .. PageSize + 1 : Put(tmp, x, rec)[k] =
                 IF k > x /\ k <= x + Len(rec) THEN rec[k - x] ELSE tmp[k]
          BY <4>1, <5>1, PutCells
        <5> QED
          BY <4>1, <4>2, <5>2
      <4>4. CASE i > x
        <5>1. i - x \in 1 .. n /\ addr + x + (i - x) - 1 = addr + i - 1 /\ i <= x + Len(rec)
          BY <1>1, <1>4, <4>4
        <5> QED
          BY <4>3, <4>4, <5>1, <3>5
      <4>5. CASE i <= x
        <5>1. i \in 1 .. x /\ ~(i > x) /\ i <= PageSize
          BY <1>4, <4>5
        <5> QED
          BY <4>3, <5>1, <1>7, <2>1
      <4> QED
        BY <1>4, <4>4, <4>5
    <3>7. addr + x + n = addr + (x + n)
      BY <1>4
    <3> QED
      BY <1>6, <3>4, <3>6, <3>7
  <2>2. PageSize + 1 \in Nat /\ PageSize \in Nat /\ at \in Int /\ x \in Int
    BY <1>4
  <2> HIDE DEF x, at
  <2>3. Put(tmp, x, rec) \in [1 .. PageSize + 1 -> Nat]
    BY <1>1, <1>4, <2>2, PutCells
  <2>4. Put(snum, x, rec) \in [1 .. PageSize -> Nat]
    BY <1>1, <1>4, <2>2, PutCells
  <2>5. Put(cfg, at, rec) \in [1 .. CfgSize -> Nat]
    BY <1>1, <1>4, <2>2, PutCells
  <2> QED
    BY <1>2, <1>4, <2>1, <2>3, <2>4, <2>5
<1>9. EepType'
  BY <1>6, <1>8 DEF EepType
<1>10. DoInv' /\ BusInv'
  BY <1>3, <1>6 DEF DoInv, Returned, BusInv
<1>11. PageInv' /\ SavedInv'
  BY <1>2, <1>3, <1>6 DEF PageInv, SavedInv
<1>12. SaveInv'
  <2>1. SUFFICES ASSUME pc = "poll", op = "save", addr > PageSize PROVE Intact' \/ Misdirected'
    BY <1>3 DEF SaveInv
  <2>2. cfg' = cfg /\ chip'.writing = chip.writing
    BY <1>2, <1>3, <1>6, <2>1
  <2> QED
    BY <2>1, <2>2 DEF SaveInv, Intact, Misdirected, InPage
<1>13. ReadInv'
  <2>1. pc = "poll" => \A i \in 1 .. x + n : i <= PageSize => tmp'[i] = mem[addr + i - 1]
    BY <1>8
  <2> QED
    BY <1>3, <1>6, <1>8, <2>1 DEF ReadInv, ReadBack
<1> QED
  BY <1>9, <1>10, <1>11, <1>12, <1>13

(* Two bytes. *)
LEMMA ReceivedTwoInv == EepInv /\ EventReceivedTwo => EepInv'
<1> SUFFICES ASSUME EepInv, EventReceivedTwo PROVE EepInv'
  OBVIOUS
<1>1. /\ bus.st = "data" /\ bus.rd /\ ~bus.itbuf /\ Store(2)
      /\ mem' = mem /\ pc' = pc /\ op' = op /\ addr' = addr /\ buf' = buf /\ do' = do /\ status' = status
  BY DEF EventReceivedTwo
<1>2. /\ bus \in Bus /\ bus.count = PageSize /\ bus.index + 3 = PageSize /\ PageSize \in Nat /\ PageSize >= 4
      /\ bus.index \in Nat
  BY <1>1, Sizes DEF EepInv, EepType, Bus, DoInv, BusInv
<1> DEFINE i == bus.index + 2
<1>3. bus' = Finish([bus EXCEPT !.index = i, !.itbuf = TRUE])
  BY <1>1, <1>2 DEF EventReceivedTwo
<1>4. i \in Nat /\ i + 1 = PageSize
  BY <1>2
<1>5. bus' = [bus EXCEPT !.index = i, !.itbuf = TRUE]
  <2> HIDE DEF i
  <2> QED
    BY <1>2, <1>3, <1>4 DEF Finish, Bus
<1>6. /\ bus' \in Bus /\ bus'.st = "data" /\ bus'.index = i /\ bus'.itbuf /\ bus'.rd = bus.rd
      /\ bus'.count = bus.count /\ bus'.tx = bus.tx /\ bus'.error = bus.error
  <2> HIDE DEF i
  <2> QED
    BY <1>1, <1>2, <1>4, <1>5 DEF Bus
<1>7. bus.index + 2 <= PageSize
  BY <1>2
<1> QED
  BY <1>1, <1>4, <1>6, <1>7, ReadGoesOn

(* One byte. *)
LEMMA RxneInv == EepInv /\ EventRxne => EepInv'
<1> SUFFICES ASSUME EepInv, EventRxne PROVE EepInv'
  OBVIOUS
<1>1. /\ bus.st = "data" /\ bus.rd /\ bus.itbuf /\ Store(1)
      /\ mem' = mem /\ pc' = pc /\ op' = op /\ addr' = addr /\ buf' = buf /\ do' = do /\ status' = status
  BY DEF EventRxne
<1>2. /\ bus \in Bus /\ bus.count = PageSize /\ PageSize \in Nat /\ PageSize >= 4 /\ bus.index \in Nat
      /\ bus.index + 4 <= PageSize \/ bus.index + 1 = PageSize
  BY <1>1, Sizes DEF EepInv, EepType, Bus, DoInv, BusInv
<1> DEFINE i == bus.index + 1
           j == IF i = PageSize THEN i + 1 ELSE i
           t == (i + 3 # PageSize)
<1>3. bus' = Finish([bus EXCEPT !.index = j, !.itbuf = t])
  BY <1>1, <1>2 DEF EventRxne
<1>4. i \in Nat /\ j \in Nat /\ t \in BOOLEAN /\ i <= PageSize
  BY <1>2
<1>5. bus' = IF j = PageSize + 1 THEN [bus EXCEPT !.index = j, !.itbuf = t, !.st = "done"]
             ELSE [bus EXCEPT !.index = j, !.itbuf = t]
  <2> HIDE DEF j, t
  <2> QED
    BY <1>2, <1>3, <1>4 DEF Finish, Bus
<1>6. /\ bus' \in Bus /\ bus'.index = j /\ (bus'.itbuf <=> t) /\ bus'.rd = bus.rd
      /\ bus'.st = IF j = PageSize + 1 THEN "done" ELSE "data"
      /\ bus'.count = bus.count /\ bus'.tx = bus.tx /\ bus'.error = bus.error
  <2> HIDE DEF j, t
  <2> QED
    BY <1>1, <1>2, <1>4, <1>5 DEF Bus
<1>7. \/ /\ bus'.st = "data" /\ bus'.index = bus.index + 1
         /\ bus'.itbuf => bus'.index + 4 <= PageSize \/ bus'.index + 1 = PageSize
         /\ ~bus'.itbuf => bus'.index + 3 = PageSize
      \/ bus'.st = "done" /\ bus'.index = PageSize + 1 /\ bus.index + 1 = PageSize
  BY <1>2, <1>6
<1> QED
  BY <1>1, <1>4, <1>6, <1>7, ReadGoesOn

-----------------------------------------------------------------------------
(* eeprom_do. *)

(* No transfer. *)
LEMMA Nothing ==
    /\ NoBus \in Bus /\ NoBus.st = "off" /\ NoBus.error = OK /\ NoBus.index = 0
    /\ NoDo \in Do
<1>1. <<>> \in Seq(Nat) /\ FALSE \in BOOLEAN
  OBVIOUS
<1> QED
  BY <1>1 DEF NoBus, NoDo, Bus, Do

(* A transfer that has just been started. *)
LEMMA NewTransfer ==
    ASSUME NEW rd \in BOOLEAN, NEW tx \in Seq(Nat), NEW count \in Nat, Transact(rd, tx, count)
    PROVE  /\ bus' \in Bus /\ bus'.st = "sb" /\ (bus'.rd <=> rd) /\ bus'.tx = tx /\ bus'.count = count
           /\ bus'.index = 0 /\ bus'.error = OK
<1>1. bus' = [NoBus EXCEPT !.st = "sb", !.rd = rd, !.tx = tx, !.count = count]
  BY DEF Transact
<1> QED
  BY <1>1, Nothing DEF Bus

(* A call that has just been made. *)
LEMMA NewDo ==
    ASSUME NEW tx \in Seq(Nat), NEW dest \in {"none", "snum", "cfg", "tmp"}, StartDo(tx, dest)
    PROVE  /\ bus' \in Bus /\ bus'.st = "sb" /\ ~bus'.rd /\ bus'.tx = tx /\ bus'.count = Len(tx)
           /\ bus'.index = 0 /\ bus'.error = OK
           /\ do' \in Do /\ do'.tx = tx /\ do'.dest = dest /\ ~do'.reading
<1>1. /\ do' = [tx |-> tx, dest |-> dest, reading |-> FALSE, retries |-> Retries]
      /\ Transact(FALSE, tx, Len(tx))
  BY DEF StartDo
<1>2. Retries \in Int /\ FALSE \in BOOLEAN /\ Len(tx) \in Nat
  BY RetryAssumption
<1>3. do' \in Do /\ do'.tx = tx /\ do'.dest = dest /\ ~do'.reading
  BY <1>1, <1>2 DEF Do
<1> QED
  BY <1>1, <1>2, <1>3, NewTransfer

(* The thread wakes up: again, on to the reading, or back to the caller. *)
LEMMA WakesInv == EepInv /\ DoWakes => EepInv'
<1> SUFFICES ASSUME EepInv, DoWakes PROVE EepInv'
  OBVIOUS
<1> USE DEF EepInv
<1>1. /\ bus.st = "done" /\ mem' = mem /\ chip' = chip /\ cfg' = cfg /\ snum' = snum /\ pc' = pc /\ op' = op
      /\ addr' = addr /\ tmp' = tmp /\ buf' = buf
  BY DEF DoWakes, page
<1>2. /\ do \in Do /\ bus \in Bus /\ do.tx \in Seq(Nat) /\ Len(do.tx) \in Nat /\ PageSize \in Nat /\ PageSize >= 4
      /\ pc \in {"load", "write", "poll"} /\ op # "saved"
  BY <1>1, Sizes DEF EepType, Do, DoInv, SavedInv
<1>3. CASE bus' = NoBus /\ do' = NoDo /\ (status' = OK => bus.error = OK /\ (pc = "poll" => bus.rd))
  <2>1. EepType' /\ DoInv'
    BY <1>1, <1>3, Nothing DEF EepType, DoInv, Returned
  <2>2. BusInv' /\ PageInv' /\ SavedInv'
    BY <1>1, <1>2, <1>3, Nothing DEF BusInv, PageInv, SavedInv
  <2>3. ReadInv'
    BY <1>1, <1>3, Nothing DEF ReadInv, ReadBack
  <2>4. SaveInv'
    BY <1>1, <1>3, Nothing DEF SaveInv, Intact, Misdirected, InPage
  <2> QED
    BY <2>1, <2>2, <2>3, <2>4
<1>4. ASSUME NEW n \in Int, DoRetry(n), bus.error # OK
      PROVE  EepInv'
  <2>1. CASE n = 0
    BY <1>3, <1>4, <2>1 DEF DoRetry
  <2>2. CASE n # 0
    <3>1. /\ do' = [do EXCEPT !.retries = n, !.reading = FALSE] /\ status' = status
          /\ Transact(FALSE, do.tx, Len(do.tx))
      BY <1>4, <2>2 DEF DoRetry
    <3>2. /\ bus' \in Bus /\ bus'.st = "sb" /\ ~bus'.rd /\ bus'.tx = do.tx /\ bus'.count = Len(do.tx)
          /\ bus'.index = 0 /\ bus'.error = OK
      BY <1>2, <3>1, NewTransfer
    <3>3. do' \in Do /\ do'.tx = do.tx /\ do'.dest = do.dest /\ ~do'.reading
      BY <1>2, <3>1 DEF Do
    <3>4. EepType' /\ DoInv'
      BY <1>1, <3>2, <3>3 DEF EepType, DoInv, Returned
    <3>5. BusInv' /\ PageInv' /\ SavedInv' /\ ReadInv'
      BY <1>1, <1>2, <3>2, <3>3 DEF BusInv, PageInv, SavedInv, ReadInv
    <3>6. SaveInv'
      BY <1>1, <3>2, <3>3 DEF SaveInv, Intact, Misdirected, InPage
    <3> QED
      BY <3>4, <3>5, <3>6
  <2> QED
    BY <2>1, <2>2
<1>5. CASE bus.error = OK /\ do.dest # "none" /\ ~do.reading
  <2>1. do' = [do EXCEPT !.reading = TRUE] /\ Transact(TRUE, <<>>, PageSize) /\ status' = status
    BY <1>5 DEF DoWakes, DoRetry, OK
  <2>0. <<>> \in Seq(Nat) /\ TRUE \in BOOLEAN
    OBVIOUS
  <2>2. /\ bus' \in Bus /\ bus'.st = "sb" /\ bus'.rd /\ bus'.count = PageSize
        /\ bus'.index = 0 /\ bus'.error = OK
    BY <1>2, <2>0, <2>1, NewTransfer
  <2>3. do' \in Do /\ do'.tx = do.tx /\ do'.dest = do.dest /\ do'.reading
    BY <1>2, <2>1 DEF Do
  <2>4. EepType' /\ DoInv'
    BY <1>1, <1>5, <2>2, <2>3 DEF EepType, DoInv, Returned
  <2>5. BusInv' /\ PageInv' /\ SavedInv'
    BY <1>1, <1>2, <2>2, <2>3 DEF BusInv, PageInv, SavedInv
  <2>6. ReadInv'
    <3>1. SUFFICES ASSUME pc = "poll"
                   PROVE  chip.writing = <<>> /\ chip.ptr = (addr + 0) % Size
      <4>1. \A i \in 1 .. 0 : FALSE
        OBVIOUS
      <4> QED
        BY <1>1, <2>2, <4>1 DEF ReadInv, ReadBack
    <3>2. chip.writing = <<>> /\ chip.ptr = addr
      BY <1>1, <1>5, <3>1 DEF BusInv, DoInv
    <3>3. addr \in Nat /\ addr < Size /\ Size \in Nat \ {0}
      BY <3>1, <1>2, Sizes DEF PageInv, EepType
    <3>4. addr + 0 = addr /\ addr % Size = addr
      BY <3>3, ModSmall
    <3> QED
      BY <3>2, <3>4
  <2>7. SaveInv'
    BY <1>1, <1>5, <2>2, <2>3 DEF SaveInv, Intact, Misdirected, InPage, DoInv
  <2> QED
    BY <2>4, <2>5, <2>6, <2>7
<1>6. CASE bus.error = OK /\ ~(do.dest # "none" /\ ~do.reading)
  <2>1. bus' = NoBus /\ do' = NoDo /\ status' = OK
    BY <1>6 DEF DoWakes, OK
  <2> QED
    BY <1>1, <1>3, <1>6, <2>1 DEF DoInv
<1>7. CASE bus.error # OK
  <2>1. DoRetry(do.retries) \/ DoRetry(do.retries - 1)
    BY <1>7 DEF DoWakes
  <2>2. do.retries \in Int /\ do.retries - 1 \in Int
    BY <1>2 DEF Do
  <2> QED
    BY <1>4, <1>7, <2>1, <2>2
<1> QED
  BY <1>5, <1>6, <1>7

-----------------------------------------------------------------------------
(* The main thread. *)

(* Whether the readback matches, cell by cell. *)
LEMMA MatchesCells ==
    ASSUME NEW t \in [1 .. PageSize + 1 -> Nat], NEW b \in [1 .. PageSize -> Nat]
    PROVE  Matches(t, b) <=> \A i \in 1 .. PageSize : t[i] = b[i]
<1>1. PageSize \in Nat
  BY Sizes
<1>2. t \in Seq(Nat) /\ Len(t) = PageSize + 1
  BY <1>1
<1>3. SubSeq(t, 1, PageSize) = [i \in 1 .. PageSize |-> t[i]]
  BY <1>1, <1>2
<1>4. b = [i \in 1 .. PageSize |-> b[i]]
  OBVIOUS
<1>5. Matches(t, b) <=> [i \in 1 .. PageSize |-> t[i]] = b
  BY <1>3 DEF Matches
<1>6. ASSUME [i \in 1 .. PageSize |-> t[i]] = b, NEW i \in 1 .. PageSize PROVE t[i] = b[i]
  BY <1>6
<1>7. ASSUME \A i \in 1 .. PageSize : t[i] = b[i] PROVE [i \in 1 .. PageSize |-> t[i]] = b
  BY <1>4, <1>7
<1> QED
  BY <1>5, <1>6, <1>7

(* Without a call under way nothing is on the bus. *)
LEMMA Rests == EepInv /\ pc \in {"off", "idle"} => bus.st = "off" /\ Returned
  BY DEF EepInv, DoInv

(* A call that has returned leaves the bus at rest. *)
LEMMA ReturnedRests == Returned => bus.st = "off"
  BY Nothing DEF Returned

(* A state in which no page is being written. *)
LEMMA NoPage ==
    ASSUME EepType', DoInv', BusInv', pc' \notin {"write", "poll"}, op' # "saved"
    PROVE  EepInv'
  BY DEF EepInv, ReadInv, PageInv, SaveInv, SavedInv

(* Power comes on. *)
LEMMA BootInv == EepInv /\ Boot => EepInv'
<1> SUFFICES ASSUME EepInv, Boot PROVE EepInv'
  OBVIOUS
<1>1. /\ pc' = "load" /\ op' = "boot" /\ addr' = 0 /\ StartDo(<<0>>, "snum") /\ mem' = mem /\ chip' = chip
      /\ tmp' = tmp /\ buf' = buf /\ cfg' = Zeros(CfgSize) /\ snum' = Zeros(PageSize)
  BY DEF Boot
<1>2. <<0>> \in Seq(Nat) /\ Len(<<0>>) = 1
  OBVIOUS
<1>3. /\ bus' \in Bus /\ bus'.st = "sb" /\ ~bus'.rd /\ bus'.tx = <<0>> /\ bus'.count = Len(<<0>>)
      /\ bus'.index = 0 /\ bus'.error = OK
      /\ do' \in Do /\ do'.tx = <<0>> /\ do'.dest = "snum" /\ ~do'.reading
  BY <1>1, <1>2, NewDo
<1>4. EepType'
  BY <1>1, <1>3, ConfigTypes DEF EepInv, EepType, Config
<1>5. DoInv' /\ BusInv'
  BY <1>1, <1>2, <1>3 DEF DoInv, BusInv, Returned
<1> QED
  BY <1>1, <1>4, <1>5, NoPage

(* The configuration as the firmware starts from it. *)
LEMMA LoadedType ==
    ASSUME NEW c \in Config, Loaded(c)
    PROVE  cfg' \in Config
<1>1. cfg' = [c EXCEPT ![Flags] = Clear(@, HoldoverTest), ![Hold] = IF @ = 0 THEN 1 ELSE @]
  BY DEF Loaded
<1>2. c[Flags] \in Nat
  BY Sizes DEF Config, Flags
<1>3. Clear(c[Flags], HoldoverTest) \in Nat
  BY <1>2, ClearNat DEF HoldoverTest
<1>4. Hold # Flags
  BY Sizes DEF Hold, Flags
<1>5. Hold \in 1 .. CfgSize => c[Hold] \in Nat
  BY DEF Config
<1> QED
  BY <1>1, <1>3, <1>4, <1>5 DEF Config

(* The next page is asked for, or the configuration is there. *)
LEMMA LoadInv == EepInv /\ LoadPage => EepInv'
<1> SUFFICES ASSUME EepInv, LoadPage PROVE EepInv'
  OBVIOUS
<1>1. /\ pc = "load" /\ Returned /\ mem' = mem /\ chip' = chip /\ snum' = snum /\ op' = op
      /\ tmp' = tmp /\ buf' = buf
  BY DEF LoadPage
<1>2. op # "saved" /\ bus.st = "off"
  BY <1>1, ReturnedRests DEF EepInv, SavedInv
<1>3. CASE addr' = addr + PageSize /\ StartDo(<<addr'>>, "cfg") /\ cfg' = cfg /\ pc' = pc
  <2>1. addr' \in Nat
    BY <1>3, Sizes DEF EepInv, EepType
  <2>2. <<addr'>> \in Seq(Nat) /\ Len(<<addr'>>) = 1
    BY <2>1
  <2>3. /\ bus' \in Bus /\ bus'.st = "sb" /\ ~bus'.rd /\ bus'.tx = <<addr'>> /\ bus'.count = Len(<<addr'>>)
        /\ bus'.index = 0 /\ bus'.error = OK
        /\ do' \in Do /\ do'.tx = <<addr'>> /\ do'.dest = "cfg" /\ ~do'.reading
    BY <1>3, <2>2, NewDo
  <2>4. EepType'
    BY <1>1, <1>3, <2>1, <2>3 DEF EepInv, EepType
  <2>5. DoInv' /\ BusInv'
    BY <1>1, <1>3, <2>2, <2>3 DEF DoInv, BusInv, Returned
  <2> QED
    BY <1>1, <1>2, <1>3, <2>4, <2>5, NoPage
<1>4. ASSUME NEW c \in Config, Loaded(c), addr' = addr, do' = do, bus' = bus
      PROVE  EepInv'
  <2>1. cfg' \in Config /\ pc' = "idle"
    BY <1>4, LoadedType DEF Loaded
  <2>2. EepType'
    BY <1>1, <1>4, <2>1 DEF EepInv, EepType, Config
  <2>3. DoInv' /\ BusInv'
    BY <1>1, <1>2, <1>4, <2>1 DEF EepInv, DoInv, BusInv, Returned
  <2> QED
    BY <1>1, <1>2, <2>1, <2>2, <2>3, NoPage
<1>5. cfg \in Config /\ Defaults \in Config
  BY ConfigTypes DEF EepInv, EepType, Config
<1> QED
  BY <1>3, <1>4, <1>5 DEF LoadPage

(* set stores a number into a cell. *)
LEMMA SetInv == EepInv /\ CmdSet => EepInv'
<1> SUFFICES ASSUME EepInv, CmdSet PROVE EepInv'
  OBVIOUS
<1>1. /\ pc = "idle" /\ mem' = mem /\ chip' = chip /\ snum' = snum /\ pc' = pc /\ op' = op /\ addr' = addr
      /\ tmp' = tmp /\ buf' = buf /\ do' = do /\ bus' = bus
  BY DEF CmdSet, page
<1>2. PICK s \in SetChoices : cfg' = [cfg EXCEPT ![s[1]] = s[2]]
  BY DEF CmdSet
<1>3. s[2] \in Nat
  BY SetAssumption
<1>4. EepType'
  BY <1>1, <1>2, <1>3 DEF EepInv, EepType
<1>5. DoInv' /\ BusInv' /\ op' # "saved"
  BY <1>1, Rests DEF EepInv, DoInv, BusInv, Returned, SavedInv
<1> QED
  BY <1>1, <1>4, <1>5, NoPage

(* A reset, and what it may leave of a page being written. *)
LEMMA ResetInv == EepInv /\ Reset => EepInv'
<1> SUFFICES ASSUME EepInv, Reset PROVE EepInv'
  OBVIOUS
<1>1. /\ pc # "off" /\ pc' = "off" /\ bus' = NoBus /\ do' = NoDo /\ PageOver
      /\ cfg' = cfg /\ snum' = snum /\ op' = op
  BY DEF Reset
<1>2. op' # "saved"
  BY <1>1 DEF EepInv, SavedInv
<1>3. mem' \in [Cell -> Nat] /\ chip' \in [writing : Seq(Cell \X Nat), ptr : Cell]
  <2>1. CASE mem' = mem /\ chip' = chip
    BY <2>1 DEF EepInv, EepType
  <2>2. ASSUME NEW done \in SUBSET Range(chip.writing), mem' = Written(done, mem),
               chip' = [chip EXCEPT !.writing = <<>>]
        PROVE  mem' \in [Cell -> Nat] /\ chip' \in [writing : Seq(Cell \X Nat), ptr : Cell]
    <3>1. chip \in [writing : Seq(Cell \X Nat), ptr : Cell] /\ mem \in [Cell -> Nat]
      BY DEF EepInv, EepType
    <3>2. chip.writing \in Seq(Cell \X Nat) /\ <<>> \in Seq(Cell \X Nat)
      BY <3>1
    <3>3. done \in SUBSET (Cell \X Nat)
      BY <2>2, <3>2 DEF Range
    <3> QED
      BY <2>2, <3>1, <3>2, <3>3, WrittenCells
  <2> QED
    BY <2>1, <2>2 DEF Reset
<1>4. EepType'
  BY <1>1, <1>3, Nothing, ConfigTypes DEF EepInv, EepType, PageOver
<1>5. DoInv' /\ BusInv'
  BY <1>1, Nothing DEF DoInv, BusInv, Returned
<1> QED
  BY <1>1, <1>2, <1>4, <1>5, NoPage

(* A page write begins; the pages before it are stored and the chip rests, unless it is *)
(* the first one of a save.                                                            *)
LEMMA PageBegins ==
    ASSUME EepInv, NEW a \in Nat, a % PageSize = 0, a + PageSize <= Size,
           NEW b \in [1 .. PageSize -> Nat], StartPage(a, b),
           cfg' \in Config, snum' \in [1 .. PageSize -> Nat], mem' = mem, chip' = chip,
           op' \in {"save", "fsnum"},
           op' = "save" => a >= PageSize /\ \A i \in 1 .. PageSize : b[i] = cfg'[a - PageSize + i],
           op' = "save" /\ a > PageSize =>
              /\ \A x \in PageSize .. a - 1 : mem[x] = cfg'[x - PageSize + 1]
              /\ chip.writing = <<>>
    PROVE  EepInv'
<1>1. addr' = a /\ buf' = b /\ tmp' = <<a>> \o b /\ pc' = "write" /\ StartDo(tmp', "none")
  BY DEF StartPage
<1>2. tmp' \in [1 .. PageSize + 1 -> Nat] /\ tmp' \in Seq(Nat) /\ Len(tmp') = PageSize + 1 /\ tmp'[1] = a
  BY <1>1, PageSent
<1>3. /\ bus' \in Bus /\ bus'.st = "sb" /\ ~bus'.rd /\ bus'.tx = tmp' /\ bus'.count = Len(tmp')
      /\ bus'.index = 0 /\ bus'.error = OK
      /\ do' \in Do /\ do'.tx = tmp' /\ do'.dest = "none" /\ ~do'.reading
  BY <1>1, <1>2, NewDo
<1>4. EepType'
  BY <1>1, <1>2, <1>3 DEF EepInv, EepType, Config
<1>5. PageSize + 1 > 0 /\ PageSize \in Nat \ {0} /\ Size \in Nat \ {0}
  BY Sizes
<1>6. DoInv' /\ BusInv'
  BY <1>1, <1>2, <1>3, <1>5 DEF DoInv, BusInv, Returned
<1>7. ReadInv' /\ SavedInv'
  BY <1>1 DEF ReadInv, SavedInv
<1>8. PageInv'
  BY <1>1 DEF PageInv
<1>9. SaveInv'
  <2>1. SUFFICES ASSUME op' = "save", a > PageSize PROVE Intact'
    BY <1>1 DEF SaveInv
  <2>2. a % Size = a
    <3>1. a < Size
      BY <1>5
    <3> QED
      BY <1>5, <3>1, ModSmall
  <2>3. a <= a /\ a < a + PageSize
    BY <1>5
  <2>4. \A i \in 1 .. Len(<<>>) : FALSE
    OBVIOUS
  <2> QED
    BY <1>1, <1>2, <1>3, <2>1, <2>2, <2>3, <2>4 DEF Intact, InPage
<1> QED
  BY <1>4, <1>6, <1>7, <1>8, <1>9 DEF EepInv

(* A configuration is about to be written. *)
LEMMA FirstPage ==
    ASSUME EepInv, pc = "idle", NEW c \in Config, cliWriteConfig(c),
           mem' = mem, chip' = chip, snum' = snum
    PROVE  EepInv'
<1> DEFINE n == Normalised(c)
           b == CfgPage(n, PageSize)
<1>1. n \in Config
  BY ConfigTypes
<1>2. cfg' = n /\ op' = "save" /\ StartPage(PageSize, b)
  BY DEF cliWriteConfig
<1>3. PageSize \in Nat \ {0} /\ PageSize + PageSize <= Size
  BY Sizes
<1>4. PageSize % PageSize = 0
  <2>1. PageSize * 1 = PageSize
    BY <1>3
  <2> QED
    BY <1>3, <2>1, MultipleNext
<1> HIDE DEF n
<1>5. b \in [1 .. PageSize -> Nat] /\ \A i \in 1 .. PageSize : b[i] = n[PageSize - PageSize + i]
  BY <1>1, <1>3, PageOfConfig
<1>6. snum' \in [1 .. PageSize -> Nat] /\ PageSize >= PageSize /\ ~(PageSize > PageSize) /\ PageSize \in Nat
  BY <1>3 DEF EepInv, EepType
<1> HIDE DEF b
<1> QED
  BY <1>1, <1>2, <1>3, <1>4, <1>5, <1>6, PageBegins

(* save. *)
LEMMA SaveCmdInv == EepInv /\ CmdSave => EepInv'
<1> SUFFICES ASSUME EepInv, CmdSave PROVE EepInv'
  OBVIOUS
<1>1. pc = "idle" /\ cliWriteConfig(cfg) /\ mem' = mem /\ chip' = chip /\ snum' = snum
  BY DEF CmdSave
<1>2. cfg \in Config
  BY DEF EepInv, EepType, Config
<1> QED
  BY <1>1, <1>2, FirstPage

(* defaults. *)
LEMMA DefaultsCmdInv == EepInv /\ CmdDefaults => EepInv'
<1> SUFFICES ASSUME EepInv, CmdDefaults PROVE EepInv'
  OBVIOUS
<1>1. pc = "idle" /\ cliWriteConfig(Defaults) /\ mem' = mem /\ chip' = chip /\ snum' = snum
  BY DEF CmdDefaults
<1> QED
  BY <1>1, ConfigTypes, FirstPage

(* fsnum writes the first page. *)
LEMMA FsnumCmdInv == EepInv /\ CmdFsnum => EepInv'
<1> SUFFICES ASSUME EepInv, CmdFsnum PROVE EepInv'
  OBVIOUS
<1>1. /\ pc = "idle" /\ snum' = [i \in 1 .. PageSize |-> 10] /\ op' = "fsnum" /\ StartPage(0, snum')
      /\ mem' = mem /\ chip' = chip /\ cfg' = cfg
  BY DEF CmdFsnum
<1>2. snum' \in [1 .. PageSize -> Nat] /\ cfg' \in Config
  BY <1>1 DEF EepInv, EepType, Config
<1>3. 0 \in Nat /\ 0 % PageSize = 0 /\ 0 + PageSize <= Size
  BY Sizes, ModSmall
<1> QED
  BY <1>1, <1>2, <1>3, PageBegins

(* eeprom_write_page is over without success: no page is being written any more. *)
LEMMA PageFails ==
    ASSUME EepInv, pc \in {"write", "poll"}, Returned, NEW result, result # OK, PageDone(result),
           mem' = mem, chip' = chip, cfg' = cfg, snum' = snum
    PROVE  EepInv'
<1>1. pc' = "idle" /\ op' = op /\ PageOver /\ do' = do /\ bus' = bus /\ op # "saved"
  BY DEF PageDone, EepInv, SavedInv
<1>2. bus.st = "off"
  BY ReturnedRests
<1>3. EepType'
  BY <1>1, ConfigTypes DEF EepInv, EepType, PageOver
<1>4. DoInv' /\ BusInv'
  BY <1>1, <1>2 DEF EepInv, DoInv, BusInv, Returned
<1> QED
  BY <1>1, <1>3, <1>4, NoPage

(* The readback is asked for. *)
LEMMA PollBegins ==
    ASSUME EepInv, pc \in {"write", "poll"}, Returned, pc' = "poll", StartDo(<<addr>>, "tmp"),
           mem' = mem, chip' = chip, cfg' = cfg, snum' = snum, op' = op, addr' = addr, tmp' = tmp, buf' = buf
    PROVE  EepInv'
<1> USE DEF EepInv
<1>1. <<addr>> \in Seq(Nat) /\ Len(<<addr>>) = 1
  BY DEF EepType
<1>2. /\ bus' \in Bus /\ bus'.st = "sb" /\ ~bus'.rd /\ bus'.tx = <<addr>> /\ bus'.count = Len(<<addr>>)
      /\ bus'.index = 0 /\ bus'.error = OK
      /\ do' \in Do /\ do'.tx = <<addr>> /\ do'.dest = "tmp" /\ ~do'.reading
  BY <1>1, NewDo
<1>3. EepType'
  BY <1>2 DEF EepType
<1>4. DoInv' /\ BusInv'
  BY <1>1, <1>2 DEF DoInv, BusInv, Returned
<1>5. ReadInv' /\ PageInv' /\ SavedInv'
  BY <1>2 DEF ReadInv, PageInv, SavedInv
<1>6. SaveInv'
  BY <1>2 DEF SaveInv, Intact, Misdirected, InPage
<1> QED
  BY <1>3, <1>4, <1>5, <1>6

(* The write has been sent, or has failed. *)
LEMMA SentInv == EepInv /\ WriteSent => EepInv'
<1> SUFFICES ASSUME EepInv, WriteSent PROVE EepInv'
  OBVIOUS
<1>1. pc = "write" /\ Returned /\ mem' = mem /\ chip' = chip /\ cfg' = cfg /\ snum' = snum
  BY DEF WriteSent
<1>2. CASE status = OK
  <2>1. pc' = "poll" /\ StartDo(<<addr>>, "tmp") /\ op' = op /\ addr' = addr /\ tmp' = tmp /\ buf' = buf
    BY <1>2 DEF WriteSent, page
  <2> QED
    BY <1>1, <2>1, PollBegins
<1>3. CASE status # OK
  <2>1. PageDone(status)
    BY <1>3 DEF WriteSent
  <2> QED
    BY <1>1, <1>3, <2>1, PageFails
<1> QED
  BY <1>2, <1>3

(* The page matches: the pages up to it are stored. *)
LEMMA PageMatches ==
    ASSUME EepInv, pc = "poll", Returned, status = OK, Matches(tmp, buf), PageDone(OK),
           mem' = mem, chip' = chip, cfg' = cfg, snum' = snum
    PROVE  EepInv'
<1>0. /\ PageSize \in Nat \ {0} /\ Size \in Nat \ {0} /\ CfgSize \in Nat /\ CfgSize = Size - PageSize
      /\ addr \in Nat /\ addr % PageSize = 0 /\ addr + PageSize <= Size /\ op \in {"save", "fsnum"}
      /\ op = "save" => addr >= PageSize
  BY Sizes DEF EepInv, PageInv, EepType
<1>1. bus.st = "off"
  BY ReturnedRests
<1>2. chip.writing = <<>> /\ \A i \in 1 .. PageSize : tmp[i] = mem[addr + i - 1]
  BY <1>1 DEF EepInv, ReadInv, ReadBack
<1>3. \A i \in 1 .. PageSize : mem[addr + i - 1] = buf[i]
  BY <1>2, MatchesCells DEF EepInv, EepType
<1>4. ASSUME op = "save", NEW x \in PageSize .. addr + PageSize - 1
      PROVE  mem[x] = cfg[x - PageSize + 1]
  <2>1. CASE x < addr
    <3>1. addr > PageSize /\ x \in PageSize .. addr - 1
      BY <1>0, <2>1
    <3>2. ~Misdirected
      BY <1>3 DEF Misdirected
    <3> QED
      BY <1>4, <3>1, <3>2 DEF EepInv, SaveInv, Intact
  <2>2. CASE x >= addr
    <3> DEFINE i == x - addr + 1
    <3>1. i \in 1 .. PageSize /\ addr + i - 1 = x /\ addr - PageSize + i = x - PageSize + 1
      BY <1>0, <2>2
    <3> HIDE DEF i
    <3>2. mem[x] = buf[i]
      BY <1>3, <3>1
    <3>3. buf[i] = cfg[x - PageSize + 1]
      BY <1>4, <3>1 DEF EepInv, PageInv
    <3> QED
      BY <3>2, <3>3
  <2> QED
    BY <1>0, <2>1, <2>2
<1>5. CASE op = "save" /\ addr + PageSize < Size
  <2> DEFINE a == addr + PageSize
             b == CfgPage(cfg, a)
  <2>1. StartPage(a, b) /\ op' = op
    BY <1>5 DEF PageDone
  <2>2. a \in Nat /\ a % PageSize = 0 /\ a + PageSize <= Size
    <3>1. a % PageSize = 0
      <4> DEFINE q == addr \div PageSize
      <4>1. q \in Int /\ addr = PageSize * q + (addr % PageSize)
        BY <1>0, DivMod
      <4> HIDE DEF q
      <4>2. PageSize * (q + 1) = a /\ q + 1 \in Int
        BY <1>0, <4>1
      <4> HIDE DEF a
      <4> QED
        BY <1>0, <4>2, MultipleNext
    <3>2. a \in Nat /\ a < Size
      BY <1>0, <1>5
    <3> HIDE DEF a
    <3> QED
      BY <1>0, <3>1, <3>2, Sizes, MultiplesApart
  <2>3. PageSize <= a /\ cfg \in Config /\ snum' \in [1 .. PageSize -> Nat]
    BY <1>0 DEF EepInv, EepType, Config
  <2>4. \A x \in PageSize .. a - 1 : mem[x] = cfg[x - PageSize + 1]
    <3>1. ASSUME NEW x \in PageSize .. a - 1 PROVE mem[x] = cfg[x - PageSize + 1]
      <4>1. x \in PageSize .. addr + PageSize - 1
        BY <1>0
      <4> QED
        BY <1>4, <1>5, <4>1
    <3> QED
      BY <3>1
  <2> HIDE DEF a
  <2>5. b \in [1 .. PageSize -> Nat] /\ \A i \in 1 .. PageSize : b[i] = cfg[a - PageSize + i]
    BY <2>2, <2>3, PageOfConfig
  <2>6. a >= PageSize
    BY <1>0, <2>2, <2>3
  <2> HIDE DEF b
  <2> QED
    BY <1>2, <1>5, <2>1, <2>2, <2>3, <2>4, <2>5, <2>6, PageBegins
<1>6. CASE op = "save" /\ ~(addr + PageSize < Size)
  <2>1. op' = "saved" /\ pc' = "off" /\ PageOver /\ do' = do /\ bus' = bus
    BY <1>6 DEF PageDone
  <2>2. EepType'
    BY <2>1, ConfigTypes DEF EepInv, EepType, PageOver
  <2>3. DoInv' /\ BusInv'
    BY <1>1, <2>1 DEF EepInv, DoInv, BusInv, Returned
  <2>4. ASSUME NEW i \in 1 .. CfgSize PROVE mem[PageSize + i - 1] = cfg[i]
    <3> DEFINE x == PageSize + i - 1
    <3>1. x \in PageSize .. addr + PageSize - 1 /\ x - PageSize + 1 = i
      BY <1>0, <1>6
    <3> HIDE DEF x
    <3>2. mem[x] = cfg[i]
      BY <1>4, <1>6, <3>1
    <3> QED
      BY <3>2 DEF x
  <2>5. SavedInv'
    BY <1>1, <1>2, <2>1, <2>4 DEF SavedInv
  <2>6. ReadInv' /\ PageInv' /\ SaveInv'
    BY <2>1 DEF ReadInv, PageInv, SaveInv
  <2> QED
    BY <2>2, <2>3, <2>5, <2>6 DEF EepInv
<1>7. CASE op = "fsnum"
  <2>1. op' = op /\ pc' = "idle" /\ PageOver /\ do' = do /\ bus' = bus
    BY <1>7 DEF PageDone
  <2>2. EepType'
    BY <2>1, ConfigTypes DEF EepInv, EepType, PageOver
  <2>3. DoInv' /\ BusInv' /\ op' # "saved"
    BY <1>1, <1>7, <2>1 DEF EepInv, DoInv, BusInv, Returned
  <2> QED
    BY <2>1, <2>2, <2>3, NoPage
<1> QED
  BY <1>0, <1>5, <1>6, <1>7

(* The page does not match: what was read is sent. *)
LEMMA PageAgain ==
    ASSUME EepInv, pc = "poll", Returned, status = OK, ~Matches(tmp, buf), pc' = "write",
           StartDo(tmp, "none"), mem' = mem, chip' = chip, cfg' = cfg, snum' = snum, op' = op, addr' = addr,
           tmp' = tmp, buf' = buf
    PROVE  EepInv'
<1>0. PageSize \in Nat \ {0} /\ PageSize + 1 \in Nat /\ addr \in Nat
  BY Sizes DEF EepInv, EepType
<1>1. bus.st = "off"
  BY ReturnedRests
<1>2. chip.writing = <<>> /\ \A i \in 1 .. PageSize : tmp[i] = mem[addr + i - 1]
  BY <1>1 DEF EepInv, ReadInv, ReadBack
<1>3. tmp \in Seq(Nat) /\ Len(tmp) = PageSize + 1 /\ Len(tmp) > 0
  <2>1. tmp \in [1 .. PageSize + 1 -> Nat]
    BY DEF EepInv, EepType
  <2>2. tmp \in Seq(Nat) /\ Len(tmp) = PageSize + 1
    BY <1>0, <2>1
  <2> QED
    BY <1>0, <2>2
<1>4. /\ bus' \in Bus /\ bus'.st = "sb" /\ ~bus'.rd /\ bus'.tx = tmp /\ bus'.count = Len(tmp)
      /\ bus'.index = 0 /\ bus'.error = OK
      /\ do' \in Do /\ do'.tx = tmp /\ do'.dest = "none" /\ ~do'.reading
  BY <1>3, NewDo
<1>5. EepType'
  BY <1>4 DEF EepInv, EepType
<1>6. DoInv' /\ BusInv'
  BY <1>3, <1>4 DEF DoInv, BusInv, Returned
<1>7. ReadInv' /\ PageInv' /\ SavedInv'
  BY <1>4 DEF EepInv, ReadInv, PageInv, SavedInv
<1>8. SaveInv'
  <2>1. SUFFICES ASSUME op = "save", addr > PageSize PROVE Intact' \/ Misdirected'
    BY DEF SaveInv
  <2>2. tmp[1] = mem[addr]
    <3>1. 1 \in 1 .. PageSize /\ addr + 1 - 1 = addr
      BY <1>0
    <3> QED
      BY <1>2, <3>1
  <2>3. \E i \in 1 .. PageSize : mem[addr + i - 1] # buf[i]
    BY <1>2, MatchesCells DEF EepInv, EepType
  <2>4. \A i \in 1 .. Len(chip.writing) : FALSE
    BY <1>2
  <2>5. CASE InPage(mem[addr] % Size)
    <3>1. Intact
      BY <2>1, <2>5 DEF EepInv, SaveInv, Misdirected
    <3> QED
      BY <1>4, <2>2, <2>4, <2>5, <3>1 DEF Intact, InPage
  <2>6. CASE ~InPage(mem[addr] % Size)
    BY <1>4, <2>2, <2>3, <2>4, <2>6 DEF Misdirected, InPage
  <2> QED
    BY <2>5, <2>6
<1> QED
  BY <1>5, <1>6, <1>7, <1>8 DEF EepInv

(* The readback has come back. *)
LEMMA PolledInv == EepInv /\ PollReturned => EepInv'
<1> SUFFICES ASSUME EepInv, PollReturned PROVE EepInv'
  OBVIOUS
<1>1. pc = "poll" /\ Returned /\ mem' = mem /\ chip' = chip /\ cfg' = cfg /\ snum' = snum
  BY DEF PollReturned
<1>2. CASE status = OK /\ Matches(tmp, buf) /\ PageDone(OK)
  BY <1>1, <1>2, PageMatches
<1>3. CASE /\ status = OK /\ ~Matches(tmp, buf) /\ pc' = "write" /\ StartDo(tmp, "none")
           /\ addr' = addr /\ tmp' = tmp /\ buf' = buf /\ op' = op
  BY <1>1, <1>3, PageAgain
<1>4. CASE PageDone("FAULT")
  BY <1>1, <1>4, PageFails DEF OK
<1>5. CASE /\ StartDo(<<addr>>, "tmp") /\ addr' = addr /\ tmp' = tmp /\ buf' = buf /\ op' = op /\ pc' = pc
  BY <1>1, <1>5, PollBegins
<1>6. CASE PageDone("TIMEOUT")
  BY <1>1, <1>6, PageFails DEF OK
<1>7. CASE status # OK /\ PageDone(status)
  BY <1>1, <1>7, PageFails
<1> QED
  BY <1>2, <1>3, <1>4, <1>5, <1>6, <1>7 DEF PollReturned

-----------------------------------------------------------------------------
(* The theorem. *)

(* A chip from the factory. *)
LEMMA EepInitInv == Init => EepInv
<1> SUFFICES ASSUME Init PROVE EepInv
  OBVIOUS
<1> DEFINE V(a) == IF a < PageSize THEN 9 ELSE WithCrc(Defaults)[a - PageSize + 1]
<1>1. mem = [a \in Cell |-> V(a)]
  BY DEF Init, Cell
<1>2. ASSUME NEW a \in Cell PROVE V(a) \in Nat
  <2>1. WithCrc(Defaults) \in Config
    BY ConfigTypes
  <2>2. ~(a < PageSize) => a - PageSize + 1 \in 1 .. CfgSize
    BY Sizes DEF Cell
  <2> QED
    BY <2>1, <2>2 DEF Config
<1> HIDE DEF V
<1>3. mem \in [Cell -> Nat]
  BY <1>1, <1>2
<1>4. <<>> \in Seq(Cell \X Nat) /\ 0 \in Cell
  BY Sizes DEF Cell
<1>5. chip \in [writing : Seq(Cell \X Nat), ptr : Cell]
  BY <1>4 DEF Init
<1>6. EepType
  BY <1>3, <1>5, Nothing, ConfigTypes DEF Init, EepType, Config
<1>7. DoInv /\ BusInv
  BY Nothing DEF Init, DoInv, BusInv, Returned
<1> QED
  BY <1>6, <1>7 DEF Init, EepInv, ReadInv, PageInv, SaveInv, SavedInv

(* A stuttering step. *)
LEMMA EepStutter == EepInv /\ UNCHANGED vars => EepInv'
<1> SUFFICES ASSUME EepInv, UNCHANGED vars PROVE EepInv'
  OBVIOUS
<1> USE DEF EepInv, vars, page
<1>1. EepType' /\ DoInv' /\ BusInv'
  BY DEF EepType, DoInv, BusInv, Returned
<1>2. ReadInv' /\ PageInv' /\ SavedInv'
  BY DEF ReadInv, ReadBack, PageInv, SavedInv
<1>3. SaveInv'
  BY DEF SaveInv, Intact, Misdirected, InPage
<1> QED
  BY <1>1, <1>2, <1>3

(* Every step keeps the invariant. *)
LEMMA EepNextInv == EepInv /\ [Next]_vars => EepInv'
<1> SUFFICES ASSUME EepInv, [Next]_vars PROVE EepInv'
  OBVIOUS
<1>1. CASE UNCHANGED vars \/ Idle
  BY <1>1, EepStutter DEF Idle
<1>2. CASE Event
  BY <1>2, StartInv, AddrInv, TxeInv, TransmittedInv, ReceivedTwoInv, RxneInv DEF Event
<1>3. CASE EventError \/ WriteCycleEnds \/ Reset
  BY <1>3, ErrorInv, CycleInv, ResetInv
<1>4. CASE Thread
  BY <1>4, WakesInv, BootInv, LoadInv, SentInv, PolledInv DEF Thread
<1>5. CASE CmdSet \/ CmdSave \/ CmdDefaults \/ CmdFsnum
  BY <1>5, SetInv, SaveCmdInv, DefaultsCmdInv, FsnumCmdInv
<1> QED
  BY <1>1, <1>2, <1>3, <1>4, <1>5 DEF Next

(* A save that ends in a reset has stored the whole configuration, whatever the bus lost, *)
(* the chip failed to write or the retries sent to the wrong page.                       *)
THEOREM ConfirmedIsStored == Spec => []ConfirmedStored
<1>1. EepInv => ConfirmedStored
  BY DEF EepInv, SavedInv, ConfirmedStored
<1> QED
  BY <1>1, EepInitInv, EepNextInv, PTL DEF Spec
=============================================================================
