---------------------------- MODULE MCBootloader ----------------------------
(* The bootloader and what it reads from, side by side: a behaviour is one of *)
(* the bootloader with its flash (four pages of two cells, the application    *)
(* has the middle two), one of FatFs on a volume, or one of the SD card       *)
(* driver.                                                                    *)
EXTENDS Bootloader, Fat, Mmc

VARIABLE part

Data(a, d) == [type |-> "data", addr |-> a, data |-> d]
Eof == [type |-> "eof", addr |-> 0, data |-> <<>>]
Bad == [type |-> "bad", addr |-> 0, data |-> <<>>]

MCFiles == {
    <<Data(2, <<"code", "zero">>), Data(4, <<"code">>), Eof>>,  \* page by page, a gap
    <<Data(3, <<"code", "FF">>), Data(2, <<"zero">>), Eof>>,    \* across pages and back
    <<Data(2, <<"zero">>), Data(6, <<"zero">>), Eof>>,          \* past the end
    <<Data(0, <<"code">>), Eof>>,                               \* before the start
    <<Data(4, <<"code">>), Bad>>,                               \* a damaged record
    <<Data(5, <<"code">>), Eof, Data(2, <<"zero">>)>>,          \* data past its end
    <<Data(3, <<"zero">>)>> }                                   \* cut short

-----------------------------------------------------------------------------
(* Volumes, laid out as a formatter does.  A description gives the type, the *)
(* cluster size, the FAT's chains (each with the value its last cluster has), *)
(* the directory's entries and the file.                                     *)

E12 == 4095
E16 == 65535
E32 == 268435455

Linked(d, c) == {x \in d.chains : \E i \in 1 .. Len(x) - 1 : x[i] = c}
FatValue(d, c) ==
    IF c >= d.nclst + 2 \/ Linked(d, c) = {} THEN 0
    ELSE LET x == CHOOSE x \in Linked(d, c) : TRUE
         IN  x[1 + CHOOSE i \in 1 .. Len(x) - 1 : x[i] = c]

\* Byte n of the FAT.
Encoded(d, n) ==
    CASE d.fmt = 32 -> (FatValue(d, n \div 4) \div (256 ^ (n % 4))) % 256
      [] d.fmt = 16 -> (FatValue(d, n \div 2) \div (256 ^ (n % 2))) % 256
      [] d.fmt = 12 -> LET e == FatValue(d, 2 * (n \div 3))
                           o == FatValue(d, 2 * (n \div 3) + 1)
                       IN  <<e % 256, e \div 256 + 16 * (o % 16), o \div 16>>[(n % 3) + 1]

Place(s, c) == IF \E i \in DOMAIN s : s[i] = c THEN CHOOSE i \in DOMAIN s : s[i] = c ELSE 0

Boot(d) == [kind |-> "boot", signature |-> d.sig, fat |-> d.fat, partition |-> 0,
            BytsPerSec |-> d.bps, FATSz |-> d.fatsz, NumFATs |-> 2, SecPerClus |-> d.csize,
            RootEntCnt |-> IF d.fmt = 32 THEN 0 ELSE 4, RsvdSecCnt |-> 1,
            RootClus |-> d.rootclus,
            TotSec |-> 1 + 2 * d.fatsz + (IF d.fmt = 32 THEN 0 ELSE 2) + d.nclst * d.csize]

Mbr(d) == [kind |-> "boot", signature |-> TRUE, fat |-> FALSE, partition |-> d.part]

\* Two entries to a sector; the rest of a table is unused.
DirSector(d, k) ==
    [kind |-> "dir", entries |-> [i \in 1 .. 2 |->
        IF 2 * k + i <= Len(d.root) THEN d.root[2 * k + i]
        ELSE [name |-> << >>, attr |-> {}, clust |-> 0, size |-> 0]]]

Layout(d, n) ==
    LET root == d.part + 1 + 2 * d.fatsz
        data == root + (IF d.fmt = 32 THEN 0 ELSE 2)
        c    == 2 + (n - data) \div d.csize
        j    == (n - data) % d.csize
    IN  IF n < d.part THEN Mbr(d)
        ELSE IF n = d.part THEN Boot(d)
        ELSE IF n < root
             THEN [kind |-> "bytes", bytes |-> [i \in 0 .. 7 |->
                      Encoded(d, ((n - d.part - 1) % d.fatsz) * 8 + i)]]
        ELSE IF n < data THEN DirSector(d, n - root)
        ELSE IF Place(d.rootchain, c) # 0
             THEN DirSector(d, (Place(d.rootchain, c) - 1) * d.csize + j)
        ELSE [kind |-> "bytes", bytes |-> [i \in 0 .. 7 |->
                 IF Place(d.clusters, c) = 0 THEN 200
                 ELSE ((Place(d.clusters, c) - 1) * d.csize + j) * 8 + i]]

Disk(d) == [sectors |-> [n \in 0 .. d.part + Boot(d).TotSec - 1 |-> Layout(d, n)], file |-> d.file]

Sfn(body, ext) == body \o [i \in 1 .. 8 - Len(body) |-> 32] \o ext
LlHex == Sfn(<<76, 76>>, <<72, 69, 88>>)
LLHex2 == Sfn(<<76, 76, 50>>, <<72, 69, 88>>)
Ent(name, attr, clust, sz) == [name |-> name, attr |-> attr, clust |-> clust, size |-> sz]
Counted(n) == {[i \in 1 .. n |-> i - 1]}

Fat12 == [fmt |-> 12, csize |-> 1, nclst |-> 6, fatsz |-> 2, part |-> 0, bps |-> 8,
          sig |-> TRUE, fat |-> TRUE, rootclus |-> 0, rootchain |-> << >>,
          chains |-> {<<5, 3, 6, E12>>}, clusters |-> <<5, 3, 6>>,
          root |-> <<Ent(LlHex, {"VOL"}, 0, 0), Ent(LLHex2, {}, 4, 8), Ent(LlHex, {}, 5, 20)>>,
          file |-> Counted(20)]
Fat16 == [Fat12 EXCEPT !.fmt = 16, !.csize = 2, !.nclst = 9, !.fatsz = 4, !.part = 2,
          !.chains = {<<4, 9, E16>>}, !.clusters = <<4, 9>>,
          !.root = <<Ent(LLHex2, {}, 3, 9), Ent(LlHex, {}, 4, 32)>>, !.file = Counted(32)]
Fat32 == [Fat12 EXCEPT !.fmt = 32, !.nclst = 13, !.fatsz = 8, !.rootclus = 2,
          !.rootchain = <<2, 9>>, !.chains = {<<2, 9, E32>>, <<14, 3, 8, E32>>},
          !.clusters = <<14, 3, 8>>,
          !.root = <<Ent(LLHex2, {}, 3, 9), Ent(LLHex2, {"DIR"}, 3, 0), Ent(LlHex, {}, 14, 17)>>,
          !.file = Counted(17)]

\* A card that was never formatted.
Blank == [sectors |-> [n \in {0} |-> [kind |-> "bytes", bytes |-> << >>]], file |-> {}]

MCDisks == {
    Blank, Disk(Fat12), Disk(Fat16), Disk(Fat32),
    Disk([Fat32 EXCEPT !.chains = {<<2, 9, 2>>}, !.file = {},              \* a circle
                       !.root = [i \in 1 .. 4 |-> Ent(LLHex2, {}, 3, 9)]]),
    Disk([Fat32 EXCEPT !.rootclus = 15, !.file = {}]),                      \* no such cluster
    Disk([Fat32 EXCEPT !.rootclus = 0, !.file = {}]),                       \* no root directory
    Disk([Fat12 EXCEPT !.chains = {<<5, 3, E12>>}, !.file = {}]),           \* a chain too short
    Disk([Fat16 EXCEPT !.chains = {<<4, 0>>}, !.file = {}]),                \* one that is freed
    Disk([Fat12 EXCEPT !.root[3] = Ent(LlHex, {}, 0, 0), !.file = {<< >>}]),    \* an empty file
    Disk([Fat12 EXCEPT !.root[3] = Ent(LlHex, {"DIR"}, 5, 0), !.file = {}]),
    Disk([Fat12 EXCEPT !.root = [i \in 1 .. 4 |-> Ent(LLHex2, {}, 5, 9)], !.file = {}]),
    Disk([Fat12 EXCEPT !.fatsz = 1, !.file = {}]),                          \* a FAT too small
    Disk([Fat12 EXCEPT !.bps = 16, !.file = {}]),
    Disk([Fat12 EXCEPT !.sig = FALSE, !.file = {}]),
    Disk([Fat16 EXCEPT !.fat = FALSE, !.file = {}]) }

-----------------------------------------------------------------------------
LoaderInit ==
    /\ Init /\ FatInit /\ MmcInit
    /\ part \in {"loader", "fat", "mmc"}
    \* the parts that stand still have one state
    /\ part # "loader" => file = <<Data(3, <<"zero">>)>> /\ \A a \in Cell : flash[a] = "code"
    /\ part # "fat" => disk = Blank /\ size = SS
    /\ part # "mmc" => kind = "sdhc" /\ card = "out"

LoaderNext ==
    \/ part = "loader" /\ Next    /\ UNCHANGED <<part, fvars, mvars>>
    \/ part = "fat"    /\ FatNext /\ UNCHANGED <<part, vars, mvars>>
    \/ part = "mmc"    /\ MmcNext /\ UNCHANGED <<part, vars, fvars>>

LoaderSpec ==
    /\ LoaderInit /\ [][LoaderNext]_<<part, vars, fvars, mvars>>
    /\ WF_vars(part = "loader" /\ Loader /\ UNCHANGED <<part, fvars, mvars>>)
    /\ WF_fvars(part = "fat" /\ FatNext /\ UNCHANGED <<part, vars, mvars>>)
=============================================================================
