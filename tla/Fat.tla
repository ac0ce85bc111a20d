--------------------------------- MODULE Fat ---------------------------------
(***************************************************************************)
(* FatFs as the bootloader configures and calls it (read only, short names,  *)
(* one volume): try_flash mounts the card, opens ll.hex in the root directory *)
(* and reads it buffer by buffer, each disk_read able to fail.               *)
(*                                                                         *)
(* A volume is a function from sector numbers to sectors: a boot record, a   *)
(* directory sector (a sequence of entries) or bytes.  Sectors are scaled to  *)
(* SS bytes and PerSector directory entries, the limits that tell FAT12,     *)
(* FAT16 and FAT32 apart likewise; FAT entries keep their encoding, so that   *)
(* one of FAT12 may lie across two sectors.                                  *)
(***************************************************************************)
EXTENDS Integers, Sequences, FiniteSets, SequencesExt

CONSTANTS
    SS,                     \* bytes in a sector, 512 in the code
    PerSector,              \* SS / SZ_DIR
    MIN_FAT16, MIN_FAT32,   \* least numbers of clusters, 4086 and 65526 in the code
    IndexMod,               \* 2^16: a directory index is a WORD
    Disks,                  \* volumes: their sectors, and the file each one holds
    ReadSizes               \* sizes of try_flash's buffer, 512 in the code

ASSUME FatAssumption ==
    /\ {SS, PerSector, MIN_FAT16, MIN_FAT32, IndexMod} \subseteq Nat
    /\ SS % 4 = 0 /\ SS > 0 /\ PerSector > 0
    /\ ReadSizes \subseteq Nat \ {0}

DISK_ERR == 1073741823      \* the 0xFFFFFFFF of get_fat

VARIABLES
    disk,           \* the card's volume
    fpc,            \* where try_flash and FatFs are
    fs,             \* the file system object
    winsect,        \* the sector in fs->win
    dj,             \* dir_find's index, cluster and sector
    fp,             \* the file object
    size, btr,      \* f_read: the buffer's size and what is still to read
    nread,
    got,            \* history: the bytes handed to bootloader_feed
    fres,           \* the last result
    io              \* history: "fine", "failed" after a failed disk_read, "again" after one more

fvars == <<disk, fpc, fs, winsect, dj, fp, size, btr, nread, got, fres, io>>

FatInit ==
    /\ disk \in Disks
    /\ fpc = "mount"
    /\ fs = [fs_type |-> 0, bsect |-> 0] /\ winsect = 0
    /\ dj = [index |-> 0, clust |-> 0, sect |-> 0]
    /\ fp = [sclust |-> 0, fsize |-> 0, fptr |-> 0, clust |-> 0, dsect |-> 0]
    /\ size \in ReadSizes /\ btr = 0 /\ nread = 0 /\ got = << >>
    /\ fres = "OK" /\ io = "fine"

Sector(n) == disk.sectors[n]

\* disk_read: the sectors are read, or the card fails.
DiskReads == io' = IF io = "fine" THEN "fine" ELSE "again"
DiskFails == io' = IF io = "fine" THEN "failed" ELSE "again"

\* The call ends with an error; try_flash goes no further.
Give(err) == fpc' = "stop" /\ fres' = err

-----------------------------------------------------------------------------
(* Access to the FAT. *)

\* move_window, to the sectors of a sequence one after the other.
MoveWindow(sectors) ==
    /\ winsect' = Last(sectors)
    /\ IF \A i \in DOMAIN sectors : sectors[i] = winsect THEN UNCHANGED io ELSE DiskReads

WindowFails(sectors) ==
    /\ \E i \in DOMAIN sectors : sectors[i] # winsect
    /\ UNCHANGED winsect
    /\ DiskFails

clust2sect(clst) ==
    IF clst < 2 \/ clst >= fs.n_fatent THEN 0 ELSE (clst - 2) * fs.csize + fs.database

FatByte(n) == Sector(fs.fatbase + n \div SS).bytes[n % SS]
LdWord(n) == FatByte(n) + 256 * FatByte(n + 1)

\* Where FAT12 keeps an entry: one and a half bytes each.
Fat12Byte(clst) == clst + clst \div 2

FatSectors(clst) ==
    CASE fs.fs_type = 12 -> <<fs.fatbase + Fat12Byte(clst) \div SS,
                              fs.fatbase + (Fat12Byte(clst) + 1) \div SS>>
      [] fs.fs_type = 16 -> <<fs.fatbase + clst \div (SS \div 2)>>
      [] fs.fs_type = 32 -> <<fs.fatbase + clst \div (SS \div 4)>>

\* Fault: the odd entries of FAT12 are read like the even ones.
FatEntryFault(clst) ==
    CASE fs.fs_type = 12 -> LdWord(Fat12Byte(clst)) % 4096
      [] fs.fs_type = 16 -> LdWord(2 * clst)
      [] fs.fs_type = 32 -> LdWord(4 * clst) + 65536 * (LdWord(4 * clst + 2) % 4096)

FatEntry(clst) ==
    CASE fs.fs_type = 12 -> IF clst % 2 = 1 THEN LdWord(Fat12Byte(clst)) \div 16
                            ELSE LdWord(Fat12Byte(clst)) % 4096
      [] fs.fs_type = 16 -> LdWord(2 * clst)
      [] fs.fs_type = 32 -> LdWord(4 * clst) + 65536 * (LdWord(4 * clst + 2) % 4096)

\* get_fat returns v.
GetFat(clst, v) ==
    IF clst < 2 \/ clst >= fs.n_fatent
    THEN v = 1 /\ UNCHANGED <<winsect, io>>
    ELSE \/ v = FatEntry(clst) /\ MoveWindow(FatSectors(clst))
         \/ v = DISK_ERR /\ WindowFails(FatSectors(clst))

FatValues(clst) ==
    {1, DISK_ERR} \cup (IF clst < 2 \/ clst >= fs.n_fatent THEN {} ELSE {FatEntry(clst)})

-----------------------------------------------------------------------------
(* f_mount and chk_mounted. *)

\* f_mount only registers the object; the volume is looked at when it is used.
f_mount ==
    /\ fpc = "mount"
    /\ fs' = [fs EXCEPT !.fs_type = 0]
    /\ fpc' = "check"
    /\ UNCHANGED <<disk, winsect, dj, fp, size, btr, nread, got, fres, io>>

\* check_fs: 0 a FAT boot record, 1 another boot record, 2 none.
CheckFs(b) == IF b.kind # "boot" \/ ~b.signature THEN 2 ELSE IF b.fat THEN 0 ELSE 1

\* The partition listed first, when sector 0 is a boot record but no FAT volume.
Partition(b) == CheckFs(b) = 1 /\ b.partition # 0

\* Sector 0, then the partition's first sector.
check_fs ==
    /\ fpc \in {"check", "check_partition"}
    /\ LET bsect == IF fpc = "check" THEN 0 ELSE Sector(0).partition
           b     == Sector(bsect)
       IN  \/ /\ DiskReads
              /\ fs' = [fs EXCEPT !.bsect = bsect]
              /\ IF CheckFs(b) = 0 THEN fpc' = "volume" /\ UNCHANGED fres
                 ELSE IF fpc = "check" /\ Partition(b)
                      THEN fpc' = "check_partition" /\ UNCHANGED fres
                      ELSE Give("NO_FILESYSTEM")
           \/ DiskFails /\ Give("DISK_ERR") /\ UNCHANGED fs
    /\ UNCHANGED <<disk, winsect, dj, fp, size, btr, nread, got>>

PowerOf2 == {2 ^ i : i \in 0 .. 7}

\* The file system object for a boot record, as far as its fields agree with each other.
Volume(bsect) ==
    LET b       == Sector(bsect)
        fasize  == b.FATSz * b.NumFATs
        sysect  == b.RsvdSecCnt + fasize + b.RootEntCnt \div PerSector
        nclst   == (b.TotSec - sysect) \div b.SecPerClus
        fmt     == IF nclst >= MIN_FAT32 THEN 32 ELSE IF nclst >= MIN_FAT16 THEN 16 ELSE 12
        fatbase == bsect + b.RsvdSecCnt
    IN  [fs_type |-> fmt, bsect |-> bsect, csize |-> b.SecPerClus, n_fatent |-> nclst + 2,
         n_rootdir |-> b.RootEntCnt, fatbase |-> fatbase, database |-> bsect + sysect,
         dirbase |-> IF fmt = 32 THEN b.RootClus ELSE fatbase + fasize]

Szbfat(v) ==
    CASE v.fs_type = 32 -> v.n_fatent * 4
      [] v.fs_type = 16 -> v.n_fatent * 2
      [] v.fs_type = 12 -> (v.n_fatent * 3) \div 2 + (v.n_fatent % 2)

\* The checks of chk_mounted, in their order.
VolumeGood(bsect) ==
    LET b == Sector(bsect)
        v == Volume(bsect)
    IN  /\ b.BytsPerSec = SS
        /\ b.NumFATs \in {1, 2}
        /\ b.SecPerClus \in PowerOf2
        /\ b.RootEntCnt % PerSector = 0
        /\ b.RsvdSecCnt # 0
        /\ b.TotSec >= b.RsvdSecCnt + b.FATSz * b.NumFATs + b.RootEntCnt \div PerSector
        /\ v.n_fatent > 2
        /\ v.fs_type = 32 <=> b.RootEntCnt = 0
        /\ b.FATSz >= (Szbfat(v) + (SS - 1)) \div SS

chk_mounted ==
    /\ fpc = "volume"
    /\ IF VolumeGood(fs.bsect)
       THEN fs' = Volume(fs.bsect) /\ winsect' = 0 /\ fpc' = "open" /\ UNCHANGED fres
       ELSE Give("NO_FILESYSTEM") /\ UNCHANGED <<fs, winsect>>
    /\ UNCHANGED <<disk, dj, fp, size, btr, nread, got, io>>

-----------------------------------------------------------------------------
(* f_open. *)

Upper(c) == IF 97 <= c /\ c <= 122 THEN c - 32 ELSE c

\* create_name for a name without a directory: eight characters and three, upper case,
\* filled up with spaces; too many characters make an invalid name.
create_name(path) ==
    LET Put(a, c) ==
            IF ~a.ok THEN a
            ELSE IF c = 46 \/ a.i >= a.ni
                 THEN [a EXCEPT !.ok = (a.ni = 8 /\ c = 46), !.i = 8, !.ni = 11]
                 ELSE [a EXCEPT !.sfn = [@ EXCEPT ![a.i + 1] = Upper(c)], !.i = @ + 1]
    IN  FoldLeft(Put, [sfn |-> [k \in 1 .. 11 |-> 32], i |-> 0, ni |-> 8, ok |-> TRUE], path)

MMC_FIRMWARE_FILENAME == <<108, 108, 46, 104, 101, 120>>    \* "ll.hex"

EndOfTable == << >>
\* A sector of the directory that is none shows entries of no meaning.
NoEntry == [name |-> <<255>>, attr |-> {}, clust |-> 0, size |-> 0]
Entry == IF Sector(winsect).kind = "dir" THEN Sector(winsect).entries[(dj.index % PerSector) + 1]
         ELSE NoEntry

\* dir_sdi(dj, 0) for the root directory: a static table, or a chain in FAT32.
RootClust == IF fs.fs_type = 32 THEN fs.dirbase ELSE 0

\* A FAT32 volume has no static table to fall back on when it names no root cluster.
dir_sdi ==
    /\ fpc = "open"
    /\ \/ RootClust = 0 /\ fs.n_rootdir = 0
          /\ Give("INT_ERR") /\ UNCHANGED dj
       \/ RootClust = 0 /\ fs.n_rootdir > 0
          /\ dj' = [index |-> 0, clust |-> 0, sect |-> fs.dirbase]
          /\ fpc' = "window" /\ UNCHANGED fres
       \/ RootClust # 0
          /\ dj' = [index |-> 0, clust |-> RootClust, sect |-> clust2sect(RootClust)]
          /\ fpc' = "window" /\ UNCHANGED fres
    /\ UNCHANGED <<disk, fs, winsect, fp, size, btr, nread, got, io>>

\* dir_find: the sector of the present entry comes into the window.
DirWindow ==
    /\ fpc = "window"
    /\ \/ MoveWindow(<<dj.sect>>) /\ fpc' = "find" /\ UNCHANGED fres
       \/ WindowFails(<<dj.sect>>) /\ Give("DISK_ERR")
    /\ UNCHANGED <<disk, fs, dj, fp, size, btr, nread, got>>

EntryMatches(e) == "VOL" \notin e.attr /\ e.name = create_name(MMC_FIRMWARE_FILENAME).sfn

\* The entry is the file's: f_open makes the file object of it.
Found ==
    /\ fpc = "find" /\ EntryMatches(Entry)
    /\ IF "DIR" \in Entry.attr
       THEN Give("NO_FILE") /\ UNCHANGED fp
       ELSE /\ fp' = [sclust |-> Entry.clust, fsize |-> Entry.size, fptr |-> 0, clust |-> 0,
                      dsect |-> 0]
            /\ fpc' = "feed" /\ UNCHANGED fres
    /\ UNCHANGED <<disk, fs, winsect, dj, size, btr, nread, got, io>>

FoundEnd ==
    /\ fpc = "find" /\ Entry.name = EndOfTable
    /\ Give("NO_FILE")
    /\ UNCHANGED <<disk, fs, winsect, dj, fp, size, btr, nread, got, io>>

\* Fault: the index has no end.
IndexEndFault(i) == FALSE

\* Report EOT when index has reached 65535.
IndexEnd(i) == i = 0

\* dir_next; the index is a WORD.
DirNext ==
    /\ fpc = "find" /\ ~EntryMatches(Entry) /\ Entry.name # EndOfTable
    /\ LET i == (dj.index + 1) % IndexMod
           sect == dj.sect + 1
           Go(c, s) == dj' = [index |-> i, clust |-> c, sect |-> s]
                       /\ fpc' = "window" /\ UNCHANGED fres
           Stop(err) == Give(err) /\ UNCHANGED dj
       IN  IF IndexEnd(i) \/ dj.sect = 0 THEN Stop("NO_FILE") /\ UNCHANGED <<winsect, io>>
           ELSE IF i % PerSector # 0 THEN Go(dj.clust, dj.sect) /\ UNCHANGED <<winsect, io>>
           ELSE IF dj.clust = 0
                THEN /\ IF i >= fs.n_rootdir THEN Stop("NO_FILE") ELSE Go(0, sect)
                     /\ UNCHANGED <<winsect, io>>
           ELSE IF (i \div PerSector) % fs.csize # 0
                THEN Go(dj.clust, sect) /\ UNCHANGED <<winsect, io>>
           ELSE \E clst \in FatValues(dj.clust) :
                    /\ GetFat(dj.clust, clst)
                    /\ \/ clst <= 1 /\ Stop("INT_ERR")
                       \/ clst = DISK_ERR /\ Stop("DISK_ERR")
                       \/ 1 < clst /\ clst # DISK_ERR /\ clst >= fs.n_fatent /\ Stop("NO_FILE")
                       \/ 1 < clst /\ clst # DISK_ERR /\ clst < fs.n_fatent
                             /\ Go(clst, clust2sect(clst))
    /\ UNCHANGED <<disk, fs, fp, size, btr, nread, got>>

-----------------------------------------------------------------------------
(* f_read, and the loop of try_flash around it. *)

\* f_read is called: no more than what remains of the file.
f_read ==
    /\ fpc = "feed"
    /\ btr' = (IF size > fp.fsize - fp.fptr THEN fp.fsize - fp.fptr ELSE size)
    /\ nread' = 0
    /\ fpc' = "read"
    /\ UNCHANGED <<disk, fs, winsect, dj, fp, size, got, fres, io>>

AtSector == fp.fptr % SS = 0
csect == (fp.fptr \div SS) % fs.csize

AtCluster == AtSector /\ csect = 0

\* On the cluster boundary: the next one of the chain.
NextCluster ==
    /\ fpc = "read" /\ btr > 0 /\ AtCluster
    /\ \E clst \in {fp.sclust} \cup FatValues(fp.clust) :
          /\ IF fp.fptr = 0 THEN clst = fp.sclust /\ UNCHANGED <<winsect, io>>
             ELSE GetFat(fp.clust, clst)
          /\ \/ clst < 2 /\ Give("INT_ERR") /\ UNCHANGED fp
             \/ clst = DISK_ERR /\ Give("DISK_ERR") /\ UNCHANGED fp
             \/ /\ clst >= 2 /\ clst # DISK_ERR
                /\ fp' = [fp EXCEPT !.clust = clst]
                /\ fpc' = "sector" /\ UNCHANGED fres
    /\ UNCHANGED <<disk, fs, dj, size, btr, nread, got>>

InCluster == fpc = "sector" \/ (fpc = "read" /\ btr > 0 /\ ~AtCluster)

\* rbuff, fptr, br and btr move on by n bytes.
Advance(bytes) ==
    /\ got' = got \o bytes
    /\ nread' = nread + Len(bytes) /\ btr' = btr - Len(bytes)
    /\ fpc' = "read" /\ UNCHANGED fres

Bytes(sect, from, n) == [i \in 1 .. n |-> Sector(sect + (from + i - 1) \div SS).bytes[(from + i - 1) % SS]]

\* The sector on whose boundary the file is, or 0.
Sect == IF clust2sect(fp.clust) = 0 THEN 0 ELSE clust2sect(fp.clust) + csect

\* A cluster number behind the volume's end: the chain is shorter than the file.
BadCluster ==
    /\ InCluster /\ AtSector /\ Sect = 0
    /\ Give("INT_ERR")
    /\ UNCHANGED <<disk, fs, winsect, dj, fp, size, btr, nread, got, io>>

\* Whole sectors go straight to the caller, as many as the cluster still has.
ReadDirect ==
    /\ InCluster /\ AtSector /\ Sect # 0 /\ btr >= SS
    /\ LET cc == IF csect + btr \div SS > fs.csize THEN fs.csize - csect ELSE btr \div SS
       IN  \/ /\ DiskReads
              /\ Advance(Bytes(Sect, 0, cc * SS))
              /\ fp' = [fp EXCEPT !.fptr = @ + cc * SS]
           \/ DiskFails /\ Give("DISK_ERR") /\ UNCHANGED <<fp, btr, nread, got>>
    /\ UNCHANGED <<disk, fs, winsect, dj, size>>

Buffered(sect) == fp.dsect = sect

\* A part of a sector comes through the file object's own buffer.
ReadBuffered ==
    /\ InCluster /\ (AtSector => Sect # 0 /\ btr < SS)
    /\ LET off   == fp.fptr % SS
           dsect == IF AtSector /\ ~Buffered(Sect) THEN Sect ELSE fp.dsect
           n     == IF SS - off > btr THEN btr ELSE SS - off
       IN  \/ /\ IF dsect = fp.dsect THEN UNCHANGED io ELSE DiskReads
              /\ Advance(Bytes(dsect, off, n))
              /\ fp' = [fp EXCEPT !.fptr = @ + n, !.dsect = dsect]
           \/ /\ dsect # fp.dsect /\ DiskFails
              /\ Give("DISK_ERR") /\ UNCHANGED <<fp, btr, nread, got>>
    /\ UNCHANGED <<disk, fs, winsect, dj, size>>

\* f_read returns FR_OK; nothing read means the end of the file.
ReadReturns ==
    /\ fpc = "read" /\ btr = 0
    /\ fpc' = IF nread = 0 THEN "eof" ELSE "feed"
    /\ UNCHANGED <<disk, fs, winsect, dj, fp, size, btr, nread, got, fres, io>>

FatNext ==
    \/ f_mount \/ check_fs \/ chk_mounted
    \/ dir_sdi \/ DirWindow \/ Found \/ FoundEnd \/ DirNext
    \/ f_read \/ NextCluster \/ BadCluster \/ ReadDirect \/ ReadBuffered \/ ReadReturns

\* try_flash runs on to an end.
FatSpec == FatInit /\ [][FatNext]_fvars /\ WF_fvars(FatNext)

-----------------------------------------------------------------------------
\* The file's contents, or none when the volume does not hold the whole file.
File == disk.file

\* A failed disk_read ends the update, whichever of FatFs's functions asked for it: nothing
\* more is read, since the driver is then out of step with the card, and no end of the file
\* is reported.
FailureStops == io = "fine" \/ (io = "failed" /\ fpc = "stop")

\* Whatever the type, the cluster size and the fragmentation of the volume, try_flash
\* gets a prefix of the file and, when it meets the end, all of it.  Without a failed
\* disk_read an intact file is found and read, and a damaged one is refused.
FileExact ==
    /\ File # {} => \A f \in File : IsPrefix(got, f)
    /\ fpc = "eof" => got \in File
    /\ fpc = "stop" /\ File # {} => io # "fine"
    /\ FailureStops

\* f_open and f_read return, from a directory whose chain is a circle too.
FatReturns == fpc = "check" ~> fpc \in {"stop", "eof"}
=============================================================================
