------------------------------ MODULE CpmDisks ------------------------------
(***************************************************************************)
(* The two disks of the CP/M ports: what the guest sets by ports 9 to d,   *)
(* the drive it selects by port e, which falls through to the command port *)
(* f, and the files the images are loaded from and saved to.               *)
(*                                                                         *)
(* A command moves one sector between the memory and the image of a drive, *)
(* which is kept in memory; a write saves an image afterwards.  The guest  *)
(* is the only one that touches the memory; the debugger gives the drives  *)
(* other files between two instructions, and the floppy controller, which  *)
(* has the same names, loads the images again.  That it may write into the *)
(* files too is left out.                                                  *)
(***************************************************************************)
EXTENDS Integers, Sequences

CONSTANTS SectorSize,        \* 128
          SectorsPerTrack,   \* 26
          Half,              \* 256, values of half an address
          MemorySize,        \* 65536
          Values,            \* of a byte of memory or image
          Sectors, Tracks,   \* what the guest sets
          Names,             \* of image files
          Protected,         \* those that begin with _
          Floppies,          \* those that end in .img; the others end in .cpm
          FirstFiles,        \* the files there are at the start
          FirstNames         \* image_name_a and image_name_b at the start

ASSUME DiskAssumption ==
  /\ SectorSize \in Nat \ {0} /\ SectorsPerTrack \in Nat \ {0} /\ Half \in Nat \ {0}
  /\ MemorySize \in Nat \ {0} /\ Tracks \subseteq Nat /\ Sectors \subseteq Nat
  /\ Protected \subseteq Names /\ Floppies \subseteq Names

ReadCommand == 32    \* 0x20
WriteCommand == 48   \* 0x30
Missing == <<-1>>     \* no contents of a file
NoName == "none"

VARIABLES sector_ram,      \* the two halves of the address, "low" and "high"
          sector, track, drive,
          memory,
          image,           \* disk and diskb: sequences of bytes, by drive
          file,            \* contents of the named files, or Missing
          name,            \* image_name_a and image_name_b, by drive
          loaded           \* the name each drive has had since its image was loaded

disks == <<sector_ram, sector, track, drive, memory, image, file, name, loaded>>

Drives == {0, 1}

ASSUME FilesAssumption ==
  /\ FirstFiles \subseteq [Names -> Seq(Values) \union {Missing}]
  /\ FirstNames \subseteq [Drives -> Names] /\ NoName \notin Names

Addr == sector_ram.high * Half + sector_ram.low

\* The bytes of the image a command is about, and those it moves: no further
\* than the end of the image and of the memory.  The sector below the first
\* is far beyond the end, in unsigned arithmetic.
RawSector == sector + track * SectorsPerTrack - 1
Offset(k) == RawSector * SectorSize + k
Moved(d) ==
  {k \in 0..(SectorSize - 1) :
     /\ RawSector >= 0 /\ Offset(k) < Len(image[d])
     /\ Addr + k < MemorySize}

\* initcpmdisks: without a file for drive A nothing is loaded at all.
InitCpmDisks(names) ==
  LET there(d) == file[names[d]] # Missing
      loads(d) == there(0) /\ there(d)
  IN  /\ image' = [d \in Drives |-> IF loads(d) THEN file[names[d]] ELSE image[d]]
      /\ loaded' = [d \in Drives |-> IF loads(d) THEN names[d] ELSE loaded[d]]

DisksInit ==
  /\ sector_ram = [low |-> 0, high |-> 0] /\ sector = 0 /\ track = 0 /\ drive = 0
  /\ memory \in [0..(MemorySize - 1) -> Values]
  /\ file \in FirstFiles /\ name \in FirstNames
  /\ LET loads(d) == file[name[0]] # Missing /\ file[name[d]] # Missing
     IN  /\ image = [d \in Drives |-> IF loads(d) THEN file[name[d]] ELSE <<>>]
         /\ loaded = [d \in Drives |-> IF loads(d) THEN name[d] ELSE NoName]

SetAddress(half, v) ==
  /\ sector_ram' = [sector_ram EXCEPT ![half] = v]
  /\ UNCHANGED <<sector, track, drive, memory, image, file, name, loaded>>
SetTrack(v) ==
  /\ track' = v
  /\ UNCHANGED <<sector_ram, sector, drive, memory, image, file, name, loaded>>
SetSector(v) ==
  /\ sector' = v
  /\ UNCHANGED <<sector_ram, track, drive, memory, image, file, name, loaded>>

ReadSector(d) ==
  /\ memory' = [a \in DOMAIN memory |->
                  IF d \in Drives /\ \E k \in Moved(d) : a = Addr + k
                  THEN image[d][Offset(a - Addr) + 1] ELSE memory[a]]
  /\ UNCHANGED <<image, file>>

\* Both drives save the image of drive A.
SavedEarly(d, images) == image[0]
Saved(d, images) == images[0]
WriteSector(d) ==
  LET written ==
        [i \in DOMAIN image[d] |->
           IF \E k \in Moved(d) : i = Offset(k) + 1
           THEN memory[Addr + (i - 1 - Offset(0))] ELSE image[d][i]]
      images == [image EXCEPT ![d] = written]
  IN  /\ IF d \in Drives
         THEN /\ image' = images
              /\ file' = IF name[d] \in Protected THEN file
                         ELSE [file EXCEPT ![name[d]] = Saved(d, images)]
         ELSE UNCHANGED <<image, file>>
      /\ UNCHANGED memory

\* Port f; every other value does nothing, and port e comes here as well.
Command(d, v) ==
  CASE v = ReadCommand  -> ReadSector(d)
    [] v = WriteCommand -> WriteSector(d)
    [] OTHER -> UNCHANGED <<memory, image, file>>
CommandPort(v) ==
  /\ Command(drive, v)
  /\ UNCHANGED <<sector_ram, sector, track, drive, name, loaded>>
DrivePortLate(v) ==
  /\ drive' = v /\ Command(drive, v)
  /\ UNCHANGED <<sector_ram, sector, track, name, loaded>>
DrivePort(v) ==
  /\ drive' = v /\ Command(v, v)
  /\ UNCHANGED <<sector_ram, sector, track, name, loaded>>

\* The guest stores a byte anywhere.
Store(a, v) ==
  /\ memory' = [memory EXCEPT ![a] = v]
  /\ UNCHANGED <<sector_ram, sector, track, drive, image, file, name, loaded>>

\* assembleFormattedDiskArray of the image in drive d, which the floppy controller
\* calls at reset and for each command that reads or writes a sector or a track: a
\* CP/M image loads the CP/M disks again, with whatever the guest has not saved.
Reassemble(d) ==
  /\ IF name[d] \in Floppies THEN UNCHANGED <<image, loaded>> ELSE InitCpmDisks(name)
  /\ UNCHANGED <<sector_ram, sector, track, drive, memory, file, name>>

\* dofile: a CP/M image loads both drives and resets the computer, which loads
\* the same again; a floppy image has the controller assemble the drive it has
\* latched, which may be the other one with a CP/M image.
NameFile(d, n) ==
  LET names == [name EXCEPT ![d] = n]
  IN  /\ file[n] # Missing
      /\ name' = names
      /\ \E latched \in Drives :
           IF n \in Floppies /\ names[latched] \in Floppies
           THEN loaded' = [loaded EXCEPT ![d] = NoName] /\ UNCHANGED image
           ELSE InitCpmDisks(names)
      /\ UNCHANGED <<sector_ram, sector, track, drive, memory, file>>

GuestDisks ==
  \/ \E half \in {"low", "high"}, v \in 0..(Half - 1) : SetAddress(half, v)
  \/ \E v \in Tracks : SetTrack(v)
  \/ \E v \in Sectors : SetSector(v)
  \/ \E v \in {ReadCommand, WriteCommand} : CommandPort(v)
  \/ \E v \in Drives \union {ReadCommand, WriteCommand} : DrivePort(v)
  \/ \E a \in 0..(MemorySize - 1), v \in Values : Store(a, v)

-----------------------------------------------------------------------------

\* The guest changes one sector of the drive that is selected at most, to what
\* the memory at the address holds; selecting a drive changes none, though its
\* port falls through to the commands (mainboard.c:815-868).
Reloaded(images, names) == \A d \in Drives : images[d] \in {file[names[d]], image[d]}
SectorOf(i) == (i - 1) \div SectorSize
WritesOneSector ==
  [][(image' # image /\ ~Reloaded(image', name')) =>
        \A d \in Drives : \A i \in DOMAIN image[d] :
           /\ Len(image'[d]) = Len(image[d])
           /\ image'[d][i] # image[d][i] =>
                /\ d = drive /\ d = drive' /\ SectorOf(i) = RawSector
                /\ image'[d][i] = memory[Addr + ((i - 1) % SectorSize)]]_disks

\* The file drive A was loaded from holds what the guest has written there, as
\* long as the drive has that name and the floppy controller writes no sector of
\* the same file (mainboard.c:63-88, 869-875, debug.c:563-668, jwd1797.c:1618-1631).
DriveASaved ==
  (name[0] = loaded[0] /\ name[0] \notin Protected) => file[name[0]] = image[0]
=============================================================================
