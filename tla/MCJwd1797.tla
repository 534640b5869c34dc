----------------------------- MODULE MCJwd1797 ------------------------------
(* Constants of the floppy runs: two cylinders, two sides, two sectors of  *)
(* two bytes.                                                              *)
EXTENDS Jwd1797

\* Lengths of the size codes; code 1 is the one on the disks.
Sizes == [n \in 0 .. 4 |-> n + 1]

\* Every byte on the disks tells the drive, the place and its position.
Disks ==
  [d \in Drives |->
    [p \in Places |->
      [i \in 1 .. SectorLength |->
        10 + 8 * (2 * (2 * (2 * d + p[1]) + p[2]) + p[3]) + i]]]

\* What a program writes: commands, track and sector registers, data, latch.
Program(c, t, s, b, l) ==
  [commands |-> c, tracks |-> t, sectors |-> s, bytes |-> b, latches |-> l]

\* Stepping: RESTORE, SEEK, STEP, STEP-OUT and D0, also off the disk and with
\* a track register changed on the way; STEP and STEP-IN with update, SEEK with
\* head load and the immediate interrupt; SEEK with verification, the track
\* register changed before.
Stepping == Program({0, 16, 48, 96, 208}, {1}, {}, {0, 2}, {})
Updating == Program({24, 56, 80, 216}, {}, {}, {1}, {})
Verifying == Program({20}, {1}, {}, {1}, {})

\* Reading: a sector after a SEEK, from drive B, all sectors from one on on
\* side 1 after the E delay, the address, the track with the index interrupt.
ReadingOne == Program({16, 128}, {}, {1}, {1}, {})
ReadingDriveB == Program({128}, {}, {1}, {}, {1})
ReadingAll == Program({150}, {}, {1}, {}, {})
ReadingAddress == Program({192}, {}, {}, {}, {})
ReadingTrack == Program({212, 224}, {}, {}, {}, {})

\* Writing a sector with any number of bytes, and on a protected drive and on
\* one that is not there.
WritingOne == Program({160}, {}, {1}, {200}, {})
WritingDrives == Program({160, 240}, {}, {1}, {}, {1, 2})

AllPrograms == {Stepping, Updating, Verifying, ReadingOne, ReadingDriveB, ReadingAll,
                ReadingAddress, ReadingTrack, WritingOne, WritingDrives}

\* Reading from sector 1 on, with the processor stalled on the data register.
StalledReading == Program({144}, {}, {1}, {}, {})

\* The programs of the liveness run.
FairPrograms == {Program({20}, {}, {}, {1}, {}), Program({16, 216}, {}, {}, {0, 2}, {}),
                 ReadingAddress, ReadingTrack, Program({132, 208}, {}, {}, {}, {}), StalledReading}

BelowTrack0 == -1
=============================================================================
