------------------------------ MODULE Jwd1797 -------------------------------
(***************************************************************************)
(* The floppy controller (src/jwd1797.c): one record w for the struct      *)
(* JWD1797, the functions of the file as operators on it, and the port     *)
(* accesses of the processor between two calls of doJWD1797Cycle.          *)
(*                                                                         *)
(* Delays (step, head load, head settling, E) are counters of microseconds *)
(* in the code.  Here the set fired says which of the delays that are      *)
(* running end in this cycle: any length is possible, fairness makes each  *)
(* one end.  The index pulse is as long as PulseBytes bytes.  ready_pin    *)
(* and not_master_reset never leave 1; the two READY conditions of a       *)
(* forced interrupt are set and cleared but never tested: both are left    *)
(* out, like TG43, the lights and the clicks.                              *)
(***************************************************************************)
EXTENDS Integers, Sequences

CONSTANTS
  Cylinders, Heads, Sectors, \* the geometry of both disks
  SectorLength,              \* bytes of a sector
  SizeOf,                    \* getSectorLengthFromID: length of each size code
  SyncLength, ZeroRun,       \* 0x00 bytes written and looked for (12 and 4)
  PrefixLength,              \* 0xA1 bytes before a mark (3)
  GapLength,                 \* the shortest gap
  IdLimit, DataLimit,        \* ID_FIELD_SEARCH_LIMIT 16, DATA_AM_SEARCH_LIMIT 43
  VerifyPulses, AddressPulses, IdlePulses, \* index pulses: 5, 6, 15
  PulseBytes, Gap4a,         \* bytes under the index pulse; 80, not looked at
  FirstByte,                 \* where the head is after reset (2500)
  Clobbered,                 \* tracks at the end of the array that may be overwritten
  Junk,                      \* bytes read from outside the array
  Stale,                     \* bytes malloc may return
  Image,                     \* the disks at the start
  Protected,                 \* drives whose file name starts with '_'
  Programs,                  \* what programs may write to each port
  Lowest, Highest            \* bound on where the head may be stepped

Byte == 0 .. 255
Drives == {0, 1}
Delays == {"step", "load", "settle", "e"}
Places == (0 .. Cylinders - 1) \X (0 .. Heads - 1) \X (1 .. Sectors)

ASSUME GeometryAssumption ==
  /\ Cylinders \in Nat \ {0} /\ Heads \in {1, 2} /\ Sectors \in 1 .. 254
  /\ Cylinders <= 255
  /\ SectorLength \in Nat \ {0} /\ SizeOf \in [0 .. 4 -> Nat \ {0}]
  /\ \E n \in 0 .. 4 : SizeOf[n] = SectorLength
  /\ Clobbered \in Nat

ASSUME FormatAssumption ==
  /\ {ZeroRun, PrefixLength, GapLength} \subseteq Nat \ {0}
  /\ SyncLength \in Nat /\ SyncLength >= ZeroRun
  /\ {IdLimit, DataLimit, VerifyPulses, AddressPulses, IdlePulses,
      PulseBytes, Gap4a} \subseteq Nat \ {0}
  /\ FirstByte \in Nat

ASSUME ContentAssumption ==
  /\ Junk \subseteq Byte /\ Junk # {} /\ Stale \subseteq Byte /\ Stale # {}
  /\ Image \in [Drives -> [Places -> [1 .. SectorLength -> Byte]]]
  /\ Protected \subseteq Drives

ASSUME EnvironmentAssumption ==
  /\ Programs \subseteq [commands : SUBSET Byte, tracks : SUBSET Byte,
                         sectors : SUBSET Byte, bytes : SUBSET Byte,
                         latches : SUBSET Byte]
  /\ Lowest \in Int /\ Highest \in Int /\ Lowest <= 0 /\ Highest >= Cylinders - 1

VARIABLES
  w,        \* the controller
  disk,     \* the image files
  program,  \* what the running program may write
  accessed, \* the instruction of this turn of the loop has accessed a port
  waiting,  \* wait_state: the processor stalls in an input from B3
  sent,     \* history: the bytes this READ SECTOR has put in the data register
  origin,   \* history: the sector register when this command was accepted
  turns,    \* history: the index pulses since then
  legal     \* history: the rules of jwd1797.h 37-43 and the disk's edge were kept

vars == <<w, disk, program, accessed, waiting, sent, origin, turns, legal>>

-----------------------------------------------------------------------------
(* Status bits.                                                            *)

Busy == 0
DataRequest == 1     \* the index pulse, for a type I command
LostData == 2        \* track 0, for a type I command
CrcError == 3
NotFound == 4        \* a seek error, for a type I command
HeadLoaded == 5

Bit(v, i) == (v \div 2^i) % 2 = 1

-----------------------------------------------------------------------------
(* The formatted track (assembleFormattedDiskArray).                       *)

Run(b, n) == [i \in 1 .. n |-> b]

SizeCode == CHOOSE n \in 0 .. 4 : SizeOf[n] = SectorLength

TrackHeader ==
  Run(78, GapLength) \o Run(0, SyncLength) \o Run(194, PrefixLength)
    \o <<252>> \o Run(78, GapLength)

SectorBytes(payload, c, h, s) ==
  Run(0, SyncLength) \o Run(161, PrefixLength) \o <<254, c, h, s, SizeCode, 1, 1>>
    \o Run(78, GapLength) \o Run(0, SyncLength) \o Run(161, PrefixLength)
    \o <<251>> \o payload \o <<1, 1>> \o Run(78, GapLength)

HeaderLength == 2 * GapLength + SyncLength + PrefixLength + 1
SectorSpan == 2 * (SyncLength + PrefixLength + GapLength) + 10 + SectorLength
TrackLength == HeaderLength + Sectors * SectorSpan + GapLength

\* The byte at position p of track c, side h, of an image.
FormattedByte(image, c, h, p) ==
  LET q == p - HeaderLength
      s == q \div SectorSpan + 1
  IN IF q < 0 THEN TrackHeader[p + 1]
     ELSE IF s > Sectors THEN 78
     ELSE SectorBytes(image[<<c, h, s>>], c, h, s)[(q % SectorSpan) + 1]

\* getFDiskByte: the array holds Heads tracks for each cylinder, the code
\* always skips two.  The array is a local of a function that has returned:
\* its end may have been overwritten, and there is nothing behind it.
GetFDiskByte(k, junk) ==
  LET b == 2 * k.head + k.sso
  IN IF b \in 0 .. Cylinders * Heads - Clobbered - 1
     THEN FormattedByte(disk[k.loaded], b \div Heads, b % Heads, k.ptr)
     ELSE junk

-----------------------------------------------------------------------------
(* Ends and interrupts.                                                    *)

Raise(k) == [k EXCEPT !.intrq = TRUE, !.line = TRUE]
Lower(k) == [k EXCEPT !.intrq = FALSE, !.line = FALSE]
StopStillBusy(k) == [k EXCEPT !.done = TRUE]
Stop(k) == [k EXCEPT !.done = TRUE, !.status = @ \ {Busy}]
Finish(k) == Raise(Stop(k))
Fail(k, bit) == Finish([k EXCEPT !.status = @ \cup {bit}])

ReflectTypeI(k) ==
  [k EXCEPT !.status = @ \ {Busy, CrcError, NotFound}, !.type = 1]

ForcedEnd(k) == IF k.done THEN ReflectTypeI(k) ELSE Stop(k)

-----------------------------------------------------------------------------
(* Looking for an ID field.                                                *)

Unfound == [zeros |-> 0, a1s |-> 0, misses |-> 0, found |-> FALSE,
            pt |-> 0, full |-> FALSE]
Unmarked == [a1s |-> 0, misses |-> 0, found |-> FALSE, all |-> FALSE]

\* IDAddressMarkSearch: zeros, then the prefix within IdLimit bytes, then FE.
IDAddressMarkSearch(k, b) ==
  LET f == k.find
      restart == [f EXCEPT !.zeros = 0, !.a1s = 0, !.misses = 0, !.found = FALSE]
      next ==
        IF f.zeros < ZeroRun THEN [f EXCEPT !.zeros = IF b = 0 THEN @ + 1 ELSE 0]
        ELSE IF f.a1s < PrefixLength
             THEN IF b = 161 THEN [f EXCEPT !.a1s = @ + 1]
                  ELSE IF f.misses + 1 >= IdLimit
                       THEN [f EXCEPT !.zeros = 0, !.a1s = 0, !.misses = 0]
                       ELSE [f EXCEPT !.a1s = 0, !.misses = @ + 1]
        ELSE IF ~f.found /\ b = 254 THEN [f EXCEPT !.found = TRUE]
        ELSE restart
  IN [k EXCEPT !.find = next]

\* collectIDFieldData: six bytes; the seventh says that they are complete.
CollectIDFieldData(k, b) ==
  IF k.find.pt < 6
  THEN [k EXCEPT !.id[k.find.pt + 1] = b, !.find.pt = @ + 1]
  ELSE [k EXCEPT !.find.full = TRUE]

CrcHolds(k) == k.id[5] = 1 /\ k.id[6] = 1

\* verifyTrackID, verifySectorID, verifyHeadID: a mismatch starts again.
SearchAgain(k) == [k EXCEPT !.find = Unfound]

CrcFails(k) == [SearchAgain(k) EXCEPT !.status = @ \cup {CrcError}]
CrcPasses(k) == [k EXCEPT !.status = @ \ {CrcError}, !.verifying = FALSE]

\* verifyCRC, which ends the command, and its type II form, which does not.
VerifyCRC(k) == IF CrcHolds(k) THEN Finish(CrcPasses(k)) ELSE CrcFails(k)

TimedOutSilent(k) ==
  Stop([k EXCEPT !.verifying = FALSE, !.status = @ \cup {NotFound}])
TimedOut(k) == Fail([k EXCEPT !.verifying = FALSE], NotFound)

-----------------------------------------------------------------------------
(* commandStep, type I: move the head, then load it and verify the track.  *)
(* In these operators t is the time that passes: whether a new byte comes  *)
(* under the head, the delays that end, and what is read off the array.    *)

Acted(k) == [k EXCEPT !.acted = TRUE]
StepBy(k, d) == [k EXCEPT !.head = @ + d, !.dir = (d + 1) \div 2]
Follow(k) == [k EXCEPT !.track = k.head % 256]
StepEnds(t) == "step" \in t.fired

Restore(k, t) ==
  IF k.head = 0 THEN Acted([k EXCEPT !.track = 0])
  ELSE IF StepEnds(t) THEN StepBy(k, -1) ELSE k

Seek(k, t) ==
  IF k.track = k.data THEN Acted(k)
  ELSE IF StepEnds(t) THEN Follow(StepBy(k, IF k.track > k.data THEN -1 ELSE 1))
  ELSE k

OneStep(k, t, d) ==
  LET there == StepBy(k, d)
  IN IF StepEnds(t) THEN Acted(IF k.update THEN Follow(there) ELSE there) ELSE k

StepOut(k, t) ==
  IF k.head = 0 THEN Acted([k EXCEPT !.track = 0]) ELSE OneStep(k, t, -1)

StepIn(k, t) == IF k.head = Cylinders - 1 THEN Acted(k) ELSE OneStep(k, t, 1)

Step(k, t) == IF k.dir = 0 THEN StepOut(k, t) ELSE StepIn(k, t)

TypeIAction(k, t) ==
  CASE k.name = "RESTORE"  -> Restore(k, t)
    [] k.name = "SEEK"     -> Seek(k, t)
    [] k.name = "STEP"     -> Step(k, t)
    [] k.name = "STEP-IN"  -> StepIn(k, t)
    [] k.name = "STEP-OUT" -> StepOut(k, t)
    [] OTHER -> k

\* HLD goes high: the one shot drops HLT and its timer starts.
LoadHeadUntimed(k) == [k EXCEPT !.hld = TRUE, !.hlt = FALSE]
LoadHead(k) == [k EXCEPT !.hld = TRUE, !.hlt = FALSE, !.loading = TRUE]

DelayedLoad(k) ==
  IF k.delayed /\ ~k.hld THEN [LoadHead(k) EXCEPT !.delayed = FALSE] ELSE k

Settle(k, t) == [k EXCEPT !.settled = @ \/ "settle" \in t.fired]

\* One byte of the search for an ID field: the mark, then the six bytes.
ReadID(k, t) ==
  LET b == GetFDiskByte(k, t.junk)
  IN IF k.find.found THEN CollectIDFieldData(k, b) ELSE IDAddressMarkSearch(k, b)

Searching(k) == ~k.find.found \/ ~k.find.full

TypeIVerifySequenceAnyTrack(k, t) ==
  LET s == Settle(k, t)
      v == [s EXCEPT !.verifying = TRUE]
  IN IF ~s.settled \/ ~s.hlt THEN s
     ELSE IF v.index >= VerifyPulses THEN TimedOut(v)
     ELSE IF t.byte /\ Searching(v) THEN ReadID(v, t)
     ELSE IF ~v.find.full THEN v ELSE VerifyCRC(v)
TypeIVerifySequence(k, t) ==
  LET s == Settle(k, t)
      v == [s EXCEPT !.verifying = TRUE]
  IN IF ~s.settled \/ ~s.hlt THEN s
     ELSE IF v.index >= VerifyPulses THEN TimedOut(v)
     ELSE IF t.byte /\ Searching(v) THEN ReadID(v, t)
     ELSE IF ~v.find.full THEN v
     ELSE IF v.track = v.id[1] THEN VerifyCRC(v) ELSE SearchAgain(v)

TypeIStep(k, t) ==
  IF ~k.acted THEN TypeIAction(k, t)
  ELSE LET l == DelayedLoad(k)
       IN IF l.verify THEN TypeIVerifySequence(l, t) ELSE Finish(l)

-----------------------------------------------------------------------------
(* commandStep, type II: find the sector's ID field, then its data.        *)

\* handleEDelay: the cycle in which the delay ends goes on.
EDelay(k, t) == IF k.edelay THEN [k EXCEPT !.edone = @ \/ "e" \in t.fired] ELSE k
EWaits(k) == k.edelay /\ ~k.edone

\* getSectorLengthFromID returns nothing for another code.
LengthFromID(k, t) == IF k.id[4] \in 0 .. 4 THEN SizeOf[k.id[4]] ELSE t.junk

TypeIICmdIDVerify(k, t) ==
  IF k.index >= VerifyPulses THEN TimedOut(k)
  ELSE IF t.byte /\ Searching(k) THEN ReadID(k, t)
  ELSE IF ~k.find.full THEN k
  ELSE IF k.track # k.id[1] \/ k.sector # k.id[3] \/ k.side # k.id[2]
       THEN SearchAgain(k)
  ELSE LET l == [k EXCEPT !.left = LengthFromID(k, t)]
       IN IF CrcHolds(l) THEN [CrcPasses(l) EXCEPT !.verified = TRUE] ELSE CrcFails(l)

\* dataAddressMarkSearch: the prefix and FB within DataLimit bytes.
DataAddressMarkSearch(k, b) ==
  IF k.mark.a1s = PrefixLength /\ b = 251 THEN [k EXCEPT !.mark.found = TRUE]
  ELSE IF k.mark.a1s < PrefixLength /\ b = 161 THEN [k EXCEPT !.mark.a1s = @ + 1]
  ELSE LET m == [k EXCEPT !.mark.a1s = 0, !.mark.misses = @ + 1]
       IN IF m.mark.misses >= DataLimit THEN Fail(m, NotFound) ELSE m

\* A byte in the data register; the one before is lost if nobody took it.
DeliverSilent(k, b) == [k EXCEPT !.data = b, !.status = @ \cup {DataRequest}]
Deliver(k, b) == [k EXCEPT !.data = b, !.drq = TRUE, !.status = @ \cup {DataRequest}]
NoteLost(k) ==
  [k EXCEPT !.status = IF k.drq THEN @ \cup {LostData} ELSE @ \ {LostData}]

DataByte(k, b) ==
  LET d == Deliver(NoteLost(k), b)
  IN [d EXCEPT !.left = @ - 1, !.mark.all = (k.left = 1)]

\* The next record of a multiple record command.
NextRecordSameMark(k) ==
  LET n == [k EXCEPT !.sector = (@ + 1) % 256]
  IN IF n.sector > Sectors THEN Finish(n)
     ELSE [n EXCEPT !.index = 0, !.verified = FALSE, !.find = Unfound, !.mark.all = FALSE]
NextRecord(k) ==
  LET n == [k EXCEPT !.sector = (@ + 1) % 256]
  IN IF n.sector > Sectors THEN Finish(n)
     ELSE [n EXCEPT !.index = 0, !.verified = FALSE, !.find = Unfound, !.mark = Unmarked]

ReadSector(k, t) ==
  LET b == GetFDiskByte(k, t.junk)
  IN IF ~k.mark.found THEN IF t.byte THEN DataAddressMarkSearch(k, b) ELSE k
     ELSE IF ~k.mark.all THEN IF t.byte THEN DataByte(k, b) ELSE k
     ELSE IF k.multi THEN NextRecord(k) ELSE Finish(k)

\* writeSector copies the buffer whatever it holds and reloads that disk.
\* With drive 2 or 3 the file name is not initialised: stray stands for it.
TargetLoaded(k, stray) == k.loaded
Target(k, stray) == IF k.latch % 4 \in Drives THEN k.latch % 4 ELSE stray

WriteSector(k, stray) ==
  LET d == Target(k, stray)
  IN Finish(IF d \in Drives \ Protected THEN [k EXCEPT !.loaded = d] ELSE k)

TypeIIStep(k, t) ==
  LET e == EDelay(k, t)
      v == [e EXCEPT !.verifying = TRUE]
      u == [e EXCEPT !.verifying = FALSE]
  IN IF EWaits(e) \/ ~e.hlt THEN e
     ELSE IF ~e.verified THEN TypeIICmdIDVerify(v, t)
     ELSE IF e.name = "READ SECTOR" THEN ReadSector(u, t) ELSE WriteSector(u, t.stray)

-----------------------------------------------------------------------------
(* commandStep, type III.                                                  *)

ReadAddress(k, t) ==
  LET b == GetFDiskByte(k, t.junk)
      s == [k EXCEPT !.verifying = TRUE]
      f == IF t.byte THEN IDAddressMarkSearch(s, b) ELSE s
      c == [k EXCEPT !.verifying = FALSE]
      a == [c EXCEPT !.sector = k.id[1]]
  IN IF ~k.find.found
     THEN IF f.index >= AddressPulses THEN TimedOut(f) ELSE f
     ELSE IF k.idam < 6
     THEN IF t.byte THEN [Deliver(c, b) EXCEPT !.id[k.idam + 1] = b, !.idam = @ + 1] ELSE c
     ELSE IF CrcHolds(a) THEN Finish(CrcPasses(a)) ELSE Finish(CrcFails(a))

\* The index pin is high while the first PulseBytes bytes pass.
\* read_track_bytes_read is only compared with 80: it stops above.
IndexPulse(k) == k.ptr < PulseBytes

ReadTrack(k, t) ==
  LET s == [k EXCEPT !.started = @ \/ IndexPulse(k)]
      d == Deliver(NoteLost(s), GetFDiskByte(s, t.junk))
  IN IF ~s.started \/ ~t.byte THEN s
     ELSE IF s.passed > Gap4a /\ IndexPulse(s) THEN Finish(s)
     ELSE [d EXCEPT !.passed = IF @ > Gap4a THEN @ ELSE @ + 1]

TypeIIIStep(k, t) ==
  LET e == EDelay(k, t)
  IN IF EWaits(k) \/ ~e.hlt THEN e
     ELSE CASE e.name = "READ ADDRESS" -> ReadAddress(e, t)
            [] e.name = "READ TRACK"   -> ReadTrack(e, t)
            [] e.name = "WRITE TRACK"  -> Finish(e)
            [] OTHER -> e

CommandStep(k, t) ==
  CASE k.done     -> k
    [] ~k.done /\ k.type = 1 -> TypeIStep(k, t)
    [] ~k.done /\ k.type = 2 -> TypeIIStep(k, t)
    [] ~k.done /\ k.type = 3 -> TypeIIIStep(k, t)
    [] OTHER -> k

-----------------------------------------------------------------------------
(* doJWD1797Cycle.                                                         *)

Terminate(k) == IF "terminate" \in k.forced THEN ForcedEnd(k) ELSE k
Immediate(k) == IF "immediate" \in k.forced THEN Raise(ForcedEnd(k)) ELSE k

\* The disk turns; at the start of the track the pulses are counted.  The
\* count is only compared with its limits: it stops at the higher one.
MostPulses == IF VerifyPulses > AddressPulses THEN VerifyPulses ELSE AddressPulses

Count(n) == IF n < MostPulses THEN n + 1 ELSE n

Rotate(k, t) ==
  LET p == (k.ptr + 1) % TrackLength
      r == [k EXCEPT !.ptr = p]
  IN IF ~t.byte THEN k
     ELSE IF p # 0 THEN r
     ELSE [r EXCEPT !.idle = IF Busy \in k.status THEN 0 ELSE @ + 1,
                    !.index = IF k.verifying THEN Count(@) ELSE 0]

OnIndexPulseAlways(k, t) == IF t.byte /\ k.ptr = 0 THEN Raise(k) ELSE k
OnIndexPulse(k, t) ==
  IF t.byte /\ k.ptr = 0 /\ "index" \in k.forced THEN Raise(ForcedEnd(k)) ELSE k

HltTimer(k, t) ==
  IF k.loading /\ "load" \in t.fired THEN [k EXCEPT !.hlt = TRUE, !.loading = FALSE] ELSE k

\* The bits of the status that follow pins.
Pins(k) ==
  CASE k.type = 1 -> {<<DataRequest, IndexPulse(k)>>, <<HeadLoaded, k.hld /\ k.hlt>>,
                      <<LostData, k.head = 0>>}
    [] k.type \in {2, 3} -> {<<DataRequest, k.drq>>}
    [] OTHER -> {}

ShowPins(k) ==
  [k EXCEPT !.status = (@ \ {p[1] : p \in Pins(k)}) \cup {p[1] : p \in {q \in Pins(k) : q[2]}}]

HandleHLDIdle(k) ==
  LET u == IF k.idle >= IdlePulses THEN [k EXCEPT !.hld = FALSE, !.idle = 0] ELSE k
  IN IF Busy \in u.status THEN [u EXCEPT !.idle = 0] ELSE u

BeforeStep(k, t) ==
  ShowPins(HltTimer(OnIndexPulse(Rotate(Immediate(Terminate(k)), t), t), t))

DoCycle(k, t) == HandleHLDIdle(CommandStep(BeforeStep(k, t), t))

-----------------------------------------------------------------------------
(* doJWD1797Command.                                                       *)

\* setupForcedIntCommand and the flags that a write of the register clears.
ForceInterrupt(k, c) ==
  [k EXCEPT !.forced = @ \cup (IF Bit(c, 2) THEN {"index"} ELSE {})
                         \cup (IF Bit(c, 3) THEN {"immediate"} ELSE {})
                         \cup (IF c % 16 = 0 THEN {"terminate"} ELSE {})]

\* setupTypeICommand: HLD as the V and h flags ask.
HeadFlags(k, load, verify) ==
  CASE ~load /\ ~verify -> [k EXCEPT !.hld = FALSE]
    [] ~load /\ verify  -> [k EXCEPT !.delayed = TRUE]
    [] load             -> IF k.hld THEN k ELSE LoadHead(k)

SetupTypeI(k, c) ==
  HeadFlags([k EXCEPT !.type = 1, !.acted = FALSE, !.done = FALSE, !.settled = FALSE,
               !.verifying = FALSE, !.index = 0, !.find = Unfound, !.drq = FALSE,
               !.status = (@ \cup {Busy}) \ {CrcError, NotFound}, !.verify = Bit(c, 2)],
            Bit(c, 3), Bit(c, 2))

\* setTypeICommand: the name, and what the command presets.
SetTypeITrusting(k, c) ==
  LET u == [k EXCEPT !.update = Bit(c, 4)]
  IN CASE c \div 16 = 0 -> [k EXCEPT !.name = "RESTORE"]
       [] c \div 16 = 1 -> [k EXCEPT !.name = "SEEK"]
       [] c \div 32 = 1 -> [u EXCEPT !.name = "STEP"]
       [] c \div 32 = 2 -> [u EXCEPT !.name = "STEP-IN", !.dir = 1]
       [] c \div 32 = 3 -> [u EXCEPT !.name = "STEP-OUT", !.dir = 0]
SetTypeI(k, c) ==
  LET u == [k EXCEPT !.update = Bit(c, 4)]
  IN CASE c \div 16 = 0 -> [k EXCEPT !.name = "RESTORE"]
       [] c \div 16 = 1 -> Follow([k EXCEPT !.name = "SEEK"])
       [] c \div 32 = 1 -> [u EXCEPT !.name = "STEP"]
       [] c \div 32 = 2 -> [u EXCEPT !.name = "STEP-IN", !.dir = 1]
       [] c \div 32 = 3 -> [u EXCEPT !.name = "STEP-OUT", !.dir = 0]

Flags(k, c) ==
  LET f == [k EXCEPT !.side = IF Bit(c, 1) THEN 1 ELSE 0,
                     !.sso = IF Bit(c, 1) THEN 1 ELSE 0, !.edelay = Bit(c, 2)]
  IN IF f.hld THEN f ELSE LoadHead(f)

SetupTypeIIKeepsCount(k, c) ==
  Flags([Lower(k) EXCEPT !.type = 2, !.done = FALSE, !.edone = FALSE, !.verifying = FALSE,
           !.verified = FALSE, !.left = 0, !.find = Unfound, !.mark = Unmarked,
           !.status = (@ \cap {CrcError}) \cup {Busy}, !.drq = FALSE,
           !.multi = Bit(c, 4)], c)
SetupTypeII(k, c) ==
  Flags([Lower(k) EXCEPT !.type = 2, !.done = FALSE, !.edone = FALSE, !.verifying = FALSE,
           !.index = 0, !.verified = FALSE, !.left = 0, !.find = Unfound, !.mark = Unmarked,
           !.status = (@ \cap {CrcError}) \cup {Busy}, !.drq = FALSE,
           !.multi = Bit(c, 4)], c)

\* A read loads the image of the selected drive, a write does not.
Reload(k) == IF k.latch % 4 \in Drives THEN [k EXCEPT !.loaded = k.latch % 4] ELSE k

SetTypeII(k, c) ==
  LET u == [k EXCEPT !.count = 0]
  IN IF c \div 32 = 4 THEN Reload([u EXCEPT !.name = "READ SECTOR"])
     ELSE [u EXCEPT !.name = "WRITE SECTOR"]

SetupTypeIII(k, c) ==
  Flags([k EXCEPT !.type = 3, !.done = FALSE, !.edone = FALSE, !.find.found = FALSE,
           !.status = (@ \ {LostData, NotFound, HeadLoaded}) \cup {Busy}], c)

SetTypeIII(k, c) ==
  CASE c \div 16 = 12 -> [k EXCEPT !.name = "READ ADDRESS", !.idam = 0]
    [] c \div 16 = 14 -> Reload([k EXCEPT !.name = "READ TRACK", !.started = FALSE,
                                          !.passed = 0])
    [] OTHER -> [k EXCEPT !.name = "WRITE TRACK"]

\* A command, other than a forced interrupt, that comes while busy is lost.
Accepts(k, c) == c \div 16 # 13 /\ Busy \notin k.status

DoCommand(k, c) ==
  CASE c \div 16 = 13 -> ForceInterrupt(k, c)
    [] c \div 16 # 13 /\ Busy \in k.status -> k
    [] Accepts(k, c) /\ c < 128 -> SetTypeI(SetupTypeI(k, c), c)
    [] Accepts(k, c) /\ c \in 128 .. 191 -> SetTypeII(SetupTypeII(k, c), c)
    [] Accepts(k, c) /\ c >= 192 -> SetTypeIII(SetupTypeIII(k, c), c)

\* The status read and the command write both lower INTRQ.
Acknowledge(k) == [Lower(k) EXCEPT !.forced = @ \cap {"immediate"}]

CommandWrite(k, c) ==
  LET a == Acknowledge(k)
  IN DoCommand(IF c = 208 THEN [a EXCEPT !.forced = {}] ELSE a, c)

-----------------------------------------------------------------------------
(* The machine.                                                            *)

Reading == {"READ SECTOR", "READ ADDRESS", "READ TRACK"}
Writing == {"WRITE SECTOR", "WRITE TRACK"}

\* resetJWD1797, except for the line of the interrupt controller: intrq is
\* cleared without a call.
Fresh(line, buffer) ==
  [type |-> 0, name |-> "", done |-> FALSE, acted |-> FALSE, settled |-> FALSE,
   edone |-> FALSE, verifying |-> FALSE, verified |-> FALSE, index |-> 0,
   verify |-> FALSE, update |-> FALSE, side |-> 0, edelay |-> FALSE, multi |-> FALSE,
   forced |-> {}, status |-> {}, track |-> 0, sector |-> 0, data |-> 0, latch |-> 0,
   find |-> Unfound, mark |-> Unmarked, id |-> Run(0, 6), left |-> 0, idam |-> 0,
   started |-> FALSE, passed |-> 0, ptr |-> FirstByte % TrackLength,
   head |-> 0, dir |-> 0, sso |-> 0, hld |-> FALSE, hlt |-> FALSE, loading |-> FALSE,
   delayed |-> FALSE, idle |-> 0, drq |-> FALSE, intrq |-> FALSE, line |-> line,
   buffer |-> buffer, count |-> 0, loaded |-> 0]

Init ==
  /\ \E b \in [1 .. SectorLength -> Stale] : w = Fresh(FALSE, b)
  /\ disk = Image /\ program \in Programs
  /\ accessed = FALSE /\ waiting = FALSE
  /\ sent = <<>> /\ origin = 0 /\ turns = 0 /\ legal = TRUE

Reset ==
  /\ \E b \in [1 .. SectorLength -> Stale] : w' = Fresh(w.line, b)
  /\ accessed' = FALSE /\ waiting' = FALSE
  /\ sent' = <<>> /\ origin' = 0 /\ turns' = 0 /\ legal' = TRUE
  /\ UNCHANGED <<disk, program>>

\* A SEEK is on its way beyond the last track.
Overshoots(k) == Busy \in k.status /\ k.name = "SEEK" /\ k.data >= Cylinders

\* One port access: the instruction of this turn of the loop.
Access(k) ==
  /\ ~accessed /\ ~waiting
  /\ w' = k
  /\ accessed' = TRUE
  /\ UNCHANGED <<disk, program, waiting>>

ReadStatus == Access(Acknowledge(w)) /\ UNCHANGED <<sent, origin, turns, legal>>

WriteCommand ==
  \E c \in program.commands :
    LET k == CommandWrite(w, c)
    IN /\ Access(k)
       /\ legal' = (legal /\ ~Overshoots(k))
       /\ IF Accepts(w, c) THEN sent' = <<>> /\ origin' = w.sector /\ turns' = 0
          ELSE UNCHANGED <<sent, origin, turns>>

\* The track and sector registers can be written while a command uses them.
WriteTrack ==
  \E v \in program.tracks :
    /\ Access([w EXCEPT !.track = v])
    /\ legal' = (legal /\ Busy \notin w.status)
    /\ UNCHANGED <<sent, origin, turns>>

WriteSectorRegister ==
  \E v \in program.sectors :
    /\ Access([w EXCEPT !.sector = v])
    /\ legal' = (legal /\ Busy \notin w.status)
    /\ UNCHANGED <<sent, origin, turns>>

\* A byte in the data register answers a request; WRITE SECTOR also gathers
\* it, whether or not there was one.
DataWritten(k, v) ==
  LET d == [k EXCEPT !.data = v]
      g == IF k.name = "WRITE SECTOR" /\ k.count < SectorLength
           THEN [d EXCEPT !.buffer[k.count + 1] = v, !.count = @ + 1] ELSE d
  IN IF k.name \in Writing /\ k.drq
     THEN [g EXCEPT !.drq = FALSE, !.status = @ \ {DataRequest}] ELSE g

WriteData ==
  \E v \in program.bytes :
    LET k == DataWritten(w, v)
    IN /\ Access(k)
       /\ legal' = (legal /\ ~Overshoots(k))
       /\ UNCHANGED <<sent, origin, turns>>

WriteLatch ==
  \E v \in program.latches :
    Access([w EXCEPT !.latch = v]) /\ UNCHANGED <<sent, origin, turns, legal>>

\* The processor reaches an input from B3 with DRQ low and stalls.
Wait ==
  /\ ~accessed /\ ~waiting /\ ~w.drq
  /\ waiting' = TRUE /\ accessed' = TRUE
  /\ UNCHANGED <<w, disk, program, sent, origin, turns, legal>>

DataRead(k) ==
  IF k.name \in Reading THEN [k EXCEPT !.drq = FALSE, !.status = @ \ {DataRequest}] ELSE k

ReadData ==
  /\ ~accessed /\ w.drq
  /\ w' = DataRead(w)
  /\ accessed' = TRUE /\ waiting' = FALSE
  /\ UNCHANGED <<disk, program, sent, origin, turns, legal>>

\* The sector writeSector changes, by its offset in the file.
Offset(k) == (k.id[1] * Heads + k.id[2]) * Sectors + k.id[3] - 1
PlaceAt(n) == <<n \div (Heads * Sectors), (n \div Sectors) % Heads, (n % Sectors) + 1>>

Commits(k, t) ==
  LET b == BeforeStep(k, t)
      e == EDelay(b, t)
  IN /\ ~b.done /\ b.type = 2 /\ b.name = "WRITE SECTOR"
     /\ ~EWaits(e) /\ b.hlt /\ b.verified

DiskAfter(k, t) ==
  LET d == Target(k, t.stray)
      n == Offset(k)
  IN IF Commits(k, t) /\ d \in Drives \ Protected /\ n \in 0 .. Cylinders * Heads * Sectors - 1
     THEN [disk EXCEPT ![d][PlaceAt(n)] = k.buffer] ELSE disk

\* The delays that are running.
Running(k) ==
  LET busy == ~k.done
  IN {d \in Delays :
        \/ d = "load" /\ k.loading
        \/ d = "step" /\ busy /\ k.type = 1 /\ ~k.acted
        \/ d = "settle" /\ busy /\ k.type = 1 /\ k.acted /\ k.verify /\ ~k.settled
        \/ d = "e" /\ busy /\ k.type \in {2, 3} /\ EWaits(k)}

Strays(k) == IF k.latch % 4 \in Drives THEN {2} ELSE Drives \cup {2}

\* A trap may vector a stalled processor away before its next instruction; if
\* none does and DRQ is up, the input is done before the next cycle.
MayStall == {FALSE} \cup {s \in {waiting} : ~w.drq}

DoJWD1797Cycle ==
  \E t \in [byte : BOOLEAN, fired : SUBSET Running(w), junk : Junk, stray : Strays(w)] :
    LET k == DoCycle(w, t)
    IN /\ k.head \in Lowest .. Highest
       /\ w' = k
       /\ disk' = DiskAfter(w, t)
       /\ waiting' \in MayStall
       /\ IF Busy \in k.status
          THEN /\ sent' = IF legal /\ w.mark.found /\ k.left # w.left
                         THEN Append(sent, k.data) ELSE sent
               /\ turns' = IF t.byte /\ k.ptr = 0 THEN Count(turns) ELSE turns
               /\ origin' = origin
          ELSE sent' = <<>> /\ turns' = 0 /\ origin' = 0
       /\ accessed' = FALSE
       /\ UNCHANGED <<program, legal>>

Next ==
  \/ ReadStatus \/ WriteCommand \/ WriteTrack \/ WriteSectorRegister
  \/ WriteData \/ WriteLatch \/ Wait \/ ReadData \/ Reset
  \/ DoJWD1797Cycle

Spec == Init /\ [][Next]_vars

\* The loop calls doJWD1797Cycle for ever and time passes: the disk turns, the
\* delays that run end, and a head that is being stepped does not stay.
Fairness ==
  /\ []<>(w.ptr = 0) /\ []<>(w.ptr # 0)
  /\ \A d \in {"load", "settle", "e"} : []<>(d \notin Running(w))
  /\ \A h \in Lowest .. Highest : []<>("step" \notin Running(w) \/ w.head # h)

FairSpec == Spec /\ Fairness

-----------------------------------------------------------------------------
(* Properties.                                                             *)

Flag == BOOLEAN

ControllerWith(heads) ==
  [type : 0 .. 3, name : {""} \cup Reading \cup Writing
                        \cup {"RESTORE", "SEEK", "STEP", "STEP-IN", "STEP-OUT"},
   done : Flag, acted : Flag, settled : Flag, edone : Flag, verifying : Flag,
   verified : Flag, index : 0 .. MostPulses, verify : Flag, update : Flag,
   side : 0 .. 1, edelay : Flag, multi : Flag,
   forced : SUBSET {"index", "immediate", "terminate"}, status : SUBSET (0 .. 5),
   track : Byte, sector : Byte, data : Byte, latch : Byte,
   find : [zeros : 0 .. ZeroRun, a1s : 0 .. PrefixLength, misses : 0 .. IdLimit,
           found : Flag, pt : 0 .. 6, full : Flag],
   mark : [a1s : 0 .. PrefixLength, misses : 0 .. DataLimit, found : Flag, all : Flag],
   id : [1 .. 6 -> Byte], left : Int, idam : 0 .. 6, started : Flag,
   passed : 0 .. Gap4a + 1, ptr : 0 .. TrackLength - 1, head : heads,
   dir : 0 .. 1, sso : 0 .. 1, hld : Flag, hlt : Flag, loading : Flag, delayed : Flag,
   idle : 0 .. IdlePulses, drq : Flag, intrq : Flag, line : Flag,
   buffer : [1 .. SectorLength -> Byte], count : 0 .. SectorLength, loaded : Drives]
Controller == ControllerWith(Lowest .. Highest)

\* Every register and counter of the controller stays in its range.
TypeOK ==
  /\ w \in Controller
  /\ disk \in [Drives -> [Places -> [1 .. SectorLength -> Byte]]]
  /\ program \in Programs
  /\ accessed \in BOOLEAN /\ waiting \in BOOLEAN /\ legal \in BOOLEAN
  /\ origin \in Byte /\ turns \in 0 .. MostPulses

IsBusy == Busy \in w.status
Ends == IsBusy /\ Busy \notin w'.status /\ w'.type # 0

\* The busy bit, which decides whether a command is accepted, and
\* command_done, which decides whether it is executed, are one thing, though
\* eleven places clear the one and set the other (jwd1797.c:416-2235).
BusyWhileActive == IsBusy <=> (~w.done /\ w.type # 0)

\* A pending INTRQ is on the line of the controller: the two are set in pairs
\* of statements throughout the file.
LineFollows == w.intrq => w.line

\* Software keeping the rules of jwd1797.h 37-43, no sequence of stepping
\* commands takes the head off the disk, where RESTORE would step for ever and
\* getFDiskByte would read outside the array (jwd1797.c:601-765, 1837-1846).
HeadOnDisk == legal => w.head \in 0 .. Cylinders - 1

\* The four together, at every moment.
Coherent == TypeOK /\ BusyWhileActive /\ LineFollows /\ HeadOnDisk

\* A command ends with an interrupt unless it was terminated with D0
\* (jwd1797.h 125-127, "set at the completion of every command").
EndsWithInterrupt ==
  [][(Ends /\ "terminate" \notin w.forced) => (w'.intrq /\ w'.line)]_vars

\* INTRQ rises at the end of a command, or because an armed condition of a
\* forced interrupt holds; never otherwise (jwd1797.c:416-480).
InterruptsForReason ==
  [][(w'.intrq /\ ~w.intrq) =>
       (Ends \/ w.forced \cap {"immediate", "index"} # {})]_vars

\* The bytes of the sectors that READ SECTOR was asked for, in order.
AskedBytes == (IF w.multi THEN Sectors - origin + 1 ELSE 1) * SectorLength
Asked ==
  [i \in 1 .. AskedBytes |->
     disk[w.loaded][<<w.head, w.sso, origin + (i - 1) \div SectorLength>>]
         [((i - 1) % SectorLength) + 1]]

\* READ SECTOR, if it ends without an error and was not forced to end, has put
\* every byte of the sectors asked for into the data register, in order and
\* once: wherever the head was when the command came, whatever the search for
\* the address marks met first (jwd1797.c:808-915, 1886-2235).
WholeSectors ==
  [][(Ends /\ w.type = 2 /\ w.name = "READ SECTOR" /\ NotFound \notin w'.status
        /\ w.forced = {} /\ legal) => sent = Asked]_vars

\* A SEEK ends where the data register says, and so does RESTORE on track 0,
\* although SEEK compares registers that software can write, not the head
\* (jwd1797.c:601-668, 1278).
Arrives ==
  [][(w.type = 1 /\ ~w.acted /\ w'.acted /\ legal) =>
       /\ w.name = "SEEK" => w'.head = w'.data
       /\ w.name = "RESTORE" => w'.head = 0 /\ w'.track = 0]_vars

\* A type I command that verifies and reports no seek error has the head on
\* the track that the track register names (jwd1797.c:2059-2092).
VerifiedTrack ==
  [][(Ends /\ w.type = 1 /\ w.acted /\ w.verify /\ NotFound \notin w'.status
        /\ w.forced = {} /\ w.head \in 0 .. Cylinders - 1) => w'.track = w'.head]_vars

\* WRITE SECTOR changes the sector that the registers name on the selected
\* drive and nothing else, and nothing on a protected drive, although the
\* address comes from the last ID field read and the array from another drive
\* (jwd1797.c:1319-1366, 2237-2288).
WritesOneSector ==
  [][(disk' # disk /\ legal) =>
       /\ Ends
       /\ \E d \in Drives \ Protected :
            /\ w.latch % 4 \in Drives => d = w.latch % 4
            /\ disk' = [disk EXCEPT ![d][<<w.track, w.side, w.sector>>] = w.buffer]]_vars

GivesUp(limit) ==
  Ends /\ NotFound \in w'.status /\ ~w.mark.found /\ w.forced = {}
    => w'.mark.misses > w.mark.misses
       \/ turns + (IF w'.ptr = 0 /\ w.ptr # 0 THEN 1 ELSE 0) >= limit

\* A type I or II command reports that nothing was found only after the disk
\* has turned as often as it should, or when the data mark is missing
\* (jwd1797.c:1861-1863).
SearchesFully == [][w.type \in {1, 2} => GivesUp(VerifyPulses)]_vars

\* Every command ends: no delay, search or transfer waits for something that
\* does not come, unless the head was sent off the disk.
CommandsEnd == IsBusy ~> (~IsBusy \/ ~legal)

\* A processor stalled in an input from B3 gets its byte with no interrupt's
\* help while the sectors that READ SECTOR was asked for have more to come,
\* unless one is not found (8088.c:583-612, jwd1797.c:2171-2235).  (Stalled
\* after the last of them, it depends on a trap, which nothing guarantees.)
StalledReadEnds ==
  (waiting /\ IsBusy /\ w.name = "READ SECTOR" /\ w.forced = {} /\ legal
     /\ Len(sent) < AskedBytes)
    ~> (~waiting \/ NotFound \in w.status)

=============================================================================
