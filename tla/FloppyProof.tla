----------------------------- MODULE FloppyProof ----------------------------
(***************************************************************************)
(* Proofs about the floppy controller: its registers keep their ranges,    *)
(* the busy bit and command_done agree, a pending INTRQ is on its line,    *)
(* and the head stays on the disk, for every geometry and format.  The     *)
(* leaves on the whole record of the controller are left to Zenon, which   *)
(* needs a few seconds for them: the SMT backend does not read EXCEPT on   *)
(* records.                                                                *)
(***************************************************************************)
EXTENDS Jwd1797, SequenceTheorems, TLAPS

-----------------------------------------------------------------------------
(* The bytes of a track. *)

LEMMA Numbers ==
  /\ Cylinders \in Nat /\ Cylinders >= 1 /\ Cylinders <= 255 /\ Heads \in {1, 2}
  /\ Sectors \in 1..254 /\ SectorLength \in Nat /\ SectorLength >= 1
  /\ SizeOf \in [0..4 -> Nat \ {0}] /\ Clobbered \in Nat
  /\ ZeroRun \in Nat /\ ZeroRun >= 1 /\ PrefixLength \in Nat /\ PrefixLength >= 1
  /\ GapLength \in Nat /\ GapLength >= 1 /\ SyncLength \in Nat
  /\ IdLimit \in Nat /\ IdLimit >= 1 /\ DataLimit \in Nat /\ DataLimit >= 1
  /\ VerifyPulses \in Nat /\ VerifyPulses >= 1 /\ AddressPulses \in Nat /\ IdlePulses \in Nat /\ IdlePulses >= 1
  /\ PulseBytes \in Nat /\ Gap4a \in Nat /\ FirstByte \in Nat
  /\ Lowest \in Int /\ Highest \in Int /\ Lowest <= 0 /\ Highest >= Cylinders - 1
  BY GeometryAssumption, FormatAssumption, EnvironmentAssumption

\* Runs and their concatenations are sequences of bytes with the lengths added.
LEMMA Runs ==
  ASSUME NEW b \in Byte, NEW n \in Nat
  PROVE  Run(b, n) \in Seq(Byte) /\ Len(Run(b, n)) = n
<1>1. Run(b, n) \in [1..n -> Byte] BY DEF Run
<1> QED BY <1>1 DEF Run

LEMMA Concat ==
  ASSUME NEW s \in Seq(Byte), NEW t \in Seq(Byte)
  PROVE  s \o t \in Seq(Byte) /\ Len(s \o t) = Len(s) + Len(t)
  BY ConcatProperties

LEMMA TrackHeaderBytes == TrackHeader \in Seq(Byte) /\ Len(TrackHeader) = HeaderLength
<1> DEFINE s1 == Run(78, GapLength)
           s2 == Run(0, SyncLength)
           s3 == Run(194, PrefixLength)
           s4 == <<252>>
<1>1. /\ s1 \in Seq(Byte) /\ Len(s1) = GapLength /\ s2 \in Seq(Byte) /\ Len(s2) = SyncLength
      /\ s3 \in Seq(Byte) /\ Len(s3) = PrefixLength
  <2>1. 78 \in Byte /\ 0 \in Byte /\ 194 \in Byte BY DEF Byte
  <2>2. GapLength \in Nat /\ SyncLength \in Nat /\ PrefixLength \in Nat BY Numbers
  <2> QED BY <2>1, <2>2, Runs
<1>2. s4 \in Seq(Byte) /\ Len(s4) = 1 BY DEF Byte
<1> HIDE DEF s1, s2, s3, s4
<1>3. s1 \o s2 \in Seq(Byte) /\ Len(s1 \o s2) = GapLength + SyncLength
  BY <1>1, Concat
<1>4. s1 \o s2 \o s3 \in Seq(Byte) /\ Len(s1 \o s2 \o s3) = GapLength + SyncLength + PrefixLength
  BY <1>1, <1>3, Concat
<1>5. /\ s1 \o s2 \o s3 \o s4 \in Seq(Byte)
      /\ Len(s1 \o s2 \o s3 \o s4) = GapLength + SyncLength + PrefixLength + 1
  BY <1>2, <1>4, Concat
<1>6. /\ s1 \o s2 \o s3 \o s4 \o s1 \in Seq(Byte)
      /\ Len(s1 \o s2 \o s3 \o s4 \o s1) = GapLength + SyncLength + PrefixLength + 1 + GapLength
  BY <1>1, <1>5, Concat
<1>7. HeaderLength = GapLength + SyncLength + PrefixLength + 1 + GapLength
  BY Numbers DEF HeaderLength
<1>8. TrackHeader = s1 \o s2 \o s3 \o s4 \o s1 BY DEF TrackHeader, s1, s2, s3, s4
<1> QED BY <1>6, <1>7, <1>8

LEMMA SizeCodes == SizeCode \in 0..4 /\ SizeCode \in Byte
<1>1. \E n \in 0..4 : SizeOf[n] = SectorLength BY GeometryAssumption
<1>2. SizeCode \in 0..4 BY <1>1 DEF SizeCode
<1> QED BY <1>2 DEF Byte

LEMMA SectorBytesBytes ==
  ASSUME NEW payload \in [1..SectorLength -> Byte], NEW c \in Byte, NEW h \in Byte, NEW s \in Byte
  PROVE  /\ SectorBytes(payload, c, h, s) \in Seq(Byte)
         /\ Len(SectorBytes(payload, c, h, s)) = SectorSpan
<1> DEFINE s0 == Run(0, SyncLength)
           s1 == Run(161, PrefixLength)
           s2 == <<254, c, h, s, SizeCode, 1, 1>>
           s3 == Run(78, GapLength)
           s4 == <<251>>
           s5 == <<1, 1>>
<1>1. /\ s0 \in Seq(Byte) /\ Len(s0) = SyncLength /\ s1 \in Seq(Byte) /\ Len(s1) = PrefixLength
      /\ s3 \in Seq(Byte) /\ Len(s3) = GapLength
  <2>1. 78 \in Byte /\ 0 \in Byte /\ 161 \in Byte BY DEF Byte
  <2>2. GapLength \in Nat /\ SyncLength \in Nat /\ PrefixLength \in Nat BY Numbers
  <2> QED BY <2>1, <2>2, Runs
<1>2. s2 \in Seq(Byte) /\ Len(s2) = 7 BY SizeCodes DEF Byte
<1>3. s4 \in Seq(Byte) /\ Len(s4) = 1 /\ s5 \in Seq(Byte) /\ Len(s5) = 2 BY DEF Byte
<1>4. payload \in Seq(Byte) /\ Len(payload) = SectorLength BY Numbers
<1> HIDE DEF s0, s1, s2, s3, s4, s5
<1> DEFINE a == s0 \o s1 \o s2 \o s3
           b == a \o s0 \o s1 \o s4
           d == b \o payload \o s5 \o s3
<1>5. a \in Seq(Byte) /\ Len(a) = SyncLength + PrefixLength + 7 + GapLength
  <2>1. s0 \o s1 \in Seq(Byte) /\ Len(s0 \o s1) = SyncLength + PrefixLength
    BY <1>1, Concat
  <2>2. s0 \o s1 \o s2 \in Seq(Byte) /\ Len(s0 \o s1 \o s2) = SyncLength + PrefixLength + 7
    BY <1>2, <2>1, Concat
  <2> QED BY <1>1, <2>2, Concat
<1> HIDE DEF a
<1>6. b \in Seq(Byte) /\ Len(b) = Len(a) + SyncLength + PrefixLength + 1
  <2>1. a \o s0 \in Seq(Byte) /\ Len(a \o s0) = Len(a) + SyncLength
    BY <1>1, <1>5, Concat
  <2>2. a \o s0 \o s1 \in Seq(Byte) /\ Len(a \o s0 \o s1) = Len(a) + SyncLength + PrefixLength
    BY <1>1, <2>1, Concat
  <2> QED BY <1>3, <2>2, Concat
<1> HIDE DEF b
<1>7. d \in Seq(Byte) /\ Len(d) = Len(b) + SectorLength + 2 + GapLength
  <2>1. b \o payload \in Seq(Byte) /\ Len(b \o payload) = Len(b) + SectorLength
    BY <1>4, <1>6, Concat
  <2>2. b \o payload \o s5 \in Seq(Byte) /\ Len(b \o payload \o s5) = Len(b) + SectorLength + 2
    BY <1>3, <2>1, Concat
  <2> QED BY <1>1, <2>2, Concat
<1> HIDE DEF d
<1>8. SectorSpan = Len(d) BY <1>5, <1>6, <1>7, Numbers DEF SectorSpan
<1>9. SectorBytes(payload, c, h, s) = d
  BY DEF SectorBytes, d, b, a, s0, s1, s2, s3, s4, s5
<1> QED BY <1>7, <1>8, <1>9

Images == [Drives -> [Places -> [1..SectorLength -> Byte]]]
LEMMA Spans ==
  /\ SectorSpan \in Nat \ {0} /\ HeaderLength \in Nat \ {0} /\ TrackLength \in Nat \ {0}
  /\ TrackLength >= 2
<1>1. SectorSpan \in Nat \ {0} /\ HeaderLength \in Nat \ {0} /\ HeaderLength >= 2
  BY Numbers DEF SectorSpan, HeaderLength
<1>2. Sectors * SectorSpan \in Nat BY <1>1, Numbers
<1> QED BY <1>1, <1>2, Numbers DEF TrackLength

\* Every byte of the track is one.
LEMMA FormattedBytes ==
  ASSUME NEW image \in [Places -> [1..SectorLength -> Byte]],
         NEW c \in 0..(Cylinders - 1), NEW h \in 0..(Heads - 1), NEW p \in 0..(TrackLength - 1)
  PROVE  FormattedByte(image, c, h, p) \in Byte
<1> DEFINE q == p - HeaderLength
           s == (q \div SectorSpan) + 1
           r == q % SectorSpan
<1>0. p \in Nat /\ q \in Int /\ HeaderLength \in Nat \ {0} /\ SectorSpan \in Nat \ {0}
  BY Spans
<1>1. CASE q < 0
  <2>1. p + 1 \in 1..HeaderLength BY <1>0, <1>1
  <2>2. TrackHeader[p + 1] \in Byte BY <2>1, TrackHeaderBytes, ElementOfSeq
  <2> QED BY <1>1, <2>2 DEF FormattedByte
<1>2. CASE ~(q < 0)
  <2>1. q \in Nat BY <1>0, <1>2
  <2>2. s \in Int /\ s >= 1 /\ r \in 0..(SectorSpan - 1)
    <3> HIDE DEF q
    <3>1. q \div SectorSpan \in Nat /\ q % SectorSpan \in 0..(SectorSpan - 1)
      BY <1>0, <2>1
    <3> QED BY <3>1
  <2>3. CASE s > Sectors
    <3>1. FormattedByte(image, c, h, p) = 78 BY <1>2, <2>3, Zenon DEF FormattedByte
    <3>2. 78 \in Byte BY DEF Byte
    <3> QED BY <3>1, <3>2
  <2>4. CASE ~(s > Sectors)
    <3> HIDE DEF q, s, r
    <3>1. s \in 1..Sectors /\ s \in Byte /\ c \in Byte /\ h \in Byte
      BY <2>2, <2>4, Numbers DEF Byte
    <3>2. <<c, h, s>> \in Places BY <3>1 DEF Places
    <3>3. image[<<c, h, s>>] \in [1..SectorLength -> Byte] BY <3>2
    <3>4. r + 1 \in 1..SectorSpan BY <1>0, <2>2
    <3>5. SectorBytes(image[<<c, h, s>>], c, h, s)[r + 1] \in Byte
      BY <3>1, <3>3, <3>4, SectorBytesBytes, ElementOfSeq
    <3> QED BY <1>2, <2>4, <3>5 DEF FormattedByte, q, s, r
  <2> QED BY <2>3, <2>4
<1> QED BY <1>1, <1>2

-----------------------------------------------------------------------------
(* Controllers in the course of a cycle. *)

\* The head may be anywhere until the cycle is over.
C == ControllerWith(Int)

Names == {""} \cup Reading \cup Writing \cup {"RESTORE", "SEEK", "STEP", "STEP-IN", "STEP-OUT"}
Finds == [zeros : 0 .. ZeroRun, a1s : 0 .. PrefixLength, misses : 0 .. IdLimit,
          found : Flag, pt : 0 .. 6, full : Flag]
Marks == [a1s : 0 .. PrefixLength, misses : 0 .. DataLimit, found : Flag, all : Flag]

\* A command that is executed, and one that is over.
Follows(k) == k.intrq => k.line
Active(k) ==
  /\ k \in C /\ ~k.done /\ k.type # 0 /\ Busy \in k.status /\ Follows(k)
  /\ k.type = 2 => k.mark.misses < DataLimit
Over(k) == k \in C /\ k.done /\ Busy \notin k.status /\ Follows(k)
Idle(k) == k \in C /\ k.type = 0 /\ Busy \notin k.status /\ Follows(k)
Sound(k) == Active(k) \/ Over(k) \/ Idle(k)

\* What a step of a command leaves as it is, and what one that moves no head does.
Kept(k, l) ==
  /\ l.type = k.type /\ l.idle = k.idle /\ l.ptr = k.ptr
  /\ l.index = k.index \/ l.index = 0
Same(k, l) == l.head = k.head /\ l.acted = k.acted /\ Kept(k, l)
Like(k, l) ==
  /\ l \in C /\ Same(k, l) /\ l.done = k.done /\ l.intrq = k.intrq /\ l.line = k.line
  /\ Busy \in l.status <=> Busy \in k.status
  /\ NotFound \in l.status <=> NotFound \in k.status
  /\ l.mark.misses = k.mark.misses \/ l.mark.misses < DataLimit

\* A command ends with an interrupt, and with NotFound for a reason.
Missed(k, l) ==
  \/ NotFound \in k.status
  \/ k.type = 3
  \/ k.index >= VerifyPulses
  \/ k.type = 2 /\ l.mark.misses >= DataLimit
Signals(k, l) ==
  \/ Active(l) /\ l.intrq = k.intrq /\ (NotFound \in l.status => NotFound \in k.status)
  \/ Over(l) /\ l.intrq /\ (NotFound \in l.status => Missed(k, l))
Goes(k, l) == Same(k, l) /\ Signals(k, l)

LEMMA LikeGoes ==
  ASSUME NEW k, Active(k), NEW l, Like(k, l) PROVE Active(l) /\ Goes(k, l)
  BY DEF Active, Like, Goes, Same, Kept, Signals, Follows

LEMMA LikeSelf == ASSUME NEW k, Active(k) PROVE Like(k, k)
  BY DEF Active, Like, Same, Kept

LEMMA LikeTwice ==
  ASSUME NEW k, NEW l, NEW m, Like(k, l), Like(l, m) PROVE Like(k, m)
  BY DEF Like, Same, Kept

LEMMA LikeThen ==
  ASSUME NEW k, NEW l, NEW m, Like(k, l), Goes(l, m) PROVE Goes(k, m)
<1>1. Same(k, m) BY DEF Like, Goes, Same, Kept
<1>2. Missed(l, m) => Missed(k, m)
  <2>1. ~(0 >= VerifyPulses) BY Numbers
  <2> QED BY <2>1 DEF Like, Same, Kept, Missed
<1> QED BY <1>1, <1>2 DEF Like, Goes, Signals

\* Values of fields.
LEMMA Values ==
  /\ {0, 1, 2, 3} \subseteq 0..3 /\ {0, 1} \subseteq 0..1 /\ 0 \in 0..6 /\ TRUE \in Flag /\ FALSE \in Flag
  /\ 0 \in 0..MostPulses /\ 0 \in 0..SectorLength /\ 0 \in 0..(Gap4a + 1) /\ 0 \in Byte
  /\ 0 \in 0..IdlePulses /\ Unfound \in Finds /\ Unmarked \in Marks /\ Unmarked.misses < DataLimit
  /\ {Busy, DataRequest, LostData, CrcError, NotFound, HeadLoaded} \subseteq 0..5
  /\ {"", "READ SECTOR", "READ ADDRESS", "READ TRACK", "WRITE SECTOR", "WRITE TRACK",
      "RESTORE", "SEEK", "STEP", "STEP-IN", "STEP-OUT"} \subseteq Names
<1>1. MostPulses \in Nat BY Numbers DEF MostPulses
<1>2. Unfound \in Finds BY Numbers DEF Unfound, Finds, Flag
<1>3. Unmarked \in Marks /\ Unmarked.misses = 0 BY Numbers DEF Unmarked, Marks, Flag
<1>4. {Busy, DataRequest, LostData, CrcError, NotFound, HeadLoaded} \subseteq 0..5
  BY DEF Busy, DataRequest, LostData, CrcError, NotFound, HeadLoaded
<1>5. {"", "READ SECTOR", "READ ADDRESS", "READ TRACK", "WRITE SECTOR", "WRITE TRACK",
      "RESTORE", "SEEK", "STEP", "STEP-IN", "STEP-OUT"} \subseteq Names
  BY DEF Names, Reading, Writing
<1>6. /\ {0, 1, 2, 3} \subseteq 0..3 /\ {0, 1} \subseteq 0..1 /\ 0 \in 0..6
      /\ 0 \in 0..MostPulses /\ 0 \in 0..SectorLength /\ 0 \in 0..(Gap4a + 1) /\ 0 \in 0..IdlePulses
  BY <1>1, Numbers
<1>7. TRUE \in Flag /\ FALSE \in Flag /\ 0 \in Byte BY DEF Flag, Byte
<1>8. Unmarked.misses < DataLimit BY <1>3, Numbers
<1> QED BY <1>2, <1>3, <1>4, <1>5, <1>6, <1>7, <1>8

LEMMA Fields ==
  ASSUME NEW k \in C
  PROVE  /\ k.type \in 0..3 /\ k.name \in Names /\ k.done \in Flag /\ k.acted \in Flag
         /\ k.index \in 0..MostPulses /\ k.status \in SUBSET (0..5) /\ k.find \in Finds
         /\ k.track \in Byte /\ k.sector \in Byte /\ k.data \in Byte /\ k.latch \in Byte
         /\ k.mark \in Marks /\ k.id \in [1..6 -> Byte] /\ k.left \in Int /\ k.idam \in 0..6
         /\ k.passed \in 0..(Gap4a + 1) /\ k.ptr \in 0..(TrackLength - 1) /\ k.head \in Int
         /\ k.dir \in 0..1 /\ k.sso \in 0..1 /\ k.idle \in 0..IdlePulses /\ k.loaded \in Drives
         /\ k.drq \in Flag /\ k.hld \in Flag /\ k.hlt \in Flag /\ k.settled \in Flag /\ k.edone \in Flag
         /\ k.buffer \in [1..SectorLength -> Byte] /\ k.count \in 0..SectorLength
         /\ k.forced \in SUBSET {"index", "immediate", "terminate"}
  BY DEF C, ControllerWith, Names, Finds, Marks

LEMMA Statuses ==
  ASSUME NEW s \in SUBSET (0..5), NEW b \in {DataRequest, LostData, CrcError, NotFound}
  PROVE  /\ s \cup {b} \in SUBSET (0..5) /\ s \ {b} \in SUBSET (0..5) /\ s \ {Busy} \in SUBSET (0..5)
         /\ Busy \in s \cup {b} <=> Busy \in s
         /\ Busy \in s \ {b} <=> Busy \in s
         /\ Busy \notin s \ {Busy}
         /\ NotFound \in s \ {Busy} <=> NotFound \in s
         /\ NotFound \in s \cup {b} <=> NotFound \in s \/ b = NotFound
         /\ NotFound \in s \ {b} <=> NotFound \in s /\ b # NotFound
  BY DEF Busy, DataRequest, LostData, CrcError, NotFound

\* Only the status changes.
Showing(k, s) == [k EXCEPT !.status = s]
LEMMA ShowingKeeps ==
  ASSUME NEW k \in C, NEW s \in SUBSET (0..5)
  PROVE  /\ Showing(k, s) \in C /\ Same(k, Showing(k, s)) /\ Showing(k, s).status = s
         /\ Showing(k, s).done = k.done /\ Showing(k, s).intrq = k.intrq /\ Showing(k, s).line = k.line
         /\ Showing(k, s).mark = k.mark /\ Showing(k, s).name = k.name
         /\ Showing(k, s).track = k.track /\ Showing(k, s).data = k.data
  BY ZenonT(60) DEF C, ControllerWith, Showing, Same, Kept

-----------------------------------------------------------------------------
(* Ends. *)

LEMMA RaiseKeeps ==
  ASSUME NEW k \in C
  PROVE  /\ Raise(k) \in C /\ Same(k, Raise(k)) /\ Follows(Raise(k)) /\ Raise(k).status = k.status
         /\ Raise(k).done = k.done /\ Raise(k).mark = k.mark /\ Raise(k).intrq
  BY Values, ZenonT(60) DEF C, ControllerWith, Raise, Same, Kept, Follows

LEMMA LowerKeeps ==
  ASSUME NEW k \in C
  PROVE  /\ Lower(k) \in C /\ Same(k, Lower(k)) /\ Follows(Lower(k)) /\ Lower(k).status = k.status
         /\ Lower(k).done = k.done /\ Lower(k).mark = k.mark /\ ~Lower(k).intrq
         /\ Lower(k).index = k.index
  BY Values, ZenonT(60) DEF C, ControllerWith, Lower, Same, Kept, Follows

LEMMA StopGoes ==
  ASSUME NEW k \in C, Follows(k)
  PROVE  /\ Over(Stop(k)) /\ Same(k, Stop(k)) /\ Stop(k).mark = k.mark
         /\ Stop(k).intrq = k.intrq
         /\ NotFound \in Stop(k).status <=> NotFound \in k.status
<1>1. /\ k.status \ {Busy} \in SUBSET (0..5) /\ Busy \notin k.status \ {Busy}
      /\ NotFound \in k.status \ {Busy} <=> NotFound \in k.status
  BY Fields DEF Busy, NotFound
<1>2. /\ Stop(k) \in C /\ Same(k, Stop(k)) /\ Stop(k).done /\ Stop(k).status = k.status \ {Busy}
      /\ Stop(k).intrq = k.intrq /\ Stop(k).line = k.line /\ Stop(k).mark = k.mark
  BY <1>1, Values, ZenonT(60) DEF C, ControllerWith, Stop, Same, Kept
<1> QED BY <1>1, <1>2 DEF Over, Follows

LEMMA FinishEnds ==
  ASSUME NEW k \in C, Follows(k)
  PROVE  /\ Over(Finish(k)) /\ Same(k, Finish(k)) /\ Finish(k).intrq /\ Finish(k).mark = k.mark
         /\ NotFound \in Finish(k).status <=> NotFound \in k.status
<1> DEFINE s == Stop(k)
<1>1. /\ Over(s) /\ Same(k, s) /\ s.mark = k.mark
      /\ NotFound \in s.status <=> NotFound \in k.status
  BY StopGoes
<1>2. Finish(k) = Raise(s) BY DEF Finish
<1> HIDE DEF s
<1>3. s \in C BY <1>1 DEF Over
<1>4. /\ Raise(s) \in C /\ Same(s, Raise(s)) /\ Follows(Raise(s)) /\ Raise(s).intrq
      /\ Raise(s).status = s.status /\ Raise(s).done = s.done /\ Raise(s).mark = s.mark
  BY <1>3, RaiseKeeps
<1>5. Same(k, Raise(s)) BY <1>1, <1>4 DEF Same, Kept
<1> QED BY <1>1, <1>2, <1>4, <1>5 DEF Over

LEMMA FinishGoes ==
  ASSUME NEW k, Active(k) PROVE Over(Finish(k)) /\ Goes(k, Finish(k))
  BY FinishEnds DEF Active, Goes, Signals, Missed

\* A command fails for a reason.
LEMMA FailGoes ==
  ASSUME NEW k \in C, Busy \in k.status, Follows(k),
         k.type = 3 \/ k.index >= VerifyPulses \/ (k.type = 2 /\ k.mark.misses >= DataLimit)
  PROVE  Goes(k, Fail(k, NotFound))
<1> DEFINE s == k.status \cup {NotFound}
           f == Showing(k, s)
<1>1. s \in SUBSET (0..5) BY Fields, Statuses
<1>2. Fail(k, NotFound) = Finish(f) BY DEF Fail, Showing
<1> HIDE DEF s
<1>3. f \in C /\ Same(k, f) /\ f.intrq = k.intrq /\ f.line = k.line /\ f.mark = k.mark
  BY <1>1, ShowingKeeps
<1> HIDE DEF f
<1>4. /\ Over(Finish(f)) /\ Same(f, Finish(f)) /\ Finish(f).intrq /\ Finish(f).mark = f.mark
  BY <1>3, FinishEnds DEF Follows
<1>5. Same(k, Finish(f)) BY <1>3, <1>4 DEF Same, Kept
<1> QED BY <1>2, <1>3, <1>4, <1>5 DEF Goes, Signals, Missed

-----------------------------------------------------------------------------
(* The search for an ID field. *)

\* How time passes in a cycle.
Times == [byte : BOOLEAN, fired : SUBSET Delays, junk : Byte, stray : 0..2]

LEMMA DiskBytes ==
  ASSUME NEW k \in C, NEW junk \in Byte, disk \in Images
  PROVE  GetFDiskByte(k, junk) \in Byte
<1> DEFINE b == 2 * k.head + k.sso
           n == Cylinders * Heads - Clobbered - 1
<1>1. b \in Int /\ n \in Int /\ k.ptr \in 0..(TrackLength - 1) /\ k.loaded \in Drives
  <2>1. k.head \in Int /\ k.sso \in 0..1 /\ k.ptr \in 0..(TrackLength - 1) /\ k.loaded \in Drives
    BY Fields
  <2>2. b \in Int BY <2>1
  <2>3. n \in Int BY Numbers
  <2> QED BY <2>1, <2>2, <2>3
<1>2. CASE b \in 0..n
  <2>1. disk[k.loaded] \in [Places -> [1..SectorLength -> Byte]] BY <1>1 DEF Images
  <2> HIDE DEF b
  <2>2. b \div Heads \in 0..(Cylinders - 1) /\ b % Heads \in 0..(Heads - 1)
    <3>1. CASE Heads = 1 BY <3>1, <1>1, <1>2, Numbers
    <3>2. CASE Heads = 2 BY <3>2, <1>1, <1>2, Numbers
    <3> QED BY <3>1, <3>2, Numbers
  <2>3. FormattedByte(disk[k.loaded], b \div Heads, b % Heads, k.ptr) \in Byte
    BY <1>1, <2>1, <2>2, FormattedBytes
  <2> QED BY <1>2, <2>3 DEF GetFDiskByte, b
<1>3. CASE b \notin 0..n BY <1>3 DEF GetFDiskByte
<1> QED BY <1>2, <1>3

LEMMA IDAddressMarkSearchLike ==
  ASSUME NEW k \in C, NEW b
  PROVE  Like(k, IDAddressMarkSearch(k, b))
<1> DEFINE f == k.find
           restart == [f EXCEPT !.zeros = 0, !.a1s = 0, !.misses = 0, !.found = FALSE]
           z == IF b = 0 THEN f.zeros + 1 ELSE 0
           n1 == [f EXCEPT !.zeros = z]
           n2 == [f EXCEPT !.a1s = f.a1s + 1]
           n3 == [f EXCEPT !.zeros = 0, !.a1s = 0, !.misses = 0]
           n4 == [f EXCEPT !.a1s = 0, !.misses = f.misses + 1]
           n5 == [f EXCEPT !.found = TRUE]
           next ==
             IF f.zeros < ZeroRun THEN n1
             ELSE IF f.a1s < PrefixLength
                  THEN IF b = 161 THEN n2
                       ELSE IF f.misses + 1 >= IdLimit THEN n3 ELSE n4
             ELSE IF ~f.found /\ b = 254 THEN n5 ELSE restart
<1>1. f \in Finds BY Fields
<1>2. /\ f.zeros \in 0..ZeroRun /\ f.a1s \in 0..PrefixLength /\ f.misses \in 0..IdLimit
      /\ 0 \in 0..ZeroRun /\ 0 \in 0..PrefixLength /\ 0 \in 0..IdLimit
      /\ f.zeros < ZeroRun => f.zeros + 1 \in 0..ZeroRun
      /\ f.a1s < PrefixLength => f.a1s + 1 \in 0..PrefixLength
      /\ ~(f.misses + 1 >= IdLimit) => f.misses + 1 \in 0..IdLimit
  <2>1. f.zeros \in 0..ZeroRun /\ f.a1s \in 0..PrefixLength /\ f.misses \in 0..IdLimit
    BY <1>1 DEF Finds
  <2> QED BY <2>1, Numbers
<1> HIDE DEF f
<1>3. f.zeros < ZeroRun => n1 \in Finds BY <1>1, <1>2 DEF Finds
<1>4. f.a1s < PrefixLength => n2 \in Finds BY <1>1, <1>2 DEF Finds
<1>5. n3 \in Finds BY <1>1, <1>2 DEF Finds
<1>6. ~(f.misses + 1 >= IdLimit) => n4 \in Finds BY <1>1, <1>2 DEF Finds
<1>7. n5 \in Finds /\ restart \in Finds BY <1>1, <1>2, Values DEF Finds
<1> HIDE DEF n1, n2, n3, n4, n5, restart
<1>8. next \in Finds BY <1>3, <1>4, <1>5, <1>6, <1>7
<1> HIDE DEF next
<1>9. Like(k, [k EXCEPT !.find = next])
  BY <1>8, ZenonT(60) DEF Like, Same, Kept, C, ControllerWith, Finds
<1>10. IDAddressMarkSearch(k, b) = [k EXCEPT !.find = next]
  BY DEF IDAddressMarkSearch, next, n1, n2, n3, n4, n5, restart, f, z
<1> QED BY <1>9, <1>10

LEMMA CollectIDFieldDataLike ==
  ASSUME NEW k \in C, NEW b \in Byte
  PROVE  Like(k, CollectIDFieldData(k, b))
<1> DEFINE p == k.find.pt
           i == [k.id EXCEPT ![p + 1] = b]
           f == [k.find EXCEPT !.pt = p + 1]
           g == [k.find EXCEPT !.full = TRUE]
<1>1. k.find \in Finds /\ k.id \in [1..6 -> Byte] BY Fields
<1>2. g \in Finds BY <1>1, Values DEF Finds
<1>3. CASE p < 6
  <2>1. p \in 0..6 BY <1>1 DEF Finds
  <2>2. p + 1 \in 0..6 /\ p + 1 \in 1..6 BY <2>1, <1>3
  <2>3. f \in Finds BY <1>1, <2>2 DEF Finds
  <2>4. i \in [1..6 -> Byte] BY <1>1, <2>2
  <2> HIDE DEF f, i, p
  <2>5. Like(k, [k EXCEPT !.id = i, !.find = f])
    BY <2>3, <2>4, ZenonT(60) DEF Like, Same, Kept, C, ControllerWith, Finds
  <2>6. CollectIDFieldData(k, b) = [k EXCEPT !.id = i, !.find = f]
    BY <1>3 DEF CollectIDFieldData, i, f, p
  <2> QED BY <2>5, <2>6
<1>4. CASE ~(p < 6)
  <2> HIDE DEF g, p
  <2>1. Like(k, [k EXCEPT !.find = g])
    BY <1>2, ZenonT(60) DEF Like, Same, Kept, C, ControllerWith, Finds
  <2>2. CollectIDFieldData(k, b) = [k EXCEPT !.find = g]
    BY <1>4 DEF CollectIDFieldData, g, p
  <2> QED BY <2>1, <2>2
<1> QED BY <1>3, <1>4

LEMMA ReadIDLike ==
  ASSUME NEW k \in C, NEW t \in Times, disk \in Images
  PROVE  Like(k, ReadID(k, t))
<1>1. t.junk \in Byte BY DEF Times
<1>2. GetFDiskByte(k, t.junk) \in Byte BY <1>1, DiskBytes
<1> QED BY <1>2, IDAddressMarkSearchLike, CollectIDFieldDataLike DEF ReadID

LEMMA SearchAgainLike ==
  ASSUME NEW k \in C PROVE Like(k, SearchAgain(k))
  BY Values, ZenonT(60) DEF Like, Same, Kept, C, ControllerWith, SearchAgain, Finds

LEMMA CrcLike ==
  ASSUME NEW k \in C PROVE Like(k, CrcFails(k)) /\ Like(k, CrcPasses(k))
<1> DEFINE s == SearchAgain(k)
           b == s.status \cup {CrcError}
           a == k.status \ {CrcError}
<1>1. Like(k, s) /\ s \in C BY SearchAgainLike DEF Like
<1>2. /\ b \in SUBSET (0..5) /\ a \in SUBSET (0..5)
      /\ Busy \in b <=> Busy \in s.status
      /\ Busy \in a <=> Busy \in k.status
      /\ NotFound \in b <=> NotFound \in s.status
      /\ NotFound \in a <=> NotFound \in k.status
  <2>1. k.status \in SUBSET (0..5) /\ s.status \in SUBSET (0..5) BY <1>1, Fields
  <2>2. CrcError # NotFound BY DEF CrcError, NotFound
  <2> QED BY <2>1, <2>2, Statuses
<1> HIDE DEF s, a, b
<1>3. Like(s, Showing(s, b)) BY <1>1, <1>2, ShowingKeeps DEF Like
<1>4. Like(k, [k EXCEPT !.status = a, !.verifying = FALSE])
  BY <1>2, Values, ZenonT(60) DEF Like, Same, Kept, C, ControllerWith
<1>5. CrcFails(k) = Showing(s, b) BY DEF CrcFails, Showing, s, b
<1>6. CrcPasses(k) = [k EXCEPT !.status = a, !.verifying = FALSE] BY DEF CrcPasses, a
<1> QED BY <1>1, <1>3, <1>4, <1>5, <1>6, LikeTwice

LEMMA VerifyCRCGoes ==
  ASSUME NEW k, Active(k) PROVE Goes(k, VerifyCRC(k))
<1>1. Like(k, CrcFails(k)) /\ Like(k, CrcPasses(k)) BY CrcLike DEF Active
<1>2. Goes(k, CrcFails(k)) /\ Active(CrcPasses(k)) BY <1>1, LikeGoes
<1>3. Goes(CrcPasses(k), Finish(CrcPasses(k))) BY <1>2, FinishGoes
<1> QED BY <1>1, <1>2, <1>3, LikeThen DEF VerifyCRC

LEMMA TimedOutGoes ==
  ASSUME NEW k, Active(k), k.type = 3 \/ k.index >= VerifyPulses PROVE Goes(k, TimedOut(k))
<1> DEFINE v == [k EXCEPT !.verifying = FALSE]
<1>1. Like(k, v) BY Values, ZenonT(60) DEF Active, Like, Same, Kept, C, ControllerWith
<1>2. v.index = k.index /\ v.type = k.type BY DEF Active, C, ControllerWith
<1> HIDE DEF v
<1>3. Active(v) BY <1>1, LikeGoes
<1>4. Goes(v, Fail(v, NotFound)) BY <1>2, <1>3, FailGoes DEF Active
<1>5. TimedOut(k) = Fail(v, NotFound) BY DEF TimedOut, v
<1> QED BY <1>1, <1>4, <1>5, LikeThen

-----------------------------------------------------------------------------
(* Type I commands. *)

\* The head is on the disk, and a SEEK that is executed brings it from the track
\* of the track register to one that the disk has.
OnDisk(h) == h \in 0..(Cylinders - 1)
Safe(k) ==
  /\ OnDisk(k.head)
  /\ k.type = 1 /\ ~k.done /\ k.name = "SEEK" /\ ~k.acted => k.track = k.head /\ OnDisk(k.data)

\* What moving the head leaves as it is, and where a command that has acted is.
Rest(k, l) ==
  /\ l.type = k.type /\ l.name = k.name /\ l.idle = k.idle /\ l.done = k.done
  /\ l.status = k.status /\ l.intrq = k.intrq /\ l.line = k.line /\ l.mark = k.mark
  /\ l.data = k.data /\ l.ptr = k.ptr /\ l.index = k.index
Arrived(k, l) ==
  /\ k.name = "RESTORE" => l.head = 0 /\ l.track = 0
  /\ k.name = "SEEK" /\ Safe(k) => l.head = l.data
Moves(k, l) ==
  l \in C /\ Rest(k, l) /\ (Safe(k) => Safe(l)) /\ (l.acted => k.acted \/ Arrived(k, l))

LEMMA StepByKeeps ==
  ASSUME NEW k \in C, NEW d \in {-1, 1}
  PROVE  /\ StepBy(k, d) \in C /\ Rest(k, StepBy(k, d)) /\ StepBy(k, d).head = k.head + d
         /\ StepBy(k, d).track = k.track /\ StepBy(k, d).acted = k.acted
<1> DEFINE h == k.head + d
           s == (d + 1) \div 2
<1>1. h \in Int BY Fields
<1>2. s \in 0..1 OBVIOUS
<1> DEFINE l == [k EXCEPT !.head = h, !.dir = s]
<1>3. StepBy(k, d) = l BY DEF StepBy
<1> HIDE DEF h, s
<1>4. l \in C /\ Rest(k, l) /\ l.head = h /\ l.track = k.track /\ l.acted = k.acted
  BY <1>1, <1>2, ZenonT(60) DEF C, ControllerWith, Rest
<1> HIDE DEF l
<1> QED BY <1>3, <1>4 DEF h

LEMMA FollowKeeps ==
  ASSUME NEW k \in C
  PROVE  /\ Follow(k) \in C /\ Rest(k, Follow(k)) /\ Follow(k).head = k.head
         /\ Follow(k).track = k.head % 256 /\ Follow(k).acted = k.acted
<1> DEFINE h == k.head % 256
<1>1. k.head \in Int BY Fields
<1>2. h \in Byte BY <1>1 DEF Byte
<1> DEFINE l == [k EXCEPT !.track = h]
<1>3. Follow(k) = l BY DEF Follow
<1> HIDE DEF h
<1>4. l \in C /\ Rest(k, l) /\ l.head = k.head /\ l.track = h /\ l.acted = k.acted
  BY <1>2, ZenonT(60) DEF C, ControllerWith, Rest
<1> HIDE DEF l
<1> QED BY <1>3, <1>4 DEF h

LEMMA ActedKeeps ==
  ASSUME NEW k \in C
  PROVE  /\ Acted(k) \in C /\ Rest(k, Acted(k)) /\ Acted(k).head = k.head /\ Acted(k).acted
         /\ Acted(k).track = k.track
  BY Values, ZenonT(60) DEF C, ControllerWith, Rest, Acted

AtTrack0(k) == [k EXCEPT !.track = 0]
LEMMA AtTrack0Keeps ==
  ASSUME NEW k \in C
  PROVE  /\ AtTrack0(k) \in C /\ Rest(k, AtTrack0(k)) /\ AtTrack0(k).head = k.head
         /\ AtTrack0(k).acted = k.acted /\ AtTrack0(k).track = 0
  BY Values, ZenonT(60) DEF C, ControllerWith, Rest, AtTrack0

\* A command that has acted is safe where it is.
LEMMA ActedMoves ==
  ASSUME NEW k \in C, NEW l \in C, Rest(k, l), OnDisk(k.head) => OnDisk(l.head), Arrived(k, l)
  PROVE  Moves(k, Acted(l))
  BY ActedKeeps DEF Moves, Rest, Safe, Arrived

LEMMA SelfMoves == ASSUME NEW k \in C PROVE Moves(k, k)
  BY DEF Moves, Rest

LEMMA HeadNear ==
  ASSUME NEW h \in Int, NEW d \in {-1, 1}, OnDisk(h), d = -1 => h # 0, d = 1 => h # Cylinders - 1
  PROVE  OnDisk(h + d)
  BY Numbers DEF OnDisk

LEMMA RestoreMoves ==
  ASSUME NEW k \in C, k.name = "RESTORE", ~k.acted, NEW t PROVE Moves(k, Restore(k, t))
<1>1. k.head \in Int BY Fields
<1>2. CASE k.head = 0
  <2>1. Restore(k, t) = Acted(AtTrack0(k)) BY <1>2 DEF Restore, AtTrack0
  <2>2. Arrived(k, AtTrack0(k)) BY <1>2, AtTrack0Keeps DEF Arrived
  <2> QED BY <2>1, <2>2, AtTrack0Keeps, ActedMoves
<1>3. CASE k.head # 0 /\ StepEnds(t)
  <2>1. Restore(k, t) = StepBy(k, -1) BY <1>3 DEF Restore
  <2>2. -1 \in {-1, 1} OBVIOUS
  <2>3. OnDisk(k.head) => OnDisk(k.head + -1) BY <1>1, <1>3, HeadNear
  <2>4. /\ StepBy(k, -1) \in C /\ Rest(k, StepBy(k, -1)) /\ StepBy(k, -1).head = k.head + -1
        /\ ~StepBy(k, -1).acted
    BY <2>2, StepByKeeps
  <2> QED BY <2>1, <2>3, <2>4 DEF Moves, Safe, Rest
<1>4. CASE k.head # 0 /\ ~StepEnds(t) BY <1>4, SelfMoves DEF Restore
<1> QED BY <1>2, <1>3, <1>4

\* A SEEK that is on its way stays between the two tracks.
LEMMA SeekNear ==
  ASSUME NEW h \in Int, NEW a \in Int, OnDisk(h), OnDisk(a), h # a, NEW d,
         d = IF h > a THEN -1 ELSE 1
  PROVE  OnDisk(h + d) /\ (h + d) % 256 = h + d
<1>1. h + d \in 0..(Cylinders - 1) BY Numbers DEF OnDisk
<1>2. h + d \in 0..254 BY <1>1, Numbers
<1> QED BY <1>1, <1>2 DEF OnDisk

LEMMA SeekMoves ==
  ASSUME NEW k \in C, k.name = "SEEK", k.type = 1, ~k.done, ~k.acted, NEW t
  PROVE  Moves(k, Seek(k, t))
<1>0. k.head \in Int /\ k.data \in Byte /\ k.track \in Byte BY Fields
<1>1. k.head \in Int /\ k.data \in Int /\ k.track \in Int BY <1>0 DEF Byte
<1>2. CASE k.track = k.data
  <2>1. Arrived(k, k) /\ Rest(k, k) BY <1>2 DEF Arrived, Rest, Safe
  <2> QED BY <1>2, <2>1, ActedMoves DEF Seek
<1>3. CASE k.track # k.data /\ StepEnds(t)
  <2> DEFINE d == IF k.track > k.data THEN -1 ELSE 1
             s == StepBy(k, d)
  <2>1. Seek(k, t) = Follow(s) BY <1>3 DEF Seek
  <2>2. d \in {-1, 1} OBVIOUS
  <2>3. s \in C /\ Rest(k, s) /\ s.head = k.head + d /\ s.acted = k.acted
    BY <2>2, StepByKeeps
  <2>4. d = IF k.track > k.data THEN -1 ELSE 1 OBVIOUS
  <2> HIDE DEF s, d
  <2>5. /\ Follow(s) \in C /\ Rest(s, Follow(s)) /\ Follow(s).head = s.head
        /\ Follow(s).track = s.head % 256 /\ Follow(s).acted = s.acted
    BY <2>3, FollowKeeps
  <2>6. ASSUME Safe(k) PROVE Safe(Follow(s))
    <3>1. OnDisk(k.head) /\ k.track = k.head /\ OnDisk(k.data) BY <2>6 DEF Safe
    <3>2. OnDisk(k.head + d) /\ (k.head + d) % 256 = k.head + d
      BY <1>1, <1>3, <2>4, <3>1, SeekNear
    <3> QED BY <2>3, <2>5, <3>1, <3>2 DEF Safe, Rest
  <2> QED BY <2>1, <2>3, <2>5, <2>6 DEF Moves, Rest
<1>4. CASE k.track # k.data /\ ~StepEnds(t) BY <1>4, SelfMoves DEF Seek
<1> QED BY <1>2, <1>3, <1>4

LEMMA OneStepMoves ==
  ASSUME NEW k \in C, k.name \notin {"RESTORE", "SEEK"},
         NEW t, NEW d \in {-1, 1}, d = -1 => k.head # 0, d = 1 => k.head # Cylinders - 1
  PROVE  Moves(k, OneStep(k, t, d))
<1> DEFINE there == StepBy(k, d)
<1>1. k.head \in Int BY Fields
<1>2. OnDisk(k.head) => OnDisk(k.head + d) BY <1>1, HeadNear
<1>3. there \in C /\ Rest(k, there) /\ there.head = k.head + d BY StepByKeeps
<1> HIDE DEF there
<1>4. Follow(there) \in C /\ Rest(k, Follow(there)) /\ Follow(there).head = k.head + d
  BY <1>3, FollowKeeps DEF Rest
<1>5. Moves(k, Acted(there)) /\ Moves(k, Acted(Follow(there)))
  BY <1>2, <1>3, <1>4, ActedMoves DEF Arrived
<1> QED BY <1>5, SelfMoves DEF OneStep, there

LEMMA TypeIActionMoves ==
  ASSUME NEW k \in C, k.type = 1, ~k.done, ~k.acted, NEW t
  PROVE  Moves(k, TypeIAction(k, t))
<1>1. CASE k.name = "RESTORE" BY <1>1, RestoreMoves DEF TypeIAction
<1>2. CASE k.name = "SEEK" BY <1>2, SeekMoves DEF TypeIAction
<1>3. CASE k.name \notin {"RESTORE", "SEEK"}
  <2>1. Moves(k, StepOut(k, t))
    <3>1. CASE k.head = 0
      <4>1. StepOut(k, t) = Acted(AtTrack0(k)) BY <3>1 DEF StepOut, AtTrack0
      <4> QED BY <1>3, <4>1, AtTrack0Keeps, ActedMoves DEF Arrived
    <3>2. CASE k.head # 0 BY <1>3, <3>2, OneStepMoves DEF StepOut
    <3> QED BY <3>1, <3>2
  <2>2. Moves(k, StepIn(k, t))
    <3>1. CASE k.head = Cylinders - 1 BY <1>3, <3>1, ActedMoves DEF StepIn, Rest, Arrived
    <3>2. CASE k.head # Cylinders - 1 BY <1>3, <3>2, OneStepMoves DEF StepIn
    <3> QED BY <3>1, <3>2
  <2>3. Moves(k, Step(k, t)) BY <2>1, <2>2 DEF Step
  <2> QED BY <1>3, <2>1, <2>2, <2>3, SelfMoves DEF TypeIAction
<1> QED BY <1>1, <1>2, <1>3

LEMMA LoadHeadLike ==
  ASSUME NEW k \in C
  PROVE  /\ Like(k, LoadHead(k)) /\ LoadHead(k).name = k.name /\ LoadHead(k).track = k.track
         /\ LoadHead(k).data = k.data /\ LoadHead(k).status = k.status
  BY Values, ZenonT(60) DEF Like, Same, Kept, C, ControllerWith, LoadHead

Undelayed(k) == [k EXCEPT !.delayed = FALSE]
LEMMA UndelayedLike == ASSUME NEW k \in C PROVE Like(k, Undelayed(k))
  BY Values, ZenonT(60) DEF Like, Same, Kept, C, ControllerWith, Undelayed

LEMMA DelayedLoadLike ==
  ASSUME NEW k \in C PROVE Like(k, DelayedLoad(k))
<1> DEFINE l == LoadHead(k)
<1>1. Like(k, l) /\ l \in C BY LoadHeadLike DEF Like
<1>2. Like(k, k) BY DEF Like, Same, Kept
<1> HIDE DEF l
<1>3. Like(k, Undelayed(l)) BY <1>1, UndelayedLike, LikeTwice
<1> QED BY <1>2, <1>3 DEF DelayedLoad, Undelayed, l

LEMMA SettleLike ==
  ASSUME NEW k \in C, NEW t PROVE Like(k, Settle(k, t))
<1> DEFINE s == k.settled \/ "settle" \in t.fired
<1>1. s \in Flag BY DEF Flag
<1> HIDE DEF s
<1>2. Like(k, [k EXCEPT !.settled = s])
  BY <1>1, ZenonT(60) DEF Like, Same, Kept, C, ControllerWith
<1> QED BY <1>2 DEF Settle, s

Verifying(k, b) == [k EXCEPT !.verifying = b]
LEMMA VerifyingLike ==
  ASSUME NEW k \in C, NEW b \in Flag
  PROVE  Like(k, Verifying(k, b)) /\ Verifying(k, b).mark = k.mark
  BY ZenonT(60) DEF Like, Same, Kept, C, ControllerWith, Verifying

LEMMA TypeIVerifySequenceGoes ==
  ASSUME NEW k, Active(k), NEW t \in Times, disk \in Images
  PROVE  Goes(k, TypeIVerifySequence(k, t))
<1> DEFINE s == Settle(k, t)
           v == Verifying(s, TRUE)
<1>1. Like(k, s) /\ s \in C BY SettleLike DEF Active, Like
<1>2. Like(k, v) /\ v \in C
  <2>1. Like(s, v) BY <1>1, VerifyingLike, Values
  <2> QED BY <1>1, <2>1, LikeTwice DEF Like
<1> HIDE DEF s, v
<1>3. Goes(k, s) /\ Goes(k, v) /\ Active(v) BY <1>1, <1>2, LikeGoes
<1>4. (v.index >= VerifyPulses => Goes(v, TimedOut(v))) /\ Goes(v, VerifyCRC(v))
  BY <1>3, TimedOutGoes, VerifyCRCGoes
<1>5. Like(v, ReadID(v, t)) /\ Like(v, SearchAgain(v)) BY <1>2, ReadIDLike, SearchAgainLike
<1>6. Goes(v, ReadID(v, t)) /\ Goes(v, SearchAgain(v)) BY <1>3, <1>5, LikeGoes
<1>7. /\ v.index >= VerifyPulses => Goes(k, TimedOut(v))
      /\ Goes(k, VerifyCRC(v)) /\ Goes(k, ReadID(v, t)) /\ Goes(k, SearchAgain(v))
  BY <1>2, <1>4, <1>6, LikeThen
<1> QED BY <1>3, <1>7 DEF TypeIVerifySequence, s, v, Verifying

\* What a step of a command comes to.
Steps(k, l) ==
  /\ Kept(k, l) /\ Signals(k, l) /\ (Safe(k) => Safe(l))
  /\ l.acted => k.acted \/ Arrived(k, l)

LEMMA GoesSteps ==
  ASSUME NEW k, NEW l, Goes(k, l), k.acted \/ k.type # 1 PROVE Steps(k, l)
  BY DEF Goes, Steps, Same, Kept, Safe

LEMMA TypeIStepSteps ==
  ASSUME NEW k, Active(k), k.type = 1, NEW t \in Times, disk \in Images
  PROVE  Steps(k, TypeIStep(k, t))
<1>1. CASE ~k.acted
  <2>1. Moves(k, TypeIAction(k, t)) BY <1>1, TypeIActionMoves DEF Active
  <2> QED BY <1>1, <2>1 DEF TypeIStep, Moves, Rest, Steps, Kept, Signals, Active, Follows
<1>2. CASE k.acted
  <2> DEFINE l == DelayedLoad(k)
  <2>1. Like(k, l) BY DelayedLoadLike DEF Active
  <2> HIDE DEF l
  <2>2. Active(l) BY <2>1, LikeGoes
  <2>3. Goes(l, TypeIVerifySequence(l, t)) /\ Goes(l, Finish(l))
    BY <2>2, TypeIVerifySequenceGoes, FinishGoes
  <2>4. Goes(k, TypeIVerifySequence(l, t)) /\ Goes(k, Finish(l)) BY <2>1, <2>3, LikeThen
  <2> QED BY <1>2, <2>4, GoesSteps DEF TypeIStep, l
<1> QED BY <1>1, <1>2

-----------------------------------------------------------------------------
(* Type II commands. *)

LEMMA EDelayLike ==
  ASSUME NEW k \in C, NEW t PROVE Like(k, EDelay(k, t))
<1> DEFINE e == k.edone \/ "e" \in t.fired
<1>1. e \in Flag BY DEF Flag
<1> HIDE DEF e
<1>2. Like(k, [k EXCEPT !.edone = e])
  BY <1>1, ZenonT(60) DEF Like, Same, Kept, C, ControllerWith
<1>3. Like(k, k) BY DEF Like, Same, Kept
<1> QED BY <1>2, <1>3 DEF EDelay, e

Left(k, n) == [k EXCEPT !.left = n]
LEMMA LeftLike == ASSUME NEW k \in C, NEW n \in Int PROVE Like(k, Left(k, n))
  BY ZenonT(60) DEF Like, Same, Kept, C, ControllerWith, Left

Verified(k) == [k EXCEPT !.verified = TRUE]
LEMMA VerifiedLike == ASSUME NEW k \in C PROVE Like(k, Verified(k))
  BY Values, ZenonT(60) DEF Like, Same, Kept, C, ControllerWith, Verified

LEMMA Lengths ==
  ASSUME NEW k \in C, NEW t \in Times PROVE LengthFromID(k, t) \in Int
<1>1. t.junk \in Byte BY DEF Times
<1>2. t.junk \in Int BY <1>1 DEF Byte
<1>3. k.id[4] \in 0..4 => SizeOf[k.id[4]] \in Int BY Numbers
<1> QED BY <1>2, <1>3 DEF LengthFromID

LEMMA TypeIICmdIDVerifyGoes ==
  ASSUME NEW k, Active(k), NEW t \in Times, disk \in Images
  PROVE  Goes(k, TypeIICmdIDVerify(k, t))
<1> DEFINE l == Left(k, LengthFromID(k, t))
<1>1. k \in C BY DEF Active
<1>2. Like(k, l) /\ l \in C BY <1>1, Lengths, LeftLike DEF Like
<1> HIDE DEF l
<1>3. Like(l, CrcFails(l)) /\ Like(l, CrcPasses(l)) /\ CrcPasses(l) \in C
  BY <1>2, CrcLike DEF Like
<1>4. Like(CrcPasses(l), Verified(CrcPasses(l))) BY <1>3, VerifiedLike
<1>5. Like(k, CrcFails(l)) BY <1>2, <1>3, LikeTwice
<1>6. Like(l, Verified(CrcPasses(l))) BY <1>3, <1>4, LikeTwice
<1>7. Like(k, Verified(CrcPasses(l))) BY <1>2, <1>6, LikeTwice
<1>8. Goes(k, CrcFails(l)) /\ Goes(k, Verified(CrcPasses(l))) BY <1>5, <1>7, LikeGoes
<1>9. Like(k, ReadID(k, t)) /\ Like(k, SearchAgain(k)) /\ Like(k, k)
  BY <1>1, ReadIDLike, SearchAgainLike, LikeSelf
<1>10. /\ Goes(k, ReadID(k, t)) /\ Goes(k, SearchAgain(k)) /\ Goes(k, k)
       /\ k.index >= VerifyPulses => Goes(k, TimedOut(k))
  BY <1>9, LikeGoes, TimedOutGoes
<1> QED BY <1>8, <1>10 DEF TypeIICmdIDVerify, l, Left, Verified

Marked(k, m) == [k EXCEPT !.mark = m]
LEMMA MarkedKeeps ==
  ASSUME NEW k \in C, NEW m \in Marks
  PROVE  /\ Marked(k, m) \in C /\ Same(k, Marked(k, m)) /\ Marked(k, m).mark = m
         /\ Marked(k, m).status = k.status /\ Marked(k, m).done = k.done
         /\ Marked(k, m).intrq = k.intrq /\ Marked(k, m).line = k.line
  BY ZenonT(60) DEF C, ControllerWith, Same, Kept, Marked, Marks

LEMMA DataAddressMarkSearchGoes ==
  ASSUME NEW k, Active(k), k.type = 2, NEW b
  PROVE  Goes(k, DataAddressMarkSearch(k, b))
<1> DEFINE f == k.mark
           m1 == [f EXCEPT !.found = TRUE]
           m2 == [f EXCEPT !.a1s = f.a1s + 1]
           m3 == [f EXCEPT !.a1s = 0]
           k3 == Marked(k, m3)
           m4 == [k3.mark EXCEPT !.misses = @ + 1]
           m == Marked(k3, m4)
<1>1. k \in C /\ f \in Marks /\ f.misses < DataLimit BY Fields DEF Active
<1>2. f.a1s \in 0..PrefixLength /\ f.misses \in 0..DataLimit BY <1>1 DEF Marks
<1> HIDE DEF f
<1>3. /\ 0 \in 0..PrefixLength /\ f.misses + 1 \in 0..DataLimit
      /\ f.a1s < PrefixLength => f.a1s + 1 \in 0..PrefixLength
  BY <1>1, <1>2, Numbers
<1>4. m1 \in Marks /\ m1.misses = f.misses BY <1>1, Values DEF Marks
<1>5. f.a1s < PrefixLength => m2 \in Marks /\ m2.misses = f.misses BY <1>1, <1>3 DEF Marks
<1>6. m3 \in Marks /\ m3.misses = f.misses BY <1>1, <1>3 DEF Marks
<1> HIDE DEF m1, m2, m3
<1>7. Like(k, Marked(k, m1)) BY <1>1, <1>4, MarkedKeeps DEF Like, f
<1>8. f.a1s < PrefixLength => Like(k, Marked(k, m2)) BY <1>1, <1>5, MarkedKeeps DEF Like, f
<1>9. Like(k, k3) /\ k3 \in C /\ k3.mark = m3 BY <1>1, <1>6, MarkedKeeps DEF Like, f
<1> HIDE DEF k3
<1>10. m4 \in Marks /\ m4.misses = f.misses + 1 BY <1>3, <1>6, <1>9 DEF Marks
<1> HIDE DEF m4
<1>11. /\ m \in C /\ Same(k3, m) /\ m.mark = m4 /\ m.status = k3.status /\ m.done = k3.done
       /\ m.intrq = k3.intrq /\ m.line = k3.line
  BY <1>9, <1>10, MarkedKeeps
<1>12. m4.misses < DataLimit => Like(k, m) BY <1>9, <1>11, LikeTwice DEF Like
<1>13. m4.misses >= DataLimit => Goes(k, Fail(m, NotFound))
  <2> SUFFICES ASSUME m4.misses >= DataLimit PROVE Goes(k, Fail(m, NotFound)) OBVIOUS
  <2>1. Busy \in k3.status /\ Follows(k3) BY <1>9, LikeGoes DEF Active
  <2> HIDE DEF m
  <2>2. Busy \in m.status /\ Follows(m) BY <1>11, <2>1 DEF Follows
  <2>3. m.type = 2 BY <1>9, <1>11 DEF Like, Same, Kept
  <2>4. Goes(m, Fail(m, NotFound)) BY <1>11, <2>2, <2>3, FailGoes
  <2>5. Same(k, m) /\ (NotFound \in m.status <=> NotFound \in k.status)
    BY <1>9, <1>11 DEF Like, Same, Kept
  <2>6. m.intrq = k.intrq BY <1>9, <1>11 DEF Like
  <2>7. ~(0 >= VerifyPulses) BY Numbers
  <2>8. Missed(m, Fail(m, NotFound)) => Missed(k, Fail(m, NotFound))
    BY <2>5, <2>7 DEF Missed, Same, Kept
  <2>9. Same(k, Fail(m, NotFound)) BY <2>4, <2>5 DEF Goes, Same, Kept
  <2> QED BY <2>4, <2>5, <2>6, <2>8, <2>9 DEF Goes, Signals
<1>14. /\ Goes(k, Marked(k, m1))
       /\ f.a1s < PrefixLength => Goes(k, Marked(k, m2))
       /\ m4.misses < DataLimit => Goes(k, m)
  BY <1>7, <1>8, <1>12, LikeGoes
<1>15. CASE f.a1s = PrefixLength /\ b = 251
  <2>1. DataAddressMarkSearch(k, b) = Marked(k, m1)
    BY <1>15 DEF DataAddressMarkSearch, Marked, m1, f
  <2> QED BY <1>14, <2>1
<1>16. CASE ~(f.a1s = PrefixLength /\ b = 251) /\ f.a1s < PrefixLength /\ b = 161
  <2>1. DataAddressMarkSearch(k, b) = Marked(k, m2)
    BY <1>16 DEF DataAddressMarkSearch, Marked, m2, f
  <2> QED BY <1>14, <1>16, <2>1
<1>17. CASE ~(f.a1s = PrefixLength /\ b = 251) /\ ~(f.a1s < PrefixLength /\ b = 161)
  <2>1. DataAddressMarkSearch(k, b) = IF m.mark.misses >= DataLimit THEN Fail(m, NotFound) ELSE m
    <3> DEFINE x == [k EXCEPT !.mark.a1s = 0, !.mark.misses = @ + 1]
    <3>1. x = m BY DEF Marked, m3, m4, k3, f
    <3>2. DataAddressMarkSearch(k, b) = IF x.mark.misses >= DataLimit THEN Fail(x, NotFound) ELSE x
      BY <1>17 DEF DataAddressMarkSearch, f
    <3> HIDE DEF x, m
    <3> QED BY <3>1, <3>2
  <2>2. m4.misses \in Int BY <1>3, <1>10
  <2>3. m4.misses >= DataLimit \/ m4.misses < DataLimit BY <2>2, Numbers
  <2> QED BY <1>11, <1>13, <1>14, <2>1, <2>3
<1> QED BY <1>15, <1>16, <1>17

LEMMA NoteLostLike ==
  ASSUME NEW k \in C PROVE Like(k, NoteLost(k)) /\ NoteLost(k).mark = k.mark
<1> DEFINE s == IF k.drq THEN k.status \cup {LostData} ELSE k.status \ {LostData}
<1>1. /\ s \in SUBSET (0..5) /\ (Busy \in s <=> Busy \in k.status)
      /\ NotFound \in s <=> NotFound \in k.status
  BY Fields, Statuses DEF LostData, NotFound
<1> HIDE DEF s
<1>2. Like(k, Showing(k, s)) /\ Showing(k, s).mark = k.mark BY <1>1, ShowingKeeps DEF Like
<1> QED BY <1>2 DEF NoteLost, Showing, s

LEMMA DeliverLike ==
  ASSUME NEW k \in C, NEW b \in Byte PROVE Like(k, Deliver(k, b)) /\ Deliver(k, b).mark = k.mark
<1> DEFINE s == k.status \cup {DataRequest}
           l == [k EXCEPT !.data = b, !.drq = TRUE, !.status = s]
<1>1. /\ s \in SUBSET (0..5) /\ (Busy \in s <=> Busy \in k.status)
      /\ NotFound \in s <=> NotFound \in k.status
  BY Fields, Statuses DEF DataRequest, NotFound
<1>2. Deliver(k, b) = l BY DEF Deliver
<1> HIDE DEF s
<1>3. l \in C /\ Same(k, l) /\ l.status = s /\ l.done = k.done /\ l.intrq = k.intrq
      /\ l.line = k.line /\ l.mark = k.mark
  BY <1>1, Values, ZenonT(60) DEF C, ControllerWith, Same, Kept
<1> HIDE DEF l
<1> QED BY <1>1, <1>2, <1>3 DEF Like

LEMMA DataByteLike ==
  ASSUME NEW k \in C, NEW b \in Byte PROVE Like(k, DataByte(k, b))
<1> DEFINE n == NoteLost(k)
           d == Deliver(n, b)
           i == d.left - 1
           a == k.left = 1
           m == [d.mark EXCEPT !.all = a]
<1>1. Like(k, n) /\ n \in C BY NoteLostLike DEF Like
<1> HIDE DEF n
<1>2. Like(n, d) /\ d \in C BY <1>1, DeliverLike DEF Like
<1>3. Like(k, d) BY <1>1, <1>2, LikeTwice
<1> HIDE DEF d
<1>4. d.left \in Int /\ d.mark \in Marks BY <1>2, Fields
<1>5. i \in Int BY <1>4
<1>6. a \in Flag BY DEF Flag
<1> HIDE DEF i, a
<1>7. m \in Marks /\ m.misses = d.mark.misses BY <1>4, <1>6 DEF Marks
<1> HIDE DEF m
<1>8. Like(d, Left(d, i)) /\ Left(d, i) \in C BY <1>2, <1>5, LeftLike DEF Like
<1>9. Left(d, i).mark = d.mark BY <1>2 DEF C, ControllerWith, Left
<1>10. Like(Left(d, i), Marked(Left(d, i), m)) BY <1>7, <1>8, <1>9, MarkedKeeps DEF Like
<1>11. Like(k, Marked(Left(d, i), m)) BY <1>3, <1>8, <1>10, LikeTwice
<1>12. DataByte(k, b) = Marked(Left(d, i), m)
  <2>1. Left(d, i).mark = d.mark BY <1>9
  <2>2. DataByte(k, b) = [d EXCEPT !.left = i, !.mark.all = a] BY DEF DataByte, d, n, i, a
  <2>3. [d EXCEPT !.left = i, !.mark.all = a]
          = [Left(d, i) EXCEPT !.mark = [Left(d, i).mark EXCEPT !.all = a]]
    BY DEF Left
  <2> QED BY <2>1, <2>2, <2>3 DEF Marked, m
<1> QED BY <1>11, <1>12

LEMMA NextRecordGoes ==
  ASSUME NEW k, Active(k) PROVE Goes(k, NextRecord(k))
<1> DEFINE s == (k.sector + 1) % 256
           n == [k EXCEPT !.sector = s]
           r == [n EXCEPT !.index = 0, !.verified = FALSE, !.find = Unfound, !.mark = Unmarked]
<1>1. k \in C /\ k.sector \in Byte BY Fields DEF Active
<1>2. s \in Byte BY <1>1 DEF Byte
<1> HIDE DEF s
<1>3. Like(k, n)
  BY <1>1, <1>2, ZenonT(60) DEF C, ControllerWith, Like, Same, Kept
<1>4. r \in C /\ Same(k, r) /\ r.status = k.status /\ r.done = k.done /\ r.intrq = k.intrq
      /\ r.line = k.line /\ r.mark = Unmarked
  BY <1>1, <1>2, Values, ZenonT(60) DEF C, ControllerWith, Same, Kept, Finds, Marks
<1> HIDE DEF n, r
<1>5. Like(k, r) BY <1>4, Values DEF Like
<1>6. Active(n) /\ Goes(k, r) BY <1>3, <1>5, LikeGoes
<1>7. Goes(k, Finish(n)) BY <1>3, <1>6, FinishGoes, LikeThen
<1>8. NextRecord(k) = IF n.sector > Sectors THEN Finish(n) ELSE r BY DEF NextRecord, n, r, s
<1> QED BY <1>6, <1>7, <1>8

LEMMA ReadSectorGoes ==
  ASSUME NEW k, Active(k), k.type = 2, NEW t \in Times, disk \in Images
  PROVE  Goes(k, ReadSector(k, t))
<1> DEFINE b == GetFDiskByte(k, t.junk)
<1>1. k \in C /\ t.junk \in Byte BY DEF Active, Times
<1>2. b \in Byte BY <1>1, DiskBytes
<1> HIDE DEF b
<1>3. Like(k, DataByte(k, b)) /\ Like(k, k) BY <1>1, <1>2, DataByteLike, LikeSelf
<1>4. Goes(k, DataByte(k, b)) /\ Goes(k, k) BY <1>3, LikeGoes
<1>5. Goes(k, DataAddressMarkSearch(k, b)) BY DataAddressMarkSearchGoes
<1>6. Goes(k, NextRecord(k)) /\ Goes(k, Finish(k)) BY NextRecordGoes, FinishGoes
<1> QED BY <1>4, <1>5, <1>6 DEF ReadSector, b

Loaded(k, d) == [k EXCEPT !.loaded = d]
LEMMA LoadedLike ==
  ASSUME NEW k \in C, NEW d \in Drives
  PROVE  /\ Like(k, Loaded(k, d)) /\ Loaded(k, d).name = k.name /\ Loaded(k, d).track = k.track
         /\ Loaded(k, d).data = k.data /\ Loaded(k, d).mark = k.mark /\ Loaded(k, d).status = k.status
  BY ZenonT(60) DEF Like, Same, Kept, C, ControllerWith, Loaded

LEMMA WriteSectorGoes ==
  ASSUME NEW k, Active(k), NEW stray PROVE Goes(k, WriteSector(k, stray))
<1> DEFINE d == Target(k, stray)
           l == IF d \in Drives \ Protected THEN Loaded(k, d) ELSE k
<1>1. k \in C /\ Like(k, k) BY LikeSelf DEF Active
<1> HIDE DEF d
<1>2. Like(k, l) BY <1>1, LoadedLike
<1>3. Active(l) BY <1>2, LikeGoes
<1>4. WriteSector(k, stray) = Finish(l) BY DEF WriteSector, l, d, Loaded
<1> HIDE DEF l
<1> QED BY <1>2, <1>3, <1>4, FinishGoes, LikeThen

LEMMA TypeIIStepSteps ==
  ASSUME NEW k, Active(k), k.type = 2, NEW t \in Times, disk \in Images
  PROVE  Steps(k, TypeIIStep(k, t))
<1> DEFINE e == EDelay(k, t)
           v == Verifying(e, TRUE)
           u == Verifying(e, FALSE)
<1>1. Like(k, e) /\ e \in C BY EDelayLike DEF Active, Like
<1> HIDE DEF e
<1>2. Like(e, v) /\ Like(e, u) BY <1>1, VerifyingLike, Values
<1> HIDE DEF u, v
<1>3. Like(k, v) /\ Like(k, u) BY <1>1, <1>2, LikeTwice
<1>4. Goes(k, e) /\ Active(v) /\ Active(u) BY <1>1, <1>3, LikeGoes
<1>5. u.type = 2 BY <1>3 DEF Like, Same, Kept
<1>6. /\ Goes(v, TypeIICmdIDVerify(v, t)) /\ Goes(u, ReadSector(u, t))
      /\ Goes(u, WriteSector(u, t.stray))
  BY <1>4, <1>5, TypeIICmdIDVerifyGoes, ReadSectorGoes, WriteSectorGoes
<1>7. /\ Goes(k, TypeIICmdIDVerify(v, t)) /\ Goes(k, ReadSector(u, t))
      /\ Goes(k, WriteSector(u, t.stray))
  BY <1>3, <1>6, LikeThen
<1>8. Goes(k, TypeIIStep(k, t)) BY <1>4, <1>7 DEF TypeIIStep, e, u, v, Verifying
<1> QED BY <1>8, GoesSteps

-----------------------------------------------------------------------------
(* Type III commands. *)

Sector(k, s) == [k EXCEPT !.sector = s]
LEMMA SectorLike == ASSUME NEW k \in C, NEW s \in Byte PROVE Like(k, Sector(k, s))
  BY ZenonT(60) DEF Like, Same, Kept, C, ControllerWith, Sector

Read(k, i, n) == [k EXCEPT !.id = i, !.idam = n]
LEMMA ReadLike ==
  ASSUME NEW k \in C, NEW i \in [1..6 -> Byte], NEW n \in 0..6 PROVE Like(k, Read(k, i, n))
  BY ZenonT(60) DEF Like, Same, Kept, C, ControllerWith, Read

LEMMA ReadAddressGoes ==
  ASSUME NEW k, Active(k), k.type = 3, NEW t \in Times, disk \in Images
  PROVE  Goes(k, ReadAddress(k, t))
<1> DEFINE b == GetFDiskByte(k, t.junk)
           s == Verifying(k, TRUE)
           f == IF t.byte THEN IDAddressMarkSearch(s, b) ELSE s
           c == Verifying(k, FALSE)
           a == Sector(c, k.id[1])
           d == Deliver(c, b)
           i == [d.id EXCEPT ![k.idam + 1] = b]
           n == d.idam + 1
           r == Read(d, i, n)
<1>1. k \in C /\ t.junk \in Byte /\ k.id \in [1..6 -> Byte] /\ k.idam \in 0..6
  BY Fields DEF Active, Times
<1>2. b \in Byte /\ k.id[1] \in Byte BY <1>1, DiskBytes
<1> HIDE DEF b
<1>3. Like(k, s) /\ Like(k, c) /\ s \in C /\ c \in C BY <1>1, VerifyingLike, Values DEF Like
<1>4. c.idam = k.idam /\ c.id = k.id BY <1>1 DEF Verifying, C, ControllerWith
<1> HIDE DEF s, c
<1>5. Like(s, IDAddressMarkSearch(s, b)) BY <1>3, IDAddressMarkSearchLike
<1>6. Like(k, f) BY <1>3, <1>5, LikeTwice
<1>7. Like(c, a) /\ Like(c, d) BY <1>2, <1>3, SectorLike, DeliverLike
<1>8. Like(k, a) /\ Like(k, d) /\ a \in C /\ d \in C BY <1>3, <1>7, LikeTwice DEF Like
<1>9. d.idam = k.idam /\ d.id = k.id BY <1>3, <1>4 DEF Deliver, C, ControllerWith
<1> HIDE DEF a, d, f
<1>10. Like(k, CrcPasses(a)) /\ Like(k, CrcFails(a)) BY <1>8, CrcLike, LikeTwice
<1>11. k.idam < 6 => Like(k, r)
  <2> SUFFICES ASSUME k.idam < 6 PROVE Like(k, r) OBVIOUS
  <2>1. n \in 0..6 /\ k.idam + 1 \in 1..6 BY <1>1, <1>9
  <2>2. i \in [1..6 -> Byte] BY <1>1, <1>2, <1>9, <2>1
  <2> HIDE DEF i, n
  <2> QED BY <1>8, <2>1, <2>2, ReadLike, LikeTwice
<1>12. /\ Active(f) /\ Goes(k, f) /\ Goes(k, c) /\ Active(CrcPasses(a)) /\ Active(CrcFails(a))
       /\ k.idam < 6 => Goes(k, r)
  BY <1>3, <1>6, <1>10, <1>11, LikeGoes
<1>13. Goes(k, TimedOut(f))
  <2>1. f.type = 3 BY <1>6 DEF Like, Same, Kept
  <2> QED BY <1>6, <1>12, <2>1, TimedOutGoes, LikeThen
<1>14. Goes(k, Finish(CrcPasses(a))) /\ Goes(k, Finish(CrcFails(a)))
  BY <1>10, <1>12, FinishGoes, LikeThen
<1>15. CASE ~k.find.found
  BY <1>12, <1>13, <1>15 DEF ReadAddress, f, s, b, Verifying
<1>16. CASE k.find.found /\ k.idam < 6
  <2>1. ReadAddress(k, t) = IF t.byte THEN r ELSE c
    BY <1>16 DEF ReadAddress, r, i, n, d, c, b, Verifying, Read
  <2> QED BY <1>12, <1>16, <2>1
<1>17. CASE k.find.found /\ ~(k.idam < 6)
  BY <1>14, <1>17 DEF ReadAddress, a, c, Verifying, Sector
<1> QED BY <1>15, <1>16, <1>17

Started(k, b) == [k EXCEPT !.started = b]
LEMMA StartedLike == ASSUME NEW k \in C, NEW b \in Flag PROVE Like(k, Started(k, b))
  BY ZenonT(60) DEF Like, Same, Kept, C, ControllerWith, Started

Passed(k, n) == [k EXCEPT !.passed = n]
LEMMA PassedLike == ASSUME NEW k \in C, NEW n \in 0..(Gap4a + 1) PROVE Like(k, Passed(k, n))
  BY ZenonT(60) DEF Like, Same, Kept, C, ControllerWith, Passed

LEMMA ReadTrackGoes ==
  ASSUME NEW k, Active(k), NEW t \in Times, disk \in Images
  PROVE  Goes(k, ReadTrack(k, t))
<1> DEFINE st == k.started \/ IndexPulse(k)
           s == Started(k, st)
           b == GetFDiskByte(s, t.junk)
           l == NoteLost(s)
           d == Deliver(l, b)
           p == IF d.passed > Gap4a THEN d.passed ELSE d.passed + 1
           r == Passed(d, p)
<1>1. k \in C /\ t.junk \in Byte /\ st \in Flag BY DEF Active, Times, Flag
<1> HIDE DEF st
<1>2. Like(k, s) /\ s \in C BY <1>1, StartedLike DEF Like
<1> HIDE DEF s
<1>3. b \in Byte BY <1>1, <1>2, DiskBytes
<1> HIDE DEF b
<1>4. Like(s, l) /\ l \in C BY <1>2, NoteLostLike DEF Like
<1> HIDE DEF l
<1>5. Like(l, d) /\ d \in C BY <1>3, <1>4, DeliverLike DEF Like
<1>6. Like(k, d) BY <1>2, <1>4, <1>5, LikeTwice
<1> HIDE DEF d
<1>7. d.passed \in 0..(Gap4a + 1) BY <1>5, Fields
<1>8. p \in 0..(Gap4a + 1) BY <1>7, Numbers
<1> HIDE DEF p
<1>9. Like(k, r) BY <1>5, <1>6, <1>8, PassedLike, LikeTwice
<1>10. Goes(k, s) /\ Goes(k, r) /\ Active(s) BY <1>2, <1>9, LikeGoes
<1>11. Goes(k, Finish(s)) BY <1>2, <1>10, FinishGoes, LikeThen
<1>12. ReadTrack(k, t) = IF ~s.started \/ ~t.byte THEN s
                         ELSE IF s.passed > Gap4a /\ IndexPulse(s) THEN Finish(s) ELSE r
  BY DEF ReadTrack, r, p, d, l, b, s, st, Started, Passed
<1> QED BY <1>10, <1>11, <1>12

LEMMA TypeIIIStepSteps ==
  ASSUME NEW k, Active(k), k.type = 3, NEW t \in Times, disk \in Images
  PROVE  Steps(k, TypeIIIStep(k, t))
<1> DEFINE e == EDelay(k, t)
<1>1. Like(k, e) /\ e \in C BY EDelayLike DEF Active, Like
<1> HIDE DEF e
<1>2. Goes(k, e) /\ Active(e) BY <1>1, LikeGoes
<1>3. Goes(e, ReadAddress(e, t)) /\ Goes(e, ReadTrack(e, t)) /\ Goes(e, Finish(e))
  <2>1. e.type = 3 BY <1>1 DEF Like, Same, Kept
  <2> QED BY <1>2, <2>1, ReadAddressGoes, ReadTrackGoes, FinishGoes
<1>4. Goes(k, ReadAddress(e, t)) /\ Goes(k, ReadTrack(e, t)) /\ Goes(k, Finish(e))
  BY <1>1, <1>3, LikeThen
<1>5. Goes(k, TypeIIIStep(k, t))
  <2>1. CASE EWaits(k) \/ ~e.hlt BY <1>2, <2>1 DEF TypeIIIStep, e
  <2>2. CASE ~(EWaits(k) \/ ~e.hlt)
    <3>1. TypeIIIStep(k, t) = CASE e.name = "READ ADDRESS" -> ReadAddress(e, t)
                                [] e.name = "READ TRACK"   -> ReadTrack(e, t)
                                [] e.name = "WRITE TRACK"  -> Finish(e)
                                [] OTHER -> e
      BY <2>2 DEF TypeIIIStep, e
    <3> QED BY <1>2, <1>4, <3>1
  <2> QED BY <2>1, <2>2
<1> QED BY <1>5, GoesSteps

-----------------------------------------------------------------------------
(* A cycle. *)

Keeps(k, l) == Sound(l) /\ (Safe(k) => Safe(l))
LEMMA KeepsSelf == ASSUME NEW k, Sound(k) PROVE Keeps(k, k) BY DEF Keeps
LEMMA KeepsTwice ==
  ASSUME NEW k, NEW l, NEW m, Keeps(k, l), Keeps(l, m) PROVE Keeps(k, m)
  BY DEF Keeps

LEMMA CommandStepKeeps ==
  ASSUME NEW k, Sound(k), NEW t \in Times, disk \in Images
  PROVE  Keeps(k, CommandStep(k, t))
<1>1. CASE Active(k)
  <2>1. k.type \in 0..3 /\ k.type # 0 /\ ~k.done BY <1>1, Fields DEF Active
  <2>2. k.type \in {1, 2, 3} BY <2>1
  <2>3. CASE k.type = 1
    BY <1>1, <2>1, <2>3, TypeIStepSteps DEF CommandStep, Steps, Signals, Keeps, Sound
  <2>4. CASE k.type = 2
    BY <1>1, <2>1, <2>4, TypeIIStepSteps DEF CommandStep, Steps, Signals, Keeps, Sound
  <2>5. CASE k.type = 3
    BY <1>1, <2>1, <2>5, TypeIIIStepSteps DEF CommandStep, Steps, Signals, Keeps, Sound
  <2> QED BY <2>2, <2>3, <2>4, <2>5
<1>2. CASE Over(k) \/ Idle(k)
  <2>1. k.done \/ k.type = 0 BY <1>2 DEF Over, Idle
  <2>2. CommandStep(k, t) = k BY <2>1 DEF CommandStep
  <2> QED BY <2>2, KeepsSelf
<1> QED BY <1>1, <1>2 DEF Sound

\* What changes neither the command nor the head keeps what is sound.
Plain(k, l) ==
  /\ l \in C
  /\ l.type = k.type /\ l.name = k.name /\ l.acted = k.acted /\ l.done = k.done
  /\ l.head = k.head /\ l.track = k.track /\ l.data = k.data
  /\ l.intrq = k.intrq /\ l.line = k.line /\ l.mark = k.mark
  /\ Busy \in l.status <=> Busy \in k.status
  /\ NotFound \in l.status <=> NotFound \in k.status

\* Neither has the disk turned.
Unturned(k, l) == l.idle = k.idle /\ l.ptr = k.ptr /\ l.index = k.index

LEMMA PlainKeeps == ASSUME NEW k, NEW l, Sound(k), Plain(k, l) PROVE Keeps(k, l)
  BY DEF Plain, Keeps, Sound, Active, Over, Idle, Follows, Safe

LEMMA SoundC == ASSUME NEW k, Sound(k) PROVE k \in C /\ Follows(k)
  BY DEF Sound, Active, Over, Idle

\* A command that is over moves no head.
LEMMA OverKeeps ==
  ASSUME NEW k, NEW l, Over(l), l.head = k.head PROVE Keeps(k, l)
  BY DEF Over, Keeps, Sound, Safe

LEMMA ReflectTypeIOver ==
  ASSUME NEW k \in C, k.done, Follows(k)
  PROVE  Over(ReflectTypeI(k)) /\ ReflectTypeI(k).head = k.head /\ ReflectTypeI(k).idle = k.idle
<1> DEFINE s == k.status \ {Busy, CrcError, NotFound}
           l == [k EXCEPT !.status = s, !.type = 1]
<1>1. k.status \in SUBSET (0..5) BY Fields
<1>2. s \in SUBSET (0..5) /\ Busy \notin s BY <1>1
<1>3. 1 \in 0..3 OBVIOUS
<1> HIDE DEF s
<1>4. l \in C /\ l.head = k.head /\ l.idle = k.idle /\ l.done = k.done /\ l.status = s
      /\ l.intrq = k.intrq /\ l.line = k.line
  BY <1>2, <1>3, ZenonT(60) DEF C, ControllerWith
<1>5. ReflectTypeI(k) = l BY DEF ReflectTypeI, l, s
<1> HIDE DEF l
<1> QED BY <1>2, <1>4, <1>5 DEF Over, Follows

LEMMA ForcedEndOver ==
  ASSUME NEW k, Sound(k)
  PROVE  /\ Over(ForcedEnd(k)) /\ ForcedEnd(k).head = k.head /\ ForcedEnd(k).idle = k.idle
<1>1. k \in C /\ Follows(k) BY SoundC
<1>2. CASE k.done BY <1>1, <1>2, ReflectTypeIOver DEF ForcedEnd
<1>3. CASE ~k.done BY <1>1, <1>3, StopGoes DEF ForcedEnd, Same, Kept
<1> QED BY <1>2, <1>3

LEMMA RaiseOver ==
  ASSUME NEW k, Over(k)
  PROVE  Over(Raise(k)) /\ Raise(k).head = k.head /\ Raise(k).idle = k.idle
  BY RaiseKeeps DEF Over, Same, Kept

LEMMA TerminateKeeps ==
  ASSUME NEW k, Sound(k)
  PROVE  Keeps(k, Terminate(k)) /\ Terminate(k).idle = k.idle
  BY ForcedEndOver, OverKeeps, KeepsSelf DEF Terminate

LEMMA ImmediateKeeps ==
  ASSUME NEW k, Sound(k)
  PROVE  Keeps(k, Immediate(k)) /\ Immediate(k).idle = k.idle
<1>1. Keeps(k, Raise(ForcedEnd(k))) /\ Raise(ForcedEnd(k)).idle = k.idle
  BY ForcedEndOver, RaiseOver, OverKeeps
<1> QED BY <1>1, KeepsSelf DEF Immediate

LEMMA OnIndexPulseKeeps ==
  ASSUME NEW k, Sound(k), NEW t PROVE Keeps(k, OnIndexPulse(k, t))
<1>1. Keeps(k, Raise(ForcedEnd(k))) BY ForcedEndOver, RaiseOver, OverKeeps
<1> QED BY <1>1, KeepsSelf DEF OnIndexPulse

\* The disk has turned by a byte, and the pulses are counted at the start of a track.
Turns(k, l, t) ==
  \/ l.index = k.index
  \/ l.index = 0
  \/ t.byte /\ l.ptr = 0 /\ k.ptr # 0 /\ l.index = Count(k.index)

LEMMA RotatePlain ==
  ASSUME NEW k \in C, k.idle < IdlePulses, NEW t
  PROVE  /\ Rotate(k, t) = k \/ Plain(k, Rotate(k, t))
         /\ Turns(k, Rotate(k, t), t) /\ Rotate(k, t).forced = k.forced
<1> DEFINE p == (k.ptr + 1) % TrackLength
           i == IF Busy \in k.status THEN 0 ELSE k.idle + 1
           n == IF k.verifying THEN Count(k.index) ELSE 0
           r == [k EXCEPT !.ptr = p]
           m == [k EXCEPT !.ptr = p, !.idle = i, !.index = n]
<1>1. /\ k.ptr \in 0..(TrackLength - 1) /\ k.idle \in 0..IdlePulses /\ k.index \in 0..MostPulses
  BY Fields
<1>2. p \in 0..(TrackLength - 1) BY <1>1, Spans
<1>3. p = 0 => k.ptr # 0
  <2> SUFFICES ASSUME k.ptr = 0 PROVE p = 1 OBVIOUS
  <2> QED BY Spans
<1>4. i \in 0..IdlePulses BY <1>1, Numbers
<1>5. MostPulses \in Nat BY Numbers DEF MostPulses
<1>6. n \in 0..MostPulses BY <1>1, <1>5 DEF Count
<1>7. n = 0 \/ n = Count(k.index) OBVIOUS
<1>8. Rotate(k, t) = IF ~t.byte THEN k ELSE IF p # 0 THEN r ELSE m
  BY DEF Rotate, r, m, p, i, n
<1> HIDE DEF p, i, n
<1>9. Plain(k, r) /\ r.forced = k.forced /\ r.index = k.index
  BY <1>2, ZenonT(60) DEF Plain, C, ControllerWith
<1>10. Plain(k, m) /\ m.forced = k.forced /\ m.index = n /\ m.ptr = p
  BY <1>2, <1>4, <1>6, ZenonT(60) DEF Plain, C, ControllerWith
<1> HIDE DEF r, m
<1> QED BY <1>3, <1>7, <1>8, <1>9, <1>10 DEF Turns

LEMMA RotateKeeps ==
  ASSUME NEW k, Sound(k), k.idle < IdlePulses, NEW t PROVE Keeps(k, Rotate(k, t))
<1>1. Rotate(k, t) = k \/ Plain(k, Rotate(k, t)) BY SoundC, RotatePlain
<1> QED BY <1>1, PlainKeeps, KeepsSelf

LEMMA HltTimerPlain ==
  ASSUME NEW k \in C, NEW t
  PROVE  /\ HltTimer(k, t) = k \/ Plain(k, HltTimer(k, t))
         /\ Unturned(k, HltTimer(k, t)) /\ HltTimer(k, t).forced = k.forced
<1> DEFINE l == [k EXCEPT !.hlt = TRUE, !.loading = FALSE]
<1>1. Plain(k, l) /\ Unturned(k, l) /\ l.forced = k.forced
  BY Values, ZenonT(60) DEF Plain, Unturned, C, ControllerWith
<1>2. HltTimer(k, t) = l \/ HltTimer(k, t) = k BY DEF HltTimer
<1> HIDE DEF l
<1> QED BY <1>1, <1>2 DEF Unturned

LEMMA HltTimerKeeps ==
  ASSUME NEW k, Sound(k), NEW t PROVE Keeps(k, HltTimer(k, t))
<1>1. HltTimer(k, t) = k \/ Plain(k, HltTimer(k, t)) BY SoundC, HltTimerPlain
<1> QED BY <1>1, PlainKeeps, KeepsSelf

LEMMA ShowingPlain ==
  ASSUME NEW k \in C, NEW s \in SUBSET (0..5), Busy \in s <=> Busy \in k.status,
         NotFound \in s <=> NotFound \in k.status
  PROVE  /\ Plain(k, Showing(k, s)) /\ Unturned(k, Showing(k, s))
         /\ Showing(k, s).forced = k.forced
  BY ZenonT(60) DEF Plain, Unturned, C, ControllerWith, Showing

LEMMA ShowPinsPlain ==
  ASSUME NEW k \in C
  PROVE  /\ Plain(k, ShowPins(k)) /\ Unturned(k, ShowPins(k))
         /\ ShowPins(k).forced = k.forced
<1> DEFINE low  == {p[1] : p \in Pins(k)}
           high == {p[1] : p \in {q \in Pins(k) : q[2]}}
           s == (k.status \ low) \cup high
<1>1. k.status \in SUBSET (0..5) /\ k.type \in 0..3 BY Fields
<1>2. \A p \in Pins(k) : p[1] \in {DataRequest, HeadLoaded, LostData}
  <2>1. CASE k.type = 1 BY <2>1 DEF Pins
  <2>2. CASE k.type \in {2, 3} BY <2>2 DEF Pins
  <2>3. CASE k.type = 0 BY <2>3 DEF Pins
  <2> QED BY <1>1, <2>1, <2>2, <2>3
<1>3. low \subseteq {DataRequest, HeadLoaded, LostData} /\ high \subseteq {DataRequest, HeadLoaded, LostData}
  BY <1>2
<1>4. ShowPins(k) = Showing(k, s) BY DEF ShowPins, Showing
<1> HIDE DEF low, high
<1>5. /\ s \in SUBSET (0..5) /\ (Busy \in s <=> Busy \in k.status)
      /\ NotFound \in s <=> NotFound \in k.status
  <2>1. \A x \in {DataRequest, HeadLoaded, LostData} : x \in 0..5 /\ x # Busy /\ x # NotFound
    BY DEF Busy, NotFound, DataRequest, HeadLoaded, LostData
  <2>2. \A x \in low \cup high : x \in 0..5 /\ x # Busy /\ x # NotFound BY <1>3, <2>1
  <2> QED BY <1>1, <2>2
<1> HIDE DEF s
<1> QED BY <1>4, <1>5, ShowingPlain

LEMMA ShowPinsKeeps ==
  ASSUME NEW k, Sound(k) PROVE Keeps(k, ShowPins(k))
  BY SoundC, ShowPinsPlain, PlainKeeps

LEMMA BeforeStepKeeps ==
  ASSUME NEW k, Sound(k), k.idle < IdlePulses, NEW t PROVE Keeps(k, BeforeStep(k, t))
<1> DEFINE a == Terminate(k)
           b == Immediate(a)
           c == Rotate(b, t)
           d == OnIndexPulse(c, t)
           e == HltTimer(d, t)
<1>1. Keeps(k, a) /\ a.idle = k.idle BY TerminateKeeps
<1> HIDE DEF a
<1>2. Keeps(a, b) /\ b.idle = k.idle BY <1>1, ImmediateKeeps DEF Keeps
<1> HIDE DEF b
<1>3. Keeps(b, c) BY <1>2, RotateKeeps DEF Keeps
<1> HIDE DEF c
<1>4. Keeps(c, d) BY <1>3, OnIndexPulseKeeps DEF Keeps
<1> HIDE DEF d
<1>5. Keeps(d, e) BY <1>4, HltTimerKeeps DEF Keeps
<1> HIDE DEF e
<1>6. Keeps(e, ShowPins(e)) BY <1>5, ShowPinsKeeps DEF Keeps
<1>7. BeforeStep(k, t) = ShowPins(e) BY DEF BeforeStep, e, d, c, b, a
<1> QED BY <1>1, <1>2, <1>3, <1>4, <1>5, <1>6, <1>7 DEF Keeps

\* The count of idle pulses is below its limit when the cycle ends.
LEMMA HandleHLDIdleKeeps ==
  ASSUME NEW k, Sound(k)
  PROVE  /\ Keeps(k, HandleHLDIdle(k)) /\ HandleHLDIdle(k).idle < IdlePulses
         /\ HandleHLDIdle(k) = k \/ Plain(k, HandleHLDIdle(k))
         /\ HandleHLDIdle(k).ptr = k.ptr /\ HandleHLDIdle(k).index = k.index
<1> DEFINE o == [k EXCEPT !.hld = FALSE, !.idle = 0]
           z == [k EXCEPT !.idle = 0]
<1>1. k \in C BY SoundC
<1>2. k.idle \in 0..IdlePulses /\ IdlePulses \in Nat /\ 0 < IdlePulses BY <1>1, Fields, Numbers
<1>3. Plain(k, o) /\ o.idle = 0 /\ o.ptr = k.ptr /\ o.index = k.index
  BY <1>1, Values, ZenonT(60) DEF Plain, C, ControllerWith
<1>4. Plain(k, z) /\ z.idle = 0 /\ z.ptr = k.ptr /\ z.index = k.index
  BY <1>1, Values, ZenonT(60) DEF Plain, C, ControllerWith
<1>5. Keeps(k, o) /\ Keeps(k, z) /\ Keeps(k, k) BY <1>3, <1>4, PlainKeeps, KeepsSelf
<1>6. k.idle >= IdlePulses => HandleHLDIdle(k) = o BY <1>1 DEF HandleHLDIdle, C, ControllerWith
<1>7. ~(k.idle >= IdlePulses) => HandleHLDIdle(k) = IF Busy \in k.status THEN z ELSE k
  BY DEF HandleHLDIdle, z
<1> HIDE DEF o, z
<1>8. k.idle >= IdlePulses \/ k.idle < IdlePulses BY <1>2
<1>9. HandleHLDIdle(k) \in {o, z, k} BY <1>6, <1>7
<1>10. Keeps(k, HandleHLDIdle(k)) /\ HandleHLDIdle(k).idle < IdlePulses
  BY <1>2, <1>3, <1>4, <1>5, <1>6, <1>7, <1>8
<1> QED BY <1>3, <1>4, <1>9, <1>10

LEMMA DoCycleKeeps ==
  ASSUME NEW k, Sound(k), k.idle < IdlePulses, NEW t \in Times, disk \in Images
  PROVE  Keeps(k, DoCycle(k, t)) /\ DoCycle(k, t).idle < IdlePulses
<1> DEFINE b == BeforeStep(k, t)
           s == CommandStep(b, t)
<1>1. Keeps(k, b) BY BeforeStepKeeps
<1> HIDE DEF b
<1>2. Keeps(b, s) BY <1>1, CommandStepKeeps DEF Keeps
<1> HIDE DEF s
<1>3. Keeps(s, HandleHLDIdle(s)) /\ HandleHLDIdle(s).idle < IdlePulses
  BY <1>2, HandleHLDIdleKeeps DEF Keeps
<1>4. DoCycle(k, t) = HandleHLDIdle(s) BY DEF DoCycle, s, b
<1> QED BY <1>1, <1>2, <1>3, <1>4, KeepsTwice

-----------------------------------------------------------------------------
(* What a cycle does to the interrupt and to the search. *)

\* What the stages before the step of the command, which only end it, leave.
Fixed(k, l) ==
  /\ l.name = k.name /\ l.acted = k.acted /\ l.head = k.head /\ l.track = k.track
  /\ l.data = k.data /\ l.mark = k.mark /\ l.forced = k.forced

LEMMA EndsFixed ==
  ASSUME NEW k \in C
  PROVE  /\ Fixed(k, Stop(k)) /\ Fixed(k, Raise(k)) /\ Fixed(k, ReflectTypeI(k))
         /\ Unturned(k, Stop(k)) /\ Unturned(k, Raise(k)) /\ Unturned(k, ReflectTypeI(k))
         /\ Stop(k).intrq = k.intrq /\ ReflectTypeI(k).intrq = k.intrq /\ Raise(k).intrq
<1>1. Fixed(k, Stop(k)) /\ Unturned(k, Stop(k)) /\ Stop(k).intrq = k.intrq
  BY ZenonT(60) DEF C, ControllerWith, Fixed, Unturned, Stop
<1>2. Fixed(k, Raise(k)) /\ Unturned(k, Raise(k)) /\ Raise(k).intrq = TRUE
  BY ZenonT(60) DEF C, ControllerWith, Fixed, Unturned, Raise
<1>3. /\ Fixed(k, ReflectTypeI(k)) /\ Unturned(k, ReflectTypeI(k))
      /\ ReflectTypeI(k).intrq = k.intrq
  BY ZenonT(60) DEF C, ControllerWith, Fixed, Unturned, ReflectTypeI
<1> QED BY <1>1, <1>2, <1>3

\* A stage raises INTRQ only for a condition that is armed, and ends a command with
\* INTRQ unless D0 terminates it.
Stage(k, l) ==
  /\ Fixed(k, l)
  /\ k.intrq => l.intrq
  /\ l.intrq => k.intrq \/ k.forced \cap {"immediate", "index"} # {}
  /\ Busy \in l.status =>
       /\ Busy \in k.status /\ l.type = k.type /\ l.intrq = k.intrq
       /\ NotFound \in l.status => NotFound \in k.status
  /\ Busy \in k.status /\ Busy \notin l.status =>
       k.forced # {} /\ (l.intrq \/ "terminate" \in k.forced)

LEMMA StageSelf == ASSUME NEW k PROVE Stage(k, k)
  BY DEF Stage, Fixed

LEMMA PlainStage ==
  ASSUME NEW k, NEW l, Plain(k, l), l.forced = k.forced PROVE Stage(k, l)
  BY DEF Plain, Stage, Fixed

LEMMA StageTwice ==
  ASSUME NEW k, NEW l, NEW m, Stage(k, l), Stage(l, m) PROVE Stage(k, m)
<1>1. Fixed(k, m) /\ l.forced = k.forced BY DEF Stage, Fixed
<1>2. k.intrq => m.intrq BY DEF Stage
<1>3. m.intrq => k.intrq \/ k.forced \cap {"immediate", "index"} # {} BY <1>1 DEF Stage
<1>4. ASSUME Busy \in m.status
      PROVE  /\ Busy \in k.status /\ m.type = k.type /\ m.intrq = k.intrq
             /\ NotFound \in m.status => NotFound \in k.status
  BY <1>4 DEF Stage
<1>5. ASSUME Busy \in k.status, Busy \notin m.status
      PROVE  k.forced # {} /\ (m.intrq \/ "terminate" \in k.forced)
  <2>1. CASE Busy \in l.status BY <1>1, <1>5, <2>1 DEF Stage
  <2>2. CASE Busy \notin l.status BY <1>1, <1>5, <2>2 DEF Stage
  <2> QED BY <2>1, <2>2
<1> QED BY <1>1, <1>2, <1>3, <1>4, <1>5 DEF Stage

LEMMA ForcedEndFixed ==
  ASSUME NEW k, Sound(k)
  PROVE  /\ Fixed(k, ForcedEnd(k)) /\ Unturned(k, ForcedEnd(k))
         /\ ForcedEnd(k).intrq = k.intrq
         /\ Fixed(k, Raise(ForcedEnd(k))) /\ Unturned(k, Raise(ForcedEnd(k)))
         /\ Raise(ForcedEnd(k)).intrq
<1> DEFINE f == ForcedEnd(k)
<1>1. k \in C BY SoundC
<1>2. Fixed(k, f) /\ Unturned(k, f) /\ f.intrq = k.intrq BY <1>1, EndsFixed DEF ForcedEnd
<1>3. f \in C BY ForcedEndOver DEF Over
<1> HIDE DEF f
<1>4. Fixed(f, Raise(f)) /\ Unturned(f, Raise(f)) /\ Raise(f).intrq BY <1>3, EndsFixed
<1>5. Fixed(k, Raise(f)) /\ Unturned(k, Raise(f)) BY <1>2, <1>4 DEF Fixed, Unturned
<1> QED BY <1>2, <1>4, <1>5 DEF f

\* The end that an armed condition brings.
LEMMA RaisedStage ==
  ASSUME NEW k, Sound(k), k.forced \cap {"immediate", "index"} # {}
  PROVE  Stage(k, Raise(ForcedEnd(k)))
<1>1. Busy \notin Raise(ForcedEnd(k)).status BY ForcedEndOver, RaiseOver DEF Over
<1> QED BY <1>1, ForcedEndFixed DEF Stage

LEMMA TerminateStage ==
  ASSUME NEW k, Sound(k) PROVE Stage(k, Terminate(k)) /\ Unturned(k, Terminate(k))
<1>1. CASE "terminate" \in k.forced
  <2>1. Busy \notin ForcedEnd(k).status BY ForcedEndOver DEF Over
  <2> QED BY <1>1, <2>1, ForcedEndFixed DEF Terminate, Stage
<1>2. CASE "terminate" \notin k.forced BY <1>2, StageSelf DEF Terminate, Unturned
<1> QED BY <1>1, <1>2

LEMMA ImmediateStage ==
  ASSUME NEW k, Sound(k) PROVE Stage(k, Immediate(k)) /\ Unturned(k, Immediate(k))
<1>1. CASE "immediate" \in k.forced BY <1>1, RaisedStage, ForcedEndFixed DEF Immediate
<1>2. CASE "immediate" \notin k.forced BY <1>2, StageSelf DEF Immediate, Unturned
<1> QED BY <1>1, <1>2

LEMMA OnIndexPulseStage ==
  ASSUME NEW k, Sound(k), NEW t
  PROVE  Stage(k, OnIndexPulse(k, t)) /\ Unturned(k, OnIndexPulse(k, t))
<1> DEFINE pulse == t.byte /\ k.ptr = 0 /\ "index" \in k.forced
<1>1. CASE pulse BY <1>1, RaisedStage, ForcedEndFixed DEF OnIndexPulse
<1>2. CASE ~pulse BY <1>2, StageSelf DEF OnIndexPulse, Unturned
<1> QED BY <1>1, <1>2

LEMMA BeforeStepStage ==
  ASSUME NEW k, Sound(k), k.idle < IdlePulses, NEW t
  PROVE  Stage(k, BeforeStep(k, t)) /\ Turns(k, BeforeStep(k, t), t)
<1> DEFINE a == Terminate(k)
           b == Immediate(a)
           c == Rotate(b, t)
           d == OnIndexPulse(c, t)
           e == HltTimer(d, t)
           f == ShowPins(e)
<1>1. Sound(a) /\ Stage(k, a) /\ Unturned(k, a) BY TerminateKeeps, TerminateStage DEF Keeps
<1> HIDE DEF a
<1>2. Sound(b) /\ Stage(a, b) /\ Unturned(a, b) BY <1>1, ImmediateKeeps, ImmediateStage DEF Keeps
<1> HIDE DEF b
<1>3. b.idle < IdlePulses /\ b \in C BY <1>1, <1>2, SoundC DEF Unturned
<1>4. Sound(c) /\ Stage(b, c) /\ Turns(b, c, t)
  <2>1. c = b \/ Plain(b, c) BY <1>3, RotatePlain
  <2>2. c.forced = b.forced /\ Turns(b, c, t) BY <1>3, RotatePlain
  <2>3. Sound(c) BY <1>2, <1>3, RotateKeeps DEF Keeps
  <2> HIDE DEF c
  <2> QED BY <2>1, <2>2, <2>3, PlainStage, StageSelf
<1> HIDE DEF c
<1>5. Sound(d) /\ Stage(c, d) /\ Unturned(c, d)
  BY <1>4, OnIndexPulseKeeps, OnIndexPulseStage DEF Keeps
<1> HIDE DEF d
<1>6. d \in C BY <1>5, SoundC
<1>7. Sound(e) /\ Stage(d, e) /\ Unturned(d, e)
  <2>1. /\ e = d \/ Plain(d, e)
        /\ e.forced = d.forced /\ Unturned(d, e)
    BY <1>6, HltTimerPlain
  <2>2. Sound(e) BY <1>5, HltTimerKeeps DEF Keeps
  <2> HIDE DEF e
  <2> QED BY <2>1, <2>2, PlainStage, StageSelf
<1> HIDE DEF e
<1>8. e \in C BY <1>7, SoundC
<1>9. Stage(e, f) /\ Unturned(e, f) BY <1>8, ShowPinsPlain, PlainStage
<1>10. BeforeStep(k, t) = f BY DEF BeforeStep, f, e, d, c, b, a
<1> HIDE DEF f
<1>11. Stage(k, c) BY <1>1, <1>2, <1>4, StageTwice
<1>12. Stage(c, f) BY <1>5, <1>7, <1>9, StageTwice
<1>13. Stage(k, f) BY <1>11, <1>12, StageTwice
<1>14. Turns(k, f, t) BY <1>1, <1>2, <1>4, <1>5, <1>7, <1>9 DEF Unturned, Turns
<1> QED BY <1>10, <1>13, <1>14

LEMMA CommandStepSteps ==
  ASSUME NEW k, Active(k), NEW t \in Times, disk \in Images
  PROVE  Steps(k, CommandStep(k, t))
<1>1. k.type \in 0..3 /\ k.type # 0 /\ ~k.done BY Fields DEF Active
<1>2. k.type \in {1, 2, 3} BY <1>1
<1>3. CASE k.type = 1 BY <1>1, <1>3, TypeIStepSteps DEF CommandStep
<1>4. CASE k.type = 2 BY <1>1, <1>4, TypeIIStepSteps DEF CommandStep
<1>5. CASE k.type = 3 BY <1>1, <1>5, TypeIIIStepSteps DEF CommandStep
<1> QED BY <1>2, <1>3, <1>4, <1>5

\* A search for an ID field may be given up in this cycle.
Exhausted(k, l, t) ==
  \/ k.index >= VerifyPulses
  \/ t.byte /\ l.ptr = 0 /\ k.ptr # 0 /\ Count(k.index) >= VerifyPulses

\* What a cycle comes to.
Cycles(k, l, t) ==
  /\ l.intrq /\ ~k.intrq =>
       \/ k.forced \cap {"immediate", "index"} # {}
       \/ Busy \in k.status /\ Busy \notin l.status /\ l.type # 0
  /\ Busy \in k.status /\ Busy \notin l.status /\ "terminate" \notin k.forced => l.intrq
  /\ Busy \in l.status =>
       /\ Busy \in k.status /\ l.type = k.type
       /\ NotFound \in l.status => NotFound \in k.status
  /\ /\ Busy \in k.status /\ Busy \notin l.status /\ k.forced = {}
     /\ NotFound \in l.status /\ NotFound \notin k.status /\ k.type \in {1, 2}
     => Exhausted(k, l, t) \/ l.mark.misses > k.mark.misses
  /\ Turns(k, l, t)
  /\ k.type = 1 /\ ~k.acted /\ l.acted /\ Busy \in k.status => Arrived(k, l)
  /\ l.acted => k.acted \/ Busy \in k.status

\* The step of the command, in a cycle that does not end it before.
LEMMA StepCycles ==
  ASSUME NEW k, Sound(k), NEW b, Stage(k, b), Active(b), NEW t, Turns(k, b, t), NEW s, Steps(b, s)
  PROVE  Cycles(k, s, t)
<1>1. /\ Busy \in k.status /\ b.type = k.type /\ b.intrq = k.intrq
      /\ NotFound \in b.status => NotFound \in k.status
      /\ Fixed(k, b)
  BY DEF Stage, Active
<1>2. /\ s.type = k.type /\ s.ptr = b.ptr
      /\ s.index = b.index \/ s.index = 0
  BY <1>1 DEF Steps, Kept
<1>3. /\ s.type # 0
      /\ \/ Busy \in s.status /\ s.intrq = k.intrq /\ (NotFound \in s.status => NotFound \in k.status)
         \/ Busy \notin s.status /\ s.intrq
  BY <1>1, <1>2 DEF Steps, Signals, Active, Over
<1>4. Turns(k, s, t) BY <1>2 DEF Turns
<1>5. ASSUME Busy \notin s.status, NotFound \in s.status, NotFound \notin k.status, k.type \in {1, 2}
      PROVE  Exhausted(k, s, t) \/ s.mark.misses > k.mark.misses
  <2>1. Over(s) /\ Missed(b, s) BY <1>5 DEF Steps, Signals, Active
  <2>2. \/ b.index >= VerifyPulses
        \/ k.type = 2 /\ s.mark.misses >= DataLimit
    BY <1>1, <1>5, <2>1 DEF Missed
  <2>3. ASSUME b.index >= VerifyPulses PROVE Exhausted(k, s, t)
    <3>1. ~(0 >= VerifyPulses) BY Numbers
    <3> QED BY <1>2, <2>3, <3>1 DEF Turns, Exhausted
  <2>4. ASSUME k.type = 2, s.mark.misses >= DataLimit PROVE s.mark.misses > k.mark.misses
    <3>1. b \in C /\ s \in C /\ b.mark.misses < DataLimit BY <1>1, <2>1, <2>4 DEF Active, Over
    <3>2. b.mark \in Marks /\ s.mark \in Marks BY <3>1, Fields
    <3>3. b.mark.misses \in Int /\ s.mark.misses \in Int BY <3>2 DEF Marks
    <3>4. k.mark = b.mark BY <1>1 DEF Fixed
    <3> QED BY <2>4, <3>1, <3>3, <3>4, Numbers
  <2> QED BY <2>2, <2>3, <2>4
<1>6. ASSUME ~k.acted, s.acted PROVE Arrived(k, s)
  <2>1. Arrived(b, s) BY <1>1, <1>6 DEF Steps, Fixed
  <2>2. Safe(k) => Safe(b)
    BY <1>1 DEF Safe, Fixed, Active, Sound, Over, Idle
  <2> QED BY <1>1, <2>1, <2>2 DEF Arrived, Fixed
<1>7. s.intrq /\ ~k.intrq => Busy \in k.status /\ Busy \notin s.status /\ s.type # 0
  BY <1>1, <1>3
<1>8. Busy \in k.status /\ Busy \notin s.status => s.intrq BY <1>3
<1>9. Busy \in s.status =>
        /\ Busy \in k.status /\ s.type = k.type
        /\ NotFound \in s.status => NotFound \in k.status
  BY <1>1, <1>2, <1>3
<1> QED BY <1>1, <1>4, <1>5, <1>6, <1>7, <1>8, <1>9 DEF Cycles

\* A cycle with no command, or that ends it before its step.
LEMMA NoStepCycles ==
  ASSUME NEW k, NEW b, Stage(k, b), Over(b) \/ Idle(b), NEW t, Turns(k, b, t)
  PROVE  Cycles(k, b, t)
<1>1. Busy \notin b.status /\ b.acted = k.acted BY DEF Over, Idle, Stage, Fixed
<1>2. k.intrq => b.intrq BY DEF Stage
<1>3. Busy \in k.status => k.forced # {} /\ (b.intrq \/ "terminate" \in k.forced)
  BY <1>1 DEF Stage
<1>4. b.intrq => k.intrq \/ k.forced \cap {"immediate", "index"} # {} BY DEF Stage
<1> QED BY <1>1, <1>2, <1>3, <1>4 DEF Cycles

LEMMA DoCycleCycles ==
  ASSUME NEW k, Sound(k), k.idle < IdlePulses, NEW t \in Times, disk \in Images
  PROVE  Cycles(k, DoCycle(k, t), t)
<1> DEFINE b == BeforeStep(k, t)
           s == CommandStep(b, t)
           l == HandleHLDIdle(s)
<1>1. Sound(b) /\ Stage(k, b) /\ Turns(k, b, t) BY BeforeStepKeeps, BeforeStepStage DEF Keeps
<1> HIDE DEF b
<1>2. Sound(s) BY <1>1, CommandStepKeeps DEF Keeps
<1>3. Cycles(k, s, t)
  <2>1. CASE Active(b) BY <1>1, <2>1, CommandStepSteps, StepCycles
  <2>2. CASE Over(b) \/ Idle(b)
    <3>1. b.done \/ b.type = 0 BY <2>2 DEF Over, Idle
    <3>2. s = b BY <3>1 DEF CommandStep
    <3> QED BY <1>1, <2>2, <3>2, NoStepCycles
  <2> QED BY <1>1, <2>1, <2>2 DEF Sound
<1> HIDE DEF s
<1>4. /\ l = s \/ Plain(s, l)
      /\ l.ptr = s.ptr /\ l.index = s.index
  BY <1>2, HandleHLDIdleKeeps
<1>5. DoCycle(k, t) = l BY DEF DoCycle, l, s, b
<1> HIDE DEF l
<1>6. CASE l = s BY <1>3, <1>5, <1>6
<1>7. CASE Plain(s, l)
  <2>1. /\ l.intrq = s.intrq /\ l.type = s.type /\ l.mark = s.mark /\ l.acted = s.acted
        /\ l.head = s.head /\ l.track = s.track /\ l.data = s.data
        /\ Busy \in l.status <=> Busy \in s.status
        /\ NotFound \in l.status <=> NotFound \in s.status
    BY <1>7 DEF Plain
  <2>2. Turns(k, s, t) => Turns(k, l, t) BY <1>4 DEF Turns
  <2>3. Exhausted(k, s, t) => Exhausted(k, l, t) BY <1>4 DEF Exhausted
  <2>4. Arrived(k, s) => Arrived(k, l) BY <2>1 DEF Arrived
  <2>5. Cycles(k, l, t) BY <1>3, <2>1, <2>2, <2>3, <2>4 DEF Cycles
  <2> QED BY <1>5, <2>5
<1> QED BY <1>4, <1>6, <1>7

-----------------------------------------------------------------------------
(* Commands. *)

\* A command of type n has begun where the head was.
Began(k, l, n) ==
  /\ l \in C /\ l.type = n /\ ~l.done /\ Busy \in l.status /\ Follows(l)
  /\ l.head = k.head /\ l.idle = k.idle
  /\ n = 2 => l.mark.misses < DataLimit
  /\ l.acted => k.acted
  /\ l.intrq => k.intrq
  /\ n \in {1, 2} => l.index = 0 /\ NotFound \notin l.status

LEMMA BeganLike ==
  ASSUME NEW k, NEW l, NEW m, NEW n, Began(k, l, n), Like(l, m) PROVE Began(k, m, n)
  BY DEF Began, Like, Same, Kept, Follows

LEMMA BeganActive ==
  ASSUME NEW k, NEW l, NEW n \in {1, 2, 3}, Began(k, l, n) PROVE Active(l)
  BY DEF Began, Active

LEMMA Bits == ASSUME NEW c, NEW i PROVE Bit(c, i) \in Flag
  BY DEF Bit, Flag

Lifted(k) == [k EXCEPT !.hld = FALSE]
Delayed(k) == [k EXCEPT !.delayed = TRUE]
LEMMA LiftedLike ==
  ASSUME NEW k \in C PROVE Like(k, Lifted(k)) /\ Like(k, Delayed(k))
  BY Values, ZenonT(60) DEF Like, Same, Kept, C, ControllerWith, Lifted, Delayed

LEMMA HeadFlagsLike ==
  ASSUME NEW k \in C, NEW load \in Flag, NEW verify \in Flag
  PROVE  Like(k, HeadFlags(k, load, verify))
<1>1. Like(k, LoadHead(k)) /\ Like(k, k) BY LoadHeadLike DEF Like, Same, Kept
<1>2. /\ HeadFlags(k, load, verify) = CASE ~load /\ ~verify -> Lifted(k)
                                        [] ~load /\ verify  -> Delayed(k)
                                        [] load -> IF k.hld THEN k ELSE LoadHead(k)
  BY DEF HeadFlags, Lifted, Delayed
<1>3. CASE load BY <1>1, <1>2, <1>3
<1>4. CASE ~load /\ verify BY <1>2, <1>4, LiftedLike
<1>5. CASE ~load /\ ~verify BY <1>2, <1>5, LiftedLike
<1> QED BY <1>3, <1>4, <1>5 DEF Flag

Begun1(k, s, v) ==
  [k EXCEPT !.type = 1, !.acted = FALSE, !.done = FALSE, !.settled = FALSE,
            !.verifying = FALSE, !.index = 0, !.find = Unfound, !.drq = FALSE,
            !.status = s, !.verify = v]
LEMMA Begun1Begins ==
  ASSUME NEW k \in C, Follows(k), NEW s \in SUBSET (0..5), Busy \in s, NotFound \notin s, NEW v \in Flag
  PROVE  Began(k, Begun1(k, s, v), 1)
<1> DEFINE l == Begun1(k, s, v)
<1>1. 1 \in 0..3 /\ 1 # 2 OBVIOUS
<1>2. l \in C BY <1>1, Values, ZenonT(60) DEF C, ControllerWith, Finds, Begun1
<1>3. /\ l.acted = FALSE /\ l.index = 0 /\ l.type = 1 /\ l.done = FALSE /\ l.status = s /\ l.head = k.head
      /\ l.idle = k.idle /\ l.intrq = k.intrq /\ l.line = k.line
  BY DEF C, ControllerWith, Begun1
<1> QED BY <1>1, <1>2, <1>3 DEF Began, Follows

LEMMA SetupTypeIBegins ==
  ASSUME NEW k \in C, Follows(k), NEW c PROVE Began(k, SetupTypeI(k, c), 1)
<1> DEFINE s == (k.status \cup {Busy}) \ {CrcError, NotFound}
           v == Bit(c, 2)
           l == Begun1(k, s, v)
<1>1. k.status \in SUBSET (0..5) BY Fields
<1>2. s \in SUBSET (0..5) /\ Busy \in s /\ NotFound \notin s
  BY <1>1 DEF Busy, CrcError, NotFound
<1>3. v \in Flag /\ Bit(c, 3) \in Flag BY Bits
<1>4. SetupTypeI(k, c) = HeadFlags(l, Bit(c, 3), v) BY DEF SetupTypeI, l, s, v, Begun1
<1> HIDE DEF s, v
<1>5. Began(k, l, 1) BY <1>2, <1>3, Begun1Begins
<1> HIDE DEF l
<1>6. l \in C BY <1>5 DEF Began
<1>7. Like(l, HeadFlags(l, Bit(c, 3), v)) BY <1>3, <1>6, HeadFlagsLike
<1> QED BY <1>4, <1>5, <1>7, BeganLike

Called(k, n) == [k EXCEPT !.name = n]
LEMMA CalledLike ==
  ASSUME NEW k \in C, NEW n \in Names PROVE Like(k, Called(k, n)) /\ Called(k, n).name = n
<1>1. n \in {""} \cup Reading \cup Writing \cup {"RESTORE", "SEEK", "STEP", "STEP-IN", "STEP-OUT"}
  BY DEF Names
<1>2. Called(k, n) \in C BY <1>1, ZenonT(60) DEF C, ControllerWith, Called
<1> QED BY <1>2, ZenonT(60) DEF Like, Same, Kept, C, ControllerWith, Called

Updating(k, b) == [k EXCEPT !.update = b]
LEMMA UpdatingLike == ASSUME NEW k \in C, NEW b \in Flag PROVE Like(k, Updating(k, b))
  BY ZenonT(60) DEF Like, Same, Kept, C, ControllerWith, Updating

Facing(k, d) == [k EXCEPT !.dir = d]
LEMMA FacingLike ==
  ASSUME NEW k \in C, NEW d \in 0..1 PROVE Like(k, Facing(k, d)) /\ Facing(k, d).name = k.name
  BY ZenonT(60) DEF Like, Same, Kept, C, ControllerWith, Facing

\* SEEK begins with the head's track in the track register.
LEMMA SetTypeILike ==
  ASSUME NEW k \in C, NEW c \in 0..127
  PROVE  /\ Like(k, SetTypeI(k, c))
         /\ SetTypeI(k, c).name = "SEEK" => SetTypeI(k, c).track = SetTypeI(k, c).head % 256
<1> DEFINE b == Bit(c, 4)
           u == Updating(k, b)
           s == Called(k, "SEEK")
           i == Facing(Called(u, "STEP-IN"), 1)
           o == Facing(Called(u, "STEP-OUT"), 0)
<1>1. \/ c \div 16 = 0
      \/ c \div 16 = 1
      \/ c \div 32 \in {1, 2, 3} /\ c \div 16 \notin {0, 1}
  OBVIOUS
<1>2. b \in Flag BY Bits
<1> HIDE DEF b
<1>3. Like(k, u) /\ u \in C BY <1>2, UpdatingLike DEF Like
<1>4. SetTypeI(k, c) = CASE c \div 16 = 0 -> Called(k, "RESTORE")
                         [] c \div 16 = 1 -> Follow(s)
                         [] c \div 32 = 1 -> Called(u, "STEP")
                         [] c \div 32 = 2 -> i
                         [] c \div 32 = 3 -> o
  BY DEF SetTypeI, u, s, i, o, b, Updating, Called, Facing
<1> HIDE DEF u
<1>5. \A n \in Names : Like(u, Called(u, n)) /\ Called(u, n).name = n BY <1>3, CalledLike
<1>6. Like(u, i) /\ i.name = "STEP-IN"
  <2>1. Called(u, "STEP-IN") \in C BY <1>5, Values DEF Like
  <2> QED BY <1>5, <2>1, FacingLike, Values, LikeTwice
<1>7. Like(u, o) /\ o.name = "STEP-OUT"
  <2>1. Called(u, "STEP-OUT") \in C BY <1>5, Values DEF Like
  <2> QED BY <1>5, <2>1, FacingLike, Values, LikeTwice
<1>8. Like(k, s) /\ s \in C BY CalledLike, Values DEF Like
<1> HIDE DEF i, o, s
<1>9. Like(k, Follow(s)) /\ Follow(s).track = Follow(s).head % 256
  <2>1. Like(s, Follow(s)) BY <1>8, FollowKeeps DEF Like, Rest, Same, Kept
  <2> QED BY <1>8, <2>1, FollowKeeps, LikeTwice
<1>10. CASE c \div 16 = 0
  <2>1. SetTypeI(k, c) = Called(k, "RESTORE") BY <1>4, <1>10
  <2>2. Like(k, Called(k, "RESTORE")) /\ Called(k, "RESTORE").name = "RESTORE"
    BY CalledLike, Values
  <2> QED BY <2>1, <2>2
<1>11. CASE c \div 16 = 1
  BY <1>4, <1>9, <1>11
<1>12. CASE c \div 32 \in {1, 2, 3} /\ c \div 16 \notin {0, 1}
  <2>1. SetTypeI(k, c) \in {Called(u, "STEP"), i, o} BY <1>4, <1>12
  <2>2. SetTypeI(k, c).name \in {"STEP", "STEP-IN", "STEP-OUT"} /\ Like(u, SetTypeI(k, c))
    BY <1>5, <1>6, <1>7, <2>1, Values
  <2> QED BY <1>3, <2>2, LikeTwice
<1> QED BY <1>1, <1>10, <1>11, <1>12

Flagged(k, s, o, e) == [k EXCEPT !.side = s, !.sso = o, !.edelay = e]
LEMMA FlaggedLike ==
  ASSUME NEW k \in C, NEW s \in 0..1, NEW o \in 0..1, NEW e \in Flag PROVE Like(k, Flagged(k, s, o, e))
  BY ZenonT(60) DEF Like, Same, Kept, C, ControllerWith, Flagged

LEMMA FlagsLike ==
  ASSUME NEW k \in C, NEW c PROVE Like(k, Flags(k, c))
<1> DEFINE s == IF Bit(c, 1) THEN 1 ELSE 0
           e == Bit(c, 2)
           f == Flagged(k, s, s, e)
<1>1. s \in 0..1 /\ e \in Flag BY Bits
<1>2. Flags(k, c) = IF f.hld THEN f ELSE LoadHead(f) BY DEF Flags, f, s, e, Flagged
<1> HIDE DEF s, e
<1>3. Like(k, f) /\ f \in C BY <1>1, FlaggedLike DEF Like
<1> HIDE DEF f
<1> QED BY <1>2, <1>3, LoadHeadLike, LikeTwice

LEMMA Accepting == ASSUME NEW k, Sound(k) PROVE k \in C /\ Follows(k) /\ k.status \in SUBSET (0..5)
  BY SoundC, Fields

Begun2(k, s, m) ==
  [k EXCEPT !.type = 2, !.done = FALSE, !.edone = FALSE, !.verifying = FALSE,
            !.index = 0, !.verified = FALSE, !.left = 0, !.find = Unfound, !.mark = Unmarked,
            !.status = s, !.drq = FALSE, !.multi = m]
LEMMA Begun2Begins ==
  ASSUME NEW k \in C, Follows(k), NEW s \in SUBSET (0..5), Busy \in s, NotFound \notin s, NEW m \in Flag
  PROVE  Began(k, Begun2(k, s, m), 2)
<1>1. 2 \in 0..3 /\ 0 \in Int OBVIOUS
<1> DEFINE l == Begun2(k, s, m)
<1>2. l \in C BY <1>1, Values, ZenonT(60) DEF C, ControllerWith, Finds, Marks, Begun2
<1>3. /\ l.acted = k.acted /\ l.index = 0 /\ l.type = 2 /\ l.done = FALSE /\ l.status = s /\ l.mark = Unmarked /\ l.head = k.head
      /\ l.idle = k.idle /\ l.intrq = k.intrq /\ l.line = k.line
  BY DEF C, ControllerWith, Begun2
<1> QED BY <1>2, <1>3, Values DEF Began, Follows

LEMMA SetupTypeIIBegins ==
  ASSUME NEW k \in C, NEW c PROVE Began(k, SetupTypeII(k, c), 2)
<1> DEFINE a == Lower(k)
           s == (a.status \cap {CrcError}) \cup {Busy}
           m == Bit(c, 4)
           l == Begun2(a, s, m)
<1>1. a \in C /\ Same(k, a) /\ Follows(a) /\ ~a.intrq BY LowerKeeps
<1>2. SetupTypeII(k, c) = Flags(l, c) BY DEF SetupTypeII, l, a, s, m, Begun2
<1> HIDE DEF a
<1>3. a.status \in SUBSET (0..5) BY <1>1, Fields
<1>4. s \in SUBSET (0..5) /\ Busy \in s /\ NotFound \notin s
  BY <1>3 DEF Busy, CrcError, NotFound
<1>5. m \in Flag BY Bits
<1> HIDE DEF s, m
<1>6. Began(a, l, 2) BY <1>1, <1>4, <1>5, Begun2Begins
<1>7. Began(k, l, 2) BY <1>1, <1>6 DEF Began, Same, Kept
<1> HIDE DEF l
<1>8. Like(l, Flags(l, c)) BY <1>7, FlagsLike DEF Began
<1> QED BY <1>2, <1>7, <1>8, BeganLike

Begun3(k, f, s) ==
  [k EXCEPT !.type = 3, !.done = FALSE, !.edone = FALSE, !.find = f, !.status = s]
LEMMA Begun3Begins ==
  ASSUME NEW k \in C, Follows(k), NEW f \in Finds, NEW s \in SUBSET (0..5), Busy \in s
  PROVE  Began(k, Begun3(k, f, s), 3)
<1>1. 3 \in 0..3 /\ 3 \notin {1, 2} OBVIOUS
<1> DEFINE l == Begun3(k, f, s)
<1>2. l \in C BY <1>1, Values, ZenonT(60) DEF C, ControllerWith, Finds, Begun3
<1>3. /\ l.acted = k.acted /\ l.type = 3 /\ l.done = FALSE /\ l.status = s /\ l.head = k.head
      /\ l.idle = k.idle /\ l.intrq = k.intrq /\ l.line = k.line
  BY DEF C, ControllerWith, Begun3
<1> QED BY <1>1, <1>2, <1>3 DEF Began, Follows

LEMMA SetupTypeIIIBegins ==
  ASSUME NEW k \in C, Follows(k), NEW c PROVE Began(k, SetupTypeIII(k, c), 3)
<1> DEFINE f == [k.find EXCEPT !.found = FALSE]
           s == (k.status \ {LostData, NotFound, HeadLoaded}) \cup {Busy}
           l == Begun3(k, f, s)
<1>1. k.status \in SUBSET (0..5) /\ k.find \in Finds BY Fields
<1>2. s \in SUBSET (0..5) /\ Busy \in s BY <1>1 DEF Busy
<1>3. f \in Finds BY <1>1, Values DEF Finds
<1>4. SetupTypeIII(k, c) = Flags(l, c) BY DEF SetupTypeIII, l, f, s, Begun3
<1> HIDE DEF f, s
<1>5. Began(k, l, 3) BY <1>2, <1>3, Begun3Begins
<1> HIDE DEF l
<1>6. Like(l, Flags(l, c)) BY <1>5, FlagsLike DEF Began
<1> QED BY <1>4, <1>5, <1>6, BeganLike

LEMMA ReloadLike == ASSUME NEW k \in C PROVE Like(k, Reload(k))
<1>1. Like(k, k) BY DEF Like, Same, Kept
<1>2. k.latch % 4 \in Drives => Like(k, Loaded(k, k.latch % 4)) BY LoadedLike
<1> QED BY <1>1, <1>2 DEF Reload, Loaded

Uncounted(k) == [k EXCEPT !.count = 0]
LEMMA UncountedLike == ASSUME NEW k \in C PROVE Like(k, Uncounted(k))
  BY Values, ZenonT(60) DEF Like, Same, Kept, C, ControllerWith, Uncounted

LEMMA SetTypeIILike == ASSUME NEW k \in C, NEW c PROVE Like(k, SetTypeII(k, c))
<1> DEFINE u == Uncounted(k)
           r == Called(u, "READ SECTOR")
           s == Called(u, "WRITE SECTOR")
<1>1. Like(k, u) /\ u \in C BY UncountedLike DEF Like
<1>2. SetTypeII(k, c) = IF c \div 32 = 4 THEN Reload(r) ELSE s
  BY DEF SetTypeII, r, s, u, Called, Uncounted
<1> HIDE DEF u
<1>3. Like(u, r) /\ Like(u, s) /\ r \in C BY <1>1, CalledLike, Values, ZenonT(60) DEF Like
<1> HIDE DEF r, s
<1>4. Like(r, Reload(r)) BY <1>3, ReloadLike
<1> QED BY <1>1, <1>2, <1>3, <1>4, LikeTwice

Counted(k) == [k EXCEPT !.idam = 0]
Untracked(k) == [k EXCEPT !.started = FALSE, !.passed = 0]
LEMMA CountedLike == ASSUME NEW k \in C PROVE Like(k, Counted(k)) /\ Like(k, Untracked(k))
  BY Values, ZenonT(60) DEF Like, Same, Kept, C, ControllerWith, Counted, Untracked

LEMMA SetTypeIIILike == ASSUME NEW k \in C, NEW c PROVE Like(k, SetTypeIII(k, c))
<1> DEFINE a == Called(k, "READ ADDRESS")
           t == Called(k, "READ TRACK")
           wt == Called(k, "WRITE TRACK")
           u == Untracked(t)
<1>1. SetTypeIII(k, c) = CASE c \div 16 = 12 -> Counted(a)
                           [] c \div 16 = 14 -> Reload(u)
                           [] OTHER -> wt
  BY DEF SetTypeIII, a, t, wt, u, Called, Counted, Untracked
<1>2. Like(k, a) /\ Like(k, t) /\ Like(k, wt) /\ a \in C /\ t \in C
  BY CalledLike, Values DEF Like
<1> HIDE DEF a, t, wt
<1>3. Like(a, Counted(a)) /\ Like(t, u) /\ u \in C BY <1>2, CountedLike DEF Like
<1> HIDE DEF u
<1>4. Like(u, Reload(u)) BY <1>3, ReloadLike
<1>5. Like(k, Counted(a)) /\ Like(k, u) BY <1>2, <1>3, LikeTwice
<1>6. Like(k, Reload(u)) BY <1>4, <1>5, LikeTwice
<1>7. CASE c \div 16 = 12 BY <1>1, <1>5, <1>7
<1>8. CASE c \div 16 = 14 BY <1>1, <1>6, <1>8
<1>9. CASE c \div 16 # 12 /\ c \div 16 # 14 BY <1>1, <1>2, <1>9
<1> QED BY <1>7, <1>8, <1>9

\* A port access neither raises INTRQ nor ends a command nor has one act; a new
\* command begins its search with no index pulse counted.
Heeds(k, l) ==
  /\ l.acted => k.acted
  /\ l.intrq => k.intrq
  /\ Busy \in k.status =>
       /\ Busy \in l.status /\ l.type = k.type /\ l.index = k.index
       /\ NotFound \in l.status <=> NotFound \in k.status
  /\ Busy \notin k.status /\ Busy \in l.status /\ l.type \in {1, 2} =>
       l.index = 0 /\ NotFound \notin l.status

\* What a port access comes to: sound, and safe if it sends no SEEK off the disk.
Given(k, l) ==
  /\ Sound(l) /\ l.head = k.head /\ l.idle = k.idle /\ Heeds(k, l)
  /\ Safe(k) /\ ~Overshoots(l) => Safe(l)

LEMMA PlainHeeds ==
  ASSUME NEW k, NEW l, Plain(k, l), Unturned(k, l) PROVE Heeds(k, l)
  BY DEF Plain, Unturned, Heeds

LEMMA HeedsTwice ==
  ASSUME NEW k, NEW l, NEW m, Heeds(k, l), Heeds(l, m) PROVE Heeds(k, m)
<1>1. CASE Busy \in k.status BY <1>1 DEF Heeds
<1>2. CASE Busy \notin k.status /\ Busy \in l.status BY <1>2 DEF Heeds
<1>3. CASE Busy \notin k.status /\ Busy \notin l.status BY <1>3 DEF Heeds
<1> QED BY <1>1, <1>2, <1>3

LEMMA PlainGiven ==
  ASSUME NEW k, NEW l, Sound(k), Plain(k, l), Unturned(k, l) PROVE Given(k, l)
  BY PlainKeeps, PlainHeeds DEF Plain, Unturned, Keeps, Given

LEMMA GivenTwice ==
  ASSUME NEW k, NEW l, NEW m, Given(k, l), Given(l, m), Safe(k) => Safe(l)
  PROVE  Given(k, m)
  BY HeedsTwice DEF Given

\* A SEEK that has just begun has the head's track in the track register.
LEMMA BeganGiven ==
  ASSUME NEW k \in C, Busy \notin k.status, NEW l, NEW n \in {1, 2, 3}, Began(k, l, n),
         n = 1 /\ l.name = "SEEK" => l.track = l.head % 256
  PROVE  Given(k, l)
<1>1. l \in C /\ l.type = n /\ Busy \in l.status /\ l.head = k.head /\ l.idle = k.idle
  BY DEF Began
<1>2. Active(l) BY BeganActive
<1>3. l.data \in Byte BY <1>1, Fields
<1>4. ASSUME Safe(k), ~Overshoots(l) PROVE Safe(l)
  <2>1. OnDisk(l.head) BY <1>1, <1>4 DEF Safe
  <2>2. l.head % 256 = l.head BY <2>1, Numbers DEF OnDisk
  <2>3. l.name = "SEEK" => ~(l.data >= Cylinders) BY <1>1, <1>4 DEF Overshoots
  <2>4. l.name = "SEEK" => OnDisk(l.data) BY <1>3, <2>3, Numbers DEF Byte, OnDisk
  <2> QED BY <1>1, <2>1, <2>2, <2>4 DEF Safe
<1>5. Heeds(k, l) BY DEF Began, Heeds
<1> QED BY <1>1, <1>2, <1>4, <1>5 DEF Given, Sound

Forced(k, s) == [k EXCEPT !.forced = s]
LEMMA ForcedPlain ==
  ASSUME NEW k \in C, NEW s \in SUBSET {"index", "immediate", "terminate"}
  PROVE  Plain(k, Forced(k, s)) /\ Unturned(k, Forced(k, s))
  BY ZenonT(60) DEF Plain, Unturned, C, ControllerWith, Forced

LEMMA ForcedGiven ==
  ASSUME NEW k, Sound(k), NEW s \in SUBSET {"index", "immediate", "terminate"}
  PROVE  Given(k, Forced(k, s)) /\ (Safe(k) => Safe(Forced(k, s)))
<1>1. k \in C BY SoundC
<1> QED BY <1>1, ForcedPlain, PlainGiven, PlainKeeps DEF Keeps

LEMMA LowerGiven ==
  ASSUME NEW k, Sound(k)
  PROVE  Given(k, Lower(k)) /\ (Safe(k) => Safe(Lower(k)))
<1>1. k \in C BY SoundC
<1>2. /\ Lower(k).name = k.name /\ Lower(k).track = k.track /\ Lower(k).data = k.data
  BY <1>1 DEF Lower, C, ControllerWith
<1>3. Heeds(k, Lower(k)) BY <1>1, LowerKeeps DEF Heeds, Same, Kept
<1> QED BY <1>1, <1>2, <1>3, LowerKeeps DEF Given, Sound, Active, Over, Idle, Same, Kept, Safe

LEMMA AcknowledgeGiven ==
  ASSUME NEW k, Sound(k)
  PROVE  Given(k, Acknowledge(k)) /\ (Safe(k) => Safe(Acknowledge(k)))
<1> DEFINE a == Lower(k)
           s == a.forced \cap {"immediate"}
<1>1. Given(k, a) /\ (Safe(k) => Safe(a)) BY LowerGiven
<1>2. Acknowledge(k) = Forced(a, s) BY DEF Acknowledge, a, s, Forced
<1> HIDE DEF a
<1>3. Sound(a) BY <1>1 DEF Given
<1>4. s \in SUBSET {"index", "immediate", "terminate"} OBVIOUS
<1> HIDE DEF s
<1>5. Given(a, Forced(a, s)) /\ (Safe(a) => Safe(Forced(a, s))) BY <1>3, <1>4, ForcedGiven
<1> QED BY <1>1, <1>2, <1>5, GivenTwice

LEMMA ForceInterruptGiven ==
  ASSUME NEW k, Sound(k), NEW c PROVE Given(k, ForceInterrupt(k, c))
<1> DEFINE s == k.forced \cup (IF Bit(c, 2) THEN {"index"} ELSE {})
                         \cup (IF Bit(c, 3) THEN {"immediate"} ELSE {})
                         \cup (IF c % 16 = 0 THEN {"terminate"} ELSE {})
<1>1. k \in C BY SoundC
<1>2. k.forced \in SUBSET {"index", "immediate", "terminate"} BY <1>1, Fields
<1>3. s \in SUBSET {"index", "immediate", "terminate"} BY <1>2
<1>4. ForceInterrupt(k, c) = Forced(k, s) BY DEF ForceInterrupt, Forced, s
<1> HIDE DEF s
<1> QED BY <1>3, <1>4, ForcedGiven

LEMMA DoCommandGiven ==
  ASSUME NEW k, Sound(k), NEW c \in Byte PROVE Given(k, DoCommand(k, c))
<1> DEFINE i == SetTypeI(SetupTypeI(k, c), c)
           ii == SetTypeII(SetupTypeII(k, c), c)
           iii == SetTypeIII(SetupTypeIII(k, c), c)
<1>1. k \in C /\ Follows(k) BY SoundC
<1>2. Accepts(k, c) /\ c < 128 => Given(k, i)
  <2> SUFFICES ASSUME Accepts(k, c), c < 128 PROVE Given(k, i) OBVIOUS
  <2> DEFINE l == SetupTypeI(k, c)
  <2>1. c \in 0..127 BY DEF Byte
  <2>2. Began(k, l, 1) /\ l \in C BY <1>1, SetupTypeIBegins DEF Began
  <2> HIDE DEF l
  <2>3. /\ Like(l, SetTypeI(l, c))
        /\ SetTypeI(l, c).name = "SEEK" => SetTypeI(l, c).track = SetTypeI(l, c).head % 256
    BY <2>1, <2>2, SetTypeILike
  <2>4. Began(k, SetTypeI(l, c), 1) BY <2>2, <2>3, BeganLike
  <2>5. i = SetTypeI(l, c) BY DEF l
  <2> QED BY <1>1, <2>3, <2>4, <2>5, BeganGiven DEF Accepts
<1>3. Accepts(k, c) => Given(k, ii)
  <2> SUFFICES ASSUME Accepts(k, c) PROVE Given(k, ii) OBVIOUS
  <2> DEFINE l == SetupTypeII(k, c)
  <2>1. Began(k, l, 2) /\ l \in C BY <1>1, SetupTypeIIBegins DEF Began
  <2>2. ii = SetTypeII(l, c) BY DEF l
  <2> HIDE DEF l
  <2>3. Began(k, SetTypeII(l, c), 2) BY <2>1, SetTypeIILike, BeganLike
  <2> QED BY <1>1, <2>2, <2>3, BeganGiven DEF Accepts
<1>4. Accepts(k, c) => Given(k, iii)
  <2> SUFFICES ASSUME Accepts(k, c) PROVE Given(k, iii) OBVIOUS
  <2> DEFINE l == SetupTypeIII(k, c)
  <2>1. Began(k, l, 3) /\ l \in C BY <1>1, SetupTypeIIIBegins DEF Began
  <2>2. iii = SetTypeIII(l, c) BY DEF l
  <2> HIDE DEF l
  <2>3. Began(k, SetTypeIII(l, c), 3) BY <2>1, SetTypeIIILike, BeganLike
  <2> QED BY <1>1, <2>2, <2>3, BeganGiven DEF Accepts
<1>5. Given(k, k) BY DEF Given, Heeds
<1> HIDE DEF i, ii, iii
<1>6. Given(k, ForceInterrupt(k, c)) BY ForceInterruptGiven
<1>7. \/ (c < 128) /\ (c \notin 128..191) /\ ~(c >= 192)
      \/ ~(c < 128) /\ (c \in 128..191) /\ ~(c >= 192)
      \/ ~(c < 128) /\ (c \notin 128..191) /\ (c >= 192)
  BY DEF Byte
<1>8. DoCommand(k, c) = CASE c \div 16 = 13 -> ForceInterrupt(k, c)
                          [] c \div 16 # 13 /\ Busy \in k.status -> k
                          [] Accepts(k, c) /\ c < 128 -> i
                          [] Accepts(k, c) /\ c \in 128 .. 191 -> ii
                          [] Accepts(k, c) /\ c >= 192 -> iii
  BY DEF DoCommand, i, ii, iii
<1>9. CASE c \div 16 = 13 BY <1>6, <1>8, <1>9 DEF Accepts
<1>10. CASE c \div 16 # 13 /\ Busy \in k.status BY <1>5, <1>8, <1>10 DEF Accepts
<1>11. CASE Accepts(k, c)
  <2>1. CASE (c < 128) /\ (c \notin 128..191) /\ ~(c >= 192)
    BY <1>2, <1>8, <1>11, <2>1 DEF Accepts
  <2>2. CASE ~(c < 128) /\ (c \in 128..191) /\ ~(c >= 192)
    BY <1>3, <1>8, <1>11, <2>2 DEF Accepts
  <2>3. CASE ~(c < 128) /\ (c \notin 128..191) /\ (c >= 192)
    BY <1>4, <1>8, <1>11, <2>3 DEF Accepts
  <2> QED BY <1>7, <2>1, <2>2, <2>3
<1> QED BY <1>9, <1>10, <1>11 DEF Accepts

LEMMA CommandWriteGiven ==
  ASSUME NEW k, Sound(k), NEW c \in Byte PROVE Given(k, CommandWrite(k, c))
<1> DEFINE a == Acknowledge(k)
           b == IF c = 208 THEN Forced(a, {}) ELSE a
<1>1. Given(k, a) /\ (Safe(k) => Safe(a)) BY AcknowledgeGiven
<1>2. CommandWrite(k, c) = DoCommand(b, c) BY DEF CommandWrite, b, a, Forced
<1> HIDE DEF a
<1>3. Sound(a) BY <1>1 DEF Given
<1>4. Given(a, Forced(a, {})) /\ (Safe(a) => Safe(Forced(a, {}))) BY <1>3, ForcedGiven
<1>5. Given(k, b) /\ (Safe(k) => Safe(b)) BY <1>1, <1>4, GivenTwice
<1> HIDE DEF b
<1>6. Sound(b) BY <1>5 DEF Given
<1>7. Given(b, DoCommand(b, c)) BY <1>6, DoCommandGiven
<1> QED BY <1>2, <1>5, <1>7, GivenTwice

-----------------------------------------------------------------------------
(* The other registers, the reset and the disk. *)

LEMMA GivenPlain ==
  ASSUME NEW k, NEW l, NEW m, Given(k, l), Plain(l, m), Unturned(l, m) PROVE Given(k, m)
<1>1. Keeps(l, m) BY PlainKeeps DEF Given
<1>2. Heeds(k, m) BY PlainHeeds, HeedsTwice DEF Given
<1> QED BY <1>1, <1>2 DEF Given, Plain, Unturned, Keeps, Overshoots

Holding(k, v) == [k EXCEPT !.data = v]
LEMMA HoldingGiven ==
  ASSUME NEW k, Sound(k), NEW v \in Byte PROVE Given(k, Holding(k, v))
<1> DEFINE l == Holding(k, v)
<1>1. k \in C BY SoundC
<1>2. l \in C BY <1>1, ZenonT(60) DEF C, ControllerWith, Holding
<1>3. /\ l.type = k.type /\ l.name = k.name /\ l.acted = k.acted /\ l.done = k.done
      /\ l.head = k.head /\ l.track = k.track /\ l.data = v /\ l.idle = k.idle
      /\ l.intrq = k.intrq /\ l.line = k.line /\ l.mark = k.mark /\ l.status = k.status
      /\ l.index = k.index
  BY <1>1 DEF C, ControllerWith, Holding
<1> HIDE DEF l
<1>4. Sound(l) BY <1>2, <1>3 DEF Sound, Active, Over, Idle, Follows
<1>5. ASSUME Safe(k), ~Overshoots(l) PROVE Safe(l)
  <2>1. OnDisk(l.head) BY <1>3, <1>5 DEF Safe
  <2> SUFFICES ASSUME l.type = 1 /\ ~l.done /\ l.name = "SEEK" /\ ~l.acted
               PROVE  l.track = l.head /\ OnDisk(l.data)
    BY <2>1 DEF Safe
  <2>2. Busy \in l.status BY <1>4 DEF Sound, Active, Over, Idle
  <2>3. ~(v >= Cylinders) BY <1>3, <1>5, <2>2 DEF Overshoots
  <2>4. OnDisk(v) BY <2>3, Numbers DEF OnDisk, Byte
  <2> QED BY <1>3, <1>5, <2>4 DEF Safe
<1>6. Heeds(k, l) BY <1>3 DEF Heeds
<1> QED BY <1>3, <1>4, <1>5, <1>6 DEF Given, l

Gathered(k, b, n) == [k EXCEPT !.buffer = b, !.count = n]
LEMMA GatheredPlain ==
  ASSUME NEW k \in C, NEW b \in [1..SectorLength -> Byte], NEW n \in 0..SectorLength
  PROVE  Plain(k, Gathered(k, b, n)) /\ Unturned(k, Gathered(k, b, n))
  BY ZenonT(60) DEF Plain, Unturned, C, ControllerWith, Gathered

Answered(k, s) == [k EXCEPT !.drq = FALSE, !.status = s]
LEMMA AnsweredPlain ==
  ASSUME NEW k \in C
  PROVE  /\ Plain(k, Answered(k, k.status \ {DataRequest}))
         /\ Unturned(k, Answered(k, k.status \ {DataRequest}))
<1> DEFINE s == k.status \ {DataRequest}
<1>1. /\ s \in SUBSET (0..5) /\ (Busy \in s <=> Busy \in k.status)
      /\ NotFound \in s <=> NotFound \in k.status
  BY Fields, Statuses DEF DataRequest, NotFound
<1> HIDE DEF s
<1>2. Plain(k, Answered(k, s)) /\ Unturned(k, Answered(k, s))
  BY <1>1, Values, ZenonT(60) DEF Plain, Unturned, C, ControllerWith, Answered
<1> QED BY <1>2 DEF s

LEMMA DataWrittenGiven ==
  ASSUME NEW k, Sound(k), NEW v \in Byte PROVE Given(k, DataWritten(k, v))
<1>0. \A i \in 0..SectorLength : i < SectorLength => i + 1 \in 0..SectorLength BY Numbers
<1> DEFINE d == Holding(k, v)
           b == [d.buffer EXCEPT ![k.count + 1] = v]
           n == d.count + 1
           full == ~(k.name = "WRITE SECTOR" /\ k.count < SectorLength)
           g == IF full THEN d ELSE Gathered(d, b, n)
           a == Answered(g, g.status \ {DataRequest})
<1>1. Given(k, d) BY HoldingGiven
<1>2. k \in C /\ d \in C /\ d.count = k.count
  <2>1. k \in C BY SoundC
  <2>2. d.count = k.count BY <2>1 DEF Holding, C, ControllerWith
  <2> QED BY <1>1, <2>1, <2>2, SoundC DEF Given
<1>3. DataWritten(k, v) = IF k.name \in Writing /\ k.drq THEN a ELSE g
  BY DEF DataWritten, a, g, n, b, d, Holding, Gathered, Answered
<1> HIDE DEF d
<1>4. Given(k, g)
  <2>1. CASE full BY <1>1, <2>1
  <2>2. CASE ~full
    <3>1. k.count \in 0..SectorLength /\ d.buffer \in [1..SectorLength -> Byte] BY <1>2, Fields
    <3>2. n \in 0..SectorLength
      <4>1. k.count < SectorLength BY <2>2
      <4>2. k.count + 1 \in 0..SectorLength BY <1>0, <3>1, <4>1
      <4> QED BY <1>2, <4>2
    <3>3. b \in [1..SectorLength -> Byte] BY <3>1
    <3> HIDE DEF n, b
    <3>4. Given(k, Gathered(d, b, n)) BY <1>1, <1>2, <3>2, <3>3, GatheredPlain, GivenPlain
    <3> QED BY <2>2, <3>4
  <2> QED BY <2>1, <2>2
<1> HIDE DEF g
<1>5. g \in C BY <1>4, SoundC DEF Given
<1>6. Given(k, a) BY <1>4, <1>5, AnsweredPlain, GivenPlain
<1> QED BY <1>3, <1>4, <1>6

LEMMA DataReadGiven ==
  ASSUME NEW k, Sound(k)
  PROVE  Given(k, DataRead(k)) /\ (Safe(k) => Safe(DataRead(k)))
<1> DEFINE a == Answered(k, k.status \ {DataRequest})
<1>1. k \in C BY SoundC
<1>2. Plain(k, a) /\ Unturned(k, a) BY <1>1, AnsweredPlain
<1>3. DataRead(k) = IF k.name \in Reading THEN a ELSE k BY DEF DataRead, a, Answered
<1> HIDE DEF a
<1>4. Given(k, a) /\ (Safe(k) => Safe(a)) BY <1>2, PlainGiven, PlainKeeps DEF Keeps
<1> QED BY <1>3, <1>4 DEF Given, Heeds

\* The track register may be written only while no command runs.
Tracked(k, v) == [k EXCEPT !.track = v]
LEMMA TrackedGiven ==
  ASSUME NEW k, Sound(k), NEW v \in Byte
  PROVE  /\ Sound(Tracked(k, v)) /\ Tracked(k, v).head = k.head /\ Tracked(k, v).idle = k.idle
         /\ Heeds(k, Tracked(k, v))
         /\ Safe(k) /\ Busy \notin k.status => Safe(Tracked(k, v))
<1> DEFINE l == Tracked(k, v)
<1>1. k \in C BY SoundC
<1>2. l \in C BY <1>1, ZenonT(60) DEF C, ControllerWith, Tracked
<1>3. /\ l.type = k.type /\ l.done = k.done /\ l.head = k.head /\ l.idle = k.idle
      /\ l.intrq = k.intrq /\ l.line = k.line /\ l.mark = k.mark /\ l.status = k.status
      /\ l.acted = k.acted /\ l.index = k.index
  BY <1>1 DEF C, ControllerWith, Tracked
<1> HIDE DEF l
<1>4. Sound(l) BY <1>2, <1>3 DEF Sound, Active, Over, Idle, Follows
<1>5. Safe(k) /\ Busy \notin k.status => Safe(l)
  BY <1>3, <1>4 DEF Safe, Sound, Active, Over, Idle
<1>6. Heeds(k, l) BY <1>3 DEF Heeds
<1> QED BY <1>3, <1>4, <1>5, <1>6 DEF l

Sectored(k, v) == [k EXCEPT !.sector = v]
Latched(k, v) == [k EXCEPT !.latch = v]
LEMMA SectoredGiven ==
  ASSUME NEW k, Sound(k), NEW v \in Byte
  PROVE  /\ Given(k, Sectored(k, v)) /\ (Safe(k) => Safe(Sectored(k, v)))
         /\ Given(k, Latched(k, v)) /\ (Safe(k) => Safe(Latched(k, v)))
<1>1. k \in C BY SoundC
<1>2. Plain(k, Sectored(k, v)) /\ Unturned(k, Sectored(k, v))
  BY <1>1, ZenonT(60) DEF Plain, Unturned, C, ControllerWith, Sectored
<1>3. Plain(k, Latched(k, v)) /\ Unturned(k, Latched(k, v))
  BY <1>1, ZenonT(60) DEF Plain, Unturned, C, ControllerWith, Latched
<1> QED BY <1>2, <1>3, PlainGiven, PlainKeeps DEF Keeps

LEMMA FreshIdle ==
  ASSUME NEW line \in Flag, NEW buffer \in [1..SectorLength -> Stale]
  PROVE  /\ Idle(Fresh(line, buffer)) /\ Fresh(line, buffer).head = 0
         /\ Fresh(line, buffer).idle = 0 /\ Safe(Fresh(line, buffer))
         /\ ~Fresh(line, buffer).acted /\ ~Fresh(line, buffer).intrq
<1> DEFINE p == FirstByte % TrackLength
           f == Fresh(line, buffer)
<1>1. p \in 0..(TrackLength - 1) BY Numbers, Spans
<1>2. Run(0, 6) \in [1..6 -> Byte] BY DEF Run, Byte
<1>3. buffer \in [1..SectorLength -> Byte] BY ContentAssumption
<1>4. {} \in SUBSET (0..5) /\ {} \in SUBSET {"index", "immediate", "terminate"} /\ 0 \in Drives /\ 0 \in Int
      /\ 0 \in 0..3 /\ 0 \in 0..1 /\ "" \in {""}
  BY DEF Drives
<1>5. f \in C
  BY <1>1, <1>2, <1>3, <1>4, Values DEF C, ControllerWith, Fresh, Finds, Marks
<1>6. f.type = 0 /\ f.status = {} /\ f.intrq = FALSE /\ f.acted = FALSE /\ f.head = 0 /\ f.idle = 0 BY DEF Fresh
<1> HIDE DEF f
<1>7. Idle(f) BY <1>5, <1>6 DEF Idle, Follows
<1>8. OnDisk(0) BY Numbers DEF OnDisk
<1>9. Safe(f) BY <1>6, <1>8 DEF Safe
<1> QED BY <1>6, <1>7, <1>9 DEF f

LEMMA DiskAfterImages ==
  ASSUME NEW k \in C, NEW t, disk \in Images PROVE DiskAfter(k, t) \in Images
<1> DEFINE d == Target(k, t.stray)
           p == PlaceAt(Offset(k))
           e == [disk EXCEPT ![d][p] = k.buffer]
<1>1. k.buffer \in [1..SectorLength -> Byte] BY Fields
<1>2. DiskAfter(k, t) \in {e, disk} BY DEF DiskAfter
<1> HIDE DEF d, p
<1>3. e \in Images BY <1>1 DEF Images
<1> HIDE DEF e
<1> QED BY <1>2, <1>3

LEMMA TimesOfCycle ==
  ASSUME NEW k, NEW t \in [byte : BOOLEAN, fired : SUBSET Running(k), junk : Junk, stray : Strays(k)]
  PROVE  t \in Times
<1>1. Running(k) \subseteq Delays BY DEF Running
<1>2. Junk \subseteq Byte BY ContentAssumption
<1>3. Strays(k) \subseteq 0..2 BY DEF Strays, Drives
<1>4. t.fired \in SUBSET Delays /\ t.junk \in Byte /\ t.stray \in 0..2 BY <1>1, <1>2, <1>3
<1> QED BY <1>4 DEF Times

-----------------------------------------------------------------------------
(* The invariant. *)

FloppyInv ==
  /\ TypeOK
  /\ Sound(w)
  /\ w.idle < IdlePulses
  /\ legal => Safe(w)

LEMMA ControllerHeads ==
  /\ \A k \in C : k.head \in Lowest..Highest => k \in Controller
  /\ \A k \in Controller : k.head \in Lowest..Highest
<1>1. \A k \in C : k.head \in Lowest..Highest => k \in Controller
  BY DEF C, Controller, ControllerWith
<1>2. \A k \in Controller : k.head \in Lowest..Highest
  BY DEF Controller, ControllerWith
<1> QED BY <1>1, <1>2

LEMMA InvImpliesCoherent == FloppyInv => Coherent
<1> SUFFICES ASSUME FloppyInv PROVE Coherent OBVIOUS
<1>1. TypeOK BY DEF FloppyInv
<1>2. BusyWhileActive
  BY DEF FloppyInv, Sound, Active, Over, Idle, BusyWhileActive, IsBusy
<1>3. LineFollows BY SoundC DEF FloppyInv, LineFollows, Follows
<1>4. HeadOnDisk BY DEF FloppyInv, HeadOnDisk, Safe, OnDisk
<1> QED BY <1>1, <1>2, <1>3, <1>4 DEF Coherent

LEMMA InitFloppyInv == Init => FloppyInv
<1> SUFFICES ASSUME Init PROVE FloppyInv OBVIOUS
<1>1. PICK b \in [1..SectorLength -> Stale] : w = Fresh(FALSE, b) BY DEF Init
<1>2. Idle(w) /\ w.head = 0 /\ w.idle = 0 /\ Safe(w) BY <1>1, FreshIdle, Values
<1>3. w \in C BY <1>2 DEF Idle
<1>4. 0 \in Lowest..Highest /\ 0 < IdlePulses /\ 0 \in 0..MostPulses
  <2>1. 0 \in Lowest..Highest /\ 0 < IdlePulses BY Numbers
  <2> QED BY <2>1, Values
<1>5. w \in Controller BY <1>2, <1>3, <1>4, ControllerHeads
<1>6. disk \in [Drives -> [Places -> [1..SectorLength -> Byte]]] BY ContentAssumption DEF Init
<1>7. TypeOK BY <1>4, <1>5, <1>6, Values DEF Init, TypeOK
<1> QED BY <1>2, <1>4, <1>7 DEF FloppyInv, Sound

\* What an access gives keeps the invariant.
LEMMA GivenInv ==
  ASSUME FloppyInv, NEW l, Given(w, l), w' = l, legal' \in BOOLEAN,
         legal' => legal, legal' => Safe(l) \/ ~Overshoots(l),
         disk' \in [Drives -> [Places -> [1..SectorLength -> Byte]]], program' \in Programs,
         accessed' \in BOOLEAN, waiting' \in BOOLEAN, origin' \in Byte, turns' \in 0..MostPulses
  PROVE  FloppyInv' /\ Heeds(w, w')
<1>1. w \in Controller BY DEF FloppyInv, TypeOK
<1>2. Sound(l) /\ l.head = w.head /\ l.idle = w.idle /\ (Safe(w) /\ ~Overshoots(l) => Safe(l))
  BY DEF Given
<1>3. l \in C BY <1>2, SoundC
<1>4. l \in Controller BY <1>1, <1>2, <1>3, ControllerHeads
<1>5. TypeOK' BY <1>4 DEF TypeOK
<1>6. Sound(w') BY <1>2
<1>7. w'.idle < IdlePulses BY <1>2 DEF FloppyInv
<1>8. legal' => Safe(w') BY <1>2 DEF FloppyInv
<1>9. Heeds(w, w') BY DEF Given
<1> QED BY <1>5, <1>6, <1>7, <1>8, <1>9 DEF FloppyInv

LEMMA Inputs ==
  ASSUME program \in Programs
  PROVE  /\ program.commands \subseteq Byte /\ program.tracks \subseteq Byte
         /\ program.sectors \subseteq Byte /\ program.bytes \subseteq Byte
         /\ program.latches \subseteq Byte
  BY EnvironmentAssumption

LEMMA ReadStatusInv == FloppyInv /\ ReadStatus => FloppyInv' /\ Heeds(w, w')
<1> SUFFICES ASSUME FloppyInv, ReadStatus PROVE FloppyInv' /\ Heeds(w, w') OBVIOUS
<1>1. Given(w, Acknowledge(w)) /\ (Safe(w) => Safe(Acknowledge(w)))
  BY AcknowledgeGiven DEF FloppyInv
<1>2. /\ w' = Acknowledge(w) /\ accessed' \in BOOLEAN
      /\ UNCHANGED <<disk, program, waiting, sent, origin, turns, legal>>
  BY DEF ReadStatus, Access
<1> QED BY <1>1, <1>2, GivenInv DEF FloppyInv, TypeOK

LEMMA WriteCommandInv == FloppyInv /\ WriteCommand => FloppyInv' /\ Heeds(w, w')
<1> SUFFICES ASSUME FloppyInv, WriteCommand PROVE FloppyInv' /\ Heeds(w, w') OBVIOUS
<1>1. PICK c \in program.commands :
        /\ Access(CommandWrite(w, c))
        /\ legal' = (legal /\ ~Overshoots(CommandWrite(w, c)))
        /\ IF Accepts(w, c) THEN sent' = <<>> /\ origin' = w.sector /\ turns' = 0
           ELSE UNCHANGED <<sent, origin, turns>>
  BY DEF WriteCommand
<1>2. c \in Byte BY Inputs DEF FloppyInv, TypeOK
<1> DEFINE k == CommandWrite(w, c)
<1>3. Given(w, k) BY <1>2, CommandWriteGiven DEF FloppyInv
<1>4. /\ w' = k /\ accessed' \in BOOLEAN /\ UNCHANGED <<disk, program, waiting>>
      /\ legal' = (legal /\ ~Overshoots(k))
  BY <1>1 DEF Access
<1>5. w \in C BY SoundC DEF FloppyInv
<1>6. w.sector \in Byte BY <1>5, Fields
<1>7. origin' \in Byte /\ turns' \in 0..MostPulses BY <1>1, <1>6, Values DEF FloppyInv, TypeOK
<1> HIDE DEF k
<1> QED BY <1>3, <1>4, <1>7, GivenInv DEF FloppyInv, TypeOK

LEMMA WriteTrackInv == FloppyInv /\ WriteTrack => FloppyInv' /\ Heeds(w, w')
<1> SUFFICES ASSUME FloppyInv, WriteTrack PROVE FloppyInv' /\ Heeds(w, w') OBVIOUS
<1>1. PICK v \in program.tracks :
        /\ Access(Tracked(w, v))
        /\ legal' = (legal /\ Busy \notin w.status)
        /\ UNCHANGED <<sent, origin, turns>>
  BY DEF WriteTrack, Tracked
<1>2. v \in Byte BY Inputs DEF FloppyInv, TypeOK
<1> DEFINE k == Tracked(w, v)
<1>3. /\ Sound(k) /\ k.head = w.head /\ k.idle = w.idle /\ Heeds(w, k)
      /\ Safe(w) /\ Busy \notin w.status => Safe(k)
  BY <1>2, TrackedGiven DEF FloppyInv
<1>4. /\ w' = k /\ accessed' \in BOOLEAN /\ UNCHANGED <<disk, program, waiting, origin, turns>>
      /\ legal' = (legal /\ Busy \notin w.status)
  BY <1>1 DEF Access
<1> HIDE DEF k
<1>5. k \in C /\ k.head \in Lowest..Highest
  BY <1>3, SoundC, ControllerHeads DEF FloppyInv, TypeOK
<1>6. TypeOK' BY <1>4, <1>5, ControllerHeads DEF FloppyInv, TypeOK
<1> QED BY <1>3, <1>4, <1>6 DEF FloppyInv

LEMMA WriteSectorRegisterInv == FloppyInv /\ WriteSectorRegister => FloppyInv' /\ Heeds(w, w')
<1> SUFFICES ASSUME FloppyInv, WriteSectorRegister PROVE FloppyInv' /\ Heeds(w, w') OBVIOUS
<1>1. PICK v \in program.sectors :
        /\ Access(Sectored(w, v))
        /\ legal' = (legal /\ Busy \notin w.status)
        /\ UNCHANGED <<sent, origin, turns>>
  BY DEF WriteSectorRegister, Sectored
<1>2. v \in Byte BY Inputs DEF FloppyInv, TypeOK
<1> DEFINE k == Sectored(w, v)
<1>3. Given(w, k) /\ (Safe(w) => Safe(k)) BY <1>2, SectoredGiven DEF FloppyInv
<1>4. /\ w' = k /\ accessed' \in BOOLEAN /\ UNCHANGED <<disk, program, waiting, origin, turns>>
      /\ legal' = (legal /\ Busy \notin w.status)
  BY <1>1 DEF Access
<1> HIDE DEF k
<1> QED BY <1>3, <1>4, GivenInv DEF FloppyInv, TypeOK

LEMMA WriteLatchInv == FloppyInv /\ WriteLatch => FloppyInv' /\ Heeds(w, w')
<1> SUFFICES ASSUME FloppyInv, WriteLatch PROVE FloppyInv' /\ Heeds(w, w') OBVIOUS
<1>1. PICK v \in program.latches :
        Access(Latched(w, v)) /\ UNCHANGED <<sent, origin, turns, legal>>
  BY DEF WriteLatch, Latched
<1>2. v \in Byte BY Inputs DEF FloppyInv, TypeOK
<1> DEFINE k == Latched(w, v)
<1>3. Given(w, k) /\ (Safe(w) => Safe(k)) BY <1>2, SectoredGiven DEF FloppyInv
<1>4. /\ w' = k /\ accessed' \in BOOLEAN
      /\ UNCHANGED <<disk, program, waiting, origin, turns, legal>>
  BY <1>1 DEF Access
<1> HIDE DEF k
<1> QED BY <1>3, <1>4, GivenInv DEF FloppyInv, TypeOK

LEMMA WriteDataInv == FloppyInv /\ WriteData => FloppyInv' /\ Heeds(w, w')
<1> SUFFICES ASSUME FloppyInv, WriteData PROVE FloppyInv' /\ Heeds(w, w') OBVIOUS
<1>1. PICK v \in program.bytes :
        /\ Access(DataWritten(w, v))
        /\ legal' = (legal /\ ~Overshoots(DataWritten(w, v)))
        /\ UNCHANGED <<sent, origin, turns>>
  BY DEF WriteData
<1>2. v \in Byte BY Inputs DEF FloppyInv, TypeOK
<1> DEFINE k == DataWritten(w, v)
<1>3. Given(w, k) BY <1>2, DataWrittenGiven DEF FloppyInv
<1>4. /\ w' = k /\ accessed' \in BOOLEAN /\ UNCHANGED <<disk, program, waiting, origin, turns>>
      /\ legal' = (legal /\ ~Overshoots(k))
  BY <1>1 DEF Access
<1> HIDE DEF k
<1> QED BY <1>3, <1>4, GivenInv DEF FloppyInv, TypeOK

LEMMA ReadDataInv == FloppyInv /\ ReadData => FloppyInv' /\ Heeds(w, w')
<1> SUFFICES ASSUME FloppyInv, ReadData PROVE FloppyInv' /\ Heeds(w, w') OBVIOUS
<1>1. Given(w, DataRead(w)) /\ (Safe(w) => Safe(DataRead(w))) BY DataReadGiven DEF FloppyInv
<1>2. /\ w' = DataRead(w) /\ accessed' \in BOOLEAN /\ waiting' \in BOOLEAN
      /\ UNCHANGED <<disk, program, sent, origin, turns, legal>>
  BY DEF ReadData
<1> QED BY <1>1, <1>2, GivenInv DEF FloppyInv, TypeOK

Restarted(k) == k.type = 0 /\ ~k.acted /\ ~k.intrq /\ Busy \notin k.status
LEMMA ResetInv == FloppyInv /\ Reset => FloppyInv' /\ Restarted(w')
<1> SUFFICES ASSUME FloppyInv, Reset PROVE FloppyInv' /\ Restarted(w') OBVIOUS
<1>1. PICK b \in [1..SectorLength -> Stale] : w' = Fresh(w.line, b) BY DEF Reset
<1> DEFINE k == Fresh(w.line, b)
<1>2. w \in Controller BY DEF FloppyInv, TypeOK
<1>3. w.line \in Flag BY <1>2 DEF Controller, ControllerWith
<1>4. Idle(k) /\ k.head = 0 /\ k.idle = 0 /\ Safe(k) /\ ~k.acted /\ ~k.intrq
  BY <1>3, FreshIdle
<1>5. w' = k BY <1>1
<1> HIDE DEF k
<1>6. 0 \in Lowest..Highest /\ 0 < IdlePulses BY Numbers
<1>7. k \in Controller BY <1>4, <1>6, ControllerHeads DEF Idle
<1>8. 0 \in Byte /\ 0 \in 0..MostPulses BY Values
<1>9. TypeOK' BY <1>5, <1>7, <1>8 DEF Reset, FloppyInv, TypeOK
<1> QED BY <1>4, <1>5, <1>6, <1>9 DEF FloppyInv, Sound, Restarted, Idle

\* A cycle, with the count of index pulses that the history keeps.
Cycled(t) ==
  /\ Cycles(w, w', t) /\ legal' = legal
  /\ Busy \in w'.status => turns' = IF t.byte /\ w'.ptr = 0 THEN Count(turns) ELSE turns

LEMMA DoJWD1797CycleInv ==
  FloppyInv /\ DoJWD1797Cycle => FloppyInv' /\ \E t \in Times : Cycled(t)
<1> SUFFICES ASSUME FloppyInv, DoJWD1797Cycle PROVE FloppyInv' /\ \E t \in Times : Cycled(t)
  OBVIOUS
<1>1. PICK t \in [byte : BOOLEAN, fired : SUBSET Running(w), junk : Junk, stray : Strays(w)] :
        /\ DoCycle(w, t).head \in Lowest..Highest
        /\ w' = DoCycle(w, t)
        /\ disk' = DiskAfter(w, t)
        /\ waiting' \in MayStall
        /\ \/ turns' = Count(turns) /\ origin' = origin
           \/ turns' = turns /\ origin' = origin
           \/ turns' = 0 /\ origin' = 0
        /\ Busy \in DoCycle(w, t).status =>
             turns' = IF t.byte /\ DoCycle(w, t).ptr = 0 THEN Count(turns) ELSE turns
        /\ accessed' = FALSE
        /\ UNCHANGED <<program, legal>>
  BY DEF DoJWD1797Cycle
<1> DEFINE k == DoCycle(w, t)
<1>2. t \in Times BY TimesOfCycle
<1>3. disk \in Images BY DEF FloppyInv, TypeOK, Images
<1>4. Keeps(w, k) /\ k.idle < IdlePulses BY <1>2, <1>3, DoCycleKeeps DEF FloppyInv
<1>0. Cycles(w, k, t) BY <1>2, <1>3, DoCycleCycles DEF FloppyInv
<1>5. w \in C BY SoundC DEF FloppyInv
<1>6. DiskAfter(w, t) \in Images BY <1>3, <1>5, DiskAfterImages
<1>7. MostPulses \in Nat BY Numbers DEF MostPulses
<1>8. turns \in 0..MostPulses /\ origin \in Byte BY DEF FloppyInv, TypeOK
<1>9. Count(turns) \in 0..MostPulses BY <1>7, <1>8 DEF Count
<1>10. turns' \in 0..MostPulses /\ origin' \in Byte BY <1>1, <1>8, <1>9, Values
<1>11. w' = k /\ k.head \in Lowest..Highest BY <1>1
<1> HIDE DEF k
<1>12. k \in Controller BY <1>4, <1>11, SoundC, ControllerHeads DEF Keeps
<1>13. disk' \in [Drives -> [Places -> [1..SectorLength -> Byte]]] BY <1>1, <1>6 DEF Images
<1>17. waiting' \in BOOLEAN BY <1>1 DEF MayStall, FloppyInv, TypeOK
<1>14. TypeOK' BY <1>1, <1>10, <1>11, <1>12, <1>13, <1>17 DEF FloppyInv, TypeOK
<1>15. legal' => Safe(w') BY <1>1, <1>4, <1>11 DEF FloppyInv, Keeps
<1>16. Cycled(t) BY <1>0, <1>1, <1>11 DEF Cycled, k
<1> QED BY <1>2, <1>4, <1>11, <1>14, <1>15, <1>16 DEF FloppyInv, Keeps

LEMMA NextFloppyInv == FloppyInv /\ [Next]_vars => FloppyInv'
<1> SUFFICES ASSUME FloppyInv, [Next]_vars PROVE FloppyInv' OBVIOUS
<1>1. CASE Wait BY <1>1 DEF Wait, FloppyInv, TypeOK
<1>2. CASE UNCHANGED vars BY <1>2 DEF vars, FloppyInv, TypeOK
<1> QED
  BY <1>1, <1>2, ReadStatusInv, WriteCommandInv, WriteTrackInv, WriteSectorRegisterInv,
     WriteLatchInv, WriteDataInv, ReadDataInv, ResetInv, DoJWD1797CycleInv
  DEF Next

\* The registers of the floppy controller stay in their ranges; the busy bit
\* and command_done agree; a pending INTRQ is on its line; and software that
\* keeps the rules of jwd1797.h 37-43 never has the head stepped off the disk,
\* whatever the geometry and the format of the disk, the limits of the
\* searches and the timing (jwd1797.c:401-549, 601-765, 1255-1290).
THEOREM FloppyCoherent == Spec => []Coherent
<1>1. Init => FloppyInv BY InitFloppyInv
<1>2. FloppyInv /\ [Next]_vars => FloppyInv' BY NextFloppyInv
<1>3. FloppyInv => Coherent BY InvImpliesCoherent
<1> QED BY <1>1, <1>2, <1>3, PTL DEF Spec

-----------------------------------------------------------------------------
(* Interrupts, arrivals and searches. *)

\* A port access, with the count of index pulses that the history keeps.
Asks == Heeds(w, w') /\ (turns' = turns \/ (Busy \notin w.status /\ turns' = 0))

LEMMA CommandAsks == FloppyInv /\ WriteCommand => Asks
<1> SUFFICES ASSUME FloppyInv, WriteCommand PROVE Asks OBVIOUS
<1>1. Heeds(w, w') BY WriteCommandInv
<1>2. \E c : IF Accepts(w, c) THEN sent' = <<>> /\ origin' = w.sector /\ turns' = 0
             ELSE UNCHANGED <<sent, origin, turns>>
  BY DEF WriteCommand
<1> QED BY <1>1, <1>2 DEF Asks, Accepts

\* Every step is an access, a reset or a cycle.
LEMMA NextComes ==
  FloppyInv /\ [Next]_vars =>
    FloppyInv' /\ (Asks \/ Restarted(w') \/ \E t \in Times : Cycled(t))
<1> SUFFICES ASSUME FloppyInv, [Next]_vars
             PROVE  FloppyInv' /\ (Asks \/ Restarted(w') \/ \E t \in Times : Cycled(t))
  OBVIOUS
<1>0. FloppyInv' BY NextFloppyInv
<1>1. CASE Wait \/ UNCHANGED vars
  <2>1. w' = w /\ turns' = turns BY <1>1 DEF Wait, vars
  <2> QED BY <1>0, <2>1 DEF Asks, Heeds
<1>2. CASE ReadStatus
  BY <1>0, <1>2, ReadStatusInv DEF ReadStatus, Asks
<1>3. CASE WriteCommand BY <1>0, <1>3, CommandAsks
<1>4. CASE WriteTrack
  <2>1. turns' = turns BY <1>4 DEF WriteTrack
  <2> QED BY <1>0, <1>4, <2>1, WriteTrackInv DEF Asks
<1>5. CASE WriteSectorRegister
  <2>1. turns' = turns BY <1>5 DEF WriteSectorRegister
  <2> QED BY <1>0, <1>5, <2>1, WriteSectorRegisterInv DEF Asks
<1>6. CASE WriteData
  <2>1. turns' = turns BY <1>6 DEF WriteData
  <2> QED BY <1>0, <1>6, <2>1, WriteDataInv DEF Asks
<1>7. CASE WriteLatch
  <2>1. turns' = turns BY <1>7 DEF WriteLatch
  <2> QED BY <1>0, <1>7, <2>1, WriteLatchInv DEF Asks
<1>8. CASE ReadData BY <1>0, <1>8, ReadDataInv DEF ReadData, Asks
<1>9. CASE Reset BY <1>0, <1>9, ResetInv
<1>10. CASE DoJWD1797Cycle BY <1>0, <1>10, DoJWD1797CycleInv
<1> QED BY <1>1, <1>2, <1>3, <1>4, <1>5, <1>6, <1>7, <1>8, <1>9, <1>10 DEF Next

\* A command ends with INTRQ on its line unless D0 terminates it: every place
\* that ends one raises it (jwd1797.h 125-127, jwd1797.c:416-480, 1840-2288).
THEOREM CommandsInterrupt == Spec => EndsWithInterrupt
<1>1. Init => FloppyInv BY InitFloppyInv
<1>2. FloppyInv /\ [Next]_vars => FloppyInv' BY NextFloppyInv
<1>3. FloppyInv /\ [Next]_vars => [(Ends /\ "terminate" \notin w.forced) => (w'.intrq /\ w'.line)]_vars
  <2> SUFFICES ASSUME FloppyInv, [Next]_vars, Ends, "terminate" \notin w.forced
               PROVE  w'.intrq /\ w'.line
    OBVIOUS
  <2>1. FloppyInv' /\ (Asks \/ Restarted(w') \/ \E t \in Times : Cycled(t)) BY NextComes
  <2>2. Busy \in w.status /\ Busy \notin w'.status /\ w'.type # 0 BY DEF Ends, IsBusy
  <2>3. PICK t \in Times : Cycled(t) BY <2>1, <2>2 DEF Asks, Heeds, Restarted
  <2>4. w'.intrq BY <2>2, <2>3 DEF Cycled, Cycles
  <2>5. w'.intrq => w'.line BY <2>1, SoundC DEF FloppyInv, Follows
  <2> QED BY <2>4, <2>5
<1> QED BY <1>1, <1>2, <1>3, PTL DEF Spec, EndsWithInterrupt

\* INTRQ rises when a command ends or because a condition of a forced interrupt
\* is armed; no other part of a cycle and no port access raises it
\* (jwd1797.c:416-480).
THEOREM InterruptsHaveReason == Spec => InterruptsForReason
<1>1. Init => FloppyInv BY InitFloppyInv
<1>2. FloppyInv /\ [Next]_vars => FloppyInv' BY NextFloppyInv
<1>3. FloppyInv /\ [Next]_vars =>
        [(w'.intrq /\ ~w.intrq) => (Ends \/ w.forced \cap {"immediate", "index"} # {})]_vars
  <2> SUFFICES ASSUME FloppyInv, [Next]_vars, w'.intrq, ~w.intrq
               PROVE  Ends \/ w.forced \cap {"immediate", "index"} # {}
    OBVIOUS
  <2>1. Asks \/ Restarted(w') \/ \E t \in Times : Cycled(t) BY NextComes
  <2>2. PICK t \in Times : Cycled(t) BY <2>1 DEF Asks, Heeds, Restarted
  <2> QED BY <2>2 DEF Cycled, Cycles, Ends, IsBusy
<1> QED BY <1>1, <1>2, <1>3, PTL DEF Spec, InterruptsForReason

\* A SEEK that acts is over the track of the data register, and a RESTORE over
\* track 0 with 0 in the track register, for every disk, if software keeps the
\* rules (jwd1797.c:601-668, 1278).
THEOREM HeadArrives == Spec => Arrives
<1>1. Init => FloppyInv BY InitFloppyInv
<1>2. FloppyInv /\ [Next]_vars => FloppyInv' BY NextFloppyInv
<1>3. FloppyInv /\ [Next]_vars =>
        [(w.type = 1 /\ ~w.acted /\ w'.acted /\ legal) =>
           /\ w.name = "SEEK" => w'.head = w'.data
           /\ w.name = "RESTORE" => w'.head = 0 /\ w'.track = 0]_vars
  <2> SUFFICES ASSUME FloppyInv, [Next]_vars, w.type = 1, ~w.acted, w'.acted, legal
               PROVE  /\ w.name = "SEEK" => w'.head = w'.data
                      /\ w.name = "RESTORE" => w'.head = 0 /\ w'.track = 0
    OBVIOUS
  <2>1. Asks \/ Restarted(w') \/ \E t \in Times : Cycled(t) BY NextComes
  <2>2. PICK t \in Times : Cycled(t) BY <2>1 DEF Asks, Heeds, Restarted
  <2>3. Arrived(w, w') BY <2>2 DEF Cycled, Cycles
  <2>4. Safe(w) BY DEF FloppyInv
  <2> QED BY <2>3, <2>4 DEF Arrived
<1> QED BY <1>1, <1>2, <1>3, PTL DEF Spec, Arrives

\* While a command searches, it has counted no more index pulses than have
\* passed since it was accepted, and has not said that it found nothing.
Searched ==
  Busy \in w.status /\ w.type \in {1, 2} => w.index <= turns /\ NotFound \notin w.status

LEMMA Counts ==
  ASSUME NEW m \in 0..MostPulses, NEW n \in 0..MostPulses, m <= n
  PROVE  Count(m) <= Count(n) /\ n <= Count(n) /\ Count(m) <= m + 1
<1>1. MostPulses \in Nat BY Numbers DEF MostPulses
<1> QED BY <1>1 DEF Count

LEMMA Ranges ==
  ASSUME FloppyInv PROVE w.index \in 0..MostPulses /\ turns \in 0..MostPulses
<1>1. w \in C BY SoundC DEF FloppyInv
<1>2. w.index \in 0..MostPulses BY <1>1, Fields
<1> QED BY <1>2 DEF FloppyInv, TypeOK

LEMMA NextSearched == FloppyInv /\ Searched /\ [Next]_vars => Searched'
<1> SUFFICES ASSUME FloppyInv, Searched, [Next]_vars, Busy \in w'.status, w'.type \in {1, 2}
             PROVE  w'.index <= turns' /\ NotFound \notin w'.status
  BY DEF Searched
<1>0. FloppyInv' /\ (Asks \/ Restarted(w') \/ \E t \in Times : Cycled(t)) BY NextComes
<1>1. turns \in 0..MostPulses /\ w.index \in 0..MostPulses /\ MostPulses \in Nat
  BY Ranges, Numbers DEF MostPulses
<1>2. CASE Asks
  <2>1. CASE Busy \in w.status BY <1>2, <2>1 DEF Asks, Heeds, Searched
  <2>2. CASE Busy \notin w.status
    <3>1. w'.index = 0 /\ NotFound \notin w'.status BY <1>2, <2>2 DEF Asks, Heeds
    <3>2. turns' >= 0 BY <1>1, <1>2 DEF Asks
    <3> QED BY <3>1, <3>2
  <2> QED BY <2>1, <2>2
<1>3. CASE Restarted(w') BY <1>3 DEF Restarted
<1>4. CASE \E t \in Times : Cycled(t)
  <2>1. PICK t \in Times : Cycled(t) BY <1>4
  <2>2. /\ Busy \in w.status /\ w.type \in {1, 2} /\ Turns(w, w', t)
        /\ NotFound \in w'.status => NotFound \in w.status
        /\ turns' = IF t.byte /\ w'.ptr = 0 THEN Count(turns) ELSE turns
    BY <2>1 DEF Cycled, Cycles
  <2>3. w.index <= turns /\ NotFound \notin w.status BY <2>2 DEF Searched
  <2>4. Count(w.index) <= Count(turns) /\ turns <= Count(turns) BY <1>1, <2>3, Counts
  <2>5. Count(turns) \in Int /\ Count(w.index) \in Int BY <1>1 DEF Count
  <2>6. w'.index <= turns' BY <1>1, <2>2, <2>3, <2>4, <2>5 DEF Turns
  <2> QED BY <2>2, <2>3, <2>6
<1> QED BY <1>0, <1>2, <1>3, <1>4

\* A type I or II command says that it found nothing only when VerifyPulses index
\* pulses have passed since it was accepted, or when the data mark did not come
\* within DataLimit bytes, for every limit and format (jwd1797.c:1861-1863).
THEOREM SearchesInFull == Spec => SearchesFully
<1> DEFINE I == FloppyInv /\ Searched
<1>1. Init => I
  <2>1. Init => FloppyInv BY InitFloppyInv
  <2>2. ASSUME Init PROVE w.status = {}
    <3>1. PICK b \in [1..SectorLength -> Stale] : w = Fresh(FALSE, b) BY <2>2 DEF Init
    <3> QED BY <3>1 DEF Fresh
  <2> QED BY <2>1, <2>2 DEF Searched
<1>2. I /\ [Next]_vars => I' BY NextFloppyInv, NextSearched
<1>3. I /\ [Next]_vars => [w.type \in {1, 2} => GivesUp(VerifyPulses)]_vars
  <2> SUFFICES ASSUME FloppyInv, Searched, [Next]_vars, w.type \in {1, 2},
                      Ends, NotFound \in w'.status, w.forced = {}
               PROVE  \/ w'.mark.misses > w.mark.misses
                      \/ turns + (IF w'.ptr = 0 /\ w.ptr # 0 THEN 1 ELSE 0) >= VerifyPulses
    BY DEF GivesUp
  <2>1. Asks \/ Restarted(w') \/ \E t \in Times : Cycled(t) BY NextComes
  <2>2. Busy \in w.status /\ Busy \notin w'.status /\ w'.type # 0 BY DEF Ends, IsBusy
  <2>3. PICK t \in Times : Cycled(t) BY <2>1, <2>2 DEF Asks, Heeds, Restarted
  <2>4. w.index <= turns /\ NotFound \notin w.status BY <2>2 DEF Searched
  <2>5. Exhausted(w, w', t) \/ w'.mark.misses > w.mark.misses
    BY <2>2, <2>3, <2>4 DEF Cycled, Cycles
  <2>6. turns \in 0..MostPulses /\ w.index \in 0..MostPulses BY Ranges
  <2>7. Count(w.index) <= w.index + 1 BY <2>4, <2>6, Counts
  <2>8. MostPulses \in Nat /\ VerifyPulses \in Nat BY Numbers DEF MostPulses
  <2>9. Count(w.index) \in Int BY <2>6, <2>8 DEF Count
  <2>10. CASE w.index >= VerifyPulses BY <2>4, <2>6, <2>8, <2>10
  <2>11. CASE w'.ptr = 0 /\ w.ptr # 0 /\ Count(w.index) >= VerifyPulses
    BY <2>4, <2>6, <2>7, <2>8, <2>9, <2>11
  <2> QED BY <2>5, <2>10, <2>11 DEF Exhausted
<1> QED BY <1>1, <1>2, <1>3, PTL DEF Spec, SearchesFully

=============================================================================
