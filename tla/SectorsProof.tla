---------------------------- MODULE SectorsProof ----------------------------
(***************************************************************************)
(* What the floppy controller finds on the disk: that the sector it        *)
(* delivers or writes, and the track it says it verified, are the ones it  *)
(* was asked for.                                                          *)
(*                                                                         *)
(* The bytes of the formatted track come first: where the parts of a       *)
(* sector lie (LaidOut), and that the bytes of an ID mark are found where  *)
(* there is one and nowhere else (TrueMark).  The invariant says where on  *)
(* the track a command is.  No byte goes by unseen once a search has       *)
(* begun (Steady), so the A1s it has counted, the ID field it has          *)
(* collected and the data it has delivered are those under the head        *)
(* (Sought); the registers name the sector that was found (Agrees); and    *)
(* what READ SECTOR has sent is the beginning of what was asked for        *)
(* (Transfers).  Each operator of the model either leaves all of this as   *)
(* it is (Even), or is a step that one of Ended, SearchesOn, Matched,      *)
(* Marking, Delivered and Continued describes.                             *)
(***************************************************************************)
EXTENDS FloppyProof

-----------------------------------------------------------------------------
(* Division with a known remainder. *)

LEMMA Divided ==
  ASSUME NEW n \in Nat \ {0}, NEW d \in Nat, NEW r \in 0..(n - 1)
  PROVE  (d * n + r) \div n = d /\ (d * n + r) % n = r
<1> DEFINE v == d * n + r
           e == v \div n
           m == v % n
<1>1. d * n \in Nat OBVIOUS
<1>2. v \in Nat BY <1>1
<1> HIDE DEF v
<1>3. e \in Nat /\ m \in 0..(n - 1) /\ v = n * e + m BY <1>2
<1> HIDE DEF e, m
<1>4. n * e + m = d * n + r BY <1>3 DEF v
<1>5. ~(e > d)
  <2> SUFFICES ASSUME e >= d + 1 PROVE FALSE BY <1>3
  <2>1. n * e >= n * (d + 1) BY <1>3
  <2>2. n * (d + 1) = d * n + n OBVIOUS
  <2>3. n * e \in Nat BY <1>3
  <2> QED BY <1>1, <1>3, <1>4, <2>1, <2>2, <2>3
<1>6. ~(d > e)
  <2> SUFFICES ASSUME d >= e + 1 PROVE FALSE BY <1>3
  <2>1. n * d >= n * (e + 1) BY <1>3
  <2>2. n * (e + 1) = n * e + n /\ n * d = d * n BY <1>3
  <2>3. n * e \in Nat BY <1>3
  <2> QED BY <1>1, <1>3, <1>4, <2>1, <2>2, <2>3
<1>7. e = d BY <1>3, <1>5, <1>6
<1>8. n * e = d * n BY <1>7
<1>9. m = r BY <1>1, <1>3, <1>4, <1>8
<1> QED BY <1>7, <1>9 DEF e, m, v

-----------------------------------------------------------------------------
(* Positions on a track. *)

\* Byte r of sector s, and where its two address marks are.
PlaceOf(s, r) == HeaderLength + (s - 1) * SectorSpan + r
IdMark == SyncLength + PrefixLength
DataPrefix == IdMark + 7 + GapLength + SyncLength
DataMark == DataPrefix + PrefixLength

\* How far apart the parts of a sector are.
LEMMA MarkPlaces ==
  /\ IdMark \in Nat /\ DataPrefix \in Nat /\ DataMark \in Nat
  /\ IdMark >= 2 /\ DataPrefix >= IdMark + 9 /\ DataMark >= DataPrefix + 1
  /\ DataMark = IdMark + IdMark + 7 + GapLength
  /\ SectorSpan = DataMark + 3 + SectorLength + GapLength
  BY Numbers, FormatAssumption DEF IdMark, DataPrefix, DataMark, SectorSpan

\* The elements of a concatenation.
LEMMA Appended ==
  ASSUME NEW s \in Seq(Byte), NEW t \in Seq(Byte)
  PROVE  /\ s \o t \in Seq(Byte) /\ Len(s \o t) = Len(s) + Len(t)
         /\ \A i \in 1..Len(s) : (s \o t)[i] = s[i]
         /\ \A i \in 1..Len(t) : (s \o t)[Len(s) + i] = t[i]
<1>1. s \o t \in Seq(Byte) /\ Len(s \o t) = Len(s) + Len(t) BY Concat
<1>2. Len(s) \in Nat /\ Len(t) \in Nat OBVIOUS
<1>3. \A i \in 1..Len(s) : (s \o t)[i] = s[i] BY <1>2
<1>4. \A i \in 1..Len(t) : (s \o t)[Len(s) + i] = t[i] BY <1>2
<1> QED BY <1>1, <1>3, <1>4

\* A byte of a sector, counted from 0.
InSector(payload, c, h, s, r) == SectorBytes(payload, c, h, s)[r + 1]

\* The bytes of a sector, part by part.
LaidOut(payload, c, h, s) ==
  LET b(r) == InSector(payload, c, h, s, r) IN
  /\ \A r \in 0..(SyncLength - 1) : b(r) = 0
  /\ \A r \in SyncLength..(IdMark - 1) : b(r) = 161
  /\ b(IdMark) = 254
  /\ \A j \in 1..6 : b(IdMark + j) = <<c, h, s, SizeCode, 1, 1>>[j]
  /\ \A r \in (IdMark + 7)..(IdMark + 6 + GapLength) : b(r) = 78
  /\ \A r \in (IdMark + 7 + GapLength)..(DataPrefix - 1) : b(r) = 0
  /\ \A r \in DataPrefix..(DataMark - 1) : b(r) = 161
  /\ b(DataMark) = 251
  /\ \A i \in 1..SectorLength : b(DataMark + i) = payload[i]
  /\ \A i \in 1..2 : b(DataMark + SectorLength + i) = 1
  /\ \A r \in (DataMark + SectorLength + 3)..(SectorSpan - 1) : b(r) = 78

LEMMA SectorLayout ==
  ASSUME NEW payload \in [1..SectorLength -> Byte], NEW c \in Byte, NEW h \in Byte, NEW s \in Byte
  PROVE  LaidOut(payload, c, h, s)
<1> DEFINE s0 == Run(0, SyncLength)
           s1 == Run(161, PrefixLength)
           s2 == <<254, c, h, s, SizeCode, 1, 1>>
           s3 == Run(78, GapLength)
           s4 == <<251>>
           s5 == <<1, 1>>
<1>1. /\ s0 \in Seq(Byte) /\ Len(s0) = SyncLength /\ s1 \in Seq(Byte) /\ Len(s1) = PrefixLength
      /\ s3 \in Seq(Byte) /\ Len(s3) = GapLength
  <2>1. 78 \in Byte /\ 0 \in Byte /\ 161 \in Byte BY DEF Byte
  <2>2. GapLength \in Nat /\ SyncLength \in Nat /\ PrefixLength \in Nat BY Numbers
  <2> QED BY <2>1, <2>2, Runs
<1>2. s2 \in Seq(Byte) /\ Len(s2) = 7 BY SizeCodes DEF Byte
<1>3. s4 \in Seq(Byte) /\ Len(s4) = 1 /\ s5 \in Seq(Byte) /\ Len(s5) = 2 BY DEF Byte
<1>4. payload \in Seq(Byte) /\ Len(payload) = SectorLength BY Numbers
<1>5. /\ \A i \in 1..SyncLength : s0[i] = 0
      /\ \A i \in 1..PrefixLength : s1[i] = 161
      /\ \A i \in 1..GapLength : s3[i] = 78
  BY DEF Run
<1>6. /\ s2[1] = 254 /\ \A j \in 1..6 : s2[1 + j] = <<c, h, s, SizeCode, 1, 1>>[j]
      /\ s4[1] = 251 /\ s5[1] = 1 /\ s5[2] = 1
  OBVIOUS
<1> HIDE DEF s0, s1, s2, s3, s4, s5
<1> DEFINE q1 == s0 \o s1
<1>7. /\ q1 \in Seq(Byte) /\ Len(q1) = IdMark
      /\ \A i \in 1..(SyncLength) : q1[i] = s0[i]
      /\ \A i \in 1..PrefixLength : q1[SyncLength + i] = s1[i]
  <2>1. /\ q1 \in Seq(Byte) /\ Len(q1) = Len(s0) + Len(s1)
        /\ \A i \in 1..Len(s0) : q1[i] = s0[i]
        /\ \A i \in 1..Len(s1) : q1[Len(s0) + i] = s1[i]
    BY <1>1, Appended
  <2> HIDE DEF q1
  <2>2. Len(s0) = SyncLength /\ Len(s1) = PrefixLength BY <1>1
  <2>3. SyncLength + PrefixLength = IdMark BY MarkPlaces, Numbers DEF IdMark, DataPrefix, DataMark
  <2>4. Len(q1) = IdMark BY <2>1, <2>2, <2>3
  <2> QED BY <2>1, <2>2, <2>4
<1> HIDE DEF q1
<1> DEFINE q2 == q1 \o s2
<1>8. /\ q2 \in Seq(Byte) /\ Len(q2) = IdMark + 7
      /\ \A i \in 1..(IdMark) : q2[i] = q1[i]
      /\ \A i \in 1..7 : q2[IdMark + i] = s2[i]
  <2>1. /\ q2 \in Seq(Byte) /\ Len(q2) = Len(q1) + Len(s2)
        /\ \A i \in 1..Len(q1) : q2[i] = q1[i]
        /\ \A i \in 1..Len(s2) : q2[Len(q1) + i] = s2[i]
    BY <1>7, <1>2, Appended
  <2> HIDE DEF q2
  <2>2. Len(q1) = IdMark /\ Len(s2) = 7 BY <1>7, <1>2
  <2>3. IdMark + 7 = IdMark + 7 BY MarkPlaces, Numbers DEF IdMark, DataPrefix, DataMark
  <2>4. Len(q2) = IdMark + 7 BY <2>1, <2>2, <2>3
  <2> QED BY <2>1, <2>2, <2>4
<1> HIDE DEF q2
<1> DEFINE q3 == q2 \o s3
<1>9. /\ q3 \in Seq(Byte) /\ Len(q3) = IdMark + 7 + GapLength
      /\ \A i \in 1..(IdMark + 7) : q3[i] = q2[i]
      /\ \A i \in 1..GapLength : q3[IdMark + 7 + i] = s3[i]
  <2>1. /\ q3 \in Seq(Byte) /\ Len(q3) = Len(q2) + Len(s3)
        /\ \A i \in 1..Len(q2) : q3[i] = q2[i]
        /\ \A i \in 1..Len(s3) : q3[Len(q2) + i] = s3[i]
    BY <1>8, <1>1, Appended
  <2> HIDE DEF q3
  <2>2. Len(q2) = IdMark + 7 /\ Len(s3) = GapLength BY <1>8, <1>1
  <2>3. IdMark + 7 + GapLength = IdMark + 7 + GapLength
    BY MarkPlaces, Numbers DEF IdMark, DataPrefix, DataMark
  <2>4. Len(q3) = IdMark + 7 + GapLength BY <2>1, <2>2, <2>3
  <2> QED BY <2>1, <2>2, <2>4
<1> HIDE DEF q3
<1> DEFINE q4 == q3 \o s0
<1>10. /\ q4 \in Seq(Byte) /\ Len(q4) = DataPrefix
       /\ \A i \in 1..(IdMark + 7 + GapLength) : q4[i] = q3[i]
       /\ \A i \in 1..SyncLength : q4[IdMark + 7 + GapLength + i] = s0[i]
  <2>1. /\ q4 \in Seq(Byte) /\ Len(q4) = Len(q3) + Len(s0)
        /\ \A i \in 1..Len(q3) : q4[i] = q3[i]
        /\ \A i \in 1..Len(s0) : q4[Len(q3) + i] = s0[i]
    BY <1>9, <1>1, Appended
  <2> HIDE DEF q4
  <2>2. Len(q3) = IdMark + 7 + GapLength /\ Len(s0) = SyncLength BY <1>9, <1>1
  <2>3. IdMark + 7 + GapLength + SyncLength = DataPrefix
    BY MarkPlaces, Numbers DEF IdMark, DataPrefix, DataMark
  <2>4. Len(q4) = DataPrefix BY <2>1, <2>2, <2>3
  <2> QED BY <2>1, <2>2, <2>4
<1> HIDE DEF q4
<1> DEFINE q5 == q4 \o s1
<1>11. /\ q5 \in Seq(Byte) /\ Len(q5) = DataMark
       /\ \A i \in 1..DataPrefix : q5[i] = q4[i]
       /\ \A i \in 1..PrefixLength : q5[DataPrefix + i] = s1[i]
  <2>1. /\ q5 \in Seq(Byte) /\ Len(q5) = Len(q4) + Len(s1)
        /\ \A i \in 1..Len(q4) : q5[i] = q4[i]
        /\ \A i \in 1..Len(s1) : q5[Len(q4) + i] = s1[i]
    BY <1>10, <1>1, Appended
  <2> HIDE DEF q5
  <2>2. Len(q4) = DataPrefix /\ Len(s1) = PrefixLength BY <1>10, <1>1
  <2>3. DataPrefix + PrefixLength = DataMark BY MarkPlaces, Numbers DEF IdMark, DataPrefix, DataMark
  <2>4. Len(q5) = DataMark BY <2>1, <2>2, <2>3
  <2> QED BY <2>1, <2>2, <2>4
<1> HIDE DEF q5
<1> DEFINE q6 == q5 \o s4
<1>12. /\ q6 \in Seq(Byte) /\ Len(q6) = DataMark + 1
       /\ \A i \in 1..DataMark : q6[i] = q5[i]
       /\ \A i \in 1..1 : q6[DataMark + i] = s4[i]
  <2>1. /\ q6 \in Seq(Byte) /\ Len(q6) = Len(q5) + Len(s4)
        /\ \A i \in 1..Len(q5) : q6[i] = q5[i]
        /\ \A i \in 1..Len(s4) : q6[Len(q5) + i] = s4[i]
    BY <1>11, <1>3, Appended
  <2> HIDE DEF q6
  <2>2. Len(q5) = DataMark /\ Len(s4) = 1 BY <1>11, <1>3
  <2>3. DataMark + 1 = DataMark + 1 BY MarkPlaces, Numbers DEF IdMark, DataPrefix, DataMark
  <2>4. Len(q6) = DataMark + 1 BY <2>1, <2>2, <2>3
  <2> QED BY <2>1, <2>2, <2>4
<1> HIDE DEF q6
<1> DEFINE q7 == q6 \o payload
<1>13. /\ q7 \in Seq(Byte) /\ Len(q7) = DataMark + 1 + SectorLength
       /\ \A i \in 1..(DataMark + 1) : q7[i] = q6[i]
       /\ \A i \in 1..SectorLength : q7[DataMark + 1 + i] = payload[i]
  <2>1. /\ q7 \in Seq(Byte) /\ Len(q7) = Len(q6) + Len(payload)
        /\ \A i \in 1..Len(q6) : q7[i] = q6[i]
        /\ \A i \in 1..Len(payload) : q7[Len(q6) + i] = payload[i]
    BY <1>12, <1>4, Appended
  <2> HIDE DEF q7
  <2>2. Len(q6) = DataMark + 1 /\ Len(payload) = SectorLength BY <1>12, <1>4
  <2>3. DataMark + 1 + SectorLength = DataMark + 1 + SectorLength
    BY MarkPlaces, Numbers DEF IdMark, DataPrefix, DataMark
  <2>4. Len(q7) = DataMark + 1 + SectorLength BY <2>1, <2>2, <2>3
  <2> QED BY <2>1, <2>2, <2>4
<1> HIDE DEF q7
<1> DEFINE q8 == q7 \o s5
<1>14. /\ q8 \in Seq(Byte) /\ Len(q8) = DataMark + 3 + SectorLength
       /\ \A i \in 1..(DataMark + 1 + SectorLength) : q8[i] = q7[i]
       /\ \A i \in 1..2 : q8[DataMark + 1 + SectorLength + i] = s5[i]
  <2>1. /\ q8 \in Seq(Byte) /\ Len(q8) = Len(q7) + Len(s5)
        /\ \A i \in 1..Len(q7) : q8[i] = q7[i]
        /\ \A i \in 1..Len(s5) : q8[Len(q7) + i] = s5[i]
    BY <1>13, <1>3, Appended
  <2> HIDE DEF q8
  <2>2. Len(q7) = DataMark + 1 + SectorLength /\ Len(s5) = 2 BY <1>13, <1>3
  <2>3. DataMark + 1 + SectorLength + 2 = DataMark + 3 + SectorLength
    BY MarkPlaces, Numbers DEF IdMark, DataPrefix, DataMark
  <2>4. Len(q8) = DataMark + 3 + SectorLength BY <2>1, <2>2, <2>3
  <2> QED BY <2>1, <2>2, <2>4
<1> HIDE DEF q8
<1> DEFINE q9 == q8 \o s3
<1>15. /\ q9 \in Seq(Byte) /\ Len(q9) = SectorSpan
       /\ \A i \in 1..(DataMark + 3 + SectorLength) : q9[i] = q8[i]
       /\ \A i \in 1..GapLength : q9[DataMark + 3 + SectorLength + i] = s3[i]
  <2>1. /\ q9 \in Seq(Byte) /\ Len(q9) = Len(q8) + Len(s3)
        /\ \A i \in 1..Len(q8) : q9[i] = q8[i]
        /\ \A i \in 1..Len(s3) : q9[Len(q8) + i] = s3[i]
    BY <1>14, <1>1, Appended
  <2> HIDE DEF q9
  <2>2. Len(q8) = DataMark + 3 + SectorLength /\ Len(s3) = GapLength BY <1>14, <1>1
  <2>3. DataMark + 3 + SectorLength + GapLength = SectorSpan
    BY MarkPlaces, Numbers DEF IdMark, DataPrefix, DataMark
  <2>4. Len(q9) = SectorSpan BY <2>1, <2>2, <2>3
  <2> QED BY <2>1, <2>2, <2>4
<1> HIDE DEF q9
<1>16. SectorBytes(payload, c, h, s) = q9
  BY DEF SectorBytes, q1, q2, q3, q4, q5, q6, q7, q8, q9, s0, s1, s2, s3, s4, s5
<1>17. \A i \in 1..(DataMark + 3 + SectorLength) : q9[i] = q8[i] BY <1>15
<1>18. \A i \in 1..(DataMark + 1 + SectorLength) : q9[i] = q7[i]
  <2> SUFFICES ASSUME NEW i \in 1..(DataMark + 1 + SectorLength) PROVE q9[i] = q7[i] OBVIOUS
  <2>1. i \in 1..(DataMark + 3 + SectorLength) BY MarkPlaces, Numbers DEF IdMark, DataPrefix
  <2> QED BY <2>1, <1>17, <1>14
<1>19. \A i \in 1..(DataMark + 1) : q9[i] = q6[i]
  <2> SUFFICES ASSUME NEW i \in 1..(DataMark + 1) PROVE q9[i] = q6[i] OBVIOUS
  <2>1. i \in 1..(DataMark + 1 + SectorLength) BY MarkPlaces, Numbers DEF IdMark, DataPrefix
  <2> QED BY <2>1, <1>18, <1>13
<1>20. \A i \in 1..DataMark : q9[i] = q5[i]
  <2> SUFFICES ASSUME NEW i \in 1..DataMark PROVE q9[i] = q5[i] OBVIOUS
  <2>1. i \in 1..(DataMark + 1) BY MarkPlaces, Numbers DEF IdMark, DataPrefix
  <2> QED BY <2>1, <1>19, <1>12
<1>21. \A i \in 1..DataPrefix : q9[i] = q4[i]
  <2> SUFFICES ASSUME NEW i \in 1..DataPrefix PROVE q9[i] = q4[i] OBVIOUS
  <2>1. i \in 1..DataMark BY MarkPlaces, Numbers DEF IdMark, DataPrefix
  <2> QED BY <2>1, <1>20, <1>11
<1>22. \A i \in 1..(IdMark + 7 + GapLength) : q9[i] = q3[i]
  <2> SUFFICES ASSUME NEW i \in 1..(IdMark + 7 + GapLength) PROVE q9[i] = q3[i] OBVIOUS
  <2>1. i \in 1..DataPrefix BY MarkPlaces, Numbers DEF IdMark, DataPrefix
  <2> QED BY <2>1, <1>21, <1>10
<1>23. \A i \in 1..(IdMark + 7) : q9[i] = q2[i]
  <2> SUFFICES ASSUME NEW i \in 1..(IdMark + 7) PROVE q9[i] = q2[i] OBVIOUS
  <2>1. i \in 1..(IdMark + 7 + GapLength) BY MarkPlaces, Numbers DEF IdMark, DataPrefix
  <2> QED BY <2>1, <1>22, <1>9
<1>24. \A i \in 1..(IdMark) : q9[i] = q1[i]
  <2> SUFFICES ASSUME NEW i \in 1..(IdMark) PROVE q9[i] = q1[i] OBVIOUS
  <2>1. i \in 1..(IdMark + 7) BY MarkPlaces, Numbers DEF IdMark, DataPrefix
  <2> QED BY <2>1, <1>23, <1>8
<1>25. \A i \in 1..(SyncLength) : q9[i] = s0[i]
  <2> SUFFICES ASSUME NEW i \in 1..(SyncLength) PROVE q9[i] = s0[i] OBVIOUS
  <2>1. i \in 1..(IdMark) BY MarkPlaces, Numbers DEF IdMark, DataPrefix
  <2> QED BY <2>1, <1>24, <1>7
<1>26. /\ \A i \in 1..PrefixLength : q9[SyncLength + i] = s1[i]
       /\ \A i \in 1..7 : q9[IdMark + i] = s2[i]
       /\ \A i \in 1..GapLength : q9[IdMark + 7 + i] = s3[i]
       /\ \A i \in 1..SyncLength : q9[IdMark + 7 + GapLength + i] = s0[i]
       /\ \A i \in 1..PrefixLength : q9[DataPrefix + i] = s1[i]
       /\ \A i \in 1..1 : q9[DataMark + i] = s4[i]
       /\ \A i \in 1..SectorLength : q9[DataMark + 1 + i] = payload[i]
       /\ \A i \in 1..2 : q9[DataMark + 1 + SectorLength + i] = s5[i]
       /\ \A i \in 1..GapLength : q9[DataMark + 3 + SectorLength + i] = s3[i]
  <2>1. \A i \in 1..PrefixLength : q9[SyncLength + i] = s1[i]
    <3> SUFFICES ASSUME NEW i \in 1..PrefixLength PROVE q9[SyncLength + i] = s1[i] OBVIOUS
    <3>1. SyncLength + i \in 1..(IdMark) BY MarkPlaces, Numbers DEF IdMark, DataPrefix, DataMark
    <3>2. q9[SyncLength + i] = q1[SyncLength + i] BY <3>1, <1>24
    <3>3. q1[SyncLength + i] = s1[i] BY <1>7
    <3> QED BY <3>2, <3>3
  <2>2. \A i \in 1..7 : q9[IdMark + i] = s2[i]
    <3> SUFFICES ASSUME NEW i \in 1..7 PROVE q9[IdMark + i] = s2[i] OBVIOUS
    <3>1. IdMark + i \in 1..(IdMark + 7) BY MarkPlaces, Numbers DEF IdMark, DataPrefix, DataMark
    <3>2. q9[IdMark + i] = q2[IdMark + i] BY <3>1, <1>23
    <3>3. q2[IdMark + i] = s2[i] BY <1>8
    <3> QED BY <3>2, <3>3
  <2>3. \A i \in 1..GapLength : q9[IdMark + 7 + i] = s3[i]
    <3> SUFFICES ASSUME NEW i \in 1..GapLength PROVE q9[IdMark + 7 + i] = s3[i] OBVIOUS
    <3>1. IdMark + 7 + i \in 1..(IdMark + 7 + GapLength)
      BY MarkPlaces, Numbers DEF IdMark, DataPrefix, DataMark
    <3>2. q9[IdMark + 7 + i] = q3[IdMark + 7 + i] BY <3>1, <1>22
    <3>3. q3[IdMark + 7 + i] = s3[i] BY <1>9
    <3> QED BY <3>2, <3>3
  <2>4. \A i \in 1..SyncLength : q9[IdMark + 7 + GapLength + i] = s0[i]
    <3> SUFFICES ASSUME NEW i \in 1..SyncLength PROVE q9[IdMark + 7 + GapLength + i] = s0[i] OBVIOUS
    <3>1. IdMark + 7 + GapLength + i \in 1..DataPrefix
      BY MarkPlaces, Numbers DEF IdMark, DataPrefix, DataMark
    <3>2. q9[IdMark + 7 + GapLength + i] = q4[IdMark + 7 + GapLength + i] BY <3>1, <1>21
    <3>3. q4[IdMark + 7 + GapLength + i] = s0[i] BY <1>10
    <3> QED BY <3>2, <3>3
  <2>5. \A i \in 1..PrefixLength : q9[DataPrefix + i] = s1[i]
    <3> SUFFICES ASSUME NEW i \in 1..PrefixLength PROVE q9[DataPrefix + i] = s1[i] OBVIOUS
    <3>1. DataPrefix + i \in 1..DataMark BY MarkPlaces, Numbers DEF IdMark, DataPrefix, DataMark
    <3>2. q9[DataPrefix + i] = q5[DataPrefix + i] BY <3>1, <1>20
    <3>3. q5[DataPrefix + i] = s1[i] BY <1>11
    <3> QED BY <3>2, <3>3
  <2>6. \A i \in 1..1 : q9[DataMark + i] = s4[i]
    <3> SUFFICES ASSUME NEW i \in 1..1 PROVE q9[DataMark + i] = s4[i] OBVIOUS
    <3>1. DataMark + i \in 1..(DataMark + 1) BY MarkPlaces, Numbers DEF IdMark, DataPrefix, DataMark
    <3>2. q9[DataMark + i] = q6[DataMark + i] BY <3>1, <1>19
    <3>3. q6[DataMark + i] = s4[i] BY <1>12
    <3> QED BY <3>2, <3>3
  <2>7. \A i \in 1..SectorLength : q9[DataMark + 1 + i] = payload[i]
    <3> SUFFICES ASSUME NEW i \in 1..SectorLength PROVE q9[DataMark + 1 + i] = payload[i] OBVIOUS
    <3>1. DataMark + 1 + i \in 1..(DataMark + 1 + SectorLength)
      BY MarkPlaces, Numbers DEF IdMark, DataPrefix, DataMark
    <3>2. q9[DataMark + 1 + i] = q7[DataMark + 1 + i] BY <3>1, <1>18
    <3>3. q7[DataMark + 1 + i] = payload[i] BY <1>13
    <3> QED BY <3>2, <3>3
  <2>8. \A i \in 1..2 : q9[DataMark + 1 + SectorLength + i] = s5[i]
    <3> SUFFICES ASSUME NEW i \in 1..2 PROVE q9[DataMark + 1 + SectorLength + i] = s5[i] OBVIOUS
    <3>1. DataMark + 1 + SectorLength + i \in 1..(DataMark + 3 + SectorLength)
      BY MarkPlaces, Numbers DEF IdMark, DataPrefix, DataMark
    <3>2. q9[DataMark + 1 + SectorLength + i] = q8[DataMark + 1 + SectorLength + i] BY <3>1, <1>17
    <3>3. q8[DataMark + 1 + SectorLength + i] = s5[i] BY <1>14
    <3> QED BY <3>2, <3>3
  <2>9. \A i \in 1..GapLength : q9[DataMark + 3 + SectorLength + i] = s3[i] BY <1>15
  <2> QED BY <2>1, <2>2, <2>3, <2>4, <2>5, <2>6, <2>7, <2>8, <2>9
<1>27. \A i \in 1..SyncLength : q9[i] = 0 BY <1>5, <1>25
<1>28. \A r \in 0..(SyncLength - 1) : q9[r + 1] = 0
  BY <1>27, Numbers
<1>29. \A r \in SyncLength..(IdMark - 1) : q9[r + 1] = 161
  <2> SUFFICES ASSUME NEW r \in SyncLength..(IdMark - 1) PROVE q9[r + 1] = 161 OBVIOUS
  <2> DEFINE i == r + 1 - SyncLength
  <2>1. i \in 1..PrefixLength /\ r + 1 = SyncLength + i
    BY MarkPlaces, Numbers DEF IdMark, DataPrefix, DataMark
  <2> HIDE DEF i
  <2>2. q9[SyncLength + i] = s1[i] BY <2>1, <1>26
  <2> QED BY <1>5, <2>1, <2>2
<1>30. q9[IdMark + 1] = 254
  BY <1>6, <1>26
<1>31. \A j \in 1..6 : q9[IdMark + j + 1] = <<c, h, s, SizeCode, 1, 1>>[j]
  <2> SUFFICES ASSUME NEW j \in 1..6 PROVE q9[IdMark + j + 1] = <<c, h, s, SizeCode, 1, 1>>[j] OBVIOUS
  <2>1. q9[IdMark + (1 + j)] = s2[1 + j] BY <1>26
  <2>2. IdMark + (1 + j) = IdMark + j + 1 BY MarkPlaces
  <2> QED BY <1>6, <2>1, <2>2
<1>32. \A r \in (IdMark + 7)..(IdMark + 6 + GapLength) : q9[r + 1] = 78
  <2> SUFFICES ASSUME NEW r \in (IdMark + 7)..(IdMark + 6 + GapLength) PROVE q9[r + 1] = 78 OBVIOUS
  <2> DEFINE i == r + 1 - (IdMark + 7)
  <2>1. i \in 1..GapLength /\ r + 1 = IdMark + 7 + i
    BY MarkPlaces, Numbers DEF IdMark, DataPrefix, DataMark
  <2> HIDE DEF i
  <2>2. q9[IdMark + 7 + i] = s3[i] BY <2>1, <1>26
  <2> QED BY <1>5, <2>1, <2>2
<1>33. \A r \in (IdMark + 7 + GapLength)..(DataPrefix - 1) : q9[r + 1] = 0
  <2> SUFFICES ASSUME NEW r \in (IdMark + 7 + GapLength)..(DataPrefix - 1) PROVE q9[r + 1] = 0 OBVIOUS
  <2> DEFINE i == r + 1 - (IdMark + 7 + GapLength)
  <2>1. i \in 1..SyncLength /\ r + 1 = IdMark + 7 + GapLength + i
    BY MarkPlaces, Numbers DEF IdMark, DataPrefix, DataMark
  <2> HIDE DEF i
  <2>2. q9[IdMark + 7 + GapLength + i] = s0[i] BY <2>1, <1>26
  <2> QED BY <1>5, <2>1, <2>2
<1>34. \A r \in DataPrefix..(DataMark - 1) : q9[r + 1] = 161
  <2> SUFFICES ASSUME NEW r \in DataPrefix..(DataMark - 1) PROVE q9[r + 1] = 161 OBVIOUS
  <2> DEFINE i == r + 1 - DataPrefix
  <2>1. i \in 1..PrefixLength /\ r + 1 = DataPrefix + i
    BY MarkPlaces, Numbers DEF IdMark, DataPrefix, DataMark
  <2> HIDE DEF i
  <2>2. q9[DataPrefix + i] = s1[i] BY <2>1, <1>26
  <2> QED BY <1>5, <2>1, <2>2
<1>35. q9[DataMark + 1] = 251
  BY <1>6, <1>26
<1>36. \A i \in 1..SectorLength : q9[DataMark + i + 1] = payload[i]
  <2> SUFFICES ASSUME NEW i \in 1..SectorLength PROVE q9[DataMark + i + 1] = payload[i] OBVIOUS
  <2>1. q9[DataMark + 1 + i] = payload[i] BY <1>26
  <2>2. DataMark + 1 + i = DataMark + i + 1 BY MarkPlaces, Numbers
  <2> QED BY <2>1, <2>2
<1>37. \A i \in 1..2 : q9[DataMark + SectorLength + i + 1] = 1
  <2> SUFFICES ASSUME NEW i \in 1..2 PROVE q9[DataMark + SectorLength + i + 1] = 1 OBVIOUS
  <2>1. q9[DataMark + 1 + SectorLength + i] = s5[i] BY <1>26
  <2>2. DataMark + 1 + SectorLength + i = DataMark + SectorLength + i + 1 BY MarkPlaces, Numbers
  <2>3. i = 1 \/ i = 2 OBVIOUS
  <2> QED BY <1>6, <2>1, <2>2, <2>3
<1>38. \A r \in (DataMark + SectorLength + 3)..(SectorSpan - 1) : q9[r + 1] = 78
  <2> SUFFICES ASSUME NEW r \in (DataMark + SectorLength + 3)..(SectorSpan - 1) PROVE q9[r + 1] = 78 OBVIOUS
  <2> DEFINE i == r + 1 - (DataMark + 3 + SectorLength)
  <2>1. i \in 1..GapLength /\ r + 1 = DataMark + 3 + SectorLength + i
    BY MarkPlaces, Numbers DEF IdMark, DataPrefix, DataMark
  <2> HIDE DEF i
  <2>2. q9[DataMark + 3 + SectorLength + i] = s3[i] BY <2>1, <1>26
  <2> QED BY <1>5, <2>1, <2>2
<1> QED
  BY <1>16, <1>28, <1>29, <1>30, <1>31, <1>32, <1>33, <1>34, <1>35, <1>36, <1>37, <1>38
  DEF LaidOut, InSector

\* Where a byte of a sector is on the track, and what it is.
LEMMA OnTrack ==
  ASSUME NEW s \in 1..Sectors, NEW r \in 0..(SectorSpan - 1)
  PROVE  /\ PlaceOf(s, r) \in HeaderLength..(TrackLength - 2)
         /\ \A image, c, h : FormattedByte(image, c, h, PlaceOf(s, r))
                               = InSector(image[<<c, h, s>>], c, h, s, r)
<1> DEFINE p == PlaceOf(s, r)
           q == (s - 1) * SectorSpan + r
<1>1. /\ SectorSpan \in Nat \ {0} /\ HeaderLength \in Nat \ {0} /\ s - 1 \in Nat /\ Sectors \in Nat
      /\ GapLength >= 1 /\ GapLength \in Nat
  BY Spans, Numbers
<1>2. q \div SectorSpan = s - 1 /\ q % SectorSpan = r BY <1>1, Divided
<1>3. (s - 1) * SectorSpan \in Nat BY <1>1
<1>4. q \in Nat /\ p = HeaderLength + q /\ p - HeaderLength = q BY <1>1, <1>3 DEF PlaceOf
<1>5. q < Sectors * SectorSpan
  <2>1. s * SectorSpan = (s - 1) * SectorSpan + SectorSpan BY <1>1
  <2>2. s * SectorSpan <= Sectors * SectorSpan BY <1>1
  <2>3. s * SectorSpan \in Nat /\ Sectors * SectorSpan \in Nat BY <1>1
  <2> QED BY <1>1, <1>3, <2>1, <2>2, <2>3
<1>6. Sectors * SectorSpan \in Nat BY <1>1
<1>7. p \in HeaderLength..(TrackLength - 2) BY <1>1, <1>4, <1>5, <1>6 DEF TrackLength
<1>8. ASSUME NEW image, NEW c, NEW h
      PROVE  FormattedByte(image, c, h, p) = InSector(image[<<c, h, s>>], c, h, s, r)
  <2>1. ~(q < 0) /\ ~(s > Sectors) /\ (s - 1) + 1 = s BY <1>1, <1>4
  <2> HIDE DEF p, q
  <2> QED BY <1>2, <1>4, <2>1 DEF FormattedByte, InSector
<1> QED BY <1>7, <1>8

\* Every byte is in the header, in a sector or behind the sectors.
LEMMA Located ==
  ASSUME NEW p \in 0..(TrackLength - 1)
  PROVE  \/ p < HeaderLength
         \/ \A image, c, h : FormattedByte(image, c, h, p) = 78
         \/ \E s \in 1..Sectors, r \in 0..(SectorSpan - 1) : p = PlaceOf(s, r)
<1> DEFINE q == p - HeaderLength
           e == q \div SectorSpan
           r == q % SectorSpan
<1>1. SectorSpan \in Nat \ {0} /\ HeaderLength \in Nat \ {0} /\ p \in Nat /\ Sectors \in Nat
  BY Spans, Numbers
<1> SUFFICES ASSUME ~(p < HeaderLength)
             PROVE  \/ \A image, c, h : FormattedByte(image, c, h, p) = 78
                    \/ \E s \in 1..Sectors, rr \in 0..(SectorSpan - 1) : p = PlaceOf(s, rr)
  OBVIOUS
<1>2. q \in Nat BY <1>1
<1>3. p = HeaderLength + q BY <1>1
<1> HIDE DEF q
<1>4. e \in Nat /\ r \in 0..(SectorSpan - 1) /\ q = e * SectorSpan + r BY <1>1, <1>2
<1>5. CASE e + 1 > Sectors
  <2>1. ~(q < 0) BY <1>2
  <2> QED BY <1>5, <2>1 DEF FormattedByte, q
<1>6. CASE ~(e + 1 > Sectors)
  <2> HIDE DEF e, r
  <2>1. e + 1 \in 1..Sectors BY <1>1, <1>4, <1>6
  <2>2. (e + 1) - 1 = e BY <1>4
  <2>3. e * SectorSpan \in Nat BY <1>1, <1>4
  <2>4. p = PlaceOf(e + 1, r) BY <1>1, <1>3, <1>4, <2>2, <2>3 DEF PlaceOf
  <2> QED BY <1>4, <2>1, <2>4
<1> QED BY <1>5, <1>6

\* The header has no byte of an ID mark.
LEMMA HeaderLayout ==
  ASSUME NEW p \in 0..(TrackLength - 1), p < HeaderLength, NEW image, NEW c, NEW h
  PROVE  FormattedByte(image, c, h, p) \in {0, 78, 194, 252}
<1> DEFINE s1 == Run(78, GapLength)
           s2 == Run(0, SyncLength)
           s3 == Run(194, PrefixLength)
           s4 == <<252>>
           V == {0, 78, 194, 252}
<1>1. GapLength \in Nat /\ SyncLength \in Nat /\ PrefixLength \in Nat BY Numbers
<1>2. s1 \in Seq(V) /\ Len(s1) = GapLength /\ s2 \in Seq(V) /\ s3 \in Seq(V) /\ s4 \in Seq(V)
  <2>1. s1 \in [1..GapLength -> V] /\ s2 \in [1..SyncLength -> V] /\ s3 \in [1..PrefixLength -> V]
    BY DEF Run
  <2>2. Len(s1) = GapLength BY <1>1 DEF Run
  <2> QED BY <1>1, <2>1, <2>2
<1>3. TrackHeader = s1 \o s2 \o s3 \o s4 \o s1 BY DEF TrackHeader, s1, s2, s3, s4
<1> HIDE DEF s1, s2, s3, s4, V
<1>4. TrackHeader \in Seq(V)
  <2>1. s1 \o s2 \in Seq(V) BY <1>2, ConcatProperties
  <2>2. s1 \o s2 \o s3 \in Seq(V) BY <1>2, <2>1, ConcatProperties
  <2>3. s1 \o s2 \o s3 \o s4 \in Seq(V) BY <1>2, <2>2, ConcatProperties
  <2> QED BY <1>2, <1>3, <2>3, ConcatProperties
<1>5. p + 1 \in 1..Len(TrackHeader) BY Spans, TrackHeaderBytes
<1>6. TrackHeader[p + 1] \in V BY <1>4, <1>5, ElementOfSeq
<1>7. p - HeaderLength < 0 BY Spans
<1> QED BY <1>6, <1>7 DEF FormattedByte, V

\* A payload in which no ID mark seems to begin.
Clean(payload) ==
  \A i \in (PrefixLength + 1)..SectorLength :
    ~(payload[i] = 254 /\ \A j \in 1..PrefixLength : payload[i - j] = 161)

\* Then what looks like the mark of an ID field is one.
LEMMA TrueMark ==
  ASSUME NEW image \in [Places -> [1..SectorLength -> Byte]],
         NEW c \in 0..(Cylinders - 1), NEW h \in 0..(Heads - 1),
         \A s \in 1..Sectors : Clean(image[<<c, h, s>>]),
         NEW p \in PrefixLength..(TrackLength - 1), FormattedByte(image, c, h, p) = 254,
         \A j \in 1..PrefixLength : FormattedByte(image, c, h, p - j) = 161
  PROVE  \E s \in 1..Sectors : p = PlaceOf(s, IdMark)
<1> DEFINE b(i) == FormattedByte(image, c, h, i)
<1>0. PrefixLength \in Nat /\ PrefixLength >= 1 /\ TrackLength \in Nat BY Numbers, Spans
<1>1. p \in 0..(TrackLength - 1) BY <1>0
<1>2. ~(p < HeaderLength) BY <1>1, HeaderLayout
<1>3. PICK s \in 1..Sectors, r \in 0..(SectorSpan - 1) : p = PlaceOf(s, r)
  BY <1>1, <1>2, Located
<1> DEFINE d == image[<<c, h, s>>]
           x(i) == InSector(d, c, h, s, i)
<1>4. s \in Byte /\ c \in Byte /\ h \in Byte /\ c <= 254 /\ h <= 1 /\ h >= 0 /\ c >= 0
  BY Numbers DEF Byte
<1>5. d \in [1..SectorLength -> Byte]
  <2>1. <<c, h, s>> \in Places BY DEF Places
  <2> QED BY <2>1
<1>6. \A i \in 0..(SectorSpan - 1) : b(PlaceOf(s, i)) = x(i) BY OnTrack
<1>7. /\ SectorSpan \in Nat /\ HeaderLength \in Nat /\ (s - 1) * SectorSpan \in Nat
      /\ SectorLength \in Nat /\ GapLength \in Nat
  BY Spans, Numbers
<1>8. \A j \in 1..PrefixLength : j <= r => x(r - j) = 161
  <2> SUFFICES ASSUME NEW j \in 1..PrefixLength, j <= r PROVE x(r - j) = 161 OBVIOUS
  <2>1. r - j \in 0..(SectorSpan - 1) BY <1>0, <1>7
  <2>2. PlaceOf(s, r - j) = p - j BY <1>0, <1>3, <1>7 DEF PlaceOf
  <2> QED BY <1>6, <2>1, <2>2
<1>9. x(r) = 254 BY <1>3, <1>6
<1>10. r >= 1 => x(r - 1) = 161
  <2>1. 1 \in 1..PrefixLength BY <1>0
  <2> HIDE DEF x
  <2> QED BY <1>8, <2>1
<1>11. Clean(d) OBVIOUS
<1> HIDE DEF d
<1>12. /\ \A i \in 0..(SyncLength - 1) : x(i) = 0
       /\ \A i \in SyncLength..(IdMark - 1) : x(i) = 161
       /\ x(IdMark) = 254
       /\ \A j \in 1..6 : x(IdMark + j) = <<c, h, s, SizeCode, 1, 1>>[j]
       /\ \A i \in (IdMark + 7)..(IdMark + 6 + GapLength) : x(i) = 78
       /\ \A i \in (IdMark + 7 + GapLength)..(DataPrefix - 1) : x(i) = 0
       /\ \A i \in DataPrefix..(DataMark - 1) : x(i) = 161
       /\ x(DataMark) = 251
       /\ \A i \in 1..SectorLength : x(DataMark + i) = d[i]
       /\ \A i \in 1..2 : x(DataMark + SectorLength + i) = 1
       /\ \A i \in (DataMark + SectorLength + 3)..(SectorSpan - 1) : x(i) = 78
  <2>1. LaidOut(d, c, h, s) BY <1>4, <1>5, SectorLayout
  <2> QED BY <2>1 DEF LaidOut
<1>13. SizeCode \in 0..4 BY SizeCodes
<1> HIDE DEF x, b
<1>14. /\ x(IdMark + 1) = c /\ x(IdMark + 2) = h /\ x(IdMark + 3) = s
       /\ x(IdMark + 4) = SizeCode /\ x(IdMark + 5) = 1 /\ x(IdMark + 6) = 1
  BY <1>12
<1>15. r < IdMark => x(r) = 0 \/ x(r) = 161
  <2>1. r < SyncLength \/ r >= SyncLength BY Numbers
  <2> QED BY <1>12, <2>1, MarkPlaces, Numbers
<1>16. r \notin (IdMark + 1)..(IdMark + 6)
  <2>1. r # IdMark + 1
    <3> SUFFICES ASSUME r = IdMark + 1 PROVE FALSE OBVIOUS
    <3>1. r >= 1 /\ r - 1 = IdMark BY MarkPlaces
    <3> QED BY <1>10, <1>12, <3>1
  <2>2. r # IdMark + 2 BY <1>4, <1>9, <1>14
  <2>3. r # IdMark + 3
    <3> SUFFICES ASSUME r = IdMark + 3 PROVE FALSE OBVIOUS
    <3>1. r >= 1 /\ r - 1 = IdMark + 2 BY MarkPlaces
    <3> QED BY <1>4, <1>10, <1>14, <3>1
  <2>4. r # IdMark + 4 /\ r # IdMark + 5 /\ r # IdMark + 6 BY <1>9, <1>13, <1>14
  <2> QED BY <2>1, <2>2, <2>3, <2>4, MarkPlaces
<1>17. r \notin (IdMark + 7)..DataMark
  <2>1. \A i \in (IdMark + 7)..(IdMark + 6 + GapLength) : r # i BY <1>9, <1>12
  <2>2. \A i \in (IdMark + 7 + GapLength)..(DataPrefix - 1) : r # i BY <1>9, <1>12
  <2>3. \A i \in DataPrefix..(DataMark - 1) : r # i BY <1>9, <1>12
  <2>4. r # DataMark BY <1>9, <1>12
  <2> QED BY <2>1, <2>2, <2>3, <2>4, <1>7, MarkPlaces DEF DataPrefix
<1>18. r \notin (DataMark + 1)..(DataMark + SectorLength)
  <2> SUFFICES ASSUME r \in (DataMark + 1)..(DataMark + SectorLength) PROVE FALSE OBVIOUS
  <2> DEFINE i == r - DataMark
  <2>1. i \in 1..SectorLength /\ DataMark + i = r /\ r - i = DataMark BY <1>7, MarkPlaces
  <2> HIDE DEF i
  <2>2. d[i] = 254 BY <1>9, <1>12, <2>1
  <2>3. i > PrefixLength
    <3> SUFFICES ASSUME i <= PrefixLength PROVE FALSE BY <1>0, <2>1
    <3>1. i \in 1..PrefixLength /\ i <= r BY <1>0, <2>1, MarkPlaces
    <3>2. x(DataMark) = 161 BY <1>8, <2>1, <3>1
    <3> QED BY <1>12, <3>2
  <2>4. \A j \in 1..PrefixLength : d[i - j] = 161
    <3> SUFFICES ASSUME NEW j \in 1..PrefixLength PROVE d[i - j] = 161 OBVIOUS
    <3>1. i - j \in 1..SectorLength /\ DataMark + (i - j) = r - j /\ j <= r
      BY <1>0, <1>7, <2>1, <2>3, MarkPlaces
    <3>2. x(DataMark + (i - j)) = d[i - j] BY <1>12, <3>1
    <3>3. x(r - j) = 161 BY <1>8, <3>1
    <3> QED BY <3>1, <3>2, <3>3
  <2>5. i \in (PrefixLength + 1)..SectorLength BY <1>0, <2>1, <2>3
  <2> QED BY <1>11, <2>2, <2>4, <2>5 DEF Clean
<1>19. r \notin (DataMark + SectorLength + 1)..(SectorSpan - 1)
  <2>1. \A i \in 1..2 : r # DataMark + SectorLength + i BY <1>9, <1>12
  <2>2. \A i \in (DataMark + SectorLength + 3)..(SectorSpan - 1) : r # i BY <1>9, <1>12
  <2>3. r # DataMark + SectorLength + 1 /\ r # DataMark + SectorLength + 2 BY <2>1
  <2> QED BY <2>2, <2>3, <1>7, MarkPlaces
<1>20. ~(r < IdMark) BY <1>9, <1>15
<1>21. r = IdMark BY <1>7, <1>16, <1>17, <1>18, <1>19, <1>20, MarkPlaces
<1> QED BY <1>3, <1>21

-----------------------------------------------------------------------------
(* What is under the head. *)

\* The track of the array under the head, and its bytes and ID fields.
Under(k) == 2 * k.head + k.sso
InArray(u) == u \in 0..(Cylinders * Heads - Clobbered - 1)
TrackByte(d, u, p) == FormattedByte(disk[d], u \div Heads, u % Heads, p)
IdField(u, s) == <<u \div Heads, u % Heads, s, SizeCode, 1, 1>>

\* Neither the data of a sector nor what is read outside the array looks like the
\* mark of an ID field, which the code would take for one.
NoFalseMarks == 254 \notin Junk /\ \A d \in Drives, x \in Places : Clean(disk[d][x])

\* The byte of a pulse is that under the head, or anything outside the array.
LEMMA BytesRead ==
  ASSUME NEW k, NEW junk
  PROVE  /\ InArray(Under(k)) => GetFDiskByte(k, junk) = TrackByte(k.loaded, Under(k), k.ptr)
         /\ ~InArray(Under(k)) => GetFDiskByte(k, junk) = junk
  BY DEF InArray, Under, GetFDiskByte, TrackByte

LEMMA UnderInt == ASSUME NEW k \in C PROVE Under(k) \in Int
<1>1. k.head \in Int /\ k.sso \in 0..1 BY Fields
<1> QED BY <1>1 DEF Under

\* A track of the array has a cylinder and a head.
LEMMA ArrayTracks ==
  ASSUME NEW u \in Int, InArray(u)
  PROVE  u \div Heads \in 0..(Cylinders - 1) /\ u % Heads \in 0..(Heads - 1)
<1>1. u >= 0 /\ u <= Cylinders * Heads - 1 BY Numbers DEF InArray
<1>2. CASE Heads = 1 BY <1>1, <1>2, Numbers
<1>3. CASE Heads = 2 BY <1>1, <1>3, Numbers
<1> QED BY <1>2, <1>3, Numbers

\* The bytes of a sector under the head, and the last of the track.
LEMMA SectorUnder ==
  ASSUME disk \in Images, NEW d \in Drives, NEW u \in Int, InArray(u), NEW s \in 1..Sectors
  PROVE  /\ \A r \in 0..(SectorSpan - 1) :
              TrackByte(d, u, PlaceOf(s, r))
                = InSector(disk[d][<<u \div Heads, u % Heads, s>>], u \div Heads, u % Heads, s, r)
         /\ LaidOut(disk[d][<<u \div Heads, u % Heads, s>>], u \div Heads, u % Heads, s)
<1> DEFINE c == u \div Heads
           h == u % Heads
<1>1. c \in 0..(Cylinders - 1) /\ h \in 0..(Heads - 1) BY ArrayTracks
<1>2. disk[d] \in [Places -> [1..SectorLength -> Byte]] BY DEF Images
<1> HIDE DEF c, h
<1>3. <<c, h, s>> \in Places BY <1>1 DEF Places
<1>4. disk[d][<<c, h, s>>] \in [1..SectorLength -> Byte] BY <1>2, <1>3
<1>5. c \in Byte /\ h \in Byte /\ s \in Byte BY <1>1, Numbers DEF Byte
<1>6. LaidOut(disk[d][<<c, h, s>>], c, h, s) BY <1>4, <1>5, SectorLayout
<1>7. \A r \in 0..(SectorSpan - 1) :
        TrackByte(d, u, PlaceOf(s, r)) = InSector(disk[d][<<c, h, s>>], c, h, s, r)
  BY OnTrack DEF TrackByte, c, h
<1> QED BY <1>6, <1>7 DEF c, h

\* The data of a sector, as the track shows it.
BytesOf(d, u, s) ==
  /\ \A j \in 1..6 : TrackByte(d, u, PlaceOf(s, IdMark + j)) = IdField(u, s)[j]
  /\ \A r \in (IdMark + 7)..(DataPrefix - 1) : TrackByte(d, u, PlaceOf(s, r)) \in {0, 78}
  /\ \A r \in DataPrefix..(DataMark - 1) : TrackByte(d, u, PlaceOf(s, r)) = 161
  /\ TrackByte(d, u, PlaceOf(s, DataMark)) = 251
  /\ \A i \in 1..SectorLength :
       TrackByte(d, u, PlaceOf(s, DataMark + i)) = disk[d][<<u \div Heads, u % Heads, s>>][i]

LEMMA BytesUnder ==
  ASSUME disk \in Images, NEW d \in Drives, NEW u \in Int, InArray(u), NEW s \in 1..Sectors
  PROVE  BytesOf(d, u, s)
<1> DEFINE c == u \div Heads
           h == u % Heads
           a == disk[d][<<c, h, s>>]
           x(r) == InSector(a, c, h, s, r)
           y(r) == TrackByte(d, u, PlaceOf(s, r))
<1>1. \A r \in 0..(SectorSpan - 1) : y(r) = x(r) BY SectorUnder
<1>2. LaidOut(a, c, h, s) BY SectorUnder
<1>3. IdField(u, s) = <<c, h, s, SizeCode, 1, 1>> BY DEF IdField
<1> HIDE DEF a, c, h
<1>4. /\ \A j \in 1..6 : x(IdMark + j) = <<c, h, s, SizeCode, 1, 1>>[j]
      /\ \A r \in (IdMark + 7)..(IdMark + 6 + GapLength) : x(r) = 78
      /\ \A r \in (IdMark + 7 + GapLength)..(DataPrefix - 1) : x(r) = 0
      /\ \A r \in DataPrefix..(DataMark - 1) : x(r) = 161
      /\ x(DataMark) = 251
      /\ \A i \in 1..SectorLength : x(DataMark + i) = a[i]
  BY <1>2 DEF LaidOut
<1>5. SectorLength \in Nat /\ GapLength \in Nat /\ SectorLength >= 1 BY Numbers
<1> HIDE DEF x, y
<1>6. \A j \in 1..6 : y(IdMark + j) = IdField(u, s)[j]
  <2> SUFFICES ASSUME NEW j \in 1..6 PROVE y(IdMark + j) = IdField(u, s)[j] OBVIOUS
  <2>1. IdMark + j \in 0..(SectorSpan - 1) BY <1>5, MarkPlaces
  <2> QED BY <1>1, <1>3, <1>4, <2>1
<1>7. \A r \in (IdMark + 7)..(DataPrefix - 1) : y(r) \in {0, 78}
  <2> SUFFICES ASSUME NEW r \in (IdMark + 7)..(DataPrefix - 1) PROVE y(r) \in {0, 78} OBVIOUS
  <2>1. r \in 0..(SectorSpan - 1) BY <1>5, MarkPlaces
  <2>2. r \in (IdMark + 7)..(IdMark + 6 + GapLength) \/ r \in (IdMark + 7 + GapLength)..(DataPrefix - 1)
    BY <1>5, MarkPlaces
  <2> QED BY <1>1, <1>4, <2>1, <2>2
<1>8. \A r \in DataPrefix..(DataMark - 1) : y(r) = 161
  <2> SUFFICES ASSUME NEW r \in DataPrefix..(DataMark - 1) PROVE y(r) = 161 OBVIOUS
  <2>1. r \in 0..(SectorSpan - 1) BY <1>5, MarkPlaces
  <2> QED BY <1>1, <1>4, <2>1
<1>9. y(DataMark) = 251
  <2>1. DataMark \in 0..(SectorSpan - 1) BY <1>5, MarkPlaces
  <2> QED BY <1>1, <1>4, <2>1
<1>10. \A i \in 1..SectorLength : y(DataMark + i) = a[i]
  <2> SUFFICES ASSUME NEW i \in 1..SectorLength PROVE y(DataMark + i) = a[i] OBVIOUS
  <2>1. DataMark + i \in 0..(SectorSpan - 1) BY <1>5, MarkPlaces
  <2> QED BY <1>1, <1>4, <2>1
<1> QED BY <1>6, <1>7, <1>8, <1>9, <1>10 DEF BytesOf, y, a, c, h

LEMMA LastByte ==
  ASSUME NEW d, NEW u PROVE TrackByte(d, u, TrackLength - 1) = 78
<1> DEFINE p == TrackLength - 1
<1>1. p \in 0..(TrackLength - 1) /\ ~(p < HeaderLength)
  <2>1. SectorSpan \in Nat /\ Sectors \in Nat /\ GapLength \in Nat /\ GapLength >= 1 BY Spans, Numbers
  <2>2. Sectors * SectorSpan \in Nat BY <2>1
  <2> QED BY <2>1, <2>2, Spans DEF TrackLength
<1>2. ~\E s \in 1..Sectors, r \in 0..(SectorSpan - 1) : p = PlaceOf(s, r)
  <2> SUFFICES ASSUME NEW s \in 1..Sectors, NEW r \in 0..(SectorSpan - 1), p = PlaceOf(s, r)
               PROVE  FALSE
    OBVIOUS
  <2>1. PlaceOf(s, r) \in HeaderLength..(TrackLength - 2) BY OnTrack
  <2> QED BY <2>1, Spans
<1>3. \A image, c, h : FormattedByte(image, c, h, p) = 78 BY <1>1, <1>2, Located
<1> QED BY <1>3 DEF TrackByte

\* A mark on the disk that looks like that of an ID field is one.
LEMMA MarkUnder ==
  ASSUME disk \in Images, NoFalseMarks, NEW d \in Drives, NEW u \in Int, InArray(u),
         NEW p \in PrefixLength..(TrackLength - 1), TrackByte(d, u, p) = 254,
         \A j \in 1..PrefixLength : TrackByte(d, u, p - j) = 161
  PROVE  \E s \in 1..Sectors : p = PlaceOf(s, IdMark)
<1> DEFINE c == u \div Heads
           h == u % Heads
<1>1. c \in 0..(Cylinders - 1) /\ h \in 0..(Heads - 1) BY ArrayTracks
<1>2. disk[d] \in [Places -> [1..SectorLength -> Byte]] BY DEF Images
<1>3. \A s \in 1..Sectors : Clean(disk[d][<<c, h, s>>])
  <2> SUFFICES ASSUME NEW s \in 1..Sectors PROVE Clean(disk[d][<<c, h, s>>]) OBVIOUS
  <2> HIDE DEF c, h
  <2>1. <<c, h, s>> \in Places BY <1>1 DEF Places
  <2> QED BY <2>1 DEF NoFalseMarks
<1>4. FormattedByte(disk[d], c, h, p) = 254 BY DEF TrackByte
<1>5. \A j \in 1..PrefixLength : FormattedByte(disk[d], c, h, p - j) = 161 BY DEF TrackByte
<1> HIDE DEF c, h
<1> QED BY <1>1, <1>2, <1>3, <1>4, <1>5, TrueMark

-----------------------------------------------------------------------------
(* Where a search is. *)

\* Nothing but the prefix of a mark has been seen so far, in the bytes up to p.
Prefixed(d, u, f, p) ==
  /\ f.pt = 0 /\ f.full = FALSE /\ (f.zeros < ZeroRun => f.a1s = 0)
  /\ InArray(u) /\ f.a1s > 0 =>
       f.a1s <= p + 1 /\ \A j \in 0..(f.a1s - 1) : TrackByte(d, u, p - j) = 161

\* The mark is that of a sector, and the bytes collected are those behind it.
Collected(u, f, i, p) ==
  /\ InArray(u) /\ (f.full => f.pt = 6)
  /\ \E s \in 1..Sectors :
       /\ p = PlaceOf(s, IdMark + f.pt + IF f.full THEN 1 ELSE 0)
       /\ \A j \in 1..f.pt : i[j] = IdField(u, s)[j]

\* What the search for an ID field has seen up to p.
Sighted(d, u, f, i, p) == IF f.found THEN Collected(u, f, i, p) ELSE Prefixed(d, u, f, p)

\* What a byte of the search for a mark does.
Looked(f, g, b) ==
  /\ g.pt = f.pt /\ g.full = f.full /\ (g.zeros < ZeroRun => g.a1s = 0)
  /\ \/ ~g.found /\ g.a1s = 0
     \/ ~g.found /\ g.a1s = f.a1s + 1 /\ b = 161
     \/ g.found /\ f.a1s = PrefixLength /\ b = 254

LEMMA NextPlace ==
  ASSUME NEW p \in 0..(TrackLength - 1), NEW q, q = (p + 1) % TrackLength
  PROVE  /\ q \in 0..(TrackLength - 1)
         /\ p = TrackLength - 1 => q = 0
         /\ p # TrackLength - 1 => q = p + 1
<1>1. TrackLength \in Nat \ {0} BY Spans
<1>2. CASE p = TrackLength - 1 BY <1>1, <1>2
<1>3. CASE p # TrackLength - 1
  <2>1. p + 1 \in 0..(TrackLength - 1) BY <1>1, <1>3
  <2> QED BY <1>1, <1>3, <2>1
<1> QED BY <1>2, <1>3

LEMMA LookedSighted ==
  ASSUME disk \in Images, NoFalseMarks, NEW d \in Drives, NEW u \in Int,
         NEW p \in 0..(TrackLength - 1), NEW q, q = (p + 1) % TrackLength,
         NEW b, InArray(u) => b = TrackByte(d, u, q), ~InArray(u) => b # 254,
         NEW f \in Finds, NEW g \in Finds, Prefixed(d, u, f, p), Looked(f, g, b), NEW i
  PROVE  Sighted(d, u, g, i, q)
<1>1. f.a1s \in 0..PrefixLength /\ g.a1s \in 0..PrefixLength BY DEF Finds
<1>2. /\ q \in 0..(TrackLength - 1)
      /\ p = TrackLength - 1 => q = 0
      /\ p # TrackLength - 1 => q = p + 1
  BY NextPlace
<1>3. PrefixLength \in Nat /\ PrefixLength >= 1 /\ TrackLength \in Nat BY Numbers, Spans
<1>4. g.pt = 0 /\ g.full = FALSE /\ (g.zeros < ZeroRun => g.a1s = 0) BY DEF Prefixed, Looked
<1>5. CASE ~g.found /\ g.a1s = 0 BY <1>4, <1>5 DEF Sighted, Prefixed
<1>6. ASSUME InArray(u), f.a1s > 0
      PROVE  p # TrackLength - 1 /\ f.a1s <= q /\ \A j \in 1..f.a1s : TrackByte(d, u, q - j) = 161
  <2>1. f.a1s <= p + 1 /\ \A j \in 0..(f.a1s - 1) : TrackByte(d, u, p - j) = 161
    BY <1>6 DEF Prefixed
  <2>2. TrackByte(d, u, p) = 161
    <3>1. 0 \in 0..(f.a1s - 1) /\ p - 0 = p BY <1>1, <1>3, <1>6
    <3>2. TrackByte(d, u, p - 0) = 161 BY <2>1, <3>1
    <3> QED BY <3>1, <3>2
  <2>3. p # TrackLength - 1 BY <2>2, LastByte
  <2>4. ASSUME NEW j \in 1..f.a1s PROVE TrackByte(d, u, q - j) = 161
    <3>1. j - 1 \in 0..(f.a1s - 1) /\ p - (j - 1) = q - j BY <1>1, <1>2, <1>3, <2>3
    <3> QED BY <2>1, <3>1
  <2> QED BY <1>2, <2>1, <2>3, <2>4
<1>7. CASE ~g.found /\ g.a1s = f.a1s + 1 /\ b = 161
  <2> SUFFICES ASSUME InArray(u)
               PROVE  g.a1s <= q + 1 /\ \A j \in 0..(g.a1s - 1) : TrackByte(d, u, q - j) = 161
    BY <1>4, <1>7 DEF Sighted, Prefixed
  <2>1. TrackByte(d, u, q) = 161 BY <1>7
  <2>2. CASE f.a1s = 0
    <3>1. g.a1s = 1 BY <1>7, <2>2
    <3>2. \A j \in 0..0 : q - j = q BY <1>2, <1>3
    <3> QED BY <1>2, <1>3, <2>1, <3>1, <3>2
  <2>3. CASE f.a1s # 0
    <3>1. f.a1s > 0 BY <1>1, <1>3, <2>3
    <3>2. f.a1s <= q /\ \A j \in 1..f.a1s : TrackByte(d, u, q - j) = 161 BY <1>6, <3>1
    <3>3. g.a1s <= q + 1 BY <1>1, <1>2, <1>3, <1>7, <3>2
    <3>4. ASSUME NEW j \in 0..(g.a1s - 1) PROVE TrackByte(d, u, q - j) = 161
      <4>1. j = 0 \/ j \in 1..f.a1s BY <1>1, <1>3, <1>7
      <4>2. q - 0 = q BY <1>2, <1>3
      <4> QED BY <2>1, <3>2, <4>1, <4>2
    <3> QED BY <3>3, <3>4
  <2> QED BY <2>2, <2>3
<1>8. CASE g.found /\ f.a1s = PrefixLength /\ b = 254
  <2>1. InArray(u) /\ f.a1s > 0 BY <1>3, <1>8
  <2>2. f.a1s <= q /\ \A j \in 1..f.a1s : TrackByte(d, u, q - j) = 161 BY <1>6, <2>1
  <2>3. q \in PrefixLength..(TrackLength - 1) BY <1>2, <1>3, <1>8, <2>2
  <2>4. TrackByte(d, u, q) = 254 BY <1>8, <2>1
  <2>5. PICK s \in 1..Sectors : q = PlaceOf(s, IdMark)
    BY <1>8, <2>1, <2>2, <2>3, <2>4, MarkUnder
  <2>6. IdMark + 0 + 0 = IdMark BY MarkPlaces
  <2>7. q = PlaceOf(s, IdMark + g.pt + IF g.full THEN 1 ELSE 0) BY <1>4, <2>5, <2>6
  <2>8. \A j \in 1..g.pt : i[j] = IdField(u, s)[j] BY <1>4
  <2>9. Collected(u, g, i, q) BY <1>4, <2>1, <2>7, <2>8 DEF Collected
  <2> QED BY <1>8, <2>9 DEF Sighted
<1> QED BY <1>5, <1>7, <1>8 DEF Looked

\* What a byte of the field does.
Gained(f, g, i, m, b) ==
  /\ g.found
  /\ IF f.pt < 6 THEN g.pt = f.pt + 1 /\ g.full = f.full /\ m = [i EXCEPT ![f.pt + 1] = b]
     ELSE g.pt = f.pt /\ g.full = TRUE /\ m = i

\* The place behind a place in a sector.
\* The place that follows, inside a sector.
LEMMA NextInSector ==
  ASSUME NEW s \in 1..Sectors, NEW r \in 0..(SectorSpan - 1), NEW p, p = PlaceOf(s, r),
         NEW q, q = (p + 1) % TrackLength
  PROVE  p \in 0..(TrackLength - 1) /\ q = PlaceOf(s, r + 1)
<1>1. p \in HeaderLength..(TrackLength - 2) BY OnTrack
<1>2. TrackLength \in Nat \ {0} /\ HeaderLength \in Nat /\ SectorSpan \in Nat BY Spans
<1>3. p \in 0..(TrackLength - 1) /\ p # TrackLength - 1 BY <1>1, <1>2
<1>4. q = p + 1 BY <1>3, NextPlace
<1>5. (s - 1) * SectorSpan \in Int BY <1>2
<1> QED BY <1>2, <1>3, <1>4, <1>5 DEF PlaceOf

LEMMA GainedSighted ==
  ASSUME disk \in Images, NEW d \in Drives, NEW u \in Int,
         NEW p, NEW q, q = (p + 1) % TrackLength,
         NEW b, InArray(u) => b = TrackByte(d, u, q),
         NEW f \in Finds, NEW g \in Finds, ~f.full, NEW i \in [1..6 -> Byte], NEW m,
         Collected(u, f, i, p), Gained(f, g, i, m, b)
  PROVE  Sighted(d, u, g, m, q)
<1>1. f.pt \in 0..6 /\ f.full = FALSE BY DEF Finds, Flag
<1>2. InArray(u) /\ b = TrackByte(d, u, q) BY DEF Collected
<1>3. PICK s \in 1..Sectors :
        /\ p = PlaceOf(s, IdMark + f.pt + 0)
        /\ \A j \in 1..f.pt : i[j] = IdField(u, s)[j]
  BY <1>1 DEF Collected
<1>4. p = PlaceOf(s, IdMark + f.pt) BY <1>1, <1>3, MarkPlaces
<1>5. IdMark + f.pt \in 0..(SectorSpan - 1) BY <1>1, MarkPlaces, Numbers
<1>6. q = PlaceOf(s, IdMark + f.pt + 1) BY <1>4, <1>5, NextInSector
<1>7. CASE f.pt < 6
  <2>1. g.pt = f.pt + 1 /\ g.full = FALSE /\ m = [i EXCEPT ![f.pt + 1] = b] /\ g.found
    BY <1>1, <1>7 DEF Gained
  <2>2. f.pt + 1 \in 1..6 BY <1>1, <1>7
  <2>3. IdMark + (f.pt + 1) = IdMark + f.pt + 1 BY <1>1, MarkPlaces
  <2>4. b = IdField(u, s)[f.pt + 1]
    <3>1. \A j \in 1..6 : TrackByte(d, u, PlaceOf(s, IdMark + j)) = IdField(u, s)[j]
      <4>1. BytesOf(d, u, s) BY <1>2, BytesUnder
      <4> QED BY <4>1 DEF BytesOf
    <3>2. TrackByte(d, u, PlaceOf(s, IdMark + (f.pt + 1))) = IdField(u, s)[f.pt + 1]
      BY <2>2, <3>1
    <3> QED BY <1>2, <1>6, <2>3, <3>2
  <2>5. ASSUME NEW j \in 1..g.pt PROVE m[j] = IdField(u, s)[j]
    <3>1. j \in 1..6 /\ (j = f.pt + 1 \/ (j # f.pt + 1 /\ j \in 1..f.pt)) BY <1>1, <2>1, <2>2
    <3>2. j = f.pt + 1 => m[j] = b BY <2>1, <3>1
    <3>3. j # f.pt + 1 => m[j] = i[j] BY <2>1, <3>1
    <3> QED BY <1>3, <2>4, <3>1, <3>2, <3>3
  <2>6. IdMark + f.pt + 1 = IdMark + g.pt + 0 BY <1>1, <2>1, MarkPlaces
  <2>7. q = PlaceOf(s, IdMark + g.pt + IF g.full THEN 1 ELSE 0) BY <1>6, <2>1, <2>6
  <2>8. Collected(u, g, m, q) BY <1>2, <2>1, <2>5, <2>7 DEF Collected
  <2> QED BY <2>1, <2>8 DEF Sighted
<1>8. CASE ~(f.pt < 6)
  <2>1. f.pt = 6 BY <1>1, <1>8
  <2>2. g.pt = 6 /\ g.full = TRUE /\ m = i /\ g.found BY <1>8, <2>1 DEF Gained
  <2>3. q = PlaceOf(s, IdMark + g.pt + IF g.full THEN 1 ELSE 0) BY <1>6, <2>1, <2>2
  <2>4. \A j \in 1..g.pt : m[j] = IdField(u, s)[j] BY <1>3, <2>1, <2>2
  <2>5. Collected(u, g, m, q) BY <1>2, <2>2, <2>3, <2>4 DEF Collected
  <2> QED BY <2>2, <2>5 DEF Sighted
<1> QED BY <1>7, <1>8

\* No byte goes by unseen: the head is loaded and settled, the delays are over.
Steady(k) ==
  /\ k.hlt
  /\ k.type = 1 => k.acted /\ k.settled /\ (k.hld \/ ~k.delayed)
  /\ k.type = 2 => ~EWaits(k)

\* A search whose last byte was that at p.
Seen(k, p) ==
  /\ Sighted(k.loaded, Under(k), k.find, k.id, p)
  /\ k.find.a1s > 0 \/ k.find.found => Steady(k)

\* What leaves a command where it stands, its search where it is, and what it
\* has found as it is.
Stands(k, l) ==
  /\ l \in C
  /\ l.type = k.type /\ l.name = k.name /\ l.head = k.head /\ l.sso = k.sso /\ l.loaded = k.loaded
  /\ l.hld = k.hld /\ l.delayed = k.delayed /\ l.acted = k.acted /\ l.edelay = k.edelay
  /\ l.side = k.side /\ l.sector = k.sector /\ l.track = k.track /\ l.multi = k.multi
  /\ l.verify = k.verify
  /\ (k.hlt => l.hlt) /\ (k.settled => l.settled) /\ (k.edone => l.edone)
Looks(k, l) == l.find = k.find /\ l.id = k.id
Holds(k, l) == l.verified = k.verified /\ l.mark = k.mark /\ l.left = k.left
Even(k, l) == Stands(k, l) /\ Looks(k, l) /\ Holds(k, l)

LEMMA StandsTwice ==
  ASSUME NEW k, NEW l, NEW m, Stands(k, l), Stands(l, m) PROVE Stands(k, m)
  BY DEF Stands

LEMMA EvenTwice ==
  ASSUME NEW k, NEW l, NEW m, Even(k, l), Even(l, m) PROVE Even(k, m)
  BY DEF Even, Stands, Looks, Holds

LEMMA EvenSelf == ASSUME NEW k \in C PROVE Even(k, k)
  BY DEF Even, Stands, Looks, Holds

LEMMA StandsSteady ==
  ASSUME NEW k, NEW l, Stands(k, l)
  PROVE  Under(l) = Under(k) /\ (Steady(k) => Steady(l))
<1>1. Under(l) = Under(k) BY DEF Stands, Under
<1>2. Steady(k) => Steady(l) BY DEF Stands, Steady, EWaits
<1> QED BY <1>1, <1>2

LEMMA EvenSeen ==
  ASSUME NEW k, NEW l, Even(k, l), NEW p, Seen(k, p) PROVE Seen(l, p)
<1>1. Under(l) = Under(k) /\ (Steady(k) => Steady(l)) BY StandsSteady DEF Even
<1>2. l.loaded = k.loaded /\ l.find = k.find /\ l.id = k.id BY DEF Even, Stands, Looks
<1> QED BY <1>1, <1>2 DEF Seen

\* A search that has seen nothing yet may be anywhere.
Blank(f) == f.a1s = 0 /\ f.found = FALSE /\ f.pt = 0 /\ f.full = FALSE

LEMMA BlankSeen == ASSUME NEW k, Blank(k.find), NEW p PROVE Seen(k, p)
<1>1. ~(k.find.a1s > 0) /\ ~k.find.found BY DEF Blank
<1>2. Prefixed(k.loaded, Under(k), k.find, p) BY <1>1 DEF Blank, Prefixed
<1> QED BY <1>1, <1>2 DEF Seen, Sighted

LEMMA UnfoundBlank == Blank(Unfound)
  BY DEF Blank, Unfound

\* Nor has one that may miss a byte.
\* Who cannot see yet has seen nothing.
LEMMA UnsteadyBlank ==
  ASSUME NEW k \in C, NEW p, Seen(k, p), ~Steady(k) PROVE Blank(k.find)
<1>1. k.find \in Finds BY Fields
<1>2. k.find.a1s \in 0..PrefixLength /\ k.find.found \in Flag BY <1>1 DEF Finds
<1>3. ~(k.find.a1s > 0) /\ ~k.find.found BY DEF Seen
<1>4. k.find.a1s = 0 BY <1>2, <1>3, Numbers
<1>5. k.find.found = FALSE BY <1>2, <1>3 DEF Flag
<1> QED BY <1>3, <1>4, <1>5 DEF Seen, Sighted, Prefixed, Blank

-----------------------------------------------------------------------------
(* The stages before the step of the command. *)

\* The stages of a cycle before the command change nothing that was found.
LEMMA RotateEven ==
  ASSUME NEW k \in C, Busy \in k.status, k.idle < IdlePulses, NEW t
  PROVE  /\ Even(k, Rotate(k, t)) /\ Rotate(k, t).idle < IdlePulses
         /\ Rotate(k, t).ptr = IF t.byte THEN (k.ptr + 1) % TrackLength ELSE k.ptr
<1> DEFINE p == (k.ptr + 1) % TrackLength
           n == IF k.verifying THEN Count(k.index) ELSE 0
           r == [k EXCEPT !.ptr = p]
           m == [k EXCEPT !.ptr = p, !.idle = 0, !.index = n]
<1>1. /\ k.ptr \in 0..(TrackLength - 1) /\ k.idle \in 0..IdlePulses /\ k.index \in 0..MostPulses
  BY Fields
<1>2. p \in 0..(TrackLength - 1) BY <1>1, Spans
<1>3. MostPulses \in Nat BY Numbers DEF MostPulses
<1>4. n \in 0..MostPulses BY <1>1, <1>3 DEF Count
<1>5. Rotate(k, t) = IF ~t.byte THEN k ELSE IF p # 0 THEN r ELSE m
  <2>1. (IF Busy \in k.status THEN 0 ELSE k.idle + 1) = 0 OBVIOUS
  <2> QED BY <2>1 DEF Rotate, r, m, p, n
<1> HIDE DEF p, n
<1>6. Even(k, r) /\ r.idle = k.idle /\ r.ptr = p
  BY <1>2, ZenonT(60) DEF Even, Stands, Looks, Holds, C, ControllerWith
<1>7. Even(k, m) /\ m.idle = 0 /\ m.ptr = p
  BY <1>2, <1>4, Values, ZenonT(60) DEF Even, Stands, Looks, Holds, C, ControllerWith
<1> HIDE DEF r, m
<1>8. Even(k, k) BY EvenSelf
<1>9. 0 < IdlePulses BY Numbers
<1> QED BY <1>5, <1>6, <1>7, <1>8, <1>9 DEF p

LEMMA HltTimerEven ==
  ASSUME NEW k \in C, NEW t PROVE Even(k, HltTimer(k, t))
<1> DEFINE l == [k EXCEPT !.hlt = TRUE, !.loading = FALSE]
<1>1. Even(k, l) BY Values, ZenonT(60) DEF Even, Stands, Looks, Holds, C, ControllerWith
<1>2. HltTimer(k, t) = l \/ HltTimer(k, t) = k BY DEF HltTimer
<1> HIDE DEF l
<1> QED BY <1>1, <1>2, EvenSelf

LEMMA ShowingEven ==
  ASSUME NEW k \in C, NEW s \in SUBSET (0..5) PROVE Even(k, Showing(k, s))
  BY ZenonT(60) DEF Even, Stands, Looks, Holds, C, ControllerWith, Showing

LEMMA ShowPinsEven == ASSUME NEW k \in C PROVE Even(k, ShowPins(k))
<1> DEFINE s == (k.status \ {p[1] : p \in Pins(k)}) \cup {p[1] : p \in {q \in Pins(k) : q[2]}}
<1>1. ShowPins(k) = Showing(k, s) BY DEF ShowPins, Showing
<1>2. ShowPins(k) \in C BY ShowPinsPlain DEF Plain
<1> HIDE DEF s
<1>3. Showing(k, s).status = s BY DEF Showing, C, ControllerWith
<1>4. s \in SUBSET (0..5) BY <1>1, <1>2, <1>3, Fields
<1> QED BY <1>1, <1>4, ShowingEven

\* The stages that do not end a command only turn the disk.
LEMMA BeforeStepEven ==
  ASSUME NEW k, Sound(k), k.idle < IdlePulses, NEW t, Busy \in BeforeStep(k, t).status
  PROVE  /\ Even(k, BeforeStep(k, t)) /\ BeforeStep(k, t).idle < IdlePulses
         /\ BeforeStep(k, t).ptr = IF t.byte THEN (k.ptr + 1) % TrackLength ELSE k.ptr
<1> DEFINE a == Terminate(k)
           b == Immediate(a)
           c == Rotate(b, t)
           d == OnIndexPulse(c, t)
           e == HltTimer(d, t)
           f == ShowPins(e)
<1>0. Busy \in f.status BY DEF BeforeStep
<1>1. Sound(a) /\ Stage(k, a) /\ Unturned(k, a) BY TerminateKeeps, TerminateStage DEF Keeps
<1>a. "terminate" \in k.forced => Busy \notin a.status
  BY ForcedEndOver DEF Terminate, Over
<1>aa. "terminate" \notin k.forced => a = k BY DEF Terminate
<1> HIDE DEF a
<1>2. Sound(b) /\ Stage(a, b) /\ Unturned(a, b) BY <1>1, ImmediateKeeps, ImmediateStage DEF Keeps
<1>b. "immediate" \in a.forced => Busy \notin b.status
  BY <1>1, ForcedEndOver, RaiseOver DEF Immediate, Over
<1>bb. "immediate" \notin a.forced => b = a BY DEF Immediate
<1> HIDE DEF b
<1>3. b.idle < IdlePulses /\ b \in C BY <1>1, <1>2, SoundC DEF Unturned
<1>4. Sound(c) /\ Stage(b, c)
  <2>1. c = b \/ Plain(b, c) BY <1>3, RotatePlain
  <2>2. c.forced = b.forced BY <1>3, RotatePlain
  <2>3. Sound(c) BY <1>2, <1>3, RotateKeeps DEF Keeps
  <2> HIDE DEF c
  <2> QED BY <2>1, <2>2, <2>3, PlainStage, StageSelf
<1>c. /\ Busy \in b.status =>
           /\ Even(b, c) /\ c.idle < IdlePulses
           /\ c.ptr = IF t.byte THEN (b.ptr + 1) % TrackLength ELSE b.ptr
  BY <1>3, RotateEven
<1> HIDE DEF c
<1>5. Sound(d) /\ Stage(c, d) /\ Unturned(c, d)
  BY <1>4, OnIndexPulseKeeps, OnIndexPulseStage DEF Keeps
<1>d. d = c \/ Busy \notin d.status
  BY <1>4, ForcedEndOver, RaiseOver DEF OnIndexPulse, Over
<1> HIDE DEF d
<1>6. d \in C BY <1>5, SoundC
<1>7. Sound(e) /\ Stage(d, e) /\ Unturned(d, e) /\ Even(d, e)
  <2>1. /\ e = d \/ Plain(d, e)
        /\ e.forced = d.forced /\ Unturned(d, e)
    BY <1>6, HltTimerPlain
  <2>2. Sound(e) BY <1>5, HltTimerKeeps DEF Keeps
  <2>3. Even(d, e) BY <1>6, HltTimerEven
  <2> HIDE DEF e
  <2> QED BY <2>1, <2>2, <2>3, PlainStage, StageSelf
<1> HIDE DEF e
<1>8. e \in C BY <1>7, SoundC
<1>9. Stage(e, f) /\ Unturned(e, f) /\ Even(e, f)
  BY <1>8, ShowPinsPlain, PlainStage, ShowPinsEven
<1>10. BeforeStep(k, t) = f BY DEF BeforeStep, f, e, d, c, b, a
<1> HIDE DEF f
<1>11. Busy \in e.status /\ Busy \in d.status /\ Busy \in c.status /\ Busy \in b.status
       /\ Busy \in a.status
  BY <1>0, <1>2, <1>4, <1>5, <1>7, <1>9 DEF Stage
<1>12. a = k /\ b = a /\ d = c BY <1>a, <1>aa, <1>b, <1>bb, <1>d, <1>11
<1>13. Even(k, c) BY <1>c, <1>11, <1>12
<1>14. Even(k, e) BY <1>7, <1>12, <1>13, EvenTwice
<1>15. Even(k, f) BY <1>9, <1>14, EvenTwice
<1>16. f.idle = c.idle /\ f.ptr = c.ptr BY <1>7, <1>9, <1>12 DEF Unturned
<1> QED BY <1>c, <1>10, <1>11, <1>12, <1>15, <1>16

-----------------------------------------------------------------------------
(* A byte of the search for an ID field. *)

\* The changes of IDAddressMarkSearch and readIDField.
Finding(k, f) == [k EXCEPT !.find = f]
LEMMA FindingStands ==
  ASSUME NEW k \in C, NEW f \in Finds
  PROVE  /\ Stands(k, Finding(k, f)) /\ Holds(k, Finding(k, f))
         /\ Finding(k, f).find = f /\ Finding(k, f).id = k.id
  BY ZenonT(60) DEF Stands, Holds, C, ControllerWith, Finding, Finds

IdRead(k, i, f) == [k EXCEPT !.id = i, !.find = f]
LEMMA ReadingStands ==
  ASSUME NEW k \in C, NEW i \in [1..6 -> Byte], NEW f \in Finds
  PROVE  /\ Stands(k, IdRead(k, i, f)) /\ Holds(k, IdRead(k, i, f))
         /\ IdRead(k, i, f).find = f /\ IdRead(k, i, f).id = i
  BY ZenonT(60) DEF Stands, Holds, C, ControllerWith, IdRead, Finds

LEMMA SearchLooks ==
  ASSUME NEW k \in C, ~k.find.found, k.find.zeros < ZeroRun => k.find.a1s = 0, NEW b
  PROVE  /\ Stands(k, IDAddressMarkSearch(k, b)) /\ Holds(k, IDAddressMarkSearch(k, b))
         /\ IDAddressMarkSearch(k, b).id = k.id
         /\ Looked(k.find, IDAddressMarkSearch(k, b).find, b)
<1> DEFINE f == k.find
           restart == [f EXCEPT !.zeros = 0, !.a1s = 0, !.misses = 0, !.found = FALSE]
           z == IF b = 0 THEN f.zeros + 1 ELSE 0
           n1 == [f EXCEPT !.zeros = z]
           n2 == [f EXCEPT !.a1s = f.a1s + 1]
           n3 == [f EXCEPT !.zeros = 0, !.a1s = 0, !.misses = 0]
           n4 == [f EXCEPT !.a1s = 0, !.misses = f.misses + 1]
           n5 == [f EXCEPT !.found = TRUE]
           next ==
             IF f.zeros < ZeroRun THEN n1
             ELSE IF f.a1s < PrefixLength
                  THEN IF b = 161 THEN n2
                       ELSE IF f.misses + 1 >= IdLimit THEN n3 ELSE n4
             ELSE IF ~f.found /\ b = 254 THEN n5 ELSE restart
           l == IDAddressMarkSearch(k, b)
<1>1. f \in Finds BY Fields
<1>2. l = [k EXCEPT !.find = next]
  BY DEF IDAddressMarkSearch, next, n1, n2, n3, n4, n5, restart, f, z
<1>3. l.find = next
  <2> HIDE DEF next
  <2> QED BY <1>2 DEF C, ControllerWith
<1>4. l \in C BY IDAddressMarkSearchLike DEF Like
<1> HIDE DEF l
<1>5. next \in Finds BY <1>3, <1>4, Fields
<1>6. f.a1s \in 0..PrefixLength /\ f.zeros \in 0..ZeroRun BY <1>1 DEF Finds
<1>7. ~f.found /\ (f.zeros < ZeroRun => f.a1s = 0) OBVIOUS
<1> HIDE DEF f
<1>8. n1.a1s = f.a1s /\ n1.found = f.found /\ n1.pt = f.pt /\ n1.full = f.full BY <1>1 DEF Finds
<1>9. n2.a1s = f.a1s + 1 /\ n2.found = f.found /\ n2.pt = f.pt /\ n2.full = f.full /\ n2.zeros = f.zeros
  BY <1>1 DEF Finds
<1>10. /\ n3.a1s = 0 /\ n3.found = f.found /\ n3.pt = f.pt /\ n3.full = f.full
       /\ n4.a1s = 0 /\ n4.found = f.found /\ n4.pt = f.pt /\ n4.full = f.full
       /\ restart.a1s = 0 /\ restart.found = FALSE /\ restart.pt = f.pt /\ restart.full = f.full
  BY <1>1 DEF Finds
<1>11. n5.a1s = f.a1s /\ n5.found = TRUE /\ n5.pt = f.pt /\ n5.full = f.full /\ n5.zeros = f.zeros
  BY <1>1 DEF Finds
<1> HIDE DEF n1, n2, n3, n4, n5, restart
<1>12. Looked(f, next, b)
  <2>1. CASE f.zeros < ZeroRun BY <2>1, <1>7, <1>8 DEF Looked
  <2>2. CASE ~(f.zeros < ZeroRun) /\ f.a1s < PrefixLength /\ b = 161 BY <2>2, <1>7, <1>9 DEF Looked
  <2>3. CASE ~(f.zeros < ZeroRun) /\ f.a1s < PrefixLength /\ b # 161 BY <2>3, <1>7, <1>10 DEF Looked
  <2>4. CASE ~(f.zeros < ZeroRun) /\ ~(f.a1s < PrefixLength) /\ b = 254
    <3>1. f.a1s = PrefixLength BY <2>4, <1>6, Numbers
    <3> QED BY <2>4, <3>1, <1>7, <1>11 DEF Looked
  <2>5. CASE ~(f.zeros < ZeroRun) /\ ~(f.a1s < PrefixLength) /\ b # 254 BY <2>5, <1>7, <1>10 DEF Looked
  <2> QED BY <2>1, <2>2, <2>3, <2>4, <2>5
<1> HIDE DEF next
<1>13. l = Finding(k, next) BY <1>2 DEF Finding
<1> QED BY <1>3, <1>5, <1>12, <1>13, FindingStands DEF f, l

LEMMA CollectGains ==
  ASSUME NEW k \in C, k.find.found, NEW b \in Byte
  PROVE  /\ Stands(k, CollectIDFieldData(k, b)) /\ Holds(k, CollectIDFieldData(k, b))
         /\ Gained(k.find, CollectIDFieldData(k, b).find, k.id, CollectIDFieldData(k, b).id, b)
<1> DEFINE p == k.find.pt
           i == [k.id EXCEPT ![p + 1] = b]
           f == [k.find EXCEPT !.pt = p + 1]
           g == [k.find EXCEPT !.full = TRUE]
<1>1. k.find \in Finds /\ k.id \in [1..6 -> Byte] BY Fields
<1>2. g \in Finds /\ g.full = TRUE /\ g.pt = p /\ g.found BY <1>1, Values DEF Finds
<1>3. CASE p < 6
  <2>1. p \in 0..6 BY <1>1 DEF Finds
  <2>2. p + 1 \in 0..6 /\ p + 1 \in 1..6 BY <2>1, <1>3
  <2>3. f \in Finds /\ f.full = k.find.full /\ f.pt = p + 1 /\ f.found BY <1>1, <2>2 DEF Finds
  <2>4. i \in [1..6 -> Byte] BY <1>1, <2>2
  <2>5. CollectIDFieldData(k, b) = IdRead(k, i, f)
    BY <1>3 DEF CollectIDFieldData, i, f, p, IdRead
  <2>6. Gained(k.find, f, k.id, i, b) BY <2>3, <1>3 DEF Gained
  <2> HIDE DEF f, i, p
  <2> QED BY <2>3, <2>4, <2>5, <2>6, ReadingStands
<1>4. CASE ~(p < 6)
  <2>1. Gained(k.find, g, k.id, k.id, b) BY <1>2, <1>4 DEF Gained
  <2>2. CollectIDFieldData(k, b) = Finding(k, g)
    BY <1>4 DEF CollectIDFieldData, g, p, Finding
  <2> HIDE DEF g, p
  <2> QED BY <1>2, <2>1, <2>2, FindingStands
<1> QED BY <1>3, <1>4

\* A byte that is looked at carries the search on.
LEMMA ReadIDSeen ==
  ASSUME NEW k \in C, NEW p \in 0..(TrackLength - 1), k.ptr = (p + 1) % TrackLength,
         Seen(k, p), Steady(k), Searching(k), NEW t \in Times, t.junk \in Junk,
         disk \in Images, NoFalseMarks
  PROVE  /\ Stands(k, ReadID(k, t)) /\ Holds(k, ReadID(k, t))
         /\ Seen(ReadID(k, t), k.ptr)
<1> DEFINE b == GetFDiskByte(k, t.junk)
           u == Under(k)
           l == ReadID(k, t)
<1>1. u \in Int /\ k.loaded \in Drives /\ k.find \in Finds /\ k.id \in [1..6 -> Byte] BY UnderInt, Fields
<1>2. /\ InArray(u) => b = TrackByte(k.loaded, u, k.ptr)
      /\ ~InArray(u) => b # 254
  <2>1. 254 \notin Junk BY DEF NoFalseMarks
  <2> QED BY <2>1, BytesRead
<1>3. b \in Byte BY DiskBytes DEF Times
<1>4. Sighted(k.loaded, u, k.find, k.id, p) BY DEF Seen
<1> HIDE DEF b, u
<1>5. CASE ~k.find.found
  <2> DEFINE m == IDAddressMarkSearch(k, b)
  <2>1. Prefixed(k.loaded, u, k.find, p) BY <1>4, <1>5 DEF Sighted
  <2>2. k.find.zeros < ZeroRun => k.find.a1s = 0 BY <2>1 DEF Prefixed
  <2>3. Stands(k, m) /\ Holds(k, m) /\ Looked(k.find, m.find, b) BY <1>5, <2>2, SearchLooks
  <2> HIDE DEF m
  <2>4. m.find \in Finds /\ m.loaded = k.loaded BY <2>3, Fields DEF Stands
  <2>5. Sighted(k.loaded, u, m.find, m.id, k.ptr) BY <1>1, <1>2, <2>1, <2>3, <2>4, LookedSighted
  <2>6. Under(m) = u /\ Steady(m) BY <2>3, StandsSteady DEF u
  <2>7. Seen(m, k.ptr) BY <2>4, <2>5, <2>6 DEF Seen
  <2>8. l = m BY <1>5 DEF ReadID, m, b
  <2> QED BY <2>3, <2>7, <2>8
<1>6. CASE k.find.found
  <2> DEFINE m == CollectIDFieldData(k, b)
  <2>1. Collected(k.loaded, k.find, k.id, p) \/ Collected(u, k.find, k.id, p) BY <1>4, <1>6 DEF Sighted
  <2>2. Collected(u, k.find, k.id, p) BY <1>4, <1>6 DEF Sighted
  <2>3. Stands(k, m) /\ Holds(k, m) /\ Gained(k.find, m.find, k.id, m.id, b) BY <1>3, <1>6, CollectGains
  <2> HIDE DEF m
  <2>4. m.find \in Finds /\ m.loaded = k.loaded BY <2>3, Fields DEF Stands
  <2>5. ~k.find.full BY <1>6 DEF Searching
  <2>6. Sighted(k.loaded, u, m.find, m.id, k.ptr) BY <1>1, <1>2, <2>2, <2>3, <2>4, <2>5, GainedSighted
  <2>7. Under(m) = u /\ Steady(m) BY <2>3, StandsSteady DEF u
  <2>8. Seen(m, k.ptr) BY <2>4, <2>6, <2>7 DEF Seen
  <2>9. l = m BY <1>6 DEF ReadID, m, b
  <2> QED BY <2>3, <2>8, <2>9
<1> QED BY <1>5, <1>6

-----------------------------------------------------------------------------
(* The other operators of a search. *)

LEMMA SearchAgainStands ==
  ASSUME NEW k \in C
  PROVE  Stands(k, SearchAgain(k)) /\ Holds(k, SearchAgain(k)) /\ SearchAgain(k).find = Unfound
<1>1. SearchAgain(k) = Finding(k, Unfound) BY DEF SearchAgain, Finding
<1> QED BY <1>1, Values, FindingStands

LEMMA SettleEven == ASSUME NEW k \in C, NEW t PROVE Even(k, Settle(k, t))
<1> DEFINE s == k.settled \/ "settle" \in t.fired
<1>1. s \in Flag /\ (k.settled => s) BY DEF Flag
<1> HIDE DEF s
<1>2. Even(k, [k EXCEPT !.settled = s])
  BY <1>1, ZenonT(60) DEF Even, Stands, Looks, Holds, C, ControllerWith
<1> QED BY <1>2 DEF Settle, s

LEMMA VerifyingEven ==
  ASSUME NEW k \in C, NEW b \in Flag
  PROVE  Even(k, Verifying(k, b)) /\ Verifying(k, b).hlt = k.hlt /\ Verifying(k, b).settled = k.settled
  BY ZenonT(60) DEF Even, Stands, Looks, Holds, C, ControllerWith, Verifying

LEMMA EDelayEven == ASSUME NEW k \in C, NEW t PROVE Even(k, EDelay(k, t))
<1> DEFINE e == k.edone \/ "e" \in t.fired
<1>1. e \in Flag /\ (k.edone => e) BY DEF Flag
<1> HIDE DEF e
<1>2. Even(k, [k EXCEPT !.edone = e])
  BY <1>1, ZenonT(60) DEF Even, Stands, Looks, Holds, C, ControllerWith
<1> QED BY <1>2, EvenSelf DEF EDelay, e

LEMMA LeftEven ==
  ASSUME NEW k \in C, NEW n \in Int
  PROVE  /\ Stands(k, Left(k, n)) /\ Looks(k, Left(k, n))
         /\ Left(k, n).verified = k.verified /\ Left(k, n).mark = k.mark /\ Left(k, n).left = n
  BY ZenonT(60) DEF Stands, Looks, C, ControllerWith, Left

LEMMA VerifiedEven ==
  ASSUME NEW k \in C
  PROVE  /\ Stands(k, Verified(k)) /\ Looks(k, Verified(k)) /\ Verified(k).verified = TRUE
         /\ Verified(k).mark = k.mark /\ Verified(k).left = k.left
  BY Values, ZenonT(60) DEF Stands, Looks, C, ControllerWith, Verified

LEMMA CrcEven ==
  ASSUME NEW k \in C
  PROVE  /\ Stands(k, CrcFails(k)) /\ Holds(k, CrcFails(k)) /\ CrcFails(k).find = Unfound
         /\ Even(k, CrcPasses(k))
<1> DEFINE s == SearchAgain(k)
           b == s.status \cup {CrcError}
           a == k.status \ {CrcError}
<1>1. Stands(k, s) /\ Holds(k, s) /\ s.find = Unfound /\ s \in C
  BY SearchAgainStands DEF Stands
<1>2. CrcFails(k) = Showing(s, b) BY DEF CrcFails, Showing, s, b
<1>3. CrcPasses(k) = Verifying(Showing(k, a), FALSE)
  BY DEF CrcPasses, a, Showing, Verifying, C, ControllerWith
<1> HIDE DEF s
<1>4. b \in SUBSET (0..5) /\ a \in SUBSET (0..5) BY <1>1, Fields, Values
<1> HIDE DEF a, b
<1>5. Even(s, CrcFails(k)) BY <1>1, <1>2, <1>4, ShowingEven
<1>6. Stands(k, CrcFails(k)) BY <1>1, <1>5, StandsTwice DEF Even
<1>7. Holds(k, CrcFails(k)) /\ CrcFails(k).find = Unfound BY <1>1, <1>5 DEF Even, Holds, Looks
<1>8. Even(k, Showing(k, a)) BY <1>4, ShowingEven
<1>9. Even(Showing(k, a), Verifying(Showing(k, a), FALSE))
  <2> DEFINE x == Showing(k, a)
  <2>1. x \in C BY <1>8 DEF Even, Stands
  <2> HIDE DEF x
  <2>2. Even(x, Verifying(x, FALSE)) BY <2>1, VerifyingEven, Values
  <2> QED BY <2>2 DEF x
<1>10. Even(k, CrcPasses(k)) BY <1>3, <1>8, <1>9, EvenTwice
<1> QED BY <1>6, <1>7, <1>10

-----------------------------------------------------------------------------
(* A step of a type I command. *)

\* An operator that stays away from the search.
Unlooked(k, l) == l \in C /\ l.find = k.find
LEMMA UnlookedOnes ==
  ASSUME NEW k \in C
  PROVE  /\ Unlooked(k, Acted(k)) /\ Unlooked(k, AtTrack0(k)) /\ Unlooked(k, Follow(k))
         /\ \A d \in {-1, 1} : Unlooked(k, StepBy(k, d))
<1>1. Acted(k) \in C /\ AtTrack0(k) \in C /\ Follow(k) \in C BY ActedKeeps, AtTrack0Keeps, FollowKeeps
<1>2. \A d \in {-1, 1} : StepBy(k, d) \in C BY StepByKeeps
<1>3. Acted(k).find = k.find /\ AtTrack0(k).find = k.find
  BY ZenonT(60) DEF C, ControllerWith, Acted, AtTrack0
<1>4. Follow(k).find = k.find /\ \A d \in {-1, 1} : StepBy(k, d).find = k.find
  BY ZenonT(60) DEF C, ControllerWith, Follow, StepBy
<1> QED BY <1>1, <1>2, <1>3, <1>4 DEF Unlooked

LEMMA TypeIActionUnlooked ==
  ASSUME NEW k \in C, NEW t PROVE TypeIAction(k, t).find = k.find
<1>1. Unlooked(k, k) BY DEF Unlooked
<1>2. Unlooked(k, Acted(k)) BY UnlookedOnes
<1>3. Unlooked(k, Acted(AtTrack0(k)))
  <2>1. Unlooked(k, AtTrack0(k)) BY UnlookedOnes
  <2> DEFINE a == AtTrack0(k)
  <2>2. Unlooked(k, a) BY <2>1
  <2> HIDE DEF a
  <2>3. a \in C BY <2>2 DEF Unlooked
  <2>4. Unlooked(a, Acted(a)) BY <2>3, UnlookedOnes
  <2>5. Unlooked(k, Acted(a)) BY <2>2, <2>4 DEF Unlooked
  <2> QED BY <2>5 DEF a
<1>4. ASSUME NEW d \in {-1, 1}
      PROVE  /\ Unlooked(k, StepBy(k, d)) /\ Unlooked(k, Follow(StepBy(k, d)))
             /\ Unlooked(k, Acted(StepBy(k, d))) /\ Unlooked(k, Acted(Follow(StepBy(k, d))))
  <2> DEFINE s == StepBy(k, d)
             f == Follow(s)
  <2>1. Unlooked(k, s) BY UnlookedOnes
  <2> HIDE DEF s
  <2>2. s \in C BY <2>1 DEF Unlooked
  <2>3. Unlooked(s, f) /\ Unlooked(s, Acted(s)) BY <2>2, UnlookedOnes
  <2> HIDE DEF f
  <2>4. f \in C BY <2>3 DEF Unlooked
  <2>5. Unlooked(f, Acted(f)) BY <2>4, UnlookedOnes
  <2>6. Unlooked(k, s) /\ Unlooked(k, f) /\ Unlooked(k, Acted(s)) /\ Unlooked(k, Acted(f))
    BY <2>1, <2>3, <2>5 DEF Unlooked
  <2> QED BY <2>6 DEF f, s
<1>5. -1 \in {-1, 1} /\ 1 \in {-1, 1} OBVIOUS
<1>6. Unlooked(k, OneStep(k, t, -1)) /\ Unlooked(k, OneStep(k, t, 1))
  BY <1>1, <1>4, <1>5 DEF OneStep
<1>7. Acted([k EXCEPT !.track = 0]) = Acted(AtTrack0(k)) BY DEF AtTrack0
<1>8. Unlooked(k, StepOut(k, t)) BY <1>3, <1>6, <1>7 DEF StepOut
<1>9. Unlooked(k, StepIn(k, t)) BY <1>2, <1>6 DEF StepIn
<1>10. Unlooked(k, Step(k, t)) BY <1>8, <1>9 DEF Step
<1>11. Unlooked(k, Restore(k, t)) BY <1>1, <1>3, <1>4, <1>5, <1>7 DEF Restore
<1>12. Unlooked(k, Seek(k, t))
  <2> DEFINE d == IF k.track > k.data THEN -1 ELSE 1
  <2>1. d \in {-1, 1} OBVIOUS
  <2>2. Seek(k, t) = IF k.track = k.data THEN Acted(k) ELSE IF StepEnds(t) THEN Follow(StepBy(k, d)) ELSE k
    BY DEF Seek
  <2> HIDE DEF d
  <2> QED BY <1>1, <1>2, <1>4, <2>1, <2>2
<1> QED BY <1>1, <1>8, <1>9, <1>10, <1>11, <1>12 DEF TypeIAction, Unlooked

\* What a command that ends leaves.
LEMMA FinishLeaves ==
  ASSUME NEW k \in C
  PROVE  /\ Finish(k).done = TRUE /\ Finish(k).track = k.track /\ Finish(k).head = k.head
         /\ NotFound \in Finish(k).status <=> NotFound \in k.status
<1>1. Finish(k).done = TRUE /\ Finish(k).track = k.track /\ Finish(k).head = k.head
  BY ZenonT(60) DEF Finish, Raise, Stop, C, ControllerWith
<1>2. Finish(k).status = k.status \ {Busy}
  BY ZenonT(60) DEF Finish, Raise, Stop, C, ControllerWith
<1>3. NotFound # Busy BY DEF NotFound, Busy
<1> QED BY <1>1, <1>2, <1>3

LEMMA TimedOutLeaves ==
  ASSUME NEW k \in C
  PROVE  TimedOut(k).done = TRUE /\ NotFound \in TimedOut(k).status
<1> DEFINE v == Verifying(k, FALSE)
           f == Showing(v, v.status \cup {NotFound})
<1>1. v \in C BY VerifyingEven, Values DEF Even, Stands
<1>2. TimedOut(k) = Finish(f) BY DEF TimedOut, Fail, Verifying, Showing, f, v
<1> HIDE DEF v
<1>3. v.status \cup {NotFound} \in SUBSET (0..5) BY <1>1, Fields, Values
<1>4. f \in C /\ f.status = v.status \cup {NotFound} BY <1>1, <1>3, ShowingKeeps
<1> HIDE DEF f
<1> QED BY <1>2, <1>4, FinishLeaves

\* The last ID field a search has found is one of the track under the head.
LEMMA SeenFull ==
  ASSUME NEW k \in C, NEW p, Seen(k, p), k.find.full
  PROVE  /\ InArray(Under(k)) /\ Steady(k)
         /\ \E s \in 1..Sectors : p = PlaceOf(s, IdMark + 7) /\ k.id = IdField(Under(k), s)
<1>1. k.find.found
  <2> SUFFICES ASSUME ~k.find.found PROVE FALSE OBVIOUS
  <2>1. Prefixed(k.loaded, Under(k), k.find, p) BY DEF Seen, Sighted
  <2> QED BY <2>1 DEF Prefixed
<1>2. Collected(Under(k), k.find, k.id, p) /\ Steady(k) BY <1>1 DEF Seen, Sighted
<1>3. InArray(Under(k)) /\ k.find.pt = 6 BY <1>2 DEF Collected
<1>4. PICK s \in 1..Sectors :
        /\ p = PlaceOf(s, IdMark + 6 + 1)
        /\ \A j \in 1..6 : k.id[j] = IdField(Under(k), s)[j]
  BY <1>2, <1>3 DEF Collected
<1>5. IdMark + 6 + 1 = IdMark + 7 BY MarkPlaces
<1>6. k.id \in [1..6 -> Byte] BY Fields
<1>7. k.id = IdField(Under(k), s)
  <2>1. k.id = <<k.id[1], k.id[2], k.id[3], k.id[4], k.id[5], k.id[6]>>
    BY <1>6
  <2>2. /\ k.id[1] = IdField(Under(k), s)[1] /\ k.id[2] = IdField(Under(k), s)[2]
        /\ k.id[3] = IdField(Under(k), s)[3] /\ k.id[4] = IdField(Under(k), s)[4]
        /\ k.id[5] = IdField(Under(k), s)[5] /\ k.id[6] = IdField(Under(k), s)[6]
    BY <1>4
  <2> QED BY <2>1, <2>2 DEF IdField
<1> QED BY <1>2, <1>3, <1>4, <1>5, <1>7

\* With two heads the tracks of the array are those of the cylinders.
LEMMA CylinderUnder ==
  ASSUME NEW k \in C, Heads = 2, NEW s PROVE IdField(Under(k), s)[1] = k.head
<1>1. k.head \in Int /\ k.sso \in 0..1 BY Fields
<1>2. (2 * k.head + k.sso) \div 2 = k.head BY <1>1
<1> QED BY <1>2 DEF IdField, Under

\* What a step of a type I command finds.
Verifies(k, l) ==
  /\ ~l.done => Seen(l, k.ptr)
  /\ Heads = 2 /\ l.done /\ k.verify /\ NotFound \notin l.status => l.track = l.head

LEMMA TypeIVerifySequenceSeen ==
  ASSUME NEW k \in C, k.type = 1, k.acted, k.hld \/ ~k.delayed, ~k.done,
         NEW p \in 0..(TrackLength - 1), NEW t \in Times, t.junk \in Junk,
         k.ptr = IF t.byte THEN (p + 1) % TrackLength ELSE p, Seen(k, p),
         disk \in Images, NoFalseMarks
  PROVE  Verifies(k, TypeIVerifySequence(k, t))
<1> DEFINE s == Settle(k, t)
           v == Verifying(s, TRUE)
           l == TypeIVerifySequence(k, t)
<1> SUFFICES Verifies(k, l) OBVIOUS
<1>1. Even(k, s) /\ Like(k, s) BY SettleEven, SettleLike
<1>2. l = IF ~s.settled \/ ~s.hlt THEN s
          ELSE IF v.index >= VerifyPulses THEN TimedOut(v)
          ELSE IF t.byte /\ Searching(v) THEN ReadID(v, t)
          ELSE IF ~v.find.full THEN v
          ELSE IF v.track = v.id[1] THEN VerifyCRC(v) ELSE SearchAgain(v)
  BY DEF TypeIVerifySequence, v, s, Verifying
<1> HIDE DEF s
<1>3. s \in C /\ s.type = 1 /\ s.ptr = k.ptr /\ ~s.done BY <1>1 DEF Like, Same, Kept
<1>4. Seen(s, p) BY <1>1, EvenSeen
<1>5. Even(s, v) /\ Like(s, v) /\ v.hlt = s.hlt /\ v.settled = s.settled
  BY <1>3, VerifyingEven, VerifyingLike, Values
<1> HIDE DEF v, l
<1>6. v \in C /\ v.type = 1 /\ v.ptr = k.ptr /\ ~v.done BY <1>3, <1>5 DEF Like, Same, Kept
<1>7. Seen(v, p) BY <1>4, <1>5, EvenSeen
<1>8. CASE ~s.settled \/ ~s.hlt
  <2>1. ~Steady(s) BY <1>3, <1>8 DEF Steady
  <2>2. Seen(s, k.ptr) BY <1>3, <1>4, <2>1, UnsteadyBlank, BlankSeen
  <2> QED BY <1>2, <1>3, <1>8, <2>2 DEF Verifies
<1> DEFINE settled == s.settled /\ s.hlt
<1>9. settled => Steady(v)
  <2> SUFFICES ASSUME settled PROVE Steady(v) OBVIOUS
  <2>1. v.hlt /\ v.settled BY <1>5
  <2>2. v.acted = k.acted /\ v.hld = k.hld /\ v.delayed = k.delayed
    BY <1>1, <1>5 DEF Even, Stands
  <2> QED BY <1>6, <2>1, <2>2 DEF Steady
<1>10. CASE settled /\ v.index >= VerifyPulses
  <2>1. l = TimedOut(v) BY <1>2, <1>10
  <2> QED BY <1>6, <2>1, TimedOutLeaves DEF Verifies
<1>11. CASE settled /\ ~(v.index >= VerifyPulses) /\ t.byte /\ Searching(v)
  <2>1. l = ReadID(v, t) BY <1>2, <1>11
  <2>2. v.ptr = (p + 1) % TrackLength BY <1>6, <1>11
  <2>3. Steady(v) BY <1>9, <1>11
  <2>4. Seen(l, k.ptr) BY <1>6, <1>7, <1>11, <2>1, <2>2, <2>3, ReadIDSeen
  <2>5. l.done = v.done BY <1>6, <2>1, ReadIDLike DEF Like
  <2> QED BY <1>6, <2>4, <2>5 DEF Verifies
<1>12. CASE settled /\ ~(v.index >= VerifyPulses) /\ ~(t.byte /\ Searching(v)) /\ ~v.find.full
  <2>1. l = v BY <1>2, <1>12
  <2>2. k.ptr = p BY <1>12 DEF Searching
  <2> QED BY <1>6, <1>7, <2>1, <2>2 DEF Verifies
<1>13. CASE settled /\ ~(v.index >= VerifyPulses) /\ ~(t.byte /\ Searching(v)) /\ v.find.full
            /\ v.track = v.id[1]
  <2>1. l = VerifyCRC(v) BY <1>2, <1>13
  <2>2. CASE CrcHolds(v)
    <3> DEFINE c == CrcPasses(v)
    <3>1. l = Finish(c) BY <2>1, <2>2 DEF VerifyCRC
    <3>2. Even(v, c) BY <1>6, CrcEven
    <3> HIDE DEF c
    <3>3. c \in C /\ c.track = v.track /\ c.head = v.head BY <3>2 DEF Even, Stands
    <3>4. l.done = TRUE /\ l.track = v.track /\ l.head = v.head BY <3>1, <3>3, FinishLeaves
    <3>5. \E n \in 1..Sectors : v.id = IdField(Under(v), n) BY <1>6, <1>7, <1>13, SeenFull
    <3>6. Heads = 2 => v.id[1] = v.head BY <1>6, <3>5, CylinderUnder
    <3> QED BY <1>13, <3>4, <3>6 DEF Verifies
  <2>3. CASE ~CrcHolds(v)
    <3>1. l = CrcFails(v) BY <2>1, <2>3 DEF VerifyCRC
    <3>2. l.find = Unfound BY <1>6, <3>1, CrcEven
    <3>3. Seen(l, k.ptr) BY <3>2, UnfoundBlank, BlankSeen
    <3>4. l.done = v.done BY <1>6, <3>1, CrcLike DEF Like
    <3> QED BY <1>6, <3>3, <3>4 DEF Verifies
  <2> QED BY <2>2, <2>3
<1>14. CASE settled /\ ~(v.index >= VerifyPulses) /\ ~(t.byte /\ Searching(v)) /\ v.find.full
            /\ v.track # v.id[1]
  <2>1. l = SearchAgain(v) BY <1>2, <1>14
  <2>2. l.find = Unfound BY <1>6, <2>1, SearchAgainStands
  <2>3. Seen(l, k.ptr) BY <2>2, UnfoundBlank, BlankSeen
  <2>4. l.done = v.done BY <1>6, <2>1, SearchAgainLike DEF Like
  <2> QED BY <1>6, <2>3, <2>4 DEF Verifies
<1> QED BY <1>8, <1>10, <1>11, <1>12, <1>13, <1>14

LEMMA DelayedLoadSeen ==
  ASSUME NEW k \in C, k.type = 1, NEW p, Seen(k, p)
  PROVE  /\ Seen(DelayedLoad(k), p) /\ DelayedLoad(k) \in C
         /\ DelayedLoad(k).hld \/ ~DelayedLoad(k).delayed
         /\ DelayedLoad(k).verify = k.verify
<1>1. CASE k.delayed /\ ~k.hld
  <2> DEFINE l == Undelayed(LoadHead(k))
  <2>1. DelayedLoad(k) = l BY <1>1 DEF DelayedLoad, Undelayed
  <2>2. l.find = k.find /\ l.hld = TRUE /\ l.verify = k.verify
    BY ZenonT(60) DEF C, ControllerWith, Undelayed, LoadHead
  <2>3. l \in C BY <2>1, DelayedLoadLike DEF Like
  <2>4. ~Steady(k) BY <1>1 DEF Steady
  <2>5. Blank(k.find) BY <2>4, UnsteadyBlank
  <2> HIDE DEF l
  <2> QED BY <2>1, <2>2, <2>3, <2>5, BlankSeen
<1>2. CASE ~(k.delayed /\ ~k.hld) BY <1>2 DEF DelayedLoad
<1> QED BY <1>1, <1>2

\* A type I command sees every byte once it looks at them, and if it verifies ends on
\* the track that the track register names.
LEMMA TypeIStepSeen ==
  ASSUME NEW k, Active(k), k.type = 1, NEW p \in 0..(TrackLength - 1), NEW t \in Times,
         t.junk \in Junk, k.ptr = IF t.byte THEN (p + 1) % TrackLength ELSE p, Seen(k, p),
         disk \in Images, NoFalseMarks
  PROVE  Verifies(k, TypeIStep(k, t))
<1>1. k \in C /\ ~k.done BY DEF Active
<1>2. CASE ~k.acted
  <2> DEFINE l == TypeIAction(k, t)
  <2>1. l.find = k.find BY <1>1, TypeIActionUnlooked
  <2>2. ~Steady(k) BY <1>2 DEF Steady
  <2>3. Blank(k.find) BY <1>1, <2>2, UnsteadyBlank
  <2>4. l.done = k.done BY <1>1, <1>2, TypeIActionMoves DEF Moves, Rest
  <2>5. TypeIStep(k, t) = l BY <1>2 DEF TypeIStep
  <2> HIDE DEF l
  <2> QED BY <1>1, <2>1, <2>3, <2>4, <2>5, BlankSeen DEF Verifies
<1>3. CASE k.acted
  <2> DEFINE l == DelayedLoad(k)
  <2>1. /\ Seen(l, p) /\ l \in C /\ (l.hld \/ ~l.delayed) /\ l.verify = k.verify
    BY <1>1, DelayedLoadSeen
  <2>2. l.type = 1 /\ l.acted /\ ~l.done /\ l.ptr = k.ptr BY <1>1, <1>3, DelayedLoadLike DEF Like, Same, Kept
  <2>3. TypeIStep(k, t) = IF l.verify THEN TypeIVerifySequence(l, t) ELSE Finish(l)
    BY <1>3 DEF TypeIStep
  <2> HIDE DEF l
  <2>4. CASE l.verify
    <3>1. Verifies(l, TypeIVerifySequence(l, t)) BY <2>1, <2>2, TypeIVerifySequenceSeen
    <3> QED BY <2>1, <2>2, <2>3, <2>4, <3>1 DEF Verifies
  <2>5. CASE ~l.verify
    <3>1. Finish(l).done = TRUE BY <2>1, FinishLeaves
    <3> QED BY <2>1, <2>3, <2>5, <3>1 DEF Verifies
  <2> QED BY <2>4, <2>5
<1> QED BY <1>2, <1>3

-----------------------------------------------------------------------------
(* Type II commands: where they are on the track. *)

\* The search for the data mark, and the bytes behind it, in the sector of the ID field.
Reads(k, p) ==
  /\ ~k.mark.found =>
       /\ ~k.mark.all /\ k.left = SectorLength
       /\ \E r \in (IdMark + 7)..(DataMark - 1) :
            /\ p = PlaceOf(k.id[3], r)
            /\ k.mark.a1s = IF r < DataPrefix THEN 0 ELSE r - DataPrefix + 1
  /\ k.mark.found =>
       /\ k.left \in 0..SectorLength /\ (k.mark.all <=> k.left = 0)
       /\ k.left > 0 => p = PlaceOf(k.id[3], DataMark + SectorLength - k.left)

\* The ID field is that of a sector under the head.
Identified(k) ==
  /\ Steady(k) /\ InArray(Under(k))
  /\ k.id[3] \in 1..Sectors /\ k.id = IdField(Under(k), k.id[3])

\* Where a type II command is: it looks for its ID field, or has one that is a
\* sector under the head and reads what follows it.
OnTrackII(k, p) ==
  /\ k.name \in {"READ SECTOR", "WRITE SECTOR"}
  /\ ~k.verified => Seen(k, p) /\ k.mark = Unmarked
  /\ k.verified => Identified(k) /\ (k.name = "READ SECTOR" => Reads(k, p))

\* The registers name the sector of the ID field.
Named(k) == k.id[1] = k.track /\ k.id[2] = k.side /\ k.id[3] = k.sector

\* What a step of a type II command comes to: it ends, it goes on searching, it has
\* found the ID field, it looks for the data, it delivers a byte, it goes on to the
\* next sector.
Ended(k, l) ==
  /\ l.done
  /\ \/ NotFound \in l.status
     \/ /\ k.verified
        /\ k.name = "READ SECTOR" =>
             k.mark.found /\ k.mark.all /\ (k.multi => (k.sector + 1) % 256 > Sectors)
SearchesOn(k, l, p) ==
  Stands(k, l) /\ ~k.verified /\ ~l.verified /\ Seen(l, p) /\ l.mark = k.mark
Matched(k, l, p) ==
  /\ Stands(k, l) /\ ~k.verified /\ l.verified /\ l.mark = k.mark
  /\ Identified(l) /\ Named(l) /\ Reads(l, p)
Marking(k, l, p) ==
  /\ Stands(k, l) /\ k.verified /\ l.verified /\ l.id = k.id /\ k.name = "READ SECTOR"
  /\ l.left = k.left /\ (~l.mark.found => ~k.mark.found)
  /\ Reads(l, p)
Delivered(k, l, p) ==
  /\ Stands(k, l) /\ k.verified /\ l.verified /\ l.id = k.id /\ k.name = "READ SECTOR"
  /\ k.mark.found /\ l.mark.found /\ k.left > 0 /\ l.left = k.left - 1 /\ Reads(l, p)
  /\ l.data = TrackByte(k.loaded, Under(k), PlaceOf(k.id[3], DataMark + (SectorLength - k.left + 1)))
Continued(k, l) ==
  /\ Stands(Sector(k, (k.sector + 1) % 256), l) /\ (k.sector + 1) % 256 <= Sectors
  /\ k.verified /\ ~l.verified /\ k.name = "READ SECTOR" /\ k.multi /\ k.mark.found /\ k.mark.all
  /\ l.find = Unfound /\ l.mark = Unmarked /\ l.left = k.left
Comes(k, l, p) ==
  \/ Ended(k, l)
  \/ ~l.done /\ SearchesOn(k, l, p)
  \/ ~l.done /\ Matched(k, l, p)
  \/ ~l.done /\ Marking(k, l, p)
  \/ ~l.done /\ Delivered(k, l, p)
  \/ ~l.done /\ Continued(k, l)

LEMMA MarkedStands ==
  ASSUME NEW k \in C, NEW m \in Marks
  PROVE  /\ Stands(k, Marked(k, m)) /\ Looks(k, Marked(k, m)) /\ Marked(k, m).mark = m
         /\ Marked(k, m).verified = k.verified /\ Marked(k, m).left = k.left
         /\ Marked(k, m).data = k.data /\ Marked(k, m).done = k.done
  BY ZenonT(60) DEF Stands, Looks, C, ControllerWith, Marked, Marks

LEMMA CodeLength == SizeOf[SizeCode] = SectorLength
  BY GeometryAssumption DEF SizeCode

\* The cycle in which the ID field has been found.
LEMMA TypeIICmdIDVerifyComes ==
  ASSUME NEW k \in C, k.type = 2, ~k.done, ~k.verified, k.mark = Unmarked, Steady(k),
         NEW p \in 0..(TrackLength - 1), NEW t \in Times, t.junk \in Junk,
         k.ptr = IF t.byte THEN (p + 1) % TrackLength ELSE p, Seen(k, p),
         disk \in Images, NoFalseMarks
  PROVE  Comes(k, TypeIICmdIDVerify(k, t), k.ptr)
<1> DEFINE l == TypeIICmdIDVerify(k, t)
           named == k.track = k.id[1] /\ k.sector = k.id[3] /\ k.side = k.id[2]
           n == Left(k, LengthFromID(k, t))
<1> SUFFICES Comes(k, l, k.ptr) OBVIOUS
<1>1. l = IF k.index >= VerifyPulses THEN TimedOut(k)
          ELSE IF t.byte /\ Searching(k) THEN ReadID(k, t)
          ELSE IF ~k.find.full THEN k
          ELSE IF ~named THEN SearchAgain(k)
          ELSE IF CrcHolds(n) THEN Verified(CrcPasses(n)) ELSE CrcFails(n)
  BY DEF TypeIICmdIDVerify, n, Left, Verified, named
<1> HIDE DEF l
<1>2. CASE k.index >= VerifyPulses
  <2>1. l.done = TRUE /\ NotFound \in l.status BY <1>1, <1>2, TimedOutLeaves
  <2> QED BY <2>1 DEF Comes, Ended
<1>3. CASE ~(k.index >= VerifyPulses) /\ t.byte /\ Searching(k)
  <2>1. l = ReadID(k, t) BY <1>1, <1>3
  <2>2. k.ptr = (p + 1) % TrackLength BY <1>3
  <2>3. Stands(k, l) /\ Holds(k, l) /\ Seen(l, k.ptr) BY <1>3, <2>1, <2>2, ReadIDSeen
  <2>4. l.done = k.done BY <2>1, ReadIDLike DEF Like
  <2>5. SearchesOn(k, l, k.ptr) BY <2>3 DEF Holds, SearchesOn
  <2> QED BY <2>4, <2>5 DEF Comes
<1>4. CASE ~(k.index >= VerifyPulses) /\ ~(t.byte /\ Searching(k)) /\ ~k.find.full
  <2>1. l = k BY <1>1, <1>4
  <2>2. k.ptr = p BY <1>4 DEF Searching
  <2>3. SearchesOn(k, k, k.ptr) BY <2>2, EvenSelf DEF Even, SearchesOn
  <2> QED BY <2>1, <2>3 DEF Comes
<1>5. CASE ~(k.index >= VerifyPulses) /\ ~(t.byte /\ Searching(k)) /\ k.find.full /\ ~named
  <2>1. l = SearchAgain(k) BY <1>1, <1>5
  <2>2. Stands(k, l) /\ Holds(k, l) /\ l.find = Unfound BY <2>1, SearchAgainStands
  <2>3. l.done = k.done BY <2>1, SearchAgainLike DEF Like
  <2>4. Seen(l, k.ptr) BY <2>2, UnfoundBlank, BlankSeen
  <2>5. SearchesOn(k, l, k.ptr) BY <2>2, <2>4 DEF Holds, SearchesOn
  <2> QED BY <2>3, <2>5 DEF Comes
<1>6. CASE ~(k.index >= VerifyPulses) /\ ~(t.byte /\ Searching(k)) /\ k.find.full /\ named
  <2>1. InArray(Under(k)) /\ \E s \in 1..Sectors : p = PlaceOf(s, IdMark + 7) /\ k.id = IdField(Under(k), s)
    BY <1>6, SeenFull
  <2>2. PICK s \in 1..Sectors : p = PlaceOf(s, IdMark + 7) /\ k.id = IdField(Under(k), s) BY <2>1
  <2>3. k.id[3] = s /\ k.id[4] = SizeCode /\ k.id[5] = 1 /\ k.id[6] = 1 BY <2>2 DEF IdField
  <2>4. LengthFromID(k, t) = SectorLength BY <2>3, SizeCodes, CodeLength DEF LengthFromID
  <2>5. SectorLength \in Int BY Numbers
  <2>6. Stands(k, n) /\ Looks(k, n) /\ n.verified = k.verified /\ n.mark = k.mark /\ n.left = SectorLength
    BY <2>4, <2>5, LeftEven
  <2>7. Like(k, n) BY <2>4, <2>5, LeftLike
  <2> HIDE DEF n
  <2>8. n \in C /\ n.done = k.done BY <2>7 DEF Like
  <2>9. CrcHolds(n) BY <2>3, <2>6 DEF CrcHolds, Looks
  <2> DEFINE c == CrcPasses(n)
  <2>10. l = Verified(c) BY <1>1, <1>6, <2>9
  <2>11. Even(n, c) /\ Like(n, c) BY <2>8, CrcEven, CrcLike
  <2> HIDE DEF c
  <2>12. c \in C /\ c.done = k.done BY <2>8, <2>11 DEF Like
  <2>13. Stands(c, l) /\ Looks(c, l) /\ l.verified = TRUE /\ l.mark = c.mark /\ l.left = c.left
    BY <2>10, <2>12, VerifiedEven
  <2>14. l.done = k.done BY <2>10, <2>12, VerifiedLike DEF Like
  <2>15. Stands(k, c) BY <2>6, <2>11, StandsTwice DEF Even
  <2>16. Stands(k, l) BY <2>13, <2>15, StandsTwice
  <2>17. l.id = k.id /\ l.mark = Unmarked /\ l.left = SectorLength
    BY <2>6, <2>11, <2>13 DEF Even, Looks, Holds
  <2>18. Steady(l) /\ Under(l) = Under(k) BY <2>16, StandsSteady
  <2>19. Identified(l) BY <2>1, <2>2, <2>3, <2>17, <2>18 DEF Identified
  <2>20. Named(l) BY <1>6, <2>16, <2>17 DEF Named, Stands
  <2>21. Reads(l, k.ptr)
    <3>1. l.mark.found = FALSE /\ l.mark.all = FALSE /\ l.mark.a1s = 0 BY <2>17 DEF Unmarked
    <3>2. IdMark + 7 \in (IdMark + 7)..(DataMark - 1) /\ IdMark + 8 \in (IdMark + 7)..(DataMark - 1)
          /\ IdMark + 7 < DataPrefix /\ IdMark + 8 < DataPrefix /\ (IdMark + 7) + 1 = IdMark + 8
      BY MarkPlaces
    <3>3. IdMark + 7 \in 0..(SectorSpan - 1) BY MarkPlaces, Numbers
    <3>4. CASE t.byte
      <4>1. k.ptr = PlaceOf(s, IdMark + 8) BY <2>2, <3>2, <3>3, <3>4, NextInSector
      <4> QED BY <2>3, <2>17, <3>1, <3>2, <4>1 DEF Reads
    <3>5. CASE ~t.byte BY <2>2, <2>3, <2>17, <3>1, <3>2, <3>5 DEF Reads
    <3> QED BY <3>4, <3>5
  <2>22. Matched(k, l, k.ptr) BY <2>13, <2>16, <2>17, <2>19, <2>20, <2>21 DEF Matched
  <2> QED BY <2>14, <2>22 DEF Comes
<1> QED BY <1>2, <1>3, <1>4, <1>5, <1>6

LEMMA FailLeaves ==
  ASSUME NEW k \in C PROVE Fail(k, NotFound).done = TRUE /\ NotFound \in Fail(k, NotFound).status
<1> DEFINE f == Showing(k, k.status \cup {NotFound})
<1>1. Fail(k, NotFound) = Finish(f) BY DEF Fail, Showing, f
<1>2. k.status \cup {NotFound} \in SUBSET (0..5) BY Fields, Values
<1>3. f \in C /\ f.status = k.status \cup {NotFound} BY <1>2, ShowingKeeps
<1> HIDE DEF f
<1> QED BY <1>1, <1>3, FinishLeaves

\* The bytes between an ID field and the data, and what they make of the count of
\* the prefix.
Ahead(s, q, r, a, b) ==
  \/ /\ r \in (IdMark + 7)..(DataPrefix - 1) /\ r < DataPrefix /\ r \in (IdMark + 7)..(DataMark - 1)
     /\ a = 0 /\ b # 161 /\ b # 251 /\ q = PlaceOf(s, r)
  \/ /\ ~(r < DataPrefix) /\ r \in (IdMark + 7)..(DataMark - 1)
     /\ a < PrefixLength /\ a + 1 = r - DataPrefix + 1 /\ b = 161 /\ b # 251 /\ q = PlaceOf(s, r)
  \/ r = DataMark /\ a = PrefixLength /\ b = 251 /\ q = PlaceOf(s, r)

LEMMA MarkAhead ==
  ASSUME disk \in Images, NEW d \in Drives, NEW u \in Int, InArray(u), NEW s \in 1..Sectors,
         NEW r \in (IdMark + 7)..(DataMark - 1), NEW p, p = PlaceOf(s, r),
         NEW q, q = (p + 1) % TrackLength, NEW b, b = TrackByte(d, u, q),
         NEW a, a = IF r < DataPrefix THEN 0 ELSE r - DataPrefix + 1
  PROVE  Ahead(s, q, r + 1, a, b)
<1>1. r \in 0..(SectorSpan - 1)
  <2> HIDE DEF Ahead
  <2>1. DataMark \in Nat /\ IdMark \in Nat /\ SectorSpan = DataMark + 3 + SectorLength + GapLength BY MarkPlaces
  <2>2. SectorLength \in Nat /\ GapLength \in Nat BY Numbers
  <2> QED BY <2>1, <2>2
<1>2. q = PlaceOf(s, r + 1) BY <1>1, NextInSector
<1>3. BytesOf(d, u, s) BY BytesUnder
<1>4. \A i \in (IdMark + 7)..(DataPrefix - 1) : TrackByte(d, u, PlaceOf(s, i)) \in {0, 78}
  BY <1>3 DEF BytesOf
<1>5. \A i \in DataPrefix..(DataMark - 1) : TrackByte(d, u, PlaceOf(s, i)) = 161
  BY <1>3 DEF BytesOf
<1>6. TrackByte(d, u, PlaceOf(s, DataMark)) = 251 BY <1>3 DEF BytesOf
<1>7. DataMark = DataPrefix + PrefixLength /\ PrefixLength \in Nat /\ PrefixLength >= 1
  BY Numbers DEF DataMark
<1>8. IdMark \in Nat /\ DataPrefix \in Nat /\ DataMark \in Nat /\ DataPrefix >= IdMark + 9
      /\ DataMark >= DataPrefix + 1
  BY MarkPlaces
<1>9. CASE r + 1 < DataPrefix
  <2>1. r + 1 \in (IdMark + 7)..(DataPrefix - 1) /\ r + 1 \in (IdMark + 7)..(DataMark - 1) /\ r < DataPrefix
    BY <1>8, <1>9
  <2>2. b \in {0, 78} BY <1>2, <1>4, <2>1
  <2>3. b # 161 /\ b # 251 BY <2>2
  <2> QED BY <1>2, <1>9, <2>1, <2>3 DEF Ahead
<1>10. CASE r + 1 >= DataPrefix /\ r + 1 < DataMark
  <2>1. r + 1 \in DataPrefix..(DataMark - 1) /\ r + 1 \in (IdMark + 7)..(DataMark - 1) /\ ~(r + 1 < DataPrefix)
    BY <1>8, <1>10
  <2>2. a < PrefixLength /\ a + 1 = (r + 1) - DataPrefix + 1 BY <1>7, <1>8, <1>10
  <2>3. b = 161 BY <1>2, <1>5, <2>1
  <2>4. b # 251 BY <2>3
  <2> QED BY <1>2, <2>1, <2>2, <2>3, <2>4 DEF Ahead
<1>11. CASE r + 1 = DataMark
  <2>1. a = PrefixLength BY <1>7, <1>8, <1>11
  <2> QED BY <1>2, <1>6, <1>11, <2>1 DEF Ahead
<1> QED BY <1>8, <1>9, <1>10, <1>11

\* What the search for the data mark has after a byte of it.
SightedMark(f, m, r) ==
  /\ m \in Marks /\ m.all = FALSE
  /\ \/ m.found = TRUE /\ r = DataMark
     \/ /\ m.found = FALSE /\ r \in (IdMark + 7)..(DataMark - 1)
        /\ m.a1s = IF r < DataPrefix THEN 0 ELSE r - DataPrefix + 1

LEMMA DataAhead ==
  /\ SectorLength \in 0..SectorLength /\ SectorLength > 0 /\ SectorLength # 0
  /\ DataMark + SectorLength - SectorLength = DataMark
<1>1. DataMark \in Nat /\ SectorLength \in Nat /\ SectorLength >= 1 BY MarkPlaces, Numbers
<1> QED BY <1>1

\* The outcome of a byte that continues the search.
LEMMA MarkingComes ==
  ASSUME NEW k \in C, ~k.done, k.name = "READ SECTOR", k.verified, k.mark.found = FALSE,
         k.left = SectorLength, NEW m, NEW r, SightedMark(k.mark, m, r), NEW q, q = PlaceOf(k.id[3], r)
  PROVE  Comes(k, Marked(k, m), q)
<1> DEFINE l == Marked(k, m)
           s == k.id[3]
<1>1. m \in Marks BY DEF SightedMark
<1>2. /\ Stands(k, l) /\ Looks(k, l) /\ l.mark = m /\ l.verified = k.verified /\ l.left = k.left
      /\ l.done = k.done
  BY <1>1, MarkedStands
<1> HIDE DEF l
<1>3. l.id[3] = s /\ l.id = k.id BY <1>2 DEF Looks
<1> HIDE DEF s
<1>4. SectorLength \in 0..SectorLength /\ SectorLength > 0 /\ SectorLength # 0
      /\ DataMark + SectorLength - SectorLength = DataMark
  BY DataAhead
<1>5. q = PlaceOf(s, r) BY DEF s
<1>6. Reads(l, q)
  <2>1. CASE m.found = TRUE /\ r = DataMark
    <3>1. l.mark.found = TRUE /\ l.mark.all = FALSE /\ l.left = SectorLength
      BY <1>2, <2>1 DEF SightedMark
    <3>2. q = PlaceOf(l.id[3], DataMark + SectorLength - l.left) BY <1>3, <1>4, <1>5, <2>1, <3>1
    <3>3. l.left \in 0..SectorLength /\ l.left # 0 BY <1>4, <3>1
    <3>4. l.left > 0 => q = PlaceOf(l.id[3], DataMark + SectorLength - l.left) BY <3>2
    <3>5. l.mark.all <=> l.left = 0 BY <3>1, <3>3
    <3> QED BY <3>1, <3>3, <3>4, <3>5 DEF Reads
  <2>2. CASE /\ m.found = FALSE /\ r \in (IdMark + 7)..(DataMark - 1)
             /\ m.a1s = IF r < DataPrefix THEN 0 ELSE r - DataPrefix + 1
    <3>1. l.mark.found = FALSE /\ l.mark.all = FALSE /\ l.left = SectorLength
          /\ l.mark.a1s = IF r < DataPrefix THEN 0 ELSE r - DataPrefix + 1
      BY <1>2, <2>2 DEF SightedMark
    <3>2. q = PlaceOf(l.id[3], r) BY <1>3, <1>5
    <3> QED BY <2>2, <3>1, <3>2 DEF Reads
  <2> QED BY <2>1, <2>2 DEF SightedMark
<1>7. l.mark.found = TRUE \/ k.mark.found = FALSE OBVIOUS
<1>8. Marking(k, l, q) BY <1>2, <1>3, <1>6 DEF Marking
<1> QED BY <1>2, <1>8 DEF Comes, l

\* What the bytes of the search make of the mark.
LEMMA MarkNumbers ==
  ASSUME NEW f \in Marks, f.misses < DataLimit
  PROVE  /\ [f EXCEPT !.found = TRUE] \in Marks
         /\ f.a1s < PrefixLength => [f EXCEPT !.a1s = f.a1s + 1] \in Marks
         /\ [f EXCEPT !.a1s = 0, !.misses = f.misses + 1] \in Marks
<1>1. f.a1s \in 0..PrefixLength /\ f.misses \in 0..DataLimit BY DEF Marks
<1> DEFINE a == f.a1s
           n == f.misses
<1>2. a \in 0..PrefixLength /\ n \in 0..DataLimit /\ n < DataLimit BY <1>1
<1> HIDE DEF a, n
<1>3. (a < PrefixLength => a + 1 \in 0..PrefixLength) /\ n + 1 \in 0..DataLimit /\ 0 \in 0..PrefixLength
  BY <1>2, Numbers
<1>4. [f EXCEPT !.found = TRUE] \in Marks BY Values DEF Marks
<1>5. a < PrefixLength => [f EXCEPT !.a1s = a + 1] \in Marks BY <1>3 DEF Marks
<1>6. [f EXCEPT !.a1s = 0, !.misses = n + 1] \in Marks BY <1>3 DEF Marks
<1> QED BY <1>4, <1>5, <1>6 DEF a, n

\* A byte of the search for the data mark.
LEMMA MarkSearchComes ==
  ASSUME NEW k \in C, k.type = 2, ~k.done, k.name = "READ SECTOR", k.verified,
         k.mark.misses < DataLimit,
         Identified(k), ~k.mark.found, NEW p, Reads(k, p),
         NEW q, q = (p + 1) % TrackLength,
         NEW b, b = TrackByte(k.loaded, Under(k), q), disk \in Images
  PROVE  Comes(k, DataAddressMarkSearch(k, b), q)
<1> DEFINE f == k.mark
           s == k.id[3]
           m1 == [f EXCEPT !.found = TRUE]
           m2 == [f EXCEPT !.a1s = f.a1s + 1]
           m3 == [f EXCEPT !.a1s = 0, !.misses = f.misses + 1]
           l == DataAddressMarkSearch(k, b)
<1> SUFFICES Comes(k, l, q) OBVIOUS
<1>1. f \in Marks /\ f.misses < DataLimit BY Fields
<1>3. \E r \in (IdMark + 7)..(DataMark - 1) :
        /\ p = PlaceOf(s, r)
        /\ f.a1s = IF r < DataPrefix THEN 0 ELSE r - DataPrefix + 1
  BY DEF Reads
<1>4. s \in 1..Sectors /\ Under(k) \in Int /\ InArray(Under(k)) /\ k.loaded \in Drives
  BY UnderInt, Fields DEF Identified
<1>5. PICK r : Ahead(s, q, r, f.a1s, b)
  <2> HIDE DEF f, s
  <2>1. PICK r \in (IdMark + 7)..(DataMark - 1) :
          /\ p = PlaceOf(s, r)
          /\ f.a1s = IF r < DataPrefix THEN 0 ELSE r - DataPrefix + 1
    BY <1>3
  <2>2. Ahead(s, q, r + 1, f.a1s, b) BY <1>4, <2>1, MarkAhead
  <2> QED BY <2>2
<1>10. k.left = SectorLength /\ f.all = FALSE /\ f.found = FALSE
  BY <1>1 DEF Reads, Marks, Flag
<1>11. l = IF f.a1s = PrefixLength /\ b = 251 THEN Marked(k, m1)
           ELSE IF f.a1s < PrefixLength /\ b = 161 THEN Marked(k, m2)
           ELSE IF m3.misses >= DataLimit THEN Fail(Marked(k, m3), NotFound) ELSE Marked(k, m3)
  <2> DEFINE x == [k EXCEPT !.mark.a1s = 0, !.mark.misses = @ + 1]
             y == Marked(k, m3)
  <2>1. x = y
    <3> DEFINE z == [k EXCEPT !.mark = [k.mark EXCEPT !.a1s = 0]]
               m4 == [z.mark EXCEPT !.misses = z.mark.misses + 1]
    <3>1. x = [z EXCEPT !.mark = m4] OBVIOUS
    <3>2. z.mark = [k.mark EXCEPT !.a1s = 0] BY DEF C, ControllerWith
    <3>3. m4 = m3 BY <1>1, <3>2 DEF Marks
    <3>4. [z EXCEPT !.mark = m4] = [k EXCEPT !.mark = m4] OBVIOUS
    <3> QED BY <3>1, <3>3, <3>4 DEF Marked
  <2>2. y.mark.misses = m3.misses BY DEF Marked, C, ControllerWith
  <2>3. l = IF k.mark.a1s = PrefixLength /\ b = 251 THEN Marked(k, m1)
              ELSE IF k.mark.a1s < PrefixLength /\ b = 161 THEN Marked(k, m2)
              ELSE IF x.mark.misses >= DataLimit THEN Fail(x, NotFound) ELSE x
    BY DEF DataAddressMarkSearch, Marked, m1, m2, f
  <2> HIDE DEF x, y, m1, m2, m3, l
  <2> QED BY <2>1, <2>2, <2>3 DEF y
<1>6. m1 \in Marks /\ (f.a1s < PrefixLength => m2 \in Marks) /\ m3 \in Marks
  <2> HIDE DEF f
  <2> QED BY <1>1, MarkNumbers
<1>7. /\ m1.found = TRUE /\ m1.all = f.all
      /\ m2.found = f.found /\ m2.all = f.all /\ m2.a1s = f.a1s + 1
      /\ m3.found = f.found /\ m3.all = f.all /\ m3.a1s = 0
  <2> HIDE DEF f
  <2> QED BY <1>1 DEF Marks
<1>8. s = k.id[3] /\ f = k.mark OBVIOUS
<1> HIDE DEF l, m1, m2, m3, f, s
<1>9. \A m : SightedMark(f, m, r) => Comes(k, Marked(k, m), q)
  <2> SUFFICES ASSUME NEW m, SightedMark(f, m, r) PROVE Comes(k, Marked(k, m), q) OBVIOUS
  <2>1. q = PlaceOf(k.id[3], r) BY <1>5, <1>8 DEF Ahead
  <2> QED BY <1>8, <1>10, <2>1, MarkingComes
<1>13. CASE f.a1s = 0 /\ b # 161 /\ b # 251 /\ r < DataPrefix /\ r \in (IdMark + 7)..(DataMark - 1)
  <2>0. l = IF m3.misses >= DataLimit THEN Fail(Marked(k, m3), NotFound) ELSE Marked(k, m3)
    BY <1>11, <1>13, Zenon
  <2>1. CASE m3.misses >= DataLimit
    <3> DEFINE x == Marked(k, m3)
    <3>1. l = Fail(x, NotFound) BY <2>0, <2>1
    <3>3. x \in C BY <1>6, MarkedStands DEF Stands
    <3> HIDE DEF x
    <3>4. l.done = TRUE /\ NotFound \in l.status BY <3>1, <3>3, FailLeaves
    <3> QED BY <3>4 DEF Comes, Ended
  <2>2. CASE ~(m3.misses >= DataLimit)
    <3>1. l = Marked(k, m3) BY <2>0, <2>2
    <3>2. SightedMark(f, m3, r) BY <1>6, <1>7, <1>10, <1>13 DEF SightedMark
    <3> QED BY <1>9, <3>1, <3>2
  <2> QED BY <2>1, <2>2
<1>14. CASE /\ ~(r < DataPrefix) /\ r \in (IdMark + 7)..(DataMark - 1)
            /\ f.a1s < PrefixLength /\ f.a1s + 1 = r - DataPrefix + 1 /\ b = 161 /\ b # 251
  <2>1. l = Marked(k, m2) BY <1>11, <1>14, Zenon
  <2>2. m2.a1s = f.a1s + 1 /\ m2.all = FALSE /\ m2.found = FALSE BY <1>7, <1>10, Zenon
  <2>3. m2 \in Marks BY <1>6, <1>14, Zenon
  <2>5. ~(r < DataPrefix) /\ f.a1s + 1 = r - DataPrefix + 1 BY <1>14, Zenon
  <2>6. m2.a1s = IF r < DataPrefix THEN 0 ELSE r - DataPrefix + 1
    <3> DEFINE a == r - DataPrefix + 1
               low == r < DataPrefix
    <3>1. ~low /\ m2.a1s = a BY <2>2, <2>5
    <3> HIDE DEF a, low
    <3>2. m2.a1s = IF low THEN 0 ELSE a BY <3>1
    <3> QED BY <3>2 DEF a, low
  <2>4. SightedMark(f, m2, r) BY <1>14, <2>2, <2>6, <2>3, Zenon DEF SightedMark
  <2> QED BY <1>9, <2>1, <2>4
<1>15. CASE r = DataMark /\ f.a1s = PrefixLength /\ b = 251
  <2>1. l = Marked(k, m1) BY <1>11, <1>15
  <2>2. SightedMark(f, m1, r) BY <1>6, <1>7, <1>10, <1>15 DEF SightedMark
  <2> QED BY <1>9, <2>1, <2>2
<1> QED BY <1>5, <1>13, <1>14, <1>15 DEF Ahead

-----------------------------------------------------------------------------
(* A byte of the data. *)

LEMMA NoteLostEven ==
  ASSUME NEW k \in C PROVE Even(k, NoteLost(k)) /\ NoteLost(k).done = k.done
<1> DEFINE s == IF k.drq THEN k.status \cup {LostData} ELSE k.status \ {LostData}
<1>1. s \in SUBSET (0..5) BY Fields, Statuses DEF LostData, NotFound
<1> HIDE DEF s
<1>2. Even(k, Showing(k, s)) /\ Showing(k, s).done = k.done BY <1>1, ShowingEven, ShowingKeeps
<1> QED BY <1>2 DEF NoteLost, Showing, s

LEMMA DeliverEven ==
  ASSUME NEW k \in C, NEW b \in Byte
  PROVE  Even(k, Deliver(k, b)) /\ Deliver(k, b).data = b /\ Deliver(k, b).done = k.done
<1> DEFINE s == k.status \cup {DataRequest}
           l == [k EXCEPT !.data = b, !.drq = TRUE, !.status = s]
<1>1. s \in SUBSET (0..5) BY Fields, Statuses DEF DataRequest, NotFound
<1>2. Deliver(k, b) = l BY DEF Deliver
<1> HIDE DEF s
<1>3. Even(k, l) /\ l.data = b /\ l.done = k.done
  BY <1>1, Values, ZenonT(60) DEF Even, Stands, Looks, Holds, C, ControllerWith
<1> QED BY <1>2, <1>3

LEMMA LeftDone ==
  ASSUME NEW k \in C, NEW n \in Int PROVE Left(k, n).data = k.data /\ Left(k, n).done = k.done
  BY ZenonT(60) DEF C, ControllerWith, Left

LEMMA DataByteFields ==
  ASSUME NEW k \in C, NEW b \in Byte
  PROVE  /\ Stands(k, DataByte(k, b)) /\ Looks(k, DataByte(k, b)) /\ DataByte(k, b).done = k.done
         /\ DataByte(k, b).data = b /\ DataByte(k, b).left = k.left - 1
         /\ DataByte(k, b).verified = k.verified
         /\ DataByte(k, b).mark.found = k.mark.found
         /\ DataByte(k, b).mark.all = (k.left = 1)
<1> DEFINE n == NoteLost(k)
           d == Deliver(n, b)
           i == d.left - 1
           a == k.left = 1
           m == [d.mark EXCEPT !.all = a]
           e == Left(d, i)
           l == Marked(e, m)
<1>12. DataByte(k, b) = l
  <2>0. d \in C
    <3>1. n \in C BY NoteLostEven DEF Even, Stands
    <3> HIDE DEF n
    <3>2. d \in C BY <3>1, DeliverEven DEF Even, Stands
    <3> QED BY <3>2
  <2>1. Left(d, i).mark = d.mark BY <2>0 DEF C, ControllerWith, Left
  <2>2. DataByte(k, b) = [d EXCEPT !.left = i, !.mark.all = a] BY DEF DataByte, d, n, i, a
  <2>3. [d EXCEPT !.left = i, !.mark.all = a]
          = [Left(d, i) EXCEPT !.mark = [Left(d, i).mark EXCEPT !.all = a]]
    BY DEF Left
  <2> QED BY <2>1, <2>2, <2>3 DEF Marked, m
<1>1. Even(k, n) /\ n \in C /\ n.done = k.done BY NoteLostEven DEF Even, Stands
<1> HIDE DEF n
<1>2. Even(n, d) /\ d \in C /\ d.done = n.done /\ d.data = b BY <1>1, DeliverEven DEF Even, Stands
<1>3. Even(k, d) BY <1>1, <1>2, EvenTwice
<1> HIDE DEF d
<1>4. d.left \in Int /\ d.mark \in Marks BY <1>2, Fields
<1>5. i \in Int /\ i = k.left - 1 BY <1>3, <1>4 DEF Even, Holds
<1>6. a \in Flag BY DEF Flag
<1> HIDE DEF i, a
<1>7. m \in Marks /\ m.found = d.mark.found /\ m.all = a BY <1>4, <1>6 DEF Marks
<1> HIDE DEF m
<1>8. /\ Stands(d, e) /\ Looks(d, e) /\ e \in C /\ e.left = i /\ e.verified = d.verified
      /\ e.data = d.data /\ e.done = d.done
  BY <1>2, <1>5, LeftEven, LeftDone DEF Stands
<1> HIDE DEF e
<1>9. /\ Stands(e, l) /\ Looks(e, l) /\ l.mark = m /\ l.verified = e.verified /\ l.left = e.left
      /\ l.data = e.data /\ l.done = e.done
  BY <1>7, <1>8, MarkedStands
<1> HIDE DEF l
<1>10. Stands(k, l) BY <1>3, <1>8, <1>9, StandsTwice DEF Even
<1>11. Looks(k, l) BY <1>3, <1>8, <1>9 DEF Even, Looks
<1>13. /\ l.done = k.done /\ l.data = b /\ l.left = k.left - 1 /\ l.verified = k.verified
       /\ l.mark.found = k.mark.found /\ l.mark.all = a
  BY <1>1, <1>2, <1>3, <1>5, <1>7, <1>8, <1>9 DEF Even, Holds
<1> QED BY <1>10, <1>11, <1>12, <1>13 DEF a

LEMMA DataPlaces ==
  ASSUME NEW n \in 0..SectorLength, n # 0
  PROVE  /\ n > 0 /\ n - 1 \in 0..SectorLength /\ ((n = 1) <=> (n - 1 = 0))
         /\ DataMark + SectorLength - n \in 0..(SectorSpan - 1)
         /\ (DataMark + SectorLength - n) + 1 = DataMark + SectorLength - (n - 1)
         /\ (DataMark + SectorLength - n) + 1 = DataMark + (SectorLength - n + 1)
<1>1. DataMark \in Nat /\ SectorSpan = DataMark + 3 + SectorLength + GapLength BY MarkPlaces
<1>2. SectorLength \in Nat /\ GapLength \in Nat BY Numbers
<1> QED BY <1>1, <1>2

LEMMA DataByteComes ==
  ASSUME NEW k \in C, ~k.done, k.name = "READ SECTOR", k.verified, k.mark.found, ~k.mark.all,
         Identified(k), NEW p, Reads(k, p), NEW q, q = (p + 1) % TrackLength,
         NEW b \in Byte, b = TrackByte(k.loaded, Under(k), q)
  PROVE  Comes(k, DataByte(k, b), q)
<1> DEFINE l == DataByte(k, b)
           s == k.id[3]
           n == k.left
<1>1. /\ Stands(k, l) /\ Looks(k, l) /\ l.done = k.done /\ l.data = b /\ l.left = n - 1
      /\ l.verified = k.verified /\ l.mark.found = k.mark.found /\ l.mark.all = (n = 1)
  BY DataByteFields
<1>2. n \in 0..SectorLength /\ n # 0 /\ (n > 0 => p = PlaceOf(s, DataMark + SectorLength - n))
  BY DEF Reads
<1>3. s \in 1..Sectors BY DEF Identified
<1>4. l.id[3] = s BY <1>1 DEF Looks
<1> SUFFICES Comes(k, l, q) OBVIOUS
<1>5. n = k.left /\ s = k.id[3] OBVIOUS
<1> HIDE DEF l, s, n
<1>6. /\ n > 0 /\ n - 1 \in 0..SectorLength /\ ((n = 1) <=> (n - 1 = 0))
      /\ DataMark + SectorLength - n \in 0..(SectorSpan - 1)
      /\ (DataMark + SectorLength - n) + 1 = DataMark + SectorLength - (n - 1)
      /\ (DataMark + SectorLength - n) + 1 = DataMark + (SectorLength - n + 1)
  BY <1>2, DataPlaces
<1>7. q = PlaceOf(s, (DataMark + SectorLength - n) + 1) BY <1>2, <1>3, <1>6, NextInSector
<1>8. q = PlaceOf(s, DataMark + SectorLength - (n - 1)) /\ q = PlaceOf(s, DataMark + (SectorLength - n + 1))
  BY <1>6, <1>7
<1>9. Reads(l, q)
  <2>1. l.mark.found BY <1>1
  <2>2. l.left \in 0..SectorLength BY <1>1, <1>6
  <2>3. l.mark.all <=> l.left = 0 BY <1>1, <1>6
  <2>4. q = PlaceOf(l.id[3], DataMark + SectorLength - l.left) BY <1>1, <1>4, <1>8
  <2> QED BY <2>1, <2>2, <2>3, <2>4 DEF Reads
<1>10. l.data = TrackByte(k.loaded, Under(k), PlaceOf(k.id[3], DataMark + (SectorLength - k.left + 1)))
  BY <1>1, <1>5, <1>8
<1>11. k.left > 0 /\ l.left = k.left - 1 BY <1>1, <1>5, <1>6
<1>12. Delivered(k, l, q) BY <1>1, <1>9, <1>10, <1>11 DEF Delivered, Looks
<1> QED BY <1>1, <1>12 DEF Comes

-----------------------------------------------------------------------------
(* The end of a sector. *)

LEMMA NextSector ==
  ASSUME NEW k \in C
  PROVE  /\ (k.sector + 1) % 256 \in Byte
         /\ Sector(k, (k.sector + 1) % 256) \in C
         /\ Sector(k, (k.sector + 1) % 256).sector = (k.sector + 1) % 256
         /\ Sector(k, (k.sector + 1) % 256).left = k.left
         /\ Sector(k, (k.sector + 1) % 256).done = k.done
<1> DEFINE s == (k.sector + 1) % 256
<1>1. k.sector \in Byte BY Fields
<1>2. s \in Byte BY <1>1 DEF Byte
<1> HIDE DEF s
<1>3. Sector(k, s) \in C /\ Sector(k, s).sector = s /\ Sector(k, s).left = k.left /\ Sector(k, s).done = k.done
  BY <1>2, ZenonT(60) DEF C, ControllerWith, Sector
<1> QED BY <1>2, <1>3 DEF s

LEMMA NoneBehind == \A s \in Byte : s > Sectors \/ s <= Sectors
  BY Numbers DEF Byte

LEMMA NextRecordComes ==
  ASSUME NEW k \in C, ~k.done, k.name = "READ SECTOR", k.verified, k.mark.found, k.mark.all,
         k.multi, NEW p
  PROVE  Comes(k, NextRecord(k), p)
<1> DEFINE s == (k.sector + 1) % 256
           n == Sector(k, s)
           l == [n EXCEPT !.index = 0, !.verified = FALSE, !.find = Unfound, !.mark = Unmarked]
<1>1. n \in C /\ n.sector = s /\ n.left = k.left /\ n.done = k.done BY NextSector
<1>2. NextRecord(k) = IF n.sector > Sectors THEN Finish(n) ELSE l
  BY DEF NextRecord, n, l, s, Sector
<1> HIDE DEF n
<1>3. CASE s > Sectors
  <2>1. NextRecord(k) = Finish(n) BY <1>1, <1>2, <1>3
  <2>2. Finish(n).done = TRUE BY <1>1, FinishLeaves
  <2>3. Ended(k, Finish(n)) BY <1>3, <2>2, Zenon DEF Ended
  <2> QED BY <2>1, <2>3, Zenon DEF Comes
<1>4. CASE ~(s > Sectors)
  <2>1. NextRecord(k) = l BY <1>1, <1>2, <1>4
  <2>2. Stands(n, l) /\ l.find = Unfound /\ l.mark = Unmarked /\ l.left = n.left /\ l.verified = FALSE
        /\ l.done = n.done
    BY <1>1, Values, ZenonT(60) DEF Stands, C, ControllerWith, Finds, Marks
  <2>3. s <= Sectors
    <3>1. s \in Byte BY NextSector
    <3> HIDE DEF s
    <3> QED BY <1>4, <3>1, NoneBehind
  <2> HIDE DEF l
  <2>4. Continued(k, l) BY <1>1, <2>2, <2>3 DEF Continued, n
  <2> QED BY <1>1, <2>1, <2>2, <2>4 DEF Comes
<1> QED BY <1>3, <1>4

-----------------------------------------------------------------------------
(* A step of a type II command. *)

LEMMA ReadSectorComes ==
  ASSUME NEW k, Active(k), k.type = 2, k.name = "READ SECTOR", k.verified, Identified(k),
         NEW p, Reads(k, p), NEW t \in Times, disk \in Images,
         k.ptr = IF t.byte THEN (p + 1) % TrackLength ELSE p
  PROVE  Comes(k, ReadSector(k, t), k.ptr)
<1> DEFINE b == GetFDiskByte(k, t.junk)
           l == ReadSector(k, t)
<1> SUFFICES Comes(k, l, k.ptr) OBVIOUS
<1>1. k \in C /\ ~k.done /\ k.mark.misses < DataLimit BY DEF Active
<1>2. l = IF ~k.mark.found THEN IF t.byte THEN DataAddressMarkSearch(k, b) ELSE k
          ELSE IF ~k.mark.all THEN IF t.byte THEN DataByte(k, b) ELSE k
          ELSE IF k.multi THEN NextRecord(k) ELSE Finish(k)
  BY DEF ReadSector
<1>3. b = TrackByte(k.loaded, Under(k), k.ptr) BY BytesRead DEF Identified
<1>4. b \in Byte BY <1>1, DiskBytes DEF Times
<1> HIDE DEF b, l
<1>5. CASE ~k.mark.found /\ t.byte
  <2>1. l = DataAddressMarkSearch(k, b) BY <1>2, <1>5
  <2>2. k.ptr = (p + 1) % TrackLength BY <1>5
  <2> QED BY <1>1, <1>3, <1>5, <2>1, <2>2, MarkSearchComes
<1>6. CASE k.mark.found /\ ~k.mark.all /\ t.byte
  <2>1. l = DataByte(k, b) BY <1>2, <1>6
  <2>2. k.ptr = (p + 1) % TrackLength BY <1>6
  <2> QED BY <1>1, <1>3, <1>4, <1>6, <2>1, <2>2, DataByteComes
<1>7. CASE ~t.byte /\ (~k.mark.found \/ ~k.mark.all)
  <2>1. l = k /\ k.ptr = p BY <1>2, <1>7
  <2>2. Stands(k, k) BY <1>1, EvenSelf DEF Even
  <2>3. Reads(k, k.ptr) BY <2>1
  <2>4. Marking(k, k, k.ptr) BY <2>2, <2>3 DEF Marking
  <2> QED BY <1>1, <2>1, <2>4 DEF Comes
<1>8. CASE k.mark.found /\ k.mark.all /\ k.multi
  <2>1. l = NextRecord(k) BY <1>2, <1>8
  <2> QED BY <1>1, <1>8, <2>1, NextRecordComes
<1>9. CASE k.mark.found /\ k.mark.all /\ ~k.multi
  <2>1. l = Finish(k) BY <1>2, <1>9
  <2>2. l.done = TRUE BY <1>1, <2>1, FinishLeaves
  <2>3. Ended(k, l) BY <1>9, <2>2 DEF Ended
  <2> QED BY <2>3 DEF Comes
<1> QED BY <1>5, <1>6, <1>7, <1>8, <1>9

LEMMA WriteSectorComes ==
  ASSUME NEW k, Active(k), k.name = "WRITE SECTOR", k.verified, NEW stray, NEW p
  PROVE  Comes(k, WriteSector(k, stray), p)
<1> DEFINE d == Target(k, stray)
           l == IF d \in Drives \ Protected THEN Loaded(k, d) ELSE k
           m == WriteSector(k, stray)
<1>1. k \in C BY DEF Active
<1> HIDE DEF d
<1>2. l \in C BY <1>1, LoadedLike DEF Like
<1>4. m = Finish(l) BY DEF WriteSector, l, d, Loaded
<1> HIDE DEF l, m
<1>5. m.done = TRUE BY <1>2, <1>4, FinishLeaves
<1>6. k.name # "READ SECTOR" OBVIOUS
<1>7. Ended(k, m) BY <1>5, <1>6 DEF Ended
<1> QED BY <1>7 DEF Comes, m

\* What leaves a command where it is does not change what comes.
LEMMA SectorStands ==
  ASSUME NEW k \in C, NEW l, Stands(k, l), NEW s \in Byte PROVE Stands(Sector(k, s), Sector(l, s))
  BY ZenonT(60) DEF Stands, C, ControllerWith, Sector

LEMMA EvenComes ==
  ASSUME NEW k \in C, NEW l, Even(k, l), NEW m, NEW p, Comes(l, m, p) PROVE Comes(k, m, p)
<1>1. Stands(k, l) /\ Holds(k, l) /\ l.id = k.id BY DEF Even, Looks
<1>2. l.verified = k.verified /\ l.mark = k.mark /\ l.left = k.left BY <1>1 DEF Holds
<1>3. /\ l.name = k.name /\ l.sector = k.sector /\ l.multi = k.multi /\ l.loaded = k.loaded
      /\ Under(l) = Under(k) /\ l \in C
  BY <1>1, StandsSteady DEF Stands
<1>4. Ended(l, m) => Ended(k, m) BY <1>2, <1>3 DEF Ended
<1>5. Stands(l, m) => Stands(k, m) BY <1>1, StandsTwice
<1>6. SearchesOn(l, m, p) => SearchesOn(k, m, p) BY <1>2, <1>5 DEF SearchesOn
<1>7. Matched(l, m, p) => Matched(k, m, p) BY <1>2, <1>5 DEF Matched
<1>8. Marking(l, m, p) => Marking(k, m, p) BY <1>1, <1>2, <1>3, <1>5 DEF Marking
<1>9. Delivered(l, m, p) => Delivered(k, m, p) BY <1>1, <1>2, <1>3, <1>5 DEF Delivered
<1>10. Continued(l, m) => Continued(k, m)
  <2> DEFINE s == (k.sector + 1) % 256
  <2>1. s \in Byte BY NextSector
  <2>2. (l.sector + 1) % 256 = s BY <1>3
  <2> HIDE DEF s
  <2>3. Stands(Sector(k, s), Sector(l, s)) BY <1>1, <2>1, SectorStands
  <2>4. Stands(Sector(l, s), m) => Stands(Sector(k, s), m) BY <2>3, StandsTwice
  <2>5. Continued(l, m) =>
          /\ Stands(Sector(l, s), m) /\ s <= Sectors
          /\ l.verified /\ ~m.verified /\ l.name = "READ SECTOR" /\ l.multi /\ l.mark.found /\ l.mark.all
          /\ m.find = Unfound /\ m.mark = Unmarked /\ m.left = l.left
    BY <2>2, Zenon DEF Continued
  <2>6. /\ Stands(Sector(k, s), m) /\ s <= Sectors
        /\ k.verified /\ ~m.verified /\ k.name = "READ SECTOR" /\ k.multi /\ k.mark.found /\ k.mark.all
        /\ m.find = Unfound /\ m.mark = Unmarked /\ m.left = k.left
        => Continued(k, m)
    BY Zenon DEF Continued, s
  <2> QED BY <1>2, <1>3, <2>4, <2>5, <2>6, Zenon
<1> QED BY <1>4, <1>6, <1>7, <1>8, <1>9, <1>10 DEF Comes

LEMMA TypeIIStepComes ==
  ASSUME NEW k, Active(k), k.type = 2,
         NEW p \in 0..(TrackLength - 1), OnTrackII(k, p),
         NEW t \in Times, t.junk \in Junk, k.ptr = IF t.byte THEN (p + 1) % TrackLength ELSE p,
         disk \in Images, NoFalseMarks
  PROVE  Comes(k, TypeIIStep(k, t), k.ptr)
<1> DEFINE e == EDelay(k, t)
           v == Verifying(e, TRUE)
           u == Verifying(e, FALSE)
           l == TypeIIStep(k, t)
<1> SUFFICES Comes(k, l, k.ptr) OBVIOUS
<1>1. l = IF EWaits(e) \/ ~e.hlt THEN e
          ELSE IF ~e.verified THEN TypeIICmdIDVerify(v, t)
          ELSE IF e.name = "READ SECTOR" THEN ReadSector(u, t) ELSE WriteSector(u, t.stray)
  BY DEF TypeIIStep, v, u, e, Verifying
<1>2. k \in C /\ ~k.done BY DEF Active
<1>3. Even(k, e) /\ Like(k, e) BY <1>2, EDelayEven, EDelayLike
<1> HIDE DEF l, e
<1>4. e \in C /\ e.type = 2 /\ ~e.done /\ e.ptr = k.ptr BY <1>2, <1>3 DEF Like, Same, Kept
<1>5. Even(e, v) /\ Like(e, v) /\ Even(e, u) /\ Like(e, u) BY <1>4, VerifyingEven, VerifyingLike, Values
<1>6. Even(k, v) /\ Even(k, u) BY <1>3, <1>5, EvenTwice
<1> HIDE DEF v, u
<1>7. v \in C /\ v.type = 2 /\ ~v.done /\ v.ptr = k.ptr /\ u.type = 2 /\ u.ptr = k.ptr
  BY <1>4, <1>5 DEF Like, Same, Kept
<1>8. Active(u)
  <2>1. Active(e) BY <1>3, LikeGoes
  <2> QED BY <1>5, <2>1, LikeGoes
<1>9. CASE EWaits(e) \/ ~e.hlt
  <2>1. l = e /\ ~Steady(e) BY <1>1, <1>4, <1>9 DEF Steady
  <2>2. ~Steady(k) BY <1>3, <2>1, StandsSteady DEF Even
  <2>3. ~k.verified BY <2>2 DEF OnTrackII, Identified
  <2>4. Seen(e, p) BY <1>3, <2>3, EvenSeen DEF OnTrackII
  <2>5. Seen(e, k.ptr) BY <1>4, <2>1, <2>4, UnsteadyBlank, BlankSeen
  <2>6. SearchesOn(k, e, k.ptr) BY <1>3, <2>3, <2>5 DEF SearchesOn, Even, Holds
  <2> QED BY <1>4, <2>1, <2>6 DEF Comes
<1>10. CASE ~(EWaits(e) \/ ~e.hlt)
  <2>0. e.type # 1 BY <1>4
  <2>1. Steady(e) BY <1>10, <2>0, Zenon DEF Steady
  <2>2. Steady(v) /\ Steady(u) BY <1>5, <2>1, StandsSteady DEF Even
  <2>3. /\ e.verified = k.verified /\ e.name = k.name /\ v.verified = k.verified /\ v.mark = k.mark
        /\ u.verified = k.verified /\ u.name = k.name
    BY <1>3, <1>6 DEF Even, Stands, Holds
  <2>4. CASE ~k.verified
    <3>1. l = TypeIICmdIDVerify(v, t) BY <1>1, <1>10, <2>3, <2>4
    <3>2. Seen(v, p) BY <1>6, <2>4, EvenSeen DEF OnTrackII
    <3>3. v.mark = Unmarked BY <2>3, <2>4 DEF OnTrackII
    <3>4. v.ptr = IF t.byte THEN (p + 1) % TrackLength ELSE p BY <1>7
    <3>5. Comes(v, TypeIICmdIDVerify(v, t), v.ptr)
      BY <1>7, <2>2, <2>3, <2>4, <3>2, <3>3, <3>4, TypeIICmdIDVerifyComes
    <3> QED BY <1>2, <1>6, <1>7, <3>1, <3>5, EvenComes
  <2>5. CASE k.verified /\ k.name = "READ SECTOR"
    <3>1. l = ReadSector(u, t) BY <1>1, <1>10, <2>3, <2>5
    <3>2. Identified(k) /\ Reads(k, p) BY <2>5 DEF OnTrackII
    <3>3. u.id = k.id /\ u.mark = k.mark /\ u.left = k.left /\ Under(u) = Under(k)
      BY <1>6, StandsSteady DEF Even, Looks, Holds
    <3>4. Identified(u) /\ Reads(u, p) BY <2>2, <3>2, <3>3 DEF Identified, Reads
    <3>5. u.ptr = IF t.byte THEN (p + 1) % TrackLength ELSE p BY <1>7
    <3>6. Comes(u, ReadSector(u, t), u.ptr) BY <1>7, <1>8, <2>3, <2>5, <3>4, <3>5, ReadSectorComes
    <3> QED BY <1>2, <1>6, <1>7, <3>1, <3>6, EvenComes
  <2>6. CASE k.verified /\ k.name # "READ SECTOR"
    <3>1. l = WriteSector(u, t.stray) BY <1>1, <1>10, <2>3, <2>6
    <3>2. u.name = "WRITE SECTOR" BY <2>3, <2>6 DEF OnTrackII
    <3>3. Comes(u, l, u.ptr) BY <1>8, <2>3, <2>6, <3>1, <3>2, WriteSectorComes
    <3> QED BY <1>2, <1>6, <1>7, <3>3, EvenComes
  <2> QED BY <2>4, <2>5, <2>6
<1> QED BY <1>9, <1>10

\* A command that goes on is where it was, or where the byte has brought it.
LEMMA IdentifiedStands ==
  ASSUME NEW k, NEW l, Stands(k, l), l.id = k.id, Identified(k) PROVE Identified(l)
  BY StandsSteady DEF Identified

LEMMA ComesOnTrack ==
  ASSUME NEW k \in C, NEW l, NEW p, NEW q, OnTrackII(k, q), Comes(k, l, p), ~l.done
  PROVE  OnTrackII(l, p)
<1>1. CASE SearchesOn(k, l, p)
  <2>1. l.name = k.name BY <1>1 DEF SearchesOn, Stands
  <2> QED BY <1>1, <2>1 DEF SearchesOn, OnTrackII
<1>2. CASE Matched(k, l, p)
  <2>1. l.name = k.name BY <1>2 DEF Matched, Stands
  <2> QED BY <1>2, <2>1 DEF Matched, OnTrackII
<1>3. CASE Marking(k, l, p) \/ Delivered(k, l, p)
  <2>1. Stands(k, l) /\ k.verified /\ l.verified /\ l.id = k.id /\ Reads(l, p)
    BY <1>3 DEF Marking, Delivered
  <2>2. Identified(l) BY <2>1, IdentifiedStands DEF OnTrackII
  <2>3. l.name = k.name BY <2>1 DEF Stands
  <2> QED BY <2>1, <2>2, <2>3 DEF OnTrackII
<1>4. CASE Continued(k, l)
  <2>1. ~l.verified /\ l.find = Unfound /\ l.mark = Unmarked BY <1>4 DEF Continued
  <2>2. Seen(l, p) BY <2>1, UnfoundBlank, BlankSeen
  <2>3. l.name = k.name
    <3> DEFINE s == (k.sector + 1) % 256
    <3>1. s \in Byte BY NextSector
    <3>2. Stands(Sector(k, s), l) BY <1>4 DEF Continued
    <3> HIDE DEF s
    <3>3. Sector(k, s).name = k.name BY <3>1 DEF C, ControllerWith, Sector
    <3> QED BY <3>2, <3>3 DEF Stands
  <2> QED BY <2>1, <2>2, <2>3 DEF OnTrackII
<1> QED BY <1>1, <1>2, <1>3, <1>4 DEF Comes, Ended

-----------------------------------------------------------------------------
(* A cycle. *)

\* Only the head load timer and the count of pulses without a command change.
Idles(k, l) ==
  /\ Even(k, l) /\ l.ptr = k.ptr /\ l.done = k.done /\ l.status = k.status /\ l.data = k.data
LEMMA HandleHLDIdleIdles ==
  ASSUME NEW k \in C, k.idle < IdlePulses PROVE Idles(k, HandleHLDIdle(k))
<1> DEFINE z == [k EXCEPT !.idle = 0]
<1>1. Idles(k, z) BY Values, ZenonT(60) DEF Idles, Even, Stands, Looks, Holds, C, ControllerWith
<1>2. Idles(k, k) BY EvenSelf DEF Idles
<1>3. ~(k.idle >= IdlePulses)
  <2>1. k.idle \in 0..IdlePulses BY Fields
  <2> QED BY <2>1, Numbers
<1>4. HandleHLDIdle(k) = IF Busy \in k.status THEN z ELSE k BY <1>3 DEF HandleHLDIdle, z
<1> HIDE DEF z
<1> QED BY <1>1, <1>2, <1>4

\* A cycle from k to l in which the command takes the step from b to s.
TakesStep(k, b, s, l, t) ==
  /\ Active(k) /\ Even(k, b) /\ Active(b)
  /\ b.ptr = IF t.byte THEN (k.ptr + 1) % TrackLength ELSE k.ptr
  /\ s = CommandStep(b, t) /\ s.ptr = b.ptr /\ s.type = b.type /\ (Active(s) \/ Over(s)) /\ Idles(s, l)

LEMMA CycleTakesStep ==
  ASSUME NEW k, Sound(k), k.idle < IdlePulses, NEW t \in Times, disk \in Images,
         Busy \in BeforeStep(k, t).status
  PROVE  TakesStep(k, BeforeStep(k, t), CommandStep(BeforeStep(k, t), t), DoCycle(k, t), t)
<1> DEFINE b == BeforeStep(k, t)
           s == CommandStep(b, t)
           l == DoCycle(k, t)
<1>1. /\ Even(k, b) /\ b.idle < IdlePulses
      /\ b.ptr = IF t.byte THEN (k.ptr + 1) % TrackLength ELSE k.ptr
  BY BeforeStepEven
<1>2. Sound(b) /\ Stage(k, b) BY BeforeStepKeeps, BeforeStepStage DEF Keeps
<1>3. l = HandleHLDIdle(s) BY DEF DoCycle
<1>4. Busy \in b.status OBVIOUS
<1> HIDE DEF b
<1>5. Active(b) BY <1>2, <1>4 DEF Sound, Over, Idle
<1>6. Busy \in k.status BY <1>2, <1>4 DEF Stage
<1>7. Active(k) BY <1>6 DEF Sound, Over, Idle
<1>8. Steps(b, s) BY <1>5, CommandStepSteps
<1> HIDE DEF s, l
<1>9. s.ptr = b.ptr /\ s.idle = b.idle /\ s.type = b.type BY <1>8 DEF Steps, Kept
<1>10. Active(s) \/ Over(s) BY <1>8 DEF Steps, Signals
<1>11. s \in C BY <1>10 DEF Active, Over
<1>12. Idles(s, l) BY <1>1, <1>3, <1>9, <1>11, HandleHLDIdleIdles
<1> QED BY <1>1, <1>5, <1>7, <1>9, <1>10, <1>12 DEF TakesStep, s, l, b

\* A cycle that takes no step, because no command runs or a forced interrupt ends it.
LEMMA CycleRests ==
  ASSUME NEW k, Sound(k), k.idle < IdlePulses, NEW t \in Times, disk \in Images,
         Busy \notin BeforeStep(k, t).status
  PROVE  /\ Busy \notin DoCycle(k, t).status
         /\ Busy \in k.status => k.forced # {}
<1> DEFINE b == BeforeStep(k, t)
           s == CommandStep(b, t)
           l == DoCycle(k, t)
<1>1. Sound(b) /\ Stage(k, b) BY BeforeStepKeeps, BeforeStepStage DEF Keeps
<1>2. l = HandleHLDIdle(s) BY DEF DoCycle
<1>3. Busy \notin b.status OBVIOUS
<1> HIDE DEF b
<1>4. Over(b) \/ Idle(b) BY <1>1, <1>3 DEF Sound, Active
<1>5. b.done \/ b.type = 0 BY <1>4 DEF Over, Idle
<1>6. s = b BY <1>5 DEF CommandStep
<1> HIDE DEF s
<1>7. l = s \/ Plain(s, l) BY <1>1, <1>2, <1>6, HandleHLDIdleKeeps
<1> HIDE DEF l
<1>8. Busy \notin l.status BY <1>3, <1>6, <1>7 DEF Plain
<1> QED BY <1>1, <1>3, <1>8 DEF Stage, l, b

-----------------------------------------------------------------------------
(* Where a command that runs is. *)

\* The invariant: a command that runs is where the disk is.
Sought(k) ==
  Active(k) => /\ k.type = 1 => Seen(k, k.ptr)
               /\ k.type = 2 => OnTrackII(k, k.ptr)

LEMMA EvenOnTrack ==
  ASSUME NEW k, NEW l, Even(k, l), NEW p, OnTrackII(k, p) PROVE OnTrackII(l, p)
<1>1. /\ l.name = k.name /\ l.verified = k.verified /\ l.mark = k.mark /\ l.left = k.left /\ l.id = k.id
      /\ Stands(k, l)
  BY DEF Even, Stands, Looks, Holds
<1>2. Identified(k) => Identified(l) BY <1>1, IdentifiedStands
<1>3. Seen(k, p) => Seen(l, p) BY EvenSeen
<1>4. Reads(k, p) => Reads(l, p) BY <1>1 DEF Reads
<1> QED BY <1>1, <1>2, <1>3, <1>4 DEF OnTrackII

\* The step of a type II command, seen from the cycle.
LEMMA TakesStepComes ==
  ASSUME NEW k, NEW b, NEW s, NEW l, NEW t \in Times, TakesStep(k, b, s, l, t), k.type = 2, Sought(k),
         t.junk \in Junk, disk \in Images, NoFalseMarks
  PROVE  Comes(k, s, s.ptr)
<1>1. k \in C /\ b.type = 2 /\ ~b.done /\ Even(k, b) /\ Active(b) /\ s.ptr = b.ptr
  BY DEF TakesStep, Active, Even, Stands
<1>2. OnTrackII(k, k.ptr) BY DEF TakesStep, Sought
<1>3. OnTrackII(b, k.ptr) BY <1>1, <1>2, EvenOnTrack
<1>4. s = TypeIIStep(b, t) BY <1>1 DEF TakesStep, CommandStep
<1>5. b.ptr = IF t.byte THEN (k.ptr + 1) % TrackLength ELSE k.ptr BY DEF TakesStep
<1>6. k.ptr \in 0..(TrackLength - 1) BY <1>1, Fields
<1>7. Comes(b, s, b.ptr) BY <1>1, <1>3, <1>4, <1>5, <1>6, TypeIIStepComes
<1> QED BY <1>1, <1>7, EvenComes

\* And that of a type I command.
LEMMA TakesStepVerifies ==
  ASSUME NEW k, NEW b, NEW s, NEW l, NEW t \in Times, TakesStep(k, b, s, l, t), k.type = 1, Sought(k),
         t.junk \in Junk, disk \in Images, NoFalseMarks
  PROVE  Verifies(b, s) /\ b.verify = k.verify
<1>1. k \in C /\ b.type = 1 /\ ~b.done /\ Even(k, b) /\ Active(b) /\ b.verify = k.verify
  BY DEF TakesStep, Active, Even, Stands
<1>2. Seen(k, k.ptr) BY DEF TakesStep, Sought
<1>3. Seen(b, k.ptr) BY <1>1, <1>2, EvenSeen
<1>4. s = TypeIStep(b, t) BY <1>1 DEF TakesStep, CommandStep
<1>5. b.ptr = IF t.byte THEN (k.ptr + 1) % TrackLength ELSE k.ptr BY DEF TakesStep
<1>6. k.ptr \in 0..(TrackLength - 1) BY <1>1, Fields
<1> QED BY <1>1, <1>3, <1>4, <1>5, <1>6, TypeIStepSeen

LEMMA CycleSought ==
  ASSUME NEW k, Sound(k), k.idle < IdlePulses, NEW t \in Times, t.junk \in Junk, disk \in Images,
         NoFalseMarks, Sought(k)
  PROVE  Sought(DoCycle(k, t))
<1> DEFINE b == BeforeStep(k, t)
           s == CommandStep(b, t)
           l == DoCycle(k, t)
<1> SUFFICES ASSUME Active(l) PROVE /\ l.type = 1 => Seen(l, l.ptr)
                                    /\ l.type = 2 => OnTrackII(l, l.ptr)
  BY DEF Sought
<1>1. Busy \in b.status BY CycleRests DEF Active
<1>2. TakesStep(k, b, s, l, t) BY <1>1, CycleTakesStep
<1> HIDE DEF b, s, l
<1>3. /\ Even(s, l) /\ l.ptr = s.ptr /\ s.ptr = b.ptr /\ ~s.done /\ l.type = s.type /\ s.type = k.type
  BY <1>2 DEF TakesStep, Idles, Active, Even, Stands
<1>4. ASSUME l.type = 1 PROVE Seen(l, l.ptr)
  <2>1. Verifies(b, s) BY <1>2, <1>3, <1>4, TakesStepVerifies
  <2>2. Seen(s, b.ptr) BY <1>3, <2>1 DEF Verifies
  <2> QED BY <1>3, <2>2, EvenSeen
<1>5. ASSUME l.type = 2 PROVE OnTrackII(l, l.ptr)
  <2>1. Comes(k, s, s.ptr) BY <1>2, <1>3, <1>5, TakesStepComes
  <2>2. k \in C /\ OnTrackII(k, k.ptr) BY <1>2, <1>3, <1>5 DEF TakesStep, Sought, Active
  <2>3. OnTrackII(s, s.ptr) BY <1>3, <2>1, <2>2, ComesOnTrack
  <2> QED BY <1>3, <2>3, EvenOnTrack
<1> QED BY <1>4, <1>5

LEMMA CycleVerifies ==
  ASSUME NEW k, Sound(k), k.idle < IdlePulses, NEW t \in Times, t.junk \in Junk, disk \in Images,
         NoFalseMarks, Sought(k), Heads = 2, Busy \in k.status, k.type = 1, k.verify, k.forced = {},
         Busy \notin DoCycle(k, t).status, NotFound \notin DoCycle(k, t).status
  PROVE  DoCycle(k, t).track = DoCycle(k, t).head
<1> DEFINE b == BeforeStep(k, t)
           s == CommandStep(b, t)
           l == DoCycle(k, t)
<1>1. Busy \in b.status BY CycleRests
<1>2. TakesStep(k, b, s, l, t) BY <1>1, CycleTakesStep
<1>3. Busy \notin l.status /\ NotFound \notin l.status OBVIOUS
<1> HIDE DEF b, s, l
<1>4. /\ l.track = s.track /\ l.head = s.head /\ l.status = s.status
  BY <1>2 DEF TakesStep, Idles, Even, Stands
<1>5. s.done BY <1>2, <1>3, <1>4 DEF TakesStep, Active, Over
<1>6. Verifies(b, s) /\ b.verify = k.verify BY <1>2, TakesStepVerifies
<1>7. s.track = s.head BY <1>3, <1>4, <1>5, <1>6 DEF Verifies
<1> QED BY <1>4, <1>7 DEF l

-----------------------------------------------------------------------------
(* A port access leaves a command that runs where it is. *)

\* The command, and what it has found, are the same.
Untouched(k, l) ==
  Even(k, l) /\ l.ptr = k.ptr /\ (Busy \in l.status <=> Busy \in k.status)

LEMMA UntouchedSelf == ASSUME NEW k \in C PROVE Untouched(k, k)
  BY EvenSelf DEF Untouched

LEMMA UntouchedTwice ==
  ASSUME NEW k, NEW l, NEW m, Untouched(k, l), Untouched(l, m) PROVE Untouched(k, m)
  BY EvenTwice DEF Untouched

LEMMA LowerUntouched ==
  ASSUME NEW k \in C PROVE Untouched(k, Lower(k)) /\ Lower(k).sector = k.sector
  BY Values, ZenonT(60) DEF Untouched, Even, Stands, Looks, Holds, C, ControllerWith, Lower

LEMMA ForcedUntouched ==
  ASSUME NEW k \in C, NEW s \in SUBSET {"index", "immediate", "terminate"}
  PROVE  Untouched(k, Forced(k, s))
  BY ZenonT(60) DEF Untouched, Even, Stands, Looks, Holds, C, ControllerWith, Forced

LEMMA HoldingUntouched == ASSUME NEW k \in C, NEW v \in Byte PROVE Untouched(k, Holding(k, v))
  BY ZenonT(60) DEF Untouched, Even, Stands, Looks, Holds, C, ControllerWith, Holding

LEMMA GatheredUntouched ==
  ASSUME NEW k \in C, NEW b \in [1..SectorLength -> Byte], NEW n \in 0..SectorLength
  PROVE  Untouched(k, Gathered(k, b, n))
  BY ZenonT(60) DEF Untouched, Even, Stands, Looks, Holds, C, ControllerWith, Gathered

LEMMA LatchedUntouched == ASSUME NEW k \in C, NEW v \in Byte PROVE Untouched(k, Latched(k, v))
  BY ZenonT(60) DEF Untouched, Even, Stands, Looks, Holds, C, ControllerWith, Latched

LEMMA AnsweredUntouched ==
  ASSUME NEW k \in C PROVE Untouched(k, Answered(k, k.status \ {DataRequest}))
<1> DEFINE s == k.status \ {DataRequest}
<1>1. s \in SUBSET (0..5) /\ (Busy \in s <=> Busy \in k.status)
  BY Fields, Statuses DEF DataRequest
<1> HIDE DEF s
<1>2. Untouched(k, Answered(k, s))
  BY <1>1, Values, ZenonT(60) DEF Untouched, Even, Stands, Looks, Holds, C, ControllerWith, Answered
<1> QED BY <1>2 DEF s

LEMMA AcknowledgeUntouched == ASSUME NEW k \in C PROVE Untouched(k, Acknowledge(k))
<1> DEFINE a == Lower(k)
           s == a.forced \cap {"immediate"}
<1>1. Untouched(k, a) BY LowerUntouched
<1>2. Acknowledge(k) = Forced(a, s) BY DEF Acknowledge, a, s, Forced
<1> HIDE DEF a
<1>3. a \in C BY <1>1 DEF Untouched, Even, Stands
<1>4. s \in SUBSET {"index", "immediate", "terminate"} OBVIOUS
<1> HIDE DEF s
<1>5. Untouched(a, Forced(a, s)) BY <1>3, <1>4, ForcedUntouched
<1> QED BY <1>1, <1>2, <1>5, UntouchedTwice

LEMMA ForceInterruptUntouched == ASSUME NEW k \in C, NEW c PROVE Untouched(k, ForceInterrupt(k, c))
<1> DEFINE s == k.forced \cup (IF Bit(c, 2) THEN {"index"} ELSE {})
                         \cup (IF Bit(c, 3) THEN {"immediate"} ELSE {})
                         \cup (IF c % 16 = 0 THEN {"terminate"} ELSE {})
<1>1. k.forced \in SUBSET {"index", "immediate", "terminate"} BY Fields
<1>2. s \in SUBSET {"index", "immediate", "terminate"} BY <1>1
<1>3. ForceInterrupt(k, c) = Forced(k, s) BY DEF ForceInterrupt, Forced, s
<1> HIDE DEF s
<1> QED BY <1>2, <1>3, ForcedUntouched

LEMMA DataReadUntouched == ASSUME NEW k \in C PROVE Untouched(k, DataRead(k))
<1> DEFINE a == Answered(k, k.status \ {DataRequest})
<1>1. Untouched(k, a) BY AnsweredUntouched
<1>2. DataRead(k) = IF k.name \in Reading THEN a ELSE k BY DEF DataRead, a, Answered
<1> HIDE DEF a
<1> QED BY <1>1, <1>2, UntouchedSelf

LEMMA DataWrittenUntouched == ASSUME NEW k \in C, NEW v \in Byte PROVE Untouched(k, DataWritten(k, v))
<1>0. \A i \in 0..SectorLength : i < SectorLength => i + 1 \in 0..SectorLength BY Numbers
<1> DEFINE d == Holding(k, v)
           b == [d.buffer EXCEPT ![k.count + 1] = v]
           n == d.count + 1
           full == ~(k.name = "WRITE SECTOR" /\ k.count < SectorLength)
           g == IF full THEN d ELSE Gathered(d, b, n)
           a == Answered(g, g.status \ {DataRequest})
<1>1. Untouched(k, d) BY HoldingUntouched
<1>2. d \in C /\ d.count = k.count
  <2>1. d.count = k.count BY DEF Holding, C, ControllerWith
  <2> QED BY <1>1, <2>1 DEF Untouched, Even, Stands
<1>3. DataWritten(k, v) = IF k.name \in Writing /\ k.drq THEN a ELSE g
  BY DEF DataWritten, a, g, n, b, d, Holding, Gathered, Answered
<1> HIDE DEF d
<1>4. Untouched(k, g)
  <2>1. CASE full BY <1>1, <2>1
  <2>2. CASE ~full
    <3>1. k.count \in 0..SectorLength /\ d.buffer \in [1..SectorLength -> Byte] BY <1>2, Fields
    <3>2. n \in 0..SectorLength
      <4>1. k.count < SectorLength BY <2>2
      <4>2. k.count + 1 \in 0..SectorLength BY <1>0, <3>1, <4>1
      <4> QED BY <1>2, <4>2
    <3>3. b \in [1..SectorLength -> Byte] BY <3>1
    <3> HIDE DEF n, b
    <3>4. Untouched(d, Gathered(d, b, n)) BY <1>2, <3>2, <3>3, GatheredUntouched
    <3>5. Untouched(k, Gathered(d, b, n)) BY <1>1, <3>4, UntouchedTwice
    <3> QED BY <2>2, <3>5
  <2> QED BY <2>1, <2>2
<1> HIDE DEF g
<1>5. g \in C BY <1>4 DEF Untouched, Even, Stands
<1>6. Untouched(g, a) BY <1>5, AnsweredUntouched
<1>7. Untouched(k, a) BY <1>4, <1>6, UntouchedTwice
<1> QED BY <1>3, <1>4, <1>7

-----------------------------------------------------------------------------
(* A new command has seen nothing yet. *)

\* A command is prepared without a look at the disk.
Fitted(k, l) ==
  /\ l \in C /\ l.type = k.type /\ l.find = k.find /\ l.mark = k.mark /\ l.verified = k.verified
  /\ l.sector = k.sector
Begins(k, l) ==
  /\ l.type = 1 => l.find = Unfound
  /\ l.type = 2 => /\ l.name \in {"READ SECTOR", "WRITE SECTOR"} /\ ~l.verified
                   /\ l.find = Unfound /\ l.mark = Unmarked /\ l.sector = k.sector

LEMMA FittedSelf == ASSUME NEW k \in C PROVE Fitted(k, k)
  BY DEF Fitted
LEMMA FittedTwice ==
  ASSUME NEW k, NEW l, NEW m, Fitted(k, l), Fitted(l, m) PROVE Fitted(k, m)
  BY DEF Fitted

LEMMA HeadFitted ==
  ASSUME NEW k \in C PROVE Fitted(k, LoadHead(k)) /\ Fitted(k, Lifted(k)) /\ Fitted(k, Delayed(k))
  BY Values, ZenonT(60) DEF Fitted, C, ControllerWith, LoadHead, Lifted, Delayed

LEMMA CalledFitted ==
  ASSUME NEW k \in C, NEW n \in Names PROVE Fitted(k, Called(k, n)) /\ Called(k, n).name = n
<1>1. n \in {""} \cup Reading \cup Writing \cup {"RESTORE", "SEEK", "STEP", "STEP-IN", "STEP-OUT"}
  BY DEF Names
<1>2. Called(k, n) \in C BY <1>1, ZenonT(60) DEF C, ControllerWith, Called
<1> QED BY <1>2, ZenonT(60) DEF Fitted, C, ControllerWith, Called

LEMMA UpdatingFitted == ASSUME NEW k \in C, NEW b \in Flag PROVE Fitted(k, Updating(k, b))
  BY ZenonT(60) DEF Fitted, C, ControllerWith, Updating

LEMMA FacingFitted == ASSUME NEW k \in C, NEW d \in 0..1 PROVE Fitted(k, Facing(k, d))
  BY ZenonT(60) DEF Fitted, C, ControllerWith, Facing

LEMMA FlaggedFitted ==
  ASSUME NEW k \in C, NEW s \in 0..1, NEW o \in 0..1, NEW e \in Flag
  PROVE  Fitted(k, Flagged(k, s, o, e))
  BY ZenonT(60) DEF Fitted, C, ControllerWith, Flagged

LEMMA LoadedFitted ==
  ASSUME NEW k \in C, NEW d \in Drives PROVE Fitted(k, Loaded(k, d)) /\ Loaded(k, d).name = k.name
  BY ZenonT(60) DEF Fitted, C, ControllerWith, Loaded

LEMMA UncountedFitted == ASSUME NEW k \in C PROVE Fitted(k, Uncounted(k))
  BY Values, ZenonT(60) DEF Fitted, C, ControllerWith, Uncounted

LEMMA TrackedFitted == ASSUME NEW k \in C, NEW v \in Byte PROVE Fitted(k, Tracked(k, v))
  BY ZenonT(60) DEF Fitted, C, ControllerWith, Tracked

LEMMA FollowFitted == ASSUME NEW k \in C PROVE Fitted(k, Follow(k))
<1> DEFINE v == k.head % 256
<1>1. k.head \in Int BY Fields
<1>2. v \in Byte BY <1>1 DEF Byte
<1>3. Follow(k) = Tracked(k, v) BY DEF Follow, Tracked
<1> HIDE DEF v
<1> QED BY <1>2, <1>3, TrackedFitted

LEMMA HeadFlagsFitted ==
  ASSUME NEW k \in C, NEW load \in Flag, NEW verify \in Flag
  PROVE  Fitted(k, HeadFlags(k, load, verify))
<1>1. Fitted(k, LoadHead(k)) /\ Fitted(k, Lifted(k)) /\ Fitted(k, Delayed(k)) /\ Fitted(k, k)
  BY HeadFitted, FittedSelf
<1>2. /\ HeadFlags(k, load, verify) = CASE ~load /\ ~verify -> Lifted(k)
                                        [] ~load /\ verify  -> Delayed(k)
                                        [] load -> IF k.hld THEN k ELSE LoadHead(k)
  BY DEF HeadFlags, Lifted, Delayed
<1>3. CASE load BY <1>1, <1>2, <1>3
<1>4. CASE ~load /\ verify BY <1>1, <1>2, <1>4
<1>5. CASE ~load /\ ~verify BY <1>1, <1>2, <1>5
<1> QED BY <1>3, <1>4, <1>5 DEF Flag

LEMMA FlagsFitted ==
  ASSUME NEW k \in C, NEW c PROVE Fitted(k, Flags(k, c))
<1> DEFINE s == IF Bit(c, 1) THEN 1 ELSE 0
           e == Bit(c, 2)
           f == Flagged(k, s, s, e)
<1>1. s \in 0..1 /\ e \in Flag BY Bits
<1>2. Flags(k, c) = IF f.hld THEN f ELSE LoadHead(f) BY DEF Flags, f, s, e, Flagged
<1> HIDE DEF s, e
<1>3. Fitted(k, f) /\ f \in C BY <1>1, FlaggedFitted DEF Fitted
<1> HIDE DEF f
<1> QED BY <1>2, <1>3, HeadFitted, FittedTwice

LEMMA SetTypeIFitted ==
  ASSUME NEW k \in C, NEW c \in 0..127 PROVE Fitted(k, SetTypeI(k, c))
<1> DEFINE b == Bit(c, 4)
           u == Updating(k, b)
           s == Called(k, "SEEK")
           x == Called(u, "STEP-IN")
           y == Called(u, "STEP-OUT")
<1>1. \/ c \div 16 = 0
      \/ c \div 16 = 1
      \/ c \div 32 \in {1, 2, 3} /\ c \div 16 \notin {0, 1}
  OBVIOUS
<1>2. b \in Flag BY Bits
<1> HIDE DEF b
<1>3. Fitted(k, u) /\ u \in C BY <1>2, UpdatingFitted DEF Fitted
<1>4. SetTypeI(k, c) = CASE c \div 16 = 0 -> Called(k, "RESTORE")
                         [] c \div 16 = 1 -> Follow(s)
                         [] c \div 32 = 1 -> Called(u, "STEP")
                         [] c \div 32 = 2 -> Facing(x, 1)
                         [] c \div 32 = 3 -> Facing(y, 0)
  BY DEF SetTypeI, u, s, x, y, b, Updating, Called, Facing
<1> HIDE DEF u
<1>5. Fitted(u, x) /\ Fitted(u, y) /\ Fitted(u, Called(u, "STEP")) BY <1>3, CalledFitted, Values
<1>6. Fitted(k, s) /\ Fitted(k, Called(k, "RESTORE")) BY CalledFitted, Values
<1> HIDE DEF s, x, y
<1>7. s \in C /\ x \in C /\ y \in C BY <1>5, <1>6 DEF Fitted
<1>8. Fitted(s, Follow(s)) /\ Fitted(x, Facing(x, 1)) /\ Fitted(y, Facing(y, 0))
  BY <1>7, FollowFitted, FacingFitted
<1>9. Fitted(k, Follow(s)) BY <1>6, <1>8, FittedTwice
<1>10. Fitted(u, Facing(x, 1)) /\ Fitted(u, Facing(y, 0)) BY <1>5, <1>8, FittedTwice
<1>11. Fitted(k, Facing(x, 1)) /\ Fitted(k, Facing(y, 0)) /\ Fitted(k, Called(u, "STEP"))
  BY <1>3, <1>5, <1>10, FittedTwice
<1>12. CASE c \div 16 = 0
  <2>1. SetTypeI(k, c) = Called(k, "RESTORE") BY <1>4, <1>12
  <2> QED BY <1>6, <2>1
<1>13. CASE c \div 16 = 1 BY <1>4, <1>9, <1>13
<1>14. CASE c \div 32 \in {1, 2, 3} /\ c \div 16 \notin {0, 1}
  <2>1. SetTypeI(k, c) \in {Called(u, "STEP"), Facing(x, 1), Facing(y, 0)} BY <1>4, <1>14
  <2> QED BY <1>11, <2>1
<1> QED BY <1>1, <1>12, <1>13, <1>14

LEMMA SetupTypeIFits ==
  ASSUME NEW k \in C, NEW c
  PROVE  SetupTypeI(k, c) \in C /\ SetupTypeI(k, c).type = 1 /\ SetupTypeI(k, c).find = Unfound
<1> DEFINE s == (k.status \cup {Busy}) \ {CrcError, NotFound}
           v == Bit(c, 2)
           l == Begun1(k, s, v)
<1>1. k.status \in SUBSET (0..5) BY Fields
<1>2. s \in SUBSET (0..5) BY <1>1 DEF Busy
<1>3. v \in Flag /\ Bit(c, 3) \in Flag BY Bits
<1>4. SetupTypeI(k, c) = HeadFlags(l, Bit(c, 3), v) BY DEF SetupTypeI, l, s, v, Begun1
<1> HIDE DEF s, v
<1>5. 1 \in 0..3 OBVIOUS
<1>6. l \in C BY <1>2, <1>3, <1>5, Values, ZenonT(60) DEF C, ControllerWith, Finds, Begun1
<1>7. l.type = 1 /\ l.find = Unfound BY DEF C, ControllerWith, Begun1
<1> HIDE DEF l
<1>8. Fitted(l, HeadFlags(l, Bit(c, 3), v)) BY <1>3, <1>6, HeadFlagsFitted
<1> QED BY <1>4, <1>7, <1>8 DEF Fitted

LEMMA SetupTypeIIFits ==
  ASSUME NEW k \in C, NEW c
  PROVE  /\ SetupTypeII(k, c) \in C /\ SetupTypeII(k, c).type = 2 /\ SetupTypeII(k, c).find = Unfound
         /\ SetupTypeII(k, c).mark = Unmarked /\ ~SetupTypeII(k, c).verified
         /\ SetupTypeII(k, c).sector = k.sector
<1> DEFINE a == Lower(k)
           s == (a.status \cap {CrcError}) \cup {Busy}
           m == Bit(c, 4)
           l == Begun2(a, s, m)
<1>1. a \in C /\ a.sector = k.sector BY LowerUntouched DEF Untouched, Even, Stands
<1>2. SetupTypeII(k, c) = Flags(l, c) BY DEF SetupTypeII, l, a, s, m, Begun2
<1> HIDE DEF a
<1>3. a.status \in SUBSET (0..5) BY <1>1, Fields
<1>4. s \in SUBSET (0..5) BY <1>3 DEF Busy
<1>5. m \in Flag BY Bits
<1> HIDE DEF s, m
<1>6. 2 \in 0..3 /\ 0 \in Int OBVIOUS
<1>7. l \in C BY <1>1, <1>4, <1>5, <1>6, Values, ZenonT(60) DEF C, ControllerWith, Finds, Marks, Begun2
<1>8. l.type = 2 /\ l.find = Unfound /\ l.mark = Unmarked /\ l.verified = FALSE /\ l.sector = a.sector
  BY <1>1 DEF C, ControllerWith, Begun2
<1> HIDE DEF l
<1>9. Fitted(l, Flags(l, c)) BY <1>7, FlagsFitted
<1> QED BY <1>1, <1>2, <1>8, <1>9 DEF Fitted

LEMMA ReloadFitted == ASSUME NEW k \in C PROVE Fitted(k, Reload(k)) /\ Reload(k).name = k.name
<1>1. k.latch % 4 \in Drives => Fitted(k, Loaded(k, k.latch % 4)) /\ Loaded(k, k.latch % 4).name = k.name
  BY LoadedFitted
<1> QED BY <1>1, FittedSelf DEF Reload, Loaded

LEMMA SetTypeIIFitted ==
  ASSUME NEW k \in C, NEW c
  PROVE  Fitted(k, SetTypeII(k, c)) /\ SetTypeII(k, c).name \in {"READ SECTOR", "WRITE SECTOR"}
<1> DEFINE u == Uncounted(k)
           r == Called(u, "READ SECTOR")
           s == Called(u, "WRITE SECTOR")
<1>1. Fitted(k, u) /\ u \in C BY UncountedFitted DEF Fitted
<1>2. SetTypeII(k, c) = IF c \div 32 = 4 THEN Reload(r) ELSE s
  BY DEF SetTypeII, r, s, u, Called, Uncounted
<1> HIDE DEF u
<1>3. "READ SECTOR" \in Names /\ "WRITE SECTOR" \in Names BY DEF Names, Reading, Writing
<1>4. Fitted(u, r) /\ Fitted(u, s) /\ r.name = "READ SECTOR" /\ s.name = "WRITE SECTOR"
  BY <1>1, <1>3, CalledFitted
<1>5. r \in C BY <1>4 DEF Fitted
<1> HIDE DEF r, s
<1>6. Fitted(r, Reload(r)) /\ Reload(r).name = r.name BY <1>5, ReloadFitted
<1>7. Fitted(u, Reload(r)) BY <1>4, <1>6, FittedTwice
<1>8. Fitted(k, Reload(r)) /\ Fitted(k, s) BY <1>1, <1>4, <1>7, FittedTwice
<1> QED BY <1>2, <1>4, <1>6, <1>8

\* What the write of a command comes to.
Ordered(k, c, l) ==
  IF Accepts(k, c) THEN Begins(k, l) ELSE Untouched(k, l)

LEMMA DoCommandOrdered ==
  ASSUME NEW k, Sound(k), NEW c \in Byte PROVE Ordered(k, c, DoCommand(k, c))
<1> DEFINE i == SetTypeI(SetupTypeI(k, c), c)
           ii == SetTypeII(SetupTypeII(k, c), c)
           iii == SetTypeIII(SetupTypeIII(k, c), c)
<1>1. k \in C /\ Follows(k) BY SoundC
<1>2. c < 128 => Begins(k, i)
  <2> SUFFICES ASSUME c < 128 PROVE Begins(k, i) OBVIOUS
  <2> DEFINE l == SetupTypeI(k, c)
  <2>1. c \in 0..127 BY DEF Byte
  <2>2. l \in C /\ l.type = 1 /\ l.find = Unfound BY <1>1, SetupTypeIFits
  <2> HIDE DEF l
  <2>3. Fitted(l, SetTypeI(l, c)) BY <2>1, <2>2, SetTypeIFitted
  <2>4. i = SetTypeI(l, c) BY DEF l
  <2>5. i.type = 1 /\ i.find = Unfound BY <2>2, <2>3, <2>4 DEF Fitted
  <2>6. 1 # 2 OBVIOUS
  <2> QED BY <2>5, <2>6 DEF Begins
<1>3. Begins(k, ii)
  <2> DEFINE l == SetupTypeII(k, c)
  <2>1. /\ l \in C /\ l.type = 2 /\ l.find = Unfound /\ l.mark = Unmarked /\ ~l.verified
        /\ l.sector = k.sector
    BY <1>1, SetupTypeIIFits
  <2>2. ii = SetTypeII(l, c) BY DEF l
  <2> HIDE DEF l
  <2>3. Fitted(l, ii) /\ ii.name \in {"READ SECTOR", "WRITE SECTOR"} BY <2>1, <2>2, SetTypeIIFitted
  <2> HIDE DEF ii
  <2> QED BY <2>1, <2>3 DEF Fitted, Begins
<1>4. Begins(k, iii)
  <2> DEFINE l == SetupTypeIII(k, c)
  <2>1. Began(k, l, 3) /\ l \in C BY <1>1, SetupTypeIIIBegins DEF Began
  <2>2. iii = SetTypeIII(l, c) BY DEF l
  <2> HIDE DEF l
  <2>3. Like(l, iii) BY <2>1, <2>2, SetTypeIIILike
  <2>4. iii.type = 3 BY <2>1, <2>3, BeganLike DEF Began
  <2> QED BY <2>4 DEF Begins
<1>5. Untouched(k, k) BY <1>1, UntouchedSelf
<1> HIDE DEF i, ii, iii
<1>6. Untouched(k, ForceInterrupt(k, c)) BY <1>1, ForceInterruptUntouched
<1>7. \/ (c < 128) /\ (c \notin 128..191) /\ ~(c >= 192)
      \/ ~(c < 128) /\ (c \in 128..191) /\ ~(c >= 192)
      \/ ~(c < 128) /\ (c \notin 128..191) /\ (c >= 192)
  BY DEF Byte
<1>8. DoCommand(k, c) = CASE c \div 16 = 13 -> ForceInterrupt(k, c)
                          [] c \div 16 # 13 /\ Busy \in k.status -> k
                          [] Accepts(k, c) /\ c < 128 -> i
                          [] Accepts(k, c) /\ c \in 128 .. 191 -> ii
                          [] Accepts(k, c) /\ c >= 192 -> iii
  BY DEF DoCommand, i, ii, iii
<1>9. CASE c \div 16 = 13 BY <1>6, <1>8, <1>9 DEF Accepts, Ordered
<1>10. CASE c \div 16 # 13 /\ Busy \in k.status BY <1>5, <1>8, <1>10 DEF Accepts, Ordered
<1>11. CASE Accepts(k, c)
  <2>1. CASE (c < 128) /\ (c \notin 128..191) /\ ~(c >= 192)
    BY <1>2, <1>8, <1>11, <2>1 DEF Accepts, Ordered
  <2>2. CASE ~(c < 128) /\ (c \in 128..191) /\ ~(c >= 192)
    BY <1>3, <1>8, <1>11, <2>2 DEF Accepts, Ordered
  <2>3. CASE ~(c < 128) /\ (c \notin 128..191) /\ (c >= 192)
    BY <1>4, <1>8, <1>11, <2>3 DEF Accepts, Ordered
  <2> QED BY <1>7, <2>1, <2>2, <2>3
<1> QED BY <1>9, <1>10, <1>11 DEF Accepts

LEMMA CommandWriteOrdered ==
  ASSUME NEW k, Sound(k), NEW c \in Byte PROVE Ordered(k, c, CommandWrite(k, c))
<1> DEFINE a == Acknowledge(k)
           b == IF c = 208 THEN Forced(a, {}) ELSE a
           l == CommandWrite(k, c)
<1>0. k \in C BY SoundC
<1>1. Given(k, a) /\ Untouched(k, a) BY <1>0, AcknowledgeGiven, AcknowledgeUntouched
<1>2. l = DoCommand(b, c) BY DEF CommandWrite, b, a, Forced, l
<1> HIDE DEF a
<1>3. Sound(a) /\ a \in C BY <1>1, SoundC DEF Given
<1>4. Given(a, Forced(a, {})) /\ Untouched(a, Forced(a, {})) BY <1>3, ForcedGiven, ForcedUntouched
<1>5. Sound(b) /\ Untouched(k, b) BY <1>1, <1>3, <1>4, UntouchedTwice DEF Given
<1> HIDE DEF b, l
<1>6. Ordered(b, c, l) BY <1>2, <1>5, DoCommandOrdered
<1>7. Accepts(b, c) <=> Accepts(k, c) BY <1>5 DEF Accepts, Untouched
<1>8. b.sector = k.sector BY <1>5 DEF Untouched, Even, Stands
<1>9. CASE Accepts(k, c)
  <2>1. Begins(b, l) BY <1>6, <1>7, <1>9 DEF Ordered
  <2>2. Begins(k, l) BY <1>8, <2>1 DEF Begins
  <2> QED BY <1>9, <2>2 DEF Ordered, l
<1>10. CASE ~Accepts(k, c)
  <2>1. Untouched(b, l) BY <1>6, <1>7, <1>10 DEF Ordered
  <2>2. Untouched(k, l) BY <1>5, <2>1, UntouchedTwice
  <2> QED BY <1>10, <2>2 DEF Ordered, l
<1> QED BY <1>9, <1>10

-----------------------------------------------------------------------------
(* The steps of the specification. *)

\* The track or the sector register is written, which no running command bears.
Registers(k, l) ==
  /\ l \in C
  /\ l.type = k.type /\ l.name = k.name /\ l.head = k.head /\ l.sso = k.sso /\ l.loaded = k.loaded
  /\ l.hld = k.hld /\ l.delayed = k.delayed /\ l.acted = k.acted /\ l.edelay = k.edelay
  /\ l.hlt = k.hlt /\ l.settled = k.settled /\ l.edone = k.edone
  /\ Looks(k, l) /\ Holds(k, l) /\ l.ptr = k.ptr /\ (Busy \in l.status <=> Busy \in k.status)

LEMMA WrittenRegisters ==
  ASSUME NEW k \in C, NEW v \in Byte
  PROVE  Registers(k, Tracked(k, v)) /\ Registers(k, Sectored(k, v))
<1>1. Registers(k, Tracked(k, v))
  BY ZenonT(60) DEF Registers, Looks, Holds, C, ControllerWith, Tracked
<1>2. Registers(k, Sectored(k, v))
  BY ZenonT(60) DEF Registers, Looks, Holds, C, ControllerWith, Sectored
<1> QED BY <1>1, <1>2

\* A step is a port access that leaves the command alone, a command that begins,
\* a register written, a reset, or a cycle of the disk.
KeepsDisk == disk' = disk /\ (legal' => legal)
Stays == KeepsDisk /\ Untouched(w, w') /\ sent' = sent /\ origin' = origin
Starts == KeepsDisk /\ Busy \notin w.status /\ Begins(w, w') /\ sent' = <<>> /\ origin' = w.sector
Rewrites == KeepsDisk /\ Registers(w, w') /\ (legal' => Busy \notin w.status)
Resets == Busy \notin w'.status /\ w'.type = 0 /\ disk' = disk
Turned(t) ==
  /\ t.junk \in Junk /\ t.stray \in Strays(w) /\ w' = DoCycle(w, t)
  /\ disk' = DiskAfter(w, t) /\ legal' = legal
  /\ Busy \in w'.status =>
       /\ origin' = origin
       /\ sent' = IF legal /\ w.mark.found /\ w'.left # w.left THEN Append(sent, w'.data) ELSE sent

LEMMA NextSteps ==
  FloppyInv /\ [Next]_vars => Stays \/ Starts \/ Rewrites \/ Resets \/ \E t \in Times : Turned(t)
<1> SUFFICES ASSUME FloppyInv, [Next]_vars
             PROVE  Stays \/ Starts \/ Rewrites \/ Resets \/ \E t \in Times : Turned(t)
  OBVIOUS
<1>0. w \in C /\ Sound(w) BY SoundC DEF FloppyInv
<1>1. CASE Wait \/ UNCHANGED vars
  <2>1. w' = w /\ UNCHANGED <<disk, sent, origin, legal>> BY <1>1 DEF Wait, vars
  <2> QED BY <1>0, <2>1, UntouchedSelf DEF Stays, KeepsDisk
<1>2. CASE ReadStatus
  BY <1>0, <1>2, AcknowledgeUntouched DEF ReadStatus, Access, Stays, KeepsDisk
<1>3. CASE WriteCommand
  <2>1. PICK c \in program.commands :
          /\ Access(CommandWrite(w, c))
          /\ legal' = (legal /\ ~Overshoots(CommandWrite(w, c)))
          /\ IF Accepts(w, c) THEN sent' = <<>> /\ origin' = w.sector /\ turns' = 0
             ELSE UNCHANGED <<sent, origin, turns>>
    BY <1>3 DEF WriteCommand
  <2>2. c \in Byte BY Inputs DEF FloppyInv, TypeOK
  <2>3. w' = CommandWrite(w, c) /\ KeepsDisk BY <2>1 DEF Access, KeepsDisk
  <2>4. Ordered(w, c, w') BY <1>0, <2>2, <2>3, CommandWriteOrdered
  <2>5. CASE Accepts(w, c) BY <2>1, <2>3, <2>4, <2>5 DEF Ordered, Starts, Accepts
  <2>6. CASE ~Accepts(w, c) BY <2>1, <2>3, <2>4, <2>6 DEF Ordered, Stays
  <2> QED BY <2>5, <2>6
<1>4. CASE WriteTrack
  <2>1. PICK v \in program.tracks :
          Access(Tracked(w, v)) /\ legal' = (legal /\ Busy \notin w.status)
    BY <1>4 DEF WriteTrack, Tracked
  <2>2. v \in Byte BY Inputs DEF FloppyInv, TypeOK
  <2> QED BY <1>0, <2>1, <2>2, WrittenRegisters DEF Access, Rewrites, KeepsDisk
<1>5. CASE WriteSectorRegister
  <2>1. PICK v \in program.sectors :
          Access(Sectored(w, v)) /\ legal' = (legal /\ Busy \notin w.status)
    BY <1>5 DEF WriteSectorRegister, Sectored
  <2>2. v \in Byte BY Inputs DEF FloppyInv, TypeOK
  <2> QED BY <1>0, <2>1, <2>2, WrittenRegisters DEF Access, Rewrites, KeepsDisk
<1>6. CASE WriteData
  <2>1. PICK v \in program.bytes :
          /\ Access(DataWritten(w, v)) /\ legal' = (legal /\ ~Overshoots(DataWritten(w, v)))
          /\ UNCHANGED <<sent, origin, turns>>
    BY <1>6 DEF WriteData
  <2>2. v \in Byte BY Inputs DEF FloppyInv, TypeOK
  <2> QED BY <1>0, <2>1, <2>2, DataWrittenUntouched DEF Access, Stays, KeepsDisk
<1>7. CASE WriteLatch
  <2>1. PICK v \in program.latches :
          Access(Latched(w, v)) /\ UNCHANGED <<sent, origin, turns, legal>>
    BY <1>7 DEF WriteLatch, Latched
  <2>2. v \in Byte BY Inputs DEF FloppyInv, TypeOK
  <2> QED BY <1>0, <2>1, <2>2, LatchedUntouched DEF Access, Stays, KeepsDisk
<1>8. CASE ReadData
  BY <1>0, <1>8, DataReadUntouched DEF ReadData, Stays, KeepsDisk
<1>9. CASE Reset
  <2>1. Restarted(w') BY <1>9, ResetInv
  <2> QED BY <1>9, <2>1 DEF Reset, Restarted, Resets
<1>10. CASE DoJWD1797Cycle
  <2>1. PICK t \in [byte : BOOLEAN, fired : SUBSET Running(w), junk : Junk, stray : Strays(w)] :
          /\ w' = DoCycle(w, t)
          /\ disk' = DiskAfter(w, t)
          /\ IF Busy \in DoCycle(w, t).status
             THEN /\ sent' = IF legal /\ w.mark.found /\ DoCycle(w, t).left # w.left
                             THEN Append(sent, DoCycle(w, t).data) ELSE sent
                  /\ origin' = origin
             ELSE sent' = <<>> /\ origin' = 0
          /\ UNCHANGED <<program, legal>>
    BY <1>10 DEF DoJWD1797Cycle
  <2>2. t \in Times BY TimesOfCycle
  <2>3. t.junk \in Junk /\ t.stray \in Strays(w) OBVIOUS
  <2>4. Turned(t) BY <2>1, <2>3 DEF Turned
  <2> QED BY <2>2, <2>4
<1> QED BY <1>1, <1>2, <1>3, <1>4, <1>5, <1>6, <1>7, <1>8, <1>9, <1>10 DEF Next

-----------------------------------------------------------------------------
(* A command that runs stays where the disk is. *)

LEMMA UntouchedSought ==
  ASSUME NEW k, NEW l, Sound(k), Untouched(k, l), Sought(k) PROVE Sought(l)
<1> SUFFICES ASSUME Active(l) PROVE (l.type = 1 => Seen(l, l.ptr)) /\ (l.type = 2 => OnTrackII(l, l.ptr))
  BY DEF Sought
<1>1. Active(k) BY DEF Untouched, Active, Sound, Over, Idle
<1>2. Even(k, l) /\ l.ptr = k.ptr /\ l.type = k.type BY DEF Untouched, Even, Stands
<1> QED BY <1>1, <1>2, EvenSeen, EvenOnTrack DEF Sought

LEMMA BeginsSought == ASSUME NEW k, NEW l, Begins(k, l) PROVE Sought(l)
<1>1. l.type = 1 => Seen(l, l.ptr) BY UnfoundBlank, BlankSeen DEF Begins
<1>2. l.type = 2 => Seen(l, l.ptr) BY UnfoundBlank, BlankSeen DEF Begins
<1> QED BY <1>1, <1>2 DEF Begins, Sought, OnTrackII

LEMMA RegistersSought ==
  ASSUME NEW k, NEW l, Sound(k), Registers(k, l), Sought(k) PROVE Sought(l)
<1> SUFFICES ASSUME Active(l) PROVE (l.type = 1 => Seen(l, l.ptr)) /\ (l.type = 2 => OnTrackII(l, l.ptr))
  BY DEF Sought
<1>1. Active(k) BY DEF Registers, Active, Sound, Over, Idle
<1>2. Under(l) = Under(k) /\ (Steady(k) => Steady(l)) BY DEF Registers, Under, Steady, EWaits
<1>3. l.ptr = k.ptr /\ l.type = k.type /\ l.name = k.name /\ l.id = k.id /\ l.find = k.find
      /\ l.loaded = k.loaded /\ l.verified = k.verified /\ l.mark = k.mark /\ l.left = k.left
  BY DEF Registers, Looks, Holds
<1>4. Seen(k, k.ptr) => Seen(l, l.ptr) BY <1>2, <1>3 DEF Seen
<1>5. Reads(k, k.ptr) => Reads(l, l.ptr) BY <1>3 DEF Reads
<1>6. Identified(k) => Identified(l) BY <1>2, <1>3 DEF Identified
<1>7. OnTrackII(k, k.ptr) => OnTrackII(l, l.ptr) BY <1>3, <1>4, <1>5, <1>6 DEF OnTrackII
<1> QED BY <1>1, <1>3, <1>4, <1>7 DEF Sought

\* A write of the image file ends the command.
LEMMA CommitsEnds ==
  ASSUME NEW k, Sound(k), k.idle < IdlePulses, NEW t \in Times, disk \in Images, Commits(k, t)
  PROVE  /\ TakesStep(k, BeforeStep(k, t), CommandStep(BeforeStep(k, t), t), DoCycle(k, t), t)
         /\ BeforeStep(k, t).type = 2 /\ BeforeStep(k, t).name = "WRITE SECTOR"
         /\ BeforeStep(k, t).verified
         /\ Busy \notin DoCycle(k, t).status /\ Busy \in k.status
<1> DEFINE b == BeforeStep(k, t)
           e == EDelay(b, t)
           u == Verifying(e, FALSE)
           s == CommandStep(b, t)
           l == DoCycle(k, t)
<1>1. ~b.done /\ b.type = 2 /\ b.name = "WRITE SECTOR" /\ ~EWaits(e) /\ b.hlt /\ b.verified
  BY DEF Commits
<1>2. Sound(b) /\ Stage(k, b) BY BeforeStepKeeps, BeforeStepStage DEF Keeps
<1> HIDE DEF b, e, u, s, l
<1>3. Active(b)
  <2>1. ~Over(b) BY <1>1 DEF Over
  <2>2. b.type = 2 BY <1>1
  <2>3. b.type # 0 BY <2>2
  <2> QED BY <1>2, <2>1, <2>3 DEF Sound, Idle
<1>4. Busy \in b.status /\ b \in C BY <1>3 DEF Active
<1>5. TakesStep(k, b, s, l, t) BY <1>4, CycleTakesStep DEF b, s, l
<1>6. Busy \in k.status BY <1>5 DEF TakesStep, Active
<1>7. s = TypeIIStep(b, t)
  <2>1. ~b.done /\ b.type = 2 BY <1>1
  <2> QED BY <2>1 DEF s, CommandStep
<1>8. Even(b, e) /\ Like(b, e) BY <1>4, EDelayEven, EDelayLike DEF e
<1>9. s = IF EWaits(e) \/ ~e.hlt THEN e
          ELSE IF ~e.verified THEN TypeIICmdIDVerify(Verifying(e, TRUE), t)
          ELSE IF e.name = "READ SECTOR" THEN ReadSector(u, t) ELSE WriteSector(u, t.stray)
  BY <1>7 DEF TypeIIStep, u, e, Verifying
<1>10. e \in C /\ e.hlt /\ e.verified /\ e.name = "WRITE SECTOR"
  BY <1>1, <1>8 DEF Even, Stands, Holds
<1>11. s = WriteSector(u, t.stray) BY <1>1, <1>9, <1>10
<1>12. Even(e, u) BY <1>10, VerifyingEven, Values DEF u
<1>13. u \in C BY <1>12 DEF Even, Stands
<1> DEFINE d == Target(u, t.stray)
           m == IF d \in Drives \ Protected THEN Loaded(u, d) ELSE u
<1>14. s = Finish(m) BY <1>11 DEF WriteSector, m, d, Loaded
<1> HIDE DEF d
<1>15. m \in C BY <1>13, LoadedLike DEF Like
<1> HIDE DEF m
<1>16. s.done = TRUE BY <1>14, <1>15, FinishLeaves
<1>17. Busy \notin s.status BY <1>5, <1>16 DEF TakesStep, Active, Over
<1>18. Busy \notin l.status BY <1>5, <1>17 DEF TakesStep, Idles
<1> QED BY <1>1, <1>5, <1>6, <1>18 DEF b, s, l

LEMMA SameDisk ==
  ASSUME FloppyInv, NEW t \in Times, Turned(t), Busy \in w'.status PROVE disk' = disk
<1>1. disk \in Images BY DEF FloppyInv, TypeOK, Images
<1>2. ~Commits(w, t) BY <1>1, CommitsEnds DEF FloppyInv, Turned
<1> QED BY <1>2 DEF Turned, DiskAfter

\* The invariant of the specification, which no port access and no cycle breaks.
SoughtInv == Sought(w)
LEMMA SoughtDisk == disk' = disk /\ Sought(w') => SoughtInv'
  BY DEF Sought, Seen, Sighted, Prefixed, TrackByte, OnTrackII, SoughtInv

LEMMA NextSought ==
  FloppyInv /\ NoFalseMarks /\ SoughtInv /\ [Next]_vars => SoughtInv'
<1> SUFFICES ASSUME FloppyInv, NoFalseMarks, Sought(w), [Next]_vars PROVE SoughtInv'
  BY DEF SoughtInv
<1>0. Sound(w) /\ w.idle < IdlePulses /\ disk \in Images BY DEF FloppyInv, TypeOK, Images
<1>1. CASE Stays
  <2>1. Sought(w') BY <1>0, <1>1, UntouchedSought DEF Stays
  <2> QED BY <1>1, <2>1, SoughtDisk DEF Stays, KeepsDisk
<1>2. CASE Starts
  <2>1. Sought(w') BY <1>2, BeginsSought DEF Starts
  <2> QED BY <1>2, <2>1, SoughtDisk DEF Starts, KeepsDisk
<1>3. CASE Rewrites
  <2>1. Sought(w') BY <1>0, <1>3, RegistersSought DEF Rewrites
  <2> QED BY <1>3, <2>1, SoughtDisk DEF Rewrites, KeepsDisk
<1>4. CASE Resets
  <2>1. Sought(w') BY <1>4 DEF Resets, Sought, Active
  <2> QED BY <1>4, <2>1, SoughtDisk DEF Resets
<1>5. CASE \E t \in Times : Turned(t)
  <2>1. PICK t \in Times : Turned(t) BY <1>5
  <2>2. w' = DoCycle(w, t) /\ t.junk \in Junk BY <2>1 DEF Turned
  <2>3. Sought(w') BY <1>0, <2>2, CycleSought
  <2>4. CASE Busy \in w'.status BY <2>1, <2>3, <2>4, SameDisk, SoughtDisk
  <2>5. CASE Busy \notin w'.status
    <3>1. ~Active(w)' BY <2>5 DEF Active
    <3> QED BY <3>1 DEF SoughtInv, Sought
  <2> QED BY <2>4, <2>5
<1> QED BY <1>1, <1>2, <1>3, <1>4, <1>5, NextSteps

LEMMA InitSought == Init => SoughtInv
<1> SUFFICES ASSUME Init PROVE SoughtInv OBVIOUS
<1>1. PICK b \in [1..SectorLength -> Stale] : w = Fresh(FALSE, b) BY DEF Init
<1>2. w.status = {} BY <1>1 DEF Fresh
<1> QED BY <1>2 DEF SoughtInv, Sought, Active

\* A type I command that verifies and ends without a seek error has the head on
\* the track of the track register (jwd1797.c:2059-2092), for every geometry with
\* two heads and every format: the ID field it compared, byte for byte with the
\* search for its mark, is one of the track under the head.  The track array holds
\* two tracks for each position of the head whatever the number of heads
\* (jwd1797.c:1839), so with one head the ID field names another cylinder.  That
\* no false mark is ever on the disk is an assumption on its contents: the code knows
\* a mark by its bytes alone, and takes A1 A1 A1 FE in a sector's data for one.
THEOREM TrackIsVerified == Heads = 2 => (Spec /\ []NoFalseMarks => VerifiedTrack)
<1> SUFFICES ASSUME Heads = 2 PROVE Spec /\ []NoFalseMarks => VerifiedTrack OBVIOUS
<1> DEFINE I == FloppyInv /\ SoughtInv
<1>1. Init => I BY InitFloppyInv, InitSought
<1>2. I /\ NoFalseMarks /\ [Next]_vars => I' BY NextFloppyInv, NextSought
<1>3. I /\ NoFalseMarks /\ [Next]_vars =>
        [(Ends /\ w.type = 1 /\ w.acted /\ w.verify /\ NotFound \notin w'.status
            /\ w.forced = {} /\ w.head \in 0 .. Cylinders - 1) => w'.track = w'.head]_vars
  <2> SUFFICES ASSUME FloppyInv, SoughtInv, NoFalseMarks, [Next]_vars, Ends, w.type = 1, w.verify,
                      NotFound \notin w'.status, w.forced = {}
               PROVE  w'.track = w'.head
    OBVIOUS
  <2>1. Busy \in w.status /\ Busy \notin w'.status /\ w'.type # 0 BY DEF Ends, IsBusy
  <2>2. PICK t \in Times : Turned(t)
    BY <2>1, NextSteps DEF Stays, Starts, Rewrites, Resets, Untouched, Registers
  <2>3. w' = DoCycle(w, t) /\ t.junk \in Junk BY <2>2 DEF Turned
  <2>4. Sound(w) /\ w.idle < IdlePulses /\ disk \in Images /\ Sought(w)
    BY DEF FloppyInv, TypeOK, Images, SoughtInv
  <2> QED BY <2>1, <2>3, <2>4, CycleVerifies
<1> QED BY <1>1, <1>2, <1>3, PTL DEF Spec, VerifiedTrack

-----------------------------------------------------------------------------
(* The registers name the sector whose ID field a command has found. *)

\* The command found what the registers name: matched, and not written since.
Agrees(k) == Active(k) /\ k.type = 2 /\ k.verified => Named(k)

LEMMA EvenNamed == ASSUME NEW k, NEW l, Stands(k, l), l.id = k.id, Named(k) PROVE Named(l)
  BY DEF Stands, Named

LEMMA UntouchedAgrees ==
  ASSUME NEW k, NEW l, Sound(k), Untouched(k, l), Agrees(k) PROVE Agrees(l)
<1> SUFFICES ASSUME Active(l), l.type = 2, l.verified PROVE Named(l) BY DEF Agrees
<1>1. Active(k) BY DEF Untouched, Active, Sound, Over, Idle
<1>2. Stands(k, l) /\ l.id = k.id /\ k.type = 2 /\ k.verified
  BY DEF Untouched, Even, Stands, Looks, Holds
<1> QED BY <1>1, <1>2, EvenNamed DEF Agrees

LEMMA ComesNamed ==
  ASSUME NEW k, NEW l, NEW p, Comes(k, l, p), ~l.done, l.verified, k.verified => Named(k)
  PROVE  Named(l)
<1>1. CASE SearchesOn(k, l, p) BY <1>1 DEF SearchesOn
<1>2. CASE Matched(k, l, p) BY <1>2 DEF Matched
<1>3. CASE Marking(k, l, p) \/ Delivered(k, l, p)
  BY <1>3, EvenNamed DEF Marking, Delivered
<1>4. CASE Continued(k, l) BY <1>4 DEF Continued
<1> QED BY <1>1, <1>2, <1>3, <1>4 DEF Comes, Ended

LEMMA CycleAgrees ==
  ASSUME NEW k, Sound(k), k.idle < IdlePulses, NEW t \in Times, t.junk \in Junk, disk \in Images,
         NoFalseMarks, Sought(k), Agrees(k)
  PROVE  Agrees(DoCycle(k, t))
<1> DEFINE b == BeforeStep(k, t)
           s == CommandStep(b, t)
           l == DoCycle(k, t)
<1> SUFFICES ASSUME Active(l), l.type = 2, l.verified PROVE Named(l) BY DEF Agrees
<1>1. Busy \in b.status BY CycleRests DEF Active
<1>2. TakesStep(k, b, s, l, t) BY <1>1, CycleTakesStep
<1> HIDE DEF b, s, l
<1>3. /\ Stands(s, l) /\ l.id = s.id /\ l.verified = s.verified /\ ~s.done /\ k.type = 2 /\ Active(k)
  BY <1>2 DEF TakesStep, Idles, Active, Even, Stands, Looks, Holds
<1>4. Comes(k, s, s.ptr) BY <1>2, <1>3, TakesStepComes
<1>5. Named(s) BY <1>3, <1>4, ComesNamed DEF Agrees
<1> QED BY <1>3, <1>5, EvenNamed

\* It holds as long as no register was written under a running command.
AgreedInv == legal => Agrees(w)

LEMMA NextAgreed ==
  FloppyInv /\ NoFalseMarks /\ SoughtInv /\ AgreedInv /\ [Next]_vars => AgreedInv'
<1> SUFFICES ASSUME FloppyInv, NoFalseMarks, Sought(w), AgreedInv, [Next]_vars, legal'
             PROVE  Agrees(w')
  BY DEF SoughtInv, AgreedInv, Agrees, Active, Named
<1>0. Sound(w) /\ w.idle < IdlePulses /\ disk \in Images BY DEF FloppyInv, TypeOK, Images
<1>1. CASE Stays BY <1>0, <1>1, UntouchedAgrees DEF Stays, KeepsDisk, AgreedInv
<1>2. CASE Starts BY <1>2 DEF Starts, Begins, Agrees
<1>3. CASE Rewrites BY <1>3 DEF Rewrites, Registers, Agrees, Active
<1>4. CASE Resets BY <1>4 DEF Resets, Agrees, Active
<1>5. CASE \E t \in Times : Turned(t)
  <2>1. PICK t \in Times : Turned(t) BY <1>5
  <2>2. w' = DoCycle(w, t) /\ t.junk \in Junk /\ legal BY <2>1 DEF Turned
  <2> QED BY <1>0, <2>2, CycleAgrees DEF AgreedInv
<1> QED BY <1>1, <1>2, <1>3, <1>4, <1>5, NextSteps

LEMMA InitAgreed == Init => AgreedInv
<1> SUFFICES ASSUME Init PROVE Agrees(w) BY DEF AgreedInv
<1>1. PICK b \in [1..SectorLength -> Stale] : w = Fresh(FALSE, b) BY DEF Init
<1>2. w.status = {} BY <1>1 DEF Fresh
<1> QED BY <1>2 DEF Agrees, Active

-----------------------------------------------------------------------------
(* WRITE SECTOR. *)

\* The place of a sector in the image file, found again from its offset.
LEMMA PlaceFound ==
  ASSUME NEW c \in 0..(Cylinders - 1), NEW h \in 0..(Heads - 1), NEW s \in 1..Sectors,
         NEW m, m = c * Heads + h
  PROVE  PlaceAt(m * Sectors + s - 1) = <<c, h, s>>
<1> DEFINE r == s - 1
           n == m * Sectors + r
<1>1. /\ Heads \in Nat \ {0} /\ Sectors \in Nat \ {0} /\ c \in Nat /\ h \in 0..(Heads - 1)
      /\ r \in 0..(Sectors - 1)
  BY Numbers
<1>2. m \in Nat /\ m \div Heads = c /\ m % Heads = h BY <1>1, Divided
<1>3. n \in Nat /\ n \div Sectors = m /\ n % Sectors = r
  <2>1. m \in Nat /\ Sectors \in Nat \ {0} /\ r \in 0..(Sectors - 1) BY <1>1, <1>2
  <2> HIDE DEF r
  <2>2. n \div Sectors = m /\ n % Sectors = r BY <2>1, Divided
  <2>3. n \in Nat BY <2>1
  <2> QED BY <2>2, <2>3
<1>4. m * Sectors + s - 1 = n /\ r + 1 = s
  <2>1. m * Sectors \in Nat BY <1>1, <1>2
  <2> QED BY <1>1, <2>1
<1>5. n \div (Heads * Sectors) = c
  <2>1. n = c * (Heads * Sectors) + (h * Sectors + r)
    <3>1. (c * Heads + h) * Sectors = c * (Heads * Sectors) + h * Sectors BY <1>1
    <3> QED BY <1>1, <1>2, <3>1
  <2>2. Heads * Sectors \in Nat \ {0} BY <1>1
  <2>3. h * Sectors + r \in 0..(Heads * Sectors - 1)
    <3>1. (Heads - 1) * Sectors = Heads * Sectors - Sectors BY <1>1
    <3>2. h * Sectors <= (Heads - 1) * Sectors BY <1>1
    <3>3. h * Sectors \in Nat BY <1>1
    <3>4. Heads * Sectors \in Nat BY <1>1
    <3> QED BY <1>1, <3>1, <3>2, <3>3, <3>4
  <2> DEFINE d == Heads * Sectors
             e == h * Sectors + r
  <2> HIDE DEF d, e, n
  <2>4. d \in Nat \ {0} /\ e \in 0..(d - 1) /\ n = c * d + e BY <2>1, <2>2, <2>3 DEF d, e
  <2>5. n \div d = c BY <1>1, <2>4, Divided
  <2> QED BY <2>5 DEF d
<1> HIDE DEF n, r
<1>6. PlaceAt(n) = <<c, h, s>> BY <1>2, <1>3, <1>4, <1>5 DEF PlaceAt
<1> QED BY <1>4, <1>6

LEMMA IdentifiedPlace ==
  ASSUME NEW k \in C, Identified(k), Named(k)
  PROVE  PlaceAt(Offset(k)) = <<k.track, k.side, k.sector>>
<1> DEFINE u == Under(k)
           c == u \div Heads
           h == u % Heads
<1>1. u \in Int BY UnderInt
<1>2. InArray(u) /\ k.id[3] \in 1..Sectors /\ k.id = IdField(u, k.id[3]) BY DEF Identified
<1> HIDE DEF u
<1>3. c \in 0..(Cylinders - 1) /\ h \in 0..(Heads - 1) BY <1>1, <1>2, ArrayTracks
<1>4. k.id[1] = c /\ k.id[2] = h BY <1>2 DEF IdField
<1> HIDE DEF c, h
<1> DEFINE m == k.id[1] * Heads + k.id[2]
<1>5. Offset(k) = m * Sectors + k.id[3] - 1 BY DEF Offset
<1>6. m = c * Heads + h BY <1>4
<1> HIDE DEF m
<1>7. PlaceAt(m * Sectors + k.id[3] - 1) = <<c, h, k.id[3]>> BY <1>2, <1>3, <1>6, PlaceFound
<1>8. PlaceAt(Offset(k)) = <<c, h, k.id[3]>> BY <1>5, <1>7
<1> QED BY <1>4, <1>8 DEF Named

\* WRITE SECTOR changes the sector that the track, side and sector registers name
\* on the drive of the latch, and that one only, when its last byte is there, and
\* nothing on a protected drive (jwd1797.c:1319-1366, 2237-2288): the ID field the
\* offset is computed from is the one that matched the registers.
THEOREM OneSectorIsWritten == Spec /\ []NoFalseMarks => WritesOneSector
<1> DEFINE I == FloppyInv /\ SoughtInv /\ AgreedInv
           Written == \E d \in Drives \ Protected :
                        /\ w.latch % 4 \in Drives => d = w.latch % 4
                        /\ disk' = [disk EXCEPT ![d][<<w.track, w.side, w.sector>>] = w.buffer]
<1>1. Init => I BY InitFloppyInv, InitSought, InitAgreed
<1>2. I /\ NoFalseMarks /\ [Next]_vars => I' BY NextFloppyInv, NextSought, NextAgreed
<1>3. I /\ NoFalseMarks /\ [Next]_vars => [(disk' # disk /\ legal) => Ends /\ Written]_vars
  <2> SUFFICES ASSUME FloppyInv, Sought(w), AgreedInv, NoFalseMarks, [Next]_vars, disk' # disk, legal
               PROVE  Ends /\ Written
    BY DEF SoughtInv
  <2>1. PICK t \in Times : Turned(t)
    BY NextSteps DEF Stays, Starts, Rewrites, Resets, KeepsDisk
  <2>2. w' = DoCycle(w, t) /\ disk' = DiskAfter(w, t) BY <2>1 DEF Turned
  <2>3. Sound(w) /\ w.idle < IdlePulses /\ disk \in Images BY DEF FloppyInv, TypeOK, Images
  <2> DEFINE d == Target(w, t.stray)
             b == BeforeStep(w, t)
             s == CommandStep(b, t)
  <2>4. /\ Commits(w, t) /\ d \in Drives \ Protected
        /\ disk' = [disk EXCEPT ![d][PlaceAt(Offset(w))] = w.buffer]
    BY <2>2 DEF DiskAfter
  <2>5. /\ TakesStep(w, b, s, w', t) /\ b.type = 2 /\ b.verified
        /\ Busy \notin w'.status /\ Busy \in w.status
    BY <2>2, <2>3, <2>4, CommitsEnds
  <2> HIDE DEF b, s
  <2>6. w \in C /\ Active(w) /\ w.type = 2 /\ w.verified /\ w'.type = 2
    BY <2>5 DEF TakesStep, Active, Even, Stands, Holds, Idles
  <2>7. Identified(w) /\ Named(w) BY <2>6 DEF Sought, OnTrackII, AgreedInv, Agrees
  <2>8. PlaceAt(Offset(w)) = <<w.track, w.side, w.sector>> BY <2>6, <2>7, IdentifiedPlace
  <2>9. w.latch % 4 \in Drives => d = w.latch % 4 BY DEF Target
  <2>10. Ends
    <3>1. w'.type # 0 BY <2>6
    <3> QED BY <2>5, <3>1 DEF Ends, IsBusy
  <2> HIDE DEF d
  <2> QED BY <2>4, <2>8, <2>9, <2>10
<1> QED BY <1>1, <1>2, <1>3, PTL DEF Spec, WritesOneSector

-----------------------------------------------------------------------------
(* READ SECTOR. *)

\* What a READ SECTOR that began at sector o has delivered: the bytes of the sectors
\* behind it and those of the sector it reads.
ByteFrom(k, o, i) ==
  disk[k.loaded][<<k.head, k.sso, o + (i - 1) \div SectorLength>>][((i - 1) % SectorLength) + 1]
BytesOfSector(k) == IF k.mark.found THEN SectorLength - k.left ELSE 0
Carried(k, o, q) ==
  /\ o \in Byte /\ k.sector - o \in Nat /\ (~k.multi => k.sector = o)
  /\ q \in Seq(Byte) /\ Len(q) = (k.sector - o) * SectorLength + BytesOfSector(k)
  /\ \A i \in 1..Len(q) : q[i] = ByteFrom(k, o, i)
Transfers(k, o, q) == Active(k) /\ k.type = 2 /\ k.name = "READ SECTOR" => Carried(k, o, q)

LEMMA StandsCarried ==
  ASSUME NEW k, NEW l, NEW o, NEW q, Carried(k, o, q),
         l.head = k.head, l.sso = k.sso, l.loaded = k.loaded, l.sector = k.sector, l.multi = k.multi,
         BytesOfSector(l) = BytesOfSector(k)
  PROVE  Carried(l, o, q)
<1>1. \A i \in 1..Len(q) : ByteFrom(l, o, i) = ByteFrom(k, o, i) BY DEF ByteFrom
<1> QED BY <1>1 DEF Carried

LEMMA UntouchedTransfers ==
  ASSUME NEW k, NEW l, NEW o, NEW q, Sound(k), Untouched(k, l), Transfers(k, o, q)
  PROVE  Transfers(l, o, q)
<1> SUFFICES ASSUME Active(l), l.type = 2, l.name = "READ SECTOR" PROVE Carried(l, o, q) BY DEF Transfers
<1>1. Active(k) BY DEF Untouched, Active, Sound, Over, Idle
<1>2. /\ l.head = k.head /\ l.sso = k.sso /\ l.loaded = k.loaded /\ l.sector = k.sector
      /\ l.multi = k.multi /\ l.mark = k.mark /\ l.left = k.left /\ k.type = 2 /\ k.name = "READ SECTOR"
  BY DEF Untouched, Even, Stands, Holds
<1>3. BytesOfSector(l) = BytesOfSector(k) BY <1>2 DEF BytesOfSector
<1>4. Carried(k, o, q) BY <1>1, <1>2 DEF Transfers
<1> QED BY <1>2, <1>3, <1>4, StandsCarried

LEMMA BeginsTransfers ==
  ASSUME NEW k \in C, NEW l, Begins(k, l) PROVE Transfers(l, k.sector, <<>>)
<1> SUFFICES ASSUME l.type = 2 PROVE Carried(l, k.sector, <<>>) BY DEF Transfers
<1>1. l.sector = k.sector /\ l.mark = Unmarked BY DEF Begins
<1>2. BytesOfSector(l) = 0 BY <1>1 DEF BytesOfSector, Unmarked
<1>3. k.sector \in Byte /\ k.sector - k.sector = 0 /\ k.sector \in Int
  <2>1. k.sector \in Byte BY Fields
  <2> QED BY <2>1 DEF Byte
<1>4. SectorLength \in Nat BY Numbers
<1>5. (l.sector - k.sector) * SectorLength + BytesOfSector(l) = 0 BY <1>1, <1>2, <1>3, <1>4
<1>6. <<>> \in Seq(Byte) /\ Len(<<>>) = 0 OBVIOUS
<1>7. \A i \in 1..Len(<<>>) : <<>>[i] = ByteFrom(l, k.sector, i) OBVIOUS
<1> QED BY <1>1, <1>3, <1>5, <1>6, <1>7 DEF Carried

LEMMA ByteAt ==
  ASSUME NEW n \in Nat, NEW r \in 0..(SectorLength - 1), NEW i, i = n * SectorLength + r + 1
  PROVE  (i - 1) \div SectorLength = n /\ (i - 1) % SectorLength = r
<1>1. SectorLength \in Nat \ {0} BY Numbers
<1>2. n * SectorLength \in Nat BY <1>1
<1>3. i - 1 = n * SectorLength + r BY <1>1, <1>2
<1>4. (n * SectorLength + r) \div SectorLength = n /\ (n * SectorLength + r) % SectorLength = r
  BY <1>1, Divided
<1> QED BY <1>3, <1>4

\* The byte that comes next.
LEMMA DeliveredByte ==
  ASSUME NEW k \in C, NEW l, NEW p, Identified(k), Named(k), Reads(k, p), NEW q, Delivered(k, l, q),
         Heads = 2, disk \in Images
  PROVE  l.data = disk[k.loaded][<<k.head, k.sso, k.sector>>][(SectorLength - k.left) + 1]
<1> DEFINE u == Under(k)
           j == SectorLength - k.left + 1
<1>1. u \in Int /\ u = 2 * k.head + k.sso BY UnderInt DEF Under
<1>2. k.head \in Int /\ k.sso \in 0..1 /\ k.loaded \in Drives /\ k.left \in Int BY Fields
<1>3. u \div Heads = k.head /\ u % Heads = k.sso BY <1>1, <1>2
<1>4. InArray(u) /\ k.id[3] \in 1..Sectors /\ k.id[3] = k.sector BY DEF Identified, Named
<1> HIDE DEF u
<1>5. BytesOf(k.loaded, u, k.sector) BY <1>1, <1>2, <1>4, BytesUnder
<1>6. k.left > 0 /\ l.data = TrackByte(k.loaded, u, PlaceOf(k.sector, DataMark + j))
  BY <1>4 DEF Delivered, u
<1>7. k.left \in 0..SectorLength BY DEF Delivered, Reads
<1>8. j \in 1..SectorLength
  <2>1. SectorLength \in Nat BY Numbers
  <2> QED BY <1>6, <1>7, <2>1
<1> HIDE DEF j
<1>9. l.data = disk[k.loaded][<<u \div Heads, u % Heads, k.sector>>][j] BY <1>5, <1>6, <1>8 DEF BytesOf
<1>10. l.data = disk[k.loaded][<<k.head, k.sso, k.sector>>][j] BY <1>3, <1>9
<1> QED BY <1>10 DEF j

LEMMA DeliveredCarried ==
  ASSUME NEW k \in C, NEW l, NEW p, Identified(k), Named(k), Reads(k, p), NEW q, Delivered(k, l, q),
         Heads = 2, disk \in Images, NEW o, NEW x, Carried(k, o, x)
  PROVE  Carried(l, o, Append(x, l.data))
<1> DEFINE n == k.sector - o
           r == SectorLength - k.left
           y == Append(x, l.data)
           i == Len(x) + 1
<1>1. /\ l \in C /\ l.head = k.head /\ l.sso = k.sso /\ l.loaded = k.loaded /\ l.sector = k.sector
      /\ l.multi = k.multi /\ k.mark.found /\ l.mark.found /\ k.left > 0 /\ l.left = k.left - 1
  BY DEF Delivered, Stands
<1>2. SectorLength \in Nat \ {0} BY Numbers
<1>3. k.left \in 0..SectorLength BY <1>1 DEF Reads
<1>4. r \in 0..(SectorLength - 1) BY <1>1, <1>2, <1>3
<1>5. BytesOfSector(k) = r /\ BytesOfSector(l) = r + 1 BY <1>1, <1>2, <1>3 DEF BytesOfSector
<1>6. o \in Byte /\ o \in Int /\ n \in Nat /\ x \in Seq(Byte) /\ Len(x) = n * SectorLength + r
      /\ k.sector = o + n /\ (~k.multi => k.sector = o)
  <2>1. k.sector \in Byte BY Fields
  <2>2. o \in Byte /\ n \in Nat /\ x \in Seq(Byte) /\ (~k.multi => k.sector = o) BY DEF Carried
  <2>3. Len(x) = n * SectorLength + BytesOfSector(k) BY DEF Carried
  <2>4. Len(x) = n * SectorLength + r BY <1>5, <2>3
  <2>5. \A z \in Byte : z \in Int BY DEF Byte
  <2>6. o \in Int BY <2>2, <2>5
  <2>7. k.sector \in Int BY <2>1, <2>5
  <2>8. k.sector = o + n BY <2>6, <2>7
  <2> QED BY <2>2, <2>4, <2>6, <2>8
<1>7. n * SectorLength \in Nat BY <1>2, <1>6
<1>8. l.data \in Byte BY <1>1, Fields
<1>9. y \in Seq(Byte) /\ Len(y) = i /\ y[i] = l.data /\ \A m \in 1..Len(x) : y[m] = x[m]
  BY <1>6, <1>8
<1>10. l.data = disk[k.loaded][<<k.head, k.sso, k.sector>>][r + 1] BY DeliveredByte
<1>11. i = n * SectorLength + r + 1 BY <1>6
<1> HIDE DEF n, r, y, i
<1>12. (i - 1) \div SectorLength = n /\ (i - 1) % SectorLength = r BY <1>4, <1>6, <1>11, ByteAt
<1>13. ByteFrom(l, o, i) = l.data BY <1>1, <1>6, <1>10, <1>12 DEF ByteFrom
<1>14. \A m \in 1..Len(x) : y[m] = ByteFrom(l, o, m)
  <2> SUFFICES ASSUME NEW m \in 1..Len(x) PROVE y[m] = ByteFrom(l, o, m) OBVIOUS
  <2>1. ByteFrom(l, o, m) = ByteFrom(k, o, m) BY <1>1 DEF ByteFrom
  <2>2. x[m] = ByteFrom(k, o, m) BY DEF Carried
  <2> QED BY <1>9, <2>1, <2>2
<1>15. \A m \in 1..Len(y) : y[m] = ByteFrom(l, o, m)
  <2> SUFFICES ASSUME NEW m \in 1..Len(y) PROVE y[m] = ByteFrom(l, o, m) OBVIOUS
  <2>1. Len(x) \in Nat BY <1>6
  <2>2. m \in 1..Len(x) \/ m = i BY <1>9, <2>1 DEF i
  <2> QED BY <1>9, <1>13, <1>14, <2>2
<1>16. Len(y) = n * SectorLength + (r + 1) BY <1>4, <1>7, <1>9, <1>11
<1>17. l.sector - o = n BY <1>1 DEF n
<1>18. Len(y) = (l.sector - o) * SectorLength + BytesOfSector(l) BY <1>5, <1>16, <1>17
<1>19. o \in Byte /\ l.sector - o \in Nat /\ (~l.multi => l.sector = o) /\ y \in Seq(Byte)
  BY <1>1, <1>6, <1>9, <1>17
<1>20. Carried(l, o, y) BY <1>15, <1>18, <1>19 DEF Carried
<1> QED BY <1>20 DEF y

LEMMA ContinuedCarried ==
  ASSUME NEW k \in C, NEW l, NEW p, Identified(k), Named(k), Reads(k, p), Continued(k, l),
         NEW o, NEW x, Carried(k, o, x)
  PROVE  Carried(l, o, x)
<1> DEFINE s == (k.sector + 1) % 256
           n == k.sector - o
           g == Sector(k, s)
<1>1. k.sector \in 1..Sectors /\ Sectors \in 1..254
  BY GeometryAssumption DEF Identified, Named
<1>2. s = k.sector + 1 BY <1>1
<1>3. /\ g.head = k.head /\ g.sso = k.sso /\ g.loaded = k.loaded /\ g.sector = s /\ g.multi = k.multi
  BY NextSector, ZenonT(60) DEF C, ControllerWith, Sector
<1>4. /\ Stands(g, l) /\ k.multi /\ k.mark.found /\ k.mark.all /\ l.mark = Unmarked
  BY DEF Continued
<1> HIDE DEF g
<1>5. /\ l.head = k.head /\ l.sso = k.sso /\ l.loaded = k.loaded /\ l.sector = k.sector + 1
      /\ l.multi
  BY <1>2, <1>3, <1>4 DEF Stands
<1>6. BytesOfSector(l) = 0 BY <1>4 DEF BytesOfSector, Unmarked
<1>7. SectorLength \in Nat BY Numbers
<1>8. BytesOfSector(k) = SectorLength
  <2>1. k.left = 0 BY <1>4 DEF Reads
  <2> QED BY <1>4, <1>7, <2>1 DEF BytesOfSector
<1>9. o \in Byte /\ n \in Nat /\ x \in Seq(Byte) /\ Len(x) = n * SectorLength + SectorLength
  BY <1>8 DEF Carried
<1>10. l.sector - o = n + 1
  <2>1. o \in Int BY <1>9 DEF Byte
  <2> QED BY <1>1, <1>5, <2>1
<1> HIDE DEF n
<1>11. Len(x) = (n + 1) * SectorLength + 0 BY <1>7, <1>9
<1>12. \A i \in 1..Len(x) : x[i] = ByteFrom(l, o, i)
  <2> SUFFICES ASSUME NEW i \in 1..Len(x) PROVE x[i] = ByteFrom(l, o, i) OBVIOUS
  <2>1. ByteFrom(l, o, i) = ByteFrom(k, o, i) BY <1>5 DEF ByteFrom
  <2>2. x[i] = ByteFrom(k, o, i) BY DEF Carried
  <2> QED BY <2>1, <2>2
<1>13. Len(x) = (l.sector - o) * SectorLength + BytesOfSector(l) BY <1>6, <1>10, <1>11
<1>14. l.sector - o \in Nat BY <1>9, <1>10
<1> QED BY <1>5, <1>9, <1>12, <1>13, <1>14 DEF Carried

\* The history of a cycle.
Sends(k, l, q) == IF k.mark.found /\ l.left # k.left THEN Append(q, l.data) ELSE q

LEMMA OneLess == \A z \in Int : z - 1 # z OBVIOUS
LEMMA NoneLeft == SectorLength - SectorLength = 0 BY Numbers

LEMMA ComesCarried ==
  ASSUME NEW k \in C, NEW l, NEW p, NEW pp, OnTrackII(k, pp), k.verified => Named(k), k.name = "READ SECTOR",
         Comes(k, l, p), ~l.done, Heads = 2, disk \in Images, NEW o, NEW x, Carried(k, o, x)
  PROVE  Carried(l, o, Sends(k, l, x))
<1>1. SectorLength \in Nat BY Numbers
<1>2. CASE SearchesOn(k, l, p) \/ Matched(k, l, p)
  <2>1. Stands(k, l) /\ ~k.verified /\ l.mark = k.mark BY <1>2 DEF SearchesOn, Matched
  <2>2. k.mark = Unmarked BY <2>1 DEF OnTrackII, Reads
  <2>0. ~Unmarked.found BY DEF Unmarked
  <2>3. ~k.mark.found /\ ~l.mark.found BY <2>0, <2>1, <2>2, Zenon
  <2>4. BytesOfSector(l) = BytesOfSector(k) BY <2>3 DEF BytesOfSector
  <2>5. Sends(k, l, x) = x BY <2>3 DEF Sends
  <2>6. /\ l.head = k.head /\ l.sso = k.sso /\ l.loaded = k.loaded /\ l.sector = k.sector
        /\ l.multi = k.multi
    BY <2>1 DEF Stands
  <2>7. Carried(l, o, x) BY <2>4, <2>6, StandsCarried
  <2> QED BY <2>5, <2>7
<1>3. CASE Marking(k, l, p)
  <2>1. Stands(k, l) /\ k.verified /\ l.left = k.left /\ (~l.mark.found => ~k.mark.found)
    BY <1>3 DEF Marking
  <2>2. Reads(k, pp) BY <2>1 DEF OnTrackII
  <2>3. BytesOfSector(l) = BytesOfSector(k)
    <3>1. CASE k.mark.found BY <2>1, <3>1, Zenon DEF BytesOfSector
    <3>2. CASE ~k.mark.found
      <4>0. k.left = SectorLength BY <2>2, <3>2 DEF Reads
      <4>1. k.left = SectorLength /\ l.left = SectorLength BY <2>1, <4>0
      <4>2. SectorLength - k.left = 0 /\ SectorLength - l.left = 0
        BY <4>1, NoneLeft, Zenon
      <4>3. BytesOfSector(k) = 0 BY <3>2, Zenon DEF BytesOfSector
      <4>4. CASE l.mark.found
        <5>1. BytesOfSector(l) = SectorLength - l.left BY <4>4, Zenon DEF BytesOfSector
        <5> QED BY <4>2, <4>3, <5>1
      <4>5. CASE ~l.mark.found
        <5>1. BytesOfSector(l) = 0 BY <4>5, Zenon DEF BytesOfSector
        <5> QED BY <4>3, <5>1
      <4> QED BY <4>4, <4>5
    <3> QED BY <3>1, <3>2
  <2>4. Sends(k, l, x) = x BY <2>1 DEF Sends
  <2>5. /\ l.head = k.head /\ l.sso = k.sso /\ l.loaded = k.loaded /\ l.sector = k.sector
        /\ l.multi = k.multi
    BY <2>1 DEF Stands
  <2>6. Carried(l, o, x) BY <2>3, <2>5, StandsCarried
  <2> QED BY <2>4, <2>6
<1>4. CASE Delivered(k, l, p)
  <2>1. k.verified /\ k.mark.found /\ l.left = k.left - 1 BY <1>4 DEF Delivered
  <2>2. Identified(k) /\ Named(k) /\ Reads(k, pp) BY <2>1 DEF OnTrackII
  <2>3. k.left \in Int BY Fields
  <2>4. k.left - 1 # k.left BY <2>3, OneLess, Zenon
  <2>5. l.left # k.left BY <2>1, <2>4
  <2>6. Sends(k, l, x) = Append(x, l.data) BY <2>1, <2>5, Zenon DEF Sends
  <2>7. Carried(l, o, Append(x, l.data)) BY <1>4, <2>2, DeliveredCarried
  <2> QED BY <2>6, <2>7
<1>5. CASE Continued(k, l)
  <2>1. k.verified /\ l.left = k.left BY <1>5 DEF Continued
  <2>2. Identified(k) /\ Named(k) /\ Reads(k, pp) BY <2>1 DEF OnTrackII
  <2>3. Sends(k, l, x) = x BY <2>1 DEF Sends
  <2>4. Carried(l, o, x) BY <1>5, <2>2, ContinuedCarried
  <2> QED BY <2>3, <2>4
<1> QED BY <1>2, <1>3, <1>4, <1>5 DEF Comes, Ended

LEMMA CycleTransfers ==
  ASSUME NEW k, Sound(k), k.idle < IdlePulses, NEW t \in Times, t.junk \in Junk, disk \in Images,
         NoFalseMarks, Sought(k), Agrees(k), Heads = 2, NEW o, NEW x, Transfers(k, o, x)
  PROVE  Transfers(DoCycle(k, t), o, Sends(k, DoCycle(k, t), x))
<1> DEFINE b == BeforeStep(k, t)
           s == CommandStep(b, t)
           l == DoCycle(k, t)
<1> SUFFICES ASSUME Active(l), l.type = 2, l.name = "READ SECTOR" PROVE Carried(l, o, Sends(k, l, x))
  BY DEF Transfers
<1>1. Busy \in b.status BY CycleRests DEF Active
<1>2. TakesStep(k, b, s, l, t) BY <1>1, CycleTakesStep
<1> HIDE DEF b, s, l
<1>3. /\ l.head = s.head /\ l.sso = s.sso /\ l.loaded = s.loaded /\ l.sector = s.sector /\ l.multi = s.multi
      /\ l.left = s.left /\ l.mark = s.mark /\ l.data = s.data /\ s.name = "READ SECTOR"
      /\ ~s.done /\ k.type = 2 /\ Active(k) /\ k \in C
  BY <1>2 DEF TakesStep, Idles, Active, Even, Stands, Holds
<1>4. Comes(k, s, s.ptr) BY <1>2, <1>3, TakesStepComes
<1>5. OnTrackII(k, k.ptr) /\ (k.verified => Named(k)) BY <1>3 DEF Sought, Agrees
<1>6. k.name = "READ SECTOR"
  <2> DEFINE n == (k.sector + 1) % 256
  <2>1. Stands(k, s) => s.name = k.name BY DEF Stands
  <2>2. n \in Byte BY <1>3, NextSector
  <2> HIDE DEF n
  <2>3. Sector(k, n).name = k.name BY <1>3, <2>2 DEF C, ControllerWith, Sector
  <2>4. Stands(Sector(k, n), s) => s.name = k.name BY <2>3 DEF Stands
  <2> QED BY <1>3, <1>4, <2>1, <2>4
    DEF Comes, Ended, SearchesOn, Matched, Marking, Delivered, Continued, n
<1>7. Carried(k, o, x) BY <1>3, <1>6 DEF Transfers
<1>8. Carried(s, o, Sends(k, s, x)) BY <1>3, <1>4, <1>5, <1>6, <1>7, ComesCarried
<1>9. Sends(k, l, x) = Sends(k, s, x) BY <1>3 DEF Sends
<1>10. BytesOfSector(l) = BytesOfSector(s) BY <1>3 DEF BytesOfSector
<1> QED BY <1>3, <1>8, <1>9, <1>10, StandsCarried

\* The bytes sent are a beginning of those asked for.
TransferInv == legal => Transfers(w, origin, sent)

LEMMA TransfersDisk == disk' = disk /\ Transfers(w', origin', sent') => Transfers(w, origin, sent)'
  BY DEF Transfers, Carried, ByteFrom

LEMMA NextTransfer ==
  FloppyInv /\ NoFalseMarks /\ Heads = 2 /\ SoughtInv /\ AgreedInv /\ TransferInv /\ [Next]_vars
    => TransferInv'
<1> SUFFICES ASSUME FloppyInv, NoFalseMarks, Heads = 2, Sought(w), AgreedInv, TransferInv, [Next]_vars,
                    legal'
             PROVE  Transfers(w, origin, sent)'
  BY DEF SoughtInv, TransferInv
<1>0. Sound(w) /\ w.idle < IdlePulses /\ disk \in Images /\ w \in C
  BY SoundC DEF FloppyInv, TypeOK, Images
<1>1. CASE Stays
  <2>1. Transfers(w', origin, sent) BY <1>0, <1>1, UntouchedTransfers DEF Stays, KeepsDisk, TransferInv
  <2> QED BY <1>1, <2>1, TransfersDisk DEF Stays, KeepsDisk
<1>2. CASE Starts
  <2>1. Transfers(w', w.sector, <<>>) BY <1>0, <1>2, BeginsTransfers DEF Starts
  <2> QED BY <1>2, <2>1, TransfersDisk DEF Starts, KeepsDisk
<1>3. CASE Rewrites \/ Resets
  <2>1. ~Active(w') BY <1>3 DEF Rewrites, Registers, Resets, Active
  <2> QED BY <1>3, <2>1, TransfersDisk DEF Transfers, Rewrites, Resets, KeepsDisk
<1>4. CASE \E t \in Times : Turned(t)
  <2>1. PICK t \in Times : Turned(t) BY <1>4
  <2>2. w' = DoCycle(w, t) /\ t.junk \in Junk /\ legal BY <2>1 DEF Turned
  <2>3. CASE Busy \in w'.status
    <3>1. origin' = origin /\ sent' = Sends(w, w', sent) BY <2>1, <2>2, <2>3 DEF Turned, Sends
    <3>2. Transfers(w', origin, Sends(w, w', sent))
      BY <1>0, <2>2, CycleTransfers DEF AgreedInv, TransferInv
    <3>3. disk' = disk BY <2>1, <2>3, SameDisk
    <3> QED BY <3>1, <3>2, <3>3, TransfersDisk
  <2>4. CASE Busy \notin w'.status
    <3>1. ~Active(w)' BY <2>4 DEF Active
    <3> QED BY <3>1 DEF Transfers
  <2> QED BY <2>3, <2>4
<1> QED BY <1>1, <1>2, <1>3, <1>4, NextSteps

LEMMA InitTransfer == Init => TransferInv
<1> SUFFICES ASSUME Init PROVE Transfers(w, origin, sent) BY DEF TransferInv
<1>1. PICK b \in [1..SectorLength -> Stale] : w = Fresh(FALSE, b) BY DEF Init
<1>2. w.status = {} BY <1>1 DEF Fresh
<1> QED BY <1>2 DEF Transfers, Active

\* The bytes a READ SECTOR that began at sector o asked for.
SectorsAsked(k, o) == IF k.multi THEN Sectors - o + 1 ELSE 1
AskedOf(k, o) == [i \in 1..(SectorsAsked(k, o) * SectorLength) |-> ByteFrom(k, o, i)]

\* What has been carried when the last byte has: what was asked for.
LEMMA CarriedAll ==
  ASSUME NEW k \in C, NEW p, Identified(k), Named(k), Reads(k, p), k.mark.found, k.mark.all,
         k.multi => (k.sector + 1) % 256 > Sectors, NEW o, NEW x, Carried(k, o, x)
  PROVE  x = AskedOf(k, o)
<1> DEFINE n == SectorsAsked(k, o)
           m == k.sector - o
           y == [i \in 1..(n * SectorLength) |-> ByteFrom(k, o, i)]
<1>1. k.sector \in 1..Sectors /\ Sectors \in 1..254
  BY GeometryAssumption DEF Identified, Named
<1>2. SectorLength \in Nat BY Numbers
<1>3. BytesOfSector(k) = SectorLength
  <2>1. k.left = 0 BY DEF Reads
  <2> QED BY <1>2, <2>1 DEF BytesOfSector
<1>4. /\ o \in Byte /\ m \in Nat /\ (~k.multi => k.sector = o) /\ x \in Seq(Byte)
      /\ Len(x) = m * SectorLength + SectorLength
  BY <1>3 DEF Carried
<1>5. n = m + 1
  <2>1. o \in Int BY <1>4 DEF Byte
  <2>2. CASE k.multi
    <3>1. (k.sector + 1) % 256 = k.sector + 1 BY <1>1
    <3>2. k.sector = Sectors BY <1>1, <2>2, <3>1
    <3>3. n = Sectors - o + 1 BY <2>2 DEF SectorsAsked
    <3> QED BY <1>1, <2>1, <3>2, <3>3
  <2>3. CASE ~k.multi
    <3>1. n = 1 BY <2>3 DEF SectorsAsked
    <3> QED BY <1>1, <1>4, <2>1, <2>3, <3>1
  <2> QED BY <2>2, <2>3
<1> HIDE DEF n, m
<1>6. Len(x) = n * SectorLength BY <1>2, <1>4, <1>5
<1>7. \A i \in 1..Len(x) : x[i] = ByteFrom(k, o, i) BY DEF Carried
<1>8. x = [i \in 1..Len(x) |-> x[i]] BY <1>4
<1>9. x = y BY <1>6, <1>7, <1>8
<1> QED BY <1>9 DEF n, AskedOf

LEMMA CycleAsked ==
  ASSUME NEW k, Sound(k), k.idle < IdlePulses, NEW t \in Times, t.junk \in Junk, disk \in Images,
         NoFalseMarks, Sought(k), Agrees(k), Heads = 2, NEW o, NEW x, Transfers(k, o, x),
         Busy \in k.status, k.type = 2, k.name = "READ SECTOR", k.forced = {},
         Busy \notin DoCycle(k, t).status, NotFound \notin DoCycle(k, t).status
  PROVE  x = AskedOf(k, o)
<1> DEFINE b == BeforeStep(k, t)
           s == CommandStep(b, t)
           l == DoCycle(k, t)
<1>1. Busy \in b.status BY CycleRests
<1>2. TakesStep(k, b, s, l, t) BY <1>1, CycleTakesStep
<1>3. Busy \notin l.status /\ NotFound \notin l.status OBVIOUS
<1> HIDE DEF b, s, l
<1>4. l.status = s.status /\ Active(k) /\ k \in C BY <1>2 DEF TakesStep, Idles, Active
<1>5. s.done BY <1>2, <1>3, <1>4 DEF TakesStep, Active, Over
<1>6. Comes(k, s, s.ptr) BY <1>2, TakesStepComes
<1>7. Ended(k, s) BY <1>5, <1>6 DEF Comes
<1>8. k.verified /\ k.mark.found /\ k.mark.all /\ (k.multi => (k.sector + 1) % 256 > Sectors)
  BY <1>3, <1>4, <1>7 DEF Ended
<1>9. OnTrackII(k, k.ptr) /\ Named(k) BY <1>4, <1>8 DEF Sought, Agrees
<1>10. Identified(k) /\ Reads(k, k.ptr) BY <1>8, <1>9 DEF OnTrackII
<1>11. Carried(k, o, x) BY <1>4 DEF Transfers
<1> QED BY <1>4, <1>8, <1>9, <1>10, <1>11, CarriedAll

\* READ SECTOR, ended without an error and not forced to end, has put each byte of
\* the sectors asked for into the data register, in order and once
\* (jwd1797.c:808-915, 1886-2235): wherever the head was when the command came,
\* and for every number and length of sectors and gaps.  Two heads, and no false
\* marks, as for TrackIsVerified.
THEOREM SectorsAreWhole == Heads = 2 => (Spec /\ []NoFalseMarks => WholeSectors)
<1> SUFFICES ASSUME Heads = 2 PROVE Spec /\ []NoFalseMarks => WholeSectors OBVIOUS
<1> DEFINE I == FloppyInv /\ SoughtInv /\ AgreedInv /\ TransferInv
<1>1. Init => I BY InitFloppyInv, InitSought, InitAgreed, InitTransfer
<1>2. I /\ NoFalseMarks /\ [Next]_vars => I'
  BY NextFloppyInv, NextSought, NextAgreed, NextTransfer
<1>3. I /\ NoFalseMarks /\ [Next]_vars =>
        [(Ends /\ w.type = 2 /\ w.name = "READ SECTOR" /\ NotFound \notin w'.status
            /\ w.forced = {} /\ legal) => sent = Asked]_vars
  <2> SUFFICES ASSUME FloppyInv, Sought(w), AgreedInv, TransferInv, NoFalseMarks, [Next]_vars, Ends,
                      w.type = 2, w.name = "READ SECTOR", NotFound \notin w'.status, w.forced = {}, legal
               PROVE  sent = Asked
    BY DEF SoughtInv
  <2>1. Busy \in w.status /\ Busy \notin w'.status /\ w'.type # 0 BY DEF Ends, IsBusy
  <2>2. PICK t \in Times : Turned(t)
    BY <2>1, NextSteps DEF Stays, Starts, Rewrites, Resets, Untouched, Registers
  <2>3. w' = DoCycle(w, t) /\ t.junk \in Junk BY <2>2 DEF Turned
  <2>4. Sound(w) /\ w.idle < IdlePulses /\ disk \in Images BY DEF FloppyInv, TypeOK, Images
  <2>5. Agrees(w) /\ Transfers(w, origin, sent) BY DEF AgreedInv, TransferInv
  <2>6. Busy \notin DoCycle(w, t).status /\ NotFound \notin DoCycle(w, t).status BY <2>1, <2>3
  <2>7. sent = AskedOf(w, origin) BY <2>1, <2>3, <2>4, <2>5, <2>6, CycleAsked
  <2>8. Asked = AskedOf(w, origin) BY Zenon DEF Asked, AskedBytes, AskedOf, SectorsAsked, ByteFrom
  <2> QED BY <2>7, <2>8
<1> QED BY <1>1, <1>2, <1>3, PTL DEF Spec, WholeSectors

=============================================================================
