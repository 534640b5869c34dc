--------------------------- MODULE KeyboardProof ----------------------------
(***************************************************************************)
(* Proofs about the keyboard: its two threads implement the queue of       *)
(* KeyQueue whatever the size of the ring, and no key goes unannounced     *)
(* unless the keyboard is reset.                                           *)
(***************************************************************************)
EXTENDS Keyboard, SequenceTheorems, TLAPS

\* The put of a key and the place it is for, as long as no clear came between:
\* its code is in the slot of the tail, and the tail loaded is the tail there
\* is (keyboard.c:60-88).
PutInv ==
  /\ ui = "stored" /\ ~torn => fifo[tail] = code
  /\ ui = "loaded" /\ ~torn => reg = tail /\ fifo[tail] = code
KeyboardInv == TypeOK /\ PutInv

-----------------------------------------------------------------------------
(* Places in the ring. *)

\* A remainder of a number below twice the divisor.
LEMMA Wrapped ==
  ASSUME NEW n \in Nat \ {0}, NEW a \in 0..(2 * n - 1)
  PROVE  a % n = IF a < n THEN a ELSE a - n
<1>1. ASSUME NEW q \in Int, NEW r \in 0..(n - 1) PROVE (q * n + r) % n = r
  OBVIOUS
<1>2. CASE a < n
  <2>1. (0 * n + a) % n = a BY <1>1, <1>2
  <2> QED BY <2>1, <1>2
<1>3. CASE ~(a < n)
  <2>1. a - n \in 0..(n - 1) BY <1>3
  <2>2. (1 * n + (a - n)) % n = a - n BY <1>1, <2>1
  <2>3. 1 * n + (a - n) = a OBVIOUS
  <2> QED BY <2>2, <2>3, <1>3
<1> QED BY <1>2, <1>3

\* How many keys wait from slot h up to a tail t, and in which slots.
Length(t, h) == IF h <= t THEN t - h ELSE t + Ring - h
Slot(h, i) == IF h + i - 1 < Ring THEN h + i - 1 ELSE h + i - 1 - Ring
WaitingIn(f, t, h) == [i \in 1..Length(t, h) |-> f[Slot(h, i)]]

LEMMA Lengths ==
  ASSUME NEW t \in Slots, NEW h \in Slots
  PROVE  /\ (t + Ring - h) % Ring = Length(t, h) /\ Length(t, h) \in 0..(Ring - 1)
         /\ \A i \in 1..Length(t, h) :
              (h + i - 1) % Ring = Slot(h, i) /\ Slot(h, i) \in Slots /\ Slot(h, i) # t
<1>1. Ring \in Nat \ {0} /\ Ring > 1 /\ h \in 0..(Ring - 1) /\ t \in 0..(Ring - 1)
  BY RingAssumption DEF Slots
<1>2. (t + Ring - h) % Ring = Length(t, h)
  <2> DEFINE a == t + Ring - h
  <2>1. a \in 0..(2 * Ring - 1) BY <1>1
  <2> HIDE DEF a
  <2>2. a % Ring = IF a < Ring THEN a ELSE a - Ring
    BY <1>1, <2>1, Wrapped
  <2> QED BY <1>1, <2>2 DEF Length, a
<1>3. Length(t, h) \in 0..(Ring - 1) BY <1>1 DEF Length
<1>4. ASSUME NEW i \in 1..Length(t, h)
      PROVE  (h + i - 1) % Ring = Slot(h, i) /\ Slot(h, i) \in Slots /\ Slot(h, i) # t
  <2> DEFINE a == h + i - 1
  <2>1. a \in 0..(2 * Ring - 1) BY <1>1, <1>3
  <2> HIDE DEF a
  <2>2. a % Ring = IF a < Ring THEN a ELSE a - Ring
    BY <1>1, <2>1, Wrapped
  <2>3. Slot(h, i) \in Slots /\ Slot(h, i) # t
    BY <1>1, <1>3 DEF Slot, Length, Slots
  <2>4. (h + i - 1) % Ring = Slot(h, i)
    <3>1. Slot(h, i) = IF a < Ring THEN a ELSE a - Ring BY <1>1, <1>3 DEF Slot, a
    <3>2. a % Ring = Slot(h, i) BY <2>2, <3>1
    <3> QED BY <3>2, Zenon DEF a
  <2> QED BY <2>3, <2>4
<1> QED BY <1>2, <1>3, <1>4

\* The keys that wait are codes, fewer of them than the ring has slots.
LEMMA WaitingCodes ==
  ASSUME NEW f \in [Slots -> Codes], NEW t \in Slots, NEW h \in Slots
  PROVE  /\ WaitingIn(f, t, h) \in Seq(Codes) /\ Len(WaitingIn(f, t, h)) = Length(t, h)
         /\ Length(t, h) < Ring
<1>1. \A i \in 1..Length(t, h) : f[Slot(h, i)] \in Codes
  BY Lengths
<1>2. WaitingIn(f, t, h) \in [1..Length(t, h) -> Codes]
  BY <1>1 DEF WaitingIn
<1>3. Length(t, h) \in Nat /\ Length(t, h) < Ring
  BY Lengths, RingAssumption
<1> QED BY <1>2, <1>3

LEMMA WaitingNow ==
  ASSUME TypeOK, NEW h \in Slots
  PROVE  Waiting(h) = WaitingIn(fifo, tail, h)
<1>1. tail \in Slots BY DEF TypeOK
<1> QED BY <1>1, Lengths DEF Waiting, WaitingIn
LEMMA WaitingNext ==
  ASSUME tail' \in Slots, NEW h \in Slots
  PROVE  Waiting(h)' = WaitingIn(fifo', tail', h)
  BY Lengths DEF Waiting, WaitingIn

\* A key stored in the slot of the tail is not one that waits yet.
LEMMA WaitingStored ==
  ASSUME NEW f \in [Slots -> Codes], NEW t \in Slots, NEW h \in Slots, NEW k
  PROVE  WaitingIn([f EXCEPT ![t] = k], t, h) = WaitingIn(f, t, h)
<1>1. \A i \in 1..Length(t, h) : [f EXCEPT ![t] = k][Slot(h, i)] = f[Slot(h, i)]
  BY Lengths
<1> QED BY <1>1 DEF WaitingIn

\* The next slot stays in the ring.
LEMMA NextSlot ==
  ASSUME NEW s \in Slots
  PROVE  /\ (s + 1) % Ring \in Slots
         /\ (s + 1) % Ring = IF s = Ring - 1 THEN 0 ELSE s + 1
<1>1. Ring \in Nat \ {0} /\ Ring > 1 /\ s \in 0..(Ring - 1) BY RingAssumption DEF Slots
<1> DEFINE a == s + 1
<1>2. a \in 0..(2 * Ring - 1) BY <1>1
<1> HIDE DEF a
<1>3. a % Ring = IF a < Ring THEN a ELSE a - Ring
  BY <1>1, <1>2, Wrapped
<1> QED BY <1>1, <1>3 DEF Slots, a

-----------------------------------------------------------------------------
(* The invariant. *)

LEMMA KeyboardInitInv == Init => KeyboardInv
<1> SUFFICES ASSUME Init PROVE KeyboardInv
  OBVIOUS
<1>1. 0 \in Slots /\ 0 \in Codes BY RingAssumption DEF Slots, Codes
<1>2. TypeOK BY <1>1 DEF Init, TypeOK
<1>3. PutInv BY DEF Init, PutInv
<1> QED BY <1>2, <1>3 DEF KeyboardInv

LEMMA TakeKeyKeeps ==
  ASSUME KeyboardInv, TakeKey, emu' \in {"check"}
  PROVE  KeyboardInv'
<1>1. head \in Slots /\ tail \in Slots /\ fifo \in [Slots -> Codes] /\ data \in Codes /\ 0 \in Codes
  BY DEF KeyboardInv, TypeOK, Codes
<1>2. (head + 1) % Ring \in Slots BY <1>1, NextSlot
<1>3. head' \in Slots /\ data' \in Codes /\ got' \in Codes
  BY <1>1, <1>2 DEF TakeKey
<1>4. TypeOK' BY <1>3 DEF TakeKey, KeyboardInv, TypeOK, uiVars
<1>5. PutInv' BY DEF TakeKey, KeyboardInv, PutInv, uiVars
<1> QED BY <1>4, <1>5 DEF KeyboardInv

LEMMA KeyboardStepInv == KeyboardInv /\ [Next]_vars => KeyboardInv'
<1> SUFFICES ASSUME KeyboardInv, [Next]_vars PROVE KeyboardInv'
  OBVIOUS
<1> USE DEF KeyboardInv, ring, uiVars
<1>0. /\ fifo \in [Slots -> Codes] /\ tail \in Slots /\ 0 \in Slots /\ 0 \in Codes
  BY RingAssumption DEF TypeOK, Slots, Codes
<1>1. CASE PressControl
  BY <1>1 DEF PressControl, TypeOK, PutInv
<1>2. ASSUME NEW k \in Pressed, PressKey(k) PROVE KeyboardInv'
  <2>1. code' \in Codes
    <3>1. code' = KeyCode(k, ctrl) /\ k \in Pressed \ {Control, Shift} BY <1>2 DEF PressKey
    <3>2. ctrl \in BOOLEAN BY DEF TypeOK
    <3>3. \E k2 \in Pressed \ {Control, Shift}, b \in BOOLEAN : code' = KeyCode(k2, b)
      BY <3>1, <3>2, Zenon
    <3> QED BY <3>3 DEF Codes
  <2>2. fifo' = [fifo EXCEPT ![tail] = code'] /\ tail' = tail /\ ui' = "stored"
    BY <1>2 DEF PressKey
  <2>3. fifo' \in [Slots -> Codes] /\ fifo'[tail'] = code'
    BY <1>0, <2>1, <2>2
  <2>4. PutInv' BY <2>2, <2>3 DEF PutInv
  <2>5. TypeOK' BY <1>2, <2>1, <2>3 DEF PressKey, TypeOK
  <2> QED BY <2>4, <2>5
<1>3. CASE LoadTail
  BY <1>3 DEF LoadTail, TypeOK, PutInv
<1>4. CASE AdvanceTail
  <2>1. reg \in Slots BY DEF TypeOK
  <2>2. tail' \in Slots BY <2>1, NextSlot, <1>4 DEF AdvanceTail
  <2>3. TypeOK' BY <1>4, <2>2 DEF AdvanceTail, TypeOK
  <2>4. PutInv' BY <1>4 DEF AdvanceTail, PutInv
  <2> QED BY <2>3, <2>4
<1>5. CASE RequestInterrupt
  BY <1>5 DEF RequestInterrupt, TypeOK, PutInv
<1>6. CASE CheckRequest
  BY <1>6 DEF CheckRequest, TypeOK, PutInv
<1>7. CASE AnswerRequest
  BY <1>7 DEF AnswerRequest, TypeOK, PutInv
<1>8. CASE Other
  BY <1>8 DEF Other, TypeOK, PutInv
<1>9. CASE DataRead
  BY <1>9, TakeKeyKeeps DEF DataRead
<1>10. ASSUME NEW c \in Commands, ClearTail(c) PROVE KeyboardInv'
  <2>1. c \in {"clear", "reset"} BY UserAssumption
  <2>2. torn' \in BOOLEAN BY <1>10 DEF ClearTail
  <2>3. TypeOK' BY <1>0, <1>10, <2>1, <2>2 DEF ClearTail, TypeOK
  <2>4. PutInv' BY <1>10 DEF ClearTail, PutInv
  <2> QED BY <2>3, <2>4
<1>11. CASE ClearHead
  BY <1>0, <1>11 DEF ClearHead, TypeOK, PutInv
<1>12. CASE WithdrawRequest
  BY <1>12 DEF WithdrawRequest, TypeOK, PutInv
<1>13. CASE Receive
  BY <1>13 DEF Receive, TypeOK, PutInv
<1>14. CASE PollKey
  BY <1>14 DEF PollKey, TypeOK, PutInv
<1>15. CASE ReceivePaused
  BY <1>15 DEF ReceivePaused, TypeOK, PutInv
<1>16. CASE ReceiveKey
  BY <1>16, TakeKeyKeeps DEF ReceiveKey
<1>17. CASE UNCHANGED vars
  BY <1>17 DEF vars, TypeOK, PutInv
<1> QED
  BY <1>1, <1>2, <1>3, <1>4, <1>5, <1>6, <1>7, <1>8, <1>9, <1>10, <1>11, <1>12, <1>13,
     <1>14, <1>15, <1>16, <1>17 DEF Next, KeyAction, Emulator

LEMMA KeyboardInvariant == Spec => []KeyboardInv
  BY KeyboardInitInv, KeyboardStepInv, PTL DEF Spec

-----------------------------------------------------------------------------
(* Taking a key and putting one. *)

\* Nothing waits exactly when head and tail meet.
LEMMA NothingWaits ==
  ASSUME NEW f \in [Slots -> Codes], NEW t \in Slots, NEW h \in Slots
  PROVE  WaitingIn(f, t, h) = <<>> <=> t = h
<1> DEFINE s == WaitingIn(f, t, h)
<1>1. s \in Seq(Codes) /\ Len(s) = Length(t, h) BY WaitingCodes
<1>2. Length(t, h) = 0 <=> t = h
  <2>1. Ring \in Nat /\ h \in 0..(Ring - 1) /\ t \in 0..(Ring - 1) BY RingAssumption DEF Slots
  <2> QED BY <2>1 DEF Length
<1>3. s = <<>> <=> Len(s) = 0 BY <1>1, EmptySeq
<1> QED BY <1>1, <1>2, <1>3

\* Moving the head on takes the first key.
LEMMA KeyTaken ==
  ASSUME NEW f \in [Slots -> Codes], NEW t \in Slots, NEW h \in Slots, t # h
  PROVE  /\ WaitingIn(f, t, h) # <<>> /\ Head(WaitingIn(f, t, h)) = f[h]
         /\ WaitingIn(f, t, (h + 1) % Ring) = Tail(WaitingIn(f, t, h))
<1>0. Ring \in Nat /\ Ring > 1 /\ h \in 0..(Ring - 1) /\ t \in 0..(Ring - 1)
  BY RingAssumption DEF Slots
<1> DEFINE s == WaitingIn(f, t, h)
           g == (h + 1) % Ring
           w == WaitingIn(f, t, g)
<1>1. g \in Slots /\ g = IF h = Ring - 1 THEN 0 ELSE h + 1 BY NextSlot
<1> HIDE DEF g
<1>2. Length(t, g) = Length(t, h) - 1 /\ Length(t, h) >= 1 /\ Length(t, h) \in Nat
  BY <1>0, <1>1 DEF Length
<1>3. /\ s \in Seq(Codes) /\ Len(s) = Length(t, h) /\ w \in Seq(Codes) /\ Len(w) = Length(t, g)
  BY <1>1, WaitingCodes
<1>4. ASSUME NEW i \in 1..Length(t, g) PROVE w[i] = s[i + 1]
  <2>1. i \in Int /\ 1 <= i /\ i <= Ring BY <1>0, <1>1, <1>2 DEF Length
  <2>2. Slot(g, i) = Slot(h, i + 1)
    <3>1. h \in Int /\ Ring \in Int /\ Slot(h, i + 1) = IF h + i < Ring THEN h + i ELSE h + i - Ring
      BY <1>0, <2>1 DEF Slot
    <3>2. CASE h = Ring - 1
      <4>1. g = 0 /\ ~(h + i < Ring) BY <1>1, <2>1, <3>1, <3>2
      <4>2. Slot(0, i) = i - 1 BY <2>1, <3>1 DEF Slot
      <4> QED BY <2>1, <3>1, <3>2, <4>1, <4>2
    <3>3. CASE h # Ring - 1
      <4>1. g = h + 1 BY <1>1, <3>3
      <4>2. Slot(h + 1, i) = IF h + i < Ring THEN h + i ELSE h + i - Ring BY <2>1, <3>1 DEF Slot
      <4> QED BY <3>1, <4>1, <4>2
    <3> QED BY <3>2, <3>3
  <2>3. i + 1 \in 1..Length(t, h) BY <1>2
  <2> QED BY <2>2, <2>3, <1>4 DEF WaitingIn
<1>5. s[1] = f[h]
  <2>1. Slot(h, 1) = h BY <1>0 DEF Slot
  <2>2. 1 \in 1..Length(t, h) BY <1>2
  <2> QED BY <2>1, <2>2 DEF WaitingIn
<1> HIDE DEF s, w
<1>6. s # <<>> /\ Head(s) = s[1] /\ Tail(s) \in Seq(Codes) /\ Len(Tail(s)) = Len(s) - 1
      /\ \A i \in 1..Len(Tail(s)) : Tail(s)[i] = s[i + 1]
  <2>1. s # <<>> BY <1>2, <1>3, EmptySeq
  <2> QED BY <2>1, <1>3, HeadTailProperties
<1>7. w = Tail(s)
  BY <1>2, <1>3, <1>4, <1>6, SeqEqual
<1> QED BY <1>5, <1>6, <1>7 DEF s, w, g

\* Moving the tail on puts the key of its slot, or loses all.
LEMMA KeyPut ==
  ASSUME NEW f \in [Slots -> Codes], NEW t \in Slots, NEW h \in Slots
  PROVE  WaitingIn(f, (t + 1) % Ring, h) =
           IF Len(WaitingIn(f, t, h)) = Ring - 1 THEN <<>> ELSE Append(WaitingIn(f, t, h), f[t])
<1>0. Ring \in Nat /\ Ring > 1 /\ h \in 0..(Ring - 1) /\ t \in 0..(Ring - 1)
  BY RingAssumption DEF Slots
<1> DEFINE s == WaitingIn(f, t, h)
           u == (t + 1) % Ring
           w == WaitingIn(f, u, h)
<1>1. u \in Slots /\ u = IF t = Ring - 1 THEN 0 ELSE t + 1 BY NextSlot
<1> HIDE DEF u
<1>2. s \in Seq(Codes) /\ Len(s) = Length(t, h) /\ w \in Seq(Codes) /\ Len(w) = Length(u, h)
      /\ Length(t, h) < Ring
  BY <1>1, WaitingCodes
<1>3. CASE Length(t, h) = Ring - 1
  <2>1. u = h BY <1>0, <1>1, <1>3 DEF Length
  <2>2. w = <<>> BY <1>1, <2>1, NothingWaits
  <2> QED BY <1>2, <1>3, <2>2 DEF s, w, u
<1>4. CASE Length(t, h) # Ring - 1
  <2>1. Length(u, h) = Length(t, h) + 1 /\ Length(t, h) \in Nat
    BY <1>0, <1>1, <1>4 DEF Length
  <2>2. ASSUME NEW i \in 1..Length(t, h) PROVE w[i] = s[i]
    <3>1. i \in 1..Length(u, h) BY <2>1
    <3> QED BY <2>2, <3>1 DEF WaitingIn
  <2>3. w[Length(t, h) + 1] = f[t]
    <3>1. Slot(h, Length(t, h) + 1) = t BY <1>0 DEF Slot, Length
    <3>2. Length(t, h) + 1 \in 1..Length(u, h) BY <2>1
    <3> QED BY <3>1, <3>2 DEF WaitingIn
  <2>4. f[t] \in Codes OBVIOUS
  <2> DEFINE a == Append(s, f[t])
  <2> HIDE DEF s, w
  <2>5. a \in Seq(Codes) /\ Len(a) = Len(s) + 1 /\ a[Len(s) + 1] = f[t]
        /\ \A i \in 1..Len(s) : a[i] = s[i]
    BY <1>2, <2>4, AppendProperties
  <2> HIDE DEF a
  <2>6. \A i \in 1..Len(w) : w[i] = a[i]
    <3> TAKE i \in 1..Len(w)
    <3>1. CASE i \in 1..Len(s) BY <1>2, <2>1, <2>2, <2>5, <3>1
    <3>2. CASE i = Len(s) + 1 BY <1>2, <2>3, <2>5, <3>2
    <3> QED BY <1>2, <2>1, <3>1, <3>2
  <2>7. w = a BY <1>2, <2>1, <2>5, <2>6, SeqEqual
  <2> QED BY <1>2, <1>4, <2>7 DEF s, w, u, a
<1> QED BY <1>3, <1>4

-----------------------------------------------------------------------------
(* The two threads implement the queue. *)

\* Where the oldest key is, and how far the put of a key has come: the values
\* of KeyQueue's variables, with the other three of the keyboard.
Oldest == IF Clearing THEN 0 ELSE head
Putting == IF ui \notin {"stored", "loaded"} THEN "no" ELSE IF torn THEN "torn" ELSE "yes"
queueVars == <<Waiting(Oldest), Putting, code, data, got>>

LEMMA OldestSlots == TypeOK => Oldest \in Slots
  BY RingAssumption DEF TypeOK, Oldest, Slots

\* Steps that leave the ring and the put alone are none of the queue's.
LEMMA QueueStutters ==
  ASSUME TypeOK, TypeOK', fifo' = fifo, tail' = tail, Oldest' = Oldest, Putting' = Putting,
         code' = code, data' = data, got' = got
  PROVE  UNCHANGED queueVars
<1>1. Oldest \in Slots /\ tail' \in Slots BY OldestSlots DEF TypeOK
<1>2. Waiting(Oldest)' = WaitingIn(fifo', tail', Oldest')
  BY <1>1, WaitingNext, OldestSlots DEF Oldest
<1> QED BY <1>1, <1>2, WaitingNow DEF queueVars

\* A read takes the oldest key, or the data register once more.
LEMMA TakeShows ==
  ASSUME KeyboardInv, KeyboardInv', TakeKey, ~Clearing, ~Clearing'
  PROVE  Queue!Next
<1>0. /\ fifo \in [Slots -> Codes] /\ tail \in Slots /\ head \in Slots /\ head' \in Slots
      /\ fifo' = fifo /\ tail' = tail /\ Oldest = head /\ Oldest' = head'
      /\ Putting = "no" /\ Putting' = "no" /\ code' = code
  BY DEF KeyboardInv, TypeOK, TakeKey, uiVars, Oldest, Putting
<1>1. Waiting(Oldest) = WaitingIn(fifo, tail, head)
  BY <1>0, WaitingNow DEF KeyboardInv
<1>2. Waiting(Oldest)' = WaitingIn(fifo, tail, head')
  BY <1>0, WaitingNext
<1>3. CASE head = tail
  <2>1. Waiting(Oldest) = <<>> BY <1>0, <1>1, <1>3, NothingWaits
  <2>2. got' = data /\ data' = 0 /\ head' = head BY <1>3 DEF TakeKey
  <2>3. Queue!GetAgain
    BY <1>0, <1>1, <1>2, <2>1, <2>2 DEF Queue!GetAgain, Oldest, Putting
  <2> QED BY <2>3 DEF Queue!Next
<1>4. CASE head # tail
  <2>1. got' = fifo[head] /\ data' = fifo[head] /\ head' = (head + 1) % Ring
    BY <1>4 DEF TakeKey
  <2>2. /\ Waiting(Oldest) # <<>> /\ Head(Waiting(Oldest)) = fifo[head]
        /\ Waiting(Oldest)' = Tail(Waiting(Oldest))
    BY <1>0, <1>1, <1>2, <1>4, <2>1, KeyTaken
  <2>3. Queue!Get
    BY <1>0, <2>1, <2>2 DEF Queue!Get, Oldest, Putting
  <2> QED BY <2>3 DEF Queue!Next
<1> QED BY <1>3, <1>4

\* The store to the tail finishes the put of a key.
LEMMA AdvanceShows ==
  ASSUME KeyboardInv, KeyboardInv', AdvanceTail
  PROVE  Queue!Next
<1>0. /\ fifo \in [Slots -> Codes] /\ tail \in Slots /\ tail' \in Slots /\ reg \in Slots
      /\ fifo' = fifo /\ tail' = (reg + 1) % Ring /\ Oldest' = Oldest /\ ui = "loaded"
      /\ ui' = "advanced" /\ code' = code /\ data' = data /\ got' = got /\ torn \in BOOLEAN
  BY DEF KeyboardInv, TypeOK, AdvanceTail, ring, Oldest, Clearing
<1>1. Oldest \in Slots BY OldestSlots DEF KeyboardInv
<1>2. Waiting(Oldest) = WaitingIn(fifo, tail, Oldest)
  BY <1>1, WaitingNow DEF KeyboardInv
<1>3. Waiting(Oldest)' = WaitingIn(fifo, tail', Oldest)
  BY <1>0, <1>1, WaitingNext
<1>4. Putting' = "no" BY <1>0 DEF Putting
<1>5. CASE torn
  <2>1. Putting = "torn" BY <1>0, <1>5 DEF Putting
  <2>2. Waiting(Oldest)' \in Seq(Codes) /\ Len(Waiting(Oldest)') < Ring
    BY <1>0, <1>1, <1>3, WaitingCodes
  <2>3. Queue!FinishTorn
    BY <1>0, <1>4, <2>1, <2>2 DEF Queue!FinishTorn, Oldest, Putting
  <2> QED BY <2>3 DEF Queue!Next
<1>6. CASE ~torn
  <2>1. Putting = "yes" BY <1>0, <1>6 DEF Putting
  <2>2. reg = tail /\ fifo[tail] = code BY <1>0, <1>6 DEF KeyboardInv, PutInv
  <2>3. Waiting(Oldest)' =
          IF Len(Waiting(Oldest)) = Ring - 1 THEN <<>> ELSE Append(Waiting(Oldest), code)
    BY <1>0, <1>1, <1>2, <1>3, <2>2, KeyPut
  <2>4. Queue!Finish
    BY <1>0, <1>4, <2>1, <2>3 DEF Queue!Finish, Oldest, Putting
  <2> QED BY <2>4 DEF Queue!Next
<1> QED BY <1>5, <1>6

\* A key is announced to the queue by the store of its code.
LEMMA PressShows ==
  ASSUME KeyboardInv, KeyboardInv', NEW k \in Pressed, PressKey(k)
  PROVE  Queue!Next
<1>0. /\ fifo \in [Slots -> Codes] /\ tail \in Slots /\ tail' = tail
      /\ fifo' = [fifo EXCEPT ![tail] = code'] /\ Oldest' = Oldest /\ code' \in Codes
      /\ Putting = "no" /\ Putting' = "yes" /\ data' = data /\ got' = got
  BY DEF KeyboardInv, TypeOK, PressKey, Oldest, Clearing, Putting
<1>1. Oldest \in Slots BY OldestSlots DEF KeyboardInv
<1>2. Waiting(Oldest) = WaitingIn(fifo, tail, Oldest)
  BY <1>1, WaitingNow DEF KeyboardInv
<1>3. Waiting(Oldest)' = WaitingIn(fifo', tail, Oldest)
  BY <1>0, <1>1, WaitingNext
<1>4. Waiting(Oldest)' = Waiting(Oldest)
  BY <1>0, <1>1, <1>2, <1>3, WaitingStored
<1>5. Queue!Begin(code')
  BY <1>0, <1>4 DEF Queue!Begin, Oldest, Putting
<1> QED BY <1>0, <1>5 DEF Queue!Next

\* The store of 0 to the tail clears the queue: the head follows, unseen.
LEMMA ClearShows ==
  ASSUME KeyboardInv, KeyboardInv', NEW c \in Commands, ClearTail(c)
  PROVE  Queue!Next
<1>0. /\ fifo \in [Slots -> Codes] /\ fifo' = fifo /\ 0 \in Slots /\ tail' = 0 /\ tail' \in Slots
      /\ Oldest' = 0 /\ code' = code /\ data' = data /\ got' = got /\ ui' = ui
      /\ torn' = (torn \/ ui \in {"stored", "loaded"}) /\ torn \in BOOLEAN
  BY RingAssumption, UserAssumption
     DEF KeyboardInv, TypeOK, ClearTail, Oldest, Clearing, uiVars, Slots
<1>1. Waiting(Oldest)' = WaitingIn(fifo, 0, 0) BY <1>0, WaitingNext
<1>2. Waiting(Oldest)' = <<>> BY <1>0, <1>1, NothingWaits
<1>3. Putting' = IF Putting = "no" THEN "no" ELSE "torn"
  BY <1>0 DEF Putting
<1>4. Queue!Clear
  BY <1>0, <1>2, <1>3 DEF Queue!Clear, Oldest, Putting
<1> QED BY <1>4 DEF Queue!Next

LEMMA KeyboardStepShows == KeyboardInv /\ KeyboardInv' /\ [Next]_vars => [Queue!Next]_queueVars
<1> SUFFICES ASSUME KeyboardInv, KeyboardInv', [Next]_vars PROVE [Queue!Next]_queueVars
  OBVIOUS
<1>0. TypeOK /\ TypeOK' BY DEF KeyboardInv
<1> USE DEF Oldest, Clearing, Putting, ring, uiVars
<1>1. CASE PressControl BY <1>0, <1>1, QueueStutters DEF PressControl
<1>2. CASE \E k \in Pressed : PressKey(k) BY <1>2, PressShows
<1>3. CASE LoadTail BY <1>0, <1>3, QueueStutters DEF LoadTail
<1>4. CASE AdvanceTail BY <1>4, AdvanceShows
<1>5. CASE RequestInterrupt BY <1>0, <1>5, QueueStutters DEF RequestInterrupt
<1>6. CASE CheckRequest BY <1>0, <1>6, QueueStutters DEF CheckRequest
<1>7. CASE AnswerRequest BY <1>0, <1>7, QueueStutters DEF AnswerRequest
<1>8. CASE Other BY <1>0, <1>8, QueueStutters DEF Other
<1>9. CASE DataRead BY <1>9, TakeShows DEF DataRead
<1>10. CASE \E c \in Commands : ClearTail(c) BY <1>10, ClearShows
<1>11. CASE ClearHead BY <1>0, <1>11, QueueStutters DEF ClearHead
<1>12. CASE WithdrawRequest BY <1>0, <1>12, QueueStutters DEF WithdrawRequest
<1>13. CASE Receive BY <1>0, <1>13, QueueStutters DEF Receive
<1>14. CASE PollKey BY <1>0, <1>14, QueueStutters DEF PollKey
<1>15. CASE ReceivePaused BY <1>0, <1>15, QueueStutters DEF ReceivePaused
<1>16. CASE ReceiveKey BY <1>16, TakeShows DEF ReceiveKey
<1>17. CASE UNCHANGED vars BY <1>0, <1>17, QueueStutters DEF vars
<1> QED
  BY <1>1, <1>2, <1>3, <1>4, <1>5, <1>6, <1>7, <1>8, <1>9, <1>10, <1>11, <1>12, <1>13,
     <1>14, <1>15, <1>16, <1>17 DEF Next, KeyAction, Emulator

LEMMA KeyboardInitShows == Init => Queue!Init
<1> SUFFICES ASSUME Init PROVE Queue!Init
  OBVIOUS
<1>1. /\ fifo \in [Slots -> Codes] /\ 0 \in Slots /\ tail = 0 /\ Oldest = 0
      /\ Putting = "no" /\ code = 0 /\ data = 0 /\ got = 0
  BY RingAssumption DEF Init, Slots, Oldest, Putting, Clearing
<1>2. Waiting(Oldest) = <<>>
  BY <1>1, WaitingNow, NothingWaits, KeyboardInitInv DEF KeyboardInv
<1> QED BY <1>1, <1>2 DEF Queue!Init, Oldest, Putting

-----------------------------------------------------------------------------
(* Theorems. *)

\* For every size of the ring, keys come out as they were pressed, each once,
\* and only a clear that overlaps a put tears it, however the thread of the
\* user interface and the emulator's interleave (keyboard.c:44-193).
THEOREM KeyboardImplementsQueue == Spec => ImplementsQueue
<1>1. ImplementsQueue <=> Queue!Init /\ [][Queue!Next]_queueVars
  BY DEF ImplementsQueue, Queue!Spec, Queue!keyQueueVars, queueVars, Oldest, Putting
<1> QED BY <1>1, KeyboardInitShows, KeyboardStepShows, KeyboardInvariant, PTL DEF Spec

\* A keyboard that is never reset announces every key (keyboard.c:60-88,
\* mainboard.c:367-382).
AnnounceInv == KeyAnnounced /\ emu \notin {"reset", "withdraw"}
THEOREM KeysAnnounced ==
  ASSUME "reset" \notin Commands
  PROVE  Spec => []KeyAnnounced
<1>1. Init => AnnounceInv BY DEF Init, AnnounceInv, KeyAnnounced
<1>2. AnnounceInv /\ [Next]_vars => AnnounceInv'
  <2> SUFFICES ASSUME AnnounceInv, [Next]_vars PROVE AnnounceInv'
    OBVIOUS
  <2> USE DEF AnnounceInv, KeyAnnounced, uiVars, ring
  <2>1. CASE PressControl BY <2>1 DEF PressControl
  <2>2. ASSUME NEW k \in Pressed, PressKey(k) PROVE AnnounceInv' BY <2>2 DEF PressKey
  <2>3. CASE KeyAction BY <2>3 DEF KeyAction, LoadTail, AdvanceTail, RequestInterrupt
  <2>4. CASE CheckRequest \/ AnswerRequest \/ Other
    BY <2>4 DEF CheckRequest, AnswerRequest, Other
  <2>5. CASE DataRead \/ ReceiveKey BY <2>5 DEF DataRead, ReceiveKey, TakeKey
  <2>6. ASSUME NEW c \in Commands, ClearTail(c) PROVE AnnounceInv'
    <3>1. c = "clear" BY UserAssumption
    <3> QED BY <2>6, <3>1 DEF ClearTail
  <2>7. CASE ClearHead \/ WithdrawRequest BY <2>7 DEF ClearHead, WithdrawRequest
  <2>8. CASE Receive \/ PollKey \/ ReceivePaused
    BY <2>8 DEF Receive, PollKey, ReceivePaused
  <2>9. CASE UNCHANGED vars BY <2>9 DEF vars
  <2> QED BY <2>1, <2>2, <2>3, <2>4, <2>5, <2>6, <2>7, <2>8, <2>9 DEF Next, Emulator
<1>3. AnnounceInv => KeyAnnounced BY DEF AnnounceInv
<1> QED BY <1>1, <1>2, <1>3, PTL DEF Spec
=============================================================================
