------------------------- MODULE KeyboardBuffer_proof -------------------------
(***************************************************************************)
(* The ring implements the bounded queue for every size and alphabet, and a *)
(* read takes a line out of it for every number of bytes asked for.         *)
(***************************************************************************)
EXTENDS StdinRead, SequenceTheorems, TLAPS

(* Going round the array: the one place where % is needed.                  *)
LEMMA FollowingWraps ==
  ASSUME NEW i \in Index
  PROVE  /\ Following(i) \in Index
         /\ Following(i) = IF i = Size - 1 THEN 0 ELSE i + 1
  <1>1. CASE i = Size - 1
    <2>1. i + 1 = Size  BY <1>1, RingAssumption
    <2>2. Size % Size = 0  BY RingAssumption
    <2> QED  BY <1>1, <2>1, <2>2, RingAssumption DEF Following, Index
  <1>2. CASE i # Size - 1
    <2>1. i + 1 \in 0 .. Size - 1  BY <1>2, RingAssumption DEF Index
    <2>2. (i + 1) % Size = i + 1  BY <2>1, RingAssumption
    <2> QED  BY <1>2, <2>1, <2>2, RingAssumption DEF Following, Index
  <1> QED  BY <1>1, <1>2

LEMMA TypeKept == TypeOK /\ [Next]_ring => TypeOK'
  <1> SUFFICES ASSUME TypeOK, [Next]_ring PROVE TypeOK'
    OBVIOUS
  <1>1. CASE Get
    BY <1>1, FollowingWraps DEF Get, TypeOK
  <1>2. ASSUME NEW c \in Char, Put(c) PROVE TypeOK'
    BY <1>2, FollowingWraps DEF Put, TypeOK
  <1>3. CASE UNCHANGED ring
    BY <1>3 DEF ring, TypeOK
  <1> QED  BY <1>1, <1>2, <1>3 DEF Next

(* kbd_put and kbd_get keep both indices inside the array.                  *)
THEOREM TypeCorrect == Spec => []TypeOK
  <1>1. Init => TypeOK
    BY RingAssumption DEF Init, TypeOK, Index
  <1> QED  BY <1>1, TypeKept, PTL DEF Spec

(* How many characters wait, and that none of their places is outside.      *)
LEMMA CountBound ==
  ASSUME TypeOK
  PROVE  /\ Count \in 0 .. Size - 1
         /\ \A i \in 1 .. Count : Place(i) \in Index
         /\ Contents \in Seq(Char \union {NoChar})
         /\ Len(Contents) = Count
  <1>1. Count \in 0 .. Size - 1
    BY RingAssumption DEF TypeOK, Index, Count
  <1>2. \A i \in 1 .. Count : Place(i) \in Index
    BY <1>1, RingAssumption DEF TypeOK, Index, Count, Place
  <1>3. Contents \in [1 .. Count -> Char \union {NoChar}]
    BY <1>2 DEF TypeOK, Contents
  <1> QED  BY <1>1, <1>2, <1>3

ContentsIsSeq ==
  Contents \in Seq(Char \union {NoChar}) /\ Len(Contents) = Count

LEMMA AlwaysSeq == TypeOK => ContentsIsSeq
  BY CountBound DEF ContentsIsSeq

LEMMA AlwaysSeqPrime == TypeOK' => ContentsIsSeq'
  BY AlwaysSeq, PTL

LEMMA FullIsCapacity ==
  ASSUME TypeOK
  PROVE  Full <=> Count = Size - 1
  BY FollowingWraps, RingAssumption DEF Full, TypeOK, Index, Count

LEMMA EmptyIsNone ==
  ASSUME TypeOK
  PROVE  Empty <=> Contents = << >>
  <1>1. Empty <=> Count = 0
    BY RingAssumption DEF Empty, TypeOK, Index, Count
  <1>2. Contents = << >> <=> Len(Contents) = 0
    BY CountBound
  <1> QED  BY <1>1, <1>2, CountBound

(* A character put into a ring that is not full is the last of the queue.   *)
LEMMA PutAppends ==
  ASSUME TypeOK, NEW c \in Char, Put(c), ~Full
  PROVE  Contents' = Append(Contents, c)
  <1>1. /\ head' = IF head = Size - 1 THEN 0 ELSE head + 1
        /\ tail' = tail
        /\ buffer' = [buffer EXCEPT ![head] = c]
    BY FollowingWraps DEF Put, TypeOK
  <1>2. Count < Size - 1
    BY FullIsCapacity, CountBound, RingAssumption
  <1>3. Count' = Count + 1
    BY <1>1, <1>2, RingAssumption DEF TypeOK, Index, Count
  <1>4. Place(Count + 1) = head
    BY <1>2, RingAssumption DEF TypeOK, Index, Count, Place
  <1>5. \A i \in 1 .. Count : Place(i) # head
    BY <1>2, RingAssumption DEF TypeOK, Index, Count, Place
  <1>6. \A i \in 1 .. Count + 1 :
          Contents'[i] = IF i = Count + 1 THEN c ELSE Contents[i]
    <2> TAKE i \in 1 .. Count + 1
    <2>1. Count \in Nat  BY CountBound, RingAssumption
    <2>2. Contents'[i] = buffer'[Place(i)]
      <3>1. Place(i)' = Place(i)  BY <1>1 DEF Place
      <3> QED  BY <1>3, <2>1, <3>1 DEF Contents
    <2>3. CASE i = Count + 1
      BY <1>1, <1>4, <2>2, <2>3 DEF TypeOK
    <2>4. CASE i # Count + 1
      <3>1. i \in 1 .. Count  BY <2>1, <2>4
      <3>2. buffer'[Place(i)] = buffer[Place(i)]
        BY <1>1, <1>5, <3>1, CountBound DEF TypeOK
      <3> QED  BY <2>2, <2>4, <3>1, <3>2 DEF Contents
    <2> QED  BY <2>3, <2>4
  <1>7. TypeOK'
    BY TypeKept DEF Next
  <1>8. Contents' \in Seq(Char \union {NoChar}) /\ Len(Contents') = Count + 1
    BY <1>3, <1>7, AlwaysSeqPrime DEF ContentsIsSeq
  <1>9. Contents \in Seq(Char \union {NoChar}) /\ Len(Contents) = Count
    BY CountBound
  <1> DEFINE more == Append(Contents, c)
  <1>10. /\ more \in Seq(Char \union {NoChar})
         /\ Len(more) = Count + 1
         /\ \A i \in 1 .. Count : more[i] = Contents[i]
         /\ more[Count + 1] = c
    BY <1>9, AppendProperties
  <1>11. \A i \in 1 .. Count + 1 : Contents'[i] = more[i]
    BY <1>6, <1>10, CountBound, RingAssumption
  <1> QED  BY <1>8, <1>10, <1>11, SeqEqual

(* A get from a ring that is not empty takes the first of the queue.        *)
LEMMA GetTakesHead ==
  ASSUME TypeOK, Get, ~Empty
  PROVE  got' = Head(Contents) /\ Contents' = Tail(Contents)
  <1>1. /\ tail' = IF tail = Size - 1 THEN 0 ELSE tail + 1
        /\ head' = head
        /\ buffer' = buffer
        /\ got' = buffer[tail]
    BY FollowingWraps DEF Get, TypeOK
  <1>2. Count \in 1 .. Size - 1
    BY CountBound, RingAssumption DEF Empty, TypeOK, Index, Count
  <1>3. Count' = Count - 1
    BY <1>1, <1>2, RingAssumption DEF Empty, TypeOK, Index, Count
  <1>4. Place(1) = tail
    BY RingAssumption DEF TypeOK, Index, Place
  <1>5. \A i \in 1 .. Count - 1 : Place(i)' = Place(i + 1)
    BY <1>1, <1>2, RingAssumption DEF TypeOK, Index, Count, Place
  <1>6. \A i \in 1 .. Count - 1 : Contents'[i] = Contents[i + 1]
    <2> TAKE i \in 1 .. Count - 1
    <2>1. Contents'[i] = buffer[Place(i)']
      BY <1>1, <1>3 DEF Contents
    <2>2. i + 1 \in 1 .. Count  BY <1>2
    <2>3. Contents[i + 1] = buffer[Place(i + 1)]  BY <2>2 DEF Contents
    <2> QED  BY <1>5, <2>1, <2>3
  <1>7. TypeOK'
    BY TypeKept DEF Next
  <1>8. Contents' = Tail(Contents)
    <2> DEFINE rest == Tail(Contents)
    <2>1. Contents' \in Seq(Char \union {NoChar}) /\ Len(Contents') = Count - 1
      BY <1>3, <1>7, AlwaysSeqPrime DEF ContentsIsSeq
    <2>2. /\ Contents \in Seq(Char \union {NoChar})
          /\ Len(Contents) = Count
          /\ Contents # << >>
      BY CountBound, EmptyIsNone
    <2>3. /\ rest \in Seq(Char \union {NoChar})
          /\ Len(rest) = Count - 1
          /\ \A i \in 1 .. Count - 1 : rest[i] = Contents[i + 1]
      BY <2>2, HeadTailProperties
    <2>4. \A i \in 1 .. Count - 1 : Contents'[i] = rest[i]
      BY <1>6, <2>3
    <2> QED  BY <2>1, <2>3, <2>4, SeqEqual
  <1>9. Head(Contents) = buffer[tail]
    <2>1. 1 \in 1 .. Count  BY <1>2
    <2>2. Head(Contents) = Contents[1]  BY CountBound, <1>2
    <2> QED  BY <1>4, <2>1, <2>2 DEF Contents
  <1> QED  BY <1>1, <1>8, <1>9

(* kbd_put and kbd_get are a first-in first-out queue of KBD_BUF_SIZE - 1   *)
(* characters: nothing is lost, repeated or reordered.                      *)
THEOREM RingIsFifo == Spec => FifoSpec
  <1>1. Init => Fifo!Init
    <2> SUFFICES ASSUME Init PROVE Fifo!Init
      OBVIOUS
    <2>1. TypeOK /\ Empty  BY RingAssumption DEF Init, TypeOK, Index, Empty
    <2>2. Contents = << >>  BY <2>1, EmptyIsNone
    <2> QED  BY <2>2 DEF Init, Fifo!Init
  <1>2. TypeOK /\ [Next]_ring => [Fifo!Next]_<<Contents, got>>
    <2> SUFFICES ASSUME TypeOK, [Next]_ring
                 PROVE  [Fifo!Next]_<<Contents, got>>
      OBVIOUS
    <2>1. CASE Get
      <3>1. CASE Empty
        <4>1. Contents = << >>  BY <3>1, EmptyIsNone
        <4>2. Contents' = Contents /\ got' = NoChar
          BY <2>1, <3>1 DEF Get, Contents, Count, Place
        <4> QED  BY <4>1, <4>2 DEF Fifo!Next, Fifo!Get
      <3>2. CASE ~Empty
        BY <2>1, <3>2, EmptyIsNone, GetTakesHead DEF Fifo!Next, Fifo!Get
      <3> QED  BY <3>1, <3>2
    <2>2. ASSUME NEW c \in Char, Put(c)
          PROVE  Fifo!Put(c)
      <3>1. got' = got  BY <2>2 DEF Put
      <3>2. Full <=> ~(Len(Contents) < Size - 1)
        BY FullIsCapacity, CountBound, RingAssumption
      <3>3. CASE Full
        <4>1. Contents' = Contents
          BY <2>2, <3>3 DEF Put, Contents, Count, Place
        <4> QED  BY <3>1, <3>2, <3>3, <4>1 DEF Fifo!Put
      <3>4. CASE ~Full
        BY <2>2, <3>1, <3>2, <3>4, PutAppends DEF Fifo!Put
      <3> QED  BY <3>3, <3>4
    <2>3. CASE UNCHANGED ring
      BY <2>3 DEF ring, Contents, Count, Place
    <2> QED  BY <2>1, <2>2, <2>3 DEF Next, Fifo!Next
  <1> QED  BY <1>1, <1>2, TypeCorrect, PTL DEF Spec, FifoSpec, Fifo!Spec

-----------------------------------------------------------------------------
(***************************************************************************)
(* The read.  While it runs no interrupt is taken and what it has stored   *)
(* holds no newline; only characters wait in the ring, so that a 0 means   *)
(* an empty one.                                                           *)
(***************************************************************************)
Reading ==
  /\ pc # "user" => intr = FALSE
  /\ \A i \in 1 .. Len(line) - 1 : line[i] # Newline
  /\ pc # "user" => \A i \in 1 .. Len(line) : line[i] # Newline

Waiting == Contents \in Seq(Char)

ReadInv == StdinTypeOK /\ Waiting /\ Reading

LEMMA RingKept ==
  ASSUME TypeOK, Waiting, UNCHANGED ring PROVE TypeOK' /\ Waiting' /\ Contents' = Contents
  <1>1. Contents' = Contents
    BY DEF ring, Contents, Count, Place
  <1> QED  BY <1>1, TypeKept DEF Waiting

LEMMA PutKeeps ==
  ASSUME TypeOK, Waiting, NEW c \in Char, Put(c) PROVE TypeOK' /\ Waiting'
  <1>1. TypeOK'
    BY TypeKept DEF Next
  <1>2. CASE Full
    <2>1. Contents' = Contents
      BY <1>2 DEF Put, Contents, Count, Place
    <2> QED  BY <1>1, <2>1 DEF Waiting
  <1>3. CASE ~Full
    <2>1. Contents' = Append(Contents, c)
      BY <1>3, PutAppends
    <2> QED  BY <1>1, <2>1 DEF Waiting
  <1> QED  BY <1>2, <1>3

LEMMA GetKeeps ==
  ASSUME TypeOK, Waiting, Get
  PROVE  /\ TypeOK' /\ Waiting'
         /\ got' = NoChar => Contents' = Contents
         /\ got' # NoChar =>
              /\ Contents # << >> /\ got' = Head(Contents) /\ got' \in Char
              /\ Contents' = Tail(Contents)
  <1>1. TypeOK'
    BY TypeKept DEF Next
  <1>2. CASE Empty
    <2>1. got' = NoChar
      BY <1>2 DEF Get
    <2>2. Contents' = Contents
      BY <1>2 DEF Get, Contents, Count, Place
    <2> QED  BY <1>1, <2>1, <2>2 DEF Waiting
  <1>3. CASE ~Empty
    <2>1. got' = Head(Contents) /\ Contents' = Tail(Contents) /\ Contents # << >>
      BY <1>3, GetTakesHead, EmptyIsNone
    <2>2. Head(Contents) \in Char /\ Tail(Contents) \in Seq(Char)
      BY <2>1, HeadTailProperties DEF Waiting
    <2> QED  BY <1>1, <2>1, <2>2, RingAssumption DEF Waiting
  <1> QED  BY <1>2, <1>3

(* A turn that stores a character: what was stored and what waits, taken    *)
(* together, stays.                                                        *)
LEMMA OneMoved ==
  ASSUME NEW S, NEW l \in Seq(S), NEW q \in Seq(S), q # << >>
  PROVE  /\ Append(l, Head(q)) \in Seq(S) /\ Len(Append(l, Head(q))) = Len(l) + 1
         /\ \A i \in 1 .. Len(l) : Append(l, Head(q))[i] = l[i]
         /\ Append(l, Head(q))[Len(l) + 1] = Head(q)
         /\ Append(l, Head(q)) \o Tail(q) = l \o q
  <1>1. Head(q) \in S /\ Tail(q) \in Seq(S) /\ q = <<Head(q)>> \o Tail(q)
    OBVIOUS
  <1>2. <<Head(q)>> \in Seq(S) /\ Append(l, Head(q)) = l \o <<Head(q)>>
    BY <1>1
  <1>3. (l \o <<Head(q)>>) \o Tail(q) = l \o (<<Head(q)>> \o Tail(q))
    BY <1>1, <1>2, ConcatAssociative
  <1> QED  BY <1>1, <1>2, <1>3

LEMMA ReadStarts == StdinInit => ReadInv
  <1> SUFFICES ASSUME StdinInit PROVE ReadInv
    OBVIOUS
  <1>1. TypeOK /\ Empty
    BY RingAssumption DEF StdinInit, Init, TypeOK, Index, Empty
  <1>2. Contents = << >>
    BY <1>1, EmptyIsNone
  <1>3. line = << >> /\ line \in Seq(Char) /\ Len(line) = 0
    BY DEF StdinInit
  <1>4. Waiting
    BY <1>2 DEF Waiting
  <1>5. StdinTypeOK
    BY <1>1, <1>3, StdinAssumption DEF StdinInit, StdinTypeOK
  <1>6. Reading
    BY <1>3 DEF StdinInit, Reading
  <1> QED  BY <1>4, <1>5, <1>6 DEF ReadInv

LEMMA TurnTaken ==
  ASSUME ReadInv, ReadTurn PROVE ReadInv' /\ line' \o Contents' = line \o Contents
  <1>1. PICK l \in Seq(Char), q \in Seq(Char) : l = line /\ q = Contents
    BY DEF ReadInv, StdinTypeOK, Waiting
  <1>2. TypeOK /\ Waiting /\ Get /\ pc = "loop"
    BY DEF ReadInv, StdinTypeOK, ReadTurn
  <1>3. /\ TypeOK' /\ Waiting'
        /\ got' = NoChar => Contents' = q
        /\ got' # NoChar => q # << >> /\ got' = Head(q) /\ got' \in Char /\ Contents' = Tail(q)
    BY <1>1, <1>2, GetKeeps
  <1>4. PICK n : n = Len(l)
    OBVIOUS
  <1>5. n \in Nat /\ want \in 0 .. MaxWant /\ n < want /\ MaxWant \in Nat
    BY <1>1, <1>4, StdinAssumption DEF ReadInv, StdinTypeOK, ReadTurn, Room
  <1>6. scancode' = scancode /\ want' = want
    BY DEF ReadTurn
  <1>7. /\ intr \in BOOLEAN /\ intr = FALSE /\ scancode \in Char \union {NoChar}
        /\ \A i \in 1 .. n : l[i] # Newline
    BY <1>1, <1>2, <1>4 DEF ReadInv, StdinTypeOK, Reading
  <1>8. CASE got' = NoChar
    <2>1. pc' = "hlt" /\ line' = l /\ intr' = intr
      BY <1>8, <1>1 DEF ReadTurn
    <2>2. StdinTypeOK'
      BY <2>1, <1>3, <1>4, <1>5, <1>6, <1>7 DEF StdinTypeOK
    <2>3. Reading'
      BY <2>1, <1>4, <1>5, <1>7 DEF Reading
    <2> QED  BY <2>1, <2>2, <2>3, <1>1, <1>3, <1>8 DEF ReadInv
  <1>9. CASE got' # NoChar
    <2>1. PICK c, k : c = Head(q) /\ k = Append(l, c)
      OBVIOUS
    <2>2. /\ line' = k /\ pc' = (IF c = Newline THEN "user" ELSE "loop")
          /\ intr' = (c = Newline)
      BY <1>9, <1>1, <1>3, <2>1 DEF ReadTurn, Store, EndsLine
    <2>3. /\ k \in Seq(Char) /\ Len(k) = n + 1 /\ \A i \in 1 .. n : k[i] = l[i]
          /\ k[n + 1] = c /\ k \o Tail(q) = l \o q
      BY <1>9, <1>3, <1>4, <2>1, OneMoved
    <2>4. StdinTypeOK'
      BY <2>2, <2>3, <1>3, <1>5, <1>6, <1>7 DEF StdinTypeOK
    <2>5. \A i \in 1 .. Len(k) - 1 : k[i] # Newline
      BY <2>3, <1>5, <1>7
    <2>6. c # Newline => \A i \in 1 .. Len(k) : k[i] # Newline
      BY <2>3, <1>5, <1>7
    <2>7. Reading'
      BY <2>2, <2>5, <2>6 DEF Reading
    <2> QED  BY <2>2, <2>3, <2>4, <2>7, <1>1, <1>3, <1>9 DEF ReadInv
  <1> QED  BY <1>8, <1>9

(* The other steps leave what was stored alone while a read runs.           *)
LEMMA StdinSteps ==
  ReadInv /\ [StdinNext]_vars =>
    ReadInv' /\ (pc = "loop" => line' \o Contents' = line \o Contents)
  <1> SUFFICES ASSUME ReadInv, [StdinNext]_vars
               PROVE  ReadInv' /\ (pc = "loop" => line' \o Contents' = line \o Contents)
    OBVIOUS
  <1>1. /\ TypeOK /\ Waiting /\ Reading
        /\ intr \in BOOLEAN /\ scancode \in Char \union {NoChar}
        /\ pc \in {"user", "loop", "hlt"} /\ want \in 0 .. MaxWant
        /\ line \in Seq(Char) /\ Len(line) <= want
    BY DEF ReadInv, StdinTypeOK
  <1>2. ASSUME NEW c \in Char, KeyPress(c)
        PROVE  ReadInv' /\ (pc = "loop" => line' \o Contents' = line \o Contents)
    <2>1. UNCHANGED ring /\ scancode' = c
          /\ intr' = intr /\ pc' = pc /\ want' = want /\ line' = line
      BY <1>2 DEF KeyPress
    <2>2. TypeOK' /\ Waiting' /\ Contents' = Contents
      BY <1>1, <2>1, RingKept
    <2> QED  BY <1>1, <2>1, <2>2 DEF ReadInv, StdinTypeOK, Reading
  <1>3. CASE KeyboardInterrupt
    <2>1. /\ Put(scancode) /\ scancode \in Char /\ intr = TRUE /\ scancode' = NoChar
          /\ intr' = intr /\ want' = want /\ line' = line
      BY <1>3, <1>1 DEF KeyboardInterrupt, Accepts
    <2>2. pc = "user"
      BY <1>1, <2>1 DEF Reading
    <2>3. pc' = "user"
      BY <1>3, <2>2 DEF KeyboardInterrupt
    <2>4. TypeOK' /\ Waiting'
      BY <1>1, <2>1, PutKeeps
    <2> QED  BY <1>1, <2>1, <2>2, <2>3, <2>4 DEF ReadInv, StdinTypeOK, Reading
  <1>4. ASSUME NEW n \in 0 .. MaxWant, Read(n)
        PROVE  ReadInv' /\ (pc = "loop" => line' \o Contents' = line \o Contents)
    <2>1. /\ UNCHANGED ring /\ pc = "user" /\ pc' = "loop" /\ want' = n
          /\ line' = << >> /\ intr' = FALSE /\ scancode' = scancode
      BY <1>4 DEF Read
    <2>2. TypeOK' /\ Waiting'
      BY <1>1, <2>1, RingKept
    <2>3. line' \in Seq(Char) /\ Len(line') = 0 /\ n \in Nat
      BY <2>1, StdinAssumption
    <2>4. pc # "loop" /\ pc' \in {"user", "loop", "hlt"} /\ intr' \in BOOLEAN
          /\ scancode' \in Char \union {NoChar}
      BY <1>1, <2>1
    <2>5. want' \in 0 .. MaxWant /\ Len(line') <= want'
      BY <2>1, <2>3
    <2>6. StdinTypeOK'
      BY <2>2, <2>3, <2>4, <2>5 DEF StdinTypeOK
    <2>7. Reading'
      BY <2>1, <2>3 DEF Reading
    <2> QED  BY <2>2, <2>4, <2>6, <2>7 DEF ReadInv
  <1>5. CASE ReadTurn
    BY <1>5, TurnTaken
  <1>6. CASE ReadDone
    <2>1. /\ UNCHANGED ring /\ pc' = "user" /\ intr' = TRUE /\ scancode' = scancode
          /\ want' = want /\ line' = line
      BY <1>6 DEF ReadDone
    <2>2. TypeOK' /\ Waiting' /\ Contents' = Contents
      BY <1>1, <2>1, RingKept
    <2> QED  BY <1>1, <2>1, <2>2 DEF ReadInv, StdinTypeOK, Reading
  <1>7. CASE UNCHANGED vars
    <2>1. /\ UNCHANGED ring /\ pc' = pc /\ intr' = intr /\ scancode' = scancode
          /\ want' = want /\ line' = line
      BY <1>7 DEF vars, ring
    <2>2. TypeOK' /\ Waiting' /\ Contents' = Contents
      BY <1>1, <2>1, RingKept
    <2> QED  BY <1>1, <2>1, <2>2 DEF ReadInv, StdinTypeOK, Reading
  <1> QED  BY <1>2, <1>3, <1>4, <1>5, <1>6, <1>7 DEF StdinNext, ReadStep

(* A read of any number of bytes returns a line of what was typed: never    *)
(* beyond a newline, never more than was asked for, and every character     *)
(* that leaves the ring is stored, in order (SYS_READ, kbd_get).            *)
THEOREM LineCorrect == StdinSpec => LineRead
  <1>1. ReadInv => StdinTypeOK /\ OneLine
    BY DEF ReadInv, Reading, OneLine
  <1>2. ReadInv /\ [StdinNext]_vars =>
          [pc = "loop" => line' \o Contents' = line \o Contents]_vars
    BY StdinSteps
  <1>3. ReadInv /\ [StdinNext]_vars => ReadInv'
    BY StdinSteps
  <1> QED  BY ReadStarts, <1>1, <1>2, <1>3, PTL DEF StdinSpec, LineRead, ReadLosesNothing

(* Under the reads and interrupts of the kernel the ring is the same queue. *)
THEOREM StdinIsFifo == StdinSpec => FifoSpec
  <1>1. StdinInit => Init
    BY DEF StdinInit
  <1>2. ReadInv /\ [StdinNext]_vars => [Next]_ring
    BY DEF StdinNext, KeyPress, KeyboardInterrupt, Read, ReadStep, ReadTurn, ReadDone,
           vars, ring, Next, ReadInv, StdinTypeOK
  <1>3. ReadInv /\ [StdinNext]_vars => ReadInv'
    BY StdinSteps
  <1>4. StdinSpec => Spec
    BY ReadStarts, <1>1, <1>2, <1>3, PTL DEF StdinSpec, Spec
  <1> QED  BY <1>4, RingIsFifo
=============================================================================
