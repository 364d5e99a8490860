--------------------------- MODULE Devices_proof ---------------------------
(***************************************************************************)
(* Proofs about the device drivers, for any number of commands, tags,      *)
(* descriptors, devices, channels and blocks.  The sessions share no       *)
(* state, so that each has an inductive invariant of its own: the disk's,  *)
(* the controllers' schedule, the class drivers' devices and reports, and  *)
(* the sound.                                                              *)
(***************************************************************************)
EXTENDS MCDevices, NatLemmas, SequenceTheorems, TLAPS

(***************************************************************************)
(* The disk.  The status of the command in progress comes from the device  *)
(* only after that command was sent, and for a read the device puts the    *)
(* blocks right before it: a packet that was lost or left unread earlier   *)
(* has an older tag.                                                       *)
(***************************************************************************)
Packet == [is : {"csw", "data", "garbage"}, tag : Nat, passed : BOOLEAN]

T(s) == s.next_tag - 1

DiskShape(s) ==
  s = [next_tag |-> s.next_tag, step |-> s.step, op |-> s.op, csw |-> s.csw,
       buffer |-> s.buffer, left |-> s.left, ready |-> s.ready, probing |-> s.probing,
       result |-> s.result, lun_count |-> s.lun_count]

DiskTyped(s) ==
  /\ s.next_tag \in Nat \ {0} /\ s.left \in Seq(Packet) /\ s.csw \in Packet
  /\ s.step \in {"idle", "cbw", "data", "csw"}

(* What is known of the tags: the device sends nothing before it is asked. *)
TagsOK(s) ==
  /\ s.csw.tag <= T(s) /\ \A k \in 1 .. Len(s.left) : s.left[k].tag <= T(s)
  /\ s.step # "idle" => s.csw.tag < T(s)
  /\ s.step = "cbw" => \A k \in 1 .. Len(s.left) : s.left[k].tag < T(s)

ProbingOK(s) ==
  s.probing => s.step # "idle" /\ s.op \in {"test_unit_ready", "inquiry", "read_capacity"}

StatusOf(s, k) == s.left[k].is = "csw" /\ s.left[k].tag = T(s)
BlocksOf(s, k) == s.left[k].is = "data" /\ s.left[k].tag = T(s)

(* The blocks come right before the status, or are in the buffer. *)
BlocksOK(s) ==
  s.op = "read" =>
    /\ s.step = "data" =>
         \A k \in 1 .. Len(s.left) : StatusOf(s, k) => k > 1 /\ BlocksOf(s, k - 1)
    /\ s.step = "csw" =>
         \A k \in 1 .. Len(s.left) : StatusOf(s, k) =>
           \/ k = 1 /\ s.buffer = T(s)
           \/ k > 1 /\ BlocksOf(s, k - 1)

ReadOK(s) == s.step = "idle" /\ s.op = "read" /\ s.result = "ok" => s.buffer = T(s)

DiskOK(s) ==
  /\ DiskShape(s) /\ DiskTyped(s) /\ TagsOK(s) /\ ProbingOK(s) /\ BlocksOK(s) /\ ReadOK(s)

DiskInv == DiskOK(storage)

LEMMA DiskStarts == MassStorageInit => DiskInv
<1> SUFFICES ASSUME MassStorageInit PROVE DiskOK(storage)
  BY DEF DiskInv
<1>1. Garbage \in Packet /\ Garbage.tag = 0 /\ <<>> \in Seq(Packet) /\ Len(<<>>) = 0
  BY DEF Garbage, Packet
<1>2. PICK g : g = Garbage
  OBVIOUS
<1>3. DiskShape(storage) /\ DiskTyped(storage)
  BY <1>1, <1>2 DEF MassStorageInit, DiskShape, DiskTyped
<1>4. TagsOK(storage) /\ ProbingOK(storage) /\ BlocksOK(storage) /\ ReadOK(storage)
  BY <1>1, <1>2 DEF MassStorageInit, TagsOK, T, ProbingOK, BlocksOK, ReadOK
<1> QED BY <1>3, <1>4 DEF DiskOK

LEMMA PacketTags ==
  ASSUME NEW l \in Seq(Packet)
  PROVE  \A k \in 1 .. Len(l) : l[k].tag \in Nat
<1>1. \A k \in 1 .. Len(l) : l[k] \in Packet
  OBVIOUS
<1> QED BY <1>1 DEF Packet

(* A new command: every tag there is belongs to an earlier one. *)
LEMMA CommandBegins ==
  ASSUME NEW s, NEW op, DiskShape(s), DiskTyped(s),
         s.csw.tag <= T(s), \A k \in 1 .. Len(s.left) : s.left[k].tag <= T(s),
         s.probing => op \in {"test_unit_ready", "inquiry", "read_capacity"}
  PROVE  DiskOK(Begun(s, op))
<1>1. PICK t : t = Begun(s, op)
  OBVIOUS
<1>2. /\ DiskShape(t) /\ t.next_tag = s.next_tag + 1 /\ t.step = "cbw" /\ t.op = op
      /\ t.csw = s.csw /\ t.left = s.left /\ t.probing = s.probing
  BY <1>1 DEF Begun, DiskShape
<1>3. DiskTyped(t)
  BY <1>2 DEF DiskTyped
<1>4. PICK n \in Nat \ {0} : n = s.next_tag
  BY DEF DiskTyped
<1>5. T(s) = n - 1 /\ T(t) = n
  BY <1>2, <1>4 DEF T
<1>6. s.csw.tag \in Nat /\ \A k \in 1 .. Len(s.left) : s.left[k].tag \in Nat
  <2>1. PICK l \in Seq(Packet) : l = s.left
    BY DEF DiskTyped
  <2>2. s.csw.tag \in Nat
    BY DEF DiskTyped, Packet
  <2> QED BY <2>1, <2>2, PacketTags
<1>7. TagsOK(t)
  BY <1>2, <1>5, <1>6 DEF TagsOK
<1>8. ProbingOK(t) /\ BlocksOK(t) /\ ReadOK(t)
  BY <1>2 DEF ProbingOK, BlocksOK, ReadOK
<1> QED BY <1>1, <1>2, <1>3, <1>7, <1>8 DEF DiskOK

(* The end of a command, of the probe's or of a caller's. *)
LEMMA CommandEnds ==
  ASSUME NEW s, NEW result, DiskShape(s), DiskTyped(s), s.step # "idle",
         s.csw.tag <= T(s), \A k \in 1 .. Len(s.left) : s.left[k].tag <= T(s),
         ProbingOK(s), s.op = "read" /\ result = "ok" => s.buffer = T(s)
  PROVE  DiskOK(Ended(s, result))
<1>1. CASE s.probing /\ result = "ok" /\ s.op # "read_capacity"
  <2>1. s.op \in {"test_unit_ready", "inquiry"}
    BY <1>1 DEF ProbingOK
  <2>2. After[s.op] \in {"test_unit_ready", "inquiry", "read_capacity"}
    BY <2>1 DEF After
  <2>3. DiskOK(Begun(s, After[s.op]))
    BY <2>2, CommandBegins
  <2> QED BY <1>1, <2>3 DEF Ended
<1>2. CASE ~(s.probing /\ result = "ok" /\ s.op # "read_capacity")
  <2>1. PICK r : r = (s.ready \/ (s.probing /\ result = "ok"))
    OBVIOUS
  <2>2. PICK t : t = [s EXCEPT !.step = "idle", !.result = result, !.probing = FALSE,
                                !.ready = r]
    OBVIOUS
  <2>3. Ended(s, result) = t
    BY <1>2, <2>1, <2>2 DEF Ended
  <2>4. /\ DiskShape(t) /\ t.next_tag = s.next_tag /\ t.step = "idle" /\ t.op = s.op
        /\ t.csw = s.csw /\ t.left = s.left /\ t.probing = FALSE /\ t.buffer = s.buffer
        /\ t.result = result
    BY <2>2 DEF DiskShape
  <2>5. DiskTyped(t) /\ T(t) = T(s)
    BY <2>4 DEF DiskTyped, T
  <2>6. TagsOK(t) /\ ProbingOK(t) /\ BlocksOK(t) /\ ReadOK(t)
    BY <2>4, <2>5 DEF TagsOK, ProbingOK, BlocksOK, ReadOK
  <2> QED BY <2>3, <2>4, <2>5, <2>6 DEF DiskOK
<1> QED BY <1>1, <1>2

LEMMA DiskSent == DiskInv /\ SendCbw => DiskInv'
<1> SUFFICES ASSUME DiskInv, SendCbw PROVE DiskInv'
  OBVIOUS
<1>1. PICK s, t : s = storage /\ t = storage'
  OBVIOUS
<1>2. DiskOK(s) /\ s.step = "cbw" /\ tag = T(s)
  BY <1>1 DEF DiskInv, SendCbw, tag, T
<1>3. DiskShape(s) /\ DiskTyped(s) /\ TagsOK(s) /\ ProbingOK(s)
  BY <1>2 DEF DiskOK
<1>4. CASE t = Ended(s, "error")
  <2>1. s.csw.tag <= T(s) /\ \A k \in 1 .. Len(s.left) : s.left[k].tag <= T(s)
    BY <1>3 DEF TagsOK
  <2>2. DiskOK(t)
    BY <1>2, <1>3, <1>4, <2>1, CommandEnds
  <2> QED BY <1>1, <2>2 DEF DiskInv
<1>5. CASE \E queue \in Answers(s.op) \cup {<<>>} :
             t = [s EXCEPT !.left = @ \o queue,
                           !.step = IF s.op = "test_unit_ready" THEN "csw" ELSE "data"]
  <2>1. PICK queue \in Answers(s.op) \cup {<<>>} :
          t = [s EXCEPT !.left = @ \o queue,
                        !.step = IF s.op = "test_unit_ready" THEN "csw" ELSE "data"]
    BY <1>5
  <2>2. PICK n \in Nat : n = T(s)
    BY <1>3 DEF DiskTyped, T
  <2>3. Data(n) \in Packet /\ \A ok \in BOOLEAN : Csw(n, ok) \in Packet
    BY DEF Data, Csw, Packet
  <2>4. /\ queue \in Seq(Packet) /\ Len(queue) \in 0 .. 2
        /\ \A k \in 1 .. Len(queue) : queue[k].tag <= n
        /\ s.op = "read" => \A k \in 1 .. Len(queue) : queue[k].is = "csw" =>
             k = 2 /\ queue[1].is = "data" /\ queue[1].tag = n
    <3>1. CASE queue = <<>>
      BY <3>1
    <3>2. CASE \E ok \in BOOLEAN : queue = <<Csw(n, ok)>> /\ s.op \notin DataIn
      <4>1. PICK ok \in BOOLEAN : queue = <<Csw(n, ok)>> /\ s.op \notin DataIn
        BY <3>2
      <4>2. PICK c \in Packet : c = Csw(n, ok) /\ c.tag = n
        BY <2>3 DEF Csw
      <4>3. queue = <<c>> /\ s.op # "read"
        BY <4>1, <4>2 DEF DataIn
      <4> QED BY <4>2, <4>3
    <3>3. CASE \E ok \in BOOLEAN : queue = <<Data(n), Csw(n, ok)>>
      <4>1. PICK ok \in BOOLEAN : queue = <<Data(n), Csw(n, ok)>>
        BY <3>3
      <4>2. PICK c \in Packet : c = Csw(n, ok) /\ c.tag = n
        BY <2>3 DEF Csw
      <4>3. PICK d \in Packet : d = Data(n) /\ d.tag = n /\ d.is = "data"
        BY <2>3 DEF Data
      <4>4. queue = <<d, c>>
        BY <4>1, <4>2, <4>3
      <4> QED BY <4>2, <4>3, <4>4
    <3> QED BY <1>2, <2>1, <2>2, <3>1, <3>2, <3>3 DEF Answers
  <2>5. PICK l \in Seq(Packet) : l = s.left
    BY <1>3 DEF DiskTyped
  <2>6. PICK q \in Seq(Packet) : q = l \o queue
    BY <2>4, ConcatProperties
  <2>7. /\ Len(q) = Len(l) + Len(queue)
        /\ \A k \in 1 .. Len(l) : q[k] = l[k]
        /\ \A k \in 1 .. Len(queue) : q[Len(l) + k] = queue[k]
    BY <2>4, <2>6
  <2>8. PICK step \in {"csw", "data"} :
          step = IF s.op = "test_unit_ready" THEN "csw" ELSE "data"
    OBVIOUS
  <2>9. /\ DiskShape(t) /\ t.next_tag = s.next_tag /\ t.step = step /\ t.op = s.op
        /\ t.csw = s.csw /\ t.left = q /\ t.probing = s.probing
    BY <1>3, <2>1, <2>5, <2>6, <2>8 DEF DiskShape
  <2>10. DiskTyped(t) /\ T(t) = n
    BY <1>3, <2>2, <2>8, <2>9 DEF DiskTyped, T
  <2>11. \A k \in 1 .. Len(q) : k \in 1 .. Len(l) \/
           \E j \in 1 .. Len(queue) : k = Len(l) + j
    <3>1. PICK a \in Nat, b \in Nat : a = Len(l) /\ b = Len(queue)
      BY <2>4
    <3>2. \A k \in 1 .. a + b : k \in 1 .. a \/ (k - a \in 1 .. b /\ k = a + (k - a))
      OBVIOUS
    <3> QED BY <2>7, <3>1, <3>2
  <2>12. s.csw.tag < n /\ \A k \in 1 .. Len(l) : l[k].tag < n /\ l[k].tag \in Nat
    BY <1>2, <1>3, <2>2, <2>5, PacketTags DEF TagsOK
  <2>13. TagsOK(t)
    <3>1. \A k \in 1 .. Len(q) : q[k].tag <= n
      <4>1. SUFFICES ASSUME NEW k \in 1 .. Len(q) PROVE q[k].tag <= n
        OBVIOUS
      <4>2. CASE k \in 1 .. Len(l)
        <5>1. q[k].tag < n /\ q[k].tag \in Nat
          BY <2>7, <2>12, <4>2
        <5> QED BY <5>1
      <4>3. CASE \E j \in 1 .. Len(queue) : k = Len(l) + j
        BY <2>4, <2>7, <4>3
      <4> QED BY <2>11, <4>2, <4>3
    <3>2. s.csw.tag \in Nat
      BY <1>3 DEF DiskTyped, Packet
    <3> QED BY <2>8, <2>9, <2>10, <2>12, <3>1, <3>2 DEF TagsOK
  <2>14. BlocksOK(t)
    <3>1. SUFFICES ASSUME s.op = "read", NEW k \in 1 .. Len(q), q[k].is = "csw", q[k].tag = n
                   PROVE  k > 1 /\ q[k - 1].is = "data" /\ q[k - 1].tag = n
      BY <2>8, <2>9, <2>10 DEF BlocksOK, StatusOf, BlocksOf
    <3>2. k \notin 1 .. Len(l)
      BY <2>7, <2>12, <3>1
    <3>3. PICK j \in 1 .. Len(queue) : k = Len(l) + j
      BY <2>11, <3>2
    <3>4. queue[j] = q[k]
      BY <2>7, <3>3
    <3>5. j = 2 /\ queue[1].is = "data" /\ queue[1].tag = n
      BY <2>4, <3>1, <3>4
    <3>6. k = Len(l) + 2 /\ q[Len(l) + 1] = queue[1] /\ Len(l) \in Nat
      BY <2>4, <2>7, <3>3, <3>5
    <3> QED BY <3>5, <3>6
  <2>15. ProbingOK(t) /\ ReadOK(t)
    BY <1>3, <2>8, <2>9 DEF ProbingOK, ReadOK
  <2> QED BY <1>1, <2>9, <2>10, <2>13, <2>14, <2>15 DEF DiskInv, DiskOK
<1> QED BY <1>1, <1>4, <1>5 DEF SendCbw

(* What is left when the device's next packet was taken. *)
LEMMA TailTaken ==
  ASSUME NEW q \in Seq(Packet), q # <<>>
  PROVE  /\ Tail(q) \in Seq(Packet) /\ Head(q) = q[1] /\ Head(q) \in Packet
         /\ Len(Tail(q)) = Len(q) - 1 /\ Len(q) \in Nat \ {0}
         /\ \A k \in 1 .. Len(Tail(q)) : Tail(q)[k] = q[k + 1] /\ k + 1 \in 1 .. Len(q)
<1>1. /\ Tail(q) \in Seq(Packet) /\ Head(q) = q[1] /\ Head(q) \in Packet
      /\ Len(Tail(q)) = Len(q) - 1 /\ Len(q) \in Nat \ {0}
  OBVIOUS
<1>2. \A k \in 1 .. Len(Tail(q)) : Tail(q)[k] = q[k + 1] /\ k + 1 \in 1 .. Len(q)
  OBVIOUS
<1> QED BY <1>1, <1>2

LEMMA DiskData == DiskInv /\ DataPhase => DiskInv'
<1> SUFFICES ASSUME DiskInv, DataPhase PROVE DiskInv'
  OBVIOUS
<1>1. PICK s, t : s = storage /\ t = storage'
  OBVIOUS
<1>2. DiskOK(s) /\ s.step = "data" /\ tag = T(s)
  BY <1>1 DEF DiskInv, DataPhase, tag, T
<1>3. DiskShape(s) /\ DiskTyped(s) /\ TagsOK(s) /\ ProbingOK(s) /\ BlocksOK(s)
  BY <1>2 DEF DiskOK
<1>4. PICK n \in Nat, l \in Seq(Packet) : n = T(s) /\ l = s.left
  BY <1>3 DEF DiskTyped, T
<1>5. s.csw.tag < n /\ s.csw.tag \in Nat /\ \A k \in 1 .. Len(l) : l[k].tag <= n
  BY <1>2, <1>3, <1>4 DEF TagsOK, DiskTyped, Packet
<1>6. s.op = "read" => \A k \in 1 .. Len(l) : l[k].is = "csw" /\ l[k].tag = n =>
        k > 1 /\ l[k - 1].is = "data" /\ l[k - 1].tag = n
  BY <1>2, <1>3, <1>4 DEF BlocksOK, StatusOf, BlocksOf
<1>7. CASE t = Ended(s, "error")
  <2>1. s.csw.tag <= T(s) /\ \A k \in 1 .. Len(s.left) : s.left[k].tag <= T(s)
    BY <1>3 DEF TagsOK
  <2>2. DiskOK(t)
    BY <1>2, <1>3, <1>7, <2>1, CommandEnds
  <2> QED BY <1>1, <2>2 DEF DiskInv
<1>8. CASE s.left # <<>> /\ t = [s EXCEPT !.left = Tail(@), !.step = "csw",
             !.buffer = IF Head(s.left).is = "data" THEN Head(s.left).tag ELSE 0]
  <2>1. PICK b, q : q = Tail(l) /\ b = IF Head(l).is = "data" THEN Head(l).tag ELSE 0
    OBVIOUS
  <2>2. /\ DiskShape(t) /\ t.next_tag = s.next_tag /\ t.step = "csw" /\ t.op = s.op
        /\ t.csw = s.csw /\ t.left = q /\ t.probing = s.probing /\ t.buffer = b
    BY <1>3, <1>4, <1>8, <2>1 DEF DiskShape
  <2>3. /\ q \in Seq(Packet) /\ Head(l) = l[1] /\ Len(l) \in Nat \ {0}
        /\ \A k \in 1 .. Len(q) : q[k] = l[k + 1] /\ k + 1 \in 1 .. Len(l)
    BY <1>4, <1>8, <2>1, TailTaken
  <2>4. DiskTyped(t) /\ T(t) = n
    BY <1>3, <1>4, <2>2, <2>3 DEF DiskTyped, T
  <2>5. TagsOK(t)
    BY <1>5, <2>2, <2>3, <2>4 DEF TagsOK
  <2>6. BlocksOK(t)
    <3>1. SUFFICES ASSUME s.op = "read", NEW k \in 1 .. Len(q), q[k].is = "csw", q[k].tag = n
                   PROVE  \/ k = 1 /\ b = n
                          \/ k > 1 /\ q[k - 1].is = "data" /\ q[k - 1].tag = n
      BY <2>2, <2>4 DEF BlocksOK, StatusOf, BlocksOf
    <3>2. k + 1 \in 1 .. Len(l) /\ l[k + 1] = q[k]
      BY <2>3
    <3>3. l[(k + 1) - 1].is = "data" /\ l[(k + 1) - 1].tag = n
      BY <1>6, <3>1, <3>2
    <3>4. (k + 1) - 1 = k
      OBVIOUS
    <3>5. l[k].is = "data" /\ l[k].tag = n
      BY <3>3, <3>4
    <3>6. CASE k = 1
      BY <2>1, <2>3, <3>5, <3>6
    <3>7. CASE k # 1
      <4>1. k - 1 \in 1 .. Len(q) /\ (k - 1) + 1 = k
        BY <2>3, <3>7
      <4>2. q[k - 1] = l[k]
        BY <2>3, <4>1
      <4> QED BY <3>5, <3>7, <4>2
    <3> QED BY <3>6, <3>7
  <2>7. ProbingOK(t) /\ ReadOK(t)
    BY <1>3, <2>2 DEF ProbingOK, ReadOK
  <2> QED BY <1>1, <2>2, <2>4, <2>5, <2>6, <2>7 DEF DiskInv, DiskOK
<1>9. CASE t = [s EXCEPT !.step = "csw", !.buffer = IF s.op = "write" THEN n ELSE @]
  <2>1. /\ DiskShape(t) /\ t.next_tag = s.next_tag /\ t.step = "csw" /\ t.op = s.op
        /\ t.csw = s.csw /\ t.left = l /\ t.probing = s.probing
    BY <1>3, <1>4, <1>9 DEF DiskShape
  <2>2. DiskTyped(t) /\ T(t) = n
    BY <1>3, <1>4, <2>1 DEF DiskTyped, T
  <2>3. TagsOK(t)
    BY <1>5, <2>1, <2>2 DEF TagsOK
  <2>4. BlocksOK(t)
    BY <1>6, <2>1, <2>2 DEF BlocksOK, StatusOf, BlocksOf
  <2>5. ProbingOK(t) /\ ReadOK(t)
    BY <1>3, <2>1 DEF ProbingOK, ReadOK
  <2> QED BY <1>1, <2>1, <2>2, <2>3, <2>4, <2>5 DEF DiskInv, DiskOK
<1> QED BY <1>1, <1>2, <1>4, <1>7, <1>8, <1>9 DEF DataPhase

LEMMA DiskStatus == DiskInv /\ GetCsw => DiskInv'
<1> SUFFICES ASSUME DiskInv, GetCsw PROVE DiskInv'
  OBVIOUS
<1>1. PICK s, t : s = storage /\ t = storage'
  OBVIOUS
<1>2. DiskOK(s) /\ s.step = "csw" /\ tag = T(s)
  BY <1>1 DEF DiskInv, GetCsw, tag, T
<1>3. DiskShape(s) /\ DiskTyped(s) /\ TagsOK(s) /\ ProbingOK(s) /\ BlocksOK(s)
  BY <1>2 DEF DiskOK
<1>4. PICK n \in Nat, l \in Seq(Packet) : n = T(s) /\ l = s.left
  BY <1>3 DEF DiskTyped, T
<1>5. s.csw.tag < n /\ s.csw.tag \in Nat /\ \A k \in 1 .. Len(l) : l[k].tag <= n
  BY <1>2, <1>3, <1>4 DEF TagsOK, DiskTyped, Packet
<1>6. s.csw.tag <= T(s) /\ \A k \in 1 .. Len(s.left) : s.left[k].tag <= T(s)
  BY <1>4, <1>5
<1>7. CASE t = Ended(s, "error")
  <2>1. DiskOK(t)
    BY <1>2, <1>3, <1>6, <1>7, CommandEnds
  <2> QED BY <1>1, <2>1 DEF DiskInv
<1>8. CASE t = Judged(s)
  <2>1. ~ Verified(s.csw)
    BY <1>2, <1>4, <1>5 DEF Verified
  <2>2. t = Ended(s, "error")
    BY <1>8, <2>1 DEF Judged
  <2> QED BY <1>7, <2>2
<1>9. CASE l # <<>> /\ t = Judged([s EXCEPT !.csw = Head(l), !.left = Tail(@)])
  <2>1. PICK h, q : h = Head(l) /\ q = Tail(l)
    OBVIOUS
  <2>2. PICK u : u = [s EXCEPT !.csw = h, !.left = q]
    OBVIOUS
  <2>3. t = Judged(u)
    BY <1>4, <1>9, <2>1, <2>2 DEF DiskShape
  <2>4. /\ DiskShape(u) /\ u.next_tag = s.next_tag /\ u.step = "csw" /\ u.op = s.op
        /\ u.csw = h /\ u.left = q /\ u.probing = s.probing /\ u.buffer = s.buffer
    BY <1>2, <1>3, <2>2 DEF DiskShape
  <2>5. /\ q \in Seq(Packet) /\ h = l[1] /\ h \in Packet /\ Len(l) \in Nat \ {0}
        /\ \A k \in 1 .. Len(q) : q[k] = l[k + 1] /\ k + 1 \in 1 .. Len(l)
    BY <1>9, <2>1, TailTaken
  <2>6. DiskTyped(u) /\ T(u) = n /\ ProbingOK(u)
    BY <1>3, <1>4, <2>4, <2>5 DEF DiskTyped, T, ProbingOK
  <2>7. u.csw.tag <= T(u) /\ \A k \in 1 .. Len(u.left) : u.left[k].tag <= T(u)
    BY <1>5, <2>4, <2>5, <2>6
  <2>8. PICK result : result = IF Verified(h) /\ h.passed THEN "ok" ELSE "error"
    OBVIOUS
  <2>9. u.op = "read" /\ result = "ok" => u.buffer = T(u)
    <3>1. SUFFICES ASSUME u.op = "read", Verified(h) PROVE s.buffer = n
      BY <2>4, <2>6, <2>8
    <3>2. StatusOf(s, 1) /\ 1 \in 1 .. Len(s.left)
      BY <1>2, <1>4, <2>5, <3>1 DEF StatusOf, Verified
    <3>3. \/ 1 = 1 /\ s.buffer = T(s)
          \/ 1 > 1 /\ BlocksOf(s, 1 - 1)
      BY <1>2, <1>3, <2>4, <3>1, <3>2 DEF BlocksOK
    <3> QED BY <1>4, <3>3
  <2>10. DiskOK(Ended(u, result))
    BY <2>4, <2>6, <2>7, <2>9, CommandEnds
  <2>11. t = Ended(u, result)
    BY <2>3, <2>4, <2>8 DEF Judged
  <2> QED BY <1>1, <2>10, <2>11 DEF DiskInv
<1> QED BY <1>1, <1>4, <1>7, <1>8, <1>9 DEF GetCsw

LEMMA DiskProbed == DiskInv /\ ProbeDisk => DiskInv'
<1> SUFFICES ASSUME DiskInv, ProbeDisk PROVE DiskInv'
  OBVIOUS
<1>1. PICK s, t : s = storage /\ t = storage'
  OBVIOUS
<1>2. DiskShape(s) /\ DiskTyped(s) /\ TagsOK(s)
  BY <1>1 DEF DiskInv, DiskOK
<1>3. PICK max_lun \in 0 .. MaxLun, left \in {<<>>, s.left} :
        t = Begun([s EXCEPT !.probing = TRUE, !.lun_count = max_lun + 1, !.left = left,
                            !.csw = Garbage], "test_unit_ready")
  BY <1>1 DEF ProbeDisk
<1>4. PICK g, m : g = Garbage /\ m = max_lun + 1
  OBVIOUS
<1>5. PICK u : u = [s EXCEPT !.probing = TRUE, !.lun_count = m, !.left = left, !.csw = g]
  OBVIOUS
<1>6. /\ DiskShape(u) /\ u.next_tag = s.next_tag /\ u.step = s.step
      /\ u.csw = g /\ u.left = left
  BY <1>2, <1>5 DEF DiskShape
<1>7. DiskTyped(u) /\ g.tag <= T(u)
  <2>1. g \in Packet /\ g.tag = 0
    BY <1>4 DEF Garbage, Packet
  <2>2. left \in Seq(Packet)
    <3>1. s.left \in Seq(Packet) /\ <<>> \in Seq(Packet)
      BY <1>2 DEF DiskTyped
    <3>2. left = <<>> \/ left = s.left
      BY <1>3
    <3> QED BY <3>1, <3>2
  <2>3. T(u) \in Nat /\ T(u) = T(s) /\ DiskTyped(u)
    BY <1>2, <1>6, <2>1, <2>2 DEF DiskTyped, T
  <2> QED BY <2>1, <2>3
<1>8. \A k \in 1 .. Len(u.left) : u.left[k].tag <= T(u)
  <2>1. CASE left = <<>>
    BY <1>6, <2>1
  <2>2. CASE left = s.left
    BY <1>2, <1>6, <2>2 DEF TagsOK, T
  <2> QED BY <2>1, <2>2
<1>9. DiskOK(Begun(u, "test_unit_ready"))
  BY <1>6, <1>7, <1>8, CommandBegins
<1> QED BY <1>1, <1>3, <1>4, <1>5, <1>9 DEF DiskInv

LEMMA DiskStarted == DiskInv /\ (\E op \in {"read", "write"} : Start(op)) => DiskInv'
<1> SUFFICES ASSUME DiskInv, NEW op \in {"read", "write"}, Start(op) PROVE DiskInv'
  OBVIOUS
<1>1. DiskShape(storage) /\ DiskTyped(storage) /\ TagsOK(storage) /\ ~ storage.probing
  BY DEF DiskInv, DiskOK, ProbingOK, Start
<1>2. DiskOK(Begun(storage, op))
  BY <1>1, CommandBegins DEF TagsOK
<1> QED BY <1>2 DEF Start, DiskInv

LEMMA DiskRemoved == DiskInv /\ RemoveDisk => DiskInv'
<1> SUFFICES ASSUME DiskInv, RemoveDisk PROVE DiskInv'
  OBVIOUS
<1>1. PICK s, t : s = storage /\ t = storage'
  OBVIOUS
<1>2. DiskOK(s) /\ t = [s EXCEPT !.ready = FALSE, !.result = "none"]
  BY <1>1 DEF DiskInv, RemoveDisk
<1>3. /\ DiskShape(t) /\ t.next_tag = s.next_tag /\ t.step = s.step /\ t.op = s.op
      /\ t.csw = s.csw /\ t.left = s.left /\ t.probing = s.probing /\ t.buffer = s.buffer
      /\ t.result = "none"
  BY <1>2 DEF DiskOK, DiskShape
<1>4. DiskTyped(t) /\ T(t) = T(s) /\ TagsOK(t) /\ ProbingOK(t) /\ BlocksOK(t) /\ ReadOK(t)
  BY <1>2, <1>3 DEF DiskOK, DiskTyped, T, TagsOK, ProbingOK, BlocksOK, ReadOK, StatusOf,
                    BlocksOf
<1> QED BY <1>1, <1>3, <1>4 DEF DiskInv, DiskOK

LEMMA DiskSteps == DiskInv /\ MassStorageNext => DiskInv'
BY DiskProbed, DiskSent, DiskData, DiskStatus, DiskRemoved, DiskStarted DEF MassStorageNext

-----------------------------------------------------------------------------
(***************************************************************************)
(* What is in a sequence, with an item put first or one taken out.         *)
(***************************************************************************)
LEMMA RemoveAtIs ==
  ASSUME NEW S, NEW a \in Seq(S), NEW k \in 1 .. Len(a)
  PROVE  LET q == RemoveAt(a, k) IN
         /\ q \in Seq(S) /\ Len(q) = Len(a) - 1
         /\ \A i \in 1 .. Len(a) - 1 : q[i] = a[IF i < k THEN i ELSE i + 1]
<1>1. PICK n \in Nat : n = Len(a)
  OBVIOUS
<1>2. PICK q : q = RemoveAt(a, k)
  OBVIOUS
<1>3. PICK u, v : u = SubSeq(a, 1, k - 1) /\ v = SubSeq(a, k + 1, n)
  OBVIOUS
<1>4. /\ u \in Seq(S) /\ Len(u) = k - 1 /\ \A i \in 1 .. k - 1 : u[i] = a[i]
  BY <1>1, <1>3
<1>5. /\ v \in Seq(S) /\ Len(v) = n - k /\ \A i \in 1 .. n - k : v[i] = a[k + i]
  BY <1>1, <1>3
<1>6. /\ q \in Seq(S) /\ Len(q) = n - 1
      /\ \A i \in 1 .. n - 1 : q[i] = IF i <= k - 1 THEN u[i] ELSE v[i - (k - 1)]
  <2>1. q = u \o v
    BY <1>1, <1>2, <1>3 DEF RemoveAt
  <2>2. /\ u \o v \in Seq(S) /\ Len(u \o v) = Len(u) + Len(v)
        /\ \A i \in 1 .. Len(u) + Len(v) :
             (u \o v)[i] = IF i <= Len(u) THEN u[i] ELSE v[i - Len(u)]
    BY <1>4, <1>5, ConcatProperties
  <2>3. Len(u) + Len(v) = n - 1
    BY <1>1, <1>4, <1>5
  <2> QED BY <1>4, <2>1, <2>2, <2>3
<1>7. ASSUME NEW i \in 1 .. n - 1
      PROVE  q[i] = a[IF i < k THEN i ELSE i + 1]
  <2>1. CASE i < k
    <3>1. i \in 1 .. k - 1 /\ i <= k - 1
      BY <1>1, <2>1
    <3> QED BY <1>4, <1>6, <2>1, <3>1
  <2>2. CASE ~(i < k)
    <3>1. i - (k - 1) \in 1 .. n - k /\ k + (i - (k - 1)) = i + 1 /\ ~(i <= k - 1)
      BY <1>1, <2>2
    <3> QED BY <1>5, <1>6, <2>2, <3>1
  <2> QED BY <2>1, <2>2
<1> QED BY <1>1, <1>2, <1>6, <1>7

LEMMA ItemsOfSeq ==
  ASSUME NEW S, NEW s \in Seq(S)
  PROVE  Range(s) = {s[i] : i \in 1..Len(s)} /\ Range(s) \subseteq S
BY SMT DEF Range

LEMMA PutFirst ==
  ASSUME NEW S, NEW s \in Seq(S), NEW d \in S
  PROVE  /\ <<d>> \o s \in Seq(S) /\ Len(<<d>> \o s) = Len(s) + 1
         /\ (<<d>> \o s)[1] = d
         /\ \A i \in 2..(Len(s) + 1) : (<<d>> \o s)[i] = s[i - 1]
         /\ Range(<<d>> \o s) = Range(s) \cup {d}
<1> DEFINE r == <<d>> \o s
<1>1. <<d>> \in Seq(S) /\ Len(<<d>>) = 1 /\ <<d>>[1] = d
  OBVIOUS
<1>2. r \in Seq(S) /\ Len(r) = Len(s) + 1 /\ Len(s) \in Nat
  BY <1>1, ConcatProperties
<1>3. \A i \in 1..(Len(s) + 1) : r[i] = IF i <= 1 THEN <<d>>[i] ELSE s[i - 1]
  BY <1>1, ConcatProperties
<1>4. r[1] = d /\ \A i \in 2..(Len(s) + 1) : r[i] = s[i - 1]
  BY <1>1, <1>2, <1>3
<1>5. Range(r) = {r[i] : i \in 1..Len(r)} /\ Range(s) = {s[i] : i \in 1..Len(s)}
  BY <1>2, ItemsOfSeq
<1> HIDE DEF r
<1>6. ASSUME NEW x \in Range(r) PROVE x \in Range(s) \cup {d}
  <2>1. PICK i \in 1..(Len(s) + 1) : x = r[i]
    BY <1>2, <1>5
  <2>2. CASE i = 1
    BY <2>1, <2>2, <1>4
  <2>3. CASE i # 1
    <3>1. i - 1 \in 1..Len(s) /\ x = s[i - 1]
      BY <2>1, <2>3, <1>4, <1>2
    <3> QED BY <3>1, <1>5
  <2> QED BY <2>2, <2>3
<1>7. ASSUME NEW x \in Range(s) \cup {d} PROVE x \in Range(r)
  <2>1. CASE x = d
    <3>1. 1 \in 1..Len(r)
      BY <1>2
    <3> QED BY <3>1, <2>1, <1>4, <1>5
  <2>2. CASE x \in Range(s)
    <3>1. PICK i \in 1..Len(s) : x = s[i]
      BY <2>2, <1>5
    <3>2. i + 1 \in 2..(Len(s) + 1) /\ i + 1 \in 1..Len(r) /\ (i + 1) - 1 = i
      BY <3>1, <1>2
    <3>3. r[i + 1] = s[i]
      BY <3>2, <1>4
    <3> QED BY <3>1, <3>2, <3>3, <1>5
  <2> QED BY <2>1, <2>2
<1> QED BY <1>2, <1>4, <1>6, <1>7 DEF r

-----------------------------------------------------------------------------
(***************************************************************************)
(* The controllers' schedule.  The transfers a controller holds lie in the *)
(* pool in the order they were made, the newest first and one behind the   *)
(* other, and of EHCI's only the newest is linked, while its call waits.   *)
(***************************************************************************)
Stage == {"active", "done", "halted"}
Entry == [from : Nat, list : {"control", "bulk"}, linked : BOOLEAN, stages : Seq(Stage)]

End(entry) == entry.from + Len(entry.stages)

UsbShape(u) ==
  u = [kind |-> u.kind, on |-> u.on, reset |-> u.reset, pool_index |-> u.pool_index,
       held |-> u.held, waiting |-> u.waiting, result |-> u.result]

UsbTyped(u) ==
  /\ u.on \in BOOLEAN /\ u.waiting \in BOOLEAN /\ u.pool_index \in 0 .. PoolSize
  /\ u.held \in Seq(Entry) /\ (~ u.on => u.held = <<>>)

OrderOK(h, p) ==
  /\ \A i \in 1 .. Len(h) : End(h[i]) < p
  /\ \A i, j \in 1 .. Len(h) : i < j => End(h[j]) < h[i].from

LinkedOK(u) ==
  u.kind = "ehci" => \A i \in 1 .. Len(u.held) : u.held[i].linked => u.waiting /\ i = 1

UsbOK(u) == UsbShape(u) /\ UsbTyped(u) /\ OrderOK(u.held, u.pool_index) /\ LinkedOK(u)

UsbInv == UsbOK(usb)

LEMMA EntryIs ==
  ASSUME NEW e \in Entry
  PROVE  /\ e = [from |-> e.from, list |-> e.list, linked |-> e.linked, stages |-> e.stages]
         /\ e.from \in Nat /\ e.list \in {"control", "bulk"} /\ e.linked \in BOOLEAN
         /\ e.stages \in Seq(Stage) /\ Len(e.stages) \in Nat /\ End(e) \in Nat
<1>1. e.from \in Nat /\ e.stages \in Seq(Stage)
  BY DEF Entry
<1>2. Len(e.stages) \in Nat
  BY <1>1
<1> QED BY <1>1, <1>2 DEF Entry, End

LEMMA HeldTyped ==
  ASSUME NEW h \in Seq(Entry), NEW i \in 1 .. Len(h)
  PROVE  h[i] \in Entry
OBVIOUS

(* The order is of the places alone, and of any list it is of what is left.  *)
LEMMA SamePlaces ==
  ASSUME NEW h \in Seq(Entry), NEW g \in Seq(Entry), Len(g) = Len(h),
         \A i \in 1 .. Len(h) :
           g[i].from = h[i].from /\ Len(g[i].stages) = Len(h[i].stages),
         NEW p, OrderOK(h, p)
  PROVE  OrderOK(g, p)
<1>1. \A i \in 1 .. Len(h) : End(g[i]) = End(h[i]) /\ g[i].from = h[i].from
  BY DEF End
<1> QED BY <1>1 DEF OrderOK

LEMMA NoneHeld ==
  ASSUME NEW h, h = <<>>, NEW p
  PROVE  OrderOK(h, p) /\ Len(h) = 0
<1>1. Len(h) = 0 /\ 1 .. 0 = {}
  OBVIOUS
<1> QED BY <1>1 DEF OrderOK

LEMMA UsbStarts == ASSUME NEW k PROVE UsbOK(UsbOff(k))
<1>1. PICK u : u = UsbOff(k)
  OBVIOUS
<1>2. UsbShape(u) /\ u.on = FALSE /\ u.waiting = FALSE /\ u.pool_index = 0 /\ u.held = <<>>
  BY <1>1 DEF UsbOff, UsbShape
<1>3. 0 \in 0 .. PoolSize /\ <<>> \in Seq(Entry)
  BY UsbAssumption
<1>4. OrderOK(u.held, 0) /\ Len(u.held) = 0
  BY <1>2, NoneHeld
<1>5. LinkedOK(u)
  BY <1>4 DEF LinkedOK
<1> QED BY <1>1, <1>2, <1>3, <1>4, <1>5 DEF UsbOK, UsbTyped

LEMMA ControllerStarts ==
  ASSUME UsbInv, ControllerInit \/ Enumerate
  PROVE  UsbInv'
<1>1. PICK u, v : u = usb /\ v = usb'
  OBVIOUS
<1>2. UsbOK(u)
  BY <1>1 DEF UsbInv
<1>3. CASE \E r : v = [u EXCEPT !.result = r]
  <2>1. PICK r : v = [u EXCEPT !.result = r]
    BY <1>3
  <2>2. /\ UsbShape(v) /\ v.on = u.on /\ v.waiting = u.waiting /\ v.kind = u.kind
        /\ v.pool_index = u.pool_index /\ v.held = u.held
    BY <1>2, <2>1 DEF UsbOK, UsbShape
  <2> QED BY <1>1, <1>2, <2>2 DEF UsbInv, UsbOK, UsbTyped, LinkedOK
<1>4. CASE /\ ~ u.on
           /\ \E r : v = [u EXCEPT !.on = TRUE, !.reset = r, !.result = 0,
                                   !.pool_index = Heads(u.kind)]
  <2>1. PICK r, p : /\ p = Heads(u.kind)
                    /\ v = [u EXCEPT !.on = TRUE, !.reset = r, !.result = 0, !.pool_index = p]
    BY <1>4
  <2>2. /\ UsbShape(v) /\ v.on = TRUE /\ v.waiting = u.waiting /\ v.kind = u.kind
        /\ v.pool_index = p /\ v.held = u.held
    BY <1>2, <2>1 DEF UsbOK, UsbShape
  <2>3. p \in 0 .. PoolSize
    BY <2>1, UsbAssumption DEF Heads
  <2>4. u.held = <<>>
    BY <1>2, <1>4 DEF UsbOK, UsbTyped
  <2>5. OrderOK(v.held, p) /\ Len(v.held) = 0
    BY <2>2, <2>4, NoneHeld
  <2>6. LinkedOK(v)
    BY <2>5 DEF LinkedOK
  <2> QED BY <1>1, <1>2, <2>2, <2>3, <2>4, <2>5, <2>6 DEF UsbInv, UsbOK, UsbTyped
<1>5. CASE ControllerInit
  BY <1>1, <1>3, <1>4, <1>5, Zenon DEF ControllerInit
<1>6. CASE Enumerate
  BY <1>1, <1>3, <1>6, Zenon DEF Enumerate
<1> QED BY <1>5, <1>6

LEMMA ActiveIs ==
  ASSUME NEW n \in Nat
  PROVE  Active(n) \in Seq(Stage) /\ Len(Active(n)) = n
BY DEF Active, Stage

(* A new transfer lies behind all there are. *)
LEMMA Transferred ==
  ASSUME UsbInv, NEW n \in Nat, NEW list \in {"control", "bulk"}, Transfer(n, list)
  PROVE  UsbInv'
<1>1. PICK u, v : u = usb /\ v = usb'
  OBVIOUS
<1>2. UsbShape(u) /\ UsbTyped(u) /\ OrderOK(u.held, u.pool_index) /\ LinkedOK(u)
      /\ ~ u.waiting /\ u.on
  BY <1>1 DEF UsbInv, UsbOK, Transfer
<1>3. PICK p \in Nat, most \in Nat : p = u.pool_index /\ most = PoolSize /\ p <= most
  BY <1>2, UsbAssumption DEF UsbTyped
<1>4. PICK p2 \in 0 .. most : p2 = (IF most - p < n + 1 THEN most ELSE p + (n + 1)) /\ p <= p2
  BY <1>3
<1>5. PICK w : w = TakenFrom(u, n + 1)
  OBVIOUS
<1>6. w = [u EXCEPT !.pool_index = p2]
  BY <1>1, <1>3, <1>4, <1>5 DEF TakenFrom, Short
<1>7. /\ UsbShape(w) /\ w.on = u.on /\ w.waiting = u.waiting /\ w.kind = u.kind
      /\ w.pool_index = p2 /\ w.held = u.held
  BY <1>2, <1>6 DEF UsbShape
<1>8. PICK h \in Seq(Entry) : h = u.held
  BY <1>2 DEF UsbTyped
<1>9. PICK m \in Nat : m = Len(h)
  OBVIOUS
<1>10. CASE Short(n + 1)
  <2>1. v = [w EXCEPT !.result = -1]
    BY <1>1, <1>5, <1>10 DEF Transfer
  <2>2. /\ UsbShape(v) /\ v.on = u.on /\ v.waiting = u.waiting /\ v.kind = u.kind
        /\ v.pool_index = p2 /\ v.held = h
    BY <1>7, <1>8, <2>1 DEF UsbShape
  <2>3. OrderOK(h, p2)
    <3>1. \A i \in 1 .. Len(h) : End(h[i]) \in Nat
      BY HeldTyped, EntryIs
    <3> QED BY <1>2, <1>3, <1>4, <1>8, <3>1 DEF OrderOK
  <2> QED BY <1>1, <1>2, <1>3, <1>8, <2>2, <2>3 DEF UsbInv, UsbOK, UsbTyped, LinkedOK
<1>11. CASE ~ Short(n + 1)
  <2>1. v = Linked(w, n, list)
    BY <1>1, <1>5, <1>11 DEF Transfer
  <2>2. PICK new : new = [from |-> p, list |-> list, linked |-> TRUE, stages |-> Active(n)]
    OBVIOUS
  <2>3. new \in Entry /\ new.from = p /\ End(new) = p + n
    BY <1>3, <2>2, ActiveIs DEF Entry, End
  <2>4. PICK kept : kept = [i \in DOMAIN h |->
                      IF u.kind = "ohci" /\ h[i].list = list THEN Out(h[i]) ELSE h[i]]
    OBVIOUS
  <2>5. ASSUME NEW i \in 1 .. m
        PROVE  /\ kept[i] \in Entry /\ kept[i].from = h[i].from
               /\ Len(kept[i].stages) = Len(h[i].stages)
               /\ kept[i].linked => h[i].linked
    <3>1. PICK e \in Entry : e = h[i]
      BY <1>9, HeldTyped
    <3>2. /\ Out(e) \in Entry /\ Out(e).from = e.from /\ Out(e).stages = e.stages
          /\ Out(e).linked = FALSE
      BY <3>1 DEF Out, Entry
    <3>3. DOMAIN h = 1 .. m
      BY <1>9
    <3>4. kept[i] = e \/ kept[i] = Out(e)
      BY <2>4, <3>1, <3>3
    <3> QED BY <3>1, <3>2, <3>4
  <2>6. kept \in Seq(Entry) /\ Len(kept) = m
    <3>1. DOMAIN h = 1 .. m
      BY <1>9
    <3>2. kept = [i \in 1 .. m |-> kept[i]]
      BY <2>4, <3>1
    <3> QED BY <2>5, <3>2
  <2>7. PICK g : g = <<new>> \o kept
    OBVIOUS
  <2>8. /\ g \in Seq(Entry) /\ Len(g) = m + 1 /\ g[1] = new
        /\ \A i \in 1 .. m + 1 : i # 1 => i - 1 \in 1 .. m /\ g[i] = kept[i - 1]
    <3>1. \A i \in 2 .. m + 1 : g[i] = kept[i - 1]
      BY <2>3, <2>6, <2>7, PutFirst
    <3>2. \A i \in 1 .. m + 1 : i # 1 => i \in 2 .. m + 1 /\ i - 1 \in 1 .. m
      OBVIOUS
    <3> QED BY <2>3, <2>6, <2>7, <3>1, <3>2, PutFirst
  <2>9. v = [w EXCEPT !.held = g, !.waiting = TRUE]
    BY <1>1, <1>3, <1>7, <1>8, <2>1, <2>2, <2>4, <2>7 DEF Linked
  <2>10. /\ UsbShape(v) /\ v.on = TRUE /\ v.waiting = TRUE /\ v.kind = u.kind
         /\ v.pool_index = p2 /\ v.held = g
    BY <1>2, <1>7, <2>9 DEF UsbShape, UsbTyped
  <2>11. p2 = p + n + 1
    BY <1>1, <1>3, <1>4, <1>11 DEF Short
  <2>12. OrderOK(kept, p)
    BY <1>2, <1>3, <1>8, <1>9, <2>5, <2>6, SamePlaces
  <2>13. \A i \in 1 .. m : kept[i].from \in Nat /\ End(kept[i]) \in Nat
    BY <2>5, EntryIs
  <2>14. OrderOK(g, p2)
    <3>1. ASSUME NEW i \in 1 .. m + 1 PROVE End(g[i]) < p2
      <4>1. CASE i = 1
        BY <2>3, <2>8, <2>11, <4>1
      <4>2. CASE i # 1
        <5>1. PICK k \in 1 .. m : g[i] = kept[k]
          BY <2>8, <4>2
        <5>2. End(kept[k]) < p
          BY <2>6, <2>12 DEF OrderOK
        <5> QED BY <1>3, <1>4, <2>13, <5>1, <5>2
      <4> QED BY <4>1, <4>2
    <3>2. ASSUME NEW i \in 1 .. m + 1, NEW j \in 1 .. m + 1, i < j
          PROVE  End(g[j]) < g[i].from
      <4>1. j - 1 \in 1 .. m /\ g[j] = kept[j - 1]
        BY <2>8, <3>2
      <4>2. CASE i = 1
        BY <2>3, <2>6, <2>8, <2>12, <4>1, <4>2 DEF OrderOK
      <4>3. CASE i # 1
        <5>1. i - 1 \in 1 .. m /\ g[i] = kept[i - 1] /\ i - 1 < j - 1
          BY <2>8, <3>2, <4>3
        <5> QED BY <2>6, <2>12, <4>1, <5>1 DEF OrderOK
      <4> QED BY <4>2, <4>3
    <3> QED BY <2>8, <3>1, <3>2 DEF OrderOK
  <2>15. LinkedOK(v)
    <3>1. SUFFICES ASSUME u.kind = "ehci", NEW i \in 1 .. m + 1, g[i].linked PROVE i = 1
      BY <2>8, <2>10 DEF LinkedOK
    <3>2. \A k \in 1 .. m : ~ h[k].linked
      BY <1>2, <1>8, <1>9, <3>1 DEF LinkedOK
    <3>3. \A k \in 1 .. m : ~ kept[k].linked
      BY <2>5, <3>2
    <3> QED BY <2>8, <3>1, <3>3
  <2> QED BY <1>1, <1>3, <2>8, <2>10, <2>14, <2>15 DEF UsbInv, UsbOK, UsbTyped
<1> QED BY <1>10, <1>11

(* A change of one entry that keeps its place. *)
LEMMA EntryChanged ==
  ASSUME NEW h \in Seq(Entry), NEW q \in 1 .. Len(h), NEW e \in Entry,
         e.from = h[q].from, Len(e.stages) = Len(h[q].stages), e.linked => h[q].linked
  PROVE  LET g == [h EXCEPT ![q] = e] IN
         /\ g \in Seq(Entry) /\ Len(g) = Len(h)
         /\ \A p : OrderOK(h, p) => OrderOK(g, p)
         /\ \A i \in 1 .. Len(h) : g[i].linked => h[i].linked
         /\ g[q] = e
<1>1. PICK g : g = [h EXCEPT ![q] = e]
  OBVIOUS
<1>2. /\ g \in Seq(Entry) /\ Len(g) = Len(h)
      /\ \A j \in 1 .. Len(h) : g[j] = IF j = q THEN e ELSE h[j]
  BY <1>1, ExceptSeq
<1>3. \A i \in 1 .. Len(h) :
        g[i].from = h[i].from /\ Len(g[i].stages) = Len(h[i].stages)
  BY <1>2
<1>4. \A p : OrderOK(h, p) => OrderOK(g, p)
  BY <1>2, <1>3, SamePlaces
<1> QED BY <1>1, <1>2, <1>4

LEMMA ControllerWorks == UsbInv /\ Controller => UsbInv'
<1> SUFFICES ASSUME UsbInv, Controller PROVE UsbInv'
  OBVIOUS
<1>1. PICK u, v : u = usb /\ v = usb'
  OBVIOUS
<1>2. UsbShape(u) /\ UsbTyped(u) /\ OrderOK(u.held, u.pool_index) /\ LinkedOK(u)
  BY <1>1 DEF UsbInv, UsbOK
<1>3. PICK h \in Seq(Entry) : h = u.held
  BY <1>2 DEF UsbTyped
<1>4. PICK q \in 1 .. Len(h), how \in {"done", "halted"} :
        v = [u EXCEPT !.held[q].stages = Worked(@, how)]
  <2>1. DOMAIN h = 1 .. Len(h)
    OBVIOUS
  <2> QED BY <1>1, <1>3, <2>1 DEF Controller
<1>5. PICK o \in Entry : o = h[q]
  BY HeldTyped
<1>6. PICK s : s = Worked(o.stages, how)
  OBVIOUS
<1>7. s \in Seq(Stage) /\ Len(s) = Len(o.stages)
  <2>a. PICK stages \in Seq(Stage) : stages = o.stages
    BY EntryIs
  <2>b. PICK i : i = SelectInSeq(stages, LAMBDA x : x = "active")
    OBVIOUS
  <2>1. stages = o.stages /\ s = [stages EXCEPT ![i] = how]
    BY <1>6, <2>a, <2>b DEF Worked
  <2>2. how \in Stage
    BY DEF Stage
  <2>3. CASE i \in 1 .. Len(stages)
    BY <2>1, <2>2, <2>3, ExceptSeq
  <2>4. CASE i \notin 1 .. Len(stages)
    <3>1. DOMAIN stages = 1 .. Len(stages)
      OBVIOUS
    <3>2. s = stages
      BY <2>1, <2>4, <3>1
    <3> QED BY <2>1, <3>2
  <2> QED BY <2>3, <2>4
<1>8. PICK e : e = [o EXCEPT !.stages = s]
  OBVIOUS
<1>9. e \in Entry /\ e.from = o.from /\ e.stages = s /\ e.linked = o.linked
  BY <1>7, <1>8 DEF Entry
<1>10. PICK g : g = [h EXCEPT ![q] = e]
  OBVIOUS
<1>11. v = [u EXCEPT !.held = g]
  BY <1>2, <1>3, <1>4, <1>5, <1>6, <1>8, <1>10 DEF UsbShape
<1>12. /\ UsbShape(v) /\ v.on = u.on /\ v.waiting = u.waiting /\ v.kind = u.kind
       /\ v.pool_index = u.pool_index /\ v.held = g
  BY <1>2, <1>11 DEF UsbShape
<1>13. /\ g \in Seq(Entry) /\ Len(g) = Len(h) /\ OrderOK(g, u.pool_index)
       /\ \A i \in 1 .. Len(h) : g[i].linked => h[i].linked
  <2>1. e.from = h[q].from /\ Len(e.stages) = Len(h[q].stages) /\ (e.linked => h[q].linked)
    BY <1>5, <1>7, <1>9
  <2> QED BY <1>2, <1>3, <1>9, <1>10, <2>1, EntryChanged
<1>14. u.on
  <2>1. Len(<<>>) = 0
    OBVIOUS
  <2> QED BY <1>2, <1>3, <1>4, <2>1 DEF UsbTyped
<1> QED BY <1>1, <1>2, <1>3, <1>12, <1>13, <1>14 DEF UsbInv, UsbOK, UsbTyped, LinkedOK

(* What the controller lets go of was not linked; the rest keep their order. *)
LEMMA Released == UsbInv /\ LetGo => UsbInv'
<1> SUFFICES ASSUME UsbInv, LetGo PROVE UsbInv'
  OBVIOUS
<1>1. PICK u, v : u = usb /\ v = usb'
  OBVIOUS
<1>2. UsbShape(u) /\ UsbTyped(u) /\ OrderOK(u.held, u.pool_index) /\ LinkedOK(u)
  BY <1>1 DEF UsbInv, UsbOK
<1>3. PICK h \in Seq(Entry) : h = u.held
  BY <1>2 DEF UsbTyped
<1>4. PICK q \in 1 .. Len(h) : ~ h[q].linked /\ v = [u EXCEPT !.held = RemoveAt(h, q)]
  <2>1. DOMAIN h = 1 .. Len(h)
    OBVIOUS
  <2> QED BY <1>1, <1>3, <2>1 DEF LetGo
<1>5. PICK g : g = RemoveAt(h, q)
  OBVIOUS
<1>6. PICK m \in Nat : m = Len(h)
  OBVIOUS
<1>7. /\ g \in Seq(Entry) /\ Len(g) = m - 1
      /\ \A i \in 1 .. m - 1 : g[i] = h[IF i < q THEN i ELSE i + 1]
  BY <1>5, <1>6, RemoveAtIs
<1>8. /\ UsbShape(v) /\ v.on = u.on /\ v.waiting = u.waiting /\ v.kind = u.kind
      /\ v.pool_index = u.pool_index /\ v.held = g
  BY <1>2, <1>4, <1>5 DEF UsbShape
<1>9. \A i \in 1 .. m - 1 : (IF i < q THEN i ELSE i + 1) \in 1 .. m
  BY <1>6
<1>10. \A i, j \in 1 .. m - 1 : i < j =>
         (IF i < q THEN i ELSE i + 1) < (IF j < q THEN j ELSE j + 1)
  BY <1>6
<1>11. OrderOK(g, u.pool_index)
  <2>1. \A i \in 1 .. m - 1 : End(g[i]) < u.pool_index
    BY <1>2, <1>3, <1>6, <1>7, <1>9 DEF OrderOK
  <2>2. ASSUME NEW i \in 1 .. m - 1, NEW j \in 1 .. m - 1, i < j
        PROVE  End(g[j]) < g[i].from
    <3>1. PICK k \in 1 .. m, l \in 1 .. m : k < l /\ g[i] = h[k] /\ g[j] = h[l]
      BY <1>7, <1>9, <1>10, <2>2
    <3> QED BY <1>2, <1>3, <1>6, <3>1 DEF OrderOK
  <2> QED BY <1>7, <2>1, <2>2 DEF OrderOK
<1>12. LinkedOK(v)
  <2>1. SUFFICES ASSUME u.kind = "ehci", NEW i \in 1 .. m - 1, g[i].linked
                 PROVE  u.waiting /\ i = 1
    BY <1>6, <1>7, <1>8 DEF LinkedOK
  <2>2. PICK k \in 1 .. m : k = (IF i < q THEN i ELSE i + 1) /\ h[k].linked
    BY <1>7, <1>9, <2>1
  <2>3. u.waiting /\ k = 1
    BY <1>2, <1>3, <1>6, <2>1, <2>2 DEF LinkedOK
  <2> QED BY <1>6, <2>2, <2>3
<1>13. u.on
  <2>1. Len(<<>>) = 0
    OBVIOUS
  <2> QED BY <1>2, <1>3, <1>4, <2>1 DEF UsbTyped
<1> QED BY <1>1, <1>2, <1>7, <1>8, <1>11, <1>12, <1>13 DEF UsbInv, UsbOK, UsbTyped

LEMMA Finished == UsbInv /\ Finish => UsbInv'
<1> SUFFICES ASSUME UsbInv, Finish PROVE UsbInv'
  OBVIOUS
<1>1. PICK u, v : u = usb /\ v = usb'
  OBVIOUS
<1>2. UsbShape(u) /\ UsbTyped(u) /\ OrderOK(u.held, u.pool_index) /\ LinkedOK(u)
  BY <1>1 DEF UsbInv, UsbOK
<1>3. PICK h \in Seq(Entry) : h = u.held
  BY <1>2 DEF UsbTyped
<1>4. PICK w, r : /\ w = (IF u.kind = "ehci" THEN Unlinked(u) ELSE u)
                  /\ v = [w EXCEPT !.waiting = FALSE, !.result = r]
  BY <1>1 DEF Finish
<1>5. PICK g : g = IF u.kind = "ehci" THEN [h EXCEPT ![1] = Out(@)] ELSE h
  OBVIOUS
<1>6. w = [u EXCEPT !.held = g]
  BY <1>2, <1>3, <1>4, <1>5 DEF Unlinked, UsbShape
<1>7. /\ UsbShape(v) /\ v.on = u.on /\ v.waiting = FALSE /\ v.kind = u.kind
      /\ v.pool_index = u.pool_index /\ v.held = g
  <2>1. /\ UsbShape(w) /\ w.on = u.on /\ w.kind = u.kind
        /\ w.pool_index = u.pool_index /\ w.held = g
    BY <1>2, <1>6 DEF UsbShape
  <2> QED BY <1>4, <2>1 DEF UsbShape
<1>8. /\ g \in Seq(Entry) /\ Len(g) = Len(h) /\ OrderOK(g, u.pool_index)
      /\ u.kind = "ehci" => \A i \in 1 .. Len(h) : ~ g[i].linked
  <2>1. CASE u.kind = "ehci" /\ 1 \in 1 .. Len(h)
    <3>1. PICK o \in Entry : o = h[1]
      BY <2>1, HeldTyped
    <3>2. PICK e : e = Out(o)
      OBVIOUS
    <3>3. e \in Entry /\ e.from = o.from /\ e.stages = o.stages /\ e.linked = FALSE
      BY <3>2 DEF Out, Entry
    <3>4. g = [h EXCEPT ![1] = e]
      BY <1>5, <2>1, <3>1, <3>2
    <3>5. /\ g \in Seq(Entry) /\ Len(g) = Len(h) /\ OrderOK(g, u.pool_index)
          /\ \A i \in 1 .. Len(h) : g[i].linked => h[i].linked
          /\ g[1] = e
      BY <1>2, <1>3, <2>1, <3>1, <3>3, <3>4, EntryChanged
    <3>6. \A i \in 1 .. Len(h) : h[i].linked => i = 1
      BY <1>2, <1>3, <2>1 DEF LinkedOK
    <3> QED BY <3>3, <3>5, <3>6
  <2>2. CASE u.kind = "ehci" /\ 1 \notin 1 .. Len(h)
    <3>1. DOMAIN h = 1 .. Len(h)
      OBVIOUS
    <3>2. g = h
      BY <1>5, <2>2, <3>1
    <3>3. \A i \in 1 .. Len(h) : FALSE
      BY <2>2
    <3> QED BY <1>2, <1>3, <3>2, <3>3
  <2>3. CASE u.kind # "ehci"
    BY <1>2, <1>3, <1>5, <2>3
  <2> QED BY <2>1, <2>2, <2>3
<1>9. u.on \/ g = <<>>
  <2>1. CASE ~ u.on
    <3>1. h = <<>> /\ 1 \notin DOMAIN <<>>
      BY <1>2, <1>3, <2>1 DEF UsbTyped
    <3> QED BY <1>5, <3>1
  <2> QED BY <2>1
<1> QED BY <1>1, <1>2, <1>7, <1>8, <1>9 DEF UsbInv, UsbOK, UsbTyped, LinkedOK

LEMMA UsbSteps == UsbInv /\ UsbNext => UsbInv'
<1> SUFFICES ASSUME UsbInv, UsbNext PROVE UsbInv'
  OBVIOUS
<1>1. CASE ControllerInit \/ Enumerate
  BY <1>1, ControllerStarts
<1>2. CASE \E n \in Nat, list \in {"control", "bulk"} : Transfer(n, list)
  BY <1>2, Transferred
<1>3. CASE Controller \/ LetGo \/ Finish
  BY <1>3, ControllerWorks, Released, Finished
<1>4. CASE ControlTransfer \/ BulkTransfer
  BY <1>2, <1>4 DEF ControlTransfer, BulkTransfer
<1> QED BY <1>1, <1>3, <1>4 DEF UsbNext

LEMMA UsbGives == UsbInv => LateWorkIsApart
<1> SUFFICES ASSUME UsbInv PROVE LateWorkIsApart
  OBVIOUS
<1>1. PICK u : u = usb
  OBVIOUS
<1>2. UsbTyped(u) /\ OrderOK(u.held, u.pool_index) /\ LinkedOK(u)
  BY <1>1 DEF UsbInv, UsbOK
<1>3. PICK h \in Seq(Entry) : h = u.held
  BY <1>2 DEF UsbTyped
<1>4. DOMAIN h = 1 .. Len(h) /\ \A i \in 1 .. Len(h) : h[i].from \in Nat /\ End(h[i]) \in Nat
  BY HeldTyped, EntryIs
<1>5. ASSUME NEW i \in 1 .. Len(h), NEW j \in 1 .. Len(h), i # j
      PROVE  Descriptors(h[i]) \cap Descriptors(h[j]) = {}
  <2>1. \A k \in 1 .. Len(h) : Descriptors(h[k]) = h[k].from .. End(h[k])
    BY DEF Descriptors, End
  <2>2. End(h[i]) < h[j].from \/ End(h[j]) < h[i].from
    BY <1>2, <1>3, <1>5 DEF OrderOK
  <2> QED BY <1>4, <2>1, <2>2
<1>6. ASSUME NEW i \in 1 .. Len(h), NEW p \in u.pool_index .. PoolSize
      PROVE  p \notin Descriptors(h[i])
  <2>1. Descriptors(h[i]) = h[i].from .. End(h[i])
    BY DEF Descriptors, End
  <2>2. End(h[i]) < u.pool_index
    BY <1>2, <1>3 DEF OrderOK
  <2>3. u.pool_index \in Nat /\ PoolSize \in Nat
    BY <1>2, UsbAssumption DEF UsbTyped
  <2> QED BY <1>4, <2>1, <2>2, <2>3
<1>7. u.kind = "ehci" /\ ~ u.waiting => \A i \in 1 .. Len(h) : ~ h[i].linked
  BY <1>2, <1>3 DEF LinkedOK
<1> QED BY <1>1, <1>3, <1>4, <1>5, <1>6, <1>7 DEF LateWorkIsApart

-----------------------------------------------------------------------------
(***************************************************************************)
(* The class drivers' devices.  The two lists of entries are treated alike: *)
(* a and b are either of them.                                             *)
(***************************************************************************)
HidEntry == [of : HidDevice, type : {"keyboard", "mouse", "other"}, set : [Setting -> Nat]]
AudioEntry == [of : AudioDevice, set : [Setting -> Nat]]

Has(list, d) == \E i \in 1 .. Len(list) : list[i].of = d

(* What a device may run with: any number for a setting in doubt.           *)
May(run, doubts) == [s \in Setting |-> IF s \in doubts THEN Nat ELSE run[s]]
MayRun(t) == [d \in Plugged |-> May(t.runs[d], t.doubt[d])]

Unheard(run) == \A s \in Setting : run[s] \in {{}, Nat}
Agrees(run, values) ==
  \A s \in Setting :
    run[s] = Nat \/ run[s] = {values[s]} \/ (run[s] = {} /\ values[s] = Defaults[s])

(* Of an entry whose device was taken once the driver knows the settings; it *)
(* is the only one of its device.                                           *)
ListKnows(a, on, runs, again) ==
  \A i \in 1 .. Len(a) :
    /\ a[i].of \in again \/ (a[i].of \in on /\ Agrees(runs[a[i].of], a[i].set))
    /\ \A j \in 1 .. Len(a) : a[j].of = a[i].of /\ j # i => a[i].of \in again

Apart(a, b, again) ==
  \A i \in 1 .. Len(a), j \in 1 .. Len(b) : a[i].of = b[j].of => a[i].of \in again

(* A device that no driver holds runs with nothing it was asked for that is  *)
(* not in doubt.                                                            *)
Unasked(a, b, runs, again) ==
  \A d \in Plugged : ~ Has(a, d) /\ ~ Has(b, d) => d \notin again /\ Unheard(runs[d])

ListsOK(a, b, on, runs, again) ==
  /\ ListKnows(a, on, runs, again) /\ ListKnows(b, on, runs, again)
  /\ Apart(a, b, again) /\ Unasked(a, b, runs, again)

(* The values a device took of a setting. *)
Took == {{}} \union {{v} : v \in Nat}

TakenTyped(t) ==
  /\ t = [on |-> t.on, hid |-> t.hid, audio |-> t.audio, runs |-> t.runs, again |-> t.again,
          doubt |-> t.doubt]
  /\ t.on \subseteq Plugged /\ t.again \subseteq Plugged
  /\ t.hid \in Seq(HidEntry) /\ t.audio \in Seq(AudioEntry)
  /\ t.runs \in [Plugged -> [Setting -> Took]] /\ t.doubt \in [Plugged -> SUBSET Setting]

KnownOK(t) == ListsOK(t.hid, t.audio, t.on, MayRun(t), t.again)

ProbeInv == TakenTyped(taken) /\ KnownOK(taken)

LEMMA TookIs == Nat \notin Took /\ {} \in Took /\ \A v \in Nat : {v} \in Took
<1>1. 0 \in Nat /\ 1 \in Nat /\ \A v : {v} # Nat
  OBVIOUS
<1> QED BY <1>1 DEF Took

LEMMA ListsAlike ==
  ASSUME NEW a, NEW b, NEW on, NEW runs, NEW again, ListsOK(a, b, on, runs, again)
  PROVE  ListsOK(b, a, on, runs, again)
BY DEF ListsOK, Apart, Unasked

LEMMA DefaultsTyped == Defaults \in [Setting -> Nat] /\ HidValues \in [Setting -> Nat]
<1>1. Setting = {"protocol", "idle_rate", "sample_rate", "volume_control", "mute_control"}
  BY DEF Setting, Defaults
<1>2. Defaults \in [Setting -> Nat]
  BY <1>1 DEF Defaults
<1>3. "protocol" \in Setting
  BY <1>1
<1>4. PICK f \in [Setting -> Nat] : f = Defaults
  BY <1>2
<1>5. [f EXCEPT !["protocol"] = 1] \in [Setting -> Nat]
  BY <1>3
<1> QED BY <1>2, <1>4, <1>5 DEF HidValues

LEMMA ProbeStarts == ProbeInit => ProbeInv
<1> SUFFICES ASSUME ProbeInit PROVE ProbeInv
  OBVIOUS
<1>1. PICK r : r = [d \in Plugged |-> NoneRun]
  OBVIOUS
<1>2. NoneRun \in [Setting -> Took]
  BY TookIs DEF NoneRun
<1>3. r \in [Plugged -> [Setting -> Took]]
  BY <1>1, <1>2
<1>a. PICK b : b = [d \in Plugged |-> {}]
  OBVIOUS
<1>4. taken = [on |-> {}, hid |-> <<>>, audio |-> <<>>, runs |-> r, again |-> {}, doubt |-> b]
  BY <1>1, <1>a DEF ProbeInit
<1>b. b \in [Plugged -> SUBSET Setting]
  BY <1>a
<1>5. TakenTyped(taken)
  BY <1>3, <1>4, <1>b DEF TakenTyped
<1>6. Len(<<>>) = 0
  OBVIOUS
<1>7. PICK m : m = MayRun(taken)
  OBVIOUS
<1>8. \A d \in Plugged : Unheard(m[d])
  BY <1>1, <1>4, <1>7, <1>a DEF MayRun, May, NoneRun, Unheard
<1>9. ListsOK(<<>>, <<>>, {}, m, {})
  BY <1>6, <1>8 DEF ListsOK, ListKnows, Apart, Unasked
<1> QED BY <1>4, <1>5, <1>7, <1>9 DEF ProbeInv, KnownOK

(* RemoveFirstMatch takes out one entry of the device, if there is one.      *)
Without(a, d) == RemoveFirstMatch(a, LAMBDA entry : entry.of = d)

LEMMA RemovedIs ==
  ASSUME NEW S, NEW a \in Seq(S), NEW d
  PROVE  LET q == Without(a, d) IN
         \/ ~ Has(a, d) /\ q = a
         \/ \E k \in 1 .. Len(a) :
              /\ a[k].of = d /\ q \in Seq(S) /\ Len(q) = Len(a) - 1
              /\ \A i \in 1 .. Len(q) : q[i] = a[IF i < k THEN i ELSE i + 1]
<1>1. PICK q : q = Without(a, d)
  OBVIOUS
<1>2. PICK n \in Nat : n = Len(a)
  OBVIOUS
<1>3. CASE ~ Has(a, d)
  BY <1>1, <1>3 DEF Without, RemoveFirstMatch, Has
<1>4. CASE Has(a, d)
  <2>1. PICK I : I = {i \in 1 .. Len(a) : a[i].of = d}
    OBVIOUS
  <2>2. I # {} /\ I \in SUBSET Nat
    BY <1>4, <2>1 DEF Has
  <2>3. PICK k : k = Min(I)
    OBVIOUS
  <2>4. k \in I
    BY <2>2, <2>3, MinOfNats
  <2>5. q = RemoveAt(a, k)
    BY <1>1, <1>4, <2>1, <2>2, <2>3 DEF Without, RemoveFirstMatch, SelectInSeq, Has
  <2>6. k \in 1 .. n /\ a[k].of = d
    BY <1>2, <2>1, <2>4
  <2>7. /\ q \in Seq(S) /\ Len(q) = n - 1
        /\ \A i \in 1 .. n - 1 : q[i] = a[IF i < k THEN i ELSE i + 1]
    BY <1>2, <2>5, <2>6, RemoveAtIs
  <2> QED BY <1>1, <1>2, <2>6, <2>7
<1> QED BY <1>3, <1>4

(* What that says of the entries: every one that is left was there, two that *)
(* are left were two, and none of another device is gone.                    *)
Remains(q, a, d) ==
  /\ \A i \in 1 .. Len(q) : \E k \in 1 .. Len(a) : q[i] = a[k]
  /\ \A i, j \in 1 .. Len(q) : i # j =>
       \E k, m \in 1 .. Len(a) : k # m /\ q[i] = a[k] /\ q[j] = a[m]
  /\ \A e : e # d /\ Has(a, e) => Has(q, e)
  /\ Has(q, d) => \E k, m \in 1 .. Len(a) : k # m /\ a[k].of = d /\ a[m].of = d

LEMMA RemovedLeaves ==
  ASSUME NEW S, NEW a \in Seq(S), NEW d
  PROVE  Without(a, d) \in Seq(S) /\ Remains(Without(a, d), a, d)
<1>1. PICK q : q = Without(a, d)
  OBVIOUS
<1>2. CASE ~ Has(a, d) /\ q = a
  BY <1>1, <1>2 DEF Remains
<1>3. CASE \E k \in 1 .. Len(a) :
             /\ a[k].of = d /\ q \in Seq(S) /\ Len(q) = Len(a) - 1
             /\ \A i \in 1 .. Len(q) : q[i] = a[IF i < k THEN i ELSE i + 1]
  <2>1. PICK k \in 1 .. Len(a) :
             /\ a[k].of = d /\ q \in Seq(S) /\ Len(q) = Len(a) - 1
             /\ \A i \in 1 .. Len(q) : q[i] = a[IF i < k THEN i ELSE i + 1]
    BY <1>3
  <2>a. PICK n \in Nat : n = Len(a)
    OBVIOUS
  <2>b. PICK f : f = [i \in 1 .. n - 1 |-> IF i < k THEN i ELSE i + 1]
    OBVIOUS
  <2>2. n = Len(a) /\ f = [i \in 1 .. n - 1 |-> IF i < k THEN i ELSE i + 1]
    BY <2>a, <2>b
  <2>3. Len(q) = n - 1 /\ k \in 1 .. n
    BY <2>1, <2>2
  <2>4. /\ \A i \in 1 .. n - 1 : f[i] \in 1 .. n /\ f[i] # k
        /\ \A i, j \in 1 .. n - 1 : i # j => f[i] # f[j]
        /\ \A m \in 1 .. n : m # k => \E i \in 1 .. n - 1 : f[i] = m
    <3>1. \A i \in 1 .. n - 1 : f[i] = IF i < k THEN i ELSE i + 1
      BY <2>2
    <3>2. \A m \in 1 .. n : m # k =>
            \/ m \in 1 .. n - 1 /\ m < k
            \/ m - 1 \in 1 .. n - 1 /\ ~(m - 1 < k) /\ (m - 1) + 1 = m
      BY <2>3
    <3>3. \A m \in 1 .. n : m # k => \E i \in 1 .. n - 1 : f[i] = m
      BY <3>1, <3>2
    <3>4. \A i \in 1 .. n - 1 : f[i] \in 1 .. n /\ f[i] # k
      BY <2>3, <3>1
    <3>5. \A i, j \in 1 .. n - 1 : i # j => f[i] # f[j]
      BY <2>3, <3>1
    <3> QED BY <3>3, <3>4, <3>5
  <2>5. \A i \in 1 .. n - 1 : q[i] = a[f[i]]
    BY <2>1, <2>2, <2>3
  <2>6. \A i \in 1 .. Len(q) : \E m \in 1 .. Len(a) : q[i] = a[m]
    BY <2>2, <2>3, <2>4, <2>5
  <2>7. \A i, j \in 1 .. Len(q) : i # j =>
          \E m, p \in 1 .. Len(a) : m # p /\ q[i] = a[m] /\ q[j] = a[p]
    <3>1. Len(q) = n - 1 /\ Len(a) = n
      BY <2>2, <2>3
    <3>2. ASSUME NEW i \in 1 .. Len(q), NEW j \in 1 .. Len(q), i # j
          PROVE  \E m, p \in 1 .. Len(a) : m # p /\ q[i] = a[m] /\ q[j] = a[p]
      <4>1. i \in 1 .. n - 1 /\ j \in 1 .. n - 1
        BY <3>1
      <4>2. f[i] \in 1 .. Len(a) /\ f[j] \in 1 .. Len(a) /\ f[i] # f[j]
        BY <2>4, <3>1, <3>2, <4>1
      <4>3. q[i] = a[f[i]] /\ q[j] = a[f[j]]
        BY <2>5, <4>1
      <4> QED BY <4>2, <4>3
    <3> QED BY <3>2
  <2>8. ASSUME NEW e, e # d, Has(a, e) PROVE Has(q, e)
    <3>1. PICK m \in 1 .. n : a[m].of = e
      BY <2>2, <2>8 DEF Has
    <3>2. PICK i \in 1 .. n - 1 : f[i] = m
      BY <2>1, <2>4, <2>8, <3>1
    <3> QED BY <2>3, <2>5, <3>1, <3>2 DEF Has
  <2>9. Has(q, d) => \E m, p \in 1 .. Len(a) : m # p /\ a[m].of = d /\ a[p].of = d
    <3>1. SUFFICES ASSUME NEW i \in 1 .. n - 1, q[i].of = d
                   PROVE  \E m, p \in 1 .. n : m # p /\ a[m].of = d /\ a[p].of = d
      BY <2>2, <2>3 DEF Has
    <3>2. f[i] \in 1 .. n /\ f[i] # k /\ q[i] = a[f[i]]
      BY <2>4, <2>5
    <3> QED BY <2>1, <2>3, <3>1, <3>2
  <2>10. \A e : e # d /\ Has(a, e) => Has(q, e)
    BY <2>8
  <2>11. Remains(q, a, d)
    BY <2>6, <2>7, <2>9, <2>10, Zenon DEF Remains
  <2> QED BY <1>1, <2>1, <2>11
<1>4. \/ ~ Has(a, d) /\ q = a
      \/ \E k \in 1 .. Len(a) :
              /\ a[k].of = d /\ q \in Seq(S) /\ Len(q) = Len(a) - 1
              /\ \A i \in 1 .. Len(q) : q[i] = a[IF i < k THEN i ELSE i + 1]
  BY <1>1, RemovedIs
<1> QED BY <1>2, <1>3, <1>4


(* A driver takes a device: its entry is put in front of list a.            *)
LEMMA DeviceTaken ==
  ASSUME NEW S, NEW a \in Seq(S), NEW b, NEW e \in S,
         NEW on, NEW runs, NEW again, ListsOK(a, b, on, runs, again),
         NEW r, NEW g, e.of \in Plugged, e.of \in on,
         \A d \in Plugged : d # e.of => r[d] = runs[d],
         Has(a, e.of) \/ Has(b, e.of) => g = again \union {e.of},
         ~ Has(a, e.of) /\ ~ Has(b, e.of) => g = again,
         Unheard(runs[e.of]) => Agrees(r[e.of], e.set),
         \A i \in 1 .. Len(a) : a[i].of \in Plugged,
         \A i \in 1 .. Len(b) : b[i].of \in Plugged
  PROVE  ListsOK(<<e>> \o a, b, on, r, g)
<1>1. PICK n \in Nat : n = Len(a)
  OBVIOUS
<1>2. PICK q : q = <<e>> \o a
  OBVIOUS
<1>3. /\ Len(q) = n + 1 /\ q[1] = e
      /\ \A i \in 1 .. n : q[i + 1] = a[i]
      /\ \A i \in 1 .. n + 1 : i # 1 => i - 1 \in 1 .. n /\ q[i] = a[i - 1]
  <2>1. <<e>> \in Seq(S) /\ Len(<<e>>) = 1 /\ <<e>>[1] = e
    OBVIOUS
  <2>2. /\ Len(q) = 1 + n
        /\ \A i \in 1 .. 1 + n : q[i] = IF i <= 1 THEN <<e>>[i] ELSE a[i - 1]
    BY <1>1, <1>2, <2>1, ConcatProperties
  <2> QED BY <2>1, <2>2
<1>4. ASSUME NEW d PROVE Has(q, d) <=> d = e.of \/ Has(a, d)
  <2>1. ASSUME NEW i \in 1 .. n, a[i].of = d PROVE Has(q, d)
    <3>1. i + 1 \in 1 .. n + 1 /\ q[i + 1].of = d
      BY <1>3, <2>1
    <3> QED BY <1>3, <3>1 DEF Has
  <2>2. d = e.of => Has(q, d)
    <3>1. 1 \in 1 .. n + 1
      OBVIOUS
    <3> QED BY <1>3, <3>1 DEF Has
  <2>3. Has(q, d) => d = e.of \/ Has(a, d)
    <3>1. SUFFICES ASSUME NEW i \in 1 .. n + 1, q[i].of = d PROVE d = e.of \/ Has(a, d)
      BY <1>3 DEF Has
    <3> QED BY <1>1, <1>3, <3>1 DEF Has
  <2> QED BY <1>1, <2>1, <2>2, <2>3 DEF Has
<1>5. again \subseteq g /\ (Has(a, e.of) \/ Has(b, e.of) => e.of \in g)
  OBVIOUS
<1>6. ASSUME NEW x, x.of \in Plugged, x.of # e.of,
             x.of \in again \/ (x.of \in on /\ Agrees(runs[x.of], x.set))
      PROVE  x.of \in g \/ (x.of \in on /\ Agrees(r[x.of], x.set))
  BY <1>5, <1>6
<1>7. ListKnows(a, on, runs, again) /\ ListKnows(b, on, runs, again)
      /\ Apart(a, b, again) /\ Unasked(a, b, runs, again)
  BY DEF ListsOK
<1>8. ListKnows(b, on, r, g)
  <2>1. ASSUME NEW i \in 1 .. Len(b)
        PROVE  b[i].of \in g \/ (b[i].of \in on /\ Agrees(r[b[i].of], b[i].set))
    <3>1. CASE b[i].of = e.of
      BY <1>5, <3>1 DEF Has
    <3>2. CASE b[i].of # e.of
      BY <1>6, <1>7, <3>2 DEF ListKnows
    <3> QED BY <3>1, <3>2
  <2> QED BY <1>5, <1>7, <2>1 DEF ListKnows
<1>9. ListKnows(q, on, r, g)
  <2>1. ASSUME NEW i \in 1 .. n + 1
        PROVE  q[i].of \in g \/ (q[i].of \in on /\ Agrees(r[q[i].of], q[i].set))
    <3>1. CASE Has(a, e.of) \/ Has(b, e.of)
      <4>1. CASE q[i].of = e.of
        BY <1>5, <3>1, <4>1
      <4>2. CASE q[i].of # e.of
        <5>1. i # 1
          BY <1>3, <4>2
        <5>2. i - 1 \in 1 .. n /\ q[i] = a[i - 1]
          BY <1>3, <5>1
        <5> QED BY <1>1, <1>6, <1>7, <4>2, <5>2 DEF ListKnows
      <4> QED BY <4>1, <4>2
    <3>2. CASE ~ Has(a, e.of) /\ ~ Has(b, e.of)
      <4>1. Unheard(runs[e.of])
        BY <1>7, <3>2 DEF Unasked
      <4>2. CASE i = 1
        BY <1>3, <4>1, <4>2
      <4>3. CASE i # 1
        <5>1. i - 1 \in 1 .. n /\ q[i] = a[i - 1]
          BY <1>3, <4>3
        <5>2. q[i].of # e.of
          BY <1>1, <3>2, <5>1 DEF Has
        <5> QED BY <1>1, <1>6, <1>7, <5>1, <5>2 DEF ListKnows
      <4> QED BY <4>2, <4>3
    <3> QED BY <3>1, <3>2
  <2>2. ASSUME NEW i \in 1 .. n + 1, NEW j \in 1 .. n + 1, i # j, q[i].of = q[j].of
        PROVE  q[i].of \in g
    <3>1. CASE i = 1 \/ j = 1
      <4>1. PICK k \in 1 .. n : a[k].of = e.of
        <5>1. CASE i = 1
          <6>1. j # 1 /\ q[j].of = e.of
            BY <1>3, <2>2, <5>1
          <6>2. j - 1 \in 1 .. n /\ a[j - 1].of = e.of
            BY <1>3, <2>2, <6>1
          <6> QED BY <6>2
        <5>2. CASE j = 1
          <6>1. i # 1 /\ q[i].of = e.of
            BY <1>3, <2>2, <5>2
          <6>2. i - 1 \in 1 .. n /\ a[i - 1].of = e.of
            BY <1>3, <2>2, <6>1
          <6> QED BY <6>2
        <5> QED BY <3>1, <5>1, <5>2
      <4> QED BY <1>1, <1>3, <1>5, <2>2, <3>1, <4>1 DEF Has
    <3>2. CASE i # 1 /\ j # 1
      <4>1. /\ i - 1 \in 1 .. n /\ q[i] = a[i - 1] /\ j - 1 \in 1 .. n /\ q[j] = a[j - 1]
            /\ i - 1 # j - 1
        BY <1>3, <2>2, <3>2
      <4>2. a[i - 1].of \in again
        BY <1>1, <1>7, <2>2, <4>1 DEF ListKnows
      <4> QED BY <1>5, <4>1, <4>2
    <3> QED BY <3>1, <3>2
  <2> QED BY <1>3, <2>1, <2>2 DEF ListKnows
<1>10. Apart(q, b, g)
  <2>1. SUFFICES ASSUME NEW i \in 1 .. n + 1, NEW j \in 1 .. Len(b), q[i].of = b[j].of
                 PROVE  q[i].of \in g
    BY <1>3 DEF Apart
  <2>2. CASE i = 1
    <3>1. Has(b, e.of)
      BY <1>3, <2>1, <2>2 DEF Has
    <3> QED BY <1>3, <1>5, <2>2, <3>1
  <2>3. CASE i # 1
    <3>1. i - 1 \in 1 .. n /\ q[i] = a[i - 1]
      BY <1>3, <2>3
    <3>2. a[i - 1].of \in again
      BY <1>1, <1>7, <2>1, <3>1 DEF Apart
    <3> QED BY <1>5, <3>1, <3>2
  <2> QED BY <2>2, <2>3
<1>11. Unasked(q, b, r, g)
  <2>1. SUFFICES ASSUME NEW d \in Plugged, ~ Has(q, d), ~ Has(b, d)
                 PROVE  d \notin g /\ Unheard(r[d])
    BY DEF Unasked
  <2>2. d # e.of /\ ~ Has(a, d)
    BY <1>4, <2>1
  <2>3. d \notin again /\ Unheard(runs[d])
    BY <1>7, <2>1, <2>2 DEF Unasked
  <2> QED BY <2>2, <2>3
<1> QED BY <1>2, <1>8, <1>9, <1>10, <1>11 DEF ListsOK

(* List q is list a with entry i, of device d, changed, and r is runs with  *)
(* what d runs changed: the two still agree if they did.                    *)
EntrySet(a, q, runs, r, i, d) ==
  /\ i \in 1 .. Len(a) /\ a[i].of = d /\ q[i].of = d
  /\ Len(q) = Len(a) /\ \A j \in 1 .. Len(a) : j # i => q[j] = a[j]
  /\ \A e \in Plugged : e # d => r[e] = runs[e]
  /\ Agrees(runs[d], a[i].set) => Agrees(r[d], q[i].set)

AllPlugged(a) == \A j \in 1 .. Len(a) : a[j].of \in Plugged

(* A request changes what the device runs and what its first entry keeps.   *)
LEMMA DeviceSet ==
  ASSUME NEW a, NEW b, NEW q, NEW on, NEW runs, NEW again, ListsOK(a, b, on, runs, again),
         NEW r, NEW d \in Plugged, NEW i, EntrySet(a, q, runs, r, i, d),
         AllPlugged(a), AllPlugged(b)
  PROVE  ListsOK(q, b, on, r, again)
<1> USE DEF EntrySet, AllPlugged
<1>1. ListKnows(a, on, runs, again) /\ ListKnows(b, on, runs, again)
      /\ Apart(a, b, again) /\ Unasked(a, b, runs, again)
  BY DEF ListsOK
<1>2. \A j \in 1 .. Len(a) : q[j].of = a[j].of
  OBVIOUS
<1>3. \A e : Has(q, e) <=> Has(a, e)
  BY <1>2 DEF Has
<1>4. ListKnows(b, on, r, again)
  <2>1. ASSUME NEW j \in 1 .. Len(b)
        PROVE  b[j].of \in again \/ (b[j].of \in on /\ Agrees(r[b[j].of], b[j].set))
    <3>1. CASE b[j].of = d
      BY <1>1, <3>1 DEF Apart
    <3>2. CASE b[j].of # d
      BY <1>1, <3>2 DEF ListKnows
    <3> QED BY <3>1, <3>2
  <2> QED BY <1>1, <2>1 DEF ListKnows
<1>5. ListKnows(q, on, r, again)
  <2>1. ASSUME NEW j \in 1 .. Len(a)
        PROVE  q[j].of \in again \/ (q[j].of \in on /\ Agrees(r[q[j].of], q[j].set))
    <3>1. CASE j = i
      BY <1>1, <3>1 DEF ListKnows
    <3>2. CASE j # i /\ a[j].of = d
      BY <1>1, <1>2, <3>2 DEF ListKnows
    <3>3. CASE j # i /\ a[j].of # d
      BY <1>1, <3>3 DEF ListKnows
    <3> QED BY <3>1, <3>2, <3>3
  <2> QED BY <1>1, <1>2, <2>1 DEF ListKnows
<1>6. Apart(q, b, again)
  BY <1>1, <1>2 DEF Apart
<1>7. Unasked(q, b, r, again)
  <2>1. Has(a, d)
    BY DEF Has
  <2> QED BY <1>1, <1>3, <2>1 DEF Unasked
<1> QED BY <1>4, <1>5, <1>6, <1>7 DEF ListsOK

(* A device goes: both drivers drop the first of its entries.               *)
LEMMA DeviceGone ==
  ASSUME NEW a, NEW b, NEW p, NEW q, NEW on, NEW runs, NEW again,
         ListsOK(a, b, on, runs, again), NEW d \in Plugged, NEW o, NEW r, NEW g,
         Remains(p, a, d), Remains(q, b, d), o = on \ {d},
         \A e \in Plugged : e # d => r[e] = runs[e], Unheard(r[d]),
         g = {e \in again : e # d \/ Has(p, d) \/ Has(q, d)},
         \A j \in 1 .. Len(a) : a[j].of \in Plugged,
         \A j \in 1 .. Len(b) : b[j].of \in Plugged
  PROVE  ListsOK(p, q, o, r, g)
<1>1. ListKnows(a, on, runs, again) /\ ListKnows(b, on, runs, again)
      /\ Apart(a, b, again) /\ Unasked(a, b, runs, again)
  BY DEF ListsOK
<1>2. Has(p, d) \/ Has(q, d) => d \in g
  <2>1. Has(p, d) \/ Has(q, d) => d \in again
    BY <1>1 DEF Remains, ListKnows
  <2> QED BY <2>1
<1>3. ASSUME NEW u, NEW c, Remains(u, c, d), ListKnows(c, on, runs, again),
             Has(u, d) => d \in g, \A j \in 1 .. Len(c) : c[j].of \in Plugged
      PROVE  ListKnows(u, o, r, g)
  <2>1. ASSUME NEW i \in 1 .. Len(u)
        PROVE  u[i].of \in g \/ (u[i].of \in o /\ Agrees(r[u[i].of], u[i].set))
    <3>1. PICK k \in 1 .. Len(c) : u[i] = c[k]
      BY <1>3 DEF Remains
    <3>2. CASE u[i].of = d
      BY <1>3, <3>2 DEF Has
    <3>3. CASE u[i].of # d
      BY <1>3, <3>1, <3>3 DEF ListKnows
    <3> QED BY <3>2, <3>3
  <2>2. ASSUME NEW i \in 1 .. Len(u), NEW j \in 1 .. Len(u), u[j].of = u[i].of, j # i
        PROVE  u[i].of \in g
    <3>1. PICK k \in 1 .. Len(c), m \in 1 .. Len(c) : k # m /\ u[i] = c[k] /\ u[j] = c[m]
      BY <1>3, <2>2 DEF Remains
    <3>2. u[i].of \in again
      BY <1>3, <2>2, <3>1 DEF ListKnows
    <3>3. u[i].of = d => d \in g
      BY <1>3 DEF Has
    <3> QED BY <3>2, <3>3
  <2> QED BY <2>1, <2>2 DEF ListKnows
<1>4. ListKnows(p, o, r, g) /\ ListKnows(q, o, r, g)
  BY <1>1, <1>2, <1>3
<1>5. Apart(p, q, g)
  <2>1. SUFFICES ASSUME NEW i \in 1 .. Len(p), NEW j \in 1 .. Len(q), p[i].of = q[j].of
                 PROVE  p[i].of \in g
    BY DEF Apart
  <2>2. PICK k \in 1 .. Len(a), m \in 1 .. Len(b) : p[i] = a[k] /\ q[j] = b[m]
    BY DEF Remains
  <2>3. p[i].of \in again
    BY <1>1, <2>1, <2>2 DEF Apart
  <2>4. p[i].of = d => d \in g
    BY <1>2 DEF Has
  <2> QED BY <2>3, <2>4
<1>6. Unasked(p, q, r, g)
  <2>1. SUFFICES ASSUME NEW e \in Plugged, ~ Has(p, e), ~ Has(q, e)
                 PROVE  e \notin g /\ Unheard(r[e])
    BY DEF Unasked
  <2>2. CASE e = d
    BY <2>1, <2>2
  <2>3. CASE e # d
    <3>1. ~ Has(a, e) /\ ~ Has(b, e)
      BY <2>1, <2>3 DEF Remains
    <3> QED BY <1>1, <2>3, <3>1 DEF Unasked
  <2> QED BY <2>2, <2>3
<1> QED BY <1>4, <1>5, <1>6 DEF ListsOK


LEMMA EntriesTyped ==
  ASSUME NEW t, TakenTyped(t)
  PROVE  /\ \A i \in 1 .. Len(t.hid) : t.hid[i] \in HidEntry /\ t.hid[i].of \in Plugged
         /\ \A i \in 1 .. Len(t.audio) :
              t.audio[i] \in AudioEntry /\ t.audio[i].of \in Plugged
<1>1. PICK a \in Seq(HidEntry), b \in Seq(AudioEntry) : a = t.hid /\ b = t.audio
  BY DEF TakenTyped
<1>2. /\ \A i \in 1 .. Len(a) : a[i] \in HidEntry
      /\ \A i \in 1 .. Len(b) : b[i] \in AudioEntry
  OBVIOUS
<1>3. /\ \A e \in HidEntry : e.of \in Plugged
      /\ \A e \in AudioEntry : e.of \in Plugged
  BY DEF HidEntry, AudioEntry, Plugged
<1> QED BY <1>1, <1>2, <1>3

LEMMA HasEither ==
  ASSUME NEW a \in Seq(HidEntry), NEW b \in Seq(AudioEntry), NEW d
  PROVE  HasOf(d, a \o b) <=> Has(a, d) \/ Has(b, d)
<1>1. PICK m \in Nat, n \in Nat : m = Len(a) /\ n = Len(b)
  OBVIOUS
<1>2. PICK q : q = a \o b
  OBVIOUS
<1>3. a \in Seq(HidEntry \union AudioEntry) /\ b \in Seq(HidEntry \union AudioEntry)
  BY SeqMonotonic
<1>4. /\ q \in Seq(HidEntry \union AudioEntry) /\ Len(q) = m + n
      /\ \A i \in 1 .. m + n : q[i] = IF i <= m THEN a[i] ELSE b[i - m]
  BY <1>1, <1>2, <1>3, ConcatProperties
<1>5. DOMAIN q = 1 .. m + n
  BY <1>4, LenProperties
<1>6. ASSUME NEW i \in 1 .. m PROVE i \in 1 .. m + n /\ q[i] = a[i]
  BY <1>4
<1>7. ASSUME NEW i \in 1 .. n PROVE m + i \in 1 .. m + n /\ q[m + i] = b[i]
  <2>1. m + i \in 1 .. m + n /\ ~(m + i <= m) /\ (m + i) - m = i
    OBVIOUS
  <2> QED BY <1>4, <2>1
<1>8. ASSUME NEW i \in 1 .. m + n
      PROVE  \/ i \in 1 .. m /\ q[i] = a[i]
             \/ i - m \in 1 .. n /\ q[i] = b[i - m]
  BY <1>4
<1>9. HasOf(d, q) => Has(a, d) \/ Has(b, d)
  BY <1>1, <1>5, <1>8 DEF HasOf, Has
<1>10. Has(a, d) => HasOf(d, q)
  BY <1>1, <1>5, <1>6 DEF HasOf, Has
<1>11. Has(b, d) => HasOf(d, q)
  BY <1>1, <1>5, <1>7 DEF HasOf, Has
<1> QED BY <1>2, <1>9, <1>10, <1>11

(* What every step starts from. *)
LEMMA TakenParts ==
  ASSUME ProbeInv
  PROVE  /\ taken.hid \in Seq(HidEntry) /\ taken.audio \in Seq(AudioEntry)
         /\ taken.runs \in [Plugged -> [Setting -> Took]]
         /\ taken.doubt \in [Plugged -> SUBSET Setting]
         /\ taken.on \subseteq Plugged /\ taken.again \subseteq Plugged
         /\ ListsOK(taken.hid, taken.audio, taken.on, MayRun(taken), taken.again)
         /\ ListsOK(taken.audio, taken.hid, taken.on, MayRun(taken), taken.again)
         /\ \A i \in 1 .. Len(taken.hid) : taken.hid[i].of \in Plugged
         /\ \A i \in 1 .. Len(taken.audio) : taken.audio[i].of \in Plugged
BY ListsAlike, EntriesTyped DEF ProbeInv, KnownOK, TakenTyped

LEMMA AgainIs ==
  ASSUME ProbeInv, NEW d \in Plugged
  PROVE  /\ Has(taken.hid, d) \/ Has(taken.audio, d) => Again(d) = taken.again \union {d}
         /\ ~ Has(taken.hid, d) /\ ~ Has(taken.audio, d) => Again(d) = taken.again
         /\ Again(d) \subseteq Plugged
BY TakenParts, HasEither DEF Again

(* What is known of the device after the requests of a probe agrees with    *)
(* what the entry keeps, when nothing was known before.                     *)
LEMMA RunsKept ==
  ASSUME ProbeInv, NEW d \in Plugged, NEW values \in [Setting -> Nat],
         NEW A \in SUBSET Setting, NEW c \in Transfers(A),
         NEW v, v.runs = RunsNow(d, values, c.did), v.doubt = InDoubt(d, c)
  PROVE  /\ v.runs \in [Plugged -> [Setting -> Took]]
         /\ v.doubt \in [Plugged -> SUBSET Setting]
         /\ \A e \in Plugged : e # d => MayRun(v)[e] = MayRun(taken)[e]
         /\ Unheard(MayRun(taken)[d]) => Agrees(MayRun(v)[d], Kept(values, c.told))
         /\ Kept(values, c.told) \in [Setting -> Nat]
<1>1. PICK f \in [Plugged -> [Setting -> Took]], b \in [Plugged -> SUBSET Setting] :
        f = taken.runs /\ b = taken.doubt
  BY TakenParts
<1>2. PICK told \in SUBSET A, did \in SUBSET A : told = c.told /\ did = c.did
  BY DEF Transfers
<1>3. PICK x, z : /\ x = [s \in Setting |-> IF s \in did THEN {values[s]} ELSE f[d][s]]
                  /\ z = b[d] \union (told \ did) \union (did \ told)
  OBVIOUS
<1>4. PICK r, w : r = v.runs /\ w = v.doubt
  OBVIOUS
<1>5. r = [f EXCEPT ![d] = x] /\ w = [b EXCEPT ![d] = z]
  BY <1>1, <1>2, <1>3, <1>4 DEF RunsNow, InDoubt
<1>6. x \in [Setting -> Took] /\ z \in SUBSET Setting
  BY <1>1, <1>2, <1>3, TookIs
<1>7. /\ r \in [Plugged -> [Setting -> Took]] /\ r[d] = x
      /\ w \in [Plugged -> SUBSET Setting] /\ w[d] = z
      /\ \A e \in Plugged : e # d => r[e] = f[e] /\ w[e] = b[e]
  BY <1>5, <1>6
<1>8. PICK k : k = Kept(values, told)
  OBVIOUS
<1>9. k = [s \in Setting |-> IF s \in told THEN values[s] ELSE Defaults[s]]
  BY <1>8 DEF Kept
<1>10. k \in [Setting -> Nat]
  BY <1>9, DefaultsTyped
<1>11. /\ \A e \in Plugged : MayRun(v)[e] = May(r[e], w[e])
       /\ \A e \in Plugged : MayRun(taken)[e] = May(f[e], b[e])
  BY <1>1, <1>4 DEF MayRun
<1>12. ASSUME Unheard(May(f[d], b[d])) PROVE Agrees(May(x, z), k)
  <2>1. SUFFICES ASSUME NEW s \in Setting, s \notin z
                 PROVE  x[s] = Nat \/ x[s] = {k[s]} \/ (x[s] = {} /\ k[s] = Defaults[s])
    BY DEF Agrees, May
  <2>2. s \notin b[d] /\ (s \in told <=> s \in did)
    BY <1>3, <2>1
  <2>3. f[d][s] \in {{}, Nat}
    BY <1>12, <2>2 DEF Unheard, May
  <2> QED BY <1>3, <1>9, <2>2, <2>3
<1> QED BY <1>2, <1>4, <1>7, <1>8, <1>10, <1>11, <1>12

LEMMA HidProbed ==
  ASSUME ProbeInv, NEW d \in taken.on, HidProbe(d)
  PROVE  ProbeInv'
<1>1. PICK t, v : t = taken /\ v = taken'
  OBVIOUS
<1>a. PICK A : A = {"protocol", "idle_rate"}
  OBVIOUS
<1>2. PICK c \in Transfers(A) : v = [t EXCEPT
         !.hid = <<[of |-> d, type |-> TypeFound,
                    set |-> Kept(HidValues, c.told)]>> \o @,
         !.runs = RunsNow(d, HidValues, c.did), !.doubt = InDoubt(d, c), !.again = Again(d)]
  BY <1>1, <1>a DEF HidProbe
<1>3. PICK e : e = [of |-> d, type |-> TypeFound, set |-> Kept(HidValues, c.told)]
  OBVIOUS
<1>4. PICK q, r, b, g : /\ q = <<e>> \o t.hid /\ r = RunsNow(d, HidValues, c.did)
                        /\ b = InDoubt(d, c) /\ g = Again(d)
  OBVIOUS
<1>5. v = [t EXCEPT !.hid = q, !.runs = r, !.doubt = b, !.again = g]
  BY <1>2, <1>3, <1>4
<1>b. /\ v = [on |-> v.on, hid |-> v.hid, audio |-> v.audio, runs |-> v.runs, again |-> v.again,
              doubt |-> v.doubt]
      /\ v.on = t.on /\ v.hid = q /\ v.audio = t.audio /\ v.runs = r /\ v.doubt = b
      /\ v.again = g
  BY <1>1, <1>5 DEF ProbeInv, TakenTyped
<1>c. PICK m, n : m = MayRun(t) /\ n = MayRun(v)
  OBVIOUS
<1>6. /\ t.hid \in Seq(HidEntry) /\ t.audio \in Seq(AudioEntry) /\ t.on \subseteq Plugged
      /\ ListsOK(t.hid, t.audio, t.on, m, t.again)
      /\ \A i \in 1 .. Len(t.hid) : t.hid[i].of \in Plugged
      /\ \A i \in 1 .. Len(t.audio) : t.audio[i].of \in Plugged
  BY <1>1, <1>c, TakenParts
<1>7. d \in HidDevice /\ d \in Plugged /\ d \in t.on
  BY <1>1, <1>6 DEF HidProbe
<1>8. /\ r \in [Plugged -> [Setting -> Took]] /\ b \in [Plugged -> SUBSET Setting]
      /\ \A k \in Plugged : k # d => n[k] = m[k]
      /\ Unheard(m[d]) => Agrees(n[d], Kept(HidValues, c.told))
      /\ Kept(HidValues, c.told) \in [Setting -> Nat]
  <2>1. A \in SUBSET Setting
    BY <1>a DEF Setting, Defaults
  <2>2. v.runs = RunsNow(d, HidValues, c.did) /\ v.doubt = InDoubt(d, c)
    BY <1>4, <1>b
  <2> QED BY <1>1, <1>7, <1>b, <1>c, <2>1, <2>2, RunsKept, DefaultsTyped
<1>9. /\ Has(t.hid, d) \/ Has(t.audio, d) => g = t.again \union {d}
      /\ ~ Has(t.hid, d) /\ ~ Has(t.audio, d) => g = t.again
      /\ g \subseteq Plugged
  BY <1>1, <1>4, <1>7, AgainIs
<1>10. e \in HidEntry /\ e.of = d /\ e.set = Kept(HidValues, c.told)
  <2>1. TypeFound \in {"keyboard", "mouse", "other"}
    BY DEF TypeFound, HidType
  <2> QED BY <1>3, <1>7, <1>8, <2>1 DEF HidEntry
<1>11. q \in Seq(HidEntry)
  BY <1>4, <1>6, <1>10, ConcatProperties
<1>12. ListsOK(q, t.audio, t.on, n, g)
  <2>1. /\ e.of \in Plugged /\ e.of \in t.on
        /\ \A k \in Plugged : k # e.of => n[k] = m[k]
        /\ Unheard(m[e.of]) => Agrees(n[e.of], e.set)
    BY <1>7, <1>8, <1>10
  <2>2. /\ Has(t.hid, e.of) \/ Has(t.audio, e.of) => g = t.again \union {e.of}
        /\ ~ Has(t.hid, e.of) /\ ~ Has(t.audio, e.of) => g = t.again
    BY <1>9, <1>10
  <2>3. t.hid \in Seq(HidEntry) /\ e \in HidEntry
    BY <1>6, <1>10
  <2>4. ListsOK(<<e>> \o t.hid, t.audio, t.on, n, g)
    BY <1>6, <2>1, <2>2, <2>3, DeviceTaken
  <2> QED BY <1>4, <2>4
<1> QED BY <1>1, <1>6, <1>8, <1>9, <1>11, <1>12, <1>b, <1>c
        DEF ProbeInv, KnownOK, TakenTyped

LEMMA AudioProbed ==
  ASSUME ProbeInv, NEW d \in taken.on, AudioProbe(d)
  PROVE  ProbeInv'
<1>1. PICK t, v : t = taken /\ v = taken'
  OBVIOUS
<1>a. PICK A : A = {"sample_rate", "volume_control", "mute_control"}
  OBVIOUS
<1>2. PICK c \in Transfers(A) : v = [t EXCEPT
         !.audio = <<[of |-> d, set |-> Kept(Defaults, c.told)]>> \o @,
         !.runs = RunsNow(d, Defaults, c.did), !.doubt = InDoubt(d, c), !.again = Again(d)]
  BY <1>1, <1>a DEF AudioProbe
<1>3. PICK e : e = [of |-> d, set |-> Kept(Defaults, c.told)]
  OBVIOUS
<1>4. PICK q, r, b, g : /\ q = <<e>> \o t.audio /\ r = RunsNow(d, Defaults, c.did)
                        /\ b = InDoubt(d, c) /\ g = Again(d)
  OBVIOUS
<1>5. v = [t EXCEPT !.audio = q, !.runs = r, !.doubt = b, !.again = g]
  BY <1>2, <1>3, <1>4
<1>b. /\ v = [on |-> v.on, hid |-> v.hid, audio |-> v.audio, runs |-> v.runs, again |-> v.again,
              doubt |-> v.doubt]
      /\ v.on = t.on /\ v.hid = t.hid /\ v.audio = q /\ v.runs = r /\ v.doubt = b
      /\ v.again = g
  BY <1>1, <1>5 DEF ProbeInv, TakenTyped
<1>c. PICK m, n : m = MayRun(t) /\ n = MayRun(v)
  OBVIOUS
<1>6. /\ t.hid \in Seq(HidEntry) /\ t.audio \in Seq(AudioEntry) /\ t.on \subseteq Plugged
      /\ ListsOK(t.audio, t.hid, t.on, m, t.again)
      /\ \A i \in 1 .. Len(t.hid) : t.hid[i].of \in Plugged
      /\ \A i \in 1 .. Len(t.audio) : t.audio[i].of \in Plugged
  BY <1>1, <1>c, TakenParts
<1>7. d \in AudioDevice /\ d \in Plugged /\ d \in t.on
  BY <1>1, <1>6 DEF AudioProbe
<1>8. /\ r \in [Plugged -> [Setting -> Took]] /\ b \in [Plugged -> SUBSET Setting]
      /\ \A k \in Plugged : k # d => n[k] = m[k]
      /\ Unheard(m[d]) => Agrees(n[d], Kept(Defaults, c.told))
      /\ Kept(Defaults, c.told) \in [Setting -> Nat]
  <2>1. A \in SUBSET Setting
    BY <1>a DEF Setting, Defaults
  <2>2. v.runs = RunsNow(d, Defaults, c.did) /\ v.doubt = InDoubt(d, c)
    BY <1>4, <1>b
  <2> QED BY <1>1, <1>7, <1>b, <1>c, <2>1, <2>2, RunsKept, DefaultsTyped
<1>9. /\ Has(t.hid, d) \/ Has(t.audio, d) => g = t.again \union {d}
      /\ ~ Has(t.hid, d) /\ ~ Has(t.audio, d) => g = t.again
      /\ g \subseteq Plugged
  BY <1>1, <1>4, <1>7, AgainIs
<1>10. e \in AudioEntry /\ e.of = d /\ e.set = Kept(Defaults, c.told)
  BY <1>3, <1>7, <1>8 DEF AudioEntry
<1>11. q \in Seq(AudioEntry)
  BY <1>4, <1>6, <1>10, ConcatProperties
<1>12. ListsOK(q, t.hid, t.on, n, g)
  <2>1. /\ e.of \in Plugged /\ e.of \in t.on
        /\ \A k \in Plugged : k # e.of => n[k] = m[k]
        /\ Unheard(m[e.of]) => Agrees(n[e.of], e.set)
    BY <1>7, <1>8, <1>10
  <2>2. /\ Has(t.audio, e.of) \/ Has(t.hid, e.of) => g = t.again \union {e.of}
        /\ ~ Has(t.audio, e.of) /\ ~ Has(t.hid, e.of) => g = t.again
    BY <1>9, <1>10
  <2>3. t.audio \in Seq(AudioEntry) /\ e \in AudioEntry
    BY <1>6, <1>10
  <2>4. ListsOK(<<e>> \o t.audio, t.hid, t.on, n, g)
    BY <1>6, <2>1, <2>2, <2>3, DeviceTaken
  <2> QED BY <1>4, <2>4
<1>13. ListsOK(t.hid, q, t.on, n, g)
  BY <1>12, ListsAlike
<1> QED BY <1>1, <1>6, <1>8, <1>9, <1>11, <1>13, <1>b, <1>c
        DEF ProbeInv, KnownOK, TakenTyped

LEMMA DeviceAdded ==
  ASSUME ProbeInv, NEW d \in Plugged, UsbHostAddDevice(d)
  PROVE  ProbeInv'
<1>1. PICK t, v, o : t = taken /\ v = taken' /\ o = t.on \union {d}
  OBVIOUS
<1>2. v = [t EXCEPT !.on = o]
  BY <1>1 DEF UsbHostAddDevice
<1>3. /\ v = [on |-> v.on, hid |-> v.hid, audio |-> v.audio, runs |-> v.runs, again |-> v.again,
              doubt |-> v.doubt]
      /\ v.on = o /\ v.audio = t.audio /\ v.hid = t.hid /\ v.runs = t.runs
      /\ v.again = t.again /\ v.doubt = t.doubt
  BY <1>1, <1>2 DEF ProbeInv, TakenTyped
<1>4. TakenTyped(v)
  BY <1>1, <1>3 DEF ProbeInv, TakenTyped
<1>5. KnownOK(v)
  <2>1. PICK m : m = MayRun(t)
    OBVIOUS
  <2>2. m = MayRun(v)
    BY <1>3, <2>1 DEF MayRun
  <2>3. ListsOK(t.hid, t.audio, t.on, m, t.again)
    BY <1>1, <2>1 DEF ProbeInv, KnownOK
  <2>4. ListsOK(t.hid, t.audio, o, m, t.again)
    BY <1>1, <2>3 DEF ListsOK, ListKnows
  <2> QED BY <1>3, <2>2, <2>4 DEF KnownOK
<1> QED BY <1>1, <1>4, <1>5 DEF ProbeInv

LEMMA DeviceRemoved ==
  ASSUME ProbeInv, NEW d \in Plugged, UsbDeviceRemoveNotify(d)
  PROVE  ProbeInv'
<1>1. PICK t, v : t = taken /\ v = taken'
  OBVIOUS
<1>2. PICK p, q : p = Without(t.hid, d) /\ q = Without(t.audio, d)
  OBVIOUS
<1>3. PICK o, r, g : /\ o = t.on \ {d} /\ r = [t.runs EXCEPT ![d] = NoneRun]
                     /\ g = StillAgain(d)
  OBVIOUS
<1>4. HidRemoved(d) = p /\ AudioRemoved(d) = q
  BY <1>1, <1>2 DEF HidRemoved, AudioRemoved, Without
<1>5. v = [t EXCEPT !.on = o, !.hid = p, !.audio = q, !.runs = r, !.again = g]
  BY <1>1, <1>3, <1>4 DEF UsbDeviceRemoveNotify
<1>6. /\ t.hid \in Seq(HidEntry) /\ t.audio \in Seq(AudioEntry) /\ t.on \subseteq Plugged
      /\ t.again \subseteq Plugged /\ t.runs \in [Plugged -> [Setting -> Took]]
      /\ t.doubt \in [Plugged -> SUBSET Setting]
      /\ ListsOK(t.hid, t.audio, t.on, MayRun(t), t.again)
      /\ \A i \in 1 .. Len(t.hid) : t.hid[i].of \in Plugged
      /\ \A i \in 1 .. Len(t.audio) : t.audio[i].of \in Plugged
  BY <1>1, TakenParts
<1>7. /\ p \in Seq(HidEntry) /\ Remains(p, t.hid, d)
      /\ q \in Seq(AudioEntry) /\ Remains(q, t.audio, d)
  BY <1>2, <1>6, RemovedLeaves
<1>8. g = {e \in t.again : e # d \/ Has(p, d) \/ Has(q, d)}
  BY <1>1, <1>3, <1>4, <1>7, HasEither DEF StillAgain
<1>9. /\ r \in [Plugged -> [Setting -> Took]] /\ r[d] = NoneRun
      /\ \A e \in Plugged : e # d => r[e] = t.runs[e]
  <2>1. NoneRun \in [Setting -> Took]
    BY TookIs DEF NoneRun
  <2> QED BY <1>3, <1>6, <2>1
<1>a. /\ v = [on |-> v.on, hid |-> v.hid, audio |-> v.audio, runs |-> v.runs, again |-> v.again,
              doubt |-> v.doubt]
      /\ v.on = o /\ v.hid = p /\ v.audio = q /\ v.runs = r /\ v.again = g
      /\ v.doubt = t.doubt
  BY <1>1, <1>5 DEF ProbeInv, TakenTyped
<1>b. PICK m, n : m = MayRun(t) /\ n = MayRun(v)
  OBVIOUS
<1>c. Unheard(n[d]) /\ \A e \in Plugged : e # d => n[e] = m[e]
  BY <1>9, <1>a, <1>b DEF MayRun, May, Unheard, NoneRun
<1>10. ListsOK(p, q, o, n, g)
  <2>1. PICK a, b, on, runs, again : /\ a = t.hid /\ b = t.audio /\ on = t.on
                                     /\ runs = m /\ again = t.again
    OBVIOUS
  <2>2. ListsOK(a, b, on, runs, again)
    BY <1>6, <1>b, <2>1
  <2>3. \A j \in 1 .. Len(a) : a[j].of \in Plugged
    BY <1>6, <2>1
  <2>4. \A j \in 1 .. Len(b) : b[j].of \in Plugged
    BY <1>6, <2>1
  <2>5. Remains(p, a, d)
    BY <1>7, <2>1
  <2>6. Remains(q, b, d)
    BY <1>7, <2>1
  <2>7. o = on \ {d}
    BY <1>3, <2>1
  <2>8. \A e \in Plugged : e # d => n[e] = runs[e]
    BY <1>c, <2>1
  <2>9. Unheard(n[d])
    BY <1>c
  <2>10. g = {e \in again : e # d \/ Has(p, d) \/ Has(q, d)}
    BY <1>8, <2>1
  <2> QED BY <2>2, <2>3, <2>4, <2>5, <2>6, <2>7, <2>8, <2>9, <2>10, DeviceGone
<1>12. o \subseteq Plugged /\ g \subseteq Plugged
  BY <1>3, <1>6, <1>8
<1> QED BY <1>1, <1>6, <1>7, <1>9, <1>10, <1>12, <1>a, <1>b DEF ProbeInv, KnownOK, TakenTyped


(* A request of one driver, for the entry at place i of its list.           *)
LEMMA AskedOne ==
  ASSUME NEW S, NEW a \in Seq(S), NEW d, NEW i, i = FirstOf(a, d), i # 0
  PROVE  i \in 1 .. Len(a) /\ a[i].of = d
<1>1. PICK I : I = {k \in 1 .. Len(a) : a[k].of = d}
  OBVIOUS
<1>2. i = IF I # {} THEN Min(I) ELSE 0
  BY <1>1 DEF FirstOf, SelectInSeq
<1>3. I \in SUBSET Nat /\ I # {}
  BY <1>1, <1>2
<1>4. i \in I
  BY <1>2, <1>3, MinOfNats
<1> QED BY <1>1, <1>4

(* One request: x is what the device then runs, y what the entry keeps, and *)
(* z what is in doubt.                                                      *)
AskedFor(run, values, D, s, value, c, x, y, z) ==
  /\ x = [run EXCEPT ![s] = IF s \in c.did THEN {value} ELSE @]
  /\ y = [values EXCEPT ![s] = IF s \in c.told THEN value ELSE @]
  /\ z = D \union (c.told \ c.did) \union (c.did \ c.told)

LEMMA SettingSet ==
  ASSUME NEW run \in [Setting -> Took], NEW values \in [Setting -> Nat],
         NEW D \in SUBSET Setting, NEW s \in Setting, NEW value \in Nat,
         NEW c \in Transfers({s}), NEW x, NEW y, NEW z,
         AskedFor(run, values, D, s, value, c, x, y, z)
  PROVE  /\ x \in [Setting -> Took] /\ y \in [Setting -> Nat] /\ z \in SUBSET Setting
         /\ Agrees(May(run, D), values) => Agrees(May(x, z), y)
<1>1. PICK told \in SUBSET {s}, did \in SUBSET {s} : told = c.told /\ did = c.did
  BY DEF Transfers
<1>2. PICK p, q : /\ p = (IF s \in did THEN {value} ELSE run[s])
                  /\ q = (IF s \in told THEN value ELSE values[s])
  OBVIOUS
<1>3. /\ x = [run EXCEPT ![s] = p] /\ y = [values EXCEPT ![s] = q]
      /\ z = D \union (told \ did) \union (did \ told)
  BY <1>1, <1>2 DEF AskedFor
<1>4. p \in Took /\ q \in Nat
  BY <1>2, TookIs
<1>5. x \in [Setting -> Took] /\ y \in [Setting -> Nat] /\ z \in SUBSET Setting
  BY <1>1, <1>3, <1>4
<1>6. ASSUME Agrees(May(run, D), values) PROVE Agrees(May(x, z), y)
  <2>1. SUFFICES ASSUME NEW u \in Setting, u \notin z
                 PROVE  x[u] = Nat \/ x[u] = {y[u]} \/ (x[u] = {} /\ y[u] = Defaults[u])
    BY DEF Agrees, May
  <2>2. u \notin D /\ ((s \in told <=> s \in did) \/ u # s)
    BY <1>3, <2>1
  <2>3. run[u] = Nat \/ run[u] = {values[u]} \/ (run[u] = {} /\ values[u] = Defaults[u])
    BY <1>6, <2>2 DEF Agrees, May
  <2>4. CASE u # s
    BY <1>3, <2>3, <2>4
  <2>5. CASE u = s
    BY <1>2, <1>3, <2>2, <2>3, <2>5
  <2> QED BY <2>4, <2>5
<1> QED BY <1>5, <1>6

LEMMA AskedTyped ==
  /\ Setting = {"protocol", "idle_rate", "sample_rate", "volume_control", "mute_control"}
  /\ \A s \in Setting : Asked[s] \subseteq Nat
BY DEF Setting, Defaults, Asked

LEMMA HidSet ==
  ASSUME ProbeInv, NEW d \in Plugged, NEW s \in Setting, Sent("hid", d, s)
  PROVE  ProbeInv'
<1>1. PICK t, v, a : t = taken /\ v = taken' /\ a = t.hid
  OBVIOUS
<1>2. /\ a \in Seq(HidEntry) /\ t.audio \in Seq(AudioEntry) /\ t.on \subseteq Plugged
      /\ t.runs \in [Plugged -> [Setting -> Took]]
      /\ t.doubt \in [Plugged -> SUBSET Setting]
      /\ ListsOK(a, t.audio, t.on, MayRun(t), t.again)
      /\ \A k \in 1 .. Len(a) : a[k].of \in Plugged
      /\ \A k \in 1 .. Len(t.audio) : t.audio[k].of \in Plugged
  BY <1>1, TakenParts
<1>3. PICK i : i = FirstOf(a, d)
  OBVIOUS
<1>4. i # 0
  BY <1>1, <1>3 DEF Sent
<1>5. i \in 1 .. Len(a) /\ a[i].of = d
  BY <1>2, <1>3, <1>4, AskedOne
<1>6. PICK c \in Transfers({s}), value \in Asked[s] :
        v = [t EXCEPT !["hid"][i].set[s] = IF s \in c.told THEN value ELSE @,
                      !.runs[d][s] = IF s \in c.did THEN {value} ELSE @,
                      !.doubt = InDoubt(d, c)]
  BY <1>1, <1>3 DEF Sent
<1>7. PICK e \in HidEntry : e = a[i]
  BY <1>2, <1>5
<1>8. e = [of |-> d, type |-> e.type, set |-> e.set] /\ e.set \in [Setting -> Nat]
      /\ e.type \in {"keyboard", "mouse", "other"} /\ d \in HidDevice
  BY <1>5, <1>7 DEF HidEntry
<1>9. PICK x, y, z :
        /\ x = [t.runs[d] EXCEPT ![s] = IF s \in c.did THEN {value} ELSE @]
        /\ y = [e.set EXCEPT ![s] = IF s \in c.told THEN value ELSE @]
        /\ z = t.doubt[d] \union (c.told \ c.did) \union (c.did \ c.told)
  OBVIOUS
<1>10. /\ x \in [Setting -> Took] /\ y \in [Setting -> Nat] /\ z \in SUBSET Setting
       /\ Agrees(May(t.runs[d], t.doubt[d]), e.set) => Agrees(May(x, z), y)
  <2>1. AskedFor(t.runs[d], e.set, t.doubt[d], s, value, c, x, y, z)
    BY <1>9 DEF AskedFor
  <2>2. t.runs[d] \in [Setting -> Took] /\ t.doubt[d] \in SUBSET Setting /\ value \in Nat
    BY <1>2, <1>6, AskedTyped
  <2>3. e.set \in [Setting -> Nat]
    BY <1>8
  <2> QED BY <2>1, <2>2, <2>3, SettingSet, Zenon
<1>11. PICK f, q, r, b :
        /\ f = [e EXCEPT !.set = y] /\ q = [a EXCEPT ![i] = f]
        /\ r = [t.runs EXCEPT ![d] = x] /\ b = [t.doubt EXCEPT ![d] = z]
  OBVIOUS
<1>12. f = [of |-> d, type |-> e.type, set |-> y]
  BY <1>8, <1>11
<1>13. f \in HidEntry /\ f.of = d /\ f.set = y
  BY <1>8, <1>10, <1>12 DEF HidEntry
<1>14. /\ q \in Seq(HidEntry) /\ Len(q) = Len(a) /\ q[i] = f
       /\ \A j \in 1 .. Len(a) : j # i => q[j] = a[j]
  BY <1>2, <1>5, <1>11, <1>13, ExceptSeq
<1>15. /\ r \in [Plugged -> [Setting -> Took]] /\ r[d] = x
       /\ b \in [Plugged -> SUBSET Setting] /\ b[d] = z
       /\ \A k \in Plugged : k # d => r[k] = t.runs[k] /\ b[k] = t.doubt[k]
  BY <1>2, <1>10, <1>11
<1>16. v = [t EXCEPT !.hid = q, !.runs = r, !.doubt = b]
  <2>1. PICK u : u = [t EXCEPT !["hid"][i].set[s] = IF s \in c.told THEN value ELSE @]
    OBVIOUS
  <2>a. InDoubt(d, c) = b
    BY <1>1, <1>9, <1>11 DEF InDoubt
  <2>2. v = [u EXCEPT !.runs[d][s] = IF s \in c.did THEN {value} ELSE @, !.doubt = b]
    BY <1>6, <2>1, <2>a
  <2>3. u = [t EXCEPT !.hid[i].set = y]
    BY <1>1, <1>7, <1>9, <2>1
  <2>4. u = [t EXCEPT !.hid[i] = f]
    BY <1>1, <1>7, <1>11, <2>3
  <2>5. u = [t EXCEPT !.hid = q]
    BY <1>1, <1>11, <2>4
  <2>6. u.runs = t.runs /\ u = [on |-> u.on, hid |-> u.hid, audio |-> u.audio,
                                runs |-> u.runs, again |-> u.again, doubt |-> u.doubt]
    BY <1>1, <2>5 DEF ProbeInv, TakenTyped
  <2>7. v = [u EXCEPT !.runs[d] = x, !.doubt = b]
    BY <1>9, <2>2, <2>6
  <2>8. v = [u EXCEPT !.runs = r, !.doubt = b]
    BY <1>11, <2>6, <2>7
  <2> QED BY <2>5, <2>8
<1>17. /\ v = [on |-> v.on, hid |-> v.hid, audio |-> v.audio, runs |-> v.runs, again |-> v.again,
               doubt |-> v.doubt]
       /\ v.on = t.on /\ v.hid = q /\ v.audio = t.audio /\ v.runs = r /\ v.again = t.again
       /\ v.doubt = b
  BY <1>1, <1>16 DEF ProbeInv, TakenTyped
<1>a. PICK m, n : m = MayRun(t) /\ n = MayRun(v)
  OBVIOUS
<1>b. /\ m[d] = May(t.runs[d], t.doubt[d]) /\ n[d] = May(x, z)
      /\ \A k \in Plugged : k # d => n[k] = m[k]
  BY <1>15, <1>17, <1>a DEF MayRun
<1>18. ListsOK(q, t.audio, t.on, n, t.again)
  <2>1. Agrees(m[d], a[i].set) => Agrees(n[d], q[i].set)
    BY <1>7, <1>10, <1>13, <1>14, <1>b
  <2>2. q[i].of = d
    BY <1>13, <1>14
  <2>3. ListsOK(a, t.audio, t.on, m, t.again)
    BY <1>2, <1>a
  <2>4. Len(q) = Len(a) /\ \A j \in 1 .. Len(a) : j # i => q[j] = a[j]
    BY <1>14
  <2>6. /\ \A k \in 1 .. Len(a) : a[k].of \in Plugged
        /\ \A k \in 1 .. Len(t.audio) : t.audio[k].of \in Plugged
    BY <1>2
  <2>7. EntrySet(a, q, m, n, i, d)
    BY <1>5, <1>b, <2>1, <2>2, <2>4 DEF EntrySet
  <2>8. AllPlugged(a) /\ AllPlugged(t.audio)
    BY <2>6 DEF AllPlugged
  <2> QED BY <2>3, <2>7, <2>8, DeviceSet, Zenon
<1>19. t.again \subseteq Plugged
  BY <1>1 DEF ProbeInv, TakenTyped
<1> QED BY <1>1, <1>2, <1>14, <1>15, <1>17, <1>18, <1>19, <1>a
        DEF ProbeInv, KnownOK, TakenTyped

LEMMA AudioSet ==
  ASSUME ProbeInv, NEW d \in Plugged, NEW s \in Setting, Sent("audio", d, s)
  PROVE  ProbeInv'
<1>1. PICK t, v, a : t = taken /\ v = taken' /\ a = t.audio
  OBVIOUS
<1>2. /\ a \in Seq(AudioEntry) /\ t.hid \in Seq(HidEntry) /\ t.on \subseteq Plugged
      /\ t.runs \in [Plugged -> [Setting -> Took]]
      /\ t.doubt \in [Plugged -> SUBSET Setting]
      /\ ListsOK(a, t.hid, t.on, MayRun(t), t.again)
      /\ \A k \in 1 .. Len(a) : a[k].of \in Plugged
      /\ \A k \in 1 .. Len(t.hid) : t.hid[k].of \in Plugged
  BY <1>1, TakenParts
<1>3. PICK i : i = FirstOf(a, d)
  OBVIOUS
<1>4. i # 0
  BY <1>1, <1>3 DEF Sent
<1>5. i \in 1 .. Len(a) /\ a[i].of = d
  BY <1>2, <1>3, <1>4, AskedOne
<1>6. PICK c \in Transfers({s}), value \in Asked[s] :
        v = [t EXCEPT !["audio"][i].set[s] = IF s \in c.told THEN value ELSE @,
                      !.runs[d][s] = IF s \in c.did THEN {value} ELSE @,
                      !.doubt = InDoubt(d, c)]
  BY <1>1, <1>3 DEF Sent
<1>7. PICK e \in AudioEntry : e = a[i]
  BY <1>2, <1>5
<1>8. e = [of |-> d, set |-> e.set] /\ e.set \in [Setting -> Nat] /\ d \in AudioDevice
  BY <1>5, <1>7 DEF AudioEntry
<1>9. PICK x, y, z :
        /\ x = [t.runs[d] EXCEPT ![s] = IF s \in c.did THEN {value} ELSE @]
        /\ y = [e.set EXCEPT ![s] = IF s \in c.told THEN value ELSE @]
        /\ z = t.doubt[d] \union (c.told \ c.did) \union (c.did \ c.told)
  OBVIOUS
<1>10. /\ x \in [Setting -> Took] /\ y \in [Setting -> Nat] /\ z \in SUBSET Setting
       /\ Agrees(May(t.runs[d], t.doubt[d]), e.set) => Agrees(May(x, z), y)
  <2>1. AskedFor(t.runs[d], e.set, t.doubt[d], s, value, c, x, y, z)
    BY <1>9 DEF AskedFor
  <2>2. t.runs[d] \in [Setting -> Took] /\ t.doubt[d] \in SUBSET Setting /\ value \in Nat
    BY <1>2, <1>6, AskedTyped
  <2>3. e.set \in [Setting -> Nat]
    BY <1>8
  <2> QED BY <2>1, <2>2, <2>3, SettingSet, Zenon
<1>11. PICK f, q, r, b :
        /\ f = [e EXCEPT !.set = y] /\ q = [a EXCEPT ![i] = f]
        /\ r = [t.runs EXCEPT ![d] = x] /\ b = [t.doubt EXCEPT ![d] = z]
  OBVIOUS
<1>12. f = [of |-> d, set |-> y]
  BY <1>8, <1>11
<1>13. f \in AudioEntry /\ f.of = d /\ f.set = y
  BY <1>8, <1>10, <1>12 DEF AudioEntry
<1>14. /\ q \in Seq(AudioEntry) /\ Len(q) = Len(a) /\ q[i] = f
       /\ \A j \in 1 .. Len(a) : j # i => q[j] = a[j]
  BY <1>2, <1>5, <1>11, <1>13, ExceptSeq
<1>15. /\ r \in [Plugged -> [Setting -> Took]] /\ r[d] = x
       /\ b \in [Plugged -> SUBSET Setting] /\ b[d] = z
       /\ \A k \in Plugged : k # d => r[k] = t.runs[k] /\ b[k] = t.doubt[k]
  BY <1>2, <1>10, <1>11
<1>16. v = [t EXCEPT !.audio = q, !.runs = r, !.doubt = b]
  <2>1. PICK u : u = [t EXCEPT !["audio"][i].set[s] = IF s \in c.told THEN value ELSE @]
    OBVIOUS
  <2>a. InDoubt(d, c) = b
    BY <1>1, <1>9, <1>11 DEF InDoubt
  <2>2. v = [u EXCEPT !.runs[d][s] = IF s \in c.did THEN {value} ELSE @, !.doubt = b]
    BY <1>6, <2>1, <2>a
  <2>3. u = [t EXCEPT !.audio[i].set = y]
    BY <1>1, <1>7, <1>9, <2>1
  <2>4. u = [t EXCEPT !.audio[i] = f]
    BY <1>1, <1>7, <1>11, <2>3
  <2>5. u = [t EXCEPT !.audio = q]
    BY <1>1, <1>11, <2>4
  <2>6. u.runs = t.runs /\ u = [on |-> u.on, hid |-> u.hid, audio |-> u.audio,
                                runs |-> u.runs, again |-> u.again, doubt |-> u.doubt]
    BY <1>1, <2>5 DEF ProbeInv, TakenTyped
  <2>7. v = [u EXCEPT !.runs[d] = x, !.doubt = b]
    BY <1>9, <2>2, <2>6
  <2>8. v = [u EXCEPT !.runs = r, !.doubt = b]
    BY <1>11, <2>6, <2>7
  <2> QED BY <2>5, <2>8
<1>17. /\ v = [on |-> v.on, hid |-> v.hid, audio |-> v.audio, runs |-> v.runs, again |-> v.again,
               doubt |-> v.doubt]
       /\ v.on = t.on /\ v.hid = t.hid /\ v.audio = q /\ v.runs = r /\ v.again = t.again
       /\ v.doubt = b
  BY <1>1, <1>16 DEF ProbeInv, TakenTyped
<1>a. PICK m, n : m = MayRun(t) /\ n = MayRun(v)
  OBVIOUS
<1>b. /\ m[d] = May(t.runs[d], t.doubt[d]) /\ n[d] = May(x, z)
      /\ \A k \in Plugged : k # d => n[k] = m[k]
  BY <1>15, <1>17, <1>a DEF MayRun
<1>18. ListsOK(q, t.hid, t.on, n, t.again)
  <2>1. Agrees(m[d], a[i].set) => Agrees(n[d], q[i].set)
    BY <1>7, <1>10, <1>13, <1>14, <1>b
  <2>2. q[i].of = d
    BY <1>13, <1>14
  <2>3. ListsOK(a, t.hid, t.on, m, t.again)
    BY <1>2, <1>a
  <2>4. Len(q) = Len(a) /\ \A j \in 1 .. Len(a) : j # i => q[j] = a[j]
    BY <1>14
  <2>6. /\ \A k \in 1 .. Len(a) : a[k].of \in Plugged
        /\ \A k \in 1 .. Len(t.hid) : t.hid[k].of \in Plugged
    BY <1>2
  <2>7. EntrySet(a, q, m, n, i, d)
    BY <1>5, <1>b, <2>1, <2>2, <2>4 DEF EntrySet
  <2>8. AllPlugged(a) /\ AllPlugged(t.hid)
    BY <2>6 DEF AllPlugged
  <2> QED BY <2>3, <2>7, <2>8, DeviceSet, Zenon
<1>19. t.again \subseteq Plugged /\ ListsOK(t.hid, q, t.on, n, t.again)
  BY <1>1, <1>18, ListsAlike DEF ProbeInv, TakenTyped
<1> QED BY <1>1, <1>2, <1>14, <1>15, <1>17, <1>19, <1>a
        DEF ProbeInv, KnownOK, TakenTyped

LEMMA LateTaken ==
  ASSUME ProbeInv, NEW d \in Plugged, TakenLate(d)
  PROVE  ProbeInv'
<1>1. PICK t, v : t = taken /\ v = taken'
  OBVIOUS
<1>2. PICK s, value : s \in t.doubt[d] /\ value \in Asked[s] /\ v = [t EXCEPT !.runs[d][s] = {value}]
  BY <1>1 DEF TakenLate
<1>3. t.runs \in [Plugged -> [Setting -> Took]] /\ t.doubt \in [Plugged -> SUBSET Setting]
  BY <1>1, TakenParts
<1>4. s \in Setting /\ value \in Nat
  BY <1>2, <1>3, AskedTyped
<1>5. PICK x, r : x = [t.runs[d] EXCEPT ![s] = {value}] /\ r = [t.runs EXCEPT ![d] = x]
  OBVIOUS
<1>6. x \in [Setting -> Took] /\ \A u \in Setting : u # s => x[u] = t.runs[d][u]
  BY <1>3, <1>4, <1>5, TookIs
<1>7. /\ r \in [Plugged -> [Setting -> Took]] /\ r[d] = x
      /\ \A k \in Plugged : k # d => r[k] = t.runs[k]
  BY <1>3, <1>5, <1>6
<1>8. v = [t EXCEPT !.runs = r]
  BY <1>1, <1>2, <1>5 DEF ProbeInv, TakenTyped
<1>9. /\ v = [on |-> v.on, hid |-> v.hid, audio |-> v.audio, runs |-> v.runs, again |-> v.again,
              doubt |-> v.doubt]
      /\ v.on = t.on /\ v.audio = t.audio /\ v.hid = t.hid /\ v.runs = r
      /\ v.again = t.again /\ v.doubt = t.doubt
  BY <1>1, <1>8 DEF ProbeInv, TakenTyped
<1>10. MayRun(v) = MayRun(t)
  <2>1. \A k \in Plugged : May(r[k], t.doubt[k]) = May(t.runs[k], t.doubt[k])
    BY <1>2, <1>6, <1>7 DEF May
  <2> QED BY <1>9, <2>1 DEF MayRun
<1>11. TakenTyped(v)
  BY <1>1, <1>7, <1>9 DEF ProbeInv, TakenTyped
<1>12. KnownOK(v)
  BY <1>1, <1>9, <1>10 DEF ProbeInv, KnownOK
<1> QED BY <1>1, <1>11, <1>12 DEF ProbeInv

LEMMA ProbeSteps == ProbeInv /\ ProbeNext => ProbeInv'
<1> SUFFICES ASSUME ProbeInv, ProbeNext PROVE ProbeInv'
  OBVIOUS
<1>1. PICK d \in Plugged :
        \/ UsbHostAddDevice(d) \/ UsbDeviceClassProbe(d) \/ UsbDeviceRemoveNotify(d)
        \/ HidSettings(d) \/ AudioSettings(d) \/ TakenLate(d)
  BY DEF ProbeNext
<1>2. CASE UsbHostAddDevice(d) \/ UsbDeviceRemoveNotify(d)
  BY <1>2, DeviceAdded, DeviceRemoved
<1>3. CASE UsbDeviceClassProbe(d)
  <2>1. d \in taken.on
    BY <1>3 DEF UsbDeviceClassProbe
  <2>2. CASE HidProbe(d) \/ AudioProbe(d)
    BY <2>1, <2>2, HidProbed, AudioProbed
  <2>3. CASE UNCHANGED taken
    BY <2>3 DEF ProbeInv, KnownOK, TakenTyped, MayRun, May, ListsOK, ListKnows, Apart, Unasked,
                Has
  <2> QED BY <1>3, <2>2, <2>3 DEF UsbDeviceClassProbe
<1>5. CASE HidSettings(d)
  <2>1. PICK s \in Setting : Sent("hid", d, s)
    BY AskedTyped, <1>5 DEF HidSettings
  <2> QED BY <2>1, HidSet
<1>6. CASE AudioSettings(d)
  <2>1. PICK s \in Setting : Sent("audio", d, s)
    BY AskedTyped, <1>6 DEF AudioSettings
  <2> QED BY <2>1, AudioSet
<1>7. CASE TakenLate(d)
  BY <1>7, LateTaken
<1> QED BY <1>1, <1>2, <1>3, <1>5, <1>6, <1>7

LEMMA ProbeGives == ProbeInv => SettingsTaken
<1> SUFFICES ASSUME ProbeInv PROVE SettingsTaken
  OBVIOUS
<1>1. PICK a \in Seq(HidEntry), b \in Seq(AudioEntry) : a = taken.hid /\ b = taken.audio
  BY TakenParts
<1>2. DOMAIN a = 1 .. Len(a) /\ DOMAIN b = 1 .. Len(b)
  OBVIOUS
<1>a. PICK m : m = MayRun(taken)
  OBVIOUS
<1>3. ListKnows(a, taken.on, m, taken.again) /\ ListKnows(b, taken.on, m, taken.again)
  BY <1>1, <1>a DEF ProbeInv, KnownOK, ListsOK
<1>b. \A e \in Range(a) \union Range(b) : e.of \in Plugged
  BY <1>1, <1>2, TakenParts DEF Range
<1>4. ASSUME NEW e \in Range(a) \union Range(b)
      PROVE  e.of \in taken.again \/ (e.of \in taken.on /\ Agrees(m[e.of], e.set))
  BY <1>2, <1>3 DEF Range, ListKnows
<1>5. ASSUME NEW e \in Range(a) \union Range(b), Agrees(m[e.of], e.set),
             NEW s \in Setting \ taken.doubt[e.of]
      PROVE  \/ taken.runs[e.of][s] = {e.set[s]}
             \/ taken.runs[e.of][s] = {} /\ e.set[s] = Defaults[s]
  <2>1. taken.runs[e.of][s] \in Took /\ m[e.of][s] = taken.runs[e.of][s]
    BY <1>a, <1>b, <1>5, TakenParts DEF MayRun, May
  <2> QED BY <1>5, <2>1, TookIs DEF Agrees
<1> QED BY <1>1, <1>4, <1>5 DEF SettingsTaken

-----------------------------------------------------------------------------
(***************************************************************************)
(* The speaker and the mixer's buffers.                                    *)
(***************************************************************************)
SoundShape(s) ==
  s = [speaker |-> s.speaker, beep_ticks |-> s.beep_ticks,
       current_melody |-> s.current_melody, note_idx |-> s.note_idx,
       ticks_left |-> s.ticks_left, is_playing |-> s.is_playing,
       initialized |-> s.initialized, channels |-> s.channels, effects |-> s.effects,
       recording |-> s.recording, recording_buffer |-> s.recording_buffer, ui |-> s.ui,
       live |-> s.live]

ChannelShape(ch) ==
  ch = [active |-> ch.active, buffer |-> ch.buffer, size |-> ch.size,
        position |-> ch.position, loop |-> ch.loop]

ChannelsOK(cs) ==
  cs = [c \in 1 .. Channels |-> cs[c]] /\ \A c \in 1 .. Channels : ChannelShape(cs[c])

ToneOK(s) ==
  /\ s.beep_ticks \in Nat /\ s.is_playing \in BOOLEAN
  /\ s.speaker = BeepTone => s.beep_ticks > 0 \/ s.is_playing
  /\ s.speaker \notin {Silent, BeepTone, Mixed} => s.is_playing

(* A buffer is allocated, and nobody else's. *)
OwnedOK(s) ==
  /\ Null \notin s.live
  /\ s.recording_buffer # Null => s.recording_buffer \in s.live
  /\ \A c \in 1 .. Channels : s.channels[c].buffer # Null =>
       /\ s.channels[c].buffer \in s.live
       /\ s.channels[c].buffer # s.recording_buffer
       /\ \A d \in 1 .. Channels : s.channels[d].buffer = s.channels[c].buffer => d = c

SoundOK(s) == SoundShape(s) /\ ChannelsOK(s.channels) /\ ToneOK(s) /\ OwnedOK(s)

SoundInv == SoundOK(sound)

LEMMA SilentOK ==
  ASSUME NEW s, s.beep_ticks \in Nat, s.is_playing = FALSE, s.speaker = Silent
  PROVE  ToneOK(s)
<1>1. s.is_playing \in BOOLEAN
  BY Zenon
<1>2. s.speaker # BeepTone
  BY DEF Silent, BeepTone
<1> QED BY <1>1, <1>2, Zenon DEF ToneOK

LEMMA SoundStarts == SoundInit => SoundInv
<1> SUFFICES ASSUME SoundInit PROVE SoundOK(sound)
  BY DEF SoundInv
<1>1. PICK n : n = NoChannel
  OBVIOUS
<1>2. ChannelShape(n) /\ n.buffer = Null
  BY <1>1 DEF NoChannel, ChannelShape
<1>3. PICK cs : cs = [c \in 1 .. Channels |-> n]
  OBVIOUS
<1>4. ChannelsOK(cs) /\ \A c \in 1 .. Channels : cs[c].buffer = Null
  BY <1>2, <1>3 DEF ChannelsOK
<1>5. /\ SoundShape(sound) /\ sound.channels = cs /\ sound.speaker = Silent
      /\ sound.beep_ticks = 0 /\ sound.is_playing = FALSE /\ sound.live = {}
      /\ sound.recording_buffer = Null
  BY <1>1, <1>3 DEF SoundInit, SoundShape
<1>6. ToneOK(sound)
  <2>1. sound.beep_ticks \in Nat
    BY <1>5
  <2> QED BY <1>5, <2>1, SilentOK
<1>7. OwnedOK(sound)
  BY <1>4, <1>5 DEF OwnedOK
<1> QED BY <1>4, <1>5, <1>6, <1>7 DEF SoundOK

(* What the speaker is changed by, and what does not concern the buffers.  *)
SameBuffers(s, t) ==
  /\ t.live = s.live /\ t.recording_buffer = s.recording_buffer
  /\ \A c \in 1 .. Channels : t.channels[c].buffer = s.channels[c].buffer

SameTone(s, t) ==
  t.speaker = s.speaker /\ t.beep_ticks = s.beep_ticks /\ t.is_playing = s.is_playing

LEMMA BuffersStay ==
  ASSUME NEW s, NEW t, OwnedOK(s), SameBuffers(s, t)
  PROVE  OwnedOK(t)
BY DEF OwnedOK, SameBuffers

LEMMA TonesStay ==
  ASSUME NEW s, NEW t, ToneOK(s), SameTone(s, t)
  PROVE  ToneOK(t)
BY DEF ToneOK, SameTone

LEMMA SpeakerPlays ==
  ASSUME NEW s, NEW f, SoundShape(s)
  PROVE  LET t == PlaySound(s, f) IN
         /\ SoundShape(t) /\ t.channels = s.channels /\ SameBuffers(s, t)
         /\ t.beep_ticks = s.beep_ticks /\ t.is_playing = s.is_playing
         /\ t.note_idx = s.note_idx /\ t.ticks_left = s.ticks_left
         /\ t.current_melody = s.current_melody
         /\ t.speaker = IF f = 0 THEN s.speaker ELSE f
<1>1. PICK t : t = PlaySound(s, f)
  OBVIOUS
<1>2. CASE f = 0
  <2>1. t = s
    BY <1>1, <1>2 DEF PlaySound
  <2> QED BY <1>1, <1>2, <2>1 DEF SameBuffers
<1>3. CASE f # 0
  <2>1. t = [s EXCEPT !.speaker = f]
    BY <1>1, <1>3 DEF PlaySound
  <2>2. /\ SoundShape(t) /\ t.channels = s.channels /\ t.live = s.live
        /\ t.recording_buffer = s.recording_buffer
        /\ t.beep_ticks = s.beep_ticks /\ t.is_playing = s.is_playing
        /\ t.note_idx = s.note_idx /\ t.ticks_left = s.ticks_left
        /\ t.current_melody = s.current_melody /\ t.speaker = f
    BY <2>1 DEF SoundShape
  <2> QED BY <1>1, <1>3, <2>2 DEF SameBuffers
<1> QED BY <1>2, <1>3

LEMMA Hushed ==
  ASSUME NEW s, SoundShape(s)
  PROVE  LET t == Nosound(s) IN
         /\ SoundShape(t) /\ t.channels = s.channels /\ SameBuffers(s, t)
         /\ t.beep_ticks = s.beep_ticks /\ t.is_playing = s.is_playing
         /\ t.speaker = Silent
<1>1. PICK t : t = Nosound(s)
  OBVIOUS
<1>2. t = [s EXCEPT !.speaker = Silent]
  BY <1>1 DEF Nosound
<1>3. /\ SoundShape(t) /\ t.channels = s.channels /\ t.live = s.live
      /\ t.recording_buffer = s.recording_buffer
      /\ t.beep_ticks = s.beep_ticks /\ t.is_playing = s.is_playing
      /\ t.speaker = Silent
  BY <1>2 DEF SoundShape
<1> QED BY <1>1, <1>3 DEF SameBuffers

(* Silence is never wrong, and while a melody plays no tone is. *)
LEMMA HushedOK ==
  ASSUME NEW s, SoundShape(s), ChannelsOK(s.channels), s.beep_ticks \in Nat,
         s.is_playing \in BOOLEAN, OwnedOK(s)
  PROVE  SoundOK(Nosound(s))
<1>1. PICK t : t = Nosound(s)
  OBVIOUS
<1>2. /\ SoundShape(t) /\ t.channels = s.channels /\ SameBuffers(s, t)
      /\ t.beep_ticks = s.beep_ticks /\ t.is_playing = s.is_playing /\ t.speaker = Silent
  BY <1>1, Hushed
<1>3. ToneOK(t)
  BY <1>2 DEF ToneOK, Silent, BeepTone
<1> QED BY <1>1, <1>2, <1>3, BuffersStay DEF SoundOK

LEMMA PlayingOK ==
  ASSUME NEW s, SoundShape(s), ChannelsOK(s.channels), s.beep_ticks \in Nat,
         s.is_playing = TRUE, OwnedOK(s)
  PROVE  SoundOK(s)
BY DEF SoundOK, ToneOK

(* MelodyStopped of a state with nothing wrong but its tone. *)
LEMMA StoppedOK ==
  ASSUME NEW s, SoundShape(s), ChannelsOK(s.channels), s.beep_ticks \in Nat, OwnedOK(s)
  PROVE  SoundOK(MelodyStopped(s))
<1>1. PICK t, u : t = Nosound(s) /\ u = MelodyStopped(s)
  OBVIOUS
<1>2. /\ SoundShape(t) /\ t.channels = s.channels /\ SameBuffers(s, t)
      /\ t.beep_ticks = s.beep_ticks /\ t.is_playing = s.is_playing /\ t.speaker = Silent
  BY <1>1, Hushed
<1>3. u = [t EXCEPT !.is_playing = FALSE, !.current_melody = <<>>]
  BY <1>1 DEF MelodyStopped
<1>4. /\ SoundShape(u) /\ u.channels = t.channels /\ u.live = t.live
      /\ u.recording_buffer = t.recording_buffer
      /\ u.beep_ticks = t.beep_ticks /\ u.is_playing = FALSE /\ u.speaker = Silent
  BY <1>2, <1>3 DEF SoundShape
<1>5. SameBuffers(s, u)
  BY <1>2, <1>4 DEF SameBuffers
<1>6. ToneOK(u)
  BY <1>2, <1>4, SilentOK
<1> QED BY <1>1, <1>2, <1>4, <1>5, <1>6, BuffersStay DEF SoundOK

LEMMA MelodySteps ==
  ASSUME SoundInv, Beep \/ (\E m \in Melody : PlayMelody(m)) \/ StopMelody
  PROVE  SoundInv'
<1>1. PICK s, t : s = sound /\ t = sound'
  OBVIOUS
<1>2. SoundOK(s)
  BY <1>1 DEF SoundInv
<1>3. /\ SoundShape(s) /\ ChannelsOK(s.channels) /\ OwnedOK(s)
      /\ s.beep_ticks \in Nat /\ s.is_playing \in BOOLEAN
  BY <1>2 DEF SoundOK, ToneOK
<1>4. CASE Beep
  <2>1. PICK u : u = PlaySound(s, BeepTone)
    OBVIOUS
  <2>2. /\ SoundShape(u) /\ u.channels = s.channels /\ SameBuffers(s, u)
        /\ u.is_playing = s.is_playing /\ u.speaker = BeepTone
    BY <1>3, <2>1, SpeakerPlays DEF BeepTone
  <2>3. t = [u EXCEPT !.beep_ticks = BeepTicks]
    BY <1>1, <1>4, <2>1 DEF Beep
  <2>4. /\ SoundShape(t) /\ t.channels = u.channels /\ t.live = u.live
        /\ t.recording_buffer = u.recording_buffer
        /\ t.beep_ticks = BeepTicks /\ t.is_playing = u.is_playing /\ t.speaker = u.speaker
    BY <2>2, <2>3 DEF SoundShape
  <2>5. SameBuffers(s, t)
    BY <2>2, <2>4 DEF SameBuffers
  <2>6. ToneOK(t)
    BY <1>3, <2>2, <2>4 DEF ToneOK, BeepTicks, BeepTone
  <2> QED BY <1>1, <1>3, <2>2, <2>4, <2>5, <2>6, BuffersStay DEF SoundInv, SoundOK
<1>5. CASE \E m \in Melody : PlayMelody(m)
  <2>1. PICK m \in Melody : PlayMelody(m)
    BY <1>5
  <2>2. PICK f, n : f = m[1].frequency /\ n = m[1].duration
    OBVIOUS
  <2>3. PICK u : u = PlaySound(s, f)
    OBVIOUS
  <2>4. /\ SoundShape(u) /\ u.channels = s.channels /\ SameBuffers(s, u)
        /\ u.beep_ticks = s.beep_ticks
    BY <1>3, <2>3, SpeakerPlays
  <2>5. t = [u EXCEPT !.current_melody = m, !.note_idx = 1, !.ticks_left = n,
                      !.is_playing = TRUE]
    BY <1>1, <2>1, <2>2, <2>3 DEF PlayMelody
  <2>6. /\ SoundShape(t) /\ t.channels = u.channels /\ t.live = u.live
        /\ t.recording_buffer = u.recording_buffer
        /\ t.beep_ticks = u.beep_ticks /\ t.is_playing = TRUE
    BY <2>4, <2>5 DEF SoundShape
  <2>7. SameBuffers(s, t)
    BY <2>4, <2>6 DEF SameBuffers
  <2>8. ToneOK(t)
    BY <1>3, <2>4, <2>6 DEF ToneOK
  <2> QED BY <1>1, <1>3, <2>4, <2>6, <2>7, <2>8, BuffersStay DEF SoundInv, SoundOK
<1>6. CASE StopMelody
  BY <1>1, <1>3, <1>6, StoppedOK DEF StopMelody, SoundInv
<1> QED BY <1>4, <1>5, <1>6


LEMMA TimerSteps ==
  ASSUME SoundInv, HandleBeepTimer
  PROVE  SoundInv'
<1>1. PICK s, t : s = sound /\ t = sound'
  OBVIOUS
<1>2. SoundOK(s)
  BY <1>1 DEF SoundInv
<1>3. /\ SoundShape(s) /\ ChannelsOK(s.channels) /\ OwnedOK(s)
      /\ s.beep_ticks \in Nat /\ s.is_playing \in BOOLEAN
  BY <1>2 DEF SoundOK, ToneOK
<1>4. CASE s.beep_ticks > 0
  <2>1. PICK n \in Nat : n = s.beep_ticks - 1
    BY <1>3, <1>4
  <2>2. PICK u : u = [s EXCEPT !.beep_ticks = n]
    OBVIOUS
  <2>3. t = IF u.beep_ticks = 0 THEN BeepEnded(u) ELSE u
    BY <1>1, <1>4, <2>1, <2>2 DEF HandleBeepTimer
  <2>4. /\ SoundShape(u) /\ u.channels = s.channels /\ u.live = s.live
        /\ u.recording_buffer = s.recording_buffer
        /\ u.beep_ticks = n /\ u.is_playing = s.is_playing /\ u.speaker = s.speaker
    BY <1>3, <2>2 DEF SoundShape
  <2>5. SameBuffers(s, u)
    BY <2>4 DEF SameBuffers
  <2>6. OwnedOK(u) /\ u.is_playing \in BOOLEAN
    BY <1>3, <2>4, <2>5, BuffersStay
  <2>7. CASE u.beep_ticks # 0
    <3>1. ToneOK(u)
      BY <1>2, <1>4, <2>4, <2>6, <2>7 DEF SoundOK, ToneOK
    <3> QED BY <1>1, <1>3, <2>3, <2>4, <2>6, <2>7, <3>1 DEF SoundInv, SoundOK
  <2>8. CASE u.beep_ticks = 0 /\ ~ u.is_playing
    <3>1. t = Nosound(u)
      BY <2>3, <2>8 DEF BeepEnded
    <3> QED BY <1>1, <1>3, <2>4, <2>6, <3>1, HushedOK DEF SoundInv
  <2>9. CASE u.beep_ticks = 0 /\ u.is_playing = TRUE
    <3>1. t = u \/ \E f : t = PlaySound(u, f)
      BY <2>3, <2>9 DEF BeepEnded
    <3>2. CASE t = u
      BY <1>1, <1>3, <2>4, <2>6, <2>9, <3>2, PlayingOK DEF SoundInv
    <3>3. CASE \E f : t = PlaySound(u, f)
      <4>1. PICK f : t = PlaySound(u, f)
        BY <3>3
      <4>2. /\ SoundShape(t) /\ t.channels = u.channels /\ SameBuffers(u, t)
            /\ t.beep_ticks = u.beep_ticks /\ t.is_playing = u.is_playing
        BY <2>4, <4>1, SpeakerPlays
      <4> QED BY <1>1, <1>3, <2>4, <2>6, <2>9, <4>2, BuffersStay, PlayingOK DEF SoundInv
    <3> QED BY <3>1, <3>2, <3>3
  <2> QED BY <2>6, <2>7, <2>8, <2>9
<1>5. CASE s.beep_ticks = 0
  <2>1. s.is_playing = TRUE
    BY <1>1, <1>3, <1>5 DEF HandleBeepTimer
  <2>2. CASE \E n : t = [s EXCEPT !.ticks_left = n]
    <3>1. PICK n : t = [s EXCEPT !.ticks_left = n]
      BY <2>2
    <3>2. /\ SoundShape(t) /\ t.channels = s.channels /\ t.live = s.live
          /\ t.recording_buffer = s.recording_buffer
          /\ t.beep_ticks = s.beep_ticks /\ t.is_playing = s.is_playing
      BY <1>3, <3>1 DEF SoundShape
    <3>3. SameBuffers(s, t)
      BY <3>2 DEF SameBuffers
    <3> QED BY <1>1, <1>3, <2>1, <3>2, <3>3, BuffersStay, PlayingOK DEF SoundInv
  <2>3. CASE \E n : t = NextNote([s EXCEPT !.note_idx = n])
    <3>1. PICK n : t = NextNote([s EXCEPT !.note_idx = n])
      BY <2>3
    <3>2. PICK u : u = [s EXCEPT !.note_idx = n]
      OBVIOUS
    <3>3. /\ SoundShape(u) /\ u.channels = s.channels /\ u.live = s.live
          /\ u.recording_buffer = s.recording_buffer
          /\ u.beep_ticks = s.beep_ticks /\ u.is_playing = s.is_playing
      BY <1>3, <3>2 DEF SoundShape
    <3>4. SameBuffers(s, u)
      BY <3>3 DEF SameBuffers
    <3>5. OwnedOK(u) /\ ChannelsOK(u.channels) /\ u.beep_ticks \in Nat
      BY <1>3, <3>3, <3>4, BuffersStay
    <3>6. CASE ~ NoteIn(u)
      <4>1. t = MelodyStopped(u)
        BY <3>1, <3>2, <3>6 DEF NextNote
      <4> QED BY <1>1, <3>3, <3>5, <4>1, StoppedOK DEF SoundInv
    <3>7. CASE NoteIn(u)
      <4>1. PICK note : note = u.current_melody[u.note_idx]
        OBVIOUS
      <4>2. PICK v : v = IF note.frequency = 0 THEN Nosound(u)
                                               ELSE PlaySound(u, note.frequency)
        OBVIOUS
      <4>3. t = [v EXCEPT !.ticks_left = note.duration]
        BY <3>1, <3>2, <3>7, <4>1, <4>2 DEF NextNote
      <4>4. /\ SoundShape(v) /\ v.channels = u.channels /\ SameBuffers(u, v)
            /\ v.beep_ticks = u.beep_ticks /\ v.is_playing = u.is_playing
        BY <3>3, <4>2, Hushed, SpeakerPlays
      <4>5. /\ SoundShape(t) /\ t.channels = v.channels /\ t.live = v.live
            /\ t.recording_buffer = v.recording_buffer
            /\ t.beep_ticks = v.beep_ticks /\ t.is_playing = v.is_playing
        BY <4>3, <4>4 DEF SoundShape
      <4>6. SameBuffers(u, t)
        BY <4>4, <4>5 DEF SameBuffers
      <4> QED BY <1>1, <2>1, <3>3, <3>5, <4>4, <4>5, <4>6, BuffersStay, PlayingOK
              DEF SoundInv
    <3> QED BY <3>6, <3>7
  <2>4. t = IF s.ticks_left > 0 THEN [s EXCEPT !.ticks_left = s.ticks_left - 1]
            ELSE NextNote([s EXCEPT !.note_idx = s.note_idx + 1])
    BY <1>1, <1>5 DEF HandleBeepTimer
  <2>5. CASE s.ticks_left > 0
    BY <2>2, <2>4, <2>5, Zenon
  <2>6. CASE ~(s.ticks_left > 0)
    BY <2>3, <2>4, <2>6, Zenon
  <2> QED BY <2>5, <2>6
<1> QED BY <1>3, <1>4, <1>5


(***************************************************************************)
(* The buffers.                                                            *)
(***************************************************************************)
LEMMA ChannelsSet ==
  ASSUME NEW s, NEW cs, SoundShape(s), ChannelsOK(cs)
  PROVE  LET t == [s EXCEPT !.channels = cs] IN
         /\ SoundShape(t) /\ ChannelsOK(t.channels) /\ t.channels = cs
         /\ SameTone(s, t) /\ t.live = s.live /\ t.recording_buffer = s.recording_buffer
<1>1. PICK t : t = [s EXCEPT !.channels = cs]
  OBVIOUS
<1>2. /\ SoundShape(t) /\ t.channels = cs /\ t.live = s.live
      /\ t.speaker = s.speaker /\ t.beep_ticks = s.beep_ticks /\ t.is_playing = s.is_playing
      /\ t.recording_buffer = s.recording_buffer
  BY <1>1 DEF SoundShape
<1> QED BY <1>1, <1>2 DEF SameTone

LEMMA ChannelPut ==
  ASSUME NEW s, NEW c \in 1 .. Channels, NEW x,
         SoundShape(s), ChannelsOK(s.channels), ChannelShape(x)
  PROVE  LET t == [s EXCEPT !.channels[c] = x] IN
         /\ SoundShape(t) /\ ChannelsOK(t.channels) /\ t.channels[c] = x
         /\ \A d \in 1 .. Channels : d # c => t.channels[d] = s.channels[d]
         /\ SameTone(s, t) /\ t.live = s.live /\ t.recording_buffer = s.recording_buffer
<1>1. PICK cs, t : cs = [s.channels EXCEPT ![c] = x] /\ t = [s EXCEPT !.channels[c] = x]
  OBVIOUS
<1>2. t = [s EXCEPT !.channels = cs]
  BY <1>1
<1>3. /\ cs = [d \in 1 .. Channels |-> IF d = c THEN x ELSE s.channels[d]]
      /\ cs[c] = x /\ \A d \in 1 .. Channels : d # c => cs[d] = s.channels[d]
  BY <1>1 DEF ChannelsOK
<1>4. ChannelsOK(cs)
  BY <1>3 DEF ChannelsOK
<1> QED BY <1>1, <1>2, <1>3, <1>4, ChannelsSet

(* A step that leaves the buffers and the tone alone. *)
LEMMA OtherFields ==
  ASSUME NEW s, NEW t, SoundOK(s), SoundShape(t), ChannelsOK(t.channels), SameTone(s, t),
         SameBuffers(s, t)
  PROVE  SoundOK(t)
BY BuffersStay, TonesStay DEF SoundOK

LEMMA ChannelChanged ==
  ASSUME NEW s, NEW c \in 1 .. Channels, NEW x, SoundOK(s), ChannelShape(x),
         x.buffer = s.channels[c].buffer
  PROVE  SoundOK([s EXCEPT !.channels[c] = x])
<1>1. PICK t : t = [s EXCEPT !.channels[c] = x]
  OBVIOUS
<1>2. /\ SoundShape(t) /\ ChannelsOK(t.channels) /\ t.channels[c] = x
      /\ \A d \in 1 .. Channels : d # c => t.channels[d] = s.channels[d]
      /\ SameTone(s, t) /\ t.live = s.live /\ t.recording_buffer = s.recording_buffer
  BY <1>1, ChannelPut DEF SoundOK
<1>3. SameBuffers(s, t)
  BY <1>2 DEF SameBuffers
<1> QED BY <1>1, <1>2, <1>3, OtherFields

LEMMA ChannelsChanged ==
  ASSUME NEW s, NEW cs, SoundOK(s), ChannelsOK(cs),
         \A c \in 1 .. Channels : cs[c].buffer = s.channels[c].buffer
  PROVE  SoundOK([s EXCEPT !.channels = cs])
<1>1. PICK t : t = [s EXCEPT !.channels = cs]
  OBVIOUS
<1>2. /\ SoundShape(t) /\ ChannelsOK(t.channels) /\ t.channels = cs
      /\ SameTone(s, t) /\ t.live = s.live /\ t.recording_buffer = s.recording_buffer
  BY <1>1, ChannelsSet DEF SoundOK
<1>3. SameBuffers(s, t)
  BY <1>2 DEF SameBuffers
<1> QED BY <1>1, <1>2, <1>3, OtherFields

(* The other fields, one at a time. *)
LEMMA FieldChanged ==
  ASSUME NEW s, NEW x, SoundOK(s), NEW t,
         \/ t = [s EXCEPT !.initialized = x] \/ t = [s EXCEPT !.effects = x]
         \/ t = [s EXCEPT !.recording = x] \/ t = [s EXCEPT !.ui = x]
  PROVE  SoundOK(t)
<1>1. /\ SoundShape(t) /\ t.channels = s.channels /\ t.live = s.live
      /\ t.speaker = s.speaker /\ t.beep_ticks = s.beep_ticks
      /\ t.is_playing = s.is_playing /\ t.recording_buffer = s.recording_buffer
  BY DEF SoundOK, SoundShape
<1>2. SameTone(s, t) /\ SameBuffers(s, t) /\ ChannelsOK(t.channels)
  BY <1>1 DEF SameTone, SameBuffers, SoundOK
<1> QED BY <1>1, <1>2, OtherFields

LEMMA NewChannel ==
  ChannelShape([NoChannel EXCEPT !.active = TRUE]) /\ ChannelShape(NoChannel)
  /\ [NoChannel EXCEPT !.active = TRUE].buffer = Null /\ NoChannel.buffer = Null
<1>1. ChannelShape(NoChannel) /\ NoChannel.buffer = Null
  BY DEF NoChannel, ChannelShape
<1>2. PICK x : x = [NoChannel EXCEPT !.active = TRUE]
  OBVIOUS
<1>3. ChannelShape(x) /\ x.buffer = Null
  BY <1>1, <1>2 DEF ChannelShape
<1> QED BY <1>1, <1>2, <1>3

(* A free channel, which loses the buffer it had. *)
LEMMA CreatedOK ==
  ASSUME NEW s, SoundOK(s), FreeChannels(s) # {}
  PROVE  SoundOK(Created(s)) /\ First(FreeChannels(s)) \in 1 .. Channels
<1>1. PICK c : c = First(FreeChannels(s))
  OBVIOUS
<1>2. FreeChannels(s) \subseteq Nat
  BY DEF FreeChannels
<1>3. \E k \in FreeChannels(s) : \A d \in FreeChannels(s) : k <= d
  BY <1>2, LeastNat
<1>4. c \in 1 .. Channels
  BY <1>1, <1>3 DEF First, FreeChannels
<1>5. PICK x : x = [NoChannel EXCEPT !.active = TRUE]
  OBVIOUS
<1>6. PICK t : t = [s EXCEPT !.channels[c] = x]
  OBVIOUS
<1>7. t = Created(s)
  BY <1>1, <1>5, <1>6 DEF Created
<1>8. ChannelShape(x) /\ x.buffer = Null
  BY <1>5, NewChannel
<1>9. /\ SoundShape(t) /\ ChannelsOK(t.channels) /\ t.channels[c] = x
      /\ \A d \in 1 .. Channels : d # c => t.channels[d] = s.channels[d]
      /\ SameTone(s, t) /\ t.live = s.live /\ t.recording_buffer = s.recording_buffer
  BY <1>4, <1>6, <1>8, ChannelPut DEF SoundOK
<1>10. OwnedOK(t)
  BY <1>4, <1>8, <1>9 DEF SoundOK, OwnedOK
<1>11. ToneOK(t)
  BY <1>9, TonesStay DEF SoundOK
<1> QED BY <1>1, <1>4, <1>7, <1>9, <1>10, <1>11 DEF SoundOK

LEMMA DestroyedOK ==
  ASSUME NEW s, SoundOK(s), NEW c \in 1 .. Channels
  PROVE  SoundOK(Destroyed(s, c))
<1>1. PICK ch, b, l : ch = s.channels[c] /\ b = ch.buffer /\ l = s.live \ {b}
  OBVIOUS
<1>2. PICK x : x = [ch EXCEPT !.buffer = Null, !.active = FALSE]
  OBVIOUS
<1>3. PICK u : u = [s EXCEPT !.live = l]
  OBVIOUS
<1>4. PICK t : t = [u EXCEPT !.channels[c] = x]
  OBVIOUS
<1>5. ChannelShape(ch)
  BY <1>1 DEF SoundOK, ChannelsOK
<1>6. ChannelShape(x) /\ x.buffer = Null
  BY <1>2, <1>5 DEF ChannelShape
<1>7. /\ SoundShape(u) /\ u.channels = s.channels /\ u.live = l
      /\ u.speaker = s.speaker /\ u.beep_ticks = s.beep_ticks
      /\ u.is_playing = s.is_playing /\ u.recording_buffer = s.recording_buffer
  BY <1>3 DEF SoundOK, SoundShape
<1>8. /\ SoundShape(t) /\ ChannelsOK(t.channels) /\ t.channels[c] = x
      /\ \A d \in 1 .. Channels : d # c => t.channels[d] = s.channels[d]
      /\ SameTone(u, t) /\ t.live = l /\ t.recording_buffer = s.recording_buffer
  BY <1>4, <1>6, <1>7, ChannelPut DEF SoundOK
<1>9. t = Destroyed(s, c)
  <2>1. PICK v : v = [u EXCEPT !.channels[c].buffer = Null]
    OBVIOUS
  <2>2. Destroyed(s, c) = [v EXCEPT !.channels[c].active = FALSE]
    BY <1>1, <1>3, <2>1 DEF Destroyed, Freed
  <2>3. PICK y : y = [ch EXCEPT !.buffer = Null]
    OBVIOUS
  <2>4. ChannelShape(y)
    BY <1>5, <2>3 DEF ChannelShape
  <2>5. v = [u EXCEPT !.channels[c] = y]
    BY <1>1, <1>7, <2>1, <2>3
  <2>6. v.channels[c] = y
    <3>1. SoundShape(u) /\ ChannelsOK(u.channels)
      BY <1>7 DEF SoundOK
    <3>2. SoundShape(v) /\ ChannelsOK(v.channels) /\ v.channels[c] = y
      BY <2>4, <2>5, <3>1, ChannelPut
    <3> QED BY <3>2
  <2>7. Destroyed(s, c) = [v EXCEPT !.channels[c] = x]
    BY <1>2, <2>2, <2>3, <2>6
  <2>8. u.channels = [d \in 1 .. Channels |-> u.channels[d]]
    BY <1>7 DEF SoundOK, ChannelsOK
  <2>9. [v EXCEPT !.channels[c] = x] = t
    BY <1>4, <1>7, <2>5, <2>8 DEF SoundShape
  <2> QED BY <2>7, <2>9
<1>10. OwnedOK(t)
  BY <1>1, <1>6, <1>8 DEF SoundOK, OwnedOK
<1>11. ToneOK(t)
  BY <1>7, <1>8, TonesStay DEF SoundOK, SameTone
<1> QED BY <1>8, <1>9, <1>10, <1>11 DEF SoundOK


(* audio_play_buffer: the old buffer is freed, and a new one is put there,  *)
(* or none where the heap is full.                                          *)
LEMMA PlayedOK ==
  ASSUME NEW s, SoundOK(s), NEW c \in 1 .. Channels, NEW size, NEW t \in Played(s, c, size)
  PROVE  SoundOK(t)
<1>1. PICK ch, old, l : ch = s.channels[c] /\ old = ch.buffer /\ l = s.live \ {old}
  OBVIOUS
<1>2. PICK b \in Allocated(l) :
        t = IF b = Null THEN [s EXCEPT !.live = l, !.channels[c].buffer = Null]
            ELSE [s EXCEPT !.live = l \cup {b},
                           !.channels[c] = [@ EXCEPT !.buffer = b, !.size = size,
                                                     !.position = 0, !.active = TRUE]]
  BY <1>1 DEF Played, Freed
<1>3. PICK m : m = IF b = Null THEN l ELSE l \cup {b}
  OBVIOUS
<1>4. PICK u : u = [s EXCEPT !.live = m]
  OBVIOUS
<1>5. /\ SoundShape(u) /\ u.channels = s.channels /\ u.live = m
      /\ u.speaker = s.speaker /\ u.beep_ticks = s.beep_ticks
      /\ u.is_playing = s.is_playing /\ u.recording_buffer = s.recording_buffer
  BY <1>4 DEF SoundOK, SoundShape
<1>6. ChannelShape(ch) /\ ch = u.channels[c]
  BY <1>1, <1>5 DEF SoundOK, ChannelsOK
<1>7. PICK x : x = IF b = Null THEN [ch EXCEPT !.buffer = Null]
                   ELSE [ch EXCEPT !.buffer = b, !.size = size, !.position = 0,
                                   !.active = TRUE]
  OBVIOUS
<1>8. ChannelShape(x) /\ x.buffer = b
  BY <1>6, <1>7 DEF ChannelShape
<1>9. t = [u EXCEPT !.channels[c] = x]
  <2>1. CASE b = Null
    <3>1. t = [u EXCEPT !.channels[c].buffer = Null]
      BY <1>2, <1>3, <1>4, <2>1
    <3> QED BY <1>6, <1>7, <2>1, <3>1
  <2>2. CASE b # Null
    <3>1. t = [s EXCEPT !.live = m, !.channels[c] =
                 [@ EXCEPT !.buffer = b, !.size = size, !.position = 0, !.active = TRUE]]
      BY <1>2, <1>3, <2>2
    <3>2. x = [ch EXCEPT !.buffer = b, !.size = size, !.position = 0, !.active = TRUE]
      BY <1>7, <2>2
    <3> QED BY <1>1, <1>4, <3>1, <3>2
  <2> QED BY <2>1, <2>2
<1>10. /\ SoundShape(t) /\ ChannelsOK(t.channels) /\ t.channels[c] = x
       /\ \A d \in 1 .. Channels : d # c => t.channels[d] = s.channels[d]
       /\ SameTone(u, t) /\ t.live = m /\ t.recording_buffer = s.recording_buffer
  BY <1>5, <1>8, <1>9, ChannelPut DEF SoundOK
<1>11. b # Null => b \notin l
  BY <1>2 DEF Allocated
<1>12. OwnedOK(t)
  <2>1. OwnedOK(s)
    BY DEF SoundOK
  <2>2. Null \notin m
    BY <1>1, <1>3, <2>1 DEF OwnedOK
  <2>3. ASSUME NEW a, a # Null, a \in s.live, a # old PROVE a \in m /\ a # b
    BY <1>1, <1>3, <1>11, <2>3
  <2>4. t.recording_buffer # Null =>
          t.recording_buffer \in m /\ t.recording_buffer # b
    BY <1>1, <1>10, <2>1, <2>3 DEF OwnedOK
  <2>5. ASSUME NEW d \in 1 .. Channels, d # c, t.channels[d].buffer # Null
        PROVE  /\ t.channels[d].buffer = s.channels[d].buffer
               /\ t.channels[d].buffer \in m /\ t.channels[d].buffer # b
    BY <1>1, <1>10, <2>1, <2>3, <2>5 DEF OwnedOK
  <2>6. b # Null => b \in m
    BY <1>3
  <2>7. ASSUME NEW d \in 1 .. Channels, t.channels[d].buffer # Null
        PROVE  /\ t.channels[d].buffer \in t.live
               /\ t.channels[d].buffer # t.recording_buffer
               /\ \A e \in 1 .. Channels :
                    t.channels[e].buffer = t.channels[d].buffer => e = d
    <3>1. CASE d = c
      BY <1>8, <1>10, <2>4, <2>5, <2>6, <2>7, <3>1
    <3>2. CASE d # c
      <4>1. s.channels[d].buffer # s.recording_buffer
        BY <2>1, <2>5, <2>7, <3>2 DEF OwnedOK
      <4>2. ASSUME NEW e \in 1 .. Channels, t.channels[e].buffer = t.channels[d].buffer
            PROVE  e = d
        <5>1. e # c
          BY <1>8, <1>10, <2>5, <2>7, <3>2, <4>2
        <5> QED BY <1>10, <2>1, <2>5, <2>7, <3>2, <4>2, <5>1 DEF OwnedOK
      <4> QED BY <1>10, <2>5, <2>7, <3>2, <4>1, <4>2
    <3> QED BY <3>1, <3>2
  <2> QED BY <1>10, <2>2, <2>4, <2>7 DEF OwnedOK
<1>13. ToneOK(t)
  BY <1>5, <1>10, TonesStay DEF SoundOK, SameTone
<1> QED BY <1>10, <1>12, <1>13 DEF SoundOK

(* A block that the mixer does not know of. *)
LEMMA LiveGrows ==
  ASSUME NEW s, SoundOK(s), NEW b, b # Null
  PROVE  SoundOK([s EXCEPT !.live = @ \cup {b}])
<1>1. PICK m, t : m = s.live \cup {b} /\ t = [s EXCEPT !.live = m]
  OBVIOUS
<1>2. /\ SoundShape(t) /\ t.channels = s.channels /\ t.live = m
      /\ t.speaker = s.speaker /\ t.beep_ticks = s.beep_ticks
      /\ t.is_playing = s.is_playing /\ t.recording_buffer = s.recording_buffer
  BY <1>1 DEF SoundOK, SoundShape
<1>3. ToneOK(t)
  BY <1>2, TonesStay DEF SoundOK, SameTone
<1>4. OwnedOK(t)
  BY <1>1, <1>2 DEF SoundOK, OwnedOK
<1> QED BY <1>1, <1>2, <1>3, <1>4 DEF SoundOK

LEMMA RecordingOK ==
  ASSUME NEW s, SoundOK(s), NEW t \in StartRecording(s)
  PROVE  SoundOK(t)
<1>1. PICK old, l : old = s.recording_buffer /\ l = s.live \ {old}
  OBVIOUS
<1>2. PICK b \in Allocated(l) :
        t = [s EXCEPT !.recording = TRUE, !.recording_buffer = b,
                      !.live = l \cup ({b} \ {Null})]
  BY <1>1 DEF StartRecording, Freed
<1>3. PICK m : m = l \cup ({b} \ {Null})
  OBVIOUS
<1>4. t = [s EXCEPT !.recording = TRUE, !.recording_buffer = b, !.live = m]
  BY <1>2, <1>3
<1>5. /\ SoundShape(t) /\ t.channels = s.channels /\ t.live = m
      /\ t.speaker = s.speaker /\ t.beep_ticks = s.beep_ticks
      /\ t.is_playing = s.is_playing /\ t.recording_buffer = b
  BY <1>4 DEF SoundOK, SoundShape
<1>6. ToneOK(t)
  BY <1>5, TonesStay DEF SoundOK, SameTone
<1>7. b # Null => b \notin l
  BY <1>2 DEF Allocated
<1>8. OwnedOK(t)
  <2>1. OwnedOK(s)
    BY DEF SoundOK
  <2>2. Null \notin m /\ (b # Null => b \in m)
    BY <1>1, <1>3, <2>1 DEF OwnedOK
  <2>3. ASSUME NEW d \in 1 .. Channels, s.channels[d].buffer # Null
        PROVE  s.channels[d].buffer \in m /\ s.channels[d].buffer # b
    BY <1>1, <1>3, <1>7, <2>1, <2>3 DEF OwnedOK
  <2> QED BY <1>5, <2>1, <2>2, <2>3 DEF OwnedOK
<1> QED BY <1>5, <1>6, <1>8 DEF SoundOK

LEMMA StoppedChannels ==
  ASSUME NEW s, SoundOK(s)
  PROVE  /\ SoundOK(AllStopped(s))
         /\ \A c \in 1 .. Channels : SoundOK(ChannelStopped(s, c))
<1>1. SoundOK(AllStopped(s))
  <2>1. PICK cs : cs = [c \in 1 .. Channels |->
                          [s.channels[c] EXCEPT !.active = FALSE, !.position = 0]]
    OBVIOUS
  <2>2. \A c \in 1 .. Channels : ChannelShape(s.channels[c])
    BY DEF SoundOK, ChannelsOK
  <2>3. \A c \in 1 .. Channels : ChannelShape(cs[c]) /\ cs[c].buffer = s.channels[c].buffer
    <3>1. SUFFICES ASSUME NEW c \in 1 .. Channels
                   PROVE  ChannelShape(cs[c]) /\ cs[c].buffer = s.channels[c].buffer
      OBVIOUS
    <3>2. PICK ch : ch = s.channels[c]
      OBVIOUS
    <3>3. cs[c] = [ch EXCEPT !.active = FALSE, !.position = 0]
      BY <2>1, <3>2
    <3>4. ChannelShape(ch)
      BY <2>2, <3>2
    <3> QED BY <3>2, <3>3, <3>4 DEF ChannelShape
  <2>4. ChannelsOK(cs)
    BY <2>1, <2>3 DEF ChannelsOK
  <2>5. PICK t : t = [s EXCEPT !.channels = cs]
    OBVIOUS
  <2>6. SoundOK(t)
    BY <2>3, <2>4, <2>5, ChannelsChanged
  <2>7. AllStopped(s) = Nosound(t)
    BY <2>1, <2>5 DEF AllStopped
  <2> QED BY <2>6, <2>7, HushedOK DEF SoundOK, ToneOK
<1>2. ASSUME NEW c \in 1 .. Channels
      PROVE  SoundOK(ChannelStopped(s, c))
  <2>1. PICK x, y : /\ x = [s.channels[c] EXCEPT !.active = FALSE]
                    /\ y = [x EXCEPT !.position = 0]
    OBVIOUS
  <2>2. ChannelShape(s.channels[c])
    BY DEF SoundOK, ChannelsOK
  <2>3. ChannelShape(x) /\ x.buffer = s.channels[c].buffer
    BY <2>1, <2>2 DEF ChannelShape
  <2>4. ChannelShape(y) /\ y.buffer = s.channels[c].buffer
    BY <2>1, <2>3 DEF ChannelShape
  <2>5. PICK u : u = [s EXCEPT !.channels[c] = x]
    OBVIOUS
  <2>6. SoundShape(s) /\ ChannelsOK(s.channels)
    BY DEF SoundOK
  <2>7. SoundShape(u) /\ ChannelsOK(u.channels) /\ u.channels[c] = x
    BY <2>3, <2>5, <2>6, ChannelPut
  <2>8. SoundOK(u)
    BY <2>3, <2>5, ChannelChanged
  <2>9. PICK t : t = [u EXCEPT !.channels[c] = y]
    OBVIOUS
  <2>10. SoundOK(t)
    BY <2>3, <2>4, <2>7, <2>8, <2>9, ChannelChanged
  <2>11. t = [s EXCEPT !.channels[c].active = FALSE, !.channels[c].position = 0]
    <3>1. u = [s EXCEPT !.channels[c].active = FALSE]
      BY <2>1, <2>5
    <3>2. t = [u EXCEPT !.channels[c].position = 0]
      BY <2>1, <2>7, <2>9
    <3> QED BY <3>1, <3>2
  <2>12. ChannelStopped(s, c) = IF c = 1 THEN Nosound(t) ELSE t
    BY <2>11 DEF ChannelStopped
  <2> QED BY <2>10, <2>12, HushedOK DEF SoundOK, ToneOK
<1> QED BY <1>1, <1>2

LEMMA Initialised == ASSUME SoundInv, AdvancedInit PROVE SoundInv'
<1>1. PICK s, t : s = sound /\ t = sound'
  OBVIOUS
<1>2. SoundOK(s)
  BY <1>1 DEF SoundInv
<1>3. PICK n, cs : n = NoChannel /\ cs = [c \in 1 .. Channels |-> n]
  OBVIOUS
<1>4. ChannelShape(n) /\ n.buffer = Null
  BY <1>3, NewChannel
<1>5. ChannelsOK(cs) /\ \A c \in 1 .. Channels : cs[c].buffer = Null
  BY <1>3, <1>4 DEF ChannelsOK
<1>6. t = [s EXCEPT !.initialized = TRUE, !.effects = 0, !.channels = cs]
  BY <1>1, <1>3 DEF AdvancedInit
<1>7. /\ SoundShape(t) /\ t.channels = cs /\ t.live = s.live
      /\ t.speaker = s.speaker /\ t.beep_ticks = s.beep_ticks
      /\ t.is_playing = s.is_playing /\ t.recording_buffer = s.recording_buffer
  BY <1>2, <1>6 DEF SoundOK, SoundShape
<1>8. ToneOK(t)
  BY <1>2, <1>7, TonesStay DEF SoundOK, SameTone
<1>9. OwnedOK(t)
  BY <1>2, <1>5, <1>7 DEF SoundOK, OwnedOK
<1> QED BY <1>1, <1>5, <1>7, <1>8, <1>9 DEF SoundInv, SoundOK

LEMMA Updated == ASSUME SoundInv, AudioUpdate PROVE SoundInv'
<1>1. PICK s, t : s = sound /\ t = sound'
  OBVIOUS
<1>2. SoundOK(s)
  BY <1>1 DEF SoundInv
<1>3. \A c \in 1 .. Channels : ChannelShape(s.channels[c])
  BY <1>2 DEF SoundOK, ChannelsOK
<1>4. PICK cs : cs = [c \in 1 .. Channels |-> MixedChannel(s.channels[c])]
  OBVIOUS
<1>5. ASSUME NEW ch, ChannelShape(ch)
      PROVE  ChannelShape(MixedChannel(ch)) /\ MixedChannel(ch).buffer = ch.buffer
  <2>1. \/ MixedChannel(ch) = ch
        \/ \E p : MixedChannel(ch) = [ch EXCEPT !.position = p]
        \/ \E p : MixedChannel(ch) = [ch EXCEPT !.position = p, !.active = FALSE]
    <3>1. CASE ~ ch.active \/ ch.buffer = Null
      <4>1. MixedChannel(ch) = ch
        BY <3>1 DEF MixedChannel
      <4> QED BY <4>1
    <3>2. CASE ~(~ ch.active \/ ch.buffer = Null)
      BY <3>2 DEF MixedChannel
    <3> QED BY <3>1, <3>2
  <2>2. CASE MixedChannel(ch) = ch
    BY <1>5, <2>2
  <2>3. CASE \E p : MixedChannel(ch) = [ch EXCEPT !.position = p]
    BY <1>5, <2>3 DEF ChannelShape
  <2>4. CASE \E p : MixedChannel(ch) = [ch EXCEPT !.position = p, !.active = FALSE]
    BY <1>5, <2>4 DEF ChannelShape
  <2> QED BY <2>1, <2>2, <2>3, <2>4
<1>6. \A c \in 1 .. Channels : ChannelShape(cs[c]) /\ cs[c].buffer = s.channels[c].buffer
  BY <1>3, <1>4, <1>5
<1>7. ChannelsOK(cs)
  BY <1>4, <1>6 DEF ChannelsOK
<1>8. PICK u : u = [s EXCEPT !.channels = cs]
  OBVIOUS
<1>9. SoundOK(u)
  BY <1>2, <1>6, <1>7, <1>8, ChannelsChanged
<1>10. t = PlaySound(u, Mixed) \/ t = Nosound(u)
  BY <1>1, <1>4, <1>8 DEF AudioUpdate
<1>11. CASE t = PlaySound(u, Mixed)
  <2>1. /\ SoundShape(t) /\ t.channels = u.channels /\ SameBuffers(u, t)
        /\ t.beep_ticks = u.beep_ticks /\ t.is_playing = u.is_playing
        /\ t.speaker = Mixed
    BY <1>9, <1>11, SpeakerPlays DEF SoundOK, Mixed
  <2>2. ToneOK(t)
    BY <1>9, <2>1 DEF SoundOK, ToneOK, Mixed, BeepTone
  <2> QED BY <1>1, <1>9, <2>1, <2>2, BuffersStay DEF SoundInv, SoundOK
<1>12. CASE t = Nosound(u)
  BY <1>1, <1>9, <1>12, HushedOK DEF SoundInv, SoundOK, ToneOK
<1> QED BY <1>10, <1>11, <1>12

LEMMA Controlled ==
  ASSUME SoundInv, NEW c \in 1 .. Channels, Control(c)
  PROVE  SoundInv'
<1>1. PICK s, t : s = sound /\ t = sound'
  OBVIOUS
<1>2. SoundOK(s)
  BY <1>1 DEF SoundInv
<1>3. ChannelShape(s.channels[c])
  BY <1>2 DEF SoundOK, ChannelsOK
<1>4. CASE t = ChannelStopped(s, c)
  BY <1>1, <1>2, <1>4, StoppedChannels DEF SoundInv
<1>5. CASE \E x : t = [s EXCEPT !.channels[c].active = x]
  <2>1. PICK x : t = [s EXCEPT !.channels[c].active = x]
    BY <1>5
  <2>2. PICK y : y = [s.channels[c] EXCEPT !.active = x]
    OBVIOUS
  <2>3. ChannelShape(y) /\ y.buffer = s.channels[c].buffer
    BY <1>3, <2>2 DEF ChannelShape
  <2>4. t = [s EXCEPT !.channels[c] = y]
    BY <2>1, <2>2
  <2> QED BY <1>1, <1>2, <2>3, <2>4, ChannelChanged DEF SoundInv
<1>6. CASE \E x : t = [s EXCEPT !.channels[c].loop = x]
  <2>1. PICK x : t = [s EXCEPT !.channels[c].loop = x]
    BY <1>6
  <2>2. PICK y : y = [s.channels[c] EXCEPT !.loop = x]
    OBVIOUS
  <2>3. ChannelShape(y) /\ y.buffer = s.channels[c].buffer
    BY <1>3, <2>2 DEF ChannelShape
  <2>4. t = [s EXCEPT !.channels[c] = y]
    BY <2>1, <2>2
  <2> QED BY <1>1, <1>2, <2>3, <2>4, ChannelChanged DEF SoundInv
<1> QED BY <1>1, <1>4, <1>5, <1>6, Zenon DEF Control

LEMMA WavLoaded ==
  ASSUME SoundInv, NEW size, WavCal(size) \/ MidiNote(size)
  PROVE  SoundInv'
<1>1. PICK s, t : s = sound /\ t = sound'
  OBVIOUS
<1>2. SoundOK(s)
  BY <1>1 DEF SoundInv
<1>3. CASE MidiNote(size)
  <2>1. /\ FreeChannels(s) # {}
        /\ t = Created(s) \/ t \in Played(Created(s), First(FreeChannels(s)), size)
    BY <1>1, <1>3 DEF MidiNote
  <2>2. SoundOK(Created(s)) /\ First(FreeChannels(s)) \in 1 .. Channels
    BY <1>2, <2>1, CreatedOK
  <2>3. SoundOK(t)
    BY <2>1, <2>2, PlayedOK
  <2> QED BY <1>1, <2>3 DEF SoundInv
<1>4. CASE WavCal(size)
  <2>1. PICK b \in Allocated(s.live) \ {Null} :
          LET r == [s EXCEPT !.live = @ \cup {b}]
          IN IF FreeChannels(r) = {} THEN t = r
             ELSE \E v \in Played(Created(r), First(FreeChannels(r)), size) :
                    t = [v EXCEPT !.channels[First(FreeChannels(r))].loop = FALSE]
    BY <1>1, <1>4 DEF WavCal
  <2>2. PICK r : r = [s EXCEPT !.live = @ \cup {b}]
    OBVIOUS
  <2>3. SoundOK(r)
    BY <1>2, <2>1, <2>2, LiveGrows
  <2>4. CASE FreeChannels(r) = {}
    BY <1>1, <2>1, <2>2, <2>3, <2>4 DEF SoundInv
  <2>5. CASE FreeChannels(r) # {}
    <3>1. PICK c : c = First(FreeChannels(r))
      OBVIOUS
    <3>2. SoundOK(Created(r)) /\ c \in 1 .. Channels
      BY <2>3, <2>5, <3>1, CreatedOK
    <3>3. PICK v \in Played(Created(r), c, size) : t = [v EXCEPT !.channels[c].loop = FALSE]
      BY <2>1, <2>2, <2>5, <3>1
    <3>4. SoundOK(v)
      BY <3>2, PlayedOK
    <3>5. PICK y : y = [v.channels[c] EXCEPT !.loop = FALSE]
      OBVIOUS
    <3>6. ChannelShape(v.channels[c])
      BY <3>2, <3>4 DEF SoundOK, ChannelsOK
    <3>7. ChannelShape(y) /\ y.buffer = v.channels[c].buffer
      BY <3>5, <3>6 DEF ChannelShape
    <3>8. t = [v EXCEPT !.channels[c] = y]
      BY <3>3, <3>5
    <3> QED BY <1>1, <3>2, <3>4, <3>7, <3>8, ChannelChanged DEF SoundInv
  <2> QED BY <2>4, <2>5
<1> QED BY <1>3, <1>4

LEMMA Recorded == ASSUME SoundInv, Recording PROVE SoundInv'
<1>1. PICK s, t : s = sound /\ t = sound'
  OBVIOUS
<1>2. SoundOK(s)
  BY <1>1 DEF SoundInv
<1>3. CASE t = [s EXCEPT !.recording = FALSE]
  BY <1>1, <1>2, <1>3, FieldChanged DEF SoundInv
<1>4. CASE t \in StartRecording(s)
  BY <1>1, <1>2, <1>4, RecordingOK DEF SoundInv
<1>5. CASE t = [s EXCEPT !.recording = FALSE, !.ui = FALSE]
  <2>1. PICK u : u = [s EXCEPT !.recording = FALSE]
    OBVIOUS
  <2>2. t = [u EXCEPT !.ui = FALSE]
    BY <1>5, <2>1
  <2>3. SoundOK(u)
    BY <1>2, <2>1, FieldChanged
  <2> QED BY <1>1, <2>2, <2>3, FieldChanged DEF SoundInv
<1>6. CASE \E u \in StartRecording(s) : t = [u EXCEPT !.ui = TRUE]
  <2>1. PICK u \in StartRecording(s) : t = [u EXCEPT !.ui = TRUE]
    BY <1>6
  <2>2. SoundOK(u)
    BY <1>2, RecordingOK
  <2> QED BY <1>1, <2>1, <2>2, FieldChanged DEF SoundInv
<1>7. CASE t = AllStopped(s)
  BY <1>1, <1>2, <1>7, StoppedChannels DEF SoundInv
<1> QED BY <1>1, <1>3, <1>4, <1>5, <1>6, <1>7, Zenon DEF Recording

LEMMA SoundSteps == SoundInv /\ SoundNext => SoundInv'
<1> SUFFICES ASSUME SoundInv, SoundNext PROVE SoundInv'
  OBVIOUS
<1>1. SoundOK(sound)
  BY DEF SoundInv
<1>2. CASE Beep \/ (\E m \in Melody : PlayMelody(m)) \/ StopMelody
  BY <1>2, MelodySteps
<1>3. CASE HandleBeepTimer \/ AdvancedInit \/ AudioUpdate \/ Recording
  BY <1>3, TimerSteps, Initialised, Updated, Recorded
<1>4. CASE Shutdown
  BY <1>1, <1>4, StoppedChannels, FieldChanged DEF Shutdown, SoundInv
<1>5. CASE CreateChannel
  BY <1>1, <1>5, CreatedOK DEF CreateChannel, SoundInv
<1>6. CASE Effects
  <2>1. PICK x : sound' = [sound EXCEPT !.effects = x]
    BY <1>6, Zenon DEF Effects
  <2> QED BY <1>1, <2>1, FieldChanged DEF SoundInv
<1>7. CASE \E c \in 1 .. Channels : DestroyChannel(c) \/ Control(c)
  BY <1>1, <1>7, DestroyedOK, Controlled DEF DestroyChannel, SoundInv
<1>8. CASE \E n \in Size : WavCal(n) \/ MidiNote(n)
  BY <1>8, WavLoaded
<1>9. CASE \E c \in 1 .. Channels, n \in Size : PlayBuffer(c, n)
  BY <1>1, <1>9, PlayedOK DEF PlayBuffer, SoundInv
<1> QED BY <1>2, <1>3, <1>4, <1>5, <1>6, <1>7, <1>8, <1>9 DEF SoundNext

LEMMA SoundGives == SoundInv => SoundOwned
<1> SUFFICES ASSUME SoundInv PROVE NoStrayTone /\ BuffersOwned
  BY DEF SoundOwned
<1>1. NoStrayTone
  BY DEF SoundInv, SoundOK, ToneOK, NoStrayTone
<1>2. PICK held : held = [c \in 0 .. Channels |->
                            IF c = 0 THEN sound.recording_buffer ELSE sound.channels[c].buffer]
  OBVIOUS
<1>3. OwnedOK(sound)
  BY DEF SoundInv, SoundOK
<1>4. \A c \in 0 .. Channels : c = 0 \/ c \in 1 .. Channels
  BY SoundAssumption
<1>5. ASSUME NEW c \in 0 .. Channels, NEW d \in 0 .. Channels, held[c] # Null
      PROVE  held[c] \in sound.live /\ (held[d] = held[c] => d = c)
  BY <1>2, <1>3, <1>4, <1>5 DEF OwnedOK
<1>6. BuffersOwned
  BY <1>2, <1>5 DEF BuffersOwned
<1> QED BY <1>1, <1>6

-----------------------------------------------------------------------------
(***************************************************************************)
(* UsbClasses: the handlers know what is down.                             *)
(***************************************************************************)
ReportKeys == [1..Slots -> Key \cup {0}]

Knows(heard, keys, held, buttons) ==
  /\ keys \in ReportKeys /\ held \subseteq Modifier /\ buttons \subseteq Button
  /\ heard = (Range(keys) \ {0}) \cup held \cup buttons

ClassOK(c) ==
  /\ c = [last_key_states |-> c.last_key_states, last_modifier_keys |-> c.last_modifier_keys,
          last_buttons |-> c.last_buttons, heard |-> c.heard, streaming |-> c.streaming,
          capture |-> c.capture, playback |-> c.playback]
  /\ Knows(c.heard, c.last_key_states, c.last_modifier_keys, c.last_buttons)
  /\ {c.streaming, c.capture, c.playback} \subseteq BOOLEAN
  /\ c.capture \/ c.playback => c.streaming

ClassInv == ClassOK(class)

LEMMA ClassStarts == ClassInit => ClassInv
<1> SUFFICES ASSUME ClassInit PROVE ClassInv
  OBVIOUS
<1>1. Slots \in Nat
  BY UsbClassesAssumption
<1>2. Up \in ReportKeys /\ Range(Up) \subseteq {0}
  BY <1>1 DEF Up, ReportKeys, Range
<1>3. Knows({}, Up, {}, {})
  BY <1>2 DEF Knows
<1>4. PICK u : u = Up
  OBVIOUS
<1>5. class = [last_key_states |-> u, last_modifier_keys |-> {}, last_buttons |-> {},
               heard |-> {}, streaming |-> FALSE, capture |-> FALSE, playback |-> FALSE]
  BY <1>4 DEF ClassInit
<1> QED BY <1>3, <1>4, <1>5 DEF ClassInv, ClassOK

LEMMA KeysTold ==
  ASSUME NEW h, NEW k, NEW m, NEW b, Knows(h, k, m, b),
         NEW n \in SUBSET Modifier, NEW l \in ReportKeys
  PROVE  Knows(Told(Told(h, m \ n, n \ m), Missing(k, l), Missing(l, k)), l, n, b)
<1>1. PICK R, Q : R = Range(k) /\ Q = Range(l)
  OBVIOUS
<1>2. R \subseteq Key \cup {0} /\ Q \subseteq Key \cup {0}
  BY <1>1 DEF Knows, ReportKeys, Range
<1>3. /\ m \subseteq Modifier /\ b \subseteq Button /\ h = (R \ {0}) \cup m \cup b
      /\ Missing(k, l) = R \ (Q \cup {0}) /\ Missing(l, k) = Q \ (R \cup {0})
  BY <1>1 DEF Knows, Missing
<1>4. Told(h, m \ n, n \ m) = (R \ {0}) \cup n \cup b
  BY <1>2, <1>3, UsbClassesAssumption DEF Told
<1>5. Told((R \ {0}) \cup n \cup b, R \ (Q \cup {0}), Q \ (R \cup {0})) = (Q \ {0}) \cup n \cup b
  BY <1>2, <1>3, UsbClassesAssumption DEF Told
<1> QED BY <1>1, <1>3, <1>4, <1>5 DEF Knows

LEMMA ButtonsTold ==
  ASSUME NEW h, NEW k, NEW m, NEW b, Knows(h, k, m, b), NEW d \in SUBSET Button
  PROVE  Knows(Told(h, b \ d, d \ b), k, m, d)
<1>1. PICK R : R = Range(k)
  OBVIOUS
<1>2. R \subseteq Key \cup {0}
  BY <1>1 DEF Knows, ReportKeys, Range
<1>3. m \subseteq Modifier /\ b \subseteq Button /\ h = (R \ {0}) \cup m \cup b
  BY <1>1 DEF Knows
<1>4. Told(h, b \ d, d \ b) = (R \ {0}) \cup m \cup d
  BY <1>2, <1>3, UsbClassesAssumption DEF Told
<1> QED BY <1>1, <1>4 DEF Knows

LEMMA ReportRead ==
  ASSUME ClassInv, NEW n \in SUBSET Modifier, NEW l \in [1..Slots -> Key \cup {0}],
         KeyboardReport(n, l)
  PROVE  ClassInv'
<1>1. PICK c, d, h : c = class /\ d = class'
        /\ h = Told(Told(c.heard, c.last_modifier_keys \ n, n \ c.last_modifier_keys),
                    Missing(c.last_key_states, l), Missing(l, c.last_key_states))
  OBVIOUS
<1>2. d = [c EXCEPT !.heard = h, !.last_modifier_keys = n, !.last_key_states = l]
  BY <1>1 DEF KeyboardReport
<1>3. ClassOK(c) /\ Knows(h, l, n, c.last_buttons)
  <2>1. ClassOK(c)
    BY <1>1 DEF ClassInv
  <2> QED BY <1>1, <2>1, KeysTold DEF ClassOK, ReportKeys
<1>4. d = [last_key_states |-> l, last_modifier_keys |-> n,
           last_buttons |-> c.last_buttons, heard |-> h, streaming |-> c.streaming,
           capture |-> c.capture, playback |-> c.playback]
  <2>1. PICK x, y : x = [c EXCEPT !.heard = h] /\ y = [x EXCEPT !.last_modifier_keys = n]
    OBVIOUS
  <2>2. x = [last_key_states |-> c.last_key_states, last_modifier_keys |-> c.last_modifier_keys,
             last_buttons |-> c.last_buttons, heard |-> h, streaming |-> c.streaming,
             capture |-> c.capture, playback |-> c.playback]
    BY <1>3, <2>1 DEF ClassOK
  <2>3. y = [last_key_states |-> c.last_key_states, last_modifier_keys |-> n,
             last_buttons |-> c.last_buttons, heard |-> h, streaming |-> c.streaming,
             capture |-> c.capture, playback |-> c.playback]
    BY <2>1, <2>2
  <2>4. d = [y EXCEPT !.last_key_states = l]
    BY <1>2, <2>1, Zenon
  <2> QED BY <2>3, <2>4
<1>5. ClassOK(d)
  BY <1>3, <1>4 DEF ClassOK
<1> QED BY <1>1, <1>5 DEF ClassInv

LEMMA ButtonsRead ==
  ASSUME ClassInv, NEW b \in SUBSET Button, MouseReport(b)
  PROVE  ClassInv'
<1>1. PICK c, d, h : c = class /\ d = class'
        /\ h = Told(c.heard, c.last_buttons \ b, b \ c.last_buttons)
  OBVIOUS
<1>2. d = [c EXCEPT !.heard = h, !.last_buttons = b]
  BY <1>1 DEF MouseReport
<1>3. ClassOK(c) /\ Knows(h, c.last_key_states, c.last_modifier_keys, b)
  <2>1. ClassOK(c)
    BY <1>1 DEF ClassInv
  <2> QED BY <1>1, <2>1, ButtonsTold DEF ClassOK
<1>4. d = [last_key_states |-> c.last_key_states, last_modifier_keys |-> c.last_modifier_keys,
           last_buttons |-> b, heard |-> h, streaming |-> c.streaming,
           capture |-> c.capture, playback |-> c.playback]
  <2>1. PICK x : x = [c EXCEPT !.heard = h]
    OBVIOUS
  <2>2. x = [last_key_states |-> c.last_key_states, last_modifier_keys |-> c.last_modifier_keys,
             last_buttons |-> c.last_buttons, heard |-> h, streaming |-> c.streaming,
             capture |-> c.capture, playback |-> c.playback]
    BY <1>3, <2>1 DEF ClassOK
  <2>3. d = [x EXCEPT !.last_buttons = b]
    BY <1>2, <2>1, Zenon
  <2> QED BY <2>2, <2>3
<1>5. ClassOK(d)
  BY <1>3, <1>4 DEF ClassOK
<1> QED BY <1>1, <1>5 DEF ClassInv

(* Whatever the streams do, no capture or playback is without the stream. *)
Streams(c, d, s, r, p) ==
  /\ {s, r, p} \subseteq BOOLEAN
  /\ r \/ p => s
  /\ d = [last_key_states |-> c.last_key_states, last_modifier_keys |-> c.last_modifier_keys,
          last_buttons |-> c.last_buttons, heard |-> c.heard, streaming |-> s,
          capture |-> r, playback |-> p]

LEMMA StreamKeeps ==
  ASSUME NEW c, NEW d, NEW s, NEW r, NEW p, ClassOK(c), Streams(c, d, s, r, p)
  PROVE  ClassOK(d)
BY DEF ClassOK, Streams

LEMMA StreamStarted ==
  ASSUME NEW c, ClassOK(c), NEW r \in BOOLEAN, NEW p \in BOOLEAN,
         NEW d, d = [c EXCEPT !.streaming = TRUE, !.capture = @ \/ r, !.playback = @ \/ p]
  PROVE  ClassOK(d)
<1>1. PICK v, w : v = (c.capture \/ r) /\ w = (c.playback \/ p)
  OBVIOUS
<1>2. d = [c EXCEPT !.streaming = TRUE, !.capture = v, !.playback = w]
  BY <1>1
<1>3. PICK x, y : x = [c EXCEPT !.streaming = TRUE] /\ y = [x EXCEPT !.capture = v]
  OBVIOUS
<1>4. d = [y EXCEPT !.playback = w]
  BY <1>2, <1>3, Zenon
<1>5. x = [last_key_states |-> c.last_key_states, last_modifier_keys |-> c.last_modifier_keys,
           last_buttons |-> c.last_buttons, heard |-> c.heard, streaming |-> TRUE,
           capture |-> c.capture, playback |-> c.playback]
  BY <1>3 DEF ClassOK
<1>6. y = [last_key_states |-> c.last_key_states, last_modifier_keys |-> c.last_modifier_keys,
           last_buttons |-> c.last_buttons, heard |-> c.heard, streaming |-> TRUE,
           capture |-> v, playback |-> c.playback]
  BY <1>3, <1>5
<1>7. d = [last_key_states |-> c.last_key_states, last_modifier_keys |-> c.last_modifier_keys,
           last_buttons |-> c.last_buttons, heard |-> c.heard, streaming |-> TRUE,
           capture |-> v, playback |-> w]
  BY <1>4, <1>6
<1>8. v \in BOOLEAN /\ w \in BOOLEAN
  BY <1>1
<1> QED BY <1>7, <1>8, StreamKeeps DEF Streams

LEMMA StreamStopped ==
  ASSUME NEW c, ClassOK(c),
         NEW d, d = [c EXCEPT !.streaming = FALSE, !.capture = FALSE, !.playback = FALSE]
  PROVE  ClassOK(d)
<1>1. PICK x, y : x = [c EXCEPT !.streaming = FALSE] /\ y = [x EXCEPT !.capture = FALSE]
  OBVIOUS
<1>2. d = [y EXCEPT !.playback = FALSE]
  BY <1>1, Zenon
<1>3. x = [last_key_states |-> c.last_key_states, last_modifier_keys |-> c.last_modifier_keys,
           last_buttons |-> c.last_buttons, heard |-> c.heard, streaming |-> FALSE,
           capture |-> c.capture, playback |-> c.playback]
  BY <1>1 DEF ClassOK
<1>4. y = [last_key_states |-> c.last_key_states, last_modifier_keys |-> c.last_modifier_keys,
           last_buttons |-> c.last_buttons, heard |-> c.heard, streaming |-> FALSE,
           capture |-> FALSE, playback |-> c.playback]
  BY <1>1, <1>3
<1>5. d = [last_key_states |-> c.last_key_states, last_modifier_keys |-> c.last_modifier_keys,
           last_buttons |-> c.last_buttons, heard |-> c.heard, streaming |-> FALSE,
           capture |-> FALSE, playback |-> FALSE]
  BY <1>2, <1>4
<1> QED BY <1>5, StreamKeeps DEF Streams

LEMMA StreamEnded ==
  ASSUME NEW c, ClassOK(c), NEW d,
         d = [c EXCEPT !.capture = FALSE] \/ d = [c EXCEPT !.playback = FALSE]
  PROVE  ClassOK(d)
<1>1. Streams(c, d, c.streaming, FALSE, c.playback)
      \/ Streams(c, d, c.streaming, c.capture, FALSE)
  BY DEF ClassOK, Streams
<1> QED BY <1>1, StreamKeeps

LEMMA ClassSteps == ClassInv /\ ClassNext => ClassInv'
<1> SUFFICES ASSUME ClassInv, ClassNext PROVE ClassInv'
  OBVIOUS
<1>1. ASSUME Stream PROVE ClassInv'
  <2>1. PICK c, d : c = class /\ d = class'
    OBVIOUS
  <2>2. ClassOK(c)
    BY <2>1 DEF ClassInv
  <2>3. \/ \E r, p \in BOOLEAN :
             d = [c EXCEPT !.streaming = TRUE, !.capture = @ \/ r, !.playback = @ \/ p]
        \/ d = [c EXCEPT !.capture = FALSE] \/ d = [c EXCEPT !.playback = FALSE]
        \/ d = [c EXCEPT !.streaming = FALSE, !.capture = FALSE, !.playback = FALSE]
    BY <1>1, <2>1 DEF Stream, Started, StopStreaming
  <2>4. ClassOK(d)
    BY <2>2, <2>3, StreamStarted, StreamStopped, StreamEnded
  <2> QED BY <2>1, <2>4 DEF ClassInv
<1> QED BY <1>1, ReportRead, ButtonsRead DEF ClassNext

LEMMA ClassGives == ClassInv => HandlersKnow
BY DEF ClassInv, ClassOK, Knows, HandlersKnow

-----------------------------------------------------------------------------
(***************************************************************************)
(* The driver manager.  After every step of a call each active driver is   *)
(* on the list and up, is there once, and the numbers on the list are      *)
(* distinct and below the next one: registering a driver twice, or         *)
(* emptying the manager while drivers run, must keep that.                 *)
(***************************************************************************)
Todo ==
  [do : {"register", "unregister", "empty", "cleanup"}, on : Driver]
    \cup [do : {"load", "host"}, on : Card]

Listed(list, active, next, number, up) ==
  /\ list \in Seq(Driver) /\ active \in Seq(Driver)
  /\ next \in Nat /\ number \in [Driver -> Nat]
  /\ \A i, j \in 1..Len(active) : active[i] = active[j] => i = j
  /\ \A d \in Range(active) : d \in up /\ d \in Range(list)
  /\ \A d \in Range(list) : number[d] < next
  /\ \A d, e \in Range(list) : number[d] = number[e] => d = e

Manager(list, active, next, number, up, made, cards, todo) ==
  [list |-> list, active |-> active, next_unique_id |-> next, number |-> number,
   up |-> up, made |-> made, cards |-> cards, todo |-> todo]

MgrOK(m) ==
  /\ m = Manager(m.list, m.active, m.next_unique_id, m.number, m.up, m.made, m.cards, m.todo)
  /\ Listed(m.list, m.active, m.next_unique_id, m.number, m.up)
  /\ m.cards \in Seq(Card) /\ m.todo \in Seq(Todo)

MgrInv == MgrOK(mgr)

(* RemoveFirst takes one occurrence out and keeps the rest as it is. *)
LEMMA FirstRemoved ==
  ASSUME NEW S, NEW s \in Seq(S), NEW d
  PROVE  /\ RemoveFirst(s, d) \in Seq(S)
         /\ Range(RemoveFirst(s, d)) \subseteq Range(s)
         /\ \A x \in Range(s) : x # d => x \in Range(RemoveFirst(s, d))
         /\ (\A i, j \in 1..Len(s) : s[i] = s[j] => i = j) =>
              /\ \A i, j \in 1..Len(RemoveFirst(s, d)) :
                    RemoveFirst(s, d)[i] = RemoveFirst(s, d)[j] => i = j
              /\ d \notin Range(RemoveFirst(s, d))
<1>0. Len(s) \in Nat /\ Range(s) = {s[i] : i \in 1..Len(s)}
  BY ItemsOfSeq
<1>1. CASE ~\E i \in 1..Len(s) : s[i] = d
  <2>1. RemoveFirst(s, d) = s
    BY <1>1 DEF RemoveFirst
  <2> QED BY <2>1, <1>0, <1>1
<1>2. CASE \E i \in 1..Len(s) : s[i] = d
  <2> DEFINE I == {i \in 1..Len(s) : s[i] = d}
  <2> DEFINE k == Min(I)
  <2>1. k \in 1..Len(s) /\ s[k] = d
    <3>1. I \in SUBSET Nat /\ I # {}
      BY <1>0, <1>2
    <3>2. k \in I
      BY <3>1, MinOfNats, Zenon
    <3> QED BY <3>2
  <2>2. RemoveFirst(s, d) = SubSeq(s, 1, k - 1) \o SubSeq(s, k + 1, Len(s))
    <3>1. I # {}
      BY <1>2
    <3> QED BY <1>2, <3>1 DEF RemoveFirst, RemoveAt, SelectInSeq
  <2> HIDE DEF k
  <2> DEFINE a == SubSeq(s, 1, k - 1)
  <2> DEFINE b == SubSeq(s, k + 1, Len(s))
  <2> DEFINE r == a \o b
  <2>3. /\ a \in Seq(S) /\ Len(a) = k - 1
        /\ \A i \in 1..(k - 1) : a[i] = s[i]
    <3>1. \A i \in 1..(k - 1) : s[i] \in S
      BY <2>1, <1>0
    <3>2. /\ a \in Seq(S) /\ Len(a) = IF 1 <= k - 1 THEN (k - 1) - 1 + 1 ELSE 0
          /\ \A i \in 1..((k - 1) - 1 + 1) : a[i] = s[1 + i - 1]
      BY <3>1, <2>1, SubSeqProperties
    <3> QED BY <3>2, <2>1
  <2>4. /\ b \in Seq(S) /\ Len(b) = Len(s) - k
        /\ \A i \in 1..(Len(s) - k) : b[i] = s[k + i]
    <3>1. \A i \in (k + 1)..Len(s) : s[i] \in S
      BY <2>1, <1>0
    <3>2. /\ b \in Seq(S) /\ Len(b) = IF k + 1 <= Len(s) THEN Len(s) - (k + 1) + 1 ELSE 0
          /\ \A i \in 1..(Len(s) - (k + 1) + 1) : b[i] = s[(k + 1) + i - 1]
      BY <3>1, <2>1, <1>0, SubSeqProperties
    <3> QED BY <3>2, <2>1, <1>0
  <2> HIDE DEF a, b
  <2>5. /\ r \in Seq(S) /\ Len(r) = Len(s) - 1
        /\ \A i \in 1..(Len(s) - 1) : r[i] = IF i <= k - 1 THEN a[i] ELSE b[i - (k - 1)]
    <3>1. Len(a) + Len(b) = Len(s) - 1
      BY <2>3, <2>4, <2>1, <1>0
    <3> QED BY <3>1, <2>3, <2>4, ConcatProperties
  <2>6. \A i \in 1..(Len(s) - 1) : r[i] = IF i < k THEN s[i] ELSE s[i + 1]
    <3> SUFFICES ASSUME NEW i \in 1..(Len(s) - 1) PROVE r[i] = IF i < k THEN s[i] ELSE s[i + 1]
      OBVIOUS
    <3>1. CASE i < k
      <4>1. i \in 1..(k - 1) /\ i <= k - 1
        BY <3>1, <2>1
      <4> QED BY <4>1, <3>1, <2>5, <2>3
    <3>2. CASE ~(i < k)
      <4>1. i - (k - 1) \in 1..(Len(s) - k) /\ k + (i - (k - 1)) = i + 1 /\ ~(i <= k - 1)
        BY <3>2, <2>1, <1>0
      <4>2. r[i] = b[i - (k - 1)]
        BY <4>1, <2>5
      <4> QED BY <4>1, <4>2, <3>2, <2>4
    <3> QED BY <3>1, <3>2
  <2> HIDE DEF r
  <2>7. Range(r) = {r[i] : i \in 1..(Len(s) - 1)}
    BY <2>5, ItemsOfSeq
  <2>8. Range(r) \subseteq Range(s)
    <3> SUFFICES ASSUME NEW i \in 1..(Len(s) - 1) PROVE r[i] \in Range(s)
      BY <2>7
    <3>1. i \in 1..Len(s) /\ i + 1 \in 1..Len(s)
      BY <1>0
    <3> QED BY <3>1, <2>6, <1>0
  <2>9. \A x \in Range(s) : x # d => x \in Range(r)
    <3> SUFFICES ASSUME NEW j \in 1..Len(s), s[j] # d PROVE s[j] \in Range(r)
      BY <1>0
    <3>1. j # k
      BY <2>1
    <3>2. CASE j < k
      <4>1. j \in 1..(Len(s) - 1)
        BY <3>2, <2>1, <1>0
      <4> QED BY <4>1, <3>2, <2>6, <2>7
    <3>3. CASE j > k
      <4>1. j - 1 \in 1..(Len(s) - 1) /\ ~(j - 1 < k) /\ (j - 1) + 1 = j
        BY <3>3, <2>1, <1>0
      <4>2. r[j - 1] = s[j]
        BY <4>1, <2>6
      <4> QED BY <4>1, <4>2, <2>7
    <3> QED BY <3>1, <3>2, <3>3, <2>1
  <2>10. ASSUME \A i, j \in 1..Len(s) : s[i] = s[j] => i = j
         PROVE  /\ \A i, j \in 1..Len(r) : r[i] = r[j] => i = j
                /\ d \notin Range(r)
    <3> DEFINE p(i) == IF i < k THEN i ELSE i + 1
    <3>1. \A i \in 1..(Len(s) - 1) : p(i) \in 1..Len(s) /\ p(i) # k /\ r[i] = s[p(i)]
      BY <2>6, <2>1, <1>0
    <3>2. \A i, j \in 1..(Len(s) - 1) : p(i) = p(j) => i = j
      BY <2>1, <1>0
    <3> HIDE DEF p
    <3>3. \A i, j \in 1..(Len(s) - 1) : r[i] = r[j] => i = j
      BY <3>1, <3>2, <2>10
    <3>4. \A i \in 1..(Len(s) - 1) : r[i] # d
      BY <3>1, <2>10, <2>1
    <3> QED BY <3>3, <3>4, <2>5, <2>7
  <2>11. RemoveFirst(s, d) = r
    BY <2>2 DEF r, a, b
  <2> QED BY <2>11, <2>5, <2>8, <2>9, <2>10
<1> QED BY <1>1, <1>2

LEMMA NothingListed ==
  ASSUME NEW next \in Nat, NEW number \in [Driver -> Nat], NEW up
  PROVE  Listed(<<>>, <<>>, next, number, up)
<1>1. <<>> \in Seq(Driver) /\ Range(<<>>) = {} /\ Len(<<>>) = 0
  BY DEF Range
<1> QED BY <1>1 DEF Listed

LEMMA ListedMore ==
  ASSUME NEW list, NEW active, NEW next, NEW number, NEW up, NEW d \in Driver,
         Listed(list, active, next, number, up)
  PROVE  Listed(<<d>> \o list, active, next + 1, [number EXCEPT ![d] = next], up)
<1> DEFINE now == [number EXCEPT ![d] = next]
<1> DEFINE more == <<d>> \o list
<1> DEFINE after == next + 1
<1>1. /\ list \in Seq(Driver) /\ active \in Seq(Driver)
      /\ next \in Nat /\ number \in [Driver -> Nat]
      /\ Range(list) \subseteq Driver
  BY ItemsOfSeq DEF Listed
<1>2. more \in Seq(Driver) /\ Range(more) = Range(list) \cup {d} /\ after \in Nat
  BY <1>1, PutFirst
<1>3. now \in [Driver -> Nat] /\ now[d] = next /\ \A e \in Driver : e # d => now[e] = number[e]
  BY <1>1
<1> HIDE DEF now, more
<1>4. \A e \in Range(list) \cup {d} : now[e] < after
  <2> SUFFICES ASSUME NEW e \in Range(list) \cup {d} PROVE now[e] < after
    OBVIOUS
  <2>1. CASE e = d
    BY <2>1, <1>3, <1>1
  <2>2. CASE e # d
    <3>1. e \in Driver /\ number[e] < next /\ number[e] \in Nat
      BY <2>2, <1>1 DEF Listed
    <3> QED BY <3>1, <2>2, <1>3, <1>1
  <2> QED BY <2>1, <2>2
<1>5. \A e, f \in Range(list) \cup {d} : now[e] = now[f] => e = f
  <2>1. \A e \in Range(list) : e # d => now[e] = number[e] /\ number[e] < next
    BY <1>1, <1>3 DEF Listed
  <2>2. \A e \in Range(list) : e # d => now[e] # next
    BY <2>1, <1>1
  <2>3. \A e, f \in Range(list) : number[e] = number[f] => e = f
    BY DEF Listed
  <2> QED BY <2>1, <2>2, <2>3, <1>3
<1>6. /\ \A i, j \in 1..Len(active) : active[i] = active[j] => i = j
      /\ \A e \in Range(active) : e \in up /\ e \in Range(list) \cup {d}
  BY DEF Listed
<1> HIDE DEF after
<1>7. Listed(more, active, after, now, up)
  BY <1>1, <1>2, <1>3, <1>4, <1>5, <1>6 DEF Listed
<1> QED BY <1>7 DEF now, more, after

LEMMA ListedUp ==
  ASSUME NEW list, NEW active, NEW next, NEW number, NEW up, NEW d,
         Listed(list, active, next, number, up)
  PROVE  Listed(list, active, next, number, up \cup {d})
BY DEF Listed

LEMMA ListedActive ==
  ASSUME NEW list, NEW active, NEW next, NEW number, NEW up, NEW d \in Range(list),
         Listed(list, active, next, number, up), d \notin Range(active)
  PROVE  Listed(list, <<d>> \o active, next, number, up \cup {d})
<1> DEFINE now == <<d>> \o active
<1>1. /\ list \in Seq(Driver) /\ active \in Seq(Driver) /\ d \in Driver
      /\ Len(active) \in Nat
  BY ItemsOfSeq DEF Listed
<1>2. /\ now \in Seq(Driver) /\ Len(now) = Len(active) + 1
      /\ now[1] = d /\ \A i \in 2..(Len(active) + 1) : now[i] = active[i - 1]
      /\ Range(now) = Range(active) \cup {d}
  BY <1>1, PutFirst
<1>3. Range(active) = {active[i] : i \in 1..Len(active)}
  BY <1>1, ItemsOfSeq
<1> HIDE DEF now
<1>4. ASSUME NEW i \in 1..Len(now), NEW j \in 1..Len(now), now[i] = now[j]
      PROVE  i = j
  <2>1. \A k \in 1..Len(now) : k = 1 \/ (k \in 2..(Len(active) + 1) /\ k - 1 \in 1..Len(active))
    BY <1>1, <1>2
  <2>2. \A k \in 1..Len(now) : k # 1 => now[k] = active[k - 1] /\ now[k] # d
    BY <2>1, <1>2, <1>3
  <2>3. CASE i = 1 \/ j = 1
    BY <2>3, <2>2, <1>2, <1>4
  <2>4. CASE i # 1 /\ j # 1
    <3>1. active[i - 1] = active[j - 1] /\ i - 1 \in 1..Len(active) /\ j - 1 \in 1..Len(active)
      BY <2>4, <2>1, <2>2, <1>4
    <3>2. i - 1 = j - 1
      BY <3>1 DEF Listed
    <3> QED BY <3>2, <1>2, <1>1
  <2> QED BY <2>3, <2>4
<1>5. \A e \in Range(now) : e \in up \cup {d} /\ e \in Range(list)
  BY <1>2 DEF Listed
<1> QED BY <1>1, <1>2, <1>4, <1>5 DEF Listed, now

LEMMA ListedStopped ==
  ASSUME NEW list, NEW active, NEW next, NEW number, NEW up, NEW d,
         Listed(list, active, next, number, up)
  PROVE  /\ Listed(list, RemoveFirst(active, d), next, number, up \ {d})
         /\ d \notin Range(RemoveFirst(active, d))
<1> DEFINE now == RemoveFirst(active, d)
<1>1. active \in Seq(Driver) /\ \A i, j \in 1..Len(active) : active[i] = active[j] => i = j
  BY DEF Listed
<1>2. /\ now \in Seq(Driver) /\ Range(now) \subseteq Range(active)
      /\ \A i, j \in 1..Len(now) : now[i] = now[j] => i = j
      /\ d \notin Range(now)
  BY <1>1, FirstRemoved
<1> HIDE DEF now
<1>3. \A e \in Range(now) : e \in up \ {d} /\ e \in Range(list)
  BY <1>2 DEF Listed
<1> QED BY <1>2, <1>3 DEF Listed, now

LEMMA ListedLess ==
  ASSUME NEW list, NEW active, NEW next, NEW number, NEW up, NEW d,
         Listed(list, active, next, number, up), d \notin Range(active)
  PROVE  Listed(RemoveFirst(list, d), active, next, number, up)
<1> DEFINE now == RemoveFirst(list, d)
<1>1. list \in Seq(Driver)
  BY DEF Listed
<1>2. /\ now \in Seq(Driver) /\ Range(now) \subseteq Range(list)
      /\ \A x \in Range(list) : x # d => x \in Range(now)
  BY <1>1, FirstRemoved
<1> HIDE DEF now
<1>3. \A e \in Range(active) : e \in up /\ e \in Range(now)
  BY <1>2 DEF Listed
<1> QED BY <1>2, <1>3 DEF Listed, now

-----------------------------------------------------------------------------
(* The operations, each on a manager in order *)
LEMMA MgrFields ==
  ASSUME NEW m, NEW l, NEW a, NEW n, NEW nu, NEW u, NEW ma, NEW c, NEW t,
         m = Manager(l, a, n, nu, u, ma, c, t),
         Listed(l, a, n, nu, u), c \in Seq(Card), t \in Seq(Todo)
  PROVE  MgrOK(m)
BY DEF MgrOK, Manager

LEMMA WhenEmptied == ASSUME NEW m, MgrOK(m) PROVE MgrOK(Emptied(m))
<1>1. PICK x, y : x = [m EXCEPT !.list = <<>>] /\ y = [x EXCEPT !.active = <<>>]
  OBVIOUS
<1>2. Emptied(m) = [y EXCEPT !.next_unique_id = 1]
  BY <1>1, Zenon DEF Emptied
<1>3. m = Manager(m.list, m.active, m.next_unique_id, m.number, m.up, m.made, m.cards, m.todo)
  BY DEF MgrOK
<1>4. x = Manager(<<>>, m.active, m.next_unique_id, m.number, m.up, m.made, m.cards, m.todo)
  BY <1>1, <1>3 DEF Manager
<1>5. y = Manager(<<>>, <<>>, m.next_unique_id, m.number, m.up, m.made, m.cards, m.todo)
  BY <1>1, <1>4 DEF Manager
<1>6. Emptied(m) = Manager(<<>>, <<>>, 1, m.number, m.up, m.made, m.cards, m.todo)
  BY <1>2, <1>5 DEF Manager
<1>7. Listed(<<>>, <<>>, 1, m.number, m.up)
  BY NothingListed DEF MgrOK, Listed
<1>8. m.cards \in Seq(Card) /\ m.todo \in Seq(Todo)
  BY DEF MgrOK
<1> QED BY <1>6, <1>7, <1>8, MgrFields

LEMMA WhenRegistered ==
  ASSUME NEW m, MgrOK(m), NEW d \in Driver PROVE MgrOK(Registered(m, d))
<1>1. PICK l, nu, n : /\ l = <<d>> \o m.list /\ nu = [m.number EXCEPT ![d] = m.next_unique_id]
                      /\ n = m.next_unique_id + 1
  OBVIOUS
<1>2. Registered(m, d) = [m EXCEPT !.list = l, !.number = nu, !.next_unique_id = n]
  BY <1>1, Zenon DEF Registered
<1>3. PICK x, y : x = [m EXCEPT !.list = l] /\ y = [x EXCEPT !.number = nu]
  OBVIOUS
<1>4. Registered(m, d) = [y EXCEPT !.next_unique_id = n]
  BY <1>2, <1>3, Zenon
<1>5. m = Manager(m.list, m.active, m.next_unique_id, m.number, m.up, m.made, m.cards, m.todo)
  BY DEF MgrOK
<1>6. x = Manager(l, m.active, m.next_unique_id, m.number, m.up, m.made, m.cards, m.todo)
  BY <1>3, <1>5 DEF Manager
<1>7. y = Manager(l, m.active, m.next_unique_id, nu, m.up, m.made, m.cards, m.todo)
  BY <1>3, <1>6 DEF Manager
<1>8. Registered(m, d) = Manager(l, m.active, n, nu, m.up, m.made, m.cards, m.todo)
  BY <1>4, <1>7 DEF Manager
<1>9. Listed(l, m.active, n, nu, m.up)
  BY <1>1, ListedMore DEF MgrOK
<1>10. m.cards \in Seq(Card) /\ m.todo \in Seq(Todo)
  BY DEF MgrOK
<1> QED BY <1>8, <1>9, <1>10, MgrFields

LEMMA WhenMade == ASSUME NEW m, MgrOK(m), NEW d PROVE MgrOK(Made(m, d))
<1>1. PICK z : z = m.made \cup {d}
  OBVIOUS
<1>2. Made(m, d) = [m EXCEPT !.made = z]
  BY <1>1 DEF Made
<1>3. Made(m, d) =
        Manager(m.list, m.active, m.next_unique_id, m.number, m.up, z, m.cards, m.todo)
  BY <1>2 DEF MgrOK, Manager
<1> QED BY <1>3, MgrFields DEF MgrOK

LEMMA WhenInitDone == ASSUME NEW m, MgrOK(m), NEW d PROVE MgrOK(InitDone(m, d))
<1>1. PICK z : z = m.up \cup {d}
  OBVIOUS
<1>2. InitDone(m, d) = [m EXCEPT !.up = z]
  BY <1>1 DEF InitDone
<1>3. InitDone(m, d) =
        Manager(m.list, m.active, m.next_unique_id, m.number, z, m.made, m.cards, m.todo)
  BY <1>2 DEF MgrOK, Manager
<1>4. Listed(m.list, m.active, m.next_unique_id, m.number, z)
  BY <1>1, ListedUp DEF MgrOK
<1> QED BY <1>3, <1>4, MgrFields DEF MgrOK

LEMMA WhenStopped ==
  ASSUME NEW m, MgrOK(m), NEW d
  PROVE  /\ MgrOK(Stopped(m, d)) /\ Stopped(m, d).list = m.list
         /\ d \notin Range(Stopped(m, d).active)
<1>1. PICK a, u, x : /\ a = RemoveFirst(m.active, d) /\ u = m.up \ {d}
                     /\ x = [m EXCEPT !.active = a]
  OBVIOUS
<1>2. Stopped(m, d) = [x EXCEPT !.up = u]
  <2>1. Stopped(m, d) = [m EXCEPT !.active = a, !.up = u]
    BY <1>1, Zenon DEF Stopped
  <2> QED BY <2>1, <1>1, Zenon
<1>3. x = Manager(m.list, a, m.next_unique_id, m.number, m.up, m.made, m.cards, m.todo)
  BY <1>1 DEF MgrOK, Manager
<1>4. Stopped(m, d) =
        Manager(m.list, a, m.next_unique_id, m.number, u, m.made, m.cards, m.todo)
  BY <1>2, <1>3 DEF Manager
<1>5. Listed(m.list, a, m.next_unique_id, m.number, u) /\ d \notin Range(a)
  BY <1>1, ListedStopped DEF MgrOK
<1>6. MgrOK(Stopped(m, d))
  BY <1>4, <1>5, MgrFields DEF MgrOK
<1>7. Stopped(m, d).active = a /\ Stopped(m, d).list = m.list
  BY <1>4 DEF Manager
<1> QED BY <1>5, <1>6, <1>7

LEMMA WhenUnregistered ==
  ASSUME NEW m, MgrOK(m), NEW d PROVE MgrOK(UnregisteredFrom(m, d))
<1>1. PICK s : s = IF d \in Range(m.active) THEN Stopped(m, d) ELSE m
  OBVIOUS
<1>2. MgrOK(s) /\ d \notin Range(s.active)
  BY <1>1, WhenStopped
<1>3. PICK l : l = RemoveFirst(s.list, d)
  OBVIOUS
<1>4. UnregisteredFrom(m, d) = [s EXCEPT !.list = l]
  BY <1>1, <1>3 DEF UnregisteredFrom
<1>5. UnregisteredFrom(m, d) =
        Manager(l, s.active, s.next_unique_id, s.number, s.up, s.made, s.cards, s.todo)
  BY <1>2, <1>4 DEF MgrOK, Manager
<1>6. Listed(l, s.active, s.next_unique_id, s.number, s.up)
  BY <1>2, <1>3, ListedLess DEF MgrOK
<1>7. s.cards \in Seq(Card) /\ s.todo \in Seq(Todo)
  BY <1>2 DEF MgrOK
<1> QED BY <1>5, <1>6, <1>7, MgrFields

LEMMA WhenCleaned == ASSUME NEW m, MgrOK(m) PROVE MgrOK(Cleanup(m))
<1>1. PICK u, x, y : /\ u = m.up \ Range(m.active) /\ x = [m EXCEPT !.up = u]
                     /\ y = [x EXCEPT !.active = <<>>]
  OBVIOUS
<1>2. Cleanup(m) = [y EXCEPT !.list = <<>>]
  <2>1. Cleanup(m) = [m EXCEPT !.up = u, !.active = <<>>, !.list = <<>>]
    BY <1>1, Zenon DEF Cleanup
  <2> QED BY <2>1, <1>1, Zenon
<1>3. x = Manager(m.list, m.active, m.next_unique_id, m.number, u, m.made, m.cards, m.todo)
  BY <1>1 DEF MgrOK, Manager
<1>4. y = Manager(m.list, <<>>, m.next_unique_id, m.number, u, m.made, m.cards, m.todo)
  BY <1>1, <1>3 DEF Manager
<1>5. Cleanup(m) = Manager(<<>>, <<>>, m.next_unique_id, m.number, u, m.made, m.cards, m.todo)
  BY <1>2, <1>4 DEF Manager
<1>6. Listed(<<>>, <<>>, m.next_unique_id, m.number, u)
  BY NothingListed DEF MgrOK, Listed
<1> QED BY <1>5, <1>6, MgrFields DEF MgrOK

LEMMA WhenActivated ==
  ASSUME MgrInv, NEW d \in Range(mgr.list), Activated(d) PROVE MgrInv'
<1>1. PICK m, v : m = mgr /\ v = mgr'
  OBVIOUS
<1>2. PICK a, u, x : /\ a = <<d>> \o m.active /\ u = m.up \cup {d}
                     /\ x = [m EXCEPT !.active = a]
  OBVIOUS
<1>3. v = [x EXCEPT !.up = u]
  <2>1. v = [m EXCEPT !.active = a, !.up = u]
    BY <1>1, <1>2 DEF Activated
  <2> QED BY <2>1, <1>2, Zenon
<1>4. MgrOK(m) /\ d \in Range(m.list) /\ d \notin Range(m.active)
  BY <1>1 DEF MgrInv, Activated, IsActive
<1>5. x = Manager(m.list, a, m.next_unique_id, m.number, m.up, m.made, m.cards, m.todo)
  BY <1>2, <1>4 DEF MgrOK, Manager
<1>6. v = Manager(m.list, a, m.next_unique_id, m.number, u, m.made, m.cards, m.todo)
  BY <1>3, <1>5 DEF Manager
<1>7. Listed(m.list, a, m.next_unique_id, m.number, u)
  BY <1>2, <1>4, ListedActive DEF MgrOK
<1>8. m.cards \in Seq(Card) /\ m.todo \in Seq(Todo)
  BY <1>4 DEF MgrOK
<1> QED BY <1>1, <1>6, <1>7, <1>8, MgrFields DEF MgrInv

LEMMA EachTyped ==
  ASSUME NEW what, NEW S, NEW s \in Seq(S),
         \A x \in S : [do |-> what, on |-> x] \in Todo
  PROVE  Each(what, s) \in Seq(Todo)
<1>1. /\ Len(s) \in Nat /\ DOMAIN s = 1..Len(s)
      /\ \A i \in 1..Len(s) : s[i] \in S
  OBVIOUS
<1>2. \A i \in 1..Len(s) : [do |-> what, on |-> s[i]] \in Todo
  BY <1>1
<1>3. Each(what, s) \in [1..Len(s) -> Todo]
  BY <1>1, <1>2 DEF Each
<1> QED BY <1>1, <1>3, SeqDef

LEMMA OrderTyped ==
  ASSUME NEW S, IsFiniteSet(S) PROVE SetToSeq(S) \in Seq(S)
<1> DEFINE n == Cardinality(S)
<1>1. n \in Nat /\ ExistsBijection(1..n, S)
  BY FS_CardinalityType
<1>2. \E f \in [1..n -> S] : IsInjective(f)
  BY <1>1 DEF ExistsBijection, Bijection, Injection, IsInjective
<1>3. SetToSeq(S) \in [1..n -> S]
  BY <1>2 DEF SetToSeq
<1> QED BY <1>1, <1>3, SeqDef

LEMMA TodoTyped ==
  /\ \A d \in Driver :
       /\ <<d>> \in Seq({d}) /\ Each("register", <<d>>) \in Seq(Todo)
       /\ Each("empty", <<d>>) \in Seq(Todo) /\ Each("cleanup", <<d>>) \in Seq(Todo)
  /\ \A cards \in Seq(Card) :
       Each("load", cards) \in Seq(Todo) /\ Each("host", cards) \in Seq(Todo)
  /\ \A S \in SUBSET NoInit :
       /\ Each("register", SetToSeq(S)) \in Seq(Todo)
       /\ Each("unregister", SetToSeq(S)) \in Seq(Todo)
<1>1. \A d \in Driver : [do |-> "register", on |-> d] \in Todo
  BY DEF Todo
<1>2. \A d \in Driver : [do |-> "empty", on |-> d] \in Todo
  BY DEF Todo
<1>3. \A d \in Driver : [do |-> "cleanup", on |-> d] \in Todo
  BY DEF Todo
<1>4. \A d \in Driver : [do |-> "unregister", on |-> d] \in Todo
  BY DEF Todo
<1>5. \A c \in Card : [do |-> "load", on |-> c] \in Todo
  BY DEF Todo
<1>6. \A c \in Card : [do |-> "host", on |-> c] \in Todo
  BY DEF Todo
<1>7. ASSUME NEW d \in Driver
      PROVE  /\ <<d>> \in Seq({d}) /\ Each("register", <<d>>) \in Seq(Todo)
             /\ Each("empty", <<d>>) \in Seq(Todo) /\ Each("cleanup", <<d>>) \in Seq(Todo)
  <2>1. <<d>> \in Seq({d}) /\ <<d>> \in Seq(Driver)
    OBVIOUS
  <2>2. Each("register", <<d>>) \in Seq(Todo)
    BY <2>1, <1>1, EachTyped
  <2>3. Each("empty", <<d>>) \in Seq(Todo)
    BY <2>1, <1>2, EachTyped
  <2>4. Each("cleanup", <<d>>) \in Seq(Todo)
    BY <2>1, <1>3, EachTyped
  <2> QED BY <2>1, <2>2, <2>3, <2>4
<1>8. ASSUME NEW cards \in Seq(Card)
      PROVE  Each("load", cards) \in Seq(Todo) /\ Each("host", cards) \in Seq(Todo)
  <2>1. Each("load", cards) \in Seq(Todo)
    BY <1>5, EachTyped
  <2>2. Each("host", cards) \in Seq(Todo)
    BY <1>6, EachTyped
  <2> QED BY <2>1, <2>2
<1>9. ASSUME NEW S \in SUBSET NoInit
      PROVE  /\ Each("register", SetToSeq(S)) \in Seq(Todo)
             /\ Each("unregister", SetToSeq(S)) \in Seq(Todo)
  <2>1. IsFiniteSet(S)
    BY FS_Subset, DriverManagerAssumption
  <2>2. SetToSeq(S) \in Seq(S)
    BY <2>1, OrderTyped
  <2>3. S \subseteq Driver
    BY DEF Driver
  <2>4. \A x \in S : [do |-> "register", on |-> x] \in Todo
    BY <2>3, <1>1
  <2>5. \A x \in S : [do |-> "unregister", on |-> x] \in Todo
    BY <2>3, <1>4
  <2>6. Each("register", SetToSeq(S)) \in Seq(Todo)
    BY <2>2, <2>4, EachTyped
  <2>7. Each("unregister", SetToSeq(S)) \in Seq(Todo)
    BY <2>2, <2>5, EachTyped
  <2> QED BY <2>6, <2>7
<1> QED BY <1>7, <1>8, <1>9

LEMMA Joined ==
  ASSUME NEW s \in Seq(Todo), NEW t \in Seq(Todo) PROVE s \o t \in Seq(Todo)
BY ConcatProperties

LEMMA BuiltIn == Ata \in Driver /\ Serial \in Driver /\ UsbClass \in SUBSET NoInit
                 /\ NoInit \ UsbClass \in SUBSET NoInit
BY DriverManagerAssumption DEF Driver

LEMMA BootOK == ASSUME NEW cards \in Seq(Card) PROVE MgrOK(Boot(cards))
<1>1. PICK a, b, c, d, e, f :
        /\ a = Each("register", <<Ata>>) /\ b = Each("empty", <<Ata>>)
        /\ c = Each("register", SetToSeq(NoInit \ UsbClass)) /\ d = Each("load", cards)
        /\ e = Each("register", <<Serial>>) /\ f = Each("host", cards)
  OBVIOUS
<1>2. /\ a \in Seq(Todo) /\ b \in Seq(Todo) /\ c \in Seq(Todo) /\ d \in Seq(Todo)
      /\ e \in Seq(Todo) /\ f \in Seq(Todo)
  BY <1>1, TodoTyped, BuiltIn
<1>3. PICK t : t = a \o b \o c \o d \o e \o f
  OBVIOUS
<1>4. t \in Seq(Todo)
  <2>1. a \o b \in Seq(Todo)
    BY <1>2, Joined
  <2>2. a \o b \o c \in Seq(Todo)
    BY <1>2, <2>1, Joined
  <2>3. a \o b \o c \o d \in Seq(Todo)
    BY <1>2, <2>2, Joined
  <2>4. a \o b \o c \o d \o e \in Seq(Todo)
    BY <1>2, <2>3, Joined
  <2> QED BY <1>2, <1>3, <2>4, Joined
<1>5. PICK nu : nu = [x \in Driver |-> 0]
  OBVIOUS
<1>6. Boot(cards) = Manager(<<>>, <<>>, 1, nu, {}, {}, cards, t)
  BY <1>1, <1>3, <1>5, Zenon DEF Boot, Manager
<1>7. Listed(<<>>, <<>>, 1, nu, {})
  BY <1>5, NothingListed
<1> QED BY <1>4, <1>6, <1>7, MgrFields

LEMMA TodoSet ==
  ASSUME NEW m, MgrOK(m), NEW t \in Seq(Todo) PROVE MgrOK([m EXCEPT !.todo = t])
<1>1. PICK v : v = [m EXCEPT !.todo = t]
  OBVIOUS
<1>2. v = Manager(m.list, m.active, m.next_unique_id, m.number, m.up, m.made, m.cards, t)
  BY <1>1 DEF MgrOK, Manager
<1> QED BY <1>1, <1>2, MgrFields DEF MgrOK

(* What is found is on the list. *)
LEMMA FoundListed ==
  ASSUME MgrInv, NEW S, NEW d \in Found(S) PROVE d \in Range(mgr.list) /\ d \in Driver
<1>1. mgr.list \in Seq(Driver)
  BY DEF MgrInv, MgrOK, Listed
<1>2. PICK s \in Seq(Driver) : s = mgr.list
  BY <1>1
<1> DEFINE I == {i \in 1..Len(s) : s[i] \in S}
<1>3. I # {} /\ d = s[Min(I)]
  BY <1>2 DEF Found, SelectInSeq
<1>4. I \in SUBSET Nat /\ I \subseteq 1..Len(s)
  OBVIOUS
<1>5. Min(I) \in I
  BY <1>3, <1>4, MinOfNats, Zenon
<1>6. d \in Range(s) /\ Range(s) \subseteq Driver
  BY <1>3, <1>4, <1>5, ItemsOfSeq
<1> QED BY <1>2, <1>6

LEMMA TogglesOK ==
  ASSUME MgrInv, NEW S, NEW d \in Found(S), Activated(d) \/ Deactivated(d) PROVE MgrInv'
<1>1. CASE Activated(d)
  BY <1>1, FoundListed, WhenActivated
<1>2. CASE Deactivated(d)
  BY <1>2, WhenStopped DEF MgrInv, Deactivated
<1> QED BY <1>1, <1>2

LEMMA CallsOK == MgrInv /\ Calls => MgrInv'
<1> SUFFICES ASSUME MgrInv, Calls PROVE MgrInv'
  OBVIOUS
<1>1. CASE ByNameOrNumber
  <2>1. PICK S, d : d \in Found(S) /\ (Activated(d) \/ Deactivated(d))
    BY <1>1 DEF ByNameOrNumber, Get, GetByNumber
  <2> QED BY <2>1, TogglesOK
<1>2. CASE \E d \in {Ata, Serial} : Register(d)
  BY <1>2, WhenRegistered, BuiltIn DEF MgrInv, Register
<1>3. CASE \E n \in Name : Unregister(n)
  BY <1>3, WhenUnregistered DEF MgrInv, Unregister
<1>4. ASSUME NEW t \in Seq(Todo), Goes(t) PROVE MgrInv'
  BY <1>4, TodoSet DEF MgrInv, Goes
<1>5. PICK c \in Seq(Card) : c = mgr.cards
  BY DEF MgrInv, MgrOK
<1>6. CASE AutoLoadAll
  <2>1. Goes(Each("load", c)) /\ Each("load", c) \in Seq(Todo)
    BY <1>6, <1>5, TodoTyped DEF AutoLoadAll
  <2> QED BY <2>1, <1>4
<1>7. CASE UsbSystemInit
  <2>1. PICK p, q, r, s :
          /\ p = Each("empty", <<Ata>>) /\ q = Each("host", c)
          /\ r = Each("register", SetToSeq(UsbClass)) /\ s = Each("load", c)
    OBVIOUS
  <2>2. p \in Seq(Todo) /\ q \in Seq(Todo) /\ r \in Seq(Todo) /\ s \in Seq(Todo)
    BY <2>1, TodoTyped, BuiltIn
  <2>3. p \o q \in Seq(Todo)
    BY <2>2, Joined
  <2>4. p \o q \o r \in Seq(Todo)
    BY <2>2, <2>3, Joined
  <2>5. p \o q \o r \o s \in Seq(Todo)
    BY <2>2, <2>4, Joined
  <2>6. Goes(p \o q \o r \o s)
    BY <1>7, <1>5, <2>1 DEF UsbSystemInit
  <2> QED BY <2>5, <2>6, <1>4
<1>8. CASE UsbSystemShutdown
  <2>1. PICK p, q : p = Each("unregister", SetToSeq(UsbClass)) /\ q = Each("cleanup", <<Ata>>)
    OBVIOUS
  <2>2. p \in Seq(Todo) /\ q \in Seq(Todo)
    BY <2>1, TodoTyped, BuiltIn
  <2>3. p \o q \in Seq(Todo)
    BY <2>2, Joined
  <2>4. Goes(p \o q)
    BY <1>8, <2>1 DEF UsbSystemShutdown
  <2> QED BY <2>3, <2>4, <1>4
<1> QED BY <1>1, <1>2, <1>3, <1>6, <1>7, <1>8 DEF Calls

LEMMA LoadOK ==
  ASSUME NEW m, MgrOK(m), NEW card, Load(m, card) PROVE MgrInv'
<1>1. CASE card \in Network /\ mgr' = Registered(InitDone(m, card), card)
  <2>1. card \in Driver
    BY <1>1 DEF Driver
  <2> QED BY <2>1, <1>1, WhenInitDone, WhenRegistered DEF MgrInv
<1>2. CASE \E d \in Sata : mgr' = Registered(InitDone(Made(m, d), d), d)
  <2>1. PICK d \in Sata : mgr' = Registered(InitDone(Made(m, d), d), d)
    BY <1>2
  <2>2. d \in Driver
    BY DEF Driver
  <2> QED BY <2>1, <2>2, WhenMade, WhenInitDone, WhenRegistered DEF MgrInv
<1>3. CASE mgr' = m
  BY <1>3 DEF MgrInv
<1> QED BY <1>1, <1>2, <1>3 DEF Load, Unmade

LEMMA HostOK ==
  ASSUME NEW m, MgrOK(m), NEW card, Host(m, card) PROVE MgrInv'
<1>1. CASE \E d \in Usb : mgr' = Registered(Made(m, d), d)
  <2>1. PICK d \in Usb : mgr' = Registered(Made(m, d), d)
    BY <1>1
  <2>2. d \in Driver
    BY DEF Driver
  <2> QED BY <2>1, <2>2, WhenMade, WhenRegistered DEF MgrInv
<1>2. CASE mgr' = m
  BY <1>2 DEF MgrInv
<1> QED BY <1>1, <1>2 DEF Host, Unmade

LEMMA StepOK == MgrInv /\ Step => MgrInv'
<1> SUFFICES ASSUME MgrInv, Step PROVE MgrInv'
  OBVIOUS
<1>1. PICK call, t, m : call = Head(mgr.todo) /\ t = Tail(mgr.todo) /\ m = [mgr EXCEPT !.todo = t]
  OBVIOUS
<1>2. call \in Todo /\ t \in Seq(Todo)
  BY <1>1 DEF MgrInv, MgrOK, Step
<1>3. MgrOK(m)
  BY <1>1, <1>2, TodoSet DEF MgrInv
<1>4. m = [mgr EXCEPT !.todo = Tail(@)]
  BY <1>1
<1>5. CASE call.do = "empty" /\ mgr' = Emptied(m)
  BY <1>3, <1>5, WhenEmptied DEF MgrInv
<1>6. CASE call.do = "register" /\ mgr' = Registered(m, call.on)
  <2>1. call.on \in Driver
    BY <1>2, <1>6 DEF Todo
  <2> QED BY <2>1, <1>3, <1>6, WhenRegistered DEF MgrInv
<1>7. CASE Load(m, call.on)
  BY <1>3, <1>7, LoadOK
<1>8. CASE Host(m, call.on)
  BY <1>3, <1>8, HostOK
<1>9. CASE mgr' = UnregisteredFrom(m, call.on) \/ mgr' = m
  BY <1>3, <1>9, WhenUnregistered DEF MgrInv
<1>10. CASE mgr' = Cleanup(m)
  BY <1>3, <1>10, WhenCleaned DEF MgrInv
<1> QED BY <1>1, <1>4, <1>5, <1>6, <1>7, <1>8, <1>9, <1>10 DEF Step

LEMMA MgrSteps == MgrInv /\ ManagerNext => MgrInv'
BY StepOK, CallsOK DEF ManagerNext

LEMMA MgrStarts == (\E cards \in Scans \cup {<<>>} : mgr = Boot(cards)) => MgrInv
<1>1. <<>> \in Seq(Card)
  OBVIOUS
<1>2. \A cards \in Scans \cup {<<>>} : cards \in Seq(Card)
  BY <1>1, DriverManagerAssumption
<1> QED BY <1>2, BootOK DEF MgrInv

LEMMA MgrGives == MgrInv => DriversAccounted
<1> SUFFICES ASSUME MgrInv PROVE DriversAccounted
  OBVIOUS
<1>1. /\ mgr.active \in Seq(Driver)
      /\ \A i, j \in 1..Len(mgr.active) : mgr.active[i] = mgr.active[j] => i = j
  BY DEF MgrInv, MgrOK, Listed
<1>2. IsInjective(mgr.active)
  BY <1>1 DEF IsInjective
<1> QED BY <1>2 DEF MgrInv, MgrOK, Listed, DriversAccounted

-----------------------------------------------------------------------------
(***************************************************************************)
(* The sessions together.                                                  *)
(***************************************************************************)
DevicesInv == MgrInv /\ DiskInv /\ UsbInv /\ ClassInv /\ ProbeInv /\ SoundInv

LEMMA DevicesStart == Init => DevicesInv
<1> SUFFICES ASSUME Init PROVE DevicesInv
  OBVIOUS
<1>1. DiskInv /\ ClassInv /\ ProbeInv /\ SoundInv
  BY DiskStarts, ClassStarts, ProbeStarts, SoundStarts DEF Init
<1>2. PICK k : usb = UsbOff(k)
  BY DEF Init, UsbInit
<1>3. UsbInv
  BY <1>2, UsbStarts DEF UsbInv
<1>4. MgrInv
  BY MgrStarts DEF Init, ManagerInit
<1> QED BY <1>1, <1>3, <1>4 DEF DevicesInv

LEMMA Unchanged ==
  /\ MgrInv /\ UNCHANGED mgr => MgrInv'
  /\ DiskInv /\ UNCHANGED storage => DiskInv'
  /\ UsbInv /\ UNCHANGED usb => UsbInv'
  /\ ClassInv /\ UNCHANGED class => ClassInv'
  /\ ProbeInv /\ UNCHANGED taken => ProbeInv'
  /\ SoundInv /\ UNCHANGED sound => SoundInv'
<1>1. DiskInv /\ UNCHANGED storage => DiskInv'
  BY DEF DiskInv
<1>2. UsbInv /\ UNCHANGED usb => UsbInv'
  BY DEF UsbInv
<1>3. ClassInv /\ UNCHANGED class => ClassInv'
  BY DEF ClassInv
<1>4. ProbeInv /\ UNCHANGED taken => ProbeInv'
  BY DEF ProbeInv
<1>5. SoundInv /\ UNCHANGED sound => SoundInv'
  BY DEF SoundInv
<1>6. MgrInv /\ UNCHANGED mgr => MgrInv'
  BY DEF MgrInv
<1> QED BY <1>1, <1>2, <1>3, <1>4, <1>5, <1>6

LEMMA DevicesStep == DevicesInv /\ [Next]_vars => DevicesInv'
<1> SUFFICES ASSUME DevicesInv, [Next]_vars PROVE DevicesInv'
  OBVIOUS
<1>1. MgrInv /\ DiskInv /\ UsbInv /\ ClassInv /\ ProbeInv /\ SoundInv
  BY DEF DevicesInv
<1>2. CASE UNCHANGED <<mgr, storage, usb, class, taken, sound>>
  BY <1>1, <1>2, Unchanged DEF DevicesInv
<1>3. CASE MassStorageNext /\ UNCHANGED <<mgr, usb, class, taken, sound>>
  BY <1>1, <1>3, Unchanged, DiskSteps DEF DevicesInv
<1>4. CASE UsbNext /\ UNCHANGED <<mgr, storage, class, taken, sound>>
  BY <1>1, <1>4, Unchanged, UsbSteps DEF DevicesInv
<1>5. CASE ClassNext /\ UNCHANGED <<mgr, storage, usb, taken, sound>>
  BY <1>1, <1>5, Unchanged, ClassSteps DEF DevicesInv
<1>6. CASE ProbeNext /\ UNCHANGED <<mgr, storage, usb, class, sound>>
  BY <1>1, <1>6, Unchanged, ProbeSteps DEF DevicesInv
<1>7. CASE SoundNext /\ UNCHANGED <<mgr, storage, usb, class, taken>>
  BY <1>1, <1>7, Unchanged, SoundSteps DEF DevicesInv
<1>8. CASE ManagerNext /\ UNCHANGED <<storage, usb, class, taken, sound>>
  BY <1>1, <1>8, Unchanged, MgrSteps DEF DevicesInv
<1> QED BY <1>2, <1>3, <1>4, <1>5, <1>6, <1>7, <1>8 DEF Next, vars

LEMMA DevicesInvariant == Spec => []DevicesInv
BY DevicesStart, DevicesStep, PTL DEF Spec

(* A driver on the active list is up, is there once and is still on the list *)
(* of the registered ones, and no two of these share a number, for any       *)
(* drivers and cards, at every step of starting, loading, removing and       *)
(* stopping them (driver_manager.c, hardware_detect.c, usb_driver_manager.c). *)
THEOREM DriversCorrect == Spec => []DriversAccounted
<1>1. DevicesInv => DriversAccounted
  BY MgrGives DEF DevicesInv
<1> QED BY <1>1, DevicesInvariant, PTL

(* A read of the disk that returns 0 leaves in the buffer the blocks that   *)
(* the device sent for this very read, for any number of commands that were *)
(* refused, lost, half answered or left unread before it                   *)
(* (usb_mass_storage.c).                                                   *)
THEOREM ReadsCorrect == Spec => []ReadGivesItsBlocks
<1>1. DevicesInv => ReadGivesItsBlocks
  BY DEF DevicesInv, DiskInv, DiskOK, ReadOK, T, tag, ReadGivesItsBlocks
<1> QED BY <1>1, DevicesInvariant, PTL

(* What a controller still does for a transfer that has returned touches no  *)
(* other transfer's descriptors, of now or later, and EHCI finds nothing     *)
(* linked between two calls, for a pool of any size; and what the class      *)
(* drivers keep of a setting is what the device took, for any devices and    *)
(* settings, as long as every report of that setting was true (ehci.c,       *)
(* ohci.c, usb_driver_manager.c, usb_hid_class.c and usb_audio.c).          *)
THEOREM ControllersCorrect == Spec => []ControllersInStep
<1>1. DevicesInv => ControllersInStep
  BY UsbGives, ProbeGives DEF DevicesInv, ControllersInStep
<1> QED BY <1>1, DevicesInvariant, PTL

(* What the handlers were told to be down is what the last reports hold     *)
(* down, for any keys, buttons and reports, and nothing is captured or      *)
(* played without a stream (usb_hid_class.c, usb_audio.c).                 *)
THEOREM HandlersCorrect == Spec => []HandlersKnow
<1>1. DevicesInv => HandlersKnow
  BY ClassGives DEF DevicesInv
<1> QED BY <1>1, DevicesInvariant, PTL

(* No tone stays on the speaker that nobody will end, and every buffer that *)
(* is mixed or recorded into is allocated and has one owner, for any songs, *)
(* channels, sizes and blocks (sound.c, advanced_sound.c).                 *)
THEOREM SoundCorrect == Spec => []SoundOwned
<1>1. DevicesInv => SoundOwned
  BY SoundGives DEF DevicesInv
<1> QED BY <1>1, DevicesInvariant, PTL
=============================================================================
