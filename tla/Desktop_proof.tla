---------------------------- MODULE Desktop_proof ----------------------------
(***************************************************************************)
(* Proofs about the desktop, for any number of windows, any buffers, boards*)
(* and directories.  Every session has an inductive invariant of its own,  *)
(* as the sessions share no state: the windows, the mouse's packets, the   *)
(* shell's line, the snake, the file manager, the mixer and the strings.   *)
(* The last section puts them together.                                    *)
(***************************************************************************)
EXTENDS MCDesktop, NatLemmas, SequenceTheorems, TLAPS

(***************************************************************************)
(* The windows.  An operation of window.c works on a record d; drag is the *)
(* window that is being dragged, which none of them changes.               *)
(***************************************************************************)
IsState(d) ==
  d = [win |-> d.win, next |-> d.next, data |-> d.data, older |-> d.older,
       grabbed |-> d.grabbed, lost |-> d.lost]

Shown(id, app, z, a) ==
  [visible |-> TRUE, id |-> id, app |-> app, z |-> z, data |-> a]

WindowsOK(w) ==
  /\ DOMAIN w = Slots
  /\ \A i \in Slots :
       /\ w[i].z \in 0 .. ZLimit - 1
       /\ \/ w[i] = Hidden(w[i].z)
          \/ /\ w[i] = Shown(w[i].id, w[i].app, w[i].z, w[i].data)
             /\ w[i].app \in App /\ w[i].data \in Block \union {NoData}

(* No two windows have an id in common, and the next one is new. *)
IdsOK(d) ==
  /\ d.next \in Nat \ {0}
  /\ \A i \in Visible(d.win) : d.win[i].id \in Nat \ {0} /\ d.win[i].id < d.next
  /\ \A i, j \in Visible(d.win) : i # j => d.win[i].id # d.win[j].id

OrderOK(d) ==
  \A i, j \in Visible(d.win) : i # j =>
    \/ <<d.win[i].id, d.win[j].id>> \in d.older /\ d.win[i].z < d.win[j].z
    \/ <<d.win[j].id, d.win[i].id>> \in d.older /\ d.win[j].z < d.win[i].z

DragOK(d, drag) ==
  /\ drag \in Nat /\ drag < d.next
  /\ \A i \in Visible(d.win) : d.win[i].id = drag => i = d.grabbed

DataOK(d) ==
  /\ d.data \subseteq Block /\ d.lost \subseteq d.data
  /\ \A i, j \in Visible(d.win) :
       i # j /\ d.win[i].data # NoData => d.win[i].data # d.win[j].data
  /\ \A a : a \in d.data <=>
       a \in d.lost \/ \E i \in Visible(d.win) : d.win[i].data = a /\ a # NoData
  /\ \A i \in Visible(d.win) : d.win[i].data \notin d.lost

StateOK(d, drag) ==
  /\ IsState(d) /\ WindowsOK(d.win)
  /\ IdsOK(d) /\ OrderOK(d) /\ DragOK(d, drag) /\ DataOK(d)

(* The bounds: m is above every z_index. *)
Below(w, m) == \A i \in Slots : w[i].z <= m

-----------------------------------------------------------------------------
LEMMA TopZIs ==
  ASSUME NEW w, WindowsOK(w), NEW S \in SUBSET Slots
  PROVE  /\ TopZ(w, S) \in Nat
         /\ \A i \in S : w[i].z <= TopZ(w, S)
         /\ \A m \in Nat : (\A i \in S : w[i].z <= m) => TopZ(w, S) <= m
<1> DEFINE T == {0} \union {w[i].z : i \in S}
<1>1. ZLimit \in Nat \ {0}
  BY DesktopAssumption
<1>2. \A t \in T : t \in Nat /\ t <= ZLimit
  BY <1>1 DEF WindowsOK
<1>3. T \in SUBSET Nat /\ T # {} /\ 0 \in T
  BY <1>2
<1>4. \A i \in S : w[i].z \in T
  OBVIOUS
<1>5. \A m \in Nat : (\A i \in S : w[i].z <= m) => \A t \in T : t <= m
  OBVIOUS
<1>6. TopZ(w, S) = Max(T)
  BY DEF TopZ
<1> HIDE DEF T
<1>7. Max(T) \in T /\ \A t \in T : t <= Max(T)
  BY <1>1, <1>2, <1>3, MaxOfNats
<1> QED BY <1>3, <1>4, <1>5, <1>6, <1>7

(* One before all the windows S, below the wrap. *)
LEMMA InFrontIs ==
  ASSUME NEW w, WindowsOK(w), NEW S \in SUBSET Slots,
         NEW m \in Nat, m < MaxZ, Below(w, m)
  PROVE  /\ InFront(w, S) \in 0 .. ZLimit - 1
         /\ InFront(w, S) <= m + 1
         /\ \A i \in S : w[i].z < InFront(w, S)
<1>1. /\ TopZ(w, S) \in Nat /\ TopZ(w, S) <= m
      /\ \A i \in S : w[i].z <= TopZ(w, S) /\ w[i].z \in Nat
  BY TopZIs DEF Below, WindowsOK
<1>2. MaxZ \in Nat /\ ZLimit \in Nat \ {0} /\ MaxZ < ZLimit
  BY DesktopAssumption
<1>3. InFront(w, S) = TopZ(w, S) + 1
  BY <1>1, <1>2 DEF InFront
<1> QED BY <1>1, <1>2, <1>3

LEMMA FrontmostIs ==
  ASSUME NEW w, WindowsOK(w), NEW S \in SUBSET Slots, S # {}
  PROVE  Frontmost(w, S) \in S
<1>1. ZLimit \in Nat \ {0} /\ Slots \subseteq Nat
  BY DesktopAssumption
<1> DEFINE T == {w[i].z : i \in S}
<1>2. T \in SUBSET Nat /\ T # {} /\ \A t \in T : t <= ZLimit
  <2>1. \A i \in S : w[i].z \in Nat /\ w[i].z <= ZLimit
    BY <1>1 DEF WindowsOK
  <2> QED BY <2>1
<1>3. Max(T) \in T /\ \A t \in T : t <= Max(T)
  <2> HIDE DEF T
  <2> QED BY <1>1, <1>2, MaxOfNats
<1>4. PICK top : top \in Nat /\ (\E i \in S : w[i].z = top) /\ \A i \in S : w[i].z <= top
  BY <1>2, <1>3
<1> DEFINE F == {i \in S : w[i].z = top}
<1>5. F \in SUBSET Nat /\ F # {}
  BY <1>1, <1>4
<1>6. Min(F) \in F /\ \A i \in F : Min(F) <= i
  <2> HIDE DEF F
  <2> QED BY <1>5, MinOfNats
<1>7. PICK i \in S : w[i].z = top /\ \A j \in S : w[j].z = top => i <= j
  BY <1>6
<1>8. \A j \in S : w[i].z > w[j].z \/ (w[i].z = w[j].z /\ i <= j)
  BY <1>1, <1>4, <1>7 DEF WindowsOK
<1> QED BY <1>7, <1>8 DEF Frontmost

LEMMA FreeSlotIs ==
  ASSUME NEW w, ~FullTable(w)
  PROVE  FreeSlot(w) \in Slots \ Visible(w)
<1>1. Slots \ Visible(w) \in SUBSET Nat /\ Slots \ Visible(w) # {}
  BY DesktopAssumption DEF FullTable, Visible
<1> QED BY <1>1, MinOfNats DEF FreeSlot

LEMMA OpenedIs ==
  ASSUME NEW d, NEW drag, StateOK(d, drag),
         NEW m \in Nat, m < MaxZ, Below(d.win, m),
         NEW app \in App, NEW a \in Block \union {NoData}, a \notin d.data,
         app \in HasData => a \in Block
  PROVE  /\ StateOK(Opened(d, app, a), drag)
         /\ Below(Opened(d, app, a).win, m + 1)
         /\ Opened(d, app, a).next \in Nat
         /\ Opened(d, app, a).next <= d.next + 1
<1> DEFINE e == Opened(d, app, a)
           mine == IF app \in HasData THEN {a} ELSE {}
<1>0. /\ WindowsOK(d.win) /\ IsState(d) /\ IdsOK(d) /\ OrderOK(d)
      /\ DragOK(d, drag) /\ DataOK(d)
  BY DEF StateOK
<1>1. CASE FullTable(d.win)
  <2>1. e = [win |-> d.win, next |-> d.next, data |-> d.data \union mine,
             older |-> d.older, grabbed |-> d.grabbed, lost |-> d.lost \union mine]
    BY <1>0, <1>1 DEF Opened, IsState
  <2>2. DataOK(e)
    <3>1. \A i \in Visible(d.win) : d.win[i].data # a \/ a = NoData
      BY <1>0 DEF DataOK
    <3> QED BY <1>0, <2>1, <3>1, DesktopAssumption DEF DataOK, NoData
  <2>3. IsState(e) /\ WindowsOK(e.win) /\ IdsOK(e) /\ OrderOK(e) /\ DragOK(e, drag)
    BY <1>0, <2>1 DEF IsState, IdsOK, OrderOK, DragOK
  <2>4. Below(e.win, m + 1)
    BY <1>0, <2>1 DEF Below, WindowsOK
  <2>5. e.next \in Nat /\ e.next <= d.next + 1
    BY <1>0, <2>1 DEF IdsOK
  <2> QED BY <2>2, <2>3, <2>4, <2>5 DEF StateOK
<1>2. CASE ~FullTable(d.win)
  <2> DEFINE i == FreeSlot(d.win)
             z == InFront(d.win, Visible(d.win) \union {i})
             n == [visible |-> TRUE, id |-> d.next, app |-> app, z |-> z,
                   data |-> IF app \in HasData THEN a ELSE NoData]
  <2>1. i \in Slots \ Visible(d.win)
    BY <1>2, FreeSlotIs
  <2>2. z \in 0 .. ZLimit - 1 /\ z <= m + 1 /\ \A j \in Visible(d.win) : d.win[j].z < z
    BY <1>0, <2>1, InFrontIs DEF Visible
  <2>3. e = [win |-> [d.win EXCEPT ![i] = n], next |-> d.next + 1,
             data |-> d.data \union mine,
             older |-> Youngest(d.older, IdsOf(d.win), d.next),
             grabbed |-> d.grabbed, lost |-> d.lost]
    <3> HIDE DEF i, z
    <3> QED BY <1>0, <1>2 DEF Opened, IsState, NewId, i, z
  <2> HIDE DEF i, z, e
  <2>4. /\ DOMAIN e.win = Slots /\ e.win[i] = n
        /\ \A j \in Slots \ {i} : e.win[j] = d.win[j]
        /\ Visible(e.win) = Visible(d.win) \union {i}
    BY <1>0, <2>1, <2>3 DEF WindowsOK, Visible
  <2>5. IsState(e) /\ WindowsOK(e.win)
    BY <1>0, <2>2, <2>3, <2>4 DEF IsState, WindowsOK, Shown, Hidden
  <2>6. IdsOK(e) /\ e.next = d.next + 1 /\ e.next \in Nat
    BY <1>0, <2>1, <2>3, <2>4 DEF IdsOK, Visible
  <2>7. OrderOK(e)
    <3>1. \A j, k \in Visible(d.win) : j # k =>
            (<<d.win[j].id, d.win[k].id>> \in d.older =>
               <<d.win[j].id, d.win[k].id>> \in e.older)
      BY <1>0, <2>3 DEF IdsOK, Youngest, Without
    <3>2. \A j \in Visible(d.win) :
            <<d.win[j].id, d.next>> \in e.older /\ d.win[j].z < n.z
      BY <1>0, <2>2, <2>3 DEF IdsOK, Youngest, IdsOf
    <3>3. \A j \in Visible(d.win) : j \in Slots \ {i}
      BY <2>1 DEF Visible
    <3> HIDE DEF n
    <3>4. n.id = d.next
      BY DEF n
    <3> QED BY <1>0, <2>4, <3>1, <3>2, <3>3, <3>4 DEF OrderOK
  <2>8. DragOK(e, drag)
    BY <1>0, <2>1, <2>3, <2>4 DEF DragOK, IdsOK, Visible
  <2>9. DataOK(e)
    <3>1. \A j \in Visible(d.win) : j \in Slots \ {i} /\ (d.win[j].data # a \/ a = NoData)
      BY <1>0, <2>1 DEF DataOK, Visible
    <3>2. NoData \notin Block
      BY DesktopAssumption DEF NoData
    <3>3. e.data = d.data \union mine /\ e.lost = d.lost
      BY <2>3
    <3>4. n.data = (IF app \in HasData THEN a ELSE NoData)
      OBVIOUS
    <3> HIDE DEF n
    <3> QED BY <1>0, <2>4, <3>1, <3>2, <3>3, <3>4 DEF DataOK
  <2>10. Below(e.win, m + 1)
    BY <1>0, <2>2, <2>4 DEF Below, WindowsOK
  <2> QED BY <1>0, <2>5, <2>6, <2>7, <2>8, <2>9, <2>10 DEF StateOK, IdsOK, e
<1> QED BY <1>1, <1>2

LEMMA ShownIs ==
  ASSUME NEW w, WindowsOK(w), NEW i \in Visible(w)
  PROVE  /\ i \in Slots /\ w[i] = Shown(w[i].id, w[i].app, w[i].z, w[i].data)
         /\ w[i].app \in App /\ w[i].data \in Block \union {NoData}
<1>1. i \in Slots /\ w[i].visible
  BY DEF Visible
<1>2. w[i] # Hidden(w[i].z)
  <2>1. PICK y : y = w[i].z
    OBVIOUS
  <2>2. Hidden(y).visible = FALSE
    BY DEF Hidden
  <2> QED BY <1>1, <2>1, <2>2
<1> QED BY <1>1, <1>2 DEF WindowsOK

LEMMA LiftedIs ==
  ASSUME NEW w, NEW id, NEW app, NEW z, NEW a, w = Shown(id, app, z, a),
         NEW y, NEW v, v = [w EXCEPT !.z = y]
  PROVE  v = Shown(id, app, y, a)
BY DEF Shown

LEMMA RaisedIs ==
  ASSUME NEW d, NEW drag, StateOK(d, drag),
         NEW m \in Nat, m < MaxZ, Below(d.win, m), NEW i \in Visible(d.win)
  PROVE  /\ StateOK([Raised(d, i) EXCEPT !.grabbed = i], d.win[i].id)
         /\ Below([Raised(d, i) EXCEPT !.grabbed = i].win, m + 1)
         /\ [Raised(d, i) EXCEPT !.grabbed = i].next = d.next
         /\ [Raised(d, i) EXCEPT !.grabbed = i].data = d.data
         /\ i \in Visible([Raised(d, i) EXCEPT !.grabbed = i].win)
<1> DEFINE r == Raised(d, i)
           e == [r EXCEPT !.grabbed = i]
           z == InFront(d.win, Visible(d.win))
<1>0. /\ WindowsOK(d.win) /\ IsState(d) /\ IdsOK(d) /\ OrderOK(d) /\ DataOK(d)
      /\ i \in Slots
  BY DEF StateOK, Visible
<1>1. z \in 0 .. ZLimit - 1 /\ z <= m + 1 /\ \A j \in Visible(d.win) : d.win[j].z < z
  BY <1>0, InFrontIs DEF Visible
<1>2. r = [win |-> [d.win EXCEPT ![i].z = z], next |-> d.next, data |-> d.data,
           older |-> Youngest(d.older, IdsOf(d.win), d.win[i].id),
           grabbed |-> d.grabbed, lost |-> d.lost]
  <2>1. PICK x : x = r
    OBVIOUS
  <2>2. PICK w : w = [d.win EXCEPT ![i].z = z]
    OBVIOUS
  <2> HIDE DEF z
  <2>3. x = [d EXCEPT !.win = w, !.older = Youngest(@, IdsOf(d.win), d.win[i].id)]
    BY <2>1, <2>2 DEF Raised, z
  <2>4. x = [win |-> w, next |-> d.next, data |-> d.data,
             older |-> Youngest(d.older, IdsOf(d.win), d.win[i].id),
             grabbed |-> d.grabbed, lost |-> d.lost]
    BY <1>0, <2>3 DEF IsState
  <2> QED BY <2>1, <2>2, <2>4
<1> HIDE DEF r, z
<1>3. e = [win |-> [d.win EXCEPT ![i].z = z], next |-> d.next, data |-> d.data,
           older |-> Youngest(d.older, IdsOf(d.win), d.win[i].id),
           grabbed |-> i, lost |-> d.lost]
  BY <1>2
<1> HIDE DEF e
<1>4. d.win[i] = Shown(d.win[i].id, d.win[i].app, d.win[i].z, d.win[i].data)
  BY <1>0, ShownIs
<1>5. /\ DOMAIN e.win = Slots
      /\ e.win[i] = Shown(d.win[i].id, d.win[i].app, z, d.win[i].data)
      /\ \A j \in Slots \ {i} : e.win[j] = d.win[j]
  <2>1. e.win[i] = [d.win[i] EXCEPT !.z = z]
    BY <1>0, <1>3 DEF WindowsOK
  <2>2. e.win[i] = Shown(d.win[i].id, d.win[i].app, z, d.win[i].data)
    BY <1>4, <2>1, LiftedIs
  <2> QED BY <1>0, <1>3, <2>2 DEF WindowsOK
<1>6. Visible(e.win) = Visible(d.win)
  BY <1>0, <1>5 DEF Visible, Shown
<1>7. \A j \in Visible(d.win) :
        /\ e.win[j].id = d.win[j].id /\ e.win[j].data = d.win[j].data
        /\ j # i => e.win[j].z = d.win[j].z
  BY <1>5 DEF Visible, Shown
<1>8. e.win[i].z = z
  BY <1>5 DEF Shown
<1>9. IsState(e) /\ WindowsOK(e.win)
  <2>1. d.win[i].app \in App /\ d.win[i].data \in Block \union {NoData}
    BY <1>0, ShownIs
  <2>2. IsState(e)
    BY <1>3 DEF IsState
  <2>3. \A j \in Slots \ {i} : e.win[j] = d.win[j]
    BY <1>5
  <2>4. /\ e.win[i].z = z /\ e.win[i].id = d.win[i].id
        /\ e.win[i].app = d.win[i].app /\ e.win[i].data = d.win[i].data
    BY <1>5 DEF Shown
  <2>5. e.win[i] = Shown(e.win[i].id, e.win[i].app, e.win[i].z, e.win[i].data)
    BY <1>5, <2>4
  <2>6. DOMAIN e.win = Slots
    BY <1>5
  <2> QED BY <1>0, <1>1, <2>1, <2>2, <2>3, <2>4, <2>5, <2>6 DEF WindowsOK
<1>10. IdsOK(e) /\ DataOK(e)
  <2>1. IdsOK(e)
    BY <1>0, <1>3, <1>6, <1>7 DEF IdsOK
  <2>2. DataOK(e)
    BY <1>0, <1>3, <1>6, <1>7 DEF DataOK
  <2> QED BY <2>1, <2>2
<1>11. DragOK(e, d.win[i].id)
  BY <1>0, <1>3, <1>6, <1>7 DEF DragOK, IdsOK
<1>12. OrderOK(e)
  <2>1. \A j, k \in Visible(d.win) : j # k /\ j # i /\ k # i =>
          (<<d.win[j].id, d.win[k].id>> \in d.older =>
             <<d.win[j].id, d.win[k].id>> \in e.older)
    BY <1>0, <1>3 DEF IdsOK, Youngest, Without
  <2>2. \A j \in Visible(d.win) : j # i =>
          <<d.win[j].id, d.win[i].id>> \in e.older /\ d.win[j].z < z
    BY <1>0, <1>1, <1>3 DEF IdsOK, Youngest, IdsOf
  <2>3. \A j \in Visible(d.win) : j # i =>
          <<e.win[j].id, e.win[i].id>> \in e.older /\ e.win[j].z < e.win[i].z
    BY <1>0, <1>7, <1>8, <2>2
  <2>4. ASSUME NEW j \in Visible(d.win), NEW k \in Visible(d.win), j # k
        PROVE  \/ <<e.win[j].id, e.win[k].id>> \in e.older /\ e.win[j].z < e.win[k].z
               \/ <<e.win[k].id, e.win[j].id>> \in e.older /\ e.win[k].z < e.win[j].z
    <3>1. CASE j = i
      BY <2>3, <2>4, <3>1
    <3>2. CASE k = i
      BY <2>3, <2>4, <3>2
    <3>3. CASE j # i /\ k # i
      <4>1. \/ <<d.win[j].id, d.win[k].id>> \in d.older /\ d.win[j].z < d.win[k].z
            \/ <<d.win[k].id, d.win[j].id>> \in d.older /\ d.win[k].z < d.win[j].z
        BY <1>0, <2>4 DEF OrderOK
      <4>2. /\ e.win[j].id = d.win[j].id /\ e.win[j].z = d.win[j].z
            /\ e.win[k].id = d.win[k].id /\ e.win[k].z = d.win[k].z
        BY <1>7, <3>3
      <4> QED BY <2>1, <2>4, <3>3, <4>1, <4>2
    <3> QED BY <3>1, <3>2, <3>3
  <2> QED BY <1>6, <2>4 DEF OrderOK
<1>13. Below(e.win, m + 1)
  <2>1. \A j \in Slots : d.win[j].z \in Nat /\ d.win[j].z <= m
    BY <1>0 DEF Below, WindowsOK
  <2> QED BY <1>1, <1>5, <1>8, <2>1 DEF Below
<1>14. e.next = d.next /\ e.data = d.data /\ i \in Visible(e.win)
  BY <1>3, <1>6
<1> QED BY <1>9, <1>10, <1>11, <1>12, <1>13, <1>14 DEF StateOK, r, e

LEMMA ClosedIs ==
  ASSUME NEW d, NEW drag, StateOK(d, drag), NEW i \in Visible(d.win)
  PROVE  StateOK(Closed(d, i), drag) /\ Closed(d, i).next = d.next
<1> DEFINE e == Closed(d, i)
<1>0. /\ WindowsOK(d.win) /\ IsState(d) /\ IdsOK(d) /\ OrderOK(d)
      /\ DragOK(d, drag) /\ DataOK(d) /\ i \in Slots
  BY DEF StateOK, Visible
<1>1. e = [win |-> [d.win EXCEPT ![i] = Hidden(d.win[i].z)], next |-> d.next,
           data |-> d.data \ {d.win[i].data},
           older |-> Without(d.older, d.win[i].id),
           grabbed |-> IF d.grabbed = i THEN NoSlot ELSE d.grabbed, lost |-> d.lost]
  <2>1. PICK x : x = e
    OBVIOUS
  <2>2. PICK w : w = [d.win EXCEPT ![i] = Hidden(d.win[i].z)]
    OBVIOUS
  <2>3. PICK g : g = IF d.grabbed = i THEN NoSlot ELSE d.grabbed
    OBVIOUS
  <2>4. PICK f : f = d.data \ {d.win[i].data}
    OBVIOUS
  <2>5. x = [d EXCEPT !.win = w, !.data = f,
                      !.older = Without(@, d.win[i].id), !.grabbed = g]
    BY <2>1, <2>2, <2>3, <2>4 DEF Closed, FreedData
  <2>6. x = [win |-> w, next |-> d.next, data |-> f,
             older |-> Without(d.older, d.win[i].id),
             grabbed |-> g, lost |-> d.lost]
    BY <1>0, <2>5 DEF IsState
  <2> QED BY <2>1, <2>2, <2>3, <2>4, <2>6
<1> HIDE DEF e
<1>2. /\ DOMAIN e.win = Slots /\ e.win[i] = Hidden(d.win[i].z)
      /\ \A j \in Slots \ {i} : e.win[j] = d.win[j]
      /\ Visible(e.win) = Visible(d.win) \ {i}
  BY <1>0, <1>1 DEF WindowsOK, Visible, Hidden
<1>3. IsState(e) /\ WindowsOK(e.win)
  BY <1>0, <1>1, <1>2 DEF IsState, WindowsOK, Hidden
<1>4. \A j \in Visible(e.win) : j \in Visible(d.win) /\ j # i /\ e.win[j] = d.win[j]
  BY <1>2 DEF Visible
<1>5. IdsOK(e) /\ DragOK(e, drag)
  <2>1. IdsOK(e)
    BY <1>0, <1>1, <1>4 DEF IdsOK
  <2>2. DragOK(e, drag)
    BY <1>0, <1>1, <1>4 DEF IdsOK, DragOK
  <2> QED BY <2>1, <2>2
<1>6. OrderOK(e)
  <2>1. \A j, k \in Visible(e.win) :
          (<<d.win[j].id, d.win[k].id>> \in d.older =>
             <<d.win[j].id, d.win[k].id>> \in e.older)
    BY <1>0, <1>1, <1>4 DEF IdsOK, Without
  <2> QED BY <1>0, <1>4, <2>1 DEF OrderOK
<1>7. DataOK(e)
  <2>1. e.data = d.data \ {d.win[i].data} /\ e.lost = d.lost
    BY <1>1
  <2>2. d.win[i].data \notin d.lost
    BY <1>0 DEF DataOK
  <2>3. NoData \notin d.data
    BY <1>0, DesktopAssumption DEF DataOK, NoData
  <2> QED BY <1>0, <1>2, <1>4, <2>1, <2>2, <2>3 DEF DataOK
<1> QED BY <1>1, <1>3, <1>5, <1>6, <1>7 DEF StateOK, e

-----------------------------------------------------------------------------
WinInv ==
  /\ StateOK(Now, dragging)
  /\ next_id <= MaxId + 1
  /\ left \in BOOLEAN /\ halted \in BOOLEAN

LEMMA NowIs ==
  /\ Now.win = win /\ Now.next = next_id /\ Now.data = data
  /\ Now.older = older /\ Now.grabbed = grabbed /\ Now.lost = lost
BY DEF Now

LEMMA BecomesIs ==
  ASSUME NEW d, NEW drag, StateOK(d, drag), Becomes(d), dragging' = drag
  PROVE  StateOK(Now, dragging)' /\ next_id' = d.next
<1>1. Now' = d
  BY DEF Becomes, Now, StateOK, IsState
<1>2. StateOK(Now', dragging')
  BY <1>1
<1> QED BY <1>2 DEF Becomes

(* Room for n windows, in terms of the lemmas above. *)
LEMMA RoomIs ==
  ASSUME WinInv, NEW n \in Nat \ {0}, Room(n)
  PROVE  /\ next_id \in Nat \ {0} /\ next_id + n <= MaxId + 1
         /\ \E m \in Nat : m + n <= MaxZ /\ Below(win, m)
<1>1. WindowsOK(win) /\ next_id \in Nat \ {0}
  BY NowIs DEF WinInv, StateOK, IdsOK
<1>2. TopZ(win, Slots) \in Nat /\ \A i \in Slots : win[i].z <= TopZ(win, Slots)
  BY <1>1, TopZIs
<1> QED BY <1>1, <1>2 DEF Room, Below

LEMMA WinInvInit == Init => WinInv
<1> SUFFICES ASSUME Init PROVE WinInv
  OBVIOUS
<1>1. Visible(win) = {}
  BY DEF Init, Visible, Hidden
<1>2. WindowsOK(win)
  <2>1. Hidden(0).z = 0
    BY DEF Hidden
  <2> QED BY <2>1, DesktopAssumption DEF Init, WindowsOK
<1>3. IsState(Now)
  BY DEF IsState, Now
<1>4. IdsOK(Now) /\ OrderOK(Now) /\ DragOK(Now, dragging) /\ DataOK(Now)
  BY <1>1, NowIs DEF Init, IdsOK, OrderOK, DragOK, DataOK, NoId
<1>5. StateOK(Now, dragging)
  BY <1>2, <1>3, <1>4, NowIs DEF StateOK
<1>6. next_id <= MaxId + 1 /\ left \in BOOLEAN /\ halted \in BOOLEAN
  <2>1. MaxId \in Nat
    BY DesktopAssumption
  <2>2. next_id = 1 /\ left = FALSE /\ halted = FALSE
    BY DEF Init
  <2>3. next_id <= MaxId + 1
    BY <2>1, <2>2
  <2> QED BY <2>2, <2>3 DEF Init
<1> QED BY <1>5, <1>6 DEF WinInv

LEMMA WinInvNext == WinInv /\ [Next]_vars => WinInv'
<1> SUFFICES ASSUME WinInv, [Next]_vars PROVE WinInv'
  OBVIOUS
<1>0. /\ MaxId \in Nat /\ MaxZ \in Nat /\ NoData \notin Block
      /\ WindowsOK(win) /\ next_id \in Nat \ {0} /\ next_id <= MaxId + 1
      /\ data \subseteq Block /\ StateOK(Now, dragging)
      /\ left \in BOOLEAN /\ halted \in BOOLEAN
  BY DesktopAssumption, NowIs DEF WinInv, StateOK, IdsOK, DataOK, NoData
<1>1. ASSUME NEW app \in App, NEW a \in Block \union {NoData}, a \notin data,
             app \in HasData => a \in Block, Room(1),
             Becomes(Opened(Now, app, a)), dragging' = dragging,
             left' \in BOOLEAN, halted' \in BOOLEAN
      PROVE  WinInv'
  <2>1. PICK m \in Nat : m + 1 <= MaxZ /\ Below(win, m)
    BY <1>1, RoomIs
  <2>2. m < MaxZ
    BY <1>0, <2>1
  <2>3. /\ StateOK(Opened(Now, app, a), dragging)
        /\ Opened(Now, app, a).next \in Nat
        /\ Opened(Now, app, a).next <= next_id + 1
    BY <1>0, <1>1, <2>1, <2>2, NowIs, OpenedIs
  <2>4. StateOK(Now, dragging)' /\ next_id' = Opened(Now, app, a).next
    BY <1>1, <2>3, BecomesIs
  <2>5. next_id + 1 <= MaxId + 1
    BY <1>1, RoomIs
  <2>6. next_id' <= MaxId + 1
    BY <1>0, <2>3, <2>4, <2>5
  <2> QED BY <1>1, <2>4, <2>6 DEF WinInv
<1>2. CASE ShellCommand
  <2>1. left' \in BOOLEAN /\ halted' \in BOOLEAN /\ dragging' = dragging
    BY <1>0, <1>2 DEF ShellCommand
  <2>2. CASE Room(2) /\ Becomes(Opened(Opened(Now, "plain", NoData), "plain", NoData))
    <3>1. PICK m \in Nat : m + 2 <= MaxZ /\ Below(win, m)
      BY <2>2, RoomIs
    <3>2. m < MaxZ /\ m + 1 < MaxZ /\ m + 1 \in Nat
      BY <1>0, <3>1
    <3>3. PICK e : e = Opened(Now, "plain", NoData)
      OBVIOUS
    <3>4. NoData \notin data /\ "plain" \in App /\ "plain" \notin HasData
      BY <1>0 DEF App, HasData
    <3>5. StateOK(e, dragging) /\ Below(e.win, m + 1) /\ e.next \in Nat /\ e.next <= next_id + 1
      BY <1>0, <3>1, <3>2, <3>3, <3>4, NowIs, OpenedIs
    <3>6. NoData \notin e.data
      BY <1>0, <3>5 DEF StateOK, DataOK
    <3>7. PICK f : f = Opened(e, "plain", NoData)
      OBVIOUS
    <3>8. StateOK(f, dragging) /\ f.next \in Nat /\ f.next <= e.next + 1
      BY <3>2, <3>4, <3>5, <3>6, <3>7, OpenedIs
    <3>9. StateOK(Now, dragging)' /\ next_id' = f.next
      BY <2>1, <2>2, <3>3, <3>7, <3>8, BecomesIs
    <3>10. next_id + 2 <= MaxId + 1
      BY <2>2, RoomIs
    <3>11. next_id' <= MaxId + 1
      BY <1>0, <3>5, <3>8, <3>9, <3>10
    <3> QED BY <2>1, <3>9, <3>11 DEF WinInv
  <2>3. ASSUME NEW a \in Block \ data, Room(1), Becomes(Opened(Now, "snake", a))
        PROVE  WinInv'
    BY <1>1, <2>1, <2>3 DEF App
  <2>4. CASE Room(1) /\ Becomes(Opened(Now, "monitor", NoData))
    BY <1>0, <1>1, <2>1, <2>4 DEF App, HasData
  <2> QED BY <1>2, <2>2, <2>3, <2>4 DEF ShellCommand
<1>3. CASE KeyQ
  <2>1. PICK i \in KeyTaker(win) : Becomes(Closed(Now, i))
    BY <1>3 DEF KeyQ
  <2>2. i \in Visible(win)
    <3>1. Visible(win) # {} /\ i = Frontmost(win, Visible(win))
      BY <2>1 DEF KeyTaker
    <3> QED BY <1>0, <3>1, FrontmostIs DEF Visible
  <2>3. StateOK(Closed(Now, i), dragging) /\ Closed(Now, i).next = next_id
    BY <1>0, <2>2, NowIs, ClosedIs
  <2>4. StateOK(Now, dragging)' /\ next_id' = next_id
    BY <1>3, <2>1, <2>3, BecomesIs DEF KeyQ
  <2> QED BY <1>0, <1>3, <2>4 DEF WinInv, KeyQ
<1>4. ASSUME NEW S \in SUBSET Visible(win), S # {}, PressWindow(S)
      PROVE  WinInv'
  <2>1. PICK i : i = Frontmost(win, S)
    OBVIOUS
  <2>2. i \in Visible(win)
    BY <1>0, <1>4, <2>1, FrontmostIs DEF Visible
  <2>3. PICK e : e = [Raised(Now, i) EXCEPT !.grabbed = i]
    OBVIOUS
  <2>4. /\ Room(1) /\ dragging' = win[i].id /\ OnClick(e, i)
        /\ left' \in BOOLEAN /\ halted' \in BOOLEAN
    BY <1>0, <1>4, <2>1, <2>3 DEF PressWindow
  <2>5. PICK m \in Nat : m + 1 <= MaxZ /\ Below(win, m)
    BY <2>4, RoomIs
  <2>6. m < MaxZ
    BY <1>0, <2>5
  <2>7. /\ StateOK(e, win[i].id) /\ Below(e.win, m + 1)
        /\ e.next = next_id /\ e.data = data /\ i \in Visible(e.win)
    BY <1>0, <2>2, <2>3, <2>5, <2>6, NowIs, RaisedIs
  <2>8. CASE Becomes(Closed(e, i))
    <3>1. StateOK(Closed(e, i), win[i].id) /\ Closed(e, i).next = next_id
      BY <2>7, ClosedIs
    <3> QED BY <1>0, <2>4, <2>8, <3>1, BecomesIs DEF WinInv
  <2>9. CASE Becomes(e)
    BY <1>0, <2>4, <2>7, <2>9, BecomesIs DEF WinInv
  <2>10. ASSUME NEW a \in Block \ data, Room(2), Becomes(Opened(e, "viewer", a))
         PROVE  WinInv'
    <3>1. PICK k \in Nat : k + 2 <= MaxZ /\ Below(win, k)
      BY <2>10, RoomIs
    <3>2. k < MaxZ /\ k + 1 < MaxZ /\ k + 1 \in Nat
      BY <1>0, <3>1
    <3>3. Below(e.win, k + 1)
      BY <1>0, <2>2, <2>3, <3>1, <3>2, NowIs, RaisedIs
    <3>4. PICK f : f = Opened(e, "viewer", a)
      OBVIOUS
    <3>5. StateOK(f, win[i].id) /\ f.next \in Nat /\ f.next <= next_id + 1
      BY <2>7, <2>10, <3>2, <3>3, <3>4, OpenedIs DEF App
    <3>6. StateOK(Now, dragging)' /\ next_id' = f.next
      BY <2>4, <2>10, <3>4, <3>5, BecomesIs
    <3>7. next_id + 2 <= MaxId + 1
      BY <2>10, RoomIs
    <3>8. next_id' <= MaxId + 1
      BY <1>0, <3>5, <3>6, <3>7
    <3> QED BY <2>4, <3>6, <3>8 DEF WinInv
  <2> QED BY <2>4, <2>8, <2>9, <2>10 DEF OnClick
<1>5. CASE PressDesktop
  <2>1. left' \in BOOLEAN /\ halted' \in BOOLEAN /\ dragging' = dragging
    BY <1>0, <1>5 DEF PressDesktop
  <2>2. CASE Becomes(Now)
    <3>1. StateOK(Now, dragging)' /\ next_id' = next_id
      BY <1>0, <2>1, <2>2 DEF Becomes, Now
    <3> QED BY <1>0, <2>1, <3>1 DEF WinInv
  <2>3. ASSUME NEW app \in {"files", "plain"}, Room(1), Becomes(Opened(Now, app, NoData))
        PROVE  WinInv'
    BY <1>0, <1>1, <2>1, <2>3 DEF App, HasData
  <2> QED BY <1>5, <2>2, <2>3 DEF PressDesktop
<1>6. CASE PressStart
  <2>1. StateOK(Now, dragging)' /\ next_id' = next_id
    BY <1>0, <1>6 DEF PressStart, Now
  <2> QED BY <1>0, <1>6, <2>1 DEF PressStart, WinInv
<1>7. CASE Release
  <2>1. PICK d : d = [win |-> win, next |-> next_id, data |-> data, older |-> older,
                      grabbed |-> NoSlot, lost |-> lost]
    OBVIOUS
  <2>2. Becomes(d) /\ dragging' = NoId /\ left' = FALSE /\ halted' = halted
    BY <1>7, <2>1 DEF Release, Becomes
  <2>3. IsState(d) /\ WindowsOK(d.win) /\ IdsOK(d) /\ OrderOK(d) /\ DataOK(d)
    BY <1>0, <2>1, NowIs DEF StateOK, IsState, IdsOK, OrderOK, DataOK
  <2>4. DragOK(d, NoId)
    BY <2>1, <2>3 DEF IdsOK, DragOK, NoId
  <2>5. StateOK(Now, dragging)' /\ next_id' = next_id
    BY <2>1, <2>2, <2>3, <2>4, BecomesIs DEF StateOK
  <2> QED BY <1>0, <2>2, <2>5 DEF WinInv
<1>8. CASE UNCHANGED vars
  <2>1. StateOK(Now, dragging)' /\ next_id' = next_id
    BY <1>0, <1>8 DEF vars, Now
  <2> QED BY <1>0, <1>8, <2>1 DEF vars, WinInv
<1> QED BY <1>2, <1>3, <1>4, <1>5, <1>6, <1>7, <1>8 DEF Next

LEMMA WinInvSpec == MCSpec => []WinInv
<1>1. MCInit => WinInv
  BY WinInvInit DEF MCInit
<1>2. WinInv /\ [MCNext]_MCVars => WinInv'
  BY WinInvNext DEF MCNext, MCVars
<1> QED BY <1>1, <1>2, PTL DEF MCSpec

LEMMA WinInvGives ==
  WinInv => TypeOK /\ FrontIsLatest /\ WindowsKeepTheirOwn
<1> SUFFICES ASSUME WinInv PROVE TypeOK /\ FrontIsLatest /\ WindowsKeepTheirOwn
  OBVIOUS
<1>0. /\ MaxId \in Nat /\ WindowsOK(win) /\ IdsOK(Now) /\ OrderOK(Now)
      /\ DragOK(Now, dragging) /\ DataOK(Now) /\ next_id <= MaxId + 1
  BY DesktopAssumption, NowIs DEF WinInv, StateOK
<1>1. FrontIsLatest
  BY <1>0, NowIs DEF FrontIsLatest, OrderOK
<1>2. WindowsKeepTheirOwn
  BY <1>0, NowIs DEF WindowsKeepTheirOwn, DragsWhatWasPressed, DataOwned, DragOK, DataOK
<1>3. TypeOK
  <2>1. \A i \in Slots : win[i].visible \in BOOLEAN /\ win[i].z \in 0 .. ZLimit - 1
    <3>1. ASSUME NEW i \in Slots PROVE win[i].visible \in BOOLEAN
      <4>1. CASE win[i] = Hidden(win[i].z)
        <5>1. PICK y : y = win[i].z
          OBVIOUS
        <5>2. Hidden(y).visible = FALSE
          BY DEF Hidden
        <5> QED BY <4>1, <5>1, <5>2
      <4>2. CASE win[i] = Shown(win[i].id, win[i].app, win[i].z, win[i].data)
        <5>1. PICK b, c, y, a : win[i] = Shown(b, c, y, a)
          BY <4>2
        <5> QED BY <5>1 DEF Shown
      <4> QED BY <1>0, <4>1, <4>2 DEF WindowsOK
    <3> QED BY <1>0, <3>1 DEF WindowsOK
  <2>2. \A i \in Visible(win) :
          /\ win[i].id \in 1 .. MaxId /\ win[i].app \in App
          /\ win[i].data \in Block \union {NoData}
    BY <1>0, NowIs, ShownIs DEF IdsOK
  <2>3. next_id \in 1 .. MaxId + 1 /\ dragging \in 0 .. MaxId
    BY <1>0, NowIs DEF IdsOK, DragOK
  <2>4. data \subseteq Block /\ lost \subseteq data
    BY <1>0, NowIs DEF DataOK
  <2> QED BY <2>1, <2>2, <2>3, <2>4 DEF TypeOK, WinInv, Visible
<1> QED BY <1>1, <1>2, <1>3

(* The window with the highest z_index is the one opened or raised last,   *)
(* whatever was closed in between (get_top_z, focus_window, window.c).     *)
THEOREM FrontCorrect == MCSpec => []FrontIsLatest
BY WinInvSpec, WinInvGives, PTL

(* No drag ever moves a window that took the slot of the one it began on,  *)
(* and a window's data is freed once, when it closes (window.c, mouse.c).  *)
THEOREM OwnersCorrect == MCSpec => []WindowsKeepTheirOwn
BY WinInvSpec, WinInvGives, PTL

-----------------------------------------------------------------------------
(***************************************************************************)
(* The mouse's packets.  The handler is between two packets, or as far in  *)
(* the mouse's packet as the mouse is, or out of step; then a byte has got *)
(* lost that no wrong packet accounts for yet.                             *)
(***************************************************************************)
MouseByte == [n : Nat, i : 1 .. 3, bit3 : BOOLEAN, overflow : BOOLEAN]
MouseState ==
  [byte : Seq(MouseByte), n : Nat, i : 1 .. 3, wrong : Nat, lost : Nat, far : BOOLEAN]

InStep(m) ==
  /\ Len(m.byte) \in {0, m.i - 1}
  /\ \A k \in DOMAIN m.byte : m.byte[k].i = k /\ m.byte[k].n = m.n

MouseOK(m) ==
  /\ m \in MouseState /\ Len(m.byte) \in 0 .. 2
  /\ ~m.far => IF InStep(m) THEN m.wrong <= m.lost ELSE m.wrong + 1 <= m.lost

MouseInv == MouseOK(mouse)

LEMMA MouseInvInit == MouseInit => MouseInv
<1> SUFFICES ASSUME MouseInit PROVE MouseInv
  OBVIOUS
<1>1. mouse \in MouseState /\ Len(mouse.byte) \in 0 .. 2 /\ mouse.wrong = 0 /\ mouse.lost = 0
  BY DEF MouseInit, MouseState
<1>2. InStep(mouse)
  BY DEF MouseInit, InStep
<1> QED BY <1>1, <1>2 DEF MouseInv, MouseOK

LEMMA AppendedIs ==
  ASSUME NEW S, NEW q \in Seq(S), NEW e \in S, NEW n \in Nat, Len(q) = n
  PROVE  /\ Append(q, e) \in Seq(S) /\ Len(Append(q, e)) = n + 1
         /\ Append(q, e)[n + 1] = e /\ \A k \in 1 .. n : Append(q, e)[k] = q[k]
BY AppendProperties

LEMMA MouseInvNext == MouseInv /\ MouseNext => MouseInv'
<1> SUFFICES ASSUME MouseInv, MouseNext PROVE MouseInv'
  OBVIOUS
<1>0. PICK m : m = mouse
  OBVIOUS
<1>1. PICK b \in MouseByte :
        /\ b.n = m.n /\ b.i = m.i /\ (m.i = 1 => b.bit3)
        /\ \/ mouse' = handle_mouse_packet(Sends(m, b), b)
           \/ mouse' = [Sends(m, b) EXCEPT !.lost = @ + 1]
  <2>1. PICK bit3 \in BOOLEAN, overflow \in BOOLEAN :
          LET b == [n |-> m.n, i |-> m.i, bit3 |-> bit3 \/ m.i = 1, overflow |-> overflow]
          IN \/ mouse' = handle_mouse_packet(Sends(m, b), b)
             \/ mouse' = [Sends(m, b) EXCEPT !.lost = @ + 1]
    BY <1>0 DEF MouseNext
  <2> DEFINE b == [n |-> m.n, i |-> m.i, bit3 |-> bit3 \/ m.i = 1, overflow |-> overflow]
  <2>2. (bit3 \/ m.i = 1) \in BOOLEAN
    OBVIOUS
  <2>3. b \in MouseByte
    BY <1>0, <2>1, <2>2 DEF MouseInv, MouseOK, MouseState, MouseByte
  <2>4. b.n = m.n /\ b.i = m.i /\ (m.i = 1 => b.bit3)
    OBVIOUS
  <2> WITNESS b \in MouseByte
  <2> QED BY <2>1, <2>4
<1>2. /\ MouseOK(m) /\ m \in MouseState /\ m.byte \in Seq(MouseByte) /\ Len(m.byte) \in 0 .. 2
      /\ m.n \in Nat /\ m.i \in 1 .. 3 /\ m.wrong \in Nat /\ m.lost \in Nat
  <2>1. MouseOK(m) /\ m \in MouseState
    BY <1>0 DEF MouseInv, MouseOK
  <2>2. m.byte \in Seq(MouseByte) /\ m.n \in Nat /\ m.i \in 1 .. 3 /\ m.wrong \in Nat /\ m.lost \in Nat
    BY <2>1 DEF MouseState
  <2>5. Len(m.byte) \in 0 .. 2
    BY <2>1 DEF MouseOK
  <2>6. MouseOK(m) /\ m \in MouseState /\ m.byte \in Seq(MouseByte)
    BY <2>1, <2>2
  <2>7. m.n \in Nat /\ m.i \in 1 .. 3 /\ m.wrong \in Nat /\ m.lost \in Nat
    BY <2>2
  <2> QED BY <2>5, <2>6, <2>7
<1>6. m.byte \in Seq(MouseByte)
  BY <1>2
<1> DEFINE s == Sends(m, b)
<1>3. /\ s \in MouseState /\ s.byte = m.byte /\ s.wrong = m.wrong /\ s.lost = m.lost
      /\ s.i = (IF m.i = 3 THEN 1 ELSE m.i + 1)
      /\ s.n = (IF m.i = 3 THEN m.n + 1 ELSE m.n)
      /\ ~s.far => ~m.far /\ (m.i # 1 => ~b.bit3)
  <2>1. PICK x : x = IF m.i = 3 THEN 1 ELSE m.i + 1
    OBVIOUS
  <2>2. PICK y : y = IF m.i = 3 THEN m.n + 1 ELSE m.n
    OBVIOUS
  <2>3. PICK f : f = (m.far \/ (b.i # 1 /\ b.bit3))
    OBVIOUS
  <2>4. x \in 1 .. 3 /\ y \in Nat
    BY <1>2, <2>1, <2>2
  <2>5. f \in BOOLEAN /\ (~f => ~m.far /\ (m.i # 1 => ~b.bit3))
    BY <1>1, <2>3
  <2>6. s = [m EXCEPT !.i = x, !.n = y, !.far = f]
    BY <2>1, <2>2, <2>3 DEF Sends
  <2>7. /\ s \in MouseState /\ s.byte = m.byte /\ s.wrong = m.wrong /\ s.lost = m.lost
        /\ s.i = x /\ s.n = y /\ s.far = f
    BY <1>2, <2>4, <2>5, <2>6 DEF MouseState
  <2> QED BY <2>1, <2>2, <2>5, <2>7
<1> HIDE DEF s
<1>4. CASE mouse' = [s EXCEPT !.lost = @ + 1]
  <2>1. PICK t : t = mouse'
    OBVIOUS
  <2>2. /\ t \in MouseState /\ t.byte = m.byte /\ t.wrong = m.wrong /\ t.lost = m.lost + 1
        /\ t.far = s.far
    BY <1>3, <1>4, <2>1 DEF MouseState
  <2>3. MouseOK(t)
    BY <1>2, <1>3, <2>2 DEF MouseOK
  <2> QED BY <2>1, <2>3 DEF MouseInv
<1>5. CASE mouse' = handle_mouse_packet(s, b)
  <2>1. PICK t : t = mouse'
    OBVIOUS
  <2>2. CASE m.byte = <<>>
    <3>1. t = Begun(s, b)
      BY <1>3, <1>5, <2>1, <2>2 DEF handle_mouse_packet
    <3>2. CASE b.bit3
      <4>1. t = [s EXCEPT !.byte = <<b>>]
        BY <3>1, <3>2 DEF Begun
      <4>2. /\ t \in MouseState /\ t.byte = <<b>> /\ t.wrong = m.wrong /\ t.lost = m.lost
            /\ t.far = s.far /\ t.i = s.i /\ t.n = s.n
        <5>1. <<b>> \in Seq(MouseByte)
          BY <1>1
        <5> QED BY <1>3, <4>1, <5>1 DEF MouseState
      <4>3. InStep(m)
        BY <2>2 DEF InStep
      <4>4. ~t.far => InStep(t)
        BY <1>1, <1>2, <1>3, <3>2, <4>2 DEF InStep
      <4> QED BY <1>2, <1>3, <2>1, <4>2, <4>3, <4>4 DEF MouseOK, MouseInv
    <3>3. CASE ~b.bit3
      <4>1. t = s
        BY <3>1, <3>3 DEF Begun
      <4>2. InStep(m) /\ InStep(s)
        BY <1>3, <2>2 DEF InStep
      <4> QED BY <1>2, <1>3, <2>1, <4>1, <4>2 DEF MouseOK, MouseInv
    <3> QED BY <3>2, <3>3
  <2>3. CASE Len(m.byte) = 1
    <3>1. t = [s EXCEPT !.byte = Append(m.byte, b)]
      BY <1>3, <1>5, <2>1, <2>3 DEF handle_mouse_packet
    <3>2. /\ t \in MouseState /\ t.byte = Append(m.byte, b) /\ Len(t.byte) = 2
          /\ t.wrong = m.wrong /\ t.lost = m.lost
          /\ t.far = s.far /\ t.i = s.i /\ t.n = s.n
      <4>1. Append(m.byte, b) \in Seq(MouseByte) /\ Len(Append(m.byte, b)) = 2
        <5>1. PICK q \in Seq(MouseByte) : q = m.byte
          BY <1>6
        <5>2. Len(q) = 1
          BY <2>3, <5>1
        <5>3. Append(q, b) \in Seq(MouseByte) /\ Len(Append(q, b)) = 2
          BY <5>2
        <5> QED BY <5>1, <5>3
      <4> QED BY <1>3, <3>1, <4>1 DEF MouseState
    <3>3. InStep(m) => InStep(t)
      BY <1>1, <1>2, <1>3, <2>3, <3>2 DEF InStep
    <3> QED BY <1>2, <1>3, <2>1, <3>2, <3>3 DEF MouseOK, MouseInv
  <2>4. CASE Len(m.byte) = 2
    <3> DEFINE p == Append(m.byte, b)
    <3>1. t = Whole(s, p)
      BY <1>3, <1>5, <2>1, <2>4 DEF handle_mouse_packet
    <3>2. p \in Seq(MouseByte) /\ Len(p) = 3 /\ p[3] = b /\ \A k \in 1 .. 2 : p[k] = m.byte[k]
      <4>1. /\ p \in Seq(MouseByte) /\ Len(p) = 2 + 1 /\ p[2 + 1] = b
            /\ \A k \in 1 .. 2 : p[k] = m.byte[k]
        BY <1>6, <2>4, AppendedIs DEF p
      <4> HIDE DEF p
      <4>2. 2 + 1 = 3
        OBVIOUS
      <4> QED BY <4>1, <4>2
    <3> HIDE DEF p
    <3>3. /\ t \in MouseState /\ t.byte = <<>> /\ t.lost = m.lost /\ t.far = s.far
          /\ t.wrong = (IF ~p[1].overflow /\ Mixed(p) THEN m.wrong + 1 ELSE m.wrong)
      <4>1. PICK w : w = IF ~p[1].overflow /\ Mixed(p) THEN m.wrong + 1 ELSE m.wrong
        OBVIOUS
      <4>2. w \in Nat
        BY <1>2, <4>1
      <4>3. t = [s EXCEPT !.byte = <<>>, !.wrong = w]
        BY <1>3, <3>1, <4>1 DEF Whole
      <4>4. <<>> \in Seq(MouseByte)
        OBVIOUS
      <4> QED BY <1>3, <4>1, <4>2, <4>3, <4>4 DEF MouseState
    <3>4. InStep(m) => ~Mixed(p)
      BY <1>1, <1>2, <2>4, <3>2 DEF InStep, Mixed
    <3>5. InStep(t)
      BY <3>3 DEF InStep
    <3> QED BY <1>2, <1>3, <2>1, <3>3, <3>4, <3>5 DEF MouseOK, MouseInv
  <2> QED BY <1>2, <2>2, <2>3, <2>4
<1> QED BY <1>1, <1>4, <1>5 DEF s

LEMMA MouseInvSpec == MCSpec => []MouseInv
<1>1. MCInit => MouseInv
  BY MouseInvInit DEF MCInit
<1>2. MouseInv /\ [MCNext]_MCVars => MouseInv'
  BY MouseInvNext DEF MCNext, MCVars, MouseInv
<1> QED BY <1>1, <1>2, PTL DEF MCSpec

(* Until a movement looks like a first byte, no lost byte costs more than  *)
(* one wrong packet (handle_mouse_packet, mouse.c).                        *)
THEOREM PacketsCorrect == MCSpec => []OneWrongPerLoss
<1>1. MouseInv => OneWrongPerLoss
  <2> SUFFICES ASSUME MouseInv PROVE OneWrongPerLoss
    OBVIOUS
  <2>1. PICK m : m = mouse
    OBVIOUS
  <2>2. m.wrong \in Nat /\ m.lost \in Nat
    BY <2>1 DEF MouseInv, MouseOK, MouseState
  <2> QED BY <2>1, <2>2 DEF MouseInv, MouseOK, OneWrongPerLoss
<1> QED BY <1>1, MouseInvSpec, PTL

-----------------------------------------------------------------------------
(***************************************************************************)
(* The shell's line.                                                       *)
(***************************************************************************)
Buffer == [0 .. MAX_COMMAND_LEN - 1 -> Char \union {0}]
Command == {s \in Seq(Char) : Len(s) \in 0 .. MAX_COMMAND_LEN - 1}

(* Buffer b begins with s. *)
Begins(b, s) == \A i \in 1 .. Len(s) : b[i - 1] = s[i]

LineOK(buffer, index, line) ==
  /\ buffer \in Buffer /\ index \in 0 .. MAX_COMMAND_LEN - 1
  /\ line \in Command /\ Len(line) = index /\ Begins(buffer, line)

(* What of the line can be seen: it is all there in its order, all there is  *)
(* in the first row, and in a later row it ends as the row does.            *)
OnScreen(line, shown) ==
  /\ shown \in Seq(Char) /\ Within(line, shown)
  /\ FirstRow(shown) => line = shown
  /\ InRow(shown) \in 0 .. Len(line)
  /\ \A k \in 0 .. InRow(shown) - 1 : line[Len(line) - k] = shown[Len(shown) - k]

(* The last MAX_HISTORY commands are in the ring. *)
RingOK(history, given, count) ==
  /\ history \in [0 .. MAX_HISTORY - 1 -> Buffer]
  /\ given \in Seq(Command) /\ count \in Nat /\ Len(given) = count
  /\ \A i \in 0 .. count - 1 : i >= count - MAX_HISTORY =>
       Text(history[i % MAX_HISTORY]) = given[i + 1]

AtOK(at, count) == at \in -1 .. count - 1 /\ (at = -1 \/ count - at <= MAX_HISTORY)

IsShell(s) ==
  s = [buffer |-> s.buffer, index |-> s.index, shown |-> s.shown, given |-> s.given,
       history |-> s.history, count |-> s.count, at |-> s.at]

ShellOK(s) ==
  /\ IsShell(s) /\ \E line : LineOK(s.buffer, s.index, line) /\ OnScreen(line, s.shown)
  /\ RingOK(s.history, s.given, s.count) /\ AtOK(s.at, s.count)
ShellInv == ShellOK(shell)

LEMMA SizesOfShell ==
  MAX_COMMAND_LEN \in Nat \ {0} /\ MAX_HISTORY \in Nat \ {0} /\ 0 \notin Char
BY ShellAssumption

LEMMA ZeroIs == Zero \in Buffer
BY SizesOfShell DEF Zero, Buffer

(* The string in a buffer is what the buffer begins with, up to the 0. *)
LEMMA TextIs ==
  ASSUME NEW b, NEW s \in Command, Begins(b, s), b[Len(s)] = 0
  PROVE  Text(b) = s
<1>1. PICK n \in 0 .. MAX_COMMAND_LEN - 1 : n = Len(s) /\ s \in Seq(Char)
  BY DEF Command
<1> DEFINE Ends(i) == /\ i < MAX_COMMAND_LEN => b[i] = 0
                      /\ \A j \in 0 .. i - 1 : b[j] # 0
<1>2. \A j \in 0 .. n - 1 : b[j] # 0
  <2>1. ASSUME NEW j \in 0 .. n - 1 PROVE b[j] # 0
    <3>1. j + 1 \in 1 .. n /\ (j + 1) - 1 = j
      BY SizesOfShell
    <3>2. b[(j + 1) - 1] = s[j + 1] /\ s[j + 1] \in Char
      BY <1>1, <3>1, ElementOfSeq DEF Begins
    <3> QED BY <3>1, <3>2, SizesOfShell
  <2> QED BY <2>1
<1>3. n \in 0 .. MAX_COMMAND_LEN /\ Ends(n)
  BY <1>1, <1>2, SizesOfShell
<1>4. ASSUME NEW i \in 0 .. MAX_COMMAND_LEN, Ends(i) PROVE i = n
  <2>1. CASE i < n
    <3>1. i < MAX_COMMAND_LEN /\ i \in 0 .. n - 1
      BY <2>1, SizesOfShell
    <3> QED BY <1>2, <1>4, <3>1
  <2>2. CASE n < i
    <3>1. n \in 0 .. i - 1
      BY <2>2, SizesOfShell
    <3> QED BY <1>1, <1>4, <3>1
  <2> QED BY <2>1, <2>2, SizesOfShell
<1>5. (CHOOSE i \in 0 .. MAX_COMMAND_LEN : Ends(i)) = n
  <2> HIDE DEF Ends
  <2> QED BY <1>3, <1>4
<1>6. Text(b) = [i \in 1 .. n |-> b[i - 1]]
  BY <1>5 DEF Text
<1>7. \A i \in 1 .. n : b[i - 1] = s[i]
  BY <1>1 DEF Begins
<1>8. s = [i \in 1 .. n |-> s[i]]
  <2>1. s \in [1 .. n -> Char]
    BY <1>1, LenProperties
  <2> QED BY <2>1
<1> QED BY <1>6, <1>7, <1>8

(* strcpy makes it so. *)
LEMMA CopiedIs ==
  ASSUME NEW b \in Buffer, NEW s \in Command
  PROVE  /\ Copied(s, b) \in Buffer /\ Begins(Copied(s, b), s)
         /\ Text(Copied(s, b)) = s
<1>1. PICK n \in 0 .. MAX_COMMAND_LEN - 1 : n = Len(s) /\ s \in Seq(Char)
  BY DEF Command
<1>2. \A i \in 1 .. n : s[i] \in Char
  BY <1>1, ElementOfSeq
<1>3. DOMAIN b = 0 .. MAX_COMMAND_LEN - 1 /\ \A i \in DOMAIN b : b[i] \in Char \union {0}
  BY DEF Buffer
<1>4. PICK c : c = Copied(s, b)
  OBVIOUS
<1>5. c = [i \in 0 .. MAX_COMMAND_LEN - 1 |->
             IF i < n THEN s[i + 1] ELSE IF i = n THEN 0 ELSE b[i]]
  BY <1>1, <1>3, <1>4 DEF Copied
<1>6. c \in Buffer
  <2>1. ASSUME NEW i \in 0 .. MAX_COMMAND_LEN - 1 PROVE c[i] \in Char \union {0}
    <3>1. CASE i < n
      <4>1. i + 1 \in 1 .. n
        BY <3>1, SizesOfShell
      <4> QED BY <1>2, <1>5, <3>1, <4>1
    <3>2. CASE ~(i < n)
      BY <1>3, <1>5, <3>2
    <3> QED BY <3>1, <3>2
  <2> QED BY <1>5, <2>1 DEF Buffer
<1>7. Begins(c, s)
  <2>1. ASSUME NEW i \in 1 .. n PROVE c[i - 1] = s[i]
    <3>1. i - 1 \in 0 .. MAX_COMMAND_LEN - 1 /\ i - 1 < n /\ (i - 1) + 1 = i
      BY SizesOfShell
    <3> QED BY <1>5, <3>1
  <2> QED BY <1>1, <2>1 DEF Begins
<1>8. c[Len(s)] = 0
  BY <1>1, <1>5
<1> QED BY <1>4, <1>6, <1>7, <1>8, TextIs

(* Two of the last MAX_HISTORY commands have different places in the ring. *)
LEMMA RingPlaces ==
  ASSUME NEW h \in Nat \ {0}, NEW i \in Nat, NEW c \in Nat, i < c, i >= c + 1 - h
  PROVE  i % h # c % h
<1>1. SUFFICES ASSUME i % h = c % h PROVE FALSE
  OBVIOUS
<1>2. PICK p \in Int, q \in Int, r \in Int : i = h * p + r /\ c = h * q + r
  <2>1. i % h = i - (i \div h) * h /\ c % h = c - (c \div h) * h
    OBVIOUS
  <2>2. PICK p \in Int, q \in Int : p = i \div h /\ q = c \div h
    OBVIOUS
  <2>3. PICK x \in Int : x = i % h
    OBVIOUS
  <2>4. x = i - p * h /\ x = c - q * h
    BY <1>1, <2>1, <2>2, <2>3
  <2>5. i = h * p + x /\ c = h * q + x
    BY <2>4
  <2> QED BY <2>5
<1>3. PICK k \in Int : k = q - p
  OBVIOUS
<1>4. h * q = h * p + h * k
  BY <1>3
<1>5. 0 < h * k /\ h * k < h
  BY <1>2, <1>4
<1>6. CASE k >= 1
  <2>1. h * k >= h
    BY <1>6
  <2> QED BY <1>5, <2>1
<1>7. CASE k <= 0
  <2>1. h * k <= 0
    BY <1>7
  <2> QED BY <1>5, <2>1
<1> QED BY <1>6, <1>7

LEMMA ShellOf ==
  ASSUME NEW buffer, NEW index, NEW line, NEW shown, NEW given, NEW history, NEW count,
         NEW at, LineOK(buffer, index, line), OnScreen(line, shown), RingOK(history, given, count), AtOK(at, count),
         NEW s, s = [buffer |-> buffer, index |-> index, shown |-> shown, given |-> given,
                     history |-> history, count |-> count, at |-> at]
  PROVE  ShellOK(s)
BY DEF ShellOK, IsShell

LEMMA NoLine == LineOK(Zero, 0, <<>>)
<1>1. <<>> \in Command /\ Len(<<>>) = 0
  BY SizesOfShell DEF Command
<1>2. Begins(Zero, <<>>)
  BY DEF Begins
<1> QED BY <1>1, <1>2, ZeroIs, SizesOfShell DEF LineOK

(* The string of a line is what lies before its index. *)
LEMMA LineIs ==
  ASSUME NEW buffer, NEW index, NEW line, LineOK(buffer, index, line)
  PROVE  Text([buffer EXCEPT ![index] = 0]) = line
<1>1. PICK n \in 0 .. MAX_COMMAND_LEN - 1 : n = index /\ n = Len(line) /\ line \in Command
  BY DEF LineOK
<1>2. PICK b : b = [buffer EXCEPT ![index] = 0]
  OBVIOUS
<1>3. DOMAIN buffer = 0 .. MAX_COMMAND_LEN - 1
  BY DEF LineOK, Buffer
<1>4. b[n] = 0 /\ \A i \in DOMAIN buffer \ {n} : b[i] = buffer[i]
  BY <1>1, <1>2, <1>3
<1>5. \A i \in 1 .. n : i - 1 \in DOMAIN buffer \ {n}
  BY <1>1, <1>3, SizesOfShell
<1>6. \A i \in 1 .. n : buffer[i - 1] = line[i]
  BY <1>1 DEF LineOK, Begins
<1>7. Begins(b, line)
  BY <1>1, <1>4, <1>5, <1>6 DEF Begins
<1> QED BY <1>1, <1>2, <1>4, <1>7, TextIs

(* The rows.  What is left when a number is taken apart into rows. *)
LEMMA ModOf ==
  ASSUME NEW w \in Nat \ {0}, NEW x \in Nat
  PROVE  /\ x % w \in 0 .. w - 1
         /\ \E q \in Int, r \in 0 .. w - 1 : r = x % w /\ x = w * q + r
<1>1. x % w \in 0 .. w - 1 /\ x % w = x - (x \div w) * w
  OBVIOUS
<1>2. PICK q \in Int, h \in Int, y \in Int : q = x \div w /\ h = w /\ y = x
  OBVIOUS
<1>3. PICK r \in Int : r = x % w
  BY <1>1
<1>4. r = y - q * h
  BY <1>1, <1>2, <1>3
<1>a. PICK f \in Int : f = q * h /\ f = h * q
  OBVIOUS
<1>b. y = f + r
  BY <1>4, <1>a
<1>5. y = h * q + r
  BY <1>a, <1>b
<1>6. x = w * q + r
  BY <1>2, <1>5, Zenon
<1>7. r \in 0 .. w - 1 /\ x % w \in 0 .. w - 1
  BY <1>1, <1>3
<1> QED BY <1>3, <1>6, <1>7, Zenon

LEMMA ModLeast ==
  ASSUME NEW w \in Nat \ {0}, NEW q \in Int, NEW n \in Nat, NEW x \in Nat, x = w * q + n
  PROVE  x % w <= n /\ (n < w => x % w = n)
<1>1. PICK p \in Int, r \in 0 .. w - 1 : r = x % w /\ x = w * p + r
  BY ModOf
<1>2. PICK k \in Int : k = p - q
  OBVIOUS
<1>a. w * p = w * q + w * k
  <2>1. PICK h \in Int : h = w
    OBVIOUS
  <2>2. p = q + k
    BY <1>2
  <2>3. h * p = h * q + h * k
    BY <2>2
  <2> QED BY <2>1, <2>3
<1>b. PICK f \in Int, g \in Int, h \in Int : f = w * p /\ g = w * q /\ h = w * k
  OBVIOUS
<1>c. x = f + r /\ x = g + n /\ f = g + h
  BY <1>1, <1>a, <1>b
<1>d. n = h + r
  BY <1>c
<1>3. n = w * k + r
  BY <1>b, <1>d
<1>4. CASE k = 0
  <2>1. n = r
    BY <1>3, <1>4
  <2> QED BY <1>1, <2>1
<1>5. CASE k <= -1
  <2>1. w * k <= -w
    BY <1>5
  <2> QED BY <1>3, <2>1
<1>6. CASE k >= 1
  <2>1. w * k >= w
    BY <1>6
  <2>2. r <= n /\ ~(n < w)
    BY <1>3, <2>1
  <2> QED BY <1>1, <2>2
<1> QED BY <1>4, <1>5, <1>6

LEMMA SizesOfRows == Columns \in Nat \ {0} /\ Columns > 2
<1>1. Columns \in Nat /\ Columns > 2
  BY ShellAssumption DEF Prompt
<1> QED BY <1>1

LEMMA ColumnOf ==
  ASSUME NEW s, NEW x, NEW w, x = 2 + Len(s), w = Columns
  PROVE  Column(s) = x % w /\ (FirstRow(s) <=> x < w)
<1>1. Column(s) = (2 + Len(s)) % Columns /\ (FirstRow(s) <=> 2 + Len(s) < Columns)
  BY DEF Column, FirstRow, Prompt
<1> QED BY <1>1, Zenon

(* The column of the cursor, by one character more or less. *)
LEMMA ColumnIs ==
  ASSUME NEW s \in Seq(Char)
  PROVE  /\ Columns \in Nat \ {0} /\ Columns > 2 /\ Len(s) \in Nat
         /\ Column(s) \in 0 .. Columns - 1
         /\ FirstRow(s) <=> Len(s) + 2 < Columns
         /\ FirstRow(s) => Column(s) = Len(s) + 2
         /\ ~ FirstRow(s) => Column(s) < Len(s)
         /\ InRow(s) \in 0 .. Len(s)
<1>a. PICK n \in Nat : n = Len(s)
  OBVIOUS
<1>b. PICK w \in Nat \ {0} : w = Columns /\ w > 2
  BY SizesOfRows
<1>1. w = Columns /\ n = Len(s) /\ w > 2
  BY <1>a, <1>b
<1>c. PICK x \in Nat : x = 2 + n
  OBVIOUS
<1>2. x = 2 + n /\ Column(s) = x % w /\ (FirstRow(s) <=> x < w)
  BY <1>1, <1>c, ColumnOf
<1>3. x % w \in 0 .. w - 1
  BY ModOf
<1>5. x < w => x % w = x
  <2>1. x = w * 0 + x
    OBVIOUS
  <2> QED BY <2>1, ModLeast
<1>6. ~(x < w) => x - w \in Nat /\ x % w <= x - w
  <2>1. SUFFICES ASSUME ~(x < w) PROVE x - w \in Nat /\ x % w <= x - w
    OBVIOUS
  <2>2. PICK d \in Nat : d = x - w /\ x = w * 1 + d
    BY <2>1
  <2> QED BY <2>2, ModLeast
<1>7. PICK c \in 0 .. w - 1 : c = x % w
  BY <1>3
<1>8. FirstRow(s) <=> n + 2 < w
  BY <1>2
<1>9. Column(s) = c /\ (n + 2 < w => c = n + 2) /\ (~(n + 2 < w) => c < n)
  BY <1>1, <1>2, <1>5, <1>6, <1>7
<1>10. InRow(s) \in 0 .. n
  BY <1>1, <1>8, <1>9 DEF InRow
<1> QED BY <1>1, <1>7, <1>8, <1>9, <1>10

LEMMA ColumnMoves ==
  ASSUME NEW s \in Seq(Char), NEW t \in Seq(Char), Len(t) = Len(s) + 1
  PROVE  \/ Column(s) = Columns - 1 /\ Column(t) = 0
         \/ Column(s) < Columns - 1 /\ Column(t) = Column(s) + 1
<1>a. PICK n \in Nat : n = Len(s)
  OBVIOUS
<1>b. PICK w \in Nat \ {0} : w = Columns
  BY SizesOfRows
<1>1. w = Columns /\ n = Len(s) /\ n + 1 = Len(t)
  BY <1>a, <1>b
<1>c. PICK x \in Nat, y \in Nat : x = 2 + n /\ y = x + 1 /\ y = 2 + (n + 1)
  OBVIOUS
<1>2. x = 2 + n /\ Column(s) = x % w /\ y = x + 1 /\ Column(t) = y % w
  <2>1. x = 2 + Len(s) /\ y = 2 + Len(t)
    BY <1>1, <1>c
  <2> QED BY <1>1, <1>c, <2>1, ColumnOf
<1>3. PICK q \in Int, r \in 0 .. w - 1 : r = x % w /\ x = w * q + r
  BY ModOf
<1>4. CASE r = w - 1
  <2>1. y = w * (q + 1) + 0
    BY <1>2, <1>3, <1>4
  <2>a. q + 1 \in Int /\ 0 \in Nat
    OBVIOUS
  <2>b. y % w \in 0 .. w - 1
    BY ModOf
  <2>c. y % w <= 0
    BY <2>1, <2>a, ModLeast
  <2>2. y % w = 0
    BY <2>b, <2>c
  <2> QED BY <1>1, <1>2, <1>3, <1>4, <2>2
<1>5. CASE r < w - 1
  <2>1. y = w * q + (r + 1)
    BY <1>2, <1>3
  <2>a. r + 1 \in Nat /\ r + 1 < w
    BY <1>5
  <2>2. y % w = r + 1
    BY <2>1, <2>a, ModLeast
  <2> QED BY <1>1, <1>2, <1>3, <1>5, <2>2
<1> QED BY <1>1, <1>4, <1>5

LEMMA FrontIs ==
  ASSUME NEW s \in Seq(Char), NEW k \in Nat, k <= Len(s)
  PROVE  SubSeq(s, 1, k) = [i \in 1 .. k |-> s[i]]
OBVIOUS

(* What '\b' leaves. *)
LEMMA BackedIs ==
  ASSUME NEW s \in Seq(Char), NEW n \in Nat, NEW m \in 0 .. Len(s),
         m = (IF n < Column(s) THEN n ELSE Column(s))
  PROVE  /\ Backed(s, n) \in Seq(Char) /\ Len(Backed(s, n)) = Len(s) - m
         /\ \A i \in 1 .. Len(s) - m : Backed(s, n)[i] = s[i]
<1>a. PICK n0 \in Nat : n0 = Len(s)
  OBVIOUS
<1>b. m \in 0 .. n0
  BY <1>a
<1>x. n0 - m \in Nat
  BY <1>b
<1>c. PICK k \in Nat : k = n0 - m
  BY <1>x
<1>1. k = Len(s) - m /\ k <= n0
  BY <1>a, <1>b, <1>c
<1>2. Backed(s, n) = SubSeq(s, 1, k)
  BY <1>1 DEF Backed
<1>3. \A i \in 1 .. k : i \in 1 .. n0 /\ s[i] \in Char
  <2>1. \A i \in 1 .. n0 : s[i] \in Char
    BY <1>a
  <2> QED BY <1>1, <1>b, <2>1
<1>4. SubSeq(s, 1, k) = [i \in 1 .. k |-> s[i]]
  BY <1>a, <1>b, <1>1, FrontIs
<1>5. SubSeq(s, 1, k) \in Seq(Char) /\ Len(SubSeq(s, 1, k)) = k
      /\ \A i \in 1 .. k : SubSeq(s, 1, k)[i] = s[i]
  BY <1>3, <1>4
<1> QED BY <1>1, <1>2, <1>5

(* One sequence within another. *)
LEMMA WithinItself ==
  ASSUME NEW s \in Seq(Char)
  PROVE  Within(s, s)
<1>1. PICK n \in Nat : n = Len(s)
  OBVIOUS
<1>2. PICK f : f = [i \in 1 .. n |-> i]
  OBVIOUS
<1>3. f \in [1 .. n -> 1 .. n] /\ \A i \in 1 .. n : f[i] = i
  BY <1>2
<1> QED BY <1>1, <1>3 DEF Within

LEMMA WithinGrows ==
  ASSUME NEW s \in Seq(Char), NEW t \in Seq(Char), Within(s, t), NEW c \in Char
  PROVE  Within(Append(s, c), Append(t, c))
<1>1. PICK n \in Nat, m \in Nat : n = Len(s) /\ m = Len(t)
  OBVIOUS
<1>2. PICK a, b : a = Append(s, c) /\ b = Append(t, c)
  OBVIOUS
<1>3. /\ Len(a) = n + 1 /\ a[n + 1] = c /\ \A i \in 1 .. n : a[i] = s[i]
      /\ Len(b) = m + 1 /\ b[m + 1] = c /\ \A i \in 1 .. m : b[i] = t[i]
  BY <1>1, <1>2, AppendProperties
<1>4. PICK f \in [1 .. n -> 1 .. m] :
        /\ \A i, j \in 1 .. n : i < j => f[i] < f[j]
        /\ \A i \in 1 .. n : t[f[i]] = s[i]
  BY <1>1, Zenon DEF Within
<1>5. PICK g : g = [i \in 1 .. n + 1 |-> IF i = n + 1 THEN m + 1 ELSE f[i]]
  OBVIOUS
<1>6. \A i \in 1 .. n + 1 : i = n + 1 \/ (i \in 1 .. n /\ i # n + 1)
  OBVIOUS
<1>7. /\ g[n + 1] = m + 1 /\ \A i \in 1 .. n : g[i] = f[i] /\ g[i] \in 1 .. m
  BY <1>4, <1>5
<1>8. g \in [1 .. n + 1 -> 1 .. m + 1]
  <2>1. \A i \in 1 .. n + 1 : g[i] \in 1 .. m + 1
    BY <1>6, <1>7
  <2> QED BY <1>5, <2>1
<1>9. ASSUME NEW i \in 1 .. n + 1, NEW j \in 1 .. n + 1, i < j
      PROVE  g[i] < g[j]
  <2>1. i \in 1 .. n
    BY <1>9
  <2>2. CASE j = n + 1
    BY <1>7, <2>1, <2>2
  <2>3. CASE j # n + 1
    <3>1. j \in 1 .. n
      BY <2>3
    <3> QED BY <1>4, <1>7, <1>9, <2>1, <3>1
  <2> QED BY <2>2, <2>3
<1>10. ASSUME NEW i \in 1 .. n + 1 PROVE b[g[i]] = a[i]
  <2>1. CASE i = n + 1
    BY <1>3, <1>7, <2>1
  <2>2. CASE i # n + 1
    <3>1. i \in 1 .. n
      BY <2>2
    <3>2. b[g[i]] = t[f[i]] /\ a[i] = s[i]
      BY <1>3, <1>4, <1>7, <3>1
    <3> QED BY <1>4, <3>1, <3>2
  <2> QED BY <2>1, <2>2
<1>11. \E h \in [1 .. n + 1 -> 1 .. m + 1] :
         /\ \A i, j \in 1 .. n + 1 : i < j => h[i] < h[j]
         /\ \A i \in 1 .. n + 1 : b[h[i]] = a[i]
  BY <1>8, <1>9, <1>10
<1>12. n + 1 = Len(a) /\ m + 1 = Len(b)
  BY <1>3
<1>13. Within(a, b)
  BY <1>11, <1>12, Zenon DEF Within
<1> QED BY <1>2, <1>13

(* The last character is gone from s, and from t at most the last. *)
LEMMA WithinShrinks ==
  ASSUME NEW s \in Seq(Char), NEW t \in Seq(Char), Within(s, t),
         NEW a \in Seq(Char), NEW b \in Seq(Char),
         Len(s) = Len(a) + 1, \A i \in 1 .. Len(a) : a[i] = s[i],
         Len(b) >= Len(t) - 1, \A i \in 1 .. Len(t) - 1 : b[i] = t[i]
  PROVE  Within(a, b)
<1>a. PICK n \in Nat : n = Len(a)
  OBVIOUS
<1>b. PICK m \in Nat : m = Len(t)
  OBVIOUS
<1>c. PICK l \in Nat : l = Len(b)
  OBVIOUS
<1>1. n = Len(a) /\ m = Len(t) /\ l = Len(b) /\ n + 1 = Len(s)
  BY <1>a, <1>b, <1>c
<1>2. PICK f \in [1 .. n + 1 -> 1 .. m] :
        /\ \A i, j \in 1 .. n + 1 : i < j => f[i] < f[j]
        /\ \A i \in 1 .. n + 1 : t[f[i]] = s[i]
  <2>1. \E f \in [1 .. Len(s) -> 1 .. Len(t)] :
          /\ \A i, j \in 1 .. Len(s) : i < j => f[i] < f[j]
          /\ \A i \in 1 .. Len(s) : t[f[i]] = s[i]
    BY Zenon DEF Within
  <2> QED BY <1>1, <2>1, Zenon
<1>3. \A i \in 1 .. n : i \in 1 .. n + 1 /\ f[i] \in 1 .. m - 1
  <2>1. ASSUME NEW i \in 1 .. n PROVE i \in 1 .. n + 1 /\ f[i] \in 1 .. m - 1
    <3>1. i \in 1 .. n + 1 /\ n + 1 \in 1 .. n + 1 /\ i < n + 1
      OBVIOUS
    <3>2. f[i] < f[n + 1] /\ f[i] \in 1 .. m /\ f[n + 1] \in 1 .. m
      BY <1>2, <3>1
    <3> QED BY <3>1, <3>2
  <2> QED BY <2>1
<1>4. PICK g : g = [i \in 1 .. n |-> f[i]]
  OBVIOUS
<1>5. g \in [1 .. n -> 1 .. l] /\ \A i \in 1 .. n : g[i] = f[i]
  <2>1. \A i \in 1 .. n : f[i] \in 1 .. l
    BY <1>1, <1>3
  <2> QED BY <1>4, <2>1
<1>6. \A i, j \in 1 .. n : i < j => g[i] < g[j]
  BY <1>2, <1>3, <1>5, Zenon
<1>7. ASSUME NEW i \in 1 .. n PROVE b[g[i]] = a[i]
  <2>1. g[i] = f[i] /\ f[i] \in 1 .. m - 1 /\ t[f[i]] = s[i]
    BY <1>2, <1>3, <1>5
  <2>2. b[f[i]] = t[f[i]] /\ a[i] = s[i]
    BY <1>1, <2>1
  <2> QED BY <2>1, <2>2
<1>8. \E h \in [1 .. n -> 1 .. l] :
        /\ \A i, j \in 1 .. n : i < j => h[i] < h[j]
        /\ \A i \in 1 .. n : b[h[i]] = a[i]
  BY <1>5, <1>6, <1>7
<1> QED BY <1>1, <1>8, Zenon DEF Within

LEMMA JoinedIs ==
  ASSUME NEW r \in Seq(Char), NEW s \in Seq(Char)
  PROVE  /\ r \o s \in Seq(Char) /\ Len(r \o s) = Len(r) + Len(s)
         /\ \A i \in 1 .. Len(s) : (r \o s)[Len(r) + i] = s[i]
<1>a. PICK n \in Nat : n = Len(r)
  OBVIOUS
<1>b. PICK m \in Nat : m = Len(s)
  OBVIOUS
<1>c. PICK t : t = r \o s
  OBVIOUS
<1>1. n = Len(r) /\ m = Len(s) /\ t = r \o s
  BY <1>a, <1>b, <1>c
<1>2. /\ t \in Seq(Char) /\ Len(t) = n + m
      /\ \A i \in 1 .. n + m : t[i] = IF i <= n THEN r[i] ELSE s[i - n]
  BY <1>1, ConcatProperties
<1>3. \A i \in 1 .. m : n + i \in 1 .. n + m /\ ~(n + i <= n) /\ (n + i) - n = i
  OBVIOUS
<1> QED BY <1>1, <1>2, <1>3

LEMMA WithinBehind ==
  ASSUME NEW r \in Seq(Char), NEW s \in Seq(Char)
  PROVE  Within(s, r \o s)
<1>a. PICK n \in Nat : n = Len(r)
  OBVIOUS
<1>b. PICK m \in Nat : m = Len(s)
  OBVIOUS
<1>c. PICK t : t = r \o s
  OBVIOUS
<1>1. n = Len(r) /\ m = Len(s) /\ t = r \o s
  BY <1>a, <1>b, <1>c
<1>2. Len(t) = n + m /\ \A i \in 1 .. m : t[n + i] = s[i]
  BY <1>1, JoinedIs
<1>3. PICK f : f = [i \in 1 .. m |-> n + i]
  OBVIOUS
<1>4. f \in [1 .. m -> 1 .. n + m] /\ \A i \in 1 .. m : f[i] = n + i
  BY <1>3
<1>5. \A i, j \in 1 .. m : i < j => f[i] < f[j]
  BY <1>4
<1>6. \A i \in 1 .. m : t[f[i]] = s[i]
  BY <1>2, <1>4
<1>7. n + m = Len(t)
  BY <1>2
<1>8. \E h \in [1 .. m -> 1 .. n + m] :
        /\ \A i, j \in 1 .. m : i < j => h[i] < h[j]
        /\ \A i \in 1 .. m : t[h[i]] = s[i]
  BY <1>4, <1>5, <1>6, Zenon
<1>9. Within(s, t)
  BY <1>1, <1>7, <1>8, Zenon DEF Within
<1> QED BY <1>1, <1>9

LEMMA NoScreen == OnScreen(<<>>, <<>>)
<1>1. <<>> \in Seq(Char) /\ Len(<<>>) = 0
  OBVIOUS
<1>2. Within(<<>>, <<>>)
  BY <1>1, WithinItself
<1>3. InRow(<<>>) = 0
  <2>1. InRow(<<>>) \in 0 .. Len(<<>>)
    BY <1>1, ColumnIs
  <2> QED BY <1>1, <2>1
<1> QED BY <1>1, <1>2, <1>3 DEF OnScreen

(* A character typed, a character deleted, and a command recalled. *)
LEMMA ScreenTyped ==
  ASSUME NEW l \in Seq(Char), NEW s, OnScreen(l, s), NEW c \in Char
  PROVE  OnScreen(Append(l, c), Append(s, c))
<1>1. /\ s \in Seq(Char) /\ Within(l, s) /\ (FirstRow(s) => l = s) /\ InRow(s) \in 0 .. Len(l)
      /\ \A k \in 0 .. InRow(s) - 1 : l[Len(l) - k] = s[Len(s) - k]
  BY DEF OnScreen
<1>2. PICK n \in Nat, m \in Nat : n = Len(l) /\ m = Len(s)
  BY <1>1
<1>3. PICK a, b : a = Append(l, c) /\ b = Append(s, c)
  OBVIOUS
<1>4. /\ a \in Seq(Char) /\ Len(a) = n + 1 /\ a[n + 1] = c /\ \A i \in 1 .. n : a[i] = l[i]
      /\ b \in Seq(Char) /\ Len(b) = m + 1 /\ b[m + 1] = c /\ \A i \in 1 .. m : b[i] = s[i]
  BY <1>1, <1>2, <1>3, AppendProperties
<1>5. Within(a, b)
  BY <1>1, <1>3, WithinGrows
<1>6. FirstRow(b) => FirstRow(s) /\ a = b
  <2>1. (FirstRow(b) <=> m + 1 + 2 < Columns) /\ (FirstRow(s) <=> m + 2 < Columns)
    BY <1>1, <1>2, <1>4, ColumnIs
  <2>2. FirstRow(b) => FirstRow(s)
    <3>1. PICK w \in Nat : w = Columns
      BY SizesOfRows
    <3> QED BY <2>1, <3>1
  <2> QED BY <1>1, <1>3, <2>2
<1>a. InRow(s) \in 0 .. Len(s) /\ InRow(b) \in 0 .. Len(b)
  BY <1>1, <1>4, ColumnIs
<1>7. PICK r \in Nat, p \in Nat : r = InRow(s) /\ p = InRow(b) /\ r <= m /\ p <= m + 1
  BY <1>2, <1>4, <1>a
<1>8. p = 0 \/ p = r + 1
  <2>1. CASE FirstRow(b)
    BY <1>2, <1>4, <1>6, <1>7, <2>1 DEF InRow
  <2>2. CASE ~ FirstRow(b)
    <3>1. p = Column(b)
      BY <1>7, <2>2 DEF InRow
    <3>2. CASE FirstRow(s)
      <4>1. Column(s) = m + 2 /\ m + 2 < Columns /\ ~(m + 1 + 2 < Columns)
        BY <1>1, <1>2, <1>4, <2>2, <3>2, ColumnIs
      <4>2. Column(b) = 0
        BY <1>1, <1>2, <1>4, <4>1, ColumnMoves, ColumnIs
      <4> QED BY <3>1, <4>2
    <3>3. CASE ~ FirstRow(s)
      <4>1. r = Column(s)
        BY <1>7, <3>3 DEF InRow
      <4>2. Column(b) = 0 \/ Column(b) = Column(s) + 1
        BY <1>1, <1>2, <1>4, ColumnMoves
      <4> QED BY <3>1, <4>1, <4>2
    <3> QED BY <3>2, <3>3
  <2> QED BY <2>1, <2>2
<1>9. p \in 0 .. n + 1
  BY <1>1, <1>2, <1>7, <1>8
<1>10. ASSUME NEW k \in 0 .. p - 1 PROVE a[n + 1 - k] = b[m + 1 - k]
  <2>1. CASE k = 0
    BY <1>4, <2>1
  <2>2. CASE k # 0
    <3>1. k - 1 \in 0 .. r - 1 /\ n - (k - 1) = n + 1 - k /\ m - (k - 1) = m + 1 - k
      BY <1>8, <2>2
    <3>2. n + 1 - k \in 1 .. n /\ m + 1 - k \in 1 .. m
      BY <1>1, <1>2, <1>7, <2>2, <3>1
    <3>3. l[n - (k - 1)] = s[m - (k - 1)]
      BY <1>1, <1>2, <1>7, <3>1
    <3> QED BY <1>4, <3>1, <3>2, <3>3
  <2> QED BY <2>1, <2>2
<1>11. OnScreen(a, b)
  BY <1>4, <1>5, <1>6, <1>7, <1>9, <1>10 DEF OnScreen
<1> QED BY <1>3, <1>11

LEMMA ScreenErased ==
  ASSUME NEW l \in Seq(Char), NEW s, OnScreen(l, s),
         NEW a \in Seq(Char), Len(l) = Len(a) + 1, \A i \in 1 .. Len(a) : a[i] = l[i]
  PROVE  OnScreen(a, Backed(s, 1))
<1>1. /\ s \in Seq(Char) /\ Within(l, s) /\ (FirstRow(s) => l = s) /\ InRow(s) \in 0 .. Len(l)
      /\ \A k \in 0 .. InRow(s) - 1 : l[Len(l) - k] = s[Len(s) - k]
  BY DEF OnScreen
<1>2. PICK n \in Nat, m \in Nat : n = Len(a) /\ n + 1 = Len(l) /\ m = Len(s)
  BY <1>1
<1>3. PICK b : b = Backed(s, 1)
  OBVIOUS
<1>4. CASE Column(s) = 0
  <2>1. ~ FirstRow(s)
    BY <1>1, <1>4, ColumnIs
  <2>2. b \in Seq(Char) /\ Len(b) = m /\ \A i \in 1 .. m : b[i] = s[i]
    <3>1. 0 \in 0 .. m /\ 0 = (IF 1 < Column(s) THEN 1 ELSE Column(s)) /\ m - 0 = m
      BY <1>4
    <3> QED BY <1>1, <1>2, <1>3, <3>1, BackedIs
  <2>3. ~ FirstRow(b) /\ InRow(b) = 0
    <3>1. Len(b) = Len(s)
      BY <1>2, <2>2
    <3>2. (FirstRow(b) <=> FirstRow(s)) /\ Column(b) = Column(s)
      BY <3>1 DEF FirstRow, Column
    <3> QED BY <1>4, <2>1, <3>2 DEF InRow
  <2>4. Within(a, b)
    <3>1. Len(b) >= Len(s) - 1 /\ \A i \in 1 .. Len(s) - 1 : b[i] = s[i]
      BY <1>2, <2>2
    <3> QED BY <1>1, <2>2, <3>1, WithinShrinks
  <2> QED BY <1>2, <1>3, <2>2, <2>3, <2>4 DEF OnScreen
<1>5. CASE Column(s) # 0
  <2>1. m >= 1
    BY <1>1, <1>2, <1>5, ColumnIs
  <2>2. PICK j \in Nat : j = m - 1
    BY <2>1
  <2>3. b \in Seq(Char) /\ Len(b) = j /\ \A i \in 1 .. j : b[i] = s[i]
    <3>1. 1 \in 0 .. m /\ 1 = (IF 1 < Column(s) THEN 1 ELSE Column(s))
      BY <1>1, <1>5, <2>1, ColumnIs
    <3> QED BY <1>1, <1>2, <1>3, <2>2, <3>1, BackedIs
  <2>4. Within(a, b)
    <3>1. Len(b) >= Len(s) - 1 /\ \A i \in 1 .. Len(s) - 1 : b[i] = s[i]
      BY <1>2, <2>2, <2>3
    <3> QED BY <1>1, <2>3, <3>1, WithinShrinks
  <2>5. /\ Columns > 2 /\ Columns \in Nat
        /\ FirstRow(s) <=> m + 2 < Columns
        /\ FirstRow(b) <=> j + 2 < Columns
        /\ Column(s) \in 0 .. Columns - 1
        /\ ((Column(b) = Columns - 1 /\ Column(s) = 0) \/ Column(s) = Column(b) + 1)
    <3>1. Len(s) = Len(b) + 1
      BY <1>2, <2>2, <2>3
    <3>2. (Column(b) = Columns - 1 /\ Column(s) = 0) \/ Column(s) = Column(b) + 1
      BY <1>1, <2>3, <3>1, ColumnMoves
    <3> QED BY <1>1, <1>2, <2>3, <3>2, ColumnIs
  <2>6. FirstRow(b) <=> FirstRow(s)
    <3>1. SUFFICES ASSUME j + 2 < Columns, ~(m + 2 < Columns) PROVE FALSE
      BY <2>2, <2>5
    <3>a. Column(b) = j + 2
      BY <2>3, <2>5, <3>1, ColumnIs
    <3>2. FirstRow(b) /\ Column(b) = j + 2 /\ j + 2 = Columns - 1
      BY <2>2, <2>5, <3>1, <3>a
    <3>3. Column(s) = Columns
      BY <1>5, <2>5, <3>2
    <3> QED BY <2>5, <3>3
  <2>7. FirstRow(b) => a = b
    <3>1. SUFFICES ASSUME l = s PROVE a = b
      BY <1>1, <2>6
    <3>2. n = j /\ \A i \in 1 .. j : a[i] = b[i]
      BY <1>2, <2>2, <2>3, <3>1
    <3> QED BY <1>2, <2>3, <3>2, SeqEqual
  <2>8. PICK r \in Nat, p \in Nat : r = InRow(s) /\ p = InRow(b) /\ r = p + 1 /\ r <= n + 1
    <3>1. InRow(s) = InRow(b) + 1
      <4>1. CASE FirstRow(s)
        BY <1>2, <2>2, <2>3, <2>6, <4>1 DEF InRow
      <4>2. CASE ~ FirstRow(s)
        <5>1. InRow(s) = Column(s) /\ InRow(b) = Column(b)
          BY <2>6, <4>2 DEF InRow
        <5> QED BY <1>5, <2>5, <5>1
      <4> QED BY <4>1, <4>2
    <3>2. InRow(b) \in Nat
      BY <2>3, ColumnIs
    <3> QED BY <1>1, <1>2, <3>1, <3>2
  <2>9. ASSUME NEW k \in 0 .. p - 1 PROVE a[n - k] = b[j - k]
    <3>1. /\ k + 1 \in 0 .. r - 1 /\ (n + 1) - (k + 1) = n - k /\ m - (k + 1) = j - k
      BY <2>2, <2>8
    <3>2. l[(n + 1) - (k + 1)] = s[m - (k + 1)]
      BY <1>1, <1>2, <2>8, <3>1
    <3>3. p <= j
      BY <2>3, <2>8, ColumnIs
    <3>4. n - k \in 1 .. n /\ j - k \in 1 .. j
      BY <2>8, <3>3
    <3> QED BY <1>2, <2>3, <3>1, <3>2, <3>4
  <2>10. p \in 0 .. n
    BY <2>8
  <2> QED BY <1>2, <1>3, <2>3, <2>4, <2>7, <2>8, <2>9, <2>10 DEF OnScreen
<1> QED BY <1>4, <1>5

LEMMA ScreenRecalled ==
  ASSUME NEW l \in Seq(Char), NEW s, OnScreen(l, s), NEW cmd \in Seq(Char)
  PROVE  OnScreen(cmd, Backed(s, Len(l)) \o cmd)
<1>1. s \in Seq(Char) /\ (FirstRow(s) => l = s) /\ InRow(s) \in 0 .. Len(l)
  BY DEF OnScreen
<1>2. PICK n \in Nat, m \in Nat, k \in Nat : n = Len(l) /\ m = Len(s) /\ k = Len(cmd)
  BY <1>1
<1>3. PICK w \in Nat \ {0} : w = Columns /\ w > 2
  BY <1>1, ColumnIs
<1>4. PICK b : b = Backed(s, n)
  OBVIOUS
(* The cursor is at the start of the line, or of a later row. *)
<1>5. /\ b \in Seq(Char)
      /\ Len(b) = 0 \/ \E q \in Int : 2 + Len(b) = w * q /\ 2 + Len(b) >= w
  <2>1. CASE FirstRow(s)
    <3>1. n = m /\ Column(s) = m + 2
      BY <1>1, <1>2, <2>1, ColumnIs
    <3>a. m \in 0 .. Len(s)
      BY <1>2
    <3>2. PICK c \in 0 .. Len(s) : c = m
      BY <3>a
    <3>b. c = (IF n < Column(s) THEN n ELSE Column(s))
      BY <3>1, <3>2
    <3>3. b \in Seq(Char) /\ Len(b) = Len(s) - c
      BY <1>1, <1>4, <3>b, BackedIs
    <3>4. Len(b) = 0
      BY <1>2, <3>2, <3>3
    <3> QED BY <3>3, <3>4
  <2>2. CASE ~ FirstRow(s)
    <3>1. PICK c \in Nat : c = Column(s) /\ c <= n /\ c < m /\ c = InRow(s)
      BY <1>1, <1>2, <2>2, ColumnIs DEF InRow
    <3>2. c \in 0 .. m /\ c = (IF n < Column(s) THEN n ELSE Column(s))
      BY <3>1
    <3>3. b \in Seq(Char) /\ Len(b) = m - c
      BY <1>1, <1>2, <1>4, <3>2, BackedIs
    <3>x. PICK x \in Nat : x = 2 + m
      OBVIOUS
    <3>y. x = 2 + Len(s)
      BY <1>2, <3>x
    <3>4. x = 2 + m /\ c = x % w
      BY <1>3, <3>1, <3>x, <3>y, ColumnOf
    <3>5. PICK q \in Int : x = w * q + c /\ c \in 0 .. w - 1
      BY <3>4, ModOf
    <3>6. 2 + Len(b) = w * q
      BY <3>3, <3>4, <3>5
    <3>7. x >= w
      BY <1>1, <1>2, <1>3, <2>2, <3>4, ColumnIs
    <3>8. w * q >= w
      <4>1. CASE q <= 0
        <5>1. w * q <= 0
          BY <4>1
        <5> QED BY <3>5, <3>7, <5>1
      <4>2. CASE q >= 1
        BY <4>2
      <4> QED BY <4>1, <4>2
    <3> QED BY <3>3, <3>6, <3>8
  <2> QED BY <2>1, <2>2
<1>6. PICK o \in Nat : o = Len(b)
  BY <1>5
<1>7. PICK t : t = b \o cmd
  OBVIOUS
<1>8. t \in Seq(Char) /\ Len(t) = o + k /\ \A i \in 1 .. k : t[o + i] = cmd[i]
  BY <1>2, <1>5, <1>6, <1>7, JoinedIs
<1>9. Within(cmd, t)
  BY <1>5, <1>7, WithinBehind
<1>10. FirstRow(t) => cmd = t
  <2>1. SUFFICES ASSUME FirstRow(t) PROVE cmd = t
    OBVIOUS
  <2>2. o + k + 2 < w
    BY <1>3, <1>8, <2>1, ColumnIs
  <2>3. o = 0
    BY <1>3, <1>5, <1>6, <2>2
  <2>4. \A i \in 1 .. k : 0 + i = i
    OBVIOUS
  <2>5. Len(t) = k /\ \A i \in 1 .. k : t[i] = cmd[i]
    BY <1>8, <2>3, <2>4
  <2> QED BY <1>2, <1>8, <2>5, SeqEqual
<1>11. PICK p \in Nat : p = InRow(t) /\ p <= o + k
  BY <1>8, ColumnIs
<1>12. p <= k
  <2>1. CASE FirstRow(t)
    BY <1>2, <1>10, <1>11, <2>1 DEF InRow
  <2>2. CASE ~ FirstRow(t)
    <3>x. PICK x \in Nat : x = 2 + (o + k)
      OBVIOUS
    <3>y. x = 2 + Len(t)
      BY <1>8, <3>x
    <3>z. InRow(t) = Column(t)
      BY <2>2 DEF InRow
    <3>1. x = 2 + (o + k) /\ p = x % w
      BY <1>3, <1>11, <3>x, <3>y, <3>z, ColumnOf
    <3>2. CASE o = 0
      <4>1. ~(o + k + 2 < w)
        BY <1>3, <1>8, <2>2, ColumnIs
      <4>2. PICK d \in Nat : x = w * 1 + d /\ d <= k
        <5>1. x - w \in Nat /\ x = w * 1 + (x - w) /\ x - w <= k
          BY <1>3, <3>1, <3>2, <4>1
        <5> QED BY <5>1
      <4>a. x % w <= d
        BY <4>2, ModLeast
      <4>3. x % w <= d /\ x % w \in 0 .. w - 1
        BY <4>a, ModOf
      <4> QED BY <3>1, <4>2, <4>3
    <3>3. CASE \E q \in Int : 2 + o = w * q
      <4>1. PICK q \in Int : 2 + o = w * q
        BY <3>3
      <4>2. x = w * q + k
        BY <3>1, <4>1
      <4> QED BY <3>1, <4>2, ModLeast
    <3> QED BY <1>5, <1>6, <3>2, <3>3
  <2> QED BY <2>1, <2>2
<1>13. ASSUME NEW i \in 0 .. p - 1 PROVE cmd[k - i] = t[o + k - i]
  <2>1. k - i \in 1 .. k /\ o + (k - i) = o + k - i
    BY <1>12
  <2> QED BY <1>8, <2>1
<1>14. OnScreen(cmd, t)
  BY <1>2, <1>8, <1>9, <1>10, <1>11, <1>12, <1>13 DEF OnScreen
<1> QED BY <1>2, <1>4, <1>7, <1>14

LEMMA ShellInvInit == ShellInit => ShellInv
<1> SUFFICES ASSUME ShellInit PROVE ShellInv
  OBVIOUS
<1>1. PICK history : history = [i \in 0 .. MAX_HISTORY - 1 |-> Zero]
  OBVIOUS
<1>2. shell = [buffer |-> Zero, index |-> 0, shown |-> <<>>, given |-> <<>>,
               history |-> history, count |-> 0, at |-> -1]
  BY <1>1 DEF ShellInit
<1>3. RingOK(history, <<>>, 0)
  <2>1. history \in [0 .. MAX_HISTORY - 1 -> Buffer]
    BY <1>1, ZeroIs
  <2>2. <<>> \in Seq(Command) /\ Len(<<>>) = 0
    OBVIOUS
  <2> QED BY <2>1, <2>2 DEF RingOK
<1>4. AtOK(-1, 0)
  BY DEF AtOK
<1> QED BY <1>2, <1>3, <1>4, NoLine, NoScreen, ShellOf DEF ShellInv

LEMMA ShellInvNext == ShellInv /\ ShellNext => ShellInv'
<1> SUFFICES ASSUME ShellInv, ShellNext PROVE ShellInv'
  OBVIOUS
<1>0. PICK s, t : s = shell /\ t = shell'
  OBVIOUS
<1>1. PICK buffer, index, line, shown, given, history, count, at :
        /\ s = [buffer |-> buffer, index |-> index, shown |-> shown, given |-> given,
                history |-> history, count |-> count, at |-> at]
        /\ LineOK(buffer, index, line) /\ OnScreen(line, shown)
        /\ RingOK(history, given, count) /\ AtOK(at, count)
  BY <1>0 DEF ShellInv, ShellOK, IsShell
<1>2. SUFFICES ShellOK(t)
  BY <1>0 DEF ShellInv
<1>3. /\ buffer \in Buffer /\ index \in 0 .. MAX_COMMAND_LEN - 1
      /\ line \in Command /\ line \in Seq(Char) /\ Len(line) = index
      /\ Begins(buffer, line)
  BY <1>1 DEF LineOK, Command
<1>4. /\ history \in [0 .. MAX_HISTORY - 1 -> Buffer] /\ count \in Nat
      /\ given \in Seq(Command) /\ Len(given) = count
      /\ \A i \in 0 .. count - 1 : i >= count - MAX_HISTORY =>
           Text(history[i % MAX_HISTORY]) = given[i + 1]
  BY <1>1 DEF RingOK
<1>5. CASE Enter
  <2>1. PICK p : p = Parsed(s)
    OBVIOUS
  <2>2. t = Cleared(p)
    BY <1>0, <1>5, <2>1 DEF Enter
  <2>3. PICK cmd : cmd = Text([buffer EXCEPT ![index] = 0])
    OBVIOUS
  <2>4. cmd = line /\ cmd \in Command
    BY <1>1, <1>3, <2>3, LineIs
  <2>5. PICK i \in 0 .. MAX_HISTORY - 1 : i = count % MAX_HISTORY
    BY <1>4, SizesOfShell
  <2>6. PICK h, g, c : /\ h = [history EXCEPT ![i] = Copied(cmd, history[i])]
                       /\ g = Append(given, cmd) /\ c = count + 1
    OBVIOUS
  <2>7. \/ p = [s EXCEPT !.at = -1]
        \/ p = [[s EXCEPT !.history = h, !.count = c, !.given = g] EXCEPT !.at = -1]
    <3>1. s.buffer = buffer /\ s.index = index /\ s.history = history /\ s.count = count
          /\ s.given = given
      BY <1>1
    <3>2. \/ p = [s EXCEPT !.at = -1]
          \/ p = [[s EXCEPT !.history[s.count % MAX_HISTORY] = Copied(cmd, @),
                            !.count = @ + 1, !.given = Append(@, cmd)] EXCEPT !.at = -1]
      BY <2>1, <2>3, <3>1 DEF Parsed
    <3> QED BY <2>5, <2>6, <3>1, <3>2
  <2>8. CASE p = [s EXCEPT !.at = -1]
    <3>1. t = [buffer |-> Zero, index |-> 0, shown |-> <<>>, given |-> given,
               history |-> history, count |-> count, at |-> -1]
      BY <1>1, <2>2, <2>8 DEF Cleared
    <3>2. AtOK(-1, count)
      BY <1>4 DEF AtOK
    <3> QED BY <1>1, <3>1, <3>2, NoLine, NoScreen, ShellOf
  <2>9. CASE p = [[s EXCEPT !.history = h, !.count = c, !.given = g] EXCEPT !.at = -1]
    <3>1. t = [buffer |-> Zero, index |-> 0, shown |-> <<>>, given |-> g,
               history |-> h, count |-> c, at |-> -1]
      BY <1>1, <2>2, <2>9 DEF Cleared
    <3>2. c \in Nat /\ AtOK(-1, c)
      BY <1>4, <2>6 DEF AtOK
    <3>3. /\ h \in [0 .. MAX_HISTORY - 1 -> Buffer] /\ Text(h[i]) = cmd
          /\ \A j \in 0 .. MAX_HISTORY - 1 : j # i => h[j] = history[j]
      <4>1. history[i] \in Buffer
        BY <1>4
      <4>2. Copied(cmd, history[i]) \in Buffer /\ Text(Copied(cmd, history[i])) = cmd
        BY <2>4, <4>1, CopiedIs
      <4> QED BY <1>4, <2>6, <4>2
    <3>4. /\ g \in Seq(Command) /\ Len(g) = c /\ g[count + 1] = cmd
          /\ \A j \in 1 .. count : g[j] = given[j]
      BY <1>4, <2>4, <2>6, AppendProperties
    <3>5. ASSUME NEW j \in 0 .. c - 1, j >= c - MAX_HISTORY
          PROVE  Text(h[j % MAX_HISTORY]) = g[j + 1]
      <4>1. CASE j = count
        BY <2>5, <3>3, <3>4, <4>1
      <4>2. CASE j # count
        <5>1. /\ j \in Nat /\ j < count /\ j \in 0 .. count - 1 /\ j >= count + 1 - MAX_HISTORY
              /\ j >= count - MAX_HISTORY /\ j + 1 \in 1 .. count
          BY <1>4, <2>6, <3>5, <4>2, SizesOfShell
        <5>2. j % MAX_HISTORY # i
          BY <1>4, <2>5, <5>1, RingPlaces, SizesOfShell
        <5>3. j % MAX_HISTORY \in 0 .. MAX_HISTORY - 1
          BY <5>1, SizesOfShell
        <5>4. Text(h[j % MAX_HISTORY]) = given[j + 1]
          BY <1>4, <3>3, <5>1, <5>2, <5>3
        <5> QED BY <3>4, <5>1, <5>4
      <4> QED BY <4>1, <4>2
    <3>6. RingOK(h, g, c)
      BY <3>2, <3>3, <3>4, <3>5 DEF RingOK
    <3> QED BY <3>1, <3>2, <3>6, NoLine, NoScreen, ShellOf
  <2> QED BY <2>7, <2>8, <2>9
<1>6. CASE Erase
  <2>1. PICK a, f : a = SubSeq(line, 1, index - 1) /\ f = Backed(shown, 1)
    OBVIOUS
  <2>2. index > 0 /\ t = [s EXCEPT !.index = index - 1, !.shown = f]
    <3>1. s.index = index /\ s.shown = shown
      BY <1>1
    <3>2. s.index > 0 /\ t = [s EXCEPT !.index = @ - 1, !.shown = Backed(@, 1)]
      BY <1>0, <1>6 DEF Erase
    <3>3. PICK n : n = index - 1
      OBVIOUS
    <3>4. t = [s EXCEPT !.index = n, !.shown = f]
      BY <2>1, <3>1, <3>2, <3>3
    <3> QED BY <3>1, <3>2, <3>3, <3>4
  <2>3. t = [buffer |-> buffer, index |-> index - 1, shown |-> f, given |-> given,
             history |-> history, count |-> count, at |-> at]
    BY <1>1, <2>2
  <2>4. a \in Seq(Char) /\ Len(a) = index - 1 /\ \A j \in 1 .. index - 1 : a[j] = line[j]
    <3>1. index - 1 \in Nat /\ index - 1 <= Len(line)
      BY <1>3, <2>2
    <3> QED BY <1>3, <2>1, <3>1
  <2>5. LineOK(buffer, index - 1, a)
    <3>1. index - 1 \in 0 .. MAX_COMMAND_LEN - 1
      BY <1>3, <2>2, SizesOfShell
    <3>2. Begins(buffer, a)
      BY <1>3, <2>4 DEF Begins
    <3> QED BY <1>3, <2>4, <3>1, <3>2 DEF LineOK, Command
  <2>6. OnScreen(a, f)
    <3>1. Len(line) = Len(a) + 1 /\ \A j \in 1 .. Len(a) : a[j] = line[j]
      BY <1>3, <2>4
    <3> QED BY <1>1, <1>3, <2>1, <2>4, <3>1, ScreenErased
  <2> QED BY <1>1, <2>3, <2>5, <2>6, ShellOf
<1>7. CASE Arrow
  <2>1. PICK i : count > 0 /\ (i = Up(s) \/ i = Down(s)) /\ t = Recalled(s, i)
    <3>1. s.count > 0 /\ \E i \in {Up(s), Down(s)} : t = Recalled(s, i)
      BY <1>0, <1>7 DEF Arrow
    <3> QED BY <1>1, <3>1
  <2>2. AtOK(i, count) /\ i \in Int
    <3>1. at \in Int /\ MAX_HISTORY \in Nat \ {0} /\ s.at = at /\ s.count = count
      BY <1>1, <1>4, SizesOfShell DEF AtOK
    <3>2. CASE i = Up(s)
      BY <1>1, <1>4, <2>1, <3>1, <3>2 DEF Up, AtOK
    <3>3. CASE i = Down(s)
      BY <1>1, <1>4, <2>1, <3>1, <3>3 DEF Down, AtOK
    <3> QED BY <2>1, <3>2, <3>3
  <2>3. PICK cmd, b, f : /\ cmd = (IF i = -1 THEN <<>> ELSE Text(history[i % MAX_HISTORY]))
                         /\ b = (IF i = -1 THEN Zero ELSE Copied(cmd, buffer))
                         /\ f = Backed(shown, index) \o cmd
    OBVIOUS
  <2>4. t = [s EXCEPT !.at = i, !.buffer = b, !.index = Len(cmd), !.shown = f]
    <3>1. s.history = history /\ s.buffer = buffer /\ s.shown = shown /\ s.index = index
      BY <1>1
    <3> QED BY <2>1, <2>3, <3>1 DEF Recalled
  <2>5. t = [buffer |-> b, index |-> Len(cmd), shown |-> f, given |-> given,
             history |-> history, count |-> count, at |-> i]
    BY <1>1, <2>4
  <2>6. LineOK(b, Len(cmd), cmd)
    <3>1. CASE i = -1
      BY <2>3, <3>1, NoLine DEF LineOK
    <3>2. CASE i # -1
      <4>1. i \in 0 .. count - 1 /\ i >= count - MAX_HISTORY /\ i + 1 \in 1 .. count
        BY <1>4, <2>2, <3>2, SizesOfShell DEF AtOK
      <4>2. cmd \in Command
        BY <1>4, <2>3, <3>2, <4>1, ElementOfSeq
      <4> QED BY <1>3, <2>3, <3>2, <4>2, CopiedIs DEF LineOK, Command
    <3> QED BY <3>1, <3>2
  <2>7. OnScreen(cmd, f)
    <3>1. cmd \in Seq(Char)
      BY <2>6 DEF LineOK, Command
    <3> QED BY <1>1, <1>3, <2>3, <3>1, ScreenRecalled
  <2> QED BY <1>1, <2>2, <2>5, <2>6, <2>7, ShellOf
<1>8. ASSUME NEW c \in Char, Type(c) PROVE ShellOK(t)
  <2>1. PICK b, g, f : /\ b = [buffer EXCEPT ![index] = c]
                       /\ g = Append(shown, c) /\ f = Append(line, c)
    OBVIOUS
  <2>2. index < MAX_COMMAND_LEN - 1 /\ t = [s EXCEPT !.buffer = b, !.index = index + 1, !.shown = g]
    <3>1. s.buffer = buffer /\ s.index = index /\ s.shown = shown
      BY <1>1
    <3>2. /\ s.index < MAX_COMMAND_LEN - 1
          /\ t = [s EXCEPT !.buffer[s.index] = c, !.index = @ + 1, !.shown = Append(@, c)]
      BY <1>0, <1>8 DEF Type
    <3> QED BY <2>1, <3>1, <3>2
  <2>3. t = [buffer |-> b, index |-> index + 1, shown |-> g, given |-> given,
             history |-> history, count |-> count, at |-> at]
    BY <1>1, <2>2
  <2>4. f \in Seq(Char) /\ Len(f) = index + 1 /\ f[index + 1] = c
        /\ \A j \in 1 .. index : f[j] = line[j]
    BY <1>3, <2>1, AppendProperties
  <2>5. b \in Buffer /\ b[index] = c /\ \A j \in 0 .. index - 1 : b[j] = buffer[j]
    BY <1>3, <2>1, SizesOfShell DEF Buffer
  <2>6. index + 1 \in 0 .. MAX_COMMAND_LEN - 1
    BY <1>3, <2>2, SizesOfShell
  <2>7. Begins(b, f)
    <3>1. ASSUME NEW j \in 1 .. index + 1 PROVE b[j - 1] = f[j]
      <4>1. CASE j = index + 1
        <5>1. j - 1 = index
          BY <1>3, <4>1
        <5> QED BY <2>4, <2>5, <4>1, <5>1
      <4>2. CASE j # index + 1
        <5>1. j \in 1 .. index /\ j - 1 \in 0 .. index - 1
          BY <1>3, <4>2
        <5>2. buffer[j - 1] = line[j]
          BY <1>3, <5>1 DEF Begins
        <5> QED BY <2>4, <2>5, <5>1, <5>2
      <4> QED BY <4>1, <4>2
    <3> QED BY <2>4, <3>1 DEF Begins
  <2>8. LineOK(b, index + 1, f)
    BY <2>4, <2>5, <2>6, <2>7 DEF LineOK, Command
  <2>9. OnScreen(f, g)
    BY <1>1, <1>3, <2>1, ScreenTyped
  <2> QED BY <1>1, <2>3, <2>8, <2>9, ShellOf
<1> QED BY <1>5, <1>6, <1>7, <1>8 DEF ShellNext

LEMMA ShellGives == ShellInv => ShellTypeOK /\ RunsWhatIsShown
<1> SUFFICES ASSUME ShellInv PROVE ShellTypeOK /\ RunsWhatIsShown
  OBVIOUS
<1>1. PICK line : /\ LineOK(shell.buffer, shell.index, line) /\ OnScreen(line, shell.shown)
                  /\ RingOK(shell.history, shell.given, shell.count) /\ AtOK(shell.at, shell.count)
  BY DEF ShellInv, ShellOK
<1>2. ShellTypeOK
  BY <1>1 DEF ShellTypeOK, LineOK, AtOK, OnScreen
<1>3. Text([shell.buffer EXCEPT ![shell.index] = 0]) = line
  BY <1>1, LineIs
<1>4. InRow(shell.shown) <= Len(line)
  <2>1. Len(line) \in Nat
    BY <1>1 DEF LineOK, Command
  <2> QED BY <1>1, <2>1 DEF OnScreen
<1> QED BY <1>1, <1>2, <1>3, <1>4 DEF RunsWhatIsShown, RingOK, AtOK, OnScreen

-----------------------------------------------------------------------------
(***************************************************************************)
(* The game.  Its body is as long as the snake, less a segment just won.   *)
(***************************************************************************)
Ways == {<<0, -1>>, <<0, 1>>, <<-1, 0>>, <<1, 0>>}
Body(s) == s.length - (IF s.grown THEN 1 ELSE 0)

IsSnake(s) ==
  s = [cell |-> s.cell, length |-> s.length, d |-> s.d, food |-> s.food,
       score |-> s.score, game_over |-> s.game_over, grown |-> s.grown]

SnakeFields(s) ==
  /\ DOMAIN s.cell = 1 .. SNAKE_MAX_LEN
  /\ s.length \in 3 .. SNAKE_MAX_LEN /\ s.d \in Ways /\ s.food \in Board
  /\ s.score \in Nat /\ s.game_over \in BOOLEAN /\ s.grown \in BOOLEAN

IsAPath(s) ==
  /\ s.cell[1] \in Board
  /\ \A i \in 1 .. Body(s) : s.cell[i] \in Int \X Int
  /\ \A i \in 2 .. Body(s) : Adjacent(s.cell[i - 1], s.cell[i]) /\ s.cell[i] # s.cell[1]
  /\ s.length < SNAKE_MAX_LEN => s.score = 10 * (s.length - 3)

SnakeOK(s) == IsSnake(s) /\ SnakeFields(s) /\ (~s.game_over => IsAPath(s))
SnakeInv == SnakeOK(snake)

LEMMA BoardIs ==
  /\ Board \subseteq Int \X Int
  /\ <<StartX, StartY>> \in Board /\ <<StartX - 1, StartY>> \in Board
  /\ <<StartX - 2, StartY>> \in Board /\ StartX \in Int /\ StartY \in Int
  /\ SNAKE_MAX_LEN \in Nat /\ SNAKE_MAX_LEN >= 3
<1>1. /\ GAME_WIDTH \in Nat /\ GAME_HEIGHT \in Nat /\ SNAKE_MAX_LEN \in Nat
      /\ SNAKE_MAX_LEN >= 3
      /\ StartX \in 2 .. GAME_WIDTH - 1 /\ StartY \in 0 .. GAME_HEIGHT - 1
  BY SnakeAssumption
<1>2. /\ StartX \in 0 .. GAME_WIDTH - 1 /\ StartX - 1 \in 0 .. GAME_WIDTH - 1
      /\ StartX - 2 \in 0 .. GAME_WIDTH - 1
  BY <1>1
<1> QED BY <1>1, <1>2 DEF Board

LEMMA StartedIs ==
  ASSUME NEW cell, DOMAIN cell = 1 .. SNAKE_MAX_LEN, NEW food \in Board
  PROVE  SnakeOK(Started(cell, food))
<1> DEFINE a == <<StartX, StartY>>
           b == <<StartX - 1, StartY>>
           c == <<StartX - 2, StartY>>
           new == [cell EXCEPT ![1] = a, ![2] = b, ![3] = c]
<1>1. PICK s : s = Started(cell, food)
  OBVIOUS
<1>2. s = [cell |-> new, length |-> 3, d |-> <<1, 0>>, food |-> food, score |-> 0,
           game_over |-> FALSE, grown |-> FALSE]
  BY <1>1 DEF Started
<1>3. a \in Board /\ a \in Int \X Int /\ b \in Int \X Int /\ c \in Int \X Int
  BY BoardIs
<1>4. Adjacent(a, b) /\ Adjacent(b, c) /\ b # a /\ c # a
  BY BoardIs DEF Adjacent
<1> HIDE DEF a, b, c
<1>5. DOMAIN new = 1 .. SNAKE_MAX_LEN /\ new[1] = a /\ new[2] = b /\ new[3] = c
  BY BoardIs
<1> HIDE DEF new
<1>6. Body(s) = 3
  BY <1>2 DEF Body
<1>7. \A i \in 1 .. 3 : i = 1 \/ i = 2 \/ i = 3
  OBVIOUS
<1>8. \A i \in 2 .. 3 : (i = 2 \/ i = 3) /\ i - 1 \in 1 .. 2
  OBVIOUS
<1>9. IsAPath(s)
  <2>1. \A i \in 1 .. 3 : s.cell[i] \in Int \X Int
    BY <1>2, <1>3, <1>5, <1>7
  <2>2. \A i \in 2 .. 3 : Adjacent(s.cell[i - 1], s.cell[i]) /\ s.cell[i] # s.cell[1]
    <3>1. s.cell[1] = a /\ s.cell[2] = b /\ s.cell[3] = c
      BY <1>2, <1>5
    <3>2. 2 - 1 = 1 /\ 3 - 1 = 2
      OBVIOUS
    <3> QED BY <1>4, <1>8, <3>1, <3>2
  <2>3. s.cell[1] \in Board /\ s.score = 10 * (s.length - 3)
    BY <1>2, <1>3, <1>5
  <2> QED BY <1>6, <2>1, <2>2, <2>3 DEF IsAPath
<1>10. IsSnake(s)
  BY <1>2 DEF IsSnake
<1>11. SnakeFields(s)
  BY <1>2, <1>5, BoardIs DEF SnakeFields, Ways
<1> QED BY <1>1, <1>9, <1>10, <1>11 DEF SnakeOK

LEMMA SnakeInvMove == SnakeInv /\ Move => SnakeInv'
<1> SUFFICES ASSUME SnakeInv, Move PROVE SnakeInv'
  OBVIOUS
<1> DEFINE s == snake
           head == <<s.cell[1][1] + s.d[1], s.cell[1][2] + s.d[2]>>
           cell == [Shifted(s) EXCEPT ![1] = head]
           moved == [s EXCEPT !.cell = cell, !.grown = FALSE,
                              !.game_over = Dead(head, cell, s.length)]
           grows == s.length < SNAKE_MAX_LEN
<1>1. PICK t : t = snake'
  OBVIOUS
<1>2. IsSnake(s) /\ SnakeFields(s) /\ IsAPath(s) /\ ~s.game_over
  BY DEF SnakeInv, SnakeOK, Move
<1>12. \/ t = moved
      \/ \E food \in Board :
           t = [moved EXCEPT !.score = @ + 10, !.food = food, !.grown = grows,
                             !.length = IF grows THEN @ + 1 ELSE @]
  BY <1>1 DEF Move
<1>3. /\ DOMAIN s.cell = 1 .. SNAKE_MAX_LEN /\ s.length \in 3 .. SNAKE_MAX_LEN
      /\ s.d \in Ways /\ s.score \in Nat /\ SNAKE_MAX_LEN \in Nat
  BY <1>2, BoardIs DEF SnakeFields
<1>4. s.length - 1 <= Body(s) /\ Body(s) \in Nat /\ 1 <= Body(s)
  <2>1. PICK g : g = IF s.grown THEN 1 ELSE 0
    OBVIOUS
  <2>2. g \in 0 .. 1 /\ Body(s) = s.length - g
    BY <2>1 DEF Body
  <2> QED BY <1>3, <2>2
<1>5. /\ DOMAIN cell = 1 .. SNAKE_MAX_LEN /\ cell[1] = head
      /\ \A i \in 2 .. s.length : cell[i] = s.cell[i - 1]
  <2> HIDE DEF head
  <2> QED BY <1>3 DEF Shifted
<1>6. s.cell[1] \in Int \X Int /\ head \in Int \X Int /\ Adjacent(head, s.cell[1])
  <2>1. PICK x \in Int, y \in Int : s.cell[1] = <<x, y>>
    <3>1. 1 \in 1 .. Body(s)
      BY <1>4
    <3>2. s.cell[1] \in Int \X Int
      BY <1>2, <3>1 DEF IsAPath
    <3> QED BY <3>2
  <2>2. PICK p \in Int, q \in Int : s.d = <<p, q>>
    BY <1>3 DEF Ways
  <2>3. head = <<x + p, y + q>>
    BY <2>1, <2>2
  <2>4. <<x - (x + p), y - (y + q)>> \in Ways
    <3>1. x - (x + p) = -p /\ y - (y + q) = -q
      OBVIOUS
    <3> QED BY <1>3, <2>2, <3>1 DEF Ways
  <2> QED BY <2>1, <2>3, <2>4 DEF Adjacent, Ways
<1> HIDE DEF head, cell
<1>7. PICK over \in BOOLEAN : over = Dead(head, cell, s.length)
  BY DEF Dead
<1>8. ASSUME ~over
      PROVE  /\ cell[1] \in Board
             /\ \A i \in 1 .. s.length : cell[i] \in Int \X Int
             /\ \A i \in 2 .. s.length : Adjacent(cell[i - 1], cell[i]) /\ cell[i] # cell[1]
  <2>1. head \in Board /\ \A i \in 2 .. s.length : cell[i] # head
    BY <1>7, <1>8 DEF Dead
  <2>2. ASSUME NEW i \in 2 .. s.length
        PROVE  cell[i] \in Int \X Int /\ Adjacent(cell[i - 1], cell[i])
    <3>1. i - 1 \in 1 .. Body(s) /\ cell[i] = s.cell[i - 1]
      BY <1>3, <1>4, <1>5
    <3>2. CASE i = 2
      <4>1. i - 1 = 1
        BY <3>2
      <4> QED BY <1>5, <1>6, <3>1, <4>1
    <3>3. CASE i # 2
      <4>1. /\ i - 1 \in 2 .. s.length /\ i - 1 \in 2 .. Body(s)
            /\ cell[i - 1] = s.cell[(i - 1) - 1]
        BY <1>3, <1>4, <1>5, <3>1, <3>3
      <4> QED BY <1>2, <3>1, <4>1 DEF IsAPath
    <3> QED BY <3>2, <3>3
  <2>3. \A i \in 1 .. s.length : i = 1 \/ i \in 2 .. s.length
    BY <1>3
  <2> QED BY <1>5, <1>6, <2>1, <2>2, <2>3
<1>9. ASSUME NEW score \in Nat, NEW food \in Board, NEW length \in 3 .. SNAKE_MAX_LEN,
             NEW grown \in BOOLEAN, length - (IF grown THEN 1 ELSE 0) = s.length,
             length < SNAKE_MAX_LEN => score = 10 * (length - 3),
             t = [cell |-> cell, length |-> length, d |-> s.d, food |-> food,
                  score |-> score, game_over |-> over, grown |-> grown]
      PROVE  SnakeInv'
  <2>1. IsSnake(t) /\ SnakeFields(t)
    BY <1>3, <1>5, <1>9 DEF IsSnake, SnakeFields
  <2>2. Body(t) = s.length
    BY <1>9 DEF Body
  <2>3. ~over => IsAPath(t)
    BY <1>8, <1>9, <2>2 DEF IsAPath
  <2>4. t.game_over = over
    BY <1>9
  <2> QED BY <1>1, <2>1, <2>3, <2>4 DEF SnakeInv, SnakeOK
<1>10. CASE t = moved
  <2>1. t = [s EXCEPT !.cell = cell, !.grown = FALSE, !.game_over = over]
    BY <1>7, <1>10
  <2>2. t = [cell |-> cell, length |-> s.length, d |-> s.d, food |-> s.food,
             score |-> s.score, game_over |-> over, grown |-> FALSE]
    BY <1>2, <2>1 DEF IsSnake
  <2>3. s.length - (IF FALSE THEN 1 ELSE 0) = s.length
    BY <1>3
  <2>4. s.food \in Board /\ (s.length < SNAKE_MAX_LEN => s.score = 10 * (s.length - 3))
    BY <1>2 DEF SnakeFields, IsAPath
  <2> QED BY <1>3, <1>9, <2>2, <2>3, <2>4
<1>11. ASSUME NEW food \in Board,
              t = [moved EXCEPT !.score = @ + 10, !.food = food, !.grown = grows,
                                !.length = IF grows THEN @ + 1 ELSE @]
       PROVE  SnakeInv'
  <2>1. PICK m : m = moved
    OBVIOUS
  <2>2. m = [s EXCEPT !.cell = cell, !.grown = FALSE, !.game_over = over]
    BY <1>7, <2>1
  <2>3. m = [cell |-> cell, length |-> s.length, d |-> s.d, food |-> s.food,
             score |-> s.score, game_over |-> over, grown |-> FALSE]
    BY <1>2, <2>2 DEF IsSnake
  <2>4. PICK g \in BOOLEAN : g = grows
    <3>1. grows \in BOOLEAN
      BY <1>3
    <3> QED BY <3>1, Zenon
  <2>5. PICK l : l = IF g THEN s.length + 1 ELSE s.length
    OBVIOUS
  <2>6. PICK p : p = s.score + 10
    OBVIOUS
  <2>7. t = [m EXCEPT !.score = p, !.food = food, !.grown = g, !.length = l]
    BY <1>11, <2>1, <2>3, <2>4, <2>5, <2>6
  <2>8. t = [cell |-> cell, length |-> l, d |-> s.d, food |-> food,
             score |-> p, game_over |-> over, grown |-> g]
    BY <2>3, <2>7
  <2>9. s.length < SNAKE_MAX_LEN => s.score = 10 * (s.length - 3)
    BY <1>2 DEF IsAPath
  <2>10. /\ l \in 3 .. SNAKE_MAX_LEN /\ l - (IF g THEN 1 ELSE 0) = s.length /\ p \in Nat
         /\ l < SNAKE_MAX_LEN => p = 10 * (l - 3)
    <3>1. CASE g
      <4>1. l = s.length + 1 /\ s.length < SNAKE_MAX_LEN
        BY <2>4, <2>5, <3>1
      <4>2. l \in 3 .. SNAKE_MAX_LEN /\ l - 1 = s.length /\ p \in Nat
        BY <1>3, <2>6, <4>1
      <4>3. p = 10 * (s.length - 3) + 10
        BY <2>6, <2>9, <4>1
      <4>4. p = 10 * (l - 3)
        BY <1>3, <4>1, <4>3
      <4> QED BY <3>1, <4>2, <4>4
    <3>2. CASE ~g
      <4>1. l = s.length /\ ~(s.length < SNAKE_MAX_LEN)
        BY <2>4, <2>5, <3>2
      <4> QED BY <1>3, <2>6, <3>2, <4>1
    <3> QED BY <3>1, <3>2
  <2> QED BY <1>9, <2>8, <2>10
<1> QED BY <1>12, <1>10, <1>11

LEMMA SnakeInvNext == SnakeInv /\ SnakeNext => SnakeInv'
<1> SUFFICES ASSUME SnakeInv, SnakeNext PROVE SnakeInv'
  OBVIOUS
<1>0. PICK s, t : s = snake /\ t = snake'
  OBVIOUS
<1>1. CASE Turn
  <2>1. PICK d \in Ways : t = [s EXCEPT !.d = d]
    BY <1>0, <1>1 DEF Turn, Ways
  <2>2. t = [cell |-> s.cell, length |-> s.length, d |-> d, food |-> s.food,
             score |-> s.score, game_over |-> s.game_over, grown |-> s.grown]
    BY <1>0, <2>1 DEF SnakeInv, SnakeOK, IsSnake
  <2>3. SnakeOK(s)
    BY <1>0 DEF SnakeInv
  <2>4. SnakeFields(t) /\ IsSnake(t)
    BY <2>2, <2>3 DEF SnakeOK, SnakeFields, IsSnake
  <2>5. Body(t) = Body(s) /\ t.cell = s.cell /\ t.length = s.length /\ t.score = s.score
    BY <2>2 DEF Body
  <2>6. ~t.game_over => IsAPath(t)
    BY <2>2, <2>3, <2>5 DEF SnakeOK, IsAPath
  <2> QED BY <1>0, <2>4, <2>6 DEF SnakeOK, SnakeInv
<1>2. CASE Restart
  <2>1. PICK food \in Board : t = Started(s.cell, food)
    BY <1>0, <1>2 DEF Restart
  <2>2. DOMAIN s.cell = 1 .. SNAKE_MAX_LEN
    BY <1>0 DEF SnakeInv, SnakeOK, SnakeFields
  <2> QED BY <1>0, <2>1, <2>2, StartedIs DEF SnakeInv
<1> QED BY <1>1, <1>2, SnakeInvMove DEF SnakeNext

LEMMA SnakeInvInit == SnakeInit => SnakeInv
BY StartedIs DEF SnakeInit, SnakeInv

-----------------------------------------------------------------------------
(***************************************************************************)
(* The file manager.  A list that is of this disk has the rows of the      *)
(* first entries of the directory, in order: entries are only added.       *)
(***************************************************************************)
NameLetter == UNION {{name[i] : i \in DOMAIN name} : name \in FileName}
Letter == NameLetter \union {Period} \union LowByte
Entry ==
  {e \in [stem : Seq(Letter), suffix : Seq(Letter), low : LowByte] :
     Len(e.stem) \in 0 .. NameSize /\ Len(e.suffix) \in 0 .. ExtSize}

IsFiles(f) ==
  f = [root |-> f.root, list |-> f.list, last |-> f.last, soon |-> f.soon,
       opened |-> f.opened, disk |-> f.disk]

ListOK(root, list, disk) ==
  /\ root \in Seq(Entry) /\ list \in Seq(Seq(Letter))
  /\ Len(list) \in 0 .. MAX_FILES
  /\ disk => Len(list) \in 0 .. Len(root) /\ \A i \in 1 .. Len(list) : list[i] = Row(root[i])

FilesInv == IsFiles(files) /\ ListOK(files.root, files.list, files.disk)

LEMMA SizesIs ==
  /\ NameSize \in Nat \ {0} /\ ExtSize \in Nat \ {0} /\ MAX_FILES \in Nat \ {0}
  /\ Period \in Letter /\ LowByte \subseteq Letter
<1>1. NameSize \in Nat \ {0} /\ ExtSize \in Nat \ {0} /\ MAX_FILES \in Nat \ {0}
  BY FileManagerAssumption
<1>2. Period \in Letter /\ LowByte \subseteq Letter
  BY DEF Letter
<1> QED BY <1>1, <1>2

LEMMA NamesAre == ASSUME NEW name \in FileName PROVE name \in Seq(Letter)
<1>1. name \in Seq({name[i] : i \in DOMAIN name})
  BY FileManagerAssumption
<1>2. {name[i] : i \in DOMAIN name} \subseteq Letter
  BY DEF Letter, NameLetter
<1>3. name \in [1 .. Len(name) -> Letter] /\ Len(name) \in Nat
  BY <1>1, <1>2, LenProperties
<1> QED BY <1>3, SeqDef

LEMMA CutIs ==
  ASSUME NEW S, NEW s \in Seq(S), NEW n \in Nat
  PROVE  Cut(s, n) \in Seq(S) /\ Len(Cut(s, n)) \in 0 .. n /\ Len(Cut(s, n)) \in 0 .. Len(s)
         /\ \A i \in 1 .. Len(Cut(s, n)) : Cut(s, n)[i] = s[i]
<1>1. PICK l \in Nat : l = Len(s)
  BY LenProperties
<1>2. \A i \in 1 .. l : s[i] \in S
  BY <1>1, ElementOfSeq
<1>3. CASE l > n
  <2>1. /\ SubSeq(s, 1, n) \in Seq(S)
        /\ Len(SubSeq(s, 1, n)) = IF 1 <= n THEN n - 1 + 1 ELSE 0
        /\ \A i \in 1 .. n - 1 + 1 : SubSeq(s, 1, n)[i] = s[1 + i - 1]
    BY <1>2, <1>3, SubSeqProperties
  <2>2. PICK c : c = SubSeq(s, 1, n)
    OBVIOUS
  <2>3. c \in Seq(S) /\ Len(c) = n /\ \A i \in 1 .. n : c[i] = s[i]
    BY <2>1, <2>2
  <2>4. Cut(s, n) = c
    BY <1>1, <1>3, <2>2 DEF Cut
  <2> QED BY <1>1, <1>3, <2>3, <2>4
<1>4. CASE ~(l > n)
  <2>1. Cut(s, n) = s
    BY <1>1, <1>4 DEF Cut
  <2> QED BY <1>1, <1>4, <2>1
<1> QED BY <1>3, <1>4

LEMMA PartIs ==
  ASSUME NEW S, NEW s \in Seq(S), NEW m \in 1 .. Len(s) + 2, NEW n \in 0 .. Len(s)
  PROVE  SubSeq(s, m, n) \in Seq(S)
<1>1. PICK l \in Nat : l = Len(s)
  BY LenProperties
<1>2. \A i \in m .. n : s[i] \in S
  BY <1>1, ElementOfSeq
<1> QED BY <1>1, <1>2, SubSeqProperties

LEMMA DotIs ==
  ASSUME NEW s \in Seq(Letter)
  PROVE  DotIn(s) \in 1 .. Len(s) + 1
<1>1. PICK l \in Nat : l = Len(s) /\ DOMAIN s = 1 .. l
  BY LenProperties
<1> DEFINE T == {i \in DOMAIN s : s[i] = Period} \union {Len(s) + 1}
<1>2. T \in SUBSET Nat /\ T # {} /\ l + 1 \in T /\ \A t \in T : t \in 1 .. l + 1
  BY <1>1
<1>3. DotIn(s) = Min(T)
  BY DEF DotIn
<1> HIDE DEF T
<1>4. Min(T) \in T
  BY <1>2, MinOfNats
<1> QED BY <1>1, <1>2, <1>3, <1>4

LEMMA NewEntryIs ==
  ASSUME NEW name \in FileName, NEW low \in LowByte
  PROVE  [stem |-> Stem(name), suffix |-> Suffix(name), low |-> low] \in Entry
<1>1. name \in Seq(Letter)
  BY NamesAre
<1>2. PICK l \in Nat : l = Len(name)
  BY <1>1, LenProperties
<1>3. PICK d \in 1 .. l + 1 : d = DotIn(name)
  BY <1>1, <1>2, DotIs
<1>4. Stem(name) \in Seq(Letter) /\ Len(Stem(name)) \in 0 .. NameSize
  <2>1. SubSeq(name, 1, d - 1) \in Seq(Letter)
    BY <1>1, <1>2, PartIs
  <2> QED BY <1>3, <2>1, CutIs, SizesIs DEF Stem
<1>5. Suffix(name) \in Seq(Letter) /\ Len(Suffix(name)) \in 0 .. ExtSize
  <2>1. SubSeq(name, d + 1, Len(name)) \in Seq(Letter)
    BY <1>1, <1>2, PartIs
  <2>2. <<>> \in Seq(Letter) /\ Len(<<>>) = 0
    OBVIOUS
  <2>3. CASE d <= NameSize + 1
    BY <1>3, <2>1, <2>3, CutIs, SizesIs DEF Suffix
  <2>4. CASE ~(d <= NameSize + 1)
    BY <1>3, <2>2, <2>4, SizesIs DEF Suffix
  <2> QED BY <2>3, <2>4
<1> QED BY <1>4, <1>5 DEF Entry

LEMMA SpelledIs ==
  ASSUME NEW e \in Entry
  PROVE  /\ Spelled(e) \in Seq(Letter)
         /\ Len(e.suffix) = ExtSize =>
              SubSeq(Spelled(e), Len(Spelled(e)) - ExtSize + 1, Len(Spelled(e))) = e.suffix
<1>1. e.stem \in Seq(Letter) /\ e.suffix \in Seq(Letter) /\ Len(e.suffix) \in 0 .. ExtSize
  BY DEF Entry
<1>2. PICK a \in Nat, b \in Nat : a = Len(e.stem) /\ b = Len(e.suffix)
  BY <1>1, LenProperties
<1> DEFINE p == e.stem \o <<Period>>
<1>3. p \in Seq(Letter) /\ Len(p) = a + 1
  <2>1. <<Period>> \in Seq(Letter) /\ Len(<<Period>>) = 1
    BY SizesIs
  <2> QED BY <1>1, <1>2, <2>1, ConcatProperties
<1> HIDE DEF p
<1>4. p \o e.suffix \in Seq(Letter) /\ Len(p \o e.suffix) = a + 1 + b
  <2>1. PICK t \in Seq(Letter) : t = e.suffix /\ Len(t) = b
    BY <1>1, <1>2
  <2>2. p \o t \in Seq(Letter) /\ Len(p \o t) = Len(p) + Len(t)
    BY <1>3, ConcatProperties
  <2>3. Len(p) + Len(t) = a + 1 + b
    BY <1>3, <2>1
  <2> QED BY <2>1, <2>2, <2>3
<1>5. Spelled(e) = IF e.suffix = <<>> THEN e.stem ELSE p \o e.suffix
  BY DEF Spelled, p
<1>6. ASSUME Len(e.suffix) = ExtSize
      PROVE  SubSeq(Spelled(e), Len(Spelled(e)) - ExtSize + 1, Len(Spelled(e))) = e.suffix
  <2>1. b = ExtSize /\ ExtSize \in Nat \ {0}
    BY <1>2, <1>6, SizesIs
  <2>2. e.suffix # <<>>
    BY <1>6, <2>1
  <2>3. PICK q \in Seq(Letter) : q = Spelled(e) /\ q = p \o e.suffix /\ Len(q) = a + 1 + b
    BY <1>4, <1>5, <2>2
  <2>4. SubSeq(q, a + 1 + 1, a + 1 + b) = SubSeq(e.suffix, 1, b)
    <3>1. /\ a + 1 + 1 \in Len(p) + 1 .. Len(p) + Len(e.suffix)
          /\ a + 1 + b \in Len(p) + 1 .. Len(p) + Len(e.suffix)
      BY <1>2, <1>3, <2>1
    <3>2. SubSeq(p \o e.suffix, a + 1 + 1, a + 1 + b)
            = SubSeq(e.suffix, (a + 1 + 1) - Len(p), (a + 1 + b) - Len(p))
      BY <1>1, <1>3, <3>1, SubSeqOfConcat2
    <3>3. (a + 1 + 1) - Len(p) = 1 /\ (a + 1 + b) - Len(p) = b
      BY <1>3
    <3> QED BY <2>3, <3>2, <3>3
  <2>5. SubSeq(e.suffix, 1, b) = e.suffix
    <3>1. \A i \in 1 .. b : e.suffix[i] \in Letter
      BY <1>1, <1>2, ElementOfSeq
    <3>2. PICK c : c = SubSeq(e.suffix, 1, b)
      OBVIOUS
    <3>3. /\ c \in Seq(Letter) /\ Len(c) = IF 1 <= b THEN b - 1 + 1 ELSE 0
          /\ \A i \in 1 .. b - 1 + 1 : c[i] = e.suffix[1 + i - 1]
      BY <3>1, <3>2, SubSeqProperties
    <3>4. Len(c) = b /\ \A i \in 1 .. b : c[i] = e.suffix[i]
      BY <2>1, <3>3
    <3> QED BY <1>1, <1>2, <3>2, <3>3, <3>4, SeqEqual
  <2>6. Len(q) - ExtSize + 1 = a + 1 + 1
    BY <2>1, <2>3
  <2> QED BY <2>3, <2>4, <2>5, <2>6
<1> QED BY <1>1, <1>4, <1>5, <1>6

LEMMA RowIs ==
  ASSUME NEW e \in Entry
  PROVE  /\ Row(e) \in Seq(Letter)
         /\ Len(Row(e)) < NameSize + 1 + ExtSize => Row(e) = Spelled(e)
<1>1. Spelled(e) \in Seq(Letter) /\ <<e.low>> \in Seq(Letter) /\ Len(<<e.low>>) = 1
  BY SpelledIs, SizesIs DEF Entry
<1>2. PICK l \in Nat : l = Len(Spelled(e))
  BY <1>1, LenProperties
<1>3. CASE Full(Spelled(e)) /\ e.low # EndOfName
  <2>1. PICK r : r = Row(e)
    OBVIOUS
  <2>2. r = Spelled(e) \o <<e.low>>
    BY <1>3, <2>1 DEF Row
  <2>3. r \in Seq(Letter) /\ Len(r) = l + 1
    BY <1>1, <1>2, <2>2, ConcatProperties
  <2>4. l = NameSize + 1 + ExtSize
    BY <1>2, <1>3 DEF Full
  <2>5. ~(Len(r) < NameSize + 1 + ExtSize)
    BY <2>3, <2>4, SizesIs
  <2> QED BY <2>1, <2>3, <2>5
<1>4. CASE ~(Full(Spelled(e)) /\ e.low # EndOfName)
  BY <1>1, <1>4 DEF Row
<1> QED BY <1>3, <1>4

(* The directory's first entry of a name that entry n has. *)
LEMMA FindIs ==
  ASSUME NEW root \in Seq(Entry), NEW n \in 1 .. Len(root), NEW name,
         name = Spelled(root[n])
  PROVE  /\ Find(root, name) \in 1 .. n
         /\ Spelled(root[Find(root, name)]) = name
<1>1. PICK l \in Nat : l = Len(root) /\ DOMAIN root = 1 .. l
  BY LenProperties
<1> DEFINE T == {i \in DOMAIN root : Spelled(root[i]) = name} \union {Len(root) + 1}
<1>2. T \in SUBSET Nat /\ n \in T /\ \A t \in T : t # l + 1 => t \in 1 .. l /\ Spelled(root[t]) = name
  BY <1>1
<1>3. Find(root, name) = Min(T)
  BY DEF Find
<1> HIDE DEF T
<1>4. Min(T) \in T /\ Min(T) <= n
  BY <1>2, MinOfNats
<1>5. Min(T) # l + 1 /\ n \in Nat
  BY <1>1, <1>2, <1>4
<1>6. Min(T) \in 1 .. n /\ Spelled(root[Min(T)]) = name
  <2>1. PICK x : x = Min(T)
    OBVIOUS
  <2>2. x \in 1 .. l /\ Spelled(root[x]) = name /\ x <= n
    BY <1>2, <1>4, <1>5, <2>1
  <2> QED BY <1>5, <2>1, <2>2
<1> QED BY <1>3, <1>6

LEMMA FilesGive == FilesInv => FilesTypeOK /\ ListedFilesOpen
<1> SUFFICES ASSUME FilesInv PROVE FilesTypeOK /\ ListedFilesOpen
  OBVIOUS
<1>0. PICK disk : disk = files.disk
  OBVIOUS
<1>1. PICK root \in Seq(Entry), list \in Seq(Seq(Letter)) :
        /\ root = files.root /\ list = files.list /\ disk = files.disk
        /\ Len(list) \in 0 .. MAX_FILES
        /\ disk => /\ Len(list) \in 0 .. Len(root)
                   /\ \A i \in 1 .. Len(list) : list[i] = Row(root[i])
  BY <1>0 DEF FilesInv, ListOK
<1>2. PICK l \in Nat, n \in Nat :
        /\ l = Len(root) /\ DOMAIN root = 1 .. l /\ n = Len(list) /\ DOMAIN list = 1 .. n
  BY LenProperties
<1>3. FilesTypeOK
  <2>1. Len(list) <= MAX_FILES
    BY <1>1, <1>2, SizesIs
  <2>2. ASSUME NEW i \in DOMAIN root
        PROVE  Len(root[i].stem) <= NameSize /\ Len(root[i].suffix) <= ExtSize
    <3>1. root[i] \in Entry
      BY <1>2, ElementOfSeq
    <3>2. PICK a \in 0 .. NameSize, b \in 0 .. ExtSize :
            a = Len(root[i].stem) /\ b = Len(root[i].suffix)
      BY <3>1 DEF Entry
    <3>3. a <= NameSize /\ b <= ExtSize
      BY SizesIs
    <3> QED BY <3>2, <3>3
  <2> QED BY <1>1, <2>1, <2>2 DEF FilesTypeOK
<1>4. ASSUME disk, NEW row \in DOMAIN list, Len(list[row]) < NameSize + 1 + ExtSize
      PROVE  LET name == list[row]
                 i == Find(root, name)
             IN /\ i \in 1 .. row
                /\ IsImage(name) => Len(root[i].suffix) < ExtSize \/ root[i].suffix \in Image
  <2>1. row \in 1 .. n /\ row \in 1 .. l /\ list[row] = Row(root[row]) /\ root[row] \in Entry
    BY <1>1, <1>2, <1>4, ElementOfSeq
  <2>2. PICK name : name = list[row]
    OBVIOUS
  <2>3. name = Spelled(root[row])
    BY <1>4, <2>1, <2>2, RowIs
  <2>4. PICK i : i = Find(root, name)
    OBVIOUS
  <2>5. i \in 1 .. row /\ Spelled(root[i]) = name
    BY <1>2, <2>1, <2>3, <2>4, FindIs
  <2>6. root[i] \in Entry
    BY <1>2, <2>1, <2>5, ElementOfSeq
  <2>7. ASSUME IsImage(name)
        PROVE  Len(root[i].suffix) < ExtSize \/ root[i].suffix \in Image
    <3>1. SubSeq(name, Len(name) - ExtSize + 1, Len(name)) \in Image
      BY <2>7 DEF IsImage
    <3>2. PICK b \in 0 .. ExtSize : b = Len(root[i].suffix)
      BY <2>6 DEF Entry
    <3>3. CASE b = ExtSize
      <4>1. SubSeq(name, Len(name) - ExtSize + 1, Len(name)) = root[i].suffix
        BY <2>5, <2>6, <3>2, <3>3, SpelledIs
      <4> QED BY <3>1, <4>1
    <3>4. CASE b # ExtSize
      <4>1. b < ExtSize
        BY <3>4, SizesIs
      <4> QED BY <3>2, <4>1
    <3> QED BY <3>3, <3>4
  <2> QED BY <2>2, <2>4, <2>5, <2>7
<1>5. ListedFilesOpen
  BY <1>1, <1>4 DEF ListedFilesOpen
<1> QED BY <1>3, <1>5

LEMMA FilesInvInit == FilesInit => FilesInv
<1> SUFFICES ASSUME FilesInit PROVE FilesInv
  OBVIOUS
<1>1. files.root = <<>> /\ files.list = <<>> /\ IsFiles(files)
  BY DEF FilesInit, IsFiles
<1>2. <<>> \in Seq(Entry) /\ <<>> \in Seq(Seq(Letter)) /\ Len(<<>>) = 0
  OBVIOUS
<1> QED BY <1>1, <1>2, SizesIs DEF FilesInv, ListOK

LEMMA FilesInvNext == FilesInv /\ FilesNext => FilesInv'
<1> SUFFICES ASSUME FilesInv, FilesNext PROVE FilesInv'
  OBVIOUS
<1>0. PICK f, t : f = files /\ t = files'
  OBVIOUS
<1>a. PICK disk, last, soon, opened :
        /\ disk = f.disk /\ last = f.last /\ soon = f.soon /\ opened = f.opened
  OBVIOUS
<1>1. PICK root \in Seq(Entry), list \in Seq(Seq(Letter)) :
        /\ f = [root |-> root, list |-> list, last |-> last, soon |-> soon,
                opened |-> opened, disk |-> disk]
        /\ ListOK(root, list, disk)
  BY <1>0, <1>a DEF FilesInv, IsFiles, ListOK
<1>2. PICK l \in Nat, n \in Nat :
        /\ l = Len(root) /\ DOMAIN root = 1 .. l /\ n = Len(list) /\ DOMAIN list = 1 .. n
  BY LenProperties
<1>3. ASSUME NEW r, NEW li, NEW d, NEW a, NEW b, NEW c, ListOK(r, li, d),
             t = [root |-> r, list |-> li, last |-> a, soon |-> b, opened |-> c, disk |-> d]
      PROVE  FilesInv'
  BY <1>0, <1>3 DEF FilesInv, IsFiles
<1>4. ASSUME NEW name \in FileName, NEW low \in LowByte, Save(name, low)
      PROVE  FilesInv'
  <2>1. PICK e \in Entry : e = [stem |-> Stem(name), suffix |-> Suffix(name), low |-> low]
    BY NewEntryIs
  <2>2. PICK r : r = Append(root, e)
    OBVIOUS
  <2>3. t = [f EXCEPT !.root = r]
    <3>1. files' = [files EXCEPT !.root = Append(@, [stem |-> Stem(name), suffix |-> Suffix(name),
                                                     low |-> low])]
      BY <1>4 DEF Save
    <3>2. t = [f EXCEPT !.root = Append(@, e)]
      BY <1>0, <2>1, <3>1
    <3>3. f.root = root
      BY <1>1
    <3> QED BY <2>2, <3>2, <3>3
  <2>4. t = [root |-> r, list |-> list, last |-> last, soon |-> soon, opened |-> opened, disk |-> disk]
    BY <1>1, <2>3
  <2>5. r \in Seq(Entry) /\ Len(r) = l + 1 /\ \A i \in 1 .. l : r[i] = root[i]
    BY <1>2, <2>2, AppendProperties
  <2>6. ListOK(r, list, disk)
    <3>1. ASSUME disk
          PROVE  Len(list) \in 0 .. l /\ \A i \in 1 .. Len(list) : list[i] = Row(root[i])
      BY <1>1, <1>2, <3>1 DEF ListOK
    <3>2. ASSUME disk
          PROVE  Len(list) \in 0 .. l + 1 /\ \A i \in 1 .. Len(list) : list[i] = Row(r[i])
      <4>1. n \in 0 .. l /\ n = Len(list) /\ \A i \in 1 .. n : i \in 1 .. l
        BY <1>2, <3>1, <3>2
      <4>2. \A i \in 1 .. n : r[i] = root[i] /\ list[i] = Row(root[i])
        BY <2>5, <3>1, <3>2, <4>1
      <4> QED BY <4>1, <4>2
    <3> QED BY <1>1, <2>5, <3>2 DEF ListOK
  <2> QED BY <1>3, <2>4, <2>6
<1>5. ASSUME NEW name \in FileName, NEW low \in LowByte, Format(name, low)
      PROVE  FilesInv'
  <2>1. PICK e \in Entry : e = [stem |-> Stem(name), suffix |-> Suffix(name), low |-> low]
    BY NewEntryIs
  <2>2. PICK r : r = <<e>>
    OBVIOUS
  <2>3. t = [f EXCEPT !.disk = FALSE, !.root = r]
    BY <1>0, <1>5, <2>1, <2>2 DEF Format
  <2>4. t = [root |-> r, list |-> list, last |-> last, soon |-> soon, opened |-> opened, disk |-> FALSE]
    BY <1>1, <2>3
  <2>5. ListOK(r, list, FALSE)
    BY <1>1, <2>2 DEF ListOK
  <2> QED BY <1>3, <2>4, <2>5
<1>6. CASE Show
  <2>1. PICK k : k = Len(Cut(root, MAX_FILES))
    OBVIOUS
  <2>2. k \in 0 .. MAX_FILES /\ k \in 0 .. l
    BY <1>2, <2>1, CutIs, SizesIs
  <2>3. PICK li : li = [i \in 1 .. k |-> Row(root[i])]
    OBVIOUS
  <2>4. f.root = root
    BY <1>1
  <2>5. t = [f EXCEPT !.disk = TRUE, !.list = li]
    BY <1>0, <1>6, <2>1, <2>3, <2>4 DEF Show
  <2>6. t = [root |-> root, list |-> li, last |-> last, soon |-> soon, opened |-> opened, disk |-> TRUE]
    BY <1>1, <2>5
  <2>7. li \in Seq(Seq(Letter)) /\ Len(li) = k
    <3>1. \A i \in 1 .. k : Row(root[i]) \in Seq(Letter)
      BY <1>2, <2>2, ElementOfSeq, RowIs
    <3>2. li \in [1 .. k -> Seq(Letter)]
      BY <2>3, <3>1
    <3> QED BY <2>2, <2>3, <3>2, SeqDef
  <2>8. ListOK(root, li, TRUE)
    BY <1>1, <1>2, <2>2, <2>3, <2>7 DEF ListOK
  <2> QED BY <1>3, <2>6, <2>8
<1>7. CASE TimePasses
  <2>1. t = [root |-> root, list |-> list, last |-> last, soon |-> FALSE, opened |-> opened, disk |-> disk]
    <3>1. t = [f EXCEPT !.soon = FALSE]
      BY <1>0, <1>7 DEF TimePasses
    <3> QED BY <1>1, <3>1
  <2> QED BY <1>1, <1>3, <2>1
<1>8. ASSUME NEW row, Click(row) PROVE FilesInv'
  <2>1. PICK o : o = Opens(files.list[row])
    OBVIOUS
  <2>2. \/ t = [f EXCEPT !.last = NoRow, !.opened = o]
        \/ t = [f EXCEPT !.last = row, !.soon = TRUE, !.opened = "nothing"]
    BY <1>0, <1>8, <2>1 DEF Click
  <2>3. \/ t = [root |-> root, list |-> list, last |-> NoRow, soon |-> soon, opened |-> o, disk |-> disk]
        \/ t = [root |-> root, list |-> list, last |-> row, soon |-> TRUE, opened |-> "nothing",
                disk |-> disk]
    BY <1>1, <2>2
  <2> QED BY <1>1, <1>3, <2>3
<1> QED BY <1>4, <1>5, <1>6, <1>7, <1>8 DEF FilesNext

-----------------------------------------------------------------------------
(***************************************************************************)
(* The mixer.                                                              *)
(***************************************************************************)
IsMixer(m) ==
  m = [selected |-> m.selected, show_equalizer |-> m.show_equalizer, volume |-> m.volume,
       pan |-> m.pan, eq_bands |-> m.eq_bands, master_volume |-> m.master_volume,
       effect |-> m.effect, clicks |-> m.clicks]

LevelsOK(m) ==
  /\ m.selected \in Channels
  /\ m.volume \in [Channels -> 0 .. 100] /\ m.pan \in [Channels -> 0 .. 255]
  /\ m.eq_bands \in [Bands -> 0 .. 100] /\ m.master_volume \in 0 .. 100
  /\ m.effect = NoEffect \/ \E b \in Bands : m.eq_bands[b] = m.effect

MixerOK(m) == IsMixer(m) /\ LevelsOK(m)
MixerInv == MixerOK(mixer)

(* The clamp is before the byte. *)
LEMMA LimitedIs ==
  ASSUME NEW n \in Int, NEW top \in 0 .. 255
  PROVE  Limited(n, top) \in 0 .. top
<1>1. PICK c : c = IF n > top THEN top ELSE IF n < 0 THEN 0 ELSE n
  OBVIOUS
<1>2. c \in 0 .. top
  BY <1>1
<1>3. c % 256 = c
  BY <1>2
<1> QED BY <1>1, <1>2, <1>3 DEF Limited, Byte

LEMMA ChannelClickIs ==
  ASSUME NEW m, MixerOK(m), NEW c \in Channels, NEW y \in Int
  PROVE  MixerOK(ChannelClick(m, c, y))
<1>1. IsMixer(m) /\ LevelsOK(m)
  BY DEF MixerOK
<1>2. PICK v : v = IF Between(y, 40, 48) THEN Limited(((y - 40) * 100) \div 8, 100) ELSE m.volume[c]
  OBVIOUS
<1>3. PICK p : p = IF Between(y, 60, 66) THEN Limited(((y - 60) * 255) \div 6, 255) ELSE m.pan[c]
  OBVIOUS
<1>4. v \in 0 .. 100
  <2>1. ((y - 40) * 100) \div 8 \in Int /\ 100 \in 0 .. 255
    OBVIOUS
  <2>2. Limited(((y - 40) * 100) \div 8, 100) \in 0 .. 100
    BY <2>1, LimitedIs
  <2>3. m.volume[c] \in 0 .. 100
    BY <1>1 DEF LevelsOK
  <2> QED BY <1>2, <2>2, <2>3
<1>5. p \in 0 .. 255
  <2>1. ((y - 60) * 255) \div 6 \in Int /\ 255 \in 0 .. 255
    OBVIOUS
  <2>2. Limited(((y - 60) * 255) \div 6, 255) \in 0 .. 255
    BY <2>1, LimitedIs
  <2>3. m.pan[c] \in 0 .. 255
    BY <1>1 DEF LevelsOK
  <2> QED BY <1>3, <2>2, <2>3
<1>6. PICK t, vol, pan : /\ t = ChannelClick(m, c, y)
                         /\ vol = [m.volume EXCEPT ![c] = v] /\ pan = [m.pan EXCEPT ![c] = p]
  OBVIOUS
<1>7. t = [m EXCEPT !.selected = c, !.volume = vol, !.pan = pan]
  BY <1>2, <1>3, <1>6 DEF ChannelClick
<1>8. t = [selected |-> c, show_equalizer |-> m.show_equalizer, volume |-> vol,
           pan |-> pan, eq_bands |-> m.eq_bands, master_volume |-> m.master_volume,
           effect |-> m.effect, clicks |-> m.clicks]
  BY <1>1, <1>7 DEF IsMixer
<1>9. vol \in [Channels -> 0 .. 100] /\ pan \in [Channels -> 0 .. 255]
  BY <1>1, <1>4, <1>5, <1>6 DEF LevelsOK
<1>10. IsMixer(t) /\ LevelsOK(t)
  BY <1>1, <1>8, <1>9 DEF IsMixer, LevelsOK
<1> QED BY <1>6, <1>10 DEF MixerOK

LEMMA EqClickIs ==
  ASSUME NEW m, MixerOK(m), NEW b \in Bands, NEW y \in Int
  PROVE  MixerOK(EqClick(m, b, y))
<1>1. IsMixer(m) /\ LevelsOK(m)
  BY DEF MixerOK
<1>2. PICK v : v = Limited(100 - ((y - 40) * 100) \div 76, 100)
  OBVIOUS
<1>3. v \in 0 .. 100
  <2>1. 100 - ((y - 40) * 100) \div 76 \in Int /\ 100 \in 0 .. 255
    OBVIOUS
  <2> QED BY <1>2, <2>1, LimitedIs
<1>4. PICK t, bands : t = EqClick(m, b, y) /\ bands = [m.eq_bands EXCEPT ![b] = v]
  OBVIOUS
<1>5. t = [m EXCEPT !.eq_bands = bands, !.effect = v]
  BY <1>2, <1>4 DEF EqClick
<1>6. t = [selected |-> m.selected, show_equalizer |-> m.show_equalizer, volume |-> m.volume,
           pan |-> m.pan, eq_bands |-> bands, master_volume |-> m.master_volume,
           effect |-> v, clicks |-> m.clicks]
  BY <1>1, <1>5 DEF IsMixer
<1>7. bands \in [Bands -> 0 .. 100] /\ bands[b] = v
  BY <1>1, <1>3, <1>4 DEF LevelsOK
<1>8. IsMixer(t) /\ LevelsOK(t)
  BY <1>1, <1>6, <1>7 DEF IsMixer, LevelsOK
<1> QED BY <1>4, <1>8 DEF MixerOK

LEMMA MasterClickIs ==
  ASSUME NEW m, MixerOK(m), NEW x \in Int, NEW y \in Int
  PROVE  MixerOK(MasterClick(m, x, y))
<1>1. IsMixer(m) /\ LevelsOK(m)
  BY DEF MixerOK
<1>2. PICK v : v = Limited(100 - ((y - (Height - 35)) * 100) \div 8, 100)
  OBVIOUS
<1>3. v \in 0 .. 100
  <2>1. 100 - ((y - (Height - 35)) * 100) \div 8 \in Int /\ 100 \in 0 .. 255
    BY DEF Height
  <2> QED BY <1>2, <2>1, LimitedIs
<1>4. PICK t : t = MasterClick(m, x, y)
  OBVIOUS
<1>5. CASE t = [m EXCEPT !.master_volume = v]
  <2>1. t = [selected |-> m.selected, show_equalizer |-> m.show_equalizer, volume |-> m.volume,
             pan |-> m.pan, eq_bands |-> m.eq_bands, master_volume |-> v,
             effect |-> m.effect, clicks |-> m.clicks]
    BY <1>1, <1>5 DEF IsMixer
  <2>2. IsMixer(t) /\ LevelsOK(t)
    BY <1>1, <1>3, <2>1 DEF IsMixer, LevelsOK
  <2> QED BY <1>4, <2>2 DEF MixerOK
<1> QED BY <1>2, <1>4, <1>5 DEF MasterClick

LEMMA MixerInvNext == MixerInv /\ MixerNext => MixerInv'
<1> SUFFICES ASSUME MixerInv, MixerNext PROVE MixerInv'
  OBVIOUS
<1>0. PICK m, t : m = mixer /\ t = mixer'
  OBVIOUS
<1>1. MixerOK(m)
  BY <1>0 DEF MixerInv
<1>2. CASE MixerClick
  <2>1. PICK place \in Place, x0 \in ClickX, y0 \in ClickY :
          t = [Clicked(m, x0 - place[1], y0 - place[2]) EXCEPT !.clicks = @ + 1]
    BY <1>0, <1>2 DEF MixerClick
  <2>2. PICK x \in Int, y \in Int : x = x0 - place[1] /\ y = y0 - place[2]
    <3>1. place \in Int \X Int /\ x0 \in Int /\ y0 \in Int
      BY MixerAssumption
    <3> QED BY <3>1
  <2>3. PICK k : k = Clicked(m, x, y)
    OBVIOUS
  <2>4. MixerOK(k)
    <3>1. CASE ChannelAt(x, y) # {}
      <4>1. (CHOOSE c \in ChannelAt(x, y) : TRUE) \in Channels
        BY <3>1 DEF ChannelAt
      <4> QED BY <1>1, <2>3, <3>1, <4>1, ChannelClickIs DEF Clicked
    <3>2. CASE ChannelAt(x, y) = {} /\ BandAt(x, y) # {}
      <4>1. (CHOOSE b \in BandAt(x, y) : TRUE) \in Bands
        BY <3>2 DEF BandAt
      <4> QED BY <1>1, <2>3, <3>2, <4>1, EqClickIs DEF Clicked
    <3>3. CASE ChannelAt(x, y) = {} /\ BandAt(x, y) = {}
      BY <1>1, <2>3, <3>3, MasterClickIs DEF Clicked
    <3> QED BY <3>1, <3>2, <3>3
  <2>5. PICK n : n = k.clicks + 1
    OBVIOUS
  <2>6. t = [k EXCEPT !.clicks = n]
    BY <2>1, <2>2, <2>3, <2>5
  <2>7. t = [selected |-> k.selected, show_equalizer |-> k.show_equalizer, volume |-> k.volume,
             pan |-> k.pan, eq_bands |-> k.eq_bands, master_volume |-> k.master_volume,
             effect |-> k.effect, clicks |-> n]
    BY <2>4, <2>6 DEF MixerOK, IsMixer
  <2>8. IsMixer(t) /\ LevelsOK(t)
    BY <2>4, <2>7 DEF MixerOK, IsMixer, LevelsOK
  <2> QED BY <1>0, <2>8 DEF MixerInv, MixerOK
<1>3. CASE KeyE
  <2>1. PICK e : e = ~m.show_equalizer
    OBVIOUS
  <2>2. t = [m EXCEPT !.show_equalizer = e]
    BY <1>0, <1>3, <2>1 DEF KeyE
  <2>3. t = [selected |-> m.selected, show_equalizer |-> e, volume |-> m.volume,
             pan |-> m.pan, eq_bands |-> m.eq_bands, master_volume |-> m.master_volume,
             effect |-> m.effect, clicks |-> m.clicks]
    BY <1>1, <2>2 DEF MixerOK, IsMixer
  <2>4. IsMixer(t) /\ LevelsOK(t)
    BY <1>1, <2>3 DEF MixerOK, IsMixer, LevelsOK
  <2> QED BY <1>0, <2>4 DEF MixerInv, MixerOK
<1> QED BY <1>2, <1>3 DEF MixerNext

LEMMA MixerInvInit == MixerInit => MixerInv
<1> SUFFICES ASSUME MixerInit PROVE MixerInv
  OBVIOUS
<1>1. IsMixer(mixer)
  BY DEF MixerInit, IsMixer
<1>2. LevelsOK(mixer)
  BY MixerAssumption DEF MixerInit, LevelsOK
<1> QED BY <1>1, <1>2 DEF MixerInv, MixerOK

LEMMA MixerGives == MixerInv => MixerTypeOK
BY DEF MixerInv, MixerOK, LevelsOK, MixerTypeOK

-----------------------------------------------------------------------------
(***************************************************************************)
(* Strings and numbers. What the recursive functions of the model compute  *)
(* is shown by their least counterexample: where the claim fails first, it *)
(* holds one step before, and the function's equation carries it over.     *)
(*                                                                         *)
(* Numbers: atoi reads back what itoa wrote.                               *)
(***************************************************************************)
Digit == 0 .. 9
Codes == {Minus, Dot, NUL} \union Digit

(* What the loop of atoi has after k digits. *)
Values(w, n, res) ==
  res = [k \in 0 .. n |-> IF k = 0 THEN 0 ELSE 10 * res[k - 1] + w[k]]

LEMMA ValuesExist ==
  ASSUME NEW w, NEW m \in Nat
  PROVE  \E res : Values(w, m, res)
<1> DEFINE Bad == {n \in Nat : ~ \E res : Values(w, n, res)}
<1> SUFFICES ASSUME Bad # {} PROVE FALSE
  OBVIOUS
<1>1. PICK n \in Bad : \A j \in Bad : n <= j
  <2>1. Bad \in SUBSET Nat
    OBVIOUS
  <2> HIDE DEF Bad
  <2> QED BY <2>1, LeastNat
<1>2. n \in Nat /\ ~ \E res : Values(w, n, res)
  OBVIOUS
<1>3. CASE n = 0
  <2>1. Values(w, 0, [k \in 0 .. 0 |-> 0])
    BY DEF Values
  <2> QED BY <1>2, <1>3, <2>1
<1>4. CASE n > 0
  <2>1. n - 1 \in Nat /\ n - 1 \notin Bad
    BY <1>1, <1>2, <1>4
  <2>2. PICK res : Values(w, n - 1, res)
    BY <2>1
  <2> DEFINE more == [k \in 0 .. n |-> IF k = n THEN 10 * res[n - 1] + w[n] ELSE res[k]]
  <2>3. ASSUME NEW k \in 0 .. n
        PROVE  more[k] = IF k = 0 THEN 0 ELSE 10 * more[k - 1] + w[k]
    <3>1. CASE k = n
      <4>1. more[k] = 10 * res[n - 1] + w[n] /\ n - 1 \in 0 .. n /\ n - 1 # n /\ k # 0
        BY <1>2, <1>4, <3>1
      <4>2. more[n - 1] = res[n - 1]
        BY <4>1
      <4> HIDE DEF more
      <4> QED BY <3>1, <4>1, <4>2
    <3>2. CASE k # n
      <4>1. k \in 0 .. n - 1 /\ more[k] = res[k]
        BY <1>2, <2>3, <3>2
      <4>2. res[k] = IF k = 0 THEN 0 ELSE 10 * res[k - 1] + w[k]
        BY <2>2, <4>1 DEF Values
      <4>3. k # 0 => k - 1 \in 0 .. n /\ k - 1 # n
        BY <1>2, <4>1
      <4>4. k # 0 => more[k - 1] = res[k - 1]
        BY <4>3
      <4> HIDE DEF more
      <4> QED BY <4>1, <4>2, <4>4
    <3> QED BY <3>1, <3>2
  <2>4. Values(w, n, more)
    <3>1. more = [k \in 0 .. n |-> more[k]]
      OBVIOUS
    <3> HIDE DEF more
    <3> QED BY <2>3, <3>1 DEF Values
  <2> QED BY <1>2, <2>4
<1> QED BY <1>2, <1>3, <1>4

LEMMA ValueIs ==
  ASSUME NEW w, NEW n \in Nat, n = Len(w)
  PROVE  \E res : Values(w, n, res) /\ ValueOf(w) = res[n]
<1> DEFINE val == CHOOSE res : Values(w, n, res)
<1>1. Values(w, n, val)
  BY ValuesExist, Zenon
<1>2. ValueOf(w) = val[n]
  BY DEF ValueOf, Values
<1> HIDE DEF val
<1> QED BY <1>1, <1>2

(* A digit more is ten times the number and the digit. *)
LEMMA ValueAppend ==
  ASSUME NEW w \in Seq(Digit), NEW c \in Digit
  PROVE  ValueOf(Append(w, c)) = 10 * ValueOf(w) + c
<1>1. PICK n \in Nat : n = Len(w)
  BY LenProperties
<1>2. PICK v : v = Append(w, c)
  OBVIOUS
<1>3. Len(v) = n + 1 /\ v[n + 1] = c /\ \A k \in 1 .. n : v[k] = w[k]
  BY <1>1, <1>2
<1>4. PICK a : Values(w, n, a) /\ ValueOf(w) = a[n]
  BY <1>1, ValueIs
<1>5. PICK b : Values(v, n + 1, b) /\ ValueOf(v) = b[n + 1]
  BY <1>1, <1>3, ValueIs
<1> DEFINE Bad == {k \in 0 .. n : b[k] # a[k]}
<1>6. Bad = {}
  <2>1. SUFFICES ASSUME Bad # {} PROVE FALSE
    OBVIOUS
  <2>2. PICK k \in Bad : \A j \in Bad : k <= j
    <3>1. Bad \in SUBSET Nat
      OBVIOUS
    <3> HIDE DEF Bad
    <3> QED BY <2>1, <3>1, LeastNat
  <2>3. k \in 0 .. n /\ b[k] # a[k]
    OBVIOUS
  <2>4. /\ a[k] = IF k = 0 THEN 0 ELSE 10 * a[k - 1] + w[k]
        /\ b[k] = IF k = 0 THEN 0 ELSE 10 * b[k - 1] + v[k]
    <3>1. k \in 0 .. n + 1
      BY <1>1, <2>3
    <3>2. a[k] = IF k = 0 THEN 0 ELSE 10 * a[k - 1] + w[k]
      BY <1>4, <2>3 DEF Values
    <3>3. b[k] = IF k = 0 THEN 0 ELSE 10 * b[k - 1] + v[k]
      BY <1>5, <3>1 DEF Values
    <3> QED BY <3>2, <3>3
  <2>5. k # 0
    BY <2>3, <2>4
  <2>6. k - 1 \in 0 .. n /\ k - 1 \notin Bad /\ k \in 1 .. n
    BY <1>1, <2>2, <2>3, <2>5
  <2>7. b[k - 1] = a[k - 1] /\ v[k] = w[k]
    BY <1>3, <2>6
  <2> HIDE DEF Bad
  <2> QED BY <2>3, <2>4, <2>5, <2>7
<1>7. b[n] = a[n]
  BY <1>1, <1>6
<1>8. b[n + 1] = 10 * b[n + 1 - 1] + v[n + 1]
  BY <1>1, <1>5 DEF Values
<1> HIDE DEF Bad
<1> QED BY <1>1, <1>2, <1>3, <1>4, <1>5, <1>7, <1>8

LEMMA ValueOfNone == ValueOf(<< >>) = 0
<1>1. PICK n \in Nat : n = 0 /\ n = Len(<< >>)
  OBVIOUS
<1>2. PICK res : Values(<< >>, n, res) /\ ValueOf(<< >>) = res[n]
  BY <1>1, ValueIs
<1> QED BY <1>1, <1>2 DEF Values

(* Turning a sequence round. *)
LEMMA Turned ==
  ASSUME NEW S, NEW w \in Seq(S), NEW c \in S
  PROVE  /\ Reverse(w) \in Seq(S) /\ Len(Reverse(w)) = Len(w)
         /\ Reverse(<<c>> \o w) = Append(Reverse(w), c)
         /\ Reverse(Append(w, c)) = <<c>> \o Reverse(w)
<1>1. PICK n \in Nat : n = Len(w)
  BY LenProperties
<1>2. PICK r : r = Reverse(w)
  OBVIOUS
<1>3. r = [i \in 1 .. n |-> w[(n - i) + 1]]
  BY <1>1, <1>2 DEF Reverse
<1>4. \A i \in 1 .. n : w[i] \in S
  BY <1>1, ElementOfSeq
<1>5. \A i \in 1 .. n : (n - i) + 1 \in 1 .. n
  BY <1>1
<1>6. r \in Seq(S) /\ Len(r) = n /\ \A i \in 1 .. n : r[i] = w[(n - i) + 1]
  BY <1>1, <1>3, <1>4, <1>5
<1>7. Reverse(<<c>> \o w) = Append(r, c)
  <2>1. PICK v : v = <<c>> \o w
    OBVIOUS
  <2>2. <<c>> \in Seq(S) /\ Len(<<c>>) = 1 /\ <<c>>[1] = c
    OBVIOUS
  <2>3. Len(v) = n + 1 /\ \A i \in 1 .. n + 1 : v[i] = IF i <= 1 THEN c ELSE w[i - 1]
    <3>1. /\ Len(v) = Len(<<c>>) + Len(w)
          /\ \A i \in 1 .. Len(<<c>>) + Len(w) :
               v[i] = IF i <= Len(<<c>>) THEN <<c>>[i] ELSE w[i - Len(<<c>>)]
      BY <2>1, <2>2, ConcatProperties
    <3>2. \A i \in 1 .. n + 1 : v[i] = IF i <= 1 THEN <<c>>[i] ELSE w[i - 1]
      BY <1>1, <2>2, <3>1
    <3>3. \A i \in 1 .. n + 1 : i <= 1 => i = 1
      BY <1>1
    <3> QED BY <1>1, <2>2, <3>1, <3>2, <3>3
  <2>4. PICK t : t = Reverse(v)
    OBVIOUS
  <2>5. t = [i \in 1 .. n + 1 |-> v[((n + 1) - i) + 1]]
    BY <2>3, <2>4 DEF Reverse
  <2>6. ASSUME NEW i \in 1 .. n + 1 PROVE t[i] = Append(r, c)[i]
    <3>1. t[i] = v[((n + 1) - i) + 1] /\ ((n + 1) - i) + 1 \in 1 .. n + 1
      BY <1>1, <2>5, <2>6
    <3>2. CASE i = n + 1
      <4>1. ((n + 1) - i) + 1 = 1
        BY <1>1, <3>2
      <4>2. t[i] = c
        BY <1>1, <2>3, <3>1, <4>1
      <4> QED BY <1>6, <3>2, <4>2
    <3>3. CASE i # n + 1
      <4>1. i \in 1 .. n /\ ((n + 1) - i) + 1 > 1 /\ (((n + 1) - i) + 1) - 1 = (n - i) + 1
        BY <1>1, <2>6, <3>3
      <4>2. t[i] = w[(n - i) + 1]
        BY <2>3, <3>1, <4>1
      <4> QED BY <1>6, <4>1, <4>2
    <3> QED BY <3>2, <3>3
  <2>7. Append(r, c) = [i \in 1 .. n + 1 |-> Append(r, c)[i]]
    <3>1. PICK o : o = Append(r, c)
      OBVIOUS
    <3>2. o \in Seq(S) /\ Len(o) = n + 1
      BY <1>1, <1>6, <3>1
    <3>3. o \in [1 .. n + 1 -> S]
      BY <3>2, LenProperties
    <3> QED BY <3>1, <3>3
  <2> QED BY <2>1, <2>4, <2>5, <2>6, <2>7
<1>8. Reverse(Append(w, c)) = <<c>> \o r
  <2>1. PICK v : v = Append(w, c)
    OBVIOUS
  <2>2. Len(v) = n + 1 /\ v[n + 1] = c /\ \A i \in 1 .. n : v[i] = w[i]
    BY <1>1, <2>1
  <2>3. PICK t : t = Reverse(v)
    OBVIOUS
  <2>4. t = [i \in 1 .. n + 1 |-> v[((n + 1) - i) + 1]]
    BY <2>2, <2>3 DEF Reverse
  <2>5. PICK o : o = <<c>> \o r
    OBVIOUS
  <2>6. <<c>> \in Seq(S) /\ Len(<<c>>) = 1 /\ <<c>>[1] = c
    OBVIOUS
  <2>7. o \in Seq(S) /\ Len(o) = n + 1 /\ o[1] = c /\ \A i \in 2 .. n + 1 : o[i] = r[i - 1]
    <3>1. /\ o \in Seq(S) /\ Len(o) = Len(<<c>>) + Len(r)
          /\ \A i \in 1 .. Len(<<c>>) + Len(r) :
               o[i] = IF i <= Len(<<c>>) THEN <<c>>[i] ELSE r[i - Len(<<c>>)]
      BY <1>6, <2>5, <2>6, ConcatProperties
    <3>2. \A i \in 1 .. n + 1 : o[i] = IF i <= 1 THEN <<c>>[i] ELSE r[i - 1]
      BY <1>1, <1>6, <2>6, <3>1
    <3>3. \A i \in 2 .. n + 1 : i \in 1 .. n + 1 /\ ~ (i <= 1)
      BY <1>1
    <3>4. \A i \in 2 .. n + 1 : o[i] = r[i - 1]
      BY <3>2, <3>3
    <3>5. 1 \in 1 .. n + 1 /\ 1 <= 1
      BY <1>1
    <3>6. o[1] = c
      BY <2>6, <3>2, <3>5
    <3>7. Len(o) = n + 1
      BY <1>1, <1>6, <2>6, <3>1
    <3> QED BY <3>1, <3>4, <3>6, <3>7
  <2>8. ASSUME NEW i \in 1 .. n + 1 PROVE t[i] = o[i]
    <3>1. t[i] = v[((n + 1) - i) + 1]
      BY <2>4, <2>8
    <3>2. CASE i = 1
      <4>1. ((n + 1) - i) + 1 = n + 1
        BY <1>1, <3>2
      <4> QED BY <2>2, <2>7, <3>1, <3>2, <4>1
    <3>3. CASE i # 1
      <4>1. i \in 2 .. n + 1 /\ ((n + 1) - i) + 1 \in 1 .. n /\ i - 1 \in 1 .. n
            /\ (n - (i - 1)) + 1 = ((n + 1) - i) + 1
        BY <1>1, <2>8, <3>3
      <4>2. o[i] = w[(n - (i - 1)) + 1]
        BY <1>6, <2>7, <4>1
      <4> QED BY <2>2, <3>1, <4>1, <4>2
    <3> QED BY <3>2, <3>3
  <2>9. o = [i \in 1 .. n + 1 |-> o[i]]
    BY <1>1, <2>7
  <2> QED BY <2>1, <2>3, <2>4, <2>5, <2>8, <2>9
<1> QED BY <1>1, <1>2, <1>6, <1>7, <1>8

(* What the loop of itoa has put down. *)
DigitSeqs(m, ds) ==
  ds = [n \in 0 .. m |-> IF n \div 10 > 0 THEN <<n % 10>> \o ds[n \div 10] ELSE <<n % 10>>]

LEMMA ByTen ==
  ASSUME NEW n \in Nat
  PROVE  \E q \in Nat, r \in Digit :
           q = n \div 10 /\ r = n % 10 /\ n = 10 * q + r /\ (q > 0 => q < n)
<1>1. PICK q, r : q = n \div 10 /\ r = n % 10
  OBVIOUS
<1>2. q \in Nat /\ r \in 0 .. 9
  BY <1>1
<1>3. n = 10 * q + r
  BY <1>1
<1>4. q > 0 => q < n
  BY <1>2, <1>3
<1>5. r \in Digit
  BY <1>2 DEF Digit
<1> QED BY <1>1, <1>2, <1>3, <1>4, <1>5

LEMMA DigitSeqsExist == ASSUME NEW m \in Nat PROVE \E ds : DigitSeqs(m, ds)
<1> DEFINE Bad == {n \in Nat : ~ \E ds : DigitSeqs(n, ds)}
<1> SUFFICES ASSUME Bad # {} PROVE FALSE
  OBVIOUS
<1>1. PICK n \in Bad : \A j \in Bad : n <= j
  <2>1. Bad \in SUBSET Nat
    OBVIOUS
  <2> HIDE DEF Bad
  <2> QED BY <2>1, LeastNat
<1>2. n \in Nat /\ ~ \E ds : DigitSeqs(n, ds)
  OBVIOUS
<1>3. CASE n = 0
  <2>1. ~ (0 \div 10 > 0)
    BY ByTen
  <2>2. DigitSeqs(0, [k \in 0 .. 0 |-> <<0 % 10>>])
    BY <2>1 DEF DigitSeqs
  <2> QED BY <1>2, <1>3, <2>2
<1>4. CASE n > 0
  <2>1. n - 1 \in Nat /\ n - 1 \notin Bad
    BY <1>1, <1>2, <1>4
  <2>2. PICK ds : DigitSeqs(n - 1, ds)
    BY <2>1
  <2> DEFINE Of(s, k) == IF k \div 10 > 0 THEN <<k % 10>> \o s[k \div 10] ELSE <<k % 10>>
  <2> DEFINE more == [k \in 0 .. n |-> IF k = n THEN Of(ds, n) ELSE ds[k]]
  <2>3. ASSUME NEW k \in 0 .. n PROVE more[k] = Of(more, k)
    <3>1. k \in Nat
      BY <1>2
    <3>2. k \div 10 > 0 => k \div 10 \in 0 .. n /\ k \div 10 # n
      BY <1>2, <2>3, <3>1, ByTen
    <3>3. k \div 10 > 0 => more[k \div 10] = ds[k \div 10]
      BY <3>2
    <3>4. CASE k = n
      <4>1. more[k] = Of(ds, n)
        BY <2>3, <3>4
      <4> HIDE DEF more
      <4> QED BY <3>3, <3>4, <4>1
    <3>5. CASE k # n
      <4>1. k \in 0 .. n - 1 /\ more[k] = ds[k]
        BY <1>2, <2>3, <3>5
      <4>2. ds[k] = Of(ds, k)
        BY <2>2, <4>1 DEF DigitSeqs
      <4> HIDE DEF more
      <4> QED BY <3>3, <4>1, <4>2
    <3> QED BY <3>4, <3>5
  <2>4. DigitSeqs(n, more)
    <3>1. more = [k \in 0 .. n |-> more[k]]
      OBVIOUS
    <3> HIDE DEF more
    <3> QED BY <2>3, <3>1 DEF DigitSeqs
  <2> QED BY <1>2, <2>4
<1> QED BY <1>2, <1>3, <1>4

LEMMA DigitsIs == DigitSeqs(MaxInt, Digits)
<1>1. \E ds : DigitSeqs(MaxInt, ds)
  BY DigitSeqsExist, CStringAssumption
<1>2. Digits = CHOOSE ds : DigitSeqs(MaxInt, ds)
  BY DEF Digits, DigitSeqs
<1> QED BY <1>1, <1>2, Zenon

(* Read the other way round the digits are the number. *)
Reads(n) ==
  /\ Digits[n] \in Seq(Digit) /\ Len(Digits[n]) > 0
  /\ ValueOf(Reverse(Digits[n])) = n

LEMMA DigitsRead == \A n \in 0 .. MaxInt : Reads(n)
<1> DEFINE Bad == {n \in 0 .. MaxInt : ~ Reads(n)}
<1> SUFFICES ASSUME Bad # {} PROVE FALSE
  OBVIOUS
<1>1. PICK n \in Bad : \A j \in Bad : n <= j
  <2>1. Bad \in SUBSET Nat
    BY CStringAssumption
  <2> HIDE DEF Bad
  <2> QED BY <2>1, LeastNat
<1>2. n \in 0 .. MaxInt /\ ~ Reads(n) /\ MaxInt \in Nat /\ n \in Nat
  BY CStringAssumption
<1>3. PICK q, r : q = n \div 10 /\ r = n % 10
  OBVIOUS
<1>4. q \in Nat /\ r \in Digit /\ n = 10 * q + r /\ (q > 0 => q < n)
  BY <1>2, <1>3, ByTen
<1>5. Digits[n] = IF q > 0 THEN <<r>> \o Digits[q] ELSE <<r>>
  BY <1>2, <1>3, DigitsIs DEF DigitSeqs
<1>6. CASE q > 0
  <2>1. q \in 0 .. MaxInt /\ q \notin Bad
    BY <1>1, <1>2, <1>4, <1>6
  <2>2. Reads(q)
    BY <2>1
  <2>3. PICK w : w = Digits[q]
    OBVIOUS
  <2>4. w \in Seq(Digit) /\ Len(w) > 0 /\ ValueOf(Reverse(w)) = q
    BY <2>2, <2>3 DEF Reads
  <2>5. PICK v : v = <<r>> \o w
    OBVIOUS
  <2>6. v \in Seq(Digit) /\ Len(v) > 0
    <3>1. <<r>> \in Seq(Digit) /\ Len(<<r>>) = 1
      BY <1>4
    <3>2. v \in Seq(Digit) /\ Len(v) = Len(<<r>>) + Len(w)
      BY <2>4, <2>5, <3>1, ConcatProperties
    <3>3. Len(w) \in Nat
      BY <2>4, LenProperties
    <3> QED BY <2>4, <3>1, <3>2, <3>3
  <2>7. Reverse(v) = Append(Reverse(w), r) /\ Reverse(w) \in Seq(Digit)
    BY <1>4, <2>4, <2>5, Turned
  <2>8. ValueOf(Reverse(v)) = 10 * q + r
    BY <1>4, <2>4, <2>7, ValueAppend
  <2>9. Digits[n] = v
    BY <1>5, <1>6, <2>3, <2>5
  <2> QED BY <1>2, <1>4, <2>6, <2>8, <2>9 DEF Reads
<1>7. CASE q = 0
  <2>1. Digits[n] = <<r>> /\ r = n
    <3>1. Digits[n] = <<r>>
      BY <1>5, <1>7
    <3>2. r \in Nat
      BY <1>4 DEF Digit
    <3> QED BY <1>4, <1>7, <3>1, <3>2
  <2>2. PICK e, v : e = << >> /\ v = <<r>>
    OBVIOUS
  <2>3. e \in Seq(Digit) /\ Append(e, r) = v /\ v \in Seq(Digit) /\ Len(v) > 0
    BY <1>4, <2>2
  <2>4. Reverse(v) = v
    BY <2>2 DEF Reverse
  <2>5. ValueOf(v) = 10 * 0 + r
    BY <1>4, <2>2, <2>3, ValueAppend, ValueOfNone
  <2> QED BY <1>2, <1>4, <2>1, <2>2, <2>3, <2>4, <2>5 DEF Reads
<1> QED BY <1>4, <1>6, <1>7

LEMMA NoDigits == Minus \notin Digit /\ Dot \notin Digit /\ NUL \notin Digit
                  /\ Minus # Dot
BY DEF Minus, Dot, NUL, Digit

LEMMA DigitsOfAll == ASSUME NEW w \in Seq(Digit) PROVE DigitsOf(w) = w
<1>1. \A i \in 1 .. Len(w) : w[i] \in 0 .. 9
  BY ElementOfSeq DEF Digit
<1>2. {i \in 1 .. Len(w) : w[i] \notin 0 .. 9} = {}
  BY <1>1
<1> QED BY <1>2 DEF DigitsOf

(* The first place a character stands at, with only others before it. *)
Joined(S, s, w, n, t, m) ==
  /\ w \in Seq(S) /\ n = Len(w) /\ t \in Seq(S) /\ m = Len(t) /\ m > 0 /\ s = w \o t

Rest(s, n, m) == SubSeq(s, n + 1, n + m)

LEMMA FirstPlace ==
  ASSUME NEW S, NEW s, NEW w, NEW n, NEW t, NEW m, Joined(S, s, w, n, t, m)
  PROVE  /\ s \in Seq(S) /\ Len(s) = n + m
         /\ \A i \in 1 .. n : s[i] = w[i]
         /\ s[n + 1] = t[1]
         /\ SubSeq(s, 1, n) = w
         /\ Rest(s, n, m) = t
<1>1. n \in Nat /\ m \in Nat /\ m > 0 /\ n = Len(w) /\ m = Len(t)
  BY LenProperties DEF Joined
<1>2. w \in Seq(S) /\ t \in Seq(S) /\ s = w \o t
  BY DEF Joined
<1>3. /\ s \in Seq(S) /\ Len(s) = n + m
      /\ \A i \in 1 .. n + m : s[i] = IF i <= n THEN w[i] ELSE t[i - n]
  BY <1>1, <1>2, ConcatProperties
<1>4. \A i \in 1 .. n : s[i] = w[i]
  BY <1>1, <1>3
<1>5. \A i \in 1 .. m : s[n + i] = t[i]
  <2>1. ASSUME NEW i \in 1 .. m PROVE s[n + i] = t[i]
    <3>1. n + i \in 1 .. n + m /\ ~ (n + i <= n) /\ (n + i) - n = i
      BY <1>1
    <3> QED BY <1>3, <3>1
  <2> QED BY <2>1
<1>6. SubSeq(s, 1, n) = w
  <2>1. PICK u : u = SubSeq(s, 1, n)
    OBVIOUS
  <2>2. \A i \in 1 .. n : s[i] \in S
    BY <1>1, <1>3, ElementOfSeq
  <2>3. /\ u \in Seq(S) /\ Len(u) = IF 1 <= n THEN n - 1 + 1 ELSE 0
        /\ \A i \in 1 .. n - 1 + 1 : u[i] = s[1 + i - 1]
    BY <1>1, <2>1, <2>2, SubSeqProperties
  <2>4. Len(u) = n /\ \A i \in 1 .. n : u[i] = w[i]
    BY <1>1, <1>4, <2>3
  <2> QED BY <1>1, <1>2, <2>1, <2>3, <2>4, SeqEqual
<1>7. SubSeq(s, n + 1, n + m) = t
  <2>1. PICK u : u = SubSeq(s, n + 1, n + m)
    OBVIOUS
  <2>2. \A i \in n + 1 .. n + m : s[i] \in S
    BY <1>1, <1>3, ElementOfSeq
  <2>3. /\ u \in Seq(S) /\ Len(u) = IF n + 1 <= n + m THEN n + m - (n + 1) + 1 ELSE 0
        /\ \A i \in 1 .. n + m - (n + 1) + 1 : u[i] = s[n + 1 + i - 1]
    BY <1>1, <2>1, <2>2, SubSeqProperties
  <2>4. Len(u) = m
    BY <1>1, <2>3
  <2>5. ASSUME NEW i \in 1 .. m PROVE u[i] = t[i]
    <3>1. i \in 1 .. n + m - (n + 1) + 1 /\ n + 1 + i - 1 = n + i
      BY <1>1
    <3> QED BY <1>5, <2>3, <3>1
  <2> QED BY <1>1, <1>2, <2>1, <2>3, <2>4, <2>5, SeqEqual
<1>8. s[n + 1] = t[1]
  BY <1>1, <1>5
<1> QED BY <1>3, <1>4, <1>6, <1>7, <1>8 DEF Rest

(* The first place in a text that is no digit, and the first dot.          *)
Others(s) == {i \in 1 .. Len(s) : s[i] \notin 0 .. 9}
Dots(s) == {i \in 1 .. Len(s) : s[i] = Dot}

LEMMA FirstOther ==
  ASSUME NEW s, NEW n \in Nat, NEW m \in Nat, Len(s) = m, n < m,
         \A i \in 1 .. n : s[i] \in Digit, s[n + 1] \notin Digit
  PROVE  /\ Others(s) # {} /\ Min(Others(s)) = n + 1
         /\ s[n + 1] = Dot => Dots(s) # {} /\ Min(Dots(s)) = n + 1
<1>1. n + 1 \in Others(s) /\ \A i \in Others(s) : n + 1 <= i
  BY DEF Others, Digit
<1>2. Others(s) \in SUBSET Nat /\ Dots(s) \in SUBSET Nat
  BY DEF Others, Dots
<1>3. Min(Others(s)) \in Others(s) /\ \A i \in Others(s) : Min(Others(s)) <= i
  BY <1>1, <1>2, MinOfNats
<1>4. Min(Others(s)) = n + 1
  BY <1>1, <1>2, <1>3
<1>5. ASSUME s[n + 1] = Dot PROVE Dots(s) # {} /\ Min(Dots(s)) = n + 1
  <2>1. n + 1 \in Dots(s) /\ \A i \in Dots(s) : n + 1 <= i
    BY <1>5, NoDigits DEF Dots
  <2>2. Min(Dots(s)) \in Dots(s) /\ \A i \in Dots(s) : Min(Dots(s)) <= i
    BY <1>2, <2>1, MinOfNats
  <2> QED BY <1>2, <2>1, <2>2
<1> QED BY <1>1, <1>4, <1>5

(* A number at the head of a text, and what is behind the dot after it. *)
LEMMA HeadOfText ==
  ASSUME NEW w \in Seq(Digit), NEW t \in Seq(Codes), Len(t) > 0, t[1] \notin Digit
  PROVE  DigitsOf(w \o t) = w
<1>1. PICK n \in Nat, m \in Nat : n = Len(w) /\ m = Len(t)
  BY LenProperties
<1>2. w \in Seq(Codes)
  BY DEF Codes
<1>3. PICK s : s = w \o t
  OBVIOUS
<1>4. /\ Len(s) = n + m /\ s[n + 1] = t[1] /\ SubSeq(s, 1, n) = w
      /\ \A i \in 1 .. n : s[i] = w[i]
  <2>1. Joined(Codes, s, w, n, t, m)
    BY <1>1, <1>2, <1>3 DEF Joined
  <2> QED BY <2>1, FirstPlace
<1>5. \A i \in 1 .. n : s[i] \in Digit
  BY <1>1, <1>4, ElementOfSeq
<1>6. Others(s) # {} /\ Min(Others(s)) = n + 1
  <2>1. n + m \in Nat /\ n < n + m
    BY <1>1
  <2> QED BY <1>1, <1>4, <1>5, <2>1, FirstOther
<1>7. DigitsOf(s) = SubSeq(s, 1, (n + 1) - 1)
  BY <1>1, <1>6 DEF DigitsOf, Others
<1> QED BY <1>1, <1>3, <1>4, <1>7

LEMMA AfterDot ==
  ASSUME NEW w \in Seq(Digit), NEW u \in Seq(Codes)
  PROVE  /\ <<Dot>> \o u \in Seq(Codes) /\ Len(<<Dot>> \o u) > 0 /\ (<<Dot>> \o u)[1] = Dot
         /\ w \o (<<Dot>> \o u) \in Seq(Codes)
         /\ Behind(w \o (<<Dot>> \o u)) = u
<1>1. PICK n \in Nat, m \in Nat : n = Len(w) /\ m = Len(u)
  BY LenProperties
<1>2. w \in Seq(Codes) /\ <<Dot>> \in Seq(Codes)
  BY DEF Codes
<1>3. PICK d, t, s : d = <<Dot>> /\ t = d \o u /\ s = w \o t
  OBVIOUS
<1>4. d \in Seq(Codes) /\ Len(d) = 1 /\ d[1] = Dot
  BY <1>2, <1>3
<1>5. t \in Seq(Codes) /\ Len(t) = 1 + m /\ t[1] = Dot
      /\ \A i \in 1 .. m : t[1 + i] = u[i]
  <2>1. /\ t \in Seq(Codes) /\ Len(t) = Len(d) + Len(u)
        /\ \A i \in 1 .. Len(d) + Len(u) : t[i] = IF i <= Len(d) THEN d[i] ELSE u[i - Len(d)]
    BY <1>3, <1>4, ConcatProperties
  <2>2. \A i \in 1 .. 1 + m : t[i] = IF i <= 1 THEN d[i] ELSE u[i - 1]
    BY <1>1, <1>4, <2>1
  <2>3. t[1] = Dot
    BY <1>1, <1>4, <2>2
  <2>4. \A i \in 1 .. m : 1 + i \in 1 .. 1 + m /\ ~ (1 + i <= 1) /\ (1 + i) - 1 = i
    BY <1>1
  <2> QED BY <1>1, <1>4, <2>1, <2>2, <2>3, <2>4
<1>6. /\ s \in Seq(Codes) /\ Len(s) = n + (1 + m) /\ s[n + 1] = t[1]
      /\ \A i \in 1 .. n : s[i] = w[i]
      /\ SubSeq(s, n + 1, n + (1 + m)) = t
  <2>1. PICK k \in Nat : k = 1 + m
    BY <1>1
  <2>2. Joined(Codes, s, w, n, t, k)
    BY <1>1, <1>2, <1>3, <1>5, <2>1 DEF Joined
  <2>3. /\ s \in Seq(Codes) /\ Len(s) = n + k /\ s[n + 1] = t[1]
        /\ \A i \in 1 .. n : s[i] = w[i]
        /\ Rest(s, n, k) = t
    BY <2>2, FirstPlace
  <2> QED BY <2>1, <2>3 DEF Rest
<1>7. \A i \in 1 .. n : s[i] \in Digit
  BY <1>1, <1>6, ElementOfSeq
<1>8. Dots(s) # {} /\ Min(Dots(s)) = n + 1
  <2>1. n + (1 + m) \in Nat /\ n < n + (1 + m)
    BY <1>1
  <2>2. s[n + 1] = Dot /\ s[n + 1] \notin Digit
    BY <1>5, <1>6, NoDigits
  <2> QED BY <1>1, <1>6, <1>7, <2>1, <2>2, FirstOther
<1>9. Behind(s) = SubSeq(s, (n + 1) + 1, Len(s))
  BY <1>1, <1>8 DEF Behind, Dots
<1>10. SubSeq(s, n + 2, n + (1 + m)) = u
  <2>1. PICK r : r = SubSeq(s, n + 2, n + (1 + m))
    OBVIOUS
  <2>2. \A i \in n + 2 .. n + (1 + m) : s[i] \in Codes
    BY <1>1, <1>6, ElementOfSeq
  <2>3. /\ r \in Seq(Codes)
        /\ Len(r) = IF n + 2 <= n + (1 + m) THEN (n + (1 + m)) - (n + 2) + 1 ELSE 0
        /\ \A i \in 1 .. (n + (1 + m)) - (n + 2) + 1 : r[i] = s[(n + 2) + i - 1]
    BY <1>1, <2>1, <2>2, SubSeqProperties
  <2>4. Len(r) = m
    BY <1>1, <2>3
  <2>5. ASSUME NEW i \in 1 .. m PROVE r[i] = u[i]
    <3>1. r[i] = s[n + (1 + i)]
      BY <1>1, <2>3, <2>5
    <3>2. s[n + (1 + i)] = t[1 + i]
      <4>1. /\ 1 + i \in 1 .. 1 + m /\ n + (1 + i) \in 1 .. n + (1 + m)
            /\ ~ (n + (1 + i) <= n) /\ (n + (1 + i)) - n = 1 + i
        BY <1>1
      <4>2. \A j \in 1 .. n + (1 + m) : s[j] = IF j <= n THEN w[j] ELSE t[j - n]
        BY <1>1, <1>2, <1>3, <1>5, ConcatProperties
      <4> QED BY <4>1, <4>2
    <3> QED BY <1>5, <3>1, <3>2
  <2> QED BY <1>1, <2>1, <2>3, <2>4, <2>5, SeqEqual
<1>11. Behind(s) = u
  <2>1. (n + 1) + 1 = n + 2
    BY <1>1
  <2> QED BY <1>6, <1>9, <1>10, <2>1
<1> QED BY <1>3, <1>5, <1>6, <1>11

(* itoa of a number that is not negative gives digits with its value, of a  *)
(* negative one those of its magnitude behind a minus.                     *)
LEMMA Written ==
  ASSUME NEW n \in 0 .. MaxInt
  PROVE  /\ itoa(n) \in Seq(Digit) /\ Len(itoa(n)) > 0 /\ ValueOf(itoa(n)) = n
         /\ n > 0 => itoa(-n) = <<Minus>> \o itoa(n)
<1>1. Reads(n) /\ n \in Nat /\ n <= MaxInt /\ MaxInt \in Nat
  BY DigitsRead, CStringAssumption
<1>2. PICK w : w = Digits[n]
  OBVIOUS
<1>3. w \in Seq(Digit) /\ Len(w) > 0 /\ ValueOf(Reverse(w)) = n
  BY <1>1, <1>2 DEF Reads
<1>4. itoa(n) = Reverse(w)
  BY <1>1, <1>2 DEF itoa
<1>5. 0 \in Digit
  BY DEF Digit
<1>6. Reverse(w) \in Seq(Digit) /\ Len(Reverse(w)) = Len(w)
  BY <1>3, <1>5, Turned
<1>7. ASSUME n > 0 PROVE itoa(-n) = <<Minus>> \o itoa(n)
  <2>1. -n < 0 /\ -(-n) = n /\ Wrapped(n) = n
    BY <1>1, <1>7 DEF Wrapped
  <2>2. itoa(-n) = Reverse(Append(w, Minus))
    BY <1>2, <2>1 DEF itoa
  <2>3. w \in Seq(Codes) /\ Minus \in Codes
    BY <1>3 DEF Codes
  <2>4. Reverse(Append(w, Minus)) = <<Minus>> \o Reverse(w)
    BY <2>3, Turned
  <2> QED BY <1>4, <2>2, <2>4
<1> QED BY <1>3, <1>4, <1>6, <1>7

LEMMA ReadBack ==
  ASSUME NEW w \in Seq(Digit), Len(w) > 0
  PROVE  /\ atoi(w) = ValueOf(w)
         /\ atoi(<<Minus>> \o w) = -ValueOf(w)
         /\ \A u \in Seq(Codes) : atoi(w \o (<<Dot>> \o u)) = ValueOf(w)
<1>1. PICK n \in Nat : n = Len(w) /\ n > 0
  BY LenProperties
<1>2. w[1] \in Digit /\ w # << >>
  BY <1>1, ElementOfSeq
<1>3. atoi(w) = ValueOf(w)
  BY <1>2, DigitsOfAll, NoDigits DEF atoi
<1>4. atoi(<<Minus>> \o w) = -ValueOf(w)
  <2>1. PICK d, s : d = <<Minus>> /\ s = d \o w
    OBVIOUS
  <2>2. d \in Seq(Codes) /\ Len(d) = 1 /\ d[1] = Minus /\ w \in Seq(Codes)
    BY <2>1 DEF Codes
  <2>3. /\ s \in Seq(Codes) /\ Len(s) = 1 + n /\ s[1] = Minus
        /\ SubSeq(s, 1 + 1, 1 + n) = w
    <3>1. PICK k \in Nat : k = 1
      OBVIOUS
    <3>2. Joined(Codes, s, d, k, w, n)
      BY <1>1, <2>1, <2>2, <3>1 DEF Joined
    <3>3. /\ s \in Seq(Codes) /\ Len(s) = k + n /\ s[k + 1] = w[1]
          /\ \A i \in 1 .. k : s[i] = d[i]
          /\ Rest(s, k, n) = w
      BY <3>2, FirstPlace
    <3> QED BY <2>2, <3>1, <3>3 DEF Rest
  <2>4. s # << >> /\ Tail(s) = w
    <3>1. s # << >>
      BY <1>1, <2>3
    <3>2. Tail(s) = SubSeq(s, 2, Len(s))
      BY <2>3, <3>1, TailIsSubSeq
    <3> QED BY <2>3, <3>1, <3>2
  <2> QED BY <2>1, <2>3, <2>4, DigitsOfAll DEF atoi
<1>5. ASSUME NEW u \in Seq(Codes) PROVE atoi(w \o (<<Dot>> \o u)) = ValueOf(w)
  <2>1. PICK t, s : t = <<Dot>> \o u /\ s = w \o t
    OBVIOUS
  <2>2. t \in Seq(Codes) /\ Len(t) > 0 /\ t[1] = Dot
    BY <2>1, AfterDot
  <2>3. DigitsOf(s) = w
    BY <2>1, <2>2, HeadOfText, NoDigits
  <2>4. w \in Seq(Codes)
    BY DEF Codes
  <2>5. s \in Seq(Codes) /\ Len(s) = n + Len(t) /\ \A i \in 1 .. n : s[i] = w[i]
    <3>1. Joined(Codes, s, w, n, t, Len(t))
      BY <1>1, <2>1, <2>2, <2>4 DEF Joined
    <3> QED BY <3>1, FirstPlace
  <2>6. s[1] # Minus
    BY <1>1, <1>2, <2>5, NoDigits
  <2> QED BY <2>1, <2>3, <2>6 DEF atoi
<1> QED BY <1>3, <1>4, <1>5

Trio(S, x, y, z) == x \in Seq(S) /\ y \in Seq(S) /\ z \in Seq(S)

LEMMA Regroup ==
  ASSUME NEW S, NEW x, NEW y, NEW z, Trio(S, x, y, z)
  PROVE  (x \o y) \o z = x \o (y \o z)
BY DEF Trio

Parts(C, a, b, c, d, e) ==
  a \in Seq(C) /\ b \in Seq(C) /\ c \in Seq(C) /\ d \in Seq(C) /\ e \in Seq(C)

InLine(a, b, c, d, e) == a \o d \o b \o d \o c \o d \o e
Nested(a, b, c, d, e) == a \o (d \o (b \o (d \o (c \o (d \o e)))))

LEMMA RegroupFour ==
  ASSUME NEW S, NEW a, NEW b, NEW c, NEW d, NEW e, Parts(S, a, b, c, d, e)
  PROVE  InLine(a, b, c, d, e) = Nested(a, b, c, d, e)
<1>1. PICK p1, p2, p3, p4, t3, t2, r3 :
        /\ p1 = a \o d /\ p2 = p1 \o b /\ p3 = p2 \o d /\ p4 = p3 \o c
        /\ r3 = d \o e /\ t3 = c \o r3 /\ t2 = b \o (d \o t3)
  OBVIOUS
<1>2. /\ p1 \in Seq(S) /\ p2 \in Seq(S) /\ p3 \in Seq(S) /\ p4 \in Seq(S)
      /\ r3 \in Seq(S) /\ d \o t3 \in Seq(S) /\ d \o t2 \in Seq(S)
      /\ t3 \in Seq(S) /\ t2 \in Seq(S)
      /\ a \in Seq(S) /\ b \in Seq(S) /\ c \in Seq(S) /\ d \in Seq(S) /\ e \in Seq(S)
  BY <1>1, ConcatProperties DEF Parts
<1>3. (p4 \o d) \o e = p4 \o (d \o e)
  <2>1. Trio(S, p4, d, e)
    BY <1>2 DEF Trio
  <2> QED BY <2>1, Regroup
<1>4. (p3 \o c) \o r3 = p3 \o (c \o r3)
  <2>1. Trio(S, p3, c, r3)
    BY <1>2 DEF Trio
  <2> QED BY <2>1, Regroup
<1>5. (p2 \o d) \o t3 = p2 \o (d \o t3)
  <2>1. Trio(S, p2, d, t3)
    BY <1>2 DEF Trio
  <2> QED BY <2>1, Regroup
<1>6. (p1 \o b) \o (d \o t3) = p1 \o (b \o (d \o t3))
  <2>1. Trio(S, p1, b, d \o t3)
    BY <1>2 DEF Trio
  <2> QED BY <2>1, Regroup
<1>7. (a \o d) \o t2 = a \o (d \o t2)
  <2>1. Trio(S, a, d, t2)
    BY <1>2 DEF Trio
  <2> QED BY <2>1, Regroup
<1> QED BY <1>1, <1>3, <1>4, <1>5, <1>6, <1>7 DEF InLine, Nested

LEMMA AddressRead ==
  ASSUME NEW q \in [1 .. 4 -> 0 .. MaxInt]
  PROVE  sscanf(Dotted(q)) = q
<1>1. PICK a, b, c, e : a = itoa(q[1]) /\ b = itoa(q[2]) /\ c = itoa(q[3]) /\ e = itoa(q[4])
  OBVIOUS
<1>2. \A i \in 1 .. 4 : itoa(q[i]) \in Seq(Digit) /\ Len(itoa(q[i])) > 0 /\ ValueOf(itoa(q[i])) = q[i]
  BY Written
<1>3. /\ a \in Seq(Digit) /\ Len(a) > 0 /\ ValueOf(a) = q[1]
      /\ b \in Seq(Digit) /\ Len(b) > 0 /\ ValueOf(b) = q[2]
      /\ c \in Seq(Digit) /\ Len(c) > 0 /\ ValueOf(c) = q[3]
      /\ e \in Seq(Digit) /\ Len(e) > 0 /\ ValueOf(e) = q[4]
  BY <1>1, <1>2
<1>4. PICK d : d = <<Dot>>
  OBVIOUS
<1>5. a \in Seq(Codes) /\ b \in Seq(Codes) /\ c \in Seq(Codes) /\ e \in Seq(Codes) /\ d \in Seq(Codes)
  BY <1>3, <1>4 DEF Codes
<1>6. PICK t3 : t3 = c \o (d \o e)
  OBVIOUS
<1>7. t3 \in Seq(Codes) /\ Behind(t3) = e /\ atoi(t3) = q[3]
  BY <1>3, <1>4, <1>5, <1>6, AfterDot, ReadBack
<1>8. PICK t2 : t2 = b \o (d \o t3)
  OBVIOUS
<1>9. t2 \in Seq(Codes) /\ Behind(t2) = t3 /\ atoi(t2) = q[2]
  BY <1>3, <1>4, <1>7, <1>8, AfterDot, ReadBack
<1>10. PICK t1 : t1 = a \o (d \o t2)
  OBVIOUS
<1>11. t1 \in Seq(Codes) /\ Behind(t1) = t2 /\ atoi(t1) = q[1]
  BY <1>3, <1>4, <1>9, <1>10, AfterDot, ReadBack
<1>12. atoi(e) = q[4]
  BY <1>3, ReadBack
<1>13. Dotted(q) = a \o d \o b \o d \o c \o d \o e
  BY <1>1, <1>4 DEF Dotted
<1>14. a \o d \o b \o d \o c \o d \o e = t1
  <2>1. Parts(Codes, a, b, c, d, e)
    BY <1>5 DEF Parts
  <2>2. InLine(a, b, c, d, e) = Nested(a, b, c, d, e)
    BY <2>1, RegroupFour
  <2> QED BY <1>6, <1>8, <1>10, <2>2 DEF InLine, Nested
<1>15. sscanf(t1) = <<q[1], q[2], q[3], q[4]>>
  BY <1>7, <1>9, <1>11, <1>12 DEF sscanf
<1>16. q = <<q[1], q[2], q[3], q[4]>>
  <2>1. \A S : \A n \in Nat : \A v \in [1 .. n -> S] : v \in Seq(S) /\ Len(v) = n
    OBVIOUS
  <2>2. 4 \in Nat
    OBVIOUS
  <2>3. q \in Seq(0 .. MaxInt) /\ Len(q) = 4
    BY <2>1, <2>2, Zenon
  <2> QED BY <2>3
<1> QED BY <1>13, <1>14, <1>15, <1>16

-----------------------------------------------------------------------------
(***************************************************************************)
(* Comparison and copies.                                                  *)
(***************************************************************************)
(* The place that decides between two strings with their NULs. *)
Decides(a, b, k) ==
  /\ k \in DOMAIN a
  /\ \A j \in 1 .. k - 1 : a[j] = b[j]
  /\ a[k] = NUL \/ a[k] # b[k]

LEMMA Ended ==
  ASSUME NEW s \in Seq(Digit)
  PROVE  \E n \in Nat, a \in Seq(Codes) :
           /\ n = Len(s) /\ a = Append(s, NUL) /\ Len(a) = n + 1 /\ DOMAIN a = 1 .. n + 1
           /\ a[n + 1] = NUL /\ \A i \in 1 .. n : a[i] = s[i] /\ a[i] \in Digit
<1>1. PICK n \in Nat : n = Len(s)
  BY LenProperties
<1>2. PICK a : a = Append(s, NUL)
  OBVIOUS
<1>3. s \in Seq(Codes) /\ NUL \in Codes
  BY DEF Codes
<1>4. a \in Seq(Codes) /\ Len(a) = n + 1 /\ a[n + 1] = NUL /\ \A i \in 1 .. n : a[i] = s[i]
  BY <1>1, <1>2, <1>3, AppendProperties
<1>5. \A i \in 1 .. n : s[i] \in Digit
  BY <1>1, ElementOfSeq
<1>6. DOMAIN a = 1 .. n + 1
  BY <1>4, LenProperties
<1> QED BY <1>1, <1>2, <1>4, <1>5, <1>6

LEMMA Compared ==
  ASSUME NEW s \in Seq(Digit), NEW t \in Seq(Digit)
  PROVE  \E x, y \in Codes : /\ strcmp(s, t) = x - y /\ strcmp(t, s) = y - x
                             /\ x = y <=> s = t
<1>1. PICK n \in Nat, a \in Seq(Codes) :
        /\ n = Len(s) /\ a = Append(s, NUL) /\ Len(a) = n + 1 /\ DOMAIN a = 1 .. n + 1
        /\ a[n + 1] = NUL /\ \A i \in 1 .. n : a[i] = s[i] /\ a[i] \in Digit
  BY Ended
<1>2. PICK m \in Nat, b \in Seq(Codes) :
        /\ m = Len(t) /\ b = Append(t, NUL) /\ Len(b) = m + 1 /\ DOMAIN b = 1 .. m + 1
        /\ b[m + 1] = NUL /\ \A i \in 1 .. m : b[i] = t[i] /\ b[i] \in Digit
  BY Ended
<1> DEFINE K == {k \in 1 .. n + 1 : a[k] = NUL \/ a[k] # b[k]}
<1>3. PICK k \in K : \A j \in K : k <= j
  <2>1. K \in SUBSET Nat /\ n + 1 \in K
    BY <1>1
  <2> HIDE DEF K
  <2> QED BY <2>1, LeastNat
<1>4. k \in 1 .. n + 1 /\ (a[k] = NUL \/ a[k] # b[k]) /\ k \in Nat
  OBVIOUS
<1>5. ASSUME NEW j \in 1 .. k - 1 PROVE a[j] = b[j] /\ a[j] # NUL /\ j \in 1 .. n
  <2>1. j \in 1 .. n + 1 /\ j \in Nat /\ j < k /\ j \in 1 .. n
    BY <1>1, <1>4, <1>5
  <2>2. j \notin K
    BY <1>3, <1>4, <2>1
  <2> QED BY <2>1, <2>2
<1> HIDE DEF K
<1>6. k \in 1 .. m + 1
  <2>1. SUFFICES ASSUME m + 1 < k PROVE FALSE
    BY <1>2, <1>4
  <2>2. m + 1 \in 1 .. k - 1
    BY <1>2, <1>4, <2>1
  <2> QED BY <1>2, <1>5, <2>2
<1>7. a[k] = b[k] => a[k] = NUL /\ b[k] = NUL /\ k = n + 1 /\ k = m + 1
  <2>1. ASSUME a[k] = b[k] PROVE a[k] = NUL /\ b[k] = NUL /\ k = n + 1 /\ k = m + 1
    <3>1. a[k] = NUL /\ b[k] = NUL
      BY <1>4, <2>1
    <3>2. k \notin 1 .. n /\ k \notin 1 .. m
      BY <1>1, <1>2, <3>1, NoDigits
    <3> QED BY <1>1, <1>2, <1>4, <1>6, <3>1, <3>2
  <2> QED BY <2>1
<1>8. Decides(a, b, k) /\ Decides(b, a, k)
  BY <1>1, <1>2, <1>4, <1>5, <1>6, <1>7 DEF Decides
<1>9. ASSUME NEW i, Decides(a, b, i) PROVE i = k
  <2>1. i \in 1 .. n + 1 /\ (\A j \in 1 .. i - 1 : a[j] = b[j]) /\ (a[i] = NUL \/ a[i] # b[i])
    BY <1>1, <1>9 DEF Decides
  <2>2. ~ (i < k)
    <3>1. i < k => i \in 1 .. k - 1
      BY <1>1, <1>4, <2>1
    <3> QED BY <1>5, <2>1, <3>1
  <2>3. ~ (k < i)
    <3>1. k < i => k \in 1 .. i - 1
      BY <1>1, <1>4, <2>1
    <3>2. k < i => k = n + 1
      BY <1>7, <2>1, <3>1
    <3> QED BY <1>1, <2>1, <3>2
  <2> QED BY <1>1, <1>4, <2>1, <2>2, <2>3
<1>10. ASSUME NEW i, Decides(b, a, i) PROVE i = k
  <2>1. i \in 1 .. m + 1 /\ (\A j \in 1 .. i - 1 : b[j] = a[j]) /\ (b[i] = NUL \/ b[i] # a[i])
    BY <1>2, <1>10 DEF Decides
  <2>2. ~ (i < k)
    <3>1. i < k => i \in 1 .. k - 1
      BY <1>2, <1>4, <2>1
    <3> QED BY <1>5, <2>1, <3>1
  <2>3. ~ (k < i)
    <3>1. k < i => k \in 1 .. i - 1
      BY <1>2, <1>4, <2>1
    <3>2. k < i => k = m + 1
      BY <1>7, <2>1, <3>1
    <3> QED BY <1>2, <2>1, <3>2
  <2> QED BY <1>2, <1>4, <2>1, <2>2, <2>3
<1>11. strcmp(s, t) = a[k] - b[k]
  <2> DEFINE i == CHOOSE l : Decides(a, b, l)
  <2>1. Decides(a, b, i)
    BY <1>8, Zenon
  <2>2. strcmp(s, t) = a[i] - b[i]
    BY <1>1, <1>2, Zenon DEF strcmp, Decides
  <2> HIDE DEF i
  <2> QED BY <1>9, <2>1, <2>2
<1>12. strcmp(t, s) = b[k] - a[k]
  <2> DEFINE i == CHOOSE l : Decides(b, a, l)
  <2>1. Decides(b, a, i)
    BY <1>8, Zenon
  <2>2. strcmp(t, s) = b[i] - a[i]
    BY <1>1, <1>2, Zenon DEF strcmp, Decides
  <2> HIDE DEF i
  <2> QED BY <1>10, <2>1, <2>2
<1>13. a[k] \in Codes /\ b[k] \in Codes
  BY <1>1, <1>2, <1>4, <1>6, ElementOfSeq
<1>14. a[k] = b[k] <=> s = t
  <2>1. ASSUME a[k] = b[k] PROVE s = t
    <3>1. k = n + 1 /\ k = m + 1 /\ n = m
      BY <1>1, <1>2, <1>7, <2>1
    <3>2. \A j \in 1 .. n : s[j] = t[j]
      BY <1>1, <1>2, <1>5, <3>1
    <3> QED BY <1>1, <1>2, <3>1, <3>2, SeqEqual
  <2>2. s = t => a = b
    BY <1>1, <1>2
  <2> QED BY <2>1, <2>2
<1> QED BY <1>11, <1>12, <1>13, <1>14

LEMMA TextsCompare ==
  ASSUME NEW s \in Seq(Digit), NEW t \in Seq(Digit), Len(s) <= MaxStr
  PROVE  /\ strcmp(s, t) = 0 <=> s = t
         /\ strcmp(s, t) < 0 <=> strcmp(t, s) > 0
         /\ strcmp(DigitsOf(strncpy(s, MaxStr + 1)), s) = 0
<1>1. \A x \in Codes : x \in Int
  BY DEF Codes, Digit, Minus, Dot, NUL
<1>2. /\ strcmp(s, t) = 0 <=> s = t
      /\ strcmp(s, t) < 0 <=> strcmp(t, s) > 0
  <2>1. PICK x, y \in Codes : /\ strcmp(s, t) = x - y /\ strcmp(t, s) = y - x
                              /\ x = y <=> s = t
    BY Compared
  <2>2. x \in Int /\ y \in Int
    BY <1>1
  <2>3. x - y = 0 <=> x = y
    BY <2>2
  <2>4. x - y < 0 <=> y - x > 0
    BY <2>2
  <2> QED BY <2>1, <2>3, <2>4
<1>3. strcmp(s, s) = 0
  <2>1. PICK x, y \in Codes : /\ strcmp(s, s) = x - y /\ strcmp(s, s) = y - x
                              /\ x = y <=> s = s
    BY Compared
  <2>2. x \in Int /\ y = x
    BY <1>1, <2>1
  <2> QED BY <2>1, <2>2
<1>4. PICK n \in Nat : n = Len(s)
  BY LenProperties
<1>5. PICK m : m = MaxStr + 1 - n
  OBVIOUS
<1>6. m \in Nat /\ m > 0
  BY <1>4, <1>5, CStringAssumption
<1>7. PICK f : f = [i \in 1 .. m |-> NUL]
  OBVIOUS
<1>8. f \in Seq(Codes) /\ Len(f) = m /\ f[1] = NUL
  BY <1>6, <1>7 DEF Codes
<1>9. strncpy(s, MaxStr + 1) = s \o f
  <2>1. strncpy(s, MaxStr + 1) = s \o [i \in 1 .. (MaxStr + 1) - Len(s) |-> NUL]
    BY Zenon DEF strncpy
  <2>2. m = (MaxStr + 1) - Len(s)
    BY <1>4, <1>5, CStringAssumption
  <2> QED BY <1>7, <2>1, <2>2, Zenon
<1>10. DigitsOf(s \o f) = s
  BY <1>6, <1>8, HeadOfText, NoDigits
<1> QED BY <1>2, <1>3, <1>9, <1>10

(* Memory m with the bytes from lo to hi as they were by further on.       *)
Relocated(m, lo, hi, by) ==
  [i \in 1 .. Size |-> IF i \in lo .. hi THEN m[i + by] ELSE m[i]]

Forward(after, m, d, s, n) ==
  after = [k \in 0 .. n |-> IF k = 0 THEN m ELSE CopyOne(after[k - 1], d + k - 1, s + k - 1)]
Backward(after, m, d, s, n) ==
  after = [k \in 0 .. n |-> IF k = 0 THEN m ELSE CopyOne(after[k - 1], d + n - k, s + n - k)]

Moves(m, d, s, n) ==
  /\ m = [i \in 1 .. Size |-> m[i]]
  /\ d \in 1 .. Size /\ s \in 1 .. Size /\ n \in Nat
  /\ d + n - 1 <= Size /\ s + n - 1 <= Size /\ Size \in Nat

LEMMA OneMore ==
  ASSUME NEW m, NEW d, NEW s, NEW n, Moves(m, d, s, n), NEW k \in 1 .. n
  PROVE  /\ d < s => CopyOne(Relocated(m, d, d + (k - 1) - 1, s - d), d + k - 1, s + k - 1)
                       = Relocated(m, d, d + k - 1, s - d)
         /\ d >= s => CopyOne(Relocated(m, d + n - (k - 1), d + n - 1, s - d), d + n - k, s + n - k)
                       = Relocated(m, d + n - k, d + n - 1, s - d)
<1>1. /\ m = [i \in 1 .. Size |-> m[i]]
      /\ d \in 1 .. Size /\ s \in 1 .. Size /\ n \in Nat /\ k \in 1 .. n
      /\ d + n - 1 <= Size /\ s + n - 1 <= Size /\ Size \in Nat
  BY DEF Moves
<1>2. ASSUME d < s
      PROVE  CopyOne(Relocated(m, d, d + (k - 1) - 1, s - d), d + k - 1, s + k - 1)
               = Relocated(m, d, d + k - 1, s - d)
  <2>1. PICK to, from, by : to = d + k - 1 /\ from = s + k - 1 /\ by = s - d
    OBVIOUS
  <2>2. /\ to \in 1 .. Size /\ from \in 1 .. Size /\ by \in Int
        /\ from \notin d .. d + (k - 1) - 1 /\ from = to + by
    <3>1. d \in Int /\ s \in Int /\ n \in Int /\ k \in Int /\ 1 <= k /\ k <= n /\ 1 <= d /\ 1 <= s
      BY <1>1
    <3>2. to \in Int /\ from \in Int /\ by \in Int /\ from = to + by /\ d + k - 1 < from + 1
      BY <1>2, <2>1, <3>1
    <3>3. 1 <= to /\ to <= Size /\ 1 <= from /\ from <= Size
      BY <1>1, <2>1, <3>1
    <3>4. ~ (from <= d + (k - 1) - 1)
      BY <3>1, <3>2
    <3> QED BY <1>1, <3>2, <3>3, <3>4
  <2>3. PICK old : old = Relocated(m, d, d + (k - 1) - 1, by)
    OBVIOUS
  <2>4. old = [i \in 1 .. Size |-> IF i \in d .. d + (k - 1) - 1 THEN m[i + by] ELSE m[i]]
    BY <2>3 DEF Relocated
  <2>5. old[from] = m[to + by]
    BY <2>2, <2>4
  <2>6. CopyOne(old, to, from) = [i \in 1 .. Size |-> IF i = to THEN old[from] ELSE old[i]]
    BY <2>2, <2>4 DEF CopyOne
  <2>7. ASSUME NEW i \in 1 .. Size
        PROVE  (IF i = to THEN old[from] ELSE old[i])
                 = (IF i \in d .. d + k - 1 THEN m[i + by] ELSE m[i])
    <3>1. i # to => (i \in d .. d + (k - 1) - 1 <=> i \in d .. d + k - 1)
      <4>1. i \in Int /\ k \in Int /\ d \in Int /\ n \in Int /\ Size \in Int
        BY <1>1
      <4>2. i # to => (i <= d + (k - 1) - 1 <=> i <= d + k - 1)
        BY <2>1, <4>1
      <4> QED BY <4>1, <4>2
    <3>2. to \in d .. d + k - 1
      BY <1>1, <2>1
    <3> QED BY <2>4, <2>5, <3>1, <3>2
  <2>8. Relocated(m, d, d + k - 1, by) = [i \in 1 .. Size |-> IF i \in d .. d + k - 1 THEN m[i + by] ELSE m[i]]
    BY DEF Relocated
  <2>9. CopyOne(old, to, from) = Relocated(m, d, d + k - 1, by)
    BY <2>6, <2>7, <2>8
  <2> QED BY <2>1, <2>3, <2>9
<1>3. ASSUME d >= s
      PROVE  CopyOne(Relocated(m, d + n - (k - 1), d + n - 1, s - d), d + n - k, s + n - k)
               = Relocated(m, d + n - k, d + n - 1, s - d)
  <2>1. PICK to, from, by : to = d + n - k /\ from = s + n - k /\ by = s - d
    OBVIOUS
  <2>2. /\ to \in 1 .. Size /\ from \in 1 .. Size /\ by \in Int
        /\ from \notin d + n - (k - 1) .. d + n - 1 /\ from = to + by
    <3>1. d \in Int /\ s \in Int /\ n \in Int /\ k \in Int /\ 1 <= k /\ k <= n /\ 1 <= d /\ 1 <= s
      BY <1>1
    <3>2. to \in Int /\ from \in Int /\ by \in Int /\ from = to + by /\ from <= d + n - k
      BY <1>3, <2>1, <3>1
    <3>3. 1 <= to /\ to <= Size /\ 1 <= from /\ from <= Size
      BY <1>1, <2>1, <3>1
    <3>4. ~ (d + n - (k - 1) <= from)
      BY <3>1, <3>2
    <3> QED BY <1>1, <3>2, <3>3, <3>4
  <2>3. PICK old : old = Relocated(m, d + n - (k - 1), d + n - 1, by)
    OBVIOUS
  <2>4. old = [i \in 1 .. Size |-> IF i \in d + n - (k - 1) .. d + n - 1 THEN m[i + by] ELSE m[i]]
    BY <2>3 DEF Relocated
  <2>5. old[from] = m[to + by]
    BY <2>2, <2>4
  <2>6. CopyOne(old, to, from) = [i \in 1 .. Size |-> IF i = to THEN old[from] ELSE old[i]]
    BY <2>2, <2>4 DEF CopyOne
  <2>7. ASSUME NEW i \in 1 .. Size
        PROVE  (IF i = to THEN old[from] ELSE old[i])
                 = (IF i \in d + n - k .. d + n - 1 THEN m[i + by] ELSE m[i])
    <3>1. i # to => (i \in d + n - (k - 1) .. d + n - 1 <=> i \in d + n - k .. d + n - 1)
      <4>1. i \in Int /\ k \in Int /\ d \in Int /\ n \in Int /\ Size \in Int
        BY <1>1
      <4>2. i # to => (d + n - (k - 1) <= i <=> d + n - k <= i)
        BY <2>1, <4>1
      <4> QED BY <4>1, <4>2
    <3>2. to \in d + n - k .. d + n - 1
      BY <1>1, <2>1
    <3> QED BY <2>4, <2>5, <3>1, <3>2
  <2>8. Relocated(m, d + n - k, d + n - 1, by) = [i \in 1 .. Size |-> IF i \in d + n - k .. d + n - 1 THEN m[i + by] ELSE m[i]]
    BY DEF Relocated
  <2>9. CopyOne(old, to, from) = Relocated(m, d + n - k, d + n - 1, by)
    BY <2>6, <2>7, <2>8
  <2> QED BY <2>1, <2>3, <2>9
<1> QED BY <1>2, <1>3

(* What the loops leave behind: memory in which the copied bytes are as    *)
(* those at their source were before. A loop has done so up to byte k.     *)
LEMMA ForwardIs ==
  ASSUME NEW m, NEW d, NEW s, NEW n, Moves(m, d, s, n), d < s
  PROVE  memcpy(m, d, s, n) = Relocated(m, d, d + n - 1, s - d)
<1>1. /\ m = [i \in 1 .. Size |-> m[i]]
      /\ d \in 1 .. Size /\ s \in 1 .. Size /\ n \in Nat /\ Size \in Nat
  BY DEF Moves
<1> DEFINE At(k) == Relocated(m, d, d + k - 1, s - d)
<1>2. At(0) = m
  <2>1. \A i : i \notin d .. d + 0 - 1
    BY <1>1
  <2> QED BY <1>1, <2>1 DEF Relocated
<1>3. ASSUME NEW k \in 1 .. n PROVE CopyOne(At(k - 1), d + k - 1, s + k - 1) = At(k)
  BY OneMore
<1> HIDE DEF At
<1>4. \E after : Forward(after, m, d, s, n)
  <2> DEFINE all == [k \in 0 .. n |-> At(k)]
  <2>1. ASSUME NEW k \in 0 .. n
        PROVE  all[k] = IF k = 0 THEN m ELSE CopyOne(all[k - 1], d + k - 1, s + k - 1)
    <3>1. k # 0 => k \in 1 .. n /\ k - 1 \in 0 .. n
      BY <1>1
    <3> QED BY <1>2, <1>3, <3>1
  <2>2. Forward(all, m, d, s, n)
    <3>1. all = [k \in 0 .. n |-> all[k]]
      OBVIOUS
    <3> HIDE DEF all
    <3> QED BY <2>1, <3>1 DEF Forward
  <2> QED BY <2>2
<1>5. PICK after : Forward(after, m, d, s, n) /\ memcpy(m, d, s, n) = after[n]
  <2> DEFINE it == CHOOSE f : Forward(f, m, d, s, n)
  <2>1. Forward(it, m, d, s, n)
    BY <1>4, Zenon
  <2>2. memcpy(m, d, s, n) = it[n]
    BY DEF memcpy, Forward
  <2> HIDE DEF it
  <2> QED BY <2>1, <2>2
<1> DEFINE Bad == {k \in 0 .. n : after[k] # At(k)}
<1>6. Bad = {}
  <2>1. SUFFICES ASSUME Bad # {} PROVE FALSE
    OBVIOUS
  <2>2. PICK k \in Bad : \A j \in Bad : k <= j
    <3>1. Bad \in SUBSET Nat
      OBVIOUS
    <3> HIDE DEF Bad
    <3> QED BY <2>1, <3>1, LeastNat
  <2>3. k \in 0 .. n /\ after[k] # At(k)
    OBVIOUS
  <2>4. after[k] = IF k = 0 THEN m ELSE CopyOne(after[k - 1], d + k - 1, s + k - 1)
    BY <1>5, <2>3 DEF Forward
  <2>5. k # 0
    BY <1>2, <2>3, <2>4
  <2>6. k - 1 \in 0 .. n /\ k - 1 \notin Bad /\ k \in 1 .. n
    BY <1>1, <2>2, <2>3, <2>5
  <2>7. after[k - 1] = At(k - 1)
    BY <2>6
  <2> HIDE DEF Bad
  <2> QED BY <1>3, <2>3, <2>4, <2>5, <2>6, <2>7
<1>7. after[n] = At(n)
  BY <1>1, <1>6
<1> HIDE DEF Bad
<1> QED BY <1>5, <1>7 DEF At

LEMMA BackwardIs ==
  ASSUME NEW m, NEW d, NEW s, NEW n, Moves(m, d, s, n), d >= s
  PROVE  memmove(m, d, s, n) = Relocated(m, d, d + n - 1, s - d)
<1>1. /\ m = [i \in 1 .. Size |-> m[i]]
      /\ d \in 1 .. Size /\ s \in 1 .. Size /\ n \in Nat /\ Size \in Nat /\ ~ (d < s)
  BY DEF Moves
<1> DEFINE At(k) == Relocated(m, d + n - k, d + n - 1, s - d)
<1>2. At(0) = m
  <2>1. \A i : i \notin d + n - 0 .. d + n - 1
    BY <1>1
  <2> QED BY <1>1, <2>1 DEF Relocated
<1>3. ASSUME NEW k \in 1 .. n PROVE CopyOne(At(k - 1), d + n - k, s + n - k) = At(k)
  BY OneMore
<1>4. At(n) = Relocated(m, d, d + n - 1, s - d)
  <2>1. d + n - n = d
    BY <1>1
  <2> QED BY <2>1
<1> HIDE DEF At
<1>5. \E after : Backward(after, m, d, s, n)
  <2> DEFINE all == [k \in 0 .. n |-> At(k)]
  <2>1. ASSUME NEW k \in 0 .. n
        PROVE  all[k] = IF k = 0 THEN m ELSE CopyOne(all[k - 1], d + n - k, s + n - k)
    <3>1. k # 0 => k \in 1 .. n /\ k - 1 \in 0 .. n
      BY <1>1
    <3> QED BY <1>2, <1>3, <3>1
  <2>2. Backward(all, m, d, s, n)
    <3>1. all = [k \in 0 .. n |-> all[k]]
      OBVIOUS
    <3> HIDE DEF all
    <3> QED BY <2>1, <3>1 DEF Backward
  <2> QED BY <2>2
<1>6. PICK after : Backward(after, m, d, s, n) /\ memmove(m, d, s, n) = after[n]
  <2> DEFINE it == CHOOSE f : Backward(f, m, d, s, n)
  <2>1. Backward(it, m, d, s, n)
    BY <1>5, Zenon
  <2>2. memmove(m, d, s, n) = it[n]
    BY <1>1 DEF memmove, Backward
  <2> HIDE DEF it
  <2> QED BY <2>1, <2>2
<1> DEFINE Bad == {k \in 0 .. n : after[k] # At(k)}
<1>7. Bad = {}
  <2>1. SUFFICES ASSUME Bad # {} PROVE FALSE
    OBVIOUS
  <2>2. PICK k \in Bad : \A j \in Bad : k <= j
    <3>1. Bad \in SUBSET Nat
      OBVIOUS
    <3> HIDE DEF Bad
    <3> QED BY <2>1, <3>1, LeastNat
  <2>3. k \in 0 .. n /\ after[k] # At(k)
    OBVIOUS
  <2>4. after[k] = IF k = 0 THEN m ELSE CopyOne(after[k - 1], d + n - k, s + n - k)
    BY <1>6, <2>3 DEF Backward
  <2>5. k # 0
    BY <1>2, <2>3, <2>4
  <2>6. k - 1 \in 0 .. n /\ k - 1 \notin Bad /\ k \in 1 .. n
    BY <1>1, <2>2, <2>3, <2>5
  <2>7. after[k - 1] = At(k - 1)
    BY <2>6
  <2> HIDE DEF Bad
  <2> QED BY <1>3, <2>3, <2>4, <2>5, <2>6, <2>7
<1>8. after[n] = At(n)
  BY <1>1, <1>7
<1> HIDE DEF Bad
<1> QED BY <1>6, <1>8, <1>4

LEMMA CopyIsExact ==
  ASSUME NEW d \in 1 .. Size, NEW s \in 1 .. Size,
         NEW n \in 0 .. Size - (IF d > s THEN d ELSE s) + 1, NEW i \in 1 .. Size
  PROVE  memmove([j \in 1 .. Size |-> j], d, s, n)[i]
           = IF i \in d .. d + n - 1 THEN i - d + s ELSE i
<1>1. Size \in Nat
  BY CStringAssumption
<1>2. PICK m : m = [j \in 1 .. Size |-> j]
  OBVIOUS
<1>3. Moves(m, d, s, n)
  BY <1>1, <1>2 DEF Moves
<1>4. memmove(m, d, s, n) = Relocated(m, d, d + n - 1, s - d)
  <2>1. d < s => memmove(m, d, s, n) = memcpy(m, d, s, n)
    BY DEF memmove
  <2>2. d < s \/ d >= s
    BY <1>1
  <2> QED BY <1>3, <2>1, <2>2, ForwardIs, BackwardIs
<1>5. Relocated(m, d, d + n - 1, s - d)[i] = IF i \in d .. d + n - 1 THEN m[i + (s - d)] ELSE m[i]
  BY DEF Relocated
<1>6. i \in d .. d + n - 1 => i + (s - d) \in 1 .. Size /\ i + (s - d) = i - d + s
  BY <1>1
<1> QED BY <1>2, <1>4, <1>5, <1>6

-----------------------------------------------------------------------------
(***************************************************************************)
(* strtok: the fields that begin before the place where it goes on have    *)
(* been returned, each at its rank.                                        *)
(***************************************************************************)
TokenChar == StrChar \union {Dot}

(* The fields that begin before place q of a string. *)
Before(s, q) == {i \in Starts(s) : i < q}
Rank(s, i) == Cardinality({j \in Starts(s) : j <= i})

(* What strtok has returned: the fields up to where it goes on, which is   *)
(* the head of the string or behind a delimiter; all of them at the end.   *)
Tokens(s, ts, q) ==
  /\ ts \in Seq(Seq(TokenChar))
  /\ Len(ts) = Cardinality(Before(s, q))
  /\ \A i \in Before(s, q) : IsFieldAt(ts[Rank(s, i)], s, i)

AtHead(s, p) == p \in 1 .. Len(s) + 1 /\ (p = 1 \/ s[p - 1] = Dot)

Reading(s, p, ts) ==
  /\ s \in Seq(TokenChar)
  /\ p # 0 => AtHead(s, p) /\ Tokens(s, ts, p)
  /\ p = 0 => Tokens(s, ts, Len(s) + 2)

LEMMA StartsFinite ==
  ASSUME NEW s \in Seq(TokenChar)
  PROVE  /\ IsFiniteSet(Starts(s)) /\ \A i \in Starts(s) : i \in 1 .. Len(s)
         /\ \A q : IsFiniteSet(Before(s, q)) /\ Cardinality(Before(s, q)) \in Nat
         /\ Before(s, Len(s) + 2) = Starts(s)
<1>1. PICK n \in Nat : n = Len(s)
  BY LenProperties
<1>2. Starts(s) \subseteq 1 .. n /\ IsFiniteSet(1 .. n)
  BY <1>1, FS_Interval DEF Starts
<1>3. IsFiniteSet(Starts(s))
  BY <1>2, FS_Subset
<1>4. ASSUME NEW q PROVE IsFiniteSet(Before(s, q)) /\ Cardinality(Before(s, q)) \in Nat
  <2>1. Before(s, q) \subseteq Starts(s)
    BY DEF Before
  <2> QED BY <1>3, <2>1, FS_Subset, FS_CardinalityType
<1>5. Before(s, n + 2) = Starts(s)
  BY <1>1, <1>2 DEF Before
<1> QED BY <1>1, <1>2, <1>3, <1>4, <1>5

LEMMA EndOfToken ==
  ASSUME NEW s \in Seq(TokenChar), NEW b \in 1 .. Len(s)
  PROVE  /\ TokenEnd(s, b) \in b .. Len(s) + 1
         /\ TokenEnd(s, b) <= Len(s) => s[TokenEnd(s, b)] = Dot
         /\ \A j \in b .. TokenEnd(s, b) - 1 : s[j] # Dot
<1>1. PICK n \in Nat : n = Len(s)
  BY LenProperties
<1> DEFINE E == {e \in b .. n + 1 : e <= n => s[e] = Dot}
<1>2. PICK e \in E : \A j \in E : e <= j
  <2>1. E \in SUBSET Nat /\ n + 1 \in E
    BY <1>1
  <2> HIDE DEF E
  <2> QED BY <2>1, LeastNat
<1>3. e \in b .. n + 1 /\ (e <= n => s[e] = Dot) /\ e \in Nat
  BY <1>1
<1>4. ASSUME NEW j \in b .. e - 1 PROVE s[j] # Dot
  <2>1. j \in b .. n + 1 /\ j < e /\ j \in Nat
    BY <1>1, <1>3, <1>4
  <2>2. j \notin E
    BY <1>2, <1>3, <2>1
  <2> QED BY <2>1, <2>2
<1> HIDE DEF E
<1> DEFINE Ends(k) == /\ k <= n => s[k] = Dot
                      /\ \A j \in b .. k - 1 : s[j] # Dot
           t == CHOOSE k \in b .. n + 1 : Ends(k)
<1>5. Ends(e)
  BY <1>3, <1>4
<1>6. t \in b .. n + 1 /\ Ends(t)
  <2> HIDE DEF Ends
  <2> QED BY <1>3, <1>5, Zenon
<1>7. TokenEnd(s, b) = t
  BY <1>1 DEF TokenEnd
<1> QED BY <1>1, <1>6, <1>7

(* Nothing but delimiters to the end: no field begins there. *)
LEMMA NoMoreFields ==
  ASSUME NEW s \in Seq(TokenChar), NEW p, AtHead(s, p), TokenStart(s, p) = {}
  PROVE  Before(s, p) = Starts(s)
<1>1. PICK n \in Nat : n = Len(s)
  BY LenProperties
<1>2. p \in 1 .. n + 1
  BY <1>1 DEF AtHead
<1> DEFINE F == {i \in p .. n : s[i] # Dot}
<1>3. F = {}
  <2>1. SUFFICES ASSUME F # {} PROVE FALSE
    OBVIOUS
  <2>2. PICK i \in F : \A j \in F : i <= j
    <3>1. F \in SUBSET Nat
      BY <1>2
    <3> HIDE DEF F
    <3> QED BY <2>1, <3>1, LeastNat
  <2>3. i \in p .. n /\ s[i] # Dot
    OBVIOUS
  <2>4. ASSUME NEW j \in p .. i - 1 PROVE s[j] = Dot
    <3>1. j \in p .. n /\ j < i
      BY <1>1, <1>2, <2>3, <2>4
    <3>2. j \notin F
      BY <1>2, <2>2, <2>3, <3>1
    <3> QED BY <3>1, <3>2
  <2>5. i \in TokenStart(s, p)
    BY <1>1, <2>3, <2>4 DEF TokenStart
  <2> QED BY <2>5
<1>4. ASSUME NEW i \in Starts(s) PROVE i < p
  <2>1. i \in 1 .. n /\ s[i] # Dot
    BY <1>1 DEF Starts
  <2>2. i \notin p .. n
    BY <1>3, <2>1
  <2> QED BY <1>2, <2>1, <2>2
<1> QED BY <1>4 DEF Before

(* One field begins between where strtok goes on and where it ended one.   *)
LEMMA NextField ==
  ASSUME NEW s \in Seq(TokenChar), NEW p, AtHead(s, p), NEW b \in TokenStart(s, p),
         NEW e, e = TokenEnd(s, b)
  PROVE  /\ b \in Starts(s) /\ p <= b
         /\ {j \in Starts(s) : j <= b} = Before(s, p) \union {b}
         /\ e <= Len(s) => Before(s, e + 1) = Before(s, p) \union {b} /\ AtHead(s, e + 1)
         /\ e > Len(s) => Starts(s) = Before(s, p) \union {b}
<1>1. PICK n \in Nat : n = Len(s)
  BY LenProperties
<1>2. p \in 1 .. n + 1 /\ (p = 1 \/ s[p - 1] = Dot)
  BY <1>1 DEF AtHead
<1>3. b \in p .. n /\ s[b] # Dot /\ \A j \in p .. b - 1 : s[j] = Dot
  BY <1>1 DEF TokenStart
<1>4. b \in 1 .. n
  BY <1>1, <1>2, <1>3
<1>5. e \in b .. n + 1 /\ (e <= n => s[e] = Dot) /\ \A j \in b .. e - 1 : s[j] # Dot
  BY <1>1, <1>4, EndOfToken
<1>6. b \in Starts(s)
  <2>1. b = 1 \/ s[b - 1] = Dot
    <3>1. CASE b = p
      BY <1>2, <3>1
    <3>2. CASE b # p
      <4>1. b - 1 \in p .. b - 1
        BY <1>2, <1>3, <3>2
      <4> QED BY <1>3, <4>1
    <3> QED BY <3>1, <3>2
  <2> QED BY <1>1, <1>3, <1>4, <2>1 DEF Starts
<1>7. ASSUME NEW i \in Starts(s), i >= p, i <= e PROVE i = b
  <2>1. i \in 1 .. n /\ s[i] # Dot /\ (i = 1 \/ s[i - 1] = Dot)
    BY <1>1 DEF Starts
  <2>2. i \notin p .. b - 1
    BY <1>3, <2>1
  <2>3. i # e
    BY <1>5, <2>1
  <2>4. i - 1 \notin b .. e - 1
    <3>1. CASE i = 1
      BY <1>4, <3>1
    <3>2. CASE i # 1
      BY <1>5, <2>1, <3>2
    <3> QED BY <3>1, <3>2
  <2> QED BY <1>2, <1>3, <1>5, <1>7, <2>1, <2>2, <2>3, <2>4
<1>8. \A i \in Starts(s) : i \in 1 .. n
  BY <1>1 DEF Starts
<1>9. \A i \in Starts(s) : i < p \/ i = b => i <= b /\ i <= e
  BY <1>2, <1>3, <1>5, <1>8
<1>10. \A i \in Starts(s) : i <= b => i < p \/ i = b
  BY <1>2, <1>3, <1>5, <1>7, <1>8
<1>11. {j \in Starts(s) : j <= b} = Before(s, p) \union {b}
  BY <1>6, <1>9, <1>10 DEF Before
<1>12. \A i \in Starts(s) : i <= e => i < p \/ i = b
  BY <1>2, <1>7, <1>8
<1>13. Before(s, e + 1) = Before(s, p) \union {b}
  <2>1. \A i \in Starts(s) : i < e + 1 <=> i <= e
    BY <1>5, <1>8
  <2> QED BY <1>6, <1>9, <1>12, <2>1 DEF Before
<1>14. e <= n => AtHead(s, e + 1)
  <2>1. e \in Nat /\ (e + 1) - 1 = e
    BY <1>4, <1>5
  <2>2. e <= n => e + 1 \in 1 .. n + 1
    BY <1>1, <2>1
  <2> QED BY <1>1, <1>5, <2>1, <2>2 DEF AtHead
<1>15. e > n => Starts(s) = Before(s, p) \union {b}
  <2>1. e > n => \A i \in Starts(s) : i <= e
    BY <1>1, <1>5, <1>8
  <2> QED BY <1>6, <1>12, <2>1 DEF Before
<1> QED BY <1>1, <1>3, <1>4, <1>6, <1>11, <1>13, <1>14, <1>15

LEMMA TokenAdded ==
  ASSUME NEW s \in Seq(TokenChar), NEW p, AtHead(s, p), NEW ts, Tokens(s, ts, p),
         NEW b \in TokenStart(s, p), NEW e, e = TokenEnd(s, b), NEW q,
         Before(s, q) = Before(s, p) \union {b}
  PROVE  Tokens(s, Append(ts, SubSeq(s, b, e - 1)), q)
<1>1. PICK n \in Nat, l \in Nat : n = Len(s) /\ l = Len(ts)
  BY LenProperties DEF Tokens
<1>2. /\ ts \in Seq(Seq(TokenChar)) /\ l = Cardinality(Before(s, p))
      /\ \A i \in Before(s, p) : IsFieldAt(ts[Rank(s, i)], s, i)
  BY <1>1 DEF Tokens
<1>3. /\ b \in Starts(s) /\ p <= b
      /\ {j \in Starts(s) : j <= b} = Before(s, p) \union {b}
  BY NextField
<1>4. b \in 1 .. n
  BY <1>1, <1>3 DEF Starts
<1>5. e \in b .. n + 1 /\ (e <= n => s[e] = Dot) /\ \A j \in b .. e - 1 : s[j] # Dot
  BY <1>1, <1>4, EndOfToken
<1>6. PICK t, us : t = SubSeq(s, b, e - 1) /\ us = Append(ts, t)
  OBVIOUS
<1>7. t \in Seq(TokenChar)
  <2>1. b \in Int /\ e - 1 \in Int /\ \A i \in b .. e - 1 : i \in 1 .. n
    BY <1>1, <1>4, <1>5
  <2>2. \A i \in b .. e - 1 : s[i] \in TokenChar
    BY <1>1, <2>1, ElementOfSeq
  <2> QED BY <1>6, <2>1, <2>2, SubSeqProperties
<1>8. /\ us \in Seq(Seq(TokenChar)) /\ Len(us) = l + 1 /\ us[l + 1] = t
      /\ \A i \in 1 .. l : us[i] = ts[i]
  <2>1. PICK T : T = Seq(TokenChar)
    OBVIOUS
  <2>2. ts \in Seq(T) /\ t \in T
    BY <1>2, <1>7, <2>1
  <2>3. /\ us \in Seq(T) /\ Len(us) = Len(ts) + 1
        /\ \A i \in 1 .. Len(us) : us[i] = IF i = Len(us) THEN t ELSE ts[i]
    BY <1>6, <2>2, AppendProperties
  <2>4. l + 1 \in 1 .. l + 1 /\ \A i \in 1 .. l : i \in 1 .. l + 1 /\ i # l + 1
    BY <1>1
  <2> QED BY <1>1, <2>1, <2>3, <2>4
<1>9. IsFieldAt(t, s, b)
  BY <1>1, <1>5, <1>6 DEF IsFieldAt
<1>10. b \notin Before(s, p)
  <2>1. p \in Int
    BY <1>1 DEF AtHead
  <2> QED BY <1>3, <1>4, <2>1 DEF Before
<1>11. Cardinality(Before(s, p) \union {b}) = l + 1
  BY <1>2, <1>10, StartsFinite, FS_AddElement
<1>12. Rank(s, b) = l + 1
  BY <1>3, <1>11 DEF Rank
<1>13. ASSUME NEW i \in Before(s, p) PROVE Rank(s, i) \in 1 .. l
  <2> DEFINE R == {j \in Starts(s) : j <= i}
  <2>1. i \in R /\ R \subseteq Before(s, p)
    <3>1. i \in Starts(s) /\ i < p
      BY <1>13 DEF Before
    <3>2. \A j \in Starts(s) : j \in Int
      BY StartsFinite
    <3>3. p \in Int
      BY <1>1 DEF AtHead
    <3>4. \A j \in Starts(s) : j <= i => j < p
      BY <3>1, <3>2, <3>3
    <3>5. i <= i
      BY <3>1, <3>2
    <3> QED BY <3>1, <3>4, <3>5 DEF Before
  <2> HIDE DEF R
  <2>2. IsFiniteSet(R) /\ Cardinality(R) <= l
    BY <1>2, <2>1, StartsFinite, FS_Subset
  <2>3. Cardinality(R) \in Nat /\ Cardinality(R) # 0
    BY <2>1, <2>2, FS_CardinalityType, FS_EmptySet
  <2> QED BY <1>1, <2>2, <2>3 DEF R, Rank
<1>14. ASSUME NEW i \in Before(s, q) PROVE IsFieldAt(us[Rank(s, i)], s, i)
  <2>1. CASE i = b
    BY <1>8, <1>9, <1>12, <2>1
  <2>2. CASE i # b
    <3>1. i \in Before(s, p)
      BY <1>14, <2>2
    <3> QED BY <1>2, <1>8, <1>13, <3>1
  <2> QED BY <2>1, <2>2
<1> QED BY <1>6, <1>8, <1>11, <1>14 DEF Tokens

LEMMA StrtokReads ==
  ASSUME NEW s, NEW p, NEW ts, Reading(s, p, ts), p # 0
  PROVE  /\ TokenStart(s, p) = {} => Reading(s, 0, ts)
         /\ \A b \in TokenStart(s, p) :
              Reading(s, Saved(s, TokenEnd(s, b)), Append(ts, SubSeq(s, b, TokenEnd(s, b) - 1)))
<1>1. s \in Seq(TokenChar) /\ AtHead(s, p) /\ Tokens(s, ts, p)
  BY DEF Reading
<1>2. ASSUME TokenStart(s, p) = {} PROVE Reading(s, 0, ts)
  <2>1. Before(s, p) = Before(s, Len(s) + 2)
    BY <1>1, <1>2, NoMoreFields, StartsFinite
  <2> QED BY <1>1, <2>1 DEF Reading, Tokens
<1>3. ASSUME NEW b \in TokenStart(s, p)
      PROVE  Reading(s, Saved(s, TokenEnd(s, b)), Append(ts, SubSeq(s, b, TokenEnd(s, b) - 1)))
  <2>1. PICK e : e = TokenEnd(s, b)
    OBVIOUS
  <2>2. PICK n \in Nat : n = Len(s)
    BY <1>1, LenProperties
  <2>3. b \in 1 .. n
    BY <1>1, <1>3, <2>2, NextField DEF Starts
  <2>4. e \in b .. n + 1
    BY <1>1, <2>1, <2>2, <2>3, EndOfToken
  <2>5. CASE e <= n
    <3>1. Before(s, e + 1) = Before(s, p) \union {b} /\ AtHead(s, e + 1)
      BY <1>1, <1>3, <2>1, <2>2, <2>5, NextField
    <3>2. Tokens(s, Append(ts, SubSeq(s, b, e - 1)), e + 1)
      BY <1>1, <1>3, <2>1, <3>1, TokenAdded
    <3>3. Saved(s, e) = e + 1 /\ e + 1 # 0
      BY <2>2, <2>3, <2>4, <2>5 DEF Saved
    <3> QED BY <1>1, <2>1, <3>1, <3>2, <3>3 DEF Reading
  <2>6. CASE ~ (e <= n)
    <3>1. Before(s, Len(s) + 2) = Before(s, p) \union {b}
      BY <1>1, <1>3, <2>1, <2>2, <2>3, <2>4, <2>6, NextField, StartsFinite
    <3>2. Tokens(s, Append(ts, SubSeq(s, b, e - 1)), Len(s) + 2)
      BY <1>1, <1>3, <2>1, <3>1, TokenAdded
    <3>3. Saved(s, e) = 0
      BY <2>2, <2>6 DEF Saved
    <3> QED BY <1>1, <2>1, <3>2, <3>3 DEF Reading
  <2> QED BY <2>5, <2>6
<1> QED BY <1>2, <1>3

(* A call of strtok is a string, where it goes on and what it returned.    *)
StringsInv ==
  /\ NumbersReadBack /\ CopiesAreExact
  /\ str.of = "tokens" =>
       \E s, p, ts : /\ str = [of |-> "tokens", in |-> s, saved |-> p, tokens |-> ts]
                     /\ Reading(s, p, ts)

LEMMA NumbersRead ==
  ASSUME NEW n \in -(MaxInt + 1) .. MaxInt, n # -(MaxInt + 1)
  PROVE  atoi(itoa(n)) = n
<1>1. MaxInt \in Nat
  BY CStringAssumption
<1>2. CASE n >= 0
  <2>1. n \in 0 .. MaxInt
    BY <1>1, <1>2
  <2> QED BY <2>1, Written, ReadBack
<1>3. CASE n < 0
  <2>1. PICK m : m = -n
    OBVIOUS
  <2>2. m \in 0 .. MaxInt /\ m > 0 /\ n = -m
    BY <1>1, <1>3, <2>1
  <2>3. itoa(m) \in Seq(Digit) /\ Len(itoa(m)) > 0 /\ ValueOf(itoa(m)) = m
        /\ itoa(-m) = <<Minus>> \o itoa(m)
    BY <2>2, Written
  <2>4. atoi(<<Minus>> \o itoa(m)) = -m
    BY <2>3, ReadBack
  <2> QED BY <2>2, <2>3, <2>4
<1> QED BY <1>2, <1>3

LEMMA Texts ==
  ASSUME NEW C, NEW n \in Nat, NEW s \in Strings(C, n)
  PROVE  s \in Seq(C) /\ Len(s) <= n
<1>1. PICK k \in 0 .. n : s \in [1 .. k -> C]
  BY DEF Strings
<1>2. \A S : \A m \in Nat : \A v \in [1 .. m -> S] : v \in Seq(S) /\ Len(v) = m
  OBVIOUS
<1>3. s \in Seq(C) /\ Len(s) = k
  BY <1>1, <1>2
<1> QED BY <1>1, <1>3

LEMMA StringsStart == StrInit => StringsInv
<1> SUFFICES ASSUME StrInit PROVE StringsInv
  OBVIOUS
<1>1. MaxInt \in Nat /\ MaxStr \in Nat /\ Quad \subseteq 0 .. MaxInt /\ StrChar \subseteq Digit
  BY CStringAssumption DEF Digit
<1>2. ASSUME NEW n \in -(MaxInt + 1) .. MaxInt, str = [of |-> "number", n |-> n]
      PROVE  StringsInv
  <2>1. str.of = "number" /\ str.n = n
    BY <1>2
  <2> QED BY <2>1, NumbersRead DEF StringsInv, NumbersReadBack, CopiesAreExact
<1>3. ASSUME NEW q \in [1 .. 4 -> Quad], str = [of |-> "address", q |-> q]
      PROVE  StringsInv
  <2>1. str.of = "address" /\ str.q = q
    BY <1>3
  <2>2. q \in [1 .. 4 -> 0 .. MaxInt]
    BY <1>1
  <2>3. sscanf(Dotted(q)) = q
    BY <2>2, AddressRead
  <2> QED BY <2>1, <2>3 DEF StringsInv, NumbersReadBack, CopiesAreExact
<1>4. ASSUME NEW s \in Strings(StrChar, MaxStr), NEW t \in Strings(StrChar, MaxStr),
             str = [of |-> "pair", s |-> s, t |-> t]
      PROVE  StringsInv
  <2>1. str.of = "pair" /\ str.s = s /\ str.t = t
    BY <1>4
  <2>2. s \in Seq(StrChar) /\ t \in Seq(StrChar) /\ Len(s) <= MaxStr
    BY <1>1, Texts
  <2>3. s \in Seq(Digit) /\ t \in Seq(Digit)
    BY <1>1, <2>2
  <2>4. /\ strcmp(s, t) = 0 <=> s = t
        /\ strcmp(s, t) < 0 <=> strcmp(t, s) > 0
        /\ strcmp(DigitsOf(strncpy(s, MaxStr + 1)), s) = 0
    BY <2>2, <2>3, TextsCompare
  <2> QED BY <2>1, <2>4 DEF StringsInv, NumbersReadBack, CopiesAreExact
<1>5. ASSUME NEW d \in 1 .. Size, NEW s \in 1 .. Size,
             NEW n \in 0 .. Size - (IF d > s THEN d ELSE s) + 1,
             str = [of |-> "copy", d |-> d, s |-> s, n |-> n]
      PROVE  StringsInv
  <2>1. str.of = "copy" /\ str.d = d /\ str.s = s /\ str.n = n
    BY <1>5
  <2> DEFINE old == [i \in 1 .. Size |-> i]
             new == memmove(old, d, s, n)
  <2>2. ASSUME NEW i \in 1 .. Size
        PROVE  new[i] = IF i \in d .. d + n - 1 THEN old[i - d + s] ELSE old[i]
    <3>1. new[i] = IF i \in d .. d + n - 1 THEN i - d + s ELSE i
      BY CopyIsExact
    <3>2. Size \in Nat /\ old[i] = i
      BY CStringAssumption
    <3>3. i \in d .. d + n - 1 => i - d + s \in 1 .. Size
      BY <3>2
    <3>4. i \in d .. d + n - 1 => old[i - d + s] = i - d + s
      BY <3>3
    <3> HIDE DEF new, old
    <3> QED BY <3>1, <3>2, <3>4
  <2>3. CopiesAreExact
    BY <2>1, <2>2, Zenon DEF CopiesAreExact
  <2> QED BY <2>1, <2>3 DEF StringsInv, NumbersReadBack
<1>6. ASSUME NEW s \in Strings(StrChar \union {Dot}, MaxStr),
             str = [of |-> "tokens", in |-> s, saved |-> 1, tokens |-> << >>]
      PROVE  StringsInv
  <2>1. str.of = "tokens"
    BY <1>6
  <2>2. s \in Seq(TokenChar)
    BY <1>1, Texts DEF TokenChar
  <2>3. Before(s, 1) = {}
    BY <2>2, StartsFinite DEF Before
  <2>4. << >> \in Seq(Seq(TokenChar)) /\ Len(<< >>) = 0
    OBVIOUS
  <2>5. Tokens(s, << >>, 1)
    BY <2>3, <2>4, FS_EmptySet DEF Tokens
  <2>6. AtHead(s, 1)
    <3>1. Len(s) \in Nat
      BY <2>2, LenProperties
    <3> QED BY <3>1 DEF AtHead
  <2>7. Reading(s, 1, << >>)
    BY <2>2, <2>5, <2>6 DEF Reading
  <2> QED BY <1>6, <2>1, <2>7 DEF StringsInv, NumbersReadBack, CopiesAreExact
<1> QED BY <1>2, <1>3, <1>4, <1>5, <1>6, Zenon DEF StrInit

LEMMA StringsStep == StringsInv /\ (StrNext \/ UNCHANGED str) => StringsInv'
<1>1. ASSUME StringsInv, StrNext PROVE StringsInv'
  <2>1. str.of = "tokens" /\ str.saved # 0
    BY <1>1 DEF StrNext, Strtok
  <2>2. PICK s, p, ts : /\ str = [of |-> "tokens", in |-> s, saved |-> p, tokens |-> ts]
                        /\ Reading(s, p, ts)
    BY <1>1, <2>1 DEF StringsInv
  <2>3. str.in = s /\ str.saved = p /\ str.tokens = ts /\ p # 0
    BY <2>1, <2>2
  <2>4. \E q, us : /\ str' = [of |-> "tokens", in |-> s, saved |-> q, tokens |-> us]
                   /\ Reading(s, q, us)
    <3>1. CASE /\ TokenStart(str.in, str.saved) = {}
               /\ str' = [str EXCEPT !.saved = 0]
      <4>1. str' = [of |-> "tokens", in |-> s, saved |-> 0, tokens |-> ts]
        BY <2>2, <3>1
      <4>2. Reading(s, 0, ts)
        BY <2>2, <2>3, <3>1, StrtokReads
      <4> QED BY <4>1, <4>2
    <3>2. ASSUME NEW b \in TokenStart(s, p),
                 str' = [str EXCEPT !.saved = Saved(s, TokenEnd(s, b)),
                                    !.tokens = Append(@, SubSeq(s, b, TokenEnd(s, b) - 1))]
          PROVE  \E q, us : /\ str' = [of |-> "tokens", in |-> s, saved |-> q, tokens |-> us]
                            /\ Reading(s, q, us)
      <4>1. PICK q, us : /\ q = Saved(s, TokenEnd(s, b))
                         /\ us = Append(ts, SubSeq(s, b, TokenEnd(s, b) - 1))
        OBVIOUS
      <4>2. Reading(s, q, us)
        BY <2>2, <2>3, <4>1, StrtokReads
      <4>3. str' = [[str EXCEPT !.saved = q] EXCEPT !.tokens = us]
        BY <2>3, <3>2, <4>1
      <4>4. str' = [of |-> "tokens", in |-> s, saved |-> q, tokens |-> us]
        BY <2>2, <4>3
      <4> QED BY <4>2, <4>4
    <3> QED BY <1>1, <2>3, <3>1, <3>2 DEF StrNext, Strtok
  <2>5. (str.of)' = "tokens"
    BY <2>4
  <2> QED BY <2>4, <2>5 DEF StringsInv, NumbersReadBack, CopiesAreExact
<1>2. ASSUME StringsInv, UNCHANGED str PROVE StringsInv'
  BY <1>2 DEF StringsInv, NumbersReadBack, CopiesAreExact
<1> QED BY <1>1, <1>2

LEMMA StringsEnd == StringsInv => NumbersReadBack /\ CopiesAreExact /\ TokensAreTheFields
<1> SUFFICES ASSUME StringsInv PROVE TokensAreTheFields
  BY DEF StringsInv
<1> SUFFICES ASSUME str.of = "tokens", str.saved = 0 
             PROVE  /\ Len(str.tokens) = Cardinality(Starts(str.in))
                    /\ \A i \in Starts(str.in) :
                         IsFieldAt(str.tokens[Cardinality({j \in Starts(str.in) : j <= i})], str.in, i)
  BY DEF TokensAreTheFields
<1>1. PICK s, p, ts : /\ str = [of |-> "tokens", in |-> s, saved |-> p, tokens |-> ts]
                      /\ Reading(s, p, ts)
  BY DEF StringsInv
<1>2. str.in = s /\ str.tokens = ts /\ p = 0
  BY <1>1
<1>3. s \in Seq(TokenChar) /\ Tokens(s, ts, Len(s) + 2)
  BY <1>1, <1>2 DEF Reading
<1>4. Before(s, Len(s) + 2) = Starts(s)
  BY <1>3, StartsFinite
<1>5. /\ Len(ts) = Cardinality(Starts(s))
      /\ \A i \in Starts(s) : IsFieldAt(ts[Rank(s, i)], s, i)
  BY <1>3, <1>4 DEF Tokens
<1> QED BY <1>2, <1>5 DEF Rank

-----------------------------------------------------------------------------
(***************************************************************************)
(* All sessions.                                                           *)
(***************************************************************************)
LEMMA AppsInvSpec ==
  MCSpec => [](ShellInv /\ SnakeInv /\ FilesInv /\ MixerInv /\ StringsInv)
<1>1. MCInit => ShellInv /\ SnakeInv /\ FilesInv /\ MixerInv /\ StringsInv
  <2> SUFFICES ASSUME MCInit
               PROVE  ShellInv /\ SnakeInv /\ FilesInv /\ MixerInv /\ StringsInv
    OBVIOUS
  <2>1. SnakeInv
    <3>1. CASE SnakeInit
      BY <3>1, SnakeInvInit
    <3>2. CASE snake = Unplayed
      <4>1. SnakeOK(Unplayed)
        <5>1. <<0, 0>> \in Board
          BY BoardIs, SnakeAssumption DEF Board
        <5>2. DOMAIN [i \in 1 .. SNAKE_MAX_LEN |-> "unset"] = 1 .. SNAKE_MAX_LEN
          OBVIOUS
        <5> QED BY <5>1, <5>2, StartedIs DEF Unplayed
      <4> QED BY <3>2, <4>1 DEF SnakeInv
    <3> QED BY <3>1, <3>2 DEF MCInit
  <2>2. StringsInv
    <3>1. CASE str = [of |-> "number", n |-> 0]
      <4>1. str.of = "number" /\ str.n = 0
        BY <3>1
      <4>2. MaxInt \in Nat /\ 0 \in -(MaxInt + 1) .. MaxInt /\ 0 # -(MaxInt + 1)
          BY CStringAssumption
      <4>3. atoi(itoa(0)) = 0
        BY <4>2, NumbersRead
      <4> QED BY <4>1, <4>3 DEF StringsInv, NumbersReadBack, CopiesAreExact
    <3> QED BY <3>1, StringsStart DEF MCInit
  <2> QED BY <2>1, <2>2, ShellInvInit, FilesInvInit, MixerInvInit DEF MCInit
<1>2. ShellInv /\ [MCNext]_MCVars => ShellInv'
  BY ShellInvNext DEF MCNext, MCVars, ShellInv
<1>3. SnakeInv /\ [MCNext]_MCVars => SnakeInv'
  BY SnakeInvNext DEF MCNext, MCVars, SnakeInv
<1>4. FilesInv /\ [MCNext]_MCVars => FilesInv'
  BY FilesInvNext DEF MCNext, MCVars, FilesInv
<1>5. MixerInv /\ [MCNext]_MCVars => MixerInv'
  BY MixerInvNext DEF MCNext, MCVars, MixerInv
<1>6. StringsInv /\ [MCNext]_MCVars => StringsInv'
  BY StringsStep DEF MCNext, MCVars
<1> QED BY <1>1, <1>2, <1>3, <1>4, <1>5, <1>6, PTL DEF MCSpec

(* Every part of the desktop keeps to the ranges of its fields; a click in *)
(* the mixer, wherever it is, sets a level a byte can hold.                *)
THEOREM TypesCorrect == MCSpec => []TypesOK
<1>1. WinInv /\ ShellInv /\ SnakeInv /\ FilesInv /\ MixerInv => TypesOK
  <2>1. SnakeInv => SnakeTypeOK
    BY DEF SnakeInv, SnakeOK, SnakeFields, SnakeTypeOK
  <2> QED BY <2>1, WinInvGives, ShellGives, FilesGive, MixerGives DEF TypesOK
<1> QED BY <1>1, WinInvSpec, AppsInvSpec, PTL

(* Whatever Enter runs stands on the screen, and is all that stands behind  *)
(* the prompt until a row has been filled; and the arrow keys show the      *)
(* commands of the ring, however often it has gone round, for any lines and *)
(* rows of any width (shell_input, shell_parse_command, shell.c; putchar,   *)
(* kernel.c).                                                              *)
THEOREM LinesCorrect == MCSpec => []RunsWhatIsShown
BY ShellGives, AppsInvSpec, PTL

(* The snake is a path on the board as long as the game goes on, through   *)
(* growth and turns between two moves (snake_update, snake_key, snake.c).  *)
THEOREM BodyCorrect == MCSpec => []BodyIsAPath
<1>1. SnakeInv => BodyIsAPath
  BY DEF SnakeInv, SnakeOK, IsAPath, Body, BodyIsAPath
<1> QED BY <1>1, AppsInvSpec, PTL

(* Every row of the file manager names a file of its disk that is found    *)
(* under that name, in its row or before (refresh_file_list, fs_read_bin). *)
THEOREM ListCorrect == MCSpec => []ListedFilesOpen
BY FilesGive, AppsInvSpec, PTL

(* Every number but the smallest and every address is read back as it was  *)
(* written, a copy is exact however it overlaps, strings compare as they   *)
(* are, and strtok returns the fields of its string: itoa, atoi, sscanf,   *)
(* memmove, strcmp, strncpy and strtok, for ints of any width and texts of *)
(* any length (string.c, printf.c).                                        *)
THEOREM StringsCorrect == MCSpec => []StringsAgree
BY StringsEnd, AppsInvSpec, PTL DEF StringsAgree
=============================================================================
