------------------------------- MODULE Desktop -------------------------------
(***************************************************************************)
(* The window manager of core/window.c with the two interrupt handlers     *)
(* that drive it, drivers/input/mouse.c and drivers/input/keyboard.c, and  *)
(* the applications' open and close functions.  The handlers run with      *)
(* interrupts off, so an interrupt is one step.                            *)
(*                                                                         *)
(* Where windows and pointer are is left out: a mouse packet may find any  *)
(* set of windows under the pointer, and a drag changes nothing here.      *)
(* Of a slot that is not visible only its z_index is ever read.            *)
(***************************************************************************)
EXTENDS Naturals, Sequences, FiniteSets, FiniteSetsExt, SequencesExt

CONSTANTS
  Slots,      \* the indices of windows[]: MAX_WINDOWS of them
  Block,      \* the addresses kmalloc has for the data of a window
  ZLimit,     \* z_index is a uint8_t: 256
  MaxZ,       \* bound: no window is put in front of one with this z_index
  MaxId       \* bound: windows created

ASSUME DesktopAssumption ==
  /\ Slots \subseteq Nat /\ IsFiniteSet(Slots) /\ Slots # {}
  /\ ZLimit \in Nat \ {0} /\ MaxZ \in Nat /\ MaxZ < ZLimit /\ MaxId \in Nat
  /\ 0 \notin Block

(* What the manager is told of a window by the set_* functions: whether it *)
(* has an on_key, closes itself on 'q', has data that its on_close frees,  *)
(* and opens another window on a double click.  Plain windows are those of *)
(* the shell's "pencere" and of the recycle bin; the viewer is the text    *)
(* editor or the image viewer.                                              *)
App == {"plain", "snake", "monitor", "files", "viewer"}
TakesKeys == {"snake", "monitor"}
QuitsOnQ == {"monitor"}
HasData == {"snake", "viewer"}

NoId == 0       \* the dragging_window_id -1
NoSlot == Max(Slots) + 1
NoData == 0

VARIABLES
  win,        \* windows[]: id, z_index, application and data while visible
  next_id,    \* next_window_id
  data,       \* the blocks that windows' data have taken from the heap
  left,       \* mouse_left, and prev_mouse_left once a packet is handled
  dragging,   \* dragging_window_id
  halted,     \* an interrupt handler never returned
  older,      \* history: pairs of open windows, the second of which was
              \* raised or created after the first was for the last time
  grabbed,    \* history: the slot under the pointer when the button went
              \* down, until that window closes
  lost        \* history: blocks whose window could not be created

vars == <<win, next_id, data, left, dragging, halted, older, grabbed, lost>>

Hidden(z) == [visible |-> FALSE, z |-> z]
Visible(w) == {i \in Slots : w[i].visible}

TypeOK ==
  /\ \A i \in Slots :
       /\ win[i].visible \in BOOLEAN
       /\ win[i].z \in 0 .. ZLimit - 1
       /\ win[i].visible =>
            /\ win[i].id \in 1 .. MaxId
            /\ win[i].app \in App
            /\ win[i].data \in Block \union {NoData}
  /\ next_id \in 1 .. MaxId + 1
  /\ data \subseteq Block
  /\ left \in BOOLEAN
  /\ dragging \in 0 .. MaxId
  /\ halted \in BOOLEAN
  /\ lost \subseteq data

(* init_window_manager *)
Init ==
  /\ win = [i \in Slots |-> Hidden(0)]
  /\ next_id = 1
  /\ data = {}
  /\ left = FALSE
  /\ dragging = NoId
  /\ halted = FALSE
  /\ older = {}
  /\ grabbed = NoSlot
  /\ lost = {}

-----------------------------------------------------------------------------
(* The functions of window.c, on d = [win, next, data, older, grabbed,     *)
(* lost].                                                                  *)

(* get_top_z over the windows S, and the z_index that is put before them.  *)
TopZ(w, S) == Max({0} \union {w[i].z : i \in S})
SameAsTop(w, S) == TopZ(w, S)
InFront(w, S) == (TopZ(w, S) + 1) % ZLimit

(* The first slot that is not visible. *)
FullTable(w) == Visible(w) = Slots
FreeSlot(w) == Min(Slots \ Visible(w))

NewId(d) == d.next

(* Window id is closed, or comes to be after all others, those in ids.      *)
Without(pairs, id) == {p \in pairs : p[1] # id /\ p[2] # id}
Youngest(pairs, ids, id) == Without(pairs, id) \union {<<k, id>> : k \in ids \ {id}}
IdsOf(w) == {w[i].id : i \in Visible(w)}

(* An application's open function, with block a for its data if it has     *)
(* any, and create_window in it.  The slot is visible when get_top_z runs, *)
(* so its old z_index counts.  Without a slot the block stays allocated.   *)
Opened(d, app, a) ==
  LET mine == IF app \in HasData THEN {a} ELSE {}
      i == FreeSlot(d.win)
  IN  IF FullTable(d.win)
        THEN [d EXCEPT !.data = @ \union mine, !.lost = @ \union mine]
        ELSE [d EXCEPT
                !.win[i] = [visible |-> TRUE, id |-> NewId(d), app |-> app,
                            z |-> InFront(d.win, Visible(d.win) \union {i}),
                            data |-> IF app \in HasData THEN a ELSE NoData],
                !.next = @ + 1,
                !.data = @ \union mine,
                !.older = Youngest(@, IdsOf(d.win), NewId(d))]

(* focus_window *)
Raised(d, i) ==
  [d EXCEPT !.win[i].z = InFront(d.win, Visible(d.win)),
            !.older = Youngest(@, IdsOf(d.win), d.win[i].id)]

(* close_window: on_close frees the data, then the slot is free. *)
KeptData(w, i) == {}
FreedData(w, i) == {w[i].data}

Closed(d, i) ==
  [d EXCEPT !.win[i] = Hidden(d.win[i].z),
            !.data = @ \ FreedData(d.win, i),
            !.older = Without(@, d.win[i].id),
            !.grabbed = IF @ = i THEN NoSlot ELSE @]

(* The loops of get_window_at and on_window_key_event: the first of those  *)
(* with the highest z_index.                                               *)
Frontmost(w, S) ==
  CHOOSE i \in S : \A j \in S : w[i].z > w[j].z \/ (w[i].z = w[j].z /\ i <= j)

Now == [win |-> win, next |-> next_id, data |-> data, older |-> older,
        grabbed |-> grabbed, lost |-> lost]

Becomes(d) ==
  /\ win' = d.win
  /\ next_id' = d.next
  /\ data' = d.data
  /\ older' = d.older
  /\ grabbed' = d.grabbed
  /\ lost' = d.lost

(* The bounds: room for n more windows. *)
Room(n) == next_id + n <= MaxId + 1 /\ TopZ(win, Slots) + n <= MaxZ
-----------------------------------------------------------------------------
(* The shell commands that open windows: "pencere" opens two, "yilan" the  *)
(* snake, "monitor" (and likewise "ses_cal") a window that closes on 'q'.  *)
(* Keys reach the shell only if no window in front takes them.             *)
KeyTaker(w) ==
  IF Visible(w) = {} THEN {}
  ELSE {i \in {Frontmost(w, Visible(w))} : w[i].app \in TakesKeys}

ShellCommand ==
  /\ KeyTaker(win) = {}
  /\ \/ Room(2) /\ Becomes(Opened(Opened(Now, "plain", NoData), "plain", NoData))
     \/ \E a \in Block \ data : Room(1) /\ Becomes(Opened(Now, "snake", a))
     \/ Room(1) /\ Becomes(Opened(Now, "monitor", NoData))
  /\ UNCHANGED <<left, dragging, halted>>

(* on_window_key_event of a 'q'.  Other keys change only the game's state. *)
KeyQ ==
  /\ \E i \in KeyTaker(win) : win[i].app \in QuitsOnQ /\ Becomes(Closed(Now, i))
  /\ UNCHANGED <<left, dragging, halted>>

(* on_window_click_event: on the close box, or in the window, where the    *)
(* file manager opens a viewer on the second of two clicks on a file.      *)
OnClick(d, i) ==
  \/ Becomes(Closed(d, i))
  \/ Becomes(d)
  \/ \E a \in Block \ data :
       d.win[i].app = "files" /\ Room(2) /\ Becomes(Opened(d, "viewer", a))

(* mouse_update when the button goes down over the windows S.              *)
PressWindow(S) ==
  /\ ~left /\ left' = TRUE
  /\ Room(1)
  /\ LET i == Frontmost(win, S) IN
       /\ dragging' = win[i].id
       /\ OnClick([Raised(Now, i) EXCEPT !.grabbed = i], i)
  /\ UNCHANGED halted

(* ... and over none: the icons, which open a window on a double click.    *)
PressDesktop ==
  /\ ~left /\ left' = TRUE
  /\ \/ Becomes(Now)
     \/ \E app \in {"files", "plain"} : Room(1) /\ Becomes(Opened(Now, app, NoData))
  /\ UNCHANGED <<dragging, halted>>

(* "while(mouse_left);" after toggle_start_menu, in the handler that would *)
(* have to clear mouse_left.                                               *)
PressStart ==
  /\ ~left /\ left' = TRUE
  /\ halted' = TRUE
  /\ UNCHANGED <<win, next_id, data, dragging, older, grabbed, lost>>

Release ==
  /\ left /\ left' = FALSE
  /\ dragging' = NoId
  /\ grabbed' = NoSlot
  /\ UNCHANGED <<win, next_id, data, halted, older, lost>>

Next ==
  /\ ~halted
  /\ \/ ShellCommand
     \/ KeyQ
     \/ \E S \in SUBSET Visible(win) : S # {} /\ PressWindow(S)
     \/ PressDesktop
     \/ PressStart
     \/ Release

Spec == Init /\ [][Next]_vars
-----------------------------------------------------------------------------
(* "0 en arkada, buyuk olan onde" (window.h): the window with the highest  *)
(* z_index, which gets keys and clicks, is the one that was opened or      *)
(* raised last, and so on down to the first; in spite of old z indices     *)
(* left in slots and of windows closed in between.                         *)
FrontIsLatest ==
  \A i, j \in Visible(win) : i # j =>
    \/ <<win[i].id, win[j].id>> \in older /\ win[i].z < win[j].z
    \/ <<win[j].id, win[i].id>> \in older /\ win[j].z < win[i].z

(* A drag moves only the window that was under the pointer when the button *)
(* went down: if that one is closed, by its own close box or by a key, no  *)
(* later window in its slot takes its place.                               *)
DragsWhatWasPressed ==
  \A i \in Visible(win) : win[i].id = dragging => i = grabbed

(* A window's data is its own and allocated as long as the window is open, *)
(* and is freed with it: nothing is allocated but the data of open windows *)
(* and that of windows that found no slot.                                 *)
DataOwned ==
  /\ \A i, j \in Visible(win) :
       i # j /\ win[i].data # NoData => win[i].data # win[j].data
  /\ data = lost \union {win[i].data : i \in {k \in Visible(win) : win[k].data # NoData}}
  /\ \A i \in Visible(win) : win[i].data \notin lost
=============================================================================
