------------------------------ MODULE MCDesktop ------------------------------
(***************************************************************************)
(* The desktop for TLC.  The windows and their applications share no state  *)
(* but the windows' table: a session is one of the window manager, or of    *)
(* one application or one input, and what it does not use rests.           *)
(***************************************************************************)
EXTENDS Desktop, MousePackets, ShellLine, Snake, CString, FileManager, Mixer, TLC

VARIABLE session

MCVars == <<session, vars, mouse, shell, snake, str, files, mixer>>

(* "a.r", an image; "abc.r", cut to "ab.r", which fills a row; and "b."     *)
Names == {<<"a", ".", "r">>, <<"a", "b", "c", ".", "r">>, <<"b", ".">>}
Images == {<<"r">>}
Places == {<<40, 16>>, <<0, 0>>}

Unplayed == Started([i \in 1 .. SNAKE_MAX_LEN |-> "unset"], <<0, 0>>)

MCInit ==
  /\ session \in {"windows", "mouse", "shell", "snake", "strings", "files", "mixer"}
  /\ Init /\ MouseInit /\ ShellInit /\ FilesInit /\ MixerInit
  /\ IF session = "snake" THEN SnakeInit ELSE snake = Unplayed
  /\ IF session = "strings" THEN StrInit ELSE str = [of |-> "number", n |-> 0]

MCNext ==
  /\ UNCHANGED session
  /\ \/ session = "windows" /\ Next /\ UNCHANGED <<mouse, shell, snake, str, files, mixer>>
     \/ session = "mouse" /\ MouseNext /\ UNCHANGED <<vars, shell, snake, str, files, mixer>>
     \/ session = "shell" /\ ShellNext /\ UNCHANGED <<vars, mouse, snake, str, files, mixer>>
     \/ session = "snake" /\ SnakeNext /\ UNCHANGED <<vars, mouse, shell, str, files, mixer>>
     \/ session = "strings" /\ StrNext /\ UNCHANGED <<vars, mouse, shell, snake, files, mixer>>
     \/ session = "files" /\ FilesNext /\ UNCHANGED <<vars, mouse, shell, snake, str, mixer>>
     \/ session = "mixer" /\ MixerNext /\ UNCHANGED <<vars, mouse, shell, snake, str, files>>

MCSpec == MCInit /\ [][MCNext]_MCVars

BlockSymmetry == Permutations(Block)
-----------------------------------------------------------------------------
(* Every part of the desktop keeps to the ranges of its fields.            *)
TypesOK == TypeOK /\ ShellTypeOK /\ SnakeTypeOK /\ FilesTypeOK /\ MixerTypeOK

(* A drag moves the window that was pressed and no successor of it, and     *)
(* closing, by whichever way, frees a window's data once (window.c).        *)
WindowsKeepTheirOwn == DragsWhatWasPressed /\ DataOwned

(* Numbers, addresses, copies and fields survive the kernel's string        *)
(* functions (string.c, printf.c).                                          *)
StringsAgree == NumbersReadBack /\ CopiesAreExact /\ TokensAreTheFields
=============================================================================
