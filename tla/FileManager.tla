----------------------------- MODULE FileManager -----------------------------
(***************************************************************************)
(* The file manager's list (apps/system/file_manager.c) over the directory *)
(* of fs/fs.c: which file a double click opens, and in which window.       *)
(*                                                                         *)
(* A name is a sequence of characters; the sizes of its parts are small.   *)
(* Only the low byte of a file's size matters: it lies in memory behind    *)
(* the name of a list entry, and a name without room for its end runs on.  *)
(***************************************************************************)
EXTENDS Naturals, Sequences, FiniteSets, FiniteSetsExt

CONSTANTS
  FileName,     \* the names files are saved under, sequences of characters
  NameSize,     \* name[8] of an entry
  ExtSize,      \* ext[3]; file_info_t has room for NameSize + 1 + ExtSize
  LowByte,      \* low bytes of file sizes, each a character
  Image,        \* the extensions "RAW", "IMG", "GUM"
  RootEntries,  \* entries of the directory sector
  MAX_FILES

ASSUME FileManagerAssumption ==
  /\ {NameSize, ExtSize, RootEntries, MAX_FILES} \subseteq Nat \ {0}
  /\ \A name \in FileName : name \in Seq({name[i] : i \in DOMAIN name})

Period == "."
EndOfName == "0"
NoRow == 0

(* root holds the entries in use, list the rows of file_list, last is      *)
(* fm_last_click_index, soon whether less than half a second went by since *)
(* that click. opened is what the last click opened, and disk, a history   *)
(* variable, whether the list is of this disk, not of one formatted since. *)
VARIABLE files

FilesInit ==
  files = [root |-> <<>>, list |-> <<>>, last |-> NoRow, soon |-> FALSE,
           opened |-> "nothing", disk |-> TRUE]

Cut(s, n) == IF Len(s) > n THEN SubSeq(s, 1, n) ELSE s

(* fs_write_bin's parse: up to the first dot or the size of the name; then *)
(* an extension only if the dot stands there.                              *)
DotIn(s) == Min({i \in DOMAIN s : s[i] = Period} \union {Len(s) + 1})
Stem(s) == Cut(SubSeq(s, 1, DotIn(s) - 1), NameSize)
Suffix(s) ==
  IF DotIn(s) <= NameSize + 1 THEN Cut(SubSeq(s, DotIn(s) + 1, Len(s)), ExtSize) ELSE <<>>

(* The name put together again, in refresh_file_list as in fs_read_bin.    *)
Spelled(e) == IF e.suffix = <<>> THEN e.stem ELSE e.stem \o <<Period>> \o e.suffix

AlwaysDotted(e) == e.stem \o <<Period>> \o e.suffix   \* a slip

(* A row as the rest of the program reads it: the end of a name as long as *)
(* the array is overwritten by the size.                                   *)
Full(name) == Len(name) = NameSize + 1 + ExtSize
Row(e) ==
  IF Full(Spelled(e)) /\ e.low # EndOfName THEN Spelled(e) \o <<e.low>> ELSE Spelled(e)

(* fs_read_bin: the first entry of that name. *)
Find(root, name) == Min({i \in DOMAIN root : Spelled(root[i]) = name} \union {Len(root) + 1})

Save(name, low) ==
  /\ Len(files.root) < RootEntries
  /\ files' = [files EXCEPT !.root = Append(@, [stem |-> Stem(name), suffix |-> Suffix(name),
                                               low |-> low])]

Format(name, low) ==
  files' = [files EXCEPT !.disk = FALSE,
              !.root = <<[stem |-> Stem(name), suffix |-> Suffix(name), low |-> low]>>]

(* show_file_manager_window; the click indices stay.                       *)
Show ==
  files' = [files EXCEPT !.disk = TRUE,
              !.list = [i \in 1 .. Len(Cut(files.root, MAX_FILES)) |-> Row(files.root[i])]]

(* The last ExtSize characters of a name of more than ExtSize + 1.         *)
IsImage(name) ==
  /\ Len(name) > ExtSize + 1
  /\ SubSeq(name, Len(name) - ExtSize + 1, Len(name)) \in Image

(* The image viewer opens, empty, even if there is no such file; the text  *)
(* editor does not.                                                        *)
Opens(name) ==
  CASE IsImage(name) -> "viewer"
    [] ~IsImage(name) /\ Find(files.root, name) <= Len(files.root) -> "editor"
    [] OTHER -> "nothing"

Click(row) ==
  IF files.last = row /\ files.soon
  THEN files' = [files EXCEPT !.last = NoRow, !.opened = Opens(files.list[row])]
  ELSE files' = [files EXCEPT !.last = row, !.soon = TRUE, !.opened = "nothing"]

TimePasses == files.soon /\ files' = [files EXCEPT !.soon = FALSE]

FilesNext ==
  \/ \E name \in FileName, low \in LowByte : Save(name, low)
  \/ \E name \in FileName, low \in LowByte : Format(name, low)
  \/ Show \/ TimePasses
  \/ \E row \in DOMAIN files.list : Click(row)
-----------------------------------------------------------------------------
FilesTypeOK ==
  /\ Len(files.list) <= MAX_FILES
  /\ \A i \in DOMAIN files.root :
       Len(files.root[i].stem) <= NameSize /\ Len(files.root[i].suffix) <= ExtSize

(* Every file the list shows can be opened from it, whatever was saved     *)
(* since the list was made, unless the disk was formatted: the name put    *)
(* together from the directory is found there again, an image's extension  *)
(* at its end.  Names that fill the array of a list entry are left out:    *)
(* their end is overwritten.  (refresh_file_list, fs_read_bin,             *)
(* file_manager_click)                                                     *)
ListedFilesOpen ==
  files.disk =>
    \A row \in DOMAIN files.list :
      LET name == files.list[row]
          i == Find(files.root, name)
      IN Len(name) < NameSize + 1 + ExtSize =>
           /\ i \in 1 .. row
           /\ IsImage(name) =>
                Len(files.root[i].suffix) < ExtSize \/ files.root[i].suffix \in Image
=============================================================================
