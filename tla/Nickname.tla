------------------------------- MODULE Nickname -------------------------------
(***************************************************************************)
(* The nickname: its file, written by saveDeviceNameFile() of              *)
(* src/src/models/chat_model.cpp and read when the program starts, and the *)
(* name in use, which goes out with every message (ChatProtocol).          *)
(*                                                                         *)
(* The file system is what POSIX says of it.  Whatever a process has done  *)
(* outlives the process.  A power loss keeps the data of a file as far as  *)
(* it was synced, or any part of the rest, and a rename or not: `disk' are *)
(* the contents that the nickname file may be found with after it.         *)
(***************************************************************************)
EXTENDS ChatProtocol

CONSTANTS
  Texts,       (* bound: what a draft may be when it is saved              *)
  Accounts     (* bound: names of the account                              *)

ASSUME NicknameAssumption == Texts \subseteq Seq(Bytes) /\ Accounts \subseteq Seq(Bytes)

VARIABLES
  account,     (* the name of the account, as far as it is read            *)
  file, disk,  (* the contents of the file, <<>> if there is none          *)
  temp,        (* those of the temporary file, as far as it is written     *)
  synced,      (* it has been synced                                       *)
  step, text,  (* where saveDeviceName() is, and what it saves             *)
  name         (* the name in use                                          *)

fileVars  == <<file, disk, temp, synced>>
saveVars  == <<step, text>>
nickVars  == <<account, fileVars, saveVars, name>>

Prefixes(s) == {SubSeq(s, 1, n) : n \in 0..Len(s)}

(* What saveDeviceName() takes for a name, and validDeviceName().          *)
Blank(s)     == \A i \in DOMAIN s : s[i] = 32
MaySave(s)   == ~Blank(s) /\ Len(s) <= MaxName
ValidName(s) == MaySave(s) /\ IsPrintable(s)

(* What keys make of a text: beginDeviceNameEdit() takes the name as it    *)
(* is, eraseDraftCharacter() bytes from its end, and what is added is      *)
(* printable.  A text area that has the focus leaves only what is.         *)
Edits(s) ==
  {d \in Texts : \E n \in 0..Len(d) :
     /\ n <= Len(s) /\ \A i \in 1..n : d[i] = s[i]
     /\ \A i \in n + 1..Len(d) : d[i] \in 32..126}

(* loadSavedDeviceName(), and currentUserName() for a file that is missing *)
(* or not valid.                                                           *)
Loaded(contents) == IF ValidName(contents) THEN contents ELSE account

NickInit ==
  /\ account \in {SubSeq(a, 1, IF Len(a) < MaxName THEN Len(a) ELSE MaxName) : a \in Accounts}
  /\ file \in Texts \cup {<<>>} /\ disk = {file}
  /\ temp = <<>> /\ synced = FALSE
  /\ step = "none" /\ text = <<>> /\ name = <<>>
-----------------------------------------------------------------------------
(* saveDeviceName().  A system call may fail, and be interrupted by a      *)
(* signal, which only write() is tried again after.                        *)

(* What a save had in hand is gone when it is over; a temporary file that  *)
(* is left behind is never looked at again.                                *)
Over == step' = "none" /\ text' = <<>> /\ temp' = <<>> /\ synced' = FALSE

Step(from, to) == step = from /\ step' = to

(* A draft that is blank or too long is refused, and so is the save if the *)
(* directory or the temporary file cannot be made.  Nobody asks whether it *)
(* is printable.                                                           *)
BeginSave(draft) ==
  /\ step = "none" /\ MaySave(draft)
  /\ step' = "write" /\ text' = draft /\ temp' = <<>> /\ synced' = FALSE
  /\ UNCHANGED <<account, file, disk, name>>

Write ==
  /\ step = "write" /\ temp # text
  /\ temp' \in {p \in Prefixes(text) : Len(p) > Len(temp)}
  /\ UNCHANGED <<account, file, disk, synced, saveVars, name>>

(* fchown() and fchmod(), and fsync() of a file that is written.  Mutant:  *)
(* it is not synced.                                                       *)
SkipSync == Step("write", "close") /\ temp = text /\ UNCHANGED <<synced, text>>

Sync == Step("write", "close") /\ temp = text /\ synced' = TRUE /\ UNCHANGED text

SyncFile == Sync /\ UNCHANGED <<account, file, disk, temp, name>>

CloseFile ==
  /\ Step("close", "rename")
  /\ UNCHANGED <<account, fileVars, text, name>>

Rename ==
  /\ Step("rename", "use")
  /\ file' = temp
  /\ disk' = disk \cup (IF synced THEN {temp} ELSE Prefixes(temp))
  /\ UNCHANGED <<account, temp, synced, text, name>>

(* Until it is renamed any failure discards the temporary file.            *)
SaveFails ==
  /\ step \in {"write", "close", "rename"}
  /\ Over
  /\ UNCHANGED <<account, file, disk, name>>

(* Mutant: the name is used although the file has not got it.              *)
UseAtOnce == step \in {"rename", "use"} /\ name' = text

Use == step = "use" /\ name' = text

UseName == Use /\ Over /\ UNCHANGED <<account, file, disk>>

SaveStep == Write \/ SyncFile \/ CloseFile \/ Rename \/ SaveFails \/ UseName
-----------------------------------------------------------------------------
(* ChatModel's start().                                                    *)
Load == name' = Loaded(file)

(* The program is ended in the middle of whatever it does.                 *)
NickDies == Over /\ name' = <<>> /\ UNCHANGED <<account, file, disk>>

NickPowerFails == Over /\ name' = <<>> /\ file' \in disk /\ disk' = {file'} /\ UNCHANGED account

(* The file system writes back.                                            *)
WriteBack ==
  /\ disk' = {file}
  /\ UNCHANGED <<account, file, temp, synced, saveVars, name>>
-----------------------------------------------------------------------------
NickTypeOK ==
  /\ account \in Seq(Bytes) /\ file \in Seq(Bytes) /\ disk \subseteq Seq(Bytes)
  /\ temp \in Seq(Bytes) /\ synced \in BOOLEAN
  /\ step \in {"none", "write", "close", "rename", "use"} /\ text \in Seq(Bytes)
  /\ name \in Seq(Bytes)

(* Whatever happens while it is written, and at any moment after, the file *)
(* is found with a name that was saved, whole, or with what was there      *)
(* before, and never with the beginning of a name, which would pass for    *)
(* another one (chat_model.cpp:87-166).                                    *)
FileIsWhole == file \in Texts \cup {<<>>} /\ disk \subseteq Texts \cup {<<>>}
=============================================================================
