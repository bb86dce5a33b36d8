---------------------------- MODULE SnapshotFiles ----------------------------
(***************************************************************************)
(* The files behind screenshot_writePending and screenshot_captureLocal    *)
(* (rp/src/screenshot.c): snap_NNNN_<suffix>.png in one folder of the card,*)
(* numbered past what is there.  The number is found by a scan on the      *)
(* first capture after power-on and counted from then on.                  *)
(*                                                                         *)
(* Opening a file truncates it, writing it takes most of a second, and in  *)
(* between the card may fail or the power go.  A card that was missing at  *)
(* power-on is mounted by the file system when a file is next opened.      *)
(***************************************************************************)
EXTENDS Integers

CONSTANTS
  Suffix,        \* resolution names, and "menu"
  MaxIndex,      \* bound: the last number explored
  LateCard       \* may a capture be tried before the card is put in?

ASSUME FilesAssumption ==
  /\ MaxIndex \in Nat \ {0}
  /\ LateCard \in BOOLEAN

Index == 1 .. MaxIndex
Name == Index \X Suffix
Number(name) == name[1]
Content == {"absent", "partial", "whole"}

VARIABLES
  card,            \* what each name holds
  inserted,        \* is the card in its slot?
  nextIndex,       \* the counter, valid if
  nextIndexValid,  \* the scan was done
  file,            \* the name being written, or <<>>
  flashed          \* did the last capture report success (flashLed)?

vars == <<card, inserted, nextIndex, nextIndexValid, file, flashed>>

Idle == file = << >>
Exists(f) == card[f] # "absent"
Found == {Number(f) : f \in {g \in Name : Exists(g)}}

-----------------------------------------------------------------------------
NoIncrement(n) == n                                                \* a mutant
Following(n) == n + 1

(* The readdir loop of find_next_index keeps the largest number it meets;  *)
(* when the folder cannot be opened, the counter starts at 1.  Either way  *)
(* it is not looked for again.                                             *)
Scan ==
  \E maxIdx \in {0} \union Found :
    /\ \A n \in Found : n <= maxIdx
    /\ nextIndex' = Following(maxIdx)

FindNextIndex ==
  /\ nextIndexValid' = TRUE
  /\ \/ nextIndexValid /\ UNCHANGED nextIndex
     \/ ~nextIndexValid /\ inserted /\ Scan
     \/ ~nextIndexValid /\ ~inserted /\ nextIndex' = 1

OpenFails ==
  /\ Idle /\ (inserted \/ LateCard)
  /\ FindNextIndex
  /\ flashed' = FALSE
  /\ UNCHANGED <<card, inserted, file>>

(* FA_CREATE_ALWAYS: an existing file is emptied.                          *)
Open(suffix) ==
  /\ Idle /\ inserted
  /\ FindNextIndex
  /\ nextIndex' <= MaxIndex
  /\ file' = <<nextIndex', suffix>>
  /\ card' = [card EXCEPT ![file'] = "partial"]
  /\ flashed' = FALSE
  /\ UNCHANGED inserted

AdvanceTwice == nextIndex' = nextIndex + 2                         \* a mutant
StayPut == UNCHANGED nextIndex                                     \* a mutant
Advance == nextIndex' = nextIndex + 1

(* The PNG was written and f_close flushed it.                             *)
Written ==
  /\ ~Idle
  /\ card' = [card EXCEPT ![file] = "whole"]
  /\ Advance
  /\ file' = << >>
  /\ flashed' = TRUE
  /\ UNCHANGED <<inserted, nextIndexValid>>

(* A write failed, and the next capture takes the same number.             *)
WriteFails ==
  /\ ~Idle
  /\ file' = << >>
  /\ flashed' = FALSE
  /\ UNCHANGED <<card, inserted, nextIndex, nextIndexValid>>

(* f_close, which writes the size of the file, fails: nobody looks.        *)
CloseFails ==
  /\ ~Idle
  /\ Advance
  /\ file' = << >>
  /\ flashed' = TRUE
  /\ UNCHANGED <<card, inserted, nextIndexValid>>

(* Someone puts the card in.                                               *)
Insert ==
  /\ ~inserted
  /\ inserted' = TRUE
  /\ UNCHANGED <<card, nextIndex, nextIndexValid, file, flashed>>

(* The directory entry of an open file may or may not be on the card.      *)
PowerCycle ==
  /\ \E left \in {"absent", "partial"} :
       card' = IF Idle THEN card ELSE [card EXCEPT ![file] = left]
  /\ nextIndexValid' = FALSE
  /\ nextIndex' = 0
  /\ file' = << >>
  /\ flashed' = FALSE
  /\ UNCHANGED inserted

-----------------------------------------------------------------------------
(* A card with any history.                                                *)
Init ==
  /\ card \in [Name -> Content]
  /\ inserted \in BOOLEAN
  /\ nextIndex = 0
  /\ nextIndexValid = FALSE
  /\ file = << >>
  /\ flashed = FALSE

Next ==
  \/ OpenFails
  \/ \E suffix \in Suffix : Open(suffix)
  \/ Written \/ WriteFails \/ CloseFails
  \/ Insert
  \/ PowerCycle

Spec == Init /\ [][Next]_vars

-----------------------------------------------------------------------------
CurrentFile ==
  ~Idle => nextIndexValid /\ file \in Name /\ Number(file) = nextIndex

(* The counter stays in the range of the file names, one past it at most,  *)
(* and a file being written is the one the counter names.                  *)
TypeOK ==
  /\ card \in [Name -> Content]
  /\ inserted \in BOOLEAN
  /\ nextIndex \in 0 .. MaxIndex + 1
  /\ nextIndexValid \in BOOLEAN
  /\ CurrentFile
  /\ flashed \in BOOLEAN

(* A screenshot that is on the card is never truncated, rewritten or lost  *)
(* by a later capture, a failed one or a power cut (screenshot.c:263-264). *)
NeverOverwrites ==
  [][\A f \in Name : card[f] = "whole" => card'[f] = "whole"]_vars

(* The numbers tell the order of the captures, across failures and power   *)
(* cycles: a new screenshot is numbered past every other one.              *)
ContinuesPast ==
  [][\A f \in Name : card'[f] = "whole" /\ card[f] # "whole" =>
       \A g \in Name : card[g] = "whole" => Number(g) < Number(f)]_vars
=============================================================================
