--------------------------- MODULE PngFilesProofs ---------------------------
(***************************************************************************)
(* Proofs about SnapshotFiles, for any suffixes and any number of files,   *)
(* when the card is in place before the first capture; and about PngFiles, *)
(* for pictures of any size and any sizes of the buffer and the blocks:    *)
(* whatever is written into a file, and wherever that fails, the folder    *)
(* behaves as SnapshotFiles says, a capture reported as done is a PNG of   *)
(* the screen, and the preview shows the screen captured or nothing.       *)
(***************************************************************************)
EXTENDS PngFiles, SequenceTheorems, WellFoundedInduction, TLAPS

(* What the scan found stays true as long as the counter counts: every     *)
(* screenshot is numbered below it, and the file being written is none.    *)
PastAll(n) ==
  /\ n \in 1 .. MaxIndex + 1
  /\ \A f \in Name : card[f] = "whole" => Number(f) < n

CounterInv == nextIndexValid => PastAll(nextIndex)
WritingInv == ~Idle => card[file] = "partial"

(* The scan sees the card.                                                 *)
CardInv == nextIndexValid => inserted

FilesInv == TypeOK /\ CounterInv /\ WritingInv /\ CardInv

-----------------------------------------------------------------------------
LEMMA NameIndex ==
  ASSUME NEW f \in Name
  PROVE  Number(f) \in 1 .. MaxIndex
<1>1. PICK n \in Index, s \in Suffix : f = <<n, s>>
  BY DEF Name
<1> QED
  BY <1>1 DEF Index, Number

LEMMA NameParts ==
  ASSUME NEW n \in Index, NEW s \in Suffix
  PROVE  <<n, s>> \in Name /\ Number(<<n, s>>) = n
BY DEF Name, Number

(* The counter after the scan is a number past every screenshot.           *)
LEMMA ScanPast ==
  ASSUME FilesInv, FindNextIndex, inserted
  PROVE  PastAll(nextIndex')
<1>1. CASE nextIndexValid
  BY <1>1 DEF FilesInv, CounterInv, FindNextIndex, PastAll
<1>2. CASE ~nextIndexValid
  <2>1. Scan
    BY <1>2 DEF FindNextIndex
  <2>2. PICK maxIdx \in {0} \union Found :
          (\A n \in Found : n <= maxIdx) /\ nextIndex' = maxIdx + 1
    BY <2>1 DEF Scan, Following
  <2>3. Found \subseteq 1 .. MaxIndex
    BY NameIndex DEF Found
  <2>4. maxIdx \in 0 .. MaxIndex
    BY <2>2, <2>3, FilesAssumption
  <2>5. ASSUME NEW f \in Name, card[f] = "whole"
        PROVE  Number(f) < nextIndex'
    <3>1. Number(f) \in Found
      BY <2>5 DEF Found, Exists
    <3>2. Number(f) <= maxIdx
      BY <3>1, <2>2
    <3>3. Number(f) \in 1 .. MaxIndex
      BY NameIndex
    <3> QED
      BY <3>2, <3>3, <2>2, <2>4, FilesAssumption
  <2> QED
    BY <2>2, <2>4, <2>5, FilesAssumption DEF PastAll
<1> QED
  BY <1>1, <1>2

LEMMA FilesInit == Init => FilesInv
<1> SUFFICES ASSUME Init PROVE FilesInv
  OBVIOUS
<1>1. nextIndex \in 0 .. MaxIndex + 1 /\ Idle
  BY FilesAssumption DEF Init, Idle
<1>2. TypeOK
  BY <1>1 DEF Init, TypeOK, CurrentFile
<1> QED
  BY <1>1, <1>2 DEF Init, FilesInv, CounterInv, WritingInv, CardInv, Idle

(* The name that is opened exists, and is no screenshot.                   *)
LEMMA OpenStep ==
  ASSUME FilesInv, NEW suffix \in Suffix, Open(suffix)
  PROVE  /\ FilesInv'
         /\ file' \in Name /\ card[file'] # "whole"
         /\ card' = [card EXCEPT ![file'] = "partial"]
<1>1. PastAll(nextIndex')
  BY ScanPast DEF Open
<1>2. /\ nextIndexValid' = TRUE /\ inserted' = inserted /\ inserted
      /\ nextIndex' \in Index
      /\ file' = <<nextIndex', suffix>>
      /\ card' = [card EXCEPT ![file'] = "partial"]
      /\ flashed' = FALSE
  BY <1>1, FilesAssumption DEF Open, FindNextIndex, PastAll, Index
<1>3. file' \in Name /\ Number(file') = nextIndex'
  BY <1>2, NameParts
<1>4. card[file'] # "whole"
  BY <1>1, <1>3 , NameIndex, FilesAssumption DEF PastAll
<1>5. card' \in [Name -> Content]
  BY <1>2 DEF FilesInv, TypeOK, Content
<1>6. \A f \in Name : card'[f] = "whole" => card[f] = "whole"
  BY <1>2, <1>3 DEF FilesInv, TypeOK
<1>7. TypeOK'
  <2>1. nextIndex' \in 0 .. MaxIndex + 1
    BY <1>1, FilesAssumption DEF PastAll
  <2>2. CurrentFile'
    BY <1>2, <1>3 DEF CurrentFile
  <2> QED
    BY <1>2, <1>5, <2>1, <2>2 DEF FilesInv, TypeOK
<1>8. CounterInv'
  BY <1>1, <1>2, <1>6 DEF CounterInv, PastAll
<1>9. WritingInv' /\ CardInv'
  BY <1>2, <1>3 DEF FilesInv, TypeOK, WritingInv, CardInv
<1> QED
  BY <1>2, <1>3, <1>4, <1>7, <1>8, <1>9 DEF FilesInv

(* The end of a write, whether it succeeded or not.                        *)
LEMMA EndStep ==
  ASSUME FilesInv, Written \/ WriteFails \/ CloseFails
  PROVE  /\ FilesInv'
         /\ file \in Name /\ nextIndexValid
         /\ card' \in {card, [card EXCEPT ![file] = "whole"]}
<1>1. /\ file \in Name /\ Number(file) = nextIndex /\ nextIndexValid
      /\ PastAll(nextIndex)
  BY DEF FilesInv, TypeOK, CurrentFile, CounterInv, Written, WriteFails, CloseFails
<1>2. nextIndex \in 1 .. MaxIndex
  BY <1>1, NameIndex
<1>3. /\ file' = << >> /\ flashed' \in BOOLEAN
      /\ UNCHANGED <<inserted, nextIndexValid>>
  BY DEF Written, WriteFails, CloseFails
<1>4. CASE Written
  <2>1. nextIndex' = nextIndex + 1 /\ card' = [card EXCEPT ![file] = "whole"]
    BY <1>4 DEF Written, Advance
  <2>0. card' \in [Name -> Content]
    BY <2>1 DEF FilesInv, TypeOK, Content
  <2>2. nextIndex' \in 1 .. MaxIndex + 1
    BY <2>1, <1>2, FilesAssumption
  <2>3. ASSUME NEW f \in Name, card'[f] = "whole" PROVE Number(f) < nextIndex'
    BY <2>1, <2>3, <1>1, <1>2, NameIndex, FilesAssumption DEF PastAll, FilesInv, TypeOK
  <2>4. PastAll(nextIndex)'
    BY <2>2, <2>3 DEF PastAll
  <2>5. TypeOK'
    <3>1. nextIndex' \in 0 .. MaxIndex + 1
      BY <2>2, FilesAssumption
    <3> QED
      BY <2>0, <3>1, <1>3 DEF FilesInv, TypeOK, CurrentFile, Idle
  <2> QED
    BY <2>1, <2>4, <2>5, <1>1, <1>3 DEF FilesInv, CounterInv, WritingInv, CardInv, Idle
<1>5. CASE WriteFails \/ CloseFails
  <2>1. nextIndex' \in {nextIndex, nextIndex + 1} /\ card' = card
    BY <1>5 DEF WriteFails, CloseFails, Advance
  <2>2. nextIndex' \in 1 .. MaxIndex + 1
    BY <2>1, <1>2, FilesAssumption
  <2>3. ASSUME NEW f \in Name, card'[f] = "whole" PROVE Number(f) < nextIndex'
    BY <2>1, <2>3, <1>1, <1>2, NameIndex, FilesAssumption DEF PastAll
  <2>4. PastAll(nextIndex)'
    BY <2>2, <2>3 DEF PastAll
  <2>5. TypeOK'
    <3>1. nextIndex' \in 0 .. MaxIndex + 1
      BY <2>2, FilesAssumption
    <3> QED
      BY <2>1, <3>1, <1>3 DEF FilesInv, TypeOK, CurrentFile, Idle
  <2> QED
    BY <2>1, <2>4, <2>5, <1>1, <1>3 DEF FilesInv, CounterInv, WritingInv, CardInv, Idle
<1> QED
  BY <1>4, <1>5

LEMMA PowerStep ==
  ASSUME FilesInv, PowerCycle
  PROVE  /\ FilesInv'
         /\ \A f \in Name : (card[f] = "whole") <=> (card'[f] = "whole")
<1>1. PICK left \in {"absent", "partial"} :
        card' = IF Idle THEN card ELSE [card EXCEPT ![file] = left]
  BY DEF PowerCycle
<1>2. card' \in [Name -> Content]
  BY <1>1 DEF FilesInv, TypeOK, Content
<1>3. \A f \in Name : (card[f] = "whole") <=> (card'[f] = "whole")
  BY <1>1 DEF FilesInv, TypeOK, CurrentFile, WritingInv
<1>4. nextIndex' = 0 /\ nextIndexValid' = FALSE /\ file' = << >>
      /\ flashed' = FALSE /\ inserted' = inserted
  BY DEF PowerCycle
<1>5. TypeOK'
  <2>1. nextIndex' \in 0 .. MaxIndex + 1
    BY <1>4, FilesAssumption
  <2> QED
    BY <1>2, <1>4, <2>1 DEF FilesInv, TypeOK, CurrentFile, Idle
<1> QED
  BY <1>3, <1>4, <1>5 DEF FilesInv, CounterInv, WritingInv, CardInv, Idle

(* The steps that leave the card alone.                                    *)
LEMMA OtherStep ==
  ASSUME FilesInv, ~LateCard, OpenFails \/ Insert \/ UNCHANGED vars
  PROVE  FilesInv' /\ card' = card
<1>1. CASE OpenFails
  <2>1. /\ PastAll(nextIndex') /\ nextIndexValid' = TRUE /\ inserted
        /\ flashed' = FALSE /\ file = << >>
        /\ UNCHANGED <<card, inserted, file>>
    BY <1>1, ScanPast DEF OpenFails, FindNextIndex, Idle
  <2>2. PastAll(nextIndex)'
    BY <2>1 DEF PastAll
  <2>3. nextIndex' \in 0 .. MaxIndex + 1
    BY <2>1, FilesAssumption DEF PastAll
  <2> QED
    BY <2>1, <2>2, <2>3
       DEF FilesInv, TypeOK, CurrentFile, CounterInv, WritingInv, CardInv, Idle
<1>2. CASE Insert \/ UNCHANGED vars
  <2>1. /\ UNCHANGED <<card, nextIndex, nextIndexValid, file, flashed>>
        /\ inserted' \in {inserted, TRUE}
    BY <1>2 DEF Insert, vars
  <2>2. TypeOK'
    BY <2>1 DEF FilesInv, TypeOK, CurrentFile, Idle
  <2>3. CounterInv'
    BY <2>1 DEF FilesInv, CounterInv, PastAll
  <2> QED
    BY <2>1, <2>2, <2>3 DEF FilesInv, WritingInv, CardInv, Idle
<1> QED
  BY <1>1, <1>2

LEMMA FilesStep == ~LateCard /\ FilesInv /\ [Next]_vars => FilesInv'
BY OpenStep, EndStep, PowerStep, OtherStep DEF Next

LEMMA FilesInvariant ==
  ASSUME ~LateCard PROVE Spec => []FilesInv
<1>1. FilesInv /\ [Next]_vars => FilesInv'
  BY FilesStep
<1> QED
  BY <1>1, FilesInit, PTL DEF Spec

(* Whether or not the card was there for the scan, the counter names the   *)
(* file being written, which is no screenshot yet.                         *)
TypedInv == TypeOK /\ (nextIndexValid => nextIndex # 0) /\ WritingInv

LEMMA FindTyped ==
  ASSUME TypedInv, FindNextIndex
  PROVE  nextIndexValid' = TRUE /\ nextIndex' \in 1 .. MaxIndex + 1
<1>1. CASE nextIndexValid
  BY <1>1, FilesAssumption DEF TypedInv, TypeOK, FindNextIndex
<1>2. CASE ~nextIndexValid /\ Scan
  <2>1. PICK maxIdx \in {0} \union Found : nextIndex' = maxIdx + 1
    BY <1>2 DEF Scan, Following
  <2>2. Found \subseteq 1 .. MaxIndex
    BY NameIndex DEF Found
  <2> QED
    BY <2>1, <2>2, FilesAssumption DEF FindNextIndex
<1>3. CASE ~nextIndexValid /\ nextIndex' = 1
  BY <1>3, FilesAssumption DEF FindNextIndex
<1> QED
  BY <1>1, <1>2, <1>3 DEF FindNextIndex

(* FindTyped gives the counter; the rest follows from the old state.       *)
LEMMA TypedStep == TypedInv /\ [Next]_vars => TypedInv'
<1> SUFFICES ASSUME TypedInv, [Next]_vars
             PROVE  TypedInv'
  OBVIOUS
<1>1. /\ card \in [Name -> Content] /\ inserted \in BOOLEAN
      /\ nextIndex \in 0 .. MaxIndex + 1 /\ nextIndexValid \in BOOLEAN
      /\ CurrentFile /\ flashed \in BOOLEAN
      /\ nextIndexValid => nextIndex # 0
      /\ WritingInv
  BY DEF TypedInv, TypeOK
<1>2. ASSUME NEW suffix \in Suffix, Open(suffix) PROVE TypedInv'
  <2>1. nextIndexValid' = TRUE /\ nextIndex' \in 1 .. MaxIndex + 1
    BY <1>2, FindTyped DEF Open
  <2>2. /\ nextIndex' \in Index /\ file' = <<nextIndex', suffix>>
        /\ card' = [card EXCEPT ![file'] = "partial"]
        /\ flashed' = FALSE /\ inserted' = inserted
    BY <1>2, <2>1, FilesAssumption DEF Open, Index
  <2>3. file' \in Name /\ Number(file') = nextIndex'
    BY <2>2, NameParts
  <2>4. card' \in [Name -> Content] /\ card'[file'] = "partial"
    BY <1>1, <2>2, <2>3 DEF Content
  <2>5. nextIndex' \in 0 .. MaxIndex + 1 /\ nextIndex' # 0
    BY <2>1, FilesAssumption
  <2>6. CurrentFile' /\ WritingInv'
    BY <2>1, <2>3, <2>4 DEF CurrentFile, WritingInv
  <2> QED
    BY <1>1, <2>1, <2>2, <2>4, <2>5, <2>6 DEF TypedInv, TypeOK
<1>3. ASSUME Written \/ WriteFails \/ CloseFails PROVE TypedInv'
  <2>1. file \in Name /\ Number(file) = nextIndex
    BY <1>1, <1>3 DEF CurrentFile, Written, WriteFails, CloseFails
  <2>2. nextIndex \in 1 .. MaxIndex
    BY <2>1, NameIndex
  <2>3. /\ nextIndex' \in {nextIndex, nextIndex + 1} /\ file' = << >>
        /\ flashed' \in BOOLEAN /\ UNCHANGED <<inserted, nextIndexValid>>
        /\ card' \in {card, [card EXCEPT ![file] = "whole"]}
    BY <1>3 DEF Written, WriteFails, CloseFails, Advance
  <2>4. nextIndex' \in 0 .. MaxIndex + 1 /\ nextIndex' # 0
    BY <2>2, <2>3, FilesAssumption
  <2>5. card' \in [Name -> Content]
    BY <1>1, <2>3 DEF Content
  <2>6. CurrentFile' /\ WritingInv'
    BY <2>3 DEF CurrentFile, WritingInv, Idle
  <2> QED
    BY <1>1, <2>3, <2>4, <2>5, <2>6 DEF TypedInv, TypeOK
<1>4. ASSUME PowerCycle PROVE TypedInv'
  <2>1. card' \in [Name -> Content]
    BY <1>1, <1>4 DEF PowerCycle, Content
  <2>2. /\ nextIndex' = 0 /\ nextIndexValid' = FALSE /\ file' = << >>
        /\ flashed' = FALSE /\ inserted' = inserted
    BY <1>4 DEF PowerCycle
  <2>3. nextIndex' \in 0 .. MaxIndex + 1
    BY <2>2, FilesAssumption
  <2> QED
    BY <1>1, <2>1, <2>2, <2>3 DEF TypedInv, TypeOK, CurrentFile, WritingInv, Idle
<1>5. ASSUME OpenFails PROVE TypedInv'
  <2>1. nextIndexValid' = TRUE /\ nextIndex' \in 1 .. MaxIndex + 1
    BY <1>5, FindTyped DEF OpenFails
  <2>2. nextIndex' \in 0 .. MaxIndex + 1 /\ nextIndex' # 0
    BY <2>1, FilesAssumption
  <2>3. file = << >> /\ flashed' = FALSE /\ UNCHANGED <<card, inserted, file>>
    BY <1>5 DEF OpenFails, Idle
  <2> QED
    BY <1>1, <2>1, <2>2, <2>3 DEF TypedInv, TypeOK, CurrentFile, WritingInv, Idle
<1>6. ASSUME Insert \/ UNCHANGED vars PROVE TypedInv'
  <2>1. /\ UNCHANGED <<card, nextIndex, nextIndexValid, file, flashed>>
        /\ inserted' \in BOOLEAN
    BY <1>1, <1>6 DEF Insert, vars
  <2> QED
    BY <1>1, <2>1 DEF TypedInv, TypeOK, CurrentFile, WritingInv, Idle
<1> QED
  BY <1>2, <1>3, <1>4, <1>5, <1>6 DEF Next

LEMMA TypedInvariant == Spec => []TypedInv
<1>1. Init => TypedInv
  BY FilesInit DEF FilesInv, TypedInv, Init
<1> QED
  BY <1>1, TypedStep, PTL DEF Spec

(* The counter stays in the range of the names, and names the file being   *)
(* written (screenshot.c, nextIndex).                                      *)
THEOREM FilesTyped == Spec => []TypeOK
<1>1. TypedInv => TypeOK
  BY DEF TypedInv
<1> QED
  BY <1>1, TypedInvariant, PTL

(* No screenshot is truncated, rewritten or lost by a later capture        *)
(* (screenshot.c, find_next_index and FA_CREATE_ALWAYS), if the card is    *)
(* there when the folder is scanned.                                       *)
THEOREM NothingLost ==
  ASSUME ~LateCard PROVE Spec => NeverOverwrites
<1>0. Spec => []FilesInv
  BY FilesInvariant
<1>1. FilesInv /\ [Next]_vars =>
        [\A f \in Name : card[f] = "whole" => card'[f] = "whole"]_vars
  <2> SUFFICES ASSUME FilesInv, [Next]_vars,
                      NEW f \in Name, card[f] = "whole"
               PROVE  card'[f] = "whole"
    OBVIOUS
  <2>1. card \in [Name -> Content]
    BY DEF FilesInv, TypeOK
  <2>2. CASE \E suffix \in Suffix : Open(suffix)
    BY <2>1, <2>2, OpenStep
  <2>3. CASE Written \/ WriteFails \/ CloseFails
    BY <2>1, <2>3, EndStep
  <2>4. CASE PowerCycle
    BY <2>4, PowerStep
  <2>5. CASE OpenFails \/ Insert \/ UNCHANGED vars
    BY <2>5, OtherStep
  <2> QED
    BY <2>2, <2>3, <2>4, <2>5 DEF Next
<1> QED
  BY <1>0, <1>1, PTL DEF Spec, NeverOverwrites

(* The numbers tell the order of the captures (screenshot.c, nextIndex),   *)
(* across failed captures and power cycles.                                *)
THEOREM NumbersInOrder ==
  ASSUME ~LateCard PROVE Spec => ContinuesPast
<1>0. Spec => []FilesInv
  BY FilesInvariant
<1>1. FilesInv /\ [Next]_vars =>
        [\A f \in Name : card'[f] = "whole" /\ card[f] # "whole" =>
           \A g \in Name : card[g] = "whole" => Number(g) < Number(f)]_vars
  <2> SUFFICES ASSUME FilesInv, [Next]_vars,
                      NEW f \in Name, card'[f] = "whole", card[f] # "whole",
                      NEW g \in Name, card[g] = "whole"
               PROVE  Number(g) < Number(f)
    OBVIOUS
  <2>1. card \in [Name -> Content]
    BY DEF FilesInv, TypeOK
  <2>2. CASE \E suffix \in Suffix : Open(suffix)
    BY <2>1, <2>2, OpenStep
  <2>3. CASE Written \/ WriteFails \/ CloseFails
    <3>1. f = file
      BY <2>1, <2>3, EndStep
    <3>2. Number(f) = nextIndex /\ PastAll(nextIndex)
      <4>1. ~Idle /\ nextIndexValid
        BY <2>3, EndStep DEF Written, WriteFails, CloseFails
      <4> QED
        BY <4>1, <3>1 DEF FilesInv, TypeOK, CurrentFile, CounterInv
    <3> QED
      BY <3>2 DEF PastAll
  <2>4. CASE PowerCycle
    BY <2>4, PowerStep
  <2>5. CASE OpenFails \/ Insert \/ UNCHANGED vars
    BY <2>5, OtherStep
  <2> QED
    BY <2>2, <2>3, <2>4, <2>5 DEF Next
<1> QED
  BY <1>0, <1>1, PTL DEF Spec, ContinuesPast

-----------------------------------------------------------------------------
(* A step of the writer is a step of the folder, or none.                  *)
LEMMA PngStep == [PngNext]_allVars => [Next]_vars
<1> SUFFICES ASSUME [PngNext]_allVars
             PROVE  [Next]_vars
  OBVIOUS
<1>1. CASE \E suffix \in Suffix : OpenPng(suffix)
  BY <1>1 DEF OpenPng, Next
<1>2. CASE PutByte
  BY <1>2 DEF PutByte
<1>3. CASE RowFails
  BY <1>3 DEF RowFails, Next
<1>4. CASE PngEnd
  BY <1>4 DEF PngEnd, Next
<1>5. CASE PngPowerCycle
  BY <1>5 DEF PngPowerCycle, Next
<1>6. CASE (OpenFails \/ Insert) /\ UNCHANGED pngVars
  BY <1>6 DEF Next
<1>7. CASE UNCHANGED allVars
  BY <1>7 DEF allVars
<1> QED
  BY <1>1, <1>2, <1>3, <1>4, <1>5, <1>6, <1>7 DEF PngNext

(* The writer with its buffer, its stored blocks and its failing writes    *)
(* implements the folder: rows and chunks are stutters, the rest is one    *)
(* step of SnapshotFiles.                                                  *)
THEOREM PngImplementsFiles == PngSpec => Spec
<1>1. PngInit => Init
  BY DEF PngInit
<1> QED
  BY <1>1, PngStep, PTL DEF PngSpec, Spec

(* So no screenshot is truncated, rewritten or lost, wherever a write of a *)
(* later one fails (screenshot.c, screenshot_writePending).                *)
THEOREM PngNothingLost ==
  ASSUME ~LateCard PROVE PngSpec => NeverOverwrites
BY PngImplementsFiles, NothingLost, PTL

(* And the numbers tell the order of the captures (screenshot.c,           *)
(* nextIndex).                                                             *)
THEOREM PngNumbersInOrder ==
  ASSUME ~LateCard PROVE PngSpec => ContinuesPast
BY PngImplementsFiles, NumbersInOrder, PTL

-----------------------------------------------------------------------------
(* The arithmetic of stored blocks: N(i) of them hold i bytes, Free(i) more *)
(* fit in the last one, and Left(i) of those will come.                    *)

R == RawLength
N(i) == NumBlocks(i)
Free(i) == N(i) * format.block - i
Left(i) == IF Free(i) <= R - i THEN Free(i) ELSE R - i

LEMMA TwoProducts ==
  ASSUME NEW x \in Int, NEW y \in Int, NEW b \in Nat \ {0}, x <= y
  PROVE  x * b <= y * b
<1>1. (y - x) * b >= 0
  OBVIOUS
<1>2. (y - x) * b = y * b - x * b
  OBVIOUS
<1>3. x * b \in Int /\ y * b \in Int
  OBVIOUS
<1> QED
  BY <1>1, <1>2, <1>3

(* What the provers know of division by a variable is little.              *)
LEMMA Quotient ==
  ASSUME NEW a \in Nat, NEW b \in Nat \ {0}
  PROVE  a \div b \in Nat /\ (a \div b) * b <= a /\ a < (a \div b) * b + b
<1>1. a \div b \in Int
  OBVIOUS
<1>2. (a \div b) * b <= a
  OBVIOUS
<1>3. a < (a \div b) * b + b
  OBVIOUS
<1>4. a \div b >= 0
  <2> SUFFICES ASSUME a \div b <= -1 PROVE FALSE
    BY <1>1
  <2>1. (a \div b) * b <= (-1) * b
    BY <1>1, TwoProducts
  <2> QED
    BY <1>1, <1>3, <2>1
<1> QED
  BY <1>1, <1>2, <1>3, <1>4

LEMMA SameQuotient ==
  ASSUME NEW a \in Nat, NEW b \in Nat \ {0}, NEW q \in Int, q * b <= a, a < q * b + b
  PROVE  a \div b = q
<1> DEFINE d == a \div b
<1>1. d \in Nat /\ d * b <= a /\ a < d * b + b
  BY Quotient
<1> HIDE DEF d
<1>2. ~(d + 1 <= q)
  <2> SUFFICES ASSUME d + 1 <= q PROVE FALSE
    OBVIOUS
  <2>1. (d + 1) * b <= q * b
    BY <1>1, TwoProducts
  <2>2. (d + 1) * b = d * b + b
    BY <1>1
  <2> QED
    BY <1>1, <2>1, <2>2
<1>3. ~(q + 1 <= d)
  <2> SUFFICES ASSUME q + 1 <= d PROVE FALSE
    OBVIOUS
  <2>1. (q + 1) * b <= d * b
    BY <1>1, TwoProducts
  <2>2. (q + 1) * b = q * b + b
    OBVIOUS
  <2> QED
    BY <1>1, <2>1, <2>2
<1>4. d = q
  BY <1>1, <1>2, <1>3
<1> QED
  BY <1>4 DEF d

LEMMA FormatNumbers ==
  ASSUME format \in Format
  PROVE  /\ format.block \in Nat \ {0} /\ format.buffer \in Nat \ {0}
         /\ RowLength \in Nat \ {0} /\ R \in Nat \ {0}
<1>1. /\ format.block \in Nat \ {0} /\ format.buffer \in Nat \ {0}
      /\ format.height \in Nat \ {0} /\ format.width \in Nat
  BY FormatAssumption
<1>2. RowLength \in Nat \ {0}
  BY <1>1 DEF RowLength
<1>3. format.height * RowLength \in Nat \ {0}
  BY <1>1, <1>2
<1> QED
  BY <1>1, <1>2, <1>3 DEF R, RawLength

(* The length of IDAT counts the blocks: one is opened when none is free,  *)
(* and each byte takes one place.                                          *)
LEMMA Blocks ==
  ASSUME format \in Format, NEW i \in Nat
  PROVE  /\ N(i) \in Nat /\ Free(i) \in 0 .. format.block - 1
         /\ N(0) = 0 /\ Free(0) = 0
         /\ Free(i) = 0 => N(i + 1) = N(i) + 1 /\ Free(i + 1) = format.block - 1
         /\ Free(i) # 0 => N(i + 1) = N(i) /\ Free(i + 1) = Free(i) - 1
<1>1. PICK b \in Nat \ {0} : b = format.block
  BY FormatNumbers
<1>2. \A j \in Nat : N(j) = (j + b - 1) \div b /\ Free(j) = N(j) * b - j
  BY <1>1 DEF N, NumBlocks, Free
<1>3. PICK q \in Nat : q = N(i)
  BY <1>1, <1>2, Quotient
<1>4. q * b <= i + b - 1 /\ i + b - 1 < q * b + b
  <2>1. i + b - 1 \in Nat
    BY <1>1
  <2> QED
    BY <1>1, <1>2, <1>3, <2>1, Quotient
<1>5. PICK p \in Nat : p = q * b
  BY <1>1, <1>3
<1>6. Free(i) = p - i /\ p <= i + b - 1 /\ i + b - 1 < p + b
  BY <1>2, <1>3, <1>4, <1>5
<1>7. Free(i) \in 0 .. b - 1
  BY <1>1, <1>6
<1>8. N(0) = 0 /\ Free(0) = 0
  <2>1. (0 + b - 1) \div b = 0
    <3>1. 0 * b <= b - 1 /\ b - 1 < 0 * b + b /\ b - 1 \in Nat
      BY <1>1
    <3>2. (b - 1) \div b = 0
      BY <1>1, <3>1, SameQuotient
    <3>3. 0 + b - 1 = b - 1
      BY <1>1
    <3> QED
      BY <3>2, <3>3
  <2> QED
    BY <1>1, <1>2, <2>1
<1>9. CASE Free(i) = 0
  <2>1. (q + 1) * b = p + b
    BY <1>1, <1>3, <1>5
  <2>2. i + b \in Nat /\ p + b <= i + b /\ i + b < p + b + b
    BY <1>1, <1>6, <1>9
  <2>3. (i + b) \div b = q + 1
    BY <1>1, <1>3, <2>1, <2>2, SameQuotient
  <2>4. i + 1 + b - 1 = i + b /\ i + 1 \in Nat
    BY <1>1
  <2>5. N(i + 1) = q + 1 /\ Free(i + 1) = p + b - (i + 1)
    <3>1. N(i + 1) = (i + 1 + b - 1) \div b /\ Free(i + 1) = N(i + 1) * b - (i + 1)
      BY <1>2, <2>4
    <3>2. N(i + 1) = q + 1
      BY <2>3, <2>4, <3>1
    <3>3. Free(i + 1) = (q + 1) * b - (i + 1)
      BY <3>1, <3>2
    <3> QED
      BY <2>1, <3>2, <3>3
  <2>6. p + b - (i + 1) = b - 1
    BY <1>1, <1>5, <1>6, <1>9
  <2> QED
    BY <1>1, <1>3, <1>7, <1>8, <1>9, <2>5, <2>6
<1>10. CASE Free(i) # 0
  <2>1. i + b \in Nat /\ p <= i + b /\ i + b < p + b
    BY <1>1, <1>6, <1>7, <1>10
  <2>2. (i + b) \div b = q
    BY <1>1, <1>3, <1>5, <2>1, SameQuotient
  <2>3. i + 1 + b - 1 = i + b /\ i + 1 \in Nat
    BY <1>1
  <2>4. N(i + 1) = q /\ Free(i + 1) = p - (i + 1)
    BY <1>2, <1>5, <2>2, <2>3
  <2>5. p - (i + 1) = Free(i) - 1
    BY <1>1, <1>5, <1>6
  <2> QED
    BY <1>1, <1>3, <1>7, <1>8, <1>10, <2>4, <2>5
<1> QED
  BY <1>9, <1>10

LEMMA BlocksGrow ==
  ASSUME format \in Format, NEW i \in Nat, NEW j \in Nat, i <= j
  PROVE  N(i) <= N(j)
<1>1. PICK b \in Nat \ {0} : b = format.block
  BY FormatNumbers
<1>2. N(i) = (i + b - 1) \div b /\ N(j) = (j + b - 1) \div b
  BY <1>1 DEF N, NumBlocks
<1> i + b - 1 \in Nat /\ j + b - 1 \in Nat
  BY <1>1
<1>3. PICK x \in Nat : x = N(i) /\ x * b <= i + b - 1
  BY <1>1, <1>2, Quotient
<1>4. PICK y \in Nat : y = N(j) /\ j + b - 1 < y * b + b
  BY <1>1, <1>2, Quotient
<1>5. ~(y + 1 <= x)
  <2> SUFFICES ASSUME y + 1 <= x PROVE FALSE
    OBVIOUS
  <2>1. (y + 1) * b <= x * b
    BY <1>1, <1>3, <1>4, TwoProducts
  <2>2. (y + 1) * b = y * b + b /\ y * b \in Int /\ x * b \in Int
    BY <1>1, <1>3, <1>4
  <2> QED
    BY <1>1, <1>3, <1>4, <2>1, <2>2
<1> QED
  BY <1>3, <1>4, <1>5

LEMMA MinTwo ==
  ASSUME NEW a \in Int, NEW b \in Int
  PROVE  Min({a, b}) = IF a <= b THEN a ELSE b
BY DEF Min

-----------------------------------------------------------------------------
(* The writer: staging, flushing and failing.                              *)

(* The fields a file is made of.                                           *)
ChunkType == {"IHDR", "PLTE", "IDAT", "IEND"}
Byte == {<<"filter">>} \cup {<<"pixel", i>> : i \in Nat}
Simple ==
  {Signature, Header, Palette, Zlib} \cup Byte
    \cup {BlockHead(final, n) : final \in BOOLEAN, n \in Nat}
    \cup {ChunkHead(type, n) : type \in ChunkType, n \in Nat}
Field == Simple \cup {Adler(d) : d \in Seq(Byte)}
Token == Field \cup {Crc(type, d) : type \in ChunkType, d \in Seq(Field)}

Writer ==
  [out : Seq(Token), buf : Seq(Token), crc : Seq(Field), adler : Seq(Byte),
   raw : Int, block : Int, error : BOOLEAN, fault : Nat]

(* What the writer was told to write: all of it is in the file or in the   *)
(* buffer, or f_write has failed, and the file has the beginning of it.    *)
Writes(w, f) ==
  /\ w \in Writer /\ f \in Seq(Token)
  /\ IF w.error THEN \E n \in 0 .. Len(f) : w.out = SubSeq(f, 1, n)
     ELSE f = w.out \o w.buf
Same(v, w) == v.crc = w.crc /\ v.adler = w.adler /\ v.raw = w.raw /\ v.block = w.block

-----------------------------------------------------------------------------
(* A write that fails half-way leaves the beginning of both.               *)
LEMMA Cut ==
  ASSUME NEW S, NEW a \in Seq(S), NEW b \in Seq(S), NEW n \in 0 .. Len(b)
  PROVE  /\ a \o SubSeq(b, 1, n) = SubSeq(a \o b, 1, Len(a) + n)
         /\ Len(a) + n \in 0 .. Len(a \o b)
<1>1. a \o b \in Seq(S) /\ Len(a \o b) = Len(a) + Len(b) /\ Len(a) \in Nat /\ Len(b) \in Nat
  OBVIOUS
<1>2. Len(a) + n \in 0 .. Len(a \o b)
  BY <1>1
<1>3. /\ SubSeq(b, 1, n) \in Seq(S) /\ Len(SubSeq(b, 1, n)) = n
      /\ \A i \in 1 .. n : SubSeq(b, 1, n)[i] = b[i]
  BY <1>1
<1>4. /\ SubSeq(a \o b, 1, Len(a) + n) \in Seq(S)
      /\ Len(SubSeq(a \o b, 1, Len(a) + n)) = Len(a) + n
      /\ \A i \in 1 .. Len(a) + n : SubSeq(a \o b, 1, Len(a) + n)[i] = (a \o b)[i]
  BY <1>1, <1>2
<1>5. ASSUME NEW i \in 1 .. Len(a) + n
      PROVE  (a \o SubSeq(b, 1, n))[i] = SubSeq(a \o b, 1, Len(a) + n)[i]
  <2>1. SubSeq(a \o b, 1, Len(a) + n)[i] = (a \o b)[i]
    BY <1>4
  <2>2. CASE i \in 1 .. Len(a)
    BY <1>1, <1>3, <2>1, <2>2
  <2>3. CASE i \in Len(a) + 1 .. Len(a) + n
    <3>1. i - Len(a) \in 1 .. n
      BY <1>1, <2>3
    <3>2. (a \o SubSeq(b, 1, n))[i] = b[i - Len(a)]
      BY <1>1, <1>3, <2>3, <3>1
    <3>3. (a \o b)[i] = b[i - Len(a)]
      BY <1>1, <2>3
    <3> QED
      BY <2>1, <3>2, <3>3
  <2> QED
    BY <1>1, <2>2, <2>3
<1>6. /\ a \o SubSeq(b, 1, n) \in Seq(S)
      /\ Len(a \o SubSeq(b, 1, n)) = Len(a) + n
  BY <1>1, <1>3
<1>7. a \o SubSeq(b, 1, n) = SubSeq(a \o b, 1, Len(a) + n)
  <2> DEFINE x == a \o SubSeq(b, 1, n)
             y == SubSeq(a \o b, 1, Len(a) + n)
  <2>1. x \in Seq(S) /\ y \in Seq(S) /\ Len(x) = Len(a) + n /\ Len(y) = Len(a) + n
        /\ \A i \in 1 .. Len(a) + n : x[i] = y[i]
    BY <1>4, <1>5, <1>6
  <2> HIDE DEF x, y
  <2>2. x = y
    BY <2>1, SeqEqual
  <2> QED
    BY <2>2 DEF x, y
<1> QED
  BY <1>2, <1>7

LEMMA Whole ==
  ASSUME NEW S, NEW a \in Seq(S)
  PROVE  /\ SubSeq(a, 1, Len(a)) = a /\ Len(a) \in Nat
         /\ a \o << >> = a
  BY SubSeqFull, ConcatEmptySeq

LEMMA Longer ==
  ASSUME NEW S, NEW a \in Seq(S), NEW b \in Seq(S), NEW n \in 0 .. Len(a)
  PROVE  SubSeq(a \o b, 1, n) = SubSeq(a, 1, n) /\ n \in 0 .. Len(a \o b)
<1>1. Len(a \o b) = Len(a) + Len(b) /\ Len(a) \in Nat /\ Len(b) \in Nat
  OBVIOUS
<1>2. n \in 0 .. Len(a \o b)
  BY <1>1
<1>3. /\ SubSeq(a, 1, n) \in Seq(S) /\ Len(SubSeq(a, 1, n)) = n
      /\ \A i \in 1 .. n : SubSeq(a, 1, n)[i] = a[i]
  BY <1>1
<1>4. /\ SubSeq(a \o b, 1, n) \in Seq(S) /\ Len(SubSeq(a \o b, 1, n)) = n
      /\ \A i \in 1 .. n : SubSeq(a \o b, 1, n)[i] = a[i]
  BY <1>1
<1> DEFINE x == SubSeq(a \o b, 1, n)
           y == SubSeq(a, 1, n)
<1>5. x \in Seq(S) /\ y \in Seq(S) /\ Len(x) = Len(y) /\ \A i \in 1 .. Len(x) : x[i] = y[i]
  BY <1>3, <1>4
<1> HIDE DEF x, y
<1>6. x = y
  BY <1>5, SeqEqual
<1> QED
  BY <1>2, <1>6 DEF x, y

-----------------------------------------------------------------------------
(* f_write takes all of it, or some and then fails for good.               *)
LEMMA WriteWrites ==
  ASSUME NoFault \in Nat, NEW w \in Writer, ~w.error, w.buf = << >>, NEW data \in Seq(Token)
  PROVE  /\ Writes(Write(w, data), w.out \o data)
         /\ Same(Write(w, data), w) /\ Write(w, data).buf = << >>
<1> DEFINE bw == IF Len(data) <= w.fault THEN Len(data) ELSE w.fault
           v == Write(w, data)
<1>1. bw \in 0 .. Len(data) /\ w.fault - bw \in Nat
  BY DEF Writer
<1>2. v = [w EXCEPT !.out = @ \o SubSeq(data, 1, bw),
                    !.fault = IF bw = Len(data) THEN @ - bw ELSE NoFault,
                    !.error = @ \/ bw # Len(data)]
  BY DEF Write
<1> HIDE DEF v
<1>3. /\ v.out = w.out \o SubSeq(data, 1, bw)
      /\ v.buf = w.buf /\ Same(v, w)
      /\ v.fault = IF bw = Len(data) THEN w.fault - bw ELSE NoFault
  BY <1>2 DEF Writer, Same
<1>4. v.error = (w.error \/ bw # Len(data))
  BY <1>2, Zenon DEF Writer
<1>5. v \in Writer
  <2>1. w.out \o SubSeq(data, 1, bw) \in Seq(Token)
    BY <1>1 DEF Writer
  <2>2. (IF bw = Len(data) THEN w.fault - bw ELSE NoFault) \in Nat
    BY <1>1
  <2>3. (w.error \/ bw # Len(data)) \in BOOLEAN
    OBVIOUS
  <2> HIDE DEF bw
  <2> QED
    BY <1>2, <2>1, <2>2, <2>3 DEF Writer
<1>6. w.out \o data \in Seq(Token) /\ w.out \in Seq(Token)
  BY DEF Writer
<1>7. CASE bw = Len(data)
  <2>1. v.error = FALSE
    BY <1>4, <1>7
  <2>2. v.out = w.out \o data
    BY <1>3, <1>7, Whole
  <2>3. v.out \o v.buf = w.out \o data
    BY <1>3, <1>6, <2>2, Whole
  <2> QED
    BY <1>3, <1>5, <1>6, <2>1, <2>3 DEF Writes, v
<1>8. CASE bw # Len(data)
  <2>1. v.out = SubSeq(w.out \o data, 1, Len(w.out) + bw)
        /\ Len(w.out) + bw \in 0 .. Len(w.out \o data)
    BY <1>1, <1>3, <1>6, Cut
  <2>2. v.error = TRUE
    BY <1>4, <1>8
  <2> QED
    BY <1>3, <1>5, <1>6, <2>1, <2>2 DEF Writes, v
<1> QED
  BY <1>7, <1>8

(* png_flush: the buffer goes to the file, or some of it and never again.  *)
LEMMA FlushWrites ==
  ASSUME NoFault \in Nat, NEW w, NEW f, Writes(w, f)
  PROVE  /\ Writes(Flush(w), f) /\ Same(Flush(w), w) /\ Flush(w).buf = << >>
         /\ w.error => Flush(w).error
<1> DEFINE empty == [w EXCEPT !.buf = << >>]
<1>1. w \in Writer /\ f \in Seq(Token)
  BY DEF Writes
<1>2. /\ empty \in Writer /\ Same(empty, w) /\ empty.buf = << >>
      /\ empty.out = w.out
  <2>1. << >> \in Seq(Token)
    OBVIOUS
  <2>2. empty \in Writer
    BY <1>1, <2>1, Zenon DEF Writer
  <2>3. Same(empty, w) /\ empty.buf = << >> /\ empty.out = w.out
    BY <1>1, Zenon DEF Writer, Same
  <2> QED
    BY <2>2, <2>3
<1>3. empty.error = w.error
  BY <1>1, Zenon DEF Writer
<1>4. Flush(w) = IF w.error \/ w.buf = << >> THEN empty ELSE Write(empty, w.buf)
  BY DEF Flush
<1>5. CASE w.error
  <2>1. Flush(w) = empty
    BY <1>4, <1>5
  <2>2. Writes(empty, f)
    BY <1>1, <1>2, <1>3, <1>5 DEF Writes
  <2> QED
    BY <1>2, <1>3, <1>5, <2>1, <2>2
<1>6. CASE ~w.error /\ w.buf = << >>
  <2>1. Flush(w) = empty
    BY <1>4, <1>6
  <2>2. f = empty.out \o empty.buf
    BY <1>2, <1>6 DEF Writes
  <2>3. Writes(empty, f)
    BY <1>1, <1>2, <1>3, <1>6, <2>2 DEF Writes
  <2> QED
    BY <1>2, <1>6, <2>1, <2>3
<1>7. CASE ~w.error /\ w.buf # << >>
  <2>1. Flush(w) = Write(empty, w.buf)
    BY <1>4, <1>7
  <2>2. f = empty.out \o w.buf
    BY <1>2, <1>7 DEF Writes
  <2>3. w.buf \in Seq(Token)
    BY <1>1 DEF Writer
  <2> HIDE DEF empty
  <2>4. /\ Writes(Write(empty, w.buf), f)
        /\ Same(Write(empty, w.buf), empty) /\ Write(empty, w.buf).buf = << >>
    BY <1>2, <1>3, <1>7, <2>2, <2>3, WriteWrites
  <2> QED
    BY <1>2, <1>7, <2>1, <2>4 DEF Same
<1> QED
  BY <1>5, <1>6, <1>7

(* png_emit: the token is staged, and a full buffer is flushed.            *)
LEMMA EmitWrites ==
  ASSUME NoFault \in Nat, NEW w, NEW f, Writes(w, f), NEW token \in Field
  PROVE  /\ Writes(Emit(w, token), f \o <<token>>)
         /\ Emit(w, token).crc = Append(w.crc, token)
         /\ Emit(w, token).adler = w.adler
         /\ Emit(w, token).raw = w.raw /\ Emit(w, token).block = w.block
<1> DEFINE staged == [w EXCEPT !.crc = Append(@, token), !.buf = Append(@, token)]
<1>1. w \in Writer /\ f \in Seq(Token)
  BY DEF Writes
<1>2. /\ staged \in Writer /\ staged.crc = Append(w.crc, token)
      /\ staged.buf = w.buf \o <<token>> /\ staged.out = w.out
      /\ staged.adler = w.adler /\ staged.raw = w.raw /\ staged.block = w.block
  <2> token \in Field /\ token \in Token
    BY DEF Token
  <2>1. Append(w.crc, token) \in Seq(Field) /\ Append(w.buf, token) \in Seq(Token)
    BY <1>1 DEF Writer
  <2>2. staged \in Writer
    BY <1>1, <2>1, Zenon DEF Writer
  <2>3. /\ staged.crc = Append(w.crc, token)
        /\ staged.buf = Append(w.buf, token) /\ staged.out = w.out
        /\ staged.adler = w.adler /\ staged.raw = w.raw /\ staged.block = w.block
    BY <1>1, Zenon DEF Writer
  <2>4. Append(w.buf, token) = w.buf \o <<token>>
    BY <1>1, AppendIsConcat DEF Writer
  <2> QED
    BY <2>2, <2>3, <2>4
<1>3. staged.error = w.error
  BY <1>1, Zenon DEF Writer
<1>4. Emit(w, token) = IF Len(staged.buf) = format.buffer THEN Flush(staged) ELSE staged
  BY DEF Emit
<1> HIDE DEF staged
<1> token \in Token
  BY DEF Token
<1>5. f \o <<token>> \in Seq(Token)
  BY <1>1
<1>6. Writes(staged, f \o <<token>>)
  <2>1. CASE w.error
    <3>1. PICK n \in 0 .. Len(f) : w.out = SubSeq(f, 1, n)
      BY <2>1 DEF Writes
    <3>2. <<token>> \in Seq(Token)
      OBVIOUS
    <3>3. SubSeq(f \o <<token>>, 1, n) = SubSeq(f, 1, n) /\ n \in 0 .. Len(f \o <<token>>)
      BY <1>1, <3>2, Longer
    <3> QED
      BY <1>2, <1>3, <1>5, <2>1, <3>1, <3>3 DEF Writes
  <2>2. CASE ~w.error
    <3>1. w.out \in Seq(Token) /\ w.buf \in Seq(Token) /\ f = w.out \o w.buf
      BY <1>1, <2>2 DEF Writes, Writer
    <3>2. <<token>> \in Seq(Token)
      OBVIOUS
    <3>3. PICK a \in Seq(Token), b \in Seq(Token), c \in Seq(Token) :
            a = w.out /\ b = w.buf /\ c = <<token>>
      BY <3>1, <3>2
    <3>4. (a \o b) \o c = a \o (b \o c)
      BY ConcatAssociative
    <3>5. (w.out \o w.buf) \o <<token>> = w.out \o (w.buf \o <<token>>)
      BY <3>3, <3>4, Zenon
    <3> QED
      BY <1>2, <1>3, <1>5, <2>2, <3>1, <3>5 DEF Writes
  <2> QED
    BY <2>1, <2>2
<1>7. CASE Len(staged.buf) = format.buffer
  BY <1>2, <1>4, <1>6, <1>7, FlushWrites DEF Same
<1>8. CASE Len(staged.buf) # format.buffer
  BY <1>2, <1>4, <1>6, <1>8
<1> QED
  BY <1>7, <1>8

(* png_raw: past the buffer, after a flush.                                *)
LEMMA RawWrites ==
  ASSUME NoFault \in Nat, NEW w, NEW f, Writes(w, f), NEW data \in Seq(Token)
  PROVE  /\ Writes(Raw(w, data), f \o data)
         /\ Same(Raw(w, data), w) /\ Raw(w, data).buf = << >>
<1> DEFINE flushed == Flush(w)
<1>1. Writes(flushed, f) /\ Same(flushed, w) /\ flushed.buf = << >>
  BY FlushWrites
<1>2. Raw(w, data) = IF flushed.error THEN flushed ELSE Write(flushed, data)
  BY DEF Raw
<1> HIDE DEF flushed
<1>3. f \in Seq(Token) /\ flushed \in Writer
  BY <1>1 DEF Writes
<1>4. CASE flushed.error
  <2>1. PICK n \in 0 .. Len(f) : flushed.out = SubSeq(f, 1, n)
    BY <1>1, <1>4 DEF Writes
  <2>2. SubSeq(f \o data, 1, n) = SubSeq(f, 1, n) /\ n \in 0 .. Len(f \o data)
    BY <1>3, Longer
  <2>3. f \o data \in Seq(Token)
    BY <1>3
  <2> QED
    BY <1>1, <1>2, <1>3, <1>4, <2>1, <2>2, <2>3 DEF Writes
<1>5. CASE ~flushed.error
  <2>1. f = flushed.out
    <3>1. f = flushed.out \o << >> /\ flushed.out \in Seq(Token)
      BY <1>1, <1>3, <1>5 DEF Writes, Writer
    <3> QED
      BY <3>1, Whole
  <2>2. /\ Writes(Write(flushed, data), flushed.out \o data)
        /\ Same(Write(flushed, data), flushed) /\ Write(flushed, data).buf = << >>
    BY <1>1, <1>3, <1>5, WriteWrites
  <2> QED
    BY <1>1, <1>2, <1>5, <2>1, <2>2 DEF Same
<1> QED
  BY <1>4, <1>5

-----------------------------------------------------------------------------
(* The file of a picture, and the writer on its way through it.            *)

(* Every field is of its kind.                                             *)
LEMMA Tokens ==
  /\ Signature \in Token /\ Header \in Field /\ Palette \in Field /\ Zlib \in Field
  /\ \A final \in BOOLEAN, n \in Nat : BlockHead(final, n) \in Field
  /\ \A type \in ChunkType, n \in Nat : ChunkHead(type, n) \in Token
  /\ \A i \in Nat : RawByte(i) \in Byte /\ RawByte(i) \in Field
  /\ \A d \in Seq(Byte) : Adler(d) \in Field
  /\ \A type \in ChunkType, d \in Seq(Field) : Crc(type, d) \in Token
  /\ \A t \in Field : t \in Token
<1>1. \A t \in Field : t \in Token
  BY DEF Token
<1>2. \A t \in Simple : t \in Field
  BY DEF Field
<1>3. Signature \in Simple /\ Header \in Simple /\ Palette \in Simple /\ Zlib \in Simple
  BY DEF Simple
<1>4. \A final \in BOOLEAN, n \in Nat : BlockHead(final, n) \in Simple
  BY DEF Simple
<1>5. \A type \in ChunkType, n \in Nat : ChunkHead(type, n) \in Simple
  BY DEF Simple
<1>6. \A i \in Nat : RawByte(i) \in Byte
  BY DEF RawByte, Byte
<1>7. \A t \in Byte : t \in Simple
  BY DEF Simple
<1>8. \A d \in Seq(Byte) : Adler(d) \in Field
  BY DEF Field
<1>9. \A type \in ChunkType, d \in Seq(Field) : Crc(type, d) \in Token
  BY DEF Token
<1> QED
  BY <1>1, <1>2, <1>3, <1>4, <1>5, <1>6, <1>7, <1>8, <1>9

(* png_chunk: head, data, checksum.                                        *)
LEMMA ChunkWrites ==
  ASSUME NoFault \in Nat, NEW w, NEW f, Writes(w, f), NEW data \in Seq(Field), NEW type \in ChunkType
  PROVE  /\ Writes(Chunk(w, type, data),
                   ((f \o <<ChunkHead(type, Len(data))>>) \o data) \o <<Crc(type, data)>>)
         /\ Same(Chunk(w, type, data), w) /\ Chunk(w, type, data).buf = << >>
<1> DEFINE a == <<ChunkHead(type, Len(data))>>
           z == <<Crc(type, data)>>
           u == Raw(w, a)
           v == Raw(u, data)
           x == Raw(v, z)
<1>1. a \in Seq(Token) /\ z \in Seq(Token) /\ data \in Seq(Token)
  <2>1. Len(data) \in Nat
    OBVIOUS
  <2>2. ChunkHead(type, Len(data)) \in Token /\ Crc(type, data) \in Token
    BY <2>1, Tokens
  <2>3. Field \subseteq Token
    BY Tokens
  <2>4. data \in Seq(Token)
    BY <2>3
  <2> QED
    BY <2>2, <2>4
<1>2. Chunk(w, type, data) = x
  BY DEF Chunk
<1> HIDE DEF a, z
<1>3. Writes(u, f \o a) /\ Same(u, w)
  BY <1>1, RawWrites
<1> HIDE DEF u
<1>4. Writes(v, (f \o a) \o data) /\ Same(v, u)
  BY <1>1, <1>3, RawWrites
<1> HIDE DEF v
<1>5. Writes(x, ((f \o a) \o data) \o z) /\ Same(x, v) /\ x.buf = << >>
  BY <1>1, <1>4, RawWrites
<1>6. Same(x, w)
  BY <1>3, <1>4, <1>5 DEF Same
<1> QED
  BY <1>2, <1>5, <1>6 DEF a, z

(* One more field.                                                         *)
LEMMA Snoc ==
  ASSUME NEW S, NEW a \in Seq(S), NEW x
  PROVE  /\ Len(a \o <<x>>) = Len(a) + 1 /\ Len(a) \in Nat
         /\ (a \o <<x>>)[Len(a) + 1] = x
         /\ \A i \in 1 .. Len(a) : (a \o <<x>>)[i] = a[i]
<1> DEFINE T == S \cup {x}
<1>1. a \in Seq(T) /\ <<x>> \in Seq(T)
  OBVIOUS
<1> QED
  BY <1>1

Prologue ==
  <<Signature, ChunkHead("IHDR", 1), Header, Crc("IHDR", <<Header>>),
    ChunkHead("PLTE", 1), Palette, Crc("PLTE", <<Palette>>),
    ChunkHead("IDAT", 1 + R + N(R) + 1), Zlib>>

BlockAt(i) ==
  BlockHead(R - i <= format.block, IF R - i <= format.block THEN R - i ELSE format.block)

(* As far as it goes, a file of the picture.                               *)
Part(f) ==
  /\ f \in Seq(Token)
  /\ \A p \in 1 .. 9 : p <= Len(f) => f[p] = Prologue[p]
  /\ \A i \in 1 .. R : 9 + i + N(i) <= Len(f) => f[9 + i + N(i)] = RawByte(i)
  /\ \A i \in 0 .. R - 1 :
       Free(i) = 0 /\ 10 + i + N(i) <= Len(f) =>
         f[10 + i + N(i)] = BlockAt(i)

(* The writer after k bytes of the raw image.                              *)
Stream(w, f, k) ==
  /\ Writes(w, f) /\ Part(f) /\ Len(f) = 9 + k + N(k)
  /\ w.raw = R - k /\ w.block = Left(k)
  /\ Len(w.adler) = k /\ \A i \in 1 .. k : w.adler[i] = RawByte(i)
  /\ Len(w.crc) = 1 + k + N(k) /\ \A j \in 1 .. 1 + k + N(k) : w.crc[j] = f[8 + j]

(* Nothing was written yet.                                                *)
LEMMA FreshWrites ==
  ASSUME NEW fault \in Nat
  PROVE  /\ Writes(Fresh(fault), << >>)
         /\ Fresh(fault).crc = << >> /\ Fresh(fault).adler = << >>
<1>1. << >> \in Seq(Token) /\ << >> \in Seq(Field) /\ << >> \in Seq(Byte)
  OBVIOUS
<1>2. Fresh(fault) \in Writer
  BY <1>1 DEF Fresh, Writer
<1>3. /\ Fresh(fault).out = << >> /\ Fresh(fault).buf = << >>
      /\ Fresh(fault).crc = << >> /\ Fresh(fault).adler = << >>
  BY DEF Fresh
<1>4. Fresh(fault).error = FALSE
  BY Zenon DEF Fresh
<1>5. << >> \o << >> = << >>
  OBVIOUS
<1> QED
  BY <1>1, <1>2, <1>3, <1>4, <1>5 DEF Writes

(* The nine fields before the raw image.                                   *)
LEMMA PrologueFields ==
  ASSUME NoFault \in Nat, format \in Format, NEW f,
         f = ((((((((<< >> \o <<Prologue[1]>>) \o <<Prologue[2]>>) \o <<Prologue[3]>>)
                \o <<Prologue[4]>>) \o <<Prologue[5]>>) \o <<Prologue[6]>>)
                \o <<Prologue[7]>>) \o <<Prologue[8]>>) \o <<Prologue[9]>>
  PROVE  Len(f) = 9 /\ \A p \in 1 .. 9 : f[p] = Prologue[p]
<1> DEFINE S == {Prologue[i] : i \in 1 .. 9}
           g1 == << >> \o <<Prologue[1]>>
           g2 == g1 \o <<Prologue[2]>>
           g3 == g2 \o <<Prologue[3]>>
           g4 == g3 \o <<Prologue[4]>>
           g5 == g4 \o <<Prologue[5]>>
           g6 == g5 \o <<Prologue[6]>>
           g7 == g6 \o <<Prologue[7]>>
           g8 == g7 \o <<Prologue[8]>>
           g9 == g8 \o <<Prologue[9]>>
<1>1. \A i \in 1 .. 9 : <<Prologue[i]>> \in Seq(S)
  OBVIOUS
<1>2. f = g9
  OBVIOUS
<1> DEFINE Upto(g, n) == g \in Seq(S) /\ Len(g) = n /\ \A p \in 1 .. n : g[p] = Prologue[p]
<1> HIDE DEF S
<1>3. ASSUME NEW g, NEW n \in 0 .. 8, Upto(g, n)
      PROVE  Upto(g \o <<Prologue[n + 1]>>, n + 1)
  <2>1. n + 1 \in 1 .. 9 /\ g \in Seq(S) /\ <<Prologue[n + 1]>> \in Seq(S)
    BY <1>1, <1>3
  <2>2. /\ Len(g \o <<Prologue[n + 1]>>) = n + 1
        /\ (g \o <<Prologue[n + 1]>>)[n + 1] = Prologue[n + 1]
        /\ \A i \in 1 .. n : (g \o <<Prologue[n + 1]>>)[i] = g[i]
    BY <1>3, <2>1, Snoc
  <2>3. g \o <<Prologue[n + 1]>> \in Seq(S)
    BY <2>1
  <2>4. \A i \in 1 .. n + 1 : i = n + 1 \/ i \in 1 .. n
    OBVIOUS
  <2> QED
    BY <1>3, <2>2, <2>3, <2>4
<1>5. Upto(g1, 1)
  <2>1. g1 = <<Prologue[1]>>
    OBVIOUS
  <2> HIDE DEF g1
  <2>2. g1 \in Seq(S) /\ Len(g1) = 1 /\ g1[1] = Prologue[1]
    BY <1>1, <2>1
  <2> QED
    BY <2>2
<1> HIDE DEF Upto
<1> HIDE DEF g1
<1>6. Upto(g2, 2)
  BY <1>3, <1>5
<1> HIDE DEF g2
<1>7. Upto(g3, 3)
  BY <1>3, <1>6
<1> HIDE DEF g3
<1>8. Upto(g4, 4)
  BY <1>3, <1>7
<1> HIDE DEF g4
<1>9. Upto(g5, 5)
  BY <1>3, <1>8
<1> HIDE DEF g5
<1>10. Upto(g6, 6)
  BY <1>3, <1>9
<1> HIDE DEF g6
<1>11. Upto(g7, 7)
  BY <1>3, <1>10
<1> HIDE DEF g7
<1>12. Upto(g8, 8)
  BY <1>3, <1>11
<1> HIDE DEF g8
<1>13. Upto(g9, 9)
  BY <1>3, <1>12
<1> QED
  BY <1>2, <1>13 DEF Upto

(* png_writer_begin leaves the writer at the first byte.                   *)
LEMMA BeginStream ==
  ASSUME NoFault \in Nat, format \in Format, NEW fault \in Nat
  PROVE  \E f : Stream(Begin(fault), f, 0)
<1> DEFINE u1 == Raw(Fresh(fault), <<Signature>>)
           u2 == Chunk(u1, "IHDR", <<Header>>)
           u3 == Chunk(u2, "PLTE", <<Palette>>)
           u4 == Raw(u3, <<ChunkHead("IDAT", 1 + R + N(R) + 1)>>)
           u5 == Emit(u4, Zlib)
           f1 == << >> \o <<Signature>>
           f2 == ((f1 \o <<ChunkHead("IHDR", 1)>>) \o <<Header>>) \o <<Crc("IHDR", <<Header>>)>>
           f3 == ((f2 \o <<ChunkHead("PLTE", 1)>>) \o <<Palette>>) \o <<Crc("PLTE", <<Palette>>)>>
           f4 == f3 \o <<ChunkHead("IDAT", 1 + R + N(R) + 1)>>
           f5 == f4 \o <<Zlib>>
           w == [u5 EXCEPT !.raw = R, !.block = 0]
<1>1. Begin(fault) = w
  BY DEF Begin, R, N
<1>2. R \in Nat \ {0} /\ N(R) \in Nat /\ N(0) = 0 /\ Free(0) = 0
      /\ \A i \in Nat : N(i) \in Nat
  BY FormatNumbers, Blocks
<1>3. /\ <<Signature>> \in Seq(Token) /\ <<ChunkHead("IDAT", 1 + R + N(R) + 1)>> \in Seq(Token)
      /\ <<Header>> \in Seq(Field) /\ <<Palette>> \in Seq(Field) /\ Zlib \in Field
  <2>1. ChunkHead("IDAT", 1 + R + N(R) + 1) \in Token
    BY <1>2, Tokens DEF ChunkType
  <2> QED
    BY <2>1, Tokens
<1>4. Writes(u1, f1) /\ u1.crc = << >> /\ u1.adler = << >>
  BY <1>3, FreshWrites, RawWrites DEF Same
<1> HIDE DEF u1
<1>5. Writes(u2, f2) /\ Same(u2, u1)
  <2>1. "IHDR" \in ChunkType /\ Len(<<Header>>) = 1
    BY DEF ChunkType
  <2> HIDE DEF f1
  <2> QED
    BY <1>3, <1>4, <2>1, ChunkWrites
<1> HIDE DEF u2
<1>6. Writes(u3, f3) /\ Same(u3, u2)
  <2>1. "PLTE" \in ChunkType /\ Len(<<Palette>>) = 1
    BY DEF ChunkType
  <2> HIDE DEF f2
  <2> QED
    BY <1>3, <1>5, <2>1, ChunkWrites
<1> HIDE DEF u3
<1>7. Writes(u4, f4) /\ Same(u4, u3)
  <2> HIDE DEF f3
  <2> QED
    BY <1>3, <1>6, RawWrites
<1> HIDE DEF u4
<1>8. Writes(u5, f5) /\ u5.crc = Append(u4.crc, Zlib) /\ u5.adler = u4.adler
  <2> HIDE DEF f4
  <2> QED
    BY <1>3, <1>7, EmitWrites
<1>9. u4.crc = << >> /\ u4.adler = << >>
  BY <1>4, <1>5, <1>6, <1>7 DEF Same
<1> HIDE DEF u5
<1>10. Len(f5) = 9 /\ \A p \in 1 .. 9 : f5[p] = Prologue[p]
  <2>1. /\ Prologue[1] = Signature /\ Prologue[2] = ChunkHead("IHDR", 1)
        /\ Prologue[3] = Header /\ Prologue[4] = Crc("IHDR", <<Header>>)
        /\ Prologue[5] = ChunkHead("PLTE", 1) /\ Prologue[6] = Palette
        /\ Prologue[7] = Crc("PLTE", <<Palette>>)
        /\ Prologue[8] = ChunkHead("IDAT", 1 + R + N(R) + 1) /\ Prologue[9] = Zlib
    BY DEF Prologue
  <2> QED
    BY <2>1, PrologueFields
<1> HIDE DEF f5
<1>11. Part(f5)
  <2>1. f5 \in Seq(Token)
    BY <1>8 DEF Writes
  <2>2. \A i \in 1 .. R : ~(9 + i + N(i) <= 9)
    BY <1>2
  <2>3. \A i \in 0 .. R - 1 : ~(10 + i + N(i) <= 9)
    BY <1>2
  <2> QED
    BY <1>10, <2>1, <2>2, <2>3 DEF Part
<1>12. Writes(w, f5) /\ w.raw = R /\ w.block = 0 /\ w.crc = u5.crc /\ w.adler = u5.adler
  <2>1. u5 \in Writer
    BY <1>8 DEF Writes
  <2>2. R \in Int /\ 0 \in Int
    BY <1>2
  <2>3. w \in Writer
    BY <2>1, <2>2, Zenon DEF Writer
  <2>4. /\ w.raw = R /\ w.block = 0 /\ w.crc = u5.crc /\ w.adler = u5.adler
        /\ w.out = u5.out /\ w.buf = u5.buf /\ w.error = u5.error
    BY <2>1, Zenon DEF Writer
  <2> QED
    BY <1>8, <2>3, <2>4, Zenon DEF Writes
<1> HIDE DEF w
<1>13. Left(0) = 0 /\ 9 + 0 + N(0) = 9 /\ 1 + 0 + N(0) = 1 /\ R - 0 = R
  BY <1>2 DEF Left
<1>14. u5.crc = <<Zlib>> /\ f5[9] = Zlib
  BY <1>8, <1>9, <1>10 DEF Prologue
<1>15. Len(w.adler) = 0 /\ \A i \in 1 .. 0 : w.adler[i] = RawByte(i)
  BY <1>8, <1>9, <1>12
<1>16. Len(w.crc) = 1 /\ \A j \in 1 .. 1 : w.crc[j] = f5[8 + j]
  BY <1>12, <1>14
<1>17. Stream(w, f5, 0)
  BY <1>10, <1>11, <1>12, <1>13, <1>15, <1>16, Zenon DEF Stream
<1> QED
  BY <1>1, <1>17

Fits(f, n, x) ==
  /\ Len(f) = n /\ n >= 9
  /\ \A i \in 1 .. R : 9 + i + N(i) = n + 1 => x = RawByte(i)
  /\ \A i \in 0 .. R - 1 : Free(i) = 0 /\ 10 + i + N(i) = n + 1 => x = BlockAt(i)

(* One more field, if it is the one of its place.                          *)
LEMMA PartGrows ==
  ASSUME format \in Format, NEW f, Part(f), NEW n \in Nat,
         NEW x \in Token, Fits(f, n, x)
  PROVE  Part(f \o <<x>>)
<1> DEFINE g == f \o <<x>>
<1>1. R \in Nat /\ \A i \in Nat : N(i) \in Nat
  BY FormatNumbers, Blocks
<1>2. /\ f \in Seq(Token) /\ g \in Seq(Token) /\ Len(g) = n + 1
      /\ g[n + 1] = x /\ \A i \in 1 .. n : g[i] = f[i]
  <2>1. f \in Seq(Token) /\ <<x>> \in Seq(Token)
    BY DEF Part
  <2>2. f \o <<x>> \in Seq(Token)
    BY <2>1
  <2> QED
    BY <1>1, <2>1, <2>2, Snoc DEF Fits
<1> HIDE DEF g
<1>3. ASSUME NEW p \in 1 .. 9 PROVE g[p] = Prologue[p]
  <2>1. p <= Len(f) /\ p \in 1 .. n
    BY <1>1 DEF Fits
  <2>2. f[p] = Prologue[p]
    BY <2>1 DEF Part
  <2> QED
    BY <1>2, <2>1, <2>2
<1>4. ASSUME NEW i \in 1 .. R, 9 + i + N(i) <= Len(g) PROVE g[9 + i + N(i)] = RawByte(i)
  <2>1. PICK p \in Nat : p = 9 + i + N(i)
    BY <1>1
  <2>2. p <= n + 1 /\ p >= 1
    BY <1>1, <1>2, <1>4, <2>1
  <2>3. CASE p = n + 1
    BY <1>2, <2>1, <2>3 DEF Fits
  <2>4. CASE p <= n
    <3>1. p \in 1 .. n
      BY <2>1, <2>2, <2>4
    <3>2. f[p] = RawByte(i)
      BY <2>1, <2>4 DEF Part, Fits
    <3> QED
      BY <1>2, <2>1, <3>1, <3>2
  <2> QED
    BY <2>1, <2>2, <2>3, <2>4
<1>5. ASSUME NEW i \in 0 .. R - 1, Free(i) = 0, 10 + i + N(i) <= Len(g)
      PROVE  g[10 + i + N(i)] = BlockAt(i)
  <2>1. PICK p \in Nat : p = 10 + i + N(i)
    BY <1>1
  <2>2. p <= n + 1 /\ p >= 1
    BY <1>1, <1>2, <1>5, <2>1
  <2>3. CASE p = n + 1
    BY <1>2, <1>5, <2>1, <2>3 DEF Fits
  <2>4. CASE p <= n
    <3>1. p \in 1 .. n
      BY <2>1, <2>2, <2>4
    <3>2. f[p] = BlockAt(i)
      BY <1>5, <2>1, <2>4 DEF Part, Fits
    <3> QED
      BY <1>2, <2>1, <3>1, <3>2
  <2> QED
    BY <2>1, <2>2, <2>3, <2>4
<1> QED
  BY <1>2, <1>3, <1>4, <1>5 DEF Part, g

(* A block is open for byte k + 1.                                         *)
Opened(w, f, k) ==
  /\ Writes(w, f) /\ Part(f) /\ Len(f) = 9 + k + N(k + 1)
  /\ w.raw = R - k /\ w.block = Left(k + 1) + 1
  /\ Len(w.adler) = k /\ \A i \in 1 .. k : w.adler[i] = RawByte(i)
  /\ Len(w.crc) = 1 + k + N(k + 1) /\ \A j \in 1 .. 1 + k + N(k + 1) : w.crc[j] = f[8 + j]

(* Whether a block is open, and how much is left of it, as the code        *)
(* counts.                                                                 *)
LEMMA LeftFacts ==
  ASSUME format \in Format, NEW k \in 0 .. R - 1
  PROVE  /\ k \in Nat /\ N(k) \in Nat /\ N(k + 1) \in Nat
         /\ Left(k) = 0 <=> Free(k) = 0
         /\ Free(k) = 0 => /\ N(k + 1) = N(k) + 1
                           /\ Left(k + 1) + 1 = IF R - k <= format.block THEN R - k
                                                ELSE format.block
         /\ Free(k) # 0 => /\ N(k + 1) = N(k) /\ Left(k) > 0 /\ Left(k + 1) + 1 = Left(k)
         /\ R - (k + 1) = (R - k) - 1
<1>1. PICK r \in Nat : r = R
  BY FormatNumbers
<1>2. k \in Nat /\ k + 1 \in Nat /\ r - k \in Nat /\ r - k >= 1
  BY <1>1
<1>3. PICK b \in Nat \ {0} : b = format.block
  BY FormatNumbers
<1>4. N(k) \in Nat /\ N(k + 1) \in Nat
  BY <1>2, Blocks
<1>5. PICK e \in 0 .. b - 1 : e = Free(k)
  BY <1>2, <1>3, Blocks
<1>6. /\ Left(k) = (IF e <= r - k THEN e ELSE r - k)
      /\ Left(k + 1) = (IF Free(k + 1) <= r - (k + 1) THEN Free(k + 1) ELSE r - (k + 1))
  BY <1>1, <1>5 DEF Left
<1>7. CASE e = 0
  <2>1. N(k + 1) = N(k) + 1 /\ Free(k + 1) = b - 1
    BY <1>2, <1>3, <1>5, <1>7, Blocks
  <2> QED
    BY <1>1, <1>2, <1>3, <1>4, <1>5, <1>6, <1>7, <2>1
<1>8. CASE e # 0
  <2>1. N(k + 1) = N(k) /\ Free(k + 1) = e - 1
    BY <1>2, <1>3, <1>5, <1>8, Blocks
  <2> QED
    BY <1>1, <1>2, <1>3, <1>4, <1>5, <1>6, <1>8, <2>1
<1> QED
  BY <1>7, <1>8

(* Where a position of the file belongs.                                   *)
LEMMA Places ==
  ASSUME format \in Format, NEW k \in 0 .. R - 1
  PROVE  /\ Free(k) = 0 =>
              /\ \A i \in 1 .. R : 9 + i + N(i) # 10 + k + N(k)
              /\ \A i \in 0 .. R - 1 :
                   Free(i) = 0 /\ 10 + i + N(i) = 10 + k + N(k) => i = k
         /\ \A i \in 1 .. R : 9 + i + N(i) = 10 + k + N(k + 1) => i = k + 1
         /\ \A i \in 0 .. R - 1 : Free(i) = 0 => 10 + i + N(i) # 10 + k + N(k + 1)
<1>1. PICK r \in Nat : r = R
  BY FormatNumbers
<1>2. k \in Nat /\ k + 1 \in Nat /\ N(k) \in Nat /\ N(k + 1) \in Nat
  BY <1>1, LeftFacts
<1>3. Free(k) = 0 => N(k + 1) = N(k) + 1
  BY LeftFacts
<1>4. \A i \in Nat : /\ N(i) \in Nat /\ (i <= k => N(i) <= N(k))
                     /\ (i <= k + 1 => N(i) <= N(k + 1))
                     /\ (k <= i => N(k) <= N(i)) /\ (k + 1 <= i => N(k + 1) <= N(i))
  BY <1>2, BlocksGrow, Blocks
<1>5. PICK x \in Nat : x = N(k)
  BY <1>2
<1>6. PICK y \in Nat : y = N(k + 1)
  BY <1>2
<1>7. ASSUME Free(k) = 0, NEW i \in 1 .. R, 9 + i + N(i) = 10 + k + N(k) PROVE FALSE
  <2>1. i \in Nat /\ y = x + 1
    BY <1>1, <1>3, <1>5, <1>6, <1>7
  <2>2. PICK z \in Nat : z = N(i)
    BY <1>4, <2>1
  <2>3. 9 + i + z = 10 + k + x /\ (i <= k => z <= x) /\ (k + 1 <= i => y <= z)
    BY <1>4, <1>5, <1>6, <1>7, <2>1, <2>2
  <2> QED
    BY <1>2, <1>5, <1>6, <2>1, <2>2, <2>3
<1>8. ASSUME Free(k) = 0, NEW i \in 0 .. R - 1, 10 + i + N(i) = 10 + k + N(k)
      PROVE  i = k
  <2>1. i \in Nat
    BY <1>1
  <2>2. PICK z \in Nat : z = N(i)
    BY <1>4, <2>1
  <2>3. 10 + i + z = 10 + k + x /\ (i <= k => z <= x) /\ (k <= i => x <= z)
    BY <1>4, <1>5, <1>8, <2>1, <2>2
  <2> QED
    BY <1>2, <1>5, <2>1, <2>2, <2>3
<1>9. ASSUME NEW i \in 1 .. R, 9 + i + N(i) = 10 + k + N(k + 1) PROVE i = k + 1
  <2>1. i \in Nat
    BY <1>1
  <2>2. PICK z \in Nat : z = N(i)
    BY <1>4, <2>1
  <2>3. 9 + i + z = 10 + k + y /\ (i <= k + 1 => z <= y) /\ (k + 1 <= i => y <= z)
    BY <1>4, <1>6, <1>9, <2>1, <2>2
  <2> QED
    BY <1>2, <1>6, <2>1, <2>2, <2>3
<1>10. ASSUME NEW i \in 0 .. R - 1, Free(i) = 0, 10 + i + N(i) = 10 + k + N(k + 1)
       PROVE  FALSE
  <2>1. i \in Nat
    BY <1>1
  <2>2. PICK z \in Nat : z = N(i)
    BY <1>4, <2>1
  <2>3. /\ 10 + i + z = 10 + k + y /\ (i <= k + 1 => z <= y) /\ (k + 1 <= i => y <= z)
        /\ i = k => y = z + 1
    BY <1>3, <1>4, <1>5, <1>6, <1>10, <2>1, <2>2
  <2> QED
    BY <1>2, <1>6, <2>1, <2>2, <2>3
<1> QED
  BY <1>7, <1>8, <1>9, <1>10

(* Before a byte, a block is open: its head is in its place.               *)
LEMMA InBlockOpens ==
  ASSUME NoFault \in Nat, format \in Format, NEW k \in 0 .. R - 1, NEW w, NEW f, Stream(w, f, k)
  PROVE  \E g : Opened(InBlock(w), g, k)
<1>1. /\ Writes(w, f) /\ Part(f) /\ Len(f) = 9 + k + N(k)
      /\ w.raw = R - k /\ w.block = Left(k)
      /\ Len(w.adler) = k /\ \A i \in 1 .. k : w.adler[i] = RawByte(i)
      /\ Len(w.crc) = 1 + k + N(k) /\ \A j \in 1 .. 1 + k + N(k) : w.crc[j] = f[8 + j]
  BY DEF Stream
<1>2. PICK r \in Nat : r = R
  BY FormatNumbers
<1>3. PICK b \in Nat \ {0} : b = format.block
  BY FormatNumbers
<1>4. k \in Nat /\ r - k \in Nat /\ N(k) \in Nat
  BY <1>2, LeftFacts
<1>5. CASE Free(k) # 0
  <2>1. w.block > 0
    BY <1>1, <1>5, LeftFacts
  <2>2. InBlock(w) = w
    BY <2>1 DEF InBlock
  <2>3. N(k + 1) = N(k) /\ Left(k + 1) + 1 = Left(k)
    BY <1>5, LeftFacts
  <2>4. Opened(w, f, k)
    BY <1>1, <2>3, Zenon DEF Opened
  <2> QED
    BY <2>2, <2>4
<1>6. CASE Free(k) = 0
  <2> DEFINE blen == Min({w.raw, format.block})
             t == BlockHead(w.raw <= format.block, blen)
             e == Emit(w, t)
             v == [e EXCEPT !.block = blen]
             g == f \o <<t>>
  <2>1. ~(w.block > 0)
    BY <1>1, <1>6, LeftFacts
  <2>2. InBlock(w) = v
    BY <2>1 DEF InBlock
  <2>3. blen = (IF r - k <= b THEN r - k ELSE b) /\ blen \in Nat
    <3>1. PICK d \in Nat : d = r - k
      BY <1>4
    <3>2. w.raw = d
      BY <1>1, <1>2, <3>1
    <3>3. blen = Min({d, b})
      BY <1>3, <3>2
    <3>4. Min({d, b}) = IF d <= b THEN d ELSE b
      BY <1>3, <3>1, MinTwo
    <3> QED
      BY <1>3, <3>1, <3>3, <3>4
  <2>4. t = BlockAt(k)
    BY <1>1, <1>2, <1>3, <2>3 DEF BlockAt
  <2>5. t \in Field
    <3>1. (w.raw <= format.block) \in BOOLEAN
      OBVIOUS
    <3> HIDE DEF blen
    <3> QED
      BY <2>3, <3>1, Tokens
  <2> HIDE DEF t
  <2>6. /\ Writes(e, g) /\ e.crc = Append(w.crc, t) /\ e.adler = w.adler /\ e.raw = w.raw
    BY <1>1, <2>5, EmitWrites
  <2> HIDE DEF e, blen
  <2>7. /\ Writes(v, g) /\ v.crc = Append(w.crc, t) /\ v.adler = w.adler /\ v.raw = w.raw
        /\ v.block = blen
    <3>1. e \in Writer /\ blen \in Int
      BY <2>3, <2>6 DEF Writes
    <3>2. v \in Writer
      BY <3>1, Zenon DEF Writer
    <3>3. /\ v.raw = e.raw /\ v.block = blen /\ v.crc = e.crc /\ v.adler = e.adler
          /\ v.out = e.out /\ v.buf = e.buf /\ v.error = e.error
      BY <3>1, Zenon DEF Writer
    <3> QED
      BY <2>6, <3>2, <3>3, Zenon DEF Writes
  <2> HIDE DEF v
  <2>8. N(k + 1) = N(k) + 1 /\ Left(k + 1) + 1 = blen
    BY <1>2, <1>3, <1>6, <2>3, LeftFacts
  <2>9. PICK n \in Nat : n = 9 + k + N(k)
    BY <1>4
  <2>10. Fits(f, n, t)
    <3>1. n >= 9 /\ n + 1 = 10 + k + N(k)
      BY <1>4, <2>9
    <3>2. \A i \in 1 .. R : 9 + i + N(i) # n + 1
      BY <1>6, <3>1, Places
    <3>3. \A i \in 0 .. R - 1 : Free(i) = 0 /\ 10 + i + N(i) = n + 1 => i = k
      BY <1>6, <3>1, Places
    <3> QED
      BY <1>1, <2>4, <2>9, <3>1, <3>2, <3>3 DEF Fits
  <2>11. Part(g)
    BY <1>1, <2>5, <2>9, <2>10, PartGrows, Tokens
  <2>12. f \in Seq(Token) /\ w.crc \in Seq(Field)
    BY <1>1 DEF Part, Writes, Writer
  <2>13. Len(g) = n + 1 /\ g[n + 1] = t /\ \A i \in 1 .. n : g[i] = f[i]
    BY <1>1, <2>9, <2>12, Snoc
  <2> HIDE DEF g
  <2>14. Len(g) = 9 + k + N(k + 1)
    BY <1>4, <2>8, <2>9, <2>13
  <2>15. PICK m \in Nat : m = 1 + k + N(k)
    BY <1>4
  <2>16. /\ Len(v.crc) = m + 1 /\ v.crc[m + 1] = t
         /\ \A j \in 1 .. m : v.crc[j] = w.crc[j]
    BY <1>1, <2>5, <2>7, <2>12, <2>15
  <2>17. m + 1 = 1 + k + N(k + 1) /\ n = m + 8
    BY <1>4, <2>8, <2>9, <2>15
  <2>18. \A j \in 1 .. m + 1 : v.crc[j] = g[8 + j]
    <3> SUFFICES ASSUME NEW j \in 1 .. m + 1 PROVE v.crc[j] = g[8 + j]
      OBVIOUS
    <3>1. CASE j = m + 1
      <4>1. 8 + j = n + 1
        BY <2>9, <2>15, <2>17, <3>1
      <4> QED
        BY <2>13, <2>16, <3>1, <4>1
    <3>2. CASE j \in 1 .. m
      <4>1. 8 + j \in 1 .. n
        BY <2>9, <2>15, <2>17, <3>2
      <4>2. w.crc[j] = f[8 + j]
        BY <1>1, <2>15, <3>2
      <4> QED
        BY <2>13, <2>16, <3>2, <4>1, <4>2
    <3> QED
      BY <2>15, <3>1, <3>2
  <2>19. Opened(v, g, k)
    <3>1. Len(v.crc) = 1 + k + N(k + 1) /\ \A j \in 1 .. 1 + k + N(k + 1) : v.crc[j] = g[8 + j]
      BY <2>16, <2>17, <2>18
    <3>2. Len(v.adler) = k /\ \A i \in 1 .. k : v.adler[i] = RawByte(i)
      BY <1>1, <2>7
    <3> QED
      BY <1>1, <2>7, <2>8, <2>11, <2>14, <3>1, <3>2, Zenon DEF Opened
  <2> QED
    BY <2>2, <2>19
<1> QED
  BY <1>5, <1>6

(* png_emit_raw_byte takes the writer one byte further.                    *)
LEMMA ByteStream ==
  ASSUME NoFault \in Nat, format \in Format, NEW k \in 0 .. R - 1, NEW w, NEW f, Stream(w, f, k)
  PROVE  \E g : Stream(EmitRawByte(w, RawByte(k + 1)), g, k + 1)
<1> DEFINE byte == RawByte(k + 1)
           u == InBlock(w)
           e == Emit(u, byte)
           v == [e EXCEPT !.block = @ - 1, !.raw = @ - 1, !.adler = Append(@, byte)]
<1>1. EmitRawByte(w, byte) = v
  BY DEF EmitRawByte
<1>2. PICK f1 : Opened(u, f1, k)
  BY InBlockOpens
<1> HIDE DEF u
<1>3. /\ Writes(u, f1) /\ Part(f1) /\ Len(f1) = 9 + k + N(k + 1)
      /\ u.raw = R - k /\ u.block = Left(k + 1) + 1
      /\ Len(u.adler) = k /\ \A i \in 1 .. k : u.adler[i] = RawByte(i)
      /\ Len(u.crc) = 1 + k + N(k + 1) /\ \A j \in 1 .. 1 + k + N(k + 1) : u.crc[j] = f1[8 + j]
  BY <1>2 DEF Opened
<1>4. PICK r \in Nat : r = R
  BY FormatNumbers
<1>5. k \in Nat /\ k + 1 \in Nat /\ r - k \in Nat /\ N(k + 1) \in Nat /\ k + 1 \in 1 .. r
  BY <1>4, LeftFacts
<1>6. byte \in Byte /\ byte \in Field /\ byte \in Token
  BY <1>5, Tokens
<1> HIDE DEF byte
<1> DEFINE g == f1 \o <<byte>>
<1>7. /\ Writes(e, g) /\ e.crc = Append(u.crc, byte) /\ e.adler = u.adler
      /\ e.raw = u.raw /\ e.block = u.block
  BY <1>3, <1>6, EmitWrites
<1> HIDE DEF e
<1>8. /\ Writes(v, g) /\ v.crc = e.crc /\ v.adler = Append(e.adler, byte)
      /\ v.raw = e.raw - 1 /\ v.block = e.block - 1
  <2>1. e \in Writer /\ e.adler \in Seq(Byte) /\ e.block \in Int /\ e.raw \in Int
    BY <1>7 DEF Writes, Writer
  <2>2. Append(e.adler, byte) \in Seq(Byte) /\ e.block - 1 \in Int /\ e.raw - 1 \in Int
    BY <1>6, <2>1
  <2>3. v \in Writer
    BY <2>1, <2>2, Zenon DEF Writer
  <2>4. /\ v.raw = e.raw - 1 /\ v.block = e.block - 1 /\ v.crc = e.crc
        /\ v.adler = Append(e.adler, byte)
        /\ v.out = e.out /\ v.buf = e.buf /\ v.error = e.error
    BY <2>1, Zenon DEF Writer
  <2> QED
    BY <1>7, <2>3, <2>4, Zenon DEF Writes
<1> HIDE DEF v
<1>9. PICK n \in Nat : n = 9 + k + N(k + 1)
  BY <1>5
<1>10. Fits(f1, n, byte)
  <2>1. n >= 9 /\ n + 1 = 10 + k + N(k + 1)
    BY <1>5, <1>9
  <2>2. \A i \in 1 .. R : 9 + i + N(i) = n + 1 => i = k + 1
    BY <2>1, Places
  <2>3. \A i \in 0 .. R - 1 : Free(i) = 0 => 10 + i + N(i) # n + 1
    BY <2>1, Places
  <2> QED
    BY <1>3, <1>9, <2>1, <2>2, <2>3 DEF Fits, byte
<1>11. Part(g)
  BY <1>3, <1>6, <1>9, <1>10, PartGrows
<1>12. f1 \in Seq(Token) /\ u.crc \in Seq(Field) /\ u.adler \in Seq(Byte)
  BY <1>3 DEF Part, Writes, Writer
<1>13. Len(g) = n + 1 /\ g[n + 1] = byte /\ \A i \in 1 .. n : g[i] = f1[i]
  BY <1>3, <1>9, <1>12, Snoc
<1> HIDE DEF g
<1>14. Len(g) = 9 + (k + 1) + N(k + 1)
  BY <1>5, <1>9, <1>13
<1>15. PICK m \in Nat : m = 1 + k + N(k + 1)
  BY <1>5
<1>16. /\ Len(v.crc) = m + 1 /\ v.crc[m + 1] = byte
       /\ \A j \in 1 .. m : v.crc[j] = u.crc[j]
  BY <1>3, <1>6, <1>7, <1>8, <1>12, <1>15
<1>17. m + 1 = 1 + (k + 1) + N(k + 1) /\ n = m + 8
  BY <1>5, <1>9, <1>15
<1>18. \A j \in 1 .. m + 1 : v.crc[j] = g[8 + j]
  <2> SUFFICES ASSUME NEW j \in 1 .. m + 1 PROVE v.crc[j] = g[8 + j]
    OBVIOUS
  <2>1. CASE j = m + 1
    <3>1. 8 + j = n + 1
      BY <1>9, <1>15, <1>17, <2>1
    <3> QED
      BY <1>13, <1>16, <2>1, <3>1
  <2>2. CASE j \in 1 .. m
    <3>1. 8 + j \in 1 .. n
      BY <1>9, <1>15, <1>17, <2>2
    <3>2. u.crc[j] = f1[8 + j]
      BY <1>3, <1>15, <2>2
    <3> QED
      BY <1>13, <1>16, <2>2, <3>1, <3>2
  <2> QED
    BY <1>15, <2>1, <2>2
<1>19. Len(v.adler) = k + 1 /\ \A i \in 1 .. k + 1 : v.adler[i] = RawByte(i)
  <2>1. v.adler = Append(u.adler, byte)
    BY <1>7, <1>8
  <2>2. Len(v.adler) = k + 1 /\ v.adler[k + 1] = byte /\ \A i \in 1 .. k : v.adler[i] = u.adler[i]
    BY <1>3, <1>5, <1>6, <1>12, <2>1
  <2>3. \A i \in 1 .. k + 1 : i = k + 1 \/ i \in 1 .. k
    BY <1>5
  <2> QED
    BY <1>3, <2>2, <2>3 DEF byte
<1>20. v.raw = R - (k + 1) /\ v.block = Left(k + 1)
  <2>1. R - (k + 1) = (R - k) - 1
    BY LeftFacts
  <2>2. PICK x : x = Left(k + 1) /\ x \in Int
    <3>1. Free(k + 1) \in Int /\ R \in Int
      BY <1>4, <1>5, Blocks, FormatNumbers
    <3>2. Left(k + 1) \in Int
      BY <1>4, <1>5, <3>1 DEF Left
    <3> QED
      BY <3>2
  <2>3. u.block = x + 1
    BY <1>3, <2>2
  <2> QED
    BY <1>3, <1>7, <1>8, <2>1, <2>2, <2>3
<1>21. Len(v.crc) = 1 + (k + 1) + N(k + 1)
       /\ \A j \in 1 .. 1 + (k + 1) + N(k + 1) : v.crc[j] = g[8 + j]
  BY <1>16, <1>17, <1>18
<1>22. Stream(v, g, k + 1)
  BY <1>8, <1>11, <1>14, <1>19, <1>20, <1>21, Zenon DEF Stream
<1> QED
  BY <1>1, <1>22 DEF byte

(* What comes after the raw image is not the raw image's concern.          *)
LEMMA PartLonger ==
  ASSUME format \in Format, NEW f, Part(f), NEW n \in Nat, Len(f) = n, n >= 9 + R + N(R),
         NEW x \in Token
  PROVE  Part(f \o <<x>>)
<1>1. PICK r \in Nat \ {0} : r = R
  BY FormatNumbers
<1>2. PICK y \in Nat : y = N(r)
  BY <1>1, Blocks
<1>3. ASSUME NEW i \in 1 .. R PROVE 9 + i + N(i) # n + 1
  <2>1. i \in Nat /\ i <= r
    BY <1>1
  <2>2. PICK z \in Nat : z = N(i)
    BY <2>1, Blocks
  <2>3. z <= y
    BY <1>1, <1>2, <2>1, <2>2, BlocksGrow
  <2>4. n >= 9 + r + y
    BY <1>1, <1>2
  <2>5. 9 + i + z # n + 1
    BY <1>1, <2>1, <2>3, <2>4
  <2> QED
    BY <2>2, <2>5
<1>4. ASSUME NEW i \in 0 .. R - 1, Free(i) = 0 PROVE 10 + i + N(i) # n + 1
  <2>1. i \in Nat /\ i + 1 <= r /\ i + 1 \in Nat
    BY <1>1
  <2>2. PICK z \in Nat : z = N(i)
    BY <2>1, Blocks
  <2>3. N(i + 1) = z + 1
    BY <1>4, <2>1, <2>2, Blocks
  <2>4. z + 1 <= y
    BY <1>1, <1>2, <2>1, <2>3, BlocksGrow
  <2>5. n >= 9 + r + y
    BY <1>1, <1>2
  <2>6. 10 + i + z # n + 1
    BY <1>1, <2>1, <2>4, <2>5
  <2> QED
    BY <2>2, <2>6
<1>5. n >= 9
  BY <1>1, <1>2
<1>6. Fits(f, n, x)
  BY <1>3, <1>4, <1>5 DEF Fits
<1> QED
  BY <1>6, PartGrows

(* Cut short, it is still a file of the picture.                           *)
LEMMA PartHead ==
  ASSUME format \in Format, NEW a \in Seq(Token), NEW b \in Seq(Token), Part(a \o b)
  PROVE  Part(a)
<1>1. R \in Nat /\ \A i \in Nat : N(i) \in Nat
  BY FormatNumbers, Blocks
<1>2. /\ Len(a \o b) = Len(a) + Len(b) /\ Len(a) \in Nat /\ Len(b) \in Nat
      /\ \A i \in 1 .. Len(a) : (a \o b)[i] = a[i]
  OBVIOUS
<1> DEFINE g == a \o b
<1>3. /\ \A p \in 1 .. 9 : p <= Len(g) => g[p] = Prologue[p]
      /\ \A i \in 1 .. R : 9 + i + N(i) <= Len(g) => g[9 + i + N(i)] = RawByte(i)
      /\ \A i \in 0 .. R - 1 :
           Free(i) = 0 /\ 10 + i + N(i) <= Len(g) => g[10 + i + N(i)] = BlockAt(i)
  BY DEF Part
<1> HIDE DEF g
<1>4. /\ Len(g) \in Nat /\ Len(a) <= Len(g) /\ Len(a) \in Nat
      /\ \A i \in 1 .. Len(a) : g[i] = a[i]
  BY <1>2 DEF g
<1>5. ASSUME NEW p \in 1 .. 9, p <= Len(a) PROVE a[p] = Prologue[p]
  BY <1>3, <1>4, <1>5
<1>6. ASSUME NEW i \in 1 .. R, 9 + i + N(i) <= Len(a) PROVE a[9 + i + N(i)] = RawByte(i)
  <2>1. PICK p \in Nat : p = 9 + i + N(i) /\ p >= 1
    BY <1>1
  <2>2. p \in 1 .. Len(a) /\ p <= Len(g)
    BY <1>4, <1>6, <2>1
  <2>3. g[p] = RawByte(i)
    BY <1>3, <2>1, <2>2
  <2> QED
    BY <1>4, <2>1, <2>2, <2>3
<1>7. ASSUME NEW i \in 0 .. R - 1, Free(i) = 0, 10 + i + N(i) <= Len(a)
      PROVE  a[10 + i + N(i)] = BlockAt(i)
  <2>1. PICK p \in Nat : p = 10 + i + N(i) /\ p >= 1
    BY <1>1
  <2>2. p \in 1 .. Len(a) /\ p <= Len(g)
    BY <1>4, <1>7, <2>1
  <2>3. g[p] = BlockAt(i)
    BY <1>3, <1>7, <2>1, <2>2
  <2> QED
    BY <1>4, <2>1, <2>2, <2>3
<1> QED
  BY <1>5, <1>6, <1>7 DEF Part

LEMMA Prefix ==
  ASSUME NEW S, NEW f \in Seq(S), NEW n \in 0 .. Len(f)
  PROVE  \E b \in Seq(S) : f = SubSeq(f, 1, n) \o b
<1>1. PICK m \in Nat : m = Len(f)
  OBVIOUS
<1>2. SubSeq(f, n + 1, m) \in Seq(S)
  BY <1>1
<1>3. SubSeq(f, 1, n) \o SubSeq(f, n + 1, m) = SubSeq(f, 1, m)
  <2>1. 1 \in 1 .. Len(f) + 1 /\ n \in 1 - 1 .. Len(f) /\ m \in n .. Len(f)
    BY <1>1
  <2>2. PICK one : one = 1
    OBVIOUS
  <2>3. SubSeq(f, one, n) \o SubSeq(f, n + 1, m) = SubSeq(f, one, m)
    BY <2>1, <2>2, ConcatAdjacentSubSeq
  <2> QED
    BY <2>2, <2>3
<1>4. SubSeq(f, 1, m) = f
  BY <1>1, SubSeqFull
<1> QED
  BY <1>2, <1>3, <1>4

(* Wherever f_write failed, the file is the beginning of what the writer   *)
(* was told to write; where it never did, it is all of it.                 *)
LEMMA OutPart ==
  ASSUME format \in Format, NEW w, NEW f, Writes(w, f), Part(f)
  PROVE  /\ Part(w.out)
         /\ ~w.error /\ w.buf = << >> => w.out = f
<1>1. w \in Writer /\ f \in Seq(Token) /\ w.out \in Seq(Token) /\ w.buf \in Seq(Token)
  BY DEF Writes, Writer
<1>2. CASE w.error
  <2>1. PICK n \in 0 .. Len(f) : w.out = SubSeq(f, 1, n)
    BY <1>2 DEF Writes
  <2>2. PICK b \in Seq(Token) : f = SubSeq(f, 1, n) \o b
    BY <1>1, Prefix
  <2>3. Part(w.out \o b)
    BY <2>1, <2>2
  <2> QED
    BY <1>1, <1>2, <2>3, PartHead
<1>3. CASE ~w.error
  <2>1. f = w.out \o w.buf
    BY <1>3 DEF Writes
  <2>2. Part(w.out)
    BY <1>1, <2>1, PartHead
  <2>3. w.buf = << >> => w.out = f
    BY <1>1, <2>1, Whole
  <2> QED
    BY <2>2, <2>3
<1> QED
  BY <1>2, <1>3

(* A whole file: the raw image, its checksum and the chunks after it.      *)
Complete(f) ==
  /\ Part(f)
  /\ \E n \in Nat :
       /\ n = 10 + R + N(R) /\ Len(f) = n + 3
       /\ f[n] = Adler(RawImage)
       /\ f[n + 1] = Crc("IDAT", SubSeq(f, 9, n))
       /\ f[n + 2] = ChunkHead("IEND", 0)
       /\ f[n + 3] = Crc("IEND", << >>)

LEMMA RawImageFields ==
  ASSUME format \in Format
  PROVE  /\ RawImage \in Seq(Byte) /\ Len(RawImage) = R
         /\ \A i \in 1 .. R : RawImage[i] = RawByte(i)
<1>1. PICK r \in Nat \ {0} : r = R
  BY FormatNumbers
<1>2. \A i \in 1 .. r : RawByte(i) \in Byte
  <2>1. \A i \in 1 .. r : i \in Nat
    OBVIOUS
  <2> QED
    BY <2>1, Tokens
<1>3. RawImage = [i \in 1 .. r |-> RawByte(i)]
  BY <1>1 DEF RawImage, R
<1>4. RawImage \in Seq(Byte) /\ Len(RawImage) = r /\ \A i \in 1 .. r : RawImage[i] = RawByte(i)
  BY <1>2, <1>3
<1> QED
  BY <1>1, <1>4

(* png_writer_end completes the file.                                      *)
LEMMA FinishWrites ==
  ASSUME NoFault \in Nat, format \in Format, NEW w, NEW f, Stream(w, f, R)
  PROVE  \E g : Writes(Finish(w), g) /\ Complete(g) /\ Finish(w).buf = << >>
<1>1. /\ Writes(w, f) /\ Part(f) /\ Len(f) = 9 + R + N(R)
      /\ Len(w.adler) = R /\ \A i \in 1 .. R : w.adler[i] = RawByte(i)
      /\ Len(w.crc) = 1 + R + N(R) /\ \A j \in 1 .. 1 + R + N(R) : w.crc[j] = f[8 + j]
  BY DEF Stream
<1>2. PICK r \in Nat \ {0} : r = R
  BY FormatNumbers
<1>3. PICK n \in Nat : n = 10 + R + N(R) /\ n >= 10
  BY <1>2, Blocks
<1>4. Len(f) = n - 1 /\ Len(w.crc) = n - 9 /\ \A j \in 1 .. n - 9 : w.crc[j] = f[8 + j]
  <2>1. 9 + R + N(R) = n - 1 /\ 1 + R + N(R) = n - 9
    BY <1>2, <1>3, Blocks
  <2> QED
    BY <1>1, <2>1
<1>5. w.adler \in Seq(Byte) /\ w.crc \in Seq(Field) /\ f \in Seq(Token)
  BY <1>1 DEF Writes, Writer
<1>6. w.adler = RawImage
  <2>1. /\ RawImage \in Seq(Byte) /\ Len(RawImage) = Len(w.adler)
        /\ \A i \in 1 .. Len(w.adler) : w.adler[i] = RawImage[i]
    BY <1>1, RawImageFields
  <2> QED
    BY <1>5, <2>1, SeqEqual
<1> DEFINE t == Adler(w.adler)
           summed == Emit(w, t)
           z == Crc("IDAT", summed.crc)
           s1 == Raw(summed, <<z>>)
           s2 == Chunk(s1, "IEND", << >>)
           v == Flush(s2)
           f1 == f \o <<t>>
           f2 == f1 \o <<z>>
           f3 == f2 \o <<ChunkHead("IEND", 0)>>
           f4 == f3 \o <<Crc("IEND", << >>)>>
<1>7. Finish(w) = v
  BY DEF Finish
<1>8. t \in Field /\ t \in Token /\ t = Adler(RawImage)
  BY <1>5, <1>6, Tokens
<1> HIDE DEF t
<1>9. Writes(summed, f1) /\ summed.crc = Append(w.crc, t)
  BY <1>1, <1>8, EmitWrites
<1> HIDE DEF summed
<1>10. summed.crc \in Seq(Field)
  BY <1>9 DEF Writes, Writer
<1>11. z \in Token
  BY <1>10, Tokens DEF ChunkType
<1> HIDE DEF z
<1>12. Writes(s1, f2)
  <2>1. <<z>> \in Seq(Token)
    BY <1>11
  <2> HIDE DEF f1
  <2> QED
    BY <1>9, <2>1, RawWrites
<1> HIDE DEF s1
<1>13. /\ f1 \in Seq(Token) /\ f2 \in Seq(Token) /\ f3 \in Seq(Token) /\ f4 \in Seq(Token)
       /\ Crc("IEND", << >>) \in Token /\ ChunkHead("IEND", 0) \in Token
  <2>1. << >> \in Seq(Field) /\ "IEND" \in ChunkType /\ 0 \in Nat
    BY DEF ChunkType
  <2>2. Crc("IEND", << >>) \in Token /\ ChunkHead("IEND", 0) \in Token
    BY <2>1, Tokens
  <2>3. f1 \in Seq(Token) /\ f2 \in Seq(Token)
    BY <1>9, <1>12 DEF Writes
  <2> HIDE DEF f2
  <2>4. f3 \in Seq(Token)
    BY <2>2, <2>3
  <2> HIDE DEF f3
  <2>5. f4 \in Seq(Token)
    BY <2>2, <2>4
  <2> QED
    BY <2>2, <2>3, <2>4, <2>5
<1>14. Writes(s2, f4)
  <2>1. << >> \in Seq(Field) /\ "IEND" \in ChunkType /\ Len(<< >>) = 0
    BY DEF ChunkType
  <2> HIDE DEF f2
  <2>2. Writes(s2, ((f2 \o <<ChunkHead("IEND", Len(<< >>))>>) \o << >>) \o <<Crc("IEND", << >>)>>)
    BY <1>12, <2>1, ChunkWrites
  <2>3. (f2 \o <<ChunkHead("IEND", 0)>>) \o << >> = f3
    <3> HIDE DEF f3
    <3>1. f3 \o << >> = f3
      BY <1>13, Whole
    <3> QED
      BY <3>1 DEF f3
  <2> QED
    BY <2>1, <2>2, <2>3
<1> HIDE DEF s2
<1>15. Writes(v, f4) /\ v.buf = << >>
  <2> HIDE DEF f4
  <2> QED
    BY <1>14, FlushWrites
<1> HIDE DEF v
<1>16. Len(f1) = n /\ f1[n] = t /\ \A i \in 1 .. n - 1 : f1[i] = f[i]
  BY <1>3, <1>4, <1>5, Snoc
<1> HIDE DEF f1
<1>17. Len(f2) = n + 1 /\ f2[n + 1] = z /\ \A i \in 1 .. n : f2[i] = f1[i]
  BY <1>13, <1>16, Snoc
<1> HIDE DEF f2
<1>18. Len(f3) = n + 2 /\ f3[n + 2] = ChunkHead("IEND", 0) /\ \A i \in 1 .. n + 1 : f3[i] = f2[i]
  BY <1>13, <1>17, Snoc
<1> HIDE DEF f3
<1>19. Len(f4) = n + 3 /\ f4[n + 3] = Crc("IEND", << >>) /\ \A i \in 1 .. n + 2 : f4[i] = f3[i]
  BY <1>13, <1>18, Snoc
<1>20. Part(f4)
  <2>1. Part(f1)
    <3>1. n - 1 \in Nat /\ n - 1 >= 9 + R + N(R)
      BY <1>2, <1>3, Blocks
    <3> QED
      BY <1>1, <1>4, <1>8, <3>1, PartLonger DEF f1
  <2>2. n >= 9 + R + N(R) /\ n + 1 >= 9 + R + N(R) /\ n + 2 >= 9 + R + N(R)
        /\ n + 1 \in Nat /\ n + 2 \in Nat
    BY <1>2, <1>3, Blocks
  <2>3. Part(f2)
    BY <1>11, <1>16, <2>1, <2>2, PartLonger DEF f2
  <2>4. Part(f3)
    BY <1>13, <1>17, <2>2, <2>3, PartLonger DEF f3
  <2> QED
    BY <1>13, <1>18, <2>2, <2>4, PartLonger
<1> HIDE DEF f4
<1>21. f4[n] = t /\ f4[n + 1] = z /\ f4[n + 2] = ChunkHead("IEND", 0)
       /\ \A i \in 1 .. n : f4[i] = f1[i]
  BY <1>3, <1>16, <1>17, <1>18, <1>19
<1>22. summed.crc = SubSeq(f4, 9, n)
  <2>1. PICK m \in Nat : m = n - 8 /\ m >= 2
    BY <1>3
  <2>2. /\ Len(summed.crc) = m /\ summed.crc[m] = t
        /\ \A j \in 1 .. m - 1 : summed.crc[j] = w.crc[j]
    BY <1>3, <1>4, <1>5, <1>8, <1>9, <2>1
  <2>3. ASSUME NEW j \in 1 .. m PROVE summed.crc[j] = f4[8 + j]
    <3>1. CASE j = m
      <4>1. 8 + j = n
        BY <2>1, <3>1
      <4> QED
        BY <1>21, <2>2, <3>1, <4>1
    <3>2. CASE j \in 1 .. m - 1
      <4>1. j \in 1 .. n - 9 /\ 8 + j \in 1 .. n - 1 /\ 8 + j \in 1 .. n
        BY <2>1, <3>2
      <4> QED
        BY <1>4, <1>16, <1>21, <2>2, <3>2, <4>1
    <3> QED
      BY <2>1, <3>1, <3>2
  <2>4. \A i \in 9 .. n : f4[i] \in Token
    BY <1>13, <1>19
  <2> DEFINE y == SubSeq(f4, 9, n)
  <2>5. y \in Seq(Token) /\ Len(y) = m /\ \A j \in 1 .. m : y[j] = f4[9 + j - 1]
    BY <1>3, <2>1, <2>4, SubSeqProperties
  <2> HIDE DEF y
  <2>6. \A j \in 1 .. m : summed.crc[j] = y[j]
    <3> SUFFICES ASSUME NEW j \in 1 .. m PROVE summed.crc[j] = y[j]
      OBVIOUS
    <3>1. 9 + j - 1 = 8 + j
      OBVIOUS
    <3> QED
      BY <2>3, <2>5, <3>1
  <2>7. summed.crc = y
    <3>1. Field \subseteq Token
      BY Tokens
    <3>2. summed.crc \in Seq(Token)
      BY <1>10, <3>1
    <3> QED
      BY <2>2, <2>5, <2>6, <3>2, SeqEqual
  <2> QED
    BY <2>7 DEF y
<1>23. Complete(f4)
  <2>1. z = Crc("IDAT", SubSeq(f4, 9, n))
    BY <1>22 DEF z
  <2> QED
    BY <1>3, <1>8, <1>19, <1>20, <1>21, <2>1 DEF Complete
<1> QED
  BY <1>7, <1>15, <1>23

-----------------------------------------------------------------------------
(* Recursive functions are what their definition says: by induction on the *)
(* argument, there is a function that satisfies it.                        *)

(* Every set of numbers has a least one.                                   *)
LEMMA Least ==
  ASSUME NEW T \in SUBSET Nat, T # {}
  PROVE  \E x \in T : \A y \in T : x <= y
<1> DEFINE Q == OpToRel(<, Nat)
<1>1. IsWellFoundedOn(Q, Nat)
  BY NatLessThanWellFounded
<1>2. \A x, y \in Nat : x < y => <<x, y>> \in Q
  BY Zenon DEF OpToRel
<1> HIDE DEF Q
<1>3. PICK x \in T : \A y \in T : ~(<<y, x>> \in Q)
  BY <1>1, WFMin
<1>4. ASSUME NEW y \in T PROVE x <= y
  <2>1. x \in Nat /\ y \in Nat
    OBVIOUS
  <2>2. y < x => <<y, x>> \in Q
    BY <1>2, <2>1
  <2> QED
    BY <1>3, <2>1, <2>2
<1> QED
  BY <1>4

(* Induction as a fact about sets: the theorems of the library on an       *)
(* operator cannot be instantiated.                                        *)
LEMMA Induction ==
  ASSUME NEW n \in Nat, NEW S, 0 \in S,
         \A i \in 1 .. n : i - 1 \in S => i \in S
  PROVE  \A i \in 0 .. n : i \in S
<1> DEFINE T == {i \in 0 .. n : i \notin S}
<1> SUFFICES ASSUME T # {} PROVE FALSE
  OBVIOUS
<1>1. T \in SUBSET Nat
  OBVIOUS
<1>2. PICK x \in T : \A y \in T : x <= y
  BY <1>1, Least
<1>3. x \in 1 .. n /\ x - 1 \notin T
  BY <1>2
<1> QED
  BY <1>2, <1>3

-----------------------------------------------------------------------------
ReadState == [ok : BOOLEAN, pos : Int, block : Int]
ReadFirst(data) == [ok |-> At(data, 1) = Zlib, pos |-> 1, block |-> 0]
ReadByte(data, s) ==
  IF s.block > 0 THEN [s EXCEPT !.pos = @ + 1, !.block = @ - 1]
  ELSE IF At(data, s.pos + 1)[1] = "block"
       THEN [s EXCEPT !.pos = @ + 2, !.block = At(data, s.pos + 1)[3] - 1]
  ELSE [ok |-> FALSE, pos |-> 0, block |-> 0]
ReadNext(data, s) == IF s.ok THEN ReadByte(data, s) ELSE s

Reads(data, r) ==
  /\ r = [i \in 0 .. R |-> r[i]]
  /\ r[0] = ReadFirst(data)
  /\ \A i \in 1 .. R : r[i] = ReadNext(data, r[i - 1])

(* The function the reader is defined by exists, since each value needs    *)
(* those below it alone.                                                   *)
LEMMA ReadsExist ==
  ASSUME format \in Format, NEW data
  PROVE  \E r : Reads(data, r)
<1>1. PICK n \in Nat : n = R
  BY FormatNumbers
<1> DEFINE Upto(m, f) == /\ f = [i \in 0 .. n |-> f[i]]
                         /\ f[0] = ReadFirst(data)
                         /\ \A i \in 1 .. m : f[i] = ReadNext(data, f[i - 1])
           S == {m \in 0 .. n : \E f : Upto(m, f)}
<1>2. \E f : Upto(0, f)
  <2> DEFINE f == [i \in 0 .. n |-> ReadFirst(data)]
  <2>1. Upto(0, f)
    OBVIOUS
  <2> HIDE DEF f, Upto
  <2> QED
    BY <2>1
<1>3. ASSUME NEW m \in 1 .. n, NEW f, Upto(m - 1, f)
      PROVE  \E g : Upto(m, g)
  <2> DEFINE g == [i \in 0 .. n |-> IF i = m THEN ReadNext(data, f[m - 1]) ELSE f[i]]
  <2>1. /\ g = [i \in 0 .. n |-> g[i]]
        /\ g[0] = ReadFirst(data)
    BY <1>3
  <2>2. ASSUME NEW i \in 1 .. m PROVE g[i] = ReadNext(data, g[i - 1])
    <3>1. i \in 0 .. n /\ i - 1 \in 0 .. n /\ i - 1 # m
      OBVIOUS
    <3>2. g[i - 1] = f[i - 1]
      BY <3>1
    <3>3. CASE i = m
      BY <3>1, <3>2, <3>3
    <3>4. CASE i # m
      <4>1. i \in 1 .. m - 1
        BY <3>4
      <4>2. f[i] = ReadNext(data, f[i - 1])
        BY <1>3, <4>1
      <4> QED
        BY <3>1, <3>2, <3>4, <4>2
    <3> QED
      BY <3>3, <3>4
  <2>3. Upto(m, g)
    BY <2>1, <2>2
  <2> HIDE DEF g, Upto
  <2> QED
    BY <2>3
<1> HIDE DEF Upto
<1>4. \A i \in 0 .. n : i \in S
  <2>1. 0 \in S
    BY <1>2
  <2>2. ASSUME NEW m \in 1 .. n, m - 1 \in S PROVE m \in S
    BY <1>3, <2>2
  <2> HIDE DEF S
  <2> QED
    BY <2>1, <2>2, Induction
<1>5. PICK f : Upto(n, f)
  BY <1>4
<1>6. Reads(data, f)
  BY <1>1, <1>5 DEF Upto, Reads
<1> QED
  BY <1>6

(* So DecodeIdat is what its steps say.                                    *)
LEMMA DecodeReads ==
  ASSUME format \in Format, NEW data
  PROVE  \E r : /\ Reads(data, r)
                /\ DecodeIdat(data) =
                     IF /\ r[R].ok
                        /\ \A i \in 1 .. R :
                             /\ At(data, r[i].pos) # <<"eof">>
                             /\ RawByte(i) = <<"filter">> => At(data, r[i].pos) = <<"filter">>
                     THEN [i \in 1 .. R |-> At(data, r[i].pos)] ELSE Nothing
<1> DEFINE Step(f) ==
      [i \in 0 .. RawLength |->
         IF i = 0 THEN ReadFirst(data)
         ELSE CHOOSE q \in {ReadNext(data, s) : s \in {f[i - 1]}} : TRUE]
           read == CHOOSE f : f = Step(f)
           bytes == [i \in 1 .. RawLength |-> At(data, read[i].pos)]
<1>1. DecodeIdat(data) =
        IF /\ read[RawLength].ok
           /\ \A i \in 1 .. RawLength :
                /\ bytes[i] # <<"eof">>
                /\ RawByte(i) = <<"filter">> => bytes[i] = <<"filter">>
        THEN bytes ELSE Nothing
  BY DEF DecodeIdat, ReadFirst, ReadNext, ReadByte
<1>2. \A f : \A i \in 1 .. R :
        (CHOOSE q \in {ReadNext(data, s) : s \in {f[i - 1]}} : TRUE) =
          ReadNext(data, f[i - 1])
  OBVIOUS
<1>3. PICK r \in Nat : r = RawLength /\ r = R
  BY FormatNumbers DEF R
<1>4. ASSUME NEW f, Reads(data, f) PROVE f = Step(f)
  <2>1. f = [i \in 0 .. r |-> f[i]]
    BY <1>3, <1>4, Zenon DEF Reads
  <2>2. ASSUME NEW i \in 0 .. r PROVE Step(f)[i] = f[i]
    <3>1. CASE i = 0
      BY <1>3, <1>4, <3>1, Zenon DEF Reads
    <3>2. CASE i # 0
      <4>1. i \in 1 .. R
        BY <1>3, <3>2
      <4>2. f[i] = ReadNext(data, f[i - 1])
        BY <1>4, <4>1, Zenon DEF Reads
      <4> QED
        BY <1>2, <1>3, <3>2, <4>1, <4>2, Zenon
    <3> QED
      BY <3>1, <3>2
  <2>3. Step(f) = [i \in 0 .. r |-> Step(f)[i]]
    BY <1>3, Zenon
  <2> HIDE DEF Step
  <2> QED
    BY <2>1, <2>2, <2>3, Zenon
<1>5. \E f : f = Step(f)
  BY <1>4, ReadsExist
<1> HIDE DEF Step
<1>6. read = Step(read)
  BY <1>5
<1> USE DEF Step
<1> HIDE DEF read
<1>7. Reads(data, read)
  <2>1. read = [i \in 0 .. R |-> read[i]]
    BY <1>3, <1>6, Zenon
  <2>2. read[0] = ReadFirst(data)
    <3>1. 0 \in 0 .. RawLength
      BY <1>3
    <3> QED
      BY <1>6, <3>1, Zenon
  <2>3. ASSUME NEW i \in 1 .. R PROVE read[i] = ReadNext(data, read[i - 1])
    <3>1. i \in 0 .. RawLength /\ i # 0
      BY <1>3
    <3>2. read[i] = CHOOSE q \in {ReadNext(data, s) : s \in {read[i - 1]}} : TRUE
      BY <1>6, <3>1, Zenon
    <3> QED
      BY <1>2, <3>2, Zenon
  <2> QED
    BY <2>1, <2>2, <2>3 DEF Reads
<1>8. \A i \in 1 .. R : bytes[i] = At(data, read[i].pos)
  BY <1>3
<1> QED
  BY <1>1, <1>3, <1>7, <1>8

-----------------------------------------------------------------------------
(* The preview, on a file of the picture however far it goes.              *)

(* The data of IDAT in a file, as far as they go.                          *)
DataOf(data, f) ==
  /\ Part(f) /\ Len(data) \in Nat /\ Len(data) + 8 <= Len(f)
  /\ \A i \in 1 .. Len(data) : data[i] = f[8 + i]

Reached(s, k) == s.ok => s.pos = 1 + k + N(k) /\ s.block = Left(k)

(* idatReadRawByte on a file of the picture: it fails or is at the place   *)
(* of the next byte.                                                       *)
LEMMA ReadStep ==
  ASSUME format \in Format, NEW data, NEW f, DataOf(data, f),
         NEW k \in 0 .. R - 1, NEW s \in ReadState, Reached(s, k)
  PROVE  /\ ReadNext(data, s) \in ReadState /\ Reached(ReadNext(data, s), k + 1)
         /\ s.ok /\ Len(data) >= R + N(R) => ReadNext(data, s).ok
<1>1. PICK r \in Nat \ {0} : r = R
  BY FormatNumbers
<1>2. PICK b \in Nat \ {0} : b = format.block
  BY FormatNumbers
<1>3. k \in Nat /\ k + 1 \in Nat /\ r - k \in Nat /\ r - k >= 1 /\ k + 1 <= r
  BY <1>1
<1>4. PICK x \in Nat : x = N(k)
  BY <1>3, Blocks
<1>5. PICK y \in Nat : y = N(k + 1)
  BY <1>3, Blocks
<1>6. PICK v \in Int : v = Left(k)
  BY <1>1, <1>3, Blocks DEF Left
<1>7. PICK u \in Int : u = Left(k + 1)
  BY <1>1, <1>3, Blocks DEF Left
<1>8. /\ v = 0 <=> Free(k) = 0
      /\ Free(k) = 0 => y = x + 1 /\ u + 1 = IF r - k <= b THEN r - k ELSE b
      /\ Free(k) # 0 => y = x /\ v > 0 /\ u + 1 = v
  BY <1>1, <1>2, <1>4, <1>5, <1>6, <1>7, LeftFacts
<1> DEFINE next == ReadNext(data, s)
<1>9. CASE ~s.ok
  <2>1. next = s
    BY <1>9 DEF ReadNext
  <2> QED
    BY <1>9, <2>1, Zenon DEF Reached
<1>10. CASE s.ok
  <2>1. next = ReadByte(data, s)
    BY <1>10 DEF ReadNext
  <2> HIDE DEF next
  <2>2. s.pos = 1 + k + x /\ s.block = v
    BY <1>4, <1>6, <1>10 DEF Reached
  <2>3. CASE Free(k) # 0
    <3>1. s.block > 0
      BY <1>8, <2>2, <2>3
    <3>2. next = [s EXCEPT !.pos = @ + 1, !.block = @ - 1]
      BY <2>1, <3>1 DEF ReadByte
    <3>3. s.pos + 1 \in Int /\ s.block - 1 \in Int
      BY DEF ReadState
    <3>4. next \in ReadState /\ next.pos = s.pos + 1 /\ next.block = s.block - 1
      BY <3>2, <3>3, Zenon DEF ReadState
    <3>5. next.ok = s.ok
      BY <3>2, Zenon DEF ReadState
    <3>6. next.pos = 1 + (k + 1) + y /\ next.block = u
      BY <1>3, <1>8, <2>2, <2>3, <3>4
    <3>7. Reached(next, k + 1)
      BY <1>5, <1>7, <3>6 DEF Reached
    <3> QED
      BY <1>10, <3>4, <3>5, <3>7 DEF next
  <2>4. CASE Free(k) = 0
    <3> DEFINE h == At(data, s.pos + 1)
    <3>1. ~(s.block > 0)
      BY <1>8, <2>2, <2>4
    <3>2. next = IF h[1] = "block" THEN [s EXCEPT !.pos = @ + 2, !.block = h[3] - 1]
                 ELSE [ok |-> FALSE, pos |-> 0, block |-> 0]
      BY <2>1, <3>1 DEF ReadByte
    <3> HIDE DEF h
    <3>3. CASE s.pos + 1 \in 1 .. Len(data)
      <4>1. h = BlockAt(k)
        <5>1. PICK p \in Nat : p = 10 + k + x
          BY <1>3, <1>4
        <5>2. 8 + (s.pos + 1) = p /\ p <= Len(f)
          BY <1>3, <2>2, <3>3, <5>1 DEF DataOf, Part
        <5>3. h = f[p]
          BY <3>3, <5>2 DEF h, At, DataOf
        <5>4. Part(f) /\ k \in 0 .. R - 1 /\ 10 + k + N(k) <= Len(f) /\ p = 10 + k + N(k)
          BY <1>4, <5>1, <5>2 DEF DataOf
        <5>5. f[10 + k + N(k)] = BlockAt(k)
          BY <2>4, <5>4, Zenon DEF Part
        <5> QED
          BY <5>3, <5>4, <5>5
      <4>2. h[1] = "block" /\ h[3] = (IF r - k <= b THEN r - k ELSE b)
        BY <1>1, <1>2, <4>1 DEF BlockAt, BlockHead
      <4>3. h[3] = u + 1
        BY <1>8, <2>4, <4>2
      <4>4. next = [s EXCEPT !.pos = @ + 2, !.block = h[3] - 1]
        BY <3>2, <4>2
      <4>5. s.pos + 2 \in Int /\ h[3] - 1 \in Int /\ h[3] - 1 = u
        BY <4>3 DEF ReadState
      <4>6. next \in ReadState /\ next.pos = s.pos + 2 /\ next.block = h[3] - 1
        BY <4>4, <4>5, Zenon DEF ReadState
      <4>7. next.ok = s.ok
        BY <4>4, Zenon DEF ReadState
      <4>8. next.pos = 1 + (k + 1) + y /\ next.block = u
        BY <1>3, <1>8, <2>2, <2>4, <4>5, <4>6
      <4>9. Reached(next, k + 1)
        BY <1>5, <1>7, <4>8 DEF Reached
      <4> QED
        BY <1>10, <4>6, <4>7, <4>9 DEF next
    <3>4. CASE ~(s.pos + 1 \in 1 .. Len(data))
      <4>1. h[1] # "block"
        BY <3>4 DEF h, At
      <4>2. next = [ok |-> FALSE, pos |-> 0, block |-> 0]
        BY <3>2, <4>1
      <4>3. next \in ReadState
        BY <4>2 DEF ReadState
      <4>4. ~next.ok
        BY <4>2, Zenon
      <4>5. Len(data) < R + N(R)
        <5>1. PICK z \in Nat : z = N(r)
          BY <1>1, Blocks
        <5>2. y <= z
          BY <1>1, <1>3, <1>5, <5>1, BlocksGrow
        <5>3. Len(data) \in Nat
          BY DEF DataOf
        <5>4. Len(data) < r + z
          BY <1>3, <1>8, <2>2, <2>4, <3>4, <5>2, <5>3
        <5> QED
          BY <1>1, <5>1, <5>4
      <4>6. ~(Len(data) >= R + N(R))
        <5>1. PICK z \in Nat : z = N(r)
          BY <1>1, Blocks
        <5>2. Len(data) \in Nat
          BY DEF DataOf
        <5> QED
          BY <1>1, <4>5, <5>1, <5>2
      <4> QED
        BY <4>3, <4>4, <4>6 DEF next, Reached
    <3> QED
      BY <3>3, <3>4
  <2> QED
    BY <2>3, <2>4
<1> QED
  BY <1>9, <1>10

LEMMA ReadRecord ==
  ASSUME NEW c \in BOOLEAN
  PROVE  [ok |-> c, pos |-> 1, block |-> 0] \in ReadState
BY DEF ReadState

LEMMA ReadRecordOk ==
  ASSUME NEW c \in BOOLEAN, c
  PROVE  [ok |-> c, pos |-> 1, block |-> 0].ok
BY Zenon

(* After k bytes the reader is where the writer was.                       *)
LEMMA ReadsReach ==
  ASSUME format \in Format, NEW data, NEW f, DataOf(data, f), NEW r, Reads(data, r)
  PROVE  \A i \in 0 .. R :
           /\ r[i] \in ReadState /\ Reached(r[i], i)
           /\ Len(data) >= 1 + R + N(R) => r[i].ok
<1>1. PICK n \in Nat \ {0} : n = R
  BY FormatNumbers
<1>2. Len(data) >= 1 + R + N(R) => Len(data) >= R + N(R) /\ 1 \in 1 .. Len(data)
  <2>1. PICK z \in Nat : z = N(n)
    BY <1>1, Blocks
  <2>2. Len(data) \in Nat
    BY DEF DataOf
  <2> QED
    BY <1>1, <2>1, <2>2
<1> DEFINE S == {i \in 0 .. n :
                   /\ r[i] \in ReadState /\ Reached(r[i], i)
                   /\ Len(data) >= 1 + R + N(R) => r[i].ok}
<1>3. 0 \in S
  <2>1. r[0] = ReadFirst(data)
    BY DEF Reads
  <2>2. r[0] \in ReadState
    <3> DEFINE c == At(data, 1) = Zlib
    <3>1. c \in BOOLEAN
      OBVIOUS
    <3>2. r[0] = [ok |-> c, pos |-> 1, block |-> 0]
      BY <2>1, Zenon DEF ReadFirst
    <3> HIDE DEF c
    <3> QED
      BY <3>1, <3>2, ReadRecord
  <2>3. r[0].pos = 1 /\ r[0].block = 0
    BY <2>1 DEF ReadFirst
  <2>4. At(data, 1) = Zlib => r[0].ok
    <3> DEFINE c == At(data, 1) = Zlib
    <3>1. r[0] = [ok |-> c, pos |-> 1, block |-> 0]
      BY <2>1, Zenon DEF ReadFirst
    <3> HIDE DEF c
    <3>2. c \in BOOLEAN
      BY DEF c
    <3>3. c => r[0].ok
      BY <3>1, <3>2, ReadRecordOk
    <3> QED
      BY <3>3 DEF c
  <2>5. Left(0) = 0 /\ 1 + 0 + N(0) = 1
    BY <1>1, Blocks DEF Left
  <2>6. Reached(r[0], 0)
    BY <2>3, <2>5 DEF Reached
  <2>7. 1 \in 1 .. Len(data) => r[0].ok
    <3> SUFFICES ASSUME 1 \in 1 .. Len(data) PROVE At(data, 1) = Zlib
      BY <2>4, Zenon
    <3>1. At(data, 1) = f[8 + 1]
      BY DEF At, DataOf
    <3>2. 9 <= Len(f)
      BY DEF DataOf, Part
    <3>3. f[9] = Prologue[9]
      BY <3>2 DEF DataOf, Part
    <3>4. Prologue[9] = Zlib
      BY DEF Prologue
    <3> QED
      BY <3>1, <3>3, <3>4
  <2> QED
    BY <1>2, <2>2, <2>6, <2>7
<1>4. ASSUME NEW i \in 1 .. n, i - 1 \in S PROVE i \in S
  <2>1. /\ r[i - 1] \in ReadState /\ Reached(r[i - 1], i - 1)
        /\ Len(data) >= 1 + R + N(R) => r[i - 1].ok
    BY <1>4
  <2>2. PICK k \in 0 .. R - 1 : k = i - 1
    BY <1>1
  <2>3. k + 1 = i
    BY <2>2
  <2>4. r[i] = ReadNext(data, r[k])
    BY <1>1, <2>2 DEF Reads
  <2>5. r[k] \in ReadState /\ Reached(r[k], k) /\ (Len(data) >= 1 + R + N(R) => r[k].ok)
    BY <2>1, <2>2
  <2>6. /\ ReadNext(data, r[k]) \in ReadState /\ Reached(ReadNext(data, r[k]), k + 1)
        /\ r[k].ok /\ Len(data) >= R + N(R) => ReadNext(data, r[k]).ok
    BY <2>5, ReadStep
  <2> QED
    BY <1>2, <2>3, <2>4, <2>5, <2>6
<1> HIDE DEF S
<1>5. \A i \in 0 .. n : i \in S
  BY <1>3, <1>4, Induction
<1> QED
  BY <1>1, <1>5 DEF S

(* The data of IDAT decode to the picture, or to nothing if they end       *)
(* early.                                                                  *)
LEMMA DecodePart ==
  ASSUME format \in Format, NEW data, NEW f, DataOf(data, f)
  PROVE  /\ DecodeIdat(data) \in {Nothing, RawImage}
         /\ Len(data) >= 1 + R + N(R) => DecodeIdat(data) = RawImage
<1>1. PICK n \in Nat \ {0} : n = R
  BY FormatNumbers
<1>2. PICK r : /\ Reads(data, r)
               /\ DecodeIdat(data) =
                     IF /\ r[R].ok
                        /\ \A i \in 1 .. R :
                             /\ At(data, r[i].pos) # <<"eof">>
                             /\ RawByte(i) = <<"filter">> => At(data, r[i].pos) = <<"filter">>
                     THEN [i \in 1 .. R |-> At(data, r[i].pos)] ELSE Nothing
  BY DecodeReads
<1>3. \A i \in 0 .. R :
           /\ r[i] \in ReadState /\ Reached(r[i], i)
           /\ Len(data) >= 1 + R + N(R) => r[i].ok
  BY <1>2, ReadsReach
<1>4. ASSUME r[R].ok PROVE \A i \in 0 .. n : r[i].ok
  <2> DEFINE S == {i \in 0 .. n : r[n - i].ok}
  <2>1. 0 \in S
    BY <1>1, <1>4
  <2>2. ASSUME NEW i \in 1 .. n, i - 1 \in S PROVE i \in S
    <3>1. PICK j \in 1 .. n : j = n - (i - 1) /\ j - 1 = n - i
      OBVIOUS
    <3>2. r[j].ok
      BY <2>2, <3>1
    <3>3. r[j] = ReadNext(data, r[j - 1])
      BY <1>1, <1>2 DEF Reads
    <3>4. r[j - 1].ok
      BY <3>2, <3>3 DEF ReadNext
    <3> QED
      BY <3>1, <3>4
  <2> HIDE DEF S
  <2>3. \A i \in 0 .. n : i \in S
    BY <2>1, <2>2, Induction
  <2>4. ASSUME NEW i \in 0 .. n PROVE r[i].ok
    <3>1. n - i \in 0 .. n /\ n - (n - i) = i
      OBVIOUS
    <3>2. n - i \in S
      BY <2>3, <3>1
    <3> QED
      BY <3>1, <3>2 DEF S
  <2> QED
    BY <2>4
<1>5. ASSUME NEW i \in 1 .. R, r[i].ok
      PROVE  At(data, r[i].pos) \in {<<"eof">>, RawByte(i)}
             /\ (Len(data) >= 1 + R + N(R) => At(data, r[i].pos) = RawByte(i))
  <2>1. i \in Nat /\ i \in 1 .. n
    BY <1>1
  <2>2. PICK x \in Nat : x = N(i)
    BY <2>1, Blocks
  <2>3. PICK p \in Nat : p = 1 + i + x
    BY <2>1
  <2>4. r[i].pos = p
    <3>1. i \in 0 .. R
      BY <1>1
    <3> QED
      BY <1>3, <1>5, <2>2, <2>3, <3>1 DEF Reached
  <2>5. ASSUME p \in 1 .. Len(data) PROVE At(data, p) = RawByte(i)
    <3>1. 8 + p = 9 + i + N(i) /\ 9 + i + N(i) <= Len(f)
      <4>1. 8 + p = 9 + i + x
        BY <2>1, <2>3
      <4>2. Len(data) \in Nat /\ Len(f) \in Nat /\ Len(data) + 8 <= Len(f)
        BY DEF DataOf, Part
      <4>3. 8 + p <= Len(f)
        BY <2>3, <2>5, <4>2
      <4> QED
        BY <2>2, <4>1, <4>3
    <3>2. f[9 + i + N(i)] = RawByte(i)
      BY <3>1 DEF DataOf, Part
    <3>3. At(data, p) = f[8 + p]
      BY <2>5 DEF At, DataOf
    <3> QED
      BY <3>1, <3>2, <3>3
  <2>6. p \notin 1 .. Len(data) => At(data, p) = <<"eof">>
    BY DEF At
  <2>7. Len(data) >= 1 + R + N(R) => p \in 1 .. Len(data)
    <3>1. PICK z \in Nat : z = N(n)
      BY <1>1, Blocks
    <3>2. x <= z
      BY <1>1, <2>1, <2>2, <3>1, BlocksGrow
    <3>3. Len(data) \in Nat
      BY DEF DataOf
    <3>4. Len(data) >= 1 + n + z => p \in 1 .. Len(data)
      BY <2>1, <2>3, <3>2, <3>3
    <3> QED
      BY <1>1, <3>1, <3>4
  <2> QED
    BY <2>4, <2>5, <2>6, <2>7
<1>6. \A i \in 1 .. R : RawByte(i) # <<"eof">>
  BY DEF RawByte
<1>7. RawImage = [i \in 1 .. R |-> RawByte(i)]
  BY DEF RawImage, R
<1> DEFINE Good == /\ r[R].ok
                   /\ \A i \in 1 .. R :
                             /\ At(data, r[i].pos) # <<"eof">>
                             /\ RawByte(i) = <<"filter">> => At(data, r[i].pos) = <<"filter">>
<1>8. ASSUME Good PROVE DecodeIdat(data) = RawImage
  <2>1. \A i \in 1 .. R : At(data, r[i].pos) = RawByte(i)
    <3> SUFFICES ASSUME NEW i \in 1 .. R PROVE At(data, r[i].pos) = RawByte(i)
      OBVIOUS
    <3>1. r[i].ok
      BY <1>1, <1>4, <1>8
    <3> QED
      BY <1>5, <1>8, <3>1
  <2>2. DecodeIdat(data) = [i \in 1 .. R |-> At(data, r[i].pos)]
    BY <1>2, <1>8
  <2> QED
    BY <1>7, <2>1, <2>2
<1>9. ~Good => DecodeIdat(data) = Nothing
  BY <1>2
<1>10. Len(data) >= 1 + R + N(R) => Good
  <2> SUFFICES ASSUME Len(data) >= 1 + R + N(R) PROVE Good
    OBVIOUS
  <2>1. \A i \in 0 .. R : r[i].ok
    BY <1>3
  <2>2. r[R].ok
    BY <1>1, <2>1
  <2>3. \A i \in 1 .. R : At(data, r[i].pos) = RawByte(i)
    BY <1>1, <1>5, <2>1
  <2> QED
    BY <1>6, <2>2, <2>3
<1> HIDE DEF Good
<1> QED
  BY <1>8, <1>9, <1>10

Walked == Nat \X SUBSET {"IHDR", "PLTE"}

WalkStep(f, walk, at) ==
  LET p == at[1]
      have == at[2]
      h == At(f, p)
      field == At(f, p + 1)
  IN  IF h[1] # "head" THEN Nothing
      ELSE IF \/ h[2] = "IHDR" /\ field = Header
              \/ h[2] = "PLTE" /\ field # <<"eof">>
           THEN walk[<<Min({p + h[3] + 2, Len(f) + 1}), have \union {h[2]}>>]
      ELSE IF h[2] = "IDAT" /\ have = {"IHDR", "PLTE"}
           THEN DecodeIdat(SubSeq(f, p + 1, Min({p + h[3], Len(f)})))
      ELSE Nothing

(* The walk at a place, one case at a time.                                *)
LEMMA WalkShape ==
  ASSUME NEW f
  PROVE  \E walk :
           /\ walk = CHOOSE w : w = [at \in Walked |-> WalkStep(f, w, at)]
           /\ Preview(f) = IF At(f, 1) = Signature THEN walk[<<2, {}>>] ELSE Nothing
<1> DEFINE walk == CHOOSE w : w = [at \in Walked |-> WalkStep(f, w, at)]
<1>1. Preview(f) = IF At(f, 1) = Signature THEN walk[<<2, {}>>] ELSE Nothing
  BY DEF Preview, WalkStep, Walked
<1> QED
  BY <1>1

(* What the head of a chunk can be.                                        *)
LEMMA HeadShape ==
  ASSUME NEW f \in Seq(Token), NEW p \in Nat, At(f, p)[1] = "head"
  PROVE  /\ p \in 1 .. Len(f)
         /\ \E type \in ChunkType, n \in Nat : At(f, p) = ChunkHead(type, n)
<1>1. p \in 1 .. Len(f)
  BY DEF At
<1>2. At(f, p) \in Token
  BY <1>1 DEF At
<1>3. ASSUME NEW t \in Token, t[1] = "head" PROVE \E type \in ChunkType, n \in Nat : t = ChunkHead(type, n)
  <2>1. CASE t \in {Crc(type, d) : type \in ChunkType, d \in Seq(Field)}
    BY <1>3, <2>1 DEF Crc
  <2>2. CASE t \in {Adler(d) : d \in Seq(Byte)}
    BY <1>3, <2>2 DEF Adler
  <2>3. CASE t \in {Signature, Header, Palette, Zlib}
    BY <1>3, <2>3 DEF Signature, Header, Palette, Zlib
  <2>4. CASE t \in Byte
    BY <1>3, <2>4 DEF Byte
  <2>5. CASE t \in {BlockHead(final, n) : final \in BOOLEAN, n \in Nat}
    BY <1>3, <2>5 DEF BlockHead
  <2>6. CASE t \in {ChunkHead(type, n) : type \in ChunkType, n \in Nat}
    BY <2>6
  <2>7. t \in Field => t \in Simple \/ t \in {Adler(d) : d \in Seq(Byte)}
    BY DEF Field
  <2>8. t \in Field \/ t \in {Crc(type, d) : type \in ChunkType, d \in Seq(Field)}
    BY DEF Token
  <2>9. CASE t \in Simple
    BY <2>3, <2>4, <2>5, <2>6, <2>9 DEF Simple
  <2> QED
    BY <2>1, <2>2, <2>7, <2>8, <2>9
<1> QED
  BY <1>1, <1>2, <1>3

LEMMA WalkEnds ==
  ASSUME NEW f, NEW walk, NEW p, NEW have, At(f, p)[1] # "head"
  PROVE  WalkStep(f, walk, <<p, have>>) = Nothing
BY DEF WalkStep

LEMMA WalkField ==
  ASSUME NEW f, NEW walk, NEW p, NEW have, NEW type \in {"IHDR", "PLTE"}, NEW n,
         At(f, p) = ChunkHead(type, n)
  PROVE  WalkStep(f, walk, <<p, have>>) =
           IF \/ type = "IHDR" /\ At(f, p + 1) = Header
              \/ type = "PLTE" /\ At(f, p + 1) # <<"eof">>
           THEN walk[<<Min({p + n + 2, Len(f) + 1}), have \union {type}>>] ELSE Nothing
<1>1. PICK at : at = <<p, have>>
  OBVIOUS
<1>2. at[1] = p /\ at[2] = have
  BY <1>1
<1>3. PICK h : h = At(f, p)
  OBVIOUS
<1>4. h[1] = "head" /\ h[2] = type /\ h[3] = n
  BY <1>3 DEF ChunkHead
<1>5. WalkStep(f, walk, at) =
        IF h[1] # "head" THEN Nothing
        ELSE IF \/ h[2] = "IHDR" /\ At(f, p + 1) = Header
                \/ h[2] = "PLTE" /\ At(f, p + 1) # <<"eof">>
             THEN walk[<<Min({p + h[3] + 2, Len(f) + 1}), have \union {h[2]}>>]
        ELSE IF h[2] = "IDAT" /\ have = {"IHDR", "PLTE"}
             THEN DecodeIdat(SubSeq(f, p + 1, Min({p + h[3], Len(f)})))
        ELSE Nothing
  BY <1>2, <1>3, Zenon DEF WalkStep
<1>6. ~(type = "IDAT")
  OBVIOUS
<1>7. WalkStep(f, walk, at) =
        IF \/ type = "IHDR" /\ At(f, p + 1) = Header
           \/ type = "PLTE" /\ At(f, p + 1) # <<"eof">>
        THEN walk[<<Min({p + n + 2, Len(f) + 1}), have \union {type}>>]
        ELSE IF type = "IDAT" /\ have = {"IHDR", "PLTE"}
             THEN DecodeIdat(SubSeq(f, p + 1, Min({p + n, Len(f)})))
        ELSE Nothing
  BY <1>4, <1>5, Zenon
<1> QED
  BY <1>1, <1>6, <1>7, Zenon

LEMMA WalkData ==
  ASSUME NEW f, NEW walk, NEW p, NEW have, NEW n, At(f, p) = ChunkHead("IDAT", n)
  PROVE  WalkStep(f, walk, <<p, have>>) =
           IF have = {"IHDR", "PLTE"}
           THEN DecodeIdat(SubSeq(f, p + 1, Min({p + n, Len(f)}))) ELSE Nothing
<1>1. PICK at : at = <<p, have>>
  OBVIOUS
<1>2. at[1] = p /\ at[2] = have
  BY <1>1
<1>3. PICK h : h = At(f, p)
  OBVIOUS
<1>4. h[1] = "head" /\ h[2] = "IDAT" /\ h[3] = n /\ h[2] # "IHDR" /\ h[2] # "PLTE"
  BY <1>3 DEF ChunkHead
<1>5. WalkStep(f, walk, at) =
        IF h[1] # "head" THEN Nothing
        ELSE IF \/ h[2] = "IHDR" /\ At(f, p + 1) = Header
                \/ h[2] = "PLTE" /\ At(f, p + 1) # <<"eof">>
             THEN walk[<<Min({p + h[3] + 2, Len(f) + 1}), have \union {h[2]}>>]
        ELSE IF h[2] = "IDAT" /\ have = {"IHDR", "PLTE"}
             THEN DecodeIdat(SubSeq(f, p + 1, Min({p + h[3], Len(f)})))
        ELSE Nothing
  BY <1>2, <1>3, Zenon DEF WalkStep
<1> QED
  BY <1>1, <1>4, <1>5, Zenon

LEMMA WalkEnd ==
  ASSUME NEW f, NEW walk, NEW p, NEW have, NEW n, At(f, p) = ChunkHead("IEND", n)
  PROVE  WalkStep(f, walk, <<p, have>>) = Nothing
BY DEF WalkStep, ChunkHead

(* What the reader does at a chunk depends on the chunks after it alone.   *)
LEMMA WalkLocal ==
  ASSUME NEW f \in Seq(Token), NEW u, NEW v, NEW at \in Walked,
         \A x \in Walked : x[1] > at[1] => u[x] = v[x]
  PROVE  WalkStep(f, u, at) = WalkStep(f, v, at)
<1>1. PICK p \in Nat, have \in SUBSET {"IHDR", "PLTE"} : at = <<p, have>>
  BY DEF Walked
<1>2. CASE At(f, p)[1] # "head"
  BY <1>1, <1>2, WalkEnds
<1>3. CASE At(f, p)[1] = "head"
  <2>1. p \in 1 .. Len(f) /\ \E type \in ChunkType, n \in Nat : At(f, p) = ChunkHead(type, n)
    BY <1>3, HeadShape
  <2>2. PICK type \in ChunkType, n \in Nat : At(f, p) = ChunkHead(type, n)
    BY <2>1
  <2>3. CASE type = "IDAT"
    <3>1. At(f, p) = ChunkHead("IDAT", n)
      BY <2>2, <2>3
    <3>2. PICK d : d = DecodeIdat(SubSeq(f, p + 1, Min({p + n, Len(f)})))
      OBVIOUS
    <3>3. \A w : WalkStep(f, w, <<p, have>>) = IF have = {"IHDR", "PLTE"} THEN d ELSE Nothing
      <4> SUFFICES ASSUME NEW w
                   PROVE  WalkStep(f, w, <<p, have>>) =
                            IF have = {"IHDR", "PLTE"} THEN d ELSE Nothing
        OBVIOUS
      <4>1. WalkStep(f, w, <<p, have>>) =
              IF have = {"IHDR", "PLTE"}
              THEN DecodeIdat(SubSeq(f, p + 1, Min({p + n, Len(f)}))) ELSE Nothing
        BY <3>1, WalkData
      <4> QED
        BY <3>2, <4>1, Zenon
    <3> QED
      BY <1>1, <3>3, Zenon
  <2>4. CASE type = "IEND"
    BY <1>1, <2>2, <2>4, WalkEnd
  <2>5. CASE type \in {"IHDR", "PLTE"}
    <3>0. p + n + 2 \in Nat /\ Len(f) + 1 \in Nat
      OBVIOUS
    <3>1. PICK a \in Nat, b \in Nat : a = p + n + 2 /\ b = Len(f) + 1
      BY <3>0, Zenon
    <3>2. Min({a, b}) = IF a <= b THEN a ELSE b
      BY MinTwo
    <3>3. PICK q \in Nat : q = Min({p + n + 2, Len(f) + 1}) /\ q > p
      BY <2>1, <3>1, <3>2
    <3>4. PICK x : x = <<q, have \union {type}>>
      OBVIOUS
    <3>5. x \in Walked /\ x[1] > at[1]
      BY <1>1, <2>5, <3>3, <3>4 DEF Walked
    <3>6. u[x] = v[x]
      BY <3>5
    <3>7. \A w : WalkStep(f, w, at) =
            IF \/ type = "IHDR" /\ At(f, p + 1) = Header
               \/ type = "PLTE" /\ At(f, p + 1) # <<"eof">>
            THEN w[x] ELSE Nothing
      <4>1. \A w : WalkStep(f, w, <<p, have>>) =
            IF \/ type = "IHDR" /\ At(f, p + 1) = Header
               \/ type = "PLTE" /\ At(f, p + 1) # <<"eof">>
            THEN w[<<Min({p + n + 2, Len(f) + 1}), have \union {type}>>] ELSE Nothing
        BY <2>2, <2>5, WalkField, Zenon
      <4> QED
        BY <1>1, <3>3, <3>4, <4>1, Zenon
    <3> QED
      BY <3>6, <3>7, Zenon
  <2> QED
    BY <2>3, <2>4, <2>5 DEF ChunkType
<1> QED
  BY <1>2, <1>3

(* The walk is well founded: it only goes forward, and ends at the end of  *)
(* the file.                                                               *)
LEMMA WalkExists ==
  ASSUME NEW f \in Seq(Token)
  PROVE  \E walk : walk = [at \in Walked |-> WalkStep(f, walk, at)]
<1>1. PICK n \in Nat : n = Len(f) + 1
  OBVIOUS
<1>0. \A at \in Walked : at[1] \in Nat
  BY DEF Walked
<1> DEFINE Upto(m, w) == /\ w = [at \in Walked |-> w[at]]
                         /\ \A at \in Walked : at[1] + m >= n => w[at] = WalkStep(f, w, at)
           S == {m \in 0 .. n : \E w : Upto(m, w)}
<1>2. \E w : Upto(0, w)
  <2> DEFINE w == [at \in Walked |-> Nothing]
  <2>1. ASSUME NEW at \in Walked, at[1] + 0 >= n PROVE w[at] = WalkStep(f, w, at)
    <3>1. PICK p \in Nat, have \in SUBSET {"IHDR", "PLTE"} : at = <<p, have>>
      BY DEF Walked
    <3>2. p > Len(f)
      BY <1>1, <2>1, <3>1
    <3>3. At(f, p)[1] # "head"
      BY <3>2, HeadShape
    <3> HIDE DEF w
    <3>4. WalkStep(f, w, at) = Nothing
      BY <3>1, <3>3, WalkEnds
    <3> QED
      BY <3>4 DEF w
  <2>2. w = [at \in Walked |-> w[at]]
    OBVIOUS
  <2> HIDE DEF w
  <2>3. Upto(0, w)
    BY <2>1, <2>2
  <2> HIDE DEF Upto
  <2> QED
    BY <2>3
<1>3. ASSUME NEW m \in 1 .. n, NEW w, Upto(m - 1, w)
      PROVE  \E g : Upto(m, g)
  <2> DEFINE g == [at \in Walked |-> WalkStep(f, w, at)]
  <2>1. g = [at \in Walked |-> g[at]]
    OBVIOUS
  <2>2. \A at \in Walked : g[at] = WalkStep(f, w, at)
    OBVIOUS
  <2> HIDE DEF g
  <2>3. ASSUME NEW at \in Walked, at[1] + m >= n PROVE g[at] = WalkStep(f, g, at)
    <3>1. ASSUME NEW x \in Walked, x[1] > at[1] PROVE g[x] = w[x]
      <4>1. x[1] + (m - 1) >= n
        BY <1>0, <2>3, <3>1
      <4>2. w[x] = WalkStep(f, w, x)
        BY <1>3, <4>1
      <4> QED
        BY <2>2, <4>2
    <3>2. WalkStep(f, g, at) = WalkStep(f, w, at)
      BY <3>1, WalkLocal
    <3> QED
      BY <2>2, <3>2
  <2>4. Upto(m, g)
    BY <2>1, <2>3
  <2> HIDE DEF Upto
  <2> QED
    BY <2>4
<1> HIDE DEF Upto
<1>4. \A m \in 0 .. n : m \in S
  <2>1. 0 \in S
    BY <1>2
  <2>2. ASSUME NEW m \in 1 .. n, m - 1 \in S PROVE m \in S
    BY <1>3, <2>2
  <2> HIDE DEF S
  <2> QED
    BY <2>1, <2>2, Induction
<1>5. PICK w : Upto(n, w)
  BY <1>4
<1>6. \A at \in Walked : w[at] = WalkStep(f, w, at)
  <2> SUFFICES ASSUME NEW at \in Walked PROVE w[at] = WalkStep(f, w, at)
    OBVIOUS
  <2>1. at[1] + n >= n
    BY <1>0
  <2> QED
    BY <1>5, <2>1 DEF Upto
<1>7. w = [at \in Walked |-> w[at]]
  BY <1>5 DEF Upto
<1> QED
  BY <1>6, <1>7

(* So Preview is what the steps of its walk say.                           *)
LEMMA PreviewWalks ==
  ASSUME NEW f \in Seq(Token)
  PROVE  \E walk : /\ \A at \in Walked : walk[at] = WalkStep(f, walk, at)
                   /\ Preview(f) = IF At(f, 1) = Signature THEN walk[<<2, {}>>] ELSE Nothing
<1>1. PICK walk : /\ walk = CHOOSE w : w = [at \in Walked |-> WalkStep(f, w, at)]
                  /\ Preview(f) = IF At(f, 1) = Signature THEN walk[<<2, {}>>] ELSE Nothing
  BY WalkShape
<1>2. walk = [at \in Walked |-> WalkStep(f, walk, at)]
  <2>1. \E w : w = [at \in Walked |-> WalkStep(f, w, at)]
    BY WalkExists
  <2> QED
    BY <1>1, <2>1
<1>3. \A at \in Walked : walk[at] = WalkStep(f, walk, at)
  BY <1>2
<1> QED
  BY <1>1, <1>3

(* However far a file of the picture goes, the preview shows the picture   *)
(* or nothing; past the raw image, the picture.                            *)
LEMMA PreviewPart ==
  ASSUME format \in Format, NEW f, Part(f)
  PROVE  /\ Preview(f) \in {Nothing, RawImage}
         /\ Len(f) >= 10 + R + N(R) => Preview(f) = RawImage
<1>1. PICK n \in Nat : n = 1 + R + N(R) + 1 /\ n >= 2
  <2>1. R \in Nat /\ N(R) \in Nat
    BY FormatNumbers, Blocks
  <2> QED
    BY <2>1
<1>0. PICK whole \in Nat : whole = 10 + R + N(R) /\ whole = 8 + n
  <2>1. PICK r \in Nat, x \in Nat : r = R /\ x = N(R)
    BY FormatNumbers, Blocks
  <2>2. 10 + R + N(R) = 8 + n /\ 8 + n \in Nat
    BY <1>1, <2>1
  <2> QED
    BY <2>2
<1>2. f \in Seq(Token) /\ \A p \in 1 .. 9 : p <= Len(f) => f[p] = Prologue[p]
  BY DEF Part
<1>3. PICK l \in Nat : l = Len(f)
  BY <1>2
<1>4. /\ Prologue[1] = Signature /\ Prologue[2] = ChunkHead("IHDR", 1)
      /\ Prologue[3] = Header /\ Prologue[5] = ChunkHead("PLTE", 1) /\ Prologue[6] = Palette
      /\ Prologue[8] = ChunkHead("IDAT", n)
  BY <1>1 DEF Prologue
<1>5. \A p \in 1 .. 9 : At(f, p) = IF p <= l THEN Prologue[p] ELSE <<"eof">>
  BY <1>2, <1>3 DEF At
<1>6. /\ At(f, 1) = IF 1 <= l THEN Signature ELSE <<"eof">>
      /\ At(f, 2) = IF 2 <= l THEN ChunkHead("IHDR", 1) ELSE <<"eof">>
      /\ At(f, 3) = IF 3 <= l THEN Header ELSE <<"eof">>
      /\ At(f, 5) = IF 5 <= l THEN ChunkHead("PLTE", 1) ELSE <<"eof">>
      /\ At(f, 6) = IF 6 <= l THEN Palette ELSE <<"eof">>
      /\ At(f, 8) = IF 8 <= l THEN ChunkHead("IDAT", n) ELSE <<"eof">>
  BY <1>4, <1>5
<1>7. PICK walk : /\ \A at \in Walked : walk[at] = WalkStep(f, walk, at)
                  /\ Preview(f) = IF At(f, 1) = Signature THEN walk[<<2, {}>>] ELSE Nothing
  BY <1>2, PreviewWalks
<1> DEFINE Both == {"IHDR", "PLTE"}
<1>8. \A p \in Nat, have \in SUBSET Both :
        /\ <<p, have>> \in Walked /\ walk[<<p, have>>] = WalkStep(f, walk, <<p, have>>)
  BY <1>7 DEF Walked
<1>9. ASSUME NEW p \in Nat, NEW have \in SUBSET Both, p > l
      PROVE  walk[<<p, have>>] = Nothing
  <2>1. At(f, p)[1] # "head"
    BY <1>2, <1>3, <1>9, HeadShape
  <2> QED
    BY <1>8, <2>1, WalkEnds
<1>10. ASSUME NEW q \in Nat
       PROVE  Min({q, Len(f) + 1}) = IF q <= l + 1 THEN q ELSE l + 1
  BY <1>3, <1>10, MinTwo
<1>11. PICK result \in {Nothing, RawImage} :
         /\ l >= 8 => walk[<<8, Both>>] = result
         /\ l >= 8 + n => result = RawImage
  <2>1. CASE l >= 8
    <3>1. At(f, 8) = ChunkHead("IDAT", n)
      BY <1>6, <2>1
    <3>2. walk[<<8, Both>>] = DecodeIdat(SubSeq(f, 8 + 1, Min({8 + n, Len(f)})))
      BY <1>8, <3>1, WalkData
    <3>3. PICK m \in Nat : m = Min({8 + n, Len(f)}) /\ m = (IF 8 + n <= l THEN 8 + n ELSE l)
      <4>0. 8 + n \in Nat
        OBVIOUS
      <4>1. PICK a \in Nat, b \in Nat : a = 8 + n /\ b = Len(f)
        BY <1>3, <4>0, Zenon
      <4>2. Min({a, b}) = IF a <= b THEN a ELSE b
        BY MinTwo
      <4> QED
        BY <1>3, <4>1, <4>2
    <3> DEFINE data == SubSeq(f, 9, m)
    <3>4. walk[<<8, Both>>] = DecodeIdat(data)
      BY <3>2, <3>3
    <3>5. m >= 8 /\ m <= l
      BY <2>1, <3>3
    <3>6. \A i \in 9 .. m : f[i] \in Token
      BY <1>2, <1>3, <3>5
    <3>7. Len(data) = m - 8 /\ \A j \in 1 .. m - 9 + 1 : data[j] = f[9 + j - 1]
      BY <3>5, <3>6, SubSeqProperties
    <3> HIDE DEF data
    <3>8. DataOf(data, f)
      <4>1. \A j \in 1 .. Len(data) : data[j] = f[8 + j]
        <5> SUFFICES ASSUME NEW j \in 1 .. Len(data) PROVE data[j] = f[8 + j]
          OBVIOUS
        <5>1. j \in 1 .. m - 9 + 1 /\ 9 + j - 1 = 8 + j
          BY <3>5, <3>7
        <5> QED
          BY <3>7, <5>1
      <4> QED
        BY <1>3, <3>5, <3>7, <4>1 DEF DataOf
    <3>9. DecodeIdat(data) \in {Nothing, RawImage}
          /\ (Len(data) >= 1 + R + N(R) => DecodeIdat(data) = RawImage)
      BY <3>8, DecodePart
    <3>10. l >= 8 + n => Len(data) >= 1 + R + N(R)
      <4>1. PICK z \in Nat : z = 1 + R + N(R) /\ n = z + 1
        BY <1>1, FormatNumbers, Blocks
      <4>2. l >= 8 + n => m = 8 + n
        BY <3>3
      <4> QED
        BY <3>7, <4>1, <4>2
    <3> QED
      BY <3>4, <3>9, <3>10
  <2>2. CASE l < 8
    BY <1>1, <2>2
  <2> QED
    BY <2>1, <2>2
<1>12. CASE l < 2
  <2>1. At(f, 1) = Signature => walk[<<2, {}>>] = Nothing
    BY <1>9, <1>12
  <2> QED
    BY <1>0, <1>3, <1>7, <1>12, <2>1
<1>13. CASE l >= 2
  <2>1. At(f, 1) = Signature /\ At(f, 2) = ChunkHead("IHDR", 1)
    BY <1>6, <1>13
  <2>2. Preview(f) = IF At(f, 3) = Header
                     THEN walk[<<Min({2 + 1 + 2, Len(f) + 1}), {} \union {"IHDR"}>>]
                     ELSE Nothing
    <3>1. {} \in SUBSET Both /\ 2 \in Nat
      OBVIOUS
    <3>2. walk[<<2, {}>>] = WalkStep(f, walk, <<2, {}>>)
      BY <1>8, <3>1
    <3>3. WalkStep(f, walk, <<2, {}>>) =
            IF \/ "IHDR" = "IHDR" /\ At(f, 2 + 1) = Header
               \/ "IHDR" = "PLTE" /\ At(f, 2 + 1) # <<"eof">>
            THEN walk[<<Min({2 + 1 + 2, Len(f) + 1}), {} \union {"IHDR"}>>] ELSE Nothing
      BY <2>1, WalkField
    <3> QED
      BY <1>7, <2>1, <3>2, <3>3
  <2>3. Min({2 + 1 + 2, Len(f) + 1}) = IF 5 <= l + 1 THEN 5 ELSE l + 1
    BY <1>10
  <2>4. {} \union {"IHDR"} = {"IHDR"} /\ {"IHDR"} \in SUBSET Both
    OBVIOUS
  <2>5. CASE l < 5
    <3>1. PICK q \in Nat : q = (IF 5 <= l + 1 THEN 5 ELSE l + 1) /\ q > l
      BY <2>5
    <3>2. walk[<<q, {"IHDR"}>>] = Nothing
      BY <1>9, <2>4, <3>1
    <3>3. Preview(f) = Nothing
      BY <2>2, <2>3, <2>4, <3>1, <3>2
    <3> QED
      BY <1>0, <1>3, <2>5, <3>3
  <2>6. CASE l >= 5
    <3>1. Preview(f) = walk[<<5, {"IHDR"}>>]
      <4>1. At(f, 3) = Header /\ 5 <= l + 1
        BY <1>6, <2>6
      <4>2. Min({2 + 1 + 2, Len(f) + 1}) = 5
        BY <2>3, <4>1
      <4> QED
        BY <2>2, <2>4, <4>1, <4>2, Zenon
    <3>2. walk[<<5, {"IHDR"}>>] =
            IF At(f, 6) # <<"eof">>
            THEN walk[<<Min({5 + 1 + 2, Len(f) + 1}), {"IHDR"} \union {"PLTE"}>>] ELSE Nothing
      <4>1. At(f, 5) = ChunkHead("PLTE", 1)
        BY <1>6, <2>6
      <4>2. walk[<<5, {"IHDR"}>>] = WalkStep(f, walk, <<5, {"IHDR"}>>)
        BY <1>8, <2>4
      <4>3. WalkStep(f, walk, <<5, {"IHDR"}>>) =
            IF \/ "PLTE" = "IHDR" /\ At(f, 5 + 1) = Header
               \/ "PLTE" = "PLTE" /\ At(f, 5 + 1) # <<"eof">>
            THEN walk[<<Min({5 + 1 + 2, Len(f) + 1}), {"IHDR"} \union {"PLTE"}>>] ELSE Nothing
        BY <4>1, WalkField
      <4> QED
        BY <4>2, <4>3
    <3>3. {"IHDR"} \union {"PLTE"} = Both
      OBVIOUS
    <3>4. Min({5 + 1 + 2, Len(f) + 1}) = IF 8 <= l + 1 THEN 8 ELSE l + 1
      BY <1>10
    <3>5. CASE l < 8
      <4>1. PICK q \in Nat : q = (IF 8 <= l + 1 THEN 8 ELSE l + 1) /\ q > l
        BY <3>5
      <4>2. walk[<<q, Both>>] = Nothing
        BY <1>9, <4>1
      <4>3. Preview(f) = Nothing
        BY <3>1, <3>2, <3>3, <3>4, <4>1, <4>2
      <4> QED
        BY <1>0, <1>3, <3>5, <4>3
    <3>6. CASE l >= 8
      <4>1. At(f, 6) # <<"eof">>
        BY <1>6, <3>6 DEF Palette
      <4>2. Preview(f) = result
        <5>1. Min({5 + 1 + 2, Len(f) + 1}) = 8
          BY <3>4, <3>6
        <5>2. walk[<<5, {"IHDR"}>>] = walk[<<8, Both>>]
          BY <3>2, <3>3, <4>1, <5>1, Zenon
        <5> QED
          BY <1>11, <3>1, <3>6, <5>2
      <4> QED
        BY <1>0, <1>3, <1>11, <4>2
    <3> QED
      BY <3>5, <3>6
  <2> QED
    BY <2>5, <2>6
<1> QED
  BY <1>12, <1>13

-----------------------------------------------------------------------------
(* A reader that trusts nothing, on a whole file.                          *)

InflateStep(data, from, p) ==
  IF ~(p \in 1 .. Len(data) /\ data[p][1] = "block" /\ p + data[p][3] <= Len(data))
  THEN <<Nothing>>
  ELSE LET n == data[p][3] IN
       SubSeq(data, p + 1, p + n)
         \o IF data[p][2] THEN IF p + n + 1 = Len(data) THEN << >> ELSE <<Nothing>>
            ELSE from[p + n + 1]

(* Inflate at a place, one case at a time.                                 *)
LEMMA InflateShape ==
  ASSUME NEW data
  PROVE  \E from : /\ from = CHOOSE w : w = [p \in Nat |-> InflateStep(data, w, p)]
                   /\ Inflate(data) = from[2]
<1> DEFINE from == CHOOSE w : w = [p \in Nat |-> InflateStep(data, w, p)]
<1>1. Inflate(data) = from[2]
  BY DEF Inflate, InflateStep
<1> QED
  BY <1>1

LEMMA BlockShape ==
  ASSUME NEW t \in Token, t[1] = "block"
  PROVE  \E final \in BOOLEAN, n \in Nat : t = BlockHead(final, n)
<1>1. CASE t \in {Crc(type, d) : type \in ChunkType, d \in Seq(Field)}
  BY <1>1 DEF Crc
<1>2. CASE t \in {Adler(d) : d \in Seq(Byte)}
  BY <1>2 DEF Adler
<1>3. CASE t \in {Signature, Header, Palette, Zlib}
  BY <1>3 DEF Signature, Header, Palette, Zlib
<1>4. CASE t \in Byte
  BY <1>4 DEF Byte
<1>5. CASE t \in {BlockHead(final, n) : final \in BOOLEAN, n \in Nat}
  BY <1>5
<1>6. CASE t \in {ChunkHead(type, n) : type \in ChunkType, n \in Nat}
  BY <1>6 DEF ChunkHead
<1>7. t \in Field => t \in Simple \/ t \in {Adler(d) : d \in Seq(Byte)}
  BY DEF Field
<1>8. t \in Field \/ t \in {Crc(type, d) : type \in ChunkType, d \in Seq(Field)}
  BY DEF Token
<1>9. CASE t \in Simple
  BY <1>3, <1>4, <1>5, <1>6, <1>9 DEF Simple
<1> QED
  BY <1>1, <1>2, <1>7, <1>8, <1>9

LEMMA InflateBad ==
  ASSUME NEW data, NEW from, NEW p,
         ~(p \in 1 .. Len(data) /\ data[p][1] = "block" /\ p + data[p][3] <= Len(data))
  PROVE  InflateStep(data, from, p) = <<Nothing>>
BY Zenon DEF InflateStep

LEMMA BlockFields ==
  ASSUME format \in Format, NEW k, NEW t, t = BlockAt(k)
  PROVE  /\ t[1] = "block"
         /\ t[3] = IF R - k <= format.block THEN R - k ELSE format.block
         /\ t[2] <=> R - k <= format.block
<1> DEFINE c == R - k <= format.block
           n == IF R - k <= format.block THEN R - k ELSE format.block
<1>1. t = <<"block", c, n>>
  BY Zenon DEF BlockAt, BlockHead
<1> HIDE DEF c, n
<1>2. t[1] = "block" /\ t[3] = n
  BY <1>1
<1>3. t[2] = c
  BY <1>1
<1> QED
  BY <1>2, <1>3 DEF c, n

(* What is read at a block depends on the blocks after it alone.           *)
LEMMA InflateLocal ==
  ASSUME NEW data \in Seq(Token), NEW u, NEW v, NEW p \in Nat,
         \A q \in Nat : q > p => u[q] = v[q]
  PROVE  InflateStep(data, u, p) = InflateStep(data, v, p)
<1>1. CASE ~(p \in 1 .. Len(data) /\ data[p][1] = "block" /\ p + data[p][3] <= Len(data))
  BY <1>1, InflateBad
<1>2. CASE p \in 1 .. Len(data) /\ data[p][1] = "block" /\ p + data[p][3] <= Len(data)
  <2>1. data[p] \in Token /\ data[p][1] = "block"
    BY <1>2
  <2>2. PICK n \in Nat : data[p][3] = n
    <3>1. \E final \in BOOLEAN, n \in Nat : data[p] = BlockHead(final, n)
      BY <2>1, BlockShape
    <3> QED
      BY <3>1 DEF BlockHead
  <2>3. p \in 1 .. Len(data) /\ p + n <= Len(data)
    BY <1>2, <2>2
  <2>4. PICK q \in Nat : q = p + n + 1 /\ q > p
    <3>1. p + n + 1 \in Nat /\ p + n + 1 > p
      OBVIOUS
    <3> QED
      BY <3>1
  <2>5. u[q] = v[q]
    BY <2>4
  <2>6. \A w :
         /\ data[p][2] => InflateStep(data, w, p) =
              SubSeq(data, p + 1, p + n)
                \o IF p + n + 1 = Len(data) THEN << >> ELSE <<Nothing>>
         /\ ~data[p][2] => InflateStep(data, w, p) =
              SubSeq(data, p + 1, p + n) \o w[p + n + 1]
    <3> SUFFICES ASSUME NEW w
                 PROVE
         /\ data[p][2] => InflateStep(data, w, p) =
              SubSeq(data, p + 1, p + n)
                \o IF p + n + 1 = Len(data) THEN << >> ELSE <<Nothing>>
         /\ ~data[p][2] => InflateStep(data, w, p) =
              SubSeq(data, p + 1, p + n) \o w[p + n + 1]
      OBVIOUS
    <3> QED
      BY <2>1, <2>2, <2>3, Zenon DEF InflateStep
  <2> QED
    BY <2>4, <2>5, <2>6, Zenon
<1> QED
  BY <1>1, <1>2

(* So the function exists, by induction from the end of the data.          *)
LEMMA InflateExists ==
  ASSUME NEW data \in Seq(Token)
  PROVE  \E from : from = [p \in Nat |-> InflateStep(data, from, p)]
<1>1. PICK n \in Nat : n = Len(data) + 1
  OBVIOUS
<1> DEFINE Upto(m, w) == /\ w = [p \in Nat |-> w[p]]
                         /\ \A p \in Nat : p + m >= n => w[p] = InflateStep(data, w, p)
           S == {m \in 0 .. n : \E w : Upto(m, w)}
<1>2. \E w : Upto(0, w)
  <2> DEFINE w == [p \in Nat |-> <<Nothing>>]
  <2>1. ASSUME NEW p \in Nat, p + 0 >= n PROVE w[p] = InflateStep(data, w, p)
    <3>1. ~(p \in 1 .. Len(data) /\ data[p][1] = "block" /\ p + data[p][3] <= Len(data))
      <4>1. ~(p \in 1 .. Len(data))
        BY <1>1, <2>1
      <4> QED
        BY <4>1, Zenon
    <3> HIDE DEF w
    <3>2. InflateStep(data, w, p) = <<Nothing>>
      BY <3>1, InflateBad
    <3> QED
      BY <3>2 DEF w
  <2>2. w = [p \in Nat |-> w[p]]
    OBVIOUS
  <2> HIDE DEF w
  <2>3. Upto(0, w)
    BY <2>1, <2>2
  <2> HIDE DEF Upto
  <2> QED
    BY <2>3
<1>3. ASSUME NEW m \in 1 .. n, NEW w, Upto(m - 1, w)
      PROVE  \E g : Upto(m, g)
  <2> DEFINE g == [p \in Nat |-> InflateStep(data, w, p)]
  <2>1. g = [p \in Nat |-> g[p]]
    OBVIOUS
  <2>2. \A p \in Nat : g[p] = InflateStep(data, w, p)
    OBVIOUS
  <2> HIDE DEF g
  <2>3. ASSUME NEW p \in Nat, p + m >= n PROVE g[p] = InflateStep(data, g, p)
    <3>1. ASSUME NEW q \in Nat, q > p PROVE g[q] = w[q]
      <4>1. q + (m - 1) >= n
        BY <2>3, <3>1
      <4>2. w[q] = InflateStep(data, w, q)
        BY <1>3, <4>1
      <4> QED
        BY <2>2, <4>2
    <3>2. InflateStep(data, g, p) = InflateStep(data, w, p)
      BY <3>1, InflateLocal
    <3> QED
      BY <2>2, <3>2
  <2>4. Upto(m, g)
    BY <2>1, <2>3
  <2> HIDE DEF Upto
  <2> QED
    BY <2>4
<1> HIDE DEF Upto
<1>4. \A m \in 0 .. n : m \in S
  <2>1. 0 \in S
    BY <1>2
  <2>2. ASSUME NEW m \in 1 .. n, m - 1 \in S PROVE m \in S
    BY <1>3, <2>2
  <2> HIDE DEF S
  <2> QED
    BY <2>1, <2>2, Induction
<1>5. PICK w : Upto(n, w)
  BY <1>4
<1>6. \A p \in Nat : w[p] = InflateStep(data, w, p)
  <2> SUFFICES ASSUME NEW p \in Nat PROVE w[p] = InflateStep(data, w, p)
    OBVIOUS
  <2>1. p + n >= n
    OBVIOUS
  <2> QED
    BY <1>5, <2>1 DEF Upto
<1>7. w = [p \in Nat |-> w[p]]
  BY <1>5 DEF Upto
<1> QED
  BY <1>6, <1>7

(* And Inflate is what its steps say.                                      *)
LEMMA Inflates ==
  ASSUME NEW data \in Seq(Token)
  PROVE  \E from : /\ \A p \in Nat : from[p] = InflateStep(data, from, p)
                   /\ Inflate(data) = from[2]
<1>1. PICK from : /\ from = CHOOSE w : w = [p \in Nat |-> InflateStep(data, w, p)]
                  /\ Inflate(data) = from[2]
  BY InflateShape
<1>2. from = [p \in Nat |-> InflateStep(data, from, p)]
  <2>1. \E w : w = [p \in Nat |-> InflateStep(data, w, p)]
    BY InflateExists
  <2> QED
    BY <1>1, <2>1
<1>3. \A p \in Nat : from[p] = InflateStep(data, from, p)
  BY <1>2
<1> QED
  BY <1>1, <1>3

(* The bytes of one block.                                                 *)
LEMMA OneBlock ==
  ASSUME format \in Format, NEW k \in Nat, Free(k) = 0, NEW j \in 1 .. format.block
  PROVE  N(k + j) = N(k) + 1 /\ Free(k + j) = format.block - j
<1>1. PICK b \in Nat \ {0} : b = format.block
  BY FormatNumbers
<1>2. \A i \in Nat : N(i) = (i + b - 1) \div b /\ Free(i) = N(i) * b - i
  BY <1>1 DEF N, NumBlocks, Free
<1>3. PICK x \in Nat : x = N(k)
  BY Blocks
<1>4. x * b = k
  <2>1. x * b - k = 0 /\ x * b \in Int
    BY <1>1, <1>2, <1>3
  <2> QED
    BY <2>1
<1>5. (x + 1) * b = k + b
  BY <1>1, <1>3, <1>4
<1>6. j \in Nat /\ j >= 1 /\ j <= b /\ k + j \in Nat /\ k + j + b - 1 \in Nat
  BY <1>1
<1>7. k + b <= k + j + b - 1 /\ k + j + b - 1 < k + b + b
  BY <1>1, <1>6
<1>8. (k + j + b - 1) \div b = x + 1
  BY <1>1, <1>3, <1>5, <1>6, <1>7, SameQuotient
<1>9. N(k + j) = x + 1
  BY <1>2, <1>6, <1>8
<1>10. Free(k + j) = k + b - (k + j)
  BY <1>2, <1>5, <1>6, <1>9
<1> QED
  BY <1>1, <1>3, <1>6, <1>9, <1>10

(* The data of IDAT in a whole file, read one block at a time from byte    *)
(* k + 1 of the raw image.                                                 *)
LEMMA BlockRead ==
  ASSUME format \in Format, NEW data \in Seq(Token), NEW f, DataOf(data, f),
         Len(data) = 2 + R + N(R), NEW from,
         \A p \in Nat : from[p] = InflateStep(data, from, p),
         NEW k \in 0 .. R - 1, Free(k) = 0
  PROVE  /\ R - k <= format.block => from[2 + k + N(k)] = SubSeq(RawImage, k + 1, R)
         /\ ~(R - k <= format.block) =>
              /\ k + format.block \in k + 1 .. R - 1 /\ Free(k + format.block) = 0
              /\ from[2 + k + N(k)] =
                   SubSeq(RawImage, k + 1, k + format.block)
                     \o from[2 + (k + format.block) + N(k + format.block)]
<1>1. PICK r \in Nat \ {0} : r = R
  BY FormatNumbers
<1>2. PICK b \in Nat \ {0} : b = format.block
  BY FormatNumbers
<1>3. k \in Nat /\ r - k \in Nat /\ r - k >= 1
  BY <1>1
<1>4. PICK x \in Nat : x = N(k)
  BY <1>3, Blocks
<1>5. PICK z \in Nat : z = N(r)
  BY <1>1, Blocks
<1>6. PICK n \in Nat \ {0} : n = (IF r - k <= b THEN r - k ELSE b) /\ n <= b /\ k + n <= r
  BY <1>2, <1>3
<1>7. \A j \in 1 .. n : /\ k + j \in 1 .. r /\ N(k + j) = x + 1 /\ Free(k + j) = b - j
  <2> SUFFICES ASSUME NEW j \in 1 .. n
               PROVE  k + j \in 1 .. r /\ N(k + j) = x + 1 /\ Free(k + j) = b - j
    OBVIOUS
  <2>1. k + j \in 1 .. r /\ j \in 1 .. format.block
    BY <1>2, <1>3, <1>6
  <2> QED
    BY <1>2, <1>3, <1>4, <2>1, OneBlock
<1>8. x + 1 <= z
  <2>1. n \in 1 .. n
    OBVIOUS
  <2>2. k + n \in 1 .. r /\ N(k + n) = x + 1
    BY <1>7, <2>1
  <2>3. k + n \in Nat /\ k + n <= r
    BY <2>2
  <2> QED
    BY <1>1, <1>5, <2>2, <2>3, BlocksGrow
<1>9. PICK p \in Nat : p = 2 + k + x
  BY <1>3
<1>10. Len(data) = 2 + r + z
  BY <1>1, <1>5
<1>11. p \in 1 .. Len(data) /\ p + n <= Len(data) /\ p + n + 1 <= Len(data)
  BY <1>3, <1>6, <1>8, <1>9, <1>10
<1>12. \A i \in 1 .. Len(data) : data[i] = f[8 + i] /\ 8 + i <= Len(f)
  <2> SUFFICES ASSUME NEW i \in 1 .. Len(data) PROVE data[i] = f[8 + i] /\ 8 + i <= Len(f)
    OBVIOUS
  <2>1. data[i] = f[8 + i]
    BY DEF DataOf
  <2>2. Len(data) \in Nat /\ Len(f) \in Nat /\ Len(data) + 8 <= Len(f)
    BY DEF DataOf, Part
  <2> QED
    BY <2>1, <2>2
<1>13. data[p] = BlockAt(k)
  <2>1. 8 + p = 10 + k + N(k)
    BY <1>3, <1>4, <1>9
  <2>2. f[10 + k + N(k)] = BlockAt(k)
    BY <1>11, <1>12, <2>1 DEF DataOf, Part
  <2> QED
    BY <1>11, <1>12, <2>1, <2>2
<1>14. /\ data[p][1] = "block" /\ data[p][3] = n
       /\ data[p][2] <=> r - k <= b
  BY <1>1, <1>2, <1>6, <1>13, BlockFields
<1>15. from[p] = InflateStep(data, from, p)
  BY <1>9
<1>16. /\ data[p][2] => from[p] =
            SubSeq(data, p + 1, p + n)
              \o IF p + n + 1 = Len(data) THEN << >> ELSE <<Nothing>>
       /\ ~data[p][2] => from[p] = SubSeq(data, p + 1, p + n) \o from[p + n + 1]
  BY <1>11, <1>14, <1>15, Zenon DEF InflateStep
<1>17. /\ RawImage \in Seq(Byte) /\ Len(RawImage) = r
       /\ \A i \in 1 .. r : RawImage[i] = RawByte(i)
  BY <1>1, RawImageFields
<1>18. SubSeq(data, p + 1, p + n) = SubSeq(RawImage, k + 1, k + n)
  <2> DEFINE u == SubSeq(data, p + 1, p + n)
             v == SubSeq(RawImage, k + 1, k + n)
  <2>1. \A i \in p + 1 .. p + n : data[i] \in Token
    <3>1. \A i \in p + 1 .. p + n : i \in 1 .. Len(data)
      BY <1>11
    <3> QED
      BY <3>1
  <2>2. \A i \in k + 1 .. k + n : RawImage[i] \in Byte
    <3>1. \A i \in k + 1 .. k + n : i \in 1 .. r
      BY <1>3, <1>6
    <3> SUFFICES ASSUME NEW i \in k + 1 .. k + n PROVE RawImage[i] \in Byte
      OBVIOUS
    <3>2. i \in 1 .. Len(RawImage)
      BY <1>17, <3>1
    <3> QED
      BY <1>17, <3>2, ElementOfSeq
  <2>3. p + n \in Int /\ p + 1 \in Int /\ p + 1 <= p + n /\ (p + n) - (p + 1) + 1 = n
    OBVIOUS
  <2>4. /\ u \in Seq(Token) /\ Len(u) = n
        /\ \A j \in 1 .. n : u[j] = data[(p + 1) + j - 1]
    <3>1. PICK a \in Int, e \in Int : a = p + 1 /\ e = p + n
      BY <2>3, Zenon
    <3>2. a <= e /\ e - a + 1 = n /\ \A i \in a .. e : data[i] \in Token
      BY <2>1, <2>3, <3>1
    <3>3. /\ SubSeq(data, a, e) \in Seq(Token) /\ Len(SubSeq(data, a, e)) = n
          /\ \A j \in 1 .. n : SubSeq(data, a, e)[j] = data[a + j - 1]
      BY <3>2, SubSeqProperties
    <3> QED
      BY <3>1, <3>3
  <2>5. k + n \in Int /\ k + 1 \in Int /\ k + 1 <= k + n /\ (k + n) - (k + 1) + 1 = n
    BY <1>3
  <2>6. /\ v \in Seq(Byte) /\ Len(v) = n
        /\ \A j \in 1 .. n : v[j] = RawImage[(k + 1) + j - 1]
    <3>1. PICK a \in Int, e \in Int : a = k + 1 /\ e = k + n
      BY <2>5, Zenon
    <3>2. a <= e /\ e - a + 1 = n /\ \A i \in a .. e : RawImage[i] \in Byte
      BY <2>2, <2>5, <3>1
    <3>3. /\ SubSeq(RawImage, a, e) \in Seq(Byte) /\ Len(SubSeq(RawImage, a, e)) = n
          /\ \A j \in 1 .. n : SubSeq(RawImage, a, e)[j] = RawImage[a + j - 1]
      BY <3>2, SubSeqProperties
    <3> QED
      BY <3>1, <3>3
  <2> HIDE DEF u, v
  <2>7. ASSUME NEW j \in 1 .. n PROVE u[j] = v[j]
    <3>1. (p + 1) + j - 1 = p + j /\ (k + 1) + j - 1 = k + j /\ p + j \in 1 .. Len(data)
      BY <1>3, <1>11
    <3>2. u[j] = data[p + j] /\ v[j] = RawImage[k + j]
      BY <2>4, <2>6, <3>1
    <3>3. k + j \in 1 .. r /\ N(k + j) = x + 1
      BY <1>7
    <3>4. 8 + (p + j) = 9 + (k + j) + N(k + j) /\ 9 + (k + j) + N(k + j) <= Len(f)
      <4>1. 8 + (p + j) = 9 + (k + j) + (x + 1)
        BY <1>3, <1>9
      <4>2. 8 + (p + j) <= Len(f)
        BY <1>12, <3>1
      <4> QED
        BY <3>3, <4>1, <4>2
    <3>5. f[9 + (k + j) + N(k + j)] = RawByte(k + j)
      BY <1>1, <3>3, <3>4, Zenon DEF DataOf, Part
    <3>6. data[p + j] = f[8 + (p + j)]
      BY <1>12, <3>1
    <3> QED
      BY <1>17, <3>2, <3>3, <3>4, <3>5, <3>6
  <2>8. Byte \subseteq Token
    BY DEF Token, Field, Simple
  <2>9. v \in Seq(Token)
    BY <2>6, <2>8
  <2>10. u = v
    BY <2>4, <2>6, <2>7, <2>9, SeqEqual
  <2> QED
    BY <2>10 DEF u, v
<1>19. ASSUME r - k <= b PROVE from[p] = SubSeq(RawImage, k + 1, r)
  <2>1. k + n = r
    BY <1>3, <1>6, <1>19
  <2>2. x + 1 = z
    <3>1. n \in 1 .. n
      OBVIOUS
    <3> QED
      BY <1>5, <1>7, <2>1, <3>1
  <2>3. p + n + 1 = Len(data)
    BY <1>3, <1>6, <1>9, <1>10, <2>1, <2>2
  <2>4. from[p] = SubSeq(data, p + 1, p + n) \o << >>
    BY <1>14, <1>16, <1>19, <2>3, Zenon
  <2> DEFINE y == SubSeq(RawImage, k + 1, r)
  <2>5. y \in Seq(Byte)
    <3>1. \A i \in k + 1 .. r : i \in 1 .. r
      BY <1>3
    <3> QED
      BY <1>3, <1>17, <3>1, SubSeqProperties
  <2>6. from[p] = y \o << >>
    BY <1>18, <2>1, <2>4
  <2> HIDE DEF y
  <2>7. from[p] = y
    BY <2>5, <2>6, Whole
  <2> QED
    BY <2>7 DEF y
<1>20. ASSUME ~(r - k <= b)
       PROVE  /\ k + b \in k + 1 .. r - 1 /\ Free(k + b) = 0
              /\ from[p] = SubSeq(RawImage, k + 1, k + b) \o from[2 + (k + b) + N(k + b)]
  <2>1. n = b /\ k + b \in k + 1 .. r - 1
    BY <1>3, <1>6, <1>20
  <2>2. n \in 1 .. n
    OBVIOUS
  <2>3. N(k + b) = x + 1 /\ Free(k + b) = 0
    BY <1>7, <2>1, <2>2
  <2>4. p + n + 1 = 2 + (k + b) + N(k + b)
    BY <1>3, <1>9, <2>1, <2>3
  <2>5. from[p] = SubSeq(data, p + 1, p + n) \o from[p + n + 1]
    BY <1>14, <1>16, <1>20, Zenon
  <2> QED
    BY <1>18, <2>1, <2>3, <2>4, <2>5
<1> QED
  BY <1>1, <1>2, <1>4, <1>9, <1>19, <1>20, Zenon

(* From the last block backwards, every block inflates to the rest of the  *)
(* picture.                                                                *)
LEMMA InflateImage ==
  ASSUME format \in Format, NEW data \in Seq(Token), NEW f, DataOf(data, f),
         Len(data) = 2 + R + N(R)
  PROVE  Inflate(data) = RawImage
<1>1. PICK r \in Nat \ {0} : r = R
  BY FormatNumbers
<1>2. PICK b \in Nat \ {0} : b = format.block
  BY FormatNumbers
<1>3. PICK from : /\ \A p \in Nat : from[p] = InflateStep(data, from, p)
                  /\ Inflate(data) = from[2]
  BY Inflates
<1>4. \A k \in 0 .. r - 1 : Free(k) = 0 =>
         /\ r - k <= b => from[2 + k + N(k)] = SubSeq(RawImage, k + 1, r)
         /\ ~(r - k <= b) =>
              /\ k + b \in k + 1 .. r - 1 /\ Free(k + b) = 0
              /\ from[2 + k + N(k)] =
                   SubSeq(RawImage, k + 1, k + b) \o from[2 + (k + b) + N(k + b)]
  BY <1>1, <1>2, <1>3, BlockRead
<1>5. /\ RawImage \in Seq(Byte) /\ Len(RawImage) = r
  BY <1>1, RawImageFields
<1> DEFINE Right(k) == from[2 + k + N(k)] = SubSeq(RawImage, k + 1, r)
           T == {i \in 0 .. r : \E k \in 0 .. r - 1 : i = r - k /\ Free(k) = 0 /\ ~Right(k)}
<1>6. T = {}
  <2> SUFFICES ASSUME T # {} PROVE FALSE
    OBVIOUS
  <2>1. T \in SUBSET Nat
    OBVIOUS
  <2>2. PICK i \in T : \A j \in T : i <= j
    BY <2>1, Least
  <2>3. PICK k \in 0 .. r - 1 : i = r - k /\ Free(k) = 0 /\ ~Right(k)
    BY <2>2
  <2>4. ~(r - k <= b)
    BY <1>4, <2>3
  <2>5. /\ k + b \in k + 1 .. r - 1 /\ Free(k + b) = 0
        /\ from[2 + k + N(k)] =
             SubSeq(RawImage, k + 1, k + b) \o from[2 + (k + b) + N(k + b)]
    BY <1>4, <2>3, <2>4
  <2>6. r - (k + b) \in 0 .. r /\ k + b \in 0 .. r - 1 /\ r - (k + b) < i
    BY <2>3, <2>5
  <2>7. r - (k + b) \notin T
    <3> SUFFICES ASSUME r - (k + b) \in T PROVE FALSE
      OBVIOUS
    <3>1. i \in Nat /\ r - (k + b) \in Nat
      BY <2>1
    <3> HIDE DEF T
    <3>2. i <= r - (k + b)
      BY <2>2
    <3> QED
      BY <2>6, <3>1, <3>2
  <2>8. Right(k + b)
    BY <2>5, <2>6, <2>7
  <2>9. SubSeq(RawImage, k + 1, k + b) \o SubSeq(RawImage, (k + b) + 1, r)
          = SubSeq(RawImage, k + 1, r)
    <3>1. PICK m \in 1 .. r + 1 : m = k + 1
      OBVIOUS
    <3>2. k + b \in m - 1 .. Len(RawImage) /\ r \in k + b .. Len(RawImage)
      BY <1>5, <2>5, <3>1
    <3>3. SubSeq(RawImage, m, k + b) \o SubSeq(RawImage, (k + b) + 1, r) = SubSeq(RawImage, m, r)
      BY <1>5, <3>1, <3>2, ConcatAdjacentSubSeq
    <3> QED
      BY <3>1, <3>3
  <2>10. Right(k)
    BY <2>5, <2>8, <2>9, Zenon
  <2> QED
    BY <2>3, <2>10
<1>7. Free(0) = 0 /\ N(0) = 0
  BY Blocks
<1>8. Right(0)
  <2>1. r - 0 \in 0 .. r /\ 0 \in 0 .. r - 1
    OBVIOUS
  <2> HIDE DEF Right
  <2>2. ~Right(0) => r - 0 \in T
    BY <1>7, <2>1
  <2> QED
    BY <1>6, <2>2
<1>9. from[2] = SubSeq(RawImage, 1, r)
  <2>1. 2 + 0 + N(0) = 2 /\ 0 + 1 = 1
    BY <1>7
  <2> QED
    BY <1>8, <2>1, Zenon
<1>10. SubSeq(RawImage, 1, r) = RawImage
  BY <1>5, SubSeqFull
<1> QED
  BY <1>3, <1>9, <1>10

(* A whole file passes every test of a PNG reader.                         *)
LEMMA CompleteIsPng ==
  ASSUME format \in Format, NEW f, Complete(f)
  PROVE  IsPng(f) /\ Preview(f) = RawImage
<1>1. PICK m \in Nat :
       /\ m = 10 + R + N(R) /\ Len(f) = m + 3
       /\ f[m] = Adler(RawImage)
       /\ f[m + 1] = Crc("IDAT", SubSeq(f, 9, m))
       /\ f[m + 2] = ChunkHead("IEND", 0)
       /\ f[m + 3] = Crc("IEND", << >>)
  BY DEF Complete
<1>2. Part(f) /\ f \in Seq(Token)
  BY DEF Complete, Part
<1>3. PICK z \in Nat : z = R + N(R) /\ m = z + 10
  <2>1. PICK r \in Nat, x \in Nat : r = R /\ x = N(R)
    BY FormatNumbers, Blocks
  <2>2. r + x \in Nat /\ m = (r + x) + 10
    BY <1>1, <2>1
  <2> QED
    BY <2>1, <2>2, Zenon
<1>4. PICK n \in Nat : n = Len(f) - 11 /\ n = z + 2 /\ n >= 2
  BY <1>1, <1>3
<1>5. \A p \in 1 .. 9 : f[p] = Prologue[p]
  <2>1. \A p \in 1 .. 9 : p <= Len(f)
    BY <1>1, <1>3
  <2> QED
    BY <1>2, <2>1 DEF Part
<1>6. 1 + R + N(R) + 1 = n /\ 2 + R + N(R) = n
  <2>1. PICK r \in Nat, x \in Nat : r = R /\ x = N(R)
    BY FormatNumbers, Blocks
  <2>2. z = r + x
    BY <1>3, <2>1, Zenon
  <2>3. 1 + r + x + 1 = n /\ 2 + r + x = n
    BY <1>4, <2>2
  <2> QED
    BY <2>1, <2>3, Zenon
<1>7. /\ f[1] = Signature /\ f[2] = ChunkHead("IHDR", 1) /\ f[3] = Header
      /\ f[4] = Crc("IHDR", <<Header>>) /\ f[5] = ChunkHead("PLTE", 1)
      /\ f[6] = Palette /\ f[7] = Crc("PLTE", <<Palette>>)
      /\ f[8] = ChunkHead("IDAT", n) /\ f[9] = Zlib
  BY <1>5, <1>6 DEF Prologue
<1>8. Len(f) > 8 /\ Len(f) = n + 11 /\ m = n + 8
  BY <1>1, <1>3, <1>4
<1>9. \A i \in 1 .. Len(f) : f[i] \in Token
  BY <1>2
<1>10. ASSUME NEW i \in 1 .. 9 PROVE SubSeq(f, i, i) = <<f[i]>>
  <2> DEFINE u == SubSeq(f, i, i)
  <2>1. \A j \in i .. i : f[j] \in Token
    BY <1>8, <1>9
  <2>2. u \in Seq(Token) /\ Len(u) = 1 /\ \A j \in 1 .. i - i + 1 : u[j] = f[i + j - 1]
    BY <2>1, SubSeqProperties
  <2>3. u[1] = f[i]
    <3>1. 1 \in 1 .. i - i + 1 /\ i + 1 - 1 = i
      OBVIOUS
    <3> QED
      BY <2>2, <3>1
  <2> HIDE DEF u
  <2>4. u = <<f[i]>>
    BY <2>2, <2>3
  <2> QED
    BY <2>4 DEF u
<1>11. IsChunk(f, 2, "IHDR", 1)
  <2>1. 2 + 1 + 1 <= Len(f) /\ 2 + 1 = 3 /\ 2 + 1 + 1 = 4
    BY <1>8
  <2>2. SubSeq(f, 3, 3) = <<Header>>
    BY <1>7, <1>10
  <2> QED
    BY <1>7, <2>1, <2>2 DEF IsChunk
<1>12. IsChunk(f, 5, "PLTE", 1)
  <2>1. 5 + 1 + 1 <= Len(f) /\ 5 + 1 = 6 /\ 5 + 1 + 1 = 7
    BY <1>4, <1>8
  <2>2. SubSeq(f, 6, 6) = <<Palette>>
    BY <1>7, <1>10
  <2> QED
    BY <1>7, <2>1, <2>2 DEF IsChunk
<1>13. IsChunk(f, 8, "IDAT", n)
  <2>1. 8 + n + 1 <= Len(f) /\ 8 + n + 1 = m + 1 /\ 8 + 1 = 9 /\ 8 + n = m
    BY <1>8
  <2> QED
    BY <1>1, <1>7, <2>1 DEF IsChunk
<1>14. IsChunk(f, 10 + n, "IEND", 0)
  <2>1. (10 + n) + 0 + 1 <= Len(f) /\ (10 + n) + 0 + 1 = m + 3 /\ 10 + n = m + 2
        /\ (10 + n) + 0 < (10 + n) + 1
    BY <1>8
  <2>2. SubSeq(f, (10 + n) + 1, (10 + n) + 0) = << >>
    BY <2>1, SubSeqEmpty
  <2> QED
    BY <1>1, <2>1, <2>2 DEF IsChunk
<1> DEFINE data == SubSeq(f, 9, 8 + n)
<1>15. data \in Seq(Token) /\ Len(data) = n /\ \A j \in 1 .. n : data[j] = f[8 + j]
  <2>1. \A j \in 9 .. 8 + n : f[j] \in Token
    BY <1>8, <1>9
  <2>2. 8 + n \in Int /\ 9 <= 8 + n /\ (8 + n) - 9 + 1 = n
    BY <1>4
  <2>3. data \in Seq(Token) /\ Len(data) = n /\ \A j \in 1 .. n : data[j] = f[9 + j - 1]
    BY <2>1, <2>2, SubSeqProperties
  <2>4. \A j \in 1 .. n : 9 + j - 1 = 8 + j
    OBVIOUS
  <2> HIDE DEF data
  <2> QED
    BY <2>3, <2>4
<1> HIDE DEF data
<1>16. data[1] = Zlib /\ data[n] = Adler(RawImage)
  <2>1. 1 \in 1 .. n /\ n \in 1 .. n /\ 8 + 1 = 9 /\ 8 + n = m
    BY <1>4, <1>8
  <2> QED
    BY <1>1, <1>7, <1>15, <2>1
<1>17. Inflate(data) = RawImage
  <2>1. Len(data) = 2 + R + N(R)
    BY <1>6, <1>15
  <2>2. DataOf(data, f)
    BY <1>2, <1>8, <1>15 DEF DataOf
  <2> QED
    BY <1>15, <2>1, <2>2, InflateImage
<1>18. IsPng(f)
  <2>1. \E k : k = Len(f) - 11 /\ k = n
    BY <1>4
  <2> QED
    BY <1>4, <1>7, <1>8, <1>11, <1>12, <1>13, <1>14, <1>16, <1>17, Zenon DEF IsPng, data
<1>19. Preview(f) = RawImage
  <2>1. Len(f) >= 10 + R + N(R)
    BY <1>1
  <2> QED
    BY <1>2, <2>1, PreviewPart
<1> QED
  BY <1>18, <1>19

-----------------------------------------------------------------------------
(* What the last file holds and the writer was told, in every state.       *)

(* What the last file holds, and what the writer was told to write.        *)
Told(w) == \E f, k : k \in 0 .. R /\ w.raw = R - k /\ Stream(w, f, k)
ContentsInv ==
  /\ format \in Format
  /\ Part(image)
  /\ ~Idle => Told(pw)

(* The format does not change, and nothing computed from it.               *)
LEMMA SameNumbers ==
  ASSUME format' = format
  PROVE  /\ R' = R
         /\ \A i : (N(i))' = N(i) /\ (RawByte(i))' = RawByte(i) /\ (BlockAt(i))' = BlockAt(i)
         /\ \A i : (Free(i))' = Free(i) /\ (Left(i))' = Left(i)
         /\ Prologue' = Prologue
<1>1. R' = R
  BY DEF R, RawLength, RowLength
<1>2. \A i : (N(i))' = N(i)
  BY <1>1 DEF N, NumBlocks, R, RawLength, RowLength
<1>3. \A i : (RawByte(i))' = RawByte(i)
  BY DEF RawByte, RowLength
<1>4. \A i : (Free(i))' = Free(i)
  BY <1>2 DEF Free
<1>5. \A i : (Left(i))' = Left(i)
  BY <1>1, <1>2, <1>4 DEF Left
<1>6. \A i : (BlockAt(i))' = BlockAt(i)
  BY <1>1 DEF BlockAt, BlockHead
<1>7. Prologue' = Prologue
  BY <1>1, <1>2 DEF Prologue, Signature, ChunkHead, Crc, Header, Palette, Zlib
<1> QED
  BY <1>1, <1>2, <1>3, <1>4, <1>5, <1>6, <1>7

LEMMA SameTokens ==
  ASSUME format' = format
  PROVE  Byte' = Byte /\ Field' = Field /\ Token' = Token /\ Writer' = Writer
<1>1. Byte' = Byte
  BY DEF Byte
<1>2. Simple' = Simple
  BY <1>1 DEF Simple, Signature, Header, Palette, Zlib, BlockHead, ChunkHead
<1>3. Field' = Field
  BY <1>1, <1>2 DEF Field, Adler
<1>4. Token' = Token
  BY <1>3 DEF Token, Crc
<1> QED
  BY <1>1, <1>3, <1>4 DEF Writer

(* So what is known of the new file and writer in this state holds in the  *)
(* next.                                                                   *)
LEMMA SameFormat ==
  ASSUME format' = format
  PROVE  /\ Part(image') => Part(image)'
         /\ Told(pw') => Told(pw)'
<1>1. R' = R /\ Token' = Token /\ Writer' = Writer
  BY SameNumbers, SameTokens
<1>2. ASSUME NEW f, Part(f) PROVE (Part(f))'
  BY <1>1, <1>2, SameNumbers DEF Part
<1>3. ASSUME NEW f, Writes(pw', f) PROVE (Writes(pw, f))'
  BY <1>1, <1>3 DEF Writes
<1>4. ASSUME NEW f, NEW k, Stream(pw', f, k) PROVE (Stream(pw, f, k))'
  <2>1. /\ Writes(pw', f) /\ Part(f) /\ Len(f) = 9 + k + N(k)
        /\ pw'.raw = R - k /\ pw'.block = Left(k)
        /\ Len(pw'.adler) = k /\ \A i \in 1 .. k : pw'.adler[i] = RawByte(i)
        /\ Len(pw'.crc) = 1 + k + N(k) /\ \A j \in 1 .. 1 + k + N(k) : pw'.crc[j] = f[8 + j]
    BY <1>4 DEF Stream
  <2>2. (N(k))' = N(k) /\ (Left(k))' = Left(k)
    BY SameNumbers
  <2>3. \A i : (RawByte(i))' = RawByte(i)
    BY SameNumbers
  <2>4. (Writes(pw, f))' /\ (Part(f))'
    BY <1>2, <1>3, <2>1
  <2> QED
    BY <1>1, <2>1, <2>2, <2>3, <2>4 DEF Stream
<1>5. Told(pw') => Told(pw)'
  BY <1>1, <1>4 DEF Told
<1>6. Part(image') => Part(image)'
  BY <1>1, SameNumbers DEF Part
<1> QED
  BY <1>5, <1>6

LEMMA PartEmpty == ASSUME format \in Format PROVE Part(<< >>)
<1>1. \A i \in 0 .. R : N(i) \in Nat
  BY FormatNumbers, Blocks
<1>2. R \in Nat
  BY FormatNumbers
<1>3. << >> \in Seq(Token) /\ Len(<< >>) = 0
  OBVIOUS
<1>4. \A i \in 1 .. R : ~(9 + i + N(i) <= 0)
  BY <1>1, <1>2
<1>5. \A i \in 0 .. R - 1 : ~(10 + i + N(i) <= 0)
  BY <1>1, <1>2
<1> QED
  BY <1>3, <1>4, <1>5 DEF Part

LEMMA ContentsInit == PngInit => ContentsInv
BY PartEmpty DEF PngInit, Init, Idle, ContentsInv

(* The end of a file: what is on the card is the beginning of a file of    *)
(* the picture, and all of one if no f_write failed.                       *)
LEMMA Ending ==
  ASSUME ContentsInv, PngEnd
  PROVE  /\ Part(image') /\ format' = format /\ Idle'
         /\ ~CloseFails /\ ~WriteFails => Complete(image')
<1>0. NoFault \in Nat /\ format \in Format /\ R \in Nat
  BY FormatAssumption, FormatNumbers DEF ContentsInv
<1>1. PICK f, k : k \in 0 .. R /\ pw.raw = R - k /\ Stream(pw, f, k)
  BY DEF ContentsInv, Told, PngEnd
<1>2. k = R
  BY <1>0, <1>1 DEF PngEnd
<1>3. PICK g : Writes(Finish(pw), g) /\ Complete(g) /\ Finish(pw).buf = << >>
  BY <1>0, <1>1, <1>2, FinishWrites
<1>4. Part(g)
  BY <1>3 DEF Complete
<1>5. /\ Part(Finish(pw).out)
      /\ ~Finish(pw).error => Finish(pw).out = g
  BY <1>0, <1>3, <1>4, OutPart
<1>6. Part(<< >>)
  BY <1>0, PartEmpty
<1>7. format' = format /\ Idle'
  BY DEF PngEnd, Close, WriteFails, Written, CloseFails, Idle
<1>8. CASE Finish(pw).error /\ WriteFails /\ Close(Finish(pw).out)
  <2>1. image' = Finish(pw).out
    BY <1>8 DEF Close
  <2> QED
    BY <1>5, <1>7, <1>8, <2>1
<1>9. CASE ~Finish(pw).error /\ Written /\ Close(Finish(pw).out)
  <2>1. image' = Finish(pw).out
    BY <1>9 DEF Close
  <2> QED
    BY <1>3, <1>5, <1>7, <1>9, <2>1
<1>10. CASE CloseFails /\ Close(<< >>)
  <2>1. image' = << >>
    BY <1>10 DEF Close
  <2> QED
    BY <1>6, <1>7, <1>10, <2>1
<1> QED
  BY <1>8, <1>9, <1>10 DEF PngEnd

(* One step per action.                                                    *)
LEMMA ContentsStep == ContentsInv /\ [PngNext]_allVars => ContentsInv'
<1> SUFFICES ASSUME ContentsInv, [PngNext]_allVars
             PROVE  ContentsInv'
  OBVIOUS
<1>0. NoFault \in Nat /\ format \in Format /\ R \in Nat /\ Part(image) /\ Part(<< >>)
  BY FormatAssumption, FormatNumbers, PartEmpty DEF ContentsInv
<1>1. ASSUME format' = format, Part(image'), ~Idle' => Told(pw')
      PROVE  ContentsInv'
  <2>1. format' \in Format
    BY <1>0, <1>1
  <2>2. Part(image)' /\ (Told(pw') => Told(pw)')
    BY <1>1, SameFormat
  <2> QED
    BY <1>1, <2>1, <2>2 DEF ContentsInv
<1>2. ASSUME NEW suffix \in Suffix, OpenPng(suffix) PROVE ContentsInv'
  <2>1. format' = format /\ image' = << >>
    BY <1>2 DEF OpenPng
  <2>2. FileLength \in Nat
    <3>1. N(R) \in Nat
      BY <1>0, FormatNumbers, Blocks
    <3> QED
      BY <1>0, <3>1 DEF FileLength, R, N
  <2>3. PICK fault \in Nat : pw' = Begin(fault)
    BY <1>0, <1>2, <2>2 DEF OpenPng
  <2>4. PICK f : Stream(pw', f, 0)
    BY <1>0, <2>3, BeginStream
  <2>5. pw'.raw = R - 0 /\ 0 \in 0 .. R
    BY <1>0, <2>4 DEF Stream
  <2>6. Told(pw')
    BY <2>4, <2>5 DEF Told
  <2> QED
    BY <1>0, <1>1, <2>1, <2>6
<1>3. ASSUME PutByte PROVE ContentsInv'
  <2>1. /\ ~Idle /\ pw.raw > 0 /\ pw' = EmitRawByte(pw, RawByte(RawLength - pw.raw + 1))
        /\ format' = format /\ image' = image
    BY <1>3 DEF PutByte
  <2>2. PICK f, k : k \in 0 .. R /\ pw.raw = R - k /\ Stream(pw, f, k)
    BY <2>1 DEF ContentsInv, Told
  <2>3. k \in 0 .. R - 1 /\ RawLength - pw.raw + 1 = k + 1 /\ k + 1 \in 0 .. R
    BY <1>0, <2>1, <2>2 DEF R
  <2>4. pw' = EmitRawByte(pw, RawByte(k + 1))
    BY <2>1, <2>3
  <2>5. PICK g : Stream(pw', g, k + 1)
    BY <1>0, <2>2, <2>3, <2>4, ByteStream
  <2>6. pw'.raw = R - (k + 1)
    BY <2>5 DEF Stream
  <2>7. Told(pw')
    BY <2>3, <2>5, <2>6 DEF Told
  <2> QED
    BY <1>0, <1>1, <2>1, <2>7
<1>4. ASSUME RowFails PROVE ContentsInv'
  <2>1. ~Idle /\ format' = format /\ image' = pw.out /\ Idle'
    BY <1>4 DEF RowFails, WriteFails, Close, Idle
  <2>2. PICK f, k : Stream(pw, f, k)
    BY <2>1 DEF ContentsInv, Told
  <2>3. Part(pw.out)
    BY <1>0, <2>2, OutPart DEF Stream
  <2> QED
    BY <1>1, <2>1, <2>3
<1>5. ASSUME PngEnd PROVE ContentsInv'
  BY <1>1, <1>5, Ending
<1>6. ASSUME PngPowerCycle PROVE ContentsInv'
  <2>1. format' = format /\ image' \in {image, << >>} /\ Idle'
    BY <1>6 DEF PngPowerCycle, PowerCycle, Close, Idle
  <2> QED
    BY <1>0, <1>1, <2>1
<1>7. ASSUME OpenFails \/ Insert \/ UNCHANGED vars, UNCHANGED pngVars PROVE ContentsInv'
  <2>1. format' = format /\ image' = image /\ pw' = pw
    BY <1>7 DEF pngVars
  <2>2. file' = file
    BY <1>7 DEF OpenFails, Insert, vars
  <2>3. ~Idle' => Told(pw)
    BY <2>2 DEF ContentsInv, Idle
  <2>4. ~Idle' => Told(pw')
    BY <2>1, <2>3
  <2> QED
    BY <1>0, <1>1, <2>1, <2>4
<1> QED
  BY <1>2, <1>3, <1>4, <1>5, <1>6, <1>7 DEF PngNext, allVars

LEMMA ContentsInvariant == PngSpec => []ContentsInv
BY ContentsInit, ContentsStep, PTL DEF PngSpec

(* Whatever failed while a file was written, the preview shows it as it    *)
(* was captured or not at all (png_writer.c, png_flush and png_raw;        *)
(* preview_overlay.c, decodePngToOverlay).                                 *)
THEOREM PngPreviewCorrect == PngSpec => []PreviewFaithful
<1>1. ContentsInv => PreviewFaithful
  BY PreviewPart DEF ContentsInv, PreviewFaithful
<1> QED
  BY <1>1, ContentsInvariant, PTL

(* A capture that is reported as done left a PNG that shows the screen, to *)
(* any reader and to the preview (png_writer.c, png_writer_begin to        *)
(* png_writer_end; README.md:7).                                           *)
THEOREM WholePngCorrect == PngSpec => WholeIsPng
<1>1. PngSpec => []TypedInv
  BY PngImplementsFiles, TypedInvariant, PTL
<1>2. ContentsInv /\ TypedInv /\ [PngNext]_allVars =>
        [Written => IsPng(image') /\ Preview(image') = RawImage]_allVars
  <2> SUFFICES ASSUME ContentsInv, TypedInv, PngNext, Written
               PROVE  IsPng(image') /\ Preview(image') = RawImage
    OBVIOUS
  <2>1. ~Idle /\ flashed' = TRUE /\ file' = << >> /\ card' = [card EXCEPT ![file] = "whole"]
    BY DEF Written
  <2>2. file \in Name /\ card \in [Name -> Content] /\ card[file] = "partial"
    BY <2>1 DEF TypedInv, TypeOK, CurrentFile, WritingInv
  <2>3. card' # card
    BY <2>1, <2>2
  <2>4. PngEnd
    <3>1. ~RowFails /\ ~PngPowerCycle /\ ~OpenFails
      BY <2>1 DEF RowFails, WriteFails, PngPowerCycle, PowerCycle, OpenFails
    <3>2. ~PutByte /\ ~Insert
      BY <2>3 DEF PutByte, vars, Insert
    <3>3. ASSUME NEW suffix \in Suffix PROVE ~OpenPng(suffix)
      BY <2>1 DEF OpenPng, Open
    <3> QED
      BY <3>1, <3>2, <3>3 DEF PngNext
  <2>5. ~CloseFails /\ ~WriteFails
    BY <2>3 DEF CloseFails, WriteFails
  <2>6. Complete(image') /\ format \in Format
    BY <2>4, <2>5, Ending DEF ContentsInv
  <2> QED
    BY <2>6, CompleteIsPng
<1> QED
  BY <1>1, <1>2, ContentsInvariant, PTL DEF PngSpec, WholeIsPng
=============================================================================
