------------------------- MODULE VblGrabberProofs --------------------------
(***************************************************************************)
(* Proofs about VblGrabber, for any number of chunks, attempts and presses.*)
(*                                                                         *)
(* The log without loss rests on what may pile up in the ring while the    *)
(* RP is away.  Every command sent during a stall carries the same token,  *)
(* so the answer that ends the stall passes for the answer to whatever the *)
(* handler waits for by then, and one old command may be handled next and  *)
(* a new one dropped behind it.  That is harmless as long as the handler   *)
(* is still within the snapshot whose BEGIN is in the ring: BudgetInv      *)
(* counts the timeouts it takes to get past it.                            *)
(***************************************************************************)
EXTENDS VblGrabber, TLAPS

InRing == 1 .. Len(ring)
LastRank == NumChunks + 1

(* The place of a command in the transfer of its snapshot: the resState    *)
(* that sends it.                                                          *)
Rank(c) == IF c.id = "BEGIN" THEN 1 ELSE c.idx + 2
Before(c, d) == c.snap < d.snap \/ (c.snap = d.snap /\ Rank(c) <= Rank(d))

(* In state k of snapshot s the handler has come to c, or beyond it.       *)
Sent(c, s, k) == c.snap < s \/ (c.snap = s /\ (k = 0 \/ Rank(c) <= k))
Past(c, s, k) == c.snap < s \/ (c.snap = s /\ (k = 0 \/ Rank(c) < k))

Waiting == spinning /\ ~Acked
Receiving == beginReceived /\ loopPc # "write"
Stalled == loopPc = "write" \/ patience > 0
AllNow == \A i \in InRing : ring[i].token = seed
AllOld == \A i \in InRing : ring[i].token < seed

(* Commands lie in the order they were sent, and one that was sent with an *)
(* earlier token is one the handler has left behind.                       *)
OrderInv ==
  \A i \in InRing :
    /\ ring[i].good
    /\ Sent(ring[i], snap, resState)
    /\ ~spinning \/ ring[i].token < request => Past(ring[i], snap, resState)
    /\ \A j \in InRing :
         i < j => Before(ring[i], ring[j]) /\ ring[i].token <= ring[j].token

(* Tokens only grow; during a stall they stand still.                      *)
TokenInv ==
  /\ request <= seed /\ token <= seed
  /\ \A i \in InRing : token <= ring[i].token /\ ring[i].token <= request
  /\ ~spinning => AllOld \/ AllNow
  /\ Stalled => AllNow

(* The command waited for lies behind older ones once, unless a stall made *)
(* the handler repeat it; where its first attempt can be lost, it is still *)
(* the first.                                                              *)
WaitInv ==
  Waiting =>
    /\ Receiving \/ ~AllNow =>
         \A i \in InRing : i < Len(ring) => ring[i].token < request
    /\ ring = << >> \/ (\E i \in InRing : ring[i].token < request) =>
         attempts = Retries

(* The timeouts it took to come from BEGIN to where the handler is.  All   *)
(* but one are paid for by the stall: the first attempt of a command may   *)
(* have been lost before.                                                  *)
Cost == (resState - 1) * Retries + (IF spinning THEN Retries - attempts ELSE 0)
Budget == maxStall - patience + 1

BudgetInv ==
  /\ Waiting => Retries - attempts <= Budget
  /\ \A i \in InRing : Rank(ring[i]) = 1 =>
       /\ ring[i].snap = snap
       /\ resState # 0
       /\ ring[i].token = seed => Cost <= Budget
       /\ spinning /\ resState = LastRank => ring[i].token < request

(* While a screen is received, the handler is idle, or sends chunks of     *)
(* that very snapshot, or waits for the next BEGIN to arrive.              *)
WithinSnapshot ==
  /\ resState # 0 /\ snap = meta
  /\ \A i \in InRing : ring[i].snap = meta
  /\ spinning /\ Acked /\ resState = LastRank => ring = << >>
  /\ \A i \in InRing : Rank(ring[i]) = LastRank => i = Len(ring) /\ Waiting
  /\ NumChunks - 1 \in chunksMask => spinning /\ Acked /\ resState = LastRank
NextSnapshot ==
  /\ resState = 1 /\ meta < snap
  /\ ~spinning => ring = << >>
  /\ spinning => request = seed /\ Len(ring) = 1 /\ Rank(ring[1]) = 1

ReceivingInv ==
  Receiving =>
    /\ patience = 0
    /\ ~spinning => AllOld
    /\ (resState = 0 /\ ring = << >>) \/ WithinSnapshot \/ NextSnapshot

(* The screen buffer and the files.                                        *)
ScreenInv ==
  /\ readyFlag <=> loopPc = "write"
  /\ loopPc = "write" => beginReceived /\ chunksMask = Chunk
  /\ beginReceived => meta > 0
  /\ beginReceived =>
       \A f \in Frame : f \div FramesPerChunk \in chunksMask => source[f] = meta
  /\ \A i \in 1 .. Len(shots) :
       /\ shots[i].meta <= meta
       /\ shots[i].meta = meta => ~beginReceived

(* A snapshot that is being sent is newer than every file.                 *)
FreshInv ==
  /\ meta <= pressCount /\ snap <= pressCount
  /\ resState # 0 => snap > 0
  /\ resPrev # captureSlot => meta < pressCount /\ snap < pressCount
  /\ resState = 1 \/ (\E i \in InRing : Rank(ring[i]) = 1) =>
       /\ \A i \in 1 .. Len(shots) : shots[i].meta < snap
       /\ loopPc = "write" => meta < snap

Inv ==
  /\ OrderInv /\ TokenInv /\ WaitInv /\ BudgetInv /\ ReceivingInv
  /\ ScreenInv /\ FreshInv

(* A card faster than the attempts of one command, though commands be lost.*)
(* Then the handler gives up on a command only when the ring is empty, and *)
(* what it left in the ring are copies of the command handled last.        *)
Mine(c) == SameCommand(c, Command(resState))

(* Where a command in the ring comes from, by its token.                   *)
CopyInv ==
  \A i \in InRing :
    /\ ring[i].token <= request
    /\ SameCommand(ring[i], handled) \/ (spinning /\ Mine(ring[i]))
    /\ spinning /\ ring[i].token = request => Mine(ring[i])
    /\ spinning /\ ring[i].token # request =>
         /\ ~Acked
         /\ attempts = Retries => SameCommand(ring[i], handled)
         /\ Receiving => attempts = Retries
    /\ ~spinning => ring[i].token < seed
    /\ loopPc = "handle" /\ i > 1 => ring[i].token = seed

(* Only a command that is new to the receiver can complete the screen.     *)
NewInv ==
  /\ readyFlag => loopPc = "write"
  /\ Receiving => /\ chunksMask # Chunk
                  /\ handled.id = "DATA" => handled.idx \in chunksMask

(* A stall finds the handler at the first attempt of its command, and pays *)
(* for each timeout after that.                                            *)
StallInv ==
  /\ patience > 0 => ~Receiving
  /\ patience > 0 /\ Waiting =>
       ring # << >> /\ Retries - attempts <= maxStall - patience

AnsweredInv ==
  /\ request <= seed
  /\ spinning /\ Acked => Mine(handled)

PatientInv == CopyInv /\ NewInv /\ StallInv /\ AnsweredInv

IInv == TypeOK /\ (Calm => Inv) /\ (Patient => PatientInv)

-----------------------------------------------------------------------------
LEMMA NumFramesPositive == NumFrames \in Nat \ {0}
  BY ReceiverAssumption DEF NumFrames

LEMMA ModStep ==
  ASSUME NEW n \in Nat \ {0}, NEW s \in 0 .. n + 1
  PROVE  (s + 1) % (n + 2) = IF s = n + 1 THEN 0 ELSE s + 1
  OBVIOUS

LEMMA InitType == Init => TypeOK
<1> SUFFICES ASSUME Init PROVE TypeOK
  OBVIOUS
<1>1. ReceiverTypeOK
  <2>1. source \in [Frame -> Snapshot]
    BY DEF Init, ReceiverInit, NoSnap, Snapshot
  <2>2. streamAck \in [seq : 0 .. SeqMod - 1, next : 0 .. NumFrames]
    BY ReceiverAssumption, NumFramesPositive DEF Init, ReceiverInit
  <2>3. shots \in Seq(Image)
    BY DEF Init, ReceiverInit
  <2>4. /\ beginReceived \in BOOLEAN /\ readyFlag \in BOOLEAN
        /\ chunksMask \in SUBSET Chunk /\ streamFrameMask \in SUBSET Frame
    BY DEF Init, ReceiverInit
  <2>5. /\ unread \in Nat /\ loopPc = "poll"
        /\ captureSlot \in 0 .. SeqMod - 1 /\ captureSeq \in 0 .. SeqMod - 1
        /\ streamSeq \in 0 .. SeqMod - 1
        /\ meta \in Snapshot /\ pressCount \in 0 .. MaxPresses
    BY ReceiverAssumption DEF Init, ReceiverInit, NoSnap, Snapshot
  <2> QED
    BY <2>1, <2>2, <2>3, <2>4, <2>5 DEF ReceiverTypeOK
<1>2. ring \in Seq(BlockCommand) /\ captureSlot \in 0 .. SeqMod - 1
  BY DEF Init, ReceiverInit
<1>3. handled \in BlockCommand
  BY ReceiverAssumption DEF Init, BlockCommand, Chunk, NoSnap, Snapshot
<1>4. /\ resState \in 0 .. NumChunks + 1 /\ attempts \in 0 .. Retries
      /\ maxStall \in Stalls /\ maxStall \in Nat /\ clean \in BOOLEAN
      /\ patience \in 0 .. maxStall
  <2>1. maxStall \in Stalls /\ maxStall \in Nat /\ patience = 0
    BY VblAssumption DEF Init
  <2>2. clean \in BOOLEAN
    BY ReceiverAssumption DEF Init
  <2>3. resState = 0 /\ attempts = 0
    BY DEF Init
  <2> QED
    BY <2>1, <2>2, <2>3, ReceiverAssumption, VblAssumption
<1>5. /\ loopPc = "poll"
      /\ token = -1 /\ seed = 0 /\ resPrev = captureSlot /\ snap = 0
      /\ spinning = FALSE /\ request = 0
  BY DEF Init, ReceiverInit, NoSnap
<1>6. spinning \in BOOLEAN /\ (spinning => resState # 0)
  BY DEF Init
<1> QED
  BY <1>1, <1>2, <1>3, <1>4, <1>5, <1>6 DEF TypeOK, Snapshot

(* What a send leaves in the ring.                                         *)
LEMMA SendType ==
  ASSUME TypeOK, resState # 0, SendSync
  PROVE  /\ \E ok \in BOOLEAN :
              ring' = Append(ring, [Command(resState) EXCEPT !.good = ok])
         /\ ring' \in Seq(BlockCommand) /\ ring' # << >>
         /\ unread' \in Nat
         /\ request' = seed
<1> USE ReceiverAssumption, VblAssumption
<1>1. PICK ok \in Outcome :
        ring' = Append(ring, [Command(resState) EXCEPT !.good = ok])
  BY DEF SendSync, Transmit
<1>2. ok \in BOOLEAN
  BY <1>1 DEF Outcome
<1>3. /\ [Command(resState) EXCEPT !.good = ok] =
           [id |-> IF resState = 1 THEN "BEGIN" ELSE "DATA",
            idx |-> IF resState = 1 THEN 0 ELSE resState - 2,
            snap |-> snap, token |-> seed, good |-> ok]
      /\ resState \in 1 .. NumChunks + 1
  <2>1. [Command(resState) EXCEPT !.good = ok] =
           [id |-> IF resState = 1 THEN "BEGIN" ELSE "DATA",
            idx |-> IF resState = 1 THEN 0 ELSE resState - 2,
            snap |-> snap, token |-> seed, good |-> ok]
    BY DEF Command
  <2>2. resState \in 1 .. NumChunks + 1
    BY DEF TypeOK
  <2> QED
    BY <2>1, <2>2
<1>4. (IF resState = 1 THEN 0 ELSE resState - 2) \in Chunk
  BY <1>3 DEF Chunk
<1>5. [Command(resState) EXCEPT !.good = ok] \in BlockCommand
  BY <1>2, <1>3, <1>4 DEF TypeOK, BlockCommand
<1>6. ring \in Seq(BlockCommand) /\ unread \in Nat
  BY DEF TypeOK, ReceiverTypeOK
<1>7. unread' = unread + WordsOf(resState) /\ WordsOf(resState) \in Nat
  BY DEF SendSync, Transmit, WordsOf
<1>8. ring' \in Seq(BlockCommand) /\ ring' # << >>
  BY <1>1, <1>5, <1>6
<1>9. unread' \in Nat
  BY <1>6, <1>7
<1>10. request' = seed
  BY Zenon DEF SendSync
<1>11. \E o \in BOOLEAN :
          ring' = Append(ring, [Command(resState) EXCEPT !.good = o])
  BY <1>1, <1>2, Zenon
<1> QED
  BY <1>8, <1>9, <1>10, <1>11

LEMMA AdvanceType ==
  ASSUME TypeOK, Advance
  PROVE  /\ resState' \in 0 .. NumChunks + 1
         /\ spinning' = FALSE
         /\ resState' = IF resState = NumChunks + 1 THEN 0 ELSE resState + 1
  BY ModStep, ReceiverAssumption DEF TypeOK, Advance

(* Every variable keeps its type: one step per action.                     *)
LEMMA TypeStep == TypeOK /\ [Next]_vars => TypeOK'
<1> SUFFICES ASSUME TypeOK, [Next]_vars PROVE TypeOK'
  OBVIOUS
<1> USE ReceiverAssumption, VblAssumption, NumFramesPositive
<1> USE DEF rpVars, ringVars, loopVars, receiverVars, tokenVars, session
<1>1. CASE TakeSnapshot
  BY <1>1 DEF TypeOK, ReceiverTypeOK, TakeSnapshot, Snapshot
<1>2. CASE FirstAttempt
  <2>1. /\ ring' \in Seq(BlockCommand) /\ ring' # << >>
        /\ unread' \in Nat /\ request' = seed
    BY <1>2, SendType DEF FirstAttempt
  <2> QED
    BY <1>2, <2>1 DEF TypeOK, ReceiverTypeOK, FirstAttempt, FullAttempts
<1>3. CASE AckSeen
  <2>1. resState' \in 0 .. NumChunks + 1 /\ spinning' = FALSE
    BY <1>3, AdvanceType DEF AckSeen
  <2> QED
    BY <1>3, <2>1 DEF TypeOK, ReceiverTypeOK, AckSeen
<1>4. CASE TimeoutRetry
  <2>1. /\ ring' \in Seq(BlockCommand) /\ ring' # << >>
        /\ unread' \in Nat /\ request' = seed
    BY <1>4, SendType DEF TimeoutRetry, TimesOut, TypeOK
  <2>2. patience' \in 0 .. maxStall
    BY <1>4 DEF TimeoutRetry, TimesOut, TypeOK
  <2> QED
    BY <1>4, <2>1, <2>2 DEF TypeOK, ReceiverTypeOK, TimeoutRetry
<1>5. CASE TimeoutGiveUp
  <2>1. resState' \in 0 .. NumChunks + 1 /\ spinning' = FALSE
    BY <1>5, AdvanceType DEF TimeoutGiveUp
  <2>2. patience' \in 0 .. maxStall
    BY <1>5 DEF TimeoutGiveUp, TimesOut, TypeOK
  <2> QED
    BY <1>5, <2>1, <2>2 DEF TypeOK, ReceiverTypeOK, TimeoutGiveUp
<1>6. CASE Reinstall
  <2>1. resPrev' \in 0 .. SeqMod - 1 /\ snap' = 0 /\ resState' = 0
    BY <1>6 DEF TypeOK, ReceiverTypeOK, Reinstall, NoSnap
  <2>2. spinning' \in BOOLEAN /\ (spinning' => resState' # 0)
    BY <1>6 DEF Reinstall
  <2>3. ReceiverTypeOK'
    BY <1>6 DEF TypeOK, ReceiverTypeOK, Reinstall
  <2>4. /\ token' \in Int /\ seed' \in Nat /\ request' \in Nat
        /\ attempts' \in 0 .. Retries /\ handled' \in BlockCommand
        /\ maxStall' \in Stalls /\ clean' \in BOOLEAN
        /\ patience' \in 0 .. maxStall'
        /\ ring' \in Seq(BlockCommand) /\ (loopPc' = "handle" => ring' # << >>)
    BY <1>6 DEF TypeOK, Reinstall
  <2> QED
    BY <2>1, <2>2, <2>3, <2>4, ReceiverAssumption DEF TypeOK, Snapshot
<1>7. CASE Answer
  <2> DEFINE c == Head(ring)
  <2>0. ring # << >>
    BY <1>7 DEF TypeOK, Answer, Handle, Receive
  <2>1. c \in BlockCommand /\ ring' \in Seq(BlockCommand)
    BY <1>7, <2>0 DEF TypeOK, Answer, Handle
  <2>2. /\ streamAck' = streamAck /\ streamSeq' = streamSeq
        /\ beginReceived' \in BOOLEAN /\ readyFlag' \in BOOLEAN
        /\ chunksMask' \in SUBSET Chunk /\ streamFrameMask' \in SUBSET Frame
        /\ meta' \in Snapshot
        /\ source' \in [Frame -> Snapshot]
    <3>1. CASE Begin(c)
      BY <2>1, <3>1
         DEF TypeOK, ReceiverTypeOK, Begin, ClearMasks, BlockCommand
    <3>2. CASE Data(c)
      <4>1. CASE beginReceived /\ c.idx \in Chunk
        <5>1. source' \in [Frame -> Snapshot]
          BY <2>1, <3>2, <4>1
             DEF TypeOK, ReceiverTypeOK, Data, BlockCommand
        <5> QED
          BY <2>1, <3>2, <4>1, <5>1 DEF TypeOK, ReceiverTypeOK, Data, LastChunk
      <4>2. CASE ~(beginReceived /\ c.idx \in Chunk)
        BY <3>2, <4>2 DEF TypeOK, ReceiverTypeOK, Data
      <4> QED
        BY <4>1, <4>2
    <3> QED
      BY <1>7, <2>1, <3>1, <3>2
         DEF Answer, Handle, Receive, StreamBegin, StreamData, BlockCommand
  <2>3. token' \in Int /\ seed' \in Nat /\ handled' \in BlockCommand
    BY <1>7, <2>1 DEF TypeOK, Answer, BlockCommand
  <2>4. patience' \in 0 .. maxStall
    BY <1>7 DEF TypeOK, Answer
  <2>5. loopPc' \in {"write", "select"}
    BY <1>7 DEF Answer, Handle
  <2> QED
    BY <1>7, <2>1, <2>2, <2>3, <2>4, <2>5
       DEF TypeOK, ReceiverTypeOK, Answer, Handle, stVars
<1>8. CASE Turn
  <2>1. patience' \in 0 .. maxStall
    BY <1>8 DEF TypeOK, Turn
  <2>2. ReceiverTypeOK' /\ ring' \in Seq(BlockCommand) /\ loopPc' # "handle"
    <3>1. CASE DrainNothing
      BY <3>1 DEF TypeOK, ReceiverTypeOK, DrainNothing
    <3>2. CASE WritePending
      <4>1. [meta |-> meta, data |-> source] \in Image
        BY DEF TypeOK, ReceiverTypeOK, Image
      <4>2. shots' \in Seq(Image)
        <5>1. shots \in Seq(Image)
          BY DEF TypeOK, ReceiverTypeOK
        <5> QED
          BY <3>2, <4>1, <5>1 DEF WritePending
      <4> QED
        BY <3>2, <4>2 DEF TypeOK, ReceiverTypeOK, WritePending, DropFlags
    <3>3. CASE SelectRelease
      BY <3>3, NumFramesPositive DEF TypeOK, ReceiverTypeOK, SelectRelease
    <3>4. CASE SelectIdle
      BY <3>4 DEF TypeOK, ReceiverTypeOK, SelectIdle
    <3> QED
      BY <1>8, <3>1, <3>2, <3>3, <3>4 DEF Turn, ServiceLoop
  <2> QED
    BY <1>8, <2>1, <2>2 DEF TypeOK, Turn, stVars
<1>9. CASE Take
  <2>1. PICK i \in 1 .. Len(ring) : Drain(i)
    BY <1>9 DEF Take
  <2>2. ring' \in Seq(BlockCommand)
    BY <2>1 DEF TypeOK, Drain
  <2> QED
    BY <1>9, <2>1, <2>2 DEF TypeOK, ReceiverTypeOK, Take, Drain, stVars
<1>10. CASE UNCHANGED vars
  BY <1>10 DEF TypeOK, ReceiverTypeOK, vars, stVars
<1> QED
  BY <1>1, <1>2, <1>3, <1>4, <1>5, <1>6, <1>7, <1>8, <1>9, <1>10
     DEF Next, Tick, Rp

(* Every variable keeps its type, whatever the session.                    *)
THEOREM VblTypeCorrect == Spec => []TypeOK
<1>1. Init => TypeOK
  BY InitType
<1>2. TypeOK /\ [Next]_vars => TypeOK'
  BY TypeStep
<1> QED
  BY <1>1, <1>2, PTL DEF Spec

-----------------------------------------------------------------------------
LEMMA RingFacts ==
  ASSUME TypeOK
  PROVE  /\ ring \in Seq(BlockCommand) /\ Len(ring) \in Nat
         /\ \A i \in InRing :
              /\ ring[i] \in BlockCommand
              /\ Rank(ring[i]) \in 1 .. LastRank
              /\ ring[i].snap \in Nat /\ ring[i].token \in Nat
<1>1. ring \in Seq(BlockCommand) /\ Len(ring) \in Nat
  BY DEF TypeOK
<1>2. ASSUME NEW i \in InRing
      PROVE  /\ ring[i] \in BlockCommand
             /\ Rank(ring[i]) \in 1 .. LastRank
             /\ ring[i].snap \in Nat /\ ring[i].token \in Nat
  <2>1. ring[i] \in BlockCommand
    BY <1>1, <1>2 DEF InRing
  <2> QED
    BY <2>1, ReceiverAssumption
       DEF BlockCommand, Rank, LastRank, Chunk, Snapshot
<1> QED
  BY <1>1, <1>2

LEMMA TokenFacts ==
  ASSUME TypeOK PROVE token \in Int /\ seed \in Nat /\ request \in Nat
  BY DEF TypeOK

LEMMA TimeFacts ==
  ASSUME TypeOK
  PROVE  /\ Retries \in Nat \ {0} /\ attempts \in 0 .. Retries
         /\ maxStall \in Nat /\ patience \in Nat /\ patience <= maxStall
<1>1. maxStall \in Nat
  BY VblAssumption DEF TypeOK
<1> QED
  BY <1>1, VblAssumption DEF TypeOK

LEMMA StateFacts ==
  ASSUME TypeOK
  PROVE  /\ NumChunks \in Nat \ {0} /\ LastRank \in Nat /\ LastRank > 1
         /\ resState \in 0 .. LastRank /\ (spinning => resState # 0)
         /\ snap \in Nat /\ meta \in Nat /\ pressCount \in Nat
         /\ spinning \in BOOLEAN
         /\ beginReceived \in BOOLEAN /\ readyFlag \in BOOLEAN
<1>1. pressCount \in Nat
  BY ReceiverAssumption DEF TypeOK, ReceiverTypeOK
<1> QED
  BY <1>1, ReceiverAssumption
     DEF TypeOK, ReceiverTypeOK, LastRank, Snapshot

LEMMA ShotFacts ==
  ASSUME TypeOK
  PROVE  /\ shots \in Seq(Image) /\ Len(shots) \in Nat
         /\ \A i \in 1 .. Len(shots) : shots[i].meta \in Nat
<1>1. shots \in Seq(Image) /\ Len(shots) \in Nat
  BY DEF TypeOK, ReceiverTypeOK
<1>2. \A i \in 1 .. Len(shots) : shots[i] \in Image
  BY <1>1
<1> QED
  BY <1>1, <1>2 DEF Image, Snapshot

(* In a session without loss a send leaves its command in the ring.        *)
LEMMA SendRing ==
  ASSUME TypeOK, clean, resState # 0, SendSync
  PROVE  /\ request' = seed
         /\ Len(ring') = Len(ring) + 1
         /\ \A i \in InRing : ring'[i] = ring[i]
         /\ LET c == ring'[Len(ring) + 1]
            IN  c.good /\ c.snap = snap /\ c.token = seed /\ Rank(c) = resState
<1>1. PICK ok \in BOOLEAN :
        ring' = Append(ring, [Command(resState) EXCEPT !.good = ok])
  BY SendType
<1>2. ring \in Seq(BlockCommand) /\ Len(ring) \in Nat
  BY RingFacts
<1> DEFINE c == [Command(resState) EXCEPT !.good = ok]
<1>3. c = [id |-> IF resState = 1 THEN "BEGIN" ELSE "DATA",
           idx |-> IF resState = 1 THEN 0 ELSE resState - 2,
           snap |-> snap, token |-> seed, good |-> ok]
  BY DEF Command
<1>4. c.snap = snap /\ c.token = seed /\ c.good = ok
  BY <1>3
<1>5. Rank(c) = resState
  BY <1>3, StateFacts DEF Rank
<1> HIDE DEF c
<1>6. /\ Len(ring') = Len(ring) + 1
      /\ \A i \in InRing : ring'[i] = ring[i]
      /\ ring'[Len(ring) + 1] = c
  BY <1>1, <1>2 DEF InRing, c
<1>7. ring'[Len(ring')].good
  BY DEF SendSync
<1> QED
  BY <1>4, <1>5, <1>6, <1>7 DEF SendSync

(* In a calm session the handler cannot get to the last chunk while the    *)
(* BEGIN of a stall lies in the ring.                                      *)
LEMMA Affords ==
  ASSUME NEW s \in Nat, NEW r \in Nat \ {0}, NEW n \in Nat, NEW m \in Nat,
         (s - 1) * r <= m + 1, m < (n - 1) * r
  PROVE  s <= n
<1> SUFFICES ASSUME s > n PROVE FALSE
  OBVIOUS
<1>1. PICK d \in Nat : s - 1 = n + d
  <2>1. s - 1 - n \in Nat /\ s - 1 = n + (s - 1 - n)
    OBVIOUS
  <2> QED
    BY <2>1
<1>2. (n + d) * r = n * r + d * r /\ (n - 1) * r = n * r - r
  OBVIOUS
<1>3. d * r >= 0 /\ d * r \in Int /\ n * r \in Int
  OBVIOUS
<1> QED
  BY <1>1, <1>2, <1>3

LEMMA NotLast ==
  ASSUME TypeOK, BudgetInv, Calm, NEW i \in InRing,
         Rank(ring[i]) = 1, ring[i].token = seed
  PROVE  resState # LastRank
<1> USE StateFacts, TimeFacts
<1>1. Cost <= maxStall - patience + 1 /\ resState \in Nat /\ resState # 0
  BY DEF BudgetInv, Budget
<1>2. (resState - 1) * Retries \in Int /\ (resState - 1) * Retries <= Cost
  BY <1>1 DEF Cost
<1>3. (resState - 1) * Retries <= maxStall + 1
  BY <1>1, <1>2 DEF Cost
<1>4. resState <= NumChunks
  BY <1>1, <1>3, Affords DEF Calm
<1> QED
  BY <1>4 DEF LastRank

-----------------------------------------------------------------------------
(* One lemma per action: it keeps the invariant.                           *)

LEMMA TakeSnapshotInv ==
  ASSUME TypeOK, Inv, TakeSnapshot PROVE Inv'
<1> USE DEF Inv, TakeSnapshot, rpVars, ringVars,
        loopVars, receiverVars, tokenVars, session
<1>1. /\ resState = 0 /\ resState' = 1 /\ ~spinning /\ ~spinning'
      /\ snap' = pressCount /\ snap < pressCount /\ meta < pressCount
      /\ ring' = ring
  BY StateFacts DEF FreshInv
<1>2. ASSUME NEW i \in InRing
      PROVE  ring[i].snap < snap' /\ Rank(ring[i]) # 1
  <2>1. Sent(ring[i], snap, resState)
    BY <1>2 DEF OrderInv
  <2>2. Rank(ring[i]) # 1
    BY <1>1, <1>2 DEF BudgetInv
  <2> QED
    BY <1>1, <1>2, <2>1, <2>2, StateFacts, RingFacts DEF Sent
<1>3. OrderInv'
  BY <1>1, <1>2 DEF OrderInv, InRing, Sent, Past
<1>4. TokenInv'
  BY <1>1 DEF TokenInv, InRing, AllOld, AllNow, Stalled
<1>5. WaitInv'
  BY <1>1 DEF WaitInv, Waiting
<1>6. BudgetInv'
  BY <1>1, <1>2 DEF BudgetInv, InRing, Waiting
<1>7. ReceivingInv'
  <2> SUFFICES ASSUME Receiving' PROVE ReceivingInv'
    BY DEF ReceivingInv
  <2>1. Receiving /\ patience = 0 /\ AllOld
    BY <1>1 DEF Receiving, ReceivingInv
  <2>2. ring = << >>
    BY <1>1, <2>1 DEF ReceivingInv, WithinSnapshot, NextSnapshot
  <2>3. NextSnapshot'
    BY <1>1, <2>2 DEF NextSnapshot
  <2>4. AllOld'
    BY <1>1, <2>1 DEF AllOld, InRing
  <2> QED
    BY <1>1, <2>1, <2>3, <2>4 DEF ReceivingInv
<1>8. ScreenInv'
  BY DEF ScreenInv
<1>9. FreshInv'
  <2>1. \A i \in 1 .. Len(shots) : shots[i].meta < pressCount
    BY <1>1, ShotFacts, StateFacts DEF ScreenInv
  <2> QED
    BY <1>1, <2>1, StateFacts DEF FreshInv
<1> QED
  BY <1>3, <1>4, <1>5, <1>6, <1>7, <1>8, <1>9

LEMMA FirstAttemptInv ==
  ASSUME TypeOK, Inv, Calm, FirstAttempt PROVE Inv'
<1> USE DEF Inv
<1>1. /\ resState # 0 /\ ~spinning /\ spinning' /\ attempts' = Retries
      /\ resState' = resState /\ snap' = snap /\ resPrev' = resPrev
      /\ token' = token /\ seed' = seed /\ request' = seed
      /\ patience' = patience /\ maxStall' = maxStall
      /\ UNCHANGED <<loopVars, receiverVars>>
  BY DEF FirstAttempt, FullAttempts, SendSync, tokenVars, session
<1>2. PICK c : /\ Len(ring') = Len(ring) + 1
               /\ \A i \in InRing : ring'[i] = ring[i]
               /\ ring'[Len(ring) + 1] = c
               /\ c.good /\ c.snap = snap /\ c.token = seed
               /\ Rank(c) = resState
  BY SendRing DEF FirstAttempt, Calm
<1>3. /\ InRing' = InRing \union {Len(ring) + 1}
      /\ \A i \in InRing : i < Len(ring) + 1
  BY <1>2 DEF InRing
<1>4. \A i \in InRing : Past(ring[i], snap, resState) /\ ring[i].token <= seed
  BY <1>1, TokenFacts, RingFacts DEF OrderInv, TokenInv
<1>5. OrderInv'
  <2>1. \A i \in InRing : Before(ring[i], c)
    BY <1>1, <1>2, <1>4, StateFacts, RingFacts DEF Past, Before
  <2>2. ASSUME NEW i \in InRing
        PROVE  /\ ring'[i].good
               /\ Past(ring'[i], snap, resState) /\ Sent(ring'[i], snap, resState)
               /\ ring'[i].token <= seed
               /\ \A j \in InRing : i < j => /\ Before(ring'[i], ring'[j])
                                           /\ ring'[i].token <= ring'[j].token
    BY <1>1, <1>2, <1>4, <2>2 DEF OrderInv, Sent, Past
  <2>3. Sent(c, snap, resState)
    BY <1>1, <1>2, StateFacts DEF Sent
  <2>4. ASSUME NEW i \in InRing'
        PROVE  /\ ring'[i].good /\ Sent(ring'[i], snap, resState)
               /\ ring'[i].token < seed => Past(ring'[i], snap, resState)
               /\ \A j \in InRing' : i < j => /\ Before(ring'[i], ring'[j])
                                            /\ ring'[i].token <= ring'[j].token
    <3>1. CASE i \in InRing
      BY <1>2, <1>3, <2>1, <2>2, <3>1
    <3>2. CASE i = Len(ring) + 1
      <4>1. \A j \in InRing' : ~(i < j)
        BY <1>3, <3>2, RingFacts DEF InRing
      <4> QED
        BY <1>2, <2>3, <3>2, <4>1, TokenFacts
    <3> QED
      BY <1>3, <3>1, <3>2
  <2> QED
    BY <1>1, <2>4 DEF OrderInv
<1>6. Waiting' /\ ~Waiting /\ ~Acked'
  BY <1>1 DEF Acked, Waiting
<1>7. TokenInv'
  <2>1. AllNow => AllNow'
    BY <1>1, <1>2, <1>3 DEF AllNow
  <2>2. Stalled' <=> Stalled
    BY <1>1 DEF Stalled, loopVars
  <2>3. \A i \in InRing' : token <= ring'[i].token /\ ring'[i].token <= seed
    BY <1>2, <1>3, <1>4, TokenFacts, RingFacts DEF TokenInv
  <2> QED
    BY <1>1, <2>1, <2>2, <2>3, TokenFacts DEF TokenInv
<1>8. WaitInv'
  <2>1. ~AllNow' => AllOld
    BY <1>1, <1>2, <1>3 DEF TokenInv, AllNow
  <2>2. Receiving' => AllOld
    BY <1>1 DEF ReceivingInv, Receiving, loopVars, receiverVars
  <2>3. \A i \in InRing' : i < Len(ring') => i \in InRing /\ ring'[i] = ring[i]
    BY <1>2, <1>3
  <2> QED
    BY <1>1, <2>1, <2>2, <2>3 DEF WaitInv, AllOld
<1>9. BudgetInv'
  <2>1. Cost' = (resState - 1) * Retries /\ Cost = (resState - 1) * Retries
    BY <1>1, StateFacts, TimeFacts DEF Cost
  <2>2. ASSUME NEW i \in InRing, Rank(ring[i]) = 1
        PROVE  /\ ring[i].snap = snap
               /\ ring[i].token = seed => Cost' <= Budget
               /\ resState = LastRank => ring[i].token < seed
    <3>1. ring[i].token = seed => resState # LastRank
      BY <2>2, NotLast
    <3> QED
      BY <1>4, <2>1, <2>2, <3>1, RingFacts, TokenFacts DEF BudgetInv
  <2>3. Rank(c) = 1 => Cost' = 0 /\ 0 <= Budget
    BY <1>1, <1>2, <2>1, TimeFacts DEF Budget
  <2>4. ASSUME NEW i \in InRing', Rank(ring'[i]) = 1
        PROVE  /\ ring'[i].snap = snap
               /\ ring'[i].token = seed => Cost' <= Budget
               /\ resState = LastRank => ring'[i].token < seed
    <3>1. CASE i \in InRing
      BY <1>2, <2>2, <2>4, <3>1
    <3>2. CASE i = Len(ring) + 1
      BY <1>2, <2>3, <2>4, <3>2, StateFacts
    <3> QED
      BY <1>3, <3>1, <3>2
  <2>5. Budget' = Budget /\ 0 <= Budget
    BY <1>1, TimeFacts DEF Budget
  <2> QED
    BY <1>1, <2>4, <2>5, TimeFacts DEF BudgetInv
<1>10. ReceivingInv'
  <2> SUFFICES ASSUME Receiving' PROVE ReceivingInv'
    BY DEF ReceivingInv
  <2>1. Receiving /\ patience = 0
    BY <1>1 DEF Receiving, ReceivingInv, loopVars, receiverVars
  <2>2. CASE WithinSnapshot
    <3>1. WithinSnapshot'
      BY <1>1, <1>2, <1>3, <1>6, <2>2
         DEF WithinSnapshot, Waiting, receiverVars
    <3> QED
      BY <1>1, <2>1, <3>1 DEF ReceivingInv
  <2>3. CASE NextSnapshot
    <3>1. ring = << >> /\ Len(ring') = 1 /\ ring'[1] = c /\ resState = 1
      BY <1>1, <1>2, <2>3 DEF NextSnapshot
    <3>2. NextSnapshot'
      BY <1>1, <1>2, <2>3, <3>1 DEF NextSnapshot, receiverVars
    <3> QED
      BY <1>1, <2>1, <3>2 DEF ReceivingInv
  <2> QED
    BY <1>1, <2>1, <2>2, <2>3 DEF ReceivingInv
<1>11. ScreenInv'
  BY <1>1 DEF ScreenInv, loopVars, receiverVars
<1>12. FreshInv'
  BY <1>1, <1>2, <1>3 DEF FreshInv, loopVars, receiverVars
<1> QED
  BY <1>5, <1>7, <1>8, <1>9, <1>10, <1>11, <1>12

(* An answer that is taken for the current one leaves only older tokens.   *)
LEMMA AckedOld ==
  ASSUME TypeOK, TokenInv, spinning, Acked
  PROVE  /\ request < seed /\ AllOld
         /\ \A i \in InRing : ring[i].token = request
  BY RingFacts, TokenFacts DEF TokenInv, Acked, AllOld

LEMMA AdvancePast ==
  ASSUME TypeOK, OrderInv, Advance, spinning, snap' = snap, ring' = ring
  PROVE  /\ ~spinning'
         /\ resState' = IF resState = LastRank THEN 0 ELSE resState + 1
         /\ resState' # 1
         /\ OrderInv'
<1>1. /\ ~spinning'
      /\ resState' = IF resState = LastRank THEN 0 ELSE resState + 1
  BY AdvanceType DEF LastRank
<1>2. \A i \in InRing : /\ Sent(ring[i], snap, resState')
                        /\ Past(ring[i], snap, resState')
  BY <1>1, StateFacts, RingFacts DEF OrderInv, Sent, Past
<1>3. OrderInv'
  <2>1. ASSUME NEW i \in InRing
        PROVE  /\ ring[i].good /\ Sent(ring[i], snap, resState')
               /\ Past(ring[i], snap, resState')
               /\ \A j \in InRing : i < j => /\ Before(ring[i], ring[j])
                                           /\ ring[i].token <= ring[j].token
    BY <1>2, <2>1 DEF OrderInv
  <2> QED
    BY <2>1 DEF OrderInv, InRing
<1> QED
  BY <1>1, <1>3, StateFacts

LEMMA AckSeenInv ==
  ASSUME TypeOK, Inv, AckSeen PROVE Inv'
<1> USE DEF Inv
<1>1. /\ spinning /\ Acked /\ Advance /\ ring' = ring /\ snap' = snap
      /\ token' = token /\ seed' = seed /\ request' = request
      /\ patience' = patience /\ maxStall' = maxStall /\ resPrev' = resPrev
      /\ UNCHANGED <<loopVars, receiverVars>>
  BY DEF AckSeen, rpVars, ringVars, tokenVars, session
<1>2. /\ ~spinning' /\ resState' # 1 /\ OrderInv'
      /\ resState' = IF resState = LastRank THEN 0 ELSE resState + 1
  BY <1>1, AdvancePast
<1>3. AllOld /\ \A i \in InRing : ring[i].token = request /\ ring[i].token < seed
  BY <1>1, AckedOld DEF AllOld
<1>4. TokenInv'
  BY <1>1, <1>2, <1>3
     DEF TokenInv, AllOld, AllNow, Stalled, InRing, loopVars
<1>5. WaitInv'
  BY <1>2 DEF WaitInv, Waiting
<1>6. BudgetInv'
  <2>1. ASSUME NEW i \in InRing, Rank(ring[i]) = 1
        PROVE  ring[i].snap = snap /\ resState' # 0 /\ ring[i].token # seed
    <3>1. resState # LastRank
      BY <1>1, <1>3, <2>1, TokenFacts DEF BudgetInv
    <3>2. resState' = resState + 1 /\ resState \in Nat
      BY <1>2, <3>1, StateFacts
    <3>3. ring[i].token < seed /\ ring[i].token \in Nat
      BY <1>3, <2>1, RingFacts
    <3> QED
      BY <2>1, <3>2, <3>3, TokenFacts DEF BudgetInv
  <2> QED
    BY <1>1, <1>2, <2>1 DEF BudgetInv, Waiting, InRing
<1>7. ReceivingInv'
  <2> SUFFICES ASSUME Receiving' PROVE ReceivingInv'
    BY DEF ReceivingInv
  <2>1. Receiving /\ patience = 0
    BY <1>1 DEF Receiving, ReceivingInv, loopVars, receiverVars
  <2>2. AllOld'
    BY <1>1, <1>3 DEF AllOld, InRing
  <2>3. WithinSnapshot
    BY <1>1, <2>1, StateFacts DEF ReceivingInv, NextSnapshot, Acked
  <2>4. CASE resState = LastRank
    BY <1>1, <1>2, <2>1, <2>2, <2>3, <2>4 DEF ReceivingInv, WithinSnapshot
  <2>5. CASE resState # LastRank
    <3>1. \A i \in InRing' : /\ ring'[i].snap = meta'
                            /\ Rank(ring'[i]) # LastRank
      BY <1>1, <2>3 DEF WithinSnapshot, Waiting, InRing, receiverVars
    <3>2. NumChunks - 1 \notin chunksMask' /\ snap' = meta'
      BY <1>1, <2>3, <2>5 DEF WithinSnapshot, receiverVars
    <3>3. WithinSnapshot'
      BY <1>2, <2>5, <3>1, <3>2, StateFacts DEF WithinSnapshot
    <3> QED
      BY <1>1, <2>1, <2>2, <3>3 DEF ReceivingInv
  <2> QED
    BY <2>4, <2>5
<1>8. ScreenInv'
  BY <1>1 DEF ScreenInv, loopVars, receiverVars
<1>9. FreshInv'
  BY <1>1, <1>2 DEF FreshInv, InRing, loopVars, receiverVars
<1> QED
  BY <1>2, <1>4, <1>5, <1>6, <1>7, <1>8, <1>9

LEMMA TimeoutGiveUpInv ==
  ASSUME TypeOK, Inv, Calm, TimeoutGiveUp PROVE Inv'
<1> USE DEF Inv
<1>1. /\ spinning /\ ~Acked /\ Waiting /\ attempts = 1 /\ Advance
      /\ ring' = ring /\ snap' = snap
      /\ token' = token /\ seed' = seed /\ request' = request
      /\ maxStall' = maxStall /\ resPrev' = resPrev
      /\ UNCHANGED <<loopVars, receiverVars>>
  BY DEF TimeoutGiveUp, TimesOut, rpVars, ringVars, tokenVars, session, Waiting
<1>2. \/ patience > 0 /\ patience' = patience - 1
      \/ ring = << >> /\ patience' = patience
  BY DEF TimeoutGiveUp, TimesOut
<1>3. /\ ~spinning' /\ resState' # 1 /\ OrderInv'
      /\ resState' = IF resState = LastRank THEN 0 ELSE resState + 1
  BY <1>1, AdvancePast
<1>4. AllNow
  BY <1>2 DEF TokenInv, Stalled, AllNow, InRing
<1>5. TokenInv'
  BY <1>1, <1>3, <1>4 DEF TokenInv, AllNow, InRing
<1>6. WaitInv'
  BY <1>3 DEF WaitInv, Waiting
<1>7. BudgetInv'
  <2>1. ASSUME NEW i \in InRing, Rank(ring[i]) = 1
        PROVE  ring[i].snap = snap /\ resState' # 0 /\ Cost' <= Budget'
    <3>1. ring[i].token = seed /\ patience' = patience - 1
      BY <1>2, <1>4, <2>1 DEF AllNow, InRing
    <3>2. resState # LastRank /\ resState' = resState + 1
      BY <1>3, <2>1, <3>1, NotLast
    <3>3. Cost <= Budget /\ Cost = (resState - 1) * Retries + (Retries - 1)
      BY <1>1, <2>1, <3>1 DEF BudgetInv, Cost
    <3>4. Cost' = (resState' - 1) * Retries
      BY <1>3, TimeFacts, StateFacts DEF Cost
    <3>5. (resState' - 1) * Retries = (resState - 1) * Retries + Retries
      BY <1>1, <3>2, StateFacts, TimeFacts
    <3>6. (resState - 1) * Retries \in Int
      BY StateFacts, TimeFacts
    <3>7. PICK x \in Int : x = (resState - 1) * Retries
      BY <3>6
    <3>8. x + (Retries - 1) <= maxStall - patience + 1
      BY <3>3, <3>7 DEF Budget
    <3>9. Cost' <= Budget'
      <4>1. Cost' = x + Retries
        BY <3>4, <3>5, <3>7
      <4>2. Budget' = maxStall - (patience - 1) + 1
        BY <1>1, <3>1 DEF Budget
      <4>3. maxStall \in Int /\ patience \in Int /\ Retries \in Int
        BY TimeFacts
      <4> QED
        BY <3>8, <4>1, <4>2, <4>3
    <3> QED
      BY <1>1, <2>1, <3>2, <3>9, StateFacts DEF BudgetInv
  <2> QED
    BY <1>1, <1>3, <2>1 DEF BudgetInv, Waiting, InRing
<1>8. ReceivingInv'
  <2> SUFFICES ASSUME Receiving' PROVE ReceivingInv'
    BY DEF ReceivingInv
  <2>1. Receiving /\ patience = 0 /\ patience' = 0 /\ ring = << >>
    BY <1>1, <1>2 DEF Receiving, ReceivingInv, loopVars, receiverVars
  <2>2. AllOld'
    BY <1>1, <2>1 DEF AllOld, InRing
  <2>3. WithinSnapshot
    BY <1>1, <2>1, StateFacts DEF ReceivingInv, NextSnapshot
  <2>4. CASE resState = LastRank
    BY <1>1, <1>3, <2>1, <2>2, <2>4 DEF ReceivingInv
  <2>5. CASE resState # LastRank
    <3>1. WithinSnapshot'
      BY <1>1, <1>3, <2>1, <2>3, <2>5, StateFacts
         DEF WithinSnapshot, InRing, receiverVars
    <3> QED
      BY <1>1, <2>1, <2>2, <3>1 DEF ReceivingInv
  <2> QED
    BY <2>4, <2>5
<1>9. ScreenInv'
  BY <1>1 DEF ScreenInv, loopVars, receiverVars
<1>10. FreshInv'
  BY <1>1, <1>3 DEF FreshInv, InRing, loopVars, receiverVars
<1> QED
  BY <1>3, <1>5, <1>6, <1>7, <1>8, <1>9, <1>10

LEMMA TimeoutRetryInv ==
  ASSUME TypeOK, Inv, Calm, TimeoutRetry PROVE Inv'
<1> USE DEF Inv
<1>1. /\ spinning /\ spinning' /\ ~Acked /\ Waiting /\ attempts' = attempts - 1
      /\ resState # 0 /\ resState' = resState /\ snap' = snap
      /\ token' = token /\ seed' = seed /\ request' = seed
      /\ maxStall' = maxStall /\ resPrev' = resPrev
      /\ UNCHANGED <<loopVars, receiverVars>>
  BY StateFacts DEF TimeoutRetry, TimesOut, SendSync, tokenVars, session, Waiting
<1>2. PICK c : /\ Len(ring') = Len(ring) + 1
               /\ \A i \in InRing : ring'[i] = ring[i]
               /\ ring'[Len(ring) + 1] = c
               /\ c.good /\ c.snap = snap /\ c.token = seed
               /\ Rank(c) = resState
  BY <1>1, SendRing DEF TimeoutRetry, Calm
<1>3. /\ InRing' = InRing \union {Len(ring) + 1}
      /\ \A i \in InRing : i < Len(ring) + 1
  BY <1>2 DEF InRing
<1>4. \/ patience > 0 /\ patience' = patience - 1
      \/ ring = << >> /\ patience' = patience
  BY DEF TimeoutRetry, TimesOut
<1>5. /\ \A i \in InRing : ring[i].token = seed
      /\ \A i \in InRing' : ring'[i].token = seed
  <2>1. \A i \in InRing : ring[i].token = seed
    BY <1>4 DEF TokenInv, Stalled, AllNow, InRing
  <2> QED
    BY <1>2, <1>3, <2>1
<1>6. Waiting' /\ ~Acked'
  BY <1>1 DEF Acked, Waiting
<1>7. OrderInv'
  <2>1. \A i \in InRing : Sent(ring[i], snap, resState) /\ Before(ring[i], c)
    BY <1>1, <1>2 DEF OrderInv, Sent, Before
  <2>2. Sent(c, snap, resState)
    BY <1>1, <1>2, StateFacts DEF Sent
  <2>3. ASSUME NEW i \in InRing'
        PROVE  /\ ring'[i].good /\ Sent(ring'[i], snap, resState)
               /\ \A j \in InRing' : i < j => Before(ring'[i], ring'[j])
    <3>1. CASE i \in InRing
      <4>1. ring[i].good /\ \A j \in InRing : i < j => Before(ring[i], ring[j])
        BY <3>1 DEF OrderInv
      <4> QED
        BY <1>2, <1>3, <2>1, <3>1, <4>1
    <3>2. CASE i = Len(ring) + 1
      <4>1. \A j \in InRing' : ~(i < j)
        BY <1>3, <3>2
      <4> QED
        BY <1>2, <2>2, <3>2, <4>1
    <3> QED
      BY <1>3, <3>1, <3>2
  <2>4. \A i, j \in InRing' : /\ ring'[i].token <= ring'[j].token
                             /\ ~(ring'[i].token < seed)
    BY <1>5, TokenFacts
  <2> QED
    BY <1>1, <2>3, <2>4 DEF OrderInv
<1>8. TokenInv'
  BY <1>1, <1>5, TokenFacts, RingFacts DEF TokenInv, AllNow
<1>9. WaitInv'
  <2>1. Receiving' => ring = << >>
    BY <1>1, <1>4 DEF Receiving, ReceivingInv, loopVars, receiverVars
  <2>2. AllNow' /\ Len(ring') # 0
    BY <1>1, <1>2, <1>5 DEF AllNow
  <2>3. ring = << >> => \A i \in InRing' : ~(i < Len(ring'))
    BY <1>2 DEF InRing
  <2>4. ring' # << >>
    BY <2>2
  <2> QED
    BY <1>1, <1>5, <2>1, <2>2, <2>3, <2>4, TokenFacts DEF WaitInv
<1>10. BudgetInv'
  <2>1. Retries - attempts' <= Budget'
    <3>1. CASE patience > 0 /\ patience' = patience - 1
      <4>1. Retries - attempts <= maxStall - patience + 1
        BY <1>1 DEF BudgetInv, Budget
      <4>2. /\ attempts' = attempts - 1
            /\ Budget' = maxStall - (patience - 1) + 1
        BY <1>1, <3>1 DEF Budget
      <4>3. /\ maxStall \in Int /\ patience \in Int
            /\ Retries \in Int /\ attempts \in Int
        BY TimeFacts
      <4> QED
        BY <4>1, <4>2, <4>3
    <3>2. CASE ring = << >> /\ patience' = patience
      BY <1>1, <3>2, TimeFacts DEF WaitInv, Budget
    <3> QED
      BY <1>4, <3>1, <3>2
  <2>2. ASSUME NEW i \in InRing, Rank(ring[i]) = 1
        PROVE  /\ ring[i].snap = snap /\ Cost' <= Budget'
               /\ resState # LastRank
    <3>1. patience' = patience - 1
      BY <1>4 DEF InRing
    <3>2. resState # LastRank
      BY <1>5, <2>2, NotLast
    <3>3. Cost <= Budget
      BY <1>5, <2>2 DEF BudgetInv
    <3>4. PICK x \in Int : x = (resState - 1) * Retries
      BY StateFacts, TimeFacts
    <3>5. x + (Retries - attempts) <= maxStall - patience + 1
      BY <1>1, <3>3, <3>4 DEF Budget, Cost
    <3>6. Cost' = x + (Retries - (attempts - 1))
      BY <1>1, <3>4 DEF Cost
    <3>7. Budget' = maxStall - (patience - 1) + 1
      BY <1>1, <3>1 DEF Budget
    <3>8. /\ maxStall \in Int /\ patience \in Int
          /\ Retries \in Int /\ attempts \in Int
      BY TimeFacts
    <3>9. Cost' <= Budget'
      BY <3>5, <3>6, <3>7, <3>8
    <3> QED
      BY <2>2, <3>2, <3>9 DEF BudgetInv
  <2>3. Rank(c) = 1 => Cost' = Retries - attempts' /\ resState # LastRank
    BY <1>1, <1>2, StateFacts, TimeFacts DEF Cost
  <2>4. ASSUME NEW i \in InRing', Rank(ring'[i]) = 1
        PROVE  ring'[i].snap = snap /\ Cost' <= Budget' /\ resState # LastRank
    <3>1. CASE i \in InRing
      BY <1>2, <2>2, <2>4, <3>1
    <3>2. CASE i = Len(ring) + 1
      BY <1>2, <2>1, <2>3, <2>4, <3>2
    <3> QED
      BY <1>3, <3>1, <3>2
  <2> QED
    BY <1>1, <2>1, <2>4 DEF BudgetInv
<1>11. ReceivingInv'
  <2> SUFFICES ASSUME Receiving' PROVE ReceivingInv'
    BY DEF ReceivingInv
  <2>1. Receiving /\ patience = 0 /\ patience' = 0 /\ ring = << >>
    BY <1>1, <1>4 DEF Receiving, ReceivingInv, loopVars, receiverVars
  <2>2. WithinSnapshot
    BY <1>1, <2>1 DEF ReceivingInv, NextSnapshot
  <2>3. InRing' = {1} /\ ring'[1] = c /\ Len(ring') = 1
    BY <1>2, <1>3, <2>1 DEF InRing
  <2>4. WithinSnapshot'
    BY <1>1, <1>2, <1>6, <2>2, <2>3 DEF WithinSnapshot, receiverVars
  <2> QED
    BY <1>1, <2>1, <2>4 DEF ReceivingInv
<1>12. ScreenInv'
  BY <1>1 DEF ScreenInv, loopVars, receiverVars
<1>13. FreshInv'
  BY <1>1, <1>2, <1>3 DEF FreshInv, loopVars, receiverVars
<1> QED
  BY <1>7, <1>8, <1>9, <1>10, <1>11, <1>12, <1>13

LEMMA ReinstallInv ==
  ASSUME TypeOK, Inv, Reinstall PROVE Inv'
<1> USE DEF Inv
<1>1. /\ ring = << >> /\ ring' = << >> /\ resState' = 0 /\ snap' = 0
      /\ ~spinning' /\ resPrev' = captureSlot
      /\ token' = token /\ seed' = seed /\ request' = request
      /\ patience' = patience
      /\ UNCHANGED <<loopVars, receiverVars>>
  BY DEF Reinstall, rpVars, ringVars, tokenVars, NoSnap
<1>2. InRing' = {}
  BY <1>1 DEF InRing
<1>3. OrderInv' /\ WaitInv' /\ BudgetInv'
  BY <1>1, <1>2 DEF OrderInv, WaitInv, BudgetInv, Waiting
<1>4. TokenInv'
  BY <1>1, <1>2 DEF TokenInv, AllNow, AllOld
<1>5. ReceivingInv'
  BY <1>1, <1>2
     DEF ReceivingInv, Receiving, AllOld, loopVars, receiverVars
<1>6. ScreenInv'
  BY <1>1 DEF ScreenInv, loopVars, receiverVars
<1>7. FreshInv'
  BY <1>1, <1>2, StateFacts DEF FreshInv, loopVars, receiverVars
<1> QED
  BY <1>3, <1>4, <1>5, <1>6, <1>7

(* In a session without loss a drain that accepts nothing found nothing.   *)
LEMMA DrainNothingInv ==
  ASSUME TypeOK, Inv, Turn, DrainNothing PROVE Inv'
<1> USE DEF Inv
<1>1. /\ loopPc = "poll" /\ loopPc' = "select" /\ patience' = 0
      /\ maxStall' = maxStall
      /\ captureSlot' = captureSlot /\ shots' = shots /\ pressCount' = pressCount
      /\ UNCHANGED <<receiverVars, tokenVars, stVars>>
  BY DEF Turn, DrainNothing, session
<1>2. ring = << >> /\ ring' = << >>
  <2>1. InRing = {}
    BY DEF DrainNothing, OrderInv, InRing
  <2> QED
    BY <2>1 DEF DrainNothing, InRing
<1>3. InRing' = {} /\ InRing = {}
  BY <1>2 DEF InRing
<1>4. OrderInv'
  BY <1>3 DEF OrderInv
<1>5. TokenInv'
  BY <1>1, <1>3 DEF TokenInv, AllNow, AllOld, tokenVars, stVars
<1>6. WaitInv'
  BY <1>1, <1>2, <1>3 DEF WaitInv, Waiting, Acked, tokenVars, stVars
<1>7. BudgetInv'
  <2>1. Waiting' => Waiting /\ attempts' = attempts
    BY <1>1 DEF Waiting, Acked, tokenVars, stVars
  <2>2. Waiting => Retries - attempts <= maxStall - patience + 1
    BY DEF BudgetInv, Budget
  <2>3. Budget' = maxStall - 0 + 1
    BY <1>1 DEF Budget
  <2>4. /\ maxStall \in Int /\ patience \in Nat
        /\ Retries \in Int /\ attempts \in Int
    BY TimeFacts
  <2>5. Waiting' => Retries - attempts' <= Budget'
    BY <2>1, <2>2, <2>3, <2>4
  <2> QED
    BY <1>3, <2>5 DEF BudgetInv
<1>8. ReceivingInv'
  <2> SUFFICES ASSUME Receiving' PROVE ReceivingInv'
    BY DEF ReceivingInv
  <2>1. Receiving
    BY <1>1 DEF Receiving, receiverVars
  <2>2. WithinSnapshot => WithinSnapshot'
    BY <1>1, <1>2, <1>3
       DEF WithinSnapshot, Acked, receiverVars, tokenVars, stVars
  <2>3. NextSnapshot => NextSnapshot'
    BY <1>1, <1>2 DEF NextSnapshot, receiverVars, tokenVars, stVars
  <2>4. AllOld'
    BY <1>3 DEF AllOld
  <2> QED
    BY <1>1, <1>2, <2>1, <2>2, <2>3, <2>4 DEF ReceivingInv, stVars
<1>9. ScreenInv'
  BY <1>1 DEF ScreenInv, receiverVars
<1>10. FreshInv'
  BY <1>1, <1>3 DEF FreshInv, receiverVars, stVars
<1> QED
  BY <1>4, <1>5, <1>6, <1>7, <1>8, <1>9, <1>10

(* The stages of the loop that leave the ring, the ST and the tokens alone.*)
LEMMA QuietStep ==
  ASSUME TypeOK, Inv, UNCHANGED <<ring, tokenVars, stVars, session, patience>>,
         meta' = meta, chunksMask' = chunksMask,
         Stalled' => Stalled, Receiving' => Receiving
  PROVE  OrderInv' /\ TokenInv' /\ WaitInv' /\ BudgetInv' /\ ReceivingInv'
<1> USE DEF Inv, InRing, tokenVars, stVars, session
<1>1. OrderInv'
  BY DEF OrderInv
<1>2. (AllNow' <=> AllNow) /\ (AllOld' <=> AllOld)
  BY DEF AllNow, AllOld
<1>3. TokenInv'
  BY <1>2 DEF TokenInv
<1>4. (Acked' <=> Acked) /\ (Waiting' <=> Waiting)
  BY DEF Waiting, Acked
<1>5. WaitInv'
  BY <1>2, <1>4 DEF WaitInv
<1>6. BudgetInv'
  BY <1>4 DEF BudgetInv, Budget, Cost
<1>7. (WithinSnapshot => WithinSnapshot') /\ (NextSnapshot => NextSnapshot')
  BY <1>4 DEF WithinSnapshot, NextSnapshot
<1>8. ReceivingInv'
  BY <1>2, <1>7 DEF ReceivingInv
<1> QED
  BY <1>1, <1>3, <1>5, <1>6, <1>8

LEMMA WritePendingInv ==
  ASSUME TypeOK, Inv, Turn, WritePending PROVE Inv'
<1> USE DEF Inv
<1>1. /\ loopPc = "write" /\ loopPc' = "select" /\ patience' = patience
      /\ readyFlag' = FALSE /\ beginReceived' = FALSE
      /\ ring' = ring /\ meta' = meta /\ chunksMask' = chunksMask
      /\ captureSlot' = captureSlot /\ pressCount' = pressCount
      /\ UNCHANGED <<tokenVars, stVars, session>>
  BY DEF Turn, WritePending, DropFlags, ringVars
<1>2. ~Receiving' /\ Stalled
  BY <1>1 DEF Receiving, Stalled
<1>3. OrderInv' /\ TokenInv' /\ WaitInv' /\ BudgetInv' /\ ReceivingInv'
  BY <1>1, <1>2, QuietStep
<1>4. ASSUME NEW i \in 1 .. Len(shots')
      PROVE  /\ shots'[i].meta <= meta
             /\ i \in 1 .. Len(shots) => shots'[i] = shots[i]
             /\ i \notin 1 .. Len(shots) => shots'[i].meta = meta
  <2> DEFINE image == [meta |-> meta, data |-> source]
  <2>1. \A j \in 1 .. Len(shots) : shots[j].meta <= meta
    BY DEF ScreenInv
  <2>2. CASE shots' = shots
    BY <1>4, <2>1, <2>2
  <2>3. CASE shots' = Append(shots, image)
    <3>1. image.meta = meta
      OBVIOUS
    <3> HIDE DEF image
    <3>2. /\ Len(shots') = Len(shots) + 1
          /\ \A j \in 1 .. Len(shots) : shots'[j] = shots[j]
          /\ shots'[Len(shots) + 1] = image
      BY <2>3
    <3> QED
      BY <1>4, <2>1, <3>1, <3>2, StateFacts
  <2> QED
    BY <2>2, <2>3 DEF WritePending
<1>5. ScreenInv'
  BY <1>1, <1>4 DEF ScreenInv
<1>6. FreshInv'
  BY <1>1, <1>4 DEF FreshInv, InRing, stVars
<1> QED
  BY <1>3, <1>5, <1>6

LEMMA SelectInv ==
  ASSUME TypeOK, Inv, Turn, SelectRelease \/ SelectIdle PROVE Inv'
<1> USE DEF Inv
<1>1. /\ loopPc = "select" /\ loopPc' = "poll" /\ patience' = patience
      /\ ring' = ring /\ shots' = shots
      /\ UNCHANGED <<receiverVars, tokenVars, stVars, session>>
  BY DEF Turn, SelectRelease, SelectIdle, ringVars
<1>2. \/ captureSlot' = captureSlot /\ pressCount' = pressCount
      \/ pressCount' = pressCount + 1
  BY DEF SelectRelease, SelectIdle
<1>3. (Receiving' => Receiving) /\ (Stalled' => Stalled)
  BY <1>1 DEF Receiving, Stalled, receiverVars
<1>4. OrderInv' /\ TokenInv' /\ WaitInv' /\ BudgetInv' /\ ReceivingInv'
  BY <1>1, <1>3, QuietStep DEF receiverVars
<1>5. ScreenInv'
  BY <1>1 DEF ScreenInv, receiverVars
<1>6. FreshInv'
  BY <1>1, <1>2, StateFacts DEF FreshInv, InRing, receiverVars, stVars
<1> QED
  BY <1>4, <1>5, <1>6

LEMMA TakeInv ==
  ASSUME TypeOK, Inv, Take PROVE Inv'
<1> USE DEF Inv
<1>1. PICK i \in 1 .. Len(ring) : Drain(i)
  BY DEF Take
<1>2. i = 1 /\ 1 \in InRing
  <2>1. 1 \in InRing /\ ring[1].good
    BY <1>1 DEF InRing, OrderInv
  <2>2. ~(1 \in 1 .. i - 1)
    BY <1>1, <2>1 DEF Drain, Accepted
  <2> QED
    BY <1>1, <2>1, <2>2
<1>3. ring' = <<ring[1]>>
  BY <1>1, <1>2 DEF Drain
<1>4. InRing' = {1} /\ Len(ring') = 1 /\ ring'[1] = ring[1] /\ ring' # << >>
  BY <1>3 DEF InRing
<1>5. /\ loopPc = "poll" /\ loopPc' = "handle" /\ patience' = patience
      /\ captureSlot' = captureSlot /\ shots' = shots /\ pressCount' = pressCount
      /\ UNCHANGED <<receiverVars, tokenVars, stVars, session>>
  BY <1>1 DEF Take, Drain
<1> HIDE <1>1
<1>6. OrderInv'
  BY <1>2, <1>4, <1>5 DEF OrderInv, stVars
<1>7. (AllNow => AllNow') /\ (AllOld => AllOld')
  BY <1>2, <1>4, <1>5 DEF AllNow, AllOld, tokenVars
<1>8. TokenInv'
  BY <1>2, <1>4, <1>5, <1>7 DEF TokenInv, Stalled, tokenVars, stVars
<1>9. (Acked' <=> Acked) /\ (Waiting' <=> Waiting)
  BY <1>5 DEF Waiting, Acked, tokenVars, stVars
<1>10. WaitInv'
  BY <1>2, <1>4, <1>5, <1>9 DEF WaitInv, stVars
<1>11. BudgetInv'
  BY <1>2, <1>4, <1>5, <1>9
     DEF BudgetInv, Budget, Cost, tokenVars, stVars, session
<1>12. ReceivingInv'
  <2> SUFFICES ASSUME Receiving' PROVE ReceivingInv'
    BY DEF ReceivingInv
  <2>1. Receiving /\ ring # << >>
    BY <1>2, <1>5 DEF Receiving, InRing, receiverVars
  <2>2. WithinSnapshot => WithinSnapshot'
    BY <1>2, <1>4, <1>5, <1>9, <2>1
       DEF WithinSnapshot, receiverVars, stVars
  <2>3. NextSnapshot => NextSnapshot'
    BY <1>4, <1>5, <2>1
       DEF NextSnapshot, receiverVars, tokenVars, stVars
  <2> QED
    BY <1>5, <1>7, <2>1, <2>2, <2>3 DEF ReceivingInv, stVars
<1>13. ScreenInv'
  BY <1>5 DEF ScreenInv, receiverVars
<1>14. FreshInv'
  BY <1>2, <1>4, <1>5 DEF FreshInv, receiverVars, stVars
<1> QED
  BY <1>6, <1>8, <1>10, <1>11, <1>12, <1>13, <1>14

LEMMA AnswerFacts ==
  ASSUME TypeOK, Answer
  PROVE  /\ 1 \in InRing /\ Head(ring) = ring[1]
         /\ Len(ring') = Len(ring) - 1
         /\ Len(ring) = 1 => ring' = << >>
         /\ \A i \in InRing' : i + 1 \in InRing /\ ring'[i] = ring[i + 1]
         /\ token' = ring[1].token /\ seed' = seed + 1
         /\ UNCHANGED <<stVars, session>>
         /\ UNCHANGED <<captureSlot, captureSeq, shots, pressCount>>
         /\ loopPc = "handle"
         /\ loopPc' = IF readyFlag' THEN "write" ELSE "select"
         /\ patience' = IF loopPc' = "write" THEN maxStall ELSE 0
<1> USE RingFacts
<1>1. ring # << >> /\ ring' = Tail(ring)
  BY DEF Answer, Handle, TypeOK
<1>2. /\ 1 \in InRing /\ Head(ring) = ring[1]
      /\ Len(ring') = Len(ring) - 1
      /\ Len(ring) = 1 => ring' = << >>
      /\ \A i \in InRing' : i + 1 \in InRing /\ ring'[i] = ring[i + 1]
  BY <1>1 DEF InRing
<1> QED
  BY <1>2 DEF Answer, Handle, StartsWriting

(* What the answer to the first command does to the tokens and the wait.   *)
LEMMA AnswerWait ==
  ASSUME TypeOK, Inv, Answer
  PROVE  /\ spinning => (Acked' <=> ring[1].token = request)
         /\ Waiting' => /\ Waiting /\ ring[1].token < request
                        /\ attempts = Retries /\ ~AllNow
         /\ AllOld'
<1>1. /\ 1 \in InRing /\ token <= ring[1].token /\ ring[1].token <= request
      /\ request <= seed
  BY AnswerFacts DEF TokenInv, Inv
<1>2. /\ spinning' = spinning /\ request' = request
      /\ token' = ring[1].token /\ seed' = seed + 1
  BY AnswerFacts DEF stVars
<1>3. /\ request \in Nat /\ seed \in Nat /\ token \in Int
      /\ ring[1].token \in Nat
  BY <1>1, RingFacts, TokenFacts
<1>4. spinning => (Acked' <=> ring[1].token = request)
  BY <1>1, <1>2, <1>3 DEF Acked
<1>5. Waiting' => /\ Waiting /\ ring[1].token < request
                  /\ attempts = Retries /\ ~AllNow
  <2> SUFFICES ASSUME Waiting' PROVE /\ Waiting /\ ring[1].token < request
                                     /\ attempts = Retries /\ ~AllNow
    OBVIOUS
  <2>1. spinning /\ ring[1].token < request
    BY <1>1, <1>2, <1>3, <1>4 DEF Waiting
  <2>2. Waiting
    BY <1>1, <1>3, <2>1 DEF Waiting, Acked
  <2>3. attempts = Retries
    BY <1>1, <2>1, <2>2 DEF WaitInv, Inv
  <2>4. ring[1].token # seed
    BY <1>1, <1>3, <2>1
  <2> QED
    BY <1>1, <2>1, <2>2, <2>3, <2>4 DEF AllNow
<1>6. AllOld'
  <2> SUFFICES ASSUME NEW i \in InRing' PROVE ring'[i].token < seed'
    BY DEF AllOld
  <2>1. i + 1 \in InRing /\ ring'[i] = ring[i + 1]
    BY AnswerFacts
  <2>2. ring[i + 1].token <= request /\ ring[i + 1].token \in Nat
    BY <2>1, RingFacts DEF TokenInv, Inv
  <2> QED
    BY <1>1, <1>2, <1>3, <2>1, <2>2
<1> QED
  BY <1>4, <1>5, <1>6

LEMMA AnswerRingInv ==
  ASSUME TypeOK, Inv, Answer, loopPc' = "write" => ring' = << >>
  PROVE  OrderInv' /\ TokenInv' /\ WaitInv' /\ BudgetInv'
<1>1. /\ spinning' = spinning /\ request' = request /\ resState' = resState
      /\ snap' = snap /\ attempts' = attempts /\ maxStall' = maxStall
      /\ token' = ring[1].token /\ seed' = seed + 1
      /\ Len(ring') = Len(ring) - 1
      /\ patience' = IF loopPc' = "write" THEN maxStall ELSE 0
  BY AnswerFacts DEF stVars, session
<1>2. /\ request \in Nat /\ seed \in Nat /\ maxStall \in Nat /\ Len(ring) \in Nat
      /\ request <= seed
      /\ 1 \in InRing /\ ring[1].token \in Nat /\ ring[1].token <= request
  BY RingFacts, TokenFacts, TimeFacts, AnswerFacts DEF TokenInv, Inv
<1>3. ASSUME NEW i \in InRing'
      PROVE  /\ i \in Nat \ {0} /\ i + 1 \in InRing /\ ring'[i] = ring[i + 1]
             /\ ring[i + 1].token \in Nat
             /\ ring[1].token <= ring[i + 1].token
             /\ ring[i + 1].token <= request
  <2>1. i + 1 \in InRing /\ ring'[i] = ring[i + 1] /\ i \in Nat \ {0}
    BY <1>3, AnswerFacts DEF InRing
  <2>2. ring[1].token <= ring[i + 1].token
    BY <1>2, <2>1 DEF OrderInv, Inv
  <2> QED
    BY <1>2, <2>1, <2>2, RingFacts DEF TokenInv, Inv
<1>4. OrderInv'
  <2>1. ASSUME NEW i \in InRing'
        PROVE  /\ ring'[i].good
               /\ Sent(ring'[i], snap, resState)
               /\ ~spinning \/ ring'[i].token < request =>
                    Past(ring'[i], snap, resState)
               /\ \A j \in InRing' : i < j => /\ Before(ring'[i], ring'[j])
                                            /\ ring'[i].token <= ring'[j].token
    <3>1. i + 1 \in InRing /\ ring'[i] = ring[i + 1] /\ i \in Nat
      BY <1>3, <2>1
    <3>2. /\ ring[i + 1].good
          /\ Sent(ring[i + 1], snap, resState)
          /\ ~spinning \/ ring[i + 1].token < request =>
               Past(ring[i + 1], snap, resState)
          /\ \A j \in InRing : i + 1 < j =>
               /\ Before(ring[i + 1], ring[j])
               /\ ring[i + 1].token <= ring[j].token
      BY <3>1 DEF OrderInv, Inv
    <3>3. ASSUME NEW j \in InRing', i < j
          PROVE  Before(ring'[i], ring'[j]) /\ ring'[i].token <= ring'[j].token
      <4>1. j + 1 \in InRing /\ ring'[j] = ring[j + 1] /\ i + 1 < j + 1
        BY <1>3, <3>1, <3>3
      <4> QED
        BY <3>1, <3>2, <4>1
    <3> QED
      BY <3>1, <3>2, <3>3
  <2> QED
    BY <1>1, <2>1 DEF OrderInv
<1>5. TokenInv'
  <2>1. loopPc' = "write" => InRing' = {}
    BY DEF InRing
  <2>2. Stalled' => AllNow'
    BY <1>1, <2>1 DEF Stalled, AllNow
  <2>3. \A i \in InRing' : token' <= ring'[i].token /\ ring'[i].token <= request'
    BY <1>1, <1>3
  <2>4. request' <= seed' /\ token' <= seed'
    BY <1>1, <1>2
  <2> QED
    BY <2>2, <2>3, <2>4, AnswerWait DEF TokenInv
<1>6. WaitInv'
  <2> SUFFICES ASSUME Waiting' PROVE WaitInv'
    BY DEF WaitInv
  <2>1. Waiting /\ ~AllNow /\ attempts = Retries
    BY AnswerWait
  <2>2. \A i \in InRing : i < Len(ring) => ring[i].token < request
    BY <2>1 DEF WaitInv, Inv
  <2>3. \A i \in InRing' : i < Len(ring') => ring'[i].token < request
    BY <1>1, <1>2, <1>3, <2>2
  <2> QED
    BY <1>1, <2>1, <2>3 DEF WaitInv
<1>7. BudgetInv'
  <2>1. Waiting' => Retries - attempts' <= Budget'
    <3>1. Retries \in Nat
      BY TimeFacts
    <3>2. Waiting' => Retries - attempts' = 0
      BY <1>1, <3>1, AnswerWait
    <3>3. Budget' >= 0
      BY <1>1, <1>2 DEF Budget
    <3> QED
      BY <3>2, <3>3
  <2>2. ASSUME NEW i \in InRing', Rank(ring'[i]) = 1
        PROVE  /\ ring'[i].snap = snap /\ resState # 0
               /\ ring'[i].token # seed'
               /\ spinning /\ resState = LastRank => ring'[i].token < request
    <3>1. ring'[i].token # seed'
      BY <1>1, <1>2, <1>3, <2>2
    <3>2. i + 1 \in InRing /\ ring'[i] = ring[i + 1]
      BY <1>3, <2>2
    <3> QED
      BY <2>2, <3>1, <3>2 DEF BudgetInv, Inv
  <2> QED
    BY <1>1, <2>1, <2>2 DEF BudgetInv
<1> QED
  BY <1>4, <1>5, <1>6, <1>7

(* A BEGIN is that of the handler's own snapshot, and the handler is still *)
(* sending it.                                                             *)
LEMMA AnswerBeginInv ==
  ASSUME TypeOK, Inv, Answer, Begin(ring[1]) PROVE Inv'
<1> DEFINE h == ring[1]
<1>1. /\ meta' = h.snap /\ chunksMask' = {} /\ beginReceived' = TRUE
      /\ readyFlag' = FALSE /\ loopPc' = "select" /\ patience' = 0
  BY AnswerFacts DEF Begin, ClearMasks
<1>2. /\ 1 \in InRing /\ Rank(h) = 1 /\ h.snap = snap /\ resState # 0
      /\ h.token \in Nat
      /\ spinning /\ resState = LastRank => h.token < request
  BY AnswerFacts, RingFacts DEF Begin, Rank, BudgetInv, Inv
<1>3. /\ spinning' = spinning /\ request' = request /\ resState' = resState
      /\ snap' = snap /\ resPrev' = resPrev /\ captureSlot' = captureSlot
      /\ shots' = shots /\ pressCount' = pressCount
      /\ Len(ring') = Len(ring) - 1
  BY AnswerFacts DEF stVars
<1>4. OrderInv' /\ TokenInv' /\ WaitInv' /\ BudgetInv'
  BY <1>1, AnswerRingInv
<1>5. /\ resState \in 1 .. LastRank /\ LastRank \in Nat
      /\ snap \in Nat /\ request \in Nat
      /\ Len(ring) \in Nat /\ token \in Int /\ token <= h.token
      /\ request <= seed /\ seed \in Nat
  BY <1>2, StateFacts, TokenFacts, RingFacts DEF TokenInv, Inv
<1>6. ASSUME NEW i \in InRing'
      PROVE  /\ i + 1 \in InRing /\ ring'[i] = ring[i + 1]
             /\ ring'[i].snap = snap
             /\ Rank(ring'[i]) = LastRank =>
                  i = Len(ring') /\ spinning /\ h.token < request
  <2>1. /\ i \in Nat \ {0} /\ i + 1 \in InRing /\ ring'[i] = ring[i + 1]
        /\ i + 1 <= Len(ring)
    BY <1>5, <1>6, AnswerFacts DEF InRing
  <2>2. Before(h, ring[i + 1]) /\ Sent(ring[i + 1], snap, resState)
    BY <1>2, <2>1 DEF OrderInv, Inv
  <2>3. ring[i + 1].snap = snap
    BY <1>2, <1>5, <2>1, <2>2, RingFacts DEF Before, Sent
  <2>4. ASSUME Rank(ring[i + 1]) = LastRank
        PROVE  i + 1 = Len(ring) /\ spinning /\ h.token < request
    <3>1. resState = LastRank
      BY <1>5, <2>2, <2>3, <2>4 DEF Sent
    <3>2. ~Past(ring[i + 1], snap, resState)
      BY <1>5, <2>3, <2>4, <3>1 DEF Past
    <3>3. spinning /\ ~(ring[i + 1].token < request)
      BY <2>1, <3>2 DEF OrderInv, Inv
    <3>4. h.token < request
      BY <1>2, <3>1, <3>3
    <3>5. Waiting /\ ~AllNow
      BY <1>2, <1>5, <3>3, <3>4 DEF Waiting, Acked, AllNow
    <3>6. ~(i + 1 < Len(ring))
      BY <2>1, <3>3, <3>5 DEF WaitInv, Inv
    <3> QED
      BY <1>5, <2>1, <3>3, <3>4, <3>6
  <2> QED
    BY <1>3, <1>5, <2>1, <2>3, <2>4
<1>7. ReceivingInv'
  <2>1. spinning /\ h.token < request => Waiting'
    BY <1>2, <1>3, <1>5, AnswerWait DEF Waiting
  <2>2. ~(spinning' /\ Acked' /\ resState' = LastRank)
    BY <1>2, <1>3, <1>5, AnswerWait
  <2>3. WithinSnapshot'
    BY <1>1, <1>2, <1>3, <1>6, <2>1, <2>2 DEF WithinSnapshot
  <2> QED
    BY <1>1, <2>3, AnswerWait DEF ReceivingInv
<1>8. \A i \in 1 .. Len(shots) : shots[i].meta < snap
  BY <1>2 DEF FreshInv, Inv
<1>9. ScreenInv'
  <2>1. \A i \in 1 .. Len(shots) : shots[i].meta <= snap /\ shots[i].meta # snap
    BY <1>5, <1>8, ShotFacts
  <2>2. snap > 0
    BY <1>2 DEF FreshInv, Inv
  <2> QED
    BY <1>1, <1>2, <1>3, <2>1, <2>2 DEF ScreenInv
<1>10. FreshInv'
  BY <1>1, <1>2, <1>3, <1>8 DEF FreshInv, Inv
<1> QED
  BY <1>4, <1>7, <1>9, <1>10 DEF Inv

(* A chunk counts only while its own snapshot is received, and the chunk   *)
(* that completes it is the last, with nothing behind it in the ring.      *)
LEMMA AnswerDataInv ==
  ASSUME TypeOK, Inv, Answer, Data(ring[1]) PROVE Inv'
<1> DEFINE h == ring[1]
<1>1. /\ beginReceived' = beginReceived /\ meta' = meta
      /\ loopPc = "handle" /\ readyFlag = FALSE
      /\ loopPc' = (IF readyFlag' THEN "write" ELSE "select")
      /\ patience' = (IF loopPc' = "write" THEN maxStall ELSE 0)
  BY AnswerFacts, StateFacts DEF Data, ScreenInv, Inv
<1>2. /\ spinning' = spinning /\ request' = request /\ resState' = resState
      /\ snap' = snap /\ resPrev' = resPrev /\ captureSlot' = captureSlot
      /\ shots' = shots /\ pressCount' = pressCount
      /\ Len(ring') = Len(ring) - 1
  BY AnswerFacts DEF stVars
<1>3. /\ 1 \in InRing /\ h \in BlockCommand /\ h.idx \in Chunk
      /\ Rank(h) = h.idx + 2 /\ Rank(h) # 1 /\ h.token \in Nat
      /\ LastRank = NumChunks + 1 /\ NumChunks \in Nat \ {0}
  <2>1. 1 \in InRing /\ h \in BlockCommand /\ h.token \in Nat
    BY AnswerFacts, RingFacts
  <2> QED
    BY <2>1, StateFacts DEF Data, Rank, BlockCommand, Chunk, LastRank
<1>4. /\ resState \in 0 .. LastRank /\ snap \in Nat /\ request \in Nat
      /\ Len(ring) \in Nat /\ meta \in Nat
  BY StateFacts, TokenFacts, RingFacts
<1>5. \A i \in InRing' : /\ i + 1 \in InRing /\ ring'[i] = ring[i + 1]
                         /\ i \in Nat \ {0} /\ i + 1 <= Len(ring)
  BY <1>4, AnswerFacts DEF InRing
<1>6. CASE ~beginReceived
  <2>1. /\ UNCHANGED <<source, chunksMask, readyFlag>>
        /\ loopPc' = "select" /\ ~Receiving'
    BY <1>1, <1>6 DEF Data, Receiving
  <2>2. OrderInv' /\ TokenInv' /\ WaitInv' /\ BudgetInv'
    BY <2>1, AnswerRingInv
  <2>3. ReceivingInv'
    BY <2>1 DEF ReceivingInv
  <2>4. ScreenInv'
    BY <1>1, <1>2, <1>6, <2>1 DEF ScreenInv, Inv
  <2>5. FreshInv'
    BY <1>1, <1>2, <1>5, <2>1 DEF FreshInv, Inv
  <2> QED
    BY <2>2, <2>3, <2>4, <2>5 DEF Inv
<1>7. CASE beginReceived
  <2>1. Receiving /\ WithinSnapshot
    <3>1. Receiving /\ ring # << >>
      BY <1>1, <1>3, <1>7 DEF Receiving, InRing
    <3>2. ~NextSnapshot
      BY <1>3, <3>1 DEF NextSnapshot
    <3> QED
      BY <3>1, <3>2 DEF ReceivingInv, Inv
  <2>2. /\ source' = [f \in Frame |-> IF f \in FramesOf(h.idx)
                                        THEN h.snap ELSE source[f]]
        /\ chunksMask' = chunksMask \union {h.idx}
        /\ readyFlag' = (readyFlag \/ LastChunk(h))
    BY <1>3, <1>7 DEF Data
  <2>3. /\ h.snap = meta /\ snap = meta /\ resState # 0
        /\ Rank(h) = LastRank => Len(ring) = 1 /\ Waiting
        /\ NumChunks - 1 \notin chunksMask
        /\ spinning /\ resState = LastRank => Waiting
    <3>1. /\ h.snap = meta /\ snap = meta /\ resState # 0
          /\ Rank(h) = LastRank => 1 = Len(ring) /\ Waiting
      BY <1>3, <2>1 DEF WithinSnapshot
    <3>2. ~(spinning /\ Acked /\ resState = LastRank)
      BY <1>3, <2>1 DEF WithinSnapshot, InRing
    <3>3. NumChunks - 1 \notin chunksMask
      BY <2>1, <3>2 DEF WithinSnapshot
    <3> QED
      BY <3>1, <3>2, <3>3 DEF Waiting
  <2>4. Rank(h) = LastRank =>
          resState = LastRank /\ h.token = request /\ spinning /\ ring' = << >>
    <3> SUFFICES ASSUME Rank(h) = LastRank
                 PROVE  /\ resState = LastRank /\ h.token = request
                        /\ spinning /\ ring' = << >>
      OBVIOUS
    <3>1. Sent(h, snap, resState)
      BY <1>3 DEF OrderInv, Inv
    <3>2. resState = LastRank
      <4>1. LastRank <= resState
        BY <2>3, <3>1, <1>4 DEF Sent
      <4>2. resState \in Int /\ LastRank \in Int /\ resState <= LastRank
        BY StateFacts
      <4> QED
        BY <4>1, <4>2
    <3>3. ~Past(h, snap, resState)
      BY <1>3, <1>4, <2>3, <3>2 DEF Past
    <3>4. spinning /\ ~(h.token < request) /\ h.token <= request
      BY <1>3, <3>3 DEF OrderInv, TokenInv, Inv
    <3>5. ring' = << >>
      BY <2>3, AnswerFacts
    <3>6. h.token = request
      BY <1>3, <1>4, <3>4
    <3> QED
      BY <3>2, <3>4, <3>5, <3>6
  <2>5. LastChunk(h) => Rank(h) = LastRank
    <3>1. NumChunks - 1 \in Chunk
      BY <1>3 DEF Chunk
    <3> QED
      BY <1>3, <2>3, <3>1 DEF LastChunk
  <2>6. NumChunks - 1 \in chunksMask' => Rank(h) = LastRank
    BY <1>3, <2>2, <2>3
  <2>7. OrderInv' /\ TokenInv' /\ WaitInv' /\ BudgetInv'
    BY <1>1, <2>2, <2>4, <2>5, AnswerRingInv
  <2>8. ReceivingInv'
    <3> SUFFICES ASSUME Receiving' PROVE ReceivingInv'
      BY DEF ReceivingInv
    <3>1. patience' = 0
      BY <1>1 DEF Receiving
    <3>2. ASSUME NEW i \in InRing'
          PROVE  /\ ring'[i].snap = meta
                 /\ Rank(ring'[i]) = LastRank => i = Len(ring') /\ Waiting'
      <4>1. i + 1 \in InRing /\ ring'[i] = ring[i + 1] /\ i \in Nat \ {0}
        BY <1>5, <3>2
      <4>2. ring[i + 1].snap = meta
        BY <2>1, <4>1 DEF WithinSnapshot
      <4>3. ASSUME Rank(ring[i + 1]) = LastRank
            PROVE  i + 1 = Len(ring) /\ Waiting'
        <5>1. i + 1 = Len(ring) /\ Waiting
          BY <2>1, <4>1, <4>3 DEF WithinSnapshot
        <5>2. h.token < request
          BY <1>3, <2>1, <4>1, <5>1 DEF WaitInv, Inv
        <5> QED
          BY <1>2, <1>3, <1>4, <5>1, <5>2, AnswerWait DEF Waiting
      <4> QED
        BY <1>2, <1>4, <4>1, <4>2, <4>3
    <3>3. spinning' /\ Acked' /\ resState' = LastRank => ring' = << >>
      <4> SUFFICES ASSUME spinning, Acked', resState = LastRank
                   PROVE  ring' = << >>
        BY <1>2
      <4>1. Waiting /\ h.token = request
        BY <2>3, AnswerWait
      <4>2. ~(1 < Len(ring))
        BY <1>3, <1>4, <2>1, <4>1 DEF WaitInv, Inv
      <4>3. Len(ring) = 1
        <5>1. 1 <= Len(ring) /\ Len(ring) \in Int
          BY <1>3, RingFacts DEF InRing
        <5>2. \A n \in Int : 1 <= n /\ ~(1 < n) => n = 1
          OBVIOUS
        <5> QED
          BY <4>2, <5>1, <5>2
      <4> QED
        BY <4>3, AnswerFacts
    <3>4. NumChunks - 1 \in chunksMask' =>
            spinning' /\ Acked' /\ resState' = LastRank
      BY <1>2, <2>4, <2>6, AnswerWait
    <3>5. WithinSnapshot'
      BY <1>1, <1>2, <2>3, <3>2, <3>3, <3>4 DEF WithinSnapshot
    <3> QED
      BY <3>1, <3>5, AnswerWait DEF ReceivingInv
  <2>9. ScreenInv'
    <3>1. \A f \in Frame : f \div FramesPerChunk \in chunksMask' =>
                             source'[f] = meta
      <4>1. \A f \in Frame : f \div FramesPerChunk \in chunksMask =>
                               source[f] = meta
        BY <1>7 DEF ScreenInv, Inv
      <4>2. \A f \in Frame : f \in FramesOf(h.idx) <=>
                               f \div FramesPerChunk = h.idx
        BY DEF FramesOf
      <4> QED
        BY <2>2, <2>3, <4>1, <4>2
    <3>2. readyFlag' <=> loopPc' = "write"
      BY <1>1
    <3>3. loopPc' = "write" => chunksMask' = Chunk
      BY <1>1, <2>2, <3>2 DEF LastChunk
    <3> QED
      BY <1>1, <1>2, <1>7, <3>1, <3>2, <3>3 DEF ScreenInv, Inv
  <2>10. FreshInv'
    <3>1. loopPc' = "write" => /\ resState' # 1
                               /\ ring' = << >>
      BY <1>1, <1>2, <1>3, <2>2, <2>4, <2>5
    <3>2. loopPc' = "write" => InRing' = {}
      BY <3>1 DEF InRing
    <3> QED
      BY <1>1, <1>2, <1>5, <3>1, <3>2 DEF FreshInv, Inv
  <2> QED
    BY <2>7, <2>8, <2>9, <2>10 DEF Inv
<1> QED
  BY <1>6, <1>7

LEMMA AnswerInv ==
  ASSUME TypeOK, Inv, Answer PROVE Inv'
<1>1. ring[1] \in BlockCommand /\ Receive(ring[1])
  BY AnswerFacts, RingFacts DEF Answer, Handle
<1>2. Begin(ring[1]) \/ Data(ring[1])
  BY <1>1 DEF Receive, StreamBegin, StreamData, BlockCommand
<1> QED
  BY <1>2, AnswerBeginInv, AnswerDataInv

LEMMA StutterInv ==
  ASSUME TypeOK, Inv, UNCHANGED vars PROVE Inv'
<1>1. OrderInv' /\ TokenInv' /\ WaitInv' /\ BudgetInv' /\ ReceivingInv'
  BY QuietStep
     DEF vars, rpVars, ringVars, loopVars, receiverVars, Stalled, Receiving
<1>2. ScreenInv' /\ FreshInv'
  BY DEF vars, rpVars, ringVars, loopVars, receiverVars, stVars, Inv,
         ScreenInv, FreshInv, InRing
<1> QED
  BY <1>1, <1>2 DEF Inv

LEMMA InitInv == Init => Inv
<1> SUFFICES ASSUME Init PROVE Inv
  OBVIOUS
<1>1. /\ ring = << >> /\ loopPc = "poll" /\ patience = 0 /\ ~spinning
      /\ token = -1 /\ seed = 0 /\ request = 0 /\ resState = 0
      /\ snap = 0 /\ meta = 0 /\ pressCount = 0 /\ shots = << >>
      /\ resPrev = captureSlot /\ ~readyFlag /\ ~beginReceived
  BY DEF Init, ReceiverInit, NoSnap
<1>2. InRing = {}
  BY <1>1 DEF InRing
<1>3. OrderInv /\ WaitInv /\ BudgetInv
  BY <1>1, <1>2 DEF OrderInv, WaitInv, BudgetInv, Waiting
<1>4. TokenInv
  BY <1>1, <1>2 DEF TokenInv, AllNow
<1>5. ReceivingInv
  BY <1>1 DEF ReceivingInv, Receiving
<1>6. ScreenInv /\ FreshInv
  BY <1>1, <1>2 DEF ScreenInv, FreshInv
<1> QED
  BY <1>3, <1>4, <1>5, <1>6 DEF Inv

-----------------------------------------------------------------------------
(* Patient cards.  One lemma per action or kind of action.                 *)

LEMMA SentCopy ==
  ASSUME TypeOK, resState # 0, SendSync
  PROVE  /\ request' = seed /\ ring' # << >>
         /\ \A i \in InRing' :
              \/ i \in InRing /\ ring'[i] = ring[i]
              \/ Mine(ring'[i]) /\ ring'[i].token = seed
<1>1. PICK ok \in BOOLEAN :
        ring' = Append(ring, [Command(resState) EXCEPT !.good = ok])
  BY SendType
<1>2. ring \in Seq(BlockCommand)
  BY RingFacts
<1> DEFINE c == [Command(resState) EXCEPT !.good = ok]
<1>3. Mine(c) /\ c.token = seed
  BY DEF Mine, SameCommand, Command
<1> HIDE DEF c
<1>4. \A i \in InRing' : (i \in InRing /\ ring'[i] = ring[i]) \/ ring'[i] = c
  BY <1>1, <1>2 DEF InRing, c
<1> QED
  BY <1>3, <1>4, SendType

LEMMA FirstAttemptPatient ==
  ASSUME TypeOK, PatientInv, FirstAttempt PROVE PatientInv'
<1> USE DEF PatientInv
<1>1. /\ resState # 0 /\ ~spinning /\ spinning' /\ attempts' = Retries
      /\ resState' = resState /\ snap' = snap /\ handled' = handled
      /\ token' = token /\ seed' = seed /\ request' = seed
      /\ patience' = patience /\ maxStall' = maxStall
      /\ UNCHANGED <<loopVars, receiverVars>>
  BY DEF FirstAttempt, FullAttempts, SendSync, tokenVars, session
<1>2. /\ ring' # << >>
      /\ \A i \in InRing' :
           \/ i \in InRing /\ ring'[i] = ring[i]
           \/ Mine(ring'[i]) /\ ring'[i].token = seed
  BY SentCopy DEF FirstAttempt
<1>3. ~Acked' /\ (Receiving' <=> Receiving)
  BY <1>1 DEF Acked, Receiving, loopVars, receiverVars
<1>5. CopyInv'
  <2> SUFFICES ASSUME NEW i \in InRing'
               PROVE  /\ ring'[i].token <= seed
                      /\ SameCommand(ring'[i], handled) \/ Mine(ring'[i])
                      /\ ring'[i].token = seed => Mine(ring'[i])
                      /\ ring'[i].token # seed => SameCommand(ring'[i], handled)
                      /\ loopPc = "handle" /\ i > 1 => ring'[i].token = seed
    BY <1>1, <1>3 DEF CopyInv, Mine, SameCommand, Command, loopVars
  <2>1. CASE i \in InRing /\ ring'[i] = ring[i]
    BY <1>1, <2>1, RingFacts, TokenFacts DEF CopyInv
  <2>2. CASE Mine(ring'[i]) /\ ring'[i].token = seed
    BY <2>2, TokenFacts
  <2> QED
    BY <1>2, <2>1, <2>2
<1>6. NewInv'
  BY <1>1, <1>3 DEF NewInv, loopVars, receiverVars
<1>7. StallInv'
  BY <1>1, <1>2, <1>3, TimeFacts DEF StallInv
<1>8. AnsweredInv'
  BY <1>1, <1>3, TokenFacts DEF AnsweredInv
<1> QED
  BY <1>5, <1>6, <1>7, <1>8

(* Steps that end a wait, or find no wait: the ring holds old copies of    *)
(* the command handled last.                                               *)
LEMMA IdleCopies ==
  ASSUME CopyInv, ring' = ring, handled' = handled, seed' = seed,
         request' = request, loopPc' = loopPc, ~spinning',
         \A i \in InRing : ring[i].token < seed /\ SameCommand(ring[i], handled)
  PROVE  CopyInv'
  BY DEF CopyInv, InRing

LEMMA TakeSnapshotPatient ==
  ASSUME TypeOK, PatientInv, TakeSnapshot PROVE PatientInv'
<1> USE DEF PatientInv, TakeSnapshot, rpVars, ringVars, loopVars, receiverVars,
            tokenVars, session
<1>1. ~spinning /\ ~spinning'
  BY DEF TypeOK
<1>2. CopyInv'
  BY <1>1, IdleCopies DEF CopyInv
<1>3. NewInv' /\ StallInv' /\ AnsweredInv'
  BY <1>1 DEF NewInv, StallInv, AnsweredInv, Receiving, Waiting
<1> QED
  BY <1>2, <1>3

LEMMA AckSeenPatient ==
  ASSUME TypeOK, PatientInv, AckSeen PROVE PatientInv'
<1> USE DEF PatientInv, AckSeen, rpVars, ringVars, loopVars, receiverVars,
            tokenVars, session
<1>1. spinning /\ Acked /\ ~spinning'
  BY AdvanceType
<1>2. request < seed
  BY <1>1, TokenFacts DEF AnsweredInv, Acked
<1>3. \A i \in InRing : ring[i].token < seed /\ SameCommand(ring[i], handled)
  <2> SUFFICES ASSUME NEW i \in InRing
               PROVE  ring[i].token < seed /\ SameCommand(ring[i], handled)
    OBVIOUS
  <2>1. ring[i].token = request /\ Mine(ring[i]) /\ Mine(handled)
    BY <1>1 DEF CopyInv, AnsweredInv
  <2> QED
    BY <1>2, <2>1 DEF Mine, SameCommand
<1>4. CopyInv'
  BY <1>1, <1>3, IdleCopies
<1>5. NewInv' /\ StallInv' /\ AnsweredInv'
  BY <1>1 DEF NewInv, StallInv, AnsweredInv, Receiving, Waiting
<1> QED
  BY <1>4, <1>5

(* A stall is over before the attempts of the command it met are.          *)
LEMMA GivesUpEmpty ==
  ASSUME TypeOK, Patient, StallInv, TimeoutGiveUp PROVE ring = << >>
<1> SUFFICES ASSUME ring # << >> PROVE FALSE
  OBVIOUS
<1>1. patience > 0 /\ Waiting /\ attempts = 1
  BY DEF TimeoutGiveUp, TimesOut, Waiting
<1>2. Retries - attempts <= maxStall - patience
  BY <1>1 DEF StallInv
<1> QED
  BY <1>1, <1>2, TimeFacts DEF Patient

LEMMA TimeoutGiveUpPatient ==
  ASSUME TypeOK, Patient, PatientInv, TimeoutGiveUp PROVE PatientInv'
<1> USE DEF PatientInv, TimeoutGiveUp, rpVars, ringVars, loopVars, receiverVars,
            tokenVars, session
<1>1. ~spinning' /\ InRing = {}
  BY AdvanceType, GivesUpEmpty DEF InRing
<1>2. CopyInv'
  BY <1>1, IdleCopies
<1>3. NewInv' /\ AnsweredInv'
  BY <1>1 DEF NewInv, AnsweredInv, Receiving
<1>4. StallInv'
  BY <1>1, TimeFacts DEF StallInv, Receiving, Waiting, TimesOut
<1> QED
  BY <1>2, <1>3, <1>4

LEMMA TimeoutRetryPatient ==
  ASSUME TypeOK, Patient, PatientInv, TimeoutRetry PROVE PatientInv'
<1> USE DEF PatientInv
<1>1. /\ resState # 0 /\ spinning /\ ~Acked /\ spinning' = spinning
      /\ attempts > 1 /\ attempts' = attempts - 1
      /\ resState' = resState /\ snap' = snap /\ handled' = handled
      /\ token' = token /\ seed' = seed /\ request' = seed
      /\ maxStall' = maxStall
      /\ UNCHANGED <<loopVars, receiverVars>>
  BY DEF TimeoutRetry, TimesOut, SendSync, tokenVars, session, TypeOK
<1>2. /\ ring' # << >>
      /\ \A i \in InRing' :
           \/ i \in InRing /\ ring'[i] = ring[i]
           \/ Mine(ring'[i]) /\ ring'[i].token = seed
  BY <1>1, SentCopy DEF TimeoutRetry
<1>3. ~Acked' /\ (Receiving' <=> Receiving) /\ attempts' # Retries /\ Waiting
  BY <1>1, TimeFacts DEF Acked, Receiving, loopVars, receiverVars, Waiting
(* While a screen is received a timeout means an empty ring.               *)
<1>4. \/ patience > 0 /\ patience' = patience - 1 /\ ~Receiving /\ ring # << >>
      \/ ring = << >> /\ patience' = patience
  BY <1>3 DEF TimeoutRetry, TimesOut, StallInv
<1>5. CopyInv'
  <2> SUFFICES ASSUME NEW i \in InRing'
               PROVE  /\ ring'[i].token <= seed
                      /\ SameCommand(ring'[i], handled) \/ Mine(ring'[i])
                      /\ ring'[i].token = seed => Mine(ring'[i])
                      /\ ring'[i].token # seed => ~Receiving
                      /\ loopPc = "handle" /\ i > 1 => ring'[i].token = seed
    BY <1>1, <1>3 DEF CopyInv, Mine, SameCommand, Command, loopVars
  <2>1. CASE i \in InRing /\ ring'[i] = ring[i]
    <3>1. /\ ring[i].token <= seed
          /\ ring[i].token = seed => ring[i].token = request
      BY <2>1, RingFacts, TokenFacts DEF CopyInv, AnsweredInv
    <3>2. ~Receiving
      BY <1>4, <2>1 DEF InRing
    <3> QED
      BY <1>1, <2>1, <3>1, <3>2 DEF CopyInv
  <2>2. CASE Mine(ring'[i]) /\ ring'[i].token = seed
    BY <2>2, TokenFacts
  <2> QED
    BY <1>2, <2>1, <2>2
<1>6. NewInv'
  BY <1>1, <1>3 DEF NewInv, loopVars, receiverVars
<1>7. StallInv'
  <2>1. patience > 0 => Retries - attempts <= maxStall - patience /\ ring # << >>
    BY <1>3 DEF StallInv
  <2> QED
    BY <1>1, <1>2, <1>3, <1>4, <2>1, TimeFacts DEF StallInv
<1>8. AnsweredInv'
  BY <1>1, <1>3, TokenFacts DEF AnsweredInv
<1> QED
  BY <1>5, <1>6, <1>7, <1>8

LEMMA ReinstallPatient ==
  ASSUME TypeOK, PatientInv, Reinstall PROVE PatientInv'
<1> USE DEF PatientInv, Reinstall, rpVars, ringVars, loopVars, receiverVars,
            tokenVars, session
<1>1. ~spinning' /\ InRing = {}
  BY DEF InRing
<1>2. CopyInv'
  BY <1>1, IdleCopies
<1>3. NewInv' /\ AnsweredInv' /\ StallInv'
  BY <1>1 DEF NewInv, AnsweredInv, StallInv, Receiving, Waiting
<1> QED
  BY <1>2, <1>3

(* A drain drops commands, a write ends the reception, SELECT does nothing *)
(* to the receiver.                                                        *)
LEMMA TurnPatient ==
  ASSUME TypeOK, PatientInv, Turn PROVE PatientInv'
<1> USE DEF PatientInv
<1>1. /\ UNCHANGED <<tokenVars, stVars, session, handled, chunksMask>>
      /\ InRing' = {} \/ ring' = ring
      /\ Receiving' => Receiving
      /\ readyFlag' = FALSE \/ (readyFlag' = readyFlag /\ loopPc # "write")
      /\ loopPc' # "handle"
  BY DEF Turn, ServiceLoop, DrainNothing, WritePending, SelectRelease, SelectIdle,
         DropFlags, ringVars, receiverVars, InRing, Receiving
<1>2. CopyInv'
  <2>1. CASE InRing' = {}
    BY <2>1 DEF CopyInv
  <2>2. CASE ring' = ring
    BY <1>1, <2>2
       DEF CopyInv, InRing, tokenVars, stVars, Mine, SameCommand, Command, Acked
  <2> QED
    BY <1>1, <2>1, <2>2
<1>3. NewInv'
  BY <1>1 DEF NewInv
<1>4. StallInv'
  <2>1. CASE loopPc = "poll"
    BY <2>1 DEF Turn, StallInv
  <2>2. CASE loopPc # "poll"
    <3>1. patience' = patience /\ ring' = ring
      BY <2>2 DEF Turn, ServiceLoop, DrainNothing, WritePending, SelectRelease,
                  SelectIdle, ringVars
    <3> QED
      BY <1>1, <3>1 DEF StallInv, Waiting, Acked, tokenVars, stVars, session
  <2> QED
    BY <2>1, <2>2
<1>5. AnsweredInv'
  BY <1>1 DEF AnsweredInv, Acked, tokenVars, stVars, Mine, SameCommand, Command
<1> QED
  BY <1>2, <1>3, <1>4, <1>5

LEMMA TakePatient ==
  ASSUME TypeOK, PatientInv, Take PROVE PatientInv'
<1> USE DEF PatientInv
<1>1. PICK i \in InRing : Drain(i)
  BY DEF Take, InRing
<1>2. /\ UNCHANGED <<tokenVars, stVars, session, patience, handled, receiverVars>>
      /\ InRing' = {1} /\ ring'[1] = ring[i] /\ ring' # << >>
      /\ loopPc = "poll" /\ loopPc' = "handle"
  BY <1>1 DEF Take, Drain, InRing
<1>3. (Receiving' <=> Receiving) /\ (Acked' <=> Acked) /\ (Waiting' <=> Waiting)
  BY <1>2 DEF Receiving, Acked, Waiting, receiverVars, tokenVars, stVars
<1>4. CopyInv'
  BY <1>2, <1>3 DEF CopyInv, tokenVars, stVars, Mine, SameCommand, Command
<1>5. NewInv' /\ StallInv'
  BY <1>2, <1>3 DEF NewInv, StallInv, receiverVars, stVars, session
<1>6. AnsweredInv'
  BY <1>2, <1>3 DEF AnsweredInv, tokenVars, stVars, Mine, SameCommand, Command
<1> QED
  BY <1>4, <1>5, <1>6

(* The answer that completes a screen is the one the handler waits for.    *)
LEMMA CompletesAcked ==
  ASSUME TypeOK, PatientInv, Answer, readyFlag'
  PROVE  spinning /\ ring[1].token = request
<1> DEFINE h == ring[1]
<1>1. h \in BlockCommand /\ 1 \in InRing /\ loopPc = "handle" /\ ~readyFlag
  BY AnswerFacts, RingFacts, StateFacts DEF PatientInv, NewInv
<1>2. Begin(h) \/ Data(h)
  BY <1>1, AnswerFacts
     DEF Answer, Handle, Receive, StreamBegin, StreamData, BlockCommand
<1>3. Data(h) /\ beginReceived /\ chunksMask \union {h.idx} = Chunk
  BY <1>1, <1>2 DEF Begin, Data, LastChunk
<1>4. Receiving /\ h.id = "DATA" /\ h.idx \notin chunksMask
  BY <1>1, <1>3 DEF Receiving, PatientInv, NewInv, Data
<1>5. ~SameCommand(h, handled)
  BY <1>4 DEF PatientInv, NewInv, SameCommand
<1> QED
  BY <1>1, <1>4, <1>5 DEF PatientInv, CopyInv

LEMMA AnswerPatient ==
  ASSUME TypeOK, PatientInv, Answer PROVE PatientInv'
<1> DEFINE h == ring[1]
<1> USE DEF PatientInv
<1>1. /\ spinning' = spinning /\ request' = request /\ resState' = resState
      /\ snap' = snap /\ attempts' = attempts /\ maxStall' = maxStall
      /\ token' = h.token /\ seed' = seed + 1
      /\ loopPc = "handle" /\ loopPc' = (IF readyFlag' THEN "write" ELSE "select")
      /\ patience' = (IF loopPc' = "write" THEN maxStall ELSE 0)
  BY AnswerFacts DEF stVars, session
<1>2. /\ handled' = h /\ h \in BlockCommand /\ 1 \in InRing
      /\ Begin(h) \/ Data(h)
  <2>1. handled' = h /\ h \in BlockCommand /\ 1 \in InRing /\ Receive(h)
    BY AnswerFacts, RingFacts DEF Answer, Handle
  <2> QED
    BY <2>1 DEF Receive, StreamBegin, StreamData, BlockCommand
<1>3. \A i \in InRing' :
        i + 1 \in InRing /\ ring'[i] = ring[i + 1] /\ ring'[i].token = seed
  BY <1>1, AnswerFacts, RingFacts DEF CopyInv, InRing
<1>4. request <= seed /\ request \in Nat /\ seed \in Nat /\ h.token \in Nat
  BY <1>2, TokenFacts, RingFacts DEF AnsweredInv
<1>5. Acked' <=> h.token = request
  BY <1>1, <1>4 DEF Acked
<1>6. CopyInv'
  <2> SUFFICES ASSUME NEW i \in InRing'
               PROVE  /\ ring'[i].token = request /\ ring'[i].token < seed + 1
                      /\ spinning => Mine(ring'[i])
                      /\ ~spinning => SameCommand(ring'[i], h)
    BY <1>1, <1>2, <1>4 DEF CopyInv, Mine, SameCommand, Command
  <2>1. ring'[i].token = request
    BY <1>3, <1>4 DEF CopyInv
  <2>2. ~spinning => SameCommand(ring'[i], handled) /\ SameCommand(h, handled)
    BY <1>2, <1>3 DEF CopyInv
  <2> QED
    BY <1>3, <1>4, <2>1, <2>2 DEF CopyInv, SameCommand
<1>7. NewInv'
  <2>1. Chunk # {} /\ h.idx \in Chunk
    BY <1>2, ReceiverAssumption DEF Chunk, BlockCommand
  <2>2. readyFlag' => loopPc' = "write"
    BY <1>1
  <2>3. CASE Begin(h)
    BY <1>2, <2>1, <2>2, <2>3 DEF NewInv, Begin, ClearMasks
  <2>4. CASE Data(h)
    BY <1>1, <1>2, <2>1, <2>2, <2>4 DEF NewInv, Data, LastChunk, Receiving
  <2> QED
    BY <1>2, <2>3, <2>4
<1>8. StallInv'
  <2>1. patience' > 0 => readyFlag'
    BY <1>1
  <2>2. patience' > 0 => ~Receiving' /\ ~Waiting'
    BY <1>1, <1>5, <2>1, CompletesAcked DEF Receiving, Waiting
  <2> QED
    BY <2>2 DEF StallInv
<1>9. AnsweredInv'
  <2>1. request' <= seed'
    BY <1>1, <1>4
  <2>2. spinning /\ h.token = request => Mine(h)
    BY <1>2 DEF CopyInv
  <2> QED
    BY <1>1, <1>2, <1>5, <2>1, <2>2 DEF AnsweredInv, Mine, SameCommand, Command
<1> QED
  BY <1>6, <1>7, <1>8, <1>9

LEMMA StutterPatient ==
  ASSUME PatientInv, UNCHANGED vars PROVE PatientInv'
  BY DEF PatientInv, CopyInv, NewInv, StallInv, AnsweredInv, Waiting, Acked,
         Receiving, InRing, Mine, SameCommand, Command, vars, rpVars, ringVars,
         loopVars, receiverVars, tokenVars, stVars, session

LEMMA InitPatient == Init => PatientInv
<1> SUFFICES ASSUME Init PROVE PatientInv
  OBVIOUS
<1>1. /\ ring = << >> /\ patience = 0 /\ ~spinning /\ seed = 0 /\ request = 0
      /\ ~readyFlag /\ ~beginReceived
  BY DEF Init, ReceiverInit
<1> QED
  BY <1>1
     DEF PatientInv, CopyInv, NewInv, StallInv, AnsweredInv, InRing, Receiving,
         Waiting

-----------------------------------------------------------------------------
LEMMA SessionStep == [Next]_vars => (Calm' <=> Calm) /\ (Patient' <=> Patient)
  BY DEF Next, Tick, Rp, TakeSnapshot, FirstAttempt, AckSeen, TimeoutRetry,
         TimeoutGiveUp, Reinstall, Answer, Turn, Take, vars, session, Calm,
         Patient

LEMMA InvStep == IInv /\ [Next]_vars => IInv'
<1> SUFFICES ASSUME IInv, [Next]_vars PROVE IInv'
  OBVIOUS
<1>1. TypeOK /\ TypeOK'
  BY TypeStep DEF IInv
<1>2. ASSUME Calm PROVE Inv'
  <2>1. Inv
    BY <1>2 DEF IInv
  <2>2. CASE Tick
    BY <1>1, <1>2, <2>1, <2>2, TakeSnapshotInv, FirstAttemptInv, AckSeenInv,
       TimeoutRetryInv, TimeoutGiveUpInv DEF Tick
  <2>3. CASE Turn
    BY <1>1, <2>1, <2>3, DrainNothingInv, WritePendingInv, SelectInv
       DEF Turn, ServiceLoop
  <2>4. CASE Take \/ Answer \/ Reinstall \/ UNCHANGED vars
    BY <1>1, <2>1, <2>4, TakeInv, AnswerInv, ReinstallInv, StutterInv
  <2> QED
    BY <2>2, <2>3, <2>4 DEF Next, Rp
<1>3. ASSUME Patient PROVE PatientInv'
  <2>1. PatientInv
    BY <1>3 DEF IInv
  <2>2. CASE Tick
    BY <1>1, <1>3, <2>1, <2>2, TakeSnapshotPatient, FirstAttemptPatient,
       AckSeenPatient, TimeoutRetryPatient, TimeoutGiveUpPatient DEF Tick
  <2>3. CASE Turn \/ Take \/ Answer \/ Reinstall \/ UNCHANGED vars
    BY <1>1, <2>1, <2>3, TurnPatient, TakePatient, AnswerPatient,
       ReinstallPatient, StutterPatient
  <2> QED
    BY <2>2, <2>3 DEF Next, Rp
<1> QED
  BY <1>1, <1>2, <1>3, SessionStep DEF IInv

(* The inductive invariant holds in every reachable state.                 *)
THEOREM VblInvariance == Spec => []IInv
<1>1. Init => IInv
  BY InitType, InitInv, InitPatient DEF IInv
<1> QED
  BY <1>1, InvStep, PTL DEF Spec

(* When the transport reports success, the command that the RP answered    *)
(* last is the one the handler waits for, however many commands the bus    *)
(* loses, on a card that is faster than RES_RETRIES timeouts               *)
(* (sidecart_functions.s compares TOKEN with nothing but its own request). *)
THEOREM AckCorrect == Spec => AckMeansReceived
<1>1. IInv /\ [Next]_vars =>
        (Patient /\ AckSeen => SameCommand(handled, Command(resState)))
  BY DEF IInv, PatientInv, AnsweredInv, AckSeen, Mine
<1> QED
  BY <1>1, VblInvariance, PTL DEF Spec, AckMeansReceived

-----------------------------------------------------------------------------
(* The refinement, in a calm session: a step that writes a file is a Save  *)
(* of CaptureLog, a release of SELECT is a Request.                        *)

LEMMA SaveStep ==
  ASSUME TypeOK, Inv, Calm, Calm', WritePending
  PROVE  [CleanLog!Next]_<<IF Calm THEN pressCount ELSE 0,
                           IF Calm THEN shots ELSE << >> >>
<1>1. CASE UNCHANGED shots
  BY <1>1 DEF WritePending
<1>2. CASE shots' = Append(shots, [meta |-> meta, data |-> source])
  <2>1. /\ meta \in 1 .. pressCount
        /\ \A i \in 1 .. Len(shots) : shots[i].meta < meta
        /\ beginReceived /\ chunksMask = Chunk
    <3>1. beginReceived /\ meta > 0 /\ chunksMask = Chunk
      BY DEF WritePending, Inv, ScreenInv
    <3>2. \A i \in 1 .. Len(shots) : shots[i].meta <= meta /\ shots[i].meta # meta
      BY <3>1 DEF Inv, ScreenInv
    <3>3. meta <= pressCount
      BY DEF Inv, FreshInv
    <3> QED
      BY <3>1, <3>2, <3>3, StateFacts, ShotFacts
  <2>2. source = [f \in Frame |-> meta]
    <3>1. \A f \in Frame : f \div FramesPerChunk \in Chunk
      <4> SUFFICES ASSUME NEW f \in Frame PROVE f \div FramesPerChunk \in Chunk
        OBVIOUS
      <4>1. /\ f \in Nat /\ f < NumChunks * FramesPerChunk
            /\ NumChunks \in Nat \ {0} /\ FramesPerChunk \in Nat \ {0}
        BY ReceiverAssumption, NumFramesPositive DEF Frame, NumFrames
      <4> QED
        BY <4>1 DEF Chunk
    <3>2. \A f \in Frame : source[f] = meta
      BY <2>1, <3>1 DEF Inv, ScreenInv
    <3>3. source \in [Frame -> Snapshot]
      BY DEF TypeOK, ReceiverTypeOK
    <3> QED
      BY <3>2, <3>3
  <2>3. [meta |-> meta, data |-> source] = CleanLog!WholeScreen(meta)
    BY <2>2 DEF CleanLog!WholeScreen
  <2>4. CleanLog!Save(meta)
    BY <1>2, <2>1, <2>3 DEF CleanLog!Save, WritePending
  <2> QED
    BY <2>1, <2>4 DEF CleanLog!Next
<1> QED
  BY <1>1, <1>2 DEF WritePending

(* The files on the card are whole screens of single snapshots, at most    *)
(* one per press and in the order of the presses, for any card whose       *)
(* stalls stay below the attempts of one snapshot's chunks, as long as no  *)
(* command is lost on the bus (sidecart_functions.s, chandler.c).          *)
THEOREM CleanLogCorrect == Spec => ImplementsCleanLog
<1> DEFINE requested == IF Calm THEN pressCount ELSE 0
           saved == IF Calm THEN shots ELSE << >>
<1>1. Init => CleanLog!Init
  BY DEF Init, ReceiverInit, CleanLog!Init
<1>2. IInv /\ [Next]_vars => [CleanLog!Next]_<<requested, saved>>
  <2> SUFFICES ASSUME IInv, [Next]_vars
               PROVE  [CleanLog!Next]_<<requested, saved>>
    OBVIOUS
  <2>1. Calm' <=> Calm
    BY SessionStep
  <2>2. CASE ~Calm
    BY <2>1, <2>2
  <2>3. CASE Calm
    <3>1. TypeOK /\ Inv
      BY <2>3 DEF IInv
    <3>2. CASE WritePending
      BY <2>1, <2>3, <3>1, <3>2, SaveStep
    <3>3. CASE SelectRelease
      BY <2>1, <2>3, <3>3
         DEF SelectRelease, CleanLog!Next, CleanLog!Request
    <3>4. CASE UNCHANGED <<pressCount, shots>>
      BY <2>1, <3>4
    <3>5. Tick \/ Reinstall => UNCHANGED <<pressCount, shots>>
      BY DEF Tick, TakeSnapshot, FirstAttempt, AckSeen, TimeoutRetry,
             TimeoutGiveUp, Reinstall, rpVars, loopVars
    <3>6. DrainNothing \/ SelectIdle \/ Answer \/ Take =>
            UNCHANGED <<pressCount, shots>>
      BY DEF DrainNothing, SelectIdle, Answer, Handle, Take, Drain
    <3> QED
      BY <3>2, <3>3, <3>4, <3>5, <3>6
         DEF Next, Rp, Turn, ServiceLoop, vars, rpVars, loopVars
  <2> QED
    BY <2>2, <2>3
<1> QED
  BY <1>1, <1>2, VblInvariance, PTL DEF Spec, ImplementsCleanLog, CleanLog!Spec
=============================================================================
