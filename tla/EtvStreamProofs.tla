-------------------------- MODULE EtvStreamProofs ---------------------------
(***************************************************************************)
(* Proofs about EtvStream, for any number of frames and any retry and      *)
(* abort limits, with commands lost and the ST reset at any time, as long  *)
(* as the session has fewer presses than CAPTURE_SEQ has values.  (The     *)
(* 256th press publishes sequence 0, which the handler mistakes for an     *)
(* acknowledged one: run etv_wrap.)                                        *)
(***************************************************************************)
EXTENDS EtvStream, TLAPS

ASSUME NoWrap == MaxPresses < SeqMod

-----------------------------------------------------------------------------
(* The inductive invariant.  A sequence number is the number of the press, *)
(* so equal sequence numbers mean the same snapshot.                       *)

Sending == etvState \in {"sendFrame", "waitFrame"}
Announcing == etvState \in {"sendBegin", "waitBegin"}
InRing == 1 .. Len(ring)

(* Sequence numbers identify snapshots, on both sides and on the way.      *)
SeqInv ==
  /\ captureSeq = pressCount
  /\ pressCount > 0 => captureSlot = pressCount
  /\ pressCount = 0 => resPrev = captureSlot
  /\ etvState # "idle" => etvSeq = snap /\ snap \in 1 .. pressCount
  /\ \A i \in InRing :
       ring[i].seq = ring[i].snap /\ ring[i].snap \in 1 .. pressCount
  /\ streamSeq = meta
  /\ meta <= pressCount
  /\ beginReceived => meta > 0

(* A credit is either withdrawn or about the snapshot being received.      *)
AckInv ==
  /\ streamAck.seq # 0 => streamAck.seq = meta
  /\ streamAck.next > 0 =>
       streamAck.seq = meta /\ streamAck.next - 1 \in streamFrameMask

(* The next snapshot is newer than everything under way.                   *)
FreshInv ==
  resPrev # captureSlot =>
    /\ meta < pressCount
    /\ etvState # "idle" => snap < pressCount
    /\ \A i \in InRing : ring[i].snap < pressCount

(* What may lie in the ring: nothing older than the snapshot being         *)
(* received, frames of that snapshot only, and no BEGIN that would throw   *)
(* received frames away.                                                   *)
RingInv ==
  \A i \in InRing :
    /\ meta <= ring[i].snap
    /\ etvState # "idle" => ring[i].snap <= snap
    /\ ring[i].id = "STREAM_DATA" => ring[i].snap = meta
    /\ ring[i].id = "STREAM_BEGIN" /\ ring[i].snap = meta =>
         streamFrameMask = {}
    /\ Announcing /\ ring[i].snap = snap => ring[i].id = "STREAM_BEGIN"
    /\ Sending /\ ring[i].id = "STREAM_DATA" => ring[i].idx <= etvFrame

(* Commands lie in the order they were sent: snapshots do not step back,   *)
(* and no BEGIN follows a frame of its own snapshot.                       *)
OrderInv ==
  \A i, j \in InRing :
    i < j =>
      /\ ring[i].snap <= ring[j].snap
      /\ ring[i].id = "STREAM_DATA" /\ ring[j].id = "STREAM_BEGIN" =>
           ring[i].snap < ring[j].snap

(* How far the receiver is with the handler's snapshot.                    *)
ProgressInv ==
  /\ etvState # "idle" => meta <= snap
  /\ Announcing /\ meta = snap => streamFrameMask = {}
  /\ Sending => /\ meta = snap
                /\ 0 .. etvFrame - 1 \subseteq streamFrameMask
                /\ streamFrameMask \subseteq 0 .. etvFrame

(* The screen buffer and the files.                                        *)
ScreenInv ==
  /\ \A f \in streamFrameMask : source[f] = meta
  /\ readyFlag <=> loopPc = "write"
  /\ readyFlag => beginReceived /\ streamFrameMask = Frame
  /\ \A i \in 1 .. Len(shots) :
       /\ shots[i].meta <= meta
       /\ shots[i].meta = meta => streamFrameMask # {} /\ ~beginReceived

Inv ==
  /\ SeqInv /\ AckInv /\ FreshInv /\ RingInv /\ OrderInv
  /\ ProgressInv /\ ScreenInv

(* How often one command is sent before the handler gives up, and how      *)
(* often still in the wait it is in.                                       *)
Sends == 1 + (AbortTicks - 1) \div RetryTicks
Resends == (AbortTicks - 1 - etvTimeout + etvRetry) \div RetryTicks
SendsLeft == (IF etvState \in {"sendBegin", "sendFrame"} THEN 1 ELSE 0) + Resends

(* The most that one wait of either kind can leave in the ring, and the    *)
(* most that can be written while the service loop is away: the resends of *)
(* one frame, a copy of the one before on each side of its credit, and two *)
(* announcements, of a press that waits and of the one that comes next.    *)
BeginBurst == Sends * BeginWords
FrameBurst == Sends * FrameWords
RingLimit == FrameBurst + FrameWords + FrameWords + BeginBurst + BeginBurst

(* What the handler may still write before the ring is drained, without    *)
(* and with credit it has not used or that may be on its way.              *)
CreditThere == (Announcing /\ BeginAcked) \/ (Sending /\ FrameAcked)
Reserve ==
  IF loopPc = "handle"
    THEN FrameBurst + FrameWords + (IF Len(ring) = 1 THEN FrameWords ELSE 0)
  ELSE IF CreditThere
    THEN FrameBurst + (IF etvState \in {"sendBegin", "sendFrame"} THEN FrameWords ELSE 0)
  ELSE IF Announcing THEN SendsLeft * BeginWords
  ELSE IF Sending THEN SendsLeft * FrameWords
  ELSE 0
BeginReserve ==
  (IF resPrev # captureSlot THEN BeginBurst ELSE 0)
    + (IF loopPc # "poll" THEN BeginBurst ELSE 0)

(* The clocks of a wait start together, and the ring has room for all that *)
(* may come.                                                               *)
ClockInv ==
  /\ etvState # "idle" => etvRetry <= etvTimeout
  /\ etvState \in {"sendBegin", "sendFrame"} => etvRetry = 0
RoomInv == ClockInv /\ unread + Reserve + BeginReserve <= RingLimit

IInv == TypeOK /\ Inv /\ RoomInv

-----------------------------------------------------------------------------
LEMMA ModSmall ==
  ASSUME NEW a \in Nat, NEW m \in Nat, a < m PROVE a % m = a
  OBVIOUS

LEMMA NumFramesPositive == NumFrames \in Nat \ {0}
  BY ReceiverAssumption DEF NumFrames

LEMMA InitType == Init => TypeOK
<1> SUFFICES ASSUME Init PROVE TypeOK
  OBVIOUS
<1>1. ReceiverTypeOK
  <2>1. source \in [Frame -> Snapshot]
    BY DEF Init, ReceiverInit, NoSnap, Snapshot
  <2>2. streamAck \in [seq : 0 .. SeqMod - 1, next : 0 .. NumFrames]
    BY ReceiverAssumption, NumFramesPositive DEF Init, ReceiverInit
  <2>3. shots \in Seq(Image)
    BY DEF Init, ReceiverInit
  <2>4. /\ beginReceived \in BOOLEAN /\ readyFlag \in BOOLEAN
        /\ chunksMask \in SUBSET Chunk /\ streamFrameMask \in SUBSET Frame
    BY DEF Init, ReceiverInit
  <2>5. /\ unread \in Nat /\ loopPc = "poll"
        /\ captureSlot \in 0 .. SeqMod - 1 /\ captureSeq \in 0 .. SeqMod - 1
        /\ streamSeq \in 0 .. SeqMod - 1
        /\ meta \in Snapshot /\ pressCount \in 0 .. MaxPresses
    BY ReceiverAssumption DEF Init, ReceiverInit, NoSnap, Snapshot
  <2> QED
    BY <2>1, <2>2, <2>3, <2>4, <2>5 DEF ReceiverTypeOK
<1>2. ring \in Seq(StreamCommand) /\ loopPc = "poll"
  BY DEF Init, ReceiverInit
<1> QED
  BY <1>1, <1>2, ReceiverAssumption, EtvAssumption, NumFramesPositive
     DEF Init, TypeOK, ReceiverTypeOK, EtvState, NoSnap, Snapshot

LEMMA TransmitType ==
  ASSUME NEW c, c.id \in {"STREAM_BEGIN", "STREAM_DATA"},
         NEW words \in Nat, TypeOK,
         c = [id |-> c.id, seq |-> etvSeq, idx |-> c.idx, snap |-> snap,
              good |-> TRUE],
         c.idx \in Frame, Transmit(c, words)
  PROVE  /\ ring' \in Seq(StreamCommand) /\ ring' # << >>
         /\ unread' \in Nat
<1>1. PICK ok \in Outcome : ring' = Append(ring, [c EXCEPT !.good = ok])
  BY DEF Transmit
<1>2. ok \in BOOLEAN
  BY <1>1 DEF Outcome
<1>3. [c EXCEPT !.good = ok] = [id |-> c.id, seq |-> etvSeq, idx |-> c.idx, snap |-> snap, good |-> ok]
  OBVIOUS
<1>4. [c EXCEPT !.good = ok] \in StreamCommand
  BY <1>2, <1>3 DEF TypeOK, StreamCommand
<1>5. ring \in Seq(StreamCommand) /\ unread \in Nat
  BY DEF TypeOK, ReceiverTypeOK
<1>6. unread' = unread + words
  BY DEF Transmit
<1> QED
  BY <1>1, <1>4, <1>5, <1>6

LEMMA WaitTickType ==
  ASSUME NEW resendState \in {"sendBegin", "sendFrame"}, TypeOK,
         etvState # "idle", WaitTick(resendState)
  PROVE  /\ etvTimeout' \in 0 .. AbortTicks
         /\ etvState' # "idle" => etvTimeout' < AbortTicks
         /\ etvRetry' \in 0 .. RetryTicks - 1
         /\ etvState' \in {"idle", etvState, resendState}
<1> USE EtvAssumption DEF TypeOK
<1>1. CASE GivesUp
  BY <1>1 DEF WaitTick, GivesUp
<1>2. CASE ~GivesUp
  BY <1>2 DEF WaitTick, GivesUp
<1> QED
  BY <1>1, <1>2

(* One line per action and the variables it changes.                       *)
LEMMA TypeStep == TypeOK /\ [Next]_vars => TypeOK'
<1> SUFFICES ASSUME TypeOK, [Next]_vars PROVE TypeOK'
  OBVIOUS
<1> USE ReceiverAssumption, EtvAssumption, NumFramesPositive
<1> USE DEF rpVars, ringVars, loopVars, receiverVars
<1>1. CASE TakeSnapshot
  BY <1>1 DEF TypeOK, ReceiverTypeOK, TakeSnapshot, EtvState, Snapshot
<1>2. CASE SendBegin
  <2>1. ring' \in Seq(StreamCommand) /\ ring' # << >> /\ unread' \in Nat
    BY <1>2, TransmitType DEF SendBegin, Frame
  <2> QED
    BY <1>2, <2>1 DEF TypeOK, ReceiverTypeOK, SendBegin, EtvState
<1>3. CASE BeginCredit
  BY <1>3 DEF TypeOK, ReceiverTypeOK, BeginCredit, EtvState, Frame
<1>4. CASE BeginWait
  <2>1. /\ etvTimeout' \in 0 .. AbortTicks
        /\ etvState' # "idle" => etvTimeout' < AbortTicks
        /\ etvRetry' \in 0 .. RetryTicks - 1
        /\ etvState' \in {"idle", "waitBegin", "sendBegin"}
    BY <1>4, WaitTickType DEF BeginWait
  <2> QED
    BY <1>4, <2>1 DEF TypeOK, ReceiverTypeOK, BeginWait, WaitTick, EtvState
<1>5. CASE SendFrame
  <2>0. etvFrame \in Frame
    BY <1>5 DEF SendFrame, TypeOK
  <2>1. ring' \in Seq(StreamCommand) /\ ring' # << >> /\ unread' \in Nat
    BY <1>5, <2>0, TransmitType DEF SendFrame
  <2> QED
    BY <1>5, <2>1 DEF TypeOK, ReceiverTypeOK, SendFrame, EtvState
<1>6. CASE FrameCredit
  BY <1>6 DEF TypeOK, ReceiverTypeOK, FrameCredit, LastFrame, EtvState, Frame
<1>7. CASE FrameWait
  <2>0. etvFrame \in Frame
    BY <1>7 DEF FrameWait, TypeOK
  <2>1. /\ etvTimeout' \in 0 .. AbortTicks
        /\ etvState' # "idle" => etvTimeout' < AbortTicks
        /\ etvRetry' \in 0 .. RetryTicks - 1
        /\ etvState' \in {"idle", "waitFrame", "sendFrame"}
    BY <1>7, <2>0, WaitTickType DEF FrameWait
  <2> QED
    BY <1>7, <2>0, <2>1
       DEF TypeOK, ReceiverTypeOK, FrameWait, WaitTick, EtvState
<1>8. CASE Reinstall
  BY <1>8 DEF TypeOK, ReceiverTypeOK, Reinstall, EtvState, NoSnap, Snapshot
<1>9. CASE Handle /\ UNCHANGED etvVars
  <2> DEFINE c == Head(ring)
  <2>1. c \in StreamCommand /\ ring' \in Seq(StreamCommand)
    BY <1>9 DEF TypeOK, Handle
  <2>2. /\ streamAck' \in [seq : 0 .. SeqMod - 1, next : 0 .. NumFrames]
        /\ beginReceived' \in BOOLEAN /\ readyFlag' \in BOOLEAN
        /\ chunksMask' \in SUBSET Chunk /\ streamFrameMask' \in SUBSET Frame
        /\ streamSeq' \in 0 .. SeqMod - 1
        /\ meta' \in Snapshot
        /\ source' \in [Frame -> Snapshot]
    <3>1. CASE StreamBegin(c)
      <4>1. streamAck' \in [seq : 0 .. SeqMod - 1, next : 0 .. NumFrames]
        BY <2>1, <3>1 DEF StreamBegin, StreamCommand
      <4> QED
        BY <2>1, <3>1, <4>1
           DEF TypeOK, ReceiverTypeOK, StreamBegin, ClearMasks, StreamCommand
    <3>2. CASE StreamData(c)
      <4>1. CASE FrameWanted(c)
        <5>1. streamAck' \in [seq : 0 .. SeqMod - 1, next : 0 .. NumFrames]
          BY <2>1, <3>2, <4>1 DEF StreamData, StreamCommand, Frame
        <5>2. source' \in [Frame -> Snapshot]
          BY <2>1, <3>2, <4>1
             DEF TypeOK, ReceiverTypeOK, StreamData, StreamCommand
        <5> QED
          BY <2>1, <3>2, <4>1, <5>1, <5>2
             DEF TypeOK, ReceiverTypeOK, StreamData, FrameWanted
      <4>2. CASE ~FrameWanted(c)
        BY <3>2, <4>2 DEF TypeOK, ReceiverTypeOK, StreamData
      <4> QED
        BY <4>1, <4>2
    <3> QED
      BY <1>9, <2>1, <3>1, <3>2 DEF Handle, Receive, Begin, Data, StreamCommand
  <2> QED
    BY <1>9, <2>1, <2>2 DEF TypeOK, ReceiverTypeOK, Handle, etvVars
<1>10. CASE DrainNothing /\ UNCHANGED etvVars
  BY <1>10 DEF TypeOK, ReceiverTypeOK, DrainNothing, etvVars
<1>11. CASE WritePending /\ UNCHANGED etvVars
  <2>0. [meta |-> meta, data |-> source] \in Image
    BY DEF TypeOK, ReceiverTypeOK, Image
  <2>1. shots' \in Seq(Image)
    <3>1. shots \in Seq(Image)
      BY DEF TypeOK, ReceiverTypeOK
    <3> QED
      BY <1>11, <2>0, <3>1 DEF WritePending
  <2> QED
    BY <1>11, <2>1 DEF TypeOK, ReceiverTypeOK, WritePending, DropFlags, etvVars
<1>12. CASE SelectRelease /\ UNCHANGED etvVars
  BY <1>12 DEF TypeOK, ReceiverTypeOK, SelectRelease, etvVars
<1>13. CASE SelectIdle /\ UNCHANGED etvVars
  BY <1>13 DEF TypeOK, ReceiverTypeOK, SelectIdle, etvVars
<1>15. ASSUME NEW i \in 1 .. Len(ring), Drain(i), UNCHANGED etvVars
       PROVE  TypeOK'
  <2>1. ring' \in Seq(StreamCommand) /\ ring' # << >>
    BY <1>15 DEF TypeOK, Drain
  <2> QED
    BY <1>15, <2>1 DEF TypeOK, ReceiverTypeOK, Drain, etvVars
<1>14. CASE UNCHANGED vars
  BY <1>14 DEF TypeOK, ReceiverTypeOK, vars, etvVars
<1> QED
  BY <1>1, <1>2, <1>3, <1>4, <1>5, <1>6, <1>7, <1>8, <1>9, <1>10, <1>11,
     <1>12, <1>13, <1>14, <1>15 DEF Next, Tick, Rp, ServiceLoop

-----------------------------------------------------------------------------
LEMMA InitInv == Init => Inv
<1> SUFFICES ASSUME Init PROVE Inv
  OBVIOUS
<1> USE DEF Init, ReceiverInit, NoSnap
<1>1. SeqInv /\ FreshInv /\ RingInv /\ OrderInv
  BY ReceiverAssumption DEF SeqInv, FreshInv, RingInv, OrderInv, InRing
<1>2. AckInv /\ ProgressInv /\ ScreenInv
  BY DEF AckInv, ProgressInv, ScreenInv, Sending, Announcing
<1> QED
  BY <1>1, <1>2 DEF Inv

LEMMA TakeSnapshotInv == IInv /\ TakeSnapshot => Inv'
<1> SUFFICES ASSUME IInv, TakeSnapshot PROVE Inv'
  OBVIOUS
<1> USE DEF IInv, TakeSnapshot, rpVars, ringVars, loopVars, receiverVars, InRing
<1>1. pressCount \in Nat \ {0} /\ snap' = pressCount /\ captureSlot = pressCount
  BY DEF TypeOK, ReceiverTypeOK, Inv, SeqInv
<1>2. meta < pressCount /\ \A i \in InRing : ring[i].snap < pressCount
  BY DEF Inv, FreshInv
<1>3. SeqInv'
  BY <1>1 DEF Inv, SeqInv
<1>4. AckInv' /\ ScreenInv' /\ FreshInv' /\ OrderInv'
  BY DEF Inv, AckInv, ScreenInv, FreshInv, OrderInv
<1>5. RingInv'
  BY <1>1, <1>2 DEF Inv, RingInv, SeqInv, Announcing, Sending
<1>6. ProgressInv'
  BY <1>1, <1>2 DEF Inv, ProgressInv, SeqInv, Announcing, Sending
<1> QED
  BY <1>3, <1>4, <1>5, <1>6 DEF Inv

(* What a transmission leaves in the ring: what was there, and the command.*)
LEMMA Transmitted ==
  ASSUME NEW id \in {"STREAM_BEGIN", "STREAM_DATA"}, NEW idx, NEW words,
         TypeOK,
         Transmit([id |-> id, seq |-> etvSeq, idx |-> idx, snap |-> snap,
                   good |-> TRUE], words)
  PROVE  \A i \in InRing' :
           \/ i \in InRing /\ ring'[i] = ring[i]
           \/ /\ \A j \in InRing : j < i
              /\ ring'[i].id = id /\ ring'[i].seq = etvSeq
              /\ ring'[i].idx = idx /\ ring'[i].snap = snap
<1>1. PICK ok \in Outcome :
        ring' = Append(ring, [id |-> id, seq |-> etvSeq, idx |-> idx,
                              snap |-> snap, good |-> ok])
  BY DEF Transmit
<1> QED
  BY <1>1 DEF InRing, TypeOK

(* It is as new as anything there, and a BEGIN newer than any frame.       *)
LEMMA TransmittedOrder ==
  ASSUME IInv, Announcing \/ Sending, NEW id, id = "STREAM_BEGIN" => Announcing,
         \A i \in InRing' :
           \/ i \in InRing /\ ring'[i] = ring[i]
           \/ /\ \A j \in InRing : j < i
              /\ ring'[i].id = id /\ ring'[i].snap = snap
  PROVE  OrderInv'
<1> SUFFICES ASSUME NEW i \in InRing', NEW j \in InRing', i < j
             PROVE  /\ ring'[i].snap <= ring'[j].snap
                    /\ ring'[i].id = "STREAM_DATA" /\ ring'[j].id = "STREAM_BEGIN" =>
                         ring'[i].snap < ring'[j].snap
  BY DEF OrderInv
<1>1. snap \in Nat /\ \A k \in InRing : ring[k].snap \in Nat
  <2>1. \A k \in InRing : ring[k] \in StreamCommand
    BY DEF IInv, TypeOK, InRing
  <2> QED
    BY <2>1 DEF IInv, TypeOK, StreamCommand, Snapshot
<1>2. CASE j \in InRing /\ ring'[j] = ring[j]
  <2>1. i \in InRing /\ ring'[i] = ring[i]
    BY <1>2 DEF InRing
  <2> QED
    BY <1>2, <2>1 DEF IInv, Inv, OrderInv
<1>3. CASE ~(j \in InRing /\ ring'[j] = ring[j])
  <2>1. ring'[j].id = id /\ ring'[j].snap = snap
    BY <1>3
  <2>2. CASE i \in InRing /\ ring'[i] = ring[i]
    BY <1>1, <2>1, <2>2 DEF IInv, Inv, RingInv, Announcing, Sending
  <2>3. CASE ~(i \in InRing /\ ring'[i] = ring[i])
    BY <1>1, <2>1, <2>3
  <2> QED
    BY <2>2, <2>3
<1> QED
  BY <1>2, <1>3

LEMMA SendBeginInv == IInv /\ SendBegin => Inv'
<1> SUFFICES ASSUME IInv, SendBegin PROVE Inv'
  OBVIOUS
<1> USE DEF SendBegin, rpVars, ringVars, loopVars, receiverVars
<1>1. \A i \in InRing' :
        \/ i \in InRing /\ ring'[i] = ring[i]
        \/ /\ \A j \in InRing : j < i
           /\ ring'[i].id = "STREAM_BEGIN" /\ ring'[i].seq = etvSeq
           /\ ring'[i].idx = 0 /\ ring'[i].snap = snap
  BY Transmitted DEF IInv
<1>2. SeqInv'
  BY <1>1 DEF IInv, Inv, SeqInv
<1>3. AckInv' /\ ScreenInv'
  BY DEF IInv, Inv, AckInv, ScreenInv
<1>4. FreshInv'
  BY <1>1 DEF IInv, Inv, FreshInv
<1>5. RingInv'
  <2>1. /\ meta \in Nat /\ snap \in Nat /\ etvFrame \in Nat
        /\ meta <= snap
    BY DEF IInv, Inv, ProgressInv, TypeOK, ReceiverTypeOK, Snapshot
  <2>2. RingInv
    BY DEF IInv, Inv
  <2>3. Announcing /\ meta = snap => streamFrameMask = {}
    BY DEF IInv, Inv, ProgressInv
  <2>4. Sending => meta = snap
    BY DEF IInv, Inv, ProgressInv
  <2> QED
    BY <1>1, <2>1, <2>2, <2>3, <2>4 DEF RingInv, Announcing, Sending
<1>6. ProgressInv'
  BY DEF IInv, Inv, ProgressInv, Announcing, Sending
<1>7. OrderInv'
  BY <1>1, TransmittedOrder DEF Announcing, Sending
<1> QED
  BY <1>2, <1>3, <1>4, <1>5, <1>6, <1>7 DEF Inv

LEMMA BeginCreditInv == IInv /\ BeginCredit => Inv'
<1> SUFFICES ASSUME IInv, BeginCredit PROVE Inv'
  OBVIOUS
<1> USE DEF IInv, BeginCredit, rpVars, ringVars, loopVars, receiverVars
<1>1. meta = snap /\ streamFrameMask = {} /\ Announcing
  BY DEF Inv, BeginAcked, AckMatches, SeqInv, AckInv, ProgressInv, Announcing, TypeOK, ReceiverTypeOK
<1>2. SeqInv' /\ AckInv' /\ ScreenInv' /\ FreshInv' /\ OrderInv'
  BY DEF Inv, SeqInv, AckInv, ScreenInv, FreshInv, OrderInv, InRing
<1>3. RingInv'
  BY <1>1 DEF Inv, RingInv, Announcing, Sending, InRing
<1>4. ProgressInv'
  BY <1>1 DEF Inv, ProgressInv, Announcing, Sending, TypeOK, ReceiverTypeOK, Snapshot
<1> QED
  BY <1>2, <1>3, <1>4 DEF Inv

LEMMA WaitInv == IInv /\ (BeginWait \/ FrameWait) => Inv'
<1> SUFFICES ASSUME IInv, BeginWait \/ FrameWait PROVE Inv'
  OBVIOUS
<1> USE DEF IInv, WaitTick, rpVars, ringVars, loopVars, receiverVars
<1>1. /\ UNCHANGED <<rpVars, resPrev, etvSeq, etvFrame, snap>>
      /\ etvState # "idle"
      /\ Announcing' => Announcing
      /\ Sending' => Sending
      /\ etvState' # "idle" => Announcing' \/ Sending'
  BY DEF BeginWait, FrameWait, Announcing, Sending
<1>2. SeqInv' /\ AckInv' /\ ScreenInv' /\ FreshInv' /\ OrderInv'
  BY <1>1 DEF Inv, SeqInv, AckInv, ScreenInv, FreshInv, OrderInv, InRing
<1>3. RingInv'
  BY <1>1 DEF Inv, RingInv, InRing
<1>4. ProgressInv'
  BY <1>1 DEF Inv, ProgressInv
<1> QED
  BY <1>2, <1>3, <1>4 DEF Inv

LEMMA SendFrameInv == IInv /\ SendFrame => Inv'
<1> SUFFICES ASSUME IInv, SendFrame PROVE Inv'
  OBVIOUS
<1> USE DEF SendFrame, rpVars, ringVars, loopVars, receiverVars
<1>1. \A i \in InRing' :
        \/ i \in InRing /\ ring'[i] = ring[i]
        \/ /\ \A j \in InRing : j < i
           /\ ring'[i].id = "STREAM_DATA" /\ ring'[i].seq = etvSeq
           /\ ring'[i].idx = etvFrame /\ ring'[i].snap = snap
  BY Transmitted DEF IInv
<1>2. SeqInv'
  BY <1>1 DEF IInv, Inv, SeqInv
<1>3. AckInv' /\ ScreenInv'
  BY DEF IInv, Inv, AckInv, ScreenInv
<1>4. FreshInv'
  BY <1>1 DEF IInv, Inv, FreshInv
<1>5. RingInv'
  <2>1. /\ meta \in Nat /\ snap \in Nat /\ etvFrame \in Nat
        /\ meta <= snap
    BY DEF IInv, Inv, ProgressInv, TypeOK, ReceiverTypeOK, Snapshot
  <2>2. RingInv
    BY DEF IInv, Inv
  <2>3. Announcing /\ meta = snap => streamFrameMask = {}
    BY DEF IInv, Inv, ProgressInv
  <2>4. Sending => meta = snap
    BY DEF IInv, Inv, ProgressInv
  <2> QED
    BY <1>1, <2>1, <2>2, <2>3, <2>4 DEF RingInv, Announcing, Sending
<1>6. ProgressInv'
  BY DEF IInv, Inv, ProgressInv, Announcing, Sending
<1>7. OrderInv'
  BY <1>1, TransmittedOrder DEF Announcing, Sending
<1> QED
  BY <1>2, <1>3, <1>4, <1>5, <1>6, <1>7 DEF Inv

LEMMA FrameCreditInv == IInv /\ FrameCredit => Inv'
<1> SUFFICES ASSUME IInv, FrameCredit PROVE Inv'
  OBVIOUS
<1> USE DEF IInv, FrameCredit, rpVars, ringVars, loopVars, receiverVars
<1>0. etvState' \in {"idle", "sendFrame"} /\ etvFrame' = etvFrame + 1
  OBVIOUS
<1>1. meta = snap /\ etvFrame \in streamFrameMask /\ Sending
      /\ 0 .. etvFrame - 1 \subseteq streamFrameMask
      /\ streamFrameMask \subseteq 0 .. etvFrame /\ etvFrame \in Nat
  BY DEF Inv, FrameAcked, AckMatches, SeqInv, AckInv, ProgressInv, Sending, TypeOK, ReceiverTypeOK
<1>2. SeqInv' /\ AckInv' /\ ScreenInv' /\ FreshInv' /\ OrderInv'
  BY DEF Inv, SeqInv, AckInv, ScreenInv, FreshInv, OrderInv, InRing
<1>3. RingInv'
  <2>1. \A i \in InRing : ring[i].idx \in Nat
    <3> SUFFICES ASSUME NEW i \in InRing PROVE ring[i].idx \in Nat
      OBVIOUS
    <3>1. ring[i] \in StreamCommand
      BY DEF TypeOK, InRing
    <3> QED
      BY <3>1 DEF StreamCommand, Frame
  <2> QED
    BY <1>0, <1>1, <2>1 DEF Inv, RingInv, Announcing, Sending, InRing
<1>4. ProgressInv'
  BY <1>0, <1>1 DEF Inv, ProgressInv, Announcing, Sending
<1> QED
  BY <1>2, <1>3, <1>4 DEF Inv

LEMMA ReinstallInv == IInv /\ Reinstall => Inv'
  BY DEF IInv, Inv, Reinstall, rpVars, ringVars, loopVars, receiverVars, InRing,
         SeqInv, AckInv, FreshInv, RingInv, OrderInv, ProgressInv, ScreenInv,
         Announcing, Sending

LEMMA DrainInv ==
  ASSUME IInv, NEW i \in InRing, Drain(i), UNCHANGED etvVars
  PROVE  Inv'
<1> USE DEF Drain, etvVars, receiverVars
<1>1. InRing' = {1} /\ ring'[1] = ring[i]
  BY DEF InRing
<1>2. SeqInv' /\ FreshInv' /\ RingInv'
  BY <1>1 DEF IInv, Inv, SeqInv, FreshInv, RingInv, Announcing, Sending
<1>3. OrderInv'
  BY <1>1 DEF OrderInv
<1>4. AckInv' /\ ProgressInv' /\ ScreenInv'
  BY DEF IInv, Inv, AckInv, ProgressInv, ScreenInv, Announcing, Sending
<1> QED
  BY <1>2, <1>3, <1>4 DEF Inv

LEMMA DrainNothingInv == IInv /\ DrainNothing /\ UNCHANGED etvVars => Inv'
  BY DEF IInv, Inv, DrainNothing, etvVars, receiverVars, InRing, SeqInv, AckInv,
         FreshInv, RingInv, OrderInv, ProgressInv, ScreenInv, Announcing, Sending

(* The command handled is the oldest one left; those behind it stay.       *)
LEMMA HandleInv ==
  ASSUME IInv, Handle, UNCHANGED etvVars
  PROVE  Inv'
<1> DEFINE c == Head(ring)
<1> USE DEF etvVars
<1>f. /\ loopPc = "handle" /\ Receive(c) /\ ring' = Tail(ring)
      /\ loopPc' = IF readyFlag' THEN "write" ELSE "select"
      /\ UNCHANGED <<captureSlot, captureSeq, shots, pressCount>>
  BY DEF Handle
<1>a. /\ ring \in Seq(StreamCommand) /\ ring # << >>
      /\ c = ring[1] /\ 1 \in InRing /\ Len(ring) \in Nat
      /\ Len(ring') = Len(ring) - 1
  BY <1>f DEF IInv, TypeOK, InRing
<1>b. \A j \in InRing' : j + 1 \in InRing /\ ring'[j] = ring[j + 1] /\ 1 < j + 1
  BY <1>f, <1>a DEF InRing
<1>c. \A j \in InRing : ring[j] \in StreamCommand /\ ring[j].snap \in Nat
  <2>1. \A j \in InRing : ring[j] \in StreamCommand
    BY <1>a DEF InRing
  <2> QED
    BY <2>1 DEF StreamCommand, Snapshot
<1>1. /\ c \in StreamCommand
      /\ c.seq = c.snap /\ c.snap \in 1 .. pressCount
      /\ meta <= c.snap
      /\ etvState # "idle" => c.snap <= snap
      /\ c.id = "STREAM_DATA" => c.snap = meta
      /\ c.id = "STREAM_BEGIN" /\ c.snap = meta => streamFrameMask = {}
      /\ Announcing /\ c.snap = snap => c.id = "STREAM_BEGIN"
      /\ Sending /\ c.id = "STREAM_DATA" => c.idx <= etvFrame
      /\ resPrev # captureSlot => c.snap < pressCount
  BY <1>a, <1>c DEF IInv, Inv, SeqInv, RingInv, FreshInv
<1>2. c.snap \in Nat /\ c.idx \in Nat /\ c.seq \in Nat /\ pressCount \in Nat
      /\ meta \in Nat /\ snap \in Nat
  <2>1. pressCount \in Nat /\ meta \in Nat /\ snap \in Nat
    BY DEF IInv, TypeOK, ReceiverTypeOK, Snapshot
  <2>2. c.snap \in Nat /\ c.idx \in Frame /\ c.seq \in 0 .. SeqMod - 1
    BY <1>1 DEF StreamCommand, Snapshot
  <2> QED
    BY <2>1, <2>2 DEF Frame
<1>3. ~readyFlag /\ (readyFlag' <=> loopPc' = "write")
  BY <1>f DEF IInv, Inv, ScreenInv
<1>d. OrderInv'
  <2> SUFFICES ASSUME NEW j \in InRing', NEW k \in InRing', j < k
               PROVE  /\ ring'[j].snap <= ring'[k].snap
                      /\ ring'[j].id = "STREAM_DATA" /\ ring'[k].id = "STREAM_BEGIN" =>
                           ring'[j].snap < ring'[k].snap
    BY DEF OrderInv
  <2>1. j + 1 \in InRing /\ k + 1 \in InRing /\ j + 1 < k + 1
    BY <1>b DEF InRing
  <2> QED
    BY <1>b, <2>1 DEF IInv, Inv, OrderInv
(* What the commands behind it satisfied, and what follows from the order. *)
<1>e. \A j \in InRing' :
        /\ ring'[j].seq = ring'[j].snap /\ ring'[j].snap \in 1 .. pressCount
        /\ ring'[j].snap \in Nat
        /\ c.snap <= ring'[j].snap
        /\ c.id = "STREAM_DATA" /\ ring'[j].id = "STREAM_BEGIN" =>
             c.snap < ring'[j].snap
        /\ meta <= ring'[j].snap
        /\ etvState # "idle" => ring'[j].snap <= snap
        /\ ring'[j].id = "STREAM_DATA" => ring'[j].snap = meta
        /\ ring'[j].id = "STREAM_BEGIN" /\ ring'[j].snap = meta =>
             streamFrameMask = {}
        /\ Announcing /\ ring'[j].snap = snap => ring'[j].id = "STREAM_BEGIN"
        /\ Sending /\ ring'[j].id = "STREAM_DATA" => ring'[j].idx <= etvFrame
        /\ resPrev # captureSlot => ring'[j].snap < pressCount
  <2> SUFFICES ASSUME NEW j \in InRing' 
      PROVE
        /\ ring'[j].seq = ring'[j].snap /\ ring'[j].snap \in 1 .. pressCount
        /\ ring'[j].snap \in Nat
        /\ c.snap <= ring'[j].snap
        /\ c.id = "STREAM_DATA" /\ ring'[j].id = "STREAM_BEGIN" =>
             c.snap < ring'[j].snap
        /\ meta <= ring'[j].snap
        /\ etvState # "idle" => ring'[j].snap <= snap
        /\ ring'[j].id = "STREAM_DATA" => ring'[j].snap = meta
        /\ ring'[j].id = "STREAM_BEGIN" /\ ring'[j].snap = meta =>
             streamFrameMask = {}
        /\ Announcing /\ ring'[j].snap = snap => ring'[j].id = "STREAM_BEGIN"
        /\ Sending /\ ring'[j].id = "STREAM_DATA" => ring'[j].idx <= etvFrame
        /\ resPrev # captureSlot => ring'[j].snap < pressCount
    OBVIOUS
  <2>1. j + 1 \in InRing /\ ring'[j] = ring[j + 1] /\ 1 < j + 1
    BY <1>b
  <2>2. /\ c.snap <= ring'[j].snap
        /\ c.id = "STREAM_DATA" /\ ring'[j].id = "STREAM_BEGIN" =>
             c.snap < ring'[j].snap
    BY <1>a, <2>1 DEF IInv, Inv, OrderInv
  <2> QED
    BY <1>c, <2>1, <2>2 DEF IInv, Inv, SeqInv, RingInv, FreshInv
<1>4. CASE StreamBegin(c)
  <2> USE DEF StreamBegin, ClearMasks
  <2>0. /\ meta' = c.snap /\ streamSeq' = c.seq /\ streamFrameMask' = {}
        /\ beginReceived' = TRUE /\ streamAck'.seq = c.seq /\ streamAck'.next = 0
    BY <1>4
  <2>1. SeqInv'
    <3>1. /\ streamSeq' = meta' /\ meta' <= pressCount' /\ meta' > 0
      BY <1>f, <1>1, <1>2, <2>0
    <3>2. \A k \in InRing' : ring'[k].seq = ring'[k].snap /\ ring'[k].snap \in 1 .. pressCount
      BY <1>e
    <3> QED
      BY <1>f, <3>1, <3>2 DEF IInv, Inv, SeqInv
  <2>2. AckInv' /\ RingInv'
    <3>1. AckInv'
      BY <1>1, <2>0 DEF AckInv
    <3>2. RingInv'
      BY <1>1, <1>2, <1>e, <2>0 DEF RingInv, Announcing, Sending
    <3> QED
      BY <3>1, <3>2
  <2>3. FreshInv'
    BY <1>f, <1>1, <1>e, <2>0 DEF IInv, Inv, FreshInv
  <2>4. ProgressInv'
    <3>1. etvState # "idle" => meta' <= snap'
      BY <1>1, <1>4
    <3>2. CASE Sending
      <4>1. meta = snap /\ 0 .. etvFrame - 1 \subseteq streamFrameMask
            /\ etvState # "idle" /\ meta \in Nat /\ snap \in Nat
        BY <3>2 DEF IInv, Inv, ProgressInv, Sending, TypeOK, ReceiverTypeOK, Snapshot
      <4>2. c.snap = meta /\ streamFrameMask = {}
        BY <1>1, <1>2, <1>4, <4>1
      <4> QED
        BY <1>4, <3>1, <3>2, <4>1, <4>2 DEF ProgressInv, Announcing, Sending
    <3>3. CASE ~Sending
      BY <1>4, <3>1, <3>3 DEF ProgressInv, Announcing, Sending
    <3> QED
      BY <3>2, <3>3
  <2>5. ScreenInv'
    <3>1. \A k \in 1 .. Len(shots) : shots[k].meta \in Nat
      <4>1. shots \in Seq(Image)
        BY DEF IInv, TypeOK, ReceiverTypeOK
      <4>2. \A k \in 1 .. Len(shots) : shots[k] \in Image
        BY <4>1
      <4> QED
        BY <4>2 DEF Image, Snapshot
    <3>2. meta \in Nat
      BY DEF IInv, TypeOK, ReceiverTypeOK, Snapshot
    <3>3. \A k \in 1 .. Len(shots) : shots[k].meta < c.snap
      BY <1>f, <1>1, <1>2, <1>4, <3>1, <3>2 DEF IInv, Inv, ScreenInv
    <3> QED
      BY <1>f, <1>1, <1>2, <1>3, <1>4, <3>1, <3>2, <3>3 DEF ScreenInv
  <2> QED
    BY <1>d, <2>1, <2>2, <2>3, <2>4, <2>5 DEF Inv
<1>5. CASE StreamData(c) /\ FrameWanted(c)
  <2> USE DEF StreamData, FrameWanted
  <2>0. UNCHANGED <<meta, streamSeq, beginReceived>> /\ c.id = "STREAM_DATA"
    BY <1>5
  <2>1. SeqInv'
    BY <1>f, <1>e, <2>0 DEF IInv, Inv, SeqInv
  <2>2. AckInv' /\ RingInv'
    <3>1. AckInv'
      BY <1>1, <1>2, <1>5 DEF AckInv
    <3>2. RingInv'
      BY <1>1, <1>2, <1>e, <2>0 DEF RingInv, Announcing, Sending
    <3> QED
      BY <3>1, <3>2
  <2>3. FreshInv'
    BY <1>f, <1>e, <2>0 DEF IInv, Inv, FreshInv
  <2>4. ProgressInv'
    <3>1. /\ c.id = "STREAM_DATA" /\ c.snap = meta /\ meta' = meta
          /\ streamFrameMask' = streamFrameMask \union {c.idx}
      BY <1>1, <1>5
    <3>2. ~(Announcing /\ meta = snap)
      BY <1>1, <3>1
    <3>3. CASE Sending
      <4>1. /\ meta = snap /\ etvFrame \in Nat
            /\ 0 .. etvFrame - 1 \subseteq streamFrameMask
            /\ streamFrameMask \subseteq 0 .. etvFrame
        BY <3>3 DEF IInv, Inv, ProgressInv, TypeOK
      <4>2. c.idx \in 0 .. etvFrame
        BY <1>1, <1>2, <3>1, <3>3, <4>1
      <4> QED
        BY <3>1, <3>2, <4>1, <4>2, <1>1 DEF ProgressInv, Announcing, Sending
    <3>4. CASE ~Sending
      BY <1>1, <3>1, <3>2, <3>4 DEF ProgressInv, Announcing, Sending
    <3> QED
      BY <3>3, <3>4
  <2>5. ScreenInv'
    BY <1>f, <1>1, <1>2, <1>3, <1>5
       DEF IInv, Inv, ScreenInv, TypeOK, ReceiverTypeOK, Snapshot, Image
  <2> QED
    BY <1>d, <2>1, <2>2, <2>3, <2>4, <2>5 DEF Inv
<1>6. CASE StreamData(c) /\ ~FrameWanted(c)
  <2> USE DEF StreamData
  <2>0. UNCHANGED <<meta, streamSeq, beginReceived, streamAck, streamFrameMask>>
    BY <1>6
  <2>1. SeqInv' /\ AckInv' /\ RingInv' /\ FreshInv' /\ ProgressInv'
    BY <1>f, <1>e, <2>0 DEF IInv, Inv, SeqInv, AckInv, RingInv, FreshInv, ProgressInv,
                      Announcing, Sending
  <2>2. ScreenInv'
    BY <1>f, <1>3, <1>6 DEF IInv, Inv, ScreenInv
  <2> QED
    BY <1>d, <2>1, <2>2 DEF Inv
<1> QED
  BY <1>f, <1>1, <1>4, <1>5, <1>6 DEF Receive, Begin, Data, StreamData, StreamCommand

LEMMA WritePendingInv == IInv /\ WritePending /\ UNCHANGED etvVars => Inv'
<1> SUFFICES ASSUME IInv, WritePending, UNCHANGED etvVars PROVE Inv'
  OBVIOUS
<1> USE DEF WritePending, DropFlags, etvVars, ringVars
<1>1. streamFrameMask = Frame /\ 0 \in Frame /\ readyFlag /\ meta \in Nat
  BY NumFramesPositive
     DEF IInv, Inv, ScreenInv, Frame, TypeOK, ReceiverTypeOK, Snapshot
<1>2. SeqInv' /\ AckInv' /\ FreshInv' /\ RingInv' /\ OrderInv'
      /\ ProgressInv'
  BY DEF IInv, Inv, SeqInv, AckInv, FreshInv, RingInv, OrderInv,
         ProgressInv, InRing, Announcing, Sending
<1>3. \A i \in 1 .. Len(shots') : shots'[i].meta <= meta
  <2>1. CASE UNCHANGED shots
    BY <2>1 DEF IInv, Inv, ScreenInv
  <2>2. CASE shots' = Append(shots, [meta |-> meta, data |-> source])
    <3>1. shots \in Seq(Image)
      BY DEF IInv, TypeOK, ReceiverTypeOK
    <3>2. \A i \in 1 .. Len(shots) : shots[i].meta <= meta
      BY DEF IInv, Inv, ScreenInv
    <3> QED
      BY <1>1, <2>2, <3>1, <3>2
  <2> QED
    BY <2>1, <2>2
<1>4. ScreenInv'
  BY <1>1, <1>3 DEF IInv, Inv, ScreenInv
<1> QED
  BY <1>2, <1>4 DEF Inv

LEMMA SelectReleaseInv == IInv /\ SelectRelease /\ UNCHANGED etvVars => Inv'
<1> SUFFICES ASSUME IInv, SelectRelease, UNCHANGED etvVars PROVE Inv'
  OBVIOUS
<1> USE DEF SelectRelease, etvVars, ringVars, receiverVars
<1>1. /\ pressCount \in Nat /\ pressCount' = pressCount + 1
      /\ captureSeq' = pressCount' /\ captureSlot' = pressCount'
  <2>1. pressCount \in Nat /\ captureSeq = pressCount
    BY DEF IInv, Inv, SeqInv, TypeOK, ReceiverTypeOK
  <2>2. (pressCount + 1) % SeqMod = pressCount + 1
    BY <2>1, ModSmall, NoWrap, ReceiverAssumption
  <2> QED
    BY <2>1, <2>2
<1>2. SeqInv'
  <2>1. meta \in Nat /\ resPrev' = resPrev /\ ring' = ring
    BY DEF IInv, TypeOK, ReceiverTypeOK, Snapshot
  <2>2. SeqInv
    BY DEF IInv, Inv
  <2> QED
    BY <1>1, <2>1, <2>2 DEF SeqInv, InRing
<1>3. AckInv' /\ RingInv' /\ OrderInv' /\ ProgressInv' /\ ScreenInv'
  BY DEF IInv, Inv, AckInv, RingInv, OrderInv, ProgressInv, ScreenInv, InRing, Announcing,
         Sending
<1>4. FreshInv'
  <2>1. /\ meta \in Nat /\ meta <= pressCount
        /\ etvState # "idle" => snap \in 1 .. pressCount
        /\ \A i \in InRing : ring[i].snap \in 1 .. pressCount
    BY DEF IInv, Inv, SeqInv, TypeOK, ReceiverTypeOK, Snapshot
  <2> QED
    BY <1>1, <2>1 DEF FreshInv, InRing
<1> QED
  BY <1>2, <1>3, <1>4 DEF Inv

LEMMA SelectIdleInv == IInv /\ SelectIdle /\ UNCHANGED etvVars => Inv'
  BY DEF IInv, Inv, SelectIdle, etvVars, ringVars, receiverVars, InRing, SeqInv,
         AckInv, FreshInv, RingInv, OrderInv, ProgressInv, ScreenInv, Announcing,
         Sending

LEMMA StutterInv == IInv /\ UNCHANGED vars => Inv'
  BY DEF IInv, Inv, vars, rpVars, loopVars, etvVars, ringVars, receiverVars,
         InRing, SeqInv, AckInv, FreshInv, RingInv, OrderInv, ProgressInv,
         ScreenInv, Announcing, Sending

-----------------------------------------------------------------------------
(* Room in the ring.                                                       *)

LEMMA Division ==
  ASSUME NEW n \in Nat, NEW m \in Nat, m <= n, NEW d \in Nat \ {0}
  PROVE  /\ n \div d \in Nat /\ m \div d \in Nat
         /\ m \div d <= n \div d
         /\ (n + d) \div d = 1 + n \div d
  OBVIOUS

LEMMA Product ==
  ASSUME NEW n \in Nat, NEW m \in Nat, m <= n, NEW w \in Nat
  PROVE  /\ n * w \in Nat /\ m * w \in Nat
         /\ m * w <= n * w
         /\ (1 + n) * w = w + n * w
<1>1. n * w \in Nat /\ m * w \in Nat
  OBVIOUS
<1>2. m * w <= n * w
  OBVIOUS
<1>3. (1 + n) * w = w + n * w
  OBVIOUS
<1> QED
  BY <1>1, <1>2, <1>3

LEMMA Bursts ==
  /\ Sends \in Nat \ {0}
  /\ FrameWords \in Nat /\ BeginWords \in Nat /\ BeginWords <= FrameWords
  /\ FrameBurst \in Nat /\ BeginBurst \in Nat /\ BeginBurst <= FrameBurst
<1>1. Sends \in Nat \ {0}
  BY EtvAssumption, Division DEF Sends
<1>2. FrameWords \in Nat /\ BeginWords \in Nat /\ BeginWords <= FrameWords
  BY EtvAssumption
<1>3. FrameBurst \in Nat /\ BeginBurst \in Nat
  BY <1>1, <1>2, Product DEF FrameBurst, BeginBurst
<1>4. BeginWords * Sends <= FrameWords * Sends
  BY <1>1, <1>2, Product
<1>5. BeginBurst <= FrameBurst
  BY <1>1, <1>2, <1>4 DEF FrameBurst, BeginBurst
<1> QED
  BY <1>1, <1>2, <1>3, <1>5

LEMMA LimitNat == RingLimit \in Nat
  BY Bursts DEF RingLimit

LEMMA LimitsFixed ==
  RingLimit' = RingLimit /\ FrameBurst' = FrameBurst /\ BeginBurst' = BeginBurst
  BY DEF RingLimit, FrameBurst, BeginBurst, Sends

(* Within one wait no more is sent than the limits allow.                  *)
LEMMA Remaining ==
  TypeOK /\ ClockInv /\ etvState # "idle" =>
    /\ SendsLeft \in Nat /\ SendsLeft <= Sends
    /\ SendsLeft * BeginWords \in Nat /\ SendsLeft * BeginWords <= BeginBurst
    /\ SendsLeft * FrameWords \in Nat /\ SendsLeft * FrameWords <= FrameBurst
<1> SUFFICES ASSUME TypeOK, ClockInv, etvState # "idle"
             PROVE  /\ SendsLeft \in Nat /\ SendsLeft <= Sends
                    /\ SendsLeft * BeginWords \in Nat
                    /\ SendsLeft * BeginWords <= BeginBurst
                    /\ SendsLeft * FrameWords \in Nat
                    /\ SendsLeft * FrameWords <= FrameBurst
  OBVIOUS
<1>1. /\ AbortTicks - 1 - etvTimeout + etvRetry \in Nat
      /\ AbortTicks - 1 - etvTimeout + etvRetry <= AbortTicks - 1
      /\ AbortTicks - 1 \in Nat /\ RetryTicks \in Nat \ {0}
  BY EtvAssumption DEF TypeOK, ClockInv
<1>2. /\ Resends \in Nat /\ Resends <= (AbortTicks - 1) \div RetryTicks
      /\ (AbortTicks - 1) \div RetryTicks \in Nat
  BY <1>1, Division DEF Resends
<1>3. SendsLeft \in Nat /\ SendsLeft <= Sends
  BY <1>2 DEF SendsLeft, Sends
<1> QED
  BY <1>3, Bursts, Product DEF BeginBurst, FrameBurst

LEMMA Reserved ==
  TypeOK /\ ClockInv =>
    /\ Reserve \in Nat /\ BeginReserve \in Nat
    /\ loopPc # "handle" => Reserve <= FrameBurst + FrameWords
    /\ loopPc = "handle" =>
         /\ FrameBurst + FrameWords <= Reserve
         /\ Reserve <= FrameBurst + FrameWords + FrameWords
    /\ BeginReserve <= BeginBurst + BeginBurst
<1> SUFFICES ASSUME TypeOK, ClockInv
             PROVE  /\ Reserve \in Nat /\ BeginReserve \in Nat
                    /\ loopPc # "handle" => Reserve <= FrameBurst + FrameWords
                    /\ loopPc = "handle" =>
                         /\ FrameBurst + FrameWords <= Reserve
                         /\ Reserve <= FrameBurst + FrameWords + FrameWords
                    /\ BeginReserve <= BeginBurst + BeginBurst
  OBVIOUS
<1>1. BeginReserve \in Nat /\ BeginReserve <= BeginBurst + BeginBurst
  BY Bursts DEF BeginReserve
<1>2. CASE etvState # "idle"
  BY <1>1, <1>2, Bursts, Remaining DEF Reserve
<1>3. CASE etvState = "idle"
  BY <1>1, <1>3, Bursts DEF Reserve, CreditThere, Announcing, Sending
<1> QED
  BY <1>2, <1>3

LEMMA ClockStep == IInv /\ [Next]_vars => ClockInv'
<1> SUFFICES ASSUME IInv, [Next]_vars PROVE ClockInv'
  OBVIOUS
<1> USE EtvAssumption DEF IInv, RoomInv, ClockInv
<1>1. CASE TakeSnapshot \/ BeginCredit \/ FrameCredit \/ Reinstall
  BY <1>1 DEF TakeSnapshot, BeginCredit, FrameCredit, Reinstall
<1>2. CASE SendBegin \/ SendFrame
  BY <1>2 DEF SendBegin, SendFrame, TypeOK
<1>3. CASE BeginWait \/ FrameWait
  BY <1>3 DEF BeginWait, FrameWait, WaitTick, TypeOK
<1>4. CASE UNCHANGED etvVars
  BY <1>4 DEF etvVars
<1> QED
  BY <1>1, <1>2, <1>3, <1>4 DEF Next, Tick, Rp, vars

(* A press that waits has no credit yet.                                   *)
LEMMA TakeSnapshotRoom == IInv /\ TakeSnapshot /\ ClockInv' => RoomInv'
<1> SUFFICES ASSUME IInv, TakeSnapshot, ClockInv' PROVE RoomInv'
  OBVIOUS
<1> USE DEF TakeSnapshot, rpVars, ringVars, loopVars
<1>1. unread + Reserve + BeginReserve <= RingLimit /\ unread \in Nat
  BY DEF IInv, RoomInv, TypeOK, ReceiverTypeOK
<1>2. PICK more \in Nat : BeginReserve' = more /\ BeginReserve = more + BeginBurst
  <2>1. CASE loopPc = "poll"
    BY <2>1, Bursts DEF BeginReserve
  <2>2. CASE loopPc # "poll"
    <3>1. BeginReserve' = BeginBurst /\ BeginReserve = BeginBurst + BeginBurst
      BY <2>2, Bursts, LimitsFixed DEF BeginReserve
    <3> QED
      BY <3>1, Bursts
  <2> QED
    BY <2>1, <2>2
<1>3. CASE loopPc = "handle"
  <2>1. Reserve' = Reserve /\ Reserve \in Nat
    BY <1>3, Bursts DEF Reserve
  <2> QED
    <3>1. unread + Reserve + more <= RingLimit
      BY <1>1, <1>2, <2>1, Bursts, LimitNat
    <3> QED
      BY <1>2, <2>1, <3>1, LimitsFixed DEF RoomInv
<1>4. CASE loopPc # "handle"
  <2>1. ~CreditThere'
    <3>1. captureSlot = pressCount /\ pressCount \in Nat \ {0} /\ meta < pressCount
      BY DEF IInv, Inv, SeqInv, FreshInv, TypeOK, ReceiverTypeOK
    <3>2. streamAck.seq # captureSlot
      BY <3>1 DEF IInv, Inv, AckInv, TypeOK, ReceiverTypeOK, Snapshot
    <3> QED
      BY <3>2 DEF CreditThere, BeginAcked, AckMatches, Sending, receiverVars
  <2>2. SendsLeft' = Sends
    BY EtvAssumption DEF SendsLeft, Sends, Resends
  <2>3. Reserve' = BeginBurst
    BY <1>4, <2>1, <2>2 DEF Reserve, Announcing, BeginBurst
  <2>4. Reserve \in Nat
    BY Reserved DEF IInv, RoomInv
  <2> QED
    <3>1. unread + BeginBurst + more <= RingLimit
      BY <1>1, <1>2, <2>4, Bursts, LimitNat
    <3> QED
      BY <1>2, <2>3, <3>1, LimitsFixed DEF RoomInv
<1> QED
  BY <1>3, <1>4

(* A command takes its words from the reserve.                             *)
LEMMA SendRoom == IInv /\ (SendBegin \/ SendFrame) /\ ClockInv' => RoomInv'
<1> SUFFICES ASSUME IInv, SendBegin \/ SendFrame, ClockInv' PROVE RoomInv'
  OBVIOUS
<1>1. /\ unread + Reserve + BeginReserve <= RingLimit /\ unread \in Nat
      /\ Reserve \in Nat /\ BeginReserve \in Nat
  BY Reserved DEF IInv, RoomInv, TypeOK, ReceiverTypeOK
<1>2. BeginReserve' = BeginReserve
  BY DEF SendBegin, SendFrame, BeginReserve, loopVars
<1> DEFINE words == IF etvState = "sendBegin" THEN BeginWords ELSE FrameWords
<1>3. unread' = unread + words /\ words \in Nat /\ words <= FrameWords
  BY Bursts DEF SendBegin, SendFrame, Transmit
<1>4. Len(ring') = Len(ring) + 1 /\ Len(ring) \in Nat
  <2>1. PICK c : ring' = Append(ring, c)
    BY DEF SendBegin, SendFrame, Transmit
  <2>2. ring \in Seq(StreamCommand)
    BY DEF IInv, TypeOK
  <2> QED
    BY <2>1, <2>2
<1>5. PICK left \in Nat : Reserve' = left /\ left + words <= Reserve
  <2>1. CASE loopPc = "handle"
    <3>1. loopPc' = "handle" /\ Len(ring) = 1 /\ Len(ring') # 1
      BY <1>4, <2>1 DEF SendBegin, SendFrame, InTime, loopVars
    <3>2. /\ Reserve' = FrameBurst + FrameWords
          /\ Reserve = FrameBurst + FrameWords + FrameWords
      BY <2>1, <3>1, Bursts, LimitsFixed DEF Reserve
    <3> QED
      BY <1>3, <3>2, Bursts
  <2>2. CASE loopPc # "handle"
    <3>1. loopPc' # "handle" /\ CreditThere' = CreditThere
      BY <2>2 DEF SendBegin, SendFrame, loopVars, CreditThere, Announcing,
         Sending, BeginAcked, FrameAcked, AckMatches
    <3>2. CASE CreditThere
      <4>1. Reserve' = FrameBurst /\ Reserve = FrameBurst + FrameWords
        BY <2>2, <3>1, <3>2, Bursts, LimitsFixed DEF Reserve, SendBegin, SendFrame
      <4> QED
        BY <1>3, <4>1, Bursts
    <3>3. CASE ~CreditThere
      <4>1. /\ AbortTicks - 1 - etvTimeout + etvRetry \in Nat
            /\ RetryTicks \in Nat \ {0}
            /\ etvRetry = 0
        BY EtvAssumption
           DEF IInv, RoomInv, ClockInv, TypeOK, SendBegin, SendFrame
      <4>2. PICK n \in Nat : Resends = n /\ Resends' = n
        <5>1. Resends \in Nat
          BY <4>1, Division DEF Resends
        <5>2. Resends' = Resends
          BY <4>1 DEF Resends, SendBegin, SendFrame
        <5> QED
          BY <5>1, <5>2
      <4>3. SendsLeft = 1 + n /\ SendsLeft' = n
        BY <4>2 DEF SendsLeft, SendBegin, SendFrame
      <4>4. CASE SendBegin
        <5>1. Reserve = (1 + n) * BeginWords /\ Reserve' = n * BeginWords
          BY <2>2, <3>1, <3>3, <4>3, <4>4 DEF Reserve, Announcing, SendBegin
        <5>2. words = BeginWords
          BY <4>4 DEF SendBegin
        <5> QED
          BY <5>1, <5>2, Bursts, Product
      <4>5. CASE SendFrame
        <5>1. Reserve = (1 + n) * FrameWords /\ Reserve' = n * FrameWords
          BY <2>2, <3>1, <3>3, <4>3, <4>5
             DEF Reserve, Announcing, Sending, SendFrame
        <5>2. words = FrameWords
          BY <4>5 DEF SendFrame
        <5> QED
          BY <5>1, <5>2, Bursts, Product
      <4> QED
        BY <4>4, <4>5
    <3> QED
      BY <3>2, <3>3
  <2> QED
    BY <2>1, <2>2
<1> HIDE DEF words
<1>6. unread + words + left + BeginReserve <= RingLimit
  BY <1>1, <1>3, <1>5, LimitNat
<1> QED
  BY <1>2, <1>3, <1>5, <1>6, LimitsFixed DEF RoomInv

(* What is written and what is still reserved together do not grow.        *)
LEMMA RoomKept ==
  ASSUME IInv, ClockInv', NEW u \in Nat, NEW r \in Nat, NEW b \in Nat,
         unread' = u, Reserve' = r, BeginReserve' = b,
         u <= unread, r <= Reserve, b <= BeginReserve
  PROVE  RoomInv'
<1>1. /\ unread + Reserve + BeginReserve <= RingLimit /\ unread \in Nat
      /\ Reserve \in Nat /\ BeginReserve \in Nat
  BY Reserved DEF IInv, RoomInv, TypeOK, ReceiverTypeOK
<1>2. u + r + b <= RingLimit
  BY <1>1, LimitNat
<1> QED
  BY <1>2, LimitsFixed DEF RoomInv

(* The credit that opens the frames, and the one for each frame: a new     *)
(* wait starts, with no credit for it yet.                                 *)
LEMMA CreditRoom == IInv /\ (BeginCredit \/ FrameCredit) /\ ClockInv' => RoomInv'
<1> SUFFICES ASSUME IInv, BeginCredit \/ FrameCredit, ClockInv' PROVE RoomInv'
  OBVIOUS
<1>1. /\ UNCHANGED <<unread, ring, loopPc, streamAck, captureSlot, resPrev, etvSeq>>
      /\ unread \in Nat
  BY DEF BeginCredit, FrameCredit, rpVars, ringVars, loopVars, IInv, TypeOK,
         ReceiverTypeOK
<1>2. BeginReserve' = BeginReserve /\ BeginReserve \in Nat /\ Reserve \in Nat
  BY <1>1, Reserved, LimitsFixed DEF BeginReserve, IInv, RoomInv
<1>3. PICK r \in Nat : Reserve' = r /\ r <= Reserve
  <2>1. CASE loopPc = "handle"
    BY <1>1, <1>2, <2>1, LimitsFixed DEF Reserve
  <2>2. CASE loopPc # "handle"
    <3>1. /\ ~CreditThere'
          /\ Reserve = FrameBurst
      <4>1. CASE BeginCredit
        BY <1>1, <2>2, <4>1, Bursts
           DEF BeginCredit, CreditThere, BeginAcked, FrameAcked, AckMatches,
               Reserve, Announcing, Sending
      <4>2. CASE FrameCredit
        <5>1. /\ streamAck.next \in Nat /\ etvFrame \in Nat
              /\ streamAck.next <= etvFrame + 1
          BY <4>2
             DEF FrameCredit, FrameAcked, IInv, Inv, AckInv, ProgressInv,
                 Sending, TypeOK, ReceiverTypeOK
        <5> QED
          BY <1>1, <2>2, <4>2, <5>1, Bursts
             DEF FrameCredit, CreditThere, BeginAcked, FrameAcked, AckMatches,
                 Reserve, Announcing, Sending
      <4> QED
        BY <4>1, <4>2
    <3>2. CASE etvState' = "idle"
      <4>1. Reserve' = 0
        BY <1>1, <2>2, <3>1, <3>2 DEF Reserve, Announcing, Sending
      <4> QED
        BY <1>2, <4>1
    <3>3. CASE etvState' = "sendFrame"
      <4>1. SendsLeft' = Sends
        BY <3>3, EtvAssumption
           DEF SendsLeft, Sends, Resends, BeginCredit, FrameCredit
      <4>2. Reserve' = FrameBurst
        BY <1>1, <2>2, <3>1, <3>3, <4>1 DEF Reserve, Announcing, Sending, FrameBurst
      <4> QED
        BY <3>1, <4>2, Bursts
    <3> QED
      BY <3>2, <3>3 DEF BeginCredit, FrameCredit
  <2> QED
    BY <2>1, <2>2
<1> QED
  BY <1>1, <1>2, <1>3, RoomKept

(* A tick without credit: a resend uses up the retry ticks it waited for.  *)
LEMMA WaitRoom == IInv /\ (BeginWait \/ FrameWait) /\ ClockInv' => RoomInv'
<1> SUFFICES ASSUME IInv, BeginWait \/ FrameWait, ClockInv' PROVE RoomInv'
  OBVIOUS
<1>1. /\ UNCHANGED <<unread, ring, loopPc, streamAck, captureSlot, resPrev,
                     etvSeq, etvFrame>>
      /\ unread \in Nat
  BY DEF BeginWait, FrameWait, WaitTick, rpVars, ringVars, loopVars, IInv,
         TypeOK, ReceiverTypeOK
<1>2. BeginReserve' = BeginReserve /\ BeginReserve \in Nat /\ Reserve \in Nat
  BY <1>1, Reserved, LimitsFixed DEF BeginReserve, IInv, RoomInv
<1>3. PICK r \in Nat : Reserve' = r /\ r <= Reserve
  <2>1. CASE loopPc = "handle"
    BY <1>1, <1>2, <2>1, LimitsFixed DEF Reserve
  <2>2. CASE loopPc # "handle" /\ etvState' = "idle"
    <3>1. Reserve' = 0
      BY <1>1, <2>2 DEF Reserve, CreditThere, Announcing, Sending
    <3> QED
      BY <1>2, <3>1
  <2>3. CASE loopPc # "handle" /\ etvState' # "idle"
    <3>1. ~CreditThere /\ ~CreditThere'
      BY <1>1, <2>3
         DEF BeginWait, FrameWait, WaitTick, CreditThere, BeginAcked,
             FrameAcked, AckMatches, Announcing, Sending
    <3>2. PICK n \in Nat : SendsLeft = n /\ SendsLeft' = n
      <4>1. SendsLeft \in Nat
        BY Remaining DEF IInv, RoomInv, BeginWait, FrameWait
      <4>2. SendsLeft' = SendsLeft
        <5>1. /\ RetryTicks \in Nat \ {0} /\ AbortTicks \in Nat
              /\ etvRetry \in 0 .. RetryTicks - 1 /\ etvTimeout \in Nat
              /\ etvTimeout + 1 < AbortTicks /\ etvTimeout' = etvTimeout + 1
          BY <2>3, EtvAssumption
             DEF IInv, TypeOK, BeginWait, FrameWait, WaitTick, GivesUp
        <5>2. CASE etvRetry + 1 < RetryTicks
          <6>1. /\ etvState' = etvState /\ etvState \in {"waitBegin", "waitFrame"}
                /\ etvRetry' = etvRetry + 1
            BY <2>3, <5>1, <5>2 DEF BeginWait, FrameWait, WaitTick, GivesUp
          <6>2. AbortTicks - 1 - etvTimeout' + etvRetry'
                  = AbortTicks - 1 - etvTimeout + etvRetry
            BY <5>1, <6>1
          <6> QED
            BY <6>1, <6>2 DEF SendsLeft, Resends
        <5>3. CASE etvRetry + 1 >= RetryTicks
          <6>1. /\ etvState' \in {"sendBegin", "sendFrame"}
                /\ etvState \in {"waitBegin", "waitFrame"}
                /\ etvRetry' = 0 /\ etvRetry = RetryTicks - 1
            BY <2>3, <5>1, <5>3 DEF BeginWait, FrameWait, WaitTick, GivesUp
          <6> DEFINE m == AbortTicks - 1 - etvTimeout - 1
          <6>2. /\ m \in Nat /\ m <= m
                /\ AbortTicks - 1 - etvTimeout + etvRetry = m + RetryTicks
                /\ AbortTicks - 1 - etvTimeout' + etvRetry' = m
            BY <5>1, <6>1
          <6> HIDE DEF m
          <6>3. (m + RetryTicks) \div RetryTicks = 1 + m \div RetryTicks
            BY <5>1, <6>2, Division
          <6>4. Resends = 1 + m \div RetryTicks /\ Resends' = m \div RetryTicks
            BY <6>2, <6>3 DEF Resends
          <6>5. m \div RetryTicks \in Nat
            BY <5>1, <6>2, Division
          <6> QED
            BY <6>1, <6>4, <6>5 DEF SendsLeft
        <5> QED
          BY <5>1, <5>2, <5>3
      <4> QED
        BY <4>1, <4>2
    <3>3. \/ Announcing /\ Announcing'
          \/ ~Announcing /\ ~Announcing' /\ Sending /\ Sending'
      BY <2>3 DEF BeginWait, FrameWait, WaitTick, Announcing, Sending
    <3>4. Reserve' = Reserve
      BY <1>1, <2>3, <3>1, <3>2, <3>3 DEF Reserve
    <3> QED
      BY <1>2, <3>4
  <2> QED
    BY <2>1, <2>2, <2>3
<1> QED
  BY <1>1, <1>2, <1>3, RoomKept

LEMMA ReinstallRoom == IInv /\ Reinstall /\ ClockInv' => RoomInv'
<1> SUFFICES ASSUME IInv, Reinstall, ClockInv' PROVE RoomInv'
  OBVIOUS
<1> USE DEF Reinstall, rpVars, ringVars, loopVars
<1>1. unread' = unread /\ unread \in Nat /\ Reserve \in Nat /\ BeginReserve \in Nat
  BY Reserved DEF IInv, RoomInv, TypeOK, ReceiverTypeOK
<1>2. PICK r \in Nat : Reserve' = r /\ r <= Reserve
  <2>1. CASE loopPc = "handle"
    BY <1>1, <2>1, LimitsFixed DEF Reserve
  <2>2. CASE loopPc # "handle"
    <3>1. Reserve' = 0
      BY <2>2 DEF Reserve, CreditThere, Announcing, Sending
    <3> QED
      BY <1>1, <3>1
  <2> QED
    BY <2>1, <2>2
<1>3. PICK b \in Nat : BeginReserve' = b /\ b <= BeginReserve
  <2>1. CASE loopPc = "poll"
    <3>1. BeginReserve' = 0
      BY <2>1 DEF BeginReserve
    <3> QED
      BY <1>1, <3>1
  <2>2. CASE loopPc # "poll"
    <3>1. BeginReserve' = BeginBurst /\ BeginBurst <= BeginReserve
      BY <2>2, Bursts, LimitsFixed DEF BeginReserve
    <3> QED
      BY <3>1, Bursts
  <2> QED
    BY <2>1, <2>2
<1> QED
  BY <1>1, <1>2, <1>3, RoomKept

(* A drain reads everything up to the write position.                      *)
LEMMA DrainRoom ==
  ASSUME IInv, TypeOK', ClockInv', UNCHANGED etvVars,
         DrainNothing \/ \E i \in InRing : Drain(i)
  PROVE  RoomInv'
<1>1. unread' = 0 /\ (loopPc' = "handle" => Len(ring') = 1)
  BY DEF DrainNothing, Drain
<1>2. PICK r \in Nat : Reserve' = r /\ r <= FrameBurst + FrameWords + FrameWords
  <2>1. CASE DrainNothing
    <3>1. loopPc = "poll" /\ Reserve' = Reserve
      BY <2>1, LimitsFixed
         DEF DrainNothing, etvVars, Reserve, CreditThere, Announcing, Sending,
             BeginAcked, FrameAcked, AckMatches, SendsLeft, Resends
    <3>2. Reserve \in Nat /\ Reserve <= FrameBurst + FrameWords
      BY <3>1, Reserved DEF IInv, RoomInv
    <3> QED
      BY <3>1, <3>2, Bursts
  <2>2. CASE \E i \in InRing : Drain(i)
    <3>1. Reserve' = FrameBurst + FrameWords + FrameWords
      BY <1>1, <2>2, LimitsFixed DEF Drain, Reserve
    <3> QED
      BY <3>1, Bursts
  <2> QED
    BY <2>1, <2>2
<1>3. PICK b \in Nat : BeginReserve' = b /\ b <= BeginBurst + BeginBurst
  <2>1. \/ BeginReserve' = 0 \/ BeginReserve' = BeginBurst
        \/ BeginReserve' = BeginBurst + BeginBurst
    BY Bursts, LimitsFixed DEF BeginReserve
  <2> QED
    BY <2>1, Bursts
<1>4. 0 + r + b <= RingLimit
  BY <1>2, <1>3, Bursts DEF RingLimit
<1> QED
  BY <1>1, <1>2, <1>3, <1>4, LimitsFixed DEF RoomInv

(* A command handled may bring the credit for one frame more.              *)
LEMMA HandleRoom ==
  ASSUME IInv, TypeOK', ClockInv', UNCHANGED etvVars, Handle
  PROVE  RoomInv'
<1>1. /\ unread' = unread /\ unread \in Nat /\ captureSlot' = captureSlot
      /\ loopPc = "handle" /\ loopPc' \in {"write", "select"}
      /\ Reserve \in Nat /\ BeginReserve \in Nat
  BY Reserved DEF Handle, IInv, RoomInv, TypeOK, ReceiverTypeOK
<1>2. BeginReserve' = BeginReserve
  BY <1>1, LimitsFixed DEF BeginReserve, etvVars
<1>3. FrameBurst + FrameWords <= Reserve
  BY <1>1, Reserved DEF IInv, RoomInv
<1>4. PICK n \in Nat : etvState # "idle" => SendsLeft' = n /\ n <= Sends
  <2>1. SendsLeft' = SendsLeft
    BY DEF SendsLeft, Resends, etvVars
  <2> QED
    BY <2>1, Remaining DEF IInv, RoomInv
<1>5. PICK r \in Nat : Reserve' = r /\ r <= FrameBurst + FrameWords
  <2>1. CASE CreditThere'
    <3>1. \/ Reserve' = FrameBurst + FrameWords
          \/ Reserve' = FrameBurst + 0
      BY <1>1, <2>1, LimitsFixed DEF Reserve
    <3> QED
      BY <3>1, Bursts
  <2>2. CASE ~CreditThere' /\ Announcing
    <3>1. Reserve' = n * BeginWords /\ n <= Sends
      BY <1>1, <1>4, <2>2 DEF Reserve, Announcing, etvVars
    <3>2. n * BeginWords \in Nat /\ n * BeginWords <= BeginBurst
      BY <3>1, Bursts, Product DEF BeginBurst
    <3> QED
      BY <3>1, <3>2, Bursts
  <2>3. CASE ~CreditThere' /\ ~Announcing /\ Sending
    <3>1. Reserve' = n * FrameWords /\ n <= Sends
      BY <1>1, <1>4, <2>3 DEF Reserve, Announcing, Sending, etvVars
    <3>2. n * FrameWords \in Nat /\ n * FrameWords <= FrameBurst
      BY <3>1, Bursts, Product DEF FrameBurst
    <3> QED
      BY <3>1, <3>2, Bursts
  <2>4. CASE ~CreditThere' /\ ~Announcing /\ ~Sending
    <3>1. Reserve' = 0
      BY <1>1, <2>4 DEF Reserve, Announcing, Sending, etvVars
    <3> QED
      BY <3>1, Bursts
  <2> QED
    BY <2>1, <2>2, <2>3, <2>4
<1>6. r <= Reserve
  BY <1>1, <1>3, <1>5, Bursts
<1> QED
  BY <1>1, <1>2, <1>5, <1>6, RoomKept

(* The rest of the service loop writes nothing into the ring; a press      *)
(* withdraws the credit, and finds room for its announcements.             *)
LEMMA LoopRoom ==
  ASSUME IInv, ClockInv', UNCHANGED etvVars,
         WritePending \/ SelectRelease \/ SelectIdle
  PROVE  RoomInv'
<1>1. /\ unread' = unread /\ unread \in Nat /\ loopPc \in {"write", "select"}
      /\ loopPc' # "handle" /\ Reserve \in Nat /\ BeginReserve \in Nat
  BY Reserved
     DEF WritePending, SelectRelease, SelectIdle, IInv, RoomInv, TypeOK,
         ReceiverTypeOK, ringVars
<1>2. PICK b \in Nat : BeginReserve' = b /\ b <= BeginReserve
  <2>1. CASE WritePending
    <3>1. BeginReserve' = BeginReserve
      BY <2>1, LimitsFixed DEF WritePending, BeginReserve, etvVars
    <3> QED
      BY <1>1, <3>1
  <2>2. CASE SelectRelease \/ SelectIdle
    <3>1. /\ BeginReserve' \in {0 + 0, BeginBurst + 0}
          /\ BeginReserve \in {0 + BeginBurst, BeginBurst + BeginBurst}
          /\ SelectIdle /\ resPrev = captureSlot => BeginReserve' = 0 + 0
      BY <1>1, <2>2, LimitsFixed
         DEF SelectRelease, SelectIdle, BeginReserve, etvVars
    <3> QED
      BY <3>1, Bursts
  <2> QED
    BY <2>1, <2>2
<1>3. PICK r \in Nat : Reserve' = r /\ r <= Reserve
  <2>1. SendsLeft' = SendsLeft
    BY DEF SendsLeft, Resends, etvVars
  <2>2. CASE UNCHANGED streamAck
    <3>1. Reserve' = Reserve
      BY <1>1, <2>1, <2>2, LimitsFixed
         DEF Reserve, CreditThere, Announcing, Sending, BeginAcked, FrameAcked,
             AckMatches, etvVars
    <3> QED
      BY <1>1, <3>1
  <2>3. CASE SelectRelease
    <3>1. ~CreditThere'
      BY <2>3
         DEF SelectRelease, CreditThere, BeginAcked, FrameAcked, AckMatches,
             Announcing, Sending, etvVars, IInv, Inv, SeqInv
    <3>2. CASE etvState = "idle"
      <4>1. Reserve' = 0
        BY <1>1, <3>1, <3>2 DEF Reserve, Announcing, Sending, etvVars
      <4> QED
        BY <1>1, <4>1
    <3>3. CASE etvState # "idle" /\ CreditThere
      <4>1. /\ FrameBurst <= Reserve
        BY <1>1, <3>3, Bursts DEF Reserve
      <4>2. /\ SendsLeft * BeginWords \in Nat
            /\ SendsLeft * BeginWords <= BeginBurst
            /\ SendsLeft * FrameWords \in Nat
            /\ SendsLeft * FrameWords <= FrameBurst
        BY <3>3, Remaining DEF IInv, RoomInv
      <4>3. \/ Reserve' = SendsLeft * BeginWords
            \/ Reserve' = SendsLeft * FrameWords
        BY <1>1, <2>1, <3>1, <3>3 DEF Reserve, CreditThere, Announcing, Sending, etvVars
      <4> QED
        BY <1>1, <4>1, <4>2, <4>3, Bursts
    <3>4. CASE etvState # "idle" /\ ~CreditThere
      <4>1. Reserve' = Reserve
        BY <1>1, <2>1, <3>1, <3>4 DEF Reserve, Announcing, Sending, etvVars
      <4> QED
        BY <1>1, <4>1
    <3> QED
      BY <3>2, <3>3, <3>4
  <2> QED
    BY <2>2, <2>3 DEF WritePending, SelectIdle
<1> QED
  BY <1>1, <1>2, <1>3, RoomKept

LEMMA RoomStep == IInv /\ [Next]_vars => RoomInv'
<1> SUFFICES ASSUME IInv, [Next]_vars PROVE RoomInv'
  OBVIOUS
<1>1. TypeOK' /\ ClockInv'
  BY TypeStep, ClockStep DEF IInv
<1>2. CASE Tick
  BY <1>1, <1>2, TakeSnapshotRoom, SendRoom, CreditRoom, WaitRoom DEF Tick
<1>3. CASE Rp
  <2>1. CASE ServiceLoop /\ UNCHANGED etvVars
    BY <1>1, <2>1, DrainRoom, LoopRoom DEF ServiceLoop
  <2>2. CASE \E i \in 1 .. Len(ring) : Drain(i) /\ UNCHANGED etvVars
    BY <1>1, <2>2, DrainRoom DEF InRing
  <2>3. CASE Handle /\ UNCHANGED etvVars
    BY <1>1, <2>3, HandleRoom
  <2> QED
    BY <1>3, <2>1, <2>2, <2>3 DEF Rp
<1>4. CASE UNCHANGED vars
  <2>1. RoomInv
    BY DEF IInv
  <2> QED
    BY <1>4, <2>1, LimitsFixed
       DEF RoomInv, ClockInv, Reserve, BeginReserve, CreditThere, Announcing,
           Sending, BeginAcked, FrameAcked, AckMatches, SendsLeft, Resends,
           vars, rpVars, ringVars, loopVars, etvVars
<1> QED
  BY <1>1, <1>2, <1>3, <1>4, ReinstallRoom DEF Next

LEMMA InitRoom == Init => RoomInv
<1> SUFFICES ASSUME Init PROVE RoomInv
  OBVIOUS
<1>1. ClockInv
  BY DEF Init, ClockInv
<1>2. unread = 0 /\ Reserve = 0 /\ BeginReserve = 0 + 0
  BY DEF Init, ReceiverInit, Reserve, BeginReserve, CreditThere, Announcing, Sending
<1> QED
  BY <1>1, <1>2, LimitNat DEF RoomInv

-----------------------------------------------------------------------------
(* Every variable keeps its type and the handler's counters stay within    *)
(* the limits it compares them with (userfw.s, etv_wait_tick).             *)
THEOREM TypeCorrect == Spec => []TypeOK
<1>1. Init => TypeOK
  BY InitType
<1>2. TypeOK /\ [Next]_vars => TypeOK'
  BY TypeStep
<1> QED
  BY <1>1, <1>2, PTL DEF Spec

LEMMA InvStep == IInv /\ [Next]_vars => IInv'
<1> SUFFICES ASSUME IInv, [Next]_vars PROVE IInv'
  OBVIOUS
<1>1. TypeOK'
  BY TypeStep DEF IInv
<1>2. Inv'
  <2>1. CASE Tick
    BY <2>1, TakeSnapshotInv, SendBeginInv, BeginCreditInv, WaitInv,
       SendFrameInv, FrameCreditInv DEF Tick
  <2>2. CASE Rp
    <3>1. CASE ServiceLoop /\ UNCHANGED etvVars
      BY <3>1, DrainNothingInv, WritePendingInv, SelectReleaseInv, SelectIdleInv
         DEF ServiceLoop
    <3>2. CASE \E i \in 1 .. Len(ring) : Drain(i) /\ UNCHANGED etvVars
      BY <3>2, DrainInv DEF InRing
    <3>3. CASE Handle /\ UNCHANGED etvVars
      BY <3>3, HandleInv
    <3> QED
      BY <2>2, <3>1, <3>2, <3>3 DEF Rp
  <2> QED
    BY <2>1, <2>2, ReinstallInv, StutterInv DEF Next
<1>3. RoomInv'
  BY RoomStep
<1> QED
  BY <1>1, <1>2, <1>3 DEF IInv

(* The inductive invariant holds in every reachable state.                 *)
THEOREM Invariance == Spec => []IInv
<1>1. Init => IInv
  BY InitType, InitInv, InitRoom DEF IInv
<1> QED
  BY <1>1, InvStep, PTL DEF Spec

(* The ring is never lapped, provided it is longer than what one stay of   *)
(* the service loop in a PNG can leave in it.  With the code's 40 sends of *)
(* a command, 262 words a frame and 28 words a BEGIN, RingLimit is 13244   *)
(* words of a ring of 16384.                                               *)
THEOREM RingCorrect == RingLimit < RingWords => (Spec => []NoRingOverrun)
<1> SUFFICES ASSUME RingLimit < RingWords PROVE Spec => []NoRingOverrun
  OBVIOUS
<1>1. IInv => NoRingOverrun
  <2> SUFFICES ASSUME IInv PROVE NoRingOverrun
    OBVIOUS
  <2>1. /\ unread + Reserve + BeginReserve <= RingLimit /\ unread \in Nat
        /\ Reserve \in Nat /\ BeginReserve \in Nat
    BY Reserved DEF IInv, RoomInv, TypeOK, ReceiverTypeOK
  <2>2. RingWords \in Int /\ RingLimit \in Nat
    BY LimitNat, ReceiverAssumption
  <2> QED
    BY <2>1, <2>2 DEF NoRingOverrun
<1> QED
  BY <1>1, Invariance, PTL

(* The handler advances over frames only on credit that the receiver       *)
(* earned for this very snapshot, while the sequence has not wrapped.      *)
THEOREM CreditCorrect == Spec => []CreditEarned
<1>1. IInv => CreditEarned
  BY DEF IInv, Inv, ProgressInv, CreditEarned, Sending
<1> QED
  BY <1>1, Invariance, PTL

(* A capture that ends without a timeout was complete: at its last credit  *)
(* the receiver has every frame of the snapshot.                           *)
THEOREM CompleteCorrect == Spec => DoneMeansComplete
<1>1. IInv /\ [Next]_vars =>
        [FrameCredit /\ etvState' = "idle" =>
           meta = snap /\ streamFrameMask = Frame]_vars
  <2> SUFFICES ASSUME IInv, FrameCredit, etvState' = "idle"
               PROVE  meta = snap /\ streamFrameMask = Frame
    OBVIOUS
  <2>1. /\ meta = snap
        /\ etvFrame \in streamFrameMask
        /\ 0 .. etvFrame - 1 \subseteq streamFrameMask
        /\ streamFrameMask \subseteq Frame
        /\ etvFrame \in Nat
    BY DEF IInv, Inv, FrameCredit, FrameAcked, AckMatches, SeqInv, AckInv,
           ProgressInv, Sending, TypeOK, ReceiverTypeOK
  <2>2. etvFrame + 1 >= NumFrames
    BY DEF FrameCredit, LastFrame
  <2> QED
    <3>1. \A f \in Frame : f \in 0 .. etvFrame - 1 \/ f = etvFrame
      BY <2>1, <2>2, NumFramesPositive DEF Frame
    <3>2. Frame \subseteq streamFrameMask
      BY <2>1, <3>1
    <3> QED
      BY <2>1, <3>2
<1> QED
  BY <1>1, Invariance, PTL DEF Spec, DoneMeansComplete

-----------------------------------------------------------------------------
(* The refinement: a step of the service loop that writes a file is a Save *)
(* of CaptureLog, a release of SELECT is a Request, and every other step   *)
(* of the two programs leaves the log alone.                               *)

LEMMA SaveStep ==
  ASSUME IInv, WritePending
  PROVE  [Log!Next]_<<pressCount, shots>>
<1>1. CASE UNCHANGED shots
  BY <1>1 DEF WritePending
<1>2. CASE shots' = Append(shots, [meta |-> meta, data |-> source])
  <2>1. /\ source = [f \in Frame |-> meta]
        /\ meta \in 1 .. pressCount
        /\ \A i \in 1 .. Len(shots) : shots[i].meta <= meta /\ shots[i].meta # meta
    <3>1. readyFlag /\ beginReceived /\ streamFrameMask = Frame
      BY DEF WritePending, IInv, Inv, ScreenInv
    <3>2. source \in [Frame -> Snapshot] /\ meta \in Nat /\ pressCount \in Nat
      BY DEF IInv, TypeOK, ReceiverTypeOK, Snapshot
    <3> QED
      BY <3>1, <3>2 DEF IInv, Inv, ScreenInv, SeqInv
  <2>2. [meta |-> meta, data |-> source] = Log!WholeScreen(meta)
    BY <2>1 DEF Log!WholeScreen
  <2>3. \A i \in 1 .. Len(shots) : shots[i].meta < meta
    <3>1. meta \in Nat /\ shots \in Seq(Image)
      BY DEF IInv, TypeOK, ReceiverTypeOK, Snapshot
    <3>2. \A i \in 1 .. Len(shots) : shots[i] \in Image
      BY <3>1
    <3> QED
      BY <2>1, <3>1, <3>2 DEF Image, Snapshot
  <2>4. Log!Save(meta)
    BY <1>2, <2>2, <2>3 DEF Log!Save, WritePending
  <2> QED
    BY <2>1, <2>4 DEF Log!Next
<1> QED
  BY <1>1, <1>2 DEF WritePending

(* The files on the card are whole screens of single snapshots, at most    *)
(* one per press and in the order of the presses, whatever is lost,        *)
(* repeated, abandoned or reset (screenshot.c under the ETV hook).         *)
THEOREM LogCorrect == Spec => ImplementsLog
<1>1. Init => Log!Init
  BY DEF Init, ReceiverInit, Log!Init
<1>2. IInv /\ [Next]_vars => [Log!Next]_<<pressCount, shots>>
  <2> SUFFICES ASSUME IInv, [Next]_vars
               PROVE  [Log!Next]_<<pressCount, shots>>
    OBVIOUS
  <2>1. CASE WritePending
    BY <2>1, SaveStep
  <2>2. CASE SelectRelease
    BY <2>2 DEF SelectRelease, Log!Next, Log!Request
  <2>3. CASE UNCHANGED <<pressCount, shots>>
    BY <2>3
  <2>4. Tick \/ Reinstall => UNCHANGED <<pressCount, shots>>
    BY DEF Tick, TakeSnapshot, SendBegin, BeginCredit, BeginWait, SendFrame,
           FrameCredit, FrameWait, WaitTick, Reinstall, rpVars, loopVars
  <2>5. DrainNothing \/ SelectIdle \/ Handle \/ (\E i \in 1 .. Len(ring) : Drain(i))
          => UNCHANGED <<pressCount, shots>>
    BY DEF DrainNothing, SelectIdle, Handle, Drain
  <2> QED
    BY <2>1, <2>2, <2>3, <2>4, <2>5
       DEF Next, Rp, ServiceLoop, vars, rpVars, loopVars
<1> QED
  BY <1>1, <1>2, Invariance, PTL DEF Spec, ImplementsLog, Log!Spec
=============================================================================
