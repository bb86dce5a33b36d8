----------------------------- MODULE EtvStream ------------------------------
(***************************************************************************)
(* The ETV grabber: the resident handler on the Atari's 200 Hz timer       *)
(* vector (target/atarist/src/userfw.s, resident_etv_start) streaming a    *)
(* snapshot to the receiver of module Receiver.                            *)
(*                                                                         *)
(* The handler never waits.  Each tick it performs one step of a small     *)
(* state machine: it writes a command into the ROM3 ring and returns, or   *)
(* reads the credit in shared variable 5 and returns.  Missing credit is   *)
(* answered by a resend every RetryTicks ticks and by giving up after      *)
(* AbortTicks.  A tick is one action: the RP cannot disturb the handler,   *)
(* it only reads the ring and writes the two slots the handler samples.    *)
(***************************************************************************)
EXTENDS Receiver

CONSTANTS
  RetryTicks,      \* ETV_RETRY_TICKS
  AbortTicks,      \* ETV_ABORT_TICKS
  BeginWords,      \* ring words of a STREAM_BEGIN command
  FrameWords       \* ring words of a STREAM_DATA command

ASSUME EtvAssumption ==
  /\ RetryTicks \in Nat \ {0}
  /\ AbortTicks \in Nat \ {0}
  /\ BeginWords \in Nat
  /\ FrameWords \in Nat
  /\ BeginWords <= FrameWords

VARIABLES
  resPrev,         \* res_prev: last CAPTURE_SEQ acted upon
  etvState,        \* etv_state
  etvSeq, etvFrame, etvRetry, etvTimeout,
  snap             \* the snapshot in the resident buffer

etvVars == <<resPrev, etvState, etvSeq, etvFrame, etvRetry, etvTimeout, snap>>
vars == <<rpVars, etvVars>>

EtvState == {"idle", "sendBegin", "waitBegin", "sendFrame", "waitFrame"}

(* etv_ack_read: the credit counts only when its sequence is this one's.   *)
AckMatches == streamAck.seq = etvSeq
AnyZeroCredit == streamAck.next = 0                                \* a mutant
BeginAcked == AckMatches /\ streamAck.next = 0
OldCredit == AckMatches /\ streamAck.next >= etvFrame              \* a mutant
FrameAcked == AckMatches /\ streamAck.next >= etvFrame + 1

(* etv_wait_tick.                                                          *)
NeverGivesUp == FALSE                                              \* a mutant
GivesUp == etvTimeout + 1 >= AbortTicks
WaitTick(resendState) ==
  /\ etvTimeout' = etvTimeout + 1
  /\ \/ /\ GivesUp
        /\ etvState' = "idle"
        /\ UNCHANGED etvRetry
     \/ /\ ~GivesUp
        /\ etvRetry + 1 >= RetryTicks
        /\ etvRetry' = 0
        /\ etvState' = resendState
     \/ /\ ~GivesUp
        /\ etvRetry + 1 < RetryTicks
        /\ etvRetry' = etvRetry + 1
        /\ UNCHANGED etvState
  /\ UNCHANGED <<rpVars, resPrev, etvSeq, etvFrame, snap>>

(* chandler_loop handles a command as soon as it has drained the ring, long *)
(* before the next tick but one: of what is sent only one command can get  *)
(* in between.                                                             *)
InTime == loopPc = "handle" => Len(ring) = 1

-----------------------------------------------------------------------------
(* One tick of resident_etv_start, by the state it finds.                  *)

TakeSnapshot ==
  /\ etvState = "idle"
  /\ captureSlot # resPrev
  /\ resPrev' = captureSlot
  /\ etvSeq' = captureSlot
  /\ snap' = pressCount
  /\ etvFrame' = 0 /\ etvRetry' = 0 /\ etvTimeout' = 0
  /\ etvState' = "sendBegin"
  /\ UNCHANGED rpVars

(* A mutant: every BEGIN sent restarts the abort clock.                    *)
SendBeginRestarts ==
  /\ etvState = "sendBegin"
  /\ InTime
  /\ Transmit([id |-> "STREAM_BEGIN", seq |-> etvSeq, idx |-> 0,
               snap |-> snap, good |-> TRUE], BeginWords)
  /\ etvRetry' = 0 /\ etvTimeout' = 0
  /\ etvState' = "waitBegin"
  /\ UNCHANGED <<loopVars, streamAck, receiverVars,
                 resPrev, etvSeq, etvFrame, snap>>

SendBegin ==
  /\ etvState = "sendBegin"
  /\ InTime
  /\ Transmit([id |-> "STREAM_BEGIN", seq |-> etvSeq, idx |-> 0,
               snap |-> snap, good |-> TRUE], BeginWords)
  /\ etvRetry' = 0
  /\ etvState' = "waitBegin"
  /\ UNCHANGED <<loopVars, streamAck, receiverVars,
                 resPrev, etvSeq, etvFrame, etvTimeout, snap>>

BeginCredit ==
  /\ etvState = "waitBegin"
  /\ BeginAcked
  /\ etvFrame' = 0 /\ etvRetry' = 0 /\ etvTimeout' = 0
  /\ etvState' = "sendFrame"
  /\ UNCHANGED <<rpVars, resPrev, etvSeq, snap>>

BeginWait ==
  /\ etvState = "waitBegin"
  /\ ~BeginAcked
  /\ WaitTick("sendBegin")

SendFrame ==
  /\ etvState = "sendFrame"
  /\ InTime
  /\ Transmit([id |-> "STREAM_DATA", seq |-> etvSeq, idx |-> etvFrame,
               snap |-> snap, good |-> TRUE], FrameWords)
  /\ etvRetry' = 0
  /\ etvState' = "waitFrame"
  /\ UNCHANGED <<loopVars, streamAck, receiverVars,
                 resPrev, etvSeq, etvFrame, etvTimeout, snap>>

OffByOne == etvFrame + 1 > NumFrames                               \* a mutant
LastFrame == etvFrame + 1 >= NumFrames

FrameCredit ==
  /\ etvState = "waitFrame"
  /\ FrameAcked
  /\ etvFrame' = etvFrame + 1
  /\ etvRetry' = 0 /\ etvTimeout' = 0
  /\ etvState' = IF LastFrame THEN "idle" ELSE "sendFrame"
  /\ UNCHANGED <<rpVars, resPrev, etvSeq, snap>>

FrameWait ==
  /\ etvState = "waitFrame"
  /\ ~FrameAcked
  /\ WaitTick("sendFrame")

(* The ST is reset.  The RP does not notice: its sentinel still says       *)
(* BOOT_GEM, so the ST's boot runs the installer again, which copies a     *)
(* fresh resident block to RAM and seeds res_prev from slot 3.             *)
Reinstall ==
  /\ resPrev' = captureSlot
  /\ etvState' = "idle"
  /\ etvSeq' = 0 /\ etvFrame' = 0 /\ etvRetry' = 0 /\ etvTimeout' = 0
  /\ snap' = NoSnap
  /\ UNCHANGED rpVars

-----------------------------------------------------------------------------
Init ==
  /\ ReceiverInit
  /\ resPrev = captureSlot
  /\ etvState = "idle"
  /\ etvSeq = 0 /\ etvFrame = 0 /\ etvRetry = 0 /\ etvTimeout = 0
  /\ snap = NoSnap

Tick ==
  \/ TakeSnapshot
  \/ SendBegin \/ BeginCredit \/ BeginWait
  \/ SendFrame \/ FrameCredit \/ FrameWait

Rp ==
  \/ ServiceLoop /\ UNCHANGED etvVars
  \/ \E i \in 1 .. Len(ring) : Drain(i) /\ UNCHANGED etvVars
  \/ Handle /\ UNCHANGED etvVars

Next == Tick \/ Rp \/ Reinstall

Spec == Init /\ [][Next]_vars

(* The 200 Hz interrupt keeps coming and the service loop keeps turning.   *)
FairSpec == Spec /\ WF_vars(Tick) /\ WF_vars(Rp)

-----------------------------------------------------------------------------
StreamCommand ==
  [id : {"STREAM_BEGIN", "STREAM_DATA"}, seq : 0 .. SeqMod - 1, idx : Frame,
   snap : Snapshot, good : BOOLEAN]

(* Every variable has its type; the counters stay within the limits the    *)
(* handler compares them with.                                             *)
TypeOK ==
  /\ ReceiverTypeOK
  /\ ring \in Seq(StreamCommand)
  /\ loopPc = "handle" => ring # << >>
  /\ resPrev \in 0 .. SeqMod - 1
  /\ etvState \in EtvState
  /\ etvSeq \in 0 .. SeqMod - 1
  /\ etvFrame \in 0 .. NumFrames
  /\ etvState \in {"sendFrame", "waitFrame"} => etvFrame \in Frame
  /\ etvRetry \in 0 .. RetryTicks - 1
  /\ etvTimeout \in 0 .. AbortTicks
  /\ etvState # "idle" => etvTimeout < AbortTicks
  /\ snap \in Snapshot

(* The handler advances over frames only on credit the receiver earned for *)
(* this very snapshot: while it sends frame k, the receiver runs on this   *)
(* snapshot's metadata and holds all frames below k (userfw.s, "a frame is *)
(* sent only when the RP-published credit advances").                      *)
CreditEarned ==
  etvState \in {"sendFrame", "waitFrame"} =>
    /\ meta = snap
    /\ 0 .. etvFrame - 1 \subseteq streamFrameMask

(* When the handler counts its last frame as delivered and goes idle, the  *)
(* receiver has every frame of that snapshot: a capture that ended without *)
(* a timeout was complete.                                                 *)
DoneMeansComplete ==
  [][FrameCredit /\ etvState' = "idle" =>
       meta = snap /\ streamFrameMask = Frame]_vars

(* The DMA ring is never lapped: what the handler wrote since the last     *)
(* drain fits, however long the RP is busy with a PNG.  commemul_poll does *)
(* not detect an overrun.                                                  *)
NoRingOverrun == unread < RingWords

(* The hook always returns to idle, ready for the next press: every state  *)
(* of the handler either gets credit or runs into the abort limit.         *)
ReturnsToIdle == etvState # "idle" ~> etvState = "idle"

=============================================================================
