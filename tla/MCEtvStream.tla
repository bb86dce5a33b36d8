---------------------------- MODULE MCEtvStream -----------------------------
(***************************************************************************)
(* EtvStream under the timing of the two programs, for liveness: the       *)
(* service loop turns every 2 ms and the timer ticks every 5 ms, so between*)
(* two ticks the ring is drained, unless the loop is busy writing a PNG;   *)
(* and that takes well under the handler's abort limit of 4 s.  The ST is  *)
(* not reset.                                                              *)
(***************************************************************************)
EXTENDS EtvStream

CONSTANT StallTicks    \* bound: ticks without credit that one PNG explains

ASSUME StallAssumption ==
  StallTicks + RetryTicks * (MaxPresses + 1) <= AbortTicks

PromptTick ==
  /\ \/ loopPc # "write" /\ ring = << >>
     \/ loopPc = "write" /\ etvTimeout < StallTicks
  /\ Tick

PromptSpec ==
  Init /\ [][PromptTick \/ Rp]_vars /\ WF_vars(PromptTick) /\ WF_vars(Rp)

(* A snapshot, once taken, reaches the card writer whole, however often    *)
(* further presses take its credit away and commands wait behind a PNG.    *)
Delivered ==
  \A k \in 1 .. MaxPresses :
    (etvState = "sendBegin" /\ snap = k) ~> (loopPc = "write" /\ meta = k)

(* Every press of SELECT makes the hook take a snapshot, at the latest     *)
(* when the capture it is busy with has ended (README.md, "from then on,   *)
(* every press of SELECT grabs the screen").                               *)
EveryPressGrabs ==
  \A k \in 1 .. MaxPresses : (pressCount = k) ~> (snap >= k)

(* It does when the shared region held 0 in slot 3 at the start.           *)
FreshSlotGrabs == captureSlot = 0 => EveryPressGrabs
=============================================================================
