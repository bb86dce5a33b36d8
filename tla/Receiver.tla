------------------------------ MODULE Receiver ------------------------------
(***************************************************************************)
(* The RP2040 side of a desktop screenshot: the screen receiver            *)
(* (rp/src/screenshot.c), the command dispatcher that feeds it             *)
(* (rp/src/chandler.c over rp/src/commemul.c) and the service loop of      *)
(* exitToDesktop (rp/src/emul.c) that runs both and watches SELECT.        *)
(*                                                                         *)
(* The loop is one cooperative thread; its stages are separate actions     *)
(* because the Atari keeps running, and keeps writing into the ring, while *)
(* the RP writes a PNG to the card or looks at the button.  The two        *)
(* grabbers that talk to this receiver are modules EtvStream and VblGrabber.*)
(*                                                                         *)
(* The screen is cut into the frames of the async stream; a chunk of the   *)
(* synchronous transfer covers FramesPerChunk of them.  A snapshot is      *)
(* named by the SELECT press it was taken after, so that a screen that     *)
(* mixes two snapshots can be told from a whole one.                       *)
(***************************************************************************)
EXTENDS Integers, Sequences

CONSTANTS
  NumChunks,       \* SHOT_NUM_CHUNKS: chunks of the synchronous transfer
  FramesPerChunk,  \* SHOT_CHUNK_SIZE / SHOT_STREAM_FRAME_SIZE
  SeqMod,          \* values of the 8-bit captureSeq
  RingWords,       \* COMM_RING_WORDS: 16-bit samples the DMA ring holds
  MaxPresses,      \* bound: SELECT presses explored
  Lossy            \* TRUE: a command may fail its checksum or its parse

ASSUME ReceiverAssumption ==
  /\ NumChunks \in Nat \ {0}
  /\ FramesPerChunk \in Nat \ {0}
  /\ SeqMod \in Nat \ {0}
  /\ RingWords \in Nat
  /\ MaxPresses \in Nat
  /\ Lossy \in BOOLEAN

NumFrames == NumChunks * FramesPerChunk
Chunk == 0 .. NumChunks - 1
Frame == 0 .. NumFrames - 1
FramesOf(chunk) == {f \in Frame : f \div FramesPerChunk = chunk}

NoSnap == 0          \* no snapshot: what the buffers hold before the first
Snapshot == Nat

(* A command as it lies in the ROM3 ring.  "good" is whether the parser    *)
(* will deliver it: a bad checksum or a read pause beyond                  *)
(* PROTOCOL_READ_RESTART_MICROSECONDS discards it.                         *)
CommandId == {"BEGIN", "DATA", "STREAM_BEGIN", "STREAM_DATA"}

VARIABLES
  ring,            \* commands written to ROM3 and not yet handled; at "handle"
                   \* the first is pendingProtocol, no longer in the DMA ring
  unread,          \* samples between commReadIdx and the DMA's write index
  loopPc,          \* stage of the service loop, see ReceiverTypeOK
  captureSlot,     \* shared variable 3: CAPTURE_SEQ as the Atari reads it
  captureSeq,      \* the loop's own counter
  streamAck,       \* shared variable 5: [seq, next]
  beginReceived, readyFlag, chunksMask, streamFrameMask, streamSeq,
  meta,            \* snapshot the palette and resolution came from
  source,          \* snapshot each frame of the screen buffer came from
  shots,           \* history: the PNG files written, in order
  pressCount       \* history: presses of SELECT seen

receiverVars == <<beginReceived, readyFlag, chunksMask, streamFrameMask,
                  streamSeq, meta, source>>
loopVars == <<loopPc, captureSlot, captureSeq, shots, pressCount>>
ringVars == <<ring, unread>>
rpVars == <<ringVars, loopVars, streamAck, receiverVars>>

(* What the Atari does to the receiver: its reads of ROM3 leave a command  *)
(* of so many samples in the ring.                                         *)
Outcome == IF Lossy THEN BOOLEAN ELSE {TRUE}
Transmit(command, words) ==
  /\ \E ok \in Outcome : ring' = Append(ring, [command EXCEPT !.good = ok])
  /\ unread' = unread + words

-----------------------------------------------------------------------------
(* The cases of screenshot_command_cb.                                     *)

KeepMasks == UNCHANGED <<chunksMask, streamFrameMask>>            \* a mutant
ClearMasks == chunksMask' = {} /\ streamFrameMask' = {}

FrameNew(c) ==                                                     \* a mutant
  beginReceived /\ c.seq = streamSeq /\ c.idx \in Frame \ streamFrameMask
FrameWanted(c) == beginReceived /\ c.seq = streamSeq /\ c.idx \in Frame

BitAlreadySet(c) == c.idx \in chunksMask /\ chunksMask = Chunk    \* a mutant
LastChunk(c) == chunksMask \union {c.idx} = Chunk

Begin(c) ==
  /\ c.id = "BEGIN"
  /\ meta' = c.snap
  /\ ClearMasks
  /\ beginReceived' = TRUE /\ readyFlag' = FALSE
  /\ UNCHANGED <<streamSeq, source, streamAck>>

Data(c) ==
  /\ c.id = "DATA"
  /\ IF beginReceived /\ c.idx \in Chunk
       THEN /\ source' = [f \in Frame |-> IF f \in FramesOf(c.idx)
                                            THEN c.snap ELSE source[f]]
            /\ chunksMask' = chunksMask \union {c.idx}
            /\ readyFlag' = (readyFlag \/ LastChunk(c))
       ELSE UNCHANGED <<source, chunksMask, readyFlag>>
  /\ UNCHANGED <<beginReceived, streamFrameMask, streamSeq, meta, streamAck>>

StreamBegin(c) ==
  /\ c.id = "STREAM_BEGIN"
  /\ streamSeq' = c.seq
  /\ meta' = c.snap
  /\ ClearMasks
  /\ beginReceived' = TRUE /\ readyFlag' = FALSE
  /\ streamAck' = [seq |-> c.seq, next |-> 0]
  /\ UNCHANGED source

StreamData(c) ==
  /\ c.id = "STREAM_DATA"
  /\ IF FrameWanted(c)
       THEN /\ source' = [source EXCEPT ![c.idx] = c.snap]
            /\ streamFrameMask' = streamFrameMask \union {c.idx}
            /\ streamAck' = [seq |-> c.seq, next |-> c.idx + 1]
            /\ readyFlag' = (readyFlag \/ streamFrameMask' = Frame)
       ELSE UNCHANGED <<source, streamFrameMask, streamAck, readyFlag>>
  /\ UNCHANGED <<beginReceived, chunksMask, streamSeq, meta>>

Receive(c) == Begin(c) \/ Data(c) \/ StreamBegin(c) \/ StreamData(c)

-----------------------------------------------------------------------------
(* chandler_loop.  The whole ring is drained before anything is handled,   *)
(* and handle_protocol_command keeps one command, pendingProtocol: the     *)
(* first that parses.  The others of the same drain are dropped.           *)

Accepted(i) == ring[i].good /\ \A j \in 1 .. i - 1 : ~ring[j].good

Drain(i) ==
  /\ loopPc = "poll"
  /\ Accepted(i)
  /\ ring' = <<ring[i]>>
  /\ unread' = 0
  /\ loopPc' = "handle"
  /\ UNCHANGED <<captureSlot, captureSeq, shots, pressCount, streamAck,
                 receiverVars>>

DrainNothing ==
  /\ loopPc = "poll"
  /\ \A i \in 1 .. Len(ring) : ~ring[i].good
  /\ ring' = << >> /\ unread' = 0
  /\ loopPc' = "select"
  /\ UNCHANGED <<captureSlot, captureSeq, shots, pressCount, streamAck,
                 receiverVars>>

Handle ==
  /\ loopPc = "handle"
  /\ Receive(Head(ring))
  /\ ring' = Tail(ring)
  /\ loopPc' = IF readyFlag' THEN "write" ELSE "select"
  /\ UNCHANGED <<unread, captureSlot, captureSeq, shots, pressCount>>

(* screenshot_writePending: the flags drop before the file is written, the *)
(* masks stay.  A card error loses the screen.                             *)
DropReady == readyFlag' = FALSE /\ UNCHANGED beginReceived         \* a mutant
DropFlags == readyFlag' = FALSE /\ beginReceived' = FALSE

WritePending ==
  /\ loopPc = "write"
  /\ DropFlags
  /\ \/ shots' = Append(shots, [meta |-> meta, data |-> source])
     \/ UNCHANGED shots
  /\ loopPc' = "select"
  /\ UNCHANGED <<ringVars, captureSlot, captureSeq, pressCount, streamAck,
                 chunksMask, streamFrameMask, streamSeq, meta, source>>

(* A mutant: the counter is published before it is incremented.            *)
SelectReleaseEarly ==
  /\ loopPc = "select"
  /\ pressCount < MaxPresses
  /\ captureSeq' = (captureSeq + 1) % SeqMod
  /\ streamAck' = [seq |-> 0, next |-> 0]
  /\ captureSlot' = captureSeq
  /\ pressCount' = pressCount + 1
  /\ loopPc' = "poll"
  /\ UNCHANGED <<ringVars, shots, receiverVars>>

(* The release of a short press publishes a capture request.               *)
SelectRelease ==
  /\ loopPc = "select"
  /\ pressCount < MaxPresses
  /\ captureSeq' = (captureSeq + 1) % SeqMod
  /\ streamAck' = [seq |-> 0, next |-> 0]
  /\ captureSlot' = captureSeq'
  /\ pressCount' = pressCount + 1
  /\ loopPc' = "poll"
  /\ UNCHANGED <<ringVars, shots, receiverVars>>

SelectIdle ==
  /\ loopPc = "select"
  /\ loopPc' = "poll"
  /\ UNCHANGED <<ringVars, captureSlot, captureSeq, shots, pressCount, streamAck,
                 receiverVars>>

(* screenshot_init, and the head of exitToDesktop.  Slot 3 is written for  *)
(* the first time by the first press: until then it holds what the RAM of  *)
(* the shared region held before.                                          *)
ReceiverInit ==
  /\ ring = << >> /\ unread = 0
  /\ loopPc = "poll"
  /\ captureSlot \in 0 .. SeqMod - 1
  /\ captureSeq = 0
  /\ streamAck = [seq |-> 0, next |-> 0]
  /\ beginReceived = FALSE /\ readyFlag = FALSE
  /\ chunksMask = {} /\ streamFrameMask = {}
  /\ streamSeq = 0
  /\ meta = NoSnap
  /\ source = [f \in Frame |-> NoSnap]
  /\ shots = << >>
  /\ pressCount = 0

ServiceLoop ==
  \/ DrainNothing \/ WritePending \/ SelectRelease \/ SelectIdle

-----------------------------------------------------------------------------
Image == [meta : Snapshot, data : [Frame -> Snapshot]]

(* The promise kept to the user, see CaptureLog.                           *)
Log == INSTANCE CaptureLog WITH requested <- pressCount, saved <- shots

(* The files on the card are whole screens of single snapshots, one per    *)
(* press at most, in the order of the presses, and are only ever added to. *)
(* BEGINs and frames may be lost, repeated or answered late, captures      *)
(* abandoned half way, and the ST reset in between.                        *)
ImplementsLog == Log!Spec

ReceiverTypeOK ==
  /\ unread \in Nat
  /\ loopPc \in {"poll", "handle", "write", "select"}
  /\ captureSlot \in 0 .. SeqMod - 1
  /\ captureSeq \in 0 .. SeqMod - 1
  /\ streamAck \in [seq : 0 .. SeqMod - 1, next : 0 .. NumFrames]
  /\ beginReceived \in BOOLEAN
  /\ readyFlag \in BOOLEAN
  /\ chunksMask \in SUBSET Chunk
  /\ streamFrameMask \in SUBSET Frame
  /\ streamSeq \in 0 .. SeqMod - 1
  /\ meta \in Snapshot
  /\ source \in [Frame -> Snapshot]
  /\ shots \in Seq(Image)
  /\ pressCount \in 0 .. MaxPresses

=============================================================================
