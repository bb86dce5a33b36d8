----------------------------- MODULE VblGrabber -----------------------------
(***************************************************************************)
(* The VBL grabber: the resident handler on the Atari's vertical blank     *)
(* vector (target/atarist/src/userfw.s, resident_start), which sends one   *)
(* command per tick over the synchronous transport                         *)
(* (inc/sidecart_functions.s, send_sync_write_command_to_sidecart).        *)
(*                                                                         *)
(* The transport reads SEED as the token of its request, writes the        *)
(* command into the ROM3 ring and spins until TOKEN equals that token and  *)
(* SEED no longer does, or until it has counted to COMMAND_WRITE_TIMEOUT.  *)
(* call_transport tries RES_RETRIES times and the handler moves on to the  *)
(* next command whatever came of it.                                       *)
(*                                                                         *)
(* Time: the service loop turns every 2 ms and the transport spins about a *)
(* third of a second, so a timeout needs a loop that is busy writing a PNG *)
(* and flashing the LED, or a command that was lost.  A session has a card *)
(* of some speed (maxStall: how many timeouts fall between the moment the  *)
(* loop turns to the PNG and its next answer) and a bus that never loses a *)
(* command, or one that may (clean).                                       *)
(***************************************************************************)
EXTENDS Receiver

CONSTANTS
  Retries,         \* RES_RETRIES: attempts of call_transport
  Stalls,          \* bounds: transport timeouts during one PNG write
  BeginWords,      \* ring words of a BEGIN command
  ChunkWords       \* ring words of a DATA command

ASSUME VblAssumption ==
  /\ Retries \in Nat \ {0}
  /\ Stalls \subseteq Nat
  /\ BeginWords \in Nat
  /\ ChunkWords \in Nat

VARIABLES
  token, seed,     \* RANDOM_TOKEN and RANDOM_TOKEN_SEED in the shared region
  resPrev,         \* res_prev
  resState,        \* res_state: 0 idle, 1 BEGIN, 2 + k chunk k
  snap,            \* the snapshot in the resident buffer
  spinning,        \* is the handler inside the transport's wait loop?
  request,         \* the token that loop waits for
  attempts,        \* attempts call_transport has left
  maxStall, clean, \* what kind of session this is
  patience,        \* timeouts that the current PNG write may still explain
  handled          \* history: the command the dispatcher handled last

tokenVars == <<token, seed>>
stVars == <<resPrev, resState, snap, spinning, request, attempts>>
session == <<maxStall, clean>>
vars == <<rpVars, tokenVars, stVars, session, patience, handled>>

(* The command of a resState.                                              *)
Command(state) ==
  [id |-> IF state = 1 THEN "BEGIN" ELSE "DATA",
   idx |-> IF state = 1 THEN 0 ELSE state - 2,
   snap |-> snap, token |-> seed, good |-> TRUE]
WordsOf(state) == IF state = 1 THEN BeginWords ELSE ChunkWords
SameCommand(c, d) == c.id = d.id /\ c.idx = d.idx /\ c.snap = d.snap

(* One run of send_sync_write_command_to_sidecart up to its wait loop.     *)
SendSync ==
  /\ request' = seed
  /\ Transmit(Command(resState), WordsOf(resState))
  /\ clean => ring'[Len(ring')].good

Acked == token = request /\ seed # request

(* The wait ends in a timeout: the loop is, or has just been, away, or the *)
(* command is gone.                                                        *)
TimesOut ==
  /\ spinning /\ ~Acked
  /\ \/ patience > 0 /\ patience' = patience - 1
     \/ ring = << >> /\ UNCHANGED patience

AdvanceTooFar ==                                                   \* a mutant
  /\ resState' = (resState + 1) % (NumChunks + 3)
  /\ spinning' = FALSE
Advance ==
  /\ resState' = (resState + 1) % (NumChunks + 2)
  /\ spinning' = FALSE

-----------------------------------------------------------------------------
TakeSnapshot ==
  /\ resState = 0
  /\ captureSlot # resPrev
  /\ resPrev' = captureSlot
  /\ snap' = pressCount
  /\ resState' = 1
  /\ UNCHANGED <<rpVars, tokenVars, spinning, request, attempts, patience,
                 session, handled>>

NoRetries == attempts' = 1                                         \* a mutant
FullAttempts == attempts' = Retries

FirstAttempt ==
  /\ resState # 0 /\ ~spinning
  /\ SendSync
  /\ FullAttempts
  /\ spinning' = TRUE
  /\ UNCHANGED <<loopVars, streamAck, receiverVars, tokenVars, resPrev,
                 resState, snap, patience, session, handled>>

AckSeen ==
  /\ spinning /\ Acked
  /\ Advance
  /\ UNCHANGED <<rpVars, tokenVars, resPrev, snap, request, attempts, patience,
                 session, handled>>

TimeoutRetry ==
  /\ TimesOut
  /\ attempts > 1
  /\ attempts' = attempts - 1
  /\ SendSync
  /\ UNCHANGED <<loopVars, streamAck, receiverVars, tokenVars, resPrev,
                 resState, snap, spinning, session, handled>>

(* call_transport returns without telling its caller that it failed.       *)
TimeoutGiveUp ==
  /\ TimesOut
  /\ attempts = 1
  /\ Advance
  /\ UNCHANGED <<rpVars, tokenVars, resPrev, snap, request, attempts, session,
                 handled>>

(* The ST is reset and boots into the installer again, see EtvStream.  The *)
(* boot takes longer than the RP is ever away from its ring.               *)
Reinstall ==
  /\ ring = << >>
  /\ resPrev' = captureSlot
  /\ resState' = 0
  /\ snap' = NoSnap
  /\ spinning' = FALSE
  /\ UNCHANGED <<rpVars, tokenVars, request, attempts, patience,
                 session, handled>>

-----------------------------------------------------------------------------
(* chandler_loop answers the one command it handled: TOKEN echoes the      *)
(* request, SEED becomes the count of commands.  A turn that found the     *)
(* ring empty, or that answered, ends the stall.                           *)
StartsWriting == loopPc' = "write"

Answer ==
  /\ Handle
  /\ token' = Head(ring).token
  /\ seed' = seed + 1
  /\ handled' = Head(ring)
  /\ patience' = IF StartsWriting THEN maxStall ELSE 0
  /\ UNCHANGED <<stVars, session>>

Turn ==
  /\ ServiceLoop
  /\ patience' = IF loopPc = "poll" THEN 0 ELSE patience
  /\ UNCHANGED <<tokenVars, stVars, session, handled>>

Take ==
  /\ \E i \in 1 .. Len(ring) : Drain(i)
  /\ UNCHANGED <<tokenVars, stVars, session, patience, handled>>

(* chandler_init leaves two different values in the token slots.           *)
Init ==
  /\ ReceiverInit
  /\ token = -1 /\ seed = 0
  /\ resPrev = captureSlot
  /\ resState = 0
  /\ snap = NoSnap
  /\ spinning = FALSE
  /\ request = 0
  /\ attempts = 0
  /\ maxStall \in Stalls
  /\ clean \in {TRUE, ~Lossy}
  /\ patience = 0
  /\ handled = [id |-> "BEGIN", idx |-> 0, snap |-> NoSnap, token |-> 0,
                good |-> FALSE]

Tick == TakeSnapshot \/ FirstAttempt \/ AckSeen \/ TimeoutRetry \/ TimeoutGiveUp

Rp == Turn \/ Take \/ Answer

Next == Tick \/ Rp \/ Reinstall

Spec == Init /\ [][Next]_vars

(* The handler keeps being called, and the RP keeps turning its loop.      *)
FairSpec == Spec /\ WF_vars(Tick) /\ WF_vars(Rp)

-----------------------------------------------------------------------------
BlockCommand ==
  [id : {"BEGIN", "DATA"}, idx : Chunk, snap : Snapshot, token : Nat,
   good : BOOLEAN]

(* Every variable has its type, and the attempts and the state index stay  *)
(* within what the handler's arithmetic can address.                       *)
TypeOK ==
  /\ ReceiverTypeOK
  /\ ring \in Seq(BlockCommand)
  /\ loopPc = "handle" => ring # << >>
  /\ token \in Int /\ seed \in Nat
  /\ resPrev \in 0 .. SeqMod - 1
  /\ resState \in 0 .. NumChunks + 1
  /\ snap \in Snapshot
  /\ spinning \in BOOLEAN
  /\ spinning => resState # 0
  /\ request \in Nat
  /\ attempts \in 0 .. Retries
  /\ maxStall \in Stalls /\ clean \in BOOLEAN
  /\ patience \in 0 .. maxStall
  /\ handled \in BlockCommand

(* An acknowledgement means the command arrived: when the transport        *)
(* reports success, the command the RP answered is the one it sent, and    *)
(* not an earlier one the handler had already given up on.                 *)
AckIdentifies ==
  [][AckSeen => SameCommand(handled, Command(resState))]_vars

(* The same for a card that is faster than the attempts of one command.    *)
Patient == maxStall < Retries
AckMeansReceived ==
  [][Patient /\ AckSeen => SameCommand(handled, Command(resState))]_vars

(* A session that loses no command, on a card whose stalls end before all  *)
(* the chunks of a snapshot but one could time out, keeps the promise of   *)
(* CaptureLog, however the ST is reset.  In a longer stall the BEGINs of   *)
(* two snapshots pile up in the ring; the first is handled, the second is  *)
(* dropped, and chunks of the second complete the first.                   *)
Calm == clean /\ maxStall < (NumChunks - 1) * Retries
CleanLog == INSTANCE CaptureLog WITH
  requested <- IF Calm THEN pressCount ELSE 0,
  saved     <- IF Calm THEN shots ELSE << >>
ImplementsCleanLog == CleanLog!Spec

(* A snapshot, once taken, reaches the card writer whole: unless the ST is *)
(* reset, the card outlasts the attempts or a command is lost.             *)
Delivered ==
  \A k \in 1 .. MaxPresses :
    (clean /\ Patient /\ resState = 1 /\ snap = k)
      ~> (loopPc = "write" /\ meta = k) \/ snap = NoSnap
=============================================================================
