------------------------------ MODULE MenuLink ------------------------------
(***************************************************************************)
(* The wire between the menu on the RP and the print loop of the Atari     *)
(* (target/atarist/src/main.s): keys go one way as commands, frames come   *)
(* back through the shared region.                                         *)
(*                                                                         *)
(* A command is a run of words on the bus: header, id, size, token,        *)
(* parameters, checksum.  The DMA puts each into a ring; once per turn,    *)
(* every 50 ms, chandler_loop parses what is there (tprotocol.h), keeps    *)
(* the first command it finds, has it handled and answers its token.  A    *)
(* turn that comes while words are still being sent splits the command,    *)
(* and the read restart (10 ms) makes the next turn drop the first half.   *)
(*                                                                         *)
(* The Atari waits for the answer to each attempt for about 0.4 s.  Any    *)
(* turn may take longer (reading a preview, saving a setting, writing a    *)
(* file), and by any number of timeouts.                                   *)
(*                                                                         *)
(* The Atari has just booted; the RP may have run for long.  A checksum    *)
(* that matches by chance is left out: its word carries the words it was   *)
(* computed from.                                                          *)
(***************************************************************************)
EXTENDS Integers, Sequences

CONSTANTS
  Attempts,      \* CMD_RETRIES_COUNT + 1
  Header,        \* PROTOCOL_HEADER
  Seeds,         \* commands the RP has answered before the Atari boots
  Frames,        \* frames it has published by then
  MaxSplits,     \* bound: splits per command
  MaxStalls,     \* bound: timeouts that fall into long turns, in all
  MaxKeys,       \* bound: keys typed
  MaxRenders     \* bound: frames rendered

ASSUME LinkAssumption ==
  /\ Attempts \in Nat \ {0} /\ Header \in Nat
  /\ Seeds \subseteq Nat /\ Frames \subseteq 0 .. 255
  /\ MaxSplits \in Nat /\ MaxKeys \in Nat
  /\ MaxStalls \in Nat /\ MaxRenders \in Nat

(* Both commands have number 1; they differ in the size of their payload.  *)
CommandId == 1
MenuRez == 6            \* the shared variable of the resolution
Rez == {0, 2}
Key == 1 .. MaxKeys
Sent == 0 .. MaxKeys    \* what the Atari sends: the resolution, then the keys
None == << >>

VARIABLES
  rpPc,          \* where the loop of the menu is
  ring,          \* words on their way to the parser
  pending,       \* pendingProtocol: the payload to handle, or None
  slot,          \* the payload published by term_command_cb, or None
  rezVar,        \* shared variable 6
  token, seed,   \* RANDOM_TOKEN, RANDOM_TOKEN_SEED
  text, overlay, \* the frame buffer and the preview block, by frame number
  frame,         \* MENU_FRAME_SEQ
  stPc,          \* where the print loop is
  screenRez,     \* the resolution of the Atari
  payload,       \* the parameters of the command being sent
  out,           \* words of it not sent yet
  request, attempts,       \* its token, and what d7 counts down
  menuDrawSeq,
  screen,        \* what is on the screen: text and picture
  polled,        \* has a turn begun since the attempt was sent?
  splits,        \* splits of the command so far
  typed, acted,  \* history: keys typed, and the one acted upon last
  times,         \* history: how often each key acted
  late, stalls,  \* history: timeouts in long turns, by command and in all
  renders

loopVars == <<rpPc, pending, slot, rezVar>>
tokenVars == <<token, seed>>
frameVars == <<text, overlay, frame, renders>>
sendVars == <<payload, out, request, attempts>>
drawVars == <<menuDrawSeq, screen>>
historyVars == <<typed, acted, times, late, stalls>>
tryVars == <<polled, splits>>
vars == <<loopVars, ring, tokenVars, frameVars, stPc, screenRez, sendVars,
          drawVars, tryVars, historyVars>>

-----------------------------------------------------------------------------
(* Words.  A 32-bit parameter is one; the checksum covers all but the      *)
(* header.                                                                 *)
Word(n) == [v |-> n, sum |-> << >>]
Checksum(body) ==
  LET total[i \in 0 .. Len(body)] ==
        IF i = 0 THEN 0 ELSE total[i - 1] + body[i].v
  IN  [v |-> total[Len(body)], sum |-> body]
Body(parameters) ==
  <<Word(CommandId), Word(Len(parameters))>>
    \o [i \in DOMAIN parameters |-> Word(parameters[i])]
Encode(parameters) ==
  <<Word(Header)>> \o Body(parameters) \o <<Checksum(Body(parameters))>>
Parameters(body) == [i \in 1 .. Len(body) - 2 |-> body[i + 2].v]

(* tprotocol_parse: it scans for a header, collects id, size and as many   *)
(* words as the size says, and compares the next one with the checksum.    *)
Scanning == [found |-> FALSE, body |-> << >>, kept |-> None]
Complete(body) == Len(body) >= 2 /\ Len(body) - 2 >= body[2].v
AnySum(w, body) == TRUE                                            \* a mutant
SumMatches(w, body) == w.sum = body

(* handle_protocol_command keeps the first command of a turn.              *)
Keep(p) == IF p.kept = None THEN Parameters(p.body) ELSE p.kept
Parse(p, w) ==
  IF ~p.found THEN [p EXCEPT !.found = (w.v = Header)]
  ELSE IF ~Complete(p.body) THEN [p EXCEPT !.body = Append(@, w)]
  ELSE [Scanning EXCEPT !.kept = IF SumMatches(w, p.body) THEN Keep(p) ELSE p.kept]

ParseAll(words) ==
  LET after[i \in 0 .. Len(words)] ==
        IF i = 0 THEN Scanning
        ELSE CHOOSE q \in {Parse(p, words[i]) : p \in {after[i - 1]}} : TRUE
  IN  after[Len(words)]

-----------------------------------------------------------------------------
(* The turn of the menu loop.                                              *)

(* commemul_poll drains the ring.  The words of a half-sent command that   *)
(* are there are parsed now, and the rest by a parser that has restarted.  *)
Poll ==
  /\ rpPc = "poll"
  /\ pending' = ParseAll(ring).kept
  /\ ring' = << >>
  /\ polled' = (stPc = "wait")
  /\ rpPc' = IF pending' = None THEN "term" ELSE "handle"
  /\ UNCHANGED <<slot, rezVar, tokenVars, frameVars, stPc, screenRez, sendVars,
                 drawVars, splits, historyVars>>

(* Both commands have the number 1; a shared variable has two parameters.  *)
AnySize(p) == TRUE                                                 \* a mutant
IsSharedVar(p) == Len(p) = 3

TermFirst == "render"                                              \* a mutant
AfterHandling == "term"

Handle ==
  /\ rpPc = "handle"
  /\ \/ /\ IsSharedVar(pending)
        /\ rezVar' = IF pending[2] = MenuRez THEN pending[3] ELSE rezVar
        /\ UNCHANGED slot
     \/ /\ ~IsSharedVar(pending)
        /\ slot' = pending
        /\ UNCHANGED rezVar
  /\ token' = pending[1] /\ seed' = seed + 1
  /\ pending' = None
  /\ rpPc' = AfterHandling
  /\ UNCHANGED <<ring, frameVars, stPc, screenRez, sendVars, drawVars, tryVars,
                 historyVars>>

(* term_loop, and menuKeyCb behind it.                                     *)
KeepReady == UNCHANGED slot                                        \* a mutant
ClearReady == slot' = None

TermLoop ==
  /\ rpPc = "term"
  /\ \/ /\ slot # None
        /\ acted' = slot[2]
        /\ times' = [k \in Key |-> IF k = acted' THEN times[k] + 1 ELSE times[k]]
        /\ ClearReady
     \/ slot = None /\ UNCHANGED <<slot, acted, times>>
  /\ rpPc' = "render"
  /\ UNCHANGED <<ring, pending, rezVar, tokenVars, frameVars, stPc, screenRez,
                 sendVars, drawVars, tryVars, typed, late, stalls>>

NothingToRender ==
  /\ rpPc = "render"
  /\ rpPc' = "poll"
  /\ UNCHANGED <<ring, pending, slot, rezVar, tokenVars, frameVars, stPc,
                 screenRez, sendVars, drawVars, tryVars, historyVars>>

(* renderMenu: display_refresh, syncPreviewOverlay, publishMenuFrame.      *)
Refresh ==
  /\ rpPc = "render" /\ renders < MaxRenders
  /\ renders' = renders + 1
  /\ text' = renders'
  /\ rpPc' = "overlay"
  /\ UNCHANGED <<ring, pending, slot, rezVar, tokenVars, overlay, frame, stPc,
                 screenRez, sendVars, drawVars, tryVars, historyVars>>

SyncOverlay ==
  /\ rpPc = "overlay"
  /\ overlay' = text
  /\ UNCHANGED frame
  /\ rpPc' = "publish"
  /\ UNCHANGED <<ring, pending, slot, rezVar, tokenVars, text, renders, stPc,
                 screenRez, sendVars, drawVars, tryVars, historyVars>>

PublishFrame ==
  /\ rpPc = "publish"
  /\ frame' = (frame + 1) % 256
  /\ rpPc' = "poll"
  /\ UNCHANGED <<ring, pending, slot, rezVar, tokenVars, text, overlay, renders,
                 stPc, screenRez, sendVars, drawVars, tryVars, historyVars>>

-----------------------------------------------------------------------------
(* The print loop.                                                         *)

(* One attempt of send_sync_command_to_sidecart.                           *)
Attempt(parameters) ==
  /\ request' = seed
  /\ out' = Encode(<<seed>> \o parameters)
  /\ polled' = FALSE
  /\ stPc' = "send"
OneTry == 1                                                        \* a mutant
Tries == Attempts
First(parameters) ==
  /\ payload' = parameters
  /\ attempts' = Tries
  /\ splits' = 0
  /\ Attempt(parameters)

SendRez ==
  /\ stPc = "boot"
  /\ First(<<MenuRez, screenRez>>)
  /\ UNCHANGED <<loopVars, ring, tokenVars, frameVars, screenRez, drawVars,
                 historyVars>>

(* check_keys.                                                             *)
SendKey ==
  /\ stPc = "keys" /\ typed < MaxKeys
  /\ typed' = typed + 1
  /\ First(<<typed'>>)
  /\ UNCHANGED <<loopVars, ring, tokenVars, frameVars, screenRez, drawVars,
                 acted, times, late, stalls>>

NoKey ==
  /\ stPc = "keys"
  /\ stPc' = "vsync"
  /\ UNCHANGED <<loopVars, ring, tokenVars, frameVars, screenRez, sendVars,
                 drawVars, tryVars, historyVars>>

(* The words reach the ring one by one.  Only where a turn finds some of   *)
(* them matters, so they go in runs.                                       *)
SendSome ==
  /\ stPc = "send" /\ splits < MaxSplits
  /\ \E n \in 1 .. Len(out) - 1 :
       /\ ring' = ring \o SubSeq(out, 1, n)
       /\ out' = SubSeq(out, n + 1, Len(out))
  /\ splits' = splits + 1
  /\ UNCHANGED <<loopVars, tokenVars, frameVars, stPc, screenRez, payload,
                 request, attempts, drawVars, polled,
                 historyVars>>

SendRest ==
  /\ stPc = "send"
  /\ ring' = ring \o out /\ out' = << >>
  /\ stPc' = "wait"
  /\ UNCHANGED <<loopVars, tokenVars, frameVars, screenRez, payload, request,
                 attempts, drawVars, tryVars, historyVars>>

Acked == token = request /\ seed # request

AckSeen ==
  /\ stPc = "wait" /\ Acked
  /\ stPc' = "vsync"
  /\ UNCHANGED <<loopVars, ring, tokenVars, frameVars, screenRez, sendVars,
                 drawVars, tryVars, historyVars>>

(* The loop is away in a long turn, or it has turned and the command was   *)
(* not in the ring, or not to be read there.  A timeout of the first kind  *)
(* is counted: the properties say how many of them a command survives.     *)
TimesOut ==
  /\ stPc = "wait" /\ ~Acked
  /\ \/ stalls < MaxStalls /\ stalls' = stalls + 1
        /\ late' = [late EXCEPT ![typed] = @ + 1]
     \/ polled /\ rpPc # "handle" /\ UNCHANGED <<late, stalls>>

TimeoutRetry ==
  /\ TimesOut
  /\ attempts > 1
  /\ attempts' = attempts - 1
  /\ Attempt(payload)
  /\ UNCHANGED <<loopVars, ring, tokenVars, frameVars, screenRez, payload,
                 drawVars, splits, typed, acted, times>>

TimeoutGiveUp ==
  /\ TimesOut
  /\ attempts = 1
  /\ stPc' = "vsync"
  /\ UNCHANGED <<loopVars, ring, tokenVars, frameVars, screenRez, sendVars,
                 drawVars, tryVars, typed, acted, times>>

(* The loop redraws when the frame number has changed, which it notes      *)
(* before it copies.                                                       *)
SameFrame ==
  /\ stPc = "vsync" /\ frame = menuDrawSeq
  /\ stPc' = "keys"
  /\ UNCHANGED <<loopVars, ring, tokenVars, frameVars, screenRez, sendVars,
                 drawVars, tryVars, historyVars>>

NoteFrame ==
  /\ stPc = "vsync" /\ frame # menuDrawSeq
  /\ menuDrawSeq' = frame
  /\ stPc' = "text"
  /\ UNCHANGED <<loopVars, ring, tokenVars, frameVars, screenRez, sendVars,
                 screen, tryVars, historyVars>>

(* A monochrome screen has no picture.                                     *)
CopyText ==
  /\ stPc = "text"
  /\ screen' = [screen EXCEPT !.text = text]
  /\ stPc' = IF screenRez = 2 THEN "keys" ELSE "picture"
  /\ UNCHANGED <<loopVars, ring, tokenVars, frameVars, screenRez, sendVars,
                 menuDrawSeq, tryVars, historyVars>>

NoteAfterwards ==                                                  \* a mutant
  /\ stPc = "picture"
  /\ screen' = [screen EXCEPT !.picture = overlay]
  /\ menuDrawSeq' = frame
  /\ stPc' = "keys"
  /\ UNCHANGED <<loopVars, ring, tokenVars, frameVars, screenRez, sendVars,
                 tryVars, historyVars>>
CopyPicture ==
  /\ stPc = "picture"
  /\ screen' = [screen EXCEPT !.picture = overlay]
  /\ stPc' = "keys"
  /\ UNCHANGED <<loopVars, ring, tokenVars, frameVars, screenRez, sendVars,
                 menuDrawSeq, tryVars, historyVars>>

-----------------------------------------------------------------------------
Init ==
  /\ rpPc = "poll" /\ ring = << >> /\ pending = None /\ slot = None
  /\ rezVar \in Rez
  /\ token = -1 /\ seed \in Seeds
  /\ text = 0 /\ overlay = 0 /\ frame \in Frames
  /\ stPc = "boot" /\ screenRez \in Rez
  /\ payload = << >> /\ out = << >> /\ request = -1 /\ attempts = 0
  /\ menuDrawSeq = 255 /\ screen = [text |-> -1, picture |-> -1]
  /\ polled = FALSE /\ splits = 0
  /\ typed = 0 /\ acted = 0
  /\ times = [k \in Key |-> 0] /\ late = [c \in Sent |-> 0] /\ stalls = 0
  /\ renders = 0

Rp == Poll \/ Handle \/ TermLoop \/ NothingToRender \/ Refresh \/ SyncOverlay
        \/ PublishFrame
St == SendRez \/ SendKey \/ NoKey \/ SendSome \/ SendRest \/ AckSeen \/ TimeoutRetry
        \/ TimeoutGiveUp \/ SameFrame \/ NoteFrame \/ CopyText \/ CopyPicture
Next == Rp \/ St

(* Both loops turn.                                                        *)
Spec == Init /\ [][Next]_vars /\ WF_vars(Rp) /\ WF_vars(St)

-----------------------------------------------------------------------------
(* Every variable has its type; at most one command is between the parser  *)
(* and the menu, so the one slot of the terminal (term.c:154) never loses  *)
(* a key that was answered.                                                *)
TypeOK ==
  /\ pending = None \/ Len(pending) \in {2, 3}
  /\ slot = None \/ slot[2] \in Key
  /\ pending = None \/ slot = None
  /\ rezVar \in Rez /\ frame \in 0 .. 255 /\ menuDrawSeq \in 0 .. 255
  /\ attempts \in 0 .. Attempts
  /\ acted \in 0 .. typed /\ typed \in 0 .. MaxKeys
  /\ (stPc = "send") = (out # << >>)

(* The menu acts on the keys that were typed, in their order, whatever is  *)
(* split, repeated, dropped or taken for a header on the way.              *)
Keys == INSTANCE KeyLog
ImplementsKeyLog == Keys!Spec

(* A key acts twice only when the loop was away long enough for a timeout. *)
ActsOnce == \A k \in Key : times[k] <= 1 + late[k]

(* An Atari whose print loop runs has told the menu its resolution         *)
(* (main.s:275-284), even when the command was split or looked like two,   *)
(* unless long turns took all but a few of its attempts: each split costs  *)
(* one attempt, that is swallowed behind the tail, and no more.            *)
RezKnown ==
  late[0] + MaxSplits < Attempts /\ stPc \in {"vsync", "text", "picture", "keys"}
    => rezVar = screenRez

(* A key that is typed is acted upon: the retries of send_sync make up for *)
(* what the parser drops.  It costs an attempt to split the key, one more  *)
(* when the ring begins with what is left of the command before, and the   *)
(* last has to be answered: when it is given up it stays in the ring, and  *)
(* its token, which is the seed again, answers for the key that follows.   *)
(* The rest may fall into long turns, counting those of the command before.*)
Stalled(k) == late[k - 1] + late[k] + MaxSplits + 2 > Attempts
KeysArrive == \A k \in Key : (typed = k) ~> (times[k] > 0 \/ Stalled(k))

(* The frame number is a byte and the print loop starts from $ff: when the *)
(* first frame it meets has number 255 it draws nothing before the next.   *)
Unnoticed == frame = 255 /\ menuDrawSeq = 255 /\ screen.text = -1

(* But for that one, the last frame the menu rendered comes to stand on    *)
(* the screen, text and picture, although it is copied while the RP goes   *)
(* on rendering.                                                           *)
ShowsLatest ==
  <>[]( \/ Unnoticed
        \/ screen.text = text /\ (screenRez = 2 \/ screen.picture = overlay))
=============================================================================
