--------------------------------- MODULE Menu ---------------------------------
(***************************************************************************)
(* The menu on the Atari's screen, run by the RP: the loop of emul_start   *)
(* (rp/src/emul.c) with its key callback, the list of screenshots, the     *)
(* preview of the selected one (rp/src/preview_overlay.c), the countdown   *)
(* to the desktop and the SELECT button.                                   *)
(*                                                                         *)
(* A turn of the loop is a chain of blocks, one action each.  A key only   *)
(* leaves a request for the block it concerns.  Blocks change the list,    *)
(* the cursor or a mode, and each of them has to remember to repaint, to   *)
(* keep page and cursor together, and to drop a preview that is stale.     *)
(***************************************************************************)
EXTENDS Integers, Sequences

CONSTANTS
  PageRows,      \* MENU_PAGE_ROWS
  MaxShots,      \* MENU_MAX_SHOTS
  MaxFiles,      \* bound: files on the card
  ArmSecs,       \* SNAP_AUTOEXIT_ARM_DELAY_MS
  ExitSecs       \* SNAP_AUTOEXIT_SECONDS

ASSUME MenuAssumption ==
  /\ PageRows \in Nat \ {0} /\ MaxShots \in Nat \ {0}
  /\ MaxFiles \in Nat /\ ArmSecs \in Nat /\ ExitSecs \in Nat \ {0}

File == 1 .. MaxFiles
NoFile == 0
Rez == {"low", "high"}
Blocks == {"loop", "avail", "timer", "page", "selection", "hook", "preview",
           "select", "action"}
Key == {"help", "desktop", "booster", "hook", "preview", "up", "down", "left",
        "right", "other"}      \* "desktop" is ESC

VARIABLES
  pc,            \* the next block of the turn, or where the menu went
  folder,        \* the files of the folder, in directory order
  whole,         \* those that were written to their end
  next,          \* number of the next file
  shots,         \* shotNames
  selectedIndex, currentPage,
  req,           \* pageDelta, selectionDelta, the two toggle flags, menuAction
  help, helpTimed,         \* menuHelpVisible, helpToggleTimeValid
  hook,                    \* g_hookEtv
  rez,                     \* shared variable 6, the resolution of the Atari
  previewVisible, previewAvailable,
  overlay,                 \* the picture the Atari is told to show, or NoFile
  previewOverlay,          \* previewOverlayIndex, -1 unless previewOverlayActive
  autoExitStarted, autoExitActive, autoExitCancelled,
  clock,         \* seconds to the deadline: of arming, then of leaving
  selPressed,
  drawn,         \* what the last renderMenu drew
  touched        \* history: a key or SELECT was pressed

listVars == <<folder, whole, next, shots>>
helpVars == <<help, helpTimed>>
previewVars == <<previewVisible, previewAvailable>>
autoVars == <<autoExitStarted, autoExitActive, autoExitCancelled>>
screenVars == <<selectedIndex, currentPage, overlay, previewOverlay, drawn>>
vars == <<pc, listVars, req, helpVars, hook, rez, previewVars, autoVars, clock,
          selPressed, screenVars, touched>>

NoRequest == [page |-> 0, selection |-> 0, hook |-> FALSE, preview |-> FALSE,
              action |-> "none"]
Goto(block) == pc' = block

-----------------------------------------------------------------------------
Count(list) == Len(list)
Pages(list) == IF list = << >> THEN 1 ELSE (Count(list) + PageRows - 1) \div PageRows
Clamp(i, n) == IF i < 0 THEN 0 ELSE IF i >= n THEN n - 1 ELSE i
ClampIndex(i, list) == IF list = << >> THEN 0 ELSE Clamp(i, Count(list))
ClampPage(p, list) == IF list = << >> THEN 0 ELSE Clamp(p, Pages(list))
StayOnPage(i) == currentPage                                       \* a mutant
PageOf(i) == i \div PageRows

(* syncPreviewOverlay, with previewOverlay as its caller left it.          *)
PreviewWanted ==
  previewVisible /\ previewAvailable /\ ~help /\ shots # << >>
Selected == shots[selectedIndex + 1]
SyncPreview(shown) ==
  \/ /\ ~PreviewWanted'
     /\ overlay' = NoFile /\ previewOverlay' = -1
  \/ /\ PreviewWanted' /\ shown = selectedIndex'
     /\ previewOverlay' = shown /\ UNCHANGED overlay
  \/ /\ PreviewWanted' /\ shown # selectedIndex' /\ Selected' \in whole'
     /\ overlay' = Selected' /\ previewOverlay' = selectedIndex'
  \/ /\ PreviewWanted' /\ shown # selectedIndex' /\ Selected' \notin whole'
     /\ overlay' = NoFile /\ previewOverlay' = -1

(* renderMenu draws the menu as the block has left it.                     *)
Screen ==
  [page |-> currentPage, index |-> selectedIndex, list |-> shots, help |-> help,
   hook |-> hook, preview |-> previewAvailable, counting |-> autoExitActive]
Countdown == IF autoExitActive THEN clock ELSE -1    \* autoExitRenderedSeconds
Render(index, page, shown) ==
  /\ selectedIndex' = ClampIndex(index, shots')
  /\ currentPage' = ClampPage(page, shots')
  /\ drawn' = [secs |-> Countdown', screen |-> Screen']
  /\ SyncPreview(shown)
Repaint == Render(selectedIndex, currentPage, previewOverlay)
NeverRepaint(changed) == UNCHANGED screenVars                      \* a mutant
RepaintIf(changed) ==
  (changed /\ Repaint) \/ (~changed /\ UNCHANGED screenVars)

StillActive == previewOverlay                                      \* a mutant
Forgotten == -1

-----------------------------------------------------------------------------
(* chandler_loop and term_loop: one command at most is handled per turn.   *)
CancelIfActive ==                                                  \* a mutant
  /\ autoExitCancelled' = (autoExitCancelled \/ autoExitActive)
  /\ autoExitActive' = FALSE
  /\ UNCHANGED autoExitStarted
CancelCountdown ==
  /\ autoExitCancelled' = TRUE
  /\ autoExitActive' = FALSE
  /\ UNCHANGED autoExitStarted

Requested(k) ==
  [req EXCEPT
     !.page = IF k = "left" THEN -1 ELSE IF k = "right" THEN 1 ELSE @,
     !.selection = IF k = "up" THEN -1 ELSE IF k = "down" THEN 1 ELSE @,
     !.hook = @ \/ k = "hook",
     !.preview = @ \/ (k = "preview" /\ previewAvailable),
     !.action = IF k \in {"desktop", "booster"} THEN k ELSE @]

(* menuKeyCb.  Help within 350 ms of the last toggle is a bounce.          *)
Keystroke(k) ==
  /\ pc = "loop"
  /\ touched' = TRUE
  /\ CancelCountdown
  /\ \/ k = "help" /\ help' = ~help /\ helpTimed' = TRUE /\ UNCHANGED req
     \/ k = "help" /\ helpTimed /\ UNCHANGED <<helpVars, req>>
     \/ k # "help" /\ help' = FALSE /\ req' = Requested(k) /\ UNCHANGED helpTimed
  /\ UNCHANGED <<listVars, hook, rez, previewVars, clock, selPressed>>
  /\ RepaintIf(help' # help \/ autoExitActive)
  /\ Goto("avail")

SetRez(r) ==
  /\ pc = "loop"
  /\ rez' = r
  /\ Goto("avail")
  /\ UNCHANGED <<listVars, req, helpVars, hook, previewVars, autoVars, clock,
                 selPressed, screenVars, touched>>

Quiet ==
  /\ pc = "loop"
  /\ Goto("avail")
  /\ UNCHANGED <<listVars, req, helpVars, hook, rez, previewVars, autoVars,
                 clock, selPressed, screenVars, touched>>

(* updatePreviewAvailability, and the repaint when it changed.             *)
Availability ==
  /\ pc = "avail"
  /\ previewAvailable' = (rez # "high")
  /\ previewVisible' = (previewVisible /\ previewAvailable')
  /\ UNCHANGED <<listVars, req, helpVars, hook, rez, autoVars, clock, selPressed,
                 touched>>
  /\ RepaintIf(previewAvailable' # previewAvailable)
  /\ Goto("timer")

StartAgain == ~autoExitCancelled /\ clock = 0                      \* a mutant
MayStart == ~autoExitStarted /\ ~autoExitCancelled /\ clock = 0

StartCountdown ==
  /\ pc = "timer" /\ MayStart
  /\ autoExitStarted' = TRUE /\ autoExitActive' = TRUE
  /\ clock' = ExitSecs
  /\ UNCHANGED <<listVars, req, helpVars, hook, rez, previewVars,
                 autoExitCancelled, selPressed, touched>>
  /\ Repaint
  /\ Goto("page")

CountDown ==
  /\ pc = "timer" /\ ~MayStart
  /\ autoExitActive => clock > 0
  /\ UNCHANGED <<listVars, req, helpVars, hook, rez, previewVars, autoVars, clock,
                 selPressed, touched>>
  /\ RepaintIf(autoExitActive /\ clock # drawn.secs)
  /\ Goto("page")

Elapsed ==
  /\ pc = "timer" /\ ~MayStart /\ autoExitActive /\ clock = 0
  /\ autoExitActive' = FALSE
  /\ req' = [req EXCEPT !.action = "desktop"]
  /\ Goto("page")
  /\ UNCHANGED <<listVars, helpVars, hook, rez, previewVars, autoExitStarted,
                 autoExitCancelled, clock, selPressed, screenVars, touched>>

ChangePage ==
  /\ pc = "page"
  /\ req' = [req EXCEPT !.page = 0]
  /\ UNCHANGED <<listVars, helpVars, hook, rez, previewVars, autoVars, clock,
                 selPressed, touched>>
  /\ LET p == ClampPage(currentPage + req.page, shots)
     IN  \/ p # currentPage /\ Render(p * PageRows, p, Forgotten)
         \/ p = currentPage /\ UNCHANGED screenVars
  /\ Goto("selection")

MoveSelection ==
  /\ pc = "selection"
  /\ req' = [req EXCEPT !.selection = 0]
  /\ UNCHANGED <<listVars, helpVars, hook, rez, previewVars, autoVars, clock,
                 selPressed, touched>>
  /\ LET i == ClampIndex(selectedIndex + req.selection, shots)
     IN  \/ i # selectedIndex /\ Render(i, PageOf(i), Forgotten)
         \/ i = selectedIndex /\ UNCHANGED screenVars
  /\ Goto("hook")

ToggleHook ==
  /\ pc = "hook"
  /\ req' = [req EXCEPT !.hook = FALSE]
  /\ hook' = IF req.hook THEN (CHOOSE h \in {"VBL", "ETV"} : h # hook) ELSE hook
  /\ UNCHANGED <<listVars, helpVars, rez, previewVars, autoVars, clock, selPressed,
                 touched>>
  /\ RepaintIf(req.hook)
  /\ Goto("preview")

KeepIfHidden ==                                                    \* a mutant
  req' = [req EXCEPT !.preview = @ /\ ~previewAvailable]
ConsumePreview == req' = [req EXCEPT !.preview = FALSE]

TogglePreview ==
  /\ pc = "preview"
  /\ ConsumePreview
  /\ UNCHANGED <<listVars, helpVars, hook, rez, previewAvailable, autoVars, clock,
                 selPressed, touched>>
  /\ \/ /\ req.preview /\ previewAvailable
        /\ previewVisible' = ~previewVisible
        /\ Render(selectedIndex, currentPage, Forgotten)
     \/ /\ ~(req.preview /\ previewAvailable)
        /\ UNCHANGED <<previewVisible, screenVars>>
  /\ Goto("select")

(* SELECT, as the pin reads.                                               *)
Press ==
  /\ pc = "select" /\ ~selPressed
  /\ selPressed' = TRUE /\ touched' = TRUE
  /\ CancelCountdown
  /\ UNCHANGED <<listVars, req, helpVars, hook, rez, previewVars, clock>>
  /\ RepaintIf(autoExitActive)
  /\ Goto("action")

NoEdge ==
  /\ pc = "select"
  /\ Goto("action")
  /\ UNCHANGED <<listVars, req, helpVars, hook, rez, previewVars, autoVars, clock,
                 selPressed, screenVars, touched>>

LongPress ==
  /\ pc = "select" /\ selPressed
  /\ Goto("booster")
  /\ UNCHANGED <<listVars, req, helpVars, hook, rez, previewVars, autoVars, clock,
                 selPressed, screenVars, touched>>

InFolder(f) == \E i \in DOMAIN folder : folder[i] = f
CreateNext ==
  \/ InFolder(next) /\ UNCHANGED folder
  \/ ~InFolder(next) /\ folder' \in {Append(folder, next), <<next>> \o folder}

(* scanShots lists what fits, and what the card lets it read.              *)
ScanShots ==
  \E n \in 0 .. Count(folder') : n <= MaxShots /\ shots' = SubSeq(folder', 1, n)

ReleaseCaptures ==
  /\ pc = "select" /\ selPressed
  /\ next \in File
  /\ CreateNext
  /\ whole' = whole \union {next}
  /\ next' = next + 1
  /\ ScanShots
  /\ selPressed' = FALSE
  /\ UNCHANGED <<req, helpVars, hook, rez, previewVars, autoVars, clock, touched>>
  /\ Render(selectedIndex, currentPage, Forgotten)
  /\ Goto("action")

ReleaseFails ==
  /\ pc = "select" /\ selPressed
  /\ UNCHANGED folder \/ (next \in File /\ CreateNext)
  /\ selPressed' = FALSE
  /\ Goto("action")
  /\ UNCHANGED <<whole, next, shots, req, helpVars, hook, rez, previewVars,
                 autoVars, clock, screenVars, touched>>

Act ==
  /\ pc = "action"
  /\ Goto(IF req.action = "none" THEN "loop" ELSE req.action)
  /\ UNCHANGED <<listVars, req, helpVars, hook, rez, previewVars, autoVars, clock,
                 selPressed, screenVars, touched>>

(* Time passes at any point of a turn; a cancelled deadline is not read.   *)
Second ==
  /\ pc \in Blocks /\ clock > 0 /\ ~autoExitCancelled
  /\ clock' = clock - 1
  /\ UNCHANGED <<pc, listVars, req, helpVars, hook, rez, previewVars, autoVars,
                 selPressed, screenVars, touched>>

-----------------------------------------------------------------------------
(* A folder with any history, of which the menu has listed what fits.      *)
Init ==
  /\ pc = "loop"
  /\ \E n \in 0 .. MaxFiles :
       /\ folder \in {[i \in 1 .. n |-> i], [i \in 1 .. n |-> n + 1 - i]}
       /\ whole \in {1 .. n, 2 .. n}
       /\ next = n + 1
       /\ shots = SubSeq(folder, 1, IF n > MaxShots THEN MaxShots ELSE n)
  /\ selectedIndex = 0 /\ currentPage = 0
  /\ req = NoRequest
  /\ help = FALSE /\ helpTimed = FALSE
  /\ hook \in {"VBL", "ETV"}
  /\ rez \in Rez
  /\ previewVisible = FALSE /\ previewAvailable = TRUE
  /\ overlay = NoFile
  /\ previewOverlay = -1
  /\ autoExitStarted = FALSE /\ autoExitActive = FALSE
  /\ autoExitCancelled = FALSE
  /\ clock = ArmSecs
  /\ selPressed \in BOOLEAN
  /\ drawn = [secs |-> Countdown, screen |-> Screen]
  /\ touched = FALSE

Turn ==
  \/ \E k \in Key : Keystroke(k)
  \/ \E r \in Rez : SetRez(r)
  \/ Quiet \/ Availability
  \/ StartCountdown \/ CountDown \/ Elapsed
  \/ ChangePage \/ MoveSelection \/ ToggleHook \/ TogglePreview
  \/ Press \/ NoEdge \/ LongPress \/ ReleaseCaptures \/ ReleaseFails
  \/ Act

Next == Turn \/ Second

(* The loop turns and time passes.                                         *)
Spec == Init /\ [][Next]_vars /\ WF_vars(Turn) /\ WF_vars(Second)

-----------------------------------------------------------------------------
AtTurn == pc = "loop"

(* Every variable has its type, and no request outlives its turn: a key    *)
(* acts when it is pressed, or not at all.                                 *)
TypeOK ==
  /\ pc \in Blocks \union {"desktop", "booster"}
  /\ \A i \in DOMAIN folder : folder[i] \in File
  /\ whole \subseteq File /\ next \in 1 .. MaxFiles + 1
  /\ Count(shots) <= MaxShots
  /\ AtTurn => req = NoRequest
  /\ clock \in 0 .. ArmSecs + ExitSecs
  /\ previewOverlay \in -1 .. MaxShots - 1
  /\ overlay \in {NoFile} \union File

(* The highlighted screenshot is in the list, and on the page shown:       *)
(* whatever the list has become and whichever way the cursor moved.        *)
SelectionShown ==
  AtTurn =>
    /\ shots # << >> => selectedIndex \in 0 .. Count(shots) - 1
    /\ selectedIndex - currentPage * PageRows \in 0 .. PageRows - 1

(* The screen shows the present page, list, mode, hook and countdown: no   *)
(* block of the loop changes one of them and leaves the old one drawn.     *)
ScreenCurrent == AtTurn => drawn.screen = Screen

(* The picture over the menu is the selected screenshot, and it is there   *)
(* whenever the preview is on and the file can be read; a file cut short,  *)
(* the help page, an empty list and a monochrome Atari show none.          *)
PreviewMatches ==
  AtTurn => overlay = IF PreviewWanted /\ Selected \in whole THEN Selected
                                                              ELSE NoFile

(* Once a key or SELECT was pressed, the countdown no longer takes the menu *)
(* away.  A press in the turn in which it has just run out is too late.    *)
NoSurpriseExit == [][Elapsed => ~touched]_vars

(* A menu that nobody touches goes to the desktop (or to the Booster, if   *)
(* SELECT is held since before the menu).                                  *)
LeavesByItself == <>(touched \/ pc \in {"desktop", "booster"})
===============================================================================
