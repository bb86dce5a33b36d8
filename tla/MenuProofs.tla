----------------------------- MODULE MenuProofs -----------------------------
(***************************************************************************)
(* Proofs about Menu, for any length of the list and of its pages and any  *)
(* number of files.                                                        *)
(***************************************************************************)
EXTENDS Menu, TLAPS

MenuTyped ==
  /\ pc \in Blocks \union {"desktop", "booster"}
  /\ folder \in Seq(File) /\ shots \in Seq(File) /\ Len(shots) <= MaxShots
  /\ whole \subseteq File /\ next \in 1 .. MaxFiles + 1
  /\ req \in [page : -1 .. 1, selection : -1 .. 1, hook : BOOLEAN,
              preview : BOOLEAN, action : {"none", "desktop", "booster"}]
  /\ clock \in 0 .. ArmSecs + ExitSecs /\ autoExitActive \in BOOLEAN

(* A block clears its request, and the turn ends with none.                *)
RequestInv ==
  /\ pc \in {"selection", "hook", "preview", "select", "action", "loop"} => req.page = 0
  /\ pc \in {"hook", "preview", "select", "action", "loop"} => req.selection = 0
  /\ pc \in {"preview", "select", "action", "loop"} => ~req.hook
  /\ pc \in {"select", "action", "loop"} => ~req.preview
  /\ pc = "loop" => req.action = "none"

(* The selection is in the list and on the page, at every block.           *)
OnPage(i, p) == p * PageRows <= i /\ i < p * PageRows + PageRows
RangeInv ==
  /\ selectedIndex \in Nat /\ currentPage \in Nat
  /\ OnPage(selectedIndex, currentPage)
  /\ shots # << >> => selectedIndex < Len(shots)
  /\ shots = << >> => selectedIndex = 0 /\ currentPage = 0

(* What is drawn is current, but for the countdown of a menu that leaves.  *)
DrawnInv == req.action = "none" => drawn.screen = Screen

(* The picture and the index kept for it agree with the mode.              *)
Visible == PreviewWanted /\ Selected \in whole
PreviewInv ==
  /\ previewVisible => previewAvailable
  /\ overlay = IF Visible THEN Selected ELSE NoFile
  /\ previewOverlay = IF Visible THEN selectedIndex ELSE -1

(* A touch stops the countdown for good.                                   *)
TouchInv == (touched => autoExitCancelled) /\ (autoExitCancelled => ~autoExitActive)

MenuInv ==
  MenuTyped /\ RequestInv /\ RangeInv /\ DrawnInv /\ PreviewInv /\ TouchInv

-----------------------------------------------------------------------------
(* Pages.                                                                  *)
LEMMA Division ==
  ASSUME NEW a \in Nat
  PROVE  /\ a \div PageRows \in Nat
         /\ OnPage(a, a \div PageRows)
BY MenuAssumption, SMTT(30) DEF OnPage

LEMMA Order ==
  ASSUME NEW p \in Nat, NEW q \in Nat
  PROVE  /\ p * PageRows \in Nat
         /\ p < q <=> p * PageRows + PageRows <= q * PageRows
BY MenuAssumption, SMTT(30)

LEMMA PageCount ==
  ASSUME NEW list \in Seq(File), list # << >>, NEW p \in Nat
  PROVE  /\ Pages(list) \in Nat \ {0}
         /\ p < Pages(list) <=> p * PageRows < Len(list)
<1> DEFINE n == Len(list)
           q == (n + PageRows - 1) \div PageRows
<1>1. n \in Nat \ {0} /\ PageRows \in Nat \ {0}
  BY MenuAssumption
<1> HIDE DEF n
<1>2. q \in Nat /\ OnPage(n + PageRows - 1, q)
  <2>1. n + PageRows - 1 \in Nat
    BY <1>1
  <2> QED
    BY <2>1, Division
<1> HIDE DEF q
<1>3. p * PageRows \in Nat /\ q * PageRows \in Nat
        /\ (p < q <=> p * PageRows + PageRows <= q * PageRows)
        /\ (q < p + 1 <=> q * PageRows + PageRows <= (p + 1) * PageRows)
  BY <1>2, Order
<1>4. (p + 1) * PageRows = p * PageRows + PageRows
  BY <1>1
<1>5. p < q => p * PageRows < n
  BY <1>1, <1>2, <1>3 DEF OnPage
<1>6. p * PageRows < n => p < q
  BY <1>1, <1>2, <1>3, <1>4 DEF OnPage
<1>7. q # 0
  BY <1>1, <1>2 DEF OnPage
<1>8. Pages(list) = q
  BY DEF Pages, Count, n, q
<1> QED
  BY <1>2, <1>5, <1>6, <1>7, <1>8 DEF n

(* Clamping the cursor and the page to a list, each on its own, keeps them *)
(* together.                                                               *)
LEMMA ClampTogether ==
  ASSUME NEW list \in Seq(File), NEW i \in Nat, NEW p \in Nat, OnPage(i, p)
  PROVE  LET j == ClampIndex(i, list)
             r == ClampPage(p, list)
         IN  /\ j \in Nat /\ r \in Nat /\ OnPage(j, r)
             /\ list # << >> => j < Len(list)
             /\ list = << >> => j = 0 /\ r = 0
             /\ i < Len(list) => j = i /\ r = p
<1>1. PageRows \in Nat \ {0} /\ Len(list) \in Nat
  BY MenuAssumption
<1>2. CASE list = << >>
  BY <1>1, <1>2 DEF ClampIndex, ClampPage, OnPage
<1>3. CASE list # << >>
  <2> DEFINE P == Pages(list)
             n == Len(list)
  <2>1. n \in Nat \ {0}
    BY <1>3
  <2>2. P \in Nat \ {0}
    BY <1>3, PageCount
  <2>3. p < P <=> p * PageRows < n
    BY <1>3, PageCount
  <2>4. (P - 1) * PageRows < n
    BY <1>3, <2>2, PageCount
  <2>5. ~(P * PageRows < n)
    BY <1>3, <2>2, PageCount
  <2>6. P * PageRows = (P - 1) * PageRows + PageRows
    BY <1>1, <2>2
  <2>7. p * PageRows \in Nat /\ P * PageRows \in Nat /\ (P - 1) * PageRows \in Nat
    BY <1>1, <2>2, Order
  <2>8. /\ ClampIndex(i, list) = IF i >= n THEN n - 1 ELSE i
        /\ ClampPage(p, list) = IF p >= P THEN P - 1 ELSE p
    BY <1>3 DEF ClampIndex, ClampPage, Clamp, Count
  <2> HIDE DEF P, n
  <2>9. CASE p >= P
    BY <1>1, <2>1, <2>2, <2>3, <2>4, <2>5, <2>6, <2>7, <2>8, <2>9, <1>3 DEF OnPage, n
  <2>10. CASE p < P
    BY <1>1, <2>1, <2>2, <2>3, <2>7, <2>8, <2>10, <1>3 DEF OnPage, n
  <2> QED
    BY <2>2, <2>9, <2>10
<1> QED
  BY <1>2, <1>3

-----------------------------------------------------------------------------
(* What a repaint leaves, whatever changed before it.                      *)
LEMMA RenderRange ==
  ASSUME shots' \in Seq(File), NEW i \in Nat, NEW p \in Nat, OnPage(i, p),
         NEW shown, Render(i, p, shown)
  PROVE  RangeInv' /\ DrawnInv' /\ (i < Len(shots)' => selectedIndex' = i)
<1>1. /\ selectedIndex' = ClampIndex(i, shots')
      /\ currentPage' = ClampPage(p, shots')
      /\ drawn' = [secs |-> Countdown', screen |-> Screen']
  BY DEF Render
<1>2. RangeInv'
  BY <1>1, ClampTogether DEF RangeInv, OnPage
<1>3. DrawnInv'
  BY <1>1 DEF DrawnInv
<1>4. i < Len(shots)' => selectedIndex' = i
  BY <1>1, ClampTogether
<1> QED
  BY <1>2, <1>3, <1>4

(* Drawing the preview afresh, or finding that it is the one shown.        *)
LEMMA SyncSound ==
  ASSUME NEW shown, SyncPreview(shown), selectedIndex' \in Nat,
         previewVisible' => previewAvailable',
         \/ shown = -1
         \/ /\ shown = previewOverlay /\ PreviewInv
            /\ UNCHANGED <<selectedIndex, shots, whole>>
  PROVE  PreviewInv'
<1>1. CASE ~PreviewWanted'
  BY <1>1 DEF SyncPreview, PreviewInv, Visible
<1>2. CASE PreviewWanted' /\ shown = selectedIndex'
  <2>1. shown = previewOverlay /\ PreviewInv /\ UNCHANGED <<selectedIndex, shots, whole>>
    BY <1>2
  <2>2. Visible /\ overlay = Selected
    BY <1>2, <2>1 DEF PreviewInv
  <2>3. Selected' = Selected /\ Visible'
    BY <1>2, <2>1, <2>2 DEF Selected, Visible
  <2>4. overlay' = overlay /\ previewOverlay' = selectedIndex'
    BY <1>2 DEF SyncPreview
  <2> QED
    BY <2>2, <2>3, <2>4 DEF PreviewInv
<1>3. CASE PreviewWanted' /\ shown # selectedIndex'
  BY <1>3 DEF SyncPreview, PreviewInv, Visible
<1> QED
  BY <1>1, <1>2, <1>3

(* A block that leaves the list alone and repaints when it changed         *)
(* something that is drawn.                                                *)
LEMMA RepaintSound ==
  ASSUME MenuInv, NEW c \in BOOLEAN, RepaintIf(c), UNCHANGED <<shots, whole>>,
         previewVisible' => previewAvailable',
         req'.action = "none" => req.action = "none",
         ~c => PreviewWanted' = PreviewWanted /\ UNCHANGED help
                 /\ UNCHANGED <<hook, previewAvailable, autoExitActive>>
  PROVE  RangeInv' /\ DrawnInv' /\ PreviewInv'
<1> USE DEF MenuInv
<1>1. CASE c
  <2>1. Render(selectedIndex, currentPage, previewOverlay)
    BY <1>1 DEF RepaintIf, Repaint
  <2>2. RangeInv' /\ DrawnInv' /\ (selectedIndex < Len(shots)' => selectedIndex' = selectedIndex)
    BY <2>1, RenderRange DEF MenuTyped, RangeInv
  <2>3. UNCHANGED selectedIndex
    BY <2>2 DEF RangeInv
  <2>4. PreviewInv'
    BY <2>1, <2>2, <2>3, SyncSound DEF Render, RangeInv
  <2> QED
    BY <2>2, <2>4
<1>2. CASE ~c
  <2>1. UNCHANGED screenVars
    BY <1>2 DEF RepaintIf
  <2>2. RangeInv'
    BY <2>1 DEF RangeInv, OnPage, screenVars
  <2>3. Screen' = Screen
    BY <1>2, <2>1 DEF Screen, screenVars
  <2>4. DrawnInv'
    BY <2>1, <2>3 DEF DrawnInv, screenVars
  <2>5. Visible' = Visible /\ Selected' = Selected
    BY <1>2, <2>1 DEF Visible, Selected, screenVars
  <2>6. PreviewInv'
    BY <2>1, <2>5 DEF PreviewInv, screenVars
  <2> QED
    BY <2>2, <2>4, <2>6
<1> QED
  BY <1>1, <1>2

(* A block that draws nothing and changes nothing that is drawn.           *)
LEMMA QuietSound ==
  ASSUME MenuInv, UNCHANGED <<shots, whole, screenVars, help, hook, previewVars>>,
         req'.action = "none" => req.action = "none" /\ UNCHANGED autoExitActive
  PROVE  RangeInv' /\ DrawnInv' /\ PreviewInv'
<1> USE DEF MenuInv
<1>1. RangeInv'
  BY DEF RangeInv, OnPage, screenVars
<1>2. DrawnInv'
  BY DEF DrawnInv, Screen, screenVars, previewVars
<1>3. Visible' = Visible /\ Selected' = Selected
  BY DEF Visible, PreviewWanted, Selected, screenVars, previewVars
<1>4. PreviewInv'
  BY <1>3 DEF PreviewInv, screenVars, previewVars
<1> QED
  BY <1>1, <1>2, <1>4

-----------------------------------------------------------------------------
(* The initial states.                                                     *)
LEMMA MenuInit == Init => MenuInv
<1> SUFFICES ASSUME Init PROVE MenuInv
  OBVIOUS
<1>1. PICK n \in 0 .. MaxFiles :
        /\ folder \in {[i \in 1 .. n |-> i], [i \in 1 .. n |-> n + 1 - i]}
        /\ whole \in {1 .. n, 2 .. n}
        /\ next = n + 1
        /\ shots = SubSeq(folder, 1, IF n > MaxShots THEN MaxShots ELSE n)
  BY DEF Init
<1>2. n \in Nat /\ n <= MaxFiles /\ MaxShots \in Nat /\ PageRows \in Nat \ {0}
  BY MenuAssumption
<1>3. folder \in Seq(File) /\ Len(folder) = n
  BY <1>1, <1>2, MenuAssumption DEF File
<1>4. shots \in Seq(File) /\ Len(shots) <= MaxShots
  BY <1>1, <1>2, <1>3
<1>5. MenuTyped
  <2>1. /\ pc = "loop" /\ req = NoRequest /\ clock = ArmSecs
        /\ autoExitActive = FALSE
    BY DEF Init
  <2>2. whole \subseteq File /\ next \in 1 .. MaxFiles + 1
    BY <1>1, <1>2, MenuAssumption DEF File
  <2>3. clock \in 0 .. ArmSecs + ExitSecs
    BY <2>1, MenuAssumption
  <2>4. req \in [page : -1 .. 1, selection : -1 .. 1, hook : BOOLEAN,
                preview : BOOLEAN, action : {"none", "desktop", "booster"}]
    BY <2>1 DEF NoRequest
  <2> QED
    BY <1>3, <1>4, <2>1, <2>2, <2>3, <2>4 DEF MenuTyped, Blocks
<1>6. RequestInv
  BY DEF Init, RequestInv, NoRequest
<1>7. RangeInv
  <2>1. shots # << >> => Len(shots) > 0
    BY <1>4
  <2> QED
    BY <1>2, <2>1 DEF Init, RangeInv, OnPage
<1>8. DrawnInv
  BY DEF Init, DrawnInv
<1>9. PreviewInv
  BY DEF Init, PreviewInv, Visible, PreviewWanted
<1>10. TouchInv
  BY DEF Init, TouchInv
<1> QED
  BY <1>5, <1>6, <1>7, <1>8, <1>9, <1>10 DEF MenuInv

(* The key callback.                                                       *)
LEMMA KeystrokeStep ==
  ASSUME MenuInv, NEW k \in Key, Keystroke(k)
  PROVE  MenuInv'
<1> USE DEF MenuInv
<1>1. pc = "loop" /\ pc' = "avail" /\ UNCHANGED <<folder, whole, next, shots, hook,
         previewVisible, previewAvailable, clock>>
  BY DEF Keystroke, Goto, listVars, previewVars
<1>2. req' \in {req, Requested(k)}
  BY DEF Keystroke, helpVars
<1>3. /\ req' \in [page : -1 .. 1, selection : -1 .. 1, hook : BOOLEAN,
                   preview : BOOLEAN, action : {"none", "desktop", "booster"}]
      /\ req'.action = "none" => req.action = "none"
  <2>1. /\ req.page \in -1 .. 1 /\ req.selection \in -1 .. 1
        /\ req.hook \in BOOLEAN /\ req.preview \in BOOLEAN
        /\ req.action = "none"
    BY <1>1 DEF MenuTyped, RequestInv
  <2> DEFINE p == IF k = "left" THEN -1 ELSE IF k = "right" THEN 1 ELSE req.page
             i == IF k = "up" THEN -1 ELSE IF k = "down" THEN 1 ELSE req.selection
             h == req.hook \/ k = "hook"
             v == req.preview \/ (k = "preview" /\ previewAvailable)
             a == IF k \in {"desktop", "booster"} THEN k ELSE req.action
             r == [req EXCEPT !.page = p, !.selection = i, !.hook = h,
                              !.preview = v, !.action = a]
  <2>2. /\ p \in -1 .. 1 /\ i \in -1 .. 1
        /\ a \in {"none", "desktop", "booster"}
    BY <2>1
  <2>3. h \in BOOLEAN /\ v \in BOOLEAN
    OBVIOUS
  <2>4. Requested(k) = r
    BY DEF Requested
  <2> HIDE DEF p, i, h, v, a
  <2>5. r \in [page : -1 .. 1, selection : -1 .. 1, hook : BOOLEAN,
               preview : BOOLEAN, action : {"none", "desktop", "booster"}]
    BY <2>2, <2>3 DEF MenuTyped
  <2> QED
    BY <1>2, <2>1, <2>4, <2>5 DEF MenuTyped
<1>4. MenuTyped'
  BY <1>1, <1>3 DEF MenuTyped, Blocks, Keystroke, CancelCountdown
<1>5. RequestInv'
  BY <1>1 DEF RequestInv
<1>6. TouchInv'
  BY DEF TouchInv, Keystroke, CancelCountdown
<1>7. RangeInv' /\ DrawnInv' /\ PreviewInv'
  <2> DEFINE c == help' # help \/ autoExitActive
  <2>1. RepaintIf(c)
    BY DEF Keystroke
  <2>2. ~c => UNCHANGED <<help, autoExitActive>>
    BY DEF MenuTyped, Keystroke, CancelCountdown
  <2>3. ~c => PreviewWanted' = PreviewWanted
    BY <1>1, <2>2 DEF PreviewWanted
  <2>4. previewVisible' => previewAvailable'
    BY <1>1 DEF PreviewInv
  <2>5. c \in BOOLEAN
    OBVIOUS
  <2> HIDE DEF c
  <2> QED
    BY <1>1, <1>3, <2>1, <2>2, <2>3, <2>4, <2>5, RepaintSound
<1> QED
  BY <1>4, <1>5, <1>6, <1>7

(* The blocks that only take note of something.                            *)
LEMMA QuietStep ==
  ASSUME MenuInv,
         \/ \E r \in Rez : SetRez(r)
         \/ Quiet \/ NoEdge \/ LongPress \/ Act \/ Elapsed \/ Second
  PROVE  MenuInv'
<1> USE DEF MenuInv
<1>1. UNCHANGED <<folder, whole, next, shots, help, hook, previewVars, screenVars,
                  autoExitCancelled, touched>>
  BY DEF SetRez, Quiet, NoEdge, LongPress, Act, Elapsed, Second, listVars, helpVars,
         autoVars
<1>2. MenuTyped'
  <2>1. clock' \in 0 .. ArmSecs + ExitSecs
    BY MenuAssumption DEF MenuTyped, SetRez, Quiet, NoEdge, LongPress, Act, Elapsed, Second
  <2>2. req' \in [page : -1 .. 1, selection : -1 .. 1, hook : BOOLEAN,
                  preview : BOOLEAN, action : {"none", "desktop", "booster"}]
    BY DEF MenuTyped, SetRez, Quiet, NoEdge, LongPress, Act, Elapsed, Second
  <2>3. pc' \in Blocks \union {"desktop", "booster"}
    BY DEF MenuTyped, SetRez, Quiet, NoEdge, LongPress, Act, Elapsed, Second, Goto, Blocks
  <2>4. autoExitActive' \in BOOLEAN
    BY DEF MenuTyped, SetRez, Quiet, NoEdge, LongPress, Act, Elapsed, Second, autoVars
  <2> QED
    BY <1>1, <2>1, <2>2, <2>3, <2>4 DEF MenuTyped
<1>3. RequestInv'
  BY DEF MenuTyped, RequestInv, SetRez, Quiet, NoEdge, LongPress, Act, Elapsed, Second, Goto
<1>4. TouchInv'
  BY <1>1 DEF TouchInv, SetRez, Quiet, NoEdge, LongPress, Act, Elapsed, Second, autoVars
<1>5. req'.action = "none" => req.action = "none" /\ UNCHANGED autoExitActive
  BY DEF MenuTyped, SetRez, Quiet, NoEdge, LongPress, Act, Elapsed, Second, autoVars
<1> QED
  BY <1>1, <1>2, <1>3, <1>4, <1>5, QuietSound

(* Blocks that repaint when they changed what is drawn.                    *)
LEMMA DrawingStep ==
  ASSUME MenuInv,
         Availability \/ StartCountdown \/ CountDown \/ ToggleHook \/ Press
  PROVE  MenuInv'
<1> USE DEF MenuInv
<1>1. UNCHANGED <<folder, whole, next, shots, help>>
  BY DEF Availability, StartCountdown, CountDown, ToggleHook, Press, listVars, helpVars
<1>2. MenuTyped'
  <2>1. clock' \in 0 .. ArmSecs + ExitSecs
    BY MenuAssumption
       DEF MenuTyped, Availability, StartCountdown, CountDown, ToggleHook, Press
  <2>2. req' \in [page : -1 .. 1, selection : -1 .. 1, hook : BOOLEAN,
                  preview : BOOLEAN, action : {"none", "desktop", "booster"}]
    BY DEF MenuTyped, Availability, StartCountdown, CountDown, ToggleHook, Press
  <2>3. pc' \in Blocks
    BY DEF Availability, StartCountdown, CountDown, ToggleHook, Press, Goto, Blocks
  <2>4. autoExitActive' \in BOOLEAN
    BY DEF MenuTyped, Availability, StartCountdown, CountDown, ToggleHook, Press,
           autoVars, CancelCountdown
  <2> QED
    BY <1>1, <2>1, <2>2, <2>3, <2>4 DEF MenuTyped
<1>3. RequestInv'
  BY DEF MenuTyped, RequestInv, Availability, StartCountdown, CountDown, ToggleHook,
         Press, Goto
<1>4. TouchInv'
  BY DEF TouchInv, Availability, StartCountdown, CountDown, ToggleHook, Press, autoVars,
         CancelCountdown, MayStart
<1>5. previewVisible' => previewAvailable'
  BY DEF PreviewInv, Availability, StartCountdown, CountDown, ToggleHook, Press,
         previewVars
<1>6. req'.action = "none" => req.action = "none"
  BY DEF MenuTyped, Availability, StartCountdown, CountDown, ToggleHook, Press
<1>7. \E c \in BOOLEAN :
        /\ RepaintIf(c)
        /\ ~c => PreviewWanted' = PreviewWanted
                  /\ UNCHANGED <<hook, previewAvailable, autoExitActive>>
  <2>1. CASE Availability
    <3> DEFINE c == previewAvailable' # previewAvailable
    <3>1. RepaintIf(c) /\ UNCHANGED <<hook, autoExitActive>>
      BY <2>1 DEF Availability, autoVars
    <3>2. ~c => (previewVisible' /\ previewAvailable') = (previewVisible /\ previewAvailable)
      BY <2>1 DEF Availability, PreviewInv
    <3>3. ~c => PreviewWanted' = PreviewWanted
      BY <1>1, <3>2 DEF PreviewWanted
    <3> QED
      BY <3>1, <3>3
  <2>2. CASE StartCountdown
    <3>1. RepaintIf(TRUE)
      BY <2>2 DEF StartCountdown, RepaintIf
    <3> QED
      BY <3>1
  <2>3. CASE CountDown
    <3> DEFINE c == autoExitActive /\ clock # drawn.secs
    <3>1. RepaintIf(c) /\ UNCHANGED <<hook, previewVars, autoExitActive>>
      BY <2>3 DEF CountDown, autoVars
    <3>2. PreviewWanted' = PreviewWanted
      BY <1>1, <3>1 DEF PreviewWanted, previewVars
    <3> QED
      BY <3>1, <3>2 DEF previewVars
  <2>4. CASE ToggleHook
    <3>1. RepaintIf(req.hook) /\ UNCHANGED <<previewVars, autoExitActive>>
      BY <2>4 DEF ToggleHook, autoVars
    <3>2. ~req.hook => UNCHANGED hook
      BY <2>4 DEF ToggleHook
    <3>3. PreviewWanted' = PreviewWanted /\ req.hook \in BOOLEAN
      BY <1>1, <3>1 DEF PreviewWanted, previewVars, MenuTyped
    <3> QED
      BY <3>1, <3>2, <3>3 DEF previewVars
  <2>5. CASE Press
    <3>1. RepaintIf(autoExitActive) /\ UNCHANGED <<hook, previewVars>>
      BY <2>5 DEF Press
    <3>2. autoExitActive \in BOOLEAN /\ (~autoExitActive => UNCHANGED autoExitActive)
      BY <2>5 DEF Press, CancelCountdown, MenuTyped
    <3>3. PreviewWanted' = PreviewWanted
      BY <1>1, <3>1 DEF PreviewWanted, previewVars
    <3> QED
      BY <3>1, <3>2, <3>3 DEF previewVars
  <2> QED
    BY <2>1, <2>2, <2>3, <2>4, <2>5
<1> QED
  BY <1>1, <1>2, <1>3, <1>4, <1>5, <1>6, <1>7, RepaintSound

(* Blocks that move the cursor, and the preview toggle: they forget which  *)
(* picture is shown.                                                       *)
LEMMA MovingStep ==
  ASSUME MenuInv, ChangePage \/ MoveSelection \/ TogglePreview
  PROVE  MenuInv'
<1> USE DEF MenuInv
<1>1. UNCHANGED <<folder, whole, next, shots, help, hook, previewAvailable,
                  autoExitActive, autoExitCancelled, clock, touched>>
  BY DEF ChangePage, MoveSelection, TogglePreview, listVars, helpVars, previewVars, autoVars
<1>2. MenuTyped' /\ RequestInv'
  <2>1. req' \in [page : -1 .. 1, selection : -1 .. 1, hook : BOOLEAN,
                  preview : BOOLEAN, action : {"none", "desktop", "booster"}]
    <3>1. CASE req' = [req EXCEPT !.page = 0]
      BY <3>1 DEF MenuTyped
    <3>2. CASE req' = [req EXCEPT !.selection = 0]
      BY <3>2 DEF MenuTyped
    <3>3. CASE req' = [req EXCEPT !.preview = FALSE]
      BY <3>3 DEF MenuTyped
    <3> QED
      BY <3>1, <3>2, <3>3 DEF ChangePage, MoveSelection, TogglePreview, ConsumePreview
  <2>2. pc' \in Blocks
    BY DEF ChangePage, MoveSelection, TogglePreview, Goto, Blocks
  <2>3. RequestInv'
    BY DEF MenuTyped, RequestInv, ChangePage, MoveSelection, TogglePreview,
           ConsumePreview, Goto
  <2> QED
    BY <1>1, <2>1, <2>2, <2>3 DEF MenuTyped
<1>3. TouchInv'
  BY <1>1 DEF TouchInv
<1>4. previewVisible' => previewAvailable'
  BY DEF PreviewInv, ChangePage, MoveSelection, TogglePreview, previewVars
<1>5. req'.action = req.action
  BY DEF MenuTyped, ChangePage, MoveSelection, TogglePreview, ConsumePreview
<1>6. \/ UNCHANGED screenVars /\ UNCHANGED previewVisible
      \/ \E i \in Nat, p \in Nat : OnPage(i, p) /\ Render(i, p, -1)
  <2>1. CASE ChangePage
    <3> DEFINE p == ClampPage(currentPage + req.page, shots)
    <3>1. p \in Nat
      <4>1. CASE shots = << >>
        BY <4>1 DEF ClampPage
      <4>2. CASE shots # << >>
        <5>1. Pages(shots) \in Nat \ {0}
          BY <4>2, PageCount DEF MenuTyped
        <5>2. currentPage + req.page \in Int
          BY DEF RangeInv, MenuTyped
        <5> QED
          BY <4>2, <5>1, <5>2 DEF ClampPage, Clamp
      <4> QED
        BY <4>1, <4>2
    <3>2. p * PageRows \in Nat /\ OnPage(p * PageRows, p)
      BY <3>1, MenuAssumption, Order DEF OnPage
    <3>3. \/ Render(p * PageRows, p, -1)
          \/ UNCHANGED screenVars /\ UNCHANGED previewVisible
      BY <2>1 DEF ChangePage, Forgotten, previewVars
    <3> HIDE DEF p
    <3> QED
      BY <3>1, <3>2, <3>3
  <2>2. CASE MoveSelection
    <3> DEFINE i == ClampIndex(selectedIndex + req.selection, shots)
    <3>1. i \in Nat
      <4>1. Len(shots) \in Nat /\ (shots # << >> => Len(shots) > 0)
        BY DEF MenuTyped
      <4>2. selectedIndex + req.selection \in Int
        BY DEF RangeInv, MenuTyped
      <4> QED
        BY <4>1, <4>2 DEF ClampIndex, Clamp, Count
    <3>2. i \div PageRows \in Nat /\ OnPage(i, i \div PageRows)
      BY <3>1, Division
    <3>3. \/ Render(i, i \div PageRows, -1)
          \/ UNCHANGED screenVars /\ UNCHANGED previewVisible
      BY <2>2 DEF MoveSelection, PageOf, Forgotten, previewVars
    <3> HIDE DEF i
    <3> QED
      BY <3>1, <3>2, <3>3
  <2>3. CASE TogglePreview
    <3>1. \/ Render(selectedIndex, currentPage, -1)
          \/ UNCHANGED screenVars /\ UNCHANGED previewVisible
      BY <2>3 DEF TogglePreview, Forgotten
    <3> QED
      BY <3>1 DEF RangeInv
  <2> QED
    BY <2>1, <2>2, <2>3
<1>7. CASE UNCHANGED screenVars /\ UNCHANGED previewVisible
  BY <1>1, <1>2, <1>3, <1>5, <1>7, QuietSound DEF previewVars
<1>8. CASE \E i \in Nat, p \in Nat : OnPage(i, p) /\ Render(i, p, -1)
  <2>1. PICK i \in Nat, p \in Nat : OnPage(i, p) /\ Render(i, p, -1)
    BY <1>8
  <2>2. RangeInv' /\ DrawnInv'
    BY <1>1, <2>1, RenderRange DEF MenuTyped
  <2>3. PreviewInv'
    BY <1>4, <2>1, <2>2, SyncSound DEF Render, RangeInv
  <2> QED
    BY <1>2, <1>3, <2>2, <2>3
<1> QED
  BY <1>6, <1>7, <1>8

(* SELECT released.  The list becomes what can be read of a folder with    *)
(* one more file, or stays.                                                *)
LEMMA FolderGrows ==
  ASSUME MenuInv, CreateNext, next \in File
  PROVE  folder' \in Seq(File)
<1>1. folder \in Seq(File)
  BY DEF MenuInv, MenuTyped
<1>2. Append(folder, next) \in Seq(File) /\ <<next>> \o folder \in Seq(File)
  BY <1>1
<1> QED
  BY <1>1, <1>2 DEF CreateNext

LEMMA ReleaseStep ==
  ASSUME MenuInv, ReleaseCaptures \/ ReleaseFails
  PROVE  MenuInv'
<1> USE DEF MenuInv
<1>1. /\ pc = "select" /\ pc' = "action"
      /\ UNCHANGED <<req, help, hook, previewVisible, previewAvailable,
                     autoExitActive, autoExitCancelled, clock, touched>>
  BY DEF ReleaseCaptures, ReleaseFails, Goto, helpVars, previewVars, autoVars
<1>2. folder' \in Seq(File)
  BY FolderGrows DEF MenuTyped, ReleaseCaptures, ReleaseFails
<1>3. whole' \subseteq File /\ next' \in 1 .. MaxFiles + 1
  <2>1. whole \subseteq File /\ next \in 1 .. MaxFiles + 1 /\ MaxFiles \in Nat
    BY MenuAssumption DEF MenuTyped
  <2>2. \/ UNCHANGED <<whole, next>>
        \/ next \in File /\ whole' = whole \union {next} /\ next' = next + 1
    BY DEF ReleaseCaptures, ReleaseFails
  <2> HIDE DEF MenuInv
  <2>3. CASE UNCHANGED <<whole, next>>
    BY <2>1, <2>3
  <2>4. CASE next \in File /\ whole' = whole \union {next} /\ next' = next + 1
    <3>1. whole' \subseteq File
      BY <2>1, <2>4
    <3>2. next' \in 1 .. MaxFiles + 1
      BY <2>1, <2>4 DEF File
    <3> QED
      BY <3>1, <3>2
  <2> QED
    BY <2>2, <2>3, <2>4
<1>4. shots' \in Seq(File) /\ Len(shots') <= MaxShots
  <2>1. CASE ReleaseFails
    BY <2>1 DEF MenuTyped, ReleaseFails
  <2>2. CASE ReleaseCaptures
    <3>1. PICK n \in 0 .. Len(folder') : n <= MaxShots /\ shots' = SubSeq(folder', 1, n)
      BY <2>2 DEF ReleaseCaptures, ScanShots, Count
    <3> HIDE DEF MenuInv
    <3>2. shots' \in Seq(File) /\ Len(shots') = n
      BY <1>2, <3>1
    <3> QED
      BY <3>1, <3>2
  <2> QED
    BY <2>1, <2>2
<1>5. MenuTyped' /\ RequestInv' /\ TouchInv'
  BY <1>1, <1>2, <1>3, <1>4 DEF MenuTyped, RequestInv, TouchInv, Blocks
<1>6. CASE ReleaseFails
  <2>1. UNCHANGED <<shots, whole, screenVars>>
    BY <1>6 DEF ReleaseFails
  <2> QED
    BY <1>1, <1>5, <2>1, QuietSound DEF previewVars
<1>7. CASE ReleaseCaptures
  <2>1. Render(selectedIndex, currentPage, -1)
    BY <1>7 DEF ReleaseCaptures, Forgotten
  <2>2. RangeInv' /\ DrawnInv'
    BY <1>4, <2>1, RenderRange DEF RangeInv
  <2>3. previewVisible' => previewAvailable'
    BY <1>1 DEF PreviewInv
  <2>4. PreviewInv'
    BY <2>1, <2>2, <2>3, SyncSound DEF Render, RangeInv
  <2> QED
    BY <1>5, <2>2, <2>4
<1> QED
  BY <1>6, <1>7

-----------------------------------------------------------------------------
LEMMA MenuStutter == MenuInv /\ UNCHANGED vars => MenuInv'
<1> SUFFICES ASSUME MenuInv, UNCHANGED vars PROVE MenuInv'
  OBVIOUS
<1>1. UNCHANGED <<pc, listVars, req, helpVars, hook, previewVars, autoVars, clock,
                  screenVars, touched>>
  BY DEF vars
<1>2. MenuTyped' /\ RequestInv' /\ TouchInv'
  BY <1>1 DEF MenuInv, MenuTyped, RequestInv, TouchInv, listVars, autoVars
<1> QED
  BY <1>1, <1>2, QuietSound DEF MenuInv, listVars, helpVars, autoVars

LEMMA MenuStep == MenuInv /\ [Next]_vars => MenuInv'
BY KeystrokeStep, QuietStep, DrawingStep, MovingStep, ReleaseStep, MenuStutter
   DEF Next, Turn

LEMMA MenuInvariant == Spec => []MenuInv
BY MenuInit, MenuStep, PTL DEF Spec

(* Every variable keeps its type, and no request outlives its turn         *)
(* (emul_start, menuKeyCb).                                                *)
THEOREM MenuTypeCorrect == Spec => []TypeOK
<1>1. MenuInv => TypeOK
  <2> SUFFICES ASSUME MenuInv PROVE TypeOK
    OBVIOUS
  <2>1. AtTurn => req = NoRequest
    <3> SUFFICES ASSUME AtTurn PROVE req = NoRequest
      OBVIOUS
    <3>1. /\ req.page = 0 /\ req.selection = 0 /\ req.hook = FALSE
          /\ req.preview = FALSE /\ req.action = "none"
      BY DEF MenuInv, MenuTyped, RequestInv, AtTurn
    <3> QED
      BY <3>1 DEF MenuInv, MenuTyped, NoRequest
  <2>2. shots # << >> => Selected \in File
    BY DEF MenuInv, MenuTyped, RangeInv, Selected
  <2>3. previewOverlay \in -1 .. MaxShots - 1 /\ overlay \in {NoFile} \union File
    BY <2>2, MenuAssumption
       DEF MenuInv, MenuTyped, RangeInv, PreviewInv, Visible, PreviewWanted
  <2>4. \A i \in DOMAIN folder : folder[i] \in File
    BY DEF MenuInv, MenuTyped
  <2> QED
    BY <2>1, <2>3, <2>4 DEF TypeOK, MenuInv, MenuTyped, Count
<1> QED
  BY <1>1, MenuInvariant, PTL

(* The highlighted screenshot is in the list and on the page, however the  *)
(* list grew or shrank under the cursor (renderMenu, emul_start).          *)
THEOREM SelectionCorrect == Spec => []SelectionShown
<1>1. MenuInv => SelectionShown
  <2> SUFFICES ASSUME MenuInv PROVE SelectionShown
    OBVIOUS
  <2>1. PageRows \in Nat \ {0} /\ currentPage * PageRows \in Nat
    BY MenuAssumption, Order DEF MenuInv, RangeInv
  <2>2. Len(shots) \in Nat
    BY DEF MenuInv, MenuTyped
  <2> QED
    BY <2>1, <2>2 DEF MenuInv, RangeInv, OnPage, SelectionShown, Count
<1> QED
  BY <1>1, MenuInvariant, PTL

(* No block of the loop changes what is drawn and leaves the old screen    *)
(* (emul_start, renderMenu).                                               *)
THEOREM ScreenCorrect == Spec => []ScreenCurrent
<1>1. MenuInv => ScreenCurrent
  BY DEF MenuInv, RequestInv, DrawnInv, ScreenCurrent, AtTurn
<1> QED
  BY <1>1, MenuInvariant, PTL

(* The picture over the menu is the selected screenshot, if the preview is *)
(* on and the file can be read, and none otherwise (syncPreviewOverlay).   *)
THEOREM PreviewCorrect == Spec => []PreviewMatches
<1>1. MenuInv => PreviewMatches
  BY DEF MenuInv, PreviewInv, Visible, PreviewMatches
<1> QED
  BY <1>1, MenuInvariant, PTL

(* A menu that was touched never leaves by itself (emul_start, menuKeyCb). *)
THEOREM NeverLeavesTouched == Spec => NoSurpriseExit
<1>1. MenuInv /\ [Next]_vars => [Elapsed => ~touched]_vars
  BY DEF MenuInv, TouchInv, Elapsed
<1> QED
  BY <1>1, MenuInvariant, PTL DEF Spec, NoSurpriseExit
=============================================================================
