# Verification of MD/Snap

MD/Snap turns a SidecarTridge (an RP2040 board in the cartridge port of an
Atari ST) into a screenshot camera: a press of SELECT makes a resident handler
on the ST stream its screen to the RP2040, which writes it to the microSD card
as a PNG. This directory holds TLA+ models of the program, the TLC
configurations that check them on small instances, and TLAPS proofs.

## The system

Two processors share a cartridge window and nothing else.

* **ROM4** is RP memory the ST reads as ROM. It carries the *sentinel* (START,
  BOOT_GEM, RESET, ...), the token slots of the synchronous transport and 32-bit
  *shared variables*: slot 3 CAPTURE_SEQ, slot 4 the hook choice, slot 5 the
  stream credit (`seq << 16 | next frame`).
* **ROM3** is how the ST writes: it *reads* an address and the RP's DMA puts the
  address lines into a ring of 16384 words. The RP drains the ring from its
  service loop. Nobody notices when the DMA laps the reader.

| component | source | state | operations | interacts with |
|---|---|---|---|---|
| screen receiver | `rp/src/screenshot.c` | masks, sequence, buffer, ready flag, file index | four commands, write pending, local capture | dispatcher (callback), credit slot, card |
| dispatcher, ring | `chandler.c`, `commemul.c` | read index, one pending command, command count, callback list | drain, dispatch, answer token, set shared variable | parser, receiver, terminal |
| parser | `include/tprotocol.h` | word state machine, checksum, time of last word | parse one word | dispatcher |
| snapshot files | `screenshot.c`, `sdcard.c` | file counter, the folder on the card | scan, open, write, close | card, menu list |
| desktop loop | `emul.c` (`exitToDesktop`, `gotoBooster`) | captureSeq, button edges | launch, service, short press, long press | receiver, SELECT, sentinel |
| ETV grabber | `target/atarist/src/userfw.s` | a five-state machine, sequence, frame, retry and abort counters | one step per 200 Hz tick | ring, credit slot |
| VBL grabber, transport | `userfw.s`, `inc/sidecart_functions.s` | state index, attempts, token | one command per vertical blank, up to three attempts | ring, token slots |
| launch | `emul.c`, `main.s` | sentinel, boot_gem latch | install hook, continue to GEM | installer, menu |
| menu | `emul.c`, `term.c` | page, selection, countdown, pending key | keys, render, auto-exit | terminal, preview, settings |
| preview | `preview_overlay.c` | overlay buffer | decode a PNG we wrote | menu |
| PNG writer | `png_writer.c` | buffers, adler, crc, stored-block accounting | begin, row, end | card |
| settings | `settings/settings.c`, `gconfig.c`, `aconfig.c` | entries in RAM, one flash sector | load, put, save, erase | boot decision |
| SELECT | `select.c` | debouncer, press start | poll, core-1 loop | menu, desktop loop, reset |
| boot decision | `main.c` | none of its own | configurations, SELECT at power-on | settings, menu |
| print loop of the ST | `target/atarist/src/main.s` | frame number drawn last, shift state | send keys and resolution, copy frames, obey the sentinel | ring, token slots, frame buffer |
| network, download | `network.c`, `download.c` | connection and transfer states | none is called by the application | |

What is hard here: two processors that never wait for each other (the ETV
handler) or only with a timeout (the VBL handler); commands lost to a checksum
or to a pause; a service loop that is away for most of a second while it writes
a file and flashes the LED; presses in the middle of a transfer; an ST reset at
any moment while the RP carries on; 8-bit sequence numbers; credit that is
withdrawn by the next press; a write or a flash page that fails or loses power
half-way; menu state that several blocks of one loop change behind each other's
back.

What makes it correct: the card holds whole screens, one per press at most, in
order; a credit or an acknowledgement means what it says; the ring is not
lapped; every press is followed by a snapshot and every snapshot reaches the
card unless something was lost; the hook always comes back to idle; the ST
always gets from the menu to the desktop, with one grabber on the chosen vector;
no file is overwritten, and a file reported as done is a valid PNG; a power
cut leaves the settings whole, or in part with defaults and damaged values, but never
old ones beside new; a key is acted upon, in
order, and again only if an answer was late; what the menu shows is its state.

## Modules

`CaptureLog` is the abstract promise: presses are requested, whole screens are
saved, at most one per press, in order, never rewritten.

`Receiver` is the RP side. Its actions are the stages of one turn of the loop
in `exitToDesktop`: `Drain` or `DrainNothing` (`commemul_poll` and the parser),
`Handle` (the rest of `chandler_loop`, with the case of `screenshot_command_cb`
it ends in), `WritePending`, `SelectRelease` or `SelectIdle`. They are separate
because the ST runs between them; a resend can fall between the drain and the
answer. A drain keeps the first command that parses and drops the others, as
`handle_protocol_command` does; between drain and handling it is the head of
`ring`. Loss is decided when a command is written (`good`): a bad checksum and a
10 ms pause both make the parser discard it. A screen is a function from frames
to the number of the press whose snapshot they came from, so a mixed screen is
visible as one. `Image`, `shots` and `pressCount` are history.

`EtvStream` adds the ETV grabber: one action per state and outcome of
`resident_etv_start`, `Reinstall` for a reset of the ST (the RP keeps all of its
state; `main.s` runs the installer again because the sentinel still says
BOOT_GEM). `VblGrabber` adds the VBL grabber with the synchronous transport:
the wait loop is the state `spinning`, and a timeout happens when the RP is
writing a file or has just written one (`patience`), or when it has drained the
ring without an answer. A session has a card of some speed (`maxStall`) and a
bus that loses commands or does not (`clean`).
The one thing `EtvStream` assumes of time is `InTime`: `chandler_loop` handles a
command right after it has drained the ring, so that of what the timer sends only
one command can come between. `MCEtvStream` restricts the ETV stream further to
the timing of the two programs.
`EtvStreamProofs` and `VblGrabberProofs` hold the inductive invariants and the
theorems.

`Launch` is the way from power-on to the desktop and back to Booster. The RP
steers the boot code of the ST through the sentinel: it clears it, brings the
bus up (`BringUp`), shows the menu, publishes the hook (`PublishHook`), holds
START for ten turns and BOOT_GEM for ten turns (`HoldStart`, `HoldBootGem`), and
never touches it again until `GotoBooster`. The ST boots when it likes, finds
the cartridge or not (`BootCartridge`, `BootPlain`), asks the RP something and
waits for the answer (`Send`, `SyncDone`, `SyncTimeout`), and polls the sentinel
once per frame (`PollStart`, `PollBootGem`, `PollReset`, `PollKey`); it may be
reset at any moment (`StReset`). `installed` is the flag of `rom_function`, which
lives in the copy of the code that a boot makes afresh; `hooks` is the chain of
resident blocks on the vector. `LaunchProofs` holds its proofs.

`Settings` is the store of the application's settings: `Load` reads the sector
over the defaults, `Change` puts a value and asks for a save, `Erase`,
`EraseDone` and `ProgramPage` are the save, `LoadStarves` and `SaveStarves` are
the failed allocations. The sector is what the loader makes of it, entry by
entry. `PowerCut` falls anywhere, also during the erase (`CutErase`) and inside a
page (`CutPage`), and leaves in each entry that was being changed its old or its
new bytes or `Damage`: a key or type that does not read, and ends the list; a key
that is nobody's; or, with key and type intact, a value that is neither (`Noise`),
which the loader takes, for it checks no value. A sector whose version does not
read stands as `Erased` for all such. Two things a cut could leave are excluded:
an entry that names another setting than its own (erasing only sets bits and
programming only clears them, and each of the names FOLDER, MODE and MAGICVERSION
needs bits that another has not), and a version number spelt by chance.
`PowerOn` composes it with `Launch`: `BootBooster` and `BootLoad` are the
decision of `main`, `LoadHook` and `ToggleHook` the two places where the menu
reads and saves the hook, and `PowerCycle` takes the power from both computers.
`SettingsProofs` holds its proofs.

`Menu` is the loop of `emul_start`. A turn is a chain of blocks, one action or
a few alternatives each: the key callback (`Keystroke`), `Availability`, the
countdown (`StartCountdown`, `CountDown`, `Elapsed`), `ChangePage`,
`MoveSelection`, `ToggleHook`, `TogglePreview`, SELECT (`Press`, `LongPress`,
`ReleaseCaptures`, `ReleaseFails`) and `Act`. Each block repaints where the code
does; `Render` ends in `SyncPreview`, as `renderMenu` ends in
`syncPreviewOverlay`.

`MenuLink` is the wire under it, word by word: `SendRez` and `SendKey` start a
command, `SendSome` and `SendRest` put its words on the bus, `Poll` parses what
is in the ring, `Handle` answers, `TermLoop` acts on the key; `Refresh`,
`SyncOverlay` and `PublishFrame` render, and `NoteFrame`, `CopyText` and
`CopyPicture` copy the frame while the RP may be rendering the next. The parser
(`Parse`) is the state machine of `tprotocol.h`: a word that looks like a header
makes it swallow what follows. Any turn of the loop may be slow,
by any number of timeouts: `TimesOut` counts them in `late`, by the command that
met them, and the properties say how many a command survives. `KeyLog` is the
abstract promise of the keyboard.
`MenuLinkProofs` shows that the wire keeps it.

`SnapshotFiles` is the folder on the card. A capture scans it once per power-on
for the next number (`FindNextIndex`), opens, and with that empties, a file
(`Open`), and ends in `Written`, `WriteFails` or `CloseFails`; `PowerCycle` may
come between. `screenshot_writePending` and `screenshot_captureLocal` are the
same code up to the suffix.

`PngFiles` fills those files: `Begin`, `PutByte` and `Finish` are the streaming
writer, field by field, with its staging buffer, its stored blocks and its
sticky error, and with an `f_write` that fails after any number of fields;
`Preview` is the reader of the menu. `IsPng` is not a translation: it is what
the standards ask of a file. `PngFilesProofs` holds the proofs about
`SnapshotFiles`, carries its theorems over to `PngFiles`, and proves what is in
the files.

| model | code |
|---|---|
| `loopPc` | place in the loop, emul.c:520-555 |
| `ring`, `unread` | commRing, write index minus commReadIdx |
| `captureSlot`, `streamAck` | shared variables 3 and 5 |
| `chunksMask`, `streamFrameMask`, `streamSeq`, `beginReceived`, `readyFlag` | the statics of screenshot.c |
| `meta`, `source` | whose palette and resolution, whose bytes |
| `resPrev`, `etvState`, `etvSeq`, `etvFrame`, `etvRetry`, `etvTimeout` | the resident block, userfw.s:590-601 |
| `resState`, `attempts`, `request`, `spinning` | res_state, the counter on call_transport's stack, d2 of the transport, being in its loop |
| `token`, `seed` | the two token words in the shared region |
| `Launch!rpPc`, `turn` | place in emul_start and exitToDesktop, counter of its two for loops |
| `sentinel`, `hookFlag`, `hook` | $FA2000, shared variable 4, g_hookEtv |
| `command`, `answered` | a command in the ring, whether its token was answered |
| `Launch!stPc`, `attempts` | place in main.s, d7 of the send_sync macro |
| `sector`, `ram` | the flash sector as the loader reads it, configData |
| `store`, `page` | place in settings_init or settings_save, pages programmed |
| `registered`, `held` | whether the Booster's configuration names this application, SELECT at power-on |
| `Menu!pc`, `req` | the next block of the loop in emul_start; pageDelta, selectionDelta, the toggle flags and menuAction |
| `shots`, `selectedIndex`, `currentPage`, `help` | shotNames, the statics of emul.c |
| `overlay`, `previewOverlay` | what PREVIEW_VISIBLE and the planes tell the ST to show; previewOverlayIndex while previewOverlayActive |
| `autoExitStarted`, `autoExitActive`, `autoExitCancelled`, `clock` | the flags of the countdown, time left to its deadline |
| `drawn` | the frame buffer, as the state it was drawn from |
| `MenuLink!rpPc`, `pending`, `slot` | place in the menu loop, pendingProtocol, the command of term.c |
| `frame`, `menuDrawSeq` | MENU_FRAME_SEQ, menu_draw_seq |
| `payload`, `out`, `request`, `attempts` | the registers of send_sync |
| `text`, `overlay`, `screen` | the frame buffer and preview block by frame number, and what the ST copied |
| `card`, `file`, `nextIndex`, `nextIndexValid` | the folder, the open FIL, the statics of screenshot.c |
| `pw`, `image`, `format` | png_writer_t, the file written last, the size of the picture and of the buffers |

## Runs

| run | question | result |
|---|---|---|
| `etv_safety` | loss, duplicates, stalls, presses and resets at any tick: is credit earned, the ring not lapped, a finished capture complete, the card a `CaptureLog`; does the hook return to idle even when all is lost; is the invariant of the proofs true? | holds |
| `etv_live` | without loss, is every snapshot delivered and (slot 3 starting at 0) every press followed by a snapshot? | holds |
| `etv_stale_slot` | every press grabs the screen (README.md:13) | violated: slot 3 is not initialised before the installer seeds `res_prev` from it |
| `etv_wrap` | a frame is sent only on credit (userfw.s:364-366), past the wrap of captureSeq | violated: the cleared slot 5 is credit for sequence 0 |
| `vbl` | sessions with and without loss, on a fast and a slow card: is a session without loss a `CaptureLog`, as long as a stall ends before all the chunks of a snapshot but one could time out (`Calm`); does success mean this command was handled, and is every snapshot delivered, when no stall outlasts the attempts of one command; is `IInv` an invariant? | holds |
| `vbl_false_ack` | the response identifies the command (programming.md:1005), with stalls longer than the attempts | violated: all attempts of one stall share a token |
| `launch_safety` | any sector, any sentinel at power-on, power cuts while the flash is erased or programmed, failed allocations, boots and resets at any moment: are settings kept, and in a save cut short old ones never left beside new, is the hook shown the one saved, does the menu come up, does the ST reach the desktop, with one grabber on the chosen vector, and not before the RP says so? | holds |
| `launch_booster_desktop` | gotoBooster resets the ST first (emul.c:469-475) | violated from the desktop: nothing there reads the sentinel |
| `menu` | any keys, changes of resolution, SELECT gestures and captures that succeed, fail or cannot be listed: is the cursor in the list and on the page, the screen and the preview those of the present state, and the countdown stopped for good by a touch? | holds |
| `link` | commands split by a turn, repeated after timeouts, mistaken for a header; any turn slow; frames copied while the next is rendered: are keys acted upon, in order, again only after a timeout in a slow turn; do they arrive, and is the resolution known, unless slow turns take the attempts; does the last frame come to stand on the screen? | holds, but for one frame number (below) |
| `files_safety` | any card, an f_write that fails anywhere, power cuts: is a screenshot ever overwritten, do the numbers tell the order, is a file reported as done a PNG of the screen, does the preview show a screen as captured or not at all? | holds if the card is there before the first capture |
| `files_overwrite` | the counter continues past any existing files (screenshot.c:263-264), a first capture having been tried without a card | violated: the failed scan is not repeated |

Each property has a mutant of the model, a plausible bug of the code, under
which the same run finds it violated.

**Seen on the way**, and part of the models rather than findings:

* `menu_draw_seq` starts at $ff on every boot of the ST, and MENU_FRAME_SEQ is a
  byte that goes on counting in the RP. An ST that boots when it stands at 255
  draws nothing until the next render. `ShowsLatest` excepts exactly that
  (`Unnoticed`), and `link` starts one frame before it.
* `f_close` writes the last sector and the size of the file, and nobody looks at
  its result: the LED flashes for a file of no length (`CloseFails`,
  screenshot.c:326).
* A VBL capture can mix two snapshots without any loss, when the RP is away for
  so long that the handler gives up a whole snapshot and starts the next: both
  BEGINs lie in the ring, the first is handled, the second dropped behind it, and
  chunks of the second complete the first. `Calm` excepts it. With the 16 chunks
  and three attempts of the code it takes 45 timeouts, some 15 s of one PNG
  write, which is why it is no finding.
* A power cut in the middle of the value of a setting leaves an entry whose key
  and type are intact, and the next power-on takes what its value then is, neither
  old nor new nor the default (settings.c:180-202). `NeverMixes` excepts such
  values (`Noise`); the menu comes up all the same (`BootsToMenu`) and shows what
  was loaded (`ShownIsSaved`).
* A key that is given up may lie in the ring when the next one is typed. The seed
  has not moved, so both carry the same token: the old key is handled, the new one
  dropped behind it, and the answer to the one ends the wait for the other. The new
  key is then lost although it was acknowledged. It takes the attempts of a whole
  key in slow turns and splits, which is where `Stalled` draws the line of
  `KeysArrive`.
* SELECT held since before the menu and then released takes a capture, although
  the press was never seen (`selPressed` is either in `Init` of `Menu`).
* The credit slot is two 16-bit halves on either side. The RP writes the low one
  first and the 68000 reads the high one first, so a torn pair is the old
  sequence with the new frame number; the sequence changes only where that
  number is 0, which is credit for no frame. A tick is therefore one action.

**Bounds.** `MaxPresses` (3, or 2) covers a press before, during and after
another capture. The screen has 2 or 3 frames or chunks, enough for a first, a
middle and a last one. `SeqMod` is above `MaxPresses` but in `etv_wrap`, where 2
stands for the 256 of the code, and in `vbl`, where the last of three presses reuses
number 0. `RetryTicks` and `AbortTicks` keep several
resends within one wait (2 of 4; the code has 20 of 800). `RingWords` is 41 with
`FrameWords` 9 and `BeginWords` 1, one more than the `RingLimit` of the proof:
what the small instance can have on the way. `Stalls` says how many
transport timeouts one PNG write spans: in `vbl` 2 and 5, below the attempts of one
command and the longest below those of two of the three chunks, so that a stall
spans a whole command and runs into the next ones. In `link` any turn is slow by any
number of timeouts as long as they are `MaxStalls` (3) in all, one less than the 4
attempts: enough for the resolution to fail, and for a key to be lost, when all of
them fall on one command, and both properties hold up to the last timeout that
their conditions allow and not beyond it. In `launch_safety`, three turns stand for
the ten of each hold, which is enough for the ST to see a value never, once and repeatedly; two
of the four attempts tell the first from the last; the entries and pages have
the sizes of the code (127 and 256 bytes, two pages), so that the last entry
begins at the end of the first page; one `Noise` value, that is no default and no
mode, stands for all; two power cuts let a second fall on the repair after the first. `menu` has a page of two rows, a list of three and four files, so
that there is a full page, a page of one and a file that does not fit; one
second of arming and two of counting. In `link` the header is 2, a value that
sizes, tokens and keys take as well, one split per command puts every boundary
between words at a turn, and the frames go from 254 through 255. In
`files_safety` three numbers and two suffixes start from every possible card;
the four formats let rows, stored blocks and the staging buffer end together,
next to each other and apart, and a write fails at every field or at none.

**Fairness.** `EtvStream!FairSpec` asks that the 200 Hz interrupt keeps coming
and that the service loop keeps turning, each as one weakly fair action: both
are unconditional loops. `MCEtvStream!PromptSpec` also restricts the order: the
loop turns every 2 ms and drains the ring, the timer ticks every 5 ms, so a tick
finds the ring empty unless a PNG is being written, and that ends within
`StallTicks` ticks, below the abort limit of 4 s. `VblGrabber!FairSpec` is the
same for the vertical blank. `Launch!FairSpec` and `PowerOnSpec` ask that the
RP's program and the 68000 run; nothing is assumed of the user, who may never
leave the menu, so `ReachesDesktop` starts where the menu ends. `Menu` asks that
the loop turns and that time passes, `MenuLink` that the menu loop and the print
loop turn; in both the choice of keys is free. The runs of `Launch`, `PowerOn`
and `Menu` do not check for deadlock: after the jump to Booster, and where the
menu ends, the program described is gone. `Launch`
assumes one thing about time: an ST that is in its print loop polls within the
250 ms of `gotoBooster`, one that waits in its transport does not (one of its
four timeouts alone is longer).

## Proofs

`EtvStreamProofs` proves, for every number of frames, retry and abort limit and
number of presses, with loss, stalls and resets: `TypeCorrect`, and, when the
session has fewer presses than the sequence has values (`NoWrap`, which the run
`etv_wrap` shows to be needed), `CreditCorrect`, `CompleteCorrect` and
`LogCorrect` (the refinement of `CaptureLog`).

`CreditEarned` is not inductive. `IInv` adds: a sequence number is the number
of its press on both sides and in the ring (`SeqInv`); a credit that is not
withdrawn belongs to the snapshot being received (`AckInv`); a snapshot about to
be taken is newer than everything under way (`FreshInv`); the ring holds nothing
older than what is being received, only frames of it, and no BEGIN of it once
frames arrived (`RingInv`); the receiver's mask is the handler's frame counter
or one ahead (`ProgressInv`); the ring is in the order of the snapshots, and
within one no BEGIN follows a frame (`OrderInv`); and the buffer is what the mask says, while a saved
screen is older than any open capture (`ScreenInv`). One lemma per action
preserves it.

`RingCorrect` says that the DMA does not lap the reader (`NoRingOverrun`) if the
ring has more than `RingLimit` words: the copies of the largest frame that fit
into one wait, one more on either side of its credit, and the BEGINs of two
presses. With the numbers of the code, 40 copies of 262 words, that is
13244 of 16384 words, however long the service loop is away. The invariant behind
it (`RoomInv`) adds to the words in the ring those that may still be sent before
the ring is drained (`Reserve`, `BeginReserve`): resends are counted by the abort
clock, which is never ahead of the retry clock (`ClockInv`), and without fresh
credit nothing new is sent.

`LaunchProofs` proves `LaunchTyped`, `HookOnDesktop` and `NothingSpurious` for
any length of the holds, any number of attempts and resets. The invariant says
what the sentinel can hold at each stage of the RP (`SentinelInv`), that slot 4
holds the choice from START on (`PublishedInv`), that the flag of `rom_function`
tells whether the grabber is on the vector (`GuardInv`), and that the ST stays
behind the RP (`OrderInv`).

`SettingsProofs` proves `StoreTyped`, `SettingsKept` and `CutNeverMixes` of
`StoreSpec`, for any entries and values and any sizes of entry and page, as long
as the sector has room for them (`SectorAssumption`). The invariant says
that an entry in a sector that is torn and names a setting holds what it is to hold
or noise (`TornInv`), and that the sector, while it is programmed, holds what the
pages done so far hold (`SaveInv`). That nothing is programmed before the first page
and all after the last is arithmetic of entries and pages (`NothingProgrammed`,
`AllProgrammed`); what the loader makes of a whole image is `ImageLoads`.

`PowerOnProofs` puts the two together: every step of `PowerOn` is one of the store
or leaves it alone (`UsesStore`), and one of the launch or a power cycle, so that
`HookOnDesktop`, `NothingSpurious`, `KeepsSettings` and `NeverMixes` hold of
`PowerOnSpec`. `ShownIsSaved` needs three facts of both parts, as long as memory has
not run out: the entries are in RAM from the load on (`RamInv`), they are what the
sector holds whenever no save is due (`SavedInv`), and the hook follows its entry
(`HookInv`). `EntriesAssumption` says that the two entries exist and may hold the
modes.

`PngFilesProofs` proves `FilesTyped`, and from the assumption `~LateCard` (the
card is there before the first capture, which `files_overwrite` shows to be needed)
`NeverOverwrites` and `ContinuesPast`, for any number of files and suffixes:
once valid, the counter is past every screenshot, and the file being written is
none. Every step of `PngFiles` is one of `SnapshotFiles` or a stutter
(`PngImplementsFiles`), so that the same holds whatever a write leaves behind.

It also proves what is in the files, `WholeIsPng` and `PreviewFaithful`, for
pictures of any size and any sizes of the buffer and of the stored blocks. `Part`
says what a file of the picture holds at each place, as far as it goes: byte i of
the raw image stands behind the heads of `NumBlocks(i)` blocks. The invariant
`ContentsInv` says that the last file is such a part and that the writer was told
to write one (`Told`): after k bytes, `Stream` gives the length of it, the room in
the open block, and what both checksums have been computed from. `Writes` splits
that into file and buffer, or, once a write has failed, leaves the file a beginning
of it; so `WholeIsPng` needs only that the whole of it is a PNG (`CompleteIsPng`),
and `PreviewFaithful` that the reader makes the picture or nothing of any part
(`PreviewPart`). Both readers are recursive functions, which a prover knows
nothing about until they are shown to exist (`ReadsExist`, `WalkExists`,
`InflateExists`); what they compute is an induction over the set of the numbers
for which it is so (`Least`, `Induction`).

`MenuProofs` proves every safety property of `Menu`, for any length of list and
page. The invariant holds at every block, not only between turns: a request is
cleared by its block (`RequestInv`); the selection is in the list and on the page
(`RangeInv`: clamping the index and the page each on its own keeps them
together, `ClampTogether`); what is drawn is current, but for the countdown of a
menu that leaves (`DrawnInv`); the picture and the index kept for it agree with
the mode, which is why a block that redraws may find its picture still valid
(`PreviewInv`); and a touch has stopped the countdown (`TouchInv`).

`VblGrabberProofs` proves `VblTypeCorrect`, `VblInvariance` and, for any number
of chunks, attempts and presses and any stalls, `CleanLogCorrect`: a session
that is `Calm` implements `CaptureLog`. The difficulty is that the transport
takes any answer for its own. While the RP is away the token stands still, so
every command sent then waits for the same one (`TokenInv`, `WaitInv`); the
first of them is handled afterwards, the others are dropped, and the handler is
told that its current command arrived. So the receiver may be several commands
behind the handler. It is harmless while both are within one snapshot:
`OrderInv` says that the ring is in the order of sending and that a command with
an old token is one the handler has left behind, and `BudgetInv` that the
timeouts since a BEGIN that still waits in the ring were spent in one stall, so
that a calm one ends before the handler is through with the snapshot. With that, the buffer holds
what the mask says (`ReceivingInv`, `ScreenInv`) and a snapshot about to be
taken is newer than everything under way (`FreshInv`). `IInv` asks all but the
types of calm sessions only, and one lemma per action preserves it.

`AckCorrect` is `AckMeansReceived` for any session in which no stall outlasts the
attempts of one command (`Patient`). Then the answer that comes in a stall is one
to the command still being tried: the copies in the ring are all of it, or older
than it (`CopyInv`, `NewInv`), the timeouts of the stall were spent on it
(`StallInv`), and once its token is answered it has been handled
(`AnsweredInv`).

`MenuLinkProofs` proves every safety property of `MenuLink`, for any number of
keys, attempts and splits, turns of any length and any word for a header. It starts with the
parser. That `ParseAll` keeps only commands that were sent whole, each ending in a
checksum that is in the ring (`Genuine`), and keeps one whenever the ring starts with
a whole command (`WholeKept`), is an induction over the words. The induction theorems
of the library take a predicate, which no prover here can instantiate, so the
induction runs over the set of the positions that have the property (`Least`,
`Induction`), and the function that `ParseAll` defines is first shown to exist
(`RunExists`). `WireInv` says what is on the wire: words of commands with a token the
seed has been, in `out` and then in `ring`, ending with the checksum of the command
being tried until a turn has begun; a command leaves the parser, and a key the
terminal, to be dealt with at once. `OrderInv` says that the keys on their way are
in order and none is older than the one acted upon, which is what `KeyLogCorrect`
(the refinement of `KeyLog`) needs. For `ActsOnceCorrect`, `CopiesInv` counts the
copies of a key that acted, are in the ring, in the terminal or being sent: never
more than one and those that a timeout in a slow turn has paid for. A retry adds a
copy; where no such timeout pays for it, because the loop has turned and not answered, an earlier copy is gone
(`Accounted`), by a parser that took an older command or none. `RezCorrect` needs
`RezInv`: while the menu does not know the resolution no key was sent and no token
was answered, each attempt in vain was paid for by a timeout in a slow turn or a split (`Paid`), and
before the next can be in vain for nothing a whole command stands first in the ring
(`Whole`). The condition of `RezKnown` (`Spare`) leaves more attempts than that.

What only TLC says, on the small instances: liveness.

## Plan

What is left: creation of the folder and the remount in `sdcard.c`, on top of
`SnapshotFiles`.

## Not modelled

u8g2 is a vendored graphics library, and with more than two thirds of the lines
of the repository the reason why the models cover a small share of them. The
display code, fonts, the generated firmware image, PIO/DMA set-up and the build
tooling have no control state. `network.c` and `download.c` are linked into the
program and never called by it; neither are `settings_erase`, the line editor
and the commands of `term.c`, the debounced helpers and the core-1 loop of
`select.c`: a model of them would have no environment to run in. Colour
conversion, palettes and the scaling of the preview are data: the models only say
which snapshot they came from. The Booster's global configuration is read once,
and is one bit (`registered`). `Launch` leaves out a restart of the RP under a
running ST and an installer that finds no memory; `SnapshotFiles` leaves out
files that this program did not write, and a read error in the middle of the
scan; `MenuLink` leaves out a checksum that matches by chance.
