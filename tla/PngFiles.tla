------------------------------ MODULE PngFiles ------------------------------
(***************************************************************************)
(* The contents of the snapshot files: the streaming writer                *)
(* (rp/src/png_writer.c), which lays out an indexed PNG without ever       *)
(* holding it, and the reader of the menu's preview                        *)
(* (rp/src/preview_overlay.c).  SnapshotFiles says which file is written;  *)
(* here every f_write of it may fail half-way.                             *)
(*                                                                         *)
(* A file is a sequence of tokens, each standing for a field: a signature, *)
(* the head of a chunk, a checksum with what it was computed from, a pixel *)
(* with its place in the picture.                                          *)
(***************************************************************************)
EXTENDS SnapshotFiles, Sequences, FiniteSetsExt

CONSTANTS
  Format,        \* formats tried, see below
  NoFault        \* a number of tokens no file has

ASSUME FormatAssumption ==
  /\ Format \subseteq [width : Nat, height : Nat \ {0},
                       block : Nat \ {0},      \* PNG_STORED_BLOCK_MAX
                       buffer : Nat \ {0}]     \* sizeof(pw->buf)
  /\ NoFault \in Nat

VARIABLES
  format,
  image,         \* the file written last, as it is on the card
  pw             \* png_writer_t

pngVars == <<format, image, pw>>
allVars == <<vars, pngVars>>

Signature == <<"signature">>
Header == <<"dimensions", format.width, format.height>>
Palette == <<"palette">>
ChunkHead(type, n) == <<"head", type, n>>
Crc(type, data) == <<"crc", type, data>>
Zlib == <<"zlib">>
BlockHead(final, n) == <<"block", final, n>>
Adler(data) == <<"adler", data>>

(* The raw image: a filter byte before each row.                           *)
RowLength == format.width + 1
RawLength == format.height * RowLength
RawByte(i) == IF i % RowLength = 1 \/ RowLength = 1 THEN <<"filter">> ELSE <<"pixel", i>>
RawImage == [i \in 1 .. RawLength |-> RawByte(i)]

-----------------------------------------------------------------------------
(* The writer.  fault counts the tokens until f_write fails, once.         *)
Write(w, data) ==
  LET bw == IF Len(data) <= w.fault THEN Len(data) ELSE w.fault
  IN  [w EXCEPT !.out = @ \o SubSeq(data, 1, bw),
                !.fault = IF bw = Len(data) THEN @ - bw ELSE NoFault,
                !.error = @ \/ bw # Len(data)]

Flush(w) ==
  LET empty == [w EXCEPT !.buf = << >>]
  IN  IF w.error \/ w.buf = << >> THEN empty ELSE Write(empty, w.buf)

Emit(w, token) ==
  LET staged == [w EXCEPT !.crc = Append(@, token), !.buf = Append(@, token)]
  IN  IF Len(staged.buf) = format.buffer THEN Flush(staged) ELSE staged

RawAfterError(w, data) == Write(Flush(w), data)                    \* a mutant
Raw(w, data) ==
  LET flushed == Flush(w)
  IN  IF flushed.error THEN flushed ELSE Write(flushed, data)

Chunk(w, type, data) ==
  Raw(Raw(Raw(w, <<ChunkHead(type, Len(data))>>), data), <<Crc(type, data)>>)

FullBlocks(raw) == raw \div format.block                           \* a mutant
NumBlocks(raw) == (raw + format.block - 1) \div format.block

Fresh(fault) ==
  [out |-> << >>, buf |-> << >>, crc |-> << >>, adler |-> << >>,
   raw |-> 0, block |-> 0, error |-> FALSE, fault |-> fault]

(* png_writer_begin.  The length of IDAT is written before its data.       *)
Begin(fault) ==
  LET heads == Chunk(Chunk(Raw(Fresh(fault), <<Signature>>),
                           "IHDR", <<Header>>), "PLTE", <<Palette>>)
      length == 1 + RawLength + NumBlocks(RawLength) + 1
  IN  [Emit(Raw(heads, <<ChunkHead("IDAT", length)>>), Zlib)
         EXCEPT !.raw = RawLength, !.block = 0]

(* png_emit_raw_byte opens a stored block when none is open.               *)
InBlock(w) ==
  IF w.block > 0 THEN w
  ELSE LET blen == Min({w.raw, format.block})
       IN  [Emit(w, BlockHead(w.raw <= format.block, blen)) EXCEPT !.block = blen]

EmitRawByte(w, byte) ==
  [Emit(InBlock(w), byte) EXCEPT !.block = @ - 1, !.raw = @ - 1,
                                 !.adler = Append(@, byte)]

Finish(w) ==
  LET summed == Emit(w, Adler(w.adler))
  IN  Flush(Chunk(Raw(summed, <<Crc("IDAT", summed.crc)>>), "IEND", << >>))

-----------------------------------------------------------------------------
(* The reader of the preview.  A byte of IDAT is there if the chunk and    *)
(* the file go that far.                                                   *)
Nothing == <<"nothing">>
At(f, i) == IF i \in 1 .. Len(f) THEN f[i] ELSE <<"eof">>

(* decodeIdat: the pixels it gathers from data, or Nothing.                *)
DecodeIdat(data) ==
  LET Failed == [ok |-> FALSE, pos |-> 0, block |-> 0]
      Next1(s) ==                   \* idatReadRawByte
        LET h == At(data, s.pos + 1) IN
        IF s.block > 0 THEN [s EXCEPT !.pos = @ + 1, !.block = @ - 1]
        ELSE IF h[1] = "block" THEN [s EXCEPT !.pos = @ + 2, !.block = h[3] - 1]
        ELSE Failed
      read[i \in 0 .. RawLength] ==
        IF i = 0 THEN [ok |-> At(data, 1) = Zlib, pos |-> 1, block |-> 0]
        ELSE CHOOSE r \in {IF s.ok THEN Next1(s) ELSE s : s \in {read[i - 1]}} : TRUE
      bytes == [i \in 1 .. RawLength |-> At(data, read[i].pos)]
  IN  IF /\ read[RawLength].ok
         /\ \A i \in 1 .. RawLength :
              /\ bytes[i] # <<"eof">>
              /\ RawByte(i) = <<"filter">> => bytes[i] = <<"filter">>
      THEN bytes ELSE Nothing

(* decodePngToOverlay walks the chunks and trusts no checksum.             *)
Preview(f) ==
  LET walk[at \in Nat \X SUBSET {"IHDR", "PLTE"}] ==
        LET p == at[1]
            have == at[2]
            h == At(f, p)
            field == At(f, p + 1)
        IN  IF h[1] # "head" THEN Nothing
            ELSE IF \/ h[2] = "IHDR" /\ field = Header
                    \/ h[2] = "PLTE" /\ field # <<"eof">>
                 THEN walk[<<Min({p + h[3] + 2, Len(f) + 1}), have \union {h[2]}>>]
            ELSE IF h[2] = "IDAT" /\ have = {"IHDR", "PLTE"}
                 THEN DecodeIdat(SubSeq(f, p + 1, Min({p + h[3], Len(f)})))
            ELSE Nothing
  IN  IF At(f, 1) = Signature THEN walk[<<2, {}>>] ELSE Nothing

-----------------------------------------------------------------------------
(* Capturing a screen.                                                     *)
FileLength == 14 + RawLength + NumBlocks(RawLength)

OpenPng(suffix) ==
  /\ Open(suffix)
  /\ \E fault \in 0 .. FileLength \union {NoFault} : pw' = Begin(fault)
  /\ image' = << >>
  /\ UNCHANGED format

RowDone == pw.raw % RowLength = 0

(* png_writer_row goes on to the end of the row after an error.            *)
PutByte ==
  /\ ~Idle /\ pw.raw > 0 /\ ~(RowDone /\ pw.error)
  /\ pw' = EmitRawByte(pw, RawByte(RawLength - pw.raw + 1))
  /\ UNCHANGED <<vars, format, image>>

Close(content) ==
  /\ pw' = Fresh(0) /\ image' = content
  /\ UNCHANGED format

RowFails ==
  /\ ~Idle /\ RowDone /\ pw.error
  /\ WriteFails /\ Close(pw.out)

(* The file has size 0 on the card until f_close.                          *)
PngEnd ==
  /\ ~Idle /\ pw.raw = 0 /\ ~pw.error
  /\ \E w \in {Finish(pw)} :
       \/ w.error /\ WriteFails /\ Close(w.out)
       \/ ~w.error /\ Written /\ Close(w.out)
       \/ ~w.error /\ CloseFails /\ Close(<< >>)

PngPowerCycle ==
  /\ PowerCycle
  /\ Close(IF Idle THEN image ELSE << >>)

PngInit ==
  /\ Init
  /\ format \in Format
  /\ image = << >> /\ pw = Fresh(0)

PngNext ==
  \/ \E suffix \in Suffix : OpenPng(suffix)
  \/ PutByte \/ RowFails \/ PngEnd
  \/ PngPowerCycle
  \/ (OpenFails \/ Insert) /\ UNCHANGED pngVars

PngSpec == PngInit /\ [][PngNext]_allVars

-----------------------------------------------------------------------------
(* What the PNG and DEFLATE standards ask of a file, written as a reader   *)
(* that trusts nothing: every chunk in its place with its length and       *)
(* checksum, every stored block full, the last one marked, nothing after.  *)
Inflate(data) ==
  LET from[p \in Nat] ==
        IF ~(p \in 1 .. Len(data) /\ data[p][1] = "block" /\ p + data[p][3] <= Len(data))
        THEN <<Nothing>>
        ELSE LET n == data[p][3] IN
             SubSeq(data, p + 1, p + n)
               \o IF data[p][2] THEN IF p + n + 1 = Len(data) THEN << >> ELSE <<Nothing>>
                  ELSE from[p + n + 1]
  IN  from[2]

IsChunk(f, p, type, n) ==
  /\ p + n + 1 <= Len(f)
  /\ f[p] = ChunkHead(type, n)
  /\ f[p + n + 1] = Crc(type, SubSeq(f, p + 1, p + n))

IsPng(f) ==
  /\ Len(f) > 8 /\ f[1] = Signature
  /\ IsChunk(f, 2, "IHDR", 1) /\ f[3] = Header
  /\ IsChunk(f, 5, "PLTE", 1) /\ f[6] = Palette
  /\ LET n == Len(f) - 11
         data == SubSeq(f, 9, 8 + n)
     IN  /\ IsChunk(f, 8, "IDAT", n)
         /\ data[1] = Zlib /\ Inflate(data) = RawImage
         /\ data[n] = Adler(RawImage)
         /\ IsChunk(f, 10 + n, "IEND", 0)

(* A capture that is reported as done left a file that any PNG reader, and *)
(* the menu's own, shows as the screen captured (README.md:7): the length  *)
(* of IDAT, written before its data, came true, blocks and buffer fit.     *)
WholeIsPng ==
  [][Written => IsPng(image') /\ Preview(image') = RawImage]_allVars

(* Whatever failed while a file was written, the preview shows it as it    *)
(* was captured or not at all.                                             *)
PreviewFaithful == Idle => Preview(image) \in {Nothing, RawImage}
=============================================================================
