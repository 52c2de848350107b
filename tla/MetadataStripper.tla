-------------------------- MODULE MetadataStripper --------------------------
(***************************************************************************)
(* MetadataStripper (src/metadata_strip.rs): strip_file and has_metadata   *)
(* for each format. A JPEG is its bytes. Of the other formats a file is    *)
(* the sequence of the pieces their loops tell apart:                      *)
(*   PNG     its chunks, each [type, size]; size is what is there of it,   *)
(*           all of it unless it is the last chunk                         *)
(*   PDF     keys of the info dictionary, parentheses, text, and "raw",    *)
(*           bytes that are no UTF-8                                       *)
(*   Office  <<"open", tag>>, <<"close", tag>>, text, and <<"raw">>        *)
(*   MP3     <<"ID3", n>>, a header that claims the n pieces behind it;    *)
(*           <<"TAG">>, as long as an ID3v1 tag; and sound                 *)
(*   MP4     keys, NULs and other bytes                                    *)
(***************************************************************************)
EXTENDS Integers, Sequences, FiniteSets, SequencesExt, FiniteSetsExt

CONSTANTS
  Samples,       (* the <<format, contents>> to start from                 *)
  PdfKeys, OfficeTags, Mp4Keys,   (* in the order the code looks for them  *)
  ValueCap       (* how much of an MP4 value is zeroed at most             *)

VARIABLES format, file, phase, held, disturbed, before

vars == <<format, file, phase, held, disturbed, before>>

Nowhere == 0

(* The first of the pieces in `ts` at or behind `from`.                    *)
FindFrom(d, from, ts) ==
  LET at == {i \in from..Len(d) : d[i] \in ts} IN IF at = {} THEN Nowhere ELSE Min(at)

Find(d, t) == FindFrom(d, 1, {t})

-----------------------------------------------------------------------------
(* JPEG, from the byte p on; p may lie behind the end.                     *)
SOI == <<255, 216>>
APP1 == 225
SOS == 218

IsJpeg(d) == Len(d) >= 4 /\ SubSeq(d, 1, 2) = SOI
Standalone(marker) == marker \in {0, 1} \cup 208..215

(* The marker and the bytes its length field counts. *)
Total(d, p) == 2 + 256 * d[p + 2] + d[p + 3]

(* What is dropped is looked at first: a segment that is too short for its *)
(* length field, or reaches behind the end, panics.                        *)
PayloadFits(d, p) ==
  LET shown == Min({Total(d, p), Len(d)}) IN shown >= 4 /\ p - 1 + shown <= Len(d)

(* A lone byte at the end, where a marker was expected, is lost.           *)
StripJpeg(d) ==
  LET rest == [out |-> <<>>, panics |-> FALSE]
      Copying(p, q, r) == [r EXCEPT !.out = SubSeq(d, p, q) \o @]
      from[p \in Nat] ==
        IF p + 1 > Len(d) THEN rest
        ELSE IF d[p] # 255 \/ d[p + 1] = SOS THEN Copying(p, Len(d), rest)
        ELSE IF Standalone(d[p + 1]) THEN Copying(p, p + 1, from[p + 2])
        ELSE IF p + 3 > Len(d) THEN Copying(p, Len(d), rest)
        ELSE IF d[p + 1] # APP1
          THEN Copying(p, Min({p + Total(d, p) - 1, Len(d)}), from[p + Total(d, p)])
        ELSE IF PayloadFits(d, p) THEN from[p + Total(d, p)]
        ELSE [rest EXCEPT !.panics = TRUE]
  IN  IF IsJpeg(d) THEN Copying(1, 2, from[3]) ELSE [out |-> d, panics |-> FALSE]

JpegHasApp1(d) ==
  LET from[p \in Nat] ==
        /\ p + 3 <= Len(d) /\ d[p] = 255 /\ d[p + 1] # SOS
        /\ IF Standalone(d[p + 1]) THEN from[p + 2]
           ELSE d[p + 1] = APP1 \/ from[p + Total(d, p)]
  IN  IsJpeg(d) /\ from[3]

-----------------------------------------------------------------------------
TextChunks == {"tEXt", "iTXt", "zTXt"}

(* Less than a chunk without data is trailing bytes, whatever it begins with. *)
IsTextChunk(c) == c.size >= 12 /\ c.type \in TextChunks

StripPng(d) == SelectSeq(d, LAMBDA c : ~IsTextChunk(c))
PngHasTextChunks(d) == \E i \in DOMAIN d : IsTextChunk(d[i])

(* The value of the first mention of a key is between the next parenthesis *)
(* and the first one that closes: the pieces from..to, both included.      *)
PdfValue(d, key) ==
  LET at == Find(d, key)
      open == IF at = Nowhere THEN Nowhere ELSE FindFrom(d, at + 1, {"("})
      close == IF open = Nowhere THEN Nowhere ELSE FindFrom(d, open, {")"})
  IN  [from |-> open, to |-> close]

HasValue(v) == v.to # Nowhere /\ v.to > v.from + 1

(* What is no UTF-8 is replaced, before anything else and for good.        *)
Lossy(d, raw, replacement) == [i \in DOMAIN d |-> IF d[i] = raw THEN replacement ELSE d[i]]

PdfText(d) == Lossy(d, "raw", "U+FFFD")
OfficeText(d) == Lossy(d, <<"raw">>, <<"U+FFFD">>)

Without(d, from, to) == SubSeq(d, 1, from - 1) \o SubSeq(d, to + 1, Len(d))


BlankedPdf(d, key) ==
  LET v == PdfValue(d, key) IN IF HasValue(v) THEN Without(d, v.from + 1, v.to - 1) ELSE d

StripPdf(d) == FoldLeft(BlankedPdf, PdfText(d), PdfKeys)
PdfHasInfoFields(d) == \E i \in DOMAIN PdfKeys : HasValue(PdfValue(PdfText(d), PdfKeys[i]))

(* The content of the first element of a tag. *)
BlankedOffice(d, tag) ==
  LET open == Find(d, <<"open", tag>>)
      close == IF open = Nowhere THEN Nowhere ELSE FindFrom(d, open + 1, {<<"close", tag>>})
  IN  IF close = Nowhere THEN d ELSE Without(d, open + 1, close - 1)

StripOffice(d) == FoldLeft(BlankedOffice, OfficeText(d), OfficeTags)

Id3v2(d) == {i \in DOMAIN d : d[i][1] = "ID3"}
Id3v1(d) == {i \in DOMAIN d : d[i] = <<"TAG">>}

(* The head tag if all it claims is there; then the tail tag.              *)
StripMp3(d) ==
  LET body == IF Len(d) > 1 /\ 1 \in Id3v2(d) /\ 1 + d[1][2] <= Len(d)
                THEN SubSeq(d, 2 + d[1][2], Len(d)) ELSE d
  IN  IF Len(body) \in Id3v1(body) THEN Front(body) ELSE body

Mp3HasId3(d) == 1 \in Id3v2(d) \/ Len(d) \in Id3v1(d)

(* The value behind the first mention of a key, up to a NUL.               *)
ZeroedMp4(d, key) ==
  LET at == Find(d, key)
      nul == FindFrom(d, at + 1, {"NUL"})
      end == Min({at + ValueCap, Len(d)} \cup (IF nul = Nowhere THEN {} ELSE {nul}))
  IN  IF at = Nowhere THEN d
      ELSE [i \in DOMAIN d |-> IF i \in (at + 1)..end THEN "NUL" ELSE d[i]]

StripMp4(d) == FoldLeft(ZeroedMp4, d, Mp4Keys)
Mp4HasMetadata(d) == \E i \in DOMAIN Mp4Keys : Find(d, Mp4Keys[i]) # Nowhere

-----------------------------------------------------------------------------
Stripped(d) ==
  CASE format = "Jpeg" -> StripJpeg(d).out
    [] format = "Png" -> StripPng(d)
    [] format = "Pdf" -> StripPdf(d)
    [] format = "Office" -> StripOffice(d)
    [] format = "Mp3" -> StripMp3(d)
    [] format = "Mp4" -> StripMp4(d)
    [] OTHER -> d

HasMetadata(d) ==
  CASE format = "Jpeg" -> JpegHasApp1(d)
    [] format = "Png" -> PngHasTextChunks(d)
    [] format = "Pdf" -> PdfHasInfoFields(d)
    [] format = "Office" -> TRUE
    [] format = "Mp3" -> Mp3HasId3(d)
    [] format = "Mp4" -> Mp4HasMetadata(d)
    [] OTHER -> FALSE

Init ==
  /\ format = "none" /\ file = <<>> /\ before = <<>>
  /\ phase = "idle" /\ held = <<>> /\ disturbed = FALSE

(* The call, for a file with these contents. *)
StripFile(ofFormat, contents) ==
  /\ phase' = "closed" /\ format' = ofFormat /\ file' = contents /\ before' = contents
  /\ UNCHANGED <<held, disturbed>>

(* It reads the file, strips what it holds in memory, then empties *)
(* the file and writes it: it is neither locked nor replaced as a whole.   *)
Read ==
  /\ phase = "closed"
  /\ IF format = "Jpeg" /\ StripJpeg(file).panics
       THEN phase' = "panicked" /\ UNCHANGED held
       ELSE phase' = "read" /\ held' = Stripped(file)
  /\ UNCHANGED <<format, file, disturbed, before>>

Truncate ==
  /\ phase = "read"
  /\ phase' = "writing" /\ file' = <<>>
  /\ UNCHANGED <<format, held, disturbed, before>>

(* What another program wrote meanwhile is left where it is longer. *)
Write ==
  /\ phase = "writing"
  /\ phase' = "done" /\ file' = held \o SubSeq(file, Len(held) + 1, Len(file))
  /\ UNCHANGED <<format, held, disturbed, before>>

(* Another program puts the old contents back. *)
Rewrite ==
  /\ phase \in {"read", "writing"} /\ ~disturbed
  /\ file' = before
  /\ disturbed' = TRUE
  /\ UNCHANGED <<format, phase, held, before>>

Next ==
  \/ phase = "idle" /\ \E s \in Samples : StripFile(s[1], s[2])
  \/ Read \/ Truncate \/ Write \/ Rewrite

-----------------------------------------------------------------------------
(* MP3: at most one tag of a kind, the first at the head and complete.     *)
TaggedOnce(d) ==
  /\ Cardinality(Id3v2(d)) <= 1 /\ Cardinality(Id3v1(d)) <= 1
  /\ \A i \in Id3v2(d) : i = 1 /\ Len(d) > 1 /\ 1 + d[1][2] <= Len(d)

MentionedOnce(d) ==
  \A k \in DOMAIN Mp4Keys : Cardinality({i \in DOMAIN d : d[i] = Mp4Keys[k]}) <= 1

=============================================================================
