----------------------------- MODULE ImageMetadata -----------------------------
(***************************************************************************)
(* What the metadata analyzer reads out of an image                        *)
(* (internal/analyzer/metadata/metadata.go): the segments of a JPEG, the   *)
(* chunks of a PNG, and the TIFF directories (IFDs) they hold, which point *)
(* at each other as the server that sent the image likes.                  *)
(*                                                                         *)
(* A TIFF file is a function from the offsets at which a directory can be  *)
(* read to its entries, up to the end of the file.  Entries that have no   *)
(* effect (a count out of range, a pointer or coordinate of the wrong type)*)
(* are left out; a text outside the file or blank is NoValue.              *)
(***************************************************************************)
EXTENDS Integers, Sequences, SequencesExt

CONSTANTS
  Start,         \* the offset of the first directory
  MaxDepth,      \* 4: how deep parseIFD follows pointers
  MaxEntries,    \* 120: entries read of a directory
  MaxGPSEntries, \* 50: entries read of a GPS directory
  NoValue,       \* an empty string, or nothing
  NoFile         \* bytes that are no TIFF file

ASSUME ImageAssumption ==
  /\ MaxDepth \in Nat
  /\ MaxEntries \in Nat /\ MaxGPSEntries \in Nat

TextTags == {"make", "model", "software", "dateTime", "artist", "lensModel"}

NoMetadata == [t \in TextTags \cup {"gps", "altitude"} |-> NoValue]

Read(file, offset, most) ==
  SubSeq(file[offset], 1, IF Len(file[offset]) < most THEN Len(file[offset]) ELSE most)

\* The value of the last entry of entries with the tag.
LastOf(entries, tag) ==
  LET at == {i \in DOMAIN entries : entries[i].tag = tag} IN
  IF at = {} THEN NoValue ELSE entries[Max(at)].value

\* A position needs both coordinates, in one directory; only "S" and "W" make
\* a coordinate negative, wherever in the directory they are.
Position(entries) ==
  IF LastOf(entries, "latitude") = NoValue \/ LastOf(entries, "longitude") = NoValue
  THEN NoValue
  ELSE [latitude |-> LastOf(entries, "latitude"), south |-> LastOf(entries, "latitudeRef") = "S",
        longitude |-> LastOf(entries, "longitude"), west |-> LastOf(entries, "longitudeRef") = "W"]

\* A walk has read directories, in this order, which is also the visited map,
\* and has said values of fields of the metadata, the later ones for good.
Nothing(read) == [read |-> read, said |-> <<>>]

Then(walk, more) == [read |-> more.read, said |-> walk.said \o more.said]

Metadata(said) == [t \in DOMAIN NoMetadata |-> LastOf(said, t)]

\* What is not there replaces nothing.
Say(tag, value) == IF value = NoValue THEN <<>> ELSE <<[tag |-> tag, value |-> value]>>

ParseGPSIFD(file, offset, read) ==
  IF offset \in ToSet(read) THEN Nothing(read)
  ELSE LET entries == Read(file, offset, MaxGPSEntries) IN
       [read |-> Append(read, offset),
        said |-> Say("gps", Position(entries)) \o Say("altitude", LastOf(entries, "altitude"))]

\* Texts are replaced even by a blank one; pointers into the file are followed
\* at once.  parse is parseIFD with a level less to go.
ParseEntry(file, parse, walk, e) ==
  CASE e.tag \in TextTags -> [walk EXCEPT !.said = Append(@, e)]
    [] e.tag = "exifIFD" /\ e.value \in DOMAIN file -> Then(walk, parse[walk.read][e.value])
    [] e.tag = "gpsIFD" /\ e.value \in DOMAIN file ->
         Then(walk, ParseGPSIFD(file, e.value, walk.read))
    [] OTHER -> walk

\* The walk after each entry of a directory that is read.
ParsingEntries(file, parse, read, offset) ==
  LET walk[n \in 0 .. Len(Read(file, offset, MaxEntries))] ==
        IF n = 0 THEN Nothing(Append(read, offset))
        ELSE ParseEntry(file, parse, walk[n - 1], Read(file, offset, MaxEntries)[n])
  IN walk

ParseEntries(file, parse, read, offset) ==
  ParsingEntries(file, parse, read, offset)[Len(Read(file, offset, MaxEntries))]

\* Mutant of Refused: the visited map is not asked.
RefusedByDepth(left, read, offset) == left = 0

\* parseIFD does not read a directory that is too deep, or read already, as a
\* directory of either kind.
Refused(left, read, offset) == left = 0 \/ offset \in ToSet(read)

\* parseIFD with so many levels to go: what was read and an offset in the file
\* to the walk.
ParseIFD(file) ==
  LET parse[left \in 0 .. MaxDepth + 1] ==
        [read \in Seq(DOMAIN file) |-> [offset \in DOMAIN file |->
           IF Refused(left, read, offset) THEN Nothing(read)
           ELSE ParseEntries(file, parse[left - 1], read, offset)]]
  IN parse

Walk(file) ==
  IF Start \in DOMAIN file THEN ParseIFD(file)[MaxDepth + 1][<<>>][Start] ELSE Nothing(<<>>)

\* An altitude alone is no metadata.
ParseTIFF(file) ==
  IF file = NoFile THEN NoMetadata
  ELSE LET meta == Metadata(Walk(file).said) IN
       IF \A t \in TextTags \cup {"gps"} : meta[t] = NoValue THEN NoMetadata ELSE meta

-----------------------------------------------------------------------------
(* Containers.  The parts of an image are its segments or chunks: "exif"   *)
(* with a TIFF file, "text" with a tag and its value, "end" where the    *)
(* pixels or the image end, or where a length leads out of the image, and  *)
(* "other".                                                                *)

BeforeEnd(parts) ==
  LET ends == {i \in DOMAIN parts : parts[i].kind = "end"} IN
  IF ends = {} THEN parts
  ELSE SubSeq(parts, 1, (CHOOSE i \in ends : \A j \in ends : i <= j) - 1)

\* The first Exif segment decides, whatever is in it.
ParseJPEG(parts) ==
  LET exifs == SelectSeq(BeforeEnd(parts), LAMBDA p : p.kind = "exif") IN
  IF exifs = <<>> THEN NoMetadata ELSE ParseTIFF(exifs[1].file)

\* The first eXIf chunk that holds metadata is all that is reported; without
\* one, the last text of each field.
ParsePNG(parts) ==
  LET chunks == BeforeEnd(parts)
      telling == SelectSeq(chunks, LAMBDA p : p.kind = "exif" /\ ParseTIFF(p.file) # NoMetadata)
      texts == SelectSeq(chunks, LAMBDA p : p.kind = "text" /\ p.value # NoValue)
  IN
  IF telling # <<>> THEN ParseTIFF(telling[1].file)
  ELSE Metadata(texts)

ParseImage(image) ==
  CASE image.format = "tiff" -> ParseTIFF(image.file)
    [] image.format = "jpeg" -> ParseJPEG(image.parts)
    [] image.format = "png" -> ParsePNG(image.parts)
    [] OTHER -> NoMetadata

\* Each item names the image it was found in.
ToEvidence(meta, url) ==
  LET item(tag, value) == [tag |-> tag, value |-> value, source |-> url] IN
  {item(t, meta[t]) : t \in {u \in TextTags \ {"make", "model"} : meta[u] # NoValue}}
  \cup (IF meta.make = NoValue /\ meta.model = NoValue THEN {}
        ELSE {item("camera", <<meta.make, meta.model>>)})
  \cup (IF meta.gps = NoValue THEN {} ELSE {item("gps", meta.gps)})
  \cup (IF meta.gps = NoValue \/ meta.altitude = NoValue THEN {}
        ELSE {item("altitude", meta.altitude)})

\* The TIFF files in an image.
FilesOf(image) ==
  (IF image.format = "tiff" THEN {image.file}
   ELSE {p.file : p \in {x \in ToSet(image.parts) : x.kind = "exif"}}) \ {NoFile}

-----------------------------------------------------------------------------
(* What the walk through a file should come to, from its pointers alone.   *)

Targets(file, offset, tag, most) ==
  {e.value : e \in {x \in ToSet(Read(file, offset, most)) : x.tag = tag}} \cap DOMAIN file

\* The chains of directories, without repetition, that Exif pointers make.
Chains(file) ==
  {c \in SeqOf(DOMAIN file, Cardinality(DOMAIN file)) :
     /\ c # <<>> /\ c[1] = Start /\ IsInjective(c)
     /\ \A i \in 1 .. Len(c) - 1 : c[i + 1] \in Targets(file, c[i], "exifIFD", MaxEntries)}

Reachable(file) == UNION {ToSet(c) : c \in Chains(file)}

GPSDirectories(file) ==
  UNION {Targets(file, d, "gpsIFD", MaxEntries) : d \in Reachable(file)}

\* No chain is cut off by MaxDepth, and no directory is of both kinds.
Wellformed(file) ==
  /\ \A c \in Chains(file) : Len(c) - 1 <= MaxDepth
  /\ Reachable(file) \cap GPSDirectories(file) = {}

\* However directories point at each other, each is read at most once, and
\* none that no chain of pointers leads to.  A wellformed file is read as a
\* whole.
ReadOnce(file) ==
  LET read == Walk(file).read IN
  /\ IsInjective(read)
  /\ ToSet(read) \subseteq Reachable(file) \cup GPSDirectories(file)
  /\ Wellformed(file) => ToSet(read) = Reachable(file) \cup GPSDirectories(file)

\* What is said of a wellformed file is in it: a text that one of its
\* directories has, and every text that none of them blanks; a position that
\* is whole in one GPS directory, and a position if one of them is whole.
SaysWhatIsThere(file) ==
  LET meta == Metadata(Walk(file).said)
      entries == UNION {ToSet(Read(file, d, MaxEntries)) : d \in Reachable(file)}
      values(t) == {e.value : e \in {x \in entries : x.tag = t}}
      positions == {Position(Read(file, d, MaxGPSEntries)) : d \in GPSDirectories(file)}
  IN
  Wellformed(file) =>
    /\ \A t \in TextTags :
         /\ meta[t] \in values(t) \cup {NoValue}
         /\ values(t) # {} /\ NoValue \notin values(t) => meta[t] # NoValue
    /\ meta.gps \in positions \cup {NoValue}
    /\ meta.gps = NoValue => positions \subseteq {NoValue}
=============================================================================
