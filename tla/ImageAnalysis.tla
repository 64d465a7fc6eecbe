------------------------------ MODULE ImageAnalysis ------------------------------
(***************************************************************************)
(* The loop over pages and analyzers of Analysis, with the images as       *)
(* ImageMetadata reads them (internal/analyzer/metadata/metadata.go).      *)
(***************************************************************************)
EXTENDS Analysis, ImageMetadata

\* A file ends, and a directory is a sequence of entries.
ASSUME FilesAssumption ==
  \A ps \in PageLists : \A i \in DOMAIN ps : ps[i].image # NoImage =>
    \A file \in FilesOf(ps[i].image) :
      /\ IsFiniteSet(DOMAIN file)
      /\ \A offset \in DOMAIN file : file[offset] \in Seq(ToSet(file[offset]))

\* What inspectImage makes of an image; the value of EvidenceIn.
ImageEvidence(image, url) == ToEvidence(ParseImage(image), url)

\* However the directories of an image point at each other, at themselves or
\* nowhere, each is read at most once, and a file within the limits is read
\* as a whole and reported as what it says (parseIFD, parseGPSIFD).
ImagesReadSoundly ==
  analyzer = "metadata" /\ ref = 0 /\ Page.image # NoImage
    => \A file \in FilesOf(Page.image) : ReadOnce(file) /\ SaysWhatIsThere(file)
=============================================================================
