------------------------------ MODULE MCAnalysis ------------------------------
(***************************************************************************)
(* TLC instances of ImageAnalysis: crawls of one image each, over thousands*)
(* of files whose directories point at each other in every way, and crawls *)
(* of several pages that refer to the same few images.                     *)
(***************************************************************************)
EXTENDS ImageAnalysis

E(tag, value) == [tag |-> tag, value |-> value]
Lat == E("latitude", 10)
Lon == E("longitude", 20)

\* Directories 1, 2 and 3; 9 is an offset outside the file.
FirstEntries == {E("exifIFD", 1), E("exifIFD", 2), E("exifIFD", 3), E("gpsIFD", 2),
                 E("gpsIFD", 3), E("exifIFD", 9), E("make", "A")}
First == {<<a, b>> : a, b \in FirstEntries}
Second == {<<>>, <<E("exifIFD", 1)>>, <<E("exifIFD", 2), E("make", "B")>>,
           <<E("make", "B"), E("exifIFD", 3)>>, <<E("exifIFD", 3), E("make", NoValue)>>,
           <<E("gpsIFD", 3), E("gpsIFD", 1)>>, <<Lat, Lon>>, <<Lon, Lat>>, <<Lat>>,
           <<Lat, E("altitude", 7), Lon>>, <<E("latitudeRef", "S"), Lat, Lon>>}
Third == {<<>>, <<E("make", "C")>>, <<E("exifIFD", 2)>>, <<E("gpsIFD", 2), E("make", "C")>>,
          <<Lat, Lon>>, <<E("longitude", 30), Lat>>, <<E("make", NoValue), E("exifIFD", 1)>>}

TIFF(a, b, c) == [format |-> "tiff", file |-> <<a, b, c>>]
Photo == <<<<E("make", "A"), E("gpsIFD", 2)>>, <<Lat, Lon>>, <<>>>>
Camera == <<<<E("make", "A")>>, <<>>, <<>>>>
Blank == <<<<>>, <<>>, <<>>>>

Exif(file) == [kind |-> "exif", file |-> file]
Text(tag, value) == [kind |-> "text", tag |-> tag, value |-> value]
Other == [kind |-> "other"]
End == [kind |-> "end"]
JPEG(parts) == [format |-> "jpeg", parts |-> parts]
PNG(parts) == [format |-> "png", parts |-> parts]

MCImages == {
  JPEG(<<Other, Exif(Photo), End>>),
  JPEG(<<Exif(Camera), Exif(Photo)>>),
  PNG(<<Exif(Blank), Text("software", "s"), Text("software", "t"), End, Exif(Photo)>>)}

MCPage(url, image, refs, listed) ==
  [url |-> url, image |-> image, refs |-> refs, listed |-> listed]
Html(url, refs) == MCPage(url, NoImage, refs, {})

MCPageLists ==
  {<<MCPage("a", TIFF(x, y, z), <<>>, {})>> : x \in First, y \in Second, z \in Third}
  \cup {<<MCPage("a", i, <<>>, {})>> : i \in MCImages \cup {[format |-> "other", parts |-> <<>>]}}
  \cup {<<Html("/", <<"a", "elsewhere", "a", "/robots.txt", "c">>),
          MCPage("/robots.txt", NoImage, <<>>, {Item("disallowed path", "p")}),
          Html("/more", <<"/robots.txt", "c">>)>>,
        <<Html("/", <<"data:">>),
          MCPage("a", JPEG(<<Exif(NoFile), Exif(Photo)>>), <<>>, {}),
          Html("/more", <<"/robots.txt", "a">>)>>}

MCHandshakes == {
  {Item("hostname", "h"), Item("weakness", "expired"), Item("weakness", "version")}, {}}
MCListings == {{}, {"p"}}
=============================================================================
