-------------------------------- MODULE Analysis --------------------------------
(***************************************************************************)
(* The loop of scan.Run (internal/scan/scan.go) over the crawled pages, for*)
(* the analyzers that keep state from page to page and send requests of    *)
(* their own: tls and robots, which probe the target once per scan, and    *)
(* metadata, which fetches the images pages refer to.  Analyzers that only *)
(* look at the page are left out.  One goroutine runs the loop; the server *)
(* may answer a request with anything, or not at all.  What is read of an  *)
(* image is a parameter, which ImageAnalysis takes from ImageMetadata.     *)
(***************************************************************************)
EXTENDS Integers, Sequences, SequencesExt

CONSTANTS
  PageLists,      \* what a crawl may return: sequences of pages
  ImageURLs,      \* image URLs of the target's own origin
  Images,         \* what the server may send for an image
  EvidenceIn(_, _), \* image and URL -> the items of evidence in the image
  Handshakes,     \* sets of items that a TLS handshake may show
  Listings,       \* sets of sensitive paths a robots.txt or sitemap may list
  MaxImagesPage,  \* 5: images fetched for a page
  NoImage         \* a page that is no image

ASSUME AnalysisAssumption ==
  /\ \A ps \in PageLists :
       /\ ps # <<>> /\ ps \in Seq(ToSet(ps))
       /\ \A i \in DOMAIN ps : ps[i].refs \in Seq(ToSet(ps[i].refs))
  /\ MaxImagesPage \in Nat

VARIABLES
  \* A page has a url, an image (or NoImage), the references to images in its
  \* HTML in their order, those to other hosts included, and the items listed
  \* in it if it is a robots.txt or sitemap.xml.
  pages,          \* the crawl
  at,             \* the page being analyzed
  analyzer,       \* the next analyzer, the place in tls or robots, or "done"
  tlsVisited,     \* the target is in the visited map of the tls analyzer
  robotsVisited,  \* ... of the robots analyzer
  visited,        \* visited map of the metadata analyzer: image URLs
  ref,            \* position in the references of the page, 0 before them
  fetchedCount,   \* images fetched for the page
  evidence,       \* evidence of this call of Analyze
  findings,       \* findings so far; their order and repetition are left out
  \* history
  requested,      \* requests in their order
  told,           \* all that was received and calls for a report
  spent           \* page -> images fetched for it

vars == <<pages, at, analyzer, tlsVisited, robotsVisited, visited, ref,
          fetchedCount, evidence, findings, requested, told, spent>>

Page == pages[at]

Init ==
  /\ pages \in PageLists
  /\ at = 1 /\ analyzer = "tls"
  /\ tlsVisited = FALSE /\ robotsVisited = FALSE /\ visited = {}
  /\ ref = 0 /\ fetchedCount = 0 /\ evidence = {}
  /\ findings = {}
  /\ requested = <<>> /\ told = {} /\ spent = [i \in DOMAIN pages |-> 0]

\* No evidence, no finding.
Finding(rule, severity, items) ==
  IF items = {} THEN {} ELSE {[rule |-> rule, severity |-> severity, evidence |-> items]}

Item(tag, value) == [tag |-> tag, value |-> value]

\* A request of an analyzer.
Sent(name, url) == [analyzer |-> name, url |-> url]

Told(rule, items) == {[rule |-> rule, item |-> i] : i \in items}

-----------------------------------------------------------------------------
(* tls *)

Clearnet(items) == {i \in items : i.tag = "hostname"}
Weaknesses(items) == {i \in items : i.tag = "weakness"}

\* The target counts as visited before it is dialled.
DialTLS ==
  /\ analyzer = "tls"
  /\ tlsVisited' = TRUE
  /\ IF tlsVisited THEN analyzer' = "robots" /\ UNCHANGED <<evidence, requested, told>>
     ELSE /\ requested' = Append(requested, Sent("tls", "https"))
          /\ \/ analyzer' = "robots" /\ UNCHANGED <<evidence, told>>
             \/ \E shown \in Handshakes :
                  /\ analyzer' = "tls findings"
                  /\ evidence' = shown
                  /\ told' = told \cup Told("SEC-001", Clearnet(shown))
                                  \cup Told("SEC-002", Weaknesses(shown))
  /\ UNCHANGED <<pages, at, robotsVisited, visited, ref, fetchedCount, findings, spent>>

\* One finding for all clearnet names of the certificate, and one for each of
\* an expired certificate, an old version and a weak cipher.
FindingsOfTLS(items) ==
  Finding("SEC-001", 3, Clearnet(items))
  \cup UNION {Finding("SEC-002", 2, {w}) : w \in Weaknesses(items)}

ReportTLS ==
  /\ analyzer = "tls findings"
  /\ analyzer' = "robots"
  /\ findings' = findings \cup FindingsOfTLS(evidence)
  /\ evidence' = {}
  /\ UNCHANGED <<pages, at, tlsVisited, robotsVisited, visited, ref, fetchedCount,
                 requested, told, spent>>

-----------------------------------------------------------------------------
(* robots *)

\* Mutant of ReadPaths: what is read takes the place of what was read before.
ReadPathsAnew(items) ==
  /\ evidence' = items
  /\ told' = told \cup Told("OPSEC-004", items)

\* Sensitive paths of a listing.  Evidence is deduplicated by what it says,
\* whichever listing said it first.
ReadPaths(items) ==
  /\ evidence' = evidence \cup items
  /\ told' = told \cup Told("OPSEC-004", items)

\* A page that is a listing is read itself.  With the first page, both listings
\* of the target are fetched, and never again, should that fail.
ReadPage ==
  /\ analyzer = "robots"
  /\ robotsVisited' = TRUE
  /\ analyzer' = IF robotsVisited THEN "robots findings" ELSE "/robots.txt"
  /\ ReadPaths(Page.listed)
  /\ UNCHANGED <<pages, at, tlsVisited, visited, ref, fetchedCount, findings,
                 requested, spent>>

FetchListing(url, kind, next) ==
  /\ analyzer = url
  /\ analyzer' = next
  /\ requested' = Append(requested, Sent("robots", url))
  /\ \/ UNCHANGED <<evidence, told>>
     \/ \E paths \in Listings : ReadPaths({Item(kind, p) : p \in paths})
  /\ UNCHANGED <<pages, at, tlsVisited, robotsVisited, visited, ref, fetchedCount,
                 findings, spent>>

FetchRobots == FetchListing("/robots.txt", "disallowed path", "/sitemap.xml")
FetchSitemap == FetchListing("/sitemap.xml", "sitemap URL", "robots findings")

ReportPaths ==
  /\ analyzer = "robots findings"
  /\ analyzer' = "metadata"
  /\ findings' = findings \cup Finding("OPSEC-004", 1, evidence)
  /\ evidence' = {}
  /\ UNCHANGED <<pages, at, tlsVisited, robotsVisited, visited, ref, fetchedCount,
                 requested, told, spent>>

-----------------------------------------------------------------------------
(* metadata *)

Inspect(image, url) ==
  LET items == EvidenceIn(image, url) IN
  /\ evidence' = evidence \cup items
  /\ told' = told \cup Told("OPSEC-003", items)

\* First the page itself, if it is an image.
InspectPage ==
  /\ analyzer = "metadata" /\ ref = 0
  /\ ref' = 1
  /\ IF Page.image = NoImage THEN UNCHANGED <<evidence, told>>
     ELSE Inspect(Page.image, Page.url)
  /\ UNCHANGED <<pages, at, analyzer, tlsVisited, robotsVisited, visited,
                 fetchedCount, findings, requested, spent>>

\* The loop over the references goes on until the page has had its images.
MoreReferences ==
  analyzer = "metadata" /\ ref \in DOMAIN Page.refs /\ fetchedCount < MaxImagesPage

\* data: URLs, other hosts, and images that were asked for before.
SkipReference ==
  /\ MoreReferences
  /\ Page.refs[ref] \notin ImageURLs \ visited
  /\ ref' = ref + 1
  /\ UNCHANGED <<pages, at, analyzer, tlsVisited, robotsVisited, visited,
                 fetchedCount, evidence, findings, requested, told, spent>>

\* Mutant of FetchImage: an image counts as visited only when it was received.
FetchImageUntilReceived ==
  /\ MoreReferences
  /\ LET url == Page.refs[ref] IN
     /\ url \in ImageURLs \ visited
     /\ requested' = Append(requested, Sent("metadata", url))
     /\ \/ /\ visited' = visited
           /\ UNCHANGED <<evidence, told>>
        \/ /\ visited' = visited \cup {url}
           /\ \E image \in Images : Inspect(image, url)
  /\ fetchedCount' = fetchedCount + 1
  /\ spent' = [spent EXCEPT ![at] = @ + 1]
  /\ ref' = ref + 1
  /\ UNCHANGED <<pages, at, analyzer, tlsVisited, robotsVisited, findings>>

\* An image counts as visited before it is fetched, and as one of the page's
\* images whether or not it is received.
FetchImage ==
  /\ MoreReferences
  /\ LET url == Page.refs[ref] IN
     /\ url \in ImageURLs \ visited
     /\ visited' = visited \cup {url}
     /\ requested' = Append(requested, Sent("metadata", url))
     /\ \/ UNCHANGED <<evidence, told>>
        \/ \E image \in Images : Inspect(image, url)
  /\ fetchedCount' = fetchedCount + 1
  /\ spent' = [spent EXCEPT ![at] = @ + 1]
  /\ ref' = ref + 1
  /\ UNCHANGED <<pages, at, analyzer, tlsVisited, robotsVisited, findings>>

ShowsGPS == \E e \in evidence : e.tag = "gps"

\* One finding for all images of the page, of high severity if one of them
\* shows a position; then the next page.
ReportImages ==
  /\ analyzer = "metadata" /\ ref > 0 /\ ~MoreReferences
  /\ findings' = findings \cup Finding("OPSEC-003", IF ShowsGPS THEN 3 ELSE 1, evidence)
  /\ evidence' = {} /\ ref' = 0 /\ fetchedCount' = 0
  /\ IF at < Len(pages) THEN at' = at + 1 /\ analyzer' = "tls"
     ELSE at' = at /\ analyzer' = "done"
  /\ UNCHANGED <<pages, tlsVisited, robotsVisited, visited, requested, told, spent>>

Next ==
  \/ DialTLS \/ ReportTLS
  \/ ReadPage \/ FetchRobots \/ FetchSitemap \/ ReportPaths
  \/ InspectPage \/ SkipReference \/ FetchImage \/ ReportImages

Spec == Init /\ [][Next]_vars

-----------------------------------------------------------------------------
(* Correctness *)

\* No analyzer sends a request twice in a scan, although many pages refer to
\* one image and requests fail; and an image of the target that a page refers
\* to is only left out when each such page had had its images.
ImagesAccountedFor ==
  /\ IsInjective(requested)
  /\ analyzer = "done" =>
       \A i \in DOMAIN pages : \A url \in ToSet(pages[i].refs) \cap ImageURLs :
         Sent("metadata", url) \in ToSet(requested) \/ spent[i] = MaxImagesPage

\* The findings of a scan have all the evidence that was received, also that
\* of a page whose other requests failed or were cut off, and no other; images
\* are of high severity exactly if a position is among the evidence.
ReceivedIsReported ==
  /\ analyzer = "done" => UNION {Told(f.rule, f.evidence) : f \in findings} = told
  /\ \A f \in findings :
       f.rule = "OPSEC-003" => (f.severity = 3 <=> \E e \in f.evidence : e.tag = "gps")
=============================================================================
