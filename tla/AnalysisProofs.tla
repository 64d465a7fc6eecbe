---------------------------- MODULE AnalysisProofs ----------------------------
(***************************************************************************)
(* Proofs about Analysis, for any crawl, any answers to its requests and   *)
(* whatever is read of an image; and about what ImageMetadata reads of it, *)
(* however the directories in it point at each other.                      *)
(***************************************************************************)
EXTENDS ImageAnalysis, FiniteSetTheorems, SequenceTheorems, TLAPS

OwnURLs == {"https", "/robots.txt", "/sitemap.xml"}
Request == [analyzer : {"tls", "robots", "metadata"}, url : ImageURLs \cup OwnURLs]

\* Where the loop over the analyzers may be.
InRobots == {"robots", "/robots.txt", "/sitemap.xml", "robots findings"}
Places == {"tls", "tls findings"} \cup InRobots \cup {"metadata", "done"}

\* Types of the variables.
TypeOK ==
  /\ pages \in PageLists
  /\ at \in DOMAIN pages
  /\ analyzer \in Places
  /\ tlsVisited \in BOOLEAN /\ robotsVisited \in BOOLEAN
  /\ visited \subseteq ImageURLs
  /\ ref \in Nat
  /\ fetchedCount \in 0 .. MaxImagesPage
  /\ requested \in Seq(Request)
  /\ spent \in [DOMAIN pages -> Nat]

\* The listings of the target that were fetched.
Asked ==
  IF ~robotsVisited \/ analyzer = "/robots.txt" THEN {}
  ELSE IF analyzer = "/sitemap.xml" THEN {"/robots.txt"}
  ELSE {"/robots.txt", "/sitemap.xml"}

\* The requests that the visited maps of the analyzers stand for.
Requests(probed, listings, images) ==
  {q \in {Sent("tls", "https")} : probed}
  \cup {Sent("robots", url) : url \in listings}
  \cup {Sent("metadata", url) : url \in images}

RequestsInv ==
  /\ analyzer \in {"/robots.txt", "/sitemap.xml"} => robotsVisited
  /\ IsInjective(requested)
  /\ ToSet(requested) = Requests(tlsVisited, Asked, visited)

\* The images of the target that the first n references of page i name.
ImagesOf(i, n) == {pages[i].refs[j] : j \in {k \in DOMAIN pages[i].refs : k < n}} \cap ImageURLs

\* The pages that are done have had their images, the one at hand those of the
\* references it is past.
PlaceInv ==
  /\ analyzer # "metadata" => ref = 0
  /\ ref = 0 => fetchedCount = 0
  /\ analyzer \in {"tls", "robots", "done"} \/ (analyzer = "metadata" /\ ref = 0) => evidence = {}
  /\ analyzer = "done" => at = Len(pages)
  /\ analyzer # "done" => spent[at] = fetchedCount /\ ImagesOf(at, ref) \subseteq visited
  /\ \A i \in DOMAIN pages :
       /\ i > at => spent[i] = 0
       /\ i < at \/ analyzer = "done" =>
            \/ ToSet(pages[i].refs) \cap ImageURLs \subseteq visited
            \/ spent[i] = MaxImagesPage

\* What findings tell.
ToldBy(fs) == UNION {Told(f.rule, f.evidence) : f \in fs}

\* What the evidence of the analyzer at work will tell.
AtHand ==
  IF analyzer = "tls findings"
  THEN Told("SEC-001", Clearnet(evidence)) \cup Told("SEC-002", Weaknesses(evidence))
  ELSE Told(IF analyzer \in InRobots THEN "OPSEC-004" ELSE "OPSEC-003", evidence)

\* What was received is in a finding, or in the evidence of the analyzer at work.
ToldInv == told = ToldBy(findings) \cup AtHand

SeverityInv ==
  \A f \in findings :
    f.rule = "OPSEC-003" => (f.severity = 3 <=> \E e \in f.evidence : e.tag = "gps")

IInv == TypeOK /\ RequestsInv /\ PlaceInv /\ ToldInv /\ SeverityInv

-----------------------------------------------------------------------------
(* Facts about the requests and the pages *)

\* A request that was not sent before.
LEMMA AppendNew ==
  ASSUME NEW S, NEW s \in Seq(S), NEW e \in S, IsInjective(s), e \notin ToSet(s)
  PROVE  /\ Append(s, e) \in Seq(S) /\ IsInjective(Append(s, e))
         /\ ToSet(Append(s, e)) = ToSet(s) \cup {e}
<1> DEFINE a == Append(s, e)
<1>1. /\ a \in Seq(S) /\ Len(a) = Len(s) + 1
      /\ \A i \in 1 .. Len(s) : a[i] = s[i]
      /\ a[Len(s) + 1] = e
  BY AppendProperties
<1>2. DOMAIN s = 1 .. Len(s) /\ DOMAIN a = 1 .. Len(s) + 1 /\ Len(s) \in Nat
  BY <1>1, LenProperties
<1> HIDE DEF a
<1>3. \A i \in 1 .. Len(s) : a[i] # e
  BY <1>1, <1>2 DEF ToSet
<1>4. IsInjective(a)
  BY <1>1, <1>2, <1>3 DEF IsInjective
<1>5. ToSet(a) = ToSet(s) \cup {e}
  BY <1>1, <1>2 DEF ToSet
<1> QED BY <1>1, <1>4, <1>5 DEF a

\* The pages of a crawl, and the references of each.
LEMMA PageFacts ==
  ASSUME TypeOK
  PROVE  /\ Len(pages) \in Nat \ {0} /\ DOMAIN pages = 1 .. Len(pages)
         /\ at \in 1 .. Len(pages)
         /\ \A i \in DOMAIN pages :
              /\ Len(pages[i].refs) \in Nat
              /\ DOMAIN pages[i].refs = 1 .. Len(pages[i].refs)
<1>1. /\ pages # <<>> /\ pages \in Seq(ToSet(pages))
      /\ \A i \in DOMAIN pages : pages[i].refs \in Seq(ToSet(pages[i].refs))
  BY AnalysisAssumption DEF TypeOK
<1>2. Len(pages) \in Nat \ {0} /\ DOMAIN pages = 1 .. Len(pages)
  BY <1>1, LenProperties, EmptySeq
<1>3. at \in DOMAIN pages
  BY DEF TypeOK
<1> QED BY <1>1, <1>2, <1>3, LenProperties

\* Which images references name: none before the first, one more with each,
\* and all of the page's after the last.
LEMMA ImagesOfFacts ==
  ASSUME TypeOK, NEW i \in DOMAIN pages, NEW n \in Nat
  PROVE  /\ n \in {0, 1} => ImagesOf(i, n) = {}
         /\ n \in DOMAIN pages[i].refs =>
              ImagesOf(i, n + 1) = ImagesOf(i, n) \cup ({pages[i].refs[n]} \cap ImageURLs)
         /\ n > Len(pages[i].refs) => ImagesOf(i, n) = ToSet(pages[i].refs) \cap ImageURLs
<1> DEFINE refs == pages[i].refs
<1>1. Len(refs) \in Nat /\ DOMAIN refs = 1 .. Len(refs)
  BY PageFacts
<1> HIDE DEF refs
<1>2. n \in {0, 1} => {k \in DOMAIN refs : k < n} = {}
  BY <1>1
<1>3. n \in DOMAIN refs => {k \in DOMAIN refs : k < n + 1} = {k \in DOMAIN refs : k < n} \cup {n}
  BY <1>1
<1>4. n > Len(refs) => {k \in DOMAIN refs : k < n} = DOMAIN refs
  BY <1>1
<1>5. \A m : ImagesOf(i, m) = {refs[j] : j \in {k \in DOMAIN refs : k < m}} \cap ImageURLs
  BY DEF ImagesOf, refs
<1>6. ToSet(refs) = {refs[j] : j \in DOMAIN refs}
  BY DEF ToSet
<1>7. n \in DOMAIN refs =>
        ImagesOf(i, n + 1) = ImagesOf(i, n) \cup ({refs[n]} \cap ImageURLs)
  BY <1>3, <1>5
<1> QED BY <1>2, <1>4, <1>5, <1>6, <1>7 DEF refs

\* What findings tell, item by item.
LEMMA ToldByMember ==
  \A F, t : t \in ToldBy(F) <=> \E f \in F : t \in Told(f.rule, f.evidence)
BY DEF ToldBy

\* What several findings tell, one finding and none.
LEMMA ToldByFacts ==
  /\ \A F, G : ToldBy(F \cup G) = ToldBy(F) \cup ToldBy(G)
  /\ \A f : ToldBy({f}) = Told(f.rule, f.evidence)
  /\ ToldBy({}) = {}
<1>1. ASSUME NEW F, NEW G
      PROVE  ToldBy(F \cup G) = ToldBy(F) \cup ToldBy(G)
  <2>1. \A H, t : t \in ToldBy(H) <=> \E f : f \in H /\ t \in Told(f.rule, f.evidence)
    BY ToldByMember
  <2>2. \A f : f \in F \cup G <=> f \in F \/ f \in G
    OBVIOUS
  <2>3. \A t : t \in ToldBy(F \cup G) <=> t \in ToldBy(F) \/ t \in ToldBy(G)
    BY <2>1, <2>2
  <2> QED BY <2>3
<1>2. ASSUME NEW f
      PROVE  ToldBy({f}) = Told(f.rule, f.evidence)
  <2>1. \A t : t \in ToldBy({f}) <=> \E g \in {f} : t \in Told(g.rule, g.evidence)
    BY ToldByMember
  <2>2. \A t : (\E g \in {f} : t \in Told(g.rule, g.evidence)) <=> t \in Told(f.rule, f.evidence)
    OBVIOUS
  <2> QED BY <2>1, <2>2
<1>3. ToldBy({}) = {}
  BY ToldByMember
<1> QED BY <1>1, <1>2, <1>3

\* Without items there is no finding, and nothing that it would tell.
LEMMA FindingTold ==
  ASSUME NEW rule, NEW severity, NEW items
  PROVE  ToldBy(Finding(rule, severity, items)) = Told(rule, items)
<1> DEFINE f == [rule |-> rule, severity |-> severity, evidence |-> items]
<1>1. CASE items = {}
  <2>1. Finding(rule, severity, items) = {} /\ Told(rule, items) = {}
    BY <1>1 DEF Finding, Told
  <2> QED BY <2>1, ToldByFacts
<1>2. CASE items # {}
  <2>1. Finding(rule, severity, items) = {f} /\ f.rule = rule /\ f.evidence = items
    BY <1>2 DEF Finding
  <2> HIDE DEF f
  <2> QED BY <2>1, ToldByFacts
<1> QED BY <1>1, <1>2

\* Items are told one by one: more evidence tells what each part does.
LEMMA ToldTogether ==
  ASSUME NEW rule, NEW items, NEW more
  PROVE  Told(rule, items \cup more) = Told(rule, items) \cup Told(rule, more)
BY DEF Told

\* The fields of a finding.
LEMMA FindingRule ==
  ASSUME NEW rule, NEW severity, NEW items, NEW f \in Finding(rule, severity, items)
  PROVE  f.rule = rule /\ f.severity = severity /\ f.evidence = items
BY DEF Finding

\* Finding for all that a handshake shows.
LEMMA TLSTold ==
  ASSUME NEW items
  PROVE  /\ ToldBy(FindingsOfTLS(items)) = Told("SEC-001", Clearnet(items))
                                          \cup Told("SEC-002", Weaknesses(items))
         /\ \A f \in FindingsOfTLS(items) : f.rule # "OPSEC-003"
<1> DEFINE W == UNION {Finding("SEC-002", 2, {w}) : w \in Weaknesses(items)}
<1>1. FindingsOfTLS(items) = Finding("SEC-001", 3, Clearnet(items)) \cup W
  BY DEF FindingsOfTLS
<1>2. \A f : f \in W <=> \E w \in Weaknesses(items) : f \in Finding("SEC-002", 2, {w})
  BY Zenon
<1> HIDE DEF W
<1>3. ToldBy(W) = Told("SEC-002", Weaknesses(items))
  <2>1. \A w : ToldBy(Finding("SEC-002", 2, {w})) = Told("SEC-002", {w})
    BY FindingTold
  <2>2. ASSUME NEW t \in ToldBy(W)
        PROVE  t \in Told("SEC-002", Weaknesses(items))
    <3>1. PICK f \in W : t \in Told(f.rule, f.evidence)
      BY ToldByMember, Zenon
    <3>2. PICK w \in Weaknesses(items) : f \in Finding("SEC-002", 2, {w})
      BY <1>2, Zenon
    <3>3. t \in ToldBy(Finding("SEC-002", 2, {w}))
      BY <3>1, <3>2, ToldByMember, Zenon
    <3>4. t \in Told("SEC-002", {w})
      BY <2>1, <3>3
    <3> QED BY <3>4 DEF Told
  <2>3. ASSUME NEW t \in Told("SEC-002", Weaknesses(items))
        PROVE  t \in ToldBy(W)
    <3>1. PICK w \in Weaknesses(items) : t \in Told("SEC-002", {w})
      BY DEF Told
    <3>2. PICK f \in Finding("SEC-002", 2, {w}) : t \in Told(f.rule, f.evidence)
      BY <2>1, <3>1, ToldByMember, Zenon
    <3>3. f \in W
      BY <1>2, <3>2, Zenon
    <3> QED BY <3>2, <3>3, ToldByMember, Zenon
  <2> QED BY <2>2, <2>3
<1>4. ASSUME NEW f \in FindingsOfTLS(items)
      PROVE  f.rule # "OPSEC-003"
  <2>1. CASE f \in Finding("SEC-001", 3, Clearnet(items))
    <3>1. f.rule = "SEC-001"
      BY <2>1, FindingRule
    <3> QED BY <3>1
  <2>2. CASE f \in W
    <3>1. PICK w \in Weaknesses(items) : f \in Finding("SEC-002", 2, {w})
      BY <1>2, <2>2, Zenon
    <3>2. f.rule = "SEC-002"
      BY <3>1, FindingRule
    <3> QED BY <3>2
  <2> QED BY <1>1, <2>1, <2>2
<1>5. ToldBy(FindingsOfTLS(items)) = ToldBy(Finding("SEC-001", 3, Clearnet(items))) \cup ToldBy(W)
  BY <1>1, ToldByFacts
<1>6. ToldBy(Finding("SEC-001", 3, Clearnet(items))) = Told("SEC-001", Clearnet(items))
  BY FindingTold
<1> QED BY <1>3, <1>4, <1>5, <1>6

\* Requests are told apart by their analyzer and their URL.
LEMMA SentFacts ==
  /\ \A n, u, m, v : Sent(n, u) = Sent(m, v) <=> n = m /\ u = v
  /\ \A n, u : n \in {"tls", "robots", "metadata"} /\ u \in ImageURLs \cup OwnURLs
                 => Sent(n, u) \in Request
BY DEF Sent, Request

\* What it adds to the requests that an analyzer has asked for a URL.
LEMMA RequestsFacts ==
  ASSUME NEW t \in BOOLEAN, NEW L, NEW V
  PROVE  /\ Requests(TRUE, L, V) = Requests(FALSE, L, V) \cup {Sent("tls", "https")}
         /\ \A url : Requests(t, L, V \cup {url}) = Requests(t, L, V) \cup {Sent("metadata", url)}
         /\ Sent("tls", "https") \notin Requests(FALSE, L, V)
         /\ \A url : url \notin L => Sent("robots", url) \notin Requests(t, L, V)
         /\ \A url : url \notin V => Sent("metadata", url) \notin Requests(t, L, V)
<1>1. /\ {q \in {Sent("tls", "https")} : TRUE} = {Sent("tls", "https")}
      /\ {q \in {Sent("tls", "https")} : FALSE} = {}
  OBVIOUS
<1>2. \A name, url, U : {Sent(name, u) : u \in U \cup {url}}
                         = {Sent(name, u) : u \in U} \cup {Sent(name, url)}
  OBVIOUS
<1>3. \A name, url, U : url \notin U => Sent(name, url) \notin {Sent(name, u) : u \in U}
  BY SentFacts
<1>4. \A u, w : /\ Sent("robots", u) # Sent("tls", w)
                /\ Sent("metadata", u) # Sent("tls", w)
                /\ Sent("robots", u) # Sent("metadata", w)
  BY SentFacts
<1>5. Requests(TRUE, L, V) = Requests(FALSE, L, V) \cup {Sent("tls", "https")}
  BY <1>1 DEF Requests
<1>6. \A url : Requests(t, L, V \cup {url}) = Requests(t, L, V) \cup {Sent("metadata", url)}
  BY <1>2 DEF Requests
<1>7. Sent("tls", "https") \notin Requests(FALSE, L, V)
  BY <1>1, <1>4 DEF Requests
<1>8. \A url : url \notin L => Sent("robots", url) \notin Requests(t, L, V)
  BY <1>3, <1>4 DEF Requests
<1>9. \A url : url \notin V => Sent("metadata", url) \notin Requests(t, L, V)
  BY <1>3, <1>4 DEF Requests
<1> QED BY <1>5, <1>6, <1>7, <1>8, <1>9

-----------------------------------------------------------------------------
(* The inductive invariant *)

\* The analysis starts in the invariant.
LEMMA IInvInit ==
  ASSUME Init
  PROVE  IInv
<1>1. pages # <<>> /\ pages \in Seq(ToSet(pages)) /\ MaxImagesPage \in Nat
  BY AnalysisAssumption DEF Init
<1>2. Len(pages) \in Nat \ {0} /\ DOMAIN pages = 1 .. Len(pages)
  BY <1>1, LenProperties, EmptySeq
<1>3. requested = <<>> /\ ToSet(<<>>) = {} /\ IsInjective(<<>>) /\ <<>> \in Seq(Request)
  BY DEF Init, ToSet, IsInjective
<1>4. TypeOK
  <2>1. pages \in PageLists /\ at \in DOMAIN pages
    BY <1>2 DEF Init
  <2>2. requested \in Seq(Request) /\ spent \in [DOMAIN pages -> Nat]
    <3>1. requested \in Seq(Request)
      BY <1>3 DEF Init
    <3>2. spent = [i \in DOMAIN pages |-> 0]
      BY DEF Init
    <3> QED BY <3>1, <3>2
  <2>3. tlsVisited \in BOOLEAN /\ robotsVisited \in BOOLEAN
    BY Zenon DEF Init
  <2>4. /\ analyzer \in Places
        /\ visited \subseteq ImageURLs
        /\ ref \in Nat /\ fetchedCount \in 0 .. MaxImagesPage
    BY <1>1 DEF Init, Places
  <2> QED BY <2>1, <2>2, <2>3, <2>4, Zenon DEF TypeOK
<1>5. RequestsInv
  <2>1. Requests(FALSE, {}, {}) = {}
    BY DEF Requests
  <2>2. Asked = {}
    BY DEF Init, Asked
  <2> QED BY <1>3, <2>1, <2>2 DEF Init, RequestsInv
<1>6. PlaceInv
  <2>1. ImagesOf(1, 0) = {}
    BY <1>2, <1>4, ImagesOfFacts
  <2>2. \A i \in DOMAIN pages : ~(i < 1) /\ spent[i] = 0
    BY <1>2 DEF Init
  <2> QED BY <1>2, <2>1, <2>2 DEF Init, PlaceInv
<1>7. ToldInv
  BY ToldByFacts DEF Init, ToldInv, AtHand, Told
<1>8. SeverityInv
  BY DEF Init, SeverityInv
<1> QED BY <1>4, <1>5, <1>6, <1>7, <1>8 DEF IInv

\* Each step keeps the types.
LEMMA StepTypes ==
  ASSUME IInv, Next
  PROVE  TypeOK'
<1>1. TypeOK
  BY DEF IInv
<1>2. pages' = pages
  BY DEF Next, DialTLS, ReportTLS, ReadPage, FetchRobots, FetchSitemap, FetchListing,
      ReportPaths, InspectPage, SkipReference, FetchImage, ReportImages
<1>3. MaxImagesPage \in Nat
  BY AnalysisAssumption
<1>4. at' \in DOMAIN pages
  <2>1. at \in DOMAIN pages
    BY <1>1 DEF TypeOK
  <2>2. at < Len(pages) => at + 1 \in DOMAIN pages
    BY <1>1, PageFacts
  <2> QED BY <2>1, <2>2 DEF Next, DialTLS, ReportTLS, ReadPage, FetchRobots, FetchSitemap, FetchListing,
      ReportPaths, InspectPage, SkipReference, FetchImage, ReportImages
<1>5. analyzer' \in Places
  <2>1. analyzer \in Places
    BY <1>1 DEF TypeOK
  <2> QED BY <2>1 DEF Next, DialTLS, ReportTLS, ReadPage, FetchRobots, FetchSitemap, FetchListing,
      ReportPaths, InspectPage, SkipReference, FetchImage, ReportImages, Places, InRobots
<1>6. tlsVisited' \in BOOLEAN /\ robotsVisited' \in BOOLEAN
  <2>1. tlsVisited \in BOOLEAN /\ robotsVisited \in BOOLEAN
    BY <1>1 DEF TypeOK
  <2> QED BY <2>1 DEF Next, DialTLS, ReportTLS, ReadPage, FetchRobots, FetchSitemap, FetchListing,
      ReportPaths, InspectPage, SkipReference, FetchImage, ReportImages
<1>7. visited' \subseteq ImageURLs
  <2>1. visited \subseteq ImageURLs
    BY <1>1 DEF TypeOK
  <2> QED BY <2>1 DEF Next, DialTLS, ReportTLS, ReadPage, FetchRobots, FetchSitemap, FetchListing,
      ReportPaths, InspectPage, SkipReference, FetchImage, ReportImages
<1>8. ref' \in Nat /\ fetchedCount' \in 0 .. MaxImagesPage
  <2>1. ref \in Nat /\ fetchedCount \in 0 .. MaxImagesPage
    BY <1>1 DEF TypeOK
  <2>2. ref' \in {ref, ref + 1, 0, 1}
    BY DEF Next, DialTLS, ReportTLS, ReadPage, FetchRobots, FetchSitemap, FetchListing,
      ReportPaths, InspectPage, SkipReference, FetchImage, ReportImages
  <2>3. \/ fetchedCount' \in {fetchedCount, 0}
        \/ fetchedCount' = fetchedCount + 1 /\ fetchedCount < MaxImagesPage
    BY DEF Next, DialTLS, ReportTLS, ReadPage, FetchRobots, FetchSitemap, FetchListing,
      ReportPaths, InspectPage, SkipReference, FetchImage, ReportImages,
           MoreReferences
  <2> QED BY <1>3, <2>1, <2>2, <2>3
<1>9. spent' \in [DOMAIN pages -> Nat]
  <2>1. spent \in [DOMAIN pages -> Nat] /\ at \in DOMAIN pages
    BY <1>1 DEF TypeOK
  <2>2. [spent EXCEPT ![at] = @ + 1] \in [DOMAIN pages -> Nat]
    BY <2>1
  <2>3. spent' = spent \/ spent' = [spent EXCEPT ![at] = @ + 1]
    BY DEF Next, DialTLS, ReportTLS, ReadPage, FetchRobots, FetchSitemap, FetchListing,
      ReportPaths, InspectPage, SkipReference, FetchImage, ReportImages
  <2> QED BY <2>1, <2>2, <2>3
<1>10. requested' \in Seq(Request)
  <2>1. requested \in Seq(Request)
    BY <1>1 DEF TypeOK
  <2>2. \A r \in Request : Append(requested, r) \in Seq(Request)
    BY <2>1
  <2>3. /\ Sent("tls", "https") \in Request
        /\ Sent("robots", "/robots.txt") \in Request /\ Sent("robots", "/sitemap.xml") \in Request
        /\ \A url \in ImageURLs : Sent("metadata", url) \in Request
    BY SentFacts DEF OwnURLs
  <2> QED BY <2>1, <2>2, <2>3 DEF Next, DialTLS, ReportTLS, ReadPage, FetchRobots, FetchSitemap, FetchListing,
      ReportPaths, InspectPage, SkipReference, FetchImage, ReportImages
<1> QED BY <1>1, <1>2, <1>4, <1>5, <1>6, <1>7, <1>8, <1>9, <1>10 DEF TypeOK

\* Each request is new, and goes into a visited map with the step that sends it.
LEMMA StepRequests ==
  ASSUME IInv, Next
  PROVE  RequestsInv'
<1>1. requested \in Seq(Request) /\ tlsVisited \in BOOLEAN /\ robotsVisited \in BOOLEAN
  BY DEF IInv, TypeOK
<1>2. /\ IsInjective(requested)
      /\ ToSet(requested) = Requests(tlsVisited, Asked, visited)
      /\ analyzer \in {"/robots.txt", "/sitemap.xml"} => robotsVisited
  BY DEF IInv, RequestsInv
<1>3. ASSUME UNCHANGED <<requested, tlsVisited, robotsVisited, visited>>,
             {analyzer, analyzer'} \cap {"/robots.txt", "/sitemap.xml"} = {}
      PROVE  RequestsInv'
  <2>1. Asked' = Asked
    BY <1>3 DEF Asked
  <2> QED BY <1>2, <1>3, <2>1 DEF RequestsInv
<1>4. ASSUME DialTLS
      PROVE  RequestsInv'
  <2>1. /\ tlsVisited' = TRUE /\ robotsVisited' = robotsVisited /\ visited' = visited
        /\ analyzer = "tls" /\ analyzer' \in {"robots", "tls findings"}
    BY <1>4 DEF DialTLS
  <2>2. CASE tlsVisited
    <3>1. requested' = requested /\ tlsVisited' = tlsVisited
      BY <1>1, <1>4, <2>1, <2>2 DEF DialTLS
    <3> QED BY <1>3, <2>1, <3>1
  <2>3. CASE ~tlsVisited
    <3> DEFINE q == Sent("tls", "https")
    <3>1. requested' = Append(requested, q)
      BY <1>4, <2>3 DEF DialTLS
    <3>2. q \in Request
      BY SentFacts DEF OwnURLs
    <3>3. tlsVisited = FALSE
      BY <1>1, <2>3
    <3>4. /\ q \notin ToSet(requested)
          /\ Requests(TRUE, Asked, visited) = ToSet(requested) \cup {q}
      <4>1. /\ q \notin Requests(FALSE, Asked, visited)
            /\ Requests(TRUE, Asked, visited) = Requests(FALSE, Asked, visited) \cup {q}
        BY <1>1, RequestsFacts, Zenon
      <4> QED BY <1>2, <3>3, <4>1, Zenon
    <3> HIDE DEF q
    <3>5. IsInjective(Append(requested, q)) /\ ToSet(Append(requested, q)) = ToSet(requested) \cup {q}
      BY <1>1, <1>2, <3>2, <3>4, AppendNew
    <3>6. Asked' = Asked
      BY <2>1 DEF Asked
    <3> QED BY <2>1, <3>1, <3>4, <3>5, <3>6 DEF RequestsInv
  <2> QED BY <2>2, <2>3
<1>5. ASSUME ReadPage
      PROVE  RequestsInv'
  <2>1. /\ robotsVisited' = TRUE /\ UNCHANGED <<requested, tlsVisited, visited>>
        /\ analyzer = "robots"
        /\ analyzer' = IF robotsVisited THEN "robots findings" ELSE "/robots.txt"
    BY <1>5 DEF ReadPage
  <2>2. Asked' = Asked
    BY <2>1 DEF Asked
  <2> QED BY <1>2, <2>1, <2>2 DEF RequestsInv
<1>6. ASSUME FetchRobots \/ FetchSitemap
      PROVE  RequestsInv'
  <2>1. PICK url \in {"/robots.txt", "/sitemap.xml"} :
          /\ analyzer = url
          /\ analyzer' = IF url = "/robots.txt" THEN "/sitemap.xml" ELSE "robots findings"
          /\ requested' = Append(requested, Sent("robots", url))
          /\ UNCHANGED <<tlsVisited, robotsVisited, visited>>
    BY <1>6 DEF FetchRobots, FetchSitemap, FetchListing
  <2>2. robotsVisited /\ url \notin Asked /\ Asked' = Asked \cup {url}
    BY <1>2, <2>1 DEF Asked
  <2> DEFINE q == Sent("robots", url)
  <2>3. q \in Request
    BY SentFacts DEF OwnURLs
  <2>4. /\ q \notin ToSet(requested)
        /\ Requests(tlsVisited, Asked \cup {url}, visited) = ToSet(requested) \cup {q}
    <3> DEFINE L == Asked
               V == visited
    <3>1. url \notin L /\ ToSet(requested) = Requests(tlsVisited, L, V)
      BY <1>2, <2>2
    <3> HIDE DEF L, V
    <3>2. /\ \A u : u \notin L => Sent("robots", u) \notin Requests(tlsVisited, L, V)
          /\ \A u : Requests(tlsVisited, L \cup {u}, V)
                       = Requests(tlsVisited, L, V) \cup {Sent("robots", u)}
      <4>1. PICK t \in BOOLEAN : t = tlsVisited
        BY <1>1
      <4>2. \A u : u \notin L => Sent("robots", u) \notin Requests(t, L, V)
        BY RequestsFacts, Zenon
      <4>3. \A u : Requests(t, L \cup {u}, V) = Requests(t, L, V) \cup {Sent("robots", u)}
        BY DEF Requests
      <4> QED BY <4>1, <4>2, <4>3
    <3> QED BY <3>1, <3>2 DEF L, V
  <2>5. requested' = Append(requested, q)
    BY <2>1
  <2> HIDE DEF q
  <2>6. IsInjective(Append(requested, q)) /\ ToSet(Append(requested, q)) = ToSet(requested) \cup {q}
    BY <1>1, <1>2, <2>3, <2>4, AppendNew
  <2>7. Requests(tlsVisited, Asked, visited)' = ToSet(requested) \cup {q}
    BY <2>1, <2>2, <2>4 DEF Requests
  <2> QED BY <2>1, <2>2, <2>5, <2>6, <2>7 DEF RequestsInv
<1>7. ASSUME FetchImage
      PROVE  RequestsInv'
  <2> DEFINE url == Page.refs[ref]
             q == Sent("metadata", url)
  <2>1. /\ url \in ImageURLs \ visited /\ visited' = visited \cup {url}
        /\ requested' = Append(requested, q)
        /\ tlsVisited' = tlsVisited /\ robotsVisited' = robotsVisited
        /\ analyzer = "metadata" /\ analyzer' = "metadata"
    BY <1>7 DEF FetchImage, MoreReferences
  <2> HIDE DEF url
  <2>2. q \in Request
    BY <2>1, SentFacts
  <2>3. /\ q \notin ToSet(requested)
        /\ Requests(tlsVisited, Asked, visited \cup {url}) = ToSet(requested) \cup {q}
    <3>1. \A u : u \notin visited
                   => Sent("metadata", u) \notin Requests(tlsVisited, Asked, visited)
      BY <1>1, RequestsFacts, Zenon
    <3>2. \A u : Requests(tlsVisited, Asked, visited \cup {u})
                   = Requests(tlsVisited, Asked, visited) \cup {Sent("metadata", u)}
      BY DEF Requests
    <3>3. url \notin visited
      BY <2>1
    <3> QED BY <1>2, <3>1, <3>2, <3>3, Zenon
  <2> HIDE DEF q
  <2>4. IsInjective(Append(requested, q)) /\ ToSet(Append(requested, q)) = ToSet(requested) \cup {q}
    BY <1>1, <1>2, <2>2, <2>3, AppendNew
  <2>5. Asked' = Asked
    BY <2>1 DEF Asked
  <2> QED BY <2>1, <2>3, <2>4, <2>5 DEF RequestsInv
<1>8. ASSUME ReportTLS \/ ReportPaths \/ InspectPage \/ SkipReference \/ ReportImages
      PROVE  RequestsInv'
  <2>1. /\ UNCHANGED <<requested, tlsVisited, robotsVisited, visited>>
        /\ {analyzer, analyzer'} \cap {"/robots.txt", "/sitemap.xml"} = {}
    BY <1>8 DEF ReportTLS, ReportPaths, InspectPage, SkipReference, ReportImages, MoreReferences
  <2> QED BY <1>3, <2>1
<1> QED BY <1>4, <1>5, <1>7, <1>6, <1>8 DEF Next

\* Each step past a reference has its image visited, or the page has had its images.
LEMMA StepPlace ==
  ASSUME IInv, Next
  PROVE  PlaceInv'
<1>1. TypeOK /\ PlaceInv
  BY DEF IInv
<1>2. /\ at \in DOMAIN pages /\ ref \in Nat /\ fetchedCount \in 0 .. MaxImagesPage
      /\ spent \in [DOMAIN pages -> Nat] /\ MaxImagesPage \in Nat
  BY <1>1, AnalysisAssumption DEF TypeOK
<1>3. /\ Len(pages) \in Nat \ {0} /\ DOMAIN pages = 1 .. Len(pages)
      /\ \A i \in DOMAIN pages :
           /\ Len(pages[i].refs) \in Nat
           /\ DOMAIN pages[i].refs = 1 .. Len(pages[i].refs)
  BY <1>1, PageFacts
<1>4. /\ ImagesOf(at, 0) = {} /\ ImagesOf(at, 1) = {}
      /\ at < Len(pages) => ImagesOf(at + 1, 0) = {}
      /\ ref \in DOMAIN Page.refs =>
           ImagesOf(at, ref + 1) = ImagesOf(at, ref) \cup ({Page.refs[ref]} \cap ImageURLs)
      /\ ref > Len(Page.refs) => ImagesOf(at, ref) = ToSet(Page.refs) \cap ImageURLs
  <2>1. ASSUME NEW i \in DOMAIN pages
        PROVE  ImagesOf(i, 0) = {} /\ ImagesOf(i, 1) = {}
    <3>1. \A n \in Nat : n \in {0, 1} => ImagesOf(i, n) = {}
      BY <1>1, ImagesOfFacts
    <3> QED BY <3>1
  <2>2. at < Len(pages) => at + 1 \in DOMAIN pages
    BY <1>2, <1>3
  <2>3. /\ ref \in DOMAIN Page.refs =>
             ImagesOf(at, ref + 1) = ImagesOf(at, ref) \cup ({Page.refs[ref]} \cap ImageURLs)
        /\ ref > Len(Page.refs) => ImagesOf(at, ref) = ToSet(Page.refs) \cap ImageURLs
    BY <1>1, <1>2, ImagesOfFacts DEF Page
  <2> QED BY <1>2, <2>1, <2>2, <2>3
<1>5. /\ pages' = pages
      /\ \A i, n : ImagesOf(i, n)' = ImagesOf(i, n)
  <2>1. pages' = pages
    BY DEF Next, DialTLS, ReportTLS, ReadPage, FetchRobots, FetchSitemap, FetchListing,
           ReportPaths, InspectPage, SkipReference, FetchImage, ReportImages
  <2> QED BY <2>1 DEF ImagesOf
<1>6. /\ analyzer # "metadata" => ref = 0
      /\ ref = 0 => fetchedCount = 0
      /\ analyzer # "done" => spent[at] = fetchedCount /\ ImagesOf(at, ref) \subseteq visited
  BY <1>1 DEF PlaceInv
<1>7. \A i \in DOMAIN pages :
        /\ i > at => spent[i] = 0
        /\ i < at \/ analyzer = "done" =>
             \/ ToSet(pages[i].refs) \cap ImageURLs \subseteq visited
             \/ spent[i] = MaxImagesPage
  BY <1>1 DEF PlaceInv
<1>8. ASSUME \/ DialTLS \/ ReportTLS
             \/ ReadPage \/ FetchRobots \/ FetchSitemap \/ ReportPaths
      PROVE  PlaceInv'
  <2>1. /\ analyzer \in {"tls", "tls findings"} \cup InRobots
        /\ analyzer' \in {"tls findings", "metadata"} \cup InRobots
        /\ UNCHANGED <<pages, at, visited, ref, fetchedCount, spent>>
    BY <1>8 DEF DialTLS, ReportTLS, ReadPage, FetchRobots, FetchSitemap, FetchListing,
                ReportPaths, InRobots
  <2>2. analyzer' \in {"robots", "metadata"} => evidence' = {}
    BY <1>1, <1>8 DEF DialTLS, ReportTLS, ReadPage, FetchRobots, FetchSitemap, FetchListing,
                      ReportPaths, PlaceInv
  <2>3. ImagesOf(at, ref)' = ImagesOf(at, ref)
    BY <2>1 DEF ImagesOf
  <2> QED BY <1>6, <1>7, <2>1, <2>2, <2>3 DEF PlaceInv, InRobots
<1>9. ASSUME InspectPage
      PROVE  PlaceInv'
  <2>1. /\ analyzer = "metadata" /\ analyzer' = "metadata" /\ ref = 0 /\ ref' = 1
        /\ UNCHANGED <<pages, at, visited, fetchedCount, spent>>
    BY <1>9 DEF InspectPage
  <2>2. ImagesOf(at, ref)' = {}
    BY <1>4, <2>1 DEF ImagesOf
  <2> QED BY <1>6, <1>7, <2>1, <2>2 DEF PlaceInv
<1>10. ASSUME SkipReference
       PROVE  PlaceInv'
  <2>1. /\ analyzer = "metadata" /\ analyzer' = "metadata" /\ ref' = ref + 1
        /\ ref \in DOMAIN Page.refs /\ Page.refs[ref] \notin ImageURLs \ visited
        /\ UNCHANGED <<pages, at, visited, fetchedCount, evidence, spent>>
    BY <1>10 DEF SkipReference, MoreReferences
  <2>2. ImagesOf(at, ref)' = ImagesOf(at, ref + 1)
    BY <2>1 DEF ImagesOf
  <2>3. ImagesOf(at, ref + 1) \subseteq visited
    BY <1>4, <1>6, <2>1
  <2>4. ref' # 0
    BY <1>2, <2>1
  <2> QED BY <1>6, <1>7, <2>1, <2>2, <2>3, <2>4 DEF PlaceInv
<1>11. ASSUME FetchImage
       PROVE  PlaceInv'
  <2>1. /\ analyzer = "metadata" /\ analyzer' = "metadata" /\ ref' = ref + 1
        /\ ref \in DOMAIN Page.refs /\ visited' = visited \cup {Page.refs[ref]}
        /\ fetchedCount' = fetchedCount + 1 /\ spent' = [spent EXCEPT ![at] = @ + 1]
        /\ UNCHANGED <<pages, at>>
    BY <1>11 DEF FetchImage, MoreReferences
  <2>2. ImagesOf(at, ref)' = ImagesOf(at, ref + 1)
    BY <2>1 DEF ImagesOf
  <2>3. ImagesOf(at, ref + 1) \subseteq visited'
    BY <1>4, <1>6, <2>1
  <2>4. ref' # 0
    BY <1>2, <2>1
  <2>5. /\ spent'[at] = fetchedCount + 1
        /\ \A i \in DOMAIN pages : i # at => spent'[i] = spent[i]
    BY <1>2, <1>6, <2>1
  <2>6. \A i \in DOMAIN pages :
          /\ i > at => spent'[i] = 0
          /\ i < at => \/ ToSet(pages[i].refs) \cap ImageURLs \subseteq visited'
                       \/ spent'[i] = MaxImagesPage
    BY <1>2, <1>3, <1>7, <2>1, <2>5
  <2> QED BY <2>1, <2>2, <2>3, <2>4, <2>5, <2>6 DEF PlaceInv
<1>12. ASSUME ReportImages
       PROVE  PlaceInv'
  <2>1. /\ analyzer = "metadata" /\ ref > 0
        /\ ref \in DOMAIN Page.refs => ~(fetchedCount < MaxImagesPage)
        /\ evidence' = {} /\ ref' = 0 /\ fetchedCount' = 0
        /\ UNCHANGED <<pages, visited, spent>>
    BY <1>12 DEF ReportImages, MoreReferences
  <2>2. \/ at < Len(pages) /\ at' = at + 1 /\ analyzer' = "tls"
        \/ ~(at < Len(pages)) /\ at' = at /\ analyzer' = "done"
    BY <1>12 DEF ReportImages
  <2>3. \/ ToSet(Page.refs) \cap ImageURLs \subseteq visited
        \/ spent[at] = MaxImagesPage
    <3>1. CASE ref \in DOMAIN Page.refs
      BY <1>2, <1>6, <2>1, <3>1
    <3>2. CASE ref \notin DOMAIN Page.refs
      <4>1. ref > Len(Page.refs)
        BY <1>2, <1>3, <2>1, <3>2 DEF Page
      <4> QED BY <1>4, <1>6, <2>1, <4>1
    <3> QED BY <3>1, <3>2
  <2>4. \A i \in DOMAIN pages :
          i <= at => \/ ToSet(pages[i].refs) \cap ImageURLs \subseteq visited
                     \/ spent[i] = MaxImagesPage
    BY <1>2, <1>3, <1>7, <2>3 DEF Page
  <2>5. CASE at < Len(pages) /\ at' = at + 1 /\ analyzer' = "tls"
    <3>1. at + 1 \in DOMAIN pages /\ spent[at + 1] = 0
      BY <1>2, <1>3, <1>7, <2>5
    <3>2. ImagesOf(at, ref)' = {}
      BY <1>4, <2>1, <2>5 DEF ImagesOf
    <3>3. \A i \in DOMAIN pages :
            /\ i > at + 1 => spent[i] = 0
            /\ i < at + 1 => \/ ToSet(pages[i].refs) \cap ImageURLs \subseteq visited
                             \/ spent[i] = MaxImagesPage
      BY <1>2, <1>3, <1>7, <2>4
    <3> QED BY <2>1, <2>5, <3>1, <3>2, <3>3 DEF PlaceInv
  <2>6. CASE ~(at < Len(pages)) /\ at' = at /\ analyzer' = "done"
    <3>1. at = Len(pages) /\ \A i \in DOMAIN pages : i <= at
      BY <1>2, <1>3, <2>6
    <3> QED BY <1>7, <2>1, <2>4, <2>6, <3>1 DEF PlaceInv
  <2> QED BY <2>2, <2>5, <2>6
<1> QED BY <1>8, <1>9, <1>10, <1>11, <1>12 DEF Next

\* What a step receives goes into the findings or into the evidence of the page.
LEMMA StepTold ==
  ASSUME IInv, Next
  PROVE  ToldInv'
<1>1. told = ToldBy(findings) \cup AtHand /\ PlaceInv
  BY DEF IInv, ToldInv
<1>2. /\ \A F, G : ToldBy(F \cup G) = ToldBy(F) \cup ToldBy(G)
      /\ \A rule, severity, items : ToldBy(Finding(rule, severity, items)) = Told(rule, items)
  BY ToldByFacts, FindingTold
<1>3. /\ \A rule : Told(rule, {}) = {}
      /\ \A rule, items, more : Told(rule, items \cup more) = Told(rule, items) \cup Told(rule, more)
  BY ToldTogether DEF Told
<1>4. evidence = {} => AtHand = {}
  BY <1>3 DEF AtHand, Clearnet, Weaknesses
\* An analyzer that reads on.
<1>5. ASSUME NEW rule, AtHand = Told(rule, evidence), AtHand' = Told(rule, evidence'),
             findings' = findings,
             \/ UNCHANGED <<evidence, told>>
             \/ \E items : evidence' = evidence \cup items /\ told' = told \cup Told(rule, items)
      PROVE  ToldInv'
  <2>1. CASE UNCHANGED <<evidence, told>>
    BY <1>1, <1>5, <2>1 DEF ToldInv
  <2>2. ASSUME NEW items, evidence' = evidence \cup items, told' = told \cup Told(rule, items)
        PROVE  ToldInv'
    <3>1. AtHand' = AtHand \cup Told(rule, items)
      BY <1>3, <1>5, <2>2
    <3> QED BY <1>1, <1>5, <2>2, <3>1 DEF ToldInv
  <2> QED BY <1>5, <2>1, <2>2
\* An analyzer that reports what it read.
<1>6. ASSUME NEW F, findings' = findings \cup F, ToldBy(F) = AtHand, evidence' = {}, told' = told
      PROVE  ToldInv'
  <2>1. AtHand' = {}
    BY <1>3, <1>6 DEF AtHand, Clearnet, Weaknesses
  <2>2. ToldBy(findings') = ToldBy(findings) \cup AtHand
    BY <1>2, <1>6
  <2> QED BY <1>1, <1>6, <2>1, <2>2 DEF ToldInv
<1>7. ASSUME DialTLS
      PROVE  ToldInv'
  <2>1. evidence = {} /\ findings' = findings
    BY <1>1, <1>7 DEF DialTLS, PlaceInv
  <2>2. CASE UNCHANGED <<evidence, told>>
    <3>1. AtHand' = {}
      BY <1>3, <2>1, <2>2 DEF AtHand, Clearnet, Weaknesses
    <3> QED BY <1>1, <1>4, <2>1, <2>2, <3>1 DEF ToldInv
  <2>3. ASSUME NEW shown, analyzer' = "tls findings", evidence' = shown,
               told' = told \cup Told("SEC-001", Clearnet(shown))
                            \cup Told("SEC-002", Weaknesses(shown))
        PROVE  ToldInv'
    <3>1. AtHand' = Told("SEC-001", Clearnet(shown)) \cup Told("SEC-002", Weaknesses(shown))
      BY <2>3 DEF AtHand
    <3> QED BY <1>1, <1>4, <2>1, <2>3, <3>1 DEF ToldInv
  <2> QED BY <1>7, <2>2, <2>3 DEF DialTLS
<1>8. ASSUME ReportTLS
      PROVE  ToldInv'
  <2>1. /\ findings' = findings \cup FindingsOfTLS(evidence) /\ evidence' = {} /\ told' = told
        /\ analyzer = "tls findings"
    BY <1>8 DEF ReportTLS
  <2>2. ToldBy(FindingsOfTLS(evidence)) = AtHand
    BY <2>1, TLSTold DEF AtHand
  <2> QED BY <1>6, <2>1, <2>2
<1>9. ASSUME ReadPage \/ FetchRobots \/ FetchSitemap
      PROVE  ToldInv'
  <2>1. /\ analyzer \in InRobots /\ analyzer' \in InRobots /\ findings' = findings
        /\ \/ UNCHANGED <<evidence, told>>
           \/ \E items : ReadPaths(items)
    BY <1>9 DEF ReadPage, FetchRobots, FetchSitemap, FetchListing, InRobots
  <2>2. AtHand = Told("OPSEC-004", evidence) /\ AtHand' = Told("OPSEC-004", evidence')
    BY <2>1 DEF AtHand, InRobots
  <2> QED BY <1>5, <2>1, <2>2 DEF ReadPaths
<1>10. ASSUME ReportPaths
       PROVE  ToldInv'
  <2>1. /\ findings' = findings \cup Finding("OPSEC-004", 1, evidence) /\ evidence' = {}
        /\ told' = told /\ analyzer = "robots findings"
    BY <1>10 DEF ReportPaths
  <2>2. ToldBy(Finding("OPSEC-004", 1, evidence)) = AtHand
    BY <1>2, <2>1 DEF AtHand, InRobots
  <2> QED BY <1>6, <2>1, <2>2
<1>11. ASSUME ReportImages
       PROVE  ToldInv'
  <2>1. PICK severity : /\ findings' = findings \cup Finding("OPSEC-003", severity, evidence)
                        /\ evidence' = {} /\ told' = told /\ analyzer = "metadata"
    BY <1>11 DEF ReportImages
  <2>2. ToldBy(Finding("OPSEC-003", severity, evidence)) = AtHand
    BY <1>2, <2>1 DEF AtHand, InRobots
  <2> QED BY <1>6, <2>1, <2>2
<1>12. ASSUME InspectPage \/ SkipReference \/ FetchImage
       PROVE  ToldInv'
  <2>1. /\ analyzer = "metadata" /\ analyzer' = "metadata" /\ findings' = findings
        /\ \/ UNCHANGED <<evidence, told>>
           \/ \E image, url : Inspect(image, url)
    BY <1>12 DEF InspectPage, SkipReference, FetchImage, MoreReferences
  <2>2. AtHand = Told("OPSEC-003", evidence) /\ AtHand' = Told("OPSEC-003", evidence')
    BY <2>1 DEF AtHand, InRobots
  <2> QED BY <1>5, <2>1, <2>2 DEF Inspect
<1> QED BY <1>7, <1>8, <1>9, <1>10, <1>11, <1>12 DEF Next

\* Each finding of images is made with the severity that its evidence asks for.
LEMMA StepSeverity ==
  ASSUME IInv, Next
  PROVE  SeverityInv'
<1> DEFINE Right(f) == f.rule = "OPSEC-003" => (f.severity = 3 <=> \E e \in f.evidence : e.tag = "gps")
<1>1. \A f \in findings : Right(f)
  BY DEF IInv, SeverityInv
<1>2. ASSUME NEW F, findings' \subseteq findings \cup F, \A f \in F : Right(f)
      PROVE  SeverityInv'
  <2>1. \A f \in findings' : Right(f)
    BY <1>1, <1>2
  <2> QED BY <2>1 DEF SeverityInv
<1>3. ASSUME ReportTLS
      PROVE  SeverityInv'
  <2>1. findings' = findings \cup FindingsOfTLS(evidence)
    BY <1>3 DEF ReportTLS
  <2>2. \A f \in FindingsOfTLS(evidence) : Right(f)
    BY TLSTold
  <2> HIDE DEF Right
  <2> QED BY <1>2, <2>1, <2>2
<1>4. ASSUME ReportPaths
      PROVE  SeverityInv'
  <2>1. findings' = findings \cup Finding("OPSEC-004", 1, evidence)
    BY <1>4 DEF ReportPaths
  <2>2. \A f \in Finding("OPSEC-004", 1, evidence) : f.rule = "OPSEC-004"
    BY FindingRule
  <2>3. \A f \in Finding("OPSEC-004", 1, evidence) : Right(f)
    BY <2>2
  <2> HIDE DEF Right
  <2> QED BY <1>2, <2>1, <2>3
<1>5. ASSUME ReportImages
      PROVE  SeverityInv'
  <2>1. PICK severity : /\ severity = (IF ShowsGPS THEN 3 ELSE 1)
                        /\ findings' = findings \cup Finding("OPSEC-003", severity, evidence)
    BY <1>5 DEF ReportImages
  <2>2. \A f \in Finding("OPSEC-003", severity, evidence) : f.severity = severity /\ f.evidence = evidence
    BY FindingRule
  <2>3. \A f \in Finding("OPSEC-003", severity, evidence) : Right(f)
    BY <2>1, <2>2 DEF ShowsGPS
  <2> HIDE DEF Right
  <2> QED BY <1>2, <2>1, <2>3
<1>6. findings' = findings => SeverityInv'
  BY <1>1 DEF SeverityInv
<1> QED BY <1>3, <1>4, <1>5, <1>6 DEF Next, DialTLS, ReadPage, FetchRobots, FetchSitemap,
           FetchListing, InspectPage, SkipReference, FetchImage

\* All parts together.
LEMMA IInvStep ==
  ASSUME IInv, [Next]_vars
  PROVE  IInv'
<1>1. CASE Next
  BY <1>1, StepTypes, StepRequests, StepPlace, StepTold, StepSeverity DEF IInv
<1>2. CASE UNCHANGED vars
  <2>1. /\ TypeOK' /\ RequestsInv' /\ ToldInv' /\ SeverityInv'
    BY <1>2, Zenon DEF vars, IInv, TypeOK, RequestsInv, Asked, ToldInv, AtHand, SeverityInv
  <2>2. PlaceInv'
    BY <1>2 DEF vars, IInv, PlaceInv, ImagesOf
  <2> QED BY <2>1, <2>2 DEF IInv
<1> QED BY <1>1, <1>2

\* The invariant holds throughout the analysis of a crawl.
THEOREM AnalysisInvariant == Spec => []IInv
<1>1. Init => IInv
  BY IInvInit
<1>2. IInv /\ [Next]_vars => IInv'
  BY IInvStep
<1> QED BY <1>1, <1>2, PTL DEF Spec

-----------------------------------------------------------------------------
(* What follows for the properties of Analysis *)

\* The variables have their types: no page has more than MaxImagesPage images
\* fetched for it, all of the target's own origin.
THEOREM TypeCorrect == Spec => []TypeOK
<1>1. IInv => TypeOK
  BY DEF IInv
<1> QED BY <1>1, AnalysisInvariant, PTL

\* The visited maps keep each analyzer from sending a request twice, whatever
\* fails, and once the scan is done only pages that had all their images leave
\* an image of the target out (Analyze of tls, robots and metadata).
THEOREM RequestsAreAccountedFor == Spec => []ImagesAccountedFor
<1>1. ASSUME IInv
      PROVE  ImagesAccountedFor
  <2>1. IsInjective(requested)
    BY <1>1 DEF IInv, RequestsInv
  <2>2. \A url \in visited : Sent("metadata", url) \in ToSet(requested)
    BY <1>1 DEF IInv, RequestsInv, Requests
  <2>3. analyzer = "done" => \A i \in DOMAIN pages :
            \/ ToSet(pages[i].refs) \cap ImageURLs \subseteq visited
            \/ spent[i] = MaxImagesPage
    BY <1>1 DEF IInv, PlaceInv
  <2> QED BY <2>1, <2>2, <2>3 DEF ImagesAccountedFor
<1> QED BY <1>1, AnalysisInvariant, PTL

\* Once the scan is done its findings tell all that was received and no more,
\* and images are of high severity exactly if they show a position.
THEOREM ReceivedIsInFindings == Spec => []ReceivedIsReported
<1>1. ASSUME IInv
      PROVE  ReceivedIsReported
  <2>1. analyzer = "done" => evidence = {}
    BY <1>1 DEF IInv, PlaceInv
  <2>2. told = ToldBy(findings) \cup AtHand
    BY <1>1 DEF IInv, ToldInv
  <2>3. evidence = {} => AtHand = {}
    BY DEF AtHand, Told, Clearnet, Weaknesses
  <2>4. analyzer = "done" => ToldBy(findings) = told
    BY <2>1, <2>2, <2>3
  <2>5. SeverityInv
    BY <1>1 DEF IInv
  <2> QED BY <2>4, <2>5 DEF ReceivedIsReported, ToldBy, SeverityInv
<1> QED BY <1>1, AnalysisInvariant, PTL

-----------------------------------------------------------------------------
(* Induction on natural numbers *)

\* A nonempty set of natural numbers has a least element: its finite beginnings
\* are well-founded under inclusion.
LEMMA Least ==
  ASSUME NEW S \in SUBSET Nat, S # {}
  PROVE  \E i \in S : \A j \in S : i <= j
<1> DEFINE upTo(m) == S \cap (0 .. m)
           T == {upTo(m) : m \in S}
<1>1. T \subseteq FiniteSubsetsOf(Nat) /\ T # {}
  <2>1. ASSUME NEW m \in S PROVE upTo(m) \in FiniteSubsetsOf(Nat)
    <3>1. IsFiniteSet(0 .. m) /\ upTo(m) \in SUBSET (0 .. m)
      BY FS_Interval
    <3>2. IsFiniteSet(upTo(m))
      BY <3>1, FS_Subset
    <3> QED
      BY <3>2 DEF FiniteSubsetsOf
  <2> QED
    BY <2>1
<1>2. IsWellFoundedOn(StrictSubsetOrdering(Nat), FiniteSubsetsOf(Nat))
  BY FS_StrictSubsetOrderingWellFounded
<1>3. PICK x \in T : \A y \in T : <<y, x>> \notin StrictSubsetOrdering(Nat)
  <2> HIDE DEF T
  <2> QED
    BY <1>1, <1>2, WFMin
<1>4. PICK i \in S : x = upTo(i)
  OBVIOUS
<1>5. ASSUME NEW j \in S, j < i PROVE FALSE
  <2>1. upTo(j) \subseteq upTo(i) /\ i \in upTo(i) /\ i \notin upTo(j)
    BY <1>5
  <2>2. <<upTo(j), upTo(i)>> \in StrictSubsetOrdering(Nat)
    BY <2>1 DEF StrictSubsetOrdering
  <2> QED
    BY <1>3, <1>4, <2>2
<1> QED
  BY <1>5

\* Induction, on a set in place of a predicate, up to N.
LEMMA UpTo ==
  ASSUME NEW N \in Nat, NEW S, 0 \in S,
         \A n \in 0 .. N - 1 : n \in S => n + 1 \in S
  PROVE  \A n \in 0 .. N : n \in S
<1> SUFFICES ASSUME NEW k \in 0 .. N, k \notin S PROVE FALSE
  OBVIOUS
<1> DEFINE Bad == {n \in 0 .. N : n \notin S}
<1>1. Bad \in SUBSET Nat /\ Bad # {}
  OBVIOUS
<1>2. PICK i \in Bad : \A j \in Bad : i <= j
  <2> HIDE DEF Bad
  <2> QED
    BY <1>1, Least
<1>3. i # 0 /\ i - 1 \in 0 .. N - 1 /\ i - 1 \notin Bad
  BY <1>2
<1>4. i - 1 \in S
  BY <1>3
<1>5. (i - 1) + 1 \in S
  BY <1>3, <1>4
<1> QED
  BY <1>2, <1>5

\* Induction over all natural numbers.
LEMMA Induction ==
  ASSUME NEW S, 0 \in S, \A n \in Nat : n \in S => n + 1 \in S
  PROVE  \A n \in Nat : n \in S
<1> SUFFICES ASSUME NEW k \in Nat PROVE k \in S
  OBVIOUS
<1>1. \A n \in 0 .. k - 1 : n \in S => n + 1 \in S
  OBVIOUS
<1>2. \A n \in 0 .. k : n \in S
  BY <1>1, UpTo
<1> QED
  BY <1>2

-----------------------------------------------------------------------------
(* The equations of the walk *)

\* A file has an end, and its directories are sequences.
IsFile(file) ==
  /\ IsFiniteSet(DOMAIN file)
  /\ \A offset \in DOMAIN file : file[offset] \in Seq(ToSet(file[offset]))

\* What is read of a directory are entries of it.
LEMMA ReadFacts ==
  ASSUME NEW file, IsFile(file), NEW offset \in DOMAIN file, NEW most \in Nat
  PROVE  /\ Read(file, offset, most) \in Seq(ToSet(file[offset]))
         /\ Len(Read(file, offset, most)) \in Nat
         /\ DOMAIN Read(file, offset, most) = 1 .. Len(Read(file, offset, most))
<1> DEFINE s == file[offset]
           m == IF Len(s) < most THEN Len(s) ELSE most
<1>1. s \in Seq(ToSet(s))
  BY DEF IsFile
<1>2. Len(s) \in Nat /\ \A i \in 1 .. Len(s) : s[i] \in ToSet(s)
  <2> HIDE DEF s
  <2> QED
    BY <1>1, LenProperties, ElementOfSeq
<1>3. m \in Nat /\ \A i \in 1 .. m : s[i] \in ToSet(s)
  <2> HIDE DEF s
  <2> QED
    BY <1>2
<1>4. SubSeq(s, 1, m) \in Seq(ToSet(s))
  <2> HIDE DEF s, m
  <2> QED
    BY <1>3, SubSeqProperties
<1>5. Read(file, offset, most) \in Seq(ToSet(file[offset]))
  BY <1>4 DEF Read
<1> QED
  BY <1>5, LenProperties

\* The walk through the entries of a directory, one after the other.
LEMMA ParsingEntriesIs ==
  ASSUME NEW file, IsFile(file), NEW parse, NEW read, NEW offset \in DOMAIN file
  PROVE  LET entries == Read(file, offset, MaxEntries)
             walk == ParsingEntries(file, parse, read, offset) IN
         /\ walk[0] = Nothing(Append(read, offset))
         /\ \A n \in 1 .. Len(entries) :
              walk[n] = ParseEntry(file, parse, walk[n - 1], entries[n])
<1> DEFINE entries == Read(file, offset, MaxEntries)
           walk == ParsingEntries(file, parse, read, offset)
           N == Len(entries)
           b == Nothing(Append(read, offset))
           Op(w, n) == ParseEntry(file, parse, w, entries[n])
           P(f) == f = [n \in 0 .. N |-> IF n = 0 THEN b ELSE Op(f[n - 1], n)]
           Good(m, f) == f[0] = b /\ \A n \in 1 .. m : f[n] = Op(f[n - 1], n)
           Total(f) == f = [n \in 0 .. N |-> f[n]]
           S == {m \in 0 .. N : \E f : Total(f) /\ Good(m, f)}
<1>1. N \in Nat
  BY ReadFacts, ImageAssumption
<1>2. walk = CHOOSE h : P(h)
  BY DEF ParsingEntries
<1> HIDE DEF Op, b, N, walk
<1>3. 0 \in S
  <2> DEFINE c == [n \in 0 .. N |-> b]
  <2>1. Total(c) /\ Good(0, c)
    BY <1>1
  <2> HIDE DEF c, Good, Total
  <2> QED
    BY <1>1, <2>1
<1>4. ASSUME NEW m \in 0 .. N - 1, m \in S PROVE m + 1 \in S
  <2> HIDE DEF Total, Good
  <2>1. PICK f : Total(f) /\ Good(m, f)
    BY <1>4
  <2> USE DEF Good
  <2> DEFINE h == [n \in 0 .. N |-> IF n = m + 1 THEN Op(f[m], m + 1) ELSE f[n]]
  <2>2. m + 1 \in 1 .. N /\ m \in 0 .. N
    BY <1>1
  <2>3. h[m + 1] = Op(f[m], m + 1) /\ \A n \in 0 .. m : h[n] = f[n]
    BY <1>1, <2>2
  <2>4. Total(h)
    BY <1>1 DEF Total
  <2> HIDE DEF h
  <2>5. Good(m + 1, h)
    <3>1. h[0] = b
      BY <1>1, <2>1, <2>3
    <3>2. ASSUME NEW n \in 1 .. m + 1 PROVE h[n] = Op(h[n - 1], n)
      <4>1. CASE n = m + 1
        BY <1>1, <2>3, <4>1
      <4>2. CASE n # m + 1
        <5>1. n \in 1 .. m /\ n - 1 \in 0 .. m /\ n \in 0 .. m
          BY <1>1, <4>2
        <5> QED
          BY <2>1, <2>3, <5>1
      <4> QED
        BY <4>1, <4>2
    <3> QED
      BY <3>1, <3>2
  <2> HIDE DEF Good
  <2> QED
    BY <2>2, <2>4, <2>5
<1>5. N \in S
  <2> HIDE DEF S
  <2>1. \A n \in 0 .. N : n \in S
    BY <1>1, <1>3, <1>4, UpTo
  <2> QED
    BY <1>1, <2>1
<1>6. PICK f : Total(f) /\ Good(N, f)
  <2> HIDE DEF Total, Good
  <2> QED
    BY <1>5
<1>7. P(f)
  <2>1. \A n \in 0 .. N : f[n] = IF n = 0 THEN b ELSE Op(f[n - 1], n)
    <3> HIDE DEF Total
    <3> QED
      BY <1>1, <1>6
  <2> QED
    BY <1>6, <2>1
<1>8. P(walk)
  <2> HIDE DEF P
  <2> QED
    BY <1>2, <1>7
<1>9. walk[0] = b /\ \A n \in 1 .. N : walk[n] = Op(walk[n - 1], n)
  BY <1>1, <1>8
<1> QED
  BY <1>9 DEF walk, b, N, Op

\* The calls of parseIFD with so many levels to go, by those with one less.
LEMMA ParseIFDIs ==
  ASSUME NEW file
  PROVE  LET parse == ParseIFD(file) IN
         \A left \in 0 .. MaxDepth + 1 :
           \A read \in Seq(DOMAIN file), offset \in DOMAIN file :
             parse[left][read][offset] =
               IF Refused(left, read, offset) THEN Nothing(read)
               ELSE ParseEntries(file, parse[left - 1], read, offset)
<1> DEFINE N == MaxDepth + 1
           R == Seq(DOMAIN file)
           D == DOMAIN file
           Op(f, left) ==
             [read \in R |-> [offset \in D |->
                IF Refused(left, read, offset) THEN Nothing(read)
                ELSE ParseEntries(file, f, read, offset)]]
           b == Op(<<>>, 0)
           P(f) == f = [n \in 0 .. N |-> Op(f[n - 1], n)]
           Good(m, f) == f[0] = b /\ \A n \in 1 .. m : f[n] = Op(f[n - 1], n)
           Total(f) == f = [n \in 0 .. N |-> f[n]]
           S == {m \in 0 .. N : \E f : Total(f) /\ Good(m, f)}
           parse == ParseIFD(file)
<1>1. N \in Nat
  BY ImageAssumption
<1>2. parse = CHOOSE h : P(h)
  BY DEF ParseIFD
<1>3. \A f : Op(f, 0) = b
  BY DEF Refused
<1>4. \A f, left : \A read \in R, offset \in D :
        Op(f, left)[read][offset] =
          IF Refused(left, read, offset) THEN Nothing(read)
          ELSE ParseEntries(file, f, read, offset)
  <2> HIDE DEF R, D
  <2> QED
    OBVIOUS
<1> HIDE DEF Op, b, N, parse
<1>5. 0 \in S
  <2> DEFINE c == [n \in 0 .. N |-> b]
  <2>1. Total(c) /\ Good(0, c)
    BY <1>1
  <2> HIDE DEF c, Good, Total
  <2> QED
    BY <1>1, <2>1
<1>6. ASSUME NEW m \in 0 .. N - 1, m \in S PROVE m + 1 \in S
  <2> HIDE DEF Total, Good
  <2>1. PICK f : Total(f) /\ Good(m, f)
    BY <1>6
  <2> USE DEF Good
  <2> DEFINE h == [n \in 0 .. N |-> IF n = m + 1 THEN Op(f[m], m + 1) ELSE f[n]]
  <2>2. m + 1 \in 1 .. N /\ m \in 0 .. N
    BY <1>1
  <2>3. h[m + 1] = Op(f[m], m + 1) /\ \A n \in 0 .. m : h[n] = f[n]
    BY <1>1, <2>2
  <2>4. Total(h)
    BY <1>1 DEF Total
  <2> HIDE DEF h
  <2>5. Good(m + 1, h)
    <3>1. h[0] = b
      BY <1>1, <2>1, <2>3
    <3>2. ASSUME NEW n \in 1 .. m + 1 PROVE h[n] = Op(h[n - 1], n)
      <4>1. CASE n = m + 1
        BY <1>1, <2>3, <4>1
      <4>2. CASE n # m + 1
        <5>1. n \in 1 .. m /\ n - 1 \in 0 .. m /\ n \in 0 .. m
          BY <1>1, <4>2
        <5> QED
          BY <2>1, <2>3, <5>1
      <4> QED
        BY <4>1, <4>2
    <3> QED
      BY <3>1, <3>2
  <2> HIDE DEF Good
  <2> QED
    BY <2>2, <2>4, <2>5
<1>7. N \in S
  <2> HIDE DEF S
  <2>1. \A n \in 0 .. N : n \in S
    BY <1>1, <1>5, <1>6, UpTo
  <2> QED
    BY <1>1, <2>1
<1>8. PICK f : Total(f) /\ Good(N, f)
  <2> HIDE DEF Total, Good
  <2> QED
    BY <1>7
<1>9. P(f)
  <2>1. \A n \in 0 .. N : f[n] = Op(f[n - 1], n)
    <3> HIDE DEF Total
    <3> QED
      BY <1>1, <1>3, <1>8
  <2> QED
    BY <1>8, <2>1
<1>10. P(parse)
  <2> HIDE DEF P
  <2> QED
    BY <1>2, <1>9
<1>11. \A n \in 0 .. N : parse[n] = Op(parse[n - 1], n)
  BY <1>1, <1>10
<1>12. ASSUME NEW left \in 0 .. N, NEW read \in R, NEW offset \in D
       PROVE  parse[left][read][offset] =
                IF Refused(left, read, offset) THEN Nothing(read)
                ELSE ParseEntries(file, parse[left - 1], read, offset)
  <2>1. parse[left] = Op(parse[left - 1], left)
    BY <1>11
  <2> DEFINE before == parse[left - 1]
  <2>2. Op(before, left)[read][offset] =
          IF Refused(left, read, offset) THEN Nothing(read)
          ELSE ParseEntries(file, before, read, offset)
    <3> HIDE DEF before, R, D
    <3> QED
      BY <1>4
  <2> QED
    BY <2>1, <2>2
<1> QED
  BY <1>12 DEF parse, N

-----------------------------------------------------------------------------
(* What a walk comes to *)

Entries(file, offset) == Read(file, offset, MaxEntries)
GPSEntries(file, offset) == Read(file, offset, MaxGPSEntries)

\* What a file may say: the texts of its directories, whole positions, and
\* altitudes.
Texts(file) ==
  {e \in UNION {ToSet(Entries(file, d)) : d \in Reachable(file)} : e.tag \in TextTags}
Positions(file) ==
  {Position(GPSEntries(file, d)) : d \in GPSDirectories(file)} \ {NoValue}
Altitudes(file) ==
  {LastOf(GPSEntries(file, d), "altitude") : d \in GPSDirectories(file)}
Sayable(file) ==
  Texts(file) \cup [tag : {"gps"}, value : Positions(file)]
              \cup [tag : {"altitude"}, value : Altitudes(file)]

\* Directories that pointers lead to, each once.
Reads(file) ==
  {read \in Seq(Reachable(file) \cup GPSDirectories(file)) : IsInjective(read)}

Walks(file) == [read : Reads(file), said : Seq(Sayable(file))]

\* A text has been said, a directory that is pointed to has been read, and the
\* position of a GPS directory has been said.
EntryDone(file, walk, e) ==
  /\ e.tag \in TextTags => e \in ToSet(walk.said)
  /\ e.tag \in {"exifIFD", "gpsIFD"} /\ e.value \in DOMAIN file
       => e.value \in ToSet(walk.read)

Done(file, walk, d) ==
  /\ d \in Reachable(file) => \A e \in ToSet(Entries(file, d)) : EntryDone(file, walk, e)
  /\ d \in GPSDirectories(file) /\ Position(GPSEntries(file, d)) # NoValue
       => \E e \in ToSet(walk.said) : e.tag = "gps"

\* What a call for a directory comes to, after others were read: with a
\* wellformed file, the directory is read, and what was read is done with.
Result(file, read, offset, walk) ==
  /\ walk \in Walks(file)
  /\ ToSet(read) \subseteq ToSet(walk.read)
  /\ Wellformed(file) =>
       /\ offset \in ToSet(walk.read)
       /\ \A d \in ToSet(walk.read) \ ToSet(read) : Done(file, walk, d)

\* The directories whose entries are being parsed when one is called for.
Ancestors(file, c, offset) ==
  \/ c = <<>> /\ offset = Start
  \/ c \in Chains(file) /\ offset \in Targets(file, c[Len(c)], "exifIFD", MaxEntries)

-----------------------------------------------------------------------------
(* Chains of directories *)

LEMMA ChainFacts ==
  ASSUME NEW file, IsFile(file), NEW c \in Chains(file)
  PROVE  /\ c \in Seq(DOMAIN file) /\ Len(c) \in Nat \ {0}
         /\ c[1] = Start /\ IsInjective(c)
         /\ \A i \in 1 .. Len(c) - 1 :
              c[i + 1] \in Targets(file, c[i], "exifIFD", MaxEntries)
<1>1. /\ c \in SeqOf(DOMAIN file, Cardinality(DOMAIN file))
      /\ c # <<>> /\ c[1] = Start /\ IsInjective(c)
      /\ \A i \in 1 .. Len(c) - 1 : c[i + 1] \in Targets(file, c[i], "exifIFD", MaxEntries)
  BY DEF Chains
<1>2. Cardinality(DOMAIN file) \in Nat
  BY FS_CardinalityType DEF IsFile
<1>3. PICK m \in 0 .. Cardinality(DOMAIN file) : c \in [1 .. m -> DOMAIN file]
  BY <1>1 DEF SeqOf
<1>4. c \in Seq(DOMAIN file)
  BY <1>2, <1>3, SeqDef
<1>5. Len(c) \in Nat \ {0}
  BY <1>1, <1>4, LenProperties, EmptySeq
<1> QED
  BY <1>1, <1>4, <1>5

\* Directories on chains, and those that they point to, are in the file.
LEMMA ReachableFacts ==
  ASSUME NEW file, IsFile(file)
  PROVE  /\ Reachable(file) \subseteq DOMAIN file
         /\ GPSDirectories(file) \subseteq DOMAIN file
         /\ \A c \in Chains(file) : ToSet(c) \subseteq Reachable(file)
<1>1. ASSUME NEW c \in Chains(file) PROVE ToSet(c) \subseteq DOMAIN file
  <2>1. c \in Seq(DOMAIN file)
    BY ChainFacts
  <2> QED
    BY <2>1, LenProperties, ElementOfSeq DEF ToSet
<1>2. Reachable(file) \subseteq DOMAIN file
  BY <1>1 DEF Reachable
<1>3. GPSDirectories(file) \subseteq DOMAIN file
  BY DEF GPSDirectories, Targets
<1> QED
  BY <1>2, <1>3 DEF Reachable

\* A directory that none of its ancestors is goes on with their chain.
LEMMA ChainGrows ==
  ASSUME NEW file, IsFile(file), NEW c, NEW offset \in DOMAIN file,
         Ancestors(file, c, offset), offset \notin ToSet(c)
  PROVE  /\ Append(c, offset) \in Chains(file)
         /\ Len(c) \in Nat /\ Len(Append(c, offset)) = Len(c) + 1
         /\ ToSet(Append(c, offset)) = ToSet(c) \cup {offset}
         /\ Append(c, offset)[Len(Append(c, offset))] = offset
<1> DEFINE D == DOMAIN file
           a == Append(c, offset)
           n == Len(c)
<1>1. c \in Seq(D) /\ IsInjective(c)
  <2>1. CASE c = <<>>
    BY <2>1, EmptySeq DEF IsInjective
  <2>2. CASE c # <<>>
    BY <2>2, ChainFacts DEF Ancestors
  <2> QED
    BY <2>1, <2>2
<1>2. /\ a \in Seq(D) /\ Len(a) = n + 1 /\ n \in Nat
      /\ \A i \in 1 .. n : a[i] = c[i]
      /\ a[n + 1] = offset
  BY <1>1, AppendProperties, LenProperties
<1>3. a \in Seq(D) /\ IsInjective(a) /\ ToSet(a) = ToSet(c) \cup {offset}
  <2> HIDE DEF D
  <2> QED
    BY <1>1, AppendNew DEF D
<1> HIDE DEF a
<1>4. a[1] = Start
  <2>1. CASE c = <<>>
    BY <1>2, <2>1, EmptySeq, ChainFacts DEF Ancestors
  <2>2. CASE c # <<>>
    <3>1. c \in Chains(file)
      BY <2>2 DEF Ancestors
    <3>2. n \in Nat \ {0} /\ c[1] = Start
      BY <3>1, ChainFacts
    <3> QED
      BY <1>2, <3>2
  <2> QED
    BY <2>1, <2>2
<1>5. ASSUME NEW i \in 1 .. Len(a) - 1
      PROVE  a[i + 1] \in Targets(file, a[i], "exifIFD", MaxEntries)
  <2>1. c # <<>>
    BY <1>2, EmptySeq
  <2>2. c \in Chains(file) /\ offset \in Targets(file, c[n], "exifIFD", MaxEntries)
    BY <2>1 DEF Ancestors
  <2>3. CASE i = n
    BY <1>2, <2>2, <2>3
  <2>4. CASE i # n
    <3>1. i \in 1 .. n - 1 /\ i \in 1 .. n /\ i + 1 \in 1 .. n
      BY <1>2, <2>4
    <3>2. c[i + 1] \in Targets(file, c[i], "exifIFD", MaxEntries)
      BY <2>2, <3>1, ChainFacts
    <3> QED
      BY <1>2, <3>1, <3>2
  <2> QED
    BY <2>3, <2>4
<1>6. a \in SeqOf(D, Cardinality(D))
  <2> DEFINE m == Len(a)
             K == Cardinality(D)
  <2>1. IsFiniteSet(D) /\ K \in Nat
    BY FS_CardinalityType DEF IsFile
  <2>2. m \in Nat /\ a \in [1 .. m -> D]
    BY <1>2, <1>3, LenProperties
  <2>3. a \in Injection(1 .. m, D)
    BY <1>3, <2>2 DEF Injection, IsInjective
  <2>4. Cardinality(1 .. m) <= K
    <3> HIDE DEF D, m, K
    <3> QED
      BY <2>1, <2>3, FS_Injection DEF K
  <2>5. Cardinality(1 .. m) = m
    <3> HIDE DEF m
    <3> QED
      BY <2>2, FS_Interval
  <2>6. m \in 0 .. K
    BY <2>1, <2>2, <2>4, <2>5
  <2> QED
    BY <2>2, <2>6 DEF SeqOf
<1>7. a # <<>>
  BY <1>2, EmptySeq
<1>8. a \in Chains(file)
  BY <1>3, <1>4, <1>5, <1>6, <1>7 DEF Chains
<1> QED
  BY <1>2, <1>3, <1>8 DEF a

-----------------------------------------------------------------------------
(* Walks that go on *)

LEMMA ReadsFacts ==
  ASSUME NEW file, IsFile(file), NEW read \in Reads(file)
  PROVE  /\ read \in Seq(DOMAIN file) /\ IsInjective(read)
         /\ ToSet(read) \subseteq Reachable(file) \cup GPSDirectories(file)
<1> DEFINE R == Reachable(file) \cup GPSDirectories(file)
<1>1. read \in Seq(R) /\ IsInjective(read)
  BY DEF Reads
<1>2. Len(read) \in Nat /\ \A i \in 1 .. Len(read) : read[i] \in R
  BY <1>1, LenProperties, ElementOfSeq
<1>3. R \subseteq DOMAIN file
  BY ReachableFacts
<1>4. read \in [1 .. Len(read) -> R]
  BY <1>1, LenProperties, SeqDef
<1> HIDE DEF R
<1>5. read \in [1 .. Len(read) -> DOMAIN file]
  BY <1>3, <1>4
<1>6. read \in Seq(DOMAIN file)
  BY <1>2, <1>5, SeqDef
<1>7. DOMAIN read = 1 .. Len(read)
  BY <1>4
<1>8. ToSet(read) \subseteq R
  BY <1>2, <1>7 DEF ToSet
<1> QED
  BY <1>1, <1>6, <1>8 DEF R

\* One more directory is read.
LEMMA ReadsGrow ==
  ASSUME NEW file, NEW read \in Reads(file),
         NEW d \in Reachable(file) \cup GPSDirectories(file), d \notin ToSet(read)
  PROVE  /\ Append(read, d) \in Reads(file)
         /\ ToSet(Append(read, d)) = ToSet(read) \cup {d}
<1> DEFINE R == Reachable(file) \cup GPSDirectories(file)
<1>1. read \in Seq(R) /\ IsInjective(read) /\ d \in R
  BY DEF Reads
<1> HIDE DEF R
<1>2. /\ Append(read, d) \in Seq(R) /\ IsInjective(Append(read, d))
      /\ ToSet(Append(read, d)) = ToSet(read) \cup {d}
  BY <1>1, AppendNew
<1> QED
  BY <1>2 DEF Reads, R

\* The items of a sequence with one more, or with a sequence behind it.
LEMMA ItemsAppend ==
  ASSUME NEW S, NEW s \in Seq(S), NEW e \in S
  PROVE  Append(s, e) \in Seq(S) /\ ToSet(Append(s, e)) = ToSet(s) \cup {e}
<1> DEFINE a == Append(s, e)
<1>1. /\ a \in Seq(S) /\ Len(a) = Len(s) + 1
      /\ \A i \in 1 .. Len(s) : a[i] = s[i]
      /\ a[Len(s) + 1] = e
  BY AppendProperties
<1>2. DOMAIN s = 1 .. Len(s) /\ DOMAIN a = 1 .. Len(s) + 1 /\ Len(s) \in Nat
  BY <1>1, LenProperties
<1> HIDE DEF a
<1>3. ToSet(a) = ToSet(s) \cup {e}
  BY <1>1, <1>2 DEF ToSet
<1> QED
  BY <1>1, <1>3 DEF a

LEMMA ItemsConcat ==
  ASSUME NEW S, NEW s \in Seq(S), NEW t \in Seq(S)
  PROVE  s \o t \in Seq(S) /\ ToSet(s \o t) = ToSet(s) \cup ToSet(t)
<1> DEFINE a == s \o t
           m == Len(s)
           n == Len(t)
<1>1. /\ a \in Seq(S) /\ Len(a) = m + n
      /\ \A i \in 1 .. m + n : a[i] = IF i <= m THEN s[i] ELSE t[i - m]
  BY ConcatProperties
<1>2. /\ DOMAIN s = 1 .. m /\ DOMAIN t = 1 .. n /\ DOMAIN a = 1 .. m + n
      /\ m \in Nat /\ n \in Nat
  BY <1>1, LenProperties
<1> HIDE DEF a, m, n
<1>3. \A i \in 1 .. m : i \in 1 .. m + n /\ a[i] = s[i]
  BY <1>1, <1>2
<1>4. \A i \in 1 .. n : m + i \in 1 .. m + n /\ a[m + i] = t[i]
  BY <1>1, <1>2
<1>5. \A i \in 1 .. m + n : (i \in 1 .. m /\ a[i] = s[i]) \/ (i - m \in 1 .. n /\ a[i] = t[i - m])
  BY <1>1, <1>2
<1>6. ToSet(a) \subseteq ToSet(s) \cup ToSet(t)
  BY <1>2, <1>5 DEF ToSet
<1>7. ToSet(s) \subseteq ToSet(a) /\ ToSet(t) \subseteq ToSet(a)
  BY <1>2, <1>3, <1>4 DEF ToSet
<1> QED
  BY <1>1, <1>6, <1>7 DEF a

\* What is done with stays so when more is read and said.
LEMMA DoneGrows ==
  ASSUME NEW file, NEW walk, NEW longer,
         ToSet(walk.read) \subseteq ToSet(longer.read),
         ToSet(walk.said) \subseteq ToSet(longer.said)
  PROVE  /\ \A e : EntryDone(file, walk, e) => EntryDone(file, longer, e)
         /\ \A d : Done(file, walk, d) => Done(file, longer, d)
<1>1. \A e : EntryDone(file, walk, e) => EntryDone(file, longer, e)
  BY DEF EntryDone
<1> QED
  BY <1>1 DEF Done

\* A walk, and what another call comes to after it.
LEMMA ThenFacts ==
  ASSUME NEW file, NEW walk \in Walks(file), NEW d, NEW more,
         Result(file, walk.read, d, more)
  PROVE  LET longer == Then(walk, more) IN
         /\ longer \in Walks(file) /\ longer.read = more.read
         /\ ToSet(walk.read) \subseteq ToSet(longer.read)
         /\ ToSet(longer.said) = ToSet(walk.said) \cup ToSet(more.said)
<1> DEFINE longer == Then(walk, more)
           s == walk.said
           t == more.said
<1>1. /\ more \in Walks(file) /\ ToSet(walk.read) \subseteq ToSet(more.read)
  BY DEF Result
<1>2. s \in Seq(Sayable(file)) /\ t \in Seq(Sayable(file)) /\ more.read \in Reads(file)
  BY <1>1 DEF Walks
<1>3. longer = [read |-> more.read, said |-> s \o t]
  BY DEF Then
<1> HIDE DEF s, t
<1>4. s \o t \in Seq(Sayable(file)) /\ ToSet(s \o t) = ToSet(s) \cup ToSet(t)
  BY <1>2, ItemsConcat
<1>5. longer \in Walks(file) /\ longer.read = more.read /\ longer.said = s \o t
  BY <1>2, <1>3, <1>4 DEF Walks
<1> QED
  BY <1>1, <1>4, <1>5 DEF s, t

\* A directory that was read is not read again.
LEMMA NothingResult ==
  ASSUME NEW file, NEW read \in Reads(file), NEW offset,
         Wellformed(file) => offset \in ToSet(read)
  PROVE  Result(file, read, offset, Nothing(read))
<1>1. <<>> \in Seq(Sayable(file))
  BY EmptySeq
<1>2. Nothing(read) \in Walks(file) /\ Nothing(read).read = read
  BY <1>1 DEF Nothing, Walks
<1> QED
  BY <1>2 DEF Result

\* A GPS directory says its position, if it is whole.
LEMMA GPSResult ==
  ASSUME NEW file, IsFile(file), NEW read \in Reads(file), NEW offset \in GPSDirectories(file)
  PROVE  Result(file, read, offset, ParseGPSIFD(file, offset, read))
<1>1. CASE offset \in ToSet(read)
  BY <1>1, NothingResult DEF ParseGPSIFD
<1>2. CASE offset \notin ToSet(read)
  <2> DEFINE es == GPSEntries(file, offset)
             p == Position(es)
             v == LastOf(es, "altitude")
             s == Say("gps", p)
             t == Say("altitude", v)
             walk == ParseGPSIFD(file, offset, read)
             T == Sayable(file)
  <2>1. walk = [read |-> Append(read, offset), said |-> s \o t]
    BY <1>2 DEF ParseGPSIFD, GPSEntries
  <2>2. p # NoValue => p \in Positions(file)
    BY DEF Positions
  <2>3. v \in Altitudes(file)
    BY DEF Altitudes
  <2> HIDE DEF p, v, walk, T
  <2>4. s \in Seq(T) /\ (p # NoValue => [tag |-> "gps", value |-> p] \in ToSet(s))
    <3>1. CASE p = NoValue
      BY <3>1, EmptySeq DEF Say
    <3>2. CASE p # NoValue
      <4> DEFINE e == [tag |-> "gps", value |-> p]
      <4>1. e \in T
        BY <2>2, <3>2 DEF T, Sayable
      <4>2. s = <<e>>
        BY <3>2 DEF Say
      <4> HIDE DEF e, s
      <4>3. <<e>> \in Seq(T) /\ DOMAIN <<e>> = 1 .. 1 /\ <<e>>[1] = e
        BY <4>1, SeqDef
      <4>4. e \in ToSet(s)
        BY <4>2, <4>3 DEF ToSet
      <4> QED
        BY <4>2, <4>3, <4>4 DEF e
    <3> QED
      BY <3>1, <3>2
  <2>5. t \in Seq(T)
    <3>1. CASE v = NoValue
      BY <3>1, EmptySeq DEF Say
    <3>2. CASE v # NoValue
      <4> DEFINE e == [tag |-> "altitude", value |-> v]
      <4>1. e \in T
        BY <2>3 DEF T, Sayable
      <4>2. t = <<e>>
        BY <3>2 DEF Say
      <4> HIDE DEF e, t
      <4> QED
        BY <4>1, <4>2
    <3> QED
      BY <3>1, <3>2
  <2> HIDE DEF s, t
  <2>6. s \o t \in Seq(T) /\ ToSet(s \o t) = ToSet(s) \cup ToSet(t)
    BY <2>4, <2>5, ItemsConcat
  <2>7. Append(read, offset) \in Reads(file) /\ ToSet(Append(read, offset)) = ToSet(read) \cup {offset}
    BY <1>2, ReadsGrow
  <2>8. /\ walk \in Walks(file)
        /\ walk.read = Append(read, offset) /\ walk.said = s \o t
    BY <2>1, <2>6, <2>7 DEF Walks, T
  <2>9. ASSUME Wellformed(file) PROVE Done(file, walk, offset)
    <3>1. offset \notin Reachable(file)
      BY <2>9 DEF Wellformed
    <3>2. p # NoValue => \E e \in ToSet(walk.said) : e.tag = "gps"
      BY <2>4, <2>6, <2>8
    <3> QED
      BY <3>1, <3>2 DEF Done, p
  <2> QED
    BY <2>7, <2>8, <2>9 DEF Result, walk
<1> QED
  BY <1>1, <1>2

\* The loop over the entries of a directory, if calls for the directories that
\* they point to come to what they should.
LEMMA EntriesResult ==
  ASSUME NEW file, IsFile(file), NEW offset \in Reachable(file),
         NEW read \in Reads(file), offset \notin ToSet(read), NEW parse,
         \A r \in Reads(file), t \in Targets(file, offset, "exifIFD", MaxEntries) :
           ToSet(read) \cup {offset} \subseteq ToSet(r) => Result(file, r, t, parse[r][t])
  PROVE  Result(file, read, offset, ParseEntries(file, parse, read, offset))
<1> DEFINE es == Entries(file, offset)
           N == Len(es)
           walk == ParsingEntries(file, parse, read, offset)
           before == ToSet(read) \cup {offset}
           Good(w, n) ==
             /\ w \in Walks(file) /\ before \subseteq ToSet(w.read)
             /\ Wellformed(file) =>
                  /\ \A i \in 1 .. n : EntryDone(file, w, es[i])
                  /\ \A d \in ToSet(w.read) \ before : Done(file, w, d)
           S == {n \in 0 .. N : Good(walk[n], n)}
<1>1. offset \in DOMAIN file
  BY ReachableFacts
<1>2. /\ N \in Nat /\ DOMAIN es = 1 .. N
      /\ \A i \in 1 .. N : es[i] \in ToSet(es)
  BY <1>1, ReadFacts, ImageAssumption DEF Entries, ToSet
<1>3. /\ walk[0] = Nothing(Append(read, offset))
      /\ \A n \in 1 .. N : walk[n] = ParseEntry(file, parse, walk[n - 1], es[n])
  BY <1>1, ParsingEntriesIs DEF Entries
<1>4. ParseEntries(file, parse, read, offset) = walk[N]
  BY DEF ParseEntries, Entries
<1>5. Good(walk[0], 0)
  <2>1. Append(read, offset) \in Reads(file) /\ ToSet(Append(read, offset)) = before
    BY ReadsGrow
  <2>2. <<>> \in Seq(Sayable(file))
    BY EmptySeq
  <2>3. walk[0] = [read |-> Append(read, offset), said |-> <<>>]
    BY <1>3 DEF Nothing
  <2> HIDE DEF walk, N, es
  <2>4. walk[0] \in Walks(file) /\ ToSet(walk[0].read) = before
    BY <2>1, <2>2, <2>3 DEF Walks
  <2> QED
    BY <2>4
<1> HIDE DEF walk, N
<1>6. ASSUME NEW n \in 1 .. N, Good(walk[n - 1], n - 1) PROVE Good(walk[n], n)
  <2> DEFINE w == walk[n - 1]
             v == walk[n]
             e == es[n]
  <2>1. w \in Walks(file) /\ before \subseteq ToSet(w.read)
    BY <1>6
  <2>2. v = ParseEntry(file, parse, w, e) /\ e \in ToSet(es)
    BY <1>2, <1>3
  <2>3. Wellformed(file) =>
          /\ \A i \in 1 .. n - 1 : EntryDone(file, w, es[i])
          /\ \A d \in ToSet(w.read) \ before : Done(file, w, d)
    BY <1>6
  <2> SUFFICES Good(v, n)
    OBVIOUS
  <2> HIDE DEF w, v, e, Good, before
  <2>4. ASSUME v \in Walks(file),
               ToSet(w.read) \subseteq ToSet(v.read), ToSet(w.said) \subseteq ToSet(v.said),
               Wellformed(file) =>
                 /\ EntryDone(file, v, e)
                 /\ \A d \in ToSet(v.read) \ ToSet(w.read) : Done(file, v, d)
        PROVE  Good(v, n)
    <3>1. before \subseteq ToSet(v.read)
      BY <2>1, <2>4
    <3>2. ASSUME Wellformed(file), NEW i \in 1 .. n PROVE EntryDone(file, v, es[i])
      <4>1. CASE i = n
        BY <2>4, <3>2, <4>1 DEF e
      <4>2. CASE i # n
        <5>1. i \in 1 .. n - 1
          BY <1>2, <4>2
        <5>2. EntryDone(file, w, es[i])
          BY <2>3, <3>2, <5>1
        <5> QED
          BY <2>4, <5>2, DoneGrows
      <4> QED
        BY <4>1, <4>2
    <3>3. ASSUME Wellformed(file), NEW d \in ToSet(v.read) \ before PROVE Done(file, v, d)
      <4>1. CASE d \in ToSet(w.read)
        <5>1. Done(file, w, d)
          BY <2>3, <3>3, <4>1
        <5> QED
          BY <2>4, <5>1, DoneGrows
      <4>2. CASE d \notin ToSet(w.read)
        BY <2>4, <3>3, <4>2
      <4> QED
        BY <4>1, <4>2
    <3> QED
      BY <2>4, <3>1, <3>2, <3>3 DEF Good
  <2>5. ASSUME NEW more, Result(file, w.read, e.value, more), v = Then(w, more),
               e.tag \notin TextTags
        PROVE  Good(v, n)
    <3>1. /\ v \in Walks(file) /\ v.read = more.read
          /\ ToSet(w.read) \subseteq ToSet(v.read)
          /\ ToSet(v.said) = ToSet(w.said) \cup ToSet(more.said)
      <4> DEFINE d == e.value
      <4>1. Result(file, w.read, d, more)
        BY <2>5
      <4> HIDE DEF d
      <4> QED
        BY <2>1, <2>5, <4>1, ThenFacts
    <3>2. ASSUME Wellformed(file) PROVE EntryDone(file, v, e)
      BY <2>5, <3>1, <3>2 DEF EntryDone, Result
    <3>3. ASSUME Wellformed(file), NEW d \in ToSet(v.read) \ ToSet(w.read)
          PROVE  Done(file, v, d)
      <4>1. Done(file, more, d)
        BY <2>5, <3>1, <3>3 DEF Result
      <4> QED
        BY <3>1, <4>1, DoneGrows
    <3> QED
      BY <2>4, <3>1, <3>2, <3>3
  <2>6. CASE e.tag \in TextTags
    <3>1. v = [w EXCEPT !.said = Append(@, e)]
      <4>1. e.tag # "exifIFD" /\ e.tag # "gpsIFD"
        BY <2>6 DEF TextTags
      <4> QED
        BY <2>2, <2>6, <4>1 DEF ParseEntry
    <3>2. w.read \in Reads(file) /\ w.said \in Seq(Sayable(file))
      BY <2>1 DEF Walks
    <3>3. e \in Sayable(file)
      BY <2>2, <2>6 DEF Sayable, Texts
    <3> DEFINE s == w.said
    <3>4. s \in Seq(Sayable(file))
      BY <3>2
    <3> HIDE DEF s
    <3>5. Append(s, e) \in Seq(Sayable(file)) /\ ToSet(Append(s, e)) = ToSet(s) \cup {e}
      BY <3>3, <3>4, ItemsAppend
    <3>6. v.read = w.read /\ v.said = Append(s, e) /\ v \in Walks(file)
      BY <2>1, <3>1, <3>2, <3>5 DEF Walks, s
    <3>7. EntryDone(file, v, e)
      <4>1. e \in ToSet(v.said) /\ e.tag \notin {"exifIFD", "gpsIFD"}
        BY <2>6, <3>5, <3>6 DEF TextTags
      <4> QED
        BY <4>1 DEF EntryDone
    <3>8. ToSet(w.said) \subseteq ToSet(v.said)
      BY <3>5, <3>6 DEF s
    <3> QED
      BY <2>4, <3>6, <3>7, <3>8
  <2>7. CASE e.tag = "exifIFD" /\ e.value \in DOMAIN file
    <3> DEFINE more == parse[w.read][e.value]
    <3>1. e.tag \notin TextTags
      BY <2>7 DEF TextTags
    <3>2. v = Then(w, more)
      BY <2>2, <2>7, <3>1 DEF ParseEntry
    <3>3. e.value \in Targets(file, offset, "exifIFD", MaxEntries)
      BY <2>2, <2>7 DEF Targets, Entries
    <3>4. w.read \in Reads(file)
      BY <2>1 DEF Walks
    <3>5. Result(file, w.read, e.value, more)
      BY <2>1, <3>3, <3>4 DEF before
    <3> HIDE DEF more
    <3> QED
      BY <2>5, <3>1, <3>2, <3>5
  <2>8. CASE e.tag = "gpsIFD" /\ e.value \in DOMAIN file
    <3> DEFINE d == e.value
               r == w.read
               more == ParseGPSIFD(file, d, r)
    <3>1. e.tag \notin TextTags /\ e.tag # "exifIFD"
      BY <2>8 DEF TextTags
    <3>2. v = Then(w, more)
      BY <2>2, <2>8, <3>1 DEF ParseEntry
    <3>3. d \in Targets(file, offset, "gpsIFD", MaxEntries)
      BY <2>2, <2>8 DEF Targets, Entries
    <3>4. d \in GPSDirectories(file)
      BY <3>3 DEF GPSDirectories
    <3>5. r \in Reads(file)
      BY <2>1 DEF Walks
    <3>6. Result(file, r, d, more)
      <4> HIDE DEF d, r
      <4> QED
        BY <3>4, <3>5, GPSResult
    <3> HIDE DEF more
    <3> QED
      BY <2>5, <3>1, <3>2, <3>6
  <2>9. CASE /\ e.tag \notin TextTags
             /\ ~(e.tag = "exifIFD" /\ e.value \in DOMAIN file)
             /\ ~(e.tag = "gpsIFD" /\ e.value \in DOMAIN file)
    <3>1. v = w
      BY <2>2, <2>9 DEF ParseEntry
    <3>2. EntryDone(file, v, e)
      BY <2>9 DEF EntryDone
    <3> QED
      BY <2>1, <2>4, <3>1, <3>2
  <2> QED
    BY <2>6, <2>7, <2>8, <2>9
<1>7. N \in S
  <2>1. 0 \in S
    BY <1>2, <1>5
  <2>2. ASSUME NEW n \in 0 .. N - 1, n \in S PROVE n + 1 \in S
    <3>1. n + 1 \in 1 .. N /\ (n + 1) - 1 = n /\ n + 1 \in 0 .. N
      BY <1>2
    <3>2. Good(walk[n], n)
      BY <2>2
    <3> HIDE DEF Good
    <3>3. Good(walk[n + 1], n + 1)
      BY <1>6, <3>1, <3>2
    <3> QED
      BY <3>1, <3>3
  <2> HIDE DEF S
  <2>3. \A n \in 0 .. N : n \in S
    BY <1>2, <2>1, <2>2, UpTo
  <2> QED
    BY <1>2, <2>3
<1> DEFINE w == walk[N]
<1>8. /\ w \in Walks(file) /\ before \subseteq ToSet(w.read)
      /\ Wellformed(file) =>
           /\ \A i \in 1 .. N : EntryDone(file, w, es[i])
           /\ \A d \in ToSet(w.read) \ before : Done(file, w, d)
  BY <1>7
<1> HIDE DEF w, S
<1>9. ASSUME Wellformed(file) PROVE Done(file, w, offset)
  <2>1. offset \notin GPSDirectories(file)
    BY <1>9 DEF Wellformed
  <2>2. \A e \in ToSet(es) : EntryDone(file, w, e)
    BY <1>2, <1>8, <1>9 DEF ToSet
  <2> QED
    BY <2>1, <2>2 DEF Done
<1>10. Result(file, read, offset, w)
  BY <1>8, <1>9 DEF Result
<1> QED
  BY <1>4, <1>10 DEF w

\* A call of parseIFD with as many levels to go as its ancestors leave: by
\* induction on the levels.
LEMMA ParseResult ==
  ASSUME NEW file, IsFile(file)
  PROVE  \A left \in 0 .. MaxDepth + 1 :
           \A read \in Reads(file), offset \in DOMAIN file, c \in Seq(DOMAIN file) :
             Ancestors(file, c, offset) /\ ToSet(c) \subseteq ToSet(read)
                 /\ Len(c) + left = MaxDepth + 1
               => Result(file, read, offset, ParseIFD(file)[left][read][offset])
<1> DEFINE N == MaxDepth + 1
           parse == ParseIFD(file)
           Called(left, read, offset, c) ==
             /\ Ancestors(file, c, offset) /\ ToSet(c) \subseteq ToSet(read)
             /\ Len(c) + left = N
           Right(left) ==
             \A read \in Reads(file), offset \in DOMAIN file, c \in Seq(DOMAIN file) :
               Called(left, read, offset, c) => Result(file, read, offset, parse[left][read][offset])
           S == {left \in 0 .. N : Right(left)}
<1>1. N \in Nat
  BY ImageAssumption
<1>2. ASSUME NEW left \in 0 .. N, NEW read \in Reads(file), NEW offset \in DOMAIN file
      PROVE  parse[left][read][offset] =
               IF left = 0 \/ offset \in ToSet(read) THEN Nothing(read)
               ELSE ParseEntries(file, parse[left - 1], read, offset)
  <2>1. read \in Seq(DOMAIN file)
    BY ReadsFacts
  <2> QED
    BY <2>1, ParseIFDIs DEF Refused
<1> HIDE DEF parse
<1>3. ASSUME NEW left \in 0 .. N, NEW read \in Reads(file), NEW offset \in DOMAIN file,
             offset \in ToSet(read)
      PROVE  Result(file, read, offset, parse[left][read][offset])
  <2>1. parse[left][read][offset] = Nothing(read)
    BY <1>2, <1>3
  <2> QED
    BY <1>3, <2>1, NothingResult
<1>4. Right(0)
  <2> SUFFICES ASSUME NEW read \in Reads(file), NEW offset \in DOMAIN file,
                      NEW c \in Seq(DOMAIN file), Called(0, read, offset, c)
               PROVE  Result(file, read, offset, parse[0][read][offset])
    OBVIOUS
  <2>1. parse[0][read][offset] = Nothing(read)
    BY <1>1, <1>2
  <2>2. ASSUME Wellformed(file), offset \notin ToSet(read) PROVE FALSE
    <3>1. /\ Append(c, offset) \in Chains(file)
          /\ Len(c) \in Nat /\ Len(Append(c, offset)) = Len(c) + 1
      <4>1. offset \notin ToSet(c) /\ Ancestors(file, c, offset)
        BY <2>2
      <4> QED
        BY <4>1, ChainGrows
    <3>2. Len(Append(c, offset)) - 1 <= MaxDepth
      BY <2>2, <3>1 DEF Wellformed
    <3> QED
      BY <1>1, <3>1, <3>2, ImageAssumption
  <2> QED
    BY <2>1, <2>2, NothingResult
<1>5. ASSUME NEW left \in 0 .. N - 1, Right(left) PROVE Right(left + 1)
  <2> SUFFICES ASSUME NEW read \in Reads(file), NEW offset \in DOMAIN file,
                      NEW c \in Seq(DOMAIN file), Called(left + 1, read, offset, c),
                      offset \notin ToSet(read)
               PROVE  Result(file, read, offset, parse[left + 1][read][offset])
    <3>1. left + 1 \in 0 .. N
      BY <1>1
    <3> QED
      BY <1>3, <3>1
  <2> DEFINE a == Append(c, offset)
             p == parse[left]
  <2>1. left + 1 \in 0 .. N /\ left + 1 # 0 /\ (left + 1) - 1 = left
    BY <1>1
  <2>2. parse[left + 1][read][offset] = ParseEntries(file, p, read, offset)
    BY <1>2, <2>1
  <2>3. /\ a \in Chains(file) /\ Len(c) \in Nat /\ Len(a) = Len(c) + 1
        /\ ToSet(a) = ToSet(c) \cup {offset} /\ a[Len(a)] = offset
    <3>1. offset \notin ToSet(c) /\ Ancestors(file, c, offset)
      OBVIOUS
    <3> QED
      BY <3>1, ChainGrows
  <2>4. offset \in Reachable(file)
    BY <2>3, ReachableFacts
  <2>5. ASSUME NEW r \in Reads(file), NEW t \in Targets(file, offset, "exifIFD", MaxEntries),
               ToSet(read) \cup {offset} \subseteq ToSet(r)
        PROVE  Result(file, r, t, p[r][t])
    <3>1. t \in DOMAIN file
      BY DEF Targets
    <3>2. a \in Seq(DOMAIN file)
      BY <2>3, ChainFacts
    <3>3. Ancestors(file, a, t)
      BY <2>3 DEF Ancestors
    <3>4. ToSet(a) \subseteq ToSet(r)
      BY <2>3, <2>5
    <3>5. Len(a) + left = N
      BY <1>1, <2>3
    <3> HIDE DEF a
    <3> QED
      BY <1>5, <3>1, <3>2, <3>3, <3>4, <3>5
  <2> HIDE DEF p
  <2> QED
    BY <2>2, <2>4, <2>5, EntriesResult
<1>6. \A left \in 0 .. N : left \in S
  <2> HIDE DEF Right
  <2>1. 0 \in S
    BY <1>1, <1>4
  <2>2. ASSUME NEW n \in 0 .. N - 1, n \in S PROVE n + 1 \in S
    <3>1. n + 1 \in 0 .. N
      BY <1>1
    <3> QED
      BY <1>5, <2>2, <3>1
  <2> HIDE DEF S
  <2> QED
    BY <1>1, <2>1, <2>2, UpTo
<1> QED
  BY <1>6 DEF parse

-----------------------------------------------------------------------------
(* What is read of a file, and what is said *)

\* The walk through a file begins with its first directory.
LEMMA WalkResult ==
  ASSUME NEW file, IsFile(file)
  PROVE  /\ Walk(file) \in Walks(file)
         /\ Start \in DOMAIN file => Result(file, <<>>, Start, Walk(file))
<1>1. /\ <<>> \in Reads(file) /\ <<>> \in Seq(DOMAIN file) /\ Len(<<>>) = 0
      /\ ToSet(<<>>) = {} /\ <<>> \in Seq(Sayable(file))
  <2>1. <<>> \in Seq(Reachable(file) \cup GPSDirectories(file)) /\ IsInjective(<<>>)
    BY EmptySeq DEF IsInjective
  <2> QED
    BY <2>1, EmptySeq DEF Reads, ToSet
<1>2. CASE Start \in DOMAIN file
  <2> DEFINE none == <<>>
             N == MaxDepth + 1
  <2>1. Ancestors(file, none, Start)
    BY DEF Ancestors
  <2>2. N \in Nat
    BY ImageAssumption
  <2>3. /\ none \in Reads(file) /\ none \in Seq(DOMAIN file) /\ Len(none) = 0
        /\ ToSet(none) = {}
    BY <1>1
  <2>4. Walk(file) = ParseIFD(file)[N][none][Start]
    BY <1>2 DEF Walk
  <2> HIDE DEF none
  <2>5. Len(none) + N = MaxDepth + 1 /\ N \in 0 .. MaxDepth + 1
    BY <2>2, <2>3, ImageAssumption
  <2> HIDE DEF N
  <2>6. Result(file, none, Start, Walk(file))
    BY <1>2, <2>1, <2>3, <2>4, <2>5, ParseResult
  <2> QED
    BY <2>6 DEF Result, none
<1>3. CASE Start \notin DOMAIN file
  <2>1. Walk(file) = [read |-> <<>>, said |-> <<>>]
    BY <1>3 DEF Walk, Nothing
  <2> QED
    BY <1>1, <1>3, <2>1 DEF Walks
<1> QED
  BY <1>2, <1>3

\* The walk through a wellformed file reads all that pointers lead to, by
\* induction along chains, and is done with it.
LEMMA WalkComplete ==
  ASSUME NEW file, IsFile(file), Wellformed(file)
  PROVE  \A d \in Reachable(file) \cup GPSDirectories(file) :
           d \in ToSet(Walk(file).read) /\ Done(file, Walk(file), d)
<1> DEFINE walk == Walk(file)
           read == ToSet(walk.read)
<1>1. ASSUME Start \in DOMAIN file
      PROVE  Start \in read /\ \A d \in read : Done(file, walk, d)
  <2>1. Result(file, <<>>, Start, walk)
    BY <1>1, WalkResult
  <2>2. ToSet(<<>>) = {}
    BY DEF ToSet
  <2> QED
    BY <2>1, <2>2 DEF Result
<1>2. ASSUME NEW c \in Chains(file)
      PROVE  Start \in DOMAIN file /\ ToSet(c) \subseteq read
  <2> DEFINE N == Len(c) - 1
             S == {n \in 0 .. N : c[n + 1] \in read}
  <2>1. /\ c \in Seq(DOMAIN file) /\ Len(c) \in Nat \ {0} /\ c[1] = Start
        /\ \A i \in 1 .. Len(c) - 1 : c[i + 1] \in Targets(file, c[i], "exifIFD", MaxEntries)
    BY ChainFacts
  <2>2. DOMAIN c = 1 .. Len(c) /\ Start \in DOMAIN file
    BY <2>1, LenProperties, ElementOfSeq
  <2>3. N \in Nat /\ 0 \in S
    BY <1>1, <2>1, <2>2
  <2>4. ASSUME NEW n \in 0 .. N - 1, n \in S PROVE n + 1 \in S
    <3> DEFINE i == n + 1
               d == c[i]
               t == c[i + 1]
    <3>1. i \in 1 .. Len(c) - 1 /\ i \in 0 .. N /\ i \in 1 .. Len(c)
      BY <2>1, <2>3
    <3>2. d \in read /\ t \in Targets(file, d, "exifIFD", MaxEntries)
      BY <2>1, <2>4, <3>1
    <3>3. d \in Reachable(file)
      BY <2>2, <3>1, ReachableFacts DEF ToSet
    <3>4. Done(file, walk, d)
      BY <1>1, <2>2, <3>2
    <3> HIDE DEF i, d, t, walk
    <3>5. PICK e \in ToSet(Entries(file, d)) : e.tag = "exifIFD" /\ t = e.value /\ t \in DOMAIN file
      BY <3>2 DEF Targets, Entries
    <3>6. EntryDone(file, walk, e)
      BY <3>3, <3>4, <3>5 DEF Done
    <3>7. t \in read
      BY <3>5, <3>6 DEF EntryDone
    <3> QED
      BY <3>1, <3>7 DEF t, i
  <2>5. \A n \in 0 .. N : c[n + 1] \in read
    <3> HIDE DEF N
    <3>1. \A n \in 0 .. N : n \in S
      <4> HIDE DEF S
      <4> QED
        BY <2>3, <2>4, UpTo
    <3> QED
      BY <3>1
  <2>6. ASSUME NEW i \in DOMAIN c PROVE c[i] \in read
    <3>1. i - 1 \in 0 .. N /\ (i - 1) + 1 = i
      BY <2>1, <2>2
    <3> QED
      BY <2>5, <3>1
  <2> QED
    BY <2>2, <2>6 DEF ToSet
<1>3. ASSUME NEW d \in Reachable(file) PROVE Start \in DOMAIN file /\ d \in read
  BY <1>2 DEF Reachable
<1>4. ASSUME NEW g \in GPSDirectories(file) PROVE Start \in DOMAIN file /\ g \in read
  <2>1. PICK d \in Reachable(file) : g \in Targets(file, d, "gpsIFD", MaxEntries)
    BY DEF GPSDirectories
  <2>2. Done(file, walk, d) /\ Start \in DOMAIN file
    BY <1>1, <1>3
  <2> HIDE DEF walk
  <2>3. PICK e \in ToSet(Entries(file, d)) : e.tag = "gpsIFD" /\ g = e.value /\ g \in DOMAIN file
    BY <2>1 DEF Targets, Entries
  <2>4. EntryDone(file, walk, e)
    BY <2>2, <2>3 DEF Done
  <2> QED
    BY <2>2, <2>3, <2>4 DEF EntryDone
<1> QED
  BY <1>1, <1>3, <1>4

LEMMA ReadsOnce ==
  ASSUME NEW file, IsFile(file)
  PROVE  ReadOnce(file)
<1> DEFINE read == Walk(file).read
<1>1. read \in Reads(file)
  BY WalkResult DEF Walks
<1> HIDE DEF read
<1>2. IsInjective(read) /\ ToSet(read) \subseteq Reachable(file) \cup GPSDirectories(file)
  BY <1>1, ReadsFacts
<1>3. ASSUME Wellformed(file)
      PROVE  Reachable(file) \cup GPSDirectories(file) \subseteq ToSet(read)
  BY <1>3, WalkComplete DEF read
<1> QED
  BY <1>2, <1>3 DEF ReadOnce, read

\* A nonempty set of positions has a greatest one.
LEMMA Greatest ==
  ASSUME NEW N \in Nat, NEW S \in SUBSET (1 .. N), S # {}
  PROVE  Max(S) \in S
<1> DEFINE T == {N - i : i \in S}
<1>1. T \in SUBSET Nat /\ T # {}
  OBVIOUS
<1>2. PICK k \in T : \A j \in T : k <= j
  <2> HIDE DEF T
  <2> QED
    BY <1>1, Least
<1>3. PICK i \in S : k = N - i
  BY <1>2
<1>4. ASSUME NEW j \in S PROVE i >= j
  <2>1. N - i <= N - j
    BY <1>2, <1>3
  <2> QED
    BY <2>1
<1>5. \E x \in S : \A y \in S : x >= y
  BY <1>4
<1>6. Max(S) = CHOOSE x \in S : \A y \in S : x >= y
  BY DEF Max
<1> QED
  BY <1>5, <1>6

\* The last value of a tag is a value of it, if there is one.
LEMMA LastOfFacts ==
  ASSUME NEW E, NEW s \in Seq(E), NEW tag
  PROVE  \/ LastOf(s, tag) = NoValue /\ \A e \in ToSet(s) : e.tag # tag
         \/ \E e \in ToSet(s) : e \in E /\ e.tag = tag /\ LastOf(s, tag) = e.value
<1> DEFINE N == Len(s)
           A == {i \in DOMAIN s : s[i].tag = tag}
<1>1. N \in Nat /\ DOMAIN s = 1 .. N /\ \A i \in 1 .. N : s[i] \in E
  BY LenProperties, ElementOfSeq
<1>2. CASE A = {}
  BY <1>2 DEF LastOf, ToSet
<1>3. CASE A # {}
  <2>1. Max(A) \in A
    <3>1. A \in SUBSET (1 .. N)
      BY <1>1
    <3> HIDE DEF A, N
    <3> QED
      BY <1>1, <1>3, <3>1, Greatest
  <2>2. LastOf(s, tag) = s[Max(A)].value
    BY <1>3 DEF LastOf
  <2> DEFINE m == Max(A)
  <2>3. m \in 1 .. N /\ s[m].tag = tag /\ s[m] \in ToSet(s)
    BY <1>1, <2>1 DEF ToSet
  <2> HIDE DEF m, A
  <2>4. LastOf(s, tag) = s[m].value
    BY <2>2 DEF m
  <2> QED
    BY <1>1, <2>3, <2>4
<1> QED
  BY <1>2, <1>3

LEMMA SaysIt ==
  ASSUME NEW file, IsFile(file)
  PROVE  SaysWhatIsThere(file)
<1> DEFINE walk == Walk(file)
           said == walk.said
           meta == Metadata(said)
           entries == UNION {ToSet(Entries(file, d)) : d \in Reachable(file)}
           values(t) == {e.value : e \in {x \in entries : x.tag = t}}
           positions == {Position(GPSEntries(file, d)) : d \in GPSDirectories(file)}
<1> SUFFICES ASSUME Wellformed(file)
             PROVE  /\ \A t \in TextTags :
                         /\ meta[t] \in values(t) \cup {NoValue}
                         /\ values(t) # {} /\ NoValue \notin values(t) => meta[t] # NoValue
                    /\ meta.gps \in positions \cup {NoValue}
                    /\ meta.gps = NoValue => positions \subseteq {NoValue}
  BY DEF SaysWhatIsThere, Entries, GPSEntries
<1>1. said \in Seq(Sayable(file))
  BY WalkResult DEF Walks
<1>2. \A d \in Reachable(file) \cup GPSDirectories(file) : Done(file, walk, d)
  BY WalkComplete
<1>3. \A t \in TextTags \cup {"gps"} : meta[t] = LastOf(said, t)
  BY DEF Metadata, NoMetadata
<1> HIDE DEF walk, meta
<1>4. ASSUME NEW t \in TextTags
      PROVE  /\ meta[t] \in values(t) \cup {NoValue}
             /\ values(t) # {} /\ NoValue \notin values(t) => meta[t] # NoValue
  <2>1. t # "gps" /\ t # "altitude"
    BY DEF TextTags
  <2>2. ASSUME NEW e \in Sayable(file), e.tag = t PROVE e.value \in values(t)
    <3>1. e \in Texts(file)
      BY <2>1, <2>2 DEF Sayable
    <3> QED
      BY <2>2, <3>1 DEF Texts
  <2> DEFINE v == LastOf(said, t)
  <2>3. \/ v = NoValue /\ \A e \in ToSet(said) : e.tag # t
        \/ \E e \in ToSet(said) : e \in Sayable(file) /\ e.tag = t /\ v = e.value
    <3> HIDE DEF said
    <3> QED
      BY <1>1, LastOfFacts
  <2>4. meta[t] = v
    BY <1>3
  <2>5. ASSUME values(t) # {} PROVE \E e \in ToSet(said) : e.tag = t
    <3>1. PICK d \in Reachable(file) : \E e \in ToSet(Entries(file, d)) : e.tag = t
      BY <2>5
    <3>2. PICK e \in ToSet(Entries(file, d)) : e.tag = t
      BY <3>1
    <3>3. EntryDone(file, walk, e)
      BY <1>2, <3>2 DEF Done
    <3> QED
      BY <3>2, <3>3 DEF EntryDone
  <2> HIDE DEF v, values
  <2> QED
    BY <2>2, <2>3, <2>4, <2>5
<1> DEFINE v == LastOf(said, "gps")
<1>5. v = NoValue \/ v \in Positions(file)
  <2>1. ASSUME NEW e \in Sayable(file), e.tag = "gps" PROVE e.value \in Positions(file)
    <3>1. e \notin Texts(file)
      BY <2>1 DEF Texts, TextTags
    <3>2. e \notin [tag : {"altitude"}, value : Altitudes(file)]
      BY <2>1
    <3>3. e \in [tag : {"gps"}, value : Positions(file)]
      BY <3>1, <3>2 DEF Sayable
    <3> QED
      BY <3>3
  <2> HIDE DEF said
  <2>2. \/ v = NoValue
        \/ \E e \in ToSet(said) : e \in Sayable(file) /\ e.tag = "gps" /\ v = e.value
    BY <1>1, LastOfFacts
  <2> QED
    BY <2>1, <2>2
<1>6. ASSUME v = NoValue, NEW d \in GPSDirectories(file)
      PROVE  Position(GPSEntries(file, d)) = NoValue
  <2> SUFFICES ASSUME Position(GPSEntries(file, d)) # NoValue PROVE FALSE
    OBVIOUS
  <2>1. \E e \in ToSet(said) : e.tag = "gps"
    BY <1>2 DEF Done
  <2>2. \E e \in ToSet(said) : e \in Sayable(file) /\ e.tag = "gps" /\ v = e.value
    <3> HIDE DEF said
    <3> QED
      BY <1>1, <2>1, LastOfFacts
  <2>3. ASSUME NEW e \in Sayable(file), e.tag = "gps" PROVE e.value # NoValue
    <3>1. e \notin Texts(file)
      BY <2>3 DEF Texts, TextTags
    <3>2. e \in [tag : {"gps"}, value : Positions(file)]
      BY <2>3, <3>1 DEF Sayable
    <3> QED
      BY <3>2 DEF Positions
  <2> QED
    BY <1>6, <2>2, <2>3
<1>7. meta.gps = v
  BY <1>3
<1> QED
  BY <1>4, <1>5, <1>6, <1>7 DEF Positions

-----------------------------------------------------------------------------

\* Whatever directories an image has and however they point at each other, the
\* walk of parseIFD and parseGPSIFD reads each at most once, and it reads and
\* says all of a file that keeps to the limit of depth.
THEOREM ImagesAreReadSoundly == Spec => []ImagesReadSoundly
<1>1. TypeOK => ImagesReadSoundly
  <2> SUFFICES ASSUME TypeOK, Page.image # NoImage, NEW file \in FilesOf(Page.image)
               PROVE  ReadOnce(file) /\ SaysWhatIsThere(file)
    BY DEF ImagesReadSoundly
  <2>1. pages \in PageLists /\ at \in DOMAIN pages
    BY DEF TypeOK
  <2>2. IsFile(file)
    BY <2>1, FilesAssumption DEF Page, IsFile
  <2> QED
    BY <2>2, ReadsOnce, SaysIt
<1> QED
  BY <1>1, TypeCorrect, PTL
=============================================================================
