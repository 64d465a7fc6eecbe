----------------------------- MODULE CrawlerProofs -----------------------------
(***************************************************************************)
(* Proofs about Crawler for every site, however it links and redirects,    *)
(* and every bound on pages and redirects.                                 *)
(***************************************************************************)
EXTENDS Crawler, SequenceTheorems, FiniteSetTheorems, TLAPS

\* While a URL is fetched there is room for its page, and no page has it yet.
PagesInv ==
  /\ PagesBoundedAndDistinct
  /\ UrlsOf(pages) \subseteq seen
  /\ pc = "fetch" => Len(pages) < MaxPages /\ next.url \notin UrlsOf(pages)

\* Depths rise along the pages, then the URL being fetched, then the queue,
\* which ends one link deeper than it begins.
DepthInv ==
  /\ \A i, j \in DOMAIN pages : i < j => pages[i].depth <= pages[j].depth
  /\ \A i \in DOMAIN pages, j \in DOMAIN queue : pages[i].depth <= queue[j].depth
  /\ \A i, j \in DOMAIN queue :
       i < j => queue[i].depth <= queue[j].depth /\ queue[j].depth <= queue[i].depth + 1
  /\ pc = "fetch" =>
       /\ \A i \in DOMAIN pages : pages[i].depth <= next.depth
       /\ \A j \in DOMAIN queue :
            next.depth <= queue[j].depth /\ queue[j].depth <= next.depth + 1

\* A link that was found is in the queue, was tried or is a page.
LinksInv ==
  /\ seen \subseteq tried \cup UrlsOf(pages)
  /\ found \subseteq tried \cup UrlsOf(pages) \cup UrlsOf(queue)
  /\ pc = "done" => queue = <<>> \/ Len(pages) >= MaxPages \/ expired

IInv == TypeOK /\ PagesInv /\ DepthInv /\ LinksInv

-----------------------------------------------------------------------------
(* Facts about the queue and the pages *)

\* The entries of a queue, one by one.
LEMMA Entries ==
  ASSUME NEW q \in Seq(Entry)
  PROVE  /\ Len(q) \in Nat /\ DOMAIN q = 1 .. Len(q)
         /\ UrlsOf(q) \subseteq URLs
         /\ \A i \in DOMAIN q : q[i].url \in URLs /\ q[i].depth \in Nat /\ q[i].url \in UrlsOf(q)
<1>1. Len(q) \in Nat /\ DOMAIN q = 1 .. Len(q) /\ \A i \in DOMAIN q : q[i] \in Entry
  BY LenProperties, ElementOfSeq
<1> QED
  BY <1>1 DEF Entry, UrlsOf

\* The queue without its head.
LEMMA Popped ==
  ASSUME NEW q \in Seq(Entry), q # <<>>
  PROVE  /\ Tail(q) \in Seq(Entry) /\ Len(Tail(q)) = Len(q) - 1
         /\ Head(q) \in Entry /\ Head(q) = q[1] /\ 1 \in DOMAIN q
         /\ \A i \in DOMAIN Tail(q) : i + 1 \in DOMAIN q /\ Tail(q)[i] = q[i + 1]
         /\ UrlsOf(q) = {Head(q).url} \cup UrlsOf(Tail(q))
<1>1. /\ Tail(q) \in Seq(Entry) /\ Len(Tail(q)) = Len(q) - 1
      /\ Head(q) \in Entry
      /\ \A i \in 1 .. Len(Tail(q)) : Tail(q)[i] = q[i + 1]
  BY HeadTailProperties
<1>2. Len(q) \in Nat \ {0} /\ DOMAIN q = 1 .. Len(q) /\ DOMAIN Tail(q) = 1 .. Len(q) - 1
  BY <1>1, Entries, EmptySeq
<1>3. Head(q) = q[1]
  OBVIOUS
<1>4. \A i \in DOMAIN q : i = 1 \/ (i - 1 \in DOMAIN Tail(q) /\ q[i] = Tail(q)[i - 1])
  BY <1>1, <1>2
<1>5. \A i \in DOMAIN Tail(q) : i + 1 \in DOMAIN q /\ Tail(q)[i] = q[i + 1]
  BY <1>1, <1>2
<1>6. UrlsOf(q) \subseteq {Head(q).url} \cup UrlsOf(Tail(q))
  BY <1>3, <1>4 DEF UrlsOf
<1>7. {Head(q).url} \cup UrlsOf(Tail(q)) \subseteq UrlsOf(q)
  BY <1>2, <1>3, <1>5 DEF UrlsOf
<1> QED
  BY <1>1, <1>2, <1>3, <1>5, <1>6, <1>7

\* One sequence of entries behind another.
LEMMA Joined ==
  ASSUME NEW q \in Seq(Entry), NEW r \in Seq(Entry)
  PROVE  /\ q \o r \in Seq(Entry) /\ Len(q \o r) = Len(q) + Len(r)
         /\ \A i \in DOMAIN (q \o r) :
              \/ i \in DOMAIN q /\ (q \o r)[i] = q[i]
              \/ /\ i > Len(q) /\ i - Len(q) \in DOMAIN r
                 /\ (q \o r)[i] = r[i - Len(q)]
         /\ UrlsOf(q \o r) = UrlsOf(q) \cup UrlsOf(r)
<1>1. /\ q \o r \in Seq(Entry) /\ Len(q \o r) = Len(q) + Len(r)
      /\ \A i \in 1 .. Len(q) + Len(r) :
           (q \o r)[i] = IF i <= Len(q) THEN q[i] ELSE r[i - Len(q)]
  BY ConcatProperties
<1>2. /\ Len(q) \in Nat /\ DOMAIN q = 1 .. Len(q)
      /\ Len(r) \in Nat /\ DOMAIN r = 1 .. Len(r)
      /\ DOMAIN (q \o r) = 1 .. Len(q) + Len(r)
  BY <1>1, Entries
<1>3. \A i \in DOMAIN (q \o r) :
        \/ i \in DOMAIN q /\ (q \o r)[i] = q[i]
        \/ i > Len(q) /\ i - Len(q) \in DOMAIN r /\ (q \o r)[i] = r[i - Len(q)]
  BY <1>1, <1>2
<1>4. \A i \in DOMAIN q : i \in DOMAIN (q \o r) /\ (q \o r)[i] = q[i]
  BY <1>1, <1>2
<1>5. \A i \in DOMAIN r :
        i + Len(q) \in DOMAIN (q \o r) /\ (q \o r)[i + Len(q)] = r[i]
  BY <1>1, <1>2
<1>6. UrlsOf(q \o r) = UrlsOf(q) \cup UrlsOf(r)
  <2>1. UrlsOf(q \o r) \subseteq UrlsOf(q) \cup UrlsOf(r)
    BY <1>3 DEF UrlsOf
  <2>2. UrlsOf(q) \subseteq UrlsOf(q \o r)
    BY <1>4 DEF UrlsOf
  <2>3. UrlsOf(r) \subseteq UrlsOf(q \o r)
    BY <1>5 DEF UrlsOf
  <2> QED
    BY <2>1, <2>2, <2>3
<1> QED
  BY <1>1, <1>3, <1>6

\* One more page.
LEMMA Added ==
  ASSUME NEW q \in Seq(Entry), NEW e \in Entry
  PROVE  /\ Append(q, e) \in Seq(Entry) /\ Len(Append(q, e)) = Len(q) + 1
         /\ DOMAIN Append(q, e) = 1 .. Len(q) + 1
         /\ \A i \in DOMAIN q : Append(q, e)[i] = q[i]
         /\ Append(q, e)[Len(q) + 1] = e
         /\ UrlsOf(Append(q, e)) = UrlsOf(q) \cup {e.url}
<1>1. /\ Append(q, e) \in Seq(Entry) /\ Len(Append(q, e)) = Len(q) + 1
      /\ \A i \in 1 .. Len(q) : Append(q, e)[i] = q[i]
      /\ Append(q, e)[Len(q) + 1] = e
  BY AppendProperties
<1>2. /\ Len(q) \in Nat /\ DOMAIN q = 1 .. Len(q)
      /\ DOMAIN Append(q, e) = 1 .. Len(q) + 1
  BY <1>1, Entries
<1>3. UrlsOf(Append(q, e)) = UrlsOf(q) \cup {e.url}
  BY <1>1, <1>2 DEF UrlsOf
<1> QED
  BY <1>1, <1>2, <1>3

\* The entries for the links of a page: one for each link, a step deeper.
LEMMA DeeperEntries ==
  ASSUME TypeOK, NEW S \in SUBSET URLs, NEW order \in Orders(S)
  PROVE  /\ Deeper(order) \in Seq(Entry)
         /\ UrlsOf(Deeper(order)) = S
         /\ \A i \in DOMAIN Deeper(order) : Deeper(order)[i].depth = next.depth + 1
<1>1. Cardinality(S) \in Nat
  BY CrawlAssumption, FS_Subset, FS_CardinalityType
<1>2. PICK n \in Nat : n = Cardinality(S)
  BY <1>1
<1>3. order \in [1 .. n -> S] /\ \A t \in S : \E i \in 1 .. n : order[i] = t
  BY <1>2 DEF Orders, Bijection, Injection, Surjection
<1>4. order \in Seq(S) /\ Len(order) = n
  BY <1>3, LenProperties
<1>5. next.depth + 1 \in Nat
  BY DEF TypeOK, Entry
<1>6. Deeper(order) = [i \in 1 .. n |-> [url |-> order[i], depth |-> next.depth + 1]]
  BY <1>4 DEF Deeper
<1>7. \A i \in 1 .. n : [url |-> order[i], depth |-> next.depth + 1] \in Entry
  BY <1>3, <1>5 DEF Entry
<1>8. Deeper(order) \in Seq(Entry) /\ DOMAIN Deeper(order) = 1 .. n
  BY <1>6, <1>7
<1>9. UrlsOf(Deeper(order)) = S
  BY <1>3, <1>6 DEF UrlsOf
<1> QED
  BY <1>6, <1>8, <1>9

\* A page that is received is dropped, if its URL is known; or it is added,
\* and an entry joins the queue for each of its links that is not seen yet.
LEMMA Received ==
  ASSUME TypeOK, ReceivePage
  PROVE  \/ UNCHANGED <<queue, seen, pages, next, tried, found>>
         \/ /\ ~PageKnown
            /\ seen' = seen \cup {at}
            /\ pages' = Append(pages, [url |-> at, depth |-> next.depth])
            /\ UNCHANGED <<next, tried>>
            /\ \E new \in Seq(Entry) :
                 /\ queue' = queue \o new
                 /\ \A i \in DOMAIN new : new[i].depth = next.depth + 1
                 /\ found' \subseteq found \cup UrlsOf(new) \cup seen'
                 /\ found' \subseteq URLs
<1>1. CASE PageKnown
  BY <1>1 DEF ReceivePage
<1>2. CASE ~PageKnown
  <2>1. /\ seen' = seen \cup {at}
        /\ pages' = Append(pages, [url |-> at, depth |-> next.depth])
        /\ UNCHANGED <<next, tried>>
    BY <1>2 DEF ReceivePage
  <2>2. PICK links \in SUBSET (URLs \cup Offsite) :
          /\ found' = found \cup (links \cap URLs)
          /\ \E order \in Orders(Fresh(links, seen')) : queue' = Enqueued(order)
    BY <1>2 DEF ReceivePage
  <2>3. PICK known : known = seen'
    OBVIOUS
  <2>4. PICK order \in Orders(Fresh(links, known)) : queue' = Enqueued(order)
    BY <2>2, <2>3
  <2>5. Fresh(links, known) \in SUBSET URLs
    BY DEF Fresh
  <2>6. /\ Deeper(order) \in Seq(Entry)
        /\ UrlsOf(Deeper(order)) = Fresh(links, known)
        /\ \A i \in DOMAIN Deeper(order) : Deeper(order)[i].depth = next.depth + 1
    BY <2>4, <2>5, DeeperEntries
  <2>7. queue' = queue \o Deeper(order)
    BY <2>4 DEF Enqueued
  <2>8. /\ found' \subseteq found \cup Fresh(links, known) \cup known
        /\ found' \subseteq URLs
    BY <2>2 DEF Fresh, TypeOK
  <2>9. found' \subseteq found \cup UrlsOf(Deeper(order)) \cup seen'
    BY <2>3, <2>6, <2>8
  <2> QED
    BY <1>2, <2>1, <2>6, <2>7, <2>8, <2>9
<1> QED
  BY <1>1, <1>2

-----------------------------------------------------------------------------
(* Steps *)

\* A crawl begins with the invariant.
LEMMA InitIInv == Init => IInv
<1> SUFFICES ASSUME Init PROVE IInv
  OBVIOUS
<1>1. Root \in URLs /\ MaxPages \in Int /\ 0 \in 0 .. MaxRedirects - 1
  BY CrawlAssumption
<1>2. [url |-> Root, depth |-> 0] \in Entry
  BY <1>1 DEF Entry
<1>3. queue \in Seq(Entry) /\ DOMAIN queue = {1}
  BY <1>2 DEF Init
<1>4. pages \in Seq(Entry) /\ DOMAIN pages = {} /\ Len(pages) = 0 /\ UrlsOf(pages) = {}
  BY EmptySeq DEF Init, UrlsOf
<1>5. TypeOK
  BY <1>1, <1>2, <1>3, <1>4 DEF Init, TypeOK
<1>6. PagesInv
  BY <1>1, <1>4 DEF Init, PagesInv, PagesBoundedAndDistinct
<1>7. DepthInv
  BY <1>3, <1>4 DEF Init, DepthInv
<1>8. LinksInv
  BY DEF Init, LinksInv
<1> QED
  BY <1>5, <1>6, <1>7, <1>8 DEF IInv

\* Each step keeps the types.
LEMMA TypeKeeps == TypeOK /\ Next => TypeOK'
<1> SUFFICES ASSUME TypeOK, Next PROVE TypeOK'
  OBVIOUS
<1>1. CASE Expire
  BY <1>1 DEF Expire, TypeOK, loopVars, history
<1>2. CASE Return
  BY <1>2 DEF Return, TypeOK, loopVars, history
<1>3. CASE Skip \/ Visit
  <2>1. queue \in Seq(Entry) /\ queue # <<>>
    BY <1>3 DEF Skip, Visit, Continues, TypeOK
  <2>2. Tail(queue) \in Seq(Entry) /\ Head(queue) \in Entry /\ Head(queue).url \in URLs
    BY <2>1, Popped DEF Entry
  <2>3. CASE Skip
    BY <2>2, <2>3 DEF Skip, TypeOK, history
  <2>4. CASE Visit
    <3>1. 0 \in 0 .. MaxRedirects - 1
      BY CrawlAssumption
    <3> QED
      BY <2>2, <2>4, <3>1 DEF Visit, TypeOK
  <2> QED
    BY <1>3, <2>3, <2>4
<1>4. CASE FetchFails
  BY <1>4 DEF FetchFails, TypeOK, loopVars, history
<1>5. ASSUME NEW to \in URLs \cup Offsite, FollowRedirect(to) PROVE TypeOK'
  BY <1>5, CrawlAssumption DEF FollowRedirect, TypeOK, loopVars
<1>6. CASE ReceivePage
  <2>1. /\ pc' = "loop" /\ fetched' = fetched \cup {at}
        /\ UNCHANGED <<next, at, via, expired, requested, tried>>
    BY <1>6 DEF ReceivePage
  <2>2. CASE UNCHANGED <<queue, seen, pages, next, tried, found>>
    BY <2>1, <2>2 DEF TypeOK
  <2>3. CASE ~UNCHANGED <<queue, seen, pages, next, tried, found>>
    <3>1. PICK new \in Seq(Entry) : queue' = queue \o new /\ found' \subseteq URLs
      BY <1>6, <2>3, Received
    <3>2. /\ seen' = seen \cup {at}
          /\ pages' = Append(pages, [url |-> at, depth |-> next.depth])
      BY <1>6, <2>3, Received
    <3>3. [url |-> at, depth |-> next.depth] \in Entry
      BY DEF TypeOK, Entry
    <3>4. queue' \in Seq(Entry) /\ pages' \in Seq(Entry)
      BY <3>1, <3>2, <3>3, ConcatProperties, AppendProperties DEF TypeOK
    <3> QED
      BY <2>1, <3>1, <3>2, <3>4 DEF TypeOK
  <2> QED
    BY <2>2, <2>3
<1>7. CASE Finished
  BY <1>7 DEF Finished, TypeOK, vars, loopVars, history
<1> QED
  BY <1>1, <1>2, <1>3, <1>4, <1>5, <1>6, <1>7 DEF Next, Loop, Fetch

\* Steps that leave the loop's state alone; a fetch may end in them.
LEMMA SameLoop ==
  ASSUME Expire \/ Return \/ FetchFails \/ Finished
           \/ \E to \in URLs \cup Offsite : FollowRedirect(to)
  PROVE  UNCHANGED <<queue, seen, pages, next, tried, found>> /\ (pc' = "fetch" => pc = "fetch")
BY DEF Expire, Return, FetchFails, Finished, FollowRedirect, loopVars, history, vars

\* A page is added only if its URL is not that of a page yet.
LEMMA PagesKeep == TypeOK /\ PagesInv /\ Next => PagesInv'
<1> SUFFICES ASSUME TypeOK, PagesInv, Next PROVE PagesInv'
  OBVIOUS
<1>1. CASE UNCHANGED <<queue, seen, pages, next, tried, found>> /\ (pc' = "fetch" => pc = "fetch")
  BY <1>1 DEF PagesInv, PagesBoundedAndDistinct, UrlsOf
<1>2. CASE Skip
  BY <1>2 DEF Skip, Continues, PagesInv, PagesBoundedAndDistinct, UrlsOf
<1>3. CASE Visit
  <2>1. /\ Len(pages) < MaxPages /\ pages' = pages
        /\ Head(queue).url \notin seen /\ next' = Head(queue) /\ seen \subseteq seen'
    BY <1>3 DEF Visit, Continues
  <2> QED
    BY <2>1 DEF PagesInv, PagesBoundedAndDistinct, UrlsOf
<1>4. CASE ReceivePage /\ ~UNCHANGED <<queue, seen, pages, next, tried, found>>
  <2> DEFINE e == [url |-> at, depth |-> next.depth]
  <2>1. /\ ~PageKnown /\ seen' = seen \cup {at} /\ pages' = Append(pages, e)
        /\ pc = "fetch" /\ pc' = "loop"
    BY <1>4, Received DEF ReceivePage
  <2>2. at \notin UrlsOf(pages)
    BY <2>1 DEF PageKnown, PagesInv
  <2>3. e \in Entry /\ pages \in Seq(Entry)
    BY DEF TypeOK, Entry
  <2>4. /\ Len(pages') = Len(pages) + 1 /\ DOMAIN pages' = 1 .. Len(pages) + 1
        /\ \A i \in DOMAIN pages : pages'[i] = pages[i]
        /\ pages'[Len(pages) + 1].url = at
        /\ UrlsOf(pages') = UrlsOf(pages) \cup {at}
    BY <2>1, <2>3, Added
  <2>5. /\ Len(pages) \in Nat /\ DOMAIN pages = 1 .. Len(pages)
        /\ \A i \in DOMAIN pages : pages[i].url \in UrlsOf(pages)
    BY <2>3, Entries
  <2>6. Len(pages') <= MaxPages /\ MaxPages > 0
    BY <2>1, <2>4, <2>5, CrawlAssumption DEF PagesInv
  <2>7. \A i, j \in DOMAIN pages' : pages'[i].url = pages'[j].url => i = j
    <3>1. SUFFICES ASSUME NEW i \in DOMAIN pages', NEW j \in DOMAIN pages',
                          pages'[i].url = pages'[j].url
          PROVE  i = j
      OBVIOUS
    <3>2. (i \in DOMAIN pages \/ i = Len(pages) + 1) /\ (j \in DOMAIN pages \/ j = Len(pages) + 1)
      BY <2>4, <2>5
    <3>3. CASE i \in DOMAIN pages /\ j \in DOMAIN pages
      BY <2>4, <3>1, <3>3 DEF PagesInv, PagesBoundedAndDistinct
    <3>4. CASE i = Len(pages) + 1 \/ j = Len(pages) + 1
      BY <2>2, <2>4, <2>5, <3>1, <3>2, <3>4
    <3> QED
      BY <3>2, <3>3, <3>4
  <2>8. UrlsOf(pages)' \subseteq seen'
    BY <2>1, <2>4 DEF PagesInv, UrlsOf
  <2> QED
    BY <2>1, <2>6, <2>7, <2>8 DEF PagesInv, PagesBoundedAndDistinct
<1>5. CASE ReceivePage /\ UNCHANGED <<queue, seen, pages, next, tried, found>>
  BY <1>1, <1>5 DEF ReceivePage
<1> QED
  BY <1>1, <1>2, <1>3, <1>4, <1>5, SameLoop DEF Next, Loop, Fetch

\* Depths: the head leaves the queue to be fetched, and the links of its page,
\* a step deeper, join behind what waits.
LEMMA DepthsKeep == TypeOK /\ DepthInv /\ Next => DepthInv'
<1> SUFFICES ASSUME TypeOK, DepthInv, Next PROVE DepthInv'
  OBVIOUS
<1>1. CASE UNCHANGED <<queue, seen, pages, next, tried, found>> /\ (pc' = "fetch" => pc = "fetch")
  BY <1>1 DEF DepthInv
<1>2. CASE Skip \/ Visit
  <2>1. queue \in Seq(Entry) /\ queue # <<>> /\ pages \in Seq(Entry)
    BY <1>2 DEF Skip, Visit, Continues, TypeOK
  <2>2. /\ next' = queue[1] /\ queue' = Tail(queue) /\ pages' = pages
        /\ pc = "loop"
    BY <1>2, <2>1, Popped DEF Skip, Visit, Continues
  <2>3. \A i \in DOMAIN queue' : i + 1 \in DOMAIN queue /\ queue'[i] = queue[i + 1]
    BY <2>1, <2>2, Popped
  <2>4. /\ 1 \in DOMAIN queue /\ \A i \in DOMAIN queue' : i \in Nat /\ 1 < i + 1
    <3>1. 1 \in DOMAIN queue /\ queue' \in Seq(Entry)
      BY <2>1, <2>2, Popped
    <3>2. DOMAIN queue' = 1 .. Len(queue') /\ Len(queue') \in Nat
      BY <3>1, Entries
    <3> QED
      BY <3>1, <3>2
  <2>5. \A i \in DOMAIN pages, j \in DOMAIN queue' : pages'[i].depth <= queue'[j].depth
    BY <2>2, <2>3 DEF DepthInv
  <2>6. \A i, j \in DOMAIN queue' :
          i < j => queue'[i].depth <= queue'[j].depth /\ queue'[j].depth <= queue'[i].depth + 1
    <3>1. \A i, j \in DOMAIN queue' : i < j => i + 1 < j + 1
      BY <2>4
    <3> QED
      BY <2>3, <3>1 DEF DepthInv
  <2>7. /\ \A i \in DOMAIN pages : pages'[i].depth <= next'.depth
        /\ \A j \in DOMAIN queue' :
             next'.depth <= queue'[j].depth /\ queue'[j].depth <= next'.depth + 1
    BY <2>2, <2>3, <2>4 DEF DepthInv
  <2>8. \A i, j \in DOMAIN pages' : i < j => pages'[i].depth <= pages'[j].depth
    BY <2>2 DEF DepthInv
  <2> QED
    BY <2>2, <2>5, <2>6, <2>7, <2>8 DEF DepthInv
<1>3. CASE ReceivePage /\ ~UNCHANGED <<queue, seen, pages, next, tried, found>>
  <2> DEFINE e == [url |-> at, depth |-> next.depth]
  <2>1. /\ pages' = Append(pages, e) /\ next' = next /\ pc = "fetch" /\ pc' = "loop"
    BY <1>3, Received DEF ReceivePage
  <2>2. PICK new \in Seq(Entry) :
          queue' = queue \o new /\ \A i \in DOMAIN new : new[i].depth = next.depth + 1
    BY <1>3, Received
  <2>3. e \in Entry /\ pages \in Seq(Entry) /\ queue \in Seq(Entry) /\ next.depth \in Nat
    BY DEF TypeOK, Entry
  <2>4. /\ \A i \in DOMAIN pages' :
             \/ i \in DOMAIN pages /\ pages'[i] = pages[i] /\ i <= Len(pages)
             \/ i = Len(pages) + 1 /\ pages'[i].depth = next.depth
        /\ Len(pages) \in Nat
    BY <2>1, <2>3, Added, Entries
  <2>5. \A j \in DOMAIN queue' :
             \/ j \in DOMAIN queue /\ queue'[j] = queue[j] /\ j <= Len(queue)
             \/ j > Len(queue) /\ queue'[j].depth = next.depth + 1
    BY <2>2, <2>3, Joined, Entries
  <2>6. /\ \A i \in DOMAIN pages' : pages'[i].depth \in Nat /\ i \in Nat
        /\ \A j \in DOMAIN queue' : queue'[j].depth \in Nat /\ j \in Nat
    <3>1. pages' \in Seq(Entry) /\ queue' \in Seq(Entry)
      BY <2>1, <2>2, <2>3, Added, Joined
    <3> QED
      BY <3>1, Entries
  <2>7. /\ \A i \in DOMAIN pages' : pages'[i].depth <= next.depth
        /\ \A j \in DOMAIN queue' :
             next.depth <= queue'[j].depth /\ queue'[j].depth <= next.depth + 1
    <3>1. /\ \A i \in DOMAIN pages : pages[i].depth <= next.depth
          /\ \A j \in DOMAIN queue :
               next.depth <= queue[j].depth /\ queue[j].depth <= next.depth + 1
      BY <2>1 DEF DepthInv
    <3>2. \A i \in DOMAIN pages' : pages'[i].depth <= next.depth
      BY <2>3, <2>4, <3>1
    <3>3. ASSUME NEW j \in DOMAIN queue'
          PROVE  next.depth <= queue'[j].depth /\ queue'[j].depth <= next.depth + 1
      <4>1. CASE j \in DOMAIN queue /\ queue'[j] = queue[j]
        BY <3>1, <4>1
      <4>2. CASE queue'[j].depth = next.depth + 1
        BY <2>3, <4>2
      <4> QED
        BY <2>5, <4>1, <4>2
    <3> QED
      BY <3>2, <3>3
  <2>8. \A i, j \in DOMAIN pages' : i < j => pages'[i].depth <= pages'[j].depth
    BY <2>1, <2>4, <2>6, <2>7 DEF DepthInv
  <2>9. \A i \in DOMAIN pages', j \in DOMAIN queue' : pages'[i].depth <= queue'[j].depth
    BY <2>3, <2>6, <2>7
  <2>10. \A i, j \in DOMAIN queue' :
           i < j => queue'[i].depth <= queue'[j].depth /\ queue'[j].depth <= queue'[i].depth + 1
    <3>1. SUFFICES ASSUME NEW i \in DOMAIN queue', NEW j \in DOMAIN queue', i < j
          PROVE  queue'[i].depth <= queue'[j].depth /\ queue'[j].depth <= queue'[i].depth + 1
      OBVIOUS
    <3>2. CASE j \in DOMAIN queue /\ queue'[j] = queue[j] /\ j <= Len(queue)
      <4>1. Len(queue) \in Nat
        BY <2>3, Entries
      <4>2. i \in DOMAIN queue /\ queue'[i] = queue[i]
        BY <2>5, <2>6, <3>1, <3>2, <4>1
      <4> QED
        BY <3>1, <3>2, <4>2 DEF DepthInv
    <3>3. CASE j > Len(queue) /\ queue'[j].depth = next.depth + 1
      BY <2>3, <2>6, <2>7, <3>3
    <3> QED
      BY <2>5, <3>2, <3>3
  <2> QED
    BY <2>1, <2>8, <2>9, <2>10 DEF DepthInv
<1>4. CASE ReceivePage /\ UNCHANGED <<queue, seen, pages, next, tried, found>>
  BY <1>1, <1>4 DEF ReceivePage
<1> QED
  BY <1>1, <1>2, <1>3, <1>4, SameLoop DEF Next, Loop, Fetch

\* What was found stays accounted for: a URL leaves the queue to be tried, or
\* because it was tried or is a page; the links of a page that do not join the
\* queue were seen.
LEMMA LinksKeep == TypeOK /\ LinksInv /\ Next => LinksInv'
<1> SUFFICES ASSUME TypeOK, LinksInv, Next PROVE LinksInv'
  OBVIOUS
<1>1. CASE Expire \/ FetchFails \/ \E to \in URLs \cup Offsite : FollowRedirect(to)
  <2>1. UNCHANGED <<queue, seen, pages, next, tried, found>> /\ pc' \in {"fetch", "loop", pc}
    BY <1>1 DEF Expire, FetchFails, FollowRedirect, loopVars, history
  <2>2. pc' = "done" => pc = "done"
    BY <2>1
  <2>3. pc' = "done" => expired' \/ expired' = expired
    BY <1>1 DEF Expire, FetchFails, FollowRedirect
  <2> QED
    BY <2>1, <2>2, <2>3 DEF LinksInv, UrlsOf
<1>2. CASE Return
  BY <1>2 DEF Return, LinksInv, UrlsOf, loopVars, history
<1>3. CASE Finished
  BY <1>3 DEF Finished, LinksInv, UrlsOf, vars, loopVars, history
<1>4. CASE Skip \/ Visit
  <2>1. queue \in Seq(Entry) /\ queue # <<>>
    BY <1>4 DEF Skip, Visit, Continues, TypeOK
  <2>2. UrlsOf(queue) = {Head(queue).url} \cup UrlsOf(Tail(queue))
    BY <2>1, Popped
  <2>3. queue' = Tail(queue) /\ pages' = pages /\ found' = found /\ pc' # "done"
    BY <1>4 DEF Skip, Visit, Continues, history
  <2>4. UrlsOf(queue)' = UrlsOf(Tail(queue)) /\ UrlsOf(pages)' = UrlsOf(pages)
    BY <2>3 DEF UrlsOf
  <2>5. CASE Skip
    BY <2>2, <2>3, <2>4, <2>5 DEF Skip, LinksInv, history
  <2>6. CASE Visit
    BY <2>2, <2>3, <2>4, <2>6 DEF Visit, LinksInv
  <2> QED
    BY <1>4, <2>5, <2>6
<1>5. CASE ReceivePage
  <2>1. pc' = "loop"
    BY <1>5 DEF ReceivePage
  <2>2. CASE UNCHANGED <<queue, seen, pages, next, tried, found>>
    BY <2>1, <2>2 DEF LinksInv, UrlsOf
  <2>3. CASE ~UNCHANGED <<queue, seen, pages, next, tried, found>>
    <3> DEFINE e == [url |-> at, depth |-> next.depth]
    <3>1. seen' = seen \cup {at} /\ pages' = Append(pages, e) /\ tried' = tried
      BY <1>5, <2>3, Received
    <3>2. PICK new \in Seq(Entry) :
            queue' = queue \o new /\ found' \subseteq found \cup UrlsOf(new) \cup seen'
      BY <1>5, <2>3, Received
    <3>3. e \in Entry /\ e.url = at /\ pages \in Seq(Entry) /\ queue \in Seq(Entry)
      BY DEF TypeOK, Entry
    <3>4. UrlsOf(pages)' = UrlsOf(pages) \cup {at}
      BY <3>1, <3>3, Added DEF UrlsOf
    <3>5. UrlsOf(queue)' = UrlsOf(queue) \cup UrlsOf(new)
      <4>1. UrlsOf(queue \o new) = UrlsOf(queue) \cup UrlsOf(new)
        BY <3>3, Joined
      <4> QED
        BY <3>2, <4>1 DEF UrlsOf
    <3> QED
      BY <2>1, <3>1, <3>2, <3>4, <3>5 DEF LinksInv
  <2> QED
    BY <2>2, <2>3
<1> QED
  BY <1>1, <1>2, <1>3, <1>4, <1>5 DEF Next, Loop, Fetch

\* Each step keeps the invariant.
LEMMA StepIInv == IInv /\ [Next]_vars => IInv'
<1>1. ASSUME IInv, UNCHANGED vars PROVE IInv'
  BY <1>1 DEF vars, loopVars, history, IInv, TypeOK, PagesInv, PagesBoundedAndDistinct, DepthInv,
              LinksInv, UrlsOf
<1> QED
  BY <1>1, TypeKeeps, PagesKeep, DepthsKeep, LinksKeep DEF IInv

\* The invariant holds throughout a crawl.
LEMMA Invariance == Spec => []IInv
BY InitIInv, StepIInv, PTL DEF Spec

-----------------------------------------------------------------------------
(* Theorems *)

\* The variables keep their types; what waits, is fetched, is tried or is
\* returned has the target's origin, and redirects stay below their bound.
THEOREM CrawlTyped == Spec => []TypeOK
BY Invariance, PTL DEF IInv

\* No request, of whichever link or redirect, leaves the origin of the target
\* (resolveSameOrigin, sameOriginRedirectPolicy).
THEOREM CrawlStaysOnsite == Spec => []RequestsStayOnsite
<1>1. IInv => RequestsStayOnsite
  BY DEF IInv, TypeOK, RequestsStayOnsite
<1> QED
  BY <1>1, Invariance, PTL

\* At most MaxPages pages are returned, and no URL twice, however the pages
\* link and redirect to one another (Crawl).
THEOREM PagesAreBoundedAndDistinct == Spec => []PagesBoundedAndDistinct
<1>1. IInv => PagesBoundedAndDistinct
  BY DEF IInv, PagesInv
<1> QED
  BY <1>1, Invariance, PTL

\* The pages and then the queue are in the order of their distance from the
\* root, and the queue spans one step of it (Crawl).
THEOREM CrawlIsBreadthFirst == Spec => []BreadthFirst
<1>1. IInv => BreadthFirst
  <2> SUFFICES ASSUME IInv PROVE BreadthFirst
    OBVIOUS
  <2> DEFINE line == pages \o queue
  <2>1. pages \in Seq(Entry) /\ queue \in Seq(Entry)
    BY DEF IInv, TypeOK
  <2>2. \A i \in DOMAIN line :
          \/ i \in DOMAIN pages /\ line[i] = pages[i] /\ i <= Len(pages)
          \/ i > Len(pages) /\ i - Len(pages) \in DOMAIN queue /\ line[i] = queue[i - Len(pages)]
    BY <2>1, Joined, Entries
  <2>3. SUFFICES ASSUME NEW i \in DOMAIN line, NEW j \in DOMAIN line, i < j
        PROVE  /\ line[i].depth <= line[j].depth
               /\ i > Len(pages) => line[j].depth <= line[i].depth + 1
    BY DEF BreadthFirst
  <2>4. i \in Nat /\ j \in Nat /\ Len(pages) \in Nat
    BY <2>1, Joined, Entries
  <2>5. CASE i <= Len(pages) /\ j <= Len(pages)
    BY <2>2, <2>3, <2>4, <2>5 DEF IInv, DepthInv
  <2>6. CASE i <= Len(pages) /\ j > Len(pages)
    BY <2>2, <2>4, <2>6 DEF IInv, DepthInv
  <2>7. CASE i > Len(pages) /\ j > Len(pages)
    <3>1. i - Len(pages) < j - Len(pages)
      BY <2>3, <2>4
    <3> QED
      BY <2>2, <2>4, <2>7, <3>1 DEF IInv, DepthInv
  <2> QED
    BY <2>3, <2>4, <2>5, <2>6, <2>7
<1> QED
  BY <1>1, Invariance, PTL

\* A crawl that ends by itself has tried, or has as a page, every same-origin
\* link of the pages it returns (Crawl).
THEOREM NoLinkLeftBehind == Spec => []NothingLeftBehind
<1>1. IInv => NothingLeftBehind
  <2> SUFFICES ASSUME IInv, pc = "done", ~expired, Len(pages) < MaxPages
      PROVE  found \subseteq tried \cup UrlsOf(pages)
    BY DEF NothingLeftBehind
  <2>1. Len(pages) \in Nat /\ MaxPages \in Int
    BY Entries, CrawlAssumption DEF IInv, TypeOK
  <2>2. queue = <<>>
    BY <2>1 DEF IInv, LinksInv
  <2>3. UrlsOf(queue) = {}
    BY <2>2 DEF UrlsOf
  <2> QED
    BY <2>3 DEF IInv, LinksInv
<1> QED
  BY <1>1, Invariance, PTL
=============================================================================
