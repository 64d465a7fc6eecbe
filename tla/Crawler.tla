-------------------------------- MODULE Crawler --------------------------------
(***************************************************************************)
(* One crawl of a target (internal/crawler/crawler.go): the breadth-first  *)
(* loop of Crawl, fetchOne with its redirect policy, and the budget that   *)
(* may run out at any time.  The server is free to answer every request    *)
(* differently, so nothing is assumed about the site's links or redirects. *)
(*                                                                         *)
(* A URL stands for the string the crawler compares; a page is represented *)
(* by its URL.  Bodies, headers and statuses do not influence the loop.    *)
(***************************************************************************)
EXTENDS Integers, Sequences, FiniteSets, Functions

CONSTANTS
  URLs,          \* URLs with the origin of the target
  Offsite,       \* URLs with another origin
  Root,          \* "http://<onion>/"
  MaxPages,      \* Limits.MaxPages; the loop does not run if it is 0 or less
  MaxRedirects   \* maxRedirects, 5 in the code

ASSUME CrawlAssumption ==
  /\ IsFiniteSet(URLs) /\ IsFiniteSet(Offsite)
  /\ URLs \cap Offsite = {}
  /\ Root \in URLs
  /\ MaxPages \in Int
  /\ MaxRedirects \in Nat \ {0}

VARIABLES
  \* locals of Crawl; an entry of queue and pages holds its URL and, as
  \* history, the number of links that were followed from the root to it
  queue,     \* entries to visit, first in first out
  seen,      \* the URLs for which the map seen holds true
  pages,     \* entries to return
  next,      \* the entry popped from the queue
  pc,        \* "loop", "fetch" or "done"
  \* the fetch in progress
  at,        \* the URL of the request being made
  via,       \* how many requests of this fetch were answered: len(via)
  \* environment
  expired,   \* the context is done: the budget is used up, or the caller's
             \* context was cancelled
  \* history
  requested, \* the URLs of all requests
  tried,     \* the URLs fetchOne was called for
  fetched,   \* the URLs of the pages fetchOne returned
  found      \* the same-origin links of the pages to return

loopVars == <<queue, seen, pages, next>>
history == <<requested, tried, fetched, found>>
vars == <<loopVars, pc, at, via, expired, history>>

Entry == [url : URLs, depth : Nat]
UrlsOf(q) == {q[i].url : i \in DOMAIN q}

Init ==
  /\ queue = << [url |-> Root, depth |-> 0] >>
  /\ seen = {}
  /\ pages = <<>>
  /\ next = [url |-> Root, depth |-> 0]
  /\ pc = "loop"
  /\ at = Root
  /\ via = 0
  /\ expired = FALSE
  /\ requested = {} /\ tried = {} /\ fetched = {} /\ found = {}

Expire ==
  /\ pc # "done"
  /\ ~expired
  /\ expired' = TRUE
  /\ UNCHANGED <<loopVars, pc, at, via, history>>

-----------------------------------------------------------------------------
(* The loop of Crawl *)

\* The queue is empty or MaxPages is reached, or the context is done; the
\* pages so far are returned, in the last case too without an error.
Return ==
  /\ pc = "loop"
  /\ queue = <<>> \/ Len(pages) >= MaxPages \/ expired
  /\ pc' = "done"
  /\ UNCHANGED <<loopVars, at, via, expired, history>>

\* The condition of the loop.
Continues == pc = "loop" /\ queue # <<>> /\ Len(pages) < MaxPages

\* The context is checked before the next URL is popped, but may expire
\* between the check and the fetch.
Skip ==
  /\ Continues /\ ~expired
  /\ Head(queue).url \in seen
  /\ next' = Head(queue)
  /\ queue' = Tail(queue)
  /\ UNCHANGED <<seen, pages, pc, at, via, expired, history>>

Visit ==
  /\ Continues /\ ~expired
  /\ Head(queue).url \notin seen
  /\ next' = Head(queue)
  /\ queue' = Tail(queue)
  /\ seen' = seen \cup {Head(queue).url}
  /\ tried' = tried \cup {Head(queue).url}
  /\ at' = Head(queue).url
  /\ via' = 0
  /\ requested' = requested \cup {Head(queue).url}
  /\ pc' = "fetch"
  /\ UNCHANGED <<pages, expired, fetched, found>>

-----------------------------------------------------------------------------
(* fetchOne: one request and the redirects that follow from it *)

\* No connection, no answer in time, a redirect that is refused, or a body
\* that cannot be read: the URL is dropped.
FetchFails ==
  /\ pc = "fetch"
  /\ pc' = "loop"
  /\ UNCHANGED <<loopVars, at, via, expired, history>>

\* Mutants of FollowRedirect: the origin of the redirect is not looked at; no
\* bound on their number.
FollowAnywhere(to) ==
  /\ pc = "fetch" /\ ~expired
  /\ via + 1 < MaxRedirects
  /\ at' = to
  /\ via' = via + 1
  /\ requested' = requested \cup {to}
  /\ UNCHANGED <<loopVars, pc, expired, tried, fetched, found>>
FollowForever(to) ==
  /\ pc = "fetch" /\ ~expired
  /\ to \in URLs
  /\ at' = to
  /\ via' = IF via + 1 < MaxRedirects THEN via + 1 ELSE via
  /\ requested' = requested \cup {to}
  /\ UNCHANGED <<loopVars, pc, expired, tried, fetched, found>>

\* The server answers with a redirect that sameOriginRedirectPolicy allows.
FollowRedirect(to) ==
  /\ pc = "fetch" /\ ~expired
  /\ via + 1 < MaxRedirects
  /\ to \in URLs
  /\ at' = to
  /\ via' = via + 1
  /\ requested' = requested \cup {to}
  /\ UNCHANGED <<loopVars, pc, expired, tried, fetched, found>>

\* What Crawl enqueues of the links of a page: those that resolve to the
\* origin of the target and are not seen yet, in the order of the page.
Fresh(links, known) == (links \cap URLs) \ known
Orders(S) == Bijection(1 .. Cardinality(S), S)

\* The entries for the links in `order` of the page at next.
Deeper(order) ==
  [i \in 1 .. Len(order) |-> [url |-> order[i], depth |-> next.depth + 1]]

\* Mutants of Enqueued: the links of the page are visited first; no more
\* are kept than there is room for pages.
EnqueuedFirst(order) == Deeper(order) \o queue
EnqueuedCapped(order) ==
  LET all == queue \o Deeper(order)
      room == MaxPages - Len(pages) - 1
  IN  IF Len(all) > room THEN SubSeq(all, 1, room) ELSE all

Enqueued(order) == queue \o Deeper(order)

\* Mutant of PageKnown: the redirect that led here is not considered.
NeverKnown == FALSE

\* A redirect ended at a URL that was seen before.
PageKnown == next.url # at /\ at \in seen

\* fetchOne returns the page at `at`: the answer itself, which is also what
\* a redirect to another origin counts as (ErrUseLastResponse).
ReceivePage ==
  /\ pc = "fetch" /\ ~expired
  /\ pc' = "loop"
  /\ fetched' = fetched \cup {at}
  /\ IF PageKnown
     THEN UNCHANGED <<queue, seen, pages, found>>
     ELSE /\ seen' = seen \cup {at}
          /\ pages' = Append(pages, [url |-> at, depth |-> next.depth])
          /\ \E links \in SUBSET (URLs \cup Offsite) :
               /\ found' = found \cup (links \cap URLs)
               /\ \E order \in Orders(Fresh(links, seen')) :
                    queue' = Enqueued(order)
  /\ UNCHANGED <<next, at, via, expired, requested, tried>>

-----------------------------------------------------------------------------
Finished == pc = "done" /\ UNCHANGED vars

Fetch ==
  FetchFails \/ ReceivePage \/ \E to \in URLs \cup Offsite : FollowRedirect(to)
Loop == Return \/ Skip \/ Visit

Next == Expire \/ Loop \/ Fetch \/ Finished

Spec == Init /\ [][Next]_vars

\* The loop runs on; each request is answered or fails, at the latest by its
\* page timeout.  Neither the budget nor a failure ever has to come to pass.
FairSpec == Spec /\ WF_vars(Loop) /\ WF_vars(Fetch)

-----------------------------------------------------------------------------
(* Correctness *)

\* Types of the variables.
TypeOK ==
  /\ queue \in Seq(Entry)
  /\ seen \in SUBSET URLs
  /\ pages \in Seq(Entry)
  /\ next \in Entry
  /\ pc \in {"loop", "fetch", "done"}
  /\ at \in URLs
  /\ via \in 0 .. MaxRedirects - 1
  /\ expired \in BOOLEAN
  /\ requested \in SUBSET URLs
  /\ tried \in SUBSET URLs
  /\ fetched \in SUBSET URLs
  /\ found \in SUBSET URLs

\* Crawl returns at most MaxPages pages and no URL twice, although a URL may
\* be queued many times and be reached directly and through redirects.
PagesBoundedAndDistinct ==
  /\ Len(pages) <= (IF MaxPages > 0 THEN MaxPages ELSE 0)
  /\ \A i, j \in DOMAIN pages : pages[i].url = pages[j].url => i = j

\* No request, those of redirects included, leaves the origin of the target.
RequestsStayOnsite == requested \subseteq URLs

\* The crawl is breadth first: no page is returned before one that was found
\* by fewer links, and what waits is at most one link deeper, so that the
\* pages nearest to the root are the ones MaxPages leaves in.
BreadthFirst ==
  LET line == pages \o queue IN
  \A i, j \in DOMAIN line :
    i < j => line[i].depth <= line[j].depth
             /\ (i > Len(pages) => line[j].depth <= line[i].depth + 1)

\* A crawl that neither a limit nor the budget stopped has tried every
\* same-origin link of every page it returns, or has the page already.
NothingLeftBehind ==
  pc = "done" /\ ~expired /\ Len(pages) < MaxPages
    => found \subseteq tried \cup UrlsOf(pages)

\* The crawl ends though the site may invent links and redirects for ever.
Terminates == <>(pc = "done")

-----------------------------------------------------------------------------
(* What the repository says and the code does not do *)

\* crawler.go says that Crawl "returns every page fetched (bounded by
\* limits)".  A page that a redirect leads to is dropped when the URL was
\* tried before, also when that try had failed.
FetchedPagesReturned == pc = "done" => fetched \subseteq UrlsOf(pages)
=============================================================================
