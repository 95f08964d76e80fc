------------------------------- MODULE Crawler -------------------------------
(***************************************************************************)
(* The crawler (crawler/mod.rs, crawler/resources.rs): visits the pages of *)
(* the peer's web site to hide the tunnel's connections among real ones.   *)
(* It is one task, so its steps are the pieces between its awaits.         *)
(*                                                                         *)
(* The site is arbitrary: every response may fail, be an asset, or refer   *)
(* to any resources.  References that lead out of the site, which are      *)
(* refused, are left out, and so is the cache of resource types: it only   *)
(* helps to guess whether a resource is a page or an asset.                *)
(***************************************************************************)
EXTENDS Naturals, Sequences, FiniteSets

CONSTANTS
    Urls,          \* the resources of the site
    SitemapUrl,    \* where a crawl begins
    MaxResources,  \* MAX_RESOURCES_PER_ITERATION
    MaxCapacity,   \* config.max_client_capacity, or 0 if there is none
    MaxRedirects,  \* how many redirects of a request the HTTP client follows
    None

ASSUME SiteAssumption == SitemapUrl \in Urls
ASSUME LimitsAssumption == MaxResources \in Nat \ {0} /\ MaxCapacity \in Nat /\ MaxRedirects \in Nat
ASSUME NoClientAssumption == None \notin [capacity : Nat, used : Nat]

VARIABLES
    queue,    \* the tasks to come
    crawled,  \* crawled_resources
    client,   \* [capacity, used] or None; a capacity of 0 is no limit
    active,   \* the metric active_connections
    task,     \* the current task
    adding,   \* what the response to it refers to
    pc,         \* where run() is
    redirects,  \* how many the current request has followed
    visited,    \* history: the resources of the tasks requested in this crawl
    requests    \* history: how many requests this crawl has sent, up to one too many

traffic == <<redirects, visited, requests>>
vars == <<queue, crawled, client, active, task, adding, pc, redirects, visited, requests>>

\* Inner sitemaps and assets are requested without a delay.
Delays == {"crawl", "page", "none"}
Task == [url : Urls, delay : Delays, kind : {"sitemap", "page"}]
Capacities == IF MaxCapacity = 0 THEN {0} ELSE 1..MaxCapacity
Client == [capacity : Capacities, used : 0..(MaxCapacity + 1)]
SitemapTask == [url |-> SitemapUrl, delay |-> "crawl", kind |-> "sitemap"]

TypeOK ==
    /\ queue \in Seq(Task)
    /\ crawled \subseteq Urls
    /\ client \in Client \cup {None}
    /\ active \in Nat
    /\ task \in Task
    /\ adding \in {"sitemaps", "pages", "resources"}
    /\ pc \in {"idle", "sleeping", "requesting", "fetching", "processing"}
    /\ redirects \in 0..MaxRedirects
    /\ visited \subseteq Urls
    /\ requests \in Nat

Init ==
    /\ queue = <<>>
    /\ crawled = {}
    /\ client = None
    /\ active = 0
    /\ task = SitemapTask
    /\ adding = "sitemaps"
    /\ pc = "idle"
    /\ redirects = 0
    /\ visited = {}
    /\ requests = 0

-----------------------------------------------------------------------------
(* run() *)

Exhausted == client # None /\ client.capacity # 0 /\ client.used >= client.capacity

\* Before a delay a client that has reached its capacity is dropped, so that
\* there are periods without a connection.
Delay ==
    IF Exhausted
    THEN client' = None /\ active' = active - 1
    ELSE UNCHANGED <<client, active>>

\* The queue is empty: another crawl begins, with another client.
StartCrawl ==
    /\ pc = "idle"
    /\ queue = <<>>
    /\ crawled' = {SitemapUrl}
    /\ visited' = {}
    /\ requests' = 0
    /\ client' = None
    /\ active' = IF client = None THEN active ELSE active - 1
    /\ task' = SitemapTask
    /\ pc' = "sleeping"
    /\ UNCHANGED <<queue, adding, redirects>>

TakeTask ==
    /\ pc = "idle"
    /\ queue # <<>>
    /\ task' = Head(queue)
    /\ queue' = Tail(queue)
    /\ \/ /\ task'.delay = "none"
          /\ pc' = "requesting"
          /\ UNCHANGED <<client, active>>
       \/ /\ task'.delay # "none"
          /\ pc' = "sleeping"
          /\ Delay
    /\ UNCHANGED <<crawled, adding, traffic>>

Wake ==
    /\ pc = "sleeping"
    /\ pc' = "requesting"
    /\ UNCHANGED <<queue, crawled, client, active, task, adding, traffic>>

-----------------------------------------------------------------------------
(* process() and client() *)

Cost == IF task.delay = "none" THEN 0 ELSE 1

Usable ==
    client # None /\ (client.capacity = 0 \/ client.used + Cost <= client.capacity)

\* What a crawl may send: a request for every resource, and its redirects.
MaxRequests == MaxResources * (1 + MaxRedirects)

CountRequest == requests' = IF requests > MaxRequests THEN requests ELSE requests + 1

\* The first request for the task.
Sent ==
    /\ redirects' = 0
    /\ visited' = visited \cup {task.url}
    /\ CountRequest

Reuse ==
    /\ pc = "requesting"
    /\ Usable
    /\ client' = IF client.capacity = 0 THEN client ELSE [client EXCEPT !.used = @ + Cost]
    /\ Sent
    /\ pc' = "fetching"
    /\ UNCHANGED <<queue, crawled, active, task, adding>>

\* There is no client, or it is dropped because its capacity does not suffice.
OpenClient ==
    /\ pc = "requesting"
    /\ ~Usable
    /\ \E capacity \in Capacities : client' = [capacity |-> capacity, used |-> Cost]
    /\ active' = IF client = None THEN active + 1 ELSE active
    /\ Sent
    /\ pc' = "fetching"
    /\ UNCHANGED <<queue, crawled, task, adding>>

\* new_client() fails.
OpenClientFails ==
    /\ pc = "requesting"
    /\ ~Usable
    /\ client' = None
    /\ active' = IF client = None THEN active ELSE active - 1
    /\ pc' = "idle"
    /\ UNCHANGED <<queue, crawled, task, adding, traffic>>

\* A redirect within the site is followed by the HTTP client itself, as far as
\* its default policy goes: what it leads to is requested whether it has been
\* crawled or not, and at no cost.
Redirect ==
    /\ pc = "fetching"
    /\ redirects < MaxRedirects
    /\ redirects' = redirects + 1
    /\ CountRequest
    /\ UNCHANGED <<queue, crawled, client, active, task, adding, pc, visited>>

\* The request fails or times out, is redirected out of the site or too often,
\* or the response is an asset or invalid.
FetchNothing ==
    /\ pc = "fetching"
    /\ pc' = "idle"
    /\ UNCHANGED <<queue, crawled, client, active, task, adding, traffic>>

\* A sitemap is an index of others or a set of pages; an HTML page refers to
\* resources.
FetchReferences ==
    /\ pc = "fetching"
    /\ adding' \in IF task.kind = "sitemap" THEN {"sitemaps", "pages"} ELSE {"resources"}
    /\ pc' = "processing"
    /\ UNCHANGED <<queue, crawled, client, active, task, traffic>>

\* What delay a reference of the response is added with: whether a resource of
\* a page is a page too is known from the last crawl or guessed.
ReferenceDelays ==
    CASE adding = "sitemaps" -> {"none"}
      [] adding = "pages" -> {"page"}
      [] adding = "resources" -> {"none", "page"}

\* Mistaken: there is no limit.
Allowed_All(url) == url \notin crawled

Allowed(url) ==
    /\ url \notin crawled
    /\ Cardinality(crawled \cup {url}) <= MaxResources

\* Mistaken: a task without a delay waits for those with one.
Queued_Back(t) == Append(queue, t)

Queued(t) == IF t.delay = "none" THEN <<t>> \o queue ELSE Append(queue, t)

\* add(): a reference that is not allowed changes nothing.
Add(url) ==
    /\ pc = "processing"
    /\ Allowed(url)
    /\ crawled' = crawled \cup {url}
    /\ \E delay \in ReferenceDelays :
           queue' = Queued([url |-> url, delay |-> delay,
                            kind |-> IF adding = "sitemaps" THEN "sitemap" ELSE "page"])
    /\ UNCHANGED <<client, active, task, adding, pc, traffic>>

\* Mistaken: what was taken for an asset is forgotten.
EndProcessing_Forgets ==
    /\ pc = "processing"
    /\ pc' = "idle"
    /\ crawled' = IF task.delay = "none" THEN crawled \ {task.url} ELSE crawled
    /\ UNCHANGED <<queue, client, active, task, adding, traffic>>

EndProcessing ==
    /\ pc = "processing"
    /\ pc' = "idle"
    /\ UNCHANGED <<queue, crawled, client, active, task, adding, traffic>>

-----------------------------------------------------------------------------

Run ==
    \/ StartCrawl \/ TakeTask \/ Wake
    \/ Reuse \/ OpenClient \/ OpenClientFails
    \/ Redirect \/ FetchNothing \/ FetchReferences \/ EndProcessing

Next == Run \/ \E url \in Urls : Add(url)

Spec == Init /\ [][Next]_vars

-----------------------------------------------------------------------------
(* Properties *)

\* Whatever the site refers to and redirects to, a crawl knows no more than so
\* many resources and sends no more than so many requests: neither the queue,
\* nor the set, nor the traffic grows with the site.
CrawlBounded ==
    /\ Cardinality(crawled) <= MaxResources
    /\ Len(queue) <= MaxResources
    /\ requests <= MaxRequests

\* No resource is the task of two requests in a crawl, however many pages refer
\* to it and whether it waits in the queue, is being visited or has been
\* visited.  A redirect may still lead to a resource that has been visited, or
\* will be: its target is not one of the crawled resources.
VisitedOnce == pc = "requesting" => task.url \notin visited

\* "We want zero cost requests to reuse current client": an asset, or an inner
\* sitemap, is requested through a client that is there and can be used, even
\* if the last page has used up its capacity.
ZeroCostReuses == pc = "requesting" /\ task.delay = "none" => Usable

\* A client that has reached its capacity is dropped before a delay and never
\* after it, when its connection would have been there for nothing.
DroppedBeforeDelay == pc = "requesting" /\ client # None => Usable

\* No request meets a client that is not there or has been used up.
RequestsAreUsable == ZeroCostReuses /\ DroppedBeforeDelay

\* The metric is right about the client, on all paths that drop it.
GaugeAgrees == active = IF client = None THEN 0 ELSE 1

\* A response is finite, requests have a timeout (client.rs:44).
FairSpec == Spec /\ WF_vars(Run)

\* A site whose pages refer to each other does not keep a crawl going for ever.
CrawlEnds == []<>(pc = "sleeping" /\ task.delay = "crawl")

-----------------------------------------------------------------------------
(* The inductive invariant *)

Delayed(t) == t.delay # "none"

\* Tasks without a delay come first, and there are some only while there is a
\* client for them.
QueueInv ==
    /\ \A i \in 1..Len(queue), j \in 1..Len(queue) :
           i < j /\ Delayed(queue[i]) => Delayed(queue[j])
    /\ (\E i \in 1..Len(queue) : ~Delayed(queue[i])) => client # None
    /\ pc \in {"sleeping", "requesting"} /\ Delayed(task) =>
           \A i \in 1..Len(queue) : Delayed(queue[i])
    /\ pc = "requesting" /\ ~Delayed(task) => client # None
    /\ pc = "sleeping" => Delayed(task)
    /\ pc \in {"fetching", "processing"} => client # None

ClientInv ==
    /\ client # None /\ client.capacity # 0 => client.used <= client.capacity
    /\ pc = "sleeping" \/ (pc = "requesting" /\ Delayed(task)) => ~Exhausted

\* What waits is known, has not been requested, and waits once.
OnceInv ==
    /\ IsFiniteSet(crawled)
    /\ Cardinality(crawled) <= MaxResources
    /\ visited \subseteq crawled
    /\ \A i \in 1..Len(queue) : queue[i].url \in crawled \ visited
    /\ \A i \in 1..Len(queue), j \in 1..Len(queue) :
           i # j => queue[i].url # queue[j].url
    /\ pc \in {"sleeping", "requesting"} =>
           /\ task.url \in crawled \ visited
           /\ \A i \in 1..Len(queue) : queue[i].url # task.url

\* Every visited resource has cost no more than a request and its redirects.
RequestsInv ==
    requests <= IF pc = "fetching"
                THEN (Cardinality(visited) - 1) * (1 + MaxRedirects) + 1 + redirects
                ELSE Cardinality(visited) * (1 + MaxRedirects)

CrawlerInv == QueueInv /\ ClientInv /\ OnceInv /\ GaugeAgrees /\ RequestsInv
=============================================================================
