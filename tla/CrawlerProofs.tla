---------------------------- MODULE CrawlerProofs ----------------------------
(***************************************************************************)
(* Proofs about Crawler, for any site, limit and capacity.                 *)
(***************************************************************************)
EXTENDS Crawler, SequenceTheorems, FiniteSetTheorems, TLAPS

-----------------------------------------------------------------------------
(* The queue *)

LEMMA HeadTail ==
    ASSUME NEW S, NEW q \in Seq(S), q # <<>>
    PROVE  /\ Len(q) \in Nat \ {0}
           /\ Head(q) \in S /\ Head(q) = q[1]
           /\ Tail(q) \in Seq(S) /\ Len(Tail(q)) = Len(q) - 1
           /\ \A i \in 1..Len(Tail(q)) : Tail(q)[i] = q[i + 1]
BY HeadTailProperties, EmptySeq

\* A queued task is there, first or last, and so are the others, in the order
\* in which they were.
LEMMA QueuedElements ==
    ASSUME queue \in Seq(Task), NEW t \in Task
    PROVE  /\ Queued(t) \in Seq(Task) /\ Len(Queued(t)) = Len(queue) + 1
           /\ Delayed(t) =>
                  \A i \in 1..Len(Queued(t)) :
                      Queued(t)[i] = IF i = Len(queue) + 1 THEN t ELSE queue[i]
           /\ ~Delayed(t) =>
                  \A i \in 1..Len(Queued(t)) :
                      Queued(t)[i] = IF i = 1 THEN t ELSE queue[i - 1]
<1>1. CASE Delayed(t)
  BY <1>1 DEF Queued, Delayed
<1>2. CASE ~Delayed(t)
  <2> DEFINE first == <<t>>
  <2>1. first \in Seq(Task) /\ Len(first) = 1 /\ first[1] = t
    OBVIOUS
  <2>2. Queued(t) = first \o queue
    BY <1>2 DEF Queued, Delayed
  <2> HIDE DEF first
  <2>3. /\ first \o queue \in Seq(Task)
        /\ Len(first \o queue) = Len(first) + Len(queue)
        /\ \A i \in 1..(Len(first) + Len(queue)) :
               (first \o queue)[i] = IF i <= Len(first) THEN first[i] ELSE queue[i - Len(first)]
    BY <2>1, ConcatProperties
  <2>4. /\ Len(queue) \in Nat
        /\ \A i \in 1..(Len(queue) + 1) :
               Queued(t)[i] = IF i = 1 THEN t ELSE queue[i - 1]
    BY <2>1, <2>2, <2>3
  <2> QED
    BY <1>2, <2>1, <2>2, <2>3, <2>4
<1> QED
  BY <1>1, <1>2

-----------------------------------------------------------------------------
(* Types and the client *)

LEMMA ClientsAreSome ==
    /\ None \notin Client
    /\ \A cl \in Client :
           /\ cl = [capacity |-> cl.capacity, used |-> cl.used]
           /\ cl.capacity \in Capacities /\ cl.capacity \in Nat
           /\ cl.used \in 0..(MaxCapacity + 1)
    /\ \A capacity \in Capacities, used \in 0..(MaxCapacity + 1) :
           [capacity |-> capacity, used |-> used] \in Client
BY NoClientAssumption, LimitsAssumption DEF Client, Capacities

LEMMA CountedRequest ==
    ASSUME requests \in Nat, CountRequest
    PROVE  requests' \in Nat /\ requests' <= requests + 1
<1> DEFINE max == MaxRequests
<1>1. requests' = IF requests > max THEN requests ELSE requests + 1
  BY DEF CountRequest
<1> HIDE DEF max
<1> QED
  BY <1>1

LEMMA TypeNext == TypeOK /\ GaugeAgrees /\ [Next]_vars => TypeOK'
<1> SUFFICES ASSUME TypeOK, GaugeAgrees, [Next]_vars PROVE TypeOK'
  OBVIOUS
<1> USE LimitsAssumption, SiteAssumption, NoClientAssumption
      DEF TypeOK, Client, Capacities, Delays
<1>1. CASE StartCrawl
  BY <1>1 DEF StartCrawl, SitemapTask, Task, GaugeAgrees
<1>2. CASE TakeTask
  <2>1. Head(queue) \in Task /\ Tail(queue) \in Seq(Task)
    BY <1>2, HeadTail DEF TakeTask
  <2>2. client' \in Client \cup {None} /\ active' \in Nat
    BY <1>2 DEF TakeTask, Delay, Exhausted, GaugeAgrees
  <2> QED
    BY <2>1, <2>2, <1>2 DEF TakeTask, traffic
<1>3. CASE Wake \/ FetchNothing \/ FetchReferences \/ EndProcessing
  BY <1>3 DEF Wake, FetchNothing, FetchReferences, EndProcessing, traffic
<1>4. CASE Reuse
  <2>1. task.url \in Urls
    BY DEF Task
  <2>2. client' \in Client
    BY <1>4 DEF Reuse, Usable, Cost
  <2> QED
    BY <2>1, <2>2, <1>4, CountedRequest DEF Reuse, Sent
<1>5. CASE OpenClient
  <2>1. task.url \in Urls
    BY DEF Task
  <2>2. client' \in Client
    BY <1>5 DEF OpenClient, Cost
  <2> QED
    BY <2>1, <2>2, <1>5, CountedRequest DEF OpenClient, Sent
<1>6. CASE OpenClientFails
  BY <1>6 DEF OpenClientFails, GaugeAgrees, traffic
<1>7. ASSUME NEW url \in Urls, Add(url) PROVE TypeOK'
  <2>1. PICK delay \in ReferenceDelays :
            queue' = Queued([url |-> url, delay |-> delay,
                             kind |-> IF adding = "sitemaps" THEN "sitemap" ELSE "page"])
    BY <1>7 DEF Add
  <2>2. [url |-> url, delay |-> delay,
         kind |-> IF adding = "sitemaps" THEN "sitemap" ELSE "page"] \in Task
    BY DEF Task, ReferenceDelays
  <2>3. queue' \in Seq(Task)
    BY <2>1, <2>2, QueuedElements
  <2> QED
    BY <2>3, <1>7 DEF Add, traffic
<1>8. CASE UNCHANGED vars
  BY <1>8 DEF vars
<1>9. CASE Redirect
  BY <1>9, CountedRequest DEF Redirect
<1> QED
  BY <1>1, <1>2, <1>3, <1>4, <1>5, <1>6, <1>7, <1>8, <1>9 DEF Next, Run

LEMMA GaugeNext == TypeOK /\ GaugeAgrees /\ [Next]_vars => GaugeAgrees'
<1> SUFFICES ASSUME TypeOK, GaugeAgrees, [Next]_vars PROVE GaugeAgrees'
  OBVIOUS
<1> USE ClientsAreSome, LimitsAssumption DEF GaugeAgrees, TypeOK
<1>1. CASE StartCrawl \/ Wake \/ Redirect \/ FetchNothing \/ FetchReferences \/ EndProcessing
  BY <1>1 DEF StartCrawl, Wake, Redirect, FetchNothing, FetchReferences, EndProcessing
<1>2. CASE TakeTask
  BY <1>2 DEF TakeTask, Delay, Exhausted
<1>3. CASE Reuse
  <2>1. client # None /\ client' # None
    <3>1. client \in Client
      BY <1>3 DEF Reuse, Usable
    <3>2. client' = client \/ client' = [capacity |-> client.capacity, used |-> client.used + Cost]
      BY <1>3, <3>1 DEF Reuse
    <3> QED
      BY <1>3, <3>1, <3>2, NoClientAssumption DEF Usable, Reuse, Cost
  <2> QED
    BY <2>1, <1>3 DEF Reuse
<1>4. CASE OpenClient
  <2>1. client' \in Client
    BY <1>4 DEF OpenClient, Cost
  <2> QED
    BY <2>1, <1>4 DEF OpenClient
<1>5. CASE OpenClientFails
  BY <1>5 DEF OpenClientFails
<1>6. ASSUME NEW url \in Urls, Add(url) PROVE GaugeAgrees'
  BY <1>6 DEF Add
<1>7. CASE UNCHANGED vars
  BY <1>7 DEF vars
<1> QED
  BY <1>1, <1>2, <1>3, <1>4, <1>5, <1>6, <1>7 DEF Next, Run

\* What a request does to the client: it is there after it, and its capacity
\* has not been exceeded.
LEMMA ReuseClient ==
    ASSUME TypeOK, Reuse
    PROVE  /\ client' # None /\ client # None
           /\ client'.capacity # 0 => client'.used <= client'.capacity
<1>1. client \in Client /\ client # None
  BY DEF Reuse, Usable, TypeOK
<1>2. CASE client.capacity = 0
  BY <1>1, <1>2 DEF Reuse
<1>3. CASE client.capacity # 0
  <2>1. client' = [capacity |-> client.capacity, used |-> client.used + Cost]
    BY <1>1, <1>3, ClientsAreSome DEF Reuse
  <2>2. client.used + Cost \in Nat /\ client.used + Cost <= client.capacity
    BY <1>1, <1>3, ClientsAreSome, LimitsAssumption DEF Reuse, Usable, Cost
  <2>3. client.capacity \in Nat
    BY <1>1, ClientsAreSome
  <2>4. client' \in [capacity : Nat, used : Nat]
    BY <2>1, <2>2, <2>3
  <2> QED
    BY <1>1, <2>1, <2>2, <2>4, NoClientAssumption
<1> QED
  BY <1>2, <1>3

LEMMA OpenedClient ==
    ASSUME TypeOK, OpenClient
    PROVE  /\ client' # None
           /\ client'.capacity # 0 => client'.used <= client'.capacity
<1>1. PICK capacity \in Capacities : client' = [capacity |-> capacity, used |-> Cost]
  BY DEF OpenClient
<1>2. client' \in Client
  BY <1>1, ClientsAreSome, LimitsAssumption DEF Cost
<1> QED
  BY <1>1, <1>2, ClientsAreSome, LimitsAssumption DEF Capacities, Cost

LEMMA ClientNext == TypeOK /\ QueueInv /\ ClientInv /\ [Next]_vars => ClientInv'
<1> SUFFICES ASSUME TypeOK, QueueInv, ClientInv, [Next]_vars PROVE ClientInv'
  OBVIOUS
<1> USE DEF ClientInv, Exhausted, Delayed
<1>1. CASE StartCrawl
  BY <1>1 DEF StartCrawl
<1>2. CASE TakeTask
  BY <1>2 DEF TakeTask, Delay
<1>3. CASE Wake
  BY <1>3 DEF Wake
<1>4. CASE Redirect \/ FetchNothing \/ FetchReferences \/ EndProcessing
  BY <1>4 DEF Redirect, FetchNothing, FetchReferences, EndProcessing
<1>5. CASE Reuse
  BY <1>5, ReuseClient DEF Reuse
<1>6. CASE OpenClient
  BY <1>6, OpenedClient DEF OpenClient
<1>7. CASE OpenClientFails
  BY <1>7 DEF OpenClientFails
<1>8. ASSUME NEW url \in Urls, Add(url) PROVE ClientInv'
  BY <1>8 DEF Add
<1>9. CASE UNCHANGED vars
  BY <1>9 DEF vars
<1> QED
  BY <1>1, <1>2, <1>3, <1>4, <1>5, <1>6, <1>7, <1>8, <1>9 DEF Next, Run

\* A request without a delay can always use the client: what it costs is
\* nothing, and the capacity has not been exceeded.
LEMMA UsableClients == TypeOK /\ QueueInv /\ ClientInv => ZeroCostReuses /\ DroppedBeforeDelay
<1> SUFFICES ASSUME TypeOK, QueueInv, ClientInv, pc = "requesting", client # None PROVE Usable
  BY DEF ZeroCostReuses, DroppedBeforeDelay, QueueInv, Delayed
<1>1. client \in Client /\ client.capacity \in Nat /\ client.used \in Nat
  BY ClientsAreSome, LimitsAssumption DEF TypeOK
<1> QED
  BY <1>1 DEF ClientInv, Usable, Cost, Exhausted, Delayed

-----------------------------------------------------------------------------
(* The order of the queue *)

LEMMA QueueNext == TypeOK /\ QueueInv /\ ClientInv /\ [Next]_vars => QueueInv'
<1> SUFFICES ASSUME TypeOK, QueueInv, ClientInv, [Next]_vars PROVE QueueInv'
  OBVIOUS
<1>0. queue \in Seq(Task) /\ Len(queue) \in Nat /\ task \in Task
  BY DEF TypeOK
<1>1. CASE StartCrawl
  BY <1>0, <1>1 DEF StartCrawl, QueueInv, SitemapTask, Delayed
<1>2. CASE TakeTask
  <2>1. /\ queue # <<>> /\ Len(queue) \in Nat \ {0} /\ task' = queue[1]
        /\ Len(queue') = Len(queue) - 1
        /\ \A i \in 1..Len(queue') : queue'[i] = queue[i + 1]
    BY <1>0, <1>2, HeadTail DEF TakeTask
  <2>2. \A i \in 1..Len(queue'), j \in 1..Len(queue') :
            i < j /\ Delayed(queue'[i]) => Delayed(queue'[j])
    BY <2>1 DEF QueueInv
  <2>3. Delayed(task') => \A i \in 1..Len(queue') : Delayed(queue'[i])
    BY <2>1 DEF QueueInv
  <2>4. (\E i \in 1..Len(queue) : ~Delayed(queue[i])) => client # None
    BY DEF QueueInv
  <2>5. CASE ~Delayed(task')
    <3>1. client' = client /\ pc' = "requesting"
      BY <1>2, <2>5 DEF TakeTask, Delayed
    <3>2. client # None
      BY <2>1, <2>4, <2>5
    <3> QED
      BY <2>2, <2>5, <3>1, <3>2 DEF QueueInv, Delayed
  <2>6. CASE Delayed(task')
    <3>1. pc' = "sleeping"
      BY <1>2, <2>6 DEF TakeTask, Delayed
    <3> QED
      BY <2>2, <2>3, <2>6, <3>1 DEF QueueInv, Delayed
  <2> QED
    BY <2>5, <2>6
<1>3. CASE Wake
  BY <1>3 DEF Wake, QueueInv, Delayed
<1>4. CASE Redirect \/ FetchNothing \/ FetchReferences \/ EndProcessing
  BY <1>4 DEF Redirect, FetchNothing, FetchReferences, EndProcessing, QueueInv, Delayed
<1>5. CASE Reuse
  BY <1>5, ReuseClient DEF Reuse, QueueInv, Delayed
<1>6. CASE OpenClient
  BY <1>6, OpenedClient DEF OpenClient, QueueInv, Delayed
<1>7. CASE OpenClientFails
  <2>1. Delayed(task)
    BY <1>7, UsableClients DEF OpenClientFails, ZeroCostReuses, Delayed
  <2> QED
    BY <1>7, <2>1 DEF OpenClientFails, QueueInv, Delayed
<1>8. ASSUME NEW url \in Urls, Add(url) PROVE QueueInv'
  <2>1. PICK delay \in ReferenceDelays :
            queue' = Queued([url |-> url, delay |-> delay,
                             kind |-> IF adding = "sitemaps" THEN "sitemap" ELSE "page"])
    BY <1>8 DEF Add
  <2> DEFINE t == [url |-> url, delay |-> delay,
                   kind |-> IF adding = "sitemaps" THEN "sitemap" ELSE "page"]
  <2>2. t \in Task
    BY DEF Task, ReferenceDelays, TypeOK, Delays
  <2>3. queue' = Queued(t)
    BY <2>1
  <2> HIDE DEF t
  <2>4. client # None /\ client' = client /\ pc' = "processing"
    BY <1>8 DEF Add, QueueInv
  <2>5. \A i \in 1..Len(queue), j \in 1..Len(queue) :
            i < j /\ Delayed(queue[i]) => Delayed(queue[j])
    BY DEF QueueInv
  <2>6. \A i \in 1..Len(queue'), j \in 1..Len(queue') :
            i < j /\ Delayed(queue'[i]) => Delayed(queue'[j])
    <3>1. Len(queue') = Len(queue) + 1
      BY <1>0, <2>2, <2>3, QueuedElements
    <3>2. CASE Delayed(t)
      <4>1. \A i \in 1..Len(queue') :
                queue'[i] = IF i = Len(queue) + 1 THEN t ELSE queue[i]
        BY <1>0, <2>2, <2>3, <3>2, QueuedElements
      <4> QED
        BY <1>0, <2>5, <3>1, <3>2, <4>1
    <3>3. CASE ~Delayed(t)
      <4>1. \A i \in 1..Len(queue') :
                queue'[i] = IF i = 1 THEN t ELSE queue[i - 1]
        BY <1>0, <2>2, <2>3, <3>3, QueuedElements
      <4> QED
        BY <1>0, <2>5, <3>1, <3>3, <4>1
    <3> QED
      BY <3>2, <3>3
  <2> QED
    BY <2>4, <2>6 DEF QueueInv
<1>9. CASE UNCHANGED vars
  BY <1>9 DEF vars, QueueInv, Delayed
<1> QED
  BY <1>1, <1>2, <1>3, <1>4, <1>5, <1>6, <1>7, <1>8, <1>9 DEF Next, Run

-----------------------------------------------------------------------------
(* Once in a crawl *)

LEMMA OnceNext == TypeOK /\ OnceInv /\ [Next]_vars => OnceInv'
<1> SUFFICES ASSUME TypeOK, OnceInv, [Next]_vars PROVE OnceInv'
  OBVIOUS
<1>0. queue \in Seq(Task) /\ Len(queue) \in Nat /\ task \in Task
  BY DEF TypeOK
<1>1. CASE StartCrawl
  <2>1. IsFiniteSet({SitemapUrl}) /\ Cardinality({SitemapUrl}) = 1
    BY FS_Singleton
  <2>2. crawled' = {SitemapUrl} /\ visited' = {} /\ Len(queue') = 0 /\ task'.url = SitemapUrl
    BY <1>1 DEF StartCrawl, SitemapTask
  <2> QED
    BY <2>1, <2>2, LimitsAssumption DEF OnceInv
<1>2. CASE TakeTask
  <2>1. /\ queue # <<>> /\ Len(queue) \in Nat \ {0} /\ task' = queue[1]
        /\ Len(queue') = Len(queue) - 1
        /\ \A i \in 1..Len(queue') : queue'[i] = queue[i + 1]
    BY <1>0, <1>2, HeadTail DEF TakeTask
  <2>2. UNCHANGED <<crawled, visited>>
    BY <1>2 DEF TakeTask, traffic
  <2>3. /\ \A i \in 1..Len(queue') : queue'[i].url \in crawled \ visited
        /\ task'.url \in crawled \ visited
    BY <2>1 DEF OnceInv
  <2>4. /\ \A i \in 1..Len(queue'), j \in 1..Len(queue') :
               i # j => queue'[i].url # queue'[j].url
        /\ \A i \in 1..Len(queue') : queue'[i].url # task'.url
    BY <2>1 DEF OnceInv
  <2> QED
    BY <2>2, <2>3, <2>4 DEF OnceInv
<1>3. CASE Wake
  BY <1>3 DEF Wake, OnceInv, traffic
<1>4. CASE Redirect \/ FetchNothing \/ FetchReferences \/ EndProcessing
  BY <1>4 DEF Redirect, FetchNothing, FetchReferences, EndProcessing, OnceInv, traffic
<1>5. CASE Reuse \/ OpenClient
  <2>1. /\ pc = "requesting" /\ pc' = "fetching" /\ visited' = visited \cup {task.url}
        /\ UNCHANGED <<queue, crawled, task>>
    BY <1>5 DEF Reuse, OpenClient, Sent
  <2> QED
    BY <2>1 DEF OnceInv
<1>6. CASE OpenClientFails
  BY <1>6 DEF OpenClientFails, OnceInv, traffic
<1>7. ASSUME NEW url \in Urls, Add(url) PROVE OnceInv'
  <2>1. PICK delay \in ReferenceDelays :
            queue' = Queued([url |-> url, delay |-> delay,
                             kind |-> IF adding = "sitemaps" THEN "sitemap" ELSE "page"])
    BY <1>7 DEF Add
  <2> DEFINE t == [url |-> url, delay |-> delay,
                   kind |-> IF adding = "sitemaps" THEN "sitemap" ELSE "page"]
  <2>2. t \in Task /\ t.url = url
    BY DEF Task, ReferenceDelays, TypeOK, Delays
  <2>3. queue' = Queued(t)
    BY <2>1
  <2> HIDE DEF t
  <2>4. /\ pc' = "processing" /\ visited' = visited /\ crawled' = crawled \cup {url}
        /\ url \notin crawled /\ Cardinality(crawled') <= MaxResources
    BY <1>7 DEF Add, Allowed, traffic
  <2>5. IsFiniteSet(crawled') /\ visited \subseteq crawled /\ url \notin visited
    BY <2>4, FS_AddElement DEF OnceInv
  <2>6. /\ \A i \in 1..Len(queue) : queue[i].url \in crawled \ visited
        /\ \A i \in 1..Len(queue), j \in 1..Len(queue) : i # j => queue[i].url # queue[j].url
    BY DEF OnceInv
  <2>7. Len(queue') = Len(queue) + 1
    BY <1>0, <2>2, <2>3, QueuedElements
  <2>8. PICK k \in {1, Len(queue) + 1} :
            \A i \in 1..Len(queue') :
                queue'[i] = IF i = k THEN t ELSE IF i < k THEN queue[i] ELSE queue[i - 1]
    <3>1. CASE Delayed(t)
      BY <1>0, <2>2, <2>3, <2>7, <3>1, QueuedElements
    <3>2. CASE ~Delayed(t)
      BY <1>0, <2>2, <2>3, <2>7, <3>2, QueuedElements
    <3> QED
      BY <3>1, <3>2
  <2>9. \A i \in 1..Len(queue') : queue'[i].url \in crawled' \ visited'
    BY <1>0, <2>2, <2>4, <2>5, <2>6, <2>7, <2>8
  <2>10. \A i \in 1..Len(queue'), j \in 1..Len(queue') :
             i # j => queue'[i].url # queue'[j].url
    <3> SUFFICES ASSUME NEW i \in 1..Len(queue'), NEW j \in 1..Len(queue'), i # j
                 PROVE  queue'[i].url # queue'[j].url
      OBVIOUS
    <3> DEFINE old(n) == IF n < k THEN n ELSE n - 1
    <3>1. \A n \in 1..Len(queue') :
              n # k => old(n) \in 1..Len(queue) /\ queue'[n] = queue[old(n)]
      BY <1>0, <2>7, <2>8
    <3>2. i # k /\ j # k => old(i) # old(j)
      BY <1>0, <2>7
    <3>3. queue'[k] = t
      BY <1>0, <2>7, <2>8
    <3>4. \A n \in 1..Len(queue) : queue[n].url # url
      BY <2>4, <2>6
    <3> HIDE DEF old
    <3>5. CASE i = k
      BY <2>2, <3>1, <3>3, <3>4, <3>5
    <3>6. CASE j = k
      BY <2>2, <3>1, <3>3, <3>4, <3>6
    <3>7. CASE i # k /\ j # k
      BY <2>6, <3>1, <3>2, <3>7
    <3> QED
      BY <3>5, <3>6, <3>7
  <2> QED
    BY <2>4, <2>5, <2>9, <2>10 DEF OnceInv
<1>8. CASE UNCHANGED vars
  BY <1>8 DEF vars, OnceInv
<1> QED
  BY <1>1, <1>2, <1>3, <1>4, <1>5, <1>6, <1>7, <1>8 DEF Next, Run

-----------------------------------------------------------------------------
(* How many requests *)

LEMMA VisitEnds ==
    ASSUME NEW c \in Nat, NEW r \in 0..MaxRedirects, NEW n \in Nat,
           n <= (c - 1) * (1 + MaxRedirects) + 1 + r
    PROVE  n <= c * (1 + MaxRedirects)
<1>1. MaxRedirects \in Nat
  BY LimitsAssumption
<1>2. (c - 1) * (1 + MaxRedirects) = c * (1 + MaxRedirects) - (1 + MaxRedirects)
  BY <1>1
<1> DEFINE all == c * (1 + MaxRedirects)
<1>3. all \in Nat
  BY <1>1
<1> HIDE DEF all
<1>4. n <= all - (1 + MaxRedirects) + 1 + r
  BY <1>2 DEF all
<1>5. n <= all
  BY <1>1, <1>3, <1>4
<1> QED
  BY <1>5 DEF all

LEMMA RequestsNext == TypeOK /\ OnceInv /\ RequestsInv /\ [Next]_vars => RequestsInv'
<1> SUFFICES ASSUME TypeOK, OnceInv, RequestsInv, [Next]_vars PROVE RequestsInv'
  OBVIOUS
<1>0. /\ IsFiniteSet(visited) /\ Cardinality(visited) \in Nat
      /\ requests \in Nat /\ redirects \in 0..MaxRedirects /\ MaxRedirects \in Nat
  BY FS_Subset, FS_CardinalityType, LimitsAssumption DEF OnceInv, TypeOK
<1>1. CASE StartCrawl
  <2>1. requests' = 0 /\ visited' = {} /\ pc' = "sleeping"
    BY <1>1 DEF StartCrawl
  <2> QED
    BY <1>0, <2>1, FS_EmptySet DEF RequestsInv
<1>2. CASE TakeTask \/ Wake \/ OpenClientFails \/ EndProcessing
  BY <1>2 DEF TakeTask, Wake, OpenClientFails, EndProcessing, RequestsInv, traffic
<1>3. CASE Reuse \/ OpenClient
  <2>1. /\ pc = "requesting" /\ pc' = "fetching" /\ redirects' = 0
        /\ visited' = visited \cup {task.url}
        /\ requests' \in Nat /\ requests' <= requests + 1
    BY <1>0, <1>3, CountedRequest DEF Reuse, OpenClient, Sent
  <2>2. task.url \notin visited
    BY <2>1 DEF OnceInv
  <2>3. Cardinality(visited') = Cardinality(visited) + 1
    BY <1>0, <2>1, <2>2, FS_AddElement
  <2>4. requests <= Cardinality(visited) * (1 + MaxRedirects)
    BY <2>1 DEF RequestsInv
  <2> DEFINE base == Cardinality(visited) * (1 + MaxRedirects)
  <2>5. base \in Nat /\ (Cardinality(visited') - 1) * (1 + MaxRedirects) = base
    BY <1>0, <2>3
  <2>6. RequestsInv' <=> requests' <= base + 1 + 0
    BY <2>1, <2>5 DEF RequestsInv
  <2> HIDE DEF base
  <2>7. requests <= base
    BY <2>4 DEF base
  <2> QED
    BY <1>0, <2>1, <2>5, <2>6, <2>7
<1>4. CASE Redirect
  <2> DEFINE base == (Cardinality(visited) - 1) * (1 + MaxRedirects)
  <2>1. base \in Int
    BY <1>0
  <2>2. requests <= base + 1 + redirects
    BY <1>4 DEF Redirect, RequestsInv
  <2>3. /\ pc' = "fetching" /\ visited' = visited
        /\ requests' \in Nat /\ requests' <= requests + 1 /\ redirects' = redirects + 1
    BY <1>0, <1>4, CountedRequest DEF Redirect
  <2>4. RequestsInv' <=> requests' <= base + 1 + redirects'
    BY <2>3 DEF RequestsInv
  <2> HIDE DEF base
  <2> QED
    BY <1>0, <2>1, <2>2, <2>3, <2>4
<1>5. CASE FetchNothing \/ FetchReferences
  <2>1. /\ pc = "fetching" /\ pc' # "fetching"
        /\ requests' = requests /\ visited' = visited
    BY <1>5 DEF FetchNothing, FetchReferences, traffic
  <2>2. requests <= (Cardinality(visited) - 1) * (1 + MaxRedirects) + 1 + redirects
    BY <2>1 DEF RequestsInv
  <2>3. requests <= Cardinality(visited) * (1 + MaxRedirects)
    BY <1>0, <2>2, VisitEnds
  <2> QED
    BY <2>1, <2>3 DEF RequestsInv
<1>6. ASSUME NEW url \in Urls, Add(url) PROVE RequestsInv'
  BY <1>6 DEF Add, RequestsInv, traffic
<1>7. CASE UNCHANGED vars
  BY <1>7 DEF vars, RequestsInv
<1> QED
  BY <1>1, <1>2, <1>3, <1>4, <1>5, <1>6, <1>7 DEF Next, Run

\* A crawl visits no more than it knows.
LEMMA RequestsAreBounded ==
    TypeOK /\ OnceInv /\ RequestsInv => requests <= MaxRequests
<1> SUFFICES ASSUME TypeOK, OnceInv, RequestsInv
             PROVE  requests <= MaxRequests
  OBVIOUS
<1>1. /\ Cardinality(visited) \in Nat /\ Cardinality(crawled) \in Nat
      /\ Cardinality(visited) <= Cardinality(crawled)
      /\ requests \in Nat /\ redirects \in 0..MaxRedirects
      /\ MaxRedirects \in Nat /\ MaxResources \in Nat
  BY FS_Subset, FS_CardinalityType, LimitsAssumption DEF OnceInv, TypeOK
<1>2. requests <= Cardinality(visited) * (1 + MaxRedirects)
  <2>1. CASE pc = "fetching"
    BY <1>1, <2>1, VisitEnds DEF RequestsInv
  <2>2. CASE pc # "fetching"
    BY <2>2 DEF RequestsInv
  <2> QED
    BY <2>1, <2>2
<1>3. Cardinality(visited) <= MaxResources
  BY <1>1 DEF OnceInv
<1>4. ASSUME NEW m \in Nat, NEW n \in Nat, NEW k \in Nat, m <= n PROVE m * k <= n * k
  <2>1. (n - m) * k >= 0
    BY <1>4
  <2>2. (n - m) * k = n * k - m * k
    BY <1>4
  <2>3. m * k \in Nat /\ n * k \in Nat
    BY <1>4
  <2> QED
    BY <2>1, <2>2, <2>3
<1>5. Cardinality(visited) * (1 + MaxRedirects) <= MaxResources * (1 + MaxRedirects)
  BY <1>1, <1>3, <1>4
<1>6. MaxRequests = MaxResources * (1 + MaxRedirects)
  BY DEF MaxRequests
<1> QED
  BY <1>1, <1>2, <1>5, <1>6

\* Different queued tasks are known by different resources.
LEMMA CrawlIsBounded == TypeOK /\ OnceInv /\ RequestsInv => CrawlBounded
<1> SUFFICES ASSUME TypeOK, OnceInv, RequestsInv PROVE CrawlBounded
  OBVIOUS
<1> DEFINE place == [i \in 1..Len(queue) |-> queue[i].url]
<1>1. Len(queue) \in Nat
  BY DEF TypeOK
<1>2. place \in Injection(1..Len(queue), crawled)
  BY DEF OnceInv, Injection, IsInjective
<1>3. Cardinality(1..Len(queue)) <= Cardinality(crawled)
  BY <1>2, FS_Injection DEF OnceInv
<1>4. Cardinality(1..Len(queue)) = Len(queue)
  <2>1. Cardinality(1..Len(queue)) = IF 1 > Len(queue) THEN 0 ELSE Len(queue) - 1 + 1
    BY <1>1, FS_Interval
  <2> QED
    BY <1>1, <2>1
<1>5. Cardinality(crawled) \in Nat
  BY FS_CardinalityType DEF OnceInv
<1> QED
  BY <1>1, <1>3, <1>4, <1>5, RequestsAreBounded, LimitsAssumption DEF OnceInv, CrawlBounded

-----------------------------------------------------------------------------

LEMMA Invariant == Spec => [](TypeOK /\ CrawlerInv)
<1>1. Init => TypeOK /\ CrawlerInv
  <2> SUFFICES ASSUME Init PROVE TypeOK /\ CrawlerInv
    OBVIOUS
  <2>1. TypeOK
    BY SiteAssumption, LimitsAssumption DEF Init, TypeOK, SitemapTask, Task, Delays
  <2>2. Len(queue) = 0
    BY DEF Init
  <2>3. IsFiniteSet({}) /\ Cardinality({}) = 0
    BY FS_EmptySet
  <2> QED
    BY <2>1, <2>2, <2>3, LimitsAssumption DEF Init, CrawlerInv, QueueInv, ClientInv, Exhausted,
       OnceInv, GaugeAgrees, RequestsInv
<1>2. TypeOK /\ CrawlerInv /\ [Next]_vars => (TypeOK /\ CrawlerInv)'
  BY TypeNext, GaugeNext, ClientNext, QueueNext, OnceNext, RequestsNext DEF CrawlerInv
<1> QED
  BY <1>1, <1>2, PTL DEF Spec

\* Every state has its type, whatever the site and the limits are.
THEOREM TypeCorrect == Spec => []TypeOK
BY Invariant, PTL

\* Neither the queue nor the set of known resources grows beyond the limit,
\* and a crawl sends no more requests than the limit and the redirects allow.
THEOREM CrawlStaysBounded == Spec => []CrawlBounded
<1>1. TypeOK /\ CrawlerInv => CrawlBounded
  BY CrawlIsBounded DEF CrawlerInv
<1> QED
  BY <1>1, Invariant, PTL

\* No resource is the task of two requests in a crawl.
THEOREM NothingIsVisitedTwice == Spec => []VisitedOnce
<1>1. TypeOK /\ CrawlerInv => VisitedOnce
  BY DEF CrawlerInv, OnceInv, VisitedOnce
<1> QED
  BY <1>1, Invariant, PTL

\* A request without a delay finds a client that it can use, and a request
\* with one never finds a client that it cannot use.
THEOREM ClientsAreUsable == Spec => []RequestsAreUsable
<1>1. TypeOK /\ CrawlerInv => RequestsAreUsable
  BY UsableClients DEF CrawlerInv, RequestsAreUsable
<1> QED
  BY <1>1, Invariant, PTL

\* The metric of active connections is right in every state.
THEOREM GaugeIsRight == Spec => []GaugeAgrees
<1>1. TypeOK /\ CrawlerInv => GaugeAgrees
  BY DEF CrawlerInv
<1> QED
  BY <1>1, Invariant, PTL
=============================================================================
