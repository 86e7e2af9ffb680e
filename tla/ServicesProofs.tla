--------------------------- MODULE ServicesProofs ---------------------------
(***************************************************************************)
(* What three services without a database of jobs between them keep:       *)
(* website ingestion, for any site, limits and failures of the calls of a  *)
(* stage; the RAG backend, for any requests, questions, roles and limits;  *)
(* and evaluation runs, for any processes, data sets, policies, answers    *)
(* and earlier reports.                                                    *)
(*                                                                         *)
(* Website. The crawl is recursive twice, over the redirections of a link  *)
(* and over the links of a page; RecursionDefines says that the recursive  *)
(* functions of WebsiteCrawl are what they say, and CrawlInv what the      *)
(* queue, the visited pages and the documents have in common (Faithful,    *)
(* Linked). IngestionInv adds what a stage knows of the job's row after    *)
(* calls that raised, whose effects are unknown (RowKnown).                *)
(*                                                                         *)
(* Backend. RagInv says of the window of requests that nobody younger than *)
(* a minute is missing in it (RateKept); of query_cache that each thread   *)
(* about to insert has left room for one more (QueriesBounded); of the     *)
(* thread of a request that it writes the log and the cache only while its *)
(* handler waits, the log first (ChatSound); and of a cached answer that   *)
(* it was audited, and for whom (RepliesSound).                            *)
(*                                                                         *)
(* Evaluation. EvaluationInv says that a report with a process's identity  *)
(* is under the name that process was to save it by, once it is past       *)
(* publishing (OwnReport), and that what a process has said to be saved is *)
(* its own report or that of a command told to overwrite it (Kept).        *)
(* GateInv says of every finished run that it is what its answers make it, *)
(* of every report that it has scores, and of the code that it is the      *)
(* run's or the comparison's (Coded). What these codes mean is a matter of *)
(* the scores alone: ExitMeans for one run, from what a status says of the *)
(* answer (CaseJudged); RegressedMeans for two, from what a fall of a mean *)
(* and a policy's thresholds have in common (FellMeans).                   *)
(***************************************************************************)
EXTENDS EvaluationRuns, WebsiteIngestion, RagBackend,
        WellFoundedInduction, FiniteSetTheorems, SequenceTheorems, TLAPS

-----------------------------------------------------------------------------
(* Recursion over 0 .. N *)

\* The natural numbers are well ordered.
LEMMA LeastNumber ==
    ASSUME NEW T \in SUBSET Nat, T # {}
    PROVE  \E m \in T : \A k \in T : m <= k
  <1> DEFINE Less == {p \in Nat \X Nat : p[1] < p[2]}
  <1>1. IsWellFoundedOn(Less, Nat)
    BY NatLessThanWellFounded DEF OpToRel
  <1>2. \A k, m \in Nat : k < m => <<k, m>> \in Less
    OBVIOUS
  <1>3. PICK m \in T : \A k \in T : ~(<<k, m>> \in Less)
    <2> HIDE DEF Less
    <2> QED
      BY <1>1, WFMin
  <1> HIDE DEF Less
  <1>4. ASSUME NEW k \in T PROVE m <= k
    <2>1. k \in Nat /\ m \in Nat
      OBVIOUS
    <2>2. ~(k < m)
      BY <1>2, <1>3, <2>1, Zenon
    <2> QED
      BY <2>1, <2>2
  <1> QED
    BY <1>4

\* Induction, about a set.
LEMMA UpTo ==
    ASSUME NEW N \in Nat, NEW S, 0 \in S,
           \A n \in 1 .. N : n - 1 \in S => n \in S
    PROVE  0 .. N \subseteq S
  <1> DEFINE Out == {n \in 0 .. N : n \notin S}
  <1>1. SUFFICES ASSUME Out # {} PROVE FALSE
    OBVIOUS
  <1>2. PICK m \in Out : \A k \in Out : m <= k
    <2>1. Out \in SUBSET Nat
      OBVIOUS
    <2> HIDE DEF Out
    <2> QED
      BY <1>1, <2>1, LeastNumber
  <1>3. m \in 1 .. N /\ m - 1 \notin Out
    BY <1>2
  <1> QED
    BY <1>2, <1>3

\* f is what the recursive definition with this base and these steps says, up to N.
Follows(f, N, base, step) == f[0] = base /\ \A i \in 1 .. N : f[i] = step[i][f[i - 1]]

\* There is such a function, so that CHOOSE, which a recursive definition stands
\* for, finds one.
LEMMA RecursionDefines ==
    ASSUME NEW N \in Nat, NEW X, NEW base \in X, NEW step \in [1 .. N -> [X -> X]]
    PROVE  \E f \in [0 .. N -> X] : Follows(f, N, base, step)
  <1> USE DEF Follows
  <1> DEFINE Defines(f, n) == f \in [0 .. n -> X] /\ Follows(f, n, base, step)
             S == {n \in 0 .. N : \E f : Defines(f, n)}
  <1>1. 0 \in S
    <2>1. PICK f : f = [i \in 0 .. 0 |-> base]
      OBVIOUS
    <2>2. f \in [0 .. 0 -> X] /\ f[0] = base
      BY <2>1
    <2>3. Defines(f, 0)
      BY <2>2
    <2> QED
      BY <2>3
  <1>2. ASSUME NEW n \in 1 .. N, n - 1 \in S PROVE n \in S
    <2>1. PICK f : Defines(f, n - 1)
      BY <1>2
    <2>2. n \in 0 .. N /\ n - 1 \in 0 .. n - 1 /\ step[n][f[n - 1]] \in X
      BY <2>1
    <2> DEFINE g == [i \in 0 .. n |-> IF i = n THEN step[n][f[n - 1]] ELSE f[i]]
    <2>3. g \in [0 .. n -> X] /\ g[0] = base
      BY <2>1, <2>2
    <2>4. ASSUME NEW i \in 1 .. n PROVE g[i] = step[i][g[i - 1]]
      BY <2>1, <2>4
    <2>5. Defines(g, n)
      BY <2>3, <2>4
    <2> QED
      BY <2>2, <2>5
  <1>3. 0 .. N \subseteq S
    <2> HIDE DEF S
    <2> QED
      BY <1>1, <1>2, UpTo
  <1> QED
    BY <1>3

-----------------------------------------------------------------------------
(* The crawl: where downloads end, and what waits in the queue             *)

\* A download ends at a page of an allowed origin, and one of such a page there.
LEMMA Destinations ==
    ASSUME site \in [Urls -> Pages], NEW origins
    PROVE  \A u \in Urls :
              /\ Destination(u, origins) # Nowhere =>
                    /\ Destination(u, origins) \in Urls
                    /\ OriginOf[Destination(u, origins)] \in origins
                    /\ site[Destination(u, origins)].to = Nowhere
              /\ OriginOf[u] \in origins /\ site[u].to = Nowhere => Destination(u, origins) = u
  <1> DEFINE X == {g \in [Urls -> Urls \union {Nowhere}] :
                     \A u \in Urls :
                        /\ g[u] # Nowhere => OriginOf[g[u]] \in origins /\ site[g[u]].to = Nowhere
                        /\ OriginOf[u] \in origins /\ site[u].to = Nowhere => g[u] = u}
             base == [u \in Urls |-> IF ~Allowed(u, origins) THEN Nowhere
                                     ELSE IF site[u].to = Nowhere THEN u ELSE Nowhere]
             after(g) == [u \in Urls |-> IF ~Allowed(u, origins) THEN Nowhere
                                         ELSE IF site[u].to = Nowhere THEN u ELSE g[site[u].to]]
             IsHop(h) == h = [n \in 0 .. MaxRedirects |->
                                [u \in Urls |-> IF ~Allowed(u, origins) THEN Nowhere
                                                ELSE IF site[u].to = Nowhere THEN u
                                                ELSE IF n = 0 THEN Nowhere
                                                ELSE h[n - 1][site[u].to]]]
             Hop == CHOOSE h : IsHop(h)
  <1>1. base \in X
    BY CrawlAssumption DEF Pages, Allowed
  <1>2. ASSUME NEW g \in X PROVE after(g) \in X
    <2>1. \A u \in Urls : site[u].to \in Urls \union {Nowhere}
      BY DEF Pages
    <2>2. \A u \in Urls : after(g)[u] \in Urls \union {Nowhere}
      BY <2>1
    <2> QED
      BY <2>1, <2>2, CrawlAssumption DEF Allowed
  <1>3. MaxRedirects \in Nat
    BY CrawlAssumption
  <1>4. \E h : IsHop(h)
    <2>1. PICK G \in [X -> X] : \A g \in X : G[g] = after(g)
      <3>1. [g \in X |-> after(g)] \in [X -> X]
        BY <1>2
      <3> HIDE DEF X, after
      <3> QED
        BY <3>1
    <2>2. PICK step \in [1 .. MaxRedirects -> [X -> X]] : \A n \in 1 .. MaxRedirects : step[n] = G
      <3> HIDE DEF X
      <3>1. [n \in 1 .. MaxRedirects |-> G] \in [1 .. MaxRedirects -> [X -> X]]
        OBVIOUS
      <3> QED
        BY <3>1
    <2>3. PICK f \in [0 .. MaxRedirects -> X] : Follows(f, MaxRedirects, base, step)
      <3> HIDE DEF X, base
      <3> QED
        BY <1>1, <1>3, RecursionDefines
    <2> DEFINE short(n) == IF n = 0 THEN base ELSE after(f[n - 1])
               long(n) == [u \in Urls |-> IF ~Allowed(u, origins) THEN Nowhere
                                          ELSE IF site[u].to = Nowhere THEN u
                                          ELSE IF n = 0 THEN Nowhere
                                          ELSE f[n - 1][site[u].to]]
    <2>4. f = [n \in 0 .. MaxRedirects |-> short(n)]
      <3> HIDE DEF X, base, after
      <3>1. ASSUME NEW n \in 1 .. MaxRedirects PROVE f[n] = after(f[n - 1])
        <4>1. n - 1 \in 0 .. MaxRedirects
          BY <1>3
        <4> QED
          BY <2>1, <2>2, <2>3, <4>1 DEF Follows
      <3>2. \A n \in 0 .. MaxRedirects : f[n] = short(n)
        BY <1>3, <2>3, <3>1 DEF Follows
      <3> HIDE DEF short
      <3> QED
        BY <3>2
    <2>5. \A n \in 0 .. MaxRedirects : short(n) = long(n)
      OBVIOUS
    <2>6. f = [n \in 0 .. MaxRedirects |-> long(n)]
      <3> HIDE DEF short, long
      <3> QED
        BY <2>4, <2>5
    <2>7. IsHop(f)
      BY <2>6
    <2> HIDE DEF IsHop
    <2> QED
      BY <2>7
  <1>5. IsHop(Hop)
    <2> HIDE DEF IsHop
    <2> QED
      BY <1>4
  <1>6. \A u : Destination(u, origins) = Hop[MaxRedirects][u]
    BY DEF Destination
  <1>7. Hop[0] = base /\ \A n \in 1 .. MaxRedirects : Hop[n] = after(Hop[n - 1])
    <2>1. PICK h : h = Hop
      OBVIOUS
    <2> HIDE DEF Hop
    <2>2. IsHop(h)
      BY <1>5, <2>1
    <2>3. h[0] = base
      BY <1>3, <2>2
    <2>4. ASSUME NEW n \in 1 .. MaxRedirects PROVE h[n] = after(h[n - 1])
      <3>1. n \in 0 .. MaxRedirects /\ n # 0
        BY <1>3
      <3>2. PICK g : g = h[n - 1]
        OBVIOUS
      <3>3. h[n] = [u \in Urls |-> IF ~Allowed(u, origins) THEN Nowhere
                                  ELSE IF site[u].to = Nowhere THEN u
                                  ELSE IF n = 0 THEN Nowhere ELSE g[site[u].to]]
        BY <2>2, <3>1, <3>2
      <3> QED
        BY <3>1, <3>2, <3>3
    <2> QED
      BY <2>1, <2>3, <2>4
  <1>8. Hop[MaxRedirects] \in X
    <2> HIDE DEF X, base, Hop
    <2> DEFINE S == {n \in 0 .. MaxRedirects : Hop[n] \in X}
    <2>1. 0 \in S
      BY <1>1, <1>3, <1>7
    <2>2. \A n \in 1 .. MaxRedirects : n - 1 \in S => n \in S
      <3> HIDE DEF after
      <3> QED
        BY <1>2, <1>7
    <2>3. 0 .. MaxRedirects \subseteq S
      <3> HIDE DEF S
      <3> QED
        BY <1>3, <2>1, <2>2, UpTo
    <2> QED
      BY <1>3, <2>3
  <1> HIDE DEF Hop
  <1>9. PICK g \in X : g = Hop[MaxRedirects]
    BY <1>8
  <1>10. \A u \in Urls : g[u] # Nowhere => g[u] \in Urls
    BY <1>9
  <1> QED
    BY <1>6, <1>9, <1>10

LEMMA ElementsOf ==
    ASSUME NEW S, NEW s \in Seq(S)
    PROVE  /\ ToSet(s) \subseteq S
           /\ \A e \in S : ToSet(Append(s, e)) = ToSet(s) \union {e}
           /\ s # <<>> => /\ Head(s) \in S /\ Tail(s) \in Seq(S)
                          /\ ToSet(s) = {Head(s)} \union ToSet(Tail(s))
  <1>1. ToSet(s) \subseteq S
    BY DEF ToSet
  <1>2. ASSUME NEW e \in S PROVE ToSet(Append(s, e)) = ToSet(s) \union {e}
    <2>1. DOMAIN s = 1 .. Len(s) /\ DOMAIN Append(s, e) = 1 .. Len(s) + 1 /\ Len(s) \in Nat
      OBVIOUS
    <2>2. Append(s, e)[Len(s) + 1] = e /\ \A i \in 1 .. Len(s) : Append(s, e)[i] = s[i]
      OBVIOUS
    <2> QED
      BY <2>1, <2>2 DEF ToSet
  <1>3. ASSUME s # <<>>
        PROVE  /\ Head(s) \in S /\ Tail(s) \in Seq(S)
               /\ ToSet(s) = {Head(s)} \union ToSet(Tail(s))
    <2>1. /\ Head(s) = s[1] /\ Head(s) \in S /\ Tail(s) \in Seq(S)
          /\ Len(s) \in Nat \ {0} /\ Len(Tail(s)) = Len(s) - 1
      BY <1>3
    <2>2. \A i \in 1 .. Len(s) - 1 : Tail(s)[i] = s[i + 1]
      BY <1>3
    <2>3. ASSUME NEW i \in 1 .. Len(s) PROVE i = 1 \/ (i - 1 \in 1 .. Len(s) - 1 /\ s[i] = Tail(s)[i - 1])
      BY <2>1, <2>2
    <2>4. DOMAIN s = 1 .. Len(s) /\ DOMAIN Tail(s) = 1 .. Len(s) - 1
      BY <2>1
    <2>5. ASSUME NEW e \in ToSet(s) PROVE e = Head(s) \/ e \in ToSet(Tail(s))
      <3>1. PICK i \in 1 .. Len(s) : e = s[i]
        BY <2>4 DEF ToSet
      <3> QED
        BY <2>1, <2>3, <2>4, <3>1 DEF ToSet
    <2>6. {Head(s)} \union ToSet(Tail(s)) \subseteq ToSet(s)
      BY <2>1, <2>2, <2>4 DEF ToSet
    <2> QED
      BY <2>1, <2>5, <2>6
  <1> QED
    BY <1>1, <1>2, <1>3

Crawls ==
    [documents : Seq(Urls), queue : Seq(Urls), seen : SUBSET Urls, skipped : SUBSET Urls,
     requested : Nat]

\* Nothing but what is seen and waits has changed, and that by the first n of links.
Extends(d, c, links, n, origin) ==
    /\ d \in Crawls
    /\ d.documents = c.documents /\ d.skipped = c.skipped /\ d.requested = c.requested
    /\ d.seen = c.seen \union {u \in Urls : OriginOf[u] = origin /\ \E i \in 1 .. n : u = links[i]}
    /\ ToSet(d.queue) \subseteq ToSet(c.queue) \union (d.seen \ c.seen)
    /\ ToSet(c.queue) \union (d.seen \ c.seen) \subseteq ToSet(d.queue)

LEMMA LinkEnqueued ==
    ASSUME NEW c \in Crawls, NEW links \in Seq(Urls), NEW origin, NEW n \in 1 .. Len(links),
           NEW d, Extends(d, c, links, n - 1, origin)
    PROVE  Extends(Enqueue(d, links[n], origin), c, links, n, origin)
  <1> DEFINE link == links[n]
             Seen(k) == {u \in Urls : OriginOf[u] = origin /\ \E i \in 1 .. k : u = links[i]}
  <1>1. link \in Urls /\ n \in 1 .. n /\ Len(links) \in Nat
    OBVIOUS
  <1>2. Seen(n) = Seen(n - 1) \union {u \in Urls : u = link /\ OriginOf[u] = origin}
    <2>1. \A i \in Nat : i \in 1 .. n <=> (i \in 1 .. n - 1 \/ i = n)
      BY <1>1
    <2> QED
      BY <1>1, <2>1
  <1>3. CASE OriginOf[link] # origin \/ link \in d.seen
    <2>1. Enqueue(d, link, origin) = d
      BY <1>3 DEF Enqueue
    <2>2. c.seen \union Seen(n) = c.seen \union Seen(n - 1)
      BY <1>2, <1>3 DEF Extends
    <2> QED
      BY <2>1, <2>2 DEF Extends
  <1>4. CASE OriginOf[link] = origin /\ link \notin d.seen
    <2> HIDE DEF link, Seen
    <2>1. PICK seen, queue : seen = d.seen \union {link} /\ queue = Append(d.queue, link)
      OBVIOUS
    <2>2. Enqueue(d, link, origin) = [d EXCEPT !.seen = seen, !.queue = queue]
      BY <1>4, <2>1 DEF Enqueue
    <2>3. /\ d.queue \in Seq(Urls) /\ queue \in Seq(Urls) /\ seen \in SUBSET Urls
          /\ ToSet(queue) = ToSet(d.queue) \union {link}
      <3>1. d.queue \in Seq(Urls) /\ d.seen \in SUBSET Urls
        BY DEF Extends, Crawls
      <3> QED
        BY <1>1, <2>1, <3>1, ElementsOf
    <2>4. PICK e : e = [d EXCEPT !.seen = seen, !.queue = queue]
      OBVIOUS
    <2>5. /\ e \in Crawls /\ e.seen = seen /\ e.queue = queue
          /\ e.documents = d.documents /\ e.skipped = d.skipped /\ e.requested = d.requested
      BY <2>3, <2>4 DEF Extends, Crawls
    <2>6. seen = c.seen \union Seen(n)
      BY <1>1, <1>2, <1>4, <2>1 DEF Extends, Seen
    <2>7. seen \ c.seen = (d.seen \ c.seen) \union {link}
      BY <1>4, <2>1 DEF Extends
    <2>8. Extends(e, c, links, n, origin)
      BY <2>3, <2>5, <2>6, <2>7 DEF Extends, Seen
    <2> QED
      BY <2>2, <2>4, <2>8 DEF link
  <1> QED
    BY <1>3, <1>4

\* The links of the origin are seen afterwards, and those not seen before wait.
LEMMA LinksEnqueued ==
    ASSUME site \in [Urls -> Pages], NEW c \in Crawls, NEW page \in Urls, NEW origin
    PROVE  Extends(EnqueueLinks(c, page, origin), c, site[page].links,
                   Len(site[page].links), origin)
  <1> DEFINE links == site[page].links
             IsFirst(h) == h = [n \in 0 .. Len(links) |->
                                  IF n = 0 THEN c ELSE Enqueue(h[n - 1], links[n], origin)]
             First == CHOOSE h : IsFirst(h)
  <1>1. links \in Seq(Urls) /\ Len(links) \in Nat
    BY DEF Pages
  <1>2. \A n \in 1 .. Len(links) : links[n] \in Urls
    BY <1>1
  <1>3. EnqueueLinks(c, page, origin) = First[Len(links)]
    BY DEF EnqueueLinks
  <1> HIDE DEF links
  <1>4. ASSUME NEW d \in Crawls, NEW u \in Urls PROVE Enqueue(d, u, origin) \in Crawls
    <2>1. d.queue \in Seq(Urls) /\ d.seen \in SUBSET Urls
      BY DEF Crawls
    <2>2. PICK seen, queue : seen = d.seen \union {u} /\ queue = Append(d.queue, u)
      OBVIOUS
    <2>3. queue \in Seq(Urls) /\ seen \in SUBSET Urls
      BY <2>1, <2>2
    <2>4. [d EXCEPT !.seen = seen, !.queue = queue] \in Crawls
      BY <2>3 DEF Crawls
    <2> QED
      BY <2>2, <2>4 DEF Enqueue
  <1>5. \E h : IsFirst(h)
    <2>1. PICK step \in [1 .. Len(links) -> [Crawls -> Crawls]] :
                 \A n \in 1 .. Len(links) : \A d \in Crawls :
                    step[n][d] = Enqueue(d, links[n], origin)
      <3> DEFINE s == [n \in 1 .. Len(links) |-> [d \in Crawls |-> Enqueue(d, links[n], origin)]]
      <3>1. s \in [1 .. Len(links) -> [Crawls -> Crawls]]
        BY <1>2, <1>4
      <3>2. \A n \in 1 .. Len(links) : \A d \in Crawls : s[n][d] = Enqueue(d, links[n], origin)
        OBVIOUS
      <3> QED
        BY <3>1, <3>2
    <2>2. PICK f \in [0 .. Len(links) -> Crawls] : Follows(f, Len(links), c, step)
      BY <1>1, RecursionDefines
    <2>3. ASSUME NEW n \in 0 .. Len(links)
          PROVE  f[n] = IF n = 0 THEN c ELSE Enqueue(f[n - 1], links[n], origin)
      <3>1. CASE n = 0
        BY <2>2, <3>1 DEF Follows
      <3>2. CASE n # 0
        <4>1. n \in 1 .. Len(links) /\ n - 1 \in 0 .. Len(links)
          BY <1>1, <3>2
        <4> QED
          BY <2>1, <2>2, <3>2, <4>1 DEF Follows
      <3> QED
        BY <3>1, <3>2
    <2>4. IsFirst(f)
      BY <2>3
    <2> HIDE DEF IsFirst
    <2> QED
      BY <2>4
  <1>6. IsFirst(First)
    <2> HIDE DEF IsFirst
    <2> QED
      BY <1>5
  <1>7. First[0] = c /\ \A n \in 1 .. Len(links) : First[n] = Enqueue(First[n - 1], links[n], origin)
    <2>1. PICK h : h = First
      OBVIOUS
    <2> HIDE DEF First
    <2>2. h[0] = c
      BY <1>1, <1>6, <2>1
    <2>3. ASSUME NEW n \in 1 .. Len(links) PROVE h[n] = Enqueue(h[n - 1], links[n], origin)
      <3>1. n \in 0 .. Len(links) /\ n # 0
        BY <1>1
      <3> QED
        BY <1>6, <2>1, <3>1
    <2> QED
      BY <2>1, <2>2, <2>3
  <1> HIDE DEF First
  <1> DEFINE S == {n \in 0 .. Len(links) : Extends(First[n], c, links, n, origin)}
  <1>8. 0 \in S
    <2>1. c.seen \subseteq Urls
      BY DEF Crawls
    <2>2. {u \in Urls : OriginOf[u] = origin /\ \E i \in 1 .. 0 : u = links[i]} = {}
      OBVIOUS
    <2> QED
      BY <1>1, <1>7, <2>1, <2>2 DEF Extends
  <1>9. \A n \in 1 .. Len(links) : n - 1 \in S => n \in S
    <2>1. ASSUME NEW n \in 1 .. Len(links), n - 1 \in S PROVE n \in S
      <3>1. Extends(First[n - 1], c, links, n - 1, origin)
        BY <2>1
      <3>2. Extends(First[n], c, links, n, origin)
        BY <1>1, <1>7, <3>1, LinkEnqueued
      <3> QED
        BY <1>1, <3>2
    <2> QED
      BY <2>1
  <1>10. 0 .. Len(links) \subseteq S
    <2> HIDE DEF S
    <2> QED
      BY <1>1, <1>8, <1>9, UpTo
  <1> QED
    BY <1>1, <1>3, <1>10 DEF links

-----------------------------------------------------------------------------
(* The crawl: what is known of it                                          *)

\* Destination, with the site as an argument.
DestinationOn(s, url, origins) ==
    LET Hop[n \in 0 .. MaxRedirects] ==
            [u \in Urls |-> IF ~Allowed(u, origins) THEN Nowhere
                            ELSE IF s[u].to = Nowhere THEN u
                            ELSE IF n = 0 THEN Nowhere
                            ELSE Hop[n - 1][s[u].to]]
    IN Hop[MaxRedirects][url]

LEMMA OnThisSite ==
    ASSUME NEW u, NEW origins
    PROVE  /\ DestinationOn(site, u, origins) = Destination(u, origins)
           /\ DestinationOn(site', u, origins) = Destination(u, origins)'
  BY DEF Destination, DestinationOn

LinksIn(s, p, origin) == {link \in ToSet(s[p].links) : OriginOf[link] = origin}

\* Every document but the first is where a link of an earlier one leads.
Reached(documents, s, origin) ==
    \A i \in 2 .. Len(documents) :
       \E j \in 1 .. i - 1 : \E link \in LinksIn(s, documents[j], origin) :
          DestinationOn(s, link, {origin}) = documents[i]

\* What holds of a crawl c of the site s also while a page awaits its links.
Faithful(c, s, origin) ==
    /\ c \in Crawls /\ c.documents # <<>> /\ OriginOf[c.documents[1]] = origin
    /\ \A p \in ToSet(c.documents) : OriginOf[p] = origin /\ s[p].to = Nowhere
    /\ \A i, j \in 1 .. Len(c.documents) : c.documents[i] = c.documents[j] => i = j
    /\ Len(c.documents) <= c.requested /\ c.requested <= MaxPages
    /\ \A u \in ToSet(c.queue) : \E p \in ToSet(c.documents) : u \in LinksIn(s, p, origin)
    /\ \A u \in c.seen : \/ DestinationOn(s, u, {origin}) \in ToSet(c.documents)
                         \/ u \in ToSet(c.queue) \union c.skipped
    /\ Reached(c.documents, s, origin)

Linked(c, s, origin, pages) == \A p \in pages : LinksIn(s, p, origin) \subseteq c.seen

CrawlInv ==
    /\ site \in [Urls -> Pages]
    /\ \/ crawl = NoCrawl
       \/ /\ Faithful(crawl, site, CrawlOrigin)
          /\ Linked(crawl, site, CrawlOrigin, Loaded)

LEMMA PageLinked ==
    ASSUME site \in [Urls -> Pages], NEW c, NEW origin, Faithful(c, site, origin),
           NEW page \in ToSet(c.documents),
           Linked(c, site, origin, ToSet(c.documents) \ {page})
    PROVE  /\ Faithful(EnqueueLinks(c, page, origin), site, origin)
           /\ Linked(EnqueueLinks(c, page, origin), site, origin,
                     ToSet(EnqueueLinks(c, page, origin).documents))
           /\ EnqueueLinks(c, page, origin).documents = c.documents
  <1>1. c \in Crawls /\ page \in Urls
    <2>1. c \in Crawls /\ c.documents \in Seq(Urls)
      BY DEF Faithful, Crawls
    <2> QED
      BY <2>1, ElementsOf
  <1>2. PICK d : d = EnqueueLinks(c, page, origin)
    OBVIOUS
  <1>3. PICK links : links = site[page].links /\ links \in Seq(Urls)
    BY <1>1 DEF Pages
  <1>4. Extends(d, c, links, Len(links), origin)
    BY <1>1, <1>2, <1>3, LinksEnqueued
  <1>5. d.seen = c.seen \union LinksIn(site, page, origin)
    <2>1. ToSet(links) = {links[i] : i \in 1 .. Len(links)} /\ ToSet(links) \subseteq Urls
      BY <1>3 DEF ToSet
    <2>2. LinksIn(site, page, origin)
          = {u \in Urls : OriginOf[u] = origin /\ \E i \in 1 .. Len(links) : u = links[i]}
      BY <1>3, <2>1 DEF LinksIn
    <2> QED
      BY <1>4, <2>2 DEF Extends
  <1>6. /\ d \in Crawls
        /\ d.documents = c.documents /\ d.skipped = c.skipped /\ d.requested = c.requested
        /\ ToSet(d.queue) = ToSet(c.queue) \union (d.seen \ c.seen)
    BY <1>4 DEF Extends
  <1>7. Linked(d, site, origin, ToSet(d.documents))
    BY <1>5, <1>6 DEF Linked
  <1>8. \A u \in ToSet(d.queue) : \E p \in ToSet(d.documents) : u \in LinksIn(site, p, origin)
    BY <1>5, <1>6 DEF Faithful
  <1>9. \A u \in d.seen : \/ DestinationOn(site, u, {origin}) \in ToSet(d.documents)
                          \/ u \in ToSet(d.queue) \union d.skipped
    BY <1>6 DEF Faithful
  <1>10. Faithful(d, site, origin)
    BY <1>6, <1>8, <1>9 DEF Faithful
  <1> QED
    BY <1>2, <1>6, <1>7, <1>10

LEMMA CrawlStarts == ASSUME CrawlInit PROVE CrawlInv
  BY CrawlAssumption DEF CrawlInit, CrawlInv

LEMMA RootLoaded == ASSUME CrawlInv, LoadRoot PROVE CrawlInv'
  <1>1. PICK page : /\ page = Destination(Root, Public) /\ page # Nowhere
                    /\ crawl' = EnqueueLinks([NoCrawl EXCEPT !.documents = <<page>>, !.seen = {page},
                                                             !.requested = 1],
                                             page, OriginOf[page])
                    /\ site' = site /\ site \in [Urls -> Pages]
    BY DEF LoadRoot, CrawlInv
  <1>2. page \in Urls /\ site[page].to = Nowhere
    BY <1>1, CrawlAssumption, Destinations
  <1>3. PICK c : c = [NoCrawl EXCEPT !.documents = <<page>>, !.seen = {page}, !.requested = 1]
    OBVIOUS
  <1>4. /\ c \in Crawls /\ c.documents = <<page>> /\ c.queue = <<>>
        /\ c.seen = {page} /\ c.requested = 1
    <2>1. PICK documents, seen : documents = <<page>> /\ seen = {page}
      OBVIOUS
    <2>2. documents \in Seq(Urls) /\ seen \in SUBSET Urls
      BY <1>2, <2>1
    <2>3. c = [NoCrawl EXCEPT !.documents = documents, !.seen = seen, !.requested = 1]
      BY <1>3, <2>1
    <2>4. <<>> \in Seq(Urls) /\ {} \in SUBSET Urls
      OBVIOUS
    <2>5. NoCrawl \in Crawls
      BY <2>4 DEF NoCrawl, Crawls
    <2>6. c \in Crawls
      BY <2>2, <2>3, <2>5 DEF Crawls
    <2> QED
      BY <2>1, <2>3, <2>6 DEF NoCrawl
  <1>5. ToSet(c.documents) = {page} /\ Len(c.documents) = 1 /\ c.documents[1] = page
        /\ ToSet(c.queue) = {}
    BY <1>4 DEF ToSet
  <1>6. PICK origin : origin = OriginOf[page]
    OBVIOUS
  <1>7. DestinationOn(site, page, {origin}) = page
    BY <1>1, <1>2, <1>6, Destinations, OnThisSite
  <1>8. Faithful(c, site, origin)
    BY <1>2, <1>4, <1>5, <1>6, <1>7, CrawlAssumption DEF Faithful, Reached
  <1>9. Linked(c, site, origin, ToSet(c.documents) \ {page})
    BY <1>5 DEF Linked
  <1>10. /\ Faithful(crawl', site, origin) /\ Linked(crawl', site, origin, ToSet(crawl'.documents))
         /\ crawl'.documents = c.documents
    <2>1. crawl' = EnqueueLinks(c, page, origin)
      BY <1>1, <1>3, <1>6, Zenon
    <2>2. page \in ToSet(c.documents)
      BY <1>5
    <2> QED
      BY <1>1, <1>8, <1>9, <2>1, <2>2, PageLinked
  <1>11. CrawlOrigin' = origin /\ Loaded' = ToSet(crawl'.documents)
    BY <1>5, <1>6, <1>10 DEF CrawlOrigin, Loaded
  <1> QED
    BY <1>1, <1>10, <1>11 DEF CrawlInv

\* The head of the queue leaves it, and is a link of a loaded page.
LEMMA HeadPopped ==
    ASSUME CrawlInv, ~CrawlEnds
    PROVE  /\ Faithful(crawl, site, CrawlOrigin) /\ Linked(crawl, site, CrawlOrigin, Loaded)
           /\ Popped \in Crawls /\ Popped.documents = crawl.documents
           /\ Popped.seen = crawl.seen /\ Popped.skipped = crawl.skipped
           /\ Popped.requested = crawl.requested + 1 /\ Popped.requested <= MaxPages
           /\ crawl.requested \in Nat
           /\ ToSet(crawl.queue) = {Head(crawl.queue)} \union ToSet(Popped.queue)
           /\ Head(crawl.queue) \in Urls
           /\ \E p \in Loaded : Head(crawl.queue) \in LinksIn(site, p, CrawlOrigin)
  <1>1. crawl # NoCrawl
    BY DEF CrawlEnds, NoCrawl
  <1>2. Faithful(crawl, site, CrawlOrigin) /\ Linked(crawl, site, CrawlOrigin, Loaded)
    BY <1>1 DEF CrawlInv
  <1>3. /\ crawl \in Crawls /\ crawl.queue \in Seq(Urls) /\ crawl.queue # <<>>
        /\ crawl.requested \in Nat /\ crawl.requested < MaxPages /\ MaxPages \in Nat
    BY <1>2, CrawlAssumption DEF CrawlEnds, Faithful, Crawls
  <1>4. /\ Head(crawl.queue) \in Urls /\ Tail(crawl.queue) \in Seq(Urls)
        /\ ToSet(crawl.queue) = {Head(crawl.queue)} \union ToSet(Tail(crawl.queue))
    BY <1>3, ElementsOf
  <1>5. PICK rest, requested : rest = Tail(crawl.queue) /\ requested = crawl.requested + 1
    OBVIOUS
  <1>6. Popped = [crawl EXCEPT !.queue = rest, !.requested = requested]
    BY <1>5 DEF Popped
  <1>7. /\ Popped \in Crawls /\ Popped.documents = crawl.documents
        /\ Popped.seen = crawl.seen /\ Popped.skipped = crawl.skipped
        /\ Popped.requested = requested /\ Popped.queue = rest
    <2>1. requested \in Nat /\ rest \in Seq(Urls)
      BY <1>3, <1>4, <1>5
    <2> QED
      BY <1>3, <1>6, <2>1 DEF Crawls
  <1>8. requested <= MaxPages
    BY <1>3, <1>5
  <1>9. \E p \in Loaded : Head(crawl.queue) \in LinksIn(site, p, CrawlOrigin)
    BY <1>2, <1>4 DEF Faithful, Loaded
  <1> QED
    BY <1>2, <1>3, <1>4, <1>5, <1>7, <1>8, <1>9

LEMMA PageSkipped == ASSUME CrawlInv, SkipPage PROVE CrawlInv'
  <1>1. PICK head, popped, origin : head = Head(crawl.queue) /\ popped = Popped /\ origin = CrawlOrigin
    OBVIOUS
  <1>2. /\ Faithful(crawl, site, origin) /\ Linked(crawl, site, origin, ToSet(crawl.documents))
        /\ popped \in Crawls /\ popped.documents = crawl.documents
        /\ popped.seen = crawl.seen /\ popped.skipped = crawl.skipped
        /\ popped.requested = crawl.requested + 1 /\ popped.requested <= MaxPages
        /\ crawl.requested \in Nat
        /\ ToSet(crawl.queue) = {head} \union ToSet(popped.queue)
        /\ head \in Urls
    BY <1>1, HeadPopped DEF SkipPage, Loaded
  <1>3. PICK skipped : skipped = popped.skipped \union {head}
    OBVIOUS
  <1>4. crawl' = [popped EXCEPT !.skipped = skipped] /\ site' = site
    BY <1>1, <1>3 DEF SkipPage
  <1>5. /\ crawl' \in Crawls /\ crawl'.documents = crawl.documents
        /\ crawl'.seen = crawl.seen /\ crawl'.skipped = skipped
        /\ crawl'.requested = popped.requested /\ crawl'.queue = popped.queue
    <2>1. skipped \in SUBSET Urls
      BY <1>2, <1>3 DEF Crawls
    <2> QED
      BY <1>2, <1>4, <2>1 DEF Crawls
  <1>6. Len(crawl.documents) <= popped.requested
    <2>1. Len(crawl.documents) \in Nat
      BY <1>2 DEF Crawls, Faithful
    <2> QED
      BY <1>2, <2>1 DEF Faithful
  <1>7. Faithful(crawl', site, origin)
    <2>1. PICK d : d = crawl'
      OBVIOUS
    <2>2. \A u \in ToSet(d.queue) : \E p \in ToSet(d.documents) : u \in LinksIn(site, p, origin)
      BY <1>2, <1>5, <2>1 DEF Faithful
    <2>3. \A u \in d.seen : \/ DestinationOn(site, u, {origin}) \in ToSet(d.documents)
                            \/ u \in ToSet(d.queue) \union d.skipped
      BY <1>2, <1>3, <1>5, <2>1 DEF Faithful
    <2>4. d \in Crawls /\ d.documents = crawl.documents /\ d.requested = popped.requested
      BY <1>5, <2>1
    <2>5. Reached(d.documents, site, origin)
      BY <1>2, <2>4 DEF Faithful
    <2>6. /\ \A p \in ToSet(d.documents) : OriginOf[p] = origin /\ site[p].to = Nowhere
          /\ \A i, j \in 1 .. Len(d.documents) : d.documents[i] = d.documents[j] => i = j
          /\ d.documents # <<>> /\ OriginOf[d.documents[1]] = origin
      BY <1>2, <2>4 DEF Faithful
    <2>7. Len(d.documents) <= d.requested /\ d.requested <= MaxPages
      BY <1>2, <1>6, <2>4
    <2>8. Faithful(d, site, origin)
      BY <2>2, <2>3, <2>4, <2>5, <2>6, <2>7 DEF Faithful
    <2> QED
      BY <2>1, <2>8
  <1>8. Linked(crawl', site, origin, ToSet(crawl'.documents))
    BY <1>2, <1>5 DEF Linked
  <1>9. CrawlOrigin' = origin /\ Loaded' = ToSet(crawl'.documents)
    BY <1>1, <1>5 DEF CrawlOrigin, Loaded
  <1> QED
    BY <1>4, <1>7, <1>8, <1>9 DEF CrawlInv

LEMMA NextPageLoaded == ASSUME CrawlInv, LoadPage PROVE CrawlInv'
  <1>1. PICK head, popped, origin, page :
             /\ head = Head(crawl.queue) /\ popped = Popped /\ origin = CrawlOrigin
             /\ page = Destination(head, {origin})
    OBVIOUS
  <1>2. /\ Faithful(crawl, site, origin) /\ Linked(crawl, site, origin, ToSet(crawl.documents))
        /\ popped \in Crawls /\ popped.documents = crawl.documents
        /\ popped.seen = crawl.seen /\ popped.skipped = crawl.skipped
        /\ popped.requested = crawl.requested + 1 /\ popped.requested <= MaxPages
        /\ crawl.requested \in Nat
        /\ ToSet(crawl.queue) = {head} \union ToSet(popped.queue)
        /\ head \in Urls
        /\ \E p \in ToSet(crawl.documents) : head \in LinksIn(site, p, origin)
    BY <1>1, HeadPopped DEF LoadPage, Loaded
  <1>3. /\ page # Nowhere
        /\ crawl' = IF page \in ToSet(crawl.documents) THEN popped
                    ELSE EnqueueLinks([popped EXCEPT !.documents = Append(@, page),
                                                     !.seen = @ \union {page}],
                                      page, origin)
        /\ site' = site /\ site \in [Urls -> Pages]
    BY <1>1 DEF LoadPage, AlreadyLoaded, CrawlInv
  <1>4. /\ page \in Urls /\ OriginOf[page] = origin /\ site[page].to = Nowhere
        /\ DestinationOn(site, head, {origin}) = page
        /\ DestinationOn(site, page, {origin}) = page
    BY <1>1, <1>2, <1>3, Destinations, OnThisSite
  <1>5. PICK documents : documents = crawl.documents
    OBVIOUS
  <1>6. /\ documents \in Seq(Urls) /\ documents # <<>> /\ OriginOf[documents[1]] = origin
        /\ Len(documents) \in Nat \ {0}
        /\ \A p \in ToSet(documents) : OriginOf[p] = origin /\ site[p].to = Nowhere
        /\ \A i, j \in 1 .. Len(documents) : documents[i] = documents[j] => i = j
        /\ Len(documents) <= crawl.requested
        /\ Reached(documents, site, origin)
    BY <1>2, <1>5 DEF Faithful, Crawls
  <1>7. \A u \in ToSet(popped.queue) : \E p \in ToSet(documents) : u \in LinksIn(site, p, origin)
    BY <1>2, <1>5 DEF Faithful
  <1>8. \A u \in crawl.seen : \/ DestinationOn(site, u, {origin}) \in ToSet(documents) \union {page}
                              \/ u \in ToSet(popped.queue) \union popped.skipped
    BY <1>2, <1>4, <1>5 DEF Faithful
  <1>9. CASE page \in ToSet(crawl.documents)
    <2>1. crawl' = popped /\ popped.documents = documents
      BY <1>2, <1>3, <1>5, <1>9
    <2>2. \A u \in popped.seen : \/ DestinationOn(site, u, {origin}) \in ToSet(documents)
                                 \/ u \in ToSet(popped.queue) \union popped.skipped
      BY <1>2, <1>5, <1>8, <1>9
    <2>3. Len(documents) <= popped.requested
      BY <1>2, <1>6
    <2>4. Faithful(popped, site, origin)
      BY <1>2, <1>6, <1>7, <2>1, <2>2, <2>3 DEF Faithful
    <2>5. Linked(popped, site, origin, ToSet(popped.documents))
      BY <1>2 DEF Linked
    <2>6. CrawlOrigin' = origin /\ Loaded' = ToSet(popped.documents)
      BY <1>6, <2>1 DEF CrawlOrigin, Loaded
    <2> QED
      BY <1>3, <2>1, <2>4, <2>5, <2>6 DEF CrawlInv
  <1>10. CASE page \notin ToSet(crawl.documents)
    <2>1. PICK more, seen : more = Append(documents, page) /\ seen = popped.seen \union {page}
      OBVIOUS
    <2>2. PICK c : c = [popped EXCEPT !.documents = more, !.seen = seen]
      OBVIOUS
    <2>3. crawl' = EnqueueLinks(c, page, origin)
      BY <1>2, <1>3, <1>5, <1>10, <2>1, <2>2
    <2>4. /\ more \in Seq(Urls) /\ Len(more) = Len(documents) + 1
          /\ more[Len(documents) + 1] = page
          /\ \A i \in 1 .. Len(documents) : more[i] = documents[i]
          /\ ToSet(more) = ToSet(documents) \union {page}
      BY <1>4, <1>6, <2>1, ElementsOf
    <2>5. /\ c \in Crawls /\ c.documents = more /\ c.seen = seen /\ c.queue = popped.queue
          /\ c.skipped = popped.skipped /\ c.requested = popped.requested
      <3>1. seen \in SUBSET Urls
        BY <1>2, <1>4, <2>1 DEF Crawls
      <3> QED
        BY <1>2, <2>2, <2>4, <3>1 DEF Crawls
    <2>6. /\ more # <<>> /\ OriginOf[more[1]] = origin
          /\ \A p \in ToSet(more) : OriginOf[p] = origin /\ site[p].to = Nowhere
      BY <1>4, <1>6, <2>4
    <2>7. \A i, j \in 1 .. Len(more) : more[i] = more[j] => i = j
      <3>1. \A i \in 1 .. Len(documents) : documents[i] # page
        BY <1>5, <1>6, <1>10 DEF ToSet
      <3> QED
        BY <1>6, <2>4, <3>1
    <2>8. Len(more) <= popped.requested
      BY <1>2, <1>6, <2>4
    <2>9. \A u \in ToSet(popped.queue) : \E p \in ToSet(more) : u \in LinksIn(site, p, origin)
      BY <1>7, <2>4
    <2>10. \A u \in seen : \/ DestinationOn(site, u, {origin}) \in ToSet(more)
                           \/ u \in ToSet(popped.queue) \union popped.skipped
      BY <1>2, <1>4, <1>8, <2>1, <2>4
    <2>11. Reached(more, site, origin)
      <3>1. SUFFICES ASSUME NEW i \in 2 .. Len(more)
                     PROVE  \E j \in 1 .. i - 1 : \E link \in LinksIn(site, more[j], origin) :
                               DestinationOn(site, link, {origin}) = more[i]
        BY DEF Reached
      <3>2. CASE i \in 2 .. Len(documents)
        <4>1. PICK j \in 1 .. i - 1 : \E link \in LinksIn(site, documents[j], origin) :
                                         DestinationOn(site, link, {origin}) = documents[i]
          BY <1>6, <3>2 DEF Reached
        <4>2. more[j] = documents[j] /\ more[i] = documents[i]
          BY <1>6, <2>4, <3>2
        <4> QED
          BY <4>1, <4>2
      <3>3. CASE i = Len(documents) + 1
        <4>1. PICK p \in ToSet(documents) : head \in LinksIn(site, p, origin)
          BY <1>2, <1>5
        <4>2. PICK j \in 1 .. Len(documents) : documents[j] = p
          BY <1>6, <4>1 DEF ToSet
        <4>3. more[j] = p /\ more[i] = page /\ j \in 1 .. i - 1
          BY <1>6, <2>4, <3>3, <4>2
        <4> QED
          BY <1>4, <4>1, <4>3
      <3>4. i \in 2 .. Len(documents) \/ i = Len(documents) + 1
        BY <1>6, <2>4
      <3> QED
        BY <3>2, <3>3, <3>4
    <2>12. Faithful(c, site, origin)
      BY <1>2, <2>5, <2>6, <2>7, <2>8, <2>9, <2>10, <2>11 DEF Faithful
    <2>13. Linked(c, site, origin, ToSet(c.documents) \ {page})
      BY <1>2, <1>5, <2>1, <2>4, <2>5 DEF Linked
    <2>14. page \in ToSet(c.documents)
      BY <2>4, <2>5
    <2>15. /\ Faithful(crawl', site, origin) /\ Linked(crawl', site, origin, ToSet(crawl'.documents))
           /\ crawl'.documents = more
      BY <1>3, <2>3, <2>5, <2>12, <2>13, <2>14, PageLinked
    <2>16. CrawlOrigin' = origin /\ Loaded' = ToSet(crawl'.documents)
      BY <2>6, <2>15 DEF CrawlOrigin, Loaded
    <2> QED
      BY <1>3, <2>15, <2>16 DEF CrawlInv
  <1> QED
    BY <1>9, <1>10

LEMMA FaithfulCrawl == ASSUME CrawlInv PROVE CrawlIsFaithful
  <1>1. SUFFICES ASSUME crawl.documents # <<>>
                 PROVE  /\ \A link \in UNION {LinksOf(p) : p \in Loaded} :
                              \/ Destination(link, {CrawlOrigin}) \in Loaded
                              \/ link \in ToSet(crawl.queue) \union crawl.skipped
                        /\ \A i \in 2 .. Len(crawl.documents) :
                              \E j \in 1 .. i - 1 : \E link \in LinksOf(crawl.documents[j]) :
                                 Destination(link, {CrawlOrigin}) = crawl.documents[i]
                        /\ \A page \in Loaded : OriginOf[page] = CrawlOrigin
                        /\ Cardinality(Loaded) = Len(crawl.documents)
                        /\ Len(crawl.documents) <= crawl.requested /\ crawl.requested <= MaxPages
    BY DEF CrawlIsFaithful
  <1>2. PICK origin, documents : origin = CrawlOrigin /\ documents = crawl.documents
    OBVIOUS
  <1>3. /\ Faithful(crawl, site, origin) /\ Linked(crawl, site, origin, Loaded)
        /\ Loaded = ToSet(documents)
    BY <1>1, <1>2 DEF CrawlInv, NoCrawl, Loaded
  <1>4. \A p : LinksOf(p) = LinksIn(site, p, origin)
    BY <1>2 DEF LinksOf, LinksIn
  <1>5. \A link : DestinationOn(site, link, {origin}) = Destination(link, {CrawlOrigin})
    BY <1>2, OnThisSite
  <1>6. ASSUME NEW p \in Loaded, NEW link \in LinksOf(p)
        PROVE  \/ Destination(link, {CrawlOrigin}) \in Loaded
               \/ link \in ToSet(crawl.queue) \union crawl.skipped
    <2>1. link \in crawl.seen
      BY <1>3, <1>4, <1>6 DEF Linked
    <2> QED
      BY <1>2, <1>3, <1>5, <2>1 DEF Faithful
  <1>7. ASSUME NEW i \in 2 .. Len(documents)
        PROVE  \E j \in 1 .. i - 1 : \E link \in LinksOf(documents[j]) :
                  Destination(link, {CrawlOrigin}) = documents[i]
    <2>1. Reached(documents, site, origin)
      BY <1>2, <1>3 DEF Faithful
    <2>2. PICK j \in 1 .. i - 1 : \E link \in LinksIn(site, documents[j], origin) :
                                     DestinationOn(site, link, {origin}) = documents[i]
      BY <2>1 DEF Reached
    <2> QED
      BY <1>4, <1>5, <2>2
  <1>8. Cardinality(Loaded) = Len(documents)
    <2>1. documents \in Seq(Urls) /\ Len(documents) \in Nat
      BY <1>2, <1>3 DEF Faithful, Crawls
    <2>2. documents \in Surjection(1 .. Len(documents), Loaded)
      <3>1. Loaded = {documents[i] : i \in 1 .. Len(documents)}
        BY <1>3, <2>1 DEF ToSet
      <3>2. documents \in [1 .. Len(documents) -> Loaded]
        BY <2>1, <3>1
      <3> QED
        BY <3>1, <3>2 DEF Surjection
    <2>3. documents \in Injection(1 .. Len(documents), Loaded)
      <3>1. \A i, j \in 1 .. Len(documents) : documents[i] = documents[j] => i = j
        BY <1>2, <1>3 DEF Faithful
      <3> QED
        BY <2>2, <3>1 DEF Surjection, Injection, IsInjective
    <2>4. IsFiniteSet(1 .. Len(documents)) /\ Cardinality(1 .. Len(documents)) = Len(documents)
      BY <2>1, FS_Interval
    <2> QED
      BY <2>2, <2>3, <2>4, FS_Surjection
  <1>9. \A page \in Loaded : OriginOf[page] = CrawlOrigin
    BY <1>2, <1>3 DEF Faithful
  <1>10. Len(documents) <= crawl.requested /\ crawl.requested <= MaxPages
    BY <1>2, <1>3 DEF Faithful
  <1> QED
    BY <1>2, <1>6, <1>7, <1>8, <1>9, <1>10

-----------------------------------------------------------------------------
(* The website ingestion service                                           *)

InStage == {"loading", "crawling", "processing", "preparing", "persisting", "completing"}
AllNew == kept # {} /\ \A u \in kept : stored[u] = "new"

\* What the row can be, stage by stage: a call that raised leaves it open which
\* of two it is, until the service has read it.
RowKnown ==
    \/ stage = "creating" /\ row = NoRow
    \/ stage = "reloading_created" /\ row \in {NoRow, Job("pending")} /\ faults >= 1
    \/ stage = "starting" /\ row = Job("pending")
    \/ stage = "reloading_started" /\ row \in {Job("pending"), Job("running")} /\ faults >= 1
    \/ /\ stage \in InStage /\ row = Job("running")
       /\ stage \in {"preparing", "persisting"} => kept # {}
       /\ stage = "completing" => AllNew
    \/ stage = "reloading_completed" /\ row \in {Job("running"), CompletedJob} /\ faults >= 1 /\ AllNew
    \/ stage = "failing" /\ row \in {Job("pending"), Job("running")}
    \/ stage = "ended" /\ answer = CompletedJob /\ row = CompletedJob /\ AllNew
    \/ /\ stage = "ended" /\ answer = Failure
       /\ \/ row \in {NoRow, Job("failed")}
          \/ row \in {Job("pending"), Job("running")} /\ faults >= 1
          \/ row = CompletedJob /\ faults >= 2 /\ AllNew

IngestionInv ==
    /\ CrawlInv
    /\ stored \in [Urls -> {"none", "old", "new"}]
    /\ kept \subseteq Urls /\ IsFiniteSet(kept) /\ created \in Nat /\ faults \in Nat
    /\ stage # "ended" => answer = NoRow
    /\ RowKnown

\* What the rows are: no two of them are alike, and none is NoRow or Failure.
LEMMA RowsDiffer ==
    ASSUME IsFiniteSet(kept), created \in Nat, crawl \in Crawls
    PROVE  /\ \A status \in {"pending", "running", "failed"} :
                 Job(status) \in JobRecords /\ Job(status).status = status
           /\ CompletedJob \in JobRecords /\ CompletedJob.status = "completed"
           /\ NoRow \notin JobRecords /\ Failure \notin JobRecords /\ NoRow # Failure
  <1>1. Len(crawl.documents) \in Nat /\ Cardinality(kept) \in Nat
    BY FS_CardinalityType DEF Crawls
  <1> QED
    BY <1>1, IngestionAssumption DEF Job, CompletedJob, JobRecords

LEMMA CrawlTyped == ASSUME CrawlInv PROVE crawl \in Crawls /\ Loaded \subseteq Urls /\ IsFiniteSet(Loaded)
  <1>1. crawl \in Crawls
    <2>1. <<>> \in Seq(Urls) /\ {} \in SUBSET Urls
      OBVIOUS
    <2>2. NoCrawl \in Crawls
      BY <2>1 DEF NoCrawl, Crawls
    <2> QED
      BY <2>2 DEF CrawlInv, Faithful
  <1>2. PICK documents \in Seq(Urls) : documents = crawl.documents
    BY <1>1 DEF Crawls
  <1>3. Loaded = {documents[i] : i \in 1 .. Len(documents)} /\ Loaded \subseteq Urls /\ Len(documents) \in Nat
    BY <1>2, ElementsOf DEF Loaded, ToSet
  <1>4. [i \in 1 .. Len(documents) |-> documents[i]] \in Surjection(1 .. Len(documents), Loaded)
    BY <1>3 DEF Surjection
  <1>5. IsFiniteSet(1 .. Len(documents))
    BY <1>3, FS_Interval
  <1> QED
    BY <1>1, <1>3, <1>4, <1>5, FS_Surjection

LEMMA IngestionStarts == ASSUME IngestionInit PROVE IngestionInv
  <1>1. \E texts \in {"none", "old", "new"} : stored = [u \in Urls |-> texts]
    BY DEF IngestionInit
  <1>2. stored \in [Urls -> {"none", "old", "new"}]
    BY <1>1
  <1>3. IsFiniteSet({})
    BY FS_EmptySet
  <1> QED
    BY <1>2, <1>3, CrawlStarts DEF IngestionInit, IngestionInv, RowKnown

LEMMA CrawlKept == ASSUME CrawlInv, UNCHANGED crawlVars PROVE CrawlInv'
  BY DEF CrawlInv, crawlVars, CrawlOrigin, Loaded

\* The steps that only read and write the row.
LEMMA RowStep ==
    ASSUME IngestionInv,
           \/ CreateJob \/ ReconcileCreation \/ BeginJob \/ ReconcileStart
           \/ CompleteJob \/ ReconcileCompletion \/ RecordFailure
    PROVE  IngestionInv'
  <1>1. UNCHANGED <<crawlVars, workVars>>
    BY DEF CreateJob, ReconcileCreation, BeginJob, ReconcileStart, CompleteJob, ReconcileCompletion,
           RecordFailure
  <1>2. CrawlInv'
    BY <1>1, CrawlKept DEF IngestionInv
  <1>3. /\ stored' = stored /\ kept' = kept /\ created' = created
        /\ CompletedJob' = CompletedJob /\ AllNew' = AllNew
    BY <1>1 DEF workVars, crawlVars, CompletedJob, Job, AllNew
  <1>4. PICK done, pending, running, failed :
             /\ done = CompletedJob /\ pending = Job("pending") /\ running = Job("running")
             /\ failed = Job("failed")
    OBVIOUS
  <1>5. /\ pending.status = "pending" /\ running.status = "running" /\ failed.status = "failed"
        /\ done.status = "completed"
        /\ NoRow \notin {pending, running, failed, done, Failure}
        /\ Failure \notin {pending, running, failed, done}
    BY <1>4, RowsDiffer, CrawlTyped DEF IngestionInv
  <1>6. /\ Job("pending")' = pending /\ Job("running")' = running /\ Job("failed")' = failed
        /\ CompletedJob' = done
    BY <1>3, <1>4 DEF Job
  <1>7. faults' \in Nat /\ faults' >= faults
    BY DEF IngestionInv, CreateJob, ReconcileCreation, BeginJob, ReconcileStart, CompleteJob,
           ReconcileCompletion, RecordFailure, Write, Reads, Fails
  <1>8. RowKnown' /\ (stage' # "ended" => answer' = NoRow)
    <2>1. CASE CreateJob
      BY <1>4, <1>5, <1>6, <1>7, <2>1 DEF CreateJob, Write, IngestionInv, RowKnown, InStage
    <2>2. CASE ReconcileCreation
      BY <1>4, <1>5, <1>6, <1>7, <2>2 DEF ReconcileCreation, Reads, Fails, IngestionInv, RowKnown, InStage
    <2>3. CASE BeginJob
      BY <1>4, <1>5, <1>6, <1>7, <2>3 DEF BeginJob, Write, IngestionInv, RowKnown, InStage
    <2>4. CASE ReconcileStart
      BY <1>4, <1>5, <1>6, <1>7, <2>4 DEF ReconcileStart, Reads, IngestionInv, RowKnown, InStage
    <2>5. CASE CompleteJob
      BY <1>3, <1>4, <1>5, <1>6, <1>7, <2>5 DEF CompleteJob, Write, IngestionInv, RowKnown, InStage
    <2>6. CASE ReconcileCompletion
      BY <1>3, <1>4, <1>5, <1>6, <1>7, <2>6
         DEF ReconcileCompletion, Reads, Fails, MatchesCompletion, InProgress, IngestionInv, RowKnown,
             InStage
    <2>7. CASE RecordFailure
      BY <1>4, <1>5, <1>6, <1>7, <2>7 DEF RecordFailure, Write, IngestionInv, RowKnown, InStage
    <2> QED
      BY <2>1, <2>2, <2>3, <2>4, <2>5, <2>6, <2>7
  <1> QED
    BY <1>2, <1>3, <1>7, <1>8 DEF IngestionInv

\* The stages, in which the row rests.
LEMMA StageStep ==
    ASSUME IngestionInv, LoadWebsite \/ CrawlPage \/ Process \/ Prepare \/ Persist
    PROVE  IngestionInv'
  <1>1. /\ stage \in InStage \ {"completing"} /\ row = Job("running") /\ row' = row
        /\ faults' = faults /\ answer' = answer /\ answer = NoRow
        /\ stage \in {"preparing", "persisting"} => kept # {}
    BY DEF LoadWebsite, CrawlPage, Process, Prepare, Persist, StageFails, IngestionInv, RowKnown, InStage
  <1>2. Job("running")' = Job("running")
    BY DEF Job
  <1>3. CrawlInv'
    <2>1. CASE LoadWebsite
      BY <2>1, RootLoaded, CrawlKept DEF LoadWebsite, IngestionInv
    <2>2. CASE CrawlPage
      BY <2>2, NextPageLoaded, PageSkipped, CrawlKept DEF CrawlPage, IngestionInv
    <2>3. CASE Process \/ Prepare \/ Persist
      BY <2>3, CrawlKept DEF Process, Prepare, Persist, IngestionInv
    <2> QED
      BY <2>1, <2>2, <2>3
  <1>4. stored' \in [Urls -> {"none", "old", "new"}]
    <2>1. Replaced \in [Urls -> {"none", "old", "new"}]
      BY DEF Replaced, IngestionInv
    <2> QED
      BY <2>1 DEF LoadWebsite, CrawlPage, Process, Prepare, Persist, IngestionInv, workVars
  <1>5. kept' \subseteq Urls /\ IsFiniteSet(kept') /\ created' \in Nat
    <2>1. Loaded \subseteq Urls /\ IsFiniteSet(Loaded)
      BY CrawlTyped DEF IngestionInv
    <2>2. kept' = kept \/ kept' \in SUBSET Loaded
      BY DEF LoadWebsite, CrawlPage, Process, Prepare, Persist, StageFails, workVars
    <2>3. kept' \subseteq Urls /\ IsFiniteSet(kept')
      BY <2>1, <2>2, FS_Subset DEF IngestionInv
    <2>4. created' = created \/ created' = Cardinality({u \in kept : stored[u] # "new"})
      BY DEF LoadWebsite, CrawlPage, Process, Prepare, Persist, StageFails, workVars
    <2>5. Cardinality({u \in kept : stored[u] # "new"}) \in Nat
      BY FS_Subset, FS_CardinalityType DEF IngestionInv
    <2> QED
      BY <2>3, <2>4, <2>5 DEF IngestionInv
  <1>6. stage' \in InStage \/ stage' = "failing"
    BY <1>1 DEF LoadWebsite, CrawlPage, Process, Prepare, Persist, StageFails, Proceed, InStage
  <1>7. stage' \in {"preparing", "persisting"} => kept' # {}
    BY <1>1 DEF LoadWebsite, CrawlPage, Process, Prepare, Persist, StageFails, Proceed, workVars
  <1>8. stage' = "completing" => AllNew'
    <2>1. SUFFICES ASSUME stage' = "completing" PROVE AllNew'
      OBVIOUS
    <2>2. stage = "persisting" /\ stored' = Replaced /\ kept' = kept
      BY <1>1, <2>1
         DEF LoadWebsite, CrawlPage, Process, Prepare, Persist, StageFails, Proceed, InStage
    <2> QED
      BY <1>1, <2>2 DEF AllNew, Replaced, IngestionInv
  <1>9. RowKnown'
    BY <1>1, <1>2, <1>6, <1>7, <1>8 DEF RowKnown, InStage
  <1> QED
    BY <1>1, <1>3, <1>4, <1>5, <1>6, <1>9 DEF IngestionInv, InStage

LEMMA IngestionStep == ASSUME IngestionInv, [IngestionNext]_ingestionVars PROVE IngestionInv'
  <1>1. CASE IngestionNext
    BY <1>1, RowStep, StageStep DEF IngestionNext
  <1>2. CASE UNCHANGED ingestionVars
    <2>1. CrawlInv'
      BY <1>2, CrawlKept DEF IngestionInv, ingestionVars
    <2> QED
      BY <1>2, <2>1
         DEF ingestionVars, crawlVars, IngestionInv, RowKnown, Job, CompletedJob, AllNew
  <1> QED
    BY <1>1, <1>2

LEMMA AnswersMatch == ASSUME IngestionInv PROVE AnswerMatchesRow
  <1>1. PICK done, pending, running, failed :
             /\ done = CompletedJob /\ pending = Job("pending") /\ running = Job("running")
             /\ failed = Job("failed")
    OBVIOUS
  <1>2. /\ pending.status = "pending" /\ running.status = "running" /\ failed.status = "failed"
        /\ done.status = "completed" /\ Failure \notin {NoRow, done}
    BY <1>1, RowsDiffer, CrawlTyped DEF IngestionInv
  <1>3. answer \notin {NoRow, Failure} => row = answer
    BY <1>1 DEF IngestionInv, RowKnown, InStage
  <1>4. row # NoRow /\ row.status = "completed" => AllNew
    BY <1>1, <1>2 DEF IngestionInv, RowKnown, InStage
  <1>5. answer = Failure /\ row # NoRow =>
          /\ row.status = "completed" => faults >= 2
          /\ InProgress(row) => faults >= 1
    BY <1>1, <1>2 DEF IngestionInv, RowKnown, InStage, InProgress
  <1> QED
    BY <1>3, <1>4, <1>5 DEF AnswerMatchesRow, AllNew

\* While a site is crawled, in whatever order its pages fail or redirect, and
\* while the row of the job and the stages of the service go through raised
\* calls and retries (HttpWebsiteLoader.load, IngestionService.start_ingestion).
THEOREM IngestionInvariant == IngestionSpec => []IngestionInv
  <1>1. IngestionInit => IngestionInv
    BY IngestionStarts
  <1>2. IngestionInv /\ [IngestionNext]_ingestionVars => IngestionInv'
    BY IngestionStep
  <1> QED
    BY <1>1, <1>2, PTL DEF IngestionSpec

\* The crawl of any site, for any limits on pages and redirections, loses no
\* page and repeats none (HttpWebsiteLoader.load, _enqueue_links, _download).
THEOREM CrawlsAreFaithful == IngestionSpec => []CrawlIsFaithful
  <1>1. IngestionInv => CrawlIsFaithful
    BY FaithfulCrawl DEF IngestionInv
  <1> QED
    BY <1>1, IngestionInvariant, PTL

\* What the caller is told is what the row says (IngestionService.start_ingestion
\* and its reconciliation of calls that raised).
THEOREM CallersAreToldTheRow == IngestionSpec => []AnswerMatchesRow
  <1>1. IngestionInv => AnswerMatchesRow
    BY AnswersMatch
  <1> QED
    BY <1>1, IngestionInvariant, PTL

-----------------------------------------------------------------------------
(* The RAG backend: the inductive invariant                                *)

Answers == Chats \union {NoReply}
Keys == {<<Form[q], r>> : q \in Questions, r \in ChatRoles}
AuditRows == [question : Questions, role : ChatRoles, reply : Answers, by : Chats]

CommitStages == {"auditing", "inserting row", "caching", "storing", "finishing"}
Stages ==
    {"none", "looking", "copying", "expanding", "reading", "generating", "choosing", "evicting",
     "inserting", "generated", "prepared", "committed", "timeout", "error"} \union CommitStages

Codes == {0, 200, 403, 429, 500, 504}

Refused ==
    [handler : {"answered"}, worker : {"none"}, late : {FALSE}, inFlight : {FALSE}, code : {503},
     reply : {NoReply}, at : Nat]
Asked ==
    [handler : {"preparing", "committing", "draining", "answered"}, worker : Stages,
     late : BOOLEAN, inFlight : BOOLEAN, code : Codes, question : Questions, role : ChatRoles,
     reply : Answers, event : Answers, cached : Answers, victim : Questions, at : Nat]

RagTyped ==
    /\ auditing \in BOOLEAN
    /\ seconds \in Nat
    /\ window \subseteq Chats
    /\ queries \in Seq(Questions)
    /\ replies \in [Keys -> Answers]
    /\ audits \in Seq(AuditRows)
    /\ chats \in [Chats -> {Unasked} \union Refused \union Asked]

\* The request was counted, and when.
Counted(c) == chats[c] # Unasked /\ chats[c].code \notin {429, 503}
CountedIn(t) == {c \in Chats : Counted(c) /\ t <= chats[c].at /\ chats[c].at < t + RateWindow}

\* The window has every request that was counted and is not yet a minute old.
RateKept ==
    /\ \A c \in Chats : chats[c] # Unasked => chats[c].at <= seconds
    /\ \A c \in Chats : Counted(c) /\ chats[c].at + RateWindow > seconds => c \in window
    /\ \A t \in Nat : Cardinality(CountedIn(t)) <= RateLimit

\* Whoever is about to insert has found room, or made it.
Inserting == {c \in Chats : chats[c].worker = "inserting"}
QueriesBounded == Len(queries) + Cardinality(Inserting) <= MaxQueries + Cardinality(Chats)

\* The audit log has the answer of the request.
Recorded(c, reply) == \E i \in DOMAIN audits : audits[i].by = c /\ audits[i].reply = reply

\* The answer d was generated for the form and the role.
AnswerFor(d, question, role) ==
    /\ d \in Chats /\ chats[d] \in Asked
    /\ Form[chats[d].question] = Form[question] /\ chats[d].role = role

\* What the handler and the thread of a request hold: x is chats[c].
ChatSound(c, x) ==
    /\ x.worker \in CommitStages => x.handler \in {"committing", "draining"}
    /\ x.code = 429 => x.handler = "answered"
    /\ x.worker \in {"looking", "copying"} => x.cached = NoReply
    /\ x.worker = "storing" => x.cached # NoReply
    /\ x.cached # NoReply => x.cached = c /\ (auditing => x.event = c)
    /\ x.worker \in {"caching", "storing"} /\ x.event # NoReply => Recorded(c, x.event)
    /\ x.reply # NoReply => x.reply = c \/ AnswerFor(x.reply, x.question, x.role)
    /\ x.inFlight = TRUE /\ auditing => Recorded(c, c)

RepliesSound ==
    \A k \in Keys : replies[k] # NoReply =>
       /\ chats[replies[k]] \in Asked
       /\ CacheKey(chats[replies[k]].question, chats[replies[k]].role) = k
       /\ auditing => Recorded(replies[k], replies[k])

RagInv ==
    /\ RagTyped
    /\ RateKept
    /\ QueriesBounded
    /\ \A c \in Chats : chats[c] \in Asked => ChatSound(c, chats[c])
    /\ RepliesSound

-----------------------------------------------------------------------------
(* Lemmas about the data *)

LEMMA LatestOf ==
    ASSUME NEW n \in Nat, NEW T \in SUBSET (1 .. n), T # {}
    PROVE  Max(T) \in T
  <1>1. PICK low : low = {n - i : i \in T}
    OBVIOUS
  <1>2. low \in SUBSET Nat /\ low # {}
    <2>1. \A i \in T : n - i \in Nat
      OBVIOUS
    <2> QED
      BY <1>1, <2>1
  <1>3. PICK m \in low : \A k \in low : m <= k
    BY <1>2, LeastNumber
  <1>4. PICK i \in T : m = n - i
    BY <1>1, <1>3
  <1>5. ASSUME NEW j \in T PROVE i >= j
    BY <1>1, <1>3, <1>4
  <1> QED
    BY <1>5 DEF Max

LEMMA OneRemoved ==
    ASSUME NEW s \in Seq(Questions), NEW i \in DOMAIN s
    PROVE  RemoveAt(s, i) \in Seq(Questions) /\ Len(RemoveAt(s, i)) = Len(s) - 1
  <1>1. i \in 1 .. Len(s) /\ Len(s) \in Nat
    OBVIOUS
  <1>2. /\ SubSeq(s, 1, i - 1) \in Seq(Questions) /\ Len(SubSeq(s, 1, i - 1)) = i - 1
        /\ SubSeq(s, i + 1, Len(s)) \in Seq(Questions) /\ Len(SubSeq(s, i + 1, Len(s))) = Len(s) - i
    BY <1>1, SubSeqProperties
  <1>3. PICK front, back :
             front = SubSeq(s, 1, i - 1) /\ back = SubSeq(s, i + 1, Len(s))
    OBVIOUS
  <1>4. front \o back \in Seq(Questions) /\ Len(front \o back) = Len(s) - 1
    <2>1. /\ front \in Seq(Questions) /\ Len(front) = i - 1
          /\ back \in Seq(Questions) /\ Len(back) = Len(s) - i
      BY <1>2, <1>3
    <2>2. front \o back \in Seq(Questions) /\ Len(front \o back) = Len(front) + Len(back)
      BY <2>1, ConcatProperties
    <2> QED
      BY <1>1, <2>1, <2>2
  <1> QED
    BY <1>3, <1>4 DEF RemoveAt

\* By its worker or its handler a request is known to have been taken on.
LEMMA TakenOn ==
    ASSUME RagTyped, NEW c \in Chats,
           \/ chats[c].worker # "none"
           \/ chats[c].handler \in {"preparing", "committing", "draining"}
    PROVE  chats[c] \in Asked
  <1>1. PICK x : x = chats[c]
    OBVIOUS
  <1>2. x \in {Unasked} \union Refused \union Asked
    BY <1>1 DEF RagTyped
  <1>3. x # Unasked
    BY <1>1 DEF Unasked
  <1>4. x \notin Refused
    BY <1>1 DEF Refused
  <1> QED
    BY <1>1, <1>2, <1>3, <1>4

LEMMA InFlightTaken ==
    ASSUME RagTyped, NEW c \in Chats, chats[c].inFlight
    PROVE  chats[c] \in Asked
  <1>1. PICK x : x = chats[c]
    OBVIOUS
  <1>2. x \in {Unasked} \union Refused \union Asked
    BY <1>1 DEF RagTyped
  <1>3. x # Unasked
    BY <1>1 DEF Unasked
  <1>4. x \notin Refused
    BY <1>1 DEF Refused
  <1> QED
    BY <1>1, <1>2, <1>3, <1>4

-----------------------------------------------------------------------------
(* A step of one request, whatever it does                                 *)

\* c goes on to hold x, which is still the request that it was.
Moves(c, x) ==
    /\ c \in Chats /\ chats[c] \in Asked /\ x \in Asked
    /\ x.question = chats[c].question /\ x.role = chats[c].role /\ x.at = chats[c].at
    /\ x.code \in {429, 503} <=> chats[c].code \in {429, 503}
    /\ chats' = [chats EXCEPT ![c] = x]
    /\ auditing' = auditing /\ seconds' = seconds /\ window' = window

\* Rows of the audit log stay.
LogKept ==
    /\ audits' \in Seq(AuditRows)
    /\ \A i \in DOMAIN audits : i \in DOMAIN audits' /\ audits'[i] = audits[i]

LEMMA RateUnmoved ==
    ASSUME RagTyped, RateKept, NEW c, NEW x, Moves(c, x)
    PROVE  RateKept'
  <1>1. /\ chats \in [Chats -> {Unasked} \union Refused \union Asked]
        /\ c \in Chats /\ chats' = [chats EXCEPT ![c] = x]
        /\ x.at = chats[c].at /\ (x.code \in {429, 503} <=> chats[c].code \in {429, 503})
        /\ seconds' = seconds /\ window' = window
    BY DEF RagTyped, Moves
  <1>2. \A d \in Chats : d # c => chats'[d] = chats[d]
    BY <1>1
  <1>3. chats'[c] = x /\ x # Unasked /\ chats[c] # Unasked
    BY <1>1 DEF Moves, Asked, Unasked
  <1>4. \A d \in Chats : /\ Counted(d)' <=> Counted(d)
                         /\ chats'[d] # Unasked <=> chats[d] # Unasked
                         /\ chats'[d] # Unasked => chats'[d].at = chats[d].at
    BY <1>1, <1>2, <1>3 DEF Counted
  <1>5. ASSUME NEW t \in Nat PROVE CountedIn(t)' = CountedIn(t)
    <2>1. \A d \in Chats : Counted(d) => chats'[d].at = chats[d].at
      BY <1>4 DEF Counted
    <2> QED
      BY <1>4, <2>1 DEF CountedIn
  <1>6. \A d \in Chats : chats'[d] # Unasked => chats'[d].at <= seconds'
    BY <1>1, <1>4 DEF RateKept
  <1>7. \A d \in Chats : Counted(d)' /\ chats'[d].at + RateWindow > seconds' => d \in window'
    BY <1>1, <1>4 DEF RateKept, Counted
  <1>8. \A t \in Nat : Cardinality(CountedIn(t)') <= RateLimit
    BY <1>5 DEF RateKept
  <1> QED
    BY <1>6, <1>7, <1>8 DEF RateKept

LEMMA SoundKept ==
    ASSUME RagTyped, NEW c, NEW x, Moves(c, x), LogKept
    PROVE  /\ \A d, y : ChatSound(d, y) => ChatSound(d, y)'
           /\ \A d, reply : Recorded(d, reply) => Recorded(d, reply)'
           /\ \A d \in Chats : chats[d] \in Asked =>
                 /\ chats'[d] \in Asked
                 /\ chats'[d].question = chats[d].question /\ chats'[d].role = chats[d].role
  <1>1. \A d, reply : Recorded(d, reply) => Recorded(d, reply)'
    BY DEF Recorded, LogKept
  <1>2. ASSUME NEW d \in Chats, chats[d] \in Asked
        PROVE  /\ chats'[d] \in Asked
               /\ chats'[d].question = chats[d].question /\ chats'[d].role = chats[d].role
    BY <1>2 DEF Moves, RagTyped
  <1>3. ASSUME NEW d, NEW question, NEW role, AnswerFor(d, question, role)
        PROVE  AnswerFor(d, question, role)'
    BY <1>2, <1>3 DEF AnswerFor
  <1>4. ASSUME NEW d, NEW y, ChatSound(d, y)
        PROVE  ChatSound(d, y)'
    BY <1>1, <1>3, <1>4 DEF ChatSound, Moves
  <1> QED
    BY <1>1, <1>2, <1>4

LEMMA MoveKeeps ==
    ASSUME RagInv, NEW c, NEW x, Moves(c, x), LogKept,
           queries' \in Seq(Questions), QueriesBounded',
           ChatSound(c, x) \/ ChatSound(c, x)',
           replies' \in [Keys -> Answers],
           \A k \in Keys : \/ replies'[k] \in {replies[k], NoReply}
                           \/ /\ replies'[k] = c /\ CacheKey(x.question, x.role) = k
                              /\ auditing => Recorded(c, c)'
    PROVE  RagInv'
  <1>1. RagTyped'
    BY DEF RagInv, RagTyped, Moves, LogKept
  <1>2. RateKept'
    BY RateUnmoved DEF RagInv
  <1>3. /\ \A d, y : ChatSound(d, y) => ChatSound(d, y)'
        /\ \A d, reply : Recorded(d, reply) => Recorded(d, reply)'
        /\ \A d \in Chats : chats[d] \in Asked =>
              /\ chats'[d] \in Asked
              /\ chats'[d].question = chats[d].question /\ chats'[d].role = chats[d].role
    BY SoundKept DEF RagInv
  <1>4. ASSUME NEW d \in Chats, chats'[d] \in Asked PROVE ChatSound(d, chats[d])'
    <2>1. PICK y : y = chats'[d]
      OBVIOUS
    <2>2. ChatSound(d, y)'
      <3>1. CASE d = c
        <4>1. y = x
          BY <2>1, <3>1 DEF RagInv, RagTyped, Moves
        <4>2. ChatSound(c, x)'
          BY <1>3
        <4> QED
          BY <3>1, <4>1, <4>2
      <3>2. CASE d # c
        <4>1. chats[d] = y
          BY <2>1, <3>2 DEF RagInv, RagTyped, Moves
        <4>2. ChatSound(d, y)
          BY <1>4, <2>1, <4>1 DEF RagInv
        <4> QED
          BY <1>3, <4>2
      <3> QED
        BY <3>1, <3>2
    <2> QED
      BY <2>1, <2>2 DEF ChatSound
  <1>5. ASSUME NEW k \in Keys, replies'[k] # NoReply
        PROVE  (/\ chats[replies[k]] \in Asked
                /\ CacheKey(chats[replies[k]].question, chats[replies[k]].role) = k
                /\ auditing => Recorded(replies[k], replies[k]))'
    <2>1. PICK d : d = replies'[k]
      OBVIOUS
    <2>2. /\ chats'[d] \in Asked
          /\ CacheKey(chats'[d].question, chats'[d].role) = k
          /\ auditing => Recorded(d, d)'
      <3>1. CASE d = replies[k]
        <4>1. d \in Chats
          BY <1>5, <2>1, <3>1 DEF RagInv, RagTyped, Answers
        <4>2. /\ chats[d] \in Asked /\ CacheKey(chats[d].question, chats[d].role) = k
              /\ auditing => Recorded(d, d)
          BY <1>5, <2>1, <3>1 DEF RagInv, RepliesSound
        <4> QED
          BY <1>3, <4>1, <4>2
      <3>2. CASE d = c /\ CacheKey(x.question, x.role) = k /\ (auditing => Recorded(c, c)')
        <4>1. chats'[c] = x /\ x \in Asked
          BY DEF RagInv, RagTyped, Moves
        <4> QED
          BY <3>2, <4>1
      <3> QED
        BY <1>5, <2>1, <3>1, <3>2
    <2>3. auditing' = auditing
      BY DEF Moves
    <2> QED
      BY <2>1, <2>2, <2>3 DEF Recorded, CacheKey
  <1>6. RepliesSound'
    BY <1>5 DEF RepliesSound
  <1> QED
    BY <1>1, <1>2, <1>4, <1>6 DEF RagInv

\* How many are about to insert.
LEMMA InsertingMoved ==
    ASSUME RagTyped, NEW c, NEW x, Moves(c, x)
    PROVE  /\ IsFiniteSet(Inserting) /\ IsFiniteSet(Inserting')
           /\ Cardinality(Inserting) \in Nat /\ Cardinality(Inserting') \in Nat
           /\ Cardinality(Chats) \in Nat /\ Cardinality(Inserting') <= Cardinality(Chats)
           /\ x.worker # "inserting" =>
                 /\ Cardinality(Inserting') <= Cardinality(Inserting)
                 /\ chats[c].worker = "inserting" =>
                       Cardinality(Inserting') + 1 <= Cardinality(Inserting)
           /\ chats[c].worker = "inserting" => Cardinality(Inserting') <= Cardinality(Inserting)
           /\ Cardinality(Inserting') <= Cardinality(Inserting) + 1
  <1>1. IsFiniteSet(Chats) /\ Inserting \subseteq Chats /\ Inserting' \subseteq Chats
    BY RagAssumption DEF Inserting
  <1>2. /\ IsFiniteSet(Inserting) /\ IsFiniteSet(Inserting')
        /\ Cardinality(Inserting) \in Nat /\ Cardinality(Inserting') \in Nat
        /\ Cardinality(Chats) \in Nat /\ Cardinality(Inserting') <= Cardinality(Chats)
    BY <1>1, FS_Subset, FS_CardinalityType
  <1>3. /\ c \in Chats /\ chats'[c] = x /\ \A d \in Chats : d # c => chats'[d] = chats[d]
    BY DEF RagTyped, Moves
  <1>4. Inserting' \subseteq Inserting \union {c}
    BY <1>3 DEF Inserting
  <1>5. /\ IsFiniteSet(Inserting \union {c})
        /\ Cardinality(Inserting \union {c}) <= Cardinality(Inserting) + 1
        /\ Cardinality(Inserting \union {c}) \in Nat
    <2>1. /\ IsFiniteSet(Inserting \union {c})
          /\ Cardinality(Inserting \union {c})
             = IF c \in Inserting THEN Cardinality(Inserting) ELSE Cardinality(Inserting) + 1
      BY <1>2, FS_AddElement
    <2> QED
      BY <1>2, <2>1
  <1>6. Cardinality(Inserting') <= Cardinality(Inserting) + 1
    <2>1. Cardinality(Inserting') <= Cardinality(Inserting \union {c})
      BY <1>4, <1>5, FS_Subset
    <2> QED
      BY <1>2, <1>5, <2>1
  <1>7. ASSUME x.worker # "inserting"
        PROVE  /\ Cardinality(Inserting') <= Cardinality(Inserting)
               /\ chats[c].worker = "inserting" =>
                     Cardinality(Inserting') + 1 <= Cardinality(Inserting)
    <2>1. Inserting' \subseteq Inserting
      BY <1>3, <1>7 DEF Inserting
    <2>2. Cardinality(Inserting') <= Cardinality(Inserting)
      BY <1>2, <2>1, FS_Subset
    <2>3. ASSUME chats[c].worker = "inserting"
          PROVE  Cardinality(Inserting') + 1 <= Cardinality(Inserting)
      <3>1. c \in Inserting /\ Inserting' = Inserting \ {c}
        BY <1>3, <1>7, <2>3 DEF Inserting
      <3> QED
        BY <1>2, <3>1, FS_RemoveElement
    <2> QED
      BY <2>2, <2>3
  <1>8. ASSUME chats[c].worker = "inserting"
        PROVE  Cardinality(Inserting') <= Cardinality(Inserting)
    <2>1. Inserting' \subseteq Inserting
      BY <1>3, <1>8 DEF Inserting
    <2> QED
      BY <1>2, <2>1, FS_Subset
  <1> QED
    BY <1>2, <1>6, <1>7, <1>8

LEMMA BoundUnmoved ==
    ASSUME RagTyped, QueriesBounded, NEW c, NEW x, Moves(c, x), queries' = queries,
           \/ x.worker # "inserting" \/ chats[c].worker = "inserting"
           \/ Len(queries) <= MaxQueries
    PROVE  QueriesBounded'
  <1>1. MaxQueries \in Nat /\ Len(queries) \in Nat /\ Cardinality(Chats)' = Cardinality(Chats)
    BY RagAssumption DEF RagTyped
  <1> QED
    BY <1>1, InsertingMoved DEF QueriesBounded

-----------------------------------------------------------------------------
(* The steps of the worker that prepares an answer                         *)

LEMMA KeyOf == ASSUME NEW q \in Questions, NEW r \in ChatRoles PROVE CacheKey(q, r) \in Keys
  BY DEF Keys, CacheKey

\* One field after another can be given another value of its set.
LEMMA AtStage ==
    ASSUME NEW b \in Asked, NEW w \in Stages PROVE [b EXCEPT !.worker = w] \in Asked
  BY DEF Asked

LEMMA AtHandler ==
    ASSUME NEW b \in Asked, NEW h \in {"preparing", "committing", "draining", "answered"}
    PROVE  [b EXCEPT !.handler = h] \in Asked
  BY DEF Asked

LEMMA WithLate ==
    ASSUME NEW b \in Asked, NEW late \in BOOLEAN PROVE [b EXCEPT !.late = late] \in Asked
  BY DEF Asked

LEMMA WithFlight ==
    ASSUME NEW b \in Asked, NEW flight \in BOOLEAN PROVE [b EXCEPT !.inFlight = flight] \in Asked
  BY DEF Asked

LEMMA WithCode ==
    ASSUME NEW b \in Asked, NEW code \in Codes
    PROVE  [b EXCEPT !.code = code] \in Asked
  BY DEF Asked

LEMMA WithReply ==
    ASSUME NEW b \in Asked, NEW reply \in Answers
    PROVE  /\ [b EXCEPT !.reply = reply] \in Asked
           /\ [b EXCEPT !.event = reply] \in Asked
           /\ [b EXCEPT !.cached = reply] \in Asked
  BY DEF Asked

\* A step that leaves the dictionary, the audit log and the cache alone.
LEMMA QuietMove ==
    ASSUME RagInv, NEW c, NEW x, Moves(c, x), UNCHANGED <<queries, replies, audits>>,
           ChatSound(c, x),
           \/ x.worker # "inserting" \/ chats[c].worker = "inserting"
           \/ Len(queries) <= MaxQueries
    PROVE  RagInv'
  <1>1. RagTyped /\ QueriesBounded
    BY DEF RagInv
  <1>2. LogKept /\ queries' \in Seq(Questions) /\ replies' \in [Keys -> Answers]
    BY <1>1 DEF LogKept, RagTyped
  <1>3. QueriesBounded'
    BY <1>1, BoundUnmoved
  <1> QED
    BY <1>2, <1>3, MoveKeeps

\* Only the stage of the worker changes.
LEMMA WorkerMoves ==
    ASSUME RagInv, NEW c \in Chats, chats[c].worker # "none", NEW w \in Stages, Work(c, w),
           UNCHANGED <<auditing, seconds, window, queries, replies, audits>>,
           w \notin {"looking", "copying"},
           w \in CommitStages => chats[c].worker \in CommitStages,
           w = "storing" => chats[c].cached # NoReply,
           w \in {"caching", "storing"} /\ chats[c].event # NoReply => Recorded(c, chats[c].event),
           w # "inserting" \/ Len(queries) <= MaxQueries
    PROVE  RagInv'
  <1>1. PICK b \in Asked : b = chats[c]
    BY TakenOn DEF RagInv
  <1>2. PICK x : x = [b EXCEPT !.worker = w]
    OBVIOUS
  <1>3. /\ x \in Asked /\ x.worker = w /\ x.handler = b.handler /\ x.code = b.code
        /\ x.question = b.question /\ x.role = b.role /\ x.at = b.at
        /\ x.reply = b.reply /\ x.event = b.event /\ x.cached = b.cached /\ x.inFlight = b.inFlight
    BY <1>2 DEF Asked
  <1>4. Moves(c, x)
    BY <1>1, <1>2, <1>3 DEF Moves, Work, Change
  <1>5. ChatSound(c, b)
    BY <1>1 DEF RagInv
  <1>6. ChatSound(c, x)
    BY <1>1, <1>3, <1>5 DEF ChatSound
  <1> QED
    BY <1>3, <1>4, <1>6, QuietMove

LEMMA PrepareStep ==
    ASSUME RagInv, NEW c \in Chats,
           \/ Expand(c) \/ ReadQueries(c) \/ GenerateQueries(c)
    PROVE  RagInv'
  <1>1. CASE Expand(c)
    <2>1. PICK w \in {"reading", "generating"} : Work(c, w)
      BY <1>1 DEF Expand
    <2> QED
      BY <1>1, <2>1, WorkerMoves DEF Expand, Stages, CommitStages
  <1>2. CASE ReadQueries(c)
    <2>1. PICK w \in {"generated", "error"} : Work(c, w)
      BY <1>2 DEF ReadQueries, Raise
    <2> QED
      BY <1>2, <2>1, WorkerMoves DEF ReadQueries, Stages, CommitStages
  <1>3. CASE GenerateQueries(c)
    <2>1. PICK w \in {"timeout", "error", "choosing", "inserting"} :
                 Work(c, w) /\ (w = "inserting" => ~(Len(queries) > MaxQueries))
      BY <1>3 DEF GenerateQueries, Late, Raise
    <2>2. w # "inserting" \/ Len(queries) <= MaxQueries
      <3>1. Len(queries) \in Nat /\ MaxQueries \in Nat
        BY RagAssumption DEF RagInv, RagTyped
      <3> QED
        BY <2>1, <3>1
    <2>3. w \in Stages /\ w \notin CommitStages /\ w \notin {"looking", "copying", "storing", "caching"}
      BY DEF Stages, CommitStages
    <2> QED
      BY <1>3, <2>1, <2>2, <2>3, WorkerMoves DEF GenerateQueries
  <1> QED
    BY <1>1, <1>2, <1>3

LEMMA LookUpStep == ASSUME RagInv, NEW c \in Chats, LookUp(c) PROVE RagInv'
  <1>1. PICK b \in Asked : b = chats[c] /\ b.worker = "looking"
    BY TakenOn DEF RagInv, LookUp
  <1>2. CASE Work(c, "timeout") \/ Work(c, "error") \/ Work(c, "expanding")
    <2>1. PICK w \in {"timeout", "error", "expanding"} : Work(c, w)
      BY <1>2
    <2> QED
      BY <1>1, <2>1, WorkerMoves DEF LookUp, Stages, CommitStages
  <1>3. CASE ~(Work(c, "timeout") \/ Work(c, "error") \/ Work(c, "expanding"))
    <2>1. PICK k \in Keys : k = CacheKey(b.question, b.role)
      <3>1. b.question \in Questions /\ b.role \in ChatRoles
        BY DEF Asked
      <3> QED
        BY <3>1, KeyOf
    <2>2. PICK found : /\ found = replies[k] /\ found # NoReply
                       /\ chats' = [chats EXCEPT ![c] = [chats[c] EXCEPT !.worker = "copying", !.reply = found]]
      BY <1>1, <1>3, <2>1 DEF LookUp, Late, Raise, Change
    <2>3. /\ found \in Chats /\ chats[found] \in Asked
          /\ CacheKey(chats[found].question, chats[found].role) = k
      BY <2>1, <2>2 DEF RagInv, RagTyped, Answers, RepliesSound
    <2>4. AnswerFor(found, b.question, b.role)
      BY <2>1, <2>3 DEF AnswerFor, CacheKey
    <2>5. PICK x : x = [b EXCEPT !.worker = "copying", !.reply = found]
      OBVIOUS
    <2>6. /\ x \in Asked /\ x.worker = "copying" /\ x.handler = b.handler /\ x.code = b.code
          /\ x.question = b.question /\ x.role = b.role /\ x.at = b.at
          /\ x.reply = found /\ x.event = b.event /\ x.cached = b.cached /\ x.inFlight = b.inFlight
      <3>1. found \in Answers /\ "copying" \in Stages
        BY <2>3 DEF Answers, Stages
      <3>2. PICK y \in Asked : y = [b EXCEPT !.worker = "copying"]
        <4>1. PICK w \in Stages : w = "copying"
          BY <3>1
        <4>2. [b EXCEPT !.worker = w] \in Asked
          BY AtStage
        <4> QED
          BY <4>1, <4>2
      <3>3. x = [y EXCEPT !.reply = found]
        BY <2>5, <3>2
      <3>4. x \in Asked
        BY <3>1, <3>3, WithReply
      <3> QED
        BY <2>5, <3>4 DEF Asked
    <2>7. Moves(c, x) /\ UNCHANGED <<queries, replies, audits>>
      BY <1>1, <2>2, <2>5, <2>6 DEF LookUp, Moves
    <2>8. ChatSound(c, b)
      BY <1>1 DEF RagInv
    <2>9. ChatSound(c, x)
      BY <1>1, <2>4, <2>6, <2>8 DEF ChatSound, CommitStages
    <2> QED
      BY <2>6, <2>7, <2>9, QuietMove
  <1> QED
    BY <1>2, <1>3

LEMMA CopyAuditStep == ASSUME RagInv, NEW c \in Chats, CopyAudit(c) PROVE RagInv'
  <1>1. PICK b \in Asked : b = chats[c] /\ b.worker = "copying"
    BY TakenOn DEF RagInv, CopyAudit
  <1>2. CASE Work(c, "timeout") \/ Work(c, "error")
    <2>1. PICK w \in {"timeout", "error"} : Work(c, w)
      BY <1>2
    <2> QED
      BY <1>1, <2>1, WorkerMoves DEF CopyAudit, Stages, CommitStages
  <1>3. CASE ~(Work(c, "timeout") \/ Work(c, "error"))
    <2>1. PICK same : same = {i \in DOMAIN audits : /\ audits[i].question = b.question
                                                   /\ audits[i].role = b.role}
      OBVIOUS
    <2>2. PICK event : event = IF auditing /\ same # {} THEN audits[Max(same)].reply ELSE NoReply
      OBVIOUS
    <2>3. event \in Answers
      <3>1. audits \in Seq(AuditRows) /\ DOMAIN audits = 1 .. Len(audits) /\ Len(audits) \in Nat
        BY DEF RagInv, RagTyped
      <3>2. same # {} => Max(same) \in same
        BY <2>1, <3>1, LatestOf
      <3>3. same # {} => audits[Max(same)] \in AuditRows
        BY <2>1, <3>1, <3>2
      <3> QED
        BY <2>2, <3>3 DEF AuditRows, Answers
    <2>4. chats' = [chats EXCEPT ![c] = [chats[c] EXCEPT !.worker = "prepared", !.event = event]]
      BY <1>1, <1>3, <2>1, <2>2 DEF CopyAudit, Late, Raise, Change
    <2>5. PICK x : x = [b EXCEPT !.worker = "prepared", !.event = event]
      OBVIOUS
    <2>6. /\ x \in Asked /\ x.worker = "prepared" /\ x.handler = b.handler /\ x.code = b.code
          /\ x.question = b.question /\ x.role = b.role /\ x.at = b.at
          /\ x.reply = b.reply /\ x.event = event /\ x.cached = b.cached /\ x.inFlight = b.inFlight
      <3>1. "prepared" \in Stages
        BY DEF Stages
      <3>2. PICK y \in Asked : y = [b EXCEPT !.worker = "prepared"]
        <4>1. PICK w \in Stages : w = "prepared"
          BY <3>1
        <4>2. [b EXCEPT !.worker = w] \in Asked
          BY AtStage
        <4> QED
          BY <4>1, <4>2
      <3>3. x = [y EXCEPT !.event = event]
        BY <2>5, <3>2
      <3>4. [y EXCEPT !.event = event] \in Asked
        BY <2>3, WithReply
      <3> QED
        BY <2>5, <3>3, <3>4 DEF Asked
    <2>7. Moves(c, x) /\ UNCHANGED <<queries, replies, audits>>
      BY <1>1, <2>4, <2>5, <2>6 DEF CopyAudit, Moves
    <2>8. ChatSound(c, b)
      BY <1>1 DEF RagInv
    <2>9. ChatSound(c, x)
      BY <1>1, <2>6, <2>8 DEF ChatSound, CommitStages
    <2> QED
      BY <2>6, <2>7, <2>9, QuietMove
  <1> QED
    BY <1>2, <1>3

LEMMA ChooseVictimStep == ASSUME RagInv, NEW c \in Chats, ChooseVictim(c) PROVE RagInv'
  <1>1. PICK b \in Asked : b = chats[c] /\ b.worker = "choosing"
    BY TakenOn DEF RagInv, ChooseVictim
  <1>2. CASE Work(c, "error")
    BY <1>1, <1>2, WorkerMoves DEF ChooseVictim, Stages, CommitStages
  <1>3. CASE ~Work(c, "error")
    <2>1. PICK victim : victim = Head(queries)
      OBVIOUS
    <2>2. /\ queries # <<>>
          /\ chats' = [chats EXCEPT ![c] = [chats[c] EXCEPT !.worker = "evicting", !.victim = victim]]
      BY <1>3, <2>1 DEF ChooseVictim, Raise, Change
    <2>3. victim \in Questions
      BY <2>1, <2>2 DEF RagInv, RagTyped
    <2>4. PICK y \in Asked : y = [b EXCEPT !.worker = "evicting"]
      <3>1. PICK w \in Stages : w = "evicting"
        BY DEF Stages
      <3> QED
        BY <3>1, AtStage
    <2>5. PICK x : x = [b EXCEPT !.worker = "evicting", !.victim = victim]
      OBVIOUS
    <2>6. /\ x \in Asked /\ x.worker = "evicting" /\ x.handler = b.handler /\ x.code = b.code
          /\ x.question = b.question /\ x.role = b.role /\ x.at = b.at
          /\ x.reply = b.reply /\ x.event = b.event /\ x.cached = b.cached /\ x.inFlight = b.inFlight
      <3>1. x = [y EXCEPT !.victim = victim]
        BY <2>4, <2>5
      <3>2. [y EXCEPT !.victim = victim] \in Asked
        BY <2>3 DEF Asked
      <3> QED
        BY <2>5, <3>1, <3>2 DEF Asked
    <2>7. Moves(c, x) /\ UNCHANGED <<queries, replies, audits>>
      BY <1>1, <2>2, <2>5, <2>6 DEF ChooseVictim, Moves
    <2>8. ChatSound(c, b)
      BY <1>1 DEF RagInv
    <2>9. ChatSound(c, x)
      BY <1>1, <2>6, <2>8 DEF ChatSound, CommitStages
    <2> QED
      BY <2>6, <2>7, <2>9, QuietMove
  <1> QED
    BY <1>2, <1>3

\* The dictionary is written: an entry goes before the worker inserts its own.
LEMMA DictionaryStep ==
    ASSUME RagInv, NEW c \in Chats, EvictQueries(c) \/ InsertQueries(c)
    PROVE  RagInv'
  <1>1. PICK b \in Asked : b = chats[c] /\ b.worker \in {"evicting", "inserting"}
    BY TakenOn DEF RagInv, EvictQueries, InsertQueries
  <1>2. CASE Work(c, "error") /\ EvictQueries(c) /\ queries' = queries
    BY <1>1, <1>2, WorkerMoves DEF EvictQueries, Stages, CommitStages
  <1>3. CASE ~(Work(c, "error") /\ EvictQueries(c) /\ queries' = queries)
    <2>1. PICK w \in Stages :
             /\ w \in {"inserting", "generated"} /\ Work(c, w)
             /\ queries' \in Seq(Questions)
             /\ \/ w = "inserting" /\ Len(queries') = Len(queries) - 1
                \/ /\ w = "generated" /\ b.worker = "inserting"
                   /\ Len(queries') <= Len(queries) + 1
      <3>1. "inserting" \in Stages /\ "generated" \in Stages
        BY DEF Stages
      <3>2. queries \in Seq(Questions)
        BY DEF RagInv, RagTyped
      <3>3. CASE EvictQueries(c)
        <4>1. PICK i \in DOMAIN queries : queries' = RemoveAt(queries, i)
          BY <1>3, <3>3 DEF EvictQueries, Raise
        <4>2. Work(c, "inserting")
          BY <1>3, <3>3 DEF EvictQueries, Raise
        <4> QED
          BY <3>1, <3>2, <4>1, <4>2, OneRemoved
      <3>4. CASE InsertQueries(c)
        <4>1. b.question \in Questions
          BY DEF Asked
        <4>2. queries' = queries \/ queries' = Append(queries, b.question)
          BY <1>1, <3>4 DEF InsertQueries
        <4>3. queries' \in Seq(Questions) /\ Len(queries') <= Len(queries) + 1
          BY <3>2, <4>1, <4>2
        <4> QED
          BY <1>1, <3>1, <3>4, <4>3 DEF InsertQueries
      <3> QED
        BY <3>3, <3>4
    <2>2. PICK x : x = [b EXCEPT !.worker = w]
      OBVIOUS
    <2>3. /\ x \in Asked /\ x.worker = w /\ x.handler = b.handler /\ x.code = b.code
          /\ x.question = b.question /\ x.role = b.role /\ x.at = b.at
          /\ x.reply = b.reply /\ x.event = b.event /\ x.cached = b.cached /\ x.inFlight = b.inFlight
      BY <2>2 DEF Asked
    <2>4. Moves(c, x) /\ UNCHANGED <<replies, audits>>
      BY <1>1, <2>1, <2>2, <2>3 DEF EvictQueries, InsertQueries, Moves, Work, Change
    <2>5. ChatSound(c, b)
      BY <1>1 DEF RagInv
    <2>6. ChatSound(c, x)
      <3>1. /\ x.worker \notin CommitStages
            /\ x.worker \notin {"looking", "copying"} /\ x.worker \notin {"caching", "storing"}
        BY <2>1, <2>3 DEF CommitStages
      <3> QED
        BY <2>3, <2>5, <3>1 DEF ChatSound
    <2>7. QueriesBounded'
      <3>1. RagTyped /\ QueriesBounded
        BY DEF RagInv
      <3>2. /\ MaxQueries \in Nat /\ Len(queries) \in Nat /\ Len(queries') \in Nat
            /\ Cardinality(Chats)' = Cardinality(Chats)
        BY <2>1, <3>1, RagAssumption DEF RagTyped
      <3>3. CASE w = "inserting"
        <4>1. Len(queries') = Len(queries) - 1
          BY <2>1, <3>3
        <4> QED
          BY <2>4, <3>1, <3>2, <4>1, InsertingMoved DEF QueriesBounded
      <3>4. CASE w = "generated"
        <4>1. Len(queries') <= Len(queries) + 1 /\ chats[c].worker = "inserting" /\ x.worker # "inserting"
          BY <1>1, <2>1, <2>3, <3>4
        <4> QED
          BY <2>4, <3>1, <3>2, <4>1, InsertingMoved DEF QueriesBounded
      <3> QED
        BY <2>1, <3>3, <3>4
    <2>8. LogKept /\ replies' \in [Keys -> Answers] /\ \A k \in Keys : replies'[k] = replies[k]
      BY <2>4 DEF LogKept, RagInv, RagTyped
    <2> QED
      BY <2>1, <2>4, <2>6, <2>7, <2>8, MoveKeeps
  <1> QED
    BY <1>2, <1>3

LEMMA GenerateStep == ASSUME RagInv, NEW c \in Chats, Generate(c) PROVE RagInv'
  <1>1. PICK b \in Asked : b = chats[c] /\ b.worker = "generated"
    BY TakenOn DEF RagInv, Generate
  <1>2. CASE Work(c, "timeout") \/ Work(c, "error") \/ Work(c, "prepared")
    <2>1. PICK w \in {"timeout", "error", "prepared"} : Work(c, w)
      BY <1>2
    <2> QED
      BY <1>1, <2>1, WorkerMoves DEF Generate, Stages, CommitStages
  <1>3. CASE ~(Work(c, "timeout") \/ Work(c, "error") \/ Work(c, "prepared"))
    <2>1. PICK event : event = IF auditing THEN c ELSE NoReply
      OBVIOUS
    <2>2. event \in Answers /\ c \in Answers
      BY <2>1 DEF Answers
    <2>3. chats' = [chats EXCEPT ![c] = [chats[c] EXCEPT !.worker = "prepared", !.reply = c,
                                                         !.cached = c, !.event = event]]
      BY <1>3, <2>1 DEF Generate, Late, Raise, Change
    <2>4. PICK y \in Asked : y = [b EXCEPT !.worker = "prepared"]
      <3>1. PICK w \in Stages : w = "prepared"
        BY DEF Stages
      <3> QED
        BY <3>1, AtStage
    <2>5. PICK y2 \in Asked : y2 = [y EXCEPT !.reply = c]
      BY <2>2, WithReply
    <2>6. PICK y3 \in Asked : y3 = [y2 EXCEPT !.cached = c]
      BY <2>2, WithReply
    <2>7. PICK x \in Asked : x = [y3 EXCEPT !.event = event]
      BY <2>2, WithReply
    <2>8. /\ x = [b EXCEPT !.worker = "prepared", !.reply = c, !.cached = c, !.event = event]
          /\ x.worker = "prepared" /\ x.handler = b.handler /\ x.code = b.code
          /\ x.question = b.question /\ x.role = b.role /\ x.at = b.at
          /\ x.reply = c /\ x.event = event /\ x.cached = c /\ x.inFlight = b.inFlight
      <3>1. x = [b EXCEPT !.worker = "prepared", !.reply = c, !.cached = c, !.event = event]
        BY <2>4, <2>5, <2>6, <2>7
      <3> QED
        BY <3>1 DEF Asked
    <2>9. Moves(c, x) /\ UNCHANGED <<queries, replies, audits>>
      BY <1>1, <2>3, <2>8 DEF Generate, Moves
    <2>10. ChatSound(c, x)
      <3>1. /\ x.code = 429 => x.handler = "answered"
            /\ x.inFlight = TRUE /\ auditing => Recorded(c, c)
        BY <1>1, <2>8 DEF RagInv, ChatSound
      <3> QED
        BY <2>1, <2>8, <3>1 DEF ChatSound, CommitStages
    <2> QED
      BY <2>8, <2>9, <2>10, QuietMove
  <1> QED
    BY <1>2, <1>3

-----------------------------------------------------------------------------
(* The steps of the worker that commits it                                 *)

LEMMA CommitStep ==
    ASSUME RagInv, NEW c \in Chats, StartAudit(c) \/ StartCaching(c) \/ FinishCommit(c)
    PROVE  RagInv'
  <1>1. PICK b \in Asked : b = chats[c] /\ b.worker \in {"auditing", "caching", "finishing"}
    BY TakenOn DEF RagInv, StartAudit, StartCaching, FinishCommit
  <1>2. PICK w \in {"timeout", "caching", "inserting row", "finishing", "storing", "committed"} :
           /\ Work(c, w)
           /\ w = "caching" => b.event = NoReply
           /\ w = "storing" => b.cached # NoReply /\ b.worker = "caching"
    BY <1>1 DEF StartAudit, StartCaching, FinishCommit, Late
  <1>3. w \in {"caching", "storing"} /\ b.event # NoReply => Recorded(c, b.event)
    <2>1. ChatSound(c, b)
      BY <1>1 DEF RagInv
    <2> QED
      BY <1>2, <2>1 DEF ChatSound
  <1>4. w \in Stages /\ w \notin {"looking", "copying", "inserting"} /\ b.worker \in CommitStages
    BY <1>1 DEF Stages, CommitStages
  <1>5. UNCHANGED <<auditing, seconds, window, queries, replies, audits>>
    BY DEF StartAudit, StartCaching, FinishCommit
  <1> QED
    BY <1>1, <1>2, <1>3, <1>4, <1>5, WorkerMoves

\* The log grows by a row of the request, or not at all.
LEMMA WriteAuditStep == ASSUME RagInv, NEW c \in Chats, WriteAudit(c) PROVE RagInv'
  <1>1. PICK b \in Asked : b = chats[c] /\ b.worker = "inserting row"
    BY TakenOn DEF RagInv, WriteAudit
  <1>2. PICK entry : entry = [question |-> b.question, role |-> b.role, reply |-> b.event, by |-> c]
    OBVIOUS
  <1>3. entry \in AuditRows /\ entry.reply = b.event /\ entry.by = c
    BY <1>2 DEF AuditRows, Asked
  <1>4. PICK w \in Stages :
           /\ w \in {"caching", "error"} /\ Work(c, w)
           /\ audits' \in {audits, Append(audits, entry)}
           /\ w = "caching" => audits' = Append(audits, entry)
    <2>1. "caching" \in Stages /\ "error" \in Stages
      BY DEF Stages, CommitStages
    <2> QED
      BY <1>1, <1>2, <2>1 DEF WriteAudit, Raise
  <1>5. LogKept
    <2>1. audits \in Seq(AuditRows)
      BY DEF RagInv, RagTyped
    <2> QED
      BY <1>3, <1>4, <2>1 DEF LogKept
  <1>6. w = "caching" => Recorded(c, b.event)'
    <2>1. audits \in Seq(AuditRows)
      BY DEF RagInv, RagTyped
    <2>2. ASSUME w = "caching"
          PROVE  \E i \in DOMAIN audits' : audits'[i].by = c /\ audits'[i].reply = b.event
      <3>1. audits' = Append(audits, entry) /\ Len(audits) + 1 \in DOMAIN audits'
        BY <1>3, <1>4, <2>1, <2>2
      <3>2. audits'[Len(audits) + 1] = entry
        BY <2>1, <3>1
      <3> QED
        BY <1>3, <3>1, <3>2
    <2> QED
      BY <2>2 DEF Recorded
  <1>7. PICK x : x = [b EXCEPT !.worker = w]
    OBVIOUS
  <1>8. /\ x \in Asked /\ x.worker = w /\ x.handler = b.handler /\ x.code = b.code
        /\ x.question = b.question /\ x.role = b.role /\ x.at = b.at
        /\ x.reply = b.reply /\ x.event = b.event /\ x.cached = b.cached /\ x.inFlight = b.inFlight
    BY <1>7 DEF Asked
  <1>9. Moves(c, x) /\ UNCHANGED <<queries, replies>>
    <2>1. UNCHANGED <<auditing, seconds, window, queries, replies>>
      BY DEF WriteAudit
    <2>2. chats' = [chats EXCEPT ![c] = x]
      BY <1>1, <1>4, <1>7 DEF Work, Change
    <2> QED
      BY <1>1, <1>8, <2>1, <2>2 DEF Moves
  <1>10. ChatSound(c, x)'
    <2>1. ChatSound(c, b)'
      <3>1. ChatSound(c, b)
        BY <1>1 DEF RagInv
      <3> QED
        BY <1>5, <1>9, <3>1, SoundKept DEF RagInv
    <2>2. x.handler \in {"committing", "draining"} /\ x.code # 429
      <3>1. ChatSound(c, b)
        BY <1>1 DEF RagInv
      <3> QED
        BY <1>1, <1>8, <3>1 DEF ChatSound, CommitStages
    <2>3. x.worker \notin {"looking", "copying"} /\ x.worker # "storing"
      BY <1>4, <1>8
    <2>4. x.worker \in {"caching", "storing"} => Recorded(c, x.event)'
      BY <1>4, <1>6, <1>8 DEF Recorded
    <2>5. /\ x.cached # NoReply => x.cached = c /\ (auditing' => x.event = c)
          /\ x.reply # NoReply => x.reply = c \/ AnswerFor(x.reply, x.question, x.role)'
          /\ x.inFlight = TRUE /\ auditing' => Recorded(c, c)'
      BY <1>8, <2>1 DEF ChatSound, AnswerFor, Recorded
    <2> QED
      BY <2>2, <2>3, <2>4, <2>5 DEF ChatSound
  <1>11. QueriesBounded'
    BY <1>4, <1>8, <1>9, BoundUnmoved DEF RagInv
  <1>12. /\ queries' \in Seq(Questions) /\ replies' \in [Keys -> Answers]
         /\ \A k \in Keys : replies'[k] = replies[k]
    BY <1>9 DEF RagInv, RagTyped
  <1> QED
    BY <1>5, <1>9, <1>10, <1>11, <1>12, MoveKeeps

\* The cache is given the answer of the request, which was audited before.
LEMMA StoresAudited ==
    ASSUME RagInv, NEW c, NEW x, Moves(c, x), ChatSound(c, x), UNCHANGED <<queries, audits>>,
           x.worker # "inserting" \/ chats[c].worker = "inserting",
           auditing => Recorded(c, c), replies' \in {replies, Stored(c)}
    PROVE  RagInv'
  <1>1. LogKept /\ queries' \in Seq(Questions)
    BY DEF LogKept, RagInv, RagTyped
  <1>2. QueriesBounded'
    BY BoundUnmoved DEF RagInv
  <1>3. PICK key \in Keys : key = CacheKey(x.question, x.role)
    <2>1. x.question \in Questions /\ x.role \in ChatRoles
      BY DEF Moves, Asked
    <2> QED
      BY <2>1, KeyOf
  <1>4. replies' \in {replies, [replies EXCEPT ![key] = c]}
    BY <1>3 DEF Stored, Moves
  <1>5. replies' \in [Keys -> Answers]
    BY <1>4 DEF RagInv, RagTyped, Answers, Moves
  <1>6. ASSUME NEW k \in Keys
        PROVE  \/ replies'[k] \in {replies[k], NoReply}
               \/ /\ replies'[k] = c /\ CacheKey(x.question, x.role) = k
                  /\ auditing => Recorded(c, c)'
    <2>1. auditing => Recorded(c, c)'
      BY DEF Recorded
    <2>2. replies'[k] = replies[k] \/ (k = key /\ replies'[k] = c)
      BY <1>4 DEF RagInv, RagTyped
    <2> QED
      BY <1>3, <2>1, <2>2
  <1> QED
    BY <1>1, <1>2, <1>5, <1>6, MoveKeeps

\* A SETEX may be given up while Redis still receives it.
LEMMA StoreReplyStep == ASSUME RagInv, NEW c \in Chats, StoreReply(c) PROVE RagInv'
  <1>1. PICK b \in Asked : b = chats[c] /\ b.worker = "storing"
    BY TakenOn DEF RagInv, StoreReply
  <1>2. PICK y \in Asked : y = [b EXCEPT !.worker = "finishing"]
    <2>1. PICK w \in Stages : w = "finishing"
      BY DEF Stages, CommitStages
    <2> QED
      BY <2>1, AtStage
  <1>3. PICK flight \in BOOLEAN :
           /\ flight = b.inFlight \/ flight = TRUE
           /\ chats' = [chats EXCEPT ![c] = [b EXCEPT !.worker = "finishing", !.inFlight = flight]]
           /\ replies' \in {replies, Stored(c)}
    <2>1. b.inFlight \in BOOLEAN
      BY DEF Asked
    <2>2. [b EXCEPT !.worker = "finishing", !.inFlight = b.inFlight] = [b EXCEPT !.worker = "finishing"]
      BY DEF Asked
    <2> QED
      BY <1>1, <2>1, <2>2 DEF StoreReply, Work, Change
  <1>4. PICK x \in Asked : x = [y EXCEPT !.inFlight = flight]
    BY WithFlight
  <1>5. x = [b EXCEPT !.worker = "finishing", !.inFlight = flight]
    BY <1>2, <1>4
  <1>6. /\ x.worker = "finishing" /\ x.handler = b.handler /\ x.code = b.code
        /\ x.question = b.question /\ x.role = b.role /\ x.at = b.at
        /\ x.reply = b.reply /\ x.event = b.event /\ x.cached = b.cached
    BY <1>5 DEF Asked
  <1>7. Moves(c, x) /\ UNCHANGED <<queries, audits>>
    BY <1>1, <1>3, <1>5, <1>6 DEF StoreReply, Moves
  <1>8. ChatSound(c, b)
    BY <1>1 DEF RagInv
  <1>9. auditing => Recorded(c, c)
    <2>1. c # NoReply
      BY RagAssumption
    <2> QED
      BY <1>1, <1>8, <2>1 DEF ChatSound
  <1>10. ChatSound(c, x)
    BY <1>1, <1>6, <1>8, <1>9 DEF ChatSound, CommitStages
  <1> QED
    BY <1>3, <1>6, <1>7, <1>9, <1>10, StoresAudited

\* What Redis applies late was audited before it was sent.
LEMMA StoredLateStep == ASSUME RagInv, NEW c \in Chats, StoredLate(c) PROVE RagInv'
  <1>1. PICK b \in Asked : b = chats[c] /\ b.inFlight
    BY InFlightTaken DEF RagInv, StoredLate
  <1>2. PICK x \in Asked : x = [b EXCEPT !.inFlight = FALSE]
    BY WithFlight
  <1>3. /\ x.worker = b.worker /\ x.handler = b.handler /\ x.code = b.code
        /\ x.question = b.question /\ x.role = b.role /\ x.at = b.at
        /\ x.reply = b.reply /\ x.event = b.event /\ x.cached = b.cached /\ x.inFlight = FALSE
    BY <1>2 DEF Asked
  <1>4. Moves(c, x) /\ UNCHANGED <<queries, audits>>
    BY <1>1, <1>2, <1>3 DEF StoredLate, Moves, Change
  <1>5. ChatSound(c, b)
    BY <1>1 DEF RagInv
  <1>6. ChatSound(c, x)
    BY <1>3, <1>5 DEF ChatSound
  <1>7. replies' = Stored(c)
    BY DEF StoredLate
  <1>8. auditing => Recorded(c, c)
    BY <1>1, <1>5 DEF ChatSound
  <1> QED
    BY <1>1, <1>3, <1>4, <1>6, <1>7, <1>8, StoresAudited

LEMMA WorkerStep == ASSUME RagInv, NEW c \in Chats, Worker(c) PROVE RagInv'
  BY PrepareStep, LookUpStep, CopyAuditStep, ChooseVictimStep, DictionaryStep, GenerateStep,
     CommitStep, WriteAuditStep, StoreReplyStep DEF Worker

-----------------------------------------------------------------------------
(* The steps of the handler                                                *)

LEMMA DeadlineStep == ASSUME RagInv, NEW c \in Chats, DeadlinePasses(c) PROVE RagInv'
  <1>1. PICK b \in Asked : b = chats[c]
    BY TakenOn DEF RagInv, DeadlinePasses
  <1>2. PICK x : x = [b EXCEPT !.late = TRUE]
    OBVIOUS
  <1>3. /\ x \in Asked /\ x.worker = b.worker /\ x.handler = b.handler /\ x.code = b.code
        /\ x.question = b.question /\ x.role = b.role /\ x.at = b.at
        /\ x.reply = b.reply /\ x.event = b.event /\ x.cached = b.cached /\ x.inFlight = b.inFlight
    <2>1. x \in Asked
      BY <1>2, WithLate
    <2> QED
      BY <1>2, <2>1 DEF Asked
  <1>4. Moves(c, x) /\ UNCHANGED <<queries, replies, audits>>
    BY <1>1, <1>2, <1>3 DEF DeadlinePasses, Moves, Change
  <1>5. ChatSound(c, b)
    BY <1>1 DEF RagInv
  <1>6. ChatSound(c, x)
    BY <1>3, <1>5 DEF ChatSound
  <1> QED
    BY <1>1, <1>3, <1>4, <1>6, QuietMove

\* The request is answered with no worker left to write for it.
LEMMA AnswerStep ==
    ASSUME RagInv, NEW c \in Chats, NEW code \in {200, 500, 504}, NEW reply,
           Answered(c, code, reply), reply \in {NoReply, chats[c].reply},
           UNCHANGED <<auditing, seconds, window, queries, replies, audits>>,
           chats[c].handler \in {"preparing", "committing", "draining"},
           chats[c].worker \notin CommitStages
    PROVE  RagInv'
  <1>1. PICK b \in Asked : b = chats[c] /\ b.code \in Codes
    BY TakenOn DEF RagInv, Asked
  <1>2. reply \in Answers
    BY <1>1 DEF Asked, Answers
  <1>3. PICK y \in Asked : y = [b EXCEPT !.handler = "answered"]
    <2>1. PICK h \in {"preparing", "committing", "draining", "answered"} : h = "answered"
      OBVIOUS
    <2> QED
      BY <2>1, AtHandler
  <1>4. PICK y2 \in Asked : y2 = [y EXCEPT !.code = code]
    <2>1. PICK k \in Codes : k = code
      BY DEF Codes
    <2>2. [y EXCEPT !.code = k] \in Asked
      BY WithCode
    <2> QED
      BY <2>1, <2>2
  <1>5. PICK x \in Asked : x = [y2 EXCEPT !.reply = reply]
    <2>1. PICK r \in Answers : r = reply
      BY <1>2
    <2>2. [y2 EXCEPT !.reply = r] \in Asked
      BY WithReply
    <2> QED
      BY <2>1, <2>2
  <1>6. x = [b EXCEPT !.handler = "answered", !.code = code, !.reply = reply]
    BY <1>3, <1>4, <1>5
  <1>7. /\ x.worker = b.worker /\ x.code = code
        /\ x.question = b.question /\ x.role = b.role /\ x.at = b.at
        /\ x.reply = reply /\ x.event = b.event /\ x.cached = b.cached /\ x.inFlight = b.inFlight
    BY <1>6 DEF Asked
  <1>8. ChatSound(c, b)
    BY <1>1 DEF RagInv
  <1>9. x.code \notin {429, 503} /\ b.code \notin {429, 503}
    BY <1>1, <1>7, <1>8 DEF ChatSound, Codes
  <1>10. Moves(c, x)
    <2>1. chats' = [chats EXCEPT ![c] = x]
      BY <1>1, <1>6 DEF Answered, Change
    <2> QED
      BY <1>1, <1>7, <1>9, <2>1 DEF Moves
  <1>11. ChatSound(c, x)
    BY <1>1, <1>7, <1>8, <1>9 DEF ChatSound
  <1> QED
    BY <1>1, <1>7, <1>10, <1>11, QuietMove

LEMMA CollectStep ==
    ASSUME RagInv, NEW c \in Chats, Collect(c),
           UNCHANGED <<auditing, seconds, window, queries, replies, audits>>
    PROVE  RagInv'
  <1>1. PICK b \in Asked : b = chats[c] /\ b.handler = "preparing"
    BY TakenOn DEF RagInv, Collect
  <1>2. b.worker \notin CommitStages
    BY <1>1 DEF RagInv, ChatSound
  <1>3. CASE Answered(c, 500, NoReply) \/ Answered(c, 504, NoReply)
    BY <1>1, <1>2, <1>3, AnswerStep
  <1>4. CASE ~(Answered(c, 500, NoReply) \/ Answered(c, 504, NoReply))
    <2>1. chats' = [chats EXCEPT ![c] = [chats[c] EXCEPT !.handler = "committing", !.worker = "auditing"]]
      BY <1>4 DEF Collect, Change
    <2>2. PICK y \in Asked : y = [b EXCEPT !.handler = "committing"]
      <3>1. PICK h \in {"preparing", "committing", "draining", "answered"} : h = "committing"
        OBVIOUS
      <3> QED
        BY <3>1, AtHandler
    <2>3. PICK x \in Asked : x = [y EXCEPT !.worker = "auditing"]
      <3>1. PICK w \in Stages : w = "auditing"
        BY DEF Stages, CommitStages
      <3>2. [y EXCEPT !.worker = w] \in Asked
        BY AtStage
      <3> QED
        BY <3>1, <3>2
    <2>4. x = [b EXCEPT !.handler = "committing", !.worker = "auditing"]
      BY <2>2, <2>3
    <2>5. /\ x.handler = "committing" /\ x.worker = "auditing" /\ x.code = b.code
          /\ x.question = b.question /\ x.role = b.role /\ x.at = b.at
          /\ x.reply = b.reply /\ x.event = b.event /\ x.cached = b.cached /\ x.inFlight = b.inFlight
      BY <2>4 DEF Asked
    <2>6. ChatSound(c, b)
      BY <1>1 DEF RagInv
    <2>7. Moves(c, x)
      BY <1>1, <2>1, <2>4, <2>5 DEF Moves
    <2>8. ChatSound(c, x)
      BY <1>1, <2>5, <2>6 DEF ChatSound
    <2> QED
      BY <2>5, <2>7, <2>8, QuietMove
  <1> QED
    BY <1>3, <1>4

LEMMA TimeOutStep ==
    ASSUME RagInv, NEW c \in Chats, TimeOut(c),
           UNCHANGED <<auditing, seconds, window, queries, replies, audits>>
    PROVE  RagInv'
  <1>1. PICK b \in Asked : b = chats[c] /\ b.handler = "committing"
    BY TakenOn DEF RagInv, TimeOut
  <1>2. PICK y \in Asked : y = [b EXCEPT !.handler = "draining"]
    <2>1. PICK h \in {"preparing", "committing", "draining", "answered"} : h = "draining"
      OBVIOUS
    <2> QED
      BY <2>1, AtHandler
  <1>3. PICK x \in Asked : x = [y EXCEPT !.code = 504]
    <2>1. PICK code \in Codes : code = 504
      BY DEF Codes
    <2>2. [y EXCEPT !.code = code] \in Asked
      BY WithCode
    <2> QED
      BY <2>1, <2>2
  <1>4. x = [b EXCEPT !.handler = "draining", !.code = 504]
    BY <1>2, <1>3
  <1>5. /\ x.handler = "draining" /\ x.worker = b.worker /\ x.code = 504
        /\ x.question = b.question /\ x.role = b.role /\ x.at = b.at
        /\ x.reply = b.reply /\ x.event = b.event /\ x.cached = b.cached /\ x.inFlight = b.inFlight
    BY <1>4 DEF Asked
  <1>6. ChatSound(c, b)
    BY <1>1 DEF RagInv
  <1>7. Moves(c, x)
    <2>1. chats' = [chats EXCEPT ![c] = x]
      BY <1>1, <1>4 DEF TimeOut, Change, WaitsForCommit
    <2>2. b.code \notin {429, 503}
      BY <1>1, <1>6 DEF ChatSound, Asked, Codes
    <2> QED
      BY <1>1, <1>5, <2>1, <2>2 DEF Moves
  <1>8. ChatSound(c, x)
    BY <1>1, <1>5, <1>6 DEF ChatSound
  <1> QED
    BY <1>1, <1>5, <1>7, <1>8, QuietMove

LEMMA HandlerStep == ASSUME RagInv, NEW c \in Chats, ChatHandler(c) PROVE RagInv'
  <1>1. UNCHANGED <<auditing, seconds, window, queries, replies, audits>>
    BY DEF ChatHandler
  <1>2. ~Working(c) => chats[c].worker \notin CommitStages
    BY DEF Working, CommitStages
  <1>3. CASE GiveUp(c)
    <2>1. chats[c].handler = "preparing" /\ Answered(c, 504, NoReply)
      BY <1>3 DEF GiveUp
    <2>2. chats[c] \in Asked
      BY <2>1, TakenOn DEF RagInv
    <2>3. chats[c].worker \notin CommitStages
      BY <2>1, <2>2 DEF RagInv, ChatSound
    <2> QED
      BY <1>1, <2>1, <2>3, AnswerStep
  <1>4. CASE Collect(c)
    BY <1>1, <1>4, CollectStep
  <1>5. CASE TimeOut(c)
    BY <1>1, <1>5, TimeOutStep
  <1>6. CASE Settle(c)
    <2>1. PICK code \in {200, 500, 504}, reply \in {NoReply, chats[c].reply} :
             Answered(c, code, reply)
      BY <1>6 DEF Settle
    <2> QED
      BY <1>1, <1>2, <1>6, <2>1, AnswerStep DEF Settle
  <1>7. CASE Drained(c)
    BY <1>1, <1>2, <1>7, AnswerStep DEF Drained
  <1> QED
    BY <1>3, <1>4, <1>5, <1>6, <1>7 DEF ChatHandler

-----------------------------------------------------------------------------
(* The steps that take a request on, and those of time                     *)

\* A request that nobody knew holds x from now on.
Takes(c, x) ==
    /\ c \in Chats /\ chats[c] = Unasked /\ x \in Refused \union Asked /\ x.worker # "inserting"
    /\ chats' = [chats EXCEPT ![c] = x]
    /\ UNCHANGED <<auditing, seconds, queries, replies, audits>>

LEMMA TakesKeeps ==
    ASSUME RagInv, NEW c, NEW x, Takes(c, x), window' \subseteq Chats, RateKept',
           x \in Asked => ChatSound(c, x)
    PROVE  RagInv'
  <1>1. /\ c \in Chats /\ chats'[c] = x /\ \A d \in Chats : d # c => chats'[d] = chats[d]
        /\ chats[c] \notin Asked
    BY DEF Takes, RagInv, RagTyped, Asked, Unasked
  <1>2. RagTyped'
    <2>1. chats' \in [Chats -> {Unasked} \union Refused \union Asked]
      BY DEF Takes, RagInv, RagTyped
    <2> QED
      BY <2>1 DEF Takes, RagInv, RagTyped
  <1>3. QueriesBounded'
    <2>1. Inserting' = Inserting
      <3>1. chats[c].worker # "inserting" /\ x.worker # "inserting"
        BY DEF Takes, Unasked
      <3> QED
        BY <1>1, <3>1 DEF Inserting
    <2>2. queries' = queries
      BY DEF Takes
    <2> QED
      BY <2>1, <2>2 DEF RagInv, QueriesBounded
  <1>4. \A d \in Chats : chats[d] \in Asked => d # c /\ chats'[d] = chats[d]
    BY <1>1
  <1>5. \A d, reply : Recorded(d, reply) => Recorded(d, reply)'
    BY DEF Recorded, Takes
  <1>6. \A d, question, role : AnswerFor(d, question, role) => AnswerFor(d, question, role)'
    BY <1>4 DEF AnswerFor
  <1>7. \A d, y : ChatSound(d, y) => ChatSound(d, y)'
    BY <1>5, <1>6 DEF ChatSound, Takes
  <1>8. ASSUME NEW d \in Chats, chats'[d] \in Asked PROVE ChatSound(d, chats[d])'
    <2>1. PICK y : y = chats'[d]
      OBVIOUS
    <2>2. ChatSound(d, y)
      BY <1>1, <1>8, <2>1 DEF RagInv
    <2>3. ChatSound(d, y)'
      BY <1>7, <2>2
    <2> QED
      BY <2>1, <2>3 DEF ChatSound
  <1>9. RepliesSound'
    <2>1. ASSUME NEW k \in Keys, NEW d, d = replies[k], d # NoReply
          PROVE  /\ chats'[d] \in Asked
                 /\ CacheKey(chats'[d].question, chats'[d].role) = k
                 /\ auditing' => Recorded(d, d)'
      <3>1. d \in Chats
        BY <2>1 DEF RagInv, RagTyped, Answers
      <3>2. /\ chats[d] \in Asked
            /\ CacheKey(chats[d].question, chats[d].role) = k
            /\ auditing => Recorded(d, d)
        BY <2>1 DEF RagInv, RepliesSound
      <3> QED
        BY <1>4, <1>5, <3>1, <3>2 DEF Takes
    <2>2. replies' = replies
      BY DEF Takes
    <2> QED
      BY <2>1, <2>2 DEF RepliesSound, Recorded, CacheKey
  <1> QED
    BY <1>2, <1>3, <1>8, <1>9 DEF RagInv

LEMMA DeclineStep == ASSUME RagInv, NEW c \in Chats, Decline(c) PROVE RagInv'
  <1>1. PICK x : x = [handler |-> "answered", worker |-> "none", late |-> FALSE,
                      inFlight |-> FALSE, code |-> 503, reply |-> NoReply, at |-> seconds]
    OBVIOUS
  <1>2. x \in Refused /\ x.worker # "inserting" /\ x.code = 503 /\ x.at = seconds
    BY <1>1 DEF Refused, RagInv, RagTyped
  <1>3. Takes(c, x) /\ window' = window
    BY <1>1, <1>2 DEF Decline, Takes, Change
  <1>4. x \notin Asked
    BY <1>2 DEF Asked, Codes
  <1>5. RateKept'
    <2>1. /\ chats'[c] = x /\ chats[c] = Unasked
          /\ \A d \in Chats : d # c => chats'[d] = chats[d]
      BY <1>3 DEF Takes, RagInv, RagTyped
    <2>2. seconds' = seconds /\ seconds \in Nat
      BY <1>3 DEF Takes, RagInv, RagTyped
    <2>3. \A d \in Chats : /\ Counted(d)' <=> Counted(d)
                           /\ Counted(d) => chats'[d].at = chats[d].at
      BY <1>2, <2>1 DEF Counted
    <2>4. \A t \in Nat : CountedIn(t)' = CountedIn(t)
      BY <2>3 DEF CountedIn
    <2>5. \A d \in Chats : chats'[d] # Unasked => chats'[d].at <= seconds'
      BY <1>2, <2>1, <2>2 DEF RagInv, RateKept
    <2>6. \A d \in Chats : Counted(d)' /\ chats'[d].at + RateWindow > seconds' => d \in window'
      BY <1>3, <2>2, <2>3 DEF RagInv, RateKept
    <2>7. \A t \in Nat : Cardinality(CountedIn(t)') <= RateLimit
      BY <2>4 DEF RagInv, RateKept
    <2> QED
      BY <2>5, <2>6, <2>7 DEF RateKept
  <1> QED
    BY <1>3, <1>4, <1>5, TakesKeeps DEF RagInv, RagTyped

\* What a request that is taken on holds, and the requests of the last minute.
Taken(question, role, handler, worker, code) ==
    [handler |-> handler, worker |-> worker, late |-> FALSE, inFlight |-> FALSE, code |-> code,
     question |-> question, role |-> role, reply |-> NoReply, event |-> NoReply,
     cached |-> NoReply, victim |-> question, at |-> seconds]
Recent == {w \in window : chats[w].at + RateWindow > seconds}

\* The window is left with the recent requests, and has room for one that is counted.
Verdict(handler, worker, code) ==
    \/ handler = "answered" /\ worker = "none" /\ code \in {403, 429}
    \/ handler = "preparing" /\ worker = "looking" /\ code = 0
Charged(c, code) ==
    \/ Cardinality(Recent) >= RateLimit /\ window' = Recent /\ code = 429
    \/ ~(Cardinality(Recent) >= RateLimit) /\ window' = Recent \union {c} /\ code # 429

\* The limit holds in every minute, for it holds in the one that ends now.
LEMMA AdmitKeepsRate ==
    ASSUME RagInv, NEW c, NEW x, Takes(c, x), x.at = seconds, x.code \in {0, 403, 429},
           Charged(c, x.code)
    PROVE  RateKept' /\ window' \subseteq Chats
  <1> USE DEF Charged
  <1>1. /\ c \in Chats /\ chats'[c] = x /\ chats[c] = Unasked /\ x # Unasked
        /\ \A d \in Chats : d # c => chats'[d] = chats[d]
    <2>1. x.handler # "unasked"
      BY DEF Takes, Refused, Asked
    <2> QED
      BY <2>1 DEF Takes, RagInv, RagTyped, Unasked
  <1>2. seconds' = seconds /\ seconds \in Nat /\ RateWindow \in Nat /\ RateLimit \in Nat \ {0}
    BY RagAssumption DEF Takes, RagInv, RagTyped
  <1>3. window \subseteq Chats /\ Recent \subseteq Chats /\ window' \subseteq Chats
    BY <1>1 DEF RagInv, RagTyped, Recent
  <1>4. ASSUME NEW d \in Chats, chats[d] # Unasked PROVE chats[d].at \in Nat
    <2>1. chats[d] \in Refused \union Asked
      BY <1>4 DEF RagInv, RagTyped
    <2> QED
      BY <2>1 DEF Refused, Asked
  <1>5. \A d \in Chats : d # c => /\ Counted(d)' <=> Counted(d)
                                  /\ Counted(d) => chats'[d].at = chats[d].at
    BY <1>1 DEF Counted
  <1>6. ~Counted(c) /\ (Counted(c)' <=> x.code # 429)
    BY <1>1 DEF Counted
  <1>7. \A d \in Chats : chats'[d] # Unasked => chats'[d].at <= seconds'
    BY <1>1, <1>2 DEF RagInv, RateKept
  <1>8. \A d \in Chats : Counted(d) /\ chats[d].at + RateWindow > seconds => d \in Recent
    BY DEF RagInv, RateKept, Recent
  <1>9. \A d \in Chats : Counted(d)' /\ chats'[d].at + RateWindow > seconds' => d \in window'
    <2>1. Counted(c)' => c \in window'
      BY <1>6
    <2>2. ASSUME NEW d \in Chats, d # c, Counted(d)', chats'[d].at + RateWindow > seconds'
          PROVE  d \in window'
      BY <1>2, <1>5, <1>8, <2>2
    <2> QED
      BY <2>1, <2>2
  <1>10. ASSUME NEW t \in Nat PROVE Cardinality(CountedIn(t)') <= RateLimit
    <2>1. PICK old, new : old = CountedIn(t) /\ new = CountedIn(t)'
      OBVIOUS
    <2>2. Cardinality(old) <= RateLimit
      BY <2>1 DEF RagInv, RateKept
    <2>3. \A d \in Chats : d # c => (d \in new <=> d \in old)
      BY <1>5, <2>1 DEF CountedIn
    <2>4. CASE c \notin new
      <3>1. new = old
        BY <1>6, <2>1, <2>3, <2>4 DEF CountedIn
      <3> QED
        BY <2>1, <2>2, <3>1
    <2>5. CASE c \in new
      <3>1. seconds < t + RateWindow /\ x.code # 429
        BY <1>1, <1>6, <2>1, <2>5 DEF CountedIn
      <3>2. ASSUME NEW d \in new, d # c PROVE d \in Recent
        <4>1. d \in Chats /\ Counted(d) /\ t <= chats[d].at /\ chats[d].at < t + RateWindow
          BY <2>1, <2>3, <3>2 DEF CountedIn
        <4>2. chats[d].at \in Nat
          BY <1>4, <4>1 DEF Counted
        <4>3. chats[d].at + RateWindow > seconds
          BY <1>2, <3>1, <4>1, <4>2
        <4> QED
          BY <1>8, <4>1, <4>3
      <3>3. IsFiniteSet(Recent) /\ Cardinality(Recent) \in Nat
        BY <1>3, RagAssumption, FS_Subset, FS_CardinalityType
      <3>4. Cardinality(Recent) < RateLimit
        BY <1>2, <3>1, <3>3
      <3>5. /\ IsFiniteSet(Recent \union {c}) /\ Cardinality(Recent \union {c}) \in Nat
            /\ Cardinality(Recent \union {c}) <= Cardinality(Recent) + 1
        <4>1. /\ IsFiniteSet(Recent \union {c})
              /\ Cardinality(Recent \union {c})
                 = IF c \in Recent THEN Cardinality(Recent) ELSE Cardinality(Recent) + 1
          BY <3>3, FS_AddElement
        <4> QED
          BY <3>3, <4>1
      <3>6. Cardinality(new) <= Cardinality(Recent \union {c}) /\ Cardinality(new) \in Nat
        <4>1. new \subseteq Recent \union {c}
          BY <3>2
        <4> QED
          BY <3>5, <4>1, FS_Subset, FS_CardinalityType
      <3>7. Cardinality(new) <= RateLimit
        BY <1>2, <3>3, <3>4, <3>5, <3>6
      <3> QED
        BY <2>1, <3>7
    <2> QED
      BY <2>4, <2>5
  <1> QED
    BY <1>3, <1>7, <1>9, <1>10 DEF RateKept

LEMMA AdmitAs ==
    ASSUME RagInv, NEW c \in Chats, NEW question \in Questions, NEW role \in ChatRoles,
           NEW handler, NEW worker, NEW code, Verdict(handler, worker, code),
           Admit(c, question, role),
           chats' = [chats EXCEPT ![c] = Taken(question, role, handler, worker, code)],
           Charged(c, code)
    PROVE  RagInv'
  <1> DEFINE x == Taken(question, role, handler, worker, code)
  <1>1. /\ x.worker = worker /\ x.handler = handler /\ x.code = code /\ x.at = seconds
        /\ x.cached = NoReply /\ x.event = NoReply /\ x.reply = NoReply /\ x.inFlight = FALSE
    BY DEF Taken
  <1> USE DEF Verdict
  <1>2. x \in Asked
    <2>1. worker \in Stages /\ code \in Codes /\ NoReply \in Answers /\ seconds \in Nat
      BY DEF Stages, Codes, Answers, RagInv, RagTyped
    <2>2. handler \in {"preparing", "committing", "draining", "answered"}
      OBVIOUS
    <2> HIDE DEF Stages, Codes, Answers
    <2> QED
      BY <2>1, <2>2 DEF Asked, Taken
  <1> HIDE DEF x
  <1>3. Takes(c, x)
    <2>1. chats[c] = Unasked /\ UNCHANGED <<auditing, seconds, queries, replies, audits>>
      BY DEF Admit
    <2>2. x.worker # "inserting"
      BY <1>1
    <2> QED
      BY <1>2, <2>1, <2>2 DEF Takes, x
  <1>4. ChatSound(c, x)
    <2>1. x.worker \notin CommitStages /\ x.worker \notin {"caching", "storing"}
      BY <1>1 DEF CommitStages
    <2>2. x.code = 429 => x.handler = "answered"
      BY <1>1
    <2> QED
      BY <1>1, <2>1, <2>2 DEF ChatSound
  <1>5. RateKept' /\ window' \subseteq Chats
    <2>1. x.code \in {0, 403, 429} /\ x.at = seconds
      BY <1>1
    <2>2. Charged(c, x.code)
      BY <1>1
    <2> QED
      BY <1>3, <2>1, <2>2, AdmitKeepsRate
  <1> QED
    BY <1>3, <1>4, <1>5, TakesKeeps

LEMMA AdmitStep ==
    ASSUME RagInv, NEW c \in Chats, NEW question \in Questions, NEW role \in ChatRoles,
           Admit(c, question, role)
    PROVE  RagInv'
  <1>1. /\ Cardinality(Recent) >= RateLimit =>
              /\ window' = Recent
              /\ chats' = [chats EXCEPT ![c] = Taken(question, role, "answered", "none", 429)]
        /\ ~(Cardinality(Recent) >= RateLimit) =>
              /\ window' = Recent \union {c}
              /\ \/ chats' = [chats EXCEPT ![c] = Taken(question, role, "answered", "none", 403)]
                 \/ chats' = [chats EXCEPT ![c] = Taken(question, role, "preparing", "looking", 0)]
    BY DEF Admit, Change, Recent, Taken
  <1>2. CASE Cardinality(Recent) >= RateLimit
    <2>1. Charged(c, 429) /\ Verdict("answered", "none", 429)
      BY <1>1, <1>2 DEF Charged, Verdict
    <2> QED
      BY <1>1, <1>2, <2>1, AdmitAs
  <1>3. CASE ~(Cardinality(Recent) >= RateLimit)
    <2>1. /\ Charged(c, 403) /\ Verdict("answered", "none", 403)
          /\ Charged(c, 0) /\ Verdict("preparing", "looking", 0)
      BY <1>1, <1>3 DEF Charged, Verdict
    <2>2. CASE chats' = [chats EXCEPT ![c] = Taken(question, role, "answered", "none", 403)]
      BY <2>1, <2>2, AdmitAs
    <2>3. CASE chats' = [chats EXCEPT ![c] = Taken(question, role, "preparing", "looking", 0)]
      BY <2>1, <2>3, AdmitAs
    <2> QED
      BY <1>1, <1>3, <2>2, <2>3
  <1> QED
    BY <1>2, <1>3

LEMMA PassStep == ASSUME RagInv, Pass PROVE RagInv'
  <1>1. /\ seconds' = seconds + 1 /\ seconds \in Nat /\ RateWindow \in Nat
        /\ UNCHANGED <<auditing, window, queries, replies, audits, chats>>
    BY RagAssumption DEF Pass, RagInv, RagTyped
  <1>2. RagTyped'
    BY <1>1 DEF RagInv, RagTyped
  <1>3. RateKept'
    <2>1. ASSUME NEW d \in Chats, chats[d] # Unasked PROVE chats[d].at \in Nat
      <3>1. chats[d] \in Refused \union Asked
        BY <2>1 DEF RagInv, RagTyped
      <3> QED
        BY <3>1 DEF Refused, Asked
    <2>2. \A d \in Chats : chats'[d] # Unasked => chats'[d].at <= seconds'
      BY <1>1, <2>1 DEF RagInv, RateKept
    <2>3. \A d \in Chats : Counted(d)' /\ chats'[d].at + RateWindow > seconds' => d \in window'
      BY <1>1, <2>1 DEF RagInv, RateKept, Counted
    <2>4. \A t \in Nat : CountedIn(t)' = CountedIn(t)
      BY <1>1 DEF CountedIn, Counted
    <2>5. \A t \in Nat : Cardinality(CountedIn(t)') <= RateLimit
      BY <2>4 DEF RagInv, RateKept
    <2> QED
      BY <2>2, <2>3, <2>5 DEF RateKept
  <1>4. QueriesBounded'
    BY <1>1 DEF RagInv, QueriesBounded, Inserting
  <1>5. \A c \in Chats : chats'[c] \in Asked => ChatSound(c, chats[c])'
    BY <1>1 DEF RagInv, ChatSound, Recorded, AnswerFor
  <1>6. RepliesSound'
    BY <1>1 DEF RagInv, RepliesSound, Recorded, CacheKey
  <1> QED
    BY <1>2, <1>3, <1>4, <1>5, <1>6 DEF RagInv

LEMMA ReplyExpiresStep == ASSUME RagInv, ReplyExpires PROVE RagInv'
  <1>1. UNCHANGED <<auditing, seconds, window, queries, audits, chats>>
    BY DEF ReplyExpires
  <1>2. /\ replies' \in [Keys -> Answers]
        /\ \A k \in Keys : replies'[k] \in {replies[k], NoReply}
    BY DEF ReplyExpires, RagInv, RagTyped, Answers
  <1>3. RagTyped' /\ QueriesBounded'
    BY <1>1, <1>2 DEF RagInv, RagTyped, QueriesBounded, Inserting
  <1>4. RateKept'
    <2>1. \A d \in Chats : Counted(d)' <=> Counted(d)
      BY <1>1 DEF Counted
    <2>2. \A t \in Nat : CountedIn(t)' = CountedIn(t)
      BY <1>1, <2>1 DEF CountedIn
    <2> QED
      BY <1>1, <2>1, <2>2 DEF RagInv, RateKept
  <1>5. \A c \in Chats : chats'[c] \in Asked => ChatSound(c, chats[c])'
    BY <1>1 DEF RagInv, ChatSound, Recorded, AnswerFor
  <1>6. RepliesSound'
    <2>1. ASSUME NEW k \in Keys, NEW d, d = replies'[k], d # NoReply
          PROVE  /\ chats[d] \in Asked
                 /\ CacheKey(chats[d].question, chats[d].role) = k
                 /\ auditing => Recorded(d, d)
      BY <1>2, <2>1 DEF RagInv, RepliesSound
    <2>2. \A d : Recorded(d, d) => Recorded(d, d)'
      BY <1>1 DEF Recorded
    <2> QED
      BY <1>1, <2>1, <2>2 DEF RepliesSound, CacheKey
  <1> QED
    BY <1>3, <1>4, <1>5, <1>6 DEF RagInv

LEMMA RagStart == ASSUME RagInit PROVE RagInv
  <1>1. /\ queries \in Seq(Questions) /\ Len(queries) <= MaxQueries + 1 /\ MaxQueries \in Nat
        /\ auditing \in BOOLEAN
    BY RagAssumption DEF RagInit
  <1>2. /\ audits = <<>> /\ seconds = 0 /\ window = {}
        /\ \A c \in Chats : chats[c] = Unasked
        /\ chats \in [Chats -> {Unasked}]
    BY DEF RagInit
  <1>3. replies \in [Keys -> Answers] /\ \A k \in Keys : replies[k] = NoReply
    BY DEF RagInit, Keys, Answers
  <1>4. Unasked \notin Asked
    BY DEF Unasked, Asked
  <1>5. RagTyped
    BY <1>1, <1>2, <1>3 DEF RagTyped
  <1>6. RateKept
    <2>1. \A t \in Nat : CountedIn(t) = {}
      BY <1>2 DEF CountedIn, Counted
    <2>2. RateLimit \in Nat
      BY RagAssumption
    <2>3. \A t \in Nat : Cardinality(CountedIn(t)) <= RateLimit
      BY <2>1, <2>2, FS_EmptySet
    <2> QED
      BY <1>2, <2>3 DEF RateKept, Counted
  <1>7. QueriesBounded
    <2>1. Inserting = {}
      BY <1>2 DEF Inserting, Unasked
    <2>2. Cardinality(Inserting) = 0
      BY <2>1, FS_EmptySet
    <2>3. Cardinality(Chats) \in Nat /\ Cardinality(Chats) # 0
      BY RagAssumption, FS_CardinalityType, FS_EmptySet
    <2> QED
      BY <1>1, <2>2, <2>3 DEF QueriesBounded
  <1> QED
    BY <1>2, <1>3, <1>4, <1>5, <1>6, <1>7 DEF RagInv, RepliesSound

LEMMA RagStep == ASSUME RagInv, [RagNext]_ragVars PROVE RagInv'
  <1>1. CASE UNCHANGED ragVars
    <2>1. UNCHANGED <<auditing, seconds, window, queries, replies, audits, chats>>
      BY <1>1 DEF ragVars
    <2>2. RagTyped' /\ QueriesBounded'
      BY <2>1 DEF RagInv, RagTyped, QueriesBounded, Inserting
    <2>3. RateKept'
      <3>1. \A d \in Chats : Counted(d)' <=> Counted(d)
        BY <2>1 DEF Counted
      <3>2. \A t \in Nat : CountedIn(t)' = CountedIn(t)
        BY <2>1, <3>1 DEF CountedIn
      <3> QED
        BY <2>1, <3>1, <3>2 DEF RagInv, RateKept
    <2>4. \A c \in Chats : chats'[c] \in Asked => ChatSound(c, chats[c])'
      BY <2>1 DEF RagInv, ChatSound, Recorded, AnswerFor
    <2>5. RepliesSound'
      BY <2>1 DEF RagInv, RepliesSound, Recorded, CacheKey
    <2> QED
      BY <2>2, <2>3, <2>4, <2>5 DEF RagInv
  <1>2. CASE RagNext
    BY <1>2, PassStep, ReplyExpiresStep, DeclineStep, AdmitStep, DeadlineStep, WorkerStep,
       HandlerStep, StoredLateStep DEF RagNext
  <1> QED
    BY <1>1, <1>2

LEMMA RagSound == ASSUME RagInv PROVE RepliesAccountedFor
  <1>1. ASSUME NEW k \in DOMAIN replies, replies[k] # NoReply
        PROVE  /\ k = <<Form[chats[replies[k]].question], chats[replies[k]].role>>
               /\ auditing => \E i \in DOMAIN audits :
                                 audits[i].by = replies[k] /\ audits[i].reply = replies[k]
    <2>1. k \in Keys
      BY DEF RagInv, RagTyped
    <2> QED
      BY <1>1, <2>1 DEF RagInv, RepliesSound, Recorded, CacheKey
  <1>2. ASSUME NEW c \in Chats, Done(c), chats[c].reply # NoReply
        PROVE  /\ Form[chats[chats[c].reply].question] = Form[chats[c].question]
               /\ chats[chats[c].reply].role = chats[c].role
    <2>1. PICK x : x = chats[c]
      OBVIOUS
    <2>2. x \in {Unasked} \union Refused \union Asked /\ x.handler = "answered" /\ x.reply # NoReply
      BY <1>2, <2>1 DEF RagInv, RagTyped, Done
    <2>3. x \in Asked
      <3>1. x # Unasked
        BY <2>2 DEF Unasked
      <3>2. x \notin Refused
        BY <2>2 DEF Refused
      <3> QED
        BY <2>2, <3>1, <3>2
    <2>4. ChatSound(c, x)
      BY <2>1, <2>3 DEF RagInv
    <2>5. x.reply = c \/ AnswerFor(x.reply, x.question, x.role)
      BY <2>2, <2>4 DEF ChatSound
    <2> QED
      BY <2>1, <2>5 DEF AnswerFor
  <1>3. Len(queries) <= MaxQueries + Cardinality(Chats)
    <2>1. Inserting \subseteq Chats /\ IsFiniteSet(Chats)
      BY RagAssumption DEF Inserting
    <2>2. Cardinality(Inserting) \in Nat /\ Cardinality(Chats) \in Nat
      BY <2>1, FS_Subset, FS_CardinalityType
    <2>3. Len(queries) \in Nat /\ MaxQueries \in Nat
      BY RagAssumption DEF RagInv, RagTyped
    <2> QED
      BY <2>2, <2>3 DEF RagInv, QueriesBounded
  <1>4. ASSUME NEW t \in 0 .. MaxSeconds
        PROVE  Cardinality({c \in Chats : /\ chats[c] # Unasked
                                          /\ chats[c].code \notin {429, 503}
                                          /\ t <= chats[c].at
                                          /\ chats[c].at < t + RateWindow}) <= RateLimit
    <2>1. CountedIn(t) = {c \in Chats : /\ chats[c] # Unasked
                                        /\ chats[c].code \notin {429, 503}
                                        /\ t <= chats[c].at /\ chats[c].at < t + RateWindow}
      BY DEF CountedIn, Counted
    <2>2. Cardinality(CountedIn(t)) <= RateLimit
      BY RagAssumption DEF RagInv, RateKept
    <2> QED
      BY <2>1, <2>2
  <1> QED
    BY <1>1, <1>2, <1>3, <1>4 DEF RepliesAccountedFor

\* The invariant of the RAG backend, of any number of requests, questions and
\* roles, under every order of their threads, handlers and deadlines.
THEOREM RagInvariant == RagSpec => []RagInv
  <1>1. RagInit => RagInv
    BY RagStart
  <1>2. RagInv /\ [RagNext]_ragVars => RagInv'
    BY RagStep
  <1> QED
    BY <1>1, <1>2, PTL DEF RagSpec

\* chat with prepare_rag_chat and commit_rag_chat_outcome: a cached answer was
\* audited, and is one to the form and for the role it is found under; an answer
\* that is given was generated for both; query_cache stays within its size, one
\* more for each thread at most; no minute admits more than the limit.
THEOREM RepliesAreAccountedFor == RagSpec => []RepliesAccountedFor
  BY RagInvariant, RagSound, PTL

\* What a step sends, it sends for a request that is not answered yet.
SentBeforeAnswer ==
    /\ audits' # audits => ~Done(Last(audits').by)
    /\ \A k \in DOMAIN replies :
          replies'[k] \notin {replies[k], NoReply} =>
             ~Done(replies'[k]) \/ chats[replies'[k]].inFlight
    /\ \A c \in Chats : chats'[c].inFlight /\ ~chats[c].inFlight => ~Done(c)

LEMMA WritesForUnanswered ==
    ASSUME RagInv, NEW c \in Chats, WriteAudit(c) \/ StoreReply(c)
    PROVE  SentBeforeAnswer
  <1>1. PICK b \in Asked : b = chats[c] /\ b.worker \in CommitStages
    BY TakenOn DEF RagInv, WriteAudit, StoreReply, CommitStages
  <1>2. ~Done(c)
    BY <1>1 DEF RagInv, ChatSound, Done
  <1>3. \A d \in Chats : d # c => chats'[d] = chats[d]
    BY DEF WriteAudit, StoreReply, Raise, Work, Change, RagInv, RagTyped
  <1>4. audits' # audits => Last(audits').by = c
    <2>1. CASE WriteAudit(c)
      <3>1. PICK entry : entry = [question |-> chats[c].question, role |-> chats[c].role,
                              reply |-> chats[c].event, by |-> c]
        OBVIOUS
      <3>2. audits' \in {audits, Append(audits, entry)}
        BY <2>1, <3>1 DEF WriteAudit
      <3>3. audits \in Seq(AuditRows) /\ entry.by = c
        BY <3>1 DEF RagInv, RagTyped
      <3>4. Len(Append(audits, entry)) = Len(audits) + 1 /\ Append(audits, entry)[Len(audits) + 1] = entry
        BY <3>3
      <3> QED
        BY <3>2, <3>3, <3>4 DEF Last
    <2>2. CASE StoreReply(c)
      BY <2>2 DEF StoreReply
    <2> QED
      BY <2>1, <2>2
  <1>5. replies' \in {replies, Stored(c)}
    BY DEF WriteAudit, StoreReply
  <1>6. \A k \in DOMAIN replies : replies'[k] # replies[k] => replies'[k] = c
    BY <1>5 DEF Stored
  <1> QED
    BY <1>2, <1>3, <1>4, <1>6 DEF SentBeforeAnswer

\* The other steps send nothing: those of the worker that prepares ...
LEMMA PreparationSendsNothing ==
    ASSUME RagInv, NEW c \in Chats, Worker(c), ~WriteAudit(c), ~StoreReply(c)
    PROVE  UNCHANGED <<audits, replies>> /\ chats'[c].inFlight = chats[c].inFlight
  <1>1. PICK b \in Asked : b = chats[c]
    BY TakenOn DEF RagInv, Worker, LookUp, CopyAudit, Expand, ReadQueries, GenerateQueries,
       ChooseVictim, EvictQueries, InsertQueries, Generate, StartAudit, StartCaching, FinishCommit
  <1>2. UNCHANGED <<audits, replies>>
    BY DEF Worker, LookUp, CopyAudit, Expand, ReadQueries, GenerateQueries,
       ChooseVictim, EvictQueries, InsertQueries, Generate, StartAudit, StartCaching, FinishCommit
  <1> SUFFICES chats'[c].inFlight = chats[c].inFlight
    BY <1>2
  <1>3. ASSUME NEW x, Change(c, x), x.inFlight = b.inFlight
        PROVE  chats'[c].inFlight = chats[c].inFlight
    BY <1>1, <1>3 DEF Change, RagInv, RagTyped
  <1>4. CASE \E w : Work(c, w)
    <2>1. PICK w : Work(c, w)
      BY <1>4
    <2>2. Change(c, [b EXCEPT !.worker = w])
      BY <1>1, <2>1 DEF Work
    <2>3. [b EXCEPT !.worker = w].inFlight = b.inFlight
      BY DEF Asked
    <2> QED
      BY <1>3, <2>2, <2>3
  <1>5. CASE ~\E w : Work(c, w)
    <2>1. LookUp(c) \/ CopyAudit(c) \/ ChooseVictim(c) \/ Generate(c)
      BY <1>5 DEF Worker, Expand, ReadQueries, GenerateQueries, EvictQueries, InsertQueries,
         StartAudit, StartCaching, FinishCommit, Late, Raise
    <2>2. CASE LookUp(c)
      <3>1. PICK e : Change(c, [b EXCEPT !.worker = "copying", !.reply = e])
        BY <1>1, <1>5, <2>2 DEF LookUp, Late, Raise
      <3>2. [b EXCEPT !.worker = "copying", !.reply = e].inFlight = b.inFlight
        BY DEF Asked
      <3> QED
        BY <1>3, <3>1, <3>2
    <2>3. CASE CopyAudit(c)
      <3>1. PICK e : Change(c, [b EXCEPT !.worker = "prepared", !.event = e])
        BY <1>1, <1>5, <2>3 DEF CopyAudit, Late, Raise
      <3>2. [b EXCEPT !.worker = "prepared", !.event = e].inFlight = b.inFlight
        BY DEF Asked
      <3> QED
        BY <1>3, <3>1, <3>2
    <2>4. CASE ChooseVictim(c)
      <3>1. PICK e : Change(c, [b EXCEPT !.worker = "evicting", !.victim = e])
        BY <1>1, <1>5, <2>4 DEF ChooseVictim, Raise
      <3>2. [b EXCEPT !.worker = "evicting", !.victim = e].inFlight = b.inFlight
        BY DEF Asked
      <3> QED
        BY <1>3, <3>1, <3>2
    <2>5. CASE Generate(c)
      <3>1. PICK e : Change(c, [b EXCEPT !.worker = "prepared", !.reply = c, !.cached = c, !.event = e])
        BY <1>1, <1>5, <2>5 DEF Generate, Late, Raise
      <3>2. [b EXCEPT !.worker = "prepared", !.reply = c, !.cached = c, !.event = e].inFlight = b.inFlight
        BY DEF Asked
      <3> QED
        BY <1>3, <3>1, <3>2
    <2> QED
      BY <2>1, <2>2, <2>3, <2>4, <2>5
  <1> QED
    BY <1>4, <1>5

\* ... and those of the handler and of the deadline.
LEMMA HandlerSendsNothing ==
    ASSUME RagInv, NEW c \in Chats, DeadlinePasses(c) \/ ChatHandler(c)
    PROVE  UNCHANGED <<audits, replies>> /\ chats'[c].inFlight = chats[c].inFlight
  <1>1. PICK b \in Asked : b = chats[c]
    BY TakenOn DEF RagInv, DeadlinePasses, ChatHandler, GiveUp, Collect, TimeOut, Settle, Drained
  <1>2. UNCHANGED <<audits, replies>>
    BY DEF DeadlinePasses, ChatHandler
  <1> SUFFICES chats'[c].inFlight = chats[c].inFlight
    BY <1>2
  <1>3. ASSUME NEW x, Change(c, x), x.inFlight = b.inFlight
        PROVE  chats'[c].inFlight = chats[c].inFlight
    BY <1>1, <1>3 DEF Change, RagInv, RagTyped
  <1>4. CASE DeadlinePasses(c)
    <2>1. Change(c, [b EXCEPT !.late = TRUE])
      BY <1>1, <1>4 DEF DeadlinePasses
    <2>2. [b EXCEPT !.late = TRUE].inFlight = b.inFlight
      BY DEF Asked
    <2> QED
      BY <1>3, <2>1, <2>2
  <1>5. CASE TimeOut(c)
    <2>1. Change(c, [b EXCEPT !.handler = WaitsForCommit, !.code = 504])
      BY <1>1, <1>5 DEF TimeOut
    <2>2. [b EXCEPT !.handler = WaitsForCommit, !.code = 504].inFlight = b.inFlight
      BY DEF Asked
    <2> QED
      BY <1>3, <2>1, <2>2
  <1>6. CASE \E code, reply : Answered(c, code, reply)
    <2>1. PICK code, reply : Answered(c, code, reply)
      BY <1>6
    <2>2. Change(c, [b EXCEPT !.handler = "answered", !.code = code, !.reply = reply])
      BY <1>1, <2>1 DEF Answered
    <2>3. [b EXCEPT !.handler = "answered", !.code = code, !.reply = reply].inFlight = b.inFlight
      BY DEF Asked
    <2> QED
      BY <1>3, <2>2, <2>3
  <1>7. CASE ChatHandler(c) /\ ~TimeOut(c) /\ ~\E code, reply : Answered(c, code, reply)
    <2>1. Change(c, [b EXCEPT !.handler = "committing", !.worker = "auditing"])
      BY <1>1, <1>7 DEF ChatHandler, GiveUp, Collect, Settle, Drained
    <2>2. [b EXCEPT !.handler = "committing", !.worker = "auditing"].inFlight = b.inFlight
      BY DEF Asked
    <2> QED
      BY <1>3, <2>1, <2>2
  <1> QED
    BY <1>4, <1>5, <1>6, <1>7

LEMMA WritesBeforeAnswer == ASSUME RagInv, [RagNext]_ragVars PROVE SentBeforeAnswer
  <1>1. CASE Pass \/ ReplyExpires \/ UNCHANGED ragVars
    BY <1>1 DEF SentBeforeAnswer, Pass, ReplyExpires, ragVars
  <1>2. ASSUME NEW c \in Chats, UNCHANGED <<audits, replies>>,
               chats'[c].inFlight => chats[c].inFlight, \A d \in Chats : d # c => chats'[d] = chats[d]
        PROVE  SentBeforeAnswer
    BY <1>2 DEF SentBeforeAnswer
  <1>3. ASSUME NEW c \in Chats, NEW x, Change(c, x)
        PROVE  \A d \in Chats : d # c => chats'[d] = chats[d]
    BY <1>3 DEF Change, RagInv, RagTyped
  <1>4. ASSUME NEW c \in Chats,
               Decline(c) \/ \E question \in Questions, role \in ChatRoles : Admit(c, question, role)
        PROVE  SentBeforeAnswer
    <2>1. PICK x : Change(c, x) /\ x.inFlight = FALSE
      <3>1. CASE Decline(c)
        BY <3>1 DEF Decline
      <3>2. CASE \E question \in Questions, role \in ChatRoles : Admit(c, question, role)
        <4>1. PICK question \in Questions, role \in ChatRoles : Admit(c, question, role)
          BY <3>2
        <4>2. PICK h, w, code : Change(c, Taken(question, role, h, w, code))
          BY <4>1 DEF Admit, Taken
        <4>3. Taken(question, role, h, w, code).inFlight = FALSE
          BY DEF Taken
        <4> QED
          BY <4>2, <4>3
      <3> QED
        BY <1>4, <3>1, <3>2
    <2>2. ~chats'[c].inFlight
      BY <2>1 DEF Change, RagInv, RagTyped
    <2>3. UNCHANGED <<audits, replies>>
      BY <1>4 DEF Decline, Admit
    <2> QED
      BY <1>2, <1>3, <2>1, <2>2, <2>3
  <1>5. ASSUME NEW c \in Chats, Worker(c) PROVE SentBeforeAnswer
    <2>1. CASE WriteAudit(c) \/ StoreReply(c)
      BY <2>1, WritesForUnanswered
    <2>2. CASE ~WriteAudit(c) /\ ~StoreReply(c)
      <3>1. \E x : Change(c, x)
        BY <1>5 DEF Worker, LookUp, CopyAudit, Expand, ReadQueries, GenerateQueries, ChooseVictim,
           EvictQueries, InsertQueries, Generate, StartAudit, WriteAudit, StartCaching, StoreReply,
           FinishCommit, Late, Raise, Work
      <3> QED
        BY <1>2, <1>3, <1>5, <2>2, <3>1, PreparationSendsNothing
    <2> QED
      BY <2>1, <2>2
  <1>6. ASSUME NEW c \in Chats, DeadlinePasses(c) \/ ChatHandler(c) PROVE SentBeforeAnswer
    <2>1. \E x : Change(c, x)
      BY <1>6 DEF DeadlinePasses, ChatHandler, GiveUp, Collect, TimeOut, Settle, Drained, Answered
    <2> QED
      BY <1>2, <1>3, <1>6, <2>1, HandlerSendsNothing
  <1>7. ASSUME NEW c \in Chats, StoredLate(c) PROVE SentBeforeAnswer
    <2>1. PICK b \in Asked : b = chats[c] /\ b.inFlight
      BY <1>7, InFlightTaken DEF RagInv, StoredLate
    <2>2. audits' = audits /\ replies' = Stored(c)
      BY <1>7 DEF StoredLate
    <2>3. \A k \in DOMAIN replies : replies'[k] # replies[k] => replies'[k] = c
      BY <2>2 DEF Stored
    <2>4. chats'[c].inFlight = FALSE /\ \A d \in Chats : d # c => chats'[d] = chats[d]
      BY <1>7, <2>1 DEF StoredLate, Change, RagInv, RagTyped, Asked
    <2> QED
      BY <2>1, <2>2, <2>3, <2>4 DEF SentBeforeAnswer
  <1> QED
    BY <1>1, <1>4, <1>5, <1>6, <1>7 DEF RagNext

\* commit_rag_chat_outcome, which chat waits for before it answers: no thread
\* writes the audit log, or sends the cache an answer, for a request that was
\* answered before; what Redis still applies then was sent before.
THEOREM CommitsBeforeAnswers == RagSpec => CommittedBeforeAnswered
  <1>1. RagInv /\ [RagNext]_ragVars => [SentBeforeAnswer]_ragVars
    BY WritesBeforeAnswer
  <1>2. RagSpec => [][SentBeforeAnswer]_ragVars
    BY <1>1, RagInvariant, PTL DEF RagSpec
  <1> QED
    BY <1>2 DEF CommittedBeforeAnswered, SentBeforeAnswer

-----------------------------------------------------------------------------
(* What an evaluation run scores, and what a comparison of two says *)

\* More is more, whatever both are multiplied by.
LEMMA Cancelled ==
    ASSUME NEW a \in Int, NEW b \in Int, NEW k \in Nat \ {0}, a * k < b * k
    PROVE  a < b
  <1>1. SUFFICES ASSUME b <= a PROVE FALSE
    OBVIOUS
  <1>2. a - b \in Nat /\ k \in Nat
    BY <1>1
  <1>3. (a - b) * k \in Nat
    BY <1>2
  <1>4. (a - b) * k = a * k - b * k
    OBVIOUS
  <1> QED
    BY <1>3, <1>4

\* The numbers of a ratio.
LEMMA RatioFields == ASSUME NEW a \in Ratios PROVE a.num \in Nat /\ a.den \in Nat /\ a.den # 0
  BY DEF Ratios

\* The sum of two ratios is one.
LEMMA RatioSum == ASSUME NEW a \in Ratios, NEW b \in Ratios PROVE Plus(a, b) \in Ratios
  <1>1. a.num * b.den + b.num * a.den \in Nat /\ a.den * b.den \in Nat \ {0}
    BY RatioFields
  <1> QED
    BY <1>1 DEF Plus, Ratio, Ratios

\* The mean of some ratios is a ratio, and there is none of nothing.
LEMMA MeanScored ==
    ASSUME NEW n \in Nat, NEW values \in [1 .. n -> Ratios \union {None}]
    PROVE  Mean(values) \in Ratios \union {None}
  <1> DEFINE given == {i \in DOMAIN values : values[i] # None}
             Upto(f, i) == IF i = 0 THEN Zero
                           ELSE IF i \in given THEN Plus(f[i - 1], values[i]) ELSE f[i - 1]
             Sum == CHOOSE f : f = [i \in 0 .. Len(values) |-> Upto(f, i)]
             total == Sum[Len(values)]
             step == [i \in 1 .. n |-> [r \in Ratios |-> IF i \in given THEN Plus(r, values[i]) ELSE r]]
  <1>1. Len(values) = n
    OBVIOUS
  <1>2. Zero \in Ratios /\ step \in [1 .. n -> [Ratios -> Ratios]]
    BY RatioSum DEF Zero, Ratio, Ratios
  <1>3. PICK g \in [0 .. n -> Ratios] : Follows(g, n, Zero, step)
    <2> HIDE DEF step
    <2> QED
      BY <1>2, RecursionDefines
  <1>4. g = [i \in 0 .. n |-> Upto(g, i)]
    <2>1. ASSUME NEW i \in 0 .. n PROVE g[i] = Upto(g, i)
      <3>1. CASE i = 0
        BY <1>3, <3>1 DEF Follows
      <3>2. CASE i # 0
        <4>1. i \in 1 .. n /\ i - 1 \in 0 .. n
          BY <3>2
        <4>2. g[i] = step[i][g[i - 1]] /\ g[i - 1] \in Ratios
          BY <1>3, <4>1 DEF Follows
        <4> QED
          BY <3>2, <4>1, <4>2
      <3> QED
        BY <3>1, <3>2
    <2> HIDE DEF Upto
    <2> QED
      BY <2>1
  <1>5. \A i \in 0 .. n : Sum[i] \in Ratios
    <2> DEFINE S == {i \in 0 .. n : Sum[i] = g[i]}
    <2>1. Sum = [i \in 0 .. n |-> Upto(Sum, i)]
      <3> HIDE DEF Upto
      <3> QED
        BY <1>1, <1>4
    <2>2. 0 \in S
      <3> HIDE DEF Sum
      <3> QED
        BY <1>4, <2>1
    <2>3. ASSUME NEW i \in 1 .. n, i - 1 \in S PROVE i \in S
      <3> HIDE DEF Sum
      <3>1. i \in 0 .. n /\ Sum[i] = Upto(Sum, i) /\ g[i] = Upto(g, i)
        <4> HIDE DEF Upto
        <4> QED
          BY <1>4, <2>1
      <3> QED
        BY <2>3, <3>1
    <2>4. 0 .. n \subseteq S
      <3> HIDE DEF S
      <3> QED
        BY <2>2, <2>3, UpTo
    <2> HIDE DEF Sum
    <2> QED
      BY <2>4
  <1>6. Mean(values) = IF given = {} THEN None ELSE Ratio(total.num, total.den * Cardinality(given))
    BY DEF Mean
  <1> HIDE DEF Sum, Upto, step
  <1>7. given # {} => Cardinality(given) \in Nat \ {0}
    <2>1. IsFiniteSet(1 .. n) /\ given \subseteq 1 .. n
      BY FS_Interval
    <2> HIDE DEF given
    <2>2. IsFiniteSet(given)
      BY <2>1, FS_Subset
    <2> QED
      BY <2>2, FS_CardinalityType, FS_EmptySet
  <1> HIDE DEF given
  <1>8. total \in Ratios
    BY <1>1, <1>5
  <1> HIDE DEF total
  <1>9. given # {} => total.num \in Nat /\ total.den * Cardinality(given) \in Nat \ {0}
    BY <1>7, <1>8, RatioFields
  <1>10. given # {} => Mean(values) \in Ratios
    BY <1>6, <1>9 DEF Ratio, Ratios
  <1> QED
    BY <1>6, <1>10

\* A metric is lost, or breaches its threshold, exactly if it fell by more than that allows.
LEMMA FellMeans ==
    ASSUME NEW b \in Ratios \union {None}, NEW c \in Ratios \union {None},
           NEW t \in MetricThresholds \union {None}
    PROVE  CompareMetric(b, c, t) \in {"regressed", "became_unevaluable"} <=> Fell(b, c, t)
  <1>1. CASE b = None \/ c = None \/ t = None
    BY <1>1 DEF CompareMetric, Fell
  <1>2. CASE b # None /\ c # None /\ t # None
    <2>1. b \in Ratios /\ c \in Ratios /\ t \in MetricThresholds
      BY <1>2
    <2>2. /\ b.num \in Nat /\ b.den \in Nat \ {0} /\ c.num \in Nat /\ c.den \in Nat \ {0}
          /\ t.absolute \in Ratios \union {None} /\ t.relative \in Ratios \union {None}
      BY <2>1 DEF Ratios, MetricThresholds
    <2> DEFINE AbsoluteFell == t.absolute # None /\ Below(Plus(c, t.absolute), b)
               RelativeFell == /\ t.relative # None
                               /\ Below(Plus(c, Ratio(t.relative.num * b.num, t.relative.den * b.den)), b)
               AbsoluteBreach == t.absolute # None /\ Below(t.absolute, Minus(b, c))
               RelativeBreach ==
                   /\ t.relative # None
                   /\ Below(t.relative, IF b.num = 0 THEN Zero
                                        ELSE Ratio(Minus(b, c).num * b.den, Minus(b, c).den * b.num))
    <2>3. AbsoluteFell <=> AbsoluteBreach
      <3>1. CASE t.absolute = None
        BY <3>1
      <3>2. CASE t.absolute \in Ratios /\ t.absolute # None
        <4>1. t.absolute.num \in Nat /\ t.absolute.den \in Nat \ {0}
          BY <3>2 DEF Ratios
        <4>2. PICK x, y, p, q, u, v : /\ x = t.absolute.num /\ y = t.absolute.den
                                      /\ p = b.num /\ q = b.den /\ u = c.num /\ v = c.den
          OBVIOUS
        <4>3. x \in Int /\ y \in Int /\ p \in Int /\ q \in Int /\ u \in Int /\ v \in Int
          BY <2>2, <4>1, <4>2
        <4>4. AbsoluteFell <=> (u * y + x * v) * q < p * (v * y)
          BY <3>2, <4>2 DEF Below, Plus, Ratio
        <4>5. AbsoluteBreach <=> x * (q * v) < (p * v + (-u) * q) * y
          BY <3>2, <4>2 DEF Below, Minus, Plus, Ratio
        <4>6. (u * y + x * v) * q < p * (v * y) <=> x * (q * v) < (p * v + (-u) * q) * y
          BY <4>3
        <4> QED
          BY <4>4, <4>5, <4>6
      <3> QED
        BY <2>2, <3>1, <3>2
    <2>4. RelativeFell <=> RelativeBreach
      <3>1. CASE t.relative = None
        BY <3>1
      <3>2. CASE t.relative \in Ratios /\ t.relative # None
        <4>1. t.relative.num \in Nat /\ t.relative.den \in Nat \ {0}
          BY <3>2 DEF Ratios
        <4>2. PICK x, y, p, q, u, v : /\ x = t.relative.num /\ y = t.relative.den
                                      /\ p = b.num /\ q = b.den /\ u = c.num /\ v = c.den
          OBVIOUS
        <4>3. /\ x \in Nat /\ y \in Nat \ {0} /\ p \in Nat /\ q \in Nat \ {0}
              /\ u \in Nat /\ v \in Nat \ {0}
          BY <2>2, <4>1, <4>2
        <4>4. RelativeFell <=> (u * (y * q) + (x * p) * v) * q < p * (v * (y * q))
          BY <3>2, <4>2 DEF Below, Plus, Ratio
        <4>5. CASE p = 0
          <5>1. RelativeBreach <=> x * 1 < 0 * y
            BY <3>2, <4>2, <4>5 DEF Below, Zero, Ratio
          <5>2. p * (v * (y * q)) = 0 /\ 0 * y = 0 /\ x * 1 = x
            BY <4>3, <4>5
          <5>3. (u * (y * q) + (x * p) * v) * q \in Nat
            BY <4>3
          <5> QED
            BY <4>3, <4>4, <5>1, <5>2, <5>3
        <4>6. CASE p # 0
          <5>1. RelativeBreach <=> x * ((q * v) * p) < ((p * v + (-u) * q) * q) * y
            BY <3>2, <4>2, <4>6 DEF Below, Minus, Plus, Ratio
          <5>2. (u * (y * q) + (x * p) * v) * q < p * (v * (y * q)) <=>
                  x * ((q * v) * p) < ((p * v + (-u) * q) * q) * y
            BY <4>3
          <5> QED
            BY <4>4, <5>1, <5>2
        <4> QED
          BY <4>5, <4>6
      <3> QED
        BY <2>2, <3>1, <3>2
    <2>5. AbsoluteFell \/ RelativeFell => Below(c, b)
      <3>1. ASSUME NEW r \in Ratios, Below(Plus(c, r), b)
            PROVE  Below(c, b)
        <4>1. PICK x, y, p, q, u, v : /\ x = r.num /\ y = r.den
                                      /\ p = b.num /\ q = b.den /\ u = c.num /\ v = c.den
          OBVIOUS
        <4>2. /\ x \in Nat /\ y \in Nat \ {0} /\ p \in Nat /\ q \in Nat \ {0}
              /\ u \in Nat /\ v \in Nat \ {0}
          BY <2>2, <4>1, RatioFields
        <4>3. (u * y + x * v) * q < p * (v * y)
          BY <3>1, <4>1 DEF Below, Plus, Ratio
        <4>4. x * v * q \in Nat
          BY <4>2
        <4>5. (u * q) * y < (p * v) * y
          BY <4>2, <4>3, <4>4
        <4>6. u * q < p * v
          <5>1. u * q \in Int /\ p * v \in Int
            BY <4>2
          <5> QED
            BY <4>2, <4>5, <5>1, Cancelled
        <4> QED
          BY <4>1, <4>6 DEF Below
      <3>2. AbsoluteFell => t.absolute \in Ratios
        BY <2>2
      <3>3. ASSUME RelativeFell
            PROVE  Ratio(t.relative.num * b.num, t.relative.den * b.den) \in Ratios
        <4>1. t.relative \in Ratios
          BY <2>2, <3>3
        <4>2. t.relative.num * b.num \in Nat /\ t.relative.den * b.den \in Nat \ {0}
          BY <2>2, <4>1, RatioFields
        <4> QED
          BY <4>2 DEF Ratio, Ratios
      <3> QED
        BY <3>1, <3>2, <3>3
    <2>6. Fell(b, c, t) <=> AbsoluteFell \/ RelativeFell
      BY <1>2 DEF Fell
    <2>7. CompareMetric(b, c, t) \in {"regressed", "became_unevaluable"} <=>
            Below(c, b) /\ (AbsoluteBreach \/ RelativeBreach)
      BY <1>2 DEF CompareMetric, Breached
    <2> HIDE DEF AbsoluteFell, RelativeFell, AbsoluteBreach, RelativeBreach
    <2> QED
      BY <2>3, <2>4, <2>5, <2>6, <2>7
  <1> QED
    BY <1>1, <1>2

\* What of the documents is considered.
LEMMA ConsideredSet ==
    ASSUME NEW d, d \in Seq(ToSet(d)), NEW k \in {None} \union (Nat \ {0})
    PROVE  LET considered == IF k = None \/ k > Len(d) THEN d ELSE SubSeq(d, 1, k)
           IN  /\ ToSet(considered) = {d[i] : i \in {j \in DOMAIN d : k = None \/ j <= k}}
               /\ considered \in Seq(ToSet(d))
  <1> DEFINE considered == IF k = None \/ k > Len(d) THEN d ELSE SubSeq(d, 1, k)
  <1>1. DOMAIN d = 1 .. Len(d) /\ Len(d) \in Nat
    OBVIOUS
  <1>2. CASE k = None \/ k > Len(d)
    <2>1. considered = d
      BY <1>2
    <2>2. {j \in DOMAIN d : k = None \/ j <= k} = DOMAIN d
      BY <1>1, <1>2
    <2> HIDE DEF considered
    <2> QED
      BY <2>1, <2>2 DEF ToSet, considered
  <1>3. CASE ~(k = None \/ k > Len(d))
    <2>1. k \in 1 .. Len(d) /\ considered = SubSeq(d, 1, k)
      BY <1>1, <1>3
    <2>2. /\ considered \in Seq(ToSet(d)) /\ Len(considered) = k
          /\ \A i \in 1 .. k : considered[i] = d[i]
      <3> HIDE DEF considered
      <3>1. 1 \in 1 .. Len(d) + 1 /\ k \in 0 .. Len(d)
        BY <1>1, <2>1
      <3> QED
        BY <2>1, <1>1, <3>1, SubSeqProperties
    <2> HIDE DEF considered
    <2>3. DOMAIN considered = 1 .. k
      BY <2>2
    <2>4. {j \in DOMAIN d : k = None \/ j <= k} = 1 .. k
      BY <1>1, <1>3, <2>1
    <2>5. ToSet(considered) = {d[i] : i \in 1 .. k}
      BY <2>2, <2>3 DEF ToSet
    <2> QED
      BY <2>2, <2>4, <2>5 DEF considered
  <1> QED
    BY <1>2, <1>3

\* A sequence lists finitely many values.
LEMMA ListedFinite == ASSUME NEW S, NEW s \in Seq(S) PROVE IsFiniteSet(ToSet(s))
  <1>1. IsFiniteSet(DOMAIN s)
    <2>1. DOMAIN s = 1 .. Len(s) /\ Len(s) \in Nat
      OBVIOUS
    <2> QED
      BY <2>1, FS_Interval
  <1>2. ToSet(s) = {s[i] : i \in DOMAIN s}
    BY DEF ToSet
  <1> DEFINE f == [i \in DOMAIN s |-> s[i]]
  <1>3. f \in Surjection(DOMAIN s, ToSet(s))
    BY <1>2 DEF Surjection
  <1> HIDE DEF f
  <1> QED
    BY <1>1, <1>3, FS_Surjection

\* The first of some positions.
LEMMA FirstRank ==
    ASSUME NEW T \in SUBSET (Nat \ {0}), T # {}
    PROVE  (CHOOSE i \in T : \A j \in T : i <= j) \in Nat \ {0}
  <1>1. \E m \in T : \A j \in T : m <= j
    BY LeastNumber
  <1> QED
    BY <1>1

Seen(d, k) == {d[i] : i \in {j \in DOMAIN d : k = None \/ j <= k}}

\* What the retrieval of a case scores.
LEMMA RetrievalScored ==
    ASSUME NEW case, IsFiniteSet(case.sources), NEW d, d \in Seq(ToSet(d)),
           NEW k \in {None} \union (Nat \ {0})
    PROVE  LET r == EvaluateRetrieval(case, d, k)
           IN  /\ r.retrieved = Seen(d, k)
               /\ r.precision \in Ratios \union {None} /\ r.recall \in Ratios \union {None}
               /\ r.rank \in Ratios \union {None} /\ r.hit \in BOOLEAN \union {None}
               /\ case.sources = {} => r.hit = None
               /\ case.sources # {} =>
                    /\ r.hit = (case.sources \intersect Seen(d, k) # {})
                    /\ r.recall.num = r.recall.den <=> case.sources \subseteq Seen(d, k)
  <1> DEFINE considered == IF k = None \/ k > Len(d) THEN d ELSE SubSeq(d, 1, k)
             retrieved == ToSet(considered)
             matched == retrieved \intersect case.sources
             precision == IF retrieved = {} THEN Zero
                          ELSE Ratio(Cardinality(matched), Cardinality(retrieved))
             recall == Ratio(Cardinality(matched), Cardinality(case.sources))
             rank == ReciprocalRank(considered, case.sources)
  <1>1. PICK r : r = EvaluateRetrieval(case, d, k)
    OBVIOUS
  <1>2. r = IF case.sources = {}
            THEN [retrieved |-> retrieved, precision |-> None, recall |-> None, hit |-> None, rank |-> None]
            ELSE [retrieved |-> retrieved, precision |-> precision, recall |-> recall,
                  hit |-> matched # {}, rank |-> rank]
    BY <1>1 DEF EvaluateRetrieval
  <1>3. retrieved = Seen(d, k) /\ considered \in Seq(ToSet(d))
    BY ConsideredSet DEF Seen
  <1> HIDE DEF considered
  <1>4. IsFiniteSet(retrieved)
    BY <1>3, ListedFinite
  <1> HIDE DEF retrieved
  <1>5. IsFiniteSet(matched) /\ matched \subseteq case.sources /\ matched \subseteq retrieved
    BY <1>4, FS_Subset
  <1>6. Cardinality(matched) \in Nat /\ Cardinality(retrieved) \in Nat /\ Cardinality(case.sources) \in Nat
    BY <1>4, <1>5, FS_CardinalityType
  <1>7. Zero \in Ratios
    BY DEF Zero, Ratio, Ratios
  <1>8. precision \in Ratios
    <2>1. CASE retrieved = {}
      BY <1>7, <2>1
    <2>2. CASE retrieved # {}
      <3>1. Cardinality(retrieved) # 0
        BY <1>4, <2>2, FS_EmptySet
      <3> QED
        BY <1>6, <2>2, <3>1 DEF Ratio, Ratios
    <2> QED
      BY <2>1, <2>2
  <1>9. case.sources # {} => recall \in Ratios /\ (recall.num = recall.den <=> matched = case.sources)
    <2>1. case.sources # {} => Cardinality(case.sources) # 0
      BY FS_EmptySet
    <2>2. Cardinality(matched) = Cardinality(case.sources) <=> matched = case.sources
      BY <1>5, FS_Subset
    <2>3. recall.num = Cardinality(matched) /\ recall.den = Cardinality(case.sources)
      BY DEF Ratio
    <2> QED
      BY <1>6, <2>1, <2>2, <2>3 DEF Ratio, Ratios
  <1>10. rank \in Ratios
    <2> DEFINE ranks == {i \in DOMAIN considered : considered[i] \in case.sources}
               first == CHOOSE i \in ranks : \A j \in ranks : i <= j
    <2>1. rank = IF ranks = {} THEN Zero ELSE Ratio(1, first)
      BY DEF ReciprocalRank
    <2>2. ranks \in SUBSET (Nat \ {0})
      BY <1>3
    <2> HIDE DEF ranks
    <2>3. ranks # {} => first \in Nat \ {0}
      BY <2>2, FirstRank
    <2> HIDE DEF first
    <2> QED
      BY <1>7, <2>1, <2>3 DEF Ratio, Ratios
  <1>11. matched = case.sources <=> case.sources \subseteq Seen(d, k)
    BY <1>3
  <1>12. matched = case.sources \intersect Seen(d, k)
    BY <1>3
  <1> HIDE DEF matched, precision, recall, rank
  <1>13. CASE case.sources = {}
    BY <1>1, <1>2, <1>3, <1>13
  <1>14. CASE case.sources # {}
    <2>1. /\ r.retrieved = retrieved /\ r.precision = precision /\ r.recall = recall
          /\ r.hit = (matched # {}) /\ r.rank = rank
      BY <1>2, <1>14
    <2>2. r.hit = (case.sources \intersect Seen(d, k) # {})
      BY <1>12, <2>1
    <2> QED
      BY <1>1, <1>3, <1>8, <1>9, <1>10, <1>11, <1>14, <2>1, <2>2
  <1> QED
    BY <1>13, <1>14

\* What the answer to a case is judged by.
Applies(case, said, o) ==
    \/ case.fragments # {}
    \/ case.excluded # {}
    \/ case.sources # {} /\ o.requireCitations
    \/ said.cites # <<>> /\ o.validateCitations
AnswerHolds(case, said, retrieved, o) ==
    /\ case.fragments # {} => IF o.allFragments THEN case.fragments \subseteq said.text
                              ELSE case.fragments \intersect said.text # {}
    /\ case.excluded # {} => case.excluded \intersect said.text = {}
    /\ case.sources # {} /\ o.requireCitations => said.cites # <<>>
    /\ said.cites # <<>> /\ o.validateCitations => ToSet(said.cites) \subseteq retrieved

\* The set of checks says whether there is one, and whether all hold.
LEMMA AnswerJudged ==
    ASSUME NEW case, NEW said, NEW retrieved, NEW o \in RunOptions
    PROVE  EvaluateAnswer(case, said, retrieved, o) =
             IF ~Applies(case, said, o) THEN None ELSE AnswerHolds(case, said, retrieved, o)
  <1> DEFINE a == case.fragments # {}
             b == case.excluded # {}
             c == case.sources # {} /\ o.requireCitations
             d == said.cites # <<>> /\ o.validateCitations
             u == IF o.allFragments THEN case.fragments \subseteq said.text
                  ELSE case.fragments \intersect said.text # {}
             v == case.excluded \intersect said.text = {}
             w == said.cites # <<>>
             x == ToSet(said.cites) \subseteq retrieved
             checks == AnswerChecks(case, said, retrieved, o)
  <1>1. o.requireCitations \in BOOLEAN /\ o.validateCitations \in BOOLEAN /\ o.allFragments \in BOOLEAN
    BY DEF RunOptions
  <1>2. a \in BOOLEAN /\ b \in BOOLEAN /\ c \in BOOLEAN /\ d \in BOOLEAN
    BY <1>1
  <1>3. u \in BOOLEAN /\ v \in BOOLEAN /\ w \in BOOLEAN /\ x \in BOOLEAN
    BY <1>1
  <1>4. checks = (IF a THEN {u} ELSE {}) \union (IF b THEN {v} ELSE {})
                 \union (IF c THEN {w} ELSE {}) \union (IF d THEN {x} ELSE {})
    <2>1. (IF case.fragments = {} THEN {}
           ELSE IF o.allFragments THEN {case.fragments \subseteq said.text}
           ELSE {case.fragments \intersect said.text # {}}) = IF a THEN {u} ELSE {}
      BY <1>1
    <2> QED
      BY <2>1 DEF AnswerChecks
  <1>5. EvaluateAnswer(case, said, retrieved, o) = IF checks = {} THEN None ELSE checks = {TRUE}
    BY DEF EvaluateAnswer
  <1>6. Applies(case, said, o) = (a \/ b \/ c \/ d)
    BY DEF Applies
  <1>7. AnswerHolds(case, said, retrieved, o) = ((a => u) /\ (b => v) /\ (c => w) /\ (d => x))
    BY DEF AnswerHolds
  <1> HIDE DEF a, b, c, d, u, v, w, x, checks
  <1>8. /\ checks = {} <=> ~(a \/ b \/ c \/ d)
        /\ checks = {TRUE} <=> (a \/ b \/ c \/ d) /\ (a => u) /\ (b => v) /\ (c => w) /\ (d => x)
    <2>1. (a => u \in checks) /\ (b => v \in checks) /\ (c => w \in checks) /\ (d => x \in checks)
      BY <1>4
    <2>2. \A y \in checks : (a /\ y = u) \/ (b /\ y = v) \/ (c /\ y = w) \/ (d /\ y = x)
      BY <1>4
    <2>3. checks = {} <=> ~(a \/ b \/ c \/ d)
      BY <2>1, <2>2
    <2>4. ASSUME checks = {TRUE}
          PROVE  (a => u) /\ (b => v) /\ (c => w) /\ (d => x)
      BY <1>3, <2>1, <2>4
    <2>5. ASSUME a \/ b \/ c \/ d, a => u, b => v, c => w, d => x
          PROVE  checks = {TRUE}
      <3>1. \A y \in checks : y = TRUE
        BY <1>3, <2>2, <2>5
      <3>2. checks # {}
        BY <2>3, <2>5
      <3> QED
        BY <3>1, <3>2
    <2> QED
      BY <2>1, <2>3, <2>4, <2>5
  <1> QED
    BY <1>5, <1>6, <1>7, <1>8

\* Of one or two verdicts, where one may be missing.
LEMMA CaseVerdict ==
    ASSUME NEW r, NEW s, r = None \/ r \in BOOLEAN, s = None \/ s \in BOOLEAN
    PROVE  LET applicable == {r, s} \ {None}
           IN  /\ applicable = {} <=> r = None /\ s = None
               /\ applicable = {TRUE} <=> (r # None \/ s # None) /\ (r # None => r) /\ (s # None => s)
  <1> DEFINE applicable == {r, s} \ {None}
  <1>1. TRUE # None /\ FALSE # None
    BY NoneAssumption
  <1>2. applicable = {} <=> r = None /\ s = None
    OBVIOUS
  <1>3. ASSUME applicable = {TRUE} PROVE (r # None \/ s # None) /\ (r # None => r) /\ (s # None => s)
    BY <1>1, <1>2, <1>3
  <1>4. ASSUME r # None \/ s # None, r # None => r, s # None => s PROVE applicable = {TRUE}
    <2>1. (r # None => r = TRUE) /\ (s # None => s = TRUE)
      BY <1>4
    <2> QED
      BY <1>4, <2>1
  <1> QED
    BY <1>2, <1>3, <1>4

\* For an answer that was not raised, the checks are what GateIsSound asks.
LEMMA AnswerMeans ==
    ASSUME NEW case, NEW response, IsResponse(response), ~Raised(response), NEW o \in RunOptions
    PROVE  /\ Judged(case, response, o) <=> case.sources # {} \/ Applies(case, response.answer, o)
           /\ Holds(case, response, o) <=>
                /\ IF o.requireAll THEN case.sources \subseteq Seen(response.documents, o.k)
                   ELSE case.sources = {} \/ case.sources \intersect Seen(response.documents, o.k) # {}
                /\ AnswerHolds(case, response.answer, Seen(response.documents, o.k), o)
  <1> DEFINE cites == response.answer.cites
             all == case.fragments \subseteq response.answer.text
             some == case.fragments \intersect response.answer.text # {}
             seen == Seen(response.documents, o.k)
  <1>1. cites \in Seq(ToSet(cites))
    BY DEF IsResponse, Raised
  <1>2. cites # <<>> <=> ToSet(cites) # {}
    <2>1. Len(cites) \in Nat /\ DOMAIN cites = 1 .. Len(cites)
      BY <1>1
    <2>2. cites # <<>> <=> Len(cites) # 0
      BY <1>1
    <2>3. Len(cites) # 0 <=> DOMAIN cites # {}
      <3>1. Len(cites) # 0 => 1 \in DOMAIN cites
        BY <2>1
      <3>2. Len(cites) = 0 => DOMAIN cites = {}
        BY <2>1
      <3> QED
        BY <3>1, <3>2
    <2> QED
      BY <2>2, <2>3 DEF ToSet
  <1>3. Considered(response, o) = seen
    BY DEF Considered, Seen
  <1>4. Judged(case, response, o) <=> case.sources # {} \/ Applies(case, response.answer, o)
    BY DEF Judged, Applies
  <1>5. o.allFragments \in BOOLEAN /\ o.requireAll \in BOOLEAN /\ o.validateCitations \in BOOLEAN
    BY DEF RunOptions
  <1>6. (case.fragments # {} => IF o.allFragments THEN all ELSE some) <=>
          /\ \A f \in case.fragments : o.allFragments => f \in response.answer.text
          /\ case.fragments = {} \/ \E f \in case.fragments : f \in response.answer.text
    BY <1>5
  <1>7. (case.excluded # {} => case.excluded \intersect response.answer.text = {}) <=>
          \A f \in case.excluded : f \notin response.answer.text
    OBVIOUS
  <1>8. (cites # <<>> /\ o.validateCitations => ToSet(cites) \subseteq seen) <=>
          (o.validateCitations => ToSet(cites) \subseteq seen)
    BY <1>2
  <1>9. (case.sources # {} /\ o.requireCitations => cites # <<>>) <=>
          (case.sources # {} /\ o.requireCitations => ToSet(cites) # {})
    BY <1>2
  <1> QED
    BY <1>3, <1>4, <1>6, <1>7, <1>8, <1>9 DEF Holds, AnswerHolds

\* What a case becomes: an error exactly if something raised, and else by what was asked of it.
LEMMA CaseJudged ==
    ASSUME NEW case, IsFiniteSet(case.sources), NEW response, IsResponse(response), NEW o \in RunOptions
    PROVE  LET r == RunCase(case, response, o)
           IN  /\ r.case = case.id /\ r.status \in Statuses
               /\ r.status = "error" <=> Raised(response)
               /\ r.status = "failed" <=>
                    ~Raised(response) /\ Judged(case, response, o) /\ ~Holds(case, response, o)
               /\ r.status = "skipped" <=> ~Raised(response) /\ ~Judged(case, response, o)
               /\ r.passed \in BOOLEAN \union {None}
               /\ \A m \in {"precision", "recall", "hits", "rank"} :
                    Score(r.retrieval, m) \in Ratios \union {None}
  <1> DEFINE scored == EvaluateRetrieval(case, response.documents, o.k)
             retrieval == IF response.documents = None THEN None ELSE scored
             judged == EvaluateAnswer(case, response.answer, retrieval.retrieved, o)
             passed == IF Raised(response) THEN None ELSE judged
  <1>1. PICK r : r = RunCase(case, response, o)
    OBVIOUS
  <1>2. r = [case |-> case.id, retrieval |-> retrieval, passed |-> passed,
             status |-> IF Raised(response) THEN "error" ELSE CaseStatus(retrieval, passed, o.requireAll)]
    BY <1>1 DEF RunCase, Raised
  <1> HIDE DEF scored, retrieval, judged, passed
  <1>3. /\ r.case = case.id /\ r.retrieval = retrieval /\ r.passed = passed
        /\ r.status = IF Raised(response) THEN "error" ELSE CaseStatus(retrieval, passed, o.requireAll)
    BY <1>2
  <1>4. o.k \in {None} \union (Nat \ {0}) /\ o.requireAll \in BOOLEAN
    BY DEF RunOptions
  <1>5. response.documents # None =>
          /\ retrieval = scored
          /\ scored.retrieved = Seen(response.documents, o.k)
          /\ scored.precision \in Ratios \union {None} /\ scored.recall \in Ratios \union {None}
          /\ scored.rank \in Ratios \union {None} /\ scored.hit \in BOOLEAN \union {None}
          /\ case.sources = {} => scored.hit = None
          /\ case.sources # {} =>
               /\ scored.hit = (case.sources \intersect Seen(response.documents, o.k) # {})
               /\ scored.recall.num = scored.recall.den <=> case.sources \subseteq Seen(response.documents, o.k)
    <2>1. ASSUME response.documents # None PROVE response.documents \in Seq(ToSet(response.documents))
      BY <2>1 DEF IsResponse
    <2> QED
      BY <1>4, <2>1, RetrievalScored DEF scored, retrieval
  <1>6. \A m \in {"precision", "recall", "hits", "rank"} : Score(r.retrieval, m) \in Ratios \union {None}
    <2>1. Zero \in Ratios /\ Ratio(1, 1) \in Ratios
      BY DEF Zero, Ratio, Ratios
    <2>2. CASE retrieval = None
      BY <1>3, <2>2 DEF Score
    <2>3. CASE retrieval # None
      <3>1. response.documents # None
        BY <2>3 DEF retrieval
      <3>2. Score(retrieval, "hits") \in Ratios \union {None}
        BY <2>1, <2>3 DEF Score
      <3>3. /\ Score(retrieval, "precision") = scored.precision
            /\ Score(retrieval, "recall") = scored.recall
            /\ Score(retrieval, "rank") = scored.rank
        BY <1>5, <2>3, <3>1 DEF Score
      <3> QED
        BY <1>3, <1>5, <3>1, <3>2, <3>3
    <2> QED
      BY <2>2, <2>3
  <1>7. CASE Raised(response)
    <2>1. r.status = "error" /\ r.passed = None
      BY <1>3, <1>7 DEF passed
    <2> QED
      BY <1>1, <1>3, <1>6, <1>7, <2>1 DEF Statuses
  <1>8. CASE ~Raised(response)
    <2>1. response.documents # None
      BY <1>8 DEF Raised
    <2>2. PICK seen : seen = Seen(response.documents, o.k)
      OBVIOUS
    <2> DEFINE applies == Applies(case, response.answer, o)
               holds == AnswerHolds(case, response.answer, seen, o)
               found == IF o.requireAll THEN case.sources \subseteq seen
                        ELSE case.sources = {} \/ case.sources \intersect seen # {}
               verdict == RetrievalPassed(retrieval, o.requireAll)
    <2>3. passed = IF ~applies THEN None ELSE holds
      BY <1>5, <1>8, <2>1, <2>2, AnswerJudged DEF passed, judged
    <2>4. holds \in BOOLEAN /\ applies \in BOOLEAN
      BY DEF AnswerHolds, Applies
    <2>5. Judged(case, response, o) <=> case.sources # {} \/ applies
      BY <1>8, AnswerMeans
    <2>6. Holds(case, response, o) <=> found /\ holds
      BY <1>8, <2>2, AnswerMeans
    <2>7. verdict = IF case.sources = {} THEN None ELSE found
      <3>1. CASE case.sources = {}
        BY <1>5, <2>1, <3>1 DEF RetrievalPassed
      <3>2. CASE case.sources # {}
        <4>1. retrieval.hit = (case.sources \intersect seen # {}) /\ retrieval.hit # None
          BY <1>5, <2>1, <2>2, <3>2, NoneAssumption
        <4>2. retrieval.recall.num = retrieval.recall.den <=> case.sources \subseteq seen
          BY <1>5, <2>1, <2>2, <3>2
        <4>3. verdict = (retrieval.hit /\ (o.requireAll => retrieval.recall.num = retrieval.recall.den))
          BY <4>1 DEF RetrievalPassed
        <4> QED
          BY <1>4, <3>2, <4>1, <4>2, <4>3
      <3> QED
        BY <3>1, <3>2
    <2>8. found \in BOOLEAN
      BY <1>4
    <2>9. r.status = LET applicable == {verdict, passed} \ {None}
                     IN IF applicable = {} THEN "skipped"
                        ELSE IF applicable = {TRUE} THEN "passed" ELSE "failed"
      BY <1>3, <1>8 DEF CaseStatus
    <2>10. case.sources = {} => found
      BY <1>4
    <2> HIDE DEF applies, holds, found, verdict
    <2>11. TRUE # None /\ FALSE # None
      BY NoneAssumption
    <2>12. (verdict = None <=> case.sources = {}) /\ (passed = None <=> ~applies)
      BY <2>3, <2>4, <2>7, <2>8, <2>11
    <2>13. (verdict = None \/ verdict \in BOOLEAN) /\ (passed = None \/ passed \in BOOLEAN)
      BY <2>3, <2>4, <2>7, <2>8
    <2>14. /\ {verdict, passed} \ {None} = {} <=> verdict = None /\ passed = None
           /\ {verdict, passed} \ {None} = {TRUE} <=>
                (verdict # None \/ passed # None) /\ (verdict # None => verdict) /\ (passed # None => passed)
      BY <2>13, CaseVerdict
    <2>15. r.status = "skipped" <=> ~Judged(case, response, o)
      BY <2>5, <2>9, <2>12, <2>14
    <2>16. (verdict # None => verdict) /\ (passed # None => passed) <=> found /\ (applies => holds)
      BY <2>3, <2>4, <2>7, <2>8, <2>10, <2>12
    <2>17. ~applies => holds
      BY DEF applies, holds, Applies, AnswerHolds
    <2>18. r.status = "failed" <=> Judged(case, response, o) /\ ~Holds(case, response, o)
      BY <2>5, <2>6, <2>9, <2>12, <2>14, <2>16, <2>17
    <2>19. r.status \in Statuses /\ r.status # "error"
      BY <2>9 DEF Statuses
    <2> QED
      BY <1>1, <1>3, <1>6, <1>8, <2>13, <2>15, <2>18, <2>19
  <1> QED
    BY <1>7, <1>8

\* A run of a dataset went through it, or until something raised.
Ran(args, responses) ==
    /\ IsDataset(args.dataset) /\ args.options \in RunOptions
    /\ DOMAIN responses = 1 .. Len(responses) /\ Len(responses) \in 1 .. Len(args.dataset.cases)
    /\ \A i \in DOMAIN responses : IsResponse(responses[i])
    /\ Len(responses) = Len(args.dataset.cases) \/ \E i \in DOMAIN responses : Raised(responses[i])

\* What RunOf puts together.
LEMMA RunHolds ==
    ASSUME NEW p, NEW args, NEW responses, NEW status
    PROVE  LET run == RunOf(p, args, responses, status)
           IN  /\ run.responses = responses
               /\ run.results = [i \in DOMAIN responses |->
                                    RunCase(args.dataset.cases[i], responses[i], args.options)]
               /\ run.summary = Summarise(args.dataset, run.results)
  <1> DEFINE results == [i \in DOMAIN responses |->
                            RunCase(args.dataset.cases[i], responses[i], args.options)]
             run == Run(p, args.dataset, status, results, args.options)
  <1>1. /\ DOMAIN run = {"id", "name", "version", "k", "status", "results", "summary"}
        /\ run.results = results /\ run.summary = Summarise(args.dataset, results)
    BY DEF Run
  <1>2. RunOf(p, args, responses, status) =
          [f \in DOMAIN run \union {"responses"} |-> IF f = "responses" THEN responses ELSE run[f]]
    BY DEF RunOf
  <1> HIDE DEF run, results
  <1>3. /\ RunOf(p, args, responses, status).responses = responses
        /\ RunOf(p, args, responses, status).results = results
        /\ RunOf(p, args, responses, status).summary = Summarise(args.dataset, results)
    BY <1>1, <1>2
  <1> QED
    BY <1>3 DEF results

\* What one result of a run is.
LEMMA ResultsJudged ==
    ASSUME NEW args, NEW responses, Ran(args, responses)
    PROVE  \A i \in DOMAIN responses :
             /\ i \in 1 .. Len(args.dataset.cases)
             /\ IsFiniteSet(args.dataset.cases[i].sources)
             /\ IsResponse(responses[i]) /\ args.options \in RunOptions
  <1>1. DOMAIN args.dataset.cases = 1 .. Len(args.dataset.cases) /\ Len(args.dataset.cases) \in Nat
    BY DEF Ran, IsDataset
  <1> QED
    BY <1>1 DEF Ran, IsDataset

\* A run that went through has a ratio or nothing for every metric.
LEMMA RunScored ==
    ASSUME NEW p, NEW args, NEW responses, NEW status, Ran(args, responses)
    PROVE  IsScored(RunOf(p, args, responses, status))
  <1> DEFINE case(i) == args.dataset.cases[i]
             result(i) == RunCase(case(i), responses[i], args.options)
             n == Len(responses)
  <1>1. PICK run : run = RunOf(p, args, responses, status)
    OBVIOUS
  <1>2. PICK results : results = [i \in DOMAIN responses |-> result(i)]
    OBVIOUS
  <1>3. run.results = results /\ run.summary = Summarise(args.dataset, results)
    BY <1>1, <1>2, RunHolds
  <1>4. DOMAIN results = 1 .. n /\ n \in Nat /\ DOMAIN responses = 1 .. n
    BY <1>2 DEF Ran
  <1>5. \A i \in 1 .. n :
          /\ results[i].status \in Statuses
          /\ results[i].passed \in BOOLEAN \union {None}
          /\ \A m \in {"precision", "recall", "hits", "rank"} :
               Score(results[i].retrieval, m) \in Ratios \union {None}
    BY <1>2, <1>4, ResultsJudged, CaseJudged
  <1>6. ASSUME NEW m \in {"precision", "recall", "hits", "rank"}
        PROVE  Metric(run, m) \in Ratios \union {None}
    <2> DEFINE scores == [i \in DOMAIN results |-> Score(results[i].retrieval, m)]
    <2>1. scores \in [1 .. n -> Ratios \union {None}]
      BY <1>4, <1>5
    <2>2. run.summary.metrics.retrieval = SummariseRetrieval(results)
      BY <1>3 DEF Summarise
    <2>3. SummariseRetrieval(results)[m] = Mean(scores)
      BY DEF SummariseRetrieval
    <2>4. Metric(run, m) = Mean(scores)
      BY <2>2, <2>3 DEF Metric
    <2> HIDE DEF scores
    <2> QED
      BY <1>4, <2>1, <2>4, MeanScored
  <1>7. Metric(run, "answers") \in Ratios \union {None}
    <2> DEFINE judged == {i \in DOMAIN results : results[i].passed # None}
               good == {i \in judged : results[i].passed}
    <2>1. Metric(run, "answers") = PassRate(results)
      BY <1>3 DEF Metric, Summarise
    <2>2. PassRate(results) = IF judged = {} THEN None ELSE Ratio(Cardinality(good), Cardinality(judged))
      BY DEF PassRate
    <2>3. IsFiniteSet(1 .. n) /\ judged \subseteq 1 .. n /\ good \subseteq 1 .. n
      BY <1>4, FS_Interval
    <2> HIDE DEF judged, good
    <2>4. IsFiniteSet(judged) /\ IsFiniteSet(good)
      BY <2>3, FS_Subset
    <2>5. Cardinality(judged) \in Nat /\ Cardinality(good) \in Nat /\ (judged # {} => Cardinality(judged) # 0)
      BY <2>4, FS_CardinalityType, FS_EmptySet
    <2>6. judged # {} => Ratio(Cardinality(good), Cardinality(judged)) \in Ratios
      BY <2>5 DEF Ratio, Ratios
    <2> QED
      BY <2>1, <2>2, <2>6
  <1> QED
    BY <1>1, <1>3, <1>4, <1>5, <1>6, <1>7 DEF IsScored, Metrics

\* How bad the answers of a run were.
BadList(args, run) ==
    [i \in DOMAIN run.responses |-> Badness(args.dataset.cases[i], run.responses[i], args.options)]

\* The exit code that the answers of a run deserve, and that it has.
ExitOf(args, run) ==
    IF \E i \in DOMAIN run.responses : BadList(args, run)[i] = 2 THEN CaseExecutionError
    ELSE IF \/ \E i \in DOMAIN run.responses : BadList(args, run)[i] = 1
            \/ \A i \in DOMAIN run.responses :
                  ~Judged(args.dataset.cases[i], run.responses[i], args.options)
    THEN EvaluationFailed ELSE Success

LEMMA ExitMeans ==
    ASSUME NEW p, NEW args, NEW responses, NEW status, Ran(args, responses),
           NEW run, run = RunOf(p, args, responses, status)
    PROVE  ExitCodeForRun(run) = ExitOf(args, run)
  <1> DEFINE case == args.dataset.cases
             n == Len(responses)
             bad(i) == Badness(case[i], responses[i], args.options)
             judged(i) == Judged(case[i], responses[i], args.options)
             In(s) == {i \in 1 .. n : RunCase(case[i], responses[i], args.options).status = s}
  <1>1. PICK results : results = [i \in DOMAIN responses |-> RunCase(case[i], responses[i], args.options)]
    OBVIOUS
  <1>2. /\ run.responses = responses /\ run.summary = Summarise(args.dataset, results)
    BY <1>1, RunHolds
  <1>3. DOMAIN results = 1 .. n /\ n \in Nat /\ DOMAIN responses = 1 .. n /\ n \in 1 .. Len(case) /\ Len(case) \in Nat
    BY <1>1 DEF Ran, IsDataset
  <1>4. \A i \in 1 .. n :
          LET s == RunCase(case[i], responses[i], args.options).status
          IN  /\ s = "error" <=> bad(i) = 2
              /\ s = "failed" <=> bad(i) = 1
              /\ s = "skipped" <=> bad(i) # 2 /\ ~judged(i)
    BY <1>3, ResultsJudged, CaseJudged DEF Badness
  <1>5. \A s : CasesIn(results, s) = Cardinality(In(s)) /\ IsFiniteSet(In(s)) /\ In(s) \subseteq 1 .. n
    <2>1. ASSUME NEW s
          PROVE  {i \in DOMAIN results : results[i].status = s} = In(s)
      BY <1>1, <1>3
    <2>2. IsFiniteSet(1 .. n)
      BY <1>3, FS_Interval
    <2>3. \A s : In(s) \subseteq 1 .. n
      OBVIOUS
    <2> HIDE DEF In
    <2>4. \A s : IsFiniteSet(In(s))
      BY <2>2, <2>3, FS_Subset
    <2> QED
      BY <2>1, <2>3, <2>4 DEF CasesIn
  <1>6. /\ run.summary.error = Cardinality(In("error")) /\ run.summary.failed = Cardinality(In("failed"))
        /\ run.summary.skipped = Cardinality(In("skipped")) /\ run.summary.total = Len(case)
    BY <1>2, <1>5 DEF Summarise
  <1>7. \A s : Cardinality(In(s)) \in Nat /\ (Cardinality(In(s)) = 0 <=> In(s) = {})
    <2> HIDE DEF In
    <2> QED
      BY <1>5, FS_CardinalityType, FS_EmptySet
  <1>8. run.summary.error > 0 <=> \E i \in 1 .. n : bad(i) = 2
    <2>1. In("error") # {} <=> \E i \in 1 .. n : bad(i) = 2
      BY <1>4
    <2> HIDE DEF In, bad
    <2> QED
      BY <1>6, <1>7, <2>1
  <1>9. run.summary.failed > 0 <=> \E i \in 1 .. n : bad(i) = 1
    <2>1. In("failed") # {} <=> \E i \in 1 .. n : bad(i) = 1
      BY <1>4
    <2> HIDE DEF In, bad
    <2> QED
      BY <1>6, <1>7, <2>1
  <1>10. ASSUME \A i \in 1 .. n : bad(i) # 2
         PROVE  run.summary.skipped = run.summary.total <=> \A i \in 1 .. n : ~judged(i)
    <2>1. n = Len(case)
      BY <1>3, <1>10 DEF Ran, Badness
    <2>2. Cardinality(1 .. n) = n /\ IsFiniteSet(1 .. n)
      BY <1>3, FS_Interval
    <2>3. In("skipped") = 1 .. n <=> \A i \in 1 .. n : ~judged(i)
      BY <1>4, <1>10
    <2> HIDE DEF In, judged
    <2>4. Cardinality(In("skipped")) = Cardinality(1 .. n) <=> In("skipped") = 1 .. n
      BY <1>5, <2>2, FS_Subset
    <2> QED
      BY <1>6, <2>1, <2>2, <2>3, <2>4
  <1> DEFINE ran == DOMAIN run.responses
             badness == [i \in ran |-> Badness(case[i], run.responses[i], args.options)]
  <1>11. ran = 1 .. n /\ \A i \in 1 .. n : badness[i] = bad(i)
    BY <1>2, <1>3
  <1>12. \A i \in 1 .. n : Judged(case[i], run.responses[i], args.options) = judged(i)
    BY <1>2
  <1> HIDE DEF badness, ran, bad, judged
  <1>13. ExitCodeForRun(run) =
           IF \E i \in ran : badness[i] = 2 THEN CaseExecutionError
           ELSE IF \/ \E i \in ran : badness[i] = 1
                   \/ \A i \in ran : ~Judged(case[i], run.responses[i], args.options)
           THEN EvaluationFailed ELSE Success
    <2>1. CASE \E i \in 1 .. n : bad(i) = 2
      BY <1>8, <1>11, <2>1 DEF ExitCodeForRun
    <2>2. CASE ~\E i \in 1 .. n : bad(i) = 2
      <3>1. run.summary.skipped = run.summary.total <=> \A i \in 1 .. n : ~judged(i)
        BY <1>10, <2>2
      <3> QED
        BY <1>8, <1>9, <1>11, <1>12, <2>2, <3>1 DEF ExitCodeForRun
    <2> QED
      BY <2>1, <2>2
  <1> QED
    BY <1>13 DEF badness, ran, BadList, ExitOf

\* Where two runs have a case, and in which status.
Move(baseline, run, from, to) ==
    \E c \in CasesOf(baseline) \union CasesOf(run) : StatusOf(baseline, c) \in from /\ StatusOf(run, c) \in to
Anything == {None} \union Statuses

\* A status of a run, for the cases it has.
LEMMA StatusHeld ==
    ASSUME NEW run, \A i \in DOMAIN run.results : run.results[i].status \in Statuses, NEW c
    PROVE  /\ c \in CasesOf(run) => StatusOf(run, c) \in Statuses
           /\ c \notin CasesOf(run) => StatusOf(run, c) = None
           /\ StatusOf(run, c) = None <=> c \notin CasesOf(run)
  <1>1. c \in CasesOf(run) <=> \E r \in Results(run) : r.case = c
    BY DEF CasesOf
  <1>2. ASSUME c \in CasesOf(run) PROVE StatusOf(run, c) \in Statuses
    <2>1. (CHOOSE r \in Results(run) : r.case = c) \in Results(run)
      BY <1>1, <1>2
    <2>2. \A r \in Results(run) : r.status \in Statuses
      BY DEF Results
    <2> QED
      BY <1>1, <1>2, <2>1, <2>2 DEF StatusOf
  <1>3. ASSUME c \notin CasesOf(run) PROVE StatusOf(run, c) = None
    BY <1>1, <1>3 DEF StatusOf
  <1> QED
    BY <1>2, <1>3, NoneAssumption

\* The reasons of a comparison, one by one.
LEMMA RegressedFor ==
    ASSUME NEW baseline, NEW run, NEW policy \in RegressionPolicies, IsScored(baseline), IsScored(run)
    PROVE  Regressed(baseline, run, policy) <=>
             \/ \E m \in Metrics : Fell(Metric(baseline, m), Metric(run, m), policy.thresholds[m])
             \/ policy.newFailures /\ Move(baseline, run, {"passed", "skipped"}, {"failed"})
             \/ policy.newErrors /\ Move(baseline, run, {"passed", "failed", "skipped"}, {"error"})
             \/ Move(baseline, run, {None}, {"failed"})
             \/ Move(baseline, run, {None}, {"error"})
             \/ policy.added /\ Move(baseline, run, {None}, Anything)
             \/ policy.removed /\ Move(baseline, run, Anything, {None})
  <1> DEFINE metrics == {CompareMetric(Metric(baseline, m), Metric(run, m), policy.thresholds[m]) : m \in Metrics}
             cases == CompareCases(baseline, run)
             moves == {cases[c] : c \in DOMAIN cases}
             added == {m \in moves : m[1] = None}
             removed == {m \in moves : m[2] = None}
  <1>1. metrics \intersect {"regressed", "became_unevaluable"} # {} <=>
          \E m \in Metrics : Fell(Metric(baseline, m), Metric(run, m), policy.thresholds[m])
    <2>1. \A m \in Metrics :
            /\ Metric(baseline, m) \in Ratios \union {None} /\ Metric(run, m) \in Ratios \union {None}
            /\ policy.thresholds[m] \in MetricThresholds \union {None}
      BY DEF IsScored, RegressionPolicies
    <2>2. \A m \in Metrics :
            CompareMetric(Metric(baseline, m), Metric(run, m), policy.thresholds[m])
                \in {"regressed", "became_unevaluable"}
            <=> Fell(Metric(baseline, m), Metric(run, m), policy.thresholds[m])
      BY <2>1, FellMeans
    <2> QED
      BY <2>2
  <1>2. \A m : m \in moves <=> \E c \in CasesOf(baseline) \union CasesOf(run) :
                                  m = <<StatusOf(baseline, c), StatusOf(run, c)>>
    BY DEF CompareCases
  <1>3. \A c \in CasesOf(baseline) \union CasesOf(run) :
          StatusOf(baseline, c) \in Anything /\ StatusOf(run, c) \in Anything
    BY StatusHeld DEF Anything, IsScored
  <1> HIDE DEF cases, moves
  <1> DEFINE all == CasesOf(baseline) \union CasesOf(run)
  <1>4. \A m \in moves : \E c \in all : m[1] = StatusOf(baseline, c) /\ m[2] = StatusOf(run, c)
    BY <1>2
  <1>5. \A c \in all : \E m \in moves : m[1] = StatusOf(baseline, c) /\ m[2] = StatusOf(run, c)
    <2>1. ASSUME NEW c \in all
          PROVE  <<StatusOf(baseline, c), StatusOf(run, c)>> \in moves
      BY <1>2
    <2> QED
      BY <2>1
  <1>6. /\ moves \intersect NewlyFailed # {} <=> Move(baseline, run, {"passed", "skipped"}, {"failed"})
        /\ moves \intersect NewlyErrored # {} <=> Move(baseline, run, {"passed", "failed", "skipped"}, {"error"})
    BY <1>2 DEF NewlyFailed, NewlyErrored, Move
  <1>7. ASSUME NEW to
        PROVE  (\E m \in moves : m[1] = None /\ m[2] \in to) <=> Move(baseline, run, {None}, to)
    BY <1>4, <1>5 DEF Move
  <1>8. (\E m \in moves : m[1] \in Anything /\ m[2] = None) <=> Move(baseline, run, Anything, {None})
    BY <1>4, <1>5 DEF Move
  <1>9. \A m \in moves : m[1] \in Anything /\ m[2] \in Anything
    BY <1>3, <1>4
  <1>10. Regressed(baseline, run, policy) <=>
             \/ metrics \intersect {"regressed", "became_unevaluable"} # {}
             \/ policy.newFailures /\ moves \intersect NewlyFailed # {}
             \/ policy.newErrors /\ moves \intersect NewlyErrored # {}
             \/ \E m \in added : m[2] = "failed"
             \/ \E m \in added : m[2] = "error"
             \/ policy.added /\ added # {}
             \/ policy.removed /\ removed # {}
    <2> USE DEF cases, moves
    <2>1. RegressionReasons(baseline, run, policy) =
            (metrics \intersect {"regressed", "became_unevaluable"})
            \union (IF policy.newFailures /\ moves \intersect NewlyFailed # {} THEN {"new_failed"} ELSE {})
            \union (IF policy.newErrors /\ moves \intersect NewlyErrored # {} THEN {"new_error"} ELSE {})
            \union (IF \E m \in added : m[2] = "failed" THEN {"added_failing"} ELSE {})
            \union (IF \E m \in added : m[2] = "error" THEN {"added_error"} ELSE {})
            \union (IF policy.added /\ added # {} THEN {"added"} ELSE {})
            \union (IF policy.removed /\ removed # {} THEN {"removed"} ELSE {})
      BY DEF RegressionReasons
    <2> HIDE DEF metrics, added, removed, cases, moves
    <2> QED
      BY <2>1 DEF Regressed
  <1>11. /\ (\E m \in added : m[2] = "failed") <=> Move(baseline, run, {None}, {"failed"})
         /\ (\E m \in added : m[2] = "error") <=> Move(baseline, run, {None}, {"error"})
    BY <1>7
  <1>12. added # {} <=> Move(baseline, run, {None}, Anything)
    BY <1>7, <1>9
  <1>13. removed # {} <=> Move(baseline, run, Anything, {None})
    BY <1>8, <1>9
  <1> HIDE DEF metrics, added, removed
  <1> QED
    BY <1>1, <1>6, <1>10, <1>11, <1>12, <1>13

\* How bad the answer to a case was, and which cases a run has.
BadCase(args, run, c) ==
    BadList(args, run)[CHOOSE i \in DOMAIN run.responses : args.dataset.cases[i].id = c]
CaseIds(args, run) == {args.dataset.cases[i].id : i \in DOMAIN run.responses}

\* What a run has of each case: its status says how bad the answer was.
LEMMA RunBadness ==
    ASSUME NEW p, NEW args, NEW responses, NEW status, Ran(args, responses),
           NEW run, run = RunOf(p, args, responses, status)
    PROVE  /\ CasesOf(run) = CaseIds(args, run)
           /\ \A c \in CasesOf(run) :
                /\ BadCase(args, run, c) \in {0, 1, 2} /\ StatusOf(run, c) \in Statuses
                /\ BadCase(args, run, c) = 2 <=> StatusOf(run, c) = "error"
                /\ BadCase(args, run, c) = 1 <=> StatusOf(run, c) = "failed"
  <1> DEFINE case == args.dataset.cases
             n == Len(responses)
             result(i) == RunCase(case[i], responses[i], args.options)
             ids == {case[i].id : i \in 1 .. n}
  <1>1. run.responses = responses /\ run.results = [i \in DOMAIN responses |-> result(i)]
    BY RunHolds
  <1>2. DOMAIN responses = 1 .. n /\ \A i, j \in 1 .. n : case[i].id = case[j].id => i = j
    <2>1. DOMAIN responses = 1 .. n /\ \A i \in 1 .. n : i \in DOMAIN case
      BY DEF Ran, IsDataset
    <2> QED
      BY <2>1 DEF Ran, IsDataset
  <1>3. \A i \in 1 .. n :
          /\ result(i).case = case[i].id /\ result(i).status \in Statuses
          /\ result(i).status = "error" <=> Badness(case[i], responses[i], args.options) = 2
          /\ result(i).status = "failed" <=> Badness(case[i], responses[i], args.options) = 1
    BY <1>2, ResultsJudged, CaseJudged DEF Badness
  <1>4. Results(run) = {result(i) : i \in 1 .. n}
    BY <1>1, <1>2 DEF Results
  <1>5. CasesOf(run) = ids
    BY <1>3, <1>4 DEF CasesOf
  <1> HIDE DEF result
  <1>6. ASSUME NEW i \in 1 .. n PROVE StatusOf(run, case[i].id) = result(i).status
    <2>1. result(i) \in Results(run) /\ result(i).case = case[i].id
      BY <1>3, <1>4
    <2>2. \A r \in Results(run) : r.case = case[i].id => r = result(i)
      BY <1>2, <1>3, <1>4
    <2>3. (CHOOSE r \in Results(run) : r.case = case[i].id) = result(i)
      BY <2>1, <2>2
    <2> QED
      BY <2>1, <2>3 DEF StatusOf
  <1> DEFINE ran == DOMAIN run.responses
             badness == BadList(args, run)
  <1>7. ran = 1 .. n /\ \A i \in 1 .. n : badness[i] = Badness(case[i], responses[i], args.options)
    BY <1>1, <1>2 DEF BadList
  <1>8. ASSUME NEW c \in ids
        PROVE  /\ BadCase(args, run, c) \in {0, 1, 2} /\ StatusOf(run, c) \in Statuses
               /\ BadCase(args, run, c) = 2 <=> StatusOf(run, c) = "error"
               /\ BadCase(args, run, c) = 1 <=> StatusOf(run, c) = "failed"
    <2>1. PICK i : i = CHOOSE j \in ran : case[j].id = c
      OBVIOUS
    <2>2. i \in 1 .. n /\ case[i].id = c
      BY <1>7, <2>1
    <2>3. Badness(case[i], responses[i], args.options) \in {0, 1, 2}
      BY DEF Badness
    <2>4. badness[i] = Badness(case[i], responses[i], args.options)
      BY <1>7, <2>2
    <2>5. BadCase(args, run, c) = badness[i]
      BY <2>1 DEF BadCase
    <2> HIDE DEF badness
    <2> QED
      BY <1>3, <1>6, <2>2, <2>3, <2>4, <2>5
  <1>9. CaseIds(args, run) = ids
    BY <1>7 DEF CaseIds
  <1> QED
    BY <1>5, <1>8, <1>9

\* A run as GateIsSound compares it.
NowRun(args, run) == [run |-> run, badness |-> [c \in CaseIds(args, run) |-> BadCase(args, run, c)]]

\* A comparison finds a regression exactly if the run got worse by the policy.
LEMMA RegressedMeans ==
    ASSUME NEW p, NEW args, NEW responses, NEW status, Ran(args, responses),
           NEW run, run = RunOf(p, args, responses, status),
           NEW baseline, IsScored(baseline), NEW policy \in RegressionPolicies
    PROVE  Regressed(baseline, run, policy) <=> Worse(baseline, NowRun(args, run), CaseIds(args, run), policy)
  <1> DEFINE ids == CaseIds(args, run)
             bad == [c \in ids |-> BadCase(args, run, c)]
             now == [run |-> run, badness |-> bad]
             before == BadnessIn(baseline)
             old == CasesOf(baseline)
             B(c) == StatusOf(baseline, c)
             N(c) == StatusOf(run, c)
  <1>1. IsScored(run)
    BY RunScored
  <1>2. /\ CasesOf(run) = ids
        /\ \A c \in ids : /\ bad[c] \in {0, 1, 2}
                          /\ bad[c] = 2 <=> N(c) = "error"
                          /\ bad[c] = 1 <=> N(c) = "failed"
    BY RunBadness
  <1>3. DOMAIN before = old
    BY DEF BadnessIn
  <1>4. \A c \in old : /\ B(c) \in Statuses
                       /\ before[c] = IF B(c) = "error" THEN 2 ELSE IF B(c) = "failed" THEN 1 ELSE 0
    <2>1. \A c \in old : B(c) \in Statuses
      BY StatusHeld DEF IsScored
    <2> DEFINE Rank == [passed |-> 0, skipped |-> 0, failed |-> 1, error |-> 2]
    <2>2. \A s \in Statuses : Rank[s] = IF s = "error" THEN 2 ELSE IF s = "failed" THEN 1 ELSE 0
      BY DEF Statuses
    <2>3. \A c \in old : before[c] = Rank[B(c)]
      BY DEF BadnessIn
    <2> HIDE DEF Rank, before, old
    <2> QED
      BY <2>1, <2>2, <2>3
  <1>5. \A c : (B(c) = None <=> c \notin old) /\ (N(c) = None <=> c \notin ids) /\ (c \in ids => N(c) \in Statuses)
    BY <1>1, <1>2, StatusHeld DEF IsScored
  <1>6. None \notin Statuses
    BY NoneAssumption
  <1>7. policy.newFailures \in BOOLEAN /\ policy.newErrors \in BOOLEAN /\ policy.added \in BOOLEAN
        /\ policy.removed \in BOOLEAN
    BY DEF RegressionPolicies
  <1>8. DOMAIN now.badness = ids /\ now.run = run /\ \A c : now.badness[c] = bad[c]
    OBVIOUS
  <1> HIDE DEF bad, before, old, ids
  <1>9. Worse(baseline, now, ids, policy) <=>
            \/ \E m \in Metrics : Fell(Metric(baseline, m), Metric(run, m), policy.thresholds[m])
            \/ \E c \in old \intersect ids : /\ bad[c] > before[c]
                                             /\ IF bad[c] = 1 THEN policy.newFailures ELSE policy.newErrors
            \/ \E c \in ids \ old : bad[c] > 0 \/ policy.added
            \/ policy.removed /\ old \ ids # {}
    BY <1>3, <1>8 DEF Worse, before
  <1> DEFINE both == old \intersect ids
  <1>10. Move(baseline, run, {"passed", "skipped"}, {"failed"}) <=>
            \E c \in both : bad[c] = 1 /\ bad[c] > before[c]
    <2>1. ASSUME NEW c \in both
          PROVE  B(c) \in {"passed", "skipped"} /\ N(c) = "failed" <=> bad[c] = 1 /\ bad[c] > before[c]
      BY <1>2, <1>4 DEF Statuses
    <2>2. ASSUME NEW c, B(c) \in {"passed", "skipped"}, N(c) = "failed" PROVE c \in both
      <3>1. B(c) \in Statuses /\ N(c) \in Statuses
        BY <2>2 DEF Statuses
      <3> QED
        BY <1>5, <1>6, <3>1
    <2>3. \A c \in both : c \in CasesOf(baseline) \union CasesOf(run)
      BY <1>2 DEF old
    <2> QED
      BY <2>1, <2>2, <2>3 DEF Move
  <1>11. Move(baseline, run, {"passed", "failed", "skipped"}, {"error"}) <=>
            \E c \in both : bad[c] = 2 /\ bad[c] > before[c]
    <2>1. ASSUME NEW c \in both
          PROVE  B(c) \in {"passed", "failed", "skipped"} /\ N(c) = "error" <=> bad[c] = 2 /\ bad[c] > before[c]
      BY <1>2, <1>4 DEF Statuses
    <2>2. ASSUME NEW c, B(c) \in {"passed", "failed", "skipped"}, N(c) = "error" PROVE c \in both
      <3>1. B(c) \in Statuses /\ N(c) \in Statuses
        BY <2>2 DEF Statuses
      <3> QED
        BY <1>5, <1>6, <3>1
    <2>3. \A c \in both : c \in CasesOf(baseline) \union CasesOf(run)
      BY <1>2 DEF old
    <2> QED
      BY <2>1, <2>2, <2>3 DEF Move
  <1>12. Move(baseline, run, {None}, {"failed"}) \/ Move(baseline, run, {None}, {"error"}) <=>
            \E c \in ids \ old : bad[c] > 0
    <2>1. ASSUME NEW c \in ids PROVE N(c) \in {"failed", "error"} <=> bad[c] > 0
      BY <1>2
    <2>2. ASSUME NEW c, N(c) \in {"failed", "error"} PROVE c \in ids
      <3>1. N(c) \in Statuses
        BY <2>2 DEF Statuses
      <3> QED
        BY <1>5, <1>6, <3>1
    <2>3. ids \subseteq CasesOf(baseline) \union CasesOf(run)
      BY <1>2
    <2> QED
      BY <1>5, <2>1, <2>2, <2>3 DEF Move
  <1>13. Move(baseline, run, {None}, Anything) <=> ids \ old # {}
    <2>1. \A c \in CasesOf(baseline) \union CasesOf(run) : c \in old \union ids /\ N(c) \in Anything
      BY <1>2, <1>5 DEF old, Anything
    <2>2. ids \subseteq CasesOf(baseline) \union CasesOf(run)
      BY <1>2
    <2> QED
      BY <1>5, <2>1, <2>2 DEF Move
  <1>14. Move(baseline, run, Anything, {None}) <=> old \ ids # {}
    <2>1. \A c \in CasesOf(baseline) \union CasesOf(run) : c \in old \union ids
      BY <1>2 DEF old
    <2>2. \A c \in old : B(c) \in Anything /\ c \in CasesOf(baseline) \union CasesOf(run)
      BY <1>4 DEF old, Anything
    <2> QED
      BY <1>5, <2>1, <2>2 DEF Move
  <1>15. \A c \in both : bad[c] > before[c] => bad[c] \in {1, 2}
    <2>1. \A c \in both : bad[c] \in {0, 1, 2} /\ before[c] \in {0, 1, 2}
      BY <1>2, <1>4
    <2> QED
      BY <2>1
  <1>16. (\E c \in both : bad[c] > before[c] /\ IF bad[c] = 1 THEN policy.newFailures ELSE policy.newErrors) <=>
            \/ policy.newFailures /\ \E c \in both : bad[c] = 1 /\ bad[c] > before[c]
            \/ policy.newErrors /\ \E c \in both : bad[c] = 2 /\ bad[c] > before[c]
    BY <1>15
  <1>17. (\E c \in ids \ old : bad[c] > 0 \/ policy.added) <=>
            (\E c \in ids \ old : bad[c] > 0) \/ (policy.added /\ ids \ old # {})
    BY <1>7
  <1>18. Regressed(baseline, run, policy) <=> Worse(baseline, now, ids, policy)
    <2> HIDE DEF now
    <2> QED
      BY <1>1, <1>9, <1>10, <1>11, <1>12, <1>13, <1>14, <1>16, <1>17, RegressedFor
  <1> QED
    BY <1>18 DEF ids, bad, NowRun

-----------------------------------------------------------------------------
(* Reports of evaluation runs *)

RunFields == {"pc", "args", "responses", "run", "against", "code"}
Fields == {"pc", "ids", "found", "name", "code"}
ToPublish == {"listing", "saving", "creating", "writing", "publishing"}

\* From here on a process changes neither its run nor the directory.
Settled(p) ==
    /\ DOMAIN work[p] = RunFields
    /\ work[p].pc \in {"unlinking", "discarding", "comparing", "ended", "crashed"}

IsFine(p, code) == IF p \in Commands THEN code # ReportError ELSE code = 200

\* What a process that runs a dataset knows.
RunSound(p) == LET w == work[p] IN
    /\ DOMAIN w = RunFields
    /\ w.args.overwrite \in BOOLEAN /\ (w.args.overwrite => p \in Commands)
    /\ w.pc \in {"running"} \union ToPublish \union {"unlinking", "discarding", "comparing", "ended", "crashed"}
    /\ w.pc \in ToPublish => /\ w.run.id = p /\ w.run.status \in {"completed", "failed"}
                             /\ w.args.report # None
    /\ w.pc \in ToPublish \union {"unlinking", "comparing"} => IsFine(p, w.code)
    /\ w.pc = "listing" => p \notin Commands
    /\ w.pc = "publishing" => temps[p] = [whole |-> TRUE, run |-> w.run]
    /\ w.pc = "discarding" => ~IsFine(p, w.code)

WorkSound(p) ==
    \/ work[p] = Idle
    \/ DOMAIN work[p] = Fields /\ work[p].pc \in {"scanning", "loading", "ended", "crashed"}
    \/ RunSound(p)

\* The report under a process's name is its own or one that replaced it.
Kept(p) ==
    /\ Path(p) \in DOMAIN reports
    /\ \E q \in Processes : /\ Settled(q) /\ Path(q) = Path(p)
                            /\ reports[Path(p)].run = work[q].run
                            /\ q = p \/ (q \in Commands /\ work[q].args.overwrite)

AllWhole == \A n \in DOMAIN reports :
    reports[n].whole /\ reports[n].run.status \in {"completed", "failed"}
OneNameEach == \A m, n \in DOMAIN reports : reports[m].run.id = reports[n].run.id => m = n
OwnReport(p, n) == Settled(p) /\ Path(p) = n /\ reports[n].run = work[p].run
Said(p) == work[p].pc = "unlinking" \/ Saved(p)

EvaluationInv ==
    /\ workload \in Workloads
    /\ DOMAIN work = Processes /\ DOMAIN temps = Processes
    /\ AllWhole
    /\ OneNameEach
    /\ \A p \in Processes : WorkSound(p)
    /\ \A n \in DOMAIN reports, p \in Processes : reports[n].run.id = p => OwnReport(p, n)
    /\ \A p \in Processes : Said(p) => Kept(p)

\* A run says whose it is and how it ended.
LEMMA RunSays ==
    ASSUME NEW p, NEW args, NEW responses, NEW status
    PROVE  LET run == RunOf(p, args, responses, status) IN run.id = p /\ run.status = status
  BY DEF RunOf, Run

\* No run ends with the code of a report that could not be written.
LEMMA FineCode == ASSUME NEW p \in Processes, NEW run PROVE IsFine(p, CodeOf(p, run))
  BY DEF IsFine, CodeOf, ExitCodeForRun, CaseExecutionError, EvaluationFailed, Success, ReportError

\* With one report more.
LEMMA Extended ==
    ASSUME NEW p
    PROVE  /\ DOMAIN WithReport(p) = DOMAIN reports \union {Path(p)}
           /\ WithReport(p)[Path(p)] = temps[p]
           /\ \A n \in DOMAIN reports : n # Path(p) => WithReport(p)[n] = reports[n]
  BY DEF WithReport

LEMMA EvaluationStarts == ASSUME RunInit PROVE EvaluationInv
  <1>1. workload \in Workloads /\ DOMAIN work = Processes /\ DOMAIN temps = Processes
    BY DEF RunInit
  <1>2. PICK earlier \in workload.earlier :
            reports = [n \in DOMAIN earlier |-> [whole |-> TRUE, run |-> earlier[n]]]
    BY DEF RunInit
  <1>3. \A n \in DOMAIN reports : /\ n \in DOMAIN earlier
                                  /\ reports[n].whole = TRUE /\ reports[n].run = earlier[n]
    BY <1>2
  <1>4. /\ \A n \in DOMAIN earlier : earlier[n].id \notin Processes /\ earlier[n].status \in {"completed", "failed"}
        /\ \A m, n \in DOMAIN earlier : earlier[m].id = earlier[n].id => m = n
    BY <1>1, <1>2, WorkloadAssumption
  <1>5. AllWhole /\ OneNameEach
    BY <1>3, <1>4 DEF AllWhole, OneNameEach
  <1>6. \A p \in Processes : work[p] = Idle
    BY DEF RunInit
  <1>7. \A p \in Processes : WorkSound(p) /\ ~Said(p)
    BY <1>6 DEF WorkSound, Said, Saved, Idle
  <1> QED
    BY <1>1, <1>3, <1>4, <1>5, <1>7 DEF EvaluationInv

-----------------------------------------------------------------------------
\* The step of a process that leaves the directory alone.
LEMMA DirectoryUnmoved ==
    ASSUME EvaluationInv, NEW p \in Processes, UNCHANGED <<workload, reports>>, NEW w,
           work' = [work EXCEPT ![p] = w],
           DOMAIN temps' = Processes, \A q \in Processes \ {p} : temps'[q] = temps[q],
           WorkSound(p)',
           Settled(p) => Settled(p)' /\ w.args = work[p].args /\ w.run = work[p].run,
           Said(p)' => Kept(p) /\ w.args = work[p].args /\ w.run = work[p].run
    PROVE  EvaluationInv'
  <1>1. DOMAIN work' = Processes /\ work'[p] = w /\ \A q \in Processes \ {p} : work'[q] = work[q]
    BY DEF EvaluationInv
  <1>2. AllWhole' /\ OneNameEach' /\ workload' \in Workloads
    BY DEF EvaluationInv, AllWhole, OneNameEach
  <1>3. ASSUME NEW q \in Processes PROVE WorkSound(q)'
    <2>1. CASE q = p
      BY <2>1
    <2>2. CASE q # p
      BY <1>1, <2>2 DEF EvaluationInv, WorkSound, RunSound, IsFine
    <2> QED
      BY <2>1, <2>2
  <1>4. \A q \in Processes : Settled(q) => Settled(q)' /\ work'[q].args = work[q].args
                                                       /\ work'[q].run = work[q].run
    BY <1>1 DEF Settled
  <1>5. \A q \in Processes : work'[q].args = work[q].args => Path(q)' = Path(q)
    BY DEF Path
  <1>6. ASSUME NEW n \in DOMAIN reports', NEW q \in Processes, reports'[n].run.id = q
        PROVE  OwnReport(q, n)'
    <2>1. OwnReport(q, n)
      BY <1>6 DEF EvaluationInv
    <2> QED
      BY <2>1, <1>4, <1>5 DEF OwnReport
  <1>7. ASSUME NEW q \in Processes, Said(q)' PROVE Kept(q)'
    <2>1. Kept(q) /\ work'[q].args = work[q].args /\ work'[q].run = work[q].run
      <3>1. CASE q = p
        BY <1>1, <1>7, <3>1
      <3>2. CASE q # p
        <4>1. Said(q)
          BY <1>1, <1>7, <3>2 DEF Said, Saved
        <4> QED
          BY <1>1, <3>2, <4>1 DEF EvaluationInv
      <3> QED
        BY <3>1, <3>2
    <2>2. PICK r \in Processes : /\ Settled(r) /\ Path(r) = Path(q)
                                 /\ reports[Path(q)].run = work[r].run
                                 /\ r = q \/ (r \in Commands /\ work[r].args.overwrite)
      BY <2>1 DEF Kept
    <2>3. Path(q)' = Path(q) /\ Path(r)' = Path(r) /\ Settled(r)'
          /\ work'[r].args = work[r].args /\ work'[r].run = work[r].run
      BY <1>4, <1>5, <2>1, <2>2
    <2>4. Path(q)' \in DOMAIN reports'
      BY <2>1, <2>3 DEF Kept
    <2> QED
      BY <2>2, <2>3, <2>4 DEF Kept
  <1> QED
    BY <1>1, <1>2, <1>3, <1>6, <1>7 DEF EvaluationInv

LEMMA StartStep ==
    ASSUME EvaluationInv, NEW p \in workload.processes, NEW args \in workload.arguments,
           NEW fault, p \in Requests => ApiArguments(args), Start(p, args, fault)
    PROVE  EvaluationInv' /\ UNCHANGED reports
  <1>1. p \in Processes /\ args.overwrite \in BOOLEAN /\ work[p] = Idle
    BY WorkloadAssumption DEF EvaluationInv, Start
  <1>2. PICK w : /\ work' = [work EXCEPT ![p] = w]
                 /\ DOMAIN w = RunFields /\ w.args = args /\ w.run = None
                 /\ w.pc \in {"running", "ended"}
    <2> DEFINE s == Started(args)
               Ended(code) == [s EXCEPT !.pc = "ended", !.code = code]
    <2>1. DOMAIN s = RunFields /\ s.args = args /\ s.run = None /\ s.pc = "running"
      BY DEF Started, RunFields
    <2>2. \A code : LET w == Ended(code) IN
              DOMAIN w = RunFields /\ w.args = args /\ w.run = None /\ w.pc = "ended"
      BY <2>1 DEF RunFields
    <2>3. PICK code : \/ work' = [work EXCEPT ![p] = s]
                      \/ work' = [work EXCEPT ![p] = Ended(code)]
      BY DEF Start, Set
    <2> HIDE DEF s, Ended
    <2> QED
      BY <2>1, <2>2, <2>3
  <1>3. work'[p] = w
    BY <1>1, <1>2 DEF EvaluationInv
  <1>4. args.overwrite => p \in Commands
    BY <1>1 DEF ApiArguments, Processes
  <1>5. WorkSound(p)'
    BY <1>1, <1>2, <1>3, <1>4 DEF WorkSound, RunSound, ToPublish
  <1>6. ~Settled(p) /\ ~Said(p)'
    BY <1>1, <1>2, <1>3 DEF Settled, Said, Saved, Idle, RunFields
  <1>7. UNCHANGED <<workload, reports>> /\ temps' = temps
    BY DEF Start
  <1> QED
    BY <1>1, <1>2, <1>5, <1>6, <1>7, DirectoryUnmoved DEF EvaluationInv

\* A note on the work of a process: where it stands, and its code.
LEMMA Marked ==
    ASSUME NEW w, NEW pc, NEW code, {"pc", "code"} \subseteq DOMAIN w
    PROVE  /\ LET v == [w EXCEPT !.pc = pc] IN
              DOMAIN v = DOMAIN w /\ v.pc = pc /\ v.code = w.code /\ v.args = w.args /\ v.run = w.run
           /\ LET v == [w EXCEPT !.pc = pc, !.code = code] IN
              DOMAIN v = DOMAIN w /\ v.pc = pc /\ v.code = code /\ v.args = w.args /\ v.run = w.run
  OBVIOUS

LEMMA AtRun ==
    ASSUME EvaluationInv, NEW p \in Processes,
           work[p].pc \in {"running", "unlinking", "discarding", "comparing"} \union ToPublish
    PROVE  RunSound(p)
  BY DEF EvaluationInv, WorkSound, Idle, ToPublish

LEMMA AskStep ==
    ASSUME EvaluationInv, NEW p \in workload.processes, NEW ids, Ask(p, ids)
    PROVE  EvaluationInv' /\ UNCHANGED reports
  <1>1. p \in Processes /\ work[p] = Idle
    BY WorkloadAssumption DEF EvaluationInv, Ask
  <1> DEFINE w == [pc |-> "scanning", ids |-> ids, found |-> <<>>, name |-> None, code |-> None]
  <1>2. work' = [work EXCEPT ![p] = w] /\ UNCHANGED <<workload, reports, temps>>
    BY DEF Ask, Set
  <1>3. DOMAIN w = Fields /\ w.pc = "scanning"
    BY DEF Fields
  <1> HIDE DEF w
  <1>4. work'[p] = w
    BY <1>1, <1>2 DEF EvaluationInv
  <1>5. WorkSound(p)'
    BY <1>3, <1>4 DEF WorkSound
  <1>6. ~Settled(p) /\ ~Said(p)'
    BY <1>1, <1>3, <1>4 DEF Settled, Said, Saved, Idle, RunFields
  <1> QED
    BY <1>1, <1>2, <1>5, <1>6, DirectoryUnmoved DEF EvaluationInv

LEMMA RunDatasetStep ==
    ASSUME EvaluationInv, NEW p \in workload.processes, NEW response, RunDataset(p, response)
    PROVE  EvaluationInv' /\ UNCHANGED reports
  <1> DEFINE old == work[p]
             responses == Append(old.responses, response)
             run(status) == RunOf(p, old.args, responses, status)
  <1>1. p \in Processes /\ old.pc = "running" /\ RunSound(p)
    BY WorkloadAssumption, AtRun DEF EvaluationInv, RunDataset
  <1>2. PICK status \in {"failed", "completed"} :
            \/ work' = [work EXCEPT ![p] = [old EXCEPT !.pc = AfterRun(p, old.args), !.run = run(status),
                                                       !.code = CodeOf(p, run(status))]]
            \/ work' = [work EXCEPT ![p] = [old EXCEPT !.responses = responses]]
    BY DEF RunDataset, Set
  <1>3. UNCHANGED <<workload, reports, temps>>
    BY DEF RunDataset
  <1>4. run(status).id = p /\ run(status).status = status
    BY RunSays
  <1>5. IsFine(p, CodeOf(p, run(status)))
    BY <1>1, FineCode
  <1>6. DOMAIN old = RunFields /\ old.args.overwrite \in BOOLEAN /\ (old.args.overwrite => p \in Commands)
    BY <1>1 DEF RunSound
  <1>7. CASE work' = [work EXCEPT ![p] = [old EXCEPT !.responses = responses]]
    <2> DEFINE w == [old EXCEPT !.responses = responses]
    <2>1. DOMAIN w = RunFields /\ w.pc = "running" /\ w.args = old.args
      BY <1>1, <1>6 DEF RunFields
    <2> HIDE DEF w
    <2>2. work' = [work EXCEPT ![p] = w] /\ work'[p] = w
      BY <1>1, <1>7 DEF EvaluationInv, w
    <2>3. WorkSound(p)' /\ ~Settled(p) /\ ~Said(p)'
      BY <1>1, <1>6, <2>1, <2>2 DEF WorkSound, RunSound, ToPublish, Settled, Said, Saved
    <2> QED
      BY <1>1, <1>3, <2>2, <2>3, DirectoryUnmoved DEF EvaluationInv
  <1>8. CASE work' = [work EXCEPT ![p] = [old EXCEPT !.pc = AfterRun(p, old.args), !.run = run(status),
                                                     !.code = CodeOf(p, run(status))]]
    <2> DEFINE w == [old EXCEPT !.pc = AfterRun(p, old.args), !.run = run(status),
                                !.code = CodeOf(p, run(status))]
    <2>1. /\ DOMAIN w = RunFields /\ w.args = old.args
          /\ w.pc = AfterRun(p, old.args) /\ w.run = run(status) /\ w.code = CodeOf(p, run(status))
      <3> HIDE DEF run
      <3> QED
        BY <1>6 DEF RunFields
    <2> HIDE DEF w
    <2>2. work' = [work EXCEPT ![p] = w] /\ work'[p] = w
      BY <1>1, <1>8 DEF EvaluationInv, w
    <2>3. /\ w.run.id = p /\ w.run.status \in {"completed", "failed"} /\ IsFine(p, w.code)
          /\ \/ w.pc \in {"listing", "saving"} /\ w.args.report # None
             \/ w.pc \in {"comparing", "ended"} /\ w.args.report = None
          /\ w.pc = "listing" => p \notin Commands
      <3>1. w.run.id = p /\ w.run.status \in {"completed", "failed"} /\ IsFine(p, w.code)
        BY <1>4, <1>5, <2>1
      <3>2. CASE old.args.report = None
        BY <2>1, <3>1, <3>2 DEF AfterRun
      <3>3. CASE old.args.report # None
        <4>1. w.pc = IF p \in Requests THEN "listing" ELSE "saving"
          BY <2>1, <3>3 DEF AfterRun
        <4>2. w.pc = "listing" => p \notin Commands
          BY <4>1, WorkloadAssumption
        <4>3. w.args.report # None
          BY <2>1, <3>3
        <4>4. w.pc \in {"listing", "saving"}
          BY <4>1
        <4> QED
          BY <3>1, <4>2, <4>3, <4>4
      <3> QED
        BY <3>2, <3>3
    <2>4. WorkSound(p)' /\ ~Settled(p) /\ ~Said(p)'
      <3> HIDE DEF run
      <3>1. RunSound(p)'
        BY <1>6, <2>1, <2>2, <2>3 DEF RunSound, ToPublish, IsFine
      <3>2. ~Settled(p) /\ ~Said(p)'
        BY <1>1, <2>1, <2>2, <2>3 DEF Settled, Said, Saved
      <3> QED
        BY <3>1, <3>2 DEF WorkSound
    <2> QED
      BY <1>1, <1>3, <2>2, <2>4, DirectoryUnmoved DEF EvaluationInv
  <1> QED
    BY <1>2, <1>3, <1>7, <1>8

\* p goes on with the same run: w is its work then.
Moved(p, w) ==
    /\ work' = [work EXCEPT ![p] = w]
    /\ DOMAIN w = RunFields /\ w.args = work[p].args /\ w.run = work[p].run

LEMMA ToMoves ==
    ASSUME NEW p, NEW pc, RunSound(p), To(p, pc)
    PROVE  \E w : Moved(p, w) /\ w.pc = pc /\ w.code = work[p].code
  <1>1. DOMAIN work[p] = RunFields
    BY DEF RunSound
  <1>2. {"pc", "code"} \subseteq DOMAIN work[p]
    BY <1>1 DEF RunFields
  <1> DEFINE v == [work[p] EXCEPT !.pc = pc]
  <1>3. DOMAIN v = RunFields /\ v.pc = pc /\ v.code = work[p].code /\ v.args = work[p].args /\ v.run = work[p].run
    BY <1>1, <1>2, Marked
  <1>4. work' = [work EXCEPT ![p] = v]
    BY DEF To, Set
  <1> HIDE DEF v
  <1> QED
    BY <1>3, <1>4 DEF Moved

LEMMA EndMoves ==
    ASSUME NEW p, NEW code, RunSound(p), End(p, code)
    PROVE  \E w : Moved(p, w) /\ w.pc = "ended" /\ w.code = code
  <1>1. DOMAIN work[p] = RunFields
    BY DEF RunSound
  <1>2. {"pc", "code"} \subseteq DOMAIN work[p]
    BY <1>1 DEF RunFields
  <1> DEFINE v == [work[p] EXCEPT !.pc = "ended", !.code = code]
  <1>3. DOMAIN v = RunFields /\ v.pc = "ended" /\ v.code = code /\ v.args = work[p].args /\ v.run = work[p].run
    BY <1>1, <1>2, Marked
  <1>4. work' = [work EXCEPT ![p] = v]
    BY DEF End, Set
  <1> HIDE DEF v
  <1> QED
    BY <1>3, <1>4 DEF Moved

LEMMA FailMoves ==
    ASSUME NEW p, RunSound(p), Fail(p, ReportError, 500) \/ Fail(p, ReportError, 409)
    PROVE  \E w : Moved(p, w) /\ w.pc = "ended" /\ ~IsFine(p, w.code)
  <1>1. PICK status \in {500, 409} : End(p, IF p \in Commands THEN ReportError ELSE status)
    BY DEF Fail
  <1>2. PICK w : Moved(p, w) /\ w.pc = "ended" /\ w.code = IF p \in Commands THEN ReportError ELSE status
    BY <1>1, EndMoves
  <1>3. ~IsFine(p, w.code)
    BY <1>2 DEF IsFine
  <1> QED
    BY <1>2, <1>3

LEMMA DiscardMoves ==
    ASSUME NEW p, NEW status \in {409, 500}, RunSound(p), Discard(p, status)
    PROVE  \E w : Moved(p, w) /\ w.pc = "discarding" /\ ~IsFine(p, w.code)
  <1>1. DOMAIN work[p] = RunFields
    BY DEF RunSound
  <1>2. {"pc", "code"} \subseteq DOMAIN work[p]
    BY <1>1 DEF RunFields
  <1> DEFINE code == IF p \in Commands THEN ReportError ELSE status
             v == [work[p] EXCEPT !.pc = "discarding", !.code = code]
  <1>3. DOMAIN v = RunFields /\ v.pc = "discarding" /\ v.code = code /\ v.args = work[p].args /\ v.run = work[p].run
    BY <1>1, <1>2, Marked
  <1>4. work' = [work EXCEPT ![p] = v]
    BY DEF Discard, Set
  <1>5. ~IsFine(p, code)
    BY DEF IsFine
  <1> HIDE DEF v, code
  <1> QED
    BY <1>3, <1>4, <1>5 DEF Moved

\* A process with a run goes on, and the directory stays as it is.
LEMMA Onward ==
    ASSUME EvaluationInv, NEW p \in Processes, RunSound(p), UNCHANGED <<workload, reports>>,
           NEW w, Moved(p, w),
           DOMAIN temps' = Processes, \A q \in Processes \ {p} : temps'[q] = temps[q],
           w.pc \in {"saving", "creating", "writing", "publishing",
                     "discarding", "comparing", "ended", "crashed"},
           w.pc \in ToPublish => work[p].pc \in ToPublish /\ w.code = work[p].code,
           w.pc = "publishing" => temps'[p] = [whole |-> TRUE, run |-> w.run],
           w.pc = "discarding" => ~IsFine(p, w.code),
           w.pc = "comparing" => IsFine(p, w.code),
           w.pc \in {"comparing", "ended"} => \/ Kept(p) \/ ~IsFine(p, w.code)
                                              \/ w.args.report = None \/ w.run = None,
           Settled(p) => w.pc \notin ToPublish
    PROVE  EvaluationInv' /\ UNCHANGED reports
  <1>1. work'[p] = w
    BY DEF EvaluationInv, Moved
  <1>2. RunSound(p)'
    BY <1>1 DEF RunSound, ToPublish, IsFine, Moved
  <1>3. Settled(p) => Settled(p)'
    BY <1>1 DEF Settled, ToPublish, Moved
  <1>4. ASSUME Said(p)' PROVE Kept(p)
    <2>1. w.pc \in {"comparing", "ended"} /\ w.run # None /\ w.args.report # None /\ IsFine(p, w.code)
      BY <1>1, <1>4 DEF Said, Saved, IsFine
    <2> QED
      BY <2>1
  <1>5. WorkSound(p)'
    BY <1>2 DEF WorkSound
  <1> QED
    BY <1>3, <1>4, <1>5, DirectoryUnmoved DEF Moved

\* A process that gives up says so.
LEMMA GivesUp ==
    ASSUME EvaluationInv, NEW p \in Processes, RunSound(p), UNCHANGED <<workload, reports>>,
           NEW w, Moved(p, w), ~IsFine(p, w.code), w.pc \in {"ended", "discarding"},
           DOMAIN temps' = Processes, \A q \in Processes \ {p} : temps'[q] = temps[q]
    PROVE  EvaluationInv' /\ UNCHANGED reports
  BY Onward DEF ToPublish

LEMMA ListReportsStep ==
    ASSUME EvaluationInv, NEW p \in workload.processes, ListReports(p)
    PROVE  EvaluationInv' /\ UNCHANGED reports
  <1>1. p \in Processes /\ work[p].pc = "listing" /\ UNCHANGED <<workload, reports, temps>>
    BY WorkloadAssumption DEF EvaluationInv, ListReports
  <1>2. RunSound(p) /\ p \notin Commands /\ ~Settled(p) /\ DOMAIN temps' = Processes
    BY <1>1, AtRun DEF RunSound, ToPublish, Settled, EvaluationInv
  <1>3. CASE To(p, "saving")
    <2>1. PICK w : Moved(p, w) /\ w.pc = "saving" /\ w.code = work[p].code
      BY <1>2, <1>3, ToMoves
    <2> QED
      BY <1>1, <1>2, <2>1, Onward DEF ToPublish
  <1>4. ASSUME NEW status \in {422, 503, 409}, End(p, status)
        PROVE  EvaluationInv' /\ UNCHANGED reports
    <2>1. PICK w : Moved(p, w) /\ w.pc = "ended" /\ w.code = status
      BY <1>2, <1>4, EndMoves
    <2>2. ~IsFine(p, w.code)
      BY <1>2, <2>1 DEF IsFine
    <2> QED
      BY <1>1, <1>2, <2>1, <2>2, GivesUp
  <1> QED
    BY <1>3, <1>4 DEF ListReports

LEMMA CheckPathStep ==
    ASSUME EvaluationInv, NEW p \in workload.processes, CheckPath(p)
    PROVE  EvaluationInv' /\ UNCHANGED reports
  <1>1. p \in Processes /\ work[p].pc = "saving" /\ UNCHANGED <<workload, reports, temps>>
    BY WorkloadAssumption DEF EvaluationInv, CheckPath
  <1>2. RunSound(p) /\ ~Settled(p) /\ DOMAIN temps' = Processes
    BY <1>1, AtRun DEF ToPublish, Settled, EvaluationInv
  <1>3. CASE To(p, "creating")
    <2>1. PICK w : Moved(p, w) /\ w.pc = "creating" /\ w.code = work[p].code
      BY <1>2, <1>3, ToMoves
    <2> QED
      BY <1>1, <1>2, <2>1, Onward DEF ToPublish
  <1>4. CASE Fail(p, ReportError, 500) \/ Fail(p, ReportError, 409)
    BY <1>1, <1>2, <1>4, FailMoves, GivesUp
  <1> QED
    BY <1>3, <1>4 DEF CheckPath

LEMMA CreateTemporaryStep ==
    ASSUME EvaluationInv, NEW p \in workload.processes, CreateTemporary(p)
    PROVE  EvaluationInv' /\ UNCHANGED reports
  <1>1. p \in Processes /\ work[p].pc = "creating" /\ UNCHANGED <<workload, reports>>
    BY WorkloadAssumption DEF EvaluationInv, CreateTemporary
  <1>2. RunSound(p) /\ ~Settled(p) /\ DOMAIN temps = Processes
    BY <1>1, AtRun DEF ToPublish, Settled, EvaluationInv
  <1>3. CASE To(p, "writing") /\ temps' = [temps EXCEPT ![p] = [whole |-> FALSE, run |-> work[p].run]]
    <2>1. PICK w : Moved(p, w) /\ w.pc = "writing" /\ w.code = work[p].code
      BY <1>2, <1>3, ToMoves
    <2>2. /\ DOMAIN temps' = Processes /\ \A q \in Processes \ {p} : temps'[q] = temps[q]
      BY <1>1, <1>2, <1>3, <2>1 DEF Moved
    <2> QED
      BY <1>1, <1>2, <2>1, <2>2, Onward DEF ToPublish
  <1>4. CASE Fail(p, ReportError, 500) /\ UNCHANGED temps
    BY <1>1, <1>2, <1>4, FailMoves, GivesUp
  <1> QED
    BY <1>3, <1>4 DEF CreateTemporary

LEMMA WriteTemporaryStep ==
    ASSUME EvaluationInv, NEW p \in workload.processes, WriteTemporary(p)
    PROVE  EvaluationInv' /\ UNCHANGED reports
  <1>1. p \in Processes /\ work[p].pc = "writing" /\ UNCHANGED <<workload, reports>>
    BY WorkloadAssumption DEF EvaluationInv, WriteTemporary
  <1>2. RunSound(p) /\ ~Settled(p) /\ DOMAIN temps = Processes
    BY <1>1, AtRun DEF ToPublish, Settled, EvaluationInv
  <1>4. CASE To(p, "publishing") /\ temps' = [temps EXCEPT ![p] = [whole |-> TRUE, run |-> work[p].run]]
    <2>1. PICK w : Moved(p, w) /\ w.pc = "publishing" /\ w.code = work[p].code
      BY <1>2, <1>4, ToMoves
    <2>2. DOMAIN temps' = Processes /\ \A q \in Processes \ {p} : temps'[q] = temps[q]
      BY <1>1, <1>2, <1>4
    <2>3. temps'[p] = [whole |-> TRUE, run |-> w.run]
      BY <1>1, <1>2, <1>4, <2>1 DEF Moved
    <2> QED
      BY <1>1, <1>2, <2>1, <2>2, <2>3, Onward DEF ToPublish
  <1>5. CASE Fail(p, ReportError, 500) /\ temps' = [temps EXCEPT ![p] = None]
    <2>1. DOMAIN temps' = Processes /\ \A q \in Processes \ {p} : temps'[q] = temps[q]
      BY <1>1, <1>2, <1>5
    <2> QED
      BY <1>1, <1>2, <1>5, <2>1, FailMoves, GivesUp
  <1> QED
    BY <1>4, <1>5 DEF WriteTemporary

LEMMA PublishFailsStep ==
    ASSUME EvaluationInv, NEW p \in workload.processes, PublishFails(p)
    PROVE  EvaluationInv' /\ UNCHANGED reports
  <1>1. p \in Processes /\ work[p].pc = "publishing" /\ UNCHANGED <<workload, reports, temps>>
    BY WorkloadAssumption DEF EvaluationInv, PublishFails
  <1>2. RunSound(p) /\ DOMAIN temps' = Processes
    BY <1>1, AtRun DEF ToPublish, EvaluationInv
  <1> QED
    BY <1>1, <1>2, DiscardMoves, GivesUp DEF PublishFails

LEMMA UnlinkStep ==
    ASSUME EvaluationInv, NEW p \in workload.processes, Unlink(p)
    PROVE  EvaluationInv' /\ UNCHANGED reports
  <1>1. p \in Processes /\ work[p].pc \in {"unlinking", "discarding"} /\ UNCHANGED <<workload, reports>>
    BY WorkloadAssumption DEF EvaluationInv, Unlink
  <1>2. RunSound(p) /\ DOMAIN temps' = Processes /\ \A q \in Processes \ {p} : temps'[q] = temps[q]
    BY <1>1, AtRun DEF Unlink, EvaluationInv
  <1>3. CASE work[p].pc = "unlinking"
    <2>1. PICK pc \in {"comparing", "ended"} : To(p, pc)
      BY <1>3 DEF Unlink, Published
    <2>2. PICK w : Moved(p, w) /\ w.pc = pc /\ w.code = work[p].code
      BY <1>2, <2>1, ToMoves
    <2>3. Kept(p)
      BY <1>1, <1>3 DEF EvaluationInv, Said
    <2>4. IsFine(p, w.code)
      BY <1>2, <1>3, <2>2 DEF RunSound
    <2> QED
      BY <1>1, <1>2, <2>1, <2>2, <2>3, <2>4, Onward DEF ToPublish
  <1>4. CASE work[p].pc = "discarding"
    <2>1. To(p, "ended")
      BY <1>4 DEF Unlink
    <2>2. PICK w : Moved(p, w) /\ w.pc = "ended" /\ w.code = work[p].code
      BY <1>2, <2>1, ToMoves
    <2>3. ~IsFine(p, w.code)
      BY <1>2, <1>4, <2>2 DEF RunSound
    <2> QED
      BY <1>1, <1>2, <2>2, <2>3, GivesUp
  <1> QED
    BY <1>1, <1>3, <1>4

LEMMA CompareStep ==
    ASSUME EvaluationInv, NEW p \in workload.processes, CompareWithBaseline(p)
    PROVE  EvaluationInv' /\ UNCHANGED reports
  <1> DEFINE old == work[p]
  <1>1. p \in Processes /\ old.pc = "comparing" /\ UNCHANGED <<workload, reports, temps>>
    BY WorkloadAssumption DEF EvaluationInv, CompareWithBaseline
  <1>2. RunSound(p) /\ DOMAIN temps' = Processes
    BY <1>1, AtRun DEF EvaluationInv
  <1>3. DOMAIN old = RunFields /\ IsFine(p, old.code)
    BY <1>1, <1>2 DEF RunSound
  <1>4. Kept(p) \/ old.args.report = None \/ old.run = None
    <2>1. "run" \in DOMAIN old
      BY <1>3 DEF RunFields
    <2>2. Saved(p) \/ old.args.report = None \/ old.run = None
      BY <1>1, <1>3, <2>1 DEF Saved, IsFine
    <2> QED
      BY <1>1, <2>2 DEF EvaluationInv, Said
  <1>5. \E w : Moved(p, w) /\ w.pc = "ended"
    <2>1. CASE End(p, ComparisonError)
      BY <1>2, <2>1, EndMoves
    <2>2. ASSUME NEW baseline, NEW code,
                 Set(p, [old EXCEPT !.pc = "ended", !.against = baseline, !.code = code])
          PROVE  \E w : Moved(p, w) /\ w.pc = "ended"
      <3> DEFINE v == [old EXCEPT !.pc = "ended", !.against = baseline, !.code = code]
      <3>1. DOMAIN v = RunFields /\ v.pc = "ended" /\ v.args = old.args /\ v.run = old.run
        BY <1>3 DEF RunFields
      <3>2. work' = [work EXCEPT ![p] = v]
        BY <2>2 DEF Set
      <3> HIDE DEF v
      <3> QED
        BY <3>1, <3>2 DEF Moved
    <2> QED
      BY <2>1, <2>2 DEF CompareWithBaseline
  <1>6. PICK w : Moved(p, w) /\ w.pc = "ended"
    BY <1>5
  <1>7. w.args = old.args /\ w.run = old.run
    BY <1>6 DEF Moved
  <1> QED
    BY <1>1, <1>2, <1>4, <1>6, <1>7, Onward DEF ToPublish

\* A request that reads goes on.
LEMMA ReadsOn ==
    ASSUME EvaluationInv, NEW p \in Processes, DOMAIN work[p] = Fields,
           UNCHANGED <<workload, reports, temps>>, NEW w, work' = [work EXCEPT ![p] = w],
           DOMAIN w = Fields, w.pc \in {"scanning", "loading", "ended", "crashed"}
    PROVE  EvaluationInv' /\ UNCHANGED reports
  <1>1. work'[p] = w
    BY DEF EvaluationInv
  <1>2. WorkSound(p)'
    BY <1>1 DEF WorkSound
  <1>3. ~Settled(p) /\ ~Said(p)'
    BY <1>1 DEF Settled, Said, Saved, Fields, RunFields
  <1> QED
    BY <1>2, <1>3, DirectoryUnmoved DEF EvaluationInv

LEMMA AtReading ==
    ASSUME EvaluationInv, NEW p \in Processes, work[p].pc \in {"scanning", "loading"}
    PROVE  DOMAIN work[p] = Fields
  BY DEF EvaluationInv, WorkSound, RunSound, Idle, ToPublish

LEMMA ScanStep ==
    ASSUME EvaluationInv, NEW p \in workload.processes, Scan(p)
    PROVE  EvaluationInv' /\ UNCHANGED reports
  <1>1. p \in Processes /\ work[p].pc = "scanning" /\ UNCHANGED <<workload, reports, temps>>
    BY WorkloadAssumption DEF EvaluationInv, Scan
  <1>2. DOMAIN work[p] = Fields
    BY <1>1, AtReading
  <1>3. PICK w : work' = [work EXCEPT ![p] = w] /\ DOMAIN w = Fields /\ w.pc \in {"loading", "ended"}
    <2>1. ASSUME NEW code, End(p, code)
          PROVE  \E w : work' = [work EXCEPT ![p] = w] /\ DOMAIN w = Fields /\ w.pc \in {"loading", "ended"}
      <3> DEFINE v == [work[p] EXCEPT !.pc = "ended", !.code = code]
      <3>1. DOMAIN v = Fields /\ v.pc = "ended"
        BY <1>2 DEF Fields
      <3>2. work' = [work EXCEPT ![p] = v]
        BY <2>1 DEF End, Set
      <3> HIDE DEF v
      <3> QED
        BY <3>1, <3>2
    <2>2. ASSUME NEW n, Set(p, [work[p] EXCEPT !.pc = "loading", !.name = n])
          PROVE  \E w : work' = [work EXCEPT ![p] = w] /\ DOMAIN w = Fields /\ w.pc \in {"loading", "ended"}
      <3> DEFINE v == [work[p] EXCEPT !.pc = "loading", !.name = n]
      <3>1. DOMAIN v = Fields /\ v.pc = "loading"
        BY <1>2 DEF Fields
      <3>2. work' = [work EXCEPT ![p] = v]
        BY <2>2 DEF Set
      <3> HIDE DEF v
      <3> QED
        BY <3>1, <3>2
    <2> QED
      BY <2>1, <2>2 DEF Scan
  <1> QED
    BY <1>1, <1>2, <1>3, ReadsOn

LEMMA LoadStep ==
    ASSUME EvaluationInv, NEW p \in workload.processes, Load(p)
    PROVE  EvaluationInv' /\ UNCHANGED reports
  <1>1. p \in Processes /\ work[p].pc = "loading" /\ UNCHANGED <<workload, reports, temps>>
    BY WorkloadAssumption DEF EvaluationInv, Load
  <1>2. DOMAIN work[p] = Fields
    BY <1>1, AtReading
  <1>3. PICK w : work' = [work EXCEPT ![p] = w] /\ DOMAIN w = Fields /\ w.pc \in {"scanning", "ended"}
    <2>1. CASE End(p, 422)
      <3> DEFINE v == [work[p] EXCEPT !.pc = "ended", !.code = 422]
      <3>1. DOMAIN v = Fields /\ v.pc = "ended"
        BY <1>2 DEF Fields
      <3>2. work' = [work EXCEPT ![p] = v]
        BY <2>1 DEF End, Set
      <3> HIDE DEF v
      <3> QED
        BY <3>1, <3>2
    <2>2. ASSUME NEW found, NEW pc \in {"scanning", "ended"}, NEW code,
                 Set(p, [work[p] EXCEPT !.found = found, !.pc = pc, !.code = code])
          PROVE  \E w : work' = [work EXCEPT ![p] = w] /\ DOMAIN w = Fields /\ w.pc \in {"scanning", "ended"}
      <3> DEFINE v == [work[p] EXCEPT !.found = found, !.pc = pc, !.code = code]
      <3>1. DOMAIN v = Fields /\ v.pc = pc
        BY <1>2 DEF Fields
      <3>2. work' = [work EXCEPT ![p] = v]
        BY <2>2 DEF Set
      <3> HIDE DEF v
      <3> QED
        BY <3>1, <3>2
    <2> QED
      BY <2>1, <2>2 DEF Load
  <1> QED
    BY <1>1, <1>2, <1>3, ReadsOn

LEMMA CrashStep ==
    ASSUME EvaluationInv, NEW p \in workload.processes, Crash(p)
    PROVE  EvaluationInv' /\ UNCHANGED reports
  <1>1. /\ p \in Processes /\ work[p].pc \notin {"idle", "ended", "crashed"} /\ To(p, "crashed")
        /\ UNCHANGED <<workload, reports, temps>>
    BY WorkloadAssumption DEF EvaluationInv, Crash
  <1>2. DOMAIN work[p] = Fields \/ RunSound(p)
    BY <1>1 DEF EvaluationInv, WorkSound, Idle
  <1>3. CASE DOMAIN work[p] = Fields
    <2> DEFINE v == [work[p] EXCEPT !.pc = "crashed"]
    <2>1. DOMAIN v = Fields /\ v.pc = "crashed"
      BY <1>3 DEF Fields
    <2>2. work' = [work EXCEPT ![p] = v]
      BY <1>1 DEF To, Set
    <2> HIDE DEF v
    <2> QED
      BY <1>1, <1>3, <2>1, <2>2, ReadsOn
  <1>4. CASE RunSound(p)
    <2>1. PICK w : Moved(p, w) /\ w.pc = "crashed"
      BY <1>1, <1>4, ToMoves
    <2>2. DOMAIN temps' = Processes
      BY <1>1 DEF EvaluationInv
    <2> QED
      BY <1>1, <1>4, <2>1, <2>2, Onward DEF ToPublish
  <1> QED
    BY <1>2, <1>3, <1>4

\* A process that publishes adds its report, or takes the place of another.
LEMMA ReportPublished ==
    ASSUME EvaluationInv, NEW p \in Processes, RunSound(p), work[p].pc = "publishing",
           work[p].args.overwrite \/ Path(p) \notin DOMAIN reports,
           reports' = WithReport(p), UNCHANGED workload,
           DOMAIN temps' = Processes, \A q \in Processes \ {p} : temps'[q] = temps[q],
           NEW w, Moved(p, w), w.pc \in {"unlinking", "comparing", "ended"}, w.code = work[p].code
    PROVE  /\ EvaluationInv'
           /\ \A n \in DOMAIN reports : UNCHANGED reports[n] \/ Overwritten(n)
  <1> DEFINE here == Path(p)
  <1>1. /\ DOMAIN work' = Processes /\ work'[p] = w
        /\ \A q \in Processes \ {p} : work'[q] = work[q]
    BY DEF EvaluationInv, Moved
  <1>2. /\ DOMAIN w = RunFields /\ w.args = work[p].args /\ w.run = work[p].run
        /\ w.run.id = p /\ w.run.status \in {"completed", "failed"} /\ IsFine(p, w.code)
        /\ w.args.overwrite \in BOOLEAN /\ (w.args.overwrite => p \in Commands)
    BY DEF Moved, RunSound, ToPublish
  <1>3. temps[p] = [whole |-> TRUE, run |-> w.run]
    BY <1>2 DEF RunSound
  <1>4. /\ DOMAIN reports' = DOMAIN reports \union {here}
        /\ reports'[here].whole = TRUE /\ reports'[here].run = w.run
        /\ \A n \in DOMAIN reports : n # here => reports'[n] = reports[n]
    <2>1. /\ DOMAIN reports' = DOMAIN reports \union {here} /\ reports'[here] = temps[p]
          /\ \A n \in DOMAIN reports : n # here => reports'[n] = reports[n]
      BY Extended
    <2>2. temps[p].whole = TRUE /\ temps[p].run = w.run
      BY <1>3
    <2> QED
      BY <2>1, <2>2
  <1>5. ~Settled(p)
    BY DEF Settled
  <1>6. \A n \in DOMAIN reports : reports[n].run.id # p
    BY <1>5 DEF EvaluationInv, OwnReport
  <1>7. \A n \in DOMAIN reports' : n = here \/ (n \in DOMAIN reports /\ reports'[n] = reports[n])
    BY <1>4
  <1>8. AllWhole'
    BY <1>2, <1>4, <1>7 DEF EvaluationInv, AllWhole
  <1>9. OneNameEach'
    <2> SUFFICES ASSUME NEW m \in DOMAIN reports', NEW n \in DOMAIN reports',
                        reports'[m].run.id = reports'[n].run.id
                 PROVE  m = n
      BY DEF OneNameEach
    <2> QED
      BY <1>2, <1>4, <1>6, <1>7 DEF EvaluationInv, OneNameEach
  <1>10. Settled(p)' /\ RunSound(p)'
    BY <1>1, <1>2 DEF Settled, RunSound, ToPublish, IsFine
  <1>11. ASSUME NEW q \in Processes PROVE WorkSound(q)'
    <2>1. CASE q = p
      BY <1>10, <2>1 DEF WorkSound
    <2>2. CASE q # p
      BY <1>1, <2>2 DEF EvaluationInv, WorkSound, RunSound, IsFine
    <2> QED
      BY <2>1, <2>2
  <1>12. \A q \in Processes : work'[q].args = work[q].args
    BY <1>1, <1>2
  <1>13. \A q \in Processes : Path(q)' = Path(q)
    BY <1>12 DEF Path
  <1>14. \A q \in Processes : Settled(q) => q # p /\ Settled(q)' /\ work'[q].run = work[q].run
    BY <1>1, <1>5 DEF Settled
  <1>15. ASSUME NEW n \in DOMAIN reports', NEW q \in Processes, reports'[n].run.id = q
         PROVE  OwnReport(q, n)'
    <2>1. CASE n = here
      BY <1>1, <1>2, <1>4, <1>10, <1>13, <1>15, <2>1 DEF OwnReport
    <2>2. CASE n # here
      <3>1. n \in DOMAIN reports /\ reports'[n] = reports[n] /\ OwnReport(q, n)
        BY <1>7, <1>15, <2>2 DEF EvaluationInv
      <3> QED
        BY <1>13, <1>14, <3>1 DEF OwnReport
    <2> QED
      BY <2>1, <2>2
  <1>16. ASSUME NEW q \in Processes, Said(q)' PROVE Kept(q)'
    <2>1. CASE q = p
      BY <1>1, <1>4, <1>10, <1>13, <2>1 DEF Kept
    <2>2. CASE q # p
      <3>1. Said(q)
        BY <1>1, <1>16, <2>2 DEF Said, Saved
      <3>2. Kept(q)
        BY <3>1 DEF EvaluationInv
      <3>3. CASE Path(q) = here
        <4>1. w.args.overwrite /\ p \in Commands
          BY <1>2, <3>2, <3>3 DEF Kept
        <4> QED
          BY <1>1, <1>4, <1>10, <1>12, <1>13, <3>3, <4>1 DEF Kept
      <3>4. CASE Path(q) # here
        <4>1. PICK r \in Processes : /\ Settled(r) /\ Path(r) = Path(q)
                                     /\ reports[Path(q)].run = work[r].run
                                     /\ r = q \/ (r \in Commands /\ work[r].args.overwrite)
          BY <3>2 DEF Kept
        <4>2. Path(q) \in DOMAIN reports /\ reports'[Path(q)] = reports[Path(q)]
          BY <1>4, <3>2, <3>4 DEF Kept
        <4>3. Path(q)' \in DOMAIN reports' /\ reports'[Path(q)'] = reports[Path(q)]
          BY <1>4, <1>13, <4>2
        <4> QED
          BY <1>12, <1>13, <1>14, <4>1, <4>3 DEF Kept
      <3> QED
        BY <3>3, <3>4
    <2> QED
      BY <2>1, <2>2
  <1>17. ASSUME NEW n \in DOMAIN reports, n = here PROVE Overwritten(n)
    <2>1. w.args.overwrite /\ p \in Commands /\ "args" \in DOMAIN work[p]
      BY <1>2, <1>17 DEF RunSound, RunFields
    <2>2. Overwriter(p)
      BY <1>2, <2>1 DEF Overwriter
    <2> QED
      BY <1>2, <1>4, <1>17, <2>1, <2>2 DEF Overwritten
  <1>18. \A n \in DOMAIN reports : UNCHANGED reports[n] \/ Overwritten(n)
    BY <1>4, <1>17
  <1>19. workload' \in Workloads
    BY DEF EvaluationInv
  <1> QED
    BY <1>1, <1>8, <1>9, <1>11, <1>15, <1>16, <1>18, <1>19 DEF EvaluationInv

LEMMA PublishStep ==
    ASSUME EvaluationInv, NEW p \in workload.processes, Publish(p)
    PROVE  /\ EvaluationInv'
           /\ \A n \in DOMAIN reports : UNCHANGED reports[n] \/ Overwritten(n)
  <1>1. p \in Processes /\ work[p].pc = "publishing" /\ UNCHANGED workload
    BY WorkloadAssumption DEF EvaluationInv, Publish
  <1>2. RunSound(p) /\ DOMAIN temps = Processes
    BY <1>1, AtRun DEF ToPublish, EvaluationInv
  <1>3. DOMAIN temps' = Processes /\ \A q \in Processes \ {p} : temps'[q] = temps[q]
    BY <1>2 DEF Publish
  <1>4. CASE work[p].args.overwrite
    <2>1. PICK pc \in {"comparing", "ended"} : To(p, pc)
      BY <1>4 DEF Publish, Published
    <2>2. PICK w : Moved(p, w) /\ w.pc = pc /\ w.code = work[p].code
      BY <1>2, <2>1, ToMoves
    <2>3. reports' = WithReport(p)
      BY <1>4 DEF Publish
    <2> QED
      BY <1>1, <1>2, <1>3, <1>4, <2>2, <2>3, ReportPublished
  <1>5. CASE ~work[p].args.overwrite /\ MayLink(p)
    <2>1. To(p, "unlinking") /\ reports' = WithReport(p) /\ Path(p) \notin DOMAIN reports
      BY <1>5 DEF Publish, MayLink
    <2>2. PICK w : Moved(p, w) /\ w.pc = "unlinking" /\ w.code = work[p].code
      BY <1>2, <2>1, ToMoves
    <2> QED
      BY <1>1, <1>2, <1>3, <2>1, <2>2, ReportPublished
  <1>6. CASE ~work[p].args.overwrite /\ ~MayLink(p)
    <2>1. Discard(p, 409) /\ UNCHANGED reports
      BY <1>6 DEF Publish
    <2>2. PICK w : Moved(p, w) /\ w.pc = "discarding" /\ ~IsFine(p, w.code)
      BY <1>2, <2>1, DiscardMoves
    <2>3. EvaluationInv'
      BY <1>1, <1>2, <1>3, <2>1, <2>2, GivesUp
    <2> QED
      BY <2>1, <2>3
  <1> QED
    BY <1>4, <1>5, <1>6

LEMMA EvaluationStep ==
    ASSUME EvaluationInv, [RunNext]_vars
    PROVE  /\ EvaluationInv'
           /\ \A n \in DOMAIN reports : UNCHANGED reports[n] \/ Overwritten(n)
  <1>1. CASE UNCHANGED vars
    BY <1>1 DEF vars, EvaluationInv, AllWhole, OneNameEach, WorkSound, RunSound, IsFine, OwnReport, Settled,
                Path, Said, Saved, Kept
  <1>2. ASSUME NEW p \in workload.processes, Step(p), ~Publish(p)
        PROVE  EvaluationInv' /\ UNCHANGED reports
    BY <1>2, StartStep, RunDatasetStep, ListReportsStep, CheckPathStep, CreateTemporaryStep,
       WriteTemporaryStep, PublishFailsStep, UnlinkStep, CompareStep, AskStep, ScanStep, LoadStep, CrashStep
    DEF Step
  <1>3. ASSUME NEW p \in workload.processes, Step(p)
        PROVE  EvaluationInv' /\ \A n \in DOMAIN reports : UNCHANGED reports[n] \/ Overwritten(n)
    BY <1>2, <1>3, PublishStep
  <1> QED
    BY <1>1, <1>3 DEF RunNext

\* What the command and the API say of a saved report is so.
LEMMA ReportsKept == ASSUME EvaluationInv, NEW p \in Processes, Saved(p) PROVE KeptReport(p)
  <1>1. Kept(p)
    BY DEF EvaluationInv, Said
  <1>2. PICK q \in Processes : /\ Settled(q) /\ Path(q) = Path(p)
                               /\ reports[Path(p)].run = work[q].run
                               /\ q = p \/ (q \in Commands /\ work[q].args.overwrite)
    BY <1>1 DEF Kept
  <1>3. q \in Commands /\ work[q].args.overwrite => Overwriter(q)
    BY <1>2 DEF Overwriter, Settled, RunFields
  <1> QED
    BY <1>1, <1>2, <1>3 DEF Kept, KeptReport

\* In every behaviour of the commands and requests over one directory, for any
\* processes, data sets, answers and earlier reports: EvaluationInv.
THEOREM EvaluationInvariant == RunSpec => []EvaluationInv
  <1>1. RunInit => EvaluationInv
    BY EvaluationStarts
  <1>2. EvaluationInv /\ [RunNext]_vars => EvaluationInv'
    BY EvaluationStep
  <1> QED
    BY <1>1, <1>2, PTL DEF RunSpec

\* A report is never shown in part, no two names show one run, a report said
\* to be saved is there, and only a command told to overwrite takes its place.
THEOREM ReportsAreWhole == RunSpec => ReportsWhole
  <1>1. EvaluationInv => \A n \in DOMAIN reports :
                            reports[n].whole /\ reports[n].run.status \in {"completed", "failed"}
    BY DEF EvaluationInv, AllWhole
  <1>2. EvaluationInv => \A m, n \in DOMAIN reports : reports[m].run.id = reports[n].run.id => m = n
    BY DEF EvaluationInv, OneNameEach
  <1>3. EvaluationInv => \A p \in Processes : Saved(p) => KeptReport(p)
    BY ReportsKept
  <1>4. EvaluationInv /\ [RunNext]_vars =>
            [\A n \in DOMAIN reports : UNCHANGED reports[n] \/ Overwritten(n)]_vars
    BY EvaluationStep
  <1> QED
    BY <1>1, <1>2, <1>3, <1>4, EvaluationInvariant, PTL DEF RunSpec, ReportsWhole

-----------------------------------------------------------------------------
(* The exit codes of runs and comparisons *)

\* The answers so far, as many as the cases asked.
Asking(p) == LET w == work[p] IN
    /\ w.run = None /\ w.against = {}
    /\ w.responses \in Seq(workload.responses)
    /\ Len(w.responses) < Len(w.args.dataset.cases)

\* The code of a command after its run: that of the run, or of the comparison
\* with the one baseline, or of the step that failed.
Coded(p) == LET w == work[p] IN
    \/ w.code = ReportError /\ w.pc \in {"discarding", "ended"}
    \/ w.code = ComparisonError /\ w.pc = "ended"
    \/ w.code = CodeOf(p, w.run) /\ w.against = {}
    \/ /\ w.pc = "ended"
       /\ \E baseline \in w.against :
             /\ w.against = {baseline} /\ IsScored(baseline)
             /\ w.code = IF Regressed(baseline, w.run, PolicyOf(w.args)) THEN RegressionDetected
                         ELSE CodeOf(p, w.run)

\* The run is that of the answers it keeps.
Finished(p) == LET w == work[p] IN
    /\ Ran(w.args, w.run.responses)
    /\ w.run = RunOf(p, w.args, w.run.responses, w.run.status)
    /\ p \in Commands => Coded(p)

AfterRunning == ToPublish \union {"unlinking", "discarding", "comparing"}

GateKnown(p) ==
    /\ work[p].args \in workload.arguments
    /\ work[p].pc = "running" => Asking(p)
    /\ work[p].pc \in AfterRunning => Finished(p)
    /\ work[p].pc = "ended" /\ work[p].run # None => Finished(p)

GateInv ==
    /\ \A n \in DOMAIN reports : IsScored(reports[n].run)
    /\ \A p \in Processes : DOMAIN work[p] = RunFields => GateKnown(p)
    /\ \A p \in Commands : work[p] = Idle \/ DOMAIN work[p] = RunFields

\* A step of one process that keeps what the reports are.
LEMMA GateKept ==
    ASSUME EvaluationInv, GateInv, NEW p \in Processes, NEW w,
           work' = [work EXCEPT ![p] = w], UNCHANGED workload,
           \A n \in DOMAIN reports' : IsScored(reports'[n].run),
           DOMAIN w = RunFields => GateKnown(p)', p \in Commands => DOMAIN w = RunFields
    PROVE  GateInv'
  <1>1. work'[p] = w /\ \A q \in Processes \ {p} : work'[q] = work[q]
    BY DEF EvaluationInv
  <1>2. ASSUME NEW q \in Processes \ {p}, DOMAIN work'[q] = RunFields PROVE GateKnown(q)'
    <2>1. work'[q] = work[q] /\ GateKnown(q)
      BY <1>1, <1>2 DEF GateInv
    <2> QED
      BY <2>1 DEF GateKnown, Asking, Finished, Coded
  <1>3. ASSUME NEW q \in Commands PROVE work'[q] = Idle \/ DOMAIN work'[q] = RunFields
    BY <1>1 DEF GateInv, Processes
  <1> QED
    BY <1>1, <1>2, <1>3 DEF GateInv

\* The reports of before are scored.
LEMMA GateStarts == ASSUME RunInit PROVE GateInv
  <1>1. PICK earlier \in workload.earlier :
            reports = [n \in DOMAIN earlier |-> [whole |-> TRUE, run |-> earlier[n]]]
    BY DEF RunInit
  <1>2. \A n \in DOMAIN earlier : IsScored(earlier[n])
    BY <1>1, WorkloadAssumption DEF RunInit
  <1>3. \A n \in DOMAIN reports : IsScored(reports[n].run)
    BY <1>1, <1>2
  <1>4. \A p \in Processes : work[p] = Idle /\ DOMAIN work[p] # RunFields
    BY DEF RunInit, Idle, RunFields
  <1> QED
    BY <1>3, <1>4 DEF GateInv, Processes

\* A finished run goes on, with its code, or gives up with that of the step.
LEMMA FinishedGoesOn ==
    ASSUME EvaluationInv, GateInv, NEW p \in Processes, RunSound(p), work[p].pc \in AfterRunning,
           UNCHANGED workload, \A n \in DOMAIN reports' : IsScored(reports'[n].run),
           NEW pc \in AfterRunning \union {"ended"}, NEW code,
           \/ code = work[p].code /\ To(p, pc)
           \/ Set(p, [work[p] EXCEPT !.pc = pc, !.code = code]),
           p \in Commands => \/ code = work[p].code /\ (work[p].pc = "discarding" => pc = "ended")
                             \/ code = ReportError /\ pc \in {"discarding", "ended"}
                             \/ code = ComparisonError /\ pc = "ended"
    PROVE  GateInv'
  <1> DEFINE old == work[p]
  <1>1. DOMAIN old = RunFields /\ {"pc", "code", "against"} \subseteq DOMAIN old
    BY DEF RunSound, RunFields
  <1>2. PICK w : /\ work' = [work EXCEPT ![p] = w] /\ DOMAIN w = RunFields
                 /\ w.pc = pc /\ w.code = code /\ w.args = old.args /\ w.run = old.run /\ w.against = old.against
    <2>1. CASE code = old.code /\ To(p, pc)
      <3> DEFINE v == [old EXCEPT !.pc = pc]
      <3>1. /\ DOMAIN v = RunFields /\ v.pc = pc /\ v.code = old.code
            /\ v.args = old.args /\ v.run = old.run /\ v.against = old.against
        BY <1>1
      <3>2. work' = [work EXCEPT ![p] = v]
        BY <2>1 DEF To, Set
      <3> HIDE DEF v
      <3> QED
        BY <2>1, <3>1, <3>2
    <2>2. CASE Set(p, [old EXCEPT !.pc = pc, !.code = code])
      <3> DEFINE v == [old EXCEPT !.pc = pc, !.code = code]
      <3>1. /\ DOMAIN v = RunFields /\ v.pc = pc /\ v.code = code
            /\ v.args = old.args /\ v.run = old.run /\ v.against = old.against
        BY <1>1
      <3>2. work' = [work EXCEPT ![p] = v]
        BY <2>2 DEF Set
      <3> HIDE DEF v
      <3> QED
        BY <3>1, <3>2
    <2> QED
      BY <2>1, <2>2
  <1>3. work'[p] = w
    BY <1>2 DEF EvaluationInv
  <1>4. Finished(p) /\ old.args \in workload.arguments
    BY <1>1 DEF GateInv, GateKnown
  <1>5. old.pc # "ended"
    BY DEF AfterRunning, ToPublish
  <1>6. ASSUME p \in Commands PROVE Coded(p)'
    <2>1. Coded(p)
      BY <1>4, <1>6 DEF Finished
    <2>2. CASE code = old.code /\ (old.pc = "discarding" => pc = "ended")
      <3>1. \/ old.code = ReportError /\ old.pc = "discarding"
            \/ old.code = CodeOf(p, old.run) /\ old.against = {}
        BY <1>5, <2>1 DEF Coded
      <3> QED
        BY <1>2, <1>3, <2>2, <3>1 DEF Coded, CodeOf
    <2>3. CASE code = ReportError /\ pc \in {"discarding", "ended"}
      BY <1>2, <1>3, <2>3 DEF Coded
    <2>4. CASE code = ComparisonError /\ pc = "ended"
      BY <1>2, <1>3, <2>4 DEF Coded
    <2> QED
      BY <1>6, <2>2, <2>3, <2>4
  <1>7. Finished(p)'
    BY <1>2, <1>3, <1>4, <1>6 DEF Finished
  <1>8. GateKnown(p)'
    BY <1>2, <1>3, <1>4, <1>7 DEF GateKnown, AfterRunning, ToPublish
  <1> QED
    BY <1>2, <1>8, GateKept

\* The steps that save a report, from the listing to the temporary file.
LEMMA SavingKeepsGate ==
    ASSUME EvaluationInv, GateInv, NEW p \in workload.processes,
           \/ ListReports(p) \/ CheckPath(p) \/ CreateTemporary(p) \/ WriteTemporary(p)
           \/ PublishFails(p) \/ Unlink(p)
    PROVE  GateInv'
  <1>1. /\ p \in Processes /\ UNCHANGED <<workload, reports>>
        /\ work[p].pc \in {"listing", "saving", "creating", "writing", "publishing", "unlinking", "discarding"}
    BY WorkloadAssumption
    DEF EvaluationInv, ListReports, CheckPath, CreateTemporary, WriteTemporary, PublishFails, Unlink
  <1>2. RunSound(p) /\ work[p].pc \in AfterRunning
    BY <1>1, AtRun DEF ToPublish, AfterRunning
  <1>3. \A n \in DOMAIN reports' : IsScored(reports'[n].run)
    BY <1>1 DEF GateInv
  <1>4. ASSUME NEW pc \in AfterRunning \union {"ended"}, To(p, pc),
               work[p].pc = "discarding" => pc = "ended"
        PROVE  GateInv'
    BY <1>1, <1>2, <1>3, <1>4, FinishedGoesOn
  <1>5. ASSUME NEW pc \in {"discarding", "ended"}, NEW code, p \in Commands => code = ReportError,
               Set(p, [work[p] EXCEPT !.pc = pc, !.code = code])
        PROVE  GateInv'
    <2>1. pc \in AfterRunning \union {"ended"}
      BY DEF AfterRunning
    <2> QED
      BY <1>1, <1>2, <1>3, <1>5, <2>1, FinishedGoesOn
  <1>6. ASSUME NEW status, Fail(p, ReportError, status) PROVE GateInv'
    BY <1>5, <1>6 DEF Fail, End
  <1>7. ASSUME NEW status, Discard(p, status) PROVE GateInv'
    BY <1>5, <1>7 DEF Discard
  <1>8. CASE ListReports(p)
    <2>1. p \notin Commands
      BY <1>2, <1>8 DEF ListReports, RunSound
    <2>2. ASSUME NEW status, End(p, status) PROVE GateInv'
      BY <1>5, <2>1, <2>2 DEF End
    <2>3. To(p, "saving") \/ \E status : End(p, status)
      BY <1>8 DEF ListReports
    <2>4. work[p].pc # "discarding" /\ "saving" \in AfterRunning
      BY <1>8 DEF ListReports, AfterRunning, ToPublish
    <2> QED
      BY <1>4, <2>2, <2>3, <2>4
  <1>9. CASE CheckPath(p)
    <2>1. To(p, "creating") \/ \E status : Fail(p, ReportError, status)
      BY <1>9 DEF CheckPath
    <2>2. work[p].pc # "discarding" /\ "creating" \in AfterRunning
      BY <1>9 DEF CheckPath, AfterRunning, ToPublish
    <2> QED
      BY <1>4, <1>6, <2>1, <2>2
  <1>10. CASE CreateTemporary(p)
    <2>1. To(p, "writing") \/ \E status : Fail(p, ReportError, status)
      BY <1>10 DEF CreateTemporary
    <2>2. work[p].pc # "discarding" /\ "writing" \in AfterRunning
      BY <1>10 DEF CreateTemporary, AfterRunning, ToPublish
    <2> QED
      BY <1>4, <1>6, <2>1, <2>2
  <1>11. CASE WriteTemporary(p)
    <2>1. To(p, "publishing") \/ \E status : Fail(p, ReportError, status)
      BY <1>11 DEF WriteTemporary
    <2>2. work[p].pc # "discarding" /\ "publishing" \in AfterRunning
      BY <1>11 DEF WriteTemporary, AfterRunning, ToPublish
    <2> QED
      BY <1>4, <1>6, <2>1, <2>2
  <1>12. CASE PublishFails(p)
    BY <1>7, <1>12 DEF PublishFails
  <1>13. CASE Unlink(p)
    <2>1. PICK pc \in {"comparing", "ended"} : To(p, pc) /\ (work[p].pc = "discarding" => pc = "ended")
      BY <1>13 DEF Unlink, Published
    <2>2. pc \in AfterRunning \union {"ended"}
      BY DEF AfterRunning
    <2> QED
      BY <1>4, <2>1, <2>2
  <1> QED
    BY <1>8, <1>9, <1>10, <1>11, <1>12, <1>13

\* A published report is that of a finished run.
LEMMA PublishingKeepsGate ==
    ASSUME EvaluationInv, GateInv, NEW p \in workload.processes, Publish(p)
    PROVE  GateInv'
  <1>1. p \in Processes /\ work[p].pc = "publishing" /\ UNCHANGED workload
    BY WorkloadAssumption DEF EvaluationInv, Publish
  <1>2. RunSound(p) /\ work[p].pc \in AfterRunning /\ DOMAIN work[p] = RunFields
    BY <1>1, AtRun DEF ToPublish, AfterRunning, RunSound
  <1>3. temps[p].run = work[p].run
    BY <1>1, <1>2 DEF RunSound
  <1>4. IsScored(work[p].run)
    <2>1. PICK run, args, responses, status :
             /\ run = work[p].run /\ Ran(args, responses) /\ run = RunOf(p, args, responses, status)
      BY <1>1, <1>2 DEF GateInv, GateKnown, Finished
    <2> QED
      BY <2>1, RunScored
  <1>5. \A n \in DOMAIN reports' : IsScored(reports'[n].run)
    <2>1. CASE reports' = reports
      BY <2>1 DEF GateInv
    <2>2. CASE reports' = WithReport(p)
      BY <1>3, <1>4, <2>2, Extended DEF GateInv
    <2> QED
      BY <2>1, <2>2 DEF Publish
  <1>6. ASSUME NEW pc \in {"unlinking", "comparing", "ended"}, To(p, pc) PROVE GateInv'
    <2>1. pc \in AfterRunning \union {"ended"}
      BY DEF AfterRunning
    <2> QED
      BY <1>1, <1>2, <1>5, <1>6, <2>1, FinishedGoesOn
  <1>7. CASE Discard(p, 409)
    <2>1. "discarding" \in AfterRunning \union {"ended"}
      BY DEF AfterRunning
    <2>2. PICK code : /\ code = IF p \in Commands THEN ReportError ELSE 409
                      /\ Set(p, [work[p] EXCEPT !.pc = "discarding", !.code = code])
      BY <1>7 DEF Discard
    <2> QED
      BY <1>1, <1>2, <1>5, <2>1, <2>2, FinishedGoesOn
  <1> QED
    BY <1>6, <1>7 DEF Publish, Published

\* The code of a comparison is that of the one baseline it opened.
LEMMA ComparingKeepsGate ==
    ASSUME EvaluationInv, GateInv, NEW p \in workload.processes, CompareWithBaseline(p)
    PROVE  GateInv'
  <1> DEFINE old == work[p]
             baseline == reports[old.args.baseline].run
             code == ComparedCode(p, baseline, old.run, PolicyOf(old.args))
  <1>1. p \in Processes /\ old.pc = "comparing" /\ UNCHANGED <<workload, reports>>
    BY WorkloadAssumption DEF EvaluationInv, CompareWithBaseline
  <1>2. RunSound(p) /\ old.pc \in AfterRunning /\ DOMAIN old = RunFields
    BY <1>1, AtRun DEF AfterRunning, RunSound
  <1>3. \A n \in DOMAIN reports' : IsScored(reports'[n].run)
    BY <1>1 DEF GateInv
  <1>4. CASE End(p, ComparisonError)
    BY <1>1, <1>2, <1>3, <1>4, FinishedGoesOn DEF End
  <1>5. CASE /\ IsReport(old.args.baseline)
             /\ Set(p, [old EXCEPT !.pc = "ended", !.against = {baseline}, !.code = code])
    <2> DEFINE w == [old EXCEPT !.pc = "ended", !.against = {baseline}, !.code = code]
    <2>1. /\ DOMAIN w = RunFields /\ w.pc = "ended" /\ w.args = old.args /\ w.run = old.run
          /\ w.against = {baseline} /\ w.code = code
      BY <1>2 DEF RunFields
    <2>2. work' = [work EXCEPT ![p] = w]
      BY <1>5 DEF Set
    <2> HIDE DEF w
    <2>3. work'[p] = w
      BY <1>1, <2>2 DEF EvaluationInv
    <2>4. Finished(p) /\ old.args \in workload.arguments
      BY <1>1, <1>2 DEF GateInv, GateKnown
    <2>5. IsScored(baseline)
      BY <1>5 DEF IsReport, GateInv
    <2>6. ASSUME p \in Commands
          PROVE  \/ code = ComparisonError
                 \/ code = IF Regressed(baseline, old.run, PolicyOf(old.args)) THEN RegressionDetected
                           ELSE CodeOf(p, old.run)
      BY <2>6 DEF ComparedCode
    <2> HIDE DEF code, baseline
    <2>7. ASSUME p \in Commands PROVE Coded(p)'
      BY <2>1, <2>3, <2>5, <2>6, <2>7 DEF Coded, CodeOf
    <2>8. Finished(p)'
      BY <2>1, <2>3, <2>4, <2>7 DEF Finished
    <2>9. GateKnown(p)'
      BY <1>1, <2>1, <2>3, <2>4, <2>8 DEF GateKnown, AfterRunning, ToPublish
    <2> QED
      BY <1>1, <1>3, <2>1, <2>2, <2>9, GateKept
  <1> QED
    BY <1>4, <1>5 DEF CompareWithBaseline

\* Nothing is answered yet.
LEMMA StartingKeepsGate ==
    ASSUME EvaluationInv, GateInv, NEW p \in workload.processes, NEW args \in workload.arguments,
           NEW fault, Start(p, args, fault)
    PROVE  GateInv'
  <1>1. p \in Processes /\ UNCHANGED <<workload, reports>> /\ IsDataset(args.dataset)
    BY WorkloadAssumption DEF EvaluationInv, Start
  <1> DEFINE s == Started(args)
             Ended(code) == [s EXCEPT !.pc = "ended", !.code = code]
  <1>2. /\ DOMAIN s = RunFields /\ \A code : DOMAIN Ended(code) = RunFields
        /\ s.pc = "running" /\ s.args = args /\ s.run = None /\ s.against = {} /\ s.responses = <<>>
        /\ \A code : Ended(code).pc = "ended" /\ Ended(code).args = args /\ Ended(code).run = None
    BY DEF Started, RunFields
  <1>3. PICK code : work' = [work EXCEPT ![p] = s] \/ work' = [work EXCEPT ![p] = Ended(code)]
    BY DEF Start, Set
  <1> HIDE DEF s, Ended
  <1>4. PICK w : /\ work' = [work EXCEPT ![p] = w]
                 /\ DOMAIN w = RunFields /\ w.args = args /\ w.run = None
                 /\ \/ w.pc = "running" /\ w.against = {} /\ w.responses = <<>>
                    \/ w.pc = "ended"
    BY <1>2, <1>3
  <1>5. work'[p] = w
    BY <1>1, <1>4 DEF EvaluationInv
  <1>6. Len(<<>>) < Len(args.dataset.cases) /\ <<>> \in Seq(workload.responses)
    BY <1>1 DEF IsDataset
  <1>7. GateKnown(p)'
    BY <1>1, <1>4, <1>5, <1>6 DEF GateKnown, Asking, AfterRunning, ToPublish
  <1>8. \A n \in DOMAIN reports' : IsScored(reports'[n].run)
    BY <1>1 DEF GateInv
  <1> QED
    BY <1>1, <1>4, <1>7, <1>8, GateKept

\* One answer more, or the run of all of them.
LEMMA RunningKeepsGate ==
    ASSUME EvaluationInv, GateInv, NEW p \in workload.processes, NEW response \in workload.responses,
           RunDataset(p, response)
    PROVE  GateInv'
  <1> DEFINE old == work[p]
             cases == old.args.dataset.cases
             responses == Append(old.responses, response)
             stopped == Stops(old.args, response)
             status == IF stopped THEN "failed" ELSE "completed"
             run == RunOf(p, old.args, responses, status)
  <1>1. p \in Processes /\ old.pc = "running" /\ UNCHANGED <<workload, reports>> /\ workload \in Workloads
    BY WorkloadAssumption DEF EvaluationInv, RunDataset
  <1>2. RunSound(p) /\ DOMAIN old = RunFields
    BY <1>1, AtRun DEF RunSound
  <1>3. GateKnown(p) /\ Asking(p) /\ old.args \in workload.arguments
    BY <1>1, <1>2 DEF GateInv, GateKnown
  <1>4. /\ IsDataset(old.args.dataset) /\ old.args.options \in RunOptions
        /\ \A r \in workload.responses : IsResponse(r)
    BY <1>1, <1>3, WorkloadAssumption
  <1>5. old.responses \in Seq(workload.responses) /\ Len(old.responses) < Len(cases) /\ Len(cases) \in Nat
    BY <1>3, <1>4 DEF Asking, IsDataset
  <1>6. /\ responses \in Seq(workload.responses) /\ Len(responses) = Len(old.responses) + 1
        /\ Len(responses) \in 1 .. Len(cases) /\ DOMAIN responses = 1 .. Len(responses)
        /\ responses[Len(responses)] = response
    <2>1. old.responses \in Seq(workload.responses) /\ Len(old.responses) \in Nat
      BY <1>5
    <2>2. PICK before : before = old.responses
      OBVIOUS
    <2>3. /\ responses \in Seq(workload.responses) /\ Len(responses) = Len(before) + 1
          /\ responses[Len(before) + 1] = response /\ DOMAIN responses = 1 .. Len(responses)
      <3>1. PICK S, after : S = workload.responses /\ after = Append(before, response)
        OBVIOUS
      <3>2. before \in Seq(S) /\ response \in S
        BY <2>1, <2>2, <3>1
      <3>3. /\ after \in Seq(S) /\ Len(after) = Len(before) + 1
            /\ after[Len(before) + 1] = response /\ DOMAIN after = 1 .. Len(after)
        BY <3>2, <3>1, AppendProperties
      <3> QED
        BY <2>2, <3>1, <3>3
    <2> HIDE DEF responses
    <2> QED
      BY <1>5, <2>1, <2>2, <2>3
  <1>7. \A i \in DOMAIN responses : IsResponse(responses[i])
    <2> HIDE DEF responses
    <2>1. \A i \in DOMAIN responses : responses[i] \in workload.responses
      BY <1>6
    <2> QED
      BY <1>4, <2>1
  <1>8. \A n \in DOMAIN reports' : IsScored(reports'[n].run)
    BY <1>1 DEF GateInv
  <1>9. CASE ~(stopped \/ Len(responses) = Len(cases))
    <2> DEFINE w == [old EXCEPT !.responses = responses]
    <2>1. /\ DOMAIN w = RunFields /\ w.responses = responses /\ w.pc = "running" /\ w.args = old.args
          /\ w.run = old.run /\ w.against = old.against
      BY <1>1, <1>2 DEF RunFields
    <2>2. work' = [work EXCEPT ![p] = w]
      BY <1>9 DEF RunDataset, Set
    <2>3. Len(responses) < Len(cases)
      BY <1>6, <1>9
    <2> HIDE DEF w, responses
    <2>4. work'[p] = w
      BY <1>1, <2>2 DEF EvaluationInv
    <2>5. Asking(p)'
      BY <1>1, <1>3, <1>6, <2>1, <2>3, <2>4 DEF Asking
    <2>6. GateKnown(p)'
      BY <1>1, <1>3, <2>1, <2>4, <2>5 DEF GateKnown, AfterRunning, ToPublish
    <2> QED
      BY <1>1, <1>8, <2>1, <2>2, <2>6, GateKept
  <1>10. CASE stopped \/ Len(responses) = Len(cases)
    <2> DEFINE w == [old EXCEPT !.pc = AfterRun(p, old.args), !.run = run, !.code = CodeOf(p, run)]
    <2>1. /\ DOMAIN w = RunFields /\ w.pc = AfterRun(p, old.args) /\ w.run = run /\ w.code = CodeOf(p, run)
          /\ w.args = old.args /\ w.against = old.against
      <3> HIDE DEF run
      <3> QED
        BY <1>2 DEF RunFields
    <2>2. work' = [work EXCEPT ![p] = w]
      BY <1>10 DEF RunDataset, Set
    <2>3. stopped => Raised(responses[Len(responses)])
      BY <1>6 DEF Stops, Raised
    <2>4. Ran(old.args, responses)
      <3>1. Len(responses) = Len(cases) \/ \E i \in DOMAIN responses : Raised(responses[i])
        <4>1. Len(responses) \in DOMAIN responses
          BY <1>6
        <4> QED
          BY <1>10, <2>3, <4>1
      <3> HIDE DEF responses
      <3> QED
        BY <1>4, <1>6, <1>7, <3>1 DEF Ran
    <2>5. run.responses = responses /\ run.status = status
      <3>1. PICK a, r, t : a = old.args /\ r = responses /\ t = status
        OBVIOUS
      <3>2. PICK q, v : q = p /\ v = RunOf(q, a, r, t)
        OBVIOUS
      <3>3. v.responses = r
        BY <3>2 DEF RunOf
      <3>4. v.status = t
        BY <3>2, RunSays
      <3>5. run = v
        BY <3>1, <3>2
      <3> QED
        BY <3>1, <3>3, <3>4, <3>5
    <2>6. run = RunOf(p, old.args, responses, status)
      OBVIOUS
    <2>7. w.pc # "running"
      BY <2>1 DEF AfterRun
    <2> HIDE DEF w, run, responses, status
    <2>8. work'[p] = w
      BY <1>1, <2>2 DEF EvaluationInv
    <2>9. Coded(p)'
      BY <1>3, <2>1, <2>8 DEF Coded, Asking, CodeOf
    <2>10. w.run = RunOf(p, w.args, w.run.responses, w.run.status) /\ Ran(w.args, w.run.responses)
      BY <2>1, <2>4, <2>5, <2>6
    <2>11. Finished(p)'
      BY <2>8, <2>9, <2>10 DEF Finished
    <2>12. GateKnown(p)'
      BY <1>1, <1>3, <2>1, <2>7, <2>8, <2>11 DEF GateKnown
    <2> QED
      BY <1>1, <1>8, <2>1, <2>2, <2>12, GateKept
  <1> QED
    BY <1>9, <1>10

\* A process that is killed, and one that only reads, say nothing of a run.
LEMMA RestKeepsGate ==
    ASSUME EvaluationInv, GateInv, NEW p \in workload.processes,
           Crash(p) \/ Scan(p) \/ Load(p) \/ (p \in Requests /\ \E ids : Ask(p, ids))
    PROVE  GateInv'
  <1> DEFINE old == work[p]
  <1>1. p \in Processes /\ UNCHANGED <<workload, reports>>
    BY WorkloadAssumption DEF EvaluationInv, Crash, Scan, Load, Ask
  <1>2. \A n \in DOMAIN reports' : IsScored(reports'[n].run)
    BY <1>1 DEF GateInv
  <1>3. ASSUME NEW w, work' = [work EXCEPT ![p] = w], DOMAIN w # RunFields, p \notin Commands
        PROVE  GateInv'
    BY <1>1, <1>2, <1>3, GateKept
  <1>4. Fields # RunFields
    BY DEF Fields, RunFields
  <1>5. work[p].pc # "idle" /\ DOMAIN old # RunFields => p \notin Commands
    BY DEF GateInv, Idle
  <1>6. CASE Crash(p)
    <2> DEFINE w == [old EXCEPT !.pc = "crashed"]
    <2>1. work' = [work EXCEPT ![p] = w] /\ DOMAIN w = DOMAIN old
      BY <1>6 DEF Crash, To, Set
    <2>2. DOMAIN old = RunFields => w.pc = "crashed" /\ w.args = old.args
      BY DEF RunFields
    <2> HIDE DEF w
    <2>3. CASE DOMAIN old = RunFields
      <3>1. work'[p] = w
        BY <1>1, <2>1 DEF EvaluationInv
      <3>2. GateKnown(p)'
        BY <1>1, <2>2, <2>3, <3>1 DEF GateInv, GateKnown, AfterRunning, ToPublish
      <3> QED
        BY <1>1, <1>2, <2>1, <2>3, <3>2, GateKept
    <2>4. CASE DOMAIN old # RunFields
      BY <1>3, <1>5, <1>6, <2>1, <2>4 DEF Crash
    <2> QED
      BY <2>3, <2>4
  <1>7. CASE p \in Requests /\ \E ids : Ask(p, ids)
    <2>1. PICK ids : work' = [work EXCEPT ![p] =
                        [pc |-> "scanning", ids |-> ids, found |-> <<>>, name |-> None, code |-> None]]
      BY <1>7 DEF Ask, Set
    <2>2. DOMAIN [pc |-> "scanning", ids |-> ids, found |-> <<>>, name |-> None, code |-> None] # RunFields
      BY DEF RunFields
    <2> QED
      BY <1>3, <1>7, <2>1, <2>2, WorkloadAssumption
  <1>8. CASE Scan(p)
    <2>1. DOMAIN old = Fields /\ p \notin Commands
      BY <1>1, <1>4, <1>5, <1>8, AtReading DEF Scan
    <2>2. ASSUME NEW code, End(p, code) PROVE GateInv'
      <3> DEFINE w == [old EXCEPT !.pc = "ended", !.code = code]
      <3>1. work' = [work EXCEPT ![p] = w] /\ DOMAIN w = Fields
        BY <2>1, <2>2 DEF End, Set
      <3> HIDE DEF w
      <3> QED
        BY <1>3, <1>4, <2>1, <3>1
    <2>3. ASSUME NEW n, Set(p, [old EXCEPT !.pc = "loading", !.name = n]) PROVE GateInv'
      <3> DEFINE w == [old EXCEPT !.pc = "loading", !.name = n]
      <3>1. work' = [work EXCEPT ![p] = w] /\ DOMAIN w = Fields
        BY <2>1, <2>3 DEF Set
      <3> HIDE DEF w
      <3> QED
        BY <1>3, <1>4, <2>1, <3>1
    <2> QED
      BY <1>8, <2>2, <2>3 DEF Scan
  <1>9. CASE Load(p)
    <2>1. DOMAIN old = Fields /\ p \notin Commands
      BY <1>1, <1>4, <1>5, <1>9, AtReading DEF Load
    <2>2. ASSUME NEW code, End(p, code) PROVE GateInv'
      <3> DEFINE w == [old EXCEPT !.pc = "ended", !.code = code]
      <3>1. work' = [work EXCEPT ![p] = w] /\ DOMAIN w = Fields
        BY <2>1, <2>2 DEF End, Set
      <3> HIDE DEF w
      <3> QED
        BY <1>3, <1>4, <2>1, <3>1
    <2>3. ASSUME NEW found, NEW pc, NEW code, Set(p, [old EXCEPT !.found = found, !.pc = pc, !.code = code])
          PROVE  GateInv'
      <3> DEFINE w == [old EXCEPT !.found = found, !.pc = pc, !.code = code]
      <3>1. work' = [work EXCEPT ![p] = w] /\ DOMAIN w = Fields
        BY <2>1, <2>3 DEF Set
      <3> HIDE DEF w
      <3> QED
        BY <1>3, <1>4, <2>1, <3>1
    <2> QED
      BY <1>9, <2>2, <2>3 DEF Load
  <1> QED
    BY <1>7, <1>8, <1>9, <1>6

\* Every step of every process.
LEMMA GateStep == ASSUME EvaluationInv, GateInv, [RunNext]_vars PROVE GateInv'
  <1>1. CASE UNCHANGED vars
    BY <1>1 DEF vars, GateInv, GateKnown, Asking, Finished, Coded
  <1>2. ASSUME NEW p \in workload.processes, Step(p) PROVE GateInv'
    BY <1>2, StartingKeepsGate, RunningKeepsGate, SavingKeepsGate, PublishingKeepsGate, ComparingKeepsGate,
       RestKeepsGate
    DEF Step
  <1> QED
    BY <1>1, <1>2 DEF RunNext

\* What the policy of a comparison may be.
LEMMA PolicyGiven ==
    ASSUME NEW args, args.policy = None \/ args.policy \in RegressionPolicies
    PROVE  PolicyOf(args) \in RegressionPolicies
  <1>1. DefaultPolicy \in RegressionPolicies
    <2>1. [m \in Metrics |-> None] \in [Metrics -> MetricThresholds \union {None}]
      OBVIOUS
    <2> QED
      BY <2>1 DEF DefaultPolicy, RegressionPolicies
  <1> QED
    BY <1>1 DEF PolicyOf

\* The code of a command that has ended says what its answers were.
LEMMA CodeMeans ==
    ASSUME GateInv, workload \in Workloads, NEW p \in Commands, DOMAIN work[p] = RunFields,
           work[p].pc = "ended", work[p].run # None,
           work[p].code \notin {ReportError, ComparisonError}
    PROVE  CodeIsRight(work[p])
  <1>1. PICK w, args, run, responses, status :
          /\ w = work[p] /\ args = w.args /\ run = w.run /\ responses = run.responses /\ status = run.status
    OBVIOUS
  <1>2. p \in Processes /\ Finished(p) /\ args \in workload.arguments
    BY <1>1 DEF GateInv, GateKnown, Processes
  <1>3. Ran(args, responses) /\ run = RunOf(p, args, responses, status) /\ Coded(p)
    BY <1>1, <1>2 DEF Finished
  <1>4. PolicyOf(args) \in RegressionPolicies
    BY <1>2, WorkloadAssumption, PolicyGiven
  <1> DEFINE worse(baseline) == Worse(baseline, NowRun(args, run), CaseIds(args, run), PolicyOf(args))
             exit == ExitOf(args, run)
  <1>5. ExitCodeForRun(run) = exit
    BY <1>3, ExitMeans
  <1>6. ASSUME NEW baseline, IsScored(baseline)
        PROVE  Regressed(baseline, run, PolicyOf(args)) <=> worse(baseline)
    BY <1>3, <1>4, <1>6, RegressedMeans
  <1> HIDE DEF worse, exit
  <1>7. CodeOf(p, run) = exit
    BY <1>5 DEF CodeOf
  <1>8. w.code = IF \E baseline \in w.against : worse(baseline) THEN RegressionDetected ELSE exit
    <2>1. CASE w.code = CodeOf(p, run) /\ w.against = {}
      BY <1>7, <2>1
    <2>2. ASSUME NEW baseline, w.against = {baseline}, IsScored(baseline),
                 w.code = IF Regressed(baseline, run, PolicyOf(args)) THEN RegressionDetected
                          ELSE CodeOf(p, run)
          PROVE  w.code = IF \E b \in w.against : worse(b) THEN RegressionDetected ELSE exit
      <3>1. (\E b \in w.against : worse(b)) <=> worse(baseline)
        BY <2>2
      <3> QED
        BY <1>6, <1>7, <2>2, <3>1
    <2> QED
      BY <1>1, <1>3, <2>1, <2>2 DEF Coded
  <1>9. w.code = IF \E baseline \in w.against :
                          Worse(baseline, NowRun(w.args, w.run), CaseIds(w.args, w.run), PolicyOf(w.args))
                 THEN RegressionDetected ELSE ExitOf(w.args, w.run)
    BY <1>1, <1>8 DEF worse, exit
  <1>10. CodeIsRight(w)
    BY <1>9 DEF CodeIsRight, ExitOf, NowRun, CaseIds, BadCase, BadList
  <1> QED
    BY <1>1, <1>10

\* What the codes mean, in every state.
LEMMA GateHolds == ASSUME EvaluationInv, GateInv PROVE GateIsSound
  <1>1. workload \in Workloads
    BY DEF EvaluationInv
  <1> SUFFICES ASSUME NEW p \in Commands, work[p].pc = "ended", work[p].run # None,
                      work[p].code \notin {ReportError, ComparisonError}
               PROVE  DOMAIN work[p] = RunFields
    BY <1>1, CodeMeans DEF GateIsSound
  <1> QED
    BY DEF GateInv, Idle

\* Whatever the processes, data sets, policies, answers and earlier reports,
\* however the steps interleave and whoever is killed: the exit code of a
\* command says what its answers were, and whether the run got worse than
\* the report it was compared with.
THEOREM GateSound == RunSpec => []GateIsSound
  <1>1. RunInit => EvaluationInv /\ GateInv
    BY EvaluationStarts, GateStarts
  <1>2. EvaluationInv /\ GateInv /\ [RunNext]_vars => (EvaluationInv /\ GateInv)'
    BY EvaluationStep, GateStep
  <1>3. EvaluationInv /\ GateInv => GateIsSound
    BY GateHolds
  <1> QED
    BY <1>1, <1>2, <1>3, PTL DEF RunSpec
=============================================================================
