----------------------------- MODULE WebsiteCrawl -----------------------------
(***************************************************************************)
(* HttpWebsiteLoader.load: a bounded, breadth-first crawl of one origin.   *)
(* URLs are normalised ones. The site does not change while it is crawled, *)
(* but any request may fail: a failing root ends the crawl, another page   *)
(* is skipped.                                                             *)
(***************************************************************************)
EXTENDS Naturals, Sequences, FiniteSets, SequencesExt

CONSTANTS
    Urls,
    Root,          \* the URL to be ingested
    Nowhere,       \* no URL
    OriginOf,      \* the origin of each URL
    Public,        \* the origins on public addresses
    Sites,         \* what is at the URLs: [to, links], to being a redirection
    MaxPages,      \* max_pages
    MaxRedirects   \* MAX_REDIRECTS

Pages == [to : Urls \union {Nowhere}, links : Seq(Urls)]

ASSUME CrawlAssumption ==
    /\ Root \in Urls /\ Nowhere \notin Urls
    /\ OriginOf[Root] \in Public
    /\ \A s \in Sites : s \in [Urls -> Pages]
    /\ MaxPages \in Nat \ {0}
    /\ MaxRedirects \in Nat

VARIABLES
    site,      \* the member of Sites that is crawled
    crawl      \* the local variables of load

crawlVars == <<site, crawl>>

NoCrawl == [documents |-> <<>>, queue |-> <<>>, seen |-> {}, skipped |-> {}, requested |-> 0]

CrawlInit == site \in Sites /\ crawl = NoCrawl

\* A URL is requested only if all addresses of its host are public ones, and
\* during the crawl only on its origin.
Allowed(url, origins) == OriginOf[url] \in origins

\* Where a download of url ends: every hop is validated, and Hop[n] follows n
\* redirections.
Destination(url, origins) ==
    LET Hop[n \in 0 .. MaxRedirects] ==
            [u \in Urls |-> IF ~Allowed(u, origins) THEN Nowhere
                            ELSE IF site[u].to = Nowhere THEN u
                            ELSE IF n = 0 THEN Nowhere
                            ELSE Hop[n - 1][site[u].to]]
    IN Hop[MaxRedirects][url]

CrawlOrigin == OriginOf[crawl.documents[1]]

Enqueue(c, link, origin) ==
    IF OriginOf[link] # origin \/ link \in c.seen THEN c
    ELSE [c EXCEPT !.seen = @ \union {link}, !.queue = Append(@, link)]

\* The crawl c with the links of a page that are new to it at the end of the queue.
EnqueueLinks(c, page, origin) ==
    LET links == site[page].links
        First[n \in 0 .. Len(links)] ==
            IF n = 0 THEN c ELSE Enqueue(First[n - 1], links[n], origin)
    IN First[Len(links)]

LoadRoot ==
    LET page == Destination(Root, Public)
    IN /\ page # Nowhere
       /\ crawl' = EnqueueLinks([NoCrawl EXCEPT !.documents = <<page>>, !.seen = {page},
                                                !.requested = 1],
                                page, OriginOf[page])
       /\ UNCHANGED site

CrawlEnds == crawl.queue = <<>> \/ crawl.requested >= MaxPages

Popped == [crawl EXCEPT !.queue = Tail(@), !.requested = @ + 1]

SkipPage ==
    /\ ~CrawlEnds
    /\ crawl' = [Popped EXCEPT !.skipped = @ \union {Head(crawl.queue)}]
    /\ UNCHANGED site

AlreadySeen(page) == page \in crawl.seen
AlreadyLoaded(page) == page \in ToSet(crawl.documents)

\* Two URLs may lead to one page, which is a document once.
LoadPage ==
    LET page == Destination(Head(crawl.queue), {CrawlOrigin})
    IN /\ ~CrawlEnds
       /\ page # Nowhere
       /\ crawl' = IF AlreadyLoaded(page) THEN Popped
                   ELSE EnqueueLinks([Popped EXCEPT !.documents = Append(@, page),
                                                    !.seen = @ \union {page}],
                                     page, CrawlOrigin)
       /\ UNCHANGED site

-----------------------------------------------------------------------------
Loaded == ToSet(crawl.documents)
LinksOf(page) == {link \in ToSet(site[page].links) : OriginOf[link] = CrawlOrigin}

\* Redirects, cycles and repeated links lose no page and repeat none. Every
\* link of a loaded page leads to a loaded page, still waits in the queue or
\* was skipped; every document but the first is where a link of an earlier one
\* leads; and no page of another origin, none twice and none beyond the limit
\* is taken.
CrawlIsFaithful ==
    crawl.documents # <<>> =>
        /\ \A link \in UNION {LinksOf(p) : p \in Loaded} :
              \/ Destination(link, {CrawlOrigin}) \in Loaded
              \/ link \in ToSet(crawl.queue) \union crawl.skipped
        /\ \A i \in 2 .. Len(crawl.documents) :
              \E j \in 1 .. i - 1 : \E link \in LinksOf(crawl.documents[j]) :
                 Destination(link, {CrawlOrigin}) = crawl.documents[i]
        /\ \A page \in Loaded : OriginOf[page] = CrawlOrigin
        /\ Cardinality(Loaded) = Len(crawl.documents)
        /\ Len(crawl.documents) <= crawl.requested /\ crawl.requested <= MaxPages
=============================================================================
