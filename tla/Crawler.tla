------------------------------- MODULE Crawler -------------------------------
(***************************************************************************)
(* crawl_website (ingestion.py): the pages of a site, from its sitemap or  *)
(* by following links from its start page.  What a page links to is chosen *)
(* when it is fetched, and its links are read in any order.                *)
(***************************************************************************)
EXTENDS Naturals, FiniteSets, Sequences

CONSTANTS
    Urls,               \* normalized, all of one host
    StartUrl,           \* where the crawl starts
    Excluded,           \* legal and utility pages (_should_exclude)
    MaxPages, MaxDepth, \* max_pages, max_depth
    VisitedCap          \* max_pages * 3 in the code

VARIABLES
    queue,              \* URLs to fetch, each with its depth
    visited,            \* URLs queued or excluded so far
    pages,              \* the pages, with the depth each was found at
    failed,             \* URLs that did not answer
    links               \* those of the last page that are not read yet

vars == <<queue, visited, pages, failed, links>>

Entries == [url : Urls, depth : 0..MaxDepth]
Entry(url, depth) == [url |-> url, depth |-> depth]
Fetched == {p.url : p \in pages} \cup failed

(* candidates[:max_pages]: without the excluded ones; none is followed.    *)
FromSitemap ==
    \E n \in 0..MaxPages : \E candidates \in [1..n -> Urls \ Excluded] :
      /\ \A i, j \in 1..n : candidates[i] = candidates[j] => i = j
      /\ queue = [i \in 1..n |-> Entry(candidates[i], MaxDepth)]

Init ==
    /\ FromSitemap \/ queue = <<Entry(StartUrl, 0)>>
    /\ visited = {queue[i].url : i \in DOMAIN queue}
    /\ pages = {} /\ failed = {} /\ links = {}

(* The loop goes on, once the links of the page before are read.           *)
HasBudget == links = {} /\ queue # <<>> /\ Cardinality(Fetched) < MaxPages

FetchFails ==
    /\ HasBudget
    /\ failed' = failed \cup {Head(queue).url}
    /\ queue' = Tail(queue)
    /\ UNCHANGED <<visited, pages, links>>

(* found is empty too when the second fetch, for the links, fails.         *)
Fetch(found) ==
    LET page == Head(queue)  IN
    /\ HasBudget
    /\ pages' = pages \cup {page}
    /\ queue' = Tail(queue)
    /\ links' = IF page.depth < MaxDepth
                THEN {Entry(url, page.depth + 1) : url \in found} ELSE {}
    /\ UNCHANGED <<visited, failed>>

HasRoom == Cardinality(visited) < VisitedCap

(* Mutant: what was found last is fetched first.                           *)
FollowFirst(link) ==
    /\ links' = links \ {link}
    /\ IF link.url \notin visited \cup Excluded /\ HasRoom
       THEN queue' = <<link>> \o queue ELSE UNCHANGED queue
    /\ visited' = IF link.url \in Excluded \/ HasRoom
                  THEN visited \cup {link.url} ELSE visited
    /\ UNCHANGED <<pages, failed>>

(* A link of the page: an excluded one is only marked, and no more are     *)
(* taken once visited is full.                                             *)
Follow(link) ==
    /\ links' = links \ {link}
    /\ IF link.url \notin visited \cup Excluded /\ HasRoom
       THEN queue' = Append(queue, link) ELSE UNCHANGED queue
    /\ visited' = IF link.url \in Excluded \/ HasRoom
                  THEN visited \cup {link.url} ELSE visited
    /\ UNCHANGED <<pages, failed>>

Next ==
    \/ FetchFails
    \/ \E found \in SUBSET Urls : Fetch(found)
    \/ \E link \in links : Follow(link)

Spec == Init /\ [][Next]_vars

(***************************************************************************)
(* Properties                                                              *)
(***************************************************************************)
TypeOK ==
    /\ queue \in Seq(Entries)
    /\ visited \subseteq Urls
    /\ pages \subseteq Entries
    /\ failed \subseteq Urls
    /\ links \subseteq Entries

(* The budget goes to the pages nearest to the start page: no page is      *)
(* fetched while one found at a smaller depth waits, none is fetched twice,*)
(* and no legal page that was only linked is fetched.                      *)
NearestFirst ==
    /\ \A p \in pages, i \in DOMAIN queue : p.depth <= queue[i].depth
    /\ Cardinality(pages) + Cardinality(failed) = Cardinality(Fetched)
    /\ Cardinality(Fetched) <= MaxPages
    /\ \A u \in Fetched \cap Excluded : u = StartUrl

=============================================================================
