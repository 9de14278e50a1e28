------------------------------ MODULE Registry -------------------------------
(***************************************************************************)
(* The registry of databases and its ranking (aruaru-registry): the daily  *)
(* task and operators crawl, each on its own; a crawl fetches a page, or   *)
(* the stars of single repositories when that fails, and applies what it   *)
(* found to the entries under the lock, long after it fetched it.          *)
(***************************************************************************)
EXTENDS Naturals, FiniteSets, Sequences

CONSTANTS Entry,      \* databases of the seed, by the normalized name that finds them
          Starred,    \* those of github_repo_map
          Crawler,    \* the daily task and operators
          Pages,      \* what DB-Engines may show: sequences of names, most popular first
          MaxCrawls   \* bound on the crawls

ASSUME RegistryAssumption ==
    /\ Starred \subseteq Entry /\ MaxCrawls \in Nat
    /\ \A page \in Pages : DOMAIN page = 1 .. Len(page)

VARIABLES
    entries,   \* [Entry -> its rank, 0 for none, and the crawl it is from]
    crawling,  \* [Crawler -> its crawl, from its first request on, or 0]
    found,     \* [Crawler -> the RankMap it has, a set of [name, rank]]
    stage,     \* [Crawler -> "idle", "fetching", "fallback", "apply"]
    asking,    \* [Crawler -> repositories still to ask for their stars]
    crawls,    \* how many crawls began
    ended,     \* history: crawls applied or failed
    before,    \* history: [crawl -> crawls that had ended when it began]
    matched    \* history: [crawl -> entries it gave a rank]

registryVars == <<entries, crawling, found, stage, asking, crawls, ended, before, matched>>

RegistryInit ==
    /\ entries = [e \in Entry |-> [rank |-> 0, crawl |-> 0]]
    /\ crawling = [c \in Crawler |-> 0]
    /\ found = [c \in Crawler |-> {}]
    /\ stage = [c \in Crawler |-> "idle"]
    /\ asking = [c \in Crawler |-> {}]
    /\ crawls = 0 /\ ended = {}
    /\ before = [i \in 1 .. MaxCrawls |-> {}]
    /\ matched = [i \in 1 .. MaxCrawls |-> {}]
-----------------------------------------------------------------------------
\* parse_db_engines: rows are counted; of a name that comes twice the last row stands.
ParseDbEngines(page) ==
    {[name |-> page[i], rank |-> i] : i \in {j \in DOMAIN page : \A k \in DOMAIN page : page[k] = page[j] => k <= j}}

\* crawl_now, by crawl_once of the daily task, or crawlRegistry and registry_crawl of an operator.
StartCrawl(c) ==
    /\ stage[c] = "idle" /\ crawls < MaxCrawls
    /\ crawls' = crawls + 1
    /\ crawling' = [crawling EXCEPT ![c] = crawls + 1]
    /\ stage' = [stage EXCEPT ![c] = "fetching"]
    /\ before' = [before EXCEPT ![crawls + 1] = ended]
    /\ UNCHANGED <<entries, found, asking, ended, matched>>

\* crawl_all: a page with at least one row is the result ...
FetchPage(c) ==
    /\ stage[c] = "fetching"
    /\ \E page \in Pages : page # <<>> /\ found' = [found EXCEPT ![c] = ParseDbEngines(page)]
    /\ stage' = [stage EXCEPT ![c] = "apply"]
    /\ UNCHANGED <<entries, crawling, asking, crawls, ended, before, matched>>

\* ... and an error or an empty page leads to the fallback, one repository after the other.
FetchFails(c) ==
    /\ stage[c] = "fetching"
    /\ stage' = [stage EXCEPT ![c] = "fallback"]
    /\ asking' = [asking EXCEPT ![c] = Starred]
    /\ UNCHANGED <<entries, crawling, found, crawls, ended, before, matched>>

\* crawl_fallback: who answers is ranked among those who do; the popularity is up to the answers.
AskStars(c) ==
    /\ stage[c] = "fallback" /\ asking[c] # {}
    /\ \E e \in asking[c] :
          /\ asking' = [asking EXCEPT ![c] = @ \ {e}]
          /\ \/ UNCHANGED found
             \/ \E place \in 1 .. Cardinality(found[c]) + 1 :
                   found' = [found EXCEPT ![c] =
                       {[m EXCEPT !.rank = IF @ >= place THEN @ + 1 ELSE @] : m \in found[c]}
                         \cup {[name |-> e, rank |-> place]}]
    /\ UNCHANGED <<entries, crawling, stage, crawls, ended, before, matched>>

FallbackDone(c) ==
    /\ stage[c] = "fallback" /\ asking[c] = {}
    /\ stage' = [stage EXCEPT ![c] = "apply"]
    /\ UNCHANGED <<entries, crawling, found, asking, crawls, ended, before, matched>>

Named(c) == {m.name : m \in found[c]} \cap Entry
RankIn(c, e) == (CHOOSE m \in found[c] : m.name = e).rank

\* Variant: an entry that has a rank keeps it.
ApplyFirstRanks(c) ==
    /\ stage[c] = "apply"
    /\ entries' = [e \in Entry |-> IF e \in Named(c) /\ entries[e].rank = 0
                                   THEN [rank |-> RankIn(c, e), crawl |-> crawling[c]] ELSE entries[e]]
    /\ matched' = [matched EXCEPT ![crawling[c]] = Named(c)]
    /\ ended' = ended \cup {crawling[c]}
    /\ stage' = [stage EXCEPT ![c] = "idle"]
    /\ found' = [found EXCEPT ![c] = {}]
    /\ crawling' = [crawling EXCEPT ![c] = 0]
    /\ UNCHANGED <<asking, crawls, before>>

\* apply_ranks: entries that were found get their new rank, the others keep the old one.
ApplyRanks(c) ==
    /\ stage[c] = "apply"
    /\ entries' = [e \in Entry |-> IF e \in Named(c) THEN [rank |-> RankIn(c, e), crawl |-> crawling[c]]
                                   ELSE entries[e]]
    /\ matched' = [matched EXCEPT ![crawling[c]] = Named(c)]
    /\ ended' = ended \cup {crawling[c]}
    /\ stage' = [stage EXCEPT ![c] = "idle"]
    /\ found' = [found EXCEPT ![c] = {}]
    /\ crawling' = [crawling EXCEPT ![c] = 0]
    /\ UNCHANGED <<asking, crawls, before>>

RegistryStep ==
    \E c \in Crawler : \/ StartCrawl(c) \/ FetchPage(c) \/ FetchFails(c)
                       \/ AskStars(c) \/ FallbackDone(c) \/ ApplyRanks(c)
-----------------------------------------------------------------------------
RegistryOK ==
    /\ \A e \in Entry : entries[e].rank \in Nat /\ entries[e].crawl \in 0 .. crawls
    /\ \A c \in Crawler : stage[c] \in {"idle", "fetching", "fallback", "apply"} /\ asking[c] \subseteq Starred
    /\ ended \subseteq 1 .. crawls

\* all: entries in the order of their ranks, those without at the end.  Two entries that got their
\* ranks from one crawl never share a rank; and no entry keeps a rank older than one it got from a
\* crawl that began after that one had ended: crawls that overlap may overwrite each other in any
\* order, others never do.
RanksAreNewest ==
    /\ \A d, e \in Entry :
          d # e /\ entries[d].crawl = entries[e].crawl /\ entries[e].crawl # 0 => entries[d].rank # entries[e].rank
    /\ \A e \in Entry : \A i \in 1 .. MaxCrawls :
          e \in matched[i] => entries[e].crawl \notin before[i] \cup {0}
=============================================================================
