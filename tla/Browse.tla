------------------------------- MODULE Browse -------------------------------
(***************************************************************************)
(* Readers of the catalog of one source (the handlers popular, latest,     *)
(* search and recommendations, media_service.go, the queries of            *)
(* media_repo.go) while its entries are written.  A reader walks a feed    *)
(* page by page; the app also keeps a copy of the catalog, which it brings *)
(* up to date with walks of what changed since the newest updatedAt it has *)
(* seen ("resumable delta sync", domain/manga.go).                         *)
(*                                                                         *)
(* Instants are whole seconds of one clock, on which all instances agree.  *)
(* A writer takes the time and then sends its statement, so a row may land *)
(* under an earlier second.  SQL leaves open how entries with equal keys   *)
(* are ordered: each query may do it anew.                                 *)
(* Entries of other sources never match; links, covers and chapters are in *)
(* other modules.  (The links of an entry are written after its stamp: a   *)
(* sync that reads the row before them does not hear of them.)             *)
(***************************************************************************)
EXTENDS Answers, SequencesExt

CONSTANTS
  Id, Writer,
  Content,             \* what an entry may say: its title (numbers sort), type and sub-type
  NoSubType,
  Search,              \* the titles a query string occurs in, by query
  Blank,               \* an empty part of a comma-separated parameter
  Requests,            \* query parameters of the feeds
  Given,               \* the rows there may be when readers begin
  NoTime, NoMedia, NoWrite,
  CatalogPageSize, MaxCatalogPageSize,
  MaxClock, MaxWrites, MaxWalks,   \* bounds: seconds, writes begun, walks begun
  MaxBefore                        \* bound: walks and writes begun before a feed is opened

ASSUME ContentAssumption ==
  /\ \A e \in Content : DOMAIN e = {"title", "type", "sub"} /\ e.title \in Nat
  /\ NoTime \notin Int
ASSUME PageSizeAssumption ==
  CatalogPageSize \in 1..MaxCatalogPageSize /\ MaxCatalogPageSize \in Nat

VARIABLES
  clock,
  catalog,       \* rows by id
  pending,       \* statements on their way, by process
  walk,          \* the walk under way
  mark,          \* the newest updatedAt of the finished synchronisations
  missed,        \* history: entries whose present form the app's copy lacks
  excused,       \* history: those of them a synchronisation may lose
  writes, walks

browseVars == <<clock, catalog, pending, walk, mark, missed, excused, writes, walks>>

Time == 1..MaxClock
MediaRow == [entry : Content, at : Time]
ASSUME GivenAssumption == \A r \in Given : r \in MediaRow /\ r.at <= 2
Write == [id : Id, entry : Content, at : Time, op : {"create", "update", "cover"}]
ASSUME ReadersAssumption ==
  /\ IsFiniteSet(Id) /\ NoMedia \notin MediaRow /\ NoWrite \notin Write
  /\ MaxClock \in Nat /\ MaxClock >= 2 /\ MaxWrites \in Nat /\ MaxWalks \in Nat
Listed == {i \in Id : catalog[i] # NoMedia}

----------------------------------------------------------------------------
(* Query parameters (handler/response.go); Absent also stands for a number *)
(* or an instant that does not parse.                                      *)
QueryInt(v, def) == IF v \in Int THEN v ELSE def
QueryAll(vs) == UNION vs \ {Blank}
ParseUpdatedSince(v) == IF v \in Int THEN v ELSE NoTime
ParseCatalogFilter(q) ==
  [sort |-> q.sort, asc |-> q.order = "asc",
   types |-> QueryAll(q.type), subs |-> QueryAll(q.subType),
   limit |-> QueryInt(q.limit, 0), since |-> ParseUpdatedSince(q.since)]
Unfiltered == [sort |-> "", asc |-> FALSE, types |-> {}, subs |-> {}, limit |-> 0, since |-> NoTime]

(* domain.CatalogFilter.                                                   *)
PerPage(f) ==
  IF f.limit <= 0 THEN CatalogPageSize
  ELSE IF f.limit > MaxCatalogPageSize THEN MaxCatalogPageSize ELSE f.limit

SortColumn(f, feedDefault) ==
  LET sort == IF f.sort = "" THEN feedDefault ELSE f.sort IN
  CASE sort = "title" -> "title"
    [] sort \in {"rating", "popular", "popularity"} -> "popularity"
    [] OTHER -> "updated_at"

----------------------------------------------------------------------------
(* Queries (media_repo.go).  Nothing ever writes the popularity column.    *)
FilterClauses(f) ==
  {i \in Listed : /\ f.types = {} \/ catalog[i].entry.type \in f.types
                  /\ f.subs = {} \/ catalog[i].entry.sub \in f.subs
                  /\ f.since = NoTime \/ catalog[i].at > f.since}

Column(i, col) ==
  CASE col = "title" -> catalog[i].entry.title [] col = "updated_at" -> catalog[i].at [] OTHER -> 0

(* Does the ORDER BY put row i before row j?                               *)
OrderBy(f, feedDefault, i, j) ==
  LET col == SortColumn(f, feedDefault)  a == Column(i, col)  b == Column(j, col) IN
  \/ IF f.asc THEN a < b ELSE a > b
  \/ col # "title" /\ a = b /\ catalog[i].entry.title < catalog[j].entry.title

NormPage(page) == IF page < 1 THEN 1 ELSE page

ToMediaPageExact(rows, total, page, perPage) ==  \* mutant: a full page is followed by another
  [items |-> SubSeq(rows, 1, IF Len(rows) > perPage THEN perPage ELSE Len(rows)),
   page |-> page, hasNext |-> Len(rows) > perPage + 1, total |-> IF rows = <<>> THEN 0 ELSE total]

ToMediaPage(rows, total, page, perPage) ==
  [items |-> SubSeq(rows, 1, IF Len(rows) > perPage THEN perPage ELSE Len(rows)),
   page |-> page, hasNext |-> Len(rows) > perPage, total |-> IF rows = <<>> THEN 0 ELSE total]

(* The pages a query may answer: LIMIT perPage+1 OFFSET (page-1)*perPage of *)
(* any order of the matches that agrees with its ORDER BY.                 *)
Paged(S, f, feedDefault, page, perPage) ==
  LET first == (page - 1) * perPage + 1
      last == IF first + perPage < Cardinality(S) THEN first + perPage ELSE Cardinality(S)
      orders == {s \in SetToSeqs(S) :
                   \A x, y \in DOMAIN s : x < y => ~OrderBy(f, feedDefault, s[y], s[x])}
  IN {ToMediaPage(SubSeq(s, first, last), Cardinality(S), page, perPage) : s \in orders}

FeedDefault(order) == IF order = "popular" THEN "popular" ELSE "updated"
List(order, page, perPage, f) ==
  Paged(FilterClauses(f), f, FeedDefault(order), NormPage(page), perPage)

Titled(q, f) == {i \in FilterClauses(f) : catalog[i].entry.title \in Search[q]}
SearchRows(q, page, perPage, f) ==
  Paged(Titled(q, f), f, "title", NormPage(page), perPage)

Shared(subs, exclude) == {i \in Listed \ exclude : catalog[i].entry.sub \in subs}
Recommend(subs, exclude, page, perPage) ==
  Paged(Shared(subs, exclude), Unfiltered, "popular", NormPage(page), perPage)

(* What a reader may filter by: the sub-types in use and, of the list of   *)
(* sources, the media types.                                               *)
SubTypes == {catalog[i].entry.sub : i \in Listed} \ {NoSubType}
MediaTypesBySource == {catalog[i].entry.type : i \in Listed}

----------------------------------------------------------------------------
(* The service: which query answers which feed.                            *)
Popular(page, f) == List("popular", page, PerPage(f), f)
Latest(page, f) == List("latest", page, PerPage(f), f)
SearchFeed(q, page, f) == SearchRows(q, page, PerPage(f), f)
Recommendations(subs, exclude, page) ==
  IF subs = {} THEN List("popular", page, CatalogPageSize, Unfiltered)
  ELSE Recommend(subs, exclude, page, CatalogPageSize)

----------------------------------------------------------------------------
(* A walk: the request it repeats with the next page number and, of a      *)
(* synchronisation, the newest updatedAt it received, of another, until    *)
(* the rows change, what it received.                                      *)
NoWalk == [feed |-> "none"]
Walk(feed, q, term, exclude, sync) ==
  [feed |-> feed, q |-> q, term |-> term, exclude |-> exclude, sync |-> sync, page |-> 1,
   got |-> <<>>, total |-> 0, more |-> TRUE, top |-> 0, changed |-> FALSE]
Walking == walk.feed # "none"
Syncing == Walking /\ walk.sync

Plain ==
  [sort |-> "", order |-> "", type |-> {}, subType |-> {}, limit |-> Absent, since |-> Absent]
Filter(w) == ParseCatalogFilter(w.q)

(* The rows a walk asks for and the order it asks them in.                 *)
Fallback(w) == w.feed = "recommend" /\ w.term = {}
Asked(w) ==
  CASE w.feed = "search" -> Titled(w.term, Filter(w))
    [] w.feed = "recommend" /\ ~Fallback(w) -> Shared(w.term, w.exclude)
    [] OTHER -> FilterClauses(Filter(w))
Precedes(w, i, j) ==
  OrderBy(Filter(w), CASE w.feed = "search" -> "title" [] w.feed = "latest" -> "updated"
                       [] OTHER -> "popular", i, j)
Tied(w) == {i \in Asked(w) : \E j \in Asked(w) \ {i} : ~Precedes(w, i, j) /\ ~Precedes(w, j, i)}

Newest(S) == IF S = {} THEN 0 ELSE CHOOSE t \in S : \A u \in S : u <= t

BrowseInit ==
  /\ clock = 2 /\ mark = 0
  /\ catalog \in [Id -> Given \union {NoMedia}]
  /\ pending = [p \in Writer |-> NoWrite]
  /\ walk = NoWalk /\ missed = Listed /\ excused = {} /\ writes = 0 /\ walks = 0

Tick ==
  /\ clock < MaxClock /\ clock' = clock + 1
  /\ UNCHANGED <<catalog, pending, walk, mark, missed, excused, writes, walks>>

----------------------------------------------------------------------------
(* Writers.                                                                *)
Send(p, op, i, e) ==
  /\ pending[p] = NoWrite /\ writes < MaxWrites /\ writes' = writes + 1
  /\ pending' = [pending EXCEPT ![p] = [id |-> i, entry |-> e, at |-> clock, op |-> op]]
  /\ UNCHANGED <<clock, catalog, walk, mark, missed, excused, walks>>

Underway == {pending[q].id : q \in {r \in Writer : pending[r] # NoWrite}}
CreateMedia(p) ==
  \E i \in Id \ (Listed \union Underway), e \in Content : Send(p, "create", i, e)

UpdateMedia(p) == \E i \in Listed, e \in Content : Send(p, "update", i, e)

SetMediaCoverMillis(p) ==  \* mutant: time.Now().UnixMilli()
  /\ pending[p] = NoWrite /\ writes < MaxWrites /\ writes' = writes + 1
  /\ \E i \in Listed :
       pending' = [pending EXCEPT ![p] = [id |-> i, entry |-> catalog[i].entry,
                                          at |-> clock * 1000, op |-> "cover"]]
  /\ UNCHANGED <<clock, catalog, walk, mark, missed, excused, walks>>

(* The cover mirror stores the copy; the entry also counts as updated.     *)
SetMediaCover(p) == \E i \in Listed : Send(p, "cover", i, catalog[i].entry)

(* The rows a walk asks for are not what they were.                        *)
Disturb ==
  walk' = IF Walking THEN [walk EXCEPT !.changed = TRUE, !.got = <<>>, !.total = 0] ELSE walk

(* A row that moves back makes room: others, which a synchronisation has   *)
(* not come to yet, may move into the pages it has read.                   *)
PassedOver(i, at) == IF Syncing /\ i \in Listed /\ at <= catalog[i].at THEN missed ELSE {}

(* The statement lands.  A row that lands under an earlier second may be   *)
(* older than what the app has seen by then; one that was newer moves back.*)
CommitKeepsTime(p) ==  \* mutant: UPDATE without updated_at
  LET w == pending[p]  i == w.id
      row == IF w.op = "cover" THEN [catalog[i] EXCEPT !.at = w.at]
             ELSE [entry |-> w.entry, at |-> IF w.op = "create" THEN w.at ELSE catalog[i].at] IN
  /\ w # NoWrite /\ pending' = [pending EXCEPT ![p] = NoWrite]
  /\ IF w.op = "create" \/ i \in Listed
     THEN /\ catalog' = [catalog EXCEPT ![i] = row] /\ Disturb
          /\ missed' = missed \union {i}
          /\ excused' = IF w.at < clock THEN excused \union {i} \union PassedOver(i, w.at)
                      ELSE excused \ {i}
     ELSE UNCHANGED <<catalog, walk, missed, excused>>
  /\ UNCHANGED <<clock, mark, writes, walks>>

Commit(p) ==
  LET w == pending[p]  i == w.id
      row == IF w.op = "cover" THEN [catalog[i] EXCEPT !.at = w.at]
             ELSE [entry |-> w.entry, at |-> w.at] IN
  /\ w # NoWrite /\ pending' = [pending EXCEPT ![p] = NoWrite]
  /\ IF w.op = "create" \/ i \in Listed
     THEN /\ catalog' = [catalog EXCEPT ![i] = row] /\ Disturb
          /\ missed' = missed \union {i}
          /\ excused' = IF w.at < clock THEN excused \union {i} \union PassedOver(i, w.at)
                      ELSE excused \ {i}
     ELSE UNCHANGED <<catalog, walk, missed, excused>>
  /\ UNCHANGED <<clock, mark, writes, walks>>

FailWrite(p) ==
  /\ pending[p] # NoWrite /\ pending' = [pending EXCEPT ![p] = NoWrite]
  /\ UNCHANGED <<clock, catalog, walk, mark, missed, excused, writes, walks>>

(* Later rows move up: one that a synchronisation has not come to yet may  *)
(* move into the pages it has read.                                        *)
DeleteMedia ==
  /\ writes < MaxWrites /\ writes' = writes + 1
  /\ \E i \in Listed :
       /\ catalog' = [catalog EXCEPT ![i] = NoMedia] /\ Disturb
       /\ missed' = missed \ {i}
       /\ excused' = (IF Syncing THEN excused \union missed ELSE excused) \ {i}
  /\ UNCHANGED <<clock, pending, mark, walks>>

----------------------------------------------------------------------------
(* Readers.                                                                *)
Open(w) ==
  /\ ~Walking /\ walks < MaxWalks /\ walks' = walks + 1 /\ walk' = w
  /\ UNCHANGED <<clock, catalog, pending, mark, missed, excused, writes>>

OpenOnce(w) == walks + writes <= MaxBefore /\ Open(w)

OpenFeed ==
  \E feed \in {"popular", "latest"}, q \in Requests : OpenOnce(Walk(feed, q, {}, {}, FALSE))
OpenClass ==
  \/ \E s \in SubTypes :
       OpenOnce(Walk("latest", [Plain EXCEPT !.subType = {{s, Blank}}], {}, {}, FALSE))
  \/ \E t \in MediaTypesBySource :
       OpenOnce(Walk("popular", [Plain EXCEPT !.type = {{t}}], {}, {}, FALSE))
OpenSearch ==
  \E term \in DOMAIN Search, q \in Requests : OpenOnce(Walk("search", q, term, {}, FALSE))
OpenRecommended ==
  \E subs \in SUBSET SubTypes, exclude \in {{}} \union {{i} : i \in Listed} :
    OpenOnce(Walk("recommend", Plain, subs, exclude, FALSE))

(* The app: the whole catalog at first, then what changed after its mark.  *)
Synchronise ==
  \E limit \in {Absent, 1} :
    Open(Walk("latest", [Plain EXCEPT !.limit = limit, !.since = IF mark = 0 THEN Absent ELSE mark],
              {}, {}, TRUE))

(* What the headers say of a page.                                         *)
Headers(p) == WritePagination(OffsetPagination(p.page, CatalogPageSize, -1, p.hasNext))

(* A page arrives.  Where two rows tie the next page may order them anew,  *)
(* so either may be passed over.                                           *)
Receive(p) ==
  LET seen == ToSet(p.items) IN
  /\ LET w == [walk EXCEPT !.page = @ + 1, !.more = <<"has-next", TRUE>> \in Headers(p)] IN
     walk' = IF walk.sync THEN [w EXCEPT !.top = Newest({@} \union {catalog[i].at : i \in seen})]
             ELSE IF walk.changed THEN w
             ELSE [w EXCEPT !.got = @ \o p.items, !.total = p.total]
  /\ missed' = IF walk.sync THEN missed \ seen ELSE missed
  /\ excused' = IF walk.sync THEN (excused \union (missed \intersect Tied(walk))) \ seen
                ELSE excused
  /\ UNCHANGED <<clock, catalog, pending, mark, writes, walks>>

On(feed) == walk.feed = feed /\ walk.more
FetchPopular == On("popular") /\ \E p \in Popular(walk.page, Filter(walk)) : Receive(p)
FetchLatest == On("latest") /\ \E p \in Latest(walk.page, Filter(walk)) : Receive(p)
FetchSearch == On("search") /\ \E p \in SearchFeed(walk.term, walk.page, Filter(walk)) : Receive(p)
FetchRecommended ==
  On("recommend") /\ \E p \in Recommendations(walk.term, walk.exclude, walk.page) : Receive(p)

(* The reader has the last page, or gives up before.  Nobody will ask for  *)
(* what landed in the very second of the mark it began with.               *)
Close ==
  /\ Walking /\ walk' = NoWalk
  /\ IF walk.sync /\ ~walk.more
     THEN /\ mark' = Newest({mark, walk.top})
          /\ excused' = excused \union {i \in missed : catalog[i].at = mark}
     ELSE UNCHANGED <<mark, excused>>
  /\ UNCHANGED <<clock, catalog, pending, missed, writes, walks>>

BrowseNext ==
  \/ Tick \/ DeleteMedia
  \/ \E p \in Writer :
       CreateMedia(p) \/ UpdateMedia(p) \/ SetMediaCover(p) \/ Commit(p) \/ FailWrite(p)
  \/ OpenFeed \/ OpenClass \/ OpenSearch \/ OpenRecommended \/ Synchronise
  \/ FetchPopular \/ FetchLatest \/ FetchSearch \/ FetchRecommended \/ Close

BrowseSpec == BrowseInit /\ [][BrowseNext]_browseVars

----------------------------------------------------------------------------
(* A reader's walk over rows nobody writes ends with as many entries as    *)
(* match, the number it announced, in the order it asked for; and with     *)
(* each match once, unless two of them tie (media_repo.go orderByClause: "Ties break  *)
(* by title for stable pagination").                                       *)
WalkIsExact ==
  Walking /\ ~walk.sync /\ ~walk.more /\ ~walk.changed =>
    /\ Len(walk.got) = Cardinality(Asked(walk)) /\ walk.total = Len(walk.got)
    /\ \A x, y \in DOMAIN walk.got : x < y => ~Precedes(walk, walk.got[y], walk.got[x])
    /\ Tied(walk) = {} => ToSet(walk.got) = Asked(walk)

(* What the app's copy still lacks is not older than its mark, so a later  *)
(* synchronisation can ask for it: an entry rewritten while the app reads  *)
(* moves to the front and is not lost.  Excused are entries that landed    *)
(* under an earlier second or in the very second of a mark (updated_since  *)
(* asks for what is newer), that tied with another, or that were yet to    *)
(* come when an entry was deleted, or moved back by a late statement.  And *)
(* a synchronisation that ends with nobody writing meanwhile has all that  *)
(* is newer than the mark it began with.                                   *)
NothingOlderIsMissed ==
  \A i \in missed \ excused :
    /\ catalog[i].at >= mark
    /\ Syncing /\ ~walk.more /\ ~walk.changed => catalog[i].at = mark

BrowseTypeOK ==
  /\ clock \in Time /\ mark \in Time \union {0} /\ catalog \in [Id -> MediaRow \union {NoMedia}]
  /\ pending \in [Writer -> Write \union {NoWrite}]
  /\ missed \subseteq Listed /\ excused \subseteq missed
  /\ writes \in 0..MaxWrites /\ walks \in 0..MaxWalks
=============================================================================
