------------------------------ MODULE Answers ------------------------------
(***************************************************************************)
(* What single requests are answered: functions of the request and of what *)
(* is stored, with no state of their own.  Parts of an object and bundles  *)
(* of a video (video_handler.go, video_service.go), the pages and the      *)
(* neighbours of a chapter (media_service.go), their registration          *)
(* (convert_service.go, novel_service.go) and what cleanup takes, the      *)
(* metadata of a page of results (pagination.go), what a provider suggests *)
(* (connection_search.go), ads (ad_service.go, ad_repo.go) and lifetimes   *)
(* in KV (kv/client.go).  Texts are numbers, members of small sets or      *)
(* Absent; URLs and signatures are left out.                               *)
(***************************************************************************)
EXTENDS Integers, Sequences, FiniteSets

CONSTANT Absent        \* an empty string

ASSUME AbsentAssumption == Absent \notin Int

----------------------------------------------------------------------------
(* Byte ranges.  A header says whether its unit is bytes, whether it lists *)
(* several ranges, whether it has a dash, and what is on either side of    *)
(* the first: Absent, a number, or something Atoi refuses.                 *)
Whole == [ok |-> FALSE, start |-> 0, end |-> 0]
Part(a, b) == [ok |-> TRUE, start |-> a, end |-> b]

ParseByteRange(h, size) ==
  CASE size = 0 \/ ~h.bytes \/ h.multi \/ ~h.dash -> Whole
    [] OTHER ->
       CASE h.start = Absent ->
              CASE h.end \notin Int \/ h.end <= 0 -> Whole
                [] OTHER -> Part(IF h.end > size THEN 0 ELSE size - h.end, size - 1)
         [] h.start # Absent /\ (h.start \notin Int \/ h.start < 0 \/ h.start >= size) -> Whole
         [] OTHER ->
              CASE h.end = Absent -> Part(h.start, size - 1)
                [] h.end # Absent /\ (h.end \notin Int \/ h.end < h.start) -> Whole
                [] OTHER -> Part(h.start, IF h.end < size - 1 THEN h.end ELSE size - 1)

(* The bytes a header asks for (RFC 9110): the last end ones, or those     *)
(* from start on, up to end if it is there.                                *)
AskedBytes(h, size) ==
  {x \in 0..(size - 1) :
     IF h.start = Absent THEN x >= size - h.end
     ELSE x >= h.start /\ (h.end = Absent \/ x <= h.end)}

HLSContentType(ext) ==
  CASE ext = ".m3u8" -> "mpegurl" [] ext = ".ts" -> "mp2t" [] ext \in {".m4s", ".mp4"} -> "mp4"
    [] ext = ".vtt" -> "vtt" [] ext = ".aac" -> "aac" [] OTHER -> "octet-stream"

(* An object is its size and the type it was stored with; none is an error *)
(* of the store like any other.                                            *)
NoObject == [size |-> -1, type |-> "none"]
Stream(key, object, h) ==
  LET r == ParseByteRange(h, object.size)
      ext == HLSContentType(key.ext) IN
  IF key.name = Absent THEN [status |-> 400, body |-> {}]
  ELSE IF object = NoObject THEN [status |-> 500, body |-> {}]
  ELSE [status |-> IF r.ok THEN 206 ELSE 200,
        body |-> IF r.ok THEN r.start..r.end ELSE 0..(object.size - 1),
        type |-> IF ext # "octet-stream" THEN ext ELSE object.type,
        age |-> IF key.ext = ".m3u8" THEN 10 ELSE 31536000]

----------------------------------------------------------------------------
(* Bundles: files in the order sent, each with its extension and whether   *)
(* it is called index.m3u8; an unnamed one stops the request.              *)
IsPlaylist(f) == f.ext = ".m3u8"

(* The playlist of the first n files: the first there is, then any index.  *)
Playlist(files) ==
  LET best[n \in 0..Len(files)] ==
        IF n = 0 THEN 0
        ELSE IF IsPlaylist(files[n]) /\ (best[n - 1] = 0 \/ files[n].index) THEN n ELSE best[n - 1]
  IN best[Len(files)]

(* Upload stores the files one by one; what it stored stays when it fails. *)
(* fails is the file R2 refuses, if any.                                   *)
Upload(files, fails) ==
  LET stops == {i \in DOMAIN files : i = fails \/ ~files[i].named}
      stored == {i \in DOMAIN files : \A j \in stops : i < j}
      playlist == Playlist(files) IN
  [ok |-> files # <<>> /\ stops = {} /\ playlist # 0, stored |-> stored, playlist |-> playlist]

(* The direct route mints a URL for each file and stores nothing.          *)
PresignUploads(files, MaxBatch) ==
  [ok |-> /\ Len(files) \in 1..MaxBatch
          /\ \A i \in DOMAIN files : files[i].named
          /\ Playlist(files) # 0,
   playlist |-> Playlist(files),
   type |-> [i \in DOMAIN files |-> IF files[i].type # Absent THEN files[i].type
                                    ELSE HLSContentType(files[i].ext)]]

----------------------------------------------------------------------------
(* Chapters, as the table lists them by number.                            *)
Chapter == [id : STRING, number : Int]
NoChapter == 0
ChapterNeighbors(siblings, id) ==
  LET at == CHOOSE i \in DOMAIN siblings : siblings[i].id = id
      found == \E i \in DOMAIN siblings : siblings[i].id = id IN
  [previous |-> IF found /\ at > 1 THEN at - 1 ELSE NoChapter,
   next |-> IF found /\ at < Len(siblings) THEN at + 1 ELSE NoChapter]

(* Pages: a video is streamed, a novel inlined, an image fetched.  One     *)
(* object of a novel that is gone fails the whole list.                    *)
PageOf(sp) ==
  CASE sp.kind = "video" -> [type |-> "video", from |-> "stream"]
    [] sp.kind = "novel" -> [type |-> "novel", from |-> "body"]
    [] OTHER -> [type |-> Absent, from |-> "url"]
Pages(stored, objects) ==
  IF \E i \in DOMAIN stored : stored[i].kind = "novel" /\ stored[i].key \notin objects
  THEN [ok |-> FALSE, pages |-> <<>>]
  ELSE [ok |-> TRUE, pages |-> [i \in DOMAIN stored |-> PageOf(stored[i])]]

----------------------------------------------------------------------------
(* Registration: the rows the three front ends hand to ReplacePages (by    *)
(* ascending index) and what they store themselves.  A novel that is given *)
(* as text goes under a fresh key; a key is not looked up for the others.  *)
Rejected == [ok |-> FALSE, rows |-> <<>>, stored |-> {}]
RegisterPages(pages) ==
  IF pages = <<>> \/ \E i \in DOMAIN pages : pages[i] = Absent THEN Rejected
  ELSE [ok |-> TRUE, rows |-> [i \in DOMAIN pages |-> [key |-> pages[i], kind |-> "image"]],
        stored |-> {}]

RegisterVideo(req) ==
  IF req.chapter = Absent \/ req.key = Absent \/ ~req.m3u8 THEN Rejected
  ELSE [ok |-> TRUE, rows |-> <<[key |-> req.key, kind |-> "video"]>>, stored |-> {}]

RegisterNovel(req, objects, fresh) ==
  LET key == IF req.key # Absent THEN req.key ELSE fresh IN
  IF \/ req.chapter = Absent
     \/ req.key # Absent /\ req.key \notin objects
     \/ req.key = Absent /\ req.text = Absent
  THEN Rejected
  ELSE [ok |-> TRUE, rows |-> <<[key |-> key, kind |-> "novel"]>>,
        stored |-> IF req.key = Absent THEN {fresh} ELSE {}]

PresignPages(count, MaxBatch) == IF count \in 1..MaxBatch THEN 0..(count - 1) ELSE {}

----------------------------------------------------------------------------
(* Cleanup.  A key is a sequence of path segments, none of them empty or   *)
(* dots.  A key in a directory of hls/ stands for all that directory holds *)
(* by the time the worker lists it, directories below it included.         *)
Dir(key) == SubSeq(key, 1, Len(key) - 1)
InBundle(key) == Len(key) > 2 /\ key[1] = "hls"
SplitHLSPrefixes(keys) ==
  [plain |-> {k \in keys : ~InBundle(k)}, prefixes |-> {Dir(k) : k \in {j \in keys : InBundle(j)}}]

ListKeys(prefix, objects) ==
  {k \in objects : Len(k) > Len(prefix) /\ SubSeq(k, 1, Len(prefix)) = prefix}
Swept(keys, objects) ==
  LET s == SplitHLSPrefixes(keys) IN
  s.plain \union UNION {ListKeys(d, objects) : d \in s.prefixes}

----------------------------------------------------------------------------
(* The metadata of a page of results, in headers: the page size is always  *)
(* the default and the total is left out, whatever the body says.          *)
OffsetPagination(page, perPage, total, hasNext) ==
  [kind |-> "offset", hasNext |-> hasNext, perPage |-> perPage, page |-> page, total |-> total,
   next |-> Absent, prev |-> Absent]

WritePagination(p) ==
  {<<"kind", p.kind>>, <<"has-next", p.hasNext>>}
    \union (IF p.perPage > 0 THEN {<<"per-page", p.perPage>>} ELSE {})
    \union (IF p.kind = "offset" /\ p.page > 0 THEN {<<"page", p.page>>} ELSE {})
    \union (IF p.kind = "offset" /\ p.total >= 0 THEN {<<"total", p.total>>} ELSE {})
    \union (IF p.kind = "cursor" /\ p.next # Absent THEN {<<"next", p.next>>} ELSE {})
    \union (IF p.kind = "cursor" /\ p.prev # Absent THEN {<<"prev", p.prev>>} ELSE {})

----------------------------------------------------------------------------
(* Suggestions: the credits of a provider's record, split by role.         *)
SearchMediaType(kind) ==
  IF kind = Absent THEN "manga" ELSE IF kind \in {"manga", "video", "novel"} THEN kind ELSE "error"

ClampSearchLimit(limit, Default, Max) ==
  LET l == IF limit <= 0 THEN Default ELSE limit IN IF l > Max THEN Max ELSE l

MALStatus(s, isAnime) ==
  CASE isAnime /\ s = "finished_airing" -> "completed"
    [] isAnime /\ s = "currently_airing" -> "ongoing"
    [] ~isAnime /\ s = "finished" -> "completed"
    [] ~isAnime /\ s = "currently_publishing" -> "ongoing"
    [] ~isAnime /\ s = "on_hiatus" -> "hiatus"
    [] ~isAnime /\ s = "discontinued" -> "cancelled"
    [] OTHER -> "unknown"

(* A person is credited in a role: a set of "story", "art" and others.     *)
NormalizeMALNode(n, type) ==
  LET named(people) == {p \in people : p.name # Absent} IN
  [cover |-> IF n.large # Absent THEN n.large ELSE n.medium,
   status |-> MALStatus(n.status, type = "video"),
   authors |-> IF type = "video" THEN named(n.studios)
               ELSE {p \in named(n.people) : "story" \in p.role \/ "art" \notin p.role},
   artists |-> IF type = "video" THEN {} ELSE {p \in named(n.people) : "art" \in p.role}]

----------------------------------------------------------------------------
(* Ads: what is stored, and which a reader is shown, heaviest first and    *)
(* then newest first.                                                      *)
AdFromRequest(req) ==
  [weight |-> IF req.weight <= 0 THEN 1 ELSE req.weight,
   active |-> IF req.active = Absent THEN TRUE ELSE req.active,
   placement |-> req.placement]

AdList(ads, activeOnly, placement) ==
  {a \in ads : (activeOnly => a.active) /\ (placement # Absent => a.placement = placement)}
AdBefore(a, b) == a.weight > b.weight \/ (a.weight = b.weight /\ a.created > b.created)
ListActive(ads, placement) == AdList(ads, TRUE, placement)

----------------------------------------------------------------------------
(* A lifetime in KV, in milliseconds.  It is passed on in whole seconds,   *)
(* and not at all below a minute, which KV does not take: such a record    *)
(* never expires.                                                          *)
Second == 1000
Forever == -1
PutLifetime(ttl) ==
  LET secs == ttl \div Second IN IF secs >= 60 THEN secs * Second ELSE Forever
=============================================================================
