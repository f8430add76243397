------------------------------ MODULE MCBrowse ------------------------------
(* Browse on small instances.                                               *)
EXTENDS Browse, TLC

CONSTANTS manga, video, manhwa, q1, Junk

Comic(t) == [title |-> t, type |-> manga, sub |-> manhwa]
Clip == [title |-> 1, type |-> video, sub |-> NoSubType]
Entries == {Comic(1), Comic(2), Clip}
SomeRows == [entry : {Comic(1), Comic(2)}, at : {1}] \union [entry : {Clip}, at : {2}]
Searches == q1 :> {1}
SomeRequests ==
  {[Plain EXCEPT !.limit = 1], [Plain EXCEPT !.sort = "title", !.order = "asc"],
   [Plain EXCEPT !.sort = "updated", !.order = "asc", !.limit = 9, !.type = {{manga, video}}],
   [Plain EXCEPT !.limit = -1, !.since = 1]}
Symmetry == Permutations(Id) \union Permutations(Writer)

(* The functions of Answers against reference definitions.                  *)
Someone == [bytes : BOOLEAN, multi : BOOLEAN, dash : BOOLEAN,
            start : {Absent, Junk} \union 0..4, end : {Absent, Junk} \union -1..5]
Sensible(h, size) ==
  /\ h.bytes /\ ~h.multi /\ h.dash /\ size > 0 /\ Junk \notin {h.start, h.end}
  /\ IF h.start = Absent THEN h.end # Absent /\ h.end > 0
     ELSE h.start < size /\ (h.end = Absent \/ h.end >= h.start)
ASSUME RangesAsAsked ==
  \A h \in Someone, size \in 0..4 :
    LET r == ParseByteRange(h, size) IN
    /\ r.ok <=> Sensible(h, size)
    /\ r.ok => r.start..r.end = AskedBytes(h, size) /\ AskedBytes(h, size) # {}

Files == [ext : {".m3u8", ".ts"}, index : BOOLEAN, named : BOOLEAN, type : {Absent}]
Bundles == UNION {[1..n -> Files] : n \in 0..3}
Indexes(b) == {i \in DOMAIN b : IsPlaylist(b[i]) /\ b[i].index}
ASSUME PlaylistsAsPreferred ==
  \A b \in Bundles :
    LET all == {i \in DOMAIN b : IsPlaylist(b[i])} IN
    Playlist(b) = IF all = {} THEN 0
                  ELSE IF Indexes(b) \ {Min(all)} # {} THEN Max(Indexes(b)) ELSE Min(all)
ASSUME UploadsKeepThePlaylist ==
  \A b \in Bundles, fails \in 0..3 :
    LET u == Upload(b, fails) IN u.ok => u.stored = DOMAIN b /\ u.playlist \in u.stored

People == [name : {Absent, 1}, role : SUBSET {"story", "art", "other"}]
ASSUME EveryoneIsCredited ==
  \A people \in {S \in SUBSET People : Cardinality(S) <= 2}, type \in {"manga", "video", "novel"} :
    LET n == NormalizeMALNode([large |-> Absent, medium |-> 1, status |-> "finished",
                               studios |-> people, people |-> people], type) IN
    n.authors \union n.artists = {p \in people : p.name # Absent}

(* What is registered is what a reader is given.                            *)
ASSUME ReadAsRegistered ==
  \A req \in [chapter : {Absent, 1}, key : {Absent, 1, 2}, text : {Absent, 1}, m3u8 : BOOLEAN] :
    LET n == RegisterNovel(req, {1}, 3)  v == RegisterVideo(req) IN
    /\ n.ok => LET p == Pages(n.rows, {1} \union n.stored) IN p.ok /\ p.pages[1].from = "body"
    /\ v.ok => Pages(v.rows, {}).pages = <<[type |-> "video", from |-> "stream"]>>

(* A bundle goes whole, and nothing else does, unless it lies below.        *)
Show == {<<"hls", "show", f>> : f \in {"index", "segment"}}
Episode == {<<"hls", "show", "ep", "index">>}
Others == {<<"hls", "index">>, <<"hls", "other", "index">>, <<"pages", "show", "1">>}
ASSUME BundlesGoWhole ==
  \A others \in SUBSET Others :
    /\ \A k \in Show : Swept({k}, Show \union others) = Show
    /\ Swept(Episode, Show \union Episode \union others) = Episode
    /\ Swept({<<"hls", "show", "index">>}, Show \union Episode \union others) = Show \union Episode
    /\ Swept({<<"hls", "index">>}, Show \union others) = {<<"hls", "index">>}
=============================================================================
