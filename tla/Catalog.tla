------------------------------ MODULE Catalog ------------------------------
(***************************************************************************)
(* Media entries and what they refer to: their source, their sub-type and  *)
(* their genres, authors and artists (media_service.go, source_service.go, *)
(* subtype_service.go, taxonomy_service.go over media_repo.go and          *)
(* source_repo.go).  One action is one D1 statement; requests of several   *)
(* instances interleave, and no two statements are in one transaction.     *)
(*                                                                         *)
(* The order of the submitted names is left open.  Pages and chapters are  *)
(* in PageCleanup, covers in CoverMirror, other columns nowhere.           *)
(***************************************************************************)
EXTENDS Naturals, Sequences

CONSTANTS
  Kinds,               \* the taxonomies, in the order they are re-linked
  Slugged,             \* the kinds with a UNIQUE slug; the others' name is
  Slug,                \* the slug of a name
  Name, TagId, Entry, Source, Sub, Type, Proc,
  NoName, NoTag, NoEntry, NoSource, NoSub, NoType, NoRow,
  ForeignKeys,         \* whether D1 enforces the declared foreign keys
  MaxRequests,         \* bound: requests begun
  MaxFaults            \* bound: failed statements and crashes

Kind == {Kinds[i] : i \in 1..Len(Kinds)}
Row == [source : Source, type : Type, sub : Sub \union {NoSub}]

ASSUME KindsAssumption ==
  /\ Kinds \in Seq({"genre", "author", "artist"}) /\ Kinds # <<>> /\ Slugged \subseteq Kind
  /\ \A i, j \in 1..Len(Kinds) : Kinds[i] = Kinds[j] => i = j
ASSUME NullAssumption ==
  /\ NoName \notin Name /\ NoTag \notin TagId /\ NoEntry \notin Entry /\ NoSub \notin Sub
  /\ NoSource \notin Source /\ NoType \notin Type /\ NoRow \notin Row
ASSUME ParameterAssumption ==
  /\ ForeignKeys \in BOOLEAN /\ MaxRequests \in Nat /\ MaxFaults \in Nat

VARIABLES
  source,        \* "none", "on" or "off" (the enabled column)
  vocab,         \* sub_type: the media type of a slug
  media,         \* rows by id
  tag,           \* by kind and id, the name
  link,          \* rows of the join tables
  usedE, usedT,  \* ids drawn so far
  req,           \* requests under way
  want,          \* history: the keys an entry was last given
  blurred,       \* history: entries whose last edit overlapped or failed
  touched,       \* history: keys an admin renamed or removed since
  stray,         \* history: entries inserted for no source, or one on its way out
  known,         \* history: entries whose sub-type stood since its validation
  begun, faults

tables == <<source, vocab, media, tag, link, usedE, usedT>>
history == <<want, blurred, touched, stray, known>>
bounds == <<begun, faults>>
vars == <<tables, req, history, bounds>>

Idle == [pc |-> "idle", entry |-> NoEntry, source |-> NoSource, type |-> NoType, sub |-> NoSub,
         names |-> [k \in Kind |-> {}], at |-> 1,
         name |-> NoName, tag |-> NoTag, new |-> FALSE, stands |-> FALSE]
Places == {"idle", "validate", "write", "clear", "tag", "id", "link", "unlink", "drop",
           "droptag", "putsource", "updatesource", "dropsource", "putsub", "retype"}
Request ==
  [pc : Places, entry : Entry \union {NoEntry}, source : Source \union {NoSource},
   type : Type \union {NoType}, sub : Sub \union {NoSub}, names : [Kind -> SUBSET Name],
   at : 1..Len(Kinds), name : Name \union {NoName}, tag : TagId \union {NoTag},
   new : BOOLEAN, stands : BOOLEAN]
(* Where a request of an entry has begun to change its rows.               *)
Changing == {"clear", "tag", "id", "link", "unlink", "drop"}

Key(k, n) == IF k \in Slugged THEN Slug[n] ELSE n
KeysOf(k, ns) == {<<k, Key(k, n)>> : n \in ns}
AllKeys(names) == UNION {KeysOf(k, names[k]) : k \in Kind}
Holders(k, n) == {i \in TagId : tag[k][i] # NoName /\ Key(k, tag[k][i]) = Key(k, n)}
Linked(k, e) == {i \in TagId : <<k, e, i>> \in link}
(* The names a client sees: links joined with the tags.                    *)
Shown(e) == UNION {KeysOf(k, {tag[k][i] : i \in Linked(k, e)} \ {NoName}) : k \in Kind}

At(p, l) == req[p].pc = l
Done(p) == req' = [req EXCEPT ![p] = Idle]
Busy(e, P) == \E q \in P : req[q].entry = e /\ req[q].pc \in Changing
Blur(e) == IF e = NoEntry THEN blurred ELSE blurred \union {e}

Admit(p) == At(p, "idle") /\ begun < MaxRequests /\ begun' = begun + 1 /\ UNCHANGED faults
Start(p, r) == req' = [req EXCEPT ![p] = r]
Refused(p) == Done(p) /\ UNCHANGED <<tables, history>>

(* The migrations leave a source and a vocabulary.                         *)
Init ==
  /\ source \in [Source -> {"none", "on"}] /\ vocab \in [Sub -> Type]
  /\ media = [e \in Entry |-> NoRow] /\ tag = [k \in Kind |-> [i \in TagId |-> NoName]]
  /\ link = {} /\ usedE = {} /\ usedT = {}
  /\ req = [p \in Proc |-> Idle]
  /\ want = [e \in Entry |-> {}] /\ blurred = {} /\ touched = {} /\ stray = {} /\ known = {}
  /\ begun = 0 /\ faults = 0

----------------------------------------------------------------------------
Stored(e) == media[e] # NoRow

(* CreateMedia and UpdateMedia, up to their validation; an empty sub-type  *)
(* is valid without a look.                                                *)
Names == [Kind -> SUBSET Name]
Submit(p, e, s, t, u, ns) ==
  Start(p, [Idle EXCEPT !.pc = IF u = NoSub THEN "write" ELSE "validate", !.entry = e, !.source = s,
            !.type = t, !.sub = u, !.names = ns, !.new = media[e] = NoRow, !.stands = u = NoSub])

BeginCreate(p) ==
  /\ Admit(p)
  /\ \E e \in Entry \ usedE, s \in Source, t \in Type, u \in Sub \union {NoSub}, ns \in Names :
       usedE' = usedE \union {e} /\ Submit(p, e, s, t, u, ns)
  /\ UNCHANGED <<source, vocab, media, tag, link, usedT, history>>

BeginUpdate(p) ==
  /\ Admit(p)
  /\ \E e \in Entry, s \in Source, t \in Type, u \in Sub \union {NoSub}, ns \in Names :
       Stored(e) /\ Submit(p, e, s, t, u, ns)
  /\ UNCHANGED <<tables, history>>

ValidSubType(t, u) == vocab[u] = t

ValidateAnyType(p) ==  \* mutant: WHERE slug = ?1
  /\ At(p, "validate")
  /\ IF vocab[req[p].sub] # NoType
     THEN req' = [req EXCEPT ![p].pc = "write", ![p].stands = TRUE] ELSE Done(p)
  /\ UNCHANGED <<tables, history, bounds>>

Validate(p) ==
  /\ At(p, "validate")
  /\ IF ValidSubType(req[p].type, req[p].sub)
     THEN req' = [req EXCEPT ![p].pc = "write", ![p].stands = TRUE] ELSE Done(p)
  /\ UNCHANGED <<tables, history, bounds>>

Written(p) ==
  LET e == req[p].entry IN
  /\ want' = [want EXCEPT ![e] = AllKeys(req[p].names)]
  /\ blurred' = IF Busy(e, Proc \ {p}) THEN blurred \union {e} ELSE blurred \ {e}
  /\ touched' = {x \in touched : x[1] # e}
  /\ known' = IF req[p].stands THEN known \union {e} ELSE known \ {e}
  /\ req' = [req EXCEPT ![p].pc = "clear"]

(* INSERT, under an id of its own; the source is not looked up.            *)
InsertRow(p) ==
  LET e == req[p].entry  s == req[p].source IN
  /\ At(p, "write") /\ req[p].new
  /\ media' = [media EXCEPT ![e] = [source |-> s, type |-> req[p].type, sub |-> req[p].sub]]
  /\ stray' = IF source[s] = "none" \/ \E q \in Proc : At(q, "dropsource") /\ req[q].source = s
              THEN stray \union {e} ELSE stray
  /\ Written(p)
  /\ UNCHANGED <<source, vocab, tag, link, usedE, usedT, bounds>>

(* UPDATE leaves the source as it was, and may find no row; the links are  *)
(* rewritten all the same.                                                 *)
UpdateRow(p) ==
  LET e == req[p].entry IN
  /\ At(p, "write") /\ ~req[p].new
  /\ media' = IF media[e] = NoRow THEN media
              ELSE [media EXCEPT ![e].type = req[p].type, ![e].sub = req[p].sub]
  /\ Written(p)
  /\ UNCHANGED <<source, vocab, tag, link, usedE, usedT, stray, bounds>>

----------------------------------------------------------------------------
(* syncAllTaxonomies: kind after kind, the links are cleared and a tag     *)
(* found or made for each name.                                            *)
KindOf(p) == Kinds[req[p].at]
Onward(p, r) ==
  req' = [req EXCEPT ![p] =
            IF r.names[KindOf(p)] # {} THEN [r EXCEPT !.pc = "tag"]
            ELSE IF r.at < Len(Kinds) THEN [r EXCEPT !.pc = "clear", !.at = r.at + 1]
            ELSE Idle]

ClearLinks(p) ==
  /\ At(p, "clear")
  /\ link' = link \ {<<KindOf(p), req[p].entry, i>> : i \in TagId}
  /\ Onward(p, req[p])
  /\ UNCHANGED <<source, vocab, media, tag, usedE, usedT, history, bounds>>

(* INSERT OR IGNORE: a row with that slug, or name, is left as it is.      *)
AddTagReplaces(p) ==  \* mutant: INSERT OR REPLACE
  LET k == KindOf(p) IN
  /\ At(p, "tag")
  /\ \E n \in req[p].names[k], i \in TagId \ usedT :
       /\ tag' = [tag EXCEPT ![k] = [j \in TagId |-> IF j = i THEN n
                                      ELSE IF j \in Holders(k, n) THEN NoName ELSE tag[k][j]]]
       /\ usedT' = usedT \union {i}
       /\ req' = [req EXCEPT ![p].pc = "id", ![p].name = n, ![p].names[k] = @ \ {n}]
  /\ UNCHANGED <<source, vocab, media, link, usedE, history, bounds>>

AddTag(p) ==
  LET k == KindOf(p) IN
  /\ At(p, "tag")
  /\ \E n \in req[p].names[k] :
       /\ IF Holders(k, n) # {} THEN UNCHANGED <<tag, usedT>>
          ELSE \E i \in TagId \ usedT : tag' = [tag EXCEPT ![k][i] = n] /\ usedT' = usedT \union {i}
       /\ req' = [req EXCEPT ![p].pc = "id", ![p].name = n, ![p].names[k] = @ \ {n}]
  /\ UNCHANGED <<source, vocab, media, link, usedE, history, bounds>>

Abort(p) == Done(p) /\ blurred' = Blur(req[p].entry) /\ UNCHANGED <<want, touched, stray, known>>

(* scalarID: the tag may be gone again; CreateTaxonomy ends here.          *)
ReadTag(p) ==
  LET ids == Holders(KindOf(p), req[p].name) IN
  /\ At(p, "id")
  /\ \/ ids = {} /\ Abort(p)
     \/ ids # {} /\ req[p].entry = NoEntry /\ Done(p) /\ UNCHANGED history
     \/ /\ ids # {} /\ req[p].entry # NoEntry
        /\ \E i \in ids : req' = [req EXCEPT ![p].pc = "link", ![p].tag = i]
        /\ UNCHANGED history
  /\ UNCHANGED <<tables, bounds>>

(* The foreign keys, where enforced, refuse a link to what is gone.        *)
Link(p) ==
  LET k == KindOf(p)  e == req[p].entry  i == req[p].tag IN
  /\ At(p, "link")
  /\ IF ForeignKeys /\ (media[e] = NoRow \/ tag[k][i] = NoName)
     THEN Abort(p) /\ UNCHANGED link
     ELSE link' = link \union {<<k, e, i>>} /\ Onward(p, req[p]) /\ UNCHANGED history
  /\ UNCHANGED <<source, vocab, media, tag, usedE, usedT, bounds>>

----------------------------------------------------------------------------
(* DeleteMedia: the links kind by kind, then the row.                      *)
BeginDelete(p) ==
  /\ Admit(p)
  /\ \E e \in Entry : Stored(e) /\ Start(p, [Idle EXCEPT !.pc = "unlink", !.entry = e])
  /\ UNCHANGED <<tables, history>>

Unlink(p) ==
  /\ At(p, "unlink")
  /\ link' = link \ {<<KindOf(p), req[p].entry, i>> : i \in TagId}
  /\ req' = IF req[p].at < Len(Kinds) THEN [req EXCEPT ![p].at = @ + 1]
            ELSE [req EXCEPT ![p].pc = "drop"]
  /\ UNCHANGED <<source, vocab, media, tag, usedE, usedT, history, bounds>>

Drop(p) ==
  LET e == req[p].entry IN
  /\ At(p, "drop")
  /\ media' = [media EXCEPT ![e] = NoRow]
  /\ link' = IF ForeignKeys THEN {l \in link : l[2] # e} ELSE link
  /\ Done(p)
  /\ UNCHANGED <<source, vocab, tag, usedE, usedT, history, bounds>>

(* CreateTaxonomy: the upsert alone.                                       *)
BeginCreateTag(p) ==
  /\ Admit(p)
  /\ \E j \in 1..Len(Kinds), n \in Name :
       Start(p, [Idle EXCEPT !.pc = "tag", !.at = j, !.names[Kinds[j]] = {n}])
  /\ UNCHANGED <<tables, history>>

Touch(keys) ==
  touched' = touched \union (Entry \X keys) /\ UNCHANGED <<want, blurred, stray, known>>

(* UpdateTaxonomy is one statement; a key another tag has is refused.      *)
RenameUnkeyed(p) ==  \* mutant: no UNIQUE index
  /\ Admit(p)
  /\ \E k \in Kind, i \in TagId, n \in Name :
       /\ tag[k][i] # NoName
       /\ tag' = [tag EXCEPT ![k][i] = n] /\ Touch(KeysOf(k, {n, tag[k][i]}))
  /\ UNCHANGED <<source, vocab, media, link, usedE, usedT, req>>

Rename(p) ==
  /\ Admit(p)
  /\ \E k \in Kind, i \in TagId, n \in Name :
       /\ tag[k][i] # NoName
       /\ IF Holders(k, n) \subseteq {i}
          THEN tag' = [tag EXCEPT ![k][i] = n] /\ Touch(KeysOf(k, {n, tag[k][i]}))
          ELSE UNCHANGED <<tag, history>>
  /\ UNCHANGED <<source, vocab, media, link, usedE, usedT, req>>

(* DeleteTaxonomy: the links, then the tag.                                *)
DropTagLinks(p) ==
  /\ Admit(p)
  /\ \E j \in 1..Len(Kinds), i \in TagId :
       /\ tag[Kinds[j]][i] # NoName
       /\ link' = {l \in link : ~(l[1] = Kinds[j] /\ l[3] = i)}
       /\ Touch(KeysOf(Kinds[j], {tag[Kinds[j]][i]}))
       /\ Start(p, [Idle EXCEPT !.pc = "droptag", !.at = j, !.tag = i])
  /\ UNCHANGED <<source, vocab, media, tag, usedE, usedT>>

DropTag(p) ==
  LET k == KindOf(p)  i == req[p].tag IN
  /\ At(p, "droptag")
  /\ tag' = [tag EXCEPT ![k][i] = NoName]
  /\ link' = IF ForeignKeys THEN {l \in link : ~(l[1] = k /\ l[3] = i)} ELSE link
  /\ Touch(KeysOf(k, {tag[k][i]} \ {NoName})) /\ Done(p)
  /\ UNCHANGED <<source, vocab, media, usedE, usedT, bounds>>

----------------------------------------------------------------------------
(* Sources: each a read that decides, then a statement.                    *)
Exists(s) == source[s] # "none"
MediaOf(s) == {e \in Entry : media[e] # NoRow /\ media[e].source = s}

BeginCreateSource(p) ==
  /\ Admit(p)
  /\ \E s \in Source : ~Exists(s) /\ Start(p, [Idle EXCEPT !.pc = "putsource", !.source = s])
  /\ UNCHANGED <<tables, history>>

PutSource(p) ==
  /\ At(p, "putsource")
  /\ source' \in IF Exists(req[p].source) THEN {source}
                 ELSE {[source EXCEPT ![req[p].source] = v] : v \in {"on", "off"}}
  /\ Done(p)
  /\ UNCHANGED <<vocab, media, tag, link, usedE, usedT, history, bounds>>

BeginUpdateSource(p) ==
  /\ Admit(p)
  /\ \E s \in Source : Exists(s) /\ Start(p, [Idle EXCEPT !.pc = "updatesource", !.source = s])
  /\ UNCHANGED <<tables, history>>

UpdateSource(p) ==
  /\ At(p, "updatesource")
  /\ source' \in IF ~Exists(req[p].source) THEN {source}
                 ELSE {[source EXCEPT ![req[p].source] = v] : v \in {"on", "off"}}
  /\ Done(p)
  /\ UNCHANGED <<vocab, media, tag, link, usedE, usedT, history, bounds>>

CountIgnored(p) ==  \* mutant: the count is not looked at
  /\ Admit(p)
  /\ \E s \in Source : Exists(s) /\ Start(p, [Idle EXCEPT !.pc = "dropsource", !.source = s])
  /\ UNCHANGED <<tables, history>>

Count(p) ==
  /\ Admit(p)
  /\ \E s \in Source :
       /\ Exists(s) /\ MediaOf(s) = {}
       /\ Start(p, [Idle EXCEPT !.pc = "dropsource", !.source = s])
  /\ UNCHANGED <<tables, history>>

DropSource(p) ==
  /\ At(p, "dropsource")
  /\ source' = [source EXCEPT ![req[p].source] = "none"]
  /\ Done(p)
  /\ UNCHANGED <<vocab, media, tag, link, usedE, usedT, history, bounds>>

(* The vocabulary: who relied on the old entry can no longer be sure.      *)
Redefine(u, t, p) ==
  /\ vocab' = [vocab EXCEPT ![u] = t]
  /\ known' = {e \in known : media[e] = NoRow \/ media[e].sub # u}
  /\ req' = [q \in Proc |-> IF q = p THEN Idle
                            ELSE [req[q] EXCEPT !.stands = @ /\ req[q].sub # u]]
  /\ UNCHANGED <<source, media, tag, link, usedE, usedT, want, blurred, touched, stray>>

Found(u) == vocab[u] # NoType

BeginSub(p) ==
  /\ Admit(p)
  /\ \E u \in Sub, t \in Type :
       Start(p, [Idle EXCEPT !.pc = IF Found(u) THEN "retype" ELSE "putsub",
                             !.sub = u, !.type = t])
  /\ UNCHANGED <<tables, history>>

(* INSERT, refused by the primary key if the slug was taken meanwhile.     *)
PutSub(p) ==
  /\ At(p, "putsub")
  /\ IF ~Found(req[p].sub) THEN Redefine(req[p].sub, req[p].type, p) ELSE Refused(p)
  /\ UNCHANGED bounds

Retype(p) ==
  /\ At(p, "retype")
  /\ IF Found(req[p].sub) THEN Redefine(req[p].sub, req[p].type, p) ELSE Refused(p)
  /\ UNCHANGED bounds

DropSub(p) == Admit(p) /\ \E u \in Sub : Found(u) /\ Redefine(u, NoType, p)

(* A statement fails or the instance dies: what is done stays.             *)
Fail(p) ==
  /\ ~At(p, "idle") /\ faults < MaxFaults /\ faults' = faults + 1
  /\ blurred' = IF req[p].pc \in Changing THEN Blur(req[p].entry) ELSE blurred
  /\ Done(p)
  /\ UNCHANGED <<tables, want, touched, stray, known, begun>>

----------------------------------------------------------------------------
Next == \E p \in Proc :
  \/ BeginCreate(p) \/ BeginUpdate(p) \/ Validate(p) \/ InsertRow(p) \/ UpdateRow(p)
  \/ ClearLinks(p) \/ AddTag(p) \/ ReadTag(p) \/ Link(p)
  \/ BeginDelete(p) \/ Unlink(p) \/ Drop(p)
  \/ BeginCreateTag(p) \/ Rename(p) \/ DropTagLinks(p) \/ DropTag(p)
  \/ BeginCreateSource(p) \/ PutSource(p) \/ BeginUpdateSource(p) \/ UpdateSource(p)
  \/ Count(p) \/ DropSource(p)
  \/ BeginSub(p) \/ PutSub(p) \/ Retype(p) \/ DropSub(p)
  \/ Fail(p)

Spec == Init /\ [][Next]_vars

----------------------------------------------------------------------------
(* Types, and the UNIQUE indexes: one tag per key and kind.                *)
TypeOK ==
  /\ source \in [Source -> {"none", "on", "off"}] /\ vocab \in [Sub -> Type \union {NoType}]
  /\ media \in [Entry -> Row \union {NoRow}]
  /\ tag \in [Kind -> [TagId -> Name \union {NoName}]]
  /\ \A k \in Kind, i, j \in TagId :
       tag[k][i] # NoName /\ tag[k][j] # NoName /\ Key(k, tag[k][i]) = Key(k, tag[k][j]) => i = j
  /\ link \subseteq Kind \X Entry \X TagId /\ usedE \subseteq Entry /\ usedT \subseteq TagId
  /\ req \in [Proc -> Request]
  /\ want \in [Entry -> SUBSET UNION {KeysOf(k, Name) : k \in Kind}]
  /\ blurred \union stray \union known \subseteq Entry
  /\ begun \in 0..MaxRequests /\ faults \in 0..MaxFaults

(* A client sees on an entry the names it was last given, whatever other   *)
(* entries and tags are created, renamed and deleted at the same time and  *)
(* whoever makes a tag first (syncTaxonomy, upsertTag): unless edits of    *)
(* that entry overlapped or failed, and but for keys an admin touched.     *)
NamesAsAsked ==
  \A e \in Entry \ blurred : media[e] # NoRow /\ ~Busy(e, Proc) =>
    \A x \in Shown(e) \union want[e] :
      <<e, x>> \in touched \/ (x \in Shown(e) /\ x \in want[e])

(* An entry's source exists (SourceService.Delete refuses to orphan), but  *)
(* for entries inserted for no source or while theirs was being deleted.   *)
OrphanOnlyByRace ==
  \A e \in Entry \ stray : media[e] # NoRow => source[media[e].source] # "none"

(* An entry's sub-type belongs to its type (validateSubType) until the     *)
(* vocabulary is changed under it, or between the check and the write.     *)
SubTypesKnown ==
  \A e \in known : media[e] # NoRow /\ media[e].sub # NoSub => vocab[media[e].sub] = media[e].type
=============================================================================
