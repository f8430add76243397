--------------------------- MODULE CatalogProofs ---------------------------
(***************************************************************************)
(* What the catalog promises, for any number of entries, tags, sources,    *)
(* sub-types, requests, readers' pages and faults: to those who edit it    *)
(* (Catalog), to those who read it while it is edited (Browse), and in the *)
(* answers made from single values (Answers).                              *)
(***************************************************************************)
EXTENDS Catalog, Browse, FiniteSetTheorems, TLAPS

----------------------------------------------------------------------------
(* Editing the catalog.                                                    *)

(* What a request carries, by its place.                                   *)
Carries(r) ==
  /\ r.pc \in {"validate", "write"} =>
       r.entry \in Entry /\ r.source \in Source /\ r.type \in Type /\ r.at = 1
  /\ r.pc \in {"clear", "link", "unlink", "drop"} => r.entry \in Entry
  /\ r.pc \in {"validate", "putsub", "retype"} => r.sub \in Sub
  /\ r.pc \in {"putsub", "retype"} => r.type \in Type
  /\ r.pc \in {"id", "link"} => r.name \in Name
  /\ r.pc \in {"link", "droptag"} => r.tag \in TagId
  /\ r.pc \in {"putsource", "updatesource", "dropsource"} => r.source \in Source
Carried == \A p \in Proc : Carries(req[p])

(* Only ids drawn before name a tag.                                       *)
Drawn ==
  /\ \A k \in Kind, i \in TagId : tag[k][i] # NoName => i \in usedT
  /\ \A l \in link : l[3] \in usedT
  /\ \A p \in Proc : req[p].pc = "link" => req[p].tag \in usedT

(* A source that is on its way out has the entries it was counted without. *)
Counted ==
  \A p \in Proc : At(p, "dropsource") =>
    \A e \in Entry \ stray : media[e] # NoRow => media[e].source # req[p].source

(* A sub-type that stands belongs to the type it was checked for.          *)
Standing ==
  \A p \in Proc : req[p].stands =>
    req[p].sub = NoSub \/ (req[p].sub \in Sub /\ vocab[req[p].sub] = req[p].type)

(* Requests that rewrite the links of an entry, or delete it.              *)
Editing(p, e) == req[p].entry = e /\ req[p].pc \in {"clear", "tag", "id", "link"}
Deleting(p, e) == req[p].entry = e /\ req[p].pc \in {"unlink", "drop"}
Steady(e) ==
  e \in Entry \ blurred /\ media[e] # NoRow /\ \A p \in Proc : ~Deleting(p, e)

(* The key of n is asked for on e, is shown on it, was touched since.      *)
Asks(e, k, n) == <<k, Key(k, n)>> \in want[e]
Sees(e, k, n) == Linked(k, e) \intersect Holders(k, n) # {}
Excused(e, k, n) == <<e, <<k, Key(k, n)>>>> \in touched

(* The names of a kind an edit has still to link.                          *)
Left(p, k) ==
  req[p].names[k] \union
    (IF k = KindOf(p) /\ req[p].pc \in {"id", "link"} THEN {req[p].name} ELSE {})
LeftOf(p, k, n) == \E m \in Left(p, k) : Key(k, m) = Key(k, n)

(* How far an edit of e has come with the kind of place j.                 *)
Ahead(p, e, j, n) == Asks(e, Kinds[j], n) <=> LeftOf(p, Kinds[j], n)
Under(p, e, j, n) ==
  /\ LeftOf(p, Kinds[j], n) => Asks(e, Kinds[j], n)
  /\ \/ Excused(e, Kinds[j], n)
     \/ /\ Sees(e, Kinds[j], n) => Asks(e, Kinds[j], n)
        /\ Asks(e, Kinds[j], n) => Sees(e, Kinds[j], n) \/ LeftOf(p, Kinds[j], n)
Behind(e, k, n) == Excused(e, k, n) \/ (Sees(e, k, n) <=> Asks(e, k, n))

Progress(p, e) ==
  \A j \in 1..Len(Kinds), n \in Name :
    /\ j < req[p].at => Behind(e, Kinds[j], n)
    /\ j = req[p].at /\ req[p].pc # "clear" => Under(p, e, j, n)
    /\ j > req[p].at \/ (j = req[p].at /\ req[p].pc = "clear") => Ahead(p, e, j, n)

(* The tag an edit is about to link is the one it read, unless touched.    *)
Aimed(p, e) ==
  LET k == KindOf(p)  i == req[p].tag  n == req[p].name IN
  req[p].pc = "link" =>
    \/ tag[k][i] # NoName /\ Key(k, tag[k][i]) = Key(k, n)
    \/ Excused(e, k, n) /\ (tag[k][i] # NoName => Excused(e, k, tag[k][i]))

Track(e) ==
  /\ \A p, q \in Proc : Editing(p, e) /\ Editing(q, e) => p = q
  /\ \A p \in Proc : Editing(p, e) => Progress(p, e) /\ Aimed(p, e)
  /\ (\A p \in Proc : ~Editing(p, e)) => \A k \in Kind, n \in Name : Behind(e, k, n)
Tracked == \A e \in Entry : Steady(e) => Track(e)

IInv ==
  TypeOK /\ Carried /\ Drawn /\ OrphanOnlyByRace /\ Counted /\ SubTypesKnown /\ Standing /\ Tracked

(* The kinds, by their places.                                             *)
LEMMA KindFacts ==
  /\ Len(Kinds) \in Nat /\ 1 \in 1..Len(Kinds)
  /\ \A j \in 1..Len(Kinds) : Kinds[j] \in Kind
  /\ \A k \in Kind : \E j \in 1..Len(Kinds) : Kinds[j] = k
  /\ \A i, j \in 1..Len(Kinds) : Kinds[i] = Kinds[j] => i = j
BY KindsAssumption DEF Kind

(* Requests are built from the idle one, or from one under way.            *)
LEMMA IdleTyped == Idle \in Request
BY KindFacts DEF Idle, Request, Places

LEMMA SubmitTyped ==
  ASSUME NEW e \in Entry, NEW s \in Source, NEW t \in Type, NEW u \in Sub \union {NoSub},
         NEW ns \in Names, NEW l \in Places, NEW new \in BOOLEAN, NEW b \in BOOLEAN
  PROVE  [Idle EXCEPT !.pc = l, !.entry = e, !.source = s, !.type = t, !.sub = u, !.names = ns,
            !.new = new, !.stands = b] \in Request
BY KindFacts DEF Idle, Request, Names

LEMMA MovedTyped ==
  ASSUME NEW r \in Request, NEW l \in Places
  PROVE  /\ [r EXCEPT !.pc = l] \in Request
         /\ [r EXCEPT !.pc = l, !.stands = TRUE] \in Request
         /\ \A i \in TagId : [r EXCEPT !.pc = l, !.tag = i] \in Request
         /\ r.at < Len(Kinds) => /\ [r EXCEPT !.at = r.at + 1] \in Request
                                 /\ [r EXCEPT !.pc = l, !.at = r.at + 1] \in Request
         /\ \A k \in Kind, n \in Name :
              [r EXCEPT !.pc = l, !.name = n, !.names[k] = @ \ {n}] \in Request
<1>1. r.at \in 1..Len(Kinds)
  BY DEF Request
<1>2. r.at < Len(Kinds) => r.at + 1 \in 1..Len(Kinds)
  BY <1>1, KindFacts
<1>3. [r EXCEPT !.pc = l] \in Request
  BY DEF Request
<1>4. [r EXCEPT !.pc = l, !.stands = TRUE] \in Request
  BY DEF Request
<1>5. \A i \in TagId : [r EXCEPT !.pc = l, !.tag = i] \in Request
  BY DEF Request
<1>6. r.at < Len(Kinds) => /\ [r EXCEPT !.at = r.at + 1] \in Request
                          /\ [r EXCEPT !.pc = l, !.at = r.at + 1] \in Request
  BY <1>2 DEF Request
<1>7. \A k \in Kind, n \in Name : [r EXCEPT !.pc = l, !.name = n, !.names[k] = @ \ {n}] \in Request
  BY DEF Request
<1> QED
  BY <1>3, <1>4, <1>5, <1>6, <1>7

LEMMA BegunTyped ==
  ASSUME NEW l \in Places
  PROVE  /\ \A e \in Entry : [Idle EXCEPT !.pc = l, !.entry = e] \in Request
         /\ \A s \in Source : [Idle EXCEPT !.pc = l, !.source = s] \in Request
         /\ \A u \in Sub, t \in Type : [Idle EXCEPT !.pc = l, !.sub = u, !.type = t] \in Request
         /\ \A j \in 1..Len(Kinds), n \in Name :
              [Idle EXCEPT !.pc = l, !.at = j, !.names[Kinds[j]] = {n}] \in Request
         /\ \A j \in 1..Len(Kinds), i \in TagId :
              [Idle EXCEPT !.pc = l, !.at = j, !.tag = i] \in Request
<1>1. \A e \in Entry : [Idle EXCEPT !.pc = l, !.entry = e] \in Request
  BY IdleTyped DEF Request
<1>2. \A s \in Source : [Idle EXCEPT !.pc = l, !.source = s] \in Request
  BY IdleTyped DEF Request
<1>3. \A u \in Sub, t \in Type : [Idle EXCEPT !.pc = l, !.sub = u, !.type = t] \in Request
  BY IdleTyped DEF Request
<1>4. \A j \in 1..Len(Kinds), n \in Name :
        [Idle EXCEPT !.pc = l, !.at = j, !.names[Kinds[j]] = {n}] \in Request
  <2> SUFFICES ASSUME NEW j \in 1..Len(Kinds), NEW n \in Name
               PROVE  [Idle EXCEPT !.pc = l, !.at = j, !.names[Kinds[j]] = {n}] \in Request
    OBVIOUS
  <2>1. PICK k \in Kind : k = Kinds[j]
    BY KindFacts
  <2>2. PICK r \in Request : r = Idle
    BY IdleTyped
  <2>3. PICK ns : ns = [r.names EXCEPT ![k] = {n}]
    OBVIOUS
  <2>4. ns \in [Kind -> SUBSET Name]
    BY <2>3 DEF Request
  <2>5. [r EXCEPT !.pc = l, !.at = j, !.names = ns] \in Request
    BY <2>4 DEF Request
  <2>6. [r EXCEPT !.pc = l, !.at = j, !.names = ns]
          = [r EXCEPT !.pc = l, !.at = j, !.names[k] = {n}]
    BY <2>3
  <2> QED
    BY <2>1, <2>2, <2>5, <2>6, Zenon
<1>5. \A j \in 1..Len(Kinds), i \in TagId : [Idle EXCEPT !.pc = l, !.at = j, !.tag = i] \in Request
  BY IdleTyped DEF Request
<1> QED
  BY <1>1, <1>2, <1>3, <1>4, <1>5

LEMMA PlaceFacts ==
  /\ "idle" \in Places /\ "validate" \in Places /\ "write" \in Places /\ "clear" \in Places
  /\ "tag" \in Places /\ "id" \in Places /\ "link" \in Places /\ "unlink" \in Places
  /\ "drop" \in Places /\ "droptag" \in Places /\ "putsource" \in Places
  /\ "updatesource" \in Places /\ "dropsource" \in Places /\ "putsub" \in Places
  /\ "retype" \in Places
BY DEF Places

(* What the steps put in place of a request is a request.                  *)
LEMMA OneMoved ==
  ASSUME req \in [Proc -> Request], NEW p \in Proc, NEW r \in Request,
         req' = [req EXCEPT ![p] = r]
  PROVE  req' \in [Proc -> Request]
OBVIOUS

LEMMA Submitted ==
  ASSUME req \in [Proc -> Request], NEW p \in Proc,
         NEW e \in Entry, NEW s \in Source, NEW t \in Type, NEW u \in Sub \union {NoSub},
         NEW ns \in Names, Submit(p, e, s, t, u, ns)
  PROVE  req' \in [Proc -> Request]
<1>1. PICK l \in Places : l = IF u = NoSub THEN "write" ELSE "validate"
  BY PlaceFacts
<1>2. PICK new \in BOOLEAN, b \in BOOLEAN : new = (media[e] = NoRow) /\ b = (u = NoSub)
  OBVIOUS
<1>3. PICK r \in Request :
        r = [Idle EXCEPT !.pc = l, !.entry = e, !.source = s, !.type = t, !.sub = u, !.names = ns,
               !.new = new, !.stands = b]
  BY SubmitTyped, ZenonT(40)
<1>4. req' = [req EXCEPT ![p] = r]
  BY <1>1, <1>2, <1>3 DEF Submit, Start
<1> QED
  BY <1>4, OneMoved

LEMMA Redefined ==
  ASSUME req \in [Proc -> Request], NEW p \in Proc, NEW u, NEW t, Redefine(u, t, p)
  PROVE  /\ req' \in [Proc -> Request] /\ req'[p] = Idle
         /\ \A q \in Proc \ {p} :
              /\ req'[q].pc = req[q].pc /\ req'[q].source = req[q].source
              /\ req'[q].sub = req[q].sub /\ req'[q].type = req[q].type
              /\ req'[q].tag = req[q].tag
              /\ req'[q].stands => req[q].stands /\ req[q].sub # u
<1> DEFINE R(q) == [req[q] EXCEPT !.stands = req[q].stands /\ req[q].sub # u]
<1>1. ASSUME NEW q \in Proc
      PROVE  /\ R(q) \in Request /\ R(q).pc = req[q].pc /\ R(q).source = req[q].source
             /\ R(q).sub = req[q].sub /\ R(q).type = req[q].type /\ R(q).tag = req[q].tag
             /\ R(q).stands => req[q].stands /\ req[q].sub # u
  <2>1. PICK b \in BOOLEAN : b = (req[q].stands /\ req[q].sub # u)
    OBVIOUS
  <2>2. PICK r \in Request : r = req[q]
    OBVIOUS
  <2>3. R(q) = [r EXCEPT !.stands = b]
    BY <2>1, <2>2
  <2>4. /\ [r EXCEPT !.stands = b] \in Request /\ [r EXCEPT !.stands = b].stands = b
        /\ [r EXCEPT !.stands = b].pc = r.pc /\ [r EXCEPT !.stands = b].source = r.source
        /\ [r EXCEPT !.stands = b].sub = r.sub /\ [r EXCEPT !.stands = b].type = r.type
        /\ [r EXCEPT !.stands = b].tag = r.tag
    BY DEF Request
  <2> HIDE DEF R
  <2> QED
    BY <2>1, <2>2, <2>3, <2>4
<1>2. req' = [q \in Proc |-> IF q = p THEN Idle ELSE R(q)]
  BY DEF Redefine
<1> HIDE DEF R
<1>4. req' \in [Proc -> Request]
  BY <1>1, <1>2, IdleTyped
<1> QED
  BY <1>1, <1>2, <1>4

LEMMA RequestsTyped ==
  ASSUME TypeOK, [Next]_vars
  PROVE  req' \in [Proc -> Request]
<1>0. req \in [Proc -> Request] /\ \A p \in Proc : req[p] \in Request
  BY DEF TypeOK
<1>a. \A p \in Proc : KindOf(p) \in Kind
  BY <1>0, KindFacts DEF KindOf, Request
<1>d. ASSUME NEW p \in Proc, Done(p) PROVE req' \in [Proc -> Request]
  BY <1>0, <1>d, IdleTyped, OneMoved DEF Done
<1>m. ASSUME NEW p \in Proc, NEW l \in Places, req' = [req EXCEPT ![p].pc = l]
      PROVE  req' \in [Proc -> Request]
  <2>1. [req[p] EXCEPT !.pc = l] \in Request
    BY <1>0, MovedTyped, Zenon
  <2>2. req' = [req EXCEPT ![p] = [req[p] EXCEPT !.pc = l]]
    BY <1>m
  <2> QED
    BY <1>0, <2>1, <2>2, OneMoved
<1>o. ASSUME NEW p \in Proc, Onward(p, req[p]) PROVE req' \in [Proc -> Request]
  <2>1. PICK r \in Request : r = req[p]
    BY <1>0
  <2>2. /\ [r EXCEPT !.pc = "tag"] \in Request
        /\ r.at < Len(Kinds) => [r EXCEPT !.pc = "clear", !.at = r.at + 1] \in Request
    BY MovedTyped, PlaceFacts, Zenon
  <2>3. PICK x : x = IF r.names[KindOf(p)] # {} THEN [r EXCEPT !.pc = "tag"]
                     ELSE IF r.at < Len(Kinds) THEN [r EXCEPT !.pc = "clear", !.at = r.at + 1]
                     ELSE Idle
    OBVIOUS
  <2>4. x \in Request
    BY <2>2, <2>3, IdleTyped
  <2>5. req' = [req EXCEPT ![p] = x]
    BY <1>o, <2>1, <2>3 DEF Onward
  <2> QED
    BY <1>0, <2>4, <2>5, OneMoved
<1>1. ASSUME NEW p \in Proc, BeginCreate(p) \/ BeginUpdate(p) PROVE req' \in [Proc -> Request]
  <2>1. PICK e \in Entry, s \in Source, t \in Type, u \in Sub \union {NoSub}, ns \in Names :
          Submit(p, e, s, t, u, ns)
    BY <1>1 DEF BeginCreate, BeginUpdate
  <2> QED
    BY <1>0, <2>1, Submitted
<1>3. ASSUME NEW p \in Proc, Validate(p) PROVE req' \in [Proc -> Request]
  <2>1. CASE Done(p)
    BY <1>d, <2>1
  <2>2. CASE req' = [req EXCEPT ![p].pc = "write", ![p].stands = TRUE]
    <3>1. [req[p] EXCEPT !.pc = "write", !.stands = TRUE] \in Request
      BY <1>0, MovedTyped, PlaceFacts, Zenon
    <3>2. req' = [req EXCEPT ![p] = [req[p] EXCEPT !.pc = "write", !.stands = TRUE]]
      BY <2>2
    <3> QED
      BY <1>0, <3>1, <3>2, OneMoved
  <2> QED
    BY <1>3, <2>1, <2>2 DEF Validate
<1>4. ASSUME NEW p \in Proc, InsertRow(p) \/ UpdateRow(p) PROVE req' \in [Proc -> Request]
  <2>1. req' = [req EXCEPT ![p].pc = "clear"]
    BY <1>4 DEF InsertRow, UpdateRow, Written
  <2> QED
    BY <1>m, <2>1, PlaceFacts
<1>6. ASSUME NEW p \in Proc, ClearLinks(p) PROVE req' \in [Proc -> Request]
  BY <1>6, <1>o DEF ClearLinks
<1>7. ASSUME NEW p \in Proc, AddTag(p) PROVE req' \in [Proc -> Request]
  <2>1. PICK n \in req[p].names[KindOf(p)] :
          req' = [req EXCEPT ![p].pc = "id", ![p].name = n, ![p].names[KindOf(p)] = @ \ {n}]
    BY <1>7 DEF AddTag
  <2>5. req[p].names \in [Kind -> SUBSET Name]
    BY <1>0 DEF Request
  <2>2. n \in Name
    BY <1>a, <2>5
  <2>3. [req[p] EXCEPT !.pc = "id", !.name = n, !.names[KindOf(p)] = @ \ {n}] \in Request
    BY <1>0, <1>a, <2>2, MovedTyped, PlaceFacts, Zenon
  <2>4. req' = [req EXCEPT ![p] =
                  [req[p] EXCEPT !.pc = "id", !.name = n, !.names[KindOf(p)] = @ \ {n}]]
    BY <2>1
  <2> QED
    BY <1>0, <2>3, <2>4, OneMoved
<1>8. ASSUME NEW p \in Proc, ReadTag(p) PROVE req' \in [Proc -> Request]
  <2>1. CASE Done(p)
    BY <1>d, <2>1
  <2>2. CASE \E i \in TagId : req' = [req EXCEPT ![p].pc = "link", ![p].tag = i]
    <3>1. PICK i \in TagId : req' = [req EXCEPT ![p].pc = "link", ![p].tag = i]
      BY <2>2
    <3>2. [req[p] EXCEPT !.pc = "link", !.tag = i] \in Request
      BY <1>0, MovedTyped, PlaceFacts, Zenon
    <3>3. req' = [req EXCEPT ![p] = [req[p] EXCEPT !.pc = "link", !.tag = i]]
      BY <3>1
    <3> QED
      BY <1>0, <3>2, <3>3, OneMoved
  <2> QED
    BY <1>8, <2>1, <2>2 DEF ReadTag, Abort, Holders
<1>9. ASSUME NEW p \in Proc, Link(p) PROVE req' \in [Proc -> Request]
  BY <1>9, <1>d, <1>o DEF Link, Abort
<1>11. ASSUME NEW p \in Proc, Unlink(p) PROVE req' \in [Proc -> Request]
  <2>1. CASE req[p].at < Len(Kinds)
    <3>1. [req[p] EXCEPT !.at = req[p].at + 1] \in Request
      BY <1>0, <2>1, MovedTyped, PlaceFacts, Zenon
    <3>2. req' = [req EXCEPT ![p] = [req[p] EXCEPT !.at = req[p].at + 1]]
      BY <1>11, <2>1 DEF Unlink
    <3> QED
      BY <1>0, <3>1, <3>2, OneMoved
  <2>2. CASE ~(req[p].at < Len(Kinds))
    <3>1. req' = [req EXCEPT ![p].pc = "drop"]
      BY <1>11, <2>2 DEF Unlink
    <3> QED
      BY <1>m, <3>1, PlaceFacts
  <2> QED
    BY <2>1, <2>2
<1>12. ASSUME NEW p \in Proc,
              \/ Drop(p) \/ DropTag(p) \/ PutSource(p) \/ UpdateSource(p) \/ DropSource(p) \/ Fail(p)
       PROVE  req' \in [Proc -> Request]
  <2>1. Done(p)
    BY <1>12 DEF Drop, DropTag, PutSource, UpdateSource, DropSource, Fail
  <2> QED
    BY <1>d, <2>1
<1>13. ASSUME NEW p \in Proc,
              \/ BeginDelete(p) \/ BeginCreateSource(p) \/ BeginUpdateSource(p) \/ Count(p)
              \/ BeginCreateTag(p) \/ DropTagLinks(p) \/ BeginSub(p)
       PROVE  req' \in [Proc -> Request]
  <2>1. \E r \in Request : Start(p, r)
    <3>1. CASE BeginDelete(p)
      <4>1. PICK e \in Entry : Start(p, [Idle EXCEPT !.pc = "unlink", !.entry = e])
        BY <3>1 DEF BeginDelete
      <4> QED
        BY <4>1, BegunTyped, PlaceFacts, Zenon
    <3>2. CASE BeginCreateSource(p) \/ BeginUpdateSource(p) \/ Count(p)
      <4>1. PICK s \in Source, l \in {"putsource", "updatesource", "dropsource"} :
              Start(p, [Idle EXCEPT !.pc = l, !.source = s])
        BY <3>2 DEF BeginCreateSource, BeginUpdateSource, Count
      <4>2. l \in Places
        BY PlaceFacts
      <4> QED
        BY <4>1, <4>2, BegunTyped, ZenonT(40)
    <3>3. CASE BeginCreateTag(p)
      <4>1. PICK j \in 1..Len(Kinds), n \in Name :
              Start(p, [Idle EXCEPT !.pc = "tag", !.at = j, !.names[Kinds[j]] = {n}])
        BY <3>3 DEF BeginCreateTag
      <4> QED
        BY <4>1, BegunTyped, PlaceFacts, Zenon
    <3>4. CASE DropTagLinks(p)
      <4>1. PICK j \in 1..Len(Kinds), i \in TagId :
              Start(p, [Idle EXCEPT !.pc = "droptag", !.at = j, !.tag = i])
        BY <3>4 DEF DropTagLinks
      <4> QED
        BY <4>1, BegunTyped, PlaceFacts, Zenon
    <3>5. CASE BeginSub(p)
      <4>1. PICK u \in Sub, t \in Type :
              Start(p, [Idle EXCEPT !.pc = IF Found(u) THEN "retype" ELSE "putsub",
                                    !.sub = u, !.type = t])
        BY <3>5 DEF BeginSub
      <4>2. PICK l \in Places : l = IF Found(u) THEN "retype" ELSE "putsub"
        BY PlaceFacts
      <4> QED
        BY <4>1, <4>2, BegunTyped, ZenonT(40)
    <3> QED
      BY <1>13, <3>1, <3>2, <3>3, <3>4, <3>5
  <2> QED
    BY <1>0, <2>1, OneMoved DEF Start
<1>14. ASSUME NEW p \in Proc, Rename(p) PROVE req' \in [Proc -> Request]
  BY <1>0, <1>14 DEF Rename
<1>24. ASSUME NEW p \in Proc, PutSub(p) \/ Retype(p) \/ DropSub(p) PROVE req' \in [Proc -> Request]
  <2>1. Done(p) \/ \E u, t : Redefine(u, t, p)
    BY <1>24 DEF PutSub, Retype, Refused, DropSub
  <2> QED
    BY <1>0, <1>d, <2>1, Redefined
<1>28. CASE UNCHANGED vars
  BY <1>28, <1>0 DEF vars
<1> QED
  BY <1>1, <1>3, <1>4, <1>6, <1>7, <1>8, <1>9, <1>11, <1>12, <1>13, <1>14, <1>24, <1>28 DEF Next

(* Names have keys of their kinds.                                         *)
LEMMA KeysTyped ==
  ASSUME NEW names \in Names
  PROVE  AllKeys(names) \in SUBSET UNION {KeysOf(k, Name) : k \in Kind}
BY DEF AllKeys, KeysOf, Names

(* A tag that is made, or renamed, has a key that no other has.            *)
Unique(tg) ==
  \A k \in Kind, i, j \in TagId :
    tg[k][i] # NoName /\ tg[k][j] # NoName /\ Key(k, tg[k][i]) = Key(k, tg[k][j]) => i = j

LEMMA StaysUnique ==
  ASSUME tag \in [Kind -> [TagId -> Name \union {NoName}]], Unique(tag),
         NEW k \in Kind, NEW i \in TagId, NEW n \in Name, Holders(k, n) \subseteq {i},
         NEW tg, tg = [tag EXCEPT ![k][i] = n]
  PROVE  tg \in [Kind -> [TagId -> Name \union {NoName}]] /\ Unique(tg)
<1>1. tg \in [Kind -> [TagId -> Name \union {NoName}]]
  OBVIOUS
<1>2. \A l \in Kind, j \in TagId : tg[l][j] = IF l = k /\ j = i THEN n ELSE tag[l][j]
  OBVIOUS
<1>3. \A j \in TagId : tag[k][j] # NoName /\ Key(k, tag[k][j]) = Key(k, n) => j = i
  BY DEF Holders
<1>4. Unique(tg)
  BY <1>2, <1>3 DEF Unique
<1> QED
  BY <1>1, <1>4

(* The tables and the history keep their types, and keys stay unique.      *)
LEMMA TypeStep ==
  ASSUME TypeOK, Carried, [Next]_vars
  PROVE  TypeOK'
<1>0. /\ req \in [Proc -> Request] /\ (\A p \in Proc : req[p] \in Request /\ Carries(req[p]))
      /\ \A p \in Proc : KindOf(p) \in Kind
  BY KindFacts DEF TypeOK, Carried, KindOf, Request
<1>t. req' \in [Proc -> Request]
  BY RequestsTyped
<1> USE ParameterAssumption, NullAssumption
<1>r. ASSUME NEW p \in Proc, NEW u \in Sub, NEW t \in Type \union {NoType}, Redefine(u, t, p),
             begun' \in 0..MaxRequests, faults' \in 0..MaxFaults
      PROVE  TypeOK'
  BY <1>r, <1>t DEF Redefine, TypeOK
<1>1. ASSUME NEW p \in Proc, BeginCreate(p) PROVE TypeOK'
  <2>1. PICK e \in Entry \ usedE, s \in Source, t \in Type, u \in Sub \union {NoSub}, ns \in Names :
          usedE' = usedE \union {e} /\ Submit(p, e, s, t, u, ns)
    BY <1>1 DEF BeginCreate
  <2> QED
    BY <1>1, <2>1, <1>0, <1>t
    DEF BeginCreate, Submit, Start, TypeOK, At, Admit, Carries, tables, history, bounds
<1>2. ASSUME NEW p \in Proc, BeginUpdate(p) PROVE TypeOK'
  <2>1. PICK e \in Entry, s \in Source, t \in Type, u \in Sub \union {NoSub}, ns \in Names :
          Stored(e) /\ Submit(p, e, s, t, u, ns)
    BY <1>2 DEF BeginUpdate
  <2> QED
    BY <1>2, <2>1, <1>0, <1>t
    DEF BeginUpdate, Submit, Start, TypeOK, At, Admit, Carries, tables, history, bounds
<1>3. ASSUME NEW p \in Proc, Validate(p) PROVE TypeOK'
  BY <1>3, <1>0, <1>t DEF Validate, Done, TypeOK, At, Admit, Carries, tables, history, bounds
<1>4. ASSUME NEW p \in Proc, InsertRow(p) PROVE TypeOK'
  <2> DEFINE e == req[p].entry
  <2>1. e \in Entry /\ req[p].names \in Names /\ req[p].sub \in Sub \union {NoSub}
        /\ req[p].type \in Type /\ req[p].source \in Source
    BY <1>0, <1>4 DEF InsertRow, At, Carries, Request, Names
  <2>2. media' \in [Entry -> Row \union {NoRow}]
    BY <1>4, <2>1 DEF InsertRow, TypeOK, Row
  <2>3. want' \in [Entry -> SUBSET UNION {KeysOf(k, Name) : k \in Kind}]
    <3>1. AllKeys(req[p].names) \in SUBSET UNION {KeysOf(k, Name) : k \in Kind}
      BY <2>1, KeysTyped
    <3>2. want' = [want EXCEPT ![e] = AllKeys(req[p].names)]
      BY <1>4 DEF InsertRow, Written
    <3> QED
      BY <2>1, <3>1, <3>2 DEF TypeOK
  <2>4. blurred' \union stray' \union known' \subseteq Entry
    BY <1>4, <2>1 DEF InsertRow, Written, TypeOK
  <2> QED
    BY <1>4, <1>t, <2>2, <2>3, <2>4 DEF InsertRow, TypeOK, bounds
<1>5. ASSUME NEW p \in Proc, UpdateRow(p) PROVE TypeOK'
  <2> DEFINE e == req[p].entry
  <2>1. e \in Entry /\ req[p].names \in Names /\ req[p].sub \in Sub \union {NoSub}
        /\ req[p].type \in Type /\ req[p].source \in Source
    BY <1>0, <1>5 DEF UpdateRow, At, Carries, Request, Names
  <2>2. media' \in [Entry -> Row \union {NoRow}]
    BY <1>5, <2>1 DEF UpdateRow, TypeOK, Row
  <2>3. want' \in [Entry -> SUBSET UNION {KeysOf(k, Name) : k \in Kind}]
    <3>1. AllKeys(req[p].names) \in SUBSET UNION {KeysOf(k, Name) : k \in Kind}
      BY <2>1, KeysTyped
    <3>2. want' = [want EXCEPT ![e] = AllKeys(req[p].names)]
      BY <1>5 DEF UpdateRow, Written
    <3> QED
      BY <2>1, <3>1, <3>2 DEF TypeOK
  <2>4. blurred' \union stray' \union known' \subseteq Entry
    BY <1>5, <2>1 DEF UpdateRow, Written, TypeOK
  <2> QED
    BY <1>5, <1>t, <2>2, <2>3, <2>4 DEF UpdateRow, TypeOK, bounds
<1>6. ASSUME NEW p \in Proc, ClearLinks(p) PROVE TypeOK'
  BY <1>6, <1>0, <1>t DEF ClearLinks, Onward, TypeOK, At, Admit, Carries, tables, history, bounds
<1>7. ASSUME NEW p \in Proc, AddTag(p) PROVE TypeOK'
  <2>1. UNCHANGED <<source, vocab, media, link, usedE, history, bounds>>
    BY <1>7 DEF AddTag
  <2>2. CASE UNCHANGED <<tag, usedT>>
    BY <1>t, <2>1, <2>2 DEF TypeOK, history, bounds
  <2>3. CASE ~UNCHANGED <<tag, usedT>>
    <3>1. PICK n \in req[p].names[KindOf(p)], i \in TagId \ usedT :
            /\ Holders(KindOf(p), n) = {}
            /\ tag' = [tag EXCEPT ![KindOf(p)][i] = n] /\ usedT' = usedT \union {i}
      BY <1>7, <2>3 DEF AddTag
    <3>2. n \in Name
      BY <1>0 DEF Request
    <3>3. tag' \in [Kind -> [TagId -> Name \union {NoName}]] /\ Unique(tag')
      <4>1. tag \in [Kind -> [TagId -> Name \union {NoName}]] /\ Unique(tag)
        BY DEF TypeOK, Unique
      <4>2. Holders(KindOf(p), n) \subseteq {i}
        BY <3>1
      <4> QED
        BY <1>0, <3>1, <3>2, <4>1, <4>2, StaysUnique
    <3> QED
      BY <1>t, <2>1, <3>1, <3>3 DEF TypeOK, Unique, history, bounds
  <2> QED
    BY <2>2, <2>3
<1>8. ASSUME NEW p \in Proc, ReadTag(p) PROVE TypeOK'
  <2>1. /\ UNCHANGED <<tables, bounds, want, touched, stray, known>>
        /\ blurred' = blurred \/ blurred' = Blur(req[p].entry)
    BY <1>8 DEF ReadTag, Abort, history
  <2>2. blurred' \subseteq Entry
    BY <1>0, <2>1 DEF TypeOK, Blur, Request
  <2> QED
    BY <1>t, <2>1, <2>2 DEF TypeOK, tables, bounds
<1>9. ASSUME NEW p \in Proc, Link(p) PROVE TypeOK'
  <2>1. /\ UNCHANGED <<source, vocab, media, tag, usedE, usedT, bounds, want, touched, stray, known>>
        /\ blurred' = blurred \/ blurred' = Blur(req[p].entry)
        /\ link' = link \/ link' = link \union {<<KindOf(p), req[p].entry, req[p].tag>>}
    BY <1>9 DEF Link, Abort, history
  <2>2. req[p].entry \in Entry /\ req[p].tag \in TagId
    BY <1>0, <1>9 DEF Link, At, Carries
  <2>3. blurred' \subseteq Entry
    BY <2>1, <2>2 DEF TypeOK, Blur
  <2>4. link' \subseteq Kind \X Entry \X TagId
    BY <1>0, <2>1, <2>2 DEF TypeOK
  <2> QED
    BY <1>t, <2>1, <2>3, <2>4 DEF TypeOK, bounds
<1>10. ASSUME NEW p \in Proc, BeginDelete(p) PROVE TypeOK'
  <2>1. PICK e \in Entry :
          Stored(e) /\ Start(p, [Idle EXCEPT !.pc = "unlink", !.entry = e])
    BY <1>10 DEF BeginDelete
  <2> QED
    BY <1>10, <2>1, <1>0, <1>t
    DEF BeginDelete, Start, TypeOK, At, Admit, Carries, tables, history, bounds
<1>11. ASSUME NEW p \in Proc, Unlink(p) PROVE TypeOK'
  BY <1>11, <1>0, <1>t DEF Unlink, TypeOK, At, Admit, Carries, tables, history, bounds
<1>12. ASSUME NEW p \in Proc, Drop(p) PROVE TypeOK'
  BY <1>12, <1>0, <1>t DEF Drop, Done, TypeOK, At, Admit, Carries, tables, history, bounds
<1>13. ASSUME NEW p \in Proc, BeginCreateTag(p) PROVE TypeOK'
  <2>1. PICK j \in 1..Len(Kinds), n \in Name :
          Start(p, [Idle EXCEPT !.pc = "tag", !.at = j, !.names[Kinds[j]] = {n}])
    BY <1>13 DEF BeginCreateTag
  <2> QED
    BY <1>13, <2>1, <1>0, <1>t
    DEF BeginCreateTag, Start, TypeOK, At, Admit, Carries, tables, history, bounds
<1>14. ASSUME NEW p \in Proc, Rename(p) PROVE TypeOK'
  <2>1. /\ UNCHANGED <<source, vocab, media, link, usedE, usedT, req, want, blurred, stray, known>>
        /\ begun' \in 0..MaxRequests /\ faults' = faults
    BY <1>14 DEF Rename, Touch, history, Admit, TypeOK
  <2>2. CASE tag' = tag
    BY <2>1, <2>2 DEF TypeOK
  <2>3. CASE tag' # tag
    <3>1. PICK k \in Kind, i \in TagId, n \in Name :
            Holders(k, n) \subseteq {i} /\ tag' = [tag EXCEPT ![k][i] = n]
      BY <1>14, <2>3 DEF Rename
    <3>2. tag' \in [Kind -> [TagId -> Name \union {NoName}]] /\ Unique(tag')
      <4>1. tag \in [Kind -> [TagId -> Name \union {NoName}]] /\ Unique(tag)
        BY DEF TypeOK, Unique
      <4> QED
        BY <3>1, <4>1, StaysUnique
    <3> QED
      BY <2>1, <3>2 DEF TypeOK, Unique
  <2> QED
    BY <2>2, <2>3
<1>15. ASSUME NEW p \in Proc, DropTagLinks(p) PROVE TypeOK'
  <2>1. PICK j \in 1..Len(Kinds), i \in TagId :
          /\ tag[Kinds[j]][i] # NoName
          /\ link' = {l \in link : ~(l[1] = Kinds[j] /\ l[3] = i)}
          /\ Touch(KeysOf(Kinds[j], {tag[Kinds[j]][i]}))
          /\ Start(p, [Idle EXCEPT !.pc = "droptag", !.at = j, !.tag = i])
    BY <1>15 DEF DropTagLinks
  <2> QED
    BY <1>15, <2>1, <1>0, <1>t
    DEF DropTagLinks, Start, Touch, TypeOK, At, Admit, Carries, tables, history, bounds
<1>16. ASSUME NEW p \in Proc, DropTag(p) PROVE TypeOK'
  <2>1. /\ UNCHANGED <<source, vocab, media, usedE, usedT, want, blurred, stray, known, bounds>>
        /\ link' \subseteq link
    BY <1>16 DEF DropTag, Touch
  <2>2. req[p].tag \in TagId /\ tag' = [tag EXCEPT ![KindOf(p)][req[p].tag] = NoName]
    BY <1>0, <1>16 DEF DropTag, At, Carries
  <2>3. tag' \in [Kind -> [TagId -> Name \union {NoName}]]
    BY <2>2 DEF TypeOK
  <2>4. \A k \in Kind, i \in TagId : tag'[k][i] = tag[k][i] \/ tag'[k][i] = NoName
    BY <1>0, <2>2 DEF TypeOK
  <2>5. Unique(tag')
    BY <2>4 DEF TypeOK, Unique
  <2> QED
    BY <1>t, <2>1, <2>3, <2>5 DEF TypeOK, Unique, bounds
<1>17. ASSUME NEW p \in Proc, BeginCreateSource(p) PROVE TypeOK'
  <2>1. PICK s \in Source :
          Start(p, [Idle EXCEPT !.pc = "putsource", !.source = s])
    BY <1>17 DEF BeginCreateSource
  <2> QED
    BY <1>17, <2>1, <1>0, <1>t
    DEF BeginCreateSource, Start, TypeOK, At, Admit, Carries, tables, history, bounds
<1>18. ASSUME NEW p \in Proc, PutSource(p) PROVE TypeOK'
  BY <1>18, <1>0, <1>t DEF PutSource, Done, TypeOK, At, Admit, Carries, tables, history, bounds
<1>19. ASSUME NEW p \in Proc, BeginUpdateSource(p) PROVE TypeOK'
  <2>1. PICK s \in Source :
          Start(p, [Idle EXCEPT !.pc = "updatesource", !.source = s])
    BY <1>19 DEF BeginUpdateSource
  <2> QED
    BY <1>19, <2>1, <1>0, <1>t
    DEF BeginUpdateSource, Start, TypeOK, At, Admit, Carries, tables, history, bounds
<1>20. ASSUME NEW p \in Proc, UpdateSource(p) PROVE TypeOK'
  <2>1. source' \in [Source -> {"none", "on", "off"}]
    BY <1>20 DEF UpdateSource, TypeOK
  <2> QED
    BY <1>20, <1>t, <2>1 DEF UpdateSource, TypeOK, history, bounds
<1>21. ASSUME NEW p \in Proc, Count(p) PROVE TypeOK'
  <2>1. PICK s \in Source :
          /\ Exists(s) /\ MediaOf(s) = {}
          /\ Start(p, [Idle EXCEPT !.pc = "dropsource", !.source = s])
    BY <1>21 DEF Count
  <2> QED
    BY <1>21, <2>1, <1>0, <1>t DEF Count, Start, TypeOK, At, Admit, Carries, tables, history, bounds
<1>22. ASSUME NEW p \in Proc, DropSource(p) PROVE TypeOK'
  BY <1>22, <1>0, <1>t DEF DropSource, Done, TypeOK, At, Admit, Carries, tables, history, bounds
<1>23. ASSUME NEW p \in Proc, BeginSub(p) PROVE TypeOK'
  <2>1. PICK u \in Sub, t \in Type :
          Start(p, [Idle EXCEPT !.pc = IF Found(u) THEN "retype" ELSE "putsub", !.sub = u, !.type = t])
    BY <1>23 DEF BeginSub
  <2> QED
    BY <1>23, <2>1, <1>0, <1>t
    DEF BeginSub, Start, TypeOK, At, Admit, Carries, tables, history, bounds
<1>24. ASSUME NEW p \in Proc, PutSub(p) PROVE TypeOK'
  <2>1. CASE UNCHANGED <<tables, history, bounds>>
    BY <1>t, <2>1 DEF TypeOK, tables, history, bounds
  <2>2. CASE Redefine(req[p].sub, req[p].type, p) /\ UNCHANGED bounds
    BY <1>0, <1>24, <2>2, <1>r DEF PutSub, At, Carries, TypeOK, bounds
  <2> QED
    BY <1>24, <2>1, <2>2 DEF PutSub, Refused
<1>25. ASSUME NEW p \in Proc, Retype(p) PROVE TypeOK'
  <2>1. CASE UNCHANGED <<tables, history, bounds>>
    BY <1>t, <2>1 DEF TypeOK, tables, history, bounds
  <2>2. CASE Redefine(req[p].sub, req[p].type, p) /\ UNCHANGED bounds
    BY <1>0, <1>25, <2>2, <1>r DEF Retype, At, Carries, TypeOK, bounds
  <2> QED
    BY <1>25, <2>1, <2>2 DEF Retype, Refused
<1>26. ASSUME NEW p \in Proc, DropSub(p) PROVE TypeOK'
  BY <1>26, <1>r DEF DropSub, Admit, TypeOK
<1>27. ASSUME NEW p \in Proc, Fail(p) PROVE TypeOK'
  <2>1. /\ UNCHANGED <<tables, want, touched, stray, known, begun>>
        /\ faults' \in 0..MaxFaults
        /\ blurred' = blurred \/ blurred' = Blur(req[p].entry)
    BY <1>27 DEF Fail, TypeOK
  <2>2. blurred' \subseteq Entry
    BY <1>0, <2>1 DEF TypeOK, Blur, Request
  <2> QED
    BY <1>t, <2>1, <2>2 DEF TypeOK, tables
<1>28. CASE UNCHANGED vars
  BY <1>28 DEF vars, tables, history, bounds, TypeOK, At, Admit, Carries, tables, history, bounds
<1> QED
  BY <1>1, <1>2, <1>3, <1>4, <1>5, <1>6, <1>7, <1>8, <1>9, <1>10, <1>11, <1>12, <1>13, <1>14,
     <1>15, <1>16, <1>17, <1>18, <1>19, <1>20, <1>21, <1>22, <1>23, <1>24, <1>25, <1>26, <1>27,
     <1>28 DEF Next

(* A step changes one request, and idle requests carry nothing.            *)
LEMMA CarriedElsewhere ==
  ASSUME req \in [Proc -> Request], Carried, NEW p \in Proc, NEW r,
         req' = [req EXCEPT ![p] = r], Carries(r)
  PROVE  Carried'
BY DEF Carried

LEMMA IdleCarries == Carries(Idle)
BY DEF Carries, Idle

(* What a request carries stays what it was begun with.                    *)
LEMMA CarriedStep ==
  ASSUME TypeOK, Carried, [Next]_vars
  PROVE  Carried'
<1>0. req \in [Proc -> Request] /\ \A p \in Proc : req[p] \in Request /\ Carries(req[p])
  BY DEF TypeOK, Carried
<1>z. Idle.pc = "idle" /\ Idle.at = 1
  BY DEF Idle
<1>r. ASSUME NEW p \in Proc, NEW u, NEW t, Redefine(u, t, p) PROVE Carried'
  <2>1. \A q \in Proc : Carries([req[q] EXCEPT !.stands = @ /\ req[q].sub # u])
    BY <1>0 DEF Carries
  <2> QED
    BY <1>r, <2>1, IdleCarries DEF Redefine, Carried
<1>1. ASSUME NEW p \in Proc, BeginCreate(p) PROVE Carried'
  <2>1. PICK e \in Entry \ usedE, s \in Source, t \in Type, u \in Sub \union {NoSub}, ns \in Names :
          usedE' = usedE \union {e} /\ Submit(p, e, s, t, u, ns)
    BY <1>1 DEF BeginCreate
  <2> QED
    BY <1>1, <2>1, <1>0, <1>z DEF BeginCreate, Submit, Start, Carried, Carries, At
<1>2. ASSUME NEW p \in Proc, BeginUpdate(p) PROVE Carried'
  <2>1. PICK e \in Entry, s \in Source, t \in Type, u \in Sub \union {NoSub}, ns \in Names :
          Stored(e) /\ Submit(p, e, s, t, u, ns)
    BY <1>2 DEF BeginUpdate
  <2> QED
    BY <1>2, <2>1, <1>0, <1>z DEF BeginUpdate, Submit, Start, Carried, Carries, At
<1>3. ASSUME NEW p \in Proc, Validate(p) PROVE Carried'
  <2>1. CASE req' = [req EXCEPT ![p] = Idle]
    BY <1>0, <2>1, CarriedElsewhere, IdleCarries
  <2>2. CASE req' = [req EXCEPT ![p] = [req[p] EXCEPT !.pc = "write", !.stands = TRUE]]
    <3>1. Carries([req[p] EXCEPT !.pc = "write", !.stands = TRUE])
      BY <1>0, <1>3 DEF Validate, At, Carries
    <3> QED
      BY <1>0, <2>2, <3>1, CarriedElsewhere
  <2> QED
    BY <1>3, <2>1, <2>2 DEF Validate, Done
<1>4. ASSUME NEW p \in Proc, InsertRow(p) PROVE Carried'
  BY <1>4, <1>0, <1>z DEF InsertRow, Written, Carried, Carries, At
<1>5. ASSUME NEW p \in Proc, UpdateRow(p) PROVE Carried'
  BY <1>5, <1>0, <1>z DEF UpdateRow, Written, Carried, Carries, At
<1>6. ASSUME NEW p \in Proc, ClearLinks(p) PROVE Carried'
  BY <1>6, <1>0, <1>z DEF ClearLinks, Onward, Carried, Carries, At
<1>7. ASSUME NEW p \in Proc, AddTag(p) PROVE Carried'
  <2>1. PICK n \in req[p].names[KindOf(p)] :
          req' = [req EXCEPT ![p].pc = "id", ![p].name = n, ![p].names[KindOf(p)] = @ \ {n}]
    BY <1>7 DEF AddTag
  <2>2. KindOf(p) \in Kind /\ n \in Name
    BY <1>0, KindFacts DEF KindOf, Request
  <2>3. Carries([req[p] EXCEPT !.pc = "id", !.name = n, !.names[KindOf(p)] = @ \ {n}])
    BY <1>0, <2>2 DEF Carries, Request
  <2> QED
    BY <1>0, <2>1, <2>3 DEF Carried
<1>8. ASSUME NEW p \in Proc, ReadTag(p) PROVE Carried'
  <2>1. CASE req' = [req EXCEPT ![p] = Idle]
    BY <1>0, <2>1, CarriedElsewhere, IdleCarries
  <2>2. CASE \E i \in TagId : req' = [req EXCEPT ![p].pc = "link", ![p].tag = i] /\ req[p].entry # NoEntry
    <3>1. PICK i \in TagId :
            req' = [req EXCEPT ![p] = [req[p] EXCEPT !.pc = "link", !.tag = i]] /\ req[p].entry # NoEntry
      BY <2>2
    <3>2. Carries([req[p] EXCEPT !.pc = "link", !.tag = i])
      BY <1>0, <1>8, <3>1 DEF ReadTag, At, Carries, Request
    <3> QED
      BY <1>0, <3>1, <3>2, CarriedElsewhere
  <2> QED
    BY <1>8, <2>1, <2>2 DEF ReadTag, Abort, Done, Holders
<1>9. ASSUME NEW p \in Proc, Link(p) PROVE Carried'
  <2>1. CASE req' = [req EXCEPT ![p] = Idle]
    BY <1>0, <2>1, CarriedElsewhere, IdleCarries
  <2>2. CASE Onward(p, req[p])
    <3>1. /\ Carries([req[p] EXCEPT !.pc = "tag"])
          /\ Carries([req[p] EXCEPT !.pc = "clear", !.at = req[p].at + 1])
      BY <1>0, <1>9 DEF Link, At, Carries
    <3> QED
      BY <1>0, <2>2, <3>1, CarriedElsewhere, IdleCarries DEF Onward
  <2> QED
    BY <1>9, <2>1, <2>2 DEF Link, Abort, Done
<1>10. ASSUME NEW p \in Proc, BeginDelete(p) PROVE Carried'
  <2>1. PICK e \in Entry :
          Stored(e) /\ Start(p, [Idle EXCEPT !.pc = "unlink", !.entry = e])
    BY <1>10 DEF BeginDelete
  <2> QED
    BY <1>10, <2>1, <1>0, <1>z DEF BeginDelete, Start, Carried, Carries, At
<1>11. ASSUME NEW p \in Proc, Unlink(p) PROVE Carried'
  BY <1>11, <1>0, <1>z DEF Unlink, Carried, Carries, At
<1>12. ASSUME NEW p \in Proc, Drop(p) PROVE Carried'
  BY <1>12, <1>0, <1>z DEF Drop, Done, Carried, Carries, At
<1>13. ASSUME NEW p \in Proc, BeginCreateTag(p) PROVE Carried'
  <2>1. PICK j \in 1..Len(Kinds), n \in Name :
          Start(p, [Idle EXCEPT !.pc = "tag", !.at = j, !.names[Kinds[j]] = {n}])
    BY <1>13 DEF BeginCreateTag
  <2> QED
    BY <1>13, <2>1, <1>0, <1>z DEF BeginCreateTag, Start, Carried, Carries, At
<1>14. ASSUME NEW p \in Proc, Rename(p) PROVE Carried'
  <2>1. PICK k \in Kind, i \in TagId, n \in Name :
          /\ tag[k][i] # NoName
          /\ IF Holders(k, n) \subseteq {i}
             THEN tag' = [tag EXCEPT ![k][i] = n] /\ Touch(KeysOf(k, {n, tag[k][i]}))
             ELSE UNCHANGED <<tag, history>>
    BY <1>14 DEF Rename
  <2> QED
    BY <1>14, <2>1, <1>0, <1>z DEF Rename, Touch, Carried, Carries, At
<1>15. ASSUME NEW p \in Proc, DropTagLinks(p) PROVE Carried'
  <2>1. PICK j \in 1..Len(Kinds), i \in TagId :
          /\ tag[Kinds[j]][i] # NoName
          /\ link' = {l \in link : ~(l[1] = Kinds[j] /\ l[3] = i)}
          /\ Touch(KeysOf(Kinds[j], {tag[Kinds[j]][i]}))
          /\ Start(p, [Idle EXCEPT !.pc = "droptag", !.at = j, !.tag = i])
    BY <1>15 DEF DropTagLinks
  <2> QED
    BY <1>15, <2>1, <1>0, <1>z DEF DropTagLinks, Start, Touch, Carried, Carries, At
<1>16. ASSUME NEW p \in Proc, DropTag(p) PROVE Carried'
  BY <1>16, <1>0, <1>z DEF DropTag, Touch, Done, Carried, Carries, At
<1>17. ASSUME NEW p \in Proc, BeginCreateSource(p) PROVE Carried'
  <2>1. PICK s \in Source :
          Start(p, [Idle EXCEPT !.pc = "putsource", !.source = s])
    BY <1>17 DEF BeginCreateSource
  <2> QED
    BY <1>17, <2>1, <1>0, <1>z DEF BeginCreateSource, Start, Carried, Carries, At
<1>18. ASSUME NEW p \in Proc, PutSource(p) PROVE Carried'
  BY <1>18, <1>0, <1>z DEF PutSource, Done, Carried, Carries, At
<1>19. ASSUME NEW p \in Proc, BeginUpdateSource(p) PROVE Carried'
  <2>1. PICK s \in Source :
          Start(p, [Idle EXCEPT !.pc = "updatesource", !.source = s])
    BY <1>19 DEF BeginUpdateSource
  <2> QED
    BY <1>19, <2>1, <1>0, <1>z DEF BeginUpdateSource, Start, Carried, Carries, At
<1>20. ASSUME NEW p \in Proc, UpdateSource(p) PROVE Carried'
  BY <1>20, <1>0, <1>z DEF UpdateSource, Done, Carried, Carries, At
<1>21. ASSUME NEW p \in Proc, Count(p) PROVE Carried'
  <2>1. PICK s \in Source :
          /\ Exists(s) /\ MediaOf(s) = {}
          /\ Start(p, [Idle EXCEPT !.pc = "dropsource", !.source = s])
    BY <1>21 DEF Count
  <2> QED
    BY <1>21, <2>1, <1>0, <1>z DEF Count, Start, Carried, Carries, At
<1>22. ASSUME NEW p \in Proc, DropSource(p) PROVE Carried'
  BY <1>22, <1>0, <1>z DEF DropSource, Done, Carried, Carries, At
<1>23. ASSUME NEW p \in Proc, BeginSub(p) PROVE Carried'
  <2>1. PICK u \in Sub, t \in Type :
          Start(p, [Idle EXCEPT !.pc = IF Found(u) THEN "retype" ELSE "putsub", !.sub = u, !.type = t])
    BY <1>23 DEF BeginSub
  <2> QED
    BY <1>23, <2>1, <1>0, <1>z DEF BeginSub, Start, Carried, Carries, At
<1>24. ASSUME NEW p \in Proc, PutSub(p) PROVE Carried'
  <2>1. CASE req' = [req EXCEPT ![p] = Idle]
    BY <1>0, <2>1, CarriedElsewhere, IdleCarries
  <2>2. CASE Redefine(req[p].sub, req[p].type, p)
    BY <2>2, <1>r
  <2> QED
    BY <1>24, <2>1, <2>2 DEF PutSub, Refused, Done
<1>25. ASSUME NEW p \in Proc, Retype(p) PROVE Carried'
  <2>1. CASE req' = [req EXCEPT ![p] = Idle]
    BY <1>0, <2>1, CarriedElsewhere, IdleCarries
  <2>2. CASE Redefine(req[p].sub, req[p].type, p)
    BY <2>2, <1>r
  <2> QED
    BY <1>25, <2>1, <2>2 DEF Retype, Refused, Done
<1>26. ASSUME NEW p \in Proc, DropSub(p) PROVE Carried'
  BY <1>26, <1>r DEF DropSub
<1>27. ASSUME NEW p \in Proc, Fail(p) PROVE Carried'
  BY <1>27, <1>0, <1>z DEF Fail, Done, Carried, Carries, At
<1>28. CASE UNCHANGED vars
  BY <1>28 DEF vars, tables, history, bounds, Carried, Carries, At
<1> QED
  BY <1>1, <1>2, <1>3, <1>4, <1>5, <1>6, <1>7, <1>8, <1>9, <1>10, <1>11, <1>12, <1>13, <1>14,
     <1>15, <1>16, <1>17, <1>18, <1>19, <1>20, <1>21, <1>22, <1>23, <1>24, <1>25, <1>26, <1>27,
     <1>28 DEF Next

(* A tag is made under an id that was not drawn before.                    *)
LEMMA DrawnStep ==
  ASSUME TypeOK, Carried, Drawn, [Next]_vars
  PROVE  Drawn'
<1>0. /\ req \in [Proc -> Request] /\ (\A p \in Proc : req[p] \in Request /\ Carries(req[p]))
      /\ \A p \in Proc : KindOf(p) \in Kind
  BY KindFacts DEF TypeOK, Carried, KindOf, Request
<1>z. Idle.pc = "idle" /\ ~Idle.stands
  BY DEF Idle
<1>g. tag \in [Kind -> [TagId -> Name \union {NoName}]]
  BY DEF TypeOK
<1>r. ASSUME NEW p \in Proc, NEW u \in Sub, NEW t \in Type \union {NoType}, Redefine(u, t, p)
      PROVE  Drawn'
  <2>1. req'[p] = Idle
    BY <1>0, <1>r, Redefined
  <2>2. \A q \in Proc \ {p} :
          /\ req'[q].pc = req[q].pc /\ req'[q].source = req[q].source /\ req'[q].sub = req[q].sub
          /\ req'[q].type = req[q].type /\ req'[q].tag = req[q].tag
    BY <1>0, <1>r, Redefined
  <2>3. \A q \in Proc \ {p} : req'[q].stands => req[q].stands /\ req[q].sub # u
    BY <1>0, <1>r, Redefined
  <2> QED
    BY <1>r, <2>1, <2>2, <2>3, <1>0, <1>z, <1>g DEF Redefine, Drawn
<1>1. ASSUME NEW p \in Proc, BeginCreate(p) PROVE Drawn'
  <2>1. PICK e \in Entry \ usedE, s \in Source, t \in Type, u \in Sub \union {NoSub}, ns \in Names :
          usedE' = usedE \union {e} /\ Submit(p, e, s, t, u, ns)
    BY <1>1 DEF BeginCreate
  <2> QED
    BY <1>1, <2>1, <1>0, <1>z, <1>g
    DEF BeginCreate, Submit, Start, Drawn, At, Carries, tables, history, bounds
<1>2. ASSUME NEW p \in Proc, BeginUpdate(p) PROVE Drawn'
  <2>1. PICK e \in Entry, s \in Source, t \in Type, u \in Sub \union {NoSub}, ns \in Names :
          Stored(e) /\ Submit(p, e, s, t, u, ns)
    BY <1>2 DEF BeginUpdate
  <2> QED
    BY <1>2, <2>1, <1>0, <1>z, <1>g
    DEF BeginUpdate, Submit, Start, Drawn, At, Carries, tables, history, bounds
<1>3. ASSUME NEW p \in Proc, Validate(p) PROVE Drawn'
  <2>1. CASE req' = [req EXCEPT ![p] = Idle] /\ UNCHANGED <<tables, history>>
    BY <2>1, <1>0, <1>z DEF Drawn, At, tables, history
  <2>2. CASE /\ req' = [req EXCEPT ![p].pc = "write", ![p].stands = TRUE]
             /\ ValidSubType(req[p].type, req[p].sub) /\ UNCHANGED <<tables, history>>
    BY <1>3, <2>2, <1>0, <1>z DEF Validate, Drawn, At, tables, history
  <2> QED
    BY <1>3, <2>1, <2>2 DEF Validate, Done
<1>4. ASSUME NEW p \in Proc, InsertRow(p) PROVE Drawn'
  BY <1>4, <1>0, <1>z, <1>g DEF InsertRow, Written, Drawn, At, Carries, tables, history, bounds
<1>5. ASSUME NEW p \in Proc, UpdateRow(p) PROVE Drawn'
  BY <1>5, <1>0, <1>z, <1>g DEF UpdateRow, Written, Drawn, At, Carries, tables, history, bounds
<1>6. ASSUME NEW p \in Proc, ClearLinks(p) PROVE Drawn'
  BY <1>6, <1>0, <1>z, <1>g DEF ClearLinks, Onward, Drawn, At, Carries, tables, history, bounds
<1>7. ASSUME NEW p \in Proc, AddTag(p) PROVE Drawn'
  BY <1>7, <1>0, <1>z, <1>g DEF AddTag, Drawn, At, Carries, tables, history, bounds
<1>8. ASSUME NEW p \in Proc, ReadTag(p) PROVE Drawn'
  <2>1. CASE req' = [req EXCEPT ![p] = Idle] /\ UNCHANGED <<tables, want, touched, stray, known>>
    BY <2>1, <1>0, <1>z DEF Drawn, At, tables, history
  <2>2. CASE \E i \in Holders(KindOf(p), req[p].name) :
          req' = [req EXCEPT ![p].pc = "link", ![p].tag = i] /\ UNCHANGED <<tables, history>>
    BY <1>8, <2>2, <1>0, <1>z DEF Holders, Drawn, At, tables, history
  <2> QED
    BY <1>8, <2>1, <2>2 DEF ReadTag, Abort, Done, history
<1>9. ASSUME NEW p \in Proc, Link(p) PROVE Drawn'
  <2>1. CASE req' = [req EXCEPT ![p] = Idle] /\ UNCHANGED link
    BY <1>9, <2>1, <1>0, <1>z DEF Link, Abort, Drawn, At, tables, history
  <2>2. CASE req' = [req EXCEPT ![p] = Idle] /\ link' = link \union {<<KindOf(p), req[p].entry, req[p].tag>>}
    BY <1>9, <2>2, <1>0, <1>z DEF Link, Abort, Drawn, At, tables, history
  <2>3. CASE req' = [req EXCEPT ![p].pc = "tag"] /\ link' = link \union {<<KindOf(p), req[p].entry, req[p].tag>>}
    BY <1>9, <2>3, <1>0, <1>z DEF Link, Abort, Drawn, At, tables, history
  <2>4. CASE /\ req' = [req EXCEPT ![p].pc = "clear", ![p].at = req[p].at + 1]
             /\ link' = link \union {<<KindOf(p), req[p].entry, req[p].tag>>}
    BY <1>9, <2>4, <1>0, <1>z DEF Link, Abort, Drawn, At, tables, history
  <2> QED
    BY <1>9, <2>1, <2>2, <2>3, <2>4 DEF Link, Abort, Done, Onward
<1>10. ASSUME NEW p \in Proc, BeginDelete(p) PROVE Drawn'
  <2>1. PICK e \in Entry :
          Stored(e) /\ Start(p, [Idle EXCEPT !.pc = "unlink", !.entry = e])
    BY <1>10 DEF BeginDelete
  <2> QED
    BY <1>10, <2>1, <1>0, <1>z, <1>g
    DEF BeginDelete, Start, Drawn, At, Carries, tables, history, bounds
<1>11. ASSUME NEW p \in Proc, Unlink(p) PROVE Drawn'
  BY <1>11, <1>0, <1>z, <1>g DEF Unlink, Drawn, At, Carries, tables, history, bounds
<1>12. ASSUME NEW p \in Proc, Drop(p) PROVE Drawn'
  BY <1>12, <1>0, <1>z, <1>g DEF Drop, Done, Drawn, At, Carries, tables, history, bounds
<1>13. ASSUME NEW p \in Proc, BeginCreateTag(p) PROVE Drawn'
  <2>1. PICK j \in 1..Len(Kinds), n \in Name :
          Start(p, [Idle EXCEPT !.pc = "tag", !.at = j, !.names[Kinds[j]] = {n}])
    BY <1>13 DEF BeginCreateTag
  <2> QED
    BY <1>13, <2>1, <1>0, <1>z, <1>g
    DEF BeginCreateTag, Start, Drawn, At, Carries, tables, history, bounds
<1>14. ASSUME NEW p \in Proc, Rename(p) PROVE Drawn'
  <2>1. PICK k \in Kind, i \in TagId, n \in Name :
          /\ tag[k][i] # NoName
          /\ IF Holders(k, n) \subseteq {i}
             THEN tag' = [tag EXCEPT ![k][i] = n] /\ Touch(KeysOf(k, {n, tag[k][i]}))
             ELSE UNCHANGED <<tag, history>>
    BY <1>14 DEF Rename
  <2> QED
    BY <1>14, <2>1, <1>0, <1>z, <1>g
    DEF Rename, Touch, Drawn, At, Carries, tables, history, bounds, Holders
<1>15. ASSUME NEW p \in Proc, DropTagLinks(p) PROVE Drawn'
  <2>1. PICK j \in 1..Len(Kinds), i \in TagId :
          /\ tag[Kinds[j]][i] # NoName
          /\ link' = {l \in link : ~(l[1] = Kinds[j] /\ l[3] = i)}
          /\ Touch(KeysOf(Kinds[j], {tag[Kinds[j]][i]}))
          /\ Start(p, [Idle EXCEPT !.pc = "droptag", !.at = j, !.tag = i])
    BY <1>15 DEF DropTagLinks
  <2> QED
    BY <1>15, <2>1, <1>0, <1>z, <1>g
    DEF DropTagLinks, Start, Touch, Drawn, At, Carries, tables, history, bounds
<1>16. ASSUME NEW p \in Proc, DropTag(p) PROVE Drawn'
  BY <1>16, <1>0, <1>z, <1>g DEF DropTag, Touch, Done, Drawn, At, Carries, tables, history, bounds
<1>17. ASSUME NEW p \in Proc, BeginCreateSource(p) PROVE Drawn'
  <2>1. PICK s \in Source :
          Start(p, [Idle EXCEPT !.pc = "putsource", !.source = s])
    BY <1>17 DEF BeginCreateSource
  <2> QED
    BY <1>17, <2>1, <1>0, <1>z, <1>g
    DEF BeginCreateSource, Start, Drawn, At, Carries, tables, history, bounds
<1>18. ASSUME NEW p \in Proc, PutSource(p) PROVE Drawn'
  BY <1>18, <1>0, <1>z, <1>g DEF PutSource, Done, Drawn, At, Carries, tables, history, bounds
<1>19. ASSUME NEW p \in Proc, BeginUpdateSource(p) PROVE Drawn'
  <2>1. PICK s \in Source :
          Start(p, [Idle EXCEPT !.pc = "updatesource", !.source = s])
    BY <1>19 DEF BeginUpdateSource
  <2> QED
    BY <1>19, <2>1, <1>0, <1>z, <1>g
    DEF BeginUpdateSource, Start, Drawn, At, Carries, tables, history, bounds
<1>20. ASSUME NEW p \in Proc, UpdateSource(p) PROVE Drawn'
  BY <1>20, <1>0, <1>z, <1>g DEF UpdateSource, Done, Drawn, At, Carries, tables, history, bounds
<1>21. ASSUME NEW p \in Proc, Count(p) PROVE Drawn'
  <2>1. PICK s \in Source :
          /\ Exists(s) /\ MediaOf(s) = {}
          /\ Start(p, [Idle EXCEPT !.pc = "dropsource", !.source = s])
    BY <1>21 DEF Count
  <2> QED
    BY <1>21, <2>1, <1>0, <1>z, <1>g DEF Count, Start, Drawn, At, Carries, tables, history, bounds
<1>22. ASSUME NEW p \in Proc, DropSource(p) PROVE Drawn'
  BY <1>22, <1>0, <1>z, <1>g DEF DropSource, Done, Drawn, At, Carries, tables, history, bounds
<1>23. ASSUME NEW p \in Proc, BeginSub(p) PROVE Drawn'
  <2>1. PICK u \in Sub, t \in Type :
          Start(p, [Idle EXCEPT !.pc = IF Found(u) THEN "retype" ELSE "putsub", !.sub = u, !.type = t])
    BY <1>23 DEF BeginSub
  <2> QED
    BY <1>23, <2>1, <1>0, <1>z, <1>g
    DEF BeginSub, Start, Drawn, At, Carries, tables, history, bounds
<1>24. ASSUME NEW p \in Proc, PutSub(p) PROVE Drawn'
  <2>1. CASE req' = [req EXCEPT ![p] = Idle] /\ UNCHANGED <<tables, history>>
    BY <2>1, <1>0, <1>z DEF Drawn, At, tables, history
  <2>2. CASE Redefine(req[p].sub, req[p].type, p)
    BY <1>0, <1>24, <2>2, <1>r DEF PutSub, At, Carries
  <2> QED
    BY <1>24, <2>1, <2>2 DEF PutSub, Refused, Done
<1>25. ASSUME NEW p \in Proc, Retype(p) PROVE Drawn'
  <2>1. CASE req' = [req EXCEPT ![p] = Idle] /\ UNCHANGED <<tables, history>>
    BY <2>1, <1>0, <1>z DEF Drawn, At, tables, history
  <2>2. CASE Redefine(req[p].sub, req[p].type, p)
    BY <1>0, <1>25, <2>2, <1>r DEF Retype, At, Carries
  <2> QED
    BY <1>25, <2>1, <2>2 DEF Retype, Refused, Done
<1>26. ASSUME NEW p \in Proc, DropSub(p) PROVE Drawn'
  BY <1>26, <1>r DEF DropSub
<1>27. ASSUME NEW p \in Proc, Fail(p) PROVE Drawn'
  BY <1>27, <1>0, <1>z, <1>g DEF Fail, Done, Drawn, At, Carries, tables, history, bounds
<1>28. CASE UNCHANGED vars
  BY <1>28 DEF vars, tables, history, bounds, Drawn, At, Carries, tables, history, bounds
<1> QED
  BY <1>1, <1>2, <1>3, <1>4, <1>5, <1>6, <1>7, <1>8, <1>9, <1>10, <1>11, <1>12, <1>13, <1>14,
     <1>15, <1>16, <1>17, <1>18, <1>19, <1>20, <1>21, <1>22, <1>23, <1>24, <1>25, <1>26, <1>27,
     <1>28 DEF Next

(* Where a source goes, no entry that was counted refers to it.            *)
LEMMA SourcesStep ==
  ASSUME TypeOK, Carried, Counted, OrphanOnlyByRace, [Next]_vars
  PROVE  (Counted /\ OrphanOnlyByRace)'
<1>0. /\ req \in [Proc -> Request] /\ (\A p \in Proc : req[p] \in Request /\ Carries(req[p]))
      /\ \A p \in Proc : KindOf(p) \in Kind
  BY KindFacts DEF TypeOK, Carried, KindOf, Request
<1>z. Idle.pc = "idle" /\ ~Idle.stands
  BY DEF Idle
<1>m. /\ media \in [Entry -> Row \union {NoRow}] /\ source \in [Source -> {"none", "on", "off"}]
      /\ vocab \in [Sub -> Type \union {NoType}]
      /\ \A e \in Entry : media[e] # NoRow =>
           media[e].source \in Source /\ media[e].sub \in Sub \union {NoSub} /\ media[e].type \in Type
  BY DEF TypeOK, Row
<1>r. ASSUME NEW p \in Proc, NEW u \in Sub, NEW t \in Type \union {NoType}, Redefine(u, t, p)
      PROVE  (Counted /\ OrphanOnlyByRace)'
  <2>1. req'[p] = Idle
    BY <1>0, <1>r, Redefined
  <2>2. \A q \in Proc \ {p} :
          /\ req'[q].pc = req[q].pc /\ req'[q].source = req[q].source /\ req'[q].sub = req[q].sub
          /\ req'[q].type = req[q].type /\ req'[q].tag = req[q].tag
    BY <1>0, <1>r, Redefined
  <2>3. \A q \in Proc \ {p} : req'[q].stands => req[q].stands /\ req[q].sub # u
    BY <1>0, <1>r, Redefined
  <2> QED
    BY <1>r, <2>1, <2>2, <2>3, <1>0, <1>z, <1>m DEF Redefine, Counted, OrphanOnlyByRace, At
<1>1. ASSUME NEW p \in Proc, BeginCreate(p) PROVE (Counted /\ OrphanOnlyByRace)'
  <2>1. PICK e \in Entry \ usedE, s \in Source, t \in Type, u \in Sub \union {NoSub}, ns \in Names :
          usedE' = usedE \union {e} /\ Submit(p, e, s, t, u, ns)
    BY <1>1 DEF BeginCreate
  <2> QED
    BY <1>1, <2>1, <1>0, <1>z, <1>m DEF BeginCreate, Submit, Start, Counted, OrphanOnlyByRace, At,
       Carries, tables, history, bounds
<1>2. ASSUME NEW p \in Proc, BeginUpdate(p) PROVE (Counted /\ OrphanOnlyByRace)'
  <2>1. PICK e \in Entry, s \in Source, t \in Type, u \in Sub \union {NoSub}, ns \in Names :
          Stored(e) /\ Submit(p, e, s, t, u, ns)
    BY <1>2 DEF BeginUpdate
  <2> QED
    BY <1>2, <2>1, <1>0, <1>z, <1>m DEF BeginUpdate, Submit, Start, Counted, OrphanOnlyByRace, At,
       Carries, tables, history, bounds
<1>3. ASSUME NEW p \in Proc, Validate(p) PROVE (Counted /\ OrphanOnlyByRace)'
  <2>1. CASE req' = [req EXCEPT ![p] = Idle] /\ UNCHANGED <<tables, history>>
    BY <2>1, <1>0, <1>z, <1>m DEF Counted, OrphanOnlyByRace, At, tables, history
  <2>2. CASE /\ req' = [req EXCEPT ![p].pc = "write", ![p].stands = TRUE]
             /\ ValidSubType(req[p].type, req[p].sub) /\ UNCHANGED <<tables, history>>
    BY <1>3, <2>2, <1>0, <1>z, <1>m DEF Validate, Counted, OrphanOnlyByRace, At, tables, history
  <2> QED
    BY <1>3, <2>1, <2>2 DEF Validate, Done
<1>4. ASSUME NEW p \in Proc, InsertRow(p) PROVE (Counted /\ OrphanOnlyByRace)'
  BY <1>4, <1>0, <1>z, <1>m
  DEF InsertRow, Written, Counted, OrphanOnlyByRace, At, Carries, tables, history, bounds
<1>5. ASSUME NEW p \in Proc, UpdateRow(p) PROVE (Counted /\ OrphanOnlyByRace)'
  BY <1>5, <1>0, <1>z, <1>m
  DEF UpdateRow, Written, Counted, OrphanOnlyByRace, At, Carries, tables, history, bounds
<1>6. ASSUME NEW p \in Proc, ClearLinks(p) PROVE (Counted /\ OrphanOnlyByRace)'
  BY <1>6, <1>0, <1>z, <1>m
  DEF ClearLinks, Onward, Counted, OrphanOnlyByRace, At, Carries, tables, history, bounds
<1>7. ASSUME NEW p \in Proc, AddTag(p) PROVE (Counted /\ OrphanOnlyByRace)'
  BY <1>7, <1>0, <1>z, <1>m
  DEF AddTag, Counted, OrphanOnlyByRace, At, Carries, tables, history, bounds
<1>8. ASSUME NEW p \in Proc, ReadTag(p) PROVE (Counted /\ OrphanOnlyByRace)'
  <2>1. CASE req' = [req EXCEPT ![p] = Idle] /\ UNCHANGED <<tables, want, touched, stray, known>>
    BY <2>1, <1>0, <1>z, <1>m DEF Counted, OrphanOnlyByRace, At, tables, history
  <2>2. CASE \E i \in Holders(KindOf(p), req[p].name) :
          req' = [req EXCEPT ![p].pc = "link", ![p].tag = i] /\ UNCHANGED <<tables, history>>
    BY <1>8, <2>2, <1>0, <1>z, <1>m DEF Holders, Counted, OrphanOnlyByRace, At, tables, history
  <2> QED
    BY <1>8, <2>1, <2>2 DEF ReadTag, Abort, Done, history
<1>9. ASSUME NEW p \in Proc, Link(p) PROVE (Counted /\ OrphanOnlyByRace)'
  <2>1. CASE req' = [req EXCEPT ![p] = Idle] /\ UNCHANGED link
    BY <1>9, <2>1, <1>0, <1>z, <1>m DEF Link, Abort, Counted, OrphanOnlyByRace, At, tables, history
  <2>2. CASE req' = [req EXCEPT ![p] = Idle] /\ link' = link \union {<<KindOf(p), req[p].entry, req[p].tag>>}
    BY <1>9, <2>2, <1>0, <1>z, <1>m DEF Link, Abort, Counted, OrphanOnlyByRace, At, tables, history
  <2>3. CASE req' = [req EXCEPT ![p].pc = "tag"] /\ link' = link \union {<<KindOf(p), req[p].entry, req[p].tag>>}
    BY <1>9, <2>3, <1>0, <1>z, <1>m DEF Link, Abort, Counted, OrphanOnlyByRace, At, tables, history
  <2>4. CASE /\ req' = [req EXCEPT ![p].pc = "clear", ![p].at = req[p].at + 1]
             /\ link' = link \union {<<KindOf(p), req[p].entry, req[p].tag>>}
    BY <1>9, <2>4, <1>0, <1>z, <1>m DEF Link, Abort, Counted, OrphanOnlyByRace, At, tables, history
  <2> QED
    BY <1>9, <2>1, <2>2, <2>3, <2>4 DEF Link, Abort, Done, Onward
<1>10. ASSUME NEW p \in Proc, BeginDelete(p) PROVE (Counted /\ OrphanOnlyByRace)'
  <2>1. PICK e \in Entry :
          Stored(e) /\ Start(p, [Idle EXCEPT !.pc = "unlink", !.entry = e])
    BY <1>10 DEF BeginDelete
  <2> QED
    BY <1>10, <2>1, <1>0, <1>z, <1>m
    DEF BeginDelete, Start, Counted, OrphanOnlyByRace, At, Carries, tables, history, bounds
<1>11. ASSUME NEW p \in Proc, Unlink(p) PROVE (Counted /\ OrphanOnlyByRace)'
  BY <1>11, <1>0, <1>z, <1>m
  DEF Unlink, Counted, OrphanOnlyByRace, At, Carries, tables, history, bounds
<1>12. ASSUME NEW p \in Proc, Drop(p) PROVE (Counted /\ OrphanOnlyByRace)'
  BY <1>12, <1>0, <1>z, <1>m
  DEF Drop, Done, Counted, OrphanOnlyByRace, At, Carries, tables, history, bounds
<1>13. ASSUME NEW p \in Proc, BeginCreateTag(p) PROVE (Counted /\ OrphanOnlyByRace)'
  <2>1. PICK j \in 1..Len(Kinds), n \in Name :
          Start(p, [Idle EXCEPT !.pc = "tag", !.at = j, !.names[Kinds[j]] = {n}])
    BY <1>13 DEF BeginCreateTag
  <2> QED
    BY <1>13, <2>1, <1>0, <1>z, <1>m
    DEF BeginCreateTag, Start, Counted, OrphanOnlyByRace, At, Carries, tables, history, bounds
<1>14. ASSUME NEW p \in Proc, Rename(p) PROVE (Counted /\ OrphanOnlyByRace)'
  <2>1. PICK k \in Kind, i \in TagId, n \in Name :
          /\ tag[k][i] # NoName
          /\ IF Holders(k, n) \subseteq {i}
             THEN tag' = [tag EXCEPT ![k][i] = n] /\ Touch(KeysOf(k, {n, tag[k][i]}))
             ELSE UNCHANGED <<tag, history>>
    BY <1>14 DEF Rename
  <2> QED
    BY <1>14, <2>1, <1>0, <1>z, <1>m
    DEF Rename, Touch, Counted, OrphanOnlyByRace, At, Carries, tables, history, bounds
<1>15. ASSUME NEW p \in Proc, DropTagLinks(p) PROVE (Counted /\ OrphanOnlyByRace)'
  <2>1. PICK j \in 1..Len(Kinds), i \in TagId :
          /\ tag[Kinds[j]][i] # NoName
          /\ link' = {l \in link : ~(l[1] = Kinds[j] /\ l[3] = i)}
          /\ Touch(KeysOf(Kinds[j], {tag[Kinds[j]][i]}))
          /\ Start(p, [Idle EXCEPT !.pc = "droptag", !.at = j, !.tag = i])
    BY <1>15 DEF DropTagLinks
  <2> QED
    BY <1>15, <2>1, <1>0, <1>z, <1>m DEF DropTagLinks, Start, Touch, Counted, OrphanOnlyByRace,
       At, Carries, tables, history, bounds
<1>16. ASSUME NEW p \in Proc, DropTag(p) PROVE (Counted /\ OrphanOnlyByRace)'
  BY <1>16, <1>0, <1>z, <1>m
  DEF DropTag, Touch, Done, Counted, OrphanOnlyByRace, At, Carries, tables, history, bounds
<1>17. ASSUME NEW p \in Proc, BeginCreateSource(p) PROVE (Counted /\ OrphanOnlyByRace)'
  <2>1. PICK s \in Source :
          Start(p, [Idle EXCEPT !.pc = "putsource", !.source = s])
    BY <1>17 DEF BeginCreateSource
  <2> QED
    BY <1>17, <2>1, <1>0, <1>z, <1>m
    DEF BeginCreateSource, Start, Counted, OrphanOnlyByRace, At, Carries, tables, history, bounds
<1>18. ASSUME NEW p \in Proc, PutSource(p) PROVE (Counted /\ OrphanOnlyByRace)'
  BY <1>18, <1>0, <1>z, <1>m
  DEF PutSource, Done, Counted, OrphanOnlyByRace, At, Carries, tables, history, bounds
<1>19. ASSUME NEW p \in Proc, BeginUpdateSource(p) PROVE (Counted /\ OrphanOnlyByRace)'
  <2>1. PICK s \in Source :
          Start(p, [Idle EXCEPT !.pc = "updatesource", !.source = s])
    BY <1>19 DEF BeginUpdateSource
  <2> QED
    BY <1>19, <2>1, <1>0, <1>z, <1>m
    DEF BeginUpdateSource, Start, Counted, OrphanOnlyByRace, At, Carries, tables, history, bounds
<1>20. ASSUME NEW p \in Proc, UpdateSource(p) PROVE (Counted /\ OrphanOnlyByRace)'
  BY <1>20, <1>0, <1>z, <1>m
  DEF UpdateSource, Done, Counted, OrphanOnlyByRace, At, Carries, tables, history, bounds
<1>21. ASSUME NEW p \in Proc, Count(p) PROVE (Counted /\ OrphanOnlyByRace)'
  <2>1. PICK s \in Source :
          /\ Exists(s) /\ MediaOf(s) = {}
          /\ Start(p, [Idle EXCEPT !.pc = "dropsource", !.source = s])
    BY <1>21 DEF Count
  <2> QED
    BY <1>21, <2>1, <1>0, <1>z, <1>m
    DEF Count, Start, Counted, OrphanOnlyByRace, At, Carries, tables, history, bounds, MediaOf
<1>22. ASSUME NEW p \in Proc, DropSource(p) PROVE (Counted /\ OrphanOnlyByRace)'
  BY <1>22, <1>0, <1>z, <1>m
  DEF DropSource, Done, Counted, OrphanOnlyByRace, At, Carries, tables, history, bounds
<1>23. ASSUME NEW p \in Proc, BeginSub(p) PROVE (Counted /\ OrphanOnlyByRace)'
  <2>1. PICK u \in Sub, t \in Type :
          Start(p, [Idle EXCEPT !.pc = IF Found(u) THEN "retype" ELSE "putsub", !.sub = u, !.type = t])
    BY <1>23 DEF BeginSub
  <2> QED
    BY <1>23, <2>1, <1>0, <1>z, <1>m
    DEF BeginSub, Start, Counted, OrphanOnlyByRace, At, Carries, tables, history, bounds
<1>24. ASSUME NEW p \in Proc, PutSub(p) PROVE (Counted /\ OrphanOnlyByRace)'
  <2>1. CASE req' = [req EXCEPT ![p] = Idle] /\ UNCHANGED <<tables, history>>
    BY <2>1, <1>0, <1>z, <1>m DEF Counted, OrphanOnlyByRace, At, tables, history
  <2>2. CASE Redefine(req[p].sub, req[p].type, p)
    BY <1>0, <1>24, <2>2, <1>r DEF PutSub, At, Carries
  <2> QED
    BY <1>24, <2>1, <2>2 DEF PutSub, Refused, Done
<1>25. ASSUME NEW p \in Proc, Retype(p) PROVE (Counted /\ OrphanOnlyByRace)'
  <2>1. CASE req' = [req EXCEPT ![p] = Idle] /\ UNCHANGED <<tables, history>>
    BY <2>1, <1>0, <1>z, <1>m DEF Counted, OrphanOnlyByRace, At, tables, history
  <2>2. CASE Redefine(req[p].sub, req[p].type, p)
    BY <1>0, <1>25, <2>2, <1>r DEF Retype, At, Carries
  <2> QED
    BY <1>25, <2>1, <2>2 DEF Retype, Refused, Done
<1>26. ASSUME NEW p \in Proc, DropSub(p) PROVE (Counted /\ OrphanOnlyByRace)'
  BY <1>26, <1>r DEF DropSub
<1>27. ASSUME NEW p \in Proc, Fail(p) PROVE (Counted /\ OrphanOnlyByRace)'
  BY <1>27, <1>0, <1>z, <1>m
  DEF Fail, Done, Counted, OrphanOnlyByRace, At, Carries, tables, history, bounds
<1>28. CASE UNCHANGED vars
  BY <1>28 DEF vars, tables, history, bounds, Counted, OrphanOnlyByRace, At, Carries, tables,
     history, bounds
<1> QED
  BY <1>1, <1>2, <1>3, <1>4, <1>5, <1>6, <1>7, <1>8, <1>9, <1>10, <1>11, <1>12, <1>13, <1>14,
     <1>15, <1>16, <1>17, <1>18, <1>19, <1>20, <1>21, <1>22, <1>23, <1>24, <1>25, <1>26, <1>27,
     <1>28 DEF Next

(* What stood at its validation stands until the vocabulary is changed.    *)
LEMMA SubTypesStep ==
  ASSUME TypeOK, Carried, Standing, SubTypesKnown, [Next]_vars
  PROVE  (Standing /\ SubTypesKnown)'
<1>0. /\ req \in [Proc -> Request] /\ (\A p \in Proc : req[p] \in Request /\ Carries(req[p]))
      /\ \A p \in Proc : KindOf(p) \in Kind
  BY KindFacts DEF TypeOK, Carried, KindOf, Request
<1>z. Idle.pc = "idle" /\ ~Idle.stands
  BY DEF Idle
<1>m. /\ media \in [Entry -> Row \union {NoRow}] /\ source \in [Source -> {"none", "on", "off"}]
      /\ vocab \in [Sub -> Type \union {NoType}]
      /\ \A e \in Entry : media[e] # NoRow =>
           media[e].source \in Source /\ media[e].sub \in Sub \union {NoSub} /\ media[e].type \in Type
  BY DEF TypeOK, Row
<1>k. known \subseteq Entry
  BY DEF TypeOK
<1>r. ASSUME NEW p \in Proc, NEW u \in Sub, NEW t \in Type \union {NoType}, Redefine(u, t, p)
      PROVE  (Standing /\ SubTypesKnown)'
  <2>1. req'[p] = Idle
    BY <1>0, <1>r, Redefined
  <2>2. \A q \in Proc \ {p} :
          /\ req'[q].pc = req[q].pc /\ req'[q].source = req[q].source /\ req'[q].sub = req[q].sub
          /\ req'[q].type = req[q].type /\ req'[q].tag = req[q].tag
    BY <1>0, <1>r, Redefined
  <2>3. \A q \in Proc \ {p} : req'[q].stands => req[q].stands /\ req[q].sub # u
    BY <1>0, <1>r, Redefined
  <2>0. vocab' = [vocab EXCEPT ![u] = t]
    BY <1>r DEF Redefine
  <2>4. Standing'
    <3> SUFFICES ASSUME NEW q \in Proc, req'[q].stands
                 PROVE  req'[q].sub = NoSub \/ (req'[q].sub \in Sub /\ vocab'[req'[q].sub] = req'[q].type)
      BY DEF Standing
    <3>1. q # p
      BY <1>z, <2>1
    <3>2. req[q].sub = NoSub \/ (req[q].sub \in Sub /\ vocab[req[q].sub] = req[q].type)
      BY <2>3, <3>1 DEF Standing
    <3> QED
      BY <1>m, <2>0, <2>2, <2>3, <3>1, <3>2
  <2>5. SubTypesKnown'
    BY <1>r, <1>m, <1>k DEF Redefine, SubTypesKnown
  <2> QED
    BY <2>4, <2>5
<1>1. ASSUME NEW p \in Proc, BeginCreate(p) PROVE (Standing /\ SubTypesKnown)'
  <2>1. PICK e \in Entry \ usedE, s \in Source, t \in Type, u \in Sub \union {NoSub}, ns \in Names :
          usedE' = usedE \union {e} /\ Submit(p, e, s, t, u, ns)
    BY <1>1 DEF BeginCreate
  <2>2. /\ req'[p].sub = u /\ req'[p].stands = (u = NoSub)
        /\ \A q \in Proc \ {p} : req'[q] = req[q]
    BY <1>0, <2>1 DEF Submit, Start, Idle
  <2>3. req'[p].stands => req'[p].sub = NoSub
    BY <2>2
  <2> QED
    BY <1>1, <1>z, <2>2, <2>3 DEF BeginCreate, Standing, SubTypesKnown, tables, history
<1>2. ASSUME NEW p \in Proc, BeginUpdate(p) PROVE (Standing /\ SubTypesKnown)'
  <2>1. PICK e \in Entry, s \in Source, t \in Type, u \in Sub \union {NoSub}, ns \in Names :
          Stored(e) /\ Submit(p, e, s, t, u, ns)
    BY <1>2 DEF BeginUpdate
  <2>2. /\ req'[p].sub = u /\ req'[p].stands = (u = NoSub)
        /\ \A q \in Proc \ {p} : req'[q] = req[q]
    BY <1>0, <2>1 DEF Submit, Start, Idle
  <2>3. req'[p].stands => req'[p].sub = NoSub
    BY <2>2
  <2> QED
    BY <1>2, <1>z, <2>2, <2>3 DEF BeginUpdate, Standing, SubTypesKnown, tables, history
<1>3. ASSUME NEW p \in Proc, Validate(p) PROVE (Standing /\ SubTypesKnown)'
  <2>1. CASE req' = [req EXCEPT ![p] = Idle] /\ UNCHANGED <<tables, history>>
    BY <2>1, <1>0, <1>z, <1>m DEF Standing, SubTypesKnown, ValidSubType, At, tables, history
  <2>2. CASE /\ req' = [req EXCEPT ![p].pc = "write", ![p].stands = TRUE]
             /\ ValidSubType(req[p].type, req[p].sub) /\ UNCHANGED <<tables, history>>
    <3>1. /\ req'[p].sub = req[p].sub /\ req'[p].type = req[p].type /\ req[p].sub \in Sub
          /\ \A q \in Proc \ {p} : req'[q] = req[q]
      BY <1>0, <1>3, <2>2 DEF Validate, At, Carries
    <3>2. Standing'
      BY <2>2, <3>1, ZenonT(40) DEF Standing, ValidSubType, tables
    <3> QED
      BY <2>2, <3>2 DEF SubTypesKnown, tables, history
  <2> QED
    BY <1>3, <2>1, <2>2 DEF Validate, Done
<1>4. ASSUME NEW p \in Proc, InsertRow(p) PROVE (Standing /\ SubTypesKnown)'
  BY <1>4, <1>0, <1>z, <1>m
  DEF InsertRow, Written, Standing, SubTypesKnown, At, Carries, tables, history, bounds
<1>5. ASSUME NEW p \in Proc, UpdateRow(p) PROVE (Standing /\ SubTypesKnown)'
  <2>0. req[p].entry \in Entry
    BY <1>0, <1>5 DEF UpdateRow, At, Carries
  <2>1. /\ req' = [req EXCEPT ![p].pc = "clear"] /\ vocab' = vocab
        /\ known' = IF req[p].stands THEN known \union {req[p].entry} ELSE known \ {req[p].entry}
    BY <1>5 DEF UpdateRow, Written
  <2>2. \A e \in Entry : media'[e] # NoRow =>
          /\ media[e] # NoRow
          /\ e # req[p].entry => media'[e] = media[e]
          /\ e = req[p].entry => media'[e].sub = req[p].sub /\ media'[e].type = req[p].type
    BY <1>0, <1>m, <1>5 DEF UpdateRow, At, Carries
  <2>3. known' \subseteq known \union {req[p].entry} /\ (req[p].entry \in known' => req[p].stands)
    BY <2>1
  <2>4. Standing'
    BY <1>0, <2>1 DEF Standing
  <2>5. req[p].stands => req[p].sub = NoSub \/ vocab[req[p].sub] = req[p].type
    BY DEF Standing
  <2>6. SubTypesKnown'
    BY <1>k, <2>0, <2>1, <2>2, <2>3, <2>5 DEF SubTypesKnown
  <2> QED
    BY <2>4, <2>6
<1>6. ASSUME NEW p \in Proc, ClearLinks(p) PROVE (Standing /\ SubTypesKnown)'
  BY <1>6, <1>0, <1>z, <1>m
  DEF ClearLinks, Onward, Standing, SubTypesKnown, At, Carries, tables, history, bounds
<1>7. ASSUME NEW p \in Proc, AddTag(p) PROVE (Standing /\ SubTypesKnown)'
  BY <1>7, <1>0, <1>z, <1>m
  DEF AddTag, Standing, SubTypesKnown, At, Carries, tables, history, bounds
<1>8. ASSUME NEW p \in Proc, ReadTag(p) PROVE (Standing /\ SubTypesKnown)'
  <2>1. CASE req' = [req EXCEPT ![p] = Idle] /\ UNCHANGED <<tables, want, touched, stray, known>>
    BY <2>1, <1>0, <1>z, <1>m DEF Standing, SubTypesKnown, ValidSubType, At, tables, history
  <2>2. CASE \E i \in Holders(KindOf(p), req[p].name) :
          req' = [req EXCEPT ![p].pc = "link", ![p].tag = i] /\ UNCHANGED <<tables, history>>
    BY <1>8, <2>2, <1>0, <1>z, <1>m
    DEF Holders, Standing, SubTypesKnown, ValidSubType, At, tables, history
  <2> QED
    BY <1>8, <2>1, <2>2 DEF ReadTag, Abort, Done, history
<1>9. ASSUME NEW p \in Proc, Link(p) PROVE (Standing /\ SubTypesKnown)'
  <2>1. CASE req' = [req EXCEPT ![p] = Idle] /\ UNCHANGED link
    BY <1>9, <2>1, <1>0, <1>z, <1>m
    DEF Link, Abort, Standing, SubTypesKnown, ValidSubType, At, tables, history
  <2>2. CASE req' = [req EXCEPT ![p] = Idle] /\ link' = link \union {<<KindOf(p), req[p].entry, req[p].tag>>}
    BY <1>9, <2>2, <1>0, <1>z, <1>m
    DEF Link, Abort, Standing, SubTypesKnown, ValidSubType, At, tables, history
  <2>3. CASE req' = [req EXCEPT ![p].pc = "tag"] /\ link' = link \union {<<KindOf(p), req[p].entry, req[p].tag>>}
    BY <1>9, <2>3, <1>0, <1>z, <1>m
    DEF Link, Abort, Standing, SubTypesKnown, ValidSubType, At, tables, history
  <2>4. CASE /\ req' = [req EXCEPT ![p].pc = "clear", ![p].at = req[p].at + 1]
             /\ link' = link \union {<<KindOf(p), req[p].entry, req[p].tag>>}
    BY <1>9, <2>4, <1>0, <1>z, <1>m
    DEF Link, Abort, Standing, SubTypesKnown, ValidSubType, At, tables, history
  <2> QED
    BY <1>9, <2>1, <2>2, <2>3, <2>4 DEF Link, Abort, Done, Onward
<1>10. ASSUME NEW p \in Proc, BeginDelete(p) PROVE (Standing /\ SubTypesKnown)'
  <2>1. PICK e \in Entry :
          Stored(e) /\ Start(p, [Idle EXCEPT !.pc = "unlink", !.entry = e])
    BY <1>10 DEF BeginDelete
  <2> QED
    BY <1>10, <2>1, <1>0, <1>z, <1>m
    DEF BeginDelete, Start, Standing, SubTypesKnown, At, Carries, tables, history, bounds
<1>11. ASSUME NEW p \in Proc, Unlink(p) PROVE (Standing /\ SubTypesKnown)'
  BY <1>11, <1>0, <1>z, <1>m
  DEF Unlink, Standing, SubTypesKnown, At, Carries, tables, history, bounds
<1>12. ASSUME NEW p \in Proc, Drop(p) PROVE (Standing /\ SubTypesKnown)'
  BY <1>12, <1>0, <1>z, <1>m
  DEF Drop, Done, Standing, SubTypesKnown, At, Carries, tables, history, bounds
<1>13. ASSUME NEW p \in Proc, BeginCreateTag(p) PROVE (Standing /\ SubTypesKnown)'
  <2>1. PICK j \in 1..Len(Kinds), n \in Name :
          Start(p, [Idle EXCEPT !.pc = "tag", !.at = j, !.names[Kinds[j]] = {n}])
    BY <1>13 DEF BeginCreateTag
  <2> QED
    BY <1>13, <2>1, <1>0, <1>z, <1>m
    DEF BeginCreateTag, Start, Standing, SubTypesKnown, At, Carries, tables, history, bounds
<1>14. ASSUME NEW p \in Proc, Rename(p) PROVE (Standing /\ SubTypesKnown)'
  <2>1. PICK k \in Kind, i \in TagId, n \in Name :
          /\ tag[k][i] # NoName
          /\ IF Holders(k, n) \subseteq {i}
             THEN tag' = [tag EXCEPT ![k][i] = n] /\ Touch(KeysOf(k, {n, tag[k][i]}))
             ELSE UNCHANGED <<tag, history>>
    BY <1>14 DEF Rename
  <2> QED
    BY <1>14, <2>1, <1>0, <1>z, <1>m
    DEF Rename, Touch, Standing, SubTypesKnown, At, Carries, tables, history, bounds
<1>15. ASSUME NEW p \in Proc, DropTagLinks(p) PROVE (Standing /\ SubTypesKnown)'
  <2>1. PICK j \in 1..Len(Kinds), i \in TagId :
          /\ tag[Kinds[j]][i] # NoName
          /\ link' = {l \in link : ~(l[1] = Kinds[j] /\ l[3] = i)}
          /\ Touch(KeysOf(Kinds[j], {tag[Kinds[j]][i]}))
          /\ Start(p, [Idle EXCEPT !.pc = "droptag", !.at = j, !.tag = i])
    BY <1>15 DEF DropTagLinks
  <2> QED
    BY <1>15, <2>1, <1>0, <1>z, <1>m
    DEF DropTagLinks, Start, Touch, Standing, SubTypesKnown, At, Carries, tables, history, bounds
<1>16. ASSUME NEW p \in Proc, DropTag(p) PROVE (Standing /\ SubTypesKnown)'
  BY <1>16, <1>0, <1>z, <1>m
  DEF DropTag, Touch, Done, Standing, SubTypesKnown, At, Carries, tables, history, bounds
<1>17. ASSUME NEW p \in Proc, BeginCreateSource(p) PROVE (Standing /\ SubTypesKnown)'
  <2>1. PICK s \in Source :
          Start(p, [Idle EXCEPT !.pc = "putsource", !.source = s])
    BY <1>17 DEF BeginCreateSource
  <2> QED
    BY <1>17, <2>1, <1>0, <1>z, <1>m
    DEF BeginCreateSource, Start, Standing, SubTypesKnown, At, Carries, tables, history, bounds
<1>18. ASSUME NEW p \in Proc, PutSource(p) PROVE (Standing /\ SubTypesKnown)'
  BY <1>18, <1>0, <1>z, <1>m
  DEF PutSource, Done, Standing, SubTypesKnown, At, Carries, tables, history, bounds
<1>19. ASSUME NEW p \in Proc, BeginUpdateSource(p) PROVE (Standing /\ SubTypesKnown)'
  <2>1. PICK s \in Source :
          Start(p, [Idle EXCEPT !.pc = "updatesource", !.source = s])
    BY <1>19 DEF BeginUpdateSource
  <2> QED
    BY <1>19, <2>1, <1>0, <1>z, <1>m
    DEF BeginUpdateSource, Start, Standing, SubTypesKnown, At, Carries, tables, history, bounds
<1>20. ASSUME NEW p \in Proc, UpdateSource(p) PROVE (Standing /\ SubTypesKnown)'
  BY <1>20, <1>0, <1>z, <1>m
  DEF UpdateSource, Done, Standing, SubTypesKnown, At, Carries, tables, history, bounds
<1>21. ASSUME NEW p \in Proc, Count(p) PROVE (Standing /\ SubTypesKnown)'
  <2>1. PICK s \in Source :
          /\ Exists(s) /\ MediaOf(s) = {}
          /\ Start(p, [Idle EXCEPT !.pc = "dropsource", !.source = s])
    BY <1>21 DEF Count
  <2> QED
    BY <1>21, <2>1, <1>0, <1>z, <1>m
    DEF Count, Start, Standing, SubTypesKnown, At, Carries, tables, history, bounds
<1>22. ASSUME NEW p \in Proc, DropSource(p) PROVE (Standing /\ SubTypesKnown)'
  BY <1>22, <1>0, <1>z, <1>m
  DEF DropSource, Done, Standing, SubTypesKnown, At, Carries, tables, history, bounds
<1>23. ASSUME NEW p \in Proc, BeginSub(p) PROVE (Standing /\ SubTypesKnown)'
  <2>1. PICK u \in Sub, t \in Type :
          Start(p, [Idle EXCEPT !.pc = IF Found(u) THEN "retype" ELSE "putsub", !.sub = u, !.type = t])
    BY <1>23 DEF BeginSub
  <2> QED
    BY <1>23, <2>1, <1>0, <1>z, <1>m
    DEF BeginSub, Start, Standing, SubTypesKnown, At, Carries, tables, history, bounds
<1>24. ASSUME NEW p \in Proc, PutSub(p) PROVE (Standing /\ SubTypesKnown)'
  <2>1. CASE req' = [req EXCEPT ![p] = Idle] /\ UNCHANGED <<tables, history>>
    BY <2>1, <1>0, <1>z, <1>m DEF Standing, SubTypesKnown, ValidSubType, At, tables, history
  <2>2. CASE Redefine(req[p].sub, req[p].type, p)
    BY <1>0, <1>24, <2>2, <1>r DEF PutSub, At, Carries
  <2> QED
    BY <1>24, <2>1, <2>2 DEF PutSub, Refused, Done
<1>25. ASSUME NEW p \in Proc, Retype(p) PROVE (Standing /\ SubTypesKnown)'
  <2>1. CASE req' = [req EXCEPT ![p] = Idle] /\ UNCHANGED <<tables, history>>
    BY <2>1, <1>0, <1>z, <1>m DEF Standing, SubTypesKnown, ValidSubType, At, tables, history
  <2>2. CASE Redefine(req[p].sub, req[p].type, p)
    BY <1>0, <1>25, <2>2, <1>r DEF Retype, At, Carries
  <2> QED
    BY <1>25, <2>1, <2>2 DEF Retype, Refused, Done
<1>26. ASSUME NEW p \in Proc, DropSub(p) PROVE (Standing /\ SubTypesKnown)'
  BY <1>26, <1>r DEF DropSub
<1>27. ASSUME NEW p \in Proc, Fail(p) PROVE (Standing /\ SubTypesKnown)'
  BY <1>27, <1>0, <1>z, <1>m
  DEF Fail, Done, Standing, SubTypesKnown, At, Carries, tables, history, bounds
<1>28. CASE UNCHANGED vars
  BY <1>28
  DEF vars, tables, history, bounds, Standing, SubTypesKnown, At, Carries, tables, history, bounds
<1> QED
  BY <1>1, <1>2, <1>3, <1>4, <1>5, <1>6, <1>7, <1>8, <1>9, <1>10, <1>11, <1>12, <1>13, <1>14,
     <1>15, <1>16, <1>17, <1>18, <1>19, <1>20, <1>21, <1>22, <1>23, <1>24, <1>25, <1>26, <1>27,
     <1>28 DEF Next

(* Where a step changes nothing an entry's editors rely on but for keys it *)
(* marks as touched, they are as far as they were.                         *)
LEMMA TrackFrame ==
  ASSUME NEW e \in Entry, Track(e), \A p \in Proc : req[p].at \in 1..Len(Kinds),
         \A q \in Proc : Editing(q, e)' <=> Editing(q, e),
         \A q \in Proc : Editing(q, e) =>
           /\ (req[q].pc = "clear") <=> (req'[q].pc = "clear")
           /\ req'[q].at = req[q].at
           /\ \A k \in Kind, n \in Name : LeftOf(q, k, n)' <=> LeftOf(q, k, n)
           /\ Aimed(q, e)',
         \A k \in Kind, n \in Name :
           /\ Asks(e, k, n)' <=> Asks(e, k, n)
           /\ Excused(e, k, n) => Excused(e, k, n)'
           /\ Excused(e, k, n)' \/ (Sees(e, k, n)' <=> Sees(e, k, n))
  PROVE  Track(e)'
<1>1. \A k \in Kind, n \in Name : Behind(e, k, n) => Behind(e, k, n)'
  BY DEF Behind
<1>2. ASSUME NEW q \in Proc, Editing(q, e) PROVE Progress(q, e)'
  <2>1. Progress(q, e)
    BY <1>2 DEF Track
  <2> SUFFICES ASSUME NEW j \in 1..Len(Kinds), NEW n \in Name
               PROVE  /\ j < req'[q].at => Behind(e, Kinds[j], n)'
                      /\ j = req'[q].at /\ req'[q].pc # "clear" => Under(q, e, j, n)'
                      /\ j > req'[q].at \/ (j = req'[q].at /\ req'[q].pc = "clear") =>
                           Ahead(q, e, j, n)'
    BY DEF Progress
  <2>2. Kinds[j] \in Kind
    BY KindFacts
  <2>3. Under(q, e, j, n) => Under(q, e, j, n)'
    BY <1>2, <2>2 DEF Under
  <2>4. Ahead(q, e, j, n) => Ahead(q, e, j, n)'
    BY <1>2, <2>2 DEF Ahead
  <2>5. /\ j < req[q].at => Behind(e, Kinds[j], n)
        /\ j = req[q].at /\ req[q].pc # "clear" => Under(q, e, j, n)
        /\ j > req[q].at \/ (j = req[q].at /\ req[q].pc = "clear") => Ahead(q, e, j, n)
    BY <2>1 DEF Progress
  <2>6. req'[q].at = req[q].at /\ ((req[q].pc = "clear") <=> (req'[q].pc = "clear"))
    BY <1>2
  <2> QED
    BY <1>1, <2>2, <2>3, <2>4, <2>5, <2>6
<1>3. \A p, q \in Proc : Editing(p, e)' /\ Editing(q, e)' => p = q
  BY DEF Track
<1>4. \A p \in Proc : Editing(p, e)' => Progress(p, e)' /\ Aimed(p, e)'
  BY <1>2
<1>5. (\A p \in Proc : ~Editing(p, e)') => \A k \in Kind, n \in Name : Behind(e, k, n)'
  BY <1>1 DEF Track
<1> QED
  BY <1>3, <1>4, <1>5 DEF Track

(* The part of a request an edit is made of is left alone.                 *)
Same(q) ==
  /\ req'[q].pc = req[q].pc /\ req'[q].entry = req[q].entry /\ req'[q].names = req[q].names
  /\ req'[q].at = req[q].at /\ req'[q].name = req[q].name /\ req'[q].tag = req[q].tag

(* What is steady after a step was so before.                              *)
LEMMA WasTracked ==
  ASSUME Tracked, NEW e \in Entry, Steady(e)', NEW p \in Proc,
         \A q \in Proc \ {p} : Same(q), Deleting(p, e) => Deleting(p, e)',
         media'[e] # NoRow => media[e] # NoRow, e \in blurred => e \in blurred'
  PROVE  Track(e)
<1>1. \A q \in Proc : Deleting(q, e) => Deleting(q, e)'
  BY DEF Deleting, Same
<1>2. Steady(e)
  BY <1>1 DEF Steady
<1> QED
  BY <1>2 DEF Tracked

(* A step of a request that is not editing e, and leaves its links alone.  *)
LEMMA Bystander ==
  ASSUME Tracked, NEW e \in Entry, Steady(e)', NEW p \in Proc,
         \A q \in Proc : req[q].at \in 1..Len(Kinds),
         \A q \in Proc \ {p} : Same(q),
         ~Editing(p, e), ~Editing(p, e)', Deleting(p, e) => Deleting(p, e)',
         media'[e] # NoRow => media[e] # NoRow, e \in blurred => e \in blurred',
         tag' = tag, want'[e] = want[e],
         \A x : <<e, x>> \in touched => <<e, x>> \in touched',
         \A k, i : <<k, e, i>> \in link' <=> <<k, e, i>> \in link
  PROVE  Track(e)'
<1>1. \A q \in Proc : Editing(q, e)' <=> Editing(q, e)
  BY DEF Editing, Same
<1>4. Track(e)
  BY WasTracked
<1>5. \A q \in Proc : Editing(q, e) => Same(q)
  OBVIOUS
<1>6. \A k, n : Asks(e, k, n)' <=> Asks(e, k, n)
  BY DEF Asks
<1>7. \A k, n : Excused(e, k, n) => Excused(e, k, n)'
  BY DEF Excused
<1>8. \A k, n : Sees(e, k, n)' <=> Sees(e, k, n)
  BY DEF Sees, Linked, Holders
<1>9. \A q \in Proc : Same(q) => \A k, n : LeftOf(q, k, n)' <=> LeftOf(q, k, n)
  BY DEF Same, LeftOf, Left, KindOf
<1>10. ASSUME NEW q \in Proc, Editing(q, e) PROVE Aimed(q, e)'
  <2>1. Aimed(q, e) /\ Same(q)
    BY <1>4, <1>5, <1>10 DEF Track
  <2> QED
    BY <1>7, <2>1 DEF Aimed, Same, KindOf
<1>11. \A q \in Proc : Editing(q, e) =>
         (req[q].pc = "clear" <=> req'[q].pc = "clear") /\ req'[q].at = req[q].at
  BY <1>5 DEF Same
<1> QED
  BY <1>1, <1>4, <1>5, <1>6, <1>7, <1>8, <1>9, <1>10, <1>11, TrackFrame

(* The keys an entry is given are those of the names of each kind.         *)
LEMMA AskedKeys ==
  ASSUME NEW names \in Names, NEW k \in Kind, NEW n
  PROVE  <<k, Key(k, n)>> \in AllKeys(names) <=> \E m \in names[k] : Key(k, m) = Key(k, n)
BY DEF AllKeys, KeysOf

(* The editor of an entry goes on: to its next name, to the next kind, or  *)
(* it is through.                                                          *)
LEMMA OnwardTrack ==
  ASSUME NEW e \in Entry, NEW p \in Proc, NEW k \in Kind, k = KindOf(p),
         req \in [Proc -> Request], Editing(p, e),
         Onward(p, req[p]), \A q \in Proc \ {p} : ~Editing(q, e), want' = want,
         \A j \in 1..Len(Kinds), n \in Name : j < req[p].at => Behind(e, Kinds[j], n)',
         \A j \in 1..Len(Kinds), n \in Name : j > req[p].at => Ahead(p, e, j, n),
         \A n \in Name :
           LET left == \E m \in req[p].names[k] : Key(k, m) = Key(k, n) IN
           /\ left => Asks(e, k, n)
           /\ \/ Excused(e, k, n)'
              \/ (Sees(e, k, n)' => Asks(e, k, n)) /\ (Asks(e, k, n) => Sees(e, k, n)' \/ left)
  PROVE  Track(e)'
<1> DEFINE at == req[p].at
<1>0. at \in 1..Len(Kinds) /\ k = Kinds[at]
  BY KindFacts DEF Request, KindOf
<1>1. \A q \in Proc \ {p} : ~Editing(q, e)'
  BY DEF Onward, Editing
<1>2. \A l, n : Asks(e, l, n)' <=> Asks(e, l, n)
  BY DEF Asks
<1>3. ASSUME NEW j \in 1..Len(Kinds), NEW n \in Name, j > at
      PROVE  Asks(e, Kinds[j], n) <=> \E m \in req[p].names[Kinds[j]] : Key(Kinds[j], m) = Key(Kinds[j], n)
  <2>1. Kinds[j] # k
    BY <1>0, <1>3, KindFacts
  <2> QED
    BY <1>3, <2>1 DEF Ahead, LeftOf, Left
<1>4. CASE req[p].names[k] # {}
  <2>1. req'[p].pc = "tag" /\ req'[p].at = at /\ req'[p].names = req[p].names /\ req'[p].entry = e
    BY <1>4 DEF Onward, Editing, Request
  <2>2. \A l, n : LeftOf(p, l, n)' <=> \E m \in req[p].names[l] : Key(l, m) = Key(l, n)
    BY <2>1 DEF LeftOf, Left
  <2>3. \A j \in 1..Len(Kinds), n \in Name : j = at => Under(p, e, j, n)'
    BY <1>0, <1>2, <2>2 DEF Under
  <2>4. \A j \in 1..Len(Kinds), n \in Name : j > at => Ahead(p, e, j, n)'
    BY <1>2, <1>3, <2>2 DEF Ahead
  <2>5. Progress(p, e)'
    BY <1>0, <2>1, <2>3, <2>4 DEF Progress
  <2>6. Aimed(p, e)' /\ Editing(p, e)'
    BY <2>1 DEF Aimed, Editing
  <2> QED
    BY <1>1, <2>5, <2>6 DEF Track
<1>5. ASSUME req[p].names[k] = {}, NEW j \in 1..Len(Kinds), NEW n \in Name, j <= at
      PROVE  Behind(e, Kinds[j], n)'
  <2>1. CASE j < at
    BY <2>1
  <2>2. CASE j = at
    BY <1>0, <1>2, <1>5, <2>2 DEF Behind
  <2> QED
    BY <1>0, <1>5, <2>1, <2>2
<1>6. CASE req[p].names[k] = {} /\ at < Len(Kinds)
  <2>1. req'[p].pc = "clear" /\ req'[p].at = at + 1 /\ req'[p].names = req[p].names /\ req'[p].entry = e
    BY <1>6 DEF Onward, Editing, Request
  <2>2. \A l, n : LeftOf(p, l, n)' <=> \E m \in req[p].names[l] : Key(l, m) = Key(l, n)
    BY <2>1 DEF LeftOf, Left
  <2>3. \A j \in 1..Len(Kinds), n \in Name : j > at => Ahead(p, e, j, n)'
    BY <1>2, <1>3, <2>2 DEF Ahead
  <2>4. Progress(p, e)'
    BY <1>0, <1>5, <1>6, <2>1, <2>3, KindFacts DEF Progress
  <2>5. Aimed(p, e)' /\ Editing(p, e)'
    BY <2>1 DEF Aimed, Editing
  <2> QED
    BY <1>1, <2>4, <2>5 DEF Track
<1>7. CASE req[p].names[k] = {} /\ ~(at < Len(Kinds))
  <2>1. req'[p] = Idle
    BY <1>7 DEF Onward
  <2>2. ~Editing(p, e)'
    BY <2>1 DEF Editing, Idle
  <2>3. at = Len(Kinds)
    BY <1>0, <1>7, KindFacts
  <2>4. \A l \in Kind, n \in Name : Behind(e, l, n)'
    BY <1>5, <1>7, <2>3, KindFacts
  <2> QED
    BY <1>1, <2>2, <2>4 DEF Track
<1> QED
  BY <1>4, <1>6, <1>7

(* An admin's change of tags: edits go on but for the keys it touched.     *)
LEMMA AdminTrack ==
  ASSUME Tracked, NEW e \in Entry, Steady(e)', NEW p \in Proc,
         \A q \in Proc : req[q].at \in 1..Len(Kinds) /\ KindOf(q) \in Kind /\ Carries(req[q]),
         \A q \in Proc \ {p} : Same(q),
         ~Editing(p, e), ~Editing(p, e)', ~Deleting(p, e),
         media' = media, blurred' = blurred, want' = want, touched \subseteq touched',
         \A k \in Kind, n \in Name : Excused(e, k, n)' \/ (Sees(e, k, n)' <=> Sees(e, k, n)),
         \A k \in Kind, i \in TagId :
           \/ tag'[k][i] = tag[k][i]
           \/ \A n \in {tag[k][i], tag'[k][i]} \ {NoName} : Excused(e, k, n)'
  PROVE  Track(e)'
<1>1. Track(e)
  BY WasTracked
<1>2. \A q \in Proc : Editing(q, e)' <=> Editing(q, e)
  BY DEF Editing, Same
<1>3. \A q \in Proc : Editing(q, e) => Same(q)
  OBVIOUS
<1>4. \A k, n : (Asks(e, k, n)' <=> Asks(e, k, n)) /\ (Excused(e, k, n) => Excused(e, k, n)')
  BY DEF Asks, Excused
<1>5. \A q \in Proc : Same(q) => \A k, n : LeftOf(q, k, n)' <=> LeftOf(q, k, n)
  BY DEF Same, LeftOf, Left, KindOf
<1>6. ASSUME NEW q \in Proc, Editing(q, e) PROVE Aimed(q, e)'
  <2> SUFFICES ASSUME req[q].pc = "link" PROVE Aimed(q, e)'
    BY <1>3, <1>6 DEF Aimed, Same
  <2>1. Same(q) /\ Aimed(q, e) /\ KindOf(q) \in Kind /\ req[q].tag \in TagId
    BY <1>1, <1>3, <1>6 DEF Track, Carries
  <2>2. PICK k \in Kind, i \in TagId : k = KindOf(q) /\ i = req[q].tag
    BY <2>1
  <2>n. PICK n : n = req[q].name
    OBVIOUS
  <2>3. k = KindOf(q)' /\ i = req'[q].tag /\ n = req'[q].name
    BY <2>1, <2>2, <2>n DEF Same, KindOf
  <2>4. \/ tag[k][i] # NoName /\ Key(k, tag[k][i]) = Key(k, n)
        \/ Excused(e, k, n) /\ (tag[k][i] # NoName => Excused(e, k, tag[k][i]))
    BY <2>1, <2>2, <2>n DEF Aimed
  <2>5. CASE tag'[k][i] = tag[k][i]
    BY <1>4, <2>3, <2>4, <2>5 DEF Aimed
  <2>6. CASE tag'[k][i] # tag[k][i]
    <3>0. PICK old, new : old = tag[k][i] /\ new = tag'[k][i]
      OBVIOUS
    <3>1. (old # NoName => Excused(e, k, old)') /\ (new # NoName => Excused(e, k, new)')
      BY <2>6, <3>0
    <3>2. Excused(e, k, n)'
      BY <1>4, <2>4, <3>0, <3>1 DEF Excused
    <3>3. tag'[k][i] # NoName => <<e, <<k, Key(k, tag'[k][i])>>>> \in touched'
      BY <3>0, <3>1 DEF Excused
    <3> QED
      BY <2>3, <3>2, <3>3 DEF Aimed, Excused
  <2> QED
    BY <2>5, <2>6
<1>7. \A q \in Proc : Editing(q, e) =>
        (req[q].pc = "clear" <=> req'[q].pc = "clear") /\ req'[q].at = req[q].at
  BY <1>3 DEF Same
<1> QED
  BY <1>1, <1>2, <1>3, <1>4, <1>5, <1>6, <1>7, TrackFrame

(* Every step leaves the edits of an entry as far as they should be.       *)
LEMMA TrackStep ==
  ASSUME TypeOK, Carried, Drawn, Tracked, [Next]_vars
  PROVE  Tracked'
<1> SUFFICES ASSUME NEW e \in Entry, Steady(e)' PROVE Track(e)'
  BY DEF Tracked
<1>0. /\ req \in [Proc -> Request] /\ (\A p \in Proc : req[p] \in Request /\ Carries(req[p]))
      /\ \A p \in Proc : KindOf(p) \in Kind /\ req[p].at \in 1..Len(Kinds)
  BY KindFacts DEF TypeOK, Carried, KindOf, Request
<1>z. Idle.pc = "idle" /\ Idle.entry = NoEntry
  BY DEF Idle
<1>s. e \notin blurred' /\ media'[e] # NoRow /\ \A p \in Proc : ~Deleting(p, e)'
  BY DEF Steady
<1>m. /\ media \in [Entry -> Row \union {NoRow}] /\ link \subseteq Kind \X Entry \X TagId
      /\ tag \in [Kind -> [TagId -> Name \union {NoName}]]
  BY DEF TypeOK
<1>r. ASSUME NEW p \in Proc, NEW u, NEW t, Redefine(u, t, p), ~Editing(p, e), ~Deleting(p, e)
      PROVE  Track(e)'
  <2>1. \A q \in Proc \ {p} : Same(q)
    BY <1>0, <1>r DEF Redefine, Same, Request
  <2>2. ~Editing(p, e)'
    BY <1>0, <1>z, <1>r DEF Redefine, Editing
  <2> QED
    BY <1>0, <1>r, <2>1, <2>2, Bystander DEF Redefine
<1>1. ASSUME NEW p \in Proc, BeginCreate(p) PROVE Track(e)'
  <2>0. PICK f \in Entry \ usedE, s \in Source, t \in Type, u \in Sub \union {NoSub}, ns \in Names :
          usedE' = usedE \union {f} /\ Submit(p, f, s, t, u, ns)
    BY <1>1 DEF BeginCreate
  <2>1. \A q \in Proc \ {p} : Same(q)
    BY <1>0, <2>0 DEF Submit, Start, Same
  <2>2. ~Editing(p, e) /\ ~Editing(p, e)' /\ ~Deleting(p, e)
    BY <1>0, <1>z, <1>1, <2>0, NullAssumption
    DEF BeginCreate, Submit, Start, At, Admit, Editing, Deleting, Idle
  <2> QED
    BY <1>0, <1>1, <2>1, <2>2, Bystander DEF BeginCreate, tables, history
<1>2. ASSUME NEW p \in Proc, BeginUpdate(p) PROVE Track(e)'
  <2>0. PICK f \in Entry, s \in Source, t \in Type, u \in Sub \union {NoSub}, ns \in Names :
          Stored(f) /\ Submit(p, f, s, t, u, ns)
    BY <1>2 DEF BeginUpdate
  <2>1. \A q \in Proc \ {p} : Same(q)
    BY <1>0, <2>0 DEF Submit, Start, Same
  <2>2. ~Editing(p, e) /\ ~Editing(p, e)' /\ ~Deleting(p, e)
    BY <1>0, <1>z, <1>2, <2>0, NullAssumption
    DEF BeginUpdate, Submit, Start, At, Admit, Editing, Deleting, Idle
  <2> QED
    BY <1>0, <1>2, <2>1, <2>2, Bystander DEF BeginUpdate, tables, history
<1>3. ASSUME NEW p \in Proc, Validate(p) PROVE Track(e)'
  <2>1. \A q \in Proc \ {p} : Same(q)
    BY <1>0, <1>3 DEF Validate, Done, Same
  <2>2. req'[p].pc = "write" \/ req'[p] = Idle
    <3>1. \/ req' = [req EXCEPT ![p] = Idle]
          \/ req' = [req EXCEPT ![p].pc = "write", ![p].stands = TRUE]
      BY <1>3 DEF Validate, Done
    <3> QED
      BY <1>0, <3>1 DEF Request
  <2>3. ~Editing(p, e) /\ ~Editing(p, e)' /\ ~Deleting(p, e)
    BY <1>z, <1>3, <2>2 DEF Validate, At, Editing, Deleting
  <2> QED
    BY <1>0, <1>3, <2>1, <2>3, Bystander DEF Validate, tables, history
<1>4. ASSUME NEW p \in Proc, InsertRow(p) PROVE Track(e)'
  <2>1. \A q \in Proc \ {p} : Same(q)
    BY <1>0, <1>4 DEF InsertRow, Written, Same
  <2>2. /\ req[p].entry \in Entry /\ req[p].at = 1 /\ req[p].names \in Names
        /\ ~Editing(p, e) /\ ~Deleting(p, e)
    BY <1>0, <1>4 DEF InsertRow, At, Carries, Editing, Deleting, Request, Names
  <2>3. req'[p] = [req[p] EXCEPT !.pc = "clear"]
    BY <1>0, <1>4 DEF InsertRow, Written
  <2>4. CASE req[p].entry = e
    <3>1. /\ req'[p].pc = "clear" /\ req'[p].entry = e /\ req'[p].at = 1
          /\ req'[p].names = req[p].names
      BY <1>0, <2>2, <2>3, <2>4 DEF Request
    <3>2. want'[e] = AllKeys(req[p].names)
      BY <1>4, <2>4 DEF InsertRow, Written, TypeOK
    <3>3. ~Busy(e, Proc \ {p})
      BY <1>s, <1>4, <2>4 DEF InsertRow, Written
    <3>4. \A q \in Proc \ {p} : ~Editing(q, e)'
      BY <2>1, <3>3 DEF Busy, Changing, Editing, Same
    <3>5. \A k \in Kind, n \in Name : LeftOf(p, k, n)' <=> \E m \in req[p].names[k] : Key(k, m) = Key(k, n)
      BY <3>1 DEF LeftOf, Left
    <3>6. \A j \in 1..Len(Kinds), n \in Name : Ahead(p, e, j, n)'
      BY <2>2, <3>2, <3>5, AskedKeys, KindFacts DEF Ahead, Asks
    <3>7. Progress(p, e)' /\ Aimed(p, e)' /\ Editing(p, e)'
      BY <3>1, <3>6, KindFacts DEF Progress, Aimed, Editing
    <3> QED
      BY <3>4, <3>7 DEF Track
  <2>5. CASE req[p].entry # e
    <3>1. ~Editing(p, e)'
      BY <1>0, <2>3, <2>5 DEF Editing, Request
    <3>2. /\ media'[e] = media[e] /\ want'[e] = want[e] /\ (e \in blurred => e \in blurred')
          /\ \A x : <<e, x>> \in touched => <<e, x>> \in touched'
      BY <1>m, <1>4, <2>5 DEF InsertRow, Written, TypeOK
    <3> QED
      BY <1>0, <1>4, <2>1, <2>2, <3>1, <3>2, Bystander DEF InsertRow
  <2> QED
    BY <2>4, <2>5
<1>5. ASSUME NEW p \in Proc, UpdateRow(p) PROVE Track(e)'
  <2>1. \A q \in Proc \ {p} : Same(q)
    BY <1>0, <1>5 DEF UpdateRow, Written, Same
  <2>2. /\ req[p].entry \in Entry /\ req[p].at = 1 /\ req[p].names \in Names
        /\ ~Editing(p, e) /\ ~Deleting(p, e)
    BY <1>0, <1>5 DEF UpdateRow, At, Carries, Editing, Deleting, Request, Names
  <2>3. req'[p] = [req[p] EXCEPT !.pc = "clear"]
    BY <1>0, <1>5 DEF UpdateRow, Written
  <2>4. CASE req[p].entry = e
    <3>1. /\ req'[p].pc = "clear" /\ req'[p].entry = e /\ req'[p].at = 1
          /\ req'[p].names = req[p].names
      BY <1>0, <2>2, <2>3, <2>4 DEF Request
    <3>2. want'[e] = AllKeys(req[p].names)
      BY <1>5, <2>4 DEF UpdateRow, Written, TypeOK
    <3>3. ~Busy(e, Proc \ {p})
      BY <1>s, <1>5, <2>4 DEF UpdateRow, Written
    <3>4. \A q \in Proc \ {p} : ~Editing(q, e)'
      BY <2>1, <3>3 DEF Busy, Changing, Editing, Same
    <3>5. \A k \in Kind, n \in Name : LeftOf(p, k, n)' <=> \E m \in req[p].names[k] : Key(k, m) = Key(k, n)
      BY <3>1 DEF LeftOf, Left
    <3>6. \A j \in 1..Len(Kinds), n \in Name : Ahead(p, e, j, n)'
      BY <2>2, <3>2, <3>5, AskedKeys, KindFacts DEF Ahead, Asks
    <3>7. Progress(p, e)' /\ Aimed(p, e)' /\ Editing(p, e)'
      BY <3>1, <3>6, KindFacts DEF Progress, Aimed, Editing
    <3> QED
      BY <3>4, <3>7 DEF Track
  <2>5. CASE req[p].entry # e
    <3>1. ~Editing(p, e)'
      BY <1>0, <2>3, <2>5 DEF Editing, Request
    <3>2. /\ media'[e] = media[e] /\ want'[e] = want[e] /\ (e \in blurred => e \in blurred')
          /\ \A x : <<e, x>> \in touched => <<e, x>> \in touched'
      BY <1>m, <1>5, <2>5 DEF UpdateRow, Written, TypeOK
    <3> QED
      BY <1>0, <1>5, <2>1, <2>2, <3>1, <3>2, Bystander DEF UpdateRow
  <2> QED
    BY <2>4, <2>5
<1>6. ASSUME NEW p \in Proc, ClearLinks(p) PROVE Track(e)'
  <2>0. PICK k \in Kind : k = KindOf(p)
    BY <1>0
  <2>1. \A q \in Proc \ {p} : Same(q)
    BY <1>0, <1>6 DEF ClearLinks, Onward, Same
  <2>2. CASE req[p].entry = e
    <3>1. Editing(p, e) /\ ~Deleting(p, e)
      BY <1>6, <2>2 DEF ClearLinks, At, Editing, Deleting
    <3>2. Track(e)
      BY <1>6, <2>1, <3>1, WasTracked DEF ClearLinks, history
    <3>3. Progress(p, e) /\ \A q \in Proc \ {p} : ~Editing(q, e)
      BY <3>1, <3>2 DEF Track
    <3>4. \A l, i : <<l, e, i>> \in link' <=> <<l, e, i>> \in link /\ ~(l = k /\ i \in TagId)
      BY <1>6, <2>0, <2>2 DEF ClearLinks
    <3>5. want' = want /\ touched' = touched /\ tag' = tag
      BY <1>6 DEF ClearLinks, history
    <3>6. \A n : ~Sees(e, k, n)'
      BY <3>4 DEF Sees, Linked
    <3>7. \A l \in Kind, n \in Name : l # k /\ Behind(e, l, n) => Behind(e, l, n)'
      BY <3>4, <3>5 DEF Behind, Sees, Linked, Holders, Asks, Excused
    <3>8. \A j \in 1..Len(Kinds), n \in Name : j < req[p].at => Behind(e, Kinds[j], n)'
      <4> TAKE j \in 1..Len(Kinds), n \in Name
      <4> HAVE j < req[p].at
      <4>1. Kinds[j] # k /\ Kinds[j] \in Kind
        BY <1>0, <2>0, KindFacts DEF KindOf
      <4>2. Behind(e, Kinds[j], n)
        BY <3>3 DEF Progress
      <4> QED
        BY <3>7, <4>1, <4>2
    <3>9. \A j \in 1..Len(Kinds), n \in Name : j >= req[p].at => Ahead(p, e, j, n)
      BY <1>0, <1>6, <3>3 DEF Progress, ClearLinks, At
    <3>10. ASSUME NEW n \in Name
           PROVE  Asks(e, k, n) <=> \E m \in req[p].names[k] : Key(k, m) = Key(k, n)
      <4>1. Ahead(p, e, req[p].at, n)
        BY <1>0, <3>9
      <4> QED
        BY <1>6, <2>0, <4>1 DEF Ahead, LeftOf, Left, KindOf, ClearLinks, At
    <3>11. \A j \in 1..Len(Kinds), n \in Name : j > req[p].at => Ahead(p, e, j, n)
      BY <1>0, <3>9
    <3>12. Onward(p, req[p])
      BY <1>6 DEF ClearLinks
    <3> QED
      BY <1>0, <2>0, <3>1, <3>3, <3>5, <3>6, <3>8, <3>10, <3>11, <3>12, OnwardTrack
  <2>3. CASE req[p].entry # e
    <3>1. ~Editing(p, e) /\ ~Editing(p, e)' /\ ~Deleting(p, e)
      BY <1>0, <1>z, <1>6, <2>3, NullAssumption DEF ClearLinks, Onward, Editing, Deleting
    <3>2. \A l, i : <<l, e, i>> \in link' <=> <<l, e, i>> \in link
      BY <1>6, <2>3 DEF ClearLinks
    <3> QED
      BY <1>0, <1>6, <2>1, <3>1, <3>2, Bystander DEF ClearLinks, history
  <2> QED
    BY <2>2, <2>3
<1>7. ASSUME NEW p \in Proc, AddTag(p) PROVE Track(e)'
  <2>0. PICK k \in Kind : k = KindOf(p)
    BY <1>0
  <2>1. PICK n \in req[p].names[k] :
          /\ IF Holders(k, n) # {} THEN UNCHANGED <<tag, usedT>>
             ELSE \E i \in TagId \ usedT : tag' = [tag EXCEPT ![k][i] = n] /\ usedT' = usedT \union {i}
          /\ req' = [req EXCEPT ![p].pc = "id", ![p].name = n, ![p].names[k] = @ \ {n}]
    BY <1>7, <2>0 DEF AddTag
  <2>2. UNCHANGED <<media, link, want, blurred, touched>>
    BY <1>7 DEF AddTag, history
  <2>3. \A q \in Proc \ {p} : Same(q)
    BY <1>0, <2>1 DEF Same
  <2>4. /\ req[p].pc = "tag" /\ req'[p].pc = "id" /\ req'[p].entry = req[p].entry
        /\ req'[p].at = req[p].at /\ req'[p].name = n
        /\ \A l \in Kind : req'[p].names[l] = IF l = k THEN req[p].names[l] \ {n} ELSE req[p].names[l]
    BY <1>0, <1>7, <2>1 DEF AddTag, At, Request
  <2>5. Track(e)
    BY <2>2, <2>3, <2>4, WasTracked DEF Deleting
  <2>6. \A q \in Proc : Editing(q, e)' <=> Editing(q, e)
    BY <2>3, <2>4 DEF Editing, Same
  <2>7. \A l \in Kind, i \in TagId : i \in usedT => tag'[l][i] = tag[l][i]
    BY <1>m, <2>1
  <2>8. \A l \in Kind, m \in Name : Sees(e, l, m)' <=> Sees(e, l, m)
    <3>1. \A l, i : <<l, e, i>> \in link => i \in usedT
      BY DEF Drawn
    <3> QED
      BY <2>2, <2>7, <3>1 DEF Sees, Linked, Holders
  <2>9. \A l, m : (LeftOf(p, l, m)' <=> LeftOf(p, l, m)) \/ l \notin Kind
    <3>1. KindOf(p)' = k
      BY <2>0, <2>4 DEF KindOf
    <3>2. \A l \in Kind : Left(p, l)' = Left(p, l)
      <4> TAKE l \in Kind
      <4>1. Left(p, l) = req[p].names[l]
        BY <2>4 DEF Left
      <4>2. Left(p, l)' = IF l = k THEN (req[p].names[k] \ {n}) \union {n} ELSE req[p].names[l]
        BY <2>4, <3>1 DEF Left
      <4> QED
        BY <2>1, <4>1, <4>2
    <3> QED
      BY <3>2 DEF LeftOf
  <2>10. \A q \in Proc : Same(q) => \A l, m : LeftOf(q, l, m)' <=> LeftOf(q, l, m)
    BY DEF Same, LeftOf, Left, KindOf
  <2>11. \A l, m : (Asks(e, l, m)' <=> Asks(e, l, m)) /\ (Excused(e, l, m) => Excused(e, l, m)')
    BY <2>2 DEF Asks, Excused
  <2>12. ASSUME NEW q \in Proc, Editing(q, e) PROVE Aimed(q, e)'
    <3>1. CASE q = p
      BY <2>4, <3>1 DEF Aimed
    <3>2. CASE q # p
      <4>1. Same(q) /\ Aimed(q, e)
        BY <2>3, <2>5, <2>12, <3>2 DEF Track
      <4>2. req[q].pc = "link" => req[q].tag \in usedT /\ req[q].tag \in TagId
        BY <1>0 DEF Drawn, Carries
      <4>3. req[q].pc = "link" => tag'[KindOf(q)][req[q].tag] = tag[KindOf(q)][req[q].tag]
        BY <1>0, <2>7, <4>2
      <4> QED
        BY <2>11, <4>1, <4>3 DEF Aimed, Same, KindOf
    <3> QED
      BY <3>1, <3>2
  <2>13. \A q \in Proc : Editing(q, e) =>
           (req[q].pc = "clear" <=> req'[q].pc = "clear") /\ req'[q].at = req[q].at
    BY <2>3, <2>4 DEF Same
  <2>14. \A q \in Proc, l \in Kind, m \in Name : LeftOf(q, l, m)' <=> LeftOf(q, l, m)
    BY <2>3, <2>9, <2>10
  <2> QED
    BY <1>0, <2>5, <2>6, <2>8, <2>11, <2>12, <2>13, <2>14, TrackFrame
<1>8. ASSUME NEW p \in Proc, ReadTag(p) PROVE Track(e)'
  <2>0. UNCHANGED <<tables, want, touched>>
    BY <1>8 DEF ReadTag, Abort, history
  <2>1. CASE req' = [req EXCEPT ![p] = Idle]
    <3>1. \A q \in Proc \ {p} : Same(q)
      BY <1>0, <2>1 DEF Same
    <3>2. ~Editing(p, e)
      <4>1. req'[p].pc = "idle"
        BY <1>0, <1>z, <2>1
      <4>2. \A i : req' # [req EXCEPT ![p].pc = "link", ![p].tag = i]
        BY <1>0, <4>1 DEF Request
      <4>3. blurred' = Blur(req[p].entry) \/ req[p].entry = NoEntry
        BY <1>8, <4>2 DEF ReadTag, Abort
      <4> QED
        BY <1>s, <4>3, NullAssumption DEF Blur, Editing
    <3>3. ~Editing(p, e)' /\ ~Deleting(p, e) /\ (e \in blurred => e \in blurred')
      BY <1>0, <1>z, <1>8, <2>1 DEF ReadTag, At, Abort, Blur, Editing, Deleting, history
    <3> QED
      BY <1>0, <2>0, <3>1, <3>2, <3>3, Bystander DEF tables
  <2>2. CASE req' # [req EXCEPT ![p] = Idle]
    <3>0. PICK k \in Kind : k = KindOf(p)
      BY <1>0
    <3>1. PICK i \in Holders(k, req[p].name) :
            req' = [req EXCEPT ![p].pc = "link", ![p].tag = i] /\ UNCHANGED history
      BY <1>8, <2>2, <3>0 DEF ReadTag, Abort, Done
    <3>2. \A q \in Proc \ {p} : Same(q)
      BY <1>0, <3>1 DEF Same
    <3>3. /\ req[p].pc = "id" /\ req'[p].pc = "link" /\ req'[p].entry = req[p].entry
          /\ req'[p].at = req[p].at /\ req'[p].name = req[p].name /\ req'[p].names = req[p].names
          /\ req'[p].tag = i
      BY <1>0, <1>8, <3>1 DEF ReadTag, At, Request
    <3>4. Track(e)
      BY <2>0, <3>1, <3>2, <3>3, WasTracked DEF Deleting, tables, history
    <3>5. \A q \in Proc : Editing(q, e)' <=> Editing(q, e)
      BY <3>2, <3>3 DEF Editing, Same
    <3>6. \A q \in Proc : \A l, m : LeftOf(q, l, m)' <=> LeftOf(q, l, m)
      BY <3>2, <3>3 DEF Same, LeftOf, Left, KindOf
    <3>7. \A l, m : /\ Asks(e, l, m)' <=> Asks(e, l, m)
                    /\ Excused(e, l, m) => Excused(e, l, m)'
                    /\ Sees(e, l, m)' <=> Sees(e, l, m)
      BY <2>0 DEF Asks, Excused, Sees, Linked, Holders, tables
    <3>8. ASSUME NEW q \in Proc, Editing(q, e) PROVE Aimed(q, e)'
      <4>1. CASE q = p
        BY <2>0, <3>0, <3>1, <3>3, <4>1 DEF Aimed, Holders, KindOf, tables
      <4>2. CASE q # p
        <5>1. Same(q) /\ Aimed(q, e)
          BY <3>2, <3>4, <3>8, <4>2 DEF Track
        <5> QED
          BY <2>0, <3>7, <5>1 DEF Aimed, Same, KindOf, tables
      <4> QED
        BY <4>1, <4>2
    <3>9. \A q \in Proc : Editing(q, e) =>
            (req[q].pc = "clear" <=> req'[q].pc = "clear") /\ req'[q].at = req[q].at
      BY <3>2, <3>3 DEF Same
    <3> QED
      BY <1>0, <3>4, <3>5, <3>6, <3>7, <3>8, <3>9, TrackFrame
  <2> QED
    BY <2>1, <2>2
<1>9. ASSUME NEW p \in Proc, Link(p) PROVE Track(e)'
  <2>1. PICK k \in Kind, i \in TagId, n \in Name :
          k = KindOf(p) /\ i = req[p].tag /\ n = req[p].name
    BY <1>0, <1>9 DEF Link, At, Carries
  <2>2. /\ UNCHANGED <<media, tag, want, touched>> /\ req[p].pc = "link" /\ req[p].entry \in Entry
        /\ \/ Abort(p) /\ UNCHANGED link
           \/ link' = link \union {<<k, req[p].entry, i>>} /\ Onward(p, req[p]) /\ UNCHANGED history
    BY <1>0, <1>9, <2>1 DEF Link, At, Abort, Carries, history
  <2>3. (\A q \in Proc \ {p} : Same(q)) /\ (e \in blurred => e \in blurred')
    BY <1>0, <2>2 DEF Abort, Done, Blur, Onward, Same, history
  <2>4. CASE req[p].entry = e
    <3>1. link' = link \union {<<k, e, i>>} /\ Onward(p, req[p]) /\ UNCHANGED history
      BY <1>s, <2>2, <2>4, NullAssumption DEF Abort, Blur
    <3>2. Editing(p, e) /\ ~Deleting(p, e)
      BY <2>2, <2>4 DEF Editing, Deleting
    <3>3. Track(e)
      BY <2>2, <2>3, <3>2, WasTracked
    <3>4. Progress(p, e) /\ Aimed(p, e) /\ \A q \in Proc \ {p} : ~Editing(q, e)
      BY <3>2, <3>3 DEF Track
    <3>5. \A l, m : (Asks(e, l, m)' <=> Asks(e, l, m)) /\ (Excused(e, l, m)' <=> Excused(e, l, m))
      BY <2>2 DEF Asks, Excused
    <3>6. \A l, m : Sees(e, l, m)' <=>
            Sees(e, l, m) \/ (l = k /\ tag[k][i] # NoName /\ Key(k, tag[k][i]) = Key(k, m))
      BY <2>2, <3>1 DEF Sees, Linked, Holders
    <3>7. \A j \in 1..Len(Kinds), m \in Name : j < req[p].at => Behind(e, Kinds[j], m)'
      <4> TAKE j \in 1..Len(Kinds), m \in Name
      <4> HAVE j < req[p].at
      <4>1. Kinds[j] # k
        BY <1>0, <2>1, KindFacts DEF KindOf
      <4>2. Behind(e, Kinds[j], m)
        BY <3>4 DEF Progress
      <4> QED
        BY <3>5, <3>6, <4>1, <4>2 DEF Behind
    <3>8. \A j \in 1..Len(Kinds), m \in Name : j > req[p].at => Ahead(p, e, j, m)
      BY <3>4 DEF Progress
    <3>9. ASSUME NEW m \in Name
          PROVE  LET left == \E x \in req[p].names[k] : Key(k, x) = Key(k, m) IN
                 /\ left => Asks(e, k, m)
                 /\ \/ Excused(e, k, m)'
                    \/ (Sees(e, k, m)' => Asks(e, k, m)) /\ (Asks(e, k, m) => Sees(e, k, m)' \/ left)
      <4>1. \A h \in Name : Under(p, e, req[p].at, h)
        BY <1>0, <2>2, <3>4 DEF Progress
      <4>2. Kinds[req[p].at] = k
        BY <2>1 DEF KindOf
      <4>3. \A h : LeftOf(p, k, h) <=> (\E x \in req[p].names[k] : Key(k, x) = Key(k, h)) \/ Key(k, n) = Key(k, h)
        BY <2>1, <2>2 DEF LeftOf, Left
      <4>4. \A h \in Name :
              /\ LeftOf(p, k, h) => Asks(e, k, h)
              /\ \/ Excused(e, k, h)
                 \/ /\ Sees(e, k, h) => Asks(e, k, h)
                    /\ Asks(e, k, h) => Sees(e, k, h) \/ LeftOf(p, k, h)
        BY <4>1, <4>2 DEF Under
      <4>5. \/ tag[k][i] # NoName /\ Key(k, tag[k][i]) = Key(k, n)
            \/ Excused(e, k, n) /\ (tag[k][i] # NoName => Excused(e, k, tag[k][i]))
        BY <2>1, <2>2, <3>4 DEF Aimed
      <4>6. \A a, b : Key(k, a) = Key(k, b) =>
              (Excused(e, k, a) <=> Excused(e, k, b)) /\ (Asks(e, k, a) <=> Asks(e, k, b))
        BY DEF Excused, Asks
      <4> QED
        BY <3>5, <3>6, <4>3, <4>4, <4>5, <4>6
    <3> QED
      BY <1>0, <2>1, <2>2, <3>1, <3>2, <3>4, <3>7, <3>8, <3>9, OnwardTrack
  <2>5. CASE req[p].entry # e
    <3>1. ~Editing(p, e) /\ ~Deleting(p, e)
      BY <2>2, <2>5 DEF Editing, Deleting
    <3>2. ~Editing(p, e)'
      <4>1. CASE Abort(p)
        BY <1>0, <1>z, <4>1, NullAssumption DEF Abort, Done, Editing
      <4>2. CASE Onward(p, req[p])
        BY <1>0, <1>z, <2>5, <4>2, NullAssumption DEF Onward, Editing, Request
      <4> QED
        BY <2>2, <4>1, <4>2
    <3>3. \A l, h : <<l, e, h>> \in link' <=> <<l, e, h>> \in link
      BY <2>2, <2>5
    <3> QED
      BY <1>0, <2>2, <2>3, <3>1, <3>2, <3>3, Bystander
  <2> QED
    BY <2>4, <2>5
<1>10. ASSUME NEW p \in Proc, BeginDelete(p) PROVE Track(e)'
  <2>0. PICK f \in Entry :
          Stored(f) /\ Start(p, [Idle EXCEPT !.pc = "unlink", !.entry = f])
    BY <1>10 DEF BeginDelete
  <2>1. \A q \in Proc \ {p} : Same(q)
    BY <1>0, <2>0 DEF Start, Same
  <2>2. ~Editing(p, e) /\ ~Editing(p, e)' /\ ~Deleting(p, e)
    BY <1>0, <1>z, <1>10, <2>0, NullAssumption
    DEF BeginDelete, Start, At, Admit, Editing, Deleting, Idle
  <2> QED
    BY <1>0, <1>10, <2>1, <2>2, Bystander DEF BeginDelete, tables, history
<1>11. ASSUME NEW p \in Proc, Unlink(p) PROVE Track(e)'
  <2>1. /\ req'[p].entry = req[p].entry /\ req'[p].pc \in {"unlink", "drop"}
        /\ \A q \in Proc \ {p} : Same(q)
    BY <1>0, <1>11 DEF Unlink, At, Same
  <2>2. req[p].entry # e
    BY <1>s, <2>1 DEF Deleting
  <2>3. ~Editing(p, e) /\ ~Editing(p, e)' /\ ~Deleting(p, e)
    BY <2>1, <2>2 DEF Editing, Deleting
  <2>4. \A k, i : <<k, e, i>> \in link' <=> <<k, e, i>> \in link
    BY <1>11, <2>2 DEF Unlink
  <2> QED
    BY <1>0, <1>11, <2>1, <2>3, <2>4, Bystander DEF Unlink, history
<1>12. ASSUME NEW p \in Proc, Drop(p) PROVE Track(e)'
  <2>1. req[p].entry \in Entry /\ req[p].entry # e
    BY <1>0, <1>m, <1>s, <1>12 DEF Drop, At, Carries
  <2>2. ~Editing(p, e) /\ ~Editing(p, e)' /\ ~Deleting(p, e)
    BY <1>0, <1>z, <1>12, <2>1 DEF Drop, Done, Editing, Deleting
  <2>3. \A q \in Proc \ {p} : Same(q)
    BY <1>0, <1>12 DEF Drop, Done, Same
  <2>4. media'[e] = media[e]
    BY <1>m, <1>12, <2>1 DEF Drop
  <2>5. \A k, i : <<k, e, i>> \in link' <=> <<k, e, i>> \in link
    BY <1>12, <2>1 DEF Drop
  <2> QED
    BY <1>0, <1>12, <2>2, <2>3, <2>4, <2>5, Bystander DEF Drop, history
<1>13. ASSUME NEW p \in Proc, BeginCreateTag(p) PROVE Track(e)'
  <2>0. PICK j \in 1..Len(Kinds), n \in Name :
          Start(p, [Idle EXCEPT !.pc = "tag", !.at = j, !.names[Kinds[j]] = {n}])
    BY <1>13 DEF BeginCreateTag
  <2>1. \A q \in Proc \ {p} : Same(q)
    BY <1>0, <2>0 DEF Start, Same
  <2>2. ~Editing(p, e) /\ ~Editing(p, e)' /\ ~Deleting(p, e)
    BY <1>0, <1>z, <1>13, <2>0, NullAssumption
    DEF BeginCreateTag, Start, At, Admit, Editing, Deleting, Idle
  <2> QED
    BY <1>0, <1>13, <2>1, <2>2, Bystander DEF BeginCreateTag, tables, history
<1>14. ASSUME NEW p \in Proc, Rename(p) PROVE Track(e)'
  <2>1. /\ UNCHANGED <<media, link, req, want, blurred>>
        /\ req[p].pc = "idle"
    BY <1>14 DEF Rename, Admit, At, Touch, history
  <2>2. (\A q \in Proc : Same(q)) /\ ~Editing(p, e) /\ ~Editing(p, e)' /\ ~Deleting(p, e)
    BY <2>1 DEF Same, Editing, Deleting
  <2>3. CASE tag' = tag /\ touched' = touched
    BY <1>0, <2>1, <2>2, <2>3, Bystander
  <2>4. CASE \E k \in Kind, i \in TagId, n \in Name :
          /\ tag[k][i] # NoName
          /\ tag' = [tag EXCEPT ![k][i] = n] /\ Touch(KeysOf(k, {n, tag[k][i]}))
    <3>1. PICK k \in Kind, i \in TagId, n \in Name :
            /\ tag[k][i] # NoName
            /\ tag' = [tag EXCEPT ![k][i] = n] /\ Touch(KeysOf(k, {n, tag[k][i]}))
      BY <2>4
    <3>0. PICK old : old = tag[k][i]
      OBVIOUS
    <3>2. touched \subseteq touched' /\ Excused(e, k, n)' /\ Excused(e, k, old)'
      BY <3>0, <3>1 DEF Touch, KeysOf, Excused
    <3>3. \A l \in Kind, j \in TagId :
            tag'[l][j] = IF l = k /\ j = i THEN n ELSE tag[l][j]
      BY <1>m, <3>1
    <3>4. ASSUME NEW l \in Kind, NEW m \in Name, ~Excused(e, l, m)'
          PROVE  Sees(e, l, m)' <=> Sees(e, l, m)
      <4>1. l = k => Key(l, m) # Key(l, n) /\ Key(l, m) # Key(l, old)
        BY <3>2, <3>4 DEF Excused
      <4>2. \A j \in TagId : /\ tag'[l][j] # NoName
                             /\ Key(l, tag'[l][j]) = Key(l, m)
                          <=> tag[l][j] # NoName /\ Key(l, tag[l][j]) = Key(l, m)
        BY <3>0, <3>3, <4>1
      <4> QED
        BY <2>1, <4>2 DEF Sees, Linked, Holders
    <3>5. \A l \in Kind, j \in TagId :
            \/ tag'[l][j] = tag[l][j]
            \/ \A m \in {tag[l][j], tag'[l][j]} \ {NoName} : Excused(e, l, m)'
      BY <3>0, <3>2, <3>3
    <3> QED
      BY <1>0, <2>1, <2>2, <3>2, <3>4, <3>5, AdminTrack
  <2> QED
    BY <1>14, <2>3, <2>4 DEF Rename, history
<1>15. ASSUME NEW p \in Proc, DropTagLinks(p) PROVE Track(e)'
  <2>1. PICK j \in 1..Len(Kinds), i \in TagId :
          /\ tag[Kinds[j]][i] # NoName
          /\ link' = {l \in link : ~(l[1] = Kinds[j] /\ l[3] = i)}
          /\ Touch(KeysOf(Kinds[j], {tag[Kinds[j]][i]}))
          /\ Start(p, [Idle EXCEPT !.pc = "droptag", !.at = j, !.tag = i])
    BY <1>15 DEF DropTagLinks
  <2>2. PICK k \in Kind : k = Kinds[j]
    BY KindFacts
  <2>o. PICK old : old = tag[k][i]
    OBVIOUS
  <2>3. UNCHANGED <<media, tag, want, blurred>> /\ touched \subseteq touched' /\ Excused(e, k, old)'
    BY <1>15, <2>1, <2>2, <2>o DEF DropTagLinks, Touch, KeysOf, Excused
  <2>4. /\ \A q \in Proc \ {p} : Same(q)
        /\ ~Editing(p, e) /\ ~Editing(p, e)' /\ ~Deleting(p, e)
    BY <1>0, <1>15, <2>1 DEF DropTagLinks, Admit, At, Start, Same, Editing, Deleting, Idle
  <2>5. ASSUME NEW l \in Kind, NEW m \in Name, ~Excused(e, l, m)'
        PROVE  Sees(e, l, m)' <=> Sees(e, l, m)
    <3>1. l = k => Key(l, m) # Key(l, tag[k][i])
      BY <2>o, <2>3, <2>5 DEF Excused
    <3>2. \A h \in TagId : <<l, e, h>> \in link' <=> <<l, e, h>> \in link /\ ~(l = k /\ h = i)
      BY <2>1, <2>2
    <3> QED
      BY <2>3, <3>1, <3>2 DEF Sees, Linked, Holders
  <2> QED
    BY <1>0, <2>3, <2>4, <2>5, AdminTrack
<1>16. ASSUME NEW p \in Proc, DropTag(p) PROVE Track(e)'
  <2>1. PICK k \in Kind, i \in TagId : k = KindOf(p) /\ i = req[p].tag
    BY <1>0, <1>16 DEF DropTag, At, Carries
  <2>2. /\ tag' = [tag EXCEPT ![k][i] = NoName]
        /\ link' = IF ForeignKeys THEN {l \in link : ~(l[1] = k /\ l[3] = i)} ELSE link
        /\ Touch(KeysOf(k, {tag[k][i]} \ {NoName})) /\ Done(p)
        /\ UNCHANGED media
    BY <1>16, <2>1 DEF DropTag
  <2>o. PICK old : old = tag[k][i]
    OBVIOUS
  <2>3. /\ UNCHANGED <<media, want, blurred>> /\ touched \subseteq touched'
        /\ old # NoName => Excused(e, k, old)'
    BY <2>2, <2>o DEF Touch, KeysOf, Excused
  <2>4. /\ \A q \in Proc \ {p} : Same(q)
        /\ ~Editing(p, e) /\ ~Editing(p, e)' /\ ~Deleting(p, e)
    BY <1>0, <1>z, <1>16, <2>2 DEF DropTag, At, Done, Same, Editing, Deleting
  <2>5. \A l \in Kind, j \in TagId : tag'[l][j] = IF l = k /\ j = i THEN NoName ELSE tag[l][j]
    BY <1>m, <2>2
  <2>6. ASSUME NEW l \in Kind, NEW m \in Name, ~Excused(e, l, m)'
        PROVE  Sees(e, l, m)' <=> Sees(e, l, m)
    <3>1. l = k /\ tag[k][i] # NoName => Key(l, m) # Key(l, tag[k][i])
      BY <2>o, <2>3, <2>6 DEF Excused
    <3>2. \A h \in TagId : ~(l = k /\ h = i) => (<<l, e, h>> \in link' <=> <<l, e, h>> \in link)
      BY <2>2
    <3>3. \A h \in TagId : /\ <<l, e, h>> \in link'
                           /\ tag'[l][h] # NoName /\ Key(l, tag'[l][h]) = Key(l, m)
                        <=> /\ <<l, e, h>> \in link
                            /\ tag[l][h] # NoName /\ Key(l, tag[l][h]) = Key(l, m)
      BY <2>5, <3>1, <3>2
    <3> QED
      BY <3>3 DEF Sees, Linked, Holders
  <2>7. \A l \in Kind, j \in TagId :
          \/ tag'[l][j] = tag[l][j]
          \/ \A m \in {tag[l][j], tag'[l][j]} \ {NoName} : Excused(e, l, m)'
    BY <2>o, <2>3, <2>5
  <2> QED
    BY <1>0, <2>3, <2>4, <2>6, <2>7, AdminTrack
<1>17. ASSUME NEW p \in Proc, BeginCreateSource(p) PROVE Track(e)'
  <2>0. PICK s \in Source :
          Start(p, [Idle EXCEPT !.pc = "putsource", !.source = s])
    BY <1>17 DEF BeginCreateSource
  <2>1. \A q \in Proc \ {p} : Same(q)
    BY <1>0, <2>0 DEF Start, Same
  <2>2. ~Editing(p, e) /\ ~Editing(p, e)' /\ ~Deleting(p, e)
    BY <1>0, <1>z, <1>17, <2>0, NullAssumption
    DEF BeginCreateSource, Start, At, Admit, Editing, Deleting, Idle
  <2> QED
    BY <1>0, <1>17, <2>1, <2>2, Bystander DEF BeginCreateSource, tables, history
<1>18. ASSUME NEW p \in Proc, PutSource(p) PROVE Track(e)'
  <2>1. \A q \in Proc \ {p} : Same(q)
    BY <1>0, <1>z, <1>18 DEF PutSource, Done, Same
  <2>2. ~Editing(p, e) /\ ~Editing(p, e)' /\ ~Deleting(p, e)
    BY <1>0, <1>z, <1>18 DEF PutSource, Done, At, Admit, Editing, Deleting
  <2> QED
    BY <1>0, <1>18, <2>1, <2>2, Bystander DEF PutSource, Done, tables, history
<1>19. ASSUME NEW p \in Proc, BeginUpdateSource(p) PROVE Track(e)'
  <2>0. PICK s \in Source :
          Start(p, [Idle EXCEPT !.pc = "updatesource", !.source = s])
    BY <1>19 DEF BeginUpdateSource
  <2>1. \A q \in Proc \ {p} : Same(q)
    BY <1>0, <2>0 DEF Start, Same
  <2>2. ~Editing(p, e) /\ ~Editing(p, e)' /\ ~Deleting(p, e)
    BY <1>0, <1>z, <1>19, <2>0, NullAssumption
    DEF BeginUpdateSource, Start, At, Admit, Editing, Deleting, Idle
  <2> QED
    BY <1>0, <1>19, <2>1, <2>2, Bystander DEF BeginUpdateSource, tables, history
<1>20. ASSUME NEW p \in Proc, UpdateSource(p) PROVE Track(e)'
  <2>1. \A q \in Proc \ {p} : Same(q)
    BY <1>0, <1>z, <1>20 DEF UpdateSource, Done, Same
  <2>2. ~Editing(p, e) /\ ~Editing(p, e)' /\ ~Deleting(p, e)
    BY <1>0, <1>z, <1>20 DEF UpdateSource, Done, At, Admit, Editing, Deleting
  <2> QED
    BY <1>0, <1>20, <2>1, <2>2, Bystander DEF UpdateSource, Done, tables, history
<1>21. ASSUME NEW p \in Proc, Count(p) PROVE Track(e)'
  <2>0. PICK s \in Source :
          /\ Exists(s) /\ MediaOf(s) = {}
          /\ Start(p, [Idle EXCEPT !.pc = "dropsource", !.source = s])
    BY <1>21 DEF Count
  <2>1. \A q \in Proc \ {p} : Same(q)
    BY <1>0, <2>0 DEF Start, Same
  <2>2. ~Editing(p, e) /\ ~Editing(p, e)' /\ ~Deleting(p, e)
    BY <1>0, <1>z, <1>21, <2>0, NullAssumption DEF Count, Start, At, Admit, Editing, Deleting, Idle
  <2> QED
    BY <1>0, <1>21, <2>1, <2>2, Bystander DEF Count, tables, history
<1>22. ASSUME NEW p \in Proc, DropSource(p) PROVE Track(e)'
  <2>1. \A q \in Proc \ {p} : Same(q)
    BY <1>0, <1>z, <1>22 DEF DropSource, Done, Same
  <2>2. ~Editing(p, e) /\ ~Editing(p, e)' /\ ~Deleting(p, e)
    BY <1>0, <1>z, <1>22 DEF DropSource, Done, At, Admit, Editing, Deleting
  <2> QED
    BY <1>0, <1>22, <2>1, <2>2, Bystander DEF DropSource, Done, tables, history
<1>23. ASSUME NEW p \in Proc, BeginSub(p) PROVE Track(e)'
  <2>0. PICK u \in Sub, t \in Type :
          Start(p, [Idle EXCEPT !.pc = IF Found(u) THEN "retype" ELSE "putsub", !.sub = u, !.type = t])
    BY <1>23 DEF BeginSub
  <2>1. \A q \in Proc \ {p} : Same(q)
    BY <1>0, <2>0 DEF Start, Same
  <2>2. ~Editing(p, e) /\ ~Editing(p, e)' /\ ~Deleting(p, e)
    BY <1>0, <1>z, <1>23, <2>0, NullAssumption
    DEF BeginSub, Start, At, Admit, Editing, Deleting, Idle
  <2> QED
    BY <1>0, <1>23, <2>1, <2>2, Bystander DEF BeginSub, tables, history
<1>24. ASSUME NEW p \in Proc, PutSub(p) PROVE Track(e)'
  <2>1. ~Editing(p, e) /\ ~Deleting(p, e)
    BY <1>24 DEF PutSub, At, Editing, Deleting
  <2>2. CASE Redefine(req[p].sub, req[p].type, p)
    BY <1>r, <2>1, <2>2
  <2>3. CASE Done(p) /\ UNCHANGED <<tables, history>>
    <3>1. \A q \in Proc \ {p} : Same(q)
      BY <1>0, <2>3 DEF Done, Same
    <3>2. ~Editing(p, e)'
      BY <1>0, <1>z, <2>3 DEF Done, Editing
    <3> QED
      BY <1>0, <2>1, <2>3, <3>1, <3>2, Bystander DEF tables, history
  <2> QED
    BY <1>24, <2>2, <2>3 DEF PutSub, Refused
<1>25. ASSUME NEW p \in Proc, Retype(p) PROVE Track(e)'
  <2>1. ~Editing(p, e) /\ ~Deleting(p, e)
    BY <1>25 DEF Retype, At, Editing, Deleting
  <2>2. CASE Redefine(req[p].sub, req[p].type, p)
    BY <1>r, <2>1, <2>2
  <2>3. CASE Done(p) /\ UNCHANGED <<tables, history>>
    <3>1. \A q \in Proc \ {p} : Same(q)
      BY <1>0, <2>3 DEF Done, Same
    <3>2. ~Editing(p, e)'
      BY <1>0, <1>z, <2>3 DEF Done, Editing
    <3> QED
      BY <1>0, <2>1, <2>3, <3>1, <3>2, Bystander DEF tables, history
  <2> QED
    BY <1>25, <2>2, <2>3 DEF Retype, Refused
<1>26. ASSUME NEW p \in Proc, DropSub(p) PROVE Track(e)'
  <2>1. ~Editing(p, e) /\ ~Deleting(p, e)
    BY <1>26 DEF DropSub, Admit, At, Editing, Deleting
  <2> QED
    BY <1>26, <1>r, <2>1 DEF DropSub
<1>27. ASSUME NEW p \in Proc, Fail(p) PROVE Track(e)'
  <2>1. ~Editing(p, e) /\ ~Deleting(p, e)
    BY <1>27, <1>s, NullAssumption DEF Fail, Blur, Changing, Editing, Deleting
  <2>2. \A q \in Proc \ {p} : Same(q)
    BY <1>0, <1>27 DEF Fail, Done, Same
  <2>3. ~Editing(p, e)'
    BY <1>0, <1>z, <1>27 DEF Fail, Done, Editing
  <2>4. e \in blurred => e \in blurred'
    BY <1>27 DEF Fail, Blur
  <2> QED
    BY <1>0, <1>27, <2>1, <2>2, <2>3, <2>4, Bystander DEF Fail, tables
<1>28. CASE UNCHANGED vars
  <2>1. UNCHANGED <<media, tag, link, req, want, blurred, touched>>
    BY <1>28 DEF vars, tables, history
  <2>2. \A p \in Proc : Same(p)
    BY <2>1 DEF Same
  <2>3. \A p \in Proc : (Editing(p, e)' <=> Editing(p, e)) /\ (Deleting(p, e)' <=> Deleting(p, e))
    BY <2>1 DEF Editing, Deleting
  <2>4. Steady(e)
    BY <2>1, <2>3 DEF Steady
  <2>5. Track(e)
    BY <2>4 DEF Tracked
  <2>6. \A k, n : /\ Asks(e, k, n)' <=> Asks(e, k, n)
                  /\ Excused(e, k, n)' <=> Excused(e, k, n)
                  /\ Sees(e, k, n)' <=> Sees(e, k, n)
    BY <2>1 DEF Asks, Excused, Sees, Linked, Holders
  <2>7. \A q \in Proc : \A k, n : LeftOf(q, k, n)' <=> LeftOf(q, k, n)
    BY <2>1 DEF LeftOf, Left, KindOf
  <2>8. \A q \in Proc : Aimed(q, e) => Aimed(q, e)'
    BY <2>1 DEF Aimed, Excused, KindOf
  <2>9. \A q \in Proc : Editing(q, e) => Aimed(q, e)'
    BY <2>5, <2>8 DEF Track
  <2> QED
    BY <1>0, <2>1, <2>3, <2>5, <2>6, <2>7, <2>9, TrackFrame
<1> QED
  BY <1>1, <1>2, <1>3, <1>4, <1>5, <1>6, <1>7, <1>8, <1>9, <1>10, <1>11, <1>12, <1>13, <1>14,
     <1>15, <1>16, <1>17, <1>18, <1>19, <1>20, <1>21, <1>22, <1>23, <1>24, <1>25, <1>26, <1>27,
     <1>28 DEF Next

(* Nothing is stored or asked for at first.                                *)
LEMMA InitIInv == Init => IInv
<1> SUFFICES ASSUME Init PROVE IInv
  OBVIOUS
<1>1. \A p \in Proc : req[p] = Idle
  BY DEF Init
<1>2. Idle.pc = "idle" /\ ~Idle.stands
  BY DEF Idle
<1>3. TypeOK
  BY IdleTyped, ParameterAssumption DEF Init, TypeOK
<1>4. Carried
  BY <1>1, IdleCarries DEF Carried
<1>5. Drawn
  BY <1>1, <1>2 DEF Init, Drawn
<1>6. OrphanOnlyByRace /\ SubTypesKnown
  BY DEF Init, OrphanOnlyByRace, SubTypesKnown
<1>7. Counted
  BY <1>1, <1>2 DEF Counted, At
<1>8. Standing
  BY <1>1, <1>2 DEF Standing
<1>9. Tracked
  BY DEF Init, Tracked, Steady
<1> QED
  BY <1>3, <1>4, <1>5, <1>6, <1>7, <1>8, <1>9 DEF IInv

LEMMA NextIInv == IInv /\ [Next]_vars => IInv'
BY TypeStep, CarriedStep, DrawnStep, SourcesStep, SubTypesStep, TrackStep DEF IInv

LEMMA Invariance == Spec => []IInv
BY InitIInv, NextIInv, PTL DEF Spec

(* Nobody at work on an entry: it shows what it was last given.            *)
LEMMA TrackedShows == IInv => NamesAsAsked
<1> SUFFICES ASSUME IInv, NEW e \in Entry \ blurred, media[e] # NoRow, ~Busy(e, Proc),
                    NEW x \in Shown(e) \union want[e]
             PROVE  <<e, x>> \in touched \/ (x \in Shown(e) /\ x \in want[e])
  BY DEF NamesAsAsked
<1>1. \A p \in Proc : ~Editing(p, e) /\ ~Deleting(p, e)
  BY DEF Busy, Changing, Editing, Deleting
<1>2. \A k \in Kind, n \in Name : Behind(e, k, n)
  BY <1>1 DEF IInv, Tracked, Steady, Track
<1>3. \A k \in Kind, n \in Name : <<k, Key(k, n)>> \in Shown(e) <=> Sees(e, k, n)
  <2> TAKE k \in Kind, n \in Name
  <2>1. ASSUME Sees(e, k, n) PROVE <<k, Key(k, n)>> \in Shown(e)
    <3>1. PICK i \in Linked(k, e) : tag[k][i] # NoName /\ Key(k, tag[k][i]) = Key(k, n)
      BY <2>1 DEF Sees, Holders
    <3>2. <<k, Key(k, n)>> \in KeysOf(k, {tag[k][j] : j \in Linked(k, e)} \ {NoName})
      BY <3>1 DEF KeysOf
    <3> QED
      BY <3>2 DEF Shown
  <2>2. ASSUME <<k, Key(k, n)>> \in Shown(e) PROVE Sees(e, k, n)
    <3>1. PICK l \in Kind : <<k, Key(k, n)>> \in KeysOf(l, {tag[l][j] : j \in Linked(l, e)} \ {NoName})
      BY <2>2 DEF Shown
    <3>2. PICK i \in Linked(l, e) : tag[l][i] # NoName /\ <<k, Key(k, n)>> = <<l, Key(l, tag[l][i])>>
      BY <3>1 DEF KeysOf
    <3> QED
      BY <3>2 DEF Sees, Holders, Linked
  <2> QED
    BY <2>1, <2>2
<1>4. \E k \in Kind, n \in Name : x = <<k, Key(k, n)>>
  <2>1. CASE x \in want[e]
    BY <2>1 DEF IInv, TypeOK, KeysOf
  <2>2. CASE x \in Shown(e)
    <3>1. PICK l \in Kind : x \in KeysOf(l, {tag[l][j] : j \in Linked(l, e)} \ {NoName})
      BY <2>2 DEF Shown
    <3>2. PICK i \in Linked(l, e) : tag[l][i] # NoName /\ x = <<l, Key(l, tag[l][i])>>
      BY <3>1 DEF KeysOf
    <3>3. tag[l][i] \in Name
      BY <3>2 DEF IInv, TypeOK, Linked
    <3> QED
      BY <3>2, <3>3
  <2> QED
    BY <2>1, <2>2
<1>5. PICK k \in Kind, n \in Name : x = <<k, Key(k, n)>>
  BY <1>4
<1> QED
  BY <1>2, <1>3, <1>5 DEF Behind, Asks, Excused

(* Rows, links and requests are what they should be, and no two tags of a  *)
(* kind have one key (the UNIQUE indexes that syncTaxonomy relies on).     *)
THEOREM TypeCorrect == Spec => []TypeOK
<1>1. IInv => TypeOK
  BY DEF IInv
<1> QED
  BY <1>1, Invariance, PTL

(* SourceService.Delete leaves no entry without its source, but for those  *)
(* inserted in a race with it.                                             *)
THEOREM SourcesStand == Spec => []OrphanOnlyByRace
<1>1. IInv => OrphanOnlyByRace
  BY DEF IInv
<1> QED
  BY <1>1, Invariance, PTL

(* A sub-type that was validated, and not redefined since, belongs to the  *)
(* type of its entry.                                                      *)
THEOREM SubTypesStand == Spec => []SubTypesKnown
<1>1. IInv => SubTypesKnown
  BY DEF IInv
<1> QED
  BY <1>1, Invariance, PTL

(* Whatever tags other requests make, rename and delete, an entry shows    *)
(* the names it was last given.                                            *)
THEOREM EditsShow == Spec => []NamesAsAsked
BY Invariance, TrackedShows, PTL

----------------------------------------------------------------------------
(* Reading it.                                                             *)

(* The queries and the search terms a walk may carry, and its shape.        *)
OfClass ==
  {[Plain EXCEPT !.subType = {{e.sub, Blank}}] : e \in Content}
    \union {[Plain EXCEPT !.type = {{e.type}}] : e \in Content}
Changed == {[Plain EXCEPT !.limit = l, !.since = m] : l \in {Absent, 1}, m \in {Absent} \union Time}
Queries == Requests \union {Plain} \union OfClass \union Changed
Terms == DOMAIN Search \union SUBSET {e.sub : e \in Content}
Walks ==
  [feed : {"popular", "latest", "search", "recommend"}, q : Queries, term : Terms,
   exclude : SUBSET Id, sync : BOOLEAN, page : Nat \ {0}, got : Seq(Id), total : Nat,
   more : BOOLEAN, top : 0..MaxClock, changed : BOOLEAN]
Shaped ==
  /\ walk = NoWalk \/ walk \in Walks
  /\ Syncing =>
       /\ walk.feed = "latest"
       /\ \E l \in {Absent, 1} :
            walk.q = [Plain EXCEPT !.limit = l, !.since = IF mark = 0 THEN Absent ELSE mark]
  /\ walk.feed = "recommend" => walk.q = Plain

(* Nothing is stamped with a second that is yet to come.                   *)
Past ==
  /\ mark <= clock /\ \A i \in Listed : catalog[i].at <= clock
  /\ \A p \in Writer : pending[p] # NoWrite => pending[p].at <= clock
  /\ Walking => walk.top <= clock

(* The rows of a page; those of the pages before the one to come; of the   *)
(* rows a walk asks for, those that come before i and those that do not    *)
(* come after it.                                                          *)
Size(w) == IF w.feed = "recommend" THEN CatalogPageSize ELSE PerPage(Filter(w))
Read(w) == (w.page - 1) * Size(w)
Before(w, i) == {j \in Asked(w) : Precedes(w, j, i)}
UpTo(w, i) == {j \in Asked(w) : ~Precedes(w, i, j)}

(* What the app's copy lacks is as new as its mark.                        *)
AsNew == \A i \in missed \ excused : catalog[i].at >= mark

(* What a synchronisation has not seen was written since it began, and is  *)
(* as new as all it has, or is still to come, behind as many rows as it    *)
(* has read.                                                               *)
Sought ==
  Syncing => \A i \in missed \ excused : catalog[i].at > mark =>
    \/ walk.changed /\ catalog[i].at >= walk.top
    \/ walk.more /\ Read(walk) <= Cardinality(Before(walk, i))

(* A reader of rows nobody writes has the first of them, each in a place   *)
(* it may have in their order.                                             *)
Exact ==
  Walking /\ ~walk.sync /\ ~walk.changed =>
    LET n == Cardinality(Asked(walk)) IN
    /\ Len(walk.got) = IF Read(walk) < n THEN Read(walk) ELSE n
    /\ walk.more <=> walk.page = 1 \/ Read(walk) < n
    /\ walk.page > 1 => walk.total = n
    /\ \A x \in DOMAIN walk.got :
         /\ walk.got[x] \in Asked(walk)
         /\ Cardinality(Before(walk, walk.got[x])) < x
         /\ x <= Cardinality(UpTo(walk, walk.got[x]))

BInv == BrowseTypeOK /\ Shaped /\ Past /\ AsNew /\ Sought /\ Exact

(* A finite set of numbers has a largest one.                               *)
LEMMA NewestIsLargest ==
  ASSUME NEW S, IsFiniteSet(S), S \subseteq Int, S # {}
  PROVE  Newest(S) \in S /\ \A u \in S : u <= Newest(S)
<1> DEFINE Above(t) == {u \in S : u > t}
           T == {Above(t) : t \in S}
<1>1. IsWellFoundedOn(StrictSubsetOrdering(S), FiniteSubsetsOf(S))
  BY FS_StrictSubsetOrderingWellFounded
<1>2. FiniteSubsetsOf(S) = SUBSET S
  BY FS_FiniteSubsetsOfFinite
<1>3. \E x \in T : \A y \in T : ~(<<y, x>> \in StrictSubsetOrdering(S))
  <2> DEFINE R == StrictSubsetOrdering(S)
             F == FiniteSubsetsOf(S)
  <2>1. T \subseteq SUBSET S
    OBVIOUS
  <2>2. T \subseteq F /\ T # {}
    <3>1. PICK t \in S : TRUE
      OBVIOUS
    <3>2. Above(t) \in T
      OBVIOUS
    <3> HIDE DEF T
    <3> QED
      BY <1>2, <2>1, <3>2
  <2>3. IsWellFoundedOn(R, F)
    BY <1>1
  <2> HIDE DEF R, F, T
  <2>4. \E x \in T : \A y \in T : ~(<<y, x>> \in R)
    BY <2>2, <2>3, WFMin
  <2> QED
    BY <2>4 DEF R
<1>4. PICK t \in S : \A u \in S : ~(<<Above(u), Above(t)>> \in StrictSubsetOrdering(S))
  BY <1>3
<1>5. ASSUME NEW u \in S, u > t PROVE FALSE
  <2>1. /\ u \in Int /\ t \in Int /\ \A v \in S : v \in Int
        /\ Above(u) \subseteq S /\ Above(t) \subseteq S
    OBVIOUS
  <2>2. \A v \in S : v > u => v > t
    BY <1>5, <2>1
  <2>3. Above(u) \subseteq Above(t) /\ u \in Above(t)
    BY <1>5, <2>2
  <2>5. u \notin Above(u)
    BY <2>1
  <2> HIDE DEF Above
  <2>4. <<Above(u), Above(t)>> \in StrictSubsetOrdering(S)
    BY <2>1, <2>3, <2>5 DEF StrictSubsetOrdering
  <2> QED
    BY <1>4, <2>4
<1>6. \A u \in S : u <= t
  BY <1>5
<1> QED
  BY <1>6 DEF Newest

LEMMA NewestOfTwo ==
  ASSUME NEW a \in Int, NEW b \in Int
  PROVE  /\ Newest({a, b}) \in {a, b}
         /\ a <= Newest({a, b}) /\ b <= Newest({a, b})
<1>1. IsFiniteSet({a} \union {b})
  BY FS_Singleton, FS_Union
<1>2. {a} \union {b} = {a, b} /\ {a, b} \subseteq Int /\ {a, b} # {}
  OBVIOUS
<1>3. PICK S : S = {a, b}
  OBVIOUS
<1>4. IsFiniteSet(S) /\ S \subseteq Int /\ S # {} /\ a \in S /\ b \in S
  BY <1>1, <1>2, <1>3
<1>5. Newest(S) \in S /\ \A u \in S : u <= Newest(S)
  BY <1>4, NewestIsLargest
<1> QED
  BY <1>3, <1>4, <1>5

(* A sequence of all of a finite set hits each element, and its first x    *)
(* places hold x of them.                                                  *)
LEMMA OrdersAreOnto ==
  ASSUME NEW S, IsFiniteSet(S), NEW s \in SetToSeqs(S)
  PROVE  /\ Cardinality(S) \in Nat /\ s \in [1..Cardinality(S) -> S] /\ s \in Seq(S)
         /\ Len(s) = Cardinality(S) /\ DOMAIN s = 1..Cardinality(S)
         /\ \A u \in S : \E x \in 1..Cardinality(S) : s[x] = u
         /\ \A x, y \in 1..Cardinality(S) : s[x] = s[y] => x = y
<1> DEFINE n == Cardinality(S)
<1>1. n \in Nat
  BY FS_CardinalityType
<1>2. s \in [1..n -> S] /\ \A x, y \in 1..n : s[x] = s[y] => x = y
  BY DEF SetToSeqs
<1>3. s \in Injection(1..n, S)
  BY <1>2 DEF Injection, IsInjective
<1>4. Cardinality(1..n) = n
  BY <1>1, FS_Interval
<1>5. s \in Surjection(1..n, S)
  BY <1>3, <1>4, FS_Injection
<1>6. \A u \in S : \E x \in 1..n : s[x] = u
  BY <1>5 DEF Surjection
<1>7. s \in Seq(S) /\ Len(s) = n
  BY <1>1, <1>2
<1> QED
  BY <1>1, <1>2, <1>6, <1>7

LEMMA FirstOnes ==
  ASSUME NEW S, IsFiniteSet(S), NEW s \in SetToSeqs(S), NEW x \in 0..Cardinality(S)
  PROVE  Cardinality({s[y] : y \in 1..x}) = x
<1> DEFINE n == Cardinality(S)
           T == {s[y] : y \in 1..x}
           f == [y \in 1..x |-> s[y]]
<1>1. n \in Nat /\ x \in Nat /\ \A y, z \in 1..n : s[y] = s[z] => y = z
  BY OrdersAreOnto
<1>2. \A y \in 1..x : y \in 1..n
  BY <1>1
<1>3. f \in [1..x -> T] /\ (\A y, z \in 1..x : f[y] = f[z] => y = z) /\ \A t \in T : \E y \in 1..x : f[y] = t
  BY <1>1, <1>2
<1>4. f \in Bijection(1..x, T)
  BY <1>3 DEF Bijection, Injection, Surjection, IsInjective
<1>5. ExistsBijection(1..x, T)
  BY <1>4 DEF ExistsBijection
<1>6. IsFiniteSet(1..x) /\ Cardinality(1..x) = x
  BY <1>1, FS_Interval
<1> QED
  BY <1>5, <1>6, FS_Bijection

(* The rows there are.                                                      *)
LEMMA RowsTyped ==
  ASSUME BrowseTypeOK
  PROVE  /\ Listed \subseteq Id /\ IsFiniteSet(Listed)
         /\ \A i \in Listed : catalog[i] \in MediaRow
         /\ \A i \in Listed : catalog[i].at \in Int /\ 1 <= catalog[i].at /\ catalog[i].at <= MaxClock
         /\ \A i \in Listed : catalog[i].entry.title \in Nat
<1>1. Listed \subseteq Id
  BY DEF Listed
<1>2. IsFiniteSet(Listed)
  BY <1>1, ReadersAssumption, FS_Subset
<1>3. \A i \in Listed : catalog[i] \in MediaRow
  BY <1>1 DEF Listed, BrowseTypeOK
<1>4. \A i \in Listed : catalog[i].entry \in Content /\ catalog[i].at \in Time
  BY <1>3 DEF MediaRow
<1>5. \A t \in Time : t \in Int /\ 1 <= t /\ t <= MaxClock
  BY ReadersAssumption DEF Time
<1> QED
  BY <1>1, <1>2, <1>3, <1>4, <1>5, ContentAssumption

LEMMA AskedRows ==
  ASSUME BrowseTypeOK, NEW w
  PROVE  Asked(w) \subseteq Listed /\ IsFiniteSet(Asked(w)) /\ Cardinality(Asked(w)) \in Nat
<1>1. Asked(w) \subseteq Listed
  BY DEF Asked, Titled, Shared, FilterClauses
<1> QED
  BY <1>1, RowsTyped, FS_Subset, FS_CardinalityType

(* An ORDER BY orders the rows, leaving some of them equal.                *)
LEMMA Ordering ==
  ASSUME BrowseTypeOK, NEW f, NEW d, NEW i \in Listed, NEW j \in Listed, NEW u \in Listed
  PROVE  /\ ~OrderBy(f, d, i, i)
         /\ OrderBy(f, d, i, j) => ~OrderBy(f, d, j, i)
         /\ OrderBy(f, d, i, j) => OrderBy(f, d, i, u) \/ OrderBy(f, d, u, j)
<1>1. PICK col : col = SortColumn(f, d)
  OBVIOUS
<1>2. \A k \in Listed : Column(k, col) \in Int /\ catalog[k].entry.title \in Int
  BY RowsTyped DEF Column
<1>3. PICK key, title : /\ key = [k \in Listed |-> Column(k, col)]
                        /\ title = [k \in Listed |-> catalog[k].entry.title]
  OBVIOUS
<1>4. /\ \A k \in Listed : key[k] \in Int /\ title[k] \in Int
      /\ \A k, l \in Listed : OrderBy(f, d, k, l) <=>
           \/ IF f.asc THEN key[k] < key[l] ELSE key[k] > key[l]
           \/ col # "title" /\ key[k] = key[l] /\ title[k] < title[l]
  BY <1>1, <1>2, <1>3 DEF OrderBy
<1> QED
  BY <1>4

LEMMA PlacesOfRows ==
  ASSUME BrowseTypeOK, NEW w, NEW s \in SetToSeqs(Asked(w)),
         \A x, y \in DOMAIN s : x < y => ~Precedes(w, s[y], s[x]),
         NEW x \in DOMAIN s
  PROVE  /\ Cardinality(Before(w, s[x])) < x
         /\ x <= Cardinality(UpTo(w, s[x]))
         /\ s[x] \notin Tied(w) => Cardinality(Before(w, s[x])) = x - 1
<1> DEFINE S == Asked(w)
           n == Cardinality(S)
           First(y) == {s[z] : z \in 1..y}
<1>1. IsFiniteSet(S) /\ n \in Nat /\ S \subseteq Listed
  BY AskedRows
<1>2. /\ s \in [1..n -> S] /\ DOMAIN s = 1..n /\ x \in 1..n
      /\ \A u \in S : \E y \in 1..n : s[y] = u
      /\ \A y, z \in 1..n : s[y] = s[z] => y = z
  BY <1>1, OrdersAreOnto
<1>3. Cardinality(First(x - 1)) = x - 1 /\ Cardinality(First(x)) = x
  <2>1. x - 1 \in 0..n /\ x \in 0..n
    BY <1>1, <1>2
  <2>2. \A z \in 0..n : Cardinality(First(z)) = z
    BY <1>1, FirstOnes
  <2> HIDE DEF First
  <2> QED
    BY <2>1, <2>2
<1>4. \A i \in S, j \in S : ~Precedes(w, i, i) /\ (Precedes(w, i, j) => ~Precedes(w, j, i))
  BY <1>1, Ordering DEF Precedes
<1>5. IsFiniteSet(First(x - 1)) /\ IsFiniteSet(UpTo(w, s[x])) /\ IsFiniteSet(Before(w, s[x]))
  <2>1. First(x - 1) \subseteq S
    BY <1>1, <1>2
  <2>2. UpTo(w, s[x]) \subseteq S /\ Before(w, s[x]) \subseteq S
    BY DEF UpTo, Before
  <2> QED
    BY <1>1, <2>1, <2>2, FS_Subset
<1>6. Before(w, s[x]) \subseteq First(x - 1)
  <2>1. SUFFICES ASSUME NEW u \in Before(w, s[x]) PROVE u \in First(x - 1)
    OBVIOUS
  <2>2. u \in S /\ Precedes(w, u, s[x])
    BY DEF Before
  <2>3. PICK y \in 1..n : s[y] = u
    BY <1>2, <2>2
  <2>4. y < x
    BY <1>1, <1>2, <1>4, <2>2, <2>3
  <2> QED
    BY <1>1, <1>2, <2>3, <2>4
<1>7. First(x) \subseteq UpTo(w, s[x])
  <2>1. ASSUME NEW y \in 1..x PROVE s[y] \in S /\ ~Precedes(w, s[x], s[y])
    BY <1>1, <1>2, <1>4
  <2> QED
    BY <2>1 DEF UpTo
<1>8. ASSUME s[x] \notin Tied(w) PROVE First(x - 1) \subseteq Before(w, s[x])
  <2>1. ASSUME NEW y \in 1..(x - 1) PROVE s[y] \in S /\ Precedes(w, s[y], s[x])
    <3>1. s[y] \in S /\ s[x] \in S /\ s[y] # s[x] /\ ~Precedes(w, s[x], s[y])
      BY <1>1, <1>2
    <3> QED
      BY <1>8, <3>1 DEF Tied
  <2> QED
    BY <2>1 DEF Before
<1>9. Cardinality(Before(w, s[x])) <= x - 1 /\ Cardinality(Before(w, s[x])) \in Nat
  BY <1>3, <1>5, <1>6, FS_Subset, FS_CardinalityType
<1>10. x <= Cardinality(UpTo(w, s[x]))
  BY <1>3, <1>5, <1>7, FS_Subset
<1>11. s[x] \notin Tied(w) => Cardinality(Before(w, s[x])) = x - 1
  BY <1>3, <1>6, <1>8
<1> QED
  BY <1>1, <1>2, <1>9, <1>10, <1>11

(* A page holds, in some order of the rows that agrees with the ORDER BY,  *)
(* those after the rows of the pages before it.                            *)
Holds(p, s, done, per) ==
  LET n == Len(s) IN
  /\ p.items \in Seq(Id)
  /\ Len(p.items) = IF n <= done THEN 0 ELSE IF n <= done + per THEN n - done ELSE per
  /\ \A x \in DOMAIN p.items : done + x \in DOMAIN s /\ p.items[x] = s[done + x]
  /\ p.hasNext = (n > done + per)
  /\ p.total = IF n <= done THEN 0 ELSE n

LEMMA PageHolds ==
  ASSUME NEW S \in SUBSET Id, NEW f, NEW d, NEW page \in Nat \ {0}, NEW per \in Nat \ {0},
         NEW p \in Paged(S, f, d, page, per)
  PROVE  \E s \in SetToSeqs(S) :
           /\ \A x, y \in DOMAIN s : x < y => ~OrderBy(f, d, s[y], s[x])
           /\ Holds(p, s, (page - 1) * per, per)
<1>1. PICK done \in Nat : done = (page - 1) * per
  OBVIOUS
<1>2. PICK n : n = Cardinality(S)
  OBVIOUS
<1>3. PICK last : last = IF done + 1 + per < n THEN done + 1 + per ELSE n
  OBVIOUS
<1>4. PICK s \in SetToSeqs(S) :
        /\ \A x, y \in DOMAIN s : x < y => ~OrderBy(f, d, s[y], s[x])
        /\ p = ToMediaPage(SubSeq(s, done + 1, last), n, page, per)
  BY <1>1, <1>2, <1>3 DEF Paged
<1>5. IsFiniteSet(S)
  BY ReadersAssumption, FS_Subset
<1>6. n \in Nat /\ s \in Seq(S) /\ s \in Seq(Id) /\ Len(s) = n /\ DOMAIN s = 1..n
  BY <1>2, <1>5, OrdersAreOnto
<1>7. PICK rows : rows = SubSeq(s, done + 1, last)
  OBVIOUS
<1>8. /\ rows \in Seq(Id)
      /\ Len(rows) = IF n <= done THEN 0 ELSE last - done
      /\ \A x \in 1..Len(rows) : rows[x] = s[done + x]
  BY <1>3, <1>6, <1>7
<1>9. PICK m : m = IF Len(rows) > per THEN per ELSE Len(rows)
  OBVIOUS
<1>10. m \in 0..Len(rows) /\ m = IF n <= done THEN 0 ELSE IF n <= done + per THEN n - done ELSE per
  BY <1>3, <1>6, <1>8, <1>9
<1>11. /\ SubSeq(rows, 1, m) \in Seq(Id) /\ Len(SubSeq(rows, 1, m)) = m
       /\ \A x \in 1..m : SubSeq(rows, 1, m)[x] = rows[x]
  BY <1>8, <1>10
<1>12. /\ p.items = SubSeq(rows, 1, m) /\ p.hasNext = (Len(rows) > per)
       /\ p.total = IF rows = <<>> THEN 0 ELSE n
  BY <1>4, <1>7, <1>9 DEF ToMediaPage
<1>13. (Len(rows) > per) <=> (n > done + per)
  BY <1>3, <1>6, <1>8
<1>14. rows = <<>> <=> n <= done
  BY <1>3, <1>6, <1>8
<1>15. \A x \in 1..m : done + x \in 1..n /\ SubSeq(rows, 1, m)[x] = s[done + x]
  BY <1>6, <1>8, <1>10, <1>11
<1>16. Holds(p, s, done, per)
  BY <1>6, <1>10, <1>11, <1>12, <1>13, <1>14, <1>15 DEF Holds
<1> QED
  BY <1>1, <1>4, <1>16

(* The header that says whether another page follows.                      *)
LEMMA HasNextShown ==
  ASSUME NEW p, p.hasNext \in BOOLEAN
  PROVE  <<"has-next", TRUE>> \in Headers(p) <=> p.hasNext
BY DEF Headers, WritePagination, OffsetPagination

(* What a fetch receives: the next page of what the walk asks for.         *)
Ordered(w, s) == \A x, y \in DOMAIN s : x < y => ~Precedes(w, s[y], s[x])
NextPage(p) ==
  \E s \in SetToSeqs(Asked(walk)) : Ordered(walk, s) /\ Holds(p, s, Read(walk), Size(walk))

LEMMA SizeTyped ==
  ASSUME NEW w
  PROVE  Size(w) \in Nat \ {0}
<1>1. CatalogPageSize \in Nat \ {0} /\ MaxCatalogPageSize \in Nat \ {0}
  BY PageSizeAssumption
<1>2. Filter(w).limit \in Int
  BY DEF Filter, ParseCatalogFilter, QueryInt
<1> QED
  BY <1>1, <1>2 DEF Size, PerPage

LEMMA PlainAsksForAll == ParseCatalogFilter(Plain) = Unfiltered
BY AbsentAssumption DEF ParseCatalogFilter, Plain, Unfiltered, QueryAll, QueryInt, ParseUpdatedSince

LEMMA Fetched ==
  ASSUME BrowseTypeOK, Shaped, FetchPopular \/ FetchLatest \/ FetchSearch \/ FetchRecommended
  PROVE  walk \in Walks /\ walk.more /\ Walking /\ \E p : Receive(p) /\ NextPage(p)
<1>1. walk \in Walks /\ walk.more /\ Walking
  BY DEF FetchPopular, FetchLatest, FetchSearch, FetchRecommended, On, Shaped, NoWalk, Walking
<1>2. walk.page \in Nat \ {0} /\ NormPage(walk.page) = walk.page
  BY <1>1 DEF Walks, NormPage
<1>3. Asked(walk) \in SUBSET Id
  BY AskedRows, RowsTyped
<1>4. ASSUME NEW f, NEW d, NEW per, per = Size(walk),
             NEW p \in Paged(Asked(walk), f, d, walk.page, per),
             \A i, j \in Asked(walk) : Precedes(walk, i, j) <=> OrderBy(f, d, i, j)
      PROVE  NextPage(p)
  <2>1. PICK s \in SetToSeqs(Asked(walk)) :
          /\ \A x, y \in DOMAIN s : x < y => ~OrderBy(f, d, s[y], s[x])
          /\ Holds(p, s, (walk.page - 1) * per, per)
    BY <1>2, <1>3, <1>4, SizeTyped, PageHolds
  <2>2. \A x \in DOMAIN s : s[x] \in Asked(walk)
    BY AskedRows, OrdersAreOnto
  <2> QED
    BY <1>4, <2>1, <2>2 DEF NextPage, Ordered, Read
<1>5. CASE FetchPopular
  <2>1. walk.feed = "popular"
    BY <1>5 DEF FetchPopular, On
  <2>2. PICK p \in Popular(walk.page, Filter(walk)) : Receive(p)
    BY <1>5 DEF FetchPopular
  <2>3. p \in Paged(Asked(walk), Filter(walk), "popular", walk.page, Size(walk))
    BY <1>2, <2>1, <2>2 DEF Popular, List, FeedDefault, Asked, Fallback, Size
  <2>4. \A i, j \in Asked(walk) : Precedes(walk, i, j) <=> OrderBy(Filter(walk), "popular", i, j)
    BY <2>1 DEF Precedes
  <2> QED
    BY <1>1, <1>4, <2>2, <2>3, <2>4
<1>6. CASE FetchLatest
  <2>1. walk.feed = "latest"
    BY <1>6 DEF FetchLatest, On
  <2>2. PICK p \in Latest(walk.page, Filter(walk)) : Receive(p)
    BY <1>6 DEF FetchLatest
  <2>3. p \in Paged(Asked(walk), Filter(walk), "updated", walk.page, Size(walk))
    BY <1>2, <2>1, <2>2 DEF Latest, List, FeedDefault, Asked, Fallback, Size
  <2>4. \A i, j \in Asked(walk) : Precedes(walk, i, j) <=> OrderBy(Filter(walk), "updated", i, j)
    BY <2>1 DEF Precedes
  <2> QED
    BY <1>1, <1>4, <2>2, <2>3, <2>4
<1>7. CASE FetchSearch
  <2>1. walk.feed = "search"
    BY <1>7 DEF FetchSearch, On
  <2>2. PICK p \in SearchFeed(walk.term, walk.page, Filter(walk)) : Receive(p)
    BY <1>7 DEF FetchSearch
  <2>3. p \in Paged(Asked(walk), Filter(walk), "title", walk.page, Size(walk))
    BY <1>2, <2>1, <2>2 DEF SearchFeed, SearchRows, Asked, Size
  <2>4. \A i, j \in Asked(walk) : Precedes(walk, i, j) <=> OrderBy(Filter(walk), "title", i, j)
    BY <2>1 DEF Precedes
  <2> QED
    BY <1>1, <1>4, <2>2, <2>3, <2>4
<1>8. CASE FetchRecommended
  <2>1. walk.feed = "recommend" /\ Filter(walk) = Unfiltered
    BY <1>8, PlainAsksForAll DEF FetchRecommended, On, Shaped, Filter
  <2>2. PICK p \in Recommendations(walk.term, walk.exclude, walk.page) : Receive(p)
    BY <1>8 DEF FetchRecommended
  <2>3. ASSUME walk.term = {}
        PROVE  p \in Paged(Asked(walk), Unfiltered, "popular", walk.page, Size(walk))
    <3>1. Asked(walk) = FilterClauses(Unfiltered) /\ Size(walk) = CatalogPageSize
      BY <2>1, <2>3 DEF Asked, Fallback, Size
    <3> QED
      BY <1>2, <2>1, <2>2, <2>3, <3>1 DEF Recommendations, List, FeedDefault
  <2>5. ASSUME walk.term # {}
        PROVE  p \in Paged(Asked(walk), Unfiltered, "popular", walk.page, Size(walk))
    <3>1. Asked(walk) = Shared(walk.term, walk.exclude) /\ Size(walk) = CatalogPageSize
      BY <2>1, <2>5 DEF Asked, Fallback, Size
    <3> QED
      BY <1>2, <2>1, <2>2, <2>5, <3>1 DEF Recommendations, Recommend
  <2>6. p \in Paged(Asked(walk), Unfiltered, "popular", walk.page, Size(walk))
    BY <2>3, <2>5
  <2>7. \A i, j \in Asked(walk) : Precedes(walk, i, j) <=> OrderBy(Unfiltered, "popular", i, j)
    BY <2>1 DEF Precedes
  <2> QED
    BY <1>1, <1>4, <2>2, <2>6, <2>7
<1> QED
  BY <1>1, <1>5, <1>6, <1>7, <1>8

(* The steps, by what they do.                                              *)
Sends(p) ==
  \E op \in {"create", "update", "cover"}, i \in Id, e \in Content : Send(p, op, i, e)
Fresh(w) ==
  /\ w \in Walks /\ w.page = 1 /\ w.got = <<>> /\ w.more /\ w.top = 0 /\ ~w.changed
  /\ w.sync => /\ w.feed = "latest"
               /\ \E l \in {Absent, 1} :
                    w.q = [Plain EXCEPT !.limit = l, !.since = IF mark = 0 THEN Absent ELSE mark]
  /\ w.feed = "recommend" => w.q = Plain
Fetch(p) ==
  walk \in Walks /\ walk.more /\ Walking /\ Receive(p) /\ NextPage(p)

LEMMA WalkIsFresh ==
  ASSUME NEW feed \in {"popular", "latest", "search", "recommend"}, NEW q \in Queries,
         NEW term \in Terms, NEW exclude \in SUBSET Id, NEW sync \in BOOLEAN,
         sync => /\ feed = "latest"
                 /\ \E l \in {Absent, 1} :
                      q = [Plain EXCEPT !.limit = l, !.since = IF mark = 0 THEN Absent ELSE mark],
         feed = "recommend" => q = Plain
  PROVE  Fresh(Walk(feed, q, term, exclude, sync))
<1>1. 0 \in 0..MaxClock /\ <<>> \in Seq(Id)
  BY ReadersAssumption
<1> QED
  BY <1>1 DEF Fresh, Walk, Walks

LEMMA Opened ==
  ASSUME BrowseTypeOK, OpenFeed \/ OpenClass \/ OpenSearch \/ OpenRecommended \/ Synchronise
  PROVE  \E w : Open(w) /\ Fresh(w)
<1>0. \A i \in Listed : catalog[i].entry \in Content
  BY RowsTyped DEF MediaRow
<1>1. {} \in Terms /\ {} \in SUBSET Id /\ Plain \in Queries
  BY DEF Terms, Queries
<1>2. CASE OpenFeed
  <2>1. PICK feed \in {"popular", "latest"}, q \in Requests : Open(Walk(feed, q, {}, {}, FALSE))
    BY <1>2 DEF OpenFeed, OpenOnce
  <2>2. q \in Queries
    BY DEF Queries
  <2> QED
    BY <1>1, <2>1, <2>2, WalkIsFresh
<1>3. CASE OpenClass
  <2>1. CASE \E s \in SubTypes : Open(Walk("latest", [Plain EXCEPT !.subType = {{s, Blank}}], {}, {}, FALSE))
    <3>1. PICK s \in SubTypes : Open(Walk("latest", [Plain EXCEPT !.subType = {{s, Blank}}], {}, {}, FALSE))
      BY <2>1
    <3>2. [Plain EXCEPT !.subType = {{s, Blank}}] \in Queries
      BY <1>0 DEF SubTypes, OfClass, Queries
    <3> QED
      BY <1>1, <3>1, <3>2, WalkIsFresh
  <2>2. CASE \E t \in MediaTypesBySource : Open(Walk("popular", [Plain EXCEPT !.type = {{t}}], {}, {}, FALSE))
    <3>1. PICK t \in MediaTypesBySource : Open(Walk("popular", [Plain EXCEPT !.type = {{t}}], {}, {}, FALSE))
      BY <2>2
    <3>2. [Plain EXCEPT !.type = {{t}}] \in Queries
      BY <1>0 DEF MediaTypesBySource, OfClass, Queries
    <3> QED
      BY <1>1, <3>1, <3>2, WalkIsFresh
  <2> QED
    BY <1>3, <2>1, <2>2 DEF OpenClass, OpenOnce
<1>4. CASE OpenSearch
  <2>1. PICK term \in DOMAIN Search, q \in Requests : Open(Walk("search", q, term, {}, FALSE))
    BY <1>4 DEF OpenSearch, OpenOnce
  <2>2. q \in Queries /\ term \in Terms
    BY DEF Queries, Terms
  <2> QED
    BY <1>1, <2>1, <2>2, WalkIsFresh
<1>5. CASE OpenRecommended
  <2>1. PICK subs \in SUBSET SubTypes, exclude \in {{}} \union {{i} : i \in Listed} :
          Open(Walk("recommend", Plain, subs, exclude, FALSE))
    BY <1>5 DEF OpenRecommended, OpenOnce
  <2>2. SubTypes \subseteq {e.sub : e \in Content}
    BY <1>0 DEF SubTypes
  <2>3. subs \in Terms /\ exclude \in SUBSET Id
    BY <2>2, RowsTyped DEF Terms
  <2> QED
    BY <1>1, <2>1, <2>3, WalkIsFresh
<1>6. CASE Synchronise
  <2>1. PICK m : m = IF mark = 0 THEN Absent ELSE mark
    OBVIOUS
  <2>2. PICK l \in {Absent, 1} : Open(Walk("latest", [Plain EXCEPT !.limit = l, !.since = m], {}, {}, TRUE))
    BY <1>6, <2>1 DEF Synchronise
  <2>3. m \in {Absent} \union Time
    BY <2>1 DEF BrowseTypeOK
  <2>4. [Plain EXCEPT !.limit = l, !.since = m] \in Queries
    <3>1. [Plain EXCEPT !.limit = l, !.since = m] \in Changed
      <4> DEFINE P(a, b) == [Plain EXCEPT !.limit = a, !.since = b]
      <4>1. Changed = {P(a, b) : a \in {Absent, 1}, b \in {Absent} \union Time}
        BY DEF Changed
      <4> HIDE DEF P
      <4>2. P(l, m) \in Changed
        BY <2>3, <4>1
      <4> QED
        BY <4>2 DEF P
    <3> QED
      BY <3>1 DEF Queries
  <2> QED
    BY <1>1, <2>1, <2>2, <2>4, WalkIsFresh
<1> QED
  BY <1>2, <1>3, <1>4, <1>5, <1>6

LEMMA Steps ==
  ASSUME BrowseTypeOK, Shaped, BrowseNext
  PROVE  \/ Tick \/ DeleteMedia \/ Close
         \/ \E p \in Writer : Sends(p) \/ Commit(p) \/ FailWrite(p)
         \/ \E w : Open(w) /\ Fresh(w)
         \/ \E p : Fetch(p)
<1>0. Listed \subseteq Id /\ \A i \in Listed : catalog[i].entry \in Content
  BY RowsTyped DEF MediaRow
<1>1. ASSUME NEW p \in Writer, CreateMedia(p) \/ UpdateMedia(p) \/ SetMediaCover(p)
      PROVE  Sends(p)
  BY <1>0, <1>1 DEF CreateMedia, UpdateMedia, SetMediaCover, Sends
<1>2. ASSUME FetchPopular \/ FetchLatest \/ FetchSearch \/ FetchRecommended PROVE \E p : Fetch(p)
  BY <1>2, Fetched DEF Fetch
<1> QED
  BY <1>1, <1>2, Opened DEF BrowseNext

(* What a page tells about itself.                                          *)
LEMMA PageFacts ==
  ASSUME BrowseTypeOK, NEW p, NextPage(p)
  PROVE  /\ p.items \in Seq(Id) /\ p.hasNext \in BOOLEAN /\ p.total \in Nat
         /\ ToSet(p.items) \subseteq Asked(walk) /\ ToSet(p.items) \subseteq Listed
         /\ IsFiniteSet({walk.top} \union {catalog[i].at : i \in ToSet(p.items)})
<1>1. PICK s \in SetToSeqs(Asked(walk)) : Holds(p, s, Read(walk), Size(walk))
  BY DEF NextPage
<1>2. /\ s \in Seq(Asked(walk)) /\ Len(s) = Cardinality(Asked(walk)) /\ Len(s) \in Nat
      /\ \A x \in DOMAIN s : s[x] \in Asked(walk)
  BY AskedRows, OrdersAreOnto
<1>3. p.items \in Seq(Id) /\ p.hasNext \in BOOLEAN /\ p.total \in Nat
  BY <1>1, <1>2 DEF Holds
<1>4. ToSet(p.items) \subseteq Asked(walk) /\ ToSet(p.items) \subseteq Listed
  BY <1>1, <1>2, AskedRows DEF Holds, ToSet
<1>5. IsFiniteSet(1..MaxClock)
  BY ReadersAssumption, FS_Interval
<1>6. {catalog[i].at : i \in ToSet(p.items)} \subseteq 1..MaxClock
  BY <1>4, RowsTyped, ReadersAssumption
<1>7. IsFiniteSet({catalog[i].at : i \in ToSet(p.items)})
  BY <1>5, <1>6, FS_Subset
<1>8. IsFiniteSet({walk.top})
  BY FS_Singleton
<1>9. IsFiniteSet({walk.top} \union {catalog[i].at : i \in ToSet(p.items)})
  BY <1>7, <1>8, FS_Union
<1> QED
  BY <1>3, <1>4, <1>9

(* The walk after a page, or after its rows have changed.                  *)
SameRequest ==
  /\ walk'.feed = walk.feed /\ walk'.q = walk.q /\ walk'.term = walk.term
  /\ walk'.exclude = walk.exclude /\ walk'.sync = walk.sync

LEMMA Received ==
  ASSUME BrowseTypeOK, Shaped, NEW p, Fetch(p)
  PROVE  /\ walk' \in Walks /\ Walking' /\ SameRequest
         /\ walk'.changed = walk.changed /\ walk'.page = walk.page + 1
         /\ walk'.more = p.hasNext
         /\ IF walk.sync
            THEN /\ walk'.top \in {walk.top} \union {catalog[i].at : i \in ToSet(p.items)}
                 /\ walk.top <= walk'.top
                 /\ \A i \in ToSet(p.items) : catalog[i].at <= walk'.top
            ELSE /\ walk'.top = walk.top
                 /\ ~walk.changed => walk'.got = walk.got \o p.items /\ walk'.total = p.total
<1>1. walk \in Walks /\ walk.page + 1 \in Nat \ {0} /\ walk.top \in 0..MaxClock /\ walk.got \in Seq(Id)
  BY DEF Fetch, Walks
<1>2. p.items \in Seq(Id) /\ p.hasNext \in BOOLEAN /\ p.total \in Nat /\ ToSet(p.items) \subseteq Listed
  BY PageFacts DEF Fetch
<1>3. PICK more \in BOOLEAN : more = (<<"has-next", TRUE>> \in Headers(p)) /\ more = p.hasNext
  BY <1>2, HasNextShown
<1>4. PICK w \in Walks : w = [walk EXCEPT !.page = walk.page + 1, !.more = more]
  BY <1>1 DEF Walks
<1>5. walk' = IF walk.sync
              THEN [w EXCEPT !.top = Newest({@} \union {catalog[i].at : i \in ToSet(p.items)})]
              ELSE IF walk.changed THEN w
              ELSE [w EXCEPT !.got = @ \o p.items, !.total = p.total]
  BY <1>1, <1>3, <1>4 DEF Fetch, Receive
<1>6. /\ w.page = walk.page + 1 /\ w.more = more /\ w.top = walk.top /\ w.got = walk.got
      /\ w.feed = walk.feed /\ w.q = walk.q /\ w.term = walk.term
      /\ w.exclude = walk.exclude /\ w.sync = walk.sync /\ w.changed = walk.changed
  BY <1>1, <1>4 DEF Walks
<1>7. walk.feed # "none" /\ walk.sync \in BOOLEAN /\ walk.changed \in BOOLEAN
  BY <1>1 DEF Walks
<1>8. CASE walk.sync
  <2>1. PICK S : S = {walk.top} \union {catalog[i].at : i \in ToSet(p.items)}
    OBVIOUS
  <2>2. IsFiniteSet(S) /\ S \subseteq Int /\ S # {} /\ S \subseteq 0..MaxClock
    BY <1>1, <1>2, <2>1, PageFacts, RowsTyped, ReadersAssumption DEF Fetch
  <2>3. Newest(S) \in S /\ \A t \in S : t <= Newest(S)
    BY <2>2, NewestIsLargest
  <2>4. walk' = [w EXCEPT !.top = Newest(S)]
    BY <1>5, <1>6, <1>8, <2>1
  <2>5. Newest(S) \in 0..MaxClock
    BY <2>2, <2>3
  <2>6. walk' \in Walks /\ walk'.top = Newest(S) /\ SameRequest /\ walk'.changed = walk.changed
        /\ walk'.page = walk.page + 1 /\ walk'.more = more
    BY <1>4, <1>6, <2>4, <2>5 DEF Walks, SameRequest
  <2> QED
    BY <1>3, <1>7, <1>8, <2>1, <2>3, <2>6 DEF Walking, SameRequest
<1>9. CASE ~walk.sync /\ walk.changed
  BY <1>3, <1>4, <1>5, <1>6, <1>7, <1>9 DEF Walking, SameRequest
<1>10. CASE ~walk.sync /\ ~walk.changed
  <2>1. walk' = [w EXCEPT !.got = walk.got \o p.items, !.total = p.total]
    BY <1>5, <1>6, <1>10
  <2>2. walk.got \o p.items \in Seq(Id)
    BY <1>1, <1>2
  <2>3. /\ walk' \in Walks /\ walk'.top = walk.top /\ SameRequest /\ walk'.changed = walk.changed
        /\ walk'.page = walk.page + 1 /\ walk'.more = more
        /\ walk'.got = walk.got \o p.items /\ walk'.total = p.total
    BY <1>2, <1>4, <1>6, <2>1, <2>2 DEF Walks, SameRequest
  <2> QED
    BY <1>3, <1>7, <1>10, <2>3 DEF Walking, SameRequest
<1> QED
  BY <1>7, <1>8, <1>9, <1>10

LEMMA Disturbed ==
  ASSUME Shaped, Disturb
  PROVE  /\ Walking' <=> Walking
         /\ ~Walking => walk' = walk
         /\ Walking => /\ walk' \in Walks /\ SameRequest /\ walk'.changed
                       /\ walk'.page = walk.page /\ walk'.more = walk.more /\ walk'.top = walk.top
<1>1. CASE ~Walking
  BY <1>1 DEF Disturb, Walking
<1>2. CASE Walking
  <2>1. walk \in Walks
    BY <1>2 DEF Shaped, Walking, NoWalk
  <2>2. <<>> \in Seq(Id)
    OBVIOUS
  <2>3. walk' = [walk EXCEPT !.changed = TRUE, !.got = <<>>, !.total = 0]
    BY <1>2 DEF Disturb
  <2>4. /\ walk' \in Walks /\ SameRequest /\ walk'.changed
        /\ walk'.page = walk.page /\ walk'.more = walk.more /\ walk'.top = walk.top
    BY <2>1, <2>2, <2>3 DEF Walks, SameRequest
  <2> QED
    BY <1>2, <2>1, <2>4 DEF Walking, Walks, SameRequest
<1> QED
  BY <1>1, <1>2

LEMMA SameQuestion ==
  ASSUME SameRequest
  PROVE  /\ Filter(walk)' = Filter(walk) /\ Size(walk)' = Size(walk)
         /\ catalog' = catalog =>
              /\ Asked(walk)' = Asked(walk) /\ Tied(walk)' = Tied(walk)
              /\ \A i, j : Precedes(walk, i, j)' <=> Precedes(walk, i, j)
              /\ \A i : Before(walk, i)' = Before(walk, i) /\ UpTo(walk, i)' = UpTo(walk, i)
<1>1. Filter(walk)' = Filter(walk) /\ Size(walk)' = Size(walk) /\ Fallback(walk)' = Fallback(walk)
  BY DEF SameRequest, Filter, Size, Fallback
<1>2. ASSUME catalog' = catalog
      PROVE  /\ Asked(walk)' = Asked(walk)
             /\ \A i, j : Precedes(walk, i, j)' <=> Precedes(walk, i, j)
  <2>1. \A f : FilterClauses(f)' = FilterClauses(f)
    BY <1>2 DEF FilterClauses, Listed
  <2>2. \A t, f : Titled(t, f)' = Titled(t, f)
    BY <1>2, <2>1 DEF Titled
  <2>3. \A t, x : Shared(t, x)' = Shared(t, x)
    BY <1>2 DEF Shared, Listed
  <2>4. \A f, d, i, j : OrderBy(f, d, i, j)' <=> OrderBy(f, d, i, j)
    BY <1>2 DEF OrderBy, Column
  <2>5. \A i, j : Precedes(walk, i, j)' <=> Precedes(walk, i, j)
    BY <1>1, <2>4 DEF SameRequest, Precedes
  <2>6. Asked(walk)' = Asked(walk)
    BY <1>1, <2>1, <2>2, <2>3 DEF SameRequest, Asked
  <2> QED
    BY <2>5, <2>6
<1>3. ASSUME catalog' = catalog
      PROVE  /\ Tied(walk)' = Tied(walk)
             /\ \A i : Before(walk, i)' = Before(walk, i) /\ UpTo(walk, i)' = UpTo(walk, i)
  BY <1>2, <1>3 DEF Tied, Before, UpTo
<1> QED
  BY <1>1, <1>2, <1>3

(* A row lands, or nothing does.                                            *)
Lands(i, e, t) ==
  /\ catalog' = [catalog EXCEPT ![i] = [entry |-> e, at |-> t]] /\ Disturb
  /\ missed' = missed \union {i}
  /\ excused' = IF t < clock THEN excused \union {i} \union PassedOver(i, t) ELSE excused \ {i}

LEMMA Committed ==
  ASSUME BrowseTypeOK, Past, NEW p \in Writer, Commit(p)
  PROVE  \/ UNCHANGED <<catalog, walk, missed, excused>>
         \/ \E i \in Id, e \in Content, t \in Time : t <= clock /\ Lands(i, e, t)
<1>1. PICK w : w = pending[p]
  OBVIOUS
<1>2. w \in Write /\ w.at <= clock
  BY <1>1 DEF Commit, BrowseTypeOK, Past
<1>3. PICK i \in Id, t \in Time : i = w.id /\ t = w.at
  BY <1>2 DEF Write
<1>4. PICK row : row = IF w.op = "cover" THEN [catalog[i] EXCEPT !.at = w.at]
                       ELSE [entry |-> w.entry, at |-> w.at]
  OBVIOUS
<1>5. CASE w.op = "create" \/ i \in Listed
  <2>1. catalog' = [catalog EXCEPT ![i] = row] /\ Disturb /\ missed' = missed \union {i}
        /\ excused' = IF t < clock THEN excused \union {i} \union PassedOver(i, t) ELSE excused \ {i}
    BY <1>1, <1>3, <1>4, <1>5 DEF Commit
  <2>2. \E e \in Content : row = [entry |-> e, at |-> t]
    <3>1. CASE w.op = "cover"
      <4>1. catalog[i] \in MediaRow
        BY <1>5, <3>1, RowsTyped
      <4>2. row = [catalog[i] EXCEPT !.at = t]
        BY <1>3, <1>4, <3>1
      <4>3. catalog[i].entry \in Content /\ row = [entry |-> catalog[i].entry, at |-> t]
        BY <4>1, <4>2 DEF MediaRow
      <4> QED
        BY <4>3
    <3>2. CASE w.op # "cover"
      BY <1>2, <1>3, <1>4, <3>2 DEF Write
    <3> QED
      BY <3>1, <3>2
  <2> QED
    BY <1>2, <1>3, <2>1, <2>2 DEF Lands
<1>6. CASE ~(w.op = "create" \/ i \in Listed)
  BY <1>1, <1>3, <1>6 DEF Commit
<1> QED
  BY <1>5, <1>6

LEMMA Landed ==
  ASSUME BrowseTypeOK, NEW i \in Id, NEW e \in Content, NEW t \in Time, Lands(i, e, t)
  PROVE  /\ catalog' \in [Id -> MediaRow \union {NoMedia}] /\ Listed' = Listed \union {i}
         /\ catalog'[i] = [entry |-> e, at |-> t] /\ \A j \in Listed \ {i} : catalog'[j] = catalog[j]
<1>1. [entry |-> e, at |-> t] \in MediaRow /\ [entry |-> e, at |-> t] # NoMedia
  BY ReadersAssumption DEF MediaRow
<1>2. catalog' \in [Id -> MediaRow \union {NoMedia}]
  BY <1>1 DEF Lands, BrowseTypeOK
<1>3. \A j \in Id : catalog'[j] = IF j = i THEN [entry |-> e, at |-> t] ELSE catalog[j]
  BY DEF Lands, BrowseTypeOK
<1>4. Listed' = Listed \union {i}
  BY <1>1, <1>3 DEF Listed
<1> QED
  BY <1>2, <1>3, <1>4 DEF Listed

LEMMA ReadersTypeStep ==
  ASSUME BrowseTypeOK, Shaped, Past, [BrowseNext]_browseVars
  PROVE  BrowseTypeOK'
<1>1. ASSUME Tick PROVE BrowseTypeOK'
  BY <1>1, ReadersAssumption DEF Tick, BrowseTypeOK, Time, Listed
<1>2. ASSUME DeleteMedia PROVE BrowseTypeOK'
  <2>1. PICK i \in Listed :
          /\ catalog' = [catalog EXCEPT ![i] = NoMedia] /\ missed' = missed \ {i}
          /\ excused' = (IF Syncing THEN excused \union missed ELSE excused) \ {i}
    BY <1>2 DEF DeleteMedia
  <2>2. \A j \in Id : catalog'[j] = IF j = i THEN NoMedia ELSE catalog[j]
    BY <2>1 DEF BrowseTypeOK
  <2>3. Listed' = Listed \ {i} /\ catalog' \in [Id -> MediaRow \union {NoMedia}]
    BY <2>1, <2>2 DEF Listed, BrowseTypeOK
  <2>4. writes' \in 0..MaxWrites /\ UNCHANGED <<clock, pending, mark, walks>>
    BY <1>2, ReadersAssumption DEF DeleteMedia, BrowseTypeOK
  <2> QED
    BY <2>1, <2>3, <2>4 DEF BrowseTypeOK
<1>3. ASSUME Close PROVE BrowseTypeOK'
  <2>1. mark' \in Time \union {0}
    <3>1. CASE walk.sync /\ ~walk.more
      <4>1. walk.top \in 0..MaxClock /\ mark \in 0..MaxClock
        BY <1>3, ReadersAssumption DEF Close, Shaped, Walking, NoWalk, Walks, BrowseTypeOK, Time
      <4>2. mark \in Int /\ walk.top \in Int
        BY <4>1
      <4>3. Newest({mark, walk.top}) \in {mark, walk.top}
        BY <4>2, NewestOfTwo
      <4> QED
        BY <1>3, <3>1, <4>1, <4>3, ReadersAssumption DEF Close, Time
    <3>2. CASE ~(walk.sync /\ ~walk.more)
      BY <1>3, <3>2 DEF Close, BrowseTypeOK
    <3> QED
      BY <3>1, <3>2
  <2>2. excused' \subseteq missed'
    BY <1>3 DEF Close, BrowseTypeOK
  <2> QED
    BY <1>3, <2>1, <2>2 DEF Close, BrowseTypeOK, Listed
<1>4. ASSUME NEW p \in Writer, Sends(p) PROVE BrowseTypeOK'
  <2>1. PICK op \in {"create", "update", "cover"}, i \in Id, e \in Content : Send(p, op, i, e)
    BY <1>4 DEF Sends
  <2>2. [id |-> i, entry |-> e, at |-> clock, op |-> op] \in Write
    BY DEF BrowseTypeOK, Write
  <2> QED
    BY <2>1, <2>2, ReadersAssumption DEF Send, BrowseTypeOK, Listed
<1>5. ASSUME NEW p \in Writer, Commit(p) PROVE BrowseTypeOK'
  <2>1. pending' \in [Writer -> Write \union {NoWrite}] /\ UNCHANGED <<clock, mark, writes, walks>>
    BY <1>5 DEF Commit, BrowseTypeOK
  <2>2. CASE UNCHANGED <<catalog, walk, missed, excused>>
    BY <2>1, <2>2 DEF BrowseTypeOK, Listed
  <2>3. CASE \E i \in Id, e \in Content, t \in Time : t <= clock /\ Lands(i, e, t)
    <3>1. PICK i \in Id, e \in Content, t \in Time : Lands(i, e, t)
      BY <2>3
    <3>2. catalog' \in [Id -> MediaRow \union {NoMedia}] /\ Listed' = Listed \union {i}
      BY <3>1, Landed
    <3>3. missed' \subseteq Listed' /\ excused' \subseteq missed'
      BY <3>1, <3>2 DEF Lands, PassedOver, BrowseTypeOK
    <3> QED
      BY <2>1, <3>2, <3>3 DEF BrowseTypeOK
  <2> QED
    BY <1>5, <2>2, <2>3, Committed
<1>6. ASSUME NEW p \in Writer, FailWrite(p) PROVE BrowseTypeOK'
  BY <1>6 DEF FailWrite, BrowseTypeOK, Listed
<1>7. ASSUME NEW w, Open(w) PROVE BrowseTypeOK'
  BY <1>7, ReadersAssumption DEF Open, BrowseTypeOK, Listed
<1>8. ASSUME NEW p, Fetch(p) PROVE BrowseTypeOK'
  <2>1. UNCHANGED <<clock, catalog, pending, mark, writes, walks>>
    BY <1>8 DEF Fetch, Receive
  <2>2. missed' \subseteq missed /\ excused' \subseteq missed'
    BY <1>8 DEF Fetch, Receive, BrowseTypeOK
  <2> QED
    BY <2>1, <2>2 DEF BrowseTypeOK, Listed
<1>9. CASE UNCHANGED browseVars
  BY <1>9 DEF browseVars, BrowseTypeOK, Listed
<1> QED
  BY <1>1, <1>2, <1>3, <1>4, <1>5, <1>6, <1>7, <1>8, <1>9, Steps

LEMMA ShapedStep ==
  ASSUME BrowseTypeOK, Shaped, Past, [BrowseNext]_browseVars
  PROVE  Shaped'
<1>1. ASSUME UNCHANGED <<walk, mark>> PROVE Shaped'
  BY <1>1 DEF Shaped, Syncing, Walking
<1>2. ASSUME SameRequest, walk' \in Walks, UNCHANGED mark, Walking PROVE Shaped'
  BY <1>2 DEF SameRequest, Shaped, Syncing, Walking
<1>3. ASSUME Disturb, UNCHANGED mark PROVE Shaped'
  BY <1>1, <1>2, <1>3, Disturbed
<1>4. ASSUME Tick \/ (\E p \in Writer : Sends(p) \/ FailWrite(p)) PROVE Shaped'
  BY <1>1, <1>4 DEF Tick, Sends, Send, FailWrite
<1>5. ASSUME DeleteMedia PROVE Shaped'
  BY <1>3, <1>5 DEF DeleteMedia
<1>6. ASSUME NEW p \in Writer, Commit(p) PROVE Shaped'
  <2>1. UNCHANGED mark
    BY <1>6 DEF Commit
  <2> QED
    BY <1>1, <1>3, <1>6, <2>1, Committed DEF Lands
<1>7. ASSUME Close PROVE Shaped'
  BY <1>7 DEF Close, Shaped, Syncing, Walking, NoWalk
<1>8. ASSUME NEW w, Open(w), Fresh(w) PROVE Shaped'
  BY <1>8 DEF Open, Fresh, Shaped, Syncing
<1>9. ASSUME NEW p, Fetch(p) PROVE Shaped'
  <2>1. SameRequest /\ walk' \in Walks
    BY <1>9, Received
  <2> QED
    BY <1>2, <1>9, <2>1 DEF Fetch, Receive
<1>10. CASE UNCHANGED browseVars
  BY <1>1, <1>10 DEF browseVars
<1> QED
  BY <1>4, <1>5, <1>6, <1>7, <1>8, <1>9, <1>10, Steps

LEMMA PastStep ==
  ASSUME BrowseTypeOK, Shaped, Past, [BrowseNext]_browseVars
  PROVE  Past'
<1>0. clock \in Int
  BY ReadersAssumption DEF BrowseTypeOK, Time
<1>1. ASSUME Tick PROVE Past'
  <2>1. clock' = clock + 1 /\ UNCHANGED <<catalog, pending, walk, mark>>
    BY <1>1 DEF Tick
  <2>2. /\ mark \in Int /\ \A i \in Listed : catalog[i].at \in Int
        /\ \A p \in Writer : pending[p] # NoWrite => pending[p].at \in Int
        /\ Walking => walk.top \in Int
    BY RowsTyped, ReadersAssumption DEF BrowseTypeOK, Write, Time, Shaped, Walks, Walking, NoWalk
  <2>3. Listed' = Listed /\ Walking' = Walking
    BY <2>1 DEF Listed, Walking
  <2> QED
    BY <1>0, <2>1, <2>2, <2>3 DEF Past
<1>2. ASSUME DeleteMedia PROVE Past'
  <2>1. PICK i \in Listed : catalog' = [catalog EXCEPT ![i] = NoMedia] /\ Disturb
    BY <1>2 DEF DeleteMedia
  <2>2. \A j \in Id : catalog'[j] = IF j = i THEN NoMedia ELSE catalog[j]
    BY <2>1 DEF BrowseTypeOK
  <2>3. \A j \in Listed' : j \in Listed /\ catalog'[j] = catalog[j]
    BY <2>2 DEF Listed
  <2>4. Walking' => Walking /\ walk'.top = walk.top
    BY <2>1, Disturbed
  <2> QED
    BY <1>2, <2>3, <2>4 DEF DeleteMedia, Past
<1>3. ASSUME Close PROVE Past'
  <2>1. mark' <= clock
    <3>1. CASE walk.sync /\ ~walk.more
      <4>1. walk.top \in Int /\ mark \in Int /\ walk.top <= clock
        BY <1>3, ReadersAssumption
        DEF Close, Shaped, Walking, NoWalk, Walks, BrowseTypeOK, Time, Past
      <4> QED
        BY <1>3, <3>1, <4>1, NewestOfTwo DEF Close, Past
    <3>2. CASE ~(walk.sync /\ ~walk.more)
      BY <1>3, <3>2 DEF Close, Past
    <3> QED
      BY <3>1, <3>2
  <2> QED
    BY <1>3, <2>1 DEF Close, Past, Listed, Walking, NoWalk
<1>4. ASSUME NEW p \in Writer, Sends(p) PROVE Past'
  <2>1. PICK op, i, e : Send(p, op, i, e)
    BY <1>4 DEF Sends
  <2>2. \A q \in Writer : pending'[q] =
          IF q = p THEN [id |-> i, entry |-> e, at |-> clock, op |-> op] ELSE pending[q]
    BY <2>1 DEF Send, BrowseTypeOK
  <2> QED
    BY <1>0, <2>1, <2>2 DEF Send, Past, Listed, Walking
<1>5. ASSUME NEW p \in Writer, Commit(p) PROVE Past'
  <2>1. UNCHANGED <<clock, mark>> /\ \A q \in Writer : pending'[q] # NoWrite => pending'[q] = pending[q]
    BY <1>5 DEF Commit, BrowseTypeOK
  <2>2. CASE UNCHANGED <<catalog, walk, missed, excused>>
    BY <2>1, <2>2 DEF Past, Listed, Walking
  <2>3. CASE \E i \in Id, e \in Content, t \in Time : t <= clock /\ Lands(i, e, t)
    <3>1. PICK i \in Id, e \in Content, t \in Time : t <= clock /\ Lands(i, e, t)
      BY <2>3
    <3>2. \A j \in Listed' : catalog'[j].at <= clock
      <4>1. /\ Listed' = Listed \union {i} /\ catalog'[i] = [entry |-> e, at |-> t]
            /\ \A j \in Listed \ {i} : catalog'[j] = catalog[j]
        BY <3>1, Landed
      <4> QED
        BY <3>1, <4>1 DEF Past
    <3>3. Walking' => Walking /\ walk'.top = walk.top
      BY <3>1, Disturbed DEF Lands
    <3> QED
      BY <2>1, <3>2, <3>3 DEF Past
  <2> QED
    BY <1>5, <2>2, <2>3, Committed
<1>6. ASSUME NEW p \in Writer, FailWrite(p) PROVE Past'
  <2>1. \A q \in Writer : pending'[q] # NoWrite => pending'[q] = pending[q]
    BY <1>6 DEF FailWrite, BrowseTypeOK
  <2> QED
    BY <1>6, <2>1 DEF FailWrite, Past, Listed, Walking
<1>7. ASSUME NEW w, Open(w), Fresh(w) PROVE Past'
  <2>1. 0 <= clock
    BY <1>0, ReadersAssumption DEF BrowseTypeOK, Time
  <2> QED
    BY <1>7, <2>1 DEF Open, Fresh, Past, Listed
<1>8. ASSUME NEW p, Fetch(p) PROVE Past'
  <2>1. UNCHANGED <<clock, catalog, pending, mark>> /\ Walking
    BY <1>8 DEF Fetch, Receive
  <2>2. ToSet(p.items) \subseteq Listed
    BY <1>8, PageFacts DEF Fetch
  <2>3. walk'.top <= clock
    BY <1>8, <2>1, <2>2, Received DEF Past
  <2> QED
    BY <2>1, <2>3 DEF Past, Listed
<1>9. CASE UNCHANGED browseVars
  BY <1>9 DEF browseVars, Past, Listed, Walking
<1> QED
  BY <1>1, <1>2, <1>3, <1>4, <1>5, <1>6, <1>7, <1>8, <1>9, Steps

LEMMA OlderStep ==
  ASSUME BrowseTypeOK, Shaped, Past, AsNew, Sought, [BrowseNext]_browseVars
  PROVE  AsNew'
<1>0. missed \subseteq Listed /\ mark \in Int /\ clock \in Int
  BY ReadersAssumption DEF BrowseTypeOK, Time
<1>1. ASSUME UNCHANGED <<catalog, mark, missed, excused>> PROVE AsNew'
  BY <1>1 DEF AsNew
<1>2. ASSUME DeleteMedia PROVE AsNew'
  <2>1. PICK i \in Listed :
          /\ catalog' = [catalog EXCEPT ![i] = NoMedia] /\ missed' = missed \ {i}
          /\ excused' = (IF Syncing THEN excused \union missed ELSE excused) \ {i}
    BY <1>2 DEF DeleteMedia
  <2>2. \A j \in missed' \ excused' : j \in missed \ excused /\ catalog'[j] = catalog[j]
    BY <1>0, <2>1, RowsTyped DEF BrowseTypeOK
  <2> QED
    BY <1>2, <2>2 DEF DeleteMedia, AsNew
<1>3. ASSUME Close PROVE AsNew'
  <2>1. CASE ~(walk.sync /\ ~walk.more)
    BY <1>1, <1>3, <2>1 DEF Close
  <2>2. CASE walk.sync /\ ~walk.more
    <3>1. /\ Syncing /\ walk.top \in Int /\ mark' = Newest({mark, walk.top})
          /\ excused' = excused \union {i \in missed : catalog[i].at = mark}
          /\ UNCHANGED <<catalog, missed>>
      BY <1>3, <2>2, ReadersAssumption DEF Close, Syncing, Shaped, Walking, NoWalk, Walks
    <3>2. mark' \in {mark, walk.top}
      BY <1>0, <3>1, NewestOfTwo
    <3>3. ASSUME NEW i \in missed' \ excused' PROVE catalog'[i].at >= mark'
      <4>1. i \in missed \ excused /\ catalog[i].at # mark /\ catalog[i].at \in Int
        BY <1>0, <3>1, RowsTyped
      <4>2. catalog[i].at > mark
        BY <1>0, <4>1 DEF AsNew
      <4>3. catalog[i].at >= walk.top
        BY <2>2, <3>1, <4>1, <4>2 DEF Sought
      <4> QED
        BY <1>0, <3>1, <3>2, <4>1, <4>2, <4>3
    <3> QED
      BY <3>3 DEF AsNew
  <2> QED
    BY <2>1, <2>2
<1>4. ASSUME NEW p \in Writer, Commit(p) PROVE AsNew'
  <2>1. UNCHANGED mark
    BY <1>4 DEF Commit
  <2>2. CASE UNCHANGED <<catalog, walk, missed, excused>>
    BY <1>1, <2>1, <2>2
  <2>3. CASE \E i \in Id, e \in Content, t \in Time : t <= clock /\ Lands(i, e, t)
    <3>1. PICK i \in Id, e \in Content, t \in Time : t <= clock /\ Lands(i, e, t)
      BY <2>3
    <3>2. t \in Int
      BY ReadersAssumption DEF Time
    <3>3. ASSUME NEW j \in missed' \ excused' PROVE catalog'[j].at >= mark
      <4>1. CASE j = i
        <5>1. t = clock
          BY <1>0, <3>1, <3>2, <4>1 DEF Lands
        <5>2. catalog'[i] = [entry |-> e, at |-> t]
          BY <3>1, Landed
        <5> QED
          BY <1>0, <4>1, <5>1, <5>2 DEF Past
      <4>2. CASE j # i
        <5>1. j \in missed \ excused
          BY <3>1, <4>2 DEF Lands
        <5>2. catalog'[j] = catalog[j]
          BY <1>0, <3>1, <4>2, <5>1, Landed
        <5> QED
          BY <5>1, <5>2 DEF AsNew
      <4> QED
        BY <4>1, <4>2
    <3> QED
      BY <2>1, <3>3 DEF AsNew
  <2> QED
    BY <1>4, <2>2, <2>3, Committed
<1>5. ASSUME NEW p, Fetch(p) PROVE AsNew'
  <2>1. missed' \ excused' \subseteq missed \ excused /\ UNCHANGED <<catalog, mark>>
    BY <1>5 DEF Fetch, Receive
  <2> QED
    BY <2>1 DEF AsNew
<1>6. ASSUME \/ Tick \/ UNCHANGED browseVars \/ \E p \in Writer : Sends(p) \/ FailWrite(p)
             \/ \E w : Open(w)
      PROVE  AsNew'
  BY <1>1, <1>6 DEF Tick, browseVars, Sends, Send, FailWrite, Open
<1> QED
  BY <1>2, <1>3, <1>4, <1>5, <1>6, Steps

(* What a synchronisation asks for, and in which order.                    *)
Newer(i, j) ==
  \/ catalog[i].at > catalog[j].at
  \/ catalog[i].at = catalog[j].at /\ catalog[i].entry.title < catalog[j].entry.title
AsksForNewer ==
  Syncing =>
    /\ Asked(walk) = {j \in Listed : catalog[j].at > mark}
    /\ \A i, j : Precedes(walk, i, j) <=> Newer(i, j)

LEMMA SyncMeans == BrowseTypeOK /\ Shaped => AsksForNewer
<1> SUFFICES ASSUME BrowseTypeOK, Shaped, Syncing
             PROVE  /\ Asked(walk) = {j \in Listed : catalog[j].at > mark}
                    /\ \A i, j : Precedes(walk, i, j) <=> Newer(i, j)
  BY DEF AsksForNewer
<1>1. PICK m : m = IF mark = 0 THEN Absent ELSE mark
  OBVIOUS
<1>2. PICK l \in {Absent, 1} : walk.q = [Plain EXCEPT !.limit = l, !.since = m]
  BY <1>1 DEF Shaped
<1>3. walk.feed = "latest"
  BY DEF Shaped
<1>4. /\ walk.q.sort = "" /\ walk.q.order = "" /\ walk.q.type = {} /\ walk.q.subType = {}
      /\ walk.q.since = m
  BY <1>2 DEF Plain
<1>5. mark \in Int /\ NoTime \notin Int /\ Absent \notin Int
  BY ReadersAssumption, ContentAssumption, AbsentAssumption DEF BrowseTypeOK, Time
<1>6. PICK f : f = Filter(walk)
  OBVIOUS
<1>7. /\ f.sort = "" /\ f.asc = FALSE /\ f.types = {} /\ f.subs = {}
      /\ f.since = IF mark = 0 THEN NoTime ELSE mark
  BY <1>1, <1>4, <1>5, <1>6 DEF Filter, ParseCatalogFilter, QueryAll, ParseUpdatedSince
<1>8. Asked(walk) = FilterClauses(f)
  BY <1>3, <1>6 DEF Asked
<1>9. \A j \in Listed : catalog[j].at \in Int /\ catalog[j].at >= 1
  BY RowsTyped
<1>10. Asked(walk) = {j \in Listed : catalog[j].at > mark}
  <2>1. \A j : j \in Asked(walk) <=> j \in Listed /\ (f.since = NoTime \/ catalog[j].at > f.since)
    BY <1>7, <1>8 DEF FilterClauses
  <2>2. \A j \in Listed : (f.since = NoTime \/ catalog[j].at > f.since) <=> catalog[j].at > mark
    <3>1. CASE mark = 0
      <4>1. f.since = NoTime
        BY <1>7, <3>1
      <4>2. \A j \in Listed : catalog[j].at > mark
        BY <1>9, <3>1
      <4> QED
        BY <4>1, <4>2
    <3>2. CASE mark # 0
      BY <1>5, <1>7, <3>2
    <3> QED
      BY <3>1, <3>2
  <2> QED
    BY <2>1, <2>2
<1>11. SortColumn(f, "updated") = "updated_at"
  BY <1>7 DEF SortColumn
<1>12. \A i, j : OrderBy(f, "updated", i, j) <=> Newer(i, j)
  BY <1>7, <1>11 DEF OrderBy, Column, Newer
<1>13. \A i, j : Precedes(walk, i, j) <=> OrderBy(f, "updated", i, j)
  BY <1>3, <1>6 DEF Precedes
<1> QED
  BY <1>10, <1>12, <1>13

AskedFinite == Cardinality(Asked(walk)) \in Nat /\ IsFiniteSet(Asked(walk))
LEMMA AskedTyped == BrowseTypeOK => AskedFinite
BY AskedRows DEF AskedFinite

LEMMA SoughtStep ==
  ASSUME BrowseTypeOK, Shaped, Past, Sought, BrowseTypeOK', Shaped', [BrowseNext]_browseVars
  PROVE  Sought'
<1>0. /\ missed \subseteq Listed /\ mark \in Int /\ clock \in Int
      /\ walk \in Walks => walk.page \in Nat \ {0} /\ walk.top \in Int /\ Read(walk) \in Int
  BY ReadersAssumption, SizeTyped DEF BrowseTypeOK, Time, Walks, Read
<1>1. ASSUME UNCHANGED <<catalog, walk, mark, missed, excused>> PROVE Sought'
  <2>1. SameRequest
    BY <1>1 DEF SameRequest
  <2>2. Size(walk)' = Size(walk) /\ \A i : Before(walk, i)' = Before(walk, i)
    BY <1>1, <2>1, SameQuestion
  <2> QED
    BY <1>1, <2>2 DEF Sought, Syncing, Walking, Read
<1>2. ASSUME DeleteMedia PROVE Sought'
  <2>1. Syncing' => Syncing
    BY <1>2, Disturbed DEF DeleteMedia, Syncing, SameRequest
  <2>2. Syncing => missed' \ excused' = {}
    BY <1>2 DEF DeleteMedia
  <2> QED
    BY <2>1, <2>2 DEF Sought
<1>3. ASSUME Close PROVE Sought'
  BY <1>3 DEF Close, Sought, Syncing, Walking, NoWalk
<1>4. ASSUME NEW p \in Writer, Commit(p) PROVE Sought'
  <2>1. UNCHANGED <<clock, mark>>
    BY <1>4 DEF Commit
  <2>2. CASE UNCHANGED <<catalog, walk, missed, excused>>
    BY <1>1, <2>1, <2>2
  <2>3. CASE \E i \in Id, e \in Content, t \in Time : t <= clock /\ Lands(i, e, t)
    <3> SUFFICES ASSUME Syncing', NEW j \in missed' \ excused', catalog'[j].at > mark
                 PROVE  \/ walk'.changed /\ catalog'[j].at >= walk'.top
                        \/ walk'.more /\ Read(walk)' <= Cardinality(Before(walk, j)')
      BY <2>1 DEF Sought
    <3>1. PICK i \in Id, e \in Content, t \in Time : t <= clock /\ Lands(i, e, t)
      BY <2>3
    <3>2. t \in Int
      BY ReadersAssumption DEF Time
    <3>3. /\ Walking /\ SameRequest /\ walk'.page = walk.page /\ walk'.more = walk.more
          /\ walk'.top = walk.top /\ walk'.changed
      BY <3>1, Disturbed DEF Lands, Syncing
    <3>4. Syncing /\ walk \in Walks
      BY <3>3 DEF SameRequest, Syncing, Shaped, Walking, NoWalk
    <3>5. Read(walk)' = Read(walk)
      BY <3>3, SameQuestion DEF Read
    <3>6. /\ Listed' = Listed \union {i} /\ catalog'[i] = [entry |-> e, at |-> t]
          /\ \A u \in Listed \ {i} : catalog'[u] = catalog[u]
      BY <3>1, Landed
    <3>7. CASE j = i
      <4>1. t = clock
        BY <1>0, <3>1, <3>2, <3>7 DEF Lands
      <4> QED
        BY <1>0, <3>3, <3>4, <3>6, <3>7, <4>1 DEF Past
    <3>8. CASE j # i
      <4>1. j \in missed \ excused /\ catalog'[j] = catalog[j] /\ j \in Listed /\ catalog[j].at \in Int
        BY <1>0, <3>1, <3>6, <3>8, RowsTyped DEF Lands
      <4>2. CASE catalog[j].at >= walk.top
        BY <3>3, <4>1, <4>2
      <4>3. CASE catalog[j].at < walk.top
        <5>1. walk.more /\ Read(walk) <= Cardinality(Before(walk, j))
          BY <1>0, <3>4, <4>1, <4>3 DEF Sought
        <5>2. catalog[j].at < clock
          BY <1>0, <3>3, <3>4, <4>1, <4>3 DEF Past
        <5>3. AsksForNewer /\ AsksForNewer'
          BY SyncMeans, PTL
        <5>4. ASSUME NEW u \in Before(walk, j) PROVE u \in Before(walk, j)'
          <6>1. u \in Listed /\ catalog[u].at > mark /\ Newer(u, j) /\ catalog[u].at \in Int
            BY <3>4, <5>3, RowsTyped DEF Before, AsksForNewer
          <6>2. CASE u # i
            <7>1. catalog'[u] = catalog[u] /\ u \in Listed'
              BY <3>6, <6>1, <6>2
            <7> QED
              BY <2>1, <4>1, <5>3, <6>1, <7>1 DEF Before, AsksForNewer, Newer
          <6>3. CASE u = i
            <7>1. t > catalog[j].at
              <8>1. CASE t = clock
                BY <5>2, <8>1
              <8>2. CASE t < clock
                <9>1. j \notin PassedOver(i, t)
                  BY <3>1, <8>2 DEF Lands
                <9>2. t > catalog[u].at
                  BY <3>2, <3>4, <4>1, <6>1, <6>3, <9>1 DEF PassedOver
                <9>3. catalog[u].at >= catalog[j].at
                  BY <4>1, <6>1 DEF Newer
                <9> QED
                  BY <3>2, <4>1, <6>1, <9>2, <9>3
              <8> QED
                BY <1>0, <3>1, <3>2, <8>1, <8>2
            <7>2. catalog'[u].at = t /\ u \in Listed' /\ t > mark
              BY <1>0, <3>2, <3>6, <4>1, <6>3, <7>1
            <7> QED
              BY <2>1, <4>1, <5>3, <7>1, <7>2 DEF Before, AsksForNewer, Newer
          <6> QED
            BY <6>2, <6>3
        <5>10. AskedFinite /\ AskedFinite'
          BY AskedTyped, PTL
        <5>5. IsFiniteSet(Asked(walk)') /\ IsFiniteSet(Asked(walk))
          BY <5>10 DEF AskedFinite
        <5>6. Before(walk, j) \subseteq Asked(walk) /\ Before(walk, j)' \subseteq Asked(walk)'
          BY DEF Before
        <5>7. IsFiniteSet(Before(walk, j)') /\ IsFiniteSet(Before(walk, j))
          BY <5>5, <5>6, FS_Subset
        <5>8. Before(walk, j) \subseteq Before(walk, j)'
          BY <5>4
        <5>9. /\ Cardinality(Before(walk, j)) \in Nat /\ Cardinality(Before(walk, j)') \in Nat
              /\ Cardinality(Before(walk, j)) <= Cardinality(Before(walk, j)')
          BY <5>7, <5>8, FS_Subset, FS_CardinalityType
        <5> QED
          BY <1>0, <3>3, <3>4, <3>5, <5>1, <5>9
      <4> QED
        BY <1>0, <3>4, <4>1, <4>2, <4>3
    <3> QED
      BY <3>7, <3>8
  <2> QED
    BY <1>4, <2>2, <2>3, Committed
<1>5. ASSUME NEW w, Open(w), Fresh(w) PROVE Sought'
  <2>1. walk' = w /\ walk'.page = 1 /\ walk'.more
    BY <1>5 DEF Open, Fresh
  <2>2. Read(walk)' = 0
    BY <2>1, SizeTyped DEF Read
  <2>3. ASSUME NEW i PROVE Cardinality(Before(walk, i)') \in Nat
    <3>0. AskedFinite'
      BY AskedTyped, PTL
    <3>1. IsFiniteSet(Asked(walk)')
      BY <3>0 DEF AskedFinite
    <3>2. Before(walk, i)' \subseteq Asked(walk)'
      BY DEF Before
    <3> QED
      BY <3>1, <3>2, FS_Subset, FS_CardinalityType
  <2> QED
    BY <2>1, <2>2, <2>3 DEF Sought
<1>6. ASSUME NEW p, Fetch(p) PROVE Sought'
  <2>1. UNCHANGED <<clock, catalog, mark>> /\ Walking /\ walk \in Walks /\ walk.more /\ Receive(p)
    BY <1>6 DEF Fetch, Receive
  <2>2. /\ SameRequest /\ walk'.page = walk.page + 1 /\ walk'.more = p.hasNext
        /\ walk.sync => walk'.top \in {walk.top} \union {catalog[i].at : i \in ToSet(p.items)}
    BY <1>6, Received
  <2> SUFFICES ASSUME Syncing', NEW j \in missed' \ excused', catalog'[j].at > mark
               PROVE  \/ walk'.changed /\ catalog'[j].at >= walk'.top
                      \/ walk'.more /\ Read(walk)' <= Cardinality(Before(walk, j)')
    BY <2>1 DEF Sought
  <2>3. Syncing /\ walk.sync
    BY <2>1, <2>2 DEF SameRequest, Syncing
  <2>4. Before(walk, j)' = Before(walk, j) /\ Size(walk)' = Size(walk)
    BY <2>1, <2>2, SameQuestion
  <2>5. j \in missed \ excused /\ j \notin ToSet(p.items) /\ j \notin Tied(walk)
    BY <2>1, <2>3 DEF Receive
  <2>6. j \in Asked(walk) /\ catalog[j].at > mark /\ catalog[j].at \in Int /\ j \in Listed
    BY <1>0, <2>1, <2>3, <2>5, SyncMeans, RowsTyped DEF AsksForNewer
  <2>7. PICK s \in SetToSeqs(Asked(walk)) : Ordered(walk, s) /\ Holds(p, s, Read(walk), Size(walk))
    BY <1>6 DEF Fetch, NextPage
  <2>8. /\ Len(s) \in Nat /\ DOMAIN s = 1..Len(s) /\ s \in [DOMAIN s -> Asked(walk)]
        /\ \E x \in DOMAIN s : s[x] = j
    BY <2>6, AskedRows, OrdersAreOnto
  <2>9. PICK x \in DOMAIN s : s[x] = j
    BY <2>8
  <2>10. Cardinality(Before(walk, j)) = x - 1
    BY <2>5, <2>7, <2>9, PlacesOfRows DEF Ordered
  <2>11. PICK done \in Nat, per \in Nat : done = Read(walk) /\ per = Size(walk)
    BY <1>0, <2>1, SizeTyped DEF Read
  <2>12. Read(walk)' = done + per
    BY <1>0, <2>1, <2>2, <2>4, <2>11 DEF Read
  <2>13. CASE x > done + per
    <3>1. x \in Int /\ x <= Len(s)
      BY <2>8
    <3>4. p.hasNext = (Len(s) > done + per)
      BY <2>7, <2>11 DEF Holds
    <3>5. Len(s) > done + per
      BY <2>8, <2>11, <2>13, <3>1
    <3>2. p.hasNext
      BY <3>4, <3>5
    <3>3. Read(walk)' <= Cardinality(Before(walk, j)')
      BY <2>4, <2>10, <2>11, <2>12, <2>13, <3>1
    <3> QED
      BY <2>2, <3>2, <3>3
  <2>14. CASE x > done /\ x <= done + per
    <3>1. /\ x - done \in DOMAIN p.items /\ p.items[x - done] = s[x]
      BY <2>7, <2>8, <2>11, <2>14 DEF Holds
    <3> QED
      BY <2>5, <2>9, <3>1 DEF ToSet
  <2>15. CASE x <= done
    <3>1. walk.changed /\ catalog[j].at >= walk.top
      BY <2>3, <2>5, <2>6, <2>8, <2>10, <2>11, <2>15 DEF Sought
    <3>2. ASSUME NEW i \in ToSet(p.items) PROVE catalog[j].at >= catalog[i].at
      <4>1. PICK y \in DOMAIN p.items : i = p.items[y]
        BY DEF ToSet
      <4>2. y \in Nat \ {0} /\ done + y \in DOMAIN s /\ i = s[done + y]
        BY <2>7, <2>11, <4>1 DEF Holds
      <4>3. ~Precedes(walk, i, j)
        BY <2>7, <2>8, <2>9, <2>11, <2>15, <4>2 DEF Ordered
      <4>4. i \in Listed /\ catalog[i].at \in Int
        BY <1>6, PageFacts, RowsTyped DEF Fetch
      <4> QED
        BY <2>3, <2>6, <4>3, <4>4, SyncMeans DEF AsksForNewer, Newer
    <3>3. walk'.changed /\ walk'.top \in {walk.top} \union {catalog[i].at : i \in ToSet(p.items)}
      BY <1>6, <2>3, <3>1, Received
    <3>4. catalog[j].at >= walk'.top
      BY <3>1, <3>2, <3>3
    <3> QED
      BY <2>1, <3>3, <3>4
  <2> QED
    BY <2>8, <2>9, <2>11, <2>13, <2>14, <2>15
<1>7. ASSUME Tick \/ UNCHANGED browseVars \/ \E p \in Writer : Sends(p) \/ FailWrite(p)
      PROVE  Sought'
  BY <1>1, <1>7 DEF Tick, browseVars, Sends, Send, FailWrite
<1> QED
  BY <1>2, <1>3, <1>4, <1>5, <1>6, <1>7, Steps

LEMMA ExactStep ==
  ASSUME BrowseTypeOK, Shaped, Past, Exact, BrowseTypeOK', Shaped', [BrowseNext]_browseVars
  PROVE  Exact'
<1>1. ASSUME UNCHANGED <<catalog, walk>> PROVE Exact'
  <2>1. SameRequest
    BY <1>1 DEF SameRequest
  <2>2. /\ Asked(walk)' = Asked(walk) /\ Size(walk)' = Size(walk)
        /\ \A i : Before(walk, i)' = Before(walk, i) /\ UpTo(walk, i)' = UpTo(walk, i)
    BY <1>1, <2>1, SameQuestion
  <2> QED
    BY <1>1, <2>2 DEF Exact, Walking, Read
<1>3. ASSUME DeleteMedia PROVE Exact'
  <2>1. Disturb
    BY <1>3 DEF DeleteMedia
  <2> QED
    BY <2>1, Disturbed DEF Exact
<1>4. ASSUME NEW p \in Writer, Commit(p) PROVE Exact'
  <2>1. CASE UNCHANGED <<catalog, walk, missed, excused>>
    BY <1>1, <2>1
  <2>2. CASE Disturb
    BY <2>2, Disturbed DEF Exact
  <2> QED
    BY <1>4, <2>1, <2>2, Committed DEF Lands
<1>5. ASSUME Close PROVE Exact'
  BY <1>5 DEF Close, Exact, Walking, NoWalk
<1>6. ASSUME NEW w, Open(w), Fresh(w) PROVE Exact'
  <2>1. walk' = w /\ walk'.page = 1 /\ walk'.more = TRUE /\ walk'.got = <<>>
    BY <1>6 DEF Open, Fresh, Walks
  <2>2. Read(walk)' = 0
    BY <2>1, SizeTyped DEF Read
  <2>3. AskedFinite'
    BY AskedTyped, PTL
  <2>4. PICK n \in Nat : n = Cardinality(Asked(walk)')
    BY <2>3 DEF AskedFinite
  <2>5. DOMAIN walk'.got = {} /\ Len(walk'.got) = 0
    BY <2>1
  <2> QED
    BY <2>1, <2>2, <2>4, <2>5 DEF Exact
<1>7. ASSUME NEW p, Fetch(p) PROVE Exact'
  <2>1. UNCHANGED catalog /\ Walking /\ walk \in Walks /\ walk.more
    BY <1>7 DEF Fetch, Receive
  <2>2. /\ SameRequest /\ walk'.changed = walk.changed /\ walk'.page = walk.page + 1
        /\ walk'.more = p.hasNext
        /\ ~walk.sync /\ ~walk.changed => walk'.got = walk.got \o p.items /\ walk'.total = p.total
    BY <1>7, Received
  <2> SUFFICES ASSUME ~walk.sync, ~walk.changed PROVE Exact'
    BY <2>2 DEF Exact, SameRequest
  <2>3. /\ Asked(walk)' = Asked(walk) /\ Size(walk)' = Size(walk)
        /\ \A i : Before(walk, i)' = Before(walk, i) /\ UpTo(walk, i)' = UpTo(walk, i)
    BY <2>1, <2>2, SameQuestion
  <2>4. PICK s \in SetToSeqs(Asked(walk)) : Ordered(walk, s) /\ Holds(p, s, Read(walk), Size(walk))
    BY <1>7 DEF Fetch, NextPage
  <2>5. PICK n \in Nat : n = Cardinality(Asked(walk))
    BY AskedRows
  <2>6. Len(s) = n /\ DOMAIN s = 1..n /\ \A x \in 1..n : s[x] \in Asked(walk)
    BY <2>5, AskedRows, OrdersAreOnto
  <2>7. PICK page \in Nat \ {0}, per \in Nat \ {0} : page = walk.page /\ per = Size(walk)
    BY <2>1, SizeTyped DEF Walks
  <2>8. PICK done \in Nat : done = (page - 1) * per
    OBVIOUS
  <2>9. Read(walk) = done /\ Read(walk)' = done + per
    BY <2>2, <2>3, <2>7, <2>8 DEF Read
  <2>10. page = 1 \/ done < n
    BY <2>1, <2>5, <2>7, <2>9 DEF Exact
  <2>11. page = 1 => done = 0
    BY <2>7, <2>8
  <2>12. done <= n
    BY <2>10, <2>11
  <2>13. walk.got \in Seq(Id) /\ Len(walk.got) = done
    BY <2>1, <2>5, <2>9, <2>12 DEF Exact, Walks
  <2>14. /\ p.items \in Seq(Id)
         /\ Len(p.items) = IF n <= done THEN 0 ELSE IF n <= done + per THEN n - done ELSE per
         /\ \A x \in DOMAIN p.items : done + x \in 1..n /\ p.items[x] = s[done + x]
         /\ p.hasNext = (n > done + per)
         /\ p.total = IF n <= done THEN 0 ELSE n
    BY <2>4, <2>6, <2>7, <2>9 DEF Holds
  <2>15. PICK got \in Seq(Id) : got = walk.got \o p.items /\ got = walk'.got
    <3>1. walk.got \o p.items \in Seq(Id)
      BY <2>13, <2>14
    <3> QED
      BY <2>2, <3>1
  <2>16. /\ Len(got) = done + Len(p.items) /\ DOMAIN got = 1..Len(got)
         /\ \A x \in 1..Len(got) : got[x] = IF x <= done THEN walk.got[x] ELSE p.items[x - done]
    <3>1. PICK a \in Seq(Id), b \in Seq(Id) : a = walk.got /\ b = p.items
      BY <2>13, <2>14
    <3>2. got = a \o b
      BY <2>15, <3>1
    <3>5. Len(a) = done
      BY <2>13, <3>1
    <3>6. Len(a \o b) = Len(a) + Len(b) /\ a \o b \in Seq(Id)
      OBVIOUS
    <3>3. Len(got) = done + Len(b) /\ DOMAIN got = 1..Len(got)
      BY <3>2, <3>5, <3>6
    <3>4. \A x \in 1..Len(got) : got[x] = IF x <= done THEN a[x] ELSE b[x - done]
      BY <3>2, <3>3, <3>5
    <3> QED
      BY <3>1, <3>3, <3>4
  <2>17. Len(got) = IF done + per < n THEN done + per ELSE n
    BY <2>12, <2>14, <2>16
  <2>18. ASSUME NEW x \in DOMAIN got
         PROVE  /\ got[x] \in Asked(walk) /\ Cardinality(Before(walk, got[x])) < x
                /\ x <= Cardinality(UpTo(walk, got[x]))
    <3>1. CASE x <= done
      <4>1. x \in DOMAIN walk.got /\ got[x] = walk.got[x]
        BY <2>13, <2>16, <3>1
      <4> QED
        BY <2>1, <4>1 DEF Exact
    <3>2. CASE x > done
      <4>1. x - done \in DOMAIN p.items /\ got[x] = p.items[x - done]
        BY <2>14, <2>16, <3>2
      <4>2. done + (x - done) = x
        BY <2>16
      <4>3. x \in 1..n /\ got[x] = s[x]
        BY <2>14, <4>1, <4>2
      <4>4. x \in DOMAIN s
        BY <2>6, <4>3
      <4>5. \A y, z \in DOMAIN s : y < z => ~Precedes(walk, s[z], s[y])
        BY <2>4 DEF Ordered
      <4> QED
        BY <2>6, <4>3, <4>4, <4>5, PlacesOfRows
    <3> QED
      BY <2>16, <3>1, <3>2
  <2>19. walk'.more <=> walk'.page = 1 \/ Read(walk)' < n
    <3>1. walk'.page # 1
      BY <2>2, <2>7
    <3> QED
      BY <2>2, <2>9, <2>14, <3>1
  <2>20. walk'.total = n
    <3>1. walk'.total = p.total
      BY <2>2
    <3>2. n <= done => n = 0
      BY <2>10, <2>11
    <3> QED
      BY <2>14, <3>1, <3>2
  <2>21. Cardinality(Asked(walk)') = n
    BY <2>3, <2>5
  <2> QED
    BY <2>3, <2>9, <2>15, <2>17, <2>18, <2>19, <2>20, <2>21 DEF Exact
<1>8. ASSUME Tick \/ UNCHANGED browseVars \/ \E p \in Writer : Sends(p) \/ FailWrite(p)
      PROVE  Exact'
  BY <1>1, <1>8 DEF Tick, browseVars, Sends, Send, FailWrite
<1> QED
  BY <1>3, <1>4, <1>5, <1>6, <1>7, <1>8, Steps

(* Rows of an order that stand where they may are in that order; without   *)
(* ties each stands once.                                                  *)
LEMMA ExactShows ==
  ASSUME BrowseTypeOK, Shaped, Exact
  PROVE  WalkIsExact
<1> SUFFICES ASSUME Walking, ~walk.sync, ~walk.more, ~walk.changed
             PROVE  /\ Len(walk.got) = Cardinality(Asked(walk)) /\ walk.total = Len(walk.got)
                    /\ \A x, y \in DOMAIN walk.got : x < y => ~Precedes(walk, walk.got[y], walk.got[x])
                    /\ Tied(walk) = {} => ToSet(walk.got) = Asked(walk)
  BY DEF WalkIsExact
<1>1. walk \in Walks
  BY DEF Shaped, Walking, NoWalk
<1>2. PICK n \in Nat : n = Cardinality(Asked(walk))
  BY AskedRows
<1>3. PICK got \in Seq(Id) : got = walk.got
  BY <1>1 DEF Walks
<1>4. walk.page \in Nat \ {0} /\ Read(walk) \in Int
  BY <1>1, SizeTyped DEF Walks, Read
<1>5. Len(got) = n /\ walk.total = n /\ DOMAIN got = 1..n
  BY <1>2, <1>3, <1>4 DEF Exact
<1>6. \A x \in 1..n : /\ got[x] \in Asked(walk)
                      /\ Cardinality(Before(walk, got[x])) < x
                      /\ x <= Cardinality(UpTo(walk, got[x]))
  BY <1>3, <1>5 DEF Exact
<1>7. Asked(walk) \subseteq Listed /\ IsFiniteSet(Asked(walk))
  BY AskedRows
<1>8. ASSUME NEW i
      PROVE  /\ IsFiniteSet(Before(walk, i)) /\ IsFiniteSet(UpTo(walk, i))
             /\ Cardinality(Before(walk, i)) \in Nat /\ Cardinality(UpTo(walk, i)) \in Nat
  <2>1. Before(walk, i) \subseteq Asked(walk) /\ UpTo(walk, i) \subseteq Asked(walk)
    BY DEF Before, UpTo
  <2> QED
    BY <1>7, <2>1, FS_Subset, FS_CardinalityType
<1>9. ASSUME NEW x \in 1..n, NEW y \in 1..n, x < y PROVE ~Precedes(walk, got[y], got[x])
  <2>1. SUFFICES ASSUME Precedes(walk, got[y], got[x]) PROVE FALSE
    OBVIOUS
  <2>2. UpTo(walk, got[y]) \subseteq Before(walk, got[x])
    <3>1. ASSUME NEW u \in Asked(walk), ~Precedes(walk, got[y], u) PROVE Precedes(walk, u, got[x])
      BY <1>6, <1>7, <2>1, <3>1, Ordering DEF Precedes
    <3> QED
      BY <3>1 DEF UpTo, Before
  <2>3. Cardinality(UpTo(walk, got[y])) <= Cardinality(Before(walk, got[x]))
    BY <1>8, <2>2, FS_Subset
  <2> QED
    BY <1>6, <1>8, <1>9, <2>3
<1>10. ASSUME Tied(walk) = {} PROVE ToSet(got) = Asked(walk)
  <2>1. ASSUME NEW i \in Asked(walk)
        PROVE  Cardinality(UpTo(walk, i)) <= Cardinality(Before(walk, i)) + 1
    <3>1. UpTo(walk, i) \subseteq Before(walk, i) \union {i}
      BY <1>10 DEF UpTo, Before, Tied
    <3>2. IsFiniteSet({i}) /\ Cardinality({i}) = 1
      BY FS_Singleton
    <3>3. /\ IsFiniteSet(Before(walk, i) \union {i})
          /\ Cardinality(Before(walk, i) \union {i}) =
               Cardinality(Before(walk, i)) + Cardinality({i}) - Cardinality(Before(walk, i) \intersect {i})
      BY <1>8, <3>2, FS_Union
    <3>4. Cardinality(Before(walk, i) \intersect {i}) \in Nat
      BY <1>8, FS_Intersection, FS_CardinalityType
    <3>5. Cardinality(UpTo(walk, i)) <= Cardinality(Before(walk, i) \union {i})
      BY <3>1, <3>3, FS_Subset
    <3>6. Cardinality(Before(walk, i) \union {i}) <= Cardinality(Before(walk, i)) + 1
      BY <1>8, <3>2, <3>3, <3>4
    <3>7. Cardinality(Before(walk, i) \union {i}) \in Nat
      BY <3>3, FS_CardinalityType
    <3> QED
      BY <1>8, <3>5, <3>6, <3>7
  <2>2. \A x, y \in 1..n : got[x] = got[y] => x = y
    <3>1. \A x \in 1..n : x = Cardinality(Before(walk, got[x])) + 1
      BY <1>6, <1>8, <2>1
    <3> QED
      BY <3>1
  <2>3. got \in [1..n -> Asked(walk)]
    BY <1>3, <1>5, <1>6
  <2>4. got \in Injection(1..n, Asked(walk))
    BY <2>2, <2>3 DEF Injection, IsInjective
  <2>5. IsFiniteSet(1..n) /\ Cardinality(1..n) = n
    BY FS_Interval
  <2>6. got \in Surjection(1..n, Asked(walk))
    BY <1>2, <1>7, <2>4, <2>5, FS_Injection
  <2> QED
    BY <1>5, <2>3, <2>6 DEF Surjection, ToSet
<1> QED
  BY <1>2, <1>3, <1>5, <1>9, <1>10

LEMMA BrowseBegins == BrowseInit => BInv
<1> SUFFICES ASSUME BrowseInit PROVE BInv
  OBVIOUS
<1>1. 2 \in Time /\ clock = 2 /\ mark = 0 /\ missed = Listed /\ excused = {}
  BY ReadersAssumption DEF BrowseInit, Time
<1>2. catalog \in [Id -> MediaRow \union {NoMedia}]
  BY GivenAssumption DEF BrowseInit
<1>3. \A i \in Listed : catalog[i] \in Given /\ catalog[i].at <= 2 /\ catalog[i].at \in Int /\ catalog[i].at >= 1
  <2>1. \A i \in Listed : catalog[i] \in Given
    BY DEF BrowseInit, Listed
  <2> QED
    BY <2>1, GivenAssumption, ReadersAssumption DEF MediaRow, Time
<1>4. BrowseTypeOK
  BY <1>1, <1>2, ReadersAssumption DEF BrowseInit, BrowseTypeOK
<1>5. ~Walking /\ walk = NoWalk
  BY DEF BrowseInit, Walking, NoWalk
<1>6. Shaped
  BY <1>5 DEF Shaped, Syncing, NoWalk
<1>7. Past
  BY <1>1, <1>3, <1>5 DEF BrowseInit, Past
<1>8. AsNew
  BY <1>1, <1>3 DEF AsNew
<1>9. Sought /\ Exact
  BY <1>5 DEF Sought, Exact, Syncing
<1> QED
  BY <1>4, <1>6, <1>7, <1>8, <1>9 DEF BInv

LEMMA BrowseGoesOn == BInv /\ [BrowseNext]_browseVars => BInv'
<1> SUFFICES ASSUME BInv, [BrowseNext]_browseVars PROVE BInv'
  OBVIOUS
<1>1. BrowseTypeOK /\ Shaped /\ Past /\ AsNew /\ Sought /\ Exact
  BY DEF BInv
<1>2. BrowseTypeOK'
  BY <1>1, ReadersTypeStep
<1>3. Shaped'
  BY <1>1, ShapedStep
<1>4. Past'
  BY <1>1, PastStep
<1>5. AsNew'
  BY <1>1, OlderStep
<1>6. Sought'
  BY <1>1, <1>2, <1>3, SoughtStep
<1>7. Exact'
  BY <1>1, <1>2, <1>3, ExactStep
<1> QED
  BY <1>2, <1>3, <1>4, <1>5, <1>6, <1>7 DEF BInv

LEMMA BrowseInvariance == BrowseSpec => []BInv
BY BrowseBegins, BrowseGoesOn, PTL DEF BrowseSpec

(* Whatever readers and writers do, the instants of the rows, of the       *)
(* statements and of the mark stay within the clock's, and the app lacks   *)
(* only entries there are (media_repo.go, media_service.go).               *)
THEOREM ReadersTypeCorrect == BrowseSpec => []BrowseTypeOK
<1>1. BInv => BrowseTypeOK
  BY DEF BInv
<1> QED
  BY <1>1, BrowseInvariance, PTL

(* Feeds of any length, in any sort order, with any filter, page size and  *)
(* number of writers: a walk over rows nobody writes is handed as many as  *)
(* match, in the order it asked for, and each of them once unless two tie  *)
(* (media_repo.go List, Search, Recommend, orderByClause, toMediaPage).    *)
THEOREM FeedsAreExact == BrowseSpec => []WalkIsExact
<1>1. BInv => WalkIsExact
  BY ExactShows DEF BInv
<1> QED
  BY <1>1, BrowseInvariance, PTL

(* However synchronisations, pages and late statements interleave, an      *)
(* entry whose present form the app's copy lacks is as new as its mark,    *)
(* but for the excused ones (domain/manga.go CatalogFilter).               *)
THEOREM NothingOlderIsLost == BrowseSpec => []NothingOlderIsMissed
<1>1. BInv => NothingOlderIsMissed
  <2> SUFFICES ASSUME BInv, NEW i \in missed \ excused
               PROVE  /\ catalog[i].at >= mark
                      /\ Syncing /\ ~walk.more /\ ~walk.changed => catalog[i].at = mark
    BY DEF NothingOlderIsMissed
  <2>1. catalog[i].at >= mark /\ catalog[i].at \in Int /\ mark \in Int
    BY RowsTyped, ReadersAssumption DEF BInv, AsNew, BrowseTypeOK, Time
  <2>2. Syncing /\ catalog[i].at > mark => walk.changed \/ walk.more
    BY DEF BInv, Sought
  <2> QED
    BY <2>1, <2>2
<1> QED
  BY <1>1, BrowseInvariance, PTL

(* The delta sync of an app, with any page size and any number of pages:   *)
(* when it has its last page and nobody wrote meanwhile, the copy lacks    *)
(* nothing but the excused entries (media_repo.go filterClauses, List).    *)
THEOREM QuietSyncIsComplete ==
  BrowseSpec =>
    [][Close /\ Syncing /\ ~walk.more /\ ~walk.changed => missed' \subseteq excused']_browseVars
<1>1. NothingOlderIsMissed /\ Close /\ Syncing /\ ~walk.more /\ ~walk.changed
        => missed' \subseteq excused'
  BY DEF NothingOlderIsMissed, Close, Syncing
<1> QED
  BY <1>1, NothingOlderIsLost, PTL

----------------------------------------------------------------------------
(* Answers made from single values.                                        *)

(* The part of an object that is served lies inside it (the slice          *)
(* data[start:end+1] of Stream cannot go out of range).                    *)
THEOREM RangeIsInside ==
  ASSUME NEW h, NEW size \in Nat, ParseByteRange(h, size).ok
  PROVE  LET r == ParseByteRange(h, size) IN
         r.start \in Int /\ r.end \in Int /\ 0 <= r.start /\ r.start <= r.end /\ r.end < size
<1> DEFINE r == ParseByteRange(h, size)
<1>1. CASE size = 0 \/ ~h.bytes \/ h.multi \/ ~h.dash
  BY <1>1 DEF ParseByteRange, Whole
<1>2. CASE ~(size = 0 \/ ~h.bytes \/ h.multi \/ ~h.dash) /\ h.start = Absent
  <2>1. CASE h.end \notin Int \/ h.end <= 0
    BY <1>2, <2>1 DEF ParseByteRange, Whole
  <2>2. CASE ~(h.end \notin Int \/ h.end <= 0)
    <3>1. r = Part(IF h.end > size THEN 0 ELSE size - h.end, size - 1)
      BY <1>2, <2>2 DEF ParseByteRange
    <3> QED BY <1>2, <2>2, <3>1 DEF Part
  <2> QED BY <2>1, <2>2
<1>3. CASE ~(size = 0 \/ ~h.bytes \/ h.multi \/ ~h.dash) /\ h.start # Absent
  <2>1. CASE h.start \notin Int \/ h.start < 0 \/ h.start >= size
    BY <1>3, <2>1 DEF ParseByteRange, Whole
  <2>2. CASE ~(h.start \notin Int \/ h.start < 0 \/ h.start >= size)
    <3>1. CASE h.end = Absent
      <4>1. r = Part(h.start, size - 1)
        BY <1>3, <2>2, <3>1 DEF ParseByteRange
      <4> QED BY <1>3, <2>2, <4>1 DEF Part
    <3>2. CASE h.end # Absent /\ (h.end \notin Int \/ h.end < h.start)
      BY <1>3, <2>2, <3>2 DEF ParseByteRange, Whole
    <3>3. CASE h.end # Absent /\ ~(h.end \notin Int \/ h.end < h.start)
      <4>1. r = Part(h.start, IF h.end < size - 1 THEN h.end ELSE size - 1)
        BY <1>3, <2>2, <3>3 DEF ParseByteRange
      <4> QED BY <1>3, <2>2, <3>3, <4>1 DEF Part
    <3> QED BY <3>1, <3>2, <3>3
  <2> QED BY <2>1, <2>2
<1> QED BY <1>1, <1>2, <1>3

(* It is what the header asks for: no byte too many and none too few.      *)
THEOREM RangeIsAsAsked ==
  ASSUME NEW h, NEW size \in Nat, ParseByteRange(h, size).ok
  PROVE  LET r == ParseByteRange(h, size) IN r.start..r.end = AskedBytes(h, size)
<1> DEFINE r == ParseByteRange(h, size)
<1> SUFFICES r.start..r.end = AskedBytes(h, size)
  OBVIOUS
<1> USE AbsentAssumption
<1>0. ~(size = 0 \/ ~h.bytes \/ h.multi \/ ~h.dash)
  BY DEF ParseByteRange, Whole
<1>2. CASE h.start = Absent
  <2>1. ~(h.end \notin Int \/ h.end <= 0)
    BY <1>0, <1>2 DEF ParseByteRange, Whole
  <2>2. r = Part(IF h.end > size THEN 0 ELSE size - h.end, size - 1)
    BY <1>0, <1>2, <2>1 DEF ParseByteRange
  <2>3. r.start = (IF h.end > size THEN 0 ELSE size - h.end) /\ r.end = size - 1
    BY <2>2 DEF Part
  <2>4. AskedBytes(h, size) = {x \in 0..(size - 1) : x >= size - h.end}
    BY <1>2 DEF AskedBytes
  <2> HIDE DEF r
  <2> QED BY <2>1, <2>3, <2>4
<1>3. CASE h.start # Absent
  <2>1. ~(h.start \notin Int \/ h.start < 0 \/ h.start >= size)
    BY <1>0, <1>3 DEF ParseByteRange, Whole
  <2>2. CASE h.end = Absent
    <3>1. r = Part(h.start, size - 1)
      BY <1>0, <1>3, <2>1, <2>2 DEF ParseByteRange
    <3>2. r.start = h.start /\ r.end = size - 1
      BY <3>1 DEF Part
    <3>3. AskedBytes(h, size) = {x \in 0..(size - 1) : x >= h.start}
      BY <1>3, <2>2 DEF AskedBytes
    <3> HIDE DEF r
    <3> QED BY <2>1, <3>2, <3>3
  <2>3. CASE h.end # Absent
    <3>0. ~(h.end \notin Int \/ h.end < h.start)
      BY <1>0, <1>3, <2>1, <2>3 DEF ParseByteRange, Whole
    <3>1. r = Part(h.start, IF h.end < size - 1 THEN h.end ELSE size - 1)
      BY <1>0, <1>3, <2>1, <2>3, <3>0 DEF ParseByteRange
    <3>2. r.start = h.start /\ r.end = IF h.end < size - 1 THEN h.end ELSE size - 1
      BY <3>1 DEF Part
    <3>3. AskedBytes(h, size) = {x \in 0..(size - 1) : x >= h.start /\ x <= h.end}
      BY <1>3, <2>3 DEF AskedBytes
    <3> HIDE DEF r
    <3> QED BY <2>1, <3>0, <3>2, <3>3
  <2> QED BY <2>2, <2>3
<1> QED BY <1>2, <1>3

(* Of chapters whose ids differ, the one at a place has the places next to *)
(* it as neighbours.                                                       *)
LEMMA NeighborsAt ==
  ASSUME NEW siblings \in Seq(Chapter),
         \A i, j \in DOMAIN siblings : siblings[i].id = siblings[j].id => i = j,
         NEW at \in DOMAIN siblings
  PROVE  LET n == ChapterNeighbors(siblings, siblings[at].id) IN
         /\ n.previous = (IF at > 1 THEN at - 1 ELSE NoChapter)
         /\ n.next = (IF at < Len(siblings) THEN at + 1 ELSE NoChapter)
<1> DEFINE here == CHOOSE i \in DOMAIN siblings : siblings[i].id = siblings[at].id
           n == ChapterNeighbors(siblings, siblings[at].id)
<1>1. here \in DOMAIN siblings /\ siblings[here].id = siblings[at].id
  OBVIOUS
<1>2. here = at
  BY <1>1
<1>3. \E i \in DOMAIN siblings : siblings[i].id = siblings[at].id
  OBVIOUS
<1> HIDE DEF here
<1>4. n.previous = (IF here > 1 THEN here - 1 ELSE NoChapter)
  BY <1>3 DEF ChapterNeighbors, here
<1>5. n.next = (IF here < Len(siblings) THEN here + 1 ELSE NoChapter)
  BY <1>3 DEF ChapterNeighbors, here
<1> QED BY <1>2, <1>4, <1>5

(* Of chapters listed by number (service ChapterNeighbors), no other lies  *)
(* between a chapter and the one answered as its next or its previous;     *)
(* only the first has none before it and only the last none after it, and  *)
(* a chapter is the previous of its next.  (Several chapters of one number *)
(* are neighbours of each other.)                                          *)
THEOREM NeighborsAreClosest ==
  ASSUME NEW siblings \in Seq(Chapter),
         \A i, j \in DOMAIN siblings : siblings[i].id = siblings[j].id => i = j,
         \A i, j \in DOMAIN siblings : i < j => siblings[i].number <= siblings[j].number,
         NEW at \in DOMAIN siblings
  PROVE  LET previous == ChapterNeighbors(siblings, siblings[at].id).previous
             next == ChapterNeighbors(siblings, siblings[at].id).next IN
         /\ IF at = 1 THEN previous = NoChapter
            ELSE /\ previous \in DOMAIN siblings \ {at}
                 /\ siblings[previous].number <= siblings[at].number
                 /\ \A k \in DOMAIN siblings \ {previous, at} :
                      \/ siblings[k].number <= siblings[previous].number
                      \/ siblings[at].number <= siblings[k].number
         /\ IF at = Len(siblings) THEN next = NoChapter
            ELSE /\ next \in DOMAIN siblings \ {at}
                 /\ siblings[at].number <= siblings[next].number
                 /\ \A k \in DOMAIN siblings \ {at, next} :
                      \/ siblings[k].number <= siblings[at].number
                      \/ siblings[next].number <= siblings[k].number
                 /\ ChapterNeighbors(siblings, siblings[next].id).previous = at
<1> DEFINE previous == ChapterNeighbors(siblings, siblings[at].id).previous
           next == ChapterNeighbors(siblings, siblings[at].id).next
<1>1. /\ previous = (IF at > 1 THEN at - 1 ELSE NoChapter)
      /\ next = (IF at < Len(siblings) THEN at + 1 ELSE NoChapter)
  BY NeighborsAt
<1>2. DOMAIN siblings = 1..Len(siblings) /\ Len(siblings) \in Nat
  OBVIOUS
<1>3. \A k \in DOMAIN siblings : siblings[k].number \in Int
  <2> TAKE k \in DOMAIN siblings
  <2>1. siblings[k] \in Chapter
    BY <1>2
  <2> QED BY <2>1 DEF Chapter
<1>4. ASSUME NEW i \in DOMAIN siblings, i + 1 \in DOMAIN siblings,
             NEW k \in DOMAIN siblings \ {i, i + 1}
      PROVE  siblings[k].number <= siblings[i].number \/ siblings[i + 1].number <= siblings[k].number
  <2>1. k < i \/ i + 1 < k
    BY <1>2, <1>4
  <2> QED BY <1>4, <2>1
<1> HIDE DEF previous, next
<1>5. ASSUME at # Len(siblings)
      PROVE  /\ next \in DOMAIN siblings \ {at}
             /\ siblings[at].number <= siblings[next].number
             /\ \A k \in DOMAIN siblings \ {at, next} :
                  \/ siblings[k].number <= siblings[at].number
                  \/ siblings[next].number <= siblings[k].number
             /\ ChapterNeighbors(siblings, siblings[next].id).previous = at
  <2>1. next = at + 1 /\ next \in DOMAIN siblings
    BY <1>1, <1>2, <1>5
  <2>2. ChapterNeighbors(siblings, siblings[next].id).previous
          = (IF next > 1 THEN next - 1 ELSE NoChapter)
    BY <2>1, NeighborsAt
  <2>3. ChapterNeighbors(siblings, siblings[next].id).previous = at
    BY <1>2, <2>1, <2>2
  <2> QED BY <1>2, <1>4, <2>1, <2>3
<1>6. at = 1 => previous = NoChapter
  BY <1>1
<1>7. at = Len(siblings) => next = NoChapter
  <2> SUFFICES ASSUME at = Len(siblings) PROVE next = NoChapter
    OBVIOUS
  <2>1. ~(at < Len(siblings))
    BY <1>2
  <2> QED BY <1>1, <2>1, Zenon
<1>8. at # 1 => /\ previous \in DOMAIN siblings \ {at}
                /\ siblings[previous].number <= siblings[at].number
                /\ \A k \in DOMAIN siblings \ {previous, at} :
                     \/ siblings[k].number <= siblings[previous].number
                     \/ siblings[at].number <= siblings[k].number
  <2> SUFFICES ASSUME at # 1
               PROVE  /\ previous \in DOMAIN siblings \ {at}
                      /\ siblings[previous].number <= siblings[at].number
                      /\ \A k \in DOMAIN siblings \ {previous, at} :
                           \/ siblings[k].number <= siblings[previous].number
                           \/ siblings[at].number <= siblings[k].number
    OBVIOUS
  <2>1. previous = at - 1 /\ previous \in DOMAIN siblings /\ previous + 1 = at
    BY <1>1, <1>2
  <2> QED BY <1>2, <1>4, <2>1
<1> QED BY <1>5, <1>6, <1>7, <1>8 DEF previous, next

(* Cleanup takes nothing that was not named but what shares the directory  *)
(* hls/{id} of a key that was named: never pages, ads or covers, and never *)
(* the whole of hls/ (media_service.go splitHLSPrefixes: "never a          *)
(* bucket-wide hls/ wipe").                                                *)
THEOREM SweepStaysInside ==
  ASSUME NEW keys \in SUBSET Seq(STRING), NEW objects \in SUBSET Seq(STRING),
         NEW k \in Swept(keys, objects) \ keys
  PROVE  /\ k \in objects /\ Len(k) > 2 /\ k[1] = "hls"
         /\ \E j \in keys : InBundle(j) /\ k[2] = j[2]
<1>1. PICK j \in keys : InBundle(j) /\ k \in ListKeys(Dir(j), objects)
  BY DEF Swept, SplitHLSPrefixes
<1>2. j \in Seq(STRING) /\ k \in Seq(STRING) /\ Len(j) \in Nat /\ Len(k) \in Nat
  BY <1>1 DEF ListKeys
<1>3. Len(j) > 2 /\ j[1] = "hls"
  BY <1>1 DEF InBundle
<1> DEFINE n == Len(j) - 1
<1>4. n \in Nat /\ n >= 2 /\ n <= Len(j)
  BY <1>2, <1>3
<1>5. Len(Dir(j)) = n /\ \A i \in 1..n : Dir(j)[i] = j[i]
  BY <1>2, <1>4 DEF Dir
<1>6. Len(k) > n /\ SubSeq(k, 1, n) = Dir(j) /\ k \in objects
  BY <1>1, <1>5 DEF ListKeys
<1>7. \A i \in 1..n : SubSeq(k, 1, n)[i] = k[i]
  BY <1>2, <1>4, <1>6
<1>8. 1 \in 1..n /\ 2 \in 1..n
  BY <1>4
<1>9. k[1] = j[1] /\ k[2] = j[2]
  BY <1>5, <1>6, <1>7, <1>8
<1> QED
  BY <1>1, <1>2, <1>3, <1>4, <1>6, <1>9

(* A value is kept in KV as long as was asked for, short of what is left of*)
(* a second; only one asked for less than a minute is kept for ever        *)
(* (kv/client.go Put, which its comment says of a lifetime of zero alone). *)
THEOREM KeptAsAsked ==
  ASSUME NEW ttl \in Int
  PROVE  IF ttl < 60 * Second
         THEN PutLifetime(ttl) = Forever
         ELSE PutLifetime(ttl) \in 0..ttl /\ ttl - PutLifetime(ttl) < Second
<1>1. CASE ttl < 60 * Second
  BY <1>1 DEF PutLifetime, Forever, Second
<1>2. CASE ~(ttl < 60 * Second)
  BY <1>2 DEF PutLifetime, Forever, Second
<1> QED BY <1>1, <1>2
=============================================================================
