------------------------------- MODULE Access -------------------------------
(***************************************************************************)
(* Who may call what: the signing key every instance loads or creates when *)
(* it boots, the clients it seeds and those that register themselves       *)
(* (oidc/storage.go, seed.go, dcr.go), the access tokens it signs, and the *)
(* scope the router asks of a token on each group of routes (router.go,    *)
(* middleware.go).                                                         *)
(*                                                                         *)
(* One action is one D1 or KV call.  A JWT is what it says: the key that   *)
(* signed it and the scopes it carries.  Logins and consent are in         *)
(* AuthFlow, refresh tokens in RefreshRotation.                            *)
(***************************************************************************)
EXTENDS Naturals

CONSTANTS
  Instance, Kid, Client, Proc,
  Seeded,              \* the clients every boot makes sure of
  Asks,                \* the sets of scopes a token request may name
  RequiredScope,       \* the configured scope of the catalog's writes
  NoKid, None, NoRow, NoScope,
  MaxBoots,            \* bound: boots of an instance
  MaxRequests,         \* bound: registrations, updates, deletions, grants
  MaxFaults            \* bound: failed calls and crashes

(* util.go and taxonomy_handler.go list the kinds each for itself.         *)
TaxonomyWriteKinds == {"genres", "authors", "artists"}
HandlerKinds == {"genres", "authors", "artists"}
Kind == HandlerKinds \union {"other"}
ScopeTaxonomyWrite(k) == <<k, "write">>

Scope == {<<"manga", "read">>, <<"manga", "write">>, <<"connections", "write">>,
          <<"users", "read">>, <<"users", "write">>, <<"admin", "read">>, <<"admin", "write">>}
           \union {ScopeTaxonomyWrite(k) : k \in TaxonomyWriteKinds}
Standard == {<<"openid", "">>, <<"offline_access", "">>}
(* A client may also name a scope that nothing here grants.                *)
AnyScope == Scope \union Standard \union {ScopeTaxonomyWrite("categories")}

(* A row of oidc_client: whether it must prove itself by a secret, whether *)
(* one was hashed for it, and whether it may ask for a token of its own.   *)
Row == [auth : {"none", "basic"}, hash : BOOLEAN, creds : BOOLEAN]
SeedRow == [auth |-> "none", hash |-> FALSE, creds |-> FALSE]

ASSUME NullAssumption ==
  /\ NoKid \notin Kid /\ None \notin Client \union Instance
  /\ NoRow \notin Row /\ NoScope \notin AnyScope
ASSUME ParameterAssumption ==
  /\ Seeded \subseteq Client /\ Asks \subseteq SUBSET AnyScope
  /\ RequiredScope \in {s \in Scope : s[2] = "write"}
  /\ MaxBoots \in Nat /\ MaxRequests \in Nat /\ MaxFaults \in Nat

VARIABLES
  newest,      \* the active keys of the latest second in oidc_signing_key
  drawn,       \* keys generated so far
  stage,       \* where an instance's boot is
  key,         \* the key it signs and verifies with
  toSeed,      \* clients its boot has still to look up
  adding,      \* the one it found missing
  clients,     \* rows of oidc_client
  tokens,      \* signed and unexpired: the key and the scopes
  req,         \* requests under way
  overlapped,  \* history: a boot looked for a key while another was storing one
  known,       \* history: clients ever stored
  boots, begun, faults

bootVars == <<newest, drawn, stage, key, toSeed, adding, overlapped, boots>>
vars == <<bootVars, clients, tokens, req, known, begun, faults>>

Stage == {"down", "key", "save", "seed", "up"}
Token == [kid : Kid, scopes : SUBSET AnyScope]
Idle == [pc |-> "idle", at |-> None, client |-> None, row |-> NoRow, scopes |-> {}]
Request == [pc : {"idle", "update", "delete", "token", "creds", "mint"},
            at : Instance \union {None}, client : Client \union {None},
            row : Row \union {NoRow}, scopes : SUBSET AnyScope]

Init ==
  /\ newest = {} /\ drawn = {} /\ boots = 0
  /\ stage = [i \in Instance |-> "down"] /\ key = [i \in Instance |-> NoKid]
  /\ toSeed = [i \in Instance |-> {}] /\ adding = [i \in Instance |-> {}]
  /\ clients = [c \in Client |-> NoRow] /\ tokens = {}
  /\ req = [p \in Proc |-> Idle]
  /\ overlapped = FALSE /\ known = {} /\ begun = 0 /\ faults = 0

Fault == faults < MaxFaults /\ faults' = faults + 1
Sound == UNCHANGED faults
Enter(i, s) == stage' = [stage EXCEPT ![i] = s]
Store(c, row) == clients' = [clients EXCEPT ![c] = row] /\ known' = known \union {c}

----------------------------------------------------------------------------
(* NewStorage: the latest active key, or a new one when there is none or   *)
(* the lookup fails.                                                       *)
Boot(i) ==
  /\ stage[i] = "down" /\ boots < MaxBoots /\ boots' = boots + 1
  /\ Enter(i, "key")
  /\ UNCHANGED <<newest, drawn, key, toSeed, adding, overlapped>>
  /\ UNCHANGED <<clients, tokens, req, known, begun, faults>>

Storing(j) == stage[j] = "save"
Keyed(i, k, s) == key' = [key EXCEPT ![i] = k] /\ Enter(i, s)
ToSeed(i) == toSeed' = [toSeed EXCEPT ![i] = Seeded]

GenerateAlways(i) ==  \* mutant: every boot makes a key of its own
  /\ stage[i] = "key" /\ Sound
  /\ \E k \in Kid \ drawn : Keyed(i, k, "save") /\ drawn' = drawn \union {k}
  /\ overlapped' = (overlapped \/ \E j \in Instance : Storing(j))
  /\ UNCHANGED <<newest, toSeed, adding, boots, clients, tokens, req, known, begun>>

LoadKey(i) ==
  /\ stage[i] = "key" /\ newest # {}
  /\ \E k \in newest : Keyed(i, k, "seed")
  /\ ToSeed(i) /\ Sound
  /\ overlapped' = (overlapped \/ \E j \in Instance : Storing(j))
  /\ UNCHANGED <<newest, drawn, adding, boots, clients, tokens, req, known, begun>>

GenerateKey(i) ==
  /\ stage[i] = "key"
  /\ (newest = {} /\ Sound) \/ Fault
  /\ \E k \in Kid \ drawn : Keyed(i, k, "save") /\ drawn' = drawn \union {k}
  /\ overlapped' = (overlapped \/ \E j \in Instance : Storing(j))
  /\ UNCHANGED <<newest, toSeed, adding, boots, clients, tokens, req, known, begun>>

(* created_at is in seconds, so keys stored in one second tie.  An INSERT  *)
(* that fails leaves the instance with a key nobody else knows.            *)
Insert(k) == newest' \in {{k}, newest \union {k}}

SaveKey(i) ==
  /\ stage[i] = "save"
  /\ (Insert(key[i]) /\ Sound) \/ (UNCHANGED newest /\ Fault)
  /\ Enter(i, "seed") /\ ToSeed(i)
  /\ UNCHANGED <<drawn, key, adding, overlapped, boots, clients, tokens, req, known, begun>>

(* seedPublicClient looks a client up and inserts it when it is missing;   *)
(* an error of either call, the primary key's too, is only logged.         *)
SeedLookup(i, c) ==
  /\ stage[i] = "seed" /\ adding[i] = {} /\ c \in toSeed[i]
  /\ toSeed' = [toSeed EXCEPT ![i] = @ \ {c}]
  /\ \/ adding' = [adding EXCEPT ![i] = IF clients[c] = NoRow THEN {c} ELSE {}] /\ Sound
     \/ UNCHANGED adding /\ Fault
  /\ UNCHANGED <<newest, drawn, stage, key, overlapped, boots>>
  /\ UNCHANGED <<clients, tokens, req, known, begun>>

SeedInsert(i, c) ==
  /\ stage[i] = "seed" /\ c \in adding[i]
  /\ adding' = [adding EXCEPT ![i] = {}]
  /\ \/ clients[c] = NoRow /\ Store(c, SeedRow) /\ Sound
     \/ clients[c] # NoRow /\ UNCHANGED <<clients, known>> /\ Sound
     \/ UNCHANGED <<clients, known>> /\ Fault
  /\ UNCHANGED <<newest, drawn, stage, key, toSeed, overlapped, boots, tokens, req, begun>>

Serve(i) ==
  /\ stage[i] = "seed" /\ toSeed[i] = {} /\ adding[i] = {}
  /\ Enter(i, "up")
  /\ UNCHANGED <<newest, drawn, key, toSeed, adding, overlapped, boots>>
  /\ UNCHANGED <<clients, tokens, req, known, begun, faults>>

(* A crash ends the boot and the requests of the instance; a key on its    *)
(* way to D1 may still arrive.                                             *)
Crash(i) ==
  /\ stage[i] # "down" /\ Enter(i, "down")
  /\ \/ UNCHANGED newest
     \/ Storing(i) /\ Insert(key[i])
  /\ key' = [key EXCEPT ![i] = NoKid]
  /\ toSeed' = [toSeed EXCEPT ![i] = {}] /\ adding' = [adding EXCEPT ![i] = {}]
  /\ req' = [p \in Proc |-> IF req[p].at = i THEN Idle ELSE req[p]]
  /\ UNCHANGED <<drawn, overlapped, boots, clients, tokens, known, begun, faults>>

----------------------------------------------------------------------------
(* Dynamic registration (RFC 7591) and management (RFC 7592).  A client's  *)
(* registration token is drawn with it and never changes, so it is named   *)
(* by the client; a seeded row has the empty one.                          *)
Up(i) == stage[i] = "up"
Begins == begun < MaxRequests /\ begun' = begun + 1 /\ Sound
At(p, l) == req[p].pc = l
Done(p) == req' = [req EXCEPT ![p] = Idle]
Onward(p, l) == req' = [req EXCEPT ![p].pc = l]
Start(p, i, c, l, s) ==
  At(p, "idle") /\ req' = [req EXCEPT ![p] = [pc |-> l, at |-> i, client |-> c,
                                              row |-> clients[c], scopes |-> s]]

Auth == {"none", "basic", "omitted"}
Grants == {"code", "creds", "omitted"}

Register(c, auth, grants) ==
  /\ \E i \in Instance : Up(i)
  /\ Begins /\ c \notin Seeded \union known
  /\ Store(c, [auth |-> IF auth = "none" THEN "none" ELSE "basic", hash |-> auth # "none",
               creds |-> grants = "creds"])
  /\ UNCHANGED <<bootVars, tokens, req>>

RegistrationToken(c) == IF c \in Seeded THEN None ELSE c
authorizeEmpty(c, bearer) ==  \* mutant: an absent bearer equals an empty token
  clients[c] # NoRow /\ bearer = RegistrationToken(c)
authorize(c, bearer) ==
  clients[c] # NoRow /\ bearer # None /\ bearer = RegistrationToken(c)

BeginManage(p, i, c, bearer) ==
  /\ Up(i) /\ Begins /\ authorize(c, bearer)
  /\ \E l \in {"update", "delete"} : Start(p, i, c, l, {})
  /\ UNCHANGED <<bootVars, clients, tokens, known>>

(* What the body leaves out keeps the value that authorize loaded.         *)
MergedUndefaulted(row, auth, grants) ==  \* mutant: an omitted auth_method is stored
  [auth |-> auth, hash |-> row.hash,
   creds |-> IF grants = "omitted" THEN row.creds ELSE grants = "creds"]
Merged(row, auth, grants) ==
  [auth |-> IF auth = "omitted" THEN row.auth ELSE auth, hash |-> row.hash,
   creds |-> IF grants = "omitted" THEN row.creds ELSE grants = "creds"]

UpdateOrInsert(p, auth, grants) ==  \* mutant: INSERT OR REPLACE
  /\ At(p, "update") /\ Done(p) /\ Sound
  /\ clients' = [clients EXCEPT ![req[p].client] = Merged(req[p].row, auth, grants)]
  /\ UNCHANGED <<bootVars, tokens, known, begun>>

Update(p, auth, grants) ==
  LET c == req[p].client IN
  /\ At(p, "update") /\ Done(p) /\ Sound
  /\ clients' = [clients EXCEPT ![c] =
                   IF @ = NoRow THEN NoRow ELSE Merged(req[p].row, auth, grants)]
  /\ UNCHANGED <<bootVars, tokens, known, begun>>

Delete(p) ==
  /\ At(p, "delete") /\ Done(p) /\ Sound
  /\ clients' = [clients EXCEPT ![req[p].client] = NoRow]
  /\ UNCHANGED <<bootVars, tokens, known, begun>>

----------------------------------------------------------------------------
(* A grant: for a signed-in user, over the scopes IsScopeAllowed leaves of *)
(* those asked for, or for the client itself.                              *)
IsScopeAllowed(s) == s \in Scope
Proves(row) == row.auth = "none" \/ row.hash

BeginCode(p, i, c, asked) ==
  /\ Up(i) /\ Begins /\ clients[c] # NoRow
  /\ Start(p, i, c, "token", {s \in asked : s \in Standard \/ IsScopeAllowed(s)})
  /\ UNCHANGED <<bootVars, clients, tokens, known>>

Exchange(p) ==
  LET row == clients[req[p].client] IN
  /\ At(p, "token") /\ Sound
  /\ IF row # NoRow /\ Proves(row) THEN Onward(p, "mint") ELSE Done(p)
  /\ UNCHANGED <<bootVars, clients, tokens, known, begun>>

ClientCredentials(p, i, c, asked) ==
  /\ Up(i) /\ Begins /\ clients[c] # NoRow
  /\ clients[c].creds /\ clients[c].hash
  /\ Start(p, i, c, "creds", asked)
  /\ UNCHANGED <<bootVars, clients, tokens, known>>

ClientCredentialsTokenRequest(p) ==
  /\ At(p, "creds") /\ Sound
  /\ IF clients[req[p].client] # NoRow THEN Onward(p, "mint") ELSE Done(p)
  /\ UNCHANGED <<bootVars, clients, tokens, known, begun>>

(* The record of the token goes to KV, and the JWT is signed by the key of *)
(* the instance, with the scopes as a claim.                               *)
Mint(p) ==
  /\ At(p, "mint") /\ Done(p) /\ Sound
  /\ tokens' = tokens \union {[kid |-> key[req[p].at], scopes |-> req[p].scopes]}
  /\ UNCHANGED <<bootVars, clients, known, begun>>

(* Any call of a request may fail, and the request is refused.             *)
Fail(p) ==
  /\ ~At(p, "idle") /\ Done(p) /\ Fault
  /\ UNCHANGED <<bootVars, clients, tokens, known, begun>>

Expire(t) ==
  /\ tokens' = tokens \ {t}
  /\ UNCHANGED <<bootVars, clients, req, known, begun, faults>>

----------------------------------------------------------------------------
Next ==
  \/ \E i \in Instance :
       \/ Boot(i) \/ LoadKey(i) \/ GenerateKey(i) \/ SaveKey(i) \/ Serve(i) \/ Crash(i)
       \/ \E c \in Seeded : SeedLookup(i, c) \/ SeedInsert(i, c)
  \/ \E c \in Client, auth \in Auth, grants \in Grants : Register(c, auth, grants)
  \/ \E p \in Proc, i \in Instance, c \in Client :
       \/ \E bearer \in Client \union {None} : BeginManage(p, i, c, bearer)
       \/ \E asked \in Asks : BeginCode(p, i, c, asked) \/ ClientCredentials(p, i, c, asked)
  \/ \E p \in Proc :
       \/ \E auth \in Auth, grants \in Grants : Update(p, auth, grants)
       \/ Delete(p) \/ Exchange(p) \/ ClientCredentialsTokenRequest(p) \/ Mint(p) \/ Fail(p)
  \/ \E t \in tokens : Expire(t)

Spec == Init /\ [][Next]_vars

----------------------------------------------------------------------------
(* router.go: the scope of each group of routes.  Taxonomy writes take it  *)
(* from the :kind of the path, and none when the kind is not listed, which *)
(* the handler is to answer with 404.                                      *)
GroupScope ==
  [read       |-> <<"manga", "read">>,   manage      |-> RequiredScope,
   adminRead  |-> <<"admin", "read">>,   adminWrite  |-> <<"admin", "write">>,
   usersRead  |-> <<"users", "read">>,   usersWrite  |-> <<"users", "write">>,
   connections |-> <<"connections", "write">>, passkeys |-> NoScope]
Route == ((DOMAIN GroupScope) \X {"none"}) \union ({"taxonomy"} \X Kind)

MiddlewareUnlisted(k) ==  \* mutant: a kind missing from the list of util.go
  IF k \in TaxonomyWriteKinds \ {"genres"} THEN ScopeTaxonomyWrite(k) ELSE NoScope
MiddlewareTaxonomyWrite(k) ==
  IF k \in TaxonomyWriteKinds THEN ScopeTaxonomyWrite(k) ELSE NoScope
scopeFor(r) == IF r[1] = "taxonomy" THEN MiddlewareTaxonomyWrite(r[2]) ELSE GroupScope[r[1]]
Found(r) == r[1] = "taxonomy" => r[2] \in HandlerKinds

Verifies(i, t) == Up(i) /\ t.kid = key[i]
Serves(i, t, r) ==
  /\ Verifies(i, t) /\ Found(r)
  /\ scopeFor(r) = NoScope \/ scopeFor(r) \in t.scopes

----------------------------------------------------------------------------
TypeOK ==
  /\ newest \subseteq Kid /\ drawn \subseteq Kid
  /\ stage \in [Instance -> Stage] /\ key \in [Instance -> Kid \union {NoKid}]
  /\ toSeed \in [Instance -> SUBSET Seeded] /\ adding \in [Instance -> SUBSET Seeded]
  /\ clients \in [Client -> Row \union {NoRow}] /\ known \subseteq Client
  /\ tokens \subseteq Token /\ req \in [Proc -> Request]
  /\ overlapped \in BOOLEAN /\ boots \in Nat /\ begun \in Nat /\ faults \in Nat

(* Every running instance, booted before or after the token was signed,    *)
(* verifies every unexpired token of every other, unless two boots crossed *)
(* between lookup and INSERT, or a call failed.                            *)
TokensOutliveRestarts ==
  \A t \in tokens, i \in Instance : Up(i) => Verifies(i, t) \/ overlapped \/ faults > 0

(* The list of kinds the middleware knows and the one the handler knows    *)
(* leave no taxonomy to be changed without the write scope of its kind,    *)
(* and no token without a write scope changes anything else.               *)
Writing == {"manage", "adminWrite", "usersWrite", "connections", "taxonomy"}
WriteNeedsItsScope ==
  \A t \in tokens, i \in Instance, r \in Route : Serves(i, t, r) =>
    /\ r[1] = "taxonomy" => ScopeTaxonomyWrite(r[2]) \in t.scopes
    /\ r[1] \in Writing => \E s \in t.scopes : s[2] = "write"

(* A client is stored once: no update that raced a deletion and no boot    *)
(* brings it back, and a seeded one is nobody's to change.                 *)
RegisteredOnce ==
  [][\A c \in Client :
       \/ clients'[c] = clients[c]
       \/ clients[c] = NoRow /\ c \notin known
       \/ clients[c] # NoRow /\ c \notin Seeded]_vars
=============================================================================
