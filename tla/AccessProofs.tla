---------------------------- MODULE AccessProofs ----------------------------
(***************************************************************************)
(* Proofs about Access for any number of instances, keys, clients and      *)
(* requests.  IInv says what a boot and a request hold at each stage       *)
(* (Held), that a request under way to manage a client manages one that    *)
(* was not seeded (Managed), and that without a crossed boot or a fault    *)
(* there is one key, stored before anything uses it (OneKey).              *)
(***************************************************************************)
EXTENDS Access, TLAPS

Held ==
  /\ \A i \in Instance : stage[i] \in {"save", "seed", "up"} => key[i] \in Kid
  /\ \A p \in Proc : req[p].pc # "idle" =>
       req[p].at \in Instance /\ stage[req[p].at] = "up" /\ req[p].client \in Client
  /\ \A p \in Proc : req[p].pc = "update" => req[p].row \in Row

Managed ==
  /\ \A p \in Proc : req[p].pc \in {"update", "delete"} => req[p].client \notin Seeded
  /\ \A c \in Seeded \intersect known : clients[c] # NoRow

OneKey ==
  \/ overlapped \/ faults > 0
  \/ /\ \A k, l \in newest : k = l
     /\ \A i, j \in Instance : stage[i] = "save" /\ stage[j] = "save" => i = j
     /\ \A i \in Instance : stage[i] = "save" => newest = {}
     /\ \A i \in Instance : stage[i] \in {"seed", "up"} => key[i] \in newest
     /\ \A t \in tokens : t.kid \in newest

IInv == TypeOK /\ Held /\ Managed /\ OneKey

(* A seeded client is stored as a row.                                     *)
LEMMA SeedIsARow == SeedRow \in Row /\ SeedRow # NoRow
<1>1. SeedRow \in Row
  BY DEF SeedRow, Row
<1> QED
  BY <1>1, NullAssumption

(* Initially nothing is stored and nothing runs.                           *)
LEMMA InitIInv == Init => IInv
<1> SUFFICES ASSUME Init PROVE IInv
  OBVIOUS
<1> USE NullAssumption, ParameterAssumption DEF Init
<1>1. TypeOK
  BY DEF TypeOK, Stage, Request, Idle, AnyScope
<1>2. Held
  BY DEF Held, Idle
<1>3. Managed
  BY DEF Managed, Idle
<1>4. OneKey
  BY DEF OneKey
<1> QED
  BY <1>1, <1>2, <1>3, <1>4 DEF IInv

(* Every call and every crash preserves it.                                *)
LEMMA NextIInv == IInv /\ [Next]_vars => IInv'
<1> SUFFICES ASSUME IInv, [Next]_vars PROVE IInv'
  OBVIOUS
<1> USE NullAssumption, ParameterAssumption DEF IInv
<1>1. ASSUME NEW i \in Instance, Boot(i) PROVE IInv'
  <2> USE <1>1 DEF Boot, Enter
  <2>1. TypeOK' BY DEF TypeOK, Held, Stage, Request, Token, Row
  <2>2. Held' BY DEF TypeOK, Held, Stage, Request, Row
  <2>3. Managed' BY DEF TypeOK, Held, Managed, Request, Row
  <2>4. OneKey' BY DEF TypeOK, Held, OneKey, Request, Stage
  <2> QED BY <2>1, <2>2, <2>3, <2>4 DEF IInv
<1>2. ASSUME NEW i \in Instance, LoadKey(i) PROVE IInv'
  <2> USE <1>2 DEF LoadKey, Enter, Keyed, ToSeed, Sound, Storing
  <2>1. TypeOK' BY DEF TypeOK, Held, Stage, Request, Token, Row
  <2>2. Held' BY DEF TypeOK, Held, Stage, Request, Row
  <2>3. Managed' BY DEF TypeOK, Held, Managed, Request, Row
  <2>4. OneKey' BY DEF TypeOK, Held, OneKey, Request, Stage
  <2> QED BY <2>1, <2>2, <2>3, <2>4 DEF IInv
<1>3. ASSUME NEW i \in Instance, GenerateKey(i) PROVE IInv'
  <2> USE <1>3 DEF GenerateKey, Enter, Keyed, Sound, Fault, Storing
  <2>1. TypeOK' BY DEF TypeOK, Held, Stage, Request, Token, Row
  <2>2. Held' BY DEF TypeOK, Held, Stage, Request, Row
  <2>3. Managed' BY DEF TypeOK, Held, Managed, Request, Row
  <2>4. OneKey'
    <3>1. overlapped' \/ faults' > 0 \/ (newest = {} /\ \A j \in Instance : stage[j] # "save")
      <4>1. overlapped' = (overlapped \/ \E j \in Instance : stage[j] = "save")
        OBVIOUS
      <4>2. newest = {} \/ faults' > 0
        BY DEF TypeOK
      <4> QED
        BY <4>1, <4>2
    <3>2. CASE overlapped' \/ faults' > 0
      BY <3>2 DEF OneKey
    <3>3. CASE newest = {} /\ (\A j \in Instance : stage[j] # "save") /\ ~overlapped' /\ ~(faults' > 0)
      <4>1. ~overlapped /\ ~(faults > 0)
        <5>1. overlapped' = (overlapped \/ \E j \in Instance : stage[j] = "save")
          OBVIOUS
        <5>2. faults' = faults \/ faults' = faults + 1
          OBVIOUS
        <5> QED
          BY <3>3, <5>1, <5>2 DEF TypeOK
      <4>2. (\A j \in Instance : stage[j] \notin {"seed", "up"}) /\ tokens = {}
        BY <3>3, <4>1 DEF OneKey, TypeOK
      <4> QED
        BY <3>3, <4>2 DEF OneKey, TypeOK
    <3> QED
      BY <3>1, <3>2, <3>3
  <2> QED BY <2>1, <2>2, <2>3, <2>4 DEF IInv
<1>4. ASSUME NEW i \in Instance, SaveKey(i) PROVE IInv'
  <2> USE <1>4 DEF SaveKey, Enter, Insert, Sound, Fault, ToSeed
  <2>1. TypeOK' BY DEF TypeOK, Held, Stage, Request, Token, Row
  <2>2. Held' BY DEF TypeOK, Held, Stage, Request, Row
  <2>3. Managed' BY DEF TypeOK, Held, Managed, Request, Row
  <2>4. OneKey' BY DEF TypeOK, Held, OneKey, Request, Stage
  <2> QED BY <2>1, <2>2, <2>3, <2>4 DEF IInv
<1>5. ASSUME NEW i \in Instance, NEW c \in Seeded, SeedLookup(i, c) PROVE IInv'
  <2> USE <1>5 DEF SeedLookup, Sound, Fault
  <2>1. TypeOK' BY DEF TypeOK, Held, Stage, Request, Token, Row
  <2>2. Held' BY DEF TypeOK, Held, Stage, Request, Row
  <2>3. Managed' BY DEF TypeOK, Held, Managed, Request, Row
  <2>4. OneKey' BY DEF TypeOK, Held, OneKey, Request, Stage
  <2> QED BY <2>1, <2>2, <2>3, <2>4 DEF IInv
<1>6. ASSUME NEW i \in Instance, NEW c \in Seeded, SeedInsert(i, c) PROVE IInv'
  <2> USE <1>6 DEF SeedInsert, Sound, Fault, Store
  <2>1. TypeOK'
    <3>1. c \in Client /\ SeedRow \in Row
      BY SeedIsARow
    <3>2. clients' \in [Client -> Row \union {NoRow}] /\ known' \subseteq Client
      BY <3>1 DEF TypeOK
    <3> QED
      BY <3>2 DEF TypeOK
  <2>2. Held' BY DEF TypeOK, Held, Stage, Request, Row
  <2>3. Managed'
    <3>1. c \in Client /\ SeedRow # NoRow
      BY SeedIsARow
    <3>2. \A d \in Seeded \intersect known' : clients'[d] # NoRow
      BY <3>1 DEF TypeOK, Managed
    <3> QED
      BY <3>2 DEF Managed
  <2>4. OneKey' BY DEF TypeOK, Held, OneKey, Request, Stage
  <2> QED BY <2>1, <2>2, <2>3, <2>4 DEF IInv
<1>7. ASSUME NEW i \in Instance, Serve(i) PROVE IInv'
  <2> USE <1>7 DEF Serve, Enter
  <2>1. TypeOK' BY DEF TypeOK, Held, Stage, Request, Token, Row
  <2>2. Held' BY DEF TypeOK, Held, Stage, Request, Row
  <2>3. Managed' BY DEF TypeOK, Held, Managed, Request, Row
  <2>4. OneKey' BY DEF TypeOK, Held, OneKey, Request, Stage
  <2> QED BY <2>1, <2>2, <2>3, <2>4 DEF IInv
<1>8. ASSUME NEW i \in Instance, Crash(i) PROVE IInv'
  <2> USE <1>8 DEF Crash, Enter, Storing, Insert, Idle
  <2>1. TypeOK' BY DEF TypeOK, Held, Stage, Request, Token, Row
  <2>2. Held' BY DEF TypeOK, Held, Stage, Request, Row
  <2>3. Managed' BY DEF TypeOK, Held, Managed, Request, Row
  <2>4. OneKey' BY DEF TypeOK, Held, OneKey, Request, Stage
  <2> QED BY <2>1, <2>2, <2>3, <2>4 DEF IInv
<1>9. ASSUME NEW c \in Client, NEW auth \in Auth, NEW grants \in Grants, Register(c, auth, grants) PROVE IInv'
  <2> USE <1>9 DEF Register, Auth, Grants, Up, Begins, Sound, Store, bootVars
  <2>1. TypeOK' BY DEF TypeOK, Held, Stage, Request, Token, Row
  <2>2. Held' BY DEF TypeOK, Held, Stage, Request, Row
  <2>3. Managed' BY DEF TypeOK, Held, Managed, Request, Row
  <2>4. OneKey' BY DEF TypeOK, Held, OneKey, Request, Stage
  <2> QED BY <2>1, <2>2, <2>3, <2>4 DEF IInv
<1>10. ASSUME NEW p \in Proc, NEW i \in Instance, NEW c \in Client, NEW bearer \in Client \union {None}, BeginManage(p, i, c, bearer) PROVE IInv'
  <2> USE <1>10 DEF BeginManage, Up, Begins, Sound, authorize, RegistrationToken, Start, At,
      bootVars
  <2>1. TypeOK' BY DEF TypeOK, Held, Stage, Request, Token, Row
  <2>2. Held' BY DEF TypeOK, Held, Stage, Request, Row
  <2>3. Managed' BY DEF TypeOK, Held, Managed, Request, Row
  <2>4. OneKey' BY DEF TypeOK, Held, OneKey, Request, Stage
  <2> QED BY <2>1, <2>2, <2>3, <2>4 DEF IInv
<1>11. ASSUME NEW p \in Proc, NEW auth \in Auth, NEW grants \in Grants, Update(p, auth, grants) PROVE IInv'
  <2> USE <1>11 DEF Update, Auth, Grants, At, Done, Idle, Sound, Merged, bootVars
  <2>1. TypeOK' BY DEF TypeOK, Held, Stage, Request, Token, Row
  <2>2. Held' BY DEF TypeOK, Held, Stage, Request, Row
  <2>3. Managed' BY DEF TypeOK, Held, Managed, Request, Row
  <2>4. OneKey' BY DEF TypeOK, Held, OneKey, Request, Stage
  <2> QED BY <2>1, <2>2, <2>3, <2>4 DEF IInv
<1>12. ASSUME NEW p \in Proc, Delete(p) PROVE IInv'
  <2> USE <1>12 DEF Delete, At, Done, Idle, Sound, bootVars
  <2>1. TypeOK' BY DEF TypeOK, Held, Stage, Request, Token, Row
  <2>2. Held' BY DEF TypeOK, Held, Stage, Request, Row
  <2>3. Managed' BY DEF TypeOK, Held, Managed, Request, Row
  <2>4. OneKey' BY DEF TypeOK, Held, OneKey, Request, Stage
  <2> QED BY <2>1, <2>2, <2>3, <2>4 DEF IInv
<1>13. ASSUME NEW p \in Proc, NEW i \in Instance, NEW c \in Client, NEW asked \in Asks, BeginCode(p, i, c, asked) PROVE IInv'
  <2> USE <1>13 DEF BeginCode, Up, Begins, Sound, Start, At, bootVars
  <2>1. TypeOK' BY DEF TypeOK, Held, Stage, Request, Token, Row
  <2>2. Held' BY DEF TypeOK, Held, Stage, Request, Row
  <2>3. Managed' BY DEF TypeOK, Held, Managed, Request, Row
  <2>4. OneKey' BY DEF TypeOK, Held, OneKey, Request, Stage
  <2> QED BY <2>1, <2>2, <2>3, <2>4 DEF IInv
<1>14. ASSUME NEW p \in Proc, Exchange(p) PROVE IInv'
  <2> USE <1>14 DEF Exchange, At, Done, Onward, Idle, Sound, bootVars
  <2>1. TypeOK' BY DEF TypeOK, Held, Stage, Request, Token, Row
  <2>2. Held' BY DEF TypeOK, Held, Stage, Request, Row
  <2>3. Managed' BY DEF TypeOK, Held, Managed, Request, Row
  <2>4. OneKey' BY DEF TypeOK, Held, OneKey, Request, Stage
  <2> QED BY <2>1, <2>2, <2>3, <2>4 DEF IInv
<1>15. ASSUME NEW p \in Proc, NEW i \in Instance, NEW c \in Client, NEW asked \in Asks, ClientCredentials(p, i, c, asked) PROVE IInv'
  <2> USE <1>15 DEF ClientCredentials, Up, Begins, Sound, Start, At, bootVars
  <2>1. TypeOK' BY DEF TypeOK, Held, Stage, Request, Token, Row
  <2>2. Held' BY DEF TypeOK, Held, Stage, Request, Row
  <2>3. Managed' BY DEF TypeOK, Held, Managed, Request, Row
  <2>4. OneKey' BY DEF TypeOK, Held, OneKey, Request, Stage
  <2> QED BY <2>1, <2>2, <2>3, <2>4 DEF IInv
<1>16. ASSUME NEW p \in Proc, ClientCredentialsTokenRequest(p) PROVE IInv'
  <2> USE <1>16 DEF ClientCredentialsTokenRequest, At, Done, Onward, Idle, Sound, bootVars
  <2>1. TypeOK' BY DEF TypeOK, Held, Stage, Request, Token, Row
  <2>2. Held' BY DEF TypeOK, Held, Stage, Request, Row
  <2>3. Managed' BY DEF TypeOK, Held, Managed, Request, Row
  <2>4. OneKey' BY DEF TypeOK, Held, OneKey, Request, Stage
  <2> QED BY <2>1, <2>2, <2>3, <2>4 DEF IInv
<1>17. ASSUME NEW p \in Proc, Mint(p) PROVE IInv'
  <2> USE <1>17 DEF Mint, At, Done, Idle, Sound, bootVars
  <2>1. TypeOK' BY DEF TypeOK, Held, Stage, Request, Token, Row
  <2>2. Held' BY DEF TypeOK, Held, Stage, Request, Row
  <2>3. Managed' BY DEF TypeOK, Held, Managed, Request, Row
  <2>4. OneKey' BY DEF TypeOK, Held, OneKey, Request, Stage
  <2> QED BY <2>1, <2>2, <2>3, <2>4 DEF IInv
<1>18. ASSUME NEW p \in Proc, Fail(p) PROVE IInv'
  <2> USE <1>18 DEF Fail, At, Done, Idle, Fault, bootVars
  <2>1. TypeOK' BY DEF TypeOK, Held, Stage, Request, Token, Row
  <2>2. Held' BY DEF TypeOK, Held, Stage, Request, Row
  <2>3. Managed' BY DEF TypeOK, Held, Managed, Request, Row
  <2>4. OneKey' BY DEF TypeOK, Held, OneKey, Request, Stage
  <2> QED BY <2>1, <2>2, <2>3, <2>4 DEF IInv
<1>19. ASSUME NEW t \in tokens, Expire(t) PROVE IInv'
  <2> USE <1>19 DEF Expire, bootVars
  <2>1. TypeOK' BY DEF TypeOK, Held, Stage, Request, Token, Row
  <2>2. Held' BY DEF TypeOK, Held, Stage, Request, Row
  <2>3. Managed' BY DEF TypeOK, Held, Managed, Request, Row
  <2>4. OneKey' BY DEF TypeOK, Held, OneKey, Request, Stage
  <2> QED BY <2>1, <2>2, <2>3, <2>4 DEF IInv
<1>20. ASSUME UNCHANGED vars PROVE IInv'
  <2> USE <1>20 DEF vars, bootVars
  <2>1. TypeOK' BY DEF TypeOK, Held, Stage, Request, Token, Row
  <2>2. Held' BY DEF TypeOK, Held, Stage, Request, Row
  <2>3. Managed' BY DEF TypeOK, Held, Managed, Request, Row
  <2>4. OneKey' BY DEF TypeOK, Held, OneKey, Request, Stage
  <2> QED BY <2>1, <2>2, <2>3, <2>4 DEF IInv
<1> QED
  BY <1>1, <1>2, <1>3, <1>4, <1>5, <1>6, <1>7, <1>8, <1>9, <1>10, <1>11, <1>12, <1>13, <1>14,
      <1>15, <1>16, <1>17, <1>18, <1>19, <1>20 DEF Next

(* IInv is an invariant of the specification.                              *)
LEMMA Inductive == Spec => []IInv
<1>1. IInv /\ [Next]_vars => IInv'
  BY NextIInv
<1> QED
  BY InitIInv, <1>1, PTL DEF Spec

(* Type correctness: no token is signed by an instance without a key, and  *)
(* no update stores a half-filled registration.                            *)
THEOREM TypeCorrect == Spec => []TypeOK
<1>1. IInv => TypeOK
  BY DEF IInv
<1> QED
  BY Inductive, <1>1, PTL

(* Tokens outlive restarts, however many instances boot and crash.         *)
THEOREM KeyIsShared == Spec => []TokensOutliveRestarts
<1>1. IInv => TokensOutliveRestarts
  BY DEF IInv, OneKey, TokensOutliveRestarts, Verifies, Up, TypeOK
<1> QED
  BY Inductive, <1>1, PTL

(* The two lists of kinds and the table of the router agree: what a token  *)
(* opens for writing, its scopes name.                                     *)
THEOREM WritesAreScoped == Spec => []WriteNeedsItsScope
<1>1. IInv => WriteNeedsItsScope
  <2> SUFFICES ASSUME NEW t \in tokens, NEW i \in Instance, NEW r \in Route, Serves(i, t, r)
        PROVE /\ r[1] = "taxonomy" => ScopeTaxonomyWrite(r[2]) \in t.scopes
              /\ r[1] \in Writing => \E s \in t.scopes : s[2] = "write"
    BY DEF WriteNeedsItsScope
  <2>1. CASE r[1] = "taxonomy"
    <3>1. r[2] \in TaxonomyWriteKinds
      BY <2>1 DEF Serves, Found, HandlerKinds, TaxonomyWriteKinds
    <3>2. ScopeTaxonomyWrite(r[2]) \in AnyScope
      BY <3>1 DEF AnyScope, Scope
    <3>3. ScopeTaxonomyWrite(r[2]) \in t.scopes
      BY <2>1, <3>1, <3>2, NullAssumption DEF Serves, scopeFor, MiddlewareTaxonomyWrite
    <3> QED
      BY <3>3 DEF ScopeTaxonomyWrite
  <2>2. CASE r[1] \in {"manage", "adminWrite", "usersWrite", "connections"}
    <3>1. scopeFor(r) \in AnyScope /\ scopeFor(r)[2] = "write"
      BY <2>2, ParameterAssumption DEF scopeFor, GroupScope, AnyScope, Scope
    <3>2. scopeFor(r) \in t.scopes
      BY <3>1, NullAssumption DEF Serves
    <3> QED
      BY <2>2, <3>1, <3>2
  <2> QED
    BY <2>1, <2>2 DEF Writing
<1> QED
  BY Inductive, <1>1, PTL

(* No race of boots, updates and deletions brings a client back or touches *)
(* a seeded one.                                                           *)
THEOREM ClientsAreStoredOnce == Spec => RegisteredOnce
<1>1. IInv /\ [Next]_vars =>
        [\A c \in Client :
           \/ clients'[c] = clients[c]
           \/ clients[c] = NoRow /\ c \notin known
           \/ clients[c] # NoRow /\ c \notin Seeded]_vars
  <2> DEFINE Once == \A c \in Client :
                       \/ clients'[c] = clients[c]
                       \/ clients[c] = NoRow /\ c \notin known
                       \/ clients[c] # NoRow /\ c \notin Seeded
  <2> SUFFICES ASSUME IInv, Next PROVE Once
    OBVIOUS
  <2> USE DEF IInv, TypeOK, Held, Managed, Once
  <2>1. ASSUME NEW i \in Instance, NEW c \in Seeded, SeedInsert(i, c) PROVE Once
    BY <2>1, ParameterAssumption DEF SeedInsert, Store
  <2>2. ASSUME NEW c \in Client, NEW auth \in Auth, NEW grants \in Grants, Register(c, auth, grants)
        PROVE Once
    BY <2>2 DEF Register, Store
  <2>3. ASSUME NEW p \in Proc, NEW auth \in Auth, NEW grants \in Grants, Update(p, auth, grants)
        PROVE Once
    BY <2>3 DEF Update, At
  <2>4. ASSUME NEW p \in Proc, Delete(p) PROVE Once
    BY <2>4 DEF Delete, At
  <2>5. ASSUME UNCHANGED clients PROVE Once
    BY <2>5
  <2> QED
    BY <2>1, <2>2, <2>3, <2>4, <2>5 DEF Next, Boot, LoadKey, GenerateKey, SaveKey, SeedLookup, Serve,
      Crash, BeginManage, BeginCode, Exchange, ClientCredentials, ClientCredentialsTokenRequest,
      Mint, Fail, Expire
<1> QED
  BY Inductive, <1>1, PTL DEF Spec, RegisteredOnce
=============================================================================
