---------------------------- MODULE Connections ----------------------------
(***************************************************************************)
(* Connections to an external OAuth provider: ConnectionService            *)
(* (connection_service.go, connection_search.go) over its D1 repository,   *)
(* the KV state store, the OAuth client and the provider.                  *)
(*                                                                         *)
(* One action is one call of a request: a D1 statement, a KV call, a call  *)
(* of the provider.  Secrets are stored encrypted and decrypted on use,    *)
(* which loses nothing, so they appear in the clear; the pair of client_id *)
(* and client_secret is one value.  A token pair stands for the access and *)
(* the refresh token of one response.  The provider is external: a code    *)
(* and a refresh token work once, for the client they were issued to; a    *)
(* refresh answers a new refresh token or, as RFC 6749 allows, none.       *)
(***************************************************************************)
EXTENDS Naturals

CONSTANTS
  Conn, Client,  \* connections; credentials at the provider
  Flow,          \* authorizations begun: state, PKCE verifier, its code
  Pair,          \* token pairs the provider may issue
  Proc,          \* concurrent requests
  NoConn, NoFlow, NoPair, NoRow,
  MaxRequests,   \* bound: requests begun
  MaxFaults      \* bound: failed calls and crashes

Row == [client : Client, access : Pair \union {NoPair}, refresh : Pair \union {NoPair},
        status : {"disconnected", "connected"}]

ASSUME NullAssumption ==
  NoConn \notin Conn /\ NoFlow \notin Flow /\ NoPair \notin Pair /\ NoRow \notin Row
ASSUME BoundsAssumption == MaxRequests \in Nat /\ MaxFaults \in Nat

VARIABLES
  rows,          \* table connection, by id
  made,          \* history: ids ever inserted
  flow,          \* the connection and client an authorize URL was built from
  states,        \* flows whose AuthState is in KV
  code,          \* a flow's code: "none", "issued" or "used"
  pair,          \* the connection and client a pair was granted for
  liveA, liveR,  \* pairs whose access / refresh token the provider accepts
  revoked,       \* history: pairs the provider withdrew
  wasted,        \* history: refresh tokens rotated into an answer nobody saved
  req,           \* a request: place, what it is, what it loaded and got
  begun, faults

vars == <<rows, made, flow, states, code, pair, liveA, liveR, revoked, wasted, req, begun, faults>>
db == <<rows, made>>
kv == <<flow, states>>
provider == <<code, pair, liveA, liveR, revoked>>
bounds == <<begun, faults>>

Grant == [conn : Conn, client : Client]
Absent == [conn |-> NoConn]
Kind == {"callback", "refresh", "search", "update"}
PC == {"idle", "state", "load", "get", "again", "exchange", "refresh", "save", "write"}
Request == [pc : PC, kind : Kind, conn : Conn \union {NoConn}, flow : Flow \union {NoFlow},
            code : Flow \union {NoFlow}, row : Row \union {NoRow},
            access : Pair \union {NoPair}, refresh : Pair \union {NoPair}]

New(l, k, c, f, g) == [pc |-> l, kind |-> k, conn |-> c, flow |-> f, code |-> g, row |-> NoRow,
                       access |-> NoPair, refresh |-> NoPair]
Idle == New("idle", "refresh", NoConn, NoFlow, NoFlow)

At(p, l) == req[p].pc = l
Done(p) == req' = [req EXCEPT ![p] = Idle]
Goto(p, l) == req' = [req EXCEPT ![p].pc = l]

Init ==
  /\ rows = [c \in Conn |-> NoRow] /\ made = {}
  /\ flow = [f \in Flow |-> Absent] /\ states = {}
  /\ code = [f \in Flow |-> "none"] /\ pair = [t \in Pair |-> Absent]
  /\ liveA = {} /\ liveR = {} /\ revoked = {} /\ wasted = {}
  /\ req = [p \in Proc |-> Idle] /\ begun = 0 /\ faults = 0

----------------------------------------------------------------------------
(* Create, Delete, Authorize: one row or record each.  Authorize reads the *)
(* row before it stores its state, under a name nobody knows before it     *)
(* answers, so the two calls are one step.                                 *)
Create(c) ==
  /\ c \notin made /\ made' = made \union {c}
  /\ \E k \in Client : rows' = [rows EXCEPT ![c] =
       [client |-> k, access |-> NoPair, refresh |-> NoPair, status |-> "disconnected"]]
  /\ UNCHANGED <<kv, provider, wasted, req, bounds>>

Delete(c) ==
  /\ rows[c] # NoRow
  /\ rows' = [rows EXCEPT ![c] = NoRow]
  /\ UNCHANGED <<made, kv, provider, wasted, req, bounds>>

Authorize(c, f) ==
  /\ rows[c] # NoRow /\ flow[f] = Absent
  /\ flow' = [flow EXCEPT ![f] = [conn |-> c, client |-> rows[c].client]]
  /\ states' = states \union {f}
  /\ UNCHANGED <<db, provider, wasted, req, bounds>>

(* KV drops the state after stateTTLSeconds.                               *)
StateExpires(f) ==
  /\ f \in states /\ states' = states \ {f}
  /\ UNCHANGED <<db, flow, provider, wasted, req, bounds>>

----------------------------------------------------------------------------
(* The provider: the user approves an authorize URL; an access token ages; *)
(* the user withdraws the application.                                     *)
Approve(f) ==
  /\ flow[f] # Absent /\ code[f] = "none"
  /\ code' = [code EXCEPT ![f] = "issued"]
  /\ UNCHANGED <<db, kv, pair, liveA, liveR, revoked, wasted, req, bounds>>

AccessExpires(t) ==
  /\ t \in liveA /\ liveA' = liveA \ {t}
  /\ UNCHANGED <<db, kv, code, pair, liveR, revoked, wasted, req, bounds>>

Withdraw(t) ==
  /\ t \in liveR
  /\ liveR' = liveR \ {t} /\ liveA' = liveA \ {t} /\ revoked' = revoked \union {t}
  /\ UNCHANGED <<db, kv, code, pair, wasted, req, bounds>>

(* A new pair for grant g; the refresh tokens in spent stop working.       *)
Issue(t, g, spent) ==
  /\ pair[t] = Absent /\ pair' = [pair EXCEPT ![t] = g]
  /\ liveA' = liveA \union {t} /\ liveR' = (liveR \ spent) \union {t}
  /\ UNCHANGED revoked

(* The token response, as the request keeps it until it is saved.          *)
Answered(p, a, r) ==
  req' = [req EXCEPT ![p].pc = "save", ![p].access = a, ![p].refresh = r]

----------------------------------------------------------------------------
Begin(p, r) ==
  /\ At(p, "idle") /\ begun < MaxRequests
  /\ req' = [req EXCEPT ![p] = r] /\ begun' = begun + 1
  /\ UNCHANGED <<db, kv, provider, wasted, faults>>

(* Refresh, Search and Update name a connection.                           *)
BeginById(p) ==
  \E k \in {"refresh", "search", "update"}, c \in Conn :
    Begin(p, New("load", k, c, NoFlow, NoFlow))

(* Callback: StateStore.Get reads the state, then deletes it; whether the  *)
(* deletion works is ignored.                                              *)
BeginCallback(p) ==
  \E f \in states, g \in Flow :
    code[g] # "none" /\ Begin(p, New("state", "callback", flow[f].conn, f, g))

DropState(p) ==
  /\ At(p, "state")
  /\ states' \in {states, states \ {req[p].flow}}
  /\ Goto(p, "load")
  /\ UNCHANGED <<db, flow, provider, wasted, bounds>>

(* repo.Get at the start of every operation, and again when a search that  *)
(* was answered 401 refreshes.                                             *)
AfterLoad(p) ==
  CASE req[p].kind = "callback" -> "exchange"
    [] req[p].kind = "update" -> "write"
    [] req[p].kind = "search" /\ req[p].row = NoRow -> "get"
    [] OTHER -> "refresh"

LoadUnchecked(p) ==  \* mutant
  /\ At(p, "load")
  /\ req' = [req EXCEPT ![p].pc = AfterLoad(p), ![p].row = rows[req[p].conn]]
  /\ UNCHANGED <<db, kv, provider, wasted, bounds>>

Load(p) ==
  LET c == req[p].conn  IN
  /\ At(p, "load")
  /\ IF rows[c] = NoRow \/ (AfterLoad(p) = "refresh" /\ rows[c].refresh = NoPair)
     THEN Done(p)
     ELSE req' = [req EXCEPT ![p].pc = AfterLoad(p), ![p].row = rows[c]]
  /\ UNCHANGED <<db, kv, provider, wasted, bounds>>

WriteRecord(p) ==  \* mutant
  LET c == req[p].conn  IN
  /\ At(p, "write")
  /\ \E k \in Client :
       rows' = IF rows[c] = NoRow THEN rows ELSE [rows EXCEPT ![c] = [req[p].row EXCEPT !.client = k]]
  /\ Done(p)
  /\ UNCHANGED <<made, kv, provider, wasted, bounds>>

(* Update writes the credentials: those given, else those it loaded.       *)
Write(p) ==
  LET c == req[p].conn  IN
  /\ At(p, "write")
  /\ \E k \in Client : rows' = IF rows[c] = NoRow THEN rows ELSE [rows EXCEPT ![c].client = k]
  /\ Done(p)
  /\ UNCHANGED <<made, kv, provider, wasted, bounds>>

ExchangeUnverified(p) ==  \* mutant
  LET f == req[p].code  k == req[p].row.client  IN
  /\ At(p, "exchange")
  /\ IF code[f] = "issued" /\ flow[f].client = k
     THEN \E t \in Pair :
            /\ Issue(t, flow[f], {}) /\ Answered(p, t, t)
            /\ code' = [code EXCEPT ![f] = "used"]
     ELSE Done(p) /\ UNCHANGED provider
  /\ UNCHANGED <<db, kv, wasted, bounds>>

(* oauth.Exchange: the code must be unused, and belong to the verifier of  *)
(* the state and to the client that the row had when it was loaded.        *)
Exchange(p) ==
  LET f == req[p].code  k == req[p].row.client  IN
  /\ At(p, "exchange")
  /\ IF code[f] = "issued" /\ flow[f].client = k /\ req[p].flow = f
     THEN \E t \in Pair :
            /\ Issue(t, flow[f], {}) /\ Answered(p, t, t)
            /\ code' = [code EXCEPT ![f] = "used"]
     ELSE Done(p) /\ UNCHANGED provider
  /\ UNCHANGED <<db, kv, wasted, bounds>>

(* oauth.Refresh with the refresh token and client that were loaded.       *)
Refresh(p) ==
  LET r == req[p].row.refresh  IN
  /\ At(p, "refresh")
  /\ IF r \in liveR /\ pair[r].client = req[p].row.client
     THEN \E t \in Pair :
            \/ Issue(t, pair[r], {r}) /\ Answered(p, t, t) /\ UNCHANGED code
            \/ /\ pair[t] = Absent /\ pair' = [pair EXCEPT ![t] = pair[r]]
               /\ liveA' = liveA \union {t}
               /\ Answered(p, t, NoPair) /\ UNCHANGED <<code, liveR, revoked>>
     ELSE Done(p) /\ UNCHANGED provider
  /\ UNCHANGED <<db, kv, wasted, bounds>>

(* persistTokens: SaveTokens updates the row if it is still there.  The    *)
(* request goes on with what it wrote, whether or not it was.              *)
Saved(p) == [req[p].row EXCEPT !.access = req[p].access, !.refresh = req[p].refresh,
                               !.status = "connected"]
Stored(p, c) == [rows[c] EXCEPT !.access = req[p].access, !.refresh = req[p].refresh,
                                !.status = "connected"]

Save(p) ==
  LET c == req[p].conn  IN
  /\ At(p, "save")
  /\ rows' = IF rows[c] = NoRow THEN rows ELSE [rows EXCEPT ![c] = Stored(p, c)]
  /\ IF req[p].kind = "search"
     THEN req' = [req EXCEPT ![p].pc = "again", ![p].row = Saved(p)] ELSE Done(p)
  /\ UNCHANGED <<made, kv, provider, wasted, bounds>>

(* Search asks the provider; a 401 refreshes and asks once more.           *)
Get(p) ==
  /\ req[p].pc \in {"get", "again"}
  /\ IF At(p, "again") \/ req[p].row.access \in liveA THEN Done(p) ELSE Goto(p, "load")
  /\ UNCHANGED <<db, kv, provider, wasted, bounds>>

(* A call fails, is answered with another status, or the instance dies.    *)
(* What the provider did before it, and its answer carried, is lost.       *)
Fail(p) ==
  /\ ~At(p, "idle") /\ faults < MaxFaults
  /\ Done(p) /\ faults' = faults + 1
  /\ wasted' = IF At(p, "save") /\ req[p].kind # "callback"
               THEN wasted \union {req[p].row.refresh} ELSE wasted
  /\ UNCHANGED <<db, kv, provider, begun>>

----------------------------------------------------------------------------
Step(p) ==
  \/ DropState(p) \/ Load(p) \/ Write(p) \/ Exchange(p) \/ Refresh(p) \/ Save(p) \/ Get(p)

Next ==
  \/ \E c \in Conn : Create(c) \/ Delete(c)
  \/ \E c \in Conn, f \in Flow : Authorize(c, f)
  \/ \E f \in Flow : StateExpires(f) \/ Approve(f)
  \/ \E t \in Pair : AccessExpires(t) \/ Withdraw(t)
  \/ \E p \in Proc : BeginCallback(p) \/ BeginById(p)
  \/ \E p \in Proc : Step(p) \/ Fail(p)

Spec == Init /\ [][Next]_vars

----------------------------------------------------------------------------
(* The type invariant: rows and records of their columns, and a request    *)
(* past its load holds the row it loaded.                                  *)
TypeOK ==
  /\ rows \in [Conn -> Row \union {NoRow}] /\ made \subseteq Conn
  /\ flow \in [Flow -> Grant \union {Absent}] /\ states \subseteq Flow
  /\ code \in [Flow -> {"none", "issued", "used"}]
  /\ pair \in [Pair -> Grant \union {Absent}]
  /\ liveA \subseteq Pair /\ liveR \subseteq Pair /\ revoked \subseteq Pair
  /\ wasted \subseteq Pair
  /\ req \in [Proc -> Request]
  /\ begun \in 0..MaxRequests /\ faults \in 0..MaxFaults
  /\ \A p \in Proc :
       /\ ~At(p, "idle") => req[p].conn \in Conn
       /\ req[p].kind = "callback" => req[p].flow \in Flow /\ req[p].code \in Flow
       /\ ~(req[p].pc \in {"idle", "state", "load"}) => req[p].row # NoRow
       /\ At(p, "save") => req[p].access # NoPair
       /\ At(p, "save") /\ req[p].kind # "callback" => req[p].row.refresh # NoPair
       /\ At(p, "exchange") => req[p].kind = "callback"
       /\ At(p, "refresh") => req[p].kind # "callback"

(* However callbacks with mixed-up states and codes, refreshes and edits   *)
(* overlap, the tokens of a connection were granted for that connection.   *)
(* Two connections may share an application, so only the verifier kept     *)
(* with the state tells their codes apart (Callback, AuthState).           *)
OwnTokens ==
  \A c \in Conn : rows[c] # NoRow =>
    \A t \in {rows[c].access, rows[c].refresh} \ {NoPair} : pair[t].conn = c

(* The refresh token in a row is one the provider still accepts, unless    *)
(* the provider withdrew it, its replacement is on the way to the row, or  *)
(* a fault lost the replacement: no overlap of searches, refreshes and     *)
(* edits alone costs a connection its authorization (connection_search.go  *)
(* refreshes on 401, Update writes back what it loaded).  That an answer   *)
(* without a refresh token empties the column is left out.                 *)
InFlight(t) ==
  \E p \in Proc : At(p, "save") /\ req[p].kind # "callback" /\ req[p].row.refresh = t

RenewableUnlessLost ==
  \A c \in Conn : rows[c] # NoRow =>
    LET t == rows[c].refresh IN
    t \in {NoPair} \union liveR \union revoked \union wasted \/ InFlight(t)

(* A deleted connection stays deleted, whatever a callback, a refresh or   *)
(* an edit that loaded it before goes on to write (SaveTokens and Update   *)
(* are UPDATEs by id).                                                     *)
StaysDeleted == [][\A c \in made : rows[c] = NoRow => rows'[c] = NoRow]_vars
=============================================================================
