------------------------------ MODULE AuthFlow ------------------------------
(***************************************************************************)
(* An authorization request from /authorize to the tokens: the login page  *)
(* (internal/oidc/login.go), remembered consent (consent.go), passkeys     *)
(* (webauthn*.go), and the code and its exchange (storage.go), for one     *)
(* client: no statement touches the consents of two.                       *)
(*                                                                         *)
(* A request is one JSON record in KV that every handler reads whole and   *)
(* writes whole.  A process is one HTTP request, an action one call to KV  *)
(* or D1 with the code up to the next; handlers whose reads guard nothing  *)
(* that others change are one action.  Records expire at any time.  The    *)
(* library (zitadel/oidc) is external: it looks a finished request up and  *)
(* saves a code for it, and it exchanges a code by reading the request,    *)
(* making tokens and deleting the request.  Which credentials are right,   *)
(* passkey challenges, signatures and PKCE are left out.  Nothing ties the  *)
(* posting of a consent card to a login, or to a card that was shown.      *)
(* Workers KV is taken to answer a read with the last write (it promises   *)
(* that only after a while).                                               *)
(***************************************************************************)
EXTENDS Naturals

CONSTANTS
  Req,        \* authorization requests (uuids)
  User, Scope,
  Code,       \* codes (never drawn twice)
  Proc, NoReq, NoUser,
  MaxRequests, \* bound: HTTP requests (reading the login page is free)
  MaxFaults    \* bound: failed calls, crashes and lost answers

ASSUME NamesAssumption == NoReq \notin Req /\ NoUser \notin User
ASSUME BoundsAssumption == MaxRequests \in Nat /\ MaxFaults \in Nat

VARIABLES
  stored,     \* requests that have a record in KV
  kv,         \* that record: user, done, amr
  codes,      \* KV: the request a code stands for, NoReq when there is none
  passkeys,   \* users with a row in webauthn_credential
  consent,    \* column scopes of oidc_user_consent
  scopes,     \* the scopes of a request, {} before it is made
  drawn,      \* history: codes saved
  proved,     \* history: <<request, user, how>> of who proved who he is
  agreed,     \* history: <<request, user>> approved on a consent card
  early,      \* history: requests whose card was posted when they named nobody
  grants,     \* history: <<request, user, amr>> of the tokens delivered
  twice,      \* history: requests that tokens were delivered for again
  contested,  \* history: requests exchanged twice at once, or deleted
              \*   while a handler was about to write them back
  pc, req, who, how, buf, mem,  \* a process: place, request, user, method,
              \*   record read, scopes read
  begun, faults

kvVars == <<stored, kv, codes>>
d1Vars == <<passkeys, consent>>
history == <<drawn, proved, agreed, early, grants, twice, contested>>
procVars == <<pc, req, who, how, buf, mem>>
bounds == <<begun, faults>>
vars == <<kvVars, d1Vars, scopes, history, procVars, bounds>>

PC == {"idle", "setRead", "setWrite", "reread", "scopes", "approve", "mergeRead",
       "mergeWrite", "finRead", "finWrite", "saveCode", "exRead", "mint"}
(* Where a handler works for a user it knows.                              *)
Serving == {"setRead", "setWrite", "reread", "scopes", "mergeRead", "mergeWrite"}
Method == {"pwd", "webauthn"}
Blank == [user |-> NoUser, done |-> FALSE, amr |-> "none"]
Record == [user : User \union {NoUser}, done : BOOLEAN, amr : Method \union {"none"}]

----------------------------------------------------------------------------
Made(r) == scopes[r] # {}

(* A user holds an id token and a bearer token; one with a passkey needed  *)
(* them to register it.                                                    *)
HasTokens(u) == u \in passkeys \/ \E g \in grants : g[2] = u

(* Mutant of Consented: consents are looked up without the user.           *)
ConsentedByAnyone(u, r) == \E v \in User : scopes[r] \subseteq consent[v]

(* missingScopes is empty.                                                 *)
Consented(u, r) == scopes[r] \subseteq consent[u]

LoggedIn(u, r) == \E h \in Method \union {"hint"} : <<r, u, h>> \in proved

(* What a posted card is taken for: it does not say whom it was shown to,  *)
(* and counts for all who logged in so far.                                *)
Posted(r) ==
  /\ agreed' = agreed \union {<<r, u>> : u \in {v \in User : LoggedIn(v, r)}}
  /\ early' = IF kv[r].user = NoUser THEN early \union {r} ELSE early

Goto(p, l) == pc' = [pc EXCEPT ![p] = l]
Continue(p, l) == Goto(p, l) /\ UNCHANGED <<req, who, how, buf, mem>>
ReadThen(p, l) == /\ Goto(p, l) /\ buf' = [buf EXCEPT ![p] = kv[req[p]]]
                  /\ UNCHANGED <<req, who, how, mem>>

Count == begun < MaxRequests /\ begun' = begun + 1

Start(p, l, r, u, h) ==
  /\ pc[p] = "idle" /\ Count
  /\ Goto(p, l)
  /\ req' = [req EXCEPT ![p] = r] /\ who' = [who EXCEPT ![p] = u]
  /\ how' = [how EXCEPT ![p] = h]
  /\ UNCHANGED <<buf, mem>>

Done(p) ==
  /\ Goto(p, "idle")
  /\ req' = [req EXCEPT ![p] = NoReq] /\ who' = [who EXCEPT ![p] = NoUser]
  /\ how' = [how EXCEPT ![p] = "pwd"]
  /\ buf' = [buf EXCEPT ![p] = Blank] /\ mem' = [mem EXCEPT ![p] = {}]

Put(r, rec) == /\ stored' = stored \union {r} /\ kv' = [kv EXCEPT ![r] = rec]
               /\ UNCHANGED codes
Remove(r) == /\ stored' = stored \ {r} /\ kv' = [kv EXCEPT ![r] = Blank]
             /\ UNCHANGED codes

Fault == faults < MaxFaults /\ faults' = faults + 1 /\ UNCHANGED begun

Init ==
  /\ stored = {} /\ kv = [r \in Req |-> Blank]
  /\ codes = [c \in Code |-> NoReq]
  /\ passkeys \in SUBSET User /\ consent = [u \in User |-> {}]
  /\ scopes = [r \in Req |-> {}] /\ drawn = {}
  /\ proved = {} /\ agreed = {} /\ early = {} /\ grants = {} /\ twice = {} /\ contested = {}
  /\ pc = [p \in Proc |-> "idle"] /\ req = [p \in Proc |-> NoReq]
  /\ who = [p \in Proc |-> NoUser] /\ how = [p \in Proc |-> "pwd"]
  /\ buf = [p \in Proc |-> Blank] /\ mem = [p \in Proc |-> {}]
  /\ begun = 0 /\ faults = 0

----------------------------------------------------------------------------
(* Mutant of Authorize: a login_hint, which proves nothing, is the subject.*)
AuthorizeLoginHint(r) ==
  /\ ~Made(r) /\ Count
  /\ \E ss \in (SUBSET Scope) \ {{}} : scopes' = [scopes EXCEPT ![r] = ss]
  /\ \E u \in User \union {NoUser} : Put(r, [Blank EXCEPT !.user = u])
  /\ UNCHANGED <<d1Vars, drawn, proved, agreed, early, grants, twice, contested, procVars,
                 faults>>

(* CreateAuthRequest.  The user is the subject of an id_token_hint, if any:*)
(* an id token proves who he is.  Nobody asks for a password then, only    *)
(* for consent.                                                            *)
Authorize(r) ==
  /\ ~Made(r) /\ Count
  /\ \E ss \in (SUBSET Scope) \ {{}} : scopes' = [scopes EXCEPT ![r] = ss]
  /\ \/ Put(r, Blank) /\ UNCHANGED proved
     \/ \E u \in User :
          /\ HasTokens(u)
          /\ Put(r, [Blank EXCEPT !.user = u])
          /\ proved' = proved \union {<<r, u, "hint">>}
  /\ UNCHANGED <<d1Vars, drawn, agreed, early, grants, twice, contested, procVars, faults>>

(* The form with email and password: verifyUser let u in.                  *)
BeginPassword(p) ==
  /\ \E r \in Req, u \in User :
       /\ Made(r)
       /\ Start(p, "setRead", r, u, "pwd")
       /\ proved' = proved \union {<<r, u, "pwd">>}
  /\ UNCHANGED <<kvVars, d1Vars, scopes, drawn, agreed, early, grants, twice, contested, faults>>

(* webauthnLoginBegin, for a request that is there, and webauthnLoginFinish*)
(* up to the verified assertion.  The session between them holds only the  *)
(* challenge; the credential's counter is left out too.                    *)
BeginPasskey(p) ==
  /\ \E r \in Req, u \in passkeys :
       /\ Made(r)
       /\ Start(p, "setRead", r, u, "webauthn")
       /\ proved' = proved \union {<<r, u, "webauthn">>}
  /\ UNCHANGED <<kvVars, d1Vars, scopes, drawn, agreed, early, grants, twice, contested, faults>>

(* RegisterBegin and RegisterFinish of a passkey, for the bearer of tokens.*)
RegisterPasskey(u) ==
  /\ HasTokens(u) /\ u \notin passkeys
  /\ passkeys' = passkeys \union {u}
  /\ UNCHANGED <<kvVars, consent, scopes, history, procVars, bounds>>

(* setAuthRequestUser: read the record, write it with the user set.        *)
SetRead(p) ==
  /\ pc[p] = "setRead"
  /\ IF req[p] \in stored THEN ReadThen(p, "setWrite") ELSE Done(p)
  /\ UNCHANGED <<kvVars, d1Vars, scopes, history, bounds>>

WithUser(p) == [buf[p] EXCEPT !.user = who[p]]

SetWrite(p) ==
  /\ pc[p] = "setWrite"
  /\ Put(req[p], WithUser(p))
  /\ Goto(p, "reread") /\ buf' = [buf EXCEPT ![p] = Blank]
  /\ UNCHANGED <<req, who, how, mem>>
  /\ UNCHANGED <<d1Vars, scopes, history, bounds>>

Reread(p) ==
  /\ pc[p] = "reread"
  /\ IF req[p] \in stored THEN Continue(p, "scopes") ELSE Done(p)
  /\ UNCHANGED <<kvVars, d1Vars, scopes, history, bounds>>

(* Consent that is missing is asked for; the card changes nothing.         *)
CheckScopes(p) ==
  /\ pc[p] = "scopes"
  /\ IF Consented(who[p], req[p]) THEN Continue(p, "finRead") ELSE Done(p)
  /\ UNCHANGED <<kvVars, d1Vars, scopes, history, bounds>>

(* Mutant of BeginConsent: a card finishes the request as a passkey would. *)
BeginConsentAsPasskey(p) ==
  /\ \E r \in Req : Made(r) /\ Start(p, "approve", r, NoUser, "webauthn") /\ Posted(r)
  /\ UNCHANGED <<kvVars, d1Vars, scopes, drawn, proved, grants, twice, contested, faults>>

(* The consent card is approved (denying it changes nothing), whether or   *)
(* not somebody logged in on the request.                                  *)
BeginConsent(p) ==
  /\ \E r \in Req : Made(r) /\ Start(p, "approve", r, NoUser, "pwd") /\ Posted(r)
  /\ UNCHANGED <<kvVars, d1Vars, scopes, drawn, proved, grants, twice, contested, faults>>

(* Mutant of Approve: the consent of an empty subject is remembered too.   *)
ApproveAnybody(p) ==
  /\ pc[p] = "approve"
  /\ IF req[p] \in stored
       THEN /\ Goto(p, "mergeRead")
            /\ who' = [who EXCEPT ![p] = kv[req[p]].user]
            /\ UNCHANGED <<req, how, buf, mem>>
       ELSE Continue(p, "finRead")
  /\ UNCHANGED <<kvVars, d1Vars, scopes, history, bounds>>

(* The subject whose consent is remembered, if the request has one.        *)
Approve(p) ==
  /\ pc[p] = "approve"
  /\ IF req[p] \in stored /\ kv[req[p]].user # NoUser
       THEN /\ Goto(p, "mergeRead")
            /\ who' = [who EXCEPT ![p] = kv[req[p]].user]
            /\ UNCHANGED <<req, how, buf, mem>>
       ELSE Continue(p, "finRead")
  /\ UNCHANGED <<kvVars, d1Vars, scopes, history, bounds>>

(* saveConsent: read, merge, upsert.                                       *)
MergeRead(p) ==
  /\ pc[p] = "mergeRead"
  /\ Goto(p, "mergeWrite")
  /\ mem' = [mem EXCEPT ![p] = consent[who[p]]]
  /\ UNCHANGED <<kvVars, d1Vars, scopes, history, req, who, how, buf, bounds>>

MergeWrite(p) ==
  /\ pc[p] = "mergeWrite"
  /\ consent' = [consent EXCEPT ![who[p]] = mem[p] \union scopes[req[p]]]
  /\ Goto(p, "finRead") /\ mem' = [mem EXCEPT ![p] = {}]
  /\ UNCHANGED <<req, who, how, buf>>
  /\ UNCHANGED <<kvVars, passkeys, scopes, history, bounds>>

(* finishAuthRequestAMR: read the record, write it back finished.          *)
FinRead(p) ==
  /\ pc[p] = "finRead"
  /\ IF req[p] \in stored THEN ReadThen(p, "finWrite") ELSE Done(p)
  /\ UNCHANGED <<kvVars, d1Vars, scopes, history, bounds>>

FinWrite(p) ==
  /\ pc[p] = "finWrite"
  /\ Put(req[p], [buf[p] EXCEPT !.done = TRUE, !.amr = how[p]])
  /\ Done(p)
  /\ UNCHANGED <<d1Vars, scopes, history, bounds>>

----------------------------------------------------------------------------
(* The library's callback, for a finished request only, then SaveAuthCode  *)
(* (as a bound, nothing once the model has no code left).                  *)
BeginCallback(p) ==
  /\ \E r \in stored : kv[r].done /\ Start(p, "saveCode", r, NoUser, "pwd")
  /\ UNCHANGED <<kvVars, d1Vars, scopes, history, faults>>

SaveCode(p) ==
  /\ pc[p] = "saveCode"
  /\ \/ drawn = Code /\ UNCHANGED <<codes, drawn>>
     \/ \E c \in Code \ drawn : /\ codes' = [codes EXCEPT ![c] = req[p]]
                                /\ drawn' = drawn \union {c}
  /\ Done(p)
  /\ UNCHANGED <<stored, kv, d1Vars, scopes, proved, agreed, early, grants, twice,
                 contested, bounds>>

(* AuthRequestByCode: the code, then the request.                          *)
BeginExchange(p) ==
  /\ \E c \in Code : codes[c] # NoReq /\ Start(p, "exRead", codes[c], NoUser, "pwd")
  /\ UNCHANGED <<kvVars, d1Vars, scopes, history, faults>>

ExRead(p) ==
  /\ pc[p] = "exRead"
  /\ \/ req[p] \notin stored /\ Done(p) /\ UNCHANGED contested
     \/ /\ req[p] \in stored /\ ReadThen(p, "mint")
        /\ contested' = IF \E q \in Proc : pc[q] = "mint" /\ req[q] = req[p]
                          THEN contested \union {req[p]} ELSE contested
  /\ UNCHANGED <<kvVars, d1Vars, scopes, drawn, proved, agreed, early, grants, twice, bounds>>

(* Mutant of DeleteAuthRequest: the request is left to its lifetime.       *)
KeepAuthRequest(p) ==
  /\ pc[p] = "mint"
  /\ UNCHANGED <<kvVars, contested>>

(* DeleteAuthRequest, after the calls that make the tokens (they leave no  *)
(* trace here).                                                            *)
DeleteAuthRequest(p) ==
  /\ pc[p] = "mint"
  /\ Remove(req[p])
  /\ contested' = IF \E q \in Proc : pc[q] \in {"setWrite", "finWrite"} /\ req[q] = req[p]
                    THEN contested \union {req[p]} ELSE contested

(* GetAMR: nothing for a request that is not done.                         *)
Amr(rec) == IF rec.done THEN rec.amr ELSE "none"

Deliver(p) ==
  /\ grants' = grants \union {<<req[p], buf[p].user, Amr(buf[p])>>}
  /\ twice' = IF \E g \in grants : g[1] = req[p] THEN twice \union {req[p]} ELSE twice

(* An id token cannot be made for a subject that no user has (setUserinfo):*)
(* an exchange that needs one is refused, and the request stays.           *)
RefuseNobody(p) ==
  /\ pc[p] = "mint" /\ buf[p].user = NoUser
  /\ Done(p)
  /\ UNCHANGED <<kvVars, d1Vars, scopes, history, bounds>>

Exchange(p) ==
  /\ DeleteAuthRequest(p)
  /\ Deliver(p)
  /\ Done(p)
  /\ UNCHANGED <<d1Vars, scopes, drawn, proved, agreed, early, bounds>>

----------------------------------------------------------------------------
(* A call fails or the process dies there.  The consent handler ignores    *)
(* everything that goes wrong before it finishes the request; consent that *)
(* cannot be read is asked for.                                            *)
Fail(p) ==
  /\ pc[p] # "idle" /\ Fault
  /\ \/ Done(p)
     \/ pc[p] \in {"approve", "mergeRead", "mergeWrite"} /\ Continue(p, "finRead")
  /\ UNCHANGED <<kvVars, d1Vars, scopes, history>>

(* The request is deleted and no tokens arrive.  (Any other write whose    *)
(* answer is lost is that write and then Fail.)                            *)
LoseAnswer(p) ==
  /\ Fault
  /\ DeleteAuthRequest(p)
  /\ Done(p)
  /\ UNCHANGED <<d1Vars, scopes, drawn, proved, agreed, early, grants, twice>>

(* Lifetimes in KV run out.                                                *)
RequestExpires(r) ==
  /\ r \in stored
  /\ Remove(r)
  /\ UNCHANGED <<d1Vars, scopes, history, procVars, bounds>>

CodeExpires(c) ==
  /\ codes[c] # NoReq
  /\ codes' = [codes EXCEPT ![c] = NoReq]
  /\ UNCHANGED <<stored, kv, d1Vars, scopes, history, procVars, bounds>>

Next ==
  \/ \E r \in Req : Authorize(r) \/ RequestExpires(r)
  \/ \E u \in User : RegisterPasskey(u)
  \/ \E p \in Proc :
       \/ BeginPassword(p) \/ BeginPasskey(p) \/ BeginConsent(p)
       \/ BeginCallback(p) \/ BeginExchange(p)
       \/ SetRead(p) \/ SetWrite(p) \/ Reread(p) \/ CheckScopes(p)
       \/ Approve(p) \/ MergeRead(p) \/ MergeWrite(p)
       \/ FinRead(p) \/ FinWrite(p) \/ SaveCode(p) \/ ExRead(p)
       \/ RefuseNobody(p) \/ Exchange(p) \/ Fail(p) \/ LoseAnswer(p)
  \/ \E c \in Code : CodeExpires(c)

Spec == Init /\ [][Next]_vars

----------------------------------------------------------------------------
TypeOK ==
  /\ stored \subseteq Req /\ kv \in [Req -> Record]
  /\ codes \in [Code -> Req \union {NoReq}]
  /\ passkeys \subseteq User /\ consent \in [User -> SUBSET Scope]
  /\ scopes \in [Req -> SUBSET Scope] /\ drawn \subseteq Code
  /\ proved \subseteq Req \X User \X (Method \union {"hint"})
  /\ agreed \subseteq Req \X User /\ early \subseteq Req
  /\ grants \subseteq Req \X (User \union {NoUser}) \X (Method \union {"none"})
  /\ twice \subseteq Req /\ contested \subseteq Req
  /\ pc \in [Proc -> PC] /\ req \in [Proc -> Req \union {NoReq}]
  /\ who \in [Proc -> User \union {NoUser}] /\ how \in [Proc -> Method]
  /\ buf \in [Proc -> Record] /\ mem \in [Proc -> SUBSET Scope]
  /\ begun \in Nat /\ faults \in Nat
  /\ \A p \in Proc : pc[p] \in Serving => who[p] # NoUser

AgreedScopes(u) == {s \in Scope : \E r \in Req : <<r, u>> \in agreed /\ s \in scopes[r]}

(* Nobody else ever logged in on a request of his.                         *)
Alone(u) == \A r \in Req, v \in User : LoggedIn(u, r) /\ LoggedIn(v, r) => u = v

(* Nor was the card of one posted while it named nobody.                   *)
Undisturbed(u) == Alone(u) /\ \A r \in early : ~LoggedIn(u, r)

(* What a finished request vouches for, and what tokens carry.             *)
Vouched == {<<r, kv[r].user, kv[r].amr>> : r \in {q \in Req : kv[q].done}} \union grants

(* Whom a finished request or tokens name proved, on that very request,    *)
(* who he is, whatever overlapping handlers write back over each other;    *)
(* they name nobody only when a consent card was posted while the request  *)
(* named nobody (login.go:194-199 lets that pass).                         *)
SubjectProved ==
  \A v \in Vouched : IF v[2] = NoUser THEN v[1] \in early ELSE LoggedIn(v[2], v[1])

(* Tokens that name a user carry only scopes that he approved, then or     *)
(* earlier, unless somebody else logged in on one of his requests or a     *)
(* card was posted there while it named nobody.                            *)
ScopesAgreed ==
  \A v \in Vouched :
    v[2] # NoUser /\ Undisturbed(v[2]) => scopes[v[1]] \subseteq AgreedScopes(v[2])

ShownOn(r) == \E u \in User : <<r, u, "webauthn">> \in proved

(* models.go:44-46, where it holds: tokens say "webauthn" only after a     *)
(* passkey was shown on that request, and by the user they name unless     *)
(* somebody else logged in there too.  ("pwd" they also say after a        *)
(* passkey and a consent card.)                                            *)
PasskeyShown ==
  \A v \in Vouched :
    v[3] = "webauthn" =>
      /\ ShownOn(v[1])
      /\ v[2] # NoUser /\ Alone(v[2]) => <<v[1], v[2], "webauthn">> \in proved

(* storage.go:227-228, where it holds: deleting the request stops all of   *)
(* its codes, unless two exchanges overlap or a login page writes the      *)
(* request back.                                                           *)
GrantedOnce == twice \subseteq contested

----------------------------------------------------------------------------
(* The inductive invariant: what the record of a request and the handlers  *)
(* at work on it may rely on.                                              *)
AtWork(r, where) == \E p \in Proc : req[p] = r /\ pc[p] \in where

(* A handler, a code or tokens stand for a request that was made.          *)
Begun ==
  /\ \A r \in Req :
       \/ r \in stored
       \/ AtWork(r, PC \ {"idle"})
       \/ \E c \in Code : codes[c] = r
       \/ \E g \in grants : g[1] = r
       => Made(r)
  /\ \A p \in Proc : pc[p] # "idle" => req[p] \in Req

(* A record cannot lose its subject once anybody relies on it, unless a    *)
(* card was posted early.                                                  *)
SubjectKept ==
  /\ \A r \in stored \ early :
       \/ kv[r].done
       \/ AtWork(r, PC \ {"idle", "setRead", "setWrite"})
       \/ \E c \in Code : codes[c] = r
       => kv[r].user # NoUser
  /\ \A r \in Req \ stored : kv[r] = Blank
  /\ \A p \in Proc :
       pc[p] \in {"finWrite", "mint"} /\ buf[p].user = NoUser => req[p] \in early
  /\ \A g \in grants : g[2] = NoUser => g[1] \in early

(* Whoever is named for a request logged in on it.                         *)
Named(u, r) ==
  \/ kv[r].user = u
  \/ <<r, u>> \in agreed
  \/ \E g \in grants : g[1] = r /\ g[2] = u
  \/ \E p \in Proc :
       /\ req[p] = r
       /\ \/ pc[p] \in Serving /\ who[p] = u
          \/ pc[p] \in {"setWrite", "finWrite", "mint"} /\ buf[p].user = u

NamedLoggedIn == \A r \in Req, u \in User : Named(u, r) => LoggedIn(u, r)

(* Somebody who logged in on r agreed to its scopes.                       *)
Settled(r) ==
  \E u \in User : LoggedIn(u, r) /\ (Undisturbed(u) => scopes[r] \subseteq AgreedScopes(u))

Cleared(r) ==
  \/ kv[r].done
  \/ AtWork(r, {"approve", "mergeRead", "mergeWrite", "finRead", "finWrite", "saveCode",
                "exRead", "mint"})
  \/ \E p \in Proc : req[p] = r /\ pc[p] = "setWrite" /\ buf[p].done
  \/ \E c \in Code : codes[c] = r
  \/ \E g \in grants : g[1] = r

AgreedOn(r) == \E u \in User : <<r, u>> \in agreed

ConsentFounded ==
  /\ \A u \in User : Undisturbed(u) => consent[u] \subseteq AgreedScopes(u)
  /\ \A u \in User, p \in Proc :
       pc[p] = "mergeWrite" /\ who[p] = u /\ Undisturbed(u) => mem[p] \subseteq AgreedScopes(u)
  /\ \A r \in Req \ early :
       AtWork(r, {"approve", "mergeRead", "mergeWrite"}) => AgreedOn(r)

(* A request on its way to tokens is settled, unless a card was posted     *)
(* early.                                                                  *)
ClearedSettled == \A r \in Req \ early : Cleared(r) => Settled(r)

(* A record that says "webauthn" had a passkey shown for it.               *)
MarkedWebauthn(r) ==
  \/ kv[r].amr = "webauthn"
  \/ \E g \in grants : g[1] = r /\ g[3] = "webauthn"
  \/ \E p \in Proc :
       /\ req[p] = r
       /\ \/ pc[p] # "idle" /\ how[p] = "webauthn"
          \/ pc[p] \in {"setWrite", "finWrite", "mint"} /\ buf[p].amr = "webauthn"

MarkFounded == \A r \in Req : MarkedWebauthn(r) => ShownOn(r)

(* An uncontested request is exchanged by one handler, and gone after it.  *)
Spent ==
  /\ \A r \in Req \ contested, p, q \in Proc :
       pc[p] = "mint" /\ pc[q] = "mint" /\ req[p] = r /\ req[q] = r => p = q
  /\ \A g \in grants :
       g[1] \notin contested =>
         g[1] \notin stored /\ ~AtWork(g[1], {"setWrite", "finWrite", "mint"})

IInv ==
  /\ TypeOK /\ Begun /\ SubjectKept /\ NamedLoggedIn
  /\ ConsentFounded /\ ClearedSettled /\ MarkFounded /\ Spent /\ GrantedOnce
============================================================================
