-------------------------- MODULE RefreshRotation --------------------------
(***************************************************************************)
(* Refresh-token rotation of the OIDC storage (internal/oidc/storage.go).  *)
(*                                                                         *)
(* The module models the oidc_refresh_token rows of one user at one client *)
(* (no statement ever touches the rows of two), the requests that redeem,  *)
(* grant, revoke and log out concurrently, and the clients that keep what  *)
(* they were handed.  A request is a process; one action is one call to D1 *)
(* or KV together with the in-memory code up to the next call, so other    *)
(* requests run between any two calls.  A call may fail and a request may  *)
(* die at any of them (Fail), or its answer may be lost (Return).          *)
(*                                                                         *)
(* Access tokens are not tracked: nothing here reads them back, so the KV  *)
(* put of one is a step that may fail.                                     *)
(***************************************************************************)
EXTENDS Integers

CONSTANTS
  Token,      \* refresh-token values (uuids; a row's id is its token)
  Session,    \* logins: the chain of tokens one code grant starts
  Proc,       \* concurrent HTTP requests
  NoToken, NoSession,
  Grace,      \* refreshRotationGrace, in clock ticks
  TTL,        \* refreshTTL, in clock ticks
  MaxTime,    \* bound: the clock stops here
  MaxFaults   \* bound: failed calls, crashes and lost answers

ASSUME TimesAssumption ==
  Grace \in Nat /\ TTL \in Nat /\ MaxTime \in Nat /\ MaxFaults \in Nat
ASSUME NullAssumption == NoToken \notin Token /\ NoSession \notin Session

VARIABLES
  rows,       \* tokens that have a row in oidc_refresh_token
  sup,        \* column superseded_by (kept for a deleted row)
  supAt,      \* column superseded_at
  exp,        \* column expiration
  sess,       \* history: the login a token descends from; NoSession = never issued
  gone,       \* history: tokens whose row was deleted
  dead,       \* history: logins a logout found with nothing in flight
  answers,    \* history: <<presented, returned>> pairs clients received
  pc, tok, new,  \* a request: where it is, the token presented, the token it will return
  now, faults

dbVars == <<rows, sup, supAt, exp, sess, gone>>
vars == <<rows, sup, supAt, exp, sess, gone, dead, answers, pc, tok, new, now, faults>>

Reserved == {"lookup", "rotate", "claim"}
Won      == {"mint", "insert"}
Refused  == {"invalid", "expired", "reuse", "failed"}
PC == {"idle", "reread", "mintSucc", "expire", "burnSucc", "burnSelf", "ok"}
        \union Reserved \union Won \union Refused

----------------------------------------------------------------------------
Issued(t) == sess[t] # NoSession

(* A row that no rotation has claimed, and one that was claimed.           *)
Unclaimed(t)  == t \in rows /\ sup[t] = NoToken
Superseded(t) == t \in rows /\ sup[t] # NoToken

(* A uuid nothing has seen yet: uuid.NewString never repeats.              *)
Fresh(n) == n \in Token /\ ~Issued(n) /\ \A q \in Proc : new[q] # n

Handed(t) == \E a \in Token \union {NoToken} : <<a, t>> \in answers

(* DELETE FROM oidc_refresh_token WHERE id IN ts.                          *)
DeleteRows(ts) == /\ rows' = rows \ ts
                  /\ gone' = gone \union (rows \intersect ts)

Goto(p, l) == pc' = [pc EXCEPT ![p] = l]

Init ==
  /\ rows = {} /\ gone = {} /\ dead = {} /\ answers = {}
  /\ sup = [t \in Token |-> NoToken]
  /\ supAt = [t \in Token |-> 0]
  /\ exp = [t \in Token |-> 0]
  /\ sess = [t \in Token |-> NoSession]
  /\ pc = [p \in Proc |-> "idle"]
  /\ tok = [p \in Proc |-> NoToken]
  /\ new = [p \in Proc |-> NoToken]
  /\ now = 0 /\ faults = 0

----------------------------------------------------------------------------
(* A code grant with offline_access: CreateAccessAndRefreshTokens with no  *)
(* current token names a fresh refresh token; Mint and Insert follow.      *)
BeginGrant(p) ==
  /\ pc[p] = "idle"
  /\ \E s \in Session, n \in Token :
       /\ Fresh(n)
       /\ \A t \in Token : sess[t] # s
       /\ sess' = [sess EXCEPT ![n] = s]
       /\ new' = [new EXCEPT ![p] = n]
  /\ Goto(p, "mint")
  /\ UNCHANGED <<rows, sup, supAt, exp, gone, dead, answers, tok, now, faults>>

(* A client presents a token it was handed.  The uuid of line 565 is drawn *)
(* here; nothing reads it before the claim.                                *)
Begin(p) ==
  /\ pc[p] = "idle"
  /\ \E t, n \in Token :
       /\ Handed(t) /\ Fresh(n)
       /\ tok' = [tok EXCEPT ![p] = t]
       /\ new' = [new EXCEPT ![p] = n]
  /\ Goto(p, "lookup")
  /\ UNCHANGED <<dbVars, dead, answers, now, faults>>

(* TokenRequestByRefreshToken: the provider resolves the token first.      *)
Lookup(p) ==
  /\ pc[p] = "lookup"
  /\ Goto(p, IF tok[p] \in rows THEN "rotate" ELSE "invalid")
  /\ UNCHANGED <<dbVars, dead, answers, tok, new, now, faults>>

(* rotateRefreshToken reads the row and picks its branch on that snapshot. *)
Read(p) ==
  LET t == tok[p]
      expired == exp[t] < now
      inGrace == now - supAt[t] <= Grace
  IN
  /\ pc[p] = "rotate"
  /\ \/ t \notin rows /\ Goto(p, "invalid") /\ UNCHANGED new
     \/ t \in rows /\ expired /\ Goto(p, "expire") /\ UNCHANGED new
     \/ Unclaimed(t) /\ ~expired /\ Goto(p, "claim") /\ UNCHANGED new
     \/ /\ Superseded(t) /\ ~expired
        /\ Goto(p, IF inGrace THEN "mintSucc" ELSE "burnSucc")
        /\ new' = [new EXCEPT ![p] = sup[t]]
  /\ UNCHANGED <<dbVars, dead, answers, tok, now, faults>>

(* DELETE of the expired row; its error is ignored.                        *)
Expire(p) ==
  /\ pc[p] = "expire"
  /\ DeleteRows({tok[p]})
  /\ Goto(p, "expired")
  /\ UNCHANGED <<sup, supAt, exp, sess, dead, answers, tok, new, now, faults>>

(* The effect of the UPDATE on the row it matched; the successor joins the *)
(* login.                                                                  *)
Supersede(p) ==
  /\ sup' = [sup EXCEPT ![tok[p]] = new[p]]
  /\ supAt' = [supAt EXCEPT ![tok[p]] = now]
  /\ sess' = [sess EXCEPT ![new[p]] = sess[tok[p]]]
  /\ Goto(p, "mint")

(* Mutants of Claim: the WHERE without its superseded_by guard; the loser  *)
(* refused at once; the predecessor's row deleted, as before 0008.         *)
ClaimUnguarded(p) ==
  /\ pc[p] = "claim"
  /\ IF tok[p] \in rows THEN Supersede(p)
       ELSE Goto(p, "reread") /\ UNCHANGED <<sup, supAt, sess>>
  /\ UNCHANGED <<rows, exp, gone, dead, answers, tok, new, now, faults>>

ClaimLostRefused(p) ==
  /\ pc[p] = "claim"
  /\ IF Unclaimed(tok[p]) THEN Supersede(p)
       ELSE Goto(p, "invalid") /\ UNCHANGED <<sup, supAt, sess>>
  /\ UNCHANGED <<rows, exp, gone, dead, answers, tok, new, now, faults>>

ClaimDeletes(p) ==
  /\ pc[p] = "claim"
  /\ IF Unclaimed(tok[p]) THEN Supersede(p) /\ DeleteRows({tok[p]})
       ELSE Goto(p, "reread") /\ UNCHANGED <<sup, supAt, sess, rows, gone>>
  /\ UNCHANGED <<exp, dead, answers, tok, new, now, faults>>

(* claimRotation: UPDATE ... WHERE id AND superseded_by IS NULL RETURNING. *)
Claim(p) ==
  /\ pc[p] = "claim"
  /\ IF Unclaimed(tok[p]) THEN Supersede(p)
       ELSE Goto(p, "reread") /\ UNCHANGED <<sup, supAt, sess>>
  /\ UNCHANGED <<rows, exp, gone, dead, answers, tok, new, now, faults>>

(* Mutants of Reread: claim again until it works; return one's own uuid.   *)
RereadRetries(p) ==
  /\ pc[p] = "reread"
  /\ Goto(p, IF Superseded(tok[p]) THEN "mintSucc" ELSE "claim")
  /\ new' = [new EXCEPT ![p] = IF Superseded(tok[p]) THEN sup[tok[p]] ELSE @]
  /\ UNCHANGED <<dbVars, dead, answers, tok, now, faults>>

RereadKeepsOwn(p) ==
  /\ pc[p] = "reread"
  /\ Goto(p, IF Superseded(tok[p]) THEN "mintSucc" ELSE "invalid")
  /\ UNCHANGED <<dbVars, dead, answers, tok, new, now, faults>>

(* Lost the race: read again and take the winner's successor.              *)
Reread(p) ==
  /\ pc[p] = "reread"
  /\ Goto(p, IF Superseded(tok[p]) THEN "mintSucc" ELSE "invalid")
  /\ new' = [new EXCEPT ![p] = IF Superseded(tok[p]) THEN sup[tok[p]] ELSE @]
  /\ UNCHANGED <<dbVars, dead, answers, tok, now, faults>>

(* accessToken: the KV put, for a successor already claimed or for ours.   *)
MintForSuccessor(p) ==
  /\ pc[p] = "mintSucc"
  /\ Goto(p, "ok")
  /\ UNCHANGED <<dbVars, dead, answers, tok, new, now, faults>>

Mint(p) ==
  /\ pc[p] = "mint"
  /\ Goto(p, "insert")
  /\ UNCHANGED <<dbVars, dead, answers, tok, new, now, faults>>

(* Mutants of Insert: the row is never written; its expiration lies in the*)
(* past.                                                                   *)
InsertSkipped(p) ==
  /\ pc[p] = "insert"
  /\ Goto(p, "ok")
  /\ UNCHANGED <<dbVars, dead, answers, tok, new, now, faults>>

InsertExpired(p) ==
  /\ pc[p] = "insert"
  /\ rows' = rows \union {new[p]}
  /\ exp' = [exp EXCEPT ![new[p]] = now - TTL]
  /\ Goto(p, "ok")
  /\ UNCHANGED <<sup, supAt, sess, gone, dead, answers, tok, new, now, faults>>

(* insertRefreshToken, of a grant's first token (createRefreshToken) or of *)
(* a winner's successor (the end of rotateRefreshToken).                   *)
Insert(p) ==
  /\ pc[p] = "insert"
  /\ rows' = rows \union {new[p]}
  /\ exp' = [exp EXCEPT ![new[p]] = now + TTL]
  /\ Goto(p, "ok")
  /\ UNCHANGED <<sup, supAt, sess, gone, dead, answers, tok, new, now, faults>>

(* revokeRefreshChain: the known successor's row, then the token's own.    *)
BurnSuccessor(p) ==
  /\ pc[p] = "burnSucc"
  /\ DeleteRows({new[p]})
  /\ Goto(p, "burnSelf")
  /\ UNCHANGED <<sup, supAt, exp, sess, dead, answers, tok, new, now, faults>>

BurnSelf(p) ==
  /\ pc[p] = "burnSelf"
  /\ DeleteRows({tok[p]})
  /\ Goto(p, "reuse")
  /\ UNCHANGED <<sup, supAt, exp, sess, dead, answers, tok, new, now, faults>>

----------------------------------------------------------------------------
(* A call fails, or the request dies there.  The deletes of a burn and of  *)
(* an expired row ignore their error and go on.                            *)
AfterFailure(l) ==
  IF l = "burnSucc" THEN "burnSelf"
  ELSE IF l = "burnSelf" THEN "reuse"
  ELSE IF l = "expire" THEN "expired"
  ELSE IF l \in {"lookup", "reread"} THEN "invalid"
  ELSE "failed"

Fail(p) ==
  /\ faults < MaxFaults
  /\ pc[p] \notin {"idle", "ok"} \union Refused
  /\ Goto(p, AfterFailure(pc[p]))
  /\ faults' = faults + 1
  /\ UNCHANGED <<dbVars, dead, answers, tok, new, now>>

(* The response reaches the client, which keeps the token it carries.      *)
Return(p) ==
  /\ pc[p] \in {"ok"} \union Refused
  /\ \/ /\ answers' = IF pc[p] = "ok" THEN answers \union {<<tok[p], new[p]>>} ELSE answers
        /\ UNCHANGED faults
     \/ /\ pc[p] = "ok" /\ faults < MaxFaults
        /\ faults' = faults + 1 /\ UNCHANGED answers
  /\ Goto(p, "idle")
  /\ tok' = [tok EXCEPT ![p] = NoToken]
  /\ new' = [new EXCEPT ![p] = NoToken]
  /\ UNCHANGED <<dbVars, dead, now>>

(* RevokeToken on a refresh token deletes that row.                        *)
RevokeToken ==
  /\ \E t \in rows : Handed(t) /\ DeleteRows({t})
  /\ UNCHANGED <<sup, supAt, exp, sess, dead, answers, pc, tok, new, now, faults>>

InFlight(s) == \E p \in Proc : pc[p] \in Won /\ sess[new[p]] = s

(* Logins a logout now would end for good: begun, nothing to insert.       *)
Quiet(s) == (\E t \in Token : sess[t] = s) /\ ~InFlight(s)

(* Mutant: the logout keeps the rows of superseded tokens.                 *)
TerminateTipsOnly ==
  /\ DeleteRows({t \in rows : sup[t] = NoToken})
  /\ dead' = dead \union {s \in Session : Quiet(s)}
  /\ UNCHANGED <<sup, supAt, exp, sess, answers, pc, tok, new, now, faults>>

(* TerminateSession deletes every row of the user at the client.  Logins   *)
(* begun before it with no unfinished insert are over (history: dead).     *)
TerminateSession ==
  /\ DeleteRows(rows)
  /\ dead' = dead \union {s \in Session : Quiet(s)}
  /\ UNCHANGED <<sup, supAt, exp, sess, answers, pc, tok, new, now, faults>>

Tick ==
  /\ now < MaxTime
  /\ now' = now + 1
  /\ UNCHANGED <<dbVars, dead, answers, pc, tok, new, faults>>

Step(p) ==
  \/ Lookup(p) \/ Read(p) \/ Expire(p) \/ Claim(p) \/ Reread(p)
  \/ MintForSuccessor(p) \/ Mint(p) \/ Insert(p)
  \/ BurnSuccessor(p) \/ BurnSelf(p) \/ Return(p)

Next ==
  \/ \E p \in Proc : BeginGrant(p) \/ Begin(p) \/ Step(p) \/ Fail(p)
  \/ RevokeToken \/ TerminateSession \/ Tick

Spec == Init /\ [][Next]_vars

(* A request that has begun keeps being scheduled; nobody must begin one.  *)
Scheduled(p) == WF_vars(Step(p))
FairSpec == Spec /\ \A p \in Proc : Scheduled(p)

(* A request waits for nobody: wherever it is, its next call can be made.  *)
CanGoOn == \A p \in Proc : pc[p] # "idle" => ENABLED <<Step(p)>>_vars

----------------------------------------------------------------------------
TypeOK ==
  /\ rows \subseteq Token /\ gone \subseteq Token /\ dead \subseteq Session
  /\ sup \in [Token -> Token \union {NoToken}]
  /\ supAt \in [Token -> Nat]
  /\ exp \in [Token -> Nat]
  /\ sess \in [Token -> Session \union {NoSession}]
  /\ answers \subseteq (Token \union {NoToken}) \X Token
  /\ pc \in [Proc -> PC]
  /\ tok \in [Proc -> Token \union {NoToken}]
  /\ new \in [Proc -> Token \union {NoToken}]
  /\ now \in Nat /\ faults \in Nat

(* The head of a chain: issued and not superseded.                         *)
Tip(t) == Issued(t) /\ sup[t] = NoToken

(* A login never forks: however redemptions interleave, fail and retry, at *)
(* most one token of a login can still be rotated.                         *)
OneTip == \A t, u \in Token : Tip(t) /\ Tip(u) /\ sess[t] = sess[u] => t = u

(* Whoever redeems a token, first, concurrently or as a retry, is handed   *)
(* the same successor.                                                     *)
SameAnswer ==
  \A a \in Token, b, c \in Token : <<a, b>> \in answers /\ <<a, c>> \in answers => b = c

(* A logout that finds no rotation between its claim and its insert is     *)
(* final: no redemption that was already running brings a row back.        *)
QuietLogoutIsFinal == \A t \in rows : sess[t] \notin dead

(* superseded_by is written once, and superseded_at with it: a retry can   *)
(* neither redirect a chain nor restart its grace window.                  *)
SupersededForGood ==
  [][\A t \in Token : sup[t] # NoToken => sup'[t] = sup[t] /\ supAt'[t] = supAt[t]]_vars

(* The spurious sign-out the grace window exists for (storage.go:526-531): *)
(* while its calls succeed a request is told "invalid" only when its token *)
(* has no row, never because it lost a race for a token that has one.      *)
LiveTokenNotRefused ==
  [][\A p \in Proc : pc'[p] = "invalid" /\ pc[p] # "invalid" /\ faults' = faults
                       => tok[p] \notin rows]_vars

(* The parts of the inductive invariant that the proofs use.               *)
IdleHoldsNothing ==
  \A p \in Proc : pc[p] = "idle" => tok[p] = NoToken /\ new[p] = NoToken

ReservedIsFresh ==
  \A p \in Proc : pc[p] \in Reserved =>
    /\ tok[p] \in Token /\ new[p] \in Token /\ ~Issued(new[p])
    /\ \A q \in Proc : new[q] = new[p] => q = p

UnissuedIsBlank ==
  \A t \in Token : ~Issued(t) =>
    /\ t \notin rows \union gone /\ sup[t] = NoToken
    /\ \A u \in Token : sup[u] # t

WonIsPending ==
  \A p \in Proc : pc[p] \in Won =>
    /\ new[p] \in Token /\ Tip(new[p]) /\ new[p] \notin rows \union gone
    /\ \A q \in Proc : pc[q] \in Won /\ new[q] = new[p] => q = p

ReturnsSuccessor ==
  /\ \A p \in Proc : pc[p] \in Won \union {"mintSucc", "ok"} =>
       new[p] \in Token /\ (tok[p] \in Token => new[p] = sup[tok[p]])
  /\ \A a \in Token, b \in Token : <<a, b>> \in answers => b = sup[a]

LoserIsSettled ==
  \A p \in Proc :
    /\ pc[p] \in {"claim", "reread"} => tok[p] \in rows \union gone
    /\ pc[p] = "reread" => ~Unclaimed(tok[p])

DeadIsOver ==
  \A s \in dead : Quiet(s) /\ \A t \in rows : sess[t] # s

IInv ==
  /\ TypeOK /\ IdleHoldsNothing /\ ReservedIsFresh /\ UnissuedIsBlank
  /\ WonIsPending /\ ReturnsSuccessor /\ LoserIsSettled /\ DeadIsOver
  /\ OneTip

(* The implementation mapping: the rows are what is live, a claimed or     *)
(* granted token is spent, and a login's current token is its tip.         *)
CurrentToken(s) ==
  IF \E t \in Token : Tip(t) /\ sess[t] = s
    THEN CHOOSE t \in Token : Tip(t) /\ sess[t] = s
    ELSE NoToken

Ledger == INSTANCE SessionLedger WITH
  current <- [s \in Session |-> CurrentToken(s)],
  spent   <- {t \in Token : Issued(t)},
  live    <- rows,
  dropped <- gone

(* Every interleaving of requests looks like the ledger.                   *)
ImplementsLedger == Ledger!Spec

(* Liveness: every request is answered.                                    *)
EveryRequestAnswered == \A p \in Proc : pc[p] # "idle" ~> pc[p] = "idle"

(* A token handed to a client gets its row, even one handed to a loser     *)
(* before the winner's insert, unless a call failed.                       *)
HandedGetsARow == \A t \in Token : Handed(t) ~> (t \in rows \union gone \/ faults > 0)

----------------------------------------------------------------------------
(* What a comment says and the code does not do (the violation run).       *)

(* storage.go:539 "revokes the chain": after a reuse was detected, and no  *)
(* call failed, no later token of that login has a row (the immediate      *)
(* successor is left aside: a slow winner may insert it after the burn).   *)
ReuseRevokesTheChain ==
  \A p \in Proc : pc[p] = "reuse" /\ faults = 0
    => \A t \in rows : sess[t] = sess[tok[p]] => t = sup[tok[p]]
============================================================================
