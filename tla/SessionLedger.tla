--------------------------- MODULE SessionLedger ---------------------------
(***************************************************************************)
(* What refresh-token rotation promises, without requests, retries or      *)
(* clocks: a login has one current token; only a current token that can    *)
(* still be redeemed is exchanged, for one nobody has seen; a token becomes*)
(* redeemable at most once and never again after it was dropped.           *)
(***************************************************************************)
CONSTANTS Token, Session, NoToken

VARIABLES
  current,    \* the token a login ends in, NoToken before it begins
  spent,      \* tokens ever issued
  live,       \* tokens that can be redeemed
  dropped     \* tokens revoked, expired, burned or logged out

ledger == <<current, spent, live, dropped>>

Init ==
  /\ current = [s \in Session |-> NoToken]
  /\ spent = {} /\ live = {} /\ dropped = {}

Open(s, t) ==
  /\ current[s] = NoToken
  /\ t \notin spent
  /\ current' = [current EXCEPT ![s] = t]
  /\ spent' = spent \union {t}
  /\ UNCHANGED <<live, dropped>>

(* The predecessor stays live: duplicates of the redemption still find it. *)
Exchange(s, t) ==
  /\ current[s] \in live
  /\ t \notin spent
  /\ current' = [current EXCEPT ![s] = t]
  /\ spent' = spent \union {t}
  /\ UNCHANGED <<live, dropped>>

(* Only the end of a login becomes redeemable.                             *)
Persist(s) ==
  /\ current[s] \in spent \ (live \union dropped)
  /\ live' = live \union {current[s]}
  /\ UNCHANGED <<current, spent, dropped>>

Drop(ts) ==
  /\ live' = live \ ts
  /\ dropped' = dropped \union ts
  /\ UNCHANGED <<current, spent>>

Next ==
  \/ \E s \in Session, t \in Token : Open(s, t) \/ Exchange(s, t)
  \/ \E s \in Session : Persist(s)
  \/ \E ts \in SUBSET live : Drop(ts)

Spec == Init /\ [][Next]_ledger
============================================================================
