----------------------- MODULE RefreshRotationProofs -----------------------
(***************************************************************************)
(* Proofs about RefreshRotation for every set of tokens, logins and        *)
(* requests, every grace window and every number of faults.  The inductive *)
(* invariant IInv says what each request may rely on between two calls:    *)
(* a drawn uuid is still unseen, a won claim is still pending, a lost one  *)
(* is settled, and whatever is about to be returned is the successor that  *)
(* superseded_by names.  The last section proves what happens in the end:  *)
(* a request makes boundedly many calls, so it is answered, and a claim    *)
(* that was won is inserted unless a call fails.                           *)
(***************************************************************************)
EXTENDS RefreshRotation, TLAPS

(* The empty table satisfies the invariant.                                *)
LEMMA InitIInv == Init => IInv
<1> SUFFICES ASSUME Init PROVE IInv
  OBVIOUS
<1> QED
  BY TimesAssumption, NullAssumption
  DEF Init, IInv, TypeOK, PC, IdleHoldsNothing, ReservedIsFresh, UnissuedIsBlank,
      WonIsPending, ReturnsSuccessor, LoserIsSettled, DeadIsOver, OneTip, Tip, Issued,
      Unclaimed, Reserved, Won, Refused

(* Every call of every request preserves it.                               *)
LEMMA NextIInv == IInv /\ [Next]_vars => IInv'
<1> SUFFICES ASSUME IInv, [Next]_vars PROVE IInv'
  OBVIOUS
<1> USE TimesAssumption, NullAssumption
    DEF IInv, PC, Reserved, Won, Refused, Issued, Tip, Goto, dbVars
<1>1. ASSUME NEW p \in Proc, BeginGrant(p) PROVE IInv'
  <2> USE <1>1 DEF BeginGrant, Fresh
  <2>1. TypeOK' BY DEF TypeOK
  <2>2. IdleHoldsNothing' BY DEF IdleHoldsNothing, TypeOK
  <2>3. ReservedIsFresh' BY DEF ReservedIsFresh, TypeOK
  <2>4. UnissuedIsBlank' BY DEF UnissuedIsBlank, TypeOK
  <2>5. WonIsPending' BY DEF WonIsPending, TypeOK, UnissuedIsBlank
  <2>6. ReturnsSuccessor' BY DEF ReturnsSuccessor, TypeOK, IdleHoldsNothing
  <2>7. LoserIsSettled' BY DEF LoserIsSettled, TypeOK, Unclaimed
  <2>8. DeadIsOver' BY DEF DeadIsOver, TypeOK, Quiet, InFlight
  <2>9. OneTip' BY DEF OneTip, TypeOK
  <2> QED BY <2>1, <2>2, <2>3, <2>4, <2>5, <2>6, <2>7, <2>8, <2>9 DEF IInv
<1>2. ASSUME NEW p \in Proc, Begin(p) PROVE IInv'
  <2> USE <1>2 DEF Begin, Handed, Fresh
  <2>1. TypeOK' BY DEF TypeOK
  <2>2. IdleHoldsNothing' BY DEF IdleHoldsNothing, TypeOK
  <2>3. ReservedIsFresh' BY DEF ReservedIsFresh, TypeOK
  <2>4. UnissuedIsBlank' BY DEF UnissuedIsBlank, TypeOK
  <2>5. WonIsPending' BY DEF WonIsPending, TypeOK
  <2>6. ReturnsSuccessor' BY DEF ReturnsSuccessor, TypeOK
  <2>7. LoserIsSettled' BY DEF LoserIsSettled, TypeOK, Unclaimed
  <2>8. DeadIsOver' BY DEF DeadIsOver, TypeOK, Quiet, InFlight
  <2>9. OneTip' BY DEF OneTip, TypeOK
  <2> QED BY <2>1, <2>2, <2>3, <2>4, <2>5, <2>6, <2>7, <2>8, <2>9 DEF IInv
<1>3. ASSUME NEW p \in Proc, Lookup(p) PROVE IInv'
  <2> USE <1>3 DEF Lookup
  <2>1. TypeOK' BY DEF TypeOK
  <2>2. IdleHoldsNothing' BY DEF IdleHoldsNothing, TypeOK
  <2>3. ReservedIsFresh' BY DEF ReservedIsFresh, TypeOK
  <2>4. UnissuedIsBlank' BY DEF UnissuedIsBlank, TypeOK
  <2>5. WonIsPending' BY DEF WonIsPending, TypeOK
  <2>6. ReturnsSuccessor' BY DEF ReturnsSuccessor, TypeOK
  <2>7. LoserIsSettled' BY DEF LoserIsSettled, TypeOK, Unclaimed
  <2>8. DeadIsOver' BY DEF DeadIsOver, TypeOK, Quiet, InFlight
  <2>9. OneTip' BY DEF OneTip, TypeOK
  <2> QED BY <2>1, <2>2, <2>3, <2>4, <2>5, <2>6, <2>7, <2>8, <2>9 DEF IInv
<1>4. ASSUME NEW p \in Proc, Read(p) PROVE IInv'
  <2> USE <1>4 DEF Read, Unclaimed, Superseded
  <2>1. TypeOK' BY DEF TypeOK
  <2>2. IdleHoldsNothing' BY DEF IdleHoldsNothing, TypeOK
  <2>3. ReservedIsFresh' BY DEF ReservedIsFresh, TypeOK, UnissuedIsBlank
  <2>4. UnissuedIsBlank' BY DEF UnissuedIsBlank, TypeOK
  <2>5. WonIsPending' BY DEF WonIsPending, TypeOK
  <2>6. ReturnsSuccessor' BY DEF ReturnsSuccessor, TypeOK
  <2>7. LoserIsSettled' BY DEF LoserIsSettled, TypeOK
  <2>8. DeadIsOver' BY DEF DeadIsOver, TypeOK, Quiet, InFlight
  <2>9. OneTip' BY DEF OneTip, TypeOK
  <2> QED BY <2>1, <2>2, <2>3, <2>4, <2>5, <2>6, <2>7, <2>8, <2>9 DEF IInv
<1>5. ASSUME NEW p \in Proc, Expire(p) PROVE IInv'
  <2> USE <1>5 DEF Expire, DeleteRows
  <2>1. TypeOK' BY DEF TypeOK
  <2>2. IdleHoldsNothing' BY DEF IdleHoldsNothing, TypeOK
  <2>3. ReservedIsFresh' BY DEF ReservedIsFresh, TypeOK
  <2>4. UnissuedIsBlank' BY DEF UnissuedIsBlank, TypeOK
  <2>5. WonIsPending' BY DEF WonIsPending, TypeOK
  <2>6. ReturnsSuccessor' BY DEF ReturnsSuccessor, TypeOK
  <2>7. LoserIsSettled' BY DEF LoserIsSettled, TypeOK, Unclaimed
  <2>8. DeadIsOver' BY DEF DeadIsOver, TypeOK, Quiet, InFlight
  <2>9. OneTip' BY DEF OneTip, TypeOK
  <2> QED BY <2>1, <2>2, <2>3, <2>4, <2>5, <2>6, <2>7, <2>8, <2>9 DEF IInv
<1>6. ASSUME NEW p \in Proc, Claim(p) PROVE IInv'
  <2> USE <1>6 DEF Claim, Supersede, Unclaimed
  <2>1. TypeOK' BY DEF TypeOK
  <2>2. IdleHoldsNothing' BY DEF IdleHoldsNothing, TypeOK
  <2>3. ReservedIsFresh' BY DEF ReservedIsFresh, TypeOK
  <2>4. UnissuedIsBlank' BY DEF UnissuedIsBlank, TypeOK
  <2>5. WonIsPending' BY DEF WonIsPending, TypeOK, ReservedIsFresh, UnissuedIsBlank
  <2>6. ReturnsSuccessor' BY DEF ReturnsSuccessor, TypeOK, ReservedIsFresh
  <2>7. LoserIsSettled' BY DEF LoserIsSettled, TypeOK
  <2>8. DeadIsOver' BY DEF DeadIsOver, TypeOK, ReservedIsFresh, WonIsPending, Quiet, InFlight
  <2>9. OneTip' BY DEF OneTip, TypeOK
  <2> QED BY <2>1, <2>2, <2>3, <2>4, <2>5, <2>6, <2>7, <2>8, <2>9 DEF IInv
<1>7. ASSUME NEW p \in Proc, Reread(p) PROVE IInv'
  <2> USE <1>7 DEF Reread, Superseded
  <2>1. TypeOK' BY DEF TypeOK
  <2>2. IdleHoldsNothing' BY DEF IdleHoldsNothing, TypeOK
  <2>3. ReservedIsFresh' BY DEF ReservedIsFresh, TypeOK, UnissuedIsBlank
  <2>4. UnissuedIsBlank' BY DEF UnissuedIsBlank, TypeOK
  <2>5. WonIsPending' BY DEF WonIsPending, TypeOK
  <2>6. ReturnsSuccessor' BY DEF ReturnsSuccessor, TypeOK
  <2>7. LoserIsSettled' BY DEF LoserIsSettled, TypeOK, Unclaimed
  <2>8. DeadIsOver' BY DEF DeadIsOver, TypeOK, Quiet, InFlight
  <2>9. OneTip' BY DEF OneTip, TypeOK
  <2> QED BY <2>1, <2>2, <2>3, <2>4, <2>5, <2>6, <2>7, <2>8, <2>9 DEF IInv
<1>8. ASSUME NEW p \in Proc, MintForSuccessor(p) PROVE IInv'
  <2> USE <1>8 DEF MintForSuccessor
  <2>1. TypeOK' BY DEF TypeOK
  <2>2. IdleHoldsNothing' BY DEF IdleHoldsNothing, TypeOK
  <2>3. ReservedIsFresh' BY DEF ReservedIsFresh, TypeOK
  <2>4. UnissuedIsBlank' BY DEF UnissuedIsBlank, TypeOK
  <2>5. WonIsPending' BY DEF WonIsPending, TypeOK
  <2>6. ReturnsSuccessor' BY DEF ReturnsSuccessor, TypeOK
  <2>7. LoserIsSettled' BY DEF LoserIsSettled, TypeOK, Unclaimed
  <2>8. DeadIsOver' BY DEF DeadIsOver, TypeOK, Quiet, InFlight
  <2>9. OneTip' BY DEF OneTip, TypeOK
  <2> QED BY <2>1, <2>2, <2>3, <2>4, <2>5, <2>6, <2>7, <2>8, <2>9 DEF IInv
<1>9. ASSUME NEW p \in Proc, Mint(p) PROVE IInv'
  <2> USE <1>9 DEF Mint
  <2>1. TypeOK' BY DEF TypeOK
  <2>2. IdleHoldsNothing' BY DEF IdleHoldsNothing, TypeOK
  <2>3. ReservedIsFresh' BY DEF ReservedIsFresh, TypeOK
  <2>4. UnissuedIsBlank' BY DEF UnissuedIsBlank, TypeOK
  <2>5. WonIsPending' BY DEF WonIsPending, TypeOK
  <2>6. ReturnsSuccessor' BY DEF ReturnsSuccessor, TypeOK
  <2>7. LoserIsSettled' BY DEF LoserIsSettled, TypeOK, Unclaimed
  <2>8. DeadIsOver' BY DEF DeadIsOver, TypeOK, Quiet, InFlight
  <2>9. OneTip' BY DEF OneTip, TypeOK
  <2> QED BY <2>1, <2>2, <2>3, <2>4, <2>5, <2>6, <2>7, <2>8, <2>9 DEF IInv
<1>10. ASSUME NEW p \in Proc, Insert(p) PROVE IInv'
  <2> USE <1>10 DEF Insert
  <2>1. TypeOK' BY DEF TypeOK, WonIsPending
  <2>2. IdleHoldsNothing' BY DEF IdleHoldsNothing, TypeOK
  <2>3. ReservedIsFresh' BY DEF ReservedIsFresh, TypeOK
  <2>4. UnissuedIsBlank' BY DEF UnissuedIsBlank, TypeOK, WonIsPending
  <2>5. WonIsPending' BY DEF WonIsPending, TypeOK
  <2>6. ReturnsSuccessor' BY DEF ReturnsSuccessor, TypeOK
  <2>7. LoserIsSettled' BY DEF LoserIsSettled, TypeOK, WonIsPending, Unclaimed
  <2>8. DeadIsOver' BY DEF DeadIsOver, TypeOK, Quiet, InFlight
  <2>9. OneTip' BY DEF OneTip, TypeOK
  <2> QED BY <2>1, <2>2, <2>3, <2>4, <2>5, <2>6, <2>7, <2>8, <2>9 DEF IInv
<1>11. ASSUME NEW p \in Proc, BurnSuccessor(p) PROVE IInv'
  <2> USE <1>11 DEF BurnSuccessor, DeleteRows
  <2>1. TypeOK' BY DEF TypeOK
  <2>2. IdleHoldsNothing' BY DEF IdleHoldsNothing, TypeOK
  <2>3. ReservedIsFresh' BY DEF ReservedIsFresh, TypeOK
  <2>4. UnissuedIsBlank' BY DEF UnissuedIsBlank, TypeOK
  <2>5. WonIsPending' BY DEF WonIsPending, TypeOK
  <2>6. ReturnsSuccessor' BY DEF ReturnsSuccessor, TypeOK
  <2>7. LoserIsSettled' BY DEF LoserIsSettled, TypeOK, Unclaimed
  <2>8. DeadIsOver' BY DEF DeadIsOver, TypeOK, Quiet, InFlight
  <2>9. OneTip' BY DEF OneTip, TypeOK
  <2> QED BY <2>1, <2>2, <2>3, <2>4, <2>5, <2>6, <2>7, <2>8, <2>9 DEF IInv
<1>12. ASSUME NEW p \in Proc, BurnSelf(p) PROVE IInv'
  <2> USE <1>12 DEF BurnSelf, DeleteRows
  <2>1. TypeOK' BY DEF TypeOK
  <2>2. IdleHoldsNothing' BY DEF IdleHoldsNothing, TypeOK
  <2>3. ReservedIsFresh' BY DEF ReservedIsFresh, TypeOK
  <2>4. UnissuedIsBlank' BY DEF UnissuedIsBlank, TypeOK
  <2>5. WonIsPending' BY DEF WonIsPending, TypeOK
  <2>6. ReturnsSuccessor' BY DEF ReturnsSuccessor, TypeOK
  <2>7. LoserIsSettled' BY DEF LoserIsSettled, TypeOK, Unclaimed
  <2>8. DeadIsOver' BY DEF DeadIsOver, TypeOK, Quiet, InFlight
  <2>9. OneTip' BY DEF OneTip, TypeOK
  <2> QED BY <2>1, <2>2, <2>3, <2>4, <2>5, <2>6, <2>7, <2>8, <2>9 DEF IInv
<1>13. ASSUME NEW p \in Proc, Return(p) PROVE IInv'
  <2> USE <1>13 DEF Return
  <2>1. TypeOK' BY DEF TypeOK, ReturnsSuccessor
  <2>2. IdleHoldsNothing' BY DEF IdleHoldsNothing, TypeOK
  <2>3. ReservedIsFresh' BY DEF ReservedIsFresh, TypeOK
  <2>4. UnissuedIsBlank' BY DEF UnissuedIsBlank, TypeOK
  <2>5. WonIsPending' BY DEF WonIsPending, TypeOK
  <2>6. ReturnsSuccessor' BY DEF ReturnsSuccessor, TypeOK
  <2>7. LoserIsSettled' BY DEF LoserIsSettled, TypeOK, Unclaimed
  <2>8. DeadIsOver' BY DEF DeadIsOver, TypeOK, Quiet, InFlight
  <2>9. OneTip' BY DEF OneTip, TypeOK
  <2> QED BY <2>1, <2>2, <2>3, <2>4, <2>5, <2>6, <2>7, <2>8, <2>9 DEF IInv
<1>14. ASSUME NEW p \in Proc, Fail(p) PROVE IInv'
  <2> USE <1>14 DEF Fail, AfterFailure
  <2>1. TypeOK' BY DEF TypeOK
  <2>2. IdleHoldsNothing' BY DEF IdleHoldsNothing, TypeOK
  <2>3. ReservedIsFresh' BY DEF ReservedIsFresh, TypeOK
  <2>4. UnissuedIsBlank' BY DEF UnissuedIsBlank, TypeOK
  <2>5. WonIsPending' BY DEF WonIsPending, TypeOK
  <2>6. ReturnsSuccessor' BY DEF ReturnsSuccessor, TypeOK
  <2>7. LoserIsSettled' BY DEF LoserIsSettled, TypeOK, Unclaimed
  <2>8. DeadIsOver' BY DEF DeadIsOver, TypeOK, Quiet, InFlight
  <2>9. OneTip' BY DEF OneTip, TypeOK
  <2> QED BY <2>1, <2>2, <2>3, <2>4, <2>5, <2>6, <2>7, <2>8, <2>9 DEF IInv
<1>15. ASSUME RevokeToken PROVE IInv'
  <2> USE <1>15 DEF RevokeToken, DeleteRows
  <2>1. TypeOK' BY DEF TypeOK
  <2>2. IdleHoldsNothing' BY DEF IdleHoldsNothing, TypeOK
  <2>3. ReservedIsFresh' BY DEF ReservedIsFresh, TypeOK
  <2>4. UnissuedIsBlank' BY DEF UnissuedIsBlank, TypeOK
  <2>5. WonIsPending' BY DEF WonIsPending, TypeOK
  <2>6. ReturnsSuccessor' BY DEF ReturnsSuccessor, TypeOK
  <2>7. LoserIsSettled' BY DEF LoserIsSettled, TypeOK, Unclaimed
  <2>8. DeadIsOver' BY DEF DeadIsOver, TypeOK, Quiet, InFlight
  <2>9. OneTip' BY DEF OneTip, TypeOK
  <2> QED BY <2>1, <2>2, <2>3, <2>4, <2>5, <2>6, <2>7, <2>8, <2>9 DEF IInv
<1>16. ASSUME TerminateSession PROVE IInv'
  <2> USE <1>16 DEF TerminateSession, DeleteRows
  <2>1. TypeOK' BY DEF TypeOK
  <2>2. IdleHoldsNothing' BY DEF IdleHoldsNothing, TypeOK
  <2>3. ReservedIsFresh' BY DEF ReservedIsFresh, TypeOK
  <2>4. UnissuedIsBlank' BY DEF UnissuedIsBlank, TypeOK
  <2>5. WonIsPending' BY DEF WonIsPending, TypeOK
  <2>6. ReturnsSuccessor' BY DEF ReturnsSuccessor, TypeOK
  <2>7. LoserIsSettled' BY DEF LoserIsSettled, TypeOK, Unclaimed
  <2>8. DeadIsOver' BY DEF DeadIsOver, TypeOK, Quiet, InFlight
  <2>9. OneTip' BY DEF OneTip, TypeOK
  <2> QED BY <2>1, <2>2, <2>3, <2>4, <2>5, <2>6, <2>7, <2>8, <2>9 DEF IInv
<1>17. ASSUME Tick PROVE IInv'
  <2> USE <1>17 DEF Tick
  <2>1. TypeOK' BY DEF TypeOK
  <2>2. IdleHoldsNothing' BY DEF IdleHoldsNothing, TypeOK
  <2>3. ReservedIsFresh' BY DEF ReservedIsFresh, TypeOK
  <2>4. UnissuedIsBlank' BY DEF UnissuedIsBlank, TypeOK
  <2>5. WonIsPending' BY DEF WonIsPending, TypeOK
  <2>6. ReturnsSuccessor' BY DEF ReturnsSuccessor, TypeOK
  <2>7. LoserIsSettled' BY DEF LoserIsSettled, TypeOK, Unclaimed
  <2>8. DeadIsOver' BY DEF DeadIsOver, TypeOK, Quiet, InFlight
  <2>9. OneTip' BY DEF OneTip, TypeOK
  <2> QED BY <2>1, <2>2, <2>3, <2>4, <2>5, <2>6, <2>7, <2>8, <2>9 DEF IInv
<1>18. CASE UNCHANGED vars
  BY <1>18 DEF vars, Unclaimed, TypeOK, IdleHoldsNothing, ReservedIsFresh,
     UnissuedIsBlank, WonIsPending, ReturnsSuccessor, LoserIsSettled, DeadIsOver,
     OneTip, Quiet, InFlight
<1> QED BY <1>1, <1>2, <1>3, <1>4, <1>5, <1>6, <1>7, <1>8, <1>9, <1>10,
           <1>11, <1>12, <1>13, <1>14, <1>15, <1>16, <1>17, <1>18 DEF Next, Step

(* Every reachable state of every instance satisfies the invariant.        *)
THEOREM Inductive == Spec => []IInv
<1> QED BY InitIInv, NextIInv, PTL DEF Spec

(* Type correctness.                                                       *)
THEOREM TypeCorrect == Spec => []TypeOK
<1>1. IInv => TypeOK BY DEF IInv
<1> QED BY <1>1, Inductive, PTL

(* A login never has two tokens that can be rotated: claimRotation's guard *)
(* keeps the chain linear under any interleaving and any failure.          *)
THEOREM NeverForks == Spec => []OneTip
<1>1. IInv => OneTip BY DEF IInv
<1> QED BY <1>1, Inductive, PTL

(* All redemptions of a token are answered with one successor.             *)
THEOREM OneAnswer == Spec => []SameAnswer
<1>1. IInv => SameAnswer BY DEF IInv, ReturnsSuccessor, SameAnswer
<1> QED BY <1>1, Inductive, PTL

(* A logout that finds no rotation in flight leaves no row for good.       *)
THEOREM LogoutIsFinal == Spec => []QuietLogoutIsFinal
<1>1. IInv => QuietLogoutIsFinal BY DEF IInv, DeadIsOver, QuietLogoutIsFinal
<1> QED BY <1>1, Inductive, PTL

(* superseded_by and superseded_at are written once.                       *)
THEOREM SupersededOnce == Spec => SupersededForGood
<1> DEFINE Keeps ==
      \A t \in Token : sup[t] # NoToken => sup'[t] = sup[t] /\ supAt'[t] = supAt[t]
<1>1. IInv /\ [Next]_vars => [Keeps]_vars
  <2> SUFFICES ASSUME IInv, Next PROVE Keeps
    OBVIOUS
  <2>1. ASSUME NEW p \in Proc, Claim(p) PROVE Keeps
    BY <2>1 DEF Claim, Supersede, Unclaimed, IInv, TypeOK
  <2>2. ASSUME UNCHANGED <<sup, supAt>> PROVE Keeps
    BY <2>2
  <2>3. Next => (\E p \in Proc : Claim(p)) \/ UNCHANGED <<sup, supAt>>
    BY DEF Next, Step, BeginGrant, Begin, Lookup, Read, Expire, Reread, MintForSuccessor,
       Mint, Insert, BurnSuccessor, BurnSelf, Return, Fail, RevokeToken, TerminateSession,
       Tick, dbVars
  <2> QED BY <2>1, <2>2, <2>3
<1> QED BY <1>1, Inductive, PTL DEF Spec, SupersededForGood

(* Without a fault, a request is refused only for a token without a row: a *)
(* request that lost the claim finds the winner's successor on rereading.  *)
THEOREM RaceLosersNotRefused == Spec => LiveTokenNotRefused
<1> DEFINE Justified ==
      \A p \in Proc : pc'[p] = "invalid" /\ pc[p] # "invalid" /\ faults' = faults
                         => tok[p] \notin rows
<1>1. IInv /\ [Next]_vars => [Justified]_vars
  <2> SUFFICES ASSUME IInv, Next, NEW p \in Proc,
                      pc'[p] = "invalid", pc[p] # "invalid", faults' = faults
               PROVE  tok[p] \notin rows
    OBVIOUS
  <2> USE DEF IInv, TypeOK
  <2>1. Lookup(p) \/ Read(p) \/ Reread(p)
    <3>1. pc' # pc
      OBVIOUS
    <3>2. PICK q \in Proc : BeginGrant(q) \/ Begin(q) \/ Step(q) \/ Fail(q)
      BY <3>1 DEF Next, RevokeToken, TerminateSession, Tick
    <3>3. pc' = [pc EXCEPT ![q] = pc'[q]]
      BY <3>2 DEF Step, Goto, BeginGrant, Begin, Lookup, Read, Expire, Claim, Supersede,
         Reread, MintForSuccessor, Mint, Insert, BurnSuccessor, BurnSelf, Return, Fail
    <3>4. q = p
      BY <3>3
    <3>5. ~Fail(p)
      BY DEF Fail
    <3> QED
      BY <3>2, <3>4, <3>5 DEF Step, Goto, BeginGrant, Begin, Expire, Claim, Supersede,
         MintForSuccessor, Mint, Insert, BurnSuccessor, BurnSelf, Return
  <2>2. CASE Lookup(p)
    BY <2>2 DEF Lookup, Goto
  <2>3. CASE Read(p)
    BY <2>3 DEF Read, Goto
  <2>4. CASE Reread(p)
    BY <2>4 DEF Reread, Goto, LoserIsSettled, Unclaimed, Superseded
  <2> QED BY <2>1, <2>2, <2>3, <2>4
<1> QED BY <1>1, Inductive, PTL DEF Spec, LiveTokenNotRefused

----------------------------------------------------------------------------
(* The refinement.  Under OneTip a login's current token is its tip.       *)
LEMMA CurrentIsTip ==
  ASSUME OneTip, NEW t \in Token, Tip(t) PROVE CurrentToken(sess[t]) = t
  BY DEF CurrentToken, OneTip

(* The same in the next state.                                             *)
LEMMA CurrentIsTipNext ==
  ASSUME OneTip', NEW t \in Token, Tip(t)' PROVE CurrentToken(sess[t])' = t
  BY DEF CurrentToken, OneTip, Tip, Issued

(* A login whose tip does not change keeps its current token.              *)
LEMMA CurrentOfOther ==
  ASSUME OneTip, OneTip', NEW s \in Session,
         \A t \in Token : Tip(t) /\ sess[t] = s <=> Tip(t)' /\ sess'[t] = s
  PROVE  CurrentToken(s)' = CurrentToken(s)
<1>1. CASE \E t \in Token : Tip(t) /\ sess[t] = s
  <2>1. PICK t \in Token : Tip(t) /\ sess[t] = s
    BY <1>1
  <2> QED BY <2>1, CurrentIsTip, CurrentIsTipNext
<1>2. CASE ~\E t \in Token : Tip(t) /\ sess[t] = s
  BY <1>2 DEF CurrentToken
<1> QED BY <1>1, <1>2

(* No token issued: no login has a current token.                          *)
LEMMA InitRefines == Init => Ledger!Init
  BY NullAssumption DEF Init, Ledger!Init, CurrentToken, Tip, Issued

(* A grant opens a login, a won claim exchanges its current token, an      *)
(* insert persists it, a delete drops rows, and the rest stutters.         *)
LEMMA NextRefines == IInv /\ IInv' /\ [Next]_vars => [Ledger!Next]_(Ledger!ledger)
<1> SUFFICES ASSUME IInv, IInv', [Next]_vars
             PROVE  Ledger!Next \/ UNCHANGED Ledger!ledger
  BY DEF Ledger!ledger
<1> DEFINE cur == [s \in Session |-> CurrentToken(s)]
           spent == {t \in Token : Issued(t)}
<1> USE NullAssumption DEF IInv, TypeOK
<1>0. ASSUME UNCHANGED <<sup, sess>> PROVE cur' = cur /\ spent' = spent
  <2>1. \A s \in Session : CurrentToken(s)' = CurrentToken(s)
    BY <1>0, CurrentOfOther DEF Tip, Issued
  <2> QED BY <2>1, <1>0 DEF Issued
<1>1. ASSUME NEW n \in Token, NEW s \in Session, ~Issued(n),
             sess' = [sess EXCEPT ![n] = s],
             \A t \in Token : Tip(t)' <=> (Tip(t) /\ sess[t] # s) \/ t = n
      PROVE  cur' = [cur EXCEPT ![s] = n] /\ spent' = spent \union {n}
  <2>1. CurrentToken(s)' = n
    BY <1>1, CurrentIsTipNext
  <2>2. \A r \in Session \ {s} : CurrentToken(r)' = CurrentToken(r)
    <3> TAKE r \in Session \ {s}
    <3>1. \A t \in Token : Tip(t) /\ sess[t] = r <=> Tip(t)' /\ sess'[t] = r
      BY <1>1 DEF Tip, Issued
    <3> QED BY <3>1, CurrentOfOther
  <2>3. spent' = spent \union {n}
    BY <1>1 DEF Issued
  <2> QED BY <2>1, <2>2, <2>3
<1>2. ASSUME NEW ts, ts \subseteq rows, DeleteRows(ts), UNCHANGED <<sup, sess>>
      PROVE  Ledger!Next
  <2>1. Ledger!Drop(ts)
    BY <1>2, <1>0 DEF Ledger!Drop, DeleteRows
  <2> QED BY <1>2, <2>1 DEF Ledger!Next
<1>3. ASSUME UNCHANGED <<rows, gone, sup, sess>> PROVE UNCHANGED Ledger!ledger
  BY <1>3, <1>0 DEF Ledger!ledger
<1>4. ASSUME NEW p \in Proc, BeginGrant(p) PROVE Ledger!Next
  <2>1. PICK s \in Session, n \in Token :
          /\ Fresh(n) /\ \A t \in Token : sess[t] # s
          /\ sess' = [sess EXCEPT ![n] = s] /\ UNCHANGED <<rows, gone, sup>>
    BY <1>4 DEF BeginGrant
  <2>2. \A t \in Token : Tip(t)' <=> (Tip(t) /\ sess[t] # s) \/ t = n
    BY <2>1 DEF Tip, Issued, Fresh, UnissuedIsBlank
  <2>3. cur' = [cur EXCEPT ![s] = n] /\ spent' = spent \union {n}
    BY <2>1, <2>2, <1>1 DEF Fresh
  <2>4. cur[s] = NoToken /\ n \notin spent
    BY <2>1 DEF CurrentToken, Fresh
  <2>5. Ledger!Open(s, n)
    BY <2>1, <2>3, <2>4 DEF Ledger!Open
  <2> QED BY <2>5 DEF Ledger!Next
<1>5. ASSUME NEW p \in Proc, Claim(p) PROVE Ledger!Next \/ UNCHANGED Ledger!ledger
  <2>1. CASE ~Unclaimed(tok[p])
    BY <2>1, <1>5, <1>3 DEF Claim
  <2>2. CASE Unclaimed(tok[p])
    <3> DEFINE t0 == tok[p]
               n  == new[p]
               s  == sess[t0]
    <3>1. /\ t0 \in Token /\ n \in Token /\ ~Issued(n) /\ Tip(t0) /\ s \in Session
      BY <2>2, <1>5 DEF Claim, Unclaimed, ReservedIsFresh, Reserved, UnissuedIsBlank, Tip, Issued
    <3>2. /\ sess' = [sess EXCEPT ![n] = s] /\ sup' = [sup EXCEPT ![t0] = n]
          /\ UNCHANGED <<rows, gone>>
      BY <2>2, <1>5 DEF Claim, Supersede
    <3>3. \A t \in Token : Tip(t)' <=> (Tip(t) /\ sess[t] # s) \/ t = n
      BY <3>1, <3>2 DEF Tip, Issued, UnissuedIsBlank, OneTip
    <3>4. cur' = [cur EXCEPT ![s] = n] /\ spent' = spent \union {n}
      BY <3>1, <3>2, <3>3, <1>1
    <3>5. cur[s] \in rows /\ n \notin spent
      BY <3>1, <2>2, CurrentIsTip DEF Unclaimed
    <3>6. Ledger!Exchange(s, n)
      BY <3>2, <3>4, <3>5 DEF Ledger!Exchange
    <3> QED BY <3>1, <3>6 DEF Ledger!Next
  <2> QED BY <2>1, <2>2
<1>6. ASSUME NEW p \in Proc, Insert(p) PROVE Ledger!Next
  <2> DEFINE n == new[p]
             s == sess[n]
  <2>1. n \in Token /\ Tip(n) /\ n \notin rows \union gone
    BY <1>6 DEF Insert, WonIsPending, Won
  <2>2. s \in Session /\ cur[s] = n
    BY <2>1, CurrentIsTip DEF Tip, Issued
  <2>3. rows' = rows \union {n} /\ UNCHANGED <<gone, sup, sess>>
    BY <1>6 DEF Insert
  <2>4. Ledger!Persist(s)
    BY <2>1, <2>2, <2>3, <1>0 DEF Ledger!Persist, Tip
  <2> QED BY <2>2, <2>4 DEF Ledger!Next
<1>7. ASSUME NEW p \in Proc, Expire(p) \/ BurnSuccessor(p) \/ BurnSelf(p)
      PROVE  Ledger!Next
  <2>1. PICK t : DeleteRows({t}) /\ UNCHANGED <<sup, sess>>
    BY <1>7 DEF Expire, BurnSuccessor, BurnSelf
  <2>2. DeleteRows({t} \intersect rows)
    BY <2>1 DEF DeleteRows
  <2> QED BY <2>1, <2>2, <1>2
<1>8. ASSUME RevokeToken \/ TerminateSession PROVE Ledger!Next
  <2>1. CASE RevokeToken
    <3>1. PICK t \in rows : DeleteRows({t})
      BY <2>1 DEF RevokeToken
    <3> QED BY <3>1, <2>1, <1>2 DEF RevokeToken
  <2>2. CASE TerminateSession
    BY <2>2, <1>2 DEF TerminateSession
  <2> QED BY <1>8, <2>1, <2>2
<1>9. ASSUME NEW p \in Proc,
             \/ Begin(p) \/ Lookup(p) \/ Read(p) \/ Reread(p) \/ MintForSuccessor(p)
             \/ Mint(p) \/ Return(p) \/ Fail(p)
      PROVE  UNCHANGED Ledger!ledger
  BY <1>9, <1>3 DEF Begin, Lookup, Read, Reread, MintForSuccessor, Mint, Return, Fail, dbVars
<1>10. ASSUME Tick \/ UNCHANGED vars PROVE UNCHANGED Ledger!ledger
  BY <1>10, <1>3 DEF Tick, vars, dbVars
<1> QED BY <1>4, <1>5, <1>6, <1>7, <1>8, <1>9, <1>10 DEF Next, Step

(* Rotation implements the ledger: one current token per login, exchanged  *)
(* only while it is live, persisted at most once, never revived.           *)
THEOREM Refinement == Spec => ImplementsLedger
<1> QED BY InitRefines, NextRefines, Inductive, PTL DEF Spec, ImplementsLedger, Ledger!Spec

----------------------------------------------------------------------------
(* What happens in the end.                                                *)

(* The calls a request has still to make, its answer included.             *)
CallsLeft(p) ==
  CASE pc[p] = "lookup" -> 6
    [] pc[p] = "rotate" -> 5
    [] pc[p] = "claim" -> 4
    [] pc[p] \in {"mint", "reread", "burnSucc"} -> 3
    [] pc[p] \in {"insert", "mintSucc", "burnSelf", "expire"} -> 2
    [] pc[p] \in {"ok"} \union Refused -> 1
    [] OTHER -> 0

(* Whoever moves a request that has begun makes one of its calls, or makes *)
(* it fail.                                                                *)
LEMMA OnlyItsCallsMoveIt ==
  ASSUME TypeOK, [Next]_vars, NEW p \in Proc, pc[p] # "idle", pc'[p] # pc[p]
  PROVE  Step(p) \/ Fail(p)
<1>1. PICK q \in Proc : BeginGrant(q) \/ Begin(q) \/ Step(q) \/ Fail(q)
  BY DEF Next, RevokeToken, TerminateSession, Tick, vars
<1>2. pc' = [pc EXCEPT ![q] = pc'[q]]
  BY <1>1 DEF Step, Goto, BeginGrant, Begin, Lookup, Read, Expire, Claim, Supersede,
     Reread, MintForSuccessor, Mint, Insert, BurnSuccessor, BurnSelf, Return, Fail, TypeOK
<1>3. q = p
  BY <1>2, Zenon DEF TypeOK
<1> QED
  BY <1>1, <1>3 DEF BeginGrant, Begin

(* Each call leaves fewer, and no other step of the request adds one.      *)
LEMMA CallsRunOut ==
  ASSUME TypeOK, [Next]_vars, NEW p \in Proc
  PROVE  /\ Step(p) => CallsLeft(p)' < CallsLeft(p)
         /\ pc[p] # "idle" /\ pc'[p] # pc[p] => CallsLeft(p)' < CallsLeft(p)
<1>1. Step(p) \/ Fail(p) => CallsLeft(p)' < CallsLeft(p)
  BY DEF Step, Goto, Lookup, Read, Expire, Claim, Supersede, Reread, MintForSuccessor, Mint, Insert,
     BurnSuccessor, BurnSelf, Return, Fail, AfterFailure, CallsLeft, TypeOK, PC, Reserved, Won,
     Refused
<1> QED
  BY <1>1, OnlyItsCallsMoveIt

(* A redemption makes at most six calls, and a grant three, whatever the   *)
(* other requests do: losing a race never sends it back                    *)
(* (storage.go rotateRefreshToken).                                        *)
THEOREM RequestsAdvance ==
  Spec => [][\A p \in Proc : pc[p] # "idle" /\ (Step(p) \/ pc'[p] # pc[p])
               => CallsLeft(p)' < CallsLeft(p)]_vars
<1>1. TypeOK /\ [Next]_vars
        => [\A p \in Proc : pc[p] # "idle" /\ (Step(p) \/ pc'[p] # pc[p])
               => CallsLeft(p)' < CallsLeft(p)]_vars
  BY CallsRunOut
<1> QED
  BY <1>1, TypeCorrect, PTL DEF Spec

(* At most k calls are left, and a call makes them one fewer.              *)
Near(p, k) == CallsLeft(p) <= k
LEMMA Nearer ==
  ASSUME NEW p \in Proc, NEW k \in Nat
  PROVE  /\ TypeOK /\ [Next]_vars /\ ~(pc[p] = "idle") /\ Near(p, k) => Near(p, k)'
         /\ TypeOK /\ [Next]_vars /\ Near(p, k + 1) /\ <<Step(p)>>_vars => Near(p, k)'
<1>1. /\ CallsLeft(p) \in Nat /\ CallsLeft(p)' \in Nat
      /\ pc'[p] = pc[p] => CallsLeft(p)' = CallsLeft(p)
  BY DEF CallsLeft
<1> QED
  BY <1>1, CallsRunOut DEF Near

(* One request, from the fairness of its own steps.                        *)
LEMMA OneIsAnswered ==
  ASSUME NEW p \in Proc
  PROVE  Spec /\ Scheduled(p) /\ []CanGoOn => (pc[p] # "idle" ~> pc[p] = "idle")
<1>1. CanGoOn => pc[p] = "idle" \/ ENABLED <<Step(p)>>_vars
  BY DEF CanGoOn
<1>2. /\ TypeOK => Near(p, 6)
      /\ TypeOK /\ Near(p, 0) => pc[p] = "idle"
  BY DEF Near, CallsLeft, TypeOK, PC, Reserved, Won, Refused
<1>3. /\ TypeOK /\ [Next]_vars /\ ~(pc[p] = "idle") /\ Near(p, 5) => Near(p, 5)'
      /\ TypeOK /\ [Next]_vars /\ ~(pc[p] = "idle") /\ Near(p, 4) => Near(p, 4)'
      /\ TypeOK /\ [Next]_vars /\ ~(pc[p] = "idle") /\ Near(p, 3) => Near(p, 3)'
      /\ TypeOK /\ [Next]_vars /\ ~(pc[p] = "idle") /\ Near(p, 2) => Near(p, 2)'
      /\ TypeOK /\ [Next]_vars /\ ~(pc[p] = "idle") /\ Near(p, 1) => Near(p, 1)'
  BY Nearer
<1>4. /\ TypeOK /\ [Next]_vars /\ Near(p, 6) /\ <<Step(p)>>_vars => Near(p, 5)'
      /\ TypeOK /\ [Next]_vars /\ Near(p, 5) /\ <<Step(p)>>_vars => Near(p, 4)'
      /\ TypeOK /\ [Next]_vars /\ Near(p, 4) /\ <<Step(p)>>_vars => Near(p, 3)'
      /\ TypeOK /\ [Next]_vars /\ Near(p, 3) /\ <<Step(p)>>_vars => Near(p, 2)'
      /\ TypeOK /\ [Next]_vars /\ Near(p, 2) /\ <<Step(p)>>_vars => Near(p, 1)'
      /\ TypeOK /\ [Next]_vars /\ Near(p, 1) /\ <<Step(p)>>_vars => Near(p, 0)'
  BY Nearer
<1>5. pc[p] # "idle" <=> ~(pc[p] = "idle")
  OBVIOUS
<1> QED
  BY <1>1, <1>2, <1>3, <1>4, <1>5, TypeCorrect, PTL DEF Spec, Scheduled

(* Every request is answered, for any number of them, if each that has     *)
(* begun keeps being scheduled and none ever waits for another (CanGoOn).  *)
THEOREM AllAreAnswered == FairSpec /\ []CanGoOn => EveryRequestAnswered
<1>1. ASSUME NEW p \in Proc
      PROVE  Spec /\ Scheduled(p) /\ []CanGoOn => (pc[p] # "idle" ~> pc[p] = "idle")
  BY OneIsAnswered
<1> QED
  BY <1>1 DEF FairSpec, EveryRequestAnswered

(* Without a fault, a token that was issued has, or had, its row, or some  *)
(* request is about to insert it; and clients hold only what was issued.   *)
Awaits(p, t) == pc[p] \in Won /\ new[p] = t
AllAccounted ==
  faults = 0 => \A t \in Token : Issued(t) =>
    t \in rows \union gone \/ \E p \in Proc : Awaits(p, t)
HandedWasIssued ==
  /\ \A p \in Proc : pc[p] \in {"mintSucc", "ok"} => Issued(new[p])
  /\ \A t \in Token : Handed(t) => Issued(t)

(* A request that does not move itself stays as it is.                     *)
LEMMA OthersStay ==
  ASSUME TypeOK, [Next]_vars, NEW p \in Proc,
         ~(BeginGrant(p) \/ Begin(p) \/ Step(p) \/ Fail(p))
  PROVE  pc'[p] = pc[p] /\ tok'[p] = tok[p] /\ new'[p] = new[p]
<1>1. CASE UNCHANGED <<pc, tok, new>>
  BY <1>1
<1>2. ASSUME NEW q \in Proc, BeginGrant(q) \/ Begin(q) \/ Step(q) \/ Fail(q)
      PROVE  pc'[p] = pc[p] /\ tok'[p] = tok[p] /\ new'[p] = new[p]
  <2>1. q # p
    BY <1>2
  <2>2. /\ \E x : pc' = [pc EXCEPT ![q] = x]
        /\ tok' = tok \/ \E x : tok' = [tok EXCEPT ![q] = x]
        /\ new' = new \/ \E x : new' = [new EXCEPT ![q] = x]
    BY <1>2
    DEF Step, Goto, BeginGrant, Begin, Lookup, Read, Expire, Claim, Supersede, Reread,
        MintForSuccessor, Mint, Insert, BurnSuccessor, BurnSelf, Return, Fail
  <2> QED
    BY <2>1, <2>2 DEF TypeOK
<1> QED
  BY <1>1, <1>2 DEF Next, vars, RevokeToken, TerminateSession, Tick

(* A token stays accounted for: its row, or the request that will insert   *)
(* it, is there after every step.                                          *)
LEMMA AccountedStep ==
  ASSUME IInv, AllAccounted, [Next]_vars PROVE AllAccounted'
<1> SUFFICES ASSUME faults' = 0, NEW t \in Token, Issued(t)'
             PROVE  t \in rows' \union gone' \/ \E p \in Proc : Awaits(p, t)'
  BY DEF AllAccounted
<1> USE DEF IInv, TypeOK, Issued, Won, Goto, DeleteRows, dbVars
<1>1. faults = 0
  BY TimesAssumption
  DEF Next, vars, Step, BeginGrant, Begin, Lookup, Read, Expire, Claim, Reread, MintForSuccessor,
      Mint, Insert, BurnSuccessor, BurnSelf, Return, Fail, RevokeToken, TerminateSession, Tick
<1>2. rows \union gone \subseteq rows' \union gone'
  BY DEF Next, vars, Step, BeginGrant, Begin, Lookup, Read, Expire, Claim, Reread, MintForSuccessor,
      Mint, Insert, BurnSuccessor, BurnSelf, Return, Fail, RevokeToken, TerminateSession, Tick
<1>3. CASE \E p \in Proc : BeginGrant(p) \/ Claim(p)
  <2>1. PICK p \in Proc : BeginGrant(p) \/ Claim(p)
    BY <1>3
  <2>2. Issued(t) \/ Awaits(p, t)'
    BY <2>1 DEF BeginGrant, Claim, Supersede, Awaits
  <2>3. ASSUME NEW q \in Proc, Awaits(q, t) PROVE Awaits(q, t)'
    BY <2>1, <2>3 DEF BeginGrant, Claim, Supersede, Awaits
  <2> QED
    BY <1>1, <1>2, <2>2, <2>3 DEF AllAccounted
<1>4. CASE ~\E p \in Proc : BeginGrant(p) \/ Claim(p)
  <2>1. Issued(t)
    BY <1>4
    DEF Next, vars, Step, Begin, Lookup, Read, Expire, Reread, MintForSuccessor,
        Mint, Insert, BurnSuccessor, BurnSelf, Return, Fail, RevokeToken, TerminateSession, Tick
  <2>2. ASSUME NEW q \in Proc, Awaits(q, t), ~Awaits(q, t)' PROVE t \in rows'
    <3>1. Step(q) \/ BeginGrant(q) \/ Begin(q) \/ Fail(q)
      BY <2>2, OthersStay DEF Awaits
    <3>2. ~Fail(q)
      BY <1>1 DEF Fail
    <3>3. Insert(q)
      BY <1>4, <2>2, <3>1, <3>2
      DEF Step, BeginGrant, Begin, Lookup, Read, Expire, Reread, MintForSuccessor, Awaits,
          Mint, BurnSuccessor, BurnSelf, Return, Refused
    <3> QED
      BY <2>2, <3>3 DEF Insert, Awaits
  <2> QED
    BY <1>1, <1>2, <2>1, <2>2 DEF AllAccounted
<1> QED
  BY <1>3, <1>4

(* Whatever a request returns was issued by a grant or a won claim.        *)
LEMMA HandedStep ==
  ASSUME IInv, HandedWasIssued, [Next]_vars PROVE HandedWasIssued'
<1> USE NullAssumption DEF IInv, TypeOK, Issued, Won, Goto, dbVars
<1>1. ASSUME NEW t \in Token, Issued(t) PROVE Issued(t)'
  <2>1. CASE sess' = sess
    BY <1>1, <2>1
  <2>2. CASE \E p \in Proc : BeginGrant(p) \/ Claim(p)
    BY <1>1, <2>2 DEF BeginGrant, Claim, Supersede, Fresh, ReservedIsFresh, Reserved
  <2> QED
    BY <2>1, <2>2
    DEF Next, vars, Step, Begin, Lookup, Read, Expire, Reread, MintForSuccessor, Mint, Insert,
        BurnSuccessor, BurnSelf, Return, Fail, RevokeToken, TerminateSession, Tick
<1>2. ASSUME NEW t \in Token, sup[t] # NoToken PROVE Issued(sup[t])
  BY <1>2 DEF UnissuedIsBlank
<1>3. ASSUME NEW p \in Proc, pc'[p] \in {"mintSucc", "ok"} PROVE Issued(new[p])'
  <2>1. CASE pc[p] = pc'[p] /\ new[p] = new'[p]
    BY <1>1, <1>3, <2>1 DEF HandedWasIssued, ReturnsSuccessor
  <2>2. CASE Read(p) \/ Reread(p)
    BY <1>2, <1>3, <2>2 DEF Read, Reread, Superseded, Unclaimed
  <2>3. CASE MintForSuccessor(p)
    BY <2>3 DEF MintForSuccessor, HandedWasIssued
  <2>4. CASE Insert(p)
    BY <2>4 DEF Insert, WonIsPending, Tip
  <2>5. ASSUME BeginGrant(p) \/ Begin(p) \/ Step(p) \/ Fail(p)
        PROVE  Read(p) \/ Reread(p) \/ MintForSuccessor(p) \/ Insert(p)
    BY <1>3, <2>5
    DEF Step, BeginGrant, Begin, Lookup, Expire, Claim, Supersede, Mint, BurnSuccessor, BurnSelf,
        Return, Fail, AfterFailure
  <2> QED
    BY <2>1, <2>2, <2>3, <2>4, <2>5, OthersStay
<1>4. ASSUME NEW t \in Token, Handed(t)' PROVE Issued(t)'
  <2>1. CASE answers' = answers
    BY <1>1, <1>4, <2>1 DEF HandedWasIssued, Handed
  <2>2. CASE answers' # answers
    <3>1. PICK p \in Proc : /\ Return(p) /\ pc[p] = "ok"
                            /\ answers' = answers \union {<<tok[p], new[p]>>}
      BY <2>2
      DEF Next, vars, Step, BeginGrant, Begin, Lookup, Read, Expire, Claim, Reread,
          MintForSuccessor, Mint, Insert, BurnSuccessor, BurnSelf, Return, Fail, RevokeToken,
          TerminateSession, Tick
    <3>2. Handed(t) \/ t = new[p]
      BY <1>4, <3>1 DEF Handed
    <3> QED
      BY <1>1, <3>1, <3>2 DEF HandedWasIssued
  <2> QED
    BY <2>1, <2>2
<1> QED
  BY <1>3, <1>4 DEF HandedWasIssued

(* A rotation that has won its claim is never forgotten: while no call     *)
(* fails its token is stored, or was, or its insert is still to come       *)
(* (storage.go claimRotation, insertRefreshToken).                         *)
THEOREM NoneIsForgotten == Spec => [](AllAccounted /\ HandedWasIssued)
<1>1. Init => AllAccounted /\ HandedWasIssued
  BY DEF Init, AllAccounted, HandedWasIssued, Issued, Handed
<1>2. /\ IInv /\ AllAccounted /\ [Next]_vars => AllAccounted'
      /\ IInv /\ HandedWasIssued /\ [Next]_vars => HandedWasIssued'
  BY AccountedStep, HandedStep
<1> QED
  BY <1>1, <1>2, Inductive, PTL DEF Spec

(* What a request is about to insert it inserts, unless a call fails.      *)
Settled(t) == t \in rows \union gone \/ faults > 0
Comes(p, t) == Awaits(p, t) ~> Settled(t)
LEMMA AwaitedComes ==
  ASSUME NEW p \in Proc, NEW t \in Token
  PROVE  Spec /\ Scheduled(p) /\ []CanGoOn => Comes(p, t)
<1>1. Awaits(p, t) => pc[p] # "idle"
  BY DEF Awaits, Won
<1>2. Awaits(p, t) => ~(pc[p] = "idle")
  BY DEF Awaits, Won
<1>3. TypeOK /\ Awaits(p, t) /\ [Next]_vars => Awaits(p, t)' \/ Settled(t)'
  <2> SUFFICES ASSUME TypeOK, Awaits(p, t), [Next]_vars PROVE Awaits(p, t)' \/ Settled(t)'
    OBVIOUS
  <2>1. CASE Insert(p)
    BY <2>1 DEF Insert, Awaits, Settled
  <2>2. CASE Mint(p)
    BY <2>2 DEF Mint, Awaits, Won, Goto, TypeOK
  <2>3. CASE Fail(p)
    BY <2>3 DEF Fail, Settled, TypeOK
  <2>4. BeginGrant(p) \/ Begin(p) \/ Step(p) \/ Fail(p) => Insert(p) \/ Mint(p) \/ Fail(p)
    BY DEF Step, BeginGrant, Begin, Lookup, Read, Expire, Claim, Reread, MintForSuccessor,
       BurnSuccessor, BurnSelf, Return, Refused, Awaits, Won
  <2> QED
    BY <2>1, <2>2, <2>3, <2>4, OthersStay DEF Awaits
<1>4. Spec /\ Scheduled(p) /\ []CanGoOn => (pc[p] # "idle" ~> pc[p] = "idle")
  BY OneIsAnswered
<1> QED
  BY <1>1, <1>2, <1>3, <1>4, TypeCorrect, PTL DEF Spec, Comes

(* A token that a client was handed, be it before the winner's insert, has *)
(* its row in the end, or had it, unless a call failed.                    *)
THEOREM HandedAreStored == FairSpec /\ []CanGoOn => HandedGetsARow
<1>1. ASSUME NEW t \in Token
      PROVE  FairSpec /\ []CanGoOn => (Handed(t) ~> (t \in rows \union gone \/ faults > 0))
  <2> DEFINE Never == []~Settled(t)
  <2>1. ASSUME NEW p \in Proc
        PROVE  Spec /\ Scheduled(p) /\ []CanGoOn => [](Never => ~Awaits(p, t))
    <3>1. Spec /\ Scheduled(p) /\ []CanGoOn => Comes(p, t)
      BY AwaitedComes
    <3> QED
      BY <3>1, PTL DEF Comes
  <2>2. FairSpec /\ []CanGoOn => \A p \in Proc : [](Never => ~Awaits(p, t))
    BY <2>1 DEF FairSpec
  <2>3. (\A p \in Proc : [](Never => ~Awaits(p, t))) => [](\A p \in Proc : Never => ~Awaits(p, t))
    OBVIOUS
  <2>4. (\A p \in Proc : Never => ~Awaits(p, t)) => (Never => ~\E p \in Proc : Awaits(p, t))
    OBVIOUS
  <2>5. TypeOK /\ AllAccounted /\ HandedWasIssued /\ Handed(t)
          => Settled(t) \/ \E p \in Proc : Awaits(p, t)
    BY DEF AllAccounted, HandedWasIssued, Settled, TypeOK
  <2>6. Settled(t) => t \in rows \union gone \/ faults > 0
    BY DEF Settled
  <2>7. FairSpec => Spec
    BY DEF FairSpec
  <2> QED
    BY <2>2, <2>3, <2>4, <2>5, <2>6, <2>7, TypeCorrect, NoneIsForgotten, PTL
<1> QED
  BY <1>1 DEF HandedGetsARow
=============================================================================
