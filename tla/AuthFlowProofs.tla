--------------------------- MODULE AuthFlowProofs ---------------------------
(***************************************************************************)
(* Proofs about AuthFlow for any number of requests, users, scopes, codes, *)
(* handlers and faults.  Histories only grow, so that what a user proved   *)
(* or approved stays true (Carry); the rest of IInv says what overlapping  *)
(* handlers can write back, and what a code still stands for.              *)
(***************************************************************************)
EXTENDS AuthFlow, TLAPS

(* What no step undoes.                                                    *)
Grows ==
  /\ proved \subseteq proved' /\ agreed \subseteq agreed' /\ early \subseteq early'
  /\ \A r \in Req : scopes[r] # {} => scopes'[r] = scopes[r]

(* What therefore stays of the invariant.                                  *)
Carried ==
  /\ \A u \in User, q \in Req : LoggedIn(u, q) \/ Named(u, q) => LoggedIn(u, q)'
  /\ \A u \in User :
       Undisturbed(u)' => Undisturbed(u) /\ AgreedScopes(u) \subseteq AgreedScopes(u)'
  /\ \A q \in Req : AgreedOn(q) => AgreedOn(q)'
  /\ \A q \in Req \ early' : Cleared(q) => Settled(q)'
  /\ \A q \in Req : MarkedWebauthn(q) => ShownOn(q)'

LEMMA Carry == IInv /\ Grows => Carried
<1> SUFFICES ASSUME IInv, Grows PROVE Carried
  OBVIOUS
<1> USE DEF IInv
<1>1. ASSUME NEW u \in User, NEW q \in Req, LoggedIn(u, q) PROVE LoggedIn(u, q)'
  BY <1>1 DEF Grows, LoggedIn
<1>2. ASSUME NEW u \in User, NEW q \in Req, Named(u, q) PROVE LoggedIn(u, q)'
  BY <1>1, <1>2 DEF NamedLoggedIn
<1>3. ASSUME NEW u \in User, Undisturbed(u)' PROVE Undisturbed(u)
  <2>1. Alone(u) BY <1>1, <1>3 DEF Alone, Undisturbed
  <2>2. \A r \in early : ~LoggedIn(u, r) BY <1>1, <1>3 DEF Undisturbed, Grows, TypeOK
  <2> QED BY <2>1, <2>2 DEF Undisturbed
<1>4. ASSUME NEW u \in User PROVE AgreedScopes(u) \subseteq AgreedScopes(u)'
  BY DEF Grows, AgreedScopes, TypeOK
<1>5. ASSUME NEW q \in Req \ early', Cleared(q) PROVE Settled(q)'
  <2>1. scopes[q] # {}
    BY <1>5 DEF Cleared, Begun, SubjectKept, AtWork, PC, Made, Blank
  <2>2. PICK u \in User :
          LoggedIn(u, q) /\ (Undisturbed(u) => scopes[q] \subseteq AgreedScopes(u))
    BY <1>5 DEF ClearedSettled, Settled, Grows
  <2>3. LoggedIn(u, q)' /\ (Undisturbed(u)' => scopes'[q] \subseteq AgreedScopes(u)')
    BY <2>1, <2>2, <1>1, <1>3, <1>4 DEF Grows
  <2> QED BY <2>3 DEF Settled
<1>6. ASSUME NEW q \in Req, MarkedWebauthn(q) PROVE ShownOn(q)'
  BY <1>6 DEF MarkFounded, ShownOn, Grows
<1>7. ASSUME NEW q \in Req, AgreedOn(q) PROVE AgreedOn(q)'
  BY <1>7 DEF AgreedOn, Grows
<1> QED BY <1>1, <1>2, <1>3, <1>4, <1>5, <1>6, <1>7 DEF Carried

(* Before any request the invariant holds.                                 *)
LEMMA InitIInv == Init => IInv
<1> SUFFICES ASSUME Init PROVE IInv
  OBVIOUS
<1> USE NamesAssumption, BoundsAssumption DEF Init, Blank, Serving
<1>1. TypeOK BY DEF TypeOK, PC, Method, Record
<1>2. Begun BY DEF Begun, AtWork, PC
<1>3. SubjectKept BY DEF SubjectKept, AtWork, PC
<1>4. NamedLoggedIn BY DEF NamedLoggedIn, Named
<1>5. ConsentFounded BY DEF ConsentFounded, AtWork
<1>6. ClearedSettled BY DEF ClearedSettled, Cleared, AtWork
<1>7. MarkFounded BY DEF MarkFounded, MarkedWebauthn
<1>8. Spent /\ GrantedOnce BY DEF Spent, GrantedOnce, AtWork
<1> QED BY <1>1, <1>2, <1>3, <1>4, <1>5, <1>6, <1>7, <1>8 DEF IInv

(* Every call of every handler preserves it.                               *)
LEMMA NextIInv == IInv /\ [Next]_vars => IInv'
<1> SUFFICES ASSUME IInv, [Next]_vars PROVE IInv'
  OBVIOUS
<1> USE NamesAssumption, BoundsAssumption
     DEF IInv, Serving, kvVars, d1Vars, history, procVars, bounds
<1>0. \A q \in Proc : pc[q] # "idle" => req[q] \in Req
  BY DEF Begun
<1>00. Blank \in Record
  BY DEF Blank, Record
<1>000. \A q \in Req : kv[q].user # NoUser => kv[q].user \in User
  BY DEF TypeOK, Record
<1> USE <1>0, <1>00, <1>000
<1>1. ASSUME NEW r \in Req, Authorize(r) PROVE IInv'
  <2> USE <1>1 DEF Authorize, Count, Put, Made, Blank
  <2>1. Carried BY Carry DEF Grows, TypeOK
  <2>a. PICK rec \in Record :
          /\ stored' = stored \union {r} /\ kv' = [kv EXCEPT ![r] = rec] /\ UNCHANGED codes
          /\ ~rec.done /\ rec.amr = "none"
          /\ rec.user \in User => <<r, rec.user, "hint">> \in proved'
    <3>1. CASE Put(r, Blank) BY <3>1
    <3>2. ASSUME NEW u \in User, Put(r, [Blank EXCEPT !.user = u]),
                 proved' = proved \union {<<r, u, "hint">>}
          PROVE  \E rec \in Record :
                    /\ stored' = stored \union {r} /\ kv' = [kv EXCEPT ![r] = rec]
                    /\ UNCHANGED codes
                    /\ ~rec.done /\ rec.amr = "none"
                    /\ rec.user \in User => <<r, rec.user, "hint">> \in proved'
      <4> DEFINE rec == [Blank EXCEPT !.user = u]
      <4>1. rec \in Record /\ ~rec.done /\ rec.amr = "none" /\ rec.user = u
        BY DEF Record
      <4>2. stored' = stored \union {r} /\ kv' = [kv EXCEPT ![r] = rec] /\ UNCHANGED codes
        BY <3>2
      <4> QED BY <3>2, <4>1, <4>2
    <3> QED BY <3>1, <3>2
  <2>e. kv' \in [Req -> Record] /\ stored' \subseteq Req /\ codes' = codes
    BY <2>a DEF TypeOK
  <2>f. scopes' \in [Req -> SUBSET Scope] /\ scopes'[r] # {}
    <3>1. PICK ss \in (SUBSET Scope) \ {{}} : scopes' = [scopes EXCEPT ![r] = ss]
      OBVIOUS
    <3> HIDE <1>1
    <3> QED BY <3>1 DEF TypeOK
  <2>g. \A q \in Req : scopes[q] # {} => scopes'[q] # {}
    BY DEF TypeOK
  <2>h. proved' \subseteq Req \X User \X (Method \union {"hint"})
    BY DEF TypeOK
  <2>b. r \notin stored /\ ~AtWork(r, PC \ {"idle"})
    BY DEF Begun
  <2>c. (\A k \in Code : codes[k] # r) /\ \A g \in grants : g[1] # r
    BY DEF Begun
  <2>d. \A q \in Proc : pc[q] # "idle" => req[q] # r
    BY <2>b DEF AtWork, TypeOK
  <2>2. TypeOK' BY <2>e, <2>f, <2>h DEF TypeOK, PC, Method
  <2>3. Begun' BY <2>a, <2>f, <2>g DEF Begun, AtWork, PC, Made, TypeOK
  <2>4. SubjectKept'
    <3>5. UNCHANGED <<pc, req, who, buf, codes, early, grants>> BY <2>a
    <3> HIDE <1>1
    <3>1. \A q \in stored' : q = r \/ (q \in stored /\ kv'[q] = kv[q]) BY <2>a DEF TypeOK
    <3>2. \A q \in Req \ stored' : q \notin stored /\ kv'[q] = kv[q] BY <2>a DEF TypeOK
    <3>3. ~kv'[r].done BY <2>a DEF TypeOK
    <3>4. ~AtWork(r, PC \ {"idle", "setRead", "setWrite"}) BY <2>b DEF AtWork
    <3> QED BY ZenonT(30), <2>b, <2>c, <3>1, <3>2, <3>3, <3>4, <3>5 DEF SubjectKept, AtWork, TypeOK
  <2>5. NamedLoggedIn'
    <3>1. \A u \in User : rec.user = u => LoggedIn(u, r)' BY <2>a DEF LoggedIn
    <3> QED BY <2>1, <2>a, <3>1 DEF Carried, NamedLoggedIn, Named, TypeOK
  <2>7. ConsentFounded' BY <2>1 DEF Carried, ConsentFounded, AtWork, TypeOK
  <2>8. ClearedSettled' BY <2>1 DEF Carried, ClearedSettled, Cleared, AtWork, TypeOK, Blank
  <2>9. MarkFounded' BY <2>1 DEF Carried, MarkFounded, MarkedWebauthn, TypeOK, Blank
  <2>10. Spent' BY <2>a, <2>b, <2>c DEF Spent, AtWork, TypeOK
  <2>11. GrantedOnce' BY DEF GrantedOnce, Spent, AtWork
  <2> QED BY <2>2, <2>3, <2>4, <2>5, <2>7, <2>8, <2>9, <2>10, <2>11 DEF IInv
<1>2. ASSUME NEW p \in Proc, RefuseNobody(p) PROVE IInv'
  <2> USE <1>2 DEF RefuseNobody, Goto, Done
  <2>1. Carried BY Carry DEF Grows
  <2>2. TypeOK' BY DEF TypeOK, PC, Method
  <2>3. Begun' BY DEF Begun, AtWork, PC, Made, TypeOK
  <2>4. SubjectKept' BY DEF SubjectKept, AtWork, PC, TypeOK
  <2>5. NamedLoggedIn' BY <2>1 DEF Carried, NamedLoggedIn, Named, TypeOK, Blank
  <2>7. ConsentFounded' BY <2>1 DEF Carried, ConsentFounded, AtWork, TypeOK
  <2>8. ClearedSettled' BY <2>1 DEF Carried, ClearedSettled, Cleared, AtWork, TypeOK, Blank
  <2>9. MarkFounded' BY <2>1 DEF Carried, MarkFounded, MarkedWebauthn, TypeOK, Blank
  <2>10. Spent' BY DEF Spent, AtWork, TypeOK
  <2>11. GrantedOnce' BY DEF GrantedOnce, Spent, AtWork
  <2> QED BY <2>2, <2>3, <2>4, <2>5, <2>7, <2>8, <2>9, <2>10, <2>11 DEF IInv
<1>3. ASSUME NEW r \in Req, RequestExpires(r) PROVE IInv'
  <2> USE <1>3 DEF RequestExpires, Remove
  <2>1. Carried BY Carry DEF Grows
  <2>2. TypeOK' BY DEF TypeOK, PC, Method
  <2>3. Begun' BY DEF Begun, AtWork, PC, Made, TypeOK
  <2>4. SubjectKept' BY DEF SubjectKept, AtWork, PC, TypeOK
  <2>5. NamedLoggedIn' BY <2>1 DEF Carried, NamedLoggedIn, Named, TypeOK, Blank
  <2>7. ConsentFounded' BY <2>1 DEF Carried, ConsentFounded, AtWork, TypeOK
  <2>8. ClearedSettled' BY <2>1 DEF Carried, ClearedSettled, Cleared, AtWork, TypeOK, Blank
  <2>9. MarkFounded' BY <2>1 DEF Carried, MarkFounded, MarkedWebauthn, TypeOK, Blank
  <2>10. Spent' BY DEF Spent, AtWork, TypeOK
  <2>11. GrantedOnce' BY DEF GrantedOnce, Spent, AtWork
  <2> QED BY <2>2, <2>3, <2>4, <2>5, <2>7, <2>8, <2>9, <2>10, <2>11 DEF IInv
<1>4. ASSUME NEW u \in User, RegisterPasskey(u) PROVE IInv'
  <2> USE <1>4 DEF RegisterPasskey
  <2>1. Carried BY Carry DEF Grows
  <2>2. TypeOK' BY DEF TypeOK, PC, Method
  <2>3. Begun' BY DEF Begun, AtWork, PC, Made, TypeOK
  <2>4. SubjectKept' BY DEF SubjectKept, AtWork, PC, TypeOK
  <2>5. NamedLoggedIn' BY <2>1 DEF Carried, NamedLoggedIn, Named, TypeOK, Blank
  <2>7. ConsentFounded' BY <2>1 DEF Carried, ConsentFounded, AtWork, TypeOK
  <2>8. ClearedSettled' BY <2>1 DEF Carried, ClearedSettled, Cleared, AtWork, TypeOK, Blank
  <2>9. MarkFounded' BY <2>1 DEF Carried, MarkFounded, MarkedWebauthn, TypeOK, Blank
  <2>10. Spent' BY DEF Spent, AtWork, TypeOK
  <2>11. GrantedOnce' BY DEF GrantedOnce, Spent, AtWork
  <2> QED BY <2>2, <2>3, <2>4, <2>5, <2>7, <2>8, <2>9, <2>10, <2>11 DEF IInv
<1>5. ASSUME NEW p \in Proc, BeginPassword(p) PROVE IInv'
  <2> USE <1>5 DEF BeginPassword, Start, Goto, Count, Made
  <2>1. Carried BY Carry DEF Grows
  <2>a. PICK r \in Req, u \in User :
          /\ Start(p, "setRead", r, u, "pwd") /\ proved' = proved \union {<<r, u, "pwd">>}
    BY DEF TypeOK
  <2>b. LoggedIn(u, r)' BY <2>a DEF LoggedIn, Method
  <2>2. TypeOK' BY DEF TypeOK, PC, Method
  <2>3. Begun' BY DEF Begun, AtWork, PC, Made, TypeOK
  <2>4. SubjectKept' BY DEF SubjectKept, AtWork, PC, TypeOK
  <2>5. NamedLoggedIn' BY <2>1, <2>a, <2>b DEF Carried, NamedLoggedIn, Named, TypeOK, Blank
  <2>7. ConsentFounded' BY <2>1 DEF Carried, ConsentFounded, AtWork, TypeOK
  <2>8. ClearedSettled' BY <2>1 DEF Carried, ClearedSettled, Cleared, AtWork, TypeOK, Blank
  <2>9. MarkFounded' BY <2>1 DEF Carried, MarkFounded, MarkedWebauthn, TypeOK, Blank
  <2>10. Spent' BY DEF Spent, AtWork, TypeOK
  <2>11. GrantedOnce' BY DEF GrantedOnce, Spent, AtWork
  <2> QED BY <2>2, <2>3, <2>4, <2>5, <2>7, <2>8, <2>9, <2>10, <2>11 DEF IInv
<1>6. ASSUME NEW p \in Proc, BeginPasskey(p) PROVE IInv'
  <2> USE <1>6 DEF BeginPasskey, Start, Goto, Count, Made
  <2>1. Carried BY Carry DEF Grows
  <2>a. PICK r \in Req, u \in User :
          /\ Start(p, "setRead", r, u, "webauthn") /\ proved' = proved \union {<<r, u, "webauthn">>}
    BY DEF TypeOK
  <2>b. LoggedIn(u, r)' BY <2>a DEF LoggedIn, Method
  <2>2. TypeOK' BY DEF TypeOK, PC, Method
  <2>3. Begun' BY DEF Begun, AtWork, PC, Made, TypeOK
  <2>4. SubjectKept' BY DEF SubjectKept, AtWork, PC, TypeOK
  <2>5. NamedLoggedIn' BY <2>1, <2>a, <2>b DEF Carried, NamedLoggedIn, Named, TypeOK, Blank
  <2>7. ConsentFounded' BY <2>1 DEF Carried, ConsentFounded, AtWork, TypeOK
  <2>8. ClearedSettled' BY <2>1 DEF Carried, ClearedSettled, Cleared, AtWork, TypeOK, Blank
  <2>9. MarkFounded'
    <3>1. ShownOn(r)' BY <2>a DEF ShownOn
    <3> QED BY <2>1, <2>a, <3>1 DEF Carried, MarkFounded, MarkedWebauthn, TypeOK
  <2>10. Spent' BY DEF Spent, AtWork, TypeOK
  <2>11. GrantedOnce' BY DEF GrantedOnce, Spent, AtWork
  <2> QED BY <2>2, <2>3, <2>4, <2>5, <2>7, <2>8, <2>9, <2>10, <2>11 DEF IInv
<1>7. ASSUME NEW p \in Proc, BeginConsent(p) PROVE IInv'
  <2> USE <1>7 DEF BeginConsent, Posted, Start, Goto, Count, Made
  <2>1. Carried BY Carry DEF Grows
  <2>r. PICK r \in Req : Start(p, "approve", r, NoUser, "pwd") /\ Posted(r)
    OBVIOUS
  <2>s. \A q \in Proc : req'[q] = req[q] \/ (q = p /\ req'[q] = r)
    BY <2>r DEF TypeOK
  <2>b. r \notin early' => \E u \in User : LoggedIn(u, r) /\ <<r, u>> \in agreed'
    BY <2>r DEF NamedLoggedIn, Named
  <2>a. ASSUME NEW q \in Req \ early',
               AtWork(q, {"approve", "mergeRead", "mergeWrite"})'
        PROVE  AtWork(q, {"approve", "mergeRead", "mergeWrite"}) \/ AgreedOn(q)'
    <3>1. CASE q = r BY <2>b, <3>1 DEF AgreedOn
    <3>2. CASE q # r
      <4>1. PICK x \in Proc :
              req'[x] = q /\ pc'[x] \in {"approve", "mergeRead", "mergeWrite"}
        BY <2>a DEF AtWork
      <4>2. x # p BY <2>r, <3>2, <4>1 DEF TypeOK
      <4>3. req[x] = q /\ pc[x] \in {"approve", "mergeRead", "mergeWrite"}
        BY <2>r, <4>1, <4>2 DEF TypeOK
      <4> QED BY <4>3 DEF AtWork
    <3> QED BY <3>1, <3>2
  <2>2. TypeOK' BY DEF TypeOK, PC, Method
  <2>3. Begun' BY DEF Begun, AtWork, PC, Made, TypeOK
  <2>4. SubjectKept' BY DEF SubjectKept, AtWork, PC, TypeOK
  <2>5. NamedLoggedIn'
    <3>1. ASSUME NEW q \in Req, NEW u \in User, <<q, u>> \in agreed' PROVE LoggedIn(u, q)'
      <4>1. <<q, u>> \in agreed \/ LoggedIn(u, q) BY <3>1
      <4> QED BY <2>1, <4>1 DEF Carried, Named
    <3> QED BY <2>1, <3>1 DEF Carried, NamedLoggedIn, Named, TypeOK
  <2>7. ConsentFounded'
    <3>1. \A u \in User : Undisturbed(u)' => consent'[u] \subseteq AgreedScopes(u)'
      BY <2>1 DEF Carried, ConsentFounded, TypeOK
    <3>2. \A u \in User, q \in Proc :
           pc'[q] = "mergeWrite" /\ who'[q] = u /\ Undisturbed(u)' => mem'[q] \subseteq AgreedScopes(u)'
      BY <2>1 DEF Carried, ConsentFounded, TypeOK
    <3>3. \A q \in Req \ early' :
           AtWork(q, {"approve", "mergeRead", "mergeWrite"})' => AgreedOn(q)'
      BY <2>1, <2>a DEF Carried, ConsentFounded
    <3> QED BY <3>1, <3>2, <3>3 DEF ConsentFounded
  <2>8. ClearedSettled'
    <3>1. ASSUME r \notin early' PROVE Settled(r)'
      <4>1. PICK u \in User : LoggedIn(u, r) /\ <<r, u>> \in agreed' BY <2>b, <3>1
      <4>2. scopes'[r] \subseteq AgreedScopes(u)' BY <4>1 DEF AgreedScopes, TypeOK
      <4>3. LoggedIn(u, r)' BY <2>1, <4>1 DEF Carried
      <4> QED BY <4>2, <4>3 DEF Settled
    <3>2. ASSUME NEW q \in Req \ early', q # r, Cleared(q)' PROVE Cleared(q)
      BY <2>r, <3>2 DEF Cleared, AtWork, TypeOK
    <3> QED BY <2>1, <3>1, <3>2 DEF Carried, ClearedSettled
  <2>9. MarkFounded' BY <2>1 DEF Carried, MarkFounded, MarkedWebauthn, TypeOK, Blank
  <2>10. Spent' BY DEF Spent, AtWork, TypeOK
  <2>11. GrantedOnce' BY DEF GrantedOnce, Spent, AtWork
  <2> QED BY <2>2, <2>3, <2>4, <2>5, <2>7, <2>8, <2>9, <2>10, <2>11 DEF IInv
<1>8. ASSUME NEW p \in Proc, BeginCallback(p) PROVE IInv'
  <2> USE <1>8 DEF BeginCallback, Start, Goto, Count
  <2>1. Carried BY Carry DEF Grows
  <2>2. TypeOK' BY DEF TypeOK, PC, Method
  <2>3. Begun' BY DEF Begun, AtWork, PC, Made, TypeOK
  <2>4. SubjectKept' BY DEF SubjectKept, AtWork, PC, TypeOK
  <2>5. NamedLoggedIn' BY <2>1 DEF Carried, NamedLoggedIn, Named, TypeOK, Blank
  <2>7. ConsentFounded' BY <2>1 DEF Carried, ConsentFounded, AtWork, TypeOK
  <2>8. ClearedSettled' BY <2>1 DEF Carried, ClearedSettled, Cleared, AtWork, TypeOK, Blank
  <2>9. MarkFounded' BY <2>1 DEF Carried, MarkFounded, MarkedWebauthn, TypeOK, Blank
  <2>10. Spent' BY DEF Spent, AtWork, TypeOK
  <2>11. GrantedOnce' BY DEF GrantedOnce, Spent, AtWork
  <2> QED BY <2>2, <2>3, <2>4, <2>5, <2>7, <2>8, <2>9, <2>10, <2>11 DEF IInv
<1>9. ASSUME NEW p \in Proc, BeginExchange(p) PROVE IInv'
  <2> USE <1>9 DEF BeginExchange, Start, Goto, Count
  <2>1. Carried BY Carry DEF Grows
  <2>2. TypeOK' BY DEF TypeOK, PC, Method
  <2>3. Begun' BY DEF Begun, AtWork, PC, Made, TypeOK
  <2>4. SubjectKept' BY DEF SubjectKept, AtWork, PC, TypeOK
  <2>5. NamedLoggedIn' BY <2>1 DEF Carried, NamedLoggedIn, Named, TypeOK, Blank
  <2>7. ConsentFounded' BY <2>1 DEF Carried, ConsentFounded, AtWork, TypeOK
  <2>8. ClearedSettled' BY <2>1 DEF Carried, ClearedSettled, Cleared, AtWork, TypeOK, Blank
  <2>9. MarkFounded' BY <2>1 DEF Carried, MarkFounded, MarkedWebauthn, TypeOK, Blank
  <2>10. Spent' BY DEF Spent, AtWork, TypeOK
  <2>11. GrantedOnce' BY DEF GrantedOnce, Spent, AtWork
  <2> QED BY <2>2, <2>3, <2>4, <2>5, <2>7, <2>8, <2>9, <2>10, <2>11 DEF IInv
<1>10. ASSUME NEW p \in Proc, SetRead(p) PROVE IInv'
  <2> USE <1>10 DEF SetRead, ReadThen, Goto, Done
  <2>1. Carried BY Carry DEF Grows
  <2>2. TypeOK' BY DEF TypeOK, PC, Method
  <2>3. Begun' BY DEF Begun, AtWork, PC, Made, TypeOK
  <2>4. SubjectKept' BY DEF SubjectKept, AtWork, PC, TypeOK
  <2>5. NamedLoggedIn' BY <2>1 DEF Carried, NamedLoggedIn, Named, TypeOK, Blank
  <2>7. ConsentFounded' BY <2>1 DEF Carried, ConsentFounded, AtWork, TypeOK
  <2>8. ClearedSettled' BY <2>1 DEF Carried, ClearedSettled, Cleared, AtWork, TypeOK, Blank
  <2>9. MarkFounded' BY <2>1 DEF Carried, MarkFounded, MarkedWebauthn, TypeOK, Blank
  <2>10. Spent' BY DEF Spent, AtWork, TypeOK
  <2>11. GrantedOnce' BY DEF GrantedOnce, Spent, AtWork
  <2> QED BY <2>2, <2>3, <2>4, <2>5, <2>7, <2>8, <2>9, <2>10, <2>11 DEF IInv
<1>11. ASSUME NEW p \in Proc, SetWrite(p) PROVE IInv'
  <2> USE <1>11 DEF SetWrite, Put, Goto, WithUser
  <2>1. Carried BY Carry DEF Grows
  <2>2. TypeOK'
    <3>1. [buf[p] EXCEPT !.user = who[p]] \in Record BY DEF TypeOK, Record, SubjectKept
    <3> QED BY <3>1 DEF TypeOK, PC
  <2>3. Begun' BY DEF Begun, AtWork, PC, Made, TypeOK
  <2>4. SubjectKept' BY DEF SubjectKept, AtWork, PC, TypeOK
  <2>5. NamedLoggedIn' BY <2>1 DEF Carried, NamedLoggedIn, Named, TypeOK, Blank
  <2>7. ConsentFounded' BY <2>1 DEF Carried, ConsentFounded, AtWork, TypeOK
  <2>8. ClearedSettled' BY <2>1 DEF Carried, ClearedSettled, Cleared, AtWork, TypeOK, Blank
  <2>9. MarkFounded' BY <2>1 DEF Carried, MarkFounded, MarkedWebauthn, TypeOK, Blank
  <2>10. Spent' BY DEF Spent, AtWork, TypeOK
  <2>11. GrantedOnce' BY DEF GrantedOnce, Spent, AtWork
  <2> QED BY <2>2, <2>3, <2>4, <2>5, <2>7, <2>8, <2>9, <2>10, <2>11 DEF IInv
<1>12. ASSUME NEW p \in Proc, Reread(p) PROVE IInv'
  <2> USE <1>12 DEF Reread, Continue, Goto, Done
  <2>1. Carried BY Carry DEF Grows
  <2>2. TypeOK' BY DEF TypeOK, PC, Method
  <2>3. Begun' BY DEF Begun, AtWork, PC, Made, TypeOK
  <2>4. SubjectKept' BY DEF SubjectKept, AtWork, PC, TypeOK
  <2>5. NamedLoggedIn' BY <2>1 DEF Carried, NamedLoggedIn, Named, TypeOK, Blank
  <2>7. ConsentFounded' BY <2>1 DEF Carried, ConsentFounded, AtWork, TypeOK
  <2>8. ClearedSettled' BY <2>1 DEF Carried, ClearedSettled, Cleared, AtWork, TypeOK, Blank
  <2>9. MarkFounded' BY <2>1 DEF Carried, MarkFounded, MarkedWebauthn, TypeOK, Blank
  <2>10. Spent' BY DEF Spent, AtWork, TypeOK
  <2>11. GrantedOnce' BY DEF GrantedOnce, Spent, AtWork
  <2> QED BY <2>2, <2>3, <2>4, <2>5, <2>7, <2>8, <2>9, <2>10, <2>11 DEF IInv
<1>13. ASSUME NEW p \in Proc, CheckScopes(p) PROVE IInv'
  <2> USE <1>13 DEF CheckScopes, Continue, Goto, Done
  <2>1. Carried BY Carry DEF Grows
  <2>2. TypeOK' BY DEF TypeOK, PC, Method
  <2>3. Begun' BY DEF Begun, AtWork, PC, Made, TypeOK
  <2>4. SubjectKept' BY DEF SubjectKept, AtWork, PC, TypeOK
  <2>5. NamedLoggedIn' BY <2>1 DEF Carried, NamedLoggedIn, Named, TypeOK, Blank
  <2>7. ConsentFounded' BY <2>1 DEF Carried, ConsentFounded, AtWork, TypeOK
  <2>8. ClearedSettled'
    <3>1. ASSUME NEW q \in Req, req[p] = q, Consented(who[p], q) PROVE Settled(q)'
      <4>1. who[p] \in User /\ Named(who[p], q) BY <3>1 DEF Named, TypeOK
      <4>2. LoggedIn(who[p], q)' BY <4>1, <2>1, <3>1 DEF Carried
      <4>3. \A u \in User : u = who[p] /\ Undisturbed(u)' => scopes'[q] \subseteq AgreedScopes(u)'
        BY <2>1, <3>1, <4>1 DEF Carried, ConsentFounded, Consented
      <4>4. PICK u \in User : u = who[p] BY <4>1
      <4>5. LoggedIn(u, q)'
        BY <2>1, <4>1, <4>4 DEF Carried
      <4> QED BY <4>3, <4>4, <4>5 DEF Settled
    <3> QED BY <2>1, <3>1 DEF Carried, ClearedSettled, Cleared, AtWork, TypeOK, Blank
  <2>9. MarkFounded' BY <2>1 DEF Carried, MarkFounded, MarkedWebauthn, TypeOK, Blank
  <2>10. Spent' BY DEF Spent, AtWork, TypeOK
  <2>11. GrantedOnce' BY DEF GrantedOnce, Spent, AtWork
  <2> QED BY <2>2, <2>3, <2>4, <2>5, <2>7, <2>8, <2>9, <2>10, <2>11 DEF IInv
<1>14. ASSUME NEW p \in Proc, Approve(p) PROVE IInv'
  <2> USE <1>14 DEF Approve, Continue, Goto
  <2>1. Carried BY Carry DEF Grows
  <2>2. TypeOK' BY DEF TypeOK, PC, Method
  <2>3. Begun' BY DEF Begun, AtWork, PC, Made, TypeOK
  <2>4. SubjectKept' BY DEF SubjectKept, AtWork, PC, TypeOK
  <2>5. NamedLoggedIn' BY <2>1 DEF Carried, NamedLoggedIn, Named, TypeOK, Blank
  <2>7. ConsentFounded' BY <2>1 DEF Carried, ConsentFounded, AtWork, TypeOK
  <2>8. ClearedSettled' BY <2>1 DEF Carried, ClearedSettled, Cleared, AtWork, TypeOK, Blank
  <2>9. MarkFounded' BY <2>1 DEF Carried, MarkFounded, MarkedWebauthn, TypeOK, Blank
  <2>10. Spent' BY DEF Spent, AtWork, TypeOK
  <2>11. GrantedOnce' BY DEF GrantedOnce, Spent, AtWork
  <2> QED BY <2>2, <2>3, <2>4, <2>5, <2>7, <2>8, <2>9, <2>10, <2>11 DEF IInv
<1>15. ASSUME NEW p \in Proc, MergeRead(p) PROVE IInv'
  <2> USE <1>15 DEF MergeRead, Goto
  <2>1. Carried BY Carry DEF Grows
  <2>2. TypeOK' BY DEF TypeOK, PC, Method, SubjectKept
  <2>3. Begun' BY DEF Begun, AtWork, PC, Made, TypeOK
  <2>4. SubjectKept' BY DEF SubjectKept, AtWork, PC, TypeOK
  <2>5. NamedLoggedIn' BY <2>1 DEF Carried, NamedLoggedIn, Named, TypeOK, Blank
  <2>7. ConsentFounded' BY <2>1 DEF Carried, ConsentFounded, AtWork, TypeOK
  <2>8. ClearedSettled' BY <2>1 DEF Carried, ClearedSettled, Cleared, AtWork, TypeOK, Blank
  <2>9. MarkFounded' BY <2>1 DEF Carried, MarkFounded, MarkedWebauthn, TypeOK, Blank
  <2>10. Spent' BY DEF Spent, AtWork, TypeOK
  <2>11. GrantedOnce' BY DEF GrantedOnce, Spent, AtWork
  <2> QED BY <2>2, <2>3, <2>4, <2>5, <2>7, <2>8, <2>9, <2>10, <2>11 DEF IInv
<1>16. ASSUME NEW p \in Proc, MergeWrite(p) PROVE IInv'
  <2> USE <1>16 DEF MergeWrite, Goto
  <2>1. Carried BY Carry DEF Grows
  <2>2. TypeOK' BY DEF TypeOK, PC, Method
  <2>3. Begun' BY DEF Begun, AtWork, PC, Made, TypeOK
  <2>4. SubjectKept' BY DEF SubjectKept, AtWork, PC, TypeOK
  <2>5. NamedLoggedIn' BY <2>1 DEF Carried, NamedLoggedIn, Named, TypeOK, Blank
  <2>7. ConsentFounded'
    <3>1. \A u \in User : Undisturbed(u)' => consent'[u] \subseteq AgreedScopes(u)'
      <4> SUFFICES ASSUME NEW u \in User, Undisturbed(u)'
                   PROVE  consent'[u] \subseteq AgreedScopes(u)'
        OBVIOUS
      <4>1. consent[u] \subseteq AgreedScopes(u)' BY <2>1 DEF Carried, ConsentFounded
      <4>2. CASE who[p] = u
        <5>1. mem[p] \subseteq AgreedScopes(u)' BY <2>1, <4>2 DEF Carried, ConsentFounded
        <5>0. LoggedIn(u, req[p]) /\ Undisturbed(u) /\ req[p] \in Req
          BY <2>1, <4>2 DEF Named, NamedLoggedIn, Carried
        <5>2. PICK v \in User : <<req[p], v>> \in agreed
          BY <5>0 DEF ConsentFounded, AtWork, AgreedOn, Undisturbed
        <5>3. LoggedIn(v, req[p])
          BY <5>0, <5>2 DEF Named, NamedLoggedIn
        <5>4. u = v BY <5>0, <5>3 DEF Undisturbed, Alone
        <5>5. scopes[req[p]] \subseteq AgreedScopes(u) BY <5>2, <5>4 DEF AgreedScopes, TypeOK
        <5>6. scopes[req[p]] \subseteq AgreedScopes(u)' BY <2>1, <5>5 DEF Carried
        <5>7. consent'[u] = mem[p] \union scopes[req[p]] BY <4>2 DEF TypeOK
        <5> QED BY <5>1, <5>6, <5>7
      <4>3. CASE who[p] # u
        BY <4>1, <4>3 DEF TypeOK
      <4> QED BY <4>2, <4>3
    <3>2. \A u \in User, q \in Proc :
           pc'[q] = "mergeWrite" /\ who'[q] = u /\ Undisturbed(u)' => mem'[q] \subseteq AgreedScopes(u)'
      BY <2>1 DEF Carried, ConsentFounded, TypeOK
    <3>3. \A r \in Req \ early' :
           AtWork(r, {"approve", "mergeRead", "mergeWrite"})' => AgreedOn(r)'
      BY <2>1 DEF Carried, ConsentFounded, TypeOK, AtWork
    <3> QED BY <3>1, <3>2, <3>3 DEF ConsentFounded
  <2>8. ClearedSettled' BY <2>1 DEF Carried, ClearedSettled, Cleared, AtWork, TypeOK, Blank
  <2>9. MarkFounded' BY <2>1 DEF Carried, MarkFounded, MarkedWebauthn, TypeOK, Blank
  <2>10. Spent' BY DEF Spent, AtWork, TypeOK
  <2>11. GrantedOnce' BY DEF GrantedOnce, Spent, AtWork
  <2> QED BY <2>2, <2>3, <2>4, <2>5, <2>7, <2>8, <2>9, <2>10, <2>11 DEF IInv
<1>17. ASSUME NEW p \in Proc, FinRead(p) PROVE IInv'
  <2> USE <1>17 DEF FinRead, ReadThen, Goto, Done
  <2>1. Carried BY Carry DEF Grows
  <2>2. TypeOK' BY DEF TypeOK, PC, Method
  <2>3. Begun' BY DEF Begun, AtWork, PC, Made, TypeOK
  <2>4. SubjectKept' BY DEF SubjectKept, AtWork, PC, TypeOK
  <2>5. NamedLoggedIn' BY <2>1 DEF Carried, NamedLoggedIn, Named, TypeOK, Blank
  <2>7. ConsentFounded' BY <2>1 DEF Carried, ConsentFounded, AtWork, TypeOK
  <2>8. ClearedSettled' BY <2>1 DEF Carried, ClearedSettled, Cleared, AtWork, TypeOK, Blank
  <2>9. MarkFounded' BY <2>1 DEF Carried, MarkFounded, MarkedWebauthn, TypeOK, Blank
  <2>10. Spent'
    <3>1. \A q \in Proc : req'[q] \in Req /\ pc'[q] = "mint" => pc[q] = "mint" /\ req[q] = req'[q]
      BY DEF TypeOK
    <3>2. ASSUME NEW r \in Req, AtWork(r, {"setWrite", "finWrite", "mint"})'
          PROVE  r \in stored \/ AtWork(r, {"setWrite", "finWrite", "mint"})
      BY <3>2 DEF AtWork, TypeOK
    <3>3. \A g \in grants : g[1] \in Req BY DEF TypeOK
    <3> HIDE <1>17
    <3>4. UNCHANGED <<stored, grants, contested>> BY <1>17
    <3> QED BY <3>1, <3>2, <3>3, <3>4 DEF Spent
  <2>11. GrantedOnce' BY DEF GrantedOnce, Spent, AtWork
  <2> QED BY <2>2, <2>3, <2>4, <2>5, <2>7, <2>8, <2>9, <2>10, <2>11 DEF IInv
<1>18. ASSUME NEW p \in Proc, FinWrite(p) PROVE IInv'
  <2> USE <1>18 DEF FinWrite, Put, Goto, Done
  <2>1. Carried BY Carry DEF Grows
  <2>2. TypeOK'
    <3>1. [buf[p] EXCEPT !.done = TRUE, !.amr = how[p]] \in Record BY DEF TypeOK, Record
    <3> QED BY <3>1 DEF TypeOK, PC, Method
  <2>3. Begun' BY DEF Begun, AtWork, PC, Made, TypeOK
  <2>4. SubjectKept' BY DEF SubjectKept, AtWork, PC, TypeOK
  <2>5. NamedLoggedIn' BY <2>1 DEF Carried, NamedLoggedIn, Named, TypeOK, Blank
  <2>7. ConsentFounded' BY <2>1 DEF Carried, ConsentFounded, AtWork, TypeOK
  <2>8. ClearedSettled' BY <2>1 DEF Carried, ClearedSettled, Cleared, AtWork, TypeOK, Blank
  <2>9. MarkFounded' BY <2>1 DEF Carried, MarkFounded, MarkedWebauthn, TypeOK, Blank
  <2>10. Spent' BY DEF Spent, AtWork, TypeOK
  <2>11. GrantedOnce' BY DEF GrantedOnce, Spent, AtWork
  <2> QED BY <2>2, <2>3, <2>4, <2>5, <2>7, <2>8, <2>9, <2>10, <2>11 DEF IInv
<1>19. ASSUME NEW p \in Proc, SaveCode(p) PROVE IInv'
  <2> USE <1>19 DEF SaveCode, Goto, Done
  <2>1. Carried BY Carry DEF Grows
  <2>2. TypeOK' BY DEF TypeOK, PC, Method
  <2>3. Begun' BY DEF Begun, AtWork, PC, Made, TypeOK
  <2>4. SubjectKept' BY DEF SubjectKept, AtWork, PC, TypeOK
  <2>5. NamedLoggedIn' BY <2>1 DEF Carried, NamedLoggedIn, Named, TypeOK, Blank
  <2>7. ConsentFounded' BY <2>1 DEF Carried, ConsentFounded, AtWork, TypeOK
  <2>8. ClearedSettled' BY <2>1 DEF Carried, ClearedSettled, Cleared, AtWork, TypeOK, Blank
  <2>9. MarkFounded' BY <2>1 DEF Carried, MarkFounded, MarkedWebauthn, TypeOK, Blank
  <2>10. Spent' BY DEF Spent, AtWork, TypeOK
  <2>11. GrantedOnce' BY DEF GrantedOnce, Spent, AtWork
  <2> QED BY <2>2, <2>3, <2>4, <2>5, <2>7, <2>8, <2>9, <2>10, <2>11 DEF IInv
<1>20. ASSUME NEW p \in Proc, ExRead(p) PROVE IInv'
  <2> USE <1>20 DEF ExRead, ReadThen, Goto, Done
  <2>1. Carried BY Carry DEF Grows
  <2>2. TypeOK' BY DEF TypeOK, PC, Method
  <2>3. Begun' BY DEF Begun, AtWork, PC, Made, TypeOK
  <2>4. SubjectKept' BY DEF SubjectKept, AtWork, PC, TypeOK
  <2>5. NamedLoggedIn' BY <2>1 DEF Carried, NamedLoggedIn, Named, TypeOK, Blank
  <2>7. ConsentFounded' BY <2>1 DEF Carried, ConsentFounded, AtWork, TypeOK
  <2>8. ClearedSettled' BY <2>1, SMTT(30) DEF Carried, ClearedSettled, Cleared, AtWork,
      TypeOK, Blank
  <2>9. MarkFounded' BY <2>1 DEF Carried, MarkFounded, MarkedWebauthn, TypeOK, Blank
  <2>10. Spent' BY DEF Spent, AtWork, TypeOK
  <2>11. GrantedOnce' BY DEF GrantedOnce, Spent, AtWork
  <2> QED BY <2>2, <2>3, <2>4, <2>5, <2>7, <2>8, <2>9, <2>10, <2>11 DEF IInv
<1>21. ASSUME NEW p \in Proc, Exchange(p) PROVE IInv'
  <2> USE <1>21 DEF Exchange, DeleteAuthRequest, Remove, Deliver, Amr, Goto, Done
  <2>1. Carried BY Carry DEF Grows
  <2>2. TypeOK'
    <3>1. buf[p].user \in User \union {NoUser} /\ Amr(buf[p]) \in Method \union {"none"}
      BY DEF TypeOK, Record
    <3> QED BY <3>1 DEF TypeOK, PC, Method
  <2>3. Begun' BY DEF Begun, AtWork, PC, Made, TypeOK
  <2>4. SubjectKept' BY DEF SubjectKept, AtWork, PC, TypeOK
  <2>5. NamedLoggedIn' BY <2>1 DEF Carried, NamedLoggedIn, Named, TypeOK, Blank
  <2>7. ConsentFounded' BY <2>1 DEF Carried, ConsentFounded, AtWork, TypeOK
  <2>8. ClearedSettled' BY <2>1 DEF Carried, ClearedSettled, Cleared, AtWork, TypeOK, Blank
  <2>9. MarkFounded' BY <2>1 DEF Carried, MarkFounded, MarkedWebauthn, TypeOK, Blank
  <2>10. Spent' BY DEF Spent, AtWork, TypeOK
  <2>11. GrantedOnce' BY DEF GrantedOnce, Spent, AtWork
  <2> QED BY <2>2, <2>3, <2>4, <2>5, <2>7, <2>8, <2>9, <2>10, <2>11 DEF IInv
<1>22. ASSUME NEW p \in Proc, Fail(p) PROVE IInv'
  <2> USE <1>22 DEF Fail, Fault, Continue, Goto, Done
  <2>1. Carried BY Carry DEF Grows
  <2>2. TypeOK' BY DEF TypeOK, PC, Method
  <2>3. Begun' BY DEF Begun, AtWork, PC, Made, TypeOK
  <2>4. SubjectKept' BY DEF SubjectKept, AtWork, PC, TypeOK
  <2>5. NamedLoggedIn' BY <2>1 DEF Carried, NamedLoggedIn, Named, TypeOK, Blank
  <2>7. ConsentFounded' BY <2>1 DEF Carried, ConsentFounded, AtWork, TypeOK
  <2>8. ClearedSettled' BY <2>1 DEF Carried, ClearedSettled, Cleared, AtWork, TypeOK, Blank
  <2>9. MarkFounded' BY <2>1 DEF Carried, MarkFounded, MarkedWebauthn, TypeOK, Blank
  <2>10. Spent' BY DEF Spent, AtWork, TypeOK
  <2>11. GrantedOnce' BY DEF GrantedOnce, Spent, AtWork
  <2> QED BY <2>2, <2>3, <2>4, <2>5, <2>7, <2>8, <2>9, <2>10, <2>11 DEF IInv
<1>23. ASSUME NEW p \in Proc, LoseAnswer(p) PROVE IInv'
  <2> USE <1>23 DEF LoseAnswer, Fault, DeleteAuthRequest, Remove, Goto, Done
  <2>1. Carried BY Carry DEF Grows
  <2>2. TypeOK' BY DEF TypeOK, PC, Method
  <2>3. Begun' BY DEF Begun, AtWork, PC, Made, TypeOK
  <2>4. SubjectKept' BY DEF SubjectKept, AtWork, PC, TypeOK
  <2>5. NamedLoggedIn' BY <2>1 DEF Carried, NamedLoggedIn, Named, TypeOK, Blank
  <2>7. ConsentFounded' BY <2>1 DEF Carried, ConsentFounded, AtWork, TypeOK
  <2>8. ClearedSettled' BY <2>1 DEF Carried, ClearedSettled, Cleared, AtWork, TypeOK, Blank
  <2>9. MarkFounded' BY <2>1 DEF Carried, MarkFounded, MarkedWebauthn, TypeOK, Blank
  <2>10. Spent' BY DEF Spent, AtWork, TypeOK
  <2>11. GrantedOnce' BY DEF GrantedOnce, Spent, AtWork
  <2> QED BY <2>2, <2>3, <2>4, <2>5, <2>7, <2>8, <2>9, <2>10, <2>11 DEF IInv
<1>24. ASSUME NEW c \in Code, CodeExpires(c) PROVE IInv'
  <2> USE <1>24 DEF CodeExpires
  <2>1. Carried BY Carry DEF Grows
  <2>2. TypeOK' BY DEF TypeOK, PC, Method
  <2>3. Begun' BY DEF Begun, AtWork, PC, Made, TypeOK
  <2>4. SubjectKept' BY DEF SubjectKept, AtWork, PC, TypeOK
  <2>5. NamedLoggedIn' BY <2>1 DEF Carried, NamedLoggedIn, Named, TypeOK, Blank
  <2>7. ConsentFounded' BY <2>1 DEF Carried, ConsentFounded, AtWork, TypeOK
  <2>8. ClearedSettled' BY <2>1 DEF Carried, ClearedSettled, Cleared, AtWork, TypeOK, Blank
  <2>9. MarkFounded' BY <2>1 DEF Carried, MarkFounded, MarkedWebauthn, TypeOK, Blank
  <2>10. Spent' BY DEF Spent, AtWork, TypeOK
  <2>11. GrantedOnce' BY DEF GrantedOnce, Spent, AtWork
  <2> QED BY <2>2, <2>3, <2>4, <2>5, <2>7, <2>8, <2>9, <2>10, <2>11 DEF IInv
<1>25. CASE UNCHANGED vars
  <2> USE <1>25 DEF vars
  <2>1. Carried BY Carry DEF Grows
  <2>2. TypeOK' BY DEF TypeOK, PC, Method
  <2>3. Begun' BY DEF Begun, AtWork, PC, Made, TypeOK
  <2>4. SubjectKept' BY DEF SubjectKept, AtWork, PC, TypeOK
  <2>5. NamedLoggedIn' BY <2>1 DEF Carried, NamedLoggedIn, Named, TypeOK, Blank
  <2>7. ConsentFounded' BY <2>1 DEF Carried, ConsentFounded, AtWork, TypeOK
  <2>8. ClearedSettled' BY <2>1 DEF Carried, ClearedSettled, Cleared, AtWork, TypeOK, Blank
  <2>9. MarkFounded' BY <2>1 DEF Carried, MarkFounded, MarkedWebauthn, TypeOK, Blank
  <2>10. Spent' BY DEF Spent, AtWork, TypeOK
  <2>11. GrantedOnce' BY DEF GrantedOnce, Spent, AtWork
  <2> QED BY <2>2, <2>3, <2>4, <2>5, <2>7, <2>8, <2>9, <2>10, <2>11 DEF IInv
<1> QED BY <1>1, <1>2, <1>3, <1>4, <1>5, <1>6, <1>7, <1>8, <1>9, <1>10, <1>11, <1>12, <1>13,
    <1>14, <1>15, <1>16, <1>17, <1>18, <1>19, <1>20, <1>21, <1>22, <1>23, <1>24, <1>25 DEF
    Next

(* IInv holds in every reachable state.                                    *)
THEOREM Inductive == Spec => []IInv
<1> QED BY InitIInv, NextIInv, PTL DEF Spec

(* Records, codes, handlers and histories keep their types: in particular  *)
(* a handler that works for a user knows which one.                        *)
THEOREM TypeCorrect == Spec => []TypeOK
<1>1. IInv => TypeOK BY DEF IInv
<1> QED BY <1>1, Inductive, PTL

(* A finished record and tokens that name a user have an approval that     *)
(* somebody on that request stands for, and their marks always do.         *)
LEMMA VouchedFounded ==
  ASSUME IInv, NEW v \in Vouched
  PROVE  /\ v[1] \in Req /\ v[2] \in User \union {NoUser}
         /\ v[2] \in User => LoggedIn(v[2], v[1])
         /\ v[1] \notin early => v[2] \in User /\ Settled(v[1])
         /\ v[3] = "webauthn" => ShownOn(v[1])
<1> USE NamesAssumption DEF IInv
<1>1. CASE v \in grants
  <2>1. v[1] \in Req /\ v[2] \in User \union {NoUser}
    BY <1>1 DEF TypeOK
  <2>2. Cleared(v[1]) /\ (v[3] = "webauthn" => MarkedWebauthn(v[1]))
    BY <1>1 DEF Cleared, MarkedWebauthn
  <2>3. v[2] \in User => LoggedIn(v[2], v[1])
    BY <1>1, <2>1 DEF Named, NamedLoggedIn
  <2>4. v[1] \notin early => v[2] \in User
    BY <1>1, <2>1 DEF SubjectKept
  <2> QED BY <2>1, <2>2, <2>3, <2>4 DEF ClearedSettled, MarkFounded
<1>2. ASSUME NEW r \in Req, kv[r].done, v = <<r, kv[r].user, kv[r].amr>>
      PROVE  /\ v[1] \in Req /\ v[2] \in User \union {NoUser}
             /\ v[2] \in User => LoggedIn(v[2], v[1])
             /\ v[1] \notin early => v[2] \in User /\ Settled(v[1])
             /\ v[3] = "webauthn" => ShownOn(v[1])
  <2>1. r \in stored
    BY <1>2 DEF SubjectKept, Blank
  <2>2. kv[r].user \in User \union {NoUser}
    BY <2>1 DEF TypeOK, Record
  <2>3. Cleared(r) /\ (kv[r].amr = "webauthn" => MarkedWebauthn(r))
    BY <1>2 DEF Cleared, MarkedWebauthn
  <2>4. kv[r].user \in User => LoggedIn(kv[r].user, r)
    BY DEF Named, NamedLoggedIn
  <2>5. r \notin early => kv[r].user \in User
    BY <1>2, <2>1, <2>2 DEF SubjectKept
  <2>6. (r \notin early => Settled(r)) /\ (kv[r].amr = "webauthn" => ShownOn(r))
    BY <2>3 DEF ClearedSettled, MarkFounded
  <2> QED BY <1>2, <2>2, <2>4, <2>5, <2>6
<1> QED BY <1>1, <1>2 DEF Vouched

(* Overlapping handlers never make a request, or its tokens, somebody's    *)
(* who did not log in on it, and leave them nobody's only after a consent  *)
(* card was posted on a request that named nobody.                         *)
THEOREM NobodyUnproved == Spec => []SubjectProved
<1>1. ASSUME IInv PROVE SubjectProved
  <2> SUFFICES ASSUME NEW v \in Vouched
               PROVE  IF v[2] = NoUser THEN v[1] \in early ELSE LoggedIn(v[2], v[1])
    BY DEF SubjectProved
  <2> QED BY <1>1, VouchedFounded, NamesAssumption
<1> QED BY <1>1, Inductive, PTL

(* Remembered consent, lost merges and cards answered late never add a     *)
(* scope that the user they name did not approve.                          *)
THEOREM NoScopeUnapproved == Spec => []ScopesAgreed
<1>1. ASSUME IInv PROVE ScopesAgreed
  <2> SUFFICES ASSUME NEW v \in Vouched, v[2] # NoUser, Undisturbed(v[2])
               PROVE  scopes[v[1]] \subseteq AgreedScopes(v[2])
    BY DEF ScopesAgreed
  <2>1. v[1] \in Req /\ v[2] \in User /\ LoggedIn(v[2], v[1])
    BY <1>1, VouchedFounded
  <2>2. Settled(v[1])
    BY <1>1, <2>1, VouchedFounded DEF Undisturbed
  <2>3. PICK u \in User :
          LoggedIn(u, v[1]) /\ (Undisturbed(u) => scopes[v[1]] \subseteq AgreedScopes(u))
    BY <2>2 DEF Settled
  <2>4. u = v[2]
    BY <2>1, <2>3 DEF Undisturbed, Alone
  <2> QED BY <2>3, <2>4
<1> QED BY <1>1, Inductive, PTL

(* "webauthn" is never said where no passkey was shown, nor of a user who  *)
(* showed none while nobody else logged in.                                *)
THEOREM NoPasskeyUnshown == Spec => []PasskeyShown
<1>1. ASSUME IInv PROVE PasskeyShown
  <2> SUFFICES ASSUME NEW v \in Vouched, v[3] = "webauthn"
               PROVE  /\ ShownOn(v[1])
                      /\ v[2] # NoUser /\ Alone(v[2]) => <<v[1], v[2], "webauthn">> \in proved
    BY DEF PasskeyShown
  <2>1. v[1] \in Req /\ ShownOn(v[1])
    BY <1>1, VouchedFounded
  <2>2. ASSUME v[2] # NoUser, Alone(v[2]) PROVE <<v[1], v[2], "webauthn">> \in proved
    <3>1. v[2] \in User /\ LoggedIn(v[2], v[1])
      BY <1>1, <2>2, VouchedFounded
    <3>2. PICK u \in User : <<v[1], u, "webauthn">> \in proved
      BY <2>1 DEF ShownOn
    <3>3. LoggedIn(u, v[1])
      BY <3>2 DEF LoggedIn, Method
    <3>4. u = v[2]
      BY <2>1, <2>2, <3>1, <3>3 DEF Alone
    <3> QED BY <3>2, <3>4
  <2> QED BY <2>1, <2>2
<1> QED BY <1>1, Inductive, PTL

(* Deleting the request is enough against a second exchange, but for two   *)
(* that overlap and a login page that writes the request back.             *)
THEOREM ExchangedOnce == Spec => []GrantedOnce
<1>1. IInv => GrantedOnce BY DEF IInv
<1> QED BY <1>1, Inductive, PTL
=============================================================================
