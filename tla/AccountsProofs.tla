--------------------------- MODULE AccountsProofs ---------------------------
(***************************************************************************)
(* Proofs about Accounts for every set of ids, addresses, codes and        *)
(* requests and every number of faults.  The inductive invariant IInv adds *)
(* to the properties what a request carries from one statement to the      *)
(* next: that a verified account it is about to write was approved, that   *)
(* an uncontested code is held by one request until it is consumed, and    *)
(* that a count of two or more still holds when its DELETE arrives.        *)
(***************************************************************************)
EXTENDS Accounts, TLAPS

(* The empty directory satisfies the invariant.                            *)
LEMMA InitIInv == Init => IInv
<1> SUFFICES ASSUME Init PROVE IInv
  OBVIOUS
<1> QED
  BY NamesAssumption, FaultsAssumption
  DEF Init, IInv, TypeOK, PC, Op, RequestsCarry, InvitesAccountedFor, CountStillHolds,
      EmailUnique, VerifiedWasApproved, OneAccountPerInvite, EmptiedOnlyByARace, CanLogIn

(* Every statement of every request preserves it.                          *)
LEMMA NextIInv == IInv /\ [Next]_vars => IInv'
<1> SUFFICES ASSUME IInv, [Next]_vars PROVE IInv'
  OBVIOUS
<1> USE NamesAssumption, FaultsAssumption DEF IInv, userVars, inviteVars, procVars
<1>1. ASSUME NEW p \in Proc, BeginRegister(p) PROVE IInv'
  <2> USE <1>1 DEF BeginRegister, Start, Goto, Redeemable
  <2>1. TypeOK' BY DEF TypeOK, PC, Op
  <2>2. RequestsCarry' BY DEF RequestsCarry, TypeOK, InvitesAccountedFor
  <2>3. InvitesAccountedFor' BY DEF InvitesAccountedFor, TypeOK, RequestsCarry
  <2>4. CountStillHolds' BY DEF CountStillHolds, TypeOK, AtMostOneUser
  <2>5. EmailUnique' BY DEF EmailUnique, TypeOK
  <2>6. VerifiedWasApproved' BY DEF VerifiedWasApproved, TypeOK, CanLogIn
  <2>7. OneAccountPerInvite' BY DEF OneAccountPerInvite, TypeOK
  <2>8. EmptiedOnlyByARace' BY DEF EmptiedOnlyByARace, TypeOK, AtMostOneUser
  <2> QED BY <2>1, <2>2, <2>3, <2>4, <2>5, <2>6, <2>7, <2>8 DEF IInv
<1>2. ASSUME NEW p \in Proc, BeginCreate(p) PROVE IInv'
  <2> USE <1>2 DEF BeginCreate, Start, Goto
  <2>1. TypeOK' BY DEF TypeOK, PC, Op
  <2>2. RequestsCarry' BY DEF RequestsCarry, TypeOK
  <2>3. InvitesAccountedFor' BY DEF InvitesAccountedFor, TypeOK
  <2>4. CountStillHolds' BY DEF CountStillHolds, TypeOK, AtMostOneUser
  <2>5. EmailUnique' BY DEF EmailUnique, TypeOK
  <2>6. VerifiedWasApproved' BY DEF VerifiedWasApproved, TypeOK, CanLogIn
  <2>7. OneAccountPerInvite' BY DEF OneAccountPerInvite, TypeOK
  <2>8. EmptiedOnlyByARace' BY DEF EmptiedOnlyByARace, TypeOK, AtMostOneUser
  <2> QED BY <2>1, <2>2, <2>3, <2>4, <2>5, <2>6, <2>7, <2>8 DEF IInv
<1>3. ASSUME NEW p \in Proc, BeginSeed(p) PROVE IInv'
  <2> USE <1>3 DEF BeginSeed, Start, Goto
  <2>1. TypeOK' BY DEF TypeOK, PC, Op
  <2>2. RequestsCarry' BY DEF RequestsCarry, TypeOK
  <2>3. InvitesAccountedFor' BY DEF InvitesAccountedFor, TypeOK
  <2>4. CountStillHolds' BY DEF CountStillHolds, TypeOK, AtMostOneUser
  <2>5. EmailUnique' BY DEF EmailUnique, TypeOK
  <2>6. VerifiedWasApproved' BY DEF VerifiedWasApproved, TypeOK, CanLogIn
  <2>7. OneAccountPerInvite' BY DEF OneAccountPerInvite, TypeOK
  <2>8. EmptiedOnlyByARace' BY DEF EmptiedOnlyByARace, TypeOK, AtMostOneUser
  <2> QED BY <2>1, <2>2, <2>3, <2>4, <2>5, <2>6, <2>7, <2>8 DEF IInv
<1>4. ASSUME NEW p \in Proc, CheckEmail(p) PROVE IInv'
  <2> USE <1>4 DEF CheckEmail, Done, Goto, Continue
  <2>1. TypeOK' BY DEF TypeOK, PC, Op
  <2>2. RequestsCarry' BY DEF RequestsCarry, TypeOK
  <2>3. InvitesAccountedFor' BY SMTT(30) DEF InvitesAccountedFor, TypeOK
  <2>4. CountStillHolds' BY DEF CountStillHolds, TypeOK, AtMostOneUser
  <2>5. EmailUnique' BY DEF EmailUnique, TypeOK
  <2>6. VerifiedWasApproved' BY DEF VerifiedWasApproved, TypeOK, CanLogIn
  <2>7. OneAccountPerInvite' BY DEF OneAccountPerInvite, TypeOK
  <2>8. EmptiedOnlyByARace' BY DEF EmptiedOnlyByARace, TypeOK, AtMostOneUser
  <2> QED BY <2>1, <2>2, <2>3, <2>4, <2>5, <2>6, <2>7, <2>8 DEF IInv
<1>5. ASSUME NEW p \in Proc, Insert(p) PROVE IInv'
  <2> USE <1>5 DEF Insert, Done, Goto, AddUser, AfterInsert, EmailTaken
  <2>1. TypeOK' BY DEF TypeOK, RequestsCarry, PC, Op
  <2>2. RequestsCarry' BY DEF RequestsCarry, TypeOK
  <2>3. InvitesAccountedFor' BY SMTT(30) DEF InvitesAccountedFor, TypeOK, RequestsCarry
  <2>4. CountStillHolds' BY DEF CountStillHolds, TypeOK, AtMostOneUser
  <2>5. EmailUnique' BY DEF EmailUnique, TypeOK
  <2>6. VerifiedWasApproved' BY DEF VerifiedWasApproved, TypeOK, RequestsCarry, CanLogIn
  <2>7. OneAccountPerInvite' BY DEF OneAccountPerInvite, TypeOK, InvitesAccountedFor
  <2>8. EmptiedOnlyByARace' BY DEF EmptiedOnlyByARace, TypeOK, AtMostOneUser
  <2> QED BY <2>1, <2>2, <2>3, <2>4, <2>5, <2>6, <2>7, <2>8 DEF IInv
<1>6. ASSUME NEW p \in Proc, InsertLost(p) PROVE IInv'
  <2> USE <1>6 DEF InsertLost, Done, Goto, AddUser, EmailTaken
  <2>1. TypeOK' BY DEF TypeOK, RequestsCarry, PC, Op
  <2>2. RequestsCarry' BY DEF RequestsCarry, TypeOK
  <2>3. InvitesAccountedFor' BY DEF InvitesAccountedFor, TypeOK
  <2>4. CountStillHolds' BY DEF CountStillHolds, TypeOK, AtMostOneUser
  <2>5. EmailUnique' BY DEF EmailUnique, TypeOK
  <2>6. VerifiedWasApproved' BY DEF VerifiedWasApproved, TypeOK, RequestsCarry, CanLogIn
  <2>7. OneAccountPerInvite' BY DEF OneAccountPerInvite, TypeOK
  <2>8. EmptiedOnlyByARace' BY DEF EmptiedOnlyByARace, TypeOK, AtMostOneUser
  <2> QED BY <2>1, <2>2, <2>3, <2>4, <2>5, <2>6, <2>7, <2>8 DEF IInv
<1>7. ASSUME NEW p \in Proc, Consume(p) PROVE IInv'
  <2> USE <1>7 DEF Consume, Done, Goto
  <2>1. TypeOK' BY DEF TypeOK, PC, Op
  <2>2. RequestsCarry' BY DEF RequestsCarry, TypeOK
  <2>3. InvitesAccountedFor' BY DEF InvitesAccountedFor, TypeOK, RequestsCarry
  <2>4. CountStillHolds' BY DEF CountStillHolds, TypeOK, AtMostOneUser
  <2>5. EmailUnique' BY DEF EmailUnique, TypeOK
  <2>6. VerifiedWasApproved' BY DEF VerifiedWasApproved, TypeOK, CanLogIn
  <2>7. OneAccountPerInvite' BY DEF OneAccountPerInvite, TypeOK
  <2>8. EmptiedOnlyByARace' BY DEF EmptiedOnlyByARace, TypeOK, AtMostOneUser
  <2> QED BY <2>1, <2>2, <2>3, <2>4, <2>5, <2>6, <2>7, <2>8 DEF IInv
<1>8. ASSUME NEW p \in Proc, BeginUpdate(p) PROVE IInv'
  <2> USE <1>8 DEF BeginUpdate, Start, Goto
  <2>1. TypeOK' BY DEF TypeOK, PC, Op
  <2>2. RequestsCarry' BY DEF RequestsCarry, TypeOK, VerifiedWasApproved, CanLogIn
  <2>3. InvitesAccountedFor' BY DEF InvitesAccountedFor, TypeOK
  <2>4. CountStillHolds' BY DEF CountStillHolds, TypeOK, AtMostOneUser
  <2>5. EmailUnique' BY DEF EmailUnique, TypeOK
  <2>6. VerifiedWasApproved' BY DEF VerifiedWasApproved, TypeOK, CanLogIn
  <2>7. OneAccountPerInvite' BY DEF OneAccountPerInvite, TypeOK
  <2>8. EmptiedOnlyByARace' BY DEF EmptiedOnlyByARace, TypeOK, AtMostOneUser
  <2> QED BY <2>1, <2>2, <2>3, <2>4, <2>5, <2>6, <2>7, <2>8 DEF IInv
<1>9. ASSUME NEW p \in Proc, Collide(p) PROVE IInv'
  <2> USE <1>9 DEF Collide, Done, Goto, Continue
  <2>1. TypeOK' BY DEF TypeOK, PC, Op
  <2>2. RequestsCarry' BY DEF RequestsCarry, TypeOK
  <2>3. InvitesAccountedFor' BY DEF InvitesAccountedFor, TypeOK
  <2>4. CountStillHolds' BY DEF CountStillHolds, TypeOK, AtMostOneUser
  <2>5. EmailUnique' BY DEF EmailUnique, TypeOK
  <2>6. VerifiedWasApproved' BY DEF VerifiedWasApproved, TypeOK, CanLogIn
  <2>7. OneAccountPerInvite' BY DEF OneAccountPerInvite, TypeOK
  <2>8. EmptiedOnlyByARace' BY DEF EmptiedOnlyByARace, TypeOK, AtMostOneUser
  <2> QED BY <2>1, <2>2, <2>3, <2>4, <2>5, <2>6, <2>7, <2>8 DEF IInv
<1>10. ASSUME NEW p \in Proc, Write(p) PROVE IInv'
  <2> USE <1>10 DEF Write, Done, Goto
  <2>1. TypeOK' BY DEF TypeOK, RequestsCarry, PC, Op
  <2>2. RequestsCarry' BY DEF RequestsCarry, TypeOK
  <2>3. InvitesAccountedFor' BY DEF InvitesAccountedFor, TypeOK
  <2>4. CountStillHolds' BY DEF CountStillHolds, TypeOK, AtMostOneUser
  <2>5. EmailUnique' BY DEF EmailUnique, TypeOK
  <2>6. VerifiedWasApproved' BY DEF VerifiedWasApproved, TypeOK, RequestsCarry, CanLogIn
  <2>7. OneAccountPerInvite' BY DEF OneAccountPerInvite, TypeOK
  <2>8. EmptiedOnlyByARace' BY DEF EmptiedOnlyByARace, TypeOK, AtMostOneUser
  <2> QED BY <2>1, <2>2, <2>3, <2>4, <2>5, <2>6, <2>7, <2>8 DEF IInv
<1>11. ASSUME NEW p \in Proc, BeginDelete(p) PROVE IInv'
  <2> USE <1>11 DEF BeginDelete, Start, Goto
  <2>1. TypeOK' BY DEF TypeOK, PC, Op
  <2>2. RequestsCarry' BY DEF RequestsCarry, TypeOK
  <2>3. InvitesAccountedFor' BY DEF InvitesAccountedFor, TypeOK
  <2>4. CountStillHolds' BY DEF CountStillHolds, TypeOK, AtMostOneUser
  <2>5. EmailUnique' BY DEF EmailUnique, TypeOK
  <2>6. VerifiedWasApproved' BY DEF VerifiedWasApproved, TypeOK, CanLogIn
  <2>7. OneAccountPerInvite' BY DEF OneAccountPerInvite, TypeOK
  <2>8. EmptiedOnlyByARace' BY DEF EmptiedOnlyByARace, TypeOK, AtMostOneUser
  <2> QED BY <2>1, <2>2, <2>3, <2>4, <2>5, <2>6, <2>7, <2>8 DEF IInv
<1>12. ASSUME NEW p \in Proc, Count(p) PROVE IInv'
  <2> USE <1>12 DEF Count, Done, Goto, Continue
  <2>1. TypeOK' BY DEF TypeOK, PC, Op
  <2>2. RequestsCarry' BY DEF RequestsCarry, TypeOK
  <2>3. InvitesAccountedFor' BY DEF InvitesAccountedFor, TypeOK
  <2>4. CountStillHolds'
    <3>1. CASE AtMostOneUser
      BY <3>1 DEF CountStillHolds, TypeOK
    <3>2. CASE ~AtMostOneUser
      <4>1. ~raced' => ~raced /\ \A q \in Proc : pc[q] # "delete"
        BY <3>2
      <4>2. pc' = [pc EXCEPT ![p] = "delete"] /\ ~AtMostOneUser'
        BY <3>2 DEF AtMostOneUser
      <4> QED BY <4>1, <4>2 DEF CountStillHolds, TypeOK
    <3> QED BY <3>1, <3>2
  <2>5. EmailUnique' BY DEF EmailUnique, TypeOK
  <2>6. VerifiedWasApproved' BY DEF VerifiedWasApproved, TypeOK, CanLogIn
  <2>7. OneAccountPerInvite' BY DEF OneAccountPerInvite, TypeOK
  <2>8. EmptiedOnlyByARace' BY DEF EmptiedOnlyByARace, TypeOK, AtMostOneUser
  <2> QED BY <2>1, <2>2, <2>3, <2>4, <2>5, <2>6, <2>7, <2>8 DEF IInv
<1>13. ASSUME NEW p \in Proc, Delete(p) PROVE IInv'
  <2> USE <1>13 DEF Delete, Done, Goto
  <2>1. TypeOK' BY DEF TypeOK, PC, Op
  <2>2. RequestsCarry' BY DEF RequestsCarry, TypeOK
  <2>3. InvitesAccountedFor' BY DEF InvitesAccountedFor, TypeOK
  <2>4. CountStillHolds' BY DEF CountStillHolds, TypeOK, AtMostOneUser
  <2>5. EmailUnique' BY DEF EmailUnique, TypeOK
  <2>6. VerifiedWasApproved' BY DEF VerifiedWasApproved, TypeOK, CanLogIn
  <2>7. OneAccountPerInvite' BY DEF OneAccountPerInvite, TypeOK
  <2>8. EmptiedOnlyByARace' BY DEF EmptiedOnlyByARace, TypeOK, CountStillHolds, AtMostOneUser
  <2> QED BY <2>1, <2>2, <2>3, <2>4, <2>5, <2>6, <2>7, <2>8 DEF IInv
<1>14. ASSUME NEW p \in Proc, Fail(p) PROVE IInv'
  <2> USE <1>14 DEF Fail, Done, Goto, Continue
  <2>1. TypeOK' BY DEF TypeOK, RequestsCarry, PC, Op
  <2>2. RequestsCarry' BY DEF RequestsCarry, TypeOK
  <2>3. InvitesAccountedFor' BY SMTT(30) DEF InvitesAccountedFor, TypeOK
  <2>4. CountStillHolds' BY DEF CountStillHolds, TypeOK, AtMostOneUser
  <2>5. EmailUnique' BY DEF EmailUnique, TypeOK
  <2>6. VerifiedWasApproved' BY DEF VerifiedWasApproved, TypeOK, CanLogIn
  <2>7. OneAccountPerInvite' BY DEF OneAccountPerInvite, TypeOK
  <2>8. EmptiedOnlyByARace' BY DEF EmptiedOnlyByARace, TypeOK, AtMostOneUser
  <2> QED BY <2>1, <2>2, <2>3, <2>4, <2>5, <2>6, <2>7, <2>8 DEF IInv
<1>15. ASSUME NEW c \in Code, CreateInvite(c) PROVE IInv'
  <2> USE <1>15 DEF CreateInvite
  <2>1. TypeOK' BY DEF TypeOK, PC, Op
  <2>2. RequestsCarry' BY DEF RequestsCarry, TypeOK
  <2>3. InvitesAccountedFor' BY DEF InvitesAccountedFor, TypeOK
  <2>4. CountStillHolds' BY DEF CountStillHolds, TypeOK, AtMostOneUser
  <2>5. EmailUnique' BY DEF EmailUnique, TypeOK
  <2>6. VerifiedWasApproved' BY DEF VerifiedWasApproved, TypeOK, CanLogIn
  <2>7. OneAccountPerInvite' BY DEF OneAccountPerInvite, TypeOK
  <2>8. EmptiedOnlyByARace' BY DEF EmptiedOnlyByARace, TypeOK, AtMostOneUser
  <2> QED BY <2>1, <2>2, <2>3, <2>4, <2>5, <2>6, <2>7, <2>8 DEF IInv
<1>16. ASSUME NEW c \in Code, DeleteInvite(c) PROVE IInv'
  <2> USE <1>16 DEF DeleteInvite
  <2>1. TypeOK' BY DEF TypeOK, PC, Op
  <2>2. RequestsCarry' BY DEF RequestsCarry, TypeOK
  <2>3. InvitesAccountedFor' BY DEF InvitesAccountedFor, TypeOK
  <2>4. CountStillHolds' BY DEF CountStillHolds, TypeOK, AtMostOneUser
  <2>5. EmailUnique' BY DEF EmailUnique, TypeOK
  <2>6. VerifiedWasApproved' BY DEF VerifiedWasApproved, TypeOK, CanLogIn
  <2>7. OneAccountPerInvite' BY DEF OneAccountPerInvite, TypeOK
  <2>8. EmptiedOnlyByARace' BY DEF EmptiedOnlyByARace, TypeOK, AtMostOneUser
  <2> QED BY <2>1, <2>2, <2>3, <2>4, <2>5, <2>6, <2>7, <2>8 DEF IInv
<1>17. ASSUME NEW c \in Code, InviteExpires(c) PROVE IInv'
  <2> USE <1>17 DEF InviteExpires
  <2>1. TypeOK' BY DEF TypeOK, PC, Op
  <2>2. RequestsCarry' BY DEF RequestsCarry, TypeOK
  <2>3. InvitesAccountedFor' BY DEF InvitesAccountedFor, TypeOK
  <2>4. CountStillHolds' BY DEF CountStillHolds, TypeOK, AtMostOneUser
  <2>5. EmailUnique' BY DEF EmailUnique, TypeOK
  <2>6. VerifiedWasApproved' BY DEF VerifiedWasApproved, TypeOK, CanLogIn
  <2>7. OneAccountPerInvite' BY DEF OneAccountPerInvite, TypeOK
  <2>8. EmptiedOnlyByARace' BY DEF EmptiedOnlyByARace, TypeOK, AtMostOneUser
  <2> QED BY <2>1, <2>2, <2>3, <2>4, <2>5, <2>6, <2>7, <2>8 DEF IInv
<1>18. CASE UNCHANGED vars
  BY <1>18 DEF vars, TypeOK, RequestsCarry, InvitesAccountedFor, CountStillHolds,
     AtMostOneUser, EmailUnique, VerifiedWasApproved, CanLogIn, OneAccountPerInvite,
     EmptiedOnlyByARace
<1> QED
    BY <1>1, <1>2, <1>3, <1>4, <1>5, <1>6, <1>7, <1>8, <1>9, <1>10, <1>11, <1>12, <1>13,
       <1>14, <1>15, <1>16, <1>17, <1>18 DEF Next

(* IInv holds in every reachable state.                                    *)
THEOREM Inductive == Spec => []IInv
<1> QED BY InitIInv, NextIInv, PTL DEF Spec

(* Rows, requests and histories keep their types.                          *)
THEOREM TypeCorrect == Spec => []TypeOK
<1>1. IInv => TypeOK BY DEF IInv
<1> QED BY <1>1, Inductive, PTL

(* The UNIQUE index keeps addresses apart however checks and writes race.  *)
THEOREM AddressesDiffer == Spec => []EmailUnique
<1>1. IInv => EmailUnique BY DEF IInv
<1> QED BY <1>1, Inductive, PTL

(* Registration alone never yields an account that can log in, nor does an *)
(* update that writes back the flag it loaded.                             *)
THEOREM LoginNeedsApproval == Spec => []VerifiedWasApproved
<1>1. IInv => VerifiedWasApproved BY DEF IInv
<1> QED BY <1>1, Inductive, PTL

(* An invite admits a second account only by overlapping redemptions or a  *)
(* lost consume.                                                           *)
THEOREM InviteAdmitsOne == Spec => []OneAccountPerInvite
<1>1. IInv => OneAccountPerInvite BY DEF IInv
<1> QED BY <1>1, Inductive, PTL

(* The count before a DELETE protects the last account unless two          *)
(* deletions overlap.                                                      *)
THEOREM LastAccountStays == Spec => []EmptiedOnlyByARace
<1>1. IInv => EmptiedOnlyByARace BY DEF IInv
<1> QED BY <1>1, Inductive, PTL

(* The redeemer an invite records is one that its code made, for good.     *)
THEOREM RedeemerStays == Spec => RedeemerIsFinal
<1> DEFINE Stays == \A c \in invites' :
             /\ usedBy[c] # NoUser => usedBy'[c] = usedBy[c]
             /\ usedBy'[c] # usedBy[c] => via[usedBy'[c]] = c
<1>1. IInv /\ [Next]_vars => [Stays]_vars
  <2> SUFFICES ASSUME IInv, Next PROVE Stays
    BY DEF vars
  <2> USE DEF IInv, TypeOK, userVars, inviteVars, procVars
  <2>1. CASE UNCHANGED usedBy
    BY <2>1
  <2>2. ASSUME NEW p \in Proc, Consume(p) PROVE Stays
    <3>1. code[p] \in Code /\ via[usr[p]] = code[p]
      BY <2>2 DEF Consume, RequestsCarry
    <3>2. usedBy' = [usedBy EXCEPT ![code[p]] =
                       IF code[p] \in invites /\ @ = NoUser THEN usr[p] ELSE @]
      BY <2>2 DEF Consume
    <3> QED BY <3>1, <3>2, <2>2 DEF Consume
  <2>3. ASSUME NEW c \in Code, DeleteInvite(c) PROVE Stays
    BY <2>3 DEF DeleteInvite
  <2>4. ASSUME NEW p \in Proc,
               \/ BeginRegister(p) \/ BeginCreate(p) \/ BeginSeed(p) \/ CheckEmail(p)
               \/ Insert(p) \/ InsertLost(p) \/ BeginUpdate(p) \/ Collide(p) \/ Write(p)
               \/ BeginDelete(p) \/ Count(p) \/ Delete(p) \/ Fail(p)
        PROVE  UNCHANGED usedBy
    BY <2>4 DEF BeginRegister, BeginCreate, BeginSeed, CheckEmail, Insert, InsertLost,
                BeginUpdate, Collide, Write, BeginDelete, Count, Delete, Fail
  <2>5. ASSUME NEW c \in Code, CreateInvite(c) \/ InviteExpires(c) PROVE UNCHANGED usedBy
    BY <2>5 DEF CreateInvite, InviteExpires
  <2> QED BY <2>1, <2>2, <2>3, <2>4, <2>5 DEF Next
<1> QED BY <1>1, Inductive, PTL DEF Spec, RedeemerIsFinal
=============================================================================
