------------------------------ MODULE Accounts ------------------------------
(***************************************************************************)
(* The admin_user directory and its registration invites                   *)
(* (internal/oidc/register.go, user_admin.go, user.go, login.go).          *)
(*                                                                         *)
(* A process is one request, or one instance that boots and seeds the      *)
(* first account.  Every handler checks with one D1 statement and acts     *)
(* with a later one; an action is one statement with the code up to the    *)
(* next, so anything may happen between a check and what it guards.  A     *)
(* statement may fail or the process die at it (Fail), and an INSERT may   *)
(* apply although its answer is lost (InsertLost).  Requests that their    *)
(* first query refuses change nothing and are left out.  Names and         *)
(* passwords are left out: no branch here depends on another row's.        *)
(***************************************************************************)
EXTENDS Naturals

CONSTANTS
  User,       \* account ids (uuids, never drawn twice)
  Email, Code,
  Proc,
  AdminEmail, \* the configured address of the seeded administrator
  AnyEmail,   \* an invite's blank email: anybody may redeem it
  NoUser, NoEmail, NoCode,
  MaxFaults   \* bound: failed or lost statements

ASSUME NamesAssumption ==
  /\ AdminEmail \in Email /\ AnyEmail \notin Email /\ NoEmail \notin Email
  /\ NoUser \notin User /\ NoCode \notin Code
ASSUME FaultsAssumption == MaxFaults \in Nat

VARIABLES
  users,      \* ids that have a row in admin_user
  email, ver, \* columns email and email_verified (blank without a row)
  born,       \* history: ids ever inserted
  via,        \* history: the invite an account was made with
  approved,   \* history: present accounts an admin, or the boot, declared verified
  invites,    \* codes that have a row in user_invite
  minted,     \* history: codes ever inserted
  boundTo,    \* column email of an invite
  usedBy,     \* columns used_by and used_at: NoUser while used_at = 0
  expired,    \* invites whose expires_at has passed
  contested,  \* history: codes redeemed by two requests at once, or whose
              \*   account was made while the consuming UPDATE was not
  raced,      \* history: two deletions were past their count at once
  pc, op, usr, em, want, code,  \* a process: place, handler, arguments
  faults

userVars == <<users, email, ver, born, via, approved>>
inviteVars == <<invites, minted, boundTo, usedBy, expired, contested>>
procVars == <<pc, op, usr, em, want, code>>
vars == <<userVars, inviteVars, raced, procVars, faults>>

PC == {"idle", "emailCheck", "insert", "consume", "collide", "write", "count", "delete"}
Op == {"none", "register", "create", "seed", "update", "delete"}

----------------------------------------------------------------------------
EmailTaken(e) == \E u \in users : email[u] = e

(* verifyUser lets in the verified accounts only.                          *)
CanLogIn(u) == u \in users /\ ver[u] = "yes"

(* SELECT COUNT star is at most 1.                                         *)
AtMostOneUser == \A u, v \in users : u = v

(* Mutant of Redeemable: an invite stays redeemable after its use.        *)
RedeemableForever(c, e) ==
  c \in invites /\ c \notin expired /\ boundTo[c] \in {AnyEmail, e}

(* validateInvite: known, unused, unexpired, and for this address.         *)
Redeemable(c, e) ==
  /\ c \in invites /\ usedBy[c] = NoUser /\ c \notin expired
  /\ boundTo[c] \in {AnyEmail, e}

Goto(p, l) == pc' = [pc EXCEPT ![p] = l]

Start(p, l, o, u, e, w, c) ==
  /\ pc[p] = "idle"
  /\ Goto(p, l)
  /\ op' = [op EXCEPT ![p] = o] /\ usr' = [usr EXCEPT ![p] = u]
  /\ em' = [em EXCEPT ![p] = e] /\ want' = [want EXCEPT ![p] = w]
  /\ code' = [code EXCEPT ![p] = c]

Done(p) ==
  /\ Goto(p, "idle")
  /\ op' = [op EXCEPT ![p] = "none"] /\ usr' = [usr EXCEPT ![p] = NoUser]
  /\ em' = [em EXCEPT ![p] = NoEmail] /\ want' = [want EXCEPT ![p] = "no"]
  /\ code' = [code EXCEPT ![p] = NoCode]

Continue(p, l) == Goto(p, l) /\ UNCHANGED <<op, usr, em, want, code>>

Init ==
  /\ users = {} /\ born = {} /\ approved = {}
  /\ email = [u \in User |-> NoEmail] /\ ver = [u \in User |-> "no"]
  /\ via = [u \in User |-> NoCode]
  /\ invites = {} /\ minted = {} /\ expired = {} /\ contested = {}
  /\ boundTo = [c \in Code |-> AnyEmail] /\ usedBy = [c \in Code |-> NoUser]
  /\ raced = FALSE /\ faults = 0
  /\ pc = [p \in Proc |-> "idle"] /\ op = [p \in Proc |-> "none"]
  /\ usr = [p \in Proc |-> NoUser] /\ em = [p \in Proc |-> NoEmail]
  /\ want = [p \in Proc |-> "no"] /\ code = [p \in Proc |-> NoCode]

----------------------------------------------------------------------------
(* Register, of the JSON API and of the login page: without a code at once *)
(* to the email check, unverified; with one after inviteByCode and         *)
(* validateInvite, verified.                                               *)
BeginRegister(p) ==
  /\ \/ /\ \E e \in Email : Start(p, "emailCheck", "register", NoUser, e, "no", NoCode)
        /\ UNCHANGED contested
     \/ \E e \in Email, c \in Code :
          /\ Redeemable(c, e)
          /\ Start(p, "emailCheck", "register", NoUser, e, "yes", c)
          /\ contested' = IF \E q \in Proc : code[q] = c
                            THEN contested \union {c} ELSE contested
  /\ UNCHANGED <<userVars, invites, minted, boundTo, usedBy, expired, raced, faults>>

(* Create, of an administrator: verified unless the request says no.       *)
BeginCreate(p) ==
  /\ \E e \in Email, w \in {"yes", "no"} :
       Start(p, "emailCheck", "create", NoUser, e, w, NoCode)
  /\ UNCHANGED <<userVars, inviteVars, raced, faults>>

(* seedAdmin, on boot: goes on only when it counted no account.            *)
BeginSeed(p) ==
  /\ users = {}
  /\ Start(p, "insert", "seed", NoUser, AdminEmail, "yes", NoCode)
  /\ UNCHANGED <<userVars, inviteVars, raced, faults>>

CheckEmail(p) ==
  /\ pc[p] = "emailCheck"
  /\ IF EmailTaken(em[p]) THEN Done(p) ELSE Continue(p, "insert")
  /\ UNCHANGED <<userVars, inviteVars, raced, faults>>

(* The row that an INSERT adds under a fresh id.                           *)
AddUser(p, u) ==
  /\ u \in User \ born
  /\ users' = users \union {u} /\ born' = born \union {u}
  /\ email' = [email EXCEPT ![u] = em[p]]
  /\ ver' = [ver EXCEPT ![u] = want[p]]
  /\ via' = [via EXCEPT ![u] = code[p]]
  /\ approved' = IF op[p] \in {"create", "seed"} /\ want[p] = "yes"
                   THEN approved \union {u} ELSE approved

AfterInsert(p, u) ==
  IF code[p] = NoCode THEN Done(p)
  ELSE /\ Goto(p, "consume")
       /\ usr' = [usr EXCEPT ![p] = u]
       /\ UNCHANGED <<op, em, want, code>>

(* createUser: the INSERT, which the UNIQUE index on email may refuse (or, *)
(* as a bound, the model when it has no id left).                          *)
Insert(p) ==
  /\ pc[p] = "insert"
  /\ \/ (EmailTaken(em[p]) \/ born = User) /\ Done(p) /\ UNCHANGED userVars
     \/ /\ ~EmailTaken(em[p])
        /\ \E u \in User : AddUser(p, u) /\ AfterInsert(p, u)
  /\ UNCHANGED <<inviteVars, raced, faults>>

(* The INSERT applies and its answer is lost: the caller is told it failed *)
(* and the invite is not consumed.                                         *)
InsertLost(p) ==
  /\ pc[p] = "insert" /\ ~EmailTaken(em[p]) /\ faults < MaxFaults
  /\ \E u \in User : AddUser(p, u)
  /\ Done(p)
  /\ contested' = IF code[p] = NoCode THEN contested ELSE contested \union {code[p]}
  /\ faults' = faults + 1
  /\ UNCHANGED <<invites, minted, boundTo, usedBy, expired, raced>>

(* consumeInvite: UPDATE ... WHERE code AND used_at = 0.                   *)
Consume(p) ==
  /\ pc[p] = "consume"
  /\ usedBy' = [usedBy EXCEPT ![code[p]] =
                  IF code[p] \in invites /\ @ = NoUser THEN usr[p] ELSE @]
  /\ Done(p)
  /\ UNCHANGED <<userVars, invites, minted, boundTo, expired, contested, raced, faults>>

----------------------------------------------------------------------------
(* Mutants of BeginUpdate: an omitted email stays blank; an omitted        *)
(* email_verified counts as true, as in Create.                            *)
BeginUpdateKeepsBlank(p) ==
  /\ \E u \in users : Start(p, "collide", "update", u, NoEmail, ver[u], NoCode)
  /\ UNCHANGED <<userVars, inviteVars, raced, faults>>

BeginUpdateDefaultsTrue(p) ==
  /\ \E u \in users, e \in Email :
       \/ /\ \E w \in {"yes", "no"} : Start(p, "collide", "update", u, e, w, NoCode)
             /\ approved' = IF w = "yes" THEN approved \union {u} ELSE approved
       \/ Start(p, "collide", "update", u, e, "yes", NoCode) /\ UNCHANGED approved
  /\ UNCHANGED <<users, email, ver, born, via, inviteVars, raced, faults>>

(* Update loads the account; what the request omits is taken from there,   *)
(* so a later write puts back what the load saw.                           *)
BeginUpdate(p) ==
  /\ \E u \in users : \E e \in Email :
       \/ \E w \in {"yes", "no"} :
            /\ Start(p, "collide", "update", u, e, w, NoCode)
            /\ approved' = IF w = "yes" THEN approved \union {u} ELSE approved
       \/ Start(p, "collide", "update", u, e, ver[u], NoCode) /\ UNCHANGED approved
  /\ UNCHANGED <<users, email, ver, born, via, inviteVars, raced, faults>>

(* The collision query; when it fails the handler writes all the same.     *)
Collide(p) ==
  /\ pc[p] = "collide"
  /\ IF \E u \in users : email[u] = em[p] /\ u # usr[p]
       THEN Done(p) ELSE Continue(p, "write")
  /\ UNCHANGED <<userVars, inviteVars, raced, faults>>

(* updateUser: no row matches once the account is deleted, and the UNIQUE  *)
(* index refuses another account's address.                                *)
Write(p) ==
  /\ pc[p] = "write"
  /\ IF usr[p] \in users /\ \A u \in users : email[u] = em[p] => u = usr[p]
       THEN /\ email' = [email EXCEPT ![usr[p]] = em[p]]
            /\ ver' = [ver EXCEPT ![usr[p]] = want[p]]
       ELSE UNCHANGED <<email, ver>>
  /\ Done(p)
  /\ UNCHANGED <<users, born, via, approved, inviteVars, raced, faults>>

(* Delete loads the account, then counts, then deletes.                    *)
BeginDelete(p) ==
  /\ \E u \in users : Start(p, "count", "delete", u, NoEmail, "no", NoCode)
  /\ UNCHANGED <<userVars, inviteVars, raced, faults>>

(* Mutant of Count: the guard is gone.                                     *)
CountIgnored(p) ==
  /\ pc[p] = "count"
  /\ Continue(p, "delete")
  /\ raced' = (raced \/ \E q \in Proc : pc[q] = "delete")
  /\ UNCHANGED <<userVars, inviteVars, faults>>

Count(p) ==
  /\ pc[p] = "count"
  /\ \/ AtMostOneUser /\ Done(p) /\ UNCHANGED raced
     \/ /\ ~AtMostOneUser /\ Continue(p, "delete")
        /\ raced' = (raced \/ \E q \in Proc : pc[q] = "delete")
  /\ UNCHANGED <<userVars, inviteVars, faults>>

Delete(p) ==
  /\ pc[p] = "delete"
  /\ users' = users \ {usr[p]} /\ approved' = approved \ {usr[p]}
  /\ email' = [email EXCEPT ![usr[p]] = NoEmail]
  /\ ver' = [ver EXCEPT ![usr[p]] = "no"]
  /\ Done(p)
  /\ UNCHANGED <<born, via, inviteVars, raced, faults>>

(* A statement fails or the process dies at it.  Only the error of the     *)
(* collision query is ignored; a lost consume leaves the invite open.      *)
Fail(p) ==
  /\ pc[p] # "idle" /\ faults < MaxFaults
  /\ \/ Done(p)
     \/ pc[p] = "collide" /\ Continue(p, "write")
  /\ contested' = IF pc[p] = "consume" THEN contested \union {code[p]} ELSE contested
  /\ faults' = faults + 1
  /\ UNCHANGED <<userVars, invites, minted, boundTo, usedBy, expired, raced>>

----------------------------------------------------------------------------
CreateInvite(c) ==
  /\ c \notin minted
  /\ minted' = minted \union {c} /\ invites' = invites \union {c}
  /\ \E e \in Email \union {AnyEmail} : boundTo' = [boundTo EXCEPT ![c] = e]
  /\ UNCHANGED <<userVars, usedBy, expired, contested, raced, procVars, faults>>

DeleteInvite(c) ==
  /\ c \in invites
  /\ invites' = invites \ {c} /\ expired' = expired \ {c}
  /\ boundTo' = [boundTo EXCEPT ![c] = AnyEmail]
  /\ usedBy' = [usedBy EXCEPT ![c] = NoUser]
  /\ UNCHANGED <<userVars, minted, contested, raced, procVars, faults>>

(* expires_at passes.                                                      *)
InviteExpires(c) ==
  /\ c \in invites \ expired
  /\ expired' = expired \union {c}
  /\ UNCHANGED <<userVars, invites, minted, boundTo, usedBy, contested, raced, procVars, faults>>

Next ==
  \/ \E p \in Proc :
       \/ BeginRegister(p) \/ BeginCreate(p) \/ BeginSeed(p)
       \/ CheckEmail(p) \/ Insert(p) \/ InsertLost(p) \/ Consume(p)
       \/ BeginUpdate(p) \/ Collide(p) \/ Write(p)
       \/ BeginDelete(p) \/ Count(p) \/ Delete(p) \/ Fail(p)
  \/ \E c \in Code : CreateInvite(c) \/ DeleteInvite(c) \/ InviteExpires(c)

Spec == Init /\ [][Next]_vars

----------------------------------------------------------------------------
TypeOK ==
  /\ users \subseteq born /\ born \subseteq User /\ approved \subseteq users
  /\ email \in [User -> Email \union {NoEmail}]
  /\ \A u \in users : email[u] \in Email
  /\ ver \in [User -> {"yes", "no"}]
  /\ via \in [User -> Code \union {NoCode}]
  /\ invites \subseteq Code /\ minted \subseteq Code
  /\ expired \subseteq Code /\ contested \subseteq Code
  /\ boundTo \in [Code -> Email \union {AnyEmail}]
  /\ usedBy \in [Code -> User \union {NoUser}]
  /\ raced \in BOOLEAN /\ faults \in Nat
  /\ pc \in [Proc -> PC] /\ op \in [Proc -> Op]
  /\ usr \in [Proc -> User \union {NoUser}]
  /\ em \in [Proc -> Email \union {NoEmail}]
  /\ want \in [Proc -> {"yes", "no"}]
  /\ code \in [Proc -> Code \union {NoCode}]

(* No two accounts share an address, whatever passed the earlier check.    *)
EmailUnique == \A u, v \in users : email[u] = email[v] => u = v

(* Nobody lets himself in: an account that can log in was declared         *)
(* verified by an admin or the boot, or was made with a code an admin made.*)
VerifiedWasApproved ==
  \A u \in users : CanLogIn(u) => u \in approved \/ via[u] \in minted

(* A code makes one account, as long as no two requests redeemed it at the *)
(* same time and the UPDATE that consumes it was not lost.                 *)
OneAccountPerInvite ==
  \A u, v \in born : via[u] = via[v] /\ via[u] \in Code \ contested => u = v

(* The record of who redeemed an invite (register.go:311-312): it names an *)
(* account made with it, and a second redeemer never replaces the first.   *)
RedeemerIsFinal ==
  [][\A c \in invites' :
       /\ usedBy[c] # NoUser => usedBy'[c] = usedBy[c]
       /\ usedBy'[c] # usedBy[c] => via[usedBy'[c]] = c]_vars

(* The directory, once it has an account, is emptied only when two         *)
(* deletions were both between their count and their DELETE.               *)
EmptiedOnlyByARace == born # {} /\ ~raced => users # {}

(* The parts of the inductive invariant that the proofs use: what a request*)
(* carries from one statement to the next,                                 *)
RequestsCarry ==
  \A p \in Proc :
    /\ pc[p] = "idle" => code[p] = NoCode
    /\ pc[p] \in {"emailCheck", "insert"} =>
         /\ em[p] \in Email /\ op[p] \in {"register", "create", "seed"}
         /\ op[p] = "register" /\ want[p] = "yes" => code[p] \in minted
    /\ pc[p] = "consume" => usr[p] \in born /\ code[p] \in Code /\ via[usr[p]] = code[p]
    /\ pc[p] \in {"collide", "write"} =>
         /\ usr[p] \in born /\ em[p] \in Email
         /\ usr[p] \in users /\ want[p] = "yes" => usr[p] \in approved \/ via[usr[p]] \in minted

(* what has become of an uncontested invite,                               *)
InvitesAccountedFor ==
  /\ invites \subseteq minted
  /\ \A p \in Proc : code[p] # NoCode =>
       code[p] \in minted /\ pc[p] \in {"emailCheck", "insert", "consume"}
  /\ \A u \in born : via[u] \in minted \union {NoCode}
  /\ \A c \in Code \ contested :
       /\ \A p, q \in Proc : code[p] = c /\ code[q] = c => p = q
       /\ \A p \in Proc : code[p] = c /\ pc[p] # "consume" => \A u \in born : via[u] # c
       /\ \A u \in born : via[u] = c =>
            \/ c \notin invites \/ usedBy[c] # NoUser
            \/ \E p \in Proc : pc[p] = "consume" /\ code[p] = c

(* and that a deletion past its count still leaves somebody.               *)
CountStillHolds ==
  ~raced =>
    /\ \A p \in Proc : pc[p] = "delete" => ~AtMostOneUser
    /\ \A p, q \in Proc : pc[p] = "delete" /\ pc[q] = "delete" => p = q

IInv ==
  /\ TypeOK /\ RequestsCarry /\ InvitesAccountedFor /\ CountStillHolds
  /\ EmailUnique /\ VerifiedWasApproved /\ OneAccountPerInvite /\ EmptiedOnlyByARace
============================================================================
