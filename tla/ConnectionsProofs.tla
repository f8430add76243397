-------------------------- MODULE ConnectionsProofs --------------------------
(***************************************************************************)
(* Proofs about Connections for any number of connections, credentials,    *)
(* flows, pairs, requests and faults.  IInv follows a token from the       *)
(* provider's answer to the row: whatever a request loaded or was given    *)
(* belongs to its connection, and a refresh token it still has to save is  *)
(* live and known to nobody else.                                          *)
(***************************************************************************)
EXTENDS Connections, TLAPS

(* t is no token, or one granted for connection c.                         *)
Of(t, c) == t = NoPair \/ (pair[t] # Absent /\ pair[t].conn = c)

RowOwn == \A c \in Conn : rows[c] # NoRow => Of(rows[c].access, c) /\ Of(rows[c].refresh, c)

Inserted == \A c \in Conn : rows[c] # NoRow => c \in made

RequestOwn ==
  \A p \in Proc :
    /\ req[p].row # NoRow =>
         Of(req[p].row.access, req[p].conn) /\ Of(req[p].row.refresh, req[p].conn)
    /\ At(p, "save") =>
         Of(req[p].access, req[p].conn) /\ Of(req[p].refresh, req[p].conn)

FlowOwn ==
  /\ \A f \in Flow : f \in states \/ code[f] # "none" => flow[f] # Absent
  /\ \A p \in Proc : req[p].kind = "callback" =>
       flow[req[p].flow] # Absent /\ flow[req[p].flow].conn = req[p].conn

(* A refresh token on its way to a row.                                    *)
Unsaved ==
  \A p \in Proc : At(p, "save") /\ req[p].refresh # NoPair =>
    /\ req[p].refresh \in liveR \union revoked
    /\ \A c \in Conn : rows[c] # NoRow => rows[c].refresh # req[p].refresh
    /\ \A q \in Proc :
         /\ req[q].row # NoRow => req[q].row.refresh # req[p].refresh
         /\ q # p /\ At(q, "save") => req[q].refresh # req[p].refresh

IInv ==
  TypeOK /\ RowOwn /\ Inserted /\ RequestOwn /\ FlowOwn /\ Unsaved /\ RenewableUnlessLost

(* Noting an answer keeps a request a request.                             *)
LEMMA AnswerTyped ==
  ASSUME req \in [Proc -> Request], NEW p \in Proc, NEW a \in Pair \union {NoPair},
         NEW r \in Pair \union {NoPair}, Answered(p, a, r)
  PROVE  req' \in [Proc -> Request]
<1>1. [req[p] EXCEPT !.pc = "save", !.access = a, !.refresh = r] \in Request
  BY DEF Request, PC
<1> QED
  BY <1>1 DEF Answered

(* A saved answer keeps a row a row.                                       *)
LEMMA StoredTyped ==
  ASSUME req \in [Proc -> Request], rows \in [Conn -> Row \union {NoRow}],
         NEW p \in Proc, NEW c \in Conn, rows[c] # NoRow
  PROVE  Stored(p, c) \in Row
<1>1. rows[c] \in Row
  OBVIOUS
<1>2. req[p].access \in Pair \union {NoPair} /\ req[p].refresh \in Pair \union {NoPair}
  BY DEF Request
<1> QED
  BY <1>1, <1>2 DEF Stored, Row

(* Nothing is stored yet.                                                  *)
LEMMA InitIInv == Init => IInv
<1> SUFFICES ASSUME Init PROVE IInv
  OBVIOUS
<1> QED
  BY NullAssumption, BoundsAssumption
  DEF Init, IInv, TypeOK, RowOwn, Inserted, RequestOwn, FlowOwn, Unsaved, RenewableUnlessLost,
      InFlight, Idle, New, At, Request, PC, Kind, Absent

(* Every call preserves the invariant.                                     *)
LEMMA NextIInv == IInv /\ [Next]_vars => IInv'
<1> SUFFICES ASSUME IInv, [Next]_vars PROVE IInv'
  OBVIOUS
<1> USE NullAssumption, BoundsAssumption DEF IInv, db, kv, provider, bounds, At, Absent
<1>1. ASSUME NEW c \in Conn, Create(c) PROVE IInv'
  <2> USE <1>1 DEF Create
  <2>1. TypeOK' BY DEF TypeOK, Row, Grant, Request, PC, Kind, FlowOwn
  <2>2. RowOwn' BY DEF TypeOK, RowOwn, RequestOwn, Of, Row, Request, Grant
  <2>3. Inserted' BY DEF TypeOK, Inserted
  <2>4. RequestOwn' BY DEF TypeOK, RowOwn, RequestOwn, FlowOwn, Of, Row, Request, Grant
  <2>5. FlowOwn' BY DEF TypeOK, FlowOwn, Request, Grant
  <2>6. Unsaved' BY DEF TypeOK, Unsaved, RowOwn, RequestOwn, Of, Row, Request
  <2>7. RenewableUnlessLost' BY DEF TypeOK, RenewableUnlessLost, InFlight, Unsaved, RowOwn,
      RequestOwn, Of, Row, Request
  <2> QED BY <2>1, <2>2, <2>3, <2>4, <2>5, <2>6, <2>7 DEF IInv
<1>2. ASSUME NEW c \in Conn, Delete(c) PROVE IInv'
  <2> USE <1>2 DEF Delete
  <2>1. TypeOK' BY DEF TypeOK, Row, Grant, Request, PC, Kind, FlowOwn
  <2>2. RowOwn' BY DEF TypeOK, RowOwn, RequestOwn, Of, Row, Request, Grant
  <2>3. Inserted' BY DEF TypeOK, Inserted
  <2>4. RequestOwn' BY DEF TypeOK, RowOwn, RequestOwn, FlowOwn, Of, Row, Request, Grant
  <2>5. FlowOwn' BY DEF TypeOK, FlowOwn, Request, Grant
  <2>6. Unsaved' BY DEF TypeOK, Unsaved, RowOwn, RequestOwn, Of, Row, Request
  <2>7. RenewableUnlessLost' BY DEF TypeOK, RenewableUnlessLost, InFlight, Unsaved, RowOwn,
      RequestOwn, Of, Row, Request
  <2> QED BY <2>1, <2>2, <2>3, <2>4, <2>5, <2>6, <2>7 DEF IInv
<1>3. ASSUME NEW c \in Conn, NEW f \in Flow, Authorize(c, f) PROVE IInv'
  <2> USE <1>3 DEF Authorize
  <2>1. TypeOK' BY DEF TypeOK, Row, Grant, Request, PC, Kind, FlowOwn
  <2>2. RowOwn' BY DEF TypeOK, RowOwn, RequestOwn, Of, Row, Request, Grant
  <2>3. Inserted' BY DEF TypeOK, Inserted
  <2>4. RequestOwn' BY DEF TypeOK, RowOwn, RequestOwn, FlowOwn, Of, Row, Request, Grant
  <2>5. FlowOwn' BY DEF TypeOK, FlowOwn, Request, Grant
  <2>6. Unsaved' BY DEF TypeOK, Unsaved, RowOwn, RequestOwn, Of, Row, Request
  <2>7. RenewableUnlessLost' BY DEF TypeOK, RenewableUnlessLost, InFlight, Unsaved, RowOwn,
      RequestOwn, Of, Row, Request
  <2> QED BY <2>1, <2>2, <2>3, <2>4, <2>5, <2>6, <2>7 DEF IInv
<1>4. ASSUME NEW f \in Flow, StateExpires(f) PROVE IInv'
  <2> USE <1>4 DEF StateExpires
  <2>1. TypeOK' BY DEF TypeOK, Row, Grant, Request, PC, Kind, FlowOwn
  <2>2. RowOwn' BY DEF TypeOK, RowOwn, RequestOwn, Of, Row, Request, Grant
  <2>3. Inserted' BY DEF TypeOK, Inserted
  <2>4. RequestOwn' BY DEF TypeOK, RowOwn, RequestOwn, FlowOwn, Of, Row, Request, Grant
  <2>5. FlowOwn' BY DEF TypeOK, FlowOwn, Request, Grant
  <2>6. Unsaved' BY DEF TypeOK, Unsaved, RowOwn, RequestOwn, Of, Row, Request
  <2>7. RenewableUnlessLost' BY DEF TypeOK, RenewableUnlessLost, InFlight, Unsaved, RowOwn,
      RequestOwn, Of, Row, Request
  <2> QED BY <2>1, <2>2, <2>3, <2>4, <2>5, <2>6, <2>7 DEF IInv
<1>5. ASSUME NEW f \in Flow, Approve(f) PROVE IInv'
  <2> USE <1>5 DEF Approve
  <2>1. TypeOK' BY DEF TypeOK, Row, Grant, Request, PC, Kind, FlowOwn
  <2>2. RowOwn' BY DEF TypeOK, RowOwn, RequestOwn, Of, Row, Request, Grant
  <2>3. Inserted' BY DEF TypeOK, Inserted
  <2>4. RequestOwn' BY DEF TypeOK, RowOwn, RequestOwn, FlowOwn, Of, Row, Request, Grant
  <2>5. FlowOwn' BY DEF TypeOK, FlowOwn, Request, Grant
  <2>6. Unsaved' BY DEF TypeOK, Unsaved, RowOwn, RequestOwn, Of, Row, Request
  <2>7. RenewableUnlessLost' BY DEF TypeOK, RenewableUnlessLost, InFlight, Unsaved, RowOwn,
      RequestOwn, Of, Row, Request
  <2> QED BY <2>1, <2>2, <2>3, <2>4, <2>5, <2>6, <2>7 DEF IInv
<1>6. ASSUME NEW t \in Pair, AccessExpires(t) PROVE IInv'
  <2> USE <1>6 DEF AccessExpires
  <2>1. TypeOK' BY DEF TypeOK, Row, Grant, Request, PC, Kind, FlowOwn
  <2>2. RowOwn' BY DEF TypeOK, RowOwn, RequestOwn, Of, Row, Request, Grant
  <2>3. Inserted' BY DEF TypeOK, Inserted
  <2>4. RequestOwn' BY DEF TypeOK, RowOwn, RequestOwn, FlowOwn, Of, Row, Request, Grant
  <2>5. FlowOwn' BY DEF TypeOK, FlowOwn, Request, Grant
  <2>6. Unsaved' BY DEF TypeOK, Unsaved, RowOwn, RequestOwn, Of, Row, Request
  <2>7. RenewableUnlessLost' BY DEF TypeOK, RenewableUnlessLost, InFlight, Unsaved, RowOwn,
      RequestOwn, Of, Row, Request
  <2> QED BY <2>1, <2>2, <2>3, <2>4, <2>5, <2>6, <2>7 DEF IInv
<1>7. ASSUME NEW t \in Pair, Withdraw(t) PROVE IInv'
  <2> USE <1>7 DEF Withdraw
  <2>1. TypeOK' BY DEF TypeOK, Row, Grant, Request, PC, Kind, FlowOwn
  <2>2. RowOwn' BY DEF TypeOK, RowOwn, RequestOwn, Of, Row, Request, Grant
  <2>3. Inserted' BY DEF TypeOK, Inserted
  <2>4. RequestOwn' BY DEF TypeOK, RowOwn, RequestOwn, FlowOwn, Of, Row, Request, Grant
  <2>5. FlowOwn' BY DEF TypeOK, FlowOwn, Request, Grant
  <2>6. Unsaved' BY DEF TypeOK, Unsaved, RowOwn, RequestOwn, Of, Row, Request
  <2>7. RenewableUnlessLost' BY DEF TypeOK, RenewableUnlessLost, InFlight, Unsaved, RowOwn,
      RequestOwn, Of, Row, Request
  <2> QED BY <2>1, <2>2, <2>3, <2>4, <2>5, <2>6, <2>7 DEF IInv
<1>8. ASSUME NEW p \in Proc, BeginById(p) PROVE IInv'
  <2> USE <1>8 DEF BeginById, Begin, New
  <2>1. TypeOK'
    <3>1. req' \in [Proc -> Request]
      BY DEF TypeOK, Row, Grant, Request, PC, Kind, FlowOwn
    <3>2. \A q \in Proc :
            /\ ~(req'[q].pc = "idle") => req'[q].conn \in Conn
            /\ req'[q].kind = "callback" => req'[q].flow \in Flow /\ req'[q].code \in Flow
            /\ ~(req'[q].pc \in {"idle", "state", "load"}) => req'[q].row # NoRow
            /\ req'[q].pc = "save" => req'[q].access # NoPair
            /\ req'[q].pc = "save" /\ req'[q].kind # "callback" => req'[q].row.refresh # NoPair
            /\ req'[q].pc = "exchange" => req'[q].kind = "callback"
            /\ req'[q].pc = "refresh" => req'[q].kind # "callback"
      BY DEF TypeOK, Row, Grant, Request, PC, Kind, FlowOwn
    <3> QED
      BY <3>1, <3>2 DEF TypeOK, Row, Grant, Request, PC, Kind, FlowOwn
  <2>2. RowOwn' BY DEF TypeOK, RowOwn, RequestOwn, Of, Row, Request, Grant
  <2>3. Inserted' BY DEF TypeOK, Inserted
  <2>4. RequestOwn' BY DEF TypeOK, RowOwn, RequestOwn, FlowOwn, Of, Row, Request, Grant
  <2>5. FlowOwn' BY DEF TypeOK, FlowOwn, Request, Grant
  <2>6. Unsaved' BY DEF TypeOK, Unsaved, RowOwn, RequestOwn, Of, Row, Request
  <2>7. RenewableUnlessLost' BY DEF TypeOK, RenewableUnlessLost, InFlight, Unsaved, RowOwn,
      RequestOwn, Of, Row, Request
  <2> QED BY <2>1, <2>2, <2>3, <2>4, <2>5, <2>6, <2>7 DEF IInv
<1>9. ASSUME NEW p \in Proc, BeginCallback(p) PROVE IInv'
  <2> USE <1>9 DEF BeginCallback, Begin, New
  <2>1. TypeOK'
    <3>1. req' \in [Proc -> Request]
      BY DEF TypeOK, Row, Grant, Request, PC, Kind, FlowOwn
    <3>2. \A q \in Proc :
            /\ ~(req'[q].pc = "idle") => req'[q].conn \in Conn
            /\ req'[q].kind = "callback" => req'[q].flow \in Flow /\ req'[q].code \in Flow
            /\ ~(req'[q].pc \in {"idle", "state", "load"}) => req'[q].row # NoRow
            /\ req'[q].pc = "save" => req'[q].access # NoPair
            /\ req'[q].pc = "save" /\ req'[q].kind # "callback" => req'[q].row.refresh # NoPair
            /\ req'[q].pc = "exchange" => req'[q].kind = "callback"
            /\ req'[q].pc = "refresh" => req'[q].kind # "callback"
      BY DEF TypeOK, Row, Grant, Request, PC, Kind, FlowOwn
    <3> QED
      BY <3>1, <3>2 DEF TypeOK, Row, Grant, Request, PC, Kind, FlowOwn
  <2>2. RowOwn' BY DEF TypeOK, RowOwn, RequestOwn, Of, Row, Request, Grant
  <2>3. Inserted' BY DEF TypeOK, Inserted
  <2>4. RequestOwn' BY DEF TypeOK, RowOwn, RequestOwn, FlowOwn, Of, Row, Request, Grant
  <2>5. FlowOwn' BY DEF TypeOK, FlowOwn, Request, Grant
  <2>6. Unsaved' BY DEF TypeOK, Unsaved, RowOwn, RequestOwn, Of, Row, Request
  <2>7. RenewableUnlessLost' BY DEF TypeOK, RenewableUnlessLost, InFlight, Unsaved, RowOwn,
      RequestOwn, Of, Row, Request
  <2> QED BY <2>1, <2>2, <2>3, <2>4, <2>5, <2>6, <2>7 DEF IInv
<1>10. ASSUME NEW p \in Proc, DropState(p) PROVE IInv'
  <2> USE <1>10 DEF DropState, Goto
  <2>1. TypeOK' BY DEF TypeOK, Row, Grant, Request, PC, Kind, FlowOwn
  <2>2. RowOwn' BY DEF TypeOK, RowOwn, RequestOwn, Of, Row, Request, Grant
  <2>3. Inserted' BY DEF TypeOK, Inserted
  <2>4. RequestOwn' BY DEF TypeOK, RowOwn, RequestOwn, FlowOwn, Of, Row, Request, Grant
  <2>5. FlowOwn' BY DEF TypeOK, FlowOwn, Request, Grant
  <2>6. Unsaved' BY DEF TypeOK, Unsaved, RowOwn, RequestOwn, Of, Row, Request
  <2>7. RenewableUnlessLost' BY DEF TypeOK, RenewableUnlessLost, InFlight, Unsaved, RowOwn,
      RequestOwn, Of, Row, Request
  <2> QED BY <2>1, <2>2, <2>3, <2>4, <2>5, <2>6, <2>7 DEF IInv
<1>11. ASSUME NEW p \in Proc, Load(p) PROVE IInv'
  <2> USE <1>11 DEF Load, AfterLoad, Done, Idle, New
  <2>1. TypeOK'
    <3>1. req' \in [Proc -> Request]
      BY DEF TypeOK, Row, Grant, Request, PC, Kind, FlowOwn
    <3>2. \A q \in Proc :
            /\ ~(req'[q].pc = "idle") => req'[q].conn \in Conn
            /\ req'[q].kind = "callback" => req'[q].flow \in Flow /\ req'[q].code \in Flow
            /\ ~(req'[q].pc \in {"idle", "state", "load"}) => req'[q].row # NoRow
            /\ req'[q].pc = "save" => req'[q].access # NoPair
            /\ req'[q].pc = "save" /\ req'[q].kind # "callback" => req'[q].row.refresh # NoPair
            /\ req'[q].pc = "exchange" => req'[q].kind = "callback"
            /\ req'[q].pc = "refresh" => req'[q].kind # "callback"
      BY DEF TypeOK, Row, Grant, Request, PC, Kind, FlowOwn
    <3> QED
      BY <3>1, <3>2 DEF TypeOK, Row, Grant, Request, PC, Kind, FlowOwn
  <2>2. RowOwn' BY DEF TypeOK, RowOwn, RequestOwn, Of, Row, Request, Grant
  <2>3. Inserted' BY DEF TypeOK, Inserted
  <2>4. RequestOwn' BY DEF TypeOK, RowOwn, RequestOwn, FlowOwn, Of, Row, Request, Grant
  <2>5. FlowOwn' BY DEF TypeOK, FlowOwn, Request, Grant
  <2>6. Unsaved' BY SMTT(30) DEF TypeOK, Unsaved, RowOwn, RequestOwn, Of, Row, Request
  <2>7. RenewableUnlessLost' BY SMTT(30) DEF TypeOK, RenewableUnlessLost, InFlight, Unsaved,
      RowOwn, RequestOwn, Of, Row, Request
  <2> QED BY <2>1, <2>2, <2>3, <2>4, <2>5, <2>6, <2>7 DEF IInv
<1>12. ASSUME NEW p \in Proc, Write(p) PROVE IInv'
  <2> USE <1>12 DEF Write, Done, Idle, New
  <2>1. TypeOK' BY DEF TypeOK, Row, Grant, Request, PC, Kind, FlowOwn
  <2>2. RowOwn' BY DEF TypeOK, RowOwn, RequestOwn, Of, Row, Request, Grant
  <2>3. Inserted' BY DEF TypeOK, Inserted
  <2>4. RequestOwn' BY DEF TypeOK, RowOwn, RequestOwn, FlowOwn, Of, Row, Request, Grant
  <2>5. FlowOwn' BY DEF TypeOK, FlowOwn, Request, Grant
  <2>6. Unsaved' BY SMTT(30) DEF TypeOK, Unsaved, RowOwn, RequestOwn, Of, Row, Request
  <2>7. RenewableUnlessLost' BY SMTT(30) DEF TypeOK, RenewableUnlessLost, InFlight, Unsaved,
      RowOwn, RequestOwn, Of, Row, Request
  <2> QED BY <2>1, <2>2, <2>3, <2>4, <2>5, <2>6, <2>7 DEF IInv
<1>13. ASSUME NEW p \in Proc, Exchange(p) PROVE IInv'
  <2>1. CASE ~(code[req[p].code] = "issued" /\ flow[req[p].code].client = req[p].row.client
               /\ req[p].flow = req[p].code)
    <3> USE <1>13, <2>1 DEF Exchange, Done, Idle, New
    <3>1. TypeOK' BY SMTT(30) DEF TypeOK, Row, Grant, Request, PC, Kind, FlowOwn
    <3>2. RowOwn' BY DEF TypeOK, RowOwn, RequestOwn, Of, Row, Request, Grant
    <3>3. Inserted' BY DEF TypeOK, Inserted
    <3>4. RequestOwn' BY SMTT(30) DEF TypeOK, RowOwn, RequestOwn, FlowOwn, Of, Row, Request,
        Grant
    <3>5. FlowOwn' BY SMTT(30) DEF TypeOK, FlowOwn, Request, Grant
    <3>6. Unsaved' BY SMTT(30) DEF TypeOK, Unsaved, RowOwn, RequestOwn, Of, Row, Request
    <3>7. RenewableUnlessLost' BY SMTT(30) DEF TypeOK, RenewableUnlessLost, InFlight, Unsaved,
        RowOwn, RequestOwn, Of, Row, Request
    <3> QED BY <3>1, <3>2, <3>3, <3>4, <3>5, <3>6, <3>7 DEF IInv
  <2>2. ASSUME NEW t \in Pair, At(p, "exchange"), Issue(t, flow[req[p].code], {}), Answered(p, t, t),
               code[req[p].code] = "issued", req[p].flow = req[p].code,
               code' = [code EXCEPT ![req[p].code] = "used"], UNCHANGED <<db, kv, wasted, bounds>>
        PROVE  IInv'
    <3> USE <2>2 DEF Issue, Answered
    <3>1. TypeOK'
      <4>1. req' \in [Proc -> Request]
        BY AnswerTyped DEF TypeOK
      <4>2. \A q \in Proc :
              /\ ~(req'[q].pc = "idle") => req'[q].conn \in Conn
              /\ req'[q].kind = "callback" => req'[q].flow \in Flow /\ req'[q].code \in Flow
              /\ ~(req'[q].pc \in {"idle", "state", "load"}) => req'[q].row # NoRow
              /\ req'[q].pc = "save" => req'[q].access # NoPair
              /\ req'[q].pc = "save" /\ req'[q].kind # "callback" => req'[q].row.refresh # NoPair
              /\ req'[q].pc = "exchange" => req'[q].kind = "callback"
              /\ req'[q].pc = "refresh" => req'[q].kind # "callback"
        BY DEF TypeOK, Row, Grant, Request, PC, Kind, FlowOwn
      <4>3. pair' \in [Pair -> Grant \union {Absent}] /\ liveA' \subseteq Pair /\ liveR' \subseteq Pair
        BY DEF TypeOK, Row, Grant, Request, PC, Kind, FlowOwn
      <4> QED
        BY <4>1, <4>2, <4>3 DEF TypeOK, Row, Grant, Request, PC, Kind, FlowOwn
    <3>2. RowOwn' BY DEF TypeOK, RowOwn, RequestOwn, Of, Row, Request, Grant
    <3>3. Inserted' BY DEF TypeOK, Inserted
    <3>4. RequestOwn' BY DEF TypeOK, RowOwn, RequestOwn, FlowOwn, Of, Row, Request, Grant
    <3>5. FlowOwn' BY DEF TypeOK, FlowOwn, Request, Grant
    <3>6. Unsaved' BY SMTT(30) DEF TypeOK, Unsaved, RowOwn, RequestOwn, Of, Row, Request
    <3>7. RenewableUnlessLost' BY SMTT(30) DEF TypeOK, RenewableUnlessLost, InFlight, Unsaved,
        RowOwn, RequestOwn, Of, Row, Request
    <3> QED BY <3>1, <3>2, <3>3, <3>4, <3>5, <3>6, <3>7 DEF IInv
  <2> QED BY <1>13, <2>1, <2>2 DEF Exchange
<1>14. ASSUME NEW p \in Proc, Refresh(p) PROVE IInv'
  <2>1. CASE ~(req[p].row.refresh \in liveR
               /\ pair[req[p].row.refresh].client = req[p].row.client)
    <3> USE <1>14, <2>1 DEF Refresh, Done, Idle, New
    <3>1. TypeOK' BY SMTT(30) DEF TypeOK, Row, Grant, Request, PC, Kind, FlowOwn
    <3>2. RowOwn' BY DEF TypeOK, RowOwn, RequestOwn, Of, Row, Request, Grant
    <3>3. Inserted' BY DEF TypeOK, Inserted
    <3>4. RequestOwn' BY SMTT(30) DEF TypeOK, RowOwn, RequestOwn, FlowOwn, Of, Row, Request,
        Grant
    <3>5. FlowOwn' BY SMTT(30) DEF TypeOK, FlowOwn, Request, Grant
    <3>6. Unsaved' BY SMTT(30) DEF TypeOK, Unsaved, RowOwn, RequestOwn, Of, Row, Request
    <3>7. RenewableUnlessLost' BY SMTT(30) DEF TypeOK, RenewableUnlessLost, InFlight, Unsaved,
        RowOwn, RequestOwn, Of, Row, Request
    <3> QED BY <3>1, <3>2, <3>3, <3>4, <3>5, <3>6, <3>7 DEF IInv
  <2>2. ASSUME NEW t \in Pair, At(p, "refresh"), req[p].row.refresh \in liveR,
               Issue(t, pair[req[p].row.refresh], {req[p].row.refresh}), Answered(p, t, t),
               UNCHANGED <<db, kv, code, wasted, bounds>>
        PROVE  IInv'
    <3> USE <2>2 DEF Issue, Answered
    <3>1. TypeOK'
      <4>1. req' \in [Proc -> Request]
        BY AnswerTyped DEF TypeOK
      <4>2. \A q \in Proc :
              /\ ~(req'[q].pc = "idle") => req'[q].conn \in Conn
              /\ req'[q].kind = "callback" => req'[q].flow \in Flow /\ req'[q].code \in Flow
              /\ ~(req'[q].pc \in {"idle", "state", "load"}) => req'[q].row # NoRow
              /\ req'[q].pc = "save" => req'[q].access # NoPair
              /\ req'[q].pc = "save" /\ req'[q].kind # "callback" => req'[q].row.refresh # NoPair
              /\ req'[q].pc = "exchange" => req'[q].kind = "callback"
              /\ req'[q].pc = "refresh" => req'[q].kind # "callback"
        BY DEF TypeOK, Row, Grant, Request, PC, Kind, FlowOwn
      <4>3. pair' \in [Pair -> Grant \union {Absent}] /\ liveA' \subseteq Pair /\ liveR' \subseteq Pair
        BY DEF TypeOK, Row, Grant, Request, PC, Kind, FlowOwn
      <4> QED
        BY <4>1, <4>2, <4>3 DEF TypeOK, Row, Grant, Request, PC, Kind, FlowOwn
    <3>2. RowOwn' BY DEF TypeOK, RowOwn, RequestOwn, Of, Row, Request, Grant
    <3>3. Inserted' BY DEF TypeOK, Inserted
    <3>4. RequestOwn' BY DEF TypeOK, RowOwn, RequestOwn, FlowOwn, Of, Row, Request, Grant
    <3>5. FlowOwn' BY DEF TypeOK, FlowOwn, Request, Grant
    <3>6. Unsaved' BY SMTT(30) DEF TypeOK, Unsaved, RowOwn, RequestOwn, Of, Row, Request
    <3>7. RenewableUnlessLost' BY SMTT(30) DEF TypeOK, RenewableUnlessLost, InFlight, Unsaved,
        RowOwn, RequestOwn, Of, Row, Request
    <3> QED BY <3>1, <3>2, <3>3, <3>4, <3>5, <3>6, <3>7 DEF IInv
  <2>3. ASSUME NEW t \in Pair, At(p, "refresh"), req[p].row.refresh \in liveR, pair[t] = Absent,
               pair' = [pair EXCEPT ![t] = pair[req[p].row.refresh]], liveA' = liveA \union {t},
               Answered(p, t, NoPair), UNCHANGED <<db, kv, code, liveR, revoked, wasted, bounds>>
        PROVE  IInv'
    <3> USE <2>3 DEF Answered
    <3>1. TypeOK'
      <4>1. req' \in [Proc -> Request]
        BY AnswerTyped DEF TypeOK
      <4>2. \A q \in Proc :
              /\ ~(req'[q].pc = "idle") => req'[q].conn \in Conn
              /\ req'[q].kind = "callback" => req'[q].flow \in Flow /\ req'[q].code \in Flow
              /\ ~(req'[q].pc \in {"idle", "state", "load"}) => req'[q].row # NoRow
              /\ req'[q].pc = "save" => req'[q].access # NoPair
              /\ req'[q].pc = "save" /\ req'[q].kind # "callback" => req'[q].row.refresh # NoPair
              /\ req'[q].pc = "exchange" => req'[q].kind = "callback"
              /\ req'[q].pc = "refresh" => req'[q].kind # "callback"
        BY DEF TypeOK, Row, Grant, Request, PC, Kind, FlowOwn
      <4>3. pair' \in [Pair -> Grant \union {Absent}] /\ liveA' \subseteq Pair /\ liveR' \subseteq Pair
        BY DEF TypeOK, Row, Grant, Request, PC, Kind, FlowOwn
      <4> QED
        BY <4>1, <4>2, <4>3 DEF TypeOK, Row, Grant, Request, PC, Kind, FlowOwn
    <3>2. RowOwn' BY DEF TypeOK, RowOwn, RequestOwn, Of, Row, Request, Grant
    <3>3. Inserted' BY DEF TypeOK, Inserted
    <3>4. RequestOwn' BY DEF TypeOK, RowOwn, RequestOwn, FlowOwn, Of, Row, Request, Grant
    <3>5. FlowOwn' BY DEF TypeOK, FlowOwn, Request, Grant
    <3>6. Unsaved' BY SMTT(30) DEF TypeOK, Unsaved, RowOwn, RequestOwn, Of, Row, Request
    <3>7. RenewableUnlessLost' BY SMTT(30) DEF TypeOK, RenewableUnlessLost, InFlight, Unsaved,
        RowOwn, RequestOwn, Of, Row, Request
    <3> QED BY <3>1, <3>2, <3>3, <3>4, <3>5, <3>6, <3>7 DEF IInv
  <2> QED BY <1>14, <2>1, <2>2, <2>3 DEF Refresh
<1>15. ASSUME NEW p \in Proc, Save(p) PROVE IInv'
  <2> USE <1>15 DEF Save, Saved, Stored, Done, Idle, New
  <2>1. TypeOK'
    <3>1. req' \in [Proc -> Request]
      BY DEF TypeOK, Row, Grant, Request, PC, Kind, FlowOwn
    <3>2. \A q \in Proc :
            /\ ~(req'[q].pc = "idle") => req'[q].conn \in Conn
            /\ req'[q].kind = "callback" => req'[q].flow \in Flow /\ req'[q].code \in Flow
            /\ ~(req'[q].pc \in {"idle", "state", "load"}) => req'[q].row # NoRow
            /\ req'[q].pc = "save" => req'[q].access # NoPair
            /\ req'[q].pc = "save" /\ req'[q].kind # "callback" => req'[q].row.refresh # NoPair
            /\ req'[q].pc = "exchange" => req'[q].kind = "callback"
            /\ req'[q].pc = "refresh" => req'[q].kind # "callback"
      BY DEF TypeOK, Row, Grant, Request, PC, Kind, FlowOwn
    <3>3. rows' \in [Conn -> Row \union {NoRow}]
      BY StoredTyped DEF TypeOK
    <3> QED
      BY <3>1, <3>2, <3>3 DEF TypeOK, Row, Grant, Request, PC, Kind, FlowOwn
  <2>2. RowOwn' BY DEF TypeOK, RowOwn, RequestOwn, Of, Row, Request, Grant
  <2>3. Inserted' BY DEF TypeOK, Inserted
  <2>4. RequestOwn' BY DEF TypeOK, RowOwn, RequestOwn, FlowOwn, Of, Row, Request, Grant
  <2>5. FlowOwn' BY DEF TypeOK, FlowOwn, Request, Grant
  <2>6. Unsaved' BY DEF TypeOK, Unsaved, RowOwn, RequestOwn, Of, Row, Request
  <2>7. RenewableUnlessLost' BY DEF TypeOK, RenewableUnlessLost, InFlight, Unsaved, RowOwn,
      RequestOwn, Of, Row, Request
  <2> QED BY <2>1, <2>2, <2>3, <2>4, <2>5, <2>6, <2>7 DEF IInv
<1>16. ASSUME NEW p \in Proc, Get(p) PROVE IInv'
  <2> USE <1>16 DEF Get, Goto, Done, Idle, New
  <2>1. TypeOK'
    <3>1. req' \in [Proc -> Request]
      BY DEF TypeOK, Row, Grant, Request, PC, Kind, FlowOwn
    <3>2. \A q \in Proc :
            /\ ~(req'[q].pc = "idle") => req'[q].conn \in Conn
            /\ req'[q].kind = "callback" => req'[q].flow \in Flow /\ req'[q].code \in Flow
            /\ ~(req'[q].pc \in {"idle", "state", "load"}) => req'[q].row # NoRow
            /\ req'[q].pc = "save" => req'[q].access # NoPair
            /\ req'[q].pc = "save" /\ req'[q].kind # "callback" => req'[q].row.refresh # NoPair
            /\ req'[q].pc = "exchange" => req'[q].kind = "callback"
            /\ req'[q].pc = "refresh" => req'[q].kind # "callback"
      BY DEF TypeOK, Row, Grant, Request, PC, Kind, FlowOwn
    <3> QED
      BY <3>1, <3>2 DEF TypeOK, Row, Grant, Request, PC, Kind, FlowOwn
  <2>2. RowOwn' BY DEF TypeOK, RowOwn, RequestOwn, Of, Row, Request, Grant
  <2>3. Inserted' BY DEF TypeOK, Inserted
  <2>4. RequestOwn' BY DEF TypeOK, RowOwn, RequestOwn, FlowOwn, Of, Row, Request, Grant
  <2>5. FlowOwn' BY DEF TypeOK, FlowOwn, Request, Grant
  <2>6. Unsaved' BY SMTT(30) DEF TypeOK, Unsaved, RowOwn, RequestOwn, Of, Row, Request
  <2>7. RenewableUnlessLost' BY SMTT(30) DEF TypeOK, RenewableUnlessLost, InFlight, Unsaved,
      RowOwn, RequestOwn, Of, Row, Request
  <2> QED BY <2>1, <2>2, <2>3, <2>4, <2>5, <2>6, <2>7 DEF IInv
<1>17. ASSUME NEW p \in Proc, Fail(p) PROVE IInv'
  <2> USE <1>17 DEF Fail, Done, Idle, New
  <2>1. TypeOK'
    <3>1. req' \in [Proc -> Request]
      BY DEF TypeOK, Row, Grant, Request, PC, Kind, FlowOwn
    <3>2. \A q \in Proc :
            /\ ~(req'[q].pc = "idle") => req'[q].conn \in Conn
            /\ req'[q].kind = "callback" => req'[q].flow \in Flow /\ req'[q].code \in Flow
            /\ ~(req'[q].pc \in {"idle", "state", "load"}) => req'[q].row # NoRow
            /\ req'[q].pc = "save" => req'[q].access # NoPair
            /\ req'[q].pc = "save" /\ req'[q].kind # "callback" => req'[q].row.refresh # NoPair
            /\ req'[q].pc = "exchange" => req'[q].kind = "callback"
            /\ req'[q].pc = "refresh" => req'[q].kind # "callback"
      BY DEF TypeOK, Row, Grant, Request, PC, Kind, FlowOwn
    <3> QED
      BY <3>1, <3>2 DEF TypeOK, Row, Grant, Request, PC, Kind, FlowOwn
  <2>2. RowOwn' BY DEF TypeOK, RowOwn, RequestOwn, Of, Row, Request, Grant
  <2>3. Inserted' BY DEF TypeOK, Inserted
  <2>4. RequestOwn' BY DEF TypeOK, RowOwn, RequestOwn, FlowOwn, Of, Row, Request, Grant
  <2>5. FlowOwn' BY DEF TypeOK, FlowOwn, Request, Grant
  <2>6. Unsaved' BY SMTT(30) DEF TypeOK, Unsaved, RowOwn, RequestOwn, Of, Row, Request
  <2>7. RenewableUnlessLost' BY SMTT(30) DEF TypeOK, RenewableUnlessLost, InFlight, Unsaved,
      RowOwn, RequestOwn, Of, Row, Request
  <2> QED BY <2>1, <2>2, <2>3, <2>4, <2>5, <2>6, <2>7 DEF IInv
<1>18. ASSUME UNCHANGED vars PROVE IInv'
  <2> USE <1>18 DEF vars
  <2>1. TypeOK' BY DEF TypeOK, Row, Grant, Request, PC, Kind, FlowOwn
  <2>2. RowOwn' BY DEF TypeOK, RowOwn, RequestOwn, Of, Row, Request, Grant
  <2>3. Inserted' BY DEF TypeOK, Inserted
  <2>4. RequestOwn' BY DEF TypeOK, RowOwn, RequestOwn, FlowOwn, Of, Row, Request, Grant
  <2>5. FlowOwn' BY DEF TypeOK, FlowOwn, Request, Grant
  <2>6. Unsaved' BY DEF TypeOK, Unsaved, RowOwn, RequestOwn, Of, Row, Request
  <2>7. RenewableUnlessLost' BY DEF TypeOK, RenewableUnlessLost, InFlight, Unsaved, RowOwn,
      RequestOwn, Of, Row, Request
  <2> QED BY <2>1, <2>2, <2>3, <2>4, <2>5, <2>6, <2>7 DEF IInv
<1> QED
  BY <1>1, <1>2, <1>3, <1>4, <1>5, <1>6, <1>7, <1>8, <1>9, <1>10, <1>11, <1>12, <1>13, <1>14,
      <1>15, <1>16, <1>17, <1>18 DEF Next, Step

(* IInv is an invariant of the specification.                              *)
LEMMA Inductive == Spec => []IInv
<1>1. IInv /\ [Next]_vars => IInv'
  BY NextIInv
<1> QED
  BY InitIInv, <1>1, PTL DEF Spec

(* Type correctness, and what a request holds at each place.               *)
THEOREM TypeCorrect == Spec => []TypeOK
<1>1. IInv => TypeOK
  BY DEF IInv
<1> QED
  BY Inductive, <1>1, PTL

(* The tokens of a connection were granted for it, for any number of       *)
(* connections sharing an application and requests overlapping.            *)
THEOREM TokensAreOwn == Spec => []OwnTokens
<1>1. IInv => OwnTokens
  <2> SUFFICES ASSUME IInv PROVE OwnTokens
    OBVIOUS
  <2> QED
    BY NullAssumption DEF IInv, RowOwn, Of, OwnTokens
<1> QED
  BY Inductive, <1>1, PTL

(* No overlap of searches, refreshes, callbacks and edits loses the        *)
(* refresh token the provider accepts.                                     *)
THEOREM NoneLostByOverlap == Spec => []RenewableUnlessLost
<1>1. IInv => RenewableUnlessLost
  BY DEF IInv
<1> QED
  BY Inductive, <1>1, PTL

(* No late write brings a deleted connection back.                         *)
THEOREM NoRevival == Spec => StaysDeleted
<1>1. IInv /\ [Next]_vars => [\A c \in made : rows[c] = NoRow => rows'[c] = NoRow]_vars
  <2> SUFFICES ASSUME IInv, Next, NEW c \in made, rows[c] = NoRow PROVE rows'[c] = NoRow
    OBVIOUS
  <2> USE DEF IInv, TypeOK, db, kv, provider, bounds
  <2>1. ASSUME NEW d \in Conn, Create(d) PROVE rows'[c] = NoRow
    BY <2>1 DEF Create
  <2>2. ASSUME NEW d \in Conn, Delete(d) PROVE rows'[c] = NoRow
    BY <2>2 DEF Delete
  <2>3. ASSUME NEW p \in Proc, Write(p) PROVE rows'[c] = NoRow
    BY <2>3 DEF Write
  <2>4. ASSUME NEW p \in Proc, Save(p) PROVE rows'[c] = NoRow
    BY <2>4 DEF Save
  <2>5. ASSUME UNCHANGED db PROVE rows'[c] = NoRow
    BY <2>5
  <2> QED
    BY <2>1, <2>2, <2>3, <2>4, <2>5
    DEF Next, Step, Authorize, StateExpires, Approve, AccessExpires, Withdraw, BeginById,
        BeginCallback, Begin, DropState, Load, Exchange, Refresh, Get, Fail
<1> QED
  BY Inductive, <1>1, PTL DEF Spec, StaysDeleted
=============================================================================
