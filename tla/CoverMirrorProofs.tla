-------------------------- MODULE CoverMirrorProofs --------------------------
(***************************************************************************)
(* Proofs about CoverMirror for any number of entries, pictures, requests, *)
(* messages, loops and faults.  IInv says what a job, a loop at each stage *)
(* and a request at each place know: the copy is there before anything     *)
(* names it (Stored), all that is under way for an entry that was never    *)
(* edited on top of itself is about the picture it wants (Fresh), and      *)
(* nothing is under way for an entry deleted in peace (Left).              *)
(***************************************************************************)
EXTENDS CoverMirror, TLAPS

(* A slot holds a job while a message is in it, and a loop works on one.   *)
JobShape ==
  /\ \A m \in Msg : job[m] = NoJob <=> FreeSlot(m)
  /\ \A w \in Worker :
       /\ stage[w] \in Stage => cur[w] \in Msg /\ job[cur[w]] # NoJob
       /\ stage[w] \notin Stage => cur[w] = NoMsg
       /\ stage[w] = "pull" => todo[w] = {} /\ acks[w] = {} /\ retries[w] = {}

(* Jobs and requests are about entries that were created, and what is to   *)
(* be cleaned up about deleted ones.                                       *)
Known ==
  /\ \A e \in Media : cover[e] # NoRow => e \in made
  /\ \A m \in Msg : job[m] # NoJob => job[m].media \in made
  /\ \A p \in Proc : ~At(p, "idle") => req[p].media \in made
  /\ \A p \in Proc : At(p, "clean") => cover[req[p].media] = NoRow
  /\ \A p \in Proc : At(p, "write") => req[p].new \in Submitted
  /\ \A e \in due : e \in made /\ cover[e] = NoRow

(* The copy is there when something names it or is about to.               *)
HasCopy(e) == content[e] # NoCover \/ cover[e] = NoRow
Stored ==
  /\ CoverHasObject
  /\ \A w \in Worker : stage[w] = "set" => HasCopy(job[cur[w]].media)
  /\ \A p \in Proc : At(p, "write") /\ req[p].cur = Key => HasCopy(req[p].media)

(* All that is under way for an entry is about the picture it wants.       *)
Fresh ==
  \A e \in Media \ mixed : cover[e] # NoRow =>
    /\ cover[e] = Key => wanted[e] \in {Signed, content[e]}
    /\ \A m \in Msg : job[m] # NoJob /\ job[m].media = e => job[m].url = wanted[e]
    /\ \A w \in Worker : stage[w] = "put" /\ job[cur[w]].media = e => wanted[e] \in {Signed, pic[w]}
    /\ \A w \in Worker : stage[w] = "set" /\ job[cur[w]].media = e => wanted[e] \in {Signed, content[e]}
    /\ \A p \in Proc : At(p, "enqueue") /\ req[p].media = e => req[p].new \in {Key, wanted[e]}
    /\ \A p \in Proc : At(p, "write") /\ req[p].media = e /\ req[p].cur = Key => cover[e] = Key

(* Nothing is under way for an entry deleted in peace.                     *)
Left ==
  \A e \in made \ late : cover[e] = NoRow =>
    /\ \A m \in Msg : job[m] # NoJob => job[m].media # e
    /\ \A p \in Proc : req[p].pc \in {"write", "enqueue"} => req[p].media # e

IInv == TypeOK /\ JobShape /\ Known /\ Stored /\ Fresh /\ Left /\ DeletedLeavesNothing

(* Initially nothing exists.                                               *)
LEMMA InitIInv == Init => IInv
<1> SUFFICES ASSUME Init PROVE IInv
  OBVIOUS
<1> USE NullAssumption, QueueAssumption, BoundsAssumption DEF Init, InitQueue
<1>1. TypeOK
  BY DEF TypeOK, QueueTypeOK, Stage, Request, Idle, Submitted
<1>2. JobShape
  BY DEF JobShape, FreeSlot, Held, Stage
<1>3. Known
  BY DEF Known, At, Idle
<1>4. Stored
  BY DEF Stored, CoverHasObject, At, Idle
<1>5. Fresh /\ Left /\ DeletedLeavesNothing
  BY DEF Fresh, Left, DeletedLeavesNothing
<1> QED
  BY <1>1, <1>2, <1>3, <1>4, <1>5 DEF IInv

(* Every statement, queue call and object call preserves it.               *)
LEMMA NextIInv == IInv /\ [Next]_vars => IInv'
<1> SUFFICES ASSUME IInv, [Next]_vars PROVE IInv'
  OBVIOUS
<1> USE NullAssumption, QueueAssumption, BoundsAssumption, ImageAssumption DEF IInv, At,
    queueVars, mediaVars, history, bounds
<1>1. ASSUME NEW p \in Proc, Create(p) PROVE IInv'
  <2> USE <1>1 DEF Create, Admit
  <2>1. TypeOK' BY DEF TypeOK, QueueTypeOK, Stage, Request, Submitted, Job, JobShape, Known
  <2>2. JobShape' BY DEF TypeOK, QueueTypeOK, Stage, Request, Submitted, Job, JobShape,
      FreeSlot, Held
  <2>3. Known' BY DEF TypeOK, QueueTypeOK, Stage, Request, Submitted, Job, JobShape, Known
  <2>4. Stored' BY DEF TypeOK, QueueTypeOK, Stage, Request, Submitted, Job, JobShape, Known,
      Stored, HasCopy, CoverHasObject
  <2>5. Fresh' BY DEF TypeOK, QueueTypeOK, Stage, Request, Submitted, Job, JobShape, Known,
      Fresh
  <2>6. Left' BY DEF TypeOK, QueueTypeOK, Stage, Request, Submitted, Job, JobShape, Known, Left
  <2>7. DeletedLeavesNothing' BY DEF TypeOK, QueueTypeOK, Stage, Request, Submitted, Job,
      JobShape, Known, Left, DeletedLeavesNothing
  <2> QED BY <2>1, <2>2, <2>3, <2>4, <2>5, <2>6, <2>7 DEF IInv
<1>2. ASSUME NEW p \in Proc, BeginUpdate(p) PROVE IInv'
  <2> USE <1>2 DEF BeginUpdate, Admit
  <2>1. TypeOK' BY DEF TypeOK, QueueTypeOK, Stage, Request, Submitted, Job, JobShape, Known
  <2>2. JobShape' BY DEF TypeOK, QueueTypeOK, Stage, Request, Submitted, Job, JobShape,
      FreeSlot, Held
  <2>3. Known' BY DEF TypeOK, QueueTypeOK, Stage, Request, Submitted, Job, JobShape, Known
  <2>4. Stored' BY DEF TypeOK, QueueTypeOK, Stage, Request, Submitted, Job, JobShape, Known,
      Stored, HasCopy, CoverHasObject
  <2>5. Fresh' BY DEF TypeOK, QueueTypeOK, Stage, Request, Submitted, Job, JobShape, Known,
      Fresh
  <2>6. Left' BY DEF TypeOK, QueueTypeOK, Stage, Request, Submitted, Job, JobShape, Known, Left
  <2>7. DeletedLeavesNothing' BY DEF TypeOK, QueueTypeOK, Stage, Request, Submitted, Job,
      JobShape, Known, Left, DeletedLeavesNothing
  <2> QED BY <2>1, <2>2, <2>3, <2>4, <2>5, <2>6, <2>7 DEF IInv
<1>3. ASSUME NEW p \in Proc, Write(p) PROVE IInv'
  <2>1. ASSUME At(p, "write"), cover[req[p].media] = NoRow, Done(p), UNCHANGED <<cover, history>>,
               UNCHANGED <<queueVars, made, content, due, job, pic, bounds>>
        PROVE  IInv'
    <3> USE <2>1 DEF Done, Idle
    <3>1. TypeOK' BY DEF TypeOK, QueueTypeOK, Stage, Request, Submitted, Job, JobShape, Known
    <3>2. JobShape' BY DEF TypeOK, QueueTypeOK, Stage, Request, Submitted, Job, JobShape,
        FreeSlot, Held
    <3>3. Known' BY DEF TypeOK, QueueTypeOK, Stage, Request, Submitted, Job, JobShape, Known
    <3>4. Stored' BY DEF TypeOK, QueueTypeOK, Stage, Request, Submitted, Job, JobShape, Known,
        Stored, HasCopy, CoverHasObject
    <3>5. Fresh' BY DEF TypeOK, QueueTypeOK, Stage, Request, Submitted, Job, JobShape, Known,
        Fresh
    <3>6. Left' BY DEF TypeOK, QueueTypeOK, Stage, Request, Submitted, Job, JobShape, Known,
        Left
    <3>7. DeletedLeavesNothing' BY DEF TypeOK, QueueTypeOK, Stage, Request, Submitted, Job,
        JobShape, Known, Left, DeletedLeavesNothing
    <3> QED BY <3>1, <3>2, <3>3, <3>4, <3>5, <3>6, <3>7 DEF IInv
  <2>2. ASSUME At(p, "write"), cover[req[p].media] = NoRow, UNCHANGED <<cover, history>>,
               req' = [req EXCEPT ![p].pc = "enqueue", ![p].new = Kept(p)],
               UNCHANGED <<queueVars, made, content, due, job, pic, bounds>>
        PROVE  IInv'
    <3> USE <2>2 DEF Kept
    <3>1. TypeOK'
      <4>1. req[p] \in Request /\ Kept(p) \in Submitted \union {Key}
        BY DEF TypeOK, Request, Submitted
      <4>2. [req[p] EXCEPT !.pc = "enqueue", !.new = Kept(p)] \in Request
        BY <4>1 DEF Request
      <4>3. req' \in [Proc -> Request]
        BY <4>2, Zenon DEF TypeOK
      <4>4. cover' \in [Media -> Submitted \union {Key, NoRow}] /\ wanted' \in [Media -> Submitted]
            /\ mixed' \subseteq Media
        BY <4>1, SMTT(30) DEF TypeOK, Request, Submitted, Known
      <4> QED BY <4>3, <4>4 DEF TypeOK, QueueTypeOK
    <3>2. JobShape' BY DEF TypeOK, QueueTypeOK, Stage, Request, Submitted, Job, JobShape,
        FreeSlot, Held
    <3>3. Known' BY DEF TypeOK, QueueTypeOK, Stage, Request, Submitted, Job, JobShape, Known
    <3>4. Stored' BY DEF TypeOK, QueueTypeOK, Stage, Request, Submitted, Job, JobShape, Known,
        Stored, HasCopy, CoverHasObject
    <3>5. Fresh' BY DEF TypeOK, QueueTypeOK, Stage, Request, Submitted, Job, JobShape, Known,
        Fresh
    <3>6. Left' BY DEF TypeOK, QueueTypeOK, Stage, Request, Submitted, Job, JobShape, Known,
        Left
    <3>7. DeletedLeavesNothing' BY DEF TypeOK, QueueTypeOK, Stage, Request, Submitted, Job,
        JobShape, Known, Left, DeletedLeavesNothing
    <3> QED BY <3>1, <3>2, <3>3, <3>4, <3>5, <3>6, <3>7 DEF IInv
  <2>3. ASSUME At(p, "write"), cover[req[p].media] # NoRow,
               cover' = [cover EXCEPT ![req[p].media] = Kept(p)],
               wanted' = IF req[p].new = Signed /\ Kept(p) = Key THEN wanted
                         ELSE [wanted EXCEPT ![req[p].media] = req[p].new],
               mixed' = IF Mirroring(req[p].media) \/ Editing(req[p].media, p)
                        THEN mixed \union {req[p].media} ELSE mixed,
               req' = [req EXCEPT ![p].pc = "enqueue", ![p].new = Kept(p)],
               UNCHANGED <<shown, late, unnamed>>,
               UNCHANGED <<queueVars, made, content, due, job, pic, bounds>>
        PROVE  IInv'
    <3> USE <2>3 DEF Kept, Mirroring, Editing
    <3>1. TypeOK'
      <4>1. req[p] \in Request /\ Kept(p) \in Submitted \union {Key}
        BY DEF TypeOK, Request, Submitted
      <4>2. [req[p] EXCEPT !.pc = "enqueue", !.new = Kept(p)] \in Request
        BY <4>1 DEF Request
      <4>3. req' \in [Proc -> Request]
        BY <4>2, Zenon DEF TypeOK
      <4>4. cover' \in [Media -> Submitted \union {Key, NoRow}] /\ wanted' \in [Media -> Submitted]
            /\ mixed' \subseteq Media
        BY <4>1, SMTT(30) DEF TypeOK, Request, Submitted, Known
      <4> QED BY <4>3, <4>4 DEF TypeOK, QueueTypeOK
    <3>2. JobShape' BY DEF TypeOK, QueueTypeOK, Stage, Request, Submitted, Job, JobShape,
        FreeSlot, Held
    <3>3. Known' BY DEF TypeOK, QueueTypeOK, Stage, Request, Submitted, Job, JobShape, Known
    <3>4. Stored' BY DEF TypeOK, QueueTypeOK, Stage, Request, Submitted, Job, JobShape, Known,
        Stored, HasCopy, CoverHasObject
    <3>5. Fresh' BY DEF TypeOK, QueueTypeOK, Stage, Request, Submitted, Job, JobShape, Known,
        Fresh
    <3>6. Left' BY DEF TypeOK, QueueTypeOK, Stage, Request, Submitted, Job, JobShape, Known,
        Left
    <3>7. DeletedLeavesNothing' BY DEF TypeOK, QueueTypeOK, Stage, Request, Submitted, Job,
        JobShape, Known, Left, DeletedLeavesNothing
    <3> QED BY <3>1, <3>2, <3>3, <3>4, <3>5, <3>6, <3>7 DEF IInv
  <2> QED BY <1>3, <2>1, <2>2, <2>3 DEF Write
<1>4. ASSUME NEW p \in Proc, Enqueue(p) PROVE IInv'
  <2>1. ASSUME At(p, "enqueue"), UNCHANGED <<queueVars, job>>, Done(p),
               UNCHANGED <<mediaVars, due, pic, history, bounds>>
        PROVE  IInv'
    <3> USE <2>1 DEF Done, Idle
    <3>1. TypeOK' BY DEF TypeOK, QueueTypeOK, Stage, Request, Submitted, Job, JobShape, Known
    <3>2. JobShape' BY DEF TypeOK, QueueTypeOK, Stage, Request, Submitted, Job, JobShape,
        FreeSlot, Held
    <3>3. Known' BY DEF TypeOK, QueueTypeOK, Stage, Request, Submitted, Job, JobShape, Known
    <3>4. Stored' BY DEF TypeOK, QueueTypeOK, Stage, Request, Submitted, Job, JobShape, Known,
        Stored, HasCopy, CoverHasObject
    <3>5. Fresh' BY DEF TypeOK, QueueTypeOK, Stage, Request, Submitted, Job, JobShape, Known,
        Fresh
    <3>6. Left' BY DEF TypeOK, QueueTypeOK, Stage, Request, Submitted, Job, JobShape, Known,
        Left
    <3>7. DeletedLeavesNothing' BY DEF TypeOK, QueueTypeOK, Stage, Request, Submitted, Job,
        JobShape, Known, Left, DeletedLeavesNothing
    <3> QED BY <3>1, <3>2, <3>3, <3>4, <3>5, <3>6, <3>7 DEF IInv
  <2>2. ASSUME At(p, "enqueue"), ~(req[p].new \in {NoCover, Key}), NEW m \in Msg, FreeSlot(m), Push(m),
               job' = [job EXCEPT ![m] = [media |-> req[p].media, url |-> req[p].new]], Done(p),
               UNCHANGED <<mediaVars, due, pic, history, bounds>>
        PROVE  IInv'
    <3> USE <2>2 DEF Push, Done, Idle
    <3>1. TypeOK' BY DEF TypeOK, QueueTypeOK, Stage, Request, Submitted, Job, JobShape, Known
    <3>2. JobShape'
      <4>1. \A n \in Msg : FreeSlot(n)' <=> FreeSlot(n) /\ n # m
        BY DEF FreeSlot, Held
      <4>2. \A n \in Msg : job'[n] = NoJob <=> job[n] = NoJob /\ n # m
        <5>1. req[p].media \in Media /\ req[p].new \in Url \union {Signed}
          BY DEF TypeOK, Request, Known, Submitted
        <5>2. [media |-> req[p].media, url |-> req[p].new] # NoJob
          BY <5>1
        <5> QED BY <5>2 DEF TypeOK
      <4> QED BY <4>1, <4>2 DEF JobShape, TypeOK, QueueTypeOK, Stage
    <3>3. Known' BY DEF TypeOK, QueueTypeOK, Stage, Request, Submitted, Job, JobShape, Known
    <3>4. Stored' BY DEF TypeOK, QueueTypeOK, Stage, Request, Submitted, Job, JobShape, Known,
        Stored, HasCopy, CoverHasObject
    <3>5. Fresh' BY DEF TypeOK, QueueTypeOK, Stage, Request, Submitted, Job, JobShape, Known,
        Fresh
    <3>6. Left' BY DEF TypeOK, QueueTypeOK, Stage, Request, Submitted, Job, JobShape, Known,
        Left
    <3>7. DeletedLeavesNothing' BY DEF TypeOK, QueueTypeOK, Stage, Request, Submitted, Job,
        JobShape, Known, Left, DeletedLeavesNothing
    <3> QED BY <3>1, <3>2, <3>3, <3>4, <3>5, <3>6, <3>7 DEF IInv
  <2> QED BY <1>4, <2>1, <2>2 DEF Enqueue
<1>5. ASSUME NEW p \in Proc, BeginDelete(p) PROVE IInv'
  <2> USE <1>5 DEF BeginDelete, Admit
  <2>1. TypeOK' BY DEF TypeOK, QueueTypeOK, Stage, Request, Submitted, Job, JobShape, Known
  <2>2. JobShape' BY DEF TypeOK, QueueTypeOK, Stage, Request, Submitted, Job, JobShape,
      FreeSlot, Held
  <2>3. Known' BY DEF TypeOK, QueueTypeOK, Stage, Request, Submitted, Job, JobShape, Known
  <2>4. Stored' BY DEF TypeOK, QueueTypeOK, Stage, Request, Submitted, Job, JobShape, Known,
      Stored, HasCopy, CoverHasObject
  <2>5. Fresh' BY DEF TypeOK, QueueTypeOK, Stage, Request, Submitted, Job, JobShape, Known,
      Fresh
  <2>6. Left' BY DEF TypeOK, QueueTypeOK, Stage, Request, Submitted, Job, JobShape, Known, Left
  <2>7. DeletedLeavesNothing' BY DEF TypeOK, QueueTypeOK, Stage, Request, Submitted, Job,
      JobShape, Known, Left, DeletedLeavesNothing
  <2> QED BY <2>1, <2>2, <2>3, <2>4, <2>5, <2>6, <2>7 DEF IInv
<1>6. ASSUME NEW p \in Proc, DeleteRow(p) PROVE IInv'
  <2>1. ASSUME At(p, "delete"), cover' = [cover EXCEPT ![req[p].media] = NoRow], late' = (IF Mirroring(req[p].media) \/ Editing(req[p].media, p)
                        THEN late \union {req[p].media} ELSE late),
               unnamed' = (IF req[p].cur # Key THEN unnamed \union {req[p].media} ELSE unnamed),
               UNCHANGED <<queueVars, made, content, due, job, pic, wanted, shown, mixed, bounds>>,
               req[p].cur = Key, Goto(p, "clean")
        PROVE  IInv'
    <3> USE <2>1 DEF Goto, Mirroring, Editing
    <3>1. TypeOK' BY DEF TypeOK, QueueTypeOK, Stage, Request, Submitted, Job, JobShape, Known
    <3>2. JobShape' BY DEF TypeOK, QueueTypeOK, Stage, Request, Submitted, Job, JobShape,
        FreeSlot, Held
    <3>3. Known' BY DEF TypeOK, QueueTypeOK, Stage, Request, Submitted, Job, JobShape, Known
    <3>4. Stored' BY DEF TypeOK, QueueTypeOK, Stage, Request, Submitted, Job, JobShape, Known,
        Stored, HasCopy, CoverHasObject
    <3>5. Fresh' BY DEF TypeOK, QueueTypeOK, Stage, Request, Submitted, Job, JobShape, Known,
        Fresh
    <3>6. Left' BY DEF TypeOK, QueueTypeOK, Stage, Request, Submitted, Job, JobShape, Known,
        Left
    <3>7. DeletedLeavesNothing' BY DEF TypeOK, QueueTypeOK, Stage, Request, Submitted, Job,
        JobShape, Known, Left, DeletedLeavesNothing
    <3> QED BY <3>1, <3>2, <3>3, <3>4, <3>5, <3>6, <3>7 DEF IInv
  <2>2. ASSUME At(p, "delete"), cover' = [cover EXCEPT ![req[p].media] = NoRow], late' = (IF Mirroring(req[p].media) \/ Editing(req[p].media, p)
                        THEN late \union {req[p].media} ELSE late),
               unnamed' = (IF req[p].cur # Key THEN unnamed \union {req[p].media} ELSE unnamed),
               UNCHANGED <<queueVars, made, content, due, job, pic, wanted, shown, mixed, bounds>>,
               req[p].cur # Key, Done(p)
        PROVE  IInv'
    <3> USE <2>2 DEF Done, Idle, Mirroring, Editing
    <3>1. TypeOK' BY DEF TypeOK, QueueTypeOK, Stage, Request, Submitted, Job, JobShape, Known
    <3>2. JobShape' BY DEF TypeOK, QueueTypeOK, Stage, Request, Submitted, Job, JobShape,
        FreeSlot, Held
    <3>3. Known' BY DEF TypeOK, QueueTypeOK, Stage, Request, Submitted, Job, JobShape, Known
    <3>4. Stored' BY DEF TypeOK, QueueTypeOK, Stage, Request, Submitted, Job, JobShape, Known,
        Stored, HasCopy, CoverHasObject
    <3>5. Fresh' BY DEF TypeOK, QueueTypeOK, Stage, Request, Submitted, Job, JobShape, Known,
        Fresh
    <3>6. Left' BY DEF TypeOK, QueueTypeOK, Stage, Request, Submitted, Job, JobShape, Known,
        Left
    <3>7. DeletedLeavesNothing' BY DEF TypeOK, QueueTypeOK, Stage, Request, Submitted, Job,
        JobShape, Known, Left, DeletedLeavesNothing
    <3> QED BY <3>1, <3>2, <3>3, <3>4, <3>5, <3>6, <3>7 DEF IInv
  <2> QED BY <1>6, <2>1, <2>2 DEF DeleteRow
<1>7. ASSUME NEW p \in Proc, EnqueueCleanup(p) PROVE IInv'
  <2> USE <1>7 DEF EnqueueCleanup, Done, Idle
  <2>1. TypeOK' BY DEF TypeOK, QueueTypeOK, Stage, Request, Submitted, Job, JobShape, Known
  <2>2. JobShape' BY DEF TypeOK, QueueTypeOK, Stage, Request, Submitted, Job, JobShape,
      FreeSlot, Held
  <2>3. Known' BY DEF TypeOK, QueueTypeOK, Stage, Request, Submitted, Job, JobShape, Known
  <2>4. Stored' BY DEF TypeOK, QueueTypeOK, Stage, Request, Submitted, Job, JobShape, Known,
      Stored, HasCopy, CoverHasObject
  <2>5. Fresh' BY DEF TypeOK, QueueTypeOK, Stage, Request, Submitted, Job, JobShape, Known,
      Fresh
  <2>6. Left' BY DEF TypeOK, QueueTypeOK, Stage, Request, Submitted, Job, JobShape, Known, Left
  <2>7. DeletedLeavesNothing' BY DEF TypeOK, QueueTypeOK, Stage, Request, Submitted, Job,
      JobShape, Known, Left, DeletedLeavesNothing
  <2> QED BY <2>1, <2>2, <2>3, <2>4, <2>5, <2>6, <2>7 DEF IInv
<1>8. ASSUME NEW p \in Proc, Fail(p) PROVE IInv'
  <2> USE <1>8 DEF Fail, Done, Idle, Fault
  <2>1. TypeOK' BY DEF TypeOK, QueueTypeOK, Stage, Request, Submitted, Job, JobShape, Known
  <2>2. JobShape' BY DEF TypeOK, QueueTypeOK, Stage, Request, Submitted, Job, JobShape,
      FreeSlot, Held
  <2>3. Known' BY DEF TypeOK, QueueTypeOK, Stage, Request, Submitted, Job, JobShape, Known
  <2>4. Stored' BY DEF TypeOK, QueueTypeOK, Stage, Request, Submitted, Job, JobShape, Known,
      Stored, HasCopy, CoverHasObject
  <2>5. Fresh' BY DEF TypeOK, QueueTypeOK, Stage, Request, Submitted, Job, JobShape, Known,
      Fresh
  <2>6. Left' BY DEF TypeOK, QueueTypeOK, Stage, Request, Submitted, Job, JobShape, Known, Left
  <2>7. DeletedLeavesNothing' BY DEF TypeOK, QueueTypeOK, Stage, Request, Submitted, Job,
      JobShape, Known, Left, DeletedLeavesNothing
  <2> QED BY <2>1, <2>2, <2>3, <2>4, <2>5, <2>6, <2>7 DEF IInv
<1>9. ASSUME NEW e \in Media, Sweep(e) PROVE IInv'
  <2> USE <1>9 DEF Sweep
  <2>1. TypeOK' BY DEF TypeOK, QueueTypeOK, Stage, Request, Submitted, Job, JobShape, Known
  <2>2. JobShape' BY DEF TypeOK, QueueTypeOK, Stage, Request, Submitted, Job, JobShape,
      FreeSlot, Held
  <2>3. Known' BY DEF TypeOK, QueueTypeOK, Stage, Request, Submitted, Job, JobShape, Known
  <2>4. Stored' BY DEF TypeOK, QueueTypeOK, Stage, Request, Submitted, Job, JobShape, Known,
      Stored, HasCopy, CoverHasObject
  <2>5. Fresh' BY DEF TypeOK, QueueTypeOK, Stage, Request, Submitted, Job, JobShape, Known,
      Fresh
  <2>6. Left' BY DEF TypeOK, QueueTypeOK, Stage, Request, Submitted, Job, JobShape, Known, Left
  <2>7. DeletedLeavesNothing' BY DEF TypeOK, QueueTypeOK, Stage, Request, Submitted, Job,
      JobShape, Known, Left, DeletedLeavesNothing
  <2> QED BY <2>1, <2>2, <2>3, <2>4, <2>5, <2>6, <2>7 DEF IInv
<1>10. ASSUME NEW w \in Worker, Begin(w) PROVE IInv'
  <2> USE <1>10 DEF Begin, Take
  <2>1. TypeOK' BY DEF TypeOK, QueueTypeOK, Stage, Request, Submitted, Job, JobShape, Known
  <2>2. JobShape' BY DEF TypeOK, QueueTypeOK, Stage, Request, Submitted, Job, JobShape,
      FreeSlot, Held
  <2>3. Known' BY DEF TypeOK, QueueTypeOK, Stage, Request, Submitted, Job, JobShape, Known
  <2>4. Stored' BY DEF TypeOK, QueueTypeOK, Stage, Request, Submitted, Job, JobShape, Known,
      Stored, HasCopy, CoverHasObject
  <2>5. Fresh' BY DEF TypeOK, QueueTypeOK, Stage, Request, Submitted, Job, JobShape, Known,
      Fresh
  <2>6. Left' BY DEF TypeOK, QueueTypeOK, Stage, Request, Submitted, Job, JobShape, Known, Left
  <2>7. DeletedLeavesNothing' BY DEF TypeOK, QueueTypeOK, Stage, Request, Submitted, Job,
      JobShape, Known, Left, DeletedLeavesNothing
  <2> QED BY <2>1, <2>2, <2>3, <2>4, <2>5, <2>6, <2>7 DEF IInv
<1>11. ASSUME NEW w \in Worker, Fetch(w) PROVE IInv'
  <2>1. ASSUME NEW u \in Image, stage[w] = "fetch", Fetched(w, u), UNCHANGED <<mediaVars, due, job, req, history, bounds>>,
               job[cur[w]].url \in {Signed, u}
        PROVE  IInv'
    <3> USE <2>1 DEF Fetched
    <3>1. TypeOK' BY DEF TypeOK, QueueTypeOK, Stage, Request, Submitted, Job, JobShape, Known
    <3>2. JobShape' BY DEF TypeOK, QueueTypeOK, Stage, Request, Submitted, Job, JobShape,
        FreeSlot, Held
    <3>3. Known' BY DEF TypeOK, QueueTypeOK, Stage, Request, Submitted, Job, JobShape, Known
    <3>4. Stored' BY DEF TypeOK, QueueTypeOK, Stage, Request, Submitted, Job, JobShape, Known,
        Stored, HasCopy, CoverHasObject
    <3>5. Fresh' BY DEF TypeOK, QueueTypeOK, Stage, Request, Submitted, Job, JobShape, Known,
        Fresh
    <3>6. Left' BY DEF TypeOK, QueueTypeOK, Stage, Request, Submitted, Job, JobShape, Known,
        Left
    <3>7. DeletedLeavesNothing' BY DEF TypeOK, QueueTypeOK, Stage, Request, Submitted, Job,
        JobShape, Known, Left, DeletedLeavesNothing
    <3> QED BY <3>1, <3>2, <3>3, <3>4, <3>5, <3>6, <3>7 DEF IInv
  <2>2. ASSUME stage[w] = "fetch", Ack(w), UNCHANGED pic, UNCHANGED <<mediaVars, due, job, req, history, bounds>>
        PROVE  IInv'
    <3> USE <2>2 DEF Ack
    <3>1. TypeOK' BY DEF TypeOK, QueueTypeOK, Stage, Request, Submitted, Job, JobShape, Known
    <3>2. JobShape' BY DEF TypeOK, QueueTypeOK, Stage, Request, Submitted, Job, JobShape,
        FreeSlot, Held
    <3>3. Known' BY DEF TypeOK, QueueTypeOK, Stage, Request, Submitted, Job, JobShape, Known
    <3>4. Stored' BY DEF TypeOK, QueueTypeOK, Stage, Request, Submitted, Job, JobShape, Known,
        Stored, HasCopy, CoverHasObject
    <3>5. Fresh' BY DEF TypeOK, QueueTypeOK, Stage, Request, Submitted, Job, JobShape, Known,
        Fresh
    <3>6. Left' BY DEF TypeOK, QueueTypeOK, Stage, Request, Submitted, Job, JobShape, Known,
        Left
    <3>7. DeletedLeavesNothing' BY DEF TypeOK, QueueTypeOK, Stage, Request, Submitted, Job,
        JobShape, Known, Left, DeletedLeavesNothing
    <3> QED BY <3>1, <3>2, <3>3, <3>4, <3>5, <3>6, <3>7 DEF IInv
  <2>3. ASSUME stage[w] = "fetch", Retry(w), UNCHANGED pic, UNCHANGED <<mediaVars, due, job, req, history, bounds>>
        PROVE  IInv'
    <3> USE <2>3 DEF Retry
    <3>1. TypeOK' BY DEF TypeOK, QueueTypeOK, Stage, Request, Submitted, Job, JobShape, Known
    <3>2. JobShape' BY DEF TypeOK, QueueTypeOK, Stage, Request, Submitted, Job, JobShape,
        FreeSlot, Held
    <3>3. Known' BY DEF TypeOK, QueueTypeOK, Stage, Request, Submitted, Job, JobShape, Known
    <3>4. Stored' BY DEF TypeOK, QueueTypeOK, Stage, Request, Submitted, Job, JobShape, Known,
        Stored, HasCopy, CoverHasObject
    <3>5. Fresh' BY DEF TypeOK, QueueTypeOK, Stage, Request, Submitted, Job, JobShape, Known,
        Fresh
    <3>6. Left' BY DEF TypeOK, QueueTypeOK, Stage, Request, Submitted, Job, JobShape, Known,
        Left
    <3>7. DeletedLeavesNothing' BY DEF TypeOK, QueueTypeOK, Stage, Request, Submitted, Job,
        JobShape, Known, Left, DeletedLeavesNothing
    <3> QED BY <3>1, <3>2, <3>3, <3>4, <3>5, <3>6, <3>7 DEF IInv
  <2>4. CASE job[cur[w]].url \in Image /\ Fetched(w, job[cur[w]].url)
    BY <1>11, <2>1, <2>4 DEF Fetch
  <2>5. CASE job[cur[w]].url = Signed /\ content[job[cur[w]].media] # NoCover
             /\ Fetched(w, content[job[cur[w]].media])
    <3>1. content[job[cur[w]].media] \in Image
      BY <1>11, <2>5 DEF Fetch, TypeOK, JobShape, Job, Stage
    <3> QED BY <1>11, <2>1, <2>5, <3>1 DEF Fetch
  <2> QED BY <1>11, <2>2, <2>3, <2>4, <2>5 DEF Fetch
<1>12. ASSUME NEW w \in Worker, Put(w) PROVE IInv'
  <2> USE <1>12 DEF Put
  <2>1. TypeOK' BY DEF TypeOK, QueueTypeOK, Stage, Request, Submitted, Job, JobShape, Known
  <2>2. JobShape' BY DEF TypeOK, QueueTypeOK, Stage, Request, Submitted, Job, JobShape,
      FreeSlot, Held
  <2>3. Known' BY DEF TypeOK, QueueTypeOK, Stage, Request, Submitted, Job, JobShape, Known
  <2>4. Stored' BY DEF TypeOK, QueueTypeOK, Stage, Request, Submitted, Job, JobShape, Known,
      Stored, HasCopy, CoverHasObject
  <2>5. Fresh' BY DEF TypeOK, QueueTypeOK, Stage, Request, Submitted, Job, JobShape, Known,
      Fresh
  <2>6. Left' BY DEF TypeOK, QueueTypeOK, Stage, Request, Submitted, Job, JobShape, Known, Left
  <2>7. DeletedLeavesNothing' BY DEF TypeOK, QueueTypeOK, Stage, Request, Submitted, Job,
      JobShape, Known, Left, DeletedLeavesNothing
  <2> QED BY <2>1, <2>2, <2>3, <2>4, <2>5, <2>6, <2>7 DEF IInv
<1>13. ASSUME NEW w \in Worker, SetMediaCover(w) PROVE IInv'
  <2> USE <1>13 DEF SetMediaCover, Ack
  <2>1. TypeOK' BY DEF TypeOK, QueueTypeOK, Stage, Request, Submitted, Job, JobShape, Known
  <2>2. JobShape' BY DEF TypeOK, QueueTypeOK, Stage, Request, Submitted, Job, JobShape,
      FreeSlot, Held
  <2>3. Known' BY DEF TypeOK, QueueTypeOK, Stage, Request, Submitted, Job, JobShape, Known
  <2>4. Stored' BY DEF TypeOK, QueueTypeOK, Stage, Request, Submitted, Job, JobShape, Known,
      Stored, HasCopy, CoverHasObject
  <2>5. Fresh' BY DEF TypeOK, QueueTypeOK, Stage, Request, Submitted, Job, JobShape, Known,
      Fresh
  <2>6. Left' BY DEF TypeOK, QueueTypeOK, Stage, Request, Submitted, Job, JobShape, Known, Left
  <2>7. DeletedLeavesNothing' BY DEF TypeOK, QueueTypeOK, Stage, Request, Submitted, Job,
      JobShape, Known, Left, DeletedLeavesNothing
  <2> QED BY <2>1, <2>2, <2>3, <2>4, <2>5, <2>6, <2>7 DEF IInv
<1>14. ASSUME NEW w \in Worker, ProcessFails(w) PROVE IInv'
  <2> USE <1>14 DEF ProcessFails, Fault, Retry
  <2>1. TypeOK' BY DEF TypeOK, QueueTypeOK, Stage, Request, Submitted, Job, JobShape, Known
  <2>2. JobShape' BY DEF TypeOK, QueueTypeOK, Stage, Request, Submitted, Job, JobShape,
      FreeSlot, Held
  <2>3. Known' BY DEF TypeOK, QueueTypeOK, Stage, Request, Submitted, Job, JobShape, Known
  <2>4. Stored' BY DEF TypeOK, QueueTypeOK, Stage, Request, Submitted, Job, JobShape, Known,
      Stored, HasCopy, CoverHasObject
  <2>5. Fresh' BY DEF TypeOK, QueueTypeOK, Stage, Request, Submitted, Job, JobShape, Known,
      Fresh
  <2>6. Left' BY DEF TypeOK, QueueTypeOK, Stage, Request, Submitted, Job, JobShape, Known, Left
  <2>7. DeletedLeavesNothing' BY DEF TypeOK, QueueTypeOK, Stage, Request, Submitted, Job,
      JobShape, Known, Left, DeletedLeavesNothing
  <2> QED BY <2>1, <2>2, <2>3, <2>4, <2>5, <2>6, <2>7 DEF IInv
<1>15. ASSUME NEW w \in Worker, Crash(w) PROVE IInv'
  <2> USE <1>15 DEF Crash, Fault, Abandon, Forget, BlankFree
  <2>1. TypeOK' BY DEF TypeOK, QueueTypeOK, Stage, Request, Submitted, Job, JobShape, Known
  <2>2. JobShape' BY DEF TypeOK, QueueTypeOK, Stage, Request, Submitted, Job, JobShape,
      FreeSlot, Held
  <2>3. Known' BY DEF TypeOK, QueueTypeOK, Stage, Request, Submitted, Job, JobShape, Known
  <2>4. Stored'
    <3>1. \A m \in Msg : job'[m] # NoJob => job'[m] = job[m]
      OBVIOUS
    <3>2. \A v \in Worker : stage'[v] \in Stage =>
            /\ stage'[v] = stage[v] /\ cur'[v] = cur[v] /\ job'[cur[v]] = job[cur[v]] /\ pic'[v] = pic[v]
            /\ job'[cur[v]] # NoJob
      BY SMTT(30) DEF TypeOK, QueueTypeOK, Stage, JobShape, FreeSlot, Held
    <3>3. UNCHANGED <<mediaVars, req, wanted, mixed>>
      OBVIOUS
    <3> HIDE <1>15 DEF Crash, Fault, Abandon, Forget, BlankFree
    <3> QED BY SMTT(30), <3>1, <3>2, <3>3 DEF TypeOK, QueueTypeOK, Stage, Request, Submitted, Job, Stored, HasCopy, CoverHasObject
  <2>5. Fresh'
    <3>1. \A m \in Msg : job'[m] # NoJob => job'[m] = job[m]
      OBVIOUS
    <3>2. \A v \in Worker : stage'[v] \in Stage =>
            /\ stage'[v] = stage[v] /\ cur'[v] = cur[v] /\ job'[cur[v]] = job[cur[v]] /\ pic'[v] = pic[v]
            /\ job'[cur[v]] # NoJob
      BY SMTT(30) DEF TypeOK, QueueTypeOK, Stage, JobShape, FreeSlot, Held
    <3>3. UNCHANGED <<mediaVars, req, wanted, mixed>>
      OBVIOUS
    <3> HIDE <1>15 DEF Crash, Fault, Abandon, Forget, BlankFree
    <3> QED BY SMTT(30), <3>1, <3>2, <3>3 DEF TypeOK, QueueTypeOK, Stage, Request, Submitted, Job, Fresh
  <2>6. Left' BY DEF TypeOK, QueueTypeOK, Stage, Request, Submitted, Job, JobShape, Known, Left
  <2>7. DeletedLeavesNothing' BY DEF TypeOK, QueueTypeOK, Stage, Request, Submitted, Job,
      JobShape, Known, Left, DeletedLeavesNothing
  <2> QED BY <2>1, <2>2, <2>3, <2>4, <2>5, <2>6, <2>7 DEF IInv
<1>16. ASSUME NEW w \in Worker, PullBatch(w) PROVE IInv'
  <2> USE <1>16 DEF PullBatch, Pull, PollEmpty, Available
  <2>1. TypeOK' BY DEF TypeOK, QueueTypeOK, Stage, Request, Submitted, Job, JobShape, Known
  <2>2. JobShape'
    <3>1. CASE Pull(w)
      BY SMTT(30), <3>1 DEF TypeOK, QueueTypeOK, Stage, JobShape, FreeSlot, Held
    <3>2. CASE PollEmpty(w)
      BY SMTT(30), <3>2 DEF TypeOK, QueueTypeOK, Stage, JobShape, FreeSlot, Held
    <3> QED BY <3>1, <3>2
  <2>3. Known' BY DEF TypeOK, QueueTypeOK, Stage, Request, Submitted, Job, JobShape, Known
  <2>4. Stored' BY DEF TypeOK, QueueTypeOK, Stage, Request, Submitted, Job, JobShape, Known,
      Stored, HasCopy, CoverHasObject
  <2>5. Fresh' BY DEF TypeOK, QueueTypeOK, Stage, Request, Submitted, Job, JobShape, Known,
      Fresh
  <2>6. Left' BY DEF TypeOK, QueueTypeOK, Stage, Request, Submitted, Job, JobShape, Known, Left
  <2>7. DeletedLeavesNothing' BY DEF TypeOK, QueueTypeOK, Stage, Request, Submitted, Job,
      JobShape, Known, Left, DeletedLeavesNothing
  <2> QED BY <2>1, <2>2, <2>3, <2>4, <2>5, <2>6, <2>7 DEF IInv
<1>17. ASSUME NEW w \in Worker, SettleBatch(w) PROVE IInv'
  <2> USE <1>17 DEF SettleBatch, Settle, Forget, BlankFree
  <2>1. TypeOK' BY DEF TypeOK, QueueTypeOK, Stage, Request, Submitted, Job, JobShape, Known
  <2>2. JobShape' BY DEF TypeOK, QueueTypeOK, Stage, Request, Submitted, Job, JobShape,
      FreeSlot, Held
  <2>3. Known' BY DEF TypeOK, QueueTypeOK, Stage, Request, Submitted, Job, JobShape, Known
  <2>4. Stored'
    <3>1. \A m \in Msg : job'[m] # NoJob => job'[m] = job[m]
      OBVIOUS
    <3>2. \A v \in Worker : stage'[v] \in Stage =>
            /\ stage'[v] = stage[v] /\ cur'[v] = cur[v] /\ job'[cur[v]] = job[cur[v]] /\ pic'[v] = pic[v]
            /\ job'[cur[v]] # NoJob
      BY SMTT(30) DEF TypeOK, QueueTypeOK, Stage, JobShape, FreeSlot, Held
    <3>3. UNCHANGED <<mediaVars, req, wanted, mixed>>
      OBVIOUS
    <3> HIDE <1>17 DEF SettleBatch, Settle, Forget, BlankFree
    <3> QED BY SMTT(30), <3>1, <3>2, <3>3 DEF TypeOK, QueueTypeOK, Stage, Request, Submitted, Job, Stored, HasCopy, CoverHasObject
  <2>5. Fresh'
    <3>1. \A m \in Msg : job'[m] # NoJob => job'[m] = job[m]
      OBVIOUS
    <3>2. \A v \in Worker : stage'[v] \in Stage =>
            /\ stage'[v] = stage[v] /\ cur'[v] = cur[v] /\ job'[cur[v]] = job[cur[v]] /\ pic'[v] = pic[v]
            /\ job'[cur[v]] # NoJob
      BY SMTT(30) DEF TypeOK, QueueTypeOK, Stage, JobShape, FreeSlot, Held
    <3>3. UNCHANGED <<mediaVars, req, wanted, mixed>>
      OBVIOUS
    <3> HIDE <1>17 DEF SettleBatch, Settle, Forget, BlankFree
    <3> QED BY SMTT(30), <3>1, <3>2, <3>3 DEF TypeOK, QueueTypeOK, Stage, Request, Submitted, Job, Fresh
  <2>6. Left' BY DEF TypeOK, QueueTypeOK, Stage, Request, Submitted, Job, JobShape, Known, Left
  <2>7. DeletedLeavesNothing' BY DEF TypeOK, QueueTypeOK, Stage, Request, Submitted, Job,
      JobShape, Known, Left, DeletedLeavesNothing
  <2> QED BY <2>1, <2>2, <2>3, <2>4, <2>5, <2>6, <2>7 DEF IInv
<1>18. ASSUME NEW m \in Msg, Expire(m) PROVE IInv'
  <2> USE <1>18 DEF Expire, LeaseExpires
  <2>1. TypeOK' BY DEF TypeOK, QueueTypeOK, Stage, Request, Submitted, Job, JobShape, Known
  <2>2. JobShape' BY DEF TypeOK, QueueTypeOK, Stage, Request, Submitted, Job, JobShape,
      FreeSlot, Held
  <2>3. Known' BY DEF TypeOK, QueueTypeOK, Stage, Request, Submitted, Job, JobShape, Known
  <2>4. Stored' BY DEF TypeOK, QueueTypeOK, Stage, Request, Submitted, Job, JobShape, Known,
      Stored, HasCopy, CoverHasObject
  <2>5. Fresh' BY DEF TypeOK, QueueTypeOK, Stage, Request, Submitted, Job, JobShape, Known,
      Fresh
  <2>6. Left' BY DEF TypeOK, QueueTypeOK, Stage, Request, Submitted, Job, JobShape, Known, Left
  <2>7. DeletedLeavesNothing' BY DEF TypeOK, QueueTypeOK, Stage, Request, Submitted, Job,
      JobShape, Known, Left, DeletedLeavesNothing
  <2> QED BY <2>1, <2>2, <2>3, <2>4, <2>5, <2>6, <2>7 DEF IInv
<1>19. ASSUME UNCHANGED vars PROVE IInv'
  <2> USE <1>19 DEF vars
  <2>1. TypeOK' BY DEF TypeOK, QueueTypeOK, Stage, Request, Submitted, Job, JobShape, Known
  <2>2. JobShape' BY DEF TypeOK, QueueTypeOK, Stage, Request, Submitted, Job, JobShape,
      FreeSlot, Held
  <2>3. Known' BY DEF TypeOK, QueueTypeOK, Stage, Request, Submitted, Job, JobShape, Known
  <2>4. Stored' BY DEF TypeOK, QueueTypeOK, Stage, Request, Submitted, Job, JobShape, Known,
      Stored, HasCopy, CoverHasObject
  <2>5. Fresh' BY DEF TypeOK, QueueTypeOK, Stage, Request, Submitted, Job, JobShape, Known,
      Fresh
  <2>6. Left' BY DEF TypeOK, QueueTypeOK, Stage, Request, Submitted, Job, JobShape, Known, Left
  <2>7. DeletedLeavesNothing' BY DEF TypeOK, QueueTypeOK, Stage, Request, Submitted, Job,
      JobShape, Known, Left, DeletedLeavesNothing
  <2> QED BY <2>1, <2>2, <2>3, <2>4, <2>5, <2>6, <2>7 DEF IInv
<1> QED
  BY <1>1, <1>2, <1>3, <1>4, <1>5, <1>6, <1>7, <1>8, <1>9, <1>10, <1>11, <1>12, <1>13, <1>14,
      <1>15, <1>16, <1>17, <1>18, <1>19 DEF Next, Loop

(* IInv is an invariant of the specification.                              *)
LEMMA Inductive == Spec => []IInv
<1>1. IInv /\ [Next]_vars => IInv'
  BY NextIInv
<1> QED
  BY InitIInv, <1>1, PTL DEF Spec

(* Type correctness; what is stored is a decoded image.                    *)
THEOREM TypeCorrect == Spec => []TypeOK
<1>1. IInv => TypeOK
  BY DEF IInv
<1> QED
  BY Inductive, <1>1, PTL

(* A cover that names the copy finds it, in every order of jobs, edits,    *)
(* deletions and cleanup.                                                  *)
THEOREM NamedCopyExists == Spec => []CoverHasObject
<1>1. IInv => CoverHasObject
  BY DEF IInv, Stored
<1> QED
  BY Inductive, <1>1, PTL

(* Only an edit on top of another edit or its job can let an older picture *)
(* win.                                                                    *)
THEOREM NewestShown == Spec => []ShowsWanted
<1>1. IInv => ShowsWanted
  BY NullAssumption DEF IInv, Fresh, ShowsWanted
<1> QED
  BY Inductive, <1>1, PTL

(* An entry deleted in peace leaves no copy that is not scheduled.         *)
THEOREM PeacefulDeleteIsClean == Spec => []DeletedLeavesNothing
<1>1. IInv => DeletedLeavesNothing
  BY DEF IInv
<1> QED
  BY Inductive, <1>1, PTL
=============================================================================
