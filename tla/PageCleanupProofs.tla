-------------------------- MODULE PageCleanupProofs --------------------------
(***************************************************************************)
(* Proofs about PageCleanup for every set of chapters, keys, requests,     *)
(* messages and loops, every number of faults, and with or without         *)
(* enforced foreign keys.  The inductive invariant IInv follows a key on   *)
(* its way out: read by a deletion that is about to remove its row         *)
(* (ReadIsLeaving, LeavingWasRead), then collected and queued with no row  *)
(* of an existing chapter left (ScheduledLeft), then deleted before its    *)
(* message is settled (LoopShape).  The second half is about time: a       *)
(* scheduled key stays scheduled while its object exists, every loop comes *)
(* to the end of its batch, and so the object goes, unless a fault does.   *)
(***************************************************************************)
EXTENDS PageCleanup, FiniteSetTheorems, TLAPS

(* The empty catalog satisfies the invariant.                              *)
LEMMA InitIInv == Init => IInv
<1> SUFFICES ASSUME Init PROVE IInv
  OBVIOUS
<1> QED
  BY KeysAssumption, QueueAssumption
  DEF Init, InitQueue, IInv, TypeOK, QueueTypeOK, PC, Stage, Deleting, RequestShape, LoopShape,
      Held, OnePlace, ScheduledLeft, Scheduled, InMessage, FreeSlot, KeysOf, ReadIsLeaving,
      LeavingWasRead, NothingLeaks

(* Every statement, queue call and object call preserves it.               *)
LEMMA NextIInv == IInv /\ [Next]_vars => IInv'
<1> SUFFICES ASSUME IInv, [Next]_vars PROVE IInv'
  OBVIOUS
<1> USE QueueAssumption, KeysAssumption, BoundsAssumption
    DEF IInv, queueVars, pageVars, reqVars, history, bounds
<1>1. ASSUME NEW c \in Chapter, CreateChapter(c) PROVE IInv'
  <2> USE <1>1 DEF CreateChapter
  <2>1. TypeOK' BY DEF TypeOK, QueueTypeOK, PC, Stage, Deleting
  <2>2. RequestShape' BY DEF RequestShape, TypeOK, QueueTypeOK, Deleting
  <2>3. LoopShape' BY DEF LoopShape, TypeOK, QueueTypeOK, Stage, Held, FreeSlot
  <2>4. OnePlace' BY DEF OnePlace, TypeOK, QueueTypeOK
  <2>5. ScheduledLeft'
    BY DEF ScheduledLeft, TypeOK, QueueTypeOK, KeysOf, Scheduled, InMessage,
       FreeSlot, Held, RequestShape
  <2>6. ReadIsLeaving' BY DEF ReadIsLeaving, TypeOK, QueueTypeOK, RequestShape
  <2>7. LeavingWasRead'
    BY DEF LeavingWasRead, TypeOK, QueueTypeOK, KeysOf, Deleting, RequestShape
  <2>8. NothingLeaks'
    BY DEF NothingLeaks, TypeOK, QueueTypeOK, KeysOf, Scheduled, InMessage,
       FreeSlot, Held
  <2> QED BY <2>1, <2>2, <2>3, <2>4, <2>5, <2>6, <2>7, <2>8 DEF IInv
<1>2. ASSUME NEW p \in Proc, BeginRegister(p) PROVE IInv'
  <2> USE <1>2 DEF BeginRegister, Admit, Goto
  <2>1. TypeOK' BY DEF TypeOK, QueueTypeOK, PC, Stage, Deleting
  <2>2. RequestShape' BY SMTT(30) DEF RequestShape, TypeOK, QueueTypeOK, Deleting
  <2>3. LoopShape' BY DEF LoopShape, TypeOK, QueueTypeOK, Stage, Held, FreeSlot
  <2>4. OnePlace' BY DEF OnePlace, TypeOK, QueueTypeOK
  <2>5. ScheduledLeft'
    BY DEF ScheduledLeft, TypeOK, QueueTypeOK, KeysOf, Scheduled, InMessage,
       FreeSlot, Held
  <2>6. ReadIsLeaving' BY DEF ReadIsLeaving, TypeOK, QueueTypeOK
  <2>7. LeavingWasRead' BY DEF LeavingWasRead, TypeOK, QueueTypeOK, KeysOf, Deleting
  <2>8. NothingLeaks'
    BY DEF NothingLeaks, TypeOK, QueueTypeOK, KeysOf, Scheduled, InMessage,
       FreeSlot, Held
  <2> QED BY <2>1, <2>2, <2>3, <2>4, <2>5, <2>6, <2>7, <2>8 DEF IInv
<1>3. ASSUME NEW p \in Proc, Clear(p) PROVE IInv'
  <2> USE <1>3 DEF Clear, Goto
  <2>1. TypeOK' BY DEF TypeOK, QueueTypeOK, PC, Stage, Deleting
  <2>2. RequestShape' BY DEF RequestShape, TypeOK, QueueTypeOK, Deleting
  <2>3. LoopShape' BY DEF LoopShape, TypeOK, QueueTypeOK, Stage, Held, FreeSlot
  <2>4. OnePlace' BY DEF OnePlace, TypeOK, QueueTypeOK
  <2>5. ScheduledLeft'
    BY DEF ScheduledLeft, TypeOK, QueueTypeOK, KeysOf, Scheduled, InMessage,
       FreeSlot, Held
  <2>6. ReadIsLeaving' BY DEF ReadIsLeaving, TypeOK, QueueTypeOK
  <2>7. LeavingWasRead' BY DEF LeavingWasRead, TypeOK, QueueTypeOK, KeysOf, Deleting
  <2>8. NothingLeaks'
    BY DEF NothingLeaks, TypeOK, QueueTypeOK, KeysOf, Scheduled, InMessage,
       FreeSlot, Held
  <2> QED BY <2>1, <2>2, <2>3, <2>4, <2>5, <2>6, <2>7, <2>8 DEF IInv
<1>4. ASSUME NEW p \in Proc, Insert(p) PROVE IInv'
  <2> USE <1>4 DEF Insert, Done, Goto
  <2>r. PICK r \in pend[p] :
          \/ Done(p) /\ UNCHANGED <<rows, history>>
          \/ /\ ~Refused(ch[p], r)
             /\ rows' = [rows EXCEPT ![ch[p]] = @ \union {r}]
             /\ doubled' \subseteq Key /\ unseen \subseteq unseen' /\ unseen' \subseteq Key
             /\ (\E q \in Proc : pc[q] \in Deleting) => r[2] \in unseen'
             /\ UNCHANGED dropped
             /\ \/ Done(p)
                \/ pend' = [pend EXCEPT ![p] = @ \ {r}] /\ UNCHANGED <<pc, ch, chs, snap, got>>
    BY DEF TypeOK
  <2>t. r \in Idx \X Key /\ ch[p] \in Chapter
    BY DEF TypeOK, RequestShape
  <2>1. TypeOK'
    <3>1. CASE Done(p) /\ UNCHANGED <<rows, history>>
      BY <3>1 DEF TypeOK, QueueTypeOK, PC
    <3>2. CASE ~Refused(ch[p], r) /\ rows' = [rows EXCEPT ![ch[p]] = @ \union {r}]
      <4>1. rows' \in [Chapter -> SUBSET (Idx \X Key)]
        BY <2>t, <3>2 DEF TypeOK
      <4>2. \A c \in Chapter : \A s, t \in rows'[c] : s[1] = t[1] => s = t
        BY <2>t, <3>2 DEF TypeOK, Refused
      <4>3. pc' \in [Proc -> PC] /\ ch' \in [Proc -> Chapter \union {NoChapter}]
            /\ chs' \in [Proc -> SUBSET Chapter] /\ snap' \in [Proc -> SUBSET Key]
            /\ got' \in [Proc -> SUBSET Key] /\ pend' \in [Proc -> SUBSET (Idx \X Key)]
            /\ doubled' \subseteq Key /\ unseen' \subseteq Key /\ dropped' \subseteq Key
        BY <2>r, <3>2 DEF TypeOK, PC
      <4> QED BY <4>1, <4>2, <4>3 DEF TypeOK, QueueTypeOK
    <3> QED BY <2>r, <3>1, <3>2
  <2>2. RequestShape'
    <3>1. CASE Done(p) /\ UNCHANGED <<rows, history>>
      BY <3>1 DEF RequestShape, TypeOK, Deleting
    <3>2. CASE ~Refused(ch[p], r) /\ rows' = [rows EXCEPT ![ch[p]] = @ \union {r}]
      BY <2>r, <2>t, <3>2 DEF RequestShape, TypeOK, Deleting
    <3> QED BY <2>r, <3>1, <3>2
  <2>3. LoopShape'
    BY DEF LoopShape, TypeOK, QueueTypeOK, Stage, Held, FreeSlot, KeysOf,
       Referenced, Doomed, Scheduled, Refused
  <2>4. OnePlace'
    BY DEF OnePlace, TypeOK, QueueTypeOK, KeysOf, Referenced, Doomed, Scheduled,
       Refused
  <2>5. ScheduledLeft'
    BY SMTT(30) DEF ScheduledLeft, TypeOK, QueueTypeOK, KeysOf, Scheduled, InMessage,
       FreeSlot, Held, Referenced, Doomed, Refused
  <2>6. ReadIsLeaving'
    BY DEF ReadIsLeaving, TypeOK, QueueTypeOK, KeysOf, Referenced, Doomed,
       Scheduled, Refused
  <2>7. LeavingWasRead'
    <3>1. CASE Done(p) /\ UNCHANGED <<rows, history>>
      BY <3>1 DEF LeavingWasRead, TypeOK, KeysOf, RequestShape, Deleting
    <3>2. CASE ~Refused(ch[p], r) /\ rows' = [rows EXCEPT ![ch[p]] = @ \union {r}]
      BY <2>r, <2>t, <3>2 DEF LeavingWasRead, TypeOK, KeysOf, RequestShape, Deleting
    <3> QED BY <2>r, <3>1, <3>2
  <2>8. NothingLeaks'
    <3>1. snap[p] = {} /\ got[p] = {}
      BY DEF RequestShape, Deleting
    <3>2. \A q \in Proc : snap'[q] = snap[q] /\ got'[q] = got[q]
      BY <2>r, <3>1, ZenonT(30) DEF TypeOK
    <3>3. unseen \subseteq unseen' /\ dropped' = dropped
      BY <2>r
    <3> QED BY <3>2, <3>3 DEF NothingLeaks, TypeOK, Scheduled, InMessage, FreeSlot, Held
  <2> QED BY <2>1, <2>2, <2>3, <2>4, <2>5, <2>6, <2>7, <2>8 DEF IInv
<1>5. ASSUME NEW p \in Proc, BeginDeleteChapters(p) PROVE IInv'
  <2> USE <1>5 DEF BeginDeleteChapters, Admit, Goto
  <2>1. TypeOK' BY DEF TypeOK, QueueTypeOK, PC, Stage, Deleting
  <2>2. RequestShape' BY DEF RequestShape, TypeOK, QueueTypeOK, Deleting
  <2>3. LoopShape' BY DEF LoopShape, TypeOK, QueueTypeOK, Stage, Held, FreeSlot
  <2>4. OnePlace' BY DEF OnePlace, TypeOK, QueueTypeOK
  <2>5. ScheduledLeft'
    BY DEF ScheduledLeft, TypeOK, QueueTypeOK, KeysOf, Scheduled, InMessage,
       FreeSlot, Held
  <2>6. ReadIsLeaving' BY DEF ReadIsLeaving, TypeOK, QueueTypeOK
  <2>7. LeavingWasRead' BY DEF LeavingWasRead, TypeOK, QueueTypeOK, KeysOf, Deleting
  <2>8. NothingLeaks'
    BY DEF NothingLeaks, TypeOK, QueueTypeOK, KeysOf, Scheduled, InMessage,
       FreeSlot, Held
  <2> QED BY <2>1, <2>2, <2>3, <2>4, <2>5, <2>6, <2>7, <2>8 DEF IInv
<1>6. ASSUME NEW p \in Proc, ReadPages(p) PROVE IInv'
  <2> USE <1>6 DEF ReadPages, Goto
  <2>1. TypeOK' BY DEF TypeOK, QueueTypeOK, PC, Stage, Deleting, RequestShape, KeysOf
  <2>2. RequestShape' BY DEF RequestShape, TypeOK, QueueTypeOK, Deleting
  <2>3. LoopShape' BY DEF LoopShape, TypeOK, QueueTypeOK, Stage, Held, FreeSlot
  <2>4. OnePlace' BY DEF OnePlace, TypeOK, QueueTypeOK
  <2>5. ScheduledLeft'
    BY DEF ScheduledLeft, TypeOK, QueueTypeOK, KeysOf, Scheduled, InMessage,
       FreeSlot, Held
  <2>6. ReadIsLeaving'
    BY DEF ReadIsLeaving, TypeOK, QueueTypeOK, RequestShape, Deleting, OnePlace,
       KeysOf
  <2>7. LeavingWasRead' BY DEF LeavingWasRead, TypeOK, QueueTypeOK, KeysOf, Deleting
  <2>8. NothingLeaks'
    BY DEF NothingLeaks, TypeOK, QueueTypeOK, KeysOf, Scheduled, InMessage,
       FreeSlot, Held, RequestShape, Deleting
  <2> QED BY <2>1, <2>2, <2>3, <2>4, <2>5, <2>6, <2>7, <2>8 DEF IInv
<1>7. ASSUME NEW p \in Proc, DropPages(p) PROVE IInv'
  <2> USE <1>7 DEF DropPages, Goto, Erase
  <2>1. TypeOK' BY DEF TypeOK, QueueTypeOK, PC, Stage, Deleting, RequestShape, KeysOf
  <2>2. RequestShape' BY DEF RequestShape, TypeOK, QueueTypeOK, Deleting
  <2>3. LoopShape' BY DEF LoopShape, TypeOK, QueueTypeOK, Stage, Held, FreeSlot
  <2>4. OnePlace' BY DEF OnePlace, TypeOK, QueueTypeOK
  <2>5. ScheduledLeft'
    BY DEF ScheduledLeft, TypeOK, QueueTypeOK, KeysOf, Scheduled, InMessage,
       FreeSlot, Held
  <2>6. ReadIsLeaving' BY DEF ReadIsLeaving, TypeOK, QueueTypeOK
  <2>7. LeavingWasRead'
    BY SMTT(30) DEF LeavingWasRead, TypeOK, QueueTypeOK, KeysOf, Deleting, RequestShape
  <2>8. NothingLeaks'
    BY DEF NothingLeaks, TypeOK, QueueTypeOK, KeysOf, Scheduled, InMessage,
       FreeSlot, Held, LeavingWasRead, RequestShape, Deleting
  <2> QED BY <2>1, <2>2, <2>3, <2>4, <2>5, <2>6, <2>7, <2>8 DEF IInv
<1>8. ASSUME NEW p \in Proc, DropChapter(p) PROVE IInv'
  <2> USE <1>8 DEF DropChapter, Collected, Goto, Erase, Cascade
  <2>1. TypeOK' BY SMTT(30) DEF TypeOK, QueueTypeOK, PC, Stage, Deleting, RequestShape, KeysOf
  <2>2. RequestShape' BY DEF RequestShape, TypeOK, QueueTypeOK, Deleting
  <2>3. LoopShape' BY DEF LoopShape, TypeOK, QueueTypeOK, Stage, Held, FreeSlot
  <2>4. OnePlace' BY DEF OnePlace, TypeOK, QueueTypeOK
  <2>5. ScheduledLeft'
    BY DEF ScheduledLeft, TypeOK, QueueTypeOK, KeysOf, Scheduled, InMessage,
       FreeSlot, Held, ReadIsLeaving, RequestShape, Deleting
  <2>6. ReadIsLeaving' BY DEF ReadIsLeaving, TypeOK, QueueTypeOK
  <2>7. LeavingWasRead'
    BY SMTT(30) DEF LeavingWasRead, TypeOK, QueueTypeOK, KeysOf, Deleting, RequestShape
  <2>8. NothingLeaks'
    BY DEF NothingLeaks, TypeOK, QueueTypeOK, KeysOf, Scheduled, InMessage,
       FreeSlot, Held, LeavingWasRead, RequestShape, Deleting
  <2> QED BY <2>1, <2>2, <2>3, <2>4, <2>5, <2>6, <2>7, <2>8 DEF IInv
<1>9. ASSUME NEW p \in Proc, BeginDeletePage(p) PROVE IInv'
  <2> USE <1>9 DEF BeginDeletePage, Admit, Goto
  <2>1. TypeOK' BY DEF TypeOK, QueueTypeOK, PC, Stage, Deleting
  <2>2. RequestShape' BY DEF RequestShape, TypeOK, QueueTypeOK, Deleting
  <2>3. LoopShape' BY DEF LoopShape, TypeOK, QueueTypeOK, Stage, Held, FreeSlot
  <2>4. OnePlace' BY DEF OnePlace, TypeOK, QueueTypeOK
  <2>5. ScheduledLeft'
    BY DEF ScheduledLeft, TypeOK, QueueTypeOK, KeysOf, Scheduled, InMessage,
       FreeSlot, Held
  <2>6. ReadIsLeaving'
    BY DEF ReadIsLeaving, TypeOK, QueueTypeOK, OnePlace, RequestShape, Deleting
  <2>7. LeavingWasRead' BY DEF LeavingWasRead, TypeOK, QueueTypeOK, KeysOf, Deleting
  <2>8. NothingLeaks'
    BY DEF NothingLeaks, TypeOK, QueueTypeOK, KeysOf, Scheduled, InMessage,
       FreeSlot, Held, RequestShape, Deleting
  <2> QED BY <2>1, <2>2, <2>3, <2>4, <2>5, <2>6, <2>7, <2>8 DEF IInv
<1>10. ASSUME NEW p \in Proc, DropPage(p) PROVE IInv'
  <2> USE <1>10 DEF DropPage, Collected, Goto
  <2>1. TypeOK' BY DEF TypeOK, QueueTypeOK, PC, Stage, Deleting, RequestShape, KeysOf
  <2>2. RequestShape' BY DEF RequestShape, TypeOK, QueueTypeOK, Deleting
  <2>3. LoopShape' BY DEF LoopShape, TypeOK, QueueTypeOK, Stage, Held, FreeSlot
  <2>4. OnePlace' BY DEF OnePlace, TypeOK, QueueTypeOK
  <2>5. ScheduledLeft'
    BY DEF ScheduledLeft, TypeOK, QueueTypeOK, KeysOf, Scheduled, InMessage,
       FreeSlot, Held, ReadIsLeaving, RequestShape, Deleting
  <2>6. ReadIsLeaving' BY DEF ReadIsLeaving, TypeOK, QueueTypeOK
  <2>7. LeavingWasRead' BY DEF LeavingWasRead, TypeOK, QueueTypeOK, KeysOf, Deleting
  <2>8. NothingLeaks'
    BY DEF NothingLeaks, TypeOK, QueueTypeOK, KeysOf, Scheduled, InMessage,
       FreeSlot, Held, LeavingWasRead, RequestShape, Deleting
  <2> QED BY <2>1, <2>2, <2>3, <2>4, <2>5, <2>6, <2>7, <2>8 DEF IInv
<1>11. ASSUME NEW p \in Proc, Collect(p) PROVE IInv'
  <2> USE <1>11 DEF Collect, Admit, Goto
  <2>1. TypeOK' BY DEF TypeOK, QueueTypeOK, PC, Stage, Deleting, RequestShape, KeysOf
  <2>2. RequestShape' BY DEF RequestShape, TypeOK, QueueTypeOK, Deleting
  <2>3. LoopShape' BY DEF LoopShape, TypeOK, QueueTypeOK, Stage, Held, FreeSlot
  <2>4. OnePlace' BY DEF OnePlace, TypeOK, QueueTypeOK
  <2>5. ScheduledLeft'
    BY DEF ScheduledLeft, TypeOK, QueueTypeOK, KeysOf, Scheduled, InMessage,
       FreeSlot, Held
  <2>6. ReadIsLeaving' BY DEF ReadIsLeaving, TypeOK, QueueTypeOK
  <2>7. LeavingWasRead' BY DEF LeavingWasRead, TypeOK, QueueTypeOK, KeysOf, Deleting
  <2>8. NothingLeaks'
    BY DEF NothingLeaks, TypeOK, QueueTypeOK, KeysOf, Scheduled, InMessage,
       FreeSlot, Held, RequestShape, Deleting
  <2> QED BY <2>1, <2>2, <2>3, <2>4, <2>5, <2>6, <2>7, <2>8 DEF IInv
<1>12. ASSUME NEW p \in Proc, DropMediaPages(p) PROVE IInv'
  <2> USE <1>12 DEF DropMediaPages, Goto, Erase
  <2>1. TypeOK' BY DEF TypeOK, QueueTypeOK, PC, Stage, Deleting, RequestShape, KeysOf
  <2>2. RequestShape' BY DEF RequestShape, TypeOK, QueueTypeOK, Deleting
  <2>3. LoopShape' BY DEF LoopShape, TypeOK, QueueTypeOK, Stage, Held, FreeSlot
  <2>4. OnePlace' BY DEF OnePlace, TypeOK, QueueTypeOK
  <2>5. ScheduledLeft'
    BY DEF ScheduledLeft, TypeOK, QueueTypeOK, KeysOf, Scheduled, InMessage,
       FreeSlot, Held
  <2>6. ReadIsLeaving' BY DEF ReadIsLeaving, TypeOK, QueueTypeOK
  <2>7. LeavingWasRead'
    BY SMTT(30) DEF LeavingWasRead, TypeOK, QueueTypeOK, KeysOf, Deleting, RequestShape
  <2>8. NothingLeaks'
    BY DEF NothingLeaks, TypeOK, QueueTypeOK, KeysOf, Scheduled, InMessage,
       FreeSlot, Held, LeavingWasRead, RequestShape, Deleting
  <2> QED BY <2>1, <2>2, <2>3, <2>4, <2>5, <2>6, <2>7, <2>8 DEF IInv
<1>13. ASSUME NEW p \in Proc, DropMediaChapters(p) PROVE IInv'
  <2> USE <1>13 DEF DropMediaChapters, Goto, Erase, Cascade
  <2>1. TypeOK' BY DEF TypeOK, QueueTypeOK, PC, Stage, Deleting, RequestShape, KeysOf
  <2>2. RequestShape' BY DEF RequestShape, TypeOK, QueueTypeOK, Deleting
  <2>3. LoopShape' BY DEF LoopShape, TypeOK, QueueTypeOK, Stage, Held, FreeSlot
  <2>4. OnePlace' BY DEF OnePlace, TypeOK, QueueTypeOK
  <2>5. ScheduledLeft'
    BY DEF ScheduledLeft, TypeOK, QueueTypeOK, KeysOf, Scheduled, InMessage,
       FreeSlot, Held
  <2>6. ReadIsLeaving' BY DEF ReadIsLeaving, TypeOK, QueueTypeOK
  <2>7. LeavingWasRead'
    BY DEF LeavingWasRead, TypeOK, QueueTypeOK, KeysOf, Deleting, RequestShape
  <2>8. NothingLeaks'
    BY DEF NothingLeaks, TypeOK, QueueTypeOK, KeysOf, Scheduled, InMessage,
       FreeSlot, Held, LeavingWasRead, RequestShape, Deleting
  <2> QED BY <2>1, <2>2, <2>3, <2>4, <2>5, <2>6, <2>7, <2>8 DEF IInv
<1>14. ASSUME NEW p \in Proc, DropMedia(p) PROVE IInv'
  <2> USE <1>14 DEF DropMedia, Collected, Goto
  <2>1. TypeOK' BY DEF TypeOK, QueueTypeOK, PC, Stage, Deleting, RequestShape, KeysOf
  <2>2. RequestShape' BY DEF RequestShape, TypeOK, QueueTypeOK, Deleting
  <2>3. LoopShape' BY DEF LoopShape, TypeOK, QueueTypeOK, Stage, Held, FreeSlot
  <2>4. OnePlace' BY DEF OnePlace, TypeOK, QueueTypeOK
  <2>5. ScheduledLeft'
    BY DEF ScheduledLeft, TypeOK, QueueTypeOK, KeysOf, Scheduled, InMessage,
       FreeSlot, Held, ReadIsLeaving, RequestShape, Deleting
  <2>6. ReadIsLeaving' BY DEF ReadIsLeaving, TypeOK, QueueTypeOK
  <2>7. LeavingWasRead' BY DEF LeavingWasRead, TypeOK, QueueTypeOK, KeysOf, Deleting
  <2>8. NothingLeaks'
    BY DEF NothingLeaks, TypeOK, QueueTypeOK, KeysOf, Scheduled, InMessage,
       FreeSlot, Held
  <2> QED BY <2>1, <2>2, <2>3, <2>4, <2>5, <2>6, <2>7, <2>8 DEF IInv
<1>15. ASSUME NEW p \in Proc, SendPlain(p) PROVE IInv'
  <2> USE <1>15 DEF SendPlain, Goto, Enqueue, Push
  <2>1. TypeOK' BY DEF TypeOK, QueueTypeOK, PC, Stage, Deleting
  <2>2. RequestShape' BY DEF RequestShape, TypeOK, QueueTypeOK, Deleting
  <2>3. LoopShape' BY DEF LoopShape, TypeOK, QueueTypeOK, Stage, Held, FreeSlot
  <2>4. OnePlace' BY DEF OnePlace, TypeOK, QueueTypeOK
  <2>5. ScheduledLeft'
    BY DEF ScheduledLeft, TypeOK, QueueTypeOK, KeysOf, Scheduled, InMessage,
       FreeSlot, Held
  <2>6. ReadIsLeaving' BY DEF ReadIsLeaving, TypeOK, QueueTypeOK
  <2>7. LeavingWasRead' BY DEF LeavingWasRead, TypeOK, QueueTypeOK, KeysOf, Deleting
  <2>8. NothingLeaks'
    BY DEF NothingLeaks, TypeOK, QueueTypeOK, KeysOf, Scheduled, InMessage,
       FreeSlot, Held
  <2> QED BY <2>1, <2>2, <2>3, <2>4, <2>5, <2>6, <2>7, <2>8 DEF IInv
<1>16. ASSUME NEW p \in Proc, SendPrefix(p) PROVE IInv'
  <2> USE <1>16 DEF SendPrefix, Done, Goto, Enqueue, Push
  <2>1. TypeOK' BY DEF TypeOK, QueueTypeOK, PC, Stage, Deleting
  <2>2. RequestShape' BY DEF RequestShape, TypeOK, QueueTypeOK, Deleting
  <2>3. LoopShape' BY DEF LoopShape, TypeOK, QueueTypeOK, Stage, Held, FreeSlot
  <2>4. OnePlace' BY DEF OnePlace, TypeOK, QueueTypeOK
  <2>5. ScheduledLeft'
    BY DEF ScheduledLeft, TypeOK, QueueTypeOK, KeysOf, Scheduled, InMessage,
       FreeSlot, Held
  <2>6. ReadIsLeaving' BY DEF ReadIsLeaving, TypeOK, QueueTypeOK
  <2>7. LeavingWasRead' BY DEF LeavingWasRead, TypeOK, QueueTypeOK, KeysOf, Deleting
  <2>8. NothingLeaks'
    BY DEF NothingLeaks, TypeOK, QueueTypeOK, KeysOf, Scheduled, InMessage,
       FreeSlot, Held, RequestShape, Deleting
  <2> QED BY <2>1, <2>2, <2>3, <2>4, <2>5, <2>6, <2>7, <2>8 DEF IInv
<1>17. ASSUME NEW p \in Proc, Fail(p) PROVE IInv'
  <2> USE <1>17 DEF Fail, Done, Goto, Fault
  <2>1. TypeOK'
    <3>1. CASE Done(p)
      BY <3>1 DEF TypeOK, QueueTypeOK, PC
    <3>2. CASE pc[p] = "sendPlain" /\ Goto(p, "sendPrefix")
      BY <3>2 DEF TypeOK, QueueTypeOK, PC
    <3> QED BY <3>1, <3>2
  <2>2. RequestShape'
    <3>1. CASE Done(p)
      BY <3>1 DEF RequestShape, TypeOK, QueueTypeOK, Deleting
    <3>2. CASE pc[p] = "sendPlain" /\ Goto(p, "sendPrefix")
      BY <3>2 DEF RequestShape, TypeOK, QueueTypeOK, Deleting
    <3> QED BY <3>1, <3>2
  <2>3. LoopShape' BY DEF LoopShape, TypeOK, QueueTypeOK, Stage, Held, FreeSlot
  <2>4. OnePlace' BY DEF OnePlace, TypeOK, QueueTypeOK
  <2>5. ScheduledLeft'
    BY DEF ScheduledLeft, TypeOK, QueueTypeOK, KeysOf, Scheduled, InMessage,
       FreeSlot, Held
  <2>6. ReadIsLeaving' BY DEF ReadIsLeaving, TypeOK, QueueTypeOK
  <2>7. LeavingWasRead' BY DEF LeavingWasRead, TypeOK, QueueTypeOK, KeysOf, Deleting
  <2>8. NothingLeaks'
    BY DEF NothingLeaks, TypeOK, QueueTypeOK, KeysOf, Scheduled, InMessage,
       FreeSlot, Held
  <2> QED BY <2>1, <2>2, <2>3, <2>4, <2>5, <2>6, <2>7, <2>8 DEF IInv
<1>18. ASSUME NEW w \in Worker, Begin(w) PROVE IInv'
  <2> USE <1>18 DEF Begin, Take
  <2>1. TypeOK' BY DEF TypeOK, QueueTypeOK, PC, Stage, Deleting
  <2>2. RequestShape' BY DEF RequestShape, TypeOK, QueueTypeOK, Deleting
  <2>3. LoopShape' BY DEF LoopShape, TypeOK, QueueTypeOK, Stage, Held, FreeSlot
  <2>4. OnePlace' BY DEF OnePlace, TypeOK, QueueTypeOK
  <2>5. ScheduledLeft'
    BY DEF ScheduledLeft, TypeOK, QueueTypeOK, KeysOf, Scheduled, InMessage,
       FreeSlot, Held
  <2>6. ReadIsLeaving' BY DEF ReadIsLeaving, TypeOK, QueueTypeOK
  <2>7. LeavingWasRead' BY DEF LeavingWasRead, TypeOK, QueueTypeOK, KeysOf, Deleting
  <2>8. NothingLeaks'
    BY DEF NothingLeaks, TypeOK, QueueTypeOK, KeysOf, Scheduled, InMessage,
       FreeSlot, Held, LoopShape, Stage
  <2> QED BY <2>1, <2>2, <2>3, <2>4, <2>5, <2>6, <2>7, <2>8 DEF IInv
<1>19. ASSUME NEW w \in Worker, List(w) PROVE IInv'
  <2> USE <1>19 DEF List, Ack
  <2>1. TypeOK' BY SMTT(30) DEF TypeOK, QueueTypeOK, PC, Stage, Deleting, LoopShape
  <2>2. RequestShape' BY DEF RequestShape, TypeOK, QueueTypeOK, Deleting
  <2>3. LoopShape' BY DEF LoopShape, TypeOK, QueueTypeOK, Stage, Held, FreeSlot
  <2>4. OnePlace' BY DEF OnePlace, TypeOK, QueueTypeOK
  <2>5. ScheduledLeft'
    BY DEF ScheduledLeft, TypeOK, QueueTypeOK, KeysOf, Scheduled, InMessage,
       FreeSlot, Held
  <2>6. ReadIsLeaving' BY DEF ReadIsLeaving, TypeOK, QueueTypeOK
  <2>7. LeavingWasRead' BY DEF LeavingWasRead, TypeOK, QueueTypeOK, KeysOf, Deleting
  <2>8. NothingLeaks'
    BY DEF NothingLeaks, TypeOK, QueueTypeOK, KeysOf, Scheduled, InMessage,
       FreeSlot, Held
  <2> QED BY <2>1, <2>2, <2>3, <2>4, <2>5, <2>6, <2>7, <2>8 DEF IInv
<1>20. ASSUME NEW w \in Worker, DeleteObjects(w) PROVE IInv'
  <2> USE <1>20 DEF DeleteObjects, Ack
  <2>1. TypeOK' BY DEF TypeOK, QueueTypeOK, PC, Stage, Deleting, LoopShape
  <2>2. RequestShape' BY DEF RequestShape, TypeOK, QueueTypeOK, Deleting
  <2>3. LoopShape' BY DEF LoopShape, TypeOK, QueueTypeOK, Stage, Held, FreeSlot
  <2>4. OnePlace' BY DEF OnePlace, TypeOK, QueueTypeOK
  <2>5. ScheduledLeft'
    BY DEF ScheduledLeft, TypeOK, QueueTypeOK, KeysOf, Scheduled, InMessage,
       FreeSlot, Held, LoopShape, Stage
  <2>6. ReadIsLeaving' BY DEF ReadIsLeaving, TypeOK, QueueTypeOK
  <2>7. LeavingWasRead' BY DEF LeavingWasRead, TypeOK, QueueTypeOK, KeysOf, Deleting
  <2>8. NothingLeaks'
    BY DEF NothingLeaks, TypeOK, QueueTypeOK, KeysOf, Scheduled, InMessage,
       FreeSlot, Held
  <2> QED BY <2>1, <2>2, <2>3, <2>4, <2>5, <2>6, <2>7, <2>8 DEF IInv
<1>21. ASSUME NEW w \in Worker, ProcessFails(w) PROVE IInv'
  <2> USE <1>21 DEF ProcessFails, Fault, Retry
  <2>1. TypeOK' BY DEF TypeOK, QueueTypeOK, PC, Stage, Deleting, LoopShape
  <2>2. RequestShape' BY DEF RequestShape, TypeOK, QueueTypeOK, Deleting
  <2>3. LoopShape' BY DEF LoopShape, TypeOK, QueueTypeOK, Stage, Held, FreeSlot
  <2>4. OnePlace' BY DEF OnePlace, TypeOK, QueueTypeOK
  <2>5. ScheduledLeft'
    BY DEF ScheduledLeft, TypeOK, QueueTypeOK, KeysOf, Scheduled, InMessage,
       FreeSlot, Held, LoopShape, Stage
  <2>6. ReadIsLeaving' BY DEF ReadIsLeaving, TypeOK, QueueTypeOK
  <2>7. LeavingWasRead' BY DEF LeavingWasRead, TypeOK, QueueTypeOK, KeysOf, Deleting
  <2>8. NothingLeaks'
    BY DEF NothingLeaks, TypeOK, QueueTypeOK, KeysOf, Scheduled, InMessage,
       FreeSlot, Held
  <2> QED BY <2>1, <2>2, <2>3, <2>4, <2>5, <2>6, <2>7, <2>8 DEF IInv
<1>22. ASSUME NEW w \in Worker, PullBatch(w) PROVE IInv'
  <2> USE <1>22 DEF PullBatch, Pull, PollEmpty, Available
  <2>1. TypeOK' BY DEF TypeOK, QueueTypeOK, PC, Stage, Deleting
  <2>2. RequestShape' BY DEF RequestShape, TypeOK, QueueTypeOK, Deleting
  <2>3. LoopShape' BY DEF LoopShape, TypeOK, QueueTypeOK, Stage, Held, FreeSlot
  <2>4. OnePlace' BY DEF OnePlace, TypeOK, QueueTypeOK
  <2>5. ScheduledLeft'
    BY DEF ScheduledLeft, TypeOK, QueueTypeOK, KeysOf, Scheduled, InMessage,
       FreeSlot, Held
  <2>6. ReadIsLeaving' BY DEF ReadIsLeaving, TypeOK, QueueTypeOK
  <2>7. LeavingWasRead' BY DEF LeavingWasRead, TypeOK, QueueTypeOK, KeysOf, Deleting
  <2>8. NothingLeaks'
    BY DEF NothingLeaks, TypeOK, QueueTypeOK, KeysOf, Scheduled, InMessage,
       FreeSlot, Held, LoopShape, Stage
  <2> QED BY <2>1, <2>2, <2>3, <2>4, <2>5, <2>6, <2>7, <2>8 DEF IInv
<1>23. ASSUME NEW w \in Worker, SettleBatch(w) PROVE IInv'
  <2> USE <1>23 DEF SettleBatch, Settle, Forget, BlankFree
  <2>1. TypeOK' BY DEF TypeOK, QueueTypeOK, PC, Stage, Deleting
  <2>2. RequestShape' BY DEF RequestShape, TypeOK, QueueTypeOK, Deleting
  <2>3. LoopShape' BY DEF LoopShape, TypeOK, QueueTypeOK, Stage, Held, FreeSlot
  <2>4. OnePlace' BY DEF OnePlace, TypeOK, QueueTypeOK
  <2>5. ScheduledLeft'
    BY DEF ScheduledLeft, TypeOK, QueueTypeOK, KeysOf, Scheduled, InMessage,
       FreeSlot, Held
  <2>6. ReadIsLeaving' BY DEF ReadIsLeaving, TypeOK, QueueTypeOK
  <2>7. LeavingWasRead' BY DEF LeavingWasRead, TypeOK, QueueTypeOK, KeysOf, Deleting
  <2>8. NothingLeaks'
    BY DEF NothingLeaks, TypeOK, QueueTypeOK, KeysOf, Scheduled, InMessage,
       FreeSlot, Held, LoopShape, Stage
  <2> QED BY <2>1, <2>2, <2>3, <2>4, <2>5, <2>6, <2>7, <2>8 DEF IInv
<1>24. ASSUME NEW w \in Worker, Crash(w) PROVE IInv'
  <2> USE <1>24 DEF Crash, Fault, Abandon, Forget, BlankFree
  <2>1. TypeOK' BY DEF TypeOK, QueueTypeOK, PC, Stage, Deleting
  <2>2. RequestShape' BY DEF RequestShape, TypeOK, QueueTypeOK, Deleting
  <2>3. LoopShape' BY DEF LoopShape, TypeOK, QueueTypeOK, Stage, Held, FreeSlot
  <2>4. OnePlace' BY DEF OnePlace, TypeOK, QueueTypeOK
  <2>5. ScheduledLeft'
    BY DEF ScheduledLeft, TypeOK, QueueTypeOK, KeysOf, Scheduled, InMessage,
       FreeSlot, Held
  <2>6. ReadIsLeaving' BY DEF ReadIsLeaving, TypeOK, QueueTypeOK
  <2>7. LeavingWasRead' BY DEF LeavingWasRead, TypeOK, QueueTypeOK, KeysOf, Deleting
  <2>8. NothingLeaks'
    BY DEF NothingLeaks, TypeOK, QueueTypeOK, KeysOf, Scheduled, InMessage,
       FreeSlot, Held
  <2> QED BY <2>1, <2>2, <2>3, <2>4, <2>5, <2>6, <2>7, <2>8 DEF IInv
<1>25. ASSUME NEW m \in Msg, Expire(m) PROVE IInv'
  <2> USE <1>25 DEF Expire, LeaseExpires
  <2>1. TypeOK' BY DEF TypeOK, QueueTypeOK, PC, Stage, Deleting
  <2>2. RequestShape' BY DEF RequestShape, TypeOK, QueueTypeOK, Deleting
  <2>3. LoopShape' BY DEF LoopShape, TypeOK, QueueTypeOK, Stage, Held, FreeSlot
  <2>4. OnePlace' BY DEF OnePlace, TypeOK, QueueTypeOK
  <2>5. ScheduledLeft'
    BY DEF ScheduledLeft, TypeOK, QueueTypeOK, KeysOf, Scheduled, InMessage,
       FreeSlot, Held
  <2>6. ReadIsLeaving' BY DEF ReadIsLeaving, TypeOK, QueueTypeOK
  <2>7. LeavingWasRead' BY DEF LeavingWasRead, TypeOK, QueueTypeOK, KeysOf, Deleting
  <2>8. NothingLeaks'
    BY DEF NothingLeaks, TypeOK, QueueTypeOK, KeysOf, Scheduled, InMessage,
       FreeSlot, Held
  <2> QED BY <2>1, <2>2, <2>3, <2>4, <2>5, <2>6, <2>7, <2>8 DEF IInv
<1>26. CASE UNCHANGED vars
  BY <1>26 DEF vars, TypeOK, QueueTypeOK, RequestShape, LoopShape, Held, OnePlace,
     ScheduledLeft, Scheduled, InMessage, FreeSlot, KeysOf, ReadIsLeaving,
     LeavingWasRead, NothingLeaks
<1> QED
  BY <1>1, <1>2, <1>3, <1>4, <1>5, <1>6, <1>7, <1>8, <1>9, <1>10, <1>11, <1>12, <1>13, <1>14,
     <1>15, <1>16, <1>17, <1>18, <1>19, <1>20, <1>21, <1>22, <1>23, <1>24, <1>25, <1>26
  DEF Next, Request, Loop

(* IInv holds in every reachable state.                                    *)
THEOREM Inductive == Spec => []IInv
<1> QED BY InitIInv, NextIInv, PTL DEF Spec

(* Type correctness; a chapter never has two pages at one index, however   *)
(* registrations interleave.                                               *)
THEOREM TypeCorrect == Spec => []TypeOK
<1>1. IInv => TypeOK BY DEF IInv
<1> QED BY <1>1, Inductive, PTL

(* Cleanup never takes the object of a page of an existing chapter unless  *)
(* the key was registered again while in use or due to go.                 *)
THEOREM LivePagesStay == Spec => []LivePagesKeepObjects
<1>1. IInv => LivePagesKeepObjects
  BY DEF IInv, TypeOK, ScheduledLeft, LivePagesKeepObjects, KeysOf
<1> QED BY <1>1, Inductive, PTL

(* Without a fault no deletion forgets the object of a row it removed.     *)
THEOREM DeletionsForgetNothing == Spec => []NothingLeaks
<1>1. IInv => NothingLeaks BY DEF IInv
<1> QED BY <1>1, Inductive, PTL

(* What a step takes off the queue is deleted.                             *)
LEMMA AckedStep ==
  ASSUME IInv, [Next]_vars, NEW m \in queued \ queued'
  PROVE  body[m] \intersect objects' = {}
<1>1. CASE \E w \in Worker : SettleBatch(w)
  BY <1>1 DEF SettleBatch, Settle, IInv, LoopShape, pageVars
<1>2. CASE UNCHANGED queued
  BY <1>2
<1>3. CASE \E p \in Proc : SendPlain(p) \/ SendPrefix(p)
  BY <1>3 DEF SendPlain, SendPrefix, Enqueue, Push, queueVars
<1>4. (\E w \in Worker : SettleBatch(w)) \/ UNCHANGED queued
        \/ \E p \in Proc : SendPlain(p) \/ SendPrefix(p)
  BY DEF Next, Request, Loop, vars, queueVars, CreateChapter, BeginRegister,
     BeginDeleteChapters, BeginDeletePage, Collect, Clear, Insert, ReadPages, DropPages,
     DropChapter, DropPage, DropMediaPages, DropMediaChapters, DropMedia, Fail,
     PullBatch, Pull, PollEmpty, Begin, Take, List, Ack, DeleteObjects, ProcessFails,
     Retry, Crash, Abandon, Expire, LeaseExpires
<1> QED
  BY <1>1, <1>2, <1>3, <1>4

(* A message leaves the queue only when its objects are gone, however      *)
(* leases expire, loops overlap and deletions fail half-way.               *)
THEOREM NeverAckedEarly == Spec => AckedMeansDeleted
<1>1. IInv /\ [Next]_vars =>
        [\A m \in queued \ queued' : body[m] \intersect objects' = {}]_vars
  BY AckedStep
<1> QED
  BY <1>1, Inductive, PTL DEF Spec, AckedMeansDeleted

----------------------------------------------------------------------------
(* A message keeps its keys for as long as anybody has it.                 *)
LEMMA BodyStays ==
  ASSUME IInv, [Next]_vars, NEW m \in Msg, ~FreeSlot(m), ~FreeSlot(m)'
  PROVE  body'[m] = body[m]
<1>1. CASE UNCHANGED body
  BY <1>1
<1>2. CASE BlankFree
  BY <1>2 DEF BlankFree
<1>3. CASE \E p \in Proc : SendPlain(p) \/ SendPrefix(p)
  BY <1>3 DEF SendPlain, SendPrefix, Enqueue, IInv, TypeOK
<1> QED
  BY <1>1, <1>2, <1>3
  DEF Next, Request, Loop, vars, CreateChapter, BeginRegister, BeginDeleteChapters,
      BeginDeletePage, Collect, Clear, Insert, ReadPages, DropPages, DropChapter, DropPage,
      DropMediaPages, DropMediaChapters, DropMedia, Fail, PullBatch, Begin, List,
      DeleteObjects, SettleBatch, ProcessFails, Crash, Expire

(* A message whose object is still there stays in the queue.               *)
LEMMA StaysQueued ==
  ASSUME IInv, [Next]_vars, NEW m \in queued, NEW k \in body[m] \intersect objects'
  PROVE  m \in queued' /\ k \in body'[m]
<1>1. m \in queued'
  BY AckedStep
<1>2. ~FreeSlot(m) /\ ~FreeSlot(m)' /\ m \in Msg
  BY <1>1 DEF FreeSlot, IInv, TypeOK, QueueTypeOK
<1> QED
  BY <1>1, <1>2, BodyStays

(* A scheduled object stays scheduled, under the same message, for as long *)
(* as it exists, whatever the loops, the queue and the requests do         *)
(* (queue/client.go, internal/cleanup).                                    *)
THEOREM JobsAreKept ==
  Spec => [][\A m \in queued : \A k \in body[m] \intersect objects' :
               m \in queued' /\ k \in body'[m]]_vars
<1>1. IInv /\ [Next]_vars =>
        [\A m \in queued : \A k \in body[m] \intersect objects' :
           m \in queued' /\ k \in body'[m]]_vars
  BY StaysQueued
<1> QED
  BY <1>1, Inductive, PTL DEF Spec

----------------------------------------------------------------------------
(* An object of a message that a loop works on, or has in its batch, or    *)
(* that is in the queue; and how that ends, if only a fault can prevent    *)
(* it.                                                                     *)
WorksOn(w, m, k, s) == stage[w] = s /\ cur[w] = m /\ k \in body[m]
Waiting(m, k, n) == m \in queued /\ k \in body[m] /\ faults >= n
Over(k, n) == k \notin objects \/ faults > n

TakenEnds(w, m, k, n) ==
  stage[w] \in Stage /\ cur[w] = m /\ k \in body[m] /\ faults >= n ~> Over(k, n)

(* Faults are counted.                                                     *)
LEMMA FaultsCount == ASSUME [Next]_vars PROVE UNCHANGED faults \/ faults' = faults + 1
<1>1. CASE \E p \in Proc : Request(p)
  BY <1>1 DEF Request, bounds, Clear, Insert, ReadPages, DropPages, DropChapter, DropPage,
     DropMediaPages, DropMediaChapters, DropMedia, SendPlain, SendPrefix
<1>2. CASE \E p \in Proc : BeginRegister(p) \/ BeginDeleteChapters(p) \/ BeginDeletePage(p)
                             \/ Collect(p) \/ Fail(p)
  BY <1>2 DEF BeginRegister, BeginDeleteChapters, BeginDeletePage, Collect, Fail, Admit, Fault
<1>3. CASE \E w \in Worker : Loop(w) \/ ProcessFails(w) \/ Crash(w)
  BY <1>3 DEF Loop, PullBatch, Begin, List, DeleteObjects, SettleBatch, ProcessFails, Crash,
     Fault, bounds
<1>4. CASE UNCHANGED vars \/ (\E c \in Chapter : CreateChapter(c)) \/ \E m \in Msg : Expire(m)
  BY <1>4 DEF CreateChapter, Expire, vars, bounds
<1> QED
  BY <1>1, <1>2, <1>3, <1>4 DEF Next

(* Only its own calls, failed or not, and its crash move a loop.           *)
LEMMA OthersLeaveIt ==
  ASSUME IInv, [Next]_vars, NEW w \in Worker, ~Loop(w), ~ProcessFails(w), ~Crash(w)
  PROVE  stage'[w] = stage[w] /\ cur'[w] = cur[w] /\ todo'[w] = todo[w]
<1>1. ASSUME NEW v \in Worker, Loop(v) \/ ProcessFails(v) \/ Crash(v)
      PROVE  stage'[w] = stage[w] /\ cur'[w] = cur[w] /\ todo'[w] = todo[w]
  <2>1. v # w
    BY <1>1
  <2>2. /\ stage' = stage \/ \E x : stage' = [stage EXCEPT ![v] = x]
        /\ cur' = cur \/ \E x : cur' = [cur EXCEPT ![v] = x]
        /\ todo' = todo \/ \E x : todo' = [todo EXCEPT ![v] = x]
    <3>1. CASE PullBatch(v) \/ Begin(v)
      BY <3>1 DEF PullBatch, Pull, PollEmpty, Begin, Take, queueVars
    <3>2. CASE List(v) \/ DeleteObjects(v) \/ SettleBatch(v)
      BY <3>2 DEF List, Ack, DeleteObjects, SettleBatch, Settle, Forget
    <3>3. CASE ProcessFails(v) \/ Crash(v)
      BY <3>3 DEF ProcessFails, Retry, Crash, Abandon, Forget
    <3> QED
      BY <1>1, <3>1, <3>2, <3>3 DEF Loop
  <2> QED
    BY <2>1, <2>2 DEF IInv, TypeOK, QueueTypeOK
<1>2. CASE UNCHANGED <<stage, cur, todo>>
  BY <1>2
<1>3. CASE \E p \in Proc : Request(p)
  BY <1>2, <1>3 DEF Request, queueVars, Clear, Insert, ReadPages, DropPages, DropChapter, DropPage,
     DropMediaPages, DropMediaChapters, DropMedia, SendPlain, SendPrefix, Enqueue, Push
<1>4. CASE \E p \in Proc : BeginRegister(p) \/ BeginDeleteChapters(p) \/ BeginDeletePage(p)
                             \/ Collect(p) \/ Fail(p)
  BY <1>2, <1>4 DEF BeginRegister, BeginDeleteChapters, BeginDeletePage, Collect, Fail, queueVars
<1>5. CASE UNCHANGED vars \/ (\E c \in Chapter : CreateChapter(c)) \/ \E m \in Msg : Expire(m)
  BY <1>2, <1>5 DEF CreateChapter, Expire, LeaseExpires, vars, queueVars
<1> QED
  BY <1>1, <1>3, <1>4, <1>5 DEF Next

(* While no fault happens, the loop's own calls, and nothing else, carry   *)
(* its message from the listing to the deletion, and out of it.            *)
LEMMA LoopMovesOn ==
  ASSUME IInv, [Next]_vars, NEW w \in Worker, NEW m \in Msg, NEW k \in Key, NEW n \in Nat,
         NEW s \in Stage, WorksOn(w, m, k, s), faults >= n
  PROVE  /\ \/ WorksOn(w, m, k, s)' /\ ~Loop(w)
            \/ s = "list" /\ WorksOn(w, m, k, "delete")'
            \/ Over(k, n) \/ Over(k, n)'
         /\ (faults >= n)'
<1> USE DEF WorksOn, Over
<1>1. stage[w] = s /\ cur[w] = m /\ faults \in Nat /\ (s = "list" \/ s = "delete")
  BY DEF IInv, TypeOK, Stage
<1>2. (faults >= n)'
  BY <1>1, FaultsCount
<1>3. CASE Loop(w)
  <2>1. ~PullBatch(w) /\ ~Begin(w) /\ ~SettleBatch(w)
    BY <1>1 DEF PullBatch, Pull, PollEmpty, Begin, Take, SettleBatch, Settle
  <2>2. CASE List(w)
    BY <1>1, <1>2, <2>2 DEF List, Ack, IInv, TypeOK, QueueTypeOK
  <2>3. CASE DeleteObjects(w)
    BY <1>1, <1>2, <2>3 DEF DeleteObjects
  <2> QED
    BY <1>3, <2>1, <2>2, <2>3 DEF Loop
<1>4. CASE faults' # faults
  BY <1>1, <1>2, <1>4, FaultsCount
<1>5. CASE ~Loop(w) /\ UNCHANGED faults
  <2>1. stage'[w] = stage[w] /\ cur'[w] = cur[w]
    BY <1>1, <1>5, OthersLeaveIt DEF ProcessFails, Crash, Fault
  <2>2. cur[w] = m /\ cur'[w] = m /\ m # NoMsg
    BY <1>1, <2>1, QueueAssumption
  <2>3. ~FreeSlot(m) /\ ~FreeSlot(m)'
    BY <2>2 DEF FreeSlot, Held
  <2>4. k \in body'[m]
    BY <2>3, BodyStays
  <2> QED
    BY <1>2, <1>5, <2>1, <2>4
<1> QED
  BY <1>3, <1>4, <1>5

(* A message that a loop has turned to is carried out, whatever else runs. *)
LEMMA TakenIsDone ==
  ASSUME NEW w \in Worker, NEW m \in Msg, NEW k \in Key, NEW n \in Nat
  PROVE  Spec /\ Running(w) /\ []NothingBlocks => TakenEnds(w, m, k, n)
<1> DEFINE P == WorksOn(w, m, k, "list") /\ faults >= n
           Q == WorksOn(w, m, k, "delete") /\ faults >= n
           G == Over(k, n)
           S == stage[w] \in Stage /\ cur[w] = m /\ k \in body[m] /\ faults >= n
<1>1. S => P \/ Q
  BY DEF WorksOn, Stage
<1>2. NothingBlocks => (P \/ Q => ENABLED <<Loop(w)>>_vars)
  BY DEF NothingBlocks, WorksOn
<1>3. /\ IInv /\ P /\ [Next]_vars => P' \/ Q' \/ G' \/ G
      /\ IInv /\ P /\ [Next]_vars /\ <<Loop(w)>>_vars => Q' \/ G' \/ G
  BY LoopMovesOn DEF Stage
<1>4. /\ IInv /\ Q /\ [Next]_vars => Q' \/ G' \/ G
      /\ IInv /\ Q /\ [Next]_vars /\ <<Loop(w)>>_vars => G' \/ G
  BY LoopMovesOn DEF Stage
<1>5. Spec /\ Running(w) /\ []NothingBlocks => (S ~> Over(k, n))
  <2> HIDE DEF P, Q, S
  <2> QED
    BY <1>1, <1>2, <1>3, <1>4, Inductive, PTL DEF Spec, Running
<1> QED
  BY <1>5 DEF TakenEnds

----------------------------------------------------------------------------
(* A loop comes to the end of its batch.                                   *)
Pulls(w) == stage[w] = "pull"
At(w, s, j) == stage[w] = s /\ Cardinality(todo[w]) <= j
AtWork(w, j) == stage[w] # "pull" /\ Cardinality(todo[w]) <= j
Batches == \A w \in Worker : Cardinality(todo[w]) <= BatchSize

(* A batch is finite, and its size goes down with each message taken.      *)
LEMMA TodoCounts ==
  ASSUME IsFiniteSet(Msg), TypeOK, NEW w \in Worker
  PROVE  /\ IsFiniteSet(todo[w]) /\ Cardinality(todo[w]) \in Nat
         /\ Cardinality(todo[w]) = 0 <=> todo[w] = {}
         /\ \A m \in todo[w] : Cardinality(todo[w] \ {m}) = Cardinality(todo[w]) - 1
<1>1. IsFiniteSet(todo[w])
  BY FS_Subset DEF TypeOK, QueueTypeOK
<1> QED
  BY <1>1, FS_CardinalityType, FS_EmptySet, FS_RemoveElement

(* What moves a loop that has a batch, and where that leaves it.           *)
LEMMA LoopAdvances ==
  ASSUME IsFiniteSet(Msg), IInv, [Next]_vars, NEW w \in Worker, stage[w] # "pull"
  PROVE  \/ /\ ~Loop(w)
            /\ stage'[w] = stage[w] /\ Cardinality(todo'[w]) = Cardinality(todo[w])
         \/ Pulls(w)'
         \/ /\ stage[w] = "batch" /\ stage'[w] \in Stage
            /\ Cardinality(todo[w]) > 0 /\ Cardinality(todo'[w]) = Cardinality(todo[w]) - 1
         \/ /\ stage[w] \in Stage
            /\ stage'[w] = "batch" \/ (stage[w] = "list" /\ stage'[w] = "delete")
            /\ Cardinality(todo'[w]) = Cardinality(todo[w])
<1> USE DEF Pulls
<1>1. TypeOK /\ Cardinality(todo[w]) \in Nat
  BY TodoCounts DEF IInv
<1>2. CASE Begin(w)
  <2>1. PICK m \in todo[w] : todo' = [todo EXCEPT ![w] = @ \ {m}]
    BY <1>2 DEF Begin, Take
  <2>2. todo'[w] = todo[w] \ {m}
    BY <1>1, <2>1 DEF TypeOK, QueueTypeOK
  <2>3. Cardinality(todo'[w]) = Cardinality(todo[w]) - 1 /\ Cardinality(todo[w]) > 0
    BY <1>1, <2>1, <2>2, TodoCounts
  <2>4. stage[w] = "batch" /\ stage'[w] \in Stage
    BY <1>1, <1>2 DEF Begin, Take, TypeOK, QueueTypeOK, Stage
  <2> QED
    BY <2>3, <2>4
<1>3. CASE List(w) \/ DeleteObjects(w) \/ ProcessFails(w)
  BY <1>1, <1>3 DEF List, DeleteObjects, ProcessFails, Ack, Retry, TypeOK, QueueTypeOK, Stage
<1>4. CASE SettleBatch(w) \/ Crash(w)
  BY <1>1, <1>4 DEF SettleBatch, Settle, Crash, Abandon, Forget, TypeOK, QueueTypeOK
<1>5. ~PullBatch(w)
  BY DEF PullBatch, Pull, PollEmpty
<1> QED
  BY <1>2, <1>3, <1>4, <1>5, OthersLeaveIt DEF Loop

(* No loop holds more than a batch.                                        *)
LEMMA BatchesAreSmall ==
  ASSUME IsFiniteSet(Msg) PROVE Spec => []Batches
<1>1. Init => Batches
  BY FS_EmptySet, QueueAssumption DEF Init, InitQueue, Batches
<1>2. IInv /\ Batches /\ [Next]_vars => Batches'
  <2> SUFFICES ASSUME IInv, Batches, [Next]_vars, NEW w \in Worker
               PROVE  Cardinality(todo'[w]) <= BatchSize
    BY DEF Batches
  <2>1. Cardinality(todo[w]) \in Nat /\ Cardinality(todo[w]) <= BatchSize /\ BatchSize \in Nat
    BY TodoCounts, QueueAssumption DEF Batches, IInv
  <2>2. CASE PullBatch(w)
    BY <2>1, <2>2 DEF PullBatch, Pull, PollEmpty, queueVars, IInv, TypeOK, QueueTypeOK
  <2>3. CASE stage[w] # "pull" /\ ~Pulls(w)'
    BY <2>1, <2>3, LoopAdvances
  <2>4. CASE stage[w] # "pull" /\ Pulls(w)'
    <3>1. IInv'
      BY NextIInv
    <3>2. todo'[w] = {}
      BY <2>4, <3>1 DEF IInv, LoopShape, Pulls
    <3> QED
      BY <2>1, <3>2, FS_EmptySet
  <2>5. CASE stage[w] = "pull" /\ ~PullBatch(w)
    <3>1. ~Loop(w) /\ ~ProcessFails(w) /\ ~Crash(w)
      BY <2>5 DEF Loop, Begin, Take, List, DeleteObjects, SettleBatch, Settle, ProcessFails,
         Crash, Abandon, Stage
    <3> QED
      BY <2>1, <3>1, OthersLeaveIt
  <2> QED
    BY <2>2, <2>3, <2>4, <2>5
<1> QED
  BY <1>1, <1>2, Inductive, PTL DEF Spec

(* A loop at work has one message less to take before long, or polls.      *)
Less(w, i, j) == AtWork(w, i) ~> AtWork(w, j) \/ Pulls(w)
LEMMA OneLess ==
  ASSUME IsFiniteSet(Msg), NEW w \in Worker, NEW j \in Nat, NEW i \in Nat, i = j + 1
  PROVE  Spec /\ Running(w) /\ []NothingBlocks => Less(w, i, j)
<1> DEFINE L == At(w, "list", i)
           D == At(w, "delete", i)
           B == At(w, "batch", i)
           G == AtWork(w, j) \/ Pulls(w)
<1>1. IInv /\ AtWork(w, i) => L \/ D \/ B
  BY DEF IInv, TypeOK, QueueTypeOK, Stage, AtWork, At
<1>2. NothingBlocks => (L \/ D \/ B => ENABLED <<Loop(w)>>_vars)
  BY DEF NothingBlocks, At
<1>3. IInv => Cardinality(todo[w]) \in Nat
  BY TodoCounts DEF IInv
<1>4. /\ IInv /\ L /\ [Next]_vars => L' \/ D' \/ B' \/ G'
      /\ IInv /\ L /\ [Next]_vars /\ <<Loop(w)>>_vars => D' \/ B' \/ G'
      /\ IInv /\ D /\ [Next]_vars => D' \/ B' \/ G'
      /\ IInv /\ D /\ [Next]_vars /\ <<Loop(w)>>_vars => B' \/ G'
  BY <1>3, LoopAdvances DEF At, Stage
<1>5. /\ IInv /\ B /\ [Next]_vars => B' \/ G'
      /\ IInv /\ B /\ [Next]_vars /\ <<Loop(w)>>_vars => G'
  BY <1>3, LoopAdvances DEF At, AtWork, Stage, Pulls
<1>6. Spec /\ Running(w) /\ []NothingBlocks => (AtWork(w, i) ~> AtWork(w, j) \/ Pulls(w))
  <2> HIDE DEF L, D, B
  <2> QED
    BY <1>1, <1>2, <1>4, <1>5, Inductive, PTL DEF Spec, Running
<1> QED
  BY <1>6 DEF Less

(* With nothing left to take, a loop settles and polls.                    *)
Finishes(w) == AtWork(w, 0) ~> Pulls(w)
LEMMA NoneLeft ==
  ASSUME IsFiniteSet(Msg), NEW w \in Worker
  PROVE  Spec /\ Running(w) /\ []NothingBlocks => Finishes(w)
<1> DEFINE L == At(w, "list", 0)
           D == At(w, "delete", 0)
           B == At(w, "batch", 0)
<1>1. IInv /\ AtWork(w, 0) => L \/ D \/ B
  BY DEF IInv, TypeOK, QueueTypeOK, Stage, AtWork, At
<1>2. NothingBlocks => (L \/ D \/ B => ENABLED <<Loop(w)>>_vars)
  BY DEF NothingBlocks, At
<1>3. IInv => Cardinality(todo[w]) \in Nat
  BY TodoCounts DEF IInv
<1>4. /\ IInv /\ L /\ [Next]_vars => L' \/ D' \/ B' \/ Pulls(w)'
      /\ IInv /\ L /\ [Next]_vars /\ <<Loop(w)>>_vars => D' \/ B' \/ Pulls(w)'
      /\ IInv /\ D /\ [Next]_vars => D' \/ B' \/ Pulls(w)'
      /\ IInv /\ D /\ [Next]_vars /\ <<Loop(w)>>_vars => B' \/ Pulls(w)'
  BY <1>3, LoopAdvances DEF At, Stage
<1>5. /\ IInv /\ B /\ [Next]_vars => B' \/ Pulls(w)'
      /\ IInv /\ B /\ [Next]_vars /\ <<Loop(w)>>_vars => Pulls(w)'
  BY <1>3, LoopAdvances DEF At, Stage
<1>6. Spec /\ Running(w) /\ []NothingBlocks => (AtWork(w, 0) ~> Pulls(w))
  <2> HIDE DEF L, D, B
  <2> QED
    BY <1>1, <1>2, <1>4, <1>5, Inductive, PTL DEF Spec, Running
<1> QED
  BY <1>6 DEF Finishes

(* The loop polls again and again: its batches have at most ten messages   *)
(* (batchSize of loop), and each takes it at most three calls.             *)
Returns(w) == []<>Pulls(w)
LEMMA LoopReturns ==
  ASSUME IsFiniteSet(Msg), BatchSize <= 10, NEW w \in Worker
  PROVE  Spec /\ Running(w) /\ []NothingBlocks => Returns(w)
<1>1. IInv /\ Batches => AtWork(w, 10) \/ Pulls(w)
  <2> SUFFICES ASSUME IInv, Batches PROVE AtWork(w, 10) \/ Pulls(w)
    OBVIOUS
  <2>1. Cardinality(todo[w]) <= 10
    BY TodoCounts, QueueAssumption DEF IInv, Batches
  <2> QED
    BY <2>1 DEF AtWork, Pulls
<1>2. Spec /\ Running(w) /\ []NothingBlocks =>
        /\ Less(w, 10, 9) /\ Less(w, 9, 8) /\ Less(w, 8, 7) /\ Less(w, 7, 6) /\ Less(w, 6, 5)
        /\ Less(w, 5, 4) /\ Less(w, 4, 3) /\ Less(w, 3, 2) /\ Less(w, 2, 1) /\ Less(w, 1, 0)
        /\ Finishes(w)
  BY OneLess, NoneLeft
<1> QED
  BY <1>1, <1>2, Inductive, BatchesAreSmall, PTL DEF Less, Finishes, Returns

----------------------------------------------------------------------------
(* A message that a loop has in its batch is carried out.                  *)
Has(w, m, k, n) == m \in todo[w] /\ Waiting(m, k, n)
HeldEnds(w, m, k, n) == Has(w, m, k, n) ~> Over(k, n)

(* A message waits until its object is gone or a fault happens; one in a   *)
(* batch is turned to before the loop polls again.                         *)
LEMMA WaitingStays ==
  ASSUME IInv, [Next]_vars, NEW m \in Msg, NEW k \in Key, NEW n \in Nat, Waiting(m, k, n)
  PROVE  Waiting(m, k, n)' \/ Over(k, n)'
<1>1. (faults >= n)'
  BY FaultsCount DEF Waiting, IInv, TypeOK
<1>2. ASSUME k \in objects' PROVE m \in queued' /\ k \in body'[m]
  BY <1>2, StaysQueued DEF Waiting
<1> QED
  BY <1>1, <1>2 DEF Waiting, Over

LEMMA HeldIsTaken ==
  ASSUME IInv, [Next]_vars, NEW w \in Worker, NEW m \in Msg, NEW k \in Key, NEW n \in Nat,
         Has(w, m, k, n)
  PROVE  \/ Has(w, m, k, n)'
         \/ (stage[w] \in Stage /\ cur[w] = m /\ k \in body[m] /\ faults >= n)'
         \/ Over(k, n)'
<1>1. Waiting(m, k, n)' \/ Over(k, n)'
  BY WaitingStays DEF Has
<1>2. CASE todo'[w] = todo[w]
  BY <1>1, <1>2 DEF Has
<1>3. CASE Loop(w) /\ ~Begin(w)
  <2>1. stage[w] # "pull" /\ todo[w] # {}
    BY DEF Has, IInv, LoopShape
  <2>2. todo'[w] = todo[w]
    BY <1>3, <2>1
    DEF Loop, PullBatch, Pull, PollEmpty, List, DeleteObjects, Ack, SettleBatch, Settle
  <2> QED
    BY <1>2, <2>2
<1>4. CASE Begin(w)
  <2>1. PICK d \in todo[w] : /\ todo' = [todo EXCEPT ![w] = @ \ {d}]
                             /\ cur' = [cur EXCEPT ![w] = d]
                             /\ stage'[w] \in Stage
    BY <1>4 DEF Begin, Take, IInv, TypeOK, QueueTypeOK, Stage
  <2>2. todo'[w] = todo[w] \ {d} /\ cur'[w] = d
    BY <2>1 DEF IInv, TypeOK, QueueTypeOK
  <2> QED
    BY <1>1, <2>1, <2>2 DEF Has, Waiting
<1>5. CASE ProcessFails(w) \/ Crash(w)
  <2>1. faults' = faults + 1
    BY <1>5 DEF ProcessFails, Crash, Fault
  <2> QED
    BY <2>1 DEF Has, Waiting, Over, IInv, TypeOK
<1> QED
  BY <1>2, <1>3, <1>4, <1>5, OthersLeaveIt

(* A loop that has the message in its batch gets to it before it polls.    *)
LEMMA HeldIsDone ==
  ASSUME IsFiniteSet(Msg), BatchSize <= 10,
         NEW w \in Worker, NEW m \in Msg, NEW k \in Key, NEW n \in Nat
  PROVE  Spec /\ Running(w) /\ []NothingBlocks => HeldEnds(w, m, k, n)
<1> DEFINE T == stage[w] \in Stage /\ cur[w] = m /\ k \in body[m] /\ faults >= n
<1>1. IInv /\ Pulls(w) => ~Has(w, m, k, n)
  BY DEF Pulls, Has, IInv, LoopShape
<1>2. IInv /\ Has(w, m, k, n) /\ [Next]_vars => Has(w, m, k, n)' \/ T' \/ Over(k, n)'
  BY HeldIsTaken
<1>3. Spec /\ Running(w) /\ []NothingBlocks => TakenEnds(w, m, k, n) /\ Returns(w)
  BY TakenIsDone, LoopReturns
<1>4. TakenEnds(w, m, k, n) => (T ~> Over(k, n))
  BY PTL DEF TakenEnds
<1> HIDE DEF T
<1> QED
  BY <1>1, <1>2, <1>3, <1>4, Inductive, PTL DEF Spec, Returns, HeldEnds

----------------------------------------------------------------------------
(* Every message that waits is delivered, and then carried out.            *)
SomeoneHas(m, k, n) == \E w \in Worker : Has(w, m, k, n)

(* A delivery puts the message in somebody's batch; without one it stays   *)
(* without a lease.                                                        *)
LEMMA DeliveredOrWaits ==
  ASSUME IInv, [Next]_vars, NEW m \in Msg, NEW k \in Key, NEW n \in Nat, Waiting(m, k, n)
  PROVE  /\ Deliver(m) => SomeoneHas(m, k, n)' \/ Over(k, n)'
         /\ ~Deliver(m) /\ lease[m] = NoWorker => lease'[m] = NoWorker
<1>1. Deliver(m) => SomeoneHas(m, k, n)' \/ Over(k, n)'
  BY WaitingStays DEF Deliver, SomeoneHas, Has
<1>2. ASSUME ~Deliver(m), lease[m] = NoWorker PROVE lease'[m] = NoWorker
  <2>1. CASE \E w \in Worker : PullBatch(w)
    <3>1. PICK w \in Worker : PullBatch(w)
      BY <2>1
    <3>2. m \notin todo'[w]
      BY <1>2, <3>1 DEF Deliver
    <3> QED
      BY <1>2, <3>1, <3>2 DEF PullBatch, Pull, PollEmpty, queueVars, IInv, TypeOK, QueueTypeOK
  <2>2. CASE \E w \in Worker : SettleBatch(w)
    BY <1>2, <2>2 DEF SettleBatch, Settle
  <2>3. CASE \E d \in Msg : Expire(d)
    BY <1>2, <2>3 DEF Expire, LeaseExpires, IInv, TypeOK, QueueTypeOK
  <2>4. CASE UNCHANGED lease
    BY <1>2, <2>4
  <2> QED
    BY <2>1, <2>2, <2>3, <2>4
    DEF Next, Request, Loop, vars, queueVars, CreateChapter, BeginRegister, BeginDeleteChapters,
        BeginDeletePage, Collect, Clear, Insert, ReadPages, DropPages, DropChapter, DropPage,
        DropMediaPages, DropMediaChapters, DropMedia, SendPlain, SendPrefix, Enqueue, Push, Fail,
        Begin, Take, List, Ack, DeleteObjects, ProcessFails, Retry, Crash, Abandon
<1> QED
  BY <1>1, <1>2

(* Whatever was scheduled is deleted, unless a call fails or a process     *)
(* dies after; then it is still scheduled (JobsAreKept).  For batches of   *)
(* at most ten (batchSize of cleanup.go loop), any finite number of        *)
(* messages and any number of loops, keys and requests.                    *)
GoneUnlessFault(m, k, n) ==
  (m \in queued /\ k \in body[m] /\ faults = n) ~> (k \notin objects \/ faults > n)

THEOREM ScheduledComesToItsEnd ==
  ASSUME IsFiniteSet(Msg), BatchSize <= 10, Worker # {}
  PROVE  FairSpec /\ []NothingBlocks =>
           \A m \in Msg, k \in Key, n \in Nat : GoneUnlessFault(m, k, n)
<1>1. ASSUME NEW m \in Msg, NEW k \in Key, NEW n \in Nat
      PROVE  FairSpec /\ []NothingBlocks => GoneUnlessFault(m, k, n)
  <2> DEFINE Never == []~Over(k, n)
  <2>1. ASSUME NEW w \in Worker
        PROVE  Spec /\ Running(w) /\ []NothingBlocks => [](Never => ~Has(w, m, k, n))
    <3>1. Spec /\ Running(w) /\ []NothingBlocks => HeldEnds(w, m, k, n)
      BY HeldIsDone
    <3> QED
      BY <3>1, PTL DEF HeldEnds
  <2>2. FairSpec /\ []NothingBlocks => \A w \in Worker : [](Never => ~Has(w, m, k, n))
    BY <2>1 DEF FairSpec
  <2>3. (\A w \in Worker : [](Never => ~Has(w, m, k, n)))
          => [](\A w \in Worker : Never => ~Has(w, m, k, n))
    OBVIOUS
  <2>4. (\A w \in Worker : Never => ~Has(w, m, k, n)) => (Never => ~SomeoneHas(m, k, n))
    BY DEF SomeoneHas
  <2>5. PICK w0 \in Worker : TRUE
    OBVIOUS
  <2>6. FairSpec /\ []NothingBlocks => Spec /\ Served(m) /\ Returns(w0)
    BY LoopReturns DEF FairSpec
  <2>7. /\ (m \in queued /\ k \in body[m] /\ faults = n) => Waiting(m, k, n)
        /\ Over(k, n) => k \notin objects \/ faults > n
    BY DEF Waiting, Over
  <2>8. IInv /\ Waiting(m, k, n) /\ [Next]_vars =>
          /\ Waiting(m, k, n)' \/ Over(k, n)'
          /\ Deliver(m) => SomeoneHas(m, k, n)' \/ Over(k, n)'
          /\ ~Deliver(m) /\ lease[m] = NoWorker => (lease[m] = NoWorker)'
    BY WaitingStays, DeliveredOrWaits
  <2>9. IInv /\ <<Expire(m)>>_vars => (lease[m] = NoWorker)'
    BY DEF Expire, LeaseExpires, IInv, TypeOK, QueueTypeOK
  <2>10. NothingBlocks =>
           /\ ~(lease[m] = NoWorker) => ENABLED <<Expire(m)>>_vars
           /\ Waiting(m, k, n) /\ lease[m] = NoWorker /\ Pulls(w0) => ENABLED <<Deliver(m)>>_vars
    BY DEF NothingBlocks, Waiting, Available, Pulls
  <2> QED
    BY <2>2, <2>3, <2>4, <2>6, <2>7, <2>8, <2>9, <2>10, Inductive, PTL
    DEF Spec, Served, Returns, GoneUnlessFault
<1> QED
  BY <1>1
=============================================================================
