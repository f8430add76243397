---------------------------- MODULE PageCleanup ----------------------------
(***************************************************************************)
(* Page rows, the R2 objects they name, and the cleanup that deletes       *)
(* objects once their rows are gone: RegisterPages / ReplacePages          *)
(* (convert, video and novel services, job_repo.go), DeleteChapters,       *)
(* DeleteChapterPage and DeleteMedia (media_service.go, media_repo.go),    *)
(* and the worker of internal/cleanup on a PullConsumer queue.             *)
(*                                                                         *)
(* One action is one D1 statement, queue call or R2 call.  An object is    *)
(* uploaded under a fresh name before anything refers to it and never      *)
(* uploaded again; a key in Bundle stands for a video bundle, which is     *)
(* deleted by listing its prefix.  The chapters of the model belong to one *)
(* media entry at a time; covers and taxonomy links are left out.  Whether *)
(* D1 enforces the foreign keys of the schema is a parameter: migration    *)
(* 0006 says it does not, and the code is written for either.              *)
(***************************************************************************)
EXTENDS PullConsumer

CONSTANTS
  Chapter, Key, Bundle, Idx,
  Proc,        \* concurrent requests
  ForeignKeys, \* page.chapter_id REFERENCES chapter ON DELETE CASCADE holds
  NoChapter,
  MaxRequests, \* bound: requests begun
  MaxFaults    \* bound: failed calls and crashes

ASSUME KeysAssumption == Bundle \subseteq Key /\ NoChapter \notin Chapter
ASSUME ForeignKeysAssumption == ForeignKeys \in BOOLEAN
ASSUME BoundsAssumption == MaxRequests \in Nat /\ MaxFaults \in Nat

VARIABLES
  chapters,    \* ids that have a row in chapter
  created,     \* history: ids ever inserted
  rows,        \* table page: <<idx, key>> pairs of each chapter
  objects,     \* keys that are in R2
  body,        \* a message's keys
  pc, ch, chs, \* a request: place, current chapter, chapters still to delete,
  snap, got,   \*   keys read of the current one, keys to schedule,
  pend,        \*   page rows still to insert or the one to delete
  doubled,     \* history: keys inserted where they were still in use or
               \*   already due for deletion
  unseen,      \* history: keys inserted while a deletion was under way
  dropped,     \* history: keys whose row a deletion removed
  begun, faults

pageVars == <<chapters, created, rows, objects>>
history == <<doubled, unseen, dropped>>
bounds == <<begun, faults>>
reqVars == <<pc, ch, chs, snap, got, pend>>
vars == <<queueVars, pageVars, body, reqVars, history, bounds>>

Deleting == {"read", "dropPages", "dropChapter", "readPage", "dropPage",
             "collect", "dropMediaPages", "dropMediaChapters", "dropMedia"}
PC == {"idle", "clear", "insert", "sendPlain", "sendPrefix"} \union Deleting
Stage == {"list", "delete"}

----------------------------------------------------------------------------
KeysOf(c) == {r[2] : r \in rows[c]}
Referenced(k) == \E c \in Chapter : k \in KeysOf(c)

InMessage(k) == \E m \in Msg : k \in body[m] /\ ~FreeSlot(m)
Scheduled(k) == InMessage(k) \/ \E p \in Proc : k \in got[p]

(* A deletion has, or is about to have, this object removed.               *)
Doomed(k) == k \notin objects \/ Scheduled(k) \/ \E p \in Proc : k \in snap[p]

(* The chapters cs lose their rows; the pages of the chapters ds go too.   *)
Erase(cs, ds) ==
  /\ chapters' = chapters \ cs
  /\ dropped' = dropped \union UNION {KeysOf(c) : c \in ds}
  /\ rows' = [c \in Chapter |-> IF c \in ds THEN {} ELSE rows[c]]
  /\ UNCHANGED <<created, objects, doubled, unseen>>

Cascade(cs) == IF ForeignKeys THEN cs ELSE {}

(* A request arrives; a call fails or somebody dies.                       *)
Admit(p) == /\ pc[p] = "idle" /\ begun < MaxRequests
            /\ begun' = begun + 1 /\ UNCHANGED faults
Fault == faults < MaxFaults /\ faults' = faults + 1 /\ UNCHANGED begun

Goto(p, l) == pc' = [pc EXCEPT ![p] = l]

Done(p) ==
  /\ Goto(p, "idle")
  /\ ch' = [ch EXCEPT ![p] = NoChapter] /\ chs' = [chs EXCEPT ![p] = {}]
  /\ snap' = [snap EXCEPT ![p] = {}] /\ got' = [got EXCEPT ![p] = {}]
  /\ pend' = [pend EXCEPT ![p] = {}]

(* The keys read become keys to schedule once their rows are deleted.      *)
Collected(p) ==
  /\ got' = [got EXCEPT ![p] = @ \union snap[p]]
  /\ snap' = [snap EXCEPT ![p] = {}]

Init ==
  /\ InitQueue
  /\ chapters = {} /\ created = {} /\ rows = [c \in Chapter |-> {}]
  /\ objects = Key /\ body = [m \in Msg |-> {}]
  /\ pc = [p \in Proc |-> "idle"] /\ ch = [p \in Proc |-> NoChapter]
  /\ chs = [p \in Proc |-> {}] /\ snap = [p \in Proc |-> {}]
  /\ got = [p \in Proc |-> {}] /\ pend = [p \in Proc |-> {}]
  /\ doubled = {} /\ unseen = {} /\ dropped = {}
  /\ begun = 0 /\ faults = 0

----------------------------------------------------------------------------
CreateChapter(c) ==
  /\ c \notin created
  /\ chapters' = chapters \union {c} /\ created' = created \union {c}
  /\ UNCHANGED <<queueVars, rows, objects, body, reqVars, history, bounds>>

(* RegisterPages and the single page of Register: whether the chapter      *)
(* still exists is not checked.                                            *)
BeginRegister(p) ==
  /\ Admit(p)
  /\ \E c \in created, is \in (SUBSET Idx) \ {{}} : \E f \in [is -> Key] :
       /\ ch' = [ch EXCEPT ![p] = c]
       /\ pend' = [pend EXCEPT ![p] = {<<i, f[i]>> : i \in is}]
  /\ Goto(p, "clear")
  /\ UNCHANGED <<queueVars, pageVars, body, chs, snap, got, history>>

(* ReplacePages: DELETE all, then INSERT one by one.                       *)
Clear(p) ==
  /\ pc[p] = "clear"
  /\ rows' = [rows EXCEPT ![ch[p]] = {}]
  /\ Goto(p, "insert")
  /\ UNCHANGED <<queueVars, chapters, created, objects, body, ch, chs, snap, got, pend,
                 history, bounds>>

(* The primary key (chapter_id, idx) refuses a row another request put     *)
(* there in between, the foreign key one of a deleted chapter; the first   *)
(* refusal ends the request.                                               *)
RefusedUnkeyed(c, r) == ForeignKeys /\ c \notin chapters  \* mutant
Refused(c, r) ==
  \/ \E s \in rows[c] : s[1] = r[1]
  \/ ForeignKeys /\ c \notin chapters

Insert(p) ==
  /\ pc[p] = "insert"
  /\ \E r \in pend[p] :
       \/ /\ Refused(ch[p], r)
          /\ Done(p)
          /\ UNCHANGED <<rows, history>>
       \/ /\ ~Refused(ch[p], r)
          /\ rows' = [rows EXCEPT ![ch[p]] = @ \union {r}]
          /\ doubled' = IF Referenced(r[2]) \/ Doomed(r[2])
                          THEN doubled \union {r[2]} ELSE doubled
          /\ unseen' = IF \E q \in Proc : pc[q] \in Deleting
                         THEN unseen \union {r[2]} ELSE unseen
          /\ UNCHANGED dropped
          /\ IF pend[p] = {r} THEN Done(p)
             ELSE /\ pend' = [pend EXCEPT ![p] = @ \ {r}]
                  /\ UNCHANGED <<pc, ch, chs, snap, got>>
  /\ UNCHANGED <<queueVars, chapters, created, objects, body, bounds>>

----------------------------------------------------------------------------
(* DeleteChapters, of one chapter or of several.                           *)
BeginDeleteChapters(p) ==
  /\ Admit(p)
  /\ \E cs \in (SUBSET created) \ {{}} : \E c \in cs :
       /\ ch' = [ch EXCEPT ![p] = c]
       /\ chs' = [chs EXCEPT ![p] = cs \ {c}]
  /\ Goto(p, "read")
  /\ UNCHANGED <<queueVars, pageVars, body, snap, got, pend, history>>

ReadPages(p) ==
  /\ pc[p] = "read"
  /\ snap' = [snap EXCEPT ![p] = KeysOf(ch[p])]
  /\ Goto(p, "dropPages")
  /\ UNCHANGED <<queueVars, pageVars, body, ch, chs, got, pend, history, bounds>>

DropPages(p) ==
  /\ pc[p] = "dropPages"
  /\ Erase({}, {ch[p]})
  /\ Goto(p, "dropChapter")
  /\ UNCHANGED <<queueVars, body, ch, chs, snap, got, pend, bounds>>

DropChapter(p) ==
  /\ pc[p] = "dropChapter"
  /\ Erase({ch[p]}, Cascade({ch[p]}))
  /\ Collected(p)
  /\ \/ chs[p] = {} /\ Goto(p, "sendPlain") /\ UNCHANGED <<ch, chs>>
     \/ \E c \in chs[p] :
          /\ ch' = [ch EXCEPT ![p] = c] /\ chs' = [chs EXCEPT ![p] = @ \ {c}]
          /\ Goto(p, "read")
  /\ UNCHANGED <<queueVars, body, pend, bounds>>

(* DeleteChapterPage reads the key at an index, then deletes by index.     *)
BeginDeletePage(p) ==
  /\ Admit(p)
  /\ \E c \in created : \E r \in rows[c] :
       /\ ch' = [ch EXCEPT ![p] = c]
       /\ pend' = [pend EXCEPT ![p] = {r}]
       /\ snap' = [snap EXCEPT ![p] = {r[2]}]
  /\ Goto(p, "dropPage")
  /\ UNCHANGED <<queueVars, pageVars, body, chs, got, history>>

DropPage(p) ==
  /\ pc[p] = "dropPage"
  /\ LET hit == {s \in rows[ch[p]] : \E r \in pend[p] : s[1] = r[1]} IN
     /\ rows' = [rows EXCEPT ![ch[p]] = @ \ hit]
     /\ dropped' = dropped \union {s[2] : s \in hit}
  /\ Collected(p)
  /\ Goto(p, "sendPlain")
  /\ UNCHANGED <<queueVars, chapters, created, objects, body, ch, chs, pend,
                 doubled, unseen, bounds>>

(* DeleteMedia: PageKeysForMedia, then the statements of the repository.   *)
Collect(p) ==
  /\ Admit(p)
  /\ snap' = [snap EXCEPT ![p] = UNION {KeysOf(c) : c \in chapters}]
  /\ Goto(p, "dropMediaPages")
  /\ UNCHANGED <<queueVars, pageVars, body, ch, chs, got, pend, history>>

DropMediaPages(p) ==
  /\ pc[p] = "dropMediaPages"
  /\ Erase({}, chapters)
  /\ Goto(p, "dropMediaChapters")
  /\ UNCHANGED <<queueVars, body, ch, chs, snap, got, pend, bounds>>

DropMediaChapters(p) ==
  /\ pc[p] = "dropMediaChapters"
  /\ Erase(chapters, Cascade(chapters))
  /\ Goto(p, "dropMedia")
  /\ UNCHANGED <<queueVars, body, ch, chs, snap, got, pend, bounds>>

(* The link tables and the media row itself.                               *)
DropMedia(p) ==
  /\ pc[p] = "dropMedia"
  /\ Collected(p)
  /\ Goto(p, "sendPlain")
  /\ UNCHANGED <<queueVars, pageVars, body, ch, chs, pend, history, bounds>>

(* enqueueCleanup: the exact keys, then the bundles' prefixes, each in a   *)
(* message of its own and only if there are any.                           *)
Enqueue(p, ks) ==
  \/ ks = {} /\ UNCHANGED <<queueVars, body>>
  \/ \E m \in Msg : /\ ks # {} /\ FreeSlot(m) /\ Push(m)
                    /\ body' = [body EXCEPT ![m] = ks]

SendPlainOnly(p) ==  \* mutant: the prefixes are forgotten
  /\ pc[p] = "sendPlain"
  /\ Enqueue(p, got[p] \ Bundle)
  /\ got' = [got EXCEPT ![p] = {}]
  /\ Goto(p, "sendPrefix")
  /\ UNCHANGED <<pageVars, ch, chs, snap, pend, history, bounds>>
SendPlain(p) ==
  /\ pc[p] = "sendPlain"
  /\ Enqueue(p, got[p] \ Bundle)
  /\ got' = [got EXCEPT ![p] = @ \intersect Bundle]
  /\ Goto(p, "sendPrefix")
  /\ UNCHANGED <<pageVars, ch, chs, snap, pend, history, bounds>>

SendPrefix(p) ==
  /\ pc[p] = "sendPrefix"
  /\ Enqueue(p, got[p])
  /\ Done(p)
  /\ UNCHANGED <<pageVars, history, bounds>>

FailGoesOn(p) ==  \* mutant: a failed DELETE does not end DeleteChapters
  /\ pc[p] # "idle" /\ Fault
  /\ \/ Done(p)
     \/ /\ pc[p] = "dropPages"
        /\ Collected(p)
        /\ Goto(p, "sendPlain") /\ UNCHANGED <<ch, chs, pend>>
  /\ UNCHANGED <<queueVars, pageVars, body, history>>
(* A call of a request fails or its process dies there.  A failed enqueue  *)
(* is ignored: those keys are not scheduled and the request goes on.       *)
Fail(p) ==
  /\ pc[p] # "idle" /\ Fault
  /\ \/ Done(p)
     \/ /\ pc[p] = "sendPlain"
        /\ got' = [got EXCEPT ![p] = @ \intersect Bundle]
        /\ Goto(p, "sendPrefix") /\ UNCHANGED <<ch, chs, snap, pend>>
  /\ UNCHANGED <<queueVars, pageVars, body, history>>

----------------------------------------------------------------------------
(* The worker's process: a job of prefixes is listed first.                *)
Begin(w) ==
  /\ \E m \in Msg : Take(w, m, IF body[m] \subseteq Bundle THEN "list" ELSE "delete")
  /\ UNCHANGED <<pageVars, body, reqVars, history, bounds>>

ListExact(w) ==  \* mutant: a prefix is taken for a key
  /\ stage[w] = "list" /\ Ack(w)
  /\ UNCHANGED <<pageVars, body, reqVars, history, bounds>>
(* An empty listing leaves nothing to delete and acknowledges at once.     *)
List(w) ==
  /\ stage[w] = "list"
  /\ IF body[cur[w]] \intersect objects = {} THEN Ack(w)
     ELSE /\ stage' = [stage EXCEPT ![w] = "delete"]
          /\ UNCHANGED <<queued, lease, todo, acks, retries, cur>>
  /\ UNCHANGED <<pageVars, body, reqVars, history, bounds>>

DeleteObjects(w) ==
  /\ stage[w] = "delete"
  /\ objects' = objects \ body[cur[w]]
  /\ Ack(w)
  /\ UNCHANGED <<chapters, created, rows, body, reqVars, history, bounds>>

ProcessFailsAcked(w) ==  \* mutant: a failure is acknowledged
  /\ stage[w] \in Stage /\ Fault
  /\ \E ks \in SUBSET body[cur[w]] :
       /\ stage[w] = "list" => ks = {}
       /\ objects' = objects \ ks
  /\ Ack(w)
  /\ UNCHANGED <<chapters, created, rows, body, reqVars, history>>
(* A listing or some of a deletion's keys fail: the message is retried.    *)
ProcessFails(w) ==
  /\ stage[w] \in Stage /\ Fault
  /\ \E ks \in SUBSET body[cur[w]] :
       /\ stage[w] = "list" => ks = {}
       /\ objects' = objects \ ks
  /\ Retry(w)
  /\ UNCHANGED <<chapters, created, rows, body, reqVars, history>>

(* A slot that no message occupies any more is blank.                      *)
BlankFree == body' = [m \in Msg |-> IF FreeSlot(m)' THEN {} ELSE body[m]]

PullBatch(w) == /\ Pull(w) \/ PollEmpty(w)
                /\ UNCHANGED <<pageVars, body, reqVars, history, bounds>>
SettleBatch(w) == Settle(w) /\ BlankFree /\ UNCHANGED <<pageVars, reqVars, history, bounds>>
Expire(m) == LeaseExpires(m) /\ UNCHANGED <<pageVars, body, reqVars, history, bounds>>

Crash(w) ==
  /\ Fault
  /\ Abandon(w)
  /\ BlankFree
  /\ UNCHANGED <<pageVars, reqVars, history>>

Request(p) ==
  \/ Clear(p) \/ Insert(p) \/ ReadPages(p) \/ DropPages(p) \/ DropChapter(p)
  \/ DropPage(p) \/ DropMediaPages(p) \/ DropMediaChapters(p) \/ DropMedia(p)
  \/ SendPlain(p) \/ SendPrefix(p)

Loop(w) == PullBatch(w) \/ Begin(w) \/ List(w) \/ DeleteObjects(w) \/ SettleBatch(w)

Next ==
  \/ \E c \in Chapter : CreateChapter(c)
  \/ \E p \in Proc :
       \/ BeginRegister(p) \/ BeginDeleteChapters(p) \/ BeginDeletePage(p) \/ Collect(p)
       \/ Request(p) \/ Fail(p)
  \/ \E w \in Worker : Loop(w) \/ ProcessFails(w) \/ Crash(w)
  \/ \E m \in Msg : Expire(m)

Spec == Init /\ [][Next]_vars

Deliver(m) == \E w \in Worker : PullBatch(w) /\ m \in todo'[w]

(* The pull loops run for as long as the process does, leases expire by    *)
(* the clock, and the queue does not pass over a message for ever.         *)
Running(w) == WF_vars(Loop(w))
Served(m) == WF_vars(Expire(m)) /\ SF_vars(Deliver(m))
FairSpec == Spec /\ (\A w \in Worker : Running(w)) /\ \A m \in Msg : Served(m)

(* No loop waits for another: with a batch it can make its next call, one  *)
(* that polls can be given any message without a lease, and every lease    *)
(* can run out.                                                            *)
NothingBlocks ==
  /\ \A w \in Worker : stage[w] # "pull" => ENABLED <<Loop(w)>>_vars
  /\ \A m \in Available :
       (\E w \in Worker : stage[w] = "pull") => ENABLED <<Deliver(m)>>_vars
  /\ \A m \in Msg : lease[m] # NoWorker => ENABLED <<Expire(m)>>_vars

----------------------------------------------------------------------------
TypeOK ==
  /\ QueueTypeOK(Stage)
  /\ chapters \subseteq created /\ created \subseteq Chapter
  /\ rows \in [Chapter -> SUBSET (Idx \X Key)]
  /\ \A c \in Chapter : \A r, s \in rows[c] : r[1] = s[1] => r = s
  /\ objects \subseteq Key /\ body \in [Msg -> SUBSET Key]
  /\ pc \in [Proc -> PC] /\ ch \in [Proc -> Chapter \union {NoChapter}]
  /\ chs \in [Proc -> SUBSET Chapter]
  /\ snap \in [Proc -> SUBSET Key] /\ got \in [Proc -> SUBSET Key]
  /\ pend \in [Proc -> SUBSET (Idx \X Key)]
  /\ doubled \subseteq Key /\ unseen \subseteq Key /\ dropped \subseteq Key
  /\ begun \in Nat /\ faults \in Nat

(* Cleanup never takes the object of a page of an existing chapter,        *)
(* however deletions fail half-way, messages come twice and loops overlap, *)
(* unless a client registered the key again while it was in use or due to  *)
(* go.  (A page registered for a chapter that is being deleted can stay    *)
(* behind without its object.)                                             *)
LivePagesKeepObjects ==
  \A c \in chapters : KeysOf(c) \subseteq objects \union doubled

(* Without a fault, what a deletion removed from the pages is scheduled    *)
(* until it is gone, but for rows inserted while a deletion was running.   *)
(* (Objects of pages that a registration replaces are scheduled by nobody.)*)
NothingLeaks ==
  faults = 0 => \A k \in dropped \ unseen :
    k \notin objects \/ Scheduled(k) \/ \E p \in Proc : k \in snap[p]

(* A message leaves the queue only when all of its objects are gone.       *)
AckedMeansDeleted ==
  [][\A m \in queued \ queued' : body[m] \intersect objects' = {}]_vars

(* Whatever was scheduled is deleted in the end.                           *)
ScheduledIsDeleted ==
  \A m \in Msg, k \in Key : (m \in queued /\ k \in body[m]) ~> k \notin objects

(* The parts of the inductive invariant that the proofs use: what a        *)
(* request holds at each place, and that a chapter starts without pages;   *)
RequestShape ==
  /\ \A p \in Proc :
       /\ pc[p] \notin Deleting \ {"read"} => snap[p] = {}
       /\ pc[p] \in {"idle", "clear", "insert"} => got[p] = {}
       /\ pc[p] \in {"clear", "insert", "read", "dropPages", "dropChapter", "dropPage"}
            => ch[p] \in created
       /\ pc[p] = "dropPage" => \E r \in Idx \X Key : pend[p] = {r} /\ snap[p] = {r[2]}
       /\ chs[p] \subseteq created
  /\ \A c \in Chapter \ created : rows[c] = {}

(* what a loop holds, and that what it settled is deleted;                 *)
LoopShape ==
  \A w \in Worker :
    /\ stage[w] \in Stage => cur[w] \in Msg
    /\ stage[w] \notin Stage => cur[w] = NoMsg
    /\ stage[w] = "pull" => todo[w] = {} /\ acks[w] = {} /\ retries[w] = {}
    /\ \A m \in acks[w] \union (Held(w) \ queued) : body[m] \intersect objects = {}

(* a key that was never registered twice is in one place;                  *)
OnePlace ==
  \A c, d \in Chapter : \A r \in rows[c], s \in rows[d] :
    r[2] = s[2] /\ r[2] \notin doubled => c = d /\ r = s

(* a scheduled or deleted key has left the existing chapters,              *)
ScheduledLeft ==
  \A k \in Key \ doubled : k \notin objects \/ Scheduled(k)
    => \A c \in chapters : k \notin KeysOf(c)

(* one that was read is only where the request is about to delete,         *)
ReadIsLeaving ==
  \A p \in Proc : \A k \in snap[p] \ doubled : \A c \in chapters : \A r \in rows[c] :
    r[2] = k => \/ pc[p] = "dropPages" /\ c = ch[p]
                \/ pc[p] = "dropPage" /\ c = ch[p] /\ r \in pend[p]
                \/ pc[p] = "dropMediaPages"

(* and what is about to be deleted was read, or came too late for that.    *)
LeavingWasRead ==
  \A p \in Proc :
    /\ pc[p] = "dropPages" => KeysOf(ch[p]) \subseteq snap[p] \union unseen
    /\ pc[p] = "dropChapter" => KeysOf(ch[p]) \subseteq unseen
    /\ pc[p] = "dropPage" => \A r \in pend[p], s \in rows[ch[p]] :
         s[1] = r[1] => s[2] \in snap[p] \union unseen
    /\ pc[p] = "dropMediaPages" =>
         \A c \in chapters : KeysOf(c) \subseteq snap[p] \union unseen
    /\ pc[p] = "dropMediaChapters" => \A c \in chapters : KeysOf(c) \subseteq unseen

IInv ==
  /\ TypeOK /\ RequestShape /\ LoopShape /\ OnePlace /\ ScheduledLeft /\ ReadIsLeaving
  /\ LeavingWasRead /\ NothingLeaks
=============================================================================
