---------------------------- MODULE CoverMirror ----------------------------
(***************************************************************************)
(* The cover of a media entry and its copy in R2: CreateMedia, UpdateMedia *)
(* and DeleteMedia (media_service.go, media_repo.go) as far as they touch  *)
(* the cover, and the worker of internal/covermirror on a PullConsumer     *)
(* queue.  One action is one D1 statement, queue call, download or R2      *)
(* call.                                                                   *)
(*                                                                         *)
(* A picture is the external URL it comes from.  The copy of an entry's    *)
(* cover has one fixed key, and cover_url holds an external URL, that key, *)
(* or nothing; clients are shown a presigned URL instead of the key and    *)
(* send it back when they edit something else.  The cleanup queue is a set *)
(* here; PageCleanup has its protocol.                                     *)
(***************************************************************************)
EXTENDS PullConsumer

CONSTANTS
  Media, Proc,         \* entries; concurrent requests
  Url, Image,          \* external URLs; those that decode as an image
  NoCover, Key, Signed, NoRow, NoJob, NoMedia,
  MaxRequests,         \* bound: requests begun
  MaxFaults            \* bound: failed calls and crashes

ASSUME ImageAssumption == Image \subseteq Url
ASSUME NullAssumption ==
  /\ Url \intersect {NoCover, Key, Signed, NoRow} = {}
  /\ NoRow \notin {NoCover, Key, Signed} /\ Key \notin {NoCover, Signed}
  /\ NoCover # Signed /\ NoMedia \notin Media
  /\ NoJob \notin [media : Media, url : Url \union {Signed}]
ASSUME BoundsAssumption == MaxRequests \in Nat /\ MaxFaults \in Nat

VARIABLES
  cover,         \* media.cover_url by id, NoRow without a row
  made,          \* history: ids ever inserted
  content,       \* the picture in covers/<id>.avif
  due,           \* entries whose copy the cleanup is to delete
  job,           \* a message's CoverMirrorJob
  pic,           \* a loop: the encoded picture
  req,           \* a request: place, entry, submitted cover, cover it read
  wanted,        \* history: the picture last asked for; Signed for any
  shown,         \* history: entries whose copy was shown under a presigned URL
  mixed,         \* history: entries edited while an edit or job was under way
  late, unnamed, \* history: entries deleted while an edit or job was under
                 \*   way; when cover_url did not name the copy
  begun, faults

mediaVars == <<cover, made, content>>
history == <<wanted, shown, mixed, late, unnamed>>
bounds == <<begun, faults>>
vars == <<queueVars, mediaVars, due, job, pic, req, history, bounds>>

Job == [media : Media, url : Url \union {Signed}]
Stage == {"fetch", "put", "set"}
Submitted == Url \union {NoCover, Signed}
Request == [pc : {"idle", "write", "enqueue", "delete", "clean"}, media : Media \union {NoMedia},
            new : Submitted \union {Key}, cur : Submitted \union {Key, NoRow}]
Idle == [pc |-> "idle", media |-> NoMedia, new |-> NoCover, cur |-> NoCover]

At(p, l) == req[p].pc = l
Done(p) == req' = [req EXCEPT ![p] = Idle]
Goto(p, l) == req' = [req EXCEPT ![p].pc = l]

Admit(p) == /\ At(p, "idle") /\ begun < MaxRequests
            /\ begun' = begun + 1 /\ UNCHANGED faults
Fault == faults < MaxFaults /\ faults' = faults + 1 /\ UNCHANGED begun

(* Something that will still write the copy or the cover of entry e.       *)
Mirroring(e) == \E m \in Msg : job[m] # NoJob /\ job[m].media = e
Editing(e, p) == \E q \in Proc \ {p} : req[q].pc \in {"write", "enqueue"} /\ req[q].media = e

Init ==
  /\ InitQueue
  /\ cover = [e \in Media |-> NoRow] /\ made = {} /\ content = [e \in Media |-> NoCover]
  /\ due = {} /\ job = [m \in Msg |-> NoJob] /\ pic = [w \in Worker |-> NoCover]
  /\ req = [p \in Proc |-> Idle]
  /\ wanted = [e \in Media |-> NoCover] /\ shown = {} /\ mixed = {} /\ late = {} /\ unnamed = {}
  /\ begun = 0 /\ faults = 0

----------------------------------------------------------------------------
(* CreateMedia: the row with the cover as submitted.                       *)
Create(p) ==
  /\ Admit(p)
  /\ \E e \in Media \ made, u \in Url \union {NoCover} :
       /\ made' = made \union {e} /\ cover' = [cover EXCEPT ![e] = u]
       /\ wanted' = [wanted EXCEPT ![e] = u]
       /\ req' = [req EXCEPT ![p] = [pc |-> "enqueue", media |-> e, new |-> u, cur |-> NoRow]]
  /\ UNCHANGED <<queueVars, content, due, job, pic, shown, mixed, late, unnamed>>

(* UpdateMedia reads the row.  A client sends a URL of its own, none, or   *)
(* the presigned URL it was shown; that it sends the key of a copy, which  *)
(* nothing refuses and no answer ever shows it, is left out.               *)
BeginUpdate(p) ==
  /\ Admit(p)
  /\ \E e \in Media, u \in Submitted :
       /\ cover[e] # NoRow /\ (u = Signed => e \in shown)
       /\ req' = [req EXCEPT ![p] = [pc |-> "write", media |-> e, new |-> u, cur |-> cover[e]]]
  /\ UNCHANGED <<queueVars, mediaVars, due, job, pic, history>>

(* The presigned URL of the copy stands for the copy, if the row that was  *)
(* read names it.                                                          *)
KeptAlways(p) == IF req[p].cur = Key THEN Key ELSE req[p].new  \* mutant
Kept(p) == IF req[p].cur = Key /\ req[p].new = Signed THEN Key ELSE req[p].new

(* The UPDATE finds the row or not.  Linking names to an entry that is     *)
(* gone ends the request only where foreign keys are enforced.             *)
Write(p) ==
  LET e == req[p].media  u == Kept(p) IN
  /\ At(p, "write")
  /\ IF cover[e] = NoRow
     THEN /\ Done(p) \/ req' = [req EXCEPT ![p].pc = "enqueue", ![p].new = u]
          /\ UNCHANGED <<cover, history>>
     ELSE /\ cover' = [cover EXCEPT ![e] = u]
          /\ wanted' = IF req[p].new = Signed /\ u = Key THEN wanted
                       ELSE [wanted EXCEPT ![e] = req[p].new]
          /\ mixed' = IF Mirroring(e) \/ Editing(e, p) THEN mixed \union {e} ELSE mixed
          /\ req' = [req EXCEPT ![p].pc = "enqueue", ![p].new = u]
          /\ UNCHANGED <<shown, late, unnamed>>
  /\ UNCHANGED <<queueVars, made, content, due, job, pic, bounds>>

(* enqueueCoverMirror: anything with a scheme is to be mirrored.           *)
Enqueue(p) ==
  /\ At(p, "enqueue")
  /\ IF req[p].new \in {NoCover, Key}
     THEN UNCHANGED <<queueVars, job>>
     ELSE \E m \in Msg :
            /\ FreeSlot(m) /\ Push(m)
            /\ job' = [job EXCEPT ![m] = [media |-> req[p].media, url |-> req[p].new]]
  /\ Done(p)
  /\ UNCHANGED <<mediaVars, due, pic, history, bounds>>

----------------------------------------------------------------------------
(* DeleteMedia: read the cover, delete the row, schedule the copy that the *)
(* cover named.                                                            *)
BeginDelete(p) ==
  /\ Admit(p)
  /\ \E e \in made :
       req' = [req EXCEPT ![p] = [pc |-> "delete", media |-> e, new |-> NoCover, cur |-> cover[e]]]
  /\ UNCHANGED <<queueVars, mediaVars, due, job, pic, history>>

DeleteForgets(p) ==  \* mutant: the cover is taken for external
  LET e == req[p].media IN
  /\ At(p, "delete")
  /\ cover' = [cover EXCEPT ![e] = NoRow]
  /\ late' = IF Mirroring(e) \/ Editing(e, p) THEN late \union {e} ELSE late
  /\ unnamed' = IF req[p].cur # Key THEN unnamed \union {e} ELSE unnamed
  /\ Done(p)
  /\ UNCHANGED <<queueVars, made, content, due, job, pic, wanted, shown, mixed, bounds>>

DeleteRow(p) ==
  LET e == req[p].media IN
  /\ At(p, "delete")
  /\ cover' = [cover EXCEPT ![e] = NoRow]
  /\ late' = IF Mirroring(e) \/ Editing(e, p) THEN late \union {e} ELSE late
  /\ unnamed' = IF req[p].cur # Key THEN unnamed \union {e} ELSE unnamed
  /\ IF req[p].cur = Key THEN Goto(p, "clean") ELSE Done(p)
  /\ UNCHANGED <<queueVars, made, content, due, job, pic, wanted, shown, mixed, bounds>>

EnqueueCleanup(p) ==
  /\ At(p, "clean")
  /\ due' = due \union {req[p].media}
  /\ Done(p)
  /\ UNCHANGED <<queueVars, mediaVars, job, pic, history, bounds>>

(* The cleanup deletes the copy; its message may be delivered again.       *)
Sweep(e) ==
  /\ e \in due /\ due' \in {due, due \ {e}}
  /\ content' = [content EXCEPT ![e] = NoCover]
  /\ UNCHANGED <<queueVars, cover, made, job, pic, req, history, bounds>>

(* A request's call fails or its instance dies; a failed enqueue is        *)
(* ignored by the code, which is the same.                                 *)
Fail(p) ==
  /\ ~At(p, "idle") /\ Fault
  /\ Done(p)
  /\ UNCHANGED <<queueVars, mediaVars, due, job, pic, history>>

----------------------------------------------------------------------------
(* Worker.process, one message after the other.                            *)
Begin(w) ==
  /\ \E m \in todo[w] : Take(w, m, "fetch")
  /\ UNCHANGED <<mediaVars, due, job, pic, req, history, bounds>>

Fetched(w, u) ==
  /\ pic' = [pic EXCEPT ![w] = u]
  /\ stage' = [stage EXCEPT ![w] = "put"]
  /\ UNCHANGED <<queued, lease, todo, acks, retries, cur>>

FetchUndecoded(w) ==  \* mutant: stored as downloaded
  /\ stage[w] = "fetch"
  /\ LET j == job[cur[w]] IN
     \/ j.url \in Url /\ Fetched(w, j.url)
     \/ j.url = Signed /\ content[j.media] # NoCover /\ Fetched(w, content[j.media])
     \/ j.url = Signed /\ Retry(w) /\ UNCHANGED pic
  /\ UNCHANGED <<mediaVars, due, job, req, history, bounds>>

(* What is no image is dropped.  A presigned URL leads to the copy, while  *)
(* there is one and the URL has not expired.                               *)
Fetch(w) ==
  /\ stage[w] = "fetch"
  /\ LET j == job[cur[w]] IN
     \/ j.url \in Image /\ Fetched(w, j.url)
     \/ j.url \in Url \ Image /\ Ack(w) /\ UNCHANGED pic
     \/ j.url = Signed /\ content[j.media] # NoCover /\ Fetched(w, content[j.media])
     \/ j.url = Signed /\ Retry(w) /\ UNCHANGED pic
  /\ UNCHANGED <<mediaVars, due, job, req, history, bounds>>

PutIgnored(w) ==  \* mutant: the outcome of Put is not looked at
  /\ stage[w] = "put"
  /\ content' \in {content, [content EXCEPT ![job[cur[w]].media] = pic[w]]}
  /\ pic' = [pic EXCEPT ![w] = NoCover]
  /\ stage' = [stage EXCEPT ![w] = "set"]
  /\ UNCHANGED <<queued, lease, todo, acks, retries, cur, cover, made, due, job, req,
                 history, bounds>>

Put(w) ==
  /\ stage[w] = "put"
  /\ content' = [content EXCEPT ![job[cur[w]].media] = pic[w]]
  /\ pic' = [pic EXCEPT ![w] = NoCover]
  /\ stage' = [stage EXCEPT ![w] = "set"]
  /\ UNCHANGED <<queued, lease, todo, acks, retries, cur, cover, made, due, job, req,
                 history, bounds>>

(* SetMediaCover: whatever the row says by now.                            *)
SetMediaCover(w) ==
  LET e == job[cur[w]].media IN
  /\ stage[w] = "set"
  /\ IF cover[e] = NoRow THEN UNCHANGED <<cover, shown>>
     ELSE cover' = [cover EXCEPT ![e] = Key] /\ shown' = shown \union {e}
  /\ Ack(w)
  /\ UNCHANGED <<made, content, due, job, pic, req, wanted, mixed, late, unnamed, bounds>>

(* The download, the upload or the statement fails, an upload perhaps      *)
(* after it was stored.                                                    *)
ProcessFails(w) ==
  /\ stage[w] \in Stage /\ Fault
  /\ content' \in IF stage[w] # "put" THEN {content}
                  ELSE {content, [content EXCEPT ![job[cur[w]].media] = pic[w]]}
  /\ pic' = [pic EXCEPT ![w] = NoCover]
  /\ Retry(w)
  /\ UNCHANGED <<cover, made, due, job, req, history>>

BlankFree == job' = [m \in Msg |-> IF FreeSlot(m)' THEN NoJob ELSE job[m]]

PullBatch(w) == /\ Pull(w) \/ PollEmpty(w)
                /\ UNCHANGED <<mediaVars, due, job, pic, req, history, bounds>>
SettleBatch(w) == Settle(w) /\ BlankFree /\ UNCHANGED <<mediaVars, due, pic, req, history, bounds>>
Expire(m) == LeaseExpires(m) /\ UNCHANGED <<mediaVars, due, job, pic, req, history, bounds>>
Crash(w) ==
  /\ Fault /\ Abandon(w) /\ BlankFree
  /\ pic' = [pic EXCEPT ![w] = NoCover]
  /\ UNCHANGED <<mediaVars, due, req, history>>

----------------------------------------------------------------------------
Loop(w) == PullBatch(w) \/ Begin(w) \/ Fetch(w) \/ Put(w) \/ SetMediaCover(w) \/ SettleBatch(w)

Next ==
  \/ \E p \in Proc :
       \/ Create(p) \/ BeginUpdate(p) \/ Write(p) \/ Enqueue(p)
       \/ BeginDelete(p) \/ DeleteRow(p) \/ EnqueueCleanup(p) \/ Fail(p)
  \/ \E e \in Media : Sweep(e)
  \/ \E w \in Worker : Loop(w) \/ ProcessFails(w) \/ Crash(w)
  \/ \E m \in Msg : Expire(m)

Spec == Init /\ [][Next]_vars

----------------------------------------------------------------------------
TypeOK ==
  /\ QueueTypeOK(Stage)
  /\ cover \in [Media -> Submitted \union {Key, NoRow}] /\ made \subseteq Media
  /\ content \in [Media -> Image \union {NoCover}] /\ due \subseteq Media
  /\ job \in [Msg -> Job \union {NoJob}]
  /\ pic \in [Worker -> Image \union {NoCover}]
  /\ \A w \in Worker : stage[w] = "put" <=> pic[w] # NoCover
  /\ req \in [Proc -> Request]
  /\ wanted \in [Media -> Submitted]
  /\ shown \subseteq Media /\ mixed \subseteq Media
  /\ late \subseteq Media /\ unnamed \subseteq Media
  /\ begun \in 0..MaxRequests /\ faults \in 0..MaxFaults

(* A cover that names the copy finds it in R2, whatever order jobs, edits, *)
(* deletions and their cleanup take (process stores before SetMediaCover,  *)
(* DeleteMedia schedules after the row is gone).                           *)
CoverHasObject == \A e \in Media : cover[e] = Key => content[e] # NoCover

(* The copy shown is the picture last asked for, through retries, repeated *)
(* deliveries and overlapping loops, unless an edit was made while another *)
(* one or its job was under way: only then may an older job win.           *)
ShowsWanted ==
  \A e \in Media \ mixed : cover[e] = Key => wanted[e] \in {Signed, content[e]}

(* An entry deleted with no job under way, whose cover named the copy,     *)
(* leaves nothing behind: the copy is gone or scheduled (DeleteMedia).     *)
DeletedLeavesNothing ==
  faults = 0 => \A e \in made \ (late \union unnamed) :
    cover[e] = NoRow /\ content[e] # NoCover =>
      e \in due \/ \E p \in Proc : At(p, "clean") /\ req[p].media = e
=============================================================================
