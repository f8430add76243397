---------------------------- MODULE PullConsumer ----------------------------
(***************************************************************************)
(* A Cloudflare queue read over HTTP (repository/queue/client.go) and the  *)
(* pull loop that cleanup and covermirror share: lease a batch, process    *)
(* its messages one after the other, then settle all of them in one call.  *)
(* The queue delivers at least once: a lease that expires makes its        *)
(* message available again while its holder still works on it.  What       *)
(* processing a message does is added by the modules that extend this one. *)
(***************************************************************************)
EXTENDS Naturals, FiniteSets

CONSTANTS
  Msg, Worker,   \* message slots; consumer loops, one per instance
  NoMsg, NoWorker,
  BatchSize      \* batchSize of loop

ASSUME QueueAssumption ==
  NoMsg \notin Msg /\ NoWorker \notin Worker /\ BatchSize \in Nat \ {0}

VARIABLES
  queued,        \* messages in the queue
  lease,         \* the loop whose lease on a message is valid
  todo,          \* a loop: messages of its batch not processed yet,
  acks, retries, \*   those to acknowledge and those to requeue,
  cur, stage     \*   the one being processed, and the place in the code

queueVars == <<queued, lease, todo, acks, retries, cur, stage>>

InitQueue ==
  /\ queued = {} /\ lease = [m \in Msg |-> NoWorker]
  /\ todo = [w \in Worker |-> {}] /\ acks = [w \in Worker |-> {}]
  /\ retries = [w \in Worker |-> {}]
  /\ cur = [w \in Worker |-> NoMsg] /\ stage = [w \in Worker |-> "pull"]

Held(w) == todo[w] \union acks[w] \union retries[w] \union ({cur[w]} \ {NoMsg})

(* A slot that no message occupies.                                        *)
FreeSlot(m) == m \notin queued /\ \A w \in Worker : m \notin Held(w)

Available == {m \in queued : lease[m] = NoWorker}

(* Client.Send: the message is in the queue.                               *)
Push(m) == queued' = queued \union {m} /\ UNCHANGED <<lease, todo, acks, retries, cur, stage>>

(* Client.Pull on an empty queue: the loop sleeps and polls again.         *)
PollEmpty(w) == stage[w] = "pull" /\ Available = {} /\ UNCHANGED queueVars

(* Client.Pull: at most a batch of messages without a lease.               *)
Pull(w) ==
  /\ stage[w] = "pull"
  /\ \E ms \in SUBSET Available :
       /\ ms # {} /\ Cardinality(ms) <= BatchSize
       /\ todo' = [todo EXCEPT ![w] = ms]
       /\ lease' = [m \in Msg |-> IF m \in ms THEN w ELSE lease[m]]
  /\ stage' = [stage EXCEPT ![w] = "batch"]
  /\ UNCHANGED <<queued, acks, retries, cur>>

(* The loop turns to the next message; processing starts at stage l.       *)
Take(w, m, l) ==
  /\ stage[w] = "batch" /\ m \in todo[w]
  /\ todo' = [todo EXCEPT ![w] = @ \ {m}]
  /\ cur' = [cur EXCEPT ![w] = m]
  /\ stage' = [stage EXCEPT ![w] = l]
  /\ UNCHANGED <<queued, lease, acks, retries>>

(* process returned true: acknowledge; or false: retry.                    *)
Ack(w) ==
  /\ acks' = [acks EXCEPT ![w] = @ \union {cur[w]}]
  /\ cur' = [cur EXCEPT ![w] = NoMsg]
  /\ stage' = [stage EXCEPT ![w] = "batch"]
  /\ UNCHANGED <<queued, lease, todo, retries>>

Retry(w) ==
  /\ retries' = [retries EXCEPT ![w] = @ \union {cur[w]}]
  /\ cur' = [cur EXCEPT ![w] = NoMsg]
  /\ stage' = [stage EXCEPT ![w] = "batch"]
  /\ UNCHANGED <<queued, lease, todo, acks>>

Forget(w) ==
  /\ todo' = [todo EXCEPT ![w] = {}] /\ acks' = [acks EXCEPT ![w] = {}]
  /\ retries' = [retries EXCEPT ![w] = {}]
  /\ cur' = [cur EXCEPT ![w] = NoMsg] /\ stage' = [stage EXCEPT ![w] = "pull"]

(* Client.Ack at the end of a batch.  Acks under a valid lease delete the  *)
(* message; the queue may honour or ignore those under an expired one.     *)
(* Retries return to the queue (backoff only postpones the next delivery). *)
Settle(w) ==
  /\ stage[w] = "batch" /\ todo[w] = {}
  /\ \E late \in SUBSET {m \in acks[w] : lease[m] # w} :
       LET done == late \union {m \in acks[w] : lease[m] = w} IN
       /\ queued' = queued \ done
       /\ lease' = [m \in Msg |->
            IF m \in done \/ (m \in retries[w] /\ lease[m] = w) THEN NoWorker ELSE lease[m]]
  /\ Forget(w)

(* The Ack call fails, or the instance dies anywhere: the leases run out.  *)
Abandon(w) ==
  /\ stage[w] # "pull"
  /\ Forget(w)
  /\ UNCHANGED <<queued, lease>>

(* visibilityMS passes.                                                    *)
LeaseExpires(m) ==
  /\ lease[m] # NoWorker
  /\ lease' = [lease EXCEPT ![m] = NoWorker]
  /\ UNCHANGED <<queued, todo, acks, retries, cur, stage>>

QueueTypeOK(Stage) ==
  /\ queued \subseteq Msg
  /\ lease \in [Msg -> Worker \union {NoWorker}]
  /\ todo \in [Worker -> SUBSET Msg] /\ acks \in [Worker -> SUBSET Msg]
  /\ retries \in [Worker -> SUBSET Msg]
  /\ cur \in [Worker -> Msg \union {NoMsg}]
  /\ stage \in [Worker -> Stage \union {"pull", "batch"}]
=============================================================================
