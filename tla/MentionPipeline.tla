--------------------------- MODULE MentionPipeline ---------------------------
(***************************************************************************)
(* The mention-email pipeline of the server: rows written by the derived   *)
(* state hook and by the comment routes, the per-user sliding-window       *)
(* batcher, the retrying sender, the mail provider, and the process that   *)
(* may be told to shut down or may die at any point.                       *)
(*                                                                         *)
(* server/src/mentions/{pipeline,batcher,email-sender}.ts, the mention     *)
(* part of server/src/derived/hook.ts and server/src/comments/routes.ts,   *)
(* and the shutdown handler of server/src/index.ts.                        *)
(*                                                                         *)
(* Node runs one callback at a time, so the code between two awaits is one *)
(* action.  A mention is a uuid: its recipient, note and source are fixed  *)
(* when it is drawn, so they are constants, and what varies is its row.    *)
(***************************************************************************)
EXTENDS Naturals

CONSTANTS
    Mentions,       \* uuids randomUUID may draw for mention rows
    Users,
    Notes,
    Comments,       \* uuids of comments
    ToUser,         \* mentioned_user_id of each mention
    NoteOf,         \* note_id of each mention
    SourceOf,       \* "note" for a body mention, else the comment it is in
    Owner,          \* created_by of each note
    AuthorOf,       \* author_id of each comment
    Window,         \* windowMs, in ticks
    Retries         \* retryDelaysMs.length

ASSUME ConstantsAssumption ==
    /\ "note" \notin Comments
    /\ ToUser \in [Mentions -> Users]
    /\ NoteOf \in [Mentions -> Notes]
    /\ SourceOf \in [Mentions -> Comments \cup {"note"}]
    /\ Owner \in [Notes -> Users]
    /\ AuthorOf \in [Comments -> Users]
    /\ Window \in Nat \ {0}
    /\ Retries \in Nat

VARIABLES
    note,       \* note[n]: the notes row: "live", "trashed" or "gone"
    row,        \* row[m]: the mentions row, with its email_sent_at
    queue,      \* queue[u]: items of u's entry in `queues`; {} is no entry
    timer,      \* timer[u]: ticks left on u's window timer; 0 is due
    inflight,   \* batches inside onSend
    proc,       \* where the process is between boot and exit
    accepted,   \* accepted[m]: emails with m that the provider accepted
    quiet,      \* quiet[u]: ticks since the last enqueue for u's open
                \* window, Window when none is open (history)
    fate        \* fate[m]: how m's stay in memory ended, "cut" if it never
                \* got there (history)

vars == <<note, row, queue, timer, inflight, proc, accepted, quiet, fate>>
dbVars == <<note, row>>
batcherVars == <<queue, timer, quiet>>

------------------------------------------------------------------------------
(* State. *)

Up == {"up", "flushing", "closingHttp", "closingWs"}    \* the event loop runs
Down == {"exited", "crashed"}

(* One call of onSend: sender.send is waiting for the provider ("sending", *)
(* "accepted" once the provider took the email but the response is still   *)
(* on its way), or sleeping before its next attempt ("backoff").  flush    *)
(* says that the call was made by flushAll, which awaits it.               *)
Batch ==
    [to: Users, items: SUBSET Mentions, attempt: 0..Retries,
     phase: {"sending", "accepted", "backoff"}, flush: BOOLEAN]

TypeOK ==
    /\ note \in [Notes -> {"live", "trashed", "gone"}]
    /\ row \in [Mentions -> {"none", "unsent", "sent", "deleted"}]
    /\ queue \in [Users -> SUBSET Mentions]
    /\ timer \in [Users -> 0..Window]
    /\ inflight \in SUBSET Batch
    /\ proc \in Up \cup Down
    /\ accepted \in [Mentions -> 0..(Retries + 1)]
    /\ quiet \in [Users -> 0..Window]
    /\ fate \in [Mentions -> {"none", "delivered", "dead", "lost", "cut"}]

Init ==
    /\ note = [n \in Notes |-> "live"]
    /\ row = [m \in Mentions |-> "none"]
    /\ queue = [u \in Users |-> {}]
    /\ timer = [u \in Users |-> 0]
    /\ inflight = {}
    /\ proc = "up"
    /\ accepted = [m \in Mentions |-> 0]
    /\ quiet = [u \in Users |-> Window]
    /\ fate = [m \in Mentions |-> "none"]

(* Mentions whose item is held in memory. *)
Queued == UNION {queue[u] : u \in Users}
Sending == UNION {b.items : b \in inflight}
Pending == Queued \cup Sending

------------------------------------------------------------------------------
(* Producers: a row is inserted and enqueueByMentionId is called for it in *)
(* the same synchronous stretch of code.                                   *)

HasRow(m) == row[m] \in {"unsent", "sent"}

(* findById, the email_sent_at test and the note lookup before enqueue.    *)
(* Users are never deleted, so the two user lookups succeed.               *)
Enqueueable(m, newRow) == newRow[m] = "unsent" /\ note[NoteOf[m]] # "gone"

(* Faulty: a second enqueue overwrites the pending items of its user.      *)
EnqueueOverwrites(M) ==
    LET hit == {ToUser[m] : m \in M}
    IN  /\ queue' = [u \in Users |-> IF u \in hit THEN {m \in M : ToUser[m] = u}
                                     ELSE queue[u]]
        /\ timer' = [u \in Users |-> IF u \in hit THEN Window ELSE timer[u]]
        /\ quiet' = [u \in Users |-> IF u \in hit THEN 0 ELSE quiet[u]]

(* Faulty: an armed timer is not restarted, so the window is fixed.        *)
EnqueueFixedWindow(M) ==
    LET hit == {ToUser[m] : m \in M}
    IN  /\ queue' = [u \in Users |-> queue[u] \cup {m \in M : ToUser[m] = u}]
        /\ timer' = [u \in Users |-> IF u \in hit /\ queue[u] = {}
                                     THEN Window ELSE timer[u]]
        /\ quiet' = [u \in Users |-> IF u \in hit THEN 0 ELSE quiet[u]]

(* batcher.enqueue for every mention of M: append and restart the window.  *)
EnqueueAll(M) ==
    LET hit == {ToUser[m] : m \in M}
    IN  /\ queue' = [u \in Users |-> queue[u] \cup {m \in M : ToUser[m] = u}]
        /\ timer' = [u \in Users |-> IF u \in hit THEN Window ELSE timer[u]]
        /\ quiet' = [u \in Users |-> IF u \in hit THEN 0 ELSE quiet[u]]

(* Draw a fresh uuid for each user of us, insert the rows, enqueue them.   *)
InsertMentions(n, src, us) ==
    \E draw \in [us -> {m \in Mentions : /\ row[m] = "none"
                                         /\ NoteOf[m] = n
                                         /\ SourceOf[m] = src}] :
        LET M == {draw[u] : u \in us}
            newRow == [m \in Mentions |-> IF m \in M THEN "unsent" ELSE row[m]]
        IN  /\ \A u \in us : ToUser[draw[u]] = u
            /\ row' = newRow
            /\ EnqueueAll({m \in M : Enqueueable(m, newRow)})

(* Faulty: every store inserts a row for each user the body mentions.      *)
NetNewEveryStore(n, mentioned) == mentioned \ {Owner[n]}

(* Users mentioned in the stored body who have no row for it yet and are   *)
(* not the note's creator.                                                 *)
NetNew(n, mentioned) ==
    {u \in mentioned :
        /\ u # Owner[n]
        /\ ~ \E m \in Mentions : /\ HasRow(m)
                                 /\ NoteOf[m] = n
                                 /\ SourceOf[m] = "note"
                                 /\ ToUser[m] = u}

(* onStoreDocument, reduced to its mention part.                           *)
StoreDocument(n) ==
    /\ proc \in Up
    /\ note[n] = "live"
    /\ \E mentioned \in SUBSET Users :
        /\ NetNew(n, mentioned) # {}
        /\ InsertMentions(n, "note", NetNew(n, mentioned))
    /\ UNCHANGED <<note, inflight, proc, accepted, fate>>

(* Recipients of a comment's mentions: everyone named but its author.      *)
CommentRecipients(c, mentioned) == {u \in mentioned : u # AuthorOf[c]}

(* extractCommentMentions, called once, after the comment row is inserted. *)
(* The note was live when the request began; by now it may be trashed, but *)
(* a purged note fails the insert's foreign key.                           *)
PostComment(n, c) ==
    /\ proc \in Up \ {"closingWs"}
    /\ note[n] # "gone"
    /\ \A m \in Mentions : SourceOf[m] = c => row[m] = "none"
    /\ \E mentioned \in SUBSET Users :
        /\ CommentRecipients(c, mentioned) # {}
        /\ InsertMentions(n, c, CommentRecipients(c, mentioned))
    /\ UNCHANGED <<note, inflight, proc, accepted, fate>>

------------------------------------------------------------------------------
(* The batcher's window timers. *)

(* One tick of the clock passes on every armed timer.                      *)
Tick ==
    /\ proc \in Up
    /\ \E u \in Users : queue[u] # {} /\ timer[u] > 0
    /\ timer' = [u \in Users |-> IF timer[u] > 0 THEN timer[u] - 1 ELSE 0]
    /\ quiet' = [u \in Users |-> IF quiet[u] < Window THEN quiet[u] + 1 ELSE Window]
    /\ UNCHANGED <<dbVars, queue, inflight, proc, accepted, fate>>

NewBatch(u, byFlush) ==
    [to |-> u, items |-> queue[u], attempt |-> 0,
     phase |-> "sending", flush |-> byFlush]

(* Faulty: the queue is emptied only after onSend settles.                 *)
FireBatchKeepsQueue(u) ==
    /\ proc \in Up
    /\ queue[u] # {} /\ timer[u] = 0
    /\ inflight' = inflight \cup {NewBatch(u, FALSE)}
    /\ UNCHANGED <<dbVars, queue, timer, proc, accepted, quiet, fate>>

(* Faulty: an off-by-one in the early return for an empty queue.           *)
FireBatchSkipsSingle(u) ==
    /\ proc \in Up
    /\ queue[u] # {} /\ timer[u] = 0
    /\ \E m, k \in queue[u] : m # k
    /\ inflight' = inflight \cup {NewBatch(u, FALSE)}
    /\ queue' = [queue EXCEPT ![u] = {}]
    /\ UNCHANGED <<dbVars, timer, proc, accepted, quiet, fate>>

(* fireBatch from the timer: detach the queue, clear the timer, call       *)
(* onSend, which reaches its first await inside transport.send.            *)
FireBatch(u) ==
    /\ proc \in Up
    /\ queue[u] # {} /\ timer[u] = 0
    /\ inflight' = inflight \cup {NewBatch(u, FALSE)}
    /\ queue' = [queue EXCEPT ![u] = {}]
    /\ UNCHANGED <<dbVars, timer, proc, accepted, quiet, fate>>

------------------------------------------------------------------------------
(* The sender and the mail provider. *)

ReplaceBatch(b, c) == inflight' = (inflight \ {b}) \cup {c}

(* The provider takes the email; the response has not arrived yet.         *)
ProviderAccepts(b) ==
    /\ b.phase = "sending"
    /\ ReplaceBatch(b, [b EXCEPT !.phase = "accepted"])
    /\ accepted' = [m \in Mentions |->
                      IF m \in b.items THEN accepted[m] + 1 ELSE accepted[m]]
    /\ UNCHANGED <<dbVars, batcherVars, proc, fate>>

(* The batch leaves memory, its mentions with outcome o.                   *)
SettleBatch(b, o) ==
    /\ inflight' = inflight \ {b}
    /\ fate' = [m \in Mentions |-> IF m \in b.items THEN o ELSE fate[m]]

(* Faulty: the rows are marked before the provider has answered.           *)
AcknowledgedEarly(b) ==
    /\ b.phase \in {"sending", "accepted"}
    /\ SettleBatch(b, "delivered")
    /\ row' = [m \in Mentions |->
                 IF m \in b.items /\ row[m] = "unsent" THEN "sent" ELSE row[m]]
    /\ UNCHANGED <<note, batcherVars, proc, accepted>>

(* Faulty: the retry loop goes on after a success.                         *)
AcknowledgedNoReturn(b) ==
    /\ b.phase = "accepted"
    /\ IF b.attempt < Retries
       THEN ReplaceBatch(b, [b EXCEPT !.phase = "backoff"])
       ELSE inflight' = inflight \ {b}
    /\ fate' = [m \in Mentions |-> IF m \in b.items THEN "delivered" ELSE fate[m]]
    /\ row' = [m \in Mentions |->
                 IF m \in b.items /\ row[m] = "unsent" THEN "sent" ELSE row[m]]
    /\ UNCHANGED <<note, batcherVars, proc, accepted>>

(* send returns and onSend runs markEmailSent: an UPDATE that touches only *)
(* the rows that still exist.                                              *)
Acknowledged(b) ==
    /\ b.phase = "accepted"
    /\ SettleBatch(b, "delivered")
    /\ row' = [m \in Mentions |->
                 IF m \in b.items /\ row[m] = "unsent" THEN "sent" ELSE row[m]]
    /\ UNCHANGED <<note, batcherVars, proc, accepted>>

(* Faulty: an off-by-one in the retry budget.                              *)
TransientFailureOneMore(b) ==
    /\ b.phase \in {"sending", "accepted"}
    /\ b.attempt <= Retries
    /\ ReplaceBatch(b, [b EXCEPT !.phase = "backoff"])
    /\ UNCHANGED <<dbVars, batcherVars, proc, accepted, fate>>

(* A TransientEmailError: 5xx, 408, 429, a connection error, or a response *)
(* lost after the provider accepted.  Sleep if the retry budget allows.    *)
TransientFailure(b) ==
    /\ b.phase \in {"sending", "accepted"}
    /\ b.attempt < Retries
    /\ ReplaceBatch(b, [b EXCEPT !.phase = "backoff"])
    /\ UNCHANGED <<dbVars, batcherVars, proc, accepted, fate>>

(* Faulty: the attempt is not counted.                                     *)
RetryUncounted(b) ==
    /\ b.phase = "backoff"
    /\ ReplaceBatch(b, [b EXCEPT !.phase = "sending"])
    /\ UNCHANGED <<dbVars, batcherVars, proc, accepted, fate>>

(* Faulty: shutdown cancels the sleeps along with the window timers.       *)
RetryOnlyWhileUp(b) ==
    /\ b.phase = "backoff"
    /\ proc = "up"
    /\ ReplaceBatch(b, [b EXCEPT !.phase = "sending", !.attempt = @ + 1])
    /\ UNCHANGED <<dbVars, batcherVars, proc, accepted, fate>>

(* The next attempt of the loop, after the sleep.                          *)
Retry(b) ==
    /\ b.phase = "backoff"
    /\ ReplaceBatch(b, [b EXCEPT !.phase = "sending", !.attempt = @ + 1])
    /\ UNCHANGED <<dbVars, batcherVars, proc, accepted, fate>>

(* Faulty: the rows are marked whether or not send threw.                  *)
DeadLetterMarksSent(b) ==
    /\ \/ b.phase = "sending"
       \/ b.phase = "accepted" /\ b.attempt = Retries
    /\ SettleBatch(b, "dead")
    /\ row' = [m \in Mentions |->
                 IF m \in b.items /\ row[m] = "unsent" THEN "sent" ELSE row[m]]
    /\ UNCHANGED <<note, batcherVars, proc, accepted>>

(* send throws: a PermanentEmailError, or a transient one on the last      *)
(* attempt.  onSend returns with email_sent_at left NULL.                  *)
DeadLetter(b) ==
    /\ \/ b.phase = "sending"
       \/ b.phase = "accepted" /\ b.attempt = Retries
    /\ SettleBatch(b, "dead")
    /\ UNCHANGED <<dbVars, batcherVars, proc, accepted>>

SenderStep(b) ==
    \/ ProviderAccepts(b)
    \/ Acknowledged(b)
    \/ TransientFailure(b)
    \/ Retry(b)
    \/ DeadLetter(b)

Sender ==
    /\ proc \in Up
    /\ \E b \in inflight : SenderStep(b)

------------------------------------------------------------------------------
(* Notes come and go under the pipeline. *)

TrashNote(n) ==
    /\ proc \in Up \ {"closingWs"}
    /\ note[n] = "live"
    /\ note' = [note EXCEPT ![n] = "trashed"]
    /\ UNCHANGED <<row, batcherVars, inflight, proc, accepted, fate>>

RestoreNote(n) ==
    /\ proc \in Up \ {"closingWs"}
    /\ note[n] = "trashed"
    /\ note' = [note EXCEPT ![n] = "live"]
    /\ UNCHANGED <<row, batcherVars, inflight, proc, accepted, fate>>

(* hardDelete, from the purger or the trash view; ON DELETE CASCADE takes  *)
(* the mention rows, the batcher keeps its copies.                         *)
PurgeNote(n) ==
    /\ proc \in Up \ {"closingWs"}
    /\ note[n] = "trashed"
    /\ note' = [note EXCEPT ![n] = "gone"]
    /\ row' = [m \in Mentions |->
                 IF NoteOf[m] = n /\ HasRow(m) THEN "deleted" ELSE row[m]]
    /\ UNCHANGED <<batcherVars, inflight, proc, accepted, fate>>

------------------------------------------------------------------------------
(* The process. *)

(* SIGTERM or SIGINT: flushAll fires every queued batch, then awaits them. *)
Shutdown ==
    /\ proc = "up"
    /\ proc' = "flushing"
    /\ inflight' = inflight \cup
                     {NewBatch(u, TRUE) : u \in {v \in Users : queue[v] # {}}}
    /\ queue' = [u \in Users |-> {}]
    /\ timer' = [u \in Users |-> 0]
    /\ quiet' = [u \in Users |-> Window]
    /\ UNCHANGED <<dbVars, accepted, fate>>

FlushSettled ==
    /\ proc = "flushing"
    /\ \A b \in inflight : ~ b.flush
    /\ proc' = "closingHttp"
    /\ UNCHANGED <<dbVars, batcherVars, inflight, accepted, fate>>

HttpClosed ==
    /\ proc = "closingHttp"
    /\ proc' = "closingWs"
    /\ UNCHANGED <<dbVars, batcherVars, inflight, accepted, fate>>

(* Everything the process held in memory is gone, and with it the enqueue  *)
(* of the rows of M.                                                       *)
LoseMemoryAnd(M) ==
    /\ queue' = [u \in Users |-> {}]
    /\ timer' = [u \in Users |-> 0]
    /\ quiet' = [u \in Users |-> Window]
    /\ inflight' = {}
    /\ fate' = [m \in Mentions |-> IF m \in Pending THEN "lost"
                                   ELSE IF m \in M THEN "cut" ELSE fate[m]]
    /\ UNCHANGED <<note, accepted>>

LoseMemory == LoseMemoryAnd({}) /\ UNCHANGED row

(* ws.destroy resolves; db.close and process.exit(0) follow at once.       *)
Exit ==
    /\ proc = "closingWs"
    /\ proc' = "exited"
    /\ LoseMemory

Crash ==
    /\ proc \in Up
    /\ proc' = "crashed"
    /\ LoseMemory

(* The rows of some of the users us are in the table, and the process dies *)
(* before the enqueue of the last of them.                                 *)
CutInsert(n, src, us) ==
    \E M \in SUBSET {m \in Mentions : /\ row[m] = "none"
                                      /\ NoteOf[m] = n /\ SourceOf[m] = src
                                      /\ ToUser[m] \in us} :
        /\ M # {}
        /\ \A m, k \in M : ToUser[m] = ToUser[k] => m = k
        /\ row' = [m \in Mentions |-> IF m \in M THEN "unsent" ELSE row[m]]
        /\ LoseMemoryAnd(M)

CrashInInsert(n) ==
    /\ proc \in Up
    /\ proc' = "crashed"
    /\ \E mentioned \in SUBSET Users :
        \/ /\ note[n] = "live"
           /\ CutInsert(n, "note", NetNew(n, mentioned))
        \/ \E c \in Comments :
            /\ proc # "closingWs"
            /\ note[n] # "gone"
            /\ \A m \in Mentions : SourceOf[m] = c => row[m] = "none"
            /\ CutInsert(n, c, CommentRecipients(c, mentioned))

(* main: the pipeline starts empty; nothing reads listPendingEmail.        *)
Boot ==
    /\ proc \in Down
    /\ proc' = "up"
    /\ UNCHANGED <<dbVars, batcherVars, inflight, accepted, fate>>

ShutdownStep == FlushSettled \/ HttpClosed \/ Exit

Next ==
    \/ \E n \in Notes :
        \/ StoreDocument(n)
        \/ \E c \in Comments : PostComment(n, c)
        \/ TrashNote(n)
        \/ RestoreNote(n)
        \/ PurgeNote(n)
        \/ CrashInInsert(n)
    \/ Tick
    \/ \E u \in Users : FireBatch(u)
    \/ Sender
    \/ Shutdown
    \/ ShutdownStep
    \/ Crash
    \/ Boot

Spec == Init /\ [][Next]_vars

(* Time passes, due timers fire, the provider answers or the connection    *)
(* fails, sleeps end, and the shutdown handler runs on.  Users, signals,   *)
(* crashes and the operator owe nothing.                                   *)
Fairness ==
    /\ WF_vars(Tick)
    /\ \A u \in Users : WF_vars(FireBatch(u))
    /\ WF_vars(Sender)
    /\ WF_vars(ShutdownStep)

FairSpec == Spec /\ Fairness

------------------------------------------------------------------------------
(* Properties. *)

(* At any moment an item sits in one place: one user's queue or one batch, *)
(* and always the recipient's.  Detaching the queue before the await in    *)
(* fireBatch is what makes this so when mentions arrive during a send.     *)
OneHolder ==
    /\ \A u \in Users : \A m \in queue[u] : ToUser[m] = u
    /\ \A b \in inflight : \A m \in b.items : ToUser[m] = b.to
    /\ Queued \cap Sending = {}
    /\ \A b, c \in inflight : b # c => b.items \cap c.items = {}

(* email_sent_at is a record of fact: it is set only on a mention that     *)
(* some accepted email carried, and that is no longer held for sending.    *)
SentIsTrue ==
    \A m \in Mentions : row[m] = "sent" =>
        accepted[m] > 0 /\ fate[m] = "delivered" /\ m \notin Pending

(* No row is forgotten while the server lives: one whose email_sent_at is  *)
(* NULL is on its way, was dead-lettered, or was in memory or about to be  *)
(* enqueued when the process ended.                                        *)
UnsentAccounted ==
    \A m \in Mentions : row[m] = "unsent" =>
        m \in Pending \/ fate[m] \in {"dead", "lost", "cut"}

(* A recipient gets at most one email per attempt: retryDelaysMs.length+1. *)
(* More than one needs a response lost after the provider accepted.        *)
CopiesBounded ==
    \A b \in inflight : \A m \in b.items :
        accepted[m] <= b.attempt + (IF b.phase = "sending" THEN 0 ELSE 1)

(* The inbox never shows one note's body mention of a user twice, however  *)
(* often the body is stored, and nobody is told of their own mention.      *)
OneBodyRow ==
    /\ \A m, k \in Mentions :
        /\ HasRow(m) /\ HasRow(k)
        /\ SourceOf[m] = "note" /\ SourceOf[k] = "note"
        /\ NoteOf[m] = NoteOf[k] /\ ToUser[m] = ToUser[k]
        => m = k
    /\ \A m \in Mentions :
        HasRow(m) => ToUser[m] # IF SourceOf[m] = "note"
                                 THEN Owner[NoteOf[m]] ELSE AuthorOf[SourceOf[m]]

(* The window slides: except at shutdown a batch is fired only after a     *)
(* whole window in which its recipient got no new mention.                 *)
WindowSlides ==
    [][\A b \in inflight' \ inflight :
          b.attempt = 0 /\ b.phase = "sending" /\ ~ b.flush
              => quiet[b.to] = Window]_vars

(* Once a mention is marked sent or given up, no further email carries it. *)
FinalIsFinal ==
    [][\A m \in Mentions : fate[m] # "none" =>
          accepted'[m] = accepted[m] /\ fate'[m] = fate[m]]_vars

(* The detailed pipeline implements the promise of MentionDelivery, to     *)
(* which a mention whose enqueue was cut off was never submitted.          *)
AbstractStatus ==
    [m \in Mentions |->
        IF m \in Pending THEN "pending"
        ELSE IF fate[m] \in {"none", "cut"} THEN "unknown" ELSE fate[m]]

Delivery == INSTANCE MentionDelivery WITH
    MaxCopies <- Retries + 1,
    status <- AbstractStatus,
    copies <- accepted

ImplementsDelivery == Delivery!DeliverySpec

(* Every mention leaves memory with an outcome: the window closes once     *)
(* enqueues pause, and send always returns within its retry budget.        *)
EventuallySettled == \A m \in Mentions : (m \in Pending) ~> (fate[m] # "none")

(* A signalled server gets to its exit: flushAll waits for batches that    *)
(* all end, and nothing enqueued later is waited for.                      *)
ShutdownEnds == (proc = "flushing") ~> (proc \in Down)

(* batcher.ts says flushAll "returns when all onSend promises settle",     *)
(* index.ts that shutdown drains in-flight batches first, TASKS.md that it *)
(* runs "so pending batches don't vanish on restart": an orderly exit then *)
(* finds no batch still being sent and no mention still waiting.           *)
ExitDropsNothing == [][Exit => inflight = {} /\ Queued = {}]_vars

------------------------------------------------------------------------------
(* The inductive invariant behind OneHolder, SentIsTrue, UnsentAccounted   *)
(* and CopiesBounded: what holds of an item in a queue, of a batch in      *)
(* flight, between any two holders, and of a row.                          *)

QueueInv ==
    \A u \in Users : \A m \in queue[u] :
        /\ ToUser[m] = u
        /\ row[m] \in {"unsent", "deleted"}
        /\ fate[m] = "none"
        /\ accepted[m] = 0

BatchInv ==
    \A b \in inflight :
        /\ b.items # {}
        /\ b.phase = "backoff" => b.attempt < Retries
        /\ \A m \in b.items :
            /\ ToUser[m] = b.to
            /\ row[m] \in {"unsent", "deleted"}
            /\ fate[m] = "none"
            /\ accepted[m] <= b.attempt + (IF b.phase = "sending" THEN 0 ELSE 1)
            /\ b.phase = "accepted" => accepted[m] > 0

HoldersDisjoint ==
    /\ \A b \in inflight, u \in Users : \A m \in queue[u] : m \notin b.items
    /\ \A b, c \in inflight : \A m \in b.items : m \in c.items => b = c

RowInv ==
    \A m \in Mentions :
        /\ row[m] = "none" => accepted[m] = 0 /\ fate[m] = "none"
        /\ row[m] = "sent" => fate[m] = "delivered"
        /\ fate[m] = "delivered" => row[m] # "unsent" /\ accepted[m] > 0
        /\ row[m] = "unsent" /\ fate[m] = "none" =>
              \/ \E u \in Users : m \in queue[u]
              \/ \E b \in inflight : m \in b.items

IInv == TypeOK /\ QueueInv /\ BatchInv /\ HoldersDisjoint /\ RowInv

==============================================================================
