------------------------ MODULE MentionPipelineProofs ------------------------
(***************************************************************************)
(* Theorems about MentionPipeline, for every set of users, notes, comments *)
(* and mentions, every window and every retry budget.                      *)
(***************************************************************************)
EXTENDS MentionPipeline, TLAPS

USE DEF Up, Down

------------------------------------------------------------------------------
(* What inserting and enqueueing amounts to: a set M of mentions without a *)
(* row gets rows, and each joins its recipient's queue.                    *)
Inserts(M) ==
    /\ M \in SUBSET Mentions
    /\ \A m \in M : row[m] = "none"
    /\ row' = [m \in Mentions |-> IF m \in M THEN "unsent" ELSE row[m]]
    /\ queue' = [u \in Users |-> queue[u] \cup {m \in M : ToUser[m] = u}]
    /\ timer' \in [Users -> 0..Window]
    /\ quiet' \in [Users -> 0..Window]

LEMMA InsertEffect ==
    ASSUME TypeOK, NEW n \in Notes, NEW src, NEW us \in SUBSET Users,
           note[n] # "gone", InsertMentions(n, src, us)
    PROVE  \E M \in SUBSET Mentions : Inserts(M)
<1>1. PICK draw \in [us -> {m \in Mentions : /\ row[m] = "none"
                                             /\ NoteOf[m] = n
                                             /\ SourceOf[m] = src}] :
        LET M == {draw[u] : u \in us}
            newRow == [m \in Mentions |-> IF m \in M THEN "unsent" ELSE row[m]]
        IN  /\ \A u \in us : ToUser[draw[u]] = u
            /\ row' = newRow
            /\ EnqueueAll({m \in M : Enqueueable(m, newRow)})
  BY DEF InsertMentions
<1> DEFINE M == {draw[u] : u \in us}
           newRow == [m \in Mentions |-> IF m \in M THEN "unsent" ELSE row[m]]
<1>2. M \in SUBSET Mentions /\ \A m \in M : row[m] = "none" /\ NoteOf[m] = n
  OBVIOUS
<1>3. {m \in M : Enqueueable(m, newRow)} = M
  BY <1>2 DEF Enqueueable
<1>4. EnqueueAll(M)
  BY <1>1, <1>3
<1>5. /\ queue' = [u \in Users |-> queue[u] \cup {m \in M : ToUser[m] = u}]
      /\ timer' \in [Users -> 0..Window]
      /\ quiet' \in [Users -> 0..Window]
  <2> HIDE DEF M
  <2> QED BY <1>4, ConstantsAssumption DEF EnqueueAll, TypeOK
<1>6. row' = newRow
  BY <1>1
<1> QED BY <1>2, <1>5, <1>6 DEF Inserts

LEMMA InsertPreserves ==
    ASSUME IInv, NEW M, Inserts(M),
           UNCHANGED <<note, inflight, proc, accepted, fate>>
    PROVE  IInv'
<1> USE DEF Inserts, IInv
<1>1. TypeOK'
  BY DEF TypeOK
<1>2. QueueInv'
  <2> SUFFICES ASSUME NEW u \in Users, NEW m \in queue'[u]
               PROVE  /\ ToUser[m] = u
                      /\ row'[m] \in {"unsent", "deleted"}
                      /\ fate[m] = "none"
                      /\ accepted[m] = 0
    BY DEF QueueInv
  <2>1. CASE m \in queue[u]
    BY <2>1 DEF QueueInv, TypeOK
  <2>2. CASE m \in M /\ ToUser[m] = u
    BY <2>2 DEF RowInv
  <2> QED BY <2>1, <2>2
<1>3. BatchInv'
  BY DEF BatchInv, TypeOK, Batch
<1>4. HoldersDisjoint'
  <2>1. ASSUME NEW b \in inflight, NEW u \in Users, NEW m \in queue'[u]
        PROVE  m \notin b.items
    <3>1. CASE m \in queue[u]
      BY <3>1 DEF HoldersDisjoint
    <3>2. CASE m \in M
      BY <3>2 DEF BatchInv
    <3> QED BY <3>1, <3>2
  <2> QED BY <2>1 DEF HoldersDisjoint
<1>5. RowInv'
  <2> SUFFICES ASSUME NEW m \in Mentions
               PROVE  /\ row'[m] = "none" => accepted[m] = 0 /\ fate[m] = "none"
                      /\ row'[m] = "sent" => fate[m] = "delivered"
                      /\ fate[m] = "delivered" =>
                            row'[m] # "unsent" /\ accepted[m] > 0
                      /\ row'[m] = "unsent" /\ fate[m] = "none" =>
                            \/ \E u \in Users : m \in queue'[u]
                            \/ \E b \in inflight : m \in b.items
    BY DEF RowInv
  <2>1. CASE m \in M
    <3>1. ToUser[m] \in Users /\ m \in queue'[ToUser[m]]
      BY <2>1, ConstantsAssumption
    <3> QED BY <2>1, <3>1 DEF RowInv
  <2>2. CASE m \notin M
    BY <2>2 DEF RowInv
  <2> QED BY <2>1, <2>2
<1> QED BY <1>1, <1>2, <1>3, <1>4, <1>5

------------------------------------------------------------------------------
(* Steps that move items from queues to batches: the queues of the users D *)
(* become one batch each, and those queues are emptied.                    *)
Detaches(D, byFlush) ==
    /\ inflight' = inflight \cup {NewBatch(u, byFlush) : u \in D}
    /\ queue' = [u \in Users |-> IF u \in D THEN {} ELSE queue[u]]

LEMMA DetachPreserves ==
    ASSUME IInv, NEW D \in SUBSET Users, NEW byFlush \in BOOLEAN,
           Detaches(D, byFlush), \A u \in D : queue[u] # {},
           timer' \in [Users -> 0..Window], quiet' \in [Users -> 0..Window],
           proc' \in Up, UNCHANGED <<note, row, accepted, fate>>
    PROVE  IInv'
<1> USE DEF IInv, Detaches
<1>1. \A u \in D : NewBatch(u, byFlush) \in Batch
  BY ConstantsAssumption DEF NewBatch, Batch, TypeOK
<1>2. TypeOK'
  BY <1>1 DEF TypeOK
<1>3. QueueInv'
  BY DEF QueueInv, TypeOK
<1>4. ASSUME NEW u \in D
      PROVE  /\ NewBatch(u, byFlush).items = queue[u]
             /\ NewBatch(u, byFlush).to = u
             /\ NewBatch(u, byFlush).attempt = 0
             /\ NewBatch(u, byFlush).phase = "sending"
  BY DEF NewBatch
<1>5. BatchInv'
  <2> SUFFICES ASSUME NEW b \in inflight'
               PROVE  /\ b.items # {}
                      /\ b.phase = "backoff" => b.attempt < Retries
                      /\ \A m \in b.items :
                          /\ ToUser[m] = b.to
                          /\ row[m] \in {"unsent", "deleted"}
                          /\ fate[m] = "none"
                          /\ accepted[m] <= b.attempt
                               + (IF b.phase = "sending" THEN 0 ELSE 1)
                          /\ b.phase = "accepted" => accepted[m] > 0
    BY DEF BatchInv
  <2>1. CASE b \in inflight
    BY <2>1 DEF BatchInv
  <2>2. ASSUME NEW u \in D, b = NewBatch(u, byFlush)
        PROVE  /\ b.items # {}
               /\ b.phase = "backoff" => b.attempt < Retries
               /\ \A m \in b.items :
                   /\ ToUser[m] = b.to
                   /\ row[m] \in {"unsent", "deleted"}
                   /\ fate[m] = "none"
                   /\ accepted[m] <= b.attempt
                        + (IF b.phase = "sending" THEN 0 ELSE 1)
                   /\ b.phase = "accepted" => accepted[m] > 0
    BY <2>2, <1>4 DEF QueueInv
  <2> QED BY <2>1, <2>2
<1>6. HoldersDisjoint'
  <2>1. ASSUME NEW u \in Users, NEW v \in Users, NEW m \in queue[u], m \in queue[v]
        PROVE  u = v
    BY <2>1 DEF QueueInv
  <2>2. ASSUME NEW b \in inflight', NEW u \in Users, NEW m \in queue'[u]
        PROVE  m \notin b.items
    <3>1. u \notin D /\ m \in queue[u]
      BY DEF TypeOK
    <3>2. CASE b \in inflight
      BY <3>1, <3>2 DEF HoldersDisjoint
    <3>3. ASSUME NEW v \in D, b = NewBatch(v, byFlush)
          PROVE  m \notin b.items
      BY <3>1, <3>3, <1>4, <2>1
    <3> QED BY <3>2, <3>3
  <2>3. ASSUME NEW b \in inflight', NEW c \in inflight', NEW m \in b.items, m \in c.items
        PROVE  b = c
    <3>1. CASE b \in inflight /\ c \in inflight
      BY <3>1, <2>3 DEF HoldersDisjoint
    <3>2. ASSUME NEW v \in D, b = NewBatch(v, byFlush), c \in inflight
          PROVE  FALSE
      BY <3>2, <2>3, <1>4 DEF HoldersDisjoint
    <3>3. ASSUME NEW v \in D, c = NewBatch(v, byFlush), b \in inflight
          PROVE  FALSE
      BY <3>3, <2>3, <1>4 DEF HoldersDisjoint
    <3>4. ASSUME NEW u \in D, b = NewBatch(u, byFlush),
                 NEW v \in D, c = NewBatch(v, byFlush)
          PROVE  b = c
      BY <3>4, <2>3, <1>4, <2>1
    <3> QED BY <3>1, <3>2, <3>3, <3>4
  <2> QED BY <2>2, <2>3 DEF HoldersDisjoint
<1>7. RowInv'
  <2> SUFFICES ASSUME NEW m \in Mentions, row[m] = "unsent", fate[m] = "none"
               PROVE  \/ \E u \in Users : m \in queue'[u]
                      \/ \E b \in inflight' : m \in b.items
    BY DEF RowInv
  <2>1. CASE \E b \in inflight : m \in b.items
    BY <2>1
  <2>2. ASSUME NEW u \in Users, m \in queue[u]
        PROVE  \/ \E v \in Users : m \in queue'[v]
               \/ \E b \in inflight' : m \in b.items
    <3>1. CASE u \in D
      <4>1. NewBatch(u, byFlush) \in inflight' /\ m \in NewBatch(u, byFlush).items
        BY <3>1, <2>2, <1>4
      <4> QED BY <4>1
    <3>2. CASE u \notin D
      BY <3>2, <2>2
    <3> QED BY <3>1, <3>2
  <2> QED BY <2>1, <2>2 DEF RowInv
<1> QED BY <1>2, <1>3, <1>5, <1>6, <1>7

------------------------------------------------------------------------------
(* Steps of the sender that keep the batch in flight with the same items.  *)
LEMMA ReplacePreserves ==
    ASSUME IInv, NEW b \in inflight, NEW c \in Batch, ReplaceBatch(b, c),
           c.items = b.items, c.to = b.to,
           c.phase = "backoff" => c.attempt < Retries,
           accepted' \in [Mentions -> 0..(Retries + 1)],
           \A m \in Mentions : m \notin b.items => accepted'[m] = accepted[m],
           \A m \in b.items :
              /\ accepted'[m] <= c.attempt + (IF c.phase = "sending" THEN 0 ELSE 1)
              /\ c.phase = "accepted" => accepted'[m] > 0,
           UNCHANGED <<note, row, queue, timer, proc, quiet, fate>>
    PROVE  IInv'
<1> USE DEF IInv, ReplaceBatch
<1>1. TypeOK'
  BY DEF TypeOK
<1>2. \A u \in Users : \A m \in queue[u] : m \in Mentions /\ m \notin b.items
  BY DEF TypeOK, HoldersDisjoint
<1>3. QueueInv'
  BY <1>2 DEF QueueInv
<1>4. \A d \in inflight : d # b => \A m \in d.items : m \in Mentions /\ m \notin b.items
  BY DEF TypeOK, HoldersDisjoint, Batch
<1>5. BatchInv'
  <2> SUFFICES ASSUME NEW d \in inflight'
               PROVE  /\ d.items # {}
                      /\ d.phase = "backoff" => d.attempt < Retries
                      /\ \A m \in d.items :
                          /\ ToUser[m] = d.to
                          /\ row[m] \in {"unsent", "deleted"}
                          /\ fate[m] = "none"
                          /\ accepted'[m] <= d.attempt
                               + (IF d.phase = "sending" THEN 0 ELSE 1)
                          /\ d.phase = "accepted" => accepted'[m] > 0
    BY DEF BatchInv
  <2>1. CASE d = c
    BY <2>1 DEF BatchInv
  <2>2. CASE d \in inflight /\ d # b
    BY <2>2, <1>4 DEF BatchInv
  <2> QED BY <2>1, <2>2
<1>6. HoldersDisjoint'
  BY DEF HoldersDisjoint
<1>7. RowInv'
  <2> SUFFICES ASSUME NEW m \in Mentions
               PROVE  /\ row[m] = "none" => accepted'[m] = 0 /\ fate[m] = "none"
                      /\ row[m] = "sent" => fate[m] = "delivered"
                      /\ fate[m] = "delivered" =>
                            row[m] # "unsent" /\ accepted'[m] > 0
                      /\ row[m] = "unsent" /\ fate[m] = "none" =>
                            \/ \E u \in Users : m \in queue[u]
                            \/ \E d \in inflight' : m \in d.items
    BY DEF RowInv
  <2>1. CASE m \in b.items
    <3>1. row[m] \in {"unsent", "deleted"} /\ fate[m] = "none"
      BY <2>1 DEF BatchInv
    <3>2. c \in inflight' /\ m \in c.items
      BY <2>1
    <3> QED BY <3>1, <3>2
  <2>2. CASE m \notin b.items
    <3>1. (\E d \in inflight : m \in d.items) => \E d \in inflight' : m \in d.items
      BY <2>2
    <3> QED BY <2>2, <3>1 DEF RowInv
  <2> QED BY <2>1, <2>2
<1> QED BY <1>1, <1>3, <1>5, <1>6, <1>7

(* Steps that end a batch.                                                 *)
LEMMA SettlePreserves ==
    ASSUME IInv, NEW b \in inflight, NEW o \in {"delivered", "dead"},
           SettleBatch(b, o),
           row' \in [Mentions -> {"none", "unsent", "sent", "deleted"}],
           \A m \in Mentions : m \notin b.items => row'[m] = row[m],
           \A m \in b.items :
              /\ row'[m] # "none"
              /\ row'[m] = "sent" => o = "delivered"
              /\ o = "delivered" => row'[m] # "unsent" /\ accepted[m] > 0,
           UNCHANGED <<note, queue, timer, proc, quiet, accepted>>
    PROVE  IInv'
<1> USE DEF IInv, SettleBatch
<1>1. TypeOK'
  BY DEF TypeOK
<1>2. \A u \in Users : \A m \in queue[u] : m \in Mentions /\ m \notin b.items
  BY DEF TypeOK, HoldersDisjoint
<1>3. QueueInv'
  BY <1>2 DEF QueueInv
<1>4. \A d \in inflight' : \A m \in d.items : m \in Mentions /\ m \notin b.items
  BY DEF TypeOK, HoldersDisjoint, Batch
<1>5. BatchInv'
  BY <1>4 DEF BatchInv
<1>6. HoldersDisjoint'
  BY DEF HoldersDisjoint
<1>7. RowInv'
  <2> SUFFICES ASSUME NEW m \in Mentions
               PROVE  /\ row'[m] = "none" => accepted[m] = 0 /\ fate'[m] = "none"
                      /\ row'[m] = "sent" => fate'[m] = "delivered"
                      /\ fate'[m] = "delivered" =>
                            row'[m] # "unsent" /\ accepted[m] > 0
                      /\ row'[m] = "unsent" /\ fate'[m] = "none" =>
                            \/ \E u \in Users : m \in queue[u]
                            \/ \E d \in inflight' : m \in d.items
    BY DEF RowInv
  <2>1. CASE m \in b.items
    <3>1. fate'[m] = o
      BY <2>1
    <3> QED BY <2>1, <3>1
  <2>2. CASE m \notin b.items
    <3>1. fate'[m] = fate[m] /\ row'[m] = row[m]
      BY <2>2
    <3>2. \A d \in inflight : m \in d.items => d \in inflight'
      BY <2>2
    <3> QED BY <3>1, <3>2 DEF RowInv
  <2> QED BY <2>1, <2>2
<1> QED BY <1>1, <1>3, <1>5, <1>6, <1>7

LEMMA SenderPreserves ==
    ASSUME IInv, NEW b \in inflight, SenderStep(b), UNCHANGED proc
    PROVE  IInv'
<1>0. /\ b \in Batch /\ b.items \subseteq Mentions /\ b.attempt \in 0..Retries
      /\ b.phase \in {"sending", "accepted", "backoff"}
      /\ Retries \in Nat
  BY ConstantsAssumption DEF IInv, TypeOK, Batch
<1>1. CASE ProviderAccepts(b)
  <2> DEFINE c == [b EXCEPT !.phase = "accepted"]
  <2>1. c \in Batch /\ c.items = b.items /\ c.to = b.to
        /\ c.attempt = b.attempt /\ c.phase = "accepted"
    BY <1>0 DEF Batch
  <2>2. ASSUME NEW m \in b.items
        PROVE  accepted'[m] = accepted[m] + 1 /\ accepted[m] \in Nat
               /\ accepted[m] <= b.attempt
    BY <1>0, <1>1 DEF ProviderAccepts, IInv, BatchInv, TypeOK
  <2>3. \A m \in Mentions : m \notin b.items => accepted'[m] = accepted[m]
    BY <1>1 DEF ProviderAccepts
  <2>4. accepted' \in [Mentions -> 0..(Retries + 1)]
    <3>1. ASSUME NEW m \in Mentions
          PROVE  (IF m \in b.items THEN accepted[m] + 1 ELSE accepted[m])
                    \in 0..(Retries + 1)
      <4>1. CASE m \in b.items
        BY <4>1, <2>2, <1>0
      <4>2. CASE m \notin b.items
        BY <4>2 DEF IInv, TypeOK
      <4> QED BY <4>1, <4>2
    <3> QED BY <3>1, <1>1 DEF ProviderAccepts
  <2> HIDE DEF c
  <2>5. ReplaceBatch(b, c) /\ UNCHANGED <<note, row, queue, timer, proc, quiet, fate>>
    BY <1>1 DEF ProviderAccepts, dbVars, batcherVars, c
  <2>6. \A m \in b.items :
              /\ accepted'[m] <= c.attempt + (IF c.phase = "sending" THEN 0 ELSE 1)
              /\ c.phase = "accepted" => accepted'[m] > 0
    BY <2>1, <2>2, <1>0
  <2> QED BY <2>1, <2>3, <2>4, <2>5, <2>6, ReplacePreserves
<1>2. CASE Acknowledged(b)
  <2>1. SettleBatch(b, "delivered") /\ UNCHANGED <<note, queue, timer, proc, quiet, accepted>>
    BY <1>2 DEF Acknowledged, batcherVars
  <2>2. /\ row' \in [Mentions -> {"none", "unsent", "sent", "deleted"}]
        /\ \A m \in Mentions : m \notin b.items => row'[m] = row[m]
    BY <1>2 DEF Acknowledged, IInv, TypeOK
  <2>3. \A m \in b.items : row'[m] \in {"sent", "deleted"} /\ accepted[m] > 0
    BY <1>0, <1>2 DEF Acknowledged, IInv, BatchInv
  <2> QED BY <2>1, <2>2, <2>3, SettlePreserves
<1>3. CASE TransientFailure(b)
  <2> DEFINE c == [b EXCEPT !.phase = "backoff"]
  <2>1. c \in Batch /\ c.items = b.items /\ c.to = b.to
        /\ c.attempt = b.attempt /\ c.phase = "backoff"
    BY <1>0 DEF Batch
  <2>0. b.attempt < Retries
    BY <1>3 DEF TransientFailure
  <2>2. \A m \in b.items : accepted[m] \in Nat /\ accepted[m] <= b.attempt + 1
    BY <1>0 DEF IInv, BatchInv, TypeOK
  <2> HIDE DEF c
  <2>3. ReplaceBatch(b, c) /\ UNCHANGED <<note, row, queue, timer, proc, quiet, accepted, fate>>
    BY <1>3 DEF TransientFailure, dbVars, batcherVars, c
  <2>4. accepted' \in [Mentions -> 0..(Retries + 1)]
    BY <2>3 DEF IInv, TypeOK
  <2> QED BY <1>0, <2>0, <2>1, <2>2, <2>3, <2>4, ReplacePreserves
<1>4. CASE Retry(b)
  <2> DEFINE c == [b EXCEPT !.phase = "sending", !.attempt = @ + 1]
  <2>0. b.attempt < Retries
    BY <1>4 DEF Retry, IInv, BatchInv
  <2>5. c = [to |-> b.to, items |-> b.items, attempt |-> b.attempt + 1,
             phase |-> "sending", flush |-> b.flush]
    <3> DEFINE d == [b EXCEPT !.phase = "sending"]
    <3>1. d = [to |-> b.to, items |-> b.items, attempt |-> b.attempt,
               phase |-> "sending", flush |-> b.flush]
      BY <1>0 DEF Batch
    <3>2. c = [d EXCEPT !.attempt = b.attempt + 1]
      BY <1>0 DEF Batch
    <3> HIDE DEF c, d
    <3> QED BY <3>1, <3>2
  <2>6. b.attempt + 1 \in 0..Retries /\ b.to \in Users /\ b.flush \in BOOLEAN
    BY <1>0, <2>0 DEF Batch
  <2>1. c \in Batch /\ c.items = b.items /\ c.to = b.to
        /\ c.attempt = b.attempt + 1 /\ c.phase = "sending"
    BY <1>0, <2>5, <2>6 DEF Batch
  <2>2. \A m \in b.items : accepted[m] \in Nat /\ accepted[m] <= b.attempt + 1
    BY <1>0, <1>4 DEF IInv, BatchInv, TypeOK, Retry
  <2> HIDE DEF c
  <2>3. ReplaceBatch(b, c) /\ UNCHANGED <<note, row, queue, timer, proc, quiet, accepted, fate>>
    BY <1>4 DEF Retry, dbVars, batcherVars, c
  <2>4. accepted' \in [Mentions -> 0..(Retries + 1)]
    BY <2>3 DEF IInv, TypeOK
  <2> QED BY <1>0, <2>0, <2>1, <2>2, <2>3, <2>4, ReplacePreserves
<1>5. CASE DeadLetter(b)
  <2>1. SettleBatch(b, "dead") /\ UNCHANGED <<note, row, queue, timer, proc, quiet, accepted>>
    BY <1>5 DEF DeadLetter, dbVars, batcherVars
  <2>2. row' \in [Mentions -> {"none", "unsent", "sent", "deleted"}]
    BY <2>1 DEF IInv, TypeOK
  <2>3. \A m \in b.items : row'[m] \in {"unsent", "deleted"}
    BY <2>1 DEF IInv, BatchInv
  <2> QED BY <2>1, <2>2, <2>3, SettlePreserves
<1> QED BY <1>1, <1>2, <1>3, <1>4, <1>5 DEF SenderStep

------------------------------------------------------------------------------
(* Steps that forget everything held in memory.                            *)
(* What an end of the process does to the rows: those of M, if any, were   *)
(* just inserted.                                                          *)
Cuts(M) ==
    /\ M \in SUBSET Mentions
    /\ \A m \in M : row[m] = "none"
    /\ row' = [m \in Mentions |-> IF m \in M THEN "unsent" ELSE row[m]]
    /\ LoseMemoryAnd(M)

LEMMA LoseCutsNothing == ASSUME TypeOK, LoseMemory PROVE Cuts({})
<1>1. row = [m \in Mentions |-> row[m]]
  BY DEF TypeOK
<1> QED BY <1>1 DEF LoseMemory, Cuts

LEMMA CrashCuts ==
    ASSUME NEW n \in Notes, CrashInInsert(n)
    PROVE  \E M : Cuts(M)
BY DEF CrashInInsert, CutInsert, Cuts

LEMMA LosePreserves ==
    ASSUME IInv, NEW M, Cuts(M), proc' \in Down
    PROVE  IInv'
<1> USE DEF IInv, Cuts, LoseMemoryAnd
<1>1. \A m \in Pending : m \in Mentions
  BY DEF TypeOK, Batch, Pending, Queued, Sending
<1>2. TypeOK'
  BY ConstantsAssumption DEF TypeOK
<1>3. QueueInv' /\ BatchInv' /\ HoldersDisjoint'
  BY DEF QueueInv, BatchInv, HoldersDisjoint
<1>4. RowInv'
  <2> SUFFICES ASSUME NEW m \in Mentions
               PROVE  /\ row'[m] = "none" => accepted[m] = 0 /\ fate'[m] = "none"
                      /\ row'[m] = "sent" => fate'[m] = "delivered"
                      /\ fate'[m] = "delivered" =>
                            row'[m] # "unsent" /\ accepted[m] > 0
                      /\ ~ (row'[m] = "unsent" /\ fate'[m] = "none")
    BY DEF RowInv
  <2>1. CASE m \in Pending
    <3>1. row[m] \in {"unsent", "deleted"} /\ fate'[m] = "lost"
      BY <2>1 DEF QueueInv, BatchInv, Pending, Queued, Sending
    <3>2. row'[m] = row[m]
      BY <3>1
    <3> QED BY <3>1, <3>2
  <2>3. CASE m \notin Pending /\ m \in M
    BY <2>3
  <2>2. CASE m \notin Pending /\ m \notin M
    <3>1. fate'[m] = fate[m] /\ row'[m] = row[m]
      BY <2>2
    <3>2. ~ (\E u \in Users : m \in queue[u]) /\ ~ (\E b \in inflight : m \in b.items)
      BY <2>2 DEF Pending, Queued, Sending
    <3> QED BY <3>1, <3>2 DEF RowInv
  <2> QED BY <2>1, <2>2, <2>3
<1> QED BY <1>2, <1>3, <1>4

LEMMA PurgePreserves ==
    ASSUME IInv, NEW n \in Notes, PurgeNote(n)
    PROVE  IInv'
<1> USE DEF IInv, PurgeNote, batcherVars
<1>1. TypeOK'
  BY DEF TypeOK
<1>2. \A m \in Mentions :
        /\ row'[m] = "none" <=> row[m] = "none"
        /\ row[m] \in {"unsent", "deleted"} => row'[m] \in {"unsent", "deleted"}
        /\ row'[m] = "sent" => row[m] = "sent"
        /\ row'[m] = "unsent" => row[m] = "unsent"
  BY DEF HasRow, TypeOK
<1>3. QueueInv'
  BY <1>2 DEF QueueInv, TypeOK
<1>4. BatchInv'
  BY <1>2 DEF BatchInv, TypeOK, Batch
<1>5. HoldersDisjoint'
  BY DEF HoldersDisjoint
<1>6. RowInv'
  BY <1>2 DEF RowInv
<1> QED BY <1>1, <1>3, <1>4, <1>5, <1>6

(* Steps that leave the pipeline alone: they change only the note's state, *)
(* the process's progress, or the clock.                                   *)
LEMMA IdlePreserves ==
    ASSUME IInv, UNCHANGED <<row, queue, inflight, accepted, fate>>,
           note' \in [Notes -> {"live", "trashed", "gone"}],
           timer' \in [Users -> 0..Window], quiet' \in [Users -> 0..Window],
           proc' \in Up \cup Down
    PROVE  IInv'
<1>1. TypeOK'
  BY DEF IInv, TypeOK
<1>2. (QueueInv /\ BatchInv /\ HoldersDisjoint /\ RowInv)'
  BY DEF IInv, QueueInv, BatchInv, HoldersDisjoint, RowInv
<1> QED BY <1>1, <1>2 DEF IInv

LEMMA NextPreserves == IInv /\ [Next]_vars => IInv'
<1> SUFFICES ASSUME IInv, [Next]_vars PROVE IInv'
  OBVIOUS
<1> USE DEF dbVars, batcherVars
<1>0. TypeOK /\ Window \in Nat
  BY ConstantsAssumption DEF IInv
<1>1. ASSUME NEW n \in Notes, StoreDocument(n) PROVE IInv'
  <2>1. PICK mentioned \in SUBSET Users :
          InsertMentions(n, "note", NetNew(n, mentioned))
    BY <1>1 DEF StoreDocument
  <2>2. NetNew(n, mentioned) \in SUBSET Users /\ note[n] # "gone"
    BY <1>1 DEF NetNew, StoreDocument
  <2>3. \E M \in SUBSET Mentions : Inserts(M)
    BY <1>0, <2>1, <2>2, InsertEffect
  <2> QED BY <1>1, <2>3, InsertPreserves DEF StoreDocument
<1>2. ASSUME NEW n \in Notes, NEW c \in Comments, PostComment(n, c) PROVE IInv'
  <2>1. PICK mentioned \in SUBSET Users :
          InsertMentions(n, c, CommentRecipients(c, mentioned))
    BY <1>2 DEF PostComment
  <2>2. CommentRecipients(c, mentioned) \in SUBSET Users /\ note[n] # "gone"
    BY <1>2 DEF CommentRecipients, PostComment
  <2>3. \E M \in SUBSET Mentions : Inserts(M)
    BY <1>0, <2>1, <2>2, InsertEffect
  <2> QED BY <1>2, <2>3, InsertPreserves DEF PostComment
<1>3. ASSUME NEW n \in Notes, TrashNote(n) \/ RestoreNote(n) PROVE IInv'
  BY <1>0, <1>3, IdlePreserves DEF TrashNote, RestoreNote, TypeOK
<1>4. ASSUME NEW n \in Notes, PurgeNote(n) PROVE IInv'
  BY <1>4, PurgePreserves
<1>5. CASE Tick
  <2>1. timer' \in [Users -> 0..Window] /\ quiet' \in [Users -> 0..Window]
    BY <1>0, <1>5 DEF Tick, TypeOK
  <2> QED BY <1>0, <1>5, <2>1, IdlePreserves DEF Tick, TypeOK
<1>6. ASSUME NEW u \in Users, FireBatch(u) PROVE IInv'
  <2>1. Detaches({u}, FALSE)
    BY <1>0, <1>6 DEF FireBatch, Detaches, TypeOK
  <2>2. queue[u] # {} /\ proc' \in Up /\ UNCHANGED <<note, row, accepted, fate, timer, quiet>>
    BY <1>6 DEF FireBatch
  <2>3. timer' \in [Users -> 0..Window] /\ quiet' \in [Users -> 0..Window]
    BY <1>0, <2>2 DEF TypeOK
  <2>4. {u} \in SUBSET Users /\ \A v \in {u} : queue[v] # {}
    BY <2>2
  <2> QED BY <2>1, <2>2, <2>3, <2>4, DetachPreserves
<1>7. CASE Sender
  <2>1. PICK b \in inflight : SenderStep(b)
    BY <1>7 DEF Sender
  <2>2. UNCHANGED proc
    BY <2>1 DEF SenderStep, ProviderAccepts, Acknowledged, TransientFailure,
                Retry, DeadLetter
  <2> QED BY <2>1, <2>2, SenderPreserves
<1>8. CASE Shutdown
  <2> DEFINE D == {v \in Users : queue[v] # {}}
  <2>1. Detaches(D, TRUE)
    BY <1>0, <1>8 DEF Shutdown, Detaches, TypeOK
  <2>2. /\ \A u \in D : queue[u] # {}
        /\ timer' \in [Users -> 0..Window] /\ quiet' \in [Users -> 0..Window]
        /\ proc' \in Up /\ UNCHANGED <<note, row, accepted, fate>>
    BY <1>0, <1>8 DEF Shutdown
  <2> HIDE DEF D
  <2> QED BY <2>1, <2>2, DetachPreserves DEF D
<1>9. CASE FlushSettled \/ HttpClosed \/ Boot
  BY <1>0, <1>9, IdlePreserves DEF FlushSettled, HttpClosed, Boot, TypeOK
<1>10. CASE Exit \/ Crash
  BY <1>0, <1>10, LoseCutsNothing, LosePreserves DEF Exit, Crash, Down
<1>12. ASSUME NEW n \in Notes, CrashInInsert(n) PROVE IInv'
  <2>1. PICK M : Cuts(M)
    BY <1>12, CrashCuts
  <2> QED BY <1>12, <2>1, LosePreserves DEF CrashInInsert, Down
<1>11. CASE UNCHANGED vars
  BY <1>0, <1>11, IdlePreserves DEF vars, TypeOK
<1> QED BY <1>1, <1>2, <1>3, <1>4, <1>5, <1>6, <1>7, <1>8, <1>9, <1>10, <1>11,
           <1>12
        DEF Next, ShutdownStep

LEMMA InitIInv == Init => IInv
BY ConstantsAssumption
   DEF Init, IInv, TypeOK, QueueInv, BatchInv, HoldersDisjoint, RowInv

(* Every reachable state satisfies the inductive invariant.                *)
THEOREM Invariance == Spec => []IInv
<1> QED BY InitIInv, NextPreserves, PTL DEF Spec

(* The state always has its types: in particular no mention is ever in     *)
(* more accepted emails than there are attempts.                           *)
THEOREM TypeCorrect == Spec => []TypeOK
<1>1. IInv => TypeOK
  BY DEF IInv
<1> QED BY <1>1, Invariance, PTL

(* An item sits in its recipient's queue or in one batch of its recipient, *)
(* never in two places.                                                    *)
THEOREM SpecOneHolder == Spec => []OneHolder
<1>1. IInv => OneHolder
  <2> SUFFICES ASSUME IInv PROVE OneHolder
    OBVIOUS
  <2>1. Queued \cap Sending = {}
    BY DEF IInv, HoldersDisjoint, Queued, Sending
  <2>2. \A b, c \in inflight : b # c => b.items \cap c.items = {}
    BY DEF IInv, HoldersDisjoint
  <2> QED BY <2>1, <2>2 DEF IInv, QueueInv, BatchInv, OneHolder
<1> QED BY <1>1, Invariance, PTL

(* email_sent_at is set only when an accepted email carried the mention.   *)
THEOREM SpecSentIsTrue == Spec => []SentIsTrue
<1>1. IInv => SentIsTrue
  BY DEF IInv, RowInv, QueueInv, BatchInv, SentIsTrue, Pending, Queued, Sending
<1> QED BY <1>1, Invariance, PTL

(* A row with email_sent_at NULL is on its way or its loss is accounted    *)
(* for by a dead letter, an exit or a crash.                               *)
THEOREM SpecUnsentAccounted == Spec => []UnsentAccounted
<1>1. IInv => UnsentAccounted
  <2> SUFFICES ASSUME IInv, NEW m \in Mentions, row[m] = "unsent", m \notin Pending
               PROVE  fate[m] \in {"dead", "lost", "cut"}
    BY DEF UnsentAccounted
  <2>1. ~ (\E u \in Users : m \in queue[u]) /\ ~ (\E b \in inflight : m \in b.items)
    BY DEF Pending, Queued, Sending
  <2> QED BY <2>1 DEF IInv, RowInv, TypeOK
<1> QED BY <1>1, Invariance, PTL

(* No batch is accepted by the provider more often than it was attempted.  *)
THEOREM SpecCopiesBounded == Spec => []CopiesBounded
<1>1. IInv => CopiesBounded
  BY DEF IInv, BatchInv, CopiesBounded
<1> QED BY <1>1, Invariance, PTL

------------------------------------------------------------------------------
(* The refinement.  A step of the pipeline is seen by MentionDelivery as   *)
(* the change it makes to `accepted` and to the abstract status of each    *)
(* mention.                                                                *)

LEMMA InPending ==
    \A m : m \in Pending <=> \/ \E u \in Users : m \in queue[u]
                             \/ \E b \in inflight : m \in b.items
BY DEF Pending, Queued, Sending

LEMMA InPendingNext ==
    \A m : m \in Pending' <=> \/ \E u \in Users : m \in queue'[u]
                              \/ \E b \in inflight' : m \in b.items
BY DEF Pending, Queued, Sending

(* The status of a mention in memory is "pending" and its fate open.       *)
LEMMA PendingOpen ==
    ASSUME IInv
    PROVE  \A m \in Pending : /\ m \in Mentions /\ fate[m] = "none"
                              /\ row[m] \in {"unsent", "deleted"}
BY InPending DEF IInv, TypeOK, Batch, QueueInv, BatchInv

(* A step that leaves memory, fates and emails alone is a stutter.         *)
LEMMA IdleStutters ==
    ASSUME UNCHANGED accepted, UNCHANGED fate, Pending' = Pending
    PROVE  UNCHANGED Delivery!dvars
BY DEF Delivery!dvars, AbstractStatus

LEMMA InsertSubmits ==
    ASSUME IInv, NEW M, Inserts(M), UNCHANGED <<inflight, accepted, fate>>
    PROVE  [Delivery!DeliveryNext]_(Delivery!dvars)
<1>1. Pending' = Pending \cup M
  <2>1. \A m \in M : ToUser[m] \in Users /\ m \in queue'[ToUser[m]]
    BY ConstantsAssumption DEF Inserts
  <2>2. ASSUME NEW m PROVE m \in Pending' <=> m \in Pending \/ m \in M
    BY <2>1, InPending, InPendingNext DEF Inserts
  <2> QED BY <2>2
<1>2. CASE M = {}
  BY <1>1, <1>2, IdleStutters
<1>3. CASE M # {}
  <2>1. \A m \in M : m \in Mentions /\ fate[m] = "none" /\ m \notin Pending
    BY PendingOpen DEF Inserts, IInv, RowInv
  <2>2. \A m \in M : AbstractStatus[m] = "unknown"
    BY <2>1 DEF AbstractStatus
  <2>3. AbstractStatus' =
          [m \in Mentions |-> IF m \in M THEN "pending" ELSE AbstractStatus[m]]
    BY <1>1 DEF AbstractStatus
  <2>4. Delivery!Submit(M)
    BY <1>3, <2>2, <2>3 DEF Delivery!Submit
  <2> QED BY <2>4 DEF Inserts, Delivery!DeliveryNext
<1> QED BY <1>2, <1>3

LEMMA DetachStutters ==
    ASSUME TypeOK, NEW D \in SUBSET Users, NEW byFlush \in BOOLEAN,
           Detaches(D, byFlush), UNCHANGED <<accepted, fate>>
    PROVE  UNCHANGED Delivery!dvars
<1>1. \A u \in D : NewBatch(u, byFlush).items = queue[u]
  BY DEF NewBatch
<1>2. ASSUME NEW m, m \in Pending PROVE m \in Pending'
  <2>1. CASE \E b \in inflight : m \in b.items
    BY <2>1, InPendingNext DEF Detaches
  <2>2. ASSUME NEW u \in Users, m \in queue[u] PROVE m \in Pending'
    <3>1. CASE u \in D
      <4>1. NewBatch(u, byFlush) \in inflight' /\ m \in NewBatch(u, byFlush).items
        BY <1>1, <2>2, <3>1 DEF Detaches
      <4> QED BY <4>1, InPendingNext
    <3>2. CASE u \notin D
      BY <2>2, <3>2, InPendingNext DEF Detaches
    <3> QED BY <3>1, <3>2
  <2> QED BY <1>2, <2>1, <2>2, InPending
<1>3. ASSUME NEW m, m \in Pending' PROVE m \in Pending
  <2>1. ASSUME NEW u \in Users, m \in queue'[u] PROVE m \in Pending
    BY <2>1, InPending DEF Detaches
  <2>2. ASSUME NEW b \in inflight', m \in b.items PROVE m \in Pending
    BY <2>2, <1>1, InPending DEF Detaches
  <2> QED BY <1>3, <2>1, <2>2, InPendingNext
<1>4. Pending' = Pending
  BY <1>2, <1>3
<1> QED BY <1>4, IdleStutters

(* Replacing a batch by one with the same items keeps memory as it was.    *)
LEMMA ReplaceKeepsPending ==
    ASSUME NEW b \in inflight, NEW c, ReplaceBatch(b, c), c.items = b.items,
           UNCHANGED queue
    PROVE  Pending' = Pending
<1>1. ASSUME NEW m PROVE (\E d \in inflight' : m \in d.items)
                           <=> (\E d \in inflight : m \in d.items)
  BY DEF ReplaceBatch
<1> QED BY <1>1, InPending, InPendingNext

LEMMA SettleSettles ==
    ASSUME IInv, NEW b \in inflight, NEW o \in {"delivered", "dead"},
           SettleBatch(b, o), UNCHANGED <<queue, accepted>>,
           o = "delivered" => \A m \in b.items : accepted[m] > 0
    PROVE  Delivery!DeliveryNext
<1>1. b.items \in SUBSET Mentions /\ b.items # {}
  BY DEF IInv, TypeOK, Batch, BatchInv
<1>2. \A m \in b.items : m \in Pending
  BY InPending
<1>3. \A m \in b.items : m \notin Pending'
  BY InPendingNext DEF SettleBatch, IInv, HoldersDisjoint
<1>4. \A m : m \notin b.items => (m \in Pending' <=> m \in Pending)
  BY InPending, InPendingNext DEF SettleBatch
<1>5. AbstractStatus' =
        [m \in Mentions |-> IF m \in b.items THEN o ELSE AbstractStatus[m]]
  <2>1. ASSUME NEW m \in Mentions
        PROVE  AbstractStatus'[m] = IF m \in b.items THEN o ELSE AbstractStatus[m]
    <3>1. CASE m \in b.items
      <4>1. fate'[m] = o
        BY <3>1 DEF SettleBatch
      <4> QED BY <3>1, <4>1, <1>3 DEF AbstractStatus
    <3>2. CASE m \notin b.items
      <4>1. fate'[m] = fate[m]
        BY <3>2 DEF SettleBatch
      <4> QED BY <3>2, <4>1, <1>4 DEF AbstractStatus
    <3> QED BY <3>1, <3>2
  <2> QED BY <2>1 DEF AbstractStatus
<1>6. \A m \in b.items : AbstractStatus[m] = "pending"
  BY <1>1, <1>2 DEF AbstractStatus
<1>7. Delivery!Settle(b.items, o)
  BY <1>1, <1>5, <1>6 DEF Delivery!Settle
<1> QED BY <1>1, <1>7 DEF Delivery!DeliveryNext, Delivery!Outcome

LEMMA SenderRefines ==
    ASSUME IInv, NEW b \in inflight, SenderStep(b)
    PROVE  [Delivery!DeliveryNext]_(Delivery!dvars)
<1>1. CASE ProviderAccepts(b)
  <2>1. b.items \in SUBSET Mentions /\ b.items # {} /\ b.attempt \in 0..Retries
    BY DEF IInv, TypeOK, Batch, BatchInv
  <2>2. Pending' = Pending
    <3> DEFINE c == [b EXCEPT !.phase = "accepted"]
    <3>1. c.items = b.items
      BY DEF IInv, TypeOK, Batch
    <3> HIDE DEF c
    <3>2. ReplaceBatch(b, c) /\ UNCHANGED queue
      BY <1>1 DEF ProviderAccepts, batcherVars, c
    <3> QED BY <3>1, <3>2, ReplaceKeepsPending
  <2>3. UNCHANGED AbstractStatus
    BY <1>1, <2>2 DEF AbstractStatus, ProviderAccepts
  <2>4. \A m \in b.items : AbstractStatus[m] = "pending" /\ accepted[m] < Retries + 1
    <3>1. \A m \in b.items : accepted[m] \in Nat /\ accepted[m] <= b.attempt
      BY <1>1, <2>1 DEF IInv, TypeOK, BatchInv, ProviderAccepts
    <3>2. \A m \in b.items : AbstractStatus[m] = "pending"
      BY <2>1, InPending DEF AbstractStatus
    <3> QED BY <2>1, <3>1, <3>2, ConstantsAssumption
  <2>5. Delivery!AcceptEmail(b.items)
    BY <1>1, <2>1, <2>3, <2>4 DEF Delivery!AcceptEmail, ProviderAccepts
  <2> QED BY <2>1, <2>5 DEF Delivery!DeliveryNext
<1>2. CASE Acknowledged(b)
  <2>1. \A m \in b.items : accepted[m] > 0
    BY <1>2 DEF Acknowledged, IInv, BatchInv
  <2>2. SettleBatch(b, "delivered") /\ UNCHANGED <<queue, accepted>>
    BY <1>2 DEF Acknowledged, batcherVars
  <2> QED BY <2>1, <2>2, SettleSettles
<1>3. CASE TransientFailure(b)
  <2> DEFINE c == [b EXCEPT !.phase = "backoff"]
  <2>1. c.items = b.items
    BY DEF IInv, TypeOK, Batch
  <2> HIDE DEF c
  <2>2. ReplaceBatch(b, c) /\ UNCHANGED <<queue, accepted, fate>>
    BY <1>3 DEF TransientFailure, batcherVars, c
  <2> QED BY <2>1, <2>2, ReplaceKeepsPending, IdleStutters
<1>4. CASE Retry(b)
  <2> DEFINE c == [b EXCEPT !.phase = "sending", !.attempt = @ + 1]
  <2>1. c.items = b.items
    BY DEF IInv, TypeOK, Batch
  <2> HIDE DEF c
  <2>2. ReplaceBatch(b, c) /\ UNCHANGED <<queue, accepted, fate>>
    BY <1>4 DEF Retry, batcherVars, c
  <2> QED BY <2>1, <2>2, ReplaceKeepsPending, IdleStutters
<1>5. CASE DeadLetter(b)
  <2>1. SettleBatch(b, "dead") /\ UNCHANGED <<queue, accepted>>
    BY <1>5 DEF DeadLetter, batcherVars
  <2> QED BY <2>1, SettleSettles
<1> QED BY <1>1, <1>2, <1>3, <1>4, <1>5 DEF SenderStep

LEMMA LoseSettles ==
    ASSUME IInv, NEW M, Cuts(M)
    PROVE  [Delivery!DeliveryNext]_(Delivery!dvars)
<1> USE DEF Cuts, LoseMemoryAnd
<1>1. Pending' = {}
  BY InPendingNext
<1>6. \A m \in M : fate[m] = "none" /\ m \notin Pending
  BY PendingOpen DEF IInv, RowInv
<1>2. Pending \in SUBSET Mentions /\ \A m \in Pending : AbstractStatus[m] = "pending"
  BY PendingOpen DEF AbstractStatus
<1>3. AbstractStatus' =
        [m \in Mentions |-> IF m \in Pending THEN "lost" ELSE AbstractStatus[m]]
  <2>1. ASSUME NEW m \in Mentions
        PROVE  AbstractStatus'[m] = IF m \in Pending THEN "lost" ELSE AbstractStatus[m]
    BY <1>1, <1>6 DEF AbstractStatus
  <2> QED BY <2>1 DEF AbstractStatus
<1>4. CASE Pending = {}
  <2>1. AbstractStatus' = AbstractStatus
    BY <1>3, <1>4 DEF AbstractStatus
  <2> QED BY <2>1 DEF Delivery!dvars
<1>5. CASE Pending # {}
  <2>1. Delivery!Settle(Pending, "lost")
    BY <1>2, <1>3, <1>5 DEF Delivery!Settle
  <2> QED BY <1>2, <2>1 DEF Delivery!DeliveryNext, Delivery!Outcome
<1> QED BY <1>4, <1>5

LEMMA NextRefines ==
    IInv /\ [Next]_vars => [Delivery!DeliveryNext]_(Delivery!dvars)
<1> SUFFICES ASSUME IInv, [Next]_vars
             PROVE  [Delivery!DeliveryNext]_(Delivery!dvars)
  OBVIOUS
<1>0. TypeOK
  BY DEF IInv
<1>1. ASSUME NEW n \in Notes, StoreDocument(n)
      PROVE  [Delivery!DeliveryNext]_(Delivery!dvars)
  <2>1. PICK mentioned \in SUBSET Users :
          InsertMentions(n, "note", NetNew(n, mentioned))
    BY <1>1 DEF StoreDocument
  <2>2. NetNew(n, mentioned) \in SUBSET Users /\ note[n] # "gone"
    BY <1>1 DEF NetNew, StoreDocument
  <2>3. \E M \in SUBSET Mentions : Inserts(M)
    BY <1>0, <2>1, <2>2, InsertEffect
  <2> QED BY <1>1, <2>3, InsertSubmits DEF StoreDocument
<1>2. ASSUME NEW n \in Notes, NEW c \in Comments, PostComment(n, c)
      PROVE  [Delivery!DeliveryNext]_(Delivery!dvars)
  <2>1. PICK mentioned \in SUBSET Users :
          InsertMentions(n, c, CommentRecipients(c, mentioned))
    BY <1>2 DEF PostComment
  <2>2. CommentRecipients(c, mentioned) \in SUBSET Users /\ note[n] # "gone"
    BY <1>2 DEF CommentRecipients, PostComment
  <2>3. \E M \in SUBSET Mentions : Inserts(M)
    BY <1>0, <2>1, <2>2, InsertEffect
  <2> QED BY <1>2, <2>3, InsertSubmits DEF PostComment
<1>3. ASSUME UNCHANGED <<queue, inflight, accepted, fate>>
      PROVE  UNCHANGED Delivery!dvars
  <2>1. Pending' = Pending
    BY <1>3 DEF Pending, Queued, Sending
  <2> QED BY <1>3, <2>1, IdleStutters
<1>4. ASSUME NEW n \in Notes, TrashNote(n) \/ RestoreNote(n) \/ PurgeNote(n)
      PROVE  UNCHANGED Delivery!dvars
  BY <1>3, <1>4 DEF TrashNote, RestoreNote, PurgeNote, batcherVars
<1>5. CASE Tick \/ FlushSettled \/ HttpClosed \/ Boot \/ UNCHANGED vars
  BY <1>3, <1>5 DEF Tick, FlushSettled, HttpClosed, Boot, vars, batcherVars
<1>6. ASSUME NEW u \in Users, FireBatch(u) PROVE UNCHANGED Delivery!dvars
  <2>1. Detaches({u}, FALSE) /\ UNCHANGED <<accepted, fate>>
    BY <1>0, <1>6 DEF FireBatch, Detaches, TypeOK
  <2>2. {u} \in SUBSET Users
    OBVIOUS
  <2> QED BY <1>0, <2>1, <2>2, DetachStutters
<1>7. CASE Sender
  BY <1>7, SenderRefines DEF Sender
<1>8. CASE Shutdown
  <2> DEFINE D == {v \in Users : queue[v] # {}}
  <2>1. Detaches(D, TRUE) /\ UNCHANGED <<accepted, fate>>
    BY <1>0, <1>8 DEF Shutdown, Detaches, TypeOK
  <2>2. D \in SUBSET Users
    OBVIOUS
  <2> HIDE DEF D
  <2> QED BY <1>0, <2>1, <2>2, DetachStutters
<1>9. CASE Exit \/ Crash
  BY <1>0, <1>9, LoseCutsNothing, LoseSettles DEF Exit, Crash
<1>10. ASSUME NEW n \in Notes, CrashInInsert(n)
       PROVE  [Delivery!DeliveryNext]_(Delivery!dvars)
  BY <1>10, CrashCuts, LoseSettles
<1> QED BY <1>1, <1>2, <1>4, <1>5, <1>6, <1>7, <1>8, <1>9, <1>10
        DEF Next, ShutdownStep

(* Behind the queue, the timers, the retries, the shutdown and the crashes *)
(* the pipeline is a MentionDelivery.                                      *)
THEOREM Refinement == Spec => ImplementsDelivery
<1>1. Init => Delivery!DeliveryInit
  BY DEF Init, Delivery!DeliveryInit, AbstractStatus, Pending, Queued, Sending
<1> QED BY <1>1, NextRefines, Invariance, PTL
        DEF Spec, ImplementsDelivery, Delivery!DeliverySpec

------------------------------------------------------------------------------
(* Fates are final.                                                        *)

LEMMA SenderFinal ==
    ASSUME IInv, NEW b \in inflight, SenderStep(b),
           NEW m \in Mentions, fate[m] # "none"
    PROVE  accepted'[m] = accepted[m] /\ fate'[m] = fate[m]
<1>1. m \notin b.items
  BY DEF IInv, BatchInv
<1> QED BY <1>1 DEF SenderStep, ProviderAccepts, Acknowledged, TransientFailure,
                    Retry, DeadLetter, SettleBatch

(* A mention that was marked sent, given up or lost is in no later email,  *)
(* and never changes its fate.                                             *)
THEOREM SpecFinalIsFinal == Spec => FinalIsFinal
<1> DEFINE Final == \A m \in Mentions : fate[m] # "none" =>
                        accepted'[m] = accepted[m] /\ fate'[m] = fate[m]
<1>1. IInv /\ [Next]_vars => [Final]_vars
  <2> SUFFICES ASSUME IInv, Next, NEW m \in Mentions, fate[m] # "none"
               PROVE  accepted'[m] = accepted[m] /\ fate'[m] = fate[m]
    OBVIOUS
  <2>1. CASE Sender
    BY <2>1, SenderFinal DEF Sender
  <2>2. ASSUME NEW M, Cuts(M)
        PROVE  accepted'[m] = accepted[m] /\ fate'[m] = fate[m]
    BY <2>2, PendingOpen DEF Cuts, LoseMemoryAnd, IInv, RowInv
  <2>4. CASE LoseMemory
    BY <2>2, <2>4, LoseCutsNothing DEF IInv
  <2>5. ASSUME NEW n \in Notes, CrashInInsert(n)
        PROVE  accepted'[m] = accepted[m] /\ fate'[m] = fate[m]
    BY <2>2, <2>5, CrashCuts
  <2>3. CASE UNCHANGED <<accepted, fate>>
    BY <2>3
  <2> QED BY <2>1, <2>3, <2>4, <2>5
          DEF Next, ShutdownStep, StoreDocument, PostComment, TrashNote,
              RestoreNote, PurgeNote, Tick, FireBatch, Shutdown, FlushSettled,
              HttpClosed, Exit, Crash, Boot
<1>2. [][Final]_vars => FinalIsFinal
  BY PTL DEF FinalIsFinal
<1> QED BY <1>1, <1>2, Invariance, PTL DEF Spec

------------------------------------------------------------------------------
(* The inbox holds one body row per note and user, and no self-mention.    *)

Mentioner(m) ==
    IF SourceOf[m] = "note" THEN Owner[NoteOf[m]] ELSE AuthorOf[SourceOf[m]]

SameBodyKey(m, k) ==
    /\ SourceOf[m] = "note" /\ SourceOf[k] = "note"
    /\ NoteOf[m] = NoteOf[k] /\ ToUser[m] = ToUser[k]

LEMMA RowsOneBodyRow ==
    ASSUME TypeOK, OneBodyRow, NEW n \in Notes, NEW src, NEW us \in SUBSET Users,
           NEW M \in SUBSET Mentions,
           row' = [m \in Mentions |-> IF m \in M THEN "unsent" ELSE row[m]],
           \A m \in M : NoteOf[m] = n /\ SourceOf[m] = src /\ ToUser[m] \in us,
           \A m, k \in M : ToUser[m] = ToUser[k] => m = k,
           \A u \in us : u # IF src = "note" THEN Owner[n] ELSE AuthorOf[src],
           src = "note" => \A u \in us : \A k \in Mentions :
              ~ (/\ HasRow(k) /\ NoteOf[k] = n
                 /\ SourceOf[k] = "note" /\ ToUser[k] = u)
    PROVE  OneBodyRow'
<1>3. \A m \in Mentions : HasRow(m)' => m \in M \/ HasRow(m)
  BY DEF HasRow
<1>4. ASSUME NEW m \in Mentions, NEW k \in Mentions,
             HasRow(m)', HasRow(k)', SameBodyKey(m, k)
      PROVE  m = k
  <2>1. CASE m \in M /\ k \in M
    BY <1>4, <2>1 DEF SameBodyKey
  <2>2. CASE m \notin M /\ k \notin M
    BY <1>3, <1>4, <2>2 DEF OneBodyRow, SameBodyKey
  <2>3. CASE (m \in M /\ k \notin M) \/ (m \notin M /\ k \in M)
    BY <1>3, <1>4, <2>3 DEF SameBodyKey
  <2> QED BY <2>1, <2>2, <2>3
<1>5. ASSUME NEW m \in Mentions, HasRow(m)'
      PROVE  ToUser[m] # Mentioner(m)
  <2>1. CASE m \in M
    BY <2>1 DEF Mentioner
  <2>2. CASE HasRow(m)
    BY <2>2 DEF OneBodyRow, Mentioner
  <2> QED BY <1>3, <1>5, <2>1, <2>2
<1> QED BY <1>4, <1>5 DEF OneBodyRow, SameBodyKey, Mentioner

(* The rows of an insert, whether or not the process survives it.          *)
LEMMA InsertDraws ==
    ASSUME NEW n, NEW src, NEW us,
           InsertMentions(n, src, us) \/ CutInsert(n, src, us)
    PROVE  \E M \in SUBSET Mentions :
              /\ row' = [m \in Mentions |-> IF m \in M THEN "unsent" ELSE row[m]]
              /\ \A m \in M : NoteOf[m] = n /\ SourceOf[m] = src /\ ToUser[m] \in us
              /\ \A m, k \in M : ToUser[m] = ToUser[k] => m = k
<1>1. CASE InsertMentions(n, src, us)
  <2>1. PICK draw \in [us -> {m \in Mentions : /\ row[m] = "none"
                                               /\ NoteOf[m] = n
                                               /\ SourceOf[m] = src}] :
          /\ \A u \in us : ToUser[draw[u]] = u
          /\ row' = [m \in Mentions |->
                        IF m \in {draw[u] : u \in us} THEN "unsent" ELSE row[m]]
    BY <1>1 DEF InsertMentions
  <2> DEFINE M == {draw[u] : u \in us}
  <2>2. /\ M \in SUBSET Mentions
        /\ \A m \in M : /\ NoteOf[m] = n /\ SourceOf[m] = src
                        /\ ToUser[m] \in us /\ draw[ToUser[m]] = m
    BY <2>1
  <2>3. row' = [m \in Mentions |-> IF m \in M THEN "unsent" ELSE row[m]]
    BY <2>1
  <2>4. \A m, k \in M : ToUser[m] = ToUser[k] => m = k
    BY <2>2
  <2> HIDE DEF M
  <2> QED BY <2>2, <2>3, <2>4
<1>2. CASE CutInsert(n, src, us)
  BY <1>2 DEF CutInsert
<1> QED BY <1>1, <1>2

LEMMA InsertOneBodyRow ==
    ASSUME TypeOK, OneBodyRow, NEW n \in Notes, NEW src, NEW us \in SUBSET Users,
           InsertMentions(n, src, us) \/ CutInsert(n, src, us),
           \A u \in us : u # IF src = "note" THEN Owner[n] ELSE AuthorOf[src],
           src = "note" => \A u \in us : \A k \in Mentions :
              ~ (/\ HasRow(k) /\ NoteOf[k] = n
                 /\ SourceOf[k] = "note" /\ ToUser[k] = u)
    PROVE  OneBodyRow'
<1>1. PICK M \in SUBSET Mentions :
        /\ row' = [m \in Mentions |-> IF m \in M THEN "unsent" ELSE row[m]]
        /\ \A m \in M : NoteOf[m] = n /\ SourceOf[m] = src /\ ToUser[m] \in us
        /\ \A m, k \in M : ToUser[m] = ToUser[k] => m = k
  BY InsertDraws
<1> QED BY <1>1, RowsOneBodyRow

(* However often a body is stored, and whatever else happens.              *)
THEOREM SpecOneBodyRow == Spec => []OneBodyRow
<1>1. Init => OneBodyRow
  BY DEF Init, OneBodyRow, HasRow
<1>2. TypeOK /\ OneBodyRow /\ [Next]_vars => OneBodyRow'
  <2> SUFFICES ASSUME TypeOK, OneBodyRow, [Next]_vars PROVE OneBodyRow'
    OBVIOUS
  <2>0. ASSUME \A m \in Mentions : HasRow(m)' => HasRow(m)
        PROVE  OneBodyRow'
    BY <2>0 DEF OneBodyRow
  <2>1. ASSUME NEW n \in Notes, StoreDocument(n) PROVE OneBodyRow'
    <3>1. PICK mentioned \in SUBSET Users :
            InsertMentions(n, "note", NetNew(n, mentioned))
      BY <2>1 DEF StoreDocument
    <3>2. NetNew(n, mentioned) \in SUBSET Users
      BY DEF NetNew
    <3>3. \A u \in NetNew(n, mentioned) :
            /\ u # Owner[n]
            /\ \A k \in Mentions : ~ (/\ HasRow(k) /\ NoteOf[k] = n
                                      /\ SourceOf[k] = "note" /\ ToUser[k] = u)
      BY DEF NetNew
    <3> QED BY <3>1, <3>2, <3>3, InsertOneBodyRow
  <2>2. ASSUME NEW n \in Notes, NEW c \in Comments, PostComment(n, c)
        PROVE  OneBodyRow'
    <3>1. PICK mentioned \in SUBSET Users :
            InsertMentions(n, c, CommentRecipients(c, mentioned))
      BY <2>2 DEF PostComment
    <3>2. /\ CommentRecipients(c, mentioned) \in SUBSET Users
          /\ \A u \in CommentRecipients(c, mentioned) : u # AuthorOf[c]
      BY DEF CommentRecipients
    <3> QED BY <3>1, <3>2, ConstantsAssumption, InsertOneBodyRow
  <2>3. CASE Sender
    <3>1. PICK b \in inflight : SenderStep(b)
      BY <2>3 DEF Sender
    <3>2. \A m \in Mentions : HasRow(m)' => HasRow(m)
      BY <3>1 DEF SenderStep, ProviderAccepts, Acknowledged, TransientFailure,
                  Retry, DeadLetter, HasRow, dbVars
    <3> QED BY <3>2, <2>0
  <2>4. ASSUME NEW n \in Notes, PurgeNote(n) PROVE OneBodyRow'
    BY <2>0, <2>4 DEF PurgeNote, HasRow
  <2>5. CASE UNCHANGED row
    BY <2>0, <2>5 DEF HasRow
  <2>6. ASSUME NEW n \in Notes, CrashInInsert(n) PROVE OneBodyRow'
    <3>1. PICK mentioned \in SUBSET Users :
            \/ CutInsert(n, "note", NetNew(n, mentioned))
            \/ \E c \in Comments : CutInsert(n, c, CommentRecipients(c, mentioned))
      BY <2>6 DEF CrashInInsert
    <3>2. /\ NetNew(n, mentioned) \in SUBSET Users
          /\ \A u \in NetNew(n, mentioned) :
                /\ u # Owner[n]
                /\ \A k \in Mentions : ~ (/\ HasRow(k) /\ NoteOf[k] = n
                                          /\ SourceOf[k] = "note" /\ ToUser[k] = u)
      BY DEF NetNew
    <3>3. \A c \in Comments :
            /\ CommentRecipients(c, mentioned) \in SUBSET Users
            /\ \A u \in CommentRecipients(c, mentioned) : u # AuthorOf[c]
      BY DEF CommentRecipients
    <3>4. CASE CutInsert(n, "note", NetNew(n, mentioned))
      BY <3>2, <3>4, InsertOneBodyRow
    <3>5. ASSUME NEW c \in Comments, CutInsert(n, c, CommentRecipients(c, mentioned))
          PROVE  OneBodyRow'
      BY <3>3, <3>5, ConstantsAssumption, InsertOneBodyRow
    <3> QED BY <3>1, <3>4, <3>5
  <2> QED BY <2>1, <2>2, <2>3, <2>4, <2>5, <2>6
          DEF Next, ShutdownStep, TrashNote, RestoreNote, Tick, FireBatch,
              Shutdown, FlushSettled, HttpClosed, Exit, Crash, LoseMemory,
              Boot, vars, dbVars
<1> QED BY <1>1, <1>2, TypeCorrect, PTL DEF Spec

------------------------------------------------------------------------------
(* The window slides.                                                      *)

(* A user's timer and the quiet time since the last enqueue add up to the  *)
(* window: enqueue restarts both, and time passes for both.                *)
WindowInv == \A u \in Users : timer[u] + quiet[u] = Window

LEMMA WindowInvariant == Spec => []WindowInv
<1>1. Init => WindowInv
  BY ConstantsAssumption DEF Init, WindowInv
<1>2. TypeOK /\ WindowInv /\ [Next]_vars => WindowInv'
  <2> SUFFICES ASSUME TypeOK, WindowInv, [Next]_vars PROVE WindowInv'
    OBVIOUS
  <2>1. ASSUME NEW M, EnqueueAll(M) PROVE WindowInv'
    BY <2>1, ConstantsAssumption DEF EnqueueAll, WindowInv
  <2>2. ASSUME NEW n \in Notes, StoreDocument(n) PROVE WindowInv'
    BY <2>1, <2>2 DEF StoreDocument, InsertMentions
  <2>3. ASSUME NEW n \in Notes, NEW c \in Comments, PostComment(n, c)
        PROVE  WindowInv'
    BY <2>1, <2>3 DEF PostComment, InsertMentions
  <2>4. CASE Tick
    <3>1. ASSUME NEW u \in Users PROVE timer'[u] + quiet'[u] = Window
      <4>1. timer[u] \in Nat /\ quiet[u] \in Nat /\ timer[u] + quiet[u] = Window
        BY ConstantsAssumption DEF TypeOK, WindowInv
      <4>2. /\ timer'[u] = IF timer[u] > 0 THEN timer[u] - 1 ELSE 0
            /\ quiet'[u] = IF quiet[u] < Window THEN quiet[u] + 1 ELSE Window
        BY <2>4 DEF Tick
      <4> QED BY <4>1, <4>2, ConstantsAssumption
    <3> QED BY <3>1 DEF WindowInv
  <2>5. CASE Shutdown \/ Exit \/ Crash \/ \E n \in Notes : CrashInInsert(n)
    <3>1. \A u \in Users : timer'[u] = 0 /\ quiet'[u] = Window
      BY <2>5 DEF Shutdown, Exit, Crash, LoseMemory, LoseMemoryAnd,
                  CrashInInsert, CutInsert
    <3>2. 0 + Window = Window
      BY ConstantsAssumption
    <3> QED BY <3>1, <3>2 DEF WindowInv
  <2>6. CASE UNCHANGED <<timer, quiet>>
    BY <2>6 DEF WindowInv
  <2> QED BY <2>2, <2>3, <2>4, <2>5, <2>6
          DEF Next, ShutdownStep, TrashNote, RestoreNote, PurgeNote, FireBatch,
              FlushSettled, HttpClosed, Boot, Sender, SenderStep,
              ProviderAccepts, Acknowledged, TransientFailure, Retry,
              DeadLetter, vars, batcherVars
<1> QED BY <1>1, <1>2, TypeCorrect, PTL DEF Spec

(* Outside shutdown a batch leaves only after a whole quiet window.        *)
THEOREM SpecWindowSlides == Spec => WindowSlides
<1> DEFINE Slides == \A b \in inflight' \ inflight :
              b.attempt = 0 /\ b.phase = "sending" /\ ~ b.flush
                  => quiet[b.to] = Window
<1>1. IInv /\ WindowInv /\ [Next]_vars => [Slides]_vars
  <2> SUFFICES ASSUME IInv, WindowInv, Next, NEW b \in inflight' \ inflight,
                      b.attempt = 0, b.phase = "sending", ~ b.flush
               PROVE  quiet[b.to] = Window
    OBVIOUS
  <2>1. ASSUME NEW u \in Users, FireBatch(u) PROVE quiet[b.to] = Window
    <3>1. b = NewBatch(u, FALSE) /\ timer[u] = 0
      BY <2>1 DEF FireBatch
    <3>2. b.to = u
      BY <3>1 DEF NewBatch
    <3>3. timer[u] + quiet[u] = Window /\ quiet[u] \in Nat
      BY ConstantsAssumption DEF WindowInv, IInv, TypeOK
    <3>4. quiet[u] = Window
      BY <3>1, <3>3
    <3> QED BY <3>2, <3>4
  <2>2. ASSUME NEW c \in inflight, SenderStep(c) PROVE FALSE
    <3>1. c \in Batch /\ c.attempt \in 0..Retries
      BY DEF IInv, TypeOK, Batch
    <3>2. CASE ProviderAccepts(c)
      BY <3>1, <3>2 DEF ProviderAccepts, ReplaceBatch, Batch
    <3>3. CASE TransientFailure(c)
      BY <3>1, <3>3 DEF TransientFailure, ReplaceBatch, Batch
    <3>4. CASE Retry(c)
      <4>1. b = [c EXCEPT !.phase = "sending", !.attempt = @ + 1]
        BY <3>4 DEF Retry, ReplaceBatch
      <4>2. b.attempt = c.attempt + 1
        BY <3>1, <4>1 DEF Batch
      <4> QED BY <3>1, <4>2
    <3>5. CASE Acknowledged(c) \/ DeadLetter(c)
      BY <3>5 DEF Acknowledged, DeadLetter, SettleBatch
    <3> QED BY <2>2, <3>2, <3>3, <3>4, <3>5 DEF SenderStep
  <2>3. CASE Shutdown
    BY <2>3 DEF Shutdown, NewBatch
  <2>4. CASE inflight' \subseteq inflight
    BY <2>4
  <2> QED BY <2>1, <2>2, <2>3, <2>4
          DEF Next, ShutdownStep, StoreDocument, PostComment, TrashNote,
              RestoreNote, PurgeNote, Tick, FlushSettled, HttpClosed, Exit,
              Crash, LoseMemory, LoseMemoryAnd, CrashInInsert, CutInsert, Boot,
              Sender
<1>2. [][Slides]_vars => WindowSlides
  BY PTL DEF WindowSlides
<1> QED BY <1>1, <1>2, Invariance, WindowInvariant, PTL DEF Spec

==============================================================================
